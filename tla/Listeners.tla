------------------------------ MODULE Listeners ------------------------------
(***************************************************************************)
(* CSLSManager::start() up to the workers: the listeners of each server    *)
(* block, the port specs they are expanded from, the names each of them    *)
(* registers (CSLSListener::init_conf_app, CSLSMapPublisher, CSLSMapRelay) *)
(* and what a connection to one of them is taken for                       *)
(* (CSLSListener::handler).  A name domain/app is a pair; an app block is  *)
(* its index in the server block.                                          *)
(***************************************************************************)
EXTENDS Integers, Sequences, Functions

CONSTANTS
  Confs,           \* configurations: sequences of server blocks
  HostPorts,       \* ports that other programs may hold
  FallbackPort,    \* 30000
  MaxPort          \* 65535

(* What a server block says, its names and ports as read from the file.    *)
AppBlocks == [publisher : STRING, player : STRING, relays : Seq(STRING)]
ServerBlocks ==
  [publisher : Seq(Int \X Int), srtla : Seq(Int \X Int), player : Seq(Int \X Int),
   listen : Nat, apps : Seq(AppBlocks), crypto_ok : BOOLEAN,
   domain_publisher : STRING, domain_player : Seq(STRING)]

ASSUME ListenAssumption ==
  /\ Confs \subseteq Seq(ServerBlocks) \ {<<>>}
  /\ HostPorts \subseteq Nat /\ FallbackPort \in Nat \ {0} /\ MaxPort \in Nat

Phases == <<"publisher", "srtla", "player", "legacy", "fallback">>

VARIABLES
  lconf,           \* the configuration
  taken,           \* ports held by other programs
  server,          \* the server block at hand
  phase,           \* index into Phases
  todo,            \* ports of the spec still to be opened
  listeners,       \* those that run: [server, port, kind]
  names,           \* per server block: uplive names, live names, relays
  result

listenVars == <<lconf, taken, server, phase, todo, listeners, names, result>>

NoName == <<>>
NoNames == [ok |-> TRUE, uplive |-> <<>>, live |-> <<>>, relays |-> {}]

-----------------------------------------------------------------------------
(* sls_parse_port_list(): entries <<lo, hi>> become ports without          *)
(* repetition, in order; <<-1>> for a spec with a bad entry.               *)
BadSpec == <<-1>>

push_unique(ports, p) == IF p \in Range(ports) THEN ports ELSE Append(ports, p)

PushRange(ports, lo, hi) ==
  LET pushed[n \in 0..(hi - lo + 1)] ==
        IF n = 0 THEN ports ELSE push_unique(pushed[n - 1], lo + n - 1)
  IN  pushed[hi - lo + 1]

(* sls_parse_single_port() accepts both ends, and they are in order. *)
sls_parse_single_port(p) == p \in 1..MaxPort
BadEntry(e) == ~sls_parse_single_port(e[1]) \/ ~sls_parse_single_port(e[2]) \/ e[1] > e[2]

sls_parse_port_list(spec) ==
  LET parsed[i \in 0..Len(spec)] ==
        IF i = 0 THEN <<>> ELSE PushRange(parsed[i - 1], spec[i][1], spec[i][2])
  IN  IF \E e \in Range(spec) : BadEntry(e) THEN BadSpec ELSE parsed[Len(spec)]

SpecPorts(block, k) ==
  CASE Phases[k] = "publisher" -> sls_parse_port_list(block.publisher)
    [] Phases[k] = "srtla" -> sls_parse_port_list(block.srtla)
    [] Phases[k] = "player" -> sls_parse_port_list(block.player)
    [] Phases[k] = "legacy" -> IF block.listen > 0 THEN <<block.listen>> ELSE <<>>
    [] OTHER -> <<IF block.listen > 0 THEN block.listen ELSE FallbackPort>>

-----------------------------------------------------------------------------
(* init_conf_app(), run by every listener of a server block on the maps    *)
(* they share: what an earlier listener has registered must not count as a *)
(* duplicate.                                                              *)
set_conf(uplive, up, app) ==
  [x \in DOMAIN uplive \cup {up} |-> IF x \in DOMAIN uplive THEN uplive[x] ELSE app]

UpKey(block, a) == <<block.domain_publisher, block.apps[a].publisher>>
LiveKey(block, a, d) == <<block.domain_player[d], block.apps[a].player>>

(* A player name is taken unless it is there for the same publisher name.  *)
(* A name that is there would count as a duplicate, whoever registered it. *)
MayMap_Strict(t, live, up) == live \notin DOMAIN t.live
(* The name of another app would be let pass.                              *)
MayMap_Any(t, live, up) == TRUE
MayMap(t, live, up) == live \in DOMAIN t.live => t.live[live] = up

set_live_2_uplive(live, keys, up) ==
  [x \in DOMAIN live \cup keys |-> IF x \in DOMAIN live THEN live[x] ELSE up]

add_relay_conf(relays, types, up) == relays \cup {<<type, up>> : type \in types}

LiveKeys(block, a) == {LiveKey(block, a, d) : d \in DOMAIN block.domain_player}

(* The loops over the player domains and over the relays of an app end at  *)
(* the first error; what came before it stays.                             *)
AddLives(block, a, t) ==
  LET up == UpKey(block, a)
      domains == DOMAIN block.domain_player
      fine == {d \in domains : \A e \in 1..d :
                 /\ LiveKey(block, a, e) # up
                 /\ MayMap(t, LiveKey(block, a, e), up)}
  IN  [t EXCEPT !.ok = (fine = domains),
                !.live = set_live_2_uplive(@, {LiveKey(block, a, d) : d \in fine}, up)]

AddRelays(block, a, t) ==
  LET types == block.apps[a].relays
      fine == {i \in DOMAIN types : \A j \in 1..i : types[j] \in {"pull", "push"}}
  IN  IF ~t.ok THEN t
      ELSE [t EXCEPT !.ok = (fine = DOMAIN types),
                     !.relays = add_relay_conf(@, {types[i] : i \in fine}, UpKey(block, a))]

AddApp(block, a, t) ==
  LET t1 == [t EXCEPT !.uplive = set_conf(@, UpKey(block, a), a)]
  IN  IF ~t.ok \/ block.apps[a].publisher = "" THEN [t EXCEPT !.ok = FALSE]
      ELSE IF block.apps[a].player = "" THEN [t1 EXCEPT !.ok = FALSE]
      ELSE AddRelays(block, a, AddLives(block, a, t1))

init_conf_app(block, old) ==
  LET walk[a \in 0..Len(block.apps)] ==
        IF a = 0 THEN [old EXCEPT !.ok = TRUE] ELSE AddApp(block, a, walk[a - 1])
  IN  IF block.domain_player = <<>> \/ block.domain_publisher = "" \/ block.apps = <<>>
      THEN [old EXCEPT !.ok = FALSE]
      ELSE walk[Len(block.apps)]

-----------------------------------------------------------------------------
Block == lconf[server]

Own == {l \in listeners : l.server = server}
Bound == {l.port : l \in Own}

ListenInit ==
  /\ lconf \in Confs /\ taken \in SUBSET HostPorts
  /\ server = 1 /\ phase = 1 /\ todo = SpecPorts(lconf[1], 1)
  /\ listeners = {} /\ result = "starting"
  /\ names = [s \in 1..Len(lconf) |-> NoNames]

(* libsrt_setup() and libsrt_listen() fail on a port that is in use, by    *)
(* another program or by a listener of another server block.               *)
Bindable(p) == p \notin taken /\ \A l \in listeners : l.port # p

(* CSLSListener::start(): names first, then the encryption settings, then  *)
(* the socket.  What it has registered stays when it fails.                *)
Started(p) == names'[server].ok /\ Block.crypto_ok /\ Bindable(p)

Registers == names' = [names EXCEPT ![server] = init_conf_app(Block, @)]

Opened(p) ==
  listeners' = listeners \cup {[server |-> server, port |-> p, kind |-> Phases[phase]]}

Fails == result' = "error" /\ UNCHANGED <<listeners, todo>>

(* create_for_spec(): the first spec that names a port gets it.            *)
OpenSpecPort ==
  /\ result = "starting" /\ phase < 4 /\ todo # <<>>
  /\ \/ todo = BadSpec /\ Fails /\ UNCHANGED names
     \/ /\ Head(todo) \in Bound
        /\ todo' = Tail(todo) /\ UNCHANGED <<names, listeners, result>>
     \/ /\ todo # BadSpec /\ Head(todo) \notin Bound /\ Registers
        /\ IF Started(Head(todo))
             THEN Opened(Head(todo)) /\ todo' = Tail(todo) /\ UNCHANGED result
             ELSE Fails
  /\ UNCHANGED <<lconf, taken, server, phase>>

(* The listener on the listen port: a failure to start is let pass.        *)
OpenLegacy ==
  /\ result = "starting" /\ phase = 4 /\ todo # <<>>
  /\ IF Head(todo) \in Bound THEN UNCHANGED <<names, listeners>>
     ELSE Registers /\ (IF Started(Head(todo)) THEN Opened(Head(todo)) ELSE UNCHANGED listeners)
  /\ todo' = <<>>
  /\ UNCHANGED <<lconf, taken, server, phase, result>>

OpenFallback ==
  /\ result = "starting" /\ phase = 5 /\ todo # <<>>
  /\ IF Own # {} THEN todo' = <<>> /\ UNCHANGED <<names, listeners, result>>
     ELSE /\ Registers
          /\ IF Started(Head(todo)) THEN Opened(Head(todo)) /\ todo' = <<>> /\ UNCHANGED result
                                    ELSE Fails
  /\ UNCHANGED <<lconf, taken, server, phase>>

NextSpec ==
  /\ result = "starting" /\ todo = <<>> /\ phase < 5
  /\ phase' = phase + 1 /\ todo' = SpecPorts(Block, phase + 1)
  /\ UNCHANGED <<lconf, taken, server, listeners, names, result>>

NextServer ==
  /\ result = "starting" /\ todo = <<>> /\ phase = 5
  /\ IF server < Len(lconf)
       THEN /\ server' = server + 1 /\ phase' = 1
            /\ todo' = SpecPorts(lconf[server + 1], 1) /\ UNCHANGED result
       ELSE result' = "ok" /\ UNCHANGED <<server, phase, todo>>
  /\ UNCHANGED <<lconf, taken, listeners, names>>

ListenNext == OpenSpecPort \/ OpenLegacy \/ OpenFallback \/ NextSpec \/ NextServer

ListenSpec == ListenInit /\ [][ListenNext]_listenVars

-----------------------------------------------------------------------------
(* What CSLSListener::handler() takes a connection for, by the name in its *)
(* streamid: get_uplive() makes it a player, get_ca() finds the app block. *)
get_uplive(t, key) == IF key \in DOMAIN t.live THEN t.live[key] ELSE NoName
get_ca(t, up) == IF up \in DOMAIN t.uplive THEN t.uplive[up] ELSE 0

Refused == [role |-> "refused", up |-> NoName, app |-> 0]

(* A player's name is refused on a publisher's port and the other way      *)
(* round; legacy listeners take both.                                      *)
Allowed(kind, player) ==
  CASE kind = "player" -> player
    [] kind \in {"publisher", "srtla"} -> ~player
    [] OTHER -> TRUE

Route(l, key) ==
  LET t == names[l.server]
      player == get_uplive(t, key) # NoName
      up == IF player THEN get_uplive(t, key) ELSE key
      role == IF player THEN "player" ELSE "publisher"
  IN  IF ~Allowed(l.kind, player) \/ get_ca(t, up) = 0 THEN Refused
      ELSE [role |-> role, up |-> up, app |-> get_ca(t, up)]

-----------------------------------------------------------------------------
Up(s) == {UpKey(lconf[s], a) : a \in 1..Len(lconf[s].apps)}
Live(s) == UNION {LiveKeys(lconf[s], a) : a \in 1..Len(lconf[s].apps)}

(* A server that has started serves every port its blocks name, in the     *)
(* role of the first spec that names it, and a name reaches the app block  *)
(* that declares it: whichever listener registered it first, players and   *)
(* publishers of one app meet under one key and one configuration.         *)
ServesConfiguration ==
  result = "ok" =>
    /\ \A s \in 1..Len(lconf) :
         /\ \E l \in listeners : l.server = s
         /\ \A k \in 1..3 : \A p \in Range(SpecPorts(lconf[s], k)) :
              (\A j \in 1..(k - 1) : p \notin Range(SpecPorts(lconf[s], j))) =>
                [server |-> s, port |-> p, kind |-> Phases[k]] \in listeners
    /\ \A l \in listeners :
         LET s == l.server
             apps == lconf[s].apps
         IN  \A key \in Up(s) \cup Live(s) :
               LET r == Route(l, key)
                   claims == {a \in 1..Len(apps) : key \in LiveKeys(lconf[s], a)}
               IN  /\ key \in Live(s) /\ l.kind \notin {"publisher", "srtla"} =>
                        r.role = "player" /\ \A a \in claims : r.up = UpKey(lconf[s], a)
                   /\ key \in Up(s) \ Live(s) /\ l.kind # "player" =>
                        r.role = "publisher" /\ r.up = key
                   /\ r # Refused => UpKey(lconf[s], r.app) = r.up

(* start() gives up only for a reason in the configuration or on the host: *)
(* a bad spec, name or setting of the block at hand, or a port of it that  *)
(* something else holds.  The second and third listener of a block do not  *)
(* trip over what the first one has registered.                            *)
StartRefusedForCause ==
  result = "error" =>
    LET apps == 1..Len(Block.apps)
    IN  \/ \E k \in 1..3 : SpecPorts(Block, k) = BadSpec
        \/ ~Block.crypto_ok \/ Block.apps = <<>>
        \/ Block.domain_player = <<>> \/ Block.domain_publisher = ""
        \/ \E a \in apps :
             \/ Block.apps[a].publisher = "" \/ Block.apps[a].player = ""
             \/ UpKey(Block, a) \in LiveKeys(Block, a)
             \/ \E t \in Range(Block.apps[a].relays) : t \notin {"pull", "push"}
             \/ \E b \in apps : LiveKeys(Block, a) \cap LiveKeys(Block, b) # {}
                                 /\ UpKey(Block, a) # UpKey(Block, b)
        \/ \E k \in 1..5 : \E p \in Range(SpecPorts(Block, k)) :
             p \in taken \/ \E l \in listeners : l.port = p /\ l.server # server

(* start() does what the configuration asks for, or refuses it for a cause *)
(* that lies in the configuration or on the host.                          *)
StartMatchesConfiguration == ServesConfiguration /\ StartRefusedForCause
=============================================================================
