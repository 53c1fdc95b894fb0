------------------------------ MODULE PeerAcl ------------------------------
(***************************************************************************)
(* The allow and deny rules of an app block: how sls_conf_set_ipset()      *)
(* stores them, how CSLSSrt::libsrt_getpeeraddr_raw() reads the address of *)
(* a peer off its socket, and what sls_check_ip_acl() makes of the two for *)
(* a publisher or a player.  An address is a family and a host; the        *)
(* listener is a dual-stack one, so an IPv4 host may show as IPv4-mapped.  *)
(***************************************************************************)
EXTENDS Integers, Sequences, FiniteSetsExt

CONSTANTS
  V4Hosts, V6Hosts,
  MaxRules             \* bound: rules of an app block

ASSUME AclAssumption == V4Hosts \cap V6Hosts = {} /\ MaxRules \in Nat

Targets == {"play", "publish"}

(* What may be written after allow or deny, and what a socket may report.  *)
Address(family, hosts) == [family : {family}, host : hosts]
SocketAddresses ==
  Address("V4", V4Hosts) \cup Address("MAPPED", V4Hosts) \cup Address("V6", V6Hosts)
Anyone == [family |-> "WILDCARD", host |-> "any"]
NotAnAddress == [family |-> "bad", host |-> "any"]
Literals == SocketAddresses \cup {Anyone, NotAnAddress}

Rules == [action : {"ACCEPT", "DENY"}, target : Targets \cup {"other"}, address : Literals]

VARIABLES
  written,             \* the rules of the app block as they stand in the file
  ip_actions,          \* sls_ip_acl_t: [Targets -> sequence of entries]
  load,                \* "reading", "ok" or "failed"
  peer,                \* the connection at hand
  verdict              \* "none" until it has been judged

aclVars == <<written, ip_actions, load, peer, verdict>>

NoConn == [target |-> "none", sockaddr |-> NotAnAddress, known |-> FALSE]

AclInit ==
  /\ written = <<>> /\ ip_actions = [t \in Targets |-> <<>>] /\ load = "reading"
  /\ peer = NoConn /\ verdict = "none"

(* inet_pton(): a mapped literal is an IPv6 address like any other.        *)
AclEntry(r) ==
  [action |-> r.action,
   address |-> IF r.address.family = "MAPPED" THEN [r.address EXCEPT !.family = "V6"]
               ELSE r.address]

sls_conf_set_ipset(r) ==
  /\ load = "reading" /\ Len(written) < MaxRules
  /\ written' = Append(written, r)
  /\ IF r.target \in Targets /\ r.address # NotAnAddress
       THEN /\ ip_actions' = [ip_actions EXCEPT ![r.target] = Append(@, AclEntry(r))]
            /\ UNCHANGED load
       ELSE load' = "failed" /\ UNCHANGED ip_actions
  /\ UNCHANGED <<peer, verdict>>

Loaded ==
  /\ load = "reading" /\ load' = "ok"
  /\ UNCHANGED <<written, ip_actions, peer, verdict>>

(* srt_getpeername() may fail, on a connection that broke at once.         *)
PeerConnects(target, sockaddr, known) ==
  /\ load = "ok" /\ peer = NoConn
  /\ peer' = [target |-> target, sockaddr |-> sockaddr, known |-> known]
  /\ UNCHANGED <<written, ip_actions, load, verdict>>

(* The mapped form would be taken for an IPv6 address.                     *)
libsrt_getpeeraddr_raw_Mapped(sockaddr) ==
  IF sockaddr.family = "MAPPED" THEN [sockaddr EXCEPT !.family = "V6"] ELSE sockaddr

libsrt_getpeeraddr_raw(sockaddr) ==
  IF sockaddr.family = "MAPPED" THEN [sockaddr EXCEPT !.family = "V4"] ELSE sockaddr

(* The loop over the entries returns at the first that matches.            *)
sls_check_ip_acl(entries, peer_addr) ==
  LET hits == {i \in 1..Len(entries) : entries[i].address \in {Anyone, peer_addr}}
  IN  IF hits = {} THEN "NO_MATCH" ELSE entries[Min(hits)].action

CheckAcl ==
  /\ peer # NoConn /\ verdict = "none"
  /\ verdict' = IF ~peer.known THEN "refused"
                ELSE IF sls_check_ip_acl(ip_actions[peer.target],
                                         libsrt_getpeeraddr_raw(peer.sockaddr)) = "DENY"
                THEN "refused" ELSE "admitted"
  /\ UNCHANGED <<written, ip_actions, load, peer>>

AclNext ==
  \/ \E r \in Rules : sls_conf_set_ipset(r)
  \/ Loaded
  \/ \E t \in Targets, a \in SocketAddresses, known \in BOOLEAN : PeerConnects(t, a, known)
  \/ CheckAcl

AclSpec == AclInit /\ [][AclNext]_aclVars

-----------------------------------------------------------------------------
(* The rule r of the file is for the role of the peer p and names its host. *)
Names(r, p) ==
  /\ r.target = p.target
  /\ \/ r.address = Anyone
     \/ r.address.family # "MAPPED" /\ r.address.host = p.sockaddr.host

(* An allow or deny line decides for the host it names, in whichever form  *)
(* the dual-stack socket reports that host: the first line of the file for *)
(* the role that names the host, or all, and nobody is refused without     *)
(* one.  A line that spells an IPv4 host in its mapped form names nobody:  *)
(* the parser keeps it as IPv6, and peers are unwrapped.                   *)
FirstRuleDecides ==
  verdict # "none" /\ peer.known =>
    LET naming == {i \in 1..Len(written) : Names(written[i], peer)}
    IN  verdict = IF naming # {} /\ written[Min(naming)].action = "DENY"
                  THEN "refused" ELSE "admitted"
=============================================================================
