---------------------------- MODULE PushTargets ----------------------------
(***************************************************************************)
(* The push destinations a publisher's webhook returns, from the reply to  *)
(* the first connection and the reconnects: CSLSRole reads the reply and   *)
(* has every URL validated (SLSPushUrlValidator), CSLSPublisher copies the *)
(* accepted URLs and addresses into a relay configuration, and             *)
(* CSLSPusherManager opens a relay for each.  A host name is looked up on  *)
(* a thread of its own, which the worker waits for up to a deadline and    *)
(* then abandons; what a name stands for may change at any time.           *)
(***************************************************************************)
EXTENDS Integers, Sequences, FiniteSets, Functions

CONSTANTS
  Literals,        \* hosts written as addresses
  HostNames,       \* hosts that have to be looked up
  Answers,         \* what a lookup may return: sequences of addresses
  Internal,        \* addresses: loopback, link local or private
  HostAddrs,       \* addresses: of this host (push_url_self_addresses)
  PushConfs,       \* [max, allow_internal, allow_self]
  WebhookReplies,  \* sequences of entries
  MaxRenames       \* bound: changes of what a name stands for

NoLookup == 0

(* What matters of an entry: whether it is an object with a url; whether   *)
(* the url passes the checks of its text (length, placeholder, scheme,     *)
(* host, streamid); its host; whether it has a port.                       *)
WebhookEntries == [object : BOOLEAN, sound : BOOLEAN, host : Literals \cup HostNames, port : BOOLEAN]

ASSUME PushAssumption ==
  /\ PushConfs \subseteq [max : Nat, allow_internal : BOOLEAN, allow_self : BOOLEAN]
  /\ WebhookReplies \subseteq Seq(WebhookEntries)
  /\ Literals \cap HostNames = {}

VARIABLES
  pconf,           \* the app block's knobs
  reply,           \* pushTargets, from the entry at hand on
  dns,             \* what each host stands for now
  renames,
  lookups,         \* the rendezvous of every resolver thread
  waiting,         \* the lookup the worker waits for
  m_push_urls,
  m_push_vetted_addrs,
  upstream,        \* connect_all: the entry at hand; 0 before it is called
  queued,          \* the keys of m_map_reconnect_relay
  dialled,         \* ghost: what srt_connect was called with
  terminated       \* an exception left the worker thread

pushVars == <<pconf, reply, dns, renames, lookups, waiting, m_push_urls,
              m_push_vetted_addrs, upstream, queued, dialled, terminated>>

PushInit ==
  /\ pconf \in PushConfs /\ reply \in WebhookReplies
  /\ dns = [h \in Literals \cup HostNames |-> IF h \in Literals THEN <<h>> ELSE <<>>]
  /\ renames = 0 /\ lookups = <<>> /\ waiting = NoLookup
  /\ m_push_urls = <<>> /\ m_push_vetted_addrs = <<>>
  /\ upstream = 0 /\ queued = {} /\ dialled = {} /\ terminated = FALSE

-----------------------------------------------------------------------------
(* The loop over the resolved addresses: one that is not allowed is enough *)
(* to refuse the URL.                                                      *)
Verdict(addrs) ==
  /\ addrs # <<>>
  /\ \A a \in Range(addrs) : (a \in Internal => pconf.allow_internal)
                              /\ (a \in HostAddrs => pconf.allow_self)

(* The address would be kept before the verdict is known.                  *)
Keep_Early(url, addrs) ==
  /\ m_push_urls' = IF Verdict(addrs) THEN Append(m_push_urls, url) ELSE m_push_urls
  /\ m_push_vetted_addrs' =
       IF addrs # <<>> THEN Append(m_push_vetted_addrs, Head(addrs)) ELSE m_push_vetted_addrs

Keep(url, addrs) ==
  IF Verdict(addrs)
    THEN /\ m_push_urls' = Append(m_push_urls, url)
         /\ m_push_vetted_addrs' = Append(m_push_vetted_addrs, Head(addrs))
    ELSE UNCHANGED <<m_push_urls, m_push_vetted_addrs>>

Reading == ~terminated /\ reply # <<>> /\ waiting = NoLookup

(* An entry that is skipped, of bad form, or refused for its text.         *)
SkipEntry ==
  /\ Reading
  /\ Len(m_push_urls) >= pconf.max \/ ~Head(reply).object \/ ~Head(reply).sound
  /\ reply' = Tail(reply)
  /\ UNCHANGED <<pconf, dns, renames, lookups, waiting, m_push_urls, m_push_vetted_addrs,
                 upstream, queued, dialled, terminated>>

(* validate_push_url() up to the lookup: resolve_numeric() answers for an  *)
(* address at once, resolve_with_timeout() starts a thread for a name.     *)
validate_push_url ==
  /\ Reading /\ Len(m_push_urls) < pconf.max /\ Head(reply).object /\ Head(reply).sound
  /\ IF Head(reply).host \in Literals
       THEN /\ Keep(Head(reply), dns[Head(reply).host])
            /\ reply' = Tail(reply) /\ UNCHANGED <<lookups, waiting>>
       ELSE /\ lookups' = Append(lookups, [host |-> Head(reply).host, done |-> FALSE, addrs |-> <<>>])
            /\ waiting' = Len(lookups) + 1
            /\ UNCHANGED <<reply, m_push_urls, m_push_vetted_addrs>>
  /\ UNCHANGED <<pconf, dns, renames, upstream, queued, dialled, terminated>>

(* getaddrinfo() returns on a resolver thread, abandoned or not.           *)
ResolverAnswers(k) ==
  /\ ~lookups[k].done
  /\ lookups' = [lookups EXCEPT ![k].done = TRUE, ![k].addrs = dns[lookups[k].host]]
  /\ UNCHANGED <<pconf, reply, dns, renames, waiting, m_push_urls, m_push_vetted_addrs,
                 upstream, queued, dialled, terminated>>

(* The wait ends with the answer, or at the deadline without one.          *)
LookupEnds ==
  /\ ~terminated /\ waiting # NoLookup
  /\ IF lookups[waiting].done THEN Keep(Head(reply), lookups[waiting].addrs)
                              ELSE UNCHANGED <<m_push_urls, m_push_vetted_addrs>>
  /\ waiting' = NoLookup /\ reply' = Tail(reply)
  /\ UNCHANGED <<pconf, dns, renames, lookups, upstream, queued, dialled, terminated>>

-----------------------------------------------------------------------------
(* CSLSRelay::open(): parse_url() throws on a URL without a port and       *)
(* nothing catches it; srt_connect() may fail, and then the URL is queued. *)
Dial(url, addr, vetted, connected) ==
  IF ~url.port THEN terminated' = TRUE /\ UNCHANGED <<queued, dialled>>
  ELSE /\ dialled' = dialled \cup {[url |-> url, addr |-> addr, vetted |-> vetted]}
       /\ queued' \in {queued \cup {url}, connected}
       /\ UNCHANGED terminated

(* try_spawn_dynamic_pusher() and connect_all(): one upstream after the    *)
(* other, each with the address of the same index.                         *)
ConnectAll ==
  /\ ~terminated /\ reply = <<>> /\ upstream < Len(m_push_urls)
  /\ upstream' = upstream + 1
  /\ Dial(m_push_urls[upstream + 1], m_push_vetted_addrs[upstream + 1], TRUE, queued)
  /\ UNCHANGED <<pconf, reply, dns, renames, lookups, waiting, m_push_urls, m_push_vetted_addrs>>

(* A relay that breaks is queued (add_reconnect_stream).                   *)
RelayBreaks ==
  /\ ~terminated
  /\ \E d \in dialled : d.url \notin queued /\ queued' = queued \cup {d.url}
  /\ UNCHANGED <<pconf, reply, dns, renames, lookups, waiting, m_push_urls, m_push_vetted_addrs,
                 upstream, dialled, terminated>>

(* reconnect_all() passes no address: the host is looked up again.  It is  *)
(* the only one to take a URL off the queue, when the connection is made.  *)
ReconnectUrl(url) ==
  /\ ~terminated /\ upstream = Len(m_push_urls) /\ url \in queued
  /\ IF dns[url.host] = <<>> THEN UNCHANGED <<queued, dialled, terminated>>
     ELSE Dial(url, Head(dns[url.host]), FALSE, queued \ {url})
  /\ UNCHANGED <<pconf, reply, dns, renames, lookups, waiting, m_push_urls, m_push_vetted_addrs,
                 upstream>>

Renamed ==
  /\ renames < MaxRenames /\ renames' = renames + 1
  /\ \E h \in HostNames, a \in Answers : dns' = [dns EXCEPT ![h] = a]
  /\ UNCHANGED <<pconf, reply, lookups, waiting, m_push_urls, m_push_vetted_addrs,
                 upstream, queued, dialled, terminated>>

PushNext ==
  \/ SkipEntry \/ validate_push_url \/ LookupEnds \/ ConnectAll \/ RelayBreaks \/ Renamed
  \/ \E k \in 1..Len(lookups) : ResolverAnswers(k)
  \/ \E url \in queued : ReconnectUrl(url)

PushSpec == PushInit /\ [][PushNext]_pushVars

-----------------------------------------------------------------------------
(* A destination is first dialled at an address its own host stood for     *)
(* when it was validated, whatever was refused before it, whichever        *)
(* answers came too late and whatever the name stands for by then; and no  *)
(* more destinations are kept than the app block allows.                   *)
DialsOwnAddress ==
  /\ Len(m_push_urls) <= pconf.max
  /\ \A d \in dialled : d.vetted =>
       \/ d.addr = d.url.host
       \/ \E k \in 1..Len(lookups) :
            lookups[k].host = d.url.host /\ lookups[k].done
              /\ Verdict(lookups[k].addrs) /\ Head(lookups[k].addrs) = d.addr
=============================================================================
