---------------------------- MODULE KeyRateLimit ----------------------------
(***************************************************************************)
(* The rate limit on player-key validations: is_rate_limited,              *)
(* update_rate_limit and cleanup_expired_rate_limits of CSLSListener.  An  *)
(* address may have the webhook asked m_player_key_rate_limit_requests     *)
(* times in a sliding window.  What the webhook answers, and what the      *)
(* cache makes of it, is in PlayerKeyGate.                                 *)
(*                                                                         *)
(* All of it runs on the listener's worker, a call of validate_player_key  *)
(* is one step.  A request time is kept as its age in ticks; an age above  *)
(* MaxAge is older than anything the code asks for.                        *)
(***************************************************************************)
EXTENDS Integers, Sequences, FiniteSets

CONSTANTS
  IPs,
  m_player_key_rate_limit_requests,  \* -1: no limit
  m_player_key_rate_limit_window,
  MAX_RATE_LIMIT_ENTRIES

ASSUME RateAssumption ==
  /\ m_player_key_rate_limit_requests \in Nat \cup {-1}
  /\ m_player_key_rate_limit_window \in Nat \ {0}
  /\ MAX_RATE_LIMIT_ENTRIES \in Nat \ {0}

Limit == m_player_key_rate_limit_requests
Window == m_player_key_rate_limit_window
MaxAge == 2 * Window + 1

VARIABLES
  m_rate_limit_map,  \* tracked address -> request_times, oldest first
  asked,    \* history: [IPs -> ages of its last webhooks, in the window,
            \* that were sent while the map had room for the address]
  refused   \* history: the address the last step refused, if any

rateVars == <<m_rate_limit_map, asked, refused>>

RateInit ==
  /\ m_rate_limit_map = [ip \in {} |-> <<>>]
  /\ asked = [ip \in IPs |-> <<>>]
  /\ refused = {}

Tracked(m) == DOMAIN m

-----------------------------------------------------------------------------
(* Mutant: old requests are never dropped. *)
Trim_Never(times, age) == times

(* pop_front while the oldest request left is before the start of the      *)
(* window: k of them go, and the loop stops at the first that is not.      *)
Trim(times, age) ==
  LET k == CHOOSE k \in 0..Len(times) :
             /\ \A i \in 1..k : times[i] > age
             /\ k < Len(times) => times[k + 1] <= age
  IN  SubSeq(times, k + 1, Len(times))

(* Mutant: an address goes when its oldest request is old. *)
Collected_ByOldest(m) ==
  [ip \in {i \in Tracked(m) : m[i] # <<>> /\ Head(m[i]) <= Window} |-> m[ip]]

(* The sweep of the whole map, after twice the window. *)
Collected(m) ==
  LET kept == [ip \in Tracked(m) |-> Trim(m[ip], 2 * Window)]
  IN  [ip \in {i \in Tracked(m) : kept[i] # <<>>} |-> kept[ip]]

(* The map after is_rate_limited has looked for ip. *)
Looked(m, ip) ==
  IF ip \in Tracked(m) THEN [m EXCEPT ![ip] = Trim(@, Window)] ELSE m

is_rate_limited(m, ip) ==
  Limit # -1 /\ ip \in Tracked(m) /\ Len(m[ip]) >= Limit

(* The map with a request of ip now. *)
With(m, ip) ==
  [i \in Tracked(m) \cup {ip} |->
     IF i # ip THEN m[i] ELSE IF i \in Tracked(m) THEN Append(m[i], 0) ELSE <<0>>]

(* Mutant: the size test is off by one. *)
update_rate_limit_OffByOne(m, ip) ==
  IF Limit = -1 THEN m
  ELSE IF ip \in Tracked(m) \/ Cardinality(Tracked(m)) <= MAX_RATE_LIMIT_ENTRIES
       THEN With(m, ip)
  ELSE IF Cardinality(Tracked(Collected(m))) <= MAX_RATE_LIMIT_ENTRIES
       THEN With(Collected(m), ip) ELSE Collected(m)

(* A new address that finds the map full of live entries is not tracked. *)
update_rate_limit(m, ip) ==
  IF Limit = -1 THEN m
  ELSE IF ip \in Tracked(m) \/ Cardinality(Tracked(m)) < MAX_RATE_LIMIT_ENTRIES
       THEN With(m, ip)
  ELSE IF Cardinality(Tracked(Collected(m))) < MAX_RATE_LIMIT_ENTRIES
       THEN With(Collected(m), ip) ELSE Collected(m)

(* Mutant: a refusal counts as a request, so that retrying renews it. *)
Refused_Counted(m, ip) ==
  IF m[ip] = <<>> THEN m ELSE [m EXCEPT ![ip] = Append(Tail(@), 0)]

(* What a refusal leaves in the map: it is not counted. *)
Refused(m, ip) == m

(* The maps is_rate_limited can leave: cleanup_expired_rate_limits does    *)
(* its sweep at most every RATE_LIMIT_CLEANUP_INTERVAL.                    *)
LookedUp(ip) ==
  IF Limit = -1 THEN {m_rate_limit_map}
  ELSE {Looked(m, ip) : m \in {m_rate_limit_map, Collected(m_rate_limit_map)}}

(* validate_player_key for a well-formed key of a client at ip. *)
OverLimit(ip) ==
  \E m \in LookedUp(ip) :
    /\ is_rate_limited(m, ip)
    /\ m_rate_limit_map' = Refused(m, ip)
    /\ refused' = {ip}
    /\ UNCHANGED asked

(* The key is cached, its request is in flight, or too many are. *)
NotAsked(ip) ==
  \E m \in LookedUp(ip) :
    /\ ~is_rate_limited(m, ip)
    /\ m_rate_limit_map' = m
    /\ refused' = {}
    /\ UNCHANGED asked

(* The history keeps one webhook more than the limit allows. *)
Remembered(times) == IF Len(times) > Limit + 1 THEN Tail(times) ELSE times

(* start_player_key_validation sends the webhook. *)
Ask(ip) ==
  \E m \in LookedUp(ip) :
    /\ ~is_rate_limited(m, ip)
    /\ m_rate_limit_map' = update_rate_limit(m, ip)
    /\ asked' = IF ip \in Tracked(m_rate_limit_map')
                THEN [asked EXCEPT ![ip] = Remembered(Append(@, 0))] ELSE asked
    /\ refused' = {}

OlderRequests(times) ==
  [i \in DOMAIN times |-> IF times[i] < MaxAge THEN times[i] + 1 ELSE times[i]]

(* The webhooks of the history that are still in the window: the last ones *)
(* of those that were, as the oldest comes first.                          *)
InWindow(times) ==
  LET k == CHOOSE k \in 0..Len(times) :
             \A i \in 1..Len(times) : i <= k <=> times[i] > Window
  IN  SubSeq(times, k + 1, Len(times))

RateTick ==
  /\ m_rate_limit_map' = [ip \in Tracked(m_rate_limit_map) |->
                            OlderRequests(m_rate_limit_map[ip])]
  /\ asked' = [ip \in IPs |-> InWindow(OlderRequests(asked[ip]))]
  /\ refused' = {}

RateNext ==
  \/ \E ip \in IPs : OverLimit(ip) \/ NotAsked(ip) \/ Ask(ip)
  \/ RateTick

RateSpec == RateInit /\ [][RateNext]_rateVars

(* The clock runs. *)
RateFairness == WF_rateVars(RateTick)
RateFairSpec == RateSpec /\ RateFairness

-----------------------------------------------------------------------------
(* "Max validation requests per peer IP per window": the webhook is not    *)
(* asked more often than the limit for an address in any window, whatever  *)
(* the sweeps have dropped.  An address for which a full map has no room   *)
(* is let through uncounted (update_rate_limit), and is not counted here.  *)
WebhookBudget == Limit > 0 => \A ip \in IPs : Len(asked[ip]) <= Limit

(* Only an address that really used its budget up in the last window is    *)
(* refused; old requests and refusals are not held against it.             *)
RefusedOverBudget == \A ip \in refused : Len(asked[ip]) >= Limit

(* is_rate_limited() with update_rate_limit() and the sweeps: the window   *)
(* of an address lets through what the limit says, no more and no less.    *)
RateLimitExact == WebhookBudget /\ RefusedOverBudget

(* A client that keeps retrying is not shut out for good: again and again  *)
(* a moment comes at which its address would not be refused.               *)
RefusalEnds ==
  \A ip \in IPs : []<>~is_rate_limited(Looked(m_rate_limit_map, ip), ip)
=============================================================================
