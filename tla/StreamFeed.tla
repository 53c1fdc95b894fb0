----------------------------- MODULE StreamFeed -----------------------------
(***************************************************************************)
(* What the ring of a stream promises its viewers, without a ring: the     *)
(* publisher's session is a growing stream of bytes 1, 2, 3, ..., a viewer *)
(* stands at a place in it, every delivery continues exactly where the     *)
(* previous one ended, and a viewer is moved to the live end only when it  *)
(* joins, when the session has changed under it, or when it has fallen     *)
(* a whole ring behind, and that last case is counted.                     *)
(***************************************************************************)
EXTENDS Integers, Sequences

CONSTANTS Readers

VARIABLES
  live,      \* is a session running
  session,   \* the identity of the session
  capacity,  \* how far behind a viewer may fall in this session
  head,      \* bytes published in this session
  skips,     \* how many viewers were moved forward in this session
  joined,    \* [Readers -> the session the viewer follows, 0 for none]
  cursor,    \* [Readers -> the last byte the viewer was given or skipped]
  out        \* [Readers -> the viewer's latest delivery]

feedVars == <<live, session, capacity, head, skips, joined, cursor, out>>

Init ==
  /\ live = FALSE
  /\ session = 0
  /\ capacity \in Nat \ {0}
  /\ head = 0
  /\ skips = 0
  /\ joined = [r \in Readers |-> 0]
  /\ cursor = [r \in Readers |-> 0]
  /\ out = [r \in Readers |-> << >>]

Start ==
  /\ ~live
  /\ live' = TRUE
  /\ session' > session
  /\ capacity' \in Nat \ {0}
  /\ head' = 0
  /\ skips' = 0
  /\ UNCHANGED <<joined, cursor, out>>

Stop ==
  /\ live
  /\ live' = FALSE
  /\ UNCHANGED <<session, capacity, head, skips, joined, cursor, out>>

Publish ==
  /\ live
  /\ head' > head
  /\ UNCHANGED <<live, session, capacity, skips, joined, cursor, out>>

ToLiveEnd(r) ==
  /\ joined' = [joined EXCEPT ![r] = session]
  /\ cursor' = [cursor EXCEPT ![r] = head]
  /\ out' = [out EXCEPT ![r] = << >>]
  /\ UNCHANGED <<live, session, capacity, head>>

Join(r) ==
  /\ live
  /\ joined[r] # session
  /\ skips' = skips
  /\ ToLiveEnd(r)

Skip(r) ==
  /\ live
  /\ joined[r] = session
  /\ head - cursor[r] >= capacity
  /\ skips' = skips + 1
  /\ ToLiveEnd(r)

Deliver(r) ==
  /\ live
  /\ joined[r] = session
  /\ head - cursor[r] < capacity
  /\ \E n \in 1 .. head - cursor[r] :
       /\ out' = [out EXCEPT ![r] = [i \in 1 .. n |-> cursor[r] + i]]
       /\ cursor' = [cursor EXCEPT ![r] = @ + n]
  /\ UNCHANGED <<live, session, capacity, head, skips, joined>>

Nothing(r) ==
  /\ out' = [out EXCEPT ![r] = << >>]
  /\ UNCHANGED <<live, session, capacity, head, skips, joined, cursor>>

Leave(r) ==
  /\ joined' = [joined EXCEPT ![r] = 0]
  /\ cursor' = [cursor EXCEPT ![r] = 0]
  /\ out' = [out EXCEPT ![r] = << >>]
  /\ UNCHANGED <<live, session, capacity, head, skips>>

Next ==
  \/ Start \/ Stop \/ Publish
  \/ \E r \in Readers :
       Join(r) \/ Skip(r) \/ Deliver(r) \/ Nothing(r) \/ Leave(r)

Spec == Init /\ [][Next]_feedVars
=============================================================================
