----------------------------- MODULE StartProofs -----------------------------
(***************************************************************************)
(* Proofs about what the server makes of its configuration file: about     *)
(* CSLSManager::start(), for any configuration and any ports that other    *)
(* programs hold, and, at the end, about the parser, for any file.         *)
(*                                                                         *)
(* The loops of the code (over a range of ports, the entries of a spec,    *)
(* the apps of a block) are recursive functions; a lemma for each of them  *)
(* (PushRangeIsLoop, ParseIsLoop, InitConfAppIsLoop) turns it into a       *)
(* sequence of rounds, and what the loop computes is shown by induction on *)
(* the set of rounds.  The invariant of start() itself is StartInv, that   *)
(* of the parser ConfInv.                                                  *)
(***************************************************************************)
EXTENDS Listeners, ConfFile, CountingTheorems, SequenceTheorems

-----------------------------------------------------------------------------
Ports == Nat \ {0}

(* Lists of ports in which none occurs twice. *)
PortLists ==
  {ports \in Seq(Ports) : \A i, j \in 1..Len(ports) : ports[i] = ports[j] => i = j}

(* A port is appended unless it is there. *)
LEMMA PushDoes ==
  ASSUME NEW ports \in PortLists, NEW p \in Ports
  PROVE  /\ push_unique(ports, p) \in PortLists
         /\ Range(push_unique(ports, p)) = Range(ports) \cup {p}
<1>0. ports \in Seq(Ports) /\ \A i, j \in 1..Len(ports) : ports[i] = ports[j] => i = j
  BY DEF PortLists
<1>1. CASE p \in Range(ports)
  BY <1>1 DEF push_unique
<1>2. CASE p \notin Range(ports)
  <2> DEFINE t == Append(ports, p)
  <2>1. push_unique(ports, p) = t
    BY <1>2 DEF push_unique
  <2>2. /\ t \in Seq(Ports) /\ Len(t) = Len(ports) + 1 /\ Len(ports) \in Nat
        /\ \A i \in 1..Len(ports) : t[i] = ports[i]
        /\ t[Len(ports) + 1] = p
    BY <1>0
  <2>3. \A i \in 1..Len(ports) : ports[i] # p
    BY <1>0, <1>2 DEF Range
  <2>4. Range(t) = Range(ports) \cup {p}
    BY <1>0 DEF Range
  <2> HIDE DEF t
  <2>5. ASSUME NEW i \in 1..Len(t), NEW j \in 1..Len(t), t[i] = t[j]
        PROVE  i = j
    <3>1. (i \in 1..Len(ports) \/ i = Len(ports) + 1) /\ (j \in 1..Len(ports) \/ j = Len(ports) + 1)
      BY <2>2
    <3> QED BY <1>0, <2>2, <2>3, <2>5, <3>1
  <2>6. t \in PortLists
    BY <2>2, <2>5 DEF PortLists
  <2> QED BY <2>1, <2>4, <2>6
<1> QED BY <1>1, <1>2

(* A range is pushed port by port. *)
LEMMA PushRangeIsLoop ==
  ASSUME NEW ports \in PortLists, NEW lo \in Ports, NEW hi \in Ports, lo <= hi,
         NEW n \in Nat, n = hi - lo + 1
  PROVE  \E f \in [0..n -> PortLists] :
           /\ f[0] = ports
           /\ \A i \in 1..n : f[i] = push_unique(f[i - 1], lo + i - 1)
           /\ PushRange(ports, lo, hi) = f[n]
<1>0. n \in Nat
  OBVIOUS
<1> DEFINE step == [i \in 1..n |-> [x \in PortLists |-> push_unique(x, lo + i - 1)]]
           Loop(f) == [i \in 0..n |-> IF i = 0 THEN ports ELSE push_unique(f[i - 1], lo + i - 1)]
           g == CHOOSE g : g = Loop(g)
<1>1. \A i \in 1..n, x \in PortLists : push_unique(x, lo + i - 1) \in PortLists
  <2>1. \A i \in 1..n : lo + i - 1 \in Ports
    BY DEF Ports
  <2> QED BY <2>1, PushDoes
<1>2. step \in [1..n -> [PortLists -> PortLists]]
  BY <1>1
<1>3. ports \in PortLists
  OBVIOUS
<1>4. PICK f \in [0..n -> PortLists] : IsLoop(f, ports, step, n)
  <2> HIDE DEF step
  <2> QED BY <1>0, <1>2, <1>3, LoopExists
<1>5. \A i \in 1..n : i - 1 \in 0..n /\ i \in 0..n /\ i # 0
  BY <1>0
<1>6. ASSUME NEW i \in 0..n
      PROVE  f[i] = IF i = 0 THEN ports ELSE push_unique(f[i - 1], lo + i - 1)
  <2>1. f[i] = IF i = 0 THEN ports ELSE step[i][f[i - 1]]
    <3> HIDE DEF step
    <3>1. f = [j \in 0..n |-> IF j = 0 THEN ports ELSE step[j][f[j - 1]]]
      BY <1>4 DEF IsLoop
    <3> DEFINE h == [j \in 0..n |-> IF j = 0 THEN ports ELSE step[j][f[j - 1]]]
    <3>2. h[i] = IF i = 0 THEN ports ELSE step[i][f[i - 1]]
      OBVIOUS
    <3>3. f = h
      BY <3>1
    <3> HIDE DEF h
    <3> QED BY <3>2, <3>3
  <2>2. CASE i = 0
    BY <2>1, <2>2
  <2>3. CASE i # 0
    <3>0. i \in 1..n /\ i - 1 \in 0..n
      BY <1>0, <2>3
    <3>1. i \in 1..n /\ f[i - 1] \in PortLists
      BY <3>0, Zenon
    <3>2. step[i][f[i - 1]] = push_unique(f[i - 1], lo + i - 1)
      BY <3>1
    <3> HIDE DEF step
    <3> QED BY <2>1, <2>3, <3>2
  <2> QED BY <2>2, <2>3
<1> HIDE DEF step
<1>7. f = Loop(f)
  <2>1. f = [i \in 0..n |-> f[i]]
    OBVIOUS
  <2> QED BY <1>6, <2>1
<1>8. g = Loop(g)
  <2> HIDE DEF Loop
  <2> QED BY <1>7, Zenon
<1>9. g[0] = ports /\ \A i \in 1..n : g[i] = push_unique(g[i - 1], lo + i - 1)
  <2> DEFINE h == Loop(g)
  <2>1. 0 \in 0..n
    BY <1>0
  <2>2. h[0] = ports /\ \A i \in 1..n : h[i] = push_unique(g[i - 1], lo + i - 1)
    <3> HIDE DEF g
    <3> QED BY <1>5, <2>1
  <2>3. g = h
    BY <1>8
  <2> HIDE DEF g, h
  <2> QED BY <2>2, <2>3
<1>10. f[0] = ports /\ \A i \in 1..n : f[i] = push_unique(f[i - 1], lo + i - 1)
  <2>1. 0 \in 0..n
    BY <1>0
  <2> HIDE DEF g, Loop
  <2>2. f[0] = ports
    BY <1>6, <2>1
  <2>3. ASSUME NEW i \in 1..n
        PROVE  f[i] = push_unique(f[i - 1], lo + i - 1)
    BY <1>5, <1>6, <2>3, Zenon
  <2> QED BY <2>2, <2>3
<1>11. PushRange(ports, lo, hi) = g[n]
  BY Zenon DEF PushRange
<1> HIDE DEF g
<1>12. g[n] = f[n]
  <2> DEFINE P == {i \in 0..n : g[i] = f[i]}
  <2>1. 0 \in P
    BY <1>0, <1>9, <1>10
  <2>2. \A i \in 1..n : i - 1 \in P => i \in P
    BY <1>5, <1>9, <1>10
  <2>3. P = 0..n
    <3>1. P \in SUBSET (0..n)
      OBVIOUS
    <3> HIDE DEF P
    <3> QED BY <1>0, <2>1, <2>2, <3>1, LoopInduction
  <2>4. n \in 0..n
    BY <1>0
  <2>5. n \in P
    BY <2>3, <2>4, Zenon
  <2> QED BY <2>5
<1> QED BY <1>10, <1>11, <1>12

(* What PushRange() adds is the range. *)
LEMMA PushRangeDoes ==
  ASSUME NEW ports \in PortLists, NEW lo \in Ports, NEW hi \in Ports, lo <= hi
  PROVE  /\ PushRange(ports, lo, hi) \in PortLists
         /\ Range(PushRange(ports, lo, hi)) = Range(ports) \cup lo..hi
<1>a. lo \in Nat /\ hi \in Nat /\ lo # 0
  BY DEF Ports
<1>b. PICK n \in Nat : n = hi - lo + 1
  BY <1>a
<1>0. n \in Nat /\ lo \in Nat /\ hi \in Nat /\ lo # 0 /\ n = hi - lo + 1
  BY <1>a, <1>b
<1>1. PICK f \in [0..n -> PortLists] :
        /\ f[0] = ports
        /\ \A i \in 1..n : f[i] = push_unique(f[i - 1], lo + i - 1)
        /\ PushRange(ports, lo, hi) = f[n]
  BY <1>b, PushRangeIsLoop
<1> DEFINE P == {i \in 0..n : Range(f[i]) = Range(ports) \cup lo..(lo + i - 1)}
<1>2. 0 \in P
  <2>1. lo..(lo + 0 - 1) = {} /\ 0 \in 0..n
    BY <1>0
  <2>2. Range(f[0]) = Range(ports) \cup lo..(lo + 0 - 1)
    <3> QED BY <1>1, <2>1
  <2> QED BY <2>1, <2>2
<1>3. ASSUME NEW i \in 1..n, i - 1 \in P
      PROVE  i \in P
  <2>1. i - 1 \in 0..n /\ i \in 0..n /\ lo + i - 1 \in Ports
    BY <1>0 DEF Ports
  <2>2. Range(f[i]) = Range(f[i - 1]) \cup {lo + i - 1}
    <3>1. f[i - 1] \in PortLists /\ f[i] = push_unique(f[i - 1], lo + i - 1)
      BY <1>1, <2>1
    <3> DEFINE p == lo + i - 1
               s == f[i - 1]
    <3>2. p \in Ports /\ s \in PortLists /\ f[i] = push_unique(s, p)
      BY <2>1, <3>1
    <3> HIDE DEF P, p, s
    <3>3. Range(f[i]) = Range(s) \cup {p}
      BY <3>2, PushDoes, Zenon
    <3> QED BY <3>3 DEF s, p
  <2>3. Range(f[i - 1]) = Range(ports) \cup lo..(lo + (i - 1) - 1)
    BY <1>3
  <2>4. lo..(lo + i - 1) = lo..(lo + (i - 1) - 1) \cup {lo + i - 1}
    BY <1>0
  <2>5. Range(f[i]) = Range(ports) \cup lo..(lo + i - 1)
    <3> HIDE DEF P
    <3> QED BY <2>2, <2>3, <2>4
  <2> QED BY <2>1, <2>5
<1>4. P = 0..n
  <2>1. P \in SUBSET (0..n)
    OBVIOUS
  <2> HIDE DEF P
  <2> QED BY <1>0, <1>2, <1>3, <2>1, LoopInduction
<1>5. n \in 0..n /\ lo + n - 1 = hi
  BY <1>0
<1>6. Range(f[n]) = Range(ports) \cup lo..hi
  <2>1. n \in P
    BY <1>4, <1>5, Zenon
  <2>2. Range(f[n]) = Range(ports) \cup lo..(lo + n - 1)
    <3> QED BY <2>1
  <2> QED BY <1>5, <2>2
<1> QED BY <1>1, <1>5, <1>6

(* An entry without an error is a range of ports. *)
LEMMA GoodEntry ==
  ASSUME NEW spec \in Seq(Int \X Int), NEW i \in 1..Len(spec), ~BadEntry(spec[i])
  PROVE  spec[i][1] \in Ports /\ spec[i][2] \in Ports /\ spec[i][1] <= spec[i][2]
<1>1. spec[i] \in Int \X Int
  OBVIOUS
<1> QED BY <1>1, ListenAssumption DEF BadEntry, sls_parse_single_port, Ports

(* A spec without a bad entry is read entry by entry. *)
LEMMA ParseIsLoop ==
  ASSUME NEW spec \in Seq(Int \X Int), ~ \E e \in Range(spec) : BadEntry(e),
         NEW n \in Nat, n = Len(spec)
  PROVE  \E f \in [0..n -> PortLists] :
           /\ f[0] = <<>>
           /\ \A i \in 1..n : f[i] = PushRange(f[i - 1], spec[i][1], spec[i][2])
           /\ sls_parse_port_list(spec) = f[n]
<1>0. n \in Nat
  OBVIOUS
<1> DEFINE step == [i \in 1..n |-> [x \in PortLists |-> PushRange(x, spec[i][1], spec[i][2])]]
           Loop(f) == [i \in 0..n |-> IF i = 0 THEN <<>> ELSE PushRange(f[i - 1], spec[i][1], spec[i][2])]
           g == CHOOSE g : g = Loop(g)
<1>1. \A i \in 1..n, x \in PortLists : PushRange(x, spec[i][1], spec[i][2]) \in PortLists
  <2>1. \A i \in 1..n : ~BadEntry(spec[i])
    BY DEF Range
  <2>2. ASSUME NEW i \in 1..n, NEW x \in PortLists
        PROVE  PushRange(x, spec[i][1], spec[i][2]) \in PortLists
    <3> DEFINE lo == spec[i][1]
               hi == spec[i][2]
    <3>1. lo \in Ports /\ hi \in Ports /\ lo <= hi
      BY <2>1, GoodEntry
    <3> HIDE DEF lo, hi
    <3>2. PushRange(x, lo, hi) \in PortLists
      BY <3>1, PushRangeDoes
    <3> QED BY <3>2 DEF lo, hi
  <2> QED BY <2>2
<1>2. step \in [1..n -> [PortLists -> PortLists]]
  BY <1>1
<1>3. <<>> \in PortLists
  BY DEF PortLists
<1>4. PICK f \in [0..n -> PortLists] : IsLoop(f, <<>>, step, n)
  <2> HIDE DEF step
  <2> QED BY <1>0, <1>2, <1>3, LoopExists
<1>5. \A i \in 1..n : i - 1 \in 0..n /\ i \in 0..n /\ i # 0
  BY <1>0
<1>6. ASSUME NEW i \in 0..n
      PROVE  f[i] = IF i = 0 THEN <<>> ELSE PushRange(f[i - 1], spec[i][1], spec[i][2])
  <2>1. f[i] = IF i = 0 THEN <<>> ELSE step[i][f[i - 1]]
    <3> HIDE DEF step
    <3>1. f = [j \in 0..n |-> IF j = 0 THEN <<>> ELSE step[j][f[j - 1]]]
      BY <1>4 DEF IsLoop
    <3> DEFINE h == [j \in 0..n |-> IF j = 0 THEN <<>> ELSE step[j][f[j - 1]]]
    <3>2. h[i] = IF i = 0 THEN <<>> ELSE step[i][f[i - 1]]
      OBVIOUS
    <3>3. f = h
      BY <3>1
    <3> HIDE DEF h
    <3> QED BY <3>2, <3>3
  <2>2. CASE i = 0
    BY <2>1, <2>2
  <2>3. CASE i # 0
    <3>0. i \in 1..n /\ i - 1 \in 0..n
      BY <1>0, <2>3
    <3>1. i \in 1..n /\ f[i - 1] \in PortLists
      BY <3>0, Zenon
    <3>2. step[i][f[i - 1]] = PushRange(f[i - 1], spec[i][1], spec[i][2])
      BY <3>1
    <3> HIDE DEF step
    <3> QED BY <2>1, <2>3, <3>2
  <2> QED BY <2>2, <2>3
<1> HIDE DEF step
<1>7. f = Loop(f)
  <2>1. f = [i \in 0..n |-> f[i]]
    OBVIOUS
  <2> QED BY <1>6, <2>1
<1>8. g = Loop(g)
  <2> HIDE DEF Loop
  <2> QED BY <1>7, Zenon
<1>9. g[0] = <<>> /\ \A i \in 1..n : g[i] = PushRange(g[i - 1], spec[i][1], spec[i][2])
  <2> DEFINE h == Loop(g)
  <2>1. 0 \in 0..n
    BY <1>0
  <2>2. h[0] = <<>> /\ \A i \in 1..n : h[i] = PushRange(g[i - 1], spec[i][1], spec[i][2])
    <3> HIDE DEF g
    <3> QED BY <1>5, <2>1
  <2>3. g = h
    BY <1>8
  <2> HIDE DEF g, h
  <2> QED BY <2>2, <2>3
<1>10. f[0] = <<>> /\ \A i \in 1..n : f[i] = PushRange(f[i - 1], spec[i][1], spec[i][2])
  <2>1. 0 \in 0..n
    BY <1>0
  <2> HIDE DEF g, Loop
  <2>2. f[0] = <<>>
    BY <1>6, <2>1
  <2>3. ASSUME NEW i \in 1..n
        PROVE  f[i] = PushRange(f[i - 1], spec[i][1], spec[i][2])
    BY <1>5, <1>6, <2>3, Zenon
  <2> QED BY <2>2, <2>3
<1>11. sls_parse_port_list(spec) = g[n]
  BY Zenon DEF sls_parse_port_list
<1> HIDE DEF g
<1>12. g[n] = f[n]
  <2> DEFINE P == {i \in 0..n : g[i] = f[i]}
  <2>1. 0 \in P
    BY <1>0, <1>9, <1>10
  <2>2. \A i \in 1..n : i - 1 \in P => i \in P
    BY <1>5, <1>9, <1>10
  <2>3. P = 0..n
    <3>1. P \in SUBSET (0..n)
      OBVIOUS
    <3> HIDE DEF P
    <3> QED BY <1>0, <2>1, <2>2, <3>1, LoopInduction
  <2>4. n \in 0..n
    BY <1>0
  <2>5. n \in P
    BY <2>3, <2>4, Zenon
  <2> QED BY <2>5
<1> QED BY <1>10, <1>11, <1>12

(* sls_parse_port_list() refuses a spec with a bad entry (an end outside   *)
(* 1..MaxPort, or the ends in the wrong order) and else gives the ports    *)
(* its entries name, none of them twice.                                   *)
THEOREM PortListAsWritten ==
  ASSUME NEW spec \in Seq(Int \X Int)
  PROVE  /\ (\E e \in Range(spec) : BadEntry(e)) => sls_parse_port_list(spec) = BadSpec
         /\ (~ \E e \in Range(spec) : BadEntry(e)) =>
              /\ sls_parse_port_list(spec) \in PortLists
              /\ Range(sls_parse_port_list(spec)) = UNION {e[1]..e[2] : e \in Range(spec)}
<1>1. CASE \E e \in Range(spec) : BadEntry(e)
  BY <1>1, Zenon DEF sls_parse_port_list
<1>2. CASE ~ \E e \in Range(spec) : BadEntry(e)
  <2> DEFINE n == Len(spec)
             out == sls_parse_port_list(spec)
  <2>0. n \in Nat /\ n = Len(spec)
    OBVIOUS
  <2>1. PICK f \in [0..n -> PortLists] :
          /\ f[0] = <<>>
          /\ \A i \in 1..n : f[i] = PushRange(f[i - 1], spec[i][1], spec[i][2])
          /\ out = f[n]
    <3> HIDE DEF n, out
    <3> QED BY <1>2, <2>0, ParseIsLoop, Zenon DEF out
  <2> HIDE DEF out
  <2> DEFINE Ran(i) == UNION {spec[j][1]..spec[j][2] : j \in 1..i}
             P == {i \in 0..n : Range(f[i]) = Ran(i)}
  <2>2. 0 \in P
    <3>1. 0 \in 0..n /\ 1..0 = {}
      BY <2>0
    <3>2. Ran(0) = {}
      BY <3>1
    <3>3. Range(f[0]) = {}
      BY <2>1 DEF Range
    <3> QED BY <3>1, <3>2, <3>3
  <2>3. ASSUME NEW i \in 1..n, i - 1 \in P
        PROVE  i \in P
    <3>1. i - 1 \in 0..n /\ i \in 0..n /\ 1..i = 1..(i - 1) \cup {i}
      BY <2>0
    <3> DEFINE lo == spec[i][1]
               hi == spec[i][2]
               s == f[i - 1]
    <3>2. ~BadEntry(spec[i])
      BY <1>2 DEF Range
    <3>3. lo \in Ports /\ hi \in Ports /\ lo <= hi
      BY <3>2, GoodEntry
    <3>4. s \in PortLists /\ f[i] = PushRange(s, lo, hi) /\ Range(s) = Ran(i - 1)
      BY <2>1, <2>3, <3>1
    <3>5. Ran(i) = Ran(i - 1) \cup lo..hi
      <4> HIDE DEF n, P
      <4> QED BY <3>1
    <3> HIDE DEF lo, hi, s, Ran, n
    <3>6. Range(f[i]) = Range(s) \cup lo..hi
      BY <3>3, <3>4, PushRangeDoes
    <3> QED BY <3>1, <3>4, <3>5, <3>6
  <2>4. P = 0..n
    <3>1. P \in SUBSET (0..n)
      OBVIOUS
    <3> HIDE DEF P, n
    <3> QED BY <2>0, <2>2, <2>3, <3>1, LoopInduction
  <2>5. n \in 0..n
    BY <2>0
  <2>6. Range(f[n]) = Ran(n) /\ f[n] \in PortLists
    <3> HIDE DEF n, Ran
    <3> QED BY <2>1, <2>4, <2>5
  <2>7. Ran(n) = UNION {e[1]..e[2] : e \in Range(spec)}
    <3>1. Range(spec) = {spec[j] : j \in 1..n}
      BY DEF Range
    <3> HIDE DEF n
    <3> QED BY <3>1
  <2> HIDE DEF Ran, n
  <2>8. out \in PortLists /\ Range(out) = UNION {e[1]..e[2] : e \in Range(spec)}
    BY <2>1, <2>6, <2>7
  <2> QED BY <1>2, <2>8 DEF out
<1> QED BY <1>1, <1>2

-----------------------------------------------------------------------------
Names == STRING \X STRING
NameMaps(S) == UNION {[D -> S] : D \in SUBSET Names}

(* The names of a server block, as its listeners share them.               *)
NameTables == [ok : BOOLEAN, uplive : NameMaps(Nat), live : NameMaps(Names),
               relays : SUBSET (STRING \X Names)]

(* A map on names, with more names mapped to one value.                    *)
LEMMA NameMapGrows ==
  ASSUME NEW S, NEW f \in NameMaps(S), NEW K \in SUBSET Names, NEW v \in S
  PROVE  set_live_2_uplive(f, K, v) \in NameMaps(S)
<1>1. PICK D \in SUBSET Names : f \in [D -> S]
  BY DEF NameMaps
<1> DEFINE g == [x \in DOMAIN f \cup K |-> IF x \in DOMAIN f THEN f[x] ELSE v]
<1>2. DOMAIN f = D /\ D \cup K \in SUBSET Names
  BY <1>1
<1>3. g \in [D \cup K -> S]
  BY <1>1, <1>2
<1>4. g \in NameMaps(S)
  <2> HIDE DEF g
  <2> QED BY <1>2, <1>3 DEF NameMaps
<1> QED BY <1>4 DEF set_live_2_uplive

(* What is in a server block. *)
LEMMA BlockParts ==
  ASSUME NEW block \in ServerBlocks
  PROVE  /\ block.publisher \in Seq(Int \X Int) /\ block.srtla \in Seq(Int \X Int)
         /\ block.player \in Seq(Int \X Int) /\ block.listen \in Nat
         /\ block.domain_player \in Seq(STRING) /\ block.domain_publisher \in STRING
         /\ block.apps \in Seq(AppBlocks) /\ Len(block.apps) \in Nat
         /\ \A a \in 1..Len(block.apps) :
              /\ UpKey(block, a) \in Names /\ UpKey(block, a) # NoName
              /\ \A d \in DOMAIN block.domain_player : LiveKey(block, a, d) \in Names
              /\ LiveKeys(block, a) \in SUBSET Names
              /\ block.apps[a].relays \in Seq(STRING)
<1>1. /\ block.publisher \in Seq(Int \X Int) /\ block.srtla \in Seq(Int \X Int)
      /\ block.player \in Seq(Int \X Int) /\ block.listen \in Nat
      /\ block.domain_player \in Seq(STRING) /\ block.domain_publisher \in STRING
      /\ block.apps \in Seq(AppBlocks)
  BY DEF ServerBlocks
<1>2. Len(block.apps) \in Nat
  BY <1>1
<1>3. ASSUME NEW a \in 1..Len(block.apps)
      PROVE  /\ UpKey(block, a) \in Names /\ UpKey(block, a) # NoName
             /\ \A d \in DOMAIN block.domain_player : LiveKey(block, a, d) \in Names
             /\ LiveKeys(block, a) \in SUBSET Names
             /\ block.apps[a].relays \in Seq(STRING)
  <2>1. block.apps[a] \in AppBlocks
    BY <1>1
  <2>2. /\ block.apps[a].publisher \in STRING /\ block.apps[a].player \in STRING
        /\ block.apps[a].relays \in Seq(STRING)
    BY <2>1 DEF AppBlocks
  <2>3. UpKey(block, a) \in Names
    BY <1>1, <2>2 DEF Names, UpKey
  <2>4. UpKey(block, a) # NoName
    BY DEF UpKey, NoName
  <2>5. \A d \in DOMAIN block.domain_player : LiveKey(block, a, d) \in Names
    BY <1>1, <2>2 DEF Names, LiveKey
  <2> QED BY <2>2, <2>3, <2>4, <2>5 DEF LiveKeys
<1> QED BY <1>1, <1>2, <1>3

-----------------------------------------------------------------------------
(* What a table says is what the block says: a publisher's name stands for *)
(* an app that has it, a player's name for the publisher's name of an app  *)
(* that has both.                                                          *)
TableTrue(block, t) ==
  /\ \A up \in DOMAIN t.uplive :
       t.uplive[up] \in 1..Len(block.apps) /\ UpKey(block, t.uplive[up]) = up
  /\ \A k \in DOMAIN t.live : \E a \in 1..Len(block.apps) :
       k \in LiveKeys(block, a) /\ t.live[k] = UpKey(block, a)

(* The table has the names of an app. *)
AppRegistered(block, t, a) ==
  /\ UpKey(block, a) \in DOMAIN t.uplive
  /\ \A k \in LiveKeys(block, a) : k \in DOMAIN t.live /\ t.live[k] = UpKey(block, a)

Registered(block, t) == \A a \in 1..Len(block.apps) : AppRegistered(block, t, a)

(* Nothing that was in the table has left it or changed. *)
TableGrows(t, u) ==
  /\ \A up \in DOMAIN t.uplive : up \in DOMAIN u.uplive /\ u.uplive[up] = t.uplive[up]
  /\ \A k \in DOMAIN t.live : k \in DOMAIN u.live /\ u.live[k] = t.live[k]

(* Something about the names of the block that start() may refuse.         *)
NamesWrong(block) ==
  LET apps == 1..Len(block.apps)
  IN  \/ block.apps = <<>> \/ block.domain_player = <<>> \/ block.domain_publisher = ""
      \/ \E a \in apps :
           \/ block.apps[a].publisher = "" \/ block.apps[a].player = ""
           \/ UpKey(block, a) \in LiveKeys(block, a)
           \/ \E t \in Range(block.apps[a].relays) : t \notin {"pull", "push"}
           \/ \E b \in apps : LiveKeys(block, a) \cap LiveKeys(block, b) # {}
                               /\ UpKey(block, a) # UpKey(block, b)

(* The parts of a table. *)
LEMMA TableParts ==
  ASSUME NEW t \in NameTables
  PROVE  /\ t.ok \in BOOLEAN /\ t.uplive \in NameMaps(Nat) /\ t.live \in NameMaps(Names)
         /\ t.relays \in SUBSET (STRING \X Names)
         /\ DOMAIN t.uplive \in SUBSET Names /\ DOMAIN t.live \in SUBSET Names
         /\ \A k \in DOMAIN t.live : t.live[k] \in Names
<1>1. /\ t.ok \in BOOLEAN /\ t.uplive \in NameMaps(Nat) /\ t.live \in NameMaps(Names)
      /\ t.relays \in SUBSET (STRING \X Names)
  BY DEF NameTables
<1>2. PICK D \in SUBSET Names : t.uplive \in [D -> Nat]
  BY <1>1 DEF NameMaps
<1>3. PICK E \in SUBSET Names : t.live \in [E -> Names]
  BY <1>1 DEF NameMaps
<1> QED BY <1>1, <1>2, <1>3

(* Only the verdict may change without a change of names. *)
LEMMA VerdictOnly ==
  ASSUME NEW t \in NameTables, NEW b \in BOOLEAN
  PROVE  /\ [t EXCEPT !.ok = b] \in NameTables
         /\ [t EXCEPT !.ok = b].ok = b
         /\ [t EXCEPT !.ok = b].uplive = t.uplive
         /\ [t EXCEPT !.ok = b].live = t.live
  BY DEF NameTables

(* The names of an app go into the table up to the first that may not, and *)
(* all of them when none is refused.                                       *)
LEMMA AddLivesDoes ==
  ASSUME NEW block \in ServerBlocks, NEW a \in 1..Len(block.apps), NEW t \in NameTables,
         TableTrue(block, t), UpKey(block, a) \in DOMAIN t.uplive
  PROVE  /\ AddLives(block, a, t) \in NameTables
         /\ TableGrows(t, AddLives(block, a, t))
         /\ TableTrue(block, AddLives(block, a, t))
         /\ AddLives(block, a, t).uplive = t.uplive
         /\ AddLives(block, a, t).ok => AppRegistered(block, AddLives(block, a, t), a)
         /\ AddLives(block, a, t).ok \/ NamesWrong(block)
<1> DEFINE up == UpKey(block, a)
           domains == DOMAIN block.domain_player
           fine == {d \in domains : \A e \in 1..d :
                      /\ LiveKey(block, a, e) # up
                      /\ MayMap(t, LiveKey(block, a, e), up)}
           keys == {LiveKey(block, a, d) : d \in fine}
           live == set_live_2_uplive(t.live, keys, up)
           u == AddLives(block, a, t)
<1>0. /\ up \in Names /\ block.domain_player \in Seq(STRING)
      /\ \A d \in domains : LiveKey(block, a, d) \in Names
  BY BlockParts
<1>1. u = [t EXCEPT !.ok = (fine = domains), !.live = live]
  BY DEF AddLives
<1>2. keys \in SUBSET Names
  BY <1>0
<1>2a. keys \subseteq LiveKeys(block, a)
  BY DEF LiveKeys
<1>3. \A d \in fine : MayMap(t, LiveKey(block, a, d), up)
  <2>1. \A d \in domains : d \in 1..d
    BY <1>0
  <2> QED BY <2>1
<1>4. /\ t.live \in NameMaps(Names)
      /\ DOMAIN t.live \in SUBSET Names
  BY TableParts
<1>5. live \in NameMaps(Names)
  <2> HIDE DEF keys, up
  <2> QED BY <1>0, <1>2, <1>4, NameMapGrows, Zenon
<1>6. /\ DOMAIN live = DOMAIN t.live \cup keys
      /\ \A k \in DOMAIN t.live : live[k] = t.live[k]
      /\ \A k \in keys : live[k] = up
  <2> HIDE DEF up, fine
  <2>1. /\ DOMAIN live = DOMAIN t.live \cup keys
        /\ \A k \in DOMAIN t.live : live[k] = t.live[k]
        /\ \A k \in keys \ DOMAIN t.live : live[k] = up
    <3> HIDE DEF keys
    <3> QED BY DEF set_live_2_uplive
  <2>2. \A k \in keys : k \in DOMAIN t.live => t.live[k] = up
    BY <1>3 DEF MayMap
  <2> HIDE DEF keys, live
  <2> QED BY <2>1, <2>2
<1>7. /\ u \in NameTables /\ u.ok = (fine = domains) /\ u.live = live
      /\ u.uplive = t.uplive
  <2> HIDE DEF live, fine, up
  <2>1. (fine = domains) \in BOOLEAN
    OBVIOUS
  <2> DEFINE b == fine = domains
  <2>2. u = [t EXCEPT !.ok = b, !.live = live] /\ b \in BOOLEAN
    BY <1>1, <2>1
  <2> HIDE DEF b, u
  <2>3. /\ u \in NameTables /\ u.ok = b /\ u.live = live
        /\ u.uplive = t.uplive
    BY <1>5, <2>2 DEF NameTables
  <2> QED BY <2>3 DEF b
<1> HIDE DEF u, live
<1>8. TableGrows(t, u)
  BY <1>6, <1>7 DEF TableGrows
<1>9. TableTrue(block, u)
  <2>1. \A n \in DOMAIN u.uplive :
          u.uplive[n] \in 1..Len(block.apps) /\ UpKey(block, u.uplive[n]) = n
    BY <1>7 DEF TableTrue
  <2>2. ASSUME NEW k \in DOMAIN u.live
        PROVE  \E b \in 1..Len(block.apps) :
                 k \in LiveKeys(block, b) /\ u.live[k] = UpKey(block, b)
    <3> HIDE DEF keys
    <3>1. CASE k \in DOMAIN t.live
      BY <1>6, <1>7, <3>1 DEF TableTrue
    <3>2. CASE k \in keys
      BY <1>2a, <1>6, <1>7, <3>2
    <3> QED BY <1>6, <1>7, <3>1, <3>2
  <2> QED BY <2>1, <2>2 DEF TableTrue
<1>10. ASSUME u.ok PROVE AppRegistered(block, u, a)
  <2>1. keys = LiveKeys(block, a)
    BY <1>7, <1>10 DEF LiveKeys
  <2> HIDE DEF keys
  <2> QED BY <1>6, <1>7, <2>1 DEF AppRegistered
<1>11. ASSUME ~u.ok PROVE NamesWrong(block)
  <2>1. PICK d \in domains : d \notin fine
    BY <1>7, <1>11
  <2>2. PICK e \in 1..d : LiveKey(block, a, e) = up \/ ~MayMap(t, LiveKey(block, a, e), up)
    BY <2>1
  <2>3. e \in domains
    BY <1>0, <2>1, <2>2
  <2>4. LiveKey(block, a, e) \in LiveKeys(block, a)
    BY <2>3 DEF LiveKeys
  <2>5. CASE LiveKey(block, a, e) = up
    BY <2>4, <2>5 DEF NamesWrong
  <2>6. CASE ~MayMap(t, LiveKey(block, a, e), up)
    <3>1. LiveKey(block, a, e) \in DOMAIN t.live /\ t.live[LiveKey(block, a, e)] # up
      BY <2>6 DEF MayMap
    <3>2. PICK b \in 1..Len(block.apps) : /\ LiveKey(block, a, e) \in LiveKeys(block, b)
                                          /\ t.live[LiveKey(block, a, e)] = UpKey(block, b)
      BY <3>1 DEF TableTrue
    <3>3. LiveKeys(block, a) \cap LiveKeys(block, b) # {} /\ UpKey(block, a) # UpKey(block, b)
      BY <2>4, <3>1, <3>2
    <3> QED BY <3>3 DEF NamesWrong
  <2> QED BY <2>2, <2>5, <2>6
<1> QED BY <1>7, <1>8, <1>9, <1>10, <1>11 DEF u

(* The relays of an app leave its names alone. *)
LEMMA AddRelaysDoes ==
  ASSUME NEW block \in ServerBlocks, NEW a \in 1..Len(block.apps), NEW t \in NameTables
  PROVE  /\ AddRelays(block, a, t) \in NameTables
         /\ AddRelays(block, a, t).uplive = t.uplive
         /\ AddRelays(block, a, t).live = t.live
         /\ AddRelays(block, a, t).ok => t.ok
         /\ AddRelays(block, a, t).ok \/ ~t.ok \/ NamesWrong(block)
<1> DEFINE types == block.apps[a].relays
           fine == {i \in DOMAIN types : \A j \in 1..i : types[j] \in {"pull", "push"}}
           relays == add_relay_conf(t.relays, {types[i] : i \in fine}, UpKey(block, a))
           u == AddRelays(block, a, t)
<1>1. types \in Seq(STRING) /\ UpKey(block, a) \in Names
  BY BlockParts
<1>2. CASE ~t.ok
  <2>1. u = t
    BY <1>2 DEF AddRelays
  <2> QED BY <1>2, <2>1
<1>3. CASE t.ok
  <2>1. u = [t EXCEPT !.ok = (fine = DOMAIN types), !.relays = relays]
    BY <1>3 DEF AddRelays
  <2>2. relays \in SUBSET (STRING \X Names)
    <3>1. \A i \in DOMAIN types : types[i] \in STRING
      BY <1>1
    <3>2. \A type \in {types[i] : i \in fine} : <<type, UpKey(block, a)>> \in STRING \X Names
      BY <1>1, <3>1
    <3>3. t.relays \in SUBSET (STRING \X Names)
      BY TableParts
    <3> HIDE DEF types, fine
    <3> QED BY <3>2, <3>3 DEF add_relay_conf
  <2> DEFINE b == fine = DOMAIN types
  <2>3. u = [t EXCEPT !.ok = b, !.relays = relays] /\ b \in BOOLEAN
    BY <2>1
  <2>4. b \/ NamesWrong(block)
    <3>1. SUFFICES ASSUME ~b PROVE NamesWrong(block)
      OBVIOUS
    <3>2. PICK i \in DOMAIN types : i \notin fine
      BY <3>1
    <3>3. PICK j \in 1..i : types[j] \notin {"pull", "push"}
      BY <3>2
    <3>4. j \in DOMAIN types
      BY <1>1, <3>2, <3>3
    <3>5. types[j] \in Range(types)
      <4> HIDE DEF types
      <4> QED BY <3>4 DEF Range
    <3> QED BY <3>3, <3>5 DEF NamesWrong
  <2> HIDE DEF b, u, relays
  <2>5. /\ u \in NameTables /\ u.ok = b /\ u.live = t.live /\ u.uplive = t.uplive
    BY <2>2, <2>3 DEF NameTables
  <2>6. u \in NameTables /\ u.uplive = t.uplive /\ u.live = t.live
        /\ (u.ok => t.ok) /\ (u.ok \/ ~t.ok \/ NamesWrong(block))
    BY <1>3, <2>4, <2>5, Zenon
  <2> QED BY <2>6 DEF u
<1> QED BY <1>2, <1>3

(* set_conf() adds one name of the publishers. *)
LEMMA SetConfDoes ==
  ASSUME NEW block \in ServerBlocks, NEW a \in 1..Len(block.apps), NEW t \in NameTables,
         NEW t1, t1 = [t EXCEPT !.uplive = set_conf(@, UpKey(block, a), a)],
         TableTrue(block, t)
  PROVE  /\ t1 \in NameTables /\ t1.ok = t.ok /\ TableGrows(t, t1) /\ TableTrue(block, t1)
         /\ UpKey(block, a) \in DOMAIN t1.uplive
<1> DEFINE up == UpKey(block, a)
           uplive == set_conf(t.uplive, up, a)
<1>0. up \in Names /\ Len(block.apps) \in Nat
  BY BlockParts
<1>1. uplive = set_live_2_uplive(t.uplive, {up}, a)
  BY DEF set_conf, set_live_2_uplive
<1>2. uplive \in NameMaps(Nat)
  <2>1. t.uplive \in NameMaps(Nat) /\ {up} \in SUBSET Names /\ a \in Nat
    BY <1>0, TableParts
  <2>2. set_live_2_uplive(t.uplive, {up}, a) \in NameMaps(Nat)
    <3> HIDE DEF up
    <3> QED BY <2>1, NameMapGrows, Zenon
  <2> HIDE DEF uplive, up
  <2> QED BY <1>1, <2>2
<1>3. /\ DOMAIN uplive = DOMAIN t.uplive \cup {up}
      /\ \A x \in DOMAIN t.uplive : uplive[x] = t.uplive[x]
      /\ up \notin DOMAIN t.uplive => uplive[up] = a
  <2> HIDE DEF up
  <2> QED BY DEF set_conf
<1>4. t1 = [t EXCEPT !.uplive = uplive]
  OBVIOUS
<1> HIDE DEF uplive
<1>5. t1 \in NameTables /\ t1.ok = t.ok /\ t1.uplive = uplive /\ t1.live = t.live
  BY <1>2, <1>4 DEF NameTables
<1>6. TableGrows(t, t1)
  BY <1>3, <1>5 DEF TableGrows
<1>7. TableTrue(block, t1)
  <2>1. ASSUME NEW n \in DOMAIN t1.uplive
        PROVE  t1.uplive[n] \in 1..Len(block.apps) /\ UpKey(block, t1.uplive[n]) = n
    <3>1. CASE n \in DOMAIN t.uplive
      BY <1>3, <1>5, <3>1 DEF TableTrue
    <3>2. CASE n \notin DOMAIN t.uplive
      BY <1>3, <1>5, <3>2
    <3> QED BY <3>1, <3>2
  <2>2. \A k \in DOMAIN t1.live : \E b \in 1..Len(block.apps) :
          k \in LiveKeys(block, b) /\ t1.live[k] = UpKey(block, b)
    BY <1>5 DEF TableTrue
  <2> QED BY <2>1, <2>2 DEF TableTrue
<1> QED BY <1>3, <1>5, <1>6, <1>7

(* The round of one app. *)
LEMMA AddAppDoes ==
  ASSUME NEW block \in ServerBlocks, NEW a \in 1..Len(block.apps), NEW t \in NameTables,
         TableTrue(block, t)
  PROVE  /\ AddApp(block, a, t) \in NameTables
         /\ TableGrows(t, AddApp(block, a, t))
         /\ TableTrue(block, AddApp(block, a, t))
         /\ AddApp(block, a, t).ok => t.ok /\ AppRegistered(block, AddApp(block, a, t), a)
         /\ AddApp(block, a, t).ok \/ ~t.ok \/ NamesWrong(block)
<1> DEFINE t1 == [t EXCEPT !.uplive = set_conf(@, UpKey(block, a), a)]
           t2 == AddLives(block, a, t1)
           t3 == AddRelays(block, a, t2)
           u == AddApp(block, a, t)
<1>1. t.ok \in BOOLEAN
  BY TableParts
<1>2. CASE ~t.ok \/ block.apps[a].publisher = ""
  <2>1. u = [t EXCEPT !.ok = FALSE]
    BY <1>2 DEF AddApp
  <2> HIDE DEF u
  <2>2. u \in NameTables /\ ~u.ok /\ u.uplive = t.uplive /\ u.live = t.live
    BY <2>1, VerdictOnly
  <2>3. TableGrows(t, u) /\ TableTrue(block, u)
    BY <2>2 DEF TableGrows, TableTrue
  <2>4. ~t.ok \/ NamesWrong(block)
    BY <1>2 DEF NamesWrong
  <2> QED BY <2>2, <2>3, <2>4 DEF u
<1>3. /\ t1 \in NameTables /\ t1.ok = t.ok /\ TableGrows(t, t1) /\ TableTrue(block, t1)
      /\ UpKey(block, a) \in DOMAIN t1.uplive
  BY SetConfDoes, ZenonT(40)
<1>4. CASE ~(~t.ok \/ block.apps[a].publisher = "") /\ block.apps[a].player = ""
  <2>1. u = [t1 EXCEPT !.ok = FALSE]
    BY <1>4 DEF AddApp
  <2> HIDE DEF u, t1
  <2>2. u \in NameTables /\ ~u.ok /\ u.uplive = t1.uplive /\ u.live = t1.live
    BY <1>3, <2>1, VerdictOnly
  <2>3. TableGrows(t, u) /\ TableTrue(block, u)
    BY <1>3, <2>2 DEF TableGrows, TableTrue
  <2>4. NamesWrong(block)
    BY <1>4 DEF NamesWrong
  <2> QED BY <2>2, <2>3, <2>4 DEF u
<1>5. CASE ~(~t.ok \/ block.apps[a].publisher = "") /\ block.apps[a].player # ""
  <2>1. u = t3
    BY <1>5 DEF AddApp
  <2> HIDE DEF u, t1
  <2>2. /\ t2 \in NameTables /\ TableGrows(t1, t2) /\ TableTrue(block, t2)
        /\ t2.ok => AppRegistered(block, t2, a)
        /\ t2.ok \/ NamesWrong(block)
    BY <1>3, AddLivesDoes
  <2> HIDE DEF t2
  <2>3. /\ t3 \in NameTables /\ t3.uplive = t2.uplive /\ t3.live = t2.live
        /\ t3.ok => t2.ok
        /\ t3.ok \/ ~t2.ok \/ NamesWrong(block)
    BY <2>2, AddRelaysDoes
  <2> HIDE DEF t3
  <2>4. TableGrows(t, t3)
    BY <1>3, <2>2, <2>3 DEF TableGrows
  <2>5. TableTrue(block, t3)
    BY <2>2, <2>3 DEF TableTrue
  <2>6. t3.ok => AppRegistered(block, t3, a)
    BY <2>2, <2>3 DEF AppRegistered
  <2>7. /\ u \in NameTables /\ TableGrows(t, u) /\ TableTrue(block, u)
        /\ u.ok => t.ok /\ AppRegistered(block, u, a)
        /\ u.ok \/ NamesWrong(block)
    BY <1>5, <2>1, <2>2, <2>3, <2>4, <2>5, <2>6, Zenon
  <2> QED BY <2>7 DEF u
<1> QED BY <1>2, <1>4, <1>5

(* An app stays registered. *)
LEMMA RegisteredGrows ==
  ASSUME NEW block \in ServerBlocks, NEW a \in 1..Len(block.apps), NEW t, NEW u,
         TableGrows(t, u), AppRegistered(block, t, a)
  PROVE  AppRegistered(block, u, a)
BY DEF TableGrows, AppRegistered

(* The tables whose every name is one of the block's. *)
TrueTables(block) == {t \in NameTables : TableTrue(block, t)}

(* A block that names no domain or no app. *)
Nameless(block) ==
  block.domain_player = <<>> \/ block.domain_publisher = "" \/ block.apps = <<>>

(* The table as a listener finds it: no error yet. *)
Cleared(t) == [t EXCEPT !.ok = TRUE]

(* init_conf_app() goes app by app. *)
LEMMA InitConfAppIsLoop ==
  ASSUME NEW block \in ServerBlocks, NEW old \in TrueTables(block),
         ~Nameless(block),
         NEW n \in Nat, n = Len(block.apps), NEW first, first = Cleared(old),
         NEW A, A = TrueTables(block)
  PROVE  \E f \in [0..n -> A] :
           /\ f[0] = first
           /\ \A i \in 1..n : f[i] = AddApp(block, i, f[i - 1])
           /\ init_conf_app(block, old) = f[n]
<1>0. n \in Nat
  OBVIOUS
<1> DEFINE step == [i \in 1..n |-> [x \in A |-> AddApp(block, i, x)]]
           Loop(f) == [i \in 0..n |-> IF i = 0 THEN first ELSE AddApp(block, i, f[i - 1])]
           g == CHOOSE g : g = Loop(g)
<1>1. \A i \in 1..n, x \in A : AddApp(block, i, x) \in A
  BY AddAppDoes DEF TrueTables
<1>2. step \in [1..n -> [A -> A]]
  BY <1>1
<1>3. first \in A
  <2>1. old \in NameTables /\ TableTrue(block, old)
    BY DEF TrueTables
  <2>2. first \in NameTables /\ first.uplive = old.uplive /\ first.live = old.live
    BY <2>1, VerdictOnly DEF Cleared
  <2> QED BY <2>1, <2>2 DEF TrueTables, TableTrue
<1>4. PICK f \in [0..n -> A] : IsLoop(f, first, step, n)
  <2> HIDE DEF step
  <2> QED BY <1>0, <1>2, <1>3, LoopExists
<1>5. \A i \in 1..n : i - 1 \in 0..n /\ i \in 0..n /\ i # 0
  BY <1>0
<1>6. ASSUME NEW i \in 0..n
      PROVE  f[i] = IF i = 0 THEN first ELSE AddApp(block, i, f[i - 1])
  <2>1. f[i] = IF i = 0 THEN first ELSE step[i][f[i - 1]]
    <3> HIDE DEF step
    <3>1. f = [j \in 0..n |-> IF j = 0 THEN first ELSE step[j][f[j - 1]]]
      BY <1>4 DEF IsLoop
    <3> DEFINE h == [j \in 0..n |-> IF j = 0 THEN first ELSE step[j][f[j - 1]]]
    <3>2. h[i] = IF i = 0 THEN first ELSE step[i][f[i - 1]]
      OBVIOUS
    <3>3. f = h
      BY <3>1
    <3> HIDE DEF h
    <3> QED BY <3>2, <3>3
  <2>2. CASE i = 0
    BY <2>1, <2>2
  <2>3. CASE i # 0
    <3>0. i \in 1..n /\ i - 1 \in 0..n
      BY <1>0, <2>3
    <3>1. i \in 1..n /\ f[i - 1] \in A
      BY <3>0, Zenon
    <3>2. step[i][f[i - 1]] = AddApp(block, i, f[i - 1])
      BY <3>1
    <3> HIDE DEF step
    <3> QED BY <2>1, <2>3, <3>2
  <2> QED BY <2>2, <2>3
<1> HIDE DEF step
<1>7. f = Loop(f)
  <2>1. f = [i \in 0..n |-> f[i]]
    OBVIOUS
  <2> QED BY <1>6, <2>1
<1>8. g = Loop(g)
  <2> HIDE DEF Loop
  <2> QED BY <1>7, Zenon
<1>9. g[0] = first /\ \A i \in 1..n : g[i] = AddApp(block, i, g[i - 1])
  <2> DEFINE h == Loop(g)
  <2>1. 0 \in 0..n
    BY <1>0
  <2>2. h[0] = first /\ \A i \in 1..n : h[i] = AddApp(block, i, g[i - 1])
    <3> HIDE DEF g
    <3> QED BY <1>5, <2>1
  <2>3. g = h
    BY <1>8
  <2> HIDE DEF g, h
  <2> QED BY <2>2, <2>3
<1>10. f[0] = first /\ \A i \in 1..n : f[i] = AddApp(block, i, f[i - 1])
  <2>1. 0 \in 0..n
    BY <1>0
  <2> HIDE DEF g, Loop
  <2>2. f[0] = first
    BY <1>6, <2>1
  <2>3. ASSUME NEW i \in 1..n
        PROVE  f[i] = AddApp(block, i, f[i - 1])
    BY <1>5, <1>6, <2>3, Zenon
  <2> QED BY <2>2, <2>3
<1>11. init_conf_app(block, old) = g[n]
  BY Zenon DEF init_conf_app, Cleared, Nameless
<1> HIDE DEF g
<1>12. g[n] = f[n]
  <2> DEFINE P == {i \in 0..n : g[i] = f[i]}
  <2>1. 0 \in P
    BY <1>0, <1>9, <1>10
  <2>2. \A i \in 1..n : i - 1 \in P => i \in P
    BY <1>5, <1>9, <1>10
  <2>3. P = 0..n
    <3>1. P \in SUBSET (0..n)
      OBVIOUS
    <3> HIDE DEF P
    <3> QED BY <1>0, <2>1, <2>2, <3>1, LoopInduction
  <2>4. n \in 0..n
    BY <1>0
  <2>5. n \in P
    BY <2>3, <2>4, Zenon
  <2> QED BY <2>5
<1> QED BY <1>10, <1>11, <1>12

(* Every listener of a block leaves a table that still says what the block *)
(* says, with all the names of the block if it passes them, and refuses    *)
(* them only for what the block itself says.                               *)
LEMMA InitConfAppDoes ==
  ASSUME NEW block \in ServerBlocks, NEW old \in TrueTables(block)
  PROVE  /\ init_conf_app(block, old) \in TrueTables(block)
         /\ TableGrows(old, init_conf_app(block, old))
         /\ init_conf_app(block, old).ok => Registered(block, init_conf_app(block, old))
         /\ init_conf_app(block, old).ok \/ NamesWrong(block)
<1> DEFINE u == init_conf_app(block, old)
           n == Len(block.apps)
<1>0. old \in NameTables /\ TableTrue(block, old) /\ n \in Nat
  BY BlockParts DEF TrueTables
<1>1. CASE Nameless(block)
  <2>1. u = [old EXCEPT !.ok = FALSE]
    BY <1>1, Zenon DEF init_conf_app, Nameless
  <2> HIDE DEF u
  <2>2. u \in NameTables /\ ~u.ok /\ u.uplive = old.uplive /\ u.live = old.live
    BY <1>0, <2>1, VerdictOnly
  <2>3. TableGrows(old, u) /\ TableTrue(block, u)
    BY <1>0, <2>2 DEF TableGrows, TableTrue
  <2>4. NamesWrong(block)
    BY <1>1, Zenon DEF NamesWrong, Nameless
  <2> QED BY <2>2, <2>3, <2>4 DEF u, TrueTables
<1>2. CASE ~Nameless(block)
  <2>1. PICK f \in [0..n -> TrueTables(block)] :
          /\ f[0] = Cleared(old)
          /\ \A i \in 1..n : f[i] = AddApp(block, i, f[i - 1])
          /\ u = f[n]
    BY <1>0, <1>2, InitConfAppIsLoop
  <2> HIDE DEF u
  <2>2. \A i \in 0..n : f[i] \in NameTables /\ TableTrue(block, f[i])
    BY <2>1 DEF TrueTables
  <2> DEFINE P == {i \in 0..n : /\ TableGrows(old, f[i])
                                /\ f[i].ok => \A a \in 1..i : AppRegistered(block, f[i], a)
                                /\ f[i].ok \/ NamesWrong(block)}
  <2>3. 0 \in P
    <3>1. f[0].ok /\ f[0].uplive = old.uplive /\ f[0].live = old.live
      BY <1>0, <2>1, VerdictOnly DEF Cleared
    <3>2. TableGrows(old, f[0])
      BY <3>1 DEF TableGrows
    <3> QED BY <1>0, <3>1, <3>2
  <2>4. ASSUME NEW i \in 1..n, i - 1 \in P
        PROVE  i \in P
    <3>1. /\ i \in 0..n /\ i - 1 \in 0..n
          /\ \A a \in 1..i : a = i \/ a \in 1..(i - 1)
          /\ \A a \in 1..i : a \in 1..n
      BY <1>0
    <3> DEFINE t == f[i - 1]
               v == f[i]
    <3>2. t \in NameTables /\ TableTrue(block, t) /\ v = AddApp(block, i, t)
      BY <2>1, <2>2, <3>1
    <3>3. /\ TableGrows(old, t) /\ (t.ok => \A a \in 1..(i - 1) : AppRegistered(block, t, a))
          /\ (t.ok \/ NamesWrong(block))
      BY <2>4
    <3> HIDE DEF t, v, P
    <3>4. /\ TableGrows(t, v)
          /\ (v.ok => t.ok /\ AppRegistered(block, v, i))
          /\ (v.ok \/ ~t.ok \/ NamesWrong(block))
      BY <3>2, AddAppDoes
    <3>5. TableGrows(old, v)
      BY <3>3, <3>4 DEF TableGrows
    <3>6. v.ok => \A a \in 1..i : AppRegistered(block, v, a)
      BY <3>1, <3>3, <3>4, RegisteredGrows
    <3>7. v.ok \/ NamesWrong(block)
      BY <3>3, <3>4
    <3> QED BY <3>1, <3>5, <3>6, <3>7 DEF P, v
  <2>5. P = 0..n
    <3>1. P \in SUBSET (0..n)
      OBVIOUS
    <3> HIDE DEF P
    <3> QED BY <1>0, <2>3, <2>4, <3>1, LoopInduction
  <2>6. n \in P
    BY <1>0, <2>5
  <2> QED BY <1>0, <2>1, <2>6 DEF u, Registered
<1> QED BY <1>1, <1>2

-----------------------------------------------------------------------------
(* The inductive invariant of start().                                     *)
Kinds == {Phases[j] : j \in 1..5}

StartTypes ==
  /\ lconf \in Confs /\ server \in 1..Len(lconf) /\ phase \in 1..5
  /\ result \in {"starting", "ok", "error"}
  /\ names \in [1..Len(lconf) -> NameTables]
  /\ listeners \in SUBSET [server : 1..server, port : Ports, kind : Kinds]

(* What is left of a spec is part of it, and a bad spec is left as it is.  *)
TodoOfSpec ==
  \/ todo = BadSpec /\ SpecPorts(Block, phase) = BadSpec /\ phase < 4
  \/ todo \in Seq(Ports) /\ Range(todo) \subseteq Range(SpecPorts(Block, phase))

(* A listener is there because a spec that has had its turn names its port. *)
ListenersOfSpecs ==
  \A l \in listeners : \E j \in 1..5 :
    /\ l.kind = Phases[j] /\ l.port \in Range(SpecPorts(lconf[l.server], j))
    /\ l.server = server => j <= phase

(* The first spec that names a port has got it. *)
FirstNamed(block, k, p) == \A j \in 1..(k - 1) : p \notin Range(SpecPorts(block, j))

Served(s, k, some) ==
  \A p \in some : FirstNamed(lconf[s], k, p) =>
    [server |-> s, port |-> p, kind |-> Phases[k]] \in listeners

PortsServed ==
  \A s \in 1..server, k \in 1..3 :
    /\ s < server \/ k < phase => Served(s, k, Range(SpecPorts(lconf[s], k)))
    /\ s = server /\ k = phase => Served(s, k, Range(SpecPorts(lconf[s], k)) \ Range(todo))

(* A running listener has passed all the names of its block, and no later  *)
(* one has changed them.                                                   *)
NamesOfBlocks ==
  /\ \A s \in 1..Len(lconf) : TableTrue(lconf[s], names[s])
  /\ \A l \in listeners : Registered(lconf[l.server], names[l.server])

(* No server block is left without a listener. *)
ServersListen ==
  /\ \A s \in 1..(server - 1) : \E l \in listeners : l.server = s
  /\ phase = 5 /\ todo = <<>> => \E l \in listeners : l.server = server
  /\ result = "ok" => server = Len(lconf) /\ phase = 5 /\ todo = <<>>

StartInv ==
  /\ StartTypes /\ TodoOfSpec /\ ListenersOfSpecs /\ PortsServed
  /\ NamesOfBlocks /\ ServersListen /\ StartRefusedForCause

(* The parts of a configuration. *)
LEMMA ConfParts ==
  ASSUME NEW c \in Confs
  PROVE  /\ Len(c) \in Nat /\ 1 \in 1..Len(c)
         /\ \A s \in 1..Len(c) : c[s] \in ServerBlocks
<1>1. c \in Seq(ServerBlocks) /\ c # <<>>
  BY ListenAssumption
<1> QED BY <1>1

(* What SpecPorts() gives: ports, or the mark of a bad spec. *)
LEMMA SpecPortsAre ==
  ASSUME NEW block \in ServerBlocks, NEW k \in 1..5
  PROVE  /\ (SpecPorts(block, k) = BadSpec /\ k < 4) \/ SpecPorts(block, k) \in Seq(Ports)
         /\ k = 5 => SpecPorts(block, k) # <<>>
<1>1. /\ block.publisher \in Seq(Int \X Int) /\ block.srtla \in Seq(Int \X Int)
      /\ block.player \in Seq(Int \X Int) /\ block.listen \in Nat
  BY BlockParts
<1>2. ASSUME NEW spec \in Seq(Int \X Int)
      PROVE  sls_parse_port_list(spec) = BadSpec \/ sls_parse_port_list(spec) \in Seq(Ports)
  BY PortListAsWritten DEF PortLists
<1>3. CASE k = 1
  <2>1. SpecPorts(block, k) = sls_parse_port_list(block.publisher)
    BY <1>3 DEF SpecPorts, Phases
  <2> QED BY <1>1, <1>2, <1>3, <2>1
<1>4. CASE k = 2
  <2>1. SpecPorts(block, k) = sls_parse_port_list(block.srtla)
    BY <1>4 DEF SpecPorts, Phases
  <2> QED BY <1>1, <1>2, <1>4, <2>1
<1>5. CASE k = 3
  <2>1. SpecPorts(block, k) = sls_parse_port_list(block.player)
    BY <1>5 DEF SpecPorts, Phases
  <2> QED BY <1>1, <1>2, <1>5, <2>1
<1>6. CASE k = 4
  <2>1. SpecPorts(block, k) = IF block.listen > 0 THEN <<block.listen>> ELSE <<>>
    BY <1>6 DEF SpecPorts, Phases
  <2>2. block.listen > 0 => block.listen \in Ports
    BY <1>1 DEF Ports
  <2>3. \A p \in Ports : <<p>> \in Seq(Ports)
    OBVIOUS
  <2>4. <<>> \in Seq(Ports)
    OBVIOUS
  <2>5. SpecPorts(block, k) \in Seq(Ports)
    <3>1. CASE block.listen > 0
      <4>1. SpecPorts(block, k) = <<block.listen>>
        BY <2>1, <3>1
      <4> QED BY <2>2, <2>3, <3>1, <4>1
    <3>2. CASE ~(block.listen > 0)
      <4>1. SpecPorts(block, k) = <<>>
        BY <2>1, <3>2
      <4> QED BY <2>4, <4>1
    <3> QED BY <3>1, <3>2
  <2> QED BY <1>6, <2>5
<1>7. CASE k = 5
  <2>1. SpecPorts(block, k) = <<IF block.listen > 0 THEN block.listen ELSE FallbackPort>>
    BY <1>7 DEF SpecPorts, Phases
  <2> DEFINE p == IF block.listen > 0 THEN block.listen ELSE FallbackPort
  <2>2. p \in Ports
    BY <1>1, ListenAssumption DEF Ports
  <2>3. SpecPorts(block, k) = <<p>>
    BY <2>1
  <2> HIDE DEF p
  <2>4. <<p>> \in Seq(Ports) /\ <<p>> # <<>>
    BY <2>2
  <2> QED BY <1>7, <2>3, <2>4
<1> QED BY <1>3, <1>4, <1>5, <1>6, <1>7

(* The next port of a list. *)
LEMMA TodoParts ==
  ASSUME NEW ports \in Seq(Ports), ports # <<>>
  PROVE  /\ Head(ports) \in Ports /\ Head(ports) \in Range(ports)
         /\ Tail(ports) \in Seq(Ports)
         /\ Range(Tail(ports)) \subseteq Range(ports)
         /\ Range(ports) \subseteq Range(Tail(ports)) \cup {Head(ports)}
         /\ ports # BadSpec
<1>1. /\ Head(ports) = ports[1] /\ 1 \in 1..Len(ports) /\ Len(ports) \in Nat
      /\ Tail(ports) \in Seq(Ports) /\ Len(Tail(ports)) = Len(ports) - 1
      /\ \A i \in 1..(Len(ports) - 1) : Tail(ports)[i] = ports[i + 1]
  OBVIOUS
<1>2. Head(ports) \in Ports /\ Head(ports) \in Range(ports)
  BY <1>1 DEF Range
<1>3. \A i \in 1..Len(Tail(ports)) : Tail(ports)[i] \in Range(ports)
  BY <1>1 DEF Range
<1>4. Range(Tail(ports)) \subseteq Range(ports)
  BY <1>1, <1>3 DEF Range
<1>5. ASSUME NEW i \in 1..Len(ports) PROVE ports[i] = Head(ports) \/ ports[i] \in Range(Tail(ports))
  <2>1. CASE i = 1
    BY <1>1, <2>1
  <2>2. CASE i # 1
    <3>1. i - 1 \in 1..Len(Tail(ports)) /\ (i - 1) + 1 = i
      BY <1>1, <2>2
    <3>2. ports[i] = Tail(ports)[i - 1]
      BY <1>1, <3>1
    <3>3. Tail(ports)[i - 1] \in Range(Tail(ports))
      <4> DEFINE t == Tail(ports)
      <4>1. i - 1 \in DOMAIN t
        BY <1>1, <3>1
      <4> HIDE DEF t
      <4>2. t[i - 1] \in Range(t)
        BY <4>1, Zenon DEF Range
      <4> QED BY <4>2 DEF t
    <3> QED BY <3>2, <3>3
  <2> QED BY <2>1, <2>2
<1>6. Range(ports) \subseteq Range(Tail(ports)) \cup {Head(ports)}
  BY <1>5 DEF Range
<1>7. ports # BadSpec
  <2>1. ports[1] \in Nat
    BY <1>1 DEF Ports
  <2> QED BY <2>1 DEF BadSpec
<1> QED BY <1>1, <1>2, <1>4, <1>6, <1>7

(* What is fixed while start() runs. *)
LEMMA StartParts ==
  ASSUME StartTypes
  PROVE  /\ Block \in ServerBlocks /\ Len(lconf) \in Nat
         /\ \A s \in 1..Len(lconf) : lconf[s] \in ServerBlocks /\ names[s] \in NameTables
         /\ \A l \in listeners : l.server \in 1..Len(lconf) /\ l.server \in 1..server
<1>1. Len(lconf) \in Nat /\ \A s \in 1..Len(lconf) : lconf[s] \in ServerBlocks
  BY ConfParts DEF StartTypes
<1>2. Block \in ServerBlocks
  BY <1>1 DEF StartTypes, Block
<1>3. \A s \in 1..Len(lconf) : names[s] \in NameTables
  BY DEF StartTypes
<1>4. \A l \in listeners : l.server \in 1..server
  BY DEF StartTypes
<1>5. \A s \in 1..server : s \in 1..Len(lconf)
  BY <1>1 DEF StartTypes
<1> QED BY <1>1, <1>2, <1>3, <1>4, <1>5

(* A start begins with empty tables, which say nothing false. *)
LEMMA StartInitially == ListenInit => StartInv
<1> SUFFICES ASSUME ListenInit PROVE StartInv
  OBVIOUS
<1>1. /\ lconf \in Confs /\ server = 1 /\ phase = 1 /\ todo = SpecPorts(lconf[1], 1)
      /\ listeners = {} /\ result = "starting"
      /\ names = [s \in 1..Len(lconf) |-> NoNames]
  BY DEF ListenInit
<1>2. /\ Len(lconf) \in Nat /\ 1 \in 1..Len(lconf)
      /\ \A s \in 1..Len(lconf) : lconf[s] \in ServerBlocks
  BY <1>1, ConfParts
<1>3. <<>> \in [{} -> Nat] /\ <<>> \in [{} -> Names] /\ DOMAIN <<>> = {}
  OBVIOUS
<1>4. /\ NoNames.uplive = <<>> /\ NoNames.live = <<>>
      /\ NoNames \in NameTables
  <2>1. <<>> \in NameMaps(Nat) /\ <<>> \in NameMaps(Names)
    BY <1>3 DEF NameMaps
  <2> QED BY <2>1 DEF NoNames, NameTables
<1>5. \A s \in 1..Len(lconf) : names[s] = NoNames
  BY <1>1
<1>6. StartTypes
  BY <1>1, <1>2, <1>4 DEF StartTypes
<1>7. TodoOfSpec
  <2>1. Block = lconf[1]
    BY <1>1 DEF Block
  <2>2. (todo = BadSpec /\ 1 < 4) \/ todo \in Seq(Ports)
    BY <1>1, <1>2, SpecPortsAre
  <2> QED BY <1>1, <2>1, <2>2 DEF TodoOfSpec
<1>8. ListenersOfSpecs
  BY <1>1 DEF ListenersOfSpecs
<1>9. PortsServed
  <2>1. ASSUME NEW s \in 1..server, NEW k \in 1..3
        PROVE  /\ s < server \/ k < phase => Served(s, k, Range(SpecPorts(lconf[s], k)))
               /\ s = server /\ k = phase => Served(s, k, Range(SpecPorts(lconf[s], k)) \ Range(todo))
    <3>1. s = 1 /\ ~(s < server \/ k < phase)
      BY <1>1
    <3>2. ASSUME k = 1
          PROVE  Range(SpecPorts(lconf[s], k)) \ Range(todo) = {}
      BY <1>1, <3>1, <3>2
    <3> QED BY <1>1, <3>1, <3>2 DEF Served
  <2> QED BY <2>1 DEF PortsServed
<1>10. NamesOfBlocks
  <2>1. \A s \in 1..Len(lconf) : TableTrue(lconf[s], names[s])
    BY <1>3, <1>4, <1>5 DEF TableTrue
  <2> QED BY <1>1, <2>1 DEF NamesOfBlocks
<1>11. ServersListen
  BY <1>1 DEF ServersListen
<1>12. StartRefusedForCause
  BY <1>1, Zenon DEF StartRefusedForCause
<1> QED BY <1>6, <1>7, <1>8, <1>9, <1>10, <1>11, <1>12 DEF StartInv

(* A listener that registers its names leaves every table true, keeps what *)
(* is there, and fails only over the names of its own block.               *)
LEMMA RegistersDoes ==
  ASSUME StartInv, Registers, UNCHANGED <<lconf, server>>
  PROVE  /\ names' \in [1..Len(lconf) -> NameTables]
         /\ \A s \in 1..Len(lconf) : TableTrue(lconf[s], names'[s])
         /\ \A l \in listeners : Registered(lconf[l.server], names'[l.server])
         /\ names'[server].ok => Registered(Block, names'[server])
         /\ names'[server].ok \/ NamesWrong(Block)
<1>1. /\ StartTypes /\ \A s \in 1..Len(lconf) : TableTrue(lconf[s], names[s])
      /\ \A l \in listeners : Registered(lconf[l.server], names[l.server])
  BY DEF StartInv, NamesOfBlocks
<1>2. /\ Block \in ServerBlocks /\ Len(lconf) \in Nat /\ server \in 1..Len(lconf)
      /\ \A s \in 1..Len(lconf) : lconf[s] \in ServerBlocks /\ names[s] \in NameTables
      /\ \A l \in listeners : l.server \in 1..Len(lconf)
      /\ names \in [1..Len(lconf) -> NameTables]
  BY <1>1, StartParts DEF StartTypes
<1> DEFINE old == names[server]
           u == init_conf_app(Block, old)
<1>3. old \in TrueTables(Block)
  BY <1>1, <1>2 DEF TrueTables, Block
<1>4. /\ u \in NameTables /\ TableTrue(Block, u) /\ TableGrows(old, u)
      /\ u.ok => Registered(Block, u)
      /\ u.ok \/ NamesWrong(Block)
  <2>1. /\ u \in TrueTables(Block) /\ TableGrows(old, u)
        /\ u.ok => Registered(Block, u)
        /\ u.ok \/ NamesWrong(Block)
    <3> HIDE DEF old
    <3> QED BY <1>2, <1>3, InitConfAppDoes
  <2> QED BY <2>1 DEF TrueTables
<1>5. names' = [names EXCEPT ![server] = u]
  BY DEF Registers
<1> HIDE DEF u
<1>6. names'[server] = u /\ \A s \in 1..Len(lconf) : s # server => names'[s] = names[s]
  BY <1>2, <1>5
<1>7. names' \in [1..Len(lconf) -> NameTables]
  BY <1>2, <1>4, <1>5
<1>8. ASSUME NEW s \in 1..Len(lconf)
      PROVE  TableTrue(lconf[s], names'[s])
  <2>1. CASE s = server
    BY <1>4, <1>6, <2>1 DEF Block
  <2>2. CASE s # server
    BY <1>1, <1>6, <2>2
  <2> QED BY <2>1, <2>2
<1>9. ASSUME NEW l \in listeners
      PROVE  Registered(lconf[l.server], names'[l.server])
  <2>0. l.server \in 1..Len(lconf) /\ Registered(lconf[l.server], names[l.server])
    BY <1>1, <1>2
  <2>1. CASE l.server = server
    <3>1. Registered(Block, old)
      BY <2>0, <2>1 DEF Block
    <3>2. Registered(Block, u)
      <4> HIDE DEF old
      <4> QED BY <1>2, <1>4, <3>1, RegisteredGrows DEF Registered
    <3> QED BY <1>6, <2>1, <3>2 DEF Block
  <2>2. CASE l.server # server
    BY <1>6, <2>0, <2>2
  <2> QED BY <2>1, <2>2
<1> QED BY <1>4, <1>6, <1>7, <1>8, <1>9

(* A step that goes on within a spec: at most one listener more, on a port *)
(* of the spec, and every port that is ticked off is served.               *)
LEMMA GoesOn ==
  ASSUME StartInv, result = "starting", result' = "starting",
         UNCHANGED <<lconf, taken, server, phase>>,
         Registers \/ (names' = names /\ listeners' = listeners),
         \/ listeners' = listeners
         \/ names'[server].ok /\ \E p \in Range(SpecPorts(Block, phase)) : p \in Ports /\ Opened(p),
         todo \in Seq(Ports), todo' \in Seq(Ports), Range(todo') \subseteq Range(todo),
         phase < 4 => \A p \in Range(todo) \ Range(todo') :
           FirstNamed(Block, phase, p) =>
             [server |-> server, port |-> p, kind |-> Phases[phase]] \in listeners',
         phase = 5 /\ todo' = <<>> => \E l \in listeners' : l.server = server
  PROVE  StartInv'
<1>1. StartTypes /\ TodoOfSpec /\ ListenersOfSpecs /\ PortsServed /\ NamesOfBlocks /\ ServersListen
  BY DEF StartInv
<1>2. /\ Block \in ServerBlocks /\ Len(lconf) \in Nat /\ server \in 1..Len(lconf)
      /\ \A l \in listeners : l.server \in 1..server
      /\ phase \in 1..5 /\ Block' = Block
  BY <1>1, StartParts DEF StartTypes, Block
<1>3. /\ names' \in [1..Len(lconf) -> NameTables]
      /\ \A s \in 1..Len(lconf) : TableTrue(lconf[s], names'[s])
      /\ \A l \in listeners : Registered(lconf[l.server], names'[l.server])
      /\ Registers /\ names'[server].ok => Registered(Block, names'[server])
  <2>1. CASE Registers
    BY <2>1, RegistersDoes
  <2>2. CASE names' = names /\ ~Registers
    BY <1>1, <2>2 DEF StartTypes, NamesOfBlocks
  <2> QED BY <2>1, <2>2
<1>4. \/ listeners' = listeners
      \/ /\ Registered(Block, names'[server])
         /\ \E p \in Range(SpecPorts(Block, phase)) : p \in Ports /\ Opened(p)
  BY <1>3
<1>5. /\ listeners \subseteq listeners'
      /\ \A l \in listeners' : \/ l \in listeners
                               \/ /\ l.server = server /\ l.kind = Phases[phase] /\ l.port \in Ports
                                  /\ l.port \in Range(SpecPorts(Block, phase))
                                  /\ l = [server |-> server, port |-> l.port, kind |-> Phases[phase]]
                                  /\ Registered(Block, names'[server])
  BY <1>4 DEF Opened
<1>6. StartTypes'
  <2>1. \A j \in 1..5 : Phases[j] \in Kinds
    BY DEF Kinds
  <2>2. ASSUME NEW l \in listeners'
        PROVE  l \in [server : 1..server, port : Ports, kind : Kinds]
    <3>1. CASE l \in listeners
      BY <1>1, <3>1 DEF StartTypes
    <3>2. CASE l \notin listeners
      <4>1. server \in 1..server
        BY <1>2
      <4> QED BY <1>2, <1>5, <2>1, <3>2, <4>1
    <3> QED BY <3>1, <3>2
  <2> QED BY <1>1, <1>2, <1>3, <2>2 DEF StartTypes
<1>7. TodoOfSpec'
  <2>1. Range(todo) \subseteq Range(SpecPorts(Block, phase))
    <3>1. todo # BadSpec
      <4>1. todo = BadSpec => todo # <<>>
        BY DEF BadSpec
      <4> QED BY <4>1, TodoParts
    <3> QED BY <1>1, <3>1 DEF TodoOfSpec
  <2>2. SpecPorts(Block, phase)' = SpecPorts(Block, phase)
    BY <1>2
  <2> QED BY <2>1, <2>2 DEF TodoOfSpec
<1>8. ListenersOfSpecs'
  <2>1. ASSUME NEW l \in listeners'
        PROVE  \E j \in 1..5 : /\ l.kind = Phases[j] /\ l.port \in Range(SpecPorts(lconf[l.server], j))
                               /\ l.server = server => j <= phase
    <3>1. CASE l \in listeners
      BY <1>1, <3>1 DEF ListenersOfSpecs
    <3>2. CASE l \notin listeners
      BY <1>2, <1>5, <3>2 DEF Block
    <3> QED BY <3>1, <3>2
  <2>2. UNCHANGED <<lconf, server, phase>>
    OBVIOUS
  <2> QED BY <2>1, <2>2, Zenon DEF ListenersOfSpecs
<1>9. PortsServed'
  <2>1. ASSUME NEW s \in 1..server, NEW k \in 1..3
        PROVE  /\ s < server \/ k < phase => Served(s, k, Range(SpecPorts(lconf[s], k)))'
               /\ s = server /\ k = phase => Served(s, k, Range(SpecPorts(lconf[s], k)) \ Range(todo))'
    <3>1. ASSUME s < server \/ k < phase
          PROVE  Served(s, k, Range(SpecPorts(lconf[s], k)))'
      <4>1. Served(s, k, Range(SpecPorts(lconf[s], k)))
        BY <1>1, <3>1 DEF PortsServed
      <4> QED BY <1>5, <4>1 DEF Served
    <3>2. ASSUME s = server, k = phase
          PROVE  Served(s, k, Range(SpecPorts(lconf[s], k)) \ Range(todo))'
      <4>1. Served(server, phase, Range(SpecPorts(Block, phase)) \ Range(todo))
        BY <1>1, <3>2 DEF PortsServed, Block
      <4>2. phase < 4
        BY <3>2
      <4>3. ASSUME NEW p \in Range(SpecPorts(Block, phase)) \ Range(todo'),
                   FirstNamed(Block, phase, p)
            PROVE  [server |-> server, port |-> p, kind |-> Phases[phase]] \in listeners'
        <5>1. CASE p \in Range(todo)
          BY <4>2, <4>3, <5>1
        <5>2. CASE p \notin Range(todo)
          BY <1>5, <4>1, <4>3, <5>2 DEF Served, Block
        <5> QED BY <5>1, <5>2
      <4> QED BY <3>2, <4>3 DEF Served, Block
    <3> QED BY <3>1, <3>2
  <2> QED BY <2>1 DEF PortsServed
<1>10. NamesOfBlocks'
  <2>1. ASSUME NEW l \in listeners'
        PROVE  Registered(lconf[l.server], names'[l.server])
    <3>1. CASE l \in listeners
      BY <1>3, <3>1
    <3>2. CASE l \notin listeners
      BY <1>5, <3>2 DEF Block
    <3> QED BY <3>1, <3>2
  <2> QED BY <1>3, <2>1 DEF NamesOfBlocks
<1>11. ServersListen'
  BY <1>1, <1>5 DEF ServersListen
<1>12. StartRefusedForCause'
  BY Zenon DEF StartRefusedForCause
<1> QED BY <1>6, <1>7, <1>8, <1>9, <1>10, <1>11, <1>12 DEF StartInv

(* A step that gives up, for a cause.                                      *)
LEMMA GivesUp ==
  ASSUME StartInv, UNCHANGED <<lconf, taken, server, phase, listeners, todo>>,
         Registers \/ names' = names, result' = "error", StartRefusedForCause'
  PROVE  StartInv'
<1>1. StartTypes /\ TodoOfSpec /\ ListenersOfSpecs /\ PortsServed /\ NamesOfBlocks /\ ServersListen
  BY DEF StartInv
<1>2. /\ names' \in [1..Len(lconf) -> NameTables]
      /\ \A s \in 1..Len(lconf) : TableTrue(lconf[s], names'[s])
      /\ \A l \in listeners : Registered(lconf[l.server], names'[l.server])
  <2>1. CASE Registers
    BY <2>1, RegistersDoes
  <2>2. CASE names' = names
    BY <1>1, <2>2 DEF StartTypes, NamesOfBlocks
  <2> QED BY <2>1, <2>2
<1>3. StartTypes'
  BY <1>1, <1>2 DEF StartTypes
<1>4. TodoOfSpec'
  BY <1>1 DEF TodoOfSpec, Block
<1>5. ListenersOfSpecs'
  BY <1>1 DEF ListenersOfSpecs
<1>6. PortsServed'
  BY <1>1 DEF PortsServed, Served
<1>7. NamesOfBlocks'
  BY <1>2 DEF NamesOfBlocks
<1>8. ServersListen'
  BY <1>1 DEF ServersListen
<1> QED BY <1>3, <1>4, <1>5, <1>6, <1>7, <1>8 DEF StartInv

(* A listener that does not start has a cause: its names, its encryption   *)
(* settings or a port that something else holds.                           *)
LEMMA NoListenerForCause ==
  ASSUME StartInv, NEW p \in Range(SpecPorts(Block, phase)), p \notin Bound,
         Registers, ~Started(p), UNCHANGED <<lconf, taken, server, phase, listeners>>
  PROVE  StartRefusedForCause'
<1>1. StartTypes
  BY DEF StartInv
<1>2. phase \in 1..5 /\ Block' = Block
  BY <1>1 DEF StartTypes, Block
<1>3. names'[server].ok \/ NamesWrong(Block)
  BY RegistersDoes
<1>4. CASE NamesWrong(Block)
  <2>1. NamesWrong(Block')
    BY <1>2, <1>4
  <2> QED BY <2>1, Zenon DEF NamesWrong, StartRefusedForCause
<1>5. CASE ~Block.crypto_ok
  BY <1>2, <1>5, Zenon DEF StartRefusedForCause
<1>6. CASE ~Bindable(p)
  <2>1. p \in taken \/ \E l \in listeners : l.port = p /\ l.server # server
    BY <1>6 DEF Bindable, Bound, Own
  <2>2. /\ p \in Range(SpecPorts(Block', phase))
        /\ p \in taken' \/ \E l \in listeners' : l.port = p /\ l.server # server'
    BY <1>2, <2>1
  <2> QED BY <1>2, <2>2, Zenon DEF StartRefusedForCause
<1> QED BY <1>3, <1>4, <1>5, <1>6 DEF Started

(* What has to be done stays part of the spec; without the mark of a bad   *)
(* spec it is a list of ports.                                             *)
LEMMA TodoIs ==
  ASSUME StartInv, todo # <<>>, todo # BadSpec
  PROVE  /\ todo \in Seq(Ports) /\ Range(todo) \subseteq Range(SpecPorts(Block, phase))
         /\ Head(todo) \in Ports /\ Head(todo) \in Range(SpecPorts(Block, phase))
         /\ Tail(todo) \in Seq(Ports) /\ Range(Tail(todo)) \subseteq Range(todo)
         /\ Range(todo) \ Range(Tail(todo)) \subseteq {Head(todo)}
<1>1. todo \in Seq(Ports) /\ Range(todo) \subseteq Range(SpecPorts(Block, phase))
  BY DEF StartInv, TodoOfSpec
<1> QED BY <1>1, TodoParts

(* A turn of create_for_spec(): a bad spec, a port that an earlier spec got, or
   a new listener. *)
LEMMA OpenSpecPortKeeps == ASSUME StartInv, OpenSpecPort PROVE StartInv'
<1>1. /\ result = "starting" /\ phase < 4 /\ todo # <<>> /\ UNCHANGED <<lconf, taken, server, phase>>
      /\ StartTypes /\ Block' = Block
  BY DEF OpenSpecPort, StartInv, Block
<1>1a. phase \in 1..3
  BY <1>1 DEF StartTypes
<1>2. CASE todo = BadSpec /\ Fails /\ UNCHANGED names
  <2>1. SpecPorts(Block', phase) = BadSpec
    <3>1. BadSpec \notin Seq(Ports)
      <4>1. BadSpec # <<>>
        BY DEF BadSpec
      <4> QED BY <4>1, TodoParts
    <3> QED BY <1>1, <1>2, <3>1 DEF StartInv, TodoOfSpec
  <2>2. StartRefusedForCause'
    BY <1>1, <1>1a, <2>1, Zenon DEF StartRefusedForCause
  <2> QED BY <1>1, <1>2, <2>2, GivesUp DEF Fails
<1>3. CASE /\ Head(todo) \in Bound
           /\ todo' = Tail(todo) /\ UNCHANGED <<names, listeners, result>>
  <2>1. todo # BadSpec
    <3>1. \A l \in listeners : l.port \in Ports
      BY <1>1 DEF StartTypes
    <3>2. Head(todo) \in Nat
      BY <1>3, <3>1 DEF Bound, Own, Ports
    <3> QED BY <3>2 DEF BadSpec
  <2>2. ASSUME NEW p \in Range(todo) \ Range(todo'), FirstNamed(Block, phase, p)
        PROVE  [server |-> server, port |-> p, kind |-> Phases[phase]] \in listeners'
    <3>1. p = Head(todo)
      BY <1>1, <1>3, <2>1, <2>2, TodoIs
    <3>2. PICK l \in listeners : l.server = server /\ l.port = p
      BY <1>3, <3>1 DEF Bound, Own
    <3>3. PICK j \in 1..5 : /\ l.kind = Phases[j] /\ l.port \in Range(SpecPorts(lconf[l.server], j))
                            /\ l.server = server => j <= phase
      BY DEF StartInv, ListenersOfSpecs
    <3>4. j = phase
      <4>1. p \in Range(SpecPorts(Block, j)) /\ j <= phase
        BY <3>2, <3>3 DEF Block
      <4>2. j \notin 1..(phase - 1)
        BY <2>2, <4>1 DEF FirstNamed
      <4> QED BY <1>1a, <4>1, <4>2
    <3>5. l = [server |-> server, port |-> p, kind |-> Phases[phase]]
      <4>1. l \in [server : 1..server, port : Ports, kind : Kinds]
        BY <1>1 DEF StartTypes
      <4> QED BY <3>2, <3>3, <3>4, <4>1
    <3> QED BY <1>3, <3>5
  <2>3. /\ todo \in Seq(Ports) /\ todo' \in Seq(Ports) /\ Range(todo') \subseteq Range(todo)
    BY <1>1, <1>3, <2>1, TodoIs
  <2>4. ~(phase = 5)
    BY <1>1a
  <2> QED BY <1>1, <1>3, <2>2, <2>3, <2>4, GoesOn
<1>4. CASE /\ todo # BadSpec /\ Head(todo) \notin Bound /\ Registers
           /\ Started(Head(todo)) /\ Opened(Head(todo)) /\ todo' = Tail(todo) /\ UNCHANGED result
  <2>1. /\ todo \in Seq(Ports) /\ todo' \in Seq(Ports) /\ Range(todo') \subseteq Range(todo)
        /\ Head(todo) \in Ports /\ Head(todo) \in Range(SpecPorts(Block, phase))
        /\ Range(todo) \ Range(todo') \subseteq {Head(todo)}
    BY <1>1, <1>4, TodoIs
  <2>2. \A p \in Range(todo) \ Range(todo') :
          [server |-> server, port |-> p, kind |-> Phases[phase]] \in listeners'
    BY <1>4, <2>1 DEF Opened
  <2>3. names'[server].ok /\ \E p \in Range(SpecPorts(Block, phase)) : p \in Ports /\ Opened(p)
    BY <1>4, <2>1 DEF Started
  <2>4. ~(phase = 5)
    BY <1>1a
  <2> QED BY <1>1, <1>4, <2>1, <2>2, <2>3, <2>4, GoesOn
<1>5. CASE /\ todo # BadSpec /\ Head(todo) \notin Bound /\ Registers
           /\ ~Started(Head(todo)) /\ Fails
  <2>1. Head(todo) \in Range(SpecPorts(Block, phase))
    BY <1>1, <1>5, TodoIs
  <2>2. StartRefusedForCause'
    BY <1>1, <1>5, <2>1, NoListenerForCause DEF Fails
  <2> QED BY <1>1, <1>5, <2>2, GivesUp DEF Fails
<1> QED BY <1>2, <1>3, <1>4, <1>5 DEF OpenSpecPort

(* The listener on the listen port, which may be missing without an error. *)
LEMMA OpenLegacyKeeps == ASSUME StartInv, OpenLegacy PROVE StartInv'
<1>1. /\ result = "starting" /\ result' = "starting" /\ phase = 4 /\ todo # <<>> /\ todo' = <<>>
      /\ UNCHANGED <<lconf, taken, server, phase>>
  BY DEF OpenLegacy
<1>2. todo # BadSpec
  <2>1. BadSpec \notin Seq(Ports)
    <3>1. BadSpec # <<>>
      BY DEF BadSpec
    <3> QED BY <3>1, TodoParts
  <2> QED BY <1>1, <2>1 DEF StartInv, TodoOfSpec
<1>3. /\ todo \in Seq(Ports) /\ Head(todo) \in Ports
      /\ Head(todo) \in Range(SpecPorts(Block, phase))
  BY <1>1, <1>2, TodoIs
<1>4. todo' \in Seq(Ports) /\ Range(todo') \subseteq Range(todo)
  <2>1. <<>> \in Seq(Ports) /\ Range(<<>>) = {}
    BY DEF Range
  <2> QED BY <1>1, <2>1
<1>5. ~(phase < 4) /\ phase # 5
  BY <1>1
<1>6. Registers \/ (names' = names /\ listeners' = listeners)
  BY DEF OpenLegacy
<1>7. \/ listeners' = listeners
      \/ names'[server].ok /\ \E p \in Range(SpecPorts(Block, phase)) : p \in Ports /\ Opened(p)
  BY <1>3 DEF OpenLegacy, Started
<1> QED BY <1>1, <1>3, <1>4, <1>5, <1>6, <1>7, GoesOn

(* The listener of a block that has no other. *)
LEMMA OpenFallbackKeeps == ASSUME StartInv, OpenFallback PROVE StartInv'
<1>1. /\ result = "starting" /\ phase = 5 /\ todo # <<>>
      /\ UNCHANGED <<lconf, taken, server, phase>>
  BY DEF OpenFallback
<1>2. todo # BadSpec
  <2>1. BadSpec \notin Seq(Ports)
    <3>1. BadSpec # <<>>
      BY DEF BadSpec
    <3> QED BY <3>1, TodoParts
  <2> QED BY <1>1, <2>1 DEF StartInv, TodoOfSpec
<1>3. /\ todo \in Seq(Ports) /\ Head(todo) \in Ports
      /\ Head(todo) \in Range(SpecPorts(Block, phase))
  BY <1>1, <1>2, TodoIs
<1>4. <<>> \in Seq(Ports) /\ Range(<<>>) \subseteq Range(todo)
  BY DEF Range
<1>5. ~(phase < 4)
  BY <1>1
<1>6. CASE Own # {} /\ todo' = <<>> /\ UNCHANGED <<names, listeners, result>>
  <2>1. \E l \in listeners' : l.server = server
    BY <1>6 DEF Own
  <2> QED BY <1>1, <1>3, <1>4, <1>5, <1>6, <2>1, GoesOn
<1>7. CASE /\ Own = {} /\ Registers /\ Started(Head(todo)) /\ Opened(Head(todo))
           /\ todo' = <<>> /\ UNCHANGED result
  <2>1. \E l \in listeners' : l.server = server
    <3> DEFINE m == [server |-> server, port |-> Head(todo), kind |-> Phases[phase]]
    <3>1. m \in listeners' /\ m.server = server
      BY <1>7 DEF Opened
    <3> HIDE DEF m
    <3> QED BY <3>1
  <2>2. names'[server].ok /\ \E p \in Range(SpecPorts(Block, phase)) : p \in Ports /\ Opened(p)
    BY <1>3, <1>7 DEF Started
  <2> QED BY <1>1, <1>3, <1>4, <1>5, <1>7, <2>1, <2>2, GoesOn
<1>8. CASE Own = {} /\ Registers /\ ~Started(Head(todo)) /\ Fails
  <2>1. Head(todo) \notin Bound
    BY <1>8 DEF Bound
  <2>2. StartRefusedForCause'
    BY <1>1, <1>3, <1>8, <2>1, NoListenerForCause DEF Fails
  <2> QED BY <1>1, <1>8, <2>2, GivesUp DEF Fails
<1> QED BY <1>6, <1>7, <1>8 DEF OpenFallback

(* The next spec of the block: what the last one names is served. *)
LEMMA NextSpecKeeps == ASSUME StartInv, NextSpec PROVE StartInv'
<1>1. /\ result = "starting" /\ todo = <<>> /\ phase < 5 /\ phase' = phase + 1
      /\ todo' = SpecPorts(Block, phase + 1)
      /\ UNCHANGED <<lconf, taken, server, listeners, names, result>>
  BY DEF NextSpec
<1>2. StartTypes /\ ListenersOfSpecs /\ PortsServed /\ NamesOfBlocks /\ ServersListen
  BY DEF StartInv
<1>3. /\ Block \in ServerBlocks /\ phase \in 1..4 /\ phase + 1 \in 1..5 /\ Block' = Block
      /\ server \in Nat
  BY <1>1, <1>2, StartParts DEF StartTypes, Block
<1>4. StartTypes'
  BY <1>1, <1>2, <1>3 DEF StartTypes
<1>5. TodoOfSpec'
  <2>1. (todo' = BadSpec /\ phase + 1 < 4) \/ todo' \in Seq(Ports)
    BY <1>1, <1>3, SpecPortsAre
  <2>2. todo' = SpecPorts(Block, phase)'
    BY <1>1, <1>3
  <2> QED BY <1>1, <2>1, <2>2 DEF TodoOfSpec
<1>6. ListenersOfSpecs'
  <2>1. ASSUME NEW l \in listeners
        PROVE  \E j \in 1..5 : /\ l.kind = Phases[j] /\ l.port \in Range(SpecPorts(lconf[l.server], j))
                               /\ l.server = server => j <= phase + 1
    <3>1. PICK j \in 1..5 : /\ l.kind = Phases[j] /\ l.port \in Range(SpecPorts(lconf[l.server], j))
                            /\ l.server = server => j <= phase
      BY <1>2 DEF ListenersOfSpecs
    <3>2. j <= phase => j <= phase + 1
      BY <1>3
    <3> QED BY <3>1, <3>2
  <2> QED BY <1>1, <2>1, Zenon DEF ListenersOfSpecs
<1>7. PortsServed'
  <2>1. ASSUME NEW s \in 1..server, NEW k \in 1..3
        PROVE  /\ s < server \/ k < phase + 1 => Served(s, k, Range(SpecPorts(lconf[s], k)))'
               /\ s = server /\ k = phase + 1 =>
                    Served(s, k, Range(SpecPorts(lconf[s], k)) \ Range(todo))'
    <3>1. CASE s < server \/ k < phase
      <4>1. Served(s, k, Range(SpecPorts(lconf[s], k)))
        BY <1>2, <3>1 DEF PortsServed
      <4>2. Served(s, k, Range(SpecPorts(lconf[s], k)))'
        BY <1>1, <4>1 DEF Served
      <4>3. ~(s = server /\ k = phase + 1)
        BY <1>3, <3>1
      <4> QED BY <4>2, <4>3
    <3>2. CASE s = server /\ k = phase
      <4>1. Served(s, k, Range(SpecPorts(lconf[s], k)) \ Range(todo))
        BY <1>2, <3>2 DEF PortsServed
      <4>2. Range(todo) = {}
        BY <1>1 DEF Range
      <4>3. Served(s, k, Range(SpecPorts(lconf[s], k)))'
        BY <1>1, <4>1, <4>2 DEF Served
      <4>4. k # phase + 1
        BY <1>3, <3>2
      <4> QED BY <4>3, <4>4
    <3>3. CASE s = server /\ k = phase + 1
      <4>1. (Range(SpecPorts(lconf[s], k)) \ Range(todo))' = {}
        BY <1>1, <3>3 DEF Block
      <4>2. Served(s, k, Range(SpecPorts(lconf[s], k)) \ Range(todo))'
        BY <4>1 DEF Served
      <4>3. ~(s < server \/ k < phase + 1)
        BY <1>3, <3>3
      <4> QED BY <4>2, <4>3
    <3>4. CASE s = server /\ k > phase + 1
      BY <1>3, <3>4
    <3> QED BY <1>3, <3>1, <3>2, <3>3, <3>4
  <2> QED BY <1>1, <2>1 DEF PortsServed
<1>8. NamesOfBlocks'
  BY <1>1, <1>2 DEF NamesOfBlocks
<1>9. ServersListen'
  <2>1. phase + 1 = 5 => todo' # <<>>
    BY <1>1, <1>3, SpecPortsAre
  <2> QED BY <1>1, <1>2, <2>1 DEF ServersListen
<1>10. StartRefusedForCause'
  <2>1. result' = "starting"
    BY <1>1
  <2> QED BY <2>1, Zenon DEF StartRefusedForCause
<1> QED BY <1>4, <1>5, <1>6, <1>7, <1>8, <1>9, <1>10 DEF StartInv

(* The next server block, or the end. *)
LEMMA NextServerKeeps == ASSUME StartInv, NextServer PROVE StartInv'
<1>1. /\ result = "starting" /\ todo = <<>> /\ phase = 5
      /\ UNCHANGED <<lconf, taken, listeners, names>>
  BY DEF NextServer
<1>2. StartTypes /\ TodoOfSpec /\ ListenersOfSpecs /\ PortsServed /\ NamesOfBlocks /\ ServersListen
  BY DEF StartInv
<1>3. /\ Len(lconf) \in Nat /\ server \in 1..Len(lconf)
      /\ \A s \in 1..Len(lconf) : lconf[s] \in ServerBlocks
      /\ \A l \in listeners : l.server \in 1..server
  BY <1>2, StartParts DEF StartTypes
<1>4. CASE /\ server < Len(lconf) /\ server' = server + 1 /\ phase' = 1
           /\ todo' = SpecPorts(lconf[server + 1], 1) /\ result' = result
  <2>1. server + 1 \in 1..Len(lconf) /\ server \in Nat
    BY <1>3, <1>4
  <2>2. StartTypes'
    <3>1. \A s \in 1..server : s \in 1..(server + 1)
      BY <2>1
    <3>2. listeners \in SUBSET [server : 1..(server + 1), port : Ports, kind : Kinds]
      BY <1>2, <3>1 DEF StartTypes
    <3> QED BY <1>1, <1>2, <1>4, <2>1, <3>2 DEF StartTypes
  <2>3. TodoOfSpec'
    <3>1. (todo' = BadSpec /\ 1 < 4) \/ todo' \in Seq(Ports)
      BY <1>3, <1>4, <2>1, SpecPortsAre
    <3>2. todo' = SpecPorts(Block, phase)'
      BY <1>1, <1>4 DEF Block
    <3> QED BY <1>4, <3>1, <3>2 DEF TodoOfSpec
  <2>4. ListenersOfSpecs'
    <3>1. \A l \in listeners : l.server # server + 1
      BY <1>3, <2>1
    <3> QED BY <1>1, <1>2, <1>4, <3>1 DEF ListenersOfSpecs
  <2>5. PortsServed'
    <3>1. ASSUME NEW s \in 1..(server + 1), NEW k \in 1..3
          PROVE  /\ s < server + 1 \/ k < 1 => Served(s, k, Range(SpecPorts(lconf[s], k)))'
                 /\ s = server + 1 /\ k = 1 =>
                      Served(s, k, Range(SpecPorts(lconf[s], k)) \ Range(todo))'
      <4>1. CASE s < server + 1
        <5>1. s \in 1..server /\ k < phase /\ s # server + 1
          BY <1>1, <2>1, <4>1
        <5>2. Served(s, k, Range(SpecPorts(lconf[s], k)))
          BY <1>2, <5>1 DEF PortsServed
        <5> QED BY <1>1, <5>1, <5>2 DEF Served
      <4>2. CASE s = server + 1
        <5>1. k = 1 => (Range(SpecPorts(lconf[s], k)) \ Range(todo))' = {}
          BY <1>1, <1>4, <4>2
        <5>2. ~(s < server + 1 \/ k < 1)
          BY <2>1, <4>2
        <5> QED BY <5>1, <5>2 DEF Served
      <4> QED BY <2>1, <4>1, <4>2
    <3> QED BY <1>4, <3>1 DEF PortsServed
  <2>6. NamesOfBlocks'
    BY <1>1, <1>2 DEF NamesOfBlocks
  <2>7. ServersListen'
    <3>1. \A s \in 1..server : \E l \in listeners : l.server = s
      BY <1>1, <1>2, <2>1 DEF ServersListen
    <3>2. (server + 1) - 1 = server
      BY <2>1
    <3> QED BY <1>1, <1>4, <3>1, <3>2 DEF ServersListen
  <2>8. StartRefusedForCause'
    <3>1. result' = "starting"
      BY <1>1, <1>4
    <3> QED BY <3>1, Zenon DEF StartRefusedForCause
  <2> QED BY <2>2, <2>3, <2>4, <2>5, <2>6, <2>7, <2>8 DEF StartInv
<1>5. CASE ~(server < Len(lconf)) /\ result' = "ok" /\ UNCHANGED <<server, phase, todo>>
  <2>1. server = Len(lconf)
    BY <1>3, <1>5
  <2>2. StartTypes'
    BY <1>1, <1>2, <1>5 DEF StartTypes
  <2>3. TodoOfSpec'
    BY <1>1, <1>2, <1>5 DEF TodoOfSpec, Block
  <2>4. ListenersOfSpecs'
    BY <1>1, <1>2, <1>5 DEF ListenersOfSpecs
  <2>5. PortsServed'
    BY <1>1, <1>2, <1>5 DEF PortsServed, Served
  <2>6. NamesOfBlocks'
    BY <1>1, <1>2 DEF NamesOfBlocks
  <2>7. ServersListen'
    BY <1>1, <1>2, <1>5, <2>1 DEF ServersListen
  <2>8. StartRefusedForCause'
    BY <1>5, Zenon DEF StartRefusedForCause
  <2> QED BY <2>2, <2>3, <2>4, <2>5, <2>6, <2>7, <2>8 DEF StartInv
<1> QED BY <1>4, <1>5 DEF NextServer

(* What a connection is taken for, once the names of its block are there.  *)
LEMMA RouteReaches ==
  ASSUME StartInv, NEW l \in listeners, NEW s, s = l.server, NEW key \in Up(s) \cup Live(s)
  PROVE  LET r == Route(l, key)
             claims == {a \in 1..Len(lconf[s].apps) : key \in LiveKeys(lconf[s], a)}
         IN  /\ key \in Live(s) /\ l.kind \notin {"publisher", "srtla"} =>
                  r.role = "player" /\ \A a \in claims : r.up = UpKey(lconf[s], a)
             /\ key \in Up(s) \ Live(s) /\ l.kind # "player" =>
                  r.role = "publisher" /\ r.up = key
             /\ r # Refused => UpKey(lconf[s], r.app) = r.up
<1> DEFINE block == lconf[s]
           t == names[s]
           r == Route(l, key)
           player == get_uplive(t, key) # NoName
           up == IF player THEN get_uplive(t, key) ELSE key
<1>1. /\ block \in ServerBlocks /\ t \in NameTables /\ TableTrue(block, t) /\ Registered(block, t)
  <2>1. StartTypes /\ NamesOfBlocks
    BY DEF StartInv
  <2>2. s \in 1..Len(lconf)
    BY <2>1, StartParts
  <2> QED BY <2>1, <2>2, StartParts DEF NamesOfBlocks
<1>2. Up(s) = {UpKey(block, a) : a \in 1..Len(block.apps)}
      /\ Live(s) = UNION {LiveKeys(block, a) : a \in 1..Len(block.apps)}
  BY DEF Up, Live
<1>2a. r = IF ~Allowed(l.kind, player) \/ get_ca(t, up) = 0 THEN Refused
           ELSE [role |-> IF player THEN "player" ELSE "publisher", up |-> up, app |-> get_ca(t, up)]
  BY DEF Route
<1>3. Len(block.apps) \in Nat /\ \A a \in 1..Len(block.apps) : UpKey(block, a) # NoName
  BY <1>1, BlockParts
<1> HIDE DEF r, block, t
<1>4. ASSUME NEW a \in 1..Len(block.apps), key \in LiveKeys(block, a)
      PROVE  player /\ up = UpKey(block, a)
  <2>1. key \in DOMAIN t.live /\ t.live[key] = UpKey(block, a)
    BY <1>1, <1>4 DEF Registered, AppRegistered
  <2> QED BY <1>3, <2>1 DEF get_uplive
<1>5. ASSUME key \notin Live(s)
      PROVE  ~player /\ up = key
  <2>1. key \notin DOMAIN t.live
    BY <1>1, <1>2, <1>5 DEF TableTrue
  <2> QED BY <2>1 DEF get_uplive
<1>6. ASSUME NEW a \in 1..Len(block.apps), up = UpKey(block, a)
      PROVE  get_ca(t, up) \in 1..Len(block.apps) /\ UpKey(block, get_ca(t, up)) = up
  <2>1. UpKey(block, a) \in DOMAIN t.uplive
    BY <1>1 DEF Registered, AppRegistered
  <2>2. get_ca(t, up) = t.uplive[up] /\ up \in DOMAIN t.uplive
    BY <1>6, <2>1 DEF get_ca
  <2> HIDE DEF up
  <2> QED BY <1>1, <2>2 DEF TableTrue
<1>7. \E a \in 1..Len(block.apps) : up = UpKey(block, a)
  <2>1. CASE key \in Live(s)
    <3>1. PICK a \in 1..Len(block.apps) : key \in LiveKeys(block, a)
      BY <1>2, <2>1
    <3> HIDE DEF up
    <3> QED BY <1>4, <3>1
  <2>2. CASE key \notin Live(s)
    <3>1. up = key /\ key \in Up(s)
      BY <1>5, <2>2
    <3> HIDE DEF up
    <3> QED BY <1>2, <3>1
  <2> QED BY <2>1, <2>2
<1>8. get_ca(t, up) # 0 /\ UpKey(block, get_ca(t, up)) = up
  <2> HIDE DEF up
  <2> QED BY <1>3, <1>6, <1>7
<1> HIDE DEF up, player
<1>9. CASE Allowed(l.kind, player)
  <2>1. r = [role |-> IF player THEN "player" ELSE "publisher", up |-> up, app |-> get_ca(t, up)]
    BY <1>2a, <1>8, <1>9
  <2>2. r.up = up /\ UpKey(block, r.app) = r.up
    BY <1>8, <2>1
  <2>3. ASSUME key \in Live(s)
        PROVE  r.role = "player" /\ \A a \in 1..Len(block.apps) :
                 key \in LiveKeys(block, a) => r.up = UpKey(block, a)
    <3>1. player
      BY <1>2, <1>4, <2>3
    <3> QED BY <1>4, <2>1, <2>2, <3>1
  <2>4. ASSUME key \notin Live(s)
        PROVE  r.role = "publisher" /\ r.up = key
    BY <1>5, <2>1, <2>2, <2>4
  <2> QED BY <2>2, <2>3, <2>4 DEF r, block
<1>10. CASE ~Allowed(l.kind, player)
  <2>1. r = Refused
    BY <1>2a, <1>10
  <2>2. ASSUME key \in Live(s)
        PROVE  l.kind \in {"publisher", "srtla"}
    <3>1. player
      BY <1>2, <1>4, <2>2
    <3> QED BY <1>10, <3>1 DEF Allowed
  <2>3. ASSUME key \notin Live(s)
        PROVE  l.kind = "player"
    BY <1>5, <1>10, <2>3 DEF Allowed
  <2> QED BY <2>1, <2>2, <2>3 DEF r, block
<1> QED BY <1>9, <1>10

(* The invariant gives both halves of what start() promises. *)
LEMMA StartInvMatches == ASSUME StartInv PROVE StartMatchesConfiguration
<1>1. StartTypes /\ PortsServed /\ ServersListen /\ StartRefusedForCause
  BY DEF StartInv
<1>2. ServesConfiguration
  <2>1. SUFFICES ASSUME result = "ok" PROVE ServesConfiguration
    BY Zenon DEF ServesConfiguration
  <2>2. server = Len(lconf) /\ phase = 5 /\ todo = <<>> /\ Len(lconf) \in Nat
    BY <1>1, <2>1, StartParts DEF ServersListen
  <2>3. ASSUME NEW s \in 1..Len(lconf)
        PROVE  \E l \in listeners : l.server = s
    BY <1>1, <2>2 DEF ServersListen
  <2>4. ASSUME NEW s \in 1..Len(lconf), NEW k \in 1..3, NEW p \in Range(SpecPorts(lconf[s], k)),
               \A j \in 1..(k - 1) : p \notin Range(SpecPorts(lconf[s], j))
        PROVE  [server |-> s, port |-> p, kind |-> Phases[k]] \in listeners
    <3>1. k < phase /\ s \in 1..server
      BY <2>2
    <3> QED BY <1>1, <2>4, <3>1 DEF PortsServed, Served, FirstNamed
  <2>5. ASSUME NEW l \in listeners, NEW key \in Up(l.server) \cup Live(l.server)
        PROVE  LET s == l.server
                   r == Route(l, key)
                   claims == {a \in 1..Len(lconf[s].apps) : key \in LiveKeys(lconf[s], a)}
               IN  /\ key \in Live(s) /\ l.kind \notin {"publisher", "srtla"} =>
                        r.role = "player" /\ \A a \in claims : r.up = UpKey(lconf[s], a)
                   /\ key \in Up(s) \ Live(s) /\ l.kind # "player" =>
                        r.role = "publisher" /\ r.up = key
                   /\ r # Refused => UpKey(lconf[s], r.app) = r.up
    BY RouteReaches, Zenon
  <2> QED BY <2>3, <2>4, <2>5, Zenon DEF ServesConfiguration
<1> QED BY <1>1, <1>2 DEF StartMatchesConfiguration

(* For every configuration and every port that other programs hold: a      *)
(* start that succeeds serves every port of every block in the role of the *)
(* first spec that names it and takes every name to the app block that     *)
(* declares it; one that fails does so for a cause in the configuration or *)
(* on the host.                                                            *)
THEOREM StartServesConfiguration == ListenSpec => []StartMatchesConfiguration
<1>1. ListenInit => StartInv
  BY StartInitially
<1>2. StartInv /\ [ListenNext]_listenVars => StartInv'
  <2> SUFFICES ASSUME StartInv, [ListenNext]_listenVars PROVE StartInv'
    OBVIOUS
  <2>1. CASE OpenSpecPort
    BY <2>1, OpenSpecPortKeeps
  <2>2. CASE OpenLegacy
    BY <2>2, OpenLegacyKeeps
  <2>3. CASE OpenFallback
    BY <2>3, OpenFallbackKeeps
  <2>4. CASE NextSpec
    BY <2>4, NextSpecKeeps
  <2>5. CASE NextServer
    BY <2>5, NextServerKeeps
  <2>6. CASE UNCHANGED listenVars
    <3>1. UNCHANGED <<lconf, taken, server, phase, todo, listeners, names, result>>
      BY <2>6 DEF listenVars
    <3>2. StartRefusedForCause'
      <4>1. result = "error" =>
              \/ (\E k \in 1..3 : SpecPorts(Block, k) = BadSpec) \/ ~Block.crypto_ok \/ NamesWrong(Block)
              \/ \E k \in 1..5 : \E p \in Range(SpecPorts(Block, k)) :
                   p \in taken \/ \E l \in listeners : l.port = p /\ l.server # server
        <5>1. StartRefusedForCause
          BY DEF StartInv
        <5> QED BY <5>1, Zenon DEF StartRefusedForCause, NamesWrong
      <4>2. Block' = Block
        BY <3>1 DEF Block
      <4>3. result' = "error" =>
              \/ (\E k \in 1..3 : SpecPorts(Block', k) = BadSpec) \/ ~Block'.crypto_ok
              \/ NamesWrong(Block')
              \/ \E k \in 1..5 : \E p \in Range(SpecPorts(Block', k)) :
                   p \in taken' \/ \E l \in listeners' : l.port = p /\ l.server # server'
        BY <3>1, <4>1, <4>2
      <4> QED BY <4>3, Zenon DEF StartRefusedForCause, NamesWrong
    <3>3. StartTypes' /\ ListenersOfSpecs' /\ NamesOfBlocks' /\ ServersListen'
      BY <3>1 DEF StartInv, StartTypes, ListenersOfSpecs, NamesOfBlocks, ServersListen
    <3>4. TodoOfSpec'
      BY <3>1 DEF StartInv, TodoOfSpec, Block
    <3>5. PortsServed'
      BY <3>1 DEF StartInv, PortsServed, Served
    <3> QED BY <3>2, <3>3, <3>4, <3>5 DEF StartInv
  <2> QED BY <2>1, <2>2, <2>3, <2>4, <2>5, <2>6 DEF ListenNext
<1>3. StartInv => StartMatchesConfiguration
  BY StartInvMatches
<1> QED BY <1>1, <1>2, <1>3, PTL DEF ListenSpec

-----------------------------------------------------------------------------
(***************************************************************************)
(* The configuration parser.  First what the brackets of a file t say, and *)
(* what one more line changes of it: nothing about the lines before it.    *)
(***************************************************************************)

(* Counting the lines of one kind takes one line at a time. *)
LEMMA CountStep ==
  ASSUME NEW P, NEW i \in Nat, i > 0
  PROVE  /\ Cardinality({j \in 1..i : j \in P}) \in Nat
         /\ Cardinality({j \in 1..(i - 1) : j \in P}) \in Nat
         /\ i \in P => Cardinality({j \in 1..i : j \in P})
                         = Cardinality({j \in 1..(i - 1) : j \in P}) + 1
         /\ i \notin P => Cardinality({j \in 1..i : j \in P})
                            = Cardinality({j \in 1..(i - 1) : j \in P})
<1> DEFINE B == {j \in 1..(i - 1) : j \in P}
           C == {j \in 1..i : j \in P}
<1>1. IsFiniteSet(1..(i - 1)) /\ B \subseteq 1..(i - 1)
  BY FS_Interval
<1>2. IsFiniteSet(B)
  BY <1>1, FS_Subset
<1>3. Cardinality(B) \in Nat
  BY <1>2, FS_CardinalityType
<1>4. CASE i \in P
  <2>1. C = B \cup {i} /\ i \notin B
    BY <1>4
  <2>2. Cardinality(C) = Cardinality(B) + 1
    BY <1>2, <2>1, FS_AddElement
  <2> QED BY <1>3, <1>4, <2>2
<1>5. CASE i \notin P
  <2>1. C = B
    BY <1>5
  <2> QED BY <1>3, <1>5, <2>1
<1> QED BY <1>4, <1>5

(* Nothing is open before the first line. *)
LEMMA DepthZero ==
  ASSUME NEW t
  PROVE  Depth(t, 0) = 0
<1>1. \A w : {j \in 1..0 : t[j].op = w} = {}
  OBVIOUS
<1> QED BY <1>1, FS_EmptySet DEF Depth

(* A line opens a block, ends one or leaves the nesting as it is. *)
LEMMA DepthStep ==
  ASSUME NEW t, NEW i \in Nat, i > 0
  PROVE  /\ Depth(t, i) \in Int /\ Depth(t, i - 1) \in Int
         /\ t[i].op = "open" => Depth(t, i) = Depth(t, i - 1) + 1
         /\ t[i].op = "close" => Depth(t, i) = Depth(t, i - 1) - 1
         /\ t[i].op \notin {"open", "close"} => Depth(t, i) = Depth(t, i - 1)
<1> DEFINE O == {j \in 1..i : t[j].op = "open"}
           E == {j \in 1..i : t[j].op = "close"}
           A(P, m) == Cardinality({j \in 1..m : j \in P})
<1>1. /\ {j \in 1..i : t[j].op = "open"} = {j \in 1..i : j \in O}
      /\ {j \in 1..(i - 1) : t[j].op = "open"} = {j \in 1..(i - 1) : j \in O}
      /\ {j \in 1..i : t[j].op = "close"} = {j \in 1..i : j \in E}
      /\ {j \in 1..(i - 1) : t[j].op = "close"} = {j \in 1..(i - 1) : j \in E}
  OBVIOUS
<1>2. Depth(t, i) = A(O, i) - A(E, i)
  BY <1>1 DEF Depth
<1>3. Depth(t, i - 1) = A(O, i - 1) - A(E, i - 1)
  BY <1>1 DEF Depth
<1>4. (i \in O <=> t[i].op = "open") /\ (i \in E <=> t[i].op = "close")
  OBVIOUS
<1> HIDE DEF O, E
<1>5. ASSUME NEW P
      PROVE  /\ A(P, i) \in Nat /\ A(P, i - 1) \in Nat
             /\ i \in P => A(P, i) = A(P, i - 1) + 1
             /\ i \notin P => A(P, i) = A(P, i - 1)
  BY CountStep
<1> HIDE DEF A
<1>6. /\ A(O, i) \in Nat /\ A(O, i - 1) \in Nat /\ A(E, i) \in Nat /\ A(E, i - 1) \in Nat
      /\ i \in O => A(O, i) = A(O, i - 1) + 1
      /\ i \notin O => A(O, i) = A(O, i - 1)
      /\ i \in E => A(E, i) = A(E, i - 1) + 1
      /\ i \notin E => A(E, i) = A(E, i - 1)
  BY <1>5
<1> QED BY <1>2, <1>3, <1>4, <1>6

(* The nesting is a number. *)
LEMMA DepthType ==
  ASSUME NEW t, NEW i \in Nat
  PROVE  Depth(t, i) \in Int
<1>1. CASE i = 0
  BY <1>1, DepthZero
<1>2. CASE i > 0
  BY <1>2, DepthStep
<1> QED BY <1>1, <1>2

(* The nesting up to a line depends on the lines up to it. *)
LEMMA DepthPrefix ==
  ASSUME NEW t \in Seq(Lines), NEW line \in Lines, NEW i \in 0..Len(t)
  PROVE  Depth(Append(t, line), i) = Depth(t, i)
<1> DEFINE u == Append(t, line)
<1>1. \A j \in 1..Len(t) : u[j] = t[j]
  OBVIOUS
<1>2. \A j \in 1..i : u[j] = t[j]
  BY <1>1
<1>3. \A w : {j \in 1..i : u[j].op = w} = {j \in 1..i : t[j].op = w}
  BY <1>2
<1> QED BY <1>3 DEF Depth

(* What the new line does to the nesting. *)
LEMMA DepthAppend ==
  ASSUME NEW t \in Seq(Lines), NEW line \in Lines
  PROVE  /\ Depth(Append(t, line), Len(t) + 1) \in Int /\ Depth(t, Len(t)) \in Int
         /\ line.op = "open" => Depth(Append(t, line), Len(t) + 1) = Depth(t, Len(t)) + 1
         /\ line.op = "close" => Depth(Append(t, line), Len(t) + 1) = Depth(t, Len(t)) - 1
         /\ line.op = "set" => Depth(Append(t, line), Len(t) + 1) = Depth(t, Len(t))
<1>1. PICK u : u = Append(t, line)
  OBVIOUS
<1>2. PICK m \in Nat : m = Len(t) + 1
  OBVIOUS
<1>3. u[m] = line /\ m > 0 /\ m - 1 = Len(t) /\ Len(t) \in 0..Len(t)
  BY <1>1, <1>2
<1>4. Depth(u, m - 1) = Depth(t, Len(t))
  BY <1>1, <1>3, DepthPrefix
<1>5. /\ Depth(u, m) \in Int /\ Depth(u, m - 1) \in Int
      /\ u[m].op = "open" => Depth(u, m) = Depth(u, m - 1) + 1
      /\ u[m].op = "close" => Depth(u, m) = Depth(u, m - 1) - 1
      /\ u[m].op \notin {"open", "close"} => Depth(u, m) = Depth(u, m - 1)
  BY <1>3, DepthStep
<1>6. /\ Depth(u, m) \in Int /\ Depth(t, Len(t)) \in Int
      /\ line.op = "open" => Depth(u, m) = Depth(t, Len(t)) + 1
      /\ line.op = "close" => Depth(u, m) = Depth(t, Len(t)) - 1
      /\ line.op = "set" => Depth(u, m) = Depth(t, Len(t))
  BY <1>3, <1>4, <1>5
<1> QED BY <1>1, <1>2, <1>6

(* The openings are those there were and perhaps the new line. *)
LEMMA OpensStep ==
  ASSUME NEW t \in Seq(Lines), NEW line \in Lines
  PROVE  /\ Opens(t) \subseteq 1..Len(t)
         /\ line.op = "open" => Opens(Append(t, line)) = Opens(t) \cup {Len(t) + 1}
         /\ line.op # "open" => Opens(Append(t, line)) = Opens(t)
<1> DEFINE u == Append(t, line)
<1>1. /\ Len(u) = Len(t) + 1 /\ Len(t) \in Nat /\ u[Len(t) + 1] = line
      /\ \A j \in 1..Len(t) : u[j] = t[j]
  OBVIOUS
<1> HIDE DEF u
<1>2. /\ Opens(t) \subseteq 1..Len(t)
      /\ line.op = "open" => Opens(u) = Opens(t) \cup {Len(t) + 1}
      /\ line.op # "open" => Opens(u) = Opens(t)
  BY <1>1 DEF Opens
<1> QED BY <1>2 DEF u

(* Which block a line is in depends on the lines before it. *)
LEMMA EnclosesPrefix ==
  ASSUME NEW t \in Seq(Lines), NEW line \in Lines, NEW i \in 1..(Len(t) + 1), NEW j \in Nat
  PROVE  Encloses(Append(t, line), j, i) <=> Encloses(t, j, i)
<1> DEFINE u == Append(t, line)
<1>1. \A k \in 0..Len(t) : Depth(u, k) = Depth(t, k)
  BY DepthPrefix
<1>2. Len(t) \in Nat
  OBVIOUS
<1> HIDE DEF u
<1>3. Encloses(u, j, i) <=> Encloses(t, j, i)
  <2>1. CASE j < i
    <3>1. j \in 0..Len(t) /\ i - 1 \in 0..Len(t) /\ \A k \in j..(i - 1) : k \in 0..Len(t)
      BY <1>2, <2>1
    <3> QED BY <1>1, <3>1 DEF Encloses
  <2>2. CASE ~(j < i)
    BY <2>2 DEF Encloses
  <2> QED BY <2>1, <2>2
<1> QED BY <1>3 DEF u

(* A line is in one block only: the one opened last and not yet ended. *)
LEMMA EnclosesOnce ==
  ASSUME NEW t \in Seq(Lines), NEW i \in 1..(Len(t) + 1),
         NEW j \in Opens(t), NEW k \in Opens(t), Encloses(t, j, i), Encloses(t, k, i)
  PROVE  j = k
<1>1. ASSUME NEW a \in Opens(t), NEW b \in Opens(t), Encloses(t, a, i), Encloses(t, b, i), a < b
      PROVE  FALSE
  <2>1. a \in Nat /\ b \in Nat /\ b > 0 /\ t[b].op = "open" /\ b < i
    BY <1>1 DEF Opens, Encloses
  <2>2. Depth(t, b) = Depth(t, b - 1) + 1 /\ Depth(t, b) \in Int /\ Depth(t, b - 1) \in Int
    BY <2>1, DepthStep
  <2>3. Depth(t, a) = Depth(t, b) /\ \A m \in a..(i - 1) : Depth(t, m) >= Depth(t, a)
    BY <1>1 DEF Encloses
  <2>4. b - 1 \in a..(i - 1)
    BY <1>1, <2>1
  <2>5. Depth(t, b - 1) >= Depth(t, b)
    BY <2>3, <2>4
  <2> QED BY <2>2, <2>5
<1>2. j \in Nat /\ k \in Nat
  BY DEF Opens
<1> QED BY <1>1, <1>2

(* The line that opened the block of line i. *)
LEMMA EnclosingIs ==
  ASSUME NEW t \in Seq(Lines), NEW i \in 1..(Len(t) + 1), NEW j \in Opens(t), Encloses(t, j, i)
  PROVE  Enclosing(t, i) = j
<1>1. (CHOOSE k \in Opens(t) : Encloses(t, k, i)) \in Opens(t)
        /\ Encloses(t, CHOOSE k \in Opens(t) : Encloses(t, k, i), i)
  OBVIOUS
<1>2. (CHOOSE k \in Opens(t) : Encloses(t, k, i)) = j
  BY <1>1, EnclosesOnce
<1> QED BY <1>2 DEF Enclosing

(* The block of a line is opened before it. *)
LEMMA EnclosingBefore ==
  ASSUME NEW t \in Seq(Lines), NEW i \in 1..(Len(t) + 1)
  PROVE  /\ Enclosing(t, i) \in 0..(i - 1)
         /\ Enclosing(t, i) # 0 => /\ Enclosing(t, i) \in Opens(t)
                                   /\ Encloses(t, Enclosing(t, i), i)
<1>1. CASE \E j \in Opens(t) : Encloses(t, j, i)
  <2>1. PICK j \in Opens(t) : Encloses(t, j, i)
    BY <1>1
  <2>2. Enclosing(t, i) = j
    BY <2>1, EnclosingIs
  <2>3. j \in 1..Len(t) /\ j < i
    BY <2>1 DEF Opens, Encloses
  <2> QED BY <2>1, <2>2, <2>3
<1>2. CASE ~\E j \in Opens(t) : Encloses(t, j, i)
  BY <1>2 DEF Enclosing
<1> QED BY <1>1, <1>2

(* One more line does not move the lines before it, *)
(* nor does what it says matter for where it stands. *)
LEMMA EnclosingPrefix ==
  ASSUME NEW t \in Seq(Lines), NEW line \in Lines, NEW i \in 1..(Len(t) + 1)
  PROVE  Enclosing(Append(t, line), i) = Enclosing(t, i)
<1> DEFINE u == Append(t, line)
<1>1. u \in Seq(Lines) /\ Len(u) = Len(t) + 1 /\ Len(t) \in Nat
  OBVIOUS
<1>2. \A j \in Nat : Encloses(u, j, i) <=> Encloses(t, j, i)
  BY EnclosesPrefix
<1>3. Opens(t) \subseteq 1..Len(t) /\ Opens(t) \subseteq Opens(u) /\ Opens(u) \subseteq Opens(t) \cup {Len(t) + 1}
  BY OpensStep
<1> HIDE DEF u
<1>4. i \in 1..(Len(u) + 1)
  BY <1>1
<1>5. CASE \E j \in Opens(t) : Encloses(t, j, i)
  <2>1. PICK j \in Opens(t) : Encloses(t, j, i)
    BY <1>5
  <2>2. j \in Opens(u) /\ j \in Nat /\ Encloses(u, j, i)
    BY <1>2, <1>3, <2>1
  <2>3. Enclosing(u, i) = j
    BY <1>1, <1>4, <2>2, EnclosingIs
  <2>4. Enclosing(t, i) = j
    BY <2>1, EnclosingIs
  <2> QED BY <2>3, <2>4 DEF u
<1>6. CASE ~\E j \in Opens(t) : Encloses(t, j, i)
  <2>1. ASSUME NEW j \in Opens(u), Encloses(u, j, i)
        PROVE  FALSE
    <3>1. j \in Nat /\ Encloses(t, j, i)
      BY <1>1, <1>2, <1>3, <2>1
    <3>2. j < i
      BY <2>1 DEF Encloses
    <3>3. j \in Opens(t)
      BY <1>1, <1>3, <2>1, <3>1, <3>2
    <3> QED BY <1>6, <3>1, <3>3
  <2>2. Enclosing(u, i) = 0
    BY <2>1 DEF Enclosing
  <2>3. Enclosing(t, i) = 0
    BY <1>6 DEF Enclosing
  <2> QED BY <2>2, <2>3 DEF u
<1> QED BY <1>5, <1>6

(* The number of a block counts the openings up to its own. *)
LEMMA NumberStep ==
  ASSUME NEW t \in Seq(Lines), NEW i \in 0..Len(t)
  PROVE  /\ Number(t, i) \in Nat /\ Number(t, 0) = 0
         /\ \A j \in 0..Len(t) : i < j => Number(t, i) <= Number(t, j)
         /\ \A j \in Opens(t) : i < j => Number(t, i) < Number(t, j)
         /\ i \in Opens(t) => Number(t, i) > 0
<1> DEFINE N(j) == {k \in Opens(t) : k <= j}
<1>1. Opens(t) \subseteq 1..Len(t) /\ IsFiniteSet(1..Len(t)) /\ Len(t) \in Nat
  BY FS_Interval DEF Opens
<1>2. \A j \in Int : IsFiniteSet(N(j)) /\ Cardinality(N(j)) \in Nat
  <2>1. \A j \in Int : N(j) \subseteq 1..Len(t)
    BY <1>1
  <2> QED BY <1>1, <2>1, FS_Subset, FS_CardinalityType
<1>3. Number(t, 0) = 0
  <2>1. {k \in Opens(t) : k <= 0} = {}
    BY <1>1
  <2> QED BY <2>1, FS_EmptySet DEF Number
<1>4. ASSUME NEW a \in 0..Len(t), NEW b \in 0..Len(t), a < b
      PROVE  Number(t, a) <= Number(t, b) /\ (b \in Opens(t) => Number(t, a) < Number(t, b))
  <2>1. N(a) \subseteq N(b) /\ a \in Int /\ b \in Int
    BY <1>1, <1>4
  <2>2. Cardinality(N(a)) <= Cardinality(N(b))
    BY <1>2, <2>1, FS_Subset
  <2>3. ASSUME b \in Opens(t)
        PROVE  Cardinality(N(a)) < Cardinality(N(b))
    <3>1. N(a) \subseteq N(b) \ {b} /\ b \in N(b)
      BY <1>1, <1>4, <2>3
    <3>2. IsFiniteSet(N(b) \ {b}) /\ Cardinality(N(b) \ {b}) = Cardinality(N(b)) - 1
      BY <1>2, <2>1, <3>1, FS_RemoveElement
    <3>3. Cardinality(N(a)) <= Cardinality(N(b) \ {b})
      BY <3>1, <3>2, FS_Subset
    <3>4. Cardinality(N(a)) \in Nat /\ Cardinality(N(b)) \in Nat
      BY <1>2, <2>1
    <3> QED BY <3>2, <3>3, <3>4
  <2>4. Number(t, a) = Cardinality(N(a)) /\ Number(t, b) = Cardinality(N(b))
    BY DEF Number
  <2> QED BY <2>2, <2>3, <2>4
<1>5. \A j \in 0..Len(t) : Number(t, j) \in Nat
  <2>1. ASSUME NEW j \in 0..Len(t) PROVE Number(t, j) \in Nat
    <3>1. j \in Int
      BY <1>1
    <3>2. Cardinality(N(j)) \in Nat
      BY <1>2, <3>1
    <3> QED BY <3>2 DEF Number
  <2> QED BY <2>1
<1>6. i \in Opens(t) => Number(t, i) > 0
  <2>1. i \in Opens(t) => 0 \in 0..Len(t) /\ 0 < i
    BY <1>1
  <2>2. i \in Opens(t) => Number(t, 0) < Number(t, i)
    BY <1>4, <2>1
  <2> QED BY <1>3, <2>2
<1>7. \A j \in Opens(t) : j \in 0..Len(t)
  BY <1>1
<1> HIDE DEF N
<1> QED BY <1>3, <1>4, <1>5, <1>6, <1>7

(* Two blocks have two numbers. *)
LEMMA NumberOnce ==
  ASSUME NEW t \in Seq(Lines), NEW i \in Opens(t), NEW j \in Opens(t), Number(t, i) = Number(t, j)
  PROVE  i = j
<1>1. i \in 0..Len(t) /\ j \in 0..Len(t) /\ Number(t, i) \in Nat /\ Number(t, j) \in Nat
  <2>1. i \in 0..Len(t) /\ j \in 0..Len(t)
    BY DEF Opens
  <2> QED BY <2>1, NumberStep
<1>2. i < j => Number(t, i) < Number(t, j)
  BY <1>1, NumberStep
<1>3. j < i => Number(t, j) < Number(t, i)
  BY <1>1, NumberStep
<1> QED BY <1>1, <1>2, <1>3

(* One more line leaves the numbers of the blocks there are, *)
(* and a new block takes the next one. *)
LEMMA NumberPrefix ==
  ASSUME NEW t \in Seq(Lines), NEW line \in Lines
  PROVE  /\ \A i \in 0..Len(t) : Number(Append(t, line), i) = Number(t, i)
         /\ line.op = "open" => Number(Append(t, line), Len(t) + 1) = Number(t, Len(t)) + 1
         /\ line.op # "open" => Number(Append(t, line), Len(t) + 1) = Number(t, Len(t))
<1> DEFINE u == Append(t, line)
<1>1. /\ Len(t) \in Nat /\ Opens(t) \subseteq 1..Len(t)
      /\ line.op = "open" => Opens(u) = Opens(t) \cup {Len(t) + 1}
      /\ line.op # "open" => Opens(u) = Opens(t)
  BY OpensStep
<1> HIDE DEF u
<1>2. ASSUME NEW i \in 0..Len(t) PROVE Number(u, i) = Number(t, i)
  <2>1. {j \in Opens(u) : j <= i} = {j \in Opens(t) : j <= i}
    BY <1>1
  <2> QED BY <2>1 DEF Number
<1>3. IsFiniteSet(Opens(t))
  <2>1. IsFiniteSet(1..Len(t))
    BY <1>1, FS_Interval
  <2> QED BY <1>1, <2>1, FS_Subset
<1>4. Number(t, Len(t)) = Cardinality(Opens(t))
  <2>1. {j \in Opens(t) : j <= Len(t)} = Opens(t)
    BY <1>1
  <2> QED BY <2>1 DEF Number
<1>5. Number(u, Len(t) + 1) = Cardinality(Opens(u))
  <2>1. {j \in Opens(u) : j <= Len(t) + 1} = Opens(u)
    BY <1>1
  <2> QED BY <2>1 DEF Number
<1>6. line.op = "open" => Cardinality(Opens(u)) = Cardinality(Opens(t)) + 1
  <2>1. Len(t) + 1 \notin Opens(t)
    BY <1>1
  <2> QED BY <1>1, <1>3, <2>1, FS_AddElement
<1> QED BY <1>1, <1>2, <1>4, <1>5, <1>6 DEF u

-----------------------------------------------------------------------------
(* The blocks in a block: a new one joins those of the block it is in. *)
LEMMA InsideStep ==
  ASSUME NEW t \in Seq(Lines), NEW line \in Lines, NEW i \in 0..Len(t)
  PROVE  /\ Inside(t, i) \subseteq (i + 1)..Len(t) /\ Inside(t, i) \subseteq Opens(t)
         /\ line.op = "open" /\ Enclosing(t, Len(t) + 1) = i
              => Inside(Append(t, line), i) = Inside(t, i) \cup {Len(t) + 1}
         /\ ~(line.op = "open" /\ Enclosing(t, Len(t) + 1) = i)
              => Inside(Append(t, line), i) = Inside(t, i)
<1> DEFINE u == Append(t, line)
           n == Len(t)
<1>1. /\ n \in Nat /\ Opens(t) \subseteq 1..n
      /\ line.op = "open" => Opens(u) = Opens(t) \cup {n + 1}
      /\ line.op # "open" => Opens(u) = Opens(t)
  BY OpensStep
<1>2. \A j \in 1..(n + 1) : Enclosing(u, j) = Enclosing(t, j)
  BY EnclosingPrefix
<1>3. \A j \in 1..(n + 1) : Enclosing(t, j) \in 0..(j - 1)
  BY EnclosingBefore
<1> HIDE DEF u, n
<1>4. Inside(t, i) \subseteq (i + 1)..n /\ Inside(t, i) \subseteq Opens(t)
  <2>1. ASSUME NEW j \in Inside(t, i) PROVE j \in (i + 1)..n /\ j \in Opens(t)
    <3>1. j \in Opens(t) /\ Enclosing(t, j) = i
      BY DEF Inside
    <3>2. j \in 1..(n + 1) /\ j \in 1..n
      BY <1>1, <3>1
    <3>3. i \in 0..(j - 1)
      BY <1>3, <3>1, <3>2
    <3> QED BY <1>1, <3>1, <3>2, <3>3
  <2> QED BY <2>1
<1>5. \A j \in Opens(t) : j \in 1..(n + 1)
  BY <1>1
<1>6. n + 1 \in 1..(n + 1)
  BY <1>1
<1>7. ASSUME line.op = "open", Enclosing(t, n + 1) = i
      PROVE  Inside(u, i) = Inside(t, i) \cup {n + 1}
  BY <1>1, <1>2, <1>5, <1>6, <1>7 DEF Inside
<1>8. ASSUME ~(line.op = "open" /\ Enclosing(t, n + 1) = i)
      PROVE  Inside(u, i) = Inside(t, i)
  BY <1>1, <1>2, <1>5, <1>6, <1>8 DEF Inside
<1> QED BY <1>4, <1>7, <1>8 DEF u, n

(* A new line is in no block it opens itself. *)
LEMMA InsideNew ==
  ASSUME NEW t \in Seq(Lines)
  PROVE  Inside(t, Len(t)) = {} /\ Settings(t, Len(t)) = {}
<1> DEFINE n == Len(t)
<1>1. n \in Nat /\ Opens(t) \subseteq 1..n
  BY DEF Opens
<1>2. \A j \in 1..(n + 1) : Enclosing(t, j) \in 0..(j - 1)
  BY EnclosingBefore
<1> HIDE DEF n
<1>3. \A j \in 1..n : Enclosing(t, j) # n
  <2>1. ASSUME NEW j \in 1..n PROVE Enclosing(t, j) # n
    <3>1. j \in 1..(n + 1)
      BY <1>1
    <3>2. Enclosing(t, j) \in 0..(j - 1)
      BY <1>2, <3>1
    <3> QED BY <1>1, <3>2
  <2> QED BY <2>1
<1>4. Inside(t, n) = {}
  BY <1>1, <1>3 DEF Inside
<1>5. Settings(t, n) = {}
  BY <1>3 DEF Settings, n
<1> QED BY <1>4, <1>5 DEF n

(* The directives of a block, likewise. *)
LEMMA SettingsStep ==
  ASSUME NEW t \in Seq(Lines), NEW line \in Lines, NEW i \in 0..Len(t)
  PROVE  /\ IsFiniteSet(Settings(t, i)) /\ Cardinality(Settings(t, i)) \in 0..(Len(t) - i)
         /\ line.op = "set" /\ Enclosing(t, Len(t) + 1) = i
              => Cardinality(Settings(Append(t, line), i)) = Cardinality(Settings(t, i)) + 1
         /\ ~(line.op = "set" /\ Enclosing(t, Len(t) + 1) = i)
              => Settings(Append(t, line), i) = Settings(t, i)
<1> DEFINE u == Append(t, line)
           n == Len(t)
<1>1. /\ n \in Nat /\ Len(u) = n + 1 /\ u[n + 1] = line
      /\ \A j \in 1..n : u[j] = t[j]
  OBVIOUS
<1>2. \A j \in 1..(n + 1) : Enclosing(u, j) = Enclosing(t, j)
  BY EnclosingPrefix
<1>3. \A j \in 1..(n + 1) : Enclosing(t, j) \in 0..(j - 1)
  BY EnclosingBefore
<1> HIDE DEF u
<1>4. Settings(t, i) \subseteq (i + 1)..n
  <2>1. ASSUME NEW j \in Settings(t, i) PROVE j \in (i + 1)..n
    <3>1. j \in 1..n /\ Enclosing(t, j) = i /\ j \in 1..(n + 1)
      BY <1>1 DEF Settings
    <3>2. i \in 0..(j - 1)
      BY <1>3, <3>1
    <3> QED BY <1>1, <3>1, <3>2
  <2> QED BY <2>1
<1>5. IsFiniteSet(Settings(t, i)) /\ Cardinality(Settings(t, i)) \in 0..(n - i)
  <2>1. IsFiniteSet((i + 1)..n) /\ Cardinality((i + 1)..n) = n - i
    <3>1. PICK a \in Int : a = i + 1
      BY <1>1
    <3>2. n \in Int /\ i \in Int /\ i <= n
      BY <1>1
    <3> HIDE DEF n
    <3>3. IsFiniteSet(a..n) /\ Cardinality(a..n) = IF a > n THEN 0 ELSE n - a + 1
      BY <3>2, FS_Interval
    <3> QED BY <3>1, <3>2, <3>3
  <2>2. IsFiniteSet(Settings(t, i)) /\ Cardinality(Settings(t, i)) <= n - i
    BY <1>4, <2>1, FS_Subset
  <2>3. Cardinality(Settings(t, i)) \in Nat
    BY <2>2, FS_CardinalityType
  <2> QED BY <1>1, <2>2, <2>3
<1>6. n + 1 \in 1..(n + 1) /\ n + 1 \notin Settings(t, i) /\ \A j \in 1..n : j \in 1..(n + 1)
  BY <1>1, <1>4
<1>7. ASSUME line.op = "set", Enclosing(t, n + 1) = i
      PROVE  Cardinality(Settings(u, i)) = Cardinality(Settings(t, i)) + 1
  <2>1. Settings(u, i) = Settings(t, i) \cup {n + 1}
    BY <1>1, <1>2, <1>6, <1>7 DEF Settings
  <2> QED BY <1>5, <1>6, <2>1, FS_AddElement
<1>8. ASSUME ~(line.op = "set" /\ Enclosing(t, n + 1) = i)
      PROVE  Settings(u, i) = Settings(t, i)
  BY <1>1, <1>2, <1>6, <1>8 DEF Settings
<1> QED BY <1>5, <1>7, <1>8 DEF u

(* The first of some blocks is the one that is opened first. *)
LEMMA FirstOfIs ==
  ASSUME NEW t, NEW lines \in SUBSET Nat, NEW j \in lines, \A k \in lines : j <= k
  PROVE  FirstOf(t, lines) = Number(t, j)
<1> DEFINE c == CHOOSE a \in lines : \A k \in lines : a <= k
<1>1. c \in lines /\ \A k \in lines : c <= k
  OBVIOUS
<1>2. c = j
  <2>1. c <= j /\ j <= c /\ c \in Nat /\ j \in Nat
    BY <1>1
  <2> HIDE DEF c
  <2> QED BY <2>1
<1>3. FirstOf(t, lines) = Number(t, c)
  BY DEF FirstOf
<1> QED BY <1>2, <1>3

(* A block behind the others is not the first of them. *)
LEMMA FirstOfKept ==
  ASSUME NEW t \in Seq(Lines), NEW line \in Lines, NEW lines \in SUBSET (1..Len(t)), NEW more,
         more = lines \/ (lines # {} /\ more = lines \cup {Len(t) + 1})
  PROVE  FirstOf(Append(t, line), more) = FirstOf(t, lines)
<1> DEFINE u == Append(t, line)
           n == Len(t)
<1>1. n \in Nat /\ \A i \in 0..n : Number(u, i) = Number(t, i)
  BY NumberPrefix
<1> HIDE DEF u, n
<1>2. CASE lines = {}
  <2>1. more = {}
    BY <1>2
  <2>2. FirstOf(u, more) = NoBlock /\ FirstOf(t, lines) = NoBlock
    BY <1>2, <2>1 DEF FirstOf
  <2> QED BY <2>2 DEF u
<1>3. CASE lines # {}
  <2>1. lines \in SUBSET Nat
    BY <1>1 DEF n
  <2>2. PICK j \in lines : \A k \in lines : j <= k
    BY <1>3, <2>1, NatMin
  <2>3. j \in 1..n
    BY <2>2 DEF n
  <2>4. more \in SUBSET Nat /\ j \in more /\ \A k \in more : j <= k
    <3>1. more = lines \/ more = lines \cup {n + 1}
      BY DEF n
    <3>2. j <= n + 1 /\ n + 1 \in Nat
      BY <1>1, <2>3
    <3> QED BY <2>1, <2>2, <3>1, <3>2
  <2>5. FirstOf(u, more) = Number(u, j)
    BY <2>4, FirstOfIs
  <2>6. FirstOf(t, lines) = Number(t, j)
    BY <2>1, <2>2, FirstOfIs
  <2>7. j \in 0..n
    BY <1>1, <2>3
  <2> QED BY <1>1, <2>5, <2>6, <2>7 DEF u
<1> QED BY <1>2, <1>3

(* A block alone is the first. *)
LEMMA FirstOfOne ==
  ASSUME NEW t, NEW j \in Nat
  PROVE  FirstOf(t, {j}) = Number(t, j)
<1>1. {j} \in SUBSET Nat /\ j \in {j} /\ \A k \in {j} : j <= k
  OBVIOUS
<1> QED BY <1>1, FirstOfIs

-----------------------------------------------------------------------------
(* The parts of the block that line i opens. *)
Later(t, i) == {j \in Inside(t, Enclosing(t, i)) : j > i}
NamesOf(t, i) == [k \in 1..Cardinality(Settings(t, i)) |-> t[i + k].name]

(* The new line opens a block in the block that line i opens. *)
OpensIn(t, line, i) == line.op = "open" /\ Enclosing(t, Len(t) + 1) = i

(* The new line is a directive of the block that line i opens. *)
SetsIn(t, line, i) == line.op = "set" /\ Enclosing(t, Len(t) + 1) = i

(* A block and its parts. *)
LEMMA MeantParts ==
  ASSUME NEW t, NEW i
  PROVE  MeantBlock(t, i) = [kind |-> t[i].name, child |-> FirstOf(t, Inside(t, i)),
                             sibling |-> FirstOf(t, Later(t, i)), set |-> NamesOf(t, i)]
  BY DEF MeantBlock, Later, NamesOf

(* The first block in a block stays the first. *)
LEMMA ChildStep ==
  ASSUME NEW t \in Seq(Lines), NEW line \in Lines, NEW i \in 0..Len(t)
  PROVE  /\ Inside(t, i) # {} \/ ~OpensIn(t, line, i)
              => FirstOf(Append(t, line), Inside(Append(t, line), i)) = FirstOf(t, Inside(t, i))
         /\ Inside(t, i) = {} /\ OpensIn(t, line, i)
              => FirstOf(Append(t, line), Inside(Append(t, line), i))
                   = Number(Append(t, line), Len(t) + 1)
<1> DEFINE u == Append(t, line)
           n == Len(t)
<1>1. /\ Inside(t, i) \subseteq (i + 1)..n
      /\ OpensIn(t, line, i) => Inside(u, i) = Inside(t, i) \cup {n + 1}
      /\ ~OpensIn(t, line, i) => Inside(u, i) = Inside(t, i)
  BY InsideStep DEF OpensIn
<1>2. n \in Nat /\ i \in 0..n
  OBVIOUS
<1>3. Inside(t, i) \in SUBSET (1..n)
  <2> HIDE DEF n
  <2> QED BY <1>1, <1>2
<1>4. ASSUME Inside(t, i) # {} \/ ~OpensIn(t, line, i)
      PROVE  FirstOf(u, Inside(u, i)) = FirstOf(t, Inside(t, i))
  <2>1. \/ Inside(u, i) = Inside(t, i)
        \/ Inside(t, i) # {} /\ Inside(u, i) = Inside(t, i) \cup {n + 1}
    BY <1>1, <1>4
  <2> QED BY <1>3, <2>1, FirstOfKept
<1>5. ASSUME Inside(t, i) = {}, OpensIn(t, line, i)
      PROVE  FirstOf(u, Inside(u, i)) = Number(u, n + 1)
  <2>1. Inside(u, i) = {n + 1} /\ n + 1 \in Nat
    BY <1>1, <1>2, <1>5
  <2> QED BY <2>1, FirstOfOne
<1> QED BY <1>4, <1>5

(* The next block in the same block stays the next. *)
LEMMA SiblingStep ==
  ASSUME NEW t \in Seq(Lines), NEW line \in Lines, NEW i \in Opens(t)
  PROVE  /\ Later(t, i) # {} \/ ~OpensIn(t, line, Enclosing(t, i))
              => FirstOf(Append(t, line), Later(Append(t, line), i)) = FirstOf(t, Later(t, i))
         /\ Later(t, i) = {} /\ OpensIn(t, line, Enclosing(t, i))
              => FirstOf(Append(t, line), Later(Append(t, line), i))
                   = Number(Append(t, line), Len(t) + 1)
<1> DEFINE u == Append(t, line)
           n == Len(t)
<1>1. i \in 1..n /\ n \in Nat /\ i \in 1..(n + 1)
  BY DEF Opens
<1>2. PICK e : e = Enclosing(t, i)
  OBVIOUS
<1>3. e \in 0..n /\ Enclosing(u, i) = e
  <2>1. e \in 0..(i - 1)
    BY <1>1, <1>2, EnclosingBefore
  <2>2. Enclosing(u, i) = e
    BY <1>1, <1>2, EnclosingPrefix
  <2> HIDE DEF u, n
  <2> QED BY <1>1, <2>1, <2>2
<1>4. /\ Inside(t, e) \subseteq (e + 1)..n
      /\ OpensIn(t, line, e) => Inside(u, e) = Inside(t, e) \cup {n + 1}
      /\ ~OpensIn(t, line, e) => Inside(u, e) = Inside(t, e)
  BY <1>3, InsideStep DEF OpensIn
<1>5. Later(t, i) = {j \in Inside(t, e) : j > i} /\ Later(u, i) = {j \in Inside(u, e) : j > i}
  BY <1>2, <1>3 DEF Later
<1>6. /\ Later(t, i) \in SUBSET (1..n)
      /\ OpensIn(t, line, e) => Later(u, i) = Later(t, i) \cup {n + 1}
      /\ ~OpensIn(t, line, e) => Later(u, i) = Later(t, i)
  <2> HIDE DEF u, n
  <2> QED BY <1>1, <1>3, <1>4, <1>5
<1>7. ASSUME Later(t, i) # {} \/ ~OpensIn(t, line, e)
      PROVE  FirstOf(u, Later(u, i)) = FirstOf(t, Later(t, i))
  <2>1. \/ Later(u, i) = Later(t, i)
        \/ Later(t, i) # {} /\ Later(u, i) = Later(t, i) \cup {n + 1}
    BY <1>6, <1>7
  <2> QED BY <1>6, <2>1, FirstOfKept
<1>8. ASSUME Later(t, i) = {}, OpensIn(t, line, e)
      PROVE  FirstOf(u, Later(u, i)) = Number(u, n + 1)
  <2>1. Later(u, i) = {n + 1} /\ n + 1 \in Nat
    BY <1>1, <1>6, <1>8
  <2> QED BY <2>1, FirstOfOne
<1> QED BY <1>2, <1>7, <1>8

(* A directive joins those of its block, behind them. *)
LEMMA NamesStep ==
  ASSUME NEW t \in Seq(Lines), NEW line \in Lines, NEW i \in 1..Len(t)
  PROVE  /\ ~SetsIn(t, line, i) => NamesOf(Append(t, line), i) = NamesOf(t, i)
         /\ SetsIn(t, line, i) /\ Len(t) = i + Cardinality(Settings(t, i))
              => /\ NamesOf(Append(t, line), i) = Append(NamesOf(t, i), line.name)
                 /\ Len(t) + 1 = i + Cardinality(Settings(Append(t, line), i))
<1> DEFINE u == Append(t, line)
           n == Len(t)
<1>1. /\ n \in Nat /\ i \in 1..n /\ i \in 0..n /\ u[n + 1] = line
      /\ \A j \in 1..n : u[j] = t[j]
  OBVIOUS
<1>2. PICK c : c = Cardinality(Settings(t, i))
  OBVIOUS
<1>3. /\ c \in 0..(n - i)
      /\ SetsIn(t, line, i) => Cardinality(Settings(u, i)) = c + 1
      /\ ~SetsIn(t, line, i) => Cardinality(Settings(u, i)) = c
  BY <1>1, <1>2, SettingsStep DEF SetsIn
<1> HIDE DEF u, n
<1>4. \A k \in 1..c : u[i + k] = t[i + k]
  <2>1. \A k \in 1..c : i + k \in 1..n
    BY <1>1, <1>3
  <2> QED BY <1>1, <2>1
<1>5. NamesOf(t, i) = [k \in 1..c |-> t[i + k].name]
  BY <1>2 DEF NamesOf
<1>6. ASSUME ~SetsIn(t, line, i) PROVE NamesOf(u, i) = NamesOf(t, i)
  <2>1. NamesOf(u, i) = [k \in 1..c |-> u[i + k].name]
    BY <1>3, <1>6 DEF NamesOf
  <2> QED BY <1>4, <1>5, <2>1
<1>7. ASSUME SetsIn(t, line, i), n = i + c
      PROVE  /\ NamesOf(u, i) = Append(NamesOf(t, i), line.name)
             /\ n + 1 = i + Cardinality(Settings(u, i))
  <2>1. NamesOf(u, i) = [k \in 1..(c + 1) |-> u[i + k].name]
    BY <1>3, <1>7 DEF NamesOf
  <2>2. n + 1 = i + Cardinality(Settings(u, i))
    BY <1>1, <1>3, <1>7
  <2>3. PICK x : x = line.name
    OBVIOUS
  <2>4. c \in Nat /\ u[i + (c + 1)].name = x
    <3>1. c \in Nat /\ i + (c + 1) = n + 1
      BY <1>1, <1>3, <1>7
    <3> QED BY <1>1, <2>3, <3>1
  <2>5. Append(NamesOf(t, i), x) = [k \in 1..(c + 1) |-> IF k = c + 1 THEN x ELSE NamesOf(t, i)[k]]
    <3>1. PICK s : s = NamesOf(t, i)
      OBVIOUS
    <3>2. PICK S : S = {s[k] : k \in 1..c} \cup {x}
      OBVIOUS
    <3>3. s \in Seq(S) /\ Len(s) = c /\ x \in S
      <4>1. s = [k \in 1..c |-> s[k]]
        BY <1>5, <3>1
      <4>2. s \in [1..c -> S]
        BY <3>2, <4>1
      <4> QED BY <2>4, <3>2, <4>2
    <3>4. Append(s, x) = [k \in 1..(c + 1) |-> IF k = c + 1 THEN x ELSE s[k]]
      <4>1. PICK a : a = Append(s, x)
        OBVIOUS
      <4>2. a \in Seq(S) /\ Len(a) = c + 1 /\ a[c + 1] = x /\ \A k \in 1..c : a[k] = s[k]
        BY <3>3, <4>1, AppendProperties
      <4>3. a = [k \in 1..(c + 1) |-> a[k]]
        BY <2>4, <4>2
      <4>4. \A k \in 1..(c + 1) : a[k] = IF k = c + 1 THEN x ELSE s[k]
        BY <2>4, <4>2
      <4> QED BY <4>1, <4>3, <4>4
    <3> QED BY <3>1, <3>4
  <2>6. \A k \in 1..(c + 1) : u[i + k].name = IF k = c + 1 THEN x ELSE NamesOf(t, i)[k]
    <3>1. \A k \in 1..c : u[i + k].name = NamesOf(t, i)[k]
      BY <1>4, <1>5
    <3>2. \A k \in 1..(c + 1) : k # c + 1 => k \in 1..c
      BY <2>4
    <3> QED BY <2>4, <3>1, <3>2
  <2>7. NamesOf(u, i) = Append(NamesOf(t, i), x)
    BY <2>1, <2>5, <2>6
  <2> QED BY <2>2, <2>3, <2>7
<1> QED BY <1>2, <1>6, <1>7 DEF u, n

-----------------------------------------------------------------------------
(* An orderly file is orderly up to every line, *)
(* and what its last line may then be. *)
LEMMA OrderlyStep ==
  ASSUME NEW t \in Seq(Lines), NEW line \in Lines, Orderly(Append(t, line))
  PROVE  /\ Orderly(t)
         /\ line.op \notin {"bad", "other"} /\ Depth(Append(t, line), Len(t) + 1) >= 0
         /\ line.op = "open" => line.name \in BlockNames
         /\ line.op = "set" =>
              /\ Enclosing(t, Len(t) + 1) # 0
              /\ line.name \in Commands[t[Enclosing(t, Len(t) + 1)].name]
              /\ Inside(t, Enclosing(t, Len(t) + 1)) = {}
<1> DEFINE u == Append(t, line)
           n == Len(t)
<1>1. /\ n \in Nat /\ Len(u) = n + 1 /\ u[n + 1] = line
      /\ \A i \in 1..n : u[i] = t[i]
  OBVIOUS
<1>2. /\ Opens(t) \subseteq 1..n /\ Opens(t) \subseteq Opens(u)
      /\ line.op = "open" => n + 1 \in Opens(u)
  BY OpensStep
<1>3. /\ \A i \in 0..n : Depth(u, i) = Depth(t, i)
      /\ \A i \in 1..(n + 1) : Enclosing(u, i) = Enclosing(t, i)
  BY DepthPrefix, EnclosingPrefix
<1>4. \A i \in 1..(n + 1) :
        /\ Enclosing(t, i) \in 0..(i - 1)
        /\ Inside(t, Enclosing(t, i)) \subseteq Inside(u, Enclosing(t, i))
        /\ Inside(t, Enclosing(t, i)) \subseteq 1..n
  <2>1. ASSUME NEW i \in 1..(n + 1), NEW e, e = Enclosing(t, i)
        PROVE  e \in 0..(i - 1) /\ Inside(t, e) \subseteq Inside(u, e) /\ Inside(t, e) \subseteq 1..n
    <3>1. e \in 0..(i - 1)
      BY <2>1, EnclosingBefore
    <3>2. e \in 0..n
      BY <1>1, <2>1, <3>1
    <3>3. Inside(t, e) \subseteq Inside(u, e) /\ Inside(t, e) \subseteq (e + 1)..n
      BY <3>2, InsideStep
    <3> QED BY <1>1, <3>1, <3>2, <3>3
  <2> QED BY <2>1
<1>5. /\ \A i \in 1..(n + 1) : u[i].op \notin {"bad", "other"} /\ Depth(u, i) >= 0
      /\ \A i \in Opens(u) : u[i].name \in BlockNames
      /\ \A i \in 1..(n + 1) : u[i].op = "set" =>
           /\ Enclosing(u, i) # 0 /\ u[i].name \in Commands[u[Enclosing(u, i)].name]
           /\ \A j \in Inside(u, Enclosing(u, i)) : j > i
  BY <1>1 DEF Orderly
<1> HIDE DEF u, n
<1>6. \A i \in 1..n : i \in 1..(n + 1) /\ i \in 0..n
  BY <1>1
<1>7. n + 1 \in 1..(n + 1)
  BY <1>1
<1>8. ASSUME NEW i \in 1..(n + 1), u[i].op = "set"
      PROVE  /\ Enclosing(t, i) # 0 /\ u[i].name \in Commands[t[Enclosing(t, i)].name]
             /\ \A j \in Inside(t, Enclosing(t, i)) : j > i
  <2>1. PICK e : e = Enclosing(t, i)
    OBVIOUS
  <2>2. /\ e # 0 /\ u[i].name \in Commands[u[e].name]
        /\ \A j \in Inside(u, e) : j > i
    BY <1>3, <1>5, <1>8, <2>1
  <2>3. e \in 0..(i - 1) /\ Inside(t, e) \subseteq Inside(u, e)
    BY <1>4, <2>1
  <2>4. e \in 1..n
    BY <1>1, <2>2, <2>3
  <2> QED BY <1>1, <2>1, <2>2, <2>3, <2>4
<1>9. Orderly(t)
  <2>1. \A i \in 1..n : t[i].op \notin {"bad", "other"} /\ Depth(t, i) >= 0
    BY <1>1, <1>3, <1>5, <1>6
  <2>2. \A i \in Opens(t) : t[i].name \in BlockNames
    BY <1>1, <1>2, <1>5
  <2>3. \A i \in 1..n : t[i].op = "set" =>
          /\ Enclosing(t, i) # 0 /\ t[i].name \in Commands[t[Enclosing(t, i)].name]
          /\ \A j \in Inside(t, Enclosing(t, i)) : j > i
    BY <1>1, <1>6, <1>8
  <2> QED BY <2>1, <2>2, <2>3 DEF Orderly, n
<1>10. line.op \notin {"bad", "other"} /\ Depth(u, n + 1) >= 0
  BY <1>1, <1>5, <1>7
<1>11. line.op = "open" => line.name \in BlockNames
  BY <1>1, <1>2, <1>5
<1>12. ASSUME line.op = "set"
       PROVE  /\ Enclosing(t, n + 1) # 0 /\ line.name \in Commands[t[Enclosing(t, n + 1)].name]
              /\ Inside(t, Enclosing(t, n + 1)) = {}
  <2>1. u[n + 1].op = "set"
    BY <1>1, <1>12
  <2>2. /\ Enclosing(t, n + 1) # 0 /\ u[n + 1].name \in Commands[t[Enclosing(t, n + 1)].name]
        /\ \A j \in Inside(t, Enclosing(t, n + 1)) : j > n + 1
    BY <1>7, <1>8, <2>1
  <2>3. Inside(t, Enclosing(t, n + 1)) \subseteq 1..n
    BY <1>4, <1>7
  <2> QED BY <1>1, <2>2, <2>3
<1> QED BY <1>9, <1>10, <1>11, <1>12 DEF u, n

(* In an orderly file no end is without its opening. *)
LEMMA OrderlyDepth ==
  ASSUME NEW t \in Seq(Lines), Orderly(t)
  PROVE  /\ \A i \in 0..Len(t) : Depth(t, i) \in Nat
         /\ \A i \in Opens(t) : Depth(t, i) > 0
<1>1. ASSUME NEW i \in 0..Len(t) PROVE Depth(t, i) \in Nat
  <2>1. Depth(t, i) \in Int
    BY DepthType
  <2>2. CASE i = 0
    BY <2>2, DepthZero
  <2>3. CASE i # 0
    <3>1. i \in 1..Len(t)
      BY <2>3
    <3>2. Depth(t, i) >= 0
      BY <3>1 DEF Orderly
    <3> QED BY <2>1, <3>2
  <2> QED BY <2>2, <2>3
<1>2. ASSUME NEW i \in Opens(t) PROVE Depth(t, i) > 0
  <2>1. i \in 1..Len(t) /\ t[i].op = "open" /\ i \in Nat /\ i > 0
    BY DEF Opens
  <2>2. Depth(t, i) = Depth(t, i - 1) + 1
    BY <2>1, DepthStep
  <2>3. i - 1 \in 0..Len(t)
    BY <2>1
  <2>4. Depth(t, i - 1) \in Nat
    BY <1>1, <2>3
  <2> QED BY <2>2, <2>4
<1> QED BY <1>1, <1>2

(* Where the nesting is not 0 a line is in a block. *)
LEMMA DeepEnclosed ==
  ASSUME NEW t \in Seq(Lines), Orderly(t), NEW i \in 1..(Len(t) + 1), Depth(t, i - 1) > 0
  PROVE  \E j \in Opens(t) : Encloses(t, j, i)
<1> DEFINE n == Len(t)
<1>1. n \in Nat /\ i \in Nat /\ i - 1 \in 0..n /\ i - 1 \in Nat
  OBVIOUS
<1>2. PICK e : e = Depth(t, i - 1)
  OBVIOUS
<1>3. \A k \in 0..n : Depth(t, k) \in Nat
  BY OrderlyDepth
<1>4. e \in Nat /\ e > 0
  BY <1>1, <1>2, <1>3
<1> DEFINE A == {k \in Nat : k <= i - 1 /\ Depth(t, (i - 1) - k) < e}
<1>5. i - 1 \in A
  <2>1. (i - 1) - (i - 1) = 0
    BY <1>1
  <2>2. Depth(t, (i - 1) - (i - 1)) = 0
    BY <2>1, DepthZero
  <2> QED BY <1>1, <1>4, <2>2
<1>6. PICK a \in A : \A b \in A : a <= b
  BY <1>5, NatMin
<1>7. PICK m \in Nat : m = (i - 1) - a
  BY <1>1
<1>8. m <= i - 1 /\ m \in 0..n /\ Depth(t, m) < e
  BY <1>1, <1>6, <1>7
<1>9. ASSUME NEW k \in (m + 1)..(i - 1) PROVE Depth(t, k) >= e
  <2> SUFFICES ASSUME Depth(t, k) < e PROVE FALSE
    <3>1. k \in 0..n
      BY <1>1
    <3> QED BY <1>3, <1>4, <3>1
  <2>1. (i - 1) - ((i - 1) - k) = k /\ (i - 1) - k \in Nat /\ (i - 1) - k <= i - 1
    BY <1>1
  <2>2. (i - 1) - k \in A
    BY <2>1
  <2>3. a <= (i - 1) - k
    BY <1>6, <2>2
  <2> QED BY <1>1, <1>6, <1>7, <2>3
<1>10. m # i - 1
  BY <1>2, <1>4, <1>8
<1>11. PICK j \in Nat : j = m + 1
  OBVIOUS
<1>12. j > 0 /\ j - 1 = m /\ j \in (m + 1)..(i - 1) /\ j \in 1..n /\ j \in 0..n /\ j < i
  BY <1>1, <1>8, <1>10, <1>11
<1>13. Depth(t, j) >= e /\ Depth(t, j - 1) < e /\ Depth(t, j) \in Nat /\ Depth(t, j - 1) \in Nat
  BY <1>3, <1>8, <1>9, <1>12
<1>14. t[j].op = "open" /\ Depth(t, j) = e
  <2>1. /\ t[j].op = "open" => Depth(t, j) = Depth(t, j - 1) + 1
        /\ t[j].op = "close" => Depth(t, j) = Depth(t, j - 1) - 1
        /\ t[j].op \notin {"open", "close"} => Depth(t, j) = Depth(t, j - 1)
    BY <1>12, DepthStep
  <2> QED BY <1>4, <1>13, <2>1
<1>15. \A k \in j..(i - 1) : Depth(t, k) >= Depth(t, j)
  BY <1>9, <1>11, <1>14
<1>16. j \in Opens(t) /\ Encloses(t, j, i)
  BY <1>2, <1>12, <1>14, <1>15 DEF Opens, Encloses
<1> QED BY <1>16

-----------------------------------------------------------------------------
(* The block that line j opens is still open, d deep. *)
Held(t, j, d) ==
  j \in Opens(t) /\ Depth(t, j) = d /\ \A k \in j..Len(t) : Depth(t, k) >= d

(* sk has the openings of the blocks that are open, from the outside in, *)
(* behind 0 for the file. *)
IsStack(t, sk) ==
  /\ sk \in [0..Depth(t, Len(t)) -> 0..Len(t)] /\ sk[0] = 0
  /\ \A d \in 1..Depth(t, Len(t)) : Held(t, sk[d], d) /\ Enclosing(t, sk[d]) = sk[d - 1]

(* The innermost of them. *)
Top(t, sk) == sk[Depth(t, Len(t))]

(* The next line is in the innermost block. *)
LEMMA TopEncloses ==
  ASSUME NEW t \in Seq(Lines), Orderly(t), NEW sk, IsStack(t, sk)
  PROVE  /\ Enclosing(t, Len(t) + 1) = Top(t, sk) /\ Top(t, sk) \in 0..Len(t)
         /\ Depth(t, Len(t)) > 0 => Top(t, sk) \in Opens(t) /\ Top(t, sk) > 0
         /\ Depth(t, Len(t)) = 0 => Top(t, sk) = 0
<1> DEFINE n == Len(t)
<1>1. PICK D : D = Depth(t, n)
  OBVIOUS
<1>2. n \in Nat /\ D \in Nat /\ n \in 0..n /\ n + 1 \in 1..(n + 1)
  <2>1. n \in Nat /\ n \in 0..n /\ n + 1 \in 1..(n + 1)
    OBVIOUS
  <2> QED BY <1>1, <2>1, OrderlyDepth
<1>3. Top(t, sk) = sk[D] /\ sk[D] \in 0..n
  BY <1>1, <1>2 DEF Top, IsStack
<1>4. CASE D > 0
  <2>1. D \in 1..D
    BY <1>2, <1>4
  <2>2. Held(t, sk[D], D)
    BY <1>1, <2>1 DEF IsStack
  <2>3. sk[D] \in Opens(t) /\ Encloses(t, sk[D], n + 1)
    <3>1. n + 1 - 1 = n
      BY <1>2
    <3>2. sk[D] < n + 1
      BY <1>2, <1>3
    <3> QED BY <1>1, <2>2, <3>1, <3>2 DEF Held, Encloses
  <2>4. Enclosing(t, n + 1) = sk[D]
    BY <1>2, <2>3, EnclosingIs
  <2>5. sk[D] > 0
    BY <2>3 DEF Opens
  <2> QED BY <1>1, <1>3, <1>4, <2>3, <2>4, <2>5
<1>5. CASE D = 0
  <2>1. Top(t, sk) = 0
    BY <1>3, <1>5 DEF IsStack
  <2>2. Enclosing(t, n + 1) = 0
    <3> SUFFICES ASSUME Enclosing(t, n + 1) # 0 PROVE FALSE
      OBVIOUS
    <3>1. Enclosing(t, n + 1) \in Opens(t) /\ Encloses(t, Enclosing(t, n + 1), n + 1)
      BY <1>2, EnclosingBefore
    <3>2. Depth(t, Enclosing(t, n + 1)) > 0
      BY <3>1, OrderlyDepth
    <3>3. n + 1 - 1 = n
      BY <1>2
    <3>4. Depth(t, Enclosing(t, n + 1)) = D
      BY <1>1, <3>1, <3>3 DEF Encloses
    <3> QED BY <1>5, <3>2, <3>4
  <2> QED BY <1>1, <1>3, <1>5, <2>1, <2>2
<1> QED BY <1>2, <1>4, <1>5

(* A block that is as deep as the next line stays open. *)
LEMMA HeldStep ==
  ASSUME NEW t \in Seq(Lines), NEW line \in Lines, NEW j, NEW d \in Nat, Held(t, j, d),
         d <= Depth(Append(t, line), Len(t) + 1)
  PROVE  /\ Held(Append(t, line), j, d) /\ Enclosing(Append(t, line), j) = Enclosing(t, j)
         /\ j \in 1..Len(t)
<1> DEFINE u == Append(t, line)
           n == Len(t)
<1>1. n \in Nat /\ Len(u) = n + 1
  OBVIOUS
<1>2. j \in 1..n /\ j \in Opens(u)
  BY OpensStep DEF Held
<1>3. Enclosing(u, j) = Enclosing(t, j)
  <2>1. j \in 1..(n + 1)
    BY <1>1, <1>2
  <2> QED BY <2>1, EnclosingPrefix
<1>4. \A k \in 0..n : Depth(u, k) = Depth(t, k)
  BY DepthPrefix
<1>5. Depth(u, n + 1) \in Int
  BY <1>1, DepthType
<1> HIDE DEF u
<1>6. Depth(u, j) = d
  <2>1. j \in 0..n
    BY <1>1, <1>2
  <2> QED BY <1>4, <2>1 DEF Held
<1>7. ASSUME NEW k \in j..(n + 1) PROVE Depth(u, k) >= d
  <2>1. CASE k = n + 1
    BY <1>5, <2>1 DEF u
  <2>2. CASE k # n + 1
    <3>1. k \in 0..n /\ k \in j..n
      BY <1>1, <1>2, <2>2
    <3> QED BY <1>4, <3>1 DEF Held
  <2> QED BY <2>1, <2>2
<1>8. Held(u, j, d)
  BY <1>1, <1>2, <1>6, <1>7 DEF Held
<1> QED BY <1>2, <1>3, <1>8 DEF u

(* A directive leaves the open blocks. *)
LEMMA StackSet ==
  ASSUME NEW t \in Seq(Lines), NEW line \in Lines, line.op = "set", Orderly(t),
         NEW sk, IsStack(t, sk)
  PROVE  /\ IsStack(Append(t, line), sk)
         /\ Depth(Append(t, line), Len(t) + 1) = Depth(t, Len(t))
<1> DEFINE u == Append(t, line)
           n == Len(t)
<1>1. n \in Nat /\ Len(u) = n + 1 /\ u[n + 1] = line /\ n \in 0..n
  OBVIOUS
<1>2. PICK D : D = Depth(t, n)
  OBVIOUS
<1>3. D \in Nat
  BY <1>1, <1>2, OrderlyDepth
<1>4. Depth(u, n + 1) = D
  BY <1>2, DepthAppend
<1>5. sk \in [0..D -> 0..n] /\ sk[0] = 0
        /\ \A d \in 1..D : Held(t, sk[d], d) /\ Enclosing(t, sk[d]) = sk[d - 1]
  BY <1>2 DEF IsStack
<1>6. ASSUME NEW d \in 1..D
      PROVE  Held(u, sk[d], d) /\ Enclosing(u, sk[d]) = sk[d - 1]
  <2>1. d \in Nat /\ d <= Depth(u, n + 1)
    BY <1>3, <1>4
  <2> QED BY <1>5, <2>1, HeldStep
<1>7. sk \in [0..D -> 0..(n + 1)]
  <2>1. \A d \in 0..D : sk[d] \in 0..(n + 1)
    <3> HIDE DEF n
    <3> QED BY <1>1, <1>5
  <2> QED BY <1>5, <2>1
<1> HIDE DEF u
<1>8. IsStack(u, sk)
  BY <1>1, <1>4, <1>5, <1>6, <1>7 DEF IsStack
<1> QED BY <1>2, <1>4, <1>8 DEF u

(* The opening of a block makes it the innermost. *)
LEMMA StackOpen ==
  ASSUME NEW t \in Seq(Lines), NEW line \in Lines, line.op = "open", Orderly(t),
         NEW sk, IsStack(t, sk)
  PROVE  /\ IsStack(Append(t, line), [d \in 0..(Depth(t, Len(t)) + 1) |->
                       IF d = Depth(t, Len(t)) + 1 THEN Len(t) + 1 ELSE sk[d]])
         /\ Depth(Append(t, line), Len(t) + 1) = Depth(t, Len(t)) + 1
<1> DEFINE u == Append(t, line)
           n == Len(t)
<1>1. n \in Nat /\ Len(u) = n + 1 /\ u[n + 1] = line /\ n \in 0..n /\ u \in Seq(Lines)
  OBVIOUS
<1>2. PICK D : D = Depth(t, n)
  OBVIOUS
<1>3. D \in Nat
  BY <1>1, <1>2, OrderlyDepth
<1>4. Depth(u, n + 1) = D + 1
  BY <1>2, DepthAppend
<1>5. sk \in [0..D -> 0..n] /\ sk[0] = 0
        /\ \A d \in 1..D : Held(t, sk[d], d) /\ Enclosing(t, sk[d]) = sk[d - 1]
  BY <1>2 DEF IsStack
<1>6. PICK sl : sl = [d \in 0..(D + 1) |-> IF d = D + 1 THEN n + 1 ELSE sk[d]]
  OBVIOUS
<1>7. sl[D + 1] = n + 1 /\ \A d \in 0..D : sl[d] = sk[d]
  BY <1>3, <1>6
<1>8. ASSUME NEW d \in 1..D
      PROVE  Held(u, sl[d], d) /\ Enclosing(u, sl[d]) = sl[d - 1]
  <2>1. d \in Nat /\ d <= Depth(u, n + 1) /\ d \in 0..D /\ d - 1 \in 0..D
    BY <1>3, <1>4
  <2>2. Held(u, sk[d], d) /\ Enclosing(u, sk[d]) = sk[d - 1]
    BY <1>5, <2>1, HeldStep
  <2> QED BY <1>7, <2>1, <2>2
<1>9. Held(u, sl[D + 1], D + 1) /\ Enclosing(u, sl[D + 1]) = sl[D]
  <2>1. n + 1 \in Opens(u) /\ \A k \in (n + 1)..(n + 1) : k = n + 1
    BY <1>1, OpensStep
  <2>2. Held(u, n + 1, D + 1)
    <3>1. D + 1 >= D + 1
      BY <1>3
    <3> HIDE DEF u, n
    <3> QED BY <1>1, <1>4, <2>1, <3>1 DEF Held
  <2>3. Enclosing(t, n + 1) = sk[D]
    BY <1>2, TopEncloses DEF Top
  <2>4. Enclosing(u, n + 1) = sk[D]
    BY <1>1, <2>3, EnclosingPrefix
  <2>5. D \in 0..D
    BY <1>3
  <2> QED BY <1>7, <2>2, <2>4, <2>5
<1>10. sl \in [0..(D + 1) -> 0..(n + 1)] /\ sl[0] = 0
  <2>1. \A d \in 0..(D + 1) : (IF d = D + 1 THEN n + 1 ELSE sk[d]) \in 0..(n + 1)
    <3> HIDE DEF n
    <3> QED BY <1>1, <1>3, <1>5
  <2>2. 0 \in 0..D
    BY <1>3
  <2> QED BY <1>5, <1>6, <1>7, <2>1, <2>2
<1>11. \A d \in 1..(D + 1) : d = D + 1 \/ d \in 1..D
  BY <1>3
<1>12. D + 1 - 1 = D
  BY <1>3
<1> HIDE DEF u, n
<1>13. ASSUME NEW d \in 1..(D + 1)
       PROVE  Held(u, sl[d], d) /\ Enclosing(u, sl[d]) = sl[d - 1]
  <2>1. CASE d = D + 1
    <3>1. d - 1 = D
      BY <1>3, <2>1
    <3>2. sl[d] = sl[D + 1] /\ sl[d - 1] = sl[D]
      BY <2>1, <3>1, Zenon
    <3> QED BY <1>9, <2>1, <3>2, Zenon
  <2>2. CASE d \in 1..D
    BY <1>8, <2>2
  <2> QED BY <1>11, <2>1, <2>2
<1>14. IsStack(u, sl)
  BY <1>1, <1>4, <1>10, <1>13 DEF IsStack
<1> QED BY <1>2, <1>4, <1>6, <1>14 DEF u, n

(* The end of a block makes the block around it the innermost. *)
LEMMA StackClose ==
  ASSUME NEW t \in Seq(Lines), NEW line \in Lines, line.op = "close", Orderly(t),
         Depth(Append(t, line), Len(t) + 1) >= 0, NEW sk, IsStack(t, sk)
  PROVE  /\ IsStack(Append(t, line), [d \in 0..(Depth(t, Len(t)) - 1) |-> sk[d]])
         /\ Depth(Append(t, line), Len(t) + 1) = Depth(t, Len(t)) - 1
         /\ Depth(t, Len(t)) > 0
<1> DEFINE u == Append(t, line)
           n == Len(t)
<1>1. n \in Nat /\ Len(u) = n + 1 /\ u[n + 1] = line /\ n \in 0..n
  OBVIOUS
<1>2. PICK D : D = Depth(t, n)
  OBVIOUS
<1>3. D \in Nat
  BY <1>1, <1>2, OrderlyDepth
<1>4. Depth(u, n + 1) = D - 1 /\ D > 0
  <2>1. Depth(u, n + 1) = D - 1
    BY <1>2, DepthAppend
  <2> QED BY <1>3, <2>1
<1>5. sk \in [0..D -> 0..n] /\ sk[0] = 0
        /\ \A d \in 1..D : Held(t, sk[d], d) /\ Enclosing(t, sk[d]) = sk[d - 1]
  BY <1>2 DEF IsStack
<1>6. PICK sl : sl = [d \in 0..(D - 1) |-> sk[d]]
  OBVIOUS
<1>7. \A d \in 0..(D - 1) : sl[d] = sk[d]
  BY <1>6
<1>8. ASSUME NEW d \in 1..(D - 1)
      PROVE  Held(u, sl[d], d) /\ Enclosing(u, sl[d]) = sl[d - 1]
  <2>1. d \in Nat /\ d <= Depth(u, n + 1) /\ d \in 0..(D - 1) /\ d - 1 \in 0..(D - 1) /\ d \in 1..D
    BY <1>3, <1>4
  <2>2. Held(u, sk[d], d) /\ Enclosing(u, sk[d]) = sk[d - 1]
    BY <1>5, <2>1, HeldStep
  <2> QED BY <1>7, <2>1, <2>2
<1>9. sl \in [0..(D - 1) -> 0..(n + 1)] /\ sl[0] = 0
  <2>1. \A d \in 0..(D - 1) : sk[d] \in 0..(n + 1)
    <3> HIDE DEF n
    <3> QED BY <1>1, <1>3, <1>5
  <2>2. 0 \in 0..(D - 1)
    BY <1>3, <1>4
  <2> QED BY <1>5, <1>6, <1>7, <2>1, <2>2
<1> HIDE DEF u
<1>10. IsStack(u, sl)
  BY <1>1, <1>4, <1>8, <1>9 DEF IsStack
<1> QED BY <1>2, <1>4, <1>6, <1>10 DEF u

-----------------------------------------------------------------------------
(* What a block and an active call are. *)
BlockType ==
  [kind : BlockNames \cup {Unnamed}, child : Nat, sibling : Nat, set : Seq(Directives)]

CallType ==
  [b : Nat, runtime : BlockNames \cup {Unnamed}, layers : Nat, ret : {"ok", "error"}]

(* The blocks T are those that file t writes down, as far as it goes. *)
TreeIs(T, t) ==
  /\ Len(T) = Number(t, Len(t)) + 1
  /\ \A i \in Opens(t) : T[Number(t, i) + 1] = MeantBlock(t, i)
  /\ T[1].child = FirstOf(t, Inside(t, 0))

(* What an assignment to one element of a sequence changes. *)
LEMMA SeqReplace ==
  ASSUME NEW S, NEW T \in Seq(S), NEW m \in 1..Len(T), NEW r \in S
  PROVE  /\ [T EXCEPT ![m] = r] \in Seq(S) /\ Len([T EXCEPT ![m] = r]) = Len(T)
         /\ \A j \in 1..Len(T) : j # m => [T EXCEPT ![m] = r][j] = T[j]
         /\ [T EXCEPT ![m] = r][m] = r
  OBVIOUS

(* The three assignments to a field of a block. *)
LinkChild(T, m, v) == [T EXCEPT ![m].child = v]
LinkSibling(T, m, v) == [T EXCEPT ![m].sibling = v]
AddName(T, m, x) == [T EXCEPT ![m].set = Append(@, x)]

(* What an assignment to one field of a block changes. *)
LEMMA BlockUpdate ==
  ASSUME NEW T \in Seq(BlockType), NEW m \in 1..Len(T), NEW L
  PROVE  /\ \A v \in Nat : L = LinkChild(T, m, v) =>
              /\ L \in Seq(BlockType) /\ Len(L) = Len(T)
              /\ \A j \in 1..Len(T) : j # m => L[j] = T[j]
              /\ L[m] = [kind |-> T[m].kind, child |-> v, sibling |-> T[m].sibling, set |-> T[m].set]
         /\ \A v \in Nat : L = LinkSibling(T, m, v) =>
              /\ L \in Seq(BlockType) /\ Len(L) = Len(T)
              /\ \A j \in 1..Len(T) : j # m => L[j] = T[j]
              /\ L[m] = [kind |-> T[m].kind, child |-> T[m].child, sibling |-> v, set |-> T[m].set]
         /\ \A x \in Directives : L = AddName(T, m, x) =>
              /\ L \in Seq(BlockType) /\ Len(L) = Len(T)
              /\ \A j \in 1..Len(T) : j # m => L[j] = T[j]
              /\ L[m] = [kind |-> T[m].kind, child |-> T[m].child, sibling |-> T[m].sibling,
                         set |-> Append(T[m].set, x)]
<1>1. T[m] \in BlockType
  OBVIOUS
<1>2. PICK B \in BlockType : B = T[m]
  BY <1>1
<1>3. /\ B.kind \in BlockNames \cup {Unnamed} /\ B.child \in Nat /\ B.sibling \in Nat
      /\ B.set \in Seq(Directives)
      /\ B = [kind |-> B.kind, child |-> B.child, sibling |-> B.sibling, set |-> B.set]
  BY DEF BlockType
<1>4. ASSUME NEW v \in Nat, L = [T EXCEPT ![m].child = v]
      PROVE  /\ L \in Seq(BlockType) /\ Len(L) = Len(T)
             /\ \A j \in 1..Len(T) : j # m => L[j] = T[j]
             /\ L[m] = [kind |-> T[m].kind, child |-> v, sibling |-> T[m].sibling, set |-> T[m].set]
  <2>1. PICK r : r = [kind |-> B.kind, child |-> v, sibling |-> B.sibling, set |-> B.set]
    OBVIOUS
  <2>2. r \in BlockType
    BY <1>3, <2>1 DEF BlockType
  <2>3. [B EXCEPT !.child = v] = r
    BY <1>3, <2>1, SMTT(30)
  <2>4. L = [T EXCEPT ![m] = r]
    BY <1>2, <1>4, <2>3, Zenon
  <2>5. r = [kind |-> T[m].kind, child |-> v, sibling |-> T[m].sibling, set |-> T[m].set]
    BY <1>2, <2>1, Zenon
  <2>6. /\ L \in Seq(BlockType) /\ Len(L) = Len(T) /\ L[m] = r
        /\ \A j \in 1..Len(T) : j # m => L[j] = T[j]
    <3> HIDE DEF BlockType
    <3> QED BY <2>2, <2>4, SeqReplace
  <2> QED BY <2>5, <2>6, Zenon
<1>5. ASSUME NEW v \in Nat, L = [T EXCEPT ![m].sibling = v]
      PROVE  /\ L \in Seq(BlockType) /\ Len(L) = Len(T)
             /\ \A j \in 1..Len(T) : j # m => L[j] = T[j]
             /\ L[m] = [kind |-> T[m].kind, child |-> T[m].child, sibling |-> v, set |-> T[m].set]
  <2>1. PICK r : r = [kind |-> B.kind, child |-> B.child, sibling |-> v, set |-> B.set]
    OBVIOUS
  <2>2. r \in BlockType
    BY <1>3, <2>1 DEF BlockType
  <2>3. [B EXCEPT !.sibling = v] = r
    BY <1>3, <2>1, SMTT(30)
  <2>4. L = [T EXCEPT ![m] = r]
    BY <1>2, <1>5, <2>3, Zenon
  <2>5. r = [kind |-> T[m].kind, child |-> T[m].child, sibling |-> v, set |-> T[m].set]
    BY <1>2, <2>1, Zenon
  <2>6. /\ L \in Seq(BlockType) /\ Len(L) = Len(T) /\ L[m] = r
        /\ \A j \in 1..Len(T) : j # m => L[j] = T[j]
    <3> HIDE DEF BlockType
    <3> QED BY <2>2, <2>4, SeqReplace
  <2> QED BY <2>5, <2>6, Zenon
<1>6. ASSUME NEW x \in Directives, L = [T EXCEPT ![m].set = Append(@, x)]
      PROVE  /\ L \in Seq(BlockType) /\ Len(L) = Len(T)
             /\ \A j \in 1..Len(T) : j # m => L[j] = T[j]
             /\ L[m] = [kind |-> T[m].kind, child |-> T[m].child, sibling |-> T[m].sibling, set |-> Append(T[m].set, x)]
  <2>1. PICK r : r = [kind |-> B.kind, child |-> B.child, sibling |-> B.sibling, set |-> Append(B.set, x)]
    OBVIOUS
  <2>2. r \in BlockType
    <3>1. Append(B.set, x) \in Seq(Directives)
      BY <1>3, AppendProperties
    <3> QED BY <1>3, <2>1, <3>1 DEF BlockType
  <2>3. [B EXCEPT !.set = Append(@, x)] = r
    <3>1. PICK a : a = Append(B.set, x)
      OBVIOUS
    <3>2. r = [kind |-> B.kind, child |-> B.child, sibling |-> B.sibling, set |-> a]
      BY <2>1, <3>1, Zenon
    <3>3. [B EXCEPT !.set = a] = r
      BY <1>3, <3>2
    <3> QED BY <3>1, <3>3, Zenon
  <2>4. L = [T EXCEPT ![m] = r]
    BY <1>2, <1>6, <2>3, Zenon
  <2>5. r = [kind |-> T[m].kind, child |-> T[m].child, sibling |-> T[m].sibling, set |-> Append(T[m].set, x)]
    BY <1>2, <2>1, Zenon
  <2>6. /\ L \in Seq(BlockType) /\ Len(L) = Len(T) /\ L[m] = r
        /\ \A j \in 1..Len(T) : j # m => L[j] = T[j]
    <3> HIDE DEF BlockType
    <3> QED BY <2>2, <2>4, SeqReplace
  <2> QED BY <2>5, <2>6, Zenon
<1> QED BY <1>4, <1>5, <1>6, Zenon DEF LinkChild, LinkSibling, AddName

(* A block that has just been opened is empty. *)
LEMMA MeantNew ==
  ASSUME NEW t \in Seq(Lines), NEW line \in Lines, line.op = "open"
  PROVE  MeantBlock(Append(t, line), Len(t) + 1) = NewBlock(line.name)
<1> DEFINE u == Append(t, line)
           n == Len(t)
<1>1. n \in Nat /\ u \in Seq(Lines) /\ Len(u) = n + 1 /\ u[n + 1] = line
  OBVIOUS
<1>2. Inside(u, n + 1) = {} /\ Settings(u, n + 1) = {}
  BY <1>1, InsideNew
<1>3. Later(u, n + 1) = {}
  <2>1. \A e : Inside(u, e) \subseteq 1..(n + 1)
    BY <1>1 DEF Inside, Opens
  <2> QED BY <1>1, <2>1 DEF Later
<1>4. FirstOf(u, {}) = NoBlock
  BY DEF FirstOf
<1>5. NamesOf(u, n + 1) = <<>>
  <2>1. Cardinality(Settings(u, n + 1)) = 0
    BY <1>2, FS_EmptySet
  <2> HIDE DEF u
  <2>2. NamesOf(u, n + 1) = [k \in 1..0 |-> u[n + 1 + k].name]
    BY <2>1 DEF NamesOf
  <2> QED BY <2>2
<1> HIDE DEF u
<1>6. MeantBlock(u, n + 1) = [kind |-> line.name, child |-> NoBlock, sibling |-> NoBlock, set |-> <<>>]
  BY <1>1, <1>2, <1>3, <1>4, <1>5, MeantParts
<1> QED BY <1>6 DEF NewBlock, u

(* What the new line leaves of a block there was. *)
LEMMA MeantStep ==
  ASSUME NEW t \in Seq(Lines), NEW line \in Lines, NEW i \in Opens(t)
  PROVE  LET u == Append(t, line)
             n == Len(t)
             B == MeantBlock(t, i)
         IN  \E c, s, x :
               /\ MeantBlock(u, i) = [kind |-> t[i].name, child |-> c, sibling |-> s, set |-> x]
               /\ B = [kind |-> t[i].name, child |-> FirstOf(t, Inside(t, i)),
                       sibling |-> FirstOf(t, Later(t, i)), set |-> NamesOf(t, i)]
               /\ c = IF Inside(t, i) = {} /\ OpensIn(t, line, i) THEN Number(u, n + 1)
                      ELSE FirstOf(t, Inside(t, i))
               /\ s = IF Later(t, i) = {} /\ OpensIn(t, line, Enclosing(t, i)) THEN Number(u, n + 1)
                      ELSE FirstOf(t, Later(t, i))
               /\ ~SetsIn(t, line, i) => x = NamesOf(t, i)
               /\ SetsIn(t, line, i) /\ n = i + Cardinality(Settings(t, i))
                    => x = Append(NamesOf(t, i), line.name)
<1> DEFINE u == Append(t, line)
           n == Len(t)
<1>1. i \in 1..n /\ i \in 0..n /\ u[i] = t[i]
  BY DEF Opens
<1>2. FirstOf(u, Inside(u, i)) = IF Inside(t, i) = {} /\ OpensIn(t, line, i)
                                 THEN Number(u, n + 1) ELSE FirstOf(t, Inside(t, i))
  BY <1>1, ChildStep
<1>3. FirstOf(u, Later(u, i)) = IF Later(t, i) = {} /\ OpensIn(t, line, Enclosing(t, i))
                                THEN Number(u, n + 1) ELSE FirstOf(t, Later(t, i))
  BY SiblingStep
<1>4. /\ ~SetsIn(t, line, i) => NamesOf(u, i) = NamesOf(t, i)
      /\ SetsIn(t, line, i) /\ n = i + Cardinality(Settings(t, i))
           => NamesOf(u, i) = Append(NamesOf(t, i), line.name)
  BY <1>1, NamesStep
<1>5. MeantBlock(u, i) = [kind |-> t[i].name, child |-> FirstOf(u, Inside(u, i)),
                          sibling |-> FirstOf(u, Later(u, i)), set |-> NamesOf(u, i)]
  <2>1. u[i].name = t[i].name
    BY <1>1
  <2> HIDE DEF u
  <2> QED BY <2>1, MeantParts
<1>6. MeantBlock(t, i) = [kind |-> t[i].name, child |-> FirstOf(t, Inside(t, i)),
                          sibling |-> FirstOf(t, Later(t, i)), set |-> NamesOf(t, i)]
  BY MeantParts
<1> QED BY <1>2, <1>3, <1>4, <1>5, <1>6, Zenon

(* Where the blocks of a file stand in the tree. *)
LEMMA TreeIndex ==
  ASSUME NEW t \in Seq(Lines), NEW line \in Lines, NEW T, TreeIs(T, t)
  PROVE  /\ \A i \in Opens(t) : /\ Number(t, i) + 1 \in 2..Len(T) /\ i \in 1..Len(t)
                                /\ Number(Append(t, line), i) = Number(t, i)
         /\ Number(t, 0) = 0 /\ Number(Append(t, line), 0) = 0 /\ Len(T) \in Nat /\ Len(T) > 0
         /\ line.op = "open" => Number(Append(t, line), Len(t) + 1) = Len(T)
         /\ line.op # "open" => Number(Append(t, line), Len(t) + 1) = Len(T) - 1
<1> DEFINE n == Len(t)
<1>1. n \in Nat /\ n \in 0..n /\ 0 \in 0..n /\ Opens(t) \subseteq 1..n
  BY DEF Opens
<1>2. Number(t, n) \in Nat /\ Number(t, 0) = 0
  BY <1>1, NumberStep
<1>3. Len(T) = Number(t, n) + 1
  BY DEF TreeIs
<1>4. ASSUME NEW i \in Opens(t)
      PROVE  Number(t, i) \in Nat /\ Number(t, i) > 0 /\ Number(t, i) <= Number(t, n)
  <2>1. i \in 0..n
    BY <1>1
  <2>2. Number(t, i) \in Nat /\ Number(t, i) > 0 /\ (i < n => Number(t, i) <= Number(t, n))
    BY <1>1, <2>1, NumberStep
  <2>3. i = n => Number(t, i) = Number(t, n)
    OBVIOUS
  <2> HIDE DEF n
  <2>4. i < n \/ i = n
    BY <1>1, <2>1
  <2> QED BY <2>2, <2>3, <2>4
<1>5. /\ \A i \in 0..n : Number(Append(t, line), i) = Number(t, i)
      /\ line.op = "open" => Number(Append(t, line), n + 1) = Number(t, n) + 1
      /\ line.op # "open" => Number(Append(t, line), n + 1) = Number(t, n)
  BY NumberPrefix
<1> HIDE DEF n
<1>6. \A i \in Opens(t) : i \in 0..n
  BY <1>1
<1>7. \A i \in Opens(t) : Number(t, i) + 1 \in 2..Len(T)
  BY <1>2, <1>3, <1>4
<1>8. Len(T) \in Nat /\ Len(T) > 0 /\ Len(T) - 1 = Number(t, n)
  BY <1>2, <1>3
<1> QED BY <1>1, <1>2, <1>3, <1>5, <1>6, <1>7, <1>8 DEF n

(* The blocks of a file with one more opening: those there were, as they *)
(* are now meant, and the new one. *)
LEMMA TreeGrows ==
  ASSUME NEW t \in Seq(Lines), NEW line \in Lines, line.op = "open", line.name \in BlockNames,
         NEW T \in Seq(BlockType), TreeIs(T, t), NEW L \in Seq(BlockType), Len(L) = Len(T),
         \A i \in Opens(t) : L[Number(t, i) + 1] = MeantBlock(Append(t, line), i),
         L[1].child = FirstOf(Append(t, line), Inside(Append(t, line), 0))
  PROVE  /\ TreeIs(Append(L, NewBlock(line.name)), Append(t, line))
         /\ Append(L, NewBlock(line.name)) \in Seq(BlockType)
         /\ Len(Append(L, NewBlock(line.name))) = Len(T) + 1
<1> DEFINE n == Len(t)
<1>1. PICK u : u = Append(t, line)
  OBVIOUS
<1>2. PICK B : B = NewBlock(line.name)
  OBVIOUS
<1>3. B \in BlockType
  BY <1>2 DEF NewBlock, BlockType, NoBlock
<1>4. PICK R : R = Append(L, B)
  OBVIOUS
<1>5. R \in Seq(BlockType) /\ Len(R) = Len(L) + 1 /\ R[Len(L) + 1] = B
        /\ \A j \in 1..Len(L) : R[j] = L[j]
  BY <1>3, <1>4, AppendProperties
<1>6. n \in Nat /\ Len(u) = n + 1
  BY <1>1
<1>7. Opens(u) = Opens(t) \cup {n + 1}
  BY <1>1, OpensStep
<1>8. /\ \A i \in Opens(t) : Number(t, i) + 1 \in 2..Len(T) /\ Number(u, i) = Number(t, i)
      /\ Len(T) \in Nat /\ Len(T) > 0 /\ Number(u, n + 1) = Len(T)
  BY <1>1, TreeIndex
<1>9. MeantBlock(u, n + 1) = B
  BY <1>1, <1>2, MeantNew
<1> HIDE DEF n
<1>10. Len(R) = Number(u, Len(u)) + 1
  BY <1>5, <1>6, <1>8
<1>11. ASSUME NEW i \in Opens(u) PROVE R[Number(u, i) + 1] = MeantBlock(u, i)
  <2>1. CASE i = n + 1
    <3>1. Number(u, i) + 1 = Len(L) + 1
      BY <1>8, <2>1
    <3> QED BY <1>5, <1>9, <2>1, <3>1, Zenon
  <2>2. CASE i \in Opens(t)
    <3>1. Number(u, i) + 1 = Number(t, i) + 1 /\ Number(t, i) + 1 \in 1..Len(L)
      BY <1>8, <2>2
    <3>2. R[Number(t, i) + 1] = L[Number(t, i) + 1]
      BY <1>5, <3>1
    <3>3. L[Number(t, i) + 1] = MeantBlock(u, i)
      BY <1>1, <2>2
    <3> QED BY <3>1, <3>2, <3>3
  <2> QED BY <1>7, <2>1, <2>2
<1>12. R[1].child = FirstOf(u, Inside(u, 0))
  <2>1. R[1] = L[1]
    BY <1>5, <1>8
  <2> QED BY <1>1, <2>1
<1>13. TreeIs(R, u)
  BY <1>10, <1>11, <1>12 DEF TreeIs
<1> QED BY <1>1, <1>2, <1>4, <1>5, <1>13

(* The first block in a block becomes its child. *)
LEMMA TreeChild ==
  ASSUME NEW t \in Seq(Lines), NEW line \in Lines, line.op = "open", line.name \in BlockNames,
         NEW T \in Seq(BlockType), TreeIs(T, t), NEW top, top = Enclosing(t, Len(t) + 1),
         top = 0 \/ top \in Opens(t), Inside(t, top) = {},
         NEW L, L = LinkChild(T, Number(t, top) + 1, Len(T))
  PROVE  /\ TreeIs(Append(L, NewBlock(line.name)), Append(t, line))
         /\ Append(L, NewBlock(line.name)) \in Seq(BlockType)
         /\ Len(Append(L, NewBlock(line.name))) = Len(T) + 1
<1> DEFINE n == Len(t)
<1>1. PICK u : u = Append(t, line)
  OBVIOUS
<1>2. /\ \A i \in Opens(t) : Number(t, i) + 1 \in 2..Len(T) /\ i \in 1..n
      /\ Len(T) \in Nat /\ Len(T) > 0 /\ Number(u, n + 1) = Len(T) /\ Number(t, 0) = 0
  BY <1>1, TreeIndex
<1>3. PICK m : m = Number(t, top) + 1
  OBVIOUS
<1>4. m \in 1..Len(T)
  BY <1>2, <1>3
<1>5. /\ L \in Seq(BlockType) /\ Len(L) = Len(T) /\ \A j \in 1..Len(T) : j # m => L[j] = T[j]
      /\ L[m] = [kind |-> T[m].kind, child |-> Len(T), sibling |-> T[m].sibling, set |-> T[m].set]
  <2>1. L = LinkChild(T, m, Len(T))
    BY <1>3, Zenon
  <2> QED BY <1>2, <1>4, <2>1, BlockUpdate
<1>6. n \in Nat /\ 0 \in 0..n /\ OpensIn(t, line, top) /\ \A i : OpensIn(t, line, i) => i = top
  BY DEF OpensIn
<1>7. \A i : ~SetsIn(t, line, i)
  BY DEF SetsIn
<1>8. \A i \in Opens(t) : ~OpensIn(t, line, Enclosing(t, i))
  BY <1>6 DEF Inside
<1>9. ASSUME NEW i \in Opens(t) PROVE L[Number(t, i) + 1] = MeantBlock(u, i)
  <2>1. PICK c, s, x :
          /\ MeantBlock(u, i) = [kind |-> t[i].name, child |-> c, sibling |-> s, set |-> x]
          /\ MeantBlock(t, i) = [kind |-> t[i].name, child |-> FirstOf(t, Inside(t, i)),
                                 sibling |-> FirstOf(t, Later(t, i)), set |-> NamesOf(t, i)]
          /\ c = IF Inside(t, i) = {} /\ OpensIn(t, line, i) THEN Number(u, n + 1)
                 ELSE FirstOf(t, Inside(t, i))
          /\ s = IF Later(t, i) = {} /\ OpensIn(t, line, Enclosing(t, i)) THEN Number(u, n + 1)
                 ELSE FirstOf(t, Later(t, i))
          /\ ~SetsIn(t, line, i) => x = NamesOf(t, i)
    BY <1>1, MeantStep
  <2>2. s = FirstOf(t, Later(t, i)) /\ x = NamesOf(t, i)
    BY <1>7, <1>8, <2>1
  <2>3. T[Number(t, i) + 1] = MeantBlock(t, i)
    BY DEF TreeIs
  <2>4. CASE i = top
    <3>1. c = Len(T)
      BY <1>2, <1>6, <2>1, <2>4
    <3>2. m = Number(t, i) + 1
      BY <1>3, <2>4
    <3> QED BY <1>5, <2>1, <2>2, <2>3, <3>1, <3>2
  <2>5. CASE i # top
    <3>1. c = FirstOf(t, Inside(t, i))
      BY <1>6, <2>1, <2>5
    <3>2. MeantBlock(u, i) = MeantBlock(t, i)
      BY <2>1, <2>2, <3>1, Zenon
    <3>3. Number(t, i) + 1 \in 1..Len(T) /\ Number(t, i) + 1 # m
      <4>1. Number(t, i) + 1 \in 2..Len(T)
        BY <1>2
      <4>2. top = 0 => m = 1
        BY <1>2, <1>3
      <4>3. top \in Opens(t) => Number(t, i) # Number(t, top)
        BY <2>5, NumberOnce
      <4>4. top \in Opens(t) => Number(t, top) + 1 \in 2..Len(T)
        BY <1>2
      <4>5. Number(t, i) \in Int /\ (top \in Opens(t) => Number(t, top) \in Int)
        <5>1. i \in 0..n /\ (top \in Opens(t) => top \in 0..n)
          BY <1>2, <1>6
        <5> QED BY <5>1, NumberStep
      <4> HIDE DEF n
      <4> QED BY <1>3, <4>1, <4>2, <4>3, <4>4, <4>5
    <3> QED BY <1>5, <2>3, <3>2, <3>3
  <2> QED BY <2>4, <2>5
<1>10. L[1].child = FirstOf(u, Inside(u, 0))
  <2>1. CASE top = 0
    <3>1. m = 1
      BY <1>2, <1>3, <2>1
    <3>2. FirstOf(u, Inside(u, 0)) = Len(T)
      BY <1>1, <1>2, <1>6, <2>1, ChildStep
    <3> QED BY <1>5, <3>1, <3>2
  <2>2. CASE top # 0
    <3>1. top \in Opens(t)
      BY <2>2
    <3>2. m # 1 /\ 1 \in 1..Len(T)
      BY <1>2, <1>3, <3>1
    <3>3. FirstOf(u, Inside(u, 0)) = FirstOf(t, Inside(t, 0))
      BY <1>1, <1>6, <2>2, ChildStep
    <3>4. L[1] = T[1]
      BY <1>5, <3>2
    <3> QED BY <3>3, <3>4 DEF TreeIs
  <2> QED BY <2>1, <2>2
<1> QED BY <1>1, <1>5, <1>9, <1>10, TreeGrows

(* A further block becomes the sibling of the last one. *)
LEMMA TreeSibling ==
  ASSUME NEW t \in Seq(Lines), NEW line \in Lines, line.op = "open", line.name \in BlockNames,
         NEW T \in Seq(BlockType), TreeIs(T, t), NEW top, top = Enclosing(t, Len(t) + 1),
         NEW last \in Inside(t, top), \A k \in Inside(t, top) : k <= last,
         NEW L, L = LinkSibling(T, Number(t, last) + 1, Len(T))
  PROVE  /\ TreeIs(Append(L, NewBlock(line.name)), Append(t, line))
         /\ Append(L, NewBlock(line.name)) \in Seq(BlockType)
         /\ Len(Append(L, NewBlock(line.name))) = Len(T) + 1
<1> DEFINE n == Len(t)
<1>1. PICK u : u = Append(t, line)
  OBVIOUS
<1>2. /\ \A i \in Opens(t) : Number(t, i) + 1 \in 2..Len(T) /\ i \in 1..n
      /\ Len(T) \in Nat /\ Len(T) > 0 /\ Number(u, n + 1) = Len(T)
  BY <1>1, TreeIndex
<1>3. last \in Opens(t) /\ Enclosing(t, last) = top
  BY DEF Inside
<1>4. PICK m : m = Number(t, last) + 1
  OBVIOUS
<1>5. m \in 1..Len(T) /\ m \in 2..Len(T)
  BY <1>2, <1>3, <1>4
<1>6. /\ L \in Seq(BlockType) /\ Len(L) = Len(T) /\ \A j \in 1..Len(T) : j # m => L[j] = T[j]
      /\ L[m] = [kind |-> T[m].kind, child |-> T[m].child, sibling |-> Len(T), set |-> T[m].set]
  BY <1>2, <1>4, <1>5, BlockUpdate
<1>7. n \in Nat /\ 0 \in 0..n /\ OpensIn(t, line, top) /\ \A i : OpensIn(t, line, i) => i = top
  BY DEF OpensIn
<1>8. \A i : ~SetsIn(t, line, i)
  BY DEF SetsIn
<1>9. Inside(t, top) # {}
  OBVIOUS
<1>10. ASSUME NEW i \in Opens(t) PROVE L[Number(t, i) + 1] = MeantBlock(u, i)
  <2>1. PICK c, s, x :
          /\ MeantBlock(u, i) = [kind |-> t[i].name, child |-> c, sibling |-> s, set |-> x]
          /\ MeantBlock(t, i) = [kind |-> t[i].name, child |-> FirstOf(t, Inside(t, i)),
                                 sibling |-> FirstOf(t, Later(t, i)), set |-> NamesOf(t, i)]
          /\ c = IF Inside(t, i) = {} /\ OpensIn(t, line, i) THEN Number(u, n + 1)
                 ELSE FirstOf(t, Inside(t, i))
          /\ s = IF Later(t, i) = {} /\ OpensIn(t, line, Enclosing(t, i)) THEN Number(u, n + 1)
                 ELSE FirstOf(t, Later(t, i))
          /\ ~SetsIn(t, line, i) => x = NamesOf(t, i)
    BY <1>1, MeantStep
  <2>2. c = FirstOf(t, Inside(t, i)) /\ x = NamesOf(t, i)
    BY <1>7, <1>8, <1>9, <2>1
  <2>3. T[Number(t, i) + 1] = MeantBlock(t, i)
    BY DEF TreeIs
  <2>4. i \in Nat /\ last \in Nat /\ \A k \in Inside(t, top) : k \in Nat
    BY <1>2, <1>3 DEF Inside
  <2>5. CASE i = last
    <3>1. Later(t, i) = {}
      <4>1. Later(t, i) = {j \in Inside(t, top) : j > last}
        BY <1>3, <2>5 DEF Later
      <4>2. \A j \in Inside(t, top) : ~(j > last)
        BY <2>4
      <4> QED BY <4>1, <4>2
    <3>2. s = Len(T)
      BY <1>2, <1>3, <1>7, <2>1, <2>5, <3>1
    <3>3. m = Number(t, i) + 1
      BY <1>4, <2>5
    <3> QED BY <1>6, <2>1, <2>2, <2>3, <3>2, <3>3
  <2>6. CASE i # last
    <3>1. OpensIn(t, line, Enclosing(t, i)) => last \in Later(t, i)
      <4> SUFFICES ASSUME OpensIn(t, line, Enclosing(t, i)) PROVE last \in Later(t, i)
        OBVIOUS
      <4>1. Enclosing(t, i) = top
        BY <1>7
      <4>2. i \in Inside(t, top)
        BY <4>1 DEF Inside
      <4>3. last > i
        BY <2>4, <2>6, <4>2
      <4> QED BY <4>1, <4>3 DEF Later
    <3>2. s = FirstOf(t, Later(t, i))
      BY <2>1, <3>1
    <3>3. MeantBlock(u, i) = MeantBlock(t, i)
      BY <2>1, <2>2, <3>2, Zenon
    <3>4. Number(t, i) + 1 \in 1..Len(T) /\ Number(t, i) + 1 # m
      <4>1. Number(t, i) + 1 \in 2..Len(T)
        BY <1>2
      <4>2. Number(t, i) # Number(t, last)
        BY <1>3, <2>6, NumberOnce
      <4>3. Number(t, i) \in Int /\ Number(t, last) \in Int
        <5>1. i \in 0..n /\ last \in 0..n
          BY <1>2, <1>3, <1>7
        <5> QED BY <5>1, NumberStep
      <4> HIDE DEF n
      <4> QED BY <1>4, <4>1, <4>2, <4>3
    <3> QED BY <1>6, <2>3, <3>3, <3>4
  <2> QED BY <2>5, <2>6
<1>11. L[1].child = FirstOf(u, Inside(u, 0))
  <2>1. m # 1 /\ 1 \in 1..Len(T)
    BY <1>2, <1>5
  <2>2. L[1] = T[1]
    BY <1>6, <2>1
  <2>3. FirstOf(u, Inside(u, 0)) = FirstOf(t, Inside(t, 0))
    BY <1>1, <1>7, <1>9, ChildStep
  <2> QED BY <2>2, <2>3 DEF TreeIs
<1> QED BY <1>1, <1>6, <1>10, <1>11, TreeGrows

(* Behind the opening of a block there is nothing but its directives. *)
Filled(t, i) == Len(t) = i + Cardinality(Settings(t, i))

(* A directive goes to the innermost block. *)
LEMMA TreeSet ==
  ASSUME NEW t \in Seq(Lines), NEW line \in Lines, line.op = "set", NEW x \in Directives, x = line.name,
         NEW T \in Seq(BlockType), TreeIs(T, t), NEW top, top \in Opens(t),
         top = Enclosing(t, Len(t) + 1), Filled(t, top),
         NEW L, L = AddName(T, Number(t, top) + 1, x)
  PROVE  TreeIs(L, Append(t, line)) /\ L \in Seq(BlockType) /\ Len(L) = Len(T)
<1> DEFINE n == Len(t)
<1>1. PICK u : u = Append(t, line)
  OBVIOUS
<1>2. /\ \A i \in Opens(t) : /\ Number(t, i) + 1 \in 2..Len(T) /\ i \in 1..n
                             /\ Number(u, i) = Number(t, i)
      /\ Len(T) \in Nat /\ Len(T) > 0 /\ Number(u, n + 1) = Len(T) - 1
  BY <1>1, TreeIndex
<1>3. PICK m : m = Number(t, top) + 1
  OBVIOUS
<1>4. m \in 1..Len(T) /\ m \in 2..Len(T)
  BY <1>2, <1>3
<1>5. n = top + Cardinality(Settings(t, top))
  BY DEF Filled
<1>6. L = AddName(T, m, x)
  BY <1>3, Zenon
<1>7. /\ L \in Seq(BlockType) /\ Len(L) = Len(T) /\ \A j \in 1..Len(T) : j # m => L[j] = T[j]
      /\ L[m] = [kind |-> T[m].kind, child |-> T[m].child, sibling |-> T[m].sibling,
                 set |-> Append(T[m].set, x)]
  BY <1>4, <1>6, BlockUpdate
<1>8. /\ n \in Nat /\ 0 \in 0..n /\ Len(u) = n + 1 /\ SetsIn(t, line, top)
      /\ \A i : SetsIn(t, line, i) => i = top
      /\ \A i : ~OpensIn(t, line, i)
  BY <1>1 DEF SetsIn, OpensIn
<1>9. ASSUME NEW i \in Opens(t) PROVE L[Number(t, i) + 1] = MeantBlock(u, i)
  <2>1. PICK c, s, y :
          /\ MeantBlock(u, i) = [kind |-> t[i].name, child |-> c, sibling |-> s, set |-> y]
          /\ MeantBlock(t, i) = [kind |-> t[i].name, child |-> FirstOf(t, Inside(t, i)),
                                 sibling |-> FirstOf(t, Later(t, i)), set |-> NamesOf(t, i)]
          /\ c = IF Inside(t, i) = {} /\ OpensIn(t, line, i) THEN Number(u, n + 1)
                 ELSE FirstOf(t, Inside(t, i))
          /\ s = IF Later(t, i) = {} /\ OpensIn(t, line, Enclosing(t, i)) THEN Number(u, n + 1)
                 ELSE FirstOf(t, Later(t, i))
          /\ ~SetsIn(t, line, i) => y = NamesOf(t, i)
          /\ SetsIn(t, line, i) /\ n = i + Cardinality(Settings(t, i))
               => y = Append(NamesOf(t, i), line.name)
    BY <1>1, MeantStep
  <2>2. c = FirstOf(t, Inside(t, i)) /\ s = FirstOf(t, Later(t, i))
    BY <1>8, <2>1
  <2>3. T[Number(t, i) + 1] = MeantBlock(t, i)
    BY DEF TreeIs
  <2>4. CASE i = top
    <3>1. y = Append(NamesOf(t, i), x)
      BY <1>5, <1>8, <2>1, <2>4, Zenon
    <3>2. T[m] = MeantBlock(t, i) /\ L[Number(t, i) + 1] = L[m]
      BY <1>3, <2>3, <2>4, Zenon
    <3>3. /\ T[m].kind = t[i].name /\ T[m].child = c /\ T[m].sibling = s
          /\ T[m].set = NamesOf(t, i)
      BY <2>1, <2>2, <3>2
    <3> QED BY <1>7, <2>1, <3>1, <3>2, <3>3, Zenon
  <2>5. CASE i # top
    <3>1. y = NamesOf(t, i)
      BY <1>8, <2>1, <2>5
    <3>2. MeantBlock(u, i) = MeantBlock(t, i)
      BY <2>1, <2>2, <3>1, Zenon
    <3>3. Number(t, i) + 1 \in 1..Len(T) /\ Number(t, i) + 1 # m
      <4>1. Number(t, i) + 1 \in 2..Len(T)
        BY <1>2
      <4>2. Number(t, i) # Number(t, top)
        BY <2>5, NumberOnce
      <4>3. Number(t, i) \in Int /\ Number(t, top) \in Int
        <5>1. i \in 0..n /\ top \in 0..n
          BY <1>2, <1>8
        <5> QED BY <5>1, NumberStep
      <4> HIDE DEF n
      <4> QED BY <1>3, <4>1, <4>2, <4>3
    <3> QED BY <1>7, <2>3, <3>2, <3>3
  <2> QED BY <2>4, <2>5
<1>10. L[1].child = FirstOf(u, Inside(u, 0))
  <2>1. m # 1 /\ 1 \in 1..Len(T)
    BY <1>2, <1>4
  <2>2. L[1] = T[1]
    BY <1>7, <2>1
  <2>3. FirstOf(u, Inside(u, 0)) = FirstOf(t, Inside(t, 0))
    BY <1>1, <1>8, ChildStep
  <2> QED BY <2>2, <2>3 DEF TreeIs
<1>11. Opens(u) = Opens(t)
  BY <1>1, OpensStep
<1>12. Len(L) = Number(u, Len(u)) + 1
  BY <1>2, <1>7, <1>8
<1>13. \A i \in Opens(u) : L[Number(u, i) + 1] = MeantBlock(u, i)
  BY <1>2, <1>9, <1>11
<1>14. TreeIs(L, u)
  BY <1>10, <1>12, <1>13 DEF TreeIs
<1> QED BY <1>1, <1>7, <1>14

(* The end of a block leaves the tree as it is. *)
LEMMA TreeClose ==
  ASSUME NEW t \in Seq(Lines), NEW line \in Lines, line.op = "close", NEW T, TreeIs(T, t)
  PROVE  TreeIs(T, Append(t, line))
<1> DEFINE n == Len(t)
<1>1. PICK u : u = Append(t, line)
  OBVIOUS
<1>2. /\ \A i \in Opens(t) : Number(u, i) = Number(t, i)
      /\ Len(T) \in Nat /\ Number(u, n + 1) = Len(T) - 1
  BY <1>1, TreeIndex
<1>3. n \in Nat /\ 0 \in 0..n /\ Len(u) = n + 1 /\ \A i : ~SetsIn(t, line, i) /\ ~OpensIn(t, line, i)
  BY <1>1 DEF SetsIn, OpensIn
<1>4. ASSUME NEW i \in Opens(t) PROVE MeantBlock(u, i) = MeantBlock(t, i)
  <2>1. PICK c, s, y :
          /\ MeantBlock(u, i) = [kind |-> t[i].name, child |-> c, sibling |-> s, set |-> y]
          /\ MeantBlock(t, i) = [kind |-> t[i].name, child |-> FirstOf(t, Inside(t, i)),
                                 sibling |-> FirstOf(t, Later(t, i)), set |-> NamesOf(t, i)]
          /\ c = IF Inside(t, i) = {} /\ OpensIn(t, line, i) THEN Number(u, n + 1)
                 ELSE FirstOf(t, Inside(t, i))
          /\ s = IF Later(t, i) = {} /\ OpensIn(t, line, Enclosing(t, i)) THEN Number(u, n + 1)
                 ELSE FirstOf(t, Later(t, i))
          /\ ~SetsIn(t, line, i) => y = NamesOf(t, i)
    BY <1>1, MeantStep
  <2>2. c = FirstOf(t, Inside(t, i)) /\ s = FirstOf(t, Later(t, i)) /\ y = NamesOf(t, i)
    BY <1>3, <2>1
  <2> QED BY <2>1, <2>2, Zenon
<1>5. FirstOf(u, Inside(u, 0)) = FirstOf(t, Inside(t, 0))
  BY <1>1, <1>3, ChildStep
<1>6. Opens(u) = Opens(t)
  BY <1>1, OpensStep
<1>7. Len(T) = Number(u, Len(u)) + 1
  BY <1>2, <1>3
<1>8. \A i \in Opens(u) : T[Number(u, i) + 1] = MeantBlock(u, i)
  BY <1>2, <1>4, <1>6 DEF TreeIs
<1> QED BY <1>1, <1>5, <1>7, <1>8 DEF TreeIs

-----------------------------------------------------------------------------
(* The parser's state: an active call knows a block that is there. *)
ConfTypeOK ==
  /\ text \in Seq(Lines) /\ child \in BOOLEAN /\ verdict \in {"reading", "ok", "error"}
  /\ frames \in Seq(CallType) /\ Len(frames) > 0 /\ tree \in Seq(BlockType)
  /\ \A i \in 1..Len(frames) : frames[i].b < Len(tree)

(* A call that has opened block new of a kind, and the call for that block. *)
Entered(call, new, kind) == [call EXCEPT !.b = new, !.runtime = kind, !.layers = @ + 1]
Callee(call, new, kind) == [Entered(call, new, kind) EXCEPT !.ret = "error"]

(* Their fields. *)
LEMMA CallUpdate ==
  ASSUME NEW call \in CallType, NEW new \in Nat, NEW kind \in BlockNames
  PROVE  /\ Entered(call, new, kind) \in CallType /\ Callee(call, new, kind) \in CallType
         /\ Entered(call, new, kind).b = new /\ Callee(call, new, kind).b = new
         /\ Entered(call, new, kind).layers = call.layers + 1
         /\ Callee(call, new, kind).layers = call.layers + 1
         /\ Callee(call, new, kind).runtime = kind /\ Callee(call, new, kind).ret = "error"
<1>1. /\ call.b \in Nat /\ call.layers \in Nat /\ call.ret \in {"ok", "error"}
      /\ call = [b |-> call.b, runtime |-> call.runtime, layers |-> call.layers, ret |-> call.ret]
  BY DEF CallType
<1>2. PICK e : e = [b |-> new, runtime |-> kind, layers |-> call.layers + 1, ret |-> call.ret]
  OBVIOUS
<1>3. Entered(call, new, kind) = e
  <2>1. PICK m : m = call.layers + 1
    OBVIOUS
  <2>2. Entered(call, new, kind) = [[[call EXCEPT !.b = new] EXCEPT !.runtime = kind] EXCEPT !.layers = m]
    BY <1>1, <2>1 DEF Entered
  <2>3. [[[call EXCEPT !.b = new] EXCEPT !.runtime = kind] EXCEPT !.layers = m]
          = [b |-> new, runtime |-> kind, layers |-> m, ret |-> call.ret]
    <3>1. PICK r : r = [b |-> new, runtime |-> call.runtime, layers |-> call.layers, ret |-> call.ret]
      OBVIOUS
    <3>2. PICK q : q = [b |-> new, runtime |-> kind, layers |-> call.layers, ret |-> call.ret]
      OBVIOUS
    <3>3. [call EXCEPT !.b = new] = r
      BY <1>1, <3>1
    <3>4. [r EXCEPT !.runtime = kind] = q
      BY <3>1, <3>2
    <3>5. [q EXCEPT !.layers = m] = [b |-> new, runtime |-> kind, layers |-> m, ret |-> call.ret]
      BY <3>2
    <3> QED BY <3>3, <3>4, <3>5, Zenon
  <2> QED BY <1>2, <2>1, <2>2, <2>3
<1>4. Callee(call, new, kind) = [b |-> new, runtime |-> kind, layers |-> call.layers + 1, ret |-> "error"]
  <2>1. Callee(call, new, kind) = [e EXCEPT !.ret = "error"]
    BY <1>3, Zenon DEF Callee
  <2> QED BY <1>2, <2>1
<1> QED BY <1>1, <1>2, <1>3, <1>4 DEF CallType

(* The call that is active. *)
LEMMA FrameType ==
  ASSUME ConfTypeOK
  PROVE  /\ Frame \in CallType /\ Frame.b \in Nat /\ Frame.b + 1 \in 1..Len(tree) /\ Len(tree) \in Nat
         /\ Frame.ret \in {"ok", "error"}
<1>1. Len(frames) \in 1..Len(frames) /\ Len(tree) \in Nat
  BY DEF ConfTypeOK
<1>2. Frame \in CallType /\ Frame.b < Len(tree)
  BY <1>1 DEF ConfTypeOK, Frame
<1>3. Frame.b \in Nat /\ Frame.ret \in {"ok", "error"}
  BY <1>2 DEF CallType
<1> QED BY <1>1, <1>2, <1>3

(* What the opening of a block does. *)
LEMMA OpenFacts ==
  ASSUME ConfTypeOK, NEW line, line.name \in BlockNames, OpenBlock(line)
  PROVE  /\ tree' = Append(IF child THEN LinkChild(tree, Frame.b + 1, Len(tree))
                                    ELSE LinkSibling(tree, Frame.b + 1, Len(tree)), NewBlock(line.name))
         /\ frames' \in Seq(CallType) /\ Len(frames') = Len(frames) + 1
         /\ \A i \in 1..(Len(frames) - 1) : frames'[i] = frames[i]
         /\ frames'[Len(frames)] = Entered(Frame, Len(tree), line.name)
         /\ frames'[Len(frames) + 1] = Callee(Frame, Len(tree), line.name)
         /\ child' = TRUE /\ verdict' = verdict
<1>1. PICK x : x = line.name
  OBVIOUS
<1>2. PICK e : e = Entered(Frame, Len(tree), x)
  OBVIOUS
<1>3. PICK w : w = Callee(Frame, Len(tree), x)
  OBVIOUS
<1>4. /\ tree' = Append(IF child THEN LinkChild(tree, Frame.b + 1, Len(tree))
                                  ELSE LinkSibling(tree, Frame.b + 1, Len(tree)), NewBlock(x))
      /\ frames' = Append([frames EXCEPT ![Len(frames)] = e], w)
      /\ child' = TRUE /\ verdict' = verdict
  BY <1>1, <1>2, <1>3, Zenon DEF OpenBlock, LinkChild, LinkSibling, Entered, Callee
<1>5. e \in CallType /\ w \in CallType
  BY <1>1, <1>2, <1>3, FrameType, CallUpdate
<1>6. PICK g : g = [frames EXCEPT ![Len(frames)] = e]
  OBVIOUS
<1>7. frames \in Seq(CallType) /\ Len(frames) \in 1..Len(frames) /\ Len(frames) \in Nat
  BY DEF ConfTypeOK
<1>8. /\ g \in Seq(CallType) /\ Len(g) = Len(frames) /\ g[Len(frames)] = e
      /\ \A i \in 1..Len(frames) : i # Len(frames) => g[i] = frames[i]
  BY <1>5, <1>6, <1>7, SeqReplace
<1>9. /\ frames' \in Seq(CallType) /\ Len(frames') = Len(g) + 1 /\ frames'[Len(g) + 1] = w
      /\ \A i \in 1..Len(g) : frames'[i] = g[i]
  <2>1. frames' = Append(g, w)
    BY <1>4, <1>6, Zenon
  <2> QED BY <1>5, <1>8, <2>1, AppendProperties
<1>10. \A i \in 1..(Len(frames) - 1) : i \in 1..Len(frames) /\ i # Len(frames)
  BY <1>7
<1>11. /\ frames' \in Seq(CallType) /\ Len(frames') = Len(frames) + 1 /\ frames'[Len(frames) + 1] = w
       /\ frames'[Len(frames)] = e
       /\ \A i \in 1..(Len(frames) - 1) : frames'[i] = frames[i]
  BY <1>7, <1>8, <1>9, <1>10
<1> QED BY <1>1, <1>2, <1>3, <1>4, <1>11, Zenon

(* What the end of a nested block does. *)
LEMMA CloseFacts ==
  ASSUME ConfTypeOK, CloseBlock, Len(frames) > 1
  PROVE  /\ frames' \in Seq(CallType) /\ Len(frames') = Len(frames) - 1
         /\ \A i \in 1..(Len(frames) - 1) :
              frames'[i].b = frames[i].b /\ frames'[i].layers = frames[i].layers
         /\ frames'[Len(frames) - 1].ret = "ok"
         /\ child' = FALSE /\ verdict' = verdict /\ tree' = tree
<1>1. PICK m \in Nat : m = Len(frames) - 1
  BY DEF ConfTypeOK
<1>2. m > 0 /\ m \in 1..m /\ frames \in Seq(CallType)
  BY <1>1 DEF ConfTypeOK
<1>3. PICK o : o = SubSeq(frames, 1, m)
  OBVIOUS
<1>4. o \in Seq(CallType) /\ Len(o) = m /\ \A i \in 1..m : o[i] = frames[i]
  BY <1>1, <1>2, <1>3
<1>5. o # <<>>
  BY <1>2, <1>4
<1>6. PICK c \in CallType : c = o[m]
  BY <1>2, <1>4
<1>7. c = [b |-> c.b, runtime |-> c.runtime, layers |-> c.layers, ret |-> c.ret]
  BY DEF CallType
<1>8. PICK r : r = [b |-> c.b, runtime |-> c.runtime, layers |-> c.layers, ret |-> "ok"]
  OBVIOUS
<1>9. r \in CallType /\ [c EXCEPT !.ret = "ok"] = r
  <2>1. r \in CallType
    BY <1>8 DEF CallType
  <2> QED BY <1>7, <1>8, <2>1
<1>10. frames' = [o EXCEPT ![m] = r] /\ child' = FALSE /\ verdict' = verdict /\ tree' = tree
  <2>1. /\ frames' = [o EXCEPT ![Len(o)].ret = "ok"] /\ child' = ChildAfterClose
        /\ verdict' = verdict /\ tree' = tree
    BY <1>1, <1>3, <1>5, Zenon DEF CloseBlock
  <2>2. frames' = [o EXCEPT ![m] = r]
    BY <1>4, <1>6, <1>9, <2>1, Zenon
  <2> QED BY <2>1, <2>2 DEF ChildAfterClose
<1>11. /\ frames' \in Seq(CallType) /\ Len(frames') = m /\ frames'[m] = r
       /\ \A i \in 1..m : i # m => frames'[i] = o[i]
  BY <1>2, <1>4, <1>9, <1>10, SeqReplace
<1>12. r.b = c.b /\ r.layers = c.layers /\ r.ret = "ok"
  BY <1>8
<1>13. ASSUME NEW i \in 1..m PROVE frames'[i].b = frames[i].b /\ frames'[i].layers = frames[i].layers
  <2>1. CASE i = m
    <3>1. frames'[i] = r /\ frames[i] = c
      BY <1>4, <1>6, <1>11, <2>1
    <3> QED BY <1>12, <3>1
  <2>2. CASE i # m
    BY <1>4, <1>11, <2>2
  <2> QED BY <2>1, <2>2
<1>14. frames'[m].ret = "ok"
  BY <1>11, <1>12
<1> QED BY <1>1, <1>10, <1>11, <1>13, <1>14

(* The parser starts with one call on sls_first_conf. *)
LEMMA ConfTypeInit ==
  ASSUME ConfInit
  PROVE  ConfTypeOK
<1>1. NewBlock(Unnamed) \in BlockType
  BY DEF NewBlock, BlockType, NoBlock
<1>2. PICK B : B = NewBlock(Unnamed)
  OBVIOUS
<1>3. PICK c : c = [b |-> 0, runtime |-> Unnamed, layers |-> 0, ret |-> "error"]
  OBVIOUS
<1>4. c \in CallType /\ c.b = 0
  BY <1>3 DEF CallType
<1>5. text = <<>> /\ child = TRUE /\ verdict = "reading" /\ tree = <<B>> /\ frames = <<c>>
  BY <1>2, <1>3, Zenon DEF ConfInit
<1>6. /\ tree \in Seq(BlockType) /\ Len(tree) = 1 /\ frames \in Seq(CallType) /\ Len(frames) = 1
      /\ frames[1] = c /\ text \in Seq(Lines)
  BY <1>1, <1>2, <1>4, <1>5
<1>7. \A i \in 1..Len(frames) : frames[i].b < Len(tree)
  BY <1>4, <1>6
<1> QED BY <1>5, <1>6, <1>7 DEF ConfTypeOK

(* Every line and the end of the file keep it so. *)
LEMMA ConfTypeNext ==
  ASSUME ConfTypeOK, [ConfNext]_fileVars
  PROVE  ConfTypeOK'
<1>1. /\ Frame \in CallType /\ Frame.b \in Nat /\ Frame.b + 1 \in 1..Len(tree) /\ Len(tree) \in Nat
      /\ Frame.ret \in {"ok", "error"}
  BY FrameType
<1> DEFINE here == Frame.b + 1
<1>2. tree \in Seq(BlockType) /\ here \in 1..Len(tree) /\ Len(tree) \in Nat
  BY <1>1 DEF ConfTypeOK
<1> HIDE DEF here
<1>3. ASSUME NEW line \in Lines, ReadLine(line), Reject PROVE ConfTypeOK'
  <2>1. /\ text' = Append(text, line) /\ frames' = frames /\ child' = child /\ tree' = tree
        /\ verdict' = "error"
    BY <1>3 DEF ReadLine, Reject
  <2>2. text' \in Seq(Lines)
    BY <2>1 DEF ConfTypeOK
  <2> QED BY <2>1, <2>2 DEF ConfTypeOK
<1>4. ASSUME NEW line \in Lines, ReadLine(line), line.op \in {"set", "bad"}, Directive(line)
      PROVE  ConfTypeOK'
  <2>1. CASE Reject
    BY <1>3, <1>4, <2>1
  <2>2. CASE ~Reject
    <3>1. PICK x : x = line.name
      OBVIOUS
    <3>2. x \in Directives
      BY <1>4, <3>1 DEF Lines
    <3>3. tree' = AddName(tree, here, x) /\ frames' = frames /\ child' = child /\ verdict' = verdict
      BY <1>4, <2>2, <3>1, Zenon DEF Directive, AddName, here
    <3>4. tree' \in Seq(BlockType) /\ Len(tree') = Len(tree)
      BY <1>2, <3>2, <3>3, BlockUpdate
    <3>5. text' \in Seq(Lines)
      BY <1>4 DEF ConfTypeOK, ReadLine
    <3> QED BY <3>3, <3>4, <3>5 DEF ConfTypeOK
  <2> QED BY <2>1, <2>2
<1>5. ASSUME NEW line \in Lines, ReadLine(line), line.op = "open", OpenBlock(line)
      PROVE  ConfTypeOK'
  <2>1. CASE line.name \notin BlockNames
    <3>1. Reject
      BY <1>5, <2>1 DEF OpenBlock
    <3> QED BY <1>3, <1>5, <3>1
  <2>2. CASE line.name \in BlockNames
    <3>1. PICK x \in BlockNames : x = line.name
      BY <2>2
    <3>2. PICK L : L = IF child THEN LinkChild(tree, Frame.b + 1, Len(tree))
                                ELSE LinkSibling(tree, Frame.b + 1, Len(tree))
      OBVIOUS
    <3>3. /\ tree' = Append(L, NewBlock(x)) /\ frames' \in Seq(CallType)
          /\ Len(frames') = Len(frames) + 1
          /\ \A i \in 1..(Len(frames) - 1) : frames'[i] = frames[i]
          /\ frames'[Len(frames)] = Entered(Frame, Len(tree), x)
          /\ frames'[Len(frames) + 1] = Callee(Frame, Len(tree), x)
          /\ child' = TRUE /\ verdict' = verdict
      BY <1>5, <2>2, <3>1, <3>2, OpenFacts, Zenon
    <3>4. L \in Seq(BlockType) /\ Len(L) = Len(tree)
      <4>1. CASE child
        <5>1. L = LinkChild(tree, here, Len(tree))
          BY <3>2, <4>1 DEF here
        <5> QED BY <1>2, <5>1, BlockUpdate
      <4>2. CASE ~child
        <5>1. L = LinkSibling(tree, here, Len(tree))
          BY <3>2, <4>2 DEF here
        <5> QED BY <1>2, <5>1, BlockUpdate
      <4> QED BY <4>1, <4>2
    <3>5. PICK B \in BlockType : B = NewBlock(x)
      <4>1. [kind |-> x, child |-> NoBlock, sibling |-> NoBlock, set |-> <<>>] \in BlockType
        BY DEF BlockType, NoBlock
      <4> QED BY <4>1, Zenon DEF NewBlock
    <3>6. tree' \in Seq(BlockType) /\ Len(tree') = Len(tree) + 1
      BY <3>3, <3>4, <3>5, AppendProperties
    <3>7. frames'[Len(frames)].b = Len(tree) /\ frames'[Len(frames) + 1].b = Len(tree)
      <4>1. Entered(Frame, Len(tree), x).b = Len(tree) /\ Callee(Frame, Len(tree), x).b = Len(tree)
        BY <1>1, CallUpdate, Zenon
      <4> QED BY <3>3, <4>1, Zenon
    <3>8. ASSUME NEW i \in 1..Len(frames') PROVE frames'[i].b < Len(tree')
      <4>1. Len(frames) \in Nat /\ \A j \in 1..Len(frames) : frames[j].b \in Nat /\ frames[j].b < Len(tree)
        <5>1. \A j \in 1..Len(frames) : frames[j] \in CallType
          BY DEF ConfTypeOK
        <5> QED BY <5>1 DEF ConfTypeOK, CallType
      <4>2. \/ i \in 1..(Len(frames) - 1) /\ i \in 1..Len(frames)
            \/ i = Len(frames) \/ i = Len(frames) + 1
        BY <3>3, <4>1
      <4>3. frames'[i].b = Len(tree) \/ (i \in 1..Len(frames) /\ frames'[i].b = frames[i].b)
        BY <3>3, <3>7, <4>2
      <4> QED BY <1>1, <3>6, <4>1, <4>3
    <3>9. text' \in Seq(Lines)
      BY <1>5 DEF ConfTypeOK, ReadLine
    <3>10. Len(frames') > 0
      BY <3>3 DEF ConfTypeOK
    <3> QED BY <3>3, <3>6, <3>8, <3>9, <3>10 DEF ConfTypeOK
  <2> QED BY <2>1, <2>2
<1>6. ASSUME NEW line \in Lines, ReadLine(line), line.op = "close", CloseBlock
      PROVE  ConfTypeOK'
  <2>1. text' \in Seq(Lines)
    BY <1>6 DEF ConfTypeOK, ReadLine
  <2>2. CASE Len(frames) > 1
    <3>1. /\ frames' \in Seq(CallType) /\ Len(frames') = Len(frames) - 1
          /\ \A i \in 1..(Len(frames) - 1) : frames'[i].b = frames[i].b
          /\ child' = FALSE /\ verdict' = verdict /\ tree' = tree
      BY <1>6, <2>2, CloseFacts
    <3>2. Len(frames) \in Nat /\ Len(frames') > 0 /\ \A i \in 1..Len(frames') : i \in 1..Len(frames)
      BY <2>2, <3>1 DEF ConfTypeOK
    <3>3. \A i \in 1..Len(frames') : frames'[i].b < Len(tree')
      BY <3>1, <3>2 DEF ConfTypeOK
    <3> QED BY <2>1, <3>1, <3>2, <3>3 DEF ConfTypeOK
  <2>3. CASE ~(Len(frames) > 1)
    <3>1. SubSeq(frames, 1, Len(frames) - 1) = <<>>
      BY <2>3 DEF ConfTypeOK
    <3>2. child' = FALSE /\ tree' = tree /\ verdict' = "ok" /\ frames' = frames
      BY <1>6, <3>1 DEF CloseBlock, ChildAfterClose
    <3> QED BY <2>1, <3>2 DEF ConfTypeOK
  <2> QED BY <2>2, <2>3
<1>7. ASSUME EndOfFile PROVE ConfTypeOK'
  <2>1. /\ verdict' = Frame.ret /\ text' = text /\ frames' = frames /\ child' = child /\ tree' = tree
    BY <1>7 DEF EndOfFile
  <2>2. verdict' \in {"reading", "ok", "error"}
    BY <1>1, <2>1
  <2> QED BY <2>1, <2>2 DEF ConfTypeOK
<1>8. ASSUME UNCHANGED fileVars PROVE ConfTypeOK'
  <2>1. text' = text /\ frames' = frames /\ child' = child /\ tree' = tree /\ verdict' = verdict
    BY <1>8 DEF fileVars
  <2> QED BY <2>1 DEF ConfTypeOK
<1>9. ASSUME NEW line \in Lines, ReadLine(line) PROVE ConfTypeOK'
  BY <1>3, <1>4, <1>5, <1>6, <1>9 DEF ReadLine
<1> QED BY <1>7, <1>8, <1>9 DEF ConfNext

-----------------------------------------------------------------------------
(* The innermost of the calls fr. *)
Innermost(fr) == fr[Len(fr)]

(* The innermost block has no block in it yet. *)
Fresh(t, top, fr, ch) ==
  /\ ch /\ Innermost(fr).b = Number(t, top) /\ Filled(t, top)
  /\ top > 0 => Innermost(fr).runtime = t[top].name

(* The innermost block has blocks in it, and the last of them has ended. *)
Used(t, top, fr, ch) ==
  /\ ~ch /\ Innermost(fr).ret = "ok"
  /\ \E last \in Inside(t, top) :
       (\A k \in Inside(t, top) : k <= last) /\ Innermost(fr).b = Number(t, last)

(* There is one active call for the file and one for every open block, and *)
(* a call that waits for a nested one knows the block that one reads. *)
FramesMatch(t, sk, fr, ch) ==
  /\ Len(fr) = Depth(t, Len(t)) + 1
  /\ \A d \in 1..Depth(t, Len(t)) : fr[d].b = Number(t, sk[d]) /\ fr[d + 1].layers > 0
  /\ Inside(t, Top(t, sk)) = {} => Fresh(t, Top(t, sk), fr, ch)
  /\ Inside(t, Top(t, sk)) # {} => Used(t, Top(t, sk), fr, ch)

(* The calls fr and the flag ch are where the file is. *)
Follows(t, fr, ch) == \E sk : IsStack(t, sk) /\ FramesMatch(t, sk, fr, ch)

(* As long as the file is orderly the tree is the one it writes down, the  *)
(* active calls are those of its open blocks, and it is not refused.       *)
ConfInv ==
  Orderly(text) =>
    /\ TreeIs(tree, text)
    /\ verdict = "reading" => Follows(text, frames, child)
    /\ verdict = "error" => Depth(text, Len(text)) > 0 \/ text = <<>>

(* A directive of an orderly file finds the call of its block. *)
LEMMA FollowsSet ==
  ASSUME NEW t \in Seq(Lines), NEW line \in Lines, line.op = "set", Orderly(Append(t, line)),
         NEW fr, NEW ch, Follows(t, fr, ch)
  PROVE  /\ Follows(Append(t, line), fr, ch)
         /\ \E top \in Opens(t) :
              /\ top = Enclosing(t, Len(t) + 1) /\ Filled(t, top) /\ Innermost(fr).layers > 0
              /\ Innermost(fr).b = Number(t, top) /\ Innermost(fr).runtime = t[top].name
              /\ line.name \in Commands[t[top].name] /\ t[top].name \in BlockNames
<1> DEFINE n == Len(t)
<1>1. PICK u : u = Append(t, line)
  OBVIOUS
<1>2. PICK sk : IsStack(t, sk) /\ FramesMatch(t, sk, fr, ch)
  BY DEF Follows
<1>3. PICK top : top = Top(t, sk)
  OBVIOUS
<1>4. PICK D : D = Depth(t, n)
  OBVIOUS
<1>5. /\ Orderly(t) /\ Enclosing(t, n + 1) # 0
      /\ line.name \in Commands[t[Enclosing(t, n + 1)].name]
      /\ Inside(t, Enclosing(t, n + 1)) = {}
  BY OrderlyStep
<1>6. n \in Nat /\ n \in 0..n /\ Len(u) = n + 1
  BY <1>1
<1>7. D \in Nat
  BY <1>4, <1>5, <1>6, OrderlyDepth
<1>8. Enclosing(t, n + 1) = top /\ top \in 0..n /\ (D > 0 => top \in Opens(t)) /\ (D = 0 => top = 0)
  BY <1>2, <1>3, <1>4, <1>5, TopEncloses
<1>9. D > 0 /\ top \in Opens(t) /\ top > 0 /\ top \in 1..n
  <2>1. D > 0
    BY <1>5, <1>7, <1>8
  <2> QED BY <1>8, <2>1 DEF Opens
<1>10. Inside(t, top) = {} /\ line.name \in Commands[t[top].name] /\ t[top].name \in BlockNames
  BY <1>5, <1>8, <1>9 DEF Orderly
<1>11. /\ Len(fr) = D + 1 /\ ch /\ Innermost(fr).b = Number(t, top) /\ Filled(t, top)
       /\ Innermost(fr).runtime = t[top].name
       /\ \A d \in 1..D : fr[d].b = Number(t, sk[d]) /\ fr[d + 1].layers > 0
  BY <1>2, <1>3, <1>4, <1>9, <1>10 DEF FramesMatch, Fresh
<1>12. Innermost(fr).layers > 0
  <2>1. D \in 1..D
    BY <1>7, <1>9
  <2> QED BY <1>11, <2>1 DEF Innermost
<1>13. IsStack(u, sk) /\ Depth(u, n + 1) = D
  BY <1>1, <1>2, <1>4, <1>5, StackSet
<1>14. Depth(u, Len(u)) = D /\ Top(u, sk) = top
  BY <1>3, <1>4, <1>6, <1>13 DEF Top
<1>15. Inside(u, top) = {}
  BY <1>1, <1>8, <1>10, InsideStep
<1>16. SetsIn(t, line, top)
  BY <1>8 DEF SetsIn
<1>17. Filled(u, top)
  <2>1. n + 1 = top + Cardinality(Settings(u, top))
    BY <1>1, <1>9, <1>11, <1>16, NamesStep DEF Filled
  <2> QED BY <1>6, <2>1 DEF Filled
<1>18. \A i \in 0..n : Number(u, i) = Number(t, i)
  BY <1>1, NumberPrefix
<1>19. u[top] = t[top]
  BY <1>1, <1>9
<1>20. Fresh(u, top, fr, ch)
  BY <1>8, <1>11, <1>17, <1>18, <1>19 DEF Fresh
<1>21. \A d \in 1..D : fr[d].b = Number(u, sk[d]) /\ fr[d + 1].layers > 0
  <2>1. \A d \in 1..D : sk[d] \in 0..n
    <3>1. \A d \in 1..D : d \in 0..D
      BY <1>7
    <3> QED BY <1>2, <1>4, <3>1 DEF IsStack
  <2> QED BY <1>11, <1>18, <2>1
<1>22. FramesMatch(u, sk, fr, ch)
  BY <1>11, <1>14, <1>15, <1>20, <1>21 DEF FramesMatch
<1>23. Follows(u, fr, ch)
  BY <1>13, <1>22 DEF Follows
<1> QED BY <1>1, <1>8, <1>9, <1>10, <1>11, <1>12, <1>23

(* The opening of a block adds the call that reads it. *)
LEMMA FollowsOpen ==
  ASSUME NEW t \in Seq(Lines), NEW line \in Lines, line.op = "open", Orderly(Append(t, line)),
         NEW fr, NEW ch, Follows(t, fr, ch),
         NEW fs, Len(fs) = Len(fr) + 1, \A i \in 1..(Len(fr) - 1) : fs[i] = fr[i],
         fs[Len(fr)].b = Number(Append(t, line), Len(t) + 1), fs[Len(fr)].layers > 0,
         fs[Len(fr) + 1].b = Number(Append(t, line), Len(t) + 1), fs[Len(fr) + 1].layers > 0,
         fs[Len(fr) + 1].runtime = line.name
  PROVE  Follows(Append(t, line), fs, TRUE)
<1> DEFINE n == Len(t)
<1>1. PICK u : u = Append(t, line)
  OBVIOUS
<1>2. PICK sk : IsStack(t, sk) /\ FramesMatch(t, sk, fr, ch)
  BY DEF Follows
<1>3. PICK D : D = Depth(t, n)
  OBVIOUS
<1>4. Orderly(t)
  BY OrderlyStep
<1>5. n \in Nat /\ n \in 0..n /\ Len(u) = n + 1 /\ u \in Seq(Lines) /\ u[n + 1] = line
  BY <1>1
<1>6. D \in Nat
  BY <1>3, <1>4, <1>5, OrderlyDepth
<1>7. Len(fr) = D + 1 /\ \A d \in 1..D : fr[d].b = Number(t, sk[d]) /\ fr[d + 1].layers > 0
  BY <1>2, <1>3 DEF FramesMatch
<1>8. PICK sl : sl = [d \in 0..(D + 1) |-> IF d = D + 1 THEN n + 1 ELSE sk[d]]
  OBVIOUS
<1>9. IsStack(u, sl) /\ Depth(u, Len(u)) = D + 1
  BY <1>1, <1>2, <1>3, <1>4, <1>5, <1>8, StackOpen
<1>10. sl[D + 1] = n + 1 /\ \A d \in 1..D : sl[d] = sk[d] /\ sk[d] \in 0..n
  <2>1. sl[D + 1] = n + 1 /\ \A d \in 1..D : sl[d] = sk[d] /\ d \in 0..D
    BY <1>6, <1>8
  <2> QED BY <1>2, <1>3, <2>1 DEF IsStack
<1>11. Top(u, sl) = n + 1
  BY <1>9, <1>10 DEF Top
<1>12. Inside(u, n + 1) = {} /\ Settings(u, n + 1) = {}
  BY <1>5, InsideNew
<1>13. PICK v : v = Number(u, n + 1)
  OBVIOUS
<1>14. /\ fs[D + 1].b = v /\ fs[D + 1].layers > 0 /\ fs[D + 2].b = v /\ fs[D + 2].layers > 0
       /\ fs[D + 2].runtime = line.name /\ Len(fs) = D + 2 /\ \A i \in 1..D : fs[i] = fr[i]
  <2>1. PICK len : len = Len(fr)
    OBVIOUS
  <2>2. len = D + 1
    BY <1>7, <2>1
  <2>3. len + 1 = D + 2 /\ len - 1 = D
    BY <1>6, <2>2
  <2> QED BY <1>1, <1>13, <2>1, <2>2, <2>3
<1>15. Fresh(u, n + 1, fs, TRUE)
  <2>1. Innermost(fs) = fs[D + 2]
    BY <1>14 DEF Innermost
  <2>2. Filled(u, n + 1)
    <3>1. Cardinality(Settings(u, n + 1)) = 0
      BY <1>12, FS_EmptySet
    <3> QED BY <1>5, <3>1 DEF Filled
  <2> QED BY <1>5, <1>13, <1>14, <2>1, <2>2 DEF Fresh
<1>16. \A i \in 0..n : Number(u, i) = Number(t, i)
  BY <1>1, NumberPrefix
<1>17. ASSUME NEW d \in 1..(D + 1) PROVE fs[d].b = Number(u, sl[d]) /\ fs[d + 1].layers > 0
  <2>1. CASE d = D + 1
    <3>1. d + 1 = D + 2
      BY <1>6, <2>1
    <3> QED BY <1>10, <1>13, <1>14, <2>1, <3>1
  <2>2. CASE d # D + 1
    <3>1. d \in 1..D
      BY <1>6, <2>2
    <3>2. fs[d].b = Number(u, sl[d])
      BY <1>7, <1>10, <1>14, <1>16, <3>1
    <3>3. CASE d = D
      BY <1>14, <3>2, <3>3
    <3>4. CASE d # D
      <4>1. d + 1 \in 1..D
        BY <1>6, <3>1, <3>4
      <4> QED BY <1>7, <1>14, <3>1, <3>2, <4>1
    <3> QED BY <3>2, <3>3, <3>4
  <2> QED BY <2>1, <2>2
<1>18. D + 2 = (D + 1) + 1
  BY <1>6
<1>19. FramesMatch(u, sl, fs, TRUE)
  BY <1>9, <1>11, <1>12, <1>14, <1>15, <1>17, <1>18 DEF FramesMatch
<1>20. Follows(u, fs, TRUE)
  BY <1>9, <1>19 DEF Follows
<1> QED BY <1>1, <1>20

(* The end of a block takes the call away that read it. *)
LEMMA FollowsClose ==
  ASSUME NEW t \in Seq(Lines), NEW line \in Lines, line.op = "close", Orderly(Append(t, line)),
         NEW fr, NEW ch, Follows(t, fr, ch)
  PROVE  /\ Len(fr) > 1
         /\ \A fs : /\ Len(fs) = Len(fr) - 1 /\ fs[Len(fr) - 1].ret = "ok"
                    /\ \A i \in 1..(Len(fr) - 1) : fs[i].b = fr[i].b /\ fs[i].layers = fr[i].layers
                    => Follows(Append(t, line), fs, FALSE)
<1> DEFINE n == Len(t)
<1>1. PICK u : u = Append(t, line)
  OBVIOUS
<1>2. PICK sk : IsStack(t, sk) /\ FramesMatch(t, sk, fr, ch)
  BY DEF Follows
<1>3. PICK D : D = Depth(t, n)
  OBVIOUS
<1>4. Orderly(t) /\ Depth(u, n + 1) >= 0
  BY <1>1, OrderlyStep
<1>5. n \in Nat /\ n \in 0..n /\ Len(u) = n + 1
  BY <1>1
<1>6. D \in Nat
  BY <1>3, <1>4, <1>5, OrderlyDepth
<1>7. Len(fr) = D + 1 /\ \A d \in 1..D : fr[d].b = Number(t, sk[d]) /\ fr[d + 1].layers > 0
  BY <1>2, <1>3 DEF FramesMatch
<1>8. PICK sl : sl = [d \in 0..(D - 1) |-> sk[d]]
  OBVIOUS
<1>9. IsStack(u, sl) /\ Depth(u, Len(u)) = D - 1 /\ D > 0
  BY <1>1, <1>2, <1>3, <1>4, <1>5, <1>8, StackClose
<1>10. Len(fr) > 1 /\ Len(fr) - 1 = D
  BY <1>6, <1>7, <1>9
<1>11. D \in 1..D /\ D - 1 \in 0..(D - 1)
  BY <1>6, <1>9
<1>12. PICK top : top = sk[D - 1]
  OBVIOUS
<1>13. Top(u, sl) = top
  BY <1>8, <1>9, <1>11, <1>12 DEF Top
<1>14. PICK last : last = sk[D]
  OBVIOUS
<1>15. Held(t, last, D) /\ Enclosing(t, last) = top
  BY <1>2, <1>3, <1>11, <1>12, <1>14 DEF IsStack
<1>16. last \in Opens(t) /\ last \in 1..n /\ \A k \in last..n : Depth(t, k) >= D
  BY <1>15 DEF Held, Opens
<1>17. top \in 0..n
  <2>1. D - 1 \in 0..D
    BY <1>6, <1>9
  <2> QED BY <1>2, <1>3, <1>12, <2>1 DEF IsStack
<1>18. last \in Inside(t, top) /\ Inside(t, top) \subseteq Opens(t)
  BY <1>15, <1>16 DEF Inside
<1>19. ASSUME NEW k \in Inside(t, top) PROVE k <= last
  <2> SUFFICES ASSUME k > last PROVE FALSE
    <3>1. k \in Nat /\ last \in Nat
      BY <1>16, <1>18 DEF Opens
    <3> QED BY <3>1
  <2>1. k \in Opens(t) /\ Enclosing(t, k) = top /\ k \in 1..n /\ t[k].op = "open"
    BY DEF Inside, Opens
  <2>2. k \in 1..(n + 1) /\ k - 1 \in last..n /\ k \in Nat /\ k > 0 /\ k - 1 \in Nat
    BY <1>5, <1>16, <2>1
  <2>3. Depth(t, k - 1) >= D /\ Depth(t, k - 1) \in Int
    BY <1>16, <2>2, DepthType
  <2>4. CASE top # 0
    <3>1. Encloses(t, top, k)
      BY <2>1, <2>2, <2>4, EnclosingBefore
    <3>2. D # 1
      BY <1>2, <1>12, <2>4 DEF IsStack
    <3>3. D - 1 \in 1..D
      BY <1>6, <1>9, <3>2
    <3>4. Depth(t, top) = D - 1
      BY <1>2, <1>3, <1>12, <3>3 DEF IsStack, Held
    <3>5. Depth(t, k - 1) = D - 1
      BY <3>1, <3>4 DEF Encloses
    <3> QED BY <1>6, <2>3, <3>5
  <2>5. CASE top = 0
    <3>1. Depth(t, k - 1) > 0
      BY <1>6, <1>9, <2>3
    <3>2. PICK j \in Opens(t) : Encloses(t, j, k)
      BY <1>4, <2>2, <3>1, DeepEnclosed
    <3>3. Enclosing(t, k) = j /\ j # 0
      BY <2>2, <3>2, EnclosingIs DEF Opens
    <3> QED BY <2>1, <2>5, <3>3
  <2> QED BY <2>4, <2>5
<1>20. Inside(u, top) = Inside(t, top)
  BY <1>1, <1>17, InsideStep
<1>21. \A i \in 0..n : Number(u, i) = Number(t, i)
  BY <1>1, NumberPrefix
<1>22. ASSUME NEW fs, Len(fs) = D, fs[D].ret = "ok",
              \A i \in 1..D : fs[i].b = fr[i].b /\ fs[i].layers = fr[i].layers
       PROVE  Follows(u, fs, FALSE)
  <2>1. Innermost(fs) = fs[D]
    BY <1>22 DEF Innermost
  <2>2. fs[D].b = Number(u, last)
    <3>1. last \in 0..n
      BY <1>16
    <3> QED BY <1>7, <1>11, <1>14, <1>21, <1>22, <3>1
  <2>3. Used(u, top, fs, FALSE)
    BY <1>18, <1>19, <1>20, <1>22, <2>1, <2>2 DEF Used
  <2>4. ASSUME NEW d \in 1..(D - 1) PROVE fs[d].b = Number(u, sl[d]) /\ fs[d + 1].layers > 0
    <3>1. d \in 1..D /\ d + 1 \in 1..D /\ d \in 0..D /\ d \in 0..(D - 1)
      BY <1>6
    <3>2. sl[d] = sk[d] /\ sk[d] \in 0..n
      BY <1>2, <1>3, <1>8, <3>1 DEF IsStack
    <3>3. fs[d].b = Number(u, sl[d])
      BY <1>7, <1>21, <1>22, <3>1, <3>2
    <3>4. fs[d + 1].layers > 0
      BY <1>7, <1>22, <3>1
    <3> QED BY <3>3, <3>4
  <2>5. Inside(u, top) # {} /\ D = (D - 1) + 1
    BY <1>6, <1>18, <1>20
  <2>6. FramesMatch(u, sl, fs, FALSE)
    BY <1>9, <1>13, <1>22, <2>3, <2>4, <2>5 DEF FramesMatch
  <2> QED BY <1>9, <2>6 DEF Follows
<1> QED BY <1>1, <1>10, <1>22

(* Before the first line the tree is empty and one call is active. *)
LEMMA ConfInvInit ==
  ASSUME ConfInit
  PROVE  ConfInv
<1>1. PICK B : B = NewBlock(Unnamed)
  OBVIOUS
<1>2. B.child = NoBlock
  BY <1>1 DEF NewBlock
<1>3. PICK c : c = [b |-> 0, runtime |-> Unnamed, layers |-> 0, ret |-> "error"]
  OBVIOUS
<1>4. c.b = 0
  BY <1>3
<1>5. PICK t : t = text
  OBVIOUS
<1>6. t = <<>> /\ child = TRUE /\ verdict = "reading" /\ tree = <<B>> /\ frames = <<c>>
  BY <1>1, <1>3, <1>5, Zenon DEF ConfInit
<1>7. t \in Seq(Lines) /\ Len(t) = 0 /\ 0 \in 0..Len(t)
  BY <1>6
<1>8. Len(tree) = 1 /\ tree[1] = B /\ Len(frames) = 1 /\ frames[1] = c
  BY <1>6
<1>9. Number(t, 0) = 0 /\ Depth(t, 0) = 0
  BY <1>7, NumberStep, DepthZero
<1>10. Opens(t) = {}
  BY <1>7 DEF Opens
<1>11. Inside(t, 0) = {} /\ Settings(t, 0) = {}
  BY <1>7, InsideNew
<1>12. TreeIs(tree, t)
  <2>1. FirstOf(t, Inside(t, 0)) = NoBlock
    BY <1>11 DEF FirstOf
  <2>2. Len(tree) = Number(t, Len(t)) + 1
    BY <1>7, <1>8, <1>9
  <2>3. tree[1].child = FirstOf(t, Inside(t, 0))
    BY <1>2, <1>8, <2>1
  <2> QED BY <1>10, <2>2, <2>3 DEF TreeIs
<1>13. Follows(t, frames, child)
  <2>1. PICK sk : sk = [d \in 0..0 |-> 0]
    OBVIOUS
  <2>2. sk[0] = 0 /\ sk \in [0..0 -> 0..0]
    BY <2>1
  <2>3. Depth(t, Len(t)) = 0 /\ \A d \in 1..0 : FALSE
    BY <1>7, <1>9
  <2>4. IsStack(t, sk)
    BY <1>7, <2>2, <2>3 DEF IsStack
  <2>5. Top(t, sk) = 0
    BY <2>2, <2>3 DEF Top
  <2>6. Filled(t, 0)
    <3>1. Cardinality(Settings(t, 0)) = 0
      BY <1>11, FS_EmptySet
    <3> QED BY <1>7, <3>1 DEF Filled
  <2>7. Innermost(frames) = c
    BY <1>8 DEF Innermost
  <2>8. Fresh(t, 0, frames, child)
    BY <1>4, <1>6, <1>9, <2>6, <2>7 DEF Fresh
  <2>9. FramesMatch(t, sk, frames, child)
    BY <1>8, <1>11, <2>3, <2>5, <2>8 DEF FramesMatch
  <2> QED BY <2>4, <2>9 DEF Follows
<1> QED BY <1>5, <1>6, <1>12, <1>13 DEF ConfInv

(* A line of an orderly file is taken, and the tree has it in its place. *)
LEMMA ConfInvLine ==
  ASSUME ConfTypeOK, ConfInv, NEW line \in Lines, ReadLine(line), Orderly(Append(text, line))
  PROVE  /\ TreeIs(tree', Append(text, line)) /\ Follows(Append(text, line), frames', child')
         /\ verdict' = "reading"
<1>1. PICK t : t = text
  OBVIOUS
<1>2. t \in Seq(Lines) /\ tree \in Seq(BlockType) /\ frames \in Seq(CallType) /\ Len(frames) \in Nat
        /\ Len(frames) > 0
  BY <1>1 DEF ConfTypeOK
<1>3. PICK n : n = Len(t)
  OBVIOUS
<1>4. verdict = "reading"
  BY DEF ReadLine
<1>5. /\ Orderly(t) /\ line.op \notin {"bad", "other"}
      /\ line.op = "open" => line.name \in BlockNames
  BY <1>1, <1>2, OrderlyStep
<1>6. TreeIs(tree, t) /\ Follows(t, frames, child)
  BY <1>1, <1>4, <1>5 DEF ConfInv
<1>7. Frame = Innermost(frames)
  BY DEF Frame, Innermost
<1>8. CASE line.op = "set"
  <2>1. Directive(line)
    BY <1>8 DEF ReadLine
  <2>2. PICK x : x = line.name
    OBVIOUS
  <2>3. x \in Directives
    BY <1>8, <2>2 DEF Lines
  <2>4. Follows(Append(t, line), frames, child)
    BY <1>1, <1>2, <1>6, <1>8, FollowsSet
  <2>5. PICK top \in Opens(t) :
          /\ top = Enclosing(t, Len(t) + 1) /\ Filled(t, top) /\ Innermost(frames).layers > 0
          /\ Innermost(frames).b = Number(t, top) /\ Innermost(frames).runtime = t[top].name
          /\ line.name \in Commands[t[top].name] /\ t[top].name \in BlockNames
    BY <1>1, <1>2, <1>6, <1>8, FollowsSet
  <2>6. /\ ~(Frame.layers = 0) /\ ~(Frame.runtime = Unnamed) /\ ~(line.op = "bad")
        /\ ~(line.name \notin Commands[Frame.runtime])
    <3>1. Frame.layers > 0 /\ Frame.runtime = t[top].name /\ t[top].name \in BlockNames
      BY <1>7, <2>5
    <3>2. ~(Frame.runtime = Unnamed)
      BY <3>1, ConfAssumption
    <3>3. ~(Frame.layers = 0)
      BY <3>1
    <3>4. ~(line.op = "bad")
      BY <1>8
    <3>5. line.name \in Commands[Frame.runtime]
      BY <2>5, <3>1
    <3> QED BY <3>2, <3>3, <3>4, <3>5
  <2>7. tree' = AddName(tree, Frame.b + 1, x) /\ frames' = frames /\ child' = child /\ verdict' = verdict
    BY <2>1, <2>2, <2>6, Zenon DEF Directive, AddName
  <2>8. tree' = AddName(tree, Number(t, top) + 1, x)
    BY <1>7, <2>5, <2>7, Zenon
  <2>9. TreeIs(tree', Append(t, line))
    BY <1>2, <1>6, <1>8, <2>2, <2>3, <2>5, <2>8, TreeSet
  <2> QED BY <1>1, <1>4, <2>4, <2>7, <2>9
<1>9. CASE line.op = "open"
  <2>1. OpenBlock(line) /\ line.name \in BlockNames
    BY <1>5, <1>9 DEF ReadLine
  <2>2. PICK x \in BlockNames : x = line.name
    BY <2>1
  <2>3. PICK L : L = IF child THEN LinkChild(tree, Frame.b + 1, Len(tree))
                              ELSE LinkSibling(tree, Frame.b + 1, Len(tree))
    OBVIOUS
  <2>4. /\ tree' = Append(L, NewBlock(x))
        /\ Len(frames') = Len(frames) + 1
        /\ \A i \in 1..(Len(frames) - 1) : frames'[i] = frames[i]
        /\ frames'[Len(frames)] = Entered(Frame, Len(tree), x)
        /\ frames'[Len(frames) + 1] = Callee(Frame, Len(tree), x)
        /\ child' = TRUE /\ verdict' = verdict
    BY <2>1, <2>2, <2>3, OpenFacts, Zenon
  <2>5. Len(tree) \in Nat /\ Number(Append(t, line), Len(t) + 1) = Len(tree)
    BY <1>2, <1>6, <1>9, TreeIndex
  <2>6. Frame \in CallType /\ Frame.layers \in Nat
    <3>1. Frame \in CallType
      BY FrameType
    <3> QED BY <3>1 DEF CallType
  <2>7. /\ frames'[Len(frames)].b = Len(tree) /\ frames'[Len(frames) + 1].b = Len(tree)
        /\ frames'[Len(frames)].layers > 0 /\ frames'[Len(frames) + 1].layers > 0
        /\ frames'[Len(frames) + 1].runtime = x
    <3>1. PICK e : e = Entered(Frame, Len(tree), x)
      OBVIOUS
    <3>2. PICK w : w = Callee(Frame, Len(tree), x)
      OBVIOUS
    <3>3. /\ e.b = Len(tree) /\ w.b = Len(tree) /\ e.layers = Frame.layers + 1
          /\ w.layers = Frame.layers + 1 /\ w.runtime = x
      BY <2>5, <2>6, <3>1, <3>2, CallUpdate, ZenonT(40)
    <3>4. e.layers > 0 /\ w.layers > 0
      BY <2>6, <3>3
    <3> QED BY <2>4, <3>1, <3>2, <3>3, <3>4, Zenon
  <2>8. Follows(Append(t, line), frames', TRUE)
    <3>1. PICK fs : fs = frames'
      OBVIOUS
    <3>2. PICK u : u = Append(t, line)
      OBVIOUS
    <3>3. /\ Len(fs) = Len(frames) + 1 /\ \A i \in 1..(Len(frames) - 1) : fs[i] = frames[i]
          /\ fs[Len(frames)].b = Number(Append(t, line), Len(t) + 1) /\ fs[Len(frames)].layers > 0
          /\ fs[Len(frames) + 1].b = Number(Append(t, line), Len(t) + 1)
          /\ fs[Len(frames) + 1].layers > 0 /\ fs[Len(frames) + 1].runtime = line.name
      BY <2>2, <2>4, <2>5, <2>7, <3>1, Zenon
    <3>4. Orderly(Append(t, line))
      BY <1>1
    <3>5. Follows(Append(t, line), fs, TRUE)
      BY <1>2, <1>6, <1>9, <3>3, <3>4, FollowsOpen, Zenon
    <3> QED BY <3>1, <3>5
  <2>9. PICK sk : IsStack(t, sk) /\ FramesMatch(t, sk, frames, child)
    BY <1>6 DEF Follows
  <2>10. PICK top : top = Top(t, sk)
    OBVIOUS
  <2>11. Enclosing(t, Len(t) + 1) = top /\ (top = 0 \/ top \in Opens(t))
    <3>1. Len(t) \in 0..Len(t)
      BY <1>2
    <3>2. Depth(t, Len(t)) \in Nat
      BY <1>2, <1>5, <3>1, OrderlyDepth
    <3> QED BY <1>2, <1>5, <2>9, <2>10, <3>2, TopEncloses
  <2>12. TreeIs(tree', Append(t, line))
    <3>1. CASE Inside(t, top) = {}
      <4>1. child /\ Innermost(frames).b = Number(t, top)
        BY <2>9, <2>10, <3>1 DEF FramesMatch, Fresh
      <4>2. L = LinkChild(tree, Number(t, top) + 1, Len(tree))
        BY <1>7, <2>3, <4>1, Zenon
      <4>3. TreeIs(Append(L, NewBlock(line.name)), Append(t, line))
        BY <1>2, <1>6, <1>9, <2>1, <2>11, <3>1, <4>2, TreeChild
      <4> QED BY <2>2, <2>4, <4>3, Zenon
    <3>2. CASE Inside(t, top) # {}
      <4>1. ~child /\ \E last \in Inside(t, top) :
              (\A k \in Inside(t, top) : k <= last) /\ Innermost(frames).b = Number(t, last)
        BY <2>9, <2>10, <3>2 DEF FramesMatch, Used
      <4>2. PICK last \in Inside(t, top) :
              (\A k \in Inside(t, top) : k <= last) /\ Innermost(frames).b = Number(t, last)
        BY <4>1
      <4>3. L = LinkSibling(tree, Number(t, last) + 1, Len(tree))
        BY <1>7, <2>3, <4>1, <4>2, Zenon
      <4>4. TreeIs(Append(L, NewBlock(line.name)), Append(t, line))
        BY <1>2, <1>6, <1>9, <2>1, <2>11, <4>2, <4>3, TreeSibling
      <4> QED BY <2>2, <2>4, <4>4, Zenon
    <3> QED BY <3>1, <3>2
  <2> QED BY <1>1, <1>4, <2>4, <2>8, <2>12
<1>10. CASE line.op = "close"
  <2>1. CloseBlock
    BY <1>10 DEF ReadLine
  <2>2. Orderly(Append(t, line))
    BY <1>1
  <2>3. /\ Len(frames) > 1
        /\ \A fs : /\ Len(fs) = Len(frames) - 1 /\ fs[Len(frames) - 1].ret = "ok"
                   /\ \A i \in 1..(Len(frames) - 1) : fs[i].b = frames[i].b /\ fs[i].layers = frames[i].layers
                   => Follows(Append(t, line), fs, FALSE)
    BY <1>2, <1>6, <1>10, <2>2, FollowsClose
  <2>4. /\ Len(frames') = Len(frames) - 1 /\ frames'[Len(frames) - 1].ret = "ok"
        /\ \A i \in 1..(Len(frames) - 1) :
             frames'[i].b = frames[i].b /\ frames'[i].layers = frames[i].layers
        /\ child' = FALSE /\ verdict' = verdict /\ tree' = tree
    BY <2>1, <2>3, CloseFacts
  <2>5. Follows(Append(t, line), frames', FALSE)
    BY <2>3, <2>4, Zenon
  <2>6. TreeIs(tree, Append(t, line))
    BY <1>2, <1>6, <1>10, TreeClose
  <2> QED BY <1>1, <1>4, <2>4, <2>5, <2>6
<1>11. line.op \in {"set", "open", "close"}
  BY <1>5 DEF ReadLine
<1> QED BY <1>8, <1>9, <1>10, <1>11

(* The end of an orderly file whose blocks are closed refuses an empty one only. *)
LEMMA ConfInvEnd ==
  ASSUME ConfTypeOK, ConfInv, verdict = "reading", Orderly(text), Depth(text, Len(text)) = 0,
         Frame.ret # "ok"
  PROVE  text = <<>>
<1>1. PICK t : t = text
  OBVIOUS
<1>2. t \in Seq(Lines) /\ Orderly(t) /\ Depth(t, Len(t)) = 0
  BY <1>1 DEF ConfTypeOK
<1>3. PICK sk : IsStack(t, sk) /\ FramesMatch(t, sk, frames, child)
  BY <1>1 DEF ConfInv, Follows
<1>4. Top(t, sk) = 0
  BY <1>2, <1>3, TopEncloses
<1>5. Frame = Innermost(frames)
  BY DEF Frame, Innermost
<1>6. Filled(t, 0)
  BY <1>3, <1>4, <1>5 DEF FramesMatch, Fresh, Used
<1>7. Settings(t, 0) = {}
  BY <1>2 DEF Settings, Orderly
<1>8. Cardinality(Settings(t, 0)) = 0
  BY <1>7, FS_EmptySet
<1>9. Len(t) = 0
  BY <1>6, <1>8 DEF Filled
<1>10. t = <<>>
  BY <1>2, <1>9
<1> QED BY <1>1, <1>10

(* Every step keeps the parser where the file is. *)
LEMMA ConfInvNext ==
  ASSUME ConfTypeOK, ConfInv, [ConfNext]_fileVars
  PROVE  ConfInv'
<1>1. ASSUME NEW line \in Lines, ReadLine(line) PROVE ConfInv'
  <2> SUFFICES ASSUME Orderly(text')
               PROVE  /\ TreeIs(tree', text') /\ verdict' = "reading"
                      /\ Follows(text', frames', child')
    BY Zenon DEF ConfInv
  <2>1. text' = Append(text, line)
    BY <1>1 DEF ReadLine
  <2>2. Orderly(Append(text, line))
    BY <2>1
  <2>3. /\ TreeIs(tree', Append(text, line)) /\ Follows(Append(text, line), frames', child')
        /\ verdict' = "reading"
    BY <1>1, <2>2, ConfInvLine
  <2> QED BY <2>1, <2>3
<1>2. ASSUME EndOfFile PROVE ConfInv'
  <2>1. /\ verdict = "reading" /\ verdict' = Frame.ret /\ text' = text /\ frames' = frames
        /\ child' = child /\ tree' = tree
    BY <1>2 DEF EndOfFile
  <2>2. Frame.ret \in {"ok", "error"}
    BY FrameType
  <2> SUFFICES ASSUME Orderly(text)
               PROVE  TreeIs(tree, text)
                        /\ (verdict' = "error" => Depth(text, Len(text)) > 0 \/ text = <<>>)
    BY <2>1, <2>2 DEF ConfInv
  <2>3. TreeIs(tree, text)
    BY DEF ConfInv
  <2>4. ASSUME verdict' = "error", ~(Depth(text, Len(text)) > 0) PROVE text = <<>>
    <3>1. Len(text) \in 0..Len(text) /\ text \in Seq(Lines)
      BY DEF ConfTypeOK
    <3>2. Depth(text, Len(text)) \in Nat
      BY <3>1, OrderlyDepth
    <3>3. Depth(text, Len(text)) = 0
      BY <2>4, <3>2
    <3> QED BY <2>1, <2>4, <3>3, ConfInvEnd
  <2> QED BY <2>3, <2>4
<1>3. ASSUME UNCHANGED fileVars PROVE ConfInv'
  <2>1. text' = text /\ frames' = frames /\ child' = child /\ tree' = tree /\ verdict' = verdict
    BY <1>3 DEF fileVars
  <2> QED BY <2>1 DEF ConfInv
<1> QED BY <1>1, <1>2, <1>3 DEF ConfNext

(***************************************************************************)
(* sls_conf_parse_block(), for every table of directives and every file:   *)
(* a file whose blocks have their directives first is never refused before *)
(* its end, and once its brackets are closed the published tree is the one *)
(* it writes down, however blocks are nested.  The flag `child` the calls  *)
(* share and the b each of them keeps agree with the open blocks after     *)
(* every line.                                                             *)
(***************************************************************************)
THEOREM TreeIsAsWritten == ConfSpec => []TreeAsWritten
<1>1. ConfInit => ConfTypeOK /\ ConfInv
  BY ConfTypeInit, ConfInvInit
<1>2. ConfTypeOK /\ ConfInv /\ [ConfNext]_fileVars => (ConfTypeOK /\ ConfInv)'
  BY ConfTypeNext, ConfInvNext
<1>3. ConfTypeOK /\ ConfInv => TreeAsWritten
  BY DEF ConfInv, TreeAsWritten, TreeIs
<1> QED BY <1>1, <1>2, <1>3, PTL DEF ConfSpec
=============================================================================
