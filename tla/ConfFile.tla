------------------------------ MODULE ConfFile ------------------------------
(***************************************************************************)
(* The configuration parser (conf.cpp): sls_conf_parse_block() reads the   *)
(* file line by line, one call per block, and links the blocks it creates  *)
(* by child and sibling.  The calls share `child`; each has a b and a      *)
(* p_runtime of its own, and both are the nested block's once a nested     *)
(* block has been read.  A line is what is left of it without comment and  *)
(* blanks: a directive, the opening of a block, its end, or anything else. *)
(***************************************************************************)
EXTENDS Integers, Sequences, FiniteSets

CONSTANTS
  Commands,        \* [block kinds -> the directives of its conf_cmd table]
  MaxConfLines     \* bound: lines of a file

BlockNames == DOMAIN Commands
Directives == UNION {Commands[k] : k \in BlockNames}
Unnamed == ""
NoBlock == 0       \* a null pointer

ASSUME ConfAssumption == Unnamed \notin BlockNames

(* A value the directive's setter refuses (type, range, port list, ACL     *)
(* entry, empty upstreams) makes it a bad directive.                       *)
Lines ==
  [op : {"set", "bad"}, name : Directives] \cup [op : {"open"}, name : BlockNames \cup {"?"}]
    \cup [op : {"close", "other"}, name : {Unnamed}]

VARIABLES
  text,            \* the lines read
  frames,          \* the active calls of sls_conf_parse_block()
  child,           \* the flag they share
  tree,            \* the blocks, in the order of creation, behind sls_first_conf
  verdict          \* "reading", "ok" or "error"

fileVars == <<text, frames, child, tree, verdict>>

NewBlock(kind) == [kind |-> kind, child |-> NoBlock, sibling |-> NoBlock, set |-> <<>>]

(* Block b is tree[b + 1]: b = 0 is sls_first_conf.                        *)
ConfInit ==
  /\ text = <<>> /\ child = TRUE /\ verdict = "reading"
  /\ tree = <<NewBlock(Unnamed)>>
  /\ frames = <<[b |-> 0, runtime |-> Unnamed, layers |-> 0, ret |-> "error"]>>

Frame == frames[Len(frames)]

Reject == verdict' = "error" /\ UNCHANGED <<frames, child, tree>>

-----------------------------------------------------------------------------
(* A directive goes to b, by the table of p_runtime.                       *)
Directive(line) ==
  IF \/ Frame.layers = 0 \/ Frame.runtime = Unnamed
     \/ line.op = "bad" \/ line.name \notin Commands[Frame.runtime]
  THEN Reject
  ELSE /\ tree' = [tree EXCEPT ![Frame.b + 1].set = Append(@, line.name)]
       /\ UNCHANGED <<frames, child, verdict>>

OpenBlock(line) ==
  LET new == Len(tree)
      linked == IF child THEN [tree EXCEPT ![Frame.b + 1].child = new]
                         ELSE [tree EXCEPT ![Frame.b + 1].sibling = new]
      mine == [Frame EXCEPT !.b = new, !.runtime = line.name, !.layers = @ + 1]
  IN  IF line.name \notin BlockNames THEN Reject
      ELSE /\ tree' = Append(linked, NewBlock(line.name))
           /\ frames' = Append([frames EXCEPT ![Len(frames)] = mine], [mine EXCEPT !.ret = "error"])
           /\ child' = TRUE /\ UNCHANGED verdict

(* The end of a block would leave the flag as it is.                       *)
ChildAfterClose_Kept == child
ChildAfterClose == FALSE

CloseBlock ==
  LET outer == SubSeq(frames, 1, Len(frames) - 1)
  IN  /\ child' = ChildAfterClose /\ UNCHANGED tree
      /\ IF outer = <<>>
           THEN verdict' = "ok" /\ UNCHANGED frames
           ELSE /\ frames' = [outer EXCEPT ![Len(outer)].ret = "ok"]
                /\ UNCHANGED verdict

ReadLine(line) ==
  /\ verdict = "reading" /\ Len(text) < MaxConfLines
  /\ text' = Append(text, line)
  /\ \/ line.op \in {"set", "bad"} /\ Directive(line)
     \/ line.op = "open" /\ OpenBlock(line)
     \/ line.op = "close" /\ CloseBlock
     \/ line.op = "other" /\ Reject

(* At the end of the file every active call returns what the innermost one *)
(* has.                                                                    *)
EndOfFile ==
  /\ verdict = "reading"
  /\ verdict' = Frame.ret
  /\ UNCHANGED <<text, frames, child, tree>>

ConfNext == (\E line \in Lines : ReadLine(line)) \/ EndOfFile

ConfSpec == ConfInit /\ [][ConfNext]_fileVars

-----------------------------------------------------------------------------
(* What a file of lines t means, by its brackets.                          *)
Depth(t, i) == Cardinality({j \in 1..i : t[j].op = "open"})
                 - Cardinality({j \in 1..i : t[j].op = "close"})

Opens(t) == {i \in 1..Len(t) : t[i].op = "open"}

(* The line that opened the block line i is in, 0 at the top.              *)
Encloses(t, j, i) == /\ j < i /\ Depth(t, j) = Depth(t, i - 1)
                     /\ \A k \in j..(i - 1) : Depth(t, k) >= Depth(t, j)

Enclosing(t, i) ==
  IF \E j \in Opens(t) : Encloses(t, j, i) THEN CHOOSE j \in Opens(t) : Encloses(t, j, i) ELSE 0

(* The blocks and the directives of the block that line i opens.           *)
Inside(t, i) == {j \in Opens(t) : Enclosing(t, j) = i}
Settings(t, i) == {j \in 1..Len(t) : t[j].op = "set" /\ Enclosing(t, j) = i}

Number(t, i) == Cardinality({j \in Opens(t) : j <= i})

FirstOf(t, lines) ==
  IF lines = {} THEN NoBlock ELSE Number(t, CHOOSE j \in lines : \A k \in lines : j <= k)

(* Brackets match so far, names are known, and the directives of a block   *)
(* precede the blocks in it.                                               *)
Orderly(t) ==
  /\ \A i \in 1..Len(t) : t[i].op \notin {"bad", "other"} /\ Depth(t, i) >= 0
  /\ \A i \in Opens(t) : t[i].name \in BlockNames
  /\ \A i \in 1..Len(t) : t[i].op = "set" =>
       LET e == Enclosing(t, i)
       IN  e # 0 /\ t[i].name \in Commands[t[e].name] /\ \A j \in Inside(t, e) : j > i

(* The directives of a block are then the lines behind its opening.        *)
MeantBlock(t, i) ==
  [kind |-> t[i].name, child |-> FirstOf(t, Inside(t, i)),
   sibling |-> FirstOf(t, {j \in Inside(t, Enclosing(t, i)) : j > i}),
   set |-> [k \in 1..Cardinality(Settings(t, i)) |-> t[i + k].name]]

(* sls_conf_parse_block(): a file whose blocks have their directives first *)
(* is never refused before its end, and once its brackets are closed the   *)
(* tree that is published is the one it writes down, every directive on    *)
(* its own block and every block in its place, however blocks are nested.  *)
TreeAsWritten ==
  Orderly(text) =>
    /\ verdict = "error" => Depth(text, Len(text)) > 0 \/ text = <<>>
    /\ \A i \in Opens(text) :
         Depth(text, Len(text)) = 0 => tree[Number(text, i) + 1] = MeantBlock(text, i)
    /\ Depth(text, Len(text)) = 0 => tree[1].child = FirstOf(text, Inside(text, 0))
=============================================================================
