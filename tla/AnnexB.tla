------------------------------- MODULE AnnexB -------------------------------
(***************************************************************************)
(* How the timecode scanner finds a message in the bytes of an access unit *)
(* (SLSTimecode.cpp): the walk over start codes, the NAL headers of the    *)
(* two codecs, the removal of emulation prevention, the byte-coded type    *)
(* and size of SEI messages, and the parameter set that is in force.  Two  *)
(* byte values are parameters, so that they can be scaled down: FF is      *)
(* 0xFF, by which a size or a type counts, Stop the 0x80 of the trailing   *)
(* bits.  The bit fields of a parameter set and of a timing message are    *)
(* parameters too: what the parsers make of the bytes they are given.      *)
(*                                                                         *)
(* An access unit is given as what the encoder means: a sequence of NALs,  *)
(* each a header and either SEI messages or opaque payload.  Encode() is   *)
(* the standard's side of it; the rest is the code's.                      *)
(***************************************************************************)
EXTENDS Integers, Sequences

CONSTANTS
  FF, Stop,
  Headers,         \* of each codec, the NAL headers that occur
  Contents,        \* SEI payloads and opaque NAL payloads, sequences of bytes
  Types,           \* payloadType values that occur
  Want,            \* of each codec, the payloadType of its timecode
  SpsOf,           \* the RBSPs accepted as H.264 parameter sets: their contexts
  PicTiming,       \* of each context, the payloads accepted: their timecodes
  TimeCode,        \* the HEVC payloads accepted: their timecodes
  MaxNals

Codecs == {"h264", "hevc"}
Contexts == DOMAIN PicTiming
NoContext == "none"
None == -1

(* Both header bytes of HEVC, the one byte of H.264.                       *)
HeaderLen(codec) == IF codec = "hevc" THEN 2 ELSE 1

ASSUME AnnexBAssumption ==
  /\ FF \in Nat /\ FF > 3 /\ Stop \in 1..FF
  /\ Headers \in [Codecs -> SUBSET Seq(0..255)]
  /\ \A codec \in Codecs : \A h \in Headers[codec] :
       Len(h) = HeaderLen(codec) /\ h[HeaderLen(codec)] # 0
  /\ Contents \subseteq Seq(0..FF) /\ Types \subseteq Nat /\ Want \in [Codecs -> Types]
  /\ NoContext \in Contexts
  /\ \A rbsp \in DOMAIN SpsOf : SpsOf[rbsp] \in Contexts
  /\ \A ctx \in Contexts : \A body \in DOMAIN PicTiming[ctx] : PicTiming[ctx][body] \in Nat
  /\ DOMAIN PicTiming[NoContext] = {}
  /\ \A body \in DOMAIN TimeCode : TimeCode[body] \in Nat
  /\ MaxNals \in Nat

Least(S) == CHOOSE k \in S : \A j \in S : k <= j

-----------------------------------------------------------------------------
(* The NAL types, and the parsers by what they accept.                     *)
NalType(codec, nal) == IF codec = "hevc" THEN (nal[1] \div 2) % 64 ELSE nal[1] % 32

IsSei(codec, nal) == NalType(codec, nal) \in IF codec = "hevc" THEN {39, 40} ELSE {6}
IsSps(codec, nal) == codec = "h264" /\ NalType(codec, nal) = 7

(* A parameter set that cannot be read leaves the one before in force.     *)
SpsContext(ctx, rbsp) == IF rbsp \in DOMAIN SpsOf THEN SpsOf[rbsp] ELSE ctx

(* The timecode of a payload, None if the parser refuses it.               *)
TimecodeOf(codec, ctx, body) ==
  LET table == IF codec = "hevc" THEN TimeCode ELSE PicTiming[ctx]
  IN  IF body \in DOMAIN table THEN table[body] ELSE None

Messages == [type : Types, body : Contents]
Nals(codec) ==
  [header : {h \in Headers[codec] : IsSei(codec, h)},
   msgs : {<<m>> : m \in Messages} \cup {<<m, n>> : m, n \in Messages}, body : {<<>>}]
    \cup [header : {h \in Headers[codec] : ~IsSei(codec, h)}, msgs : {<<>>}, body : Contents]

-----------------------------------------------------------------------------
(* The encoder: ISO/IEC 14496-10 7.3.2.3 and Annex B.                      *)

(* A number is a run of FF bytes and the rest.                             *)
FFs(n) == CHOOSE q \in 0..n : FF * q <= n /\ n < FF * q + FF
ByteCoded(n) == [k \in 1..(FFs(n) + 1) |-> IF k <= FFs(n) THEN FF ELSE n - FF * FFs(n)]

EscapeByte(acc, b) ==
  IF acc.zeros = 2 /\ b <= 3
    THEN [out |-> acc.out \o <<3, b>>, zeros |-> IF b = 0 THEN 1 ELSE 0]
    ELSE [out |-> Append(acc.out, b), zeros |-> IF b = 0 THEN acc.zeros + 1 ELSE 0]

Escaped(bytes) ==
  LET acc[i \in 0..Len(bytes)] ==
        IF i = 0 THEN [out |-> <<>>, zeros |-> 0] ELSE EscapeByte(acc[i - 1], bytes[i])
  IN  acc[Len(bytes)].out

Coded(m) == ByteCoded(m.type) \o ByteCoded(Len(m.body)) \o m.body

Payload(nal) ==
  CASE Len(nal.msgs) = 0 -> nal.body
    [] Len(nal.msgs) = 1 -> Coded(nal.msgs[1])
    [] Len(nal.msgs) = 2 -> Coded(nal.msgs[1]) \o Coded(nal.msgs[2])

EncodedNal(nal) == nal.header \o Escaped(Append(Payload(nal), Stop))

(* Each NAL behind a start code of three or four bytes.                    *)
StartCode(k, longs) == IF k \in longs THEN <<0, 0, 0, 1>> ELSE <<0, 0, 1>>

AddNal(bytes, k, units, longs) == bytes \o StartCode(k, longs) \o EncodedNal(units[k])

Encode(units, longs) ==
  LET upto[k \in 0..Len(units)] ==
        IF k = 0 THEN <<>> ELSE AddNal(upto[k - 1], k, units, longs)
  IN  upto[Len(units)]

-----------------------------------------------------------------------------
(* The code.  An index is that of the first byte, from 1.                  *)

(* The emulation byte would be dropped after any two zeros of the NAL.     *)
UnescapeByte_KeepsZeros(acc, b) ==
  IF acc.zeros >= 2 /\ b = 3 THEN acc
  ELSE [out |-> Append(acc.out, b), zeros |-> IF b = 0 THEN acc.zeros + 1 ELSE 0]

UnescapeByte(acc, b) ==
  IF acc.zeros >= 2 /\ b = 3 THEN [out |-> acc.out, zeros |-> 0]
  ELSE [out |-> Append(acc.out, b), zeros |-> IF b = 0 THEN acc.zeros + 1 ELSE 0]

rbsp_unescape(src) ==
  LET acc[i \in 0..Len(src)] ==
        IF i = 0 THEN [out |-> <<>>, zeros |-> 0] ELSE UnescapeByte(acc[i - 1], src[i])
  IN  acc[Len(src)].out

(* The first byte of the NAL behind a start code at i, 0 if there is none. *)
is_start_code(b, i) ==
  IF i + 2 > Len(b) THEN 0
  ELSE IF b[i] # 0 \/ b[i + 1] # 0 THEN 0
  ELSE IF b[i + 2] = 1 THEN i + 3
  ELSE IF i + 3 > Len(b) THEN 0
  ELSE IF b[i + 2] = 0 /\ b[i + 3] = 1 THEN i + 4 ELSE 0

(* Where the NAL that starts at i ends: at the next start code, or at the  *)
(* end of the buffer.                                                      *)
NalEnd(b, i) ==
  LET ends == {k \in i..(Len(b) - 2) : is_start_code(b, k) # 0}
  IN  IF ends = {} THEN Len(b) + 1 ELSE Least(ends)

(* A byte-coded number at pos: its value, and the position behind it, 0    *)
(* when the bytes end first.                                               *)
ReadCoded(rbsp, pos) ==
  LET stops == {k \in pos..Len(rbsp) : rbsp[k] # FF}
  IN  IF stops = {} THEN [value |-> 0, next |-> 0]
      ELSE [value |-> FF * (Least(stops) - pos) + rbsp[Least(stops)], next |-> Least(stops) + 1]

(* The message at pos: its type, and where its payload is.  None is there  *)
(* (from = 0) at the stop byte and where the bytes end first.              *)
NoMessage == [type |-> 0, from |-> 0, size |-> 0]

MessageAt(rbsp, pos) ==
  LET type == ReadCoded(rbsp, pos)
      size == ReadCoded(rbsp, type.next)
  IN  IF rbsp[pos] = Stop /\ pos = Len(rbsp) THEN NoMessage
      ELSE IF type.next = 0 THEN NoMessage
      ELSE IF size.next = 0 \/ size.value > Len(rbsp) + 1 - size.next THEN NoMessage
      ELSE [type |-> type.value, from |-> size.next, size |-> size.value]

(* One round of the message loop, which is left by going to the end; a     *)
(* refused message is passed over.                                         *)
SeiRound(codec, ctx, rbsp, s) ==
  LET m == MessageAt(rbsp, s.pos)
      tc == IF m.type = Want[codec]
              THEN TimecodeOf(codec, ctx, SubSeq(rbsp, m.from, m.from + m.size - 1)) ELSE None
  IN  IF s.pos > Len(rbsp) THEN s
      ELSE IF m.from = 0 THEN [pos |-> Len(rbsp) + 1, found |-> None]
      ELSE IF tc # None THEN [pos |-> Len(rbsp) + 1, found |-> tc]
      ELSE [pos |-> m.from + m.size, found |-> None]

(* The first timecode, None if there is none: every round passes a byte at *)
(* least.                                                                  *)
scan_sei_messages(codec, ctx, rbsp) ==
  LET after[r \in 0..Len(rbsp)] ==
        IF r = 0 THEN [pos |-> 1, found |-> None] ELSE SeiRound(codec, ctx, rbsp, after[r - 1])
  IN  after[Len(rbsp)].found

(* The timecode a NAL yields, and the context behind it.                   *)
scan_nal(codec, ctx, nal) ==
  LET rbsp == rbsp_unescape(SubSeq(nal, HeaderLen(codec) + 1, Len(nal)))
  IN  IF Len(nal) <= HeaderLen(codec) THEN [ctx |-> ctx, found |-> None]
      ELSE IF IsSps(codec, nal) THEN [ctx |-> SpsContext(ctx, rbsp), found |-> None]
      ELSE IF IsSei(codec, nal) THEN [ctx |-> ctx, found |-> scan_sei_messages(codec, ctx, rbsp)]
      ELSE [ctx |-> ctx, found |-> None]

(* One round of the walk over the access unit: the first timecode wins,    *)
(* the NALs behind it are walked all the same.                             *)
NalRound(codec, b, s) ==
  LET begin == is_start_code(b, s.pos)
      end == NalEnd(b, begin)
      here == IF end > begin THEN scan_nal(codec, s.ctx, SubSeq(b, begin, end - 1))
                             ELSE [ctx |-> s.ctx, found |-> None]
  IN  IF s.pos + 2 > Len(b) THEN s
      ELSE IF begin = 0 THEN [s EXCEPT !.pos = s.pos + 1]
      ELSE [pos |-> end, ctx |-> here.ctx,
            found |-> IF s.found = None THEN here.found ELSE s.found]

scan_au_prefix(codec, ctx, b) ==
  LET after[r \in 0..Len(b)] ==
        IF r = 0 THEN [pos |-> 1, ctx |-> ctx, found |-> None] ELSE NalRound(codec, b, after[r - 1])
  IN  [ctx |-> after[Len(b)].ctx, found |-> after[Len(b)].found]

-----------------------------------------------------------------------------
(* One access unit after the other, built NAL by NAL, in one coding and    *)
(* with the context that earlier ones left.                                *)
VARIABLES coding, known, nals, long

auVars == <<coding, known, nals, long>>

AnnexBInit ==
  /\ coding \in Codecs /\ known \in Contexts /\ (coding = "hevc" => known = NoContext)
  /\ nals = <<>> /\ long = {}

NextNal(nal) ==
  /\ Len(nals) < MaxNals
  /\ nals' = Append(nals, nal)
  /\ long' \in {long, long \cup {Len(nals) + 1}}
  /\ UNCHANGED <<coding, known>>

AnnexBNext == \E nal \in Nals(coding) : NextNal(nal)

AnnexBSpec == AnnexBInit /\ [][AnnexBNext]_auVars

-----------------------------------------------------------------------------
(* What the encoder means.  In force in front of the k-th NAL is the last  *)
(* parameter set before it that can be read.                               *)
Rbsp(nal) == Append(nal.body, Stop)

SetsBefore(codec, units, k) ==
  {j \in 1..(k - 1) : IsSps(codec, units[j].header) /\ Rbsp(units[j]) \in DOMAIN SpsOf}

InForce(codec, ctx, units, k) ==
  LET sets == SetsBefore(codec, units, k)
      last == CHOOSE j \in sets : \A i \in sets : i <= j
  IN  IF sets = {} THEN ctx ELSE SpsOf[Rbsp(units[last])]

(* The timecode of the picture is the first message of the wanted type     *)
(* that can be read with what is in force.                                 *)
Wanted(codec, ctx, msgs) ==
  {i \in 1..Len(msgs) : msgs[i].type = Want[codec] /\ TimecodeOf(codec, ctx, msgs[i].body) # None}

FirstWanted(codec, ctx, msgs) ==
  TimecodeOf(codec, ctx, msgs[Least(Wanted(codec, ctx, msgs))].body)

Carriers(codec, ctx, units) ==
  {k \in 1..Len(units) : Wanted(codec, InForce(codec, ctx, units, k), units[k].msgs) # {}}

Meant(codec, ctx, units) ==
  LET k == Least(Carriers(codec, ctx, units))
  IN  IF Carriers(codec, ctx, units) = {} THEN None
      ELSE FirstWanted(codec, InForce(codec, ctx, units, k), units[k].msgs)

(* scan_au_prefix() yields the timecode the encoder means, and leaves the  *)
(* last parameter set in force, in H.264 and in HEVC: start codes inside   *)
(* the payload, emulation prevention, FF runs in type and size, refused    *)
(* messages, other messages and NALs in front of it do not shift a bit.    *)
FirstTimecodeFound ==
  scan_au_prefix(coding, known, Encode(nals, long)) =
    [ctx |-> InForce(coding, known, nals, Len(nals) + 1), found |-> Meant(coding, known, nals)]
=============================================================================
