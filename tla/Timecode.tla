------------------------------ MODULE Timecode ------------------------------
(***************************************************************************)
(* The timecode scanner of a stream (SLSTimecode.cpp) and the encoder it   *)
(* listens to.  The encoder sends program tables and access units, may     *)
(* start a new programme between two pictures (another table, PID, codec   *)
(* or parameter set), and the scanner may join in the middle.  Any packet  *)
(* may be lost on the way, or marked as damaged, and is then skipped.      *)
(*                                                                         *)
(* A payload is a sequence of cells.  "sps", "idr", "slice" and "sei" begin *)
(* a NAL ("slice" is any that is neither of the others); "rest" goes on    *)
(* with the NAL before it, so that an SEI, which is whole with one "rest", *)
(* can straddle packets.  A "rest" behind a lost packet is "stray": its    *)
(* bytes read as the rest of whatever the scanner has last.  A cell says   *)
(* which picture it belongs to and under which programme it was coded.     *)
(* AnnexB has the bytes.                                                   *)
(***************************************************************************)
EXTENDS Integers, Sequences

CONSTANTS
  Programmes,      \* [pmt, video, codec, layout] of the programmes on offer
  Pictures,        \* picture layouts: sequences of packets of cell kinds
  PrefixMax,       \* SLS_TC_AU_PREFIX_MAX, in cells
  MaxPictures      \* bound: access units sent

NoPid == 0
NoPts == -1
NoLayout == "none"

ASSUME TimecodeAssumption ==
  /\ Programmes \subseteq [pmt : Nat, video : Nat, codec : {"h264", "hevc"}, layout : STRING]
  /\ Pictures \subseteq Seq(Seq({"sps", "sei", "rest", "idr", "slice"}))
  \* the packet with the PES header has the first data of its picture, and
  \* a parameter set comes first
  /\ \A packets \in Pictures :
       /\ Len(packets) >= 1 /\ Len(packets[1]) >= 1 /\ packets[1][1] # "rest"
       /\ \A i \in 1..Len(packets) : \A j \in 1..Len(packets[i]) :
            packets[i][j] = "sps" => i = 1 /\ j = 1
  /\ PrefixMax \in Nat \ {0} /\ MaxPictures \in Nat

VARIABLES
  programme,       \* what the encoder sends
  picture,         \* number of the access unit it sends
  pending,         \* the packets of it that are still to come
  header,          \* its PES header: a PTS, none, or not a video header
  st,              \* ts_timecode_state
  missed,          \* what the scanner did not get: "start", "part" of the
                   \* access unit, its parameter set, the table of its codec
  out              \* the published timecode: whose it is, the PTS beside it,
                   \* and what had been missed

timecodeVars == <<programme, picture, pending, header, st, missed, out>>

NothingKnown == [pmt_pid |-> NoPid, video_pid |-> NoPid, codec |-> "none",
                 sps |-> NoLayout, au |-> <<>>, au_open |-> FALSE, au_pts |-> NoPts]

TimecodeInit ==
  /\ programme \in Programmes
  /\ picture = 0 /\ pending = <<>> /\ header = "none"
  /\ st = NothingKnown
  /\ missed = {} /\ out = [picture |-> NoPts, pts |-> NoPts, missed |-> {}]

-----------------------------------------------------------------------------
(* Tables.  A table that differs from what is known makes everything       *)
(* learned under the old one stale.                                        *)
parse_pat(pmt) ==
  IF pmt = st.pmt_pid THEN st ELSE [NothingKnown EXCEPT !.pmt_pid = pmt, !.au_pts = st.au_pts]

(* The parameter set of the old stream would outlive a change.             *)
Relearned_KeepsSps(video, codec) ==
  [st EXCEPT !.video_pid = video, !.codec = codec, !.au_open = FALSE, !.au = <<>>]

Relearned(video, codec) ==
  [st EXCEPT !.video_pid = video, !.codec = codec, !.sps = NoLayout,
             !.au_open = FALSE, !.au = <<>>]

parse_pmt(video, codec) ==
  IF video = st.video_pid /\ codec = st.codec THEN st ELSE Relearned(video, codec)

-----------------------------------------------------------------------------
(* The buffered prefix of an access unit: its NALs in order, the parameter *)
(* sets among them in force for the SEI behind them.  A decoded timecode   *)
(* is the picture it was coded for, or Garbage when it was read from other *)
(* bytes or with another layout than it was coded with.  (A misreading     *)
(* that is refused as implausible publishes nothing.)                      *)
Garbage == -2

(* No parameter set of HEVC has the NAL type of an H.264 one.              *)
parse_sps_h264(codec, ctx, cell) ==
  IF codec = "h264" /\ cell.prog.codec = "h264" THEN cell.prog.layout ELSE ctx

(* H.264 cannot be read without a parameter set, nor with one that has no  *)
(* pic_struct; HEVC is self-describing.                                    *)
CanRead(codec, ctx) == codec = "hevc" \/ ctx \notin {NoLayout, "no_pic_struct"}

(* An SEI of the other codec does not match: 0x4E & 0x1F is 14, and        *)
(* 0x06 >> 1 is 3.                                                         *)
parse_timing(codec, ctx, cell, own) ==
  IF cell.prog.codec # codec \/ ~CanRead(codec, ctx) THEN NoPts
  ELSE IF own /\ (codec = "hevc" \/ ctx = cell.prog.layout) THEN cell.picture ELSE Garbage

(* But an IDR slice of HEVC does: 0x26 & 0x1F is 6, an H.264 SEI, and the  *)
(* 0x01 behind it is pic_timing.  (So do TSA_R slices, 0x06, and access    *)
(* unit delimiters, 0x46, which are too short for the size they seem to    *)
(* state.)                                                                 *)
misread_idr(codec, ctx, cell) ==
  IF codec = "h264" /\ cell.prog.codec = "hevc" /\ CanRead(codec, ctx) THEN Garbage ELSE NoPts

(* An SEI that was cut off is shorter than its size says and yields        *)
(* nothing.                                                                *)
Timing(s, i, ctx) ==
  LET c == s.au[i]
      behind == IF i < Len(s.au) THEN s.au[i + 1].kind ELSE "none"
  IN  CASE c.kind = "sei" /\ behind \in {"rest", "stray"} ->
             parse_timing(s.codec, ctx, c, behind = "rest")
        [] c.kind = "idr" -> misread_idr(s.codec, ctx, c)
        [] OTHER -> NoPts

(* The first timecode of the access unit wins.                             *)
scan_cell(s, i, before) ==
  [ctx |-> IF s.au[i].kind = "sps" THEN parse_sps_h264(s.codec, before.ctx, s.au[i])
                                   ELSE before.ctx,
   found |-> IF before.found = NoPts THEN Timing(s, i, before.ctx) ELSE before.found]

ScanPrefix(s) ==
  LET walk[i \in 0..Len(s.au)] ==
        IF i = 0 THEN [ctx |-> s.sps, found |-> NoPts] ELSE scan_cell(s, i, walk[i - 1])
  IN  walk[Len(s.au)]

au_append(au, cells) ==
  LET room == PrefixMax - Len(au)
  IN  au \o SubSeq(cells, 1, IF Len(cells) < room THEN Len(cells) ELSE room)

(* au_flush(): the state after it, and what is published.                  *)
Flushed(s) ==
  [s EXCEPT !.sps = IF s.au = <<>> THEN @ ELSE ScanPrefix(s).ctx,
            !.au_open = FALSE, !.au = <<>>]

Published(s, old, lacking) ==
  LET found == IF s.au = <<>> THEN NoPts ELSE ScanPrefix(s).found
  IN  IF found = NoPts THEN old
      ELSE [picture |-> found, pts |-> s.au_pts, missed |-> lacking]

(* A PES header without a PTS would leave that of the picture before.      *)
AuPts_Kept(pts) == IF pts = NoPts THEN st.au_pts ELSE pts
AuPts(pts) == pts

feed_video_packet(start, pts, cells) ==
  LET opened == IF start THEN [Flushed(st) EXCEPT !.au_pts = AuPts(pts), !.au_open = (header # "bad")]
                         ELSE st
      fed == IF opened.au_open THEN [opened EXCEPT !.au = au_append(@, cells)] ELSE opened
      full == fed.au_open /\ Len(fed.au) >= PrefixMax
      first == IF start THEN Published(st, out, missed) ELSE out
  IN  /\ st' = IF full THEN Flushed(fed) ELSE fed
      /\ out' = IF full THEN Published(fed, first, missed') ELSE first

-----------------------------------------------------------------------------
(* The encoder, and sls_ts_scan_timecode() on each packet that arrives.    *)
(* A new programme starts with a picture that has its parameter set.       *)
Begin(next, packets, pes) ==
  /\ pending = <<>> /\ picture < MaxPictures
  /\ programme' = next
  /\ packets[1][1] # "sps" => next = programme
  /\ picture' = picture + 1 /\ header' = pes
  /\ pending' = [i \in 1..Len(packets) |->
       [start |-> i = 1,
        cells |-> [j \in 1..Len(packets[i]) |->
          [kind |-> packets[i][j], picture |-> picture + 1, prog |-> next]]]]
  /\ UNCHANGED <<st, missed, out>>

(* The packets of the video PID are taken, those of another passed over.   *)
Tuned == programme.video = st.video_pid /\ st.codec # "none"

HasSps(p) == p.start /\ p.cells[1].kind = "sps"

(* What is missing once a start packet has come: a parameter set that went *)
(* with a bad PES header, the table of another codec.                      *)
MissedAtStart(p) ==
  {x \in {"sps"} : IF HasSps(p) THEN header = "bad" ELSE x \in missed}
    \cup {x \in {"pmt"} : programme.codec # st.codec}

TsPacket ==
  LET p == Head(pending)
  IN  /\ pending # <<>> /\ pending' = Tail(pending)
      /\ IF Tuned
           THEN /\ missed' = IF p.start THEN MissedAtStart(p) ELSE missed
                /\ feed_video_packet(p.start, IF header = "pts" THEN picture ELSE NoPts, p.cells)
           ELSE UNCHANGED <<st, missed, out>>
      /\ UNCHANGED <<programme, picture, header>>

(* A packet is lost, or marked as damaged and skipped.                     *)
Strayed(p) ==
  LET stray(j) == IF j = 1 /\ p.cells[j].kind = "rest" THEN [p.cells[j] EXCEPT !.kind = "stray"]
                                                       ELSE p.cells[j]
  IN  [start |-> p.start, cells |-> [j \in 1..Len(p.cells) |-> stray(j)]]

PacketLost ==
  LET p == Head(pending)
      left == Tail(pending)
  IN  /\ pending # <<>>
      /\ pending' = [i \in 1..Len(left) |-> IF i = 1 THEN Strayed(left[i]) ELSE left[i]]
      /\ missed' = IF ~Tuned THEN missed
                   ELSE missed \cup {IF p.start THEN "start" ELSE "part"}
                               \cup {x \in {"sps"} : HasSps(p)}
      /\ UNCHANGED <<programme, picture, header, st, out>>

(* Tables are repeated and need not arrive before the first picture.       *)
Pat ==
  /\ st' = parse_pat(programme.pmt)
  /\ UNCHANGED <<programme, picture, pending, header, missed, out>>

Pmt ==
  /\ programme.pmt = st.pmt_pid
  /\ st' = parse_pmt(programme.video, programme.codec)
  /\ UNCHANGED <<programme, picture, pending, header, missed, out>>

TimecodeNext ==
  \/ \E next \in Programmes, packets \in Pictures, pes \in {"pts", "none", "bad"} :
       Begin(next, packets, pes)
  \/ TsPacket \/ PacketLost \/ Pat \/ Pmt

TimecodeSpec == TimecodeInit /\ [][TimecodeNext]_timecodeVars

-----------------------------------------------------------------------------
(* What is published as the timecode of a picture was coded for that       *)
(* picture, and the PTS beside it is that picture's or none, but for what  *)
(* never reached the scanner: another picture's PTS stands beside it only  *)
(* when the packet with a picture's PES header was lost, and it is misread *)
(* only when a packet of the picture, the parameter set in force or the    *)
(* table of its codec was missed.  Changes of programme, a join in the     *)
(* middle, other late tables and a prefix that fills up do neither.        *)
TimecodeGenuine ==
  /\ out.picture = Garbage => out.missed # {}
  /\ out.picture # Garbage /\ out.pts \notin {NoPts, out.picture} => "start" \in out.missed
=============================================================================
