------------------------------ MODULE MCAnnexB ------------------------------
EXTENDS AnnexB
\* TRAIL_N, prefix and suffix SEI of HEVC; IDR, SEI and SPS of H.264
MCHeaders == [h264 |-> {<<101>>, <<6>>, <<103>>}, hevc |-> {<<0, 1>>, <<78, 1>>, <<80, 1>>}]
MCWant == [h264 |-> 1, hevc |-> 4]
MCContents == {<<>>, <<0, 0, 1, 3>>, <<4, 0, 0, 2>>, <<3, 0, 0, 3, 3>>}
MCSpsOf == [rbsp \in {<<0, 0, 1, 3, 2>>, <<3, 0, 0, 3, 3, 2>>} |-> IF rbsp[1] = 0 THEN "hrd" ELSE "plain"]
MCPicTiming ==
  [none |-> <<>>,
   hrd |-> [body \in {<<0, 0, 1, 3>>, <<4, 0, 0, 2>>} |-> body[1]],
   plain |-> [body \in {<<>>, <<4, 0, 0, 2>>} |-> 5 + Len(body)]]
MCTimeCode == [body \in {<<4, 0, 0, 2>>, <<3, 0, 0, 3, 3>>} |-> body[1]]
=============================================================================
