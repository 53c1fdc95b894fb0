----------------------------- MODULE MCTimecode -----------------------------
EXTENDS Timecode
MCProgrammes ==
  {[pmt |-> 1, video |-> 1, codec |-> "h264", layout |-> "hrd"],
   [pmt |-> 1, video |-> 2, codec |-> "h264", layout |-> "plain"],
   [pmt |-> 1, video |-> 1, codec |-> "hevc", layout |-> "any"],
   [pmt |-> 2, video |-> 2, codec |-> "h264", layout |-> "no_pic_struct"]}
MCPictures == {<<<<"sps", "sei">>, <<"rest", "slice">>, <<"rest">>>>, <<<<"slice">>, <<"sei", "rest">>>>,
               <<<<"sps", "idr", "slice">>>>}
=============================================================================
