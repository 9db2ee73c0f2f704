----------------------------- MODULE MCCameraApp -----------------------------
(* Six ini files: captures beside a video stream that feeds the virtual    *)
(* sensor; captures that feed it; the state cycle with and without a       *)
(* capture stream; a recording that ends with its last written frame; and  *)
(* a start in the capture state.                                           *)
EXTENDS CameraApp
Setting(ports, state, cycle, inc, enc, frames, feeder) ==
  [ports |-> ports, runState |-> state, changeState |-> cycle, increase |-> inc,
   encode |-> enc, yuv |-> frames, feeder |-> feeder]
MCOptions ==
  {Setting({"capture", "video"}, "preview", FALSE, 1, TRUE, 0, "none"),
   Setting({"capture"}, "videorec", FALSE, 2, FALSE, 0, "capture"),
   Setting({"capture"}, "preview", TRUE, 1, FALSE, 0, "none"),
   Setting({"display"}, "preview", TRUE, 0, FALSE, 0, "display"),
   Setting({"facedetect", "video"}, "videorec", FALSE, 0, TRUE, 1, "video"),
   Setting({"capture"}, "capture_a", FALSE, 1, FALSE, 0, "none")}
=============================================================================
