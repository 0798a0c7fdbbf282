----------------------------- MODULE MCPreviews -----------------------------
(***************************************************************************)
(* Bounds for the previews of two videos of one stem.                      *)
(***************************************************************************)
EXTENDS PreviewPlan, TLC

(* a.dv and a.mp4: a long landscape video and a short portrait one, whose  *)
(* samples have the same extension.                                        *)
MCClips == <<"a.dv", "a.mp4">>
Info(duration, width, height) ==
  [streams |-> 1, duration |-> duration, width |-> width, height |-> height, container |-> "mp4"]
MCInfo == ("a.dv" :> Info(50, 100, 60)) @@ ("a.mp4" :> Info(6, 9, 33))
MCTwins == [clip \in DOMAIN MCInfo |-> Info(50, 100, 60)]
MCBox == [width |-> 32, height |-> 18]
Wanted(sample, image) ==
  [sample |-> sample, image |-> image, length |-> 20, sampleEvery |-> 12, imageEvery |-> 12, limit |-> 2,
   sampleBox |-> MCBox, imageBox |-> MCBox]
MCSettings == {Wanted("none", "start"), Wanted("none", "series"), Wanted("series", "none")}
=============================================================================
