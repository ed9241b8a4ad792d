-------------------------- MODULE MCVideoPipeline --------------------------
(* Instances of VideoPipeline for TLC. *)
EXTENDS VideoPipeline, TLC

CONSTANTS r1, r2, i1, i2

\* One instance of the service serves both uploads.
OneServer == [r \in {r1, r2} |-> i1]

\* Two file names, or twice the same one.
OwnPaths  == (r1 :> "a.mp4" @@ r2 :> "b.mp4")
SamePath  == [r \in {r1, r2} |-> "a.mp4"]
=============================================================================
