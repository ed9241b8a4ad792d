---------------------------- MODULE VideoCatalog ----------------------------
(***************************************************************************)
(* What the streaming service promises to the outside: a video is          *)
(* registered, its output files appear, and once all of them are there it  *)
(* may be published.  Nothing is ever taken back.                          *)
(***************************************************************************)
EXTENDS Naturals

CONSTANTS Videos, Files

VARIABLES
    status,   \* status[v]: "none", "upload" or "ready"
    files     \* files[v]: the output files that can be fetched

vars == <<status, files>>

Init ==
    /\ status = [v \in Videos |-> "none"]
    /\ files = [v \in Videos |-> {}]

Register(v) ==
    /\ status[v] = "none"
    /\ status' = [status EXCEPT ![v] = "upload"]
    /\ UNCHANGED files

AddFile(v, f) ==
    /\ status[v] = "upload"
    /\ files' = [files EXCEPT ![v] = @ \cup {f}]
    /\ UNCHANGED status

Publish(v) ==
    /\ status[v] = "upload"
    /\ files[v] = Files
    /\ status' = [status EXCEPT ![v] = "ready"]
    /\ UNCHANGED files

Next ==
    \E v \in Videos :
        \/ Register(v)
        \/ \E f \in Files : AddFile(v, f)
        \/ Publish(v)

Spec == Init /\ [][Next]_vars
=============================================================================
