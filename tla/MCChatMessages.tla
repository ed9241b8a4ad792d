--------------------------- MODULE MCChatMessages ---------------------------
(* Instances of ChatMessages for TLC. *)
EXTENDS ChatMessages, TLC

CONSTANTS c1, c2, c3

\* Nothing distinguishes the calls.
Interchangeable == Permutations({c1, c2, c3})
=============================================================================
