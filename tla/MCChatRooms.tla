---------------------------- MODULE MCChatRooms ----------------------------
(* Instances of ChatRooms for TLC. *)
EXTENDS ChatRooms, TLC

CONSTANTS a, b, c1, c2, c3, c4

\* The calls are used once each and nothing distinguishes them, nor members.
Interchangeable == Permutations({c1, c2, c3, c4}) \cup Permutations({a, b})
=============================================================================
