------------------------ MODULE MCChatConnections ------------------------
(* Instances of ChatConnections for TLC. *)
EXTENDS ChatConnections
=============================================================================
