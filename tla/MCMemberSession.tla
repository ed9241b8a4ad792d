-------------------------- MODULE MCMemberSession --------------------------
(* Instances of MemberSession for TLC. *)
EXTENDS MemberSession, TLC

CONSTANTS m1, m2

\* Two registrations compete for one address.
OneEmail == [r \in {m1, m2} |-> "user@example.com"]
=============================================================================
