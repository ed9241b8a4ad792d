----------------------------- MODULE MessageLog -----------------------------
(***************************************************************************)
(* What the chat service promises of the messages of a room: every day has *)
(* a log.  A message is posted at the end of a log, once, with its sender  *)
(* as the only reader; a member may be added to the readers of a message;  *)
(* and nothing else ever changes, until overlapping writes tear the log of *)
(* a day, which promises nothing from then on.                             *)
(***************************************************************************)
EXTENDS Naturals, Sequences

CONSTANTS Users, Names, Days

VARIABLES
    log,    \* log[d]: the messages of day d with their readers
    torn    \* the days whose log is given up

vars == <<log, torn>>

Init ==
    /\ log = [d \in Days |-> <<>>]
    /\ torn = {}

Posted(m) == \E d \in Days : \E k \in DOMAIN log[d] : log[d][k].id = m

Post(d, m, u) ==
    /\ d \notin torn /\ ~Posted(m)
    /\ log' = [log EXCEPT ![d] = Append(@, [id |-> m, readBy |-> {u}])]
    /\ UNCHANGED torn

Read(d, k, u) ==
    /\ k \in DOMAIN log[d]
    /\ log' = [log EXCEPT ![d][k].readBy = @ \cup {u}]
    /\ UNCHANGED torn

Tear(d) ==
    /\ log' = [log EXCEPT ![d] = <<>>]
    /\ torn' = torn \cup {d}

Next ==
    \E d \in Days :
        \/ \E m \in Names, u \in Users : Post(d, m, u)
        \/ \E k \in DOMAIN log[d], u \in Users : Read(d, k, u)
        \/ Tear(d)

Spec == Init /\ [][Next]_vars
=============================================================================
