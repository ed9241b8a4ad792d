----------------------------- MODULE ChatRooms -----------------------------
(***************************************************************************)
(* Rooms and invitations of chat_service: RoomUseCase on two MongoDB       *)
(* collections.                                                            *)
(*                                                                         *)
(* Every operation is a few separate database calls without a transaction: *)
(* JoinRoom and ExitRoom read a room and write the whole document back,    *)
(* ExecuteInvite looks for an invitation and inserts one, ExecuteAccept    *)
(* reads and updates the invitation, looks for a room and inserts one.     *)
(* Each call is one action, so the operations of several members overlap.  *)
(*                                                                         *)
(* A room is named after the call that inserted it.  FindOne and UpdateOne *)
(* with the same filter take the first document in the order of insertion. *)
(***************************************************************************)
EXTENDS Integers, Sequences, SequencesExt

CONSTANTS
    Users,      \* member IDs
    Calls,      \* requests of the websocket connections
    None,       \* no user, no room
    MaxFaults   \* bound on the number of failing database calls

ASSUME NoneAssumption   == None \notin Users \cup Calls
ASSUME FaultsAssumption == MaxFaults \in Nat

VARIABLES
    kind,     \* kind[x]: the type of room x, "none" when there is no such room
    mode,     \* mode[x]: the join mode of room x
    members,  \* members[x]: the array members of room x
    invs,     \* the invitations, in the order of insertion
    op,       \* op[c]: the operation call c runs
    pc,       \* pc[c]: its next database call, or its answer
    by,       \* by[c]: the member who makes call c
    peer,     \* peer[c]: the invitee of an invite, the inviter of an accept
    room,     \* room[c]: the room a join or an exit is about
    given,    \* given[c]: the password given is the password of the room
    copy,     \* copy[c]: the array members call c is going to write
    faults    \* number of faults so far

roomVars == <<kind, mode, members>>
argVars  == <<op, by, peer, room, given>>
vars == <<roomVars, invs, pc, argVars, copy, faults>>

\* Any other string a client sends as join mode is stored as it is.
Modes   == {"open", "password", "approve", "other"}
Pending == {"update", "create", "accept", "find", "insert"}
Answers == {"ok", "failed"}

Invitations == [inviter : Users, invitee : Users,
                status : {"pending", "accepted"}]

TypeOK ==
    /\ kind \in [Calls -> {"none", "private", "group"}]
    /\ mode \in [Calls -> Modes \cup {"none"}]
    /\ members \in [Calls -> Seq(Users)]
    /\ invs \in Seq(Invitations)
    /\ op \in [Calls -> {"none", "create", "join", "exit", "invite", "accept"}]
    /\ pc \in [Calls -> {"new"} \cup Pending \cup Answers]
    /\ by \in [Calls -> Users \cup {None}]
    /\ peer \in [Calls -> Users \cup {None}]
    /\ room \in [Calls -> Calls \cup {None}]
    /\ given \in [Calls -> BOOLEAN]
    /\ copy \in [Calls -> Seq(Users)]
    /\ faults \in Nat

Init ==
    /\ kind = [x \in Calls |-> "none"]
    /\ mode = [x \in Calls |-> "none"]
    /\ members = [x \in Calls |-> <<>>]
    /\ invs = <<>>
    /\ op = [c \in Calls |-> "none"]
    /\ pc = [c \in Calls |-> "new"]
    /\ by = [c \in Calls |-> None]
    /\ peer = [c \in Calls |-> None]
    /\ room = [c \in Calls |-> None]
    /\ given = [c \in Calls |-> FALSE]
    /\ copy = [c \in Calls |-> <<>>]
    /\ faults = 0

-----------------------------------------------------------------------------
Fault == faults < MaxFaults /\ faults' = faults + 1

Goto(c, next) == pc' = [pc EXCEPT ![c] = next]

\* A write answers, or its answer is lost and the call returns the error.
Answered(c, next) ==
    \/ Goto(c, next) /\ UNCHANGED faults
    \/ Goto(c, "failed") /\ Fault

\* Call c of member u starts as operation o and does step first next.
Begin(c, o, u, first) ==
    /\ pc[c] = "new"
    /\ op' = [op EXCEPT ![c] = o]
    /\ by' = [by EXCEPT ![c] = u]
    /\ Goto(c, first)

OnRoom(c, x, pw) ==
    /\ room' = [room EXCEPT ![c] = x]
    /\ given' = [given EXCEPT ![c] = pw]
    /\ UNCHANGED <<peer, roomVars, invs>>

OnPair(c, v) ==
    /\ peer' = [peer EXCEPT ![c] = v]
    /\ UNCHANGED <<room, given, copy, roomVars, invs>>

\* A database call fails without effect and the operation returns the error;
\* or the process dies, and the request is gone either way.
FailCall(c) ==
    /\ pc[c] \in Pending
    /\ Goto(c, "failed")
    /\ Fault
    /\ UNCHANGED <<roomVars, invs, argVars, copy>>

-----------------------------------------------------------------------------
(* Rooms *)

Exists(x) == kind[x] # "none"

\* CreateRoom: the call names the room it inserts.
InsertRoom(c, type, join, list) ==
    /\ kind' = [kind EXCEPT ![c] = type]
    /\ mode' = [mode EXCEPT ![c] = join]
    /\ members' = [members EXCEPT ![c] = list]

\* ExecuteRoom, as create_room calls it: the caller is the only member, so a
\* private room is refused.
CreateRefused(c) ==
    /\ \E u \in Users : Begin(c, "create", u, "failed")
    /\ UNCHANGED <<roomVars, invs, peer, room, given, copy, faults>>

CreateGroup(c) ==
    /\ \E u \in Users, join \in Modes :
          /\ Begin(c, "create", u, "ok")
          /\ InsertRoom(c, "group", join, <<u>>)
    /\ UNCHANGED <<invs, peer, room, given, copy, faults>>

\* Mutant: append without the search.
AppendAlways(list, u) == Append(list, u)

AppendIfNotExists(list, u) ==
    IF u \in ToSet(list) THEN list ELSE Append(list, u)

\* Mutant: the password is not compared.
AdmittedAnyPassword(x, right) == kind[x] = "group" /\ mode[x] # "approve"

\* The password of a room in mode "password" may be empty; it is never
\* accepted then, so "right" covers a non-empty match only.
Admitted(x, right) ==
    /\ kind[x] = "group"
    /\ mode[x] # "approve"
    /\ mode[x] = "password" => right

\* JoinRoom: FindByID and the checks.  The switch over the join mode has no
\* default: in any other mode the room is written back as it was read.
JoinRead(c) ==
    \E u \in Users, x \in Calls, right \in BOOLEAN :
        /\ Exists(x)
        /\ Begin(c, "join", u, IF Admitted(x, right) THEN "update" ELSE "failed")
        /\ OnRoom(c, x, right)
        /\ copy' = [copy EXCEPT ![c] =
                      IF mode[x] \in {"open", "password"}
                      THEN AppendIfNotExists(members[x], u) ELSE members[x]]
        /\ UNCHANGED faults

\* The loop that drops u: kept[k] is what it has kept of the first k members.
Without(list, u) ==
    LET kept[k \in 0..Len(list)] ==
          IF k = 0 THEN <<>>
          ELSE IF list[k] = u THEN kept[k - 1] ELSE Append(kept[k - 1], list[k])
    IN kept[Len(list)]

\* ExitRoom: FindByID and the loop, from a room of any type.
ExitRead(c) ==
    \E u \in Users, x \in Calls :
        /\ Exists(x)
        /\ Begin(c, "exit", u, "update")
        /\ OnRoom(c, x, FALSE)
        /\ copy' = [copy EXCEPT ![c] = Without(members[x], u)]
        /\ UNCHANGED faults

\* UpdateRoom: $set of the whole document.  The tag omitempty leaves an empty
\* array out, so the array in the database stays.
UpdateRoom(c) ==
    /\ pc[c] = "update"
    /\ members' = IF copy[c] = <<>> THEN members
                  ELSE [members EXCEPT ![room[c]] = copy[c]]
    /\ Answered(c, "ok")
    /\ UNCHANGED <<kind, mode, invs, argVars, copy>>

-----------------------------------------------------------------------------
(* Invitations *)

Between(u, v) == {k \in DOMAIN invs : invs[k].inviter = u /\ invs[k].invitee = v}

First(S) == CHOOSE k \in S : \A n \in S : k <= n

\* Mutant: the two members are taken for each other in the filter.
UpdateStatusSwapped(v, u, status) ==
    invs' = IF Between(u, v) = {} THEN invs
            ELSE [invs EXCEPT ![First(Between(u, v))].status = status]

\* UpdateOne: the first invitation of v to u, which is there for good once it
\* has been found.
UpdateInvitationStatus(v, u, status) ==
    invs' = [invs EXCEPT ![First(Between(v, u))].status = status]

FindInvitationByPending(u) ==
    {k \in DOMAIN invs : invs[k].invitee = u /\ invs[k].status = "pending"}

\* The answer of get_invite: a map with one entry for each inviter.
GetInvite(u) == {invs[k].inviter : k \in FindInvitationByPending(u)}

\* ExecuteInvite: an invitation of any status refuses another one.  An error
\* of FindInvitationStatus is ignored.
InviteFind(c) ==
    \E u, v \in Users :
        /\ OnPair(c, v)
        /\ \/ /\ Between(u, v) # {}
              /\ Begin(c, "invite", u, "failed")
              /\ UNCHANGED faults
           \/ /\ (Between(u, v) = {} /\ UNCHANGED faults) \/ Fault
              /\ Begin(c, "invite", u, "create")

\* CreateInvitation
InviteCreate(c) ==
    /\ pc[c] = "create"
    /\ invs' = Append(invs, [inviter |-> by[c], invitee |-> peer[c],
                             status |-> "pending"])
    /\ Answered(c, "ok")
    /\ UNCHANGED <<roomVars, argVars, copy>>

\* Mutant: the room is created before the invitation is updated.
AcceptRoomFirst(c) ==
    \E u, v \in Users :
        LET found == Between(v, u) IN
        /\ OnPair(c, v)
        /\ IF found # {} /\ invs[First(found)].status = "pending"
           THEN Begin(c, "accept", u, "find")
           ELSE Begin(c, "accept", u, "failed")
        /\ UNCHANGED faults

\* ExecuteAccept: FindInvitationByID and the checks.
AcceptFind(c) ==
    \E u, v \in Users :
        LET found == Between(v, u) IN
        /\ OnPair(c, v)
        /\ IF found # {} /\ invs[First(found)].status = "pending"
           THEN Begin(c, "accept", u, "accept")
           ELSE Begin(c, "accept", u, "failed")
        /\ UNCHANGED faults

\* Mutant: the wrong status is written.
AcceptRejects(c) ==
    /\ pc[c] = "accept"
    /\ UpdateInvitationStatus(peer[c], by[c], "rejected")
    /\ Answered(c, "find")
    /\ UNCHANGED <<roomVars, argVars, copy>>

\* UpdateInvitationStatus(accepted)
AcceptUpdate(c) ==
    /\ pc[c] = "accept"
    /\ UpdateInvitationStatus(peer[c], by[c], "accepted")
    /\ Answered(c, "find")
    /\ UNCHANGED <<roomVars, argVars, copy>>

\* Mutant: the filter is $in instead of $all.
PrivateRoomsOfEither(u, v) ==
    {x \in Calls : kind[x] = "private" /\ {u, v} \cap ToSet(members[x]) # {}}

PrivateRooms(u, v) ==
    {x \in Calls : kind[x] = "private" /\ {u, v} \subseteq ToSet(members[x])}

\* FindOnePrivateRoom, an error of which is ignored.
FindPrivate(c) ==
    /\ pc[c] = "find"
    /\ \/ /\ PrivateRooms(peer[c], by[c]) # {}
          /\ Goto(c, "ok")
          /\ UNCHANGED faults
       \/ /\ (PrivateRooms(peer[c], by[c]) = {} /\ UNCHANGED faults) \/ Fault
          /\ Goto(c, "insert")
    /\ UNCHANGED <<roomVars, invs, argVars, copy>>

\* CreateRoom, of the inviter and the invitee
InsertPrivate(c) ==
    /\ pc[c] = "insert"
    /\ InsertRoom(c, "private", "none", <<peer[c], by[c]>>)
    /\ Answered(c, "ok")
    /\ UNCHANGED <<invs, argVars, copy>>

-----------------------------------------------------------------------------
Begins(c) ==
    \/ CreateRefused(c) \/ CreateGroup(c)
    \/ JoinRead(c)      \/ ExitRead(c)
    \/ InviteFind(c)    \/ AcceptFind(c)

Step(c) ==
    \/ UpdateRoom(c)    \/ InviteCreate(c)
    \/ AcceptUpdate(c)  \/ FindPrivate(c)  \/ InsertPrivate(c)

Next == \E c \in Calls : Begins(c) \/ Step(c) \/ FailCall(c)

Spec == Init /\ [][Next]_vars

-----------------------------------------------------------------------------
(***************************************************************************)
(* Properties                                                              *)
(***************************************************************************)

(* The answer "need admin approval" and the password hold whatever joins   *)
(* and exits overlap: a member of a room with a password has created it or *)
(* given the password, and nobody but the creator is in an "approve" room. *)
(* A stale copy written back brings in nobody who was not let in before.   *)
GatedMembers ==
    \A x \in Calls : \A u \in ToSet(members[x]) :
        kind[x] = "group" /\ by[x] # u =>
            /\ mode[x] \in {"open", "password"}
            /\ \E c \in Calls :
                  /\ op[c] = "join" /\ by[c] = u /\ room[c] = x
                  /\ mode[x] = "password" => given[c]

(* A member is listed once in a group, however often and however           *)
(* concurrently it joins (appendIfNotExists on a stale copy).              *)
NoDuplicateMembers ==
    \A x \in Calls : kind[x] = "group" => IsInjective(members[x])

(* A private room is for two members one of whom has accepted the other's  *)
(* invitation: nobody is put into a conversation by an invitation alone,   *)
(* by a concurrent exit or by another pair's accept.  (The scenario of     *)
(* chat_service.feature, line 14, names the invitation and the room and    *)
(* nothing in between; ExecuteInvite creates no room.)                     *)
PrivateByConsent ==
    \A x \in Calls : kind[x] = "private" =>
        \E k \in DOMAIN invs :
            /\ invs[k].status = "accepted"
            /\ ToSet(members[x]) \subseteq {invs[k].inviter, invs[k].invitee}

(* An inviter leaves what get_invite shows a member only when that member  *)
(* accepts the invitation, whatever the two do meanwhile.  A second        *)
(* invitation of the same pair, which overlapping invites leave behind,    *)
(* cannot be reached by any call: it is shown for ever.                    *)
InviteesDecide ==
    [][\A u \in Users :
          /\ \A v \in GetInvite(u) \ GetInvite(u)' :
                \E c \in Calls : /\ pc[c] = "accept" /\ pc'[c] # "accept"
                                 /\ by[c] = u /\ peer[c] = v
          /\ \A k \in FindInvitationByPending(u) :
                k # First(Between(invs[k].inviter, u)) =>
                    k \in FindInvitationByPending(u)']_vars

(* An invitation that is accepted has its room, unless the accept that     *)
(* took it is on the way there or was interrupted: ExecuteAccept updates   *)
(* the invitation before it creates the room, and cannot be repeated.      *)
AcceptedHasRoom ==
    \A k \in DOMAIN invs :
        /\ invs[k].status = "accepted"
        /\ invs[k].inviter # invs[k].invitee
        => \E c \in Calls :
              /\ op[c] = "accept"
              /\ {by[c], peer[c]} = {invs[k].inviter, invs[k].invitee}
              /\ kind[c] = "private" \/ pc[c] \in {"find", "insert", "failed"}
=============================================================================
