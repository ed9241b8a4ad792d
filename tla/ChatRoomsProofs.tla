-------------------------- MODULE ChatRoomsProofs --------------------------
(* Theorems about ChatRooms, and their proofs.                              *)
EXTENDS ChatRooms, TLAPS, WellFoundedInduction

USE NoneAssumption, FaultsAssumption

-----------------------------------------------------------------------------
(* Numbers.  The induction theorems of the library are about operators; the *)
(* same follows for sets, from the order of the numbers being well-founded. *)

\* A set of natural numbers that is not empty has a first element.
LEMMA FirstOf ==
    ASSUME NEW S \in SUBSET Nat, S # {}
    PROVE  First(S) \in S /\ \A n \in S : First(S) <= n
  <1> DEFINE R == OpToRel(<, Nat)
  <1>1. \E x \in S : \A y \in S : ~ (<<y, x>> \in R)
    <2>1. IsWellFoundedOn(R, Nat)
      BY NatLessThanWellFounded
    <2> HIDE DEF R
    <2>2. QED  BY <2>1, WFMin
  <1>2. \A x, y \in Nat : <<y, x>> \in R <=> y < x
    BY DEF OpToRel
  <1> HIDE DEF R
  <1>3. PICK x \in S : \A y \in S : ~ (<<y, x>> \in R)
    BY <1>1
  <1>4. ASSUME NEW y \in S PROVE x <= y
    <2>1. x \in Nat /\ y \in Nat /\ ~ (y < x)
      BY <1>2, <1>3
    <2>2. QED  BY <2>1
  <1>5. QED  BY <1>3, <1>4 DEF First

\* Induction over the natural numbers, for a set instead of a predicate.
LEMMA InductionOn ==
    ASSUME NEW S, 0 \in S, \A n \in Nat : n \in S => n + 1 \in S
    PROVE  Nat \subseteq S
  <1> SUFFICES ASSUME Nat \ S # {} PROVE FALSE
    OBVIOUS
  <1> DEFINE m == First(Nat \ S)
  <1>1. m \in Nat \ S /\ \A n \in Nat \ S : m <= n
    BY FirstOf
  <1> HIDE DEF m
  <1>2. m - 1 \in Nat /\ m = (m - 1) + 1
    BY <1>1
  <1>3. m - 1 \in S
    BY <1>1, <1>2
  <1>4. QED  BY <1>1, <1>2, <1>3

-----------------------------------------------------------------------------
(* The loop of ExitRoom. *)

\* The function of the loop in ExitRoom exists: what it computes of the first
\* k members depends on the first k - 1 only.
LoopTo(n, list, u, kept) ==
    kept = [k \in 0..n |->
              IF k = 0 THEN <<>>
              ELSE IF list[k] = u THEN kept[k - 1] ELSE Append(kept[k - 1], list[k])]

LEMMA LoopExists ==
    ASSUME NEW list, NEW u, NEW n \in Nat
    PROVE  \E kept : LoopTo(n, list, u, kept)
  <1> DEFINE S == {m \in Nat : \E kept : LoopTo(m, list, u, kept)}
  <1>1. 0 \in S
    <2>1. LoopTo(0, list, u, [k \in 0..0 |-> <<>>])
      BY DEF LoopTo
    <2>2. QED  BY <2>1
  <1>2. ASSUME NEW m \in Nat, m \in S PROVE m + 1 \in S
    <2>1. PICK g : LoopTo(m, list, u, g)
      BY <1>2
    <2> DEFINE h == [k \in 0..(m + 1) |->
              IF k = 0 THEN <<>>
              ELSE IF list[k] = u THEN g[k - 1] ELSE Append(g[k - 1], list[k])]
    <2>2. ASSUME NEW k \in 0..m PROVE h[k] = g[k]
      <3>1. g[k] = IF k = 0 THEN <<>>
                   ELSE IF list[k] = u THEN g[k - 1] ELSE Append(g[k - 1], list[k])
        BY <2>1 DEF LoopTo
      <3>2. QED  BY <3>1
    <2>3. ASSUME NEW k \in 0..(m + 1), k # 0 PROVE h[k - 1] = g[k - 1]
      <3> HIDE DEF h
      <3>1. k - 1 \in 0..m
        BY <2>3
      <3>2. QED  BY <2>2, <3>1
    <2>4. ASSUME NEW k \in 0..(m + 1)
          PROVE  h[k] = IF k = 0 THEN <<>>
                  ELSE IF list[k] = u THEN h[k - 1] ELSE Append(h[k - 1], list[k])
      <3>1. h[k] = IF k = 0 THEN <<>>
                  ELSE IF list[k] = u THEN g[k - 1] ELSE Append(g[k - 1], list[k])
        OBVIOUS
      <3> HIDE DEF h
      <3>2. QED  BY <2>3, <3>1
    <2>5. h = [k \in 0..(m + 1) |-> h[k]]
      OBVIOUS
    <2> HIDE DEF h
    <2>6. LoopTo(m + 1, list, u, h)
      BY <2>4, <2>5 DEF LoopTo
    <2>7. QED  BY <2>6
  <1>3. Nat \subseteq S
    <2> HIDE DEF S
    <2>1. QED  BY <1>1, <1>2, InductionOn
  <1>4. QED  BY <1>3

LEMMA WithoutLoop ==
    ASSUME NEW list \in Seq(Users), NEW u
    PROVE  \E kept : LoopTo(Len(list), list, u, kept) /\ Without(list, u) = kept[Len(list)]
  <1> DEFINE kept == CHOOSE g : LoopTo(Len(list), list, u, g)
  <1>1. LoopTo(Len(list), list, u, kept)
    <2>1. Len(list) \in Nat
      OBVIOUS
    <2>2. \E g : LoopTo(Len(list), list, u, g)
      BY <2>1, LoopExists
    <2>3. QED  BY <2>2, Zenon
  <1>2. Without(list, u) = kept[Len(list)]
    BY DEF Without, LoopTo
  <1>3. QED  BY <1>1, <1>2
\* What ExitRoom writes back: members that were there, but not the caller, and
\* nobody twice who was not there twice.
LEMMA WithoutKeeps ==
    ASSUME NEW list \in Seq(Users), NEW u
    PROVE  /\ Without(list, u) \in Seq(Users)
           /\ ToSet(Without(list, u)) \subseteq ToSet(list) \ {u}
           /\ IsInjective(list) => IsInjective(Without(list, u))
  <1>1. PICK kept : LoopTo(Len(list), list, u, kept) /\ Without(list, u) = kept[Len(list)]
    BY WithoutLoop
  <1> DEFINE n == Len(list)
      From(s, m) == \A i \in DOMAIN s : \E j \in 1..m : s[i] = list[j] /\ list[j] # u
      Good(m) == /\ kept[m] \in Seq(Users)
                 /\ From(kept[m], m)
                 /\ IsInjective(list) => IsInjective(kept[m])
      S == {m \in Nat : m <= n => Good(m)}
  <1>2. n \in Nat /\ DOMAIN list = 1..n /\ \A j \in 1..n : list[j] \in Users
    OBVIOUS
  <1>3. ASSUME NEW k \in 0..n
        PROVE  kept[k] = IF k = 0 THEN <<>>
                  ELSE IF list[k] = u THEN kept[k - 1] ELSE Append(kept[k - 1], list[k])
    BY <1>1 DEF LoopTo
  <1> HIDE DEF n
  <1>4. 0 \in S
    <2>1. kept[0] = <<>>
      BY <1>2, <1>3
    <2>2. /\ <<>> \in Seq(Users) /\ From(<<>>, 0)
          /\ IsInjective(<<>>)
      BY DEF IsInjective
    <2>3. Good(0)
      BY <2>1, <2>2
    <2>4. QED  BY <2>3
  <1>5. ASSUME NEW m \in Nat, m \in S PROVE m + 1 \in S
    <2> SUFFICES ASSUME m + 1 <= n PROVE Good(m + 1)
      OBVIOUS
    <2>1. Good(m) /\ m + 1 \in 0..n /\ m + 1 \in 1..n /\ list[m + 1] \in Users
      BY <1>2, <1>5
    <2>2. kept[m + 1] = IF list[m + 1] = u THEN kept[m] ELSE Append(kept[m], list[m + 1])
      BY <1>3, <2>1
    <2>3. CASE list[m + 1] = u
      <3>1. kept[m + 1] = kept[m]
        BY <2>2, <2>3
      <3>2. From(kept[m + 1], m + 1)
        BY <2>1, <3>1
      <3>3. QED  BY <2>1, <3>1, <3>2
    <2>4. CASE list[m + 1] # u
      <3> DEFINE old == kept[m]
                 new == kept[m + 1]
      <3>1. new = Append(old, list[m + 1]) /\ old \in Seq(Users)
        BY <2>1, <2>2, <2>4
      <3>2. From(old, m) /\ (IsInjective(list) => IsInjective(old))
        BY <2>1
      <3> HIDE DEF old, new
      <3>3. /\ new \in Seq(Users)
            /\ DOMAIN new = DOMAIN old \cup {Len(old) + 1}
            /\ new[Len(old) + 1] = list[m + 1]
            /\ \A i \in DOMAIN old : new[i] = old[i] /\ i # Len(old) + 1
        BY <2>1, <3>1
      <3>4. From(new, m + 1)
        BY <2>1, <2>4, <3>2, <3>3
      <3>5. ASSUME IsInjective(list) PROVE IsInjective(new)
        <4>1. \A i \in DOMAIN old : new[i] # new[Len(old) + 1]
          BY <1>2, <2>1, <3>2, <3>3, <3>5 DEF IsInjective
        <4>2. QED  BY <3>2, <3>3, <3>5, <4>1 DEF IsInjective
      <3>6. QED  BY <3>3, <3>4, <3>5 DEF new
    <2>5. QED  BY <2>3, <2>4
  <1>6. Nat \subseteq S
    <2> HIDE DEF S
    <2>1. QED  BY <1>4, <1>5, InductionOn
  <1>7. Good(n)
    <2>1. n \in S
      BY <1>2, <1>6
    <2> HIDE DEF Good
    <2>2. QED  BY <1>2, <2>1
  <1>8. QED  BY <1>1, <1>2, <1>7 DEF ToSet, n
-----------------------------------------------------------------------------
(* The invariant of the invitations.  Invitations are appended and their    *)
(* status is changed, never more: so an accept that has found an invitation *)
(* finds it when it updates it, and UpdateOne, which takes the first of the *)
(* pair, updates the one that was found.                                    *)
InvitesInv ==
    /\ pc \in [Calls -> {"new"} \cup Pending \cup Answers]
    /\ invs \in Seq(Invitations)
    /\ by \in [Calls -> Users \cup {None}]
    /\ peer \in [Calls -> Users \cup {None}]
    /\ \A c \in Calls :
          /\ pc[c] \in {"create", "accept"} => by[c] \in Users /\ peer[c] \in Users
          /\ pc[c] = "accept" => Between(peer[c], by[c]) # {}

\* The invitation an update is going to change is one of the pair's.
LEMMA FirstBetween ==
    ASSUME InvitesInv, NEW u, NEW v, Between(u, v) # {}
    PROVE  First(Between(u, v)) \in Between(u, v)
  <1>1. Between(u, v) \in SUBSET Nat
    BY DEF InvitesInv, Between
  <1>2. QED  BY <1>1, FirstOf

\* What a step may do to the invitation k: nothing but an accept of the
\* invitee changes it, and only when it is the first of the pair.
Decided(k) ==
    \E c \in Calls :
        /\ pc[c] = "accept" /\ pc'[c] # "accept"
        /\ by[c] = invs[k].invitee /\ peer[c] = invs[k].inviter
        /\ k = First(Between(invs[k].inviter, invs[k].invitee))

Kept(k) ==
    /\ k \in DOMAIN invs'
    /\ invs'[k].inviter = invs[k].inviter
    /\ invs'[k].invitee = invs[k].invitee
    /\ invs'[k].status # invs[k].status => Decided(k)
    /\ invs[k].status = "accepted" => invs'[k].status = "accepted"

\* An invitation that is accepted was accepted before, or has just been.
Accepted(k) ==
    invs'[k].status = "accepted" =>
        k \in DOMAIN invs /\ (invs[k].status = "accepted" \/ Decided(k))

InvitesKept ==
    /\ invs' \in Seq(Invitations)
    /\ \A k \in DOMAIN invs : Kept(k)
    /\ \A k \in DOMAIN invs' : Accepted(k)

LEMMA CreateKeeps ==
    ASSUME InvitesInv, NEW c \in Calls, InviteCreate(c)
    PROVE  InvitesKept
  <1> DEFINE new == [inviter |-> by[c], invitee |-> peer[c], status |-> "pending"]
  <1>1. new \in Invitations
    BY DEF InvitesInv, InviteCreate, Invitations
  <1>2. invs \in Seq(Invitations) /\ invs' = Append(invs, new)
    BY DEF InvitesInv, InviteCreate
  <1> HIDE DEF new
  <1>3. invs' \in Seq(Invitations) /\ \A k \in DOMAIN invs : k \in DOMAIN invs' /\ invs'[k] = invs[k]
    BY <1>1, <1>2
  <1>4. \A k \in DOMAIN invs' : k \in DOMAIN invs \/ invs'[k] = new
    BY <1>1, <1>2
  <1>5. new.status # "accepted"
    BY DEF new
  <1>6. QED  BY <1>3, <1>4, <1>5 DEF InvitesKept, Kept, Accepted

LEMMA UpdateKeeps ==
    ASSUME InvitesInv, NEW c \in Calls, AcceptUpdate(c)
    PROVE  InvitesKept
  <1> DEFINE f == First(Between(peer[c], by[c]))
  <1>1. pc[c] = "accept" /\ pc'[c] # "accept"
    BY DEF AcceptUpdate, Answered, Goto, InvitesInv
  <1>2. invs' = [invs EXCEPT ![f].status = "accepted"]
    BY DEF AcceptUpdate, UpdateInvitationStatus
  <1>3. f \in Between(peer[c], by[c])
    BY <1>1, FirstBetween DEF InvitesInv
  <1>4. f \in DOMAIN invs /\ invs[f].inviter = peer[c] /\ invs[f].invitee = by[c]
    BY <1>3 DEF Between
  <1>5. Decided(f)
    BY <1>1, <1>4 DEF Decided
  <1> DEFINE new == [invs[f] EXCEPT !.status = "accepted"]
  <1>6. invs \in Seq(Invitations)
    BY DEF InvitesInv
  <1>7. new \in Invitations /\ new.inviter = peer[c] /\ new.invitee = by[c] /\ new.status = "accepted"
    <2>1. invs[f] \in Invitations
      BY <1>4, <1>6
    <2>2. QED  BY <1>4, <2>1 DEF Invitations
  <1>8. invs' = [invs EXCEPT ![f] = new]
    BY <1>2
  <1> HIDE DEF f, new
  <1>9. invs' \in Seq(Invitations)
    BY <1>4, <1>6, <1>7, <1>8
  <1>10. ASSUME NEW k \in DOMAIN invs PROVE Kept(k) /\ Accepted(k)
    <2>1. k \in DOMAIN invs'
      BY <1>6, <1>8
    <2>2. CASE k = f
      <3>1. invs'[k] = new
        BY <1>6, <1>8, <2>2
      <3>2. QED  BY <1>4, <1>5, <1>7, <2>1, <2>2, <3>1 DEF Kept, Accepted
    <2>3. CASE k # f
      <3>1. invs'[k] = invs[k]
        BY <1>6, <1>8, <2>3
      <3>2. QED  BY <2>1, <3>1 DEF Kept, Accepted
    <2>4. QED  BY <2>2, <2>3
  <1>11. DOMAIN invs' = DOMAIN invs
    BY <1>8
  <1>12. QED  BY <1>9, <1>10, <1>11 DEF InvitesKept

\* The other steps leave the invitations alone.
LEMMA StepKeeps ==
    ASSUME InvitesInv, [Next]_vars
    PROVE  InvitesKept
  <1>1. ASSUME UNCHANGED invs
        PROVE  InvitesKept
    BY <1>1 DEF InvitesInv, InvitesKept, Kept, Accepted
  <1>2. CASE UNCHANGED vars
    BY <1>1, <1>2 DEF vars
  <1>3. ASSUME NEW c \in Calls, Begins(c) \/ FailCall(c) \/ UpdateRoom(c)
                                \/ FindPrivate(c) \/ InsertPrivate(c)
        PROVE  UNCHANGED invs
    BY <1>3 DEF Begins, CreateRefused, CreateGroup, JoinRead, ExitRead, InviteFind,
                AcceptFind, OnRoom, OnPair, FailCall, UpdateRoom, FindPrivate, InsertPrivate
  <1>4. ASSUME NEW c \in Calls, Begins(c) \/ Step(c) \/ FailCall(c)
        PROVE  InvitesKept
    <2>1. CASE InviteCreate(c)  BY <2>1, CreateKeeps
    <2>2. CASE AcceptUpdate(c)  BY <2>2, UpdateKeeps
    <2>3. CASE Begins(c) \/ FailCall(c) \/ UpdateRoom(c) \/ FindPrivate(c) \/ InsertPrivate(c)
      BY <1>1, <1>3, <2>3
    <2>4. QED  BY <1>4, <2>1, <2>2, <2>3 DEF Step
  <1>5. QED  BY <1>2, <1>4 DEF Next

-----------------------------------------------------------------------------
(* The invariant holds. *)

LEMMA InvitesInit == Init => InvitesInv
  BY DEF Init, InvitesInv, Pending, Answers

\* An invitation that was found is there as long as the call goes on.
LEMMA BetweenGrows ==
    ASSUME InvitesInv, [Next]_vars, NEW u, NEW v, Between(u, v) # {}
    PROVE  Between(u, v)' # {}
  <1>1. PICK k \in DOMAIN invs : invs[k].inviter = u /\ invs[k].invitee = v
    BY DEF Between
  <1>2. Kept(k)
    BY StepKeeps DEF InvitesKept
  <1>3. QED  BY <1>1, <1>2 DEF Kept, Between

LEMMA InvitesStep == InvitesInv /\ [Next]_vars => InvitesInv'
  <1> SUFFICES ASSUME InvitesInv, [Next]_vars
               PROVE  InvitesInv'
    OBVIOUS
  <1> DEFINE Called(d) ==
        /\ pc[d] \in {"create", "accept"} => by[d] \in Users /\ peer[d] \in Users
        /\ pc[d] = "accept" => Between(peer[d], by[d]) # {}
      Args ==
        /\ pc \in [Calls -> {"new"} \cup Pending \cup Answers]
        /\ by \in [Calls -> Users \cup {None}]
        /\ peer \in [Calls -> Users \cup {None}]
  <1>1. Args /\ \A d \in Calls : Called(d)
    BY DEF InvitesInv
  <1>2. \A u, v : Between(u, v) # {} => Between(u, v)' # {}
    BY BetweenGrows
  <1>3. CASE UNCHANGED vars
    BY <1>3 DEF vars, argVars, InvitesInv, Between
  <1>4. ASSUME NEW c \in Calls, Begins(c) \/ Step(c) \/ FailCall(c)
        PROVE  Args' /\ \A d \in Calls : Called(d)'
    \* A call that does not come to an update or an insert.
    <2>1. ASSUME Args', pc'[c] \notin {"create", "accept"},
                 \A d \in Calls \ {c} : pc'[d] = pc[d] /\ by'[d] = by[d] /\ peer'[d] = peer[d]
          PROVE  \A d \in Calls : Called(d)'
      BY <1>1, <1>2, <2>1
    <2>2. CASE Step(c) \/ FailCall(c)
      <3>1. Args' /\ pc'[c] \notin {"create", "accept"}
              /\ \A d \in Calls \ {c} : pc'[d] = pc[d] /\ by'[d] = by[d] /\ peer'[d] = peer[d]
        <4>1. UNCHANGED <<by, peer>>
          BY <2>2 DEF Step, FailCall, UpdateRoom, InviteCreate, AcceptUpdate, FindPrivate,
                      InsertPrivate, argVars
        <4>2. PICK next \in {"ok", "failed", "find", "insert"} : pc' = [pc EXCEPT ![c] = next]
          BY <2>2 DEF Step, FailCall, UpdateRoom, InviteCreate, AcceptUpdate, FindPrivate,
                      InsertPrivate, Answered, Goto
        <4>3. QED  BY <1>1, <4>1, <4>2 DEF Pending, Answers
      <3>2. QED  BY <2>1, <3>1
    <2>3. CASE CreateRefused(c) \/ CreateGroup(c) \/ JoinRead(c) \/ ExitRead(c)
      <3>1. Args' /\ pc'[c] \notin {"create", "accept"}
              /\ \A d \in Calls \ {c} : pc'[d] = pc[d] /\ by'[d] = by[d] /\ peer'[d] = peer[d]
        <4>1. PICK u \in Users, next \in {"ok", "failed", "update"} :
                /\ by' = [by EXCEPT ![c] = u]
                /\ pc' = [pc EXCEPT ![c] = next]
                /\ UNCHANGED peer
          BY <2>3 DEF CreateRefused, CreateGroup, JoinRead, ExitRead, Begin, OnRoom, Goto
        <4>2. QED  BY <1>1, <4>1 DEF Pending, Answers
      <3>2. QED  BY <2>1, <3>1
    <2>4. CASE InviteFind(c)
      <3>1. PICK u, v \in Users :
              /\ peer' = [peer EXCEPT ![c] = v]
              /\ by' = [by EXCEPT ![c] = u]
              /\ \/ pc' = [pc EXCEPT ![c] = "failed"]
                 \/ pc' = [pc EXCEPT ![c] = "create"]
        BY <2>4 DEF InviteFind, OnPair, Begin, Goto
      <3>2. Args'
        BY <1>1, <3>1 DEF Pending, Answers
      <3>3. Called(c)'
        BY <1>1, <3>1, <3>2
      <3>4. ASSUME NEW d \in Calls \ {c} PROVE Called(d)'
        BY <1>1, <1>2, <3>1
      <3>5. QED  BY <3>2, <3>3, <3>4
    <2>5. CASE AcceptFind(c)
      <3>1. PICK u, v \in Users :
              /\ peer' = [peer EXCEPT ![c] = v]
              /\ by' = [by EXCEPT ![c] = u]
              /\ \/ pc' = [pc EXCEPT ![c] = "failed"]
                 \/ Between(v, u) # {} /\ pc' = [pc EXCEPT ![c] = "accept"]
        BY <2>5 DEF AcceptFind, OnPair, Begin, Goto
      <3>2. Args'
        BY <1>1, <3>1 DEF Pending, Answers
      <3>3. Called(c)'
        <4>1. peer'[c] = v /\ by'[c] = u
          BY <1>1, <3>1
        <4>2. CASE pc' = [pc EXCEPT ![c] = "failed"]
          BY <1>1, <4>2
        <4>3. CASE Between(v, u) # {} /\ pc' = [pc EXCEPT ![c] = "accept"]
          BY <1>2, <4>1, <4>3
        <4>4. QED  BY <3>1, <4>2, <4>3
      <3>4. ASSUME NEW d \in Calls \ {c} PROVE Called(d)'
        BY <1>1, <1>2, <3>1
      <3>5. QED  BY <3>2, <3>3, <3>4
    <2>6. QED  BY <1>4, <2>2, <2>3, <2>4, <2>5 DEF Begins
  <1>5. CASE Next
    <2>1. Args' /\ \A d \in Calls : Called(d)'
      BY <1>4, <1>5 DEF Next
    <2>2. invs' \in Seq(Invitations)
      BY StepKeeps DEF InvitesKept
    <2>3. QED  BY <2>1, <2>2 DEF InvitesInv
  <1>6. QED  BY <1>3, <1>5

LEMMA InvitesCorrect == Spec => []InvitesInv
  BY InvitesInit, InvitesStep, PTL DEF Spec

-----------------------------------------------------------------------------
(* The body of InviteesDecide, for one step. *)
DecideStep ==
    \A u \in Users :
        /\ \A v \in GetInvite(u) \ GetInvite(u)' :
              \E c \in Calls : /\ pc[c] = "accept" /\ pc'[c] # "accept"
                               /\ by[c] = u /\ peer[c] = v
        /\ \A k \in FindInvitationByPending(u) :
              k # First(Between(invs[k].inviter, u)) =>
                  k \in FindInvitationByPending(u)'

LEMMA StepDecides == InvitesInv /\ [Next]_vars => DecideStep
  <1> SUFFICES ASSUME InvitesInv, [Next]_vars, NEW u \in Users
               PROVE  /\ \A v \in GetInvite(u) \ GetInvite(u)' :
                            \E c \in Calls : /\ pc[c] = "accept" /\ pc'[c] # "accept"
                                             /\ by[c] = u /\ peer[c] = v
                      /\ \A k \in FindInvitationByPending(u) :
                            k # First(Between(invs[k].inviter, u)) =>
                                k \in FindInvitationByPending(u)'
    BY DEF DecideStep
  <1>1. ASSUME NEW k \in FindInvitationByPending(u), k \notin FindInvitationByPending(u)'
        PROVE  Decided(k) /\ invs[k].invitee = u
    <2>1. Kept(k) /\ invs[k].invitee = u /\ invs[k].status = "pending"
      BY StepKeeps DEF InvitesKept, FindInvitationByPending
    <2>2. invs'[k].status # invs[k].status
      BY <1>1, <2>1 DEF Kept, FindInvitationByPending
    <2>3. QED  BY <2>1, <2>2 DEF Kept
  <1>2. ASSUME NEW v \in GetInvite(u) \ GetInvite(u)'
        PROVE  \E c \in Calls : /\ pc[c] = "accept" /\ pc'[c] # "accept"
                                /\ by[c] = u /\ peer[c] = v
    <2>1. PICK k \in FindInvitationByPending(u) : invs[k].inviter = v
      BY DEF GetInvite
    <2>2. Kept(k)
      BY StepKeeps DEF InvitesKept, FindInvitationByPending
    <2>3. k \notin FindInvitationByPending(u)'
      BY <1>2, <2>1, <2>2 DEF Kept, GetInvite
    <2>4. Decided(k) /\ invs[k].invitee = u
      BY <1>1, <2>3
    <2>5. QED  BY <2>1, <2>4 DEF Decided
  <1>3. ASSUME NEW k \in FindInvitationByPending(u),
               k # First(Between(invs[k].inviter, u))
        PROVE  k \in FindInvitationByPending(u)'
    BY <1>1, <1>3 DEF Decided
  <1>4. QED  BY <1>2, <1>3

(* Only the invitee takes an invitation off what get_invite shows, whatever *)
(* the two members do meanwhile, and a second invitation of the same pair   *)
(* is beyond every call: for every set of members and of calls.             *)
THEOREM InviteesTheorem == Spec => InviteesDecide
  <1>1. InvitesInv /\ [Next]_vars =>
          [\A u \in Users :
            /\ \A v \in GetInvite(u) \ GetInvite(u)' :
                  \E c \in Calls : /\ pc[c] = "accept" /\ pc'[c] # "accept"
                                   /\ by[c] = u /\ peer[c] = v
            /\ \A k \in FindInvitationByPending(u) :
                  k # First(Between(invs[k].inviter, u)) =>
                      k \in FindInvitationByPending(u)']_vars
    BY StepDecides DEF DecideStep
  <1>2. QED  BY <1>1, InvitesCorrect, PTL DEF Spec, InviteesDecide

-----------------------------------------------------------------------------
(* The invariant of the rooms. *)

\* What the next step of a call, or the room it has created, tells of it.
CallConsistent(c) ==
    /\ pc[c] = "new" => op[c] = "none"
    /\ pc[c] # "new" => by[c] \in Users
    /\ pc[c] = "update" => op[c] \in {"join", "exit"} /\ room[c] \in Calls /\ Exists(room[c])
    /\ pc[c] = "create" => op[c] = "invite"
    /\ pc[c] \in {"accept", "find", "insert"} => op[c] = "accept" /\ peer[c] \in Users
    /\ Exists(c) => pc[c] \in Answers
    /\ kind[c] = "private" => op[c] = "accept"

TypeInv == TypeOK /\ \A c \in Calls : CallConsistent(c)

\* Who may be in room x: whom a join let in, or the two of an accept.
LetIn(x, u) ==
    /\ mode[x] \in {"open", "password"}
    /\ \E c \in Calls :
          /\ op[c] = "join" /\ by[c] = u /\ room[c] = x
          /\ mode[x] = "password" => given[c]

May(x, u) ==
    /\ kind[x] = "group" /\ by[x] # u => LetIn(x, u)
    /\ kind[x] = "private" => u \in {peer[x], by[x]}

\* An array of members that room x may have, in the database or in a copy.
Lawful(list, x) ==
    /\ \A u \in ToSet(list) : May(x, u)
    /\ kind[x] = "group" => IsInjective(list)

\* An accept that has updated its invitation finds it accepted.
Consented(c) ==
    \E k \in DOMAIN invs : /\ invs[k].status = "accepted"
                           /\ invs[k].inviter = peer[c] /\ invs[k].invitee = by[c]

\* An accept of the pair that has made the room, or is on the way there.
Served(k) ==
    \E c \in Calls :
        /\ op[c] = "accept"
        /\ {by[c], peer[c]} = {invs[k].inviter, invs[k].invitee}
        /\ kind[c] = "private" \/ pc[c] \in {"find", "insert", "failed"}

RoomsInv ==
    /\ TypeInv
    /\ InvitesInv
    /\ \A x \in Calls : Exists(x) => Lawful(members[x], x)
    /\ \A c \in Calls : pc[c] = "update" => Lawful(copy[c], room[c])
    /\ \A c \in Calls : pc[c] \in {"find", "insert"} \/ kind[c] = "private" => Consented(c)
    /\ \A k \in DOMAIN invs :
          invs[k].status = "accepted" /\ invs[k].inviter # invs[k].invitee => Served(k)

\* What a step of call c leaves alone: the other calls, what the call was
\* asked, and the room it has created.
Frame(c) ==
    /\ \A d \in Calls \ {c} :
          /\ pc'[d] = pc[d] /\ op'[d] = op[d] /\ by'[d] = by[d] /\ peer'[d] = peer[d]
          /\ room'[d] = room[d] /\ given'[d] = given[d]
          /\ kind'[d] = kind[d] /\ mode'[d] = mode[d]
    /\ pc[c] # "new" => /\ op'[c] = op[c] /\ by'[c] = by[c] /\ peer'[c] = peer[c]
                        /\ room'[c] = room[c] /\ given'[c] = given[c]
    /\ pc[c] \in {"new"} \cup Pending

LEMMA RoomsInit == Init => RoomsInv
  <1> SUFFICES ASSUME Init PROVE RoomsInv
    OBVIOUS
  <1>1. TypeInv
    BY DEF Init, TypeInv, TypeOK, CallConsistent, Pending, Answers, Exists
  <1>2. InvitesInv
    BY InvitesInit
  <1>3. QED  BY <1>1, <1>2 DEF Init, RoomsInv, Exists

\* Rooms are for good, and the calls other than c have not changed.
LEMMA ConsistentStep ==
    ASSUME TypeInv, NEW c \in Calls, Frame(c), TypeOK', CallConsistent(c)'
    PROVE  TypeInv'
  <1>1. ASSUME NEW x \in Calls, Exists(x) PROVE Exists(x)'
    <2>1. x # c
      BY <1>1 DEF TypeInv, CallConsistent, Frame, Pending, Answers
    <2>2. QED  BY <1>1, <2>1 DEF Frame, Exists
  <1>2. ASSUME NEW d \in Calls \ {c} PROVE CallConsistent(d)'
    BY <1>1, <1>2 DEF TypeInv, Frame, CallConsistent, Exists
  <1>3. QED  BY <1>2 DEF TypeInv

LEMMA BeginsType ==
    ASSUME TypeInv, NEW c \in Calls, Begins(c)
    PROVE  TypeOK' /\ Frame(c) /\ CallConsistent(c)'
  <1> USE DEF TypeInv, TypeOK, Pending, Answers
  <1>0. pc[c] = "new" /\ kind[c] = "none"
    BY DEF Begins, CreateRefused, CreateGroup, JoinRead, ExitRead, InviteFind, AcceptFind,
           Begin, CallConsistent, Exists
  <1>1. CASE CreateRefused(c)
    BY <1>0, <1>1 DEF CreateRefused, Begin, Goto, roomVars, Frame, CallConsistent, Exists
  <1>2. CASE CreateGroup(c)
    <2>1. PICK u \in Users, join \in Modes : Begin(c, "create", u, "ok") /\ InsertRoom(c, "group", join, <<u>>)
      BY <1>2 DEF CreateGroup
    <2>2. <<u>> \in Seq(Users)
      OBVIOUS
    <2>3. UNCHANGED <<invs, peer, room, given, copy, faults>>
      BY <1>2 DEF CreateGroup
    <2>4. QED  BY <1>0, <2>1, <2>2, <2>3 DEF InsertRoom, Begin, Goto, Frame, CallConsistent, Exists
  <1>3. CASE JoinRead(c)
    <2>1. PICK u \in Users, x \in Calls, right \in BOOLEAN :
             /\ Exists(x)
             /\ Begin(c, "join", u, IF Admitted(x, right) THEN "update" ELSE "failed")
             /\ OnRoom(c, x, right)
             /\ copy' = [copy EXCEPT ![c] =
                            IF mode[x] \in {"open", "password"}
                            THEN AppendIfNotExists(members[x], u) ELSE members[x]]
             /\ UNCHANGED faults
      BY <1>3 DEF JoinRead
    <2>2. AppendIfNotExists(members[x], u) \in Seq(Users) /\ members[x] \in Seq(Users)
      BY DEF AppendIfNotExists
    <2>3. copy' \in [Calls -> Seq(Users)]
      BY <2>1, <2>2
    <2>4. x # c
      BY <1>0, <2>1 DEF Exists
    <2>5. QED  BY <1>0, <2>1, <2>3, <2>4 DEF OnRoom, Begin, Goto, roomVars, Frame, CallConsistent, Exists
  <1>4. CASE ExitRead(c)
    <2>1. PICK u \in Users, x \in Calls :
             /\ Exists(x)
             /\ Begin(c, "exit", u, "update")
             /\ OnRoom(c, x, FALSE)
             /\ copy' = [copy EXCEPT ![c] = Without(members[x], u)]
             /\ UNCHANGED faults
      BY <1>4 DEF ExitRead
    <2>2. Without(members[x], u) \in Seq(Users)
      BY WithoutKeeps
    <2>3. copy' \in [Calls -> Seq(Users)]
      BY <2>1, <2>2
    <2>4. x # c
      BY <1>0, <2>1 DEF Exists
    <2>5. QED  BY <1>0, <2>1, <2>3, <2>4 DEF OnRoom, Begin, Goto, roomVars, Frame, CallConsistent, Exists
  <1>5. CASE InviteFind(c)
    <2>1. PICK u, v \in Users, next \in {"failed", "create"} :
             OnPair(c, v) /\ Begin(c, "invite", u, next) /\ faults' \in Nat
      BY <1>5 DEF InviteFind, Fault
    <2>2. QED  BY <1>0, <2>1 DEF OnPair, Begin, Goto, roomVars, Frame, CallConsistent, Exists
  <1>6. CASE AcceptFind(c)
    <2>1. PICK u, v \in Users, next \in {"failed", "accept"} :
             OnPair(c, v) /\ Begin(c, "accept", u, next) /\ UNCHANGED faults
      BY <1>6 DEF AcceptFind
    <2>2. QED  BY <1>0, <2>1 DEF OnPair, Begin, Goto, roomVars, Frame, CallConsistent, Exists
  <1>7. QED  BY <1>1, <1>2, <1>3, <1>4, <1>5, <1>6 DEF Begins

LEMMA StepType ==
    ASSUME TypeInv, InvitesInv, NEW c \in Calls, Step(c) \/ FailCall(c)
    PROVE  TypeOK' /\ Frame(c) /\ CallConsistent(c)'
  <1> USE DEF TypeInv, TypeOK, Pending, Answers
  <1>0. pc[c] \in Pending /\ kind[c] = "none" /\ UNCHANGED argVars /\ UNCHANGED copy
    BY DEF Step, FailCall, UpdateRoom, InviteCreate, AcceptUpdate, FindPrivate, InsertPrivate,
           CallConsistent, Exists
  <1>1. PICK next \in {"ok", "failed", "find", "insert"} :
           /\ pc' = [pc EXCEPT ![c] = next]
           /\ faults' \in Nat
           /\ next \in {"find", "insert"} => op[c] = "accept"
    <2>1. CASE UpdateRoom(c) \/ InviteCreate(c) \/ InsertPrivate(c) \/ FailCall(c)
      BY <2>1 DEF UpdateRoom, InviteCreate, InsertPrivate, FailCall, Answered, Goto, Fault
    <2>2. CASE AcceptUpdate(c) \/ FindPrivate(c)
      BY <2>2 DEF AcceptUpdate, FindPrivate, Answered, Goto, Fault, CallConsistent
    <2>3. QED  BY <2>1, <2>2 DEF Step
  <1>2. invs' \in Seq(Invitations)
    BY StepKeeps DEF InvitesKept, Next
  <1>3. next \in {"find", "insert"} => peer[c] \in Users
    <2>1. CASE UpdateRoom(c) \/ InviteCreate(c) \/ InsertPrivate(c) \/ FailCall(c)
      BY <1>1, <2>1 DEF UpdateRoom, InviteCreate, InsertPrivate, FailCall, Answered, Goto
    <2>2. CASE AcceptUpdate(c) \/ FindPrivate(c)
      BY <2>2 DEF AcceptUpdate, FindPrivate, CallConsistent
    <2>3. QED  BY <2>1, <2>2 DEF Step
  <1>4. CASE UpdateRoom(c)
    <2>1. members' \in [Calls -> Seq(Users)] /\ UNCHANGED <<kind, mode>>
      BY <1>4 DEF UpdateRoom
    <2>2. QED  BY <1>0, <1>1, <1>2, <1>3, <2>1 DEF argVars, Frame, CallConsistent, Exists
  <1>5. CASE InsertPrivate(c)
    <2>1. <<peer[c], by[c]>> \in Seq(Users) /\ op[c] = "accept"
      BY <1>5 DEF InsertPrivate, CallConsistent
    <2>2. InsertRoom(c, "private", "none", <<peer[c], by[c]>>) /\ next \in {"ok", "failed"}
      BY <1>1, <1>5 DEF InsertPrivate, Answered, Goto
    <2>3. QED  BY <1>0, <1>1, <1>2, <1>3, <2>1, <2>2 DEF InsertRoom, argVars, Frame, CallConsistent, Exists
  <1>6. CASE InviteCreate(c) \/ AcceptUpdate(c) \/ FindPrivate(c) \/ FailCall(c)
    <2>1. UNCHANGED roomVars
      BY <1>6 DEF InviteCreate, AcceptUpdate, FindPrivate, FailCall
    <2>2. QED  BY <1>0, <1>1, <1>2, <1>3, <2>1 DEF roomVars, argVars, Frame, CallConsistent, Exists
  <1>7. QED  BY <1>4, <1>5, <1>6 DEF Step

-----------------------------------------------------------------------------
(* A step of one call and what the invariant says of all. *)

\* What every case below starts from.
Stepping(c) ==
    /\ RoomsInv /\ TypeInv' /\ InvitesKept /\ Frame(c)
    /\ Begins(c) \/ Step(c) \/ FailCall(c)

LEMMA SteppingHolds ==
    ASSUME RoomsInv, NEW c \in Calls, Begins(c) \/ Step(c) \/ FailCall(c)
    PROVE  Stepping(c)
  <1>1. TypeOK' /\ Frame(c) /\ CallConsistent(c)'
    BY BeginsType, StepType DEF RoomsInv
  <1>2. TypeInv'
    BY <1>1, ConsistentStep DEF RoomsInv
  <1>3. InvitesKept
    BY StepKeeps DEF RoomsInv, Next
  <1>4. QED  BY <1>1, <1>2, <1>3 DEF Stepping

\* A room keeps its kind and mode, and whoever may be in it still may.
LEMMA MayKept ==
    ASSUME NEW c \in Calls, Stepping(c), NEW x \in Calls, Exists(x)
    PROVE  /\ x # c /\ Exists(x)' /\ kind'[x] = kind[x]
           /\ \A u : May(x, u) => May(x, u)'
  <1> USE DEF Stepping, RoomsInv, TypeInv
  <1>1. pc[x] \in Answers /\ x # c
    BY DEF CallConsistent, Frame, Pending, Answers
  <1>2. /\ kind'[x] = kind[x] /\ mode'[x] = mode[x]
        /\ by'[x] = by[x] /\ peer'[x] = peer[x]
    BY <1>1 DEF Frame
  <1>3. ASSUME NEW u, LetIn(x, u) PROVE LetIn(x, u)'
    <2>1. PICK d \in Calls : /\ op[d] = "join" /\ by[d] = u /\ room[d] = x
                             /\ mode[x] = "password" => given[d]
      BY <1>3 DEF LetIn
    <2>2. pc[d] # "new"
      BY <2>1 DEF CallConsistent
    <2>3. op'[d] = op[d] /\ by'[d] = by[d] /\ room'[d] = room[d] /\ given'[d] = given[d]
      BY <2>2 DEF Frame
    <2>4. QED  BY <1>2, <1>3, <2>1, <2>3 DEF LetIn
  <1>4. QED  BY <1>1, <1>2, <1>3 DEF May, Exists

\* The arrays in the database.
LEMMA MembersStep ==
    ASSUME NEW c \in Calls, Stepping(c), NEW x \in Calls, Exists(x)'
    PROVE  Lawful(members[x], x)'
  <1> USE DEF Stepping, RoomsInv, TypeInv
  <1>1. ASSUME Exists(x), members'[x] = members[x] PROVE Lawful(members[x], x)'
    <2>1. Lawful(members[x], x)
      BY <1>1
    <2>2. QED  BY <1>1, <2>1, MayKept DEF Lawful
  <1>2. ASSUME UNCHANGED roomVars PROVE Lawful(members[x], x)'
    BY <1>1, <1>2 DEF roomVars, Exists
  <1>3. CASE CreateGroup(c)
    <2>1. PICK u \in Users, join \in Modes :
             Begin(c, "create", u, "ok") /\ InsertRoom(c, "group", join, <<u>>)
      BY <1>3 DEF CreateGroup
    <2>2. CASE x = c
      <3>1. members'[x] = <<u>> /\ kind'[x] = "group" /\ by'[x] = u
        BY <2>1, <2>2 DEF InsertRoom, Begin, TypeOK
      <3>2. \A w \in ToSet(<<u>>) : w = u
        BY DEF ToSet
      <3>3. IsInjective(<<u>>)
        BY DEF IsInjective
      <3>4. QED  BY <3>1, <3>2, <3>3 DEF Lawful, May
    <2>3. CASE x # c
      BY <1>1, <2>1, <2>3 DEF InsertRoom, Exists, TypeOK
    <2>4. QED  BY <2>2, <2>3
  <1>4. CASE InsertPrivate(c)
    <2>1. InsertRoom(c, "private", "none", <<peer[c], by[c]>>) /\ UNCHANGED argVars
      BY <1>4 DEF InsertPrivate
    <2>2. CASE x = c
      <3>1. members'[x] = <<peer[x], by[x]>> /\ kind'[x] = "private"
            /\ by'[x] = by[x] /\ peer'[x] = peer[x]
        BY <2>1, <2>2 DEF InsertRoom, argVars, TypeOK
      <3>2. \A w \in ToSet(<<peer[x], by[x]>>) : w \in {peer[x], by[x]}
        BY DEF ToSet
      <3>3. QED  BY <3>1, <3>2 DEF Lawful, May
    <2>3. CASE x # c
      BY <1>1, <2>1, <2>3 DEF InsertRoom, Exists, TypeOK
    <2>4. QED  BY <2>2, <2>3
  <1>5. CASE UpdateRoom(c)
    <2>1. Exists(x) /\ room[c] \in Calls /\ Exists(room[c]) /\ Lawful(copy[c], room[c])
      BY <1>5 DEF UpdateRoom, Exists, CallConsistent
    <2>2. CASE members'[x] = members[x]
      BY <1>1, <2>1, <2>2
    <2>3. CASE x = room[c] /\ members'[x] = copy[c]
      BY <2>1, <2>3, MayKept DEF Lawful
    <2>4. QED  BY <1>5, <2>2, <2>3 DEF UpdateRoom, TypeOK
  <1>6. CASE \/ CreateRefused(c) \/ JoinRead(c) \/ ExitRead(c) \/ InviteFind(c) \/ AcceptFind(c)
             \/ InviteCreate(c) \/ AcceptUpdate(c) \/ FindPrivate(c) \/ FailCall(c)
    <2>1. UNCHANGED roomVars
      BY <1>6 DEF CreateRefused, JoinRead, ExitRead, InviteFind, AcceptFind, OnRoom, OnPair,
                  InviteCreate, AcceptUpdate, FindPrivate, FailCall
    <2>2. QED  BY <1>2, <2>1
  <1>7. QED  BY <1>3, <1>4, <1>5, <1>6 DEF Begins, Step

\* The copies: a join lets in its caller when the room admits it, an exit
\* drops its caller, and both start from an array that is lawful.
LEMMA CopyStep ==
    ASSUME NEW c \in Calls, Stepping(c), NEW d \in Calls, pc'[d] = "update"
    PROVE  Lawful(copy[d], room[d])'
  <1> USE DEF Stepping, RoomsInv, TypeInv
  <1>1. ASSUME pc[d] = "update", copy'[d] = copy[d], room'[d] = room[d]
        PROVE  Lawful(copy[d], room[d])'
    <2>1. room[d] \in Calls /\ Exists(room[d]) /\ Lawful(copy[d], room[d])
      BY <1>1 DEF CallConsistent
    <2>2. QED  BY <1>1, <2>1, MayKept DEF Lawful
  <1>2. CASE d # c
    <2>1. pc[d] = "update" /\ room'[d] = room[d]
      BY <1>2 DEF Frame
    <2>2. copy'[d] = copy[d]
      BY <1>2 DEF Begins, Step, CreateRefused, CreateGroup, JoinRead, ExitRead, InviteFind, AcceptFind,
                  OnPair, UpdateRoom, InviteCreate, AcceptUpdate, FindPrivate, InsertPrivate, FailCall, TypeOK
    <2>3. QED  BY <1>1, <2>1, <2>2
  <1>3. CASE d = c /\ JoinRead(c)
    <2>1. PICK u \in Users, x \in Calls, right \in BOOLEAN :
             /\ Exists(x)
             /\ Begin(c, "join", u, IF Admitted(x, right) THEN "update" ELSE "failed")
             /\ OnRoom(c, x, right)
             /\ copy' = [copy EXCEPT ![c] =
                            IF mode[x] \in {"open", "password"}
                            THEN AppendIfNotExists(members[x], u) ELSE members[x]]
      BY <1>3 DEF JoinRead
    <2>2. Admitted(x, right)
      BY <1>3, <2>1 DEF Begin, Goto, TypeOK
    <2>3. /\ op'[c] = "join" /\ by'[c] = u /\ room'[c] = x /\ given'[c] = right
          /\ copy'[c] = IF mode[x] \in {"open", "password"}
                        THEN AppendIfNotExists(members[x], u) ELSE members[x]
          /\ mode'[x] = mode[x]
      BY <2>1 DEF Begin, OnRoom, roomVars, TypeOK
    <2>4. /\ Lawful(members[x], x) /\ members[x] \in Seq(Users)
          /\ kind'[x] = kind[x] /\ \A w : May(x, w) => May(x, w)'
      BY <2>1, MayKept DEF TypeOK
    <2>5. CASE copy'[c] = members[x]
      BY <1>3, <2>3, <2>4, <2>5 DEF Lawful
    <2>6. CASE mode[x] \in {"open", "password"} /\ u \notin ToSet(members[x])
               /\ copy'[c] = Append(members[x], u)
      <3>1. kind[x] = "group" /\ (mode[x] = "password" => right)
        BY <2>2 DEF Admitted
      <3>2. LetIn(x, u)'
        BY <2>3, <2>6, <3>1 DEF LetIn
      <3>3. May(x, u)'
        BY <2>4, <3>1, <3>2 DEF May
      <3> DEFINE old == members[x]
                 new == Append(old, u)
      <3>4. /\ new \in Seq(Users)
            /\ DOMAIN new = DOMAIN old \cup {Len(old) + 1}
            /\ new[Len(old) + 1] = u
            /\ \A i \in DOMAIN old : new[i] = old[i] /\ i # Len(old) + 1
        BY <2>4
      <3> HIDE DEF new
      <3>5. \A w \in ToSet(new) : w = u \/ w \in ToSet(old)
        BY <3>4 DEF ToSet
      <3>6. IsInjective(old) => IsInjective(new)
        BY <2>6, <3>4 DEF IsInjective, ToSet
      <3>7. copy'[c] = new
        BY <2>6 DEF new
      <3>8. QED  BY <1>3, <2>3, <2>4, <3>1, <3>3, <3>5, <3>6, <3>7 DEF Lawful
    <2>7. QED  BY <2>3, <2>5, <2>6 DEF AppendIfNotExists
  <1>4. CASE d = c /\ ExitRead(c)
    <2>1. PICK u \in Users, x \in Calls :
             /\ Exists(x)
             /\ OnRoom(c, x, FALSE)
             /\ copy' = [copy EXCEPT ![c] = Without(members[x], u)]
      BY <1>4 DEF ExitRead
    <2>2. room'[c] = x /\ copy'[c] = Without(members[x], u)
      BY <2>1 DEF OnRoom, TypeOK
    <2>3. Lawful(members[x], x) /\ members[x] \in Seq(Users)
      BY <2>1 DEF TypeOK
    <2>4. /\ ToSet(Without(members[x], u)) \subseteq ToSet(members[x])
          /\ IsInjective(members[x]) => IsInjective(Without(members[x], u))
      BY <2>3, WithoutKeeps
    <2>5. QED  BY <1>4, <2>1, <2>2, <2>3, <2>4, MayKept DEF Lawful
  <1>5. CASE d = c /\ ~JoinRead(c) /\ ~ExitRead(c)
    <2>1. FALSE
      BY <1>5 DEF Begins, Step, CreateRefused, CreateGroup, InviteFind, AcceptFind, Begin,
                  UpdateRoom, InviteCreate, AcceptUpdate, FindPrivate, InsertPrivate, FailCall,
                  Answered, Goto, TypeOK
    <2>2. QED  BY <2>1
  <1>6. QED  BY <1>2, <1>3, <1>4, <1>5

\* A call that goes on to the room, or has made it, finds its invitation
\* accepted.
LEMMA ConsentStep ==
    ASSUME NEW c \in Calls, Stepping(c), NEW d \in Calls,
           pc'[d] \in {"find", "insert"} \/ kind'[d] = "private"
    PROVE  Consented(d)'
  <1> USE DEF Stepping, RoomsInv, TypeInv
  <1>1. ASSUME Consented(d), peer'[d] = peer[d], by'[d] = by[d] PROVE Consented(d)'
    <2>1. PICK k \in DOMAIN invs : /\ invs[k].status = "accepted"
                                   /\ invs[k].inviter = peer[d] /\ invs[k].invitee = by[d]
      BY <1>1 DEF Consented
    <2>2. Kept(k)
      BY DEF InvitesKept
    <2>3. QED  BY <1>1, <2>1, <2>2 DEF Kept, Consented
  <1>2. CASE AcceptUpdate(c) /\ d = c
    <2>1. pc[c] = "accept" /\ Between(peer[c], by[c]) # {}
      BY <1>2 DEF AcceptUpdate, InvitesInv
    <2> DEFINE f == First(Between(peer[c], by[c]))
    <2>2. f \in Between(peer[c], by[c])
      BY <2>1, FirstBetween
    <2>3. f \in DOMAIN invs /\ invs[f].inviter = peer[c] /\ invs[f].invitee = by[c]
      BY <2>2 DEF Between
    <2>4. invs' = [invs EXCEPT ![f].status = "accepted"]
      BY <1>2 DEF AcceptUpdate, UpdateInvitationStatus
    <2> HIDE DEF f
    <2>5. Kept(f)
      BY <2>3 DEF InvitesKept
    <2>6. invs'[f].status = "accepted"
      <3>1. invs[f] \in Invitations
        BY <2>3 DEF InvitesInv
      <3>2. QED  BY <2>3, <2>4, <3>1 DEF Invitations
    <2>7. by'[c] = by[c] /\ peer'[c] = peer[c]
      BY <1>2 DEF AcceptUpdate, argVars
    <2>8. QED  BY <1>2, <2>3, <2>5, <2>6, <2>7 DEF Kept, Consented
  <1>3. CASE ~ (AcceptUpdate(c) /\ d = c)
    <2>1. pc[d] \in {"find", "insert"} \/ kind[d] = "private"
      <3>1. CASE d # c
        BY <3>1 DEF Frame
      <3>2. CASE d = c /\ Begins(c)
        BY <3>2 DEF Begins, CreateRefused, CreateGroup, JoinRead, ExitRead, InviteFind, AcceptFind,
                    Begin, Goto, OnRoom, OnPair, InsertRoom, roomVars, TypeOK
      <3>3. CASE d = c /\ (Step(c) \/ FailCall(c))
        BY <1>3, <3>3 DEF Step, UpdateRoom, InviteCreate, FindPrivate, InsertPrivate, FailCall,
                    Answered, Goto, roomVars, TypeOK
      <3>4. QED  BY <3>1, <3>2, <3>3
    <2>2. by'[d] = by[d] /\ peer'[d] = peer[d]
      BY <2>1 DEF Frame, CallConsistent, Exists, Answers
    <2>3. QED  BY <1>1, <2>1, <2>2
  <1>4. QED  BY <1>2, <1>3

\* Room x is private and has two different members: then it is the room of an
\* accept between these two.
LEMMA RoomOfPair ==
    ASSUME RoomsInv, NEW x \in Calls, kind[x] = "private",
           NEW u, NEW v, u # v, {u, v} \subseteq ToSet(members[x])
    PROVE  op[x] = "accept" /\ {by[x], peer[x]} = {u, v}
  <1>1. op[x] = "accept"
    BY DEF RoomsInv, TypeInv, CallConsistent
  <1>2. u \in {peer[x], by[x]} /\ v \in {peer[x], by[x]}
    BY DEF RoomsInv, Exists, Lawful, May
  <1>3. QED  BY <1>1, <1>2

\* An accept that serves a pair goes on to do so, or leaves the room there.
LEMMA ServedStep ==
    ASSUME NEW c \in Calls, Stepping(c), NEW k \in DOMAIN invs', invs'[k].status = "accepted",
           invs'[k].inviter # invs'[k].invitee
    PROVE  Served(k)'
  <1> USE DEF Stepping, RoomsInv, TypeInv
  <1>1. k \in DOMAIN invs /\ (invs[k].status = "accepted" \/ Decided(k))
    BY DEF InvitesKept, Accepted
  <1>2. invs'[k].inviter = invs[k].inviter /\ invs'[k].invitee = invs[k].invitee
    BY <1>1 DEF InvitesKept, Kept
  <1>3. CASE Decided(k)
    <2>1. PICK d \in Calls : /\ pc[d] = "accept" /\ pc'[d] # "accept"
                             /\ by[d] = invs[k].invitee /\ peer[d] = invs[k].inviter
      BY <1>3 DEF Decided
    <2>2. d = c
      BY <2>1 DEF Frame
    <2>3. pc'[c] \in {"find", "failed"}
      BY <2>1, <2>2 DEF Begins, Step, CreateRefused, CreateGroup, JoinRead, ExitRead, InviteFind,
             AcceptFind, Begin, UpdateRoom, InviteCreate, AcceptUpdate, FindPrivate, InsertPrivate,
             FailCall, Answered, Goto, TypeOK
    <2>4. op'[c] = "accept" /\ by'[c] = by[c] /\ peer'[c] = peer[c]
      BY <2>1, <2>2 DEF Frame, CallConsistent
    <2>5. QED  BY <1>2, <2>1, <2>2, <2>3, <2>4 DEF Served
  <1>4. CASE invs[k].status = "accepted"
    <2>1. PICK d \in Calls :
             /\ op[d] = "accept"
             /\ {by[d], peer[d]} = {invs[k].inviter, invs[k].invitee}
             /\ kind[d] = "private" \/ pc[d] \in {"find", "insert", "failed"}
      BY <1>1, <1>2, <1>4 DEF Served
    <2>2. op'[d] = "accept" /\ {by'[d], peer'[d]} = {invs'[k].inviter, invs'[k].invitee}
      <3>1. pc[d] # "new"
        BY <2>1 DEF CallConsistent
      <3>2. QED  BY <1>2, <2>1, <3>1 DEF Frame
    <2>3. CASE kind[d] = "private"
      <3>1. kind'[d] = "private"
        BY <2>3, MayKept DEF Exists
      <3>2. QED  BY <2>2, <3>1 DEF Served
    <2>4. CASE pc'[d] \in {"find", "insert", "failed"}
      BY <2>2, <2>4 DEF Served
    <2>5. CASE pc[d] \in {"find", "insert", "failed"} /\ pc'[d] \notin {"find", "insert", "failed"}
      <3>1. d = c
        BY <2>5 DEF Frame
      <3>2. pc[c] \in {"find", "insert"} /\ (FindPrivate(c) \/ InsertPrivate(c))
        BY <2>5, <3>1 DEF Frame, Pending, Begins, Step, CreateRefused, CreateGroup, JoinRead, ExitRead,
               InviteFind, AcceptFind, Begin, UpdateRoom, InviteCreate, AcceptUpdate, FailCall,
               Goto, TypeOK
      <3>3. CASE InsertPrivate(c)
        <4>1. kind'[d] = "private"
          BY <3>1, <3>3 DEF InsertPrivate, InsertRoom, TypeOK
        <4>2. QED  BY <2>2, <4>1 DEF Served
      <3>4. CASE FindPrivate(c)
        <4>1. PrivateRooms(peer[c], by[c]) # {}
          BY <2>5, <3>1, <3>4 DEF FindPrivate, Goto, TypeOK
        <4>2. PICK x \in Calls : kind[x] = "private" /\ {peer[c], by[c]} \subseteq ToSet(members[x])
          BY <4>1 DEF PrivateRooms
        <4>3. peer[c] # by[c]
          BY <1>2, <2>1, <3>1
        <4>4. op[x] = "accept" /\ {by[x], peer[x]} = {peer[c], by[c]}
          BY <4>2, <4>3, RoomOfPair
        <4>5. op'[x] = "accept" /\ by'[x] = by[x] /\ peer'[x] = peer[x]
          BY <4>4 DEF Frame, CallConsistent
        <4>6. kind'[x] = "private"
          BY <4>2, MayKept DEF Exists
        <4>7. {by'[x], peer'[x]} = {invs'[k].inviter, invs'[k].invitee}
          BY <1>2, <2>1, <3>1, <4>4, <4>5
        <4>8. QED  BY <4>5, <4>6, <4>7 DEF Served
      <3>5. QED  BY <3>2, <3>3, <3>4
    <2>6. QED  BY <2>1, <2>3, <2>4, <2>5
  <1>5. QED  BY <1>1, <1>3, <1>4

LEMMA RoomsStep == RoomsInv /\ [Next]_vars => RoomsInv'
  <1> SUFFICES ASSUME RoomsInv, [Next]_vars PROVE RoomsInv'
    OBVIOUS
  <1>1. InvitesInv'
    BY InvitesStep DEF RoomsInv
  <1>2. CASE UNCHANGED vars
    <2>1. /\ UNCHANGED <<kind, mode, members, invs, pc, op, by, peer>>
          /\ UNCHANGED <<room, given, copy, faults>>
      BY <1>2 DEF vars, roomVars, argVars
    <2>2. TypeInv'
      BY <2>1 DEF RoomsInv, TypeInv, TypeOK, CallConsistent, Exists
    <2>3. \A x \in Calls : \A u : May(x, u) => May(x, u)'
      BY <2>1 DEF May, LetIn
    <2>4. \A x \in Calls : Exists(x)' => Lawful(members[x], x)'
      BY <2>1, <2>3 DEF RoomsInv, Exists, Lawful
    <2>5. \A c \in Calls : pc'[c] = "update" => Lawful(copy[c], room[c])'
      BY <2>1, <2>3 DEF RoomsInv, TypeInv, CallConsistent, Lawful
    <2>6. \A c \in Calls : pc'[c] \in {"find", "insert"} \/ kind'[c] = "private" => Consented(c)'
      BY <2>1 DEF RoomsInv, Consented
    <2>7. \A k \in DOMAIN invs' :
             invs'[k].status = "accepted" /\ invs'[k].inviter # invs'[k].invitee => Served(k)'
      BY <2>1 DEF RoomsInv, Served
    <2>8. QED  BY <1>1, <2>2, <2>4, <2>5, <2>6, <2>7 DEF RoomsInv
  <1>3. ASSUME NEW c \in Calls, Begins(c) \/ Step(c) \/ FailCall(c) PROVE RoomsInv'
    <2>1. Stepping(c)
      BY <1>3, SteppingHolds
    <2>2. TypeInv'
      BY <2>1 DEF Stepping
    <2>3. \A x \in Calls : Exists(x)' => Lawful(members[x], x)'
      BY <2>1, MembersStep
    <2>4. \A d \in Calls : pc'[d] = "update" => Lawful(copy[d], room[d])'
      BY <2>1, CopyStep
    <2>5. \A d \in Calls : pc'[d] \in {"find", "insert"} \/ kind'[d] = "private" => Consented(d)'
      BY <2>1, ConsentStep
    <2>6. \A k \in DOMAIN invs' :
             invs'[k].status = "accepted" /\ invs'[k].inviter # invs'[k].invitee => Served(k)'
      BY <2>1, ServedStep
    <2>7. QED  BY <1>1, <2>2, <2>3, <2>4, <2>5, <2>6 DEF RoomsInv
  <1>4. QED  BY <1>2, <1>3 DEF Next

LEMMA RoomsCorrect == Spec => []RoomsInv
  BY RoomsInit, RoomsStep, PTL DEF Spec

-----------------------------------------------------------------------------
(* The theorems about rooms. *)

(* Every variable of the rooms keeps its type; an exit writes back an array *)
(* of members.                                                              *)
THEOREM RoomsTypeCorrect == Spec => []TypeOK
  <1>1. RoomsInv => TypeOK
    BY DEF RoomsInv, TypeInv
  <1>2. QED  BY <1>1, RoomsCorrect, PTL

(* For any members and calls: whoever is in a room with a password has made *)
(* it or given the password, and an "approve" room has its creator only,    *)
(* although joins and exits write back arrays they have read before.        *)
THEOREM GatedTheorem == Spec => []GatedMembers
  <1>1. RoomsInv => GatedMembers
    BY DEF RoomsInv, Exists, Lawful, May, LetIn, GatedMembers
  <1>2. QED  BY <1>1, RoomsCorrect, PTL

(* Nobody is twice in a group, whatever joins overlap.                      *)
THEOREM NoDuplicatesTheorem == Spec => []NoDuplicateMembers
  <1>1. RoomsInv => NoDuplicateMembers
    BY DEF RoomsInv, Exists, Lawful, NoDuplicateMembers
  <1>2. QED  BY <1>1, RoomsCorrect, PTL

(* Nobody is put into a private room without an accepted invitation between *)
(* its members, by ExecuteAccept, a concurrent exit or another pair.        *)
THEOREM ConsentTheorem == Spec => []PrivateByConsent
  <1>1. ASSUME RoomsInv PROVE PrivateByConsent
    <2> SUFFICES ASSUME NEW x \in Calls, kind[x] = "private"
                 PROVE  \E k \in DOMAIN invs :
                           /\ invs[k].status = "accepted"
                           /\ ToSet(members[x]) \subseteq {invs[k].inviter, invs[k].invitee}
      BY DEF PrivateByConsent
    <2>1. Consented(x) /\ Lawful(members[x], x)
      BY <1>1 DEF RoomsInv, Exists
    <2>2. ToSet(members[x]) \subseteq {peer[x], by[x]}
      BY <2>1 DEF Lawful, May
    <2>3. QED  BY <2>1, <2>2 DEF Consented
  <1>2. QED  BY <1>1, RoomsCorrect, PTL

(* The gap between UpdateInvitationStatus and CreateRoom is all that can    *)
(* leave an accepted invitation without its room.                           *)
THEOREM AcceptedTheorem == Spec => []AcceptedHasRoom
  <1>1. RoomsInv => AcceptedHasRoom
    BY DEF RoomsInv, Served, AcceptedHasRoom
  <1>2. QED  BY <1>1, RoomsCorrect, PTL
=============================================================================
