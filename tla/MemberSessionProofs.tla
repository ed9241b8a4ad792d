------------------------ MODULE MemberSessionProofs ------------------------
(* Theorems about MemberSession, and their proofs.                          *)
EXTENDS MemberSession, TLAPS

USE NoneAssumption, TTLAssumption

\* The commands on the session keys are abbreviations.
USE DEF SetKey, DelKey, ExtendTTL

-----------------------------------------------------------------------------
(* The invariants.  A call that is on its way, or has issued a token, is    *)
(* about a member; its next step tells the operation.                       *)
CallConsistent(c) ==
    /\ pc[c] # "new" => who[c] \in Registrations
    /\ pc[c] \in {"store", "online"} => op[c] = "login"
    /\ pc[c] \in {"drop", "offline"} => op[c] \in {"logout", "force"}
    /\ pc[c] = "extend" => op[c] = "reconnect"
    /\ pc[c] = "read" => op[c] = "check"

TypeInv == TypeOK /\ \A c \in Calls : CallConsistent(c)

(* Of a member who is not messy.  No login is under way beside a logout; so *)
(* a logout that has dropped the session finds it dropped still when it     *)
(* writes "offline", and a session that lives has its status written or     *)
(* about to be.                                                             *)
Apart(m) ==
    \A c, d \in Calls :
        ~(/\ Busy(c, m) /\ op[c] = "login"
          /\ Busy(d, m) /\ op[d] \in {"logout", "force"})

DroppedStays(m) ==
    \A c \in Calls : pc[c] = "offline" /\ who[c] = m => ~Live(m)

ShownOrWritten(m) ==
    Live(m) => \/ status[m] = "online"
               \/ \E c \in Calls : pc[c] = "online" /\ who[c] = m

StatusInv ==
    /\ TypeInv
    /\ \A m \in Registrations \ messy :
          Apart(m) /\ DroppedStays(m) /\ ShownOrWritten(m)

-----------------------------------------------------------------------------
(* Types *)

LEMMA InitType == Init => TypeInv
  BY DEF Init, TypeInv, TypeOK, CallConsistent, RegPc, Ops, CallPc, Pending

LEMMA SpoilType ==
    ASSUME TypeInv, NEW c \in Calls, pc[c] \in Pending
    PROVE  Spoil(c) \in SUBSET Registrations
  BY DEF TypeInv, TypeOK, CallConsistent, Spoil, Pending

LEMMA AnsweredType ==
    ASSUME TypeInv, NEW c \in Calls, pc[c] \in Pending,
           NEW next \in CallPc, Answered(c, next), UNCHANGED <<op, who>>,
           next = "online" => op[c] = "login",
           next = "offline" => op[c] \in {"logout", "force"},
           next \notin {"store", "drop", "extend", "read"}
    PROVE  /\ pc' \in [Calls -> CallPc] /\ messy' \in SUBSET Registrations
           /\ faults' \in Nat
           /\ \A d \in Calls : CallConsistent(d)'
  <1>0. TypeOK /\ who[c] \in Registrations /\ messy \in SUBSET Registrations
    BY DEF TypeInv, CallConsistent, TypeOK, Pending
  <1>1. CASE pc' = [pc EXCEPT ![c] = next] /\ UNCHANGED <<messy, faults>>
    BY <1>0, <1>1 DEF TypeInv, TypeOK, CallConsistent, Pending
  <1>2. CASE /\ pc' = [pc EXCEPT ![c] = "failed"]
             /\ messy' = Spoil(c) /\ Fault
    BY <1>0, <1>2, SpoilType
    DEF TypeInv, TypeOK, CallConsistent, Pending, CallPc, Fault
  <1>3. QED  BY <1>1, <1>2 DEF Answered

LEMMA BeginType ==
    ASSUME TypeInv, NEW c \in Calls, NEW m \in Registrations,
           NEW o \in Ops, NEW first \in CallPc, Begin(c, m, o, first),
           first \in {"store", "online"} => o = "login",
           first \in {"drop", "offline"} => o \in {"logout", "force"},
           first = "extend" => o = "reconnect",
           first = "read" => o = "check"
    PROVE  /\ pc' \in [Calls -> CallPc] /\ op' \in [Calls -> Ops]
           /\ who' \in [Calls -> Registrations \cup {None}]
           /\ messy' \in SUBSET Registrations
           /\ \A d \in Calls : CallConsistent(d)'
  BY DEF Begin, TypeInv, TypeOK, CallConsistent

LEMMA IssuedWho ==
    ASSUME TypeInv, NEW t \in Calls, Issued(t)
    PROVE  who[t] \in Registrations
  BY DEF TypeInv, CallConsistent, Issued

LEMMA BeginsType ==
    ASSUME TypeInv, NEW c \in Calls,
           \/ Login(c) \/ Logout(c) \/ GatewayLogout(c) \/ ForceLogout(c)
           \/ ReconnectSession(c) \/ CheckSessionTimeout(c)
    PROVE  TypeInv'
  <1>0. members \in SUBSET Registrations
    BY DEF TypeInv, TypeOK
  <1>1. ASSUME NEW m \in Registrations, NEW o \in Ops, NEW first \in CallPc,
               Begin(c, m, o, first),
               first \in {"store", "online"} => o = "login",
               first \in {"drop", "offline"} => o \in {"logout", "force"},
               first = "extend" => o = "reconnect",
               first = "read" => o = "check",
               left' \in [Calls -> 0..JwtTTL]
        PROVE  TypeInv'
    <2>1. /\ pc' \in [Calls -> CallPc] /\ op' \in [Calls -> Ops]
          /\ who' \in [Calls -> Registrations \cup {None}]
          /\ messy' \in SUBSET Registrations
          /\ \A d \in Calls : CallConsistent(d)'
      BY <1>1, BeginType
    <2>2. UNCHANGED <<memberVars, status, ttl, faults>>
      BY <1>1 DEF Begin
    <2>3. QED
      BY <1>1, <2>1, <2>2 DEF TypeInv, TypeOK, memberVars
  <1>2. CASE Login(c)
    <2>1. left' \in [Calls -> 0..JwtTTL]
      BY <1>2 DEF Login, TypeInv, TypeOK
    <2>2. PICK m \in members : Begin(c, m, "login", "store")
      BY <1>2 DEF Login
    <2>3. QED  BY <1>0, <1>1, <2>1, <2>2 DEF Ops, CallPc, Pending
  <1>3. ASSUME UNCHANGED left PROVE left' \in [Calls -> 0..JwtTTL]
    BY <1>3 DEF TypeInv, TypeOK
  <1>4. CASE Logout(c)
    <2>1. PICK t \in Calls :
            /\ Issued(t) /\ UNCHANGED left
            /\ Begin(c, who[t], "logout", IF Parses(t) THEN "drop" ELSE "failed")
      BY <1>4 DEF Logout
    <2>2. who[t] \in Registrations
      BY <2>1, IssuedWho
    <2>3. QED  BY <1>1, <1>3, <2>1, <2>2 DEF Ops, CallPc, Pending
  <1>5. CASE GatewayLogout(c)
    <2>1. PICK t \in Calls :
            /\ Issued(t) /\ UNCHANGED left
            /\ Begin(c, who[t], "logout", "failed")
      BY <1>5 DEF GatewayLogout, Admits
    <2>2. who[t] \in Registrations
      BY <2>1, IssuedWho
    <2>3. QED  BY <1>1, <1>3, <2>1, <2>2 DEF Ops, CallPc, Pending
  <1>6. CASE ForceLogout(c)
    <2>1. PICK m \in members : Begin(c, m, "force", "drop") /\ UNCHANGED left
      BY <1>6 DEF ForceLogout
    <2>2. QED  BY <1>0, <1>1, <1>3, <2>1 DEF Ops, CallPc, Pending
  <1>7. CASE ReconnectSession(c)
    <2>1. PICK t \in Calls :
            /\ Issued(t) /\ UNCHANGED left
            /\ Begin(c, who[t], "reconnect",
                     IF Parses(t) THEN "extend" ELSE "failed")
      BY <1>7 DEF ReconnectSession
    <2>2. who[t] \in Registrations
      BY <2>1, IssuedWho
    <2>3. QED  BY <1>1, <1>3, <2>1, <2>2 DEF Ops, CallPc, Pending
  <1>8. CASE CheckSessionTimeout(c)
    <2>1. PICK t \in Calls :
            /\ Issued(t) /\ UNCHANGED left
            /\ Begin(c, who[t], "check", IF Parses(t) THEN "read" ELSE "expired")
      BY <1>8 DEF CheckSessionTimeout
    <2>2. who[t] \in Registrations
      BY <2>1, IssuedWho
    <2>3. QED  BY <1>1, <1>3, <2>1, <2>2 DEF Ops, CallPc, Pending
  <1>9. QED  BY <1>2, <1>4, <1>5, <1>6, <1>7, <1>8

(* How a step ends: with the next step, or with the error. *)
LEMMA StepAnswers ==
    ASSUME NEW c \in Calls, Step(c)
    PROVE  /\ pc[c] \in Pending
           /\ UNCHANGED <<memberVars, op, who, left>>
           /\ \/ pc[c] = "store" /\ Answered(c, "online")
              \/ pc[c] = "drop" /\ Answered(c, "offline")
              \/ /\ pc[c] \in {"online", "offline", "extend", "read"}
                 /\ Answered(c, "ok") \/ Answered(c, "expired")
  BY DEF Step, StoreSession, SetOnline, DropSession, SetOffline, ExtendSession,
     ReadTTL, Pending

LEMMA StepType ==
    ASSUME TypeInv, NEW c \in Calls, Step(c)
    PROVE  TypeInv'
  <1>0. TypeOK /\ who[c] \in Registrations /\ CallConsistent(c)
    BY StepAnswers DEF TypeInv, CallConsistent, Pending
  <1>1. UNCHANGED <<memberVars, op, who, left>> /\ pc[c] \in Pending
    BY StepAnswers
  <1>2. /\ pc' \in [Calls -> CallPc] /\ messy' \in SUBSET Registrations
        /\ faults' \in Nat
        /\ \A d \in Calls : CallConsistent(d)'
    <2>1. CASE pc[c] = "store" /\ Answered(c, "online")
      BY <1>0, <1>1, <2>1, AnsweredType DEF CallConsistent, CallPc, Pending
    <2>2. CASE pc[c] = "drop" /\ Answered(c, "offline")
      BY <1>0, <1>1, <2>2, AnsweredType DEF CallConsistent, CallPc, Pending
    <2>3. CASE Answered(c, "ok") \/ Answered(c, "expired")
      BY <1>1, <2>3, AnsweredType DEF CallPc
    <2>4. QED  BY <2>1, <2>2, <2>3, StepAnswers
  <1>3. /\ ttl' \in [Registrations -> 0..SessionTTL]
        /\ status' \in [Registrations -> {"null", "offline", "online"}]
    BY <1>0 DEF TypeOK, Step, StoreSession, SetOnline, DropSession, SetOffline,
       ExtendSession, ReadTTL
  <1>4. QED  BY <1>0, <1>1, <1>2, <1>3 DEF TypeInv, TypeOK, memberVars

LEMMA FailType ==
    ASSUME TypeInv, NEW c \in Calls, FailCall(c)
    PROVE  TypeInv'
  <1>1. Spoil(c) \in SUBSET Registrations
    BY SpoilType DEF FailCall
  <1>2. QED
    BY <1>1 DEF FailCall, Fault, TypeInv, TypeOK, CallConsistent, CallPc,
       Pending, memberVars

LEMMA RegisterType ==
    ASSUME TypeInv, NEW r \in Registrations, RegisterFind(r) \/ RegisterInsert(r)
    PROVE  TypeInv'
  <1>1. CASE RegisterFind(r)
    BY <1>1 DEF RegisterFind, Fault, TypeInv, TypeOK, RegPc, CallConsistent,
       callVars
  <1>2. CASE RegisterInsert(r)
    BY <1>2 DEF RegisterInsert, Fault, TypeInv, TypeOK, RegPc, CallConsistent,
       callVars
  <1>3. QED  BY <1>1, <1>2

LEMMA TickType ==
    ASSUME TypeInv, Tick
    PROVE  TypeInv'
  <1>1. ttl' \in [Registrations -> 0..SessionTTL] /\ left' \in [Calls -> 0..JwtTTL]
    BY DEF Tick, TypeInv, TypeOK
  <1>2. QED
    BY <1>1 DEF Tick, TypeInv, TypeOK, CallConsistent, memberVars, callVars

LEMMA NextType == TypeInv /\ [Next]_vars => TypeInv'
  <1> SUFFICES ASSUME TypeInv, [Next]_vars PROVE TypeInv'
    OBVIOUS
  <1>1. CASE UNCHANGED vars
    BY <1>1 DEF vars, memberVars, callVars, TypeInv, TypeOK, CallConsistent
  <1>2. CASE Next
    BY <1>2, RegisterType, BeginsType, StepType, FailType, TickType DEF Next
  <1>3. QED  BY <1>1, <1>2

LEMMA TypeInductive == Spec => []TypeInv
  BY InitType, NextType, PTL DEF Spec

(* Every call is in one of its steps and every session has an expiry of at *)
(* most session_ttl, for any number of members, calls and failures.        *)
THEOREM MemberTypeCorrect == Spec => []TypeOK
  <1>1. TypeInv => TypeOK
    BY DEF TypeInv
  <1>2. QED  BY <1>1, TypeInductive, PTL

-----------------------------------------------------------------------------
(* Addresses *)

(* A query that names the address only. *)
LEMMA TakenMeans ==
    ASSUME NEW r
    PROVE  Taken(r) <=> \E m \in members : Email[m] = Email[r]
  <1> DEFINE query == [email |-> Email[r]]
  <1>1. DOMAIN query = {"email"} /\ query["email"] = Email[r]
    OBVIOUS
  <1>2. ASSUME NEW m PROVE Row(m)["email"] = Email[m]
    BY DEF Row
  <1>3. \A m \in members :
           (\A field \in DOMAIN query : Row(m)[field] = query[field])
             <=> Email[m] = Email[r]
    BY <1>1, <1>2
  <1>4. QED  BY <1>3 DEF Taken, FindByMember

LEMMA MembersStep ==
    ASSUME [Next]_vars
    PROVE  \/ members' = members
           \/ \E r \in Registrations : ~Taken(r) /\ members' = members \cup {r}
  <1>1. CASE UNCHANGED vars
    BY <1>1 DEF vars, memberVars
  <1>2. ASSUME NEW r \in Registrations, RegisterFind(r) \/ RegisterInsert(r)
        PROVE  \/ members' = members
               \/ ~Taken(r) /\ members' = members \cup {r}
    BY <1>2 DEF RegisterFind, RegisterInsert
  <1>3. ASSUME NEW c \in Calls,
               \/ Login(c) \/ Logout(c) \/ GatewayLogout(c) \/ ForceLogout(c)
               \/ ReconnectSession(c) \/ CheckSessionTimeout(c)
        PROVE  members' = members
    BY <1>3 DEF Login, Logout, GatewayLogout, ForceLogout, ReconnectSession,
       CheckSessionTimeout, Begin, memberVars
  <1>4. ASSUME NEW c \in Calls, Step(c) \/ FailCall(c) PROVE members' = members
    BY <1>4, StepAnswers DEF FailCall, memberVars
  <1>5. CASE Tick
    BY <1>5 DEF Tick, memberVars
  <1>6. QED  BY <1>1, <1>2, <1>3, <1>4, <1>5 DEF Next

(* An address belongs to one member, for any number of registrations that   *)
(* overlap and whatever look-up fails: the UNIQUE column decides.           *)
THEOREM OneMemberTheorem == Spec => []OneMemberPerEmail
  <1>1. Init => OneMemberPerEmail
    BY DEF Init, OneMemberPerEmail
  <1>2. OneMemberPerEmail /\ [Next]_vars => OneMemberPerEmail'
    <2> SUFFICES ASSUME OneMemberPerEmail, [Next]_vars
                 PROVE  OneMemberPerEmail'
      OBVIOUS
    <2>1. CASE members' = members
      BY <2>1 DEF OneMemberPerEmail
    <2>2. ASSUME NEW r \in Registrations, ~Taken(r), members' = members \cup {r}
          PROVE  OneMemberPerEmail'
      <3>1. \A m \in members : Email[m] # Email[r]
        BY <2>2, TakenMeans
      <3>2. QED  BY <2>2, <3>1 DEF OneMemberPerEmail
    <2>3. QED  BY <2>1, <2>2, MembersStep
  <1>3. QED  BY <1>1, <1>2, PTL DEF Spec

-----------------------------------------------------------------------------
(* Sessions *)

(* What a step may do to the session of a member. *)
LEMMA SessionStep ==
    ASSUME TypeInv, [Next]_vars, NEW m \in Registrations, ~Live(m), Live(m)'
    PROVE  \E c \in Calls : pc[c] = "store" /\ who[c] = m /\ StoreSession(c)
  <1>0. ttl \in [Registrations -> 0..SessionTTL] /\ ttl[m] = 0
    BY DEF TypeInv, TypeOK, Live
  <1>1. ttl'[m] # 0
    BY DEF Live
  <1>2. ASSUME NEW c \in Calls, StoreSession(c) PROVE who[c] = m /\ pc[c] = "store"
    BY <1>0, <1>1, <1>2 DEF StoreSession
  <1>3. ASSUME NEW c \in Calls,
               SetOnline(c) \/ DropSession(c) \/ SetOffline(c) \/ ExtendSession(c)
                 \/ ReadTTL(c)
        PROVE  FALSE
    BY <1>0, <1>1, <1>3 DEF SetOnline, DropSession, SetOffline, ExtendSession,
       ReadTTL
  <1>4. ASSUME NEW c \in Calls,
               \/ Login(c) \/ Logout(c) \/ GatewayLogout(c) \/ ForceLogout(c)
               \/ ReconnectSession(c) \/ CheckSessionTimeout(c) \/ FailCall(c)
        PROVE  FALSE
    BY <1>0, <1>1, <1>4 DEF Login, Logout, GatewayLogout, ForceLogout,
       ReconnectSession, CheckSessionTimeout, Begin, FailCall
  <1>5. ASSUME NEW r \in Registrations, RegisterFind(r) \/ RegisterInsert(r)
        PROVE  FALSE
    BY <1>0, <1>1, <1>5 DEF RegisterFind, RegisterInsert
  <1>6. CASE Tick
    BY <1>0, <1>1, <1>6 DEF Tick
  <1>7. CASE UNCHANGED vars
    BY <1>0, <1>1, <1>7 DEF vars
  <1>8. QED
    BY <1>2, <1>3, <1>4, <1>5, <1>6, <1>7 DEF Next, Step

(* A session that has ended is opened by a login and by nothing else: not   *)
(* by a reconnection that overtakes the expiry, a Logout or a ForceLogout.  *)
THEOREM LoginOpensTheorem == Spec => OnlyLoginOpensSession
  <1>1. TypeInv /\ [Next]_vars =>
          [\A m \in Registrations :
              ~Live(m) /\ Live(m)' =>
                \E c \in Calls : op[c] = "login" /\ who[c] = m /\ pc[c] = "store"]_vars
    BY SessionStep DEF TypeInv, CallConsistent
  <1>2. QED  BY <1>1, TypeInductive, PTL DEF Spec, OnlyLoginOpensSession

-----------------------------------------------------------------------------
(* The status column *)

LEMMA ConflictMeans ==
    ASSUME NEW p \in {"logout", "force"}
    PROVE  Conflict("login", p) /\ Conflict(p, "login")
  BY DEF Conflict

StatusOf(m) == Apart(m) /\ DroppedStays(m) /\ ShownOrWritten(m)

LEMMA BeginStatus ==
    ASSUME StatusInv, NEW c \in Calls, NEW n, NEW o, NEW first,
           Begin(c, n, o, first), first # "offline",
           NEW m \in Registrations \ messy'
    PROVE  StatusOf(m)'
  <1>0. /\ pc \in [Calls -> CallPc] /\ op \in [Calls -> Ops]
        /\ who \in [Calls -> Registrations \cup {None}]
    BY DEF StatusInv, TypeInv, TypeOK
  <1>1. m \notin messy /\ Apart(m) /\ DroppedStays(m) /\ ShownOrWritten(m)
    BY DEF Begin, StatusInv
  <1>2. /\ pc[c] = "new" /\ pc'[c] = first /\ op'[c] = o /\ who'[c] = n
        /\ \A d \in Calls \ {c} :
              pc'[d] = pc[d] /\ op'[d] = op[d] /\ who'[d] = who[d]
        /\ UNCHANGED <<status, ttl>>
    BY <1>0 DEF Begin
  <1>3. n = m => \A d \in Calls : Busy(d, m) => ~Conflict(o, op[d])
    BY DEF Begin
  <1>4. ~Busy(c, m)
    BY <1>2 DEF Busy, Pending
  <1>5. \A d \in Calls \ {c} : Busy(d, m)' => Busy(d, m)
    BY <1>2 DEF Busy
  <1>6. Apart(m)'
    <2> SUFFICES ASSUME NEW d \in Calls, NEW e \in Calls,
                        Busy(d, m)', op'[d] = "login",
                        Busy(e, m)', op'[e] \in {"logout", "force"}
                 PROVE  FALSE
      BY DEF Apart
    <2>1. CASE d # c /\ e # c
      BY <1>1, <1>2, <1>5, <2>1 DEF Apart
    <2>2. CASE d = c /\ e # c
      <3>1. n = m /\ o = "login" /\ Busy(e, m) /\ op[e] \in {"logout", "force"}
        BY <1>2, <1>5, <2>2 DEF Busy
      <3>2. QED  BY <3>1, <1>3, ConflictMeans
    <2>3. CASE d # c /\ e = c
      <3>1. n = m /\ o \in {"logout", "force"} /\ Busy(d, m) /\ op[d] = "login"
        BY <1>2, <1>5, <2>3 DEF Busy
      <3>2. QED  BY <3>1, <1>3, ConflictMeans
    <2>4. QED  BY <2>1, <2>2, <2>3
  <1>7. DroppedStays(m)'
    BY <1>1, <1>2 DEF DroppedStays, Live
  <1>8. ShownOrWritten(m)'
    BY <1>1, <1>2 DEF ShownOrWritten, Live
  <1>9. QED  BY <1>6, <1>7, <1>8 DEF StatusOf

LEMMA BeginsStatus ==
    ASSUME StatusInv, NEW c \in Calls,
           \/ Login(c) \/ Logout(c) \/ GatewayLogout(c) \/ ForceLogout(c)
           \/ ReconnectSession(c) \/ CheckSessionTimeout(c),
           NEW m \in Registrations \ messy'
    PROVE  StatusOf(m)'
  <1>1. \E n, o, first : Begin(c, n, o, first) /\ first # "offline"
    <2>1. CASE Login(c)
      BY <2>1 DEF Login
    <2>2. CASE Logout(c)
      BY <2>2 DEF Logout
    <2>3. CASE GatewayLogout(c)
      BY <2>3 DEF GatewayLogout
    <2>4. CASE ForceLogout(c)
      BY <2>4 DEF ForceLogout
    <2>5. CASE ReconnectSession(c)
      BY <2>5 DEF ReconnectSession
    <2>6. CASE CheckSessionTimeout(c)
      BY <2>6 DEF CheckSessionTimeout
    <2>7. QED  BY <2>1, <2>2, <2>3, <2>4, <2>5, <2>6
  <1>2. QED  BY <1>1, BeginStatus

(* A step or a failing call of c: nobody becomes busy, and a login that     *)
(* fails makes its member messy.                                            *)
LEMMA AnswerFrame ==
    ASSUME StatusInv, NEW c \in Calls, Step(c) \/ FailCall(c)
    PROVE  /\ UNCHANGED <<op, who>> /\ messy \subseteq messy'
           /\ pc[c] \in Pending /\ who[c] \in Registrations
           /\ \A d \in Calls \ {c} : pc'[d] = pc[d]
           /\ \/ pc'[c] = "failed" /\ (op[c] = "login" => who[c] \in messy')
              \/ pc[c] = "store" /\ pc'[c] = "online"
              \/ pc[c] = "drop" /\ pc'[c] = "offline"
              \/ /\ pc[c] \in {"online", "offline", "extend", "read"}
                 /\ pc'[c] \in {"ok", "expired"}
  <1>0. TypeOK /\ CallConsistent(c) /\ pc \in [Calls -> CallPc]
    BY DEF StatusInv, TypeInv, TypeOK
  <1>1. pc[c] \in Pending /\ UNCHANGED <<op, who>>
    BY StepAnswers DEF FailCall
  <1>2. who[c] \in Registrations
    BY <1>0, <1>1 DEF CallConsistent, Pending
  <1>3. ASSUME NEW next, Answered(c, next)
        PROVE  /\ messy \subseteq messy'
               /\ \A d \in Calls \ {c} : pc'[d] = pc[d]
               /\ \/ pc'[c] = next
                  \/ pc'[c] = "failed" /\ (op[c] = "login" => who[c] \in messy')
    BY <1>0, <1>3 DEF Answered, Spoil
  <1>4. CASE FailCall(c)
    BY <1>0, <1>1, <1>2, <1>4 DEF FailCall, Spoil
  <1>5. CASE Step(c)
    BY <1>1, <1>2, <1>3, <1>5, StepAnswers
  <1>6. QED  BY <1>4, <1>5

LEMMA AnswerStatus ==
    ASSUME StatusInv, NEW c \in Calls, Step(c) \/ FailCall(c),
           NEW m \in Registrations \ messy'
    PROVE  StatusOf(m)'
  <1>0. /\ ttl \in [Registrations -> 0..SessionTTL] /\ CallConsistent(c)
        /\ status \in [Registrations -> {"null", "offline", "online"}]
    BY DEF StatusInv, TypeInv, TypeOK
  <1>1. m \notin messy /\ Apart(m) /\ DroppedStays(m) /\ ShownOrWritten(m)
    BY AnswerFrame DEF StatusInv
  <1>2. \A d \in Calls : Busy(d, m)' => Busy(d, m)
    BY AnswerFrame DEF Busy
  <1>3. Apart(m)'
    BY <1>1, <1>2, AnswerFrame DEF Apart
  <1>4. CASE who[c] # m
    <2>1. /\ status'[m] = status[m] /\ ttl'[m] = ttl[m]
      BY <1>0, <1>4, AnswerFrame
      DEF Step, StoreSession, SetOnline, DropSession, SetOffline, ExtendSession,
          ReadTTL, FailCall
    <2>2. DroppedStays(m)'
      BY <1>1, <1>4, <2>1, AnswerFrame DEF DroppedStays, Live
    <2>3. ShownOrWritten(m)'
      BY <1>1, <1>4, <2>1, AnswerFrame DEF ShownOrWritten, Live
    <2>4. QED  BY <1>3, <2>2, <2>3 DEF StatusOf
  <1>5. CASE who[c] = m /\ StoreSession(c)
    <2>1. pc[c] = "store" /\ op[c] = "login" /\ Busy(c, m)
      BY <1>0, <1>5 DEF StoreSession, CallConsistent, Busy, Pending
    <2>2. pc'[c] = "online"
      BY <1>5, <2>1, AnswerFrame
    <2>3. \A d \in Calls : ~(pc'[d] = "offline" /\ who[d] = m)
      <3> SUFFICES ASSUME NEW d \in Calls, pc'[d] = "offline", who[d] = m
                   PROVE  FALSE
        OBVIOUS
      <3>1. d # c /\ pc[d] = "offline"
        BY <2>2, AnswerFrame
      <3>2. Busy(d, m) /\ op[d] \in {"logout", "force"}
        BY <3>1 DEF StatusInv, TypeInv, CallConsistent, Busy, Pending
      <3>3. QED  BY <1>1, <2>1, <3>2 DEF Apart
    <2>4. DroppedStays(m)'
      BY <2>3, AnswerFrame DEF DroppedStays
    <2>5. ShownOrWritten(m)'
      BY <1>5, <2>2, AnswerFrame DEF ShownOrWritten
    <2>6. QED  BY <1>3, <2>4, <2>5 DEF StatusOf
  <1>6. CASE who[c] = m /\ SetOnline(c)
    <2>1. pc[c] = "online" /\ status'[m] = "online" /\ ttl' = ttl
      BY <1>0, <1>6 DEF SetOnline
    <2>2. pc'[c] # "offline"
      BY <2>1, AnswerFrame
    <2>3. DroppedStays(m)'
      BY <1>1, <2>1, <2>2, AnswerFrame DEF DroppedStays, Live
    <2>4. ShownOrWritten(m)'
      BY <2>1 DEF ShownOrWritten
    <2>5. QED  BY <1>3, <2>3, <2>4 DEF StatusOf
  <1>7. CASE who[c] = m /\ DropSession(c)
    <2>1. ttl'[m] = 0
      BY <1>0, <1>7 DEF DropSession
    <2>2. QED  BY <1>3, <2>1 DEF StatusOf, DroppedStays, ShownOrWritten, Live
  <1>8. CASE who[c] = m /\ SetOffline(c)
    <2>1. pc[c] = "offline" /\ ~Live(m) /\ ttl' = ttl
      BY <1>1, <1>8 DEF SetOffline, DroppedStays
    <2>2. ~Live(m)'
      BY <2>1 DEF Live
    <2>3. QED  BY <1>3, <2>2 DEF StatusOf, DroppedStays, ShownOrWritten
  <1>9. CASE who[c] = m /\ (ExtendSession(c) \/ ReadTTL(c))
    <2>1. pc[c] \in {"extend", "read"} /\ status' = status
      BY <1>9 DEF ExtendSession, ReadTTL
    <2>2. Live(m)' => Live(m)
      BY <1>0, <1>9 DEF ExtendSession, ReadTTL, Live
    <2>3. pc'[c] # "offline"
      BY <2>1, AnswerFrame
    <2>4. DroppedStays(m)'
      BY <1>1, <2>2, <2>3, AnswerFrame DEF DroppedStays
    <2>5. ShownOrWritten(m)'
      BY <1>1, <2>1, <2>2, AnswerFrame DEF ShownOrWritten
    <2>6. QED  BY <1>3, <2>4, <2>5 DEF StatusOf
  <1>10. CASE who[c] = m /\ FailCall(c)
    <2>1. pc'[c] = "failed" /\ UNCHANGED <<status, ttl>>
      BY <1>10, StatusInv DEF FailCall, StatusInv, TypeInv, TypeOK
    <2>2. op[c] # "login"
      BY <1>10 DEF FailCall, Spoil
    <2>3. pc[c] # "online"
      BY <1>0, <2>2 DEF CallConsistent
    <2>4. DroppedStays(m)'
      BY <1>1, <2>1, AnswerFrame DEF DroppedStays, Live
    <2>5. ShownOrWritten(m)'
      BY <1>1, <2>1, <2>3, AnswerFrame DEF ShownOrWritten, Live
    <2>6. QED  BY <1>3, <2>4, <2>5 DEF StatusOf
  <1>11. QED
    BY <1>4, <1>5, <1>6, <1>7, <1>8, <1>9, <1>10 DEF Step

LEMMA RestStatus ==
    ASSUME StatusInv, NEW m \in Registrations \ messy',
           \/ \E r \in Registrations : RegisterFind(r) \/ RegisterInsert(r)
           \/ Tick \/ UNCHANGED vars
    PROVE  StatusOf(m)'
  <1>1. UNCHANGED <<op, pc, who, status, messy>>
    BY DEF RegisterFind, RegisterInsert, Tick, vars, callVars
  <1>2. ttl \in [Registrations -> 0..SessionTTL]
    BY DEF StatusInv, TypeInv, TypeOK
  <1>3. Live(m)' => Live(m)
    BY <1>2 DEF RegisterFind, RegisterInsert, Tick, vars, Live
  <1>4. Apart(m) /\ DroppedStays(m) /\ ShownOrWritten(m)
    BY <1>1 DEF StatusInv
  <1>5. QED
    BY <1>1, <1>3, <1>4 DEF StatusOf, Apart, Busy, DroppedStays, ShownOrWritten

(* Redis and PostgreSQL agree on every member none of whose logins failed   *)
(* or overlapped a logout, however the calls of the others interleave.      *)
THEOREM StatusTheorem == Spec => []LiveIsOnline
  <1>1. Init => StatusInv
    <2> SUFFICES ASSUME Init PROVE StatusInv
      OBVIOUS
    <2>1. TypeInv
      BY InitType
    <2>2. ASSUME NEW m \in Registrations
          PROVE  Apart(m) /\ DroppedStays(m) /\ ShownOrWritten(m)
      BY <2>2 DEF Init, Apart, DroppedStays, ShownOrWritten, Busy, Pending, Live
    <2>3. QED  BY <2>1, <2>2 DEF StatusInv
  <1>2. StatusInv /\ [Next]_vars => StatusInv'
    <2> SUFFICES ASSUME StatusInv, [Next]_vars PROVE StatusInv'
      OBVIOUS
    <2>1. TypeInv'
      BY NextType DEF StatusInv
    <2>2. ASSUME NEW m \in Registrations \ messy' PROVE StatusOf(m)'
      BY RestStatus, BeginsStatus, AnswerStatus DEF Next
    <2>3. QED  BY <2>1, <2>2 DEF StatusInv, StatusOf
  <1>3. StatusInv => LiveIsOnline
    <2> SUFFICES ASSUME StatusInv, NEW m \in Registrations \ messy,
                        Live(m), ~(\E c \in Calls : Busy(c, m))
                 PROVE  status[m] = "online"
      BY DEF LiveIsOnline
    <2>1. ShownOrWritten(m)
      BY DEF StatusInv
    <2>2. QED  BY <2>1 DEF ShownOrWritten, Busy, Pending
  <1>4. QED  BY <1>1, <1>2, <1>3, PTL DEF Spec

=============================================================================
