--------------------------- MODULE MemberSession ---------------------------
(***************************************************************************)
(* The members and their sessions: memberUseCase of member_service.        *)
(*                                                                         *)
(* A member is a row of the PostgreSQL table member with a status column;  *)
(* the session of a member is one Redis key, named by the member ID, with  *)
(* a time to live; the token is a JWT that carries its own expiry.  Login, *)
(* Logout and ForceLogout write Redis first and PostgreSQL second, in two  *)
(* calls, so calls for the same member interleave between the two.  The    *)
(* value stored under the key is never read again: what counts is whether  *)
(* the key exists.                                                         *)
(*                                                                         *)
(* A member is named after the call of Register that inserted it, a token  *)
(* after the call of Login that issued it.                                 *)
(***************************************************************************)
EXTENDS Integers

CONSTANTS
    Registrations,  \* calls of Register
    Email,          \* Email[r]: the address registration r asks for
    Calls,          \* calls of the other operations
    None,           \* no member
    SessionTTL,     \* session_ttl, in units of time
    JwtTTL,         \* tokenExpiration, in the same units
    MaxFaults       \* bound on the number of failing calls to the stores

ASSUME NoneAssumption == None \notin Registrations
\* session_ttl is 5 minutes, tokenExpiration 60.
ASSUME TTLAssumption == /\ SessionTTL \in Nat \ {0} /\ JwtTTL \in Nat
                        /\ SessionTTL < JwtTTL
ASSUME FaultsAssumption == MaxFaults \in Nat

VARIABLES
    reg,      \* reg[r]: the next step of registration r, or its answer
    members,  \* the registrations whose row is in the table
    status,   \* status[m]: the column status of the row of m
    op,       \* op[c]: the operation call c runs
    pc,       \* pc[c]: the next step of call c, or its answer
    who,      \* who[c]: the member call c is about
    left,     \* left[t]: time until the token of login t expires
    ttl,      \* ttl[m]: time to live of the session key of m, 0: no key
    messy,    \* members with a login that failed or overlapped a logout (history)
    faults    \* number of faults so far

memberVars == <<reg, members>>
callVars   == <<op, pc, who>>
vars == <<memberVars, status, callVars, left, ttl, messy, faults>>

RegPc   == {"find", "insert", "ok", "refused"}
Ops     == {"none", "login", "logout", "force", "reconnect", "check"}
Pending == {"store", "online", "drop", "offline", "extend", "read"}
CallPc  == Pending \cup {"new", "ok", "expired", "failed"}

\* A key without expiry: SET with a zero duration.  No call makes one.
Forever == SessionTTL + 1

TypeOK ==
    /\ reg \in [Registrations -> RegPc]
    /\ members \in SUBSET Registrations
    /\ status \in [Registrations -> {"null", "offline", "online"}]
    /\ op \in [Calls -> Ops]
    /\ pc \in [Calls -> CallPc]
    /\ who \in [Calls -> Registrations \cup {None}]
    /\ left \in [Calls -> 0..JwtTTL]
    /\ ttl \in [Registrations -> 0..SessionTTL]
    /\ messy \in SUBSET Registrations
    /\ faults \in Nat

Init ==
    /\ reg = [r \in Registrations |-> "find"]
    /\ members = {}
    /\ status = [r \in Registrations |-> "null"]
    /\ op = [c \in Calls |-> "none"]
    /\ pc = [c \in Calls |-> "new"]
    /\ who = [c \in Calls |-> None]
    /\ left = [c \in Calls |-> 0]
    /\ ttl = [r \in Registrations |-> 0]
    /\ messy = {}
    /\ faults = 0

Fault == faults < MaxFaults /\ faults' = faults + 1

-----------------------------------------------------------------------------
(* Finding members *)

\* The columns a query can name.
Row(m) == [email |-> Email[m], member_id |-> m, id |-> m]

\* A WHERE clause with a condition for each field that is not nil.
FindByMember(query) ==
    {m \in members : \A field \in DOMAIN query : Row(m)[field] = query[field]}

-----------------------------------------------------------------------------
(* Register *)

Taken(r) == FindByMember([email |-> Email[r]]) # {}

\* FindByMember: a hit refuses the address; a miss and an error of the
\* database both go on.
RegisterFind(r) ==
    /\ reg[r] = "find"
    /\ \/ /\ Taken(r)
          /\ reg' = [reg EXCEPT ![r] = "refused"]
          /\ UNCHANGED faults
       \/ /\ (~Taken(r) /\ UNCHANGED faults) \/ Fault
          /\ reg' = [reg EXCEPT ![r] = "insert"]
    /\ UNCHANGED <<members, status, callVars, left, ttl, messy>>

\* Mutant: the column email is not UNIQUE.
RegisterInsertUnchecked(r) ==
    /\ reg[r] = "insert"
    /\ members' = members \cup {r}
    /\ reg' = [reg EXCEPT ![r] = "ok"]
    /\ UNCHANGED <<status, callVars, left, ttl, messy, faults>>

\* CreateUser: the column email is UNIQUE.
RegisterInsert(r) ==
    /\ reg[r] = "insert"
    /\ \/ /\ Taken(r)
          /\ reg' = [reg EXCEPT ![r] = "refused"]
          /\ UNCHANGED <<members, faults>>
       \/ /\ ~Taken(r)
          /\ members' = members \cup {r}
          /\ \/ reg' = [reg EXCEPT ![r] = "ok"] /\ UNCHANGED faults
             \/ reg' = [reg EXCEPT ![r] = "refused"] /\ Fault
    /\ UNCHANGED <<status, callVars, left, ttl, messy>>

-----------------------------------------------------------------------------
(* The steps every call is made of *)

Busy(c, m) == pc[c] \in Pending /\ who[c] = m

Conflict(o, p) == {o, p} \in {{"login", "logout"}, {"login", "force"}}

Spoil(c) == IF op[c] = "login" THEN messy \cup {who[c]} ELSE messy

\* Call c starts as operation o on member m and does step first next.
Begin(c, m, o, first) ==
    /\ pc[c] = "new"
    /\ op' = [op EXCEPT ![c] = o]
    /\ pc' = [pc EXCEPT ![c] = first]
    /\ who' = [who EXCEPT ![c] = m]
    /\ messy' = IF \E d \in Calls : Busy(d, m) /\ Conflict(o, op[d])
                THEN messy \cup {m} ELSE messy
    /\ UNCHANGED <<memberVars, status, ttl, faults>>

\* A call to a store answers, and call c goes on with step next; or the
\* answer is lost and c returns the error.
Answered(c, next) ==
    \/ /\ pc' = [pc EXCEPT ![c] = next]
       /\ UNCHANGED <<messy, faults>>
    \/ /\ pc' = [pc EXCEPT ![c] = "failed"]
       /\ messy' = Spoil(c)
       /\ Fault

\* The store is not reached: c returns the error and nothing has changed.
FailCall(c) ==
    /\ pc[c] \in Pending
    /\ pc' = [pc EXCEPT ![c] = "failed"]
    /\ messy' = Spoil(c)
    /\ Fault
    /\ UNCHANGED <<memberVars, status, op, who, left, ttl>>

\* The tokens clients hold.
Issued(t) == op[t] = "login" /\ pc[t] = "ok"

\* ParseJWT checks the signature and the expiry, no more.
Parses(t) == Issued(t) /\ left[t] > 0

\* So does the middleware of the gateway, with a parser call of its own.
Admits(t) == Issued(t) /\ left[t] > 0

-----------------------------------------------------------------------------
(* The commands of redisRepository on the key of a member *)

SetKey(m, time) == ttl' = [ttl EXCEPT ![m] = time]

DelKey(m) == ttl' = [ttl EXCEPT ![m] = 0]

\* EXPIRE does nothing when there is no key, and that is no error.
ExtendTTL(m, time) == ttl' = [ttl EXCEPT ![m] = IF @ > 0 THEN time ELSE 0]

\* The answers GetTTL may give: whole seconds, rounded down, so 0 as well in
\* the last second of the last unit; 0 when there is no key.
GetTTL(m) == {time \in {0, ttl[m]} : time = 0 => ttl[m] <= 1}

-----------------------------------------------------------------------------
(* The operations *)

\* Login: the row is found, the password matches, the JWT is generated.
Login(c) ==
    /\ \E m \in members : Begin(c, m, "login", "store")
    /\ left' = [left EXCEPT ![c] = JwtTTL]

\* Mutant: the key is set without an expiry.
StoreSessionForever(c) ==
    /\ pc[c] = "store"
    /\ SetKey(who[c], Forever)
    /\ Answered(c, "online")
    /\ UNCHANGED <<memberVars, status, op, who, left>>

\* redisRepo.Set(memberID, session, sessionTTL)
StoreSession(c) ==
    /\ pc[c] = "store"
    /\ SetKey(who[c], SessionTTL)
    /\ Answered(c, "online")
    /\ UNCHANGED <<memberVars, status, op, who, left>>

\* UpdateMemberStatus(online)
SetOnline(c) ==
    /\ pc[c] = "online"
    /\ status' = [status EXCEPT ![who[c]] = "online"]
    /\ Answered(c, "ok")
    /\ UNCHANGED <<memberVars, op, who, left, ttl>>

\* Logout parses the token first.
Logout(c) ==
    \E t \in Calls :
        /\ Issued(t)
        /\ Begin(c, who[t], "logout", IF Parses(t) THEN "drop" ELSE "failed")
        /\ UNCHANGED left

\* The gateway passes the member ID where Logout expects the token: ParseJWT
\* fails, whatever the state.
GatewayLogout(c) ==
    \E t \in Calls :
        /\ Admits(t)
        /\ Begin(c, who[t], "logout", "failed")
        /\ UNCHANGED left

ForceLogout(c) ==
    /\ \E m \in members : Begin(c, m, "force", "drop")
    /\ UNCHANGED left

\* Mutant: Del is called with the token instead of the member ID.
DropWrongKey(c) ==
    /\ pc[c] = "drop"
    /\ Answered(c, "offline")
    /\ UNCHANGED <<memberVars, status, op, who, left, ttl>>

\* redisRepo.Del(memberID), in Logout and ForceLogout
DropSession(c) ==
    /\ pc[c] = "drop"
    /\ DelKey(who[c])
    /\ Answered(c, "offline")
    /\ UNCHANGED <<memberVars, status, op, who, left>>

\* UpdateMemberStatus(offline)
SetOffline(c) ==
    /\ pc[c] = "offline"
    /\ status' = [status EXCEPT ![who[c]] = "offline"]
    /\ Answered(c, "ok")
    /\ UNCHANGED <<memberVars, op, who, left, ttl>>

ReconnectSession(c) ==
    \E t \in Calls :
        /\ Issued(t)
        /\ Begin(c, who[t], "reconnect",
                 IF Parses(t) THEN "extend" ELSE "failed")
        /\ UNCHANGED left

\* Mutant: the session is stored again instead of extended.
ExtendSessionBySet(c) ==
    /\ pc[c] = "extend"
    /\ SetKey(who[c], SessionTTL)
    /\ Answered(c, "ok")
    /\ UNCHANGED <<memberVars, status, op, who, left>>

\* redisRepo.ExtendTTL(memberID, sessionTTL)
ExtendSession(c) ==
    /\ pc[c] = "extend"
    /\ ExtendTTL(who[c], SessionTTL)
    /\ Answered(c, "ok")
    /\ UNCHANGED <<memberVars, status, op, who, left>>

CheckSessionTimeout(c) ==
    \E t \in Calls :
        /\ Issued(t)
        /\ Begin(c, who[t], "check", IF Parses(t) THEN "read" ELSE "expired")
        /\ UNCHANGED left

\* redisRepo.GetTTL(memberID): the session has timed out unless it is positive.
ReadTTL(c) ==
    /\ pc[c] = "read"
    /\ \E time \in GetTTL(who[c]) :
          Answered(c, IF time > 0 THEN "ok" ELSE "expired")
    /\ UNCHANGED <<memberVars, status, op, who, left, ttl>>

Step(c) ==
    \/ StoreSession(c)  \/ SetOnline(c)  \/ DropSession(c)  \/ SetOffline(c)
    \/ ExtendSession(c) \/ ReadTTL(c)

-----------------------------------------------------------------------------
\* A unit of time passes: keys and tokens expire.  Nobody is told.
Tick ==
    /\ \/ \E m \in Registrations : ttl[m] \in 1..SessionTTL
       \/ \E t \in Calls : left[t] > 0
    /\ ttl' = [m \in Registrations |->
                 IF ttl[m] \in 1..SessionTTL THEN ttl[m] - 1 ELSE ttl[m]]
    /\ left' = [t \in Calls |-> IF left[t] > 0 THEN left[t] - 1 ELSE 0]
    /\ UNCHANGED <<memberVars, status, callVars, messy, faults>>

Next ==
    \/ \E r \in Registrations : RegisterFind(r) \/ RegisterInsert(r)
    \/ \E c \in Calls :
          \/ Login(c) \/ Logout(c) \/ GatewayLogout(c) \/ ForceLogout(c)
          \/ ReconnectSession(c) \/ CheckSessionTimeout(c)
          \/ Step(c) \/ FailCall(c)
    \/ Tick

Spec == Init /\ [][Next]_vars

\* Time passes.
FairSpec == Spec /\ WF_vars(Tick)

-----------------------------------------------------------------------------
(***************************************************************************)
(* Properties                                                              *)
(***************************************************************************)
Live(m) == ttl[m] > 0

(* Two registrations that both find an address free do not both get it:    *)
(* Register checks and inserts in two calls.                               *)
OneMemberPerEmail ==
    \A m, n \in members : Email[m] = Email[n] => m = n

(* A session that has ended, by expiry, Logout or ForceLogout, is opened   *)
(* again by Login only: a ReconnectSession that parsed its token before    *)
(* does not bring it back.                                                 *)
OnlyLoginOpensSession ==
    [][\A m \in Registrations :
          ~Live(m) /\ Live(m)' =>
              \E c \in Calls : op[c] = "login" /\ who[c] = m /\ pc[c] = "store"]_vars

(* Redis and PostgreSQL agree on a member unless a login failed half way   *)
(* or overlapped a logout: between calls a live session is shown online,   *)
(* whatever logins, logouts, reconnections and expiries came before.  (Not *)
(* the other way round: nothing writes "offline" when a key expires.)      *)
LiveIsOnline ==
    \A m \in Registrations \ messy :
        Live(m) /\ ~(\E c \in Calls : Busy(c, m)) => status[m] = "online"

(* No session is kept for ever: every write of the key, and every          *)
(* reconnection, leaves it with an expiry.                                 *)
SessionsEnd == \A m \in Registrations : <>[]~Live(m)

(* user_service.feature, scenario "force logout": the session is cleared   *)
(* at once and the member must log in again before going on.               *)
MustLoginAgain ==
    \A c, t \in Calls :
        /\ op[c] = "force" /\ pc[c] = "ok"
        /\ ~Live(who[c])
        /\ Issued(t) /\ who[t] = who[c]
        => ~Admits(t)
=============================================================================
