---------------------------- MODULE ChatMessages ----------------------------
(***************************************************************************)
(* The messages of one chat room: SendMessageUseCase on the collection of  *)
(* buckets (one document per room and day, with an array of messages), and *)
(* the notification of the members through Redis pub/sub.                  *)
(*                                                                         *)
(* Execute and MarkRead read a bucket and write the whole bucket back, in  *)
(* two database calls; the websocket connections of several members run    *)
(* them concurrently, and midnight may pass in between.  Rooms share       *)
(* nothing (every filter names the room), so one room is enough.           *)
(*                                                                         *)
(* A message is named after the call that sends it.  FindOne and UpdateOne *)
(* with the same filter take the first document in the order of insertion. *)
(***************************************************************************)
EXTENDS Integers, Sequences, SequencesExt

CONSTANTS
    Users,      \* member IDs
    Members,    \* the array members of the room
    Calls,      \* send_message and read_message requests
    None,       \* no user, no message
    LastDay,    \* bound on the number of days
    MaxFaults   \* bound on the number of failing calls to MongoDB and Redis

ASSUME NoneAssumption    == None \notin Users \cup Calls
ASSUME MembersAssumption == Members \subseteq Users
ASSUME BoundAssumption   == LastDay \in Nat \ {0} /\ MaxFaults \in Nat

VARIABLES
    today,      \* the date
    buckets,    \* buckets[d]: the documents of day d, in the order of insertion
    op,         \* op[c]: "send" or "read"
    pc,         \* pc[c]: the next step of call c, or its answer
    by,         \* by[c]: the member who makes it
    about,      \* about[c]: the message a read marks
    day,        \* day[c]: the date call c works with
    copy,       \* copy[c]: the messages it has read
    todo,       \* todo[c]: the members it has still to notify
    online,     \* members whose websocket connection is subscribed
    received,   \* received[u]: the messages pushed to the connection of u
    clobbered,  \* days a write lost or hid another one (history)
    faults      \* number of faults so far

callVars == <<op, by, about>>
pushVars == <<online, received>>
vars == <<today, buckets, callVars, pc, day, copy, todo, pushVars, clobbered,
          faults>>

Days     == 1..LastDay
Messages == [id : Calls, readBy : SUBSET Users]
Pending  == {"find", "insert", "append", "publish", "rewrite"}

TypeOK ==
    /\ today \in Days
    /\ buckets \in [Days -> Seq(Seq(Messages))]
    /\ op \in [Calls -> {"none", "send", "read"}]
    /\ pc \in [Calls -> {"new", "ok", "failed"} \cup Pending]
    /\ by \in [Calls -> Users \cup {None}]
    /\ about \in [Calls -> Calls \cup {None}]
    /\ day \in [Calls -> Days \cup {0}]
    /\ copy \in [Calls -> Seq(Messages)]
    /\ todo \in [Calls -> SUBSET Users]
    /\ online \in SUBSET Users
    /\ received \in [Users -> SUBSET Calls]
    /\ clobbered \in SUBSET Days
    /\ faults \in Nat

Init ==
    /\ today = 1
    /\ buckets = [d \in Days |-> <<>>]
    /\ op = [c \in Calls |-> "none"]
    /\ pc = [c \in Calls |-> "new"]
    /\ by = [c \in Calls |-> None]
    /\ about = [c \in Calls |-> None]
    /\ day = [c \in Calls |-> 0]
    /\ copy = [c \in Calls |-> <<>>]
    /\ todo = [c \in Calls |-> {}]
    /\ online = {}
    /\ received = [u \in Users |-> {}]
    /\ clobbered = {}
    /\ faults = 0

-----------------------------------------------------------------------------
Fault == faults < MaxFaults /\ faults' = faults + 1

Goto(c, next) == pc' = [pc EXCEPT ![c] = next]

Answered(c, next) ==
    \/ Goto(c, next) /\ UNCHANGED faults
    \/ Goto(c, "failed") /\ Fault

Begin(c, o, u, x, next) ==
    /\ pc[c] = "new"
    /\ op' = [op EXCEPT ![c] = o]
    /\ by' = [by EXCEPT ![c] = u]
    /\ about' = [about EXCEPT ![c] = x]
    /\ Goto(c, next)

\* A call to MongoDB fails without effect, or the process dies.
FailCall(c) ==
    /\ pc[c] \in Pending
    /\ Goto(c, "failed")
    /\ Fault
    /\ UNCHANGED <<today, buckets, callVars, day, copy, todo, pushVars,
                   clobbered>>

\* Mutant: UpdateOne takes the last document where FindOne takes the first.
UpdateLastBucket(d, list) ==
    buckets' = [buckets EXCEPT ![d] = [@ EXCEPT ![Len(@)] = list]]

\* UpdateBucket: $set of the whole bucket in the first document of its day.
UpdateBucket(d, list) ==
    buckets' = [buckets EXCEPT ![d] = [@ EXCEPT ![1] = list]]

\* The first document is not the one the call has read any more.
Stale(c) == Head(buckets[day[c]]) # copy[c]

Clobbers(d, hides) == clobbered' = IF hides THEN clobbered \cup {d} ELSE clobbered

-----------------------------------------------------------------------------
(* Execute *)

\* roomRepo.FindByID.  Whether the sender is a member is not asked.
Send(c) ==
    /\ \E u \in Users :
          /\ Begin(c, "send", u, None, "find")
          /\ todo' = [todo EXCEPT ![c] = Members \ {u}]
    /\ UNCHANGED <<today, buckets, day, copy, pushVars, clobbered, faults>>

\* The date, and FindBucket: any error counts as "no bucket yet".
FindBucket(c) ==
    /\ pc[c] = "find"
    /\ day' = [day EXCEPT ![c] = today]
    /\ \/ /\ buckets[today] # <<>>
          /\ copy' = [copy EXCEPT ![c] = Head(buckets[today])]
          /\ Goto(c, "append")
          /\ UNCHANGED faults
       \/ /\ (buckets[today] = <<>> /\ UNCHANGED faults) \/ Fault
          /\ Goto(c, "insert")
          /\ UNCHANGED copy
    /\ UNCHANGED <<today, buckets, callVars, todo, pushVars, clobbered>>

\* Mutant: the message is stored with the room's members as readers, and
\* the name of the room for the sender.
NewMessageOfRoom(c) == [id |-> c, readBy |-> Members \cup {None}]

NewMessage(c) == [id |-> c, readBy |-> {by[c]}]

\* InsertMessages: no unique index, so a second document is possible.
InsertBucket(c) ==
    /\ pc[c] = "insert"
    /\ buckets' = [buckets EXCEPT ![day[c]] = Append(@, <<NewMessage(c)>>)]
    /\ Clobbers(day[c], buckets[day[c]] # <<>>)
    /\ Answered(c, "publish")
    /\ UNCHANGED <<today, callVars, day, copy, todo, pushVars>>

\* Mutant: the new message is put in front, as the newest.
AppendInFront(c) ==
    /\ pc[c] = "append"
    /\ UpdateBucket(day[c], <<NewMessage(c)>> \o copy[c])
    /\ Clobbers(day[c], Stale(c))
    /\ Answered(c, "publish")
    /\ UNCHANGED <<today, callVars, day, copy, todo, pushVars>>

AppendMessage(c) ==
    /\ pc[c] = "append"
    /\ UpdateBucket(day[c], Append(copy[c], NewMessage(c)))
    /\ Clobbers(day[c], Stale(c))
    /\ Answered(c, "publish")
    /\ UNCHANGED <<today, callVars, day, copy, todo, pushVars>>

\* The channel HandleConnection subscribes for a member, and the channel
\* Execute publishes to.
SubscribedChannel(u) == <<"chat:user:", u>>
PublishedChannel(u)  == <<u>>

\* memberPubSub.Publish: Redis hands the message to those who are subscribed
\* now; an error is logged and ignored.
Publish(c) ==
    /\ pc[c] = "publish"
    /\ \E m \in todo[c] :
          /\ todo' = [todo EXCEPT ![c] = @ \ {m}]
          /\ \/ /\ received' =
                      [u \in Users |->
                         IF u \in online /\ SubscribedChannel(u) = PublishedChannel(m)
                         THEN received[u] \cup {c} ELSE received[u]]
                /\ UNCHANGED faults
             \/ Fault /\ UNCHANGED received
    /\ UNCHANGED <<today, buckets, callVars, pc, day, copy, online, clobbered>>

Sent(c) ==
    /\ pc[c] = "publish"
    /\ todo[c] = {}
    /\ Goto(c, "ok")
    /\ UNCHANGED <<today, buckets, callVars, day, copy, todo, pushVars,
                   clobbered, faults>>

-----------------------------------------------------------------------------
(* MarkRead *)

\* The date, FindBucket and the loop over the messages of that one bucket.
\* The copy kept is the bucket as read; the loop's result is MarkedCopy.
MarkFind(c) ==
    \E u \in Users, x \in Calls :
        LET found == /\ buckets[today] # <<>>
                     /\ \E msg \in ToSet(Head(buckets[today])) :
                           msg.id = x /\ u \notin msg.readBy
        IN
        /\ pc[x] # "new" /\ op[x] = "send"
        /\ Begin(c, "read", u, x, IF found THEN "rewrite" ELSE "failed")
        /\ day' = [day EXCEPT ![c] = today]
        /\ copy' = [copy EXCEPT ![c] = IF found THEN Head(buckets[today]) ELSE @]
        /\ UNCHANGED <<today, buckets, todo, pushVars, clobbered, faults>>

\* Mutant: only the message that was looked for is kept.
MarkedMessage(c) ==
    SelectSeq([k \in DOMAIN copy[c] |->
                 [copy[c][k] EXCEPT !.readBy = @ \cup {by[c]}]],
              LAMBDA msg : msg.id = about[c])

\* Mutant: the loop does not look at the message ID.
MarkedAll(c) ==
    [k \in DOMAIN copy[c] |-> [copy[c][k] EXCEPT !.readBy = @ \cup {by[c]}]]

MarkedCopy(c) ==
    [k \in DOMAIN copy[c] |->
       IF copy[c][k].id = about[c]
       THEN [copy[c][k] EXCEPT !.readBy = @ \cup {by[c]}] ELSE copy[c][k]]

MarkWrite(c) ==
    /\ pc[c] = "rewrite"
    /\ UpdateBucket(day[c], MarkedCopy(c))
    /\ Clobbers(day[c], Stale(c))
    /\ Answered(c, "ok")
    /\ UNCHANGED <<today, callVars, day, copy, todo, pushVars>>

-----------------------------------------------------------------------------
(* What get_unread and enter_room answer.  They read and change nothing. *)

Unread(doc, u) == {k \in DOMAIN doc : u \notin doc[k].readBy}

\* CountUnreadMessagesByRoom: $unwind makes a row of every message of every
\* document, $match keeps what u has not read, whether u is a member of the
\* room or not.
Unwound(d, u) ==
    UNION {{<<d, i, k>> : k \in Unread(buckets[d][i], u)} : i \in DOMAIN buckets[d]}

CountUnread(u) == Cardinality(UNION {Unwound(d, u) : d \in Days})

\* FindEarliestUnread sorts the documents by date: the day of the bucket it
\* returns, 0 for none.
EarliestUnread(u) ==
    LET days == {d \in Days : \E doc \in ToSet(buckets[d]) : Unread(doc, u) # {}}
    IN IF days = {} THEN 0 ELSE Min(days)

\* FindMessagesBefore: the messages of the one bucket it reads, none with the
\* error.
MessagesBefore == IF buckets[today] = <<>> THEN {} ELSE ToSet(Head(buckets[today]))

\* The messages enter_room may list: one bucket with an unread message of the
\* earliest day that has one, in no order among the buckets of that day, or
\* else what FindMessagesBefore finds.
EnterRoom(u) ==
    IF EarliestUnread(u) = 0 THEN {MessagesBefore}
    ELSE {ToSet(doc) : doc \in {bucket \in ToSet(buckets[EarliestUnread(u)]) :
                                   Unread(bucket, u) # {}}}

-----------------------------------------------------------------------------
(* Connections and the calendar *)

\* HandleConnection subscribes the channel of the member.
Connect(u) ==
    /\ u \notin online
    /\ online' = online \cup {u}
    /\ UNCHANGED <<today, buckets, callVars, pc, day, copy, todo, received,
                   clobbered, faults>>

Disconnect(u) ==
    /\ u \in online
    /\ online' = online \ {u}
    /\ UNCHANGED <<today, buckets, callVars, pc, day, copy, todo, received,
                   clobbered, faults>>

Midnight ==
    /\ today < LastDay
    /\ today' = today + 1
    /\ UNCHANGED <<buckets, callVars, pc, day, copy, todo, pushVars, clobbered,
                   faults>>

Step(c) ==
    \/ FindBucket(c) \/ InsertBucket(c) \/ AppendMessage(c)
    \/ Publish(c)    \/ Sent(c)         \/ MarkWrite(c)

Next ==
    \/ \E c \in Calls : Send(c) \/ MarkFind(c) \/ Step(c) \/ FailCall(c)
    \/ \E u \in Users : Connect(u) \/ Disconnect(u)
    \/ Midnight

Spec == Init /\ [][Next]_vars

\* A request that has begun goes on.
FairSpec == Spec /\ \A c \in Calls : WF_vars(Step(c))

-----------------------------------------------------------------------------
(***************************************************************************)
(* Properties                                                              *)
(***************************************************************************)
(* A message is in one place only: overlapping sends that leave two        *)
(* buckets for a day, copies written back late and midnight between the    *)
(* read and the write never put it into a second bucket or day.            *)
OneCopy ==
    \A d, e \in Days : \A i \in DOMAIN buckets[d], j \in DOMAIN buckets[e] :
        \A k \in DOMAIN buckets[d][i], n \in DOMAIN buckets[e][j] :
            buckets[d][i][k].id = buckets[e][j][n].id => <<d, i, k>> = <<e, j, n>>

(* Nobody is recorded as a reader of a message who has neither sent it nor *)
(* asked to mark it, and its sender always is: the unread counts err on    *)
(* the side of "unread" only.                                              *)
ReadIsGenuine ==
    \A d \in Days : \A doc \in ToSet(buckets[d]) : \A msg \in ToSet(doc) :
        /\ by[msg.id] \in msg.readBy
        /\ \A u \in msg.readBy \ {by[msg.id]} :
              \E c \in Calls : op[c] = "read" /\ by[c] = u /\ about[c] = msg.id

(* Calls that do not overlap on the bucket of a day lose nothing, over     *)
(* any number of sends, reads and midnights: what was sent is in the       *)
(* bucket that is read back, and what was marked read is marked there.     *)
SerialCallsLoseNothing ==
    \A c \in Calls :
        /\ pc[c] \in {"publish", "ok"}
        /\ day[c] \notin clobbered
        => /\ Len(buckets[day[c]]) = 1
           /\ \E msg \in ToSet(Head(buckets[day[c]])) :
                 IF op[c] = "send" THEN msg.id = c
                 ELSE msg.id = about[c] /\ by[c] \in msg.readBy

(* A message stays unread for a member until that member marks it read,    *)
(* unless overlapping calls have lost or hidden messages of its day.       *)
UnreadIsKept ==
    [][\A u \in Users, d \in Days :
          \A doc \in ToSet(buckets[d]) : \A k \in Unread(doc, u) :
              \/ \E new \in ToSet(buckets'[d]) : \E n \in Unread(new, u) :
                    new[n].id = doc[k].id
              \/ d \in clobbered'
              \/ \E c \in Calls : /\ pc[c] = "rewrite" /\ pc'[c] # "rewrite"
                                 /\ by[c] = u /\ about[c] = doc[k].id]_vars

\* The bucket of each day that FindBucket finds, where no write overlapped.
Shown ==
    [d \in Days |-> IF d \in clobbered \/ buckets[d] = <<>> THEN <<>>
                   ELSE Head(buckets[d])]

Log == INSTANCE MessageLog WITH Names <- Calls, log <- Shown, torn <- clobbered

(* The buckets are a MessageLog: outside the days of overlapping writes a  *)
(* message goes to the end of its day's bucket, once, and from then on it  *)
(* only gains readers, one at a time; no message changes its place, its    *)
(* sender or its day, whichever calls, midnights and errors come between.  *)
ImplementsLog == Log!Spec

(* websocket_handler.go: "a message is written to the database and sent to *)
(* the members of the room".  A member of the room who stays connected     *)
(* receives a message that was sent (chat_service.feature: "memberB should *)
(* receive the message").                                                  *)
MembersReceive ==
    \A c \in Calls, u \in Members :
        op[c] = "send" /\ by[c] # u ~>
            c \in received[u] \/ u \notin online \/ pc[c] = "failed"

(* message_repository.go: "find all the messages of the room the user has  *)
(* not read", "fetched from several buckets".  What enter_room shows a     *)
(* member holds every message that get_unread counts for that member.      *)
EnterRoomShowsUnread ==
    \A u \in Users : \A shown \in EnterRoom(u) :
        Cardinality({msg \in shown : u \notin msg.readBy}) = CountUnread(u)
=============================================================================
