------------------------- MODULE ChatMessagesProofs -------------------------
(* Theorems about ChatMessages, and their proofs.                           *)
EXTENDS ChatMessages, TLAPS, SequenceTheorems, FiniteSetTheorems, WellFoundedInduction

USE NoneAssumption, MembersAssumption, BoundAssumption

-----------------------------------------------------------------------------
(* The invariant.                                                           *)

\* The next step of a call tells what it is, and what it has found.
CallConsistent(c) ==
    /\ pc[c] = "new" => op[c] = "none"
    /\ pc[c] # "new" => by[c] \in Users
    /\ pc[c] \in {"find", "insert", "append", "publish"} => op[c] = "send"
    /\ pc[c] = "rewrite" => op[c] = "read"
    /\ pc[c] \in {"insert", "append", "rewrite"} => day[c] \in Days
    /\ pc[c] \in {"append", "rewrite"} => buckets[day[c]] # <<>>

TypeInv == TypeOK /\ \A c \in Calls : CallConsistent(c)

\* Calls that have stored their message, or never will.
Past == {"publish", "ok", "failed"}

\* A message of day d that is in the database or in somebody's copy.
Known(msg, d) == op[msg.id] = "send" /\ pc[msg.id] \in Past /\ day[msg.id] = d

Genuine(msg) ==
    /\ by[msg.id] \in msg.readBy
    /\ \A u \in msg.readBy \ {by[msg.id]} :
          \E c \in Calls : op[c] = "read" /\ by[c] = u /\ about[c] = msg.id

Distinct(doc) == \A k, n \in DOMAIN doc : doc[k].id = doc[n].id => k = n

Apart(doc, other) == \A k \in DOMAIN doc, n \in DOMAIN other : doc[k].id # other[n].id

\* A document of day d: what it holds was sent that day.
Proper(doc, d) ==
    /\ Distinct(doc)
    /\ \A k \in DOMAIN doc : Known(doc[k], d) /\ Genuine(doc[k])

\* The copy of a call that is going to write is a version of the first
\* document, and stays apart from the others.
Writing(c) == pc[c] \in {"append", "rewrite"}

CopyProper(c) ==
    /\ Proper(copy[c], day[c])
    /\ \A i \in DOMAIN buckets[day[c]] : i # 1 => Apart(buckets[day[c]][i], copy[c])

BucketsProper ==
    \A d \in Days :
        /\ \A i \in DOMAIN buckets[d] : Proper(buckets[d][i], d)
        /\ \A i, j \in DOMAIN buckets[d] : i # j => Apart(buckets[d][i], buckets[d][j])

MessagesInv ==
    /\ TypeInv
    /\ BucketsProper
    /\ \A c \in Calls : Writing(c) => CopyProper(c)

-----------------------------------------------------------------------------
(* Types *)

LEMMA InitType == Init => TypeInv
  BY DEF Init, TypeInv, TypeOK, CallConsistent, Days, Pending

LEMMA NewMessageType ==
    ASSUME TypeInv, NEW c \in Calls, pc[c] # "new"
    PROVE  NewMessage(c) \in Messages
  BY DEF TypeInv, TypeOK, CallConsistent, NewMessage, Messages

LEMMA MarkedType ==
    ASSUME TypeInv, NEW c \in Calls, pc[c] = "rewrite"
    PROVE  /\ MarkedCopy(c) \in Seq(Messages)
           /\ DOMAIN MarkedCopy(c) = DOMAIN copy[c]
           /\ \A k \in DOMAIN copy[c] :
                 /\ MarkedCopy(c)[k].id = copy[c][k].id
                 /\ MarkedCopy(c)[k].readBy =
                       IF copy[c][k].id = about[c] THEN copy[c][k].readBy \cup {by[c]}
                       ELSE copy[c][k].readBy
  <1>1. copy[c] \in Seq(Messages) /\ by[c] \in Users
    BY DEF TypeInv, TypeOK, CallConsistent
  <1>2. \A k \in DOMAIN copy[c] : copy[c][k] \in Messages
    BY <1>1
  <1>3. DOMAIN MarkedCopy(c) = DOMAIN copy[c]
    BY DEF MarkedCopy
  <1>4. ASSUME NEW k \in DOMAIN copy[c]
        PROVE  /\ MarkedCopy(c)[k] \in Messages
               /\ MarkedCopy(c)[k].id = copy[c][k].id
               /\ MarkedCopy(c)[k].readBy =
                     IF copy[c][k].id = about[c] THEN copy[c][k].readBy \cup {by[c]}
                     ELSE copy[c][k].readBy
    <2> DEFINE msg == copy[c][k]
               new == [msg EXCEPT !.readBy = @ \cup {by[c]}]
    <2>1. msg \in Messages
      BY <1>2
    <2>2. MarkedCopy(c)[k] = IF msg.id = about[c] THEN new ELSE msg
      BY DEF MarkedCopy
    <2>3. new \in Messages /\ new.id = msg.id /\ new.readBy = msg.readBy \cup {by[c]}
      BY <1>1, <2>1 DEF Messages
    <2>4. QED  BY <2>1, <2>2, <2>3
  <1>5. MarkedCopy(c) \in Seq(Messages)
    <2>1. Len(copy[c]) \in Nat /\ DOMAIN copy[c] = 1..Len(copy[c])
      BY <1>1
    <2>2. MarkedCopy(c) = [k \in 1..Len(copy[c]) |-> MarkedCopy(c)[k]]
      BY <2>1 DEF MarkedCopy
    <2>3. MarkedCopy(c) \in [1..Len(copy[c]) -> Messages]
      BY <1>4, <2>1, <2>2
    <2>4. QED  BY <2>1, <2>3, SeqDef
  <1>6. QED  BY <1>3, <1>4, <1>5

\* What UpdateBucket and InsertMessages do to the documents.
LEMMA UpdateShape ==
    ASSUME TypeInv, NEW d \in Days, buckets[d] # <<>>, NEW list \in Seq(Messages),
           UpdateBucket(d, list)
    PROVE  /\ buckets' \in [Days -> Seq(Seq(Messages))]
           /\ \A e \in Days : DOMAIN buckets'[e] = DOMAIN buckets[e]
           /\ \A e \in Days \ {d} : buckets'[e] = buckets[e]
           /\ buckets'[d][1] = list
           /\ \A i \in DOMAIN buckets[d] \ {1} : buckets'[d][i] = buckets[d][i]
           /\ \A e \in Days : buckets[e] # <<>> => buckets'[e] # <<>>
  <1>1. buckets \in [Days -> Seq(Seq(Messages))] /\ buckets[d] \in Seq(Seq(Messages))
    BY DEF TypeInv, TypeOK
  <1>2. 1 \in DOMAIN buckets[d]
    BY <1>1
  <1>3. buckets'[d] = [buckets[d] EXCEPT ![1] = list]
    BY <1>1 DEF UpdateBucket
  <1>4. buckets'[d] \in Seq(Seq(Messages)) /\ DOMAIN buckets'[d] = DOMAIN buckets[d]
    BY <1>1, <1>2, <1>3
  <1>5. \A e \in Days \ {d} : buckets'[e] = buckets[e]
    BY <1>1 DEF UpdateBucket
  <1>6. buckets' \in [Days -> Seq(Seq(Messages))]
    BY <1>1, <1>3, <1>4 DEF UpdateBucket
  <1>7. buckets'[d] # <<>>
    BY <1>2, <1>4
  <1>8. QED  BY <1>1, <1>2, <1>3, <1>4, <1>5, <1>6, <1>7

LEMMA InsertShape ==
    ASSUME TypeInv, NEW d \in Days, NEW doc \in Seq(Messages),
           buckets' = [buckets EXCEPT ![d] = Append(@, doc)]
    PROVE  /\ buckets' \in [Days -> Seq(Seq(Messages))]
           /\ \A e \in Days \ {d} : buckets'[e] = buckets[e]
           /\ DOMAIN buckets'[d] = DOMAIN buckets[d] \cup {Len(buckets[d]) + 1}
           /\ Len(buckets[d]) + 1 \notin DOMAIN buckets[d]
           /\ buckets'[d][Len(buckets[d]) + 1] = doc
           /\ \A i \in DOMAIN buckets[d] : buckets'[d][i] = buckets[d][i]
           /\ \A e \in Days : buckets[e] # <<>> => buckets'[e] # <<>>
  <1>1. buckets \in [Days -> Seq(Seq(Messages))] /\ buckets[d] \in Seq(Seq(Messages))
    BY DEF TypeInv, TypeOK
  <1>2. buckets'[d] = Append(buckets[d], doc)
    BY <1>1
  <1>3. \A e \in Days \ {d} : buckets'[e] = buckets[e]
    BY <1>1
  <1>4. buckets' \in [Days -> Seq(Seq(Messages))]
    BY <1>1
  <1>5. buckets'[d] # <<>>
    <2>1. Len(buckets'[d]) = Len(buckets[d]) + 1 /\ Len(buckets[d]) \in Nat
      BY <1>1, <1>2
    <2>2. QED  BY <2>1
  <1>6. QED  BY <1>1, <1>2, <1>3, <1>4, <1>5

LEMMA AnsweredType ==
    ASSUME TypeOK, NEW c \in Calls, NEW next \in Past, Answered(c, next)
    PROVE  /\ faults' \in Nat
           /\ \/ pc' = [pc EXCEPT ![c] = next]
              \/ pc' = [pc EXCEPT ![c] = "failed"]
  BY DEF TypeOK, Answered, Goto, Fault, Past

\* A call that writes the documents of its day, and does not write again.
LEMMA WriteType ==
    ASSUME TypeInv, NEW c \in Calls, pc[c] \in {"insert", "append", "rewrite"},
           NEW next \in Past, Answered(c, next), next = "publish" => op[c] = "send",
           clobbered' \in SUBSET Days, buckets' \in [Days -> Seq(Seq(Messages))],
           \A e \in Days : buckets[e] # <<>> => buckets'[e] # <<>>,
           UNCHANGED <<today, callVars, day, copy, todo, pushVars>>
    PROVE  TypeInv'
  <1>0. TypeOK /\ day[c] \in Days
    BY DEF TypeInv, CallConsistent
  <1>1. PICK last \in Past : pc' = [pc EXCEPT ![c] = last] /\ last \in {next, "failed"}
    BY <1>0, AnsweredType DEF Past
  <1>2. faults' \in Nat
    BY <1>0, AnsweredType
  <1>3. TypeOK'
    BY <1>0, <1>1, <1>2 DEF TypeOK, Past, Pending, callVars, pushVars
  <1>4. ASSUME NEW x \in Calls PROVE CallConsistent(x)'
    <2>1. CallConsistent(x) /\ UNCHANGED <<op, by, day>>
      BY DEF TypeInv, callVars
    <2>2. CASE x = c
      BY <1>0, <1>1, <2>1, <2>2 DEF CallConsistent, TypeOK, Past
    <2>3. CASE x # c
      <3>1. pc'[x] = pc[x]
        BY <1>0, <1>1, <2>3 DEF TypeOK
      <3>2. QED  BY <2>1, <3>1 DEF CallConsistent
    <2>4. QED  BY <2>2, <2>3
  <1>5. QED  BY <1>3, <1>4 DEF TypeInv

LEMMA TypeStep ==
    ASSUME TypeInv, [Next]_vars
    PROVE  TypeInv'
  <1>0. TypeOK
    BY DEF TypeInv
  <1>1. ASSUME NEW c \in Calls, Send(c) PROVE TypeInv'
    BY <1>0, <1>1 DEF Send, Begin, Goto, TypeInv, TypeOK, CallConsistent, Pending,
       pushVars
  <1>2. ASSUME NEW c \in Calls, MarkFind(c) PROVE TypeInv'
    <2>1. PICK u \in Users, x \in Calls, next \in {"rewrite", "failed"} :
            /\ Begin(c, "read", u, x, next)
            /\ next = "rewrite" => buckets[today] # <<>>
            /\ copy' = [copy EXCEPT ![c] = IF next = "rewrite" THEN Head(buckets[today]) ELSE @]
            /\ day' = [day EXCEPT ![c] = today]
            /\ UNCHANGED <<today, buckets, todo, pushVars, clobbered, faults>>
      BY <1>2, Zenon DEF MarkFind
    <2>2. copy' \in [Calls -> Seq(Messages)]
      <3>1. buckets[today] \in Seq(Seq(Messages))
        BY <1>0 DEF TypeOK
      <3>2. QED  BY <1>0, <2>1, <3>1 DEF TypeOK
    <2>3. TypeOK'
      BY <1>0, <2>1, <2>2 DEF Begin, Goto, TypeOK, Pending, pushVars
    <2>4. ASSUME NEW y \in Calls PROVE CallConsistent(y)'
      BY <1>0, <2>1 DEF Begin, Goto, TypeInv, TypeOK, CallConsistent
    <2>5. QED  BY <2>3, <2>4 DEF TypeInv
  <1>3. ASSUME NEW c \in Calls, FindBucket(c) PROVE TypeInv'
    <2>1. PICK next \in {"append", "insert"} :
            /\ pc' = [pc EXCEPT ![c] = next]
            /\ next = "append" => /\ buckets[today] # <<>>
                                  /\ copy' = [copy EXCEPT ![c] = Head(buckets[today])]
            /\ next = "insert" => copy' = copy
            /\ faults' \in Nat
      <3>1. CASE UNCHANGED copy
        BY <1>0, <1>3, <3>1 DEF FindBucket, Goto, Fault, TypeOK
      <3>2. CASE copy' # copy
        <4>1. /\ buckets[today] # <<>> /\ UNCHANGED faults
              /\ copy' = [copy EXCEPT ![c] = Head(buckets[today])]
              /\ pc' = [pc EXCEPT ![c] = "append"]
          BY <1>3, <3>2, Zenon DEF FindBucket, Goto
        <4>2. QED  BY <1>0, <4>1, Zenon DEF TypeOK
      <3>3. QED  BY <3>1, <3>2
    <2>2. copy' \in [Calls -> Seq(Messages)]
      <3>1. buckets[today] \in Seq(Seq(Messages))
        BY <1>0 DEF TypeOK
      <3>2. CASE copy' = copy
        BY <1>0, <3>2 DEF TypeOK
      <3>3. CASE copy' # copy
        <4>1. buckets[today] # <<>> /\ copy' = [copy EXCEPT ![c] = Head(buckets[today])]
          BY <2>1, <3>3
        <4>2. Head(buckets[today]) \in Seq(Messages)
          BY <3>1, <4>1
        <4>3. QED  BY <1>0, <4>1, <4>2 DEF TypeOK
      <3>4. QED  BY <3>2, <3>3
    <2>3. /\ pc[c] = "find" /\ day' = [day EXCEPT ![c] = today]
          /\ UNCHANGED <<today, buckets, op, by, about, todo, online, received, clobbered>>
      BY <1>3 DEF FindBucket, callVars, pushVars
    <2>4. TypeOK'
      BY <1>0, <2>1, <2>2, <2>3 DEF TypeOK, Pending
    <2>5. ASSUME NEW y \in Calls PROVE CallConsistent(y)'
      BY <1>0, <2>1, <2>3 DEF TypeInv, TypeOK, CallConsistent
    <2>6. QED  BY <2>4, <2>5 DEF TypeInv
  <1>4. ASSUME NEW c \in Calls, InsertBucket(c) PROVE TypeInv'
    <2>1. /\ pc[c] = "insert" /\ op[c] = "send" /\ day[c] \in Days
          /\ <<NewMessage(c)>> \in Seq(Messages)
      BY <1>4, NewMessageType DEF InsertBucket, TypeInv, CallConsistent
    <2>2. /\ buckets' \in [Days -> Seq(Seq(Messages))]
          /\ \A e \in Days : buckets[e] # <<>> => buckets'[e] # <<>>
      BY <1>4, <2>1, InsertShape DEF InsertBucket
    <2>3. clobbered' \in SUBSET Days
      BY <1>0, <1>4, <2>1 DEF InsertBucket, Clobbers, TypeOK
    <2>4. QED
      BY <1>4, <2>1, <2>2, <2>3, WriteType DEF InsertBucket, Past
  <1>5. ASSUME NEW c \in Calls, AppendMessage(c) PROVE TypeInv'
    <2>1. /\ pc[c] = "append" /\ op[c] = "send" /\ day[c] \in Days
          /\ buckets[day[c]] # <<>>
          /\ Append(copy[c], NewMessage(c)) \in Seq(Messages)
      BY <1>0, <1>5, NewMessageType DEF AppendMessage, TypeInv, TypeOK, CallConsistent
    <2>2. /\ buckets' \in [Days -> Seq(Seq(Messages))]
          /\ \A e \in Days : buckets[e] # <<>> => buckets'[e] # <<>>
      BY <1>5, <2>1, UpdateShape DEF AppendMessage
    <2>3. clobbered' \in SUBSET Days
      BY <1>0, <1>5, <2>1 DEF AppendMessage, Clobbers, TypeOK
    <2>4. QED
      BY <1>5, <2>1, <2>2, <2>3, WriteType DEF AppendMessage, Past
  <1>6. ASSUME NEW c \in Calls, MarkWrite(c) PROVE TypeInv'
    <2>1. /\ pc[c] = "rewrite" /\ MarkedCopy(c) \in Seq(Messages)
          /\ day[c] \in Days /\ buckets[day[c]] # <<>>
      BY <1>6, MarkedType DEF MarkWrite, TypeInv, CallConsistent
    <2>2. /\ buckets' \in [Days -> Seq(Seq(Messages))]
          /\ \A e \in Days : buckets[e] # <<>> => buckets'[e] # <<>>
      BY <1>6, <2>1, UpdateShape DEF MarkWrite
    <2>3. clobbered' \in SUBSET Days
      BY <1>0, <1>6, <2>1 DEF MarkWrite, Clobbers, TypeOK
    <2>4. QED
      BY <1>6, <2>1, <2>2, <2>3, WriteType DEF MarkWrite, Past
  <1>7. ASSUME NEW c \in Calls, Publish(c) PROVE TypeInv'
    <2>1. received' \in [Users -> SUBSET Calls]
      <3>1. CASE UNCHANGED received
        BY <1>0, <3>1 DEF TypeOK
      <3>2. CASE received' # received
        <4> DEFINE Hears(u, m) == u \in online /\ SubscribedChannel(u) = PublishedChannel(m)
        <4>1. PICK m : received' = [u \in Users |-> IF Hears(u, m)
                                                   THEN received[u] \cup {c}
                                                   ELSE received[u]]
          BY <1>7, <3>2, Zenon DEF Publish
        <4> HIDE DEF Hears
        <4>2. ASSUME NEW u \in Users
              PROVE  (IF Hears(u, m) THEN received[u] \cup {c} ELSE received[u]) \in SUBSET Calls
          <5>1. received[u] \in SUBSET Calls
            BY <1>0 DEF TypeOK
          <5>2. QED  BY <5>1
        <4>3. QED  BY <4>1, <4>2
      <3>3. QED  BY <3>1, <3>2
    <2>2. todo' \in [Calls -> SUBSET Users] /\ faults' \in Nat
      BY <1>0, <1>7 DEF Publish, Fault, TypeOK
    <2>3. UNCHANGED <<today, buckets, op, by, about, pc, day, copy, online, clobbered>>
      BY <1>7 DEF Publish, callVars
    <2>4. QED
      BY <1>0, <2>1, <2>2, <2>3 DEF TypeInv, TypeOK, CallConsistent
  <1>8. ASSUME NEW c \in Calls, Sent(c) \/ FailCall(c) PROVE TypeInv'
    <2>1. /\ pc[c] # "new" /\ faults' \in Nat
          /\ \E next \in {"ok", "failed"} : pc' = [pc EXCEPT ![c] = next]
          /\ UNCHANGED <<today, buckets, op, by, about, day, copy, todo, online,
                         received, clobbered>>
      BY <1>0, <1>8 DEF Sent, FailCall, Goto, Fault, TypeOK, Pending, callVars, pushVars
    <2>2. TypeOK'
      BY <1>0, <2>1 DEF TypeOK, Pending
    <2>3. ASSUME NEW y \in Calls PROVE CallConsistent(y)'
      BY <1>0, <2>1 DEF TypeInv, TypeOK, CallConsistent
    <2>4. QED  BY <2>2, <2>3 DEF TypeInv
  <1>9. ASSUME NEW u \in Users, Connect(u) \/ Disconnect(u) PROVE TypeInv'
    BY <1>0, <1>9 DEF Connect, Disconnect, TypeInv, TypeOK, CallConsistent, callVars
  <1>10. CASE Midnight
    BY <1>0, <1>10 DEF Midnight, TypeInv, TypeOK, CallConsistent, callVars, pushVars,
       Days
  <1>11. CASE UNCHANGED vars
    <2>1. UNCHANGED <<today, buckets, op, by, about, pc, day, copy, todo, online,
                      received, clobbered, faults>>
      BY <1>11 DEF vars, callVars, pushVars
    <2>2. QED  BY <1>0, <2>1 DEF TypeInv, TypeOK, CallConsistent
  <1>12. QED
    BY <1>1, <1>2, <1>3, <1>4, <1>5, <1>6, <1>7, <1>8, <1>9, <1>10, <1>11
       DEF Next, Step

-----------------------------------------------------------------------------
(* Messages.  What is known of a message stays so.                          *)

LEMMA PastStep ==
    ASSUME TypeInv, [Next]_vars, NEW x \in Calls, pc[x] # "new"
    PROVE  /\ op'[x] = op[x] /\ by'[x] = by[x] /\ about'[x] = about[x]
           /\ pc[x] \in Past => pc'[x] \in Past /\ day'[x] = day[x]
           /\ Writing(x)' => \/ Writing(x) /\ day'[x] = day[x] /\ copy'[x] = copy[x]
                             \/ pc[x] = "find" /\ FindBucket(x)
  <1>0. TypeOK
    BY DEF TypeInv
  <1>1. ASSUME NEW c \in Calls, Send(c) \/ MarkFind(c)
        PROVE  x # c /\ \E n : pc' = [pc EXCEPT ![c] = n]
    BY <1>1 DEF Send, MarkFind, Begin, Goto
  <1>2. ASSUME NEW c \in Calls, Send(c) \/ MarkFind(c)
        PROVE  /\ op'[x] = op[x] /\ by'[x] = by[x] /\ about'[x] = about[x]
               /\ pc'[x] = pc[x] /\ day'[x] = day[x] /\ copy'[x] = copy[x]
    BY <1>0, <1>1, <1>2 DEF Send, MarkFind, Begin, Goto, TypeOK
  <1>3. ASSUME NEW c \in Calls, FindBucket(c)
        PROVE  /\ op'[x] = op[x] /\ by'[x] = by[x] /\ about'[x] = about[x]
               /\ x # c => pc'[x] = pc[x] /\ day'[x] = day[x] /\ copy'[x] = copy[x]
               /\ pc[c] = "find"
    BY <1>0, <1>3 DEF FindBucket, Goto, TypeOK, callVars
  <1>4. ASSUME NEW c \in Calls, InsertBucket(c) \/ AppendMessage(c) \/ MarkWrite(c)
        PROVE  /\ UNCHANGED <<op, by, about, day, copy>>
               /\ x # c => pc'[x] = pc[x]
               /\ pc'[c] \in Past
    BY <1>0, <1>4 DEF InsertBucket, AppendMessage, MarkWrite, Answered, Goto, TypeOK,
       callVars, Past
  <1>5. ASSUME NEW c \in Calls, Sent(c) \/ FailCall(c)
        PROVE  /\ UNCHANGED <<op, by, about, day, copy>>
               /\ x # c => pc'[x] = pc[x]
               /\ pc'[c] \in Past
    BY <1>0, <1>5 DEF Sent, FailCall, Goto, TypeOK, callVars, Past
  <1>6. ASSUME \/ \E c \in Calls : Publish(c)
               \/ \E u \in Users : Connect(u) \/ Disconnect(u)
               \/ Midnight
               \/ UNCHANGED vars
        PROVE  UNCHANGED <<op, by, about, pc, day, copy>>
    BY <1>6 DEF Publish, Connect, Disconnect, Midnight, vars, callVars
  <1>7. CASE \E c \in Calls : Send(c) \/ MarkFind(c)
    BY <1>2, <1>7 DEF Writing, Past
  <1>8. CASE \E c \in Calls : FindBucket(c)
    BY <1>3, <1>8 DEF Writing, Past
  <1>9. CASE \E c \in Calls : \/ InsertBucket(c) \/ AppendMessage(c) \/ MarkWrite(c)
                              \/ Sent(c) \/ FailCall(c)
    BY <1>4, <1>5, <1>9 DEF Writing, Past
  <1>10. CASE UNCHANGED <<op, by, about, pc, day, copy>>
    BY <1>10 DEF Writing
  <1>11. QED
    BY <1>6, <1>7, <1>8, <1>9, <1>10 DEF Next, Step

\* Proper, of a document that is there after the step.
ProperThen(doc, d) ==
    /\ Distinct(doc)
    /\ \A k \in DOMAIN doc :
          /\ op'[doc[k].id] = "send" /\ pc'[doc[k].id] \in Past
          /\ day'[doc[k].id] = d
          /\ by'[doc[k].id] \in doc[k].readBy
          /\ \A u \in doc[k].readBy \ {by'[doc[k].id]} :
                \E c \in Calls : op'[c] = "read" /\ by'[c] = u /\ about'[c] = doc[k].id

LEMMA ProperStep ==
    ASSUME TypeInv, [Next]_vars, NEW doc \in Seq(Messages), NEW d \in Days, Proper(doc, d)
    PROVE  ProperThen(doc, d)
  <1>1. ASSUME NEW k \in DOMAIN doc
        PROVE  /\ op'[doc[k].id] = "send" /\ pc'[doc[k].id] \in Past
               /\ day'[doc[k].id] = d
               /\ by'[doc[k].id] = by[doc[k].id]
    <2>0. doc[k] \in Messages
      OBVIOUS
    <2>1. doc[k].id \in Calls /\ Known(doc[k], d)
      BY <2>0 DEF Proper, Messages
    <2>2. pc[doc[k].id] # "new"
      BY <2>1 DEF Known, Past
    <2>3. QED  BY <2>1, <2>2, PastStep DEF Known
  <1>2. ASSUME NEW k \in DOMAIN doc, NEW u \in doc[k].readBy \ {by'[doc[k].id]}
        PROVE  \E c \in Calls : op'[c] = "read" /\ by'[c] = u /\ about'[c] = doc[k].id
    <2>1. PICK c \in Calls : op[c] = "read" /\ by[c] = u /\ about[c] = doc[k].id
      BY <1>1, <1>2 DEF Proper, Genuine
    <2>2. pc[c] # "new"
      BY <2>1 DEF TypeInv, CallConsistent
    <2>3. QED  BY <2>1, <2>2, PastStep
  <1>3. \A k \in DOMAIN doc : by'[doc[k].id] \in doc[k].readBy
    BY <1>1 DEF Proper, Genuine
  <1>4. QED  BY <1>1, <1>2, <1>3 DEF ProperThen, Proper

\* The invariant after the step, said of documents that are there after it.
BucketsThen ==
    \A d \in Days :
        /\ \A i \in DOMAIN buckets'[d] : ProperThen(buckets'[d][i], d)
        /\ \A i, j \in DOMAIN buckets'[d] : i # j => Apart(buckets'[d][i], buckets'[d][j])

CopyThen(x) ==
    /\ ProperThen(copy'[x], day'[x])
    /\ \A i \in DOMAIN buckets'[day'[x]] : i # 1 => Apart(buckets'[day'[x]][i], copy'[x])

LEMMA ThenInv ==
    ASSUME TypeInv', BucketsThen, \A x \in Calls : Writing(x)' => CopyThen(x)
    PROVE  MessagesInv'
  <1>1. BucketsProper'
    BY DEF BucketsThen, BucketsProper, Proper, ProperThen, Known, Genuine, Distinct, Apart
  <1>2. ASSUME NEW x \in Calls, Writing(x)' PROVE CopyProper(x)'
    <2>1. CopyThen(x)
      BY <1>2
    <2>2. QED
      BY <2>1 DEF CopyThen, CopyProper, Proper, ProperThen, Known, Genuine, Distinct, Apart
  <1>3. QED  BY <1>1, <1>2 DEF MessagesInv

\* A call that has its copy keeps it.
LEMMA CopyKept ==
    ASSUME MessagesInv, [Next]_vars, NEW x \in Calls, Writing(x),
           day'[x] = day[x], copy'[x] = copy[x],
           \A i \in DOMAIN buckets'[day[x]] :
              i # 1 => Apart(buckets'[day[x]][i], copy[x])
    PROVE  CopyThen(x)
  <1>1. copy[x] \in Seq(Messages) /\ day[x] \in Days
    BY DEF MessagesInv, TypeInv, TypeOK, CallConsistent, Writing
  <1>2. Proper(copy[x], day[x])
    BY DEF MessagesInv, CopyProper
  <1>3. ProperThen(copy[x], day[x])
    BY <1>1, <1>2, ProperStep DEF MessagesInv
  <1>4. QED  BY <1>3 DEF CopyThen

\* Steps that leave the documents alone.
LEMMA QuietStep ==
    ASSUME MessagesInv, [Next]_vars, UNCHANGED buckets
    PROVE  BucketsThen
  <1>0. TypeInv /\ BucketsProper /\ buckets \in [Days -> Seq(Seq(Messages))]
    BY DEF MessagesInv, TypeInv, TypeOK
  <1>1. ASSUME NEW d \in Days, NEW i \in DOMAIN buckets[d]
        PROVE  ProperThen(buckets[d][i], d)
    <2>1. buckets[d] \in Seq(Seq(Messages))
      BY <1>0
    <2>2. buckets[d][i] \in Seq(Messages)
      BY <2>1
    <2>3. QED  BY <1>0, <2>2, ProperStep DEF BucketsProper
  <1>2. QED  BY <1>0, <1>1 DEF BucketsThen, BucketsProper

\* A call that has just read the first document of the day.
LEMMA CopyRead ==
    ASSUME MessagesInv, [Next]_vars, UNCHANGED buckets, NEW x \in Calls,
           buckets[today] # <<>>, day'[x] = today, copy'[x] = Head(buckets[today])
    PROVE  CopyThen(x)
  <1>1. /\ today \in Days /\ buckets[today] \in Seq(Seq(Messages))
        /\ 1 \in DOMAIN buckets[today] /\ copy'[x] = buckets[today][1]
    BY DEF MessagesInv, TypeInv, TypeOK
  <1>2. ProperThen(buckets'[today][1], today)
    BY <1>1, QuietStep DEF BucketsThen
  <1>3. \A i \in DOMAIN buckets[today] : i # 1 => Apart(buckets[today][i], buckets[today][1])
    BY <1>1 DEF MessagesInv, BucketsProper
  <1>4. QED  BY <1>1, <1>2, <1>3 DEF CopyThen

\* A write to the first document, of a list that is proper and apart from the
\* other documents.
LEMMA UpdateStep ==
    ASSUME MessagesInv, [Next]_vars, TypeInv', NEW c \in Calls, Writing(c), ~Writing(c)',
           UNCHANGED <<day, copy>>, \A x \in Calls \ {c} : pc'[x] = pc[x],
           NEW list \in Seq(Messages), UpdateBucket(day[c], list),
           ProperThen(list, day[c]),
           \A i \in DOMAIN buckets[day[c]] :
              i # 1 => Apart(buckets[day[c]][i], list)
    PROVE  MessagesInv'
  <1> DEFINE d == day[c]
  <1>0. /\ TypeInv /\ BucketsProper /\ buckets \in [Days -> Seq(Seq(Messages))]
        /\ d \in Days /\ buckets[d] # <<>>
    BY DEF MessagesInv, TypeInv, TypeOK, CallConsistent, Writing
  <1>1. /\ \A e \in Days : DOMAIN buckets'[e] = DOMAIN buckets[e]
        /\ \A e \in Days \ {d} : buckets'[e] = buckets[e]
        /\ buckets'[d][1] = list
        /\ \A i \in DOMAIN buckets[d] \ {1} : buckets'[d][i] = buckets[d][i]
    BY <1>0, UpdateShape
  <1>2. ASSUME NEW e \in Days, NEW i \in DOMAIN buckets[e]
        PROVE  ProperThen(buckets[e][i], e)
    <2>1. buckets[e] \in Seq(Seq(Messages))
      BY <1>0
    <2>2. buckets[e][i] \in Seq(Messages)
      BY <2>1
    <2>3. QED  BY <1>0, <2>2, ProperStep DEF BucketsProper
  <1>3. \A e \in Days : \A i \in DOMAIN buckets'[e] : ProperThen(buckets'[e][i], e)
    BY <1>1, <1>2
  <1>4. ASSUME NEW e \in Days, NEW i \in DOMAIN buckets'[e], NEW j \in DOMAIN buckets'[e],
               i # j
        PROVE  Apart(buckets'[e][i], buckets'[e][j])
    <2>1. Apart(buckets[e][i], buckets[e][j])
      BY <1>0, <1>1, <1>4 DEF BucketsProper
    <2>2. CASE e # d \/ (i # 1 /\ j # 1)
      BY <1>1, <2>1, <2>2
    <2>3. CASE e = d /\ i = 1
      <3>1. Apart(buckets[d][j], list) /\ buckets'[d][j] = buckets[d][j]
        BY <1>1, <1>4, <2>3
      <3>2. QED  BY <1>1, <2>3, <3>1 DEF Apart
    <2>4. CASE e = d /\ j = 1
      BY <1>1, <1>4, <2>4
    <2>5. QED  BY <2>2, <2>3, <2>4
  <1>5. BucketsThen
    BY <1>3, <1>4 DEF BucketsThen
  <1>6. ASSUME NEW x \in Calls, Writing(x)' PROVE CopyThen(x)
    <2>1. x # c /\ pc'[x] = pc[x] /\ Writing(x)
      BY <1>6 DEF Writing
    <2>2. CopyProper(x) /\ day[x] \in Days
      BY <1>0, <2>1 DEF MessagesInv, TypeInv, CallConsistent, Writing
    <2>3. \A i \in DOMAIN buckets'[day[x]] : i # 1 => Apart(buckets'[day[x]][i], copy[x])
      BY <1>1, <2>2 DEF CopyProper
    <2>4. QED  BY <2>1, <2>3, CopyKept
  <1>7. QED  BY <1>5, <1>6, ThenInv

\* Nobody has a message that is not stored yet.
LEMMA Fresh ==
    ASSUME MessagesInv, NEW c \in Calls, pc[c] \notin Past
    PROVE  /\ \A d \in Days : \A i \in DOMAIN buckets[d] :
                 \A k \in DOMAIN buckets[d][i] : buckets[d][i][k].id # c
           /\ \A x \in Calls : Writing(x) =>
                 \A k \in DOMAIN copy[x] : copy[x][k].id # c
  BY DEF MessagesInv, BucketsProper, CopyProper, Proper, Known

LEMMA InsertStep ==
    ASSUME MessagesInv, [Next]_vars, TypeInv', NEW c \in Calls, InsertBucket(c)
    PROVE  MessagesInv'
  <1> DEFINE d == day[c]
             doc == <<NewMessage(c)>>
             last == Len(buckets[d]) + 1
  <1>0. /\ TypeInv /\ TypeOK /\ BucketsProper /\ buckets \in [Days -> Seq(Seq(Messages))]
        /\ d \in Days /\ pc[c] = "insert" /\ op[c] = "send"
    BY DEF MessagesInv, TypeInv, TypeOK, CallConsistent, InsertBucket
  <1>1. /\ doc \in Seq(Messages) /\ DOMAIN doc = {1} /\ doc[1].id = c
        /\ doc[1].readBy = {by[c]}
    <2>1. NewMessage(c) \in Messages
      BY <1>0, NewMessageType
    <2>2. QED  BY <2>1 DEF NewMessage
  <1>2. /\ \A e \in Days \ {d} : buckets'[e] = buckets[e]
        /\ DOMAIN buckets'[d] = DOMAIN buckets[d] \cup {last}
        /\ last \notin DOMAIN buckets[d]
        /\ buckets'[d][last] = doc
        /\ \A i \in DOMAIN buckets[d] : buckets'[d][i] = buckets[d][i]
    BY <1>0, <1>1, InsertShape DEF InsertBucket
  <1>3. /\ UNCHANGED <<op, by, about, day, copy>>
        /\ pc'[c] \in Past
        /\ \A x \in Calls \ {c} : pc'[x] = pc[x]
    BY <1>0 DEF InsertBucket, Answered, Goto, callVars, Past, TypeOK
  <1>4. ProperThen(doc, d)
    BY <1>0, <1>1, <1>3 DEF ProperThen, Distinct
  <1>5. ASSUME NEW e \in Days, NEW i \in DOMAIN buckets[e]
        PROVE  ProperThen(buckets[e][i], e) /\ Apart(buckets[e][i], doc) /\ Apart(doc, buckets[e][i])
    <2>1. buckets[e] \in Seq(Seq(Messages))
      BY <1>0
    <2>2. buckets[e][i] \in Seq(Messages)
      BY <2>1
    <2>3. \A k \in DOMAIN buckets[e][i] : buckets[e][i][k].id # c
      BY <1>0, Fresh DEF Past
    <2>4. Apart(buckets[e][i], doc) /\ Apart(doc, buckets[e][i])
      BY <1>1, <2>3 DEF Apart
    <2>5. QED  BY <1>0, <2>2, <2>4, ProperStep DEF BucketsProper
  <1>6. BucketsThen
    <2>1. ASSUME NEW e \in Days, NEW i \in DOMAIN buckets'[e]
          PROVE  /\ ProperThen(buckets'[e][i], e)
                 /\ \A j \in DOMAIN buckets'[e] :
                       i # j => Apart(buckets'[e][i], buckets'[e][j])
      <3>1. CASE e # d
        <4>1. buckets'[e] = buckets[e]
          BY <1>2, <3>1
        <4>2. QED  BY <1>0, <1>5, <4>1 DEF BucketsProper
      <3>2. CASE e = d /\ i = last
        BY <1>2, <1>4, <1>5, <3>2
      <3>3. CASE e = d /\ i # last
        <4>1. i \in DOMAIN buckets[d] /\ buckets'[d][i] = buckets[d][i]
          BY <1>2, <3>3
        <4>2. ASSUME NEW j \in DOMAIN buckets'[d], i # j
              PROVE  Apart(buckets'[d][i], buckets'[d][j])
          <5>1. CASE j = last
            <6>1. buckets'[d][j] = doc
              BY <1>2, <5>1
            <6>2. Apart(buckets[d][i], doc)
              BY <1>0, <1>5, <4>1
            <6>3. QED  BY <4>1, <6>1, <6>2
          <5>2. CASE j # last
            <6>1. j \in DOMAIN buckets[d] /\ buckets'[d][j] = buckets[d][j]
              BY <1>2, <5>2
            <6>2. QED  BY <1>0, <4>1, <4>2, <6>1 DEF BucketsProper
          <5>3. QED  BY <5>1, <5>2
        <4>3. QED  BY <1>5, <3>3, <4>1, <4>2
      <3>4. QED  BY <3>1, <3>2, <3>3
    <2>2. QED  BY <2>1 DEF BucketsThen
  <1>7. ASSUME NEW x \in Calls, Writing(x)' PROVE CopyThen(x)
    <2>1. x # c /\ Writing(x)
      BY <1>3, <1>7 DEF Writing, Past
    <2>2. CopyProper(x) /\ day[x] \in Days
      BY <1>0, <2>1 DEF MessagesInv, TypeInv, CallConsistent, Writing
    <2>3. Apart(doc, copy[x])
      BY <1>0, <1>1, <2>1, Fresh DEF Apart, Past
    <2>4. \A i \in DOMAIN buckets'[day[x]] : i # 1 => Apart(buckets'[day[x]][i], copy[x])
      BY <1>2, <2>2, <2>3 DEF CopyProper
    <2>5. QED  BY <1>3, <2>1, <2>4, CopyKept
  <1>8. QED  BY <1>6, <1>7, ThenInv

LEMMA AppendStep ==
    ASSUME MessagesInv, [Next]_vars, TypeInv', NEW c \in Calls, AppendMessage(c)
    PROVE  MessagesInv'
  <1> DEFINE d == day[c]
             msg == NewMessage(c)
             list == Append(copy[c], msg)
  <1>0. /\ TypeInv /\ TypeOK /\ d \in Days /\ copy[c] \in Seq(Messages)
        /\ pc[c] = "append" /\ op[c] = "send" /\ Writing(c)
        /\ Proper(copy[c], d) /\ CopyProper(c)
    BY DEF MessagesInv, TypeInv, TypeOK, CallConsistent, CopyProper, AppendMessage, Writing
  <1>1. msg \in Messages /\ msg.id = c /\ msg.readBy = {by[c]}
    BY <1>0, NewMessageType DEF NewMessage
  <1>2. /\ UNCHANGED <<op, by, about, day, copy>>
        /\ pc'[c] \in Past /\ ~Writing(c)'
        /\ \A x \in Calls \ {c} : pc'[x] = pc[x]
    BY <1>0 DEF AppendMessage, Answered, Goto, callVars, Past, TypeOK, Writing
  <1>3. /\ list \in Seq(Messages) /\ Len(copy[c]) \in Nat
        /\ DOMAIN list = DOMAIN copy[c] \cup {Len(copy[c]) + 1}
        /\ Len(copy[c]) + 1 \notin DOMAIN copy[c]
        /\ list[Len(copy[c]) + 1] = msg
        /\ \A k \in DOMAIN copy[c] : list[k] = copy[c][k]
    BY <1>0, <1>1
  <1>4. \A k \in DOMAIN copy[c] : copy[c][k].id # c
    BY <1>0, Fresh DEF Past
  <1>5. ProperThen(copy[c], d)
    BY <1>0, ProperStep
  <1>6. ProperThen(list, d)
    <2>1. Distinct(list)
      BY <1>1, <1>3, <1>4, <1>5 DEF Distinct, ProperThen
    <2>2. QED
      BY <1>0, <1>1, <1>2, <1>3, <1>5, <2>1 DEF ProperThen
  <1>7. \A i \in DOMAIN buckets[d] : i # 1 => Apart(buckets[d][i], list)
    <2>1. \A i \in DOMAIN buckets[d] : \A k \in DOMAIN buckets[d][i] : buckets[d][i][k].id # c
      BY <1>0, Fresh DEF Past
    <2>2. QED  BY <1>0, <1>1, <1>3, <2>1 DEF CopyProper, Apart
  <1>8. UpdateBucket(d, list)
    BY DEF AppendMessage
  <1> HIDE DEF list, d
  <1>9. QED  BY <1>0, <1>2, <1>3, <1>6, <1>7, <1>8, UpdateStep DEF d

LEMMA MarkStep ==
    ASSUME MessagesInv, [Next]_vars, TypeInv', NEW c \in Calls, MarkWrite(c)
    PROVE  MessagesInv'
  <1> DEFINE d == day[c]
             list == MarkedCopy(c)
  <1>0. /\ TypeInv /\ TypeOK /\ d \in Days /\ copy[c] \in Seq(Messages)
        /\ pc[c] = "rewrite" /\ op[c] = "read" /\ Writing(c)
        /\ Proper(copy[c], d) /\ CopyProper(c)
    BY DEF MessagesInv, TypeInv, TypeOK, CallConsistent, CopyProper, MarkWrite, Writing
  <1>1. /\ list \in Seq(Messages) /\ DOMAIN list = DOMAIN copy[c]
        /\ \A k \in DOMAIN copy[c] :
              /\ list[k].id = copy[c][k].id
              /\ list[k].readBy = IF copy[c][k].id = about[c]
                                  THEN copy[c][k].readBy \cup {by[c]}
                                  ELSE copy[c][k].readBy
    BY <1>0, MarkedType
  <1>2. /\ UNCHANGED <<op, by, about, day, copy>>
        /\ ~Writing(c)'
        /\ \A x \in Calls \ {c} : pc'[x] = pc[x]
    BY <1>0 DEF MarkWrite, Answered, Goto, callVars, TypeOK, Writing
  <1>3. UpdateBucket(d, list)
    BY DEF MarkWrite
  <1> HIDE DEF list
  <1>4. ProperThen(copy[c], d)
    BY <1>0, ProperStep
  <1>5. ProperThen(list, d)
    <2>1. Distinct(list)
      BY <1>1, <1>4 DEF Distinct, ProperThen
    <2>2. ASSUME NEW k \in DOMAIN list
          PROVE  /\ by'[list[k].id] \in list[k].readBy
                 /\ \A u \in list[k].readBy \ {by'[list[k].id]} :
                       \E x \in Calls : op'[x] = "read" /\ by'[x] = u /\ about'[x] = list[k].id
      <3>1. k \in DOMAIN copy[c] /\ list[k].id = copy[c][k].id
        BY <1>1
      <3>2. by'[list[k].id] \in copy[c][k].readBy /\ copy[c][k].readBy \subseteq list[k].readBy
        BY <1>1, <1>4, <3>1 DEF ProperThen
      <3>3. ASSUME NEW u \in list[k].readBy \ {by'[list[k].id]}
            PROVE  \E x \in Calls : op'[x] = "read" /\ by'[x] = u /\ about'[x] = list[k].id
        <4>1. CASE u \in copy[c][k].readBy
          BY <1>4, <3>1, <3>3, <4>1 DEF ProperThen
        <4>2. CASE u \notin copy[c][k].readBy
          <5>1. u = by[c] /\ about[c] = list[k].id
            BY <1>1, <3>1, <4>2
          <5>2. QED  BY <1>0, <1>2, <5>1
        <4>3. QED  BY <4>1, <4>2
      <3>4. QED  BY <3>2, <3>3
    <2>3. ASSUME NEW k \in DOMAIN list
          PROVE  /\ op'[list[k].id] = "send" /\ pc'[list[k].id] \in Past
                 /\ day'[list[k].id] = d
      <3>1. k \in DOMAIN copy[c] /\ list[k].id = copy[c][k].id
        BY <1>1
      <3>2. QED  BY <1>4, <3>1 DEF ProperThen
    <2>4. QED  BY <2>1, <2>2, <2>3 DEF ProperThen
  <1>6. ASSUME NEW i \in DOMAIN buckets[d], i # 1 PROVE Apart(buckets[d][i], list)
    <2>1. Apart(buckets[d][i], copy[c])
      BY <1>0, <1>6 DEF CopyProper
    <2>2. DOMAIN list = DOMAIN copy[c] /\ \A k \in DOMAIN copy[c] : list[k].id = copy[c][k].id
      BY <1>1
    <2>3. QED  BY <2>1, <2>2 DEF Apart
  <1> HIDE DEF d
  <1>7. QED  BY <1>0, <1>1, <1>2, <1>3, <1>5, <1>6, UpdateStep DEF d

LEMMA MessagesStep ==
    ASSUME MessagesInv, [Next]_vars
    PROVE  MessagesInv'
  <1>0. TypeInv /\ TypeOK /\ TypeInv'
    BY TypeStep DEF MessagesInv, TypeInv
  <1>1. CASE \E c \in Calls : InsertBucket(c)
    BY <1>0, <1>1, InsertStep
  <1>2. CASE \E c \in Calls : AppendMessage(c)
    BY <1>0, <1>2, AppendStep
  <1>3. CASE \E c \in Calls : MarkWrite(c)
    BY <1>0, <1>3, MarkStep
  <1>4. ASSUME UNCHANGED buckets,
               \A x \in Calls : Writing(x)' =>
                  \/ Writing(x) /\ day'[x] = day[x] /\ copy'[x] = copy[x]
                  \/ /\ buckets[today] # <<>> /\ day'[x] = today
                     /\ copy'[x] = Head(buckets[today])
        PROVE  MessagesInv'
    <2>1. ASSUME NEW x \in Calls, Writing(x), day'[x] = day[x], copy'[x] = copy[x]
          PROVE  CopyThen(x)
      BY <1>4, <2>1, CopyKept DEF MessagesInv, CopyProper
    <2>2. ASSUME NEW x \in Calls, buckets[today] # <<>>, day'[x] = today,
                 copy'[x] = Head(buckets[today])
          PROVE  CopyThen(x)
      BY <1>4, <2>2, CopyRead
    <2>3. QED  BY <1>0, <1>4, <2>1, <2>2, QuietStep, ThenInv
  <1>5. ASSUME NEW c \in Calls, FindBucket(c), NEW x \in Calls, Writing(x)'
        PROVE  \/ Writing(x) /\ day'[x] = day[x] /\ copy'[x] = copy[x]
               \/ /\ buckets[today] # <<>> /\ day'[x] = today
                  /\ copy'[x] = Head(buckets[today])
    BY <1>0, <1>5 DEF FindBucket, Goto, Writing, TypeOK
  <1>6. ASSUME NEW c \in Calls, MarkFind(c), NEW x \in Calls, Writing(x)'
        PROVE  \/ Writing(x) /\ day'[x] = day[x] /\ copy'[x] = copy[x]
               \/ /\ buckets[today] # <<>> /\ day'[x] = today
                  /\ copy'[x] = Head(buckets[today])
    BY <1>0, <1>6 DEF MarkFind, Begin, Goto, Writing, TypeOK
  <1>7. ASSUME NEW c \in Calls, Send(c) \/ Sent(c) \/ FailCall(c), NEW x \in Calls, Writing(x)'
        PROVE  Writing(x) /\ day'[x] = day[x] /\ copy'[x] = copy[x]
    BY <1>0, <1>7 DEF Send, Sent, FailCall, Begin, Goto, Writing, TypeOK
  <1>8. ASSUME \/ \E c \in Calls : Publish(c)
               \/ \E u \in Users : Connect(u) \/ Disconnect(u)
               \/ Midnight
               \/ UNCHANGED vars
        PROVE  UNCHANGED <<buckets, pc, day, copy>>
    BY <1>8 DEF Publish, Connect, Disconnect, Midnight, vars
  <1>9. ASSUME NEW c \in Calls, FindBucket(c) \/ MarkFind(c) PROVE MessagesInv'
    <2>1. UNCHANGED buckets
      BY <1>9 DEF FindBucket, MarkFind
    <2>2. ASSUME NEW x \in Calls, Writing(x)'
          PROVE  \/ Writing(x) /\ day'[x] = day[x] /\ copy'[x] = copy[x]
                 \/ /\ buckets[today] # <<>> /\ day'[x] = today
                    /\ copy'[x] = Head(buckets[today])
      <3>1. CASE FindBucket(c)
        BY <1>5, <2>2, <3>1
      <3>2. CASE MarkFind(c)
        BY <1>6, <2>2, <3>2
      <3>3. QED  BY <1>9, <3>1, <3>2
    <2>3. QED  BY <1>4, <2>1, <2>2
  <1>10. ASSUME NEW c \in Calls, Send(c) \/ Sent(c) \/ FailCall(c) PROVE MessagesInv'
    <2>1. UNCHANGED buckets
      BY <1>10 DEF Send, Sent, FailCall
    <2>2. ASSUME NEW x \in Calls, Writing(x)'
          PROVE  Writing(x) /\ day'[x] = day[x] /\ copy'[x] = copy[x]
      BY <1>7, <1>10, <2>2
    <2>3. QED  BY <1>4, <2>1, <2>2
  <1>11. CASE UNCHANGED <<buckets, pc, day, copy>>
    BY <1>4, <1>11 DEF Writing
  <1>12. QED
    BY <1>1, <1>2, <1>3, <1>8, <1>9, <1>10, <1>11 DEF Next, Step

LEMMA InitMessages == Init => MessagesInv
  BY InitType DEF Init, MessagesInv, BucketsProper, Writing

LEMMA MessagesInvariant == Spec => []MessagesInv
  BY InitMessages, MessagesStep, PTL DEF Spec

-----------------------------------------------------------------------------
(* What is stored stays stored on a day on which no write has overwritten or *)
(* hidden another one: such a day has one document at most, and every write  *)
(* extends what is there.                                                    *)

Held(x, doc) ==
    \E k \in DOMAIN doc :
        IF op[x] = "send" THEN doc[k].id = x
        ELSE doc[k].id = about[x] /\ by[x] \in doc[k].readBy

Done(x) == pc[x] \in {"publish", "ok"}

SerialInv ==
    /\ MessagesInv
    /\ \A d \in Days \ clobbered : Len(buckets[d]) <= 1
    /\ \A x \in Calls :
          Done(x) /\ day[x] \notin clobbered =>
              /\ day[x] \in Days /\ Len(buckets[day[x]]) = 1
              /\ Held(x, buckets[day[x]][1])
    /\ \A x \in Calls : pc[x] = "rewrite" =>
          \E k \in DOMAIN copy[x] : copy[x][k].id = about[x]

LEMMA NonEmpty ==
    ASSUME NEW S, NEW s \in Seq(S), s # <<>>
    PROVE  Len(s) \in Nat \ {0}
  BY EmptySeq

\* One write of a whole bucket.
LEMMA SerialUpdate ==
    ASSUME SerialInv, MessagesInv', NEW c \in Calls, Writing(c), pc'[c] \in Past,
           UNCHANGED <<op, by, about, day, copy>>, \A x \in Calls \ {c} : pc'[x] = pc[x],
           NEW list \in Seq(Messages), UpdateBucket(day[c], list),
           Clobbers(day[c], Stale(c)),
           \A x \in Calls : Held(x, copy[c]) => Held(x, list),
           Held(c, list)
    PROVE  SerialInv'
  <1> DEFINE d == day[c]
  <1>0. /\ TypeInv /\ buckets \in [Days -> Seq(Seq(Messages))] /\ buckets[d] \in Seq(Seq(Messages))
        /\ d \in Days /\ buckets[d] # <<>> /\ clobbered \in SUBSET Days
    BY DEF SerialInv, MessagesInv, TypeInv, TypeOK, CallConsistent, Writing
  <1>1. /\ \A e \in Days : DOMAIN buckets'[e] = DOMAIN buckets[e]
        /\ \A e \in Days \ {d} : buckets'[e] = buckets[e]
        /\ buckets'[d][1] = list
        /\ buckets' \in [Days -> Seq(Seq(Messages))]
    BY <1>0, UpdateShape
  <1>2. \A e \in Days : Len(buckets'[e]) = Len(buckets[e])
    <2>1. ASSUME NEW e \in Days PROVE Len(buckets'[e]) = Len(buckets[e])
      <3>1. buckets[e] \in Seq(Seq(Messages)) /\ buckets'[e] \in Seq(Seq(Messages))
        BY <1>0, <1>1
      <3>2. DOMAIN buckets'[e] = DOMAIN buckets[e]
        BY <1>1
      <3>3. QED  BY <3>1, <3>2
    <2>2. QED  BY <2>1
  <1>3. clobbered \subseteq clobbered' /\ (Stale(c) => d \in clobbered')
    BY DEF Clobbers
  <1>4. \A e \in Days \ clobbered' : Len(buckets'[e]) <= 1
    BY <1>2, <1>3 DEF SerialInv
  <1>5. ASSUME NEW x \in Calls, Done(x)', day[x] \notin clobbered'
        PROVE  /\ day[x] \in Days /\ Len(buckets'[day[x]]) = 1
               /\ Held(x, buckets'[day[x]][1])
    <2>1. CASE x = c
      <3>1. Len(buckets[d]) = 1
        <4>1. Len(buckets[d]) <= 1
          BY <1>0, <1>3, <1>5, <2>1 DEF SerialInv
        <4> DEFINE n == Len(buckets[d])
        <4>2. n \in Nat /\ n # 0
          BY <1>0, NonEmpty
        <4> HIDE DEF n
        <4>3. n <= 1 => n = 1
          BY <4>2
        <4>4. QED  BY <4>1, <4>3 DEF n
      <3>2. QED  BY <1>0, <1>1, <1>2, <2>1, <3>1
    <2>2. CASE x # c
      <3>1. /\ day[x] \in Days /\ Len(buckets[day[x]]) = 1
            /\ Held(x, buckets[day[x]][1])
        BY <1>3, <1>5, <2>2 DEF SerialInv, Done
      <3>2. CASE day[x] # d
        BY <1>1, <3>1, <3>2
      <3>3. CASE day[x] = d
        <4>1. ~Stale(c)
          BY <1>3, <1>5, <3>3
        <4>2. buckets[d][1] = copy[c]
          BY <1>0, <4>1 DEF Stale
        <4>3. QED  BY <1>1, <1>2, <3>1, <3>3, <4>2
      <3>4. QED  BY <3>2, <3>3
    <2>3. QED  BY <2>1, <2>2
  <1>6. ASSUME NEW x \in Calls, pc'[x] = "rewrite"
        PROVE  \E k \in DOMAIN copy'[x] : copy'[x][k].id = about'[x]
    BY <1>6 DEF SerialInv, Past
  <1>7. QED  BY <1>4, <1>5, <1>6 DEF SerialInv, Done, Held

LEMMA SerialInsert ==
    ASSUME SerialInv, MessagesInv', NEW c \in Calls, InsertBucket(c)
    PROVE  SerialInv'
  <1> DEFINE d == day[c]
             doc == <<NewMessage(c)>>
  <1>0. /\ TypeInv /\ TypeOK /\ buckets[d] \in Seq(Seq(Messages)) /\ d \in Days
        /\ buckets \in [Days -> Seq(Seq(Messages))]
        /\ pc[c] = "insert" /\ op[c] = "send"
    BY DEF SerialInv, MessagesInv, TypeInv, TypeOK, CallConsistent, InsertBucket
  <1>1. doc \in Seq(Messages) /\ DOMAIN doc = {1} /\ doc[1].id = c
    <2>1. NewMessage(c) \in Messages
      BY <1>0, NewMessageType
    <2>2. QED  BY <2>1 DEF NewMessage
  <1>2. /\ UNCHANGED <<op, by, about, day, copy>>
        /\ pc'[c] \in Past
        /\ \A x \in Calls \ {c} : pc'[x] = pc[x]
    BY <1>0 DEF InsertBucket, Answered, Goto, callVars, Past, TypeOK
  <1>3. clobbered \subseteq clobbered' /\ (buckets[d] # <<>> => d \in clobbered')
    BY DEF InsertBucket, Clobbers
  <1>4. \A e \in Days \ {d} : buckets'[e] = buckets[e]
    BY <1>0 DEF InsertBucket
  <1>5. ASSUME buckets[d] = <<>>
        PROVE  Len(buckets'[d]) = 1 /\ buckets'[d][1] = doc
    <2>1. buckets'[d] = Append(buckets[d], doc)
      BY <1>0 DEF InsertBucket
    <2>2. QED  BY <1>0, <1>1, <1>5, <2>1
  <1>6. Held(c, doc)
    BY <1>0, <1>1 DEF Held
  <1>7. ASSUME NEW e \in Days \ clobbered' PROVE Len(buckets'[e]) <= 1
    <2>1. CASE e = d
      <3>1. buckets[d] = <<>>
        BY <1>3, <1>7, <2>1
      <3>2. Len(buckets'[d]) = 1
        BY <1>5, <3>1
      <3>3. QED  BY <2>1, <3>2
    <2>2. CASE e # d
      BY <1>3, <1>4, <1>7, <2>2 DEF SerialInv
    <2>3. QED  BY <2>1, <2>2
  <1>8. ASSUME NEW x \in Calls, Done(x)', day[x] \notin clobbered'
        PROVE  /\ day[x] \in Days /\ Len(buckets'[day[x]]) = 1
               /\ Held(x, buckets'[day[x]][1])
    <2>1. CASE x = c
      BY <1>0, <1>3, <1>5, <1>6, <1>8, <2>1
    <2>2. CASE x # c
      <3>1. /\ day[x] \in Days /\ Len(buckets[day[x]]) = 1
            /\ Held(x, buckets[day[x]][1])
        BY <1>2, <1>3, <1>8, <2>2 DEF SerialInv, Done
      <3>2. day[x] # d
        BY <1>0, <1>3, <1>8, <3>1
      <3>3. QED  BY <1>4, <3>1, <3>2
    <2>3. QED  BY <2>1, <2>2
  <1>9. ASSUME NEW x \in Calls, pc'[x] = "rewrite"
        PROVE  \E k \in DOMAIN copy'[x] : copy'[x][k].id = about'[x]
    BY <1>2, <1>9 DEF SerialInv, Past
  <1>10. QED  BY <1>2, <1>7, <1>8, <1>9 DEF SerialInv, Done, Held

LEMMA SerialStep ==
    ASSUME SerialInv, [Next]_vars
    PROVE  SerialInv'
  <1>0. MessagesInv /\ MessagesInv' /\ TypeInv /\ TypeOK
    BY MessagesStep DEF SerialInv, MessagesInv, TypeInv
  <1>1. ASSUME NEW c \in Calls, InsertBucket(c) PROVE SerialInv'
    BY <1>0, <1>1, SerialInsert
  <1>2. ASSUME NEW c \in Calls, AppendMessage(c) PROVE SerialInv'
    <2> DEFINE list == Append(copy[c], NewMessage(c))
    <2>0. copy[c] \in Seq(Messages) /\ pc[c] = "append" /\ op[c] = "send" /\ Writing(c)
      BY <1>0, <1>2 DEF TypeInv, TypeOK, CallConsistent, AppendMessage, Writing
    <2>1. NewMessage(c) \in Messages /\ NewMessage(c).id = c
      BY <1>0, <2>0, NewMessageType DEF NewMessage
    <2>2. /\ list \in Seq(Messages) /\ Len(copy[c]) + 1 \in DOMAIN list
          /\ list[Len(copy[c]) + 1] = NewMessage(c)
          /\ \A k \in DOMAIN copy[c] : k \in DOMAIN list /\ list[k] = copy[c][k]
      BY <2>0, <2>1
    <2>3. /\ UNCHANGED <<op, by, about, day, copy>> /\ pc'[c] \in Past
          /\ \A x \in Calls \ {c} : pc'[x] = pc[x]
          /\ UpdateBucket(day[c], list) /\ Clobbers(day[c], Stale(c))
      BY <1>0, <1>2 DEF AppendMessage, Answered, Goto, callVars, Past, TypeOK
    <2>4. /\ \A x \in Calls : Held(x, copy[c]) => Held(x, list)
          /\ Held(c, list)
      <3> HIDE DEF list
      <3>1. QED  BY <2>0, <2>1, <2>2 DEF Held
    <2> HIDE DEF list
    <2>5. QED  BY <1>0, <2>0, <2>2, <2>3, <2>4, SerialUpdate
  <1>3. ASSUME NEW c \in Calls, MarkWrite(c) PROVE SerialInv'
    <2> DEFINE list == MarkedCopy(c)
    <2>0. pc[c] = "rewrite" /\ op[c] = "read" /\ Writing(c)
      BY <1>0, <1>3 DEF TypeInv, CallConsistent, MarkWrite, Writing
    <2>1. /\ list \in Seq(Messages) /\ DOMAIN list = DOMAIN copy[c]
          /\ \A k \in DOMAIN copy[c] :
                /\ list[k].id = copy[c][k].id
                /\ list[k].readBy = IF copy[c][k].id = about[c]
                                    THEN copy[c][k].readBy \cup {by[c]}
                                    ELSE copy[c][k].readBy
      BY <1>0, <2>0, MarkedType
    <2>2. /\ UNCHANGED <<op, by, about, day, copy>> /\ pc'[c] \in Past
          /\ \A x \in Calls \ {c} : pc'[x] = pc[x]
          /\ UpdateBucket(day[c], list) /\ Clobbers(day[c], Stale(c))
      BY <1>0, <1>3 DEF MarkWrite, Answered, Goto, callVars, Past, TypeOK
    <2> HIDE DEF list
    <2>3. \A k \in DOMAIN copy[c] : copy[c][k].readBy \subseteq list[k].readBy
      BY <2>1
    <2>4. ASSUME NEW x \in Calls, Held(x, copy[c]) PROVE Held(x, list)
      BY <2>1, <2>3, <2>4 DEF Held
    <2>5. Held(c, list)
      <3>1. PICK k \in DOMAIN copy[c] : copy[c][k].id = about[c]
        BY <2>0 DEF SerialInv
      <3>2. list[k].id = about[c] /\ by[c] \in list[k].readBy
        BY <2>1, <3>1
      <3>3. QED  BY <2>0, <2>1, <3>1, <3>2 DEF Held
    <2>6. QED  BY <1>0, <2>0, <2>1, <2>2, <2>4, <2>5, SerialUpdate
  <1>4. ASSUME UNCHANGED <<buckets, clobbered>>,
               \A x \in Calls : Done(x)' =>
                  /\ Done(x) /\ day'[x] = day[x]
                  /\ op'[x] = op[x] /\ by'[x] = by[x] /\ about'[x] = about[x],
               \A x \in Calls : pc'[x] = "rewrite" =>
                  \E k \in DOMAIN copy'[x] : copy'[x][k].id = about'[x]
        PROVE  SerialInv'
    <2>1. \A d \in Days \ clobbered' : Len(buckets'[d]) <= 1
      BY <1>4 DEF SerialInv
    <2>2. ASSUME NEW x \in Calls, Done(x)', day'[x] \notin clobbered'
          PROVE  (/\ day[x] \in Days /\ Len(buckets[day[x]]) = 1
                  /\ Held(x, buckets[day[x]][1]))'
      BY <1>4, <2>2 DEF SerialInv, Held
    <2>3. QED  BY <1>0, <1>4, <2>1, <2>2 DEF SerialInv
  <1>5. ASSUME NEW c \in Calls, MarkFind(c) PROVE SerialInv'
    <2>1. UNCHANGED <<buckets, clobbered>>
      BY <1>5 DEF MarkFind
    <2>2. ASSUME NEW x \in Calls, Done(x)'
          PROVE  /\ Done(x) /\ day'[x] = day[x]
                 /\ op'[x] = op[x] /\ by'[x] = by[x] /\ about'[x] = about[x]
      BY <1>0, <1>5, <2>2 DEF MarkFind, Begin, Goto, TypeOK, Done
    <2>3. ASSUME NEW x \in Calls, pc'[x] = "rewrite"
          PROVE  \E k \in DOMAIN copy'[x] : copy'[x][k].id = about'[x]
      <3>1. CASE x # c
        BY <1>0, <1>5, <2>3, <3>1 DEF MarkFind, Begin, Goto, TypeOK, SerialInv
      <3>2. CASE x = c
        <4>1. /\ buckets[today] # <<>> /\ copy'[c] = Head(buckets[today])
              /\ \E msg \in ToSet(Head(buckets[today])) : msg.id = about'[c]
          BY <1>0, <1>5, <2>3, <3>2 DEF MarkFind, Begin, Goto, TypeOK
        <4>2. QED  BY <3>2, <4>1 DEF ToSet
      <3>3. QED  BY <3>1, <3>2
    <2>4. QED  BY <1>4, <2>1, <2>2, <2>3
  <1>6. ASSUME NEW c \in Calls, Send(c) \/ FindBucket(c) PROVE SerialInv'
    <2>1. UNCHANGED <<buckets, clobbered>>
      BY <1>6 DEF Send, FindBucket
    <2>2. ASSUME NEW x \in Calls, Done(x)' \/ pc'[x] = "rewrite"
          PROVE  /\ pc'[x] = pc[x] /\ day'[x] = day[x] /\ copy'[x] = copy[x]
                 /\ op'[x] = op[x] /\ by'[x] = by[x] /\ about'[x] = about[x]
      BY <1>0, <1>6, <2>2 DEF Send, FindBucket, Begin, Goto, TypeOK, Done, callVars
    <2>3. QED  BY <1>4, <2>1, <2>2 DEF Done, SerialInv
  <1>7. ASSUME NEW c \in Calls, Sent(c) \/ FailCall(c) PROVE SerialInv'
    <2>1. UNCHANGED <<buckets, clobbered, op, by, about, day, copy>>
      BY <1>7 DEF Sent, FailCall, callVars
    <2>2. ASSUME NEW x \in Calls
          PROVE  (Done(x)' => Done(x)) /\ (pc'[x] = "rewrite" => pc[x] = "rewrite")
      BY <1>0, <1>7 DEF Sent, FailCall, Goto, TypeOK, Done
    <2>3. QED  BY <1>4, <2>1, <2>2 DEF SerialInv
  <1>8. ASSUME \/ \E c \in Calls : Publish(c)
               \/ \E u \in Users : Connect(u) \/ Disconnect(u)
               \/ Midnight
               \/ UNCHANGED vars
        PROVE  SerialInv'
    <2>1. UNCHANGED <<buckets, clobbered, op, by, about, pc, day, copy>>
      BY <1>8 DEF Publish, Connect, Disconnect, Midnight, vars, callVars
    <2>2. QED  BY <1>4, <2>1 DEF Done, SerialInv
  <1>9. QED
    BY <1>1, <1>2, <1>3, <1>5, <1>6, <1>7, <1>8 DEF Next, Step

-----------------------------------------------------------------------------
(* What is unread stays unread: a step keeps every unread message of a day   *)
(* it does not clobber, except the one a MarkWrite of that member marks.     *)

UnreadIn(docs, u, x) == \E i \in DOMAIN docs : \E n \in Unread(docs[i], u) : docs[i][n].id = x

Marks(u, x) ==
    \E c \in Calls : pc[c] = "rewrite" /\ pc'[c] # "rewrite" /\ by[c] = u /\ about[c] = x

\* A write of a bucket whose list keeps what was unread in the copy.
LEMMA UnreadUpdate ==
    ASSUME MessagesInv, NEW c \in Calls, Writing(c), NEW list \in Seq(Messages),
           UpdateBucket(day[c], list), Clobbers(day[c], Stale(c)),
           NEW u \in Users, NEW d \in Days, NEW i \in DOMAIN buckets[d],
           NEW k \in Unread(buckets[d][i], u), d \notin clobbered',
           \A n \in Unread(copy[c], u) : copy[c][n].id = buckets[d][i][k].id =>
              n \in Unread(list, u) /\ list[n].id = copy[c][n].id
    PROVE  UnreadIn(buckets'[d], u, buckets[d][i][k].id)
  <1>0. /\ TypeInv /\ buckets \in [Days -> Seq(Seq(Messages))]
        /\ day[c] \in Days /\ buckets[day[c]] # <<>>
    BY DEF MessagesInv, TypeInv, TypeOK, CallConsistent, Writing
  <1>1. /\ \A e \in Days : DOMAIN buckets'[e] = DOMAIN buckets[e]
        /\ \A e \in Days \ {day[c]} : buckets'[e] = buckets[e]
        /\ buckets'[day[c]][1] = list
        /\ \A j \in DOMAIN buckets[day[c]] \ {1} : buckets'[day[c]][j] = buckets[day[c]][j]
    BY <1>0, UpdateShape
  <1>2. CASE d # day[c] \/ i # 1
    <2>1. i \in DOMAIN buckets'[d] /\ buckets'[d][i] = buckets[d][i]
      BY <1>1, <1>2
    <2>2. QED  BY <2>1 DEF UnreadIn
  <1>3. CASE d = day[c] /\ i = 1
    <2>1. ~Stale(c)
      BY <1>3 DEF Clobbers
    <2>2. buckets[d][i] = copy[c]
      BY <1>0, <1>3, <2>1 DEF Stale
    <2>3. k \in Unread(list, u) /\ list[k].id = buckets[d][i][k].id
      BY <2>2
    <2>4. i \in DOMAIN buckets'[d] /\ buckets'[d][i] = list
      BY <1>1, <1>3
    <2>5. QED  BY <2>3, <2>4 DEF UnreadIn
  <1>4. QED  BY <1>2, <1>3

LEMMA UnreadStep ==
    ASSUME MessagesInv, [Next]_vars, NEW u \in Users, NEW d \in Days,
           NEW i \in DOMAIN buckets[d], NEW k \in Unread(buckets[d][i], u),
           d \notin clobbered', ~Marks(u, buckets[d][i][k].id)
    PROVE  UnreadIn(buckets'[d], u, buckets[d][i][k].id)
  <1>0. /\ TypeInv /\ TypeOK /\ buckets \in [Days -> Seq(Seq(Messages))]
    BY DEF MessagesInv, TypeInv, TypeOK
  <1>1. ASSUME NEW c \in Calls, InsertBucket(c)
        PROVE  UnreadIn(buckets'[d], u, buckets[d][i][k].id)
    <2>1. day[c] \in Days /\ <<NewMessage(c)>> \in Seq(Messages)
      BY <1>0, <1>1, NewMessageType DEF InsertBucket, TypeInv, CallConsistent
    <2>2. i \in DOMAIN buckets'[d] /\ buckets'[d][i] = buckets[d][i]
      <3>1. CASE d = day[c]
        BY <1>0, <1>1, <2>1, <3>1, InsertShape DEF InsertBucket
      <3>2. CASE d # day[c]
        BY <1>0, <1>1, <3>2 DEF InsertBucket
      <3>3. QED  BY <3>1, <3>2
    <2>3. QED  BY <2>2 DEF UnreadIn
  <1>2. ASSUME NEW c \in Calls, AppendMessage(c)
        PROVE  UnreadIn(buckets'[d], u, buckets[d][i][k].id)
    <2> DEFINE list == Append(copy[c], NewMessage(c))
    <2>0. copy[c] \in Seq(Messages) /\ pc[c] = "append" /\ Writing(c)
      BY <1>0, <1>2 DEF TypeOK, AppendMessage, Writing
    <2>1. NewMessage(c) \in Messages
      BY <1>0, <2>0, NewMessageType
    <2>2. /\ list \in Seq(Messages)
          /\ \A n \in DOMAIN copy[c] : n \in DOMAIN list /\ list[n] = copy[c][n]
      BY <2>0, <2>1
    <2>3. UpdateBucket(day[c], list) /\ Clobbers(day[c], Stale(c))
      BY <1>2 DEF AppendMessage
    <2> HIDE DEF list
    <2>4. \A n \in Unread(copy[c], u) : n \in Unread(list, u) /\ list[n].id = copy[c][n].id
      BY <2>2 DEF Unread
    <2>5. QED  BY <2>0, <2>2, <2>3, <2>4, UnreadUpdate
  <1>3. ASSUME NEW c \in Calls, MarkWrite(c)
        PROVE  UnreadIn(buckets'[d], u, buckets[d][i][k].id)
    <2> DEFINE list == MarkedCopy(c)
    <2>0. pc[c] = "rewrite" /\ Writing(c)
      BY <1>3 DEF MarkWrite, Writing
    <2>1. /\ list \in Seq(Messages) /\ DOMAIN list = DOMAIN copy[c]
          /\ \A n \in DOMAIN copy[c] :
                /\ list[n].id = copy[c][n].id
                /\ list[n].readBy = IF copy[c][n].id = about[c]
                                    THEN copy[c][n].readBy \cup {by[c]}
                                    ELSE copy[c][n].readBy
      BY <1>0, <2>0, MarkedType
    <2>2. /\ UpdateBucket(day[c], list) /\ Clobbers(day[c], Stale(c))
          /\ pc'[c] # "rewrite"
      BY <1>0, <1>3 DEF MarkWrite, Answered, Goto, TypeOK
    <2> HIDE DEF list
    <2>3. about[c] # buckets[d][i][k].id \/ by[c] # u
      BY <2>0, <2>2 DEF Marks
    <2>4. ASSUME NEW n \in Unread(copy[c], u), copy[c][n].id = buckets[d][i][k].id
          PROVE  n \in Unread(list, u) /\ list[n].id = copy[c][n].id
      <3>1. n \in DOMAIN copy[c] /\ u \notin copy[c][n].readBy
        BY DEF Unread
      <3>2. u \notin list[n].readBy
        BY <2>1, <2>3, <2>4, <3>1
      <3>3. QED  BY <2>1, <3>1, <3>2 DEF Unread
    <2>5. QED  BY <2>0, <2>1, <2>2, <2>4, UnreadUpdate
  <1>4. CASE UNCHANGED buckets
    BY <1>4 DEF UnreadIn
  <1>5. ASSUME \/ \E c \in Calls : \/ Send(c) \/ MarkFind(c) \/ FindBucket(c)
                                  \/ Publish(c) \/ Sent(c) \/ FailCall(c)
               \/ \E x \in Users : Connect(x) \/ Disconnect(x)
               \/ Midnight
               \/ UNCHANGED vars
        PROVE  UNCHANGED buckets
    BY <1>5 DEF Send, MarkFind, FindBucket, Publish, Sent, FailCall, Connect, Disconnect,
       Midnight, vars
  <1>6. QED
    BY <1>1, <1>2, <1>3, <1>4, <1>5 DEF Next, Step

-----------------------------------------------------------------------------
(* The theorems.                                                            *)

(* Every document, call and counter has its type in every state, for any    *)
(* numbers of members, calls, days and faults.                              *)
THEOREM MessagesTypeCorrect == Spec => []TypeOK
  BY MessagesInvariant, PTL DEF MessagesInv, TypeInv

(* A message is in one place only: a second document of a day, a late write *)
(* of the whole bucket and midnight never duplicate what Execute has stored. *)
THEOREM OneCopyTheorem == Spec => []OneCopy
  <1>1. MessagesInv => OneCopy
    <2> SUFFICES ASSUME MessagesInv,
                        NEW d \in Days, NEW e \in Days,
                        NEW i \in DOMAIN buckets[d], NEW j \in DOMAIN buckets[e],
                        NEW k \in DOMAIN buckets[d][i], NEW n \in DOMAIN buckets[e][j],
                        buckets[d][i][k].id = buckets[e][j][n].id
                 PROVE  d = e /\ i = j /\ k = n
      BY DEF OneCopy
    <2>1. Proper(buckets[d][i], d) /\ Proper(buckets[e][j], e)
      BY DEF MessagesInv, BucketsProper
    <2>2. d = e
      BY <2>1 DEF Proper, Known
    <2>3. i = j
      BY <2>2 DEF MessagesInv, BucketsProper, Apart
    <2>4. k = n
      BY <2>1, <2>2, <2>3 DEF Proper, Distinct
    <2>5. QED  BY <2>2, <2>3, <2>4
  <1>2. QED  BY <1>1, MessagesInvariant, PTL

(* Nobody is recorded as a reader who has neither sent the message nor asked *)
(* MarkRead to mark it, and the sender always is.                           *)
THEOREM ReadIsGenuineTheorem == Spec => []ReadIsGenuine
  <1>1. MessagesInv => ReadIsGenuine
    BY DEF MessagesInv, BucketsProper, Proper, Genuine, ReadIsGenuine, ToSet
  <1>2. QED  BY <1>1, MessagesInvariant, PTL

LEMMA SerialInvariant == Spec => []SerialInv
  <1>1. Init => SerialInv
    BY InitMessages DEF Init, SerialInv, Done
  <1>2. QED  BY <1>1, SerialStep, PTL DEF Spec

(* Over any number of sends, reads and midnights nothing is lost on a day on *)
(* which no write came from a stale copy or hid behind an earlier document:  *)
(* the calls that do not overlap are served as if each were atomic.          *)
THEOREM SerialTheorem == Spec => []SerialCallsLoseNothing
  <1>1. SerialInv => SerialCallsLoseNothing
    <2> SUFFICES ASSUME SerialInv, NEW c \in Calls, Done(c), day[c] \notin clobbered
                 PROVE  /\ Len(buckets[day[c]]) = 1
                        /\ \E msg \in ToSet(Head(buckets[day[c]])) :
                              IF op[c] = "send" THEN msg.id = c
                              ELSE msg.id = about[c] /\ by[c] \in msg.readBy
      BY DEF SerialCallsLoseNothing, Done
    <2>1. /\ day[c] \in Days /\ Len(buckets[day[c]]) = 1
          /\ Held(c, buckets[day[c]][1])
      BY DEF SerialInv
    <2>2. Head(buckets[day[c]]) = buckets[day[c]][1]
      BY <2>1 DEF SerialInv, MessagesInv, TypeInv, TypeOK
    <2>3. QED  BY <2>1, <2>2 DEF Held, ToSet
  <1>2. QED  BY <1>1, SerialInvariant, PTL

(* A message stays unread for a member until that member's MarkRead writes   *)
(* its bucket, or a write clobbers its day: no step of another call and no   *)
(* midnight makes it read.                                                   *)
THEOREM UnreadTheorem == Spec => UnreadIsKept
  <1> DEFINE Keeps ==
               \A u \in Users, d \in Days :
                  \A doc \in ToSet(buckets[d]) : \A k \in Unread(doc, u) :
                      \/ \E new \in ToSet(buckets'[d]) : \E n \in Unread(new, u) :
                            new[n].id = doc[k].id
                      \/ d \in clobbered'
                      \/ \E c \in Calls : /\ pc[c] = "rewrite" /\ pc'[c] # "rewrite"
                                         /\ by[c] = u /\ about[c] = doc[k].id
  <1>1. ASSUME MessagesInv, [Next]_vars PROVE Keeps
    <2> SUFFICES ASSUME NEW u \in Users, NEW d \in Days, NEW doc \in ToSet(buckets[d]),
                        NEW k \in Unread(doc, u), d \notin clobbered', ~Marks(u, doc[k].id)
                 PROVE  \E new \in ToSet(buckets'[d]) : \E n \in Unread(new, u) :
                            new[n].id = doc[k].id
      BY DEF Marks
    <2>1. PICK i \in DOMAIN buckets[d] : doc = buckets[d][i]
      BY DEF ToSet
    <2>2. UnreadIn(buckets'[d], u, doc[k].id)
      BY <1>1, <2>1, UnreadStep
    <2>3. QED  BY <2>2 DEF UnreadIn, ToSet
  <1>2. QED
    BY <1>1, MessagesInvariant, PTL DEF Spec, UnreadIsKept

-----------------------------------------------------------------------------
(* The day enter_room shows. *)

LEMMA MinOf ==
    ASSUME NEW S \in SUBSET Nat, S # {}
    PROVE  Min(S) \in S /\ \A n \in S : Min(S) <= n
  <1> DEFINE R == OpToRel(<, Nat)
  <1>1. \E x \in S : \A y \in S : ~ (<<y, x>> \in R)
    <2>1. IsWellFoundedOn(R, Nat)
      BY NatLessThanWellFounded
    <2> HIDE DEF R
    <2>2. QED  BY <2>1, WFMin
  <1>2. \A x, y \in Nat : <<y, x>> \in R <=> y < x
    BY DEF OpToRel
  <1> HIDE DEF R
  <1>3. PICK x \in S : \A y \in S : ~ (<<y, x>> \in R)
    BY <1>1
  <1>4. ASSUME NEW y \in S PROVE x <= y
    <2>1. x \in Nat /\ y \in Nat /\ ~ (y < x)
      BY <1>2, <1>3
    <2>2. QED  BY <2>1
  <1>5. QED  BY <1>3, <1>4 DEF Min

UnreadDays(u) == {d \in Days : \E doc \in ToSet(buckets[d]) : Unread(doc, u) # {}}

LEMMA EarliestMeans ==
    ASSUME NEW u
    PROVE  /\ UnreadDays(u) = {} => EarliestUnread(u) = 0
           /\ UnreadDays(u) # {} => EarliestUnread(u) = Min(UnreadDays(u))
  BY DEF EarliestUnread, UnreadDays

LEMMA DaysAreNumbers == \A S \in SUBSET Days : S \in SUBSET Nat /\ 0 \notin S
  BY DEF Days

\* The day enter_room shows is the first one with an unread message.
LEMMA EarliestIsFirst ==
    ASSUME NEW u, EarliestUnread(u) # 0
    PROVE  /\ EarliestUnread(u) \in UnreadDays(u)
           /\ \A d \in UnreadDays(u) : EarliestUnread(u) <= d
  <1>1. UnreadDays(u) \in SUBSET Days
    BY DEF UnreadDays
  <1>2. UnreadDays(u) # {} /\ EarliestUnread(u) = Min(UnreadDays(u))
    BY EarliestMeans
  <1>3. QED  BY <1>1, <1>2, DaysAreNumbers, MinOf

-----------------------------------------------------------------------------
(* What hides the later messages. *)

\* No call that works with day d, or an earlier one, is still to write.
Settled(d) ==
    /\ d < today
    /\ \A c \in Calls : day[c] <= d => pc[c] \notin {"insert", "append", "rewrite"}

\* MarkRead looks into today's bucket only: the day enter_room shows a member
\* never changes once it is over and settled.
ShownDayStays ==
    [][\A u \in Users :
          EarliestUnread(u) # 0 /\ Settled(EarliestUnread(u)) =>
              EarliestUnread(u)' = EarliestUnread(u)]_vars

\* A step writes into the documents of one day only, which a call works with.
LEMMA OneDayStep ==
    ASSUME MessagesInv, [Next]_vars, NEW d \in Days, buckets'[d] # buckets[d]
    PROVE  \E c \in Calls : day[c] = d /\ pc[c] \in {"insert", "append", "rewrite"}
  <1>0. TypeOK /\ TypeInv
    BY DEF MessagesInv, TypeInv
  <1>1. ASSUME NEW c \in Calls, InsertBucket(c) \/ AppendMessage(c) \/ MarkWrite(c)
        PROVE  day[c] = d /\ pc[c] \in {"insert", "append", "rewrite"}
    BY <1>0, <1>1 DEF InsertBucket, AppendMessage, MarkWrite, UpdateBucket, TypeOK
  <1>2. ASSUME \/ \E c \in Calls : \/ Send(c) \/ MarkFind(c) \/ FindBucket(c)
                                  \/ Publish(c) \/ Sent(c) \/ FailCall(c)
               \/ \E x \in Users : Connect(x) \/ Disconnect(x)
               \/ Midnight
               \/ UNCHANGED vars
        PROVE  FALSE
    BY <1>2 DEF Send, MarkFind, FindBucket, Publish, Sent, FailCall, Connect, Disconnect,
       Midnight, vars
  <1>3. QED  BY <1>1, <1>2 DEF Next, Step

\* The first unread day stays the first when no call can write up to it.
LEMMA HiddenStep ==
    ASSUME MessagesInv, [Next]_vars, NEW u,
           EarliestUnread(u) # 0, Settled(EarliestUnread(u))
    PROVE  EarliestUnread(u)' = EarliestUnread(u)
  <1> DEFINE first == EarliestUnread(u)
             S == UnreadDays(u)'
  <1>1. /\ first \in UnreadDays(u) /\ first = EarliestUnread(u)
        /\ \A d \in UnreadDays(u) : first <= d
    BY EarliestIsFirst
  <1>2. first \in Days
    BY <1>1 DEF UnreadDays
  <1>3. \A c \in Calls : day[c] <= first => pc[c] \notin {"insert", "append", "rewrite"}
    BY DEF Settled
  <1> HIDE DEF first
  <1>4. ASSUME NEW d \in Days, d <= first PROVE buckets'[d] = buckets[d]
    BY <1>3, <1>4, OneDayStep
  <1>5. \A d \in Days : d <= first => (d \in UnreadDays(u)' <=> d \in UnreadDays(u))
    BY <1>4 DEF UnreadDays
  <1>6. S \in SUBSET Days
    BY DEF UnreadDays
  <1>7. first \in S /\ \A d \in S : first <= d
    <2>1. first <= first
      BY <1>2 DEF Days
    <2>2. first \in S
      BY <1>1, <1>2, <1>5, <2>1
    <2>3. ASSUME NEW d \in S, ~ (first <= d) PROVE FALSE
      <3>1. d \in Days /\ d <= first
        BY <1>2, <1>6, <2>3 DEF Days
      <3>2. d \in UnreadDays(u)
        BY <1>5, <3>1
      <3>3. QED  BY <1>1, <2>3, <3>2
    <2>4. QED  BY <2>2, <2>3
  <1>8. EarliestUnread(u)' = Min(S)
    BY <1>7 DEF EarliestUnread, UnreadDays
  <1> HIDE DEF S
  <1>9. Min(S) = first
    <2>1. S \in SUBSET Nat /\ Min(S) \in S /\ Min(S) <= first
      BY <1>6, <1>7, DaysAreNumbers, MinOf
    <2>2. first <= Min(S)
      BY <1>7, <2>1
    <2>3. Min(S) \in Nat /\ first \in Nat
      BY <1>7, <2>1
    <2>4. QED  BY <2>1, <2>2, <2>3
  <1>10. QED  BY <1>1, <1>8, <1>9

(* A message left unread on a day that is over, on which and before which    *)
(* nothing is still being written, hides all later ones from its member: no  *)
(* call, midnight or fault ever changes the day enter_room shows.            *)
THEOREM HiddenTheorem == Spec => ShownDayStays
  <1>1. ASSUME MessagesInv, [Next]_vars
        PROVE  \A u \in Users : EarliestUnread(u) # 0 /\ Settled(EarliestUnread(u)) =>
                                   EarliestUnread(u)' = EarliestUnread(u)
    BY <1>1, HiddenStep
  <1>2. QED
    BY <1>1, MessagesInvariant, PTL DEF Spec, ShownDayStays

-----------------------------------------------------------------------------
(* The refinement of MessageLog.                                            *)

LEMMA ShownIs ==
    ASSUME TypeOK, NEW d \in Days
    PROVE  /\ d \in clobbered \/ buckets[d] = <<>> => Shown[d] = <<>>
           /\ d \notin clobbered /\ buckets[d] # <<>> => Shown[d] = buckets[d][1]
           /\ buckets[d] # <<>> => 1 \in DOMAIN buckets[d]
  <1>1. buckets[d] \in Seq(Seq(Messages))
    BY DEF TypeOK
  <1>2. QED  BY <1>1 DEF Shown

\* A write that overlaps another one tears the log of its day.
LEMMA TearsLog ==
    ASSUME TypeOK, NEW d \in Days, clobbered' = clobbered \cup {d},
           \A e \in Days \ {d} : buckets'[e] = buckets[e]
    PROVE  Log!Tear(d)
  <1>1. \A e \in Days : Shown'[e] = IF e = d THEN <<>> ELSE Shown[e]
    BY DEF Shown
  <1>2. Shown' = [Shown EXCEPT ![d] = <<>>]
    BY <1>1 DEF Shown
  <1>3. QED  BY <1>2 DEF Log!Tear

\* On a day that is torn nothing is seen to change.
LEMMA KeepsLog ==
    ASSUME TypeOK, NEW d \in Days, clobbered' = clobbered, d \in clobbered,
           \A e \in Days \ {d} : buckets'[e] = buckets[e]
    PROVE  UNCHANGED Log!vars
  <1>1. \A e \in Days : Shown'[e] = Shown[e]
    BY DEF Shown
  <1>2. Shown' = Shown
    BY <1>1 DEF Shown
  <1>3. QED  BY <1>2 DEF Log!vars

\* Another day is changed by a write that overlaps none.
LEMMA ChangesLog ==
    ASSUME TypeOK, NEW d \in Days, clobbered' = clobbered, d \notin clobbered,
           \A e \in Days \ {d} : buckets'[e] = buckets[e],
           buckets'[d] # <<>>, NEW doc, Head(buckets'[d]) = doc
    PROVE  Shown' = [Shown EXCEPT ![d] = doc]
  <1>1. \A e \in Days : Shown'[e] = IF e = d THEN doc ELSE Shown[e]
    BY DEF Shown
  <1>2. QED  BY <1>1 DEF Shown

LEMMA NotPosted ==
    ASSUME MessagesInv, NEW c \in Calls, pc[c] \notin Past
    PROVE  ~Log!Posted(c)
  <1> SUFFICES ASSUME NEW d \in Days, NEW k \in DOMAIN Shown[d], Shown[d][k].id = c
               PROVE  FALSE
    BY DEF Log!Posted
  <1>1. TypeOK
    BY DEF MessagesInv, TypeInv
  <1>2. CASE Shown[d] = <<>>
    BY <1>2
  <1>3. CASE Shown[d] = buckets[d][1] /\ 1 \in DOMAIN buckets[d]
    BY <1>3, Fresh
  <1>4. QED  BY <1>1, <1>2, <1>3, ShownIs

LEMMA InsertLogs ==
    ASSUME MessagesInv, NEW c \in Calls, InsertBucket(c)
    PROVE  [Log!Next]_(Log!vars)
  <1> DEFINE d   == day[c]
             doc == <<NewMessage(c)>>
  <1>0. /\ TypeInv /\ TypeOK /\ d \in Days /\ by[c] \in Users /\ pc[c] = "insert"
        /\ buckets \in [Days -> Seq(Seq(Messages))] /\ NewMessage(c) \in Messages
    BY NewMessageType DEF MessagesInv, TypeInv, TypeOK, CallConsistent, InsertBucket
  <1>1. /\ buckets'[d] = Append(buckets[d], doc)
        /\ \A e \in Days \ {d} : buckets'[e] = buckets[e]
    BY <1>0 DEF InsertBucket
  <1>2. CASE buckets[d] # <<>>
    <2>1. Log!Tear(d)
      BY <1>0, <1>1, <1>2, TearsLog DEF InsertBucket, Clobbers
    <2>2. QED  BY <1>0, <2>1 DEF Log!Next
  <1>3. CASE buckets[d] = <<>> /\ d \in clobbered
    BY <1>0, <1>1, <1>3, KeepsLog DEF InsertBucket, Clobbers
  <1>4. CASE buckets[d] = <<>> /\ d \notin clobbered
    <2>1. clobbered' = clobbered
      BY <1>4 DEF InsertBucket, Clobbers
    <2>2. buckets'[d] # <<>> /\ Head(buckets'[d]) = doc
      BY <1>0, <1>1, <1>4
    <2>3. Shown' = [Shown EXCEPT ![d] = doc]
      BY <1>0, <1>1, <1>4, <2>1, <2>2, ChangesLog
    <2>4. Shown[d] = <<>> /\ DOMAIN Shown = Days
      BY <1>0, <1>4, ShownIs DEF Shown
    <2>5. doc = Append(Shown[d], [id |-> c, readBy |-> {by[c]}])
      BY <2>4 DEF NewMessage
    <2>6. ~Log!Posted(c)
      BY <1>0, NotPosted DEF Past
    <2>7. Log!Post(d, c, by[c])
      BY <1>4, <2>1, <2>3, <2>5, <2>6 DEF Log!Post
    <2>8. QED  BY <1>0, <2>7 DEF Log!Next
  <1>5. QED  BY <1>2, <1>3, <1>4

\* UpdateBucket by a call that is going to write, on a day that is whole.
LEMMA UpdateLogs ==
    ASSUME MessagesInv, NEW c \in Calls, Writing(c), NEW list \in Seq(Messages),
           UpdateBucket(day[c], list), Clobbers(day[c], Stale(c))
    PROVE  \/ [Log!Next]_(Log!vars)
           \/ /\ day[c] \notin clobbered /\ clobbered' = clobbered
              /\ Shown[day[c]] = copy[c]
              /\ Shown' = [Shown EXCEPT ![day[c]] = list]
  <1> DEFINE d == day[c]
  <1>0. /\ TypeInv /\ TypeOK /\ d \in Days /\ buckets[d] # <<>>
        /\ buckets \in [Days -> Seq(Seq(Messages))]
    BY DEF MessagesInv, TypeInv, TypeOK, CallConsistent, Writing
  <1>1. /\ \A e \in Days \ {d} : buckets'[e] = buckets[e]
        /\ buckets'[d] # <<>> /\ buckets'[d][1] = list
        /\ buckets'[d] \in Seq(Seq(Messages))
    BY <1>0, UpdateShape
  <1>2. Head(buckets'[d]) = list
    BY <1>1
  <1>3. CASE Stale(c)
    <2>1. Log!Tear(d)
      BY <1>0, <1>1, <1>3, TearsLog DEF Clobbers
    <2>2. QED  BY <1>0, <2>1 DEF Log!Next
  <1>4. CASE ~Stale(c) /\ d \in clobbered
    BY <1>0, <1>1, <1>4, KeepsLog DEF Clobbers
  <1>5. CASE ~Stale(c) /\ d \notin clobbered
    <2>1. clobbered' = clobbered
      BY <1>5 DEF Clobbers
    <2>2. Shown[d] = copy[c]
      BY <1>0, <1>5 DEF Shown, Stale
    <2>3. Shown' = [Shown EXCEPT ![d] = list]
      BY <1>0, <1>1, <1>2, <1>5, <2>1, ChangesLog
    <2>4. QED  BY <1>5, <2>1, <2>2, <2>3
  <1>6. QED  BY <1>3, <1>4, <1>5

LEMMA AppendLogs ==
    ASSUME MessagesInv, NEW c \in Calls, AppendMessage(c)
    PROVE  [Log!Next]_(Log!vars)
  <1> DEFINE d    == day[c]
             list == Append(copy[c], NewMessage(c))
  <1>0. /\ d \in Days /\ by[c] \in Users /\ pc[c] = "append" /\ Writing(c)
        /\ copy[c] \in Seq(Messages) /\ NewMessage(c) \in Messages
    BY NewMessageType
    DEF MessagesInv, TypeInv, TypeOK, CallConsistent, AppendMessage, Writing
  <1>1. list \in Seq(Messages)
    BY <1>0
  <1>2. UpdateBucket(d, list) /\ Clobbers(d, Stale(c))
    BY DEF AppendMessage
  <1>3. CASE /\ d \notin clobbered /\ clobbered' = clobbered
             /\ Shown[d] = copy[c] /\ Shown' = [Shown EXCEPT ![d] = list]
    <2>1. list = Append(Shown[d], [id |-> c, readBy |-> {by[c]}])
      BY <1>3 DEF NewMessage
    <2>2. ~Log!Posted(c)
      BY <1>0, NotPosted DEF Past
    <2>3. Log!Post(d, c, by[c])
      BY <1>0, <1>3, <2>1, <2>2 DEF Log!Post, Shown
    <2>4. QED  BY <1>0, <2>3 DEF Log!Next
  <1>4. QED  BY <1>0, <1>1, <1>2, <1>3, UpdateLogs

LEMMA MarkLogs ==
    ASSUME SerialInv, NEW c \in Calls, MarkWrite(c)
    PROVE  [Log!Next]_(Log!vars)
  <1> DEFINE d    == day[c]
             list == MarkedCopy(c)
  <1>0. /\ MessagesInv /\ TypeInv /\ d \in Days /\ by[c] \in Users
        /\ pc[c] = "rewrite" /\ Writing(c) /\ copy[c] \in Seq(Messages)
    BY DEF SerialInv, MessagesInv, TypeInv, TypeOK, CallConsistent, MarkWrite, Writing
  <1>1. list \in Seq(Messages)
    BY <1>0, MarkedType
  <1>2. UpdateBucket(d, list) /\ Clobbers(d, Stale(c))
    BY DEF MarkWrite
  <1>3. PICK k \in DOMAIN copy[c] : copy[c][k].id = about[c]
    BY <1>0 DEF SerialInv
  <1>4. Distinct(copy[c])
    BY <1>0 DEF MessagesInv, CopyProper, Proper
  <1>5. list = [copy[c] EXCEPT ![k].readBy = @ \cup {by[c]}]
    <2>1. \A n \in DOMAIN copy[c] : copy[c][n].id = about[c] <=> n = k
      BY <1>3, <1>4 DEF Distinct
    <2>2. QED  BY <2>1 DEF MarkedCopy
  <1>6. CASE /\ d \notin clobbered /\ clobbered' = clobbered
             /\ Shown[d] = copy[c] /\ Shown' = [Shown EXCEPT ![d] = list]
    <2>1. d \in DOMAIN Shown
      BY <1>0 DEF Shown
    <2>2. Shown' = [Shown EXCEPT ![d][k].readBy = @ \cup {by[c]}]
      BY <1>5, <1>6, <2>1
    <2>3. Log!Read(d, k, by[c])
      BY <1>3, <1>6, <2>2 DEF Log!Read
    <2>4. k \in DOMAIN Shown[d]
      BY <1>3, <1>6
    <2>5. QED  BY <1>0, <2>3, <2>4 DEF Log!Next
  <1>7. QED  BY <1>0, <1>1, <1>2, <1>6, UpdateLogs

(* For any members, calls, days and faults: outside the days of overlapping *)
(* writes the buckets of a room are a log to which a message is appended    *)
(* once and in which only readers are added.                                *)
THEOREM LogTheorem == Spec => ImplementsLog
  <1>1. Init => Log!Init
    BY DEF Init, Log!Init, Shown
  <1>2. ASSUME SerialInv, [Next]_vars
        PROVE  [Log!Next]_(Log!vars)
    <2>1. MessagesInv
      BY <1>2 DEF SerialInv
    <2>2. CASE \E c \in Calls : InsertBucket(c)
      BY <2>1, <2>2, InsertLogs
    <2>3. CASE \E c \in Calls : AppendMessage(c)
      BY <2>1, <2>3, AppendLogs
    <2>4. CASE \E c \in Calls : MarkWrite(c)
      BY <1>2, <2>4, MarkLogs
    <2>5. CASE UNCHANGED <<buckets, clobbered>>
      BY <2>5 DEF Shown, Log!vars
    <2>6. \/ \E c \in Calls : InsertBucket(c) \/ AppendMessage(c) \/ MarkWrite(c)
          \/ UNCHANGED <<buckets, clobbered>>
      BY <1>2 DEF Next, Step, Send, MarkFind, FindBucket, Publish, Sent, FailCall,
         Connect, Disconnect, Midnight, vars
    <2>7. QED  BY <2>2, <2>3, <2>4, <2>5, <2>6
  <1>3. Spec => []SerialInv
    BY SerialInvariant
  <1>4. QED  BY <1>1, <1>2, <1>3, PTL DEF Spec, ImplementsLog, Log!Spec
=============================================================================
