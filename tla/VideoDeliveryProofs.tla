------------------------ MODULE VideoDeliveryProofs ------------------------
(* Theorems about VideoPipeline: what shared files and shared queues do not *)
(* do to each other.                                                        *)
EXTENDS VideoPipelineProofs

USE NoneAssumption, ServerAssumption

-----------------------------------------------------------------------------
(* Originals *)

(* With paths of its own, an upload finds its own bytes in its file.        *)
FileInv(r) ==
    /\ disk[TmpPath[r]] \in {r, None}
    /\ upload[r] = "copy" => fd[r] = r /\ data[r] = {}
    /\ upload[r] \in {"insert", "put"} => data[r] = {r}
    /\ r \in stored => bytes[r] = {r}

LEMMA FileUpload ==
    ASSUME TypeOK, \A a, b \in Requests : TmpPath[a] = TmpPath[b] => a = b,
           \A x \in Requests : FileInv(x),
           NEW r \in Requests, UploadVideo(r) \/ FailUpload(r),
           NEW x \in Requests
    PROVE  FileInv(x)'
  <1>0. /\ upload \in [Requests -> UploadPc] /\ fd \in [Requests -> Requests \cup {None}]
        /\ disk \in [Paths -> Requests \cup {None}]
        /\ data \in [Requests -> SUBSET Requests]
        /\ bytes \in [Requests -> SUBSET Requests]
        /\ TmpPath[r] \in Paths /\ TmpPath[x] \in Paths
        /\ FileInv(x) /\ FileInv(r)
    BY DEF TypeOK, Paths
  <1>1. CASE x # r
    <2>1. TmpPath[x] # TmpPath[r]
      BY <1>1
    <2>2. CASE CreateTmp(r)
      <3>1. (IF disk[TmpPath[r]] = None THEN r ELSE disk[TmpPath[r]]) = r
        BY <1>0 DEF FileInv
      <3>2. QED
        BY <1>0, <1>1, <2>1, <2>2, <3>1
        DEF CreateTmp, Answered, FileInv, storeVars
    <2>3. CASE CopyTmp(r)
      <3>1. fd[r] = r
        BY <1>0, <2>3 DEF CopyTmp, At, FileInv
      <3>2. QED
        BY <1>0, <1>1, <2>3, <3>1 DEF CopyTmp, Answered, FileInv, storeVars
    <2>4. CASE PutOriginal(r)
      BY <1>0, <1>1, <2>4 DEF PutOriginal, Answered, FileInv
    <2>5. CASE RemoveTmp(r)
      BY <1>0, <1>1, <2>1, <2>5 DEF RemoveTmp, Answered, FileInv, storeVars
    <2>6. CASE InsertRow(r) \/ SaveObjectName(r)
      BY <1>0, <1>1, <2>6 DEF InsertRow, SaveObjectName, Answered, FileInv
    <2>7. CASE PutMissing(r) \/ PublishJob(r) \/ PublishRefused(r) \/ FailUpload(r)
      BY <1>0, <1>1, <2>7 DEF PutMissing, PublishJob, PublishRefused, FailUpload,
         FileInv, storeVars
    <2>8. QED
      BY <2>2, <2>3, <2>4, <2>5, <2>6, <2>7 DEF UploadVideo
  <1>2. CASE x = r
    <2>2. CASE CreateTmp(r)
      <3>1. (IF disk[TmpPath[r]] = None THEN r ELSE disk[TmpPath[r]]) = r
        BY <1>0 DEF FileInv
      <3>2. QED
        BY <1>0, <1>2, <2>2, <3>1 DEF CreateTmp, Answered, FileInv, storeVars
    <2>3. CASE CopyTmp(r)
      <3>1. fd[r] = r /\ data[r] = {}
        BY <1>0, <2>3 DEF CopyTmp, At, FileInv
      <3>2. data'[r] = {r}
        BY <1>0, <2>3, <3>1 DEF CopyTmp
      <3>3. QED
        BY <1>0, <1>2, <2>3, <3>2 DEF CopyTmp, Answered, FileInv, storeVars
    <2>4. CASE PutOriginal(r)
      <3>1. disk[TmpPath[r]] = r /\ data[r] = {r}
        BY <1>0, <2>4 DEF PutOriginal, At, FileInv
      <3>2. QED
        BY <1>0, <1>2, <2>4, <3>1 DEF PutOriginal, Answered, FileInv
    <2>5. CASE RemoveTmp(r)
      BY <1>0, <1>2, <2>5 DEF RemoveTmp, Answered, FileInv, storeVars
    <2>6. CASE InsertRow(r)
      BY <1>0, <1>2, <2>6 DEF InsertRow, At, Answered, FileInv
    <2>7. CASE SaveObjectName(r)
      BY <1>0, <1>2, <2>7 DEF SaveObjectName, At, Answered, FileInv
    <2>8. CASE PutMissing(r) \/ PublishJob(r) \/ PublishRefused(r) \/ FailUpload(r)
      BY <1>0, <1>2, <2>8 DEF PutMissing, PublishJob, PublishRefused, FailUpload,
         FileInv, storeVars
    <2>9. QED
      BY <2>2, <2>3, <2>4, <2>5, <2>6, <2>7, <2>8 DEF UploadVideo
  <1>3. QED  BY <1>1, <1>2

(* Nothing but an upload touches the temporary files and the originals.     *)
LEMMA FileRest ==
    ASSUME TypeOK, NEW x \in Requests, FileInv(x),
           \/ \E r \in Requests : LosePublish(r)
           \/ \E i \in Instances :
                 \/ Deliver(i) \/ Work(i) \/ FailWork(i)
                 \/ Crash(i) \/ Restart(i) \/ LoseConnection(i)
           \/ RestartBroker \/ UNCHANGED vars
    PROVE  FileInv(x)'
  <1>0. upload \in [Requests -> UploadPc]
    BY DEF TypeOK
  <1>1. UNCHANGED <<fd, disk, data, stored, bytes>>
    BY DEF LosePublish, Deliver, Work, Receive, StopConsumer, Download, Transcode,
       SendOutput, ReadRow, MarkReady, Ack, Nack, FailWork, Crash, Restart,
       LoseConnection, RestartBroker, uploadVars, storeVars, vars
  <1>2. upload'[x] \in {upload[x], "failed", "cleanup"}
    BY <1>0 DEF LosePublish, Deliver, Work, Receive, StopConsumer, Download,
       Transcode, SendOutput, ReadRow, MarkReady, Ack, Nack, FailWork, Crash,
       Restart, LoseConnection, RestartBroker, uploadVars, vars
  <1>3. QED  BY <1>1, <1>2 DEF FileInv

(* When no two uploads share a temporary path, every original holds the     *)
(* bytes of its own upload, whatever fails: sharing the path, which the run *)
(* pipeline_samepath shows to break it, is the only way.                    *)
THEOREM OriginalTheorem ==
    ASSUME \A a, b \in Requests : TmpPath[a] = TmpPath[b] => a = b
    PROVE  Spec => []OriginalIntact
  <1> DEFINE Files1 == TypeOK /\ \A x \in Requests : FileInv(x)
  <1>1. Init => Files1
    <2> SUFFICES ASSUME Init PROVE Files1
      OBVIOUS
    <2>1. TypeOK
      BY InitType DEF TypeInv
    <2>2. ASSUME NEW x \in Requests PROVE FileInv(x)
      <3>1. TmpPath[x] \in Paths
        BY DEF Paths
      <3>2. QED  BY <3>1 DEF Init, FileInv
    <2>3. QED  BY <2>1, <2>2
  <1>2. Files1 /\ TypeOK' /\ [Next]_vars => Files1'
    <2> SUFFICES ASSUME Files1, TypeOK', [Next]_vars, NEW x \in Requests
                 PROVE  FileInv(x)'
      OBVIOUS
    <2>1. CASE \E r \in Requests : UploadVideo(r) \/ FailUpload(r)
      BY <2>1, FileUpload
    <2>2. CASE ~ \E r \in Requests : UploadVideo(r) \/ FailUpload(r)
      <3>1. \/ \E r \in Requests : LosePublish(r)
            \/ \E i \in Instances :
                  \/ Deliver(i) \/ Work(i) \/ FailWork(i)
                  \/ Crash(i) \/ Restart(i) \/ LoseConnection(i)
            \/ RestartBroker \/ UNCHANGED vars
        BY <2>2 DEF Next
      <3>2. QED  BY <3>1, FileRest
    <2>3. QED  BY <2>1, <2>2
  <1>3. Files1 => OriginalIntact
    BY DEF FileInv, OriginalIntact, TypeOK
  <1> HIDE DEF Files1
  <1>4. QED  BY <1>1, <1>2, <1>3, TypeCorrect, PTL DEF Spec

-----------------------------------------------------------------------------
(* Sequences without repetition *)

Once(s) == \A m, n \in DOMAIN s : s[m] = s[n] => m = n

LEMMA OnceAppend ==
    ASSUME NEW S, NEW s \in Seq(S), NEW e \in S, Once(s), e \notin Range(s)
    PROVE  Once(Append(s, e))
  <1> SUFFICES ASSUME NEW m \in DOMAIN Append(s, e), NEW n \in DOMAIN Append(s, e),
                      Append(s, e)[m] = Append(s, e)[n]
               PROVE  m = n
    BY DEF Once
  <1>1. /\ m \in 1..(Len(s) + 1) /\ n \in 1..(Len(s) + 1)
        /\ \A k \in 1..Len(s) : Append(s, e)[k] = s[k] /\ s[k] # e
        /\ Append(s, e)[Len(s) + 1] = e /\ DOMAIN s = 1..Len(s)
    BY DEF Range
  <1>2. QED  BY <1>1 DEF Once

LEMMA OnceTail ==
    ASSUME NEW S, NEW s \in Seq(S), s # <<>>, Once(s)
    PROVE  Once(Tail(s)) /\ Head(s) \notin Range(Tail(s))
  <1>1. /\ DOMAIN s = 1..Len(s) /\ DOMAIN Tail(s) = 1..(Len(s) - 1)
        /\ \A k \in DOMAIN Tail(s) : k + 1 \in DOMAIN s /\ Tail(s)[k] = s[k + 1]
        /\ Head(s) = s[1] /\ 1 \in DOMAIN s
    OBVIOUS
  <1>2. Once(Tail(s))
    BY <1>1 DEF Once
  <1>3. \A k \in DOMAIN Tail(s) : Tail(s)[k] # Head(s)
    BY <1>1 DEF Once
  <1>4. QED  BY <1>2, <1>3 DEF Range

LEMMA OnceConcat ==
    ASSUME NEW S, NEW s \in Seq(S), NEW t \in Seq(S), Once(s), Once(t),
           Range(s) \cap Range(t) = {}
    PROVE  Once(s \o t)
  <1>1. /\ DOMAIN s = 1..Len(s) /\ DOMAIN t = 1..Len(t)
        /\ DOMAIN (s \o t) = 1..(Len(s) + Len(t))
        /\ \A k \in 1..Len(s) : (s \o t)[k] = s[k]
        /\ \A k \in DOMAIN (s \o t) :
              k > Len(s) => k - Len(s) \in DOMAIN t /\ (s \o t)[k] = t[k - Len(s)]
        /\ Len(s) \in Nat /\ Len(t) \in Nat
    OBVIOUS
  <1>2. \A m \in DOMAIN s, n \in DOMAIN t : s[m] # t[n]
    BY DEF Range
  <1> SUFFICES ASSUME NEW m \in DOMAIN (s \o t), NEW n \in DOMAIN (s \o t),
                      (s \o t)[m] = (s \o t)[n]
               PROVE  m = n
    BY DEF Once
  <1>3. CASE m <= Len(s) /\ n <= Len(s)
    BY <1>1, <1>3 DEF Once
  <1>4. CASE m > Len(s) /\ n > Len(s)
    <2>1. m - Len(s) = n - Len(s)
      BY <1>1, <1>4 DEF Once
    <2>2. QED  BY <1>1, <2>1
  <1>5. CASE m <= Len(s) /\ n > Len(s)
    BY <1>1, <1>2, <1>5
  <1>6. CASE m > Len(s) /\ n <= Len(s)
    BY <1>1, <1>2, <1>6
  <1>7. QED  BY <1>1, <1>3, <1>4, <1>5, <1>6

LEMMA OnceCons ==
    ASSUME NEW S, NEW e \in S, NEW s \in Seq(S), Once(s), e \notin Range(s)
    PROVE  Once(<<e>> \o s)
  <1>1. <<e>> \in Seq(S) /\ Range(<<e>>) = {e}
    BY RangeSingle
  <1>2. Once(<<e>>)
    BY DEF Once
  <1>3. PICK t \in Seq(S) : t = <<e>>
    BY <1>1
  <1>4. Once(t) /\ Range(t) \cap Range(s) = {}
    BY <1>1, <1>2, <1>3, Zenon
  <1>5. Once(t \o s)
    BY <1>4, OnceConcat
  <1>6. QED  BY <1>3, <1>5, Zenon

-----------------------------------------------------------------------------
(* Jobs.  The broker has one copy of a job: it waits once, in the queue, in *)
(* one buffer or with one consumer whose channel is open.  What a consumer  *)
(* works on after its channel has closed is not counted.                    *)

Holds(i, x) == i \in chan /\ stage[i] \in Busy /\ job[i] = x

OneCopy(x) ==
    /\ x \in Range(queue) => \A i \in Instances : x \notin Range(inbox[i]) /\ ~Holds(i, x)
    /\ \A i, j \in Instances : x \in Range(inbox[i]) => ~Holds(j, x)
    /\ \A i, j \in Instances :
          x \in Range(inbox[i]) /\ x \in Range(inbox[j]) => i = j
    /\ \A i, j \in Instances : Holds(i, x) /\ Holds(j, x) => i = j

Shape ==
    /\ Once(queue) /\ \A i \in Instances : Once(inbox[i])
    /\ \A i \in Instances \ chan : inbox[i] = <<>>
    /\ \A i \in Instances \ up : stage[i] = "idle"

CopyInv == Shape /\ \A x \in Requests : OneCopy(x)

LEMMA CopyUpload ==
    ASSUME PipelineInv, CopyInv, NEW r \in Requests, UploadVideo(r) \/ FailUpload(r)
    PROVE  CopyInv'
  <1>0. queue \in Seq(Requests)
    BY DEF PipelineInv, TypeOK
  <1>1. CASE PublishJob(r)
    <2>1. ~InFlight(r)
      BY <1>1 DEF PublishJob, At, PipelineInv, JobConsistent, Published
    <2>2. r \notin Range(queue)
      BY <2>1 DEF InFlight
    <2>3. Once(queue') /\ Range(queue') = Range(queue) \cup {r}
      BY <1>0, <1>1, <2>2, OnceAppend, RangeAppend DEF PublishJob, CopyInv, Shape
    <2>4. UNCHANGED <<inbox, chan, stage, job, up>>
      BY <1>1 DEF PublishJob, workerVars
    <2>5. \A i \in Instances : r \notin Range(inbox[i]) /\ ~Holds(i, r)
      BY <2>1 DEF InFlight, Holds
    <2>6. Shape'
      BY <2>3, <2>4 DEF CopyInv, Shape
    <2>7. \A x \in Requests : OneCopy(x)'
      BY <2>3, <2>4, <2>5 DEF CopyInv, OneCopy, Holds
    <2>8. QED  BY <2>6, <2>7 DEF CopyInv
  <1>2. CASE ~PublishJob(r)
    <2>1. UNCHANGED <<queue, inbox, chan, stage, job, up>>
      BY <1>2 DEF UploadVideo, CreateTmp, CopyTmp, InsertRow, PutOriginal,
         PutMissing, SaveObjectName, PublishRefused, RemoveTmp, FailUpload,
         brokerVars, workerVars
    <2>2. QED  BY <2>1 DEF CopyInv, Shape, OneCopy, Holds
  <1>3. QED  BY <1>1, <1>2

LEMMA CopyWork ==
    ASSUME PipelineInv, CopyInv, NEW i \in Instances,
           Deliver(i) \/ Work(i) \/ FailWork(i)
    PROVE  CopyInv'
  <1>0. /\ queue \in Seq(Requests) /\ inbox \in [Instances -> Seq(Requests)]
        /\ stage \in [Instances -> WorkerPc] /\ job \in [Instances -> Requests \cup {None}]
        /\ chan \in SUBSET Instances /\ up \in SUBSET Instances
        /\ stage[i] \in Busy => job[i] \in Requests
        /\ Shape
    BY DEF PipelineInv, TypeOK, WorkConsistent, CopyInv
  <1>1. CASE Deliver(i)
    <2> DEFINE h == Head(queue)
    <2>1. /\ queue # <<>> /\ i \in chan /\ h \in Requests
          /\ Range(queue) = {h} \cup Range(queue')
          /\ Once(queue') /\ h \notin Range(queue')
      BY <1>0, <1>1, RangeTail, OnceTail DEF Deliver, Shape
    <2>2. OneCopy(h)
      BY <2>1 DEF CopyInv
    <2>3. /\ h \notin Range(inbox[i])
          /\ \A k \in Instances : h \notin Range(inbox[k]) /\ ~Holds(k, h)
      BY <2>1, <2>2 DEF OneCopy
    <2>4. inbox[i] \in Seq(Requests) /\ Once(inbox[i]) /\ inbox'[i] = Append(inbox[i], h)
      BY <1>0, <1>1 DEF Deliver, Shape
    <2>5. Once(inbox'[i]) /\ Range(inbox'[i]) = Range(inbox[i]) \cup {h}
      BY <2>1, <2>3, <2>4, OnceAppend, RangeAppend
    <2>6. /\ \A k \in Instances \ {i} : inbox'[k] = inbox[k]
          /\ UNCHANGED <<chan, stage, job, up>>
      BY <1>0, <1>1 DEF Deliver, workerVars
    <2>7. Shape'
      BY <2>1, <2>5, <2>6 DEF Shape, CopyInv
    <2>8. ASSUME NEW x \in Requests PROVE OneCopy(x)'
      <3>1. OneCopy(x) /\ \A k \in Instances : Holds(k, x)' <=> Holds(k, x)
        BY <2>6 DEF CopyInv, Holds
      <3>2. CASE x = h
        <4>1. /\ x \notin Range(queue')
              /\ \A k \in Instances : x \in Range(inbox'[k]) => k = i
              /\ \A k \in Instances : ~Holds(k, x)'
          BY <2>1, <2>3, <2>6, <3>1, <3>2
        <4>2. QED  BY <4>1 DEF OneCopy
      <3>3. CASE x # h
        <4>1. /\ x \in Range(queue') <=> x \in Range(queue)
              /\ \A k \in Instances : x \in Range(inbox'[k]) <=> x \in Range(inbox[k])
          BY <2>1, <2>5, <2>6, <3>3
        <4>2. QED  BY <3>1, <4>1 DEF OneCopy
      <3>4. QED  BY <3>2, <3>3
    <2>9. QED  BY <2>7, <2>8 DEF CopyInv
  <1>2. CASE Receive(i)
    <2> DEFINE h == Head(inbox[i])
    <2>1. inbox[i] # <<>> /\ inbox[i] \in Seq(Requests) /\ Once(inbox[i])
      BY <1>0, <1>2 DEF Receive, Shape
    <2>2. /\ i \in chan /\ inbox'[i] = Tail(inbox[i])
          /\ job'[i] = h /\ stage'[i] = "download" /\ stage[i] = "idle"
      BY <1>0, <1>2, <2>1 DEF Receive, Step, Goto, Shape
    <2>3. /\ Range(inbox[i]) = {h} \cup Range(inbox'[i])
          /\ Once(inbox'[i]) /\ h \notin Range(inbox'[i]) /\ h \in Requests
      BY <2>1, <2>2, RangeTail, OnceTail
    <2>4. /\ \A k \in Instances \ {i} :
                inbox'[k] = inbox[k] /\ stage'[k] = stage[k] /\ job'[k] = job[k]
          /\ UNCHANGED <<queue, chan, up>> /\ i \in up
      BY <1>0, <1>2 DEF Receive, Step, Goto
    <2>5. Shape'
      BY <2>2, <2>3, <2>4 DEF Shape, CopyInv
    <2>6. ASSUME NEW x \in Requests PROVE OneCopy(x)'
      <3>1. /\ OneCopy(x)
            /\ \A k \in Instances \ {i} : Holds(k, x)' <=> Holds(k, x)
            /\ ~Holds(i, x) /\ (Holds(i, x)' <=> x = h)
        BY <2>2, <2>4 DEF CopyInv, Holds, Busy
      <3>2. CASE x = h
        <4>1. /\ x \in Range(inbox[i]) /\ x \notin Range(queue)
              /\ \A k \in Instances : ~Holds(k, x)
              /\ \A k \in Instances \ {i} : x \notin Range(inbox[k])
          BY <2>3, <3>1, <3>2 DEF OneCopy
        <4>2. /\ x \notin Range(queue')
              /\ \A k \in Instances : x \notin Range(inbox'[k])
              /\ \A k \in Instances : Holds(k, x)' => k = i
          BY <2>3, <2>4, <3>1, <3>2, <4>1
        <4>3. QED  BY <4>2 DEF OneCopy
      <3>3. CASE x # h
        <4>1. /\ x \in Range(queue') <=> x \in Range(queue)
              /\ \A k \in Instances : x \in Range(inbox'[k]) <=> x \in Range(inbox[k])
              /\ \A k \in Instances : Holds(k, x)' <=> Holds(k, x)
          BY <2>3, <2>4, <3>1, <3>3
        <4>2. QED  BY <3>1, <4>1 DEF OneCopy
      <3>4. QED  BY <3>2, <3>3
    <2>7. QED  BY <2>5, <2>6 DEF CopyInv
  <1>3. CASE Nack(i)
    <2>1. /\ stage[i] \in Busy /\ stage'[i] = "idle" /\ job[i] \in Requests
          /\ UNCHANGED <<inbox, chan, up>>
          /\ \A k \in Instances \ {i} : stage'[k] = stage[k] /\ job'[k] = job[k]
      BY <1>0, <1>3 DEF Nack, Step, Goto, Forget, Busy
    <2>2. \A x : /\ ~Holds(i, x)'
                 /\ \A k \in Instances \ {i} : Holds(k, x)' <=> Holds(k, x)
      BY <2>1 DEF Holds, Busy
    <2>3. CASE i \in chan
      <3>1. Holds(i, job[i]) /\ OneCopy(job[i])
        BY <2>1, <2>3 DEF Holds, CopyInv
      <3>2. /\ job[i] \notin Range(queue)
            /\ \A k \in Instances : job[i] \notin Range(inbox[k])
            /\ \A k \in Instances \ {i} : ~Holds(k, job[i])
        BY <3>1 DEF OneCopy
      <3>3. queue' = <<job[i]>> \o queue
        BY <1>3, <2>3 DEF Nack
      <3>4. Once(queue') /\ Range(queue') = {job[i]} \cup Range(queue)
        BY <1>0, <2>1, <3>2, <3>3, OnceCons, RangeCons DEF Shape
      <3>5. Shape'
        BY <2>1, <3>4 DEF Shape, CopyInv
      <3>6. ASSUME NEW x \in Requests PROVE OneCopy(x)'
        <4>1. OneCopy(x)
          BY DEF CopyInv
        <4>2. QED  BY <2>1, <2>2, <3>2, <3>4, <4>1 DEF OneCopy
      <3>7. QED  BY <3>5, <3>6 DEF CopyInv
    <2>4. CASE i \notin chan
      <3>1. queue' = queue
        BY <1>3, <2>4 DEF Nack
      <3>2. \A x \in Requests : OneCopy(x)'
        BY <2>1, <2>2, <3>1 DEF CopyInv, OneCopy
      <3>3. QED  BY <2>1, <3>1, <3>2 DEF CopyInv, Shape
    <2>5. QED  BY <2>3, <2>4
  <1>4. CASE Ack(i)
    <2>1. /\ stage[i] \in Busy /\ stage'[i] = "idle"
          /\ UNCHANGED <<queue, inbox, chan, up>>
          /\ \A k \in Instances \ {i} : stage'[k] = stage[k] /\ job'[k] = job[k]
      BY <1>0, <1>4 DEF Ack, Step, Goto, Forget, Busy, brokerVars
    <2>2. \A x : \A k \in Instances : Holds(k, x)' => Holds(k, x)
      BY <2>1 DEF Holds, Busy
    <2>3. QED  BY <2>1, <2>2 DEF CopyInv, Shape, OneCopy
  <1>5. CASE StopConsumer(i)
    <2>1. /\ stage'[i] = "stopped" /\ UNCHANGED <<queue, inbox, chan, up>> /\ i \in up
          /\ \A k \in Instances \ {i} : stage'[k] = stage[k]
          /\ job' = job
      BY <1>0, <1>5 DEF StopConsumer, Step, Goto, brokerVars
    <2>2. \A x : \A k \in Instances : Holds(k, x)' => Holds(k, x)
      BY <2>1 DEF Holds, Busy
    <2>3. QED  BY <2>1, <2>2 DEF CopyInv, Shape, OneCopy
  <1>6. CASE Download(i) \/ Transcode(i) \/ SendOutput(i) \/ ReadRow(i)
             \/ MarkReady(i) \/ FailWork(i)
    <2>1. /\ stage[i] \in Busy /\ stage'[i] \in Busy /\ i \in up
          /\ UNCHANGED <<queue, inbox, chan, up, job>>
          /\ \A k \in Instances \ {i} : stage'[k] = stage[k]
      BY <1>0, <1>6 DEF Download, Transcode, SendOutput, ReadRow, MarkReady,
         FailWork, Step, Goto, Busy, brokerVars
    <2>2. \A x : \A k \in Instances : Holds(k, x)' <=> Holds(k, x)
      BY <2>1 DEF Holds
    <2>3. QED  BY <2>1, <2>2 DEF CopyInv, Shape, OneCopy
  <1>7. QED  BY <1>1, <1>2, <1>3, <1>4, <1>5, <1>6 DEF Work

(* The broker takes back everything a closing channel holds, and only that. *)
LEMMA CopyClose ==
    ASSUME PipelineInv, CopyInv, NEW i \in Instances, CloseChannel(i),
           \A k \in Instances \ {i} : stage'[k] = stage[k] /\ job'[k] = job[k],
           \A k \in Instances \ up' : stage'[k] = "idle"
    PROVE  CopyInv'
  <1>0. /\ queue \in Seq(Requests) /\ inbox \in [Instances -> Seq(Requests)]
        /\ chan \in SUBSET Instances /\ Shape
        /\ inbox[i] \in Seq(Requests) /\ Once(inbox[i]) /\ Once(queue)
        /\ stage[i] \in Busy => job[i] \in Requests
        /\ <<>> \in Seq(Requests)
    BY DEF PipelineInv, TypeOK, CopyInv, Shape, WorkConsistent
  <1>1. /\ Unsettled(i) \in Seq(Requests) /\ Once(Unsettled(i))
        /\ \A x : x \in Range(Unsettled(i)) <=> x \in Range(inbox[i]) \/ Holds(i, x)
    <2>1. CASE i \notin chan
      <3>1. inbox[i] = <<>> /\ Unsettled(i) = <<>>
        BY <1>0, <2>1 DEF Shape, Unsettled
      <3>2. QED  BY <1>0, <2>1, <3>1, RangeEmpty DEF Holds
    <2>2. CASE i \in chan /\ stage[i] \in Busy
      <3>1. Unsettled(i) = <<job[i]>> \o inbox[i]
        BY <2>2 DEF Unsettled
      <3>2. job[i] \notin Range(inbox[i])
        BY <1>0, <2>2 DEF CopyInv, OneCopy, Holds
      <3>3. /\ Once(<<job[i]>> \o inbox[i]) /\ <<job[i]>> \o inbox[i] \in Seq(Requests)
            /\ Range(<<job[i]>> \o inbox[i]) = {job[i]} \cup Range(inbox[i])
        BY <1>0, <2>2, <3>2, OnceCons, RangeCons
      <3>4. QED  BY <2>2, <3>1, <3>3 DEF Holds
    <2>3. CASE i \in chan /\ stage[i] \notin Busy
      <3>1. Unsettled(i) = <<>> \o inbox[i]
        BY <2>3 DEF Unsettled
      <3>2. <<>> \o inbox[i] = inbox[i]
        BY <1>0
      <3>3. QED  BY <1>0, <2>3, <3>1, <3>2 DEF Holds
    <2>4. QED  BY <2>1, <2>2, <2>3
  <1>2. Range(Unsettled(i)) \cap Range(queue) = {}
    <2> SUFFICES ASSUME NEW x, x \in Range(Unsettled(i)), x \in Range(queue)
                 PROVE  FALSE
      OBVIOUS
    <2>1. x \in Requests
      BY <1>0 DEF Range
    <2>2. QED  BY <1>1, <2>1 DEF CopyInv, OneCopy
  <1>3. /\ queue' = Unsettled(i) \o queue /\ Once(queue')
        /\ Range(queue') = Range(Unsettled(i)) \cup Range(queue)
    BY <1>0, <1>1, <1>2, OnceConcat, RangeConcat DEF CloseChannel
  <1>4. /\ inbox'[i] = <<>> /\ \A k \in Instances \ {i} : inbox'[k] = inbox[k]
        /\ chan' = chan \ {i}
    BY <1>0 DEF CloseChannel
  <1>5. /\ \A x : ~Holds(i, x)'
        /\ \A x : \A k \in Instances \ {i} : Holds(k, x)' <=> Holds(k, x)
    BY <1>4 DEF Holds
  <1>6. Shape'
    BY <1>3, <1>4 DEF Shape, CopyInv, Once
  <1>7. ASSUME NEW x \in Requests PROVE OneCopy(x)'
    <2>1. OneCopy(x) /\ x \notin Range(inbox'[i])
      BY <1>4, RangeEmpty DEF CopyInv
    <2>2. \A k \in Instances \ {i} : x \in Range(inbox'[k]) <=> x \in Range(inbox[k])
      BY <1>4
    <2>3. x \in Range(queue') <=>
             x \in Range(inbox[i]) \/ Holds(i, x) \/ x \in Range(queue)
      BY <1>1, <1>3
    <2>4. QED  BY <1>5, <2>1, <2>2, <2>3 DEF OneCopy
  <1>8. QED  BY <1>6, <1>7 DEF CopyInv

LEMMA CopyFault ==
    ASSUME PipelineInv, CopyInv,
           \/ \E r \in Requests : LosePublish(r)
           \/ \E i \in Instances : Crash(i) \/ Restart(i) \/ LoseConnection(i)
           \/ RestartBroker
    PROVE  CopyInv'
  <1>0. /\ stage \in [Instances -> WorkerPc] /\ job \in [Instances -> Requests \cup {None}]
        /\ up \in SUBSET Instances /\ chan \in SUBSET Instances /\ Shape
    BY DEF PipelineInv, TypeOK, CopyInv
  <1>1. ASSUME NEW i \in Instances, CloseChannel(i), UNCHANGED <<stage, job, up>>
        PROVE  CopyInv'
    BY <1>0, <1>1, CopyClose DEF Shape
  <1>2. ASSUME NEW r \in Requests, LosePublish(r) PROVE CopyInv'
    <2>1. Server[r] \in Instances /\ CloseChannel(Server[r]) /\ UNCHANGED <<stage, job, up>>
      BY <1>2 DEF LosePublish, workerVars
    <2>2. QED  BY <1>1, <2>1
  <1>3. ASSUME NEW i \in Instances, LoseConnection(i) PROVE CopyInv'
    <2>1. CloseChannel(i) /\ UNCHANGED <<stage, job, up>>
      BY <1>3 DEF LoseConnection, workerVars
    <2>2. QED  BY <1>1, <1>3, <2>1
  <1>4. ASSUME NEW i \in Instances, Crash(i) PROVE CopyInv'
    <2>1. /\ CloseChannel(i) /\ up' = up \ {i} /\ stage'[i] = "idle"
          /\ \A k \in Instances \ {i} : stage'[k] = stage[k] /\ job'[k] = job[k]
      BY <1>0, <1>4 DEF Crash, Goto, Forget
    <2>2. \A k \in Instances \ up' : stage'[k] = "idle"
      BY <1>0, <2>1 DEF Shape
    <2>3. QED  BY <1>4, <2>1, <2>2, CopyClose
  <1>5. ASSUME NEW i \in Instances, Restart(i) PROVE CopyInv'
    <2>1. /\ i \notin up /\ up' = up \cup {i} /\ chan' = chan \cup {i}
          /\ UNCHANGED <<queue, inbox, stage, job>>
      BY <1>5 DEF Restart, workerVars
    <2>2. stage[i] = "idle"
      BY <1>0, <1>5, <2>1 DEF Shape
    <2>3. \A x : \A k \in Instances : Holds(k, x)' <=> Holds(k, x)
      BY <2>1, <2>2 DEF Holds, Busy
    <2>4. QED  BY <1>0, <2>1, <2>3 DEF CopyInv, Shape, OneCopy
  <1>6. CASE RestartBroker
    <2>1. /\ queue' = <<>> /\ chan' = {} /\ \A k \in Instances : inbox'[k] = <<>>
          /\ UNCHANGED <<stage, up>>
      BY <1>6 DEF RestartBroker, workerVars
    <2>2. \A x : \A k \in Instances : ~Holds(k, x)'
      BY <2>1 DEF Holds
    <2>3. QED
      BY <1>0, <2>1, <2>2, RangeEmpty DEF CopyInv, Shape, OneCopy, Once
  <1>7. QED  BY <1>2, <1>3, <1>4, <1>5, <1>6

(* Two consumers whose channels are open never work on one video at the     *)
(* same time, for any number of instances and any faults: what the broker   *)
(* gives to somebody else it has taken from a channel that is closed.       *)
THEOREM NoConcurrencyTheorem == Spec => []NoConcurrentTranscode
  <1>1. Init => CopyInv
    <2> SUFFICES ASSUME Init PROVE CopyInv
      OBVIOUS
    <2>1. Shape
      BY DEF Init, Shape, Once
    <2>2. \A x \in Requests : OneCopy(x)
      BY RangeEmpty DEF Init, OneCopy, Holds, Busy
    <2>3. QED  BY <2>1, <2>2 DEF CopyInv
  <1>2. PipelineInv /\ CopyInv /\ [Next]_vars => CopyInv'
    <2> SUFFICES ASSUME PipelineInv, CopyInv, [Next]_vars PROVE CopyInv'
      OBVIOUS
    <2>1. CASE UNCHANGED vars
      BY <2>1 DEF CopyInv, Shape, OneCopy, Holds, vars, brokerVars, workerVars
    <2>2. CASE Next
      BY <2>2, CopyUpload, CopyWork, CopyFault DEF Next
    <2>3. QED  BY <2>1, <2>2
  <1>3. PipelineInv /\ CopyInv => NoConcurrentTranscode
    <2> SUFFICES ASSUME PipelineInv, CopyInv, NEW i \in chan, NEW j \in chan,
                        stage[i] \in Busy, stage[j] \in Busy, job[i] = job[j]
                 PROVE  i = j
      BY DEF NoConcurrentTranscode
    <2>1. i \in Instances /\ j \in Instances /\ job[i] \in Requests
      BY DEF PipelineInv, TypeOK, WorkConsistent
    <2>2. QED  BY <2>1 DEF CopyInv, OneCopy, Holds
  <1>4. QED  BY <1>1, <1>2, <1>3, Inductive, PTL DEF Spec
=============================================================================
