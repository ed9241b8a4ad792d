------------------------ MODULE VideoPipelineProofs ------------------------
(* Proofs about VideoPipeline, for every value of its constants. *)
EXTENDS VideoPipeline, TLAPS

USE NoneAssumption, SegmentsAssumption, ServerAssumption

-----------------------------------------------------------------------------
(* The inductive invariant of the pipeline. A row has the status its       *)
(* upload has reached; a job exists, and a row is ready, only when the     *)
(* upload has published, after which the upload writes neither the row nor *)
(* the original again; and a consumer that is about to set a row to ready  *)
(* has uploaded all files and holds a fresh copy.                          *)
Published(r) ==
    /\ upload[r] \in {"cleanup", "ok", "failed"}
    /\ r \in stored
    /\ row[r].status # "none" /\ row[r].file = "object"

UploadConsistent(r) ==
    /\ upload[r] \in {"new", "copy", "insert"} => row[r].status = "none"
    /\ upload[r] \in {"put", "save", "publish"} => row[r].status = "upload"
    /\ upload[r] \in {"save", "publish"} => r \in stored
    /\ upload[r] = "publish" => row[r].file = "object"

JobConsistent(r) == InFlight(r) \/ Ready(r) => Published(r)

WorkConsistent(i) ==
    /\ stage[i] \in Busy => job[i] \in Requests
    /\ stage[i] \in {"idle", "download", "transcode"} => sent[i] = 0
    /\ stage[i] = "send" => 0..(sent[i] - 1) \subseteq processed[job[i]]
    /\ stage[i] = "ready" => processed[job[i]] = Files /\ copy[i] = "object"
    /\ stage[i] = "ack" => Ready(job[i])

PipelineInv ==
    /\ TypeOK
    /\ \A r \in Requests : UploadConsistent(r) /\ JobConsistent(r)
    /\ \A i \in Instances : WorkConsistent(i)
    /\ ReadyIsPlayable

-----------------------------------------------------------------------------
(* Sequences: what a queue contains after it has been changed. *)

LEMMA RangeAppend ==
    ASSUME NEW S, NEW s \in Seq(S), NEW e \in S
    PROVE  /\ Append(s, e) \in Seq(S)
           /\ Range(Append(s, e)) = Range(s) \cup {e}
  <1>1. Append(s, e) \in Seq(S)
    OBVIOUS
  <1>2. ASSUME NEW x \in Range(s) PROVE x \in Range(Append(s, e))
    BY DEF Range
  <1>3. e \in Range(Append(s, e))
    <2>1. Len(s) + 1 \in DOMAIN Append(s, e) /\ Append(s, e)[Len(s) + 1] = e
      OBVIOUS
    <2>2. QED  BY <2>1 DEF Range
  <1>4. ASSUME NEW x \in Range(Append(s, e)) PROVE x \in Range(s) \cup {e}
    BY DEF Range
  <1>5. QED  BY <1>1, <1>2, <1>3, <1>4

LEMMA RangeTail ==
    ASSUME NEW S, NEW s \in Seq(S), s # <<>>
    PROVE  /\ Head(s) \in S
           /\ Tail(s) \in Seq(S)
           /\ Range(s) = {Head(s)} \cup Range(Tail(s))
  <1>1. Head(s) \in S /\ Tail(s) \in Seq(S)
    OBVIOUS
  <1>2. Head(s) \in Range(s)
    <2>1. 1 \in DOMAIN s /\ Head(s) = s[1]
      OBVIOUS
    <2>2. QED  BY <2>1 DEF Range
  <1>3. ASSUME NEW x \in Range(Tail(s)) PROVE x \in Range(s)
    <2>1. PICK k \in DOMAIN Tail(s) : x = Tail(s)[k]
      BY DEF Range
    <2>2. k + 1 \in DOMAIN s /\ s[k + 1] = x
      BY <2>1
    <2>3. QED  BY <2>2 DEF Range
  <1>4. ASSUME NEW x \in Range(s), x # Head(s) PROVE x \in Range(Tail(s))
    <2>1. PICK k \in DOMAIN s : x = s[k]
      BY DEF Range
    <2>2. k # 1
      BY <2>1, <1>4
    <2>3. k - 1 \in DOMAIN Tail(s) /\ Tail(s)[k - 1] = x
      BY <2>1, <2>2
    <2>4. QED  BY <2>3 DEF Range
  <1>5. QED  BY <1>1, <1>2, <1>3, <1>4

LEMMA RangeConcat ==
    ASSUME NEW S, NEW s \in Seq(S), NEW t \in Seq(S)
    PROVE  /\ s \o t \in Seq(S)
           /\ Range(s \o t) = Range(s) \cup Range(t)
  <1>1. s \o t \in Seq(S)
    OBVIOUS
  <1>2. ASSUME NEW x \in Range(s) PROVE x \in Range(s \o t)
    <2>1. PICK k \in DOMAIN s : x = s[k]
      BY DEF Range
    <2>2. k \in DOMAIN (s \o t) /\ (s \o t)[k] = x
      BY <2>1
    <2>3. QED  BY <2>2 DEF Range
  <1>3. ASSUME NEW x \in Range(t) PROVE x \in Range(s \o t)
    <2>1. PICK k \in DOMAIN t : x = t[k]
      BY DEF Range
    <2>2. Len(s) + k \in DOMAIN (s \o t) /\ (s \o t)[Len(s) + k] = x
      BY <2>1
    <2>3. QED  BY <2>2 DEF Range
  <1>4. ASSUME NEW x \in Range(s \o t) PROVE x \in Range(s) \cup Range(t)
    <2>1. PICK k \in DOMAIN (s \o t) : x = (s \o t)[k]
      BY DEF Range
    <2>2. CASE k <= Len(s)
      BY <2>1, <2>2 DEF Range
    <2>3. CASE k > Len(s)
      <3>1. k - Len(s) \in DOMAIN t /\ t[k - Len(s)] = x
        BY <2>1, <2>3
      <3>2. QED  BY <3>1 DEF Range
    <2>4. QED  BY <2>1, <2>2, <2>3
  <1>5. QED  BY <1>1, <1>2, <1>3, <1>4

LEMMA RangeEmpty == Range(<<>>) = {}
  BY DEF Range

LEMMA RangeSingle ==
    ASSUME NEW S, NEW e \in S
    PROVE  <<e>> \in Seq(S) /\ Range(<<e>>) = {e}
  <1>1. <<e>> \in Seq(S) /\ DOMAIN <<e>> = {1} /\ <<e>>[1] = e
    OBVIOUS
  <1>2. QED  BY <1>1 DEF Range

LEMMA RangeCons ==
    ASSUME NEW S, NEW e \in S, NEW s \in Seq(S)
    PROVE  <<e>> \o s \in Seq(S) /\ Range(<<e>> \o s) = {e} \cup Range(s)
  <1>1. <<e>> \in Seq(S) /\ Range(<<e>>) = {e}
    BY RangeSingle
  <1>2. PICK t \in Seq(S) : t = <<e>>
    BY <1>1
  <1>3. t \o s \in Seq(S) /\ Range(t \o s) = Range(t) \cup Range(s)
    BY RangeConcat
  <1>4. QED  BY <1>1, <1>2, <1>3, Zenon

-----------------------------------------------------------------------------
(* Types *)

LEMMA UnsettledType ==
    ASSUME TypeOK, NEW i \in Instances,
           stage[i] \in Busy => job[i] \in Requests
    PROVE  Unsettled(i) \in Seq(Requests)
  <1>1. inbox[i] \in Seq(Requests) /\ <<>> \in Seq(Requests)
    BY DEF TypeOK
  <1>2. QED  BY <1>1, RangeSingle, RangeConcat DEF Unsettled

(* A busy worker has a job, so that what is requeued is a request. *)
BusyHasJob ==
    \A i \in Instances :
        stage[i] \in Busy => job[i] \in Requests

TypeInv == TypeOK /\ BusyHasJob

LEMMA InitType == Init => TypeInv
  <1> SUFFICES ASSUME Init PROVE TypeInv
    OBVIOUS
  <1>1. TypeOK
    BY DEF Init, TypeOK, UploadPc, Active, NoRow, Rows, FileNames, WorkerPc
  <1>2. BusyHasJob
    BY DEF Init, BusyHasJob, Busy
  <1>3. QED  BY <1>1, <1>2 DEF TypeInv

(* The rows the code writes are rows. *)
LEMMA RowTypes ==
    /\ [status |-> "upload", file |-> "name"] \in Rows
    /\ [status |-> "upload", file |-> "object"] \in Rows
    /\ \A f \in FileNames : [status |-> "ready", file |-> f] \in Rows
    /\ \A x \in Rows : x.file \in FileNames
  BY DEF Rows, FileNames

LEMMA AnsweredType ==
    ASSUME TypeOK, NEW r \in Requests, NEW next \in UploadPc, Answered(r, next)
    PROVE  upload' \in [Requests -> UploadPc] /\ faults' \in Nat
  <1>1. "failed" \in UploadPc
    BY DEF UploadPc
  <1>2. upload \in [Requests -> UploadPc] /\ faults \in Nat
    BY DEF TypeOK
  <1>3. CASE upload' = [upload EXCEPT ![r] = next] /\ UNCHANGED faults
    BY <1>2, <1>3
  <1>4. CASE upload' = [upload EXCEPT ![r] = "failed"] /\ Fault("io")
    BY <1>1, <1>2, <1>4 DEF Fault
  <1>5. QED  BY <1>3, <1>4 DEF Answered

LEMMA UploadType ==
    ASSUME TypeInv, NEW r \in Requests,
           UploadVideo(r) \/ FailUpload(r)
    PROVE  TypeInv'
  <1>0. /\ {"copy", "insert", "put", "save", "publish", "cleanup", "ok",
            "failed"} \subseteq UploadPc
        /\ TmpPath[r] \in Paths
    BY DEF UploadPc, Active, Paths
  <1> USE <1>0, AnsweredType DEF TypeInv, TypeOK, storeVars, brokerVars,
      workerVars, At, BusyHasJob
  <1>1. CASE CreateTmp(r)
    <2>1. upload' \in [Requests -> UploadPc] /\ faults' \in Nat
      BY <1>1 DEF CreateTmp
    <2>2. QED  BY <1>1, <2>1 DEF CreateTmp
  <1>2. CASE CopyTmp(r)
    <2>1. upload' \in [Requests -> UploadPc] /\ faults' \in Nat
      BY <1>2 DEF CopyTmp
    <2>2. data' \in [Requests -> SUBSET Requests]
      <3>1. PICK rest \in SUBSET data[fd[r]] :
                data' = [data EXCEPT ![fd[r]] = {r} \cup rest]
        BY <1>2 DEF CopyTmp
      <3>2. CASE fd[r] \in Requests
        BY <3>1, <3>2
      <3>3. CASE fd[r] \notin Requests
        BY <3>1, <3>3
      <3>4. QED  BY <3>2, <3>3
    <2>3. QED  BY <1>2, <2>1, <2>2 DEF CopyTmp
  <1>3. CASE InsertRow(r)
    <2>1. upload' \in [Requests -> UploadPc] /\ faults' \in Nat
      BY <1>3 DEF InsertRow
    <2>2. row' \in [Requests -> Rows]
      BY <1>3, RowTypes DEF InsertRow
    <2>3. QED  BY <1>3, <2>1, <2>2 DEF InsertRow
  <1>4. CASE PutOriginal(r)
    <2>1. upload' \in [Requests -> UploadPc] /\ faults' \in Nat
      BY <1>4 DEF PutOriginal
    <2>2. QED  BY <1>4, <2>1 DEF PutOriginal
  <1>5. CASE PutMissing(r)
    BY <1>5 DEF PutMissing
  <1>6. CASE SaveObjectName(r)
    <2>1. upload' \in [Requests -> UploadPc] /\ faults' \in Nat
      BY <1>6 DEF SaveObjectName
    <2>2. row' \in [Requests -> Rows]
      BY <1>6, RowTypes DEF SaveObjectName
    <2>3. QED  BY <1>6, <2>1, <2>2 DEF SaveObjectName
  <1>7. CASE PublishJob(r)
    BY <1>7, RangeAppend DEF PublishJob
  <1>8. CASE PublishRefused(r)
    BY <1>8 DEF PublishRefused
  <1>9. CASE RemoveTmp(r)
    <2>1. CASE disk[TmpPath[r]] = None
      <3>1. upload' = [upload EXCEPT ![r] = "failed"] /\ UNCHANGED faults
        BY <1>9, <2>1 DEF RemoveTmp
      <3>2. QED  BY <1>9, <3>1 DEF RemoveTmp
    <2>2. CASE disk[TmpPath[r]] # None
      <3>1. Answered(r, "ok")
        BY <1>9, <2>2 DEF RemoveTmp
      <3>2. upload' \in [Requests -> UploadPc] /\ faults' \in Nat
        BY <3>1
      <3>3. QED  BY <1>9, <3>2 DEF RemoveTmp
    <2>3. QED  BY <2>1, <2>2
  <1>10. CASE FailUpload(r)
    BY <1>10 DEF FailUpload, Fault
  <1>11. QED
    BY <1>1, <1>2, <1>3, <1>4, <1>5, <1>6, <1>7, <1>8, <1>9, <1>10
    DEF UploadVideo

LEMMA WorkType ==
    ASSUME TypeInv, NEW i \in Instances,
           Deliver(i) \/ Work(i) \/ FailWork(i)
    PROVE  TypeInv'
  <1> USE DEF TypeInv, TypeOK, uploadVars, storeVars, brokerVars, FileNames,
              workerVars, Step, Goto,
              Busy, WorkerPc, Forget, Fault, BusyHasJob
  <1>1. CASE Deliver(i)
    BY <1>1, RangeTail, RangeAppend DEF Deliver
  <1>2. CASE Receive(i)
    BY <1>2, RangeTail DEF Receive
  <1>3. CASE StopConsumer(i)
    BY <1>3 DEF StopConsumer
  <1>4. CASE Download(i)
    BY <1>4 DEF Download
  <1>5. CASE Transcode(i)
    BY <1>5 DEF Transcode
  <1>6. CASE SendOutput(i)
    <2>1. sent[i] \in Files /\ sent[i] + 1 \in 0..(Segments + 1)
      BY <1>6 DEF SendOutput, Files
    <2>2. job[i] \in Requests
      BY <1>6 DEF SendOutput
    <2>3. processed' \in [Requests -> SUBSET Files]
      BY <1>6, <2>1, <2>2 DEF SendOutput
    <2>4. CASE sent' = [sent EXCEPT ![i] = @ + 1] /\ UNCHANGED <<stage, faults>>
      BY <1>6, <2>1, <2>3, <2>4 DEF SendOutput
    <2>5. CASE Fault("io") /\ Goto(i, "nack") /\ UNCHANGED sent
      <3>1. /\ stage' = [stage EXCEPT ![i] = "nack"] /\ UNCHANGED <<sent, job>>
            /\ faults' \in Nat
        BY <1>6, <2>5 DEF SendOutput
      <3>2. stage' \in [Instances -> WorkerPc] /\ BusyHasJob'
        BY <2>2, <3>1
      <3>3. QED  BY <1>6, <2>3, <3>1, <3>2 DEF SendOutput
    <2>6. QED  BY <1>6, <2>4, <2>5 DEF SendOutput
  <1>7. CASE ReadRow(i)
    BY <1>7 DEF ReadRow, Rows
  <1>8. CASE MarkReady(i)
    <2>1. row' \in [Requests -> Rows]
      BY <1>8, RowTypes DEF MarkReady
    <2>2. CASE Goto(i, "ack") /\ UNCHANGED faults
      BY <1>8, <2>1, <2>2 DEF MarkReady
    <2>3. CASE Goto(i, "nack") /\ Fault("io")
      <3>1. /\ stage' = [stage EXCEPT ![i] = "nack"] /\ UNCHANGED job
            /\ faults' \in Nat /\ job[i] \in Requests
        BY <1>8, <2>3 DEF MarkReady
      <3>2. stage' \in [Instances -> WorkerPc] /\ BusyHasJob'
        BY <3>1
      <3>3. QED  BY <1>8, <2>1, <3>1, <3>2 DEF MarkReady
    <2>4. QED  BY <1>8, <2>2, <2>3 DEF MarkReady
  <1>9. CASE Ack(i)
    BY <1>9 DEF Ack
  <1>10. CASE Nack(i)
    BY <1>10, RangeSingle, RangeConcat DEF Nack
  <1>11. CASE FailWork(i)
    BY <1>11 DEF FailWork
  <1>12. QED
    BY <1>1, <1>2, <1>3, <1>4, <1>5, <1>6, <1>7, <1>8, <1>9, <1>10, <1>11
    DEF Work

LEMMA CloseType ==
    ASSUME TypeInv, NEW i \in Instances, CloseChannel(i)
    PROVE  /\ queue' \in Seq(Requests)
           /\ inbox' \in [Instances -> Seq(Requests)]
           /\ chan' \in SUBSET Instances
  <1>1. Unsettled(i) \in Seq(Requests)
    BY UnsettledType DEF TypeInv, BusyHasJob
  <1>2. QED  BY <1>1, RangeConcat DEF CloseChannel, TypeInv, TypeOK

LEMMA FaultType ==
    ASSUME TypeInv,
           \/ \E r \in Requests : LosePublish(r)
           \/ \E i \in Instances : Crash(i) \/ Restart(i) \/ LoseConnection(i)
           \/ RestartBroker
    PROVE  TypeInv'
  <1> USE DEF TypeInv, TypeOK, uploadVars, storeVars, workerVars, Fault,
              BusyHasJob
  <1>1. ASSUME NEW r \in Requests, LosePublish(r) PROVE TypeInv'
    <2>1. Server[r] \in Instances
      OBVIOUS
    <2>2. /\ queue' \in Seq(Requests)
          /\ inbox' \in [Instances -> Seq(Requests)]
          /\ chan' \in SUBSET Instances
      BY <1>1, <2>1, CloseType DEF LosePublish
    <2>3. upload' \in [Requests -> UploadPc] /\ dropped' \in SUBSET Requests
      BY <1>1 DEF LosePublish, UploadPc, Active
    <2>4. QED  BY <1>1, <2>2, <2>3 DEF LosePublish
  <1>2. ASSUME NEW i \in Instances, Crash(i) PROVE TypeInv'
    <2>1. /\ queue' \in Seq(Requests)
          /\ inbox' \in [Instances -> Seq(Requests)]
          /\ chan' \in SUBSET Instances
      BY <1>2, CloseType DEF Crash
    <2>2. upload' \in [Requests -> UploadPc]
      BY <1>2 DEF Crash, UploadPc
    <2>3. /\ stage' = [stage EXCEPT ![i] = "idle"]
          /\ stage' \in [Instances -> WorkerPc]
          /\ job' \in [Instances -> Requests \cup {None}]
          /\ sent' \in [Instances -> 0..(Segments + 1)]
          /\ copy' \in [Instances -> FileNames]
      BY <1>2 DEF Crash, Goto, Forget, WorkerPc, FileNames
    <2>4. BusyHasJob'
      BY <1>2, <2>3 DEF Crash, Forget, Busy
    <2>5. /\ UNCHANGED <<fd, disk, data, row, stored, bytes, processed, dropped>>
          /\ up' \in SUBSET Instances /\ faults' \in Nat
      BY <1>2 DEF Crash
    <2>6. TypeOK'
      BY <2>1, <2>2, <2>3, <2>5
    <2>7. QED  BY <2>4, <2>6
  <1>3. ASSUME NEW i \in Instances, Restart(i) PROVE TypeInv'
    BY <1>3 DEF Restart
  <1>4. ASSUME NEW i \in Instances, LoseConnection(i) PROVE TypeInv'
    BY <1>4, CloseType DEF LoseConnection
  <1>5. CASE RestartBroker
    BY <1>5 DEF RestartBroker
  <1>6. QED  BY <1>1, <1>2, <1>3, <1>4, <1>5

LEMMA NextType == TypeInv /\ [Next]_vars => TypeInv'
  <1> SUFFICES ASSUME TypeInv, [Next]_vars PROVE TypeInv'
    OBVIOUS
  <1>1. CASE Next
    BY <1>1, UploadType, WorkType, FaultType DEF Next
  <1>2. CASE UNCHANGED vars
    BY <1>2 DEF vars, uploadVars, storeVars, brokerVars, workerVars, TypeInv,
                TypeOK, BusyHasJob
  <1>3. QED  BY <1>1, <1>2

(* The type invariant holds in every reachable state. *)
THEOREM TypeCorrect == Spec => []TypeOK
  <1>1. Spec => []TypeInv
    BY InitType, NextType, PTL DEF Spec
  <1>2. TypeInv => TypeOK
    BY DEF TypeInv
  <1>3. QED  BY <1>1, <1>2, PTL

-----------------------------------------------------------------------------
(* Where the jobs are: only Publish brings a job into the system. *)

LEMMA InFlightRequests ==
    ASSUME TypeInv, NEW x, InFlight(x) PROVE x \in Requests
  BY DEF InFlight, TypeInv, TypeOK, BusyHasJob, Range

LEMMA UnsettledInFlight ==
    ASSUME TypeInv, NEW i \in Instances, NEW x, x \in Range(Unsettled(i))
    PROVE  InFlight(x)
  <1>1. inbox[i] \in Seq(Requests) /\ <<>> \in Seq(Requests)
    BY DEF TypeInv, TypeOK
  <1>2. CASE i \notin chan
    BY <1>2, RangeEmpty DEF Unsettled
  <1>3. CASE i \in chan /\ stage[i] \in Busy
    <2>1. job[i] \in Requests
      BY <1>3 DEF TypeInv, BusyHasJob
    <2>2. Range(Unsettled(i)) = {job[i]} \cup Range(inbox[i])
      <3>1. Unsettled(i) = <<job[i]>> \o inbox[i]
        BY <1>3 DEF Unsettled
      <3>2. QED  BY <1>1, <2>1, <3>1, RangeCons
    <2>3. QED  BY <1>3, <2>2 DEF InFlight
  <1>4. CASE i \in chan /\ stage[i] \notin Busy
    <2>1. Range(Unsettled(i)) = Range(inbox[i])
      BY <1>1, <1>4, RangeEmpty, RangeConcat DEF Unsettled
    <2>2. QED  BY <2>1 DEF InFlight
  <1>5. QED  BY <1>2, <1>3, <1>4

LEMMA CloseInFlight ==
    ASSUME TypeInv, NEW i \in Instances, CloseChannel(i)
    PROVE  /\ \A x \in Range(queue') : InFlight(x)
           /\ \A k \in Instances : Range(inbox'[k]) \subseteq Range(inbox[k])
  <1>1. Unsettled(i) \in Seq(Requests)
    BY UnsettledType DEF TypeInv, BusyHasJob
  <1>2. Range(queue') = Range(Unsettled(i)) \cup Range(queue)
    BY <1>1, RangeConcat DEF CloseChannel, TypeInv, TypeOK
  <1>3. \A x \in Range(queue') : InFlight(x)
    BY <1>2, UnsettledInFlight DEF InFlight
  <1>4. ASSUME NEW k \in Instances PROVE Range(inbox'[k]) \subseteq Range(inbox[k])
    BY RangeEmpty DEF CloseChannel, TypeInv, TypeOK
  <1>5. QED  BY <1>3, <1>4

(* The consumer's steps and the broker's deliveries move jobs and drop *)
(* them, and never make one.                                           *)
LEMMA WorkInFlight ==
    ASSUME TypeInv, NEW i \in Instances,
           Deliver(i) \/ Work(i) \/ FailWork(i),
           NEW x, InFlight(x)'
    PROVE  InFlight(x)
  <1> USE DEF TypeInv, TypeOK, brokerVars, Step, Goto, Forget, InFlight
  <1>1. CASE Deliver(i)
    <2>1. Range(queue) = {Head(queue)} \cup Range(queue')
      BY <1>1, RangeTail DEF Deliver
    <2>2. Range(inbox'[i]) = Range(inbox[i]) \cup {Head(queue)}
      BY <1>1, RangeTail, RangeAppend DEF Deliver
    <2>3. \A k \in Instances \ {i} : inbox'[k] = inbox[k]
      BY <1>1 DEF Deliver
    <2>4. UNCHANGED <<stage, job>>
      BY <1>1 DEF Deliver, workerVars
    <2>5. QED  BY <2>1, <2>2, <2>3, <2>4
  <1>2. CASE Receive(i)
    <2>1. /\ Range(inbox[i]) = {Head(inbox[i])} \cup Range(inbox'[i])
          /\ job'[i] = Head(inbox[i])
      BY <1>2, RangeTail DEF Receive
    <2>2. \A k \in Instances \ {i} :
              inbox'[k] = inbox[k] /\ stage'[k] = stage[k] /\ job'[k] = job[k]
      BY <1>2 DEF Receive
    <2>3. queue' = queue
      BY <1>2 DEF Receive
    <2>4. QED  BY <2>1, <2>2, <2>3
  <1>3. CASE StopConsumer(i)
    BY <1>3 DEF StopConsumer, Busy
  <1>4. CASE Nack(i)
    <2>1. stage[i] \in Busy /\ job[i] \in Requests
      BY <1>4 DEF Nack, Busy, BusyHasJob
    <2>2. Range(queue') \subseteq {job[i]} \cup Range(queue)
      <3>1. queue' = <<job[i]>> \o queue \/ queue' = queue
        BY <1>4 DEF Nack
      <3>2. queue \in Seq(Requests)
        OBVIOUS
      <3>3. Range(<<job[i]>> \o queue) = {job[i]} \cup Range(queue)
        BY <2>1, <3>2, RangeCons
      <3>4. QED  BY <3>1, <3>3
    <2>3. /\ inbox' = inbox
          /\ stage'[i] = "idle"
          /\ \A k \in Instances \ {i} : stage'[k] = stage[k] /\ job'[k] = job[k]
      BY <1>4 DEF Nack
    <2>4. x \in Range(queue') => InFlight(x)
      BY <2>1, <2>2
    <2>5. \A k \in Instances :
              stage'[k] \in Busy => stage[k] \in Busy /\ job'[k] = job[k]
      BY <2>3 DEF Busy
    <2>6. QED  BY <2>3, <2>4, <2>5
  <1>5. CASE Ack(i)
    BY <1>5 DEF Ack, Busy
  <1>6. CASE Download(i) \/ Transcode(i) \/ SendOutput(i) \/ ReadRow(i)
             \/ MarkReady(i) \/ FailWork(i)
    <2>1. stage[i] \in Busy /\ UNCHANGED <<queue, inbox, job>>
      BY <1>6 DEF Download, Transcode, SendOutput, ReadRow, MarkReady, FailWork,
                  Busy
    <2>2. \A k \in Instances \ {i} : stage'[k] = stage[k]
      BY <1>6 DEF Download, Transcode, SendOutput, ReadRow, MarkReady, FailWork
    <2>3. QED  BY <2>1, <2>2
  <1>7. QED  BY <1>1, <1>2, <1>3, <1>4, <1>5, <1>6 DEF Work

-----------------------------------------------------------------------------
(* The invariant PipelineInv is inductive. *)

LEMMA TypePart == PipelineInv => TypeInv
  BY DEF PipelineInv, WorkConsistent, TypeInv, BusyHasJob

LEMMA InitInv == Init => PipelineInv
  <1> SUFFICES ASSUME Init PROVE PipelineInv
    OBVIOUS
  <1>1. TypeOK
    BY InitType DEF TypeInv
  <1>2. ASSUME NEW r \in Requests
        PROVE  UploadConsistent(r) /\ JobConsistent(r) /\ ~Ready(r)
    BY RangeEmpty
    DEF Init, NoRow, UploadConsistent, JobConsistent, InFlight, Ready, Busy
  <1>3. ASSUME NEW i \in Instances PROVE WorkConsistent(i)
    BY DEF Init, WorkConsistent, Busy
  <1>4. QED  BY <1>1, <1>2, <1>3 DEF PipelineInv, ReadyIsPlayable

(* A step of request r touches r's upload, row and original only; it keeps *)
(* the invariant when it does so before publishing, or no longer writes.   *)
LEMMA UploadInv ==
    ASSUME PipelineInv, TypeOK', NEW r \in Requests,
           UploadVideo(r) \/ FailUpload(r)
    PROVE  PipelineInv'
  <1>1. UNCHANGED <<workerVars, processed, inbox>>
    BY DEF UploadVideo, CreateTmp, CopyTmp, InsertRow, PutOriginal, PutMissing,
           SaveObjectName, PublishJob, PublishRefused, RemoveTmp, FailUpload,
           storeVars, brokerVars
  <1>2. \A x \in Requests \ {r} :
            /\ upload'[x] = upload[x] /\ row'[x] = row[x]
            /\ x \in stored' <=> x \in stored
    BY DEF UploadVideo, CreateTmp, CopyTmp, InsertRow, PutOriginal, PutMissing,
           SaveObjectName, PublishJob, PublishRefused, RemoveTmp, FailUpload,
           storeVars, brokerVars, Answered, PipelineInv, TypeOK
  <1>3. \A x \in Requests \ {r} : InFlight(x)' => InFlight(x)
    <2>1. CASE PublishJob(r)
      <3>1. Range(queue') = Range(queue) \cup {r}
        BY <2>1, RangeAppend DEF PublishJob, PipelineInv, TypeOK
      <3>2. QED  BY <1>1, <3>1 DEF InFlight, workerVars
    <2>2. CASE ~PublishJob(r)
      <3>1. UNCHANGED queue
        BY <2>2 DEF UploadVideo, CreateTmp, CopyTmp, InsertRow, PutOriginal,
           PutMissing, SaveObjectName, PublishRefused, RemoveTmp, FailUpload,
           brokerVars
      <3>2. QED  BY <1>1, <3>1 DEF InFlight, workerVars
    <2>3. QED  BY <2>1, <2>2
  <1>4. UploadConsistent(r)' /\ JobConsistent(r)' /\ (Ready(r)' <=> Ready(r))
    <2>1. UploadConsistent(r) /\ JobConsistent(r)
      BY DEF PipelineInv
    <2>2. upload \in [Requests -> UploadPc] /\ row \in [Requests -> Rows]
      BY DEF PipelineInv, TypeOK
    <2>3. ASSUME UNCHANGED queue PROVE InFlight(r)' <=> InFlight(r)
      BY <1>1, <2>3 DEF InFlight, workerVars
    <2>4. ASSUME upload[r] \notin {"cleanup", "ok", "failed"}
          PROVE  ~InFlight(r) /\ ~Ready(r)
      BY <2>1, <2>4 DEF JobConsistent, Published
    <2>5. CASE CreateTmp(r) \/ CopyTmp(r) \/ PutMissing(r) \/ PublishRefused(r)
      <3>1. /\ upload[r] \in {"new", "copy", "put", "publish"}
            /\ \/ upload[r] = "new" /\ upload'[r] = "copy"
               \/ upload[r] = "copy" /\ upload'[r] = "insert"
               \/ upload'[r] = "failed"
            /\ UNCHANGED <<queue, row>>
        BY <2>2, <2>5 DEF CreateTmp, CopyTmp, PutMissing, PublishRefused, At,
                          Answered, storeVars, brokerVars
      <3>2. QED  BY <2>1, <2>3, <2>4, <3>1
                 DEF UploadConsistent, JobConsistent, Ready
    <2>6. CASE InsertRow(r)
      <3>1. /\ upload[r] = "insert"
            /\ upload'[r] \in {"put", "failed"}
            /\ row'[r].status = "upload"
            /\ UNCHANGED queue
        BY <2>2, <2>6 DEF InsertRow, At, Answered, brokerVars
      <3>2. QED  BY <2>1, <2>3, <2>4, <3>1
                 DEF UploadConsistent, JobConsistent, Ready
    <2>7. CASE PutOriginal(r)
      <3>1. /\ upload[r] = "put"
            /\ upload'[r] \in {"save", "failed"}
            /\ r \in stored'
            /\ UNCHANGED <<queue, row>>
        BY <2>2, <2>7 DEF PutOriginal, At, Answered, brokerVars
      <3>2. QED  BY <2>1, <2>3, <2>4, <3>1
                 DEF UploadConsistent, JobConsistent, Ready
    <2>8. CASE SaveObjectName(r)
      <3>1. /\ upload[r] = "save"
            /\ upload'[r] \in {"publish", "failed"}
            /\ row'[r].status = "upload" /\ row'[r].file = "object"
            /\ UNCHANGED <<queue, stored>>
        BY <2>2, <2>8 DEF SaveObjectName, At, Answered, brokerVars
      <3>2. QED  BY <2>1, <2>3, <2>4, <3>1
                 DEF UploadConsistent, JobConsistent, Ready
    <2>9. CASE PublishJob(r)
      <3>1. /\ upload[r] = "publish" /\ upload'[r] = "cleanup"
            /\ UNCHANGED <<row, stored>>
        BY <2>2, <2>9 DEF PublishJob, At, storeVars
      <3>2. QED  BY <2>1, <3>1
                 DEF UploadConsistent, JobConsistent, Published, Ready
    <2>10. CASE RemoveTmp(r) \/ FailUpload(r)
      <3>1. /\ upload'[r] \in {"ok", "failed"}
            /\ UNCHANGED <<queue, row, stored>>
        BY <2>2, <2>10 DEF RemoveTmp, FailUpload, Answered, storeVars, brokerVars
      <3>2. QED  BY <2>1, <2>3, <3>1
                 DEF UploadConsistent, JobConsistent, Published, Ready
    <2>11. QED
      BY <2>5, <2>6, <2>7, <2>8, <2>9, <2>10 DEF UploadVideo
  <1>5. ASSUME NEW x \in Requests \ {r}
        PROVE  /\ UploadConsistent(x)' /\ JobConsistent(x)'
               /\ Ready(x)' <=> Ready(x)
    BY <1>2, <1>3
    DEF PipelineInv, UploadConsistent, JobConsistent, Published, Ready
  <1>6. ASSUME NEW i \in Instances PROVE WorkConsistent(i)'
    <2>1. WorkConsistent(i)
      BY DEF PipelineInv
    <2>2. \A x \in Requests : Ready(x)' <=> Ready(x)
      BY <1>4, <1>5
    <2>3. QED  BY <1>1, <2>1, <2>2 DEF WorkConsistent, workerVars, Busy
  <1>7. ReadyIsPlayable'
    BY <1>1, <1>4, <1>5 DEF ReadyIsPlayable, PipelineInv
  <1>8. QED  BY <1>4, <1>5, <1>6, <1>7 DEF PipelineInv

(* A consumer's step touches no upload.  It moves jobs that are published, *)
(* adds output files, and sets to ready a row whose files are complete.    *)
LEMMA WorkInv ==
    ASSUME PipelineInv, TypeOK', NEW i \in Instances,
           Deliver(i) \/ Work(i) \/ FailWork(i)
    PROVE  PipelineInv'
  <1>1. UNCHANGED <<upload, stored>>
    BY DEF Deliver, Work, Receive, StopConsumer, Download, Transcode, SendOutput,
           ReadRow, MarkReady, Ack, Nack, FailWork, uploadVars, storeVars
  <1>2. \A x \in Requests : InFlight(x)' => InFlight(x)
    BY TypePart, WorkInFlight
  <1>3. \A x \in Requests : processed[x] \subseteq processed'[x]
                            /\ processed[x] \subseteq Files
                            /\ processed'[x] \subseteq Files
    <2>1. processed \in [Requests -> SUBSET Files]
          /\ processed' \in [Requests -> SUBSET Files]
      BY DEF PipelineInv, TypeOK
    <2>2. CASE SendOutput(i)
      BY <2>1, <2>2 DEF SendOutput
    <2>3. CASE ~SendOutput(i)
      <3>1. UNCHANGED processed
        BY <2>3 DEF Deliver, Work, Receive, StopConsumer, Download, Transcode,
           ReadRow, MarkReady, Ack, Nack, FailWork, storeVars
      <3>2. QED  BY <2>1, <3>1
    <2>4. QED  BY <2>2, <2>3
  <1>4. /\ MarkReady(i) => /\ job[i] \in Requests
                           /\ row'[job[i]] = [status |-> "ready", file |-> "object"]
                           /\ processed[job[i]] = Files
                           /\ Published(job[i])
        /\ \A x \in Requests : row'[x] = row[x] \/ (MarkReady(i) /\ x = job[i])
    <2>1. CASE MarkReady(i)
      <3>1. stage[i] = "ready" /\ job[i] \in Requests /\ WorkConsistent(i)
        BY <2>1 DEF MarkReady, Step, PipelineInv, WorkConsistent, Busy
      <3>2. processed[job[i]] = Files /\ copy[i] = "object"
        BY <3>1 DEF WorkConsistent
      <3>3. InFlight(job[i])
        BY <3>1 DEF InFlight, Busy
      <3>4. Published(job[i])
        BY <3>1, <3>3 DEF PipelineInv, JobConsistent
      <3>5. row' = [row EXCEPT ![job[i]] = [status |-> "ready", file |-> "object"]]
        BY <2>1, <3>2 DEF MarkReady
      <3>6. QED  BY <2>1, <3>1, <3>2, <3>4, <3>5 DEF PipelineInv, TypeOK
    <2>2. CASE ~MarkReady(i)
      <3>1. UNCHANGED row
        BY <2>2 DEF Deliver, Work, Receive, StopConsumer, Download, Transcode,
           SendOutput, ReadRow, Ack, Nack, FailWork, storeVars
      <3>2. QED  BY <2>2, <3>1
    <2>3. QED  BY <2>1, <2>2
  <1>5. \A x \in Requests : Ready(x) => Ready(x)'
    BY <1>4 DEF Ready
  <1>6. ASSUME NEW x \in Requests PROVE UploadConsistent(x)' /\ JobConsistent(x)'
    <2>1. UploadConsistent(x) /\ JobConsistent(x)
      BY DEF PipelineInv
    <2>2. CASE row'[x] = row[x]
      BY <1>1, <1>2, <2>1, <2>2
      DEF UploadConsistent, JobConsistent, Published, Ready
    <2>3. CASE MarkReady(i) /\ x = job[i]
      BY <1>1, <1>4, <2>3 DEF UploadConsistent, JobConsistent, Published
    <2>4. QED  BY <1>4, <2>2, <2>3
  <1>7. ReadyIsPlayable'
    BY <1>3, <1>4 DEF ReadyIsPlayable, PipelineInv, Ready
  <1>8. ASSUME NEW k \in Instances PROVE WorkConsistent(k)'
    <2>1. WorkConsistent(k)
      BY DEF PipelineInv
    <2>2. CASE k # i
      <3>1. /\ stage'[k] = stage[k] /\ job'[k] = job[k]
            /\ sent'[k] = sent[k] /\ copy'[k] = copy[k]
        BY <2>2 DEF Deliver, Work, Receive, StopConsumer, Download, Transcode,
           SendOutput, ReadRow, MarkReady, Ack, Nack, FailWork, Goto, Forget,
           workerVars, PipelineInv, TypeOK
      <3>2. QED  BY <1>3, <1>5, <2>1, <3>1 DEF WorkConsistent, Busy
    <2>3. CASE k = i
      <3> USE DEF PipelineInv, TypeOK, Goto, Step
      <3>1. CASE Deliver(i)
        BY <2>1, <2>3, <3>1 DEF Deliver, workerVars, storeVars, WorkConsistent,
                                Ready
      <3>2. CASE Receive(i)
        BY <2>1, <2>3, <3>2, RangeTail DEF Receive, WorkConsistent, Busy
      <3>3. CASE StopConsumer(i)
        BY <2>1, <2>3, <3>3 DEF StopConsumer, WorkConsistent, Busy
      <3>4. CASE Download(i)
        BY <2>1, <2>3, <3>4 DEF Download, WorkConsistent, Busy
      <3>5. CASE Transcode(i)
        <4>1. stage'[i] \in {"send", "nack"} /\ job[i] \in Requests
              /\ sent'[i] = 0 /\ job' = job
          BY <2>1, <2>3, <3>5 DEF Transcode, WorkConsistent, Busy
        <4>2. 0..(0 - 1) = {}
          OBVIOUS
        <4>3. QED  BY <2>3, <4>1, <4>2 DEF WorkConsistent
      <3>6. CASE SendOutput(i)
        <4>1. /\ stage[i] = "send" /\ job[i] \in Requests /\ job' = job
              /\ sent[i] \in 0..Segments
              /\ 0..(sent[i] - 1) \subseteq processed[job[i]]
              /\ processed'[job[i]] = processed[job[i]] \cup {sent[i]}
          BY <2>1, <2>3, <3>6 DEF SendOutput, WorkConsistent, Busy, Files
        <4>2. CASE stage' = stage /\ sent'[i] = sent[i] + 1
          <5>1. 0..(sent'[i] - 1) = 0..(sent[i] - 1) \cup {sent[i]}
            <6>1. sent[i] \in Nat /\ sent'[i] - 1 = sent[i]
              BY <4>1, <4>2
            <6>2. \A n \in Nat : 0..n = 0..(n - 1) \cup {n}
              OBVIOUS
            <6>3. QED  BY <6>1, <6>2
          <5>2. stage'[i] = "send" /\ job'[i] = job[i] /\ job[i] \in Requests
            BY <4>1, <4>2
          <5>3. 0..(sent'[i] - 1) \subseteq processed'[job'[i]]
            BY <4>1, <5>1, <5>2
          <5>4. QED  BY <2>3, <5>2, <5>3 DEF WorkConsistent
        <4>3. CASE stage'[i] = "nack"
          BY <2>3, <4>1, <4>3 DEF WorkConsistent
        <4>4. QED  BY <3>6, <4>2, <4>3 DEF SendOutput
      <3>7. CASE ReadRow(i)
        <4>1. /\ stage[i] = "send" /\ job[i] \in Requests
              /\ sent[i] = Segments + 1
              /\ 0..(sent[i] - 1) \subseteq processed[job[i]]
              /\ InFlight(job[i])
          BY <2>1, <2>3, <3>7 DEF ReadRow, WorkConsistent, Busy, InFlight
        <4>2. sent[i] - 1 = Segments /\ processed[job[i]] \subseteq Files
          BY <1>3, <4>1
        <4>3. processed[job[i]] = Files
          BY <4>1, <4>2 DEF Files
        <4>4. row[job[i]].file = "object"
          BY <4>1 DEF JobConsistent, Published
        <4>5. /\ stage'[i] = "ready" /\ copy'[i] = "object"
              /\ UNCHANGED <<job, processed>>
          BY <3>7, <4>4 DEF ReadRow, storeVars
        <4>6. QED  BY <2>3, <4>1, <4>3, <4>5 DEF WorkConsistent
      <3>8. CASE MarkReady(i)
        <4>1. /\ stage'[i] \in {"ack", "nack"} /\ job' = job
              /\ job[i] \in Requests /\ row'[job[i]].status = "ready"
          BY <1>4, <3>8 DEF MarkReady
        <4>2. QED  BY <2>3, <4>1 DEF WorkConsistent, Ready
      <3>9. CASE Ack(i) \/ Nack(i)
        <4>1. stage'[i] = "idle" /\ sent'[i] = 0
          BY <3>9 DEF Ack, Nack, Forget
        <4>2. QED  BY <2>3, <4>1 DEF WorkConsistent, Busy
      <3>10. CASE FailWork(i)
        BY <2>1, <2>3, <3>10 DEF FailWork, WorkConsistent, Busy
      <3>11. QED
        BY <3>1, <3>2, <3>3, <3>4, <3>5, <3>6, <3>7, <3>8, <3>9, <3>10 DEF Work
    <2>4. QED  BY <2>2, <2>3
  <1>9. QED  BY <1>6, <1>7, <1>8 DEF PipelineInv

(* A fault moves jobs back to the queue or loses them, fails uploads, and *)
(* makes consumers forget what they held.                                 *)
LEMMA FaultInv ==
    ASSUME PipelineInv, TypeOK',
           \/ \E r \in Requests : LosePublish(r)
           \/ \E i \in Instances : Crash(i) \/ Restart(i) \/ LoseConnection(i)
           \/ RestartBroker
    PROVE  PipelineInv'
  <1>1. UNCHANGED storeVars
    BY DEF LosePublish, Crash, Restart, LoseConnection, RestartBroker
  <1>2. ASSUME NEW k \in Instances
        PROVE  \/ /\ stage'[k] = stage[k] /\ job'[k] = job[k]
                  /\ sent'[k] = sent[k] /\ copy'[k] = copy[k]
               \/ stage'[k] = "idle" /\ sent'[k] = 0
    BY DEF LosePublish, Crash, Restart, LoseConnection, RestartBroker, Goto,
           Forget, workerVars, PipelineInv, TypeOK
  <1>3. /\ \A x \in Range(queue') : InFlight(x)
        /\ \A k \in Instances : Range(inbox'[k]) \subseteq Range(inbox[k])
    <2>1. ASSUME NEW i \in Instances, CloseChannel(i)
          PROVE  /\ \A x \in Range(queue') : InFlight(x)
                 /\ \A k \in Instances : Range(inbox'[k]) \subseteq Range(inbox[k])
      BY <2>1, TypePart, CloseInFlight
    <2>2. CASE \E i \in Instances : Restart(i)
      BY <2>2 DEF Restart, InFlight
    <2>3. CASE RestartBroker
      BY <2>3, RangeEmpty DEF RestartBroker
    <2>4. CASE \E r \in Requests : LosePublish(r)
      BY <2>1, <2>4 DEF LosePublish
    <2>5. CASE \E i \in Instances : Crash(i) \/ LoseConnection(i)
      BY <2>1, <2>5 DEF Crash, LoseConnection
    <2>6. QED  BY <2>2, <2>3, <2>4, <2>5
  <1>4. ASSUME NEW x \in Requests, InFlight(x)' PROVE InFlight(x)
    <2>1. ASSUME NEW k \in Instances, stage'[k] \in Busy
          PROVE  stage[k] \in Busy /\ job'[k] = job[k]
      BY <1>2, <2>1 DEF Busy
    <2>2. QED  BY <1>3, <1>4, <2>1 DEF InFlight
  <1>5. ASSUME NEW x \in Requests
        PROVE  \/ upload'[x] = upload[x]
               \/ upload'[x] = "failed"
               \/ upload'[x] = "cleanup" /\ upload[x] = "publish"
    BY DEF LosePublish, At, Crash, Restart, LoseConnection, RestartBroker,
           uploadVars, PipelineInv, TypeOK
  <1>6. ASSUME NEW x \in Requests PROVE UploadConsistent(x)' /\ JobConsistent(x)'
    <2>1. UploadConsistent(x) /\ JobConsistent(x)
      BY DEF PipelineInv
    <2>2. UNCHANGED <<row, stored>>
      BY <1>1 DEF storeVars
    <2>3. QED  BY <1>4, <1>5, <2>1, <2>2
               DEF UploadConsistent, JobConsistent, Published, Ready
  <1>7. ASSUME NEW k \in Instances PROVE WorkConsistent(k)'
    <2>1. WorkConsistent(k) /\ UNCHANGED <<row, processed>>
      BY <1>1 DEF PipelineInv, storeVars
    <2>2. CASE stage'[k] = "idle" /\ sent'[k] = 0
      BY <2>2 DEF WorkConsistent, Busy
    <2>3. CASE /\ stage'[k] = stage[k] /\ job'[k] = job[k]
               /\ sent'[k] = sent[k] /\ copy'[k] = copy[k]
      BY <2>1, <2>3 DEF WorkConsistent, Ready
    <2>4. QED  BY <1>2, <2>2, <2>3
  <1>8. ReadyIsPlayable'
    BY <1>1 DEF PipelineInv, ReadyIsPlayable, Ready, storeVars
  <1>9. QED  BY <1>6, <1>7, <1>8 DEF PipelineInv

LEMMA NextInv == PipelineInv /\ [Next]_vars => PipelineInv'
  <1> SUFFICES ASSUME PipelineInv, [Next]_vars PROVE PipelineInv'
    OBVIOUS
  <1>1. TypeOK'
    BY TypePart, NextType DEF TypeInv
  <1>2. CASE Next
    BY <1>1, <1>2, UploadInv, WorkInv, FaultInv DEF Next
  <1>3. CASE UNCHANGED vars
    BY <1>1, <1>3
    DEF vars, uploadVars, storeVars, brokerVars, workerVars, PipelineInv,
        UploadConsistent, JobConsistent, WorkConsistent, Published, InFlight,
        Ready, ReadyIsPlayable
  <1>4. QED  BY <1>2, <1>3

(* The inductive invariant holds of every behaviour, whatever the numbers  *)
(* of requests, instances, segments and faults.                            *)
THEOREM Inductive == Spec => []PipelineInv
  BY InitInv, NextInv, PTL DEF Spec

(* Whatever fails, a video shown as ready has its playlist and all its     *)
(* segments.                                                               *)
THEOREM PlayableTheorem == Spec => []ReadyIsPlayable
  <1>1. PipelineInv => ReadyIsPlayable
    BY DEF PipelineInv
  <1>2. QED  BY <1>1, Inductive, PTL

(* Whatever fails, a job a consumer may receive names a row and an object  *)
(* that exist.                                                             *)
THEOREM ActionableTheorem == Spec => []JobIsActionable
  <1>1. PipelineInv => JobIsActionable
    BY DEF PipelineInv, JobIsActionable, JobConsistent, Published
  <1>2. QED  BY <1>1, Inductive, PTL

-----------------------------------------------------------------------------
(* Rows and output files: what a step may do to them. *)

LEMMA RowStep ==
    ASSUME PipelineInv, Next, NEW x \in Requests
    PROVE  \/ row'[x] = row[x]
           \/ InsertRow(x) /\ row[x].status = "none" /\ row'[x].status = "upload"
           \/ /\ SaveObjectName(x)
              /\ row[x].status = "upload" /\ row'[x].status = "upload"
           \/ /\ \E i \in Instances : MarkReady(i) /\ job[i] = x
              /\ processed[x] = Files /\ Published(x)
              /\ row'[x] = [status |-> "ready", file |-> "object"]
  <1>0. row \in [Requests -> Rows]
    BY DEF PipelineInv, TypeOK
  <1>1. ASSUME NEW r \in Requests, InsertRow(r) \/ SaveObjectName(r), r # x
        PROVE  row'[x] = row[x]
    BY <1>0, <1>1 DEF InsertRow, SaveObjectName
  <1>2. CASE InsertRow(x)
    BY <1>0, <1>2 DEF InsertRow, At, PipelineInv, UploadConsistent
  <1>3. CASE SaveObjectName(x)
    BY <1>0, <1>3 DEF SaveObjectName, At, PipelineInv, UploadConsistent
  <1>4. ASSUME NEW i \in Instances, MarkReady(i)
        PROVE  \/ row'[x] = row[x]
               \/ /\ job[i] = x /\ processed[x] = Files /\ Published(x)
                  /\ row'[x] = [status |-> "ready", file |-> "object"]
    <2>1. stage[i] = "ready" /\ job[i] \in Requests /\ WorkConsistent(i)
      BY <1>4 DEF MarkReady, Step, PipelineInv, WorkConsistent, Busy
    <2>2. processed[job[i]] = Files /\ copy[i] = "object"
      BY <2>1 DEF WorkConsistent
    <2>3. Published(job[i])
      BY <2>1 DEF PipelineInv, JobConsistent, InFlight, Busy
    <2>4. row' = [row EXCEPT ![job[i]] = [status |-> "ready", file |-> "object"]]
      BY <1>4, <2>2 DEF MarkReady
    <2>5. QED  BY <1>0, <2>1, <2>2, <2>3, <2>4
  <1>5. CASE /\ ~ \E r \in Requests : InsertRow(r) \/ SaveObjectName(r)
             /\ ~ \E i \in Instances : MarkReady(i)
    BY <1>5 DEF Next, UploadVideo, CreateTmp, CopyTmp, PutOriginal, PutMissing,
       PublishJob, PublishRefused, RemoveTmp, FailUpload, LosePublish, Deliver,
       Work, Receive, StopConsumer, Download, Transcode, SendOutput, ReadRow,
       Ack, Nack, FailWork, Crash, Restart, LoseConnection, RestartBroker,
       storeVars
  <1>6. QED  BY <1>1, <1>2, <1>3, <1>4, <1>5

LEMMA ReadyStep ==
    ASSUME PipelineInv, [Next]_vars, NEW r \in Requests, Ready(r)
    PROVE  row'[r] = row[r]
  <1>1. row[r] \in Rows /\ row[r].status = "ready" /\ row[r].file = "object"
    BY DEF PipelineInv, TypeOK, JobConsistent, Published, Ready
  <1>2. row[r] = [status |-> "ready", file |-> "object"]
    BY <1>1 DEF Rows
  <1>3. CASE Next
    BY <1>1, <1>2, <1>3, RowStep
  <1>4. CASE UNCHANGED vars
    BY <1>4 DEF vars, storeVars
  <1>5. QED  BY <1>3, <1>4

(* No write of a whole row by Save undoes the update that made it ready. *)
THEOREM StableTheorem == Spec => ReadyIsStable
  <1>1. PipelineInv /\ [Next]_vars
           => [\A r \in Requests : Ready(r) => row'[r] = row[r]]_vars
    BY ReadyStep
  <1>2. QED  BY <1>1, Inductive, PTL DEF Spec, ReadyIsStable

(* The pipeline implements the catalog: it registers a video once, adds    *)
(* output files only to registered videos, and publishes a video once, on  *)
(* the step that finds all of its files; every other step is invisible.    *)
THEOREM CatalogTheorem == Spec => ImplementsCatalog
  <1> DEFINE Status == [r \in Requests |-> row[r].status]
  <1>1. Init => Catalog!Init
    BY DEF Init, Catalog!Init, NoRow
  <1>2. ASSUME PipelineInv, Next
        PROVE  Catalog!Next \/ UNCHANGED Catalog!vars
    <2>1. /\ row \in [Requests -> Rows]
          /\ processed \in [Requests -> SUBSET Files]
      BY <1>2 DEF PipelineInv, TypeOK
    <2>2. CASE \E r \in Requests : InsertRow(r)
      <3>1. PICK r \in Requests : InsertRow(r)
        BY <2>2
      <3>2. /\ Status[r] = "none"
            /\ Status' = [Status EXCEPT ![r] = "upload"]
            /\ UNCHANGED processed
        BY <1>2, <2>1, <3>1
        DEF InsertRow, At, PipelineInv, UploadConsistent
      <3>3. Catalog!Register(r)
        BY <3>2 DEF Catalog!Register
      <3>4. QED  BY <3>3 DEF Catalog!Next
    <2>3. CASE \E i \in Instances : MarkReady(i)
      <3>1. PICK i \in Instances : MarkReady(i)
        BY <2>3
      <3>2. /\ job[i] \in Requests
            /\ processed[job[i]] = Files /\ Published(job[i])
            /\ UNCHANGED processed
        BY <1>2, <3>1 DEF MarkReady, Step, PipelineInv, WorkConsistent, Busy,
                          JobConsistent, InFlight
      <3>3. Status' = [Status EXCEPT ![job[i]] = "ready"]
        BY <2>1, <3>1, <3>2 DEF MarkReady
      <3>4. CASE Status[job[i]] = "upload"
        <4>1. PICK v \in Requests : v = job[i]
          BY <3>2
        <4>2. Catalog!Publish(v)
          BY <3>2, <3>3, <3>4, <4>1 DEF Catalog!Publish
        <4>3. Catalog!Next
          BY <4>2 DEF Catalog!Next
        <4>4. QED  BY <4>3
      <3>5. CASE Status[job[i]] = "ready"
        BY <3>2, <3>3, <3>5 DEF Catalog!vars
      <3>6. QED  BY <2>1, <3>2, <3>4, <3>5 DEF Published, Rows
    <2>4. CASE \E i \in Instances : SendOutput(i)
      <3>1. PICK i \in Instances : SendOutput(i)
        BY <2>4
      <3>2. /\ job[i] \in Requests /\ Published(job[i])
            /\ sent[i] \in Files
            /\ processed' = [processed EXCEPT ![job[i]] = @ \cup {sent[i]}]
            /\ UNCHANGED row
        BY <1>2, <3>1 DEF SendOutput, Step, PipelineInv, WorkConsistent, Busy,
                          JobConsistent, InFlight
      <3>3. CASE Status[job[i]] = "upload"
        <4>1. Catalog!AddFile(job[i], sent[i])
          BY <3>2, <3>3 DEF Catalog!AddFile
        <4>2. QED  BY <3>2, <4>1 DEF Catalog!Next
      <3>4. CASE Status[job[i]] = "ready"
        <4>1. processed[job[i]] = Files
          BY <1>2, <3>2, <3>4 DEF PipelineInv, ReadyIsPlayable, Ready
        <4>2. processed' = processed
          BY <2>1, <3>2, <4>1
        <4>3. QED  BY <3>2, <4>2 DEF Catalog!vars
      <3>5. QED  BY <2>1, <3>2, <3>3, <3>4 DEF Published, Rows
    <2>5. CASE /\ ~ \E r \in Requests : InsertRow(r)
               /\ ~ \E i \in Instances : MarkReady(i) \/ SendOutput(i)
      <3>1. UNCHANGED processed
        BY <1>2, <2>5
        DEF Next, UploadVideo, CreateTmp, CopyTmp, PutOriginal, PutMissing,
            SaveObjectName, PublishJob, PublishRefused, RemoveTmp, FailUpload,
            LosePublish, Deliver, Work, Receive, StopConsumer, Download,
            Transcode, ReadRow, Ack, Nack, FailWork, Crash, Restart,
            LoseConnection, RestartBroker, storeVars
      <3>2. \A x \in Requests : row'[x].status = row[x].status
        BY <1>2, <2>5, RowStep
      <3>3. Status' = Status
        BY <3>2
      <3>4. QED  BY <3>1, <3>3 DEF Catalog!vars
    <2>6. QED  BY <2>2, <2>3, <2>4, <2>5
  <1>3. UNCHANGED vars => UNCHANGED Catalog!vars
    BY DEF vars, storeVars, Catalog!vars
  <1>4. PipelineInv /\ [Next]_vars => [Catalog!Next]_(Catalog!vars)
    BY <1>2, <1>3
  <1>5. QED  BY <1>1, <1>4, Inductive, PTL DEF Spec, ImplementsCatalog, Catalog!Spec

-----------------------------------------------------------------------------
(* Delivery.  What the broker owes changes hands but is only forgotten by  *)
(* an Ack, which follows the update to ready.                              *)

Held(x) == \E i \in chan : x \in Range(inbox[i]) \/ (stage[i] \in Busy /\ job[i] = x)

LEMMA RangeUnsettled ==
    ASSUME TypeInv, NEW i \in chan
    PROVE  /\ Unsettled(i) \in Seq(Requests)
           /\ \A x : x \in Range(Unsettled(i)) <=>
                     x \in Range(inbox[i]) \/ (stage[i] \in Busy /\ job[i] = x)
  <1>1. i \in Instances /\ inbox[i] \in Seq(Requests) /\ <<>> \in Seq(Requests)
    BY DEF TypeInv, TypeOK
  <1>2. CASE stage[i] \in Busy
    <2>1. job[i] \in Requests
      BY <1>1, <1>2 DEF TypeInv, BusyHasJob
    <2>2. Unsettled(i) = <<job[i]>> \o inbox[i]
      BY <1>2 DEF Unsettled
    <2>3. QED  BY <1>1, <1>2, <2>1, <2>2, RangeCons
  <1>3. CASE stage[i] \notin Busy
    <2>1. Unsettled(i) = <<>> \o inbox[i]
      BY <1>3 DEF Unsettled
    <2>2. QED  BY <1>1, <1>3, <2>1, RangeEmpty, RangeConcat
  <1>4. QED  BY <1>2, <1>3

LEMMA OwedHeld ==
    ASSUME TypeInv
    PROVE  \A x : Owed(x) <=> x \in Range(queue) \/ Held(x)
  <1>1. \A i \in Instances \ chan : Range(Unsettled(i)) = {}
    BY RangeEmpty DEF Unsettled
  <1>2. QED  BY <1>1, RangeUnsettled DEF Owed, Held, TypeInv, TypeOK

LEMMA OwedWork ==
    ASSUME PipelineInv, NEW i \in Instances, Deliver(i) \/ Work(i) \/ FailWork(i),
           NEW x \in Requests, x \in Range(queue) \/ Held(x), ~Ready(x)
    PROVE  x \in Range(queue') \/ Held(x)'
  <1> USE DEF PipelineInv, TypeOK, Step, Goto, Held
  <1>1. CASE Deliver(i)
    <2>1. Range(queue) = {Head(queue)} \cup Range(queue')
      BY <1>1, RangeTail DEF Deliver
    <2>2. Range(inbox'[i]) = Range(inbox[i]) \cup {Head(queue)}
      BY <1>1, RangeTail, RangeAppend DEF Deliver
    <2>3. \A k \in Instances \ {i} : inbox'[k] = inbox[k]
      BY <1>1 DEF Deliver
    <2>4. i \in chan /\ UNCHANGED <<chan, stage, job>>
      BY <1>1 DEF Deliver, workerVars
    <2>5. QED  BY <2>1, <2>2, <2>3, <2>4
  <1>2. CASE Receive(i)
    <2>1. /\ Range(inbox[i]) = {Head(inbox[i])} \cup Range(inbox'[i])
          /\ job'[i] = Head(inbox[i]) /\ stage'[i] \in Busy /\ stage[i] \notin Busy
      BY <1>2, RangeTail DEF Receive, Busy
    <2>2. \A k \in Instances \ {i} :
              inbox'[k] = inbox[k] /\ stage'[k] = stage[k] /\ job'[k] = job[k]
      BY <1>2 DEF Receive
    <2>3. UNCHANGED <<queue, chan>>
      BY <1>2 DEF Receive
    <2>4. QED  BY <2>1, <2>2, <2>3
  <1>3. CASE StopConsumer(i)
    BY <1>3 DEF StopConsumer, brokerVars
  <1>4. CASE Nack(i)
    <2>1. stage[i] \in Busy /\ job[i] \in Requests
      BY <1>4 DEF Nack, WorkConsistent, Busy
    <2>2. /\ Range(queue) \subseteq Range(queue')
          /\ i \in chan => job[i] \in Range(queue')
      <3>1. Range(<<job[i]>> \o queue) = {job[i]} \cup Range(queue)
        BY <2>1, RangeCons
      <3>2. QED  BY <1>4, <3>1 DEF Nack
    <2>3. /\ UNCHANGED <<inbox, chan>>
          /\ \A k \in Instances \ {i} : stage'[k] = stage[k] /\ job'[k] = job[k]
      BY <1>4 DEF Nack, Forget
    <2>4. QED  BY <2>1, <2>2, <2>3
  <1>5. CASE Ack(i)
    <2>1. job[i] # x
      BY <1>5 DEF Ack, WorkConsistent
    <2>2. /\ UNCHANGED brokerVars
          /\ \A k \in Instances \ {i} : stage'[k] = stage[k] /\ job'[k] = job[k]
      BY <1>5 DEF Ack, Forget
    <2>3. QED  BY <2>1, <2>2 DEF brokerVars
  <1>6. CASE Download(i) \/ Transcode(i) \/ SendOutput(i) \/ ReadRow(i)
             \/ MarkReady(i) \/ FailWork(i)
    <2>1. stage'[i] \in Busy /\ UNCHANGED <<queue, inbox, chan, job>>
      BY <1>6 DEF Download, Transcode, SendOutput, ReadRow, MarkReady, FailWork,
                  Busy, brokerVars
    <2>2. \A k \in Instances \ {i} : stage'[k] = stage[k]
      BY <1>6 DEF Download, Transcode, SendOutput, ReadRow, MarkReady, FailWork
    <2>3. QED  BY <2>1, <2>2
  <1>7. QED  BY <1>1, <1>2, <1>3, <1>4, <1>5, <1>6 DEF Work

LEMMA OwedFault ==
    ASSUME TypeInv, NEW x,
           \/ \E i \in Instances : Crash(i) \/ Restart(i) \/ LoseConnection(i)
           \/ \E r \in Requests : LosePublish(r),
           x \in Range(queue) \/ Held(x)
    PROVE  x \in Range(queue') \/ Held(x)'
  <1> USE DEF TypeInv, TypeOK, Held
  <1>0. \A r \in Requests : Server[r] \in Instances
    OBVIOUS
  <1> DEFINE Closes(i) ==
               /\ CloseChannel(i)
               /\ \A k \in Instances \ {i} : stage'[k] = stage[k] /\ job'[k] = job[k]
  <1>1. PICK i \in Instances : Restart(i) \/ Closes(i)
    <2>1. ASSUME NEW i \in Instances, Crash(i) \/ LoseConnection(i) PROVE Closes(i)
      BY <2>1 DEF Crash, LoseConnection, Goto, Forget, workerVars
    <2>2. ASSUME NEW r \in Requests, LosePublish(r) PROVE Closes(Server[r])
      BY <2>2, <1>0 DEF LosePublish, workerVars
    <2>3. QED  BY <1>0, <2>1, <2>2
  <1>2. CASE Restart(i)
    BY <1>2 DEF Restart, workerVars
  <1>3. CASE Closes(i)
    <2>1. Unsettled(i) \in Seq(Requests)
      BY UnsettledType DEF BusyHasJob
    <2>2. Range(queue') = Range(Unsettled(i)) \cup Range(queue)
      BY <1>3, <2>1, RangeConcat DEF CloseChannel
    <2>3. /\ chan' = chan \ {i}
          /\ \A k \in Instances \ {i} :
                 inbox'[k] = inbox[k] /\ stage'[k] = stage[k] /\ job'[k] = job[k]
      BY <1>3 DEF CloseChannel
    <2>4. QED  BY <2>2, <2>3, RangeUnsettled
  <1>4. QED  BY <1>1, <1>2, <1>3

There(x) == x \in Range(queue) \/ Held(x)

OwedIsThere == \A x \in Requests : Owed(x) <=> There(x)

(* A published job is owed to a consumer until its video is ready, unless  *)
(* the broker has lost its message: crashes, broken connections and        *)
(* failing calls lose none.                                                *)
THEOREM DeliveryTheorem == Spec => []NoLostJob
  <1>1. TypeInv => OwedIsThere
    BY OwedHeld DEF OwedIsThere, There
  <1>2. TypeInv' => OwedIsThere'
    BY <1>1, PTL
  <1> USE DEF There
  <1>3. Init => NoLostJob
    BY DEF Init, NoLostJob
  <1>4. ASSUME PipelineInv, PipelineInv', NoLostJob, Next PROVE NoLostJob'
    <2>0. TypeInv /\ TypeInv'
      BY <1>4, TypePart, NextType DEF TypeInv
    <2> SUFFICES ASSUME NEW x \in Requests,
                        upload'[x] \in {"cleanup", "ok"}, ~Ready(x)',
                        x \notin dropped'
                 PROVE  There(x)'
      BY <1>2, <2>0 DEF NoLostJob, OwedIsThere
    <2>1. ~Ready(x)
      BY <1>4, RowStep DEF Ready
    <2>0a. x \notin dropped
      BY <1>4 DEF Next, UploadVideo, CreateTmp, CopyTmp, InsertRow, PutOriginal,
         PutMissing, SaveObjectName, PublishJob, PublishRefused, RemoveTmp,
         FailUpload, LosePublish, Deliver, Work, Receive, StopConsumer, Download,
         Transcode, SendOutput, ReadRow, MarkReady, Ack, Nack, FailWork, Crash,
         Restart, LoseConnection, RestartBroker, brokerVars
    <2>2. upload[x] \in {"cleanup", "ok"} => There(x)
      BY <1>1, <1>4, <2>0, <2>0a, <2>1 DEF NoLostJob, OwedIsThere
    <2>3. /\ upload \in [Requests -> UploadPc] /\ queue \in Seq(Requests)
          /\ row \in [Requests -> Rows]
      BY <1>4 DEF PipelineInv, TypeOK
    <2>4. CASE \E r \in Requests : UploadVideo(r) \/ FailUpload(r)
      <3>1. PICK r \in Requests : UploadVideo(r) \/ FailUpload(r)
        BY <2>4
      <3>2. CASE PublishJob(r)
        <4>1. Range(queue') = Range(queue) \cup {r}
          BY <2>3, <3>2, RangeAppend DEF PublishJob
        <4>2. r # x => upload'[x] = upload[x]
          BY <2>3, <3>2 DEF PublishJob
        <4>3. UNCHANGED <<inbox, chan, stage, job>>
          BY <3>2 DEF PublishJob, workerVars
        <4>4. QED  BY <2>2, <4>1, <4>2, <4>3 DEF Held
      <3>3. CASE ~PublishJob(r)
        <4>1. upload[x] \in {"cleanup", "ok"}
          BY <2>3, <3>1, <3>3
          DEF UploadVideo, CreateTmp, CopyTmp, InsertRow, PutOriginal,
              PutMissing, SaveObjectName, PublishRefused, RemoveTmp, FailUpload,
              Answered, At
        <4>2. UNCHANGED <<queue, inbox, chan, stage, job>>
          BY <3>1, <3>3
          DEF UploadVideo, CreateTmp, CopyTmp, InsertRow, PutOriginal,
              PutMissing, SaveObjectName, PublishRefused, RemoveTmp, FailUpload,
              brokerVars, workerVars
        <4>3. QED  BY <2>2, <4>1, <4>2 DEF Held
      <3>4. QED  BY <3>2, <3>3
    <2>5. CASE \E i \in Instances : Deliver(i) \/ Work(i) \/ FailWork(i)
      <3>1. upload' = upload
        BY <2>5 DEF Deliver, Work, Receive, StopConsumer, Download, Transcode,
           SendOutput, ReadRow, MarkReady, Ack, Nack, FailWork, uploadVars
      <3>2. QED  BY <1>4, <2>1, <2>2, <2>5, <3>1, OwedWork
    <2>6. CASE \E i \in Instances : Crash(i) \/ Restart(i) \/ LoseConnection(i)
      <3>1. upload'[x] = upload[x] \/ upload'[x] = "failed"
        BY <2>6 DEF Crash, Restart, LoseConnection, uploadVars
      <3>2. QED  BY <2>0, <2>2, <2>6, <3>1, OwedFault
    <2>7. CASE \E r \in Requests : LosePublish(r)
      <3>1. upload'[x] = upload[x]
        BY <2>3, <2>7 DEF LosePublish
      <3>2. QED  BY <2>0, <2>2, <2>7, <3>1, OwedFault
    <2>8. CASE RestartBroker
      <3>1. upload' = upload /\ ~Owed(x)
        BY <2>8 DEF RestartBroker, uploadVars
      <3>2. ~There(x)
        BY <1>1, <2>0, <3>1 DEF OwedIsThere
      <3>3. QED  BY <2>2, <3>1, <3>2
    <2>9. QED  BY <1>4, <2>4, <2>5, <2>6, <2>7, <2>8 DEF Next
  <1>5. NoLostJob /\ UNCHANGED vars => NoLostJob'
    BY DEF NoLostJob, Owed, Unsettled, Ready, vars, uploadVars, storeVars,
           brokerVars, workerVars
  <1>6. PipelineInv /\ PipelineInv' /\ NoLostJob /\ [Next]_vars => NoLostJob'
    BY <1>4, <1>5
  <1>7. QED  BY <1>3, <1>6, Inductive, PTL DEF Spec
=============================================================================
