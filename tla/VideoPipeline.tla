--------------------------- MODULE VideoPipeline ---------------------------
(***************************************************************************)
(* The upload and transcoding pipeline of streaming_service.               *)
(*                                                                         *)
(* An upload request (streamingUseCase.UploadVideo) writes a temporary     *)
(* file, inserts a row in PostgreSQL, puts the original into MinIO, saves  *)
(* the object key in the row and publishes a job on the RabbitMQ queue     *)
(* "transcode".  The consumer goroutine of each instance of the service    *)
(* (Consumer.StartConsumer, processTranscodingJob) downloads the original, *)
(* transcodes it with ffmpeg, uploads the playlist and the segments and    *)
(* sets the row to "ready".  Every step is a call to another process, so   *)
(* every step is an action; between any two of them other requests and     *)
(* consumers move, calls fail, instances crash and connections break.      *)
(*                                                                         *)
(* A request inserts at most one row and the serial primary key of the row *)
(* is unique, so the row, its objects and its job are named after the      *)
(* request.                                                                *)
(***************************************************************************)
EXTENDS Integers, Sequences, Functions

CONSTANTS
    Requests,   \* calls of UploadVideo
    None,       \* no request, no inode
    Instances,  \* running copies of streaming_service
    Server,     \* Server[r]: the instance that serves request r
    TmpPath,    \* TmpPath[r]: the path ./tmp/<FileName> request r writes to
    Segments,   \* number of .ts segments ffmpeg cuts a video into
    Corrupt,    \* requests whose bytes ffmpeg cannot decode
    Faults,     \* the kinds of fault the environment may produce
    MaxFaults   \* bound on the number of faults of one behaviour

FaultKinds == {"io", "crash", "connection", "publish", "broker"}

ASSUME NoneAssumption      == None \notin Requests
ASSUME SegmentsAssumption  == Segments \in Nat
ASSUME CorruptAssumption   == Corrupt \subseteq Requests
ASSUME FaultsAssumption    == Faults \subseteq FaultKinds /\ MaxFaults \in Nat
ASSUME ServerAssumption    == Server \in [Requests -> Instances]
\* The directory ./tmp is local to an instance.
ASSUME PathAssumption ==
    \A r, s \in Requests : TmpPath[r] = TmpPath[s] => Server[r] = Server[s]

Paths == {TmpPath[r] : r \in Requests}

VARIABLES
    upload,     \* upload[r]: the call UploadVideo is about to make for r
    fd,         \* fd[r]: the inode r writes to, named after its creator
    disk,       \* disk[p]: the inode linked at path p, or None
    data,       \* data[n]: the requests whose bytes inode n holds
    row,        \* row[r]: the row of the videos table
    stored,     \* the requests whose object original/{id}/{name} exists
    bytes,      \* bytes[r]: the requests whose bytes that object holds
    processed,  \* processed[r]: the files under processed/{id}/
    queue,      \* the messages of the queue "transcode" not delivered
    inbox,      \* inbox[i]: deliveries buffered by the client of instance i
    chan,       \* the instances whose RabbitMQ channel is open
    dropped,    \* history: the requests whose message the broker has lost
    stage,      \* stage[i]: what the consumer goroutine of i does next
    job,        \* job[i]: the job it works on, or None
    sent,       \* sent[i]: how many output files it has uploaded
    copy,       \* copy[i]: the column file_name of the row it has read
    up,         \* the instances that are running
    faults      \* number of faults so far

uploadVars == <<upload, fd, disk, data>>
storeVars  == <<row, stored, bytes, processed>>
brokerVars == <<queue, inbox, chan, dropped>>
workerVars == <<stage, job, sent, copy>>
vars == <<uploadVars, storeVars, brokerVars, workerVars, up, faults>>

Active     == {"copy", "insert", "put", "save", "publish", "cleanup"}
UploadPc   == Active \cup {"new", "ok", "failed"}
Busy       == {"download", "transcode", "send", "ready", "ack", "nack"}
WorkerPc   == Busy \cup {"idle", "stopped"}

\* File 0 is index.m3u8, file k > 0 the k-th segment: ReadDir returns the
\* names sorted, and '.' sorts before the digits, so the playlist comes first.
Files == 0..Segments

\* The column file_name: the name the client gave, or the object key.
FileNames == {"name", "object"}
NoRow     == [status |-> "none", file |-> "name"]
Rows      == [status : {"none", "upload", "ready"}, file : FileNames]

\* The deliveries of instance i that RabbitMQ waits to see settled: the one
\* being processed and the ones buffered behind it (no Qos is set, autoAck is
\* false).  None once the channel is gone.
Unsettled(i) ==
    IF i \notin chan THEN <<>>
    ELSE (IF stage[i] \in Busy THEN <<job[i]>> ELSE <<>>) \o inbox[i]

\* A message the broker still answers for: queued or unsettled.
Owed(r) ==
    \/ r \in Range(queue)
    \/ \E i \in Instances : r \in Range(Unsettled(i))

TypeOK ==
    /\ upload \in [Requests -> UploadPc]
    /\ fd \in [Requests -> Requests \cup {None}]
    /\ disk \in [Paths -> Requests \cup {None}]
    /\ data \in [Requests -> SUBSET Requests]
    /\ row \in [Requests -> Rows]
    /\ stored \in SUBSET Requests
    /\ bytes \in [Requests -> SUBSET Requests]
    /\ processed \in [Requests -> SUBSET Files]
    /\ queue \in Seq(Requests)
    /\ inbox \in [Instances -> Seq(Requests)]
    /\ chan \in SUBSET Instances
    /\ dropped \in SUBSET Requests
    /\ stage \in [Instances -> WorkerPc]
    /\ job \in [Instances -> Requests \cup {None}]
    /\ sent \in [Instances -> 0..(Segments + 1)]
    /\ copy \in [Instances -> FileNames]
    /\ up \in SUBSET Instances
    /\ faults \in Nat

Init ==
    /\ upload = [r \in Requests |-> "new"]
    /\ fd = [r \in Requests |-> None]
    /\ disk = [p \in Paths |-> None]
    /\ data = [r \in Requests |-> {}]
    /\ row = [r \in Requests |-> NoRow]
    /\ stored = {}
    /\ bytes = [r \in Requests |-> {}]
    /\ processed = [r \in Requests |-> {}]
    /\ queue = <<>>
    /\ inbox = [i \in Instances |-> <<>>]
    /\ chan = Instances
    /\ dropped = {}
    /\ stage = [i \in Instances |-> "idle"]
    /\ job = [i \in Instances |-> None]
    /\ sent = [i \in Instances |-> 0]
    /\ copy = [i \in Instances |-> "name"]
    /\ up = Instances
    /\ faults = 0

-----------------------------------------------------------------------------
(***************************************************************************)
(* Faults.  A call that returns an error may or may not have taken effect: *)
(* Answered is the reply of a call whose effect the action has applied,    *)
(* FailUpload and FailWork are errors of calls that did nothing.           *)
(***************************************************************************)
Fault(kind) ==
    /\ kind \in Faults
    /\ faults < MaxFaults
    /\ faults' = faults + 1

Answered(r, next) ==
    \/ upload' = [upload EXCEPT ![r] = next] /\ UNCHANGED faults
    \/ upload' = [upload EXCEPT ![r] = "failed"] /\ Fault("io")

At(r, pc) == upload[r] = pc /\ Server[r] \in up

-----------------------------------------------------------------------------
(* UploadVideo *)

\* os.Create(tempPath): truncates the inode linked at the path, or links a
\* new one.
CreateTmp(r) ==
    LET inode == IF disk[TmpPath[r]] = None THEN r ELSE disk[TmpPath[r]] IN
    /\ At(r, "new")
    /\ disk' = [disk EXCEPT ![TmpPath[r]] = inode]
    /\ data' = [data EXCEPT ![inode] = {}]
    /\ fd' = [fd EXCEPT ![r] = inode]
    /\ Answered(r, "copy")
    /\ UNCHANGED <<storeVars, brokerVars, workerVars, up>>

\* Mutant: an error of io.Copy is only logged.
CopyTmpIgnoringErrors(r) ==
    /\ At(r, "copy")
    /\ upload' = [upload EXCEPT ![r] = "insert"]
    /\ \/ data' = [data EXCEPT ![fd[r]] = {r}] /\ UNCHANGED faults
       \/ Fault("io") /\ UNCHANGED data
    /\ UNCHANGED <<fd, disk, storeVars, brokerVars, workerVars, up>>

\* io.Copy(tempFile, up.File) writes from offset 0 of the open file: what
\* another request wrote beyond the end of this video stays.
CopyTmp(r) ==
    /\ At(r, "copy")
    /\ \E rest \in SUBSET data[fd[r]] :
          data' = [data EXCEPT ![fd[r]] = {r} \cup rest]
    /\ Answered(r, "insert")
    /\ UNCHANGED <<fd, disk, storeVars, brokerVars, workerVars, up>>

\* VideoRepo.Create
InsertRow(r) ==
    /\ At(r, "insert")
    /\ row' = [row EXCEPT ![r] = [status |-> "upload", file |-> "name"]]
    /\ Answered(r, "put")
    /\ UNCHANGED <<fd, disk, data, stored, bytes, processed, brokerVars,
                   workerVars, up>>

\* MinioClient.UploadFile(objectName, tempPath): opens the path again, so it
\* reads whatever file is linked there now.
PutOriginal(r) ==
    LET inode == disk[TmpPath[r]] IN
    /\ At(r, "put")
    /\ inode # None
    /\ stored' = stored \cup {r}
    /\ bytes' = [bytes EXCEPT ![r] = data[inode]]
    /\ Answered(r, "save")
    /\ UNCHANGED <<fd, disk, data, row, processed, brokerVars, workerVars, up>>

\* The same call when another request has removed the file.
PutMissing(r) ==
    /\ At(r, "put")
    /\ disk[TmpPath[r]] = None
    /\ upload' = [upload EXCEPT ![r] = "failed"]
    /\ UNCHANGED <<fd, disk, data, storeVars, brokerVars,
                   workerVars, up, faults>>

\* Mutant: an error of Update is only logged.
SaveIgnoringErrors(r) ==
    /\ At(r, "save")
    /\ upload' = [upload EXCEPT ![r] = "publish"]
    /\ \/ /\ row' = [row EXCEPT ![r] = [status |-> "upload", file |-> "object"]]
          /\ UNCHANGED faults
       \/ Fault("io") /\ UNCHANGED row
    /\ UNCHANGED <<fd, disk, data, stored, bytes, processed, brokerVars,
                   workerVars, up>>

\* VideoRepo.Update: Save writes every column of the struct in memory, so the
\* status "upload" is written again.
SaveObjectName(r) ==
    /\ At(r, "save")
    /\ row' = [row EXCEPT ![r] = [status |-> "upload", file |-> "object"]]
    /\ Answered(r, "publish")
    /\ UNCHANGED <<fd, disk, data, stored, bytes, processed, brokerVars,
                   workerVars, up>>

\* Mutant: the job is published a second time, as a retry would.
PublishTwice(r) ==
    /\ At(r, "publish")
    /\ Server[r] \in chan
    /\ queue' = queue \o <<r, r>>
    /\ upload' = [upload EXCEPT ![r] = "cleanup"]
    /\ UNCHANGED <<fd, disk, data, storeVars, inbox, chan, dropped,
                   workerVars, up, faults>>

\* RabbitChannel.Publish without confirms.
PublishJob(r) ==
    /\ At(r, "publish")
    /\ Server[r] \in chan
    /\ queue' = Append(queue, r)
    /\ upload' = [upload EXCEPT ![r] = "cleanup"]
    /\ UNCHANGED <<fd, disk, data, storeVars, inbox, chan, dropped,
                   workerVars, up, faults>>

\* Mutant: the error of Publish on a closed channel is only logged.
PublishIgnoringErrors(r) ==
    /\ At(r, "publish")
    /\ Server[r] \notin chan
    /\ upload' = [upload EXCEPT ![r] = "cleanup"]
    /\ UNCHANGED <<fd, disk, data, storeVars, brokerVars,
                   workerVars, up, faults>>

\* A closed channel makes Publish fail at once.
PublishRefused(r) ==
    /\ At(r, "publish")
    /\ Server[r] \notin chan
    /\ upload' = [upload EXCEPT ![r] = "failed"]
    /\ UNCHANGED <<fd, disk, data, storeVars, brokerVars,
                   workerVars, up, faults>>

\* Mutant: the row is saved once more after the file is removed.
RemoveTmpAndSave(r) ==
    /\ At(r, "cleanup")
    /\ disk' = [disk EXCEPT ![TmpPath[r]] = None]
    /\ row' = [row EXCEPT ![r] = [status |-> "upload", file |-> "object"]]
    /\ upload' = [upload EXCEPT ![r] = "ok"]
    /\ UNCHANGED <<fd, data, stored, bytes, processed, brokerVars, workerVars,
                   up, faults>>

\* os.Remove(tempPath) fails when a request with the same path was faster.
RemoveTmp(r) ==
    /\ At(r, "cleanup")
    /\ disk' = [disk EXCEPT ![TmpPath[r]] = None]
    /\ IF disk[TmpPath[r]] = None
       THEN upload' = [upload EXCEPT ![r] = "failed"] /\ UNCHANGED faults
       ELSE Answered(r, "ok")
    /\ UNCHANGED <<fd, data, storeVars, brokerVars, workerVars, up>>

\* A call of UploadVideo fails without effect and the error is returned.
FailUpload(r) ==
    /\ upload[r] \in Active \cup {"new"}
    /\ Server[r] \in up
    /\ Fault("io")
    /\ upload' = [upload EXCEPT ![r] = "failed"]
    /\ UNCHANGED <<fd, disk, data, storeVars, brokerVars, workerVars, up>>

UploadVideo(r) ==
    \/ CreateTmp(r)      \/ CopyTmp(r)    \/ InsertRow(r)
    \/ PutOriginal(r)    \/ PutMissing(r)
    \/ SaveObjectName(r)
    \/ PublishJob(r)     \/ PublishRefused(r)
    \/ RemoveTmp(r)

-----------------------------------------------------------------------------
(* StartConsumer and processTranscodingJob *)

Step(i, pc) == i \in up /\ stage[i] = pc

Goto(i, pc) == stage' = [stage EXCEPT ![i] = pc]

\* The local variables of the goroutine once it holds no delivery.
Forget(i) ==
    /\ job' = [job EXCEPT ![i] = None]
    /\ sent' = [sent EXCEPT ![i] = 0]
    /\ copy' = [copy EXCEPT ![i] = "name"]

\* The broker pushes messages as fast as it can: no prefetch limit is set.
Deliver(i) ==
    /\ i \in chan
    /\ queue # <<>>
    /\ queue' = Tail(queue)
    /\ inbox' = [inbox EXCEPT ![i] = Append(@, Head(queue))]
    /\ UNCHANGED <<uploadVars, storeVars, chan, dropped, workerVars, up, faults>>

\* case d, ok := <-msgs
Receive(i) ==
    /\ Step(i, "idle")
    /\ inbox[i] # <<>>
    /\ Goto(i, "download")
    /\ job' = [job EXCEPT ![i] = Head(inbox[i])]
    /\ inbox' = [inbox EXCEPT ![i] = Tail(@)]
    /\ UNCHANGED <<uploadVars, storeVars, queue, chan, dropped, sent, copy, up,
                   faults>>

\* !ok: the channel is closed, the goroutine returns for good.
StopConsumer(i) ==
    /\ Step(i, "idle")
    /\ i \notin chan
    /\ Goto(i, "stopped")
    /\ UNCHANGED <<uploadVars, storeVars, brokerVars,
                   job, sent, copy, up, faults>>

Download(i) ==
    /\ Step(i, "download")
    /\ Goto(i, IF job[i] \in stored THEN "transcode" ELSE "nack")
    /\ UNCHANGED <<uploadVars, storeVars, brokerVars,
                   job, sent, copy, up, faults>>

\* ffmpeg fails on bytes that are no video and may do so on mixed bytes.
Decodable(r)   == bytes[r] # {} /\ bytes[r] \cap Corrupt = {}
Undecodable(r) == bytes[r] # {r} \/ r \in Corrupt

Transcode(i) ==
    /\ Step(i, "transcode")
    /\ \/ Decodable(job[i]) /\ Goto(i, "send")
       \/ Undecodable(job[i]) /\ Goto(i, "nack")
    /\ UNCHANGED <<uploadVars, storeVars, brokerVars,
                   job, sent, copy, up, faults>>

\* Mutant: a file that cannot be uploaded is skipped.
SendSkippingErrors(i) ==
    /\ Step(i, "send")
    /\ sent[i] \in Files
    /\ sent' = [sent EXCEPT ![i] = @ + 1]
    /\ \/ /\ processed' = [processed EXCEPT ![job[i]] = @ \cup {sent[i]}]
          /\ UNCHANGED faults
       \/ Fault("io") /\ UNCHANGED processed
    /\ UNCHANGED <<uploadVars, row, stored, bytes, brokerVars, stage, job, copy,
                   up>>

\* Mutant: the loop runs past the last file.
SendPastEnd(i) ==
    /\ Step(i, "send")
    /\ sent' = [sent EXCEPT ![i] = @ + 1]
    /\ processed' = [processed EXCEPT ![job[i]] = @ \cup {sent[i]}]
    /\ UNCHANGED <<uploadVars, row, stored, bytes, brokerVars, stage, job, copy,
                   up, faults>>

\* One turn of the loop over the files ffmpeg left in the output directory.
SendOutput(i) ==
    /\ Step(i, "send")
    /\ sent[i] \in Files
    /\ processed' = [processed EXCEPT ![job[i]] = @ \cup {sent[i]}]
    /\ \/ sent' = [sent EXCEPT ![i] = @ + 1] /\ UNCHANGED <<stage, faults>>
       \/ Fault("io") /\ Goto(i, "nack") /\ UNCHANGED sent
    /\ UNCHANGED <<uploadVars, row, stored, bytes, brokerVars, job, copy, up>>

\* The loop ends; videoRepo.GetByID reads the row.
ReadRow(i) ==
    /\ Step(i, "send")
    /\ sent[i] = Segments + 1
    /\ Goto(i, "ready")
    /\ copy' = [copy EXCEPT ![i] = row[job[i]].file]
    /\ UNCHANGED <<uploadVars, storeVars, brokerVars, job, sent, up, faults>>

\* videoRepo.Update: Save writes every column as it was read, and the status
\* "ready"; the local files are removed.
MarkReady(i) ==
    /\ Step(i, "ready")
    /\ row' = [row EXCEPT ![job[i]] = [status |-> "ready", file |-> copy[i]]]
    /\ \/ Goto(i, "ack") /\ UNCHANGED faults
       \/ Goto(i, "nack") /\ Fault("io")
    /\ UNCHANGED <<uploadVars, stored, bytes, processed, brokerVars,
                   job, sent, copy, up>>

\* A step of processTranscodingJob fails without effect.
FailWork(i) ==
    /\ i \in up
    /\ stage[i] \in {"download", "transcode", "send", "ready"}
    /\ Fault("io")
    /\ Goto(i, "nack")
    /\ UNCHANGED <<uploadVars, storeVars, brokerVars, job, sent, copy, up>>

\* d.Ack(false): the broker forgets the message.  On a closed channel the
\* error is only logged; the broker has requeued the message by then.
Ack(i) ==
    /\ Step(i, "ack")
    /\ Goto(i, "idle") /\ Forget(i)
    /\ UNCHANGED <<uploadVars, storeVars, brokerVars, up, faults>>

\* Mutant: d.Nack(false, false) drops the message.
NackDropping(i) ==
    /\ Step(i, "nack")
    /\ Goto(i, "idle") /\ Forget(i)
    /\ UNCHANGED <<uploadVars, storeVars, brokerVars, up, faults>>

\* d.Nack(false, true) after ten seconds: the message goes back to its place
\* at the head of the queue.
Nack(i) ==
    /\ Step(i, "nack")
    /\ Goto(i, "idle") /\ Forget(i)
    /\ queue' = IF i \in chan THEN <<job[i]>> \o queue ELSE queue
    /\ UNCHANGED <<uploadVars, storeVars, inbox, chan, dropped, up, faults>>

Work(i) ==
    \/ Receive(i)   \/ StopConsumer(i)
    \/ Download(i)  \/ Transcode(i)
    \/ SendOutput(i)
    \/ ReadRow(i)   \/ MarkReady(i)
    \/ Ack(i)       \/ Nack(i)

-----------------------------------------------------------------------------
(* Crashes, broken connections and the broker *)

\* Closing a channel requeues what was unsettled and drops the client's buffer.
CloseChannel(i) ==
    /\ queue' = Unsettled(i) \o queue
    /\ inbox' = [inbox EXCEPT ![i] = <<>>]
    /\ chan' = chan \ {i}

\* The process dies: its uploads are gone and the clients see an error.
Crash(i) ==
    /\ i \in up
    /\ Fault("crash")
    /\ CloseChannel(i)
    /\ up' = up \ {i}
    /\ upload' = [r \in Requests |->
                    IF Server[r] = i /\ upload[r] \in Active \cup {"new"}
                    THEN "failed" ELSE upload[r]]
    /\ Goto(i, "idle") /\ Forget(i)
    /\ UNCHANGED <<fd, disk, data, storeVars, dropped>>

\* main: connect, declare the queue, start the consumer.
Restart(i) ==
    /\ i \notin up
    /\ up' = up \cup {i}
    /\ chan' = chan \cup {i}
    /\ UNCHANGED <<uploadVars, storeVars, queue, inbox, dropped, workerVars,
                   faults>>

\* The connection breaks.  Nothing in the service opens another one.
LoseConnection(i) ==
    /\ i \in chan
    /\ Fault("connection")
    /\ CloseChannel(i)
    /\ UNCHANGED <<uploadVars, storeVars, dropped, workerVars, up>>

\* Publish has written to the socket and returned nil, and the connection
\* breaks before the broker reads the message.
LosePublish(r) ==
    /\ At(r, "publish")
    /\ Server[r] \in chan
    /\ Fault("publish")
    /\ CloseChannel(Server[r])
    /\ dropped' = dropped \cup {r}
    /\ upload' = [upload EXCEPT ![r] = "cleanup"]
    /\ UNCHANGED <<fd, disk, data, storeVars, workerVars, up>>

\* The broker restarts.  The queue is durable, its messages are not: Publish
\* leaves DeliveryMode transient.
RestartBroker ==
    /\ Fault("broker")
    /\ dropped' = dropped \cup {r \in Requests : Owed(r)}
    /\ queue' = <<>>
    /\ inbox' = [i \in Instances |-> <<>>]
    /\ chan' = {}
    /\ UNCHANGED <<uploadVars, storeVars, workerVars, up>>

-----------------------------------------------------------------------------
Next ==
    \/ \E r \in Requests : UploadVideo(r) \/ FailUpload(r) \/ LosePublish(r)
    \/ \E i \in Instances :
          \/ Deliver(i) \/ Work(i) \/ FailWork(i)
          \/ Crash(i) \/ Restart(i) \/ LoseConnection(i)
    \/ RestartBroker

Spec == Init /\ [][Next]_vars

(***************************************************************************)
(* Fairness: a goroutine that can make its next call makes it, and whoever *)
(* deploys the service starts a crashed instance again.  A message that is *)
(* at the head of the queue again and again is delivered: a failed job is  *)
(* requeued in front of it, but only after the consumer has slept for ten  *)
(* seconds, and the broker pushes without a prefetch limit meanwhile.      *)
(* Faults are never obliged to happen.                                     *)
(***************************************************************************)
Fairness ==
    /\ \A r \in Requests : WF_vars(UploadVideo(r))
    /\ \A i \in Instances : WF_vars(Work(i))
    /\ \A i \in Instances, r \in Requests :
          SF_vars(Deliver(i) /\ Head(queue) = r)
    /\ \A i \in Instances : WF_vars(Restart(i))

FairSpec == Spec /\ Fairness

-----------------------------------------------------------------------------
(***************************************************************************)
(* Properties                                                              *)
(***************************************************************************)
Accepted(r) == upload[r] = "ok"
Ready(r)    == row[r].status = "ready"

\* Some copy of the job of r: waiting, buffered or being processed.
InFlight(r) ==
    \/ r \in Range(queue)
    \/ \E i \in Instances :
          \/ r \in Range(inbox[i])
          \/ stage[i] \in Busy /\ job[i] = r

(* A video that GetVideo and Search show (status "ready") has its playlist *)
(* and every segment in MinIO, however often its job failed, crashed or    *)
(* was redelivered before (work.go uploads all files before the update).   *)
ReadyIsPlayable == \A r \in Requests : Ready(r) => processed[r] = Files

(* A row that is ready is never written back to "upload" or to the plain   *)
(* file name: Save writes every column of a copy read earlier, by the      *)
(* upload and by each consumer, and none of the copies is stale.           *)
ReadyIsStable ==
    [][\A r \in Requests : Ready(r) => row'[r] = row[r]]_vars

(* A consumer that holds a job finds the original and the row it names:    *)
(* a job is published only after both exist, so no retry is hopeless.      *)
JobIsActionable ==
    \A r \in Requests :
        InFlight(r) => r \in stored /\ row[r].file = "object"

(* At-least-once transcoding: once Publish has returned nil the video is   *)
(* ready or the broker still owes the job to a consumer, whatever fails    *)
(* between the delivery and the Ack, unless the broker itself has lost the *)
(* message: there are no confirms, and the messages are transient.         *)
NoLostJob ==
    \A r \in Requests :
        upload[r] \in {"cleanup", "ok"} => Ready(r) \/ Owed(r) \/ r \in dropped

(* Two consumers whose channels are open never work on one video at the    *)
(* same time: what the broker requeues after a failure, a crash or a break *)
(* it has taken from somebody who is not going to be heard again.          *)
NoConcurrentTranscode ==
    \A i, j \in chan :
        /\ stage[i] \in Busy /\ stage[j] \in Busy
        /\ job[i] = job[j]
        => i = j

(* The object original/{id}/{name} holds the bytes of its own upload: the  *)
(* comment of UploadVideo promises that the temporary file makes the       *)
(* upload to MinIO complete (streaming_usecase.go, points 2 and 3).        *)
OriginalIntact == \A r \in stored : bytes[r] = {r}

(* A video whose upload was answered with success, whose original is its   *)
(* own file and whose bytes ffmpeg can decode becomes ready, even behind a *)
(* job that fails for ever, as long as the consumer of one instance        *)
(* listens and the broker has not lost the message.                        *)
AcceptedBecomesReady ==
    \A r \in Requests \ Corrupt :
        Accepted(r) /\ bytes[r] = {r} ~>
            \/ Ready(r)
            \/ r \in dropped
            \/ \A i \in Instances : stage[i] = "stopped"

(* "The consumer keeps listening to the queue" (streaming_note.md): while  *)
(* an instance runs, its consumer takes a message that waits.              *)
ConsumerKeepsListening ==
    \A i \in Instances : []<>(i \notin up \/ stage[i] # "stopped")

(* What the outside sees of the pipeline is a VideoCatalog: the rows and   *)
(* the processed objects, and none of the machinery that produces them.    *)
Catalog == INSTANCE VideoCatalog
             WITH Videos <- Requests,
                  status <- [r \in Requests |-> row[r].status],
                  files  <- processed

ImplementsCatalog == Catalog!Spec
=============================================================================
