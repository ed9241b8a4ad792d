------------------------- MODULE VideoGatewayProofs -------------------------
(* Theorems about the viewers of VideoPlayback and about the upload through *)
(* the gateway, and their proofs.                                           *)
EXTENDS VideoGateway, VideoPipelineProofs

USE NoneAssumption, SegmentsAssumption, ServerAssumption, ChunksAssumption

-----------------------------------------------------------------------------
(* The viewers.                                                             *)

(* What is true of a viewer: it has a video while it looks at one, and a    *)
(* video it was told to be ready is ready and has disappointed it only      *)
(* where a read failed.                                                     *)
Disappointments == {"refused", "blank", "broken"}

ViewerConsistent(v) ==
    /\ viewer[v].at \in Watching => viewer[v].video \in Requests
    /\ viewer[v].cleared =>
          /\ viewer[v].at \in Disappointments => viewer[v].failed
          /\ viewer[v].at \in Watching => Ready(viewer[v].video)
    /\ viewer[v].at = "playing" => viewer[v].next >= 1

PlayInv ==
    /\ PipelineInv
    /\ viewer \in [Viewers -> ViewerStates]
    /\ \A v \in Viewers : ViewerConsistent(v)

LEMMA PlayInitInv == PlayInit => PlayInv
  <1> SUFFICES ASSUME PlayInit PROVE PlayInv
    OBVIOUS
  <1>1. PipelineInv
    BY InitInv DEF PlayInit
  <1>2. Browsing \in ViewerStates
    BY DEF Browsing, Viewing, ViewerStates
  <1>3. \A v \in Viewers : viewer[v] = Browsing
    BY DEF PlayInit
  <1>4. viewer \in [Viewers -> ViewerStates]
    BY <1>2 DEF PlayInit
  <1>5. \A v \in Viewers : ViewerConsistent(v)
    BY <1>3 DEF ViewerConsistent, Browsing, Viewing, Watching, Listed,
       Disappointments
  <1>6. QED  BY <1>1, <1>4, <1>5 DEF PlayInv

(* Whatever the pipeline does, a viewer keeps what it was told. *)
LEMMA PipelinePlayInv ==
    ASSUME PlayInv, [Next]_vars, UNCHANGED viewer
    PROVE  PlayInv'
  <1>1. PipelineInv'
    BY NextInv DEF PlayInv
  <1>2. ASSUME NEW v \in Viewers PROVE ViewerConsistent(v)'
    <2>1. ViewerConsistent(v) /\ viewer'[v] = viewer[v]
      BY DEF PlayInv
    <2>2. \A r \in Requests : Ready(r) => Ready(r)'
      BY ReadyStep DEF PlayInv, Ready
    <2>3. QED  BY <2>1, <2>2 DEF ViewerConsistent
  <1>3. QED  BY <1>1, <1>2 DEF PlayInv

(* What Become asks of the new state of a viewer. *)
LEMMA BecomeInv ==
    ASSUME PlayInv, UNCHANGED vars, NEW v \in Viewers,
           NEW at \in {"browsing"} \cup Watching \cup Verdicts,
           NEW video \in Requests \cup {None},
           NEW next \in 0..(Segments + 1),
           NEW cleared \in BOOLEAN,
           NEW failed \in BOOLEAN,
           Become(v, Viewing(at, video, next, cleared, failed)),
           at \in Watching => video \in Requests,
           cleared =>
              /\ at \in Disappointments => failed
              /\ at \in Watching => Ready(video),
           at = "playing" => next >= 1
    PROVE  PlayInv'
  <1> DEFINE state == Viewing(at, video, next, cleared, failed)
  <1>0. state \in ViewerStates
    BY DEF Viewing, ViewerStates
  <1>1. PipelineInv'
    BY NextInv DEF PlayInv
  <1>2. viewer' = [viewer EXCEPT ![v] = state] /\ viewer \in [Viewers -> ViewerStates]
    BY DEF Become, PlayInv
  <1>3. viewer' \in [Viewers -> ViewerStates] /\ viewer'[v] = state
    BY <1>0, <1>2
  <1>4. \A r : Ready(r)' <=> Ready(r)
    BY DEF vars, storeVars, Ready
  <1>5. ViewerConsistent(v)'
    <2>1. /\ viewer'[v].at = at /\ viewer'[v].video = video
          /\ viewer'[v].next = next /\ viewer'[v].cleared = cleared
          /\ viewer'[v].failed = failed
      BY <1>3 DEF Viewing
    <2>2. QED  BY <2>1, <1>4 DEF ViewerConsistent
  <1>6. ASSUME NEW w \in Viewers, w # v PROVE ViewerConsistent(w)'
    <2>1. viewer'[w] = viewer[w] /\ ViewerConsistent(w)
      BY <1>2, <1>6 DEF PlayInv
    <2>2. QED  BY <2>1, <1>4 DEF ViewerConsistent
  <1>7. QED  BY <1>1, <1>3, <1>5, <1>6 DEF PlayInv

LEMMA WatchInv ==
    ASSUME PlayInv, UNCHANGED vars, NEW v \in Viewers, Watch(v)
    PROVE  PlayInv'
  <1> USE DEF Watching, Listed, Verdicts, Disappointments
  <1> DEFINE now == viewer[v]
  <1>0. /\ now \in ViewerStates
        /\ ViewerConsistent(v)
    BY DEF PlayInv
  <1>1. /\ now.at \in {"browsing"} \cup Watching \cup Verdicts
        /\ now.video \in Requests \cup {None}
        /\ now.next \in 0..(Segments + 1)
        /\ now.cleared \in BOOLEAN
    BY <1>0 DEF ViewerStates
  <1>2. 0 \in 0..(Segments + 1) /\ 1 \in 0..(Segments + 1)
    OBVIOUS
  <1>3. ASSUME NEW verdict \in Verdicts, EndWith(v, verdict),
               now.cleared => verdict = "unreachable"
        PROVE  PlayInv'
    BY <1>1, <1>2, <1>3, BecomeInv DEF EndWith
  <1>4. ASSUME NEW verdict \in Verdicts, FailWith(v, verdict)
        PROVE  PlayInv'
    BY <1>1, <1>2, <1>4, BecomeInv DEF FailWith
  <1>5. ASSUME now.at \in Watching
        PROVE  /\ now.video \in Requests
               /\ now.cleared => /\ Ready(now.video)
                                 /\ processed[now.video] = Files
    <2>1. now.video \in Requests /\ (now.cleared => Ready(now.video))
      BY <1>0, <1>5 DEF ViewerConsistent
    <2>2. QED  BY <2>1 DEF PlayInv, PipelineInv, ReadyIsPlayable
  <1>6. ASSUME NEW n \in 0..(Segments + 1), n >= 1, now.at \in Watching,
               Become(v, Viewing("playing", now.video, n, now.cleared, FALSE))
        PROVE  PlayInv'
    <2>1. now.video \in Requests /\ (now.cleared => Ready(now.video))
      BY <1>5, <1>6
    <2>2. QED  BY <1>1, <1>6, <2>1, BecomeInv
  <1>7. ASSUME NEW r \in Requests, NEW cleared \in BOOLEAN,
               cleared => Ready(r),
               Become(v, Viewing("found", r, 0, cleared, FALSE))
        PROVE  PlayInv'
    BY <1>2, <1>7, BecomeInv
  <1>8. CASE Search(v)
    BY <1>7, <1>8 DEF Search
  <1>9. CASE Recommend(v)
    BY <1>7, <1>9 DEF Recommend
  <1>10. CASE GetVideo(v)
    <2>1. CASE Ready(now.video) /\ Become(v, Viewing("offered", now.video, 0, TRUE, FALSE))
      BY <1>2, <1>5, <1>10, <2>1, BecomeInv DEF GetVideo
    <2>2. CASE ~Ready(now.video) /\ EndWith(v, "refused")
      BY <1>3, <1>5, <1>10, <2>2 DEF GetVideo
    <2>3. CASE FailWith(v, "refused")
      BY <1>4, <2>3
    <2>4. QED  BY <1>10, <2>1, <2>2, <2>3 DEF GetVideo
  <1>11. CASE FollowHlsURL(v)
    BY <1>3, <1>11 DEF FollowHlsURL
  <1>12. CASE GetIndexM3U8(v)
    <2>0. now.at \in Watching
      BY <1>12 DEF GetIndexM3U8
    <2>1. CASE Become(v, Viewing("playing", now.video, 1, now.cleared, FALSE))
      <3>1. 1 \in 0..(Segments + 1) /\ 1 >= 1
        BY <1>2
      <3>2. QED  BY ONLY <1>6, <2>0, <2>1, <3>1
    <2>2. CASE 0 \notin processed[now.video] /\ EndWith(v, "blank")
      <3>1. ~now.cleared
        BY <1>5, <2>0, <2>2 DEF Files
      <3>2. QED  BY <1>3, <2>2, <3>1
    <2>3. CASE FailWith(v, "blank") \/ FailWith(v, "broken")
      BY <1>4, <2>3
    <2>4. QED  BY <1>12, <2>1, <2>2, <2>3 DEF GetIndexM3U8
  <1>13. CASE GetHlsSegment(v)
    <2>0. /\ now.at \in Watching
          /\ now.next >= 1 /\ now.next <= Segments
      BY <1>0, <1>13 DEF GetHlsSegment, ViewerConsistent
    <2>1. now.next \in Files /\ now.next + 1 \in 0..(Segments + 1)
          /\ now.next + 1 >= 1
      BY <1>1, <2>0 DEF Files
    <2>2. CASE PlayOn(v)
      BY <1>6, <2>0, <2>1, <2>2 DEF PlayOn
    <2>3. CASE now.next \notin processed[now.video] /\ EndWith(v, "broken")
      BY <1>3, <1>5, <2>0, <2>1, <2>3
    <2>4. CASE FailWith(v, "broken")
      BY <1>4, <2>4
    <2>5. QED  BY <1>13, <2>2, <2>3, <2>4 DEF GetHlsSegment
  <1>14. CASE Leave(v)
    <2>1. Become(v, Viewing("browsing", None, 0, FALSE, FALSE))
      BY <1>14 DEF Leave, Browsing
    <2>2. QED  BY <1>2, <2>1, BecomeInv
  <1>15. QED
    BY <1>8, <1>9, <1>10, <1>11, <1>12, <1>13, <1>14 DEF Watch

LEMMA PlayNextInv == PlayInv /\ [PlayNext]_playVars => PlayInv'
  <1> SUFFICES ASSUME PlayInv, [PlayNext]_playVars PROVE PlayInv'
    OBVIOUS
  <1>1. CASE Next /\ UNCHANGED viewer
    BY <1>1, PipelinePlayInv
  <1>2. CASE \E v \in Viewers : Watch(v) /\ UNCHANGED vars
    BY <1>2, WatchInv
  <1>3. CASE UNCHANGED playVars
    BY <1>3, PipelinePlayInv DEF playVars
  <1>4. QED  BY <1>1, <1>2, <1>3 DEF PlayNext

LEMMA PlayInvImplies ==
    PlayInv => PlayTypeOK /\ ClearedPlaybackNeverBreaks
  BY DEF PlayInv, PipelineInv, PlayTypeOK, ViewerConsistent, Disappointments,
         ClearedPlaybackNeverBreaks

-----------------------------------------------------------------------------
(* The pipeline below: how a step moves an upload, and what an upload that  *)
(* has published leaves behind.                                             *)

Forward == { <<"new", "copy">>,     <<"copy", "insert">>,
             <<"insert", "put">>,   <<"put", "save">>,
             <<"save", "publish">>, <<"publish", "cleanup">>,
             <<"cleanup", "ok">> }

LEMMA UploadStep ==
    ASSUME TypeOK, Next, NEW x \in Requests
    PROVE  \/ upload'[x] = upload[x]
           \/ upload'[x] = "failed" /\ upload[x] # "ok"
           \/ /\ <<upload[x], upload'[x]>> \in Forward
              /\ Server[x] \in up /\ up' = up
  <1>0. upload \in [Requests -> UploadPc]
    BY DEF TypeOK
  <1>1. ASSUME NEW r \in Requests, NEW pc, NEW next, At(r, pc),
               Answered(r, next), <<pc, next>> \in Forward, up' = up
        PROVE  \/ upload'[x] = upload[x]
               \/ upload'[x] = "failed" /\ upload[x] # "ok"
               \/ /\ <<upload[x], upload'[x]>> \in Forward
                  /\ Server[x] \in up /\ up' = up
    <2>1. \/ upload' = [upload EXCEPT ![r] = next]
          \/ upload' = [upload EXCEPT ![r] = "failed"]
      BY <1>1 DEF Answered
    <2>2. upload[r] = pc /\ Server[r] \in up /\ pc # "ok"
      BY <1>1 DEF At, Forward
    <2>3. CASE x # r
      BY <1>0, <2>1, <2>3
    <2>4. CASE x = r
      BY <1>0, <1>1, <2>1, <2>2, <2>4
    <2>5. QED  BY <2>3, <2>4
  <1>2. ASSUME NEW r \in Requests, UploadVideo(r)
        PROVE  \/ upload'[x] = upload[x]
               \/ upload'[x] = "failed" /\ upload[x] # "ok"
               \/ /\ <<upload[x], upload'[x]>> \in Forward
                  /\ Server[x] \in up /\ up' = up
    <2>1. CASE CreateTmp(r)
      <3>1. At(r, "new") /\ Answered(r, "copy") /\ up' = up
        BY <2>1 DEF CreateTmp
      <3>2. QED  BY <3>1, <1>1 DEF Forward
    <2>2. CASE CopyTmp(r)
      <3>1. At(r, "copy") /\ Answered(r, "insert") /\ up' = up
        BY <2>2 DEF CopyTmp
      <3>2. QED  BY <3>1, <1>1 DEF Forward
    <2>3. CASE InsertRow(r)
      <3>1. At(r, "insert") /\ Answered(r, "put") /\ up' = up
        BY <2>3 DEF InsertRow
      <3>2. QED  BY <3>1, <1>1 DEF Forward
    <2>4. CASE PutOriginal(r)
      <3>1. At(r, "put") /\ Answered(r, "save") /\ up' = up
        BY <2>4 DEF PutOriginal
      <3>2. QED  BY <3>1, <1>1 DEF Forward
    <2>5. CASE SaveObjectName(r)
      <3>1. At(r, "save") /\ Answered(r, "publish") /\ up' = up
        BY <2>5 DEF SaveObjectName
      <3>2. QED  BY <3>1, <1>1 DEF Forward
    <2>6. CASE PutMissing(r) \/ PublishRefused(r)
      BY <1>0, <2>6 DEF PutMissing, PublishRefused, At
    <2>7. CASE PublishJob(r)
      BY <1>0, <2>7 DEF PublishJob, At, Forward
    <2>8. CASE RemoveTmp(r)
      BY <1>0, <2>8 DEF RemoveTmp, At, Answered, Forward
    <2>9. QED
      BY <1>2, <2>1, <2>2, <2>3, <2>4, <2>5, <2>6, <2>7, <2>8 DEF UploadVideo
  <1>3. ASSUME NEW r \in Requests, FailUpload(r)
        PROVE  \/ upload'[x] = upload[x]
               \/ upload'[x] = "failed" /\ upload[x] # "ok"
    BY <1>0, <1>3 DEF FailUpload, Active
  <1>4. ASSUME NEW r \in Requests, LosePublish(r)
        PROVE  \/ upload'[x] = upload[x]
               \/ /\ <<upload[x], upload'[x]>> \in Forward
                  /\ Server[x] \in up /\ up' = up
    BY <1>0, <1>4 DEF LosePublish, At, Forward
  <1>5. ASSUME NEW i \in Instances, Crash(i)
        PROVE  \/ upload'[x] = upload[x]
               \/ upload'[x] = "failed" /\ upload[x] # "ok"
    BY <1>0, <1>5 DEF Crash, Active
  <1>6. ASSUME NEW i \in Instances,
               Deliver(i) \/ Work(i) \/ FailWork(i) \/ Restart(i) \/ LoseConnection(i)
        PROVE  upload' = upload
    BY <1>6 DEF Deliver, Work, Receive, StopConsumer, Download, Transcode,
       SendOutput, ReadRow, MarkReady, Ack, Nack, FailWork, Restart,
       LoseConnection, uploadVars
  <1>7. CASE RestartBroker
    BY <1>7 DEF RestartBroker, uploadVars
  <1>8. QED
    BY <1>2, <1>3, <1>4, <1>5, <1>6, <1>7 DEF Next

(* What an upload that has published leaves behind, whatever becomes of the *)
(* job.                                                                     *)
Kept(r) ==
    upload[r] \in {"cleanup", "ok"} => r \in stored /\ row[r].file = "object"

LEMMA KeptStep ==
    ASSUME PipelineInv, Next, NEW x \in Requests, Kept(x)
    PROVE  Kept(x)'
  <1>0. TypeOK /\ UploadConsistent(x)
    BY DEF PipelineInv
  <1> SUFFICES ASSUME upload'[x] \in {"cleanup", "ok"}
               PROVE  x \in stored' /\ row'[x].file = "object"
    BY DEF Kept
  <1>1. upload[x] \in {"publish", "cleanup", "ok"}
    BY <1>0, UploadStep DEF Forward
  <1>2. x \in stored /\ row[x].file = "object"
    BY <1>0, <1>1 DEF Kept, UploadConsistent
  <1>3. stored \subseteq stored'
    BY DEF Next, UploadVideo, CreateTmp, CopyTmp, InsertRow, PutOriginal,
       PutMissing, SaveObjectName, PublishJob, PublishRefused, RemoveTmp,
       FailUpload, LosePublish, Deliver, Work, Receive, StopConsumer, Download,
       Transcode, SendOutput, ReadRow, MarkReady, Ack, Nack, FailWork, Crash,
       Restart, LoseConnection, RestartBroker, storeVars
  <1>4. row'[x].file = "object"
    <2>1. ~InsertRow(x) /\ ~SaveObjectName(x)
      BY <1>1 DEF InsertRow, SaveObjectName, At
    <2>2. \/ row'[x] = row[x]
          \/ row'[x] = [status |-> "ready", file |-> "object"]
      BY <2>1, RowStep
    <2>3. QED  BY <1>2, <2>2
  <1>5. QED  BY <1>2, <1>3, <1>4

-----------------------------------------------------------------------------
(* The stream.  The gateway and the handler move in step: while the gateway *)
(* sends, the handler receives; an answer is awaited for the whole file     *)
(* only; and the use case has been called for every upload that has begun.  *)

StreamTypeOK ==
    /\ gate \in [Requests -> {"form", "sending", "waiting"} \cup GateAnswers]
    /\ size \in [Requests -> 0..Chunks]
    /\ posted \in [Requests -> Lengths]
    /\ serve \in [Requests -> {"none", "recv", "run", "refused", "aborted"}]
    /\ got \in [Requests -> Lengths]
    /\ breaks \in Nat

StreamConsistent(r) ==
    /\ gate[r] = "form" => serve[r] = "none" /\ posted[r] = 0
    /\ serve[r] \in {"none", "recv"} => gate[r] # "success"
    /\ gate[r] = "waiting" => posted[r] = size[r] + 1
    /\ posted[r] <= size[r] + 1
    /\ got[r] <= posted[r]
    /\ serve[r] = "none" => got[r] = 0
    /\ serve[r] = "run" => got[r] = size[r] + 1 /\ size[r] > 0
    /\ upload[r] \notin {"new", "failed"} => serve[r] = "run"
    /\ gate[r] = "success" => serve[r] = "run" /\ Accepted(r)

GatewayInv ==
    /\ PlayInv
    /\ StreamTypeOK
    /\ \A r \in Requests : Kept(r) /\ StreamConsistent(r)

LEMMA GatewayInitInv == GatewayInit => GatewayInv
  <1> SUFFICES ASSUME GatewayInit PROVE GatewayInv
    OBVIOUS
  <1>1. PlayInv
    BY PlayInitInv DEF GatewayInit
  <1>2. StreamTypeOK
    BY DEF GatewayInit, StreamTypeOK, GateAnswers, Lengths
  <1>3. ASSUME NEW r \in Requests PROVE Kept(r) /\ StreamConsistent(r)
    BY DEF GatewayInit, PlayInit, Init, Kept, StreamConsistent
  <1>4. QED  BY <1>1, <1>2, <1>3 DEF GatewayInv

LEMMA PipelineStepInv ==
    ASSUME GatewayInv, PipelineStep
    PROVE  GatewayInv'
  <1>1. PlayInv'
    BY PipelinePlayInv DEF GatewayInv, PipelineStep
  <1>2. PipelineInv /\ TypeOK /\ Next
    BY DEF GatewayInv, PlayInv, PipelineInv, PipelineStep
  <1>3. StreamTypeOK'
    BY DEF GatewayInv, StreamTypeOK, PipelineStep, streamVars
  <1>4. ASSUME NEW r \in Requests PROVE Kept(r)' /\ StreamConsistent(r)'
    <2>1. Kept(r)'
      BY <1>2, KeptStep DEF GatewayInv
    <2>2. StreamConsistent(r) /\ UNCHANGED <<gate, size, posted, serve, got>>
      BY DEF GatewayInv, PipelineStep, streamVars
    <2>3. /\ upload[r] = "ok" => upload'[r] = "ok"
          /\ upload'[r] \notin {"new", "failed"} =>
                \/ upload[r] \notin {"new", "failed"}
                \/ upload[r] = "new" /\ Server[r] \in up'
      BY <1>2, UploadStep DEF Forward
    <2>4. upload'[r] \notin {"new", "failed"} => serve[r] = "run"
      BY <2>2, <2>3 DEF StreamConsistent, PipelineStep
    <2>5. QED  BY <2>1, <2>2, <2>3, <2>4 DEF StreamConsistent, Accepted
  <1>5. QED  BY <1>1, <1>3, <1>4 DEF GatewayInv

LEMMA WatchStreamInv ==
    ASSUME GatewayInv, UNCHANGED <<vars, streamVars>>, PlayInv'
    PROVE  GatewayInv'
  BY DEF GatewayInv, StreamTypeOK, StreamConsistent, Kept, Accepted, streamVars,
     vars, uploadVars, storeVars

LEMMA StreamInv ==
    ASSUME GatewayInv, NEW r \in Requests, Stream(r)
    PROVE  GatewayInv'
  <1>0. StreamTypeOK /\ StreamConsistent(r)
    BY DEF GatewayInv
  <1>1. UNCHANGED playVars
    BY DEF Stream, OpenStream, SendChunk, AbandonStream, CloseStream, Recv,
       RecvEOF, RecvError, Answer, LoseAnswer
  <1>2. PlayInv'
    BY <1>1, PlayNextInv DEF GatewayInv
  <1>3. UNCHANGED <<upload, stored, row>>
    BY <1>1 DEF playVars, vars, uploadVars, storeVars
  <1>4. \A x \in Requests : Kept(x)'
    BY <1>3 DEF GatewayInv, Kept
  <1>5. StreamTypeOK' /\ StreamConsistent(r)'
    <2>1. CASE OpenStream(r)
      BY <1>0, <1>3, <2>1 DEF OpenStream, Gate, Serve, StreamTypeOK,
         StreamConsistent, GateAnswers, Lengths, Accepted
    <2>2. CASE SendChunk(r)
      BY <1>0, <1>3, <2>2 DEF SendChunk, StreamTypeOK,
         StreamConsistent, GateAnswers, Lengths, Accepted
    <2>3. CASE AbandonStream(r)
      BY <1>0, <1>3, <2>3 DEF AbandonStream, Break, Gate, StreamTypeOK,
         StreamConsistent, GateAnswers, Lengths, Accepted
    <2>4. CASE CloseStream(r)
      BY <1>0, <1>3, <2>4 DEF CloseStream, Gate, StreamTypeOK,
         StreamConsistent, GateAnswers, Lengths, Accepted
    <2>5. CASE Recv(r)
      BY <1>0, <1>3, <2>5 DEF Recv, StreamTypeOK,
         StreamConsistent, GateAnswers, Lengths, Accepted
    <2>6. CASE RecvEOF(r)
      BY <1>0, <1>3, <2>6 DEF RecvEOF, Serve, StreamTypeOK,
         StreamConsistent, GateAnswers, Lengths, Accepted
    <2>7. CASE RecvError(r)
      BY <1>0, <1>3, <2>7 DEF RecvError, Break, Gate, Serve, StreamTypeOK,
         StreamConsistent, GateAnswers, Lengths, Accepted
    <2>8. CASE Answer(r)
      BY <1>0, <1>3, <2>8 DEF Answer, Gate, StreamTypeOK,
         StreamConsistent, GateAnswers, Lengths, Accepted
    <2>9. CASE LoseAnswer(r)
      BY <1>0, <1>3, <2>9 DEF LoseAnswer, Break, Gate, StreamTypeOK,
         StreamConsistent, GateAnswers, Lengths, Accepted
    <2>10. QED
      BY <2>1, <2>2, <2>3, <2>4, <2>5, <2>6, <2>7, <2>8, <2>9 DEF Stream
  <1>6. ASSUME NEW x \in Requests, x # r PROVE StreamConsistent(x)'
    <2>1. StreamConsistent(x)
      BY DEF GatewayInv
    <2>2. /\ gate'[x] = gate[x] /\ size'[x] = size[x] /\ posted'[x] = posted[x]
          /\ serve'[x] = serve[x] /\ got'[x] = got[x]
      BY <1>0, <1>6 DEF Stream, OpenStream, SendChunk, AbandonStream,
         CloseStream, Recv, RecvEOF, RecvError, Answer, LoseAnswer, Gate, Serve,
         StreamTypeOK
    <2>3. QED  BY <1>3, <2>1, <2>2 DEF StreamConsistent, Accepted
  <1>7. QED  BY <1>2, <1>4, <1>5, <1>6 DEF GatewayInv

LEMMA GatewayNextInv == GatewayInv /\ [GatewayNext]_gatewayVars => GatewayInv'
  <1> SUFFICES ASSUME GatewayInv, [GatewayNext]_gatewayVars PROVE GatewayInv'
    OBVIOUS
  <1>1. CASE PipelineStep
    BY <1>1, PipelineStepInv
  <1>2. CASE \E r \in Requests : Stream(r)
    BY <1>2, StreamInv
  <1>3. ASSUME NEW v \in Viewers, Watch(v), UNCHANGED <<vars, streamVars>>
        PROVE  GatewayInv'
    <2>1. PlayInv'
      BY <1>3, WatchInv DEF GatewayInv
    <2>2. QED  BY <1>3, <2>1, WatchStreamInv
  <1>4. CASE UNCHANGED gatewayVars
    <2>1. UNCHANGED playVars /\ UNCHANGED <<vars, streamVars>>
      BY <1>4 DEF gatewayVars, playVars
    <2>2. PlayInv'
      BY <2>1, PlayNextInv DEF GatewayInv
    <2>3. QED  BY <2>1, <2>2, WatchStreamInv
  <1>5. QED  BY <1>1, <1>2, <1>3, <1>4 DEF GatewayNext

LEMMA GatewayInductive == GatewaySpec => []GatewayInv
  BY GatewayInitInv, GatewayNextInv, PTL DEF GatewaySpec

LEMMA GatewayInvImplies ==
    GatewayInv =>
        GatewayTypeOK /\ WholeFileOnly /\ ClearedPlaybackNeverBreaks
  <1> SUFFICES ASSUME GatewayInv
               PROVE  GatewayTypeOK /\ WholeFileOnly
                      /\ ClearedPlaybackNeverBreaks
    OBVIOUS
  <1>1. GatewayTypeOK
    BY PlayInvImplies DEF GatewayInv, GatewayTypeOK, StreamTypeOK
  <1>2. WholeFileOnly
    BY DEF GatewayInv, StreamConsistent, WholeFileOnly
  <1>3. ClearedPlaybackNeverBreaks
    BY PlayInvImplies DEF GatewayInv
  <1>4. QED  BY <1>1, <1>2, <1>3

(* What an answer of success owes to the upload behind it. *)
LEMMA SuccessOwed == GatewayInv /\ NoLostJob => SuccessIsAccepted
  BY DEF GatewayInv, StreamConsistent, Kept, Accepted, NoLostJob,
     SuccessIsAccepted

(* Below the gateway the pipeline takes its own steps only.                  *)
LEMMA GatewayIsPipeline == GatewaySpec => Spec
  <1>1. GatewayInit => Init
    BY DEF GatewayInit, PlayInit
  <1>2. [GatewayNext]_gatewayVars => [Next]_vars
    <2> SUFFICES ASSUME [GatewayNext]_gatewayVars PROVE [Next]_vars
      OBVIOUS
    <2>1. CASE PipelineStep
      BY <2>1 DEF PipelineStep
    <2>2. ASSUME NEW r \in Requests, Stream(r) PROVE UNCHANGED vars
      BY <2>2 DEF Stream, OpenStream, SendChunk, AbandonStream, CloseStream,
         Recv, RecvEOF, RecvError, Answer, LoseAnswer, playVars
    <2>3. CASE UNCHANGED gatewayVars
      BY <2>3 DEF gatewayVars, playVars
    <2>4. QED  BY <2>1, <2>2, <2>3 DEF GatewayNext
  <1>3. QED  BY <1>1, <1>2, PTL DEF GatewaySpec, Spec

-----------------------------------------------------------------------------
(* The stream, the viewers and the pipeline stay in the states that          *)
(* GatewayTypeOK names, for files of any number of chunks.                   *)
THEOREM GatewayTypeCorrect == GatewaySpec => []GatewayTypeOK
  BY GatewayInductive, GatewayInvImplies, PTL

(* The use case is called with whole files only, wherever a gateway, a       *)
(* stream or an instance fails in the middle of one.                         *)
THEOREM WholeFileTheorem == GatewaySpec => []WholeFileOnly
  BY GatewayInductive, GatewayInvImplies, PTL

(* Whoever was told that a video is ready plays it to the end through the    *)
(* gateway unless a read of its own fails, for any number of videos,         *)
(* viewers, segments and faults: Search and GetVideo (FindByStatus, GetByID) *)
(* never clear a video that is not complete.                                 *)
THEOREM PlaybackTheorem == GatewaySpec => []ClearedPlaybackNeverBreaks
  BY GatewayInductive, GatewayInvImplies, PTL

(* An answer of success means that the whole file is stored and that its     *)
(* video is ready or its job owed to a consumer, whatever fails before or    *)
(* after the answer, unless the broker has lost the message.                 *)
THEOREM SuccessTheorem == GatewaySpec => []SuccessIsAccepted
  BY DeliveryTheorem, GatewayIsPipeline, GatewayInductive, SuccessOwed, PTL
=============================================================================
