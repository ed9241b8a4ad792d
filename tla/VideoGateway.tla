---------------------------- MODULE VideoGateway ----------------------------
(***************************************************************************)
(* The upload as the client of the api_gateway sees it.  The gateway's     *)
(* UploadVideo reads the file of the form and sends it on a client stream: *)
(* first the metadata, then the chunks, then CloseAndRecv.  The handler of *)
(* streaming_service (StreamingGRPCServer.UploadVideo) collects them in a  *)
(* buffer until io.EOF and calls the use case of VideoPipeline with it.    *)
(*                                                                         *)
(* The stream has the context of the request, which fasthttp never         *)
(* cancels, and no deadline.  Viewers come from VideoPlayback.             *)
(***************************************************************************)
EXTENDS VideoPlayback

CONSTANTS
    Chunks,    \* bound on the number of chunks of a file
    MaxBreaks  \* bound on the number of streams that break

ASSUME ChunksAssumption == Chunks \in Nat /\ MaxBreaks \in Nat

VARIABLES
    gate,    \* gate[r]: what the gateway does for request r, or its answer
    size,    \* size[r]: the number of chunks of the file
    posted,  \* posted[r]: the messages sent: the metadata and the chunks
    serve,   \* serve[r]: what the handler of streaming_service does
    got,     \* got[r]: the messages it has received
    breaks   \* number of streams that broke so far

streamVars == <<gate, size, posted, serve, got, breaks>>
gatewayVars == <<playVars, streamVars>>

GateAnswers == {"success", "refused", "error"}
Lengths     == 0..(Chunks + 1)

GatewayTypeOK ==
    /\ PlayTypeOK
    /\ gate \in [Requests -> {"form", "sending", "waiting"} \cup GateAnswers]
    /\ size \in [Requests -> 0..Chunks]
    /\ posted \in [Requests -> Lengths]
    /\ serve \in [Requests -> {"none", "recv", "run", "refused", "aborted"}]
    /\ got \in [Requests -> Lengths]
    /\ breaks \in Nat

GatewayInit ==
    /\ PlayInit
    /\ gate = [r \in Requests |-> "form"]
    /\ size = [r \in Requests |-> 0]
    /\ posted = [r \in Requests |-> 0]
    /\ serve = [r \in Requests |-> "none"]
    /\ got = [r \in Requests |-> 0]
    /\ breaks = 0

-----------------------------------------------------------------------------
(* The stream *)

\* The instance is there to take messages, and has not lost the request in a
\* crash.
Connected(r) == Server[r] \in up /\ upload[r] # "failed"

Gate(r, next)  == gate' = [gate EXCEPT ![r] = next]
Serve(r, next) == serve' = [serve EXCEPT ![r] = next]

\* The file cannot be read, or the stream or its connection breaks.
Break == breaks < MaxBreaks /\ breaks' = breaks + 1

\* The form is parsed, the stream opened and the metadata sent.
OpenStream(r) ==
    /\ gate[r] = "form"
    /\ IF Connected(r)
       THEN /\ Gate(r, "sending") /\ Serve(r, "recv")
            /\ \E n \in 0..Chunks : size' = [size EXCEPT ![r] = n]
            /\ posted' = [posted EXCEPT ![r] = 1]
       ELSE Gate(r, "error") /\ UNCHANGED <<size, posted, serve>>
    /\ UNCHANGED <<playVars, got, breaks>>

\* One turn of the loop: 32 KB are read from the file and sent.
SendChunk(r) ==
    /\ gate[r] = "sending"
    /\ posted[r] < size[r] + 1
    /\ posted' = [posted EXCEPT ![r] = @ + 1]
    /\ UNCHANGED <<playVars, gate, size, serve, got, breaks>>

\* file.Read or Send fails: the handler returns and leaves the stream open.
AbandonStream(r) ==
    /\ gate[r] = "sending"
    /\ Gate(r, "error")
    /\ Break
    /\ UNCHANGED <<playVars, size, posted, serve, got>>

\* CloseAndRecv half-closes the stream and waits for the answer.
CloseStream(r) ==
    /\ gate[r] = "sending"
    /\ posted[r] = size[r] + 1
    /\ Gate(r, "waiting")
    /\ UNCHANGED <<playVars, size, posted, serve, got, breaks>>

\* stream.Recv: metadata is kept, a chunk is appended to the buffer.
Recv(r) ==
    /\ serve[r] = "recv" /\ Connected(r)
    /\ got[r] < posted[r]
    /\ got' = [got EXCEPT ![r] = @ + 1]
    /\ UNCHANGED <<playVars, gate, size, posted, serve, breaks>>

\* io.EOF after the last message.  A buffer without a chunk is refused.
RecvEOF(r) ==
    /\ serve[r] = "recv" /\ Connected(r)
    /\ gate[r] = "waiting"
    /\ got[r] = posted[r]
    /\ Serve(r, IF got[r] > 1 THEN "run" ELSE "refused")
    /\ UNCHANGED <<playVars, gate, size, posted, got, breaks>>

\* Mutant: any error of Recv ends the loop.
RecvErrorAsEOF(r) ==
    /\ serve[r] = "recv" /\ Connected(r)
    /\ Break
    /\ Serve(r, IF got[r] > 1 THEN "run" ELSE "refused")
    /\ Gate(r, IF gate[r] \in GateAnswers THEN gate[r] ELSE "error")
    /\ UNCHANGED <<playVars, size, posted, got>>

\* The connection to the gateway breaks, or the gateway dies: Recv fails and
\* the buffer is dropped.
RecvError(r) ==
    /\ serve[r] = "recv" /\ Connected(r)
    /\ Break
    /\ Serve(r, "aborted")
    /\ Gate(r, IF gate[r] \in GateAnswers THEN gate[r] ELSE "error")
    /\ posted' = [posted EXCEPT ![r] = 0]
    /\ got' = [got EXCEPT ![r] = 0]
    /\ UNCHANGED <<playVars, size>>

\* SendAndClose, and the JSON of the gateway: an error of the use case is an
\* answer with Success = false and status 200; after a crash there is none.
Answer(r) ==
    /\ gate[r] = "waiting"
    /\ \/ upload[r] = "ok" /\ Gate(r, "success")
       \/ upload[r] = "failed" /\ Gate(r, "refused")
       \/ upload[r] = "failed" /\ Gate(r, "error")
       \/ serve[r] = "refused" /\ Gate(r, "refused")
    /\ UNCHANGED <<playVars, size, posted, serve, got, breaks>>

\* The answer is lost: CloseAndRecv returns an error while the use case goes
\* on, or has ended already.
LoseAnswer(r) ==
    /\ gate[r] = "waiting"
    /\ Gate(r, "error")
    /\ Break
    /\ UNCHANGED <<playVars, size, posted, serve, got>>

Stream(r) ==
    \/ OpenStream(r) \/ SendChunk(r) \/ AbandonStream(r) \/ CloseStream(r)
    \/ Recv(r)       \/ RecvEOF(r)   \/ RecvError(r)
    \/ Answer(r)     \/ LoseAnswer(r)

\* The pipeline moves; a request enters it once its handler calls the use case.
PipelineStep ==
    /\ Next
    /\ \A r \in Requests :
          upload[r] = "new" /\ upload'[r] # "new" =>
              serve[r] = "run" \/ Server[r] \notin up'
    /\ UNCHANGED <<viewer, streamVars>>

GatewayNext ==
    \/ PipelineStep
    \/ \E r \in Requests : Stream(r)
    \/ \E v \in Viewers : Watch(v) /\ UNCHANGED <<vars, streamVars>>

GatewaySpec == GatewayInit /\ [][GatewayNext]_gatewayVars

-----------------------------------------------------------------------------
(* Properties *)

(* A video enters the pipeline with all of its bytes: a gateway that fails *)
(* in the middle of the file, a broken connection and an empty file never  *)
(* leave a truncated video, although the handler cannot tell how long the  *)
(* file is (the metadata has no length).                                   *)
WholeFileOnly ==
    \A r \in Requests :
        serve[r] = "run" => got[r] = size[r] + 1 /\ size[r] > 0

(* A client that was told "success" has uploaded the whole file, and the   *)
(* video is ready, so that it can be played, or the broker owes its job to *)
(* a consumer ("uploaded, waiting for transcoding", says the answer of     *)
(* UploadVideo), unless the broker itself has lost the message: Publish    *)
(* waits for no confirm, and the messages of the queue are transient.      *)
SuccessIsAccepted ==
    \A r \in Requests :
        gate[r] = "success" =>
            /\ got[r] = size[r] + 1 /\ size[r] > 0
            /\ r \in stored /\ row[r].file = "object"
            /\ Ready(r) \/ Owed(r) \/ r \in dropped

=============================================================================
