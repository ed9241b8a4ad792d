# TLA+ models of streaming_video_service

The repository is a video platform in Go: an API gateway (HTTP), three gRPC or
websocket services behind it, and five third-party stores.  These modules model
its core logic - what happens to a video between the client's form and the
viewer, to a session between login and logout, to rooms and messages that
several members change at once, to the websocket connections they do it with,
and to the services while they start - check it with TLC, and prove what matters
most with TLAPS.

## 1. The system

| component | state it keeps | operations | talks to |
|---|---|---|---|
| api_gateway (`internal/api`, `pkg/middlewares`) | the form and the gRPC stream of an upload | HTTP handlers, JWT middleware | gRPC to member and streaming service |
| streaming_service, gRPC handlers (`streaming_handler.go`) | the buffer of an upload stream | `UploadVideo` (client stream), the GET calls | the use case |
| streaming_service, upload (`streaming_usecase.go`) | files in `./tmp`, rows of `videos` (PostgreSQL), objects `original/…` (MinIO) | `UploadVideo` | publishes on the RabbitMQ queue `transcode` |
| streaming_service, consumer (`work.go`) | the job in hand, `./tmp/<id>_…`, objects `processed/…`, `videos.status` | `StartConsumer`, `processTranscodingJob` | consumes `transcode`, runs ffmpeg |
| streaming_service, playback (`streaming_usecase.go`) | reads only | `GetVideo`, `Search`, `GetRecommendations`, `GetIndexM3U8`, `GetHlsSegment` | PostgreSQL, MinIO |
| member_service (`internal/member`) | rows of `member` (PostgreSQL), one session key per member (Redis, with a TTL), JWTs in clients' hands | `Register`, `Login`, `Logout`, `ForceLogout`, `CheckSessionTimeout`, `ReconnectSession`, `FindMember` | PostgreSQL, Redis |
| chat_service, rooms (`room_usecause.go`) | documents of rooms and invitations (MongoDB) | `ExecuteRoom`, `JoinRoom`, `ExitRoom`, `ExecuteInvite`, `ExecuteAccept` | MongoDB |
| chat_service, messages (`message_usecase.go`) | one bucket per room and day (MongoDB) | `Execute` (send), `MarkRead`, `FindEarliestUnread`, `FindMessagesBefore`, `CountUnreadMessagesByRoom` | MongoDB, Redis pub/sub |
| chat_service, connections (`websocket_handler.go`) | websocket connections, subscriptions, one shared `roomCtx` | `HandleConnection`, `textMessageAction` | the two use cases, Redis pub/sub |
| start-up (`cmd/*/main.go`, `pkg/config`, `pkg/database`) | nothing but the connections it opens | connect in order, retry, listen or exit | all stores, the other services |

No operation uses a transaction or a lock.  Every use case is a row of calls to
other processes, so the hard behaviour is the same everywhere: other requests
move between two calls; a call fails before or after it has taken effect; an
instance dies half way; what was read is stale when it is written back whole
(gorm `Save`, `$set` of a document); deliveries are repeated; sessions and
tokens expire on their own.  PROJECT.json lists each such place at its line
under `hazards`, with the property that covers it.

What makes each component correct:

- upload and consumer: a video that is shown can be played; it is never taken
  back; a job always finds what it names; an accepted upload becomes ready; no
  job is lost; the original is the client's file;
- playback: whoever is told that a video is ready can watch it to the end,
  unless a read of that playback itself fails;
- members: one member per address; a session is opened by Login only, and ends;
  Redis and PostgreSQL agree on it; a member who was forced out must log in again;
- gateway: only whole files enter the pipeline, and after "success" the video is
  ready or its transcoding is owed;
- rooms: nobody is a member who was not let in; nobody is listed twice; private
  rooms follow accepted invitations;
- messages: a message that was acknowledged is stored, in one place; a read mark
  is genuine; what is unread stays so until it is read; connected members are
  notified;
- connections: leaving a room leaves that room only; an open connection is served
  and a closed one leaves nothing behind;
- start-up: a service comes up when what it needs does, and nobody waits for ever.

## 2. The modules

    VideoCatalog            what the streaming service promises (abstract)
      ^ implemented by
    VideoPipeline           upload, queue, consumer, crashes, broker
      ^ extended by
    VideoPlayback           viewers beside the pipeline
      ^ extended by
    VideoGateway            clients, the gateway and the upload stream
    MemberSession           registration, login, logout, sessions, tokens
    ChatRooms               rooms and invitations
    MessageLog              what a room promises of its messages (abstract)
      ^ implemented by
    ChatMessages            buckets of messages, read marks, notifications
    ChatConnections         websocket connections and their goroutines
    ServiceStart            the four services and five stores coming up
    *Proofs                 theorems, see section 4
    MC*                     instances for TLC

In every module an action is one call to another process together with all the
code up to the next call.  A call that returns an error appears twice: as an
action that had its effect although the error is returned (`Answered`), and as
one that had none (`FailUpload`, `FailWork`, `FailCall`); an error the code
ignores continues where the code continues.  Rows, objects, messages, rooms and
tokens are named after the call that created them: the code gives them fresh
serial numbers or UUIDs.  A definition whose comment begins with "Mutant" is no
part of the model: it is a plausible bug that the property it was written for
must notice.

**VideoPipeline.** `upload[r]` is the next call of request `r` in `UploadVideo`;
the file system is `disk` (path to inode), `fd` (the open file) and `data`
(whose bytes an inode holds), because `os.Create` truncates a file another
request has open and `UploadFile` opens the path again.  `row`, `stored`/`bytes`
and `processed` are PostgreSQL and MinIO; `queue`, `inbox` and `chan` are
RabbitMQ as the service uses it - no `Qos`, so deliveries pile up in the
client's buffer, and no confirms, so `Publish` may return nil for a message that
is lost (`LosePublish`).  `dropped` is a history variable: the requests whose
message the broker has lost, in such a publication or in a restart.  `stage`, `job`, `sent` and `copy` are the goroutine of
`StartConsumer` and its local variables; `copy` is the row it read and writes
back whole.  A closed channel requeues everything unsettled, including the job
its consumer is still working on, whose `Ack` then fails and is only logged.
`Nack` puts a message back at the head of the queue, as RabbitMQ does when it
can.  The ten seconds of sleep before it are not modelled as time.

**VideoCatalog** is the promise: a video is registered, files appear, and when
all are there it may be published; nothing is taken back.  The refinement
mapping reads the status of the row and the processed objects.

**VideoPlayback** adds viewers whose steps are the gateway's GET handlers.  Each
of them may fail: PostgreSQL or MinIO has an error, no instance is there, or the
gateway's five seconds pass.  Where the code turns an error into an answer, the
model does: `GetIndexM3U8` gives an empty playlist with status 200 for every
error of the use case and a 500 for a call without an answer, `GetVideo` and
`GetHlsSegment` a 500 for all of them.  `cleared` records that the service has
told this viewer that the video is ready, `failed` that the playback ended
because a read of its own failed - a history variable, too, which tells a read
that failed from a video that is not there.  `GetVideo` hands out an address
(`offered`); the player opens it (`FollowHlsURL`) or asks the gateway's own route.

**VideoGateway** composes both with the way in.  `gate[r]` is the gateway's
handler, `serve[r]` the gRPC handler, `posted` and `got` the messages on the
stream between them, the metadata first.  The stream has the request's context,
which fasthttp does not cancel, and no deadline: a gateway that returns in the
middle of a file leaves the other side waiting, while a broken connection makes
its `Recv` fail.  `PipelineStep` lets a request enter `VideoPipeline` only once
its handler has seen io.EOF.  An error of the use case is an answer with
`Success = false`, which the gateway passes on with status 200 (`refused`).

**MemberSession.** `ttl[m]` is the life left of the Redis key of member `m` (the
value stored under it is never read), `left[t]` that of a token; `Tick` ages
both, and `SetKey`, `DelKey`, `ExtendTTL` and `GetTTL` are the commands of
`redisRepository`.  `Parses` and `Admits` are what `ParseJWT` and
`JWTMiddleware` look at.  `GatewayLogout` is the logout as the gateway calls it,
with the member ID where the token is expected.  `messy` is a history
variable: the members with a login that failed half way or overlapped a logout.

**ChatRooms.** `copy[c]` is the array of members call `c` is going to write back;
everything else in the document never changes after its creation.  `UpdateRoom`
leaves the array as it is when the copy is empty: the tag `omitempty` drops it
from the `$set`.  FindOne and UpdateOne take the first of several matching
invitations, while `FindInvitationByPending` returns all.

**ChatMessages.** `buckets[d]` is the sequence of documents of day `d` - two
overlapping first sends insert two - of which only the first is read and
written; the unread queries go over all of them.  `copy[c]` is the bucket call
`c` has read.  `EnterRoom` is what enter_room may list, `CountUnread` the answer of
get_unread: the first bucket with an unread message, and the messages before it
up to a page, against a count over all buckets.
`clobbered` is a history variable: the days on which a write fell on a document
that had changed since it was read, or a second document was inserted.

**MessageLog** is the promise: every day has a log, to whose end a message is
posted once and in which messages only gain readers, until overlapping writes tear
it.  The refinement mapping (`Shown`) reads the document `FindBucket` finds;
`clobbered` are the torn days.

**ChatConnections.** Each connection has a reader (`reader`, one request and its
answer at a time), a pinger (`ping`) and the subscription of the member's own
channel (`own`); `subs` are the room subscriptions in the order enter_room made
them, and `roomCtx` the index of the one the handler's only cancel function
belongs to.  A panic of the reader - a nil `roomCtx`, or a write that collides
with the pinger's - runs the deferred calls and is recovered from by the
websocket middleware or ends the process; a panic of the pinger always ends it.
`last` and `crossed` are history variables: what a connection asked for last,
and whose room subscription another request took.

**ServiceStart.** `Plan[s]` lists what the main function of service `s` connects
to, in order, and by which function of `pkg/database`; `step`, `tries` and
`wake` are where it is.  Time is counted in retry intervals and moves when
everybody sleeps or waits.  docker-compose starts all containers together and
gives no service a restart policy.

## 3. The runs

| run | what it asks | result |
|---|---|---|
| `gateway` | `WholeFileOnly`, `SuccessIsAccepted`, `ClearedPlaybackNeverBreaks` in the composition of clients, gateway, pipeline and viewer, and `OriginalIntact` for files with names of their own | holds |
| `pipeline_delivery` | `ReadyIsPlayable`, `JobIsActionable`, `ReadyIsStable`, `ImplementsCatalog`, `NoLostJob`, `NoConcurrentTranscode` and `AcceptedBecomesReady` with two instances on one queue and two uploads of one file name, beside a video that never decodes, under faults of every kind | holds |
| `pipeline_samepath` | `OriginalIntact` when two uploads have one file name | violated |
| `pipeline_deaf` | `ConsumerKeepsListening` after a broken connection | violated |
| `member_sessions` | `OneMemberPerEmail`, `LiveIsOnline`, `OnlyLoginOpensSession`, `SessionsEnd` | holds |
| `member_forced` | `MustLoginAgain` | violated |
| `chat_rooms` | `GatedMembers`, `NoDuplicateMembers`, `PrivateByConsent`, `AcceptedHasRoom`, `InviteesDecide` | holds |
| `chat_messages` | `OneCopy`, `ReadIsGenuine`, `SerialCallsLoseNothing`, `UnreadIsKept`, `ImplementsLog` | holds |
| `chat_unread` | `EnterRoomShowsUnread` with unread messages in two buckets | violated |
| `chat_push` | `MembersReceive` | violated |
| `chat_connections` | `RoomFollowsRequests`, `OpenIsServed`, `GoroutinesEnd` | holds |
| `service_start` | `StartsInTime`, `EverybodySettles` | holds |

The five violations are places where the code does not do what one of its
comments, notes or feature files says; PROJECT.json quotes the lines under
`findings`:

- *same path* - the temporary file is `./tmp/<client's file name>`: the second
  upload truncates the first one's file, and one video's original object gets the
  other's bytes.  No fault is needed.
- *deaf consumer* - a broken connection ends the goroutine for good.
- *forced logout* - the middleware looks at the JWT only, so a token goes on
  being admitted after the session was deleted.
- *unread* - enter_room shows the unread messages of the first bucket that has
  any, where the comments speak of all of them in several buckets; one day may
  have two, and the later days have their own.  `MarkRead` looks into today's
  bucket only, so a message left unread at midnight hides all later ones from
  that member for ever (`HiddenTheorem` in section 4).
- *notifications* - `Execute` publishes to `<memberID>`, connections subscribe
  to `chat:user:<memberID>`.

**Where a text promises more than a passing property.**  The passing properties
say what the code does guarantee, and name the cases they leave out.  In these
cases the repository's own words go further than the code does; the modules
contain the behaviour, and no passing property denies it:

- an upload answered with "uploaded, waiting for transcoding"
  (`src/internal/streaming/app/streaming_usecase.go:177`) waits for nothing once
  the broker has lost its message: `dropped` in `NoLostJob`, `SuccessIsAccepted`
  and `AcceptedBecomesReady`.  There are no confirms, and the messages are
  transient although `src/cmd/streaming_service/main.go:89` makes the queue durable;
- `GetVideo` hands out an "HLS URL for playback"
  (`src/internal/api/handlers/streaming_handler.go:123`) at the port of the gRPC
  server, where there is no such route (`FollowHlsURL`), and an answer with status
  200 that has no "m3u8 playlist content" (line 205) is an error of the use case the
  gateway has not looked at (`blank`).  `ClearedPlaybackNeverBreaks` is about the
  gateway's own routes, and about reads that do not fail;
- `GET /member/find` and the comment at
  `src/internal/member/app/member_usecase.go:83` promise a search by address; the
  handler passes the empty fields of the request on as conditions, and finds nobody;
- who reconnects in time is "still regarded as logged in", and who does not is
  "logged out automatically" (`src/tests/bdd/features/user_service.feature:34` and
  `:23`): a login between the two calls of `ForceLogout` leaves a live session that
  is shown offline (`messy` in `LiveIsOnline`), and nobody writes the status when a
  key expires;
- an invitation opens a room that contains the two
  (`src/tests/bdd/features/chat_service.feature:14-16`): in the code it has to be
  accepted, and a call that fails between the update of the invitation and the
  insert of the room leaves a pair that has no room and cannot be invited again
  (`AcceptedHasRoom`);
- every message is written to the database and reading makes it read
  (`src/internal/chat/app/websocket_handler.go:295` and `:305`): of two calls that
  read one bucket the later write drops what the earlier has added, although both
  are acknowledged (`clobbered` in `SerialCallsLoseNothing`, `UnreadIsKept` and
  `ImplementsLog`), and a message of yesterday cannot be marked;
- MinIO is connected with a retry (`src/pkg/database/minio.go:34`,
  `src/streaming_note.md:8`), RabbitMQ with exponential backoff
  (`src/pkg/database/rabbitmq.go:26`), MongoDB with pauses in seconds
  (`src/cmd/chat_service/config/chat_service.yaml:9`): MinIO is asked once, the
  pauses for RabbitMQ are all the same, and those for MongoDB are nanoseconds.
  `StartsInTime` grants a store what is left of this, the least a service survives.

The second half of `InviteesDecide` may surprise, too: a second invitation of a
pair, should two overlap, is pending for ever.

**Bounds, and why they are enough.**  Two requests, because what can go wrong in
the pipeline is between two uploads, or between an upload and a consumer; a third
adds no new pair.  One or two instances: two consumers suffice for redelivery
from one to the other.  One segment beside the playlist, so that the loop over
the files can be cut after either; the theorems hold for any number.  In
`pipeline_delivery` one fault of any kind (`MaxFaults`) and two uploads with the
same file name to one of the instances, so that truncation and
removal of each other's file are in; in `gateway` up to two failures, failing
calls, crashes, lost publications, restarts of the broker or broken streams (the
state constraint `TwoFailures`), so that the recovery from the first meets a
second, while the reads of a viewer may fail at any time; files with names of
their own, of no chunk or two (`NoOrTwoChunks`: two is the least that can be cut
after one), and one viewer.  The theorems about the pipeline and the gateway hold
with any number of all of them.  One fault in the chat and member runs.  The runs that find a
violation use small instances, and no fault where the code needs none: two days
for what is unread across midnight.  Two registrations for one address, three
calls on the sessions: two to race and one whose token they use; `SessionTTL` 1
and `JwtTTL` 2 are the smallest values in which a token outlives a session, as 5
and 60 minutes do.  Four room requests: create, two that overlap, and one more to
meet the result; two members suffice for a pair, and symmetry is used because
nothing in the module tells two calls or two members apart.  Three message calls
over three days: two that overlap and one that reads, or that crosses midnight, and
a day between the one a send began on and the one on which it ends.
Two connections and two enter_room requests: one's own second subscription and a
foreign one.  In `service_start` three retries, at most two late stores of five
with every delay up to beyond the last attempt, a `Patience` of 7 intervals
(the code: 60, also with three retries; what counts is that it exceeds twice the
retries) and a `Selection` of 1 (the driver's 30 s are 6 intervals; a late store
within them is found by the first attempt either way).

`CHECK_DEADLOCK FALSE` throughout: every request ends, and a system whose
requests have all ended may stop.

**Fairness.**  `AcceptedBecomesReady` assumes that a goroutine that can make its
next call makes it (weak fairness on `UploadVideo` and `Work`), that a crashed
instance is started again, and that a message which is at the head of the queue
again and again is delivered (strong fairness on `Deliver` per message): a job
that fails is put back in front only after its consumer has slept for ten
seconds, during which the broker, which knows no prefetch limit here, pushes
what is behind it.  Faults are never obliged to happen and never fair.
`SessionsEnd` assumes that time passes (`WF(Tick)`), and `MembersReceive` that a
request that has begun goes on.  `GoroutinesEnd` assumes that a goroutine that
can go on does, that `ReadMessage` notices a broken connection, and that a
`select` with two ready cases takes each of them some time, as Go's random choice
does; clients and the ticker are obliged to nothing.  `EverybodySettles` assumes
that processes run and time passes.

**Conditions under which the passing properties are stated.**  `NoLostJob`,
`SuccessIsAccepted` and `AcceptedBecomesReady` leave out the messages in `dropped`,
the last also the case that broken connections have stopped the consumers of all
instances (`pipeline_deaf`).  `AcceptedBecomesReady` speaks of uploads whose
original object is their own, and `OriginalIntact` holds for distinct file names
(`pipeline_samepath`).  `ClearedPlaybackNeverBreaks` leaves out a playback that
has ended because a read of its own failed.  `LiveIsOnline` leaves out the
members in `messy`, and does not say that an offline member has no session.
`AcceptedHasRoom` leaves out accepts that are on the way or were interrupted,
`SerialCallsLoseNothing` and `UnreadIsKept` the days in `clobbered`, where a write
did overwrite another; `ImplementsLog` tears their logs.  `RoomFollowsRequests`
leaves out the connections in `crossed`, and says thereby which requests are the
only ones that can cross.  `StartsInTime` grants each store the delay the code
grants it.

## 4. The proofs

All theorems hold for any values of the constants that satisfy the assumptions
stated with them: any numbers of requests, instances, viewers, chunks, segments,
members, calls and connections, and any faults.

| module | theorem | property |
|---|---|---|
| `VideoPipelineProofs` | `TypeCorrect` | `TypeOK` |
| | `Inductive` | `PipelineInv` |
| | `PlayableTheorem` | `ReadyIsPlayable` |
| | `ActionableTheorem` | `JobIsActionable` |
| | `StableTheorem` | `ReadyIsStable` (an action property) |
| | `CatalogTheorem` | `ImplementsCatalog` (refinement) |
| | `DeliveryTheorem` | `NoLostJob` |
| `VideoDeliveryProofs` | `OriginalTheorem` | `OriginalIntact`, assuming a path of its own for every upload |
| | `NoConcurrencyTheorem` | `NoConcurrentTranscode` |
| `VideoGatewayProofs` | `GatewayTypeCorrect` | `GatewayTypeOK` |
| | `WholeFileTheorem` | `WholeFileOnly` |
| | `PlaybackTheorem` | `ClearedPlaybackNeverBreaks` |
| | `SuccessTheorem` | `SuccessIsAccepted` |
| `MemberSessionProofs` | `MemberTypeCorrect` | `TypeOK` |
| | `OneMemberTheorem` | `OneMemberPerEmail` |
| | `LoginOpensTheorem` | `OnlyLoginOpensSession` (an action property) |
| | `StatusTheorem` | `LiveIsOnline` |
| `ChatConnectionsProofs` | `ConnectionTypeCorrect` | `TypeOK` |
| | `RoomTheorem` | `RoomFollowsRequests` |
| | `ServedTheorem` | `OpenIsServed` |
| `ChatRoomsProofs` | `RoomsTypeCorrect` | `TypeOK` |
| | `GatedTheorem` | `GatedMembers` |
| | `NoDuplicatesTheorem` | `NoDuplicateMembers` |
| | `ConsentTheorem` | `PrivateByConsent` |
| | `AcceptedTheorem` | `AcceptedHasRoom` |
| | `InviteesTheorem` | `InviteesDecide` (an action property) |
| `ChatMessagesProofs` | `MessagesTypeCorrect` | `TypeOK` |
| | `OneCopyTheorem` | `OneCopy` |
| | `ReadIsGenuineTheorem` | `ReadIsGenuine` |
| | `SerialTheorem` | `SerialCallsLoseNothing` |
| | `UnreadTheorem` | `UnreadIsKept` (an action property) |
| | `HiddenTheorem` | `ShownDayStays` (an action property that no run checks) |
| | `LogTheorem` | `ImplementsLog` (refinement) |
| `ServiceStartProofs` | `StartTypeCorrect` | `TypeOK` |
| | `StartsInTimeTheorem` | `StartsInTime` |
| | `ForecastTheorem` | `StartsAsForecast` (who comes up and when, exactly; no run checks it) |

**The pipeline.**  `ReadyIsPlayable` is not inductive: a consumer about to write
`ready` must have uploaded everything, and must write back a row that is not
stale.  The strengthening is `PipelineInv`, in three parts.  `UploadConsistent`:
the row and the object have the state the upload has reached.  `JobConsistent`: a
copy of a job anywhere in the broker or in a consumer, or a ready row, implies
`Published` - the upload is past `Publish`, so it will not write the row or the
object again.  `WorkConsistent`: what the consumer's position says about the
files it has sent and the row it has read.  The key is that a message is
published after the last `Save` of the upload, so no two writers of a row ever
overlap except two consumers, which write the same values.  `RowStep` lists what
any step may do to a row; stability and the refinement follow from it.
`DeliveryTheorem` needs a second argument, that requeueing, receiving and
acknowledging only ever move a message between the queue, the buffers and the
consumers, until the row is ready (`OwedWork`, `OwedFault`), and that a message
which goes away otherwise is in `dropped`.  The lemmas about
`Range` say what appending, taking the head and concatenating do to the contents
of a queue.

**Delivery.**  `NoConcurrentTranscode` is an instance of a stronger statement,
`CopyInv`: every job is at no more than one place - one position of the queue, one
position of one buffer behind an open channel, or one consumer with an open
channel.  That it is at none before it is published is `JobConsistent`, a part of
`PipelineInv`, and is what makes the publication of a job safe for `CopyInv`.
`Once` says of a sequence that it holds nothing twice; the lemmas about `Once` and
concatenation carry it through requeueing, where a whole buffer is put in front
of the queue.  For `OriginalIntact`, `FileInv` follows the bytes: with a path of
its own, an upload's inode is its own, so what it copied is what `UploadFile`
reads.

**Viewers and the gateway.**  `PlayInv` adds to `PipelineInv` that a viewer who
looks at a video has one, and that a viewer whose look-up said "ready" has a video
that is ready, and has met a refusal, an empty playlist or a broken file only in a
read that failed; stability of "ready" keeps the second (`WatchInv`).  `GatewayInv` adds `Kept` (an upload that has published
leaves its object stored and named by its row, whatever becomes of the job) and
`StreamConsistent` (the messages received are at most those sent, and those at
most the file; a handler that has called the use case has the whole file, which is
not empty; the upload has begun only if it was called; the gateway answers
"success" only after an upload that was accepted).  The composition takes the
pipeline's own steps only (`GatewayIsPipeline`), so `DeliveryTheorem` holds of it
as well, and an upload that was accepted has its job owed until its video is
ready or the broker has lost it: with `Kept` that is `SuccessOwed`.

**Sessions.**  `StatusInv` says of every member that is not messy: no login is
under way beside a logout (`Apart`), a logout that has dropped the session finds
it dropped when it writes "offline" (`DroppedStays`), and a session that lives has
its status written or about to be (`ShownOrWritten`).  `OneMemberPerEmail` is
inductive because the column is UNIQUE; the look-up before the insert is not
needed, and the proof does not use it.

**Connections.**  `RoomInv` says of a connection nobody has crossed that
`roomCtx` belongs to its only subscription while it is in a room.

**Rooms.**  What makes `GatedMembers` and `NoDuplicateMembers` true is not the
state of the rooms but that of the copies in flight: a list that a call is going
to write back was read long ago.  `RoomsInv` says of such a copy what is said of
the room (`Lawful`: everybody in it `May` be there, and no one twice); what lets
somebody in - a join in progress or done, the two of an accept - never goes away
(`MayKept`), so an old copy is still lawful when it is written.  For private
rooms it adds that a call on its way to create one, and one that has, finds its
invitation accepted (`Consented`), and that every accepted invitation has an accept
that has made the room, is on the way, or was interrupted (`Served`).
`InvitesInv` says that a call which is going to update an invitation has found one
of its pair; invitations are only appended and changed in status (`StepKeeps`), so
the one `UpdateOne` takes is one of the pair (`FirstOf`).  ExitRoom's loop is
`Without`, a recursive function over the positions of the list; that it is
defined, and keeps exactly the other members in their order, is shown by
induction (`LoopExists`, `WithoutKeeps`).  The induction theorems of the library
take an operator and cannot be used here, so `InductionOn` derives the principle
for a set from the well-foundedness of `<` on the numbers.

**Messages.**  `OneCopy` and `ReadIsGenuine` are not inductive: what a call writes
back was read earlier.  `MessagesInv` says the same of the copies: every message
in a document or in a copy was sent on that day by a call that is past its write
and has genuine readers (`Proper`), and the copy of a call that is going to write
shares no message with any document but the first, the one it will replace
(`CopyProper`).  A send whose write is still to come is therefore in no document
(`Fresh`), which is what makes appending it safe.  `SerialInv` adds that outside
`clobbered` a day has one document at most and holds whatever was acknowledged.
`HiddenTheorem` is about the day enter_room shows, the first with an unread
message (`EarliestIsFirst`, from `MinOf`), and asks of a step what it does to one
day (`OneDayStep`): on a day that is over, and on every day before it, no call is
left that could write.  It says for good what `chat_unread` finds once.  The condition `Settled` names the earlier days
too: a send that has begun before midnight may still put its message into a day
before the one that is shown.  `LogTheorem` goes through the three writes.  One
that overlaps another is a `Tear`; any other starts from the document as it is
(`UpdateLogs`), so it appends a message that is nowhere else (`NotPosted`, from
`Fresh`) or, the names in a document being distinct, adds a reader to one message.

**Start-up.**  `Begins[s][k]` is the forecast of the moment at which service `s`
begins with step `k` of its plan, a closed formula of the delays, and `StartInv`
says that the services keep to it: a service in step `k` has begun when it was to,
its sleeps and timeouts are counted from there (`wake` and `tries`), and what it
still waits for was not up before the present moment (`InStep`).  The last is what
the clock has to respect: it moves only while everybody waits, and what somebody
waits for comes later than now (`WaitsForLater`); for a service that waits for
another one this is so because the other, too, waits for something that comes
later (`NotYet`).  `PatienceAssumption` is used in one place: a gRPC client that
gives up does so after the last moment at which the service it waits for could
have begun to listen.  `StartsInTime` follows: a service with a forecast does not
exit, and one that listens has reached every step of its plan, hence found every
store of it up, those behind a service it waits for included (`ReachedIsUp`,
`NeedsAreUp`).

Every invariant, every action property and every refinement of a passing run is
the property of a theorem.  Only model-checked are `AcceptedBecomesReady`, `SessionsEnd`,
`GoroutinesEnd` and `EverybodySettles`: liveness is out of the prover's reach.

## 5. What is not modelled

The match and order of search results and the view counter; request parsing,
cookies, hashing and the claims of a JWT beyond its expiry; the content of
messages and frames; the parsing of single settings and ports that are taken;
`internal/streaming/api` (nothing registers its routes), Kafka, presigned URLs,
`TranscodeToDASH` and `consumeTranscodingMessage`, which nothing calls; generated
code, beyond the streams it opens.  Two things are known and left abstract: the
consumer's `./tmp/<id>_original.mp4` may collide with a client's file name, which
needs names as data, and messages of the second in which enter_room asks are left
out of its answer, which needs time stamps.  PROJECT.json gives the reason for
each component.

## 6. What is left

In the order of their use:

1. The requests of chat_service that span rooms, invitations and connections
   (enter_room after exit_room, for example) in one composition.
2. Connections composed with notifications, should publisher and subscriber come
   to name one channel.
