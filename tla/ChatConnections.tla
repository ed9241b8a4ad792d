-------------------------- MODULE ChatConnections --------------------------
(***************************************************************************)
(* The websocket connections of chat_service: HandleConnection and the     *)
(* goroutines it starts.  A connection has a reader, which executes one    *)
(* request after the other and writes the answer, a pinger, and a          *)
(* subscription of the member's own channel; every enter_room starts one   *)
(* more subscription.  The cancel function of the latest room subscription *)
(* is kept in the field roomCtx of the handler, and there is one handler   *)
(* for all connections.                                                    *)
(*                                                                         *)
(* Nothing in the program publishes on the channels subscribed here (see   *)
(* ChatMessages), so the subscriptions never write to a connection.  What  *)
(* the requests do to rooms and messages is in ChatRooms and ChatMessages. *)
(***************************************************************************)
EXTENDS Integers, Sequences

CONSTANTS
    Conns,      \* websocket connections, each used once
    None,       \* no subscription
    MaxEnters   \* bound on the number of enter_room requests

ASSUME NoneAssumption  == None \notin Nat
ASSUME BoundAssumption == MaxEnters \in Nat

VARIABLES
    up,         \* the process is running
    conn,       \* conn[c]: "gone" once the client has left unnoticed
    reader,     \* reader[c]: waits for a request, or writes an answer
    ping,       \* ping[c]: the ping goroutine
    own,        \* own[c]: the subscription of the member's channel
    subs,       \* the room subscriptions, in the order they were made
    roomCtx,    \* the index of the one roomCtx() cancels, or None
    last,       \* last[c]: the last room request of c (history)
    crossed     \* connections whose room another request took (history)

connVars == <<conn, reader, ping, own>>
roomVars == <<subs, roomCtx, last, crossed>>
vars == <<up, connVars, roomVars>>

Subscriptions == [of : Conns, at : {"listening", "cancelled", "done"}]

Subscription(c, at) == [of |-> c, at |-> at]

TypeOK ==
    /\ up \in BOOLEAN
    /\ conn \in [Conns -> {"new", "open", "gone", "closed"}]
    /\ reader \in [Conns -> {"reading", "writing"}]
    /\ ping \in [Conns -> {"off", "waiting", "writing", "done"}]
    /\ own \in [Conns -> {"none", "listening", "done"}]
    /\ subs \in Seq(Subscriptions)
    /\ roomCtx \in DOMAIN subs \cup {None}
    /\ last \in [Conns -> {"none", "enter", "leave"}]
    /\ crossed \in SUBSET Conns

Init ==
    /\ up = TRUE
    /\ conn = [c \in Conns |-> "new"]
    /\ reader = [c \in Conns |-> "reading"]
    /\ ping = [c \in Conns |-> "off"]
    /\ own = [c \in Conns |-> "none"]
    /\ subs = <<>>
    /\ roomCtx = None
    /\ last = [c \in Conns |-> "none"]
    /\ crossed = {}

-----------------------------------------------------------------------------
(* The connection *)

\* The handlers of close, ping and pong are set, the own channel is
\* subscribed and the ping goroutine started.
HandleConnection(c) ==
    /\ up /\ conn[c] = "new"
    /\ conn' = [conn EXCEPT ![c] = "open"]
    /\ ping' = [ping EXCEPT ![c] = "waiting"]
    /\ own' = [own EXCEPT ![c] = "listening"]
    /\ UNCHANGED <<up, reader, roomVars>>

\* The client closes or breaks the connection.
ClientLeaves(c) ==
    /\ up /\ conn[c] = "open"
    /\ conn' = [conn EXCEPT ![c] = "gone"]
    /\ UNCHANGED <<up, reader, ping, own, roomVars>>

\* The deferred calls: the connection is closed and ctxClose cancelled.
\* roomCtx is left alone.
CloseConnection(c) ==
    /\ conn' = [conn EXCEPT ![c] = "closed"]
    /\ reader' = [reader EXCEPT ![c] = "reading"]

\* ReadMessage returns an error, a close frame or a broken connection.
ReadError(c) ==
    /\ up /\ conn[c] = "gone" /\ reader[c] = "reading"
    /\ CloseConnection(c)
    /\ UNCHANGED <<up, ping, own, roomVars>>

\* A panic of the reader runs the deferred calls; then the websocket
\* middleware recovers from it, or the process dies.
Panic(c) ==
    /\ CloseConnection(c)
    /\ up' \in BOOLEAN
    /\ UNCHANGED <<ping, own, roomVars>>

-----------------------------------------------------------------------------
(* Requests *)

Requested(c) == up /\ conn[c] = "open" /\ reader[c] = "reading"

Write(c) == reader' = [reader EXCEPT ![c] = "writing"]

\* Any request but enter_room and leave_room.
OtherRequest(c) ==
    /\ Requested(c)
    /\ Write(c)
    /\ UNCHANGED <<up, conn, ping, own, roomVars>>

Live == {k \in DOMAIN subs : subs[k].at = "listening"}

\* The connection whose subscription roomCtx would cancel, if any.
Holder == {subs[k].of : k \in Live \cap {roomCtx}}

\* Mutant: the cancel function is kept once it is set.
EnterRoomKeepingCancel(c) ==
    /\ Requested(c) /\ Len(subs) < MaxEnters
    /\ subs' = Append(subs, Subscription(c, "listening"))
    /\ roomCtx' = IF roomCtx = None THEN Len(subs) + 1 ELSE roomCtx
    /\ crossed' = crossed \cup Holder
    /\ last' = [last EXCEPT ![c] = "enter"]
    /\ Write(c)
    /\ UNCHANGED <<up, conn, ping, own>>

\* Mutant: roomCtx gets the cancel function of the subscription before.
EnterRoomPrevious(c) ==
    /\ Requested(c) /\ Len(subs) < MaxEnters
    /\ subs' = Append(subs, Subscription(c, "listening"))
    /\ roomCtx' = Len(subs)
    /\ crossed' = crossed \cup Holder
    /\ last' = [last EXCEPT ![c] = "enter"]
    /\ Write(c)
    /\ UNCHANGED <<up, conn, ping, own>>

\* enter_room overwrites roomCtx, whoever has set it before.  (The queries
\* for messages are ChatMessages!EnterRoom; it subscribes even if they fail.)
EnterRoom(c) ==
    /\ Requested(c) /\ Len(subs) < MaxEnters
    /\ subs' = Append(subs, Subscription(c, "listening"))
    /\ roomCtx' = Len(subs) + 1
    /\ crossed' = crossed \cup Holder
    /\ last' = [last EXCEPT ![c] = "enter"]
    /\ Write(c)
    /\ UNCHANGED <<up, conn, ping, own>>

\* A cancel function may be called again, and does nothing then.
Cancel(k) ==
    subs' = IF subs[k].at = "listening"
            THEN [subs EXCEPT ![k] = Subscription(subs[k].of, "cancelled")]
            ELSE subs

\* Mutant: leave_room ends the connection's own subscription as well.
LeaveRoomAndOwn(c) ==
    /\ Requested(c) /\ roomCtx # None
    /\ Cancel(roomCtx)
    /\ own' = [own EXCEPT ![c] = "done"]
    /\ crossed' = crossed \cup (Holder \ {c})
    /\ last' = [last EXCEPT ![c] = "leave"]
    /\ Write(c)
    /\ UNCHANGED <<up, conn, ping, roomCtx>>

\* leave_room calls roomCtx, whoever has set it.
LeaveRoom(c) ==
    /\ Requested(c) /\ roomCtx # None
    /\ Cancel(roomCtx)
    /\ crossed' = crossed \cup (Holder \ {c})
    /\ last' = [last EXCEPT ![c] = "leave"]
    /\ Write(c)
    /\ UNCHANGED <<up, conn, ping, own, roomCtx>>

\* Before the first enter_room of any connection roomCtx is nil.
LeaveRoomFirst(c) ==
    /\ Requested(c) /\ roomCtx = None
    /\ Panic(c)

\* sendResponse: a failing write is only logged.
SendResponse(c) ==
    /\ up /\ reader[c] = "writing"
    /\ reader' = [reader EXCEPT ![c] = "reading"]
    /\ UNCHANGED <<up, conn, ping, own, roomVars>>

-----------------------------------------------------------------------------
(* The ping goroutine and the subscriptions *)

PingStep(c, from, to) ==
    /\ up /\ ping[c] = from
    /\ ping' = [ping EXCEPT ![c] = to]
    /\ UNCHANGED <<up, conn, reader, own, roomVars>>

\* The ticker fires; a tick may still be there after Stop.
Tick(c) == PingStep(c, "waiting", "writing")

\* A write succeeds until the connection is closed, or fails once the client
\* is gone; then the goroutine returns, and the reader is not told.
PingSent(c)      == conn[c] # "closed" /\ PingStep(c, "writing", "waiting")
PingFailed(c)    == conn[c] # "open" /\ PingStep(c, "writing", "done")
PingCancelled(c) == conn[c] = "closed" /\ PingStep(c, "waiting", "done")

\* WriteMessage of the reader and of the pinger at the same time: the one
\* that notices panics.  Nothing recovers from a panic of the pinger.
ConcurrentWrite(c) ==
    /\ up /\ reader[c] = "writing" /\ ping[c] = "writing"
    /\ \/ Panic(c)
       \/ up' = FALSE /\ UNCHANGED <<connVars, roomVars>>

\* Mutant: only Close of the connection is deferred, not cancel.
SubscribeNotCancelled(c) ==
    /\ up /\ own[c] = "listening" /\ conn[c] = "new"
    /\ own' = [own EXCEPT ![c] = "done"]
    /\ UNCHANGED <<up, conn, reader, ping, roomVars>>

\* The loop of Subscribe.  Once the context is done it calls sub.Close() and
\* goes round, which may happen again, until the select takes the closed
\* channel and the goroutine returns.
SubscribeReturns(c) ==
    /\ up /\ own[c] = "listening" /\ conn[c] = "closed"
    /\ own' = [own EXCEPT ![c] = "done"]
    /\ UNCHANGED <<up, conn, reader, ping, roomVars>>

\* The same loop for a room subscription, once leave_room has cancelled it.
RoomReturns(k) ==
    /\ up /\ k \in DOMAIN subs /\ subs[k].at = "cancelled"
    /\ subs' = [subs EXCEPT ![k] = Subscription(subs[k].of, "done")]
    /\ UNCHANGED <<up, connVars, roomCtx, last, crossed>>

-----------------------------------------------------------------------------
Request(c) == EnterRoom(c) \/ LeaveRoom(c) \/ LeaveRoomFirst(c) \/ OtherRequest(c)

Read(c) == ReadError(c) \/ SendResponse(c)
Ping(c) == PingSent(c) \/ PingFailed(c) \/ PingCancelled(c)

Next ==
    \/ \E c \in Conns :
          \/ HandleConnection(c) \/ ClientLeaves(c) \/ Request(c)
          \/ Read(c) \/ Ping(c) \/ Tick(c) \/ ConcurrentWrite(c)
          \/ SubscribeReturns(c)
    \/ \E k \in 1..MaxEnters : RoomReturns(k)

Spec == Init /\ [][Next]_vars

(***************************************************************************)
(* Fairness: a goroutine that can go on goes on, a write ends, a broken    *)
(* connection is noticed by ReadMessage, and a select that finds two cases *)
(* ready takes each of them some time (Go chooses at random).  Clients are *)
(* not obliged to send or to leave, nor the ticker to fire.                *)
(***************************************************************************)
Fairness ==
    /\ \A c \in Conns :
          WF_vars(Read(c)) /\ WF_vars(Ping(c)) /\ WF_vars(SubscribeReturns(c))
    /\ \A k \in 1..MaxEnters : WF_vars(RoomReturns(k))

FairSpec == Spec /\ Fairness

-----------------------------------------------------------------------------
(***************************************************************************)
(* Properties                                                              *)
(***************************************************************************)
RoomsOf(c) == {k \in Live : subs[k].of = c}

(* A connection is subscribed to exactly one room after enter_room and to  *)
(* none after leave_room, as long as no request of another connection, and *)
(* no second enter_room of its own, came in between: these are the only    *)
(* ways the shared roomCtx loses a subscription or ends a foreign one.     *)
(* Closing the connection is no leave_room: a member who disconnects in a  *)
(* room stays subscribed to it for ever.                                   *)
RoomFollowsRequests ==
    \A c \in Conns \ crossed :
        /\ last[c] = "enter" => \E k \in DOMAIN subs : RoomsOf(c) = {k}
        /\ last[c] = "leave" => RoomsOf(c) = {}

(* While a connection is open its own subscription listens and its pinger  *)
(* runs: neither leave_room, which cancels a context, nor the panic of     *)
(* another connection, nor a ping that collides with an answer ends them   *)
(* and leaves the connection open.                                         *)
OpenIsServed ==
    \A c \in Conns :
        conn[c] = "open" => own[c] = "listening" /\ ping[c] # "done"

Ended(c) == conn[c] = "closed" /\ ping[c] = "done" /\ own[c] = "done"

(* No connection leaks its goroutines: once the client is gone, or a panic *)
(* was recovered from, the reader, the pinger and the own subscription end *)
(* unless the process dies, although the loop of Subscribe goes on after   *)
(* sub.Close; and a room subscription that was cancelled ends.             *)
GoroutinesEnd ==
    /\ \A c \in Conns : conn[c] \in {"gone", "closed"} ~> Ended(c) \/ ~up
    /\ \A k \in 1..MaxEnters :
          k \in DOMAIN subs \ Live ~> \/ ~up
                                     \/ \E j \in DOMAIN subs : j = k /\ subs[j].at = "done"
=============================================================================
