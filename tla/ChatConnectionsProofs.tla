----------------------- MODULE ChatConnectionsProofs -----------------------
(* Theorems about ChatConnections, and their proofs.                        *)
EXTENDS ChatConnections, TLAPS

USE NoneAssumption, BoundAssumption

-----------------------------------------------------------------------------
(* Types *)

LEMMA SubscriptionType ==
    /\ \A c \in Conns, at \in {"listening", "cancelled", "done"} :
          /\ Subscription(c, at) \in Subscriptions
          /\ Subscription(c, at).of = c /\ Subscription(c, at).at = at
    /\ \A x \in Subscriptions :
          x.of \in Conns /\ x.at \in {"listening", "cancelled", "done"}
  BY DEF Subscription, Subscriptions

(* What a step may do to the subscriptions. *)
LEMMA SubsStep ==
    ASSUME TypeOK, [Next]_vars
    PROVE  \/ UNCHANGED subs
           \/ \E c \in Conns : EnterRoom(c)
           \/ \E c \in Conns : LeaveRoom(c)
           \/ \E k \in 1..MaxEnters : RoomReturns(k)
  BY DEF Next, HandleConnection, ClientLeaves, Request, LeaveRoomFirst,
     OtherRequest, Panic, Read, ReadError, SendResponse, Ping, PingSent,
     PingFailed, PingCancelled, PingStep, Tick, ConcurrentWrite,
     SubscribeReturns, roomVars, vars

(* The subscription k gets a new state; the others keep theirs. *)
LEMMA ReplaceType ==
    ASSUME subs \in Seq(Subscriptions), NEW k \in DOMAIN subs,
           NEW at \in {"listening", "cancelled", "done"},
           subs' = [subs EXCEPT ![k] = Subscription(subs[k].of, at)]
    PROVE  /\ subs' \in Seq(Subscriptions) /\ DOMAIN subs' = DOMAIN subs
           /\ subs'[k].of = subs[k].of /\ subs'[k].at = at
           /\ \A n \in DOMAIN subs : n # k => subs'[n] = subs[n]
  <1>1. subs[k] \in Subscriptions
    OBVIOUS
  <1>2. Subscription(subs[k].of, at) \in Subscriptions
    BY <1>1, SubscriptionType
  <1>3. subs'[k] = Subscription(subs[k].of, at)
    OBVIOUS
  <1>4. subs'[k].of = subs[k].of /\ subs'[k].at = at
    BY <1>1, <1>3, SubscriptionType
  <1>5. QED  BY <1>2, <1>4

LEMMA EnterType ==
    ASSUME TypeOK, NEW c \in Conns, EnterRoom(c)
    PROVE  /\ subs' \in Seq(Subscriptions) /\ Len(subs') = Len(subs) + 1
           /\ roomCtx' = Len(subs) + 1 /\ roomCtx' \in DOMAIN subs'
           /\ subs'[roomCtx'].of = c /\ subs'[roomCtx'].at = "listening"
           /\ \A n \in DOMAIN subs : subs'[n] = subs[n]
  <1>1. subs \in Seq(Subscriptions) /\ Subscription(c, "listening") \in Subscriptions
    BY SubscriptionType DEF TypeOK
  <1>2. subs' = Append(subs, Subscription(c, "listening")) /\ roomCtx' = Len(subs) + 1
    BY DEF EnterRoom
  <1>3. subs'[roomCtx'] = Subscription(c, "listening")
    BY <1>1, <1>2
  <1>4. QED  BY <1>1, <1>2, <1>3, SubscriptionType

LEMMA LeaveStep ==
    ASSUME TypeOK, NEW c \in Conns, LeaveRoom(c)
    PROVE  /\ subs' \in Seq(Subscriptions) /\ DOMAIN subs' = DOMAIN subs
           /\ roomCtx \in DOMAIN subs /\ roomCtx' = roomCtx
           /\ subs'[roomCtx].at # "listening"
           /\ \A n \in DOMAIN subs : n # roomCtx => subs'[n] = subs[n]
  <1>1. /\ subs \in Seq(Subscriptions) /\ roomCtx \in DOMAIN subs
        /\ roomCtx' = roomCtx /\ Cancel(roomCtx)
    BY DEF TypeOK, LeaveRoom
  <1>2. CASE subs[roomCtx].at = "listening"
    <2>1. subs' = [subs EXCEPT ![roomCtx] = Subscription(subs[roomCtx].of, "cancelled")]
      BY <1>1, <1>2 DEF Cancel
    <2>2. QED  BY <1>1, <2>1, ReplaceType
  <1>3. CASE subs[roomCtx].at # "listening"
    BY <1>1, <1>3 DEF Cancel
  <1>4. QED  BY <1>2, <1>3

LEMMA NextType == TypeOK /\ [Next]_vars => TypeOK'
  <1> SUFFICES ASSUME TypeOK, [Next]_vars PROVE TypeOK'
    OBVIOUS
  <1>1. /\ up' \in BOOLEAN
        /\ conn' \in [Conns -> {"new", "open", "gone", "closed"}]
        /\ reader' \in [Conns -> {"reading", "writing"}]
        /\ ping' \in [Conns -> {"off", "waiting", "writing", "done"}]
        /\ own' \in [Conns -> {"none", "listening", "done"}]
    <2>1. CASE \E c \in Conns : HandleConnection(c) \/ ClientLeaves(c) \/ Read(c)
      BY <2>1 DEF TypeOK, HandleConnection, ClientLeaves, Read, ReadError,
         SendResponse, CloseConnection
    <2>2. CASE \E c \in Conns : Request(c)
      BY <2>2 DEF TypeOK, Request, EnterRoom, LeaveRoom, LeaveRoomFirst,
         OtherRequest, Write, Panic, CloseConnection
    <2>3. CASE \E c \in Conns : Ping(c) \/ Tick(c) \/ SubscribeReturns(c)
      BY <2>3 DEF TypeOK, Ping, PingSent, PingFailed, PingCancelled, PingStep,
         Tick, SubscribeReturns
    <2>4. CASE \E c \in Conns : ConcurrentWrite(c)
      BY <2>4 DEF TypeOK, ConcurrentWrite, Panic, CloseConnection, connVars
    <2>5. CASE \E k \in 1..MaxEnters : RoomReturns(k)
      BY <2>5 DEF TypeOK, RoomReturns, connVars
    <2>6. CASE UNCHANGED vars
      BY <2>6 DEF TypeOK, vars, connVars
    <2>7. QED  BY <2>1, <2>2, <2>3, <2>4, <2>5, <2>6 DEF Next
  <1>2. /\ subs' \in Seq(Subscriptions) /\ roomCtx' \in DOMAIN subs' \cup {None}
        /\ last' \in [Conns -> {"none", "enter", "leave"}]
    <2>1. CASE \E c \in Conns : EnterRoom(c)
      BY <2>1, EnterType DEF EnterRoom, TypeOK
    <2>2. CASE \E c \in Conns : LeaveRoom(c)
      BY <2>2, LeaveStep DEF LeaveRoom, TypeOK
    <2>3. CASE \E k \in 1..MaxEnters : RoomReturns(k)
      BY <2>3, ReplaceType DEF RoomReturns, TypeOK
    <2>4. CASE /\ UNCHANGED subs
               /\ ~ \E c \in Conns : EnterRoom(c) \/ LeaveRoom(c)
      BY <2>4 DEF TypeOK, Next, HandleConnection, ClientLeaves, Request,
         LeaveRoomFirst, OtherRequest, Panic, Read, ReadError, SendResponse,
         Ping, PingSent, PingFailed, PingCancelled, PingStep, Tick,
         ConcurrentWrite, SubscribeReturns, RoomReturns, roomVars, vars
    <2>5. QED  BY <2>1, <2>2, <2>3, <2>4, SubsStep
  <1>3. crossed' \in SUBSET Conns
    <2>1. subs \in Seq(Subscriptions) /\ Holder \subseteq Conns /\ crossed \subseteq Conns
      BY SubscriptionType DEF TypeOK, Holder, Live
    <2>2. crossed' \subseteq crossed \cup Holder
      BY DEF Next, HandleConnection, ClientLeaves, Request, EnterRoom, LeaveRoom,
         LeaveRoomFirst, OtherRequest, Panic, Read, ReadError, SendResponse,
         Ping, PingSent, PingFailed, PingCancelled, PingStep, Tick,
         ConcurrentWrite, SubscribeReturns, RoomReturns, roomVars, vars
    <2>3. QED  BY <2>1, <2>2
  <1>4. QED  BY <1>1, <1>2, <1>3 DEF TypeOK

LEMMA InitType == Init => TypeOK
  BY DEF Init, TypeOK

(* The connections, their goroutines and the subscriptions are in the       *)
(* states the handler knows, for any number of connections and requests.    *)
THEOREM ConnectionTypeCorrect == Spec => []TypeOK
  BY InitType, NextType, PTL DEF Spec

-----------------------------------------------------------------------------
(* Rooms.  Of a connection no other request has crossed, roomCtx cancels    *)
(* the only subscription it has.                                            *)
RoomInv(c) ==
    c \notin crossed =>
        IF last[c] = "enter"
        THEN /\ roomCtx \in DOMAIN subs
             /\ subs[roomCtx].of = c /\ subs[roomCtx].at = "listening"
             /\ \A k \in RoomsOf(c) : k = roomCtx
        ELSE RoomsOf(c) = {}

LEMMA RoomEnter ==
    ASSUME TypeOK, NEW c \in Conns, EnterRoom(c), NEW d \in Conns, RoomInv(d)
    PROVE  RoomInv(d)'
  <1> SUFFICES ASSUME d \notin crossed' PROVE RoomInv(d)'
    BY DEF RoomInv
  <1>0. /\ last \in [Conns -> {"none", "enter", "leave"}]
        /\ subs \in Seq(Subscriptions)
    BY DEF TypeOK
  <1>1. d \notin crossed /\ d \notin Holder
    BY DEF EnterRoom
  <1>2. last[d] # "enter"
    BY <1>1 DEF RoomInv, Holder, Live
  <1>3. RoomsOf(d) = {}
    BY <1>1, <1>2 DEF RoomInv
  <1>4. \A n \in DOMAIN subs' : n # roomCtx' => n \in DOMAIN subs /\ subs'[n] = subs[n]
    BY <1>0, EnterType
  <1>5. CASE d = c
    <2>1. last'[d] = "enter"
      BY <1>0, <1>5 DEF EnterRoom
    <2>2. \A k \in RoomsOf(d)' : k = roomCtx'
      BY <1>3, <1>4 DEF RoomsOf, Live
    <2>3. QED  BY <1>5, <2>1, <2>2, EnterType DEF RoomInv
  <1>6. CASE d # c
    <2>1. last'[d] = last[d] /\ subs'[roomCtx'].of = c
      BY <1>0, <1>6, EnterType DEF EnterRoom
    <2>2. RoomsOf(d)' = {}
      BY <1>3, <1>4, <1>6, <2>1 DEF RoomsOf, Live
    <2>3. QED  BY <1>2, <2>1, <2>2 DEF RoomInv
  <1>7. QED  BY <1>5, <1>6

LEMMA RoomLeave ==
    ASSUME TypeOK, NEW c \in Conns, LeaveRoom(c), NEW d \in Conns, RoomInv(d)
    PROVE  RoomInv(d)'
  <1> SUFFICES ASSUME d \notin crossed' PROVE RoomInv(d)'
    BY DEF RoomInv
  <1>0. last \in [Conns -> {"none", "enter", "leave"}]
    BY DEF TypeOK
  <1>1. d \notin crossed /\ d \notin Holder \ {c}
    BY DEF LeaveRoom
  <1>2. \A k \in RoomsOf(d)' : k \in RoomsOf(d) /\ k # roomCtx
    BY LeaveStep DEF RoomsOf, Live
  <1>3. CASE d = c
    <2>1. last'[d] = "leave"
      BY <1>0, <1>3 DEF LeaveRoom
    <2>2. RoomsOf(d)' = {}
      BY <1>1, <1>2 DEF RoomInv
    <2>3. QED  BY <2>1, <2>2 DEF RoomInv
  <1>4. CASE d # c
    <2>1. last'[d] = last[d]
      BY <1>0, <1>4 DEF LeaveRoom
    <2>2. last[d] # "enter"
      BY <1>1, <1>4 DEF RoomInv, Holder, Live
    <2>3. RoomsOf(d)' = {}
      BY <1>1, <1>2, <2>2 DEF RoomInv
    <2>4. QED  BY <2>1, <2>2, <2>3 DEF RoomInv
  <1>5. QED  BY <1>3, <1>4

LEMMA RoomRest ==
    ASSUME TypeOK, [Next]_vars, NEW d \in Conns, RoomInv(d),
           ~ \E c \in Conns : EnterRoom(c) \/ LeaveRoom(c)
    PROVE  RoomInv(d)'
  <1>1. UNCHANGED <<roomCtx, last, crossed>>
    BY DEF Next, HandleConnection, ClientLeaves, Request, LeaveRoomFirst,
       OtherRequest, Panic, Read, ReadError, SendResponse, Ping, PingSent,
       PingFailed, PingCancelled, PingStep, Tick, ConcurrentWrite,
       SubscribeReturns, RoomReturns, roomVars, vars
  <1>2. CASE UNCHANGED subs
    BY <1>1, <1>2 DEF RoomInv, RoomsOf, Live
  <1>3. ASSUME NEW k \in 1..MaxEnters, RoomReturns(k) PROVE RoomInv(d)'
    <2>1. /\ subs \in Seq(Subscriptions) /\ k \in DOMAIN subs
          /\ subs[k].at = "cancelled"
          /\ subs' = [subs EXCEPT ![k] = Subscription(subs[k].of, "done")]
      BY <1>3 DEF RoomReturns, TypeOK
    <2>2. /\ DOMAIN subs' = DOMAIN subs /\ subs'[k].at = "done"
          /\ \A n \in DOMAIN subs : n # k => subs'[n] = subs[n]
      BY <2>1, ReplaceType
    <2>3. RoomsOf(d)' = RoomsOf(d)
      BY <2>1, <2>2 DEF RoomsOf, Live
    <2>4. QED  BY <1>1, <2>1, <2>2, <2>3 DEF RoomInv
  <1>4. QED  BY <1>2, <1>3, SubsStep

(* Each connection is subscribed to the room its last request names, unless *)
(* another request took roomCtx in between, for any number of connections.  *)
THEOREM RoomTheorem == Spec => []RoomFollowsRequests
  <1> DEFINE Rooms == \A c \in Conns : RoomInv(c)
  <1>1. Init => Rooms
    BY DEF Init, RoomInv, RoomsOf, Live
  <1>2. TypeOK /\ Rooms /\ [Next]_vars => Rooms'
    BY RoomEnter, RoomLeave, RoomRest
  <1>3. TypeOK /\ Rooms => RoomFollowsRequests
    <2> SUFFICES ASSUME TypeOK, Rooms, NEW c \in Conns \ crossed
                 PROVE  /\ last[c] = "enter" => \E k \in DOMAIN subs : RoomsOf(c) = {k}
                        /\ last[c] = "leave" => RoomsOf(c) = {}
      BY DEF RoomFollowsRequests
    <2>1. RoomInv(c)
      OBVIOUS
    <2>2. ASSUME last[c] = "enter" PROVE RoomsOf(c) = {roomCtx} /\ roomCtx \in DOMAIN subs
      BY <2>1, <2>2 DEF RoomInv, RoomsOf, Live
    <2>3. QED  BY <2>1, <2>2 DEF RoomInv
  <1> HIDE DEF Rooms
  <1>4. QED  BY <1>1, <1>2, <1>3, ConnectionTypeCorrect, PTL DEF Spec

-----------------------------------------------------------------------------
(* While a connection is open its own subscription and its pinger go on,    *)
(* whatever its reader and the other connections do.                        *)
THEOREM ServedTheorem == Spec => []OpenIsServed
  <1>1. Init => OpenIsServed
    BY DEF Init, OpenIsServed
  <1>2. TypeOK /\ OpenIsServed /\ [Next]_vars => OpenIsServed'
    <2> SUFFICES ASSUME TypeOK, OpenIsServed, [Next]_vars, NEW d \in Conns,
                        conn'[d] = "open"
                 PROVE  own'[d] = "listening" /\ ping'[d] # "done"
      BY DEF OpenIsServed
    <2>0. /\ conn \in [Conns -> {"new", "open", "gone", "closed"}]
          /\ ping \in [Conns -> {"off", "waiting", "writing", "done"}]
          /\ own \in [Conns -> {"none", "listening", "done"}]
          /\ conn[d] = "open" => own[d] = "listening" /\ ping[d] # "done"
      BY DEF TypeOK, OpenIsServed
    <2>1. ASSUME NEW c \in Conns, HandleConnection(c) \/ ClientLeaves(c) \/ Read(c)
          PROVE  own'[d] = "listening" /\ ping'[d] # "done"
      BY <2>0, <2>1 DEF HandleConnection, ClientLeaves, Read, ReadError,
         SendResponse, CloseConnection
    <2>2. ASSUME NEW c \in Conns, Request(c) \/ ConcurrentWrite(c)
          PROVE  own'[d] = "listening" /\ ping'[d] # "done"
      BY <2>0, <2>2 DEF Request, EnterRoom, LeaveRoom, LeaveRoomFirst,
         OtherRequest, ConcurrentWrite, Panic, CloseConnection, connVars
    <2>3. ASSUME NEW c \in Conns, Ping(c) \/ Tick(c) \/ SubscribeReturns(c)
          PROVE  own'[d] = "listening" /\ ping'[d] # "done"
      BY <2>0, <2>3 DEF Ping, PingSent, PingFailed, PingCancelled, PingStep,
         Tick, SubscribeReturns
    <2>4. CASE \E k \in 1..MaxEnters : RoomReturns(k)
      BY <2>0, <2>4 DEF RoomReturns, connVars
    <2>5. CASE UNCHANGED vars
      BY <2>0, <2>5 DEF vars, connVars
    <2>6. QED  BY <2>1, <2>2, <2>3, <2>4, <2>5 DEF Next
  <1>3. QED  BY <1>1, <1>2, ConnectionTypeCorrect, PTL DEF Spec
=============================================================================
