------------------------- MODULE ServiceStartProofs -------------------------
(* Theorems about the start of the services, and their proofs.              *)
EXTENDS ServiceStart, TLAPS

USE RetriesAssumption, SelectionAssumption, DelayAssumption, PatienceAssumption

-----------------------------------------------------------------------------
(* The type invariant is inductive as it stands.                            *)

LEMMA PlanLengths ==
    /\ Len(Plan["member"]) = 2 /\ Len(Plan["streaming"]) = 6
    /\ Len(Plan["chat"]) = 3   /\ Len(Plan["gateway"]) = 2
  BY DEF Plan, MemberMain, StreamingMain, ChatMain, GatewayMain, Dependency

LEMMA PlanDomain ==
    ASSUME NEW s \in Services
    PROVE  /\ Len(Plan[s]) \in 2..6
           /\ DOMAIN Plan[s] = 1..Len(Plan[s])
  <1>1. \A p \in {"member", "streaming", "chat", "gateway"} : DOMAIN Plan[p] = 1..Len(Plan[p])
    BY DEF Plan, MemberMain, StreamingMain, ChatMain, GatewayMain, Dependency
  <1>2. QED  BY <1>1, PlanLengths DEF Services

LEMMA InitType == Init => TypeOK
  BY DEF Init, TypeOK

LEMMA NextType == TypeOK /\ [Next]_vars => TypeOK'
  <1> SUFFICES ASSUME TypeOK, [Next]_vars PROVE TypeOK'
    OBVIOUS
  <1>1. ASSUME NEW s \in Services, step[s] \in 0..6, Proceed(s) PROVE TypeOK'
    BY <1>1 DEF TypeOK, Proceed
  <1>2. ASSUME NEW s \in Services, tries[s] <= Retries,
               FailedTry(s, now) \/ FailedTry(s, now + 1)
        PROVE  TypeOK'
    BY <1>2 DEF TypeOK, FailedTry
  <1>3. ASSUME NEW s \in Services, Exit(s) PROVE TypeOK'
    BY <1>3 DEF TypeOK, Exit
  <1>4. ASSUME NEW s \in Services, Pending(s) PROVE step[s] \in 0..6
    BY <1>4, PlanDomain DEF Pending
  <1>5. CASE Tick
    BY <1>5 DEF Tick, TypeOK
  <1>6. ASSUME NEW s \in Services, Main(s) PROVE TypeOK'
    <2>1. CASE LoadConfig(s)
      <3>1. step[s] \in 0..6
        BY <2>1 DEF LoadConfig
      <3>2. QED  BY <2>1, <3>1, <1>1, <1>3 DEF LoadConfig
    <2>2. ASSUME Pending(s), RetryLoop(s) PROVE TypeOK'
      <3>1. tries[s] \in Nat
        BY DEF TypeOK
      <3>2. QED
        BY <2>2, <3>1, <1>1, <1>2, <1>3, <1>4 DEF RetryLoop
    <2>3. ASSUME Pending(s), Once(s) PROVE TypeOK'
      BY <2>3, <1>1, <1>3, <1>4 DEF Once
    <2>4. CASE NewMongoDB(s)
      BY <2>4, <1>1, <1>2, <1>3, <1>4 DEF NewMongoDB, By
    <2>5. CASE CreateGRPCClient(s)
      BY <2>5, <1>1, <1>3, <1>4 DEF CreateGRPCClient, By
    <2>6. CASE Listen(s)
      BY <2>6 DEF Listen, TypeOK
    <2>7. QED
      BY <1>6, <2>1, <2>2, <2>3, <2>4, <2>5, <2>6
      DEF Main, ConnectPostgres, ConnectRabbitMQ, CallStore,
          NewMinIOConnection, NewRedisClient, By
  <1>7. CASE UNCHANGED vars
    BY <1>7 DEF vars, TypeOK
  <1>8. QED  BY <1>5, <1>6, <1>7 DEF Next

(* Every variable of the start-up keeps its type, for any delays and any    *)
(* retry_count: in particular no loop of psql.go, rabbitmq.go or mongo.go   *)
(* makes more than retry_count + 1 attempts.                                *)
THEOREM StartTypeCorrect == Spec => []TypeOK
  BY InitType, NextType, PTL DEF Spec

-----------------------------------------------------------------------------
(* When a service works on what: the forecast of every step of its plan.    *)

\* How long after its begin a call still succeeds when what it asks for is up.
Grace == [postgres |-> Retries - 1, rabbitmq |-> Retries - 1,
          call |-> 0, minio |-> 0, redis |-> 0,
          mongo |-> (Retries + 1) * Selection, grpc |-> Patience]

ReadyAt(d) == IF d \in Stores THEN delay[d] ELSE ServesAt[d]

MemberBegins ==
    << Begin("member"), Reach(Begin("member"), delay["pg"], Retries - 1),
       MemberServesAt >>

StreamingBegins ==
    LET migrates == Reach(Begin("streaming"), delay["pg"], Retries - 1)
        stores   == Reach(migrates, delay["minio"], 0)
    IN << Begin("streaming"), migrates, migrates, stores,
          StreamingServesAt, StreamingServesAt, StreamingServesAt >>

ChatBegins ==
    LET found == Reach(Begin("chat"), delay["mongo"], (Retries + 1) * Selection)
    IN << Begin("chat"), found, Reach(found, delay["redis"], 0), ChatServesAt >>

GatewayBegins ==
    << Begin("gateway"), Reach(Begin("gateway"), MemberServesAt, Patience),
       GatewayServesAt >>

\* Begins[s][k]: when s begins with step k of its plan, or Never.
Begins == [member |-> MemberBegins, streaming |-> StreamingBegins,
           chat |-> ChatBegins, gateway |-> GatewayBegins]

Loops == {"postgres", "rabbitmq"}
Asks  == {"call", "minio", "redis"}

(* The inductive invariant.  A service in step k has begun it when it was   *)
(* to; what it still waits for was not up before the present moment; and    *)
(* its sleeps and timeouts are counted from that begin.                     *)
InStep(s, begun, by, ready) ==
    /\ now > begun => ready = Never \/ ready >= now
    /\ by \in Asks => now = begun
    /\ by \in Loops =>
          /\ tries[s] <= Retries
          /\ wake[s] = begun + tries[s] /\ now <= wake[s]
          /\ tries[s] > 0 => ready >= wake[s]
    /\ by = "mongo" =>
          /\ wake[s] = begun + tries[s] * Selection /\ wake[s] <= now
          /\ tries[s] <= Retries => now <= wake[s] + Selection
          /\ tries[s] = Retries + 1 => now = wake[s]
          /\ tries[s] > 0 => ready > wake[s]
    /\ by = "grpc" => wake[s] = begun /\ now <= begun + Patience

OnTime(s) ==
    LET begun == Begins[s][step[s]]
    IN /\ step[s] = 0 => now = 0
       /\ step[s] > 0 =>
             /\ step[s] <= Len(Plan[s]) + 1
             /\ begun # Never /\ begun <= now
             /\ step[s] > Len(Plan[s]) => now = begun
             /\ step[s] <= Len(Plan[s]) =>
                   InStep(s, begun, Plan[s][step[s]].by, ReadyAt(Plan[s][step[s]].on))

Forecast(s) ==
    /\ state[s] = "starting" => OnTime(s)
    /\ state[s] = "serving"  => ServesAt[s] # Never /\ ServesAt[s] <= now
    /\ state[s] = "exited"   => ServesAt[s] = Never

StartInv == TypeOK /\ \A s \in Services : Forecast(s)

-----------------------------------------------------------------------------
(* What is true of the forecasts.                                           *)

Moments == Nat \cup {Never}

LEMMA ReachMeans ==
    ASSUME NEW t \in Moments, NEW ready \in Moments, NEW patience \in Nat
    PROVE  LET at == Reach(t, ready, patience)
           IN /\ at \in Moments
              /\ at # Never =>
                    /\ t # Never /\ ready # Never
                    /\ t <= at /\ ready <= at /\ at <= t + patience
                    /\ at = t \/ at = ready
              /\ t # Never /\ ready # Never /\ ready <= t + patience => at # Never
  BY DEF Reach, Latest, Never, Moments

LEMMA ReachBound ==
    ASSUME NEW t \in Moments, NEW ready \in Moments, NEW patience \in Nat,
           NEW bound \in Nat, t # Never => t <= bound
    PROVE  Reach(t, ready, patience) # Never => Reach(t, ready, patience) <= bound + patience
  BY DEF Reach, Latest, Never, Moments

\* What is up already is reached at once.
LEMMA ReachAgain ==
    ASSUME NEW t \in Moments, NEW ready \in Moments,
           NEW patience \in Nat, NEW again \in Nat
    PROVE  Reach(Reach(t, ready, patience), ready, again) = Reach(t, ready, patience)
  BY DEF Reach, Latest, Never, Moments

LEMMA GraceType ==
    /\ Retries - 1 \in Nat /\ (Retries + 1) * Selection \in Nat /\ Patience \in Nat
    /\ \A by \in DOMAIN Grace : Grace[by] \in Nat
  <1>1. Retries - 1 \in Nat /\ (Retries + 1) * Selection \in Nat /\ Patience \in Nat
    OBVIOUS
  <1>2. QED  BY <1>1 DEF Grace

LEMMA DelayType ==
    ASSUME TypeOK
    PROVE  \A d \in Stores : delay[d] \in Nat
  BY DEF TypeOK

LEMMA BeginType == \A s : Begin(s) \in Moments /\ (Begin(s) # Never => Begin(s) <= 0)
  BY DEF Begin, Moments, Never

LEMMA MemberForecast ==
    ASSUME TypeOK
    PROVE  /\ MemberBegins \in [1..3 -> Moments] /\ MemberServesAt \in Moments
           /\ MemberBegins[3] = MemberServesAt
           /\ MemberServesAt # Never => MemberServesAt <= Retries - 1
           /\ \A k \in 1..2 :
                 MemberBegins[k + 1] = Reach(MemberBegins[k], ReadyAt(Plan["member"][k].on),
                                             Grace[Plan["member"][k].by])
  <1> DEFINE a == Begin("member")
             b == Reach(a, delay["pg"], Retries - 1)
             c == Reach(b, delay["redis"], 0)
  <1>1. delay["pg"] \in Moments /\ delay["redis"] \in Moments /\ a \in Moments
    BY DelayType, BeginType DEF Stores, Moments
  <1>2. b \in Moments /\ (b # Never => b <= Retries - 1)
    <2>1. b \in Moments
      BY <1>1, GraceType, ReachMeans
    <2>2. b # Never => b <= 0 + (Retries - 1)
      BY <1>1, BeginType, GraceType, ReachBound
    <2>3. QED  BY <2>1, <2>2
  <1>3. c \in Moments /\ (c # Never => c <= Retries - 1)
    <2>1. c \in Moments
      BY <1>1, <1>2, ReachMeans
    <2>2. c # Never => c <= (Retries - 1) + 0
      BY <1>1, <1>2, GraceType, ReachBound
    <2>3. QED  BY <2>1, <2>2
  <1>4. MemberServesAt = c /\ MemberBegins = <<a, b, c>>
    BY DEF MemberServesAt, MemberBegins
  <1>5. /\ Plan["member"][1] = Dependency("postgres", "pg")
        /\ Plan["member"][2] = Dependency("redis", "redis")
    BY DEF Plan, MemberMain
  <1>6. /\ b = Reach(a, ReadyAt(Plan["member"][1].on), Grace[Plan["member"][1].by])
        /\ c = Reach(b, ReadyAt(Plan["member"][2].on), Grace[Plan["member"][2].by])
    BY <1>5 DEF Dependency, Grace, ReadyAt, Stores
  <1> HIDE DEF a, b, c
  <1>7. QED  BY <1>1, <1>2, <1>3, <1>4, <1>6

LEMMA StreamingForecast ==
    ASSUME TypeOK
    PROVE  /\ StreamingBegins \in [1..7 -> Moments] /\ StreamingServesAt \in Moments
           /\ StreamingBegins[7] = StreamingServesAt
           /\ StreamingServesAt # Never => StreamingServesAt <= 2 * Retries
           /\ \A k \in 1..6 :
                 StreamingBegins[k + 1] = Reach(StreamingBegins[k],
                                                ReadyAt(Plan["streaming"][k].on),
                                                Grace[Plan["streaming"][k].by])
  <1> DEFINE a == Begin("streaming")
             b == Reach(a, delay["pg"], Retries - 1)
             c == Reach(b, delay["minio"], 0)
             d == Reach(c, delay["rabbit"], Retries - 1)
  <1>1. /\ delay["pg"] \in Moments /\ delay["minio"] \in Moments
        /\ delay["rabbit"] \in Moments /\ a \in Moments
    BY DelayType, BeginType DEF Stores, Moments
  <1>2. b \in Moments /\ (b # Never => b <= Retries - 1)
    <2>1. b \in Moments
      BY <1>1, GraceType, ReachMeans
    <2>2. b # Never => b <= 0 + (Retries - 1)
      BY <1>1, BeginType, GraceType, ReachBound
    <2>3. QED  BY <2>1, <2>2
  <1>3. c \in Moments /\ (c # Never => c <= Retries - 1)
    <2>1. c \in Moments
      BY <1>1, <1>2, ReachMeans
    <2>2. c # Never => c <= (Retries - 1) + 0
      BY <1>1, <1>2, GraceType, ReachBound
    <2>3. QED  BY <2>1, <2>2
  <1>4. d \in Moments /\ (d # Never => d <= 2 * Retries)
    <2>1. d \in Moments
      BY <1>1, <1>3, GraceType, ReachMeans
    <2>2. d # Never => d <= (Retries - 1) + (Retries - 1)
      BY <1>1, <1>3, GraceType, ReachBound
    <2>3. (Retries - 1) + (Retries - 1) <= 2 * Retries
      OBVIOUS
    <2> HIDE DEF d
    <2>4. QED  BY <2>1, <2>2, <2>3 DEF Moments, Never
  <1>5. Reach(b, delay["pg"], 0) = b /\ Reach(d, delay["rabbit"], Retries - 1) = d
        /\ Reach(d, delay["rabbit"], 0) = d
    BY <1>1, <1>3, GraceType, ReachAgain
  <1>6. StreamingServesAt = d /\ StreamingBegins = <<a, b, b, c, d, d, d>>
    BY DEF StreamingServesAt, StreamingBegins
  <1>7. /\ Plan["streaming"][1] = Dependency("postgres", "pg")
        /\ Plan["streaming"][2] = Dependency("call", "pg")
        /\ Plan["streaming"][3] = Dependency("minio", "minio")
        /\ Plan["streaming"][4] = Dependency("rabbitmq", "rabbit")
        /\ Plan["streaming"][5] = Dependency("rabbitmq", "rabbit")
        /\ Plan["streaming"][6] = Dependency("call", "rabbit")
    BY DEF Plan, StreamingMain
  <1> DEFINE After(t, k) == Reach(t, ReadyAt(Plan["streaming"][k].on),
                                  Grace[Plan["streaming"][k].by])
  <1>8. /\ After(a, 1) = b /\ After(b, 3) = c /\ After(c, 4) = d
        /\ After(b, 2) = Reach(b, delay["pg"], 0)
        /\ After(d, 5) = Reach(d, delay["rabbit"], Retries - 1)
        /\ After(d, 6) = Reach(d, delay["rabbit"], 0)
    BY <1>7 DEF Dependency, Grace, ReadyAt, Stores
  <1> HIDE DEF a, b, c, d
  <1>9. /\ After(a, 1) = b /\ After(b, 2) = b /\ After(b, 3) = c
        /\ After(c, 4) = d /\ After(d, 5) = d /\ After(d, 6) = d
    BY <1>5, <1>8
  <1>10. QED
    <2>1. \A k \in 1..6 : After(StreamingBegins[k], k) = StreamingBegins[k + 1]
      <3> HIDE DEF After
      <3>1. QED  BY <1>6, <1>9
    <2>2. QED  BY <1>1, <1>2, <1>3, <1>4, <1>6, <2>1

LEMMA ChatForecast ==
    ASSUME TypeOK
    PROVE  /\ ChatBegins \in [1..4 -> Moments] /\ ChatServesAt \in Moments
           /\ ChatBegins[4] = ChatServesAt
           /\ \A k \in 1..3 :
                 ChatBegins[k + 1] = Reach(ChatBegins[k], ReadyAt(Plan["chat"][k].on),
                                           Grace[Plan["chat"][k].by])
  <1> DEFINE a == Begin("chat")
             b == Reach(a, delay["mongo"], (Retries + 1) * Selection)
             c == Reach(b, delay["redis"], 0)
             d == Reach(c, MemberServesAt, Patience)
  <1>1. /\ delay["mongo"] \in Moments /\ delay["redis"] \in Moments
        /\ MemberServesAt \in Moments /\ a \in Moments
    BY DelayType, BeginType, MemberForecast DEF Stores, Moments
  <1>2. b \in Moments
    BY <1>1, GraceType, ReachMeans
  <1>3. c \in Moments
    BY <1>1, <1>2, ReachMeans
  <1>4. d \in Moments
    BY <1>1, <1>3, GraceType, ReachMeans
  <1>5. ChatServesAt = d /\ ChatBegins = <<a, b, c, d>>
    BY DEF ChatServesAt, ChatBegins
  <1>6. /\ Plan["chat"][1] = Dependency("mongo", "mongo")
        /\ Plan["chat"][2] = Dependency("redis", "redis")
        /\ Plan["chat"][3] = Dependency("grpc", "member")
    BY DEF Plan, ChatMain
  <1>7. /\ b = Reach(a, ReadyAt(Plan["chat"][1].on), Grace[Plan["chat"][1].by])
        /\ c = Reach(b, ReadyAt(Plan["chat"][2].on), Grace[Plan["chat"][2].by])
        /\ d = Reach(c, ReadyAt(Plan["chat"][3].on), Grace[Plan["chat"][3].by])
    BY <1>6 DEF Dependency, Grace, ReadyAt, Stores, ServesAt
  <1> HIDE DEF a, b, c, d
  <1>8. QED
    <2>1. \A k \in 1..3 : k = 1 \/ k = 2 \/ k = 3
      OBVIOUS
    <2>2. ChatBegins \in [1..4 -> Moments]
      BY <1>1, <1>2, <1>3, <1>4, <1>5
    <2>3. /\ ChatBegins[1] = a /\ ChatBegins[2] = b
          /\ ChatBegins[3] = c /\ ChatBegins[4] = d
          /\ 1 + 1 = 2 /\ 2 + 1 = 3 /\ 3 + 1 = 4
      BY <1>5
    <2>4. QED  BY <1>4, <1>5, <1>7, <2>1, <2>2, <2>3, Zenon

LEMMA GatewayForecast ==
    ASSUME TypeOK
    PROVE  /\ GatewayBegins \in [1..3 -> Moments] /\ GatewayServesAt \in Moments
           /\ GatewayBegins[3] = GatewayServesAt
           /\ \A k \in 1..2 :
                 GatewayBegins[k + 1] = Reach(GatewayBegins[k], ReadyAt(Plan["gateway"][k].on),
                                              Grace[Plan["gateway"][k].by])
  <1> DEFINE a == Begin("gateway")
             b == Reach(a, MemberServesAt, Patience)
             c == Reach(b, StreamingServesAt, Patience)
  <1>1. a \in Moments /\ MemberServesAt \in Moments /\ StreamingServesAt \in Moments
    BY BeginType, MemberForecast, StreamingForecast
  <1>2. b \in Moments
    BY <1>1, GraceType, ReachMeans
  <1>3. c \in Moments
    BY <1>1, <1>2, GraceType, ReachMeans
  <1>4. GatewayServesAt = c /\ GatewayBegins = <<a, b, c>>
    BY DEF GatewayServesAt, GatewayBegins
  <1>5. /\ Plan["gateway"][1] = Dependency("grpc", "member")
        /\ Plan["gateway"][2] = Dependency("grpc", "streaming")
    BY DEF Plan, GatewayMain
  <1>6. /\ b = Reach(a, ReadyAt(Plan["gateway"][1].on), Grace[Plan["gateway"][1].by])
        /\ c = Reach(b, ReadyAt(Plan["gateway"][2].on), Grace[Plan["gateway"][2].by])
    BY <1>5 DEF Dependency, Grace, ReadyAt, Stores, ServesAt
  <1> HIDE DEF a, b, c
  <1>7. QED  BY <1>1, <1>2, <1>3, <1>4, <1>6

-----------------------------------------------------------------------------
(* The same for all services.                                               *)

LEMMA PlanFacts ==
    ASSUME NEW s \in Services, NEW k \in 1..Len(Plan[s])
    PROVE  /\ Plan[s][k].by \in DOMAIN Grace
           /\ Plan[s][k].by # "grpc" => Plan[s][k].on \in Stores
           /\ Plan[s][k].by = "grpc" =>
                 /\ Plan[s][k].on \in {"member", "streaming"}
                 /\ s \in {"chat", "gateway"}
           /\ Plan[s][k].by = "mongo" => s = "chat"
  <1>1. DOMAIN Grace = {"postgres", "rabbitmq", "call", "minio", "redis", "mongo", "grpc"}
    BY DEF Grace
  <1>2. CASE s = "member"
    <2>1. k \in 1..2
      BY <1>2, PlanLengths
    <2>2. QED  BY <1>1, <1>2, <2>1 DEF Plan, MemberMain, Dependency, Stores
  <1>3. CASE s = "streaming"
    <2>1. k \in 1..6
      BY <1>3, PlanLengths
    <2>2. QED  BY <1>1, <1>3, <2>1 DEF Plan, StreamingMain, Dependency, Stores
  <1>4. CASE s = "chat"
    <2>1. k \in 1..3
      BY <1>4, PlanLengths
    <2>2. QED  BY <1>1, <1>4, <2>1 DEF Plan, ChatMain, Dependency, Stores
  <1>5. CASE s = "gateway"
    <2>1. k \in 1..2
      BY <1>5, PlanLengths
    <2>2. QED  BY <1>1, <1>5, <2>1 DEF Plan, GatewayMain, Dependency, Stores
  <1>6. QED  BY <1>2, <1>3, <1>4, <1>5 DEF Services

LEMMA Forecasts ==
    ASSUME TypeOK, NEW s \in Services
    PROVE  /\ Begins[s][1] = Begin(s)
           /\ Begins[s][Len(Plan[s]) + 1] = ServesAt[s]
           /\ \A k \in 1..(Len(Plan[s]) + 1) : Begins[s][k] \in Moments
           /\ \A k \in 1..Len(Plan[s]) :
                 Begins[s][k + 1] = Reach(Begins[s][k], ReadyAt(Plan[s][k].on),
                                          Grace[Plan[s][k].by])
  <1>1. CASE s = "member"
    <2>1. /\ Begins[s] = MemberBegins /\ ServesAt[s] = MemberServesAt
          /\ MemberBegins[1] = Begin("member") /\ Len(Plan[s]) = 2
      BY <1>1, PlanLengths DEF Begins, MemberBegins, ServesAt
    <2>2. QED  BY <1>1, <2>1, MemberForecast
  <1>2. CASE s = "streaming"
    <2>1. /\ Begins[s] = StreamingBegins /\ ServesAt[s] = StreamingServesAt
          /\ StreamingBegins[1] = Begin("streaming") /\ Len(Plan[s]) = 6
      BY <1>2, PlanLengths DEF Begins, StreamingBegins, ServesAt
    <2>2. QED  BY <1>2, <2>1, StreamingForecast
  <1>3. CASE s = "chat"
    <2>1. /\ Begins[s] = ChatBegins /\ ServesAt[s] = ChatServesAt
          /\ ChatBegins[1] = Begin("chat") /\ Len(Plan[s]) = 3
      BY <1>3, PlanLengths DEF Begins, ChatBegins, ServesAt
    <2>2. QED  BY <1>3, <2>1, ChatForecast
  <1>4. CASE s = "gateway"
    <2>1. /\ Begins[s] = GatewayBegins /\ ServesAt[s] = GatewayServesAt
          /\ GatewayBegins[1] = Begin("gateway") /\ Len(Plan[s]) = 2
      BY <1>4, PlanLengths DEF Begins, GatewayBegins, ServesAt
    <2>2. QED  BY <1>4, <2>1, GatewayForecast
  <1>5. QED  BY <1>1, <1>2, <1>3, <1>4 DEF Services

LEMMA ReadyType ==
    ASSUME TypeOK
    PROVE  /\ \A s \in Services : ServesAt[s] \in Moments
           /\ \A d \in Stores \cup Services : ReadyAt(d) \in Moments
  <1>1. \A s \in Services : ServesAt[s] \in Moments
    BY MemberForecast, StreamingForecast, ChatForecast, GatewayForecast
    DEF ServesAt, Services
  <1>2. QED  BY <1>1, DelayType DEF ReadyAt, Moments

\* What a step of the forecast says about the next one.
LEMMA StepMeans ==
    ASSUME TypeOK, NEW s \in Services, NEW k \in 1..Len(Plan[s])
    PROVE  LET begun == Begins[s][k]
               next  == Begins[s][k + 1]
               ready == ReadyAt(Plan[s][k].on)
               grace == Grace[Plan[s][k].by]
           IN /\ begun \in Moments /\ next \in Moments
              /\ ready \in Moments /\ grace \in Nat
              /\ next # Never =>
                    /\ begun # Never /\ ready # Never
                    /\ begun <= next /\ ready <= next /\ next <= begun + grace
                    /\ next = begun \/ next = ready
              /\ begun # Never /\ ready # Never /\ ready <= begun + grace => next # Never
  <1> DEFINE begun == Begins[s][k]
             next  == Begins[s][k + 1]
             ready == ReadyAt(Plan[s][k].on)
             grace == Grace[Plan[s][k].by]
  <1>1. Len(Plan[s]) \in Nat /\ k + 1 \in 1..(Len(Plan[s]) + 1) /\ k \in 1..(Len(Plan[s]) + 1)
    BY PlanDomain
  <1>2. Plan[s][k].by \in DOMAIN Grace /\ Plan[s][k].on \in Stores \cup Services
    BY PlanFacts DEF Services
  <1>3. begun \in Moments /\ next \in Moments /\ ready \in Moments /\ grace \in Nat
    BY <1>1, <1>2, Forecasts, ReadyType, GraceType
  <1>4. next = Reach(begun, ready, grace)
    BY Forecasts
  <1> HIDE DEF begun, next, ready, grace
  <1>5. /\ next # Never =>
              /\ begun # Never /\ ready # Never
              /\ begun <= next /\ ready <= next /\ next <= begun + grace
              /\ next = begun \/ next = ready
        /\ begun # Never /\ ready # Never /\ ready <= begun + grace => next # Never
    BY <1>3, <1>4, ReachMeans
  <1>6. QED  BY <1>3, <1>5 DEF begun, next, ready, grace

\* A service serves when its last step is done, and not before any other.
LEMMA ServesLast ==
    ASSUME TypeOK, NEW s \in Services, NEW k \in 1..(Len(Plan[s]) + 1), ServesAt[s] # Never
    PROVE  Begins[s][k] # Never /\ Begins[s][k] <= ServesAt[s]
  <1> DEFINE B(j) == Begins[s][j]
             Monotone(j) == B(j + 1) # Never => B(j) # Never /\ B(j) <= B(j + 1)
  <1>1. \A j \in 1..Len(Plan[s]) : Monotone(j)
    BY StepMeans
  <1>2. B(Len(Plan[s]) + 1) = ServesAt[s]
    BY Forecasts
  <1>3. \A j \in 1..(Len(Plan[s]) + 1) : B(j) = Never \/ B(j) \in Nat
    BY Forecasts DEF Moments
  <1>4. Len(Plan[s]) \in {2, 3, 6}
    BY PlanLengths DEF Services
  <1> HIDE DEF B
  <1>5. ASSUME NEW n \in {2, 3, 6}, Len(Plan[s]) = n
        PROVE  B(k) # Never /\ B(k) <= ServesAt[s]
    <2>1. CASE n = 2
      <3>1. Monotone(1) /\ Monotone(2) /\ B(3) = ServesAt[s]
        BY <1>1, <1>2, <1>5, <2>1
      <3>2. k \in {1, 2, 3} /\ \A j \in 1..3 : B(j) = Never \/ B(j) \in Nat
        BY <1>3, <1>5, <2>1
      <3>3. QED  BY <3>1, <3>2
    <2>2. CASE n = 3
      <3>1. Monotone(1) /\ Monotone(2) /\ Monotone(3) /\ B(4) = ServesAt[s]
        BY <1>1, <1>2, <1>5, <2>2
      <3>2. k \in {1, 2, 3, 4} /\ \A j \in 1..4 : B(j) = Never \/ B(j) \in Nat
        BY <1>3, <1>5, <2>2
      <3>3. QED  BY <3>1, <3>2
    <2>3. CASE n = 6
      <3>1. /\ Monotone(1) /\ Monotone(2) /\ Monotone(3) /\ Monotone(4)
            /\ Monotone(5) /\ Monotone(6) /\ B(7) = ServesAt[s]
        BY <1>1, <1>2, <1>5, <2>3
      <3>2. k \in {1, 2, 3, 4, 5, 6, 7} /\ \A j \in 1..7 : B(j) = Never \/ B(j) \in Nat
        BY <1>3, <1>5, <2>3
      <3>3. QED  BY <3>1, <3>2
    <2>4. QED  BY <2>1, <2>2, <2>3
  <1>6. QED  BY <1>4, <1>5 DEF B

\* Nobody who is waited for over gRPC is later than the patience allows.
LEMMA ServesEarly ==
    ASSUME TypeOK, NEW d \in {"member", "streaming"}, ServesAt[d] # Never
    PROVE  ServesAt[d] < Patience
  <1>1. ServesAt[d] \in Nat
    BY ReadyType DEF Services, Moments
  <1>2. ServesAt[d] <= 2 * Retries
    <2>1. CASE d = "member"
      BY <1>1, <2>1, MemberForecast DEF ServesAt
    <2>2. CASE d = "streaming"
      BY <2>2, StreamingForecast DEF ServesAt
    <2>3. QED  BY <2>1, <2>2
  <1>3. QED  BY <1>1, <1>2

-----------------------------------------------------------------------------
(* The steps.                                                               *)

LEMMA SameForecasts ==
    ASSUME UNCHANGED <<delay, config>>
    PROVE  Begins' = Begins /\ ServesAt' = ServesAt /\ \A d : ReadyAt(d)' = ReadyAt(d)
  <1>1. delay' = delay /\ config' = config
    OBVIOUS
  <1>2. \A s : Begin(s)' = Begin(s)
    BY <1>1 DEF Begin
  <1>3. MemberServesAt' = MemberServesAt /\ StreamingServesAt' = StreamingServesAt
    BY <1>1, <1>2 DEF MemberServesAt, StreamingServesAt
  <1>4. ChatServesAt' = ChatServesAt /\ GatewayServesAt' = GatewayServesAt
    BY <1>1, <1>2, <1>3 DEF ChatServesAt, GatewayServesAt
  <1>5. ServesAt' = ServesAt
    BY <1>3, <1>4 DEF ServesAt
  <1>6. /\ MemberBegins' = MemberBegins /\ StreamingBegins' = StreamingBegins
        /\ ChatBegins' = ChatBegins /\ GatewayBegins' = GatewayBegins
    BY <1>1, <1>2, <1>3, <1>4
    DEF MemberBegins, StreamingBegins, ChatBegins, GatewayBegins
  <1>7. QED  BY <1>1, <1>5, <1>6 DEF Begins, ReadyAt

\* What another service does within one moment changes nothing for s.
LEMMA OthersKept ==
    ASSUME NEW s, Forecast(s), UNCHANGED <<now, delay, config>>,
           state'[s] = state[s], step'[s] = step[s],
           tries'[s] = tries[s], wake'[s] = wake[s]
    PROVE  Forecast(s)'
  <1>1. Begins' = Begins /\ ServesAt' = ServesAt /\ \A d : ReadyAt(d)' = ReadyAt(d)
    BY SameForecasts
  <1>2. \A begun, by, ready : InStep(s, begun, by, ready)' <=> InStep(s, begun, by, ready)
    BY DEF InStep
  <1>3. OnTime(s)' <=> OnTime(s)
    BY <1>1, <1>2 DEF OnTime
  <1>4. QED  BY <1>1, <1>3 DEF Forecast

LEMMA ProceedKept ==
    ASSUME StartInv, NEW s \in Services, state[s] = "starting",
           step[s] \in 0..Len(Plan[s]), Begins[s][step[s] + 1] = now, Proceed(s)
    PROVE  \A w \in Services : Forecast(w)'
  <1>0. /\ TypeOK /\ now \in Nat /\ step \in [Services -> 0..7]
        /\ tries \in [Services -> 0..(Retries + 1)] /\ wake \in [Services -> Nat]
    BY DEF StartInv, TypeOK
  <1>1. ASSUME NEW w \in Services, w # s PROVE Forecast(w)'
    BY <1>0, <1>1, OthersKept DEF StartInv, Proceed
  <1>2. Forecast(s)'
    <2>1. /\ now' = now /\ state'[s] = "starting" /\ step'[s] = step[s] + 1
          /\ tries'[s] = 0 /\ wake'[s] = now
      BY <1>0 DEF Proceed
    <2>2. Begins' = Begins /\ \A d : ReadyAt(d)' = ReadyAt(d)
      BY SameForecasts DEF Proceed
    <2>3. Len(Plan[s]) \in Nat
      BY PlanDomain
    <2>4. \A by, ready : InStep(s, now, by, ready)'
      BY <1>0, <2>1 DEF InStep, Asks, Loops
    <2>5. now # Never
      BY <1>0 DEF Never
    <2>6. OnTime(s)'
      BY <1>0, <2>1, <2>2, <2>3, <2>4, <2>5 DEF OnTime
    <2>7. QED  BY <2>1, <2>6 DEF Forecast
  <1>3. QED  BY <1>1, <1>2

LEMMA ExitKept ==
    ASSUME StartInv, NEW s \in Services, step[s] \in 0..Len(Plan[s]),
           Begins[s][step[s] + 1] = Never, Exit(s)
    PROVE  \A w \in Services : Forecast(w)'
  <1>0. TypeOK /\ state \in [Services -> {"starting", "serving", "exited"}]
    BY DEF StartInv, TypeOK
  <1>1. ASSUME NEW w \in Services, w # s PROVE Forecast(w)'
    BY <1>0, <1>1, OthersKept DEF StartInv, Exit
  <1>2. Forecast(s)'
    <2>1. Len(Plan[s]) \in Nat
      BY PlanDomain
    <2>2. ServesAt[s] = Never
      BY <1>0, <2>1, ServesLast
    <2>3. state'[s] = "exited" /\ ServesAt' = ServesAt
      BY <1>0, SameForecasts DEF Exit
    <2>4. QED  BY <2>2, <2>3 DEF Forecast
  <1>3. QED  BY <1>1, <1>2

LEMMA FailedKept ==
    ASSUME StartInv, NEW s \in Services, Pending(s), NEW next, FailedTry(s, next),
           InStep(s, Begins[s][step[s]], Plan[s][step[s]].by,
                  ReadyAt(Plan[s][step[s]].on))'
    PROVE  \A w \in Services : Forecast(w)'
  <1>0. /\ TypeOK /\ tries \in [Services -> 0..(Retries + 1)] /\ wake \in [Services -> Nat]
    BY DEF StartInv, TypeOK
  <1>1. ASSUME NEW w \in Services, w # s PROVE Forecast(w)'
    BY <1>0, <1>1, OthersKept DEF StartInv, FailedTry
  <1>2. Forecast(s)'
    <2>1. Begins' = Begins /\ \A d : ReadyAt(d)' = ReadyAt(d)
      BY SameForecasts DEF FailedTry
    <2>2. state[s] = "starting" /\ OnTime(s) /\ step[s] \in 1..Len(Plan[s])
      BY PlanDomain DEF StartInv, Forecast, Pending
    <2>3. now' = now /\ step' = step /\ state' = state
      BY DEF FailedTry
    <2>4. OnTime(s)'
      <3>1. Len(Plan[s]) \in Nat /\ step[s] > 0 /\ step[s] <= Len(Plan[s])
        BY <2>2, PlanDomain
      <3>2. QED  BY <2>1, <2>2, <2>3, <3>1 DEF OnTime
    <2>5. QED  BY <2>2, <2>3, <2>4 DEF Forecast
  <1>3. QED  BY <1>1, <1>2

\* A service in the middle of its plan: the begin of its step, what it waits
\* for and the forecast of the next step.
LEMMA Situation ==
    ASSUME StartInv, NEW s \in Services, Pending(s)
    PROVE  LET by    == Plan[s][step[s]].by
               begun == Begins[s][step[s]]
               next  == Begins[s][step[s] + 1]
               ready == ReadyAt(Plan[s][step[s]].on)
           IN /\ step[s] \in 0..Len(Plan[s]) /\ step[s] \in 1..Len(Plan[s])
              /\ now \in Nat /\ tries[s] \in 0..(Retries + 1) /\ wake[s] \in Nat
              /\ InStep(s, begun, by, ready)
              /\ begun \in Nat /\ begun <= now
              /\ next = Never \/ next \in Nat
              /\ ready = Never \/ ready \in Nat
              /\ Grace[by] \in Nat
              /\ next # Never =>
                    /\ ready # Never /\ begun <= next /\ ready <= next
                    /\ next <= begun + Grace[by]
                    /\ next = begun \/ next = ready
              /\ ready # Never /\ ready <= begun + Grace[by] => next # Never
              /\ by # "grpc" => ready # Never /\ (Reachable(s) <=> ready <= now)
              /\ by = "grpc" =>
                    /\ Reachable(s) => ready # Never /\ ready <= now
                    /\ ready # Never => ready < Patience
  <1> DEFINE k     == step[s]
             by    == Plan[s][k].by
             begun == Begins[s][k]
             ready == ReadyAt(Plan[s][k].on)
  <1>0. TypeOK /\ OnTime(s) /\ state[s] = "starting"
    BY DEF StartInv, Forecast, Pending
  <1>1. k \in 1..Len(Plan[s]) /\ Len(Plan[s]) \in Nat
    BY PlanDomain DEF Pending
  <1>2. now \in Nat /\ tries[s] \in 0..(Retries + 1) /\ wake[s] \in Nat
    BY <1>0 DEF TypeOK
  <1>3. k > 0 /\ k <= Len(Plan[s]) /\ k \in 0..Len(Plan[s])
    BY <1>1
  <1>4. begun # Never /\ begun <= now /\ InStep(s, begun, by, ready)
    BY <1>0, <1>3 DEF OnTime
  <1>5. begun \in Nat
    BY <1>0, <1>1, <1>4, StepMeans DEF Moments
  <1>6. by # "grpc" => ready # Never /\ (Reachable(s) <=> ready <= now)
    <2>1. SUFFICES ASSUME by # "grpc"
                   PROVE  ready # Never /\ (Reachable(s) <=> ready <= now)
      OBVIOUS
    <2>2. Plan[s][k].on \in Stores
      BY <1>1, <2>1, PlanFacts
    <2>3. ready = delay[Plan[s][k].on] /\ ready \in Nat
      BY <1>0, <2>2, DelayType DEF ReadyAt
    <2>4. Reachable(s) <=> delay[Plan[s][k].on] <= now
      BY <2>2 DEF Reachable, Up
    <2>5. QED  BY <2>3, <2>4 DEF Never
  <1>7. by = "grpc" => /\ Reachable(s) => ready # Never /\ ready <= now
                       /\ ready # Never => ready < Patience
    <2>1. SUFFICES ASSUME by = "grpc"
                   PROVE  /\ Reachable(s) => ready # Never /\ ready <= now
                          /\ ready # Never => ready < Patience
      OBVIOUS
    <2> DEFINE d == Plan[s][k].on
    <2>2. d \in {"member", "streaming"}
      BY <1>1, <2>1, PlanFacts
    <2>3. d \notin Stores /\ d \in Services
      BY <2>2 DEF Stores, Services
    <2>4. ready = ServesAt[d] /\ (Reachable(s) <=> state[d] = "serving")
      BY <2>3 DEF ReadyAt, Reachable, Up
    <2>5. Forecast(d)
      BY <2>3 DEF StartInv
    <2>6. ServesAt[d] # Never => ServesAt[d] < Patience
      BY <1>0, <2>2, ServesEarly
    <2> HIDE DEF d
    <2>7. QED  BY <2>4, <2>5, <2>6 DEF Forecast
  <1>8. QED
    BY <1>0, <1>1, <1>2, <1>3, <1>4, <1>5, <1>6, <1>7, StepMeans DEF Moments

LEMMA LoadConfigKept ==
    ASSUME StartInv, NEW s \in Services, LoadConfig(s)
    PROVE  \A w \in Services : Forecast(w)'
  <1>1. state[s] = "starting" /\ step[s] = 0 /\ TypeOK
    BY DEF LoadConfig, StartInv
  <1>2. now = 0
    BY <1>1 DEF StartInv, Forecast, OnTime
  <1>3. Begins[s][step[s] + 1] = Begin(s) /\ step[s] \in 0..Len(Plan[s])
    BY <1>1, Forecasts, PlanDomain
  <1>4. CASE s \in config
    BY <1>1, <1>2, <1>3, <1>4, ProceedKept DEF LoadConfig, Begin
  <1>5. CASE s \notin config
    BY <1>1, <1>3, <1>5, ExitKept DEF LoadConfig, Begin
  <1>6. QED  BY <1>4, <1>5

LEMMA OnceKept ==
    ASSUME StartInv, NEW s \in Services, By(s, Asks), Once(s)
    PROVE  \A w \in Services : Forecast(w)'
  <1> DEFINE by    == Plan[s][step[s]].by
             begun == Begins[s][step[s]]
             next  == Begins[s][step[s] + 1]
             ready == ReadyAt(Plan[s][step[s]].on)
  <1>1. Pending(s) /\ by \in Asks /\ by # "grpc" /\ Grace[by] = 0
    BY DEF By, Asks, Grace
  <1>2. /\ now = begun /\ begun \in Nat /\ ready \in Nat
        /\ Reachable(s) <=> ready <= now
        /\ next = Never \/ next \in Nat
        /\ next # Never => begun <= next /\ ready <= next /\ next <= begun + 0
        /\ ready <= begun + 0 => next # Never
    <2>1. InStep(s, begun, by, ready)
      BY <1>1, Situation
    <2>2. now = begun
      BY <1>1, <2>1 DEF InStep
    <2>3. QED  BY <1>1, <2>2, Situation
  <1>3. CASE Reachable(s)
    <2>1. next = now
      <3> HIDE DEF by, begun, next, ready
      <3>1. QED  BY <1>2, <1>3 DEF Never
    <2>2. QED
      BY <1>1, <1>3, <2>1, Situation, ProceedKept DEF Once, Pending
  <1>4. CASE ~Reachable(s)
    <2>1. next = Never
      <3> HIDE DEF by, begun, next, ready
      <3>1. QED  BY <1>2, <1>4 DEF Never
    <2>2. QED  BY <1>1, <1>4, <2>1, Situation, ExitKept DEF Once
  <1>5. QED  BY <1>3, <1>4

LEMMA RetryLoopKept ==
    ASSUME StartInv, NEW s \in Services, By(s, Loops), RetryLoop(s)
    PROVE  \A w \in Services : Forecast(w)'
  <1> DEFINE by    == Plan[s][step[s]].by
             begun == Begins[s][step[s]]
             next  == Begins[s][step[s] + 1]
             ready == ReadyAt(Plan[s][step[s]].on)
  <1>1. /\ Pending(s) /\ by \in Loops /\ Grace[by] = Retries - 1
        /\ by # "grpc" /\ by # "mongo" /\ by \notin Asks
    BY DEF By, Loops, Asks, Grace
  <1>2. /\ now \in Nat /\ begun \in Nat /\ begun <= now /\ ready \in Nat
        /\ tries[s] \in Nat /\ tries[s] <= Retries /\ wake[s] = now
        /\ wake[s] = begun + tries[s] /\ (tries[s] > 0 => ready >= now)
        /\ Reachable(s) <=> ready <= now
        /\ next = Never \/ next \in Nat
        /\ next # Never => begun <= next /\ ready <= next
                           /\ next <= begun + (Retries - 1)
                           /\ (next = begun \/ next = ready)
        /\ ready <= begun + (Retries - 1) => next # Never
    <2>1. InStep(s, begun, by, ready) /\ wake[s] <= now
      BY <1>1, Situation DEF RetryLoop
    <2>2. /\ tries[s] <= Retries /\ wake[s] = begun + tries[s] /\ now <= wake[s]
          /\ tries[s] > 0 => ready >= wake[s]
      BY <1>1, <2>1 DEF InStep
    <2>3. ready # Never /\ wake[s] \in Nat /\ now \in Nat
      BY <1>1, Situation
    <2>4. wake[s] = now
      BY <2>1, <2>2, <2>3
    <2>5. QED  BY <1>1, <2>2, <2>3, <2>4, Situation
  <1>3. CASE tries[s] < Retries /\ Reachable(s) /\ Proceed(s)
    <2>1. next = now
      <3> HIDE DEF by, begun, next, ready
      <3>1. QED  BY <1>2, <1>3 DEF Never
    <2>2. QED  BY <1>1, <1>3, <2>1, Situation, ProceedKept DEF Pending
  <1>4. CASE tries[s] < Retries /\ ~Reachable(s) /\ FailedTry(s, now + 1)
    <2>1. now' = now /\ tries'[s] = tries[s] + 1 /\ wake'[s] = now + 1
      BY <1>4 DEF FailedTry, StartInv, TypeOK
    <2>2. /\ Plan[s][step'[s]].by = by /\ Begins[s][step[s]]' = begun
          /\ ReadyAt(Plan[s][step[s]].on)' = ready
      BY <1>4, SameForecasts DEF FailedTry
    <2>3. /\ now' > begun => ready >= now'
          /\ tries'[s] <= Retries /\ wake'[s] = begun + tries'[s] /\ now' <= wake'[s]
          /\ ready >= wake'[s]
      <3> HIDE DEF by, begun, next, ready
      <3>1. ready > now
        BY <1>2, <1>4
      <3>2. ready >= now + 1
        BY <1>2, <3>1
      <3>3. tries[s] + 1 <= Retries
        BY <1>2, <1>4
      <3>4. now + 1 = begun + (tries[s] + 1)
        BY <1>2
      <3>5. /\ ready >= now + 1 /\ tries[s] + 1 <= Retries
            /\ now + 1 = begun + (tries[s] + 1) /\ now <= now + 1
            /\ now > begun => ready >= now
        BY <1>2, <3>1, <3>2, <3>3, <3>4
      <3>6. QED  BY <2>1, <3>5
    <2>4. InStep(s, begun, by, ready)'
      BY <1>1, <2>2, <2>3, <1>4 DEF InStep, FailedTry
    <2>5. QED  BY <1>1, <1>4, <2>4, FailedKept
  <1>5. CASE tries[s] = Retries /\ Exit(s)
    <2>1. next = Never
      <3> HIDE DEF by, begun, next, ready
      <3>1. QED  BY <1>2, <1>5 DEF Never
    <2>2. QED  BY <1>1, <1>5, <2>1, Situation, ExitKept
  <1>6. QED  BY <1>3, <1>4, <1>5 DEF RetryLoop

LEMMA Selections ==
    ASSUME NEW n \in Nat
    PROVE  /\ (n + 1) * Selection = n * Selection + Selection
           /\ n * Selection \in Nat
           /\ n <= Retries => (n + 1) * Selection <= (Retries + 1) * Selection
  <1>1. (n + 1) * Selection = n * Selection + Selection /\ n * Selection \in Nat
    OBVIOUS
  <1>2. ASSUME n <= Retries PROVE (n + 1) * Selection <= (Retries + 1) * Selection
    <2>1. Retries - n \in Nat /\ Selection \in Nat
      BY <1>2
    <2>2. (Retries - n) * Selection \in Nat
      BY <2>1
    <2>3. (Retries + 1) * Selection = (n + 1) * Selection + (Retries - n) * Selection
      OBVIOUS
    <2>4. (n + 1) * Selection \in Nat
      OBVIOUS
    <2>5. QED  BY <2>2, <2>3, <2>4
  <1>3. QED  BY <1>1, <1>2

LEMMA MongoKept ==
    ASSUME StartInv, NEW s \in Services, NewMongoDB(s)
    PROVE  \A w \in Services : Forecast(w)'
  <1> DEFINE by    == Plan[s][step[s]].by
             begun == Begins[s][step[s]]
             next  == Begins[s][step[s] + 1]
             ready == ReadyAt(Plan[s][step[s]].on)
             grace == (Retries + 1) * Selection
  <1>1. /\ Pending(s) /\ by = "mongo" /\ Grace[by] = grace
        /\ by # "grpc" /\ by \notin Loops /\ by \notin Asks
    BY DEF NewMongoDB, By, Loops, Asks, Grace
  <1>2. /\ now \in Nat /\ begun \in Nat /\ begun <= now /\ ready \in Nat
        /\ tries[s] \in Nat /\ wake[s] \in Nat /\ grace \in Nat
        /\ Reachable(s) <=> ready <= now
        /\ next = Never \/ next \in Nat
        /\ next # Never => begun <= next /\ ready <= next
                           /\ next <= begun + grace
                           /\ (next = begun \/ next = ready)
        /\ ready <= begun + grace => next # Never
    BY <1>1, Situation
  <1>3. /\ now > begun => ready >= now
        /\ wake[s] = begun + tries[s] * Selection /\ wake[s] <= now
        /\ tries[s] <= Retries => now <= wake[s] + Selection
        /\ tries[s] = Retries + 1 => now = wake[s]
        /\ tries[s] > 0 => ready > wake[s]
    <2>1. InStep(s, begun, by, ready) /\ ready # Never
      BY <1>1, Situation
    <2>2. QED  BY <1>1, <2>1 DEF InStep
  <1>4. /\ (tries[s] + 1) * Selection = tries[s] * Selection + Selection
        /\ tries[s] * Selection \in Nat
        /\ tries[s] <= Retries => (tries[s] + 1) * Selection <= grace
    BY <1>2, Selections
  <1>5. CASE tries[s] <= Retries /\ Reachable(s) /\ Proceed(s)
    <2>1. now <= begun + grace
      <3> HIDE DEF by, begun, next, ready, grace
      <3>1. QED  BY <1>2, <1>3, <1>4, <1>5
    <2>2. next = now
      <3> HIDE DEF by, begun, next, ready, grace
      <3>1. QED  BY <1>2, <1>3, <1>5, <2>1 DEF Never
    <2>3. QED  BY <1>1, <1>5, <2>2, Situation, ProceedKept DEF Pending
  <1>6. CASE /\ tries[s] <= Retries /\ ~Reachable(s)
             /\ now >= wake[s] + Selection /\ FailedTry(s, now)
    <2>1. now' = now /\ tries'[s] = tries[s] + 1 /\ wake'[s] = now
      BY <1>6 DEF FailedTry, StartInv, TypeOK
    <2>2. /\ Plan[s][step'[s]].by = by /\ Begins[s][step[s]]' = begun
          /\ ReadyAt(Plan[s][step[s]].on)' = ready
      BY <1>6, SameForecasts DEF FailedTry
    <2>3. /\ now > begun => ready >= now
          /\ now = begun + (tries[s] + 1) * Selection
          /\ ready > now
      <3> HIDE DEF by, begun, next, ready, grace
      <3>1. now = wake[s] + Selection
        BY <1>2, <1>3, <1>6
      <3>2. QED  BY <1>2, <1>3, <1>4, <1>6, <3>1
    <2>4. /\ now' > begun => ready >= now'
          /\ wake'[s] = begun + tries'[s] * Selection /\ wake'[s] <= now'
          /\ now' <= wake'[s] + Selection /\ now' = wake'[s]
          /\ ready > wake'[s]
      <3> HIDE DEF by, begun, next, ready, grace
      <3>1. now <= now + Selection /\ now <= now
        BY <1>2
      <3>2. QED  BY <2>1, <2>3, <3>1
    <2>5. InStep(s, begun, by, ready)'
      BY <1>1, <2>2, <2>4, <1>6 DEF InStep, FailedTry
    <2>6. QED  BY <1>1, <1>6, <2>5, FailedKept
  <1>7. CASE tries[s] = Retries + 1 /\ Exit(s)
    <2>1. next = Never
      <3> HIDE DEF by, begun, next, ready
      <3>1. ready > begun + grace
        BY <1>2, <1>3, <1>7
      <3> HIDE DEF grace
      <3>2. QED  BY <1>2, <3>1 DEF Never
    <2>2. QED  BY <1>1, <1>7, <2>1, Situation, ExitKept
  <1>8. QED  BY <1>5, <1>6, <1>7 DEF NewMongoDB

LEMMA GRPCKept ==
    ASSUME StartInv, NEW s \in Services, CreateGRPCClient(s)
    PROVE  \A w \in Services : Forecast(w)'
  <1> DEFINE by    == Plan[s][step[s]].by
             begun == Begins[s][step[s]]
             next  == Begins[s][step[s] + 1]
             ready == ReadyAt(Plan[s][step[s]].on)
  <1>1. Pending(s) /\ by = "grpc" /\ Grace[by] = Patience
    BY DEF CreateGRPCClient, By, Grace
  <1>2. /\ now \in Nat /\ begun \in Nat /\ begun <= now
        /\ ready = Never \/ ready \in Nat
        /\ Reachable(s) => ready # Never /\ ready <= now
        /\ ready # Never => ready < Patience
        /\ next = Never \/ next \in Nat
        /\ next # Never => /\ ready # Never /\ begun <= next /\ ready <= next
                           /\ next <= begun + Patience
                           /\ next = begun \/ next = ready
        /\ ready # Never /\ ready <= begun + Patience => next # Never
    BY <1>1, Situation
  <1>3. /\ now > begun => ready = Never \/ ready >= now
        /\ wake[s] = begun /\ now <= begun + Patience
    <2>1. InStep(s, begun, by, ready)
      BY <1>1, Situation
    <2>2. QED  BY <1>1, <2>1 DEF InStep
  <1>4. CASE Reachable(s) /\ Proceed(s)
    <2>1. next = now
      <3> HIDE DEF by, begun, next, ready
      <3>1. QED  BY <1>2, <1>3, <1>4 DEF Never
    <2>2. QED  BY <1>1, <1>4, <2>1, Situation, ProceedKept DEF Pending
  <1>5. CASE now >= wake[s] + Patience /\ Exit(s)
    <2>1. next = Never
      <3> HIDE DEF by, begun, next, ready
      <3>1. now > begun /\ now >= Patience
        BY <1>2, <1>3, <1>5
      <3>2. ready = Never
        BY <1>2, <1>3, <3>1
      <3>3. QED  BY <1>2, <3>2
    <2>2. QED  BY <1>1, <1>5, <2>1, Situation, ExitKept
  <1>6. QED  BY <1>4, <1>5 DEF CreateGRPCClient

LEMMA ListenKept ==
    ASSUME StartInv, NEW s \in Services, Listen(s)
    PROVE  \A w \in Services : Forecast(w)'
  <1>0. /\ TypeOK /\ state \in [Services -> {"starting", "serving", "exited"}]
        /\ step[s] \in 0..7 /\ now \in Nat
    BY DEF StartInv, TypeOK
  <1>1. ASSUME NEW w \in Services, w # s PROVE Forecast(w)'
    BY <1>0, <1>1, OthersKept DEF StartInv, Listen
  <1>2. Forecast(s)'
    <2>1. Len(Plan[s]) \in Nat
      BY PlanDomain
    <2>2. OnTime(s) /\ step[s] > Len(Plan[s])
      BY DEF Listen, StartInv, Forecast
    <2>3. step[s] = Len(Plan[s]) + 1 /\ Begins[s][step[s]] = now
      BY <1>0, <2>1, <2>2 DEF OnTime
    <2>4. ServesAt[s] = now
      BY <1>0, <2>3, Forecasts
    <2>5. state'[s] = "serving" /\ ServesAt' = ServesAt /\ now' = now
      BY <1>0, SameForecasts DEF Listen
    <2>6. QED  BY <1>0, <2>4, <2>5 DEF Forecast, Never
  <1>3. QED  BY <1>1, <1>2

\* While s sleeps or waits, what it waits for is not up: it comes later.
LEMMA WaitsForLater ==
    ASSUME StartInv, NEW s \in Services, Waiting(s), ~Settled(s),
           Plan[s][step[s]].by = "grpc" =>
              LET d == Plan[s][step[s]].on
              IN ServesAt[d] = Never \/ ServesAt[d] > now
    PROVE  LET ready == ReadyAt(Plan[s][step[s]].on)
           IN /\ Pending(s) /\ Plan[s][step[s]].by \in Loops \cup {"mongo", "grpc"}
              /\ ready = Never \/ ready > now
  <1> DEFINE by    == Plan[s][step[s]].by
             begun == Begins[s][step[s]]
             ready == ReadyAt(Plan[s][step[s]].on)
  <1>1. CASE By(s, Loops) /\ now < wake[s]
    <2>1. Pending(s) /\ by \in Loops /\ by # "grpc"
      BY <1>1 DEF By, Loops
    <2>2. InStep(s, begun, by, ready) /\ ready # Never
      BY <2>1, Situation
    <2>3. /\ now \in Nat /\ begun \in Nat /\ begun <= now
          /\ tries[s] \in Nat /\ wake[s] \in Nat /\ ready \in Nat
      BY <2>1, <2>2, Situation
    <2>4. wake[s] = begun + tries[s] /\ (tries[s] > 0 => ready >= wake[s])
      BY <2>1, <2>2 DEF InStep
    <2>5. ready > now
      <3> HIDE DEF by, begun, ready
      <3>1. QED  BY <1>1, <2>3, <2>4
    <2>6. QED  BY <2>1, <2>5
  <1>2. CASE By(s, {"mongo"}) /\ ~Reachable(s)
    <2>1. Pending(s) /\ by = "mongo"
      BY <1>2 DEF By
    <2>2. ready > now
      <3>1. /\ now \in Nat /\ ready \in Nat
            /\ Reachable(s) <=> ready <= now
        BY <2>1, Situation
      <3> HIDE DEF ready
      <3>2. QED  BY <1>2, <3>1
    <2>3. QED  BY <2>1, <2>2
  <1>3. CASE By(s, {"grpc"})
    <2>1. Pending(s) /\ by = "grpc"
      BY <1>3 DEF By
    <2>2. step[s] \in 1..Len(Plan[s])
      BY <2>1, Situation
    <2>3. Plan[s][step[s]].on \notin Stores
      BY <2>1, <2>2, PlanFacts DEF Stores
    <2>4. QED  BY <2>1, <2>3 DEF ReadyAt
  <1>4. QED  BY <1>1, <1>2, <1>3 DEF Waiting, Loops

\* A service that clients wait for and that does not serve will do so later.
LEMMA NotYet ==
    ASSUME StartInv, NEW d \in {"member", "streaming"}, Waiting(d), state[d] # "serving"
    PROVE  ServesAt[d] = Never \/ ServesAt[d] > now
  <1>0. d \in Services /\ TypeOK /\ Forecast(d) /\ now \in Nat
    BY DEF Services, StartInv, TypeOK
  <1>1. CASE state[d] = "exited"
    BY <1>0, <1>1 DEF Forecast
  <1>2. CASE state[d] = "starting"
    <2> DEFINE k     == step[d]
               next  == Begins[d][k + 1]
               ready == ReadyAt(Plan[d][k].on)
    <2>1. Pending(d)
      BY <1>2 DEF Waiting, Settled, By
    <2>2. k \in 1..Len(Plan[d]) /\ Len(Plan[d]) \in Nat
      BY <1>0, <2>1, PlanDomain DEF Pending
    <2>3. Plan[d][k].by # "grpc"
      BY <1>0, <2>2, PlanFacts
    <2>4. ready = Never \/ ready > now
      BY <1>0, <1>2, <2>3, WaitsForLater DEF Settled
    <2>5. /\ next = Never \/ next \in Nat
          /\ ready = Never \/ ready \in Nat
          /\ next # Never => ready # Never /\ ready <= next
      BY <1>0, <2>1, Situation
    <2>6. ServesAt[d] = Never \/ (next # Never /\ next <= ServesAt[d] /\ ServesAt[d] \in Nat)
      <3>1. k + 1 \in 1..(Len(Plan[d]) + 1)
        BY <2>2
      <3>2. ServesAt[d] \in Moments
        BY <1>0, ReadyType
      <3>3. QED  BY <1>0, <3>1, <3>2, ServesLast DEF Moments
    <2> HIDE DEF k, next, ready
    <2>7. QED  BY <1>0, <2>4, <2>5, <2>6
  <1>3. QED  BY <1>0, <1>1, <1>2 DEF StartInv, TypeOK

LEMMA TickKept ==
    ASSUME StartInv, Tick
    PROVE  \A w \in Services : Forecast(w)'
  <1> SUFFICES ASSUME NEW s \in Services PROVE Forecast(s)'
    OBVIOUS
  <1>0. /\ now \in Nat /\ now' = now + 1 /\ Forecast(s) /\ Waiting(s) /\ TypeOK
        /\ state' = state /\ step' = step /\ tries' = tries /\ wake' = wake
        /\ state[s] \in {"starting", "serving", "exited"}
    BY DEF StartInv, TypeOK, Tick
  <1>1. Begins' = Begins /\ ServesAt' = ServesAt /\ \A d : ReadyAt(d)' = ReadyAt(d)
    BY SameForecasts DEF Tick
  <1>2. CASE state[s] = "exited"
    BY <1>0, <1>1, <1>2 DEF Forecast
  <1>3. CASE state[s] = "serving"
    <2>1. ServesAt[s] \in Moments
      BY <1>0, ReadyType
    <2>2. ServesAt[s] # Never /\ ServesAt[s] <= now
      BY <1>0, <1>3 DEF Forecast
    <2>3. ServesAt[s] <= now + 1
      BY <1>0, <2>1, <2>2 DEF Moments
    <2>4. QED  BY <1>0, <1>1, <1>3, <2>2, <2>3 DEF Forecast
  <1>4. CASE state[s] = "starting"
    <2> DEFINE k     == step[s]
               by    == Plan[s][k].by
               begun == Begins[s][k]
               ready == ReadyAt(Plan[s][k].on)
    <2>0. Pending(s) /\ by \in Loops \cup {"mongo", "grpc"}
      BY <1>0, <1>4 DEF Waiting, Settled, By, Loops
    <2>1. k \in 1..Len(Plan[s]) /\ Len(Plan[s]) \in Nat
      BY <2>0, PlanDomain DEF Pending
    <2>2. by = "grpc" => LET d == Plan[s][k].on
                         IN ServesAt[d] = Never \/ ServesAt[d] > now
      <3> SUFFICES ASSUME by = "grpc"
                   PROVE  LET d == Plan[s][k].on
                          IN ServesAt[d] = Never \/ ServesAt[d] > now
        OBVIOUS
      <3> DEFINE d == Plan[s][k].on
      <3>1. d \in {"member", "streaming"} /\ d \in Services /\ d \notin Stores
        BY <2>1, PlanFacts DEF Services, Stores
      <3>2. ~Reachable(s)
        BY <1>0, <1>4 DEF Waiting, Settled, By
      <3>3. state[d] # "serving"
        BY <3>1, <3>2 DEF Reachable, Up
      <3>4. Waiting(d)
        BY <3>1 DEF Tick
      <3>5. QED  BY <3>1, <3>3, <3>4, NotYet
    <2>3. ready = Never \/ ready > now
      BY <1>0, <1>4, <2>2, WaitsForLater DEF Settled
    <2>4. /\ InStep(s, begun, by, ready) /\ begun \in Nat /\ begun <= now
          /\ ready = Never \/ ready \in Nat
          /\ tries[s] \in Nat /\ wake[s] \in Nat
      BY <2>0, Situation
    <2>5. /\ by \in Loops => now < wake[s]
          /\ by = "mongo" => tries[s] <= Retries /\ now < wake[s] + Selection
          /\ by = "grpc" => now < wake[s] + Patience
      BY <1>0, <1>4, <2>0 DEF Waiting, Settled, By, Loops
    <2>6. InStep(s, begun, by, ready)'
      <3>1. by \notin Asks
        BY <2>0 DEF Asks, Loops
      <3>2. ready = Never \/ ready >= now + 1
        <4> HIDE DEF ready
        <4>1. QED  BY <1>0, <2>3, <2>4
      <3>3. begun' = begun /\ by' = by /\ ready' = ready
        BY <1>0, <1>1
      <3>4. CASE by \in Loops
        <4>1. by # "mongo" /\ by # "grpc"
          BY <3>4 DEF Loops
        <4>2. now + 1 <= wake[s]
          BY <1>0, <2>4, <2>5, <3>4
        <4>3. QED
          BY <1>0, <2>4, <3>1, <3>2, <3>3, <3>4, <4>1, <4>2 DEF InStep
      <3>5. CASE by = "mongo"
        <4>1. now + 1 <= wake[s] + Selection /\ wake[s] <= now + 1
              /\ tries[s] # Retries + 1
          <5>1. wake[s] <= now
            BY <2>4, <3>5 DEF InStep
          <5>2. QED  BY <1>0, <2>4, <2>5, <3>5, <5>1
        <4>2. by # "grpc" /\ by \notin Loops
          BY <3>5 DEF Loops
        <4>3. QED
          BY <1>0, <2>4, <3>1, <3>2, <3>3, <3>5, <4>1, <4>2 DEF InStep
      <3>6. CASE by = "grpc"
        <4>1. wake[s] = begun
          BY <2>4, <3>6 DEF InStep
        <4>2. now + 1 <= begun + Patience
          BY <1>0, <2>4, <2>5, <3>6, <4>1
        <4>3. by # "mongo" /\ by \notin Loops
          BY <3>6 DEF Loops
        <4>4. QED
          BY <1>0, <3>1, <3>2, <3>3, <3>6, <4>1, <4>2, <4>3 DEF InStep
      <3>7. QED  BY <2>0, <3>4, <3>5, <3>6
    <2>7. OnTime(s)'
      <3>1. k > 0 /\ k <= Len(Plan[s]) + 1 /\ k <= Len(Plan[s]) /\ ~(k > Len(Plan[s]))
        BY <2>1
      <3>2. begun # Never /\ begun <= now + 1
        BY <1>0, <2>4 DEF Never
      <3>3. QED  BY <1>0, <1>1, <2>1, <2>6, <3>1, <3>2 DEF OnTime
    <2>8. QED  BY <1>0, <1>4, <2>7 DEF Forecast
  <1>5. QED  BY <1>0, <1>2, <1>3, <1>4

-----------------------------------------------------------------------------
LEMMA InitForecast == Init => StartInv
  <1> SUFFICES ASSUME Init PROVE StartInv
    OBVIOUS
  <1>1. \A s \in Services : Forecast(s)
    BY DEF Init, Forecast, OnTime
  <1>2. QED  BY <1>1, InitType DEF StartInv

LEMMA NextForecast == StartInv /\ [Next]_vars => StartInv'
  <1> SUFFICES ASSUME StartInv, [Next]_vars PROVE StartInv'
    OBVIOUS
  <1>1. TypeOK'
    BY NextType DEF StartInv
  <1>2. CASE Tick
    BY <1>1, <1>2, TickKept DEF StartInv
  <1>3. ASSUME NEW s \in Services, Main(s) PROVE \A w \in Services : Forecast(w)'
    <2>1. CASE LoadConfig(s)
      BY <2>1, LoadConfigKept
    <2>2. CASE ConnectPostgres(s) \/ ConnectRabbitMQ(s)
      BY <2>2, RetryLoopKept DEF ConnectPostgres, ConnectRabbitMQ, By, Loops
    <2>3. CASE CallStore(s) \/ NewMinIOConnection(s) \/ NewRedisClient(s)
      BY <2>3, OnceKept DEF CallStore, NewMinIOConnection, NewRedisClient, By, Asks
    <2>4. CASE NewMongoDB(s)
      BY <2>4, MongoKept
    <2>5. CASE CreateGRPCClient(s)
      BY <2>5, GRPCKept
    <2>6. CASE Listen(s)
      BY <2>6, ListenKept
    <2>7. QED  BY <1>3, <2>1, <2>2, <2>3, <2>4, <2>5, <2>6 DEF Main
  <1>4. CASE UNCHANGED vars
    <2>1. ASSUME NEW s \in Services PROVE Forecast(s)'
      BY <1>4, <2>1, OthersKept DEF vars, StartInv
    <2>2. QED  BY <1>1, <2>1 DEF StartInv
  <1>5. QED  BY <1>1, <1>2, <1>3, <1>4 DEF Next, StartInv

LEMMA StartInvariant == Spec => []StartInv
  BY InitForecast, NextForecast, PTL DEF Spec

\* Who comes up follows from the delays of the stores alone.
StartsAsForecast ==
    \A s \in Services :
        /\ state[s] = "serving" => ServesAt[s] # Never /\ ServesAt[s] <= now
        /\ state[s] = "exited"  => ServesAt[s] = Never

(* Whatever the delays of the stores, the number of retries and the order   *)
(* in which the main functions run: a service listens exactly when the      *)
(* chain of its retries, single questions and patience reaches the end, and *)
(* nobody gives up on a service that is still going to listen.              *)
THEOREM ForecastTheorem == Spec => []StartsAsForecast
  <1>1. StartInv => StartsAsForecast
    BY DEF StartInv, Forecast, StartsAsForecast
  <1>2. QED  BY <1>1, StartInvariant, PTL

\* What is reached is up, and was reached from a begin that was reached.
LEMMA ReachedIsUp ==
    ASSUME NEW t \in Moments, NEW ready \in Moments, NEW patience \in Nat,
           Reach(t, ready, patience) # Never
    PROVE  LET at == Reach(t, ready, patience)
           IN at \in Nat /\ t \in Nat /\ ready \in Nat /\ t <= at /\ ready <= at
  BY ReachMeans DEF Moments

\* The stores of a service are up when it serves according to the forecast.
LEMMA NeedsAreUp ==
    ASSUME TypeOK, NEW s \in Services, ServesAt[s] # Never, NEW d \in Needs[s]
    PROVE  delay[d] <= ServesAt[s]
  <1>1. \A e \in Stores : delay[e] \in Moments /\ delay[e] \in Nat
    BY DelayType DEF Moments
  <1>2. /\ Begin("member") \in Moments /\ Begin("streaming") \in Moments
        /\ Begin("chat") \in Moments /\ Begin("gateway") \in Moments
        /\ MemberServesAt \in Moments /\ StreamingServesAt \in Moments
    BY BeginType, MemberForecast, StreamingForecast
  <1>3. ASSUME MemberServesAt # Never
        PROVE  /\ MemberServesAt \in Nat
               /\ delay["pg"] <= MemberServesAt /\ delay["redis"] <= MemberServesAt
    <2> DEFINE b == Reach(Begin("member"), delay["pg"], Retries - 1)
    <2>1. b \in Moments /\ delay["pg"] \in Moments /\ delay["redis"] \in Moments
      BY <1>1, <1>2, GraceType, ReachMeans DEF Stores
    <2>2. MemberServesAt = Reach(b, delay["redis"], 0)
      BY DEF MemberServesAt
    <2>3. b \in Nat /\ MemberServesAt \in Nat /\ b <= MemberServesAt
          /\ delay["redis"] <= MemberServesAt
      <3> HIDE DEF b
      <3>1. QED  BY <1>3, <2>1, <2>2, ReachedIsUp
    <2>4. delay["pg"] <= b /\ delay["pg"] \in Nat
      <3>1. b # Never
        <4> HIDE DEF b
        <4>1. QED  BY <2>3 DEF Never
      <3>2. Begin("member") \in Moments /\ Retries - 1 \in Nat
        BY <1>2, GraceType
      <3>3. QED  BY <2>1, <3>1, <3>2, ReachedIsUp
    <2> HIDE DEF b
    <2>5. QED  BY <2>3, <2>4
  <1>4. ASSUME StreamingServesAt # Never
        PROVE  /\ StreamingServesAt \in Nat
               /\ delay["pg"] <= StreamingServesAt /\ delay["minio"] <= StreamingServesAt
               /\ delay["rabbit"] <= StreamingServesAt
    <2> DEFINE b == Reach(Begin("streaming"), delay["pg"], Retries - 1)
               c == Reach(b, delay["minio"], 0)
    <2>1. b \in Moments /\ delay["pg"] \in Moments /\ delay["minio"] \in Moments
          /\ delay["rabbit"] \in Moments
      BY <1>1, <1>2, GraceType, ReachMeans DEF Stores
    <2>2. c \in Moments
      BY <2>1, ReachMeans
    <2>3. StreamingServesAt = Reach(c, delay["rabbit"], Retries - 1)
      BY DEF StreamingServesAt
    <2>4. c \in Nat /\ StreamingServesAt \in Nat /\ c <= StreamingServesAt
          /\ delay["rabbit"] <= StreamingServesAt
      <3> HIDE DEF c
      <3>1. QED  BY <1>4, <2>1, <2>2, <2>3, GraceType, ReachedIsUp
    <2>5. b \in Nat /\ b <= c /\ delay["minio"] <= c /\ delay["minio"] \in Nat
      <3> HIDE DEF b
      <3>1. QED  BY <2>1, <2>4, ReachedIsUp DEF Never
    <2>6. delay["pg"] <= b /\ delay["pg"] \in Nat
      BY <1>2, <2>1, <2>5, GraceType, ReachedIsUp DEF Never
    <2> HIDE DEF b, c
    <2>7. QED  BY <2>4, <2>5, <2>6
  <1>5. CASE s = "member"
    BY <1>3, <1>5 DEF ServesAt, Needs
  <1>6. CASE s = "streaming"
    BY <1>4, <1>6 DEF ServesAt, Needs
  <1>7. CASE s = "chat"
    <2> DEFINE b == Reach(Begin("chat"), delay["mongo"], (Retries + 1) * Selection)
               c == Reach(b, delay["redis"], 0)
    <2>1. b \in Moments /\ delay["mongo"] \in Moments /\ delay["redis"] \in Moments
      BY <1>1, <1>2, GraceType, ReachMeans DEF Stores
    <2>2. c \in Moments
      BY <2>1, ReachMeans
    <2>3. ServesAt[s] = Reach(c, MemberServesAt, Patience)
      BY <1>7 DEF ServesAt, ChatServesAt
    <2>4. c \in Nat /\ ServesAt[s] \in Nat /\ c <= ServesAt[s]
          /\ MemberServesAt \in Nat /\ MemberServesAt <= ServesAt[s]
      <3> HIDE DEF c
      <3>1. QED  BY <1>2, <2>2, <2>3, GraceType, ReachedIsUp
    <2>5. b \in Nat /\ b <= c /\ delay["redis"] <= c /\ delay["redis"] \in Nat
      <3> HIDE DEF b
      <3>1. QED  BY <2>1, <2>4, ReachedIsUp DEF Never
    <2>6. delay["mongo"] <= b /\ delay["mongo"] \in Nat
      BY <1>2, <2>1, <2>5, GraceType, ReachedIsUp DEF Never
    <2>7. MemberServesAt # Never /\ delay["pg"] \in Nat
      BY <1>1, <2>4 DEF Never, Stores
    <2>8. d \in {"mongo", "redis", "pg"}
      BY <1>7 DEF Needs
    <2> HIDE DEF b, c
    <2>9. QED  BY <1>3, <2>4, <2>5, <2>6, <2>7, <2>8
  <1>8. CASE s = "gateway"
    <2> DEFINE b == Reach(Begin("gateway"), MemberServesAt, Patience)
    <2>1. b \in Moments
      BY <1>2, GraceType, ReachMeans
    <2>2. ServesAt[s] = Reach(b, StreamingServesAt, Patience)
      BY <1>8 DEF ServesAt, GatewayServesAt
    <2>3. b \in Nat /\ ServesAt[s] \in Nat /\ b <= ServesAt[s]
          /\ StreamingServesAt \in Nat /\ StreamingServesAt <= ServesAt[s]
      <3> HIDE DEF b
      <3>1. QED  BY <1>2, <2>1, <2>2, GraceType, ReachedIsUp
    <2>4. MemberServesAt \in Nat /\ MemberServesAt <= b
      <3>1. b # Never
        <4> HIDE DEF b
        <4>1. QED  BY <2>3 DEF Never
      <3>2. Begin("gateway") \in Moments /\ MemberServesAt \in Moments /\ Patience \in Nat
        BY <1>2, GraceType
      <3>3. QED  BY <3>1, <3>2, ReachedIsUp
    <2>5. MemberServesAt # Never /\ StreamingServesAt # Never
          /\ \A e \in {"pg", "redis", "minio", "rabbit"} : delay[e] \in Nat
      BY <1>1, <2>3, <2>4 DEF Never, Stores
    <2>6. d \in {"pg", "redis", "minio", "rabbit"}
      BY <1>8 DEF Needs
    <2> HIDE DEF b
    <2>7. QED  BY <1>3, <1>4, <2>3, <2>4, <2>5, <2>6
  <1>9. QED  BY <1>5, <1>6, <1>7, <1>8 DEF Services

(* For any delays, retries and timeouts: no service ends whose stores, and  *)
(* those of the services it waits for, are up within the code's grace, and  *)
(* a service that listens has all of them up behind it.                     *)
THEOREM StartsInTimeTheorem == Spec => []StartsInTime
  <1>1. ASSUME StartInv PROVE StartsInTime
    <2> SUFFICES ASSUME NEW s \in Services
                 PROVE  /\ ServesAt[s] # Never => state[s] # "exited"
                        /\ state[s] = "serving" => \A d \in Needs[s] : delay[d] <= now
      BY DEF StartsInTime
    <2>1. TypeOK /\ Forecast(s)
      BY <1>1 DEF StartInv
    <2>2. ASSUME state[s] = "serving", NEW d \in Needs[s] PROVE delay[d] <= now
      <3>1. ServesAt[s] # Never /\ ServesAt[s] <= now
        BY <2>1, <2>2 DEF Forecast
      <3>2. delay[d] <= ServesAt[s]
        BY <2>1, <2>2, <3>1, NeedsAreUp
      <3>3. d \in Stores
        BY <2>2 DEF Needs, Services, Stores
      <3>4. delay[d] \in Nat /\ now \in Nat /\ ServesAt[s] \in Nat
        BY <2>1, <3>1, <3>3, DelayType, ReadyType DEF TypeOK, Moments
      <3>5. QED  BY <3>1, <3>2, <3>4
    <2>3. QED  BY <2>1, <2>2 DEF Forecast
  <1>2. QED  BY <1>1, StartInvariant, PTL
=============================================================================
