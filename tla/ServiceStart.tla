---------------------------- MODULE ServiceStart ----------------------------
(***************************************************************************)
(* The start of the deployment: docker-compose starts the stores and the   *)
(* four services together (depends_on waits for a container, not for what  *)
(* runs in it), and the main of each service connects to what it needs, in *)
(* order, before it listens.  Whoever loses patience calls Fatal, and no   *)
(* service has a restart policy.                                           *)
(*                                                                         *)
(* Time is counted in retry intervals (5 s).  A call that answers takes no *)
(* time: the clock moves when every service sleeps, waits or has settled.  *)
(* A store that is up stays up.                                            *)
(***************************************************************************)
EXTENDS Integers, Sequences

CONSTANTS
    Retries,    \* retry_count of every connection
    Selection,  \* server selection timeout of the MongoDB driver, in intervals
    Patience,   \* the five minutes of CreateGRPCClient, in intervals
    Delays      \* Delays: what the stores may take to come up

Stores   == {"pg", "redis", "mongo", "minio", "rabbit"}
Services == {"member", "streaming", "chat", "gateway"}

\* With retry_count 0 the loops of psql.go return a nil pool and no error.
ASSUME RetriesAssumption   == Retries \in Nat \ {0}
ASSUME SelectionAssumption == Selection \in Nat \ {0}
ASSUME DelayAssumption     == Delays \subseteq [Stores -> Nat]
\* A service that starts at all does so before the clients of it give up.
ASSUME PatienceAssumption  == Patience \in Nat /\ Patience > 2 * Retries

VARIABLES
    now,      \* the time
    delay,    \* delay[d]: when store d is up
    config,   \* the services whose configuration can be read
    state,    \* state[s]: starting, serving or exited
    step,     \* step[s]: the connection of Plan[s] it works on, 0 before
    tries,    \* tries[s]: how many attempts have failed
    wake      \* wake[s]: when the attempt began, or the sleep ends

vars == <<now, delay, config, state, step, tries, wake>>

TypeOK ==
    /\ now \in Nat
    /\ delay \in Delays
    /\ config \in SUBSET Services
    /\ state \in [Services -> {"starting", "serving", "exited"}]
    /\ step \in [Services -> 0..7]
    /\ tries \in [Services -> 0..(Retries + 1)]
    /\ wake \in [Services -> Nat]

Init ==
    /\ now = 0
    /\ delay \in Delays
    /\ config \in {Services} \cup {Services \ {s} : s \in Services}
    /\ state = [s \in Services |-> "starting"]
    /\ step = [s \in Services |-> 0]
    /\ tries = [s \in Services |-> 0]
    /\ wake = [s \in Services |-> 0]

-----------------------------------------------------------------------------
(* What the main functions connect to, in order, and by which function *)

Dependency(function, d) == [by |-> function, on |-> d]

MemberMain == << Dependency("postgres", "pg"), Dependency("redis", "redis") >>

\* AutoMigrate and QueueDeclare are calls on a connection that is open.
StreamingMain == << Dependency("postgres", "pg"), Dependency("call", "pg"),
                    Dependency("minio", "minio"),
                    Dependency("rabbitmq", "rabbit"),   \* the connection
                    Dependency("rabbitmq", "rabbit"),   \* the channel
                    Dependency("call", "rabbit") >>

ChatMain == << Dependency("mongo", "mongo"), Dependency("redis", "redis"),
               Dependency("grpc", "member") >>

GatewayMain == << Dependency("grpc", "member"), Dependency("grpc", "streaming") >>

Plan == [member |-> MemberMain, streaming |-> StreamingMain,
         chat |-> ChatMain, gateway |-> GatewayMain]

-----------------------------------------------------------------------------
Up(d) == IF d \in Stores THEN delay[d] <= now ELSE state[d] = "serving"

Pending(s) == state[s] = "starting" /\ step[s] \in DOMAIN Plan[s]

By(s, functions) == Pending(s) /\ Plan[s][step[s]].by \in functions
Reachable(s)     == Up(Plan[s][step[s]].on)

\* The connection is made, the next one is begun.
Proceed(s) ==
    /\ step' = [step EXCEPT ![s] = @ + 1]
    /\ tries' = [tries EXCEPT ![s] = 0]
    /\ wake' = [wake EXCEPT ![s] = now]
    /\ UNCHANGED <<now, delay, config, state>>

FailedTry(s, next) ==
    /\ tries' = [tries EXCEPT ![s] = @ + 1]
    /\ wake' = [wake EXCEPT ![s] = next]
    /\ UNCHANGED <<now, delay, config, state, step>>

\* log.Fatalf
Exit(s) ==
    /\ state' = [state EXCEPT ![s] = "exited"]
    /\ UNCHANGED <<now, delay, config, step, tries, wake>>

-----------------------------------------------------------------------------
\* initEnv and LoadConfig: a file that is missing or malformed is fatal.
LoadConfig(s) ==
    /\ state[s] = "starting" /\ step[s] = 0
    /\ IF s \in config THEN Proceed(s) ELSE Exit(s)

\* Mutant: the loop makes one attempt less.
OneTryLess(s) ==
    /\ wake[s] <= now
    /\ \/ tries[s] < Retries - 1 /\ Reachable(s) /\ Proceed(s)
       \/ tries[s] < Retries - 1 /\ ~Reachable(s) /\ FailedTry(s, now + 1)
       \/ tries[s] = Retries - 1 /\ Exit(s)

\* Mutant: the count of attempts is not looked at.
RetryForever(s) ==
    /\ wake[s] <= now
    /\ IF Reachable(s) THEN Proceed(s) ELSE FailedTry(s, now + 1)

\* The loops for PostgreSQL and RabbitMQ: an attempt that fails is followed
\* by a sleep, the last one too.
RetryLoop(s) ==
    /\ wake[s] <= now
    /\ \/ tries[s] < Retries /\ Reachable(s) /\ Proceed(s)
       \/ tries[s] < Retries /\ ~Reachable(s) /\ FailedTry(s, now + 1)
       \/ tries[s] = Retries /\ Exit(s)

\* NewDatabaseConnection (member_service), NewPGConnection (streaming_service)
ConnectPostgres(s) == By(s, {"postgres"}) /\ RetryLoop(s)

\* ConnectRabbitMQWithRetry, GetRabbitMQChannelWithRetry
ConnectRabbitMQ(s) == By(s, {"rabbitmq"}) /\ RetryLoop(s)

Once(s) == IF Reachable(s) THEN Proceed(s) ELSE Exit(s)

\* AutoMigrate, QueueDeclare
CallStore(s) == By(s, {"call"}) /\ Once(s)

\* NewMinIOConnection asks for its bucket once; retry_count is not used.
NewMinIOConnection(s) == By(s, {"minio"}) /\ Once(s)

\* NewRedisClient, NewRedisRepository: one Ping through the sentinels.
NewRedisClient(s) == By(s, {"redis"}) /\ Once(s)

\* NewMongoDB: retry_count + 1 attempts.  Ping waits for the server selection;
\* the sleep in between lasts nanoseconds (retry_interval is not multiplied by
\* time.Second here).
NewMongoDB(s) ==
    /\ By(s, {"mongo"})
    /\ \/ tries[s] <= Retries /\ Reachable(s) /\ Proceed(s)
       \/ /\ tries[s] <= Retries /\ ~Reachable(s)
          /\ now >= wake[s] + Selection
          /\ FailedTry(s, now)
       \/ tries[s] = Retries + 1 /\ Exit(s)

\* Mutant: the timeout is not looked at.
WaitForReady(s) == By(s, {"grpc"}) /\ Reachable(s) /\ Proceed(s)

\* CreateGRPCClient polls the state of the channel until it is READY.
CreateGRPCClient(s) ==
    /\ By(s, {"grpc"})
    /\ \/ Reachable(s) /\ Proceed(s)
       \/ now >= wake[s] + Patience /\ Exit(s)

\* Everything is connected: net.Listen, or Listen of fiber.
Listen(s) ==
    /\ state[s] = "starting"
    /\ step[s] > Len(Plan[s])
    /\ state' = [state EXCEPT ![s] = "serving"]
    /\ UNCHANGED <<now, delay, config, step, tries, wake>>

Main(s) ==
    \/ LoadConfig(s)
    \/ ConnectPostgres(s)    \/ ConnectRabbitMQ(s) \/ CallStore(s)
    \/ NewMinIOConnection(s) \/ NewRedisClient(s)  \/ NewMongoDB(s)
    \/ CreateGRPCClient(s)
    \/ Listen(s)

Settled(s) == state[s] # "starting"

\* Nothing happens in s before the clock moves.
Waiting(s) ==
    \/ Settled(s)
    \/ By(s, {"postgres", "rabbitmq"}) /\ now < wake[s]
    \/ By(s, {"mongo"}) /\ tries[s] <= Retries /\ ~Reachable(s) /\ now < wake[s] + Selection
    \/ By(s, {"grpc"}) /\ ~Reachable(s) /\ now < wake[s] + Patience

Tick ==
    /\ \A s \in Services : Waiting(s)
    /\ \E s \in Services : ~Settled(s)
    /\ now' = now + 1
    /\ UNCHANGED <<delay, config, state, step, tries, wake>>

Next == Tick \/ \E s \in Services : Main(s)

Spec == Init /\ [][Next]_vars

\* Processes run and time passes.
FairSpec == Spec /\ WF_vars(Next)

-----------------------------------------------------------------------------
(***************************************************************************)
(* Properties                                                              *)
(***************************************************************************)
Never == -1

Latest(a, b) == IF a >= b THEN a ELSE b

\* When something that is up at time ready is reached by somebody who begins
\* at time t and has the given patience.
Reach(t, ready, patience) ==
    IF t = Never \/ ready = Never \/ ready > t + patience
    THEN Never ELSE Latest(t, ready)

Begin(s) == IF s \in config THEN 0 ELSE Never

MemberServesAt ==
    Reach(Reach(Begin("member"), delay["pg"], Retries - 1), delay["redis"], 0)

StreamingServesAt ==
    Reach(Reach(Reach(Begin("streaming"), delay["pg"], Retries - 1),
                delay["minio"], 0),
          delay["rabbit"], Retries - 1)

ChatServesAt ==
    Reach(Reach(Reach(Begin("chat"), delay["mongo"], (Retries + 1) * Selection),
                delay["redis"], 0),
          MemberServesAt, Patience)

GatewayServesAt ==
    Reach(Reach(Begin("gateway"), MemberServesAt, Patience),
          StreamingServesAt, Patience)

ServesAt == [member |-> MemberServesAt, streaming |-> StreamingServesAt,
             chat |-> ChatServesAt, gateway |-> GatewayServesAt]

\* The stores a service needs, and those of the services it waits for.
Needs == [member    |-> {"pg", "redis"},
          streaming |-> {"pg", "minio", "rabbit"},
          chat      |-> {"mongo", "redis", "pg"},
          gateway   |-> {"pg", "redis", "minio", "rabbit"}]

(* No service gives up, nor any that waits for it, when each store is up   *)
(* within what the code grants it: retry_count - 1 intervals for           *)
(* PostgreSQL and RabbitMQ, the server selections of retry_count + 1       *)
(* attempts for MongoDB, the moment of the question for MinIO and Redis.   *)
(* That is the least a service survives; comments and notes promise more   *)
(* of MinIO, RabbitMQ and MongoDB.  And nobody listens before all the      *)
(* stores behind it are up.                                                *)
StartsInTime ==
    \A s \in Services :
        /\ ServesAt[s] # Never => state[s] # "exited"
        /\ state[s] = "serving" => \A d \in Needs[s] : delay[d] <= now

(* No service waits for ever, and nobody waits for somebody who waits for  *)
(* it: each listens or exits.                                              *)
EverybodySettles == <>(\A s \in Services : Settled(s))
=============================================================================
