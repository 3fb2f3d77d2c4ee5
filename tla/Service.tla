------------------------------ MODULE Service ------------------------------
(***************************************************************************)
(* The life of a pod: main of cmd/server/main.go from its settings to its   *)
(* end, the calls it serves through the JWT interceptors of                 *)
(* app/interceptors/auth.go, and the uploads whose documents it saves in    *)
(* the background.                                                          *)
(*                                                                         *)
(* The backends may fail while the pod starts.  Another pod may start at    *)
(* the same time and migrate the same PostgreSQL schema.  A signal may come *)
(* at any moment.  What the other handlers do is in the other modules.      *)
(***************************************************************************)
EXTENDS Config, FiniteSets

CONSTANTS
    Files, Envs,   \* YAML files and environments a pod may find
    Calls,         \* RPCs
    Headers,       \* authorization headers of calls: see NoHeader
    Tables,        \* sequence: the tables of the schema, in their order
    MaxTrouble     \* bound: failures of backends in one life

ASSUME SourceAssumption ==
    \A src \in Files \cup Envs :
       /\ DOMAIN src \subseteq Settings
       /\ \A s \in DOMAIN src \cap Flags : src[s] \in BOOLEAN
ASSUME TableAssumption ==
    /\ Tables \in Seq({Tables[i] : i \in DOMAIN Tables}) /\ Len(Tables) > 0
    /\ \A i \in DOMAIN Tables : Tables[i] \notin {"drop", "create", "trigger"}
ASSUME BoundAssumption == MaxTrouble \in Nat

Starting == {"load", "redis", "storage", "mongo", "postgres", "migrate",
             "kafka", "auth", "listen"}
Ending == {"draining", "stopping", "stopped", "closing", "exited"}

\* Chat is the stream, Check the health service's method; Get stands for the
\* other unary methods.
Methods == {"Chat", "RequestUpload", "Get", "Check"}

VARIABLES
    file, env,  \* the sources of the settings
    phase,      \* where main is
    wired,      \* what main has set up
    trouble,    \* history: what failed
    schema,     \* what the PostgreSQL schema has: tables, "trigger"
    mine,       \* the next statement of this pod's migration
    rival,      \* and of the other pod's
    overlap,    \* history: the other pod migrated during this one's migration
    call,       \* [Calls -> [at, method, header]]
    media       \* [Calls -> state of the upload's document]

boot == <<wired, schema, mine, rival, overlap>>
vars == <<file, env, phase, boot, trouble, call, media>>

cfg == Load(file, env)

Statements == Tables \o <<"drop", "create">>
AllTables == {Tables[i] : i \in DOMAIN Tables}

\* A token is what verify reads of it; a missing or empty one has no alg.
NoToken == [alg |-> "", key |-> "", audience |-> "", issuer |-> "", expired |-> FALSE]
NoHeader == [scheme |-> "none", token |-> NoToken]
NoCall == [at |-> "none", method |-> "Get", header |-> NoHeader]

Init ==
    /\ file \in Files /\ env \in Envs
    /\ phase = "load"
    /\ wired = [redis |-> FALSE, broker |-> "noop", storage |-> "none",
                mongo |-> FALSE, pg |-> FALSE, auth |-> FALSE]
    /\ trouble = {}
    /\ schema \in {{}, AllTables \cup {"trigger"}}
    /\ mine = 1 /\ rival = 1 /\ overlap = FALSE
    /\ call = [c \in Calls |-> NoCall]
    /\ media = [c \in Calls |-> "none"]

-----------------------------------------------------------------------------
(* Starting.  A backend x that fails is recorded with Trouble(x).          *)

At(p) == phase = p
Goto(p) == phase' = p

Trouble(x) ==
    /\ Cardinality(trouble) < MaxTrouble
    /\ trouble' = trouble \cup {x}

Serving == <<call, media>>
Outside == <<schema, mine, rival, overlap>>

LoadConfig ==
    /\ At("load")
    /\ Goto(IF validate(cfg) THEN "redis" ELSE "fatal")
    /\ UNCHANGED <<file, env, boot, trouble, Serving>>

\* The broker is Redis where there is a client, and does nothing otherwise.
ConnectRedis ==
    /\ At("redis") /\ Goto("storage")
    /\ wired' = [wired EXCEPT !.redis = NewRedisClient(cfg),
                              !.broker = IF NewRedisClient(cfg) THEN "redis" ELSE "noop"]
    /\ UNCHANGED <<file, env, Outside, trouble, Serving>>

\* S3 and MinIO that cannot be set up end the program; a bucket that MinIO
\* cannot make does not.  MinIO is waited for without a deadline.
SetUpStorage ==
    LET st == StorageChosen(cfg)
    IN  /\ At("storage")
        /\ \/ /\ wired' = [wired EXCEPT !.storage = st]
              /\ Goto("mongo")
              /\ \/ UNCHANGED trouble
                 \/ st = "minio" /\ Trouble("bucket")
           \/ /\ st \in {"s3", "minio"} /\ Trouble("storage")
              /\ Goto("fatal") /\ UNCHANGED wired
        /\ UNCHANGED <<file, env, Outside, Serving>>

\* Faulty variant of ConnectMongo: a database that is down ends the program.
ConnectMongoFatal ==
    /\ At("mongo")
    /\ \/ /\ Goto("postgres")
          /\ wired' = [wired EXCEPT !.mongo = cfg["mongo_uri"] # ""]
          /\ UNCHANGED trouble
       \/ /\ cfg["mongo_uri"] # "" /\ Trouble("mongo")
          /\ Goto("fatal") /\ UNCHANGED wired
    /\ UNCHANGED <<file, env, Outside, Serving>>

\* NewMessageRepository connects and pings, for ten seconds; failing indexes
\* are passed over.
ConnectMongo ==
    /\ At("mongo") /\ Goto("postgres")
    /\ \/ /\ wired' = [wired EXCEPT !.mongo = cfg["mongo_uri"] # ""]
          /\ UNCHANGED trouble
       \/ cfg["mongo_uri"] # "" /\ Trouble("mongo") /\ UNCHANGED wired
    /\ UNCHANGED <<file, env, Outside, Serving>>

\* NewRoomRepository opens and pings, without a deadline.
OpenPostgres ==
    /\ At("postgres")
    /\ IF PostgresDSNBuilt(cfg)
          THEN \/ Goto("migrate") /\ UNCHANGED trouble
               \/ Goto("kafka") /\ Trouble("pg")
          ELSE Goto("kafka") /\ UNCHANGED trouble
    /\ UNCHANGED <<file, env, boot, Serving>>

\* What a statement makes of the schema.  CREATE TRIGGER has no IF NOT EXISTS.
Conflict(stmt) == stmt = "create" /\ "trigger" \in schema

Exec(stmt) ==
    CASE stmt = "drop"   -> schema \ {"trigger"}
      [] stmt = "create" -> schema \cup {"trigger"}
      [] OTHER           -> schema \cup {stmt}

\* Faulty variant of Migrate: a failing statement does not end it.
MigrateGoesOn ==
    /\ At("migrate")
    /\ mine' = mine + 1
    /\ IF mine = Len(Statements)
          THEN Goto("kafka") /\ wired' = [wired EXCEPT !.pg = TRUE]
          ELSE UNCHANGED <<phase, wired>>
    /\ \/ schema' = Exec(Statements[mine]) /\ UNCHANGED trouble
       \/ Trouble("pg") /\ UNCHANGED schema
    /\ UNCHANGED <<file, env, rival, overlap, Serving>>

\* One statement of Migrate, which may wait for a lock without a deadline.
\* The first error ends it, and the pod goes on without PostgreSQL.
Migrate ==
    /\ At("migrate")
    /\ \/ /\ ~Conflict(Statements[mine])
          /\ schema' = Exec(Statements[mine])
          /\ mine' = mine + 1
          /\ IF mine = Len(Statements)
                THEN Goto("kafka") /\ wired' = [wired EXCEPT !.pg = TRUE]
                ELSE UNCHANGED <<phase, wired>>
          /\ UNCHANGED trouble
       \/ /\ \/ Conflict(Statements[mine]) /\ UNCHANGED trouble
             \/ Trouble("pg")
          /\ Goto("kafka") /\ UNCHANGED <<schema, mine, wired>>
    /\ UNCHANGED <<file, env, rival, overlap, Serving>>

\* The other pod's Migrate.  Its pace matters only until this pod listens; it
\* may fail or end between two statements, and then makes no further step.
RivalMigrate ==
    /\ phase \in Starting /\ PostgresDSNBuilt(cfg)
    /\ rival <= Len(Statements)
    /\ IF Conflict(Statements[rival])
          THEN rival' = Len(Statements) + 1 /\ UNCHANGED schema
          ELSE rival' = rival + 1 /\ schema' = Exec(Statements[rival])
    /\ overlap' = (overlap \/ At("migrate"))
    /\ UNCHANGED <<file, env, phase, wired, mine, trouble, Serving>>

\* Kafka replaces the broker.  NewKafkaBroker fails without addresses only,
\* and connects later: an unreachable Kafka does not bring Redis back.
ConnectKafka ==
    /\ At("kafka") /\ Goto("auth")
    /\ wired' = IF KafkaBrokers(cfg) = <<>> THEN wired
                ELSE [wired EXCEPT !.broker = "kafka"]
    /\ UNCHANGED <<file, env, Outside, trouble, Serving>>

\* Without the public key the pod serves without authentication.
LoadAuth ==
    /\ At("auth") /\ Goto("listen")
    /\ \/ /\ wired' = [wired EXCEPT !.auth = ~cfg["jwt_disabled"]]
          /\ UNCHANGED trouble
       \/ ~cfg["jwt_disabled"] /\ Trouble("key") /\ UNCHANGED wired
    /\ UNCHANGED <<file, env, Outside, Serving>>

Listen ==
    /\ At("listen")
    /\ \/ Goto("serving") /\ UNCHANGED trouble
       \/ Goto("fatal") /\ Trouble("listen")
    /\ UNCHANGED <<file, env, boot, Serving>>

\* The goroutine that serves ends the program when Serve fails.
ServeFails ==
    /\ At("serving") /\ Goto("fatal") /\ Trouble("serve")
    /\ UNCHANGED <<file, env, boot, Serving>>

-----------------------------------------------------------------------------
(* Serving.                                                                *)

Rest == <<file, env, phase, boot>>
Moves(c, at) ==
    call' = [call EXCEPT ![c] =
       IF at = "over" THEN [NoCall EXCEPT !.at = at] ELSE [@ EXCEPT !.at = at]]
Running == phase \notin Starting \cup {"fatal", "exited"}
Is(c, at) == Running /\ call[c].at = at

Call(c, m, h) ==
    /\ At("serving") /\ call[c] = NoCall
    /\ call' = [call EXCEPT ![c] = [at |-> "arrived", method |-> m, header |-> h]]
    /\ UNCHANGED <<Rest, trouble, media>>

exempt(m) == m = "Check"

\* The prefix may be missing.
extractToken(h) == h.token

verify(t) ==
    /\ t.alg = "RS256" /\ t.key = "auth_service"
    /\ t.audience = "graphql-api" /\ t.issuer = "ZPC" /\ ~t.expired

Admitted(m, h) ==
    exempt(m) \/ (extractToken(h) # NoToken /\ verify(extractToken(h)))

UnaryServerInterceptor(c) ==
    Moves(c, IF Admitted(call[c].method, call[c].header) THEN "handling" ELSE "over")

\* Faulty variant of StreamServerInterceptor: streams are not looked at.
StreamUnchecked(c) == Moves(c, "handling")

StreamServerInterceptor(c) ==
    Moves(c, IF Admitted(call[c].method, call[c].header) THEN "handling" ELSE "over")

\* The generated handler of a unary method: a request that cannot be decoded
\* is refused, the others go through the interceptor if there is one.
UnaryHandler(c) ==
    /\ Is(c, "arrived") /\ call[c].method # "Chat"
    /\ \/ Moves(c, "over")
       \/ IF wired.auth THEN UnaryServerInterceptor(c) ELSE Moves(c, "handling")
    /\ UNCHANGED <<Rest, trouble, media>>

StreamHandler(c) ==
    /\ Is(c, "arrived") /\ call[c].method = "Chat"
    /\ IF wired.auth THEN StreamServerInterceptor(c) ELSE Moves(c, "handling")
    /\ UNCHANGED <<Rest, trouble, media>>

\* Whether a storage signs a request: S3 and MinIO may fail.
PutPresignedURL(st) ==
    CASE st = "none" -> {FALSE} [] st = "cloudinary" -> {TRUE} [] OTHER -> BOOLEAN

\* The URL is signed, and a goroutine of its own saves the document of the
\* upload.  Without storage, for a request that is refused (a missing field, a
\* file too large) and when signing fails, an error is returned; without
\* MongoDB nothing is saved.
RequestUpload(c) ==
    /\ Is(c, "handling") /\ call[c].method = "RequestUpload"
    /\ Moves(c, "over")
    /\ \/ UNCHANGED <<trouble, media>>
       \/ /\ TRUE \in PutPresignedURL(wired.storage) /\ wired.mongo
          /\ media' = [media EXCEPT ![c] = "pending"]
          /\ UNCHANGED trouble
       \/ /\ wired.storage # "none" /\ FALSE \in PutPresignedURL(wired.storage)
          /\ Trouble("sign") /\ UNCHANGED media
    /\ UNCHANGED Rest

\* Faulty variant of SaveMediaUpload: it has the context of the request.
SaveMediaInRequest(c) ==
    /\ Running /\ media[c] = "pending"
    /\ media' = [media EXCEPT ![c] = IF call[c].at = "over" THEN "lost" ELSE "saved"]
    /\ UNCHANGED <<Rest, trouble, call>>

\* The insert fails when the client of MongoDB is closed.
SaveMediaUpload(c) ==
    /\ Running /\ media[c] = "pending"
    /\ \/ /\ media' = [media EXCEPT ![c] =
                IF phase = "closing" THEN "lost" ELSE "saved"]
          /\ UNCHANGED trouble
       \/ Trouble("insert") /\ media' = [media EXCEPT ![c] = "lost"]
    /\ UNCHANGED <<Rest, call>>

\* Another unary handler returns.
Return(c) ==
    /\ Is(c, "handling") /\ call[c].method \in {"Get", "Check"}
    /\ Moves(c, "over")
    /\ UNCHANGED <<Rest, trouble, media>>

\* Chat returns some time after its client closes the stream, or Stop cancels
\* it; its sender may keep it for ever (finding on README 571-572, ChatHub).
StreamEnds(c) ==
    /\ Is(c, "handling") /\ call[c].method = "Chat"
    /\ Moves(c, "over")
    /\ UNCHANGED <<Rest, trouble, media>>

-----------------------------------------------------------------------------
(* Ending.                                                                 *)

Idle == \A c \in Calls : call[c].at \in {"none", "over"}

\* Before main asks for signals, one ends the process.
Signal ==
    /\ \/ phase \in Starting /\ Goto("exited")
       \/ At("serving") /\ Goto("draining")
    /\ UNCHANGED <<file, env, boot, trouble, Serving>>

GracefulStop ==
    /\ At("draining") /\ Idle /\ Goto("stopped")
    /\ UNCHANGED <<file, env, boot, trouble, Serving>>

\* After five seconds Stop is called beside GracefulStop.  It cancels the
\* streams and waits for no handler, unless GracefulStop, which does, comes
\* before it with the server's lock: then it waits for that.
Timeout ==
    /\ At("draining")
    /\ Goto("stopped") \/ Goto("stopping")
    /\ UNCHANGED <<file, env, boot, trouble, Serving>>

StopReturns ==
    /\ At("stopping") /\ Idle /\ Goto("stopped")
    /\ UNCHANGED <<file, env, boot, trouble, Serving>>

CloseMongo ==
    /\ At("stopped") /\ Goto("closing")
    /\ UNCHANGED <<file, env, boot, trouble, Serving>>

ClosePostgres ==
    /\ At("closing") /\ Goto("exited")
    /\ UNCHANGED <<file, env, boot, trouble, Serving>>

-----------------------------------------------------------------------------
Boot ==
    \/ LoadConfig \/ ConnectRedis \/ SetUpStorage \/ ConnectMongo
    \/ OpenPostgres \/ Migrate \/ ConnectKafka \/ LoadAuth \/ Listen

Handle(c) ==
    \/ UnaryHandler(c) \/ StreamHandler(c)
    \/ RequestUpload(c) \/ Return(c)

ShutDown ==
    GracefulStop \/ Timeout \/ StopReturns \/ CloseMongo \/ ClosePostgres

Next ==
    \/ Boot \/ RivalMigrate \/ ServeFails \/ Signal \/ ShutDown
    \/ \E c \in Calls :
          \/ \E m \in Methods, h \in Headers : Call(c, m, h)
          \/ Handle(c) \/ SaveMediaUpload(c) \/ StreamEnds(c)

Spec == Init /\ [][Next]_vars

\* main is in a call to a backend that has no deadline.
Waiting ==
    \/ At("storage") /\ StorageChosen(cfg) = "minio"
    \/ At("postgres") /\ PostgresDSNBuilt(cfg)
    \/ At("migrate")

\* Every goroutine of this pod goes on, except in a call without a deadline,
\* and the timer fires.  Nothing is assumed of clients and their streams, of
\* signals and of the other pod.
FairSpec ==
    /\ Spec
    /\ WF_vars(Boot /\ ~Waiting) /\ WF_vars(ShutDown)
    /\ \A c \in Calls : WF_vars(Handle(c)) /\ WF_vars(SaveMediaUpload(c))

-----------------------------------------------------------------------------
(* Properties.                                                             *)

\* Every variable has its type.
TypeOK ==
    /\ file \in Files /\ env \in Envs
    /\ phase \in Starting \cup Ending \cup {"serving", "fatal"}
    /\ wired \in [redis : BOOLEAN, broker : {"noop", "redis", "kafka"},
                  storage : {"none", "cloudinary", "s3", "minio"},
                  mongo : BOOLEAN, pg : BOOLEAN, auth : BOOLEAN]
    /\ trouble \subseteq {"storage", "bucket", "mongo", "pg", "key",
                          "listen", "serve", "sign", "insert"}
    /\ schema \subseteq AllTables \cup {"trigger"}
    /\ mine \in 1 .. Len(Statements) + 1
    /\ rival \in 1 .. Len(Statements) + 1
    /\ call \in [Calls -> [at : {"none", "arrived", "handling", "over"},
                           method : Methods, header : Headers \cup {NoHeader}]]
    /\ media \in [Calls -> {"none", "pending", "saved", "lost"}]
    /\ overlap \in BOOLEAN

Set(s) == IF s \in DOMAIN env /\ env[s] # "" THEN env[s]
          ELSE IF s \in DOMAIN file THEN file[s] ELSE ""

\* A pod that serves has every database that the environment, or else the
\* file, names, unless reaching it failed or two pods migrated at the same
\* time; Kafka goes before Redis (main.go 35-154, config.go 156-305).
WiredAsConfigured ==
    phase \in {"serving", "draining"} =>
       /\ wired.mongo = (Set("mongo_uri") # "" /\ "mongo" \notin trouble)
       /\ wired.pg => "pg" \notin trouble
       /\ (Set("postgres_dsn") # "" /\ "pg" \notin trouble /\ ~overlap) => wired.pg
       /\ wired.broker =
             IF KafkaBrokers(cfg) # <<>> THEN "kafka"
             ELSE IF wired.redis THEN "redis" ELSE "noop"

\* PostgreSQL is used with all its tables only; the trigger is missing only
\* while the other pod is between dropping and creating it, where it may end
\* (postgres.go 53-113, main.go 119-135).
SchemaReady ==
    wired.pg =>
       /\ AllTables \subseteq schema
       /\ "trigger" \in schema \/ rival = Len(Statements)

\* No handler of the chat service, stream or not, runs for a call without a
\* valid token, unless a source disables authentication or the key could not
\* be read (auth.go 110-158, main.go 171-191).
HandledAuthorised ==
    \A c \in Calls : call[c].at = "handling" =>
       \/ exempt(call[c].method)
       \/ cfg["jwt_disabled"] \/ "key" \in trouble
       \/ extractToken(call[c].header) # NoToken
             /\ verify(extractToken(call[c].header))

\* A pod starts whatever Redis, Kafka and MongoDB do and whichever commands of
\* the others fail: only an invalid port, a storage that cannot be set up, a
\* port in use or a signal prevent it, or a call to MinIO or PostgreSQL that
\* never returns, as these have no deadline (main.go 28-213, postgres.go 41).
Starts ==
    \/ <>(\/ phase \in {"serving", "exited"}
          \/ phase = "fatal"
                /\ (~validate(cfg) \/ trouble \cap {"storage", "listen"} # {}))
    \/ <>[]Waiting

\* The document of an upload that was granted is saved although the call is
\* over, unless MongoDB fails or the process ends first: nothing waits for
\* the goroutine (grpc_server.go 463-469).
UploadRecorded ==
    \A c \in Calls :
       media[c] = "pending" ~>
          media[c] = "saved" \/ "insert" \in trouble
             \/ phase \in {"closing", "exited", "fatal"}

=============================================================================
