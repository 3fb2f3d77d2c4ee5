--------------------------- MODULE ServiceProofs ---------------------------
(***************************************************************************)
(* Proofs about the life of a pod: for every file and environment, every    *)
(* list of tables and any number of calls and failures, a pod that serves   *)
(* is wired as configured, uses a complete schema and handles authorised    *)
(* calls only.                                                              *)
(***************************************************************************)
EXTENDS Service, SequenceTheorems, TLAPS

-----------------------------------------------------------------------------
(* Settings and statements.                                                *)

\* The schema's statements: one per table, then the trigger is dropped and
\* created.
LEMMA StatementFacts ==
  /\ Len(Tables) \in Nat \ {0}
  /\ Len(Statements) = Len(Tables) + 2
  /\ \A i \in 1 .. Len(Tables) :
        /\ Statements[i] = Tables[i]
        /\ Tables[i] \notin {"drop", "create", "trigger"}
  /\ Statements[Len(Tables) + 1] = "drop"
  /\ Statements[Len(Tables) + 2] = "create"
<1> DEFINE Tail2 == <<"drop", "create">>
<1> DEFINE S == AllTables \cup {"drop", "create"}
<1>1. Tables \in Seq(S) /\ Tail2 \in Seq(S) /\ Len(Tail2) = 2
  <2>1. Tables \in Seq(AllTables)
    BY TableAssumption DEF AllTables
  <2> QED
    BY <2>1
<1>2. Len(Tables) \in Nat \ {0}
  BY TableAssumption, LenProperties
<1>3. /\ Len(Statements) = Len(Tables) + 2
      /\ \A i \in 1 .. Len(Tables) + 2 :
            Statements[i] = IF i <= Len(Tables) THEN Tables[i]
                            ELSE Tail2[i - Len(Tables)]
  BY <1>1, ConcatProperties DEF Statements
<1>4. \A i \in 1 .. Len(Tables) : Tables[i] \notin {"drop", "create", "trigger"}
  BY <1>1, TableAssumption, LenProperties
<1> QED
  BY <1>2, <1>3, <1>4

\* A database's address is the environment's, unless that is empty, or else
\* the file's.
LEMMA SetIsLoaded ==
  ASSUME NEW s \in {"mongo_uri", "postgres_dsn"}
  PROVE  cfg[s] = Set(s)
<1>1. s \in Settings /\ s \notin Lists /\ s \notin Numbers /\ s \notin Flags
  BY DEF Settings, Strings, Lists, Numbers, Flags
<1>2. Default(s) = ""
  <2>1. Default("mongo_uri") = ""
    BY DEF Default, Lists, Flags
  <2>2. Default("postgres_dsn") = ""
    BY DEF Default, Lists, Flags
  <2> QED
    BY <2>1, <2>2
<1> QED
  BY <1>1, <1>2 DEF cfg, Load, FromFile, Set

\* Whether authentication is disabled is a Boolean.
LEMMA FlagType ==
  ASSUME file \in Files, env \in Envs
  PROVE  cfg["jwt_disabled"] \in BOOLEAN
<1>1. "jwt_disabled" \in Settings /\ "jwt_disabled" \in Flags
      /\ "jwt_disabled" \notin Lists /\ "jwt_disabled" \notin Numbers
  BY DEF Settings, Strings, Lists, Numbers, Flags
<1>2. Default("jwt_disabled") \in BOOLEAN
  BY DEF Default, Lists, Flags
<1>3. "jwt_disabled" \in DOMAIN file => file["jwt_disabled"] \in BOOLEAN
  BY <1>1, SourceAssumption
<1>4. "jwt_disabled" \in DOMAIN env => env["jwt_disabled"] \in BOOLEAN
  BY <1>1, SourceAssumption
<1> QED
  BY <1>1, <1>2, <1>3, <1>4 DEF cfg, Load, FromFile

\* What a statement leaves of the schema: tables are never removed.
LEMMA ExecFacts ==
  ASSUME schema \subseteq AllTables \cup {"trigger"},
         NEW i \in 1 .. Len(Statements)
  PROVE  /\ Exec(Statements[i]) \subseteq AllTables \cup {"trigger"}
         /\ schema \cap AllTables \subseteq Exec(Statements[i])
         /\ i <= Len(Tables) => /\ Exec(Statements[i]) = schema \cup {Tables[i]}
                                /\ ~Conflict(Statements[i])
         /\ i = Len(Tables) + 1 => /\ Exec(Statements[i]) = schema \ {"trigger"}
                                   /\ ~Conflict(Statements[i])
         /\ i = Len(Tables) + 2 =>
               /\ Exec(Statements[i]) = schema \cup {"trigger"}
               /\ Conflict(Statements[i]) <=> "trigger" \in schema
<1>1. /\ i \in Nat
      /\ i <= Len(Tables) \/ i = Len(Tables) + 1 \/ i = Len(Tables) + 2
  BY StatementFacts
<1>2. "trigger" \notin AllTables
  BY StatementFacts, TableAssumption DEF AllTables
<1>3. CASE i <= Len(Tables)
  <2>1. Statements[i] = Tables[i] /\ Tables[i] \notin {"drop", "create", "trigger"}
    BY <1>1, <1>3, StatementFacts
  <2>2. Tables[i] \in AllTables
    BY <1>1, <1>3, TableAssumption, StatementFacts DEF AllTables
  <2> QED
    BY <1>1, <1>3, <2>1, <2>2, StatementFacts DEF Exec, Conflict
<1>4. CASE i = Len(Tables) + 1
  BY <1>2, <1>4, StatementFacts DEF Exec, Conflict
<1>5. CASE i = Len(Tables) + 2
  BY <1>5, StatementFacts DEF Exec, Conflict
<1> QED
  BY <1>1, <1>3, <1>4, <1>5

-----------------------------------------------------------------------------
(* The inductive invariant.                                                *)

BeforeMongo == {"load", "redis", "storage", "mongo"}
BeforePg    == BeforeMongo \cup {"postgres"}
AfterPg     == {"kafka", "auth", "listen", "serving", "draining"}
Served      == {"listen", "serving", "draining", "stopping", "stopped", "closing"}

\* MongoDB is wired exactly where it is named and did not fail.
MongoInv ==
    IF phase \in BeforeMongo THEN ~wired.mongo /\ "mongo" \notin trouble
    ELSE phase \in {"postgres", "migrate"} \cup AfterPg =>
            wired.mongo = (cfg["mongo_uri"] # "" /\ "mongo" \notin trouble)

\* PostgreSQL is wired only without an error, and always without an error and
\* without another pod's statements in between: the trigger is then still
\* dropped when it is created again.
PgInv ==
    /\ phase \in BeforePg \cup {"migrate"} => ~wired.pg /\ "pg" \notin trouble
    /\ wired.pg => "pg" \notin trouble
    /\ phase = "migrate" /\ ~overlap /\ mine = Len(Statements)
          => "trigger" \notin schema
    /\ phase \in AfterPg /\ PostgresDSNBuilt(cfg) /\ "pg" \notin trouble /\ ~overlap
          => wired.pg

\* What this pod's migration has done so far stays done.
SchemaInv ==
    /\ phase \in BeforePg => mine = 1
    /\ phase = "migrate" => mine <= Len(Statements)
    /\ \A i \in 1 .. Len(Tables) : i < mine => Tables[i] \in schema
    /\ wired.pg => mine = Len(Statements) + 1
    /\ wired.pg => "trigger" \in schema \/ rival = Len(Statements)

\* The broker is Redis where there is a client, until Kafka replaces it.
BrokerInv ==
    /\ phase \in {"load", "redis"} => ~wired.redis /\ wired.broker = "noop"
    /\ phase \in {"storage", "mongo", "postgres", "migrate", "kafka"} =>
          wired.broker = IF wired.redis THEN "redis" ELSE "noop"
    /\ phase \in {"auth", "listen", "serving", "draining"} =>
          wired.broker =
             IF KafkaBrokers(cfg) # <<>> THEN "kafka"
             ELSE IF wired.redis THEN "redis" ELSE "noop"

\* A pod that serves checks tokens unless it was told not to, or has no key.
AuthInv ==
    /\ phase \in Starting \ {"listen"} => "key" \notin trouble
    /\ phase \in Served => wired.auth \/ cfg["jwt_disabled"] \/ "key" \in trouble

\* While it starts there are no calls.
QuietInv == phase \in Starting => \A c \in Calls : call[c].at = "none"

ServiceInv ==
    /\ TypeOK /\ MongoInv /\ PgInv /\ SchemaInv /\ BrokerInv /\ AuthInv
    /\ QuietInv /\ HandledAuthorised

-----------------------------------------------------------------------------
(* Types.                                                                  *)

\* What main derives from the settings.
LEMMA ChoiceTypes ==
  /\ NewRedisClient(cfg) \in BOOLEAN
  /\ StorageChosen(cfg) \in {"none", "cloudinary", "s3", "minio"}
<1>1. NewRedisClient(cfg) \in BOOLEAN
  BY DEF NewRedisClient
<1>2. StorageChosen(cfg) \in {"none", "cloudinary", "s3", "minio"}
  BY DEF StorageChosen
<1> QED
  BY <1>1, <1>2

\* A call moves to another place of its life.
LEMMA MovesType ==
  ASSUME TypeOK, NEW c \in Calls, NEW at \in {"handling", "over"}, Moves(c, at)
  PROVE  /\ call' \in [Calls -> [at : {"none", "arrived", "handling", "over"},
                                method : Methods, header : Headers \cup {NoHeader}]]
         /\ call'[c].at = at
         /\ at # "over" => call'[c] = [call[c] EXCEPT !.at = at]
         /\ \A d \in Calls \ {c} : call'[d] = call[d]
<1> DEFINE Type == [at : {"none", "arrived", "handling", "over"},
                    method : Methods, header : Headers \cup {NoHeader}]
<1>1. NoCall \in Type
  BY DEF NoCall, Methods
<1>2. [NoCall EXCEPT !.at = at] \in Type /\ [NoCall EXCEPT !.at = at].at = at
  BY <1>1
<1>3. call \in [Calls -> Type] /\ call[c] \in Type
  BY DEF TypeOK
<1>4. [call[c] EXCEPT !.at = at] \in Type /\ [call[c] EXCEPT !.at = at].at = at
  BY <1>3
<1>5. call' = [call EXCEPT ![c] =
          IF at = "over" THEN [NoCall EXCEPT !.at = at] ELSE [call[c] EXCEPT !.at = at]]
  BY DEF Moves
<1> HIDE DEF Type
<1>6. /\ call' \in [Calls -> Type]
      /\ call'[c].at = at
      /\ at # "over" => call'[c] = [call[c] EXCEPT !.at = at]
      /\ \A d \in Calls \ {c} : call'[d] = call[d]
  BY <1>2, <1>3, <1>4, <1>5
<1> QED
  BY <1>6 DEF Type

LEMMA InitType == Init => TypeOK
<1> SUFFICES ASSUME Init PROVE TypeOK
  OBVIOUS
<1>1. NoCall \in [at : {"none", "arrived", "handling", "over"},
                  method : Methods, header : Headers \cup {NoHeader}]
  BY DEF NoCall, Methods
<1>2. 1 \in 1 .. Len(Statements) + 1
  BY StatementFacts
<1> QED
  BY <1>1, <1>2 DEF Init, TypeOK, Starting

\* One statement of this pod's migration, or its end.
LEMMA MigrateFacts ==
  ASSUME TypeOK, SchemaInv, Migrate
  PROVE  /\ phase = "migrate" /\ mine \in 1 .. Len(Statements)
         /\ \/ /\ ~Conflict(Statements[mine])
               /\ schema' = Exec(Statements[mine]) /\ mine' = mine + 1
               /\ trouble' = trouble
               /\ \/ /\ mine = Len(Statements) /\ phase' = "kafka"
                     /\ wired' = [wired EXCEPT !.pg = TRUE]
                  \/ /\ mine # Len(Statements) /\ phase' = phase
                     /\ wired' = wired
            \/ /\ phase' = "kafka"
               /\ schema' = schema /\ mine' = mine /\ wired' = wired
               /\ \/ Conflict(Statements[mine]) /\ trouble' = trouble
                  \/ trouble' = trouble \cup {"pg"}
         /\ file' = file /\ env' = env /\ rival' = rival /\ overlap' = overlap
         /\ call' = call /\ media' = media
<1>1. phase = "migrate" /\ mine \in 1 .. Len(Statements)
  BY StatementFacts DEF Migrate, At, SchemaInv, TypeOK
<1> QED
  BY <1>1 DEF Migrate, At, Goto, Trouble, Serving

\* The steps of main's start keep the types.
LEMMA BootType ==
  ASSUME TypeOK, SchemaInv, Boot
  PROVE  TypeOK'
<1> USE DEF TypeOK, Goto, At, Outside, Serving, boot, Starting, Ending
<1>1. CASE LoadConfig
  BY <1>1 DEF LoadConfig
<1>2. CASE ConnectRedis
  BY <1>2, ChoiceTypes DEF ConnectRedis
<1>3. CASE SetUpStorage
  BY <1>3, ChoiceTypes DEF SetUpStorage, Trouble
<1>4. CASE ConnectMongo
  BY <1>4 DEF ConnectMongo, Trouble
<1>5. CASE OpenPostgres
  BY <1>5 DEF OpenPostgres, Trouble
<1>6. CASE Migrate
  <2>1. mine \in 1 .. Len(Statements)
    BY <1>6, MigrateFacts
  <2>2. Exec(Statements[mine]) \subseteq AllTables \cup {"trigger"}
    BY <2>1, ExecFacts
  <2>3. mine' \in 1 .. Len(Statements) + 1 /\ schema' \subseteq AllTables \cup {"trigger"}
    BY <1>6, <2>1, <2>2, MigrateFacts, StatementFacts
  <2> QED
    BY <1>6, <2>3, MigrateFacts
<1>7. CASE ConnectKafka
  BY <1>7 DEF ConnectKafka, Trouble
<1>8. CASE LoadAuth
  BY <1>8 DEF LoadAuth, Trouble
<1>9. CASE Listen
  BY <1>9 DEF Listen, Trouble
<1> QED
  BY <1>1, <1>2, <1>3, <1>4, <1>5, <1>6, <1>7, <1>8, <1>9 DEF Boot

\* The steps of main's start but the migration leave the schema, the calls
\* and PostgreSQL alone.
LEMMA BootFacts ==
  ASSUME TypeOK, Boot, ~Migrate
  PROVE  /\ file' = file /\ env' = env
         /\ schema' = schema /\ mine' = mine /\ rival' = rival
         /\ overlap' = overlap
         /\ call' = call /\ media' = media
         /\ wired'.pg = wired.pg
         /\ phase \in Starting \ {"migrate"}
         /\ phase' = "migrate" => phase = "postgres"
         /\ phase' \in BeforePg => phase \in BeforePg
         /\ phase' \notin {"draining", "stopping", "stopped", "closing"}
<1> USE DEF TypeOK, Goto, At, Outside, Serving, boot, Starting, BeforePg, BeforeMongo
<1>1. CASE LoadConfig
  BY <1>1 DEF LoadConfig
<1>2. CASE ConnectRedis
  BY <1>2 DEF ConnectRedis
<1>3. CASE SetUpStorage
  BY <1>3 DEF SetUpStorage
<1>4. CASE ConnectMongo
  BY <1>4 DEF ConnectMongo
<1>5. CASE OpenPostgres
  BY <1>5 DEF OpenPostgres
<1>6. CASE ConnectKafka
  BY <1>6 DEF ConnectKafka
<1>7. CASE LoadAuth
  BY <1>7 DEF LoadAuth
<1>8. CASE Listen
  BY <1>8 DEF Listen
<1> QED
  BY <1>1, <1>2, <1>3, <1>4, <1>5, <1>6, <1>7, <1>8 DEF Boot

\* A statement of the other pod's migration.
LEMMA RivalFacts ==
  ASSUME TypeOK, RivalMigrate
  PROVE  /\ phase \in Starting /\ rival \in 1 .. Len(Statements)
         /\ \/ /\ Conflict(Statements[rival])
               /\ rival' = Len(Statements) + 1 /\ schema' = schema
            \/ /\ ~Conflict(Statements[rival])
               /\ rival' = rival + 1 /\ schema' = Exec(Statements[rival])
         /\ overlap' = (overlap \/ phase = "migrate")
         /\ file' = file /\ env' = env /\ phase' = phase /\ wired' = wired
         /\ mine' = mine /\ trouble' = trouble
         /\ call' = call /\ media' = media
<1>1. rival \in 1 .. Len(Statements)
  BY StatementFacts DEF RivalMigrate, TypeOK
<1> QED
  BY <1>1 DEF RivalMigrate, At, Serving

\* A step of a call, or of the goroutine of an upload.
CallStep(c) ==
    \/ \E m \in Methods, h \in Headers : Call(c, m, h)
    \/ Handle(c) \/ SaveMediaUpload(c) \/ StreamEnds(c)

\* All that a step of a call may change.
LEMMA CallFacts ==
  ASSUME TypeOK, NEW c \in Calls, CallStep(c)
  PROVE  /\ file' = file /\ env' = env /\ phase' = phase /\ wired' = wired
         /\ schema' = schema /\ mine' = mine /\ rival' = rival
         /\ overlap' = overlap
         /\ phase \in {"serving", "draining", "stopping", "stopped", "closing"}
         /\ \/ trouble' = trouble
            \/ trouble' = trouble \cup {"sign"}
            \/ trouble' = trouble \cup {"insert"}
         /\ media' \in [Calls -> {"none", "pending", "saved", "lost"}]
         /\ \/ call' = call
            \/ /\ phase = "serving"
               /\ \E m \in Methods, h \in Headers :
                     call' = [call EXCEPT ![c] =
                        [at |-> "arrived", method |-> m, header |-> h]]
            \/ Moves(c, "over")
            \/ /\ Moves(c, "handling")
               /\ call[c].at = "arrived"
               /\ wired.auth => Admitted(call[c].method, call[c].header)
<1> USE DEF TypeOK, Rest, boot, Is, Running, At, Starting, Ending
<1>1. CASE \E m \in Methods, h \in Headers : Call(c, m, h)
  BY <1>1 DEF Call
<1>2. CASE UnaryHandler(c)
  BY <1>2 DEF UnaryHandler, UnaryServerInterceptor
<1>3. CASE StreamHandler(c)
  BY <1>3 DEF StreamHandler, StreamServerInterceptor
<1>4. CASE RequestUpload(c)
  BY <1>4 DEF RequestUpload, Trouble
<1>5. CASE Return(c)
  BY <1>5 DEF Return
<1>6. CASE SaveMediaUpload(c)
  BY <1>6 DEF SaveMediaUpload, Trouble
<1>7. CASE StreamEnds(c)
  BY <1>7 DEF StreamEnds
<1> QED
  BY <1>1, <1>2, <1>3, <1>4, <1>5, <1>6, <1>7 DEF CallStep, Handle

\* The end of a pod, and failing to serve, move phase.
LEMMA EndFacts ==
  ASSUME TypeOK, ServeFails \/ Signal \/ ShutDown
  PROVE  /\ file' = file /\ env' = env /\ wired' = wired
         /\ schema' = schema /\ mine' = mine /\ rival' = rival
         /\ overlap' = overlap /\ call' = call /\ media' = media
         /\ \/ trouble' = trouble
            \/ trouble' = trouble \cup {"serve"}
         /\ \/ phase' \in {"fatal", "exited"}
            \/ phase = "serving" /\ phase' = "draining"
            \/ phase = "draining" /\ phase' \in {"stopping", "stopped"}
            \/ phase = "stopping" /\ phase' = "stopped"
            \/ phase = "stopped" /\ phase' = "closing"
<1> USE DEF TypeOK, boot, Serving, At, Goto
<1>1. CASE ServeFails
  BY <1>1 DEF ServeFails, Trouble
<1>2. CASE Signal
  BY <1>2 DEF Signal
<1>3. CASE GracefulStop
  BY <1>3 DEF GracefulStop
<1>4. CASE Timeout \/ StopReturns
  BY <1>4 DEF Timeout, StopReturns
<1>5. CASE CloseMongo \/ ClosePostgres
  BY <1>5 DEF CloseMongo, ClosePostgres
<1> QED
  BY <1>1, <1>2, <1>3, <1>4, <1>5 DEF ShutDown

\* Every step is one of these.
LEMMA NextCases ==
  ASSUME [Next]_vars
  PROVE  \/ Boot \/ RivalMigrate \/ (ServeFails \/ Signal \/ ShutDown)
         \/ \E c \in Calls : CallStep(c)
         \/ UNCHANGED vars
  BY DEF Next, CallStep

LEMMA TypeStep ==
  ASSUME TypeOK, SchemaInv, [Next]_vars
  PROVE  TypeOK'
<1>1. CASE Boot
  BY <1>1, BootType
<1>2. CASE RivalMigrate
  <2>1. Exec(Statements[rival]) \subseteq AllTables \cup {"trigger"}
    BY <1>2, RivalFacts, ExecFacts DEF TypeOK
  <2>2. rival' \in 1 .. Len(Statements) + 1
    BY <1>2, RivalFacts, StatementFacts
  <2> QED
    BY <1>2, <2>1, <2>2, RivalFacts DEF TypeOK
<1>3. CASE ServeFails \/ Signal \/ ShutDown
  BY <1>3, EndFacts DEF TypeOK, Ending
<1>4. ASSUME NEW c \in Calls, CallStep(c)
      PROVE  TypeOK'
  <2>1. call' \in [Calls -> [at : {"none", "arrived", "handling", "over"},
                             method : Methods, header : Headers \cup {NoHeader}]]
    <3>1. CASE \E m \in Methods, h \in Headers :
                  call' = [call EXCEPT ![c] =
                     [at |-> "arrived", method |-> m, header |-> h]]
      BY <3>1 DEF TypeOK
    <3>2. CASE Moves(c, "over")
      BY <3>2, MovesType
    <3>3. CASE Moves(c, "handling")
      BY <3>3, MovesType
    <3>4. CASE call' = call
      BY <3>4 DEF TypeOK
    <3> QED
      BY <1>4, <3>1, <3>2, <3>3, <3>4, CallFacts
  <2> QED
    BY <1>4, <2>1, CallFacts DEF TypeOK
<1>5. CASE UNCHANGED vars
  BY <1>5 DEF vars, boot, TypeOK
<1> QED
  BY <1>1, <1>2, <1>3, <1>4, <1>5, NextCases

-----------------------------------------------------------------------------
(* The schema.                                                             *)

LEMMA SchemaStep ==
  ASSUME TypeOK, SchemaInv, PgInv, [Next]_vars
  PROVE  SchemaInv'
<1> USE StatementFacts
<1>0. \A i \in 1 .. Len(Tables) : Tables[i] \in AllTables
  BY TableAssumption DEF AllTables
<1>1. CASE Migrate
  <2>1. mine \in 1 .. Len(Statements) /\ schema \subseteq AllTables \cup {"trigger"}
    BY <1>1, MigrateFacts DEF TypeOK
  <2>2. schema \cap AllTables \subseteq schema'
    BY <1>1, <2>1, MigrateFacts, ExecFacts
  <2>3. mine' # mine => \A i \in 1 .. Len(Tables) : i < mine' => Tables[i] \in schema'
    <3> SUFFICES ASSUME mine' # mine, NEW i \in 1 .. Len(Tables), i < mine'
                 PROVE  Tables[i] \in schema'
      OBVIOUS
    <3>1. mine' = mine + 1 /\ schema' = Exec(Statements[mine])
      BY <1>1, MigrateFacts
    <3>2. CASE i = mine
      BY <2>1, <3>1, <3>2, ExecFacts
    <3>3. CASE i < mine
      BY <1>0, <2>2, <3>3 DEF SchemaInv
    <3> QED
      BY <2>1, <3>1, <3>2, <3>3
  <2>4. \A i \in 1 .. Len(Tables) : i < mine' => Tables[i] \in schema'
    BY <1>0, <2>2, <2>3 DEF SchemaInv
  <2>5. wired'.pg => mine' = Len(Statements) + 1 /\ "trigger" \in schema'
    <3>1. ~wired.pg
      BY <1>1, MigrateFacts DEF PgInv
    <3>2. mine = Len(Statements) => "trigger" \in Exec(Statements[mine])
      BY <2>1, ExecFacts
    <3> QED
      BY <1>1, <3>1, <3>2, MigrateFacts
  <2>6. /\ phase' \in BeforePg => mine' = 1
        /\ phase' = "migrate" => mine' <= Len(Statements)
    BY <1>1, <2>1, MigrateFacts DEF BeforePg, BeforeMongo
  <2> QED
    BY <2>4, <2>5, <2>6 DEF SchemaInv
<1>2. CASE Boot /\ ~Migrate
  <2>1. phase' = "migrate" => mine' <= Len(Statements)
    BY <1>2, BootFacts DEF SchemaInv, BeforePg
  <2> QED
    BY <1>2, <2>1, BootFacts DEF SchemaInv
<1>3. CASE RivalMigrate
  <2>1. rival \in 1 .. Len(Statements) /\ schema \subseteq AllTables \cup {"trigger"}
    BY <1>3, RivalFacts DEF TypeOK
  <2>2. schema \cap AllTables \subseteq schema'
    BY <1>3, <2>1, RivalFacts, ExecFacts
  <2>3. wired'.pg => "trigger" \in schema' \/ rival' = Len(Statements)
    <3>1. CASE rival <= Len(Tables)
      BY <1>3, <2>1, <3>1, RivalFacts, ExecFacts DEF SchemaInv
    <3>2. CASE rival = Len(Tables) + 1
      BY <1>3, <2>1, <3>2, RivalFacts, ExecFacts
    <3>3. CASE rival = Len(Tables) + 2
      BY <1>3, <2>1, <3>3, RivalFacts, ExecFacts
    <3> QED
      BY <2>1, <3>1, <3>2, <3>3
  <2> QED
    BY <1>0, <1>3, <2>2, <2>3, RivalFacts DEF SchemaInv
<1>4. CASE ServeFails \/ Signal \/ ShutDown
  BY <1>4, EndFacts DEF SchemaInv, BeforePg, BeforeMongo
<1>5. ASSUME NEW c \in Calls, CallStep(c)
      PROVE  SchemaInv'
  BY <1>5, CallFacts DEF SchemaInv
<1>6. CASE UNCHANGED vars
  BY <1>6 DEF vars, boot, SchemaInv
<1> QED
  BY <1>1, <1>2, <1>3, <1>4, <1>5, <1>6, NextCases

-----------------------------------------------------------------------------
(* What is wired.                                                          *)

WireInv == MongoInv /\ PgInv /\ BrokerInv /\ AuthInv

\* The settings of a pod do not change.
LEMMA CfgSame ==
  ASSUME file' = file, env' = env
  PROVE  /\ cfg' = cfg
         /\ PostgresDSNBuilt(cfg)' = PostgresDSNBuilt(cfg)
         /\ KafkaBrokers(cfg)' = KafkaBrokers(cfg)
<1>1. cfg' = cfg
  BY DEF cfg
<1>2. PostgresDSNBuilt(cfg)' = PostgresDSNBuilt(cfg)
  BY <1>1
<1>3. KafkaBrokers(cfg)' = KafkaBrokers(cfg)
  BY <1>1
<1> QED
  BY <1>1, <1>2, <1>3

\* The migration of this pod: without statements of another pod in between
\* the trigger is dropped when it is created, so nothing but an error can
\* keep PostgreSQL from being wired.
LEMMA MigratePg ==
  ASSUME TypeOK, SchemaInv, PgInv, Migrate
  PROVE  PgInv'
<1> USE StatementFacts
<1>1. mine \in 1 .. Len(Statements) /\ schema \subseteq AllTables \cup {"trigger"}
  BY MigrateFacts DEF TypeOK
<1>2. ~wired.pg /\ "pg" \notin trouble /\ wired.pg \in BOOLEAN
  BY MigrateFacts DEF PgInv, TypeOK
<1>3. Conflict(Statements[mine]) => overlap
  <2>1. CASE mine = Len(Tables) + 2
    BY <1>1, <2>1, MigrateFacts, ExecFacts DEF PgInv
  <2>2. CASE mine # Len(Tables) + 2
    <3>1. mine <= Len(Tables) \/ mine = Len(Tables) + 1
      BY <1>1, <2>2
    <3> QED
      BY <1>1, <3>1, ExecFacts
  <2> QED
    BY <2>1, <2>2
<1>4. phase' = "migrate" /\ mine' = Len(Statements) => "trigger" \notin schema'
  <2> SUFFICES ASSUME phase' = "migrate", mine' = Len(Statements)
               PROVE  "trigger" \notin schema'
    OBVIOUS
  <2>1. mine = Len(Tables) + 1 /\ schema' = Exec(Statements[mine])
    BY <1>1, MigrateFacts
  <2> QED
    BY <1>1, <2>1, ExecFacts
<1>5. wired'.pg => trouble' = trouble
  BY <1>2, MigrateFacts
<1>6. phase' = "migrate" => wired'.pg = wired.pg /\ trouble' = trouble
  BY MigrateFacts
<1>7. phase' = "kafka" => wired'.pg \/ "pg" \in trouble' \/ overlap'
  BY <1>1, <1>2, <1>3, MigrateFacts DEF TypeOK
<1>8. phase' \in {"kafka", "migrate"}
  BY MigrateFacts
<1> QED
  BY <1>2, <1>4, <1>5, <1>6, <1>7, <1>8
     DEF PgInv, BeforePg, BeforeMongo, AfterPg

\* The migration and the other parts.
LEMMA MigrateWire ==
  ASSUME TypeOK, SchemaInv, WireInv, Migrate
  PROVE  WireInv'
<1>1. cfg' = cfg /\ KafkaBrokers(cfg)' = KafkaBrokers(cfg)
  BY MigrateFacts, CfgSame
<1>2. /\ wired'.mongo = wired.mongo /\ wired'.redis = wired.redis
      /\ wired'.broker = wired.broker /\ wired'.auth = wired.auth
  BY MigrateFacts DEF TypeOK
<1>3. /\ phase = "migrate" /\ phase' \in {"migrate", "kafka"}
      /\ \A x \in {"mongo", "key"} : x \in trouble' <=> x \in trouble
  BY MigrateFacts
<1>4. MongoInv'
  BY <1>1, <1>2, <1>3 DEF WireInv, MongoInv, BeforeMongo, AfterPg
<1>5. BrokerInv'
  BY <1>1, <1>2, <1>3 DEF WireInv, BrokerInv, BeforePg, BeforeMongo
<1>6. AuthInv'
  BY <1>1, <1>2, <1>3 DEF WireInv, AuthInv, Starting, Served
<1> QED
  BY <1>4, <1>5, <1>6, MigratePg DEF WireInv

\* The parts wired as before, but for S.
AllParts == {"redis", "broker", "mongo", "auth"}
SameBut(S) == \A x \in AllParts \ S : wired'[x] = wired[x]

\* What each other step of main's start does to phase, trouble and wired.
LEMMA BootCases ==
  ASSUME TypeOK, Boot, ~Migrate
  PROVE  \/ phase' = "fatal" /\ ("pg" \in trouble' => "pg" \in trouble)
         \/ phase = "load" /\ phase' = "redis" /\ SameBut({}) /\ trouble' = trouble
         \/ /\ phase = "redis" /\ phase' = "storage" /\ trouble' = trouble
            /\ SameBut({"redis", "broker"})
            /\ wired'.broker = IF wired'.redis THEN "redis" ELSE "noop"
         \/ /\ phase = "storage" /\ phase' = "mongo" /\ SameBut({})
            /\ trouble' = trouble \/ trouble' = trouble \cup {"bucket"}
         \/ /\ phase = "mongo" /\ phase' = "postgres" /\ SameBut({"mongo"})
            /\ \/ wired'.mongo = (cfg["mongo_uri"] # "") /\ trouble' = trouble
               \/ wired'.mongo = wired.mongo /\ trouble' = trouble \cup {"mongo"}
         \/ /\ phase = "postgres" /\ SameBut({})
            /\ \/ phase' = "migrate" /\ trouble' = trouble
               \/ phase' = "kafka" /\ trouble' = trouble \cup {"pg"}
               \/ phase' = "kafka" /\ trouble' = trouble /\ ~PostgresDSNBuilt(cfg)
         \/ /\ phase = "kafka" /\ phase' = "auth" /\ SameBut({"broker"})
            /\ \/ KafkaBrokers(cfg) = <<>> /\ wired'.broker = wired.broker /\ trouble' = trouble
               \/ KafkaBrokers(cfg) # <<>> /\ wired'.broker = "kafka" /\ trouble' = trouble
         \/ /\ phase = "auth" /\ phase' = "listen" /\ SameBut({"auth"})
            /\ wired'.auth \/ cfg["jwt_disabled"] \/ "key" \in trouble'
            /\ trouble \subseteq trouble' /\ trouble' \subseteq trouble \cup {"key"}
         \/ phase = "listen" /\ phase' = "serving" /\ SameBut({}) /\ trouble' = trouble
<1> USE DEF Goto, At, Outside, boot, Trouble, SameBut, AllParts, TypeOK
<1>1. CASE LoadConfig
  BY <1>1 DEF LoadConfig
<1>2. CASE ConnectRedis
  <2>1. wired'.broker = IF wired'.redis THEN "redis" ELSE "noop"
    BY <1>2, ChoiceTypes DEF ConnectRedis
  <2>2. SameBut({"redis", "broker"})
    BY <1>2 DEF ConnectRedis
  <2> QED
    BY <1>2, <2>1, <2>2 DEF ConnectRedis
<1>3. CASE SetUpStorage
  BY <1>3 DEF SetUpStorage
<1>4. CASE ConnectMongo
  BY <1>4 DEF ConnectMongo
<1>5. CASE OpenPostgres
  BY <1>5 DEF OpenPostgres
<1>6. CASE ConnectKafka
  BY <1>6 DEF ConnectKafka
<1>7. CASE LoadAuth
  <2>1. SameBut({"auth"})
    BY <1>7 DEF LoadAuth
  <2>2. wired'.auth \/ cfg["jwt_disabled"] \/ "key" \in trouble'
    BY <1>7, FlagType DEF LoadAuth
  <2> QED
    BY <1>7, <2>1, <2>2 DEF LoadAuth
<1>8. CASE Listen
  BY <1>8 DEF Listen
<1> QED
  BY <1>1, <1>2, <1>3, <1>4, <1>5, <1>6, <1>7, <1>8 DEF Boot

LEMMA BootWire ==
  ASSUME TypeOK, SchemaInv, WireInv, Boot, ~Migrate
  PROVE  WireInv'
<1>1. /\ cfg' = cfg /\ KafkaBrokers(cfg)' = KafkaBrokers(cfg)
      /\ PostgresDSNBuilt(cfg)' = PostgresDSNBuilt(cfg)
      /\ schema' = schema /\ mine' = mine /\ overlap' = overlap
      /\ wired'.pg = wired.pg
  BY BootFacts, CfgSame
<1> USE DEF SameBut, AllParts
<1>2. MongoInv'
  <2>1. wired.mongo \in BOOLEAN
    BY DEF TypeOK
  <2> QED
    BY <1>1, <2>1, BootCases DEF WireInv, MongoInv, BeforeMongo, AfterPg
<1>3. PgInv'
  <2>1. phase' = "migrate" => mine # Len(Statements)
    BY BootFacts, StatementFacts DEF SchemaInv, BeforePg
  <2> QED
    BY <1>1, <2>1, BootCases DEF WireInv, PgInv, BeforePg, BeforeMongo, AfterPg
<1>4. BrokerInv'
  BY <1>1, BootCases DEF WireInv, BrokerInv, BeforePg, BeforeMongo
<1>5. AuthInv'
  BY <1>1, BootCases DEF WireInv, AuthInv, Starting, Served
<1> QED
  BY <1>2, <1>3, <1>4, <1>5 DEF WireInv

LEMMA WireStep ==
  ASSUME TypeOK, SchemaInv, WireInv, [Next]_vars
  PROVE  WireInv'
<1> USE DEF MongoInv, PgInv, BrokerInv, AuthInv, WireInv
<1>1. CASE Migrate
  BY <1>1, MigrateWire
<1>2. CASE Boot /\ ~Migrate
  BY <1>2, BootWire
<1>3. CASE RivalMigrate
  <2>1. cfg' = cfg /\ KafkaBrokers(cfg)' = KafkaBrokers(cfg)
        /\ PostgresDSNBuilt(cfg)' = PostgresDSNBuilt(cfg)
    BY <1>3, RivalFacts, CfgSame
  <2>2. phase = "migrate" => overlap'
    BY <1>3, RivalFacts
  <2>3. overlap => overlap'
    BY <1>3, RivalFacts
  <2> QED
    BY <1>3, <2>1, <2>2, <2>3, RivalFacts
<1>4. CASE ServeFails \/ Signal \/ ShutDown
  <2>1. cfg' = cfg /\ KafkaBrokers(cfg)' = KafkaBrokers(cfg)
        /\ PostgresDSNBuilt(cfg)' = PostgresDSNBuilt(cfg)
    BY <1>4, EndFacts, CfgSame
  <2>2. \A x \in {"mongo", "pg", "key"} : x \in trouble' <=> x \in trouble
    BY <1>4, EndFacts
  <2> QED
    BY <1>4, <2>1, <2>2, EndFacts
       DEF BeforeMongo, BeforePg, AfterPg, Served, Starting
<1>5. ASSUME NEW c \in Calls, CallStep(c)
      PROVE  WireInv'
  <2>1. cfg' = cfg /\ KafkaBrokers(cfg)' = KafkaBrokers(cfg)
        /\ PostgresDSNBuilt(cfg)' = PostgresDSNBuilt(cfg)
    BY <1>5, CallFacts, CfgSame
  <2>2. \A x \in {"mongo", "pg", "key"} : x \in trouble' <=> x \in trouble
    BY <1>5, CallFacts
  <2> QED
    BY <1>5, <2>1, <2>2, CallFacts
<1>6. CASE UNCHANGED vars
  <2>1. cfg' = cfg /\ KafkaBrokers(cfg)' = KafkaBrokers(cfg)
        /\ PostgresDSNBuilt(cfg)' = PostgresDSNBuilt(cfg)
    BY <1>6, CfgSame DEF vars
  <2> QED
    BY <1>6, <2>1 DEF vars, boot
<1> QED
  BY <1>1, <1>2, <1>3, <1>4, <1>5, <1>6, NextCases

-----------------------------------------------------------------------------
(* Calls.                                                                  *)

LEMMA CallInvStep ==
  ASSUME TypeOK, AuthInv, QuietInv, HandledAuthorised, [Next]_vars
  PROVE  QuietInv' /\ HandledAuthorised'
<1> USE DEF QuietInv, HandledAuthorised
<1>1. CASE Boot
  <2>1. /\ cfg' = cfg /\ call' = call /\ trouble \subseteq trouble'
        /\ phase \in Starting
    BY <1>1, CfgSame DEF Boot, LoadConfig, ConnectRedis, SetUpStorage, ConnectMongo,
       OpenPostgres, Migrate, ConnectKafka, LoadAuth, Listen, At, Goto, Outside,
       Serving, Trouble, Starting, boot
  <2> QED
    BY <2>1
<1>2. CASE RivalMigrate
  BY <1>2, RivalFacts, CfgSame
<1>3. CASE ServeFails \/ Signal \/ ShutDown
  BY <1>3, EndFacts, CfgSame DEF Starting, TypeOK
<1>4. ASSUME NEW c \in Calls, CallStep(c)
      PROVE  QuietInv' /\ HandledAuthorised'
  <2>1. /\ cfg' = cfg /\ wired' = wired /\ phase' = phase
        /\ trouble \subseteq trouble' /\ phase \notin Starting
    BY <1>4, CallFacts, CfgSame DEF Starting
  <2>2. CASE call' = call
    BY <2>1, <2>2
  <2>3. CASE /\ phase = "serving"
             /\ \E m \in Methods, h \in Headers :
                   call' = [call EXCEPT ![c] =
                      [at |-> "arrived", method |-> m, header |-> h]]
    BY <2>1, <2>3 DEF TypeOK
  <2>4. CASE Moves(c, "over")
    BY <2>1, <2>4, MovesType
  <2>5. CASE /\ Moves(c, "handling") /\ call[c].at = "arrived"
             /\ wired.auth => Admitted(call[c].method, call[c].header)
    <3>1. /\ call'[c] = [call[c] EXCEPT !.at = "handling"]
          /\ \A d \in Calls \ {c} : call'[d] = call[d]
      BY <2>5, MovesType
    <3>2. call'[c].method = call[c].method /\ call'[c].header = call[c].header
      BY <3>1 DEF TypeOK
    <3>3. phase \in Served
      BY <1>4, CallFacts DEF Served
    <3> QED
      BY <2>1, <2>5, <3>1, <3>2, <3>3 DEF Admitted, AuthInv
  <2> QED
    BY <1>4, <2>2, <2>3, <2>4, <2>5, CallFacts
<1>5. CASE UNCHANGED vars
  BY <1>5, CfgSame DEF vars, boot
<1> QED
  BY <1>1, <1>2, <1>3, <1>4, <1>5, NextCases

-----------------------------------------------------------------------------
(* The theorems.                                                           *)

LEMMA ServiceInit == Init => ServiceInv
<1> SUFFICES ASSUME Init PROVE ServiceInv
  OBVIOUS
<1>1. TypeOK
  BY InitType
<1>2. SchemaInv
  BY StatementFacts DEF Init, SchemaInv, BeforePg, BeforeMongo
<1> QED
  BY <1>1, <1>2 DEF Init, ServiceInv, MongoInv, PgInv, BrokerInv, AuthInv, QuietInv,
     HandledAuthorised, BeforeMongo, BeforePg, AfterPg, Served,
     Starting, NoCall

\* The inductive invariant holds throughout a pod's life (main.go, auth.go
\* 110-158, postgres.go 53-113).
THEOREM ServiceInvariant == Spec => []ServiceInv
<1>1. Init => ServiceInv
  BY ServiceInit
<1>2. ServiceInv /\ [Next]_vars => ServiceInv'
  BY TypeStep, SchemaStep, WireStep, CallInvStep DEF ServiceInv, WireInv
<1> QED
  BY <1>1, <1>2, PTL DEF Spec

\* Every variable of a pod keeps its type.
THEOREM ServiceTypeCorrect == Spec => []TypeOK
<1>1. ServiceInv => TypeOK
  BY DEF ServiceInv
<1> QED
  BY <1>1, ServiceInvariant, PTL

\* A pod that serves has every database the environment or the file names,
\* unless reaching it failed or two pods migrated at once, and its broker is
\* Kafka before Redis (main.go 35-166, config.go 156-305).
THEOREM AlwaysWired == Spec => []WiredAsConfigured
<1>1. ServiceInv => WiredAsConfigured
  <2> SUFFICES ASSUME ServiceInv, phase \in {"serving", "draining"}
               PROVE  WiredAsConfigured
    BY DEF WiredAsConfigured
  <2>1. cfg["mongo_uri"] = Set("mongo_uri") /\ cfg["postgres_dsn"] = Set("postgres_dsn")
    BY SetIsLoaded
  <2>2. Set("postgres_dsn") # "" => PostgresDSNBuilt(cfg)
    BY <2>1 DEF PostgresDSNBuilt
  <2>3. wired.mongo = (Set("mongo_uri") # "" /\ "mongo" \notin trouble)
    BY <2>1 DEF ServiceInv, MongoInv, BeforeMongo, AfterPg
  <2>4. /\ wired.pg => "pg" \notin trouble
        /\ (Set("postgres_dsn") # "" /\ "pg" \notin trouble /\ ~overlap) => wired.pg
    BY <2>2 DEF ServiceInv, PgInv, AfterPg
  <2>5. wired.broker =
           IF KafkaBrokers(cfg) # <<>> THEN "kafka"
           ELSE IF wired.redis THEN "redis" ELSE "noop"
    BY DEF ServiceInv, BrokerInv
  <2> QED
    BY <2>3, <2>4, <2>5 DEF WiredAsConfigured
<1> QED
  BY <1>1, ServiceInvariant, PTL

\* PostgreSQL is used with all its tables, and without its trigger only while
\* another pod replaces it (postgres.go 53-113, main.go 119-135).
THEOREM SchemaAlwaysReady == Spec => []SchemaReady
<1>1. ServiceInv => SchemaReady
  <2> SUFFICES ASSUME ServiceInv, wired.pg PROVE SchemaReady
    BY DEF SchemaReady
  <2>1. mine = Len(Statements) + 1 /\ ("trigger" \in schema \/ rival = Len(Statements))
    BY DEF ServiceInv, SchemaInv
  <2>2. \A i \in 1 .. Len(Tables) : Tables[i] \in schema
    BY <2>1, StatementFacts DEF ServiceInv, SchemaInv
  <2>3. DOMAIN Tables = 1 .. Len(Tables)
    BY TableAssumption
  <2> QED
    BY <2>1, <2>2, <2>3 DEF SchemaReady, AllTables
<1> QED
  BY <1>1, ServiceInvariant, PTL

\* No handler runs for a call without a valid token, unless authentication is
\* disabled or has no key (auth.go 110-158, main.go 171-191).
THEOREM AlwaysAuthorised == Spec => []HandledAuthorised
<1>1. ServiceInv => HandledAuthorised
  BY DEF ServiceInv
<1> QED
  BY <1>1, ServiceInvariant, PTL

-----------------------------------------------------------------------------
(* Why a pod stops, and why a document is lost.                            *)

FatalCause ==
    phase = "fatal" =>
       ~validate(cfg) \/ trouble \cap {"storage", "listen", "serve"} # {}

LostCause ==
    \A c \in Calls : media[c] = "lost" =>
       "insert" \in trouble \/ phase \in {"closing", "exited"}

LEMMA CauseStep ==
  ASSUME TypeOK, SchemaInv, FatalCause, LostCause, [Next]_vars
  PROVE  FatalCause' /\ LostCause'
<1> USE DEF FatalCause, LostCause
<1>1. CASE Migrate
  <2>1. phase' \in {"migrate", "kafka"} /\ media' = media /\ trouble \subseteq trouble'
        /\ phase = "migrate"
    BY <1>1, MigrateFacts
  <2> QED
    BY <2>1
<1>2. CASE Boot /\ ~Migrate
  <2>1. cfg' = cfg /\ media' = media /\ phase \in Starting
    BY <1>2, BootFacts, CfgSame
  <2>2. trouble \subseteq trouble'
    BY <1>2 DEF Boot, LoadConfig, ConnectRedis, SetUpStorage, ConnectMongo,
       OpenPostgres, ConnectKafka, LoadAuth, Listen, Trouble
  <2>3. phase' = "fatal" =>
           ~validate(cfg) \/ "storage" \in trouble' \/ "listen" \in trouble'
    BY <1>2 DEF Boot, LoadConfig, ConnectRedis, SetUpStorage, ConnectMongo,
       OpenPostgres, ConnectKafka, LoadAuth, Listen, Trouble, Goto
  <2>4. validate(cfg)' = validate(cfg)
    BY <2>1
  <2> QED
    BY <2>1, <2>2, <2>3, <2>4 DEF Starting
<1>3. CASE RivalMigrate
  <2>1. cfg' = cfg /\ media' = media /\ phase' = phase /\ trouble' = trouble
    BY <1>3, RivalFacts, CfgSame
  <2>2. validate(cfg)' = validate(cfg)
    BY <2>1
  <2> QED
    BY <2>1, <2>2
<1>4. CASE ServeFails \/ Signal \/ ShutDown
  <2>1. media' = media /\ trouble \subseteq trouble'
    BY <1>4, EndFacts
  <2>2. /\ phase' = "fatal" => "serve" \in trouble'
        /\ phase \in {"closing", "exited"} => phase' \in {"closing", "exited"}
    BY <1>4 DEF ServeFails, Signal, ShutDown, GracefulStop, Timeout, StopReturns, CloseMongo,
       ClosePostgres, At, Goto, Trouble, Starting
  <2> QED
    BY <2>1, <2>2
<1>5. ASSUME NEW c \in Calls, CallStep(c)
      PROVE  FatalCause' /\ LostCause'
  <2>1. /\ cfg' = cfg /\ phase' = phase /\ trouble \subseteq trouble'
        /\ phase \in {"serving", "draining", "stopping", "stopped", "closing"}
    BY <1>5, CallFacts, CfgSame
  <2>2. ASSUME NEW d \in Calls, media'[d] = "lost", media[d] # "lost"
        PROVE  "insert" \in trouble' \/ phase = "closing"
    BY <1>5, <2>2 DEF CallStep, Call, Handle, UnaryHandler, StreamHandler,
       RequestUpload, Return, SaveMediaUpload, StreamEnds, Trouble, TypeOK
  <2> QED
    BY <2>1, <2>2
<1>6. CASE UNCHANGED vars
  <2>1. cfg' = cfg
    BY <1>6, CfgSame DEF vars
  <2>2. validate(cfg)' = validate(cfg)
    BY <2>1
  <2> QED
    BY <1>6, <2>1, <2>2 DEF vars
<1> QED
  BY <1>1, <1>2, <1>3, <1>4, <1>5, <1>6, NextCases

\* A pod ends itself only for an invalid port, a storage that cannot be set
\* up, a port in use or a server that fails, never for Redis, Kafka or a
\* database (main.go 28-213).  This is the safety half of Starts.
THEOREM FatalOnlyForCause == Spec => []FatalCause
<1>1. Init => FatalCause /\ LostCause
  BY DEF Init, FatalCause, LostCause
<1>2. ServiceInv /\ FatalCause /\ LostCause /\ [Next]_vars => FatalCause' /\ LostCause'
  BY CauseStep DEF ServiceInv
<1> QED
  BY <1>1, <1>2, ServiceInvariant, PTL DEF Spec

\* The document of an upload is lost only when the insert fails or when it
\* comes after MongoDB was closed (grpc_server.go 463-469, main.go 227-236).
\* This is the safety half of UploadRecorded.
THEOREM LostOnlyForCause == Spec => []LostCause
<1>1. Init => FatalCause /\ LostCause
  BY DEF Init, FatalCause, LostCause
<1>2. ServiceInv /\ FatalCause /\ LostCause /\ [Next]_vars => FatalCause' /\ LostCause'
  BY CauseStep DEF ServiceInv
<1> QED
  BY <1>1, <1>2, ServiceInvariant, PTL DEF Spec

=============================================================================
