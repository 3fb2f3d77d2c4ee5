------------------------------ MODULE Config ------------------------------
(***************************************************************************)
(* app/config/config.go as operators: how the settings of a pod come from   *)
(* the defaults, the YAML file and the environment, and what main.go        *)
(* derives from them.                                                       *)
(*                                                                         *)
(* Only the settings that decide which parts are started are here; the      *)
(* others (names, passwords, regions) are read in the same three ways.      *)
(* A file or an environment is a function on the settings it has.  A string *)
(* is a word, "" if empty; a comma separated list is the sequence of its    *)
(* words; a number is <<n>>, or <<>> where the text is not one.             *)
(***************************************************************************)
EXTENDS Integers, Sequences

Lists   == {"kafka_brokers"}
Numbers == {"port"}
Flags   == {"jwt_disabled"}
CloudinaryKeys == {"cloud_name", "api_key", "api_secret"}
Strings == CloudinaryKeys \cup
           {"redis_url", "redis_addr", "storage_backend", "s3_bucket",
            "minio_endpoint", "mongo_uri", "postgres_dsn", "postgres_host"}
Settings == Lists \cup Numbers \cup Flags \cup Strings

Default(s) ==
    CASE s = "port"            -> <<50051>>
      [] s = "storage_backend" -> "minio"
      [] s = "s3_bucket"       -> "chat-media"
      [] s = "postgres_host"   -> "localhost"
      [] s \in Lists           -> <<"">>
      [] s \in Flags           -> FALSE
      [] OTHER                 -> ""

\* The file replaces defaults, with empty values too, but not with numbers it
\* cannot read.
FromFile(file, s) ==
    IF s \in DOMAIN file /\ ~(s \in Numbers /\ file[s] = <<>>)
       THEN file[s] ELSE Default(s)

\* Faulty variant of Load: an empty variable replaces what the file says.
LoadEmptyWins(file, env) ==
    [s \in Settings |-> IF s \in DOMAIN env /\ s \notin Numbers THEN env[s]
                        ELSE FromFile(file, s)]

\* The environment replaces what the file says unless it is empty or no
\* number; a flag can only be set.
Load(file, env) ==
    [s \in Settings |->
       LET v == IF s \in DOMAIN env THEN env[s] ELSE Default(s)
           set == s \in DOMAIN env /\
                  CASE s \in Lists   -> v # <<"">>
                    [] s \in Numbers -> v # <<>>
                    [] s \in Flags   -> v
                    [] OTHER         -> v # ""
       IN  IF set THEN v ELSE FromFile(file, s)]

validate(cfg) == cfg["port"][1] \in 1 .. 65535

\* The words of the list that are not empty.
KafkaBrokers(cfg) == SelectSeq(cfg["kafka_brokers"], LAMBDA b : b # "")

\* There is a connection string: the one that is set, or one made of the host.
PostgresDSNBuilt(cfg) == cfg["postgres_dsn"] # "" \/ cfg["postgres_host"] # ""

\* NewRedisClient: whether there is a client.  A URL that is not one leaves
\* none, also when there is an address.
NewRedisClient(cfg) ==
    IF cfg["redis_url"] # "" THEN cfg["redis_url"] # "malformed"
    ELSE cfg["redis_addr"] # ""

\* Whether a storage has what it needs to be set up.
NewCloudinaryStorage(cfg) == \A k \in CloudinaryKeys : cfg[k] # ""
NewS3Storage(cfg) == cfg["s3_bucket"] # ""
NewMinioStorage(cfg) == cfg["minio_endpoint"] # ""

\* The storage that is to be set up, if any; every other name means MinIO.
StorageChosen(cfg) ==
    CASE cfg["storage_backend"] = "cloudinary" ->
            IF NewCloudinaryStorage(cfg) THEN "cloudinary" ELSE "none"
      [] cfg["storage_backend"] = "s3" ->
            IF NewS3Storage(cfg) THEN "s3" ELSE "none"
      [] OTHER ->
            IF NewMinioStorage(cfg) THEN "minio" ELSE "none"

=============================================================================
