----------------------------- MODULE MCService -----------------------------
(***************************************************************************)
(* Small instances of Service for TLC.                                     *)
(***************************************************************************)
EXTENDS Service

\* A file for a pod with Cloudinary and without PostgreSQL.
CloudFile ==
    [s \in CloudinaryKeys \cup {"storage_backend", "postgres_host"} |->
       CASE s = "storage_backend" -> "cloudinary" [] s = "postgres_host" -> ""
         [] OTHER -> "file"]

\* A file that names everything, and environments that change parts of it.
FullFile ==
    [s \in {"redis_addr", "mongo_uri", "postgres_dsn", "kafka_brokers",
            "minio_endpoint"} |->
       IF s = "kafka_brokers" THEN <<"k1", "", "k2">> ELSE "file"]

LocalEnv ==
    [s \in {"redis_url", "postgres_host", "jwt_disabled", "mongo_uri"} |->
       CASE s = "redis_url" -> "malformed" [] s = "jwt_disabled" -> TRUE
         [] OTHER -> ""]

ProductionEnv ==
    [s \in {"storage_backend", "kafka_brokers", "jwt_disabled", "mongo_uri",
            "port"} |->
       CASE s = "storage_backend" -> "s3" [] s = "kafka_brokers" -> <<"", "">>
         [] s = "jwt_disabled" -> FALSE [] s = "port" -> <<>>
         [] OTHER -> "env"]

BadPort == [s \in {"port"} |-> <<0>>]

MCFiles == {CloudFile, FullFile}
MCEnvs == {LocalEnv, ProductionEnv, BadPort}

Token == [alg |-> "RS256", key |-> "auth_service", audience |-> "graphql-api",
          issuer |-> "ZPC", expired |-> FALSE]

MCHeaders == {[scheme |-> "Bearer", token |-> Token],
              [scheme |-> "none", token |-> [Token EXCEPT !.expired = TRUE]]}

MCTables == <<"rooms", "members">>

=============================================================================
