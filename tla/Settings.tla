------------------------------ MODULE Settings ------------------------------
(***************************************************************************)
(* The settings of the services: what each Load reads and refuses.  A port *)
(* or a timeout is positive, zero, or text that is no number.  Secrets,    *)
(* addresses, topics and the rest are only checked here and later used as  *)
(* they are, so they are one value: sound, or one that a check refuses.    *)
(***************************************************************************)

Numbers == {"positive", "zero", "junk"}

Environments ==
    [DEFAULT_CALL_TIMEOUT : Numbers, DEFAULT_QUERY_TIMEOUT : Numbers, GRPC_PORT : Numbers,
     METRICS_PORT : Numbers, CERT_PATH : {"directory", "junk"}, rest : {"sound", "refused"}]

\* What does not parse, or is not set, is replaced by a default, which is positive.
GetEnvInt(env, key) == IF env[key] = "junk" THEN "positive" ELSE env[key]

GetEnvDuration(env, key) == GetEnvInt(env, key)

\* LoadBase and LoadServerBase.
Common(env) ==
    [CertPath            |-> env.CERT_PATH,
     DefaultCallTimeout  |-> GetEnvDuration(env, "DEFAULT_CALL_TIMEOUT"),
     DefaultQueryTimeout |-> GetEnvDuration(env, "DEFAULT_QUERY_TIMEOUT"),
     GRPCPort            |-> GetEnvInt(env, "GRPC_PORT"),
     MetricsPort         |-> GetEnvInt(env, "METRICS_PORT")]

\* ValidateJWTSecret, ValidatePostgresDSN and their like: each Load has its own selection.
Validate(env) == env.rest = "sound"

PaymentValidate(env) ==
    LET cfg == Common(env) IN
    /\ Validate(env)
    /\ {cfg.GRPCPort, cfg.MetricsPort, cfg.DefaultCallTimeout, cfg.DefaultQueryTimeout} = {"positive"}

NotificationValidate(env) ==
    Validate(env) /\ {Common(env).DefaultCallTimeout, Common(env).DefaultQueryTimeout} = {"positive"}

\* Whether Load of a service accepts an environment.
Accepts(service, env) ==
    CASE service = "payment"      -> PaymentValidate(env)
      [] service = "notification" -> NotificationValidate(env)
      [] OTHER                    -> Validate(env)
=============================================================================
