------------------------------ MODULE ServerConfig ------------------------------
(***************************************************************************)
(* What the server makes of its configuration where two keys, their        *)
(* defaults and the environment name the same thing: the endpoint traces   *)
(* go to and the share of them that is sampled.  Load and                  *)
(* normalizeTelemetry settle the configuration, the security check judges  *)
(* it, and telemetry.Configure settles once more what is used.             *)
(*                                                                         *)
(* Ratios are percentages.  The protocol is settled like the endpoint, and *)
(* left out.                                                               *)
(***************************************************************************)
EXTENDS Integers

CONSTANTS
    Endpoints,   \* collector addresses
    Ratios,      \* sampling ratios the operator may ask for
    Unset         \* a key or variable that is not set

NoEndpoint == ""
DefaultEndpoint == "localhost:4317"

\* The keys of the file: each thing has a flat and a nested one.
ConfigFile == [otlp_endpoint : Endpoints \cup {NoEndpoint, Unset},
               endpoint : Endpoints \cup {NoEndpoint, Unset},
               sampling_ratio : Ratios \cup {Unset}, ratio : Ratios \cup {Unset}]

\* IRONROOT_TELEMETRY_OTLP_ENDPOINT, _EXPORTER_ENDPOINT and _SAMPLING_RATIO, the
\* OTEL_ variables of the endpoint and the sampler, and its argument.  An empty
\* variable, or an argument that is no number, counts as none.
Environment == [prefixed_otlp : Endpoints \cup {Unset}, prefixed_endpoint : Endpoints \cup {Unset},
                prefixed_ratio : Ratios \cup {Unset}, endpoint : Endpoints \cup {Unset},
                sampler : {"always_on", "always_off", "traceidratio", Unset},
                arg : Ratios \cup {Unset}]

\* A value that is not set is none that may be, and no collector has no address.
ASSUME ServerConfigAssumption ==
    /\ Ratios \subseteq Nat
    /\ Unset \notin Nat /\ Unset \notin Endpoints
    /\ Unset \notin {NoEndpoint, DefaultEndpoint, "always_on", "always_off", "traceidratio"}
    /\ NoEndpoint \notin Endpoints

First(value, otherwise) == IF value # Unset THEN value ELSE otherwise

\* viper: environment, file, default.  The dot and the underscore of the two keys
\* for the ratio become the same underscore, so one variable sets both; each key
\* for the endpoint has a variable of its own.
Unmarshal(file, env) ==
    [otlp_endpoint  |-> First(env.prefixed_otlp, First(file.otlp_endpoint, DefaultEndpoint)),
     endpoint       |-> First(env.prefixed_endpoint, First(file.endpoint, DefaultEndpoint)),
     sampling_ratio |-> First(env.prefixed_ratio, First(file.sampling_ratio, 100)),
     ratio          |-> First(env.prefixed_ratio, First(file.ratio, 100))]

\* Mutation: the environment sets the nested keys only.
FromEnvironmentNested(cfg, env) ==
    [cfg EXCEPT !.endpoint = First(env.endpoint, cfg.endpoint),
                !.ratio = First(env.arg, cfg.ratio)]

\* The first half of normalizeTelemetry: the environment, into both keys.
FromEnvironment(cfg, env) ==
    LET named == CASE env.sampler = "always_on" -> 100
                   [] env.sampler = "always_off" -> 0
                   [] OTHER -> Unset
        sampler == First(env.arg, named)
    IN [otlp_endpoint  |-> First(env.endpoint, cfg.otlp_endpoint),
        endpoint       |-> First(env.endpoint, cfg.endpoint),
        sampling_ratio |-> First(sampler, cfg.sampling_ratio),
        ratio          |-> First(sampler, cfg.ratio)]

\* The second half: where one key is empty the other stands in.  The nested ratio
\* is filled first.
FillIn(cfg) ==
    LET ratio == IF cfg.ratio = 0 THEN cfg.sampling_ratio ELSE cfg.ratio
    IN [otlp_endpoint  |-> IF cfg.otlp_endpoint = NoEndpoint THEN cfg.endpoint ELSE cfg.otlp_endpoint,
        endpoint       |-> IF cfg.endpoint = NoEndpoint THEN cfg.otlp_endpoint ELSE cfg.endpoint,
        sampling_ratio |-> IF cfg.sampling_ratio = 0 THEN ratio ELSE cfg.sampling_ratio,
        ratio          |-> ratio]

\* config.Load and normalizeTelemetry
LoadConfig(file, env) == FillIn(FromEnvironment(Unmarshal(file, env), env))

\* telemetry.Configure: the nested key wins unless it is empty.
Configure(cfg) ==
    [endpoint |-> IF cfg.endpoint # NoEndpoint THEN cfg.endpoint ELSE cfg.otlp_endpoint,
     ratio    |-> IF cfg.ratio # 0 THEN cfg.ratio ELSE cfg.sampling_ratio]
=================================================================================
