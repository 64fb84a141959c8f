----------------------------- MODULE SecurityCheck -----------------------------
(***************************************************************************)
(* ironroot-admin security-check on what the ceremony has left: each check *)
(* as the status it reports, the exit code made of them, and beside it the *)
(* CA page of the status API, which judges the certificates a server has   *)
(* loaded by computations of its own.                                      *)
(*                                                                         *)
(* A target is everything a check looks at besides the ceremony's files:   *)
(* host, configuration, modes of files, database.  The report's texts, its *)
(* order and its counts decide nothing and are left out.                   *)
(***************************************************************************)
EXTENDS LocalPki, ServerConfig

CONSTANTS
    Targets,       \* hosts and configurations the command is run with
    ConfigFiles,   \* telemetry keys of the server's configuration files
    Environments   \* telemetry variables of its environment

\* Mode of a file: no path, no file, no permission to look, open to others, or not.
Modes == {"none", "missing", "hidden", "open", "private"}

Target ==
    [as_root : BOOLEAN, secrets_in_env : BOOLEAN, container : BOOLEAN, kubernetes : BOOLEAN,
     default_namespace : BOOLEAN,
     config_mode : Modes, key_mode : Modes, database_mode : Modes,
     root_in_place : BOOLEAN,  \* pki.root_file names the ceremony's own directory
     long_lived : BOOLEAN,     \* pki.default_lifetime is over 90 days
     sqlite : BOOLEAN, on_data : BOOLEAN,
     database : {"unreachable", "unmigrated", "migrated"},
     ledger : {"unavailable", "no table", "unreadable", "whole", "broken"},
     public : BOOLEAN, tls : {"none", "unreadable", "valid", "expired"},
     telemetry : BOOLEAN, identified : BOOLEAN, production : BOOLEAN, sampling_ratio : Nat]

ASSUME SecurityCheckAssumption ==
    /\ Targets \subseteq Target
    /\ ConfigFiles \subseteq ConfigFile /\ Environments \subseteq Environment

-----------------------------------------------------------------------------
(* The authority's checks                                                  *)

\* A root key is found in the directory of the root certificate.
RootPrivateKeyAbsentCheck(t) ==
    IF t.root_in_place /\ files["root-ca.key"] # Missing THEN "fail" ELSE "pass"

\* A key that cannot be looked at, for whatever reason, is skipped.
IntermediateKeyCheck(t) ==
    CASE t.key_mode \in {"none", "missing", "hidden"} -> "skip"
      [] t.key_mode = "open" -> "fail"
      [] t.key_mode = "private" -> "pass"

\* x509's Verify also wants both certificates to be valid now.
CAChainCheck ==
    LET root == files["root-ca.crt"]
        intermediate == files["intermediate-ca.crt"]
    IN IF ~Complete(root) \/ ~Complete(intermediate) THEN "skip"
       ELSE IF VerifyChain /\ clock <= intermediate.until /\ clock <= root.until
            THEN "pass" ELSE "fail"

\* Mutation: the ends are not compared with the present time.
CertificateLifetimeCheckIgnoringExpiry(t) ==
    LET root == files["root-ca.crt"]
        intermediate == files["intermediate-ca.crt"]
        readable == Complete(root) /\ Complete(intermediate)
    IN IF readable /\ root.until <= intermediate.until THEN "fail"
       ELSE IF readable /\ (\/ intermediate.until - clock < RotateWithin
                            \/ root.until - clock < MigrateWithin) THEN "warn"
       ELSE IF t.long_lived THEN "warn" ELSE "pass"

CertificateLifetimeCheck(t) ==
    LET root == files["root-ca.crt"]
        intermediate == files["intermediate-ca.crt"]
        readable == Complete(root) /\ Complete(intermediate)
    IN IF readable /\ (root.until <= intermediate.until \/ clock > intermediate.until) THEN "fail"
       ELSE IF readable /\ (\/ intermediate.until - clock < RotateWithin
                            \/ root.until - clock < MigrateWithin) THEN "warn"
       ELSE IF t.long_lived THEN "warn" ELSE "pass"

-----------------------------------------------------------------------------
(* The other checks                                                        *)

HostCheck(t) == IF t.as_root THEN "warn" ELSE "pass"

EnvironmentSecretsCheck(t) == IF t.secrets_in_env THEN "warn" ELSE "pass"

FilePermissionCheck(mode) ==
    CASE mode \in {"none", "missing"} -> "skip"
      [] mode = "hidden" -> "warn"
      [] mode = "open" -> "fail"
      [] mode = "private" -> "pass"

DatabaseReachableCheck(t) ==
    IF ~t.sqlite THEN "skip" ELSE IF t.database = "migrated" THEN "pass" ELSE "fail"

SQLiteKubernetesCheck(t) ==
    IF ~t.kubernetes \/ ~t.sqlite THEN "skip" ELSE IF t.on_data THEN "pass" ELSE "warn"

APITLSCheck(t) ==
    CASE t.tls \in {"none", "expired"} -> "fail"
      [] t.tls = "unreadable" -> "warn"
      [] t.tls = "valid" -> "pass"

APIBindCheck(t) ==
    IF ~t.public THEN "pass" ELSE IF t.tls = "none" THEN "fail" ELSE "warn"

\* AuditChainCheck; AuditLedger has the verdict on a ledger that can be read.
AuditChainCheck(t) ==
    CASE t.ledger \in {"unavailable", "no table"} -> "warn"
      [] t.ledger \in {"unreadable", "broken"} -> "fail"
      [] t.ledger = "whole" -> "pass"

\* The share of traces the check looks at is the flat key's.
TelemetryCheck(t) ==
    IF ~t.telemetry THEN "warn"
    ELSE IF ~t.identified THEN "fail"
    ELSE IF t.sampling_ratio >= 100 /\ t.production THEN "warn" ELSE "pass"

ContainerCheck(t) == IF ~t.container THEN "skip" ELSE IF t.as_root THEN "fail" ELSE "pass"

KubernetesCheck(t) == IF ~t.kubernetes THEN "skip" ELSE IF t.default_namespace THEN "warn" ELSE "pass"

-----------------------------------------------------------------------------
(* The report                                                              *)

SeverityRank == [info |-> 0, low |-> 1, medium |-> 2, high |-> 3, critical |-> 4]

Severity ==
    [host_runtime |-> "low", host_env |-> "medium", config_permissions |-> "high",
     ca_permissions |-> "high", database_permissions |-> "high", root_key_absent |-> "critical",
     intermediate_key |-> "high", chain_valid |-> "critical", lifetimes |-> "medium",
     database_reachable |-> "high", sqlite_kubernetes |-> "medium", tls_enabled |-> "high",
     bind_address |-> "medium", tokens_ttl |-> "medium", audit_enabled |-> "medium",
     ledger_chain |-> "critical", telemetry |-> "low", container |-> "low", kubernetes |-> "low"]

\* DefaultRunner and Run.  TokenTTLCheck and AuditCheck look at nothing.
Report(t) ==
    [host_runtime |-> HostCheck(t), host_env |-> EnvironmentSecretsCheck(t),
     config_permissions |-> FilePermissionCheck(t.config_mode),
     ca_permissions |-> FilePermissionCheck(t.key_mode),
     database_permissions |-> FilePermissionCheck(t.database_mode),
     root_key_absent |-> RootPrivateKeyAbsentCheck(t), intermediate_key |-> IntermediateKeyCheck(t),
     chain_valid |-> CAChainCheck, lifetimes |-> CertificateLifetimeCheck(t),
     database_reachable |-> DatabaseReachableCheck(t), sqlite_kubernetes |-> SQLiteKubernetesCheck(t),
     tls_enabled |-> APITLSCheck(t), bind_address |-> APIBindCheck(t),
     tokens_ttl |-> "skip", audit_enabled |-> "pass", ledger_chain |-> AuditChainCheck(t),
     telemetry |-> TelemetryCheck(t), container |-> ContainerCheck(t),
     kubernetes |-> KubernetesCheck(t)]

\* Mutation: the threshold itself is let through.
FailsAbove(report, threshold) ==
    \E check \in DOMAIN Severity :
        report[check] = "fail" /\ SeverityRank[Severity[check]] > SeverityRank[threshold]

FailsThreshold(report, threshold) ==
    \E check \in DOMAIN Severity :
        report[check] = "fail" /\ SeverityRank[Severity[check]] >= SeverityRank[threshold]

\* The exit code: 2 if the configuration cannot be loaded, the options are wrong
\* or the report cannot be written.
ExitCode(t, threshold, ran) ==
    IF ~ran THEN 2 ELSE IF FailsThreshold(Report(t), threshold) THEN 1 ELSE 0

-----------------------------------------------------------------------------
(* The CA page of a server                                                 *)

\* Mutation: the intermediate's end is not looked at.
CaStatusOfRoot ==
    LET root == {c \in {server.root} : server.step = "ready" /\ Complete(c)}
    IN [chain_status |-> IF root # {} THEN "valid" ELSE "unconfigured",
        migrate |-> \E c \in root : c.until - clock < MigrateWithin,
        rotate |-> FALSE]

\* caStatus: the root and the first certificate of the chain, as they were loaded.
CaStatus ==
    LET root == {c \in {server.root} : server.step = "ready" /\ Complete(c)}
        chain == {c \in {server.chain} : server.step = "ready" /\ Complete(c)}
    IN [chain_status |-> IF chain # {} THEN "valid" ELSE IF root # {} THEN "unknown" ELSE "unconfigured",
        migrate |-> \E c \in root : c.until - clock < MigrateWithin,
        rotate |-> \E c \in chain : c[1].until - clock < RotateWithin]

-----------------------------------------------------------------------------
\* Everything besides the certificates is as the documentation asks for.
Hardened(t) ==
    /\ ~t.root_in_place /\ ~t.as_root /\ t.tls = "valid" /\ t.sqlite /\ t.database = "migrated"
    /\ {t.config_mode, t.key_mode, t.database_mode} \subseteq {"missing", "private"}
    /\ t.ledger = "whole" /\ t.identified

\* security-check as a gate: on what the commands delivered it passes until the
\* intermediate expires and fails from then on, at every threshold where nothing
\* else is wrong, and at "critical" whatever else is wrong, unless the root key
\* lies beside its certificate.  The two checks that compare the ends, each in
\* its own way, fail at the same instants, except that one of them wants the
\* root to end later: where both end together it fails up to "medium" all along
\* (CAChainCheck, CertificateLifetimeCheck, FailsThreshold, securityCheck).
GateTracksDelivered ==
    LET expired == clock > delivered.intermediate.cert.until
        together == delivered.intermediate.cert.until = delivered.root.cert.until
    IN \A t \in Targets :
        /\ CAChainCheck = "fail" <=> expired
        /\ CertificateLifetimeCheck(t) = "fail" <=> expired \/ together
        /\ t.ledger \notin {"unreadable", "broken"} =>
              (ExitCode(t, "critical", TRUE) = 1 <=> expired \/ t.root_in_place)
        /\ Hardened(t) => \A threshold \in DOMAIN SeverityRank :
              ExitCode(t, threshold, TRUE) = 1
                  <=> expired \/ (together /\ threshold \in {"info", "low", "medium"})

\* The CA page of a server that loaded what was delivered calls its chain valid,
\* and warns of an end exactly when the lifetime check does or fails, although
\* one reads the server's memory and the chain file, the other the certificate
\* files (caStatus, CertificateLifetimeCheck).
PageTracksDelivered ==
    (/\ server.undisturbed /\ server.step = "ready"
     /\ server.cert = delivered.intermediate.cert
     /\ delivered.intermediate.cert.until < delivered.root.cert.until) =>
        /\ CaStatus.chain_status = "valid"
        /\ \A t \in Targets : ~t.long_lived =>
              (CaStatus.rotate \/ CaStatus.migrate <=> CertificateLifetimeCheck(t) # "pass")

\* What later looks at the delivered files judges them alike and at the right
\* instants: the exit code of security-check and the CA page of the status API.
ViewsTrackDelivered ==
    (delivered.root # None /\ delivered.intermediate # None) =>
        GateTracksDelivered /\ PageTracksDelivered

\* Traces go where the operator says, and as many as he says: the OTEL_ variables
\* before the prefixed ones, those before the file, and of two keys the nested
\* one, except that an empty endpoint or a ratio of 0 is taken for none there, so
\* that the flat one stands in.  (A flat key without the nested one is not held
\* to this: the nested one's default hides it.)  And wherever the environment or
\* two equal keys decide, the security check warns of always-on sampling exactly
\* when the sampler in use is (normalizeTelemetry, Configure and TelemetryCheck,
\* which read the two keys of each thing in three different ways).  No step
\* changes any of this: before the ceremony's first command is as good an instant
\* to look as any.
TelemetryAsAsked ==
    runs = 0 => \A file \in ConfigFiles, env \in Environments :
        LET cfg == LoadConfig(file, env)
            used == Configure(cfg)
            decided == env.arg # Unset \/ env.sampler \in {"always_on", "always_off"}
            nested == First(env.prefixed_endpoint, file.endpoint)
            flat == First(env.prefixed_otlp, file.otlp_endpoint)
        IN /\ env.endpoint # Unset => used.endpoint = env.endpoint
           /\ env.endpoint = Unset /\ nested \in Endpoints => used.endpoint = nested
           /\ env.endpoint = Unset /\ nested = NoEndpoint /\ flat \in Endpoints =>
                used.endpoint = flat
           /\ env.arg # Unset => used.ratio = env.arg
           /\ env.arg = Unset /\ env.sampler = "always_off" => used.ratio = 0
           /\ ~decided /\ env.prefixed_ratio = Unset /\ file.ratio \notin {0, Unset} =>
                used.ratio = file.ratio
           /\ decided \/ env.prefixed_ratio # Unset \/ file.ratio = file.sampling_ratio =>
                \A t \in Targets : t.telemetry /\ t.identified /\ t.production =>
                    (TelemetryCheck([t EXCEPT !.sampling_ratio = cfg.sampling_ratio]) = "warn"
                        <=> used.ratio >= 100)
===============================================================================
