------------------------------ MODULE MCLocalPki ------------------------------
(* LocalPki and the checks of its files with small sets for TLC.            *)
EXTENDS SecurityCheck

\* One of the optional copies stands for all of them.
OneCopy == {{"trust-bundle/root-ca.crt"}}

\* A production host, the ceremony's own machine, and a developer's.
Production ==
    [as_root |-> FALSE, secrets_in_env |-> FALSE, container |-> TRUE, kubernetes |-> TRUE,
     default_namespace |-> FALSE, config_mode |-> "private", key_mode |-> "private",
     database_mode |-> "private", root_in_place |-> FALSE, long_lived |-> FALSE,
     sqlite |-> TRUE, on_data |-> TRUE, database |-> "migrated", ledger |-> "whole",
     public |-> TRUE, tls |-> "valid", telemetry |-> TRUE, identified |-> TRUE,
     production |-> TRUE, sampling_ratio |-> 25]
SomeTargets ==
    {Production,
     [Production EXCEPT !.root_in_place = TRUE],
     [Production EXCEPT !.as_root = TRUE, !.secrets_in_env = TRUE, !.container = FALSE,
        !.kubernetes = FALSE, !.config_mode = "open", !.key_mode = "hidden",
        !.database_mode = "missing", !.long_lived = TRUE, !.database = "unmigrated",
        !.ledger = "no table", !.tls = "none", !.production = FALSE]}

SomeConfigFiles == {f \in ConfigFile : f.otlp_endpoint # f.endpoint \/ f.otlp_endpoint = Unset}
\* Endpoints and ratios are settled apart: one or the other is in the environment.
SomeEnvironments ==
    {e \in Environment :
        \/ e.prefixed_otlp = Unset /\ e.prefixed_endpoint = Unset /\ e.endpoint = Unset
        \/ e.prefixed_ratio = Unset /\ e.sampler = Unset /\ e.arg = Unset}
===============================================================================
