-------------------------- MODULE SecurityCheckProofs --------------------------
(***************************************************************************)
(* Proofs about what judges the ceremony's files later, the exit code of   *)
(* security-check and the CA page of a server, and about the settling of   *)
(* the telemetry keys.                                                     *)
(***************************************************************************)
EXTENDS SecurityCheck, LocalPkiProofs

-----------------------------------------------------------------------------
(* Telemetry                                                               *)

\* The endpoint of the variable is the one in use.
LEMMA EndpointOfEnvironment ==
    ASSUME NEW file \in ConfigFile, NEW env \in Environment, env.endpoint # Unset
    PROVE  Configure(LoadConfig(file, env)).endpoint = env.endpoint
<1> USE ServerConfigAssumption DEF ServerConfigAssumption
<1>1. env.endpoint \in Endpoints /\ env.endpoint # NoEndpoint
  BY DEF Environment
<1> DEFINE cfg == FromEnvironment(Unmarshal(file, env), env)
<1>2. cfg.endpoint = env.endpoint
  BY DEF FromEnvironment, First
<1> HIDE DEF cfg
<1>3. FillIn(cfg).endpoint = env.endpoint
  BY <1>1, <1>2 DEF FillIn
<1> QED
  BY <1>1, <1>3 DEF Configure, LoadConfig, cfg

\* The prefixed variables before the file's keys.
NestedEndpoint(file, env) == First(env.prefixed_endpoint, file.endpoint)
FlatEndpoint(file, env) == First(env.prefixed_otlp, file.otlp_endpoint)

\* Without one it is that of the nested key, if it has any.
LEMMA EndpointOfFile ==
    ASSUME NEW file \in ConfigFile, NEW env \in Environment, env.endpoint = Unset,
           NestedEndpoint(file, env) \in Endpoints
    PROVE  Configure(LoadConfig(file, env)).endpoint = NestedEndpoint(file, env)
<1> USE ServerConfigAssumption DEF ServerConfigAssumption
<1> DEFINE nested == NestedEndpoint(file, env)
           cfg == FromEnvironment(Unmarshal(file, env), env)
<1>1. nested # Unset /\ nested # NoEndpoint
  OBVIOUS
<1>2. Unmarshal(file, env).endpoint = nested
  BY <1>1 DEF Unmarshal, First, NestedEndpoint
<1>3. cfg.endpoint = nested
  BY <1>2 DEF FromEnvironment, First
<1> HIDE DEF cfg, nested
<1>4. FillIn(cfg).endpoint = nested
  BY <1>1, <1>3 DEF FillIn
<1> QED
  BY <1>1, <1>4 DEF Configure, LoadConfig, cfg, nested

\* Where that one is empty, the flat key's.
LEMMA EndpointOfFlatKey ==
    ASSUME NEW file \in ConfigFile, NEW env \in Environment, env.endpoint = Unset,
           NestedEndpoint(file, env) = NoEndpoint, FlatEndpoint(file, env) \in Endpoints
    PROVE  Configure(LoadConfig(file, env)).endpoint = FlatEndpoint(file, env)
<1> USE ServerConfigAssumption DEF ServerConfigAssumption
<1> DEFINE flat == FlatEndpoint(file, env)
           cfg == FromEnvironment(Unmarshal(file, env), env)
<1>1. flat # Unset /\ flat # NoEndpoint
  OBVIOUS
<1>2. Unmarshal(file, env).endpoint = NoEndpoint /\ Unmarshal(file, env).otlp_endpoint = flat
  BY <1>1 DEF Unmarshal, First, NestedEndpoint, FlatEndpoint
<1>3. cfg.endpoint = NoEndpoint /\ cfg.otlp_endpoint = flat
  BY <1>2 DEF FromEnvironment, First
<1> HIDE DEF cfg, flat
<1>4. FillIn(cfg).endpoint = flat
  BY <1>1, <1>3 DEF FillIn
<1> QED
  BY <1>1, <1>4 DEF Configure, LoadConfig, cfg, flat

\* What the environment says of the ratio once the prefixed variable is merged.
Sampler(env) == First(env.arg, CASE env.sampler = "always_on" -> 100
                                 [] env.sampler = "always_off" -> 0
                                 [] OTHER -> Unset)

\* The two ratios of the configuration, before one stands in for the other.
Flat(file, env) == First(Sampler(env), First(env.prefixed_ratio, First(file.sampling_ratio, 100)))
Nested(file, env) == First(Sampler(env), First(env.prefixed_ratio, First(file.ratio, 100)))

\* The ratio in use and the flat key, which is the one the security check reads.
LEMMA RatiosSettled ==
    ASSUME NEW file \in ConfigFile, NEW env \in Environment
    PROVE  LET cfg == LoadConfig(file, env)
               flat == Flat(file, env)
               nested == Nested(file, env)
               used == IF nested = 0 THEN flat ELSE nested
           IN /\ Configure(cfg).ratio = used
              /\ cfg.sampling_ratio = IF flat = 0 THEN used ELSE flat
<1> DEFINE before == FromEnvironment(Unmarshal(file, env), env)
<1>1. before.sampling_ratio = Flat(file, env) /\ before.ratio = Nested(file, env)
  BY DEF FromEnvironment, Unmarshal, Flat, Nested, Sampler
<1> HIDE DEF before
<1>2. /\ FillIn(before).ratio = IF before.ratio = 0 THEN before.sampling_ratio ELSE before.ratio
      /\ FillIn(before).sampling_ratio =
            IF before.sampling_ratio = 0
            THEN IF before.ratio = 0 THEN before.sampling_ratio ELSE before.ratio
            ELSE before.sampling_ratio
  BY DEF FillIn
<1>3. LoadConfig(file, env) = FillIn(before)
  BY DEF LoadConfig, before
<1>4. Configure(FillIn(before)).ratio =
        IF FillIn(before).ratio # 0 THEN FillIn(before).ratio ELSE FillIn(before).sampling_ratio
  BY DEF Configure
<1> QED
  BY <1>1, <1>2, <1>3, <1>4

\* Both are ratios: nothing that is not set is left.
LEMMA RatiosAreSet ==
    ASSUME NEW file \in ConfigFile, NEW env \in Environment
    PROVE  Flat(file, env) \in Nat /\ Nested(file, env) \in Nat
<1> USE ServerConfigAssumption DEF ServerConfigAssumption
<1>1. First(file.sampling_ratio, 100) \in Nat /\ First(file.ratio, 100) \in Nat
  BY DEF First, ConfigFile
<1>2. env.prefixed_ratio \in Nat \cup {Unset} /\ env.arg \in Nat \cup {Unset}
  BY DEF Environment
<1>3. Sampler(env) \in Nat \cup {Unset}
  BY <1>2 DEF Sampler, First
<1> QED
  BY <1>1, <1>2, <1>3 DEF Flat, Nested, First

\* The environment's argument, or its sampler, is the ratio in use.
LEMMA RatioOfEnvironment ==
    ASSUME NEW file \in ConfigFile, NEW env \in Environment, Sampler(env) # Unset
    PROVE  Flat(file, env) = Sampler(env) /\ Nested(file, env) = Sampler(env)
BY DEF Flat, Nested, First

\* TelemetryAsAsked of one file and one environment.
LEMMA OneAsAsked ==
    ASSUME NEW file \in ConfigFile, NEW env \in Environment
    PROVE  LET cfg == LoadConfig(file, env)
               used == Configure(cfg)
               decided == env.arg # Unset \/ env.sampler \in {"always_on", "always_off"}
           IN /\ env.endpoint # Unset => used.endpoint = env.endpoint
              /\ env.endpoint = Unset /\ NestedEndpoint(file, env) \in Endpoints
                    => used.endpoint = NestedEndpoint(file, env)
              /\ (env.endpoint = Unset /\ NestedEndpoint(file, env) = NoEndpoint
                    /\ FlatEndpoint(file, env) \in Endpoints)
                    => used.endpoint = FlatEndpoint(file, env)
              /\ env.arg # Unset => used.ratio = env.arg
              /\ env.arg = Unset /\ env.sampler = "always_off" => used.ratio = 0
              /\ ~decided /\ env.prefixed_ratio = Unset /\ file.ratio \notin {0, Unset} =>
                   used.ratio = file.ratio
              /\ decided \/ env.prefixed_ratio # Unset \/ file.ratio = file.sampling_ratio =>
                   cfg.sampling_ratio = used.ratio
<1> USE ServerConfigAssumption DEF ServerConfigAssumption
<1> DEFINE cfg == LoadConfig(file, env)
           used == Configure(cfg)
           flat == Flat(file, env)
           nested == Nested(file, env)
           decided == env.arg # Unset \/ env.sampler \in {"always_on", "always_off"}
<1>1. /\ used.ratio = IF nested = 0 THEN flat ELSE nested
      /\ cfg.sampling_ratio = IF flat = 0 THEN IF nested = 0 THEN flat ELSE nested ELSE flat
  BY RatiosSettled
<1>2. /\ env.endpoint # Unset => used.endpoint = env.endpoint
      /\ env.endpoint = Unset /\ NestedEndpoint(file, env) \in Endpoints
            => used.endpoint = NestedEndpoint(file, env)
      /\ (env.endpoint = Unset /\ NestedEndpoint(file, env) = NoEndpoint
            /\ FlatEndpoint(file, env) \in Endpoints)
            => used.endpoint = FlatEndpoint(file, env)
  BY EndpointOfEnvironment, EndpointOfFile, EndpointOfFlatKey
<1>3. decided <=> Sampler(env) # Unset
  BY DEF Sampler, First, Environment
<1>4. env.arg # Unset => Sampler(env) = env.arg
  BY DEF Sampler, First
<1>5. env.arg = Unset /\ env.sampler = "always_off" => Sampler(env) = 0
  BY DEF Sampler, First
<1>6. decided => flat = Sampler(env) /\ nested = Sampler(env)
  BY <1>3, RatioOfEnvironment
<1>7. ~decided /\ env.prefixed_ratio = Unset /\ file.ratio \notin {0, Unset} => nested = file.ratio
  BY <1>3 DEF Nested, First
<1>8. ~decided /\ (env.prefixed_ratio # Unset \/ file.ratio = file.sampling_ratio) => flat = nested
  BY <1>3 DEF Flat, Nested, First
<1> HIDE DEF flat, nested, used, cfg
<1>9. decided => flat = nested /\ used.ratio = Sampler(env)
  BY <1>1, <1>6
<1>10. flat = nested => cfg.sampling_ratio = used.ratio
  BY <1>1
<1>11. ~decided /\ env.prefixed_ratio = Unset /\ file.ratio \notin {0, Unset} => used.ratio = file.ratio
  BY <1>1, <1>7
<1>12. env.arg # Unset => used.ratio = env.arg
  BY <1>4, <1>9
<1>13. env.arg = Unset /\ env.sampler = "always_off" => used.ratio = 0
  BY <1>5, <1>9
<1> QED
  BY <1>2, <1>8, <1>9, <1>10, <1>11, <1>12, <1>13 DEF used, cfg

\* The operator's word on telemetry, given in the OTEL_ variables, the prefixed
\* ones or the file's nested keys, reaches what telemetry.Configure uses, and the
\* security check warns of always-on sampling where it is (normalizeTelemetry,
\* TelemetryCheck): SecurityCheck's TelemetryAsAsked, for any endpoints, ratios
\* and targets.  Nothing is said of a flat key without its nested one.
THEOREM TelemetryAsConfigured == Spec => []TelemetryAsAsked
<1>1. TelemetryAsAsked
  <2> SUFFICES ASSUME NEW file \in ConfigFiles, NEW env \in Environments
               PROVE  LET cfg == LoadConfig(file, env)
                          used == Configure(cfg)
                          decided == env.arg # Unset \/ env.sampler \in {"always_on", "always_off"}
                      IN /\ env.endpoint # Unset => used.endpoint = env.endpoint
                         /\ env.endpoint = Unset /\ NestedEndpoint(file, env) \in Endpoints
                                => used.endpoint = NestedEndpoint(file, env)
                         /\ (env.endpoint = Unset /\ NestedEndpoint(file, env) = NoEndpoint
                                /\ FlatEndpoint(file, env) \in Endpoints)
                                => used.endpoint = FlatEndpoint(file, env)
                         /\ env.arg # Unset => used.ratio = env.arg
                         /\ env.arg = Unset /\ env.sampler = "always_off" => used.ratio = 0
                         /\ ~decided /\ env.prefixed_ratio = Unset /\ file.ratio \notin {0, Unset} =>
                              used.ratio = file.ratio
                         /\ decided \/ env.prefixed_ratio # Unset \/ file.ratio = file.sampling_ratio =>
                              \A t \in Targets : t.telemetry /\ t.identified /\ t.production =>
                                (TelemetryCheck([t EXCEPT !.sampling_ratio = cfg.sampling_ratio]) = "warn"
                                    <=> used.ratio >= 100)
    BY DEF TelemetryAsAsked, NestedEndpoint, FlatEndpoint
  <2>1. file \in ConfigFile /\ env \in Environment
    BY SecurityCheckAssumption DEF SecurityCheckAssumption
  <2>2. ASSUME NEW ratio, NEW t \in Targets, t.telemetry, t.identified, t.production
        PROVE  TelemetryCheck([t EXCEPT !.sampling_ratio = ratio]) = "warn" <=> ratio >= 100
    <3>1. t \in Target
      BY SecurityCheckAssumption DEF SecurityCheckAssumption
    <3>2. /\ [t EXCEPT !.sampling_ratio = ratio].telemetry = t.telemetry
          /\ [t EXCEPT !.sampling_ratio = ratio].identified = t.identified
          /\ [t EXCEPT !.sampling_ratio = ratio].production = t.production
          /\ [t EXCEPT !.sampling_ratio = ratio].sampling_ratio = ratio
      BY <3>1 DEF Target
    <3> QED
      BY <2>2, <3>2 DEF TelemetryCheck
  <2> QED
    BY <2>1, <2>2, OneAsAsked
<1> QED
  BY <1>1, PTL

-----------------------------------------------------------------------------
(* One certificate to a root key                                           *)

\* Besides the keys of running and finished commands nobody makes one, so that a
\* root certificate is known by its key.
RootKeysInv ==
    /\ \A a, b \in root_certs : a.key = b.key => a = b
    /\ \A a \in root_certs : a.key <= runs
    /\ cmd.op = "root" /\ cmd.step \in {"password", "create"} => \A a \in root_certs : a.key < runs

\* The root a server has read is one of those that were made.
PageInv ==
    /\ server.root \in root_certs \cup Gone
    /\ server.undisturbed /\ server.step = "ready" => server.root \in root_certs

\* A command has a key of its own.
LEMMA RootKeysStep ==
    ASSUME TypeInv, WithinInv, RootKeysInv, [Next]_vars
    PROVE  RootKeysInv'
<1>0. /\ cmd \in Command /\ CmdInv /\ runs \in 0 .. MaxRuns /\ MaxRuns \in Nat
      /\ root_certs \subseteq CertificateType
  BY CeremonyAssumption DEF TypeInv, CmdInv, WithinInv
<1>1. \A a \in root_certs : a.key \in Nat
  BY <1>0 DEF CertificateType, Keys
<1>2. CASE CreateRootCommand \/ CreateIntermediateCommand
  <2>1. runs' = runs + 1 /\ UNCHANGED root_certs
    BY <1>2 DEF CreateRootCommand, CreateIntermediateCommand, Run
  <2> QED
    BY <1>0, <1>1, <2>1 DEF RootKeysInv
<1>3. CASE CreateRoot
  <2>1. UNCHANGED runs /\ cmd.op = "root" /\ cmd.step = "create"
    BY <1>3 DEF CreateRoot, world
  <2>2. CASE cmd.lifetime = Refused
    <3>1. cmd' = Idle /\ UNCHANGED root_certs
      BY <1>3, <2>2 DEF CreateRoot, Fail
    <3> QED
      BY <2>1, <3>1 DEF RootKeysInv, Idle
  <2>3. CASE cmd.lifetime # Refused
    <3> DEFINE cert == Cert(runs, runs, clock + cmd.lifetime)
    <3>1. root_certs' = root_certs \cup {cert} /\ cmd'.step = "write" /\ cert.key = runs
      BY <1>0, <1>3, <2>3 DEF CreateRoot, Cert, Command
    <3> HIDE DEF cert
    <3>2. \A a \in root_certs : a.key < runs
      BY <2>1 DEF RootKeysInv
    <3> QED
      BY <1>0, <1>1, <2>1, <3>1, <3>2 DEF RootKeysInv
  <2> QED
    BY <2>2, <2>3
<1>4. CASE ResolveExistingPassword
  <2>1. UNCHANGED <<runs, root_certs>> /\ cmd.step = "root_password"
    BY <1>4 DEF ResolveExistingPassword, world
  <2>2. cmd.op # "root"
    BY <1>0, <2>1 DEF CmdInv
  <2>3. \/ cmd' = Idle
        \/ \E pass : cmd' = [cmd EXCEPT !.step = "password", !.root_pass = pass]
    BY <1>4 DEF ResolveExistingPassword, Fail
  <2>4. cmd'.op # "root"
    <3>1. CASE cmd' = Idle
      BY <3>1 DEF Idle
    <3>2. CASE cmd' # Idle
      <4>1. PICK pass :
              cmd' = [cmd EXCEPT !.step = "password", !.root_pass = pass]
        BY <2>3, <3>2
      <4>2. cmd'.op = cmd.op
        BY <1>0, <4>1 DEF Command
      <4> QED
        BY <2>2, <4>2
    <3> QED
      BY <3>1, <3>2
  <2> QED
    BY <2>1, <2>4 DEF RootKeysInv
<1>5. CASE ResolvePassword
  <2>1. UNCHANGED <<runs, root_certs>> /\ cmd.step = "password"
    BY <1>5 DEF ResolvePassword, world
  <2>2. \/ cmd' = Idle
        \/ \E pass : cmd' = [cmd EXCEPT !.step = "create", !.pass = pass]
    BY <1>5 DEF ResolvePassword, Fail
  <2>3. cmd'.op = "root" => cmd.op = "root"
    <3>1. CASE cmd' = Idle
      BY <3>1 DEF Idle
    <3>2. CASE cmd' # Idle
      <4>1. PICK pass :
              cmd' = [cmd EXCEPT !.step = "create", !.pass = pass]
        BY <2>2, <3>2
      <4>2. cmd'.op = cmd.op
        BY <1>0, <4>1 DEF Command
      <4> QED
        BY <4>2
    <3> QED
      BY <3>1, <3>2
  <2> QED
    BY <2>1, <2>3 DEF RootKeysInv
<1>6. CASE CreateIntermediate
  <2>1. UNCHANGED <<runs, root_certs>>
    BY <1>6 DEF CreateIntermediate, world
  <2>2. \/ cmd' = Idle
        \/ \E parent, cert, todo :
             cmd' = [cmd EXCEPT !.step = "write", !.parent = parent, !.cert = cert, !.todo = todo]
    <3> DEFINE todo == <<"intermediate-ca.key", "intermediate-ca.csr",
                         "intermediate-ca.crt", "ca-chain.crt">>
               cert == Cert(runs, files["root-ca.key"].key, clock + cmd.lifetime)
    <3>1. \/ cmd' = Idle
          \/ cmd' = [cmd EXCEPT !.step = "write", !.parent = files["root-ca.crt"],
                                !.cert = cert, !.todo = todo]
      BY <1>6 DEF CreateIntermediate, Fail
    <3> HIDE DEF todo, cert
    <3> QED
      BY <3>1
  <2>3. cmd.op = "intermediate"
    BY <1>6 DEF CreateIntermediate
  <2>4. cmd'.op # "root"
    <3>1. CASE cmd' = Idle
      BY <3>1 DEF Idle
    <3>2. CASE cmd' # Idle
      <4>1. PICK parent, cert, todo :
              cmd' = [cmd EXCEPT !.step = "write", !.parent = parent, !.cert = cert, !.todo = todo]
        BY <2>2, <3>2
      <4>2. cmd'.op = cmd.op
        BY <1>0, <4>1 DEF Command
      <4> QED
        BY <2>3, <4>2
    <3> QED
      BY <3>1, <3>2
  <2> QED
    BY <2>1, <2>4 DEF RootKeysInv
<1>7. CASE WriteFile
  BY <1>0, <1>7 DEF WriteFile, world, RootKeysInv, Command
<1>8. CASE Succeed
  BY <1>8 DEF Succeed, RootKeysInv, Idle
<1>9. CASE CutShort
  BY <1>9 DEF CutShort, RootKeysInv, Idle
<1>10. CASE StartServer \/ LoadCert \/ LoadKey \/ Parse \/ LoadChain \/ LoadRoot \/ Tick
             \/ UNCHANGED vars
  <2>1. UNCHANGED <<runs, root_certs, cmd>>
    BY <1>10 DEF StartServer, LoadCert, LoadKey, Parse, LoadChain, LoadRoot, Load, Tick, ceremony, vars
  <2> QED
    BY <2>1 DEF RootKeysInv
<1> QED
  BY <1>2, <1>3, <1>4, <1>5, <1>6, <1>7, <1>8, <1>9, <1>10 DEF Next

\* The server reads the root it was delivered, or one that was.
LEMMA PageInvStep ==
    ASSUME TypeInv, WithinInv, ProgressInv, ServerInv, PageInv, [Next]_vars
    PROVE  PageInv'
<1>0. /\ server \in Server /\ LoadInv
      /\ files["root-ca.crt"] \in root_certs \cup {Missing, Torn}
  BY DEF ServerInv, WithinInv
<1>1. root_certs \subseteq root_certs'
  BY DEF Next, vars, CreateRootCommand, CreateIntermediateCommand, Run, ResolveExistingPassword,
     ResolvePassword, CreateRoot, CreateIntermediate, WriteFile, Succeed, CutShort, StartServer,
     LoadCert, LoadKey, Parse, LoadChain, LoadRoot, Load, Tick, ceremony
<1>2. CASE CreateRootCommand \/ CreateIntermediateCommand
  <2>1. server' = [server EXCEPT !.undisturbed = server.undisturbed /\ ~Loading]
    BY <1>2 DEF CreateRootCommand, CreateIntermediateCommand, Run
  <2>2. /\ server'.step = server.step /\ server'.root = server.root
        /\ server'.undisturbed => server.undisturbed
    BY <1>0, <2>1 DEF Server
  <2> QED
    BY <1>1, <2>2 DEF PageInv
<1>3. CASE StartServer
  <2>1. PICK pass, undisturbed :
          server' = [Down EXCEPT !.step = "cert", !.pass = pass, !.undisturbed = undisturbed]
    BY <1>3 DEF StartServer
  <2>2. server'.step = "cert" /\ server'.root = None
    BY <2>1 DEF Down
  <2> QED
    BY <2>2 DEF PageInv, Gone
<1>4. CASE LoadCert \/ LoadKey \/ LoadChain
  <2>1. server'.step # "ready" /\ server'.root = server.root
    BY <1>0, <1>4 DEF LoadCert, LoadKey, LoadChain, Load, Server
  <2> QED
    BY <1>1, <2>1 DEF PageInv
<1>5. CASE Parse
  <2>1. \/ server' = [server EXCEPT !.step = "chain", !.pass = 0]
        \/ server' = [Down EXCEPT !.step = "disabled", !.undisturbed = server.undisturbed]
    BY <1>5 DEF Parse
  <2>2. server'.step # "ready" /\ server'.root \in {server.root, None}
    BY <1>0, <2>1 DEF Server, Down
  <2> QED
    BY <1>1, <2>2 DEF PageInv, Gone
<1>6. CASE LoadRoot
  <2>1. /\ server.step = "root" /\ UNCHANGED root_certs
        /\ server' = [server EXCEPT !.step = "ready", !.root = files["root-ca.crt"]]
    BY <1>6 DEF LoadRoot, Load, ceremony
  <2>2. server'.root = files["root-ca.crt"] /\ server'.undisturbed = server.undisturbed
    BY <1>0, <2>1 DEF Server
  <2>3. server.undisturbed => delivered.root # None
    BY <1>0, <2>1 DEF LoadInv, Loading
  <2>4. delivered.root # None => /\ files["root-ca.crt"] = delivered.root.cert
                                 /\ delivered.root.cert \in CertificateType
    BY DEF ProgressInv, RootDelivered, DeliveredType, Delivery
  <2>5. server.undisturbed => files["root-ca.crt"] \in root_certs
    BY <1>0, <2>3, <2>4, ContentsAssumption
  <2> QED
    BY <1>0, <2>1, <2>2, <2>5 DEF PageInv, Gone
<1>7. CASE UNCHANGED server
  BY <1>1, <1>7 DEF PageInv
<1>8. ResolveExistingPassword \/ ResolvePassword \/ CreateRoot \/ CreateIntermediate
        \/ WriteFile \/ Succeed \/ CutShort \/ Tick \/ UNCHANGED vars => UNCHANGED server
  BY DEF ResolveExistingPassword, ResolvePassword, CreateRoot, CreateIntermediate, WriteFile,
     Succeed, CutShort, Tick, world, vars
<1> QED
  BY <1>2, <1>3, <1>4, <1>5, <1>6, <1>7, <1>8 DEF Next

-----------------------------------------------------------------------------
(* Judging what was delivered                                              *)

Expired == clock > delivered.intermediate.cert.until
Together == delivered.intermediate.cert.until = delivered.root.cert.until

\* What the checks find: the certificates that were delivered, whole, the root's
\* key beside them, and neither outliving the other the wrong way round.
LEMMA DeliveredCertificates ==
    ASSUME TypeInv, WithinInv, ProgressInv, RootKeysInv,
           delivered.root # None, delivered.intermediate # None
    PROVE  /\ files["root-ca.crt"] = delivered.root.cert
           /\ files["intermediate-ca.crt"] = delivered.intermediate.cert
           /\ delivered.root.cert \in root_certs \cap CertificateType
           /\ delivered.intermediate.cert \in CertificateType
           /\ Complete(delivered.root.cert) /\ Complete(delivered.intermediate.cert)
           /\ VerifyChain
           /\ delivered.intermediate.cert.until <= delivered.root.cert.until
           /\ files["root-ca.key"] # Missing
<1>1. /\ files["root-ca.crt"] = delivered.root.cert
      /\ files["intermediate-ca.crt"] = delivered.intermediate.cert
      /\ files["root-ca.key"] = [key |-> delivered.root.cert.key, pass |-> delivered.root.pass]
      /\ VerifyChain
  BY DEF ProgressInv, RootDelivered, IntermediateDelivered
<1>2. /\ delivered.root.cert \in CertificateType /\ delivered.root.pass \in Passwords
      /\ delivered.intermediate.cert \in CertificateType
  BY DEF ProgressInv, DeliveredType, Delivery
<1>3. Complete(delivered.root.cert) /\ Complete(delivered.intermediate.cert)
  BY <1>2, ContentsAssumption DEF Complete
<1>4. files["root-ca.key"] \in KeyType
  BY <1>1, <1>2 DEF KeyType, CertificateType
<1>5. files["root-ca.key"] # Missing
  BY <1>4, ContentsAssumption
<1>6. delivered.root.cert \in root_certs
  BY <1>1, <1>3 DEF WithinInv, Complete
<1>7. delivered.intermediate.cert.until <= delivered.root.cert.until
  <2>1. delivered.intermediate.cert \notin Gone
    BY <1>2, ContentsAssumption DEF Gone
  <2>2. Bounded(delivered.intermediate.cert)
    BY <1>1, <2>1 DEF WithinInv
  <2>3. PICK root \in root_certs : /\ delivered.intermediate.cert.signer = root.key
                                   /\ delivered.intermediate.cert.until <= root.until
    BY <2>2 DEF Bounded
  <2>4. root.key = delivered.root.cert.key
    BY <1>1, <2>3 DEF VerifyChain
  <2>5. root = delivered.root.cert
    BY <1>6, <2>3, <2>4 DEF RootKeysInv
  <2> QED
    BY <2>3, <2>5
<1> QED
  BY <1>1, <1>2, <1>3, <1>5, <1>6, <1>7

\* The two checks that compare the ends, and the root key's.
LEMMA CheckVerdicts ==
    ASSUME TypeInv, WithinInv, ProgressInv, RootKeysInv,
           delivered.root # None, delivered.intermediate # None, NEW t \in Targets
    PROVE  /\ CAChainCheck = "fail" <=> Expired
           /\ CertificateLifetimeCheck(t) = "fail" <=> Expired \/ Together
           /\ RootPrivateKeyAbsentCheck(t) = "fail" <=> t.root_in_place
<1>1. /\ files["root-ca.crt"] = delivered.root.cert
      /\ files["intermediate-ca.crt"] = delivered.intermediate.cert
      /\ delivered.root.cert \in root_certs \cap CertificateType
      /\ delivered.intermediate.cert \in CertificateType
      /\ Complete(delivered.root.cert) /\ Complete(delivered.intermediate.cert)
      /\ VerifyChain
      /\ delivered.intermediate.cert.until <= delivered.root.cert.until
      /\ files["root-ca.key"] # Missing
  BY DeliveredCertificates
<1>2. /\ delivered.root.cert.until \in Nat /\ delivered.intermediate.cert.until \in Nat
      /\ clock \in Nat
  BY <1>1 DEF CertificateType, TypeInv
<1>3. CAChainCheck = "fail" <=> Expired
  BY <1>1, <1>2 DEF CAChainCheck, Expired
<1>4. CertificateLifetimeCheck(t) = "fail" <=> Expired \/ Together
  BY <1>1, <1>2 DEF CertificateLifetimeCheck, Expired, Together
<1>5. RootPrivateKeyAbsentCheck(t) = "fail" <=> t.root_in_place
  BY <1>1 DEF RootPrivateKeyAbsentCheck
<1> QED
  BY <1>3, <1>4, <1>5

\* What fails at a threshold, check by check.
Reaches(severity, threshold) == SeverityRank[severity] >= SeverityRank[threshold]

LEMMA FailingChecks ==
    ASSUME NEW t, NEW threshold
    PROVE  FailsThreshold(Report(t), threshold) <=>
             \/ HostCheck(t) = "fail" /\ Reaches("low", threshold)
             \/ EnvironmentSecretsCheck(t) = "fail" /\ Reaches("medium", threshold)
             \/ FilePermissionCheck(t.config_mode) = "fail" /\ Reaches("high", threshold)
             \/ FilePermissionCheck(t.key_mode) = "fail" /\ Reaches("high", threshold)
             \/ FilePermissionCheck(t.database_mode) = "fail" /\ Reaches("high", threshold)
             \/ RootPrivateKeyAbsentCheck(t) = "fail" /\ Reaches("critical", threshold)
             \/ IntermediateKeyCheck(t) = "fail" /\ Reaches("high", threshold)
             \/ CAChainCheck = "fail" /\ Reaches("critical", threshold)
             \/ CertificateLifetimeCheck(t) = "fail" /\ Reaches("medium", threshold)
             \/ DatabaseReachableCheck(t) = "fail" /\ Reaches("high", threshold)
             \/ SQLiteKubernetesCheck(t) = "fail" /\ Reaches("medium", threshold)
             \/ APITLSCheck(t) = "fail" /\ Reaches("high", threshold)
             \/ APIBindCheck(t) = "fail" /\ Reaches("medium", threshold)
             \/ AuditChainCheck(t) = "fail" /\ Reaches("critical", threshold)
             \/ TelemetryCheck(t) = "fail" /\ Reaches("low", threshold)
             \/ ContainerCheck(t) = "fail" /\ Reaches("low", threshold)
             \/ KubernetesCheck(t) = "fail" /\ Reaches("low", threshold)
BY DEF FailsThreshold, Report, Severity, Reaches

\* Where nothing else is wrong.
LEMMA HardenedPasses ==
    ASSUME NEW t \in Targets, Hardened(t)
    PROVE  /\ HostCheck(t) # "fail" /\ EnvironmentSecretsCheck(t) # "fail"
           /\ \A mode \in {t.config_mode, t.key_mode, t.database_mode} :
                FilePermissionCheck(mode) # "fail"
           /\ IntermediateKeyCheck(t) # "fail"
           /\ DatabaseReachableCheck(t) # "fail" /\ SQLiteKubernetesCheck(t) # "fail"
           /\ APITLSCheck(t) # "fail" /\ APIBindCheck(t) # "fail" /\ AuditChainCheck(t) # "fail"
           /\ TelemetryCheck(t) # "fail" /\ ContainerCheck(t) # "fail" /\ KubernetesCheck(t) # "fail"
           /\ ~t.root_in_place
<1>1. HostCheck(t) # "fail" /\ EnvironmentSecretsCheck(t) # "fail"
  BY DEF HostCheck, EnvironmentSecretsCheck
<1>2. \A mode \in {t.config_mode, t.key_mode, t.database_mode} : mode \in {"missing", "private"}
  BY DEF Hardened
<1>3. \A mode \in {"missing", "private"} : FilePermissionCheck(mode) # "fail"
  BY DEF FilePermissionCheck
<1>4. IntermediateKeyCheck(t) # "fail"
  BY <1>2 DEF IntermediateKeyCheck
<1>5. DatabaseReachableCheck(t) # "fail" /\ SQLiteKubernetesCheck(t) # "fail"
  BY DEF DatabaseReachableCheck, SQLiteKubernetesCheck, Hardened
<1>6. APITLSCheck(t) # "fail" /\ APIBindCheck(t) # "fail"
  BY DEF APITLSCheck, APIBindCheck, Hardened
<1>7. AuditChainCheck(t) # "fail"
  BY DEF AuditChainCheck, Hardened
<1>8. TelemetryCheck(t) # "fail" /\ ContainerCheck(t) # "fail" /\ KubernetesCheck(t) # "fail"
  BY DEF TelemetryCheck, ContainerCheck, KubernetesCheck, Hardened
<1> QED
  BY <1>1, <1>2, <1>3, <1>4, <1>5, <1>6, <1>7, <1>8 DEF Hardened

\* The ranks of the severities.
LEMMA Ranks ==
    /\ DOMAIN SeverityRank = {"info", "low", "medium", "high", "critical"}
    /\ \A threshold \in DOMAIN SeverityRank :
         /\ Reaches("critical", threshold)
         /\ Reaches("medium", threshold) <=> threshold \in {"info", "low", "medium"}
    /\ ~Reaches("low", "critical") /\ ~Reaches("medium", "critical") /\ ~Reaches("high", "critical")
BY DEF Reaches, SeverityRank

LEMMA GateFollows ==
    ASSUME TypeInv, WithinInv, ProgressInv, RootKeysInv,
           delivered.root # None, delivered.intermediate # None
    PROVE  GateTracksDelivered
<1>1. ASSUME NEW t \in Targets
      PROVE  /\ CAChainCheck = "fail" <=> Expired
             /\ CertificateLifetimeCheck(t) = "fail" <=> Expired \/ Together
             /\ RootPrivateKeyAbsentCheck(t) = "fail" <=> t.root_in_place
  BY CheckVerdicts
<1>2. ASSUME NEW t \in Targets, NEW threshold
      PROVE  ExitCode(t, threshold, TRUE) = 1 <=> FailsThreshold(Report(t), threshold)
  BY DEF ExitCode
<1>3. ASSUME NEW t \in Targets, t.ledger \notin {"unreadable", "broken"}
      PROVE  ExitCode(t, "critical", TRUE) = 1 <=> Expired \/ t.root_in_place
  <2>1. AuditChainCheck(t) # "fail"
    <3>1. t \in Target
      BY SecurityCheckAssumption DEF SecurityCheckAssumption
    <3>2. t.ledger \in {"unavailable", "no table", "whole"}
      BY <1>3, <3>1 DEF Target
    <3> QED
      BY <3>2 DEF AuditChainCheck
  <2>2. Reaches("critical", "critical")
    BY Ranks
  <2>3. ~Reaches("low", "critical") /\ ~Reaches("medium", "critical") /\ ~Reaches("high", "critical")
    BY Ranks
  <2>4. FailsThreshold(Report(t), "critical") <=> CAChainCheck = "fail" \/ RootPrivateKeyAbsentCheck(t) = "fail"
    BY <2>1, <2>2, <2>3, FailingChecks
  <2> QED
    BY <1>1, <1>2, <2>4
<1>4. ASSUME NEW t \in Targets, Hardened(t), NEW threshold \in DOMAIN SeverityRank
      PROVE  ExitCode(t, threshold, TRUE) = 1
                <=> Expired \/ (Together /\ threshold \in {"info", "low", "medium"})
  <2>1. FailsThreshold(Report(t), threshold) <=>
           \/ CAChainCheck = "fail" /\ Reaches("critical", threshold)
           \/ CertificateLifetimeCheck(t) = "fail" /\ Reaches("medium", threshold)
    <3>1. /\ HostCheck(t) # "fail" /\ EnvironmentSecretsCheck(t) # "fail"
          /\ \A mode \in {t.config_mode, t.key_mode, t.database_mode} :
               FilePermissionCheck(mode) # "fail"
          /\ IntermediateKeyCheck(t) # "fail"
          /\ DatabaseReachableCheck(t) # "fail" /\ SQLiteKubernetesCheck(t) # "fail"
          /\ APITLSCheck(t) # "fail" /\ APIBindCheck(t) # "fail" /\ AuditChainCheck(t) # "fail"
          /\ TelemetryCheck(t) # "fail" /\ ContainerCheck(t) # "fail" /\ KubernetesCheck(t) # "fail"
          /\ ~t.root_in_place
      BY <1>4, HardenedPasses
    <3>2. RootPrivateKeyAbsentCheck(t) # "fail"
      BY <1>1, <3>1
    <3> QED
      BY <3>1, <3>2, FailingChecks
  <2>2. /\ Reaches("critical", threshold)
        /\ Reaches("medium", threshold) <=> threshold \in {"info", "low", "medium"}
    BY Ranks
  <2> QED
    BY <1>1, <1>2, <2>1, <2>2
<1> QED
  BY <1>1, <1>3, <1>4 DEF GateTracksDelivered, Expired, Together

\* The page's root is the delivered one: it has the key that signed the
\* certificate that was delivered.
LEMMA PageFollows ==
    ASSUME TypeInv, WithinInv, ProgressInv, RootKeysInv, ServerInv, PageInv,
           delivered.root # None, delivered.intermediate # None
    PROVE  PageTracksDelivered
<1> SUFFICES ASSUME server.undisturbed, server.step = "ready",
                    server.cert = delivered.intermediate.cert,
                    delivered.intermediate.cert.until < delivered.root.cert.until
             PROVE  /\ CaStatus.chain_status = "valid"
                    /\ \A t \in Targets : ~t.long_lived =>
                         (CaStatus.rotate \/ CaStatus.migrate <=> CertificateLifetimeCheck(t) # "pass")
  BY DEF PageTracksDelivered
<1> DEFINE root == delivered.root.cert
           intermediate == delivered.intermediate.cert
<1>1. /\ files["root-ca.crt"] = root /\ files["intermediate-ca.crt"] = intermediate
      /\ root \in root_certs \cap CertificateType
      /\ intermediate \in CertificateType
      /\ Complete(root) /\ Complete(intermediate)
      /\ VerifyChain
  BY DeliveredCertificates
<1>2. /\ root.until \in Nat /\ intermediate.until \in Nat
      /\ clock \in Nat /\ RotateWithin \in Nat /\ MigrateWithin \in Nat
  BY <1>1, CeremonyAssumption DEF CertificateType, TypeInv
<1>3. server.chain = <<server.cert, server.root>> /\ server.cert.signer = server.root.key
  BY DEF ServerInv, LoadInv
<1>4. server.root \in root_certs
  BY DEF PageInv
<1>5. server.root = root
  BY <1>1, <1>3, <1>4 DEF RootKeysInv, VerifyChain
<1>6. server.chain = <<intermediate, root>>
  BY <1>3, <1>5
<1>7. Complete(server.chain)
  <2>1. server.chain \in CertificateType \X CertificateType
    BY <1>1, <1>6
  <2> QED
    BY <2>1, ContentsAssumption DEF Complete
<1>8. server.chain[1] = intermediate
  BY <1>6
<1> HIDE DEF root, intermediate
<1>9. /\ CaStatus.chain_status = "valid"
      /\ CaStatus.migrate <=> root.until - clock < MigrateWithin
      /\ CaStatus.rotate <=> intermediate.until - clock < RotateWithin
  <2>1. {c \in {server.root} : server.step = "ready" /\ Complete(c)} = {root}
    BY <1>1, <1>5
  <2>2. {c \in {server.chain} : server.step = "ready" /\ Complete(c)} = {server.chain}
    BY <1>7
  <2>3. /\ CaStatus.chain_status = "valid"
        /\ CaStatus.migrate = \E c \in {root} : c.until - clock < MigrateWithin
        /\ CaStatus.rotate = \E c \in {server.chain} : c[1].until - clock < RotateWithin
    BY <2>1, <2>2 DEF CaStatus
  <2> QED
    BY <1>8, <2>3
<1>10. ASSUME NEW t \in Targets, ~t.long_lived
       PROVE  CaStatus.rotate \/ CaStatus.migrate <=> CertificateLifetimeCheck(t) # "pass"
  <2>1. ~(root.until <= intermediate.until)
    BY <1>2 DEF root, intermediate
  <2>2. clock > intermediate.until => intermediate.until - clock < RotateWithin
    BY <1>2
  <2>3. CertificateLifetimeCheck(t) # "pass" <=>
          \/ intermediate.until - clock < RotateWithin
          \/ root.until - clock < MigrateWithin
    BY <1>1, <1>10, <2>1, <2>2 DEF CertificateLifetimeCheck
  <2> QED
    BY <1>9, <2>3
<1> QED
  BY <1>9, <1>10

\* security-check and the CA page judge the delivered certificates alike and at
\* the instants of their ends (CAChainCheck, CertificateLifetimeCheck, Run and
\* FailsThreshold of internal/securitycheck, caStatus of internal/api):
\* SecurityCheck's ViewsTrackDelivered, for any lifetimes, targets and thresholds
\* of the warnings, after any number of interrupted commands.
THEOREM ViewsAgreeOnDelivered == Spec => []ViewsTrackDelivered
<1> DEFINE Inv == TypeInv /\ WithinInv /\ ProgressInv /\ ServerInv /\ RootKeysInv /\ PageInv
<1>1. Init => Inv
  <2> SUFFICES ASSUME Init PROVE Inv
    OBVIOUS
  <2>1. TypeInv /\ WithinInv /\ ProgressInv
    BY TypeInvInit, WithinInvInit, ProgressInvInit
  <2>2. ServerInv
    BY <2>1 DEF Init, Down, ServerInv, LoadInv, WithinInv
  <2>3. RootKeysInv
    BY DEF Init, RootKeysInv
  <2>4. PageInv
    BY DEF Init, Down, PageInv, Gone
  <2> QED
    BY <2>1, <2>2, <2>3, <2>4
<1>2. Inv /\ [Next]_vars => Inv'
  <2> SUFFICES ASSUME Inv, [Next]_vars PROVE Inv'
    OBVIOUS
  <2>1. TypeInv' /\ WithinInv' /\ ProgressInv'
    BY TypeInvStep, WithinInvStep, ProgressInvStep
  <2>2. ServerInv'
    BY ServerStep, LoadInvCommands, LoadInvServer DEF ServerInv
  <2>3. RootKeysInv' /\ PageInv'
    BY RootKeysStep, PageInvStep
  <2> QED
    BY <2>1, <2>2, <2>3
<1>3. Inv => ViewsTrackDelivered
  BY GateFollows, PageFollows DEF ViewsTrackDelivered
<1> QED
  BY <1>1, <1>2, <1>3, PTL DEF Spec
===============================================================================
