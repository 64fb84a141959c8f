------------------------------- MODULE LocalPki -------------------------------
(***************************************************************************)
(* The offline ceremony: `ca create-root` and `ca create-intermediate`     *)
(* write keys, certificates and their copies file by file, over whatever   *)
(* is there, and may be cut short between or inside two writes.  A server  *)
(* that starts meanwhile reads the intermediate's files one by one         *)
(* (LoadAuthority); `ca verify-chain` and two security checks read them    *)
(* later.                                                                  *)
(*                                                                         *)
(* Keys and passwords are named by the number of the command that made     *)
(* them; 0 is a password the operator brought along.  Files are small: a   *)
(* write that fails or is cut short leaves the old content or an empty     *)
(* file.  One operator runs one command at a time.                         *)
(***************************************************************************)
EXTENDS Integers, Sequences

CONSTANTS
    Lifetimes,     \* lifetimes the operator asks for
    Sources,       \* where a new key's password may come from
    RootSources,   \* where the root key's password may come from
    ExportSets,    \* sets of optional copies: --pem, --der, --generate-trust-bundle
    None,          \* no value
    Missing,       \* content of a file that does not exist
    Torn,          \* content of a file whose write was cut short
    Plain,         \* password of a key written with --encrypt-key=false
    RotateWithin,  \* 180 days: the check warns of the intermediate's end
    MigrateWithin, \* 2 years: the check warns of the root's end
    MaxRuns,       \* bound on the ceremony's commands
    MaxFaults,     \* bound on commands cut short
    MaxLoads,      \* bound on starts of the server
    MaxClock       \* bound on the clock

RootCopies == {"root-ca.pem", "root-ca.der", "trust-bundle/root-ca.crt"}

ASSUME CeremonyAssumption ==
    /\ Lifetimes \subseteq Nat \ {0}
    /\ Sources \subseteq {"given", "file", "generated", "plain"}
    /\ RootSources \subseteq {"given", "file"}
    /\ \A exports \in ExportSets : exports \subseteq RootCopies
    /\ RotateWithin \in Nat /\ MigrateWithin \in Nat
    /\ MaxRuns \in Nat /\ MaxFaults \in Nat /\ MaxLoads \in Nat /\ MaxClock \in Nat

VARIABLES
    files,      \* content of each file
    cmd,        \* the command that is running
    runs,       \* commands started so far
    faults,     \* commands cut short so far
    clock,
    server,     \* the server's LoadAuthority and what it loaded
    loads,      \* starts of the server so far
    root_certs, \* history: root certificates ever made
    delivered   \* history: what the last commands reported as created

vars == <<files, cmd, runs, faults, clock, server, loads, root_certs, delivered>>

-----------------------------------------------------------------------------
(* Files                                                                   *)

RootFiles == {"root-ca.password", "root-ca.key", "root-ca.crt", "root-ca.pub",
              "metadata.json", "fingerprints.txt"} \cup RootCopies
IntermediateFiles == {"intermediate-ca.password", "intermediate-ca.key",
                      "intermediate-ca.csr", "intermediate-ca.crt", "ca-chain.crt"}

PasswordFile(op) == IF op = "root" THEN "root-ca.password" ELSE "intermediate-ca.password"

Complete(content) == content \notin {Missing, Torn}

\* A certificate names its key, the key that signed it and its NotAfter.
Cert(key, signer, until) == [key |-> key, signer |-> signer, until |-> until]

\* readPrivateKey: an unencrypted key opens with any password.
Opens(content, pass) == Complete(content) /\ content.pass \in {Plain, pass}

-----------------------------------------------------------------------------
(* A command                                                               *)

Loading == server.step \notin {"down", "ready", "disabled"}

\* Lifetime of a command whose options do not parse or do not validate.
Refused == 0

Idle == [op |-> "none", step |-> "idle", source |-> "given", root_source |-> "given",
         lifetime |-> Refused, exports |-> {}, root_pass |-> 0, pass |-> 0,
         cert |-> None, parent |-> None, todo |-> <<>>]

\* The options of the command line.
Run(c) ==
    /\ cmd = Idle /\ runs < MaxRuns
    /\ runs' = runs + 1
    /\ \E source \in IF c.op = "root" THEN Sources ELSE Sources \ {"plain"},
          lifetime \in Lifetimes \cup {Refused} :
            cmd' = [c EXCEPT !.source = source, !.lifetime = lifetime]
    /\ server' = [server EXCEPT !.undisturbed = server.undisturbed /\ ~Loading]
    /\ UNCHANGED <<files, faults, clock, loads, root_certs>>

CreateRootCommand ==
    /\ \E exports \in ExportSets :
        Run([Idle EXCEPT !.op = "root", !.step = "password", !.exports = exports])
    /\ delivered' = [root |-> None, intermediate |-> None]

CreateIntermediateCommand ==
    /\ \E root_source \in RootSources :
        Run([Idle EXCEPT !.op = "intermediate", !.step = "root_password",
                         !.root_source = root_source])
    /\ delivered' = [delivered EXCEPT !.intermediate = None]

world == <<runs, faults, clock, server, loads, delivered>>

\* The command returns an error; what it has written stays.
Fail == cmd' = Idle

\* Mutation: an empty password is a password.
ReadableAlways(file) == TRUE

\* readPasswordFile refuses a missing or empty file.
Readable(file) == Complete(files[file])

\* resolveExistingPassword: the root key's password, from the command line or
\* from the file beside the key.
ResolveExistingPassword ==
    /\ cmd.step = "root_password"
    /\ IF cmd.root_source = "file" /\ ~Readable("root-ca.password")
       THEN Fail
       ELSE cmd' = [cmd EXCEPT !.step = "password",
                               !.root_pass = IF cmd.root_source = "file"
                                             THEN files["root-ca.password"] ELSE 0]
    /\ UNCHANGED <<files, root_certs, world>>

\* Mutation: a password file that exists is kept.
GenerateOnce(file) ==
    files' = IF files[file] = Missing THEN [files EXCEPT ![file] = runs] ELSE files

\* A generated password replaces the one that may be in the file.
Generate(file) == files' = [files EXCEPT ![file] = runs]

\* resolveRootPassword, resolvePassword: the new key's password.  One that the
\* operator did not choose is generated, and written before anything else is
\* even validated.
ResolvePassword ==
    /\ cmd.step = "password"
    /\ LET file == PasswordFile(cmd.op)
           pass == CASE cmd.source = "plain" -> Plain
                     [] cmd.source = "given" -> 0
                     [] cmd.source = "file" -> files[file]
                     [] cmd.source = "generated" -> runs
       IN /\ IF cmd.source = "file" /\ ~Readable(file)
             THEN Fail ELSE cmd' = [cmd EXCEPT !.step = "create", !.pass = pass]
          /\ IF cmd.source = "generated" THEN Generate(file) ELSE UNCHANGED files
    /\ UNCHANGED <<root_certs, world>>

Exported(file) == IF file \in cmd.exports THEN <<file>> ELSE <<>>

\* CreateRoot up to the first write: validate, make the key, sign.
CreateRoot ==
    /\ cmd.op = "root" /\ cmd.step = "create"
    /\ IF cmd.lifetime = Refused
       THEN Fail /\ UNCHANGED root_certs
       ELSE LET cert == Cert(runs, runs, clock + cmd.lifetime)
            IN /\ root_certs' = root_certs \cup {cert}
               /\ cmd' = [cmd EXCEPT !.step = "write", !.cert = cert,
                      !.todo = <<"root-ca.key", "root-ca.crt", "root-ca.pub">>
                               \o Exported("root-ca.pem") \o Exported("root-ca.der")
                               \o <<"metadata.json", "fingerprints.txt">>
                               \o Exported("trust-bundle/root-ca.crt")]
    /\ UNCHANGED <<files, world>>

\* Mutation: the key is not compared with the certificate.
SignsForAny(key, parent) == TRUE

\* x509.CreateCertificate refuses a key that is not the parent certificate's.
SignsFor(key, parent) == key.key = parent.key

\* CreateIntermediate up to the first write: read the root, make the key, check
\* the lifetimes, sign.
CreateIntermediate ==
    /\ cmd.op = "intermediate" /\ cmd.step = "create"
    /\ LET root == files["root-ca.crt"]
           key  == files["root-ca.key"]
           until == clock + cmd.lifetime
       IN IF /\ cmd.lifetime # Refused
             /\ Complete(root) /\ Opens(key, cmd.root_pass)
             /\ until <= root.until
             /\ SignsFor(key, root)
          THEN cmd' = [cmd EXCEPT !.step = "write", !.parent = root,
                          !.cert = Cert(runs, key.key, until),
                          !.todo = <<"intermediate-ca.key", "intermediate-ca.csr",
                                     "intermediate-ca.crt", "ca-chain.crt">>]
          ELSE Fail
    /\ UNCHANGED <<files, root_certs, world>>

\* Mutation: an existing chain file is kept.
NewContentKeepingChain(file) ==
    CASE file \in {"root-ca.key", "intermediate-ca.key"} -> [key |-> cmd.cert.key, pass |-> cmd.pass]
      [] file \in {"root-ca.pub", "intermediate-ca.csr"} -> cmd.cert.key
      [] file = "ca-chain.crt" -> IF Complete(files[file]) THEN files[file]
                                                           ELSE <<cmd.cert, cmd.parent>>
      [] OTHER -> cmd.cert

\* What the running command writes into a file: the key under its password, the
\* public key, the two certificates of the chain, or the certificate, of which
\* metadata and fingerprints are copies too.
NewContent(file) ==
    CASE file \in {"root-ca.key", "intermediate-ca.key"} -> [key |-> cmd.cert.key, pass |-> cmd.pass]
      [] file \in {"root-ca.pub", "intermediate-ca.csr"} -> cmd.cert.key
      [] file = "ca-chain.crt" -> <<cmd.cert, cmd.parent>>
      [] OTHER -> cmd.cert

\* os.WriteFile of the next file, over an existing one.
WriteFile ==
    /\ cmd.step = "write" /\ cmd.todo # <<>>
    /\ files' = [files EXCEPT ![Head(cmd.todo)] = NewContent(Head(cmd.todo))]
    /\ cmd' = [cmd EXCEPT !.todo = Tail(cmd.todo)]
    /\ UNCHANGED <<root_certs, world>>

\* The command reports success.
Succeed ==
    /\ cmd.step = "write" /\ cmd.todo = <<>>
    /\ delivered' = [delivered EXCEPT ![cmd.op] =
                        [cert |-> cmd.cert, pass |-> cmd.pass, source |-> cmd.source,
                         exports |-> cmd.exports]]
    /\ cmd' = Idle
    /\ UNCHANGED <<files, runs, faults, clock, server, loads, root_certs>>

\* Files the command may be writing at this moment.
BeingWritten == CASE cmd.step = "write" /\ cmd.todo # <<>> -> {Head(cmd.todo)}
                  [] cmd.step = "password" /\ cmd.source = "generated" -> {PasswordFile(cmd.op)}
                  [] OTHER -> {}

\* Mutation: an error of os.WriteFile is not returned.
CutShortUnnoticed ==
    /\ cmd # Idle /\ faults < MaxFaults
    /\ faults' = faults + 1
    /\ \E torn \in SUBSET BeingWritten :
        files' = [file \in DOMAIN files |-> IF file \in torn THEN Torn ELSE files[file]]
    /\ cmd' = IF cmd.step = "write" /\ cmd.todo # <<>>
              THEN [cmd EXCEPT !.todo = Tail(cmd.todo)] ELSE Idle
    /\ UNCHANGED <<runs, clock, server, loads, root_certs, delivered>>

\* A write fails, or the command is killed, anywhere.
CutShort ==
    /\ cmd # Idle /\ faults < MaxFaults
    /\ faults' = faults + 1
    /\ \E torn \in SUBSET BeingWritten :
        files' = [file \in DOMAIN files |-> IF file \in torn THEN Torn ELSE files[file]]
    /\ cmd' = Idle
    /\ UNCHANGED <<runs, clock, server, loads, root_certs, delivered>>

-----------------------------------------------------------------------------
(* The server                                                              *)

\* undisturbed is history: both commands had succeeded when the server started,
\* it was configured with the password they reported, and no command ran until
\* the last file was read.
Down == [step |-> "down", pass |-> 0, cert |-> None, key |-> None, chain |-> None,
         root |-> None, undisturbed |-> FALSE]

ceremony == <<files, cmd, runs, faults, clock, root_certs, delivered>>

\* main calls LoadAuthority, with pki.intermediate_key_pass.
StartServer ==
    /\ ~Loading /\ loads < MaxLoads
    /\ loads' = loads + 1
    /\ \E pass \in 0..runs :
        server' = [Down EXCEPT !.step = "cert", !.pass = pass,
                      !.undisturbed = /\ cmd = Idle
                                      /\ delivered.root # None /\ delivered.intermediate # None
                                      /\ pass = delivered.intermediate.pass]
    /\ UNCHANGED ceremony

\* Step of LoadAuthority: read one file and go on to the next.
Load(at, file, field, next) ==
    /\ server.step = at
    /\ server' = [server EXCEPT !.step = next, ![field] = files[file]]
    /\ UNCHANGED <<loads, ceremony>>

LoadCert == Load("cert", "intermediate-ca.crt", "cert", "key")
LoadKey == Load("key", "intermediate-ca.key", "key", "parse")

\* The certificate is parsed and the key decrypted before the chain is read; an
\* error leaves the server with the DisabledAuthority.
Parse ==
    /\ server.step = "parse"
    /\ server' = IF Complete(server.cert) /\ Opens(server.key, server.pass)
                 THEN [server EXCEPT !.step = "chain", !.pass = 0]
                 ELSE [Down EXCEPT !.step = "disabled", !.undisturbed = server.undisturbed]
    /\ UNCHANGED <<loads, ceremony>>

\* Chain and root are read as they are; an error leaves them empty.
LoadChain == Load("chain", "ca-chain.crt", "chain", "root")
LoadRoot == Load("root", "root-ca.crt", "root", "ready")

Tick == clock < MaxClock /\ clock' = clock + 1
        /\ UNCHANGED <<files, cmd, runs, faults, server, loads, root_certs, delivered>>

Init ==
    /\ files = [file \in RootFiles \cup IntermediateFiles |-> Missing]
    /\ cmd = Idle /\ runs = 0 /\ faults = 0 /\ clock = 0
    /\ server = Down /\ loads = 0
    /\ root_certs = {} /\ delivered = [root |-> None, intermediate |-> None]

Next == \/ CreateRootCommand \/ CreateIntermediateCommand
        \/ ResolveExistingPassword \/ ResolvePassword
        \/ CreateRoot \/ CreateIntermediate \/ WriteFile \/ Succeed \/ CutShort
        \/ StartServer \/ LoadCert \/ LoadKey \/ Parse \/ LoadChain \/ LoadRoot \/ Tick

Spec == Init /\ [][Next]_vars

-----------------------------------------------------------------------------
(* What reads the files later                                              *)

\* verify-chain without a leaf: the intermediate's signature by the root.
VerifyChain ==
    /\ Complete(files["root-ca.crt"]) /\ Complete(files["intermediate-ca.crt"])
    /\ files["intermediate-ca.crt"].signer = files["root-ca.crt"].key

-----------------------------------------------------------------------------
Keys == 1..MaxRuns
Passwords == 0..MaxRuns \cup {Plain}
CertificateType == [key : Keys, signer : Keys, until : Nat]
KeyType == [key : Keys, pass : Passwords]

\* No value, no file and a torn one are nothing that a complete file may hold.
ASSUME ContentsAssumption ==
    /\ Plain \notin Int
    /\ \A gone \in {Missing, Torn, None} :
          gone \notin CertificateType \cup KeyType \cup (CertificateType \X CertificateType)

TypeOK ==
    /\ \A file \in {"root-ca.password", "intermediate-ca.password"} :
            files[file] \in Passwords \cup {Missing, Torn}
    /\ \A file \in {"root-ca.key", "intermediate-ca.key"} :
            files[file] \in KeyType \cup {Missing, Torn}
    /\ \A file \in {"root-ca.pub", "intermediate-ca.csr"} : files[file] \in Keys \cup {Missing, Torn}
    /\ files["ca-chain.crt"] \in (CertificateType \X CertificateType) \cup {Missing, Torn}
    /\ \A file \in {"root-ca.crt", "metadata.json", "fingerprints.txt",
                    "intermediate-ca.crt"} \cup RootCopies :
            files[file] \in CertificateType \cup {Missing, Torn}
    /\ cmd.step \in {"idle", "root_password", "password", "create", "write"}
    /\ cmd.root_pass \in Passwords
    /\ cmd.step = "write" => /\ cmd.cert \in CertificateType /\ cmd.pass \in Passwords
                             /\ cmd.op = "intermediate" => cmd.pass # Plain

\* The password file holds the password of what was delivered from it.
PasswordKept(op) ==
    delivered[op].source \in {"file", "generated"} => files[PasswordFile(op)] = delivered[op].pass

\* When create-root has reported success, the key opens with the password it
\* took or generated, and certificate, public key, metadata and every copy that
\* was asked for belong to that key: whatever earlier commands, cut short
\* anywhere, left in the directory (createRootCA, writeRootArtifacts).
RootDelivered ==
    delivered.root # None =>
        LET root == delivered.root IN
        /\ PasswordKept("root")
        /\ files["root-ca.key"] = [key |-> root.cert.key, pass |-> root.pass]
        /\ files["root-ca.pub"] = root.cert.key
        /\ \A file \in {"root-ca.crt", "metadata.json", "fingerprints.txt"} \cup root.exports :
                files[file] = root.cert

\* When create-intermediate has reported success, its chain is its certificate
\* followed by the root's as it is on disk, verify-chain accepts it, and its key
\* opens with the password it took or generated (createIntermediateCA).
IntermediateDelivered ==
    delivered.intermediate # None =>
        LET intermediate == delivered.intermediate IN
        /\ PasswordKept("intermediate")
        /\ files["intermediate-ca.crt"] = intermediate.cert
        /\ files["intermediate-ca.csr"] = intermediate.cert.key
        /\ files["intermediate-ca.key"] = [key |-> intermediate.cert.key, pass |-> intermediate.pass]
        /\ delivered.root # None =>
              /\ files["ca-chain.crt"] = <<intermediate.cert, files["root-ca.crt"]>>
              /\ VerifyChain

\* No intermediate certificate, complete or superseded, in a file or in a
\* server's memory, outlives the root certificate whose key signed it: a root
\* key and certificate of different runs never sign (CreateIntermediate).
WithinRoot ==
    \A cert \in {files["intermediate-ca.crt"], cmd.cert, server.cert} \ {Missing, Torn, None} :
        \E root \in root_certs : cert.signer = root.key /\ cert.until <= root.until

\* A server that starts on delivered files, undisturbed and with the reported
\* password, can issue: its key is its certificate's, and the chain and the root
\* it serves lead from one to the other (LoadAuthority, SignCSR).
UndisturbedLoadIssues ==
    server.undisturbed =>
        /\ server.step # "disabled"
        /\ server.step = "ready" => /\ server.key.key = server.cert.key
                                    /\ server.chain = <<server.cert, server.root>>
                                    /\ server.cert.signer = server.root.key
===============================================================================
