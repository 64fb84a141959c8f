----------------------------- MODULE ClientOutput -----------------------------
(***************************************************************************)
(* What ironroot-client leaves in a certificate directory.  `request-cert` *)
(* and `renew` have the server sign a certificate first and look at the    *)
(* directory afterwards; `trust install` fetches the root.  Every command  *)
(* writes its files one by one, in the order of a Go map, over whatever is *)
(* there, and may be cut short.  Several commands may run at once (a timer *)
(* and an operator), and the server may be restarted with another          *)
(* authority between two of them.                                          *)
(*                                                                         *)
(* A file is written at once; a write that is cut short leaves it empty.   *)
(* README.txt, which is not about the certificate, is left out.            *)
(***************************************************************************)
EXTENDS Integers

CONSTANTS
    Clients,    \* shells that run commands on this directory
    Described,  \* the files modelled of those that describe the certificate
    None,       \* no value
    Missing,    \* content of a file that does not exist
    Torn,       \* content of a file whose write was cut short
    MaxRuns,    \* bound on the commands started
    MaxFaults,  \* bound on the commands cut short while they write
    MaxCAs      \* bound on the authorities the server is given

ASSUME ClientAssumption ==
    /\ Described \subseteq {"metadata.json", "fingerprints.txt"}
    /\ MaxRuns \in Nat /\ MaxFaults \in Nat /\ MaxCAs \in Nat \ {0}

VARIABLES
    files,   \* content of each file of the directory
    cmd,     \* the command each shell runs
    ca,      \* the authority the server has loaded
    runs,    \* commands started so far
    faults,  \* commands cut short so far
    done     \* history: the last success of each kind, if still undisturbed

vars == <<files, cmd, ca, runs, faults, done>>

-----------------------------------------------------------------------------
CertificateFiles == {"tls.key", "tls.crt", "ca-chain.crt", "fullchain.crt"} \cup Described

Ops == {"request", "renew", "trust"}

\* The files each command may write.
Writes == [request |-> CertificateFiles,
           renew   |-> {"tls.key", "tls.crt", "ca-chain.crt", "root-ca.crt"},
           trust   |-> {"root-ca.crt"}]

Files == UNION {Writes[op] : op \in Ops}

Conflict(op, other) == Writes[op] \cap Writes[other] # {}

\* resp holds the new key pair, and the authority once the server has answered.
\* alone and before are history: no conflicting command has overlapped, and the
\* directory when the command started.
Idle == [op |-> "none", step |-> "idle", overwrite |-> FALSE, bundle |-> FALSE,
         resp |-> None, todo |-> {}, alone |-> FALSE, before |-> None]

Running(c) == cmd[c] # Idle

\* The files this command writes: fullchain.crt only with --bundle.
FilesOf(c) ==
    IF cmd[c].op = "request" /\ ~cmd[c].bundle
    THEN CertificateFiles \ {"fullchain.crt"} ELSE Writes[cmd[c].op]

\* Mutation: the answer's chain and root are not decoded.
BodyWithoutChain(file, resp) ==
    CASE file = "tls.key" -> resp.key
      [] file \in {"ca-chain.crt", "root-ca.crt"} -> None
      [] OTHER -> resp

\* The key, the authority's certificates, or the certificate: alone, with its
\* chain, or as metadata and fingerprint.
Body(file, resp) ==
    CASE file = "tls.key" -> resp.key
      [] file \in {"ca-chain.crt", "root-ca.crt"} -> resp.ca
      [] OTHER -> resp

-----------------------------------------------------------------------------
(* The commands                                                            *)

Start(c, command) ==
    /\ ~Running(c) /\ runs < MaxRuns
    /\ runs' = runs + 1
    /\ LET others == {d \in Clients : Running(d) /\ Conflict(command.op, cmd[d].op)}
       IN cmd' = [d \in Clients |->
                    IF d = c THEN [command EXCEPT !.step = "issue", !.alone = (others = {}),
                                        !.resp = [key |-> runs + 1, ca |-> None],
                                        !.before = files]
                    ELSE IF d \in others THEN [cmd[d] EXCEPT !.alone = FALSE]
                    ELSE cmd[d]]
    /\ done' = [op \in Ops |-> IF Conflict(op, command.op) THEN None ELSE done[op]]
    /\ UNCHANGED <<files, ca, faults>>

RequestCert(c) ==
    \E overwrite, bundle \in BOOLEAN :
        Start(c, [Idle EXCEPT !.op = "request", !.overwrite = overwrite, !.bundle = bundle])

Renew(c) == Start(c, [Idle EXCEPT !.op = "renew"])

TrustInstall(c) == Start(c, [Idle EXCEPT !.op = "trust"])

\* The command returns an error before it writes: the server refuses, an option
\* that is only looked at now is wrong, or the directory cannot be written.
Refuse(c) ==
    /\ cmd[c].step \in {"issue", "check"}
    /\ cmd' = [cmd EXCEPT ![c] = Idle]
    /\ UNCHANGED <<files, ca, runs, faults, done>>

\* The server's answer, with a certificate for the key.  Only request-cert looks
\* at the directory before it writes.
Answer(c) ==
    /\ cmd[c].step = "issue"
    /\ cmd' = [cmd EXCEPT ![c].resp.ca = ca, ![c].todo = FilesOf(c),
                          ![c].step = IF cmd[c].op = "request" THEN "check" ELSE "write"]
    /\ UNCHANGED <<files, ca, runs, faults, done>>

\* Mutation: only the key is protected.
CheckKeyFile(c) ==
    /\ cmd[c].step = "check"
    /\ \E file \in cmd[c].todo :
        IF file = "tls.key" /\ ~cmd[c].overwrite /\ files[file] # Missing
        THEN cmd' = [cmd EXCEPT ![c] = Idle]
        ELSE cmd' = [cmd EXCEPT ![c].todo = @ \ {file}]
    /\ UNCHANGED <<files, ca, runs, faults, done>>

\* Mutation: each file is checked when it is its turn to be written.
CheckFileAndWrite(c) ==
    /\ cmd[c].step = "check"
    /\ \E file \in cmd[c].todo :
        IF ~cmd[c].overwrite /\ files[file] # Missing
        THEN cmd' = [cmd EXCEPT ![c] = Idle] /\ UNCHANGED files
        ELSE /\ cmd' = [cmd EXCEPT ![c].todo = @ \ {file}]
             /\ files' = [files EXCEPT ![file] = Body(file, cmd[c].resp)]
    /\ UNCHANGED <<ca, runs, faults, done>>

\* writeCertificateOutput, first loop: os.Stat of the next file.
CheckFile(c) ==
    /\ cmd[c].step = "check"
    /\ \E file \in cmd[c].todo :
        IF ~cmd[c].overwrite /\ files[file] # Missing
        THEN cmd' = [cmd EXCEPT ![c] = Idle]
        ELSE cmd' = [cmd EXCEPT ![c].todo = @ \ {file}]
    /\ UNCHANGED <<files, ca, runs, faults, done>>

\* Mode and owner are resolved, and the second loop begins.
BeginWriting(c) ==
    /\ cmd[c].step = "check" /\ cmd[c].todo = {}
    /\ cmd' = [cmd EXCEPT ![c].step = "write", ![c].todo = FilesOf(c)]
    /\ UNCHANGED <<files, ca, runs, faults, done>>

\* os.WriteFile of the next file, and os.Chown.
WriteFile(c) ==
    /\ cmd[c].step = "write"
    /\ \E file \in cmd[c].todo :
        /\ files' = [files EXCEPT ![file] = Body(file, cmd[c].resp)]
        /\ cmd' = [cmd EXCEPT ![c].todo = @ \ {file}]
    /\ UNCHANGED <<ca, runs, faults, done>>

\* Mutation: the loop goes on after an error.
CutShortUnnoticed(c) ==
    /\ cmd[c].step = "write" /\ faults < MaxFaults
    /\ faults' = faults + 1
    /\ \E file \in cmd[c].todo :
        /\ files' = [files EXCEPT ![file] = Torn]
        /\ cmd' = [cmd EXCEPT ![c].todo = @ \ {file}]
    /\ UNCHANGED <<ca, runs, done>>

\* A write or chown fails, or the command is killed.
CutShort(c) ==
    /\ cmd[c].step = "write" /\ faults < MaxFaults
    /\ faults' = faults + 1
    /\ \/ UNCHANGED files
       \/ \E file \in cmd[c].todo : files' = [files EXCEPT ![file] = Torn]
    /\ cmd' = [cmd EXCEPT ![c] = Idle]
    /\ UNCHANGED <<ca, runs, done>>

\* The command reports success.
Succeed(c) ==
    /\ cmd[c].step = "write" /\ cmd[c].todo = {}
    /\ done' = IF cmd[c].alone
               THEN [done EXCEPT ![cmd[c].op] = [resp |-> cmd[c].resp, bundle |-> cmd[c].bundle]]
               ELSE done
    /\ cmd' = [cmd EXCEPT ![c] = Idle]
    /\ UNCHANGED <<files, ca, runs, faults>>

\* The server is restarted with another authority, root and intermediate.
Rotate ==
    /\ ca < MaxCAs
    /\ ca' = ca + 1
    /\ UNCHANGED <<files, cmd, runs, faults, done>>

Init ==
    /\ files = [file \in Files |-> Missing]
    /\ cmd = [c \in Clients |-> Idle]
    /\ ca = 1 /\ runs = 0 /\ faults = 0
    /\ done = [op \in Ops |-> None]

Next ==
    \/ \E c \in Clients :
        \/ RequestCert(c) \/ Renew(c) \/ TrustInstall(c)
        \/ Refuse(c) \/ Answer(c) \/ CheckFile(c) \/ BeginWriting(c)
        \/ WriteFile(c) \/ CutShort(c) \/ Succeed(c)
    \/ Rotate

Spec == Init /\ [][Next]_vars

-----------------------------------------------------------------------------
CertificateType == [key : 1..MaxRuns, ca : 1..MaxCAs]

TypeOK ==
    /\ files["tls.key"] \in (1..MaxRuns) \cup {Missing, Torn}
    /\ \A file \in {"ca-chain.crt", "root-ca.crt"} : files[file] \in (1..MaxCAs) \cup {Missing, Torn}
    /\ \A file \in {"tls.crt", "fullchain.crt"} \cup Described :
            files[file] \in CertificateType \cup {Missing, Torn}
    /\ \A c \in Clients : Running(c) =>
            /\ cmd[c].todo \subseteq FilesOf(c)
            /\ cmd[c].step # "issue" => cmd[c].resp \in CertificateType

\* After a success that no conflicting command overlapped or followed, every file
\* this command writes comes from one answer of the server, and key, certificate
\* and chain so fit together, whatever earlier commands, cut short anywhere, had
\* left, and although the server may have changed its authority meanwhile
\* (writeCertificateOutput, writeBundle, trust).  What renew does not write is no
\* part of this: see BundleMatchesCertificate.
WholeAfterSuccess ==
    \A op \in Ops : done[op] # None =>
        LET resp == done[op].resp
            bundle == done[op].bundle
        IN \A file \in Writes[op] \ (IF op = "request" /\ ~bundle THEN {"fullchain.crt"} ELSE {}) :
                files[file] = Body(file, resp)

\* Without --overwrite, request-cert leaves every file alone that existed when
\* it started, also one that an earlier command left empty, unless a
\* conflicting command overlaps; and one that is refused has changed nothing:
\* no key without its certificate beside files that were to be protected
\* (writeCertificateOutput).
ProtectsExisting ==
    \A c \in Clients :
        (cmd[c].op = "request" /\ cmd[c].alone) =>
            \A file \in CertificateFiles :
                \/ files[file] = cmd[c].before[file]
                \/ cmd[c].step = "write" /\ (cmd[c].overwrite \/ cmd[c].before[file] = Missing)

\* docs/api-cli/ironroot-client.md: `fullchain.crt` is "`tls.crt` plus CA chain",
\* in the directory that docs/cli/index.md has renewed.  After a renewal that no
\* conflicting command overlapped or followed, a whole fullchain.crt is that of
\* the certificate beside it, and so of tls.key (writeBundle).
BundleMatchesCertificate ==
    done["renew"] # None => files["fullchain.crt"] \in {Missing, Torn, files["tls.crt"]}
===============================================================================
