-------------------------- MODULE ClientOutputProofs --------------------------
(***************************************************************************)
(* Theorems about ClientOutput, for any number of shells, commands,        *)
(* interruptions and authorities.  Apart says that nobody writes into the  *)
(* files of a command that is alone, nor into those of a success that is   *)
(* still remembered; Progress what a command that is alone has written;    *)
(* Checked what it has found free before it writes.                        *)
(***************************************************************************)
EXTENDS ClientOutput, TLAPS

-----------------------------------------------------------------------------
(* Types                                                                   *)

Content(file) ==
    IF file = "tls.key" THEN 1 .. MaxRuns
    ELSE IF file \in {"ca-chain.crt", "root-ca.crt"} THEN 1 .. MaxCAs
    ELSE CertificateType

Contents == (1 .. MaxRuns) \cup (1 .. MaxCAs) \cup CertificateType \cup {Missing, Torn}

Response == [key : 1 .. MaxRuns, ca : (1 .. MaxCAs) \cup {None}]

Command == [op : Ops \cup {"none"}, step : {"idle", "issue", "check", "write"},
            overwrite : BOOLEAN, bundle : BOOLEAN, resp : Response \cup {None},
            todo : SUBSET Files, alone : BOOLEAN, before : [Files -> Contents] \cup {None}]

FilesInv == /\ files \in [Files -> Contents]
            /\ \A file \in Files : files[file] \in Content(file) \cup {Missing, Torn}

\* FilesOf of a command.
Own(k) == IF k.op = "request" /\ ~k.bundle
          THEN CertificateFiles \ {"fullchain.crt"} ELSE Writes[k.op]

Sound(k) ==
    /\ k.op = "none" <=> k = Idle
    /\ k.op = "none" <=> k.step = "idle"
    /\ k.op # "none" => /\ k.todo \subseteq Own(k) /\ k.resp \in Response
                        /\ k.before \in [Files -> Contents]
    /\ k.step \in {"check", "write"} => k.resp \in CertificateType
    /\ k.step = "check" => k.op = "request"

TypeInv == /\ FilesInv
           /\ cmd \in [Clients -> Command] /\ \A c \in Clients : Sound(cmd[c])
           /\ ca \in 1 .. MaxCAs /\ runs \in 0 .. MaxRuns
           /\ done = [op \in Ops |-> done[op]]

\* Each file is one of its own kind.
LEMMA FileNames ==
    /\ Files = {"tls.key", "tls.crt", "ca-chain.crt", "fullchain.crt", "root-ca.crt"} \cup Described
    /\ Described \subseteq {"metadata.json", "fingerprints.txt"}
    /\ \A op \in Ops : Writes[op] \subseteq Files
BY ClientAssumption DEF Files, Writes, Ops, CertificateFiles

\* A command writes files that it may write.
LEMMA OwnWrites ==
    ASSUME NEW k, k.op \in Ops
    PROVE  Own(k) \subseteq Writes[k.op] /\ Own(k) \subseteq Files
<1>1. Own(k) \subseteq Writes[k.op]
  BY DEF Own, Writes, Ops
<1> QED
  BY <1>1, FileNames

\* What it writes is of the file's kind.
LEMMA BodyContent ==
    ASSUME NEW file \in Files, NEW resp \in CertificateType
    PROVE  Body(file, resp) \in Content(file) /\ Body(file, resp) \in Contents
BY FileNames DEF Body, Content, Contents, CertificateType

\* TypeInv is TypeOK and more.
LEMMA TypeInvImplies == TypeInv => TypeOK
<1> SUFFICES ASSUME TypeInv PROVE TypeOK
  OBVIOUS
<1>1. \A file \in Files : files[file] \in Content(file) \cup {Missing, Torn}
  BY DEF TypeInv, FilesInv
<1>2. ASSUME NEW c \in Clients, Running(c)
      PROVE  /\ cmd[c].todo \subseteq FilesOf(c)
             /\ cmd[c].step # "issue" => cmd[c].resp \in CertificateType
  BY <1>2 DEF TypeInv, Sound, Running, Command, FilesOf, Own
<1> QED
  BY <1>1, <1>2, FileNames DEF TypeOK, Content

\* No command runs.
LEMMA IdleOK == Idle \in Command /\ Idle.op = "none" /\ Idle.step = "idle" /\ Idle.alone = FALSE
BY DEF Idle, Command

\* The empty directory.
LEMMA TypeInvInit == Init => TypeInv
<1> SUFFICES ASSUME Init PROVE TypeInv
  OBVIOUS
<1>1. FilesInv
  BY DEF Init, FilesInv, Contents
<1>2. cmd \in [Clients -> Command] /\ \A c \in Clients : cmd[c] = Idle
  BY IdleOK DEF Init
<1>3. \A c \in Clients : Sound(cmd[c])
  BY <1>2, IdleOK DEF Sound
<1> QED
  BY <1>1, <1>2, <1>3, ClientAssumption DEF Init, TypeInv

-----------------------------------------------------------------------------
(* What a step does                                                        *)

\* A command that starts: it knows whether it is alone, and those it overlaps
\* are no more.
Started(c, k) ==
    /\ UNCHANGED <<files, ca>> /\ runs' = runs + 1 /\ runs < MaxRuns
    /\ k.op \in Ops /\ k.step = "issue" /\ k.todo = {} /\ k.before = files
    /\ k.resp = [key |-> runs + 1, ca |-> None]
    /\ \A d \in Clients \ {c} : cmd[d].op \in Ops /\ Conflict(k.op, cmd[d].op) => ~k.alone
    /\ cmd' = [d \in Clients |->
                  IF d = c THEN k
                  ELSE IF cmd[d].op \in Ops /\ Conflict(k.op, cmd[d].op)
                       THEN [cmd[d] EXCEPT !.alone = FALSE] ELSE cmd[d]]
    /\ done' = [op \in Ops |-> IF Conflict(op, k.op) THEN None ELSE done[op]]

\* The three commands start so.
LEMMA StartShape ==
    ASSUME TypeInv, NEW c \in Clients, RequestCert(c) \/ Renew(c) \/ TrustInstall(c)
    PROVE  \E k \in Command : Started(c, k)
<1>1. PICK command \in Command : command.op \in Ops /\ command.todo = {} /\ Start(c, command)
  <2>1. ASSUME NEW overwrite \in BOOLEAN, NEW bundle \in BOOLEAN
        PROVE  /\ [Idle EXCEPT !.op = "request", !.overwrite = overwrite, !.bundle = bundle]
                     \in Command
               /\ [Idle EXCEPT !.op = "renew"] \in Command
               /\ [Idle EXCEPT !.op = "trust"] \in Command
    BY DEF Idle, Command, Ops
  <2>2. ASSUME NEW overwrite \in BOOLEAN, NEW bundle \in BOOLEAN
        PROVE  \A command \in
                  {[Idle EXCEPT !.op = "request", !.overwrite = overwrite, !.bundle = bundle],
                   [Idle EXCEPT !.op = "renew"], [Idle EXCEPT !.op = "trust"]} :
                        command.op \in Ops /\ command.todo = {}
    BY DEF Idle, Ops
  <2> QED
    BY <2>1, <2>2 DEF RequestCert, Renew, TrustInstall
<1> DEFINE others == {d \in Clients : Running(d) /\ Conflict(command.op, cmd[d].op)}
           k == [command EXCEPT !.step = "issue", !.alone = (others = {}),
                                !.resp = [key |-> runs + 1, ca |-> None], !.before = files]
<1>2. /\ cmd' = [d \in Clients |-> IF d = c THEN k
                                   ELSE IF d \in others THEN [cmd[d] EXCEPT !.alone = FALSE]
                                   ELSE cmd[d]]
      /\ done' = [op \in Ops |-> IF Conflict(op, command.op) THEN None ELSE done[op]]
      /\ UNCHANGED <<files, ca>> /\ runs' = runs + 1 /\ runs < MaxRuns
  BY <1>1 DEF Start
<1>3. \A d \in Clients : Running(d) <=> cmd[d].op \in Ops
  BY DEF TypeInv, Sound, Running, Command, Ops
<1>4. [key |-> runs + 1, ca |-> None] \in Response
  <2>1. MaxRuns \in Nat /\ runs \in 0 .. MaxRuns /\ runs < MaxRuns
    BY <1>2, ClientAssumption DEF TypeInv
  <2>2. runs + 1 \in 1 .. MaxRuns
    BY <2>1
  <2> QED
    BY <2>2 DEF Response
<1>5. k \in Command
  BY <1>1, <1>4 DEF Command, TypeInv, FilesInv
<1>6. /\ k.op = command.op /\ k.step = "issue" /\ k.todo = {} /\ k.before = files
      /\ k.resp = [key |-> runs + 1, ca |-> None] /\ k.alone = (others = {})
  BY <1>1 DEF Command
<1>7. \A d \in Clients : d \in others <=> cmd[d].op \in Ops /\ Conflict(k.op, cmd[d].op)
  BY <1>3, <1>6
<1> HIDE DEF k, others
<1>8. Started(c, k)
  BY <1>1, <1>2, <1>6, <1>7 DEF Started
<1> QED
  BY <1>5, <1>8

\* A command of which nothing is left.
Ended(c) == cmd' = [cmd EXCEPT ![c] = Idle]

\* It goes on to another step or with fewer files to do.
GoesOn(c, k) ==
    /\ cmd' = [cmd EXCEPT ![c] = k]
    /\ k.op = cmd[c].op /\ k.overwrite = cmd[c].overwrite /\ k.bundle = cmd[c].bundle
    /\ k.alone = cmd[c].alone /\ k.before = cmd[c].before

\* It asks, or looks at the directory.
LEMMA LookShape ==
    ASSUME TypeInv, NEW c \in Clients, Answer(c) \/ CheckFile(c) \/ BeginWriting(c)
    PROVE  /\ UNCHANGED <<files, ca, runs, done>> /\ cmd[c].op \in Ops
           /\ cmd[c].step \in {"issue", "check"}
           /\ \/ cmd[c].step = "check" /\ Ended(c)
              \/ \E k \in Command :
                    /\ GoesOn(c, k)
                    /\ \/ /\ cmd[c].step = "issue" /\ k.todo = Own(cmd[c])
                          /\ k.resp \in CertificateType
                          /\ k.step = IF cmd[c].op = "request" THEN "check" ELSE "write"
                       \/ /\ cmd[c].step = "check" /\ k.resp = cmd[c].resp
                          /\ \/ /\ k.step = "check"
                                /\ \E file \in cmd[c].todo :
                                      /\ k.todo = cmd[c].todo \ {file}
                                      /\ cmd[c].overwrite \/ files[file] = Missing
                             \/ /\ k.step = "write" /\ k.todo = Own(cmd[c])
                                /\ cmd[c].todo = {}
<1>1. cmd[c] \in Command /\ Sound(cmd[c]) /\ ca \in 1 .. MaxCAs /\ cmd \in [Clients -> Command]
  BY DEF TypeInv
<1>2. cmd[c].op \in Ops /\ cmd[c].step \in {"issue", "check"}
  BY <1>1 DEF Answer, CheckFile, BeginWriting, Sound, Command
<1>3. UNCHANGED <<files, ca, runs, done>>
  BY DEF Answer, CheckFile, BeginWriting
<1>4. CASE Answer(c)
  <2> DEFINE r == [cmd[c].resp EXCEPT !.ca = ca]
             k == [cmd[c] EXCEPT !.resp = r, !.todo = FilesOf(c),
                                 !.step = IF cmd[c].op = "request" THEN "check" ELSE "write"]
  <2>1. cmd' = [cmd EXCEPT ![c] = k]
    BY <1>1, <1>4 DEF Answer
  <2>2. r \in CertificateType /\ r \in Response
    BY <1>1, <1>2 DEF Sound, Response, CertificateType, Ops
  <2>3. FilesOf(c) = Own(cmd[c]) /\ FilesOf(c) \subseteq Files
    BY <1>2, OwnWrites DEF FilesOf, Own
  <2> HIDE DEF r
  <2>4. k \in Command
    BY <1>1, <2>2, <2>3 DEF Command
  <2>5. /\ k.op = cmd[c].op /\ k.overwrite = cmd[c].overwrite /\ k.bundle = cmd[c].bundle
        /\ k.alone = cmd[c].alone /\ k.before = cmd[c].before /\ k.resp = r
        /\ k.todo = Own(cmd[c]) /\ k.step = IF cmd[c].op = "request" THEN "check" ELSE "write"
    BY <1>1, <2>3 DEF Command
  <2> HIDE DEF k
  <2> QED
    BY <1>2, <1>3, <1>4, <2>1, <2>2, <2>4, <2>5 DEF GoesOn, Answer
<1>5. CASE CheckFile(c)
  <2>1. PICK file \in cmd[c].todo :
            IF ~cmd[c].overwrite /\ files[file] # Missing
            THEN cmd' = [cmd EXCEPT ![c] = Idle]
            ELSE cmd' = [cmd EXCEPT ![c].todo = @ \ {file}]
    BY <1>5 DEF CheckFile
  <2>2. cmd[c].step = "check"
    BY <1>5 DEF CheckFile
  <2>3. CASE ~cmd[c].overwrite /\ files[file] # Missing
    BY <1>2, <1>3, <2>1, <2>2, <2>3 DEF Ended
  <2>4. CASE cmd[c].overwrite \/ files[file] = Missing
    <3> DEFINE k == [cmd[c] EXCEPT !.todo = cmd[c].todo \ {file}]
    <3>1. cmd' = [cmd EXCEPT ![c] = k] /\ k \in Command
      BY <1>1, <2>1, <2>4 DEF Command
    <3>2. /\ k.op = cmd[c].op /\ k.overwrite = cmd[c].overwrite /\ k.bundle = cmd[c].bundle
          /\ k.alone = cmd[c].alone /\ k.before = cmd[c].before /\ k.resp = cmd[c].resp
          /\ k.todo = cmd[c].todo \ {file} /\ k.step = "check"
      BY <1>1, <2>2 DEF Command
    <3> HIDE DEF k
    <3> QED
      BY <1>2, <1>3, <2>2, <2>4, <3>1, <3>2 DEF GoesOn
  <2> QED
    BY <1>1, <2>3, <2>4 DEF Command
<1>6. CASE BeginWriting(c)
  <2> DEFINE k == [cmd[c] EXCEPT !.step = "write", !.todo = FilesOf(c)]
  <2>1. cmd' = [cmd EXCEPT ![c] = k] /\ cmd[c].step = "check" /\ cmd[c].todo = {}
    BY <1>1, <1>6 DEF BeginWriting
  <2>2. FilesOf(c) = Own(cmd[c]) /\ FilesOf(c) \subseteq Files
    BY <1>2, OwnWrites DEF FilesOf, Own
  <2>3. k \in Command
    BY <1>1, <2>2 DEF Command
  <2>4. /\ k.op = cmd[c].op /\ k.overwrite = cmd[c].overwrite /\ k.bundle = cmd[c].bundle
        /\ k.alone = cmd[c].alone /\ k.before = cmd[c].before /\ k.resp = cmd[c].resp
        /\ k.todo = Own(cmd[c]) /\ k.step = "write"
    BY <1>1, <2>2 DEF Command
  <2> HIDE DEF k
  <2> QED
    BY <1>2, <1>3, <2>1, <2>3, <2>4 DEF GoesOn
<1> QED
  BY <1>4, <1>5, <1>6

\* It writes, or is cut short, perhaps inside a write.
LEMMA WriteShape ==
    ASSUME TypeInv, NEW c \in Clients, WriteFile(c) \/ CutShort(c)
    PROVE  /\ UNCHANGED <<ca, runs, done>> /\ cmd[c].op \in Ops /\ cmd[c].step = "write"
           /\ \/ /\ Ended(c)
                 /\ \/ UNCHANGED files
                    \/ \E file \in cmd[c].todo : files' = [files EXCEPT ![file] = Torn]
              \/ \E file \in cmd[c].todo, k \in Command :
                    /\ files' = [files EXCEPT ![file] = Body(file, cmd[c].resp)]
                    /\ GoesOn(c, k) /\ k.step = "write" /\ k.resp = cmd[c].resp
                    /\ k.todo = cmd[c].todo \ {file}
<1>1. cmd[c] \in Command /\ Sound(cmd[c]) /\ cmd \in [Clients -> Command]
  BY DEF TypeInv
<1>2. cmd[c].op \in Ops /\ cmd[c].step = "write" /\ UNCHANGED <<ca, runs, done>>
  BY <1>1 DEF WriteFile, CutShort, Sound, Command
<1>3. CASE CutShort(c)
  BY <1>2, <1>3 DEF CutShort, Ended
<1>4. CASE WriteFile(c)
  <2>1. PICK file \in cmd[c].todo :
          /\ files' = [files EXCEPT ![file] = Body(file, cmd[c].resp)]
          /\ cmd' = [cmd EXCEPT ![c].todo = @ \ {file}]
    BY <1>4 DEF WriteFile
  <2> DEFINE k == [cmd[c] EXCEPT !.todo = cmd[c].todo \ {file}]
  <2>2. cmd' = [cmd EXCEPT ![c] = k] /\ k \in Command
    BY <1>1, <2>1 DEF Command
  <2>3. /\ k.op = cmd[c].op /\ k.overwrite = cmd[c].overwrite /\ k.bundle = cmd[c].bundle
        /\ k.alone = cmd[c].alone /\ k.before = cmd[c].before /\ k.resp = cmd[c].resp
        /\ k.todo = cmd[c].todo \ {file} /\ k.step = "write"
    BY <1>1, <1>2 DEF Command
  <2> HIDE DEF k
  <2> QED
    BY <1>2, <2>1, <2>2, <2>3 DEF GoesOn
<1> QED
  BY <1>3, <1>4

\* The type of a command that goes on, of one that ended, and of the others.
LEMMA CmdTypes ==
    ASSUME TypeInv, NEW c \in Clients,
           \/ Ended(c)
           \/ \E k \in Command :
                 /\ GoesOn(c, k) /\ cmd[c].op \in Ops /\ k.todo \subseteq Own(cmd[c])
                 /\ (k.step = "check" /\ cmd[c].op = "request") \/ k.step = "write"
                 /\ k.resp \in CertificateType
    PROVE  cmd' \in [Clients -> Command] /\ \A d \in Clients : Sound(cmd'[d])
<1>0. cmd \in [Clients -> Command] /\ \A d \in Clients : Sound(cmd[d])
  BY DEF TypeInv
<1>1. CASE Ended(c)
  <2>1. Sound(Idle)
    BY IdleOK DEF Sound
  <2> QED
    BY <1>0, <1>1, <2>1, IdleOK DEF Ended
<1>2. ASSUME NEW k \in Command, GoesOn(c, k), cmd[c].op \in Ops, k.todo \subseteq Own(cmd[c]),
             (k.step = "check" /\ cmd[c].op = "request") \/ k.step = "write",
             k.resp \in CertificateType
      PROVE  cmd' \in [Clients -> Command] /\ \A d \in Clients : Sound(cmd'[d])
  <2>1. /\ k.op = cmd[c].op /\ k.before = cmd[c].before /\ k.bundle = cmd[c].bundle
        /\ k.op # "none" /\ cmd[c].before \in [Files -> Contents]
    BY <1>0, <1>2 DEF GoesOn, Sound, Ops
  <2>2. k # Idle
    BY <2>1, IdleOK
  <2>3. Own(k) = Own(cmd[c]) /\ k.resp \in Response
    BY <1>2, <2>1 DEF Own, Response, CertificateType
  <2>4. Sound(k)
    BY <1>2, <2>1, <2>2, <2>3 DEF Sound
  <2> QED
    BY <1>0, <1>2, <2>4 DEF GoesOn
<1> QED
  BY <1>1, <1>2

\* The type of what a start leaves.
LEMMA StartTypes ==
    ASSUME TypeInv, NEW c \in Clients, NEW k \in Command, Started(c, k)
    PROVE  TypeInv'
<1>0. /\ FilesInv /\ cmd \in [Clients -> Command] /\ \A d \in Clients : Sound(cmd[d])
      /\ ca \in 1 .. MaxCAs /\ runs \in 0 .. MaxRuns
  BY DEF TypeInv
<1>1. runs' \in 0 .. MaxRuns /\ runs + 1 \in 1 .. MaxRuns
  BY <1>0, ClientAssumption DEF Started
<1>2. Sound(k)
  <2>1. k # Idle /\ k.op # "none"
    BY IdleOK DEF Started, Ops
  <2>2. k.resp \in Response
    BY <1>1 DEF Started, Response
  <2> QED
    BY <1>0, <2>1, <2>2 DEF Started, Sound, FilesInv
<1>3. ASSUME NEW d \in Clients, d # c, cmd[d].op \in Ops
      PROVE  /\ [cmd[d] EXCEPT !.alone = FALSE] \in Command
             /\ Sound([cmd[d] EXCEPT !.alone = FALSE])
  <2> DEFINE j == [cmd[d] EXCEPT !.alone = FALSE]
  <2>1. /\ j \in Command /\ j.op = cmd[d].op /\ j.step = cmd[d].step /\ j.bundle = cmd[d].bundle
        /\ j.todo = cmd[d].todo /\ j.resp = cmd[d].resp /\ j.before = cmd[d].before
    BY <1>0 DEF Command
  <2> HIDE DEF j
  <2>2. j # Idle /\ j.op # "none" /\ Own(j) = Own(cmd[d])
    BY <1>3, <2>1, IdleOK DEF Ops, Own
  <2>3. Sound(j)
    BY <1>0, <2>1, <2>2 DEF Sound
  <2> QED
    BY <2>1, <2>3 DEF j
<1>4. cmd' \in [Clients -> Command] /\ \A d \in Clients : Sound(cmd'[d])
  BY <1>0, <1>2, <1>3 DEF Started
<1>5. FilesInv'
  BY <1>0 DEF Started, FilesInv
<1>6. done' = [op \in Ops |-> done'[op]]
  BY DEF Started
<1> QED
  BY <1>0, <1>1, <1>4, <1>5, <1>6 DEF Started, TypeInv

\* Succeed remembers what a command that was alone has written.
LEMMA SuccessShape ==
    ASSUME TypeInv, NEW c \in Clients, Succeed(c)
    PROVE  /\ UNCHANGED <<files, ca, runs>> /\ Ended(c)
           /\ cmd[c].op \in Ops /\ cmd[c].step = "write" /\ cmd[c].todo = {}
           /\ done' = [op \in Ops |->
                          IF cmd[c].alone /\ op = cmd[c].op
                          THEN [resp |-> cmd[c].resp, bundle |-> cmd[c].bundle] ELSE done[op]]
<1>1. cmd[c] \in Command /\ Sound(cmd[c]) /\ done = [op \in Ops |-> done[op]]
  BY DEF TypeInv
<1>2. cmd[c].op \in Ops /\ cmd[c].step = "write" /\ cmd[c].todo = {}
  BY <1>1 DEF Succeed, Sound, Command
<1>3. CASE cmd[c].alone
  BY <1>1, <1>2, <1>3 DEF Succeed, Ended
<1>4. CASE ~cmd[c].alone
  BY <1>1, <1>2, <1>4 DEF Succeed, Ended
<1> QED
  BY <1>3, <1>4

\* Every step keeps the types.
LEMMA TypeInvStep == TypeInv /\ [Next]_vars => TypeInv'
<1> SUFFICES ASSUME TypeInv, [Next]_vars PROVE TypeInv'
  OBVIOUS
<1>0. /\ FilesInv /\ cmd \in [Clients -> Command] /\ \A d \in Clients : Sound(cmd[d])
      /\ ca \in 1 .. MaxCAs /\ runs \in 0 .. MaxRuns /\ done = [op \in Ops |-> done[op]]
  BY DEF TypeInv
<1>1. ASSUME NEW c \in Clients, RequestCert(c) \/ Renew(c) \/ TrustInstall(c) PROVE TypeInv'
  BY <1>1, StartShape, StartTypes
<1>2. ASSUME NEW c \in Clients, Answer(c) \/ CheckFile(c) \/ BeginWriting(c) PROVE TypeInv'
  <2>1. UNCHANGED <<files, ca, runs, done>>
    BY <1>2, LookShape
  <2>2. \/ Ended(c)
        \/ \E k \in Command :
              /\ GoesOn(c, k) /\ cmd[c].op \in Ops /\ k.todo \subseteq Own(cmd[c])
              /\ (k.step = "check" /\ cmd[c].op = "request") \/ k.step = "write"
              /\ k.resp \in CertificateType
    <3>1. cmd[c].op \in Ops => cmd[c].op # "none"
      BY DEF Ops
    <3> HIDE DEF Ops
    <3> QED
      BY <1>0, <1>2, <3>1, LookShape DEF Sound
  <2> QED
    BY <1>0, <2>1, <2>2, CmdTypes DEF TypeInv, FilesInv
<1>3. ASSUME NEW c \in Clients, WriteFile(c) \/ CutShort(c) PROVE TypeInv'
  <2>1. UNCHANGED <<ca, runs, done>> /\ cmd[c].op \in Ops /\ cmd[c].step = "write"
    BY <1>3, WriteShape
  <2>2. cmd[c].todo \subseteq Own(cmd[c]) /\ cmd[c].resp \in CertificateType
    BY <1>0, <2>1 DEF Sound, Ops
  <2>3. \A file \in cmd[c].todo : file \in Files
    BY <2>1, <2>2, OwnWrites
  <2>4. CASE /\ Ended(c)
             /\ \/ UNCHANGED files
                \/ \E file \in cmd[c].todo : files' = [files EXCEPT ![file] = Torn]
    <3>1. FilesInv'
      BY <1>0, <2>3, <2>4 DEF FilesInv, Contents
    <3> QED
      BY <1>0, <2>1, <2>4, <3>1, CmdTypes DEF TypeInv
  <2>5. ASSUME NEW file \in cmd[c].todo, NEW k \in Command,
               files' = [files EXCEPT ![file] = Body(file, cmd[c].resp)],
               GoesOn(c, k), k.step = "write", k.resp = cmd[c].resp,
               k.todo = cmd[c].todo \ {file}
        PROVE  TypeInv'
    <3>1. Body(file, cmd[c].resp) \in Content(file) /\ Body(file, cmd[c].resp) \in Contents
      BY <2>2, <2>3, BodyContent
    <3>2. FilesInv'
      BY <1>0, <2>3, <2>5, <3>1 DEF FilesInv
    <3>3. k.todo \subseteq Own(cmd[c])
      BY <2>2, <2>5
    <3>4. cmd' \in [Clients -> Command] /\ \A d \in Clients : Sound(cmd'[d])
      BY <2>1, <2>2, <2>5, <3>3, CmdTypes
    <3> QED
      BY <1>0, <2>1, <3>2, <3>4 DEF TypeInv
  <2> QED
    BY <1>3, <2>4, <2>5, WriteShape
<1>4. ASSUME NEW c \in Clients, Refuse(c) PROVE TypeInv'
  BY <1>0, <1>4, CmdTypes DEF Refuse, Ended, TypeInv, FilesInv
<1>5. ASSUME NEW c \in Clients, Succeed(c) PROVE TypeInv'
  <2>1. UNCHANGED <<files, ca, runs>> /\ Ended(c) /\ done' = [op \in Ops |-> done'[op]]
    BY <1>5, SuccessShape
  <2> QED
    BY <1>0, <2>1, CmdTypes DEF TypeInv, FilesInv
<1>6. CASE Rotate
  BY <1>0, <1>6, ClientAssumption DEF Rotate, TypeInv, FilesInv
<1>7. CASE UNCHANGED vars
  BY <1>0, <1>7 DEF vars, TypeInv, FilesInv
<1> QED
  BY <1>1, <1>2, <1>3, <1>4, <1>5, <1>6, <1>7 DEF Next

\* Every file holds what belongs into it, whole, empty or not yet written, and
\* a command only has its own files to write, and once it writes a certificate.
THEOREM ClientTypeCorrect == Spec => []TypeOK
<1>1. Spec => []TypeInv
  BY TypeInvInit, TypeInvStep, PTL DEF Spec
<1> QED
  BY <1>1, TypeInvImplies, PTL

-----------------------------------------------------------------------------
(* What a command that is alone can rely on                                *)

Apart ==
    /\ \A c, d \in Clients :
          c # d /\ cmd[c].alone /\ cmd[c].op \in Ops /\ cmd[d].op \in Ops =>
              ~Conflict(cmd[c].op, cmd[d].op)
    /\ \A d \in Clients, op \in Ops :
          cmd[d].op \in Ops /\ Conflict(op, cmd[d].op) => done[op] = None

Progress(k, fs) ==
    k.op \in Ops /\ k.alone /\ k.step = "write" =>
        \A file \in Own(k) \ k.todo : fs[file] = Body(file, k.resp)

Checked(k) ==
    k.op = "request" /\ k.alone /\ ~k.overwrite =>
        \A file \in Own(k) :
            k.step = "write" \/ (k.step = "check" /\ file \notin k.todo) => k.before[file] = Missing

\* ProtectsExisting of one command.
Protected(k, fs) ==
    k.op = "request" /\ k.alone =>
        \A file \in CertificateFiles :
            \/ fs[file] = k.before[file]
            \/ k.step = "write" /\ (k.overwrite \/ k.before[file] = Missing)

Work(k, fs) == Progress(k, fs) /\ Checked(k) /\ Protected(k, fs)

\* WholeAfterSuccess of one kind of command.
Whole(op, success, fs) ==
    success # None =>
        \A file \in Writes[op] \ (IF op = "request" /\ ~success.bundle
                                  THEN {"fullchain.crt"} ELSE {}) :
            fs[file] = Body(file, success.resp)

SafeInv == /\ TypeInv /\ Apart
           /\ \A c \in Clients : Work(cmd[c], files)
           /\ \A op \in Ops : Whole(op, done[op], files)

\* SafeInv holds the two properties.
LEMMA SafeInvImplies == SafeInv => WholeAfterSuccess /\ ProtectsExisting
BY DEF SafeInv, Work, Whole, Protected, WholeAfterSuccess, ProtectsExisting

\* Two commands conflict in either order.
LEMMA ConflictSymmetric == \A op, other : Conflict(op, other) <=> Conflict(other, op)
BY DEF Conflict

\* A command that is not alone, or none, has nothing to rely on.
LEMMA NoWork ==
    ASSUME NEW k, NEW fs, ~(k.op \in Ops /\ k.alone)
    PROVE  Work(k, fs)
BY DEF Work, Progress, Checked, Protected, Ops

\* Work only looks at the files that the command may write.
LEMMA WorkElsewhere ==
    ASSUME NEW k, NEW fs, NEW gs, Work(k, fs), k.op \in Ops,
           \A file \in Writes[k.op] : gs[file] = fs[file]
    PROVE  Work(k, gs)
<1>1. Own(k) \subseteq Writes[k.op] /\ Writes["request"] = CertificateFiles
  BY OwnWrites DEF Writes
<1>2. Progress(k, gs)
  BY <1>1 DEF Work, Progress
<1>3. Protected(k, gs)
  BY <1>1 DEF Work, Protected
<1> QED
  BY <1>2, <1>3 DEF Work

\* A file that a command writes belongs to no other one that is alone, and to
\* no success still remembered.
LEMMA OthersUntouched ==
    ASSUME SafeInv, NEW c \in Clients, cmd[c].op \in Ops, NEW file \in Own(cmd[c]),
           NEW v, files' = [files EXCEPT ![file] = v] \/ files' = files
    PROVE  /\ \A d \in Clients \ {c} : Work(cmd[d], files')
           /\ \A op \in Ops : Whole(op, done[op], files')
<1>1. file \in Writes[cmd[c].op] /\ files \in [Files -> Contents]
  BY OwnWrites DEF SafeInv, TypeInv, FilesInv
<1>2. ASSUME NEW op \in Ops, ~Conflict(op, cmd[c].op)
      PROVE  \A f \in Writes[op] : files'[f] = files[f]
  <2>1. file \notin Writes[op]
    BY <1>1, <1>2 DEF Conflict
  <2>2. \A f \in Writes[op] : f \in Files
    BY FileNames
  <2> QED
    BY <1>1, <2>1, <2>2
<1>3. ASSUME NEW d \in Clients \ {c} PROVE Work(cmd[d], files')
  <2>1. Work(cmd[d], files)
    BY DEF SafeInv
  <2>2. CASE cmd[d].op \in Ops /\ cmd[d].alone
    <3>1. ~Conflict(cmd[d].op, cmd[c].op)
      BY <2>2 DEF SafeInv, Apart
    <3>2. \A f \in Writes[cmd[d].op] : files'[f] = files[f]
      BY <1>2, <2>2, <3>1
    <3> QED
      BY <2>1, <2>2, <3>2, WorkElsewhere
  <2>3. CASE ~(cmd[d].op \in Ops /\ cmd[d].alone)
    BY <2>3, NoWork
  <2> QED
    BY <2>2, <2>3
<1>4. ASSUME NEW op \in Ops PROVE Whole(op, done[op], files')
  <2>1. Whole(op, done[op], files)
    BY DEF SafeInv
  <2>2. CASE done[op] = None
    BY <2>2 DEF Whole
  <2>3. CASE done[op] # None
    <3>1. ~Conflict(op, cmd[c].op)
      BY <2>3 DEF SafeInv, Apart
    <3>2. \A f \in Writes[op] : files'[f] = files[f]
      BY <1>2, <3>1
    <3> QED
      BY <2>1, <3>2 DEF Whole
  <2> QED
    BY <2>2, <2>3
<1> QED
  BY <1>3, <1>4

\* A step of a command that has started changes nobody's standing.
LEMMA ApartKept ==
    ASSUME SafeInv, NEW c \in Clients, UNCHANGED done, Ended(c) \/ \E k : GoesOn(c, k)
    PROVE  Apart'
<1>1. /\ cmd \in [Clients -> Command] /\ "none" \notin Ops
      /\ \A d \in Clients : cmd'[d].op \in Ops =>
            cmd'[d].op = cmd[d].op /\ cmd'[d].alone = cmd[d].alone
  BY IdleOK DEF SafeInv, TypeInv, Ended, GoesOn, Ops
<1> HIDE DEF Ops
<1> QED
  BY <1>1 DEF SafeInv, Apart

-----------------------------------------------------------------------------
(* The steps                                                               *)

LEMMA StartSafe ==
    ASSUME SafeInv, NEW c \in Clients, RequestCert(c) \/ Renew(c) \/ TrustInstall(c)
    PROVE  SafeInv'
<1>0. TypeInv /\ cmd \in [Clients -> Command]
  BY DEF SafeInv, TypeInv
<1>1. PICK k \in Command : Started(c, k)
  BY <1>0, StartShape
<1>2. TypeInv'
  BY <1>0, <1>1, StartTypes
<1>3. /\ cmd'[c] = k
      /\ \A d \in Clients \ {c} :
            cmd'[d] = IF cmd[d].op \in Ops /\ Conflict(k.op, cmd[d].op)
                      THEN [cmd[d] EXCEPT !.alone = FALSE] ELSE cmd[d]
  BY <1>0, <1>1 DEF Started
<1>4. \A d \in Clients \ {c} :
          /\ cmd'[d].op = cmd[d].op /\ (cmd'[d].alone => cmd'[d] = cmd[d])
          /\ cmd[d].op \in Ops /\ Conflict(k.op, cmd[d].op) => ~cmd'[d].alone
  BY <1>0, <1>3 DEF Command
<1>5. Apart'
  <2>1. ASSUME NEW a \in Clients, NEW b \in Clients, a # b, cmd'[a].alone,
               cmd'[a].op \in Ops, cmd'[b].op \in Ops
        PROVE  ~Conflict(cmd'[a].op, cmd'[b].op)
    <3>1. CASE a = c
      BY <1>1, <1>3, <1>4, <2>1, <3>1 DEF Started
    <3>2. CASE b = c
      BY <1>3, <1>4, <2>1, <3>2, ConflictSymmetric
    <3>3. CASE a # c /\ b # c
      BY <1>4, <2>1, <3>3 DEF SafeInv, Apart
    <3> QED
      BY <3>1, <3>2, <3>3
  <2>2. ASSUME NEW d \in Clients, NEW op \in Ops, cmd'[d].op \in Ops,
               Conflict(op, cmd'[d].op)
        PROVE  done'[op] = None
    <3>1. done'[op] = IF Conflict(op, k.op) THEN None ELSE done[op]
      BY <1>1 DEF Started
    <3>2. CASE d = c
      BY <1>3, <2>2, <3>1, <3>2
    <3>3. CASE d # c
      BY <1>4, <2>2, <3>1, <3>3 DEF SafeInv, Apart
    <3> QED
      BY <3>2, <3>3
  <2> QED
    BY <2>1, <2>2 DEF Apart
<1>6. ASSUME NEW d \in Clients PROVE Work(cmd'[d], files')
  <2>1. CASE d = c
    BY <1>1, <1>3, <2>1 DEF Started, Work, Progress, Checked, Protected
  <2>2. CASE d # c /\ cmd'[d] = cmd[d]
    BY <1>1, <2>2 DEF SafeInv, Started
  <2>3. CASE d # c /\ ~cmd'[d].alone
    BY <2>3, NoWork
  <2> QED
    BY <1>4, <2>1, <2>2, <2>3
<1>7. ASSUME NEW op \in Ops PROVE Whole(op, done'[op], files')
  <2>1. files' = files /\ (done'[op] = None \/ done'[op] = done[op])
    BY <1>1 DEF Started
  <2> QED
    BY <2>1 DEF SafeInv, Whole
<1> QED
  BY <1>2, <1>5, <1>6, <1>7 DEF SafeInv

\* A command of which nothing is left, or whose own work is in order.
LEMMA CommandSafe ==
    ASSUME SafeInv, TypeInv', NEW c \in Clients, UNCHANGED done,
           \/ files' = files
           \/ /\ cmd[c].op \in Ops
              /\ \E file \in Own(cmd[c]) : \E v : files' = [files EXCEPT ![file] = v],
           Ended(c) \/ \E k : GoesOn(c, k) /\ Work(k, files')
    PROVE  SafeInv'
<1>1. Apart'
  BY ApartKept
<1>2. /\ \A d \in Clients \ {c} : Work(cmd[d], files')
      /\ \A op \in Ops : Whole(op, done[op], files')
  <2>1. CASE files' = files
    BY <2>1 DEF SafeInv
  <2>2. ASSUME cmd[c].op \in Ops, NEW file \in Own(cmd[c]), NEW v,
               files' = [files EXCEPT ![file] = v]
        PROVE  /\ \A d \in Clients \ {c} : Work(cmd[d], files')
               /\ \A op \in Ops : Whole(op, done[op], files')
    BY <2>2, OthersUntouched
  <2> QED
    BY <2>1, <2>2
<1>3. /\ \A d \in Clients \ {c} : cmd'[d] = cmd[d]
      /\ Work(cmd'[c], files')
  <2>1. cmd \in [Clients -> Command]
    BY DEF SafeInv, TypeInv
  <2>2. Work(Idle, files')
    BY IdleOK, NoWork
  <2> QED
    BY <2>1, <2>2 DEF Ended, GoesOn
<1> QED
  BY <1>1, <1>2, <1>3 DEF SafeInv

LEMMA LookSafe ==
    ASSUME SafeInv, TypeInv', NEW c \in Clients, Answer(c) \/ CheckFile(c) \/ BeginWriting(c)
    PROVE  SafeInv'
<1>0. /\ TypeInv /\ Work(cmd[c], files) /\ UNCHANGED <<files, ca, runs, done>>
      /\ cmd[c].op \in Ops /\ cmd[c].step \in {"issue", "check"}
  BY LookShape DEF SafeInv
<1>1. CASE Ended(c)
  BY <1>0, <1>1, CommandSafe
<1>2. ASSUME NEW k \in Command, GoesOn(c, k),
             \/ /\ cmd[c].step = "issue" /\ k.todo = Own(cmd[c])
                /\ k.step = IF cmd[c].op = "request" THEN "check" ELSE "write"
             \/ /\ cmd[c].step = "check" /\ k.resp = cmd[c].resp
                /\ \/ /\ k.step = "check"
                      /\ \E file \in cmd[c].todo :
                            /\ k.todo = cmd[c].todo \ {file}
                            /\ cmd[c].overwrite \/ files[file] = Missing
                   \/ k.step = "write" /\ k.todo = Own(cmd[c]) /\ cmd[c].todo = {}
      PROVE  SafeInv'
  <2>1. /\ k.op = cmd[c].op /\ k.overwrite = cmd[c].overwrite /\ k.bundle = cmd[c].bundle
        /\ k.alone = cmd[c].alone /\ k.before = cmd[c].before /\ Own(k) = Own(cmd[c])
    BY <1>2 DEF GoesOn, Own
  <2>2. cmd[c].todo \subseteq Own(cmd[c])
    BY <1>0 DEF TypeInv, Sound, Ops
  <2>3. cmd[c].op = "request" /\ cmd[c].alone =>
            \A file \in CertificateFiles : files[file] = cmd[c].before[file]
    BY <1>0 DEF Work, Protected
  <2>4. Protected(k, files)
    BY <2>1, <2>3 DEF Protected
  <2>5. Progress(k, files)
    BY <1>2, <2>1 DEF Progress
  <2>6. Checked(k)
    <3> SUFFICES ASSUME k.op = "request", k.alone, ~k.overwrite, NEW file \in Own(k),
                        k.step = "write" \/ (k.step = "check" /\ file \notin k.todo)
                 PROVE  k.before[file] = Missing
      BY DEF Checked
    <3>1. file \in CertificateFiles
      BY <2>1, <1>0, OwnWrites DEF Own, Writes
    <3>2. cmd[c].step = "check"
      BY <1>2, <2>1
    <3>3. CASE file \notin cmd[c].todo
      BY <1>0, <2>1, <3>2, <3>3 DEF Work, Checked
    <3>4. CASE file \in cmd[c].todo
      BY <1>2, <2>1, <2>3, <3>1, <3>2, <3>4
    <3> QED
      BY <3>3, <3>4
  <2>7. Work(k, files')
    BY <1>0, <2>4, <2>5, <2>6 DEF Work
  <2> QED
    BY <1>0, <1>2, <2>7, CommandSafe
<1> QED
  BY <1>0, <1>1, <1>2, LookShape

LEMMA WriteSafe ==
    ASSUME SafeInv, TypeInv', NEW c \in Clients, WriteFile(c) \/ CutShort(c)
    PROVE  SafeInv'
<1>0. /\ TypeInv /\ Work(cmd[c], files) /\ UNCHANGED <<ca, runs, done>>
      /\ cmd[c].op \in Ops /\ cmd[c].step = "write"
  BY WriteShape DEF SafeInv
<1>1. files \in [Files -> Contents] /\ cmd[c].todo \subseteq Own(cmd[c])
  BY <1>0 DEF TypeInv, FilesInv, Sound, Ops
<1>2. CASE Ended(c) /\ UNCHANGED files
  BY <1>0, <1>2, CommandSafe
<1>3. CASE Ended(c) /\ \E file \in cmd[c].todo : files' = [files EXCEPT ![file] = Torn]
  BY <1>0, <1>1, <1>3, CommandSafe
<1>4. ASSUME NEW file \in cmd[c].todo, NEW k \in Command,
             files' = [files EXCEPT ![file] = Body(file, cmd[c].resp)],
             GoesOn(c, k), k.step = "write", k.resp = cmd[c].resp,
             k.todo = cmd[c].todo \ {file}
      PROVE  SafeInv'
  <2>1. /\ k.op = cmd[c].op /\ k.overwrite = cmd[c].overwrite /\ k.bundle = cmd[c].bundle
        /\ k.alone = cmd[c].alone /\ k.before = cmd[c].before /\ Own(k) = Own(cmd[c])
    BY <1>4 DEF GoesOn, Own
  <2>2. file \in Own(cmd[c]) /\ \A f \in Own(cmd[c]) \cup CertificateFiles : f \in Files
    BY <1>0, <1>1, OwnWrites, FileNames DEF Writes, Ops
  <2>3. Checked(k)
    BY <1>0, <1>4, <2>1 DEF Work, Checked
  <2>4. Progress(k, files')
    BY <1>0, <1>1, <1>4, <2>1, <2>2 DEF Work, Progress
  <2>5. Protected(k, files')
    <3> SUFFICES ASSUME k.op = "request", k.alone, NEW f \in CertificateFiles
                 PROVE  files'[f] = k.before[f] \/ k.overwrite \/ k.before[f] = Missing
      BY <1>4 DEF Protected
    <3>1. CASE f = file
      BY <1>0, <2>1, <2>2, <3>1 DEF Work, Checked
    <3>2. CASE f # file
      <4>1. files'[f] = files[f]
        BY <1>1, <1>4, <2>2, <3>2
      <4> QED
        BY <1>0, <2>1, <4>1 DEF Work, Protected
    <3> QED
      BY <3>1, <3>2
  <2>6. Work(k, files')
    BY <2>3, <2>4, <2>5 DEF Work
  <2>7. \E v : files' = [files EXCEPT ![file] = v]
    BY <1>4
  <2> QED
    BY <1>0, <1>4, <2>2, <2>6, <2>7, CommandSafe
<1> QED
  BY <1>0, <1>2, <1>3, <1>4, WriteShape

LEMMA SucceedSafe ==
    ASSUME SafeInv, TypeInv', NEW c \in Clients, Succeed(c)
    PROVE  SafeInv'
<1>0. /\ TypeInv /\ Work(cmd[c], files) /\ cmd \in [Clients -> Command]
      /\ UNCHANGED <<files, ca, runs>> /\ Ended(c)
      /\ cmd[c].op \in Ops /\ cmd[c].step = "write" /\ cmd[c].todo = {}
  BY SuccessShape DEF SafeInv, TypeInv
<1>1. done' = [op \in Ops |->
                  IF cmd[c].alone /\ op = cmd[c].op
                  THEN [resp |-> cmd[c].resp, bundle |-> cmd[c].bundle] ELSE done[op]]
  BY <1>0, SuccessShape
<1>2. /\ cmd'[c].op \notin Ops
      /\ \A d \in Clients \ {c} : cmd'[d] = cmd[d]
  BY <1>0, IdleOK DEF Ended, Ops
<1>3. Apart'
  <2>1. ASSUME NEW a \in Clients, NEW b \in Clients, a # b, cmd'[a].alone,
               cmd'[a].op \in Ops, cmd'[b].op \in Ops
        PROVE  ~Conflict(cmd'[a].op, cmd'[b].op)
    BY <1>2, <2>1 DEF SafeInv, Apart
  <2>2. ASSUME NEW d \in Clients, NEW op \in Ops, cmd'[d].op \in Ops,
               Conflict(op, cmd'[d].op)
        PROVE  done'[op] = None
    <3>1. d # c /\ cmd'[d] = cmd[d]
      BY <1>2, <2>2
    <3>2. done[op] = None
      BY <2>2, <3>1 DEF SafeInv, Apart
    <3>3. ~(cmd[c].alone /\ op = cmd[c].op)
      BY <1>0, <2>2, <3>1 DEF SafeInv, Apart
    <3> QED
      BY <1>1, <3>2, <3>3
  <2> QED
    BY <2>1, <2>2 DEF Apart
<1>4. ASSUME NEW d \in Clients PROVE Work(cmd'[d], files')
  BY <1>0, <1>2, NoWork DEF SafeInv
<1>5. ASSUME NEW op \in Ops PROVE Whole(op, done'[op], files')
  <2>1. CASE cmd[c].alone /\ op = cmd[c].op
    <3>1. done'[op].resp = cmd[c].resp /\ done'[op].bundle = cmd[c].bundle
      BY <1>1, <2>1
    <3>2. \A file \in Own(cmd[c]) : files[file] = Body(file, cmd[c].resp)
      BY <1>0, <2>1 DEF Work, Progress
    <3>3. Writes[op] \ (IF op = "request" /\ ~cmd[c].bundle
                        THEN {"fullchain.crt"} ELSE {}) \subseteq Own(cmd[c])
      BY <2>1 DEF Own, Writes
    <3> QED
      BY <1>0, <3>1, <3>2, <3>3 DEF Whole
  <2>2. CASE ~(cmd[c].alone /\ op = cmd[c].op)
    BY <1>0, <1>1, <2>2 DEF SafeInv
  <2> QED
    BY <2>1, <2>2
<1> QED
  BY <1>3, <1>4, <1>5 DEF SafeInv

LEMMA SafeInit == Init => SafeInv
<1> SUFFICES ASSUME Init PROVE SafeInv
  OBVIOUS
<1>1. TypeInv
  BY TypeInvInit
<1>2. /\ \A c \in Clients : cmd[c].op \notin Ops
      /\ \A op \in Ops : done[op] = None
  BY IdleOK DEF Init, Ops
<1>3. Apart
  BY <1>2 DEF Apart
<1>4. \A c \in Clients : Work(cmd[c], files)
  BY <1>2, NoWork
<1>5. \A op \in Ops : Whole(op, done[op], files)
  BY <1>2 DEF Whole
<1> QED
  BY <1>1, <1>3, <1>4, <1>5 DEF SafeInv

LEMMA SafeStep == SafeInv /\ [Next]_vars => SafeInv'
<1> SUFFICES ASSUME SafeInv, [Next]_vars PROVE SafeInv'
  OBVIOUS
<1>0. TypeInv'
  BY TypeInvStep DEF SafeInv
<1>1. ASSUME NEW c \in Clients, Refuse(c) PROVE SafeInv'
  BY <1>0, <1>1, CommandSafe DEF Refuse, Ended
<1>2. CASE Rotate
  BY <1>0, <1>2 DEF Rotate, SafeInv, Apart
<1>3. CASE UNCHANGED vars
  BY <1>0, <1>3 DEF vars, SafeInv, Apart
<1> QED
  BY <1>0, <1>1, <1>2, <1>3, StartSafe, LookSafe, WriteSafe, SucceedSafe DEF Next

\* Throughout every behaviour, after a success that no conflicting command
\* overlapped or followed, the files it wrote come from its one answer, for any
\* number of shells, interruptions and authorities.
THEOREM WholeFilesAfterSuccess == Spec => []WholeAfterSuccess
<1>1. Spec => []SafeInv
  BY SafeInit, SafeStep, PTL DEF Spec
<1> QED
  BY <1>1, SafeInvImplies, PTL

\* Throughout every behaviour, request-cert without --overwrite leaves the files
\* alone that were there when it started, unless a conflicting command overlaps.
THEOREM ExistingFilesProtected == Spec => []ProtectsExisting
<1>1. Spec => []SafeInv
  BY SafeInit, SafeStep, PTL DEF Spec
<1> QED
  BY <1>1, SafeInvImplies, PTL

=============================================================================
