---------------------------- MODULE LocalPkiProofs ----------------------------
(***************************************************************************)
(* Theorems about LocalPki, for any number of commands, interruptions and  *)
(* starts of the server, any lifetimes and options.  TypeInv says what     *)
(* each file may hold; WithinInv that every intermediate certificate       *)
(* around is within a root certificate that was made; ProgressInv how far  *)
(* the running command has come, what it has taken back before it writes   *)
(* and what the last ones delivered; LoadInv how far a server has read     *)
(* that nothing disturbs.                                                  *)
(***************************************************************************)
EXTENDS LocalPki, TLAPS

USE DEF world, ceremony

-----------------------------------------------------------------------------
(* Sequences of files                                                      *)

Holds(s, x) == \E i \in DOMAIN s : s[i] = x

\* What is to be written after the next file.
LEMMA HeadOrTail ==
    ASSUME NEW S, NEW s \in Seq(S), s # <<>>
    PROVE  /\ Head(s) \in S /\ Tail(s) \in Seq(S)
           /\ \A x : Holds(s, x) => x = Head(s) \/ Holds(Tail(s), x)
<1>1. Head(s) \in S /\ Tail(s) \in Seq(S)
  OBVIOUS
<1>2. ASSUME NEW x, Holds(s, x), x # Head(s) PROVE Holds(Tail(s), x)
  <2>1. PICK i \in 1 .. Len(s) : s[i] = x
    BY <1>2 DEF Holds
  <2>2. i # 1 /\ i - 1 \in 1 .. Len(s) - 1 /\ Len(s) \in Nat
    BY <1>2, <2>1
  <2>3. DOMAIN Tail(s) = 1 .. Len(s) - 1 /\ Tail(s)[i - 1] = s[i]
    BY <2>2
  <2> QED
    BY <2>1, <2>2, <2>3 DEF Holds
<1> QED
  BY <1>1, <1>2

\* A concatenation holds what its parts hold.
LEMMA HoldsConcat ==
    ASSUME NEW S, NEW s \in Seq(S), NEW t \in Seq(S), NEW x, Holds(s, x) \/ Holds(t, x)
    PROVE  Holds(s \o t, x)
<1>1. CASE Holds(s, x)
  <2>1. PICK i \in 1 .. Len(s) : s[i] = x
    BY <1>1 DEF Holds
  <2>2. i \in DOMAIN (s \o t) /\ (s \o t)[i] = s[i]
    BY <2>1
  <2> QED
    BY <2>1, <2>2 DEF Holds
<1>2. CASE Holds(t, x)
  <2>1. PICK i \in 1 .. Len(t) : t[i] = x
    BY <1>2 DEF Holds
  <2>2. Len(s) + i \in DOMAIN (s \o t) /\ (s \o t)[Len(s) + i] = t[i]
    BY <2>1
  <2> QED
    BY <2>1, <2>2 DEF Holds
<1> QED
  BY <1>1, <1>2

-----------------------------------------------------------------------------
(* Types                                                                   *)

AllFiles == RootFiles \cup IntermediateFiles

\* What a complete file holds.  Password files are only ever generated.
Content(file) ==
    IF file \in {"root-ca.password", "intermediate-ca.password"} THEN 0 .. MaxRuns
    ELSE IF file \in {"root-ca.key", "intermediate-ca.key"} THEN KeyType
    ELSE IF file \in {"root-ca.pub", "intermediate-ca.csr"} THEN Keys
    ELSE IF file = "ca-chain.crt" THEN CertificateType \X CertificateType
    ELSE CertificateType

FilesInv == /\ files = [file \in AllFiles |-> files[file]]
            /\ \A file \in AllFiles : files[file] \in Content(file) \cup {Missing, Torn}

Command == [op : {"none", "root", "intermediate"},
            step : {"idle", "root_password", "password", "create", "write"},
            source : {"given", "file", "generated", "plain"}, root_source : {"given", "file"},
            lifetime : Nat, exports : SUBSET RootCopies,
            root_pass : Passwords, pass : Passwords,
            cert : CertificateType \cup {None}, parent : CertificateType \cup {None},
            todo : Seq(AllFiles)]

\* The files a command writes besides the password's.
OwnFiles(op) == IF op = "root" THEN RootFiles \ {"root-ca.password"}
                ELSE IntermediateFiles \ {"intermediate-ca.password"}

CmdInv ==
    /\ cmd \in Command
    /\ cmd.op = "none" <=> cmd = Idle
    /\ cmd.op = "none" <=> cmd.step = "idle"
    /\ cmd.op # "none" => runs \in 1 .. MaxRuns
    /\ cmd.step = "root_password" => cmd.op = "intermediate"
    /\ cmd.op = "intermediate" => cmd.source # "plain" /\ cmd.pass # Plain
    /\ cmd.step = "write" => /\ cmd.cert \in CertificateType
                             /\ cmd.op = "intermediate" => cmd.parent \in CertificateType
                             /\ cmd.todo \in Seq(OwnFiles(cmd.op))

TypeInv == FilesInv /\ CmdInv /\ runs \in 0 .. MaxRuns /\ clock \in Nat

\* TypeInv is TypeOK and more.
LEMMA TypeInvImplies == TypeInv => TypeOK
BY DEF TypeInv, TypeOK, FilesInv, CmdInv, Content, AllFiles, RootFiles, IntermediateFiles,
   RootCopies, Passwords, Command

\* No command is running.
LEMMA IdleOK == Idle \in Command
<1>1. 0 \in Passwords /\ <<>> \in Seq(AllFiles)
  BY CeremonyAssumption DEF Passwords
<1> QED
  BY <1>1 DEF Idle, Command, Refused

\* The empty directory.
LEMMA TypeInvInit == Init => TypeInv
BY IdleOK, CeremonyAssumption, ContentsAssumption
   DEF Init, TypeInv, FilesInv, CmdInv, AllFiles, Idle

\* What a command writes into one of its files is of the file's kind.
LEMMA NewContentOK ==
    ASSUME TypeInv, cmd.step = "write", NEW file \in OwnFiles(cmd.op)
    PROVE  NewContent(file) \in Content(file) /\ file \in AllFiles
<1>1. /\ cmd.cert \in CertificateType /\ cmd.pass \in Passwords
      /\ cmd.op = "intermediate" => cmd.parent \in CertificateType
      /\ cmd.op \in {"root", "intermediate"}
  BY DEF TypeInv, CmdInv, Command
<1>2. cmd.cert.key \in Keys
  BY <1>1 DEF CertificateType
<1>3. CASE file \in {"root-ca.key", "intermediate-ca.key"}
  BY <1>1, <1>2, <1>3 DEF NewContent, Content, KeyType, AllFiles, RootFiles, IntermediateFiles
<1>4. CASE file \in {"root-ca.pub", "intermediate-ca.csr"}
  BY <1>1, <1>2, <1>4 DEF NewContent, Content, AllFiles, RootFiles, IntermediateFiles
<1>5. CASE file = "ca-chain.crt"
  BY <1>1, <1>5 DEF NewContent, Content, AllFiles, RootFiles, IntermediateFiles, OwnFiles,
     RootCopies
<1>6. CASE file \notin {"root-ca.key", "intermediate-ca.key", "root-ca.pub",
                        "intermediate-ca.csr", "ca-chain.crt"}
  BY <1>1, <1>6 DEF NewContent, Content, AllFiles, OwnFiles, RootFiles, IntermediateFiles,
     RootCopies
<1> QED
  BY <1>3, <1>4, <1>5, <1>6

\* What CreateRoot is going to write.
RootTodo == <<"root-ca.key", "root-ca.crt", "root-ca.pub">>
            \o Exported("root-ca.pem") \o Exported("root-ca.der")
            \o <<"metadata.json", "fingerprints.txt">>
            \o Exported("trust-bundle/root-ca.crt")

\* It contains the fixed files and the exports.
LEMMA RootTodoHolds ==
    ASSUME cmd.exports \subseteq RootCopies
    PROVE  /\ RootTodo \in Seq(OwnFiles("root"))
           /\ \A file \in {"root-ca.key", "root-ca.crt", "root-ca.pub", "metadata.json",
                           "fingerprints.txt"} \cup cmd.exports : Holds(RootTodo, file)
<1> DEFINE S == OwnFiles("root")
           a == <<"root-ca.key", "root-ca.crt", "root-ca.pub">>
           b == Exported("root-ca.pem")
           c == Exported("root-ca.der")
           d == <<"metadata.json", "fingerprints.txt">>
           e == Exported("trust-bundle/root-ca.crt")
<1>1. a \in Seq(S) /\ d \in Seq(S)
  BY DEF OwnFiles, RootFiles
<1>2. b \in Seq(S) /\ c \in Seq(S) /\ e \in Seq(S)
  <2>1. <<>> \in Seq(S) /\ <<"root-ca.pem">> \in Seq(S) /\ <<"root-ca.der">> \in Seq(S)
          /\ <<"trust-bundle/root-ca.crt">> \in Seq(S)
    BY DEF OwnFiles, RootFiles, RootCopies
  <2> QED
    BY <2>1 DEF Exported
<1>3. /\ Holds(a, "root-ca.key") /\ Holds(a, "root-ca.crt") /\ Holds(a, "root-ca.pub")
      /\ Holds(d, "metadata.json") /\ Holds(d, "fingerprints.txt")
  <2>1. /\ a[1] = "root-ca.key" /\ a[2] = "root-ca.crt" /\ a[3] = "root-ca.pub"
        /\ d[1] = "metadata.json" /\ d[2] = "fingerprints.txt"
        /\ 1 \in DOMAIN a /\ 2 \in DOMAIN a /\ 3 \in DOMAIN a
        /\ 1 \in DOMAIN d /\ 2 \in DOMAIN d
    OBVIOUS
  <2> QED
    BY <2>1 DEF Holds
<1>4. ASSUME NEW file \in cmd.exports PROVE Holds(Exported(file), file)
  BY <1>4 DEF Exported, Holds
<1>5. RootTodo = a \o b \o c \o d \o e
  BY DEF RootTodo
<1> HIDE DEF a, b, c, d, e, S
<1>6. a \o b \in Seq(S) /\ a \o b \o c \in Seq(S) /\ a \o b \o c \o d \in Seq(S)
        /\ a \o b \o c \o d \o e \in Seq(S)
  BY <1>1, <1>2
<1>7. ASSUME NEW x, Holds(a, x) \/ Holds(b, x) \/ Holds(c, x) \/ Holds(d, x) \/ Holds(e, x)
      PROVE  Holds(RootTodo, x)
  <2>1. Holds(a, x) \/ Holds(b, x) => Holds(a \o b, x)
    BY <1>1, <1>2, HoldsConcat
  <2>2. Holds(a \o b, x) \/ Holds(c, x) => Holds(a \o b \o c, x)
    BY <1>2, <1>6, HoldsConcat
  <2>3. Holds(a \o b \o c, x) \/ Holds(d, x) => Holds(a \o b \o c \o d, x)
    BY <1>1, <1>6, HoldsConcat
  <2>4. Holds(a \o b \o c \o d, x) \/ Holds(e, x) => Holds(a \o b \o c \o d \o e, x)
    BY <1>2, <1>6, HoldsConcat
  <2> QED
    BY <1>5, <1>7, <2>1, <2>2, <2>3, <2>4
<1>8. ASSUME NEW file \in cmd.exports PROVE Holds(RootTodo, file)
  BY <1>4, <1>7, <1>8 DEF b, c, e, RootCopies
<1> QED
  BY <1>3, <1>5, <1>6, <1>7, <1>8 DEF S

\* A command that gives up.
LEMMA FailKeepsCmd ==
    ASSUME CmdInv, cmd' = Idle, UNCHANGED runs
    PROVE  CmdInv'
BY IdleOK, ContentsAssumption DEF CmdInv, Idle

\* The password a new key gets.
LEMMA ResolvePasswordType ==
    ASSUME TypeInv, ResolvePassword
    PROVE  FilesInv' /\ CmdInv'
<1>0. FilesInv /\ CmdInv /\ cmd \in Command /\ runs \in 0 .. MaxRuns
  BY DEF TypeInv, CmdInv
<1> DEFINE file == PasswordFile(cmd.op)
           pass == CASE cmd.source = "plain" -> Plain
                     [] cmd.source = "given" -> 0
                     [] cmd.source = "file" -> files[file]
                     [] cmd.source = "generated" -> runs
<1>1. /\ file \in {"root-ca.password", "intermediate-ca.password"} /\ file \in AllFiles
      /\ files[file] \in (0 .. MaxRuns) \cup {Missing, Torn}
  BY <1>0 DEF PasswordFile, FilesInv, AllFiles, RootFiles, IntermediateFiles, Content
<1>2. FilesInv'
  <2>1. CASE UNCHANGED files
    BY <1>0, <2>1 DEF FilesInv
  <2>2. CASE files' = [files EXCEPT ![file] = runs]
    BY <1>0, <1>1, <2>2 DEF FilesInv, Content
  <2> QED
    BY <2>1, <2>2 DEF ResolvePassword, Generate
<1>3. CASE cmd' = Idle
  BY <1>0, <1>2, <1>3, FailKeepsCmd DEF ResolvePassword
<1>4. CASE cmd' = [cmd EXCEPT !.step = "create", !.pass = pass]
           /\ (cmd.source = "file" => Readable(file))
  <2>1. pass \in Passwords /\ (cmd.source # "plain" => pass # Plain)
    <3>1. 0 \in 0 .. MaxRuns
      BY CeremonyAssumption
    <3>2. CASE cmd.source = "plain"
      BY <3>2 DEF Passwords
    <3>3. CASE cmd.source = "given"
      BY <3>1, <3>3, ContentsAssumption DEF Passwords
    <3>4. CASE cmd.source = "file"
      BY <1>1, <1>4, <3>4, ContentsAssumption DEF Passwords, Readable, Complete
    <3>5. CASE cmd.source = "generated"
      BY <1>0, <3>5, ContentsAssumption DEF Passwords
    <3> QED
      BY <1>0, <3>2, <3>3, <3>4, <3>5 DEF Command
  <2> HIDE DEF pass
  <2>2. cmd' \in Command
    BY <1>0, <1>4, <2>1 DEF Command
  <2>3. /\ cmd'.op = cmd.op /\ cmd'.step = "create" /\ cmd'.source = cmd.source
        /\ cmd'.pass = pass
    BY <1>0, <1>4 DEF Command
  <2>4. cmd.op # "none" /\ runs' = runs
    BY <1>0 DEF ResolvePassword, CmdInv
  <2> QED
    BY <1>0, <1>2, <2>1, <2>2, <2>3, <2>4 DEF CmdInv, Idle
<1> QED
  BY <1>2, <1>3, <1>4 DEF ResolvePassword, Fail

\* A command as its first step finds it, its options apart.
Started(c) ==
    /\ c.pass = 0 /\ c.cert = None
    /\ \/ c.op = "root" /\ c.step = "password"
       \/ c.op = "intermediate" /\ c.step = "root_password"

\* Both commands start so.
LEMMA StartsRun ==
    ASSUME CreateRootCommand \/ CreateIntermediateCommand
    PROVE  \E c \in Command : Started(c) /\ Run(c)
<1>1. CASE CreateRootCommand
  <2>1. PICK exports \in ExportSets :
            Run([Idle EXCEPT !.op = "root", !.step = "password", !.exports = exports])
    BY <1>1 DEF CreateRootCommand
  <2> DEFINE c == [Idle EXCEPT !.op = "root", !.step = "password", !.exports = exports]
  <2>2. c \in Command /\ Started(c)
    BY IdleOK, CeremonyAssumption DEF Command, Started, Idle
  <2> QED
    BY <2>1, <2>2
<1>2. CASE CreateIntermediateCommand
  <2>1. PICK root_source \in RootSources :
            Run([Idle EXCEPT !.op = "intermediate", !.step = "root_password",
                             !.root_source = root_source])
    BY <1>2 DEF CreateIntermediateCommand
  <2> DEFINE c == [Idle EXCEPT !.op = "intermediate", !.step = "root_password",
                               !.root_source = root_source]
  <2>2. c \in Command /\ Started(c)
    BY IdleOK, CeremonyAssumption DEF Command, Started, Idle
  <2> QED
    BY <2>1, <2>2
<1> QED
  BY <1>1, <1>2

\* A new command, and one that has signed.
LEMMA CmdInvStep ==
    ASSUME TypeInv, [Next]_vars
    PROVE  CmdInv' /\ runs' \in 0 .. MaxRuns /\ clock' \in Nat
<1>0. /\ FilesInv /\ CmdInv /\ cmd \in Command /\ runs \in 0 .. MaxRuns /\ clock \in Nat
      /\ cmd.step # "idle" => cmd.op # "none" /\ runs \in 1 .. MaxRuns
  BY DEF TypeInv, CmdInv
<1>1. CASE UNCHANGED <<cmd, runs>> /\ clock' \in Nat
  BY <1>0, <1>1 DEF CmdInv
<1>2. CASE cmd' = Idle /\ UNCHANGED <<runs, clock>>
  BY <1>0, <1>2, FailKeepsCmd
<1>3. ASSUME NEW c \in Command, Started(c), Run(c)
      PROVE  CmdInv' /\ runs' \in 0 .. MaxRuns /\ clock' \in Nat
  <2>1. PICK source \in IF c.op = "root" THEN Sources ELSE Sources \ {"plain"},
             lifetime \in Lifetimes \cup {Refused} :
                cmd' = [c EXCEPT !.source = source, !.lifetime = lifetime]
    BY <1>3 DEF Run
  <2>2. /\ source \in {"given", "file", "generated", "plain"} /\ lifetime \in Nat
        /\ c.op = "intermediate" => source # "plain"
    <3>1. Sources \subseteq {"given", "file", "generated", "plain"}
      BY CeremonyAssumption
    <3>2. Lifetimes \cup {Refused} \subseteq Nat
      BY CeremonyAssumption DEF Refused
    <3> QED
      BY <2>1, <3>1, <3>2
  <2>3. /\ cmd' \in Command /\ cmd'.op = c.op /\ cmd'.step = c.step /\ cmd'.pass = 0
        /\ cmd'.source = source
    BY <1>3, <2>1, <2>2 DEF Command, Started
  <2>4. runs < MaxRuns /\ runs' = runs + 1 /\ clock' = clock /\ MaxRuns \in Nat
    BY <1>3, CeremonyAssumption DEF Run
  <2>5. runs' \in 1 .. MaxRuns /\ runs' \in 0 .. MaxRuns /\ clock' \in Nat
    BY <1>0, <2>4
  <2>6. cmd'.op # "none" /\ cmd'.step \notin {"idle", "write"}
        /\ (cmd'.step = "root_password" => cmd'.op = "intermediate")
    BY <1>3, <2>3 DEF Started
  <2>7. cmd' # Idle
    BY <2>6 DEF Idle
  <2>8. cmd'.pass # Plain
    BY <2>3, ContentsAssumption
  <2> QED
    BY <2>2, <2>3, <2>5, <2>6, <2>7, <2>8 DEF CmdInv
<1>4. CASE ResolveExistingPassword
  <2>1. /\ files["root-ca.password"] \in (0 .. MaxRuns) \cup {Missing, Torn}
        /\ 0 \in 0 .. MaxRuns
    <3>1. "root-ca.password" \in AllFiles
      BY DEF AllFiles, RootFiles
    <3>2. files["root-ca.password"] \in Content("root-ca.password") \cup {Missing, Torn}
      BY <1>0, <3>1 DEF FilesInv
    <3> QED
      BY <3>2, CeremonyAssumption DEF Content
  <2>2. CASE Fail
    BY <1>2, <1>4, <2>2 DEF Fail, ResolveExistingPassword
  <2>3. CASE ~Fail
    <3>1. PICK pass \in Passwords :
            cmd' = [cmd EXCEPT !.step = "password", !.root_pass = pass]
      BY <1>4, <2>1, <2>3 DEF ResolveExistingPassword, Readable, Complete, Passwords
    <3>2. /\ cmd' \in Command /\ cmd'.op = cmd.op /\ cmd'.step = "password"
          /\ cmd'.source = cmd.source /\ cmd'.pass = cmd.pass
      BY <1>0, <3>1 DEF Command
    <3> QED
      BY <1>0, <1>4, <3>2 DEF ResolveExistingPassword, CmdInv, Idle
  <2> QED
    BY <2>2, <2>3
<1>5. CASE ResolvePassword
  BY <1>0, <1>5, ResolvePasswordType DEF ResolvePassword
<1>6. CASE CreateRoot
  <2>1. CASE Fail
    BY <1>2, <1>6, <2>1 DEF Fail, CreateRoot
  <2>2. CASE ~Fail
    <3> DEFINE new == Cert(runs, runs, clock + cmd.lifetime)
    <3>1. new \in CertificateType
      BY <1>0, <1>6 DEF CreateRoot, Cert, CertificateType, Keys, Command
    <3>2. RootTodo \in Seq(OwnFiles("root")) /\ RootTodo \in Seq(AllFiles)
      <4>1. RootTodo \in Seq(OwnFiles("root"))
        BY <1>0, RootTodoHolds DEF Command
      <4> QED
        BY <4>1 DEF OwnFiles, AllFiles
    <3>3. cmd' = [cmd EXCEPT !.step = "write", !.cert = new, !.todo = RootTodo]
      BY <1>6, <2>2 DEF CreateRoot, RootTodo
    <3> HIDE DEF new
    <3>4. /\ cmd' \in Command /\ cmd'.op = "root" /\ cmd'.step = "write"
          /\ cmd'.cert = new /\ cmd'.todo = RootTodo
      BY <1>0, <1>6, <3>1, <3>2, <3>3 DEF CreateRoot, Command
    <3> QED
      BY <1>0, <1>6, <3>1, <3>2, <3>4 DEF CreateRoot, CmdInv, Idle
  <2> QED
    BY <2>1, <2>2
<1>7. CASE CreateIntermediate
  <2>1. CASE Fail
    BY <1>2, <1>7, <2>1 DEF Fail, CreateIntermediate
  <2>2. CASE ~Fail
    <3> DEFINE root == files["root-ca.crt"]
               key == files["root-ca.key"]
               new == Cert(runs, key.key, clock + cmd.lifetime)
               todo == <<"intermediate-ca.key", "intermediate-ca.csr",
                         "intermediate-ca.crt", "ca-chain.crt">>
    <3>1. root \in CertificateType /\ key \in KeyType
      BY <1>0, <1>7, <2>2 DEF CreateIntermediate, Opens, Complete, FilesInv, AllFiles,
         RootFiles, Content, RootCopies
    <3>2. new \in CertificateType
      BY <1>0, <1>7, <3>1 DEF CreateIntermediate, Cert, CertificateType, KeyType, Keys, Command
    <3>3. todo \in Seq(OwnFiles("intermediate")) /\ todo \in Seq(AllFiles)
      BY DEF OwnFiles, AllFiles, IntermediateFiles
    <3>4. cmd' = [cmd EXCEPT !.step = "write", !.parent = root, !.cert = new, !.todo = todo]
      BY <1>7, <2>2 DEF CreateIntermediate
    <3> HIDE DEF new, root, todo
    <3>5. /\ cmd' \in Command /\ cmd'.op = "intermediate" /\ cmd'.step = "write"
          /\ cmd'.cert = new /\ cmd'.parent = root /\ cmd'.todo = todo
          /\ cmd'.source = cmd.source /\ cmd'.pass = cmd.pass
      BY <1>0, <1>7, <3>1, <3>2, <3>3, <3>4 DEF CreateIntermediate, Command
    <3> QED
      BY <1>0, <1>7, <3>1, <3>2, <3>3, <3>5 DEF CreateIntermediate, CmdInv, Idle
  <2> QED
    BY <2>1, <2>2
<1>8. CASE WriteFile
  <2>1. cmd.todo \in Seq(OwnFiles(cmd.op)) /\ cmd.todo # <<>>
    BY <1>0, <1>8 DEF WriteFile, CmdInv
  <2>2. Tail(cmd.todo) \in Seq(OwnFiles(cmd.op)) /\ Tail(cmd.todo) \in Seq(AllFiles)
    BY <1>0, <2>1, HeadOrTail DEF Command
  <2>3. cmd' = [cmd EXCEPT !.todo = Tail(cmd.todo)]
    BY <1>8 DEF WriteFile
  <2>4. /\ cmd' \in Command /\ cmd'.op = cmd.op /\ cmd'.step = cmd.step
        /\ cmd'.source = cmd.source /\ cmd'.pass = cmd.pass
        /\ cmd'.cert = cmd.cert /\ cmd'.parent = cmd.parent
        /\ cmd'.todo = Tail(cmd.todo)
    BY <1>0, <2>2, <2>3 DEF Command
  <2> QED
    BY <1>0, <1>8, <2>2, <2>4 DEF WriteFile, CmdInv, Idle
<1>9. CreateRootCommand \/ CreateIntermediateCommand
        => \E c \in Command : Started(c) /\ Run(c)
  BY StartsRun
<1>10. Succeed \/ CutShort => cmd' = Idle /\ UNCHANGED <<runs, clock>>
  BY DEF Succeed, CutShort
<1>11. StartServer \/ LoadCert \/ LoadKey \/ Parse \/ LoadChain \/ LoadRoot \/ Tick
          \/ UNCHANGED vars => UNCHANGED <<cmd, runs>> /\ clock' \in Nat
  <2>1. StartServer \/ Parse => UNCHANGED <<cmd, runs, clock>>
    BY DEF StartServer, Parse
  <2>2. LoadCert \/ LoadKey \/ LoadChain \/ LoadRoot => UNCHANGED <<cmd, runs, clock>>
    BY DEF LoadCert, LoadKey, LoadChain, LoadRoot, Load
  <2>3. Tick => UNCHANGED <<cmd, runs>> /\ clock' = clock + 1
    BY DEF Tick
  <2>4. UNCHANGED vars => UNCHANGED <<cmd, runs, clock>>
    BY DEF vars
  <2>5. UNCHANGED <<cmd, runs, clock>> => UNCHANGED <<cmd, runs>> /\ clock' \in Nat
    BY <1>0
  <2>6. clock' = clock + 1 => clock' \in Nat
    BY <1>0
  <2> QED
    BY <2>1, <2>2, <2>3, <2>4, <2>5, <2>6
<1> QED
  BY <1>1, <1>2, <1>3, <1>4, <1>5, <1>6, <1>7, <1>8, <1>9, <1>10, <1>11 DEF Next

\* A file is only ever written as a whole, or left empty.
LEMMA FilesInvStep ==
    ASSUME TypeInv, [Next]_vars
    PROVE  FilesInv'
<1>0. FilesInv /\ CmdInv /\ cmd \in Command
  BY DEF TypeInv, CmdInv
<1>1. CASE UNCHANGED files
  BY <1>0, <1>1 DEF FilesInv
<1>2. CASE ResolvePassword
  BY <1>2, ResolvePasswordType
<1>3. CASE WriteFile
  <2> DEFINE file == Head(cmd.todo)
  <2>1. cmd.step = "write" /\ cmd.todo # <<>> /\ cmd.todo \in Seq(OwnFiles(cmd.op))
    BY <1>0, <1>3 DEF WriteFile, CmdInv
  <2>2. file \in OwnFiles(cmd.op)
    BY <2>1, HeadOrTail
  <2>3. files' = [files EXCEPT ![file] = NewContent(file)]
    BY <1>3 DEF WriteFile
  <2> HIDE DEF file
  <2>4. NewContent(file) \in Content(file) /\ file \in AllFiles
    BY <2>1, <2>2, NewContentOK
  <2> QED
    BY <1>0, <2>3, <2>4 DEF FilesInv
<1>4. CASE CutShort
  <2>1. PICK torn :
          files' = [file \in DOMAIN files |-> IF file \in torn THEN Torn ELSE files[file]]
    BY <1>4 DEF CutShort
  <2> QED
    BY <1>0, <2>1 DEF FilesInv
<1>5. CreateRootCommand \/ CreateIntermediateCommand => UNCHANGED files
  BY DEF CreateRootCommand, CreateIntermediateCommand, Run
<1>6. ResolveExistingPassword \/ CreateRoot \/ CreateIntermediate \/ Succeed => UNCHANGED files
  BY DEF ResolveExistingPassword, CreateRoot, CreateIntermediate, Succeed
<1>7. StartServer \/ LoadCert \/ LoadKey \/ Parse \/ LoadChain \/ LoadRoot \/ Tick
        \/ UNCHANGED vars => UNCHANGED files
  BY DEF StartServer, LoadCert, LoadKey, LoadChain, LoadRoot, Load, Parse, Tick, vars
<1> QED
  BY <1>1, <1>2, <1>3, <1>4, <1>5, <1>6, <1>7 DEF Next

\* TypeInv is inductive.
LEMMA TypeInvStep == TypeInv /\ [Next]_vars => TypeInv'
BY CmdInvStep, FilesInvStep DEF TypeInv

\* Every file of the ceremony, whatever was cut short, holds nothing, an empty
\* remainder or a whole value of its own kind (writePrivateKey, writePEM,
\* os.WriteFile in localpki.go): LocalPki's TypeOK, for any bounds.
THEOREM CeremonyTypeCorrect == Spec => []TypeOK
<1>1. Init => TypeInv
  BY TypeInvInit
<1>2. TypeInv /\ [Next]_vars => TypeInv'
  BY TypeInvStep
<1>3. TypeInv => TypeOK
  BY TypeInvImplies
<1> QED
  BY <1>1, <1>2, <1>3, PTL DEF Spec

-----------------------------------------------------------------------------
(* What a server has in memory                                             *)

Gone == {Missing, Torn, None}

Server == [step : {"down", "disabled", "cert", "key", "parse", "chain", "root", "ready"},
           pass : 0 .. MaxRuns,
           cert : CertificateType \cup Gone, key : KeyType \cup Gone,
           chain : (CertificateType \X CertificateType) \cup Gone,
           root : CertificateType \cup Gone, undisturbed : BOOLEAN]

\* It holds what was in the files when it read them.
LEMMA ServerStep ==
    ASSUME TypeInv, server \in Server, [Next]_vars
    PROVE  server' \in Server
<1>0. /\ FilesInv /\ runs \in 0 .. MaxRuns
  BY DEF TypeInv
<1>1. Down \in Server
  BY CeremonyAssumption DEF Down, Server, Gone
<1>2. CASE CreateRootCommand \/ CreateIntermediateCommand
  <2>1. server' = [server EXCEPT !.undisturbed = server.undisturbed /\ ~Loading]
    BY <1>2 DEF CreateRootCommand, CreateIntermediateCommand, Run
  <2> QED
    BY <2>1 DEF Server
<1>3. CASE StartServer
  <2>1. PICK pass \in 0 .. runs, undisturbed \in BOOLEAN :
          server' = [Down EXCEPT !.step = "cert", !.pass = pass, !.undisturbed = undisturbed]
    BY <1>3 DEF StartServer
  <2>2. pass \in 0 .. MaxRuns
    BY <1>0, <2>1, CeremonyAssumption
  <2> QED
    BY <1>1, <2>1, <2>2 DEF Server
<1>4. CASE Parse
  <2>1. \/ server' = [server EXCEPT !.step = "chain", !.pass = 0]
        \/ server' = [Down EXCEPT !.step = "disabled", !.undisturbed = server.undisturbed]
    BY <1>4 DEF Parse
  <2>2. 0 \in 0 .. MaxRuns
    BY CeremonyAssumption
  <2> QED
    BY <1>1, <2>1, <2>2 DEF Server
<1>5. /\ files["intermediate-ca.crt"] \in CertificateType \cup Gone
      /\ files["intermediate-ca.key"] \in KeyType \cup Gone
      /\ files["ca-chain.crt"] \in (CertificateType \X CertificateType) \cup Gone
      /\ files["root-ca.crt"] \in CertificateType \cup Gone
  <2>1. {"intermediate-ca.crt", "intermediate-ca.key", "ca-chain.crt", "root-ca.crt"}
           \subseteq AllFiles
    BY DEF AllFiles, IntermediateFiles, RootFiles
  <2> QED
    BY <1>0, <2>1 DEF FilesInv, Content, Gone
<1>6. CASE LoadCert
  BY <1>5, <1>6 DEF LoadCert, Load, Server
<1>7. CASE LoadKey
  BY <1>5, <1>7 DEF LoadKey, Load, Server
<1>8. CASE LoadChain
  BY <1>5, <1>8 DEF LoadChain, Load, Server
<1>9. CASE LoadRoot
  BY <1>5, <1>9 DEF LoadRoot, Load, Server
<1>10. CASE UNCHANGED server
  BY <1>10
<1>11. ResolveExistingPassword \/ ResolvePassword \/ CreateRoot \/ CreateIntermediate
         \/ WriteFile \/ Succeed \/ CutShort \/ Tick \/ UNCHANGED vars => UNCHANGED server
  BY DEF ResolveExistingPassword, ResolvePassword, CreateRoot, CreateIntermediate, WriteFile,
     Succeed, CutShort, Tick, vars
<1> QED
  BY <1>2, <1>3, <1>4, <1>6, <1>7, <1>8, <1>9, <1>10, <1>11 DEF Next

-----------------------------------------------------------------------------
(* No intermediate outlives the root that signed it                        *)

\* WithinRoot of one certificate; a root certificate is its own.
Bounded(cert) == \E root \in root_certs : cert.signer = root.key /\ cert.until <= root.until

WithinInv ==
    /\ server \in Server
    /\ root_certs \subseteq CertificateType
    /\ files["root-ca.crt"] \in root_certs \cup {Missing, Torn}
    /\ cmd.op = "root" /\ cmd.cert # None => cmd.cert \in root_certs
    /\ \A cert \in {files["intermediate-ca.crt"], cmd.cert, server.cert} \ Gone : Bounded(cert)

\* The empty directory, and no server.
LEMMA WithinInvInit == Init => WithinInv
<1> SUFFICES ASSUME Init PROVE WithinInv
  OBVIOUS
<1>1. files["root-ca.crt"] = Missing /\ files["intermediate-ca.crt"] = Missing
  BY DEF Init, RootFiles, IntermediateFiles
<1>2. cmd.cert = None /\ server.cert = None
  BY DEF Init, Idle, Down
<1>3. server \in Server
  BY CeremonyAssumption DEF Init, Down, Server, Gone
<1> QED
  BY <1>1, <1>2, <1>3 DEF Init, WithinInv, Gone

\* A step that makes no certificate and writes none.
LEMMA WithinInvKept ==
    ASSUME WithinInv, server' \in Server, UNCHANGED root_certs,
           files'["root-ca.crt"] \in {files["root-ca.crt"], Torn},
           files'["intermediate-ca.crt"] \in {files["intermediate-ca.crt"], Torn},
           cmd'.cert = None \/ (cmd'.cert = cmd.cert /\ cmd'.op = cmd.op),
           server'.cert \in {server.cert, files["intermediate-ca.crt"], None}
    PROVE  WithinInv'
BY DEF WithinInv, Bounded, Gone

\* Signing and writing, the steps that do.
LEMMA WithinInvStep ==
    ASSUME TypeInv, TypeInv', WithinInv, [Next]_vars
    PROVE  WithinInv'
<1>0. /\ FilesInv /\ CmdInv /\ cmd \in Command /\ runs \in 0 .. MaxRuns /\ clock \in Nat
      /\ server \in Server /\ server' \in Server /\ CmdInv'
  BY ServerStep DEF TypeInv, CmdInv, WithinInv
<1>1. {"root-ca.crt", "intermediate-ca.crt"} \subseteq AllFiles
  BY DEF AllFiles, RootFiles, IntermediateFiles
<1>2. CASE CreateRootCommand \/ CreateIntermediateCommand
  <2>1. PICK c \in Command : Started(c) /\ Run(c)
    BY <1>2, StartsRun
  <2>2. cmd'.cert = None
    BY <2>1 DEF Started, Run, Command
  <2>3. server'.cert = server.cert /\ UNCHANGED <<files, root_certs>>
    BY <1>0, <2>1 DEF Run, Server
  <2> QED
    BY <1>0, <2>2, <2>3, WithinInvKept
<1>3. CASE CreateRoot
  <2>1. CASE cmd.lifetime = Refused
    BY <1>0, <1>3, <2>1, WithinInvKept DEF CreateRoot, Fail, Idle
  <2>2. CASE cmd.lifetime # Refused
    <3>1. PICK new : /\ new = Cert(runs, runs, clock + cmd.lifetime)
                     /\ root_certs' = root_certs \cup {new}
                     /\ cmd' = [cmd EXCEPT !.step = "write", !.cert = new, !.todo = RootTodo]
      BY <1>3, <2>2 DEF CreateRoot, RootTodo
    <3>2. cmd'.cert = new /\ cmd'.step = "write"
      BY <1>0, <3>1 DEF Command
    <3>3. new \in CertificateType
      BY <1>0, <3>2 DEF CmdInv
    <3>4. new.signer = new.key
      BY <3>1 DEF Cert
    <3>5. new.until <= new.until
      BY <3>3 DEF CertificateType
    <3>6. UNCHANGED <<files, server>>
      BY <1>3 DEF CreateRoot
    <3> QED
      BY <1>0, <3>1, <3>2, <3>3, <3>4, <3>5, <3>6 DEF WithinInv, Bounded, Gone
  <2> QED
    BY <2>1, <2>2
<1>4. CASE CreateIntermediate
  <2>1. CASE cmd' = Idle
    BY <1>0, <1>4, <2>1, WithinInvKept DEF CreateIntermediate, Idle
  <2>2. CASE cmd' # Idle
    <3>1. /\ Complete(files["root-ca.crt"])
          /\ cmd'.cert.signer = files["root-ca.crt"].key
          /\ cmd'.cert.until <= files["root-ca.crt"].until
          /\ cmd'.op = "intermediate"
      <4>1. PICK new :
              /\ new = Cert(runs, files["root-ca.key"].key, clock + cmd.lifetime)
              /\ \E todo : cmd' = [cmd EXCEPT !.step = "write", !.parent = files["root-ca.crt"],
                                            !.cert = new, !.todo = todo]
              /\ Complete(files["root-ca.crt"])
              /\ clock + cmd.lifetime <= files["root-ca.crt"].until
              /\ files["root-ca.key"].key = files["root-ca.crt"].key
        BY <1>4, <2>2 DEF CreateIntermediate, Fail, SignsFor
      <4>2. cmd'.cert = new /\ cmd'.op = cmd.op
        BY <1>0, <4>1 DEF Command
      <4>3. new.signer = files["root-ca.key"].key /\ new.until = clock + cmd.lifetime
        BY <4>1 DEF Cert
      <4> QED
        BY <1>4, <4>1, <4>2, <4>3 DEF CreateIntermediate
    <3>2. files["root-ca.crt"] \in root_certs
      BY <3>1 DEF WithinInv, Complete
    <3>3. UNCHANGED <<files, server, root_certs>>
      BY <1>4 DEF CreateIntermediate
    <3> QED
      BY <1>0, <3>1, <3>2, <3>3 DEF WithinInv, Bounded, Gone
  <2> QED
    BY <2>1, <2>2
<1>5. CASE WriteFile
  <2> DEFINE file == Head(cmd.todo)
  <2>1. cmd.step = "write" /\ cmd.todo # <<>> /\ cmd.todo \in Seq(OwnFiles(cmd.op))
    BY <1>0, <1>5 DEF WriteFile, CmdInv
  <2>2. file \in OwnFiles(cmd.op) /\ cmd.op \in {"root", "intermediate"}
    BY <1>0, <2>1, HeadOrTail DEF CmdInv, Command
  <2>3. files' = [files EXCEPT ![file] = NewContent(file)]
    BY <1>5 DEF WriteFile
  <2> HIDE DEF file
  <2>4. /\ cmd'.cert = cmd.cert /\ cmd'.op = cmd.op /\ UNCHANGED <<server, root_certs>>
        /\ cmd.cert \in CertificateType
    BY <1>0, <1>5, <2>1 DEF WriteFile, Command, CmdInv
  <2>5. cmd.cert \notin Gone \/ cmd.cert = None
    BY <2>4, ContentsAssumption DEF Gone
  <2>6. CASE file = "root-ca.crt"
    <3>1. cmd.op = "root" /\ NewContent(file) = cmd.cert
      BY <2>2, <2>6 DEF OwnFiles, IntermediateFiles, NewContent
    <3> QED
      BY <1>0, <1>1, <2>3, <2>4, <2>6, <3>1, ContentsAssumption DEF WithinInv, Bounded, FilesInv
  <2>7. CASE file = "intermediate-ca.crt"
    <3>1. NewContent(file) = cmd.cert
      BY <2>7 DEF NewContent
    <3> QED
      BY <1>0, <1>1, <2>3, <2>4, <2>7, <3>1 DEF WithinInv, Bounded, FilesInv
  <2>8. CASE file \notin {"root-ca.crt", "intermediate-ca.crt"}
    BY <1>0, <1>1, <2>3, <2>4, <2>8, WithinInvKept DEF FilesInv
  <2> QED
    BY <2>6, <2>7, <2>8
<1>6. CASE CutShort
  <2>1. PICK torn :
          files' = [file \in DOMAIN files |-> IF file \in torn THEN Torn ELSE files[file]]
    BY <1>6 DEF CutShort
  <2>2. /\ files'["root-ca.crt"] \in {files["root-ca.crt"], Torn}
        /\ files'["intermediate-ca.crt"] \in {files["intermediate-ca.crt"], Torn}
    BY <1>0, <1>1, <2>1 DEF FilesInv
  <2> QED
    BY <1>0, <1>6, <2>2, WithinInvKept DEF CutShort, Idle
<1>7. CASE ResolveExistingPassword \/ Succeed \/ Tick \/ UNCHANGED vars
  <2>1. /\ UNCHANGED <<files, server, root_certs>>
        /\ cmd' = Idle \/ (cmd'.cert = cmd.cert /\ cmd'.op = cmd.op)
    BY <1>0, <1>7 DEF ResolveExistingPassword, Succeed, Tick, vars, Fail, Command
  <2> QED
    BY <1>0, <2>1, WithinInvKept DEF Idle
<1>8. CASE ResolvePassword
  <2>1. /\ UNCHANGED <<server, root_certs>>
        /\ cmd' = Idle \/ (cmd'.cert = cmd.cert /\ cmd'.op = cmd.op)
    BY <1>0, <1>8 DEF ResolvePassword, Fail, Command
  <2>2. /\ files'["root-ca.crt"] = files["root-ca.crt"]
        /\ files'["intermediate-ca.crt"] = files["intermediate-ca.crt"]
    BY <1>0, <1>1, <1>8 DEF ResolvePassword, Generate, PasswordFile, FilesInv
  <2> QED
    BY <1>0, <2>1, <2>2, WithinInvKept DEF Idle
<1>9. CASE LoadCert \/ LoadKey \/ LoadChain \/ LoadRoot
  <2>1. /\ UNCHANGED <<files, cmd, root_certs>>
        /\ server'.cert \in {server.cert, files["intermediate-ca.crt"]}
    BY <1>0, <1>9 DEF LoadCert, LoadKey, LoadChain, LoadRoot, Load, Server
  <2> QED
    BY <1>0, <2>1, WithinInvKept
<1>10. CASE StartServer \/ Parse
  <2>1. UNCHANGED <<files, cmd, root_certs>> /\ server'.cert \in {server.cert, None}
    BY <1>0, <1>10 DEF StartServer, Parse, Down, Server
  <2> QED
    BY <1>0, <2>1, WithinInvKept
<1> QED
  BY <1>2, <1>3, <1>4, <1>5, <1>6, <1>7, <1>8, <1>9, <1>10 DEF Next

\* WithinInv says WithinRoot of every certificate it names.
LEMMA WithinInvImplies == WithinInv => WithinRoot
BY DEF WithinInv, WithinRoot, Bounded, Gone

\* A root key and the certificate of another run never sign together, so that no
\* intermediate outlives its root (CreateIntermediate, localpki.go: the lifetime
\* checked against the certificate, the signature made with the key): LocalPki's
\* WithinRoot, for any lifetimes and any number of interrupted commands.
THEOREM IntermediatesStayWithinRoot == Spec => []WithinRoot
<1>1. Init => TypeInv /\ WithinInv
  BY TypeInvInit, WithinInvInit
<1>2. TypeInv /\ WithinInv /\ [Next]_vars => TypeInv' /\ WithinInv'
  BY TypeInvStep, WithinInvStep
<1>3. WithinInv => WithinRoot
  BY WithinInvImplies
<1> QED
  BY <1>1, <1>2, <1>3, PTL DEF Spec

-----------------------------------------------------------------------------
(* What a command has delivered                                            *)

Delivery == [cert : CertificateType, pass : Passwords,
           source : {"given", "file", "generated", "plain"}, exports : SUBSET RootCopies]

DeliveredType == delivered \in [root : Delivery \cup {None}, intermediate : Delivery \cup {None}]

\* The running command has taken back what it is about to replace.
TakenBack == /\ cmd.op # "none" => delivered.intermediate = None
             /\ cmd.op = "root" => delivered.root = None

\* Its password is in its file, if that is where it belongs.
PasswordWritten ==
    cmd.step \in {"create", "write"} /\ cmd.source \in {"file", "generated"}
        => files[PasswordFile(cmd.op)] = cmd.pass

\* The files a command is asked for.
Asked == IF cmd.op = "root"
         THEN {"root-ca.key", "root-ca.crt", "root-ca.pub", "metadata.json",
               "fingerprints.txt"} \cup cmd.exports
         ELSE {"intermediate-ca.key", "intermediate-ca.csr", "intermediate-ca.crt",
               "ca-chain.crt"}

\* Each of them is written or still to be written, and nobody replaces the root
\* under a command that has signed with it.
Progress ==
    cmd.step = "write" =>
        /\ \A file \in Asked : Holds(cmd.todo, file) \/ files[file] = NewContent(file)
        /\ cmd.op = "intermediate" => /\ cmd.parent = files["root-ca.crt"]
                                      /\ cmd.cert.signer = cmd.parent.key

ProgressInv == /\ DeliveredType /\ RootDelivered /\ IntermediateDelivered
               /\ TakenBack /\ PasswordWritten /\ Progress

\* Nothing delivered, no command.
LEMMA ProgressInvInit == Init => ProgressInv
<1> SUFFICES ASSUME Init PROVE ProgressInv
  OBVIOUS
<1>1. delivered = [root |-> None, intermediate |-> None] /\ cmd.step = "idle"
        /\ delivered.root = None /\ delivered.intermediate = None
  BY DEF Init, Idle
<1> QED
  BY <1>1 DEF ProgressInv, DeliveredType, RootDelivered, IntermediateDelivered, TakenBack,
     PasswordWritten, Progress

\* What was delivered stays, as long as the files it was delivered in do.
LEMMA DeliveredKept ==
    ASSUME ProgressInv, UNCHANGED delivered,
           delivered.root # None => \A file \in RootFiles : files'[file] = files[file],
           delivered.intermediate # None => UNCHANGED files
    PROVE  DeliveredType' /\ RootDelivered' /\ IntermediateDelivered'
<1>1. DeliveredType'
  BY DEF ProgressInv, DeliveredType
<1>2. RootDelivered'
  <2> SUFFICES ASSUME delivered.root # None PROVE RootDelivered'
    BY DEF RootDelivered
  <2>1. delivered.root.exports \subseteq RootCopies
    BY DEF ProgressInv, DeliveredType, Delivery
  <2>2. \A file \in RootFiles : files'[file] = files[file]
    OBVIOUS
  <2> QED
    BY <2>1, <2>2 DEF ProgressInv, RootDelivered, PasswordKept, PasswordFile, RootFiles
<1>3. IntermediateDelivered'
  BY DEF ProgressInv, IntermediateDelivered, PasswordKept, VerifyChain, Complete
<1> QED
  BY <1>1, <1>2, <1>3

\* A step between two writes: the command goes on or ends, its files stay.
LEMMA ProgressKept ==
    ASSUME ProgressInv, UNCHANGED <<files, delivered>>,
           \/ UNCHANGED cmd
           \/ cmd'.op = "none" /\ cmd'.step = "idle"
           \/ cmd'.op = cmd.op /\ cmd'.step = "password"
    PROVE  ProgressInv'
<1>1. DeliveredType' /\ RootDelivered' /\ IntermediateDelivered'
  BY DeliveredKept
<1>2. TakenBack'
  BY DEF ProgressInv, TakenBack
<1>3. PasswordWritten' /\ Progress'
  <2>1. CASE UNCHANGED cmd
    BY <2>1 DEF ProgressInv, PasswordWritten, Progress, Asked, NewContent
  <2>2. CASE cmd'.step \in {"idle", "password"}
    BY <2>2 DEF PasswordWritten, Progress
  <2> QED
    BY <2>1, <2>2
<1> QED
  BY <1>1, <1>2, <1>3 DEF ProgressInv

\* A new command takes back first.
LEMMA StartTakesBack ==
    ASSUME TypeInv, ProgressInv, CreateRootCommand \/ CreateIntermediateCommand
    PROVE  ProgressInv'
<1>1. PICK c \in Command : Started(c) /\ Run(c)
  BY StartsRun
<1>2. /\ cmd'.op = c.op /\ cmd'.step \in {"password", "root_password"} /\ UNCHANGED files
      /\ c.op \in {"root", "intermediate"}
  BY <1>1 DEF Run, Command, Started
<1>3. PasswordWritten' /\ Progress'
  BY <1>2 DEF PasswordWritten, Progress
<1>4. CASE CreateRootCommand
  <2>1. delivered' = [root |-> None, intermediate |-> None]
    BY <1>4 DEF CreateRootCommand
  <2>2. delivered'.root = None /\ delivered'.intermediate = None
    BY <2>1
  <2> QED
    BY <1>3, <2>1, <2>2 DEF ProgressInv, DeliveredType, RootDelivered, IntermediateDelivered,
       TakenBack
<1>5. CASE CreateIntermediateCommand
  <2>1. cmd'.op = "intermediate"
    BY <1>5 DEF CreateIntermediateCommand, Run, Idle
  <2>2. /\ delivered' = [delivered EXCEPT !.intermediate = None]
        /\ delivered \in [root : Delivery \cup {None}, intermediate : Delivery \cup {None}]
    BY <1>5 DEF CreateIntermediateCommand, ProgressInv, DeliveredType
  <2>3. /\ delivered'.root = delivered.root /\ delivered'.intermediate = None
        /\ DeliveredType'
    BY <2>2 DEF DeliveredType
  <2>4. RootDelivered'
    BY <1>2, <2>3 DEF ProgressInv, RootDelivered, PasswordKept
  <2> QED
    BY <1>3, <2>1, <2>3, <2>4 DEF ProgressInv, IntermediateDelivered, TakenBack
<1> QED
  BY <1>4, <1>5

\* The files of one command are not the other's.
LEMMA ForeignFilesStay ==
    ASSUME TypeInv, ProgressInv, UNCHANGED delivered, cmd.op # "none",
           \A file \in AllFiles : file \notin OwnFiles(cmd.op) \cup {PasswordFile(cmd.op)}
                => files'[file] = files[file]
    PROVE  DeliveredType' /\ RootDelivered' /\ IntermediateDelivered'
<1>1. cmd.op \in {"root", "intermediate"}
  BY DEF TypeInv, CmdInv, Command
<1>2. delivered.intermediate = None /\ (cmd.op = "root" => delivered.root = None)
  BY DEF ProgressInv, TakenBack
<1>3. ASSUME cmd.op = "intermediate" PROVE \A file \in RootFiles : files'[file] = files[file]
  <2>1. \A file \in RootFiles : file \in AllFiles
                                /\ file \notin OwnFiles(cmd.op) \cup {PasswordFile(cmd.op)}
    BY <1>3 DEF AllFiles, RootFiles, RootCopies, OwnFiles, IntermediateFiles, PasswordFile
  <2> QED
    BY <2>1
<1> QED
  BY <1>1, <1>2, <1>3, DeliveredKept

\* A password is in its file before anything is signed.
LEMMA PasswordProgress ==
    ASSUME TypeInv, ProgressInv, ResolvePassword
    PROVE  ProgressInv'
<1>0. FilesInv /\ CmdInv /\ cmd \in Command /\ cmd.step = "password" /\ UNCHANGED delivered
  BY DEF TypeInv, CmdInv, ResolvePassword
<1>1. cmd.op # "none" /\ PasswordFile(cmd.op) \in AllFiles
  BY <1>0 DEF CmdInv, PasswordFile, AllFiles, RootFiles, IntermediateFiles
<1>2. UNCHANGED files \/ files' = [files EXCEPT ![PasswordFile(cmd.op)] = runs]
  BY DEF ResolvePassword, Generate
<1>3. DeliveredType' /\ RootDelivered' /\ IntermediateDelivered'
  <2>1. \A file \in AllFiles : file \notin OwnFiles(cmd.op) \cup {PasswordFile(cmd.op)}
                => files'[file] = files[file]
    BY <1>0, <1>2 DEF FilesInv
  <2> QED
    BY <1>0, <1>1, <2>1, ForeignFilesStay
<1>4. CASE cmd' = Idle
  <2>1. cmd'.op = "none" /\ cmd'.step = "idle"
    BY <1>4 DEF Idle
  <2> QED
    BY <1>3, <2>1 DEF ProgressInv, TakenBack, PasswordWritten, Progress
<1>5. CASE cmd' # Idle
  <2>1. /\ cmd'.op = cmd.op /\ cmd'.step = "create" /\ cmd'.source = cmd.source
        /\ cmd.source = "file" => cmd'.pass = files[PasswordFile(cmd.op)]
        /\ cmd.source = "generated" => cmd'.pass = runs
    BY <1>0, <1>5 DEF ResolvePassword, Fail, Command
  <2>2. /\ cmd.source = "file" => UNCHANGED files
        /\ cmd.source = "generated" => files'[PasswordFile(cmd.op)] = runs
    BY <1>0, <1>1 DEF ResolvePassword, Generate, FilesInv
  <2>3. PasswordWritten'
    BY <2>1, <2>2 DEF PasswordWritten
  <2> QED
    BY <1>0, <1>3, <2>1, <2>3 DEF ProgressInv, TakenBack, Progress
<1> QED
  BY <1>4, <1>5

\* Everything a command is asked for is on its list when it has signed.
LEMMA SignProgress ==
    ASSUME TypeInv, ProgressInv, CreateRoot \/ CreateIntermediate
    PROVE  ProgressInv'
<1>0. /\ CmdInv /\ cmd \in Command /\ cmd.step = "create" /\ UNCHANGED <<files, delivered>>
      /\ cmd.exports \subseteq RootCopies
  BY DEF TypeInv, CmdInv, Command, CreateRoot, CreateIntermediate
<1>1. CASE cmd' = Idle
  BY <1>0, <1>1, ProgressKept DEF Idle
<1>2. CASE CreateRoot /\ cmd' # Idle
  <2>1. PICK new : cmd' = [cmd EXCEPT !.step = "write", !.cert = new, !.todo = RootTodo]
    BY <1>2 DEF CreateRoot, RootTodo, Fail
  <2>2. /\ cmd'.op = "root" /\ cmd.op = "root" /\ cmd'.source = cmd.source
        /\ cmd'.pass = cmd.pass /\ cmd'.exports = cmd.exports /\ cmd'.todo = RootTodo
    BY <1>0, <1>2, <2>1 DEF CreateRoot, Command
  <2>3. \A file \in Asked' : Holds(cmd'.todo, file)
    BY <1>0, <2>2, RootTodoHolds DEF Asked
  <2>4. Progress'
    BY <2>2, <2>3 DEF Progress
  <2>5. TakenBack' /\ PasswordWritten'
    BY <1>0, <2>2 DEF ProgressInv, TakenBack, PasswordWritten
  <2> QED
    BY <1>0, <2>4, <2>5, DeliveredKept DEF ProgressInv
<1>3. CASE CreateIntermediate /\ cmd' # Idle
  <2> DEFINE todo == <<"intermediate-ca.key", "intermediate-ca.csr", "intermediate-ca.crt",
                       "ca-chain.crt">>
  <2>1. PICK new :
          /\ new.signer = files["root-ca.crt"].key
          /\ cmd' = [cmd EXCEPT !.step = "write", !.parent = files["root-ca.crt"],
                                !.cert = new, !.todo = todo]
    BY <1>3 DEF CreateIntermediate, Fail, SignsFor, Cert
  <2>2. \A file \in {"intermediate-ca.key", "intermediate-ca.csr", "intermediate-ca.crt",
                     "ca-chain.crt"} : Holds(todo, file)
    <3>1. /\ todo[1] = "intermediate-ca.key" /\ todo[2] = "intermediate-ca.csr"
          /\ todo[3] = "intermediate-ca.crt" /\ todo[4] = "ca-chain.crt"
          /\ 1 \in DOMAIN todo /\ 2 \in DOMAIN todo /\ 3 \in DOMAIN todo /\ 4 \in DOMAIN todo
      OBVIOUS
    <3> HIDE DEF todo
    <3> QED
      BY <3>1 DEF Holds
  <2> HIDE DEF todo
  <2>3. /\ cmd'.op = "intermediate" /\ cmd.op = "intermediate" /\ cmd'.source = cmd.source
        /\ cmd'.pass = cmd.pass /\ cmd'.todo = todo
        /\ cmd'.parent = files["root-ca.crt"] /\ cmd'.cert = new
    BY <1>0, <1>3, <2>1 DEF CreateIntermediate, Command
  <2>4. \A file \in Asked' : Holds(cmd'.todo, file)
    BY <2>2, <2>3 DEF Asked
  <2>5. Progress'
    BY <1>0, <2>1, <2>3, <2>4 DEF Progress
  <2>6. TakenBack' /\ PasswordWritten'
    BY <1>0, <2>3 DEF ProgressInv, TakenBack, PasswordWritten
  <2> QED
    BY <1>0, <2>5, <2>6, DeliveredKept DEF ProgressInv
<1> QED
  BY <1>1, <1>2, <1>3

\* What is off the list is in its file.
LEMMA WriteProgress ==
    ASSUME TypeInv, ProgressInv, WriteFile
    PROVE  ProgressInv'
<1> DEFINE file == Head(cmd.todo)
<1>0. /\ FilesInv /\ CmdInv /\ cmd \in Command /\ cmd.step = "write" /\ cmd.todo # <<>>
      /\ UNCHANGED delivered /\ cmd.todo \in Seq(OwnFiles(cmd.op))
      /\ cmd.op \in {"root", "intermediate"}
  BY DEF TypeInv, CmdInv, WriteFile, Command
<1>1. /\ file \in OwnFiles(cmd.op) /\ Tail(cmd.todo) \in Seq(OwnFiles(cmd.op))
      /\ \A x : Holds(cmd.todo, x) => x = file \/ Holds(Tail(cmd.todo), x)
  BY <1>0, HeadOrTail
<1>2. files' = [files EXCEPT ![file] = NewContent(file)]
  BY DEF WriteFile
<1>3. /\ cmd'.op = cmd.op /\ cmd'.step = cmd.step /\ cmd'.source = cmd.source
      /\ cmd'.pass = cmd.pass /\ cmd'.cert = cmd.cert /\ cmd'.parent = cmd.parent
      /\ cmd'.exports = cmd.exports /\ cmd'.todo = Tail(cmd.todo)
  BY <1>0 DEF WriteFile, Command
<1> HIDE DEF file
<1>4. /\ file \in AllFiles /\ file \notin {"root-ca.password", "intermediate-ca.password"}
      /\ cmd.op = "intermediate" => file # "root-ca.crt"
      /\ {"root-ca.password", "intermediate-ca.password", "root-ca.crt"} \subseteq AllFiles
      /\ Asked \subseteq AllFiles
  <2>1. Asked \subseteq AllFiles
    BY <1>0 DEF Asked, AllFiles, RootFiles, IntermediateFiles, Command
  <2> QED
    BY <1>0, <1>1, <2>1 DEF OwnFiles, AllFiles, RootFiles, IntermediateFiles, RootCopies
<1>5. \A other \in AllFiles :
            files'[other] = IF other = file THEN NewContent(file) ELSE files[other]
  BY <1>0, <1>2 DEF FilesInv
<1>6. DeliveredType' /\ RootDelivered' /\ IntermediateDelivered'
  <2>1. \A other \in AllFiles : other \notin OwnFiles(cmd.op) \cup {PasswordFile(cmd.op)}
                => files'[other] = files[other]
    BY <1>1, <1>5
  <2> QED
    BY <1>0, <2>1, ForeignFilesStay
<1>7. Progress'
  <2>1. ASSUME NEW other \in Asked
        PROVE  Holds(Tail(cmd.todo), other) \/ files'[other] = NewContent(other)
    BY <1>0, <1>1, <1>4, <1>5, <2>1 DEF ProgressInv, Progress
  <2>2. Asked' = Asked /\ \A other : NewContent(other)' = NewContent(other)
    BY <1>3 DEF Asked, NewContent
  <2>3. cmd.op = "intermediate" => files'["root-ca.crt"] = files["root-ca.crt"]
    BY <1>4, <1>5
  <2> QED
    BY <1>0, <1>3, <2>1, <2>2, <2>3 DEF ProgressInv, Progress
<1>8. PasswordWritten'
  BY <1>0, <1>3, <1>4, <1>5 DEF ProgressInv, PasswordWritten, PasswordFile
<1>9. TakenBack'
  BY <1>0, <1>3 DEF ProgressInv, TakenBack
<1> QED
  BY <1>6, <1>7, <1>8, <1>9 DEF ProgressInv

\* An interrupted command has nothing to report and spoils only its own files.
LEMMA CutShortProgress ==
    ASSUME TypeInv, ProgressInv, CutShort
    PROVE  ProgressInv'
<1>0. /\ FilesInv /\ CmdInv /\ cmd \in Command /\ cmd.op # "none" /\ UNCHANGED delivered
      /\ cmd' = Idle
  BY DEF TypeInv, CmdInv, CutShort
<1>1. PICK torn \in SUBSET BeingWritten :
        files' = [file \in DOMAIN files |-> IF file \in torn THEN Torn ELSE files[file]]
  BY DEF CutShort
<1>2. BeingWritten \subseteq OwnFiles(cmd.op) \cup {PasswordFile(cmd.op)}
  <2>1. cmd.step = "write" /\ cmd.todo # <<>> => Head(cmd.todo) \in OwnFiles(cmd.op)
    BY <1>0, HeadOrTail DEF CmdInv
  <2> QED
    BY <2>1 DEF BeingWritten
<1>3. \A file \in AllFiles : file \notin OwnFiles(cmd.op) \cup {PasswordFile(cmd.op)}
            => files'[file] = files[file]
  BY <1>0, <1>1, <1>2 DEF FilesInv
<1>4. DeliveredType' /\ RootDelivered' /\ IntermediateDelivered'
  BY <1>0, <1>3, ForeignFilesStay
<1>5. cmd'.op = "none" /\ cmd'.step = "idle"
  BY <1>0 DEF Idle
<1> QED
  BY <1>4, <1>5 DEF ProgressInv, TakenBack, PasswordWritten, Progress

\* A command reports when its list is empty.
LEMMA SucceedProgress ==
    ASSUME TypeInv, ProgressInv, Succeed
    PROVE  ProgressInv'
<1>0. /\ FilesInv /\ CmdInv /\ cmd \in Command /\ cmd.step = "write" /\ cmd.todo = <<>>
      /\ UNCHANGED files /\ cmd' = Idle /\ cmd.op \in {"root", "intermediate"}
      /\ cmd.cert \in CertificateType /\ cmd.exports \subseteq RootCopies
      /\ cmd.op = "intermediate" => cmd.parent \in CertificateType
  BY DEF TypeInv, CmdInv, Command, Succeed
<1> DEFINE report == [cert |-> cmd.cert, pass |-> cmd.pass, source |-> cmd.source,
                      exports |-> cmd.exports]
<1>1. report \in Delivery
  BY <1>0 DEF Command, Delivery
<1>2. /\ report.cert = cmd.cert /\ report.pass = cmd.pass /\ report.source = cmd.source
      /\ report.exports = cmd.exports
  OBVIOUS
<1>3. delivered' = [delivered EXCEPT ![cmd.op] = report]
  BY DEF Succeed
<1> HIDE DEF report
<1>4. /\ DeliveredType'
      /\ delivered'.root = IF cmd.op = "root" THEN report ELSE delivered.root
      /\ delivered'.intermediate = IF cmd.op = "root" THEN delivered.intermediate ELSE report
  BY <1>0, <1>1, <1>3 DEF ProgressInv, DeliveredType
<1>5. \A file \in Asked : files[file] = NewContent(file)
  <2>1. \A x : ~Holds(cmd.todo, x)
    BY <1>0 DEF Holds
  <2> QED
    BY <1>0, <2>1 DEF ProgressInv, Progress
<1>6. cmd.source \in {"file", "generated"} => files[PasswordFile(cmd.op)] = cmd.pass
  BY <1>0 DEF ProgressInv, PasswordWritten
<1>7. RootDelivered'
  <2>1. CASE cmd.op = "root"
    <3>1. /\ files["root-ca.key"] = [key |-> cmd.cert.key, pass |-> cmd.pass]
          /\ files["root-ca.pub"] = cmd.cert.key
          /\ \A file \in {"root-ca.crt", "metadata.json", "fingerprints.txt"} \cup cmd.exports :
                files[file] = cmd.cert
      BY <1>0, <1>5, <2>1 DEF Asked, NewContent, RootCopies
    <3> QED
      BY <1>0, <1>2, <1>4, <1>6, <2>1, <3>1 DEF RootDelivered, PasswordKept
  <2>2. CASE cmd.op = "intermediate"
    BY <1>0, <1>4, <2>2 DEF ProgressInv, RootDelivered, PasswordKept
  <2> QED
    BY <1>0, <2>1, <2>2
<1>8. IntermediateDelivered'
  <2>1. CASE cmd.op = "root"
    BY <1>4, <1>0, <2>1 DEF ProgressInv, TakenBack, IntermediateDelivered
  <2>2. CASE cmd.op = "intermediate"
    <3>1. /\ files["intermediate-ca.key"] = [key |-> cmd.cert.key, pass |-> cmd.pass]
          /\ files["intermediate-ca.csr"] = cmd.cert.key
          /\ files["intermediate-ca.crt"] = cmd.cert
          /\ files["ca-chain.crt"] = <<cmd.cert, cmd.parent>>
      BY <1>0, <1>5, <2>2 DEF Asked, NewContent
    <3>2. cmd.parent = files["root-ca.crt"] /\ cmd.cert.signer = cmd.parent.key
      BY <1>0, <2>2 DEF ProgressInv, Progress
    <3>3. VerifyChain
      BY <1>0, <2>2, <3>1, <3>2, ContentsAssumption DEF VerifyChain, Complete
    <3> QED
      BY <1>0, <1>2, <1>4, <1>6, <2>2, <3>1, <3>2, <3>3
         DEF IntermediateDelivered, PasswordKept, VerifyChain, Complete
  <2> QED
    BY <1>0, <2>1, <2>2
<1>9. cmd'.op = "none" /\ cmd'.step = "idle"
  BY <1>0 DEF Idle
<1> QED
  BY <1>4, <1>7, <1>8, <1>9 DEF ProgressInv, TakenBack, PasswordWritten, Progress

\* Every step of the ceremony and of the server.
LEMMA ProgressInvStep ==
    ASSUME TypeInv, ProgressInv, [Next]_vars
    PROVE  ProgressInv'
<1>0. cmd \in Command
  BY DEF TypeInv, CmdInv
<1>1. CASE ResolveExistingPassword
  <2>1. /\ UNCHANGED <<files, delivered>>
        /\ cmd' = Idle \/ (cmd'.op = cmd.op /\ cmd'.step = "password")
    BY <1>0, <1>1 DEF ResolveExistingPassword, Fail, Command
  <2> QED
    BY <2>1, ProgressKept DEF Idle
<1>2. CASE StartServer \/ LoadCert \/ LoadKey \/ Parse \/ LoadChain \/ LoadRoot \/ Tick
             \/ UNCHANGED vars
  <2>1. UNCHANGED <<files, cmd, delivered>>
    BY <1>2 DEF StartServer, LoadCert, LoadKey, LoadChain, LoadRoot, Load, Parse, Tick, vars
  <2> QED
    BY <2>1, ProgressKept
<1> QED
  BY <1>1, <1>2, StartTakesBack, PasswordProgress, SignProgress, WriteProgress,
     SucceedProgress, CutShortProgress DEF Next

\* ProgressInv is inductive beside TypeInv.
LEMMA ProgressAlways == Spec => [](TypeInv /\ ProgressInv)
<1>1. Init => TypeInv /\ ProgressInv
  BY TypeInvInit, ProgressInvInit
<1>2. TypeInv /\ ProgressInv /\ [Next]_vars => TypeInv' /\ ProgressInv'
  BY TypeInvStep, ProgressInvStep
<1> QED
  BY <1>1, <1>2, PTL DEF Spec

\* After `ca create-root` has reported success (createRootCA in admin.go,
\* CreateRoot in localpki.go), key, certificate, public key, metadata and the
\* copies asked for are of one run, whatever earlier commands left behind and
\* until the next one starts: LocalPki's RootDelivered, for any set of options.
THEOREM RootIsDelivered == Spec => []RootDelivered
<1>1. TypeInv /\ ProgressInv => RootDelivered
  BY DEF ProgressInv
<1> QED
  BY <1>1, ProgressAlways, PTL

\* After `ca create-intermediate` has reported success (createIntermediateCA,
\* CreateIntermediate), its chain leads to the root that is on disk:
\* LocalPki's IntermediateDelivered.
THEOREM IntermediateIsDelivered == Spec => []IntermediateDelivered
<1>1. TypeInv /\ ProgressInv => IntermediateDelivered
  BY DEF ProgressInv
<1> QED
  BY <1>1, ProgressAlways, PTL

-----------------------------------------------------------------------------
(* A server that starts on what was delivered                              *)

\* How far it has read, and that it has read what was reported.
LoadInv ==
    server.undisturbed =>
        /\ server.step \notin {"down", "disabled"}
        /\ Loading => cmd.op = "none" /\ delivered.root # None /\ delivered.intermediate # None
        /\ server.step \in {"cert", "key", "parse"} => server.pass = delivered.intermediate.pass
        /\ server.step \in {"key", "parse", "chain", "root"}
              => server.cert = delivered.intermediate.cert
        /\ server.step \in {"parse", "chain", "root"}
              => server.key = [key |-> delivered.intermediate.cert.key,
                               pass |-> delivered.intermediate.pass]
        /\ server.step = "root" => server.chain = <<server.cert, files["root-ca.crt"]>>
        /\ server.step = "ready" => /\ server.key.key = server.cert.key
                                    /\ server.chain = <<server.cert, server.root>>
                                    /\ server.cert.signer = server.root.key

ServerInv == server \in Server /\ LoadInv

\* What it is about to read, while nothing disturbs it.
LEMMA DeliveredFiles ==
    ASSUME TypeInv, ProgressInv, delivered.root # None, delivered.intermediate # None
    PROVE  /\ delivered.intermediate.cert \in CertificateType
           /\ delivered.intermediate.pass \in Passwords
           /\ files["intermediate-ca.crt"] = delivered.intermediate.cert
           /\ files["intermediate-ca.key"] = [key |-> delivered.intermediate.cert.key,
                                              pass |-> delivered.intermediate.pass]
           /\ files["ca-chain.crt"] = <<delivered.intermediate.cert, files["root-ca.crt"]>>
           /\ delivered.intermediate.cert.signer = files["root-ca.crt"].key
<1>1. delivered.intermediate \in Delivery
  BY DEF ProgressInv, DeliveredType
<1> QED
  BY <1>1 DEF ProgressInv, IntermediateDelivered, VerifyChain, Delivery

\* Commands, which end the server's peace if it is loading.
LEMMA LoadInvCommands ==
    ASSUME TypeInv, server \in Server, LoadInv, [Next]_vars,
           ~(StartServer \/ LoadCert \/ LoadKey \/ Parse \/ LoadChain \/ LoadRoot)
    PROVE  LoadInv'
<1>0. cmd \in Command /\ CmdInv
  BY DEF TypeInv, CmdInv
<1>1. CASE CreateRootCommand \/ CreateIntermediateCommand
  <2>1. server' = [server EXCEPT !.undisturbed = server.undisturbed /\ ~Loading]
          /\ UNCHANGED files
    BY <1>1 DEF CreateRootCommand, CreateIntermediateCommand, Run
  <2>2. /\ server'.step = server.step /\ server'.pass = server.pass
        /\ server'.cert = server.cert /\ server'.key = server.key
        /\ server'.chain = server.chain /\ server'.root = server.root
        /\ server'.undisturbed => server.undisturbed /\ ~Loading
    BY <2>1 DEF Server
  <2> QED
    BY <2>1, <2>2 DEF LoadInv, Loading
<1>2. CASE ~(CreateRootCommand \/ CreateIntermediateCommand)
  <2>1. \/ UNCHANGED <<files, cmd, delivered, server>>
        \/ cmd.op # "none" /\ UNCHANGED server
    <3>1. ResolveExistingPassword \/ ResolvePassword \/ CreateRoot \/ CreateIntermediate
            \/ WriteFile \/ Succeed => cmd.step # "idle" /\ UNCHANGED server
      BY DEF ResolveExistingPassword, ResolvePassword, CreateRoot, CreateIntermediate,
         WriteFile, Succeed
    <3>2. CutShort => cmd # Idle /\ UNCHANGED server
      BY DEF CutShort
    <3>3. Tick \/ UNCHANGED vars => UNCHANGED <<files, cmd, delivered, server>>
      BY DEF Tick, vars
    <3>4. cmd.step # "idle" \/ cmd # Idle => cmd.op # "none"
      BY <1>0 DEF CmdInv
    <3> QED
      BY <1>2, <3>1, <3>2, <3>3, <3>4 DEF Next
  <2> QED
    BY <2>1 DEF LoadInv, Loading
<1> QED
  BY <1>1, <1>2

\* The steps of LoadAuthority.
LEMMA LoadInvServer ==
    ASSUME TypeInv, ProgressInv, server \in Server, LoadInv,
           StartServer \/ LoadCert \/ LoadKey \/ Parse \/ LoadChain \/ LoadRoot
    PROVE  LoadInv'
<1>0. /\ CmdInv /\ UNCHANGED <<files, cmd, delivered>>
  BY DEF TypeInv, StartServer, LoadCert, LoadKey, Parse, LoadChain, LoadRoot, Load
<1>1. CASE StartServer
  <2>1. PICK pass, undisturbed :
          /\ server' = [Down EXCEPT !.step = "cert", !.pass = pass, !.undisturbed = undisturbed]
          /\ undisturbed = (/\ cmd = Idle
                            /\ delivered.root # None /\ delivered.intermediate # None
                            /\ pass = delivered.intermediate.pass)
    BY <1>1 DEF StartServer
  <2>2. server'.step = "cert" /\ server'.pass = pass /\ server'.undisturbed = undisturbed
    BY <2>1 DEF Down
  <2>3. cmd = Idle => cmd.op = "none"
    BY DEF Idle
  <2> QED
    BY <1>0, <2>1, <2>2, <2>3 DEF LoadInv
<1>2. SUFFICES ASSUME server'.undisturbed, ~StartServer PROVE LoadInv'
  BY <1>1 DEF LoadInv
<1>3. server.undisturbed /\ Loading
  BY <1>2 DEF LoadCert, LoadKey, Parse, LoadChain, LoadRoot, Load, Server, Down, Loading
<1>4. cmd.op = "none" /\ delivered.root # None /\ delivered.intermediate # None
  BY <1>3 DEF LoadInv
<1>5. /\ delivered.intermediate.cert \in CertificateType
      /\ delivered.intermediate.pass \in Passwords
      /\ files["intermediate-ca.crt"] = delivered.intermediate.cert
      /\ files["intermediate-ca.key"] = [key |-> delivered.intermediate.cert.key,
                                         pass |-> delivered.intermediate.pass]
      /\ files["ca-chain.crt"] = <<delivered.intermediate.cert, files["root-ca.crt"]>>
      /\ delivered.intermediate.cert.signer = files["root-ca.crt"].key
  BY <1>4, DeliveredFiles
<1>6. CASE LoadCert
  <2>1. server' = [server EXCEPT !.step = "key", !.cert = files["intermediate-ca.crt"]]
          /\ server.step = "cert"
    BY <1>6 DEF LoadCert, Load
  <2> QED
    BY <1>0, <1>3, <1>4, <1>5, <2>1 DEF LoadInv, Server
<1>7. CASE LoadKey
  <2>1. server' = [server EXCEPT !.step = "parse", !.key = files["intermediate-ca.key"]]
          /\ server.step = "key"
    BY <1>7 DEF LoadKey, Load
  <2> QED
    BY <1>0, <1>3, <1>4, <1>5, <2>1 DEF LoadInv, Server
<1>8. CASE Parse
  <2>1. server.step = "parse"
    BY <1>8 DEF Parse
  <2>2. Complete(server.cert)
    BY <1>3, <1>5, <2>1, ContentsAssumption DEF LoadInv, Complete
  <2>3. Opens(server.key, server.pass)
    <3>1. /\ server.pass = delivered.intermediate.pass
          /\ server.key = [key |-> delivered.intermediate.cert.key,
                           pass |-> delivered.intermediate.pass]
      BY <1>3, <2>1 DEF LoadInv
    <3>2. server.key \in KeyType
      BY <1>5, <3>1 DEF KeyType, CertificateType
    <3> QED
      BY <3>1, <3>2, ContentsAssumption DEF Opens, Complete
  <2>4. server' = [server EXCEPT !.step = "chain", !.pass = 0]
    BY <1>8, <2>2, <2>3 DEF Parse
  <2> QED
    BY <1>0, <1>3, <1>4, <2>1, <2>4 DEF LoadInv, Server
<1>9. CASE LoadChain
  <2>1. server' = [server EXCEPT !.step = "root", !.chain = files["ca-chain.crt"]]
          /\ server.step = "chain"
    BY <1>9 DEF LoadChain, Load
  <2> QED
    BY <1>0, <1>3, <1>4, <1>5, <2>1 DEF LoadInv, Server
<1>10. CASE LoadRoot
  <2>1. server' = [server EXCEPT !.step = "ready", !.root = files["root-ca.crt"]]
          /\ server.step = "root"
    BY <1>10 DEF LoadRoot, Load
  <2>2. /\ server'.step = "ready" /\ server'.cert = server.cert /\ server'.key = server.key
        /\ server'.chain = server.chain /\ server'.root = files["root-ca.crt"]
    BY <2>1 DEF Server
  <2>3. /\ server.cert = delivered.intermediate.cert
        /\ server.key.key = delivered.intermediate.cert.key
        /\ server.chain = <<server.cert, files["root-ca.crt"]>>
    BY <1>3, <2>1 DEF LoadInv
  <2>4. ~(Loading')
    BY <2>2 DEF Loading
  <2> QED
    BY <1>5, <2>2, <2>3, <2>4 DEF LoadInv
<1> QED
  BY <1>1, <1>2, <1>6, <1>7, <1>8, <1>9, <1>10

\* A server that starts on delivered files with the reported password can issue,
\* whatever commands run before it begins and after it has read the last file
\* (LoadAuthority in authority.go): LocalPki's UndisturbedLoadIssues.
THEOREM DeliveredFilesServe == Spec => []UndisturbedLoadIssues
<1>1. Init => ServerInv
  <2> SUFFICES ASSUME Init PROVE ServerInv
    OBVIOUS
  <2>1. server \in Server
    BY WithinInvInit DEF WithinInv
  <2> QED
    BY <2>1 DEF Init, Down, ServerInv, LoadInv
<1>2. TypeInv /\ ProgressInv /\ ServerInv /\ [Next]_vars => ServerInv'
  BY ServerStep, LoadInvCommands, LoadInvServer DEF ServerInv
<1>3. ServerInv => UndisturbedLoadIssues
  BY DEF ServerInv, LoadInv, UndisturbedLoadIssues
<1> QED
  BY <1>1, <1>2, <1>3, ProgressAlways, PTL DEF Spec

=============================================================================
