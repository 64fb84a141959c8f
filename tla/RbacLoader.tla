------------------------------ MODULE RbacLoader ------------------------------
(***************************************************************************)
(* LoadAndApply: at every start, before it listens, the server reads the   *)
(* RBAC manifests and writes what they declare into the CA hierarchy       *)
(* tables, one upsert after the other and without a transaction.  Any      *)
(* error ends the process; the supervisor starts it again, perhaps after   *)
(* the operator has deployed other files.  Rows are never deleted.         *)
(*                                                                         *)
(* Files are numbered in the order sort.Strings gives their names; a file  *)
(* is the sequence of its documents, <<>> when it is absent.  Users,       *)
(* groups and service accounts are only counted and are left out, and so   *)
(* are the columns no statement or reader decides on.                      *)
(***************************************************************************)
EXTENDS Naturals, Sequences, SequencesExt

CONSTANTS
    Names,            \* metadata.name, and what refers to it
    Subjects,         \* kind and name of a subject
    Fingerprints,
    Verbs,            \* a rule's verbs, joined
    NumFiles,         \* files the path patterns match
    Contents,         \* what a file may contain
    MaxDeployments,   \* bound on the operator's deployments
    MaxStarts,        \* bound on the number of starts
    None              \* blank field

VARIABLES
    files,         \* what is deployed: file number -> sequence of documents
    db,            \* the hierarchy tables, each a function from its ids to rows
    server,        \* "down", "loading" or "up" (listening)
    manifests,     \* the documents the last start read
    pending,       \* statements apply has not executed yet
    base,          \* history: db when these manifests were first read
    deployments,
    starts

vars == <<files, db, server, manifests, pending, base, deployments, starts>>

\* A role's rule, and a document.  ref is rootRef or roleRef.name, intermediate
\* is spec.intermediateRef.  complete: readManifests can decode it, and it has the
\* fields validateManifest wants that are not modelled.  legal: the durations and
\* times parse and the status is one the table's CHECK allows, which only apply
\* finds out.
Rule == [verbs : Verbs, intermediate : Names \cup {None}]

Document == [kind : {"root", "intermediate", "role", "binding", "policy"},
             name : Names, ref : Names \cup {None}, fingerprint : Fingerprints \cup {None},
             intermediate : Names \cup {None}, rules : Seq(Rule), subjects : Seq(Subjects),
             complete : BOOLEAN, legal : BOOLEAN]

ASSUME RbacAssumption ==
    /\ NumFiles \in Nat /\ MaxDeployments \in Nat /\ MaxStarts \in Nat
    /\ None \notin Names \cup Fingerprints
    /\ Contents \subseteq Seq(Document)

Tables == {"root_cas", "intermediate_cas", "ca_roles", "ca_token_policies"}
EmptyTables == [t \in Tables |-> <<>>]

TypeOK ==
    /\ files \in [1 .. NumFiles -> Contents \cup {<<>>}]
    /\ DOMAIN db = Tables
    /\ \A r \in DOMAIN db["root_cas"] : r \in Names /\ db["root_cas"][r] \in Fingerprints
    /\ \A i \in DOMAIN db["intermediate_cas"] : /\ i \in Names
                                                /\ db["intermediate_cas"][i] \in
                                                      [parent : Names, fingerprint : Fingerprints]
    /\ \A g \in DOMAIN db["ca_roles"] : /\ g \in Names \X Subjects \X Names
                                        /\ db["ca_roles"][g] \in
                                              [parent : Names, role : Names, permissions : Verbs]
    /\ \A p \in DOMAIN db["ca_token_policies"] : /\ p \in Names
                                                 /\ db["ca_token_policies"][p] \in [parent : Names]
    /\ server \in {"down", "loading", "up"}
    /\ manifests \in Seq(Document)
    /\ DOMAIN base = Tables
    /\ deployments \in 0 .. MaxDeployments /\ starts \in 0 .. MaxStarts

-----------------------------------------------------------------------------
(* From files to statements                                                *)

\* readManifests of expandPaths: the documents of all files, in file order.
Read(fs) == FlattenSeq(fs)

\* Mutation: a document that fails validation is skipped.
AllCompleteSkipping(ms) == TRUE

\* validateManifest: what each kind may not leave blank.
Complete(m) ==
    /\ m.complete
    /\ m.kind = "root" => m.fingerprint # None
    /\ m.kind = "intermediate" => m.ref # None /\ m.fingerprint # None
    /\ m.kind = "role" => m.rules # <<>>
    /\ m.kind = "binding" => m.ref # None /\ m.subjects # <<>>
    /\ m.kind = "policy" => m.intermediate # None

AllComplete(ms) == \A i \in 1 .. Len(ms) : Complete(ms[i])

\* The documents that define this role or binding.
Defining(ms, kind, name) == {i \in 1 .. Len(ms) : ms[i].kind = kind /\ ms[i].name = name}

\* Mutation: the first document of a role counts.
RoleNamedFirst(ms, name) ==
    SelectInSeq(ms, LAMBDA m : m.kind = "role" /\ m.name = name)

\* The role a binding finds in the map: the last document wins, 0 if there is none.
RoleNamed(ms, name) ==
    SelectLastInSeq(ms, LAMBDA m : m.kind = "role" /\ m.name = name)

\* firstNonEmpty(rule, role, binding)
Target(rule, role, binding) ==
    CASE rule.intermediate # None -> rule.intermediate
      [] rule.intermediate = None /\ role.intermediate # None -> role.intermediate
      [] OTHER -> binding.intermediate

\* A statement; parent is the row its foreign key names.  legal is FALSE where
\* apply returns an error instead of executing it.
Upsert(table, id, row, legal) == [table |-> table, id |-> id, row |-> row, legal |-> legal]
Failure == Upsert("ca_roles", None, None, FALSE)

\* One row for each rule with a target and each subject.
applyRoleBinding(role, binding) ==
    FlattenSeq([j \in 1 .. Len(role.rules) |->
        LET rule == role.rules[j]
            target == Target(rule, role, binding)
        IN IF target = None THEN <<>>
           ELSE [k \in 1 .. Len(binding.subjects) |->
                    Upsert("ca_roles", <<binding.name, binding.subjects[k], target>>,
                           [parent |-> target, role |-> role.name,
                            permissions |-> rule.verbs], TRUE)]])

\* Mutation: the fingerprint column is given the name.
applyRootCAWithName(m) == Upsert("root_cas", m.name, m.name, m.legal)

applyRootCA(m) == Upsert("root_cas", m.name, m.fingerprint, m.legal)

applyIntermediateCA(m) ==
    Upsert("intermediate_cas", m.name,
           [parent |-> m.ref, fingerprint |-> m.fingerprint], m.legal)

applyTokenPolicy(m) ==
    Upsert("ca_token_policies", m.name, [parent |-> m.intermediate], m.legal)

\* The first loop of apply.
FirstPass(ms) ==
    FlattenSeq([i \in 1 .. Len(ms) |->
        CASE ms[i].kind = "root" -> <<applyRootCA(ms[i])>>
          [] ms[i].kind = "intermediate" -> <<applyIntermediateCA(ms[i])>>
          [] OTHER -> <<>>])

\* The second loop: roles are known by then, wherever they were declared.
SecondPass(ms) ==
    FlattenSeq([i \in 1 .. Len(ms) |->
        CASE ms[i].kind = "binding" ->
               IF RoleNamed(ms, ms[i].ref) = 0 THEN <<Failure>>
               ELSE applyRoleBinding(ms[RoleNamed(ms, ms[i].ref)], ms[i])
          [] ms[i].kind = "policy" -> <<applyTokenPolicy(ms[i])>>
          [] OTHER -> <<>>])

Statements(ms) == FirstPass(ms) \o SecondPass(ms)

-----------------------------------------------------------------------------
(* What SQLite makes of a statement                                        *)

FingerprintOf(table, row) == IF table = "root_cas" THEN row ELSE row.fingerprint

\* UNIQUE: another row of the table has this fingerprint.
FingerprintTaken(tables, st) ==
    /\ st.table \in {"root_cas", "intermediate_cas"}
    /\ \E id \in DOMAIN tables[st.table] \ {st.id} :
          FingerprintOf(st.table, tables[st.table][id]) = FingerprintOf(st.table, st.row)

\* Mutation: foreign keys are not enforced.
ParentExistsUnenforced(tables, st) == TRUE

\* FOREIGN KEY: an intermediate wants its root, a role or a policy its intermediate.
ParentExists(tables, st) ==
    CASE st.table = "root_cas" -> TRUE
      [] st.table = "intermediate_cas" -> st.row.parent \in DOMAIN tables["root_cas"]
      [] OTHER -> st.row.parent \in DOMAIN tables["intermediate_cas"]

\* Mutation: INSERT without ON CONFLICT.
AcceptedOnce(tables, st) ==
    /\ st.legal
    /\ st.id \notin DOMAIN tables[st.table]
    /\ ~FingerprintTaken(tables, st)
    /\ ParentExists(tables, st)

Accepted(tables, st) ==
    /\ st.legal
    /\ ~FingerprintTaken(tables, st)
    /\ ParentExists(tables, st)

\* INSERT ... ON CONFLICT(id) DO UPDATE.
Execute(tables, st) ==
    [tables EXCEPT ![st.table] = [id \in DOMAIN @ \cup {st.id} |->
                                     IF id = st.id THEN st.row ELSE @[id]]]

-----------------------------------------------------------------------------
(* The process                                                             *)

\* The operator replaces the files, whatever the server is doing.
Deploy ==
    /\ deployments < MaxDeployments
    /\ deployments' = deployments + 1
    /\ files' \in [1 .. NumFiles -> Contents \cup {<<>>}]
    /\ files' # files
    /\ UNCHANGED <<db, server, manifests, pending, base, starts>>

\* The process starts: it reads and validates every document before it applies
\* any.  One that is not complete ends it.
Start ==
    /\ server = "down"
    /\ starts < MaxStarts
    /\ starts' = starts + 1
    /\ manifests' = Read(files)
    /\ base' = IF manifests' = manifests THEN base ELSE db
    /\ IF AllComplete(manifests')
       THEN server' = "loading" /\ pending' = Statements(manifests')
       ELSE server' = "down" /\ pending' = <<>>
    /\ UNCHANGED <<files, db, deployments>>

\* apply executes the next statement.
Apply ==
    /\ server = "loading" /\ pending # <<>>
    /\ Accepted(db, Head(pending))
    /\ db' = Execute(db, Head(pending))
    /\ pending' = Tail(pending)
    /\ UNCHANGED <<files, server, manifests, base, deployments, starts>>

\* Mutation: the error of a statement is logged and apply goes on.
ApplyErrorIgnored ==
    /\ server = "loading" /\ pending # <<>>
    /\ ~Accepted(db, Head(pending))
    /\ pending' = Tail(pending)
    /\ UNCHANGED <<files, db, server, manifests, base, deployments, starts>>

\* apply meets an error and the process exits.
ApplyError ==
    /\ server = "loading" /\ pending # <<>>
    /\ ~Accepted(db, Head(pending))
    /\ server' = "down"
    /\ pending' = <<>>
    /\ UNCHANGED <<files, db, manifests, base, deployments, starts>>

\* Everything is applied: the server listens.
Listen ==
    /\ server = "loading" /\ pending = <<>>
    /\ server' = "up"
    /\ UNCHANGED <<files, db, manifests, pending, base, deployments, starts>>

\* The process ends, while it loads or later: killed, stopped, or by a
\* statement that failed for a reason of the database's own.
Stop ==
    /\ server # "down"
    /\ server' = "down"
    /\ pending' = <<>>
    /\ UNCHANGED <<files, db, manifests, base, deployments, starts>>

Init ==
    /\ files = [f \in 1 .. NumFiles |-> <<>>]
    /\ db = EmptyTables
    /\ server = "down"
    /\ manifests = <<>>
    /\ pending = <<>>
    /\ base = EmptyTables
    /\ deployments = 0
    /\ starts = 0

Next == Deploy \/ Start \/ Apply \/ ApplyError \/ Listen \/ Stop

Spec == Init /\ [][Next]_vars

-----------------------------------------------------------------------------
(* What the status endpoint shows                                          *)

\* buildCAHierarchy: intermediates under their roots, roles and policies under
\* their intermediates; the summary counts the rows of every table.
ShownIntermediates(tables) ==
    {i \in DOMAIN tables["intermediate_cas"] :
        tables["intermediate_cas"][i].parent \in DOMAIN tables["root_cas"]}

ShownUnder(tables, table) ==
    {id \in DOMAIN tables[table] : tables[table][id].parent \in ShownIntermediates(tables)}

-----------------------------------------------------------------------------
(* Properties                                                              *)

\* Of documents of which one is incomplete nothing is applied, not even in part:
\* the loader "validates required fields before applying anything"
\* (docs/contributing/local-development-rbac.md).
IncompleteAppliesNothing ==
    (\E i \in 1 .. Len(manifests) : ~Complete(manifests[i])) => db = base

\* The roots and intermediates are declared once each.
DistinctCAs(ms) ==
    \A kind \in {"root", "intermediate"} : \A i, j \in 1 .. Len(ms) :
        (ms[i].kind = kind /\ ms[j].kind = kind /\ ms[i].name = ms[j].name) => i = j

\* What executing the first n statements leaves behind, up to the first error.
Outcomes(tables, sts) ==
    LET after[n \in 0 .. Len(sts)] ==
            IF n = 0 THEN [ok |-> TRUE, db |-> tables]
            ELSE IF after[n - 1].ok /\ Accepted(after[n - 1].db, sts[n])
                 THEN [ok |-> TRUE, db |-> Execute(after[n - 1].db, sts[n])]
                 ELSE [ok |-> FALSE, db |-> after[n - 1].db]
    IN after

Outcome(tables, sts) == Outcomes(tables, sts)[Len(sts)]

\* A start with the same files ends where the first one would have, in the same
\* tables and with or without an error, wherever earlier attempts were cut
\* short: what they left behind neither blocks nor changes the next load, and
\* they left nothing of files that are refused (LoadAndApply, apply).
RestartConverges ==
    /\ IncompleteAppliesNothing
    /\ (AllComplete(manifests) /\ DistinctCAs(manifests)) =>
           Outcome(db, Statements(manifests)) = Outcome(base, Statements(manifests))

\* The documents of a kind that no later one of the same name overrides.
Effective(ms, kind) ==
    {i \in 1 .. Len(ms) : /\ ms[i].kind = kind
                          /\ \A j \in Defining(ms, kind, ms[i].name) : j <= i}

\* The documents a binding is read with: the last one of its role.
RolesOf(ms, b) == {r \in Effective(ms, "role") : ms[r].name = ms[b].ref}

\* What the documents grant: each subject of each binding, through each rule of
\* the binding's role.
Grants(ms) ==
    UNION {UNION {{[binding |-> b, role |-> r, rule |-> j, subject |-> ms[b].subjects[k]] :
                       j \in 1 .. Len(ms[r].rules), k \in 1 .. Len(ms[b].subjects)} :
                  r \in RolesOf(ms, b)} :
           b \in {i \in 1 .. Len(ms) : ms[i].kind = "binding"}}

GrantTarget(ms, g) == Target(ms[g.role].rules[g.rule], ms[g.role], ms[g.binding])

GrantedRow(ms, g) == <<ms[g.binding].name, g.subject, GrantTarget(ms, g)>>

Later(g, h) == g.binding > h.binding \/ (g.binding = h.binding /\ g.rule > h.rule)

\* A listening server has in its tables what its manifests say, whatever was in
\* them before: nothing is skipped, the last of several documents with one name
\* counts, wherever it stands, and the last of several grants of one row.
LoadedFaithfully ==
    server = "up" =>
        /\ \A i \in Effective(manifests, "root") :
              /\ manifests[i].name \in DOMAIN db["root_cas"]
              /\ db["root_cas"][manifests[i].name] = manifests[i].fingerprint
        /\ \A i \in Effective(manifests, "intermediate") :
              /\ manifests[i].name \in DOMAIN db["intermediate_cas"]
              /\ db["intermediate_cas"][manifests[i].name].parent = manifests[i].ref
        /\ \A g \in Grants(manifests) :
              \/ GrantTarget(manifests, g) = None
              \/ \E h \in Grants(manifests) :
                    Later(h, g) /\ GrantedRow(manifests, h) = GrantedRow(manifests, g)
              \/ /\ GrantedRow(manifests, g) \in DOMAIN db["ca_roles"]
                 /\ db["ca_roles"][GrantedRow(manifests, g)].permissions
                       = manifests[g.role].rules[g.rule].verbs
        /\ \A i \in 1 .. Len(manifests) : manifests[i].kind = "binding" =>
              Defining(manifests, "role", manifests[i].ref) # {}

\* The hierarchy on the status page is complete: every row its summary counts is
\* shown somewhere in the tree, since no row outlives or precedes its parent.
EveryRowShown ==
    /\ ShownIntermediates(db) = DOMAIN db["intermediate_cas"]
    /\ \A t \in {"ca_roles", "ca_token_policies"} : ShownUnder(db, t) = DOMAIN db[t]
=============================================================================
