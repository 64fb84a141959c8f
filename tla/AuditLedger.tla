------------------------------ MODULE AuditLedger ------------------------------
(***************************************************************************)
(* The hash-chained audit log: Audit.Record and CreateAuditLog, run by     *)
(* concurrent request handlers, ListAuditLogs, and the AuditChainCheck of  *)
(* security-check that reads the chain back.                               *)
(*                                                                         *)
(* CreateAuditLog reads the newest entry's hash in one statement and       *)
(* inserts its own entry in another, with no transaction around them; the  *)
(* entry's timestamp and id are taken before both.  No action of this      *)
(* module alters or deletes an entry: every alarm the check raises here is *)
(* a false one.                                                            *)
(***************************************************************************)
EXTENDS Integers, FiniteSets

CONSTANTS
    Writers,        \* handlers that may be recording at the same time
    Events,         \* action, actor, target, metadata and trace id of an entry
    Ids,            \* UUIDs, ordered as SQLite orders their text
    LegacyIds,      \* rows that may be older than the hash columns
    TicksPerSecond, \* clock resolution against that of RFC 3339
    MinStep,        \* least time between two readings of time.Now
    MaxStep,        \* most time between two readings (bounds the model)
    MaxSetback,     \* how far the wall clock may be set back meanwhile
    MaxClock,       \* bound on the clock
    MayFail,        \* whether SQL statements may fail
    MaxLimit,       \* 500: the largest limit ListAuditLogs accepts
    DefaultLimit    \* 100: what it uses instead of any other

ASSUME LedgerAssumption ==
    /\ Ids \subseteq Int /\ LegacyIds \subseteq Ids
    /\ TicksPerSecond \in Nat \ {0}
    /\ MinStep \in Nat /\ MaxStep \in Nat /\ MaxSetback \in Nat /\ MaxClock \in Nat
    /\ MayFail \in BOOLEAN
    /\ MaxLimit \in Nat /\ DefaultLimit \in Nat

VARIABLES
    audit_logs,  \* the table: a set of rows
    writer,      \* the CreateAuditLog call of each handler
    clock,       \* what time.Now returned last
    lost,        \* ids of the entries whose CreateAuditLog returned an error
    serial       \* history: handlers recorded one after the other so far, each
                 \* at a later instant, and no row predates the hash columns

vars == <<audit_logs, writer, clock, lost, serial>>

-----------------------------------------------------------------------------
(* Hashes and rows                                                         *)

\* SQL NULL, which is no hash.
NULL == <<"NULL">>

\* The hash of "no entry": the empty string.
Genesis == <<>>

\* SHA-256 over the previous hash, the entry and its timestamp formatted with
\* RFC 3339, which drops fractions of a second.  The id is not hashed.  Hashes
\* are taken to be equal only for equal inputs.
Digest(prev, event, created_at) == <<prev, event, created_at \div TicksPerSecond>>

Row(id, event, created_at, prev, hash) ==
    [id |-> id, event |-> event, created_at |-> created_at,
     prev_hash |-> prev, hash |-> hash]

\* What ALTER TABLE ... ADD COLUMN leaves of an entry of an older version.
LegacyRow(id, event) == Row(id, event, 0, NULL, NULL)

\* Mutation: ORDER BY without DESC.
IsOldest(r, rows) == r \in rows /\ \A q \in rows \ {r} : r.created_at <= q.created_at

\* ORDER BY created_at DESC, id DESC: r comes before q.
Newer(r, q) == \/ r.created_at > q.created_at
               \/ r.created_at = q.created_at /\ r.id > q.id

IsNewest(r, rows) == r \in rows /\ \A q \in rows \ {r} : Newer(r, q)

-----------------------------------------------------------------------------
(* Writing                                                                 *)

Idle == [step |-> "idle", id |-> 0, event |-> NULL, created_at |-> 0, last |-> Genesis]

UsedIds == {r.id : r \in audit_logs} \cup {writer[w].id : w \in Writers} \cup lost

\* Audit.Record: choose a UUID, read the clock, call CreateAuditLog.
Record(w, event) ==
    /\ writer[w].step = "idle"
    /\ \E step \in MinStep..MaxStep, setback \in 0..MaxSetback :
            clock' = clock + step - setback
    /\ clock' \in 0..MaxClock
    /\ \E id \in Ids \ UsedIds :
        writer' = [writer EXCEPT ![w] = [step |-> "select", id |-> id, event |-> event,
                                         created_at |-> clock', last |-> Genesis]]
    /\ serial' = (serial /\ clock' > clock /\ \A v \in Writers : writer[v].step = "idle")
    /\ UNCHANGED <<audit_logs, lost>>

\* The call returns an error; Record ends the span and drops it.
ReturnError(w) ==
    /\ writer' = [writer EXCEPT ![w] = Idle]
    /\ lost' = lost \cup {writer[w].id}
    /\ UNCHANGED <<audit_logs, clock, serial>>

\* Mutation: a hash counts from when it is computed, before its row is stored.
SelectPendingHash(w) ==
    /\ writer[w].step = "select"
    /\ \E last \in {Genesis} \cup {r.hash : r \in audit_logs}
                   \cup {Digest(writer[v].last, writer[v].event, writer[v].created_at) :
                           v \in {u \in Writers : writer[u].step = "insert"}} :
         writer' = [writer EXCEPT ![w].step = "insert", ![w].last = last]
    /\ UNCHANGED <<audit_logs, clock, lost, serial>>

\* CreateAuditLog: SELECT hash of the newest row.
SelectLastHash(w) ==
    /\ writer[w].step = "select"
    /\ \/ /\ audit_logs = {}
          /\ writer' = [writer EXCEPT ![w].step = "insert", ![w].last = Genesis]
       \/ \E r \in audit_logs :
            /\ IsNewest(r, audit_logs)
            /\ r.hash # NULL
            /\ writer' = [writer EXCEPT ![w].step = "insert", ![w].last = r.hash]
    /\ UNCHANGED <<audit_logs, clock, lost, serial>>

\* CreateAuditLog: the newest row is a legacy one, and Scan cannot put its NULL
\* hash into a string.
ScanError(w) ==
    /\ writer[w].step = "select"
    /\ \E r \in audit_logs : IsNewest(r, audit_logs) /\ r.hash = NULL
    /\ ReturnError(w)

\* Mutation: the contents are not bound to the statement.
InsertEmptyEntry(w) ==
    /\ writer[w].step = "insert"
    /\ audit_logs' = audit_logs \cup
          {LET e == writer[w]
           IN Row(e.id, NULL, e.created_at, e.last, Digest(e.last, e.event, e.created_at))}
    /\ writer' = [writer EXCEPT ![w] = Idle]
    /\ UNCHANGED <<clock, lost, serial>>

\* CreateAuditLog: INSERT the entry, chained to the hash read before.
InsertEntry(w) ==
    /\ writer[w].step = "insert"
    /\ audit_logs' = audit_logs \cup
          {LET e == writer[w]
           IN Row(e.id, e.event, e.created_at, e.last, Digest(e.last, e.event, e.created_at))}
    /\ writer' = [writer EXCEPT ![w] = Idle]
    /\ UNCHANGED <<clock, lost, serial>>

\* Mutation: the error of the SELECT is dropped.
StatementFailsUnnoticed(w) ==
    /\ MayFail
    /\ \/ /\ writer[w].step = "select"
          /\ writer' = [writer EXCEPT ![w].step = "insert", ![w].last = Genesis]
          /\ UNCHANGED <<audit_logs, clock, lost, serial>>
       \/ writer[w].step = "insert" /\ ReturnError(w)

\* Either statement fails: the request was cancelled, or the database is busy.
StatementFails(w) ==
    /\ MayFail
    /\ writer[w].step \in {"select", "insert"}
    /\ ReturnError(w)

Init ==
    /\ \E ids \in SUBSET LegacyIds : \E contents \in [ids -> Events] :
            audit_logs = {LegacyRow(i, contents[i]) : i \in ids}
    /\ writer = [w \in Writers |-> Idle]
    /\ clock = 0
    /\ lost = {}
    /\ serial = (audit_logs = {})

Next == \E w \in Writers : \/ \E event \in Events : Record(w, event)
                           \/ SelectLastHash(w) \/ ScanError(w)
                           \/ InsertEntry(w) \/ StatementFails(w)

Spec == Init /\ [][Next]_vars

-----------------------------------------------------------------------------
(* Reading                                                                 *)

\* ListAuditLogs: a limit out of range is replaced.
EffectiveLimit(limit) ==
    IF limit <= 0 \/ limit > MaxLimit THEN DefaultLimit ELSE limit

\* ListAuditLogs: ORDER BY created_at DESC LIMIT n.  Rows of the same instant
\* may come in any order, and any of them may be cut off.
Listings(limit) ==
    LET n == IF Cardinality(audit_logs) < EffectiveLimit(limit)
             THEN Cardinality(audit_logs) ELSE EffectiveLimit(limit)
    IN {s \in [1..n -> audit_logs] :
          /\ \A i, j \in 1..n : i < j => /\ s[i] # s[j]
                                         /\ s[i].created_at >= s[j].created_at
          /\ \A r \in audit_logs : (\A i \in 1..n : s[i] # r)
                => \A i \in 1..n : s[i].created_at >= r.created_at}

\* sql.NullString.String.
AsString(hash) == IF hash = NULL THEN Genesis ELSE hash

\* AuditChainCheck: from the oldest listed entry to the newest, each entry must
\* name the hash of the one before it, the first one the empty string, and
\* carry the hash of its own contents.
ChainVerifies(s) ==
    \A i \in DOMAIN s :
        LET prev == AsString(s[i].prev_hash)
        IN /\ prev = IF i + 1 \in DOMAIN s THEN AsString(s[i + 1].hash) ELSE Genesis
           /\ AsString(s[i].hash) = Digest(prev, s[i].event, s[i].created_at)

-----------------------------------------------------------------------------
StoredHashes == {r.hash : r \in audit_logs}

TypeOK ==
    /\ \A r \in audit_logs : r.id \in Ids /\ r.event \in Events /\ r.created_at \in Int
    /\ writer \in [Writers -> [step : {"idle", "select", "insert"}, id : Int,
                               event : Events \cup {NULL}, created_at : Int,
                               last : {Genesis} \cup StoredHashes]]
    /\ \A w \in Writers : writer[w].step # "idle" => /\ writer[w].id \in Ids
                                                    /\ writer[w].event \in Events
    /\ clock \in Int
    /\ lost \subseteq Ids
    /\ serial \in BOOLEAN

\* Every entry this version wrote carries the hash of its own contents, and its
\* prev_hash is the empty string or the hash of an entry that is in the table:
\* no race, failure or clock makes CreateAuditLog chain to an entry that was
\* never stored.
LinksResolve ==
    \A r \in audit_logs : r.hash # NULL =>
        /\ r.hash = Digest(r.prev_hash, r.event, r.created_at)
        /\ r.prev_hash \in {Genesis} \cup StoredHashes

\* The entries before r in the order of the timestamps.
Older(r) == {q \in audit_logs : Newer(r, q)}

\* In the order of their timestamps the entries form one chain from the empty
\* string to the newest entry, with no fork, gap or detour.
Unbroken ==
    \A r \in audit_logs :
        /\ r.hash = Digest(r.prev_hash, r.event, r.created_at)
        /\ \/ Older(r) = {} /\ r.prev_hash = Genesis
           \/ \E q \in audit_logs : IsNewest(q, Older(r)) /\ r.prev_hash = q.hash

\* AuditChainCheck passes, whichever order SQLite lists simultaneous entries
\* in: no entry was altered, so the check must not report tampering.
NoFalseAlarm == \A s \in Listings(MaxLimit) : ChainVerifies(s)

\* As long as handlers recorded one after the other, at increasing instants, the
\* entries form one unbroken chain, whichever statements failed meanwhile.
SerialChain == serial => Unbroken

\* Such a log also passes AuditChainCheck while all of it fits in the listing.
SerialVerifies == (serial /\ Cardinality(audit_logs) <= MaxLimit) => NoFalseAlarm
=============================================================================
