--------------------------- MODULE AuditLedgerProofs ---------------------------
(***************************************************************************)
(* Theorems about AuditLedger, for any set of writers, any clock and any   *)
(* failures unless a hypothesis says otherwise.                            *)
(***************************************************************************)
EXTENDS AuditLedger, Sequences, FiniteSetTheorems, TLAPS

(***************************************************************************)
(* Links never dangle.  The invariant is inductive because TypeOK records  *)
(* that the hash a writer has read, and will chain to, is a stored one.    *)
(***************************************************************************)
LinkInv == TypeOK /\ LinksResolve

\* The initial table, empty or left by an older version, satisfies LinkInv.
LEMMA LinkInvInit == Init => LinkInv
<1> SUFFICES ASSUME Init PROVE LinkInv
  OBVIOUS
<1>1. PICK ids \in SUBSET LegacyIds : \E contents \in [ids -> Events] :
            audit_logs = {LegacyRow(i, contents[i]) : i \in ids}
  BY DEF Init
<1>2. PICK contents \in [ids -> Events] :
            audit_logs = {LegacyRow(i, contents[i]) : i \in ids}
  BY <1>1
<1>3. \A r \in audit_logs : /\ r.id \in Ids /\ r.event \in Events
                            /\ r.created_at \in Int /\ r.hash = NULL
  BY <1>2, LedgerAssumption DEF LegacyRow, Row
<1>4. writer \in [Writers -> [step : {"idle", "select", "insert"}, id : Int,
                               event : Events \cup {NULL}, created_at : Int,
                               last : {Genesis} \cup StoredHashes]]
  BY DEF Init, Idle
<1>5. \A w \in Writers : writer[w].step = "idle"
  BY DEF Init, Idle
<1> QED
  BY <1>3, <1>4, <1>5 DEF Init, LinkInv, TypeOK, LinksResolve

\* A CreateAuditLog call that fails, at whichever statement, keeps LinkInv.
LEMMA ReturnErrorKeepsLinks ==
    ASSUME LinkInv, NEW w \in Writers, writer[w].step # "idle", ReturnError(w)
    PROVE  LinkInv'
<1>1. writer[w].id \in Ids
  BY DEF LinkInv, TypeOK
<1> QED
  BY <1>1 DEF LinkInv, TypeOK, LinksResolve, StoredHashes, ReturnError, Idle, Genesis

\* Every step keeps LinkInv.
LEMMA LinkInvStep == LinkInv /\ [Next]_vars => LinkInv'
<1> SUFFICES ASSUME LinkInv, [Next]_vars PROVE LinkInv'
  OBVIOUS
<1> USE DEF LinkInv
<1>1. ASSUME NEW w \in Writers, NEW event \in Events, Record(w, event)
      PROVE  LinkInv'
  <2>1. PICK id \in Ids \ UsedIds :
          writer' = [writer EXCEPT ![w] = [step |-> "select", id |-> id, event |-> event,
                                           created_at |-> clock', last |-> Genesis]]
    BY <1>1 DEF Record
  <2>2. clock' \in Int
    BY <1>1, LedgerAssumption DEF Record
  <2>3. id \in Int
    BY LedgerAssumption
  <2> QED
    BY <1>1, <2>1, <2>2, <2>3 DEF Record, TypeOK, LinksResolve, StoredHashes
<1>2. ASSUME NEW w \in Writers, SelectLastHash(w)
      PROVE  LinkInv'
  <2>1. PICK h \in {Genesis} \cup StoredHashes :
          writer' = [writer EXCEPT ![w].step = "insert", ![w].last = h]
    BY <1>2 DEF SelectLastHash, StoredHashes
  <2>2. UNCHANGED <<audit_logs, clock, lost, serial, StoredHashes>> /\ writer[w].step = "select"
    BY <1>2 DEF SelectLastHash, StoredHashes
  <2>3. writer' \in [Writers -> [step : {"idle", "select", "insert"}, id : Int,
                                 event : Events \cup {NULL}, created_at : Int,
                                 last : {Genesis} \cup StoredHashes']]
    BY <2>1, <2>2 DEF TypeOK
  <2>4. \A v \in Writers : writer'[v].step # "idle"
            => writer'[v].id \in Ids /\ writer'[v].event \in Events
    BY <2>1, <2>2 DEF TypeOK
  <2> QED
    BY <2>2, <2>3, <2>4 DEF TypeOK, LinksResolve
<1>3. ASSUME NEW w \in Writers, ScanError(w)
      PROVE  LinkInv'
  BY <1>3, ReturnErrorKeepsLinks DEF ScanError
<1>4. ASSUME NEW w \in Writers, InsertEntry(w)
      PROVE  LinkInv'
  <2> DEFINE new == Row(writer[w].id, writer[w].event, writer[w].created_at, writer[w].last,
                        Digest(writer[w].last, writer[w].event, writer[w].created_at))
  <2>1. audit_logs' = audit_logs \cup {new}
    BY <1>4 DEF InsertEntry
  <2>2. /\ new.id \in Ids /\ new.event \in Events /\ new.created_at \in Int
        /\ new.prev_hash \in {Genesis} \cup StoredHashes
        /\ new.hash = Digest(new.prev_hash, new.event, new.created_at)
    BY <1>4 DEF InsertEntry, TypeOK, Row
  <2> HIDE DEF new
  <2>3. StoredHashes \subseteq StoredHashes'
    BY <2>1 DEF StoredHashes
  <2>4. writer' \in [Writers -> [step : {"idle", "select", "insert"}, id : Int,
                                 event : Events \cup {NULL}, created_at : Int,
                                 last : {Genesis} \cup StoredHashes']]
    BY <1>4, <2>3 DEF InsertEntry, TypeOK, Idle
  <2>5. \A v \in Writers : writer'[v].step # "idle"
            => writer'[v].id \in Ids /\ writer'[v].event \in Events
    BY <1>4 DEF InsertEntry, TypeOK, Idle
  <2>6. TypeOK'
    BY <1>4, <2>1, <2>2, <2>4, <2>5 DEF TypeOK, InsertEntry
  <2>7. LinksResolve'
    BY <2>1, <2>2, <2>3 DEF LinksResolve
  <2> QED
    BY <2>6, <2>7
<1>5. ASSUME NEW w \in Writers, StatementFails(w)
      PROVE  LinkInv'
  BY <1>5, ReturnErrorKeepsLinks DEF StatementFails
<1>6. CASE UNCHANGED vars
  BY <1>6 DEF vars, TypeOK, LinksResolve, StoredHashes
<1> QED
  BY <1>1, <1>2, <1>3, <1>4, <1>5, <1>6 DEF Next

\* CreateAuditLog's variables keep their types.
THEOREM LedgerTypeCorrect == Spec => []TypeOK
<1>1. Spec => []LinkInv
  BY LinkInvInit, LinkInvStep, PTL DEF Spec
<1> QED
  BY <1>1, PTL DEF LinkInv

\* However many handlers record at once, whatever the clock does and whichever
\* statements fail, an entry carries the hash of its contents and chains to the
\* empty string or to a stored entry (CreateAuditLog, repositories.go).
THEOREM LinksNeverDangle == Spec => []LinksResolve
<1>1. Spec => []LinkInv
  BY LinkInvInit, LinkInvStep, PTL DEF Spec
<1> QED
  BY <1>1, PTL DEF LinkInv

(***************************************************************************)
(* Serial use keeps the chain whole.  SerialChain is not inductive: a      *)
(* writer between its two statements must also be the only one, hold the   *)
(* hash of what still is the newest entry, and an instant later than every *)
(* stored one.                                                             *)
(***************************************************************************)
HoldsNewest(w) ==
    \/ audit_logs = {} /\ writer[w].last = Genesis
    \/ \E q \in audit_logs : IsNewest(q, audit_logs) /\ writer[w].last = q.hash

Chained ==
    /\ Unbroken
    /\ \A r \in audit_logs : r.created_at <= clock
    /\ \A w \in Writers : writer[w].step # "idle" =>
            /\ writer[w].created_at = clock
            /\ \A r \in audit_logs : r.created_at < clock
            /\ writer[w].step = "insert" => HoldsNewest(w)
            /\ \A v \in Writers \ {w} : writer[v].step = "idle"

SerialInv == LinkInv /\ (serial => Chained)

\* An error leaves the table as it is and the writer idle.
LEMMA ReturnErrorKeepsChain ==
    ASSUME LinkInv, Chained, NEW w \in Writers, writer[w].step # "idle", ReturnError(w)
    PROVE  Chained'
<1>1. \A v \in Writers : writer'[v].step = "idle"
  BY DEF ReturnError, Chained, LinkInv, TypeOK, Idle
<1>2. UNCHANGED <<audit_logs, clock>>
  BY DEF ReturnError
<1>3. Unbroken'
  BY <1>2 DEF Chained, Unbroken, Older, IsNewest
<1> QED
  BY <1>1, <1>2, <1>3 DEF Chained

\* Every step that leaves the history serial keeps the chain.
LEMMA ChainedStep ==
    ASSUME LinkInv, LinkInv', serial', serial => Chained, [Next]_vars
    PROVE  Chained'
<1>0. serial /\ Chained
  BY DEF Next, Record, SelectLastHash, ScanError, InsertEntry, StatementFails, ReturnError, vars
<1>1. ASSUME NEW w \in Writers, NEW event \in Events, Record(w, event)
      PROVE  Chained'
  <2>1. UNCHANGED audit_logs /\ \A v \in Writers : writer[v].step = "idle"
    BY <1>1 DEF Record
  <2>2. clock' > clock /\ clock \in Int /\ clock' \in Int
    BY <1>1 DEF Record, LinkInv, TypeOK
  <2>3. \A r \in audit_logs' : r.created_at < clock'
    BY <1>0, <2>1, <2>2 DEF Chained, LinkInv, TypeOK
  <2>4. /\ writer'[w].created_at = clock' /\ writer'[w].step = "select"
        /\ \A v \in Writers \ {w} : writer'[v].step = "idle"
    BY <1>1, <2>1 DEF Record, LinkInv, TypeOK
  <2>5. Unbroken'
    BY <1>0, <2>1 DEF Chained, Unbroken, Older, IsNewest
  <2> QED
    BY <2>1, <2>2, <2>3, <2>4, <2>5 DEF Chained, LinkInv, TypeOK
<1>2. ASSUME NEW w \in Writers, SelectLastHash(w)
      PROVE  Chained'
  <2>1. UNCHANGED <<audit_logs, clock>> /\ writer[w].step = "select"
    BY <1>2 DEF SelectLastHash
  <2>2. /\ writer'[w].created_at = clock
        /\ \A v \in Writers \ {w} : writer'[v].step = "idle"
    BY <1>0, <1>2, <2>1 DEF SelectLastHash, Chained, LinkInv, TypeOK
  <2>3. HoldsNewest(w)'
    <3>1. CASE audit_logs = {} /\ writer' = [writer EXCEPT ![w].step = "insert",
                                                           ![w].last = Genesis]
      <4>1. writer'[w].last = Genesis
        BY <3>1 DEF LinkInv, TypeOK
      <4> QED
        BY <2>1, <3>1, <4>1 DEF HoldsNewest
    <3>2. ASSUME NEW r \in audit_logs, IsNewest(r, audit_logs),
                 writer' = [writer EXCEPT ![w].step = "insert", ![w].last = r.hash]
          PROVE  HoldsNewest(w)'
      <4>1. writer'[w].last = r.hash
        BY <3>2 DEF LinkInv, TypeOK
      <4>2. IsNewest(r, audit_logs)'
        BY <2>1, <3>2 DEF IsNewest
      <4> QED
        BY <2>1, <4>1, <4>2 DEF HoldsNewest
    <3> QED
      BY <1>2, <3>1, <3>2 DEF SelectLastHash
  <2>4. Unbroken'
    BY <1>0, <2>1 DEF Chained, Unbroken, Older, IsNewest
  <2>5. \A r \in audit_logs' : r.created_at < clock'
    BY <1>0, <2>1 DEF Chained
  <2> QED
    BY <1>0, <2>1, <2>2, <2>3, <2>4, <2>5 DEF Chained
<1>3. ASSUME NEW w \in Writers, ScanError(w)
      PROVE  Chained'
  BY <1>0, <1>3, ReturnErrorKeepsChain DEF ScanError
<1>4. ASSUME NEW w \in Writers, InsertEntry(w)
      PROVE  Chained'
  <2>0. PICK new :
          new = Row(writer[w].id, writer[w].event, writer[w].created_at, writer[w].last,
                    Digest(writer[w].last, writer[w].event, writer[w].created_at))
    OBVIOUS
  <2>1. audit_logs' = audit_logs \cup {new} /\ UNCHANGED clock /\ writer[w].step = "insert"
    BY <1>4, <2>0 DEF InsertEntry
  <2>2. /\ new.created_at = clock /\ new.prev_hash = writer[w].last /\ new.id \in Int
        /\ new.hash = Digest(new.prev_hash, new.event, new.created_at)
    BY <1>0, <2>0, <2>1 DEF Chained, LinkInv, TypeOK, Row
  <2>3. \A v \in Writers : writer'[v].step = "idle"
    BY <1>0, <1>4, <2>1 DEF InsertEntry, Chained, LinkInv, TypeOK, Idle
  <2>4. /\ clock \in Int
        /\ \A r \in audit_logs : r.created_at < clock /\ r.created_at \in Int
    BY <1>0, <2>1 DEF Chained, LinkInv, TypeOK
  <2>5. Older(new)' = audit_logs
    BY <2>1, <2>2, <2>4 DEF Older, Newer
  <2>6. ASSUME NEW r \in audit_logs PROVE Older(r)' = Older(r)
    BY <2>1, <2>2, <2>4 DEF Older, Newer
  <2>7. ASSUME NEW r \in audit_logs'
        PROVE  /\ r.hash = Digest(r.prev_hash, r.event, r.created_at)
               /\ \/ Older(r)' = {} /\ r.prev_hash = Genesis
                  \/ \E q \in audit_logs' : /\ IsNewest(q, Older(r)')
                                            /\ r.prev_hash = q.hash
    <3>1. CASE r = new
      <4>1. r.hash = Digest(r.prev_hash, r.event, r.created_at)
        BY <2>2, <3>1
      <4>2. HoldsNewest(w)
        BY <1>0, <2>1 DEF Chained
      <4>3. Older(r)' = audit_logs /\ r.prev_hash = writer[w].last
        BY <2>2, <2>5, <3>1
      <4> QED
        BY <2>1, <4>1, <4>2, <4>3 DEF HoldsNewest
    <3>2. CASE r \in audit_logs
      BY <1>0, <2>1, <2>6, <3>2 DEF Chained, Unbroken
    <3> QED
      BY <2>1, <3>1, <3>2
  <2>8. Unbroken'
    BY <2>7 DEF Unbroken, IsNewest
  <2>9. \A r \in audit_logs' : r.created_at <= clock'
    BY <2>1, <2>2, <2>4
  <2> QED
    BY <2>3, <2>8, <2>9 DEF Chained
<1>5. ASSUME NEW w \in Writers, StatementFails(w)
      PROVE  Chained'
  BY <1>0, <1>5, ReturnErrorKeepsChain DEF StatementFails
<1>6. CASE UNCHANGED vars
  <2>1. UNCHANGED <<audit_logs, writer, clock>>
    BY <1>6 DEF vars
  <2>2. Unbroken'
    BY <1>0, <2>1 DEF Chained, Unbroken, Older, IsNewest
  <2>3. \A w \in Writers : HoldsNewest(w) => HoldsNewest(w)'
    BY <2>1 DEF HoldsNewest, IsNewest
  <2> QED
    BY <1>0, <2>1, <2>2, <2>3 DEF Chained
<1> QED
  BY <1>1, <1>2, <1>3, <1>4, <1>5, <1>6 DEF Next

\* As long as handlers recorded one after the other at increasing instants, on
\* a table without legacy rows, the entries form one unbroken chain in the order
\* of their timestamps, whichever statements failed (CreateAuditLog).
THEOREM SerialUseKeepsChain == Spec => []SerialChain
<1>1. Init => SerialInv
  <2> SUFFICES ASSUME Init PROVE SerialInv
    OBVIOUS
  <2>1. serial => audit_logs = {}
    BY DEF Init
  <2>2. \A w \in Writers : writer[w].step = "idle"
    BY DEF Init, Idle
  <2> QED
    BY <2>1, <2>2, LinkInvInit DEF SerialInv, Chained, Unbroken
<1>2. SerialInv /\ [Next]_vars => SerialInv'
  BY LinkInvStep, ChainedStep DEF SerialInv
<1>3. SerialInv => SerialChain
  BY DEF SerialInv, Chained, SerialChain
<1> QED
  BY <1>1, <1>2, <1>3, PTL DEF Spec

(***************************************************************************)
(* A serial log passes the check.  Besides the chain this needs that the   *)
(* entries are finitely many, so that a listing as long as the table lists *)
(* all of it, and at distinct instants, so that it can list it in one      *)
(* order only.                                                             *)
(***************************************************************************)
DistinctInstants == \A q, r \in audit_logs : q.created_at = r.created_at => q = r

ListedInv == SerialInv /\ (serial => IsFiniteSet(audit_logs) /\ DistinctInstants)

\* Every step keeps a serial log finite, with one entry for an instant.
LEMMA ListedStep == ListedInv /\ [Next]_vars => ListedInv'
<1> SUFFICES ASSUME ListedInv, [Next]_vars PROVE ListedInv'
  OBVIOUS
<1>1. SerialInv'
  BY LinkInvStep, ChainedStep DEF ListedInv, SerialInv
<1>2. ASSUME serial' PROVE serial
  BY <1>2 DEF Next, Record, SelectLastHash, ScanError, InsertEntry, StatementFails, ReturnError, vars
<1>3. ASSUME serial, audit_logs' = audit_logs
      PROVE  IsFiniteSet(audit_logs') /\ DistinctInstants'
  BY <1>3 DEF ListedInv, DistinctInstants
<1>4. ASSUME serial, NEW w \in Writers, InsertEntry(w)
      PROVE  IsFiniteSet(audit_logs') /\ DistinctInstants'
  <2>1. PICK new : /\ audit_logs' = audit_logs \cup {new}
                   /\ new.created_at = writer[w].created_at
    <3> DEFINE n == Row(writer[w].id, writer[w].event, writer[w].created_at, writer[w].last,
                        Digest(writer[w].last, writer[w].event, writer[w].created_at))
    <3>1. audit_logs' = audit_logs \cup {n} /\ n.created_at = writer[w].created_at
      BY <1>4 DEF InsertEntry, Row
    <3> HIDE DEF n
    <3> QED
      BY <3>1
  <2>2. \A r \in audit_logs : r.created_at < clock /\ r.created_at \in Int
    BY <1>4 DEF InsertEntry, ListedInv, SerialInv, Chained, LinkInv, TypeOK
  <2>3. new.created_at = clock /\ clock \in Int
    BY <1>4, <2>1 DEF InsertEntry, ListedInv, SerialInv, Chained, LinkInv, TypeOK
  <2>4. IsFiniteSet(audit_logs')
    BY <1>4, <2>1, FS_AddElement DEF ListedInv
  <2>5. DistinctInstants'
    BY <1>4, <2>1, <2>2, <2>3 DEF ListedInv, DistinctInstants
  <2> QED
    BY <2>4, <2>5
<1>5. (\E w \in Writers : InsertEntry(w)) \/ audit_logs' = audit_logs
  BY DEF Next, Record, SelectLastHash, ScanError, StatementFails, ReturnError, vars
<1> QED
  BY <1>1, <1>2, <1>3, <1>4, <1>5 DEF ListedInv

\* A listing of a finite table that is not cut off has every entry.
LEMMA ListingComplete ==
    ASSUME IsFiniteSet(audit_logs), Cardinality(audit_logs) <= MaxLimit,
           NEW s \in Listings(MaxLimit)
    PROVE  \E n \in Nat : /\ s \in [1 .. n -> audit_logs]
                          /\ \A i, j \in 1 .. n : i < j => s[i].created_at >= s[j].created_at
                          /\ \A i, j \in 1 .. n : i < j => s[i] # s[j]
                          /\ \A r \in audit_logs : \E i \in 1 .. n : s[i] = r
<1> DEFINE n == Cardinality(audit_logs)
<1>1. n \in Nat /\ MaxLimit \in Nat /\ DefaultLimit \in Nat
  BY FS_CardinalityType, LedgerAssumption DEF LedgerAssumption
<1> HIDE DEF n
<1>2. n <= MaxLimit
  BY DEF n
<1>3. n = (IF n < EffectiveLimit(MaxLimit) THEN n ELSE EffectiveLimit(MaxLimit))
  BY <1>1, <1>2 DEF EffectiveLimit
<1>4. /\ s \in [1 .. n -> audit_logs]
      /\ \A i, j \in 1 .. n : i < j => s[i] # s[j] /\ s[i].created_at >= s[j].created_at
  BY <1>3 DEF Listings, n
<1>5. \A i, j \in 1 .. n : s[i] = s[j] => i = j
  BY <1>1, <1>4
<1>6. s \in Injection(1 .. n, audit_logs)
  BY <1>4, <1>5 DEF Injection, IsInjective
<1>7. Cardinality(1 .. n) = n
  BY <1>1, FS_Interval
<1>8. s \in Surjection(1 .. n, audit_logs)
  BY <1>6, <1>7, FS_Injection DEF n
<1>9. \A r \in audit_logs : \E i \in 1 .. n : s[i] = r
  BY <1>8 DEF Surjection
<1> QED
  BY <1>1, <1>4, <1>9

\* In a listing of the whole log the entry an entry chains to is the next one.
LEMMA CompleteListingVerifies ==
    ASSUME Unbroken, DistinctInstants, \A r \in audit_logs : r.created_at \in Int /\ r.id \in Int,
           NEW n \in Nat, NEW s \in [1 .. n -> audit_logs],
           \A i, j \in 1 .. n : i < j => s[i].created_at >= s[j].created_at,
           \A i, j \in 1 .. n : i < j => s[i] # s[j],
           \A r \in audit_logs : \E i \in 1 .. n : s[i] = r
    PROVE  ChainVerifies(s)
<1>1. \A i, j \in 1 .. n : i < j => s[i].created_at > s[j].created_at
  BY DEF DistinctInstants
<1>2. \A r \in audit_logs : r.hash = Digest(r.prev_hash, r.event, r.created_at) /\ r.hash # NULL
  <2>1. \A r \in audit_logs : r.hash = Digest(r.prev_hash, r.event, r.created_at)
    BY DEF Unbroken
  <2>2. ASSUME NEW a, NEW b, NEW c PROVE <<a, b, c>> # NULL
    <3>1. Len(<<a, b, c>>) = 3
      OBVIOUS
    <3>2. Len(NULL) = 1
      BY DEF NULL
    <3> QED
      BY <3>1, <3>2
  <2>3. \A a, b, c : Digest(a, b, c) # NULL
    BY <2>2 DEF Digest
  <2> QED
    BY <2>1, <2>3
<1>3. \A r \in audit_logs, j \in 1 .. n : s[j] \in Older(r) => s[j].created_at < r.created_at
  BY DEF Older, Newer, DistinctInstants
<1>4. ASSUME NEW i \in 1 .. n
      PROVE  /\ s[i].prev_hash = IF i + 1 \in 1 .. n THEN s[i + 1].hash ELSE Genesis
             /\ AsString(s[i].prev_hash) = s[i].prev_hash
             /\ AsString(s[i].hash) = s[i].hash
  <2>0. s[i] \in audit_logs
    OBVIOUS
  <2>1. \/ Older(s[i]) = {} /\ s[i].prev_hash = Genesis
        \/ \E q \in audit_logs : IsNewest(q, Older(s[i])) /\ s[i].prev_hash = q.hash
    BY <2>0 DEF Unbroken
  <2>2. AsString(s[i].hash) = s[i].hash
    BY <1>2, <2>0 DEF AsString
  <2>3. CASE i + 1 \in 1 .. n
    <3>1. s[i + 1] \in audit_logs /\ s[i].created_at > s[i + 1].created_at
      BY <1>1, <2>3
    <3>2. s[i + 1] \in Older(s[i])
      BY <3>1 DEF Older, Newer
    <3>3. PICK q \in audit_logs : IsNewest(q, Older(s[i])) /\ s[i].prev_hash = q.hash
      BY <2>1, <3>2
    <3>4. PICK j \in 1 .. n : s[j] = q
      BY <3>3
    <3>5. s[j] \in Older(s[i]) /\ s[j].created_at < s[i].created_at
      BY <1>3, <2>0, <3>3, <3>4 DEF IsNewest
    <3>6. ~(j <= i)
      BY <1>1, <2>0, <3>5
    <3>7. ASSUME j > i + 1 PROVE FALSE
      <4>1. s[i + 1].created_at > s[j].created_at /\ s[i + 1] # q
        BY <1>1, <2>3, <3>4, <3>7
      <4>2. Newer(q, s[i + 1])
        BY <3>2, <3>3, <4>1 DEF IsNewest
      <4>3. s[i + 1].created_at \in Int /\ q.created_at \in Int
        BY <3>1, <3>3
      <4> QED
        BY <3>4, <4>1, <4>2, <4>3 DEF Newer
    <3>8. j = i + 1
      BY <3>6, <3>7
    <3>9. s[i].prev_hash = s[i + 1].hash /\ s[i + 1].hash # NULL
      BY <1>2, <3>1, <3>3, <3>4, <3>8
    <3> QED
      BY <2>2, <2>3, <3>9 DEF AsString
  <2>4. CASE i + 1 \notin 1 .. n
    <3>1. ASSUME NEW q \in Older(s[i]) PROVE FALSE
      <4>1. q \in audit_logs
        BY DEF Older
      <4>2. PICK j \in 1 .. n : s[j] = q
        BY <4>1
      <4>3. s[j].created_at < s[i].created_at /\ s[j].created_at \in Int /\ s[i].created_at \in Int
        BY <1>3, <2>0, <3>1, <4>1, <4>2
      <4>4. ~(j <= i)
        BY <1>1, <4>3
      <4> QED
        BY <2>4, <4>4
    <3>2. s[i].prev_hash = Genesis
      BY <2>1, <3>1 DEF IsNewest
    <3> QED
      BY <2>2, <2>4, <3>2 DEF AsString
  <2> QED
    BY <2>3, <2>4
<1>5. DOMAIN s = 1 .. n
  OBVIOUS
<1>6. ASSUME NEW i \in 1 .. n
      PROVE  LET prev == AsString(s[i].prev_hash)
             IN /\ prev = IF i + 1 \in DOMAIN s THEN AsString(s[i + 1].hash) ELSE Genesis
                /\ AsString(s[i].hash) = Digest(prev, s[i].event, s[i].created_at)
  <2>1. s[i].hash = Digest(s[i].prev_hash, s[i].event, s[i].created_at)
    BY <1>2
  <2>2. i + 1 \in 1 .. n => AsString(s[i + 1].hash) = s[i + 1].hash
    BY <1>4
  <2> QED
    BY <1>4, <1>5, <2>1, <2>2
<1> QED
  BY <1>5, <1>6 DEF ChainVerifies

\* A log that handlers wrote one after the other, and that fits in the listing,
\* passes AuditChainCheck: ListAuditLogs gives it in the order it was chained in.
THEOREM SerialLogsVerify == Spec => []SerialVerifies
<1>1. Init => ListedInv
  <2> SUFFICES ASSUME Init PROVE ListedInv
    OBVIOUS
  <2>1. serial => audit_logs = {}
    BY DEF Init
  <2>2. \A w \in Writers : writer[w].step = "idle"
    BY DEF Init, Idle
  <2>3. SerialInv
    BY <2>1, <2>2, LinkInvInit DEF SerialInv, Chained, Unbroken
  <2> QED
    BY <2>1, <2>3, FS_EmptySet DEF ListedInv, DistinctInstants
<1>2. ListedInv /\ [Next]_vars => ListedInv'
  BY ListedStep
<1>3. ListedInv => SerialVerifies
  <2> SUFFICES ASSUME ListedInv, serial, Cardinality(audit_logs) <= MaxLimit,
                      NEW s \in Listings(MaxLimit)
               PROVE  ChainVerifies(s)
    BY DEF SerialVerifies, NoFalseAlarm
  <2>1. IsFiniteSet(audit_logs) /\ DistinctInstants /\ Unbroken
    BY DEF ListedInv, SerialInv, Chained
  <2>2. \A r \in audit_logs : r.created_at \in Int /\ r.id \in Int
    BY LedgerAssumption DEF ListedInv, SerialInv, LinkInv, TypeOK, LedgerAssumption
  <2>3. PICK n \in Nat : /\ s \in [1 .. n -> audit_logs]
                         /\ \A i, j \in 1 .. n : i < j => s[i].created_at >= s[j].created_at
                         /\ \A i, j \in 1 .. n : i < j => s[i] # s[j]
                         /\ \A r \in audit_logs : \E i \in 1 .. n : s[i] = r
    BY <2>1, ListingComplete
  <2> QED
    BY <2>1, <2>2, <2>3, CompleteListingVerifies
<1> QED
  BY <1>1, <1>2, <1>3, PTL DEF Spec
=============================================================================
