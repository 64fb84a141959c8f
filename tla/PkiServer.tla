------------------------------- MODULE PkiServer -------------------------------
(***************************************************************************)
(* The online IronRoot server: its HTTP write handlers (enroll, request,   *)
(* renew and revoke), the SQLite tables they share with the admin CLI, and *)
(* the process that serves them (start, graceful shutdown, crash).         *)
(*                                                                         *)
(* A request occupies a slot (a net/http goroutine).  Its handler first    *)
(* waits for the body and then advances one SQL statement at a time: the   *)
(* store has a single connection, so a statement is atomic, but no handler *)
(* opens a transaction, so everything else may happen between two of its   *)
(* statements.  A statement may fail (a cancelled request context,         *)
(* SQLITE_BUSY from the admin process) and then changes nothing.  An error *)
(* response frees the slot.                                                *)
(*                                                                         *)
(* Times are natural numbers of an arbitrary unit.  A hostname stands for  *)
(* its case-folding class.  None is SQL's NULL, Go's nil and the empty     *)
(* string.                                                                 *)
(***************************************************************************)
EXTENDS Integers, FiniteSets

CONSTANTS
    Slots,          \* concurrent requests
    Tokens,         \* ids (and secrets) of bootstrap tokens
    Hosts,          \* hostnames
    EnrollmentIds,  \* UUIDs handed out by ValidateAndEnroll
    Serials,        \* certificate serial numbers
    CAs,            \* fingerprints of intermediates the server may load
    None,           \* absent row, NULL column, empty string
    TTLs,           \* --ttl values of create-token
    Lifetime,       \* pki.default_lifetime
    RenewBefore,    \* pki.renew_before
    BackDate,       \* how far SignCSR moves notBefore into the past
    MayFail,        \* whether SQL statements may fail
    MaxClock,       \* bound on the clock
    MaxRequests,    \* bound on the number of requests received
    MaxRestarts     \* bound on the number of times the server starts again

ASSUME ConstantsAssumption ==
    /\ None \notin Tokens \cup Hosts \cup EnrollmentIds \cup Serials \cup CAs
    /\ TTLs \subseteq Int
    /\ Lifetime \in Nat /\ RenewBefore \in Nat /\ BackDate \in Nat
    /\ MayFail \in BOOLEAN
    /\ MaxClock \in Nat /\ MaxRequests \in Nat /\ MaxRestarts \in Nat

VARIABLES
    clock,
    bootstrap_tokens,      \* table: token id -> row
    enrollments,           \* table: enrollment id -> row
    issued_certificates,   \* table: serial -> row
    revoked_certificates,  \* table: the serials it lists
    ca_config,             \* table: the ca_ids it lists (status always active)
    audit_logs,            \* table: <<action, target>> of its rows
    server,                \* "up", "draining" (Shutdown called) or "down"
    authority,             \* ca_id of the loaded intermediate, None if disabled
    req,                   \* the handler running in each slot
    replies,               \* 2xx responses delivered: <<op, enrollment id or serial>>
    received,              \* requests received so far
    restarts               \* times the server started again

tables == <<bootstrap_tokens, enrollments, issued_certificates,
            revoked_certificates, ca_config, audit_logs>>
process == <<clock, server, authority, replies, received, restarts>>
vars == <<clock, tables, server, authority, req, replies, received, restarts>>

-----------------------------------------------------------------------------
(* Rows and requests                                                       *)

TokenRow == [hostname : Hosts, expires_at : Int, revoked : BOOLEAN]

\* dead is history: the tokens that were already revoked or expired when the
\* enrolling request's body arrived.
EnrollmentRow == [hostname : Hosts, token_id : Tokens, dead : SUBSET Tokens]

\* via is history: the endpoint the certificate was signed through.
CertificateRow == [ca_id : CAs, enrollment_id : EnrollmentIds \cup {None},
                   subject : Hosts \cup EnrollmentIds \cup {None},
                   not_after : Int, revoked : BOOLEAN,
                   via : {"issue", "renew"}]

ASSUME NoneIsNoRow == None \notin TokenRow \cup EnrollmentRow \cup CertificateRow

\* The local state of a handler between two statements.  serial is the serial
\* the client sent until SignCSR replaces it by the new certificate's; dead is
\* the history EnrollmentRow keeps.
Request == [op         : {"none", "enroll", "issue", "renew", "revoke"},
            step       : {"idle", "decode", "lookup", "insert", "sign", "ca", "store",
                          "update", "audit", "reply"},
            hostname   : Hosts \cup {None},
            token      : Tokens \cup {None},
            enrollment : EnrollmentIds \cup {None},
            serial     : Serials \cup {None},
            not_after  : Int,
            dead       : SUBSET Tokens]

Idle == [op |-> "none", step |-> "idle", hostname |-> None, token |-> None,
         enrollment |-> None, serial |-> None, not_after |-> 0, dead |-> {}]

TypeOK ==
    /\ clock \in Nat
    /\ bootstrap_tokens \in [Tokens -> TokenRow \cup {None}]
    /\ enrollments \in [EnrollmentIds -> EnrollmentRow \cup {None}]
    /\ issued_certificates \in [Serials -> CertificateRow \cup {None}]
    /\ revoked_certificates \subseteq Serials
    /\ ca_config \subseteq CAs
    /\ audit_logs \subseteq ({"enrollment.created"} \X EnrollmentIds)
            \cup ({"certificate.issued", "certificate.renewed",
                   "certificate.revoked"} \X Serials)
    /\ server \in {"up", "draining", "down"}
    /\ authority \in CAs \cup {None}
    /\ req \in [Slots -> Request]
    /\ replies \subseteq ({"enroll"} \X EnrollmentIds)
            \cup ({"issue", "renew", "revoke"} \X Serials)
    /\ received \in Nat
    /\ restarts \in Nat

-----------------------------------------------------------------------------
(* What the handlers read                                                  *)

\* Mutation: the revoked_at column is not looked at.
TokenValidIgnoringRevocation(t, h) ==
    /\ bootstrap_tokens[t] # None
    /\ ~(clock > bootstrap_tokens[t].expires_at)
    /\ bootstrap_tokens[t].hostname = h

\* The condition under which ValidateAndEnroll accepts a token for a host.
TokenValid(t, h) ==
    /\ bootstrap_tokens[t] # None
    /\ ~bootstrap_tokens[t].revoked
    /\ ~(clock > bootstrap_tokens[t].expires_at)
    /\ bootstrap_tokens[t].hostname = h

\* The tokens no request that arrives now may enroll with.
DeadTokens == {t \in Tokens : \/ bootstrap_tokens[t] = None
                              \/ bootstrap_tokens[t].revoked
                              \/ clock > bootstrap_tokens[t].expires_at}

\* renewCertificate refuses a certificate that is further from its end.
InsideRenewalWindow(x) == issued_certificates[x].not_after - clock <= RenewBefore

\* Serials are 128-bit random numbers and enrollment ids random UUIDs: nobody
\* names one before the response that carries it.  Whether a serial is already
\* stored is left to the PRIMARY KEY of the table.
UnpublishedSerials == {req[x].serial : x \in {y \in Slots : req[y].step \in {"ca", "store"}}}

UnnamedSerials == {x \in Serials : \A y \in Slots : req[y].serial # x}

FreshEnrollmentIds ==
    {e \in EnrollmentIds :
        /\ enrollments[e] = None
        /\ \A y \in Slots : req[y].enrollment # e
        /\ \A x \in Serials : issued_certificates[x] # None
                                => issued_certificates[x].enrollment_id # e}

-----------------------------------------------------------------------------
(* Receiving a request, and its body                                       *)

\* A slot is free and the listener still accepts connections: the header has
\* been read, and the handler of its path begins.
Receive(s, op, old) ==
    /\ server = "up"
    /\ req[s] = Idle
    /\ received < MaxRequests
    /\ req' = [req EXCEPT ![s] = [Idle EXCEPT !.op = op, !.step = "decode", !.serial = old]]
    /\ received' = received + 1
    /\ UNCHANGED <<clock, tables, server, authority, replies, restarts>>

\* Only a renewal's URL may name a serial, in ?serial=.
AcceptRequest(s) ==
    \/ \E op \in {"enroll", "issue", "revoke"} : Receive(s, op, None)
    \/ \E old \in {None} \cup (Serials \ UnpublishedSerials) : Receive(s, "renew", old)

\* decode: the body has come, which no timeout forces the client to send.
Decode(s, op, r) ==
    /\ req[s].op = op /\ req[s].step = "decode"
    /\ req' = [req EXCEPT ![s] = r]
    /\ UNCHANGED <<tables, process>>

EnrollRequest(s, t, h) ==
    Decode(s, "enroll", [req[s] EXCEPT !.step = "lookup", !.token = t,
                                       !.hostname = h, !.dead = DeadTokens])

CertificateRequest(s, e) ==
    Decode(s, "issue", [req[s] EXCEPT !.step = "lookup", !.enrollment = e])

\* The enrollment id may be anything, or blank.
RenewRequest(s, e) ==
    Decode(s, "renew", [req[s] EXCEPT !.enrollment = e,
                                      !.step = IF req[s].serial = None THEN "sign" ELSE "lookup"])

RevokeRequest(s, x) ==
    /\ x \notin UnpublishedSerials
    /\ Decode(s, "revoke", [req[s] EXCEPT !.step = "update", !.serial = x])

\* The connection breaks, the body is no JSON, or a field it needs is blank.
DecodeFails(s) ==
    /\ req[s].step = "decode"
    /\ req' = [req EXCEPT ![s] = Idle]
    /\ UNCHANGED <<tables, process>>

-----------------------------------------------------------------------------
(* The steps of a handler, one statement each                              *)

\* The handler in slot s is at this step of this operation.
At(s, op, step) == req[s].op = op /\ req[s].step = step

\* The handler goes on to another step, or answers with an error.
Goto(s, step) == req' = [req EXCEPT ![s].step = step]
Reject(s) == req' = [req EXCEPT ![s] = Idle]

\* ValidateAndEnroll: read the token row and compare it with the clock and the
\* request.  How often the token was used is not among the conditions.
ValidateToken(s) ==
    /\ At(s, "enroll", "lookup")
    /\ IF TokenValid(req[s].token, req[s].hostname) THEN Goto(s, "insert")
                                                    ELSE Reject(s)
    /\ UNCHANGED <<tables, process>>

\* Mutation: the hostname is left out of the row.
CreateEnrollmentWithoutHost(s) ==
    /\ At(s, "enroll", "insert")
    /\ \E e \in FreshEnrollmentIds :
        /\ enrollments' = [enrollments EXCEPT
              ![e] = [hostname |-> None, token_id |-> req[s].token, dead |-> req[s].dead]]
        /\ req' = [req EXCEPT ![s].step = "audit", ![s].enrollment = e]
    /\ UNCHANGED <<bootstrap_tokens, issued_certificates, revoked_certificates,
                   ca_config, audit_logs, process>>

\* Mutation: the error of the INSERT is dropped.
CreateEnrollmentDroppingError(s) ==
    /\ At(s, "enroll", "insert")
    /\ \E e \in FreshEnrollmentIds :
        req' = [req EXCEPT ![s].step = "audit", ![s].enrollment = e]
    /\ UNCHANGED <<tables, process>>

\* ValidateAndEnroll: INSERT INTO enrollments with a new UUID.
CreateEnrollment(s) ==
    /\ At(s, "enroll", "insert")
    /\ \E e \in FreshEnrollmentIds :
        /\ enrollments' = [enrollments EXCEPT
              ![e] = [hostname |-> req[s].hostname, token_id |-> req[s].token,
                      dead |-> req[s].dead]]
        /\ req' = [req EXCEPT ![s].step = "audit", ![s].enrollment = e]
    /\ UNCHANGED <<bootstrap_tokens, issued_certificates,
                   revoked_certificates, ca_config, audit_logs, process>>

\* requestCertificate: GetEnrollment.
GetEnrollment(s) ==
    /\ At(s, "issue", "lookup")
    /\ IF enrollments[req[s].enrollment] # None
       THEN req' = [req EXCEPT ![s].step = "sign",
                               ![s].hostname = enrollments[req[s].enrollment].hostname]
       ELSE Reject(s)
    /\ UNCHANGED <<tables, process>>

\* renewCertificate: GetIssuedCertificate of ?serial=.  Only a row that was
\* found can fail the window test; an unknown serial goes on to signing.
CheckRenewalWindow(s) ==
    /\ At(s, "renew", "lookup")
    /\ IF issued_certificates[req[s].serial] # None /\ ~InsideRenewalWindow(req[s].serial)
       THEN Reject(s) ELSE Goto(s, "sign")
    /\ UNCHANGED <<tables, process>>

\* SignCSR of the loaded authority.
SignCSR(s) ==
    /\ req[s].step = "sign"
    /\ authority # None
    /\ \E x \in UnnamedSerials :
        req' = [req EXCEPT ![s].step = "ca", ![s].serial = x,
                           ![s].not_after = clock - BackDate + Lifetime]
    /\ UNCHANGED <<tables, process>>

\* Mutation: the handler hangs when no authority is configured.
SignErrorUnlessDisabled(s) ==
    /\ req[s].step = "sign"
    /\ authority # None
    /\ Reject(s)
    /\ UNCHANGED <<tables, process>>

\* SignCSR fails: the CSR does not parse or verify, a DNS name is blank, or the
\* authority is the DisabledAuthority.
SignError(s) ==
    /\ req[s].step = "sign"
    /\ Reject(s)
    /\ UNCHANGED <<tables, process>>

\* Mutation: the row is only written into an empty table.
EnsureCAConfigOnce(s) ==
    /\ req[s].step = "ca"
    /\ ca_config' = IF ca_config = {} THEN {authority} ELSE ca_config
    /\ Goto(s, "store")
    /\ UNCHANGED <<bootstrap_tokens, enrollments, issued_certificates,
                   revoked_certificates, audit_logs, process>>

\* ensureCAConfig: upsert of the loaded intermediate.
EnsureCAConfig(s) ==
    /\ req[s].step = "ca"
    /\ ca_config' = ca_config \cup {authority}
    /\ Goto(s, "store")
    /\ UNCHANGED <<bootstrap_tokens, enrollments, issued_certificates,
                   revoked_certificates, audit_logs, process>>

\* Mutation: the subject is the enrollment's id here too.
IssuedCertificateOfRequest(s) ==
    [ca_id |-> authority, enrollment_id |-> req[s].enrollment, subject |-> req[s].enrollment,
     not_after |-> req[s].not_after, revoked |-> FALSE, via |-> req[s].op]

\* The row to be stored.  Its subject is the enrolled host, or, of a renewal, the
\* enrollment id the request carries.
IssuedCertificate(s) ==
    [ca_id |-> authority, enrollment_id |-> req[s].enrollment,
     subject |-> IF req[s].op = "issue" THEN req[s].hostname ELSE req[s].enrollment,
     not_after |-> req[s].not_after, revoked |-> FALSE, via |-> req[s].op]

\* StoreIssuedCertificate; the foreign key wants the ca_id in ca_config, the
\* primary key a serial that is not stored.
StoreIssuedCertificate(s) ==
    /\ req[s].step = "store"
    /\ IF authority \in ca_config /\ issued_certificates[req[s].serial] = None
       THEN /\ issued_certificates' =
                 [issued_certificates EXCEPT ![req[s].serial] = IssuedCertificate(s)]
            /\ Goto(s, "audit")
       ELSE Reject(s) /\ UNCHANGED issued_certificates
    /\ UNCHANGED <<bootstrap_tokens, enrollments, revoked_certificates,
                   ca_config, audit_logs, process>>

\* Mutation: the row of the list is written first.
MarkRevokedAfterListing(s) ==
    /\ At(s, "revoke", "update")
    /\ issued_certificates[req[s].serial] # None
    /\ revoked_certificates' = revoked_certificates \cup {req[s].serial}
    /\ Goto(s, "insert")
    /\ UNCHANGED <<bootstrap_tokens, enrollments, issued_certificates, ca_config,
                   audit_logs, process>>

\* RevokeCertificate, first statement: UPDATE issued_certificates.  No row with
\* this serial is not an error.
MarkRevoked(s) ==
    /\ At(s, "revoke", "update")
    /\ issued_certificates' = IF issued_certificates[req[s].serial] = None
                              THEN issued_certificates
                              ELSE [issued_certificates EXCEPT ![req[s].serial].revoked = TRUE]
    /\ Goto(s, "insert")
    /\ UNCHANGED <<bootstrap_tokens, enrollments, revoked_certificates,
                   ca_config, audit_logs, process>>

\* RevokeCertificate, second statement: INSERT OR REPLACE INTO
\* revoked_certificates; the foreign key wants an issued certificate.
InsertRevoked(s) ==
    /\ At(s, "revoke", "insert")
    /\ IF issued_certificates[req[s].serial] # None
       THEN /\ revoked_certificates' = revoked_certificates \cup {req[s].serial}
            /\ Goto(s, "audit")
       ELSE Reject(s) /\ UNCHANGED revoked_certificates
    /\ UNCHANGED <<bootstrap_tokens, enrollments, issued_certificates,
                   ca_config, audit_logs, process>>

\* What the handler reports to the audit log and to the client.
Subject(s) == IF req[s].op = "enroll" THEN req[s].enrollment ELSE req[s].serial

AuditAction(op) == CASE op = "enroll" -> "enrollment.created"
                     [] op = "issue"  -> "certificate.issued"
                     [] op = "renew"  -> "certificate.renewed"
                     [] op = "revoke" -> "certificate.revoked"

\* Audit.Record.
RecordAudit(s) ==
    /\ req[s].step = "audit"
    /\ audit_logs' = audit_logs \cup {<<AuditAction(req[s].op), Subject(s)>>}
    /\ Goto(s, "reply")
    /\ UNCHANGED <<bootstrap_tokens, enrollments, issued_certificates,
                   revoked_certificates, ca_config, process>>

\* Audit.Record when CreateAuditLog fails: the error only ends the span.
LoseAudit(s) ==
    /\ MayFail
    /\ req[s].step = "audit"
    /\ Goto(s, "reply")
    /\ UNCHANGED <<tables, process>>

\* writeJSON of the 2xx response.
Reply(s) ==
    /\ req[s].step = "reply"
    /\ replies' = replies \cup {<<req[s].op, Subject(s)>>}
    /\ req' = [req EXCEPT ![s] = Idle]
    /\ UNCHANGED <<clock, tables, server, authority, received, restarts>>

\* The client has gone before the response was written.
LoseReply(s) ==
    /\ req[s].step = "reply"
    /\ Reject(s)
    /\ UNCHANGED <<tables, process>>

\* Mutation: RevokeCertificate returns the error of its first statement only.
StatementFailsUnreported(s) ==
    /\ MayFail
    /\ req[s].step \in {"lookup", "insert", "ca", "store", "update"}
    /\ CASE At(s, "renew", "lookup") -> Goto(s, "sign")
         [] At(s, "revoke", "insert") -> Goto(s, "audit")
         [] OTHER -> Reject(s)
    /\ UNCHANGED <<tables, process>>

\* Mutation: a revocation whose second statement fails takes the first one back.
StatementFailsTakingBack(s) ==
    /\ MayFail
    /\ req[s].step \in {"lookup", "insert", "ca", "store", "update"}
    /\ IF At(s, "renew", "lookup") THEN Goto(s, "sign") ELSE Reject(s)
    /\ issued_certificates' =
         IF At(s, "revoke", "insert") /\ issued_certificates[req[s].serial] # None
         THEN [issued_certificates EXCEPT ![req[s].serial].revoked = FALSE]
         ELSE issued_certificates
    /\ UNCHANGED <<bootstrap_tokens, enrollments, revoked_certificates, ca_config,
                   audit_logs, process>>

\* A statement returns an error: the handler answers with it, except for the
\* renewal lookup, whose error is taken for "no such certificate".
StatementFails(s) ==
    /\ MayFail
    /\ req[s].step \in {"lookup", "insert", "ca", "store", "update"}
    /\ IF At(s, "renew", "lookup") THEN Goto(s, "sign") ELSE Reject(s)
    /\ UNCHANGED <<tables, process>>

HandlerStep(s) ==
    \/ ValidateToken(s) \/ CreateEnrollment(s)
    \/ GetEnrollment(s) \/ CheckRenewalWindow(s)
    \/ SignCSR(s) \/ SignError(s) \/ EnsureCAConfig(s) \/ StoreIssuedCertificate(s)
    \/ MarkRevoked(s) \/ InsertRevoked(s)
    \/ RecordAudit(s) \/ LoseAudit(s) \/ Reply(s) \/ LoseReply(s)
    \/ StatementFails(s)

-----------------------------------------------------------------------------
(* The admin CLI, a process of its own on the same database                *)

\* create-token: the secret is new, so no request carries it yet.
CreateToken(t, h, ttl) ==
    /\ bootstrap_tokens[t] = None
    /\ \A y \in Slots : req[y].token # t
    /\ bootstrap_tokens' = [bootstrap_tokens EXCEPT
          ![t] = [hostname |-> h, expires_at |-> clock + ttl, revoked |-> FALSE]]
    /\ UNCHANGED <<enrollments, issued_certificates, revoked_certificates,
                   ca_config, audit_logs, req, process>>

\* revoke-token; an unknown id is ErrNotFound and changes nothing.
RevokeToken(t) ==
    /\ bootstrap_tokens[t] # None
    /\ bootstrap_tokens' = [bootstrap_tokens EXCEPT ![t].revoked = TRUE]
    /\ UNCHANGED <<enrollments, issued_certificates, revoked_certificates,
                   ca_config, audit_logs, req, process>>

-----------------------------------------------------------------------------
(* The server process                                                      *)

\* SIGTERM or a failed listener: Shutdown stops accepting requests.
Shutdown ==
    /\ server = "up"
    /\ server' = "draining"
    /\ UNCHANGED <<clock, tables, authority, req, replies, received, restarts>>

\* Shutdown returns once the handlers have finished, and main returns.
Exit ==
    /\ server = "draining"
    /\ \A s \in Slots : req[s] = Idle
    /\ server' = "down"
    /\ UNCHANGED <<clock, tables, authority, req, replies, received, restarts>>

\* The process is killed, or Shutdown's ten seconds are over and main returns
\* with handlers still running: what they held in memory is gone.
Crash ==
    /\ server # "down"
    /\ server' = "down"
    /\ req' = [s \in Slots |-> Idle]
    /\ UNCHANGED <<clock, tables, authority, replies, received, restarts>>

\* main: Migrate leaves existing rows alone; LoadAuthority finds an
\* intermediate, possibly another than before, or issuance is disabled.
Start ==
    /\ server = "down"
    /\ restarts < MaxRestarts
    /\ restarts' = restarts + 1
    /\ server' = "up"
    /\ authority' \in CAs \cup {None}
    /\ UNCHANGED <<clock, tables, req, replies, received>>

Tick ==
    /\ clock < MaxClock
    /\ clock' = clock + 1
    /\ UNCHANGED <<tables, server, authority, req, replies, received, restarts>>

-----------------------------------------------------------------------------
Init ==
    /\ clock = 0
    /\ bootstrap_tokens = [t \in Tokens |-> None]
    /\ enrollments = [e \in EnrollmentIds |-> None]
    /\ issued_certificates = [x \in Serials |-> None]
    /\ revoked_certificates = {}
    /\ ca_config = {}
    /\ audit_logs = {}
    /\ server = "down"
    /\ authority = None
    /\ req = [s \in Slots |-> Idle]
    /\ replies = {}
    /\ received = 0
    /\ restarts = 0

ClientStep(s) ==
    \/ AcceptRequest(s)
    \/ \E t \in Tokens, h \in Hosts : EnrollRequest(s, t, h)
    \/ \E e \in EnrollmentIds : CertificateRequest(s, e)
    \/ \E e \in EnrollmentIds \cup {None} : RenewRequest(s, e)
    \/ \E x \in Serials : RevokeRequest(s, x)
    \/ DecodeFails(s)

AdminStep ==
    \E t \in Tokens : \/ \E h \in Hosts, ttl \in TTLs : CreateToken(t, h, ttl)
                      \/ RevokeToken(t)

ProcessStep == Shutdown \/ Exit \/ Crash \/ Start \/ Tick

Next == (\E s \in Slots : ClientStep(s) \/ HandlerStep(s)) \/ AdminStep \/ ProcessStep

Spec == Init /\ [][Next]_vars

\* net/http runs every accepted handler, each statement returns, and main
\* proceeds once Shutdown does.  Nothing is assumed of clients, not even that a
\* body follows a header (the server has a ReadHeaderTimeout and no
\* ReadTimeout), nor of operators, the clock or crashes.
Fairness == /\ \A s \in Slots : WF_vars(HandlerStep(s))
            /\ WF_vars(Exit)

FairSpec == Spec /\ Fairness

-----------------------------------------------------------------------------
(* Safety                                                                  *)

\* The effect a 2xx response or an audit entry of this operation tells of.
Durable(op, id) ==
    CASE op = "enroll" -> enrollments[id] # None
      [] op \in {"issue", "renew"} -> issued_certificates[id] # None
      [] op = "revoke" -> /\ issued_certificates[id] # None
                          /\ issued_certificates[id].revoked
                          /\ id \in revoked_certificates

\* Whatever a client was told is in the database and stays there: crashes,
\* failing statements and concurrent requests included (the handlers answer
\* only after their last insert, handlers.go).
RepliesDurable == \A r \in replies : Durable(r[1], r[2])

\* The audit log never reports an event that did not take effect: Audit.Record
\* comes after the statement it reports.
AuditTruthful ==
    \A a \in audit_logs : \E op \in {"enroll", "issue", "renew", "revoke"} :
        a[1] = AuditAction(op) /\ Durable(op, a[2])

\* A token that was missing, revoked or expired when a request's body arrived is
\* never used by that request, and a token only enrolls its own host, although
\* ValidateAndEnroll checks the token and inserts the enrollment in two
\* statements and the admin may revoke it in between.
EnrollmentsUsedLiveTokens ==
    \A e \in EnrollmentIds : enrollments[e] # None =>
        LET row == enrollments[e] IN
            /\ row.token_id \notin row.dead
            /\ bootstrap_tokens[row.token_id] # None
            /\ bootstrap_tokens[row.token_id].hostname = row.hostname

\* A serial listed in revoked_certificates is an issued certificate whose own
\* row says so too, so the status endpoint never contradicts the list: the
\* UPDATE precedes the INSERT and the foreign key refuses unknown serials.
RevocationsMarked ==
    \A x \in revoked_certificates : /\ issued_certificates[x] # None
                                    /\ issued_certificates[x].revoked

\* A certificate that requestCertificate stored is recorded under an enrollment
\* there is and under the host enrolled by it, although the row is written three
\* statements after the enrollment was read, from what the handler remembers.
\* (The DNS names in the certificate are compared with nothing, and a renewal is
\* recorded under whatever enrollment id it carries.)
IssuedToEnrolled ==
    \A x \in Serials :
        (issued_certificates[x] # None /\ issued_certificates[x].via = "issue")
            => LET row == issued_certificates[x] IN
                   /\ row.enrollment_id # None
                   /\ enrollments[row.enrollment_id] # None
                   /\ row.subject = enrollments[row.enrollment_id].hostname

\* The foreign key on ca_id never refuses a signed certificate, whichever
\* intermediate the server was restarted with: ensureCAConfig ran before.
StoreNeverRefused ==
    \A s \in Slots : req[s].step = "store" => authority \in ca_config

\* A stored certificate never disappears or changes hands, and a revoked one is
\* never valid again nor taken off the list: not by a second revocation of it
\* that fails half-way, nor by a certificate with a serial already stored, which
\* the primary key refuses.
RevocationPermanent ==
    [][/\ \A x \in Serials : issued_certificates[x] # None =>
            /\ issued_certificates'[x] # None
            /\ issued_certificates[x].revoked => issued_certificates'[x].revoked
            /\ issued_certificates'[x].enrollment_id = issued_certificates[x].enrollment_id
       /\ revoked_certificates \subseteq revoked_certificates']_vars

\* The tables, seen as the register of CertRegistry.
CertStatus(x) == IF issued_certificates[x] = None THEN "unknown"
                 ELSE IF issued_certificates[x].revoked THEN "revoked" ELSE "good"

Registry == INSTANCE CertRegistry WITH
                enrolled     <- {e \in EnrollmentIds : enrollments[e] # None},
                status       <- [x \in Serials |-> CertStatus(x)],
                listed       <- revoked_certificates,
                acknowledged <- replies

\* The handlers, in statements that interleave, fail and are cut short by
\* crashes, implement the register: each changes it one promised step at a time.
ImplementsRegistry == Registry!Spec

-----------------------------------------------------------------------------
(* Liveness                                                                *)

\* Every request whose body has arrived is answered, or dies with the process,
\* also while the bodies of others never come (decode, handlers.go).
RequestsFinish == \A s \in Slots : req[s].step \notin {"idle", "decode"} ~> req[s] = Idle

\* A graceful shutdown that waits for no client's body comes to an end, before
\* its deadline, which is a Crash here: no handler waits for another one.
ShutdownEnds ==
    (server = "draining" /\ \A s \in Slots : req[s].step # "decode") ~> server = "down"

-----------------------------------------------------------------------------
(* What the documentation says and the code does not do                    *)

\* docs/getting-started/introduction.md: a bootstrap token is a "one-time token
\* used to enroll a host".
TokenUsedOnce ==
    \A e, f \in EnrollmentIds :
        (enrollments[e] # None /\ enrollments[f] # None
            /\ enrollments[e].token_id = enrollments[f].token_id) => e = f

\* docs/architecture/online-intermediate-ca.md: on renewal the API must "verify
\* renewal window" before it signs.
RenewedInsideWindow ==
    [][\A x \in Serials :
        (/\ issued_certificates[x] = None
         /\ issued_certificates'[x] # None
         /\ issued_certificates'[x].via = "renew")
        => LET earlier == {y \in Serials :
                              /\ issued_certificates[y] # None
                              /\ issued_certificates[y].enrollment_id
                                    = issued_certificates'[x].enrollment_id}
           IN earlier # {} => \E y \in earlier : InsideRenewalWindow(y)]_vars

====
