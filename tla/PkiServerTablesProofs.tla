------------------------- MODULE PkiServerTablesProofs -------------------------
(***************************************************************************)
(* What the rows of PkiServer's tables may be relied on for, proved for    *)
(* all its parameters: a signed certificate always meets the ca_config row *)
(* its foreign key wants, a certificate issued through requestCertificate  *)
(* is recorded under the host its enrollment enrolled, and a token that    *)
(* was dead when a request's body arrived is not the one it enrolled with. *)
(* Each strengthens its property by what the handlers know between the     *)
(* statement that looks and the statement that writes.  Then the tables    *)
(* implement CertRegistry, and at the end come the views on them: those of *)
(* tokens and of the renewal window need the types of the rows only; what  *)
(* the hierarchy counts needs that a row of issued_certificates never      *)
(* refers outside ca_config.                                               *)
(***************************************************************************)
EXTENDS StatusViews, PkiServerProofs

USE DEF process, tables

\* What no handler writes, and the table to which it only adds.
LEMMA HandlerLeaves ==
    ASSUME NEW s \in Slots, HandlerStep(s)
    PROVE  /\ UNCHANGED <<clock, server, authority, bootstrap_tokens>>
           /\ ca_config \subseteq ca_config'
BY DEF HandlerStep, ValidateToken, CreateEnrollment, GetEnrollment, CheckRenewalWindow,
   SignCSR, SignError, EnsureCAConfig, StoreIssuedCertificate, MarkRevoked,
   InsertRevoked, RecordAudit, LoseAudit, Reply, LoseReply, StatementFails

-----------------------------------------------------------------------------
(* The foreign key of a certificate                                        *)

\* A handler comes to StoreIssuedCertificate only from ensureCAConfig.
LEMMA StoreComesFromEnsure ==
    ASSUME TypeInv, NEW s \in Slots, HandlerStep(s), req'[s].step = "store"
    PROVE  EnsureCAConfig(s)
<1>1. req \in [Slots -> HandlerState]
  BY DEF TypeInv, RequestInv
<1>2. ~Reject(s)
  BY <1>1 DEF Reject, Idle
<1>3. ASSUME NEW step, Goto(s, step) PROVE step = "store"
  BY <1>1, <1>3 DEF Goto, HandlerState, Request
<1>4. ~CreateEnrollment(s) /\ ~SignCSR(s)
  BY <1>1 DEF CreateEnrollment, SignCSR, HandlerState, Request
<1>5. ~ValidateToken(s) /\ ~CheckRenewalWindow(s)
  BY <1>2, <1>3 DEF ValidateToken, CheckRenewalWindow
<1>10. ~GetEnrollment(s)
  BY <1>1, <1>2 DEF GetEnrollment, HandlerState, Request
<1>6. ~SignError(s) /\ ~LoseReply(s) /\ ~StatementFails(s)
  BY <1>2, <1>3 DEF SignError, LoseReply, StatementFails
<1>7. ~StoreIssuedCertificate(s) /\ ~MarkRevoked(s) /\ ~InsertRevoked(s)
  BY <1>2, <1>3 DEF StoreIssuedCertificate, MarkRevoked, InsertRevoked
<1>8. ~RecordAudit(s) /\ ~LoseAudit(s)
  BY <1>3 DEF RecordAudit, LoseAudit
<1>9. ~Reply(s)
  BY <1>2 DEF Reply, Reject
<1> QED
  BY <1>4, <1>5, <1>6, <1>7, <1>8, <1>9, <1>10 DEF HandlerStep

\* The loaded authority stays until no handler is left, and ca_config grows.
LEMMA StoreNeverRefusedStep ==
    ASSUME TypeInv, StoreNeverRefused, [Next]_vars
    PROVE  StoreNeverRefused'
<1>1. ASSUME NEW s \in Slots, ClientStep(s) PROVE StoreNeverRefused'
  BY <1>1, ClientFrame DEF StoreNeverRefused
<1>2. ASSUME NEW s \in Slots, HandlerStep(s) PROVE StoreNeverRefused'
  <2>1. SUFFICES ASSUME NEW u \in Slots, req'[u].step = "store"
                 PROVE  authority' \in ca_config'
    BY DEF StoreNeverRefused
  <2>2. CASE u = s
    BY <1>2, <2>1, <2>2, StoreComesFromEnsure DEF EnsureCAConfig
  <2>3. CASE u # s
    BY <1>2, <2>1, <2>3, HandlerFrame, HandlerLeaves DEF StoreNeverRefused
  <2> QED
    BY <2>2, <2>3
<1>3. CASE AdminStep
  BY <1>3, AdminFrame DEF StoreNeverRefused
<1>4. CASE ProcessStep
  <2>1. CASE \A s \in Slots : req'[s] = Idle
    BY <2>1 DEF StoreNeverRefused, Idle
  <2>2. CASE UNCHANGED <<req, authority>>
    BY <1>4, <2>2, ProcessFrame DEF StoreNeverRefused
  <2> QED
    BY <1>4, <2>1, <2>2, ProcessFrame
<1>5. CASE UNCHANGED vars
  BY <1>5 DEF vars, StoreNeverRefused
<1> QED
  BY <1>1, <1>2, <1>3, <1>4, <1>5 DEF Next

\* StoreIssuedCertificate's foreign key never refuses what was signed: whichever
\* intermediate a restart loads, ensureCAConfig has written its row before.
THEOREM ForeignKeyHolds == Spec => []StoreNeverRefused
<1>1. Init => TypeInv /\ StoreNeverRefused
  BY TypeInvInit DEF Init, StoreNeverRefused, Idle
<1>2. TypeInv /\ StoreNeverRefused /\ [Next]_vars => TypeInv' /\ StoreNeverRefused'
  BY TypeInvStep, StoreNeverRefusedStep
<1> QED
  BY <1>1, <1>2, PTL DEF Spec

-----------------------------------------------------------------------------
(* A certificate and the enrollment it was asked for                       *)

\* An issuing handler that has looked its enrollment up.
LookedUp(s) == req[s].op = "issue" /\ req[s].step \in {"sign", "ca", "store"}

\* Between GetEnrollment and StoreIssuedCertificate the enrollment stays, and the
\* handler remembers its host.
EnrollmentKnown(s) == /\ enrollments[req[s].enrollment] # None
                      /\ req[s].hostname = enrollments[req[s].enrollment].hostname

IssueInv == /\ SerialInv /\ IssuedToEnrolled
            /\ \A s \in Slots : LookedUp(s) => EnrollmentKnown(s)

\* What is known of an enrollment stays true while the handler keeps its own.
LEMMA EnrollmentKnownStays ==
    ASSUME IssueInv, TablesGrow, NEW s \in Slots, LookedUp(s),
           req'[s].enrollment = req[s].enrollment, req'[s].hostname = req[s].hostname
    PROVE  EnrollmentKnown(s)'
<1>1. req[s].enrollment \in EnrollmentIds
  BY SlotState DEF IssueInv, SerialInv, LookedUp, HandlerState
<1> QED
  BY <1>1 DEF IssueInv, TablesGrow, EnrollmentKnown

\* A slot that is still, or becomes, an issuing handler past its lookup.
LEMMA LookedUpStep ==
    ASSUME IssueInv, TablesGrow, NEW s \in Slots, HandlerStep(s), LookedUp(s)'
    PROVE  EnrollmentKnown(s)'
<1>0. TypeInv /\ req \in [Slots -> HandlerState] /\ req[s] \in HandlerState
  BY DEF IssueInv, SerialInv, TypeInv, RequestInv
<1>1. ~Reject(s)
  BY <1>0 DEF Reject, Idle, LookedUp
<1>2. ASSUME NEW step, Goto(s, step)
      PROVE  /\ step = req'[s].step /\ req'[s].op = req[s].op
             /\ req'[s].enrollment = req[s].enrollment /\ req'[s].hostname = req[s].hostname
  BY <1>0, <1>2 DEF Goto, HandlerState, Request
<1>4. CASE GetEnrollment(s)
  <2>1. /\ enrollments[req[s].enrollment] # None /\ enrollments' = enrollments
        /\ req' = [req EXCEPT ![s].step = "sign",
                              ![s].hostname = enrollments[req[s].enrollment].hostname]
    BY <1>1, <1>4 DEF GetEnrollment
  <2>2. /\ req'[s].enrollment = req[s].enrollment
        /\ req'[s].hostname = enrollments[req[s].enrollment].hostname
    BY <1>0, <2>1 DEF HandlerState, Request
  <2> QED
    BY <2>1, <2>2 DEF EnrollmentKnown
<1>5. CASE SignCSR(s)
  <2>1. /\ req'[s].op = req[s].op /\ req'[s].hostname = req[s].hostname
        /\ req'[s].enrollment = req[s].enrollment
    BY <1>0, <1>5 DEF SignCSR, HandlerState, Request
  <2> QED
    BY <1>5, <2>1, EnrollmentKnownStays DEF SignCSR, LookedUp
<1>6. CASE EnsureCAConfig(s)
  BY <1>2, <1>6, EnrollmentKnownStays DEF EnsureCAConfig, LookedUp
<1>7. ~ValidateToken(s) /\ ~CreateEnrollment(s)
  BY <1>0, <1>1, <1>2 DEF ValidateToken, CreateEnrollment, At, LookedUp, HandlerState, Request
<1>8. ~CheckRenewalWindow(s) /\ ~StatementFails(s)
  BY <1>1, <1>2 DEF CheckRenewalWindow, StatementFails, At, LookedUp
<1>9. ~SignError(s) /\ ~LoseReply(s) /\ ~Reply(s)
  BY <1>1 DEF SignError, LoseReply, Reply, Reject
<1>10. ~StoreIssuedCertificate(s) /\ ~MarkRevoked(s) /\ ~InsertRevoked(s)
  BY <1>1, <1>2 DEF StoreIssuedCertificate, MarkRevoked, InsertRevoked, LookedUp
<1>11. ~RecordAudit(s) /\ ~LoseAudit(s)
  BY <1>2 DEF RecordAudit, LoseAudit, LookedUp
<1> QED
  BY <1>4, <1>5, <1>6, <1>7, <1>8, <1>9, <1>10, <1>11 DEF HandlerStep

\* A row that a step adds or leaves is under its enrollment's host if it was issued.
LEMMA IssuedToEnrolledStep ==
    ASSUME IssueInv, TablesGrow, NEW s \in Slots, HandlerStep(s)
    PROVE  IssuedToEnrolled'
<1>0. TypeInv /\ TypeOK /\ req[s] \in HandlerState
  BY DEF IssueInv, SerialInv, TypeInv, RequestInv
<1>1. SUFFICES ASSUME NEW x \in Serials, issued_certificates'[x] # None,
                      issued_certificates'[x].via = "issue"
               PROVE  /\ issued_certificates'[x].enrollment_id # None
                      /\ enrollments'[issued_certificates'[x].enrollment_id] # None
                      /\ issued_certificates'[x].subject
                            = enrollments'[issued_certificates'[x].enrollment_id].hostname
  BY DEF IssuedToEnrolled
<1>2. CASE issued_certificates[x] # None
  <2>1. /\ issued_certificates[x].via = "issue"
        /\ issued_certificates'[x].enrollment_id = issued_certificates[x].enrollment_id
        /\ issued_certificates'[x].subject = issued_certificates[x].subject
    BY <1>1, <1>2 DEF TablesGrow
  <2>2. issued_certificates[x] \in CertificateRow
    BY <1>0, <1>2 DEF TypeOK
  <2>3. /\ issued_certificates[x].enrollment_id \in EnrollmentIds
        /\ enrollments[issued_certificates[x].enrollment_id] # None
        /\ issued_certificates[x].subject
              = enrollments[issued_certificates[x].enrollment_id].hostname
    BY <1>2, <2>1, <2>2 DEF IssueInv, IssuedToEnrolled, CertificateRow
  <2> QED
    BY <2>1, <2>3, ConstantsAssumption DEF TablesGrow
<1>3. CASE issued_certificates[x] = None
  <2>1. StoreIssuedCertificate(s) /\ issued_certificates'[x] = IssuedCertificate(s)
    BY <1>0, <1>1, <1>3, CertificateRows
  <2>2. /\ req[s].op = "issue" /\ issued_certificates'[x].enrollment_id = req[s].enrollment
        /\ issued_certificates'[x].subject = req[s].hostname
    BY <1>1, <2>1 DEF IssuedCertificate
  <2>3. req[s].enrollment \in EnrollmentIds /\ EnrollmentKnown(s)
    BY <1>0, <2>1, <2>2 DEF IssueInv, LookedUp, StoreIssuedCertificate, HandlerState
  <2> QED
    BY <2>1, <2>2, <2>3, ConstantsAssumption DEF StoreIssuedCertificate, EnrollmentKnown
<1> QED
  BY <1>2, <1>3

\* Steps of the others: no table or slot the invariant speaks of, except that
\* slots are freed or filled.
LEMMA IssueInvStep ==
    ASSUME IssueInv, [Next]_vars
    PROVE  IssueInv'
<1>0. SerialInv' /\ TablesGrow /\ TypeInv /\ TypeInv'
  BY SerialInvStep, TablesOnlyGrow DEF IssueInv, SerialInv
<1>1. ASSUME NEW s \in Slots, ClientStep(s) PROVE IssueInv'
  <2>1. ASSUME NEW u \in Slots, LookedUp(u)' PROVE EnrollmentKnown(u)'
    BY <1>0, <1>1, <2>1, ClientFrame DEF IssueInv, LookedUp, EnrollmentKnown
  <2> QED
    BY <1>0, <1>1, <2>1, ClientFrame DEF IssueInv, IssuedToEnrolled
<1>2. ASSUME NEW s \in Slots, HandlerStep(s) PROVE IssueInv'
  <2>1. ASSUME NEW u \in Slots, LookedUp(u)' PROVE EnrollmentKnown(u)'
    <3>1. CASE u = s
      BY <1>0, <1>2, <2>1, <3>1, LookedUpStep
    <3>2. CASE u # s
      <4>1. req'[u] = req[u]
        BY <1>0, <1>2, <3>2, HandlerFrame
      <4> QED
        BY <1>0, <2>1, <4>1, EnrollmentKnownStays DEF LookedUp
    <3> QED
      BY <3>1, <3>2
  <2> QED
    BY <1>0, <1>2, <2>1, IssuedToEnrolledStep DEF IssueInv
<1>3. CASE AdminStep
  BY <1>0, <1>3, AdminFrame DEF IssueInv, IssuedToEnrolled, LookedUp, EnrollmentKnown
<1>4. CASE ProcessStep
  BY <1>0, <1>4, ProcessFrame DEF IssueInv, IssuedToEnrolled, LookedUp, EnrollmentKnown,
     Idle
<1>5. CASE UNCHANGED vars
  BY <1>0, <1>5 DEF vars, IssueInv, IssuedToEnrolled, LookedUp, EnrollmentKnown
<1> QED
  BY <1>1, <1>2, <1>3, <1>4, <1>5 DEF Next

\* What requestCertificate stores is recorded under the host its enrollment
\* enrolled, although the enrollment is read, and the certificate signed and
\* stored, in statements of their own.
THEOREM OnlyEnrolledAreIssued == Spec => []IssuedToEnrolled
<1>1. Init => IssueInv
  BY SerialInvInit DEF Init, IssueInv, IssuedToEnrolled, LookedUp, Idle
<1>2. IssueInv /\ [Next]_vars => IssueInv'
  BY IssueInvStep
<1>3. IssueInv => IssuedToEnrolled
  BY DEF IssueInv
<1> QED
  BY <1>1, <1>2, <1>3, PTL DEF Spec

-----------------------------------------------------------------------------
(* The token a host was enrolled with                                      *)

\* What an enrolling handler knows of its token before and after it looks.
TokenKnown(s) ==
    /\ At(s, "enroll", "lookup") /\ req[s].token \in req[s].dead
          => req[s].token \in DeadTokens
    /\ At(s, "enroll", "insert")
          => /\ req[s].token \notin req[s].dead
             /\ bootstrap_tokens[req[s].token] # None
             /\ bootstrap_tokens[req[s].token].hostname = req[s].hostname

LiveInv == /\ SerialInv /\ EnrollmentsUsedLiveTokens
           /\ \A s \in Slots : TokenKnown(s)

\* A token row keeps its host, and a dead token some request carries stays dead:
\* create-token draws a secret no request carries yet, and the clock advances.
LEMMA TokensKept ==
    ASSUME TypeInv, [Next]_vars, NEW t \in Tokens
    PROVE  /\ bootstrap_tokens[t] # None
                => /\ bootstrap_tokens'[t] # None
                   /\ bootstrap_tokens'[t].hostname = bootstrap_tokens[t].hostname
           /\ t \in DeadTokens /\ (\E y \in Slots : req[y].token = t) => t \in DeadTokens'
<1>0. TypeOK /\ bootstrap_tokens[t] \in TokenRow \cup {None}
  BY DEF TypeInv, TypeOK
<1>1. CASE UNCHANGED <<bootstrap_tokens, clock>>
  BY <1>1 DEF DeadTokens
<1>2. ASSUME NEW s \in Slots, ClientStep(s) PROVE UNCHANGED <<bootstrap_tokens, clock>>
  BY <1>2, ClientFrame
<1>3. ASSUME NEW s \in Slots, HandlerStep(s) PROVE UNCHANGED <<bootstrap_tokens, clock>>
  BY <1>3, HandlerLeaves
<1>4. ASSUME NEW k \in Tokens, NEW h \in Hosts, NEW ttl \in TTLs, CreateToken(k, h, ttl)
      PROVE  /\ bootstrap_tokens'[t] = bootstrap_tokens[t]
                  \/ (bootstrap_tokens[t] = None /\ ~\E y \in Slots : req[y].token = t)
             /\ clock' = clock
  BY <1>0, <1>4 DEF CreateToken, TypeOK
<1>5. ASSUME NEW k \in Tokens, RevokeToken(k)
      PROVE  /\ \/ bootstrap_tokens'[t] = bootstrap_tokens[t]
                \/ /\ bootstrap_tokens[t] # None
                   /\ bootstrap_tokens'[t] = [bootstrap_tokens[t] EXCEPT !.revoked = TRUE]
             /\ clock' = clock
  BY <1>0, <1>5 DEF RevokeToken, TypeOK
<1>6. ASSUME bootstrap_tokens[t] # None,
             bootstrap_tokens'[t] = [bootstrap_tokens[t] EXCEPT !.revoked = TRUE]
      PROVE  /\ bootstrap_tokens'[t] # None /\ t \in DeadTokens'
             /\ bootstrap_tokens'[t].hostname = bootstrap_tokens[t].hostname
  <2>1. bootstrap_tokens[t] \in TokenRow
    BY <1>0, <1>6
  <2>2. bootstrap_tokens'[t] \in TokenRow
    BY <1>6, <2>1 DEF TokenRow
  <2>3. bootstrap_tokens'[t].revoked
            /\ bootstrap_tokens'[t].hostname = bootstrap_tokens[t].hostname
    BY <1>6, <2>1 DEF TokenRow
  <2> QED
    BY <2>2, <2>3, NoneIsNoRow DEF DeadTokens
<1>7. CASE AdminStep
  <2>1. CASE bootstrap_tokens'[t] = bootstrap_tokens[t] /\ clock' = clock
    BY <2>1 DEF DeadTokens
  <2> QED
    BY <1>4, <1>5, <1>6, <1>7, <2>1 DEF AdminStep
<1>8. CASE ProcessStep
  <2>1. UNCHANGED bootstrap_tokens /\ clock \in Int /\ clock' \in Int /\ clock' >= clock
    BY <1>8, ProcessFrame
  <2>2. bootstrap_tokens[t] # None => bootstrap_tokens[t].expires_at \in Int
    BY <1>0 DEF TokenRow
  <2> QED
    BY <2>1, <2>2 DEF DeadTokens
<1> QED
  BY <1>1, <1>2, <1>3, <1>7, <1>8 DEF Next, vars

\* A handler that does not move goes on knowing what it knows.
LEMMA TokenKnownStays ==
    ASSUME TypeInv, [Next]_vars, NEW u \in Slots, TokenKnown(u), req'[u] = req[u]
    PROVE  TokenKnown(u)'
<1>1. CASE At(u, "enroll", "lookup") \/ At(u, "enroll", "insert")
  <2>1. req[u].token \in Tokens
    BY <1>1, SlotState DEF HandlerState, At
  <2> QED
    BY <2>1, TokensKept DEF TokenKnown, At
<1>2. CASE ~At(u, "enroll", "lookup") /\ ~At(u, "enroll", "insert")
  BY <1>2 DEF TokenKnown, At
<1> QED
  BY <1>1, <1>2

\* A handler's own step: only ValidateToken takes an enrollment to its INSERT.
LEMMA TokenKnownOfStep ==
    ASSUME TypeInv, NEW s \in Slots, HandlerStep(s), TokenKnown(s)
    PROVE  TokenKnown(s)'
<1>0. req \in [Slots -> HandlerState] /\ req[s] \in HandlerState
  BY DEF TypeInv, RequestInv
<1>1. CASE ~At(s, "enroll", "lookup")' /\ ~At(s, "enroll", "insert")'
  BY <1>1 DEF TokenKnown
<1>2. ASSUME NEW step, Goto(s, step)
      PROVE  /\ req'[s].step = step /\ req'[s].op = req[s].op
             /\ req'[s].token = req[s].token /\ req'[s].dead = req[s].dead
             /\ req'[s].hostname = req[s].hostname
  BY <1>0, <1>2 DEF Goto, HandlerState, Request
<1>3. Reject(s) => ~At(s, "enroll", "lookup")' /\ ~At(s, "enroll", "insert")'
  BY <1>0 DEF Reject, Idle, At
<1>4. ASSUME NEW step \in {"sign", "store", "audit", "reply"}, Goto(s, step)
      PROVE  ~At(s, "enroll", "lookup")' /\ ~At(s, "enroll", "insert")'
  BY <1>2, <1>4 DEF At
<1>5. CASE ValidateToken(s)
  <2>1. CASE Reject(s)
    BY <1>1, <1>3, <2>1
  <2>2. CASE TokenValid(req[s].token, req[s].hostname) /\ Goto(s, "insert")
    <3>1. req[s].token \notin DeadTokens /\ UNCHANGED bootstrap_tokens
      BY <1>5, <2>2 DEF TokenValid, DeadTokens, ValidateToken
    <3>2. req[s].token \notin req[s].dead
      BY <1>5, <3>1 DEF TokenKnown, ValidateToken
    <3> QED
      BY <1>2, <2>2, <3>1, <3>2 DEF TokenKnown, TokenValid, At
  <2> QED
    BY <1>5, <2>1, <2>2 DEF ValidateToken
<1>6. CASE CreateEnrollment(s) \/ SignCSR(s)
  <2>1. CreateEnrollment(s) => req'[s].step = "audit"
    BY <1>0 DEF CreateEnrollment, HandlerState, Request
  <2>2. SignCSR(s) => req'[s].step = "ca"
    BY <1>0 DEF SignCSR, HandlerState, Request
  <2> QED
    BY <1>1, <1>6, <2>1, <2>2 DEF At
<1>7. CASE CheckRenewalWindow(s) \/ StatementFails(s)
  BY <1>1, <1>3, <1>4, <1>7 DEF CheckRenewalWindow, StatementFails
<1>12. CASE GetEnrollment(s)
  <2>1. Reject(s) \/ req'[s].step = "sign"
    BY <1>0, <1>12 DEF GetEnrollment, HandlerState, Request
  <2> QED
    BY <1>1, <1>3, <2>1 DEF At
<1>8. CASE SignError(s) \/ LoseReply(s) \/ Reply(s)
  BY <1>1, <1>3, <1>8 DEF SignError, LoseReply, Reply, Reject
<1>9. CASE EnsureCAConfig(s) \/ StoreIssuedCertificate(s)
  BY <1>1, <1>3, <1>4, <1>9 DEF EnsureCAConfig, StoreIssuedCertificate
<1>10. CASE MarkRevoked(s) \/ InsertRevoked(s)
  <2>1. req[s].op = "revoke" /\ (Reject(s) \/ \E step \in {"insert", "audit"} : Goto(s, step))
    BY <1>10 DEF MarkRevoked, InsertRevoked, At
  <2> QED
    BY <1>1, <1>2, <1>3, <2>1 DEF At
<1>11. CASE RecordAudit(s) \/ LoseAudit(s)
  BY <1>1, <1>4, <1>11 DEF RecordAudit, LoseAudit
<1> QED
  BY <1>5, <1>6, <1>7, <1>8, <1>9, <1>10, <1>11, <1>12 DEF HandlerStep

\* The rows of enrollments: a new one has the token its handler knows of.
LEMMA LiveTokensStep ==
    ASSUME LiveInv, [Next]_vars
    PROVE  EnrollmentsUsedLiveTokens'
<1>0. TypeInv /\ TypeOK /\ TablesGrow
  BY TablesOnlyGrow DEF LiveInv, SerialInv, TypeInv
<1>1. SUFFICES ASSUME NEW e \in EnrollmentIds, enrollments'[e] # None
               PROVE  /\ enrollments'[e].token_id \notin enrollments'[e].dead
                      /\ bootstrap_tokens'[enrollments'[e].token_id] # None
                      /\ bootstrap_tokens'[enrollments'[e].token_id].hostname
                            = enrollments'[e].hostname
  BY DEF EnrollmentsUsedLiveTokens
<1>2. CASE enrollments[e] # None
  <2>1. enrollments'[e] = enrollments[e] /\ enrollments[e].token_id \in Tokens
    BY <1>0, <1>2 DEF TablesGrow, TypeOK, EnrollmentRow
  <2> QED
    BY <1>0, <1>2, <2>1, TokensKept DEF LiveInv, EnrollmentsUsedLiveTokens
<1>3. CASE enrollments[e] = None
  <2>1. enrollments' # enrollments
    BY <1>1, <1>3
  <2>2. PICK s \in Slots : HandlerStep(s)
    BY <1>0, <2>1, ClientFrame, AdminFrame, ProcessFrame DEF Next, vars
  <2>3. CreateEnrollment(s)
    BY <2>1, <2>2 DEF HandlerStep, ValidateToken, GetEnrollment, CheckRenewalWindow,
       SignCSR, SignError, EnsureCAConfig, StoreIssuedCertificate, MarkRevoked,
       InsertRevoked, RecordAudit, LoseAudit, Reply, LoseReply, StatementFails
  <2>4. enrollments'[e] = [hostname |-> req[s].hostname, token_id |-> req[s].token,
                           dead |-> req[s].dead]
    BY <1>0, <1>1, <1>3, <2>3 DEF CreateEnrollment, FreshEnrollmentIds, TypeOK
  <2>5. /\ req[s].token \in Tokens /\ req[s].token \notin req[s].dead
        /\ bootstrap_tokens[req[s].token] # None
        /\ bootstrap_tokens[req[s].token].hostname = req[s].hostname
    BY <1>0, <2>3, SlotState
       DEF CreateEnrollment, At, HandlerState, LiveInv, TokenKnown
  <2> QED
    BY <1>0, <2>4, <2>5, TokensKept
<1> QED
  BY <1>2, <1>3

\* Every step of the system.
LEMMA LiveInvStep ==
    ASSUME LiveInv, [Next]_vars
    PROVE  LiveInv'
<1>0. SerialInv' /\ TypeInv /\ EnrollmentsUsedLiveTokens'
  BY SerialInvStep, LiveTokensStep DEF LiveInv, SerialInv
<1>1. SUFFICES ASSUME NEW u \in Slots PROVE TokenKnown(u)'
  BY <1>0 DEF LiveInv
<1>2. TokenKnown(u)
  BY DEF LiveInv
<1>3. CASE req'[u] = req[u]
  BY <1>0, <1>2, <1>3, TokenKnownStays
<1>4. CASE req'[u] = Idle
  BY <1>4 DEF TokenKnown, At, Idle
<1>5. CASE ClientStep(u)
  <2>1. UNCHANGED <<bootstrap_tokens, clock>> /\ req'[u].step # "insert"
          /\ (req'[u].op = "enroll" /\ req'[u].step = "lookup" => req'[u].dead = DeadTokens)
    BY <1>0, <1>5, ClientFrame
  <2> QED
    BY <2>1 DEF TokenKnown, At, DeadTokens
<1>6. CASE HandlerStep(u)
  BY <1>0, <1>2, <1>6, TokenKnownOfStep
<1>7. ASSUME NEW s \in Slots, s # u, ClientStep(s) \/ HandlerStep(s)
      PROVE  req'[u] = req[u]
  BY <1>0, <1>7, ClientFrame, HandlerFrame
<1>8. AdminStep \/ ProcessStep \/ UNCHANGED vars => req'[u] = req[u] \/ req'[u] = Idle
  BY <1>0, AdminFrame, ProcessFrame DEF vars
<1> QED
  BY <1>3, <1>4, <1>5, <1>6, <1>7, <1>8 DEF Next

\* A token that was missing, revoked or expired when the request's body arrived
\* enrolls nobody, and a token enrolls its own host only, although ValidateAndEnroll
\* reads the token and inserts the enrollment in two statements.
THEOREM DeadTokensEnrollNobody == Spec => []EnrollmentsUsedLiveTokens
<1>1. Init => LiveInv
  BY SerialInvInit DEF Init, LiveInv, EnrollmentsUsedLiveTokens, TokenKnown, At, Idle
<1>2. LiveInv /\ [Next]_vars => LiveInv'
  BY LiveInvStep
<1>3. LiveInv => EnrollmentsUsedLiveTokens
  BY DEF LiveInv
<1> QED
  BY <1>1, <1>2, <1>3, PTL DEF Spec

-----------------------------------------------------------------------------
(* The register                                                            *)
(*                                                                         *)
(* PkiServer implements CertRegistry: of a handler's steps five change the *)
(* register, each as one of its actions, and everything else (clients,     *)
(* administrator, processes, crashes, failing statements) leaves it alone. *)
(* What makes a step an allowed one is DurableInv: a certificate is stored *)
(* under a serial the register does not know, listed only when it is       *)
(* revoked, and acknowledged only when its effect is there.                *)

\* The tables the register is made of.
RegisterKept == UNCHANGED <<enrollments, issued_certificates, revoked_certificates, replies>>

\* A step that keeps them is a stutter of the register.
LEMMA KeptIsStutter ==
    ASSUME RegisterKept
    PROVE  UNCHANGED Registry!registry
BY DEF RegisterKept, Registry!registry, CertStatus

\* The empty tables are the empty register.
LEMMA RegistryInit == Init => Registry!Init
BY DEF Init, Registry!Init, CertStatus

\* CreateEnrollment enters a new enrollment.
LEMMA CreateEnrollmentEnrolls ==
    ASSUME TypeInv, NEW s \in Slots, CreateEnrollment(s)
    PROVE  \E e \in EnrollmentIds : Registry!Enroll(e)
<1>0. TypeOK /\ req[s] \in HandlerState
  BY DEF TypeInv, RequestInv
<1>1. PICK e \in EnrollmentIds :
        /\ enrollments[e] = None
        /\ enrollments' = [enrollments EXCEPT
              ![e] = [hostname |-> req[s].hostname, token_id |-> req[s].token,
                      dead |-> req[s].dead]]
  BY DEF CreateEnrollment, FreshEnrollmentIds
<1>2. [hostname |-> req[s].hostname, token_id |-> req[s].token,
       dead |-> req[s].dead] \in EnrollmentRow
  BY <1>0 DEF CreateEnrollment, At, HandlerState, Request, EnrollmentRow
<1>3. enrollments'[e] # None /\ \A f \in EnrollmentIds \ {e} : enrollments'[f] = enrollments[f]
  BY <1>0, <1>1, <1>2, NoneIsNoRow DEF TypeOK
<1>4. {f \in EnrollmentIds : enrollments'[f] # None}
        = {f \in EnrollmentIds : enrollments[f] # None} \cup {e}
  BY <1>1, <1>3
<1>5. UNCHANGED <<issued_certificates, revoked_certificates, replies>>
  BY DEF CreateEnrollment
<1> QED
  BY <1>1, <1>4, <1>5 DEF Registry!Enroll, CertStatus

\* The status of the register after a statement that writes one row.
LEMMA OneStatusChanges ==
    ASSUME NEW x \in Serials, UNCHANGED <<enrollments, revoked_certificates, replies>>,
           \A y \in Serials \ {x} : issued_certificates'[y] = issued_certificates[y]
    PROVE  /\ [y \in Serials |-> CertStatus(y)]'
                = [[y \in Serials |-> CertStatus(y)] EXCEPT ![x] = CertStatus(x)']
           /\ UNCHANGED <<{e \in EnrollmentIds : enrollments[e] # None},
                          revoked_certificates, replies>>
BY DEF CertStatus

\* StoreIssuedCertificate issues a serial the register does not know.
LEMMA StoreIssues ==
    ASSUME TypeInv, NEW s \in Slots, StoreIssuedCertificate(s)
    PROVE  RegisterKept \/ \E x \in Serials : Registry!Issue(x)
<1>0. TypeInv /\ TypeOK /\ req[s] \in HandlerState
  BY DEF TypeInv, RequestInv
<1>1. PICK x \in Serials :
        x = req[s].serial /\ req[s].op \in {"issue", "renew"} /\ authority \in CAs
  BY <1>0, SlotState DEF StoreIssuedCertificate
<1>2. CASE UNCHANGED issued_certificates
  BY <1>2 DEF StoreIssuedCertificate, RegisterKept
<1>3. CASE authority \in ca_config /\ issued_certificates[x] = None
  <2> DEFINE row == IssuedCertificate(s)
  <2>1. row \in CertificateRow /\ ~row.revoked
    BY <1>0, <1>1 DEF IssuedCertificate, CertificateRow, HandlerState, Request
  <2>2. issued_certificates' = [issued_certificates EXCEPT ![x] = row]
    BY <1>1, <1>3 DEF StoreIssuedCertificate
  <2> HIDE DEF row
  <2>3. issued_certificates'[x] # None /\ ~issued_certificates'[x].revoked
          /\ \A y \in Serials \ {x} : issued_certificates'[y] = issued_certificates[y]
    BY <1>0, <1>1, <2>1, <2>2, NoneIsNoRow DEF TypeOK
  <2>4. CertStatus(x) = "unknown" /\ CertStatus(x)' = "good"
    BY <1>3, <2>3 DEF CertStatus
  <2>5. UNCHANGED <<enrollments, revoked_certificates, replies>>
    BY DEF StoreIssuedCertificate
  <2>6. Registry!Issue(x)
    BY <1>1, <2>3, <2>4, <2>5, OneStatusChanges DEF Registry!Issue
  <2> QED
    BY <1>1, <2>6
<1> QED
  BY <1>1, <1>2, <1>3 DEF StoreIssuedCertificate

\* MarkRevoked revokes a good certificate; on a revoked or an unknown one it
\* changes nothing.
LEMMA MarkRevokes ==
    ASSUME TypeInv, NEW s \in Slots, MarkRevoked(s)
    PROVE  RegisterKept \/ \E x \in Serials : Registry!Revoke(x)
<1>0. TypeOK
  BY DEF TypeInv
<1>1. PICK x \in Serials : x = req[s].serial
  BY SlotState DEF MarkRevoked, At, HandlerState
<1>2. UNCHANGED <<enrollments, revoked_certificates, replies>>
  BY DEF MarkRevoked
<1>3. CASE issued_certificates[x] = None
  BY <1>1, <1>2, <1>3 DEF MarkRevoked, RegisterKept
<1>4. CASE issued_certificates[x] # None
  <2>1. issued_certificates' = [issued_certificates EXCEPT ![x].revoked = TRUE]
    BY <1>1, <1>4 DEF MarkRevoked
  <2>2. issued_certificates[x] \in CertificateRow
    BY <1>0, <1>1, <1>4 DEF TypeOK
  <2>3. issued_certificates'[x] = [issued_certificates[x] EXCEPT !.revoked = TRUE]
          /\ \A y \in Serials \ {x} : issued_certificates'[y] = issued_certificates[y]
    BY <1>0, <1>1, <2>1 DEF TypeOK
  <2>4. issued_certificates'[x] \in CertificateRow /\ issued_certificates'[x].revoked
    BY <2>2, <2>3 DEF CertificateRow
  <2>5. CertStatus(x)' = "revoked"
    BY <2>4, NoneIsNoRow DEF CertStatus
  <2>6. CASE issued_certificates[x].revoked
    <3>1. issued_certificates' = issued_certificates
      BY <1>0, <1>1, <2>1, <2>2, <2>6 DEF TypeOK, CertificateRow
    <3> QED
      BY <1>2, <3>1 DEF RegisterKept
  <2>7. CASE ~issued_certificates[x].revoked
    <3>1. CertStatus(x) = "good"
      BY <1>4, <2>7 DEF CertStatus
    <3> QED
      BY <1>1, <1>2, <2>3, <2>5, <3>1, OneStatusChanges DEF Registry!Revoke
  <2> QED
    BY <2>6, <2>7
<1> QED
  BY <1>3, <1>4

\* InsertRevoked lists a certificate whose own row says revoked.
LEMMA InsertLists ==
    ASSUME DurableInv, NEW s \in Slots, InsertRevoked(s)
    PROVE  RegisterKept \/ \E x \in Serials : Registry!List(x)
<1>0. TypeInv
  BY DEF DurableInv, SerialInv
<1>1. PICK x \in Serials : x = req[s].serial
  BY <1>0, SlotState DEF InsertRevoked, At, HandlerState
<1>2. UNCHANGED <<enrollments, issued_certificates, replies>>
  BY DEF InsertRevoked
<1>3. CASE issued_certificates[x] = None
  BY <1>1, <1>2, <1>3 DEF InsertRevoked, RegisterKept
<1>4. CASE issued_certificates[x] # None
  <2>1. revoked_certificates' = revoked_certificates \cup {x}
    BY <1>1, <1>4 DEF InsertRevoked
  <2>2. CertStatus(x) = "revoked"
    BY <1>1, <1>4 DEF InsertRevoked, DurableInv, ProgressInv, CertStatus
  <2>3. Registry!List(x)
    BY <1>1, <1>2, <2>1, <2>2 DEF Registry!List, CertStatus
  <2> QED
    BY <1>1, <2>3
<1> QED
  BY <1>3, <1>4

\* Reply acknowledges what is in the register.
LEMMA ReplyAcknowledges ==
    ASSUME DurableInv, NEW s \in Slots, Reply(s)
    PROVE  \/ \E e \in EnrollmentIds : Registry!Acknowledge("enroll", e)
           \/ \E x \in Serials : \E op \in {"issue", "renew", "revoke"} :
                    Registry!Acknowledge(op, x)
<1>0. TypeInv /\ req[s].step = "reply"
  BY DEF DurableInv, SerialInv, Reply
<1>1. PICK op, id : op = req[s].op /\ id = Subject(s)
  OBVIOUS
<1>2. Durable(op, id) /\ op \in Operations /\ id \in Ids(op)
  BY <1>0, <1>1, SubjectIds DEF DurableInv, ProgressInv
<1>3. replies' = replies \cup {<<op, id>>}
        /\ UNCHANGED <<enrollments, issued_certificates, revoked_certificates>>
  BY <1>1 DEF Reply
<1>4. CASE op = "enroll"
  <2>1. id \in EnrollmentIds /\ enrollments[id] # None
    BY <1>2, <1>4 DEF Durable, Ids
  <2>2. Registry!Acknowledge("enroll", id)
    BY <1>3, <1>4, <2>1 DEF Registry!Acknowledge, CertStatus
  <2> QED
    BY <2>1, <2>2
<1>5. CASE op \in {"issue", "renew", "revoke"}
  <2>1. id \in Serials
    BY <1>2, <1>5 DEF Ids
  <2>2. \/ op \in {"issue", "renew"} /\ CertStatus(id) # "unknown"
        \/ op = "revoke" /\ id \in revoked_certificates
    BY <1>2, <1>5 DEF Durable, CertStatus
  <2>3. Registry!Acknowledge(op, id)
    BY <1>3, <2>1, <2>2 DEF Registry!Acknowledge, CertStatus
  <2> QED
    BY <1>5, <2>1, <2>3
<1> QED
  BY <1>2, <1>4, <1>5 DEF Operations

\* The steps of a handler.
LEMMA HandlerStepOfRegistry ==
    ASSUME DurableInv, NEW s \in Slots, HandlerStep(s)
    PROVE  RegisterKept \/ Registry!Next
<1>0. SerialInv /\ TypeInv
  BY DEF DurableInv, SerialInv
<1>1. CASE CreateEnrollment(s)
  BY <1>0, <1>1, CreateEnrollmentEnrolls DEF Registry!Next
<1>2. CASE StoreIssuedCertificate(s)
  BY <1>0, <1>2, StoreIssues DEF Registry!Next
<1>3. CASE MarkRevoked(s)
  BY <1>0, <1>3, MarkRevokes DEF Registry!Next
<1>4. CASE InsertRevoked(s)
  BY <1>4, InsertLists DEF Registry!Next
<1>5. CASE Reply(s)
  BY <1>5, ReplyAcknowledges DEF Registry!Next
<1>6. CASE RegisterKept
  BY <1>6
<1> QED
  BY <1>1, <1>2, <1>3, <1>4, <1>5, <1>6 DEF HandlerStep, ValidateToken, GetEnrollment,
     CheckRenewalWindow, SignCSR, SignError, EnsureCAConfig, RecordAudit, LoseAudit,
     LoseReply, StatementFails, RegisterKept

\* Every step of the system is a step of the register or a stutter.
LEMMA StepOfRegistry ==
    ASSUME DurableInv, [Next]_vars
    PROVE  [Registry!Next]_(Registry!registry)
<1>0. TypeInv
  BY DEF DurableInv, SerialInv
<1>1. ASSUME NEW s \in Slots, ClientStep(s) PROVE RegisterKept
  BY <1>0, <1>1, ClientFrame DEF RegisterKept
<1>2. AdminStep => RegisterKept
  BY AdminFrame DEF RegisterKept
<1>3. ProcessStep => RegisterKept
  BY <1>0, ProcessFrame DEF RegisterKept
<1>4. UNCHANGED vars => RegisterKept
  BY DEF vars, RegisterKept
<1>5. RegisterKept \/ Registry!Next
  BY <1>1, <1>2, <1>3, <1>4, HandlerStepOfRegistry DEF Next
<1> QED
  BY <1>5, KeptIsStutter

\* Whatever interleaves, fails or crashes, those who rely on the server see a
\* register: certificates become good and then revoked for ever, only revoked
\* ones are listed, and clients are told only what is in it.
THEOREM ServerImplementsRegistry == Spec => ImplementsRegistry
<1>1. DurableInv /\ [Next]_vars => DurableInv'
  BY DurableInvStep
<1>2. DurableInv /\ [Next]_vars => [Registry!Next]_(Registry!registry)
  BY StepOfRegistry
<1> QED
  BY <1>1, <1>2, DurableInvInit, RegistryInit, PTL DEF Spec, ImplementsRegistry, Registry!Spec


-----------------------------------------------------------------------------
(* Tokens                                                                  *)

\* statusTokens and tokenStatus decide as ValidateAndEnroll does.
LEMMA TokenStatusDecides ==
    ASSUME TypeOK
    PROVE  TokenStatusTruthful
<1>1. SUFFICES ASSUME NEW t \in StoredTokens, NEW h \in Hosts
               PROVE  TokenValid(t, h) <=> /\ TokenStatus(t) \in {"active", "used"}
                                           /\ bootstrap_tokens[t].hostname = h
  BY DEF TokenStatusTruthful
<1>2. bootstrap_tokens[t] # None /\ bootstrap_tokens[t].revoked \in BOOLEAN
  BY DEF StoredTokens, TypeOK, TokenRow
<1> QED
  BY <1>2 DEF TokenValid, TokenStatus

\* Whatever is shown of a token is what enroll would answer its host.
THEOREM TokenStatusIsTruthful == Spec => []TokenStatusTruthful
<1>1. TypeOK => TokenStatusTruthful
  BY TokenStatusDecides
<1> QED
  BY <1>1, ServerTypeCorrect, PTL

-----------------------------------------------------------------------------
(* Certificates                                                            *)

\* The foreign key of issued_certificates, as the rows keep it.
KnownIssuers == \A x \in StoredCertificates : issued_certificates[x].ca_id \in ca_config

IssuerInv == TypeInv /\ KnownIssuers

\* A row is stored under an authority that is in ca_config, keeps its issuer,
\* and ca_config keeps its rows.
LEMMA IssuerInvStep ==
    ASSUME IssuerInv, [Next]_vars
    PROVE  IssuerInv'
<1>0. TypeInv /\ TypeInv' /\ TypeOK
  BY TypeInvStep DEF IssuerInv, TypeInv
<1>1. ASSUME NEW s \in Slots, HandlerStep(s) PROVE KnownIssuers'
  <2>1. SUFFICES ASSUME NEW x \in Serials, issued_certificates'[x] # None
                 PROVE  issued_certificates'[x].ca_id \in ca_config'
    BY DEF KnownIssuers, StoredCertificates
  <2>2. ca_config \subseteq ca_config'
    BY <1>1, HandlerLeaves
  <2>3. CASE issued_certificates'[x] = issued_certificates[x]
    BY <2>1, <2>2, <2>3 DEF IssuerInv, KnownIssuers, StoredCertificates
  <2>4. CASE /\ StoreIssuedCertificate(s) /\ issued_certificates[x] = None
             /\ issued_certificates'[x] = IssuedCertificate(s)
    <3>1. issued_certificates'[x].ca_id = authority
      BY <2>4 DEF IssuedCertificate
    <3>2. authority \in ca_config
      BY <2>1, <2>4 DEF StoreIssuedCertificate
    <3> QED
      BY <2>2, <3>1, <3>2
  <2>5. CASE /\ issued_certificates[x] # None
             /\ issued_certificates'[x] = [issued_certificates[x] EXCEPT !.revoked = TRUE]
    <3>1. issued_certificates[x] \in CertificateRow
      BY <1>0, <2>5 DEF TypeOK
    <3>2. issued_certificates'[x].ca_id = issued_certificates[x].ca_id
      BY <2>5, <3>1 DEF CertificateRow
    <3> QED
      BY <2>2, <2>5, <3>2 DEF IssuerInv, KnownIssuers, StoredCertificates
  <2> QED
    BY <1>0, <1>1, <2>3, <2>4, <2>5, CertificateRows
<1>2. CASE UNCHANGED <<issued_certificates, ca_config>>
  BY <1>0, <1>2 DEF IssuerInv, KnownIssuers, StoredCertificates
<1>3. ASSUME NEW s \in Slots, ClientStep(s) PROVE UNCHANGED <<issued_certificates, ca_config>>
  BY <1>0, <1>3, ClientFrame
<1>4. AdminStep \/ ProcessStep \/ UNCHANGED vars
        => UNCHANGED <<issued_certificates, ca_config>>
  BY <1>0, AdminFrame, ProcessFrame DEF vars
<1> QED
  BY <1>0, <1>1, <1>2, <1>3, <1>4 DEF Next, IssuerInv

\* certificateItem and renewCertificate use the same window.
LEMMA DueIsRenewable ==
    ASSUME TypeOK
    PROVE  DueMeansRenewable
<1>1. SUFFICES ASSUME NEW x \in StoredCertificates
               PROVE  /\ RenewalStatus(x) = "due" => InsideRenewalWindow(x)
                      /\ (CertificateStatus(x) = "active" /\ RenewalStatus(x) = "ok"
                            /\ clock # issued_certificates[x].not_after)
                         => ~InsideRenewalWindow(x)
  BY DEF DueMeansRenewable
<1>2. issued_certificates[x].not_after \in Int /\ clock \in Int /\ RenewBefore \in Int
  BY ConstantsAssumption DEF StoredCertificates, TypeOK, CertificateRow
<1> QED
  BY <1>2 DEF RenewalStatus, CertificateStatus, Revoked, Expired, InsideRenewalWindow

\* What certificateCountsByCA counts for one issuer, and under which issuers a
\* certificate is counted.
LEMMA CountsOfIssuer ==
    /\ \A x \in StoredCertificates : issued_certificates[x].ca_id \in CountedCAs
    /\ \A c \in CountedCAs :
          /\ CertificateCountsByCA[c].active
                = {x \in StoredCertificates :
                     issued_certificates[x].ca_id = c /\ ~Revoked(x) /\ ~Expired(x)}
          /\ CertificateCountsByCA[c].revoked
                = {x \in StoredCertificates :
                     issued_certificates[x].ca_id = c /\ (Revoked(x) \/ Expired(x))}
BY DEF CertificateCountsByCA, CountedCAs

\* What buildCAHierarchy shows of the certificates: those of the issuers shown,
\* and all of them when every issuer in use is shown.
LEMMA HierarchyCounts ==
    ASSUME IssuerInv, NEW h \in Hierarchies
    PROVE  LET active == {x \in StoredCertificates : ~Revoked(x) /\ ~Expired(x)}
               ended  == {x \in StoredCertificates : Revoked(x) \/ Expired(x)}
           IN /\ Hierarchy(h).active \subseteq active /\ Hierarchy(h).revoked \subseteq ended
              /\ (ca_config \subseteq h.intermediates \/ h.roots = {}) =>
                    Hierarchy(h) = [revoked |-> ended, active |-> active]
<1> DEFINE active == {x \in StoredCertificates : ~Revoked(x) /\ ~Expired(x)}
           ended  == {x \in StoredCertificates : Revoked(x) \/ Expired(x)}
           found  == ShownIssuers(h) \cap CountedCAs
           issuer(x) == issued_certificates[x].ca_id
<1>1. /\ Hierarchy(h).active = UNION {CertificateCountsByCA[c].active : c \in found}
      /\ Hierarchy(h).revoked = UNION {CertificateCountsByCA[c].revoked : c \in found}
      /\ Hierarchy(h) = [revoked |-> Hierarchy(h).revoked, active |-> Hierarchy(h).active]
  BY DEF Hierarchy
<1>2. /\ UNION {CertificateCountsByCA[c].active : c \in found}
            = {x \in active : issuer(x) \in found}
      /\ UNION {CertificateCountsByCA[c].revoked : c \in found}
            = {x \in ended : issuer(x) \in found}
  BY CountsOfIssuer
<1>3. ASSUME ca_config \subseteq h.intermediates \/ h.roots = {}
      PROVE  \A x \in StoredCertificates : issuer(x) \in found
  <2>1. ca_config \subseteq ShownIssuers(h)
    BY <1>3, HierarchiesAssumption DEF ShownIssuers
  <2> QED
    BY <2>1, CountsOfIssuer DEF IssuerInv, KnownIssuers
<1> HIDE DEF found
<1> QED
  BY <1>1, <1>2, <1>3

\* List, summary and hierarchy.
LEMMA ViewsAgreeInv ==
    ASSUME IssuerInv
    PROVE  ViewsAgree
<1>0. TypeOK
  BY DEF IssuerInv, TypeInv
<1>1. \A x \in StoredCertificates :
        /\ issued_certificates[x].not_after \in Int /\ clock \in Int /\ RenewBefore \in Int
        /\ issued_certificates[x].revoked \in BOOLEAN
  BY <1>0, ConstantsAssumption DEF StoredCertificates, TypeOK, CertificateRow
<1>2. /\ Summary.active = {x \in StoredCertificates : ~Revoked(x) /\ ~Expired(x)}
      /\ Summary.revoked = {x \in StoredCertificates : Revoked(x)}
      /\ Summary.expired = {x \in StoredCertificates : ~Revoked(x) /\ Expired(x)}
      /\ Summary.expiring_soon
            = {x \in StoredCertificates : /\ ~Revoked(x) /\ ~Expired(x)
                                          /\ issued_certificates[x].not_after - clock
                                                <= RenewBefore}
  BY DEF Summary
<1>3. Summary.active = {x \in StoredCertificates : CertificateStatus(x) = "active"}
  BY <1>1, <1>2 DEF CertificateStatus
<1>4. Summary.revoked \cup Summary.expired
        = {x \in StoredCertificates : Revoked(x) \/ Expired(x)}
  BY <1>1, <1>2
<1>5. {x \in StoredCertificates : RenewalStatus(x) = "due"} \subseteq Summary.expiring_soon
  <2>1. \A x \in StoredCertificates : RenewalStatus(x) = "due"
          => /\ ~Revoked(x) /\ clock < issued_certificates[x].not_after
             /\ issued_certificates[x].not_after - clock <= RenewBefore
    BY DEF RenewalStatus
  <2>2. \A x \in StoredCertificates : RenewalStatus(x) = "due" => ~Expired(x)
    BY <1>1, <2>1 DEF Expired
  <2> QED
    BY <1>2, <2>1, <2>2
<1> QED
  BY <1>0, <1>2, <1>3, <1>4, <1>5, HierarchyCounts, DueIsRenewable DEF ViewsAgree

\* Three pieces of code that list and count certificates agree in every state,
\* after restarts with other intermediates too: whichever CAs' metadata is
\* loaded, the hierarchy counts none differently from the summary, it counts all
\* of them when every issuer is shown, as without metadata, and what is shown as
\* due is what the server renews.
THEOREM ViewsAlwaysAgree == Spec => []ViewsAgree
<1>1. Init => IssuerInv
  BY TypeInvInit DEF Init, IssuerInv, KnownIssuers, StoredCertificates
<1>2. IssuerInv /\ [Next]_vars => IssuerInv'
  BY IssuerInvStep
<1>3. IssuerInv => ViewsAgree
  BY ViewsAgreeInv
<1> QED
  BY <1>1, <1>2, <1>3, PTL DEF Spec

=============================================================================
