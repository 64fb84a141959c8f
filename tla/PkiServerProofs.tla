---------------------------- MODULE PkiServerProofs ----------------------------
(***************************************************************************)
(* Theorems about PkiServer, for any number of slots, tokens, hosts,       *)
(* enrollments, certificates and intermediates, any clock and any failures.*)
(*                                                                         *)
(* First what a handler's local state looks like at each of its steps      *)
(* (TypeInv), and that nobody else names the serial it signs with          *)
(* (SerialsApart); then that no statement takes back what a row says       *)
(* (TablesGrow); hence what a handler has done when it comes to report it  *)
(* is still in the tables, whatever the others did meanwhile (DurableInv). *)
(***************************************************************************)
EXTENDS PkiServer, TLAPS

USE DEF process, tables

-----------------------------------------------------------------------------
(* Types and control flow                                                  *)

\* The local states a handler can be in: the steps of its operation, and the
\* fields that are set at each of them.
HandlerState ==
    {r \in Request :
        /\ \/ r.op = "none" /\ r = Idle
           \/ /\ r.op = "enroll"
              /\ r.step \in {"decode", "lookup", "insert", "audit", "reply"}
              /\ r.step # "decode" => r.token \in Tokens /\ r.hostname \in Hosts
              /\ r.step \in {"audit", "reply"} => r.enrollment \in EnrollmentIds
           \/ /\ r.op = "issue"
              /\ r.step \in {"decode", "lookup", "sign", "ca", "store", "audit", "reply"}
              /\ r.step # "decode" => r.enrollment \in EnrollmentIds
           \/ /\ r.op = "renew"
              /\ r.step \in {"decode", "lookup", "sign", "ca", "store", "audit", "reply"}
              /\ r.step = "lookup" => r.serial \in Serials
           \/ /\ r.op = "revoke" /\ r.step \in {"decode", "update", "insert", "audit", "reply"}
              /\ r.step # "decode" => r.serial \in Serials
        /\ r.op \in {"issue", "renew"} /\ r.step \in {"ca", "store", "audit", "reply"}
              => r.serial \in Serials}

\* A handler that signs has an authority, which stays until it is done.
AuthorityInv ==
    /\ \A s \in Slots : req[s].step \in {"ca", "store"} => authority \in CAs
    /\ server = "down" => \A s \in Slots : req[s] = Idle

RequestInv == req \in [Slots -> HandlerState] /\ AuthorityInv

TypeInv == TypeOK /\ RequestInv

\* A free slot is in such a state.
LEMMA IdleIsHandlerState == Idle \in HandlerState
BY ConstantsAssumption DEF Idle, HandlerState, Request

\* Answering with an error frees the slot.
LEMMA RejectKeepsRequests ==
    ASSUME TypeInv, NEW s \in Slots, Reject(s), UNCHANGED <<server, authority>>
    PROVE  RequestInv' /\ req' \in [Slots -> Request]
BY IdleIsHandlerState DEF TypeInv, Reject, HandlerState, RequestInv, AuthorityInv, Idle

\* A handler that advances to another state of its operation.
LEMMA AdvanceKeepsRequests ==
    ASSUME TypeInv, NEW s \in Slots, NEW r \in HandlerState, req[s].step # "idle",
           r.step \in {"ca", "store"} => authority \in CAs,
           req' = [req EXCEPT ![s] = r], UNCHANGED <<server, authority>>
    PROVE  RequestInv' /\ req' \in [Slots -> Request]
BY DEF TypeInv, HandlerState, RequestInv, AuthorityInv, Idle

\* Receiving a request fills a free slot.
LEMMA ReceiveKeepsTypes ==
    ASSUME TypeInv, NEW s \in Slots, NEW op \in {"enroll", "issue", "renew", "revoke"},
           NEW old \in Serials \cup {None}, Receive(s, op, old)
    PROVE  TypeInv'
<1> DEFINE r == [Idle EXCEPT !.op = op, !.step = "decode", !.serial = old]
<1>1. r \in Request
  BY IdleIsHandlerState DEF HandlerState, Request
<1>2. r.op = op /\ r.step = "decode"
  BY DEF Idle
<1>3. req' = [req EXCEPT ![s] = r]
  BY DEF Receive
<1> HIDE DEF r
<1>4. r \in HandlerState
  BY <1>1, <1>2 DEF HandlerState
<1>5. req' \in [Slots -> HandlerState] /\ req' \in [Slots -> Request]
  BY <1>3, <1>4 DEF TypeInv, RequestInv, HandlerState
<1>6. AuthorityInv'
  BY <1>2, <1>3 DEF TypeInv, RequestInv, AuthorityInv, Receive
<1> QED
  BY <1>5, <1>6 DEF TypeInv, TypeOK, Receive, RequestInv

\* A body that has arrived takes the handler on.
LEMMA DecodeKeepsTypes ==
    ASSUME TypeInv, NEW s \in Slots, NEW op, NEW r \in HandlerState,
           r.step \notin {"ca", "store"}, Decode(s, op, r)
    PROVE  TypeInv'
<1>1. RequestInv' /\ req' \in [Slots -> Request]
  BY AdvanceKeepsRequests DEF Decode
<1> QED
  BY <1>1 DEF Decode, TypeInv, TypeOK

\* What clients send.
LEMMA ClientStepKeepsTypes ==
    ASSUME TypeInv, NEW s \in Slots, ClientStep(s)
    PROVE  TypeInv'
<1>0. req[s] \in HandlerState /\ req[s] \in Request
  BY DEF TypeInv, RequestInv, HandlerState
<1>1. ASSUME NEW t \in Tokens, NEW h \in Hosts, EnrollRequest(s, t, h)
      PROVE  TypeInv'
  <2> DEFINE r == [req[s] EXCEPT !.step = "lookup", !.token = t,
                                 !.hostname = h, !.dead = DeadTokens]
  <2>1. r \in Request
    BY <1>0 DEF Request, DeadTokens
  <2>2. r.op = "enroll" /\ r.step = "lookup" /\ r.token = t /\ r.hostname = h
    BY <1>0, <1>1 DEF EnrollRequest, Decode, Request
  <2>3. Decode(s, "enroll", r)
    BY <1>1 DEF EnrollRequest
  <2> HIDE DEF r
  <2>4. r \in HandlerState
    BY <2>1, <2>2 DEF HandlerState
  <2> QED
    BY <2>2, <2>3, <2>4, DecodeKeepsTypes
<1>2. ASSUME NEW e \in EnrollmentIds, CertificateRequest(s, e)
      PROVE  TypeInv'
  <2> DEFINE r == [req[s] EXCEPT !.step = "lookup", !.enrollment = e]
  <2>1. r \in Request
    BY <1>0 DEF Request
  <2>2. r.op = "issue" /\ r.step = "lookup" /\ r.enrollment = e
    BY <1>0, <1>2 DEF CertificateRequest, Decode, Request
  <2>3. Decode(s, "issue", r)
    BY <1>2 DEF CertificateRequest
  <2> HIDE DEF r
  <2>4. r \in HandlerState
    BY <2>1, <2>2 DEF HandlerState
  <2> QED
    BY <2>2, <2>3, <2>4, DecodeKeepsTypes
<1>3. ASSUME NEW e \in EnrollmentIds \cup {None}, RenewRequest(s, e)
      PROVE  TypeInv'
  <2> DEFINE step == IF req[s].serial = None THEN "sign" ELSE "lookup"
             r == [req[s] EXCEPT !.enrollment = e, !.step = step]
  <2>1. r \in Request
    BY <1>0 DEF Request
  <2>2. /\ r.op = "renew" /\ r.serial = req[s].serial /\ r.step = step
        /\ req[s].serial \in Serials \cup {None}
    BY <1>0, <1>3 DEF RenewRequest, Decode, Request
  <2>3. Decode(s, "renew", r)
    BY <1>3 DEF RenewRequest
  <2> HIDE DEF r
  <2>4. r \in HandlerState
    BY <2>1, <2>2 DEF HandlerState
  <2> QED
    BY <2>2, <2>3, <2>4, DecodeKeepsTypes
<1>4. ASSUME NEW x \in Serials, RevokeRequest(s, x)
      PROVE  TypeInv'
  <2> DEFINE r == [req[s] EXCEPT !.step = "update", !.serial = x]
  <2>1. r \in Request
    BY <1>0 DEF Request
  <2>2. r.op = "revoke" /\ r.step = "update" /\ r.serial = x
    BY <1>0, <1>4 DEF RevokeRequest, Decode, Request
  <2>3. Decode(s, "revoke", r)
    BY <1>4 DEF RevokeRequest
  <2> HIDE DEF r
  <2>4. r \in HandlerState
    BY <2>1, <2>2 DEF HandlerState
  <2> QED
    BY <2>2, <2>3, <2>4, DecodeKeepsTypes
<1>5. CASE AcceptRequest(s)
  BY <1>5, ReceiveKeepsTypes DEF AcceptRequest
<1>6. CASE DecodeFails(s)
  <2>1. RequestInv' /\ req' \in [Slots -> Request]
    BY <1>6, RejectKeepsRequests DEF DecodeFails, Reject
  <2> QED
    BY <1>6, <2>1 DEF DecodeFails, TypeInv, TypeOK
<1> QED
  BY <1>1, <1>2, <1>3, <1>4, <1>5, <1>6 DEF ClientStep

\* Going on to the next step of an operation.
LEMMA GotoState ==
    ASSUME NEW q \in HandlerState, NEW step,
           \/ q.op = "enroll" /\ q.step = "lookup" /\ step = "insert"
           \/ q.op = "renew" /\ step = "sign"
           \/ q.op \in {"issue", "renew"} /\ q.step = "ca" /\ step = "store"
           \/ q.op \in {"issue", "renew"} /\ q.step = "store" /\ step = "audit"
           \/ q.op = "revoke" /\ q.step # "decode" /\ step \in {"insert", "audit"}
           \/ q.op # "none" /\ q.step = "audit" /\ step = "reply"
    PROVE  [q EXCEPT !.step = step] \in HandlerState
<1> DEFINE r == [q EXCEPT !.step = step]
<1>1. r \in Request
  BY DEF HandlerState, Request
<1>2. /\ r.step = step /\ r.op = q.op /\ r.token = q.token /\ r.hostname = q.hostname
      /\ r.enrollment = q.enrollment /\ r.serial = q.serial
  BY DEF HandlerState, Request
<1> HIDE DEF r
<1>3. r \in HandlerState
  BY <1>1, <1>2 DEF HandlerState, Idle
<1> QED
  BY <1>3 DEF r

\* What every step of a handler needs: its state is one of HandlerState.
LEMMA SlotState ==
    ASSUME TypeInv, NEW s \in Slots
    PROVE  /\ req[s] \in HandlerState
           /\ req[s].step # "idle" <=> req[s].op # "none"
           /\ req[s].step = "sign" => req[s].op \in {"issue", "renew"}
           /\ req[s].step \in {"ca", "store"} => /\ req[s].op \in {"issue", "renew"}
                                                 /\ req[s].serial \in Serials
                                                 /\ authority \in CAs
<1>1. req[s] \in HandlerState
  BY DEF TypeInv, RequestInv
<1>2. req[s].step \in {"ca", "store"} => authority \in CAs
  BY DEF TypeInv, RequestInv, AuthorityInv
<1> QED
  BY <1>1, <1>2 DEF HandlerState, Idle

\* What a handler that reports has to report.
LEMMA SubjectType ==
    ASSUME TypeInv, NEW s \in Slots, req[s].step \in {"audit", "reply"}
    PROVE  \/ req[s].op = "enroll" /\ Subject(s) \in EnrollmentIds
           \/ req[s].op \in {"issue", "renew", "revoke"} /\ Subject(s) \in Serials
BY SlotState DEF HandlerState, Subject, Idle

\* A handler that goes on to the next step of its operation.
LEMMA GotoKeepsRequests ==
    ASSUME TypeInv, NEW s \in Slots, NEW step, Goto(s, step),
           UNCHANGED <<server, authority>>,
           \/ At(s, "enroll", "lookup") /\ step = "insert"
           \/ req[s].op = "renew" /\ step = "sign"
           \/ req[s].step = "ca" /\ step = "store"
           \/ req[s].step = "store" /\ step = "audit"
           \/ (At(s, "revoke", "update") \/ At(s, "revoke", "insert")) /\ step \in {"insert", "audit"}
           \/ req[s].step = "audit" /\ step = "reply"
    PROVE  RequestInv' /\ req' \in [Slots -> Request]
<1> DEFINE r == [req[s] EXCEPT !.step = step]
<1>1. r \in HandlerState
  BY SlotState, GotoState DEF At
<1>2. r.step = step
  BY SlotState DEF HandlerState, Request
<1>3. req' = [req EXCEPT ![s] = r]
  BY DEF Goto
<1>4. req[s].step # "idle" /\ (step = "store" => authority \in CAs) /\ step # "ca"
  BY SlotState DEF At
<1> HIDE DEF r
<1> QED
  BY <1>1, <1>2, <1>3, <1>4, AdvanceKeepsRequests

\* Writing one row of a table.
LEMMA WriteRow ==
    ASSUME NEW Keys, NEW Rows, NEW table \in [Keys -> Rows \cup {None}], NEW k, NEW row \in Rows
    PROVE  [table EXCEPT ![k] = row] \in [Keys -> Rows \cup {None}]
OBVIOUS

\* Every statement of a handler, and every way it can fail.
LEMMA HandlerStepKeepsTypes ==
    ASSUME TypeInv, NEW s \in Slots, HandlerStep(s)
    PROVE  TypeInv'
<1>0. TypeOK /\ req[s] \in HandlerState
  BY SlotState DEF TypeInv
<1>a. ASSUME RequestInv' /\ req' \in [Slots -> Request], UNCHANGED <<tables, process>>
      PROVE  TypeInv'
  BY <1>0, <1>a DEF TypeInv, TypeOK
<1>1. CASE ValidateToken(s)
  <2>1. UNCHANGED <<tables, process>>
    BY <1>1 DEF ValidateToken
  <2>2. Reject(s) \/ (At(s, "enroll", "lookup") /\ Goto(s, "insert"))
    BY <1>1 DEF ValidateToken
  <2>3. RequestInv' /\ req' \in [Slots -> Request]
    BY <2>1, <2>2, RejectKeepsRequests, GotoKeepsRequests
  <2> QED
    BY <1>a, <2>1, <2>3
<1>2. CASE CreateEnrollment(s)
  <2>1. PICK e \in EnrollmentIds :
          /\ enrollments' = [enrollments EXCEPT
                ![e] = [hostname |-> req[s].hostname, token_id |-> req[s].token,
                        dead |-> req[s].dead]]
          /\ req' = [req EXCEPT ![s].step = "audit", ![s].enrollment = e]
    BY <1>2 DEF CreateEnrollment, FreshEnrollmentIds
  <2> DEFINE r == [req[s] EXCEPT !.step = "audit", !.enrollment = e]
  <2>2. r \in Request
    BY <1>0 DEF HandlerState, Request
  <2>3. /\ r.op = "enroll" /\ r.step = "audit" /\ r.enrollment = e
        /\ r.token \in Tokens /\ r.hostname \in Hosts
    BY <1>0, <1>2 DEF HandlerState, Request, CreateEnrollment, At
  <2>4. req' = [req EXCEPT ![s] = r]
    BY <2>1
  <2> HIDE DEF r
  <2>5. r \in HandlerState
    BY <2>2, <2>3 DEF HandlerState
  <2>6. req[s].step # "idle" /\ UNCHANGED <<server, authority>>
    BY <1>2 DEF CreateEnrollment, At
  <2>7. RequestInv' /\ req' \in [Slots -> Request]
    BY <2>3, <2>4, <2>5, <2>6, AdvanceKeepsRequests
  <2>8. req[s].hostname \in Hosts /\ req[s].token \in Tokens /\ req[s].dead \subseteq Tokens
    BY <1>0, <1>2 DEF CreateEnrollment, At, HandlerState, Request
  <2>9. enrollments' \in [EnrollmentIds -> EnrollmentRow \cup {None}]
    BY <1>0, <2>1, <2>8 DEF TypeOK, EnrollmentRow
  <2> QED
    BY <1>0, <1>2, <2>7, <2>9 DEF CreateEnrollment, TypeInv, TypeOK
<1>3. CASE GetEnrollment(s)
  <2>1. UNCHANGED <<tables, process>>
    BY <1>3 DEF GetEnrollment
  <2>2. CASE Reject(s)
    BY <1>a, <2>1, <2>2, RejectKeepsRequests
  <2>3. CASE enrollments[req[s].enrollment] # None
    <3> DEFINE host == enrollments[req[s].enrollment].hostname
               r == [req[s] EXCEPT !.step = "sign", !.hostname = host]
    <3>1. req[s].op = "issue" /\ req[s].step = "lookup" /\ req[s].enrollment \in EnrollmentIds
      BY <1>0, <1>3 DEF GetEnrollment, At, HandlerState
    <3>2. host \in Hosts
      BY <1>0, <2>3, <3>1 DEF TypeOK, EnrollmentRow
    <3>3. r \in Request /\ r.op = "issue" /\ r.step = "sign" /\ r.enrollment \in EnrollmentIds
      BY <1>0, <3>1, <3>2 DEF HandlerState, Request
    <3>4. req' = [req EXCEPT ![s] = r]
      BY <1>3, <2>3 DEF GetEnrollment
    <3> HIDE DEF r
    <3>5. r \in HandlerState
      BY <3>3 DEF HandlerState
    <3>6. RequestInv' /\ req' \in [Slots -> Request]
      BY <2>1, <3>1, <3>3, <3>4, <3>5, AdvanceKeepsRequests
    <3> QED
      BY <1>a, <2>1, <3>6
  <2> QED
    BY <1>3, <2>2, <2>3 DEF GetEnrollment
<1>4. CASE CheckRenewalWindow(s)
  <2>1. UNCHANGED <<tables, process>>
    BY <1>4 DEF CheckRenewalWindow
  <2>2. Reject(s) \/ (At(s, "renew", "lookup") /\ Goto(s, "sign"))
    BY <1>4 DEF CheckRenewalWindow
  <2>3. RequestInv' /\ req' \in [Slots -> Request]
    BY <2>1, <2>2, RejectKeepsRequests, GotoKeepsRequests DEF At
  <2> QED
    BY <1>a, <2>1, <2>3
<1>5. CASE SignCSR(s)
  <2>1. PICK x \in Serials :
          req' = [req EXCEPT ![s].step = "ca", ![s].serial = x,
                             ![s].not_after = clock - BackDate + Lifetime]
    BY <1>5 DEF SignCSR, UnnamedSerials
  <2>2. PICK t \in Int : t = clock - BackDate + Lifetime
    BY <1>0, ConstantsAssumption DEF TypeOK
  <2> DEFINE r == [req[s] EXCEPT !.step = "ca", !.serial = x, !.not_after = t]
  <2>3. r \in Request
    BY <1>0 DEF HandlerState, Request
  <2>4. /\ r.op = req[s].op /\ r.op \in {"issue", "renew"} /\ r.step = "ca"
        /\ r.serial = x /\ r.enrollment = req[s].enrollment
    BY <1>0, <1>5, SlotState DEF HandlerState, Request, SignCSR
  <2>5. req' = [req EXCEPT ![s] = r]
    BY <2>1, <2>2
  <2> HIDE DEF r
  <2>6. r \in HandlerState
    BY <1>0, <1>5, <2>3, <2>4 DEF HandlerState, SignCSR
  <2>7. authority \in CAs /\ req[s].step # "idle" /\ UNCHANGED <<tables, process>>
    BY <1>0, <1>5 DEF SignCSR, TypeOK
  <2>8. RequestInv' /\ req' \in [Slots -> Request]
    BY <2>5, <2>6, <2>7, AdvanceKeepsRequests
  <2> QED
    BY <1>a, <2>7, <2>8
<1>6. CASE SignError(s)
  <2>1. RequestInv' /\ req' \in [Slots -> Request]
    BY <1>6, RejectKeepsRequests DEF SignError
  <2> QED
    BY <1>6, <1>a, <2>1 DEF SignError
<1>7. CASE EnsureCAConfig(s)
  <2>1. RequestInv' /\ req' \in [Slots -> Request]
    BY <1>7, GotoKeepsRequests DEF EnsureCAConfig
  <2>2. ca_config' \subseteq CAs
    BY <1>0, <1>7, SlotState DEF EnsureCAConfig, TypeOK
  <2> QED
    BY <1>0, <1>7, <2>1, <2>2 DEF EnsureCAConfig, TypeInv, TypeOK
<1>8. CASE StoreIssuedCertificate(s)
  <2>1. RequestInv' /\ req' \in [Slots -> Request]
    BY <1>8, GotoKeepsRequests, RejectKeepsRequests DEF StoreIssuedCertificate
  <2>2. req[s].op \in {"issue", "renew"} /\ authority \in CAs
    BY <1>8, SlotState DEF StoreIssuedCertificate
  <2>3. /\ req[s].enrollment \in EnrollmentIds \cup {None} /\ req[s].not_after \in Int
        /\ req[s].hostname \in Hosts \cup {None}
    BY <1>0 DEF HandlerState, Request
  <2>4. IssuedCertificate(s) \in CertificateRow
    BY <2>2, <2>3 DEF CertificateRow, IssuedCertificate
  <2>5. PICK row \in CertificateRow :
          \/ issued_certificates' = issued_certificates
          \/ issued_certificates' = [issued_certificates EXCEPT ![req[s].serial] = row]
    BY <1>8, <2>4 DEF StoreIssuedCertificate
  <2>6. issued_certificates \in [Serials -> CertificateRow \cup {None}]
    BY <1>0 DEF TypeOK
  <2>7. issued_certificates' \in [Serials -> CertificateRow \cup {None}]
    BY <2>5, <2>6, WriteRow
  <2> QED
    BY <1>0, <1>8, <2>1, <2>7 DEF StoreIssuedCertificate, TypeInv, TypeOK
<1>9. CASE MarkRevoked(s)
  <2>1. RequestInv' /\ req' \in [Slots -> Request]
    BY <1>9, GotoKeepsRequests DEF MarkRevoked, At
  <2>2. req[s].serial \in Serials
    BY <1>0, <1>9 DEF MarkRevoked, At, HandlerState
  <2>3. issued_certificates' \in [Serials -> CertificateRow \cup {None}]
    <3> DEFINE old == issued_certificates[req[s].serial]
    <3>1. issued_certificates \in [Serials -> CertificateRow \cup {None}]
      BY <1>0 DEF TypeOK
    <3>2. CASE old = None
      BY <1>9, <3>1, <3>2 DEF MarkRevoked
    <3>3. CASE old # None
      <4>1. [old EXCEPT !.revoked = TRUE] \in CertificateRow
        BY <2>2, <3>1, <3>3 DEF CertificateRow
      <4>2. issued_certificates' = [issued_certificates EXCEPT
                                      ![req[s].serial] = [old EXCEPT !.revoked = TRUE]]
        BY <1>9, <3>3 DEF MarkRevoked
      <4> QED
        BY <3>1, <4>1, <4>2, WriteRow
    <3> QED
      BY <3>2, <3>3
  <2> QED
    BY <1>0, <1>9, <2>1, <2>3 DEF MarkRevoked, TypeInv, TypeOK
<1>10. CASE InsertRevoked(s)
  <2>1. RequestInv' /\ req' \in [Slots -> Request]
    BY <1>10, GotoKeepsRequests, RejectKeepsRequests DEF InsertRevoked, At
  <2>2. req[s].serial \in Serials
    BY <1>0, <1>10 DEF InsertRevoked, At, HandlerState
  <2>3. revoked_certificates' \subseteq Serials
    BY <1>0, <1>10, <2>2 DEF InsertRevoked, TypeOK
  <2> QED
    BY <1>0, <1>10, <2>1, <2>3 DEF InsertRevoked, TypeInv, TypeOK
<1>11. CASE RecordAudit(s)
  <2>1. RequestInv' /\ req' \in [Slots -> Request]
    BY <1>11, GotoKeepsRequests DEF RecordAudit
  <2>2. <<AuditAction(req[s].op), Subject(s)>> \in
          ({"enrollment.created"} \X EnrollmentIds)
            \cup ({"certificate.issued", "certificate.renewed",
                   "certificate.revoked"} \X Serials)
    BY <1>11, SubjectType DEF RecordAudit, AuditAction
  <2> QED
    BY <1>0, <1>11, <2>1, <2>2 DEF RecordAudit, TypeInv, TypeOK
<1>12. CASE LoseAudit(s)
  <2>1. RequestInv' /\ req' \in [Slots -> Request]
    BY <1>12, GotoKeepsRequests DEF LoseAudit
  <2> QED
    BY <1>12, <1>a, <2>1 DEF LoseAudit
<1>13. CASE Reply(s)
  <2>1. RequestInv' /\ req' \in [Slots -> Request]
    BY <1>13, RejectKeepsRequests DEF Reply, Reject
  <2>2. <<req[s].op, Subject(s)>> \in ({"enroll"} \X EnrollmentIds)
            \cup ({"issue", "renew", "revoke"} \X Serials)
    BY <1>13, SubjectType DEF Reply
  <2> QED
    BY <1>0, <1>13, <2>1, <2>2 DEF Reply, TypeInv, TypeOK
<1>14. CASE LoseReply(s)
  <2>1. RequestInv' /\ req' \in [Slots -> Request]
    BY <1>14, RejectKeepsRequests DEF LoseReply
  <2> QED
    BY <1>14, <1>a, <2>1 DEF LoseReply
<1>15. CASE StatementFails(s)
  <2>1. UNCHANGED <<tables, process>>
    BY <1>15 DEF StatementFails
  <2>2. Reject(s) \/ (At(s, "renew", "lookup") /\ Goto(s, "sign"))
    BY <1>15 DEF StatementFails
  <2>3. RequestInv' /\ req' \in [Slots -> Request]
    BY <2>1, <2>2, RejectKeepsRequests, GotoKeepsRequests DEF At
  <2> QED
    BY <1>a, <2>1, <2>3
<1> QED
  BY <1>1, <1>2, <1>3, <1>4, <1>5, <1>6, <1>7, <1>8, <1>9, <1>10, <1>11, <1>12,
     <1>13, <1>14, <1>15 DEF HandlerStep

\* The administrator's statements.
LEMMA AdminStepKeepsTypes ==
    ASSUME TypeInv, AdminStep
    PROVE  TypeInv'
<1>1. PICK t \in Tokens : \/ \E h \in Hosts, ttl \in TTLs : CreateToken(t, h, ttl)
                          \/ RevokeToken(t)
  BY DEF AdminStep
<1>2. bootstrap_tokens' \in [Tokens -> TokenRow \cup {None}]
  <2>1. CASE \E h \in Hosts, ttl \in TTLs : CreateToken(t, h, ttl)
    <3>1. PICK h \in Hosts, ttl \in TTLs : CreateToken(t, h, ttl)
      BY <2>1
    <3>2. clock + ttl \in Int
      BY ConstantsAssumption DEF TypeInv, TypeOK
    <3> QED
      BY <3>1, <3>2 DEF CreateToken, TokenRow, TypeInv, TypeOK
  <2>2. CASE RevokeToken(t)
    BY <2>2 DEF RevokeToken, TokenRow, TypeInv, TypeOK
  <2> QED
    BY <1>1, <2>1, <2>2
<1>3. UNCHANGED <<enrollments, issued_certificates, revoked_certificates,
                  ca_config, audit_logs, req, process>>
  BY <1>1 DEF CreateToken, RevokeToken
<1> QED
  BY <1>2, <1>3 DEF TypeInv, TypeOK, RequestInv, AuthorityInv

\* Starting, stopping and killing the server, and the clock.
LEMMA ProcessStepKeepsTypes ==
    ASSUME TypeInv, ProcessStep
    PROVE  TypeInv'
<1>1. CASE Shutdown
  BY <1>1 DEF Shutdown, TypeInv, TypeOK, RequestInv, AuthorityInv
<1>2. CASE Exit
  BY <1>2 DEF Exit, TypeInv, TypeOK, RequestInv, AuthorityInv
<1>3. CASE Crash
  <2>1. req' \in [Slots -> HandlerState] /\ req' \in [Slots -> Request]
    BY <1>3, IdleIsHandlerState DEF Crash, HandlerState
  <2>2. AuthorityInv'
    BY <1>3 DEF Crash, AuthorityInv, Idle
  <2> QED
    BY <1>3, <2>1, <2>2 DEF Crash, TypeInv, TypeOK, RequestInv
<1>4. CASE Start
  <2>1. AuthorityInv'
    BY <1>4 DEF Start, TypeInv, RequestInv, AuthorityInv, Idle
  <2> QED
    BY <1>4, <2>1 DEF Start, TypeInv, TypeOK, RequestInv
<1>5. CASE Tick
  BY <1>5 DEF Tick, TypeInv, TypeOK, RequestInv, AuthorityInv
<1> QED
  BY <1>1, <1>2, <1>3, <1>4, <1>5 DEF ProcessStep

\* Every step of the system.
LEMMA TypeInvStep ==
    ASSUME TypeInv, [Next]_vars
    PROVE  TypeInv'
<1>1. CASE UNCHANGED vars
  BY <1>1 DEF vars, TypeInv, TypeOK, RequestInv, AuthorityInv
<1>2. CASE Next
  BY <1>2, ClientStepKeepsTypes, HandlerStepKeepsTypes, AdminStepKeepsTypes,
     ProcessStepKeepsTypes DEF Next
<1> QED
  BY <1>1, <1>2

\* The empty database and the stopped server.
LEMMA TypeInvInit == Init => TypeInv
<1> SUFFICES ASSUME Init PROVE TypeInv
  OBVIOUS
<1>1. req \in [Slots -> HandlerState] /\ req \in [Slots -> Request]
  BY IdleIsHandlerState DEF Init, HandlerState
<1> QED
  BY <1>1 DEF Init, TypeInv, TypeOK, RequestInv, AuthorityInv, Idle

\* Every table keeps its columns' types and every handler is where its code can
\* be (handlers.go), whatever requests interleave, statements fail or processes
\* die.
THEOREM ServerTypeCorrect == Spec => []TypeOK
<1>1. TypeInv => TypeOK
  BY DEF TypeInv
<1> QED
  BY <1>1, TypeInvInit, TypeInvStep, PTL DEF Spec

-----------------------------------------------------------------------------
(* Frames of the steps; nobody names a serial that is being signed         *)

\* A handler changes its own slot only, and either frees it, advances its step
\* or is one of the three that fill in a field.
LEMMA HandlerFrame ==
    ASSUME TypeInv, NEW s \in Slots, HandlerStep(s)
    PROVE  /\ \A u \in Slots \ {s} : req'[u] = req[u]
           /\ \/ req'[s] = Idle
              \/ \E step \in {"insert", "sign", "store", "audit", "reply"} :
                    Goto(s, step) /\ (step = "store" => req[s].step = "ca")
              \/ CreateEnrollment(s)
              \/ GetEnrollment(s)
              \/ SignCSR(s)
<1>1. req \in [Slots -> HandlerState]
  BY DEF TypeInv, RequestInv
<1>2. Reject(s) => req'[s] = Idle /\ \A u \in Slots \ {s} : req'[u] = req[u]
  BY <1>1 DEF Reject
<1>3. ASSUME NEW step, Goto(s, step) PROVE \A u \in Slots \ {s} : req'[u] = req[u]
  BY <1>1, <1>3 DEF Goto
<1>4. CASE ValidateToken(s) \/ CheckRenewalWindow(s)
  BY <1>2, <1>3, <1>4 DEF ValidateToken, CheckRenewalWindow
<1>14. CASE GetEnrollment(s)
  BY <1>1, <1>2, <1>14 DEF GetEnrollment
<1>5. CASE CreateEnrollment(s)
  BY <1>1, <1>5 DEF CreateEnrollment
<1>6. CASE SignCSR(s)
  BY <1>1, <1>6 DEF SignCSR
<1>7. CASE SignError(s) \/ LoseReply(s)
  BY <1>2, <1>7 DEF SignError, LoseReply
<1>8. CASE EnsureCAConfig(s)
  BY <1>3, <1>8 DEF EnsureCAConfig
<1>9. CASE StoreIssuedCertificate(s)
  BY <1>2, <1>3, <1>9 DEF StoreIssuedCertificate
<1>10. CASE MarkRevoked(s) \/ InsertRevoked(s)
  BY <1>2, <1>3, <1>10 DEF MarkRevoked, InsertRevoked
<1>11. CASE RecordAudit(s) \/ LoseAudit(s)
  BY <1>3, <1>11 DEF RecordAudit, LoseAudit
<1>12. CASE Reply(s)
  BY <1>1, <1>12 DEF Reply
<1>13. CASE StatementFails(s)
  BY <1>2, <1>3, <1>13 DEF StatementFails
<1> QED
  BY <1>4, <1>5, <1>6, <1>7, <1>8, <1>9, <1>10, <1>11, <1>12, <1>13, <1>14 DEF HandlerStep

\* No step forgets a certificate, and the only one that adds a row adds the row
\* of the handler's own serial, where there is none.
LEMMA CertificateRows ==
    ASSUME TypeInv, NEW s \in Slots, HandlerStep(s), NEW x \in Serials
    PROVE  \/ issued_certificates'[x] = issued_certificates[x]
           \/ /\ StoreIssuedCertificate(s) /\ req[s].serial = x
              /\ req'[s].step = "audit"
              /\ issued_certificates[x] = None
              /\ issued_certificates'[x] = IssuedCertificate(s)
           \/ /\ MarkRevoked(s) /\ req[s].serial = x /\ issued_certificates[x] # None
              /\ issued_certificates'[x] = [issued_certificates[x] EXCEPT !.revoked = TRUE]
<1>1. issued_certificates \in [Serials -> CertificateRow \cup {None}]
  BY DEF TypeInv, TypeOK
<1>2. CASE StoreIssuedCertificate(s)
  <2>1. req \in [Slots -> HandlerState] /\ req[s].serial \in Serials
    BY <1>2, SlotState DEF StoreIssuedCertificate, TypeInv, RequestInv
  <2>2. Goto(s, "audit") => req'[s].step = "audit"
    BY <2>1 DEF Goto, HandlerState, Request
  <2> QED
    BY <1>1, <1>2, <2>1, <2>2 DEF StoreIssuedCertificate
<1>3. CASE MarkRevoked(s)
  BY <1>1, <1>3, SlotState DEF MarkRevoked, At, HandlerState
<1>4. CASE UNCHANGED issued_certificates
  BY <1>4
<1> QED
  BY <1>2, <1>3, <1>4 DEF HandlerStep, ValidateToken, CreateEnrollment, GetEnrollment,
     CheckRenewalWindow, SignCSR, SignError, EnsureCAConfig, InsertRevoked,
     RecordAudit, LoseAudit, Reply, LoseReply, StatementFails


\* What a client leaves alone: it fills a free slot, or takes one on whose body
\* has arrived, or frees it.
LEMMA ClientFrame ==
    ASSUME TypeInv, NEW s \in Slots, ClientStep(s)
    PROVE  /\ req[s] = Idle \/ req[s].step = "decode"
           /\ UNCHANGED <<tables, server, authority, replies, clock>>
           /\ \A u \in Slots \ {s} : req'[u] = req[u]
           /\ req'[s].step \in {"idle", "decode", "lookup", "sign", "update"}
           /\ \/ req'[s].serial \notin UnpublishedSerials \ {None}
              \/ req[s].step = "decode" /\ req'[s].serial = req[s].serial
           /\ req'[s].step = "sign" => req'[s].op = "renew"
           /\ req'[s].op = "enroll" /\ req'[s].step = "lookup" => req'[s].dead = DeadTokens
           /\ req'[s].step # "idle" => server # "down"
<1>1. req \in [Slots -> HandlerState]
  BY DEF TypeInv, RequestInv
<1>a. req[s].step = "decode" => server # "down"
  BY DEF TypeInv, RequestInv, AuthorityInv, Idle
<1>2. CASE \E t \in Tokens, h \in Hosts : EnrollRequest(s, t, h)
  BY <1>1, <1>a, <1>2 DEF EnrollRequest, Decode, HandlerState, Request
<1>3. CASE \E e \in EnrollmentIds : CertificateRequest(s, e)
  BY <1>1, <1>a, <1>3 DEF CertificateRequest, Decode, HandlerState, Request
<1>4. CASE \E e \in EnrollmentIds \cup {None} : RenewRequest(s, e)
  BY <1>1, <1>a, <1>4 DEF RenewRequest, Decode, HandlerState, Request
<1>5. CASE \E x \in Serials : RevokeRequest(s, x)
  BY <1>1, <1>a, <1>5 DEF RevokeRequest, Decode, HandlerState, Request
<1>6. CASE AcceptRequest(s)
  <2>1. PICK op \in {"enroll", "issue", "renew", "revoke"},
             old \in {None} \cup (Serials \ UnpublishedSerials) : Receive(s, op, old)
    BY <1>6 DEF AcceptRequest
  <2> QED
    BY <1>1, <2>1 DEF Receive, Idle
<1>7. CASE DecodeFails(s)
  BY <1>1, <1>7 DEF DecodeFails, Idle
<1> QED
  BY <1>2, <1>3, <1>4, <1>5, <1>6, <1>7 DEF ClientStep

\* The processes' steps free slots or leave them, and touch no table.
LEMMA ProcessFrame ==
    ASSUME TypeInv, ProcessStep
    PROVE  /\ UNCHANGED <<tables, replies>>
           /\ UNCHANGED req \/ \A s \in Slots : req'[s] = Idle
           /\ UNCHANGED authority \/ \A s \in Slots : req'[s] = Idle
           /\ clock \in Int /\ clock' \in Int /\ clock' >= clock
BY DEF ProcessStep, Shutdown, Exit, Crash, Start, Tick, TypeInv, TypeOK, RequestInv,
   AuthorityInv

\* The administrator only writes bootstrap_tokens.
LEMMA AdminFrame ==
    ASSUME AdminStep
    PROVE  UNCHANGED <<enrollments, issued_certificates, revoked_certificates,
                       ca_config, audit_logs, req, process>>
BY DEF AdminStep, CreateToken, RevokeToken

\* Nobody else names the serial of a certificate that is signed and not yet
\* stored.
SerialsApart ==
    \A s \in Slots : req[s].step \in {"ca", "store"} =>
        /\ req[s].serial # None
        /\ \A u \in Slots \ {s} : req[u].serial # req[s].serial

SerialInv == TypeInv /\ SerialsApart

\* SignCSR draws a serial that nobody has named, and no client can name it
\* before it is published.
LEMMA SerialInvStep ==
    ASSUME SerialInv, [Next]_vars
    PROVE  SerialInv'
<1>0. TypeInv' /\ TypeInv
  BY TypeInvStep DEF SerialInv
<1>1. ASSUME NEW s \in Slots, ClientStep(s) PROVE SerialsApart'
  <2>1. req'[s].serial = None
          \/ \A u \in Slots \ {s} : req[u].step \in {"ca", "store"} => req[u].serial # req'[s].serial
    BY <1>0, <1>1, ClientFrame DEF UnpublishedSerials, SerialInv, SerialsApart
  <2> QED
    BY <1>0, <1>1, <2>1, ClientFrame DEF SerialInv, SerialsApart
<1>2. ASSUME NEW s \in Slots, HandlerStep(s) PROVE SerialsApart'
  <2>2. CASE req'[s] = Idle
    BY <1>0, <1>2, <2>2, HandlerFrame DEF SerialInv, SerialsApart, Idle
  <2>3. ASSUME NEW step \in {"insert", "sign", "store", "audit", "reply"}, Goto(s, step),
               step = "store" => req[s].step = "ca"
        PROVE  SerialsApart'
    <3>1. req'[s].step = step /\ req'[s].serial = req[s].serial
      BY <1>0, <2>3 DEF Goto, TypeInv, RequestInv, HandlerState, Request
    <3> QED
      BY <1>0, <1>2, <2>3, <3>1, HandlerFrame DEF SerialInv, SerialsApart
  <2>4. CASE CreateEnrollment(s) \/ (GetEnrollment(s) /\ ~Reject(s))
    <3>1. req'[s].step \in {"audit", "sign"} /\ req'[s].serial = req[s].serial
      BY <1>0, <2>4 DEF CreateEnrollment, GetEnrollment, TypeInv, RequestInv, HandlerState, Request
    <3> QED
      BY <1>0, <1>2, <3>1, HandlerFrame DEF SerialInv, SerialsApart
  <2>5. CASE SignCSR(s)
    <3>1. PICK x \in UnnamedSerials :
            req' = [req EXCEPT ![s].step = "ca", ![s].serial = x,
                               ![s].not_after = clock - BackDate + Lifetime]
      BY <2>5 DEF SignCSR
    <3>2. req'[s].serial = x /\ x # None
      BY <1>0, <3>1, ConstantsAssumption
         DEF TypeInv, RequestInv, HandlerState, Request, UnnamedSerials
    <3>3. \A u \in Slots : req[u].serial # x
      BY <3>1 DEF UnnamedSerials
    <3> QED
      BY <1>0, <1>2, <3>2, <3>3, HandlerFrame DEF SerialInv, SerialsApart
  <2>6. Reject(s) => req'[s] = Idle
    BY <1>0 DEF Reject, TypeInv, RequestInv
  <2> QED
    BY <1>0, <1>2, <2>2, <2>3, <2>4, <2>5, <2>6, HandlerFrame
<1>3. CASE AdminStep
  BY <1>0, <1>3, AdminFrame DEF SerialInv, SerialsApart
<1>4. CASE ProcessStep
  BY <1>0, <1>4, ProcessFrame DEF SerialInv, SerialsApart, Idle
<1>5. CASE UNCHANGED vars
  BY <1>0, <1>5 DEF vars, SerialInv, SerialsApart
<1> QED
  BY <1>0, <1>1, <1>2, <1>3, <1>4, <1>5 DEF Next, SerialInv

\* Nothing runs when the server is first started.
LEMMA SerialInvInit == Init => SerialInv
BY TypeInvInit DEF Init, SerialInv, SerialsApart, Idle

-----------------------------------------------------------------------------
(* Nothing recorded is ever lost                                           *)

\* What a step may do to the rows that exist.
TablesGrow ==
    /\ \A e \in EnrollmentIds : enrollments[e] # None => enrollments'[e] = enrollments[e]
    /\ \A x \in Serials : issued_certificates[x] # None =>
            /\ issued_certificates'[x] # None
            /\ issued_certificates[x].revoked => issued_certificates'[x].revoked
            /\ issued_certificates'[x].enrollment_id = issued_certificates[x].enrollment_id
            /\ issued_certificates'[x].subject = issued_certificates[x].subject
            /\ issued_certificates'[x].via = issued_certificates[x].via
    /\ revoked_certificates \subseteq revoked_certificates'

\* No step, of whichever actor, takes back what a row says.
LEMMA TablesOnlyGrow ==
    ASSUME TypeInv, [Next]_vars
    PROVE  TablesGrow
<1>0. TypeInv /\ TypeOK
  BY DEF TypeInv
<1>1. ASSUME NEW s \in Slots, ClientStep(s) PROVE TablesGrow
  BY <1>0, <1>1, ClientFrame DEF TablesGrow
<1>2. ASSUME NEW s \in Slots, HandlerStep(s) PROVE TablesGrow
  <2>1. ASSUME NEW e \in EnrollmentIds, enrollments[e] # None
        PROVE  enrollments'[e] = enrollments[e]
    <3>1. CASE CreateEnrollment(s)
      BY <1>0, <2>1, <3>1 DEF CreateEnrollment, FreshEnrollmentIds, TypeOK
    <3>2. CASE UNCHANGED enrollments
      BY <3>2
    <3> QED
      BY <1>2, <3>1, <3>2 DEF HandlerStep, ValidateToken, GetEnrollment,
         CheckRenewalWindow, SignCSR, SignError, EnsureCAConfig,
         StoreIssuedCertificate, MarkRevoked, InsertRevoked, RecordAudit, LoseAudit,
         Reply, LoseReply, StatementFails
  <2>2. ASSUME NEW x \in Serials, issued_certificates[x] # None
        PROVE  /\ issued_certificates'[x] # None
               /\ issued_certificates[x].revoked => issued_certificates'[x].revoked
               /\ issued_certificates'[x].enrollment_id
                    = issued_certificates[x].enrollment_id
               /\ issued_certificates'[x].subject = issued_certificates[x].subject
               /\ issued_certificates'[x].via = issued_certificates[x].via
    <3>1. issued_certificates[x] \in CertificateRow
      BY <1>0, <2>2 DEF TypeOK
    <3>2. CASE issued_certificates'[x] = issued_certificates[x]
      BY <2>2, <3>2
    <3>4. CASE issued_certificates'[x] = [issued_certificates[x] EXCEPT !.revoked = TRUE]
      <4>1. issued_certificates'[x] \in CertificateRow
        BY <3>1, <3>4 DEF CertificateRow
      <4>2. issued_certificates'[x] # None
        BY <4>1, NoneIsNoRow
      <4> QED
        BY <3>1, <3>4, <4>2 DEF CertificateRow
    <3> QED
      BY <1>0, <1>2, <2>2, <3>2, <3>4, CertificateRows
  <2>3. revoked_certificates \subseteq revoked_certificates'
    BY <1>2 DEF HandlerStep, ValidateToken, CreateEnrollment, GetEnrollment,
       CheckRenewalWindow, SignCSR, SignError, EnsureCAConfig, StoreIssuedCertificate,
       MarkRevoked, InsertRevoked, RecordAudit, LoseAudit, Reply, LoseReply,
       StatementFails
  <2> QED
    BY <2>1, <2>2, <2>3 DEF TablesGrow
<1>3. CASE AdminStep
  BY <1>3, AdminFrame DEF TablesGrow
<1>4. CASE ProcessStep
  BY <1>0, <1>4, ProcessFrame DEF TablesGrow
<1>5. CASE UNCHANGED vars
  BY <1>5 DEF vars, TablesGrow
<1> QED
  BY <1>1, <1>2, <1>3, <1>4, <1>5 DEF Next

\* RevokeCertificate is for good: no later request, restart or failed statement
\* makes a revoked certificate valid again, removes it from the list or takes a
\* certificate from its enrollment.
THEOREM RevocationsArePermanent == Spec => RevocationPermanent
<1>1. Init => TypeInv
  BY TypeInvInit
<1>2. TypeInv /\ [Next]_vars => TypeInv'
  BY TypeInvStep
<1>3. TypeInv /\ [Next]_vars =>
        [/\ \A x \in Serials : issued_certificates[x] # None =>
              /\ issued_certificates'[x] # None
              /\ issued_certificates[x].revoked => issued_certificates'[x].revoked
              /\ issued_certificates'[x].enrollment_id
                    = issued_certificates[x].enrollment_id
         /\ revoked_certificates \subseteq revoked_certificates']_vars
  BY TablesOnlyGrow DEF TablesGrow
<1> QED
  BY <1>1, <1>2, <1>3, PTL DEF Spec, RevocationPermanent

\* The identifiers an operation reports.
Ids(op) == IF op = "enroll" THEN EnrollmentIds ELSE Serials

Operations == {"enroll", "issue", "renew", "revoke"}

\* What was done stays done.
LEMMA DurableStays ==
    ASSUME TablesGrow, NEW op \in Operations, NEW id \in Ids(op), Durable(op, id)
    PROVE  Durable(op, id)'
BY DEF TablesGrow, Operations, Ids, Durable

\* A handler reports only what is in the tables, and lists a certificate as
\* revoked only when its row says so.
ProgressInv ==
    \A s \in Slots :
        /\ req[s].step \in {"audit", "reply"} => Durable(req[s].op, Subject(s))
        /\ At(s, "revoke", "insert") /\ issued_certificates[req[s].serial] # None
              => issued_certificates[req[s].serial].revoked

DurableInv == /\ SerialInv /\ ProgressInv
              /\ RevocationsMarked /\ RepliesDurable /\ AuditTruthful

\* The identifier a reporting handler reports, as a member of Ids.
LEMMA SubjectIds ==
    ASSUME TypeInv, NEW s \in Slots, req[s].step \in {"audit", "reply"}
    PROVE  req[s].op \in Operations /\ Subject(s) \in Ids(req[s].op)
BY SubjectType DEF Operations, Ids

\* A slot whose handler does not move keeps what it relies on.
LEMMA ProgressStays ==
    ASSUME DurableInv, TablesGrow, NEW u \in Slots, req'[u] = req[u],
           At(u, "revoke", "insert") /\ issued_certificates[req[u].serial] = None
              => issued_certificates'[req[u].serial] = None
    PROVE  /\ req'[u].step \in {"audit", "reply"} => Durable(req[u].op, Subject(u))'
           /\ At(u, "revoke", "insert")' /\ issued_certificates'[req'[u].serial] # None
              => issued_certificates'[req'[u].serial].revoked
<1>0. TypeInv
  BY DEF DurableInv, SerialInv
<1>1. ASSUME req[u].step \in {"audit", "reply"}
      PROVE  Durable(req[u].op, Subject(u))'
  <2>1. PICK op, id : op = req[u].op /\ id = Subject(u)
    OBVIOUS
  <2>2. Durable(op, id)'
    BY <1>0, <1>1, <2>1, SubjectIds, DurableStays DEF DurableInv, ProgressInv
  <2>3. op = req'[u].op /\ id = Subject(u)'
    BY <2>1 DEF Subject
  <2> QED
    BY <2>2, <2>3 DEF Durable
<1>2. ASSUME At(u, "revoke", "insert"), issued_certificates'[req[u].serial] # None
      PROVE  issued_certificates'[req[u].serial].revoked
  <2>1. req[u].serial \in Serials
    BY <1>0, <1>2, SlotState DEF At, HandlerState
  <2> QED
    BY <1>2, <2>1 DEF DurableInv, ProgressInv, TablesGrow
<1> QED
  BY <1>1, <1>2 DEF At

\* What a handler's own step leaves it with to report or to list.
LEMMA ProgressOfStep ==
    ASSUME DurableInv, TablesGrow, NEW s \in Slots, HandlerStep(s)
    PROVE  /\ req'[s].step \in {"audit", "reply"} => Durable(req[s].op, Subject(s))'
           /\ At(s, "revoke", "insert")' /\ issued_certificates'[req'[s].serial] # None
              => issued_certificates'[req'[s].serial].revoked
<1>0. TypeInv /\ req \in [Slots -> HandlerState] /\ req[s] \in HandlerState /\ TypeOK
  BY DEF DurableInv, SerialInv, TypeInv, RequestInv
<1> DEFINE Report == req'[s].step \in {"audit", "reply"}
           Listing == At(s, "revoke", "insert")'
<1>1. ASSUME NEW step, Goto(s, step)
      PROVE  /\ req'[s].step = step /\ req'[s].op = req[s].op
             /\ req'[s].serial = req[s].serial /\ req'[s].enrollment = req[s].enrollment
  BY <1>0, <1>1 DEF Goto, HandlerState, Request
<1>2. Reject(s) => ~Report /\ ~Listing
  BY <1>0 DEF Reject, Idle, At
<1>3. ASSUME NEW step \in {"sign", "store"}, Goto(s, step)
      PROVE  ~Report /\ ~Listing
  BY <1>1, <1>3 DEF At
<1>4. CASE ValidateToken(s)
  <2>1. Reject(s) \/ (Goto(s, "insert") /\ req[s].op = "enroll")
    BY <1>4 DEF ValidateToken, At
  <2> QED
    BY <2>1, <1>1, <1>2 DEF At
<1>5. CASE CheckRenewalWindow(s) \/ StatementFails(s)
  BY <1>2, <1>3, <1>5 DEF CheckRenewalWindow, StatementFails
<1>15. CASE GetEnrollment(s)
  <2>1. Reject(s) \/ req'[s].step = "sign"
    BY <1>0, <1>15 DEF GetEnrollment, HandlerState, Request
  <2> QED
    BY <1>2, <2>1 DEF At
<1>6. CASE CreateEnrollment(s)
  <2>1. PICK e \in EnrollmentIds :
          /\ enrollments' = [enrollments EXCEPT
                ![e] = [hostname |-> req[s].hostname, token_id |-> req[s].token,
                        dead |-> req[s].dead]]
          /\ req' = [req EXCEPT ![s].step = "audit", ![s].enrollment = e]
    BY <1>6 DEF CreateEnrollment, FreshEnrollmentIds
  <2>2. req'[s].op = "enroll" /\ req'[s].enrollment = e /\ req'[s].step = "audit"
    BY <1>0, <1>6, <2>1 DEF CreateEnrollment, At, HandlerState, Request
  <2>3. [hostname |-> req[s].hostname, token_id |-> req[s].token,
         dead |-> req[s].dead] \in EnrollmentRow
    BY <1>0, <1>6 DEF CreateEnrollment, At, HandlerState, Request, EnrollmentRow
  <2>4. enrollments'[e] # None
    BY <1>0, <2>1, <2>3, NoneIsNoRow DEF TypeOK
  <2> QED
    BY <2>2, <2>4 DEF Durable, Subject, At
<1>7. CASE SignCSR(s)
  BY <1>0, <1>7 DEF SignCSR, HandlerState, Request, At
<1>8. CASE SignError(s) \/ LoseReply(s)
  BY <1>2, <1>8 DEF SignError, LoseReply
<1>9. CASE EnsureCAConfig(s)
  BY <1>3, <1>9 DEF EnsureCAConfig
<1>10. CASE StoreIssuedCertificate(s)
  <2>1. CASE Reject(s)
    BY <1>2, <2>1
  <2>2. CASE Goto(s, "audit") /\ authority \in ca_config
                /\ issued_certificates[req[s].serial] = None
    <3>1. req[s].op \in {"issue", "renew"} /\ req[s].serial \in Serials /\ authority \in CAs
      BY <1>0, <1>10, SlotState DEF StoreIssuedCertificate
    <3>2. IssuedCertificate(s) \in CertificateRow
      BY <1>0, <3>1 DEF CertificateRow, HandlerState, Request, IssuedCertificate
    <3>3. issued_certificates'[req[s].serial] = IssuedCertificate(s)
      BY <1>0, <1>10, <2>2, <3>1 DEF StoreIssuedCertificate, TypeOK
    <3>4. issued_certificates'[req[s].serial] # None
      BY <3>2, <3>3, NoneIsNoRow
    <3> QED
      BY <1>1, <2>2, <3>1, <3>4 DEF Durable, Subject, At
  <2> QED
    BY <1>10, <2>1, <2>2 DEF StoreIssuedCertificate
<1>11. CASE MarkRevoked(s)
  <2>1. Goto(s, "insert") /\ req[s].op = "revoke" /\ req[s].serial \in Serials
    BY <1>0, <1>11, SlotState DEF MarkRevoked, At, HandlerState
  <2>2. issued_certificates'[req[s].serial] # None
          => issued_certificates'[req[s].serial].revoked
    BY <1>0, <1>11, <2>1 DEF MarkRevoked, TypeOK, CertificateRow
  <2> QED
    BY <1>1, <2>1, <2>2
<1>12. CASE InsertRevoked(s)
  <2>1. CASE Reject(s)
    BY <1>2, <2>1
  <2>2. CASE Goto(s, "audit") /\ issued_certificates[req[s].serial] # None
    <3>1. req[s].op = "revoke" /\ req'[s].serial = req[s].serial
            /\ req'[s].op = req[s].op /\ req'[s].step = "audit"
      BY <1>1, <1>12, <2>2 DEF InsertRevoked, At
    <3>2. issued_certificates' = issued_certificates
            /\ req[s].serial \in revoked_certificates'
      BY <1>12, <2>2 DEF InsertRevoked
    <3>3. issued_certificates[req[s].serial].revoked
      BY <1>12, <2>2 DEF InsertRevoked, DurableInv, ProgressInv
    <3> QED
      BY <2>2, <3>1, <3>2, <3>3 DEF Durable, Subject, At
  <2> QED
    BY <1>12, <2>1, <2>2 DEF InsertRevoked
<1>13. CASE RecordAudit(s) \/ LoseAudit(s)
  <2>1. Goto(s, "reply") /\ req[s].step = "audit"
    BY <1>13 DEF RecordAudit, LoseAudit
  <2>2. PICK op, id : op = req[s].op /\ id = Subject(s)
    OBVIOUS
  <2>3. Durable(op, id)'
    BY <1>0, <2>1, <2>2, SubjectIds, DurableStays DEF DurableInv, ProgressInv
  <2>4. op = req'[s].op /\ id = Subject(s)' /\ req'[s].step = "reply"
    BY <1>1, <2>1, <2>2 DEF Subject
  <2> QED
    BY <2>3, <2>4 DEF Durable, At
<1>14. CASE Reply(s)
  BY <1>2, <1>14 DEF Reply, Reject
<1> QED
  BY <1>4, <1>5, <1>6, <1>7, <1>8, <1>9, <1>10, <1>11, <1>12, <1>13, <1>14, <1>15
     DEF HandlerStep

\* What clients, operators and the processes do changes neither tables nor
\* replies, and leaves a handler as it was, or new, or gone.
LEMMA QuietStepKeepsDurable ==
    ASSUME DurableInv, [Next]_vars, SerialInv', UNCHANGED <<tables, replies>>,
           \A u \in Slots : \/ req'[u] = req[u]
                            \/ req'[u].step \notin {"insert", "audit", "reply"}
    PROVE  DurableInv'
<1>1. ProgressInv'
  <2>1. SUFFICES ASSUME NEW u \in Slots
                 PROVE  /\ req'[u].step \in {"audit", "reply"}
                              => Durable(req[u].op, Subject(u))'
                        /\ At(u, "revoke", "insert")'
                              /\ issued_certificates'[req'[u].serial] # None
                              => issued_certificates'[req'[u].serial].revoked
    BY DEF ProgressInv
  <2>2. TablesGrow
    BY TablesOnlyGrow DEF DurableInv, SerialInv
  <2>3. CASE req'[u] = req[u]
    BY <2>2, <2>3, ProgressStays
  <2>4. CASE req'[u].step \notin {"insert", "audit", "reply"}
    BY <2>4 DEF At
  <2> QED
    BY <2>3, <2>4
<1>2. RevocationsMarked' /\ RepliesDurable' /\ AuditTruthful'
  BY DEF DurableInv, RevocationsMarked, RepliesDurable, AuditTruthful, Durable
<1> QED
  BY <1>1, <1>2 DEF DurableInv

\* Entries of the audit log and replies that were truthful stay so.
LEMMA ReportsStay ==
    ASSUME DurableInv, TablesGrow
    PROVE  /\ \A r \in replies : Durable(r[1], r[2])'
           /\ \A a \in audit_logs : \E op \in Operations :
                a[1] = AuditAction(op) /\ Durable(op, a[2])'
<1>0. TypeOK
  BY DEF DurableInv, SerialInv, TypeInv
<1>1. ASSUME NEW r \in replies PROVE Durable(r[1], r[2])'
  <2>1. r[1] \in Operations /\ r[2] \in Ids(r[1])
    BY <1>0 DEF TypeOK, Operations, Ids
  <2> QED
    BY <2>1, DurableStays DEF DurableInv, RepliesDurable
<1>2. ASSUME NEW a \in audit_logs
      PROVE  \E op \in Operations : a[1] = AuditAction(op) /\ Durable(op, a[2])'
  <2>1. PICK op \in Operations : a[1] = AuditAction(op) /\ Durable(op, a[2])
    BY DEF DurableInv, AuditTruthful, Operations
  <2>2. a[2] \in Ids(op)
    BY <1>0, <2>1 DEF TypeOK, Operations, Ids, AuditAction
  <2>3. Durable(op, a[2])'
    BY <2>1, <2>2, DurableStays
  <2> QED
    BY <2>1, <2>3
<1> QED
  BY <1>1, <1>2

\* A step of a handler.
LEMMA HandlerStepKeepsDurable ==
    ASSUME DurableInv, [Next]_vars, SerialInv', NEW s \in Slots, HandlerStep(s)
    PROVE  DurableInv'
<1>0. TypeInv /\ TypeOK /\ req \in [Slots -> HandlerState] /\ TablesGrow
  BY TablesOnlyGrow DEF DurableInv, SerialInv, TypeInv, RequestInv
<1>1. ProgressInv'
  <2>1. SUFFICES ASSUME NEW u \in Slots
                 PROVE  /\ req'[u].step \in {"audit", "reply"}
                              => Durable(req[u].op, Subject(u))'
                        /\ At(u, "revoke", "insert")'
                              /\ issued_certificates'[req'[u].serial] # None
                              => issued_certificates'[req'[u].serial].revoked
    BY DEF ProgressInv
  <2>2. CASE u = s
    BY <1>0, <2>2, ProgressOfStep
  <2>3. CASE u # s
    <3>1. req'[u] = req[u]
      BY <1>0, <2>3, HandlerFrame
    <3>2. ASSUME At(u, "revoke", "insert"), issued_certificates[req[u].serial] = None
          PROVE  issued_certificates'[req[u].serial] = None
      <4>1. req[u].serial \in Serials
        BY <1>0, <3>2, SlotState DEF At, HandlerState
      <4>2. StoreIssuedCertificate(s) => req[s].serial # req[u].serial
        BY <2>3 DEF StoreIssuedCertificate, DurableInv, SerialInv, SerialsApart
      <4> QED
        BY <1>0, <3>2, <4>1, <4>2, CertificateRows
    <3> QED
      BY <1>0, <3>1, <3>2, ProgressStays
  <2> QED
    BY <2>2, <2>3
<1>2. RevocationsMarked'
  <2>1. SUFFICES ASSUME NEW x \in revoked_certificates'
                 PROVE  issued_certificates'[x] # None /\ issued_certificates'[x].revoked
    BY DEF RevocationsMarked
  <2>2. CASE x \in revoked_certificates
    BY <1>0, <2>2 DEF DurableInv, RevocationsMarked, TablesGrow, TypeOK
  <2>3. CASE x \notin revoked_certificates
    <3>1. InsertRevoked(s) /\ x = req[s].serial
      BY <2>1, <2>3 DEF HandlerStep, ValidateToken, CreateEnrollment, GetEnrollment,
         CheckRenewalWindow, SignCSR, SignError, EnsureCAConfig,
         StoreIssuedCertificate, MarkRevoked, InsertRevoked, RecordAudit, LoseAudit,
         Reply, LoseReply, StatementFails
    <3>2. issued_certificates[x] # None
      BY <2>1, <2>3, <3>1 DEF InsertRevoked
    <3>3. issued_certificates[x].revoked
      BY <3>1, <3>2 DEF InsertRevoked, DurableInv, ProgressInv
    <3> QED
      BY <3>1, <3>2, <3>3 DEF InsertRevoked
  <2> QED
    BY <2>2, <2>3
<1>3. RepliesDurable'
  <2>1. CASE Reply(s)
    <3>1. PICK op, id : op = req[s].op /\ id = Subject(s)
      OBVIOUS
    <3>2. Durable(op, id)'
      BY <1>0, <2>1, <3>1, SubjectIds, DurableStays DEF Reply, DurableInv, ProgressInv
    <3>3. replies' = replies \cup {<<op, id>>}
      BY <2>1, <3>1 DEF Reply
    <3> QED
      BY <1>0, <3>2, <3>3, ReportsStay DEF RepliesDurable
  <2>2. CASE UNCHANGED replies
    BY <1>0, <2>2, ReportsStay DEF RepliesDurable
  <2> QED
    BY <2>1, <2>2 DEF HandlerStep, ValidateToken, CreateEnrollment, GetEnrollment,
       CheckRenewalWindow, SignCSR, SignError, EnsureCAConfig, StoreIssuedCertificate,
       MarkRevoked, InsertRevoked, RecordAudit, LoseAudit, LoseReply, StatementFails
<1>4. AuditTruthful'
  <2>1. CASE RecordAudit(s)
    <3>1. PICK op, id : op = req[s].op /\ id = Subject(s)
      OBVIOUS
    <3>2. op \in Operations /\ Durable(op, id)'
      BY <1>0, <2>1, <3>1, SubjectIds, DurableStays
         DEF RecordAudit, DurableInv, ProgressInv
    <3>3. audit_logs' = audit_logs \cup {<<AuditAction(op), id>>}
      BY <2>1, <3>1 DEF RecordAudit
    <3> QED
      BY <1>0, <3>2, <3>3, ReportsStay DEF AuditTruthful, Operations
  <2>2. CASE UNCHANGED audit_logs
    BY <1>0, <2>2, ReportsStay DEF AuditTruthful, Operations
  <2> QED
    BY <2>1, <2>2 DEF HandlerStep, ValidateToken, CreateEnrollment, GetEnrollment,
       CheckRenewalWindow, SignCSR, SignError, EnsureCAConfig, StoreIssuedCertificate,
       MarkRevoked, InsertRevoked, LoseAudit, Reply, LoseReply, StatementFails
<1> QED
  BY <1>1, <1>2, <1>3, <1>4 DEF DurableInv

\* Every step of the system.
LEMMA DurableInvStep ==
    ASSUME DurableInv, [Next]_vars
    PROVE  DurableInv'
<1>0. TypeInv /\ SerialInv'
  BY SerialInvStep DEF DurableInv, SerialInv
<1>1. ASSUME NEW s \in Slots, ClientStep(s) PROVE DurableInv'
  <2>1. \A u \in Slots : req'[u] = req[u] \/ req'[u].step \notin {"insert", "audit", "reply"}
    BY <1>0, <1>1, ClientFrame
  <2>2. UNCHANGED <<tables, replies>>
    BY <1>0, <1>1, ClientFrame
  <2> QED
    BY <1>0, <2>1, <2>2, QuietStepKeepsDurable
<1>2. ASSUME NEW s \in Slots, HandlerStep(s) PROVE DurableInv'
  BY <1>0, <1>2, HandlerStepKeepsDurable
<1>3. CASE AdminStep
  <2>1. UNCHANGED <<enrollments, issued_certificates, revoked_certificates,
                    audit_logs, req, replies>>
    BY <1>3, AdminFrame
  <2> QED
    BY <1>0, <2>1 DEF DurableInv, ProgressInv, RevocationsMarked, RepliesDurable,
       AuditTruthful, Durable, Subject, At
<1>4. CASE ProcessStep
  <2>1. \A u \in Slots : req'[u] = req[u] \/ req'[u].step \notin {"insert", "audit", "reply"}
    BY <1>0, <1>4, ProcessFrame DEF Idle
  <2>2. UNCHANGED <<tables, replies>>
    BY <1>0, <1>4, ProcessFrame
  <2> QED
    BY <1>0, <2>1, <2>2, QuietStepKeepsDurable
<1>5. CASE UNCHANGED vars
  BY <1>0, <1>5 DEF vars, DurableInv, ProgressInv, RevocationsMarked, RepliesDurable,
     AuditTruthful, Durable, Subject, At
<1> QED
  BY <1>1, <1>2, <1>3, <1>4, <1>5 DEF Next

\* The empty database reports nothing.
LEMMA DurableInvInit == Init => DurableInv
BY TypeInvInit DEF Init, DurableInv, SerialInv, SerialsApart, ProgressInv,
   RevocationsMarked, RepliesDurable, AuditTruthful, Idle, At

\* A client that got a 2xx answer finds the effect in the database, after any
\* crash, failed statement or concurrent request.
THEOREM AnswersAreDurable == Spec => []RepliesDurable
<1>1. DurableInv /\ [Next]_vars => DurableInv'
  BY DurableInvStep
<1>2. DurableInv => RepliesDurable
  BY DEF DurableInv
<1> QED
  BY <1>1, <1>2, DurableInvInit, PTL DEF Spec

\* The audit log reports no event that did not take effect.
THEOREM AuditIsTruthful == Spec => []AuditTruthful
<1>1. DurableInv /\ [Next]_vars => DurableInv'
  BY DurableInvStep
<1>2. DurableInv => AuditTruthful
  BY DEF DurableInv
<1> QED
  BY <1>1, <1>2, DurableInvInit, PTL DEF Spec

\* The two tables RevokeCertificate writes one after the other never contradict
\* each other the wrong way round: what is listed is marked.
THEOREM ListedIsMarked == Spec => []RevocationsMarked
<1>1. DurableInv /\ [Next]_vars => DurableInv'
  BY DurableInvStep
<1>2. DurableInv => RevocationsMarked
  BY DEF DurableInv
<1> QED
  BY <1>1, <1>2, DurableInvInit, PTL DEF Spec

=============================================================================
