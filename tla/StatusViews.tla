------------------------------ MODULE StatusViews ------------------------------
(***************************************************************************)
(* What operators are shown of the server's tables by the read-only status *)
(* API.  A view is an operator over the state, as if its statements ran at *)
(* one instant; amounts are given as the sets that are counted.            *)
(***************************************************************************)
EXTENDS PkiServer

CONSTANT Hierarchies   \* what a start may have loaded into the tables of CAs

\* The ids of root_cas and intermediate_cas, which are the names of RBAC manifests;
\* an intermediate's foreign key wants a root.
ASSUME HierarchiesAssumption ==
    \A h \in Hierarchies : h.roots = {} => h.intermediates = {}

(* Bootstrap tokens                                                        *)

StoredTokens == {t \in Tokens : bootstrap_tokens[t] # None}

\* BootstrapTokenUsage: the enrollments made with a token.
Uses(t) == {e \in EnrollmentIds : enrollments[e] # None /\ enrollments[e].token_id = t}

\* Mutation: a used token is shown as used for ever.
TokenStatusUsedFirst(t) ==
    CASE Uses(t) # {} -> "used"
      [] Uses(t) = {} /\ bootstrap_tokens[t].revoked -> "revoked"
      [] Uses(t) = {} /\ ~bootstrap_tokens[t].revoked /\ clock > bootstrap_tokens[t].expires_at
            -> "expired"
      [] OTHER -> "active"

\* statusTokens, which ignores the error of the usage, and tokenStatus.
TokenStatus(t) ==
    IF bootstrap_tokens[t].revoked THEN "revoked"
    ELSE IF clock > bootstrap_tokens[t].expires_at THEN "expired"
    ELSE IF Uses(t) # {} THEN "used" ELSE "active"

-----------------------------------------------------------------------------
(* Certificates                                                            *)

StoredCertificates == {x \in Serials : issued_certificates[x] # None}

Expired(x) == clock > issued_certificates[x].not_after
Revoked(x) == issued_certificates[x].revoked

\* certificateItem: the status, and whether renewal is due.
CertificateStatus(x) ==
    IF Revoked(x) THEN "revoked" ELSE IF Expired(x) THEN "expired" ELSE "active"

\* Mutation: the boundary of the window is left out.
RenewalStatusStrict(x) ==
    IF /\ ~Revoked(x) /\ clock < issued_certificates[x].not_after
       /\ issued_certificates[x].not_after - clock < RenewBefore
    THEN "due" ELSE "ok"

RenewalStatus(x) ==
    IF /\ ~Revoked(x) /\ clock < issued_certificates[x].not_after
       /\ issued_certificates[x].not_after - clock <= RenewBefore
    THEN "due" ELSE "ok"

\* summarizeCertificates
Summary ==
    LET live == {x \in StoredCertificates : ~Revoked(x) /\ ~Expired(x)}
    IN [revoked |-> {x \in StoredCertificates : Revoked(x)},
        expired |-> {x \in StoredCertificates : ~Revoked(x) /\ Expired(x)},
        active  |-> live,
        expiring_soon |-> {x \in live : issued_certificates[x].not_after - clock <= RenewBefore}]

\* The issuers the certificates name.
CountedCAs == {issued_certificates[x].ca_id : x \in StoredCertificates}

\* Mutation: an expired certificate still counts as active.
CertificateCountsByCAIgnoringExpiry ==
    LET at == [c \in CountedCAs |-> {x \in StoredCertificates : issued_certificates[x].ca_id = c}]
    IN [c \in CountedCAs |-> [revoked |-> {x \in at[c] : Revoked(x)},
                              active  |-> {x \in at[c] : ~Revoked(x)}]]

\* certificateCountsByCA: expired ones are counted with the revoked.
CertificateCountsByCA ==
    LET at == [c \in CountedCAs |-> {x \in StoredCertificates : issued_certificates[x].ca_id = c}]
    IN [c \in CountedCAs |-> [revoked |-> {x \in at[c] : Revoked(x) \/ Expired(x)},
                              active  |-> {x \in at[c] : ~Revoked(x) /\ ~Expired(x)}]]

\* caHierarchyStatus: the intermediates of the RBAC metadata, or without any
\* (legacyCAHierarchy) one for each row of ca_config.
ShownIssuers(h) ==
    IF h.roots = {} /\ h.intermediates = {} THEN ca_config ELSE h.intermediates

\* buildCAHierarchy: what is counted under the issuers shown.  The counts are
\* looked up by the issuer's id; one that no certificate names has none.
Hierarchy(h) ==
    LET counts == CertificateCountsByCA
        found == ShownIssuers(h) \cap CountedCAs
    IN [revoked |-> UNION {counts[c].revoked : c \in found},
        active  |-> UNION {counts[c].active : c \in found}]

-----------------------------------------------------------------------------
\* The status of a token tells whether enroll would accept it from its host at
\* this instant: "active" and "used" ones yes, "expired" and "revoked" ones no,
\* by two pieces of code that never call each other (statusTokens, tokenStatus
\* and ValidateAndEnroll).
TokenStatusTruthful ==
    \A t \in StoredTokens, h \in Hosts :
        TokenValid(t, h) <=> /\ TokenStatus(t) \in {"active", "used"}
                             /\ bootstrap_tokens[t].hostname = h

\* A certificate shown as due for renewal passes the server's renewal window,
\* and one shown as active and "ok" does not, up to the instant of its end
\* (certificateItem, renewCertificate).
DueMeansRenewable ==
    \A x \in StoredCertificates :
        /\ RenewalStatus(x) = "due" => InsideRenewalWindow(x)
        /\ (CertificateStatus(x) = "active" /\ RenewalStatus(x) = "ok"
              /\ clock # issued_certificates[x].not_after) => ~InsideRenewalWindow(x)

\* The list, the summary and the hierarchy agree, whatever is revoked, expired
\* or issued by an earlier intermediate: the same certificates are active in the
\* list and the summary, the hierarchy counts none as active or as revoked that
\* the summary does not, and counts all of them if every issuer is shown, which
\* is so without RBAC metadata of CAs; and those shown as due for renewal are the
\* ones the server renews (certificateItem, summarizeCertificates,
\* caHierarchyStatus, certificateCountsByCA, renewCertificate).  With metadata
\* the hierarchy shows the manifests' names, and the counts only of those that
\* are named by the fingerprint of an intermediate.
ViewsAgree ==
    LET ended == Summary.revoked \cup Summary.expired
    IN /\ Summary.active = {x \in StoredCertificates : CertificateStatus(x) = "active"}
       /\ \A h \in Hierarchies :
            /\ Hierarchy(h).active \subseteq Summary.active
            /\ Hierarchy(h).revoked \subseteq ended
            /\ (ca_config \subseteq h.intermediates \/ h.roots = {}) =>
                  Hierarchy(h) = [revoked |-> ended, active |-> Summary.active]
       /\ {x \in StoredCertificates : RenewalStatus(x) = "due"} \subseteq Summary.expiring_soon
       /\ DueMeansRenewable
===============================================================================
