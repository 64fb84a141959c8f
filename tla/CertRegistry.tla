----------------------------- MODULE CertRegistry -----------------------------
(***************************************************************************)
(* What the server promises to those who rely on it, with no handlers,     *)
(* statements, crashes or failures in sight: a register of enrollments and *)
(* certificates in which a certificate is unknown, then good, then revoked *)
(* and never anything else again; only revoked certificates get on the     *)
(* revocation list; and only what is in the register is acknowledged to a  *)
(* client.  PkiServer implements it.                                       *)
(***************************************************************************)
CONSTANTS EnrollmentIds, Serials

VARIABLES
    enrolled,      \* enrollment ids in the register
    status,        \* serial -> "unknown", "good" or "revoked"
    listed,        \* serials on the revocation list
    acknowledged   \* <<operation, id>> clients were told of

registry == <<enrolled, status, listed, acknowledged>>

Init == /\ enrolled = {}
        /\ status = [x \in Serials |-> "unknown"]
        /\ listed = {}
        /\ acknowledged = {}

Enroll(e) == /\ e \notin enrolled
             /\ enrolled' = enrolled \cup {e}
             /\ UNCHANGED <<status, listed, acknowledged>>

Issue(x) == /\ status[x] = "unknown"
            /\ status' = [status EXCEPT ![x] = "good"]
            /\ UNCHANGED <<enrolled, listed, acknowledged>>

Revoke(x) == /\ status[x] = "good"
             /\ status' = [status EXCEPT ![x] = "revoked"]
             /\ UNCHANGED <<enrolled, listed, acknowledged>>

List(x) == /\ status[x] = "revoked"
           /\ listed' = listed \cup {x}
           /\ UNCHANGED <<enrolled, status, acknowledged>>

Acknowledge(op, id) ==
    /\ \/ op = "enroll" /\ id \in enrolled
       \/ op \in {"issue", "renew"} /\ id \in Serials /\ status[id] # "unknown"
       \/ op = "revoke" /\ id \in listed
    /\ acknowledged' = acknowledged \cup {<<op, id>>}
    /\ UNCHANGED <<enrolled, status, listed>>

Next == \/ \E e \in EnrollmentIds : Enroll(e) \/ Acknowledge("enroll", e)
        \/ \E x \in Serials : \/ Issue(x) \/ Revoke(x) \/ List(x)
                              \/ \E op \in {"issue", "renew", "revoke"} : Acknowledge(op, x)

Spec == Init /\ [][Next]_registry
=============================================================================
