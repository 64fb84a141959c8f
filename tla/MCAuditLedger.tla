---------------------------- MODULE MCAuditLedger ----------------------------
(* AuditLedger with small sets for TLC.                                     *)
EXTENDS AuditLedger, TLC

\* Handlers and the contents of entries are interchangeable; ids are ordered.
Symmetry == Permutations(Writers) \cup Permutations(Events)
=============================================================================
