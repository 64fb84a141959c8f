----------------------------- MODULE MCPkiServer -----------------------------
(* PkiServer with small sets for TLC.                                       *)
EXTENDS StatusViews, TLC

\* Slots, hosts, enrollment ids and serials are interchangeable in every definition.
Symmetry == Permutations(Slots) \cup Permutations(Hosts)
              \cup Permutations(EnrollmentIds) \cup Permutations(Serials)

\* create-token accepts a negative --ttl: such a token is expired from the start.
LiveOrExpired == {-1, 0}

\* No metadata; a root alone; an intermediate of another name; and one that is
\* named by each fingerprint as well.
SomeHierarchies ==
    {[roots |-> {}, intermediates |-> {}], [roots |-> {"prod"}, intermediates |-> {}],
     [roots |-> {"prod"}, intermediates |-> {"web"}],
     [roots |-> {"prod"}, intermediates |-> {"web"} \cup CAs]}
=============================================================================
