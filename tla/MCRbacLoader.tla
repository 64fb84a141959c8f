---------------------------- MODULE MCRbacLoader ----------------------------
(* RbacLoader with a handful of documents for TLC.                         *)
EXTENDS RbacLoader

CONSTANTS prod, prod2, web, issuer, bind, policy, team, f1, f2, read, write

Blank == [kind |-> "root", name |-> prod, ref |-> None, fingerprint |-> None,
          intermediate |-> None, rules |-> <<>>, subjects |-> <<>>,
          complete |-> TRUE, legal |-> TRUE]

Root == [Blank EXCEPT !.fingerprint = f1]
Renamed == [Blank EXCEPT !.name = prod2, !.fingerprint = f1]
Web == [Blank EXCEPT !.kind = "intermediate", !.name = web, !.ref = prod, !.fingerprint = f2]
Moved == [Web EXCEPT !.ref = prod2]
Issuer == [Blank EXCEPT !.kind = "role", !.name = issuer,
              !.rules = <<[verbs |-> read, intermediate |-> web],
                          [verbs |-> write, intermediate |-> None]>>]
Reader == [Issuer EXCEPT !.rules = <<[verbs |-> read, intermediate |-> None]>>]
Binding == [Blank EXCEPT !.kind = "binding", !.name = bind, !.ref = issuer,
               !.intermediate = web, !.subjects = <<team>>]
Policy == [Blank EXCEPT !.kind = "policy", !.name = policy, !.intermediate = web]
BadPolicy == [Policy EXCEPT !.legal = FALSE]
Incomplete == [Policy EXCEPT !.complete = FALSE]

MCContents == {<<>>, <<Root, Web>>, <<Web, Root>>, <<Renamed>>, <<Moved, Binding>>,
               <<Root, Web, Binding, Policy>>, <<Issuer, Binding>>, <<Reader, Binding>>,
               <<Issuer, Reader>>, <<BadPolicy>>, <<Policy, Incomplete>>}
MCNames == {prod, prod2, web, issuer, bind, policy}
=============================================================================
