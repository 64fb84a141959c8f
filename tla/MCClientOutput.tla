---------------------------- MODULE MCClientOutput ----------------------------
(* ClientOutput with small sets for TLC.                                    *)
EXTENDS ClientOutput, TLC

\* The shells are interchangeable.
Symmetry == Permutations(Clients)
===============================================================================
