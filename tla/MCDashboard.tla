----------------------------- MODULE MCDashboard -----------------------------
(* Dashboard with small sets for TLC.                                       *)
EXTENDS Dashboard

CONSTANTS own, other, cli

\* A profile's server under either key, under both, missing, and a profile that
\* is faulty in another way; one name may have a space before it.
Name(n) == [name |-> n, padded |-> FALSE]
Keys == {Name(1), Name(2), [name |-> 1, padded |-> TRUE]}
Entries ==
    {[key |-> k, server |-> s, endpoint |-> e, sound |-> TRUE] :
        k \in Keys, s \in {own, None}, e \in {other, None}}
    \cup {[key |-> k, server |-> own, endpoint |-> None, sound |-> FALSE] : k \in Keys}

\* Every file with up to two of these profiles.
SomeFiles ==
    {[kind |-> k, default |-> Empty, entries |-> <<>>] :
        k \in {"missing", "unreadable", "malformed", "mapping"}}
    \cup {[kind |-> "mapping", default |-> d, entries |-> s] :
            d \in Keys \cup {Empty}, s \in [1..1 -> Entries] \cup [1..2 -> Entries]}

\* --server and --token are given together or not at all.
SomeCommandLines ==
    {[config |-> c, profile |-> p, server |-> IF given THEN cli ELSE None, token |-> given] :
        c \in BOOLEAN, p \in Keys \cup {Empty, [name |-> 0, padded |-> TRUE]}, given \in BOOLEAN}
==============================================================================
