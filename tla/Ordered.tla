------------------------------- MODULE Ordered -------------------------------
(***************************************************************************)
(* Numbers in ascending order, and what is left of a sequence when only    *)
(* some of its places are kept.                                            *)
(***************************************************************************)
EXTENDS Integers, SequencesExt, FiniteSets

InOrder(s)   == \A i, j \in DOMAIN s : i < j => s[i] < s[j]
Ascending(S) == CHOOSE s \in [1..Cardinality(S) -> S] : InOrder(s) /\ ToSet(s) = S

\* The elements of s at the places, in the order of s.
Kept(s, places) == LET at == Ascending(places) IN [n \in DOMAIN at |-> s[at[n]]]
=============================================================================
