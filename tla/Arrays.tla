---------------------------------- MODULE Arrays ----------------------------------
(***************************************************************************)
(* Array.prototype.filter, by the indexes it keeps.  SelectSeq of the      *)
(* standard modules says the same by recursion, of which a prover knows    *)
(* nothing; the facts about this one are in ArrayLemmas.                   *)
(***************************************************************************)
EXTENDS Integers, Sequences, FiniteSets

\* The entries of s whose indexes are in K, in their order.
Entries(s, K) ==
    [n \in 1..Cardinality(K) |-> s[CHOOSE i \in K : Cardinality({j \in K : j <= i}) = n]]

Filter(s, Test(_)) == Entries(s, {i \in DOMAIN s : Test(s[i])})
=============================================================================
