-------------------------------- MODULE Filter --------------------------------
(***************************************************************************)
(* The members of a sequence that belong to a set, in their order.  It is  *)
(* SelectSeq for a set in the place of a test, in a form one can reason    *)
(* about: the i-th of them stands at the place with i - 1 places before.   *)
(***************************************************************************)
EXTENDS Naturals, Sequences, FiniteSets

Places(s, S) == {i \in 1..Len(s) : s[i] \in S}

Rank(P, i) == Cardinality({j \in P : j < i})

Nth(P, i) == CHOOSE k \in P : Rank(P, k) = i - 1

Only(s, S) ==
  [i \in 1..Cardinality(Places(s, S)) |-> s[Nth(Places(s, S), i)]]
=============================================================================
