----------------------------- MODULE MCDelivery -----------------------------
EXTENDS Delivery, TLC

CONSTANTS s1, s2, alice, bob, carol, c1, c2, m1, m2

\* Servers, connections and messages are interchangeable (users are not: some
\* are registered from the start, some are not).
Symmetry ==
  Permutations(Servers) \cup Permutations(Conns) \cup Permutations(Msgs)

\* Groups of one other that joined twice (one that joined once is served like
\* the recipient of a private chat)
TwiceLists == {<<bob, bob>>}

\* Groups of two different others
PairLists == {rows \in [1..2 -> Users] : rows[1] # rows[2]}
=============================================================================
