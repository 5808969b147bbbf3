---------------------------- MODULE MCChatService ----------------------------
EXTENDS ChatService, TLC

CONSTANTS s1, s2, alice, bob, c1, c2, m1, m2

\* Servers, connections and messages are interchangeable (users are not: some
\* are registered from the start, some are not).
Symmetry ==
  Permutations(Servers) \cup Permutations(Conns) \cup Permutations(Msgs)

\* Groups of up to two others, and of one other that joined twice
RowLists == UNION {[1..n -> Users] : n \in 0..2}
=============================================================================
