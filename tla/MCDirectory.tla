----------------------------- MODULE MCDirectory -----------------------------
EXTENDS Directory, TLC

CONSTANTS alice, bob, n1, n2, c1, c2

\* Users, names and connections are interchangeable.
Symmetry == Permutations(Users) \cup Permutations(Names) \cup Permutations(Conns)
=============================================================================
