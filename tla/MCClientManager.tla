--------------------------- MODULE MCClientManager ---------------------------
(* A client of each of two types, and two application threads. *)
EXTENDS ClientManager, TLC

CONSTANTS c1, c2, A, B

MCClients == {c1, c2}
MCKey == [c \in MCClients |-> <<IF c = c1 THEN A ELSE B, 1>>]
MCSymmetry == Permutations(Threads)
==============================================================================
