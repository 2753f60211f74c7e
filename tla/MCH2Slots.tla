----------------------------- MODULE MCH2Slots -----------------------------
(* H2Slots for TLC. *)
EXTENDS H2Slots, TLC

CONSTANTS t1, t2, t3

Sym == Permutations(Tasks)

\* A limit that is absent, lifted, lowered and closed.
AllLimits == {NoLimit, 0, 1, 2}
=============================================================================
