------------------------- MODULE MCSquareReschedule -------------------------
(* Small instances of SquareReschedule. *)
EXTENDS SquareReschedule, TLC

CONSTANTS m1, m2, w1, w2, s1, s2

\* Every request names the same time.
SameSlot == [m \in Movers |-> s1]

\* Movers that name the same time are interchangeable.
MoversAlike == Permutations(Movers)
=============================================================================
