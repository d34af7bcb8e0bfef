--------------------------- MODULE MCUsageLedger ---------------------------
(* TLC instance of UsageLedger: two calls of one and two minutes against an
   allowance of two: whichever is recorded second goes over.             *)
EXTENDS UsageLedger
CONSTANTS c1, c2
TwoCalls   == {c1, c2}
TwoMinutes == [c \in TwoCalls |-> IF c = c1 THEN 1 ELSE 2]
=============================================================================
