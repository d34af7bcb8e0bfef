--------------------------- MODULE MCCalendarMove ---------------------------
(* Small instances of CalendarMove. *)
EXTENDS CalendarMove

CONSTANTS m1, m2, c1, w1, w2, r1, r2, t0, t1, t2

\* m1 is in a call of its own.
TwoCalls == [p \in Requests |-> IF p = m1 THEN r1 ELSE r2]
=============================================================================
