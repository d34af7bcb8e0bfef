--------------------------- MODULE MCCallBooking ---------------------------
(* Small instances of CallBooking. *)
EXTENDS CallBooking, TLC

CONSTANTS b1, b2, p1, p2, s1, s2

\* Two tries of one booking, and two of a replacement at another time.
TwoTimes == [r \in Requests |-> IF r \in Bookers THEN s1 ELSE s2]

\* Tries of one request are interchangeable.
Retries == {f @@ g : f \in Permutations(Bookers), g \in Permutations(Replacers)}

\* States that differ only in what no request will read again are one.
InUse == <<store, event, rows, owner, pc, reply, upsets,
           [r \in Requests |-> IF pc[r] \in Holding THEN mine[r] ELSE NoClaim],
           [r \in Requests |-> IF pc[r] \in {"settle", "resettle"} THEN seen[r] ELSE {}],
           [p \in Replacers |-> IF pc[p] \in {"done", "crashed"} THEN Nil ELSE orig[p]]>>
=============================================================================
