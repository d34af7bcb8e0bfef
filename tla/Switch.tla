------------------------------- MODULE Switch -------------------------------
(***************************************************************************)
(* What moving an appointment by replacement promises, whatever stops or   *)
(* stalls half-way: the new booking first, our record of it next, and only *)
(* then the old booking; and our row of the old one is closed last.        *)
(* SquareReschedule implements it.                                         *)
(***************************************************************************)
CONSTANTS Offers, None          \* the times that may be booked instead

VARIABLES old,                  \* "live", "replaced" by a move, or "cancelled"
          new,                  \* the offers booked
          kept,                 \* the offer our replacement row records
          open                  \* do we still call the old appointment active

vars == <<old, new, kept, open>>

TypeOK ==
    /\ old \in {"live", "replaced", "cancelled"}
    /\ new \subseteq Offers
    /\ kept \in Offers \cup {None}
    /\ open \in BOOLEAN

Init == old = "live" /\ new = {} /\ kept = None /\ open = TRUE

Book(o) == new' = new \cup {o} /\ UNCHANGED <<old, kept, open>>

Record(o) ==
    /\ o \in new /\ kept = None
    /\ kept' = o
    /\ UNCHANGED <<old, new, open>>

\* A move drops the old booking only behind a recorded new one.
Replace ==
    /\ old = "live" /\ kept # None
    /\ old' = "replaced"
    /\ UNCHANGED <<new, kept, open>>

\* The merchant, or a cancellation.
Cancel == old = "live" /\ old' = "cancelled" /\ UNCHANGED <<new, kept, open>>

Close ==
    /\ old # "live"
    /\ open' = FALSE
    /\ UNCHANGED <<old, new, kept>>

Next == (\E o \in Offers : Book(o) \/ Record(o)) \/ Replace \/ Cancel \/ Close

Spec == Init /\ [][Next]_vars

-----------------------------------------------------------------------------
\* The caller is never left with nothing by a move: while the old booking was
\* dropped for it, the replacement our records name is one that was booked.
NeverStranded == old = "replaced" => kept \in new

\* An appointment we call closed has no booking behind it any more.
ClosedIsGone == ~open => old # "live"
=============================================================================
