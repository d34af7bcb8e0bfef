--------------------------- MODULE MCCancellation ---------------------------
(* Small instances of Cancellation. *)
EXTENDS Cancellation, TLC

CONSTANTS c1, c2, f1, f2, w1, w2, r1, r2

\* Two calls, each with a reference of its own.
OwnRefs == [c \in Callers |-> IF c = c1 THEN r1 ELSE r2]

\* Deliveries of the same refund are interchangeable, and so are processors.
Alike == {f @@ g : f \in Permutations(Refunds), g \in Permutations(Workers)}

\* Two processors are at work at once only while the second delivery is still to
\* come, and before anything has stopped.
Apart == (\A w \in Workers : ~Resting(w)) => crashes = 0 /\ \E r \in Refunds : pc[r] = "start"

\* States that differ only in what nobody will read again are one: what became of a
\* call nobody waits for, the event of an idle worker, the attempts of a finished
\* intent, the reference of a caller that has answered, and replies no property
\* tells apart.
Events == {"event", "own", "reread", "verify", "call", "sent", "ok", "refused", "unknown",
           "unwritten", "release", "markdone", "raise"}
WhatCountsOfCall(p) ==
    IF \/ call[p] = "inflight" \/ pc[p] = "sent"
       \/ p \in Callers /\ (pc[p] # "done" \/ reply[p] = "refused")
    THEN call[p] ELSE "unsent"
WhatCountsOfReply(p) ==
    CASE p \in Refunds -> reply[p] = "abandoned"
      [] reply[p] \in {"cancelled", "cancelled_unrecorded"} -> "cancelled"
      [] reply[p] = "refused" -> "refused"
      [] OTHER -> "other"
StillRead ==
    <<claimVars, row, booking, pc, mine, prev, moving, crashes, intent,
      refunded /\ \E r \in Refunds : pc[r] = "start",
      {RefOf[c] : c \in {d \in Callers : pc[d] \notin {"done", "crashed"}}} \cap consumed,
      [r \in Refunds |-> IF intent[r] = "pending" THEN attempts[r] ELSE 0],
      [p \in Procs |-> WhatCountsOfCall(p)],
      [p \in Requests |-> WhatCountsOfReply(p)],
      [w \in Workers |-> IF pc[w] \in Events THEN <<job[w], tries[w]>> ELSE Nil]>>
=============================================================================
