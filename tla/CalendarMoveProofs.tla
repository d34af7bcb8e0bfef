------------------------- MODULE CalendarMoveProofs -------------------------
(***************************************************************************)
(* Proofs about CalendarMove, for any number of requests, workers, times   *)
(* and references.  IInv is the inductive invariant; the parts under       *)
(* Prompt are what the code's cut-offs buy.                                *)
(***************************************************************************)
EXTENDS CalendarMove, TLAPS

Settlers == Movers \cup Workers

Working == SettleLabels \cup {"confirm"}

\* m has not inserted its operation: it is on its way there, or is still settling
\* somebody else's.
Unrecorded(m) ==
    \/ pc[m] \in {"start", "check", "own", "reread", "insert"}
    \/ pc[m] \in Working /\ job[m] # m

JobKnown ==
    \A p \in Settlers : pc[p] \in Working \cup {"lease", "look", "sweep"} => job[p] \in Movers

MoversNeverIdle == \A m \in Movers : pc[m] # "idle"

\* Only the move and cancel tools own appointments here, and a move's operation,
\* token and request are one name.
ClaimSane ==
    \/ claim = NoClaim
    \/ \E m \in Movers : claim = ClaimRow("reschedule", m, m, Nil)
    \/ \E c \in Cancellers : claim = ClaimRow("cancel", Nil, c, Nil)
    \/ \E c \in Cancellers, r \in Reasons : claim = ClaimRow("cancel_reconcile", Nil, c, r)

NotYetInserted == \A m \in Movers : Unrecorded(m) => opState[m] = "none"

NotYetOwner ==
    \A m \in Movers : Unrecorded(m) /\ pc[m] \notin {"reread", "insert"} => claim.token # m

\* A claim is given up for a failed operation only.
ReleasesFailed ==
    \A p \in Settlers : pc[p] = "release" => opState[job[p]] = "failed"

CancelOwned ==
    \A c \in Cancellers :
        pc[c] \in {"reread", "consume", "call", "undo", "write", "release"} => Owns("cancel", c)

\* Under Prompt: the owner of a stale claim has stopped, so the sweep never meets
\* an operation that is still on its way to the table.
StaleOwnerStopped ==
    claim.type = "reschedule" /\ claimOld => pc[claim.token] \in {"done", "crashed"}

SweptStopped ==
    \A w \in Workers :
        /\ pc[w] \in {"look", "sweep"} => pc[job[w]] \in {"done", "crashed"}
        /\ pc[w] = "sweep" => opState[job[w]] = "none"

InsertOwned == \A m \in Movers : pc[m] \in {"reread", "insert"} => Owns("reschedule", m)

PromptInv == StaleOwnerStopped /\ SweptStopped /\ InsertOwned /\ LiveOpOwned

IInv ==
    /\ TypeOK
    /\ JobKnown
    /\ MoversNeverIdle
    /\ ClaimSane
    /\ NotYetInserted
    /\ NotYetOwner
    /\ ReleasesFailed
    /\ CancelOwned
    /\ Prompt => PromptInv

\* The types the other conjuncts lean on.
Shape ==
    /\ pc \in [Procs -> Labels]
    /\ reply \in [Requests -> Replies]
    /\ job \in [Procs -> Movers \cup {Nil}]
    /\ opState \in [Movers -> OpStates]
    /\ claimOld \in BOOLEAN

LEMMA ShapeOK == IInv => Shape
  BY DEF IInv, TypeOK, ClaimsTypeOK, Shape

LEMMA GotoTyped ==
    ASSUME NEW p \in Procs, NEW l \in Labels, TypeOK, Goto(p, l)
    PROVE  pc' \in [Procs -> Labels] /\ reply' \in [Requests -> Replies]
  BY DEF TypeOK, Goto

LEMMA AnswerTyped ==
    ASSUME NEW p \in Requests, NEW r \in Replies, TypeOK, Answer(p, r)
    PROVE  pc' \in [Procs -> Labels] /\ reply' \in [Requests -> Replies]
  BY DEF TypeOK, Answer, Labels, Procs

LEMMA TransitionTyped ==
    ASSUME NEW m \in Movers, NEW s \in OpStates, TypeOK, Transition(m, s)
    PROVE  /\ opState' \in [Movers -> OpStates]
           /\ opOld' \in [Movers -> BOOLEAN]
           /\ readers' \in [Movers -> SUBSET Workers]
  BY DEF TypeOK, Transition

LEMMA ClaimTyped0 == ClaimSane => claim \in ClaimRows(Movers, Requests) \cup {NoClaim}
<1>. SUFFICES ASSUME ClaimSane PROVE claim \in ClaimRows(Movers, Requests) \cup {NoClaim}
  OBVIOUS
<1>1. CASE claim = NoClaim
  BY <1>1
<1>2. CASE \E m \in Movers : claim = ClaimRow("reschedule", m, m, Nil)
  BY <1>2, ConstantsOK DEF ClaimRows, ClaimRow, ClaimTypes, Requests
<1>3. CASE \E c \in Cancellers : claim = ClaimRow("cancel", Nil, c, Nil)
  BY <1>3, ConstantsOK DEF ClaimRows, ClaimRow, ClaimTypes, Requests
<1>4. CASE \E c \in Cancellers, r \in Reasons : claim = ClaimRow("cancel_reconcile", Nil, c, r)
  BY <1>4, ConstantsOK DEF ClaimRows, ClaimRow, ClaimTypes, Requests, Reasons
<1>. QED BY <1>1, <1>2, <1>3, <1>4 DEF ClaimSane

LEMMA ClaimTyped == ClaimSane' => claim' \in ClaimRows(Movers, Requests) \cup {NoClaim}
<1>1. (ClaimSane => claim \in ClaimRows(Movers, Requests) \cup {NoClaim})'
  BY ClaimTyped0, PTL
<1>. QED BY <1>1 DEF ClaimRows, NoClaim, ClaimRow, ClaimTypes, Reasons, Requests

\* What a step may do to the appointment and to its event.
LEMMA RowTyped ==
    ASSUME TypeOK, NEW t \in Times,
           row' \in {row, [row EXCEPT !.start = t], [row EXCEPT !.active = FALSE]}
    PROVE  row' \in [start : Times, active : BOOLEAN]
  BY DEF TypeOK

LEMMA EventTyped ==
    ASSUME TypeOK, event' \in {event, [event EXCEPT !.live = FALSE]}
    PROVE  event' \in [start : Times, live : BOOLEAN]
  BY DEF TypeOK

-----------------------------------------------------------------------------
(* A reference is listed *)

LEMMA ListAppointmentStep == ASSUME NEW r \in Refs, IInv, ListAppointment(r) PROVE IInv'
<1>1. ClaimSane'
  BY ShapeOK, ConstantsOK DEF IInv, Shape, ClaimSane, JobKnown,
     ListAppointment, claimVars, ops, provider, local, ClaimRow, NoClaim,
     Working, SettleLabels, Procs, Requests, Settlers, Reasons
<1>2. pc' \in [Procs -> Labels] /\ reply' \in [Requests -> Replies]
  BY ConstantsOK DEF IInv, TypeOK, ListAppointment, Labels, Replies, Procs,
     Requests, Settlers
<1>3. TypeOK'
  BY <1>1, <1>2, ClaimTyped, ConstantsOK DEF IInv, TypeOK, ClaimsTypeOK,
     JobKnown, Working, SettleLabels, ListAppointment, claimVars, ops,
     provider, local, Procs, Requests, Settlers, LiveStates, OpStates,
     PatchStates
<1>4. /\ JobKnown' /\ MoversNeverIdle' /\ NotYetInserted' /\ NotYetOwner'
      /\ ReleasesFailed' /\ CancelOwned'
  BY ShapeOK, ConstantsOK DEF IInv, Shape, ClaimSane, JobKnown,
     MoversNeverIdle, NotYetInserted, NotYetOwner, ReleasesFailed,
     CancelOwned, Unrecorded, ListAppointment, claimVars, ops, provider,
     local, Owns, ClaimRow, NoClaim, Working, SettleLabels, Procs, Requests,
     Settlers
<1>5. ASSUME Prompt PROVE PromptInv'
  BY <1>5, ShapeOK, ConstantsOK DEF IInv, Shape, ClaimSane, JobKnown,
     MoversNeverIdle, NotYetInserted, NotYetOwner, ReleasesFailed,
     CancelOwned, Unrecorded, PromptInv, StaleOwnerStopped, SweptStopped,
     InsertOwned, LiveOpOwned, ListAppointment, claimVars, ops, provider,
     local, Owns, ClaimRow, NoClaim, Working, SettleLabels, Procs, Requests,
     Settlers, LiveStates, Live
<1>. QED
  BY <1>1, <1>2, <1>3, <1>4, <1>5 DEF IInv

-----------------------------------------------------------------------------
(* The move *)

LEMMA BeginMoveStep == ASSUME NEW m \in Movers, IInv, BeginMove(m) PROVE IInv'
<1>1. ClaimSane'
  BY ShapeOK, ConstantsOK DEF IInv, Shape, ClaimSane, JobKnown, BeginMove,
     ReadAppointment, claimVars, store, ops, provider, At, ClaimRow, NoClaim,
     Working, SettleLabels, Procs, Requests, Settlers, Reasons
<1>2. pc' \in [Procs -> Labels] /\ reply' \in [Requests -> Replies]
  BY GotoTyped, AnswerTyped, ConstantsOK DEF IInv, TypeOK, BeginMove, At,
     Labels, Replies, Procs, Requests, Settlers
<1>3. seen' \in [Movers -> [start : Times, active : BOOLEAN, retry : BOOLEAN]]
  BY ConstantsOK DEF IInv, TypeOK, BeginMove, ReadAppointment
<1>4. job' \in [Procs -> Movers \cup {Nil}] /\ aged' \in [Procs -> BOOLEAN] /\ want' \in [Movers -> Times]
<2>1. want' \in [Movers -> Times]
  BY DEF IInv, TypeOK, BeginMove
<2>2. m \in Procs /\ job \in [Procs -> Movers \cup {Nil}] /\ aged \in [Procs -> BOOLEAN]
      /\ opOld \in [Movers -> BOOLEAN]
  BY ConstantsOK DEF IInv, TypeOK, Procs, Requests
<2>3. \/ UNCHANGED <<job, aged>>
      \/ \E j \in Movers : job' = [job EXCEPT ![m] = j] /\ aged' = [aged EXCEPT ![m] = opOld[j]]
  BY DEF BeginMove
<2>. QED
  BY <2>1, <2>2, <2>3
<1>5. TypeOK'
  BY <1>1, <1>2, <1>3, <1>4, ClaimTyped DEF IInv, TypeOK, ClaimsTypeOK,
     BeginMove, claimVars, store, ops, provider
<1>6. /\ JobKnown' /\ MoversNeverIdle' /\ NotYetInserted' /\ NotYetOwner'
      /\ ReleasesFailed' /\ CancelOwned'
  BY ShapeOK, ConstantsOK DEF IInv, Shape, ClaimSane, JobKnown,
     MoversNeverIdle, NotYetInserted, NotYetOwner, ReleasesFailed,
     CancelOwned, Unrecorded, BeginMove, ReadAppointment, claimVars, store,
     ops, provider, At, Goto, Answer, Owns, ClaimRow, NoClaim, Working,
     SettleLabels, Procs, Requests, Settlers, LiveStates, Live
<1>7. ASSUME Prompt PROVE PromptInv'
  BY <1>7, ShapeOK, ConstantsOK DEF IInv, Shape, ClaimSane, JobKnown,
     MoversNeverIdle, NotYetInserted, NotYetOwner, ReleasesFailed,
     CancelOwned, Unrecorded, PromptInv, StaleOwnerStopped, SweptStopped,
     InsertOwned, LiveOpOwned, BeginMove, ReadAppointment, claimVars, store,
     ops, provider, At, Goto, Answer, Owns, ClaimRow, NoClaim, Working,
     SettleLabels, Procs, Requests, Settlers, LiveStates, Live
<1>. QED
  BY <1>1, <1>2, <1>3, <1>4, <1>5, <1>6, <1>7 DEF IInv

LEMMA CheckMoveStep == ASSUME NEW m \in Movers, IInv, CheckMove(m) PROVE IInv'
<1>1. ClaimSane'
  BY ShapeOK, ConstantsOK DEF IInv, Shape, ClaimSane, JobKnown, CheckMove,
     claimVars, store, ops, provider, local, At, Free, ClaimRow, NoClaim,
     Working, SettleLabels, Procs, Requests, Settlers, Reasons
<1>2. pc' \in [Procs -> Labels] /\ reply' \in [Requests -> Replies]
  <2>1. \/ Goto(m, "own")
        \/ \E r \in {"already_there", "changed", "not_eligible", "not_free"} : Answer(m, r)
    BY Zenon DEF CheckMove
  <2>2. TypeOK /\ m \in Procs /\ m \in Requests
    BY DEF IInv, Procs, Requests
  <2>3. "own" \in Labels /\ {"already_there", "changed", "not_eligible", "not_free"} \subseteq Replies
    BY DEF Labels, Replies
  <2>. QED
    BY <2>1, <2>2, <2>3, GotoTyped, AnswerTyped
<1>3. TypeOK'
  BY <1>1, <1>2, ClaimTyped, ConstantsOK DEF IInv, TypeOK, ClaimsTypeOK,
     JobKnown, Working, SettleLabels, CheckMove, claimVars, store, ops,
     provider, local, At, Procs, Requests, Settlers, LiveStates, OpStates,
     PatchStates
<1>4. /\ JobKnown' /\ MoversNeverIdle' /\ NotYetInserted' /\ NotYetOwner'
      /\ ReleasesFailed' /\ CancelOwned'
  BY ShapeOK, ConstantsOK DEF IInv, Shape, ClaimSane, JobKnown,
     MoversNeverIdle, NotYetInserted, NotYetOwner, ReleasesFailed,
     CancelOwned, Unrecorded, CheckMove, claimVars, store, ops, provider,
     local, At, Goto, Answer, Free, Owns, ClaimRow, NoClaim, Working,
     SettleLabels, Procs, Requests, Settlers
<1>5. ASSUME Prompt PROVE PromptInv'
  BY <1>5, ShapeOK, ConstantsOK DEF IInv, Shape, ClaimSane, JobKnown,
     MoversNeverIdle, NotYetInserted, NotYetOwner, ReleasesFailed,
     CancelOwned, Unrecorded, PromptInv, StaleOwnerStopped, SweptStopped,
     InsertOwned, LiveOpOwned, CheckMove, claimVars, store, ops, provider,
     local, At, Goto, Answer, Free, Owns, ClaimRow, NoClaim, Working,
     SettleLabels, Procs, Requests, Settlers, LiveStates, Live
<1>. QED
  BY <1>1, <1>2, <1>3, <1>4, <1>5 DEF IInv

LEMMA OwnStep == ASSUME NEW m \in Movers, IInv, Own(m) PROVE IInv'
<1>1. ClaimSane'
  BY ShapeOK, ConstantsOK DEF IInv, Shape, ClaimSane, JobKnown, Own,
     AcquireReschedule, Insert, claimVars, store, ops, provider, local, At,
     Free, ClaimRow, NoClaim, Working, SettleLabels, Procs, Requests,
     Settlers, Reasons
<1>2. pc' \in [Procs -> Labels] /\ reply' \in [Requests -> Replies]
  BY GotoTyped, AnswerTyped, ConstantsOK DEF IInv, TypeOK, Own, At, Labels,
     Replies, Procs, Requests, Settlers
<1>3. TypeOK'
  BY <1>1, <1>2, ClaimTyped, ConstantsOK DEF IInv, TypeOK, ClaimsTypeOK,
     JobKnown, Working, SettleLabels, Own, AcquireReschedule, Insert,
     claimVars, store, ops, provider, local, At, Procs, Requests, Settlers,
     LiveStates, OpStates, PatchStates
<1>4. /\ JobKnown' /\ MoversNeverIdle' /\ NotYetInserted' /\ NotYetOwner'
      /\ ReleasesFailed' /\ CancelOwned'
  BY ShapeOK, ConstantsOK DEF IInv, Shape, ClaimSane, JobKnown,
     MoversNeverIdle, NotYetInserted, NotYetOwner, ReleasesFailed,
     CancelOwned, Unrecorded, Own, AcquireReschedule, Insert, claimVars,
     store, ops, provider, local, At, Goto, Answer, Free, Owns, ClaimRow,
     NoClaim, Working, SettleLabels, Procs, Requests, Settlers
<1>5. ASSUME Prompt PROVE PromptInv'
  BY <1>5, ShapeOK, ConstantsOK DEF IInv, Shape, ClaimSane, JobKnown,
     MoversNeverIdle, NotYetInserted, NotYetOwner, ReleasesFailed,
     CancelOwned, Unrecorded, PromptInv, StaleOwnerStopped, SweptStopped,
     InsertOwned, LiveOpOwned, Own, AcquireReschedule, Insert, claimVars,
     store, ops, provider, local, At, Goto, Answer, Free, Owns, ClaimRow,
     NoClaim, Working, SettleLabels, Procs, Requests, Settlers, LiveStates,
     Live
<1>. QED
  BY <1>1, <1>2, <1>3, <1>4, <1>5 DEF IInv

LEMMA OwnRaisesStep == ASSUME NEW m \in Movers, IInv, OwnRaises(m) PROVE IInv'
<1>1. ClaimSane'
  BY ShapeOK, ConstantsOK DEF IInv, Shape, ClaimSane, JobKnown, OwnRaises,
     AcquireReschedule, Insert, claimVars, store, ops, provider, local, At,
     Free, ClaimRow, NoClaim, Working, SettleLabels, Procs, Requests,
     Settlers, Reasons
<1>2. pc' \in [Procs -> Labels] /\ reply' \in [Requests -> Replies]
  BY AnswerTyped, ConstantsOK DEF IInv, TypeOK, OwnRaises, At, Labels,
     Replies, Procs, Requests, Settlers
<1>3. TypeOK'
  BY <1>1, <1>2, ClaimTyped, ConstantsOK DEF IInv, TypeOK, ClaimsTypeOK,
     JobKnown, Working, SettleLabels, OwnRaises, AcquireReschedule, Insert,
     claimVars, store, ops, provider, local, At, Procs, Requests, Settlers,
     LiveStates, OpStates, PatchStates
<1>4. /\ JobKnown' /\ MoversNeverIdle' /\ NotYetInserted' /\ NotYetOwner'
      /\ ReleasesFailed' /\ CancelOwned'
  BY ShapeOK, ConstantsOK DEF IInv, Shape, ClaimSane, JobKnown,
     MoversNeverIdle, NotYetInserted, NotYetOwner, ReleasesFailed,
     CancelOwned, Unrecorded, OwnRaises, AcquireReschedule, Insert, claimVars,
     store, ops, provider, local, At, Answer, Free, Owns, ClaimRow, NoClaim,
     Working, SettleLabels, Procs, Requests, Settlers
<1>5. ASSUME Prompt PROVE PromptInv'
  BY <1>5, ShapeOK, ConstantsOK DEF IInv, Shape, ClaimSane, JobKnown,
     MoversNeverIdle, NotYetInserted, NotYetOwner, ReleasesFailed,
     CancelOwned, Unrecorded, PromptInv, StaleOwnerStopped, SweptStopped,
     InsertOwned, LiveOpOwned, OwnRaises, AcquireReschedule, Insert,
     claimVars, store, ops, provider, local, At, Answer, Free, Owns, ClaimRow,
     NoClaim, Working, SettleLabels, Procs, Requests, Settlers, LiveStates,
     Live
<1>. QED
  BY <1>1, <1>2, <1>3, <1>4, <1>5 DEF IInv

LEMMA RereadStep == ASSUME NEW m \in Movers, IInv, Reread(m) PROVE IInv'
<1>1. ClaimSane'
  BY ShapeOK, ConstantsOK DEF IInv, Shape, ClaimSane, JobKnown, Reread,
     Release, Delete, claimVars, store, ops, provider, local, At, ClaimRow,
     NoClaim, Working, SettleLabels, Procs, Requests, Settlers, Reasons
<1>2. pc' \in [Procs -> Labels] /\ reply' \in [Requests -> Replies]
  BY GotoTyped, AnswerTyped, ConstantsOK DEF IInv, TypeOK, Reread, At, Labels,
     Replies, Procs, Requests, Settlers
<1>3. TypeOK'
  BY <1>1, <1>2, ClaimTyped, ConstantsOK DEF IInv, TypeOK, ClaimsTypeOK,
     JobKnown, Working, SettleLabels, Reread, Release, Delete, claimVars,
     store, ops, provider, local, At, Procs, Requests, Settlers, LiveStates,
     OpStates, PatchStates
<1>4. /\ JobKnown' /\ MoversNeverIdle' /\ NotYetInserted' /\ NotYetOwner'
      /\ ReleasesFailed' /\ CancelOwned'
  BY ShapeOK, ConstantsOK DEF IInv, Shape, ClaimSane, JobKnown,
     MoversNeverIdle, NotYetInserted, NotYetOwner, ReleasesFailed,
     CancelOwned, Unrecorded, Reread, Release, Delete, claimVars, store, ops,
     provider, local, At, Goto, Answer, Owns, ClaimRow, NoClaim, Working,
     SettleLabels, Procs, Requests, Settlers
<1>5. ASSUME Prompt PROVE PromptInv'
  BY <1>5, ShapeOK, ConstantsOK DEF IInv, Shape, ClaimSane, JobKnown,
     MoversNeverIdle, NotYetInserted, NotYetOwner, ReleasesFailed,
     CancelOwned, Unrecorded, PromptInv, StaleOwnerStopped, SweptStopped,
     InsertOwned, LiveOpOwned, Reread, Release, Delete, claimVars, store, ops,
     provider, local, At, Goto, Answer, Owns, ClaimRow, NoClaim, Working,
     SettleLabels, Procs, Requests, Settlers, LiveStates, Live
<1>. QED
  BY <1>1, <1>2, <1>3, <1>4, <1>5 DEF IInv

LEMMA InsertOpStep == ASSUME NEW m \in Movers, IInv, InsertOp(m) PROVE IInv'
<1>1. ClaimSane'
  BY ShapeOK, ConstantsOK DEF IInv, Shape, ClaimSane, JobKnown, InsertOp,
     Release, Delete, Transition, claimVars, store, ops, provider, local, At,
     ClaimRow, NoClaim, Working, SettleLabels, Procs, Requests, Settlers,
     Reasons
<1>2. pc' \in [Procs -> Labels] /\ reply' \in [Requests -> Replies]
  BY GotoTyped, AnswerTyped, ConstantsOK DEF IInv, TypeOK, InsertOp, At,
     Labels, Replies, Procs, Requests, Settlers
<1>3. TypeOK'
  BY <1>1, <1>2, ClaimTyped, TransitionTyped, ConstantsOK DEF IInv, TypeOK,
     ClaimsTypeOK, JobKnown, Working, SettleLabels, InsertOp, Release, Delete,
     claimVars, store, ops, provider, local, At, Procs, Requests, Settlers,
     LiveStates, OpStates, PatchStates, Live
<1>4. /\ JobKnown' /\ MoversNeverIdle' /\ NotYetInserted' /\ NotYetOwner'
      /\ ReleasesFailed' /\ CancelOwned'
  BY ShapeOK, ConstantsOK DEF IInv, Shape, ClaimSane, JobKnown,
     MoversNeverIdle, NotYetInserted, NotYetOwner, ReleasesFailed,
     CancelOwned, Unrecorded, InsertOp, Release, Delete, Transition,
     claimVars, store, ops, provider, local, At, Goto, Answer, Owns, ClaimRow,
     NoClaim, Working, SettleLabels, Procs, Requests, Settlers, LiveStates,
     Live
<1>5. ASSUME Prompt PROVE PromptInv'
  BY <1>5, ShapeOK, ConstantsOK DEF IInv, Shape, ClaimSane, JobKnown,
     MoversNeverIdle, NotYetInserted, NotYetOwner, ReleasesFailed,
     CancelOwned, Unrecorded, PromptInv, StaleOwnerStopped, SweptStopped,
     InsertOwned, LiveOpOwned, InsertOp, Release, Delete, Transition,
     claimVars, store, ops, provider, local, At, Goto, Answer, Owns, ClaimRow,
     NoClaim, Working, SettleLabels, Procs, Requests, Settlers, LiveStates,
     Live
<1>. QED
  BY <1>1, <1>2, <1>3, <1>4, <1>5 DEF IInv

LEMMA SendPatchStep == ASSUME NEW m \in Movers, IInv, SendPatch(m) PROVE IInv'
<1>1. ClaimSane'
  BY ShapeOK, ConstantsOK DEF IInv, Shape, ClaimSane, JobKnown, SendPatch,
     claimVars, store, ops, local, At, ClaimRow, NoClaim, Working,
     SettleLabels, Procs, Requests, Settlers, Reasons
<1>2. pc' \in [Procs -> Labels] /\ reply' \in [Requests -> Replies]
  BY GotoTyped, ConstantsOK DEF IInv, TypeOK, SendPatch, At, Labels, Replies,
     Procs, Requests, Settlers
<1>3. TypeOK'
  BY <1>1, <1>2, ClaimTyped, ConstantsOK DEF IInv, TypeOK, ClaimsTypeOK,
     JobKnown, Working, SettleLabels, SendPatch, claimVars, store, ops, local,
     At, Procs, Requests, Settlers, LiveStates, OpStates, PatchStates
<1>4. /\ JobKnown' /\ MoversNeverIdle' /\ NotYetInserted' /\ NotYetOwner'
      /\ ReleasesFailed' /\ CancelOwned'
  BY ShapeOK, ConstantsOK DEF IInv, Shape, ClaimSane, JobKnown,
     MoversNeverIdle, NotYetInserted, NotYetOwner, ReleasesFailed,
     CancelOwned, Unrecorded, SendPatch, claimVars, store, ops, local, At,
     Goto, Owns, ClaimRow, NoClaim, Working, SettleLabels, Procs, Requests,
     Settlers
<1>5. ASSUME Prompt PROVE PromptInv'
  BY <1>5, ShapeOK, ConstantsOK DEF IInv, Shape, ClaimSane, JobKnown,
     MoversNeverIdle, NotYetInserted, NotYetOwner, ReleasesFailed,
     CancelOwned, Unrecorded, PromptInv, StaleOwnerStopped, SweptStopped,
     InsertOwned, LiveOpOwned, SendPatch, claimVars, store, ops, local, At,
     Goto, Owns, ClaimRow, NoClaim, Working, SettleLabels, Procs, Requests,
     Settlers, LiveStates, Live
<1>. QED
  BY <1>1, <1>2, <1>3, <1>4, <1>5 DEF IInv

LEMMA TokenExpiredStep == ASSUME NEW m \in Movers, IInv, TokenExpired(m) PROVE IInv'
<1>1. ClaimSane'
  BY ShapeOK, ConstantsOK DEF IInv, Shape, ClaimSane, JobKnown, TokenExpired,
     claimVars, store, ops, provider, local, At, ClaimRow, NoClaim, Working,
     SettleLabels, Procs, Requests, Settlers, Reasons
<1>2. pc' \in [Procs -> Labels] /\ reply' \in [Requests -> Replies]
  BY GotoTyped, ConstantsOK DEF IInv, TypeOK, TokenExpired, At, Labels,
     Replies, Procs, Requests, Settlers
<1>3. TypeOK'
  BY <1>1, <1>2, ClaimTyped, ConstantsOK DEF IInv, TypeOK, ClaimsTypeOK,
     JobKnown, Working, SettleLabels, TokenExpired, claimVars, store, ops,
     provider, local, At, Procs, Requests, Settlers, LiveStates, OpStates,
     PatchStates
<1>4. /\ JobKnown' /\ MoversNeverIdle' /\ NotYetInserted' /\ NotYetOwner'
      /\ ReleasesFailed' /\ CancelOwned'
  BY ShapeOK, ConstantsOK DEF IInv, Shape, ClaimSane, JobKnown,
     MoversNeverIdle, NotYetInserted, NotYetOwner, ReleasesFailed,
     CancelOwned, Unrecorded, TokenExpired, claimVars, store, ops, provider,
     local, At, Goto, Owns, ClaimRow, NoClaim, Working, SettleLabels, Procs,
     Requests, Settlers
<1>5. ASSUME Prompt PROVE PromptInv'
  BY <1>5, ShapeOK, ConstantsOK DEF IInv, Shape, ClaimSane, JobKnown,
     MoversNeverIdle, NotYetInserted, NotYetOwner, ReleasesFailed,
     CancelOwned, Unrecorded, PromptInv, StaleOwnerStopped, SweptStopped,
     InsertOwned, LiveOpOwned, TokenExpired, claimVars, store, ops, provider,
     local, At, Goto, Owns, ClaimRow, NoClaim, Working, SettleLabels, Procs,
     Requests, Settlers, LiveStates, Live
<1>. QED
  BY <1>1, <1>2, <1>3, <1>4, <1>5 DEF IInv

LEMMA PatchAnsweredStep == ASSUME NEW m \in Movers, IInv, PatchAnswered(m) PROVE IInv'
<1>1. ClaimSane'
  BY ShapeOK, ConstantsOK DEF IInv, Shape, ClaimSane, JobKnown, PatchAnswered,
     claimVars, store, ops, provider, local, At, ClaimRow, NoClaim, Working,
     SettleLabels, Procs, Requests, Settlers, Reasons
<1>2. pc' \in [Procs -> Labels] /\ reply' \in [Requests -> Replies]
  BY GotoTyped, ConstantsOK DEF IInv, TypeOK, PatchAnswered, At, Labels,
     Replies, Procs, Requests, Settlers
<1>3. TypeOK'
  BY <1>1, <1>2, ClaimTyped, ConstantsOK DEF IInv, TypeOK, ClaimsTypeOK,
     JobKnown, Working, SettleLabels, PatchAnswered, claimVars, store, ops,
     provider, local, At, Procs, Requests, Settlers, LiveStates, OpStates,
     PatchStates
<1>4. /\ JobKnown' /\ MoversNeverIdle' /\ NotYetInserted' /\ NotYetOwner'
      /\ ReleasesFailed' /\ CancelOwned'
  BY ShapeOK, ConstantsOK DEF IInv, Shape, ClaimSane, JobKnown,
     MoversNeverIdle, NotYetInserted, NotYetOwner, ReleasesFailed,
     CancelOwned, Unrecorded, PatchAnswered, claimVars, store, ops, provider,
     local, At, Goto, Owns, ClaimRow, NoClaim, Working, SettleLabels, Procs,
     Requests, Settlers
<1>5. ASSUME Prompt PROVE PromptInv'
  BY <1>5, ShapeOK, ConstantsOK DEF IInv, Shape, ClaimSane, JobKnown,
     MoversNeverIdle, NotYetInserted, NotYetOwner, ReleasesFailed,
     CancelOwned, Unrecorded, PromptInv, StaleOwnerStopped, SweptStopped,
     InsertOwned, LiveOpOwned, PatchAnswered, claimVars, store, ops, provider,
     local, At, Goto, Owns, ClaimRow, NoClaim, Working, SettleLabels, Procs,
     Requests, Settlers, LiveStates, Live
<1>. QED
  BY <1>1, <1>2, <1>3, <1>4, <1>5 DEF IInv

LEMMA RecordMovedStep == ASSUME NEW m \in Movers, IInv, RecordMoved(m) PROVE IInv'
<1>1. ClaimSane'
  BY ShapeOK, ConstantsOK DEF IInv, Shape, ClaimSane, JobKnown, RecordMoved,
     Transition, claimVars, store, ops, provider, At, ClaimRow, NoClaim,
     Working, SettleLabels, Procs, Requests, Settlers, Reasons
<1>2. pc' \in [Procs -> Labels] /\ reply' \in [Requests -> Replies]
  BY GotoTyped, AnswerTyped, ConstantsOK DEF IInv, TypeOK, RecordMoved, At,
     Labels, Replies, Procs, Requests, Settlers
<1>3. TypeOK'
  BY <1>1, <1>2, ClaimTyped, TransitionTyped, ConstantsOK DEF IInv, TypeOK,
     ClaimsTypeOK, JobKnown, Working, SettleLabels, RecordMoved, claimVars,
     store, ops, provider, At, Procs, Requests, Settlers, LiveStates,
     OpStates, PatchStates
<1>4. /\ JobKnown' /\ MoversNeverIdle' /\ NotYetInserted' /\ NotYetOwner'
      /\ ReleasesFailed' /\ CancelOwned'
  BY ShapeOK, ConstantsOK DEF IInv, Shape, ClaimSane, JobKnown,
     MoversNeverIdle, NotYetInserted, NotYetOwner, ReleasesFailed,
     CancelOwned, Unrecorded, RecordMoved, Transition, claimVars, store, ops,
     provider, At, Goto, Answer, Owns, ClaimRow, NoClaim, Working,
     SettleLabels, Procs, Requests, Settlers
<1>5. ASSUME Prompt PROVE PromptInv'
  BY <1>5, ShapeOK, ConstantsOK DEF IInv, Shape, ClaimSane, JobKnown,
     MoversNeverIdle, NotYetInserted, NotYetOwner, ReleasesFailed,
     CancelOwned, Unrecorded, PromptInv, StaleOwnerStopped, SweptStopped,
     InsertOwned, LiveOpOwned, RecordMoved, Transition, claimVars, store, ops,
     provider, At, Goto, Answer, Owns, ClaimRow, NoClaim, Working,
     SettleLabels, Procs, Requests, Settlers, LiveStates, Live
<1>. QED
  BY <1>1, <1>2, <1>3, <1>4, <1>5 DEF IInv

LEMMA RecordRefusedStep == ASSUME NEW m \in Movers, IInv, RecordRefused(m) PROVE IInv'
<1>1. ClaimSane'
  BY ShapeOK, ConstantsOK DEF IInv, Shape, ClaimSane, JobKnown, RecordRefused,
     Transition, claimVars, store, ops, provider, At, ClaimRow, NoClaim,
     Working, SettleLabels, Procs, Requests, Settlers, Reasons
<1>2. pc' \in [Procs -> Labels] /\ reply' \in [Requests -> Replies]
  BY GotoTyped, AnswerTyped, ConstantsOK DEF IInv, TypeOK, RecordRefused, At,
     Labels, Replies, Procs, Requests, Settlers
<1>3. TypeOK'
  BY <1>1, <1>2, ClaimTyped, TransitionTyped, ConstantsOK DEF IInv, TypeOK,
     ClaimsTypeOK, JobKnown, Working, SettleLabels, RecordRefused, claimVars,
     store, ops, provider, At, Procs, Requests, Settlers, LiveStates,
     OpStates, PatchStates
<1>4. /\ JobKnown' /\ MoversNeverIdle' /\ NotYetInserted' /\ NotYetOwner'
      /\ ReleasesFailed' /\ CancelOwned'
  BY ShapeOK, ConstantsOK DEF IInv, Shape, ClaimSane, JobKnown,
     MoversNeverIdle, NotYetInserted, NotYetOwner, ReleasesFailed,
     CancelOwned, Unrecorded, RecordRefused, Transition, claimVars, store,
     ops, provider, At, Goto, Answer, Owns, ClaimRow, NoClaim, Working,
     SettleLabels, Procs, Requests, Settlers
<1>5. ASSUME Prompt PROVE PromptInv'
  BY <1>5, ShapeOK, ConstantsOK DEF IInv, Shape, ClaimSane, JobKnown,
     MoversNeverIdle, NotYetInserted, NotYetOwner, ReleasesFailed,
     CancelOwned, Unrecorded, PromptInv, StaleOwnerStopped, SweptStopped,
     InsertOwned, LiveOpOwned, RecordRefused, Transition, claimVars, store,
     ops, provider, At, Goto, Answer, Owns, ClaimRow, NoClaim, Working,
     SettleLabels, Procs, Requests, Settlers, LiveStates, Live
<1>. QED
  BY <1>1, <1>2, <1>3, <1>4, <1>5 DEF IInv

LEMMA RecordUnknownStep == ASSUME NEW m \in Movers, IInv, RecordUnknown(m) PROVE IInv'
<1>1. ClaimSane'
  BY ShapeOK, ConstantsOK DEF IInv, Shape, ClaimSane, JobKnown, RecordUnknown,
     Transition, claimVars, store, ops, provider, At, ClaimRow, NoClaim,
     Working, SettleLabels, Procs, Requests, Settlers, Reasons
<1>2. pc' \in [Procs -> Labels] /\ reply' \in [Requests -> Replies]
  BY GotoTyped, ConstantsOK DEF IInv, TypeOK, RecordUnknown, At, Labels,
     Replies, Procs, Requests, Settlers
<1>3. TypeOK'
  BY <1>1, <1>2, ClaimTyped, TransitionTyped, ConstantsOK DEF IInv, TypeOK,
     ClaimsTypeOK, JobKnown, Working, SettleLabels, RecordUnknown, claimVars,
     store, ops, provider, At, Procs, Requests, Settlers, LiveStates,
     OpStates, PatchStates
<1>4. /\ JobKnown' /\ MoversNeverIdle' /\ NotYetInserted' /\ NotYetOwner'
      /\ ReleasesFailed' /\ CancelOwned'
  BY ShapeOK, ConstantsOK DEF IInv, Shape, ClaimSane, JobKnown,
     MoversNeverIdle, NotYetInserted, NotYetOwner, ReleasesFailed,
     CancelOwned, Unrecorded, RecordUnknown, Transition, claimVars, store,
     ops, provider, At, Goto, Owns, ClaimRow, NoClaim, Working, SettleLabels,
     Procs, Requests, Settlers
<1>5. ASSUME Prompt PROVE PromptInv'
  BY <1>5, ShapeOK, ConstantsOK DEF IInv, Shape, ClaimSane, JobKnown,
     MoversNeverIdle, NotYetInserted, NotYetOwner, ReleasesFailed,
     CancelOwned, Unrecorded, PromptInv, StaleOwnerStopped, SweptStopped,
     InsertOwned, LiveOpOwned, RecordUnknown, Transition, claimVars, store,
     ops, provider, At, Goto, Owns, ClaimRow, NoClaim, Working, SettleLabels,
     Procs, Requests, Settlers, LiveStates, Live
<1>. QED
  BY <1>1, <1>2, <1>3, <1>4, <1>5 DEF IInv

-----------------------------------------------------------------------------
(* Settling an operation *)

LEMMA ReadEventStep == ASSUME NEW p \in Settlers, IInv, ReadEvent(p) PROVE IInv'
<1>1. ClaimSane'
  BY ShapeOK, ConstantsOK DEF IInv, Shape, ClaimSane, JobKnown, ReadEvent,
     claimVars, store, ops, provider, local, At, ClaimRow, NoClaim, Working,
     SettleLabels, Procs, Requests, Settlers, Reasons
<1>2. pc' \in [Procs -> Labels] /\ reply' \in [Requests -> Replies]
  BY GotoTyped, AnswerTyped, ConstantsOK DEF IInv, TypeOK, ReadEvent, At,
     GiveUp, Labels, Replies, Procs, Requests, Settlers
<1>3. TypeOK'
  BY <1>1, <1>2, ClaimTyped, ConstantsOK DEF IInv, TypeOK, ClaimsTypeOK,
     JobKnown, Working, SettleLabels, ReadEvent, claimVars, store, ops,
     provider, local, At, Procs, Requests, Settlers, LiveStates, OpStates,
     PatchStates
<1>4. /\ JobKnown' /\ MoversNeverIdle' /\ NotYetInserted' /\ NotYetOwner'
      /\ ReleasesFailed' /\ CancelOwned'
  BY ShapeOK, ConstantsOK DEF IInv, Shape, ClaimSane, JobKnown,
     MoversNeverIdle, NotYetInserted, NotYetOwner, ReleasesFailed,
     CancelOwned, Unrecorded, ReadEvent, claimVars, store, ops, provider,
     local, At, Goto, Answer, GiveUp, Owns, ClaimRow, NoClaim, Working,
     SettleLabels, Procs, Requests, Settlers
<1>5. ASSUME Prompt PROVE PromptInv'
  BY <1>5, ShapeOK, ConstantsOK DEF IInv, Shape, ClaimSane, JobKnown,
     MoversNeverIdle, NotYetInserted, NotYetOwner, ReleasesFailed,
     CancelOwned, Unrecorded, PromptInv, StaleOwnerStopped, SweptStopped,
     InsertOwned, LiveOpOwned, ReadEvent, claimVars, store, ops, provider,
     local, At, Goto, Answer, GiveUp, Owns, ClaimRow, NoClaim, Working,
     SettleLabels, Procs, Requests, Settlers, LiveStates, Live
<1>. QED
  BY <1>1, <1>2, <1>3, <1>4, <1>5 DEF IInv

LEMMA ReadFailsStep == ASSUME NEW p \in Settlers, IInv, ReadFails(p) PROVE IInv'
<1>1. ClaimSane'
  BY ShapeOK, ConstantsOK DEF IInv, Shape, ClaimSane, JobKnown, ReadFails,
     claimVars, store, ops, provider, local, At, ClaimRow, NoClaim, Working,
     SettleLabels, Procs, Requests, Settlers, Reasons
<1>2. pc' \in [Procs -> Labels] /\ reply' \in [Requests -> Replies]
  BY GotoTyped, AnswerTyped, ConstantsOK DEF IInv, TypeOK, ReadFails, At,
     GiveUp, Labels, Replies, Procs, Requests, Settlers
<1>3. TypeOK'
  BY <1>1, <1>2, ClaimTyped, ConstantsOK DEF IInv, TypeOK, ClaimsTypeOK,
     JobKnown, Working, SettleLabels, ReadFails, claimVars, store, ops,
     provider, local, At, Procs, Requests, Settlers, LiveStates, OpStates,
     PatchStates
<1>4. /\ JobKnown' /\ MoversNeverIdle' /\ NotYetInserted' /\ NotYetOwner'
      /\ ReleasesFailed' /\ CancelOwned'
  BY ShapeOK, ConstantsOK DEF IInv, Shape, ClaimSane, JobKnown,
     MoversNeverIdle, NotYetInserted, NotYetOwner, ReleasesFailed,
     CancelOwned, Unrecorded, ReadFails, claimVars, store, ops, provider,
     local, At, Goto, Answer, GiveUp, Owns, ClaimRow, NoClaim, Working,
     SettleLabels, Procs, Requests, Settlers
<1>5. ASSUME Prompt PROVE PromptInv'
  BY <1>5, ShapeOK, ConstantsOK DEF IInv, Shape, ClaimSane, JobKnown,
     MoversNeverIdle, NotYetInserted, NotYetOwner, ReleasesFailed,
     CancelOwned, Unrecorded, PromptInv, StaleOwnerStopped, SweptStopped,
     InsertOwned, LiveOpOwned, ReadFails, claimVars, store, ops, provider,
     local, At, Goto, Answer, GiveUp, Owns, ClaimRow, NoClaim, Working,
     SettleLabels, Procs, Requests, Settlers, LiveStates, Live
<1>. QED
  BY <1>1, <1>2, <1>3, <1>4, <1>5 DEF IInv

LEMMA SettleMovedStep == ASSUME NEW p \in Settlers, IInv, SettleMoved(p) PROVE IInv'
<1>1. ClaimSane'
  BY ShapeOK, ConstantsOK DEF IInv, Shape, ClaimSane, JobKnown, SettleMoved,
     Transition, claimVars, store, ops, provider, local, At, ClaimRow,
     NoClaim, Working, SettleLabels, Procs, Requests, Settlers, Reasons
<1>2. pc' \in [Procs -> Labels] /\ reply' \in [Requests -> Replies]
  BY GotoTyped, AnswerTyped, ConstantsOK DEF IInv, TypeOK, SettleMoved, At,
     GiveUp, Labels, Replies, Procs, Requests, Settlers
<1>3. TypeOK'
  BY <1>1, <1>2, ClaimTyped, TransitionTyped, ConstantsOK DEF IInv, TypeOK,
     ClaimsTypeOK, JobKnown, Working, SettleLabels, SettleMoved, claimVars,
     store, ops, provider, local, At, Procs, Requests, Settlers, LiveStates,
     OpStates, PatchStates
<1>4. /\ JobKnown' /\ MoversNeverIdle' /\ NotYetInserted' /\ NotYetOwner'
      /\ ReleasesFailed' /\ CancelOwned'
  BY ShapeOK, ConstantsOK DEF IInv, Shape, ClaimSane, JobKnown,
     MoversNeverIdle, NotYetInserted, NotYetOwner, ReleasesFailed,
     CancelOwned, Unrecorded, SettleMoved, Transition, claimVars, store, ops,
     provider, local, At, Goto, Answer, GiveUp, Owns, ClaimRow, NoClaim,
     Working, SettleLabels, Procs, Requests, Settlers
<1>5. ASSUME Prompt PROVE PromptInv'
  BY <1>5, ShapeOK, ConstantsOK DEF IInv, Shape, ClaimSane, JobKnown,
     MoversNeverIdle, NotYetInserted, NotYetOwner, ReleasesFailed,
     CancelOwned, Unrecorded, PromptInv, StaleOwnerStopped, SweptStopped,
     InsertOwned, LiveOpOwned, SettleMoved, Transition, claimVars, store, ops,
     provider, local, At, Goto, Answer, GiveUp, Owns, ClaimRow, NoClaim,
     Working, SettleLabels, Procs, Requests, Settlers, LiveStates, Live
<1>. QED
  BY <1>1, <1>2, <1>3, <1>4, <1>5 DEF IInv

LEMMA SettleNotMovedStep == ASSUME NEW p \in Settlers, IInv, SettleNotMoved(p) PROVE IInv'
<1>1. ClaimSane'
  BY ShapeOK, ConstantsOK DEF IInv, Shape, ClaimSane, JobKnown,
     SettleNotMoved, Transition, claimVars, store, ops, provider, local, At,
     ClaimRow, NoClaim, Working, SettleLabels, Procs, Requests, Settlers,
     Reasons
<1>2. pc' \in [Procs -> Labels] /\ reply' \in [Requests -> Replies]
  BY GotoTyped, AnswerTyped, ConstantsOK DEF IInv, TypeOK, SettleNotMoved, At,
     GiveUp, Labels, Replies, Procs, Requests, Settlers
<1>3. TypeOK'
  BY <1>1, <1>2, ClaimTyped, TransitionTyped, ConstantsOK DEF IInv, TypeOK,
     ClaimsTypeOK, JobKnown, Working, SettleLabels, SettleNotMoved, claimVars,
     store, ops, provider, local, At, Procs, Requests, Settlers, LiveStates,
     OpStates, PatchStates
<1>4. /\ JobKnown' /\ MoversNeverIdle' /\ NotYetInserted' /\ NotYetOwner'
      /\ ReleasesFailed' /\ CancelOwned'
  BY ShapeOK, ConstantsOK DEF IInv, Shape, ClaimSane, JobKnown,
     MoversNeverIdle, NotYetInserted, NotYetOwner, ReleasesFailed,
     CancelOwned, Unrecorded, SettleNotMoved, Transition, claimVars, store,
     ops, provider, local, At, Goto, Answer, GiveUp, Owns, ClaimRow, NoClaim,
     Working, SettleLabels, Procs, Requests, Settlers
<1>5. ASSUME Prompt PROVE PromptInv'
  BY <1>5, ShapeOK, ConstantsOK DEF IInv, Shape, ClaimSane, JobKnown,
     MoversNeverIdle, NotYetInserted, NotYetOwner, ReleasesFailed,
     CancelOwned, Unrecorded, PromptInv, StaleOwnerStopped, SweptStopped,
     InsertOwned, LiveOpOwned, SettleNotMoved, Transition, claimVars, store,
     ops, provider, local, At, Goto, Answer, GiveUp, Owns, ClaimRow, NoClaim,
     Working, SettleLabels, Procs, Requests, Settlers, LiveStates, Live
<1>. QED
  BY <1>1, <1>2, <1>3, <1>4, <1>5 DEF IInv

LEMMA ReleaseFailedStep == ASSUME NEW p \in Settlers, IInv, ReleaseFailed(p) PROVE IInv'
<1>1. ClaimSane'
  BY ShapeOK, ConstantsOK DEF IInv, Shape, ClaimSane, JobKnown, ReleaseFailed,
     Release, Delete, claimVars, store, ops, provider, local, At, ClaimRow,
     NoClaim, Working, SettleLabels, Procs, Requests, Settlers, Reasons
<1>2. pc' \in [Procs -> Labels] /\ reply' \in [Requests -> Replies]
  BY GotoTyped, AnswerTyped, ConstantsOK DEF IInv, TypeOK, ReleaseFailed, At,
     GiveUp, Labels, Replies, Procs, Requests, Settlers
<1>3. TypeOK'
  BY <1>1, <1>2, ClaimTyped, ConstantsOK DEF IInv, TypeOK, ClaimsTypeOK,
     JobKnown, Working, SettleLabels, ReleaseFailed, Release, Delete,
     claimVars, store, ops, provider, local, At, Procs, Requests, Settlers,
     LiveStates, OpStates, PatchStates
<1>4. /\ JobKnown' /\ MoversNeverIdle' /\ NotYetInserted' /\ NotYetOwner'
      /\ ReleasesFailed' /\ CancelOwned'
  BY ShapeOK, ConstantsOK DEF IInv, Shape, ClaimSane, JobKnown,
     MoversNeverIdle, NotYetInserted, NotYetOwner, ReleasesFailed,
     CancelOwned, Unrecorded, ReleaseFailed, Release, Delete, claimVars,
     store, ops, provider, local, At, Goto, Answer, GiveUp, Owns, ClaimRow,
     NoClaim, Working, SettleLabels, Procs, Requests, Settlers
<1>5. ASSUME Prompt PROVE PromptInv'
  BY <1>5, ShapeOK, ConstantsOK DEF IInv, Shape, ClaimSane, JobKnown,
     MoversNeverIdle, NotYetInserted, NotYetOwner, ReleasesFailed,
     CancelOwned, Unrecorded, PromptInv, StaleOwnerStopped, SweptStopped,
     InsertOwned, LiveOpOwned, ReleaseFailed, Release, Delete, claimVars,
     store, ops, provider, local, At, Goto, Answer, GiveUp, Owns, ClaimRow,
     NoClaim, Working, SettleLabels, Procs, Requests, Settlers, LiveStates,
     Live
<1>. QED
  BY <1>1, <1>2, <1>3, <1>4, <1>5 DEF IInv

LEMMA VerifyStep == ASSUME NEW p \in Settlers, IInv, Verify(p) PROVE IInv'
<1>1. ClaimSane'
  BY ShapeOK, ConstantsOK DEF IInv, Shape, ClaimSane, JobKnown, Verify,
     Transition, claimVars, store, ops, provider, local, At, ClaimRow,
     NoClaim, Working, SettleLabels, Procs, Requests, Settlers, Reasons
<1>2. pc' \in [Procs -> Labels] /\ reply' \in [Requests -> Replies]
  BY GotoTyped, AnswerTyped, ConstantsOK DEF IInv, TypeOK, Verify, At, GiveUp,
     Labels, Replies, Procs, Requests, Settlers
<1>3. TypeOK'
  BY <1>1, <1>2, ClaimTyped, TransitionTyped, ConstantsOK DEF IInv, TypeOK,
     ClaimsTypeOK, JobKnown, Working, SettleLabels, Verify, claimVars, store,
     ops, provider, local, At, Procs, Requests, Settlers, LiveStates,
     OpStates, PatchStates
<1>4. /\ JobKnown' /\ MoversNeverIdle' /\ NotYetInserted' /\ NotYetOwner'
      /\ ReleasesFailed' /\ CancelOwned'
  BY ShapeOK, ConstantsOK DEF IInv, Shape, ClaimSane, JobKnown,
     MoversNeverIdle, NotYetInserted, NotYetOwner, ReleasesFailed,
     CancelOwned, Unrecorded, Verify, Transition, claimVars, store, ops,
     provider, local, At, Goto, Answer, GiveUp, Owns, ClaimRow, NoClaim,
     Working, SettleLabels, Procs, Requests, Settlers
<1>5. ASSUME Prompt PROVE PromptInv'
  BY <1>5, ShapeOK, ConstantsOK DEF IInv, Shape, ClaimSane, JobKnown,
     MoversNeverIdle, NotYetInserted, NotYetOwner, ReleasesFailed,
     CancelOwned, Unrecorded, PromptInv, StaleOwnerStopped, SweptStopped,
     InsertOwned, LiveOpOwned, Verify, Transition, claimVars, store, ops,
     provider, local, At, Goto, Answer, GiveUp, Owns, ClaimRow, NoClaim,
     Working, SettleLabels, Procs, Requests, Settlers, LiveStates, Live
<1>. QED
  BY <1>1, <1>2, <1>3, <1>4, <1>5 DEF IInv

LEMMA FinishStep == ASSUME NEW p \in Settlers, IInv, Finish(p) PROVE IInv'
<1>1. ClaimSane'
  BY ShapeOK, ConstantsOK DEF IInv, Shape, ClaimSane, JobKnown, Finish,
     Transition, Commit, OwnsFinish, Delete, claimVars, ops, provider, local,
     At, Owns, ClaimRow, NoClaim, Working, SettleLabels, Procs, Requests,
     Settlers, Reasons
<1>2. pc' \in [Procs -> Labels] /\ reply' \in [Requests -> Replies]
  BY GotoTyped, AnswerTyped, ConstantsOK DEF IInv, TypeOK, Finish, At, GiveUp,
     Labels, Replies, Procs, Requests, Settlers
<1>3. TypeOK'
<2>1. job[p] \in Movers /\ want[job[p]] \in Times
  BY DEF IInv, TypeOK, JobKnown, Finish, At, Working, SettleLabels, Settlers
<2>2. row' \in [start : Times, active : BOOLEAN]
  BY <2>1, RowTyped DEF IInv, Finish, Commit
<2>3. /\ opState' \in [Movers -> OpStates]
      /\ opOld' \in [Movers -> BOOLEAN]
      /\ readers' \in [Movers -> SUBSET Workers]
  BY <2>1, TransitionTyped DEF IInv, TypeOK, Finish, Commit, ops, OpStates
<2>4. claimOld' \in BOOLEAN
  BY DEF IInv, TypeOK, ClaimsTypeOK, Finish, Commit, Delete, claimVars
<2>. QED
  BY <1>1, <1>2, <2>2, <2>3, <2>4, ClaimTyped DEF IInv, TypeOK, ClaimsTypeOK,
     Finish, provider, local
<1>4. /\ JobKnown' /\ MoversNeverIdle' /\ NotYetInserted' /\ NotYetOwner'
      /\ ReleasesFailed' /\ CancelOwned'
  BY ShapeOK, ConstantsOK DEF IInv, Shape, ClaimSane, JobKnown,
     MoversNeverIdle, NotYetInserted, NotYetOwner, ReleasesFailed,
     CancelOwned, Unrecorded, Finish, Transition, Commit, OwnsFinish, Delete,
     claimVars, ops, provider, local, At, Goto, Answer, GiveUp, Owns,
     ClaimRow, NoClaim, Working, SettleLabels, Procs, Requests, Settlers
<1>5. ASSUME Prompt PROVE PromptInv'
  BY <1>5, ShapeOK, ConstantsOK DEF IInv, Shape, ClaimSane, JobKnown,
     MoversNeverIdle, NotYetInserted, NotYetOwner, ReleasesFailed,
     CancelOwned, Unrecorded, PromptInv, StaleOwnerStopped, SweptStopped,
     InsertOwned, LiveOpOwned, Finish, Transition, Commit, OwnsFinish, Delete,
     claimVars, ops, provider, local, At, Goto, Answer, GiveUp, Owns,
     ClaimRow, NoClaim, Working, SettleLabels, Procs, Requests, Settlers,
     LiveStates, Live
<1>. QED
  BY <1>1, <1>2, <1>3, <1>4, <1>5 DEF IInv

LEMMA FinishRaisesStep == ASSUME NEW p \in Settlers, IInv, FinishRaises(p) PROVE IInv'
<1>1. ClaimSane'
  BY ShapeOK, ConstantsOK DEF IInv, Shape, ClaimSane, JobKnown, FinishRaises,
     Transition, Commit, OwnsFinish, Delete, claimVars, ops, provider, local,
     At, Owns, ClaimRow, NoClaim, Working, SettleLabels, Procs, Requests,
     Settlers, Reasons
<1>2. pc' \in [Procs -> Labels] /\ reply' \in [Requests -> Replies]
  BY GotoTyped, AnswerTyped, ConstantsOK DEF IInv, TypeOK, FinishRaises, At,
     GiveUp, Labels, Replies, Procs, Requests, Settlers
<1>3. TypeOK'
<2>1. job[p] \in Movers /\ want[job[p]] \in Times
  BY DEF IInv, TypeOK, JobKnown, FinishRaises, At, Working, SettleLabels, Settlers
<2>2. row' \in [start : Times, active : BOOLEAN]
  BY <2>1, RowTyped DEF IInv, FinishRaises, Commit
<2>3. /\ opState' \in [Movers -> OpStates]
      /\ opOld' \in [Movers -> BOOLEAN]
      /\ readers' \in [Movers -> SUBSET Workers]
  BY <2>1, TransitionTyped DEF IInv, TypeOK, FinishRaises, Commit, ops, OpStates
<2>4. claimOld' \in BOOLEAN
  BY DEF IInv, TypeOK, ClaimsTypeOK, FinishRaises, Commit, Delete, claimVars
<2>. QED
  BY <1>1, <1>2, <2>2, <2>3, <2>4, ClaimTyped DEF IInv, TypeOK, ClaimsTypeOK,
     FinishRaises, provider, local
<1>4. /\ JobKnown' /\ MoversNeverIdle' /\ NotYetInserted' /\ NotYetOwner'
      /\ ReleasesFailed' /\ CancelOwned'
  BY ShapeOK, ConstantsOK DEF IInv, Shape, ClaimSane, JobKnown,
     MoversNeverIdle, NotYetInserted, NotYetOwner, ReleasesFailed,
     CancelOwned, Unrecorded, FinishRaises, Transition, Commit, OwnsFinish,
     Delete, claimVars, ops, provider, local, At, Goto, Answer, GiveUp, Owns,
     ClaimRow, NoClaim, Working, SettleLabels, Procs, Requests, Settlers
<1>5. ASSUME Prompt PROVE PromptInv'
  BY <1>5, ShapeOK, ConstantsOK DEF IInv, Shape, ClaimSane, JobKnown,
     MoversNeverIdle, NotYetInserted, NotYetOwner, ReleasesFailed,
     CancelOwned, Unrecorded, PromptInv, StaleOwnerStopped, SweptStopped,
     InsertOwned, LiveOpOwned, FinishRaises, Transition, Commit, OwnsFinish,
     Delete, claimVars, ops, provider, local, At, Goto, Answer, GiveUp, Owns,
     ClaimRow, NoClaim, Working, SettleLabels, Procs, Requests, Settlers,
     LiveStates, Live
<1>. QED
  BY <1>1, <1>2, <1>3, <1>4, <1>5 DEF IInv

LEMMA ConfirmStep == ASSUME NEW p \in Settlers, IInv, Confirm(p) PROVE IInv'
<1>1. ClaimSane'
  BY ShapeOK, ConstantsOK DEF IInv, Shape, ClaimSane, JobKnown, Confirm,
     claimVars, store, ops, provider, At, ClaimRow, NoClaim, Working,
     SettleLabels, Procs, Requests, Settlers, Reasons
<1>2. pc' \in [Procs -> Labels] /\ reply' \in [Requests -> Replies]
  BY GotoTyped, AnswerTyped, ConstantsOK DEF IInv, TypeOK, Confirm, At,
     GiveUp, Labels, Replies, Procs, Requests, Settlers
<1>3. TypeOK'
<2>1. seen' \in [Movers -> [start : Times, active : BOOLEAN, retry : BOOLEAN]]
<3>1. UNCHANGED seen \/ (p \in Movers /\
                        seen' = [seen EXCEPT ![p].start = row.start, ![p].active = row.active])
  BY DEF Confirm, Settlers
<3>2. row.start \in Times /\ row.active \in BOOLEAN
      /\ seen \in [Movers -> [start : Times, active : BOOLEAN, retry : BOOLEAN]]
  BY DEF IInv, TypeOK
<3>. QED
  BY <3>1, <3>2
<2>. QED
  BY <1>1, <1>2, <2>1, ClaimTyped DEF IInv, TypeOK, ClaimsTypeOK, Confirm,
     claimVars, store, ops, provider
<1>4. /\ JobKnown' /\ MoversNeverIdle' /\ NotYetInserted' /\ NotYetOwner'
      /\ ReleasesFailed' /\ CancelOwned'
  BY ShapeOK, ConstantsOK DEF IInv, Shape, ClaimSane, JobKnown,
     MoversNeverIdle, NotYetInserted, NotYetOwner, ReleasesFailed,
     CancelOwned, Unrecorded, Confirm, claimVars, store, ops, provider, At,
     Goto, Answer, GiveUp, Owns, ClaimRow, NoClaim, Working, SettleLabels,
     Procs, Requests, Settlers
<1>5. ASSUME Prompt PROVE PromptInv'
  BY <1>5, ShapeOK, ConstantsOK DEF IInv, Shape, ClaimSane, JobKnown,
     MoversNeverIdle, NotYetInserted, NotYetOwner, ReleasesFailed,
     CancelOwned, Unrecorded, PromptInv, StaleOwnerStopped, SweptStopped,
     InsertOwned, LiveOpOwned, Confirm, claimVars, store, ops, provider, At,
     Goto, Answer, GiveUp, Owns, ClaimRow, NoClaim, Working, SettleLabels,
     Procs, Requests, Settlers, LiveStates, Live
<1>. QED
  BY <1>1, <1>2, <1>3, <1>4, <1>5 DEF IInv

LEMMA ConsumeRefStep == ASSUME NEW m \in Movers, IInv, ConsumeRef(m) PROVE IInv'
<1>1. ClaimSane'
  BY ShapeOK, ConstantsOK DEF IInv, Shape, ClaimSane, JobKnown, ConsumeRef,
     claimVars, ops, provider, local, At, ClaimRow, NoClaim, Working,
     SettleLabels, Procs, Requests, Settlers, Reasons
<1>2. pc' \in [Procs -> Labels] /\ reply' \in [Requests -> Replies]
  BY AnswerTyped, ConstantsOK DEF IInv, TypeOK, ConsumeRef, At, Labels,
     Replies, Procs, Requests, Settlers
<1>3. TypeOK'
  BY <1>1, <1>2, ClaimTyped, ConstantsOK DEF IInv, TypeOK, ClaimsTypeOK,
     JobKnown, Working, SettleLabels, ConsumeRef, claimVars, ops, provider,
     local, At, Procs, Requests, Settlers, LiveStates, OpStates, PatchStates
<1>4. /\ JobKnown' /\ MoversNeverIdle' /\ NotYetInserted' /\ NotYetOwner'
      /\ ReleasesFailed' /\ CancelOwned'
  BY ShapeOK, ConstantsOK DEF IInv, Shape, ClaimSane, JobKnown,
     MoversNeverIdle, NotYetInserted, NotYetOwner, ReleasesFailed,
     CancelOwned, Unrecorded, ConsumeRef, claimVars, ops, provider, local, At,
     Answer, Owns, ClaimRow, NoClaim, Working, SettleLabels, Procs, Requests,
     Settlers
<1>5. ASSUME Prompt PROVE PromptInv'
  BY <1>5, ShapeOK, ConstantsOK DEF IInv, Shape, ClaimSane, JobKnown,
     MoversNeverIdle, NotYetInserted, NotYetOwner, ReleasesFailed,
     CancelOwned, Unrecorded, PromptInv, StaleOwnerStopped, SweptStopped,
     InsertOwned, LiveOpOwned, ConsumeRef, claimVars, ops, provider, local,
     At, Answer, Owns, ClaimRow, NoClaim, Working, SettleLabels, Procs,
     Requests, Settlers, LiveStates, Live
<1>. QED
  BY <1>1, <1>2, <1>3, <1>4, <1>5 DEF IInv

-----------------------------------------------------------------------------
(* The background passes *)

LEMMA ListStaleStep == ASSUME NEW w \in Workers, IInv, ListStale(w) PROVE IInv'
<1>1. ClaimSane'
  BY ShapeOK, ConstantsOK DEF IInv, Shape, ClaimSane, JobKnown, ListStale,
     claimVars, store, provider, At, ClaimRow, NoClaim, Working, SettleLabels,
     Procs, Requests, Settlers, Reasons
<1>2. pc' \in [Procs -> Labels] /\ reply' \in [Requests -> Replies]
  BY GotoTyped, ConstantsOK DEF IInv, TypeOK, ListStale, At, Labels, Replies,
     Procs, Requests, Settlers
<1>3. job' \in [Procs -> Movers \cup {Nil}] /\ readers' \in [Movers -> SUBSET Workers]
  BY ConstantsOK DEF IInv, TypeOK, ListStale, Procs, Requests, Settlers
<1>4. TypeOK'
  BY <1>1, <1>2, <1>3, ClaimTyped DEF IInv, TypeOK, ClaimsTypeOK, ListStale,
     claimVars, store, provider
<1>5. /\ JobKnown' /\ MoversNeverIdle' /\ NotYetInserted' /\ NotYetOwner'
      /\ ReleasesFailed' /\ CancelOwned'
  BY ShapeOK, ConstantsOK DEF IInv, Shape, ClaimSane, JobKnown,
     MoversNeverIdle, NotYetInserted, NotYetOwner, ReleasesFailed,
     CancelOwned, Unrecorded, ListStale, claimVars, store, provider, At, Goto,
     Owns, ClaimRow, NoClaim, Working, SettleLabels, Procs, Requests,
     Settlers, LiveStates, Live
<1>6. ASSUME Prompt PROVE PromptInv'
  BY <1>6, ShapeOK, ConstantsOK DEF IInv, Shape, ClaimSane, JobKnown,
     MoversNeverIdle, NotYetInserted, NotYetOwner, ReleasesFailed,
     CancelOwned, Unrecorded, PromptInv, StaleOwnerStopped, SweptStopped,
     InsertOwned, LiveOpOwned, ListStale, claimVars, store, provider, At,
     Goto, Owns, ClaimRow, NoClaim, Working, SettleLabels, Procs, Requests,
     Settlers, LiveStates, Live
<1>. QED
  BY <1>1, <1>2, <1>3, <1>4, <1>5, <1>6 DEF IInv

LEMMA LeaseStep == ASSUME NEW w \in Workers, IInv, Lease(w) PROVE IInv'
<1>1. ClaimSane'
  BY ShapeOK, ConstantsOK DEF IInv, Shape, ClaimSane, JobKnown, Lease,
     Transition, claimVars, store, ops, provider, local, At, ClaimRow,
     NoClaim, Working, SettleLabels, Procs, Requests, Settlers, Reasons
<1>2. pc' \in [Procs -> Labels] /\ reply' \in [Requests -> Replies]
  BY GotoTyped, ConstantsOK DEF IInv, TypeOK, Lease, At, Labels, Replies,
     Procs, Requests, Settlers
<1>3. TypeOK'
  BY <1>1, <1>2, ClaimTyped, TransitionTyped, ConstantsOK DEF IInv, TypeOK,
     ClaimsTypeOK, JobKnown, Working, SettleLabels, Lease, claimVars, store,
     ops, provider, local, At, Procs, Requests, Settlers, LiveStates,
     OpStates, PatchStates, Live
<1>4. /\ JobKnown' /\ MoversNeverIdle' /\ NotYetInserted' /\ NotYetOwner'
      /\ ReleasesFailed' /\ CancelOwned'
  BY ShapeOK, ConstantsOK DEF IInv, Shape, ClaimSane, JobKnown,
     MoversNeverIdle, NotYetInserted, NotYetOwner, ReleasesFailed,
     CancelOwned, Unrecorded, Lease, Transition, claimVars, store, ops,
     provider, local, At, Goto, Owns, ClaimRow, NoClaim, Working,
     SettleLabels, Procs, Requests, Settlers, LiveStates, Live
<1>5. ASSUME Prompt PROVE PromptInv'
  BY <1>5, ShapeOK, ConstantsOK DEF IInv, Shape, ClaimSane, JobKnown,
     MoversNeverIdle, NotYetInserted, NotYetOwner, ReleasesFailed,
     CancelOwned, Unrecorded, PromptInv, StaleOwnerStopped, SweptStopped,
     InsertOwned, LiveOpOwned, Lease, Transition, claimVars, store, ops,
     provider, local, At, Goto, Owns, ClaimRow, NoClaim, Working,
     SettleLabels, Procs, Requests, Settlers, LiveStates, Live
<1>. QED
  BY <1>1, <1>2, <1>3, <1>4, <1>5 DEF IInv

LEMMA ListOrphansStep == ASSUME NEW w \in Workers, IInv, ListOrphans(w) PROVE IInv'
<1>1. ClaimSane'
  BY ShapeOK, ConstantsOK DEF IInv, Shape, ClaimSane, JobKnown, ListOrphans,
     claimVars, store, ops, provider, At, ClaimRow, NoClaim, Working,
     SettleLabels, Procs, Requests, Settlers, Reasons
<1>2. pc' \in [Procs -> Labels] /\ reply' \in [Requests -> Replies]
  BY GotoTyped, ConstantsOK DEF IInv, TypeOK, ListOrphans, At, Labels,
     Replies, Procs, Requests, Settlers
<1>3. job' \in [Procs -> Movers \cup {Nil}]
  BY ConstantsOK DEF IInv, TypeOK, ClaimSane, ClaimRow, NoClaim, ListOrphans,
     Procs, Requests, Settlers
<1>4. TypeOK'
  BY <1>1, <1>2, <1>3, ClaimTyped DEF IInv, TypeOK, ClaimsTypeOK, ListOrphans,
     claimVars, store, ops, provider
<1>5. /\ JobKnown' /\ MoversNeverIdle' /\ NotYetInserted' /\ NotYetOwner'
      /\ ReleasesFailed' /\ CancelOwned'
  BY ShapeOK, ConstantsOK DEF IInv, Shape, ClaimSane, JobKnown,
     MoversNeverIdle, NotYetInserted, NotYetOwner, ReleasesFailed,
     CancelOwned, Unrecorded, ListOrphans, claimVars, store, ops, provider,
     At, Goto, Owns, ClaimRow, NoClaim, Working, SettleLabels, Procs,
     Requests, Settlers
<1>6. ASSUME Prompt PROVE PromptInv'
  BY <1>6, ShapeOK, ConstantsOK DEF IInv, Shape, ClaimSane, JobKnown,
     MoversNeverIdle, NotYetInserted, NotYetOwner, ReleasesFailed,
     CancelOwned, Unrecorded, PromptInv, StaleOwnerStopped, SweptStopped,
     InsertOwned, LiveOpOwned, ListOrphans, claimVars, store, ops, provider,
     At, Goto, Owns, ClaimRow, NoClaim, Working, SettleLabels, Procs,
     Requests, Settlers, LiveStates, Live
<1>. QED
  BY <1>1, <1>2, <1>3, <1>4, <1>5, <1>6 DEF IInv

LEMMA LookForOpStep == ASSUME NEW w \in Workers, IInv, LookForOp(w) PROVE IInv'
<1>1. ClaimSane'
  BY ShapeOK, ConstantsOK DEF IInv, Shape, ClaimSane, JobKnown, LookForOp,
     claimVars, store, ops, provider, local, At, ClaimRow, NoClaim, Working,
     SettleLabels, Procs, Requests, Settlers, Reasons
<1>2. pc' \in [Procs -> Labels] /\ reply' \in [Requests -> Replies]
  BY GotoTyped, ConstantsOK DEF IInv, TypeOK, LookForOp, At, Labels, Replies,
     Procs, Requests, Settlers
<1>3. TypeOK'
  BY <1>1, <1>2, ClaimTyped, ConstantsOK DEF IInv, TypeOK, ClaimsTypeOK,
     JobKnown, Working, SettleLabels, LookForOp, claimVars, store, ops,
     provider, local, At, Procs, Requests, Settlers, LiveStates, OpStates,
     PatchStates
<1>4. /\ JobKnown' /\ MoversNeverIdle' /\ NotYetInserted' /\ NotYetOwner'
      /\ ReleasesFailed' /\ CancelOwned'
  BY ShapeOK, ConstantsOK DEF IInv, Shape, ClaimSane, JobKnown,
     MoversNeverIdle, NotYetInserted, NotYetOwner, ReleasesFailed,
     CancelOwned, Unrecorded, LookForOp, claimVars, store, ops, provider,
     local, At, Goto, Owns, ClaimRow, NoClaim, Working, SettleLabels, Procs,
     Requests, Settlers
<1>5. ASSUME Prompt PROVE PromptInv'
  BY <1>5, ShapeOK, ConstantsOK DEF IInv, Shape, ClaimSane, JobKnown,
     MoversNeverIdle, NotYetInserted, NotYetOwner, ReleasesFailed,
     CancelOwned, Unrecorded, PromptInv, StaleOwnerStopped, SweptStopped,
     InsertOwned, LiveOpOwned, LookForOp, claimVars, store, ops, provider,
     local, At, Goto, Owns, ClaimRow, NoClaim, Working, SettleLabels, Procs,
     Requests, Settlers, LiveStates, Live
<1>. QED
  BY <1>1, <1>2, <1>3, <1>4, <1>5 DEF IInv

LEMMA SweepOrphanStep == ASSUME NEW w \in Workers, IInv, SweepOrphan(w) PROVE IInv'
<1>1. ClaimSane'
  BY ShapeOK, ConstantsOK DEF IInv, Shape, ClaimSane, JobKnown, SweepOrphan,
     ReleaseOrphan, Delete, claimVars, store, ops, provider, local, At, Owns,
     ClaimRow, NoClaim, Working, SettleLabels, Procs, Requests, Settlers,
     Reasons
<1>2. pc' \in [Procs -> Labels] /\ reply' \in [Requests -> Replies]
  BY GotoTyped, ConstantsOK DEF IInv, TypeOK, SweepOrphan, At, Labels,
     Replies, Procs, Requests, Settlers
<1>3. TypeOK'
  BY <1>1, <1>2, ClaimTyped, ConstantsOK DEF IInv, TypeOK, ClaimsTypeOK,
     JobKnown, Working, SettleLabels, SweepOrphan, ReleaseOrphan, Delete,
     claimVars, store, ops, provider, local, At, Procs, Requests, Settlers,
     LiveStates, OpStates, PatchStates
<1>4. /\ JobKnown' /\ MoversNeverIdle' /\ NotYetInserted' /\ NotYetOwner'
      /\ ReleasesFailed' /\ CancelOwned'
  BY ShapeOK, ConstantsOK DEF IInv, Shape, ClaimSane, JobKnown,
     MoversNeverIdle, NotYetInserted, NotYetOwner, ReleasesFailed,
     CancelOwned, Unrecorded, SweepOrphan, ReleaseOrphan, Delete, claimVars,
     store, ops, provider, local, At, Goto, Owns, ClaimRow, NoClaim, Working,
     SettleLabels, Procs, Requests, Settlers
<1>5. ASSUME Prompt PROVE PromptInv'
  BY <1>5, ShapeOK, ConstantsOK DEF IInv, Shape, ClaimSane, JobKnown,
     MoversNeverIdle, NotYetInserted, NotYetOwner, ReleasesFailed,
     CancelOwned, Unrecorded, PromptInv, StaleOwnerStopped, SweptStopped,
     InsertOwned, LiveOpOwned, SweepOrphan, ReleaseOrphan, Delete, claimVars,
     store, ops, provider, local, At, Goto, Owns, ClaimRow, NoClaim, Working,
     SettleLabels, Procs, Requests, Settlers, LiveStates, Live
<1>. QED
  BY <1>1, <1>2, <1>3, <1>4, <1>5 DEF IInv

LEMMA ReconcileCancelStep == ASSUME NEW w \in Workers, IInv, ReconcileCancel(w) PROVE IInv'
<1>1. ClaimSane'
  BY ShapeOK, ConstantsOK DEF IInv, Shape, ClaimSane, JobKnown,
     ReconcileCancel, TakeOverReconcile, TakeOver, store, ops, provider,
     local, At, Owns, ClaimRow, NoClaim, Working, SettleLabels, Procs,
     Requests, Settlers, Reasons
<1>2. pc' \in [Procs -> Labels] /\ reply' \in [Requests -> Replies]
  BY ConstantsOK DEF IInv, TypeOK, ReconcileCancel, At, Labels, Replies,
     Procs, Requests, Settlers
<1>3. TypeOK'
  BY <1>1, <1>2, ClaimTyped, ConstantsOK DEF IInv, TypeOK, ClaimsTypeOK,
     JobKnown, Working, SettleLabels, ReconcileCancel, TakeOverReconcile,
     TakeOver, store, ops, provider, local, At, Procs, Requests, Settlers,
     LiveStates, OpStates, PatchStates
<1>4. /\ JobKnown' /\ MoversNeverIdle' /\ NotYetInserted' /\ NotYetOwner'
      /\ ReleasesFailed' /\ CancelOwned'
  BY ShapeOK, ConstantsOK DEF IInv, Shape, ClaimSane, JobKnown,
     MoversNeverIdle, NotYetInserted, NotYetOwner, ReleasesFailed,
     CancelOwned, Unrecorded, ReconcileCancel, TakeOverReconcile, TakeOver,
     store, ops, provider, local, At, Owns, ClaimRow, NoClaim, Working,
     SettleLabels, Procs, Requests, Settlers
<1>5. ASSUME Prompt PROVE PromptInv'
  BY <1>5, ShapeOK, ConstantsOK DEF IInv, Shape, ClaimSane, JobKnown,
     MoversNeverIdle, NotYetInserted, NotYetOwner, ReleasesFailed,
     CancelOwned, Unrecorded, PromptInv, StaleOwnerStopped, SweptStopped,
     InsertOwned, LiveOpOwned, ReconcileCancel, TakeOverReconcile, TakeOver,
     store, ops, provider, local, At, Owns, ClaimRow, NoClaim, Working,
     SettleLabels, Procs, Requests, Settlers, LiveStates, Live
<1>. QED
  BY <1>1, <1>2, <1>3, <1>4, <1>5 DEF IInv

-----------------------------------------------------------------------------
(* The cancel tool *)

LEMMA BeginCancelStep == ASSUME NEW c \in Cancellers, IInv, BeginCancel(c) PROVE IInv'
<1>1. ClaimSane'
  BY ShapeOK, ConstantsOK DEF IInv, Shape, ClaimSane, JobKnown, BeginCancel,
     claimVars, store, ops, provider, local, At, ClaimRow, NoClaim, Working,
     SettleLabels, Procs, Requests, Settlers, Reasons
<1>2. pc' \in [Procs -> Labels] /\ reply' \in [Requests -> Replies]
  BY GotoTyped, AnswerTyped, ConstantsOK DEF IInv, TypeOK, BeginCancel, At,
     Labels, Replies, Procs, Requests, Settlers
<1>3. TypeOK'
  BY <1>1, <1>2, ClaimTyped, ConstantsOK DEF IInv, TypeOK, ClaimsTypeOK,
     JobKnown, Working, SettleLabels, BeginCancel, claimVars, store, ops,
     provider, local, At, Procs, Requests, Settlers, LiveStates, OpStates,
     PatchStates
<1>4. /\ JobKnown' /\ MoversNeverIdle' /\ NotYetInserted' /\ NotYetOwner'
      /\ ReleasesFailed' /\ CancelOwned'
  BY ShapeOK, ConstantsOK DEF IInv, Shape, ClaimSane, JobKnown,
     MoversNeverIdle, NotYetInserted, NotYetOwner, ReleasesFailed,
     CancelOwned, Unrecorded, BeginCancel, claimVars, store, ops, provider,
     local, At, Goto, Answer, Owns, ClaimRow, NoClaim, Working, SettleLabels,
     Procs, Requests, Settlers
<1>5. ASSUME Prompt PROVE PromptInv'
  BY <1>5, ShapeOK, ConstantsOK DEF IInv, Shape, ClaimSane, JobKnown,
     MoversNeverIdle, NotYetInserted, NotYetOwner, ReleasesFailed,
     CancelOwned, Unrecorded, PromptInv, StaleOwnerStopped, SweptStopped,
     InsertOwned, LiveOpOwned, BeginCancel, claimVars, store, ops, provider,
     local, At, Goto, Answer, Owns, ClaimRow, NoClaim, Working, SettleLabels,
     Procs, Requests, Settlers, LiveStates, Live
<1>. QED
  BY <1>1, <1>2, <1>3, <1>4, <1>5 DEF IInv

LEMMA OwnCancelStep == ASSUME NEW c \in Cancellers, IInv, OwnCancel(c) PROVE IInv'
<1>1. ClaimSane'
  BY ShapeOK, ConstantsOK DEF IInv, Shape, ClaimSane, JobKnown, OwnCancel,
     AcquireCancel, Insert, claimVars, store, ops, provider, local, At, Free,
     ClaimRow, NoClaim, Working, SettleLabels, Procs, Requests, Settlers,
     Reasons
<1>2. pc' \in [Procs -> Labels] /\ reply' \in [Requests -> Replies]
  BY GotoTyped, AnswerTyped, ConstantsOK DEF IInv, TypeOK, OwnCancel, At,
     Labels, Replies, Procs, Requests, Settlers
<1>3. TypeOK'
  BY <1>1, <1>2, ClaimTyped, ConstantsOK DEF IInv, TypeOK, ClaimsTypeOK,
     JobKnown, Working, SettleLabels, OwnCancel, AcquireCancel, Insert,
     claimVars, store, ops, provider, local, At, Procs, Requests, Settlers,
     LiveStates, OpStates, PatchStates
<1>4. /\ JobKnown' /\ MoversNeverIdle' /\ NotYetInserted' /\ NotYetOwner'
      /\ ReleasesFailed' /\ CancelOwned'
  BY ShapeOK, ConstantsOK DEF IInv, Shape, ClaimSane, JobKnown,
     MoversNeverIdle, NotYetInserted, NotYetOwner, ReleasesFailed,
     CancelOwned, Unrecorded, OwnCancel, AcquireCancel, Insert, claimVars,
     store, ops, provider, local, At, Goto, Answer, Free, Owns, ClaimRow,
     NoClaim, Working, SettleLabels, Procs, Requests, Settlers
<1>5. ASSUME Prompt PROVE PromptInv'
  BY <1>5, ShapeOK, ConstantsOK DEF IInv, Shape, ClaimSane, JobKnown,
     MoversNeverIdle, NotYetInserted, NotYetOwner, ReleasesFailed,
     CancelOwned, Unrecorded, PromptInv, StaleOwnerStopped, SweptStopped,
     InsertOwned, LiveOpOwned, OwnCancel, AcquireCancel, Insert, claimVars,
     store, ops, provider, local, At, Goto, Answer, Free, Owns, ClaimRow,
     NoClaim, Working, SettleLabels, Procs, Requests, Settlers, LiveStates,
     Live
<1>. QED
  BY <1>1, <1>2, <1>3, <1>4, <1>5 DEF IInv

LEMMA OwnCancelRaisesStep == ASSUME NEW c \in Cancellers, IInv, OwnCancelRaises(c) PROVE IInv'
<1>1. ClaimSane'
  BY ShapeOK, ConstantsOK DEF IInv, Shape, ClaimSane, JobKnown,
     OwnCancelRaises, AcquireCancel, Insert, claimVars, store, ops, provider,
     local, At, Free, ClaimRow, NoClaim, Working, SettleLabels, Procs,
     Requests, Settlers, Reasons
<1>2. pc' \in [Procs -> Labels] /\ reply' \in [Requests -> Replies]
  BY AnswerTyped, ConstantsOK DEF IInv, TypeOK, OwnCancelRaises, At, Labels,
     Replies, Procs, Requests, Settlers
<1>3. TypeOK'
  BY <1>1, <1>2, ClaimTyped, ConstantsOK DEF IInv, TypeOK, ClaimsTypeOK,
     JobKnown, Working, SettleLabels, OwnCancelRaises, AcquireCancel, Insert,
     claimVars, store, ops, provider, local, At, Procs, Requests, Settlers,
     LiveStates, OpStates, PatchStates
<1>4. /\ JobKnown' /\ MoversNeverIdle' /\ NotYetInserted' /\ NotYetOwner'
      /\ ReleasesFailed' /\ CancelOwned'
  BY ShapeOK, ConstantsOK DEF IInv, Shape, ClaimSane, JobKnown,
     MoversNeverIdle, NotYetInserted, NotYetOwner, ReleasesFailed,
     CancelOwned, Unrecorded, OwnCancelRaises, AcquireCancel, Insert,
     claimVars, store, ops, provider, local, At, Answer, Free, Owns, ClaimRow,
     NoClaim, Working, SettleLabels, Procs, Requests, Settlers
<1>5. ASSUME Prompt PROVE PromptInv'
  BY <1>5, ShapeOK, ConstantsOK DEF IInv, Shape, ClaimSane, JobKnown,
     MoversNeverIdle, NotYetInserted, NotYetOwner, ReleasesFailed,
     CancelOwned, Unrecorded, PromptInv, StaleOwnerStopped, SweptStopped,
     InsertOwned, LiveOpOwned, OwnCancelRaises, AcquireCancel, Insert,
     claimVars, store, ops, provider, local, At, Answer, Free, Owns, ClaimRow,
     NoClaim, Working, SettleLabels, Procs, Requests, Settlers, LiveStates,
     Live
<1>. QED
  BY <1>1, <1>2, <1>3, <1>4, <1>5 DEF IInv

LEMMA RereadCancelStep == ASSUME NEW c \in Cancellers, IInv, RereadCancel(c) PROVE IInv'
<1>1. ClaimSane'
  BY ShapeOK, ConstantsOK DEF IInv, Shape, ClaimSane, JobKnown, RereadCancel,
     Release, Delete, claimVars, store, ops, provider, local, At, ClaimRow,
     NoClaim, Working, SettleLabels, Procs, Requests, Settlers, Reasons
<1>2. pc' \in [Procs -> Labels] /\ reply' \in [Requests -> Replies]
  BY GotoTyped, AnswerTyped, ConstantsOK DEF IInv, TypeOK, RereadCancel, At,
     Labels, Replies, Procs, Requests, Settlers
<1>3. TypeOK'
  BY <1>1, <1>2, ClaimTyped, ConstantsOK DEF IInv, TypeOK, ClaimsTypeOK,
     JobKnown, Working, SettleLabels, RereadCancel, Release, Delete,
     claimVars, store, ops, provider, local, At, Procs, Requests, Settlers,
     LiveStates, OpStates, PatchStates
<1>4. /\ JobKnown' /\ MoversNeverIdle' /\ NotYetInserted' /\ NotYetOwner'
      /\ ReleasesFailed' /\ CancelOwned'
  BY ShapeOK, ConstantsOK DEF IInv, Shape, ClaimSane, JobKnown,
     MoversNeverIdle, NotYetInserted, NotYetOwner, ReleasesFailed,
     CancelOwned, Unrecorded, RereadCancel, Release, Delete, claimVars, store,
     ops, provider, local, At, Goto, Answer, Owns, ClaimRow, NoClaim, Working,
     SettleLabels, Procs, Requests, Settlers
<1>5. ASSUME Prompt PROVE PromptInv'
  BY <1>5, ShapeOK, ConstantsOK DEF IInv, Shape, ClaimSane, JobKnown,
     MoversNeverIdle, NotYetInserted, NotYetOwner, ReleasesFailed,
     CancelOwned, Unrecorded, PromptInv, StaleOwnerStopped, SweptStopped,
     InsertOwned, LiveOpOwned, RereadCancel, Release, Delete, claimVars,
     store, ops, provider, local, At, Goto, Answer, Owns, ClaimRow, NoClaim,
     Working, SettleLabels, Procs, Requests, Settlers, LiveStates, Live
<1>. QED
  BY <1>1, <1>2, <1>3, <1>4, <1>5 DEF IInv

LEMMA ClaimRefStep == ASSUME NEW c \in Cancellers, IInv, ClaimRef(c) PROVE IInv'
<1>1. ClaimSane'
  BY ShapeOK, ConstantsOK DEF IInv, Shape, ClaimSane, JobKnown, ClaimRef,
     Release, Delete, claimVars, ops, provider, local, At, ClaimRow, NoClaim,
     Working, SettleLabels, Procs, Requests, Settlers, Reasons
<1>2. pc' \in [Procs -> Labels] /\ reply' \in [Requests -> Replies]
  BY GotoTyped, AnswerTyped, ConstantsOK DEF IInv, TypeOK, ClaimRef, At,
     Labels, Replies, Procs, Requests, Settlers
<1>3. consumed' \subseteq Refs
  BY ConstantsOK DEF IInv, TypeOK, ClaimRef, Procs, Requests, Settlers
<1>4. claimOld' \in BOOLEAN
  BY ConstantsOK DEF IInv, TypeOK, ClaimsTypeOK, ClaimRef, Release, Delete,
     claimVars
<1>5. TypeOK'
  BY <1>1, <1>2, <1>3, <1>4, ClaimTyped DEF IInv, TypeOK, ClaimsTypeOK,
     ClaimRef, ops, provider, local
<1>6. /\ JobKnown' /\ MoversNeverIdle' /\ NotYetInserted' /\ NotYetOwner'
      /\ ReleasesFailed' /\ CancelOwned'
  BY ShapeOK, ConstantsOK DEF IInv, Shape, ClaimSane, JobKnown,
     MoversNeverIdle, NotYetInserted, NotYetOwner, ReleasesFailed,
     CancelOwned, Unrecorded, ClaimRef, Release, Delete, claimVars, ops,
     provider, local, At, Goto, Answer, Owns, ClaimRow, NoClaim, Working,
     SettleLabels, Procs, Requests, Settlers
<1>7. ASSUME Prompt PROVE PromptInv'
  BY <1>7, ShapeOK, ConstantsOK DEF IInv, Shape, ClaimSane, JobKnown,
     MoversNeverIdle, NotYetInserted, NotYetOwner, ReleasesFailed,
     CancelOwned, Unrecorded, PromptInv, StaleOwnerStopped, SweptStopped,
     InsertOwned, LiveOpOwned, ClaimRef, Release, Delete, claimVars, ops,
     provider, local, At, Goto, Answer, Owns, ClaimRow, NoClaim, Working,
     SettleLabels, Procs, Requests, Settlers, LiveStates, Live
<1>. QED
  BY <1>1, <1>2, <1>3, <1>4, <1>5, <1>6, <1>7 DEF IInv

LEMMA ClaimRefRaisesStep == ASSUME NEW c \in Cancellers, IInv, ClaimRefRaises(c) PROVE IInv'
<1>1. ClaimSane'
  BY ShapeOK, ConstantsOK DEF IInv, Shape, ClaimSane, JobKnown,
     ClaimRefRaises, Release, Delete, claimVars, ops, provider, local, At,
     ClaimRow, NoClaim, Working, SettleLabels, Procs, Requests, Settlers,
     Reasons
<1>2. pc' \in [Procs -> Labels] /\ reply' \in [Requests -> Replies]
  BY AnswerTyped, ConstantsOK DEF IInv, TypeOK, ClaimRefRaises, At, Labels,
     Replies, Procs, Requests, Settlers
<1>3. consumed' \subseteq Refs
  BY ConstantsOK DEF IInv, TypeOK, ClaimRefRaises, Procs, Requests, Settlers
<1>4. claimOld' \in BOOLEAN
  BY ConstantsOK DEF IInv, TypeOK, ClaimsTypeOK, ClaimRefRaises, Release,
     Delete, claimVars
<1>5. TypeOK'
  BY <1>1, <1>2, <1>3, <1>4, ClaimTyped DEF IInv, TypeOK, ClaimsTypeOK,
     ClaimRefRaises, ops, provider, local
<1>6. /\ JobKnown' /\ MoversNeverIdle' /\ NotYetInserted' /\ NotYetOwner'
      /\ ReleasesFailed' /\ CancelOwned'
  BY ShapeOK, ConstantsOK DEF IInv, Shape, ClaimSane, JobKnown,
     MoversNeverIdle, NotYetInserted, NotYetOwner, ReleasesFailed,
     CancelOwned, Unrecorded, ClaimRefRaises, Release, Delete, claimVars, ops,
     provider, local, At, Answer, Owns, ClaimRow, NoClaim, Working,
     SettleLabels, Procs, Requests, Settlers
<1>7. ASSUME Prompt PROVE PromptInv'
  BY <1>7, ShapeOK, ConstantsOK DEF IInv, Shape, ClaimSane, JobKnown,
     MoversNeverIdle, NotYetInserted, NotYetOwner, ReleasesFailed,
     CancelOwned, Unrecorded, PromptInv, StaleOwnerStopped, SweptStopped,
     InsertOwned, LiveOpOwned, ClaimRefRaises, Release, Delete, claimVars,
     ops, provider, local, At, Answer, Owns, ClaimRow, NoClaim, Working,
     SettleLabels, Procs, Requests, Settlers, LiveStates, Live
<1>. QED
  BY <1>1, <1>2, <1>3, <1>4, <1>5, <1>6, <1>7 DEF IInv

LEMMA DeleteEventStep == ASSUME NEW c \in Cancellers, IInv, DeleteEvent(c) PROVE IInv'
<1>1. ClaimSane'
  BY ShapeOK, ConstantsOK DEF IInv, Shape, ClaimSane, JobKnown, DeleteEvent,
     claimVars, store, ops, local, At, ClaimRow, NoClaim, Working,
     SettleLabels, Procs, Requests, Settlers, Reasons
<1>2. pc' \in [Procs -> Labels] /\ reply' \in [Requests -> Replies]
  BY GotoTyped, ConstantsOK DEF IInv, TypeOK, DeleteEvent, At, Labels,
     Replies, Procs, Requests, Settlers
<1>3. TypeOK'
  BY <1>1, <1>2, ClaimTyped, ConstantsOK DEF IInv, TypeOK, ClaimsTypeOK,
     JobKnown, Working, SettleLabels, DeleteEvent, claimVars, store, ops,
     local, At, Procs, Requests, Settlers, LiveStates, OpStates, PatchStates
<1>4. /\ JobKnown' /\ MoversNeverIdle' /\ NotYetInserted' /\ NotYetOwner'
      /\ ReleasesFailed' /\ CancelOwned'
  BY ShapeOK, ConstantsOK DEF IInv, Shape, ClaimSane, JobKnown,
     MoversNeverIdle, NotYetInserted, NotYetOwner, ReleasesFailed,
     CancelOwned, Unrecorded, DeleteEvent, claimVars, store, ops, local, At,
     Goto, Owns, ClaimRow, NoClaim, Working, SettleLabels, Procs, Requests,
     Settlers
<1>5. ASSUME Prompt PROVE PromptInv'
  BY <1>5, ShapeOK, ConstantsOK DEF IInv, Shape, ClaimSane, JobKnown,
     MoversNeverIdle, NotYetInserted, NotYetOwner, ReleasesFailed,
     CancelOwned, Unrecorded, PromptInv, StaleOwnerStopped, SweptStopped,
     InsertOwned, LiveOpOwned, DeleteEvent, claimVars, store, ops, local, At,
     Goto, Owns, ClaimRow, NoClaim, Working, SettleLabels, Procs, Requests,
     Settlers, LiveStates, Live
<1>. QED
  BY <1>1, <1>2, <1>3, <1>4, <1>5 DEF IInv

LEMMA DeleteRaisesStep == ASSUME NEW c \in Cancellers, IInv, DeleteRaises(c) PROVE IInv'
<1>1. ClaimSane'
  BY ShapeOK, ConstantsOK DEF IInv, Shape, ClaimSane, JobKnown, DeleteRaises,
     claimVars, store, ops, local, At, ClaimRow, NoClaim, Working,
     SettleLabels, Procs, Requests, Settlers, Reasons
<1>2. pc' \in [Procs -> Labels] /\ reply' \in [Requests -> Replies]
  BY GotoTyped, ConstantsOK DEF IInv, TypeOK, DeleteRaises, At, Labels,
     Replies, Procs, Requests, Settlers
<1>3. TypeOK'
<2>1. event' \in [start : Times, live : BOOLEAN]
  BY EventTyped DEF IInv, DeleteRaises
<2>. QED
  BY <1>1, <1>2, <2>1, ClaimTyped DEF IInv, TypeOK, ClaimsTypeOK, DeleteRaises,
     claimVars, store, ops, local
<1>4. /\ JobKnown' /\ MoversNeverIdle' /\ NotYetInserted' /\ NotYetOwner'
      /\ ReleasesFailed' /\ CancelOwned'
  BY ShapeOK, ConstantsOK DEF IInv, Shape, ClaimSane, JobKnown,
     MoversNeverIdle, NotYetInserted, NotYetOwner, ReleasesFailed,
     CancelOwned, Unrecorded, DeleteRaises, claimVars, store, ops, local, At,
     Goto, Owns, ClaimRow, NoClaim, Working, SettleLabels, Procs, Requests,
     Settlers
<1>5. ASSUME Prompt PROVE PromptInv'
  BY <1>5, ShapeOK, ConstantsOK DEF IInv, Shape, ClaimSane, JobKnown,
     MoversNeverIdle, NotYetInserted, NotYetOwner, ReleasesFailed,
     CancelOwned, Unrecorded, PromptInv, StaleOwnerStopped, SweptStopped,
     InsertOwned, LiveOpOwned, DeleteRaises, claimVars, store, ops, local, At,
     Goto, Owns, ClaimRow, NoClaim, Working, SettleLabels, Procs, Requests,
     Settlers, LiveStates, Live
<1>. QED
  BY <1>1, <1>2, <1>3, <1>4, <1>5 DEF IInv

LEMMA UndoCancelStep == ASSUME NEW c \in Cancellers, IInv, UndoCancel(c) PROVE IInv'
<1>1. ClaimSane'
  BY ShapeOK, ConstantsOK DEF IInv, Shape, ClaimSane, JobKnown, UndoCancel,
     Release, Delete, claimVars, ops, provider, local, At, ClaimRow, NoClaim,
     Working, SettleLabels, Procs, Requests, Settlers, Reasons
<1>2. pc' \in [Procs -> Labels] /\ reply' \in [Requests -> Replies]
  BY AnswerTyped, ConstantsOK DEF IInv, TypeOK, UndoCancel, At, Labels,
     Replies, Procs, Requests, Settlers
<1>3. consumed' \subseteq Refs
  BY ConstantsOK DEF IInv, TypeOK, UndoCancel, Procs, Requests, Settlers
<1>4. claimOld' \in BOOLEAN
  BY ConstantsOK DEF IInv, TypeOK, ClaimsTypeOK, UndoCancel, Release, Delete,
     claimVars
<1>5. TypeOK'
  BY <1>1, <1>2, <1>3, <1>4, ClaimTyped DEF IInv, TypeOK, ClaimsTypeOK,
     UndoCancel, ops, provider, local
<1>6. /\ JobKnown' /\ MoversNeverIdle' /\ NotYetInserted' /\ NotYetOwner'
      /\ ReleasesFailed' /\ CancelOwned'
  BY ShapeOK, ConstantsOK DEF IInv, Shape, ClaimSane, JobKnown,
     MoversNeverIdle, NotYetInserted, NotYetOwner, ReleasesFailed,
     CancelOwned, Unrecorded, UndoCancel, Release, Delete, claimVars, ops,
     provider, local, At, Answer, Owns, ClaimRow, NoClaim, Working,
     SettleLabels, Procs, Requests, Settlers
<1>7. ASSUME Prompt PROVE PromptInv'
  BY <1>7, ShapeOK, ConstantsOK DEF IInv, Shape, ClaimSane, JobKnown,
     MoversNeverIdle, NotYetInserted, NotYetOwner, ReleasesFailed,
     CancelOwned, Unrecorded, PromptInv, StaleOwnerStopped, SweptStopped,
     InsertOwned, LiveOpOwned, UndoCancel, Release, Delete, claimVars, ops,
     provider, local, At, Answer, Owns, ClaimRow, NoClaim, Working,
     SettleLabels, Procs, Requests, Settlers, LiveStates, Live
<1>. QED
  BY <1>1, <1>2, <1>3, <1>4, <1>5, <1>6, <1>7 DEF IInv

LEMMA WriteCancelledStep == ASSUME NEW c \in Cancellers, IInv, WriteCancelled(c) PROVE IInv'
<1>1. ClaimSane'
  BY ShapeOK, ConstantsOK DEF IInv, Shape, ClaimSane, JobKnown,
     WriteCancelled, claimVars, ops, provider, local, At, ClaimRow, NoClaim,
     Working, SettleLabels, Procs, Requests, Settlers, Reasons
<1>2. pc' \in [Procs -> Labels] /\ reply' \in [Requests -> Replies]
  BY GotoTyped, ConstantsOK DEF IInv, TypeOK, WriteCancelled, At, Labels,
     Replies, Procs, Requests, Settlers
<1>3. TypeOK'
  BY <1>1, <1>2, ClaimTyped, ConstantsOK DEF IInv, TypeOK, ClaimsTypeOK,
     JobKnown, Working, SettleLabels, WriteCancelled, claimVars, ops,
     provider, local, At, Procs, Requests, Settlers, LiveStates, OpStates,
     PatchStates
<1>4. /\ JobKnown' /\ MoversNeverIdle' /\ NotYetInserted' /\ NotYetOwner'
      /\ ReleasesFailed' /\ CancelOwned'
  BY ShapeOK, ConstantsOK DEF IInv, Shape, ClaimSane, JobKnown,
     MoversNeverIdle, NotYetInserted, NotYetOwner, ReleasesFailed,
     CancelOwned, Unrecorded, WriteCancelled, claimVars, ops, provider, local,
     At, Goto, Owns, ClaimRow, NoClaim, Working, SettleLabels, Procs,
     Requests, Settlers
<1>5. ASSUME Prompt PROVE PromptInv'
  BY <1>5, ShapeOK, ConstantsOK DEF IInv, Shape, ClaimSane, JobKnown,
     MoversNeverIdle, NotYetInserted, NotYetOwner, ReleasesFailed,
     CancelOwned, Unrecorded, PromptInv, StaleOwnerStopped, SweptStopped,
     InsertOwned, LiveOpOwned, WriteCancelled, claimVars, ops, provider,
     local, At, Goto, Owns, ClaimRow, NoClaim, Working, SettleLabels, Procs,
     Requests, Settlers, LiveStates, Live
<1>. QED
  BY <1>1, <1>2, <1>3, <1>4, <1>5 DEF IInv

LEMMA ReleaseCancelStep == ASSUME NEW c \in Cancellers, IInv, ReleaseCancel(c) PROVE IInv'
<1>1. ClaimSane'
  BY ShapeOK, ConstantsOK DEF IInv, Shape, ClaimSane, JobKnown, ReleaseCancel,
     Release, Delete, claimVars, store, ops, provider, local, At, ClaimRow,
     NoClaim, Working, SettleLabels, Procs, Requests, Settlers, Reasons
<1>2. pc' \in [Procs -> Labels] /\ reply' \in [Requests -> Replies]
  BY AnswerTyped, ConstantsOK DEF IInv, TypeOK, ReleaseCancel, At, Labels,
     Replies, Procs, Requests, Settlers
<1>3. TypeOK'
  BY <1>1, <1>2, ClaimTyped, ConstantsOK DEF IInv, TypeOK, ClaimsTypeOK,
     JobKnown, Working, SettleLabels, ReleaseCancel, Release, Delete,
     claimVars, store, ops, provider, local, At, Procs, Requests, Settlers,
     LiveStates, OpStates, PatchStates
<1>4. /\ JobKnown' /\ MoversNeverIdle' /\ NotYetInserted' /\ NotYetOwner'
      /\ ReleasesFailed' /\ CancelOwned'
  BY ShapeOK, ConstantsOK DEF IInv, Shape, ClaimSane, JobKnown,
     MoversNeverIdle, NotYetInserted, NotYetOwner, ReleasesFailed,
     CancelOwned, Unrecorded, ReleaseCancel, Release, Delete, claimVars,
     store, ops, provider, local, At, Answer, Owns, ClaimRow, NoClaim,
     Working, SettleLabels, Procs, Requests, Settlers
<1>5. ASSUME Prompt PROVE PromptInv'
  BY <1>5, ShapeOK, ConstantsOK DEF IInv, Shape, ClaimSane, JobKnown,
     MoversNeverIdle, NotYetInserted, NotYetOwner, ReleasesFailed,
     CancelOwned, Unrecorded, PromptInv, StaleOwnerStopped, SweptStopped,
     InsertOwned, LiveOpOwned, ReleaseCancel, Release, Delete, claimVars,
     store, ops, provider, local, At, Answer, Owns, ClaimRow, NoClaim,
     Working, SettleLabels, Procs, Requests, Settlers, LiveStates, Live
<1>. QED
  BY <1>1, <1>2, <1>3, <1>4, <1>5 DEF IInv

LEMMA WriteRaisesStep == ASSUME NEW c \in Cancellers, IInv, WriteRaises(c) PROVE IInv'
<1>1. ClaimSane'
  BY ShapeOK, ConstantsOK DEF IInv, Shape, ClaimSane, JobKnown, WriteRaises,
     ToReconcile, claimVars, ops, provider, local, At, Owns, ClaimRow,
     NoClaim, Working, SettleLabels, Procs, Requests, Settlers, Reasons
<1>2. pc' \in [Procs -> Labels] /\ reply' \in [Requests -> Replies]
  BY AnswerTyped, ConstantsOK DEF IInv, TypeOK, WriteRaises, At, Labels,
     Replies, Procs, Requests, Settlers
<1>3. TypeOK'
<2>1. row' \in [start : Times, active : BOOLEAN]
  BY RowTyped DEF IInv, TypeOK, WriteRaises
<2>2. claimOld' \in BOOLEAN
  BY DEF IInv, TypeOK, ClaimsTypeOK, WriteRaises, ToReconcile, claimVars
<2>. QED
  BY <1>1, <1>2, <2>1, <2>2, ClaimTyped DEF IInv, TypeOK, ClaimsTypeOK, WriteRaises,
     ops, provider, local
<1>4. /\ JobKnown' /\ MoversNeverIdle' /\ NotYetInserted' /\ NotYetOwner'
      /\ ReleasesFailed' /\ CancelOwned'
  BY ShapeOK, ConstantsOK DEF IInv, Shape, ClaimSane, JobKnown,
     MoversNeverIdle, NotYetInserted, NotYetOwner, ReleasesFailed,
     CancelOwned, Unrecorded, WriteRaises, ToReconcile, claimVars, ops,
     provider, local, At, Answer, Owns, ClaimRow, NoClaim, Working,
     SettleLabels, Procs, Requests, Settlers
<1>5. ASSUME Prompt PROVE PromptInv'
  BY <1>5, ShapeOK, ConstantsOK DEF IInv, Shape, ClaimSane, JobKnown,
     MoversNeverIdle, NotYetInserted, NotYetOwner, ReleasesFailed,
     CancelOwned, Unrecorded, PromptInv, StaleOwnerStopped, SweptStopped,
     InsertOwned, LiveOpOwned, WriteRaises, ToReconcile, claimVars, ops,
     provider, local, At, Answer, Owns, ClaimRow, NoClaim, Working,
     SettleLabels, Procs, Requests, Settlers, LiveStates, Live
<1>. QED
  BY <1>1, <1>2, <1>3, <1>4, <1>5 DEF IInv

-----------------------------------------------------------------------------
(* The provider, the merchant, the clock and crashes *)

LEMMA ApplyPatchStep == ASSUME NEW m \in Movers, IInv, ApplyPatch(m) PROVE IInv'
<1>1. ClaimSane'
  BY ShapeOK, ConstantsOK DEF IInv, Shape, ClaimSane, JobKnown, ApplyPatch,
     claimVars, store, ops, local, ClaimRow, NoClaim, Working, SettleLabels,
     Procs, Requests, Settlers, Reasons
<1>2. pc' \in [Procs -> Labels] /\ reply' \in [Requests -> Replies]
  BY ConstantsOK DEF IInv, TypeOK, ApplyPatch, Labels, Replies, Procs,
     Requests, Settlers
<1>3. TypeOK'
  BY <1>1, <1>2, ClaimTyped, ConstantsOK DEF IInv, TypeOK, ClaimsTypeOK,
     JobKnown, Working, SettleLabels, ApplyPatch, claimVars, store, ops,
     local, Procs, Requests, Settlers, LiveStates, OpStates, PatchStates
<1>4. /\ JobKnown' /\ MoversNeverIdle' /\ NotYetInserted' /\ NotYetOwner'
      /\ ReleasesFailed' /\ CancelOwned'
  BY ShapeOK, ConstantsOK DEF IInv, Shape, ClaimSane, JobKnown,
     MoversNeverIdle, NotYetInserted, NotYetOwner, ReleasesFailed,
     CancelOwned, Unrecorded, ApplyPatch, claimVars, store, ops, local, Owns,
     ClaimRow, NoClaim, Working, SettleLabels, Procs, Requests, Settlers
<1>5. ASSUME Prompt PROVE PromptInv'
  BY <1>5, ShapeOK, ConstantsOK DEF IInv, Shape, ClaimSane, JobKnown,
     MoversNeverIdle, NotYetInserted, NotYetOwner, ReleasesFailed,
     CancelOwned, Unrecorded, PromptInv, StaleOwnerStopped, SweptStopped,
     InsertOwned, LiveOpOwned, ApplyPatch, claimVars, store, ops, local, Owns,
     ClaimRow, NoClaim, Working, SettleLabels, Procs, Requests, Settlers,
     LiveStates, Live
<1>. QED
  BY <1>1, <1>2, <1>3, <1>4, <1>5 DEF IInv

LEMMA RefusePatchStep == ASSUME NEW m \in Movers, IInv, RefusePatch(m) PROVE IInv'
<1>1. ClaimSane'
  BY ShapeOK, ConstantsOK DEF IInv, Shape, ClaimSane, JobKnown, RefusePatch,
     claimVars, store, ops, local, ClaimRow, NoClaim, Working, SettleLabels,
     Procs, Requests, Settlers, Reasons
<1>2. pc' \in [Procs -> Labels] /\ reply' \in [Requests -> Replies]
  BY ConstantsOK DEF IInv, TypeOK, RefusePatch, Labels, Replies, Procs,
     Requests, Settlers
<1>3. TypeOK'
  BY <1>1, <1>2, ClaimTyped, ConstantsOK DEF IInv, TypeOK, ClaimsTypeOK,
     JobKnown, Working, SettleLabels, RefusePatch, claimVars, store, ops,
     local, Procs, Requests, Settlers, LiveStates, OpStates, PatchStates
<1>4. /\ JobKnown' /\ MoversNeverIdle' /\ NotYetInserted' /\ NotYetOwner'
      /\ ReleasesFailed' /\ CancelOwned'
  BY ShapeOK, ConstantsOK DEF IInv, Shape, ClaimSane, JobKnown,
     MoversNeverIdle, NotYetInserted, NotYetOwner, ReleasesFailed,
     CancelOwned, Unrecorded, RefusePatch, claimVars, store, ops, local, Owns,
     ClaimRow, NoClaim, Working, SettleLabels, Procs, Requests, Settlers
<1>5. ASSUME Prompt PROVE PromptInv'
  BY <1>5, ShapeOK, ConstantsOK DEF IInv, Shape, ClaimSane, JobKnown,
     MoversNeverIdle, NotYetInserted, NotYetOwner, ReleasesFailed,
     CancelOwned, Unrecorded, PromptInv, StaleOwnerStopped, SweptStopped,
     InsertOwned, LiveOpOwned, RefusePatch, claimVars, store, ops, local,
     Owns, ClaimRow, NoClaim, Working, SettleLabels, Procs, Requests,
     Settlers, LiveStates, Live
<1>. QED
  BY <1>1, <1>2, <1>3, <1>4, <1>5 DEF IInv

LEMMA MerchantEditsStep == ASSUME IInv, MerchantEdits PROVE IInv'
<1>1. ClaimSane'
  BY ShapeOK, ConstantsOK DEF IInv, Shape, ClaimSane, JobKnown, MerchantEdits,
     claimVars, store, ops, local, ClaimRow, NoClaim, Working, SettleLabels,
     Procs, Requests, Settlers, Reasons
<1>2. pc' \in [Procs -> Labels] /\ reply' \in [Requests -> Replies]
  BY ConstantsOK DEF IInv, TypeOK, MerchantEdits, Labels, Replies, Procs,
     Requests, Settlers
<1>3. TypeOK'
  BY <1>1, <1>2, ClaimTyped, ConstantsOK DEF IInv, TypeOK, ClaimsTypeOK,
     JobKnown, Working, SettleLabels, MerchantEdits, claimVars, store, ops,
     local, Procs, Requests, Settlers, LiveStates, OpStates, PatchStates
<1>4. /\ JobKnown' /\ MoversNeverIdle' /\ NotYetInserted' /\ NotYetOwner'
      /\ ReleasesFailed' /\ CancelOwned'
  BY ShapeOK, ConstantsOK DEF IInv, Shape, ClaimSane, JobKnown,
     MoversNeverIdle, NotYetInserted, NotYetOwner, ReleasesFailed,
     CancelOwned, Unrecorded, MerchantEdits, claimVars, store, ops, local,
     Owns, ClaimRow, NoClaim, Working, SettleLabels, Procs, Requests, Settlers
<1>5. ASSUME Prompt PROVE PromptInv'
  BY <1>5, ShapeOK, ConstantsOK DEF IInv, Shape, ClaimSane, JobKnown,
     MoversNeverIdle, NotYetInserted, NotYetOwner, ReleasesFailed,
     CancelOwned, Unrecorded, PromptInv, StaleOwnerStopped, SweptStopped,
     InsertOwned, LiveOpOwned, MerchantEdits, claimVars, store, ops, local,
     Owns, ClaimRow, NoClaim, Working, SettleLabels, Procs, Requests,
     Settlers, LiveStates, Live
<1>. QED
  BY <1>1, <1>2, <1>3, <1>4, <1>5 DEF IInv

LEMMA AgeClaimStep == ASSUME IInv, AgeClaim PROVE IInv'
<1>1. ClaimSane'
  BY ShapeOK, ConstantsOK DEF IInv, Shape, ClaimSane, JobKnown, AgeClaim,
     ClaimAges, store, ops, provider, local, Free, ClaimRow, NoClaim, Working,
     SettleLabels, Procs, Requests, Settlers, Reasons
<1>2. pc' \in [Procs -> Labels] /\ reply' \in [Requests -> Replies]
  BY ConstantsOK DEF IInv, TypeOK, AgeClaim, Labels, Replies, Procs, Requests,
     Settlers
<1>3. TypeOK'
  BY <1>1, <1>2, ClaimTyped, ConstantsOK DEF IInv, TypeOK, ClaimsTypeOK,
     JobKnown, Working, SettleLabels, AgeClaim, ClaimAges, store, ops,
     provider, local, Procs, Requests, Settlers, LiveStates, OpStates,
     PatchStates
<1>4. /\ JobKnown' /\ MoversNeverIdle' /\ NotYetInserted' /\ NotYetOwner'
      /\ ReleasesFailed' /\ CancelOwned'
  BY ShapeOK, ConstantsOK DEF IInv, Shape, ClaimSane, JobKnown,
     MoversNeverIdle, NotYetInserted, NotYetOwner, ReleasesFailed,
     CancelOwned, Unrecorded, AgeClaim, ClaimAges, store, ops, provider,
     local, Free, Owns, ClaimRow, NoClaim, Working, SettleLabels, Procs,
     Requests, Settlers
<1>5. ASSUME Prompt PROVE PromptInv'
  BY <1>5, ShapeOK, ConstantsOK DEF IInv, Shape, ClaimSane, JobKnown,
     MoversNeverIdle, NotYetInserted, NotYetOwner, ReleasesFailed,
     CancelOwned, Unrecorded, PromptInv, StaleOwnerStopped, SweptStopped,
     InsertOwned, LiveOpOwned, Resting, AgeClaim, ClaimAges, store, ops,
     provider, local, Free, Owns, ClaimRow, NoClaim, Working, SettleLabels,
     Procs, Requests, Settlers, LiveStates, Live
<1>. QED
  BY <1>1, <1>2, <1>3, <1>4, <1>5 DEF IInv

LEMMA AgeOpStep == ASSUME NEW m \in Movers, IInv, AgeOp(m) PROVE IInv'
<1>1. ClaimSane'
  BY ShapeOK, ConstantsOK DEF IInv, Shape, ClaimSane, JobKnown, AgeOp,
     claimVars, store, provider, local, ClaimRow, NoClaim, Working,
     SettleLabels, Procs, Requests, Settlers, Reasons
<1>2. pc' \in [Procs -> Labels] /\ reply' \in [Requests -> Replies]
  BY ConstantsOK DEF IInv, TypeOK, AgeOp, Labels, Replies, Procs, Requests,
     Settlers
<1>3. TypeOK'
  BY <1>1, <1>2, ClaimTyped, ConstantsOK DEF IInv, TypeOK, ClaimsTypeOK,
     JobKnown, Working, SettleLabels, AgeOp, claimVars, store, ops, provider,
     local, Procs, Requests, Settlers, LiveStates, OpStates, PatchStates, Live
<1>4. /\ JobKnown' /\ MoversNeverIdle' /\ NotYetInserted' /\ NotYetOwner'
      /\ ReleasesFailed' /\ CancelOwned'
  BY ShapeOK, ConstantsOK DEF IInv, Shape, ClaimSane, JobKnown,
     MoversNeverIdle, NotYetInserted, NotYetOwner, ReleasesFailed,
     CancelOwned, Unrecorded, AgeOp, claimVars, store, provider, local, Owns,
     ClaimRow, NoClaim, Working, SettleLabels, Procs, Requests, Settlers,
     LiveStates, Live
<1>5. ASSUME Prompt PROVE PromptInv'
  BY <1>5, ShapeOK, ConstantsOK DEF IInv, Shape, ClaimSane, JobKnown,
     MoversNeverIdle, NotYetInserted, NotYetOwner, ReleasesFailed,
     CancelOwned, Unrecorded, PromptInv, StaleOwnerStopped, SweptStopped,
     InsertOwned, LiveOpOwned, Resting, AgeOp, claimVars, store, provider,
     local, Owns, ClaimRow, NoClaim, Working, SettleLabels, Procs, Requests,
     Settlers, LiveStates, Live
<1>. QED
  BY <1>1, <1>2, <1>3, <1>4, <1>5 DEF IInv

LEMMA CrashStep == ASSUME NEW p \in Procs, IInv, Crash(p) PROVE IInv'
<1>1. ClaimSane'
  BY ShapeOK, ConstantsOK DEF IInv, Shape, ClaimSane, JobKnown, Crash,
     claimVars, store, ops, provider, local, ClaimRow, NoClaim, Working,
     SettleLabels, Procs, Requests, Settlers, Reasons
<1>2. pc' \in [Procs -> Labels] /\ reply' \in [Requests -> Replies]
  BY GotoTyped, ConstantsOK DEF IInv, TypeOK, Crash, Labels, Replies, Procs,
     Requests, Settlers
<1>3. TypeOK'
  BY <1>1, <1>2, ClaimTyped, ConstantsOK DEF IInv, TypeOK, ClaimsTypeOK,
     JobKnown, Working, SettleLabels, Crash, claimVars, store, ops, provider,
     local, Procs, Requests, Settlers, LiveStates, OpStates, PatchStates
<1>4. /\ JobKnown' /\ MoversNeverIdle' /\ NotYetInserted' /\ NotYetOwner'
      /\ ReleasesFailed' /\ CancelOwned'
  BY ShapeOK, ConstantsOK DEF IInv, Shape, ClaimSane, JobKnown,
     MoversNeverIdle, NotYetInserted, NotYetOwner, ReleasesFailed,
     CancelOwned, Unrecorded, Crash, claimVars, store, ops, provider, local,
     Goto, Owns, ClaimRow, NoClaim, Working, SettleLabels, Procs, Requests,
     Settlers
<1>5. ASSUME Prompt PROVE PromptInv'
  BY <1>5, ShapeOK, ConstantsOK DEF IInv, Shape, ClaimSane, JobKnown,
     MoversNeverIdle, NotYetInserted, NotYetOwner, ReleasesFailed,
     CancelOwned, Unrecorded, PromptInv, StaleOwnerStopped, SweptStopped,
     InsertOwned, LiveOpOwned, Resting, Crash, claimVars, store, ops,
     provider, local, Goto, Owns, ClaimRow, NoClaim, Working, SettleLabels,
     Procs, Requests, Settlers, LiveStates, Live
<1>. QED
  BY <1>1, <1>2, <1>3, <1>4, <1>5 DEF IInv

-----------------------------------------------------------------------------
(* The invariant, and what follows from it *)

LEMMA InitInv == Init => IInv
<1>. SUFFICES ASSUME Init PROVE IInv
  OBVIOUS
<1>1. TypeOK
  <2>0. ClaimsTypeOK(Movers, Requests)
    BY DEF Init, ClaimsTypeOK
  <2>1. crashes \in 0..MaxCrashes /\ edits \in 0..MaxEdits
    <3>1. MaxCrashes \in Nat /\ MaxEdits \in Nat
      BY ConstantsOK
    <3>. QED
      BY <3>1 DEF Init
  <2>2. /\ row \in [start : Times, active : BOOLEAN]
        /\ event \in [start : Times, live : BOOLEAN]
        /\ consumed \subseteq Refs
        /\ heard \in [Refs -> Times \cup {Nil}]
    BY ConstantsOK DEF Init
  <2>3. /\ opState \in [Movers -> OpStates]
        /\ opOld \in [Movers -> BOOLEAN]
        /\ readers \in [Movers -> SUBSET Workers]
        /\ patch \in [Movers -> PatchStates]
        /\ want \in [Movers -> Times]
    BY ConstantsOK DEF Init, OpStates, PatchStates
  <2>4. seen \in [Movers -> [start : Times, active : BOOLEAN, retry : BOOLEAN]]
    BY ConstantsOK DEF Init
  <2>5. /\ pc \in [Procs -> Labels]
        /\ reply \in [Requests -> Replies]
        /\ job \in [Procs -> Movers \cup {Nil}]
        /\ aged \in [Procs -> BOOLEAN]
    BY DEF Init, Labels, Replies
  <2>. QED
    BY <2>0, <2>1, <2>2, <2>3, <2>4, <2>5 DEF TypeOK
<1>2. /\ JobKnown /\ MoversNeverIdle /\ ClaimSane /\ NotYetInserted /\ NotYetOwner
      /\ ReleasesFailed /\ CancelOwned
  BY ConstantsOK
     DEF Init, JobKnown, MoversNeverIdle, ClaimSane, NotYetInserted, NotYetOwner,
         ReleasesFailed, CancelOwned, Unrecorded, Working, SettleLabels, NoClaim,
         Procs, Requests, Settlers
<1>3. PromptInv
  BY ConstantsOK
     DEF Init, PromptInv, StaleOwnerStopped, SweptStopped, InsertOwned,
         LiveOpOwned, Live, LiveStates, NoClaim, Procs, Requests
<1>. QED
  BY <1>1, <1>2, <1>3 DEF IInv

LEMMA StutterInv == IInv /\ UNCHANGED vars => IInv'
<1>. SUFFICES ASSUME IInv, UNCHANGED vars PROVE IInv'
  OBVIOUS
<1>1. TypeOK'
  BY DEF IInv, TypeOK, ClaimsTypeOK, vars, claimVars, store, ops, provider, local
<1>2. /\ JobKnown' /\ MoversNeverIdle' /\ ClaimSane' /\ NotYetInserted' /\ NotYetOwner'
      /\ ReleasesFailed' /\ CancelOwned'
  BY DEF IInv, vars, claimVars, store, ops, provider, local, JobKnown, MoversNeverIdle,
         ClaimSane, NotYetInserted, NotYetOwner, ReleasesFailed, CancelOwned, Unrecorded,
         Working, Owns
<1>3. ASSUME Prompt PROVE PromptInv'
  BY <1>3
     DEF IInv, vars, claimVars, store, ops, provider, local, PromptInv, StaleOwnerStopped,
         SweptStopped, InsertOwned, LiveOpOwned, Live, Owns
<1>. QED
  BY <1>1, <1>2, <1>3 DEF IInv

LEMMA NextInv == IInv /\ [Next]_vars => IInv'
<1>. SUFFICES ASSUME IInv, [Next]_vars PROVE IInv'
  OBVIOUS
<1>1. ASSUME NEW m \in Movers, Move(m) PROVE IInv'
  BY <1>1, BeginMoveStep, CheckMoveStep, OwnStep, OwnRaisesStep, RereadStep, InsertOpStep,
     SendPatchStep, TokenExpiredStep, PatchAnsweredStep, RecordMovedStep,
     RecordRefusedStep, RecordUnknownStep, ConsumeRefStep
     DEF Move
<1>2. ASSUME NEW p \in Settlers, Settle(p) PROVE IInv'
  BY <1>2, ReadEventStep, ReadFailsStep, SettleMovedStep, SettleNotMovedStep,
     ReleaseFailedStep, VerifyStep, FinishStep, FinishRaisesStep, ConfirmStep
     DEF Settle
<1>3. ASSUME NEW w \in Workers, Recover(w) PROVE IInv'
  BY <1>3, ListStaleStep, LeaseStep, ListOrphansStep, LookForOpStep, SweepOrphanStep,
     ReconcileCancelStep
     DEF Recover
<1>4. ASSUME NEW c \in Cancellers, Cancel(c) PROVE IInv'
  BY <1>4, BeginCancelStep, OwnCancelStep, OwnCancelRaisesStep, RereadCancelStep,
     ClaimRefStep, ClaimRefRaisesStep, DeleteEventStep,
     DeleteRaisesStep, UndoCancelStep, WriteCancelledStep, ReleaseCancelStep,
     WriteRaisesStep
     DEF Cancel
<1>5. CASE Environment
  BY <1>5, ListAppointmentStep, ApplyPatchStep, RefusePatchStep, AgeOpStep,
     MerchantEditsStep, AgeClaimStep, CrashStep
     DEF Environment
<1>6. CASE UNCHANGED vars
  BY <1>6, StutterInv
<1>. QED
  BY <1>1, <1>2, <1>3, <1>4, <1>5, <1>6 DEF Next, Settlers

THEOREM Invariance == Spec => []IInv
  BY InitInv, NextInv, PTL DEF Spec

\* Every variable keeps its type (CalendarMove's TypeOK), however many requests,
\* workers, references and times there are, and whether or not requests stall.
THEOREM TypeCorrect == Spec => []TypeOK
<1>1. IInv => TypeOK
  BY DEF IInv
<1>. QED
  BY <1>1, Invariance, PTL

\* While no request outlasts a cut-off, every live move owns its appointment: the
\* orphan sweep never deletes the claim of an operation still on its way to the
\* table, and nothing else deletes a live operation's claim.
THEOREM LiveMovesOwn == Prompt => (Spec => []LiveOpOwned)
<1>. SUFFICES ASSUME Prompt PROVE Spec => []LiveOpOwned
  OBVIOUS
<1>1. IInv => LiveOpOwned
  BY DEF IInv, PromptInv
<1>. QED
  BY <1>1, Invariance, PTL

\* The appointment row is written only while a claim of the right type exists,
\* even when a worker pauses for longer than every cut-off: a move's write is the
\* transaction of calendar_move_finish, and a cancel's claim is never taken away.
THEOREM OwnersWrite == Spec => RowWrittenByOwner
<1> DEFINE Owned == /\ (row'.start # row.start => claim.type = "reschedule")
                    /\ (row'.active # row.active => claim.type = "cancel")
<1>1. IInv /\ [Next]_vars => [Owned]_vars
  <2>. SUFFICES ASSUME IInv, Next PROVE Owned
    OBVIOUS
  <2>1. ASSUME NEW m \in Movers, Move(m) PROVE row' = row
    BY <2>1 DEF Move, BeginMove, CheckMove, Own, OwnRaises, Reread, InsertOp, SendPatch,
                TokenExpired, PatchAnswered, RecordMoved, RecordRefused, RecordUnknown,
                ConsumeRef, store
  <2>2. ASSUME NEW p \in Settlers, Finish(p) \/ FinishRaises(p) PROVE Owned
    BY <2>2 DEF IInv, TypeOK, Finish, FinishRaises, Commit, OwnsFinish, Owns
  <2>3. ASSUME NEW p \in Settlers, Settle(p), ~Finish(p), ~FinishRaises(p) PROVE row' = row
    BY <2>3 DEF Settle, ReadEvent, ReadFails, SettleMoved, SettleNotMoved, ReleaseFailed,
                Verify, Confirm, store
  <2>4. ASSUME NEW w \in Workers, Recover(w) PROVE row' = row
    BY <2>4 DEF Recover, ListStale, Lease, ListOrphans, LookForOp, SweepOrphan,
           ReconcileCancel, store
  <2>5. ASSUME NEW c \in Cancellers, WriteCancelled(c) \/ WriteRaises(c) PROVE Owned
    BY <2>5 DEF IInv, TypeOK, CancelOwned, WriteCancelled, WriteRaises, At, Owns
  <2>6. ASSUME NEW c \in Cancellers, Cancel(c), ~WriteCancelled(c), ~WriteRaises(c)
       PROVE  row' = row
    BY <2>6 DEF Cancel, BeginCancel, OwnCancel, OwnCancelRaises, RereadCancel, ClaimRef,
                ClaimRefRaises, DeleteEvent,
                DeleteRaises, UndoCancel, ReleaseCancel, store
  <2>7. CASE Environment
    BY <2>7 DEF Environment, ListAppointment, ApplyPatch, RefusePatch, AgeOp,
                MerchantEdits, AgeClaim, Crash, store
  <2>. QED
    BY <2>1, <2>2, <2>3, <2>4, <2>5, <2>6, <2>7 DEF Next, Settlers
<1>. QED
  BY <1>1, Invariance, PTL DEF Spec, RowWrittenByOwner

\* A completed or failed operation is never changed again, however many workers,
\* retried calls and stalled requests still hold it: every UPDATE of the table
\* names the states it may leave.
THEOREM OutcomesAreFinal == Spec => OutcomeIsFinal
<1> DEFINE Final == \A m \in Movers : opState[m] \in {"completed", "failed"} => opState'[m] = opState[m]
<1>1. IInv /\ [Next]_vars => [Final]_vars
  <2>. SUFFICES ASSUME IInv, Next PROVE Final
    OBVIOUS
  <2>0. opState \in [Movers -> OpStates] /\ \A m \in Movers : Unrecorded(m) => opState[m] = "none"
    BY DEF IInv, TypeOK, NotYetInserted
  <2>1. ASSUME NEW m \in Movers, Move(m) PROVE Final
    <3>1. CASE InsertOp(m)
      BY <2>0, <3>1 DEF InsertOp, At, Unrecorded, Transition, ops
    <3>2. CASE RecordMoved(m) \/ RecordRefused(m) \/ RecordUnknown(m)
      BY <2>0, <3>2 DEF RecordMoved, RecordRefused, RecordUnknown, Transition, ops
    <3>3. CASE ~InsertOp(m) /\ ~RecordMoved(m) /\ ~RecordRefused(m) /\ ~RecordUnknown(m)
      BY <2>1, <3>3 DEF Move, BeginMove, CheckMove, Own, OwnRaises, Reread, SendPatch,
                        TokenExpired, PatchAnswered, ConsumeRef, ops
    <3>. QED
      BY <3>1, <3>2, <3>3
  <2>2. ASSUME NEW p \in Settlers, Settle(p) PROVE Final
    BY <2>0, <2>2 DEF Settle, ReadEvent, ReadFails, SettleMoved, SettleNotMoved,
                      ReleaseFailed, Verify, Finish, FinishRaises, Commit, OwnsFinish,
                      Confirm, Transition, ops
  <2>3. ASSUME NEW w \in Workers, Recover(w) PROVE Final
    BY <2>0, <2>3 DEF Recover, ListStale, Lease, ListOrphans, LookForOp, SweepOrphan, ReconcileCancel,
                      Transition, Live, LiveStates, ops
  <2>4. ASSUME NEW c \in Cancellers, Cancel(c) PROVE Final
    BY <2>4 DEF Cancel, BeginCancel, OwnCancel, OwnCancelRaises, RereadCancel, ClaimRef,
                ClaimRefRaises, DeleteEvent,
                DeleteRaises, UndoCancel, WriteCancelled, ReleaseCancel, WriteRaises, ops
  <2>5. CASE Environment
    BY <2>5 DEF Environment, ListAppointment, ApplyPatch, RefusePatch, AgeOp,
                MerchantEdits, AgeClaim, Crash, ops
  <2>. QED
    BY <2>1, <2>2, <2>3, <2>4, <2>5 DEF Next, Settlers
<1>. QED
  BY <1>1, Invariance, PTL DEF Spec, OutcomeIsFinal

-----------------------------------------------------------------------------
(* The second layer: where the event is, while a move is under way           *)

PatchLabels == {"patch", "sent", "moved", "refused"}

\* m's request is over and its PATCH with it.
Stopped(m) == pc[m] \in {"done", "crashed"} /\ patch[m] # "inflight"

\* p is in charge of settling the operation job[p].
InCharge(p) == pc[p] \in SettleLabels \cup {"lease"}

\* A move starts from the time the caller heard, and goes elsewhere.
HeardTime ==
    \A m \in Movers :
        pc[m] \in {"own", "reread", "insert"} \/ opState[m] # "none"
            => heard[RefOf[m]] = seen[m].start /\ seen[m].start # want[m]

\* A PATCH is sent, and a settlement begun, only for an operation in the table.
SentRecorded ==
    /\ \A m \in Movers : patch[m] # "unsent" \/ pc[m] \in PatchLabels \cup {"timeout"}
                           => opState[m] # "none"
    /\ \A p \in Settlers : InCharge(p) => opState[job[p]] # "none"

\* An answer ends its request, and what it says of the operation is so.
AnsweredSo ==
    \A m \in Movers :
        /\ reply[m] # "none" => pc[m] = "done"
        /\ reply[m] = "completed" \/ pc[m] = "consume" => opState[m] = "completed"
        /\ pc[m] = "confirm" => opState[job[m]] = "completed"
        /\ reply[m] \in {"busy", "changed", "not_free", "temporary"} \/ pc[m] = "patch"
              => patch[m] = "unsent"
        /\ pc[m] = "moved" => patch[m] = "applied"
        /\ pc[m] = "refused" => patch[m] \notin {"inflight", "applied"}

\* Under Prompt nobody else settles an operation whose request still waits for the
\* provider's answer.
LeftAlone ==
    \A m \in Movers : pc[m] \in PatchLabels =>
        /\ opState[m] = "in_progress" /\ ~opOld[m]
        /\ \A p \in Settlers : InCharge(p) => job[p] # m

RefusedFailed ==
    \A m \in Movers : reply[m] = "failed" => job[m] \in Movers /\ opState[job[m]] = "failed"

\* What has passed a cut-off is over, and so is what recovery takes up.
OldStopped ==
    /\ \A m \in Movers : opOld[m] => Stopped(m)
    /\ \A w \in Workers : InCharge(w) => Stopped(job[w])
    /\ \A m \in Movers : pc[m] \in {"settle", "sawTo", "sawFrom"} /\ aged[m] => Stopped(job[m])

\* The row keeps the time the move started from until the move is written.
RowKept == \A m \in Movers : pc[m] = "insert" \/ Live(m) => row.active /\ row.start = seen[m].start

\* Where the event is, while nobody edits it by hand: where the PATCH put it, or
\* where it was.
Placed ==
    edits = 0 =>
        /\ \A m \in Movers : patch[m] = "inflight" => Live(m)
        /\ \A m \in Movers : Live(m) /\ patch[m] = "applied" => event.live /\ event.start = want[m]
        /\ \A m \in Movers : Live(m) /\ patch[m] # "applied" /\ event.live => event.start = seen[m].start
        /\ \A m \in Movers : opState[m] = "provider_moved" => patch[m] = "applied"
        /\ (\A m \in Movers : ~Live(m)) /\ row.active /\ event.live => row.start = event.start

\* What p read of the event still tells whether the PATCH arrived.
Reads(p, label, job_, aged_) ==
    /\ label = "sawTo" /\ Live(job_) => patch[job_] = "applied"
    /\ label = "sawFrom" /\ Live(job_) /\ (p \in Workers \/ aged_ \/ opOld[job_]) => patch[job_] # "applied"

SeenSo == edits = 0 => \A p \in Settlers : Reads(p, pc[p], job[p], aged[p])

Course == LeftAlone /\ RefusedFailed /\ OldStopped /\ RowKept /\ Placed /\ SeenSo

Layer2 == HeardTime /\ SentRecorded /\ AnsweredSo /\ (Prompt => Course)

IInv2 == IInv /\ Layer2

\* The types the proofs lean on, and who is who.
Shape2 ==
    /\ row \in [start : Times, active : BOOLEAN]
    /\ event \in [start : Times, live : BOOLEAN]
    /\ pc \in [Procs -> Labels] /\ reply \in [Requests -> Replies]
    /\ job \in [Procs -> Movers \cup {Nil}] /\ aged \in [Procs -> BOOLEAN]
    /\ opState \in [Movers -> OpStates] /\ opOld \in [Movers -> BOOLEAN]
    /\ patch \in [Movers -> PatchStates] /\ want \in [Movers -> Times]
    /\ heard \in [Refs -> Times \cup {Nil}]
    /\ seen \in [Movers -> [start : Times, active : BOOLEAN, retry : BOOLEAN]]
    /\ edits \in Nat
    /\ \A p \in Settlers : InCharge(p) \/ pc[p] = "confirm" => job[p] \in Movers

LEMMA Shapes2 == IInv2 => Shape2
  BY ConstantsOK
     DEF IInv2, IInv, TypeOK, JobKnown, Shape2, InCharge, Working

LEMMA Known ==
    /\ Settlers \subseteq Procs /\ Movers \subseteq Requests /\ Requests \subseteq Procs
    /\ Cancellers \subseteq Requests /\ Cancellers \cap Settlers = {} /\ Movers \cap Workers = {}
    /\ Nil \notin Movers /\ RefOf \in [Requests -> Refs]
  BY ConstantsOK DEF Settlers, Procs, Requests

-----------------------------------------------------------------------------
(* Frames: what the steps of a kind have in common                           *)

\* The tables the second layer speaks of, and the provider.
World == <<row, heard, opState, opOld, event, patch, edits>>

\* A step of somebody who settles nothing.
LEMMA AsideKeeps ==
    ASSUME IInv2, UNCHANGED World, UNCHANGED local,
           \A q \in Settlers : pc'[q] = pc[q], \A m \in Movers : reply'[m] = reply[m]
    PROVE  Layer2'
<1>1. \A m \in Movers : Stopped(m)' = Stopped(m) /\ Live(m)' = Live(m)
  BY DEF Settlers, Stopped, Live, World
<1>2. \A p \in Settlers : InCharge(p)' = InCharge(p)
  BY DEF InCharge
<1>3. HeardTime' /\ SentRecorded' /\ AnsweredSo'
  BY <1>2 DEF IInv2, Layer2, HeardTime, SentRecorded, AnsweredSo, World, local, Settlers
<1>4. ASSUME Prompt PROVE Course'
  <2>1. LeftAlone' /\ RefusedFailed' /\ RowKept'
    BY <1>1, <1>2, <1>4
       DEF IInv2, Layer2, Course, LeftAlone, RefusedFailed, RowKept, World, local, Settlers
  <2>2. OldStopped'
    <3>1. \A w \in Workers : InCharge(w) => job[w] \in Movers
      BY Shapes2 DEF Shape2, Settlers
    <3>2. \A m \in Movers : pc[m] \in {"settle", "sawTo", "sawFrom"} => job[m] \in Movers
      BY Shapes2 DEF Shape2, InCharge, SettleLabels, Settlers
    <3>. QED
      BY <1>1, <1>2, <1>4, <3>1, <3>2
         DEF IInv2, Layer2, Course, OldStopped, World, local, Settlers
  <2>3. Placed' /\ SeenSo'
    BY <1>1, <1>4, Shapes2
       DEF IInv2, Layer2, Course, Placed, SeenSo, Reads, Live, Shape2, World, local, InCharge
  <2>. QED
    BY <2>1, <2>2, <2>3 DEF Course
<1>. QED
  BY <1>3, <1>4 DEF Layer2

\* What p may answer, of the operation it worked on.
Answers(p, what, job_) ==
    /\ what = "completed" => opState[p] = "completed"
    /\ Prompt /\ what = "failed" => job_ \in Movers /\ opState[job_] = "failed"
    /\ what \in {"busy", "changed", "not_free", "temporary"} => patch[p] = "unsent"

\* Where p may go on from where it is, with the operation it works on and its age.
Walks(p, label, job_, aged_) ==
    /\ label \notin {"patch", "sent", "confirm"}
    /\ p \in Movers /\ label \in {"own", "reread", "insert"}
          => heard[RefOf[p]] = seen[p].start /\ seen[p].start # want[p]
    /\ p \in Movers /\ label = "timeout" => opState[p] # "none"
    /\ label = "moved" => pc[p] = "sent" /\ patch[p] = "applied"
    /\ label = "refused" => pc[p] \in {"patch", "sent"} /\ patch[p] \notin {"inflight", "applied"}
    /\ p \in Movers /\ label = "consume" => opState[p] = "completed"
    /\ label \in SettleLabels \cup {"lease"}
          => \/ InCharge(p) /\ job_ = job[p]
             \/ p \in Movers /\ job_ = p /\ opState[p] # "none" /\ label \in {"settle", "verify", "release"}
    /\ label \in {"settle", "sawTo", "sawFrom"}
          => \/ (pc[p] = "settle" \/ p \in Workers) /\ job_ = job[p] /\ aged_ = aged[p]
             \/ label = "settle" /\ ~aged_
    /\ Prompt /\ label = "insert" => row.active /\ row.start = seen[p].start
    /\ Prompt /\ edits = 0 => Reads(p, label, job_, aged_)

\* A step of a settler that writes no time: it walks on, and may move an operation
\* from one live state to another.
LEMMA SettlerKeeps ==
    ASSUME IInv2, NEW p \in Settlers, NEW l \in Labels, pc[p] \notin {"done", "crashed"},
           UNCHANGED <<row, heard, event, patch, edits, seen, want>>, pc' = [pc EXCEPT ![p] = l],
           \A q \in Settlers \ {p} : job'[q] = job[q] /\ aged'[q] = aged[q],
           \A m \in Movers \ {p} : reply'[m] = reply[m],
           p \in Movers => reply'[p] = reply[p] \/ (l = "done" /\ Answers(p, reply'[p], job'[p])),
           \A m \in Movers : opOld'[m] => opOld[m],
           \A m \in Movers :
               \/ opState'[m] = opState[m]
               \/ /\ Live(m) /\ opState'[m] \in LiveStates
                  /\ Prompt => pc'[m] \notin PatchLabels
                  /\ Prompt /\ edits = 0 /\ opState'[m] = "provider_moved" => patch[m] = "applied",
           Walks(p, l, job'[p], aged'[p])
    PROVE  Layer2'
<1>1. \A q \in Settlers \ {p} : pc'[q] = pc[q] /\ InCharge(q)' = InCharge(q)
  BY Shapes2, Known DEF Shape2, InCharge
<1>2. pc'[p] = l /\ p \in Procs /\ (InCharge(p)' <=> l \in SettleLabels \cup {"lease"})
  BY Shapes2, Known DEF Shape2, InCharge
<1>3. \A m \in Movers : (Live(m)' <=> Live(m)) /\ (opState'[m] = "none" <=> opState[m] = "none")
  BY DEF Live, LiveStates
<1>4. \A m \in Movers : opState[m] \in {"completed", "failed"} => opState'[m] = opState[m]
  BY DEF Live, LiveStates
<1>5. \A m \in Movers : Stopped(m) => Stopped(m)'
  BY <1>1, <1>2 DEF Stopped, Settlers
<1>6. HeardTime'
  BY <1>1, <1>2, <1>3 DEF IInv2, Layer2, HeardTime, Walks, Settlers
<1>7. SentRecorded'
  <2>1. \A m \in Movers : patch[m] # "unsent" \/ pc[m] \in PatchLabels \cup {"timeout"}
                            => opState[m] # "none"
    BY DEF IInv2, Layer2, SentRecorded
  <2>2. \A m \in Movers : pc'[m] \in PatchLabels \cup {"timeout"}
                            => pc[m] \in PatchLabels \cup {"timeout"} \/ opState[m] # "none"
    BY <1>1, <1>2 DEF Walks, PatchLabels, Settlers
  <2>3. \A q \in Settlers : InCharge(q)' => job'[q] \in Movers /\ opState[job'[q]] # "none"
    BY <1>1, <1>2, Shapes2 DEF IInv2, Layer2, SentRecorded, Walks, Shape2
  <2>. QED
    BY <1>3, <2>1, <2>2, <2>3 DEF SentRecorded
<1>8. AnsweredSo'
  <2> SUFFICES ASSUME NEW m \in Movers
               PROVE  /\ reply'[m] # "none" => pc'[m] = "done"
                      /\ reply'[m] = "completed" \/ pc'[m] = "consume" => opState'[m] = "completed"
                      /\ pc'[m] = "confirm" => opState'[job'[m]] = "completed"
                      /\ reply'[m] \in {"busy", "changed", "not_free", "temporary"} \/ pc'[m] = "patch"
                            => patch[m] = "unsent"
                      /\ pc'[m] = "moved" => patch[m] = "applied"
                      /\ pc'[m] = "refused" => patch[m] \notin {"inflight", "applied"}
    BY DEF AnsweredSo
  <2>1. CASE m # p
    <3>1. pc[m] = "confirm" => job[m] \in Movers
      BY Shapes2 DEF Shape2, Settlers
    <3>. QED
      BY <1>1, <1>4, <2>1, <3>1 DEF IInv2, Layer2, AnsweredSo, Settlers
  <2>2. CASE m = p
    <3>1. reply[p] = "none"
      BY <2>2 DEF IInv2, Layer2, AnsweredSo
    <3>. QED
      BY <1>2, <1>4, <2>2, <3>1 DEF Walks, Answers
  <2>. QED
    BY <2>1, <2>2
<1>9. ASSUME Prompt PROVE Course'
  <2>1. LeftAlone'
    <3> SUFFICES ASSUME NEW m \in Movers, pc'[m] \in PatchLabels
                 PROVE  /\ opState'[m] = "in_progress" /\ ~opOld'[m]
                        /\ \A q \in Settlers : InCharge(q)' => job'[q] # m
      BY DEF LeftAlone
    <3>1. pc[m] \in PatchLabels
      BY <1>1, <1>2 DEF Walks, PatchLabels, Settlers
    <3>2. opState[m] = "in_progress" /\ ~opOld[m] /\ \A q \in Settlers : InCharge(q) => job[q] # m
      BY <1>9, <3>1 DEF IInv2, Layer2, Course, LeftAlone
    <3>3. ASSUME InCharge(p)' PROVE job'[p] # m
      BY <1>2, <3>2, <3>3 DEF Walks, PatchLabels, SettleLabels
    <3>. QED
      BY <1>1, <1>9, <3>2, <3>3
  <2>2. RefusedFailed'
    <3> SUFFICES ASSUME NEW m \in Movers, reply'[m] = "failed"
                 PROVE  job'[m] \in Movers /\ opState'[job'[m]] = "failed"
      BY DEF RefusedFailed
    <3>1. CASE reply[m] = "failed"
      <4>1. pc[m] = "done" /\ job[m] \in Movers /\ opState[job[m]] = "failed"
        BY <1>9, <3>1 DEF IInv2, Layer2, Course, RefusedFailed, AnsweredSo
      <4>. QED
        BY <1>4, <4>1 DEF Settlers
    <3>2. CASE reply[m] # "failed"
      BY <1>4, <1>9, <3>2 DEF Answers
    <3>. QED
      BY <3>1, <3>2
  <2>3. OldStopped'
    <3>1. ASSUME NEW m \in Movers, opOld'[m] PROVE Stopped(m)'
      BY <1>5, <1>9, <3>1 DEF IInv2, Layer2, Course, OldStopped
    <3>2. ASSUME NEW w \in Workers, InCharge(w)' PROVE Stopped(job[w])'
      <4>1. InCharge(w) /\ job'[w] = job[w]
        BY <1>1, <1>2, <3>2, Known DEF Walks, Settlers
      <4>2. job[w] \in Movers /\ Stopped(job[w])
        BY <1>9, <4>1, Shapes2 DEF IInv2, Layer2, Course, OldStopped, Shape2, Settlers
      <4>3. Stopped(job[w])' <=> (pc'[job[w]] \in {"done", "crashed"} /\ patch'[job[w]] # "inflight")
        BY <4>1 DEF Stopped
      <4>. QED
        BY <1>5, <4>1, <4>2, <4>3 DEF Stopped
    <3>3. ASSUME NEW m \in Movers, pc'[m] \in {"settle", "sawTo", "sawFrom"}, aged'[m]
          PROVE  Stopped(job[m])'
      <4>1. InCharge(m) /\ pc[m] \in {"settle", "sawTo", "sawFrom"} /\ aged[m] /\ job'[m] = job[m]
        BY <1>1, <1>2, <3>3, Known DEF Walks, Settlers, InCharge, SettleLabels
      <4>2. job[m] \in Movers /\ Stopped(job[m])
        BY <1>9, <4>1, Shapes2 DEF IInv2, Layer2, Course, OldStopped, Shape2, Settlers
      <4>. QED
        BY <1>5, <4>1, <4>2 DEF Stopped
    <3>. QED
      BY <3>1, <3>2, <3>3 DEF OldStopped
  <2>4. RowKept'
    BY <1>1, <1>2, <1>3, <1>9 DEF IInv2, Layer2, Course, RowKept, Walks, Settlers
  <2>5. Placed'
    BY <1>3, <1>9 DEF IInv2, Layer2, Course, Placed
  <2>6. SeenSo'
    <3> SUFFICES ASSUME edits = 0, NEW q \in Settlers, pc'[q] \in {"sawTo", "sawFrom"}
                 PROVE  Reads(q, pc[q], job[q], aged[q])'
      BY DEF SeenSo, Reads
    <3>1. job'[q] \in Movers
      BY <1>1, <1>2, Shapes2 DEF Walks, Shape2, InCharge, SettleLabels
    <3>2. Reads(q, pc'[q], job'[q], aged'[q])
      BY <1>1, <1>2, <1>9 DEF IInv2, Layer2, Course, SeenSo, Walks
    <3>. QED
      BY <1>3, <3>1, <3>2 DEF Reads
  <2>. QED
    BY <2>1, <2>2, <2>3, <2>4, <2>5, <2>6 DEF Course
<1>. QED
  BY <1>6, <1>7, <1>8, <1>9 DEF Layer2

\* The same, for a step that only goes on or answers.
LEMMA GotoKeeps ==
    ASSUME IInv2, NEW p \in Settlers, NEW l \in Labels, pc[p] \notin {"done", "crashed"},
           UNCHANGED World, UNCHANGED local, Goto(p, l), Walks(p, l, job[p], aged[p])
    PROVE  Layer2'
<1>1. UNCHANGED <<row, heard, event, patch, edits, seen, want>> /\ UNCHANGED <<opState, opOld, job, aged, reply>>
      /\ pc' = [pc EXCEPT ![p] = l]
  BY DEF World, local, Goto
<1>2. Walks(p, l, job'[p], aged'[p])
  BY <1>1
<1>. QED
  BY <1>1, <1>2, SettlerKeeps

LEMMA DoneWalks ==
    ASSUME NEW p, NEW l \in {"done", "crashed", "idle", "check", "look", "sweep"}, NEW job_, NEW aged_
    PROVE  Walks(p, l, job_, aged_)
  BY DEF Walks, Reads, SettleLabels

LEMMA AnswerKeeps ==
    ASSUME IInv2, NEW p \in Movers, NEW what \in Replies, pc[p] \notin {"done", "crashed"},
           UNCHANGED World, UNCHANGED local, Answer(p, what), Answers(p, what, job[p])
    PROVE  Layer2'
<1>1. p \in Settlers /\ "done" \in Labels /\ Walks(p, "done", job[p], aged[p])
  BY DoneWalks DEF Settlers, Labels
<1>2. \A m \in Movers \ {p} : reply'[m] = reply[m]
  BY Shapes2, Known DEF Shape2, Answer
<1>3. reply'[p] = what
  BY Shapes2, Known DEF Shape2, Answer
<1>. QED
  BY <1>1, <1>2, <1>3, SettlerKeeps DEF World, local, Answer

LEMMA GiveUpKeeps ==
    ASSUME IInv2, NEW p \in Settlers, NEW what \in Replies, pc[p] \notin {"done", "crashed"},
           UNCHANGED World, UNCHANGED local, GiveUp(p, what),
           p \in Movers => Answers(p, what, job[p])
    PROVE  Layer2'
<1>1. CASE p \in Workers
  BY <1>1, GotoKeeps, DoneWalks DEF GiveUp, Labels
<1>2. CASE p \notin Workers
  BY <1>2, AnswerKeeps DEF GiveUp, Settlers
<1>. QED
  BY <1>1, <1>2

\* What a request that has no operation yet may answer.
LEMMA NothingSent ==
    ASSUME IInv2, NEW m \in Movers, Unrecorded(m)
    PROVE  opState[m] = "none" /\ patch[m] = "unsent"
  BY DEF IInv2, IInv, Layer2, NotYetInserted, SentRecorded

-----------------------------------------------------------------------------
(* The move up to its PATCH                                                  *)

LEMMA CheckMoveKeeps == ASSUME IInv2, NEW m \in Movers, CheckMove(m) PROVE Layer2'
<1>1. /\ UNCHANGED World /\ UNCHANGED local /\ pc[m] = "check" /\ m \in Settlers
      /\ opState[m] = "none" /\ patch[m] = "unsent"
  BY NothingSent DEF CheckMove, World, local, store, ops, provider, At, Unrecorded, Settlers
<1>2. CASE Goto(m, "own") /\ seen[m].start # want[m] /\ heard[RefOf[m]] = seen[m].start
  <2>1. Walks(m, "own", job[m], aged[m])
    BY <1>2 DEF Walks, Reads, SettleLabels
  <2>. QED
    BY <1>1, <1>2, <2>1, GotoKeeps DEF Labels
<1>3. CASE \E r \in {"already_there", "changed", "not_eligible", "not_free"} : Answer(m, r)
  BY <1>1, <1>3, AnswerKeeps DEF Answers, Replies
<1>. QED
  BY <1>2, <1>3 DEF CheckMove

LEMMA OwnKeeps == ASSUME IInv2, NEW m \in Movers, Own(m) \/ OwnRaises(m) PROVE Layer2'
<1>1. /\ UNCHANGED World /\ UNCHANGED local /\ pc[m] = "own" /\ m \in Settlers
      /\ opState[m] = "none" /\ patch[m] = "unsent"
  BY NothingSent DEF Own, OwnRaises, World, local, store, ops, provider, At, Unrecorded, Settlers
<1>2. CASE Goto(m, "reread")
  <2>1. Walks(m, "reread", job[m], aged[m])
    BY <1>1 DEF Walks, Reads, SettleLabels, IInv2, Layer2, HeardTime
  <2>. QED
    BY <1>1, <1>2, <2>1, GotoKeeps DEF Labels
<1>3. CASE \E r \in {"busy", "temporary"} : Answer(m, r)
  BY <1>1, <1>3, AnswerKeeps DEF Answers, Replies
<1>. QED
  BY <1>2, <1>3 DEF Own, OwnRaises

LEMMA RereadKeeps == ASSUME IInv2, NEW m \in Movers, Reread(m) PROVE Layer2'
<1>1. /\ UNCHANGED World /\ UNCHANGED local /\ pc[m] = "reread" /\ m \in Settlers
      /\ opState[m] = "none" /\ patch[m] = "unsent"
  BY NothingSent DEF Reread, World, local, store, ops, provider, At, Unrecorded, Settlers
<1>2. CASE row.active /\ row.start = seen[m].start /\ Goto(m, "insert")
  <2>1. Walks(m, "insert", job[m], aged[m])
    BY <1>1, <1>2 DEF Walks, Reads, SettleLabels, IInv2, Layer2, HeardTime
  <2>. QED
    BY <1>1, <1>2, <2>1, GotoKeeps DEF Labels
<1>3. CASE Answer(m, "changed")
  BY <1>1, <1>3, AnswerKeeps DEF Answers, Replies
<1>. QED
  BY <1>2, <1>3 DEF Reread

LEMMA PatchAnsweredKeeps ==
    ASSUME IInv2, NEW m \in Movers, TokenExpired(m) \/ PatchAnswered(m) PROVE Layer2'
<1>1. UNCHANGED World /\ UNCHANGED local /\ pc[m] \in {"patch", "sent"} /\ m \in Settlers
  BY DEF TokenExpired, PatchAnswered, World, local, store, ops, provider, At, Settlers
<1>2. pc[m] = "patch" => patch[m] = "unsent"
  BY DEF IInv2, Layer2, AnsweredSo
<1>3. CASE Goto(m, "moved") /\ pc[m] = "sent" /\ patch[m] = "applied"
  BY <1>1, <1>3, GotoKeeps DEF Walks, Reads, SettleLabels, Labels
<1>4. CASE Goto(m, "refused") /\ (pc[m] = "patch" \/ patch[m] = "refused")
  BY <1>1, <1>2, <1>4, GotoKeeps DEF Walks, Reads, SettleLabels, Labels
<1>5. CASE Goto(m, "timeout")
  <2>1. opState[m] # "none"
    BY <1>1 DEF IInv2, Layer2, SentRecorded, PatchLabels
  <2>. QED
    BY <1>1, <1>5, <2>1, GotoKeeps DEF Walks, Reads, SettleLabels, Labels
<1>. QED
  BY <1>3, <1>4, <1>5 DEF TokenExpired, PatchAnswered, At

LEMMA ConsumeRefKeeps == ASSUME IInv2, NEW m \in Movers, ConsumeRef(m) PROVE Layer2'
<1>1. UNCHANGED World /\ UNCHANGED local /\ pc[m] = "consume" /\ Answer(m, "completed")
  BY DEF ConsumeRef, World, local, ops, provider, At
<1>2. Answers(m, "completed", job[m])
  BY <1>1 DEF Answers, IInv2, Layer2, AnsweredSo
<1>. QED
  BY <1>1, <1>2, AnswerKeeps DEF Replies

-----------------------------------------------------------------------------
(* Settling                                                                  *)

\* One who settles has an operation of the table in hand.
LEMMA Settling ==
    ASSUME IInv2, NEW p \in Settlers, InCharge(p) \/ pc[p] = "confirm"
    PROVE  /\ job[p] \in Movers /\ p \in Procs
           /\ InCharge(p) => /\ opState[job[p]] # "none"
                             /\ Prompt => pc[job[p]] \notin PatchLabels
<1>1. job[p] \in Movers /\ p \in Procs
  BY Shapes2, Known DEF Shape2
<1>2. InCharge(p) => opState[job[p]] # "none"
  BY DEF IInv2, Layer2, SentRecorded
<1>3. InCharge(p) /\ Prompt => pc[job[p]] \notin PatchLabels
  BY <1>1 DEF IInv2, Layer2, Course, LeftAlone
<1>. QED
  BY <1>1, <1>2, <1>3

LEMMA ReadEventKeeps == ASSUME IInv2, NEW p \in Settlers, ReadEvent(p) PROVE Layer2'
<1>1. UNCHANGED World /\ UNCHANGED local /\ pc[p] = "settle"
  BY DEF ReadEvent, World, local, store, ops, provider, At
<1>2. job[p] \in Movers /\ InCharge(p) /\ opState[job[p]] # "none"
  BY <1>1, Settling DEF InCharge, SettleLabels
<1>3. seen[job[p]].start # want[job[p]]
  BY <1>2 DEF IInv2, Layer2, HeardTime
<1>4. CASE event.live /\ event.start = want[job[p]] /\ Goto(p, "sawTo")
  <2>1. Prompt /\ edits = 0 => Reads(p, "sawTo", job[p], aged[p])
    BY <1>2, <1>3, <1>4 DEF IInv2, Layer2, Course, Placed, Reads
  <2>. QED
    BY <1>1, <1>2, <1>4, <2>1, GotoKeeps DEF Walks, Labels
<1>5. CASE event.live /\ event.start = seen[job[p]].start /\ Goto(p, "sawFrom")
  <2>1. Prompt /\ edits = 0 => Reads(p, "sawFrom", job[p], aged[p])
    BY <1>2, <1>3, <1>5 DEF IInv2, Layer2, Course, Placed, Reads
  <2>. QED
    BY <1>1, <1>2, <1>5, <2>1, GotoKeeps DEF Walks, Labels
<1>6. CASE GiveUp(p, "unknown")
  BY <1>1, <1>6, GiveUpKeeps DEF Answers, Replies
<1>. QED
  BY <1>4, <1>5, <1>6 DEF ReadEvent

LEMMA ReadFailsKeeps == ASSUME IInv2, NEW p \in Settlers, ReadFails(p) PROVE Layer2'
<1>1. UNCHANGED World /\ UNCHANGED local /\ pc[p] \in {"settle", "verify"} /\ GiveUp(p, "unknown")
  BY DEF ReadFails, World, local, store, ops, provider, At
<1>. QED
  BY <1>1, GiveUpKeeps DEF Answers, Replies

LEMMA ReleaseFailedKeeps == ASSUME IInv2, NEW p \in Settlers, ReleaseFailed(p) PROVE Layer2'
<1>1. UNCHANGED World /\ UNCHANGED local /\ pc[p] = "release" /\ GiveUp(p, "failed")
  BY DEF ReleaseFailed, World, local, store, ops, provider, At
<1>2. job[p] \in Movers /\ opState[job[p]] = "failed"
  BY <1>1, Settling DEF InCharge, SettleLabels, IInv2, IInv, ReleasesFailed
<1>. QED
  BY <1>1, <1>2, GiveUpKeeps DEF Answers, Replies

\* An operation in p's hands moves from one live state to another, and p goes on.
LEMMA AdvanceKeeps ==
    ASSUME IInv2, NEW p \in Settlers, InCharge(p), UNCHANGED local,
           UNCHANGED <<row, heard, event, patch, edits>>,
           Live(job[p]), NEW to \in LiveStates, Transition(job[p], to),
           Prompt /\ edits = 0 /\ to = "provider_moved" => patch[job[p]] = "applied",
           \/ \E l \in Labels : Goto(p, l) /\ Walks(p, l, job[p], aged[p])
           \/ GiveUp(p, "unknown")
    PROVE  Layer2'
<1>1. pc[p] \notin {"done", "crashed"} /\ p \in Procs
  BY Known DEF InCharge, SettleLabels
<1>2. PICK l \in Labels : /\ pc' = [pc EXCEPT ![p] = l] /\ Walks(p, l, job[p], aged[p])
                          /\ \/ reply' = reply
                             \/ p \in Movers /\ l = "done" /\ reply' = [reply EXCEPT ![p] = "unknown"]
  BY DoneWalks DEF Goto, GiveUp, Answer, Labels, Settlers
<1>3. \A m \in Movers : opOld'[m] => opOld[m]
  BY Shapes2 DEF Transition, Shape2
<1>4. \A m \in Movers : \/ opState'[m] = opState[m]
                        \/ m = job[p] /\ opState'[m] = to
  BY Shapes2 DEF Transition, Shape2
<1>5. pc'[job[p]] \notin PatchLabels \/ pc[job[p]] \in PatchLabels
  BY <1>1, <1>2, Shapes2, Known DEF Shape2, Walks, PatchLabels
<1>6. UNCHANGED <<row, heard, event, patch, edits, seen, want>> /\ UNCHANGED <<job, aged>>
  BY DEF local
<1>7. Walks(p, l, job'[p], aged'[p])
  BY <1>2, <1>6
<1>8. \A m \in Movers \ {p} : reply'[m] = reply[m]
  BY <1>2, Shapes2, Known DEF Shape2
<1>9. p \in Movers => reply'[p] = reply[p] \/ (l = "done" /\ Answers(p, reply'[p], job'[p]))
  BY <1>2, Shapes2, Known DEF Shape2, Answers
<1>. QED
  BY <1>1, <1>2, <1>3, <1>4, <1>5, <1>6, <1>7, <1>8, <1>9, SettlerKeeps, Settling

LEMMA SettleMovedKeeps == ASSUME IInv2, NEW p \in Settlers, SettleMoved(p) PROVE Layer2'
<1>1. UNCHANGED <<row, heard, event, patch, edits>> /\ UNCHANGED local /\ pc[p] = "sawTo"
  BY DEF SettleMoved, local, store, provider, At
<1>2. InCharge(p)
  BY <1>1 DEF InCharge, SettleLabels
<1>3. CASE Transition(job[p], "provider_moved") /\ Goto(p, "verify") /\ Live(job[p])
  <2>1. Prompt /\ edits = 0 => patch[job[p]] = "applied"
    BY <1>1, <1>3 DEF IInv2, Layer2, Course, SeenSo, Reads
  <2>2. Walks(p, "verify", job[p], aged[p]) /\ "verify" \in Labels
    BY <1>2 DEF Walks, Reads, Labels
  <2>3. "provider_moved" \in LiveStates
    BY DEF LiveStates
  <2>. QED
    BY <1>1, <1>2, <1>3, <2>1, <2>2, <2>3, AdvanceKeeps
<1>4. CASE GiveUp(p, "unknown") /\ UNCHANGED ops
  BY <1>1, <1>4, GiveUpKeeps DEF Answers, Replies, World, ops
<1>. QED
  BY <1>3, <1>4 DEF SettleMoved, Live, LiveStates

LEMMA VerifyKeeps == ASSUME IInv2, NEW p \in Settlers, Verify(p) PROVE Layer2'
<1>1. UNCHANGED <<row, heard, event, patch, edits>> /\ UNCHANGED local /\ pc[p] = "verify"
  BY DEF Verify, local, store, provider, At
<1>2. InCharge(p)
  BY <1>1 DEF InCharge, SettleLabels
<1>3. CASE Goto(p, "finish") /\ UNCHANGED ops
  <2>1. Walks(p, "finish", job[p], aged[p]) /\ "finish" \in Labels
    BY <1>2 DEF Walks, Reads, Labels
  <2>. QED
    BY <1>1, <1>3, <2>1, GotoKeeps DEF World, ops
<1>4. CASE GiveUp(p, "unknown") /\ UNCHANGED ops
  BY <1>1, <1>4, GiveUpKeeps DEF Answers, Replies, World, ops
<1>5. CASE GiveUp(p, "unknown") /\ opState[job[p]] = "provider_moved" /\ Transition(job[p], "provider_moved")
  <2>1. Prompt /\ edits = 0 => patch[job[p]] = "applied"
    BY <1>2, <1>5, Settling DEF IInv2, Layer2, Course, Placed
  <2>2. "provider_moved" \in LiveStates /\ Live(job[p])
    BY <1>5 DEF LiveStates, Live
  <2>. QED
    BY <1>1, <1>2, <1>5, <2>1, <2>2, AdvanceKeeps
<1>. QED
  BY <1>3, <1>4, <1>5 DEF Verify

LEMMA LeaseKeeps == ASSUME IInv2, NEW w \in Workers, Lease(w) PROVE Layer2'
<1>1. UNCHANGED <<row, heard, event, patch, edits>> /\ UNCHANGED local /\ pc[w] = "lease" /\ w \in Settlers
  BY DEF Lease, local, store, provider, At, Settlers
<1>2. InCharge(w) /\ job[w] \in Movers
  BY <1>1, Settling DEF InCharge
<1>3. CASE /\ Live(job[w]) /\ Transition(job[w], opState[job[w]])
           /\ \E l \in {"settle", "verify"} : Goto(w, l)
  <2>1. PICK l \in {"settle", "verify"} : Goto(w, l)
    BY <1>3
  <2>2. Walks(w, l, job[w], aged[w]) /\ l \in Labels
    BY <1>1, <1>2, <2>1 DEF Walks, Reads, Labels
  <2>3. PICK to \in LiveStates : to = opState[job[w]]
    BY <1>3 DEF Live
  <2>4. Prompt /\ edits = 0 /\ to = "provider_moved" => patch[job[w]] = "applied"
    BY <1>2, <2>3 DEF IInv2, Layer2, Course, Placed
  <2>. QED
    BY <1>1, <1>2, <1>3, <2>1, <2>2, <2>3, <2>4, AdvanceKeeps
<1>4. CASE Goto(w, "idle") /\ UNCHANGED ops
  BY <1>1, <1>4, GotoKeeps, DoneWalks DEF World, ops, Labels
<1>. QED
  BY <1>3, <1>4 DEF Lease

\* An operation is failed: it is in p's hands, and its PATCH neither arrived nor can
\* arrive any more.
LEMMA FailKeeps ==
    ASSUME IInv2, NEW p \in Settlers, NEW j \in Movers,
           (pc[p] = "sawFrom" /\ j = job[p]) \/ (p \in Movers /\ pc[p] = "refused"),
           UNCHANGED <<row, heard, event, patch, edits, seen, want>>, Live(j), Transition(j, "failed"),
           Goto(p, "release"), job' = [job EXCEPT ![p] = j], UNCHANGED aged,
           Prompt => pc'[j] \notin PatchLabels,
           Prompt /\ edits = 0 => patch[j] \notin {"inflight", "applied"}
    PROVE  Layer2'
<1>1. \A q \in Settlers \ {p} : /\ pc'[q] = pc[q] /\ job'[q] = job[q] /\ aged'[q] = aged[q]
                                /\ (InCharge(q)' <=> InCharge(q))
  BY Shapes2, Known DEF Shape2, InCharge, Goto
<1>2. pc'[p] = "release" /\ job'[p] = j /\ p \in Procs /\ UNCHANGED reply
  BY Shapes2, Known DEF Shape2, Goto
<1>3. opState'[j] = "failed" /\ \A m \in Movers \ {j} : opState'[m] = opState[m] /\ (Live(m)' <=> Live(m))
  BY Shapes2 DEF Shape2, Transition, Live
<1>4. ~Live(j)' /\ opState[j] \notin {"none", "completed", "failed"}
  BY <1>3 DEF Live, LiveStates
<1>5. \A m \in Movers : opOld'[m] => opOld[m]
  BY Shapes2 DEF Shape2, Transition
<1>6. \A m \in Movers : Stopped(m) => Stopped(m)'
  BY <1>1, <1>2 DEF Stopped, Settlers
<1>7. \A m \in Movers : m # p => /\ pc[m] = "confirm" => job[m] \in Movers
                                 /\ pc'[m] = pc[m] /\ job'[m] = job[m]
  BY <1>1, Shapes2 DEF Shape2, Settlers
<1>8. HeardTime'
  BY <1>2, <1>3, <1>4, <1>7 DEF IInv2, Layer2, HeardTime
<1>9. SentRecorded'
  <2>1. \A m \in Movers : opState[m] # "none" => opState'[m] # "none"
    BY <1>3
  <2>2. \A q \in Settlers : InCharge(q)' => job'[q] \in Movers /\ opState[job'[q]] # "none"
    BY <1>1, <1>2, <1>4, Shapes2 DEF IInv2, Layer2, SentRecorded, Shape2
  <2>. QED
    BY <1>2, <1>7, <2>1, <2>2 DEF IInv2, Layer2, SentRecorded, PatchLabels
<1>10. AnsweredSo'
  BY <1>2, <1>3, <1>4, <1>7 DEF IInv2, Layer2, AnsweredSo
<1>11. ASSUME Prompt PROVE Course'
  <2>1. LeftAlone'
    BY <1>1, <1>2, <1>3, <1>5, <1>7, <1>11 DEF IInv2, Layer2, Course, LeftAlone, PatchLabels
  <2>2. RefusedFailed'
    BY <1>2, <1>3, <1>4, <1>7, <1>11 DEF IInv2, Layer2, Course, RefusedFailed, AnsweredSo
  <2>3. OldStopped'
    <3>1. ASSUME NEW w \in Workers, InCharge(w)' PROVE Stopped(job[w])'
      <4>1. InCharge(w) /\ job'[w] = job[w]
        BY <1>1, <1>2, <3>1, Known DEF InCharge, SettleLabels, Settlers
      <4>2. job[w] \in Movers /\ Stopped(job[w])
        BY <1>11, <4>1, Shapes2 DEF IInv2, Layer2, Course, OldStopped, Shape2, Settlers
      <4>. QED
        BY <1>6, <4>1, <4>2 DEF Stopped
    <3>2. ASSUME NEW m \in Movers, pc'[m] \in {"settle", "sawTo", "sawFrom"}, aged'[m]
          PROVE  Stopped(job[m])'
      <4>1. InCharge(m) /\ pc[m] \in {"settle", "sawTo", "sawFrom"} /\ aged[m] /\ job'[m] = job[m]
        BY <1>2, <1>7, <3>2 DEF InCharge, SettleLabels
      <4>2. job[m] \in Movers /\ Stopped(job[m])
        BY <1>11, <4>1, Shapes2 DEF IInv2, Layer2, Course, OldStopped, Shape2, Settlers
      <4>. QED
        BY <1>6, <4>1, <4>2 DEF Stopped
    <3>. QED
      BY <1>5, <1>6, <1>11, <3>1, <3>2 DEF IInv2, Layer2, Course, OldStopped
  <2>4. RowKept'
    BY <1>2, <1>3, <1>4, <1>7, <1>11 DEF IInv2, Layer2, Course, RowKept
  <2>5. Placed'
    <3>1. \A m \in Movers : Live(m) => m = j
      BY <1>11 DEF IInv2, IInv, PromptInv, LiveOpOwned, Owns
    <3>2. row.start = seen[j].start
      BY <1>11 DEF IInv2, Layer2, Course, RowKept
    <3>. QED
      BY <1>3, <1>4, <1>11, <3>1, <3>2 DEF IInv2, Layer2, Course, Placed
  <2>6. SeenSo'
    <3> SUFFICES ASSUME edits = 0, NEW q \in Settlers, pc'[q] \in {"sawTo", "sawFrom"}
                 PROVE  Reads(q, pc[q], job[q], aged[q])'
      BY DEF SeenSo, Reads
    <3>1. q # p /\ pc'[q] = pc[q] /\ job'[q] = job[q] /\ aged'[q] = aged[q] /\ job[q] \in Movers
      BY <1>1, <1>2, Shapes2 DEF Shape2, InCharge, SettleLabels
    <3>2. Reads(q, pc[q], job[q], aged[q])
      BY <1>11 DEF IInv2, Layer2, Course, SeenSo
    <3>. QED
      BY <1>3, <1>4, <1>5, <3>1, <3>2 DEF Reads
  <2>. QED
    BY <2>1, <2>2, <2>3, <2>4, <2>5, <2>6 DEF Course
<1>. QED
  BY <1>8, <1>9, <1>10, <1>11 DEF Layer2

LEMMA SettleNotMovedKeeps == ASSUME IInv2, NEW p \in Settlers, SettleNotMoved(p) PROVE Layer2'
<1>1. UNCHANGED <<row, heard, event, patch, edits>> /\ UNCHANGED local /\ pc[p] = "sawFrom"
  BY DEF SettleNotMoved, local, store, provider, At
<1>2. InCharge(p) /\ job[p] \in Movers /\ p \in Procs
  BY <1>1, Settling DEF InCharge, SettleLabels
<1>3. CASE /\ p \in Workers \/ aged[p] \/ opOld[job[p]]
           /\ Live(job[p]) /\ Transition(job[p], "failed") /\ Goto(p, "release")
  <2>1. Prompt => Stopped(job[p])
    BY <1>1, <1>2, <1>3 DEF IInv2, Layer2, Course, OldStopped, Settlers
  <2>2. Prompt /\ edits = 0 => patch[job[p]] # "applied"
    BY <1>1, <1>3 DEF IInv2, Layer2, Course, SeenSo, Reads
  <2>3. Prompt => pc'[job[p]] \notin PatchLabels
    BY <1>2, <1>3, <2>1, Shapes2 DEF Stopped, Goto, PatchLabels, Shape2
  <2>4. job' = [job EXCEPT ![p] = job[p]]
    BY <1>1, <1>2, Shapes2 DEF local, Shape2
  <2>. QED
    BY <1>1, <1>2, <1>3, <2>1, <2>2, <2>3, <2>4, FailKeeps DEF Stopped, local
<1>4. CASE GiveUp(p, "unknown") /\ UNCHANGED ops
  BY <1>1, <1>4, GiveUpKeeps DEF Answers, Replies, World, ops
<1>. QED
  BY <1>3, <1>4 DEF SettleNotMoved, Live, LiveStates

-----------------------------------------------------------------------------
(* What the mover records of its own operation                               *)

LEMMA RecordMovedKeeps == ASSUME IInv2, NEW m \in Movers, RecordMoved(m) PROVE Layer2'
<1>1. /\ UNCHANGED <<row, heard, event, patch, edits, seen, want>> /\ UNCHANGED aged
      /\ job' = [job EXCEPT ![m] = m] /\ pc[m] = "moved" /\ m \in Settlers /\ m \in Procs
  BY Known DEF RecordMoved, store, provider, At, Settlers
<1>2. job'[m] = m /\ \A q \in Settlers \ {m} : job'[q] = job[q] /\ aged'[q] = aged[q]
  BY <1>1, Shapes2, Known DEF Shape2
<1>3. patch[m] = "applied" /\ opState[m] # "none"
  BY <1>1 DEF IInv2, Layer2, AnsweredSo, SentRecorded
<1>4. \A m1 \in Movers : opOld'[m1] => opOld[m1]
  BY Shapes2 DEF RecordMoved, Transition, ops, Shape2
<1>5. \A m1 \in Movers : \/ opState'[m1] = opState[m1]
                         \/ m1 = m /\ Live(m) /\ opState'[m] = "provider_moved"
  BY Shapes2 DEF RecordMoved, Transition, ops, Shape2, Live, LiveStates
<1>6. PICK l \in {"verify", "timeout", "done"} :
         /\ pc' = [pc EXCEPT ![m] = l]
         /\ \/ reply' = reply
            \/ l = "done" /\ reply' = [reply EXCEPT ![m] = "unknown"]
  BY <1>1 DEF RecordMoved, Goto, Answer
<1>7. Walks(m, l, job'[m], aged'[m]) /\ l \in Labels
  BY <1>2, <1>3 DEF Walks, Reads, SettleLabels, Labels
<1>8. /\ \A n \in Movers \ {m} : reply'[n] = reply[n]
      /\ reply'[m] = reply[m] \/ (l = "done" /\ Answers(m, reply'[m], job'[m]))
  BY <1>6, Shapes2, Known DEF Shape2, Answers
<1>9. pc'[m] = l /\ l \notin PatchLabels /\ "provider_moved" \in LiveStates
  BY <1>1, <1>6, Shapes2 DEF Shape2, PatchLabels, LiveStates
<1>10. \A n \in Movers :
          \/ opState'[n] = opState[n]
          \/ /\ Live(n) /\ opState'[n] \in LiveStates
             /\ Prompt => pc'[n] \notin PatchLabels
             /\ Prompt /\ edits = 0 /\ opState'[n] = "provider_moved" => patch[n] = "applied"
  BY <1>3, <1>5, <1>9
<1>. QED
  BY <1>1, <1>2, <1>4, <1>6, <1>7, <1>8, <1>10, SettlerKeeps

LEMMA RecordRefusedKeeps == ASSUME IInv2, NEW m \in Movers, RecordRefused(m) PROVE Layer2'
<1>1. /\ UNCHANGED <<row, heard, event, patch, edits, seen, want>> /\ UNCHANGED aged
      /\ job' = [job EXCEPT ![m] = m] /\ pc[m] = "refused" /\ m \in Settlers /\ m \in Procs
  BY Known DEF RecordRefused, store, provider, At, Settlers
<1>2. job'[m] = m /\ \A q \in Settlers \ {m} : job'[q] = job[q] /\ aged'[q] = aged[q]
  BY <1>1, Shapes2, Known DEF Shape2
<1>3. patch[m] \notin {"inflight", "applied"}
  BY <1>1 DEF IInv2, Layer2, AnsweredSo
<1>4. CASE opState[m] = "in_progress" /\ Transition(m, "failed") /\ Goto(m, "release")
  <2>1. Live(m) /\ pc'[m] \notin PatchLabels
    BY <1>1, <1>4, Shapes2 DEF Live, LiveStates, Goto, PatchLabels, Shape2
  <2>. QED
    BY <1>1, <1>3, <1>4, <2>1, FailKeeps
\* Under Prompt nobody else has touched the operation.
<1>5. CASE opState[m] # "in_progress" /\ Answer(m, "failed") /\ UNCHANGED ops
  <2>1. ~Prompt
    BY <1>1, <1>5 DEF IInv2, Layer2, Course, LeftAlone, PatchLabels
  <2>2. \A n \in Movers \ {m} : reply'[n] = reply[n]
    BY <1>5, Shapes2, Known DEF Shape2, Answer
  <2>3. reply'[m] = "failed" /\ Answers(m, "failed", job'[m]) /\ "done" \in Labels
    BY <1>5, <2>1, Shapes2, Known DEF Shape2, Answer, Answers, Labels
  <2>4. Walks(m, "done", job'[m], aged'[m])
    BY DoneWalks
  <2>5. UNCHANGED <<opState, opOld>> /\ pc' = [pc EXCEPT ![m] = "done"]
    BY <1>5 DEF ops, Answer
  <2>. QED
    BY <1>1, <1>2, <2>2, <2>3, <2>4, <2>5, SettlerKeeps
<1>. QED
  BY <1>4, <1>5 DEF RecordRefused

LEMMA RecordUnknownKeeps == ASSUME IInv2, NEW m \in Movers, RecordUnknown(m) PROVE Layer2'
<1>1. /\ UNCHANGED <<row, heard, event, patch, edits, seen, want>> /\ UNCHANGED reply
      /\ aged' = [aged EXCEPT ![m] = FALSE]
      /\ job' = [job EXCEPT ![m] = m] /\ pc[m] = "timeout" /\ m \in Settlers /\ m \in Procs
  BY Known DEF RecordUnknown, store, provider, At, Settlers, Goto
<1>2. /\ job'[m] = m /\ aged'[m] = FALSE
      /\ \A q \in Settlers \ {m} : job'[q] = job[q] /\ aged'[q] = aged[q]
  BY <1>1, Shapes2, Known DEF Shape2
<1>3. opState[m] # "none"
  BY <1>1 DEF IInv2, Layer2, SentRecorded
<1>4. \A n \in Movers : opOld'[n] => opOld[n]
  BY Shapes2 DEF RecordUnknown, Transition, ops, Shape2
<1>5. \A n \in Movers : \/ opState'[n] = opState[n]
                        \/ n = m /\ Live(m) /\ opState'[m] = "unknown"
  BY Shapes2 DEF RecordUnknown, Transition, ops, Shape2, Live, LiveStates
<1>6. PICK l \in {"verify", "settle"} : pc' = [pc EXCEPT ![m] = l]
  BY DEF RecordUnknown, Goto
<1>7. Walks(m, l, job'[m], aged'[m]) /\ l \in Labels
  BY <1>2, <1>3 DEF Walks, Reads, SettleLabels, Labels
<1>8. pc'[m] = l /\ l \notin PatchLabels /\ "unknown" \in LiveStates
  BY <1>1, <1>6, Shapes2 DEF Shape2, PatchLabels, LiveStates
<1>9. \A n \in Movers :
          \/ opState'[n] = opState[n]
          \/ /\ Live(n) /\ opState'[n] \in LiveStates
             /\ Prompt => pc'[n] \notin PatchLabels
             /\ Prompt /\ edits = 0 /\ opState'[n] = "provider_moved" => patch[n] = "applied"
  BY <1>5, <1>8
<1>. QED
  BY <1>1, <1>2, <1>4, <1>6, <1>7, <1>9, SettlerKeeps

-----------------------------------------------------------------------------
(* The steps that write a time, insert an operation or send its PATCH        *)

\* What OldStopped needs of a step: whoever is at work keeps its operation, or has
\* taken up one that is over.
LEMMA OldStaysStopped ==
    ASSUME IInv2, Prompt,
           \A m \in Movers : Stopped(m) => Stopped(m)',
           \A m \in Movers : opOld'[m] => opOld[m] \/ Stopped(m)',
           \A w \in Workers : InCharge(w)' =>
               \/ InCharge(w) /\ job'[w] = job[w]
               \/ job'[w] \in Movers /\ opOld[job'[w]],
           \A m \in Movers : pc'[m] \in {"settle", "sawTo", "sawFrom"} /\ aged'[m] =>
               \/ pc[m] \in {"settle", "sawTo", "sawFrom"} /\ aged[m] /\ job'[m] = job[m]
               \/ job'[m] \in Movers /\ opOld[job'[m]]
    PROVE  OldStopped'
<1>1. \A m \in Movers : opOld[m] => Stopped(m)
  BY DEF IInv2, Layer2, Course, OldStopped
<1>2. ASSUME NEW w \in Workers, InCharge(w)' PROVE Stopped(job[w])'
  <2>1. PICK j \in Movers : j = job'[w] /\ Stopped(j)
    <3>1. CASE InCharge(w) /\ job'[w] = job[w]
      BY <3>1, Shapes2 DEF IInv2, Layer2, Course, OldStopped, Shape2, Settlers
    <3>2. CASE job'[w] \in Movers /\ opOld[job'[w]]
      BY <1>1, <3>2
    <3>. QED
      BY <1>2, <3>1, <3>2
  <2>. QED
    BY <2>1 DEF Stopped
<1>3. ASSUME NEW m \in Movers, pc'[m] \in {"settle", "sawTo", "sawFrom"}, aged'[m]
      PROVE  Stopped(job[m])'
  <2>1. PICK j \in Movers : j = job'[m] /\ Stopped(j)
    <3>1. CASE pc[m] \in {"settle", "sawTo", "sawFrom"} /\ aged[m] /\ job'[m] = job[m]
      <4>1. job[m] \in Movers
        BY <3>1, Shapes2 DEF Shape2, InCharge, SettleLabels, Settlers
      <4>. QED
        BY <3>1, <4>1 DEF IInv2, Layer2, Course, OldStopped
    <3>2. CASE job'[m] \in Movers /\ opOld[job'[m]]
      BY <1>1, <3>2
    <3>. QED
      BY <1>3, <3>1, <3>2
  <2>. QED
    BY <2>1 DEF Stopped
<1>. QED
  BY <1>1, <1>2, <1>3 DEF OldStopped

LEMMA BeginMoveKeeps == ASSUME IInv2, NEW m \in Movers, BeginMove(m) PROVE Layer2'
<1>1. /\ UNCHANGED World /\ pc[m] = "start" /\ m \in Settlers /\ m \in Procs /\ m \in Requests
      /\ opState[m] = "none" /\ patch[m] = "unsent"
  BY NothingSent, Known DEF BeginMove, World, store, ops, provider, At, Unrecorded, Settlers
<1>2. \A n \in Movers \ {m} : seen'[n] = seen[n] /\ want'[n] = want[n]
  BY Shapes2 DEF Shape2, BeginMove, ReadAppointment
<1>3. PICK l \in {"check", "done", "settle", "verify"} :
         /\ pc' = [pc EXCEPT ![m] = l]
         /\ reply' = reply \/ (l = "done" /\ reply' = [reply EXCEPT ![m] = "busy"])
         /\ \/ l \in {"check", "done"} /\ UNCHANGED <<job, aged>>
            \/ \E j \in Movers : /\ Live(j) /\ (opState[j] = "in_progress" => opOld[j])
                                 /\ job' = [job EXCEPT ![m] = j] /\ aged' = [aged EXCEPT ![m] = opOld[j]]
  BY DEF BeginMove, Goto, Answer
<1>4. pc'[m] = l /\ \A q \in Settlers \ {m} : /\ pc'[q] = pc[q] /\ job'[q] = job[q] /\ aged'[q] = aged[q]
                                              /\ (InCharge(q)' <=> InCharge(q))
  BY <1>1, <1>3, Shapes2, Known DEF Shape2, InCharge
<1>5. l \in {"settle", "verify"} =>
         /\ job'[m] \in Movers /\ Live(job'[m]) /\ aged'[m] = opOld[job'[m]]
         /\ opState[job'[m]] = "in_progress" => opOld[job'[m]]
  BY <1>1, <1>3, Shapes2 DEF Shape2
<1>6. (\A n \in Movers \ {m} : reply'[n] = reply[n]) /\ reply'[m] \in {reply[m], "busy"}
      /\ (reply'[m] = reply[m] \/ l = "done")
  BY <1>1, <1>3, Shapes2, Known DEF Shape2
<1>7. \A n \in Movers : Live(n)' <=> Live(n)
  BY <1>1 DEF Live, World
<1>8. \A n \in Movers : n # m => pc'[n] = pc[n] /\ job'[n] = job[n] /\ aged'[n] = aged[n]
  BY <1>4 DEF Settlers
<1>9. HeardTime'
  BY <1>1, <1>2, <1>4, <1>8 DEF IInv2, Layer2, HeardTime, World
<1>10. SentRecorded'
  <2>1. \A q \in Settlers : InCharge(q)' => opState[job'[q]] # "none"
    BY <1>4, <1>5 DEF IInv2, Layer2, SentRecorded, InCharge, SettleLabels, Live, LiveStates
  <2>. QED
    BY <1>1, <1>4, <1>8, <2>1 DEF IInv2, Layer2, SentRecorded, World, PatchLabels
<1>11. AnsweredSo'
  BY <1>1, <1>4, <1>6, <1>8 DEF IInv2, Layer2, AnsweredSo, World
<1>12. ASSUME Prompt PROVE Course'
  <2>1. LeftAlone'
    BY <1>1, <1>4, <1>5, <1>8, <1>12
       DEF IInv2, Layer2, Course, LeftAlone, World, PatchLabels, InCharge, SettleLabels
  <2>2. RefusedFailed'
    BY <1>1, <1>4, <1>6, <1>8, <1>12 DEF IInv2, Layer2, Course, RefusedFailed, AnsweredSo, World
  <2>3. OldStopped'
    <3>1. \A n \in Movers : Stopped(n) => Stopped(n)'
      BY <1>1, <1>8 DEF Stopped, World
    <3>. QED
      BY <1>1, <1>4, <1>5, <1>8, <1>12, <3>1, OldStaysStopped, Known DEF World, Settlers
  <2>4. RowKept' /\ Placed'
    BY <1>1, <1>2, <1>4, <1>7, <1>8, <1>12 DEF IInv2, Layer2, Course, RowKept, Placed, World, Live, LiveStates
  <2>5. SeenSo'
    <3>1. \A q \in Settlers : Reads(q, pc'[q], job'[q], aged'[q]) => Reads(q, pc[q], job[q], aged[q])'
      BY <1>1 DEF Reads, Live, World
    <3>. QED
      BY <1>1, <1>4, <1>12, <3>1 DEF IInv2, Layer2, Course, SeenSo, Reads, World
  <2>. QED
    BY <2>1, <2>2, <2>3, <2>4, <2>5 DEF Course
<1>. QED
  BY <1>9, <1>10, <1>11, <1>12 DEF Layer2

LEMMA InsertOpKeeps == ASSUME IInv2, NEW m \in Movers, InsertOp(m) PROVE Layer2'
<1>1. /\ UNCHANGED <<row, heard, event, patch, edits>> /\ UNCHANGED local /\ pc[m] = "insert" /\ m \in Settlers
      /\ m \in Procs /\ opState[m] = "none" /\ patch[m] = "unsent"
  BY NothingSent, Known DEF InsertOp, store, provider, At, Unrecorded, Settlers
<1>2. CASE Answer(m, "busy") /\ UNCHANGED ops
  BY <1>1, <1>2, AnswerKeeps DEF Answers, Replies, World, ops
<1>3. CASE (\A n \in Movers : ~Live(n)) /\ Transition(m, "in_progress") /\ Goto(m, "patch")
  <2>1. UNCHANGED <<job, aged, seen, want, reply>>
    BY <1>1, <1>3 DEF local, Goto
  <2>2. /\ pc'[m] = "patch" /\ opState'[m] = "in_progress" /\ opOld'[m] = FALSE
        /\ \A n \in Movers \ {m} : opState'[n] = opState[n] /\ opOld'[n] = opOld[n] /\ pc'[n] = pc[n]
        /\ \A q \in Settlers \ {m} : pc'[q] = pc[q] /\ (InCharge(q)' <=> InCharge(q))
    BY <1>1, <1>3, Shapes2, Known DEF Shape2, Transition, Goto, InCharge
  <2>3. ~InCharge(m)' /\ ~InCharge(m)
    BY <1>1, <2>2 DEF InCharge, SettleLabels
  <2>4. \A n \in Movers : Live(n)' <=> n = m
    BY <1>3, <2>2 DEF Live, LiveStates
  \* Nobody is settling an operation that was not in the table.
  <2>5. \A q \in Settlers : InCharge(q) \/ pc[q] = "confirm" => job[q] \in Movers
    BY Settling
  <2>6. \A q \in Settlers : InCharge(q) => job[q] # m
    BY <1>1 DEF IInv2, Layer2, SentRecorded
  <2>7. HeardTime'
    BY <1>1, <2>1, <2>2 DEF IInv2, Layer2, HeardTime
  <2>8. SentRecorded'
    BY <1>1, <2>1, <2>2, <2>3, <2>5 DEF IInv2, Layer2, SentRecorded, PatchLabels
  <2>9. AnsweredSo'
    BY <1>1, <2>1, <2>2, <2>5 DEF IInv2, Layer2, AnsweredSo, Settlers
  <2>10. ASSUME Prompt PROVE Course'
    <3>1. LeftAlone'
      BY <1>1, <2>1, <2>2, <2>3, <2>6, <2>10 DEF IInv2, Layer2, Course, LeftAlone
    <3>2. RefusedFailed'
      BY <1>1, <2>1, <2>2, <2>10 DEF IInv2, Layer2, Course, RefusedFailed
    <3>3. OldStopped'
      <4>1. \A n \in Movers : Stopped(n) => Stopped(n)'
        BY <1>1, <2>2 DEF Stopped
      <4>. QED
        BY <1>1, <2>1, <2>2, <2>3, <2>10, <4>1, OldStaysStopped, Known DEF Settlers
    <3>4. RowKept' /\ Placed'
      BY <1>1, <1>3, <2>1, <2>2, <2>4, <2>10
         DEF IInv2, Layer2, Course, RowKept, Placed, Live, LiveStates
    <3>5. SeenSo'
      <4> SUFFICES ASSUME NEW q \in Settlers, pc'[q] \in {"sawTo", "sawFrom"}
                   PROVE  Reads(q, pc[q], job[q], aged[q])'
        BY DEF SeenSo, Reads
      <4>1. InCharge(q) /\ job'[q] = job[q] /\ job[q] \in Movers \ {m}
        BY <2>1, <2>2, <2>5, <2>6 DEF InCharge, SettleLabels
      <4>. QED
        BY <2>4, <4>1 DEF Reads
    <3>. QED
      BY <3>1, <3>2, <3>3, <3>4, <3>5 DEF Course
  <2>. QED
    BY <2>7, <2>8, <2>9, <2>10 DEF Layer2
<1>. QED
  BY <1>2, <1>3 DEF InsertOp

LEMMA SendPatchKeeps == ASSUME IInv2, NEW m \in Movers, SendPatch(m) PROVE Layer2'
<1>1. /\ UNCHANGED <<row, heard, event, edits, opState, opOld>> /\ UNCHANGED <<job, aged, seen, want, reply>>
      /\ pc[m] = "patch" /\ m \in Settlers /\ m \in Procs
  BY Known DEF SendPatch, store, ops, local, At, Settlers, Goto
<1>2. /\ pc'[m] = "sent" /\ patch'[m] = "inflight" /\ patch[m] = "unsent" /\ opState[m] # "none"
      /\ \A n \in Movers \ {m} : patch'[n] = patch[n] /\ pc'[n] = pc[n]
      /\ \A q \in Settlers \ {m} : pc'[q] = pc[q] /\ (InCharge(q)' <=> InCharge(q))
  BY <1>1, Shapes2
     DEF IInv2, Layer2, AnsweredSo, SentRecorded, PatchLabels, Shape2, SendPatch, Goto, InCharge
<1>3. ~InCharge(m) /\ ~InCharge(m)' /\ \A n \in Movers : Live(n)' <=> Live(n)
  BY <1>1, <1>2 DEF InCharge, SettleLabels, Live
<1>4. \A q \in Settlers : InCharge(q) \/ pc[q] = "confirm" => job[q] \in Movers
  BY Settling
<1>5. HeardTime'
  BY <1>1, <1>2 DEF IInv2, Layer2, HeardTime
<1>6. SentRecorded'
  BY <1>1, <1>2, <1>3 DEF IInv2, Layer2, SentRecorded, PatchLabels
<1>7. AnsweredSo'
  BY <1>1, <1>2, <1>4 DEF IInv2, Layer2, AnsweredSo
<1>8. ASSUME Prompt PROVE Course'
  <2>1. opState[m] = "in_progress" /\ ~opOld[m] /\ \A q \in Settlers : InCharge(q) => job[q] # m
    BY <1>1, <1>8 DEF IInv2, Layer2, Course, LeftAlone, PatchLabels
  <2>2. LeftAlone'
    BY <1>1, <1>2, <1>3, <1>8, <2>1 DEF IInv2, Layer2, Course, LeftAlone
  <2>3. RefusedFailed'
    BY <1>1, <1>8 DEF IInv2, Layer2, Course, RefusedFailed
  <2>4. OldStopped'
    <3>1. \A n \in Movers : Stopped(n) => Stopped(n)'
      BY <1>1, <1>2 DEF Stopped
    <3>. QED
      BY <1>1, <1>2, <1>3, <1>8, <3>1, OldStaysStopped, Known DEF Settlers
  <2>5. RowKept' /\ Placed'
    BY <1>1, <1>2, <1>3, <1>8, <2>1 DEF IInv2, Layer2, Course, RowKept, Placed, Live, LiveStates
  <2>6. SeenSo'
    <3> SUFFICES ASSUME edits = 0, NEW q \in Settlers, pc'[q] \in {"sawTo", "sawFrom"}
                 PROVE  Reads(q, pc[q], job[q], aged[q])'
      BY <1>1 DEF SeenSo, Reads
    <3>1. InCharge(q) /\ pc'[q] = pc[q] /\ job'[q] = job[q] /\ aged'[q] = aged[q] /\ job[q] \in Movers \ {m}
      BY <1>1, <1>2, <1>4, <2>1 DEF InCharge, SettleLabels
    <3>2. Reads(q, pc[q], job[q], aged[q])
      BY <1>8 DEF IInv2, Layer2, Course, SeenSo
    <3>. QED
      BY <1>1, <1>2, <1>3, <3>1, <3>2 DEF Reads
  <2>. QED
    BY <2>2, <2>3, <2>4, <2>5, <2>6 DEF Course
<1>. QED
  BY <1>5, <1>6, <1>7, <1>8 DEF Layer2

\* The row and the operation are written together, for the one live operation.
LEMMA CommitKeeps ==
    ASSUME IInv2, NEW p \in Settlers, pc[p] = "finish", Commit(job[p]),
           UNCHANGED <<heard, event, patch, edits>>, UNCHANGED local,
           Goto(p, "confirm") \/ GiveUp(p, "local_pending")
    PROVE  Layer2'
<1>1. UNCHANGED <<job, aged, seen, want>> /\ job[p] \in Movers /\ p \in Procs /\ InCharge(p)
  BY Settling DEF local, InCharge, SettleLabels
<1>2. PICK j \in Movers : j = job[p]
  BY <1>1
<1>3. PICK l \in {"confirm", "done", "idle"} :
         /\ pc' = [pc EXCEPT ![p] = l]
         /\ reply' = reply \/ (p \in Movers /\ l = "done" /\ reply' = [reply EXCEPT ![p] = "local_pending"])
  BY DEF Goto, GiveUp, Answer, Settlers
<1>4. /\ pc'[p] = l /\ ~InCharge(p)'
      /\ \A q \in Settlers \ {p} : pc'[q] = pc[q] /\ (InCharge(q)' <=> InCharge(q))
      /\ \A n \in Movers : n # p => pc'[n] = pc[n] /\ reply'[n] = reply[n]
      /\ p \in Movers => reply'[p] \in {reply[p], "local_pending"} /\ (reply'[p] = reply[p] \/ l = "done")
  BY <1>1, <1>3, Shapes2, Known DEF Shape2, InCharge, SettleLabels, Settlers
<1>5. /\ opState[j] = "provider_moved" /\ Owns("reschedule", j) /\ row.active
      /\ row' = [row EXCEPT !.start = want[j]] /\ Transition(j, "completed")
  BY <1>2 DEF Commit, OwnsFinish
<1>6. /\ opState'[j] = "completed" /\ \A n \in Movers \ {j} : opState'[n] = opState[n]
      /\ \A n \in Movers : opOld'[n] => opOld[n]
      /\ row'.start = want[j]
  BY <1>5, Shapes2 DEF Transition, Shape2
<1>7. \A q \in Settlers : InCharge(q) \/ pc[q] = "confirm" => job[q] \in Movers
  BY Settling
<1>8. HeardTime'
  BY <1>1, <1>4, <1>5, <1>6 DEF IInv2, Layer2, HeardTime
<1>9. SentRecorded'
  BY <1>1, <1>4, <1>6, <1>7 DEF IInv2, Layer2, SentRecorded, PatchLabels
<1>10. AnsweredSo'
  BY <1>1, <1>2, <1>4, <1>5, <1>6, <1>7 DEF IInv2, Layer2, AnsweredSo, Settlers
<1>11. ASSUME Prompt PROVE Course'
  <2>1. \A n \in Movers : ~Live(n)'
    <3>1. \A n \in Movers : Live(n) => n = j
      BY <1>5, <1>11 DEF IInv2, IInv, PromptInv, LiveOpOwned, Owns
    <3>. QED
      BY <1>6, <3>1 DEF Live, LiveStates
  <2>2. \A n \in Movers : pc[n] \notin PatchLabels \cup {"insert"}
    <3> SUFFICES ASSUME NEW n \in Movers, pc[n] \in PatchLabels \cup {"insert"} PROVE FALSE
      OBVIOUS
    <3>1. CASE pc[n] = "insert"
      <4>1. n = j
        BY <1>5, <1>11, <3>1 DEF IInv2, IInv, PromptInv, InsertOwned, Owns
      <4>. QED
        BY <1>5, <3>1, <4>1 DEF IInv2, IInv, NotYetInserted, Unrecorded
    <3>2. CASE pc[n] \in PatchLabels
      <4>1. opState[n] = "in_progress"
        BY <1>11, <3>2 DEF IInv2, Layer2, Course, LeftAlone
      <4>. QED
        BY <1>5, <1>6, <2>1, <4>1 DEF Live, LiveStates
    <3>. QED
      BY <3>1, <3>2
  <2>3. LeftAlone'
    BY <1>4, <2>2 DEF LeftAlone, PatchLabels, Settlers
  <2>4. RefusedFailed'
    BY <1>1, <1>4, <1>5, <1>6, <1>11 DEF IInv2, Layer2, Course, RefusedFailed
  <2>5. OldStopped'
    <3>1. \A n \in Movers : Stopped(n) => Stopped(n)'
      BY <1>1, <1>3, <1>4 DEF Stopped, InCharge, SettleLabels
    <3>. QED
      BY <1>1, <1>4, <1>6, <1>11, <3>1, OldStaysStopped, Known DEF Settlers, InCharge, SettleLabels
  <2>6. RowKept'
    BY <1>4, <2>1, <2>2 DEF RowKept
  <2>7. Placed'
    <3>1. edits = 0 => patch[j] = "applied" /\ event.live /\ event.start = want[j]
      BY <1>5, <1>11 DEF IInv2, Layer2, Course, Placed, Live, LiveStates
    <3>2. edits = 0 => \A n \in Movers : patch[n] # "inflight"
      BY <1>6, <1>11, <2>1, <3>1 DEF IInv2, Layer2, Course, Placed, Live
    <3>. QED
      BY <1>6, <2>1, <3>1, <3>2 DEF Placed, Live, LiveStates
  <2>8. SeenSo'
    <3> SUFFICES ASSUME NEW q \in Settlers, pc'[q] \in {"sawTo", "sawFrom"}
                 PROVE  Reads(q, pc[q], job[q], aged[q])'
      BY DEF SeenSo, Reads
    <3>1. job'[q] \in Movers
      BY <1>1, <1>4, <1>7 DEF InCharge, SettleLabels
    <3>. QED
      BY <2>1, <3>1 DEF Reads, Live
  <2>. QED
    BY <2>3, <2>4, <2>5, <2>6, <2>7, <2>8 DEF Course
<1>. QED
  BY <1>8, <1>9, <1>10, <1>11 DEF Layer2

LEMMA FinishKeeps == ASSUME IInv2, NEW p \in Settlers, Finish(p) \/ FinishRaises(p) PROVE Layer2'
<1>1. UNCHANGED <<heard, event, patch, edits>> /\ UNCHANGED local /\ pc[p] = "finish"
  BY DEF Finish, FinishRaises, provider, At
<1>2. CASE Commit(job[p]) /\ (Goto(p, "confirm") \/ GiveUp(p, "local_pending"))
  BY <1>1, <1>2, CommitKeeps
<1>3. CASE UNCHANGED row /\ UNCHANGED ops /\ \E r \in {"unknown", "stale", "local_pending"} : GiveUp(p, r)
  BY <1>1, <1>3, GiveUpKeeps DEF Answers, Replies, World, ops
<1>. QED
  BY <1>2, <1>3 DEF Finish, FinishRaises

LEMMA ConfirmKeeps == ASSUME IInv2, NEW p \in Settlers, Confirm(p) PROVE Layer2'
<1>1. UNCHANGED World /\ UNCHANGED <<job, aged, want>> /\ pc[p] = "confirm" /\ job[p] \in Movers /\ p \in Procs
  BY Settling DEF Confirm, World, store, ops, provider, At
<1>2. p \in Movers => opState[job[p]] = "completed"
  BY <1>1 DEF IInv2, Layer2, AnsweredSo
<1>3. CASE UNCHANGED seen /\ job[p] = p /\ \E l \in {"timeout", "consume"} : Goto(p, l)
  <2>1. p \in Movers /\ opState[p] = "completed" /\ UNCHANGED local
    BY <1>1, <1>2, <1>3 DEF local
  <2>. QED
    BY <1>1, <1>3, <2>1, GotoKeeps DEF Walks, Reads, SettleLabels, Labels
<1>4. CASE UNCHANGED seen /\ (GiveUp(p, "unknown") \/ Goto(p, "idle"))
  <2>1. UNCHANGED local
    BY <1>1, <1>4 DEF local
  <2>2. CASE GiveUp(p, "unknown")
    BY <1>1, <2>1, <2>2, GiveUpKeeps DEF Answers, Replies
  <2>3. CASE Goto(p, "idle")
    BY <1>1, <2>1, <2>3, GotoKeeps, DoneWalks DEF Labels
  <2>. QED
    BY <1>4, <2>2, <2>3
\* A mover that settled another's operation goes on from the row it has re-read.
<1>5. CASE p \in Movers /\ job[p] # p /\ Goto(p, "check")
           /\ seen' = [seen EXCEPT ![p].start = row.start, ![p].active = row.active]
  <2>1. opState[p] = "none" /\ UNCHANGED reply
    BY <1>1, <1>5, NothingSent DEF Unrecorded, Working, Goto
  <2>2. \A m \in Movers \ {p} : seen'[m] = seen[m]
    BY <1>5, Shapes2 DEF Shape2
  <2>3. pc'[p] = "check" /\ ~InCharge(p)' /\ ~InCharge(p)
        /\ \A q \in Settlers \ {p} : pc'[q] = pc[q] /\ (InCharge(q)' <=> InCharge(q))
    BY <1>1, <1>5, Shapes2, Known DEF Shape2, Goto, InCharge, SettleLabels
  <2>4. \A m \in Movers : m # p => pc'[m] = pc[m]
    BY <2>3 DEF Settlers
  <2>5. \A q \in Settlers : InCharge(q) \/ pc[q] = "confirm" => job[q] \in Movers
    BY Settling
  <2>6. \A m \in Movers : Live(m)' <=> Live(m)
    BY <1>1 DEF Live, World
  <2>7. HeardTime'
    BY <1>1, <2>1, <2>2, <2>3, <2>4 DEF IInv2, Layer2, HeardTime, World
  <2>8. SentRecorded'
    BY <1>1, <2>3, <2>4, <2>5 DEF IInv2, Layer2, SentRecorded, World, PatchLabels
  <2>9. AnsweredSo'
    BY <1>1, <2>1, <2>3, <2>4 DEF IInv2, Layer2, AnsweredSo, World
  <2>10. ASSUME Prompt PROVE Course'
    <3>1. LeftAlone'
      BY <1>1, <2>3, <2>4, <2>10 DEF IInv2, Layer2, Course, LeftAlone, World, PatchLabels
    <3>2. RefusedFailed'
      BY <1>1, <2>1, <2>10 DEF IInv2, Layer2, Course, RefusedFailed, World
    <3>3. OldStopped'
      <4>1. \A m \in Movers : Stopped(m) => Stopped(m)'
        BY <1>1, <2>3, <2>4 DEF Stopped, World
      <4>. QED
        BY <1>1, <2>3, <2>4, <2>10, <4>1, OldStaysStopped, Known DEF Settlers, World
    <3>4. RowKept' /\ Placed'
      BY <1>1, <2>1, <2>2, <2>3, <2>4, <2>6, <2>10
         DEF IInv2, Layer2, Course, RowKept, Placed, World, Live, LiveStates
    <3>5. SeenSo'
      <4> SUFFICES ASSUME edits = 0, NEW q \in Settlers, pc'[q] \in {"sawTo", "sawFrom"}
                   PROVE  Reads(q, pc[q], job[q], aged[q])'
        BY <1>1 DEF SeenSo, Reads, World
      <4>1. pc'[q] = pc[q] /\ job'[q] = job[q] /\ aged'[q] = aged[q] /\ job[q] \in Movers
        BY <1>1, <2>3, <2>5 DEF InCharge, SettleLabels
      <4>2. Reads(q, pc[q], job[q], aged[q])
        BY <2>10 DEF IInv2, Layer2, Course, SeenSo
      <4>. QED
        BY <1>1, <2>6, <4>1, <4>2 DEF Reads, World
    <3>. QED
      BY <3>1, <3>2, <3>3, <3>4, <3>5 DEF Course
  <2>. QED
    BY <2>7, <2>8, <2>9, <2>10 DEF Layer2
<1>. QED
  BY <1>1, <1>3, <1>4, <1>5 DEF Confirm, Settlers

-----------------------------------------------------------------------------
(* The recovery passes                                                       *)

\* Recovery takes up an operation that has passed its cut-off, so it is over.
LEMMA ListStaleKeeps == ASSUME IInv2, NEW w \in Workers, ListStale(w) PROVE Layer2'
<1>1. UNCHANGED World /\ UNCHANGED <<aged, seen, want, reply>> /\ pc[w] = "idle" /\ w \in Settlers
      /\ w \in Procs /\ w \notin Movers
  BY Known DEF ListStale, World, store, provider, At, Settlers, Goto
<1>2. PICK j \in Movers : Live(j) /\ opOld[j] /\ job' = [job EXCEPT ![w] = j]
  BY DEF ListStale
<1>3. /\ pc'[w] = "lease" /\ job'[w] = j /\ InCharge(w)'
      /\ \A q \in Settlers \ {w} : pc'[q] = pc[q] /\ job'[q] = job[q] /\ (InCharge(q)' <=> InCharge(q))
      /\ \A m \in Movers : pc'[m] = pc[m] /\ job'[m] = job[m]
  BY <1>1, <1>2, Shapes2, Known DEF Shape2, ListStale, Goto, InCharge, Settlers
<1>4. \A m \in Movers : (Live(m)' <=> Live(m)) /\ (Stopped(m)' <=> Stopped(m))
  BY <1>1, <1>3 DEF Live, Stopped, World
<1>5. \A q \in Settlers : InCharge(q) \/ pc[q] = "confirm" => job[q] \in Movers
  BY Settling
<1>6. HeardTime' /\ AnsweredSo'
  BY <1>1, <1>3 DEF IInv2, Layer2, HeardTime, AnsweredSo, World
<1>7. SentRecorded'
  BY <1>1, <1>2, <1>3, <1>5 DEF IInv2, Layer2, SentRecorded, World, Live, LiveStates
<1>8. ASSUME Prompt PROVE Course'
  <2>1. LeftAlone'
    BY <1>1, <1>2, <1>3, <1>8 DEF IInv2, Layer2, Course, LeftAlone, World
  <2>2. RefusedFailed'
    BY <1>1, <1>3, <1>8 DEF IInv2, Layer2, Course, RefusedFailed, World
  <2>3. OldStopped'
    BY <1>1, <1>2, <1>3, <1>4, <1>8, OldStaysStopped DEF Settlers, World
  <2>4. RowKept' /\ Placed'
    BY <1>1, <1>3, <1>4, <1>8 DEF IInv2, Layer2, Course, RowKept, Placed, World
  <2>5. SeenSo'
    <3> SUFFICES ASSUME edits = 0, NEW q \in Settlers, pc'[q] \in {"sawTo", "sawFrom"}
                 PROVE  Reads(q, pc[q], job[q], aged[q])'
      BY <1>1 DEF SeenSo, Reads, World
    <3>1. pc'[q] = pc[q] /\ job'[q] = job[q] /\ aged'[q] = aged[q] /\ job[q] \in Movers
      BY <1>1, <1>3, <1>5 DEF InCharge, SettleLabels
    <3>2. Reads(q, pc[q], job[q], aged[q])
      BY <1>8 DEF IInv2, Layer2, Course, SeenSo
    <3>. QED
      BY <1>1, <1>4, <3>1, <3>2 DEF Reads, World
  <2>. QED
    BY <2>1, <2>2, <2>3, <2>4, <2>5 DEF Course
<1>. QED
  BY <1>6, <1>7, <1>8 DEF Layer2

LEMMA SweepKeeps ==
    ASSUME IInv2, NEW w \in Workers, ListOrphans(w) \/ LookForOp(w) \/ SweepOrphan(w)
    PROVE  Layer2'
<1>1. /\ UNCHANGED World /\ UNCHANGED <<aged, seen, want, reply>> /\ pc[w] \in {"idle", "look", "sweep"}
      /\ w \in Settlers /\ w \notin Movers
      /\ \A q \in Settlers \ {w} : job'[q] = job[q]
  BY Shapes2, Known
     DEF Shape2, ListOrphans, LookForOp, SweepOrphan, World, store, ops, provider, local, At, Settlers, Goto
<1>2. PICK l \in {"look", "sweep", "idle"} : pc' = [pc EXCEPT ![w] = l]
  BY DEF ListOrphans, LookForOp, SweepOrphan, Goto
<1>3. Walks(w, l, job'[w], aged'[w]) /\ l \in Labels
  BY DoneWalks DEF Labels
<1>. QED
  BY <1>1, <1>2, <1>3, SettlerKeeps DEF World

LEMMA ReconcileCancelKeeps == ASSUME IInv2, NEW w \in Workers, ReconcileCancel(w) PROVE Layer2'
  BY AsideKeeps, Known DEF ReconcileCancel, World, store, ops, provider

-----------------------------------------------------------------------------
(* A cancellation settles nothing; it owns the appointment when it touches it *)

\* What a canceller's own steps leave as it is.
LEMMA CancellerAside ==
    ASSUME IInv2, NEW c \in Cancellers, UNCHANGED World, UNCHANGED local,
           \/ \E l \in Labels : Goto(c, l)
           \/ \E r \in Replies : Answer(c, r)
    PROVE  Layer2'
<1>1. \A q \in Settlers : q # c
  BY Known
<1>2. \A q \in Settlers : pc'[q] = pc[q]
  BY <1>1, Shapes2, Known DEF Shape2, Goto, Answer
<1>3. \A m \in Movers : reply'[m] = reply[m]
  BY <1>1, Shapes2, Known DEF Shape2, Goto, Answer, Settlers
<1>. QED
  BY <1>2, <1>3, AsideKeeps

LEMMA CancelStepsKeep ==
    ASSUME IInv2, NEW c \in Cancellers,
           \/ BeginCancel(c) \/ OwnCancel(c) \/ OwnCancelRaises(c) \/ RereadCancel(c)
           \/ ClaimRef(c) \/ ClaimRefRaises(c) \/ UndoCancel(c) \/ ReleaseCancel(c)
    PROVE  Layer2'
<1>1. UNCHANGED World /\ UNCHANGED local
  BY DEF BeginCancel, OwnCancel, OwnCancelRaises, RereadCancel, ClaimRef, ClaimRefRaises, UndoCancel,
         ReleaseCancel, World, store, ops, provider
<1>2. \/ \E l \in Labels : Goto(c, l)
      \/ \E r \in Replies : Answer(c, r)
  BY DEF BeginCancel, OwnCancel, OwnCancelRaises, RereadCancel, ClaimRef, ClaimRefRaises, UndoCancel,
         ReleaseCancel, Labels, Replies
<1>. QED
  BY <1>1, <1>2, CancellerAside

\* Under Prompt, what a canceller at work on the appointment finds: no move is under
\* way, nor about to be.
LEMMA NoMoveMeanwhile ==
    ASSUME IInv2, Prompt, NEW c \in Cancellers, pc[c] \in {"call", "write", "release"}
    PROVE  \A m \in Movers : ~Live(m) /\ pc[m] # "insert"
  BY DEF IInv2, IInv, PromptInv, LiveOpOwned, InsertOwned, CancelOwned, Owns

LEMMA CancellerTouches ==
    ASSUME IInv2, NEW c \in Cancellers, pc[c] \in {"call", "write", "release"},
           UNCHANGED <<heard, opState, opOld, patch, edits>>, UNCHANGED local,
           row' = row \/ row' = [row EXCEPT !.active = FALSE],
           event' = event \/ event' = [event EXCEPT !.live = FALSE],
           \/ \E l \in Labels : Goto(c, l)
           \/ \E r \in Replies : Answer(c, r)
    PROVE  Layer2'
<1>1. \A q \in Settlers : q # c
  BY Known
<1>2. (\A q \in Settlers : pc'[q] = pc[q]) /\ (\A m \in Movers : pc'[m] = pc[m])
  BY <1>1, Shapes2, Known DEF Shape2, Goto, Answer, Settlers
<1>3. \A m \in Movers : reply'[m] = reply[m]
  BY <1>1, Shapes2, Known DEF Shape2, Goto, Answer, Settlers
<1>4. UNCHANGED <<job, aged, seen, want>>
  BY DEF local
<1>5. /\ row'.start = row.start /\ (row'.active => row.active)
      /\ event'.start = event.start /\ (event'.live => event.live)
  BY Shapes2 DEF Shape2
<1>6. \A m \in Movers : (Live(m)' <=> Live(m)) /\ (Stopped(m) => Stopped(m)')
  BY <1>2 DEF Live, Stopped
<1>7. \A q \in Settlers : InCharge(q)' <=> InCharge(q)
  BY <1>2 DEF InCharge
<1>8. HeardTime' /\ SentRecorded' /\ AnsweredSo'
  BY <1>2, <1>3, <1>4, <1>7 DEF IInv2, Layer2, HeardTime, SentRecorded, AnsweredSo
<1>9. ASSUME Prompt PROVE Course'
  <2>1. LeftAlone' /\ RefusedFailed'
    BY <1>2, <1>3, <1>4, <1>7, <1>9 DEF IInv2, Layer2, Course, LeftAlone, RefusedFailed
  <2>2. OldStopped'
    BY <1>2, <1>4, <1>6, <1>7, <1>9, OldStaysStopped DEF Settlers
  <2>3. RowKept' /\ Placed'
    BY <1>2, <1>4, <1>5, <1>6, <1>9, NoMoveMeanwhile DEF IInv2, Layer2, Course, RowKept, Placed, Live, LiveStates
  <2>4. SeenSo'
    <3> SUFFICES ASSUME NEW q \in Settlers, pc'[q] \in {"sawTo", "sawFrom"}
                 PROVE  Reads(q, pc[q], job[q], aged[q])'
      BY DEF SeenSo, Reads
    <3>1. job[q] \in Movers
      BY <1>2, Settling DEF InCharge, SettleLabels
    <3>. QED
      BY <1>4, <1>6, <1>9, <3>1, NoMoveMeanwhile DEF Reads
  <2>. QED
    BY <2>1, <2>2, <2>3, <2>4 DEF Course
<1>. QED
  BY <1>8, <1>9 DEF Layer2

LEMMA DeleteOrWriteKeeps ==
    ASSUME IInv2, NEW c \in Cancellers,
           DeleteEvent(c) \/ DeleteRaises(c) \/ WriteCancelled(c) \/ WriteRaises(c)
    PROVE  Layer2'
<1>1. pc[c] \in {"call", "write", "release"} /\ UNCHANGED <<heard, opState, opOld, patch, edits>> /\ UNCHANGED local
  BY DEF DeleteEvent, DeleteRaises, WriteCancelled, WriteRaises, At, store, ops, provider
<1>2. (row' = row \/ row' = [row EXCEPT !.active = FALSE])
      /\ (event' = event \/ event' = [event EXCEPT !.live = FALSE])
  BY DEF DeleteEvent, DeleteRaises, WriteCancelled, WriteRaises, store, provider
<1>3. \/ \E l \in Labels : Goto(c, l)
      \/ \E r \in Replies : Answer(c, r)
  BY DEF DeleteEvent, DeleteRaises, WriteCancelled, WriteRaises, Labels, Replies
<1>. QED
  BY <1>1, <1>2, <1>3, CancellerTouches

-----------------------------------------------------------------------------
(* The caller, the provider, the merchant, the clock and crashes             *)

\* A reference that a move has started from was heard before, and is not listed again.
LEMMA ListAppointmentKeeps == ASSUME IInv2, NEW r \in Refs, ListAppointment(r) PROVE Layer2'
<1>1. /\ UNCHANGED <<row, opState, opOld, event, patch, edits, pc, reply>> /\ UNCHANGED local
      /\ heard[r] = Nil /\ heard' = [heard EXCEPT ![r] = row.start]
  BY DEF ListAppointment, ops, provider
<1>2. UNCHANGED <<job, aged, seen, want>>
  BY <1>1 DEF local
<1>3. HeardTime'
  <2> SUFFICES ASSUME NEW m \in Movers,
                      pc[m] \in {"own", "reread", "insert"} \/ opState[m] # "none"
               PROVE  heard'[RefOf[m]] = seen[m].start /\ seen[m].start # want[m]
    BY <1>1, <1>2 DEF HeardTime
  <2>1. heard[RefOf[m]] = seen[m].start /\ seen[m].start # want[m]
    BY DEF IInv2, Layer2, HeardTime
  <2>2. seen[m].start # Nil /\ RefOf[m] \in Refs
    BY ConstantsOK, Shapes2, Known DEF Shape2
  <2>. QED
    BY <1>1, <2>1, <2>2, Shapes2 DEF Shape2
<1>4. SentRecorded' /\ AnsweredSo'
  BY <1>1, <1>2 DEF IInv2, Layer2, SentRecorded, AnsweredSo, InCharge
<1>5. \A m \in Movers : (Live(m)' <=> Live(m)) /\ (Stopped(m)' <=> Stopped(m))
  BY <1>1 DEF Live, Stopped
<1>6. ASSUME Prompt PROVE Course'
  <2>1. LeftAlone' /\ RefusedFailed'
    BY <1>1, <1>2, <1>6 DEF IInv2, Layer2, Course, LeftAlone, RefusedFailed, InCharge
  <2>2. OldStopped'
    <3>1. \A w \in Workers : InCharge(w)' <=> InCharge(w)
      BY <1>1 DEF InCharge
    <3>. QED
      BY <1>1, <1>2, <1>5, <1>6, <3>1, OldStaysStopped
  <2>3. RowKept' /\ Placed'
    BY <1>1, <1>2, <1>5, <1>6 DEF IInv2, Layer2, Course, RowKept, Placed
  <2>4. SeenSo'
    BY <1>1, <1>2, <1>6 DEF IInv2, Layer2, Course, SeenSo, Reads, Live
  <2>. QED
    BY <2>1, <2>2, <2>3, <2>4 DEF Course
<1>. QED
  BY <1>3, <1>4, <1>6 DEF Layer2

\* The PATCH arrives, or never will.
LEMMA PatchEndsKeeps == ASSUME IInv2, NEW m \in Movers, ApplyPatch(m) \/ RefusePatch(m) PROVE Layer2'
<1>1. /\ UNCHANGED <<row, heard, opState, opOld, edits, pc, reply>> /\ UNCHANGED local
      /\ patch[m] = "inflight"
  BY DEF ApplyPatch, RefusePatch, store, ops
<1>2. UNCHANGED <<job, aged, seen, want>>
  BY <1>1 DEF local
<1>3. /\ patch'[m] \in {"applied", "refused", "lost"} /\ \A n \in Movers \ {m} : patch'[n] = patch[n]
      /\ patch'[m] = "applied" => event.live /\ event'.live /\ event'.start = want[m]
      /\ patch'[m] # "applied" => event' = event
  BY Shapes2 DEF Shape2, ApplyPatch, RefusePatch
<1>4. \A n \in Movers : (Live(n)' <=> Live(n)) /\ (Stopped(n) => Stopped(n)')
  BY <1>1, <1>3 DEF Live, Stopped
<1>5. \A q \in Settlers : InCharge(q)' <=> InCharge(q)
  BY <1>1 DEF InCharge
<1>6. HeardTime'
  BY <1>1, <1>2 DEF IInv2, Layer2, HeardTime
<1>7. SentRecorded' /\ AnsweredSo'
  BY <1>1, <1>2, <1>3, <1>5 DEF IInv2, Layer2, SentRecorded, AnsweredSo
<1>8. ASSUME Prompt PROVE Course'
  <2>1. LeftAlone' /\ RefusedFailed'
    BY <1>1, <1>2, <1>5, <1>8 DEF IInv2, Layer2, Course, LeftAlone, RefusedFailed
  <2>2. OldStopped'
    BY <1>1, <1>2, <1>4, <1>5, <1>8, OldStaysStopped DEF Settlers
  <2>3. RowKept'
    BY <1>1, <1>2, <1>4, <1>8 DEF IInv2, Layer2, Course, RowKept
  <2>4. edits = 0 => Live(m) /\ \A n \in Movers : Live(n) => n = m
    BY <1>1, <1>8 DEF IInv2, IInv, PromptInv, LiveOpOwned, Owns, Layer2, Course, Placed
  <2>5. Placed'
    BY <1>1, <1>2, <1>3, <1>4, <1>8, <2>4 DEF IInv2, Layer2, Course, Placed, Live, LiveStates
  <2>6. SeenSo'
    <3> SUFFICES ASSUME edits = 0, NEW q \in Settlers, pc[q] \in {"sawTo", "sawFrom"}
                 PROVE  Reads(q, pc[q], job[q], aged[q])'
      BY <1>1 DEF SeenSo, Reads
    <3>1. Reads(q, pc[q], job[q], aged[q]) /\ job[q] \in Movers /\ InCharge(q)
      BY <1>8, Settling DEF IInv2, Layer2, Course, SeenSo, InCharge, SettleLabels
    <3>2. CASE job[q] # m
      BY <1>1, <1>2, <1>3, <1>4, <3>1, <3>2 DEF Reads
    \* Whoever could take m's operation for one that was not moved has it from after
    \* its cut-off, when its PATCH was over.
    <3>3. CASE job[q] = m
      <4>1. pc[q] = "sawTo" => FALSE
        BY <1>1, <2>4, <3>1, <3>3 DEF Reads
      <4>2. pc[q] = "sawFrom" /\ (q \in Workers \/ aged[q] \/ opOld[m]) => Stopped(m)
        BY <1>8, <3>1, <3>3 DEF IInv2, Layer2, Course, OldStopped, Settlers
      <4>. QED
        BY <1>1, <1>2, <3>3, <4>1, <4>2 DEF Reads, Stopped
    <3>. QED
      BY <3>2, <3>3
  <2>. QED
    BY <2>1, <2>2, <2>3, <2>5, <2>6 DEF Course
<1>. QED
  BY <1>6, <1>7, <1>8 DEF Layer2

LEMMA MerchantEditsKeeps == ASSUME IInv2, MerchantEdits PROVE Layer2'
<1>1. /\ UNCHANGED <<row, heard, opState, opOld, patch, pc, reply>> /\ UNCHANGED local
      /\ edits' # 0
  BY Shapes2 DEF Shape2, MerchantEdits, store, ops
<1>2. UNCHANGED <<job, aged, seen, want>>
  BY <1>1 DEF local
<1>3. \A m \in Movers : (Live(m)' <=> Live(m)) /\ (Stopped(m)' <=> Stopped(m))
  BY <1>1 DEF Live, Stopped
<1>4. \A q \in Settlers : InCharge(q)' <=> InCharge(q)
  BY <1>1 DEF InCharge
<1>5. HeardTime' /\ SentRecorded' /\ AnsweredSo'
  BY <1>1, <1>2, <1>4 DEF IInv2, Layer2, HeardTime, SentRecorded, AnsweredSo
<1>6. ASSUME Prompt PROVE Course'
  <2>1. LeftAlone' /\ RefusedFailed' /\ RowKept'
    BY <1>1, <1>2, <1>3, <1>4, <1>6 DEF IInv2, Layer2, Course, LeftAlone, RefusedFailed, RowKept
  <2>2. OldStopped'
    BY <1>1, <1>2, <1>3, <1>4, <1>6, OldStaysStopped DEF Settlers
  <2>3. Placed' /\ SeenSo'
    BY <1>1 DEF Placed, SeenSo
  <2>. QED
    BY <2>1, <2>2, <2>3 DEF Course
<1>. QED
  BY <1>5, <1>6 DEF Layer2

\* An operation passes its cut-off when, under Prompt, its request is over and nobody
\* is settling it.
LEMMA AgeOpKeeps == ASSUME IInv2, NEW m \in Movers, AgeOp(m) PROVE Layer2'
<1>1. /\ UNCHANGED <<row, heard, opState, event, patch, edits, pc, reply>> /\ UNCHANGED local
      /\ Live(m) /\ opOld' = [opOld EXCEPT ![m] = TRUE]
  BY DEF AgeOp, store, provider
<1>2. UNCHANGED <<job, aged, seen, want>>
  BY <1>1 DEF local
<1>3. \A n \in Movers : (Live(n)' <=> Live(n)) /\ (Stopped(n)' <=> Stopped(n))
  BY <1>1 DEF Live, Stopped
<1>4. \A q \in Settlers : InCharge(q)' <=> InCharge(q)
  BY <1>1 DEF InCharge
<1>5. \A n \in Movers \ {m} : opOld'[n] = opOld[n]
  BY <1>1, Shapes2 DEF Shape2
<1>6. HeardTime' /\ SentRecorded' /\ AnsweredSo'
  BY <1>1, <1>2, <1>4 DEF IInv2, Layer2, HeardTime, SentRecorded, AnsweredSo
<1>7. ASSUME Prompt PROVE Course'
  <2>1. Stopped(m) /\ \A q \in Settlers : job[q] = m => pc[q] \notin SettleLabels
    <3>1. patch[m] # "inflight" /\ Resting(m) /\ \A q \in Procs : job[q] = m => pc[q] \notin SettleLabels
      BY <1>7 DEF AgeOp
    <3>2. pc[m] \notin {"start", "idle"}
      BY <1>1, NothingSent DEF IInv2, IInv, MoversNeverIdle, Unrecorded, Live, LiveStates
    <3>. QED
      BY <3>1, <3>2, Known DEF Stopped, Resting
  <2>2. LeftAlone'
    BY <1>1, <1>2, <1>4, <1>5, <1>7, <2>1 DEF IInv2, Layer2, Course, LeftAlone, Stopped, PatchLabels
  <2>3. RefusedFailed' /\ RowKept' /\ Placed'
    BY <1>1, <1>2, <1>3, <1>7 DEF IInv2, Layer2, Course, RefusedFailed, RowKept, Placed
  <2>4. OldStopped'
    BY <1>1, <1>2, <1>3, <1>4, <1>5, <1>7, <2>1, OldStaysStopped DEF Settlers
  <2>5. SeenSo'
    <3> SUFFICES ASSUME edits = 0, NEW q \in Settlers, pc[q] \in {"sawTo", "sawFrom"}
                 PROVE  Reads(q, pc[q], job[q], aged[q])'
      BY <1>1 DEF SeenSo, Reads
    <3>1. Reads(q, pc[q], job[q], aged[q]) /\ job[q] \in Movers \ {m}
      BY <1>7, <2>1, Settling DEF IInv2, Layer2, Course, SeenSo, InCharge, SettleLabels
    <3>. QED
      BY <1>1, <1>2, <1>3, <1>5, <3>1 DEF Reads
  <2>. QED
    BY <2>2, <2>3, <2>4, <2>5 DEF Course
<1>. QED
  BY <1>6, <1>7 DEF Layer2

LEMMA AgeClaimKeeps == ASSUME IInv2, AgeClaim PROVE Layer2'
  BY AsideKeeps DEF AgeClaim, World, store, ops, provider

LEMMA CrashKeeps == ASSUME IInv2, NEW p \in Procs, Crash(p) PROVE Layer2'
<1>1. UNCHANGED World /\ UNCHANGED local /\ pc[p] \notin {"done", "crashed"}
      /\ \E l \in {"idle", "crashed"} : Goto(p, l)
  BY DEF Crash, World, store, ops, provider, Resting
<1>2. CASE p \in Settlers
  BY <1>1, <1>2, GotoKeeps, DoneWalks DEF Labels
<1>3. CASE p \in Cancellers
  BY <1>1, <1>3, CancellerAside DEF Labels
<1>. QED
  BY <1>2, <1>3 DEF Procs, Requests, Settlers

-----------------------------------------------------------------------------
(* The second invariant                                                      *)

LEMMA InitLayer2 == Init => Layer2
<1> SUFFICES ASSUME Init PROVE Layer2
  OBVIOUS
<1>1. /\ \A m \in Movers : /\ pc[m] = "start" /\ opState[m] = "none" /\ reply[m] = "none"
                           /\ patch[m] = "unsent" /\ ~opOld[m]
      /\ \A w \in Workers : pc[w] = "idle"
      /\ row.start = event.start
  BY Known DEF Init, Procs
<1>2. \A p \in Settlers : pc[p] \in {"start", "idle"}
  BY <1>1 DEF Settlers
<1>3. HeardTime /\ SentRecorded /\ AnsweredSo
  BY <1>1, <1>2 DEF HeardTime, SentRecorded, AnsweredSo, InCharge, SettleLabels, PatchLabels
<1>4. LeftAlone /\ RefusedFailed /\ OldStopped /\ RowKept
  BY <1>1, <1>2 DEF LeftAlone, RefusedFailed, OldStopped, RowKept, InCharge, SettleLabels, PatchLabels,
                    Settlers, Live, LiveStates
<1>5. Placed /\ SeenSo
  BY <1>1, <1>2 DEF Placed, SeenSo, Reads, Live, LiveStates
<1>. QED
  BY <1>3, <1>4, <1>5 DEF Layer2, Course

LEMMA StutterKeeps == ASSUME IInv2, UNCHANGED vars PROVE Layer2'
  BY AsideKeeps DEF vars, World, store, ops, provider

LEMMA NextLayer2 == ASSUME IInv2, [Next]_vars PROVE Layer2'
<1>1. ASSUME NEW m \in Movers, Move(m) PROVE Layer2'
  BY <1>1, BeginMoveKeeps, CheckMoveKeeps, OwnKeeps, RereadKeeps, InsertOpKeeps, SendPatchKeeps,
     PatchAnsweredKeeps, RecordMovedKeeps, RecordRefusedKeeps, RecordUnknownKeeps, ConsumeRefKeeps
     DEF Move
<1>2. ASSUME NEW p \in Movers \cup Workers, Settle(p) PROVE Layer2'
  BY <1>2, ReadEventKeeps, ReadFailsKeeps, SettleMovedKeeps, SettleNotMovedKeeps, ReleaseFailedKeeps,
     VerifyKeeps, FinishKeeps, ConfirmKeeps
     DEF Settle, Settlers
<1>3. ASSUME NEW w \in Workers, Recover(w) PROVE Layer2'
  BY <1>3, ListStaleKeeps, LeaseKeeps, SweepKeeps, ReconcileCancelKeeps DEF Recover
<1>4. ASSUME NEW c \in Cancellers, Cancel(c) PROVE Layer2'
  BY <1>4, CancelStepsKeep, DeleteOrWriteKeeps DEF Cancel
<1>5. ASSUME Environment PROVE Layer2'
  BY <1>5, ListAppointmentKeeps, PatchEndsKeeps, AgeOpKeeps, MerchantEditsKeeps, AgeClaimKeeps, CrashKeeps
     DEF Environment
<1>. QED
  BY <1>1, <1>2, <1>3, <1>4, <1>5, StutterKeeps DEF Next

\* The second invariant, of every state the specification reaches.
THEOREM Inductive2 == Spec => []IInv2
<1>1. Init => IInv2
  BY InitInv, InitLayer2 DEF IInv2
<1>2. IInv2 /\ [Next]_vars => IInv2'
  BY NextInv, NextLayer2 DEF IInv2
<1>. QED
  BY <1>1, <1>2, PTL DEF Spec

\* While no request outlasts a cut-off and the merchant edits nothing by hand, an
\* appointment that nobody owns is where the calendar shows it (CalendarMove's
\* UnownedAgrees): a PATCH that may still arrive keeps the appointment owned.
THEOREM UnownedStands == Prompt => (Spec => []UnownedAgrees)
<1> SUFFICES ASSUME Prompt PROVE Spec => []UnownedAgrees
  OBVIOUS
<1>1. IInv2 => UnownedAgrees
  <2> SUFFICES ASSUME IInv2, Free, row.active, event.live, edits = 0 PROVE row.start = event.start
    BY DEF UnownedAgrees
  <2>1. \A m \in Movers : ~Live(m)
    BY DEF IInv2, IInv, PromptInv, LiveOpOwned, Owns, Free, NoClaim
  <2>. QED
    BY <2>1 DEF IInv2, Layer2, Course, Placed
<1>. QED
  BY <1>1, Inductive2, PTL

\* While no request outlasts a cut-off, what the caller is told is so (CalendarMove's
\* AnswerIsTrue): done is completed, refused is failed, and a request that says that
\* it has moved nothing has sent nothing.
THEOREM CallersHearTheTruth == Prompt => (Spec => []AnswerIsTrue)
<1> SUFFICES ASSUME Prompt PROVE Spec => []AnswerIsTrue
  OBVIOUS
<1>1. IInv2 => AnswerIsTrue
  BY DEF IInv2, Layer2, Course, AnsweredSo, RefusedFailed, AnswerIsTrue
<1>. QED
  BY <1>1, Inductive2, PTL

\* While no request outlasts a cut-off, our row moves only from the time the caller
\* heard to the one asked for, of an appointment not cancelled, and only when the
\* calendar is there already (CalendarMove's RowMovesAsAgreed): _finish_local writes
\* what the operation's own PATCH did.
THEOREM MovesAsAgreed == Prompt => (Spec => RowMovesAsAgreed)
<1> SUFFICES ASSUME Prompt PROVE Spec => RowMovesAsAgreed
  OBVIOUS
<1> DEFINE Agreed ==
      row'.start # row.start =>
          /\ row.active
          /\ (edits = 0 => event.live /\ event.start = row'.start)
          /\ \E m \in Movers : /\ opState[m] = "provider_moved"
                              /\ heard[RefOf[m]] = row.start /\ want[m] = row'.start
<1>1. ASSUME IInv2, NEW j \in Movers, Commit(j) PROVE Agreed
  <2>1. /\ opState[j] = "provider_moved" /\ row.active /\ Live(j) /\ row'.start = want[j]
    BY <1>1, Shapes2 DEF Commit, OwnsFinish, Live, LiveStates, Shape2
  <2>2. heard[RefOf[j]] = row.start
    BY <1>1, <2>1 DEF IInv2, Layer2, Course, HeardTime, RowKept
  <2>3. edits = 0 => event.live /\ event.start = want[j]
    BY <1>1, <2>1 DEF IInv2, Layer2, Course, Placed
  <2>. QED
    BY <2>1, <2>2, <2>3
<1>2. IInv2 /\ [Next]_vars => [Agreed]_vars
  <2> SUFFICES ASSUME IInv2, [Next]_vars PROVE Agreed
    OBVIOUS
  <2>1. CASE row'.start = row.start
    BY <2>1
  <2>2. CASE row'.start # row.start
    <3>1. \E p \in Settlers : pc[p] = "finish" /\ Commit(job[p])
      <4>1. ASSUME NEW m \in Movers, Move(m) PROVE row' = row
        BY <4>1 DEF Move, BeginMove, CheckMove, Own, OwnRaises, Reread, InsertOp, SendPatch, TokenExpired,
                    PatchAnswered, RecordMoved, RecordRefused, RecordUnknown, ConsumeRef, store
      <4>2. ASSUME NEW p \in Settlers, Settle(p) PROVE row' = row \/ (pc[p] = "finish" /\ Commit(job[p]))
        BY <4>2 DEF Settle, ReadEvent, ReadFails, SettleMoved, SettleNotMoved, ReleaseFailed, Verify, Finish,
                    FinishRaises, Confirm, At, store
      <4>3. ASSUME NEW w \in Workers, Recover(w) PROVE row' = row
        BY <4>3 DEF Recover, ListStale, Lease, ListOrphans, LookForOp, SweepOrphan, ReconcileCancel, store
      <4>4. ASSUME NEW c \in Cancellers, Cancel(c) PROVE row'.start = row.start
        BY <4>4, Shapes2
           DEF Shape2, Cancel, BeginCancel, OwnCancel, OwnCancelRaises, RereadCancel, ClaimRef, ClaimRefRaises,
               DeleteEvent, DeleteRaises, UndoCancel, WriteCancelled, ReleaseCancel, WriteRaises, store
      <4>5. ASSUME Environment PROVE row' = row
        BY <4>5 DEF Environment, ListAppointment, ApplyPatch, RefusePatch, AgeOp, MerchantEdits, AgeClaim,
                    Crash, store
      <4>. QED
        BY <2>2, <4>1, <4>2, <4>3, <4>4, <4>5 DEF Next, vars, store, Settlers
    <3>2. PICK j \in Movers : Commit(j)
      BY <3>1, Settling DEF InCharge, SettleLabels
    <3>. QED
      BY <1>1, <3>2
  <2>. QED
    BY <2>1, <2>2
<1>. QED
  BY <1>2, Inductive2, PTL DEF Spec, RowMovesAsAgreed
=============================================================================
