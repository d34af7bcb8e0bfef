------------------------- MODULE CancellationProofs -------------------------
(***************************************************************************)
(* Proofs about Cancellation, for any number of callers, refunds and       *)
(* processors, and any interleaving of their steps with a reschedule, with *)
(* crashes and with late answers from Square.                              *)
(*                                                                         *)
(* The argument has three layers.  Truth is about the booking alone: a     *)
(* cancelled booking never comes back, so whoever has seen it gone may say *)
(* so.  Ownership is about tokens: exactly the process that is cancelling  *)
(* holds the claim, and a claim nobody holds is never let go.  Outcome     *)
(* puts them together: while a cancellation may still land, and once it    *)
(* has landed without being recorded, somebody owns the appointment.       *)
(***************************************************************************)
EXTENDS Cancellation, FiniteSetTheorems, TLAPS

\* Where a process owns the appointment, and where it settles a claim it took over.
Owning == {"reread", "consume", "verify", "call", "sent", "ok", "refused", "unknown",
           "unwritten", "release"}
Settling == {"settle", "record", "drop", "return"}

\* Where a process has seen that the booking is gone.
SeenGone == {"ok", "release", "unwritten", "record", "drop"}

\* A queued event is tried at most MAX_ATTEMPTS times.
QueueOK ==
    /\ \A r \in Refunds :
          /\ intent[r] = "none" => attempts[r] = 0
          /\ intent[r] = "pending" => attempts[r] < MAX_ATTEMPTS
          /\ pc[r] \notin {"done", "crashed"} => intent[r] = "none"
    /\ \A w \in Workers : job[w] # Nil => intent[job[w]] # "none"

Typed == TypeOK /\ QueueOK

ProcTruth(p) ==
    /\ pc[p] \in SeenGone => ~booking
    /\ pc[p] \in {"release", "drop"} => ~row
    /\ call[p] = "landed" => ~booking

RequestTruth(q) ==
    /\ reply[q] # "none" => pc[q] = "done"
    /\ reply[q] \in {"cancelled", "cancelled_unrecorded"} => ~booking

CallerTruth(c) ==
    /\ pc[c] \in {"start", "own", "reread", "consume", "verify", "call"} => call[c] = "unsent"
    /\ pc[c] = "refused" \/ reply[c] = "refused" => call[c] \notin {"inflight", "landed"}

MoveTruth ==
    /\ move \in {"cancelled", "recorded"} => ~booking
    /\ move = "recorded" => ~row

Truth ==
    /\ ~row => ~booking
    /\ MoveTruth
    /\ \A p \in Procs : ProcTruth(p)
    /\ \A q \in Requests : RequestTruth(q)
    /\ \A c \in Callers : CallerTruth(c)

Holds(p) == mine[p] # Nil /\ mine[p] = claim.token

Owned(p) ==
    /\ pc[p] \in Owning => Holds(p) /\ claim.type = "cancel"
    /\ Holds(p) => \/ pc[p] \in Owning
                   \/ pc[p] \in Settling /\ claim.type = "cancel_reconcile"

Ownership ==
    /\ \A p \in Procs : Owned(p)
    /\ \A p, q \in Procs : Holds(p) /\ Holds(q) => p = q
    /\ move # "none" <=> claim.type = "reschedule"

\* A cancellation nobody can end but the reconciler, or nobody at all.
Unsettled ==
    \/ claim.type = "cancel_reconcile"
    \/ claim.type = "cancel" /\ \A p \in Procs : ~Holds(p)

\* A process that owns the appointment and knows, or may know, the booking gone.
Knows(p) ==
    \/ pc[p] \in {"ok", "unknown", "unwritten"}
    \/ pc[p] = "sent" /\ call[p] = "landed"

\* What a call on its way to Square, and a booking gone unrecorded, leave owned.
LateLanding == \A q \in Procs :
    call[q] = "inflight" => ~row \/ Unsettled \/ pc[q] \in {"sent", "unknown"}

GoneUnrecorded ==
    row /\ ~booking => Unsettled \/ move = "cancelled" \/ \E p \in Procs : Knows(p)

Outcome == ~Abandoned => LateLanding /\ GoneUnrecorded

EventsKept ==
    /\ \A w \in Workers : pc[w] = "markdone" => ~row \/ Unsettled
    /\ \A r \in Refunds : intent[r] = "done" => ~row \/ Unsettled

IInv == Typed /\ Truth /\ Ownership /\ Outcome /\ EventsKept

-----------------------------------------------------------------------------
(* Tokens: there are more of them than can be in use *)

LEMMA ImageOfProcs ==
    ASSUME NEW S, IsFiniteSet(S), NEW f \in [S -> Tokens \cup {Nil}]
    PROVE  /\ IsFiniteSet({f[s] : s \in S})
           /\ Cardinality({f[s] : s \in S}) <= Cardinality(S)
<1> DEFINE T == {f[s] : s \in S}
<1>1. f \in Surjection(S, T)
    BY DEF Surjection
<1> QED BY <1>1, FS_Surjection

LEMMA SomeTokenIsFree == TypeOK => \E t \in Tokens : t \notin InUse
<1> SUFFICES ASSUME TypeOK PROVE \E t \in Tokens : t \notin InUse
    OBVIOUS
<1> DEFINE A == {mine[p] : p \in Procs}
           B == {prev[w] : w \in Workers}
           n == Cardinality(Procs)
<1>1. IsFiniteSet(Procs) /\ IsFiniteSet(Workers) /\ Cardinality(Workers) <= n /\ n \in Nat
      /\ Cardinality(Workers) \in Nat
    BY ConstantsOK, FS_Subset, FS_CardinalityType DEF Procs
<1>2. IsFiniteSet(A) /\ Cardinality(A) <= n /\ Cardinality(A) \in Nat
    <2>1. mine \in [Procs -> Tokens \cup {Nil}]
        BY DEF TypeOK
    <2>2. IsFiniteSet(A) /\ Cardinality(A) <= n
        BY <1>1, <2>1, ImageOfProcs
    <2> QED BY <2>2, FS_CardinalityType
<1>3. IsFiniteSet(B) /\ Cardinality(B) <= n /\ Cardinality(B) \in Nat
    <2>1. prev \in [Workers -> Tokens \cup {Nil}]
        BY DEF TypeOK
    <2>2. IsFiniteSet(B) /\ Cardinality(B) <= Cardinality(Workers)
        BY <1>1, <2>1, ImageOfProcs
    <2>3. Cardinality(B) \in Nat
        BY <2>2, FS_CardinalityType
    <2> HIDE DEF B, n
    <2> QED BY <1>1, <2>2, <2>3
<1>4. IsFiniteSet({claim.token}) /\ Cardinality({claim.token}) = 1
    BY FS_Singleton
<1>5. IsFiniteSet({claim.token} \cup A) /\ Cardinality({claim.token} \cup A) <= n + 1
      /\ Cardinality({claim.token} \cup A) \in Nat
    <2> DEFINE O == {claim.token}
    <2> HIDE DEF A, O, n
    <2>1. IsFiniteSet(O) /\ Cardinality(O) = 1
        BY <1>4 DEF O
    <2>2. Cardinality(O \cap A) \in Nat
        BY <2>1, FS_Intersection, FS_CardinalityType
    <2>3. IsFiniteSet(O \cup A)
          /\ Cardinality(O \cup A) = Cardinality(O) + Cardinality(A) - Cardinality(O \cap A)
        BY <1>2, <2>1, FS_Union
    <2>4. Cardinality(O \cup A) \in Nat
        BY <2>3, FS_CardinalityType
    <2> QED BY <1>1, <1>2, <2>1, <2>2, <2>3, <2>4 DEF O
<1>6. IsFiniteSet(InUse) /\ Cardinality(InUse) <= 2 * n + 1 /\ Cardinality(InUse) \in Nat
    <2> DEFINE C == {claim.token} \cup A
    <2>1. InUse = C \cup B
        BY DEF InUse
    <2> HIDE DEF A, B, C, n
    <2>2. Cardinality(C \cap B) \in Nat /\ IsFiniteSet(C) /\ Cardinality(C) <= n + 1
          /\ Cardinality(C) \in Nat
        <3>1. IsFiniteSet(C) /\ Cardinality(C) <= n + 1 /\ Cardinality(C) \in Nat
            BY <1>5 DEF C
        <3> QED BY <3>1, FS_Intersection, FS_CardinalityType
    <2>3. IsFiniteSet(C \cup B)
          /\ Cardinality(C \cup B) = Cardinality(C) + Cardinality(B) - Cardinality(C \cap B)
        BY <1>3, <2>2, FS_Union
    <2>4. Cardinality(C \cup B) \in Nat
        BY <2>3, FS_CardinalityType
    <2> QED BY <1>1, <1>3, <2>1, <2>2, <2>3, <2>4
<1>7. IsFiniteSet(Tokens) /\ Cardinality(Tokens) = 2 * n + 3
    <2> HIDE DEF n
    <2> PICK last \in Nat : last = 2 * n + 2
        BY <1>1
    <2>1. IsFiniteSet(0..last) /\ Cardinality(0..last) = last + 1
        BY FS_Interval
    <2> QED BY <1>1, <2>1 DEF Tokens, n
<1>8. SUFFICES ASSUME Tokens \subseteq InUse PROVE FALSE
    OBVIOUS
<1>9. Cardinality(Tokens) <= Cardinality(InUse)
    BY <1>6, <1>8, FS_Subset
<1> QED BY <1>1, <1>6, <1>7, <1>9

\* A uuid is a token, nobody's yet, and not SQL NULL.
LEMMA FreshIsFresh ==
    ASSUME TypeOK
    PROVE  /\ Fresh \in Tokens /\ Fresh # Nil /\ Fresh # claim.token
           /\ \A p \in Procs : mine[p] # Fresh
<1>1. Fresh \in Tokens /\ Fresh \notin InUse
    BY SomeTokenIsFree DEF Fresh
<1>2. Tokens \subseteq Nat
    BY ConstantsOK, FS_CardinalityType DEF Tokens
<1> QED BY <1>1, <1>2, NilOK DEF InUse

-----------------------------------------------------------------------------
(* Types *)

LEMMA GotoTyped ==
    ASSUME TypeOK, NEW p \in Procs, NEW l \in Labels, Goto(p, l)
    PROVE  pc' \in [Procs -> Labels] /\ reply' \in [Requests -> Replies]
BY DEF TypeOK, Goto

LEMMA AnswerTyped ==
    ASSUME TypeOK, NEW p \in Requests, NEW r \in Replies, Answer(p, r)
    PROVE  pc' \in [Procs -> Labels] /\ reply' \in [Requests -> Replies]
BY DEF TypeOK, Answer, Labels, Procs

\* What the statements on the claim write is a claim.
LEMMA RowsTyped ==
    ASSUME NEW t \in Tokens
    PROVE  /\ ClaimRow("cancel", Nil, t, Nil) \in ClaimRows({Op}, Tokens)
           /\ ClaimRow("reschedule", Op, t, Nil) \in ClaimRows({Op}, Tokens)
           /\ \A r \in Reasons : ClaimRow("cancel_reconcile", Nil, t, r) \in ClaimRows({Op}, Tokens)
BY NilOK DEF ClaimRow, ClaimRows, ClaimTypes, Reasons, Op

LEMMA ClaimTyped ==
    ASSUME TypeOK, NEW t \in Tokens, NEW u, NEW r \in Reasons,
           \/ UNCHANGED claimVars \/ Release(u) \/ ClaimAges
           \/ AcquireCancel(t) \/ AcquireReschedule(Op, t)
           \/ ToReconcile(u, r) \/ TakeOverReconcile(u, t) \/ ReturnToCancel(u, t)
    PROVE  ClaimsTypeOK({Op}, Tokens)'
<1> USE DEF ClaimsTypeOK
<1>1. CASE UNCHANGED claimVars \/ Release(u) \/ ClaimAges
    BY <1>1 DEF TypeOK, claimVars, Release, Delete, ClaimAges
<1>2. CASE AcquireCancel(t) \/ AcquireReschedule(Op, t)
    BY <1>2, RowsTyped DEF AcquireCancel, AcquireReschedule, Insert
<1>3. CASE ToReconcile(u, r)
    <2>1. CASE Owns("cancel", u)
        <3>1. u \in Tokens
            BY <2>1 DEF TypeOK, Owns, ClaimRows, NoClaim
        <3> QED BY <1>3, <2>1, <3>1, RowsTyped DEF TypeOK, ToReconcile
    <2> QED BY <1>3, <2>1 DEF TypeOK, ToReconcile, claimVars
<1>4. CASE TakeOverReconcile(u, t)
    <2>1. claim \in ClaimRows({Op}, Tokens) /\ claim' = [claim EXCEPT !.token = t] /\ claimOld' = FALSE
        BY <1>4 DEF TypeOK, TakeOverReconcile, TakeOver, Owns, NoClaim
    <2> QED BY <2>1 DEF ClaimRows
<1>5. CASE ReturnToCancel(u, t)
    BY <1>5, RowsTyped DEF TypeOK, ReturnToCancel, claimVars
<1> QED BY <1>1, <1>2, <1>3, <1>4, <1>5

-----------------------------------------------------------------------------
(* Every step keeps the types, one variable after another *)

LEMMA TypeStep == ASSUME Typed, Next PROVE TypeOK'
<1> USE DEF Typed
<1>1. ASSUME NEW c \in Callers, BeginCancel(c) PROVE TypeOK'
    <2>1. pc' \in [Procs -> Labels] /\ reply' \in [Requests -> Replies]
        BY <1>1, GotoTyped, AnswerTyped, ConstantsOK DEF BeginCancel, Labels, Replies, Procs,
           Requests
    <2>2. ClaimsTypeOK({Op}, Tokens)'
        BY <1>1, FreshIsFresh, ClaimTyped DEF BeginCancel, claims, claimVars, Reasons
    <2>3. mine' \in [Procs -> Tokens \cup {Nil}]
        BY <1>1 DEF TypeOK, BeginCancel, claims, Procs
    <2> QED
        BY <1>1, <2>1, <2>2, <2>3 DEF TypeOK, BeginCancel, queue, square, worker, moving
<1>2. ASSUME NEW c \in Callers, RereadCancel(c) PROVE TypeOK'
    <2>1. pc' \in [Procs -> Labels] /\ reply' \in [Requests -> Replies]
        BY <1>2, GotoTyped, AnswerTyped, ConstantsOK DEF RereadCancel, Labels, Replies, Procs,
           Requests
    <2>2. ClaimsTypeOK({Op}, Tokens)'
        BY <1>2, FreshIsFresh, ClaimTyped DEF RereadCancel, claims, GiveBack, claimVars, Reasons
    <2>3. mine' \in [Procs -> Tokens \cup {Nil}]
        BY <1>2 DEF TypeOK, RereadCancel, claims, GiveBack, Forget, Procs
    <2> QED
        BY <1>2, <2>1, <2>2, <2>3 DEF TypeOK, RereadCancel, queue, square, worker, moving
<1>3. ASSUME NEW c \in Callers, ClaimRef(c) PROVE TypeOK'
    <2>1. pc' \in [Procs -> Labels] /\ reply' \in [Requests -> Replies]
        BY <1>3, GotoTyped, AnswerTyped, ConstantsOK DEF ClaimRef, Labels, Replies, Procs,
           Requests
    <2>2. ClaimsTypeOK({Op}, Tokens)'
        BY <1>3, FreshIsFresh, ClaimTyped DEF ClaimRef, claims, GiveBack, claimVars, Reasons
    <2>3. mine' \in [Procs -> Tokens \cup {Nil}]
        BY <1>3 DEF TypeOK, ClaimRef, claims, GiveBack, Forget, Procs
    <2>4. consumed' \subseteq Refs
        BY <1>3, ConstantsOK DEF TypeOK, ClaimRef
    <2> QED
        BY <1>3, <2>1, <2>2, <2>3, <2>4 DEF TypeOK, ClaimRef, queue, square, worker, moving
<1>4. ASSUME NEW r \in Refunds, BeginRefund(r) PROVE TypeOK'
    <2>1. pc' \in [Procs -> Labels] /\ reply' \in [Requests -> Replies]
        BY <1>4, GotoTyped, AnswerTyped, ConstantsOK DEF BeginRefund, Labels, Replies, Procs,
           Requests
    <2>2. ClaimsTypeOK({Op}, Tokens)'
        BY <1>4, FreshIsFresh, ClaimTyped DEF BeginRefund, claims, claimVars, Reasons
    <2>3. mine' \in [Procs -> Tokens \cup {Nil}]
        BY <1>4 DEF TypeOK, BeginRefund, claims, Procs
    <2> QED
        BY <1>4, <2>1, <2>2, <2>3 DEF TypeOK, BeginRefund, queue, square, worker, moving
<1>5. ASSUME NEW r \in Refunds, MarkRefunded(r) PROVE TypeOK'
    <2>1. pc' \in [Procs -> Labels] /\ reply' \in [Requests -> Replies]
        BY <1>5, GotoTyped, AnswerTyped, ConstantsOK DEF MarkRefunded, Labels, Replies, Procs,
           Requests
    <2>2. ClaimsTypeOK({Op}, Tokens)'
        BY <1>5, FreshIsFresh, ClaimTyped DEF MarkRefunded, claims, claimVars, Reasons
    <2>3. mine' \in [Procs -> Tokens \cup {Nil}]
        BY <1>5 DEF TypeOK, MarkRefunded, claims, Procs
    <2> QED
        BY <1>5, <2>1, <2>2, <2>3 DEF TypeOK, MarkRefunded, queue, square, worker, moving
<1>6. ASSUME NEW r \in Refunds, LoadAppointment(r) PROVE TypeOK'
    <2>1. pc' \in [Procs -> Labels] /\ reply' \in [Requests -> Replies]
        BY <1>6, GotoTyped, AnswerTyped, ConstantsOK DEF LoadAppointment, Labels, Replies,
           Procs, Requests
    <2>2. ClaimsTypeOK({Op}, Tokens)'
        BY <1>6, FreshIsFresh, ClaimTyped DEF LoadAppointment, claims, claimVars, Reasons
    <2>3. mine' \in [Procs -> Tokens \cup {Nil}]
        BY <1>6 DEF TypeOK, LoadAppointment, claims, Procs
    <2> QED
        BY <1>6, <2>1, <2>2, <2>3 DEF TypeOK, LoadAppointment, queue, square, worker, moving
<1>7. ASSUME NEW r \in Refunds, WhoOwns(r) PROVE TypeOK'
    <2>1. pc' \in [Procs -> Labels] /\ reply' \in [Requests -> Replies]
        BY <1>7, GotoTyped, AnswerTyped, ConstantsOK DEF WhoOwns, Labels, Replies, Procs,
           Requests
    <2>2. ClaimsTypeOK({Op}, Tokens)'
        BY <1>7, FreshIsFresh, ClaimTyped DEF WhoOwns, claims, claimVars, Reasons
    <2>3. mine' \in [Procs -> Tokens \cup {Nil}]
        BY <1>7 DEF TypeOK, WhoOwns, claims, Procs
    <2> QED
        BY <1>7, <2>1, <2>2, <2>3 DEF TypeOK, WhoOwns, queue, square, worker, moving
<1>8. ASSUME NEW r \in Refunds, Enqueue(r) PROVE TypeOK'
    <2>1. pc' \in [Procs -> Labels] /\ reply' \in [Requests -> Replies]
        BY <1>8, GotoTyped, AnswerTyped, ConstantsOK DEF Enqueue, Labels, Replies, Procs,
           Requests
    <2>2. ClaimsTypeOK({Op}, Tokens)'
        BY <1>8, FreshIsFresh, ClaimTyped DEF Enqueue, claims, claimVars, Reasons
    <2>3. mine' \in [Procs -> Tokens \cup {Nil}]
        BY <1>8 DEF TypeOK, Enqueue, claims, Procs
    <2> QED
        BY <1>8, <2>1, <2>2, <2>3 DEF TypeOK, Enqueue, queue, square, worker, moving
<1>9. ASSUME NEW r \in Refunds, RefundRaises(r) PROVE TypeOK'
    <2>1. pc' \in [Procs -> Labels] /\ reply' \in [Requests -> Replies]
        BY <1>9, GotoTyped, AnswerTyped, ConstantsOK DEF RefundRaises, Labels, Replies, Procs,
           Requests
    <2>2. ClaimsTypeOK({Op}, Tokens)'
        BY <1>9, FreshIsFresh, ClaimTyped DEF RefundRaises, GiveBack, claimVars, Reasons
    <2>3. mine' \in [Procs -> Tokens \cup {Nil}]
        BY <1>9 DEF TypeOK, RefundRaises, GiveBack, Forget, Procs
    <2> QED
        BY <1>9, <2>1, <2>2, <2>3 DEF TypeOK, RefundRaises, queue, square, worker, moving
<1>10. ASSUME NEW w \in Workers, TakeEvent(w) PROVE TypeOK'
    <2>1. pc' \in [Procs -> Labels] /\ reply' \in [Requests -> Replies]
        BY <1>10, GotoTyped, AnswerTyped, ConstantsOK DEF TakeEvent, Labels, Replies, Procs,
           Requests
    <2>2. ClaimsTypeOK({Op}, Tokens)'
        BY <1>10, FreshIsFresh, ClaimTyped DEF TakeEvent, claims, claimVars, Reasons
    <2>3. mine' \in [Procs -> Tokens \cup {Nil}]
        BY <1>10 DEF TypeOK, TakeEvent, claims, Procs
    <2>4. job' \in [Workers -> Refunds \cup {Nil}] /\ tries' \in [Workers -> 0..MAX_ATTEMPTS]
        <3> PICK r \in Refunds : /\ intent[r] = "pending"
                              /\ job' = [job EXCEPT ![w] = r]
                              /\ tries' = [tries EXCEPT ![w] = attempts[r] + 1]
            BY <1>10 DEF TakeEvent
        <3>1. attempts[r] + 1 \in 0..MAX_ATTEMPTS
            BY ConstantsOK DEF TypeOK, QueueOK
        <3> QED BY <3>1 DEF TypeOK
    <2> QED
        BY <1>10, <2>1, <2>2, <2>3, <2>4 DEF TypeOK, TakeEvent, queue, square, worker, moving
<1>11. ASSUME NEW w \in Workers, CheckRow(w) PROVE TypeOK'
    <2>1. pc' \in [Procs -> Labels] /\ reply' \in [Requests -> Replies]
        BY <1>11, GotoTyped, AnswerTyped, ConstantsOK DEF CheckRow, Labels, Replies, Procs,
           Requests
    <2>2. ClaimsTypeOK({Op}, Tokens)'
        BY <1>11, FreshIsFresh, ClaimTyped DEF CheckRow, claims, claimVars, Reasons
    <2>3. mine' \in [Procs -> Tokens \cup {Nil}]
        BY <1>11 DEF TypeOK, CheckRow, claims, Procs
    <2> QED
        BY <1>11, <2>1, <2>2, <2>3 DEF TypeOK, CheckRow, queue, square, worker, moving
<1>12. ASSUME NEW w \in Workers, RereadEvent(w) PROVE TypeOK'
    <2>1. pc' \in [Procs -> Labels] /\ reply' \in [Requests -> Replies]
        BY <1>12, GotoTyped, AnswerTyped, ConstantsOK DEF RereadEvent, Labels, Replies, Procs,
           Requests
    <2>2. ClaimsTypeOK({Op}, Tokens)'
        BY <1>12, FreshIsFresh, ClaimTyped DEF RereadEvent, claims, GiveBack, claimVars, Reasons
    <2>3. mine' \in [Procs -> Tokens \cup {Nil}]
        BY <1>12 DEF TypeOK, RereadEvent, claims, GiveBack, Forget, Procs
    <2> QED
        BY <1>12, <2>1, <2>2, <2>3 DEF TypeOK, RereadEvent, queue, square, worker, moving
<1>13. ASSUME NEW w \in Workers, MarkDone(w) PROVE TypeOK'
    <2>1. pc' \in [Procs -> Labels] /\ reply' \in [Requests -> Replies]
        BY <1>13, GotoTyped, AnswerTyped, ConstantsOK DEF MarkDone, Labels, Replies, Procs,
           Requests
    <2>2. ClaimsTypeOK({Op}, Tokens)'
        BY <1>13, FreshIsFresh, ClaimTyped DEF MarkDone, claims, claimVars, Reasons
    <2>3. mine' \in [Procs -> Tokens \cup {Nil}]
        BY <1>13 DEF TypeOK, MarkDone, claims, Procs
    <2> QED
        BY <1>13, <2>1, <2>2, <2>3 DEF TypeOK, MarkDone, queue, square, worker, moving
<1>14. ASSUME NEW w \in Workers, MarkRetryOrFailed(w) PROVE TypeOK'
    <2>1. pc' \in [Procs -> Labels] /\ reply' \in [Requests -> Replies]
        BY <1>14, GotoTyped, AnswerTyped, ConstantsOK DEF MarkRetryOrFailed, Labels, Replies,
           Procs, Requests
    <2>2. ClaimsTypeOK({Op}, Tokens)'
        BY <1>14, FreshIsFresh, ClaimTyped DEF MarkRetryOrFailed, claims, claimVars, Reasons
    <2>3. mine' \in [Procs -> Tokens \cup {Nil}]
        BY <1>14 DEF TypeOK, MarkRetryOrFailed, claims, Procs
    <2> QED
        BY <1>14, <2>1, <2>2, <2>3 DEF TypeOK, MarkRetryOrFailed, queue, square, worker, moving
<1>15. ASSUME NEW w \in Workers, HandleRaises(w) PROVE TypeOK'
    <2>1. pc' \in [Procs -> Labels] /\ reply' \in [Requests -> Replies]
        BY <1>15, GotoTyped, AnswerTyped, ConstantsOK DEF HandleRaises, Labels, Replies, Procs,
           Requests
    <2>2. ClaimsTypeOK({Op}, Tokens)'
        BY <1>15, FreshIsFresh, ClaimTyped DEF HandleRaises, claimVars, claimVars, Reasons
    <2>3. mine' \in [Procs -> Tokens \cup {Nil}]
        BY <1>15 DEF TypeOK, HandleRaises, Forget, Procs
    <2> QED
        BY <1>15, <2>1, <2>2, <2>3 DEF TypeOK, HandleRaises, queue, square, worker, moving
<1>16. ASSUME NEW p \in Procs, Own(p) PROVE TypeOK'
    <2>1. pc' \in [Procs -> Labels] /\ reply' \in [Requests -> Replies]
        BY <1>16, GotoTyped, AnswerTyped, ConstantsOK DEF Own, Busy, End, Labels, Replies,
           Procs, Requests
    <2>2. ClaimsTypeOK({Op}, Tokens)'
        BY <1>16, FreshIsFresh, ClaimTyped DEF Own, claims, claimVars, Reasons
    <2>3. mine' \in [Procs -> Tokens \cup {Nil}]
        BY <1>16, FreshIsFresh DEF TypeOK, Own, claims
    <2> QED
        BY <1>16, <2>1, <2>2, <2>3 DEF TypeOK, Own, queue, square, worker, moving
<1>17. ASSUME NEW p \in Procs, OwnRaises(p) PROVE TypeOK'
    <2>1. pc' \in [Procs -> Labels] /\ reply' \in [Requests -> Replies]
        BY <1>17, GotoTyped, AnswerTyped, ConstantsOK DEF OwnRaises, End, Labels, Replies,
           Procs, Requests
    <2>2. ClaimsTypeOK({Op}, Tokens)'
        BY <1>17, FreshIsFresh, ClaimTyped DEF OwnRaises, claimVars, claimVars, Reasons
    <2>3. mine' \in [Procs -> Tokens \cup {Nil}]
        BY <1>17 DEF TypeOK, OwnRaises
    <2> QED
        BY <1>17, <2>1, <2>2, <2>3 DEF TypeOK, OwnRaises, queue, square, worker, moving
<1>18. ASSUME NEW p \in Procs, VerifyBooking(p) PROVE TypeOK'
    <2>1. pc' \in [Procs -> Labels] /\ reply' \in [Requests -> Replies]
        BY <1>18, GotoTyped, AnswerTyped, ConstantsOK DEF VerifyBooking, Labels, Replies, Procs,
           Requests
    <2>2. ClaimsTypeOK({Op}, Tokens)'
        BY <1>18, FreshIsFresh, ClaimTyped DEF VerifyBooking, claims, claimVars, Reasons
    <2>3. mine' \in [Procs -> Tokens \cup {Nil}]
        BY <1>18 DEF TypeOK, VerifyBooking, claims
    <2> QED
        BY <1>18, <2>1, <2>2, <2>3 DEF TypeOK, VerifyBooking, queue, square, worker, moving
<1>19. ASSUME NEW p \in Procs, SendCancel(p) PROVE TypeOK'
    <2>1. pc' \in [Procs -> Labels] /\ reply' \in [Requests -> Replies]
        BY <1>19, GotoTyped, AnswerTyped, ConstantsOK DEF SendCancel, Labels, Replies, Procs,
           Requests
    <2>2. ClaimsTypeOK({Op}, Tokens)'
        BY <1>19, FreshIsFresh, ClaimTyped DEF SendCancel, claims, claimVars, Reasons
    <2>3. mine' \in [Procs -> Tokens \cup {Nil}]
        BY <1>19 DEF TypeOK, SendCancel, claims
    <2>4. call' \in [Procs -> CallStates]
        BY <1>19 DEF TypeOK, CallStates, SendCancel
    <2> QED
        BY <1>19, <2>1, <2>2, <2>3, <2>4 DEF TypeOK, SendCancel, queue, square, worker, moving
<1>20. ASSUME NEW p \in Procs, CancelAnswered(p) PROVE TypeOK'
    <2>1. pc' \in [Procs -> Labels] /\ reply' \in [Requests -> Replies]
        BY <1>20, GotoTyped, AnswerTyped, ConstantsOK DEF CancelAnswered, Labels, Replies,
           Procs, Requests
    <2>2. ClaimsTypeOK({Op}, Tokens)'
        BY <1>20, FreshIsFresh, ClaimTyped DEF CancelAnswered, claims, claimVars, Reasons
    <2>3. mine' \in [Procs -> Tokens \cup {Nil}]
        BY <1>20 DEF TypeOK, CancelAnswered, claims
    <2> QED
        BY <1>20, <2>1, <2>2, <2>3 DEF TypeOK, CancelAnswered, queue, square, worker, moving
<1>21. ASSUME NEW p \in Procs, CancelUnknown(p) PROVE TypeOK'
    <2>1. pc' \in [Procs -> Labels] /\ reply' \in [Requests -> Replies]
        BY <1>21, GotoTyped, AnswerTyped, ConstantsOK DEF CancelUnknown, End, Labels, Replies,
           Procs, Requests
    <2>2. ClaimsTypeOK({Op}, Tokens)'
        BY <1>21, FreshIsFresh, ClaimTyped DEF CancelUnknown, HandOver, Reasons, claimVars,
           Reasons
    <2>3. mine' \in [Procs -> Tokens \cup {Nil}]
        BY <1>21 DEF TypeOK, CancelUnknown, HandOver, Forget
    <2> QED
        BY <1>21, <2>1, <2>2, <2>3 DEF TypeOK, CancelUnknown, queue, square, worker, moving,
           GiveRefBack
<1>22. ASSUME NEW p \in Procs, CancelRefused(p) PROVE TypeOK'
    <2>1. pc' \in [Procs -> Labels] /\ reply' \in [Requests -> Replies]
        BY <1>22, GotoTyped, AnswerTyped, ConstantsOK DEF CancelRefused, End, Labels, Replies,
           Procs, Requests
    <2>2. ClaimsTypeOK({Op}, Tokens)'
        BY <1>22, FreshIsFresh, ClaimTyped DEF CancelRefused, GiveBack, claimVars, Reasons
    <2>3. mine' \in [Procs -> Tokens \cup {Nil}]
        BY <1>22 DEF TypeOK, CancelRefused, GiveBack, Forget
    <2> QED
        BY <1>22, <2>1, <2>2, <2>3 DEF TypeOK, CancelRefused, queue, square, worker, moving,
           GiveRefBack
<1>23. ASSUME NEW p \in Procs, WriteCancelled(p) PROVE TypeOK'
    <2>1. pc' \in [Procs -> Labels] /\ reply' \in [Requests -> Replies]
        BY <1>23, GotoTyped, AnswerTyped, ConstantsOK DEF WriteCancelled, Labels, Replies,
           Procs, Requests
    <2>2. ClaimsTypeOK({Op}, Tokens)'
        BY <1>23, FreshIsFresh, ClaimTyped DEF WriteCancelled, claims, claimVars, Reasons
    <2>3. mine' \in [Procs -> Tokens \cup {Nil}]
        BY <1>23 DEF TypeOK, WriteCancelled, claims
    <2> QED
        BY <1>23, <2>1, <2>2, <2>3 DEF TypeOK, WriteCancelled, queue, square, worker, moving
<1>24. ASSUME NEW p \in Procs, ReleaseCancelled(p) PROVE TypeOK'
    <2>1. pc' \in [Procs -> Labels] /\ reply' \in [Requests -> Replies]
        BY <1>24, GotoTyped, AnswerTyped, ConstantsOK DEF ReleaseCancelled, End, Labels,
           Replies, Procs, Requests
    <2>2. ClaimsTypeOK({Op}, Tokens)'
        BY <1>24, FreshIsFresh, ClaimTyped DEF ReleaseCancelled, GiveBack, claimVars, Reasons
    <2>3. mine' \in [Procs -> Tokens \cup {Nil}]
        BY <1>24 DEF TypeOK, ReleaseCancelled, GiveBack, Forget
    <2> QED
        BY <1>24, <2>1, <2>2, <2>3 DEF TypeOK, ReleaseCancelled, queue, square, worker, moving
<1>25. ASSUME NEW p \in Procs, WriteRaises(p) PROVE TypeOK'
    <2>1. pc' \in [Procs -> Labels] /\ reply' \in [Requests -> Replies]
        BY <1>25, GotoTyped, AnswerTyped, ConstantsOK DEF WriteRaises, Labels, Replies, Procs,
           Requests
    <2>2. ClaimsTypeOK({Op}, Tokens)'
        BY <1>25, FreshIsFresh, ClaimTyped DEF WriteRaises, claims, claimVars, Reasons
    <2>3. mine' \in [Procs -> Tokens \cup {Nil}]
        BY <1>25 DEF TypeOK, WriteRaises, claims
    <2> QED
        BY <1>25, <2>1, <2>2, <2>3 DEF TypeOK, WriteRaises, queue, square, worker, moving
<1>26. ASSUME NEW p \in Procs, HandOverUnwritten(p) PROVE TypeOK'
    <2>1. pc' \in [Procs -> Labels] /\ reply' \in [Requests -> Replies]
        BY <1>26, GotoTyped, AnswerTyped, ConstantsOK DEF HandOverUnwritten, End, Labels,
           Replies, Procs, Requests
    <2>2. ClaimsTypeOK({Op}, Tokens)'
        BY <1>26, FreshIsFresh, ClaimTyped DEF HandOverUnwritten, HandOver, Reasons, claimVars,
           Reasons
    <2>3. mine' \in [Procs -> Tokens \cup {Nil}]
        BY <1>26 DEF TypeOK, HandOverUnwritten, HandOver, Forget
    <2> QED
        BY <1>26, <2>1, <2>2, <2>3 DEF TypeOK, HandOverUnwritten, queue, square, worker, moving
<1>27. ASSUME NEW w \in Workers, ListReconcile(w) PROVE TypeOK'
    <2>1. pc' \in [Procs -> Labels] /\ reply' \in [Requests -> Replies]
        BY <1>27, GotoTyped, AnswerTyped, ConstantsOK DEF ListReconcile, Labels, Replies, Procs,
           Requests
    <2>2. ClaimsTypeOK({Op}, Tokens)'
        BY <1>27, FreshIsFresh, ClaimTyped DEF ListReconcile, claims, claimVars, Reasons
    <2>3. mine' \in [Procs -> Tokens \cup {Nil}]
        BY <1>27 DEF TypeOK, ListReconcile, claims, Procs
    <2>4. prev' \in [Workers -> Tokens \cup {Nil}]
        <3>1. claim.token \in Tokens
            BY <1>27 DEF ListReconcile, TypeOK, ClaimsTypeOK, ClaimRows, NoClaim
        <3> QED BY <1>27, <3>1 DEF ListReconcile, TypeOK
    <2> QED
        BY <1>27, <2>1, <2>2, <2>3, <2>4 DEF TypeOK, ListReconcile, queue, square, worker,
           moving
<1>28. ASSUME NEW w \in Workers, TakeOverClaim(w) PROVE TypeOK'
    <2>1. pc' \in [Procs -> Labels] /\ reply' \in [Requests -> Replies]
        BY <1>28, GotoTyped, AnswerTyped, ConstantsOK DEF TakeOverClaim, Labels, Replies, Procs,
           Requests
    <2>2. ClaimsTypeOK({Op}, Tokens)'
        BY <1>28, FreshIsFresh, ClaimTyped DEF TakeOverClaim, claims, claimVars, Reasons
    <2>3. mine' \in [Procs -> Tokens \cup {Nil}]
        BY <1>28, FreshIsFresh DEF TypeOK, TakeOverClaim, claims, Procs
    <2> QED
        BY <1>28, <2>1, <2>2, <2>3 DEF TypeOK, TakeOverClaim, queue, square, worker, moving
<1>29. ASSUME NEW w \in Workers, ReadBooking(w) PROVE TypeOK'
    <2>1. pc' \in [Procs -> Labels] /\ reply' \in [Requests -> Replies]
        BY <1>29, GotoTyped, AnswerTyped, ConstantsOK DEF ReadBooking, Labels, Replies, Procs,
           Requests
    <2>2. ClaimsTypeOK({Op}, Tokens)'
        BY <1>29, FreshIsFresh, ClaimTyped DEF ReadBooking, claimVars, claimVars, Reasons
    <2>3. mine' \in [Procs -> Tokens \cup {Nil}]
        BY <1>29 DEF TypeOK, ReadBooking, Forget, Procs
    <2> QED
        BY <1>29, <2>1, <2>2, <2>3 DEF TypeOK, ReadBooking, queue, square, worker, moving
<1>30. ASSUME NEW w \in Workers, ReconcileFails(w) PROVE TypeOK'
    <2>1. pc' \in [Procs -> Labels] /\ reply' \in [Requests -> Replies]
        BY <1>30, GotoTyped, AnswerTyped, ConstantsOK DEF ReconcileFails, Labels, Replies,
           Procs, Requests
    <2>2. ClaimsTypeOK({Op}, Tokens)'
        BY <1>30, FreshIsFresh, ClaimTyped DEF ReconcileFails, claimVars, claimVars, Reasons
    <2>3. mine' \in [Procs -> Tokens \cup {Nil}]
        BY <1>30 DEF TypeOK, ReconcileFails, Forget, Procs
    <2> QED
        BY <1>30, <2>1, <2>2, <2>3 DEF TypeOK, ReconcileFails, queue, square, worker, moving
<1>31. ASSUME NEW w \in Workers, RecordCancelled(w) PROVE TypeOK'
    <2>1. pc' \in [Procs -> Labels] /\ reply' \in [Requests -> Replies]
        BY <1>31, GotoTyped, AnswerTyped, ConstantsOK DEF RecordCancelled, Labels, Replies,
           Procs, Requests
    <2>2. ClaimsTypeOK({Op}, Tokens)'
        BY <1>31, FreshIsFresh, ClaimTyped DEF RecordCancelled, claims, claimVars, Reasons
    <2>3. mine' \in [Procs -> Tokens \cup {Nil}]
        BY <1>31 DEF TypeOK, RecordCancelled, claims, Procs
    <2> QED
        BY <1>31, <2>1, <2>2, <2>3 DEF TypeOK, RecordCancelled, queue, square, worker, moving
<1>32. ASSUME NEW w \in Workers, DropClaim(w) PROVE TypeOK'
    <2>1. pc' \in [Procs -> Labels] /\ reply' \in [Requests -> Replies]
        BY <1>32, GotoTyped, AnswerTyped, ConstantsOK DEF DropClaim, Labels, Replies, Procs,
           Requests
    <2>2. ClaimsTypeOK({Op}, Tokens)'
        BY <1>32, FreshIsFresh, ClaimTyped DEF DropClaim, GiveBack, claimVars, Reasons
    <2>3. mine' \in [Procs -> Tokens \cup {Nil}]
        BY <1>32 DEF TypeOK, DropClaim, GiveBack, Forget, Procs
    <2> QED
        BY <1>32, <2>1, <2>2, <2>3 DEF TypeOK, DropClaim, queue, square, worker, moving
<1>33. ASSUME NEW w \in Workers, ReturnClaim(w) PROVE TypeOK'
    <2>1. pc' \in [Procs -> Labels] /\ reply' \in [Requests -> Replies]
        BY <1>33, GotoTyped, AnswerTyped, ConstantsOK DEF ReturnClaim, Labels, Replies, Procs,
           Requests
    <2>2. ClaimsTypeOK({Op}, Tokens)'
        BY <1>33, FreshIsFresh, ClaimTyped DEF ReturnClaim, claimVars, Reasons
    <2>3. mine' \in [Procs -> Tokens \cup {Nil}]
        BY <1>33 DEF TypeOK, ReturnClaim, Forget, Procs
    <2> QED
        BY <1>33, <2>1, <2>2, <2>3 DEF TypeOK, ReturnClaim, queue, square, worker, moving
<1>34. ASSUME NEW p \in Procs, LandCancel(p) PROVE TypeOK'
    <2>1. pc' \in [Procs -> Labels] /\ reply' \in [Requests -> Replies]
        BY <1>34 DEF TypeOK, LandCancel
    <2>2. ClaimsTypeOK({Op}, Tokens)'
        BY <1>34, FreshIsFresh, ClaimTyped DEF LandCancel, claims, claimVars, Reasons
    <2>3. mine' \in [Procs -> Tokens \cup {Nil}]
        BY <1>34 DEF TypeOK, LandCancel, claims
    <2>4. call' \in [Procs -> CallStates]
        BY <1>34 DEF TypeOK, CallStates, LandCancel
    <2> QED
        BY <1>34, <2>1, <2>2, <2>3, <2>4 DEF TypeOK, LandCancel, queue, square, worker, moving
<1>35. ASSUME NEW p \in Procs, RefuseCancel(p) PROVE TypeOK'
    <2>1. pc' \in [Procs -> Labels] /\ reply' \in [Requests -> Replies]
        BY <1>35 DEF TypeOK, RefuseCancel
    <2>2. ClaimsTypeOK({Op}, Tokens)'
        BY <1>35, FreshIsFresh, ClaimTyped DEF RefuseCancel, claims, claimVars, Reasons
    <2>3. mine' \in [Procs -> Tokens \cup {Nil}]
        BY <1>35 DEF TypeOK, RefuseCancel, claims
    <2>4. call' \in [Procs -> CallStates]
        BY <1>35 DEF TypeOK, CallStates, RefuseCancel
    <2> QED
        BY <1>35, <2>1, <2>2, <2>3, <2>4 DEF TypeOK, RefuseCancel, queue, square, worker, moving
<1>36. ASSUME NEW p \in Procs, Crash(p) PROVE TypeOK'
    <2>1. pc' \in [Procs -> Labels] /\ reply' \in [Requests -> Replies]
        BY <1>36, GotoTyped, AnswerTyped, ConstantsOK DEF Crash, Labels, Replies, Procs,
           Requests
    <2>2. ClaimsTypeOK({Op}, Tokens)'
        BY <1>36, FreshIsFresh, ClaimTyped DEF Crash, claimVars, claimVars, Reasons
    <2>3. mine' \in [Procs -> Tokens \cup {Nil}]
        BY <1>36 DEF TypeOK, Crash, Forget
    <2>4. prev' \in [Workers -> Tokens \cup {Nil}] /\ crashes' \in 0..MaxCrashes
        BY <1>36, ConstantsOK DEF TypeOK, Crash
    <2> QED
        BY <1>36, <2>1, <2>2, <2>3, <2>4 DEF TypeOK, Crash, queue, square, worker, moving
<1>37. ASSUME MoveBegins PROVE TypeOK'
    <2>1. pc' \in [Procs -> Labels] /\ reply' \in [Requests -> Replies]
        BY <1>37 DEF TypeOK, MoveBegins, others
    <2>2. ClaimsTypeOK({Op}, Tokens)'
        BY <1>37, FreshIsFresh, ClaimTyped DEF MoveBegins, claimVars, Reasons
    <2>3. mine' \in [Procs -> Tokens \cup {Nil}]
        BY <1>37 DEF TypeOK, MoveBegins, others, others, Procs
    <2>4. moves' \in 0..MaxMoves
        BY <1>37, ConstantsOK DEF TypeOK, MoveBegins
    <2> QED
        BY <1>37, <2>1, <2>2, <2>3, <2>4 DEF TypeOK, MoveBegins, queue, square, worker, moving,
           others
<1>38. ASSUME MoveCancelsSource PROVE TypeOK'
    <2>1. pc' \in [Procs -> Labels] /\ reply' \in [Requests -> Replies]
        BY <1>38 DEF TypeOK, MoveCancelsSource, others
    <2>2. ClaimsTypeOK({Op}, Tokens)'
        BY <1>38, FreshIsFresh, ClaimTyped DEF MoveCancelsSource, claims, claimVars, Reasons
    <2>3. mine' \in [Procs -> Tokens \cup {Nil}]
        BY <1>38 DEF TypeOK, MoveCancelsSource, claims, others, Procs
    <2> QED
        BY <1>38, <2>1, <2>2, <2>3 DEF TypeOK, MoveCancelsSource, queue, square, worker, moving,
           others
<1>39. ASSUME MoveRecordsSource PROVE TypeOK'
    <2>1. pc' \in [Procs -> Labels] /\ reply' \in [Requests -> Replies]
        BY <1>39 DEF TypeOK, MoveRecordsSource, others
    <2>2. ClaimsTypeOK({Op}, Tokens)'
        BY <1>39, FreshIsFresh, ClaimTyped DEF MoveRecordsSource, claims, claimVars, Reasons
    <2>3. mine' \in [Procs -> Tokens \cup {Nil}]
        BY <1>39 DEF TypeOK, MoveRecordsSource, claims, others, Procs
    <2> QED
        BY <1>39, <2>1, <2>2, <2>3 DEF TypeOK, MoveRecordsSource, queue, square, worker, moving,
           others
<1>40. ASSUME MoveReleases PROVE TypeOK'
    <2>1. pc' \in [Procs -> Labels] /\ reply' \in [Requests -> Replies]
        BY <1>40 DEF TypeOK, MoveReleases, others
    <2>2. ClaimsTypeOK({Op}, Tokens)'
        BY <1>40, FreshIsFresh, ClaimTyped DEF MoveReleases, claimVars, Reasons
    <2>3. mine' \in [Procs -> Tokens \cup {Nil}]
        BY <1>40 DEF TypeOK, MoveReleases, others, others, Procs
    <2> QED
        BY <1>40, <2>1, <2>2, <2>3 DEF TypeOK, MoveReleases, queue, square, worker, moving,
           others
<1>41. ASSUME AgeClaim PROVE TypeOK'
    <2>1. pc' \in [Procs -> Labels] /\ reply' \in [Requests -> Replies]
        BY <1>41 DEF TypeOK, AgeClaim
    <2>2. ClaimsTypeOK({Op}, Tokens)'
        BY <1>41, FreshIsFresh, ClaimTyped DEF AgeClaim, claimVars, Reasons
    <2>3. mine' \in [Procs -> Tokens \cup {Nil}]
        BY <1>41 DEF TypeOK, AgeClaim, Procs
    <2> QED
        BY <1>41, <2>1, <2>2, <2>3 DEF TypeOK, AgeClaim, queue, square, worker, moving
<1> QED
    BY <1>1, <1>2, <1>3, <1>4, <1>5, <1>6, <1>7, <1>8, <1>9, <1>10, <1>11, <1>12, <1>13, <1>14,
       <1>15, <1>16, <1>17, <1>18, <1>19, <1>20, <1>21, <1>22, <1>23, <1>24, <1>25, <1>26,
       <1>27, <1>28, <1>29, <1>30, <1>31, <1>32, <1>33, <1>34, <1>35, <1>36, <1>37, <1>38,
       <1>39, <1>40, <1>41 DEF Next, CancelAtProvider, Caller, Refund, HandleEvent, Reconcile,
       Reschedule, Environment

-----------------------------------------------------------------------------
(* The queue: an event that waits has tries left, and is one that was enqueued *)

LEMMA QueueShape ==
    Typed => /\ pc \in [Procs -> Labels] /\ intent \in [Refunds -> {"none", "pending", "done", "failed"}]
             /\ attempts \in [Refunds -> 0..MAX_ATTEMPTS] /\ tries \in [Workers -> 0..MAX_ATTEMPTS]
             /\ job \in [Workers -> Refunds \cup {Nil}] /\ QueueOK
BY DEF Typed, TypeOK

\* A step of a process that has not finished, and leaves the queue alone.
LEMMA QueueAside ==
    ASSUME Typed, NEW p \in Procs, pc[p] \notin {"done", "crashed"},
           UNCHANGED <<intent, attempts, job>>, \A q \in Procs \ {p} : pc'[q] = pc[q]
    PROVE  QueueOK'
BY DEF Typed, QueueOK, Procs, Requests

\* A worker finishes a try of its event: the event is done, failed or still waiting.
LEMMA QueueSettles ==
    ASSUME Typed, NEW w \in Workers, \A q \in Procs \ {w} : pc'[q] = pc[q], UNCHANGED job,
           \A r \in Refunds : r # job[w] => intent'[r] = intent[r] /\ attempts'[r] = attempts[r],
           job[w] # Nil => \/ intent'[job[w]] \in {"done", "failed"}
                          \/ /\ intent'[job[w]] = intent[job[w]]
                             /\ attempts'[job[w]] < MAX_ATTEMPTS
    PROVE  QueueOK'
<1>1. job[w] # Nil => intent[job[w]] # "none" /\ intent'[job[w]] # "none"
    BY DEF Typed, QueueOK
<1>2. \A r \in Refunds : /\ r \in Procs \ {w}
                         /\ intent'[r] = "none" => intent[r] = "none" /\ attempts'[r] = 0
                         /\ intent'[r] = "pending" => attempts'[r] < MAX_ATTEMPTS
                         /\ intent[r] = "none" => intent'[r] = "none"
                         /\ intent'[r] = "none" => r # job[w]
    <2> TAKE r \in Refunds
    <2>1. r \in Procs \ {w}
        BY ConstantsOK DEF Procs, Requests
    <2>2. CASE r = job[w]
        BY <1>1, <2>1, <2>2, NilOK
    <2>3. CASE r # job[w]
        BY <2>1, <2>3 DEF Typed, QueueOK
    <2> QED BY <2>2, <2>3
<1>3. \A r \in Refunds : pc'[r] \notin {"done", "crashed"} => intent'[r] = "none"
    <2> TAKE r \in Refunds
    <2>1. pc'[r] = pc[r] /\ (intent[r] = "none" => intent'[r] = "none")
        BY <1>2
    <2> QED BY <2>1 DEF Typed, QueueOK
<1>4. \A v \in Workers : job'[v] # Nil => intent'[job'[v]] # "none"
    <2> TAKE v \in Workers
    <2>1. job'[v] = job[v] /\ job[v] \in Refunds \cup {Nil}
        BY DEF Typed, TypeOK
    <2> QED BY <1>1, <1>2, <2>1 DEF Typed, QueueOK
<1>5. \A r \in Refunds : /\ intent'[r] = "none" => attempts'[r] = 0
                         /\ intent'[r] = "pending" => attempts'[r] < MAX_ATTEMPTS
    BY <1>2
<1> QED BY <1>3, <1>4, <1>5 DEF QueueOK

LEMMA QueueStep == ASSUME Typed, Next PROVE QueueOK'
<1>1. ASSUME NEW c \in Callers, BeginCancel(c) PROVE QueueOK'
    BY <1>1, QueueAside, QueueShape DEF BeginCancel, queue, worker, At, Goto, Answer, Procs,
       Requests
<1>2. ASSUME NEW c \in Callers, RereadCancel(c) PROVE QueueOK'
    BY <1>2, QueueAside, QueueShape DEF RereadCancel, queue, worker, At, Goto, Answer, Procs,
       Requests
<1>3. ASSUME NEW c \in Callers, ClaimRef(c) PROVE QueueOK'
    BY <1>3, QueueAside, QueueShape DEF ClaimRef, queue, worker, At, Goto, Answer, Procs,
       Requests
<1>4. ASSUME NEW r \in Refunds, BeginRefund(r) PROVE QueueOK'
    BY <1>4, QueueAside, QueueShape DEF BeginRefund, queue, worker, At, Goto, Answer, Procs,
       Requests
<1>5. ASSUME NEW r \in Refunds, MarkRefunded(r) PROVE QueueOK'
    BY <1>5, QueueAside, QueueShape DEF MarkRefunded, queue, worker, At, Goto, Answer, Procs,
       Requests
<1>6. ASSUME NEW r \in Refunds, LoadAppointment(r) PROVE QueueOK'
    BY <1>6, QueueAside, QueueShape DEF LoadAppointment, queue, worker, At, Goto, Answer, Procs,
       Requests
<1>7. ASSUME NEW r \in Refunds, WhoOwns(r) PROVE QueueOK'
    BY <1>7, QueueAside, QueueShape DEF WhoOwns, queue, worker, At, Goto, Answer, Procs,
       Requests
<1>8. ASSUME NEW r \in Refunds, Enqueue(r) PROVE QueueOK'
    BY <1>8, QueueShape, ConstantsOK DEF QueueOK, Enqueue, queue, worker, At, Goto, Answer,
       Procs, Requests
<1>9. ASSUME NEW r \in Refunds, RefundRaises(r) PROVE QueueOK'
    BY <1>9, QueueAside, QueueShape DEF RefundRaises, queue, worker, At, Goto, Answer, Procs,
       Requests
<1>10. ASSUME NEW w \in Workers, TakeEvent(w) PROVE QueueOK'
    BY <1>10, QueueShape, ConstantsOK DEF QueueOK, TakeEvent, queue, worker, At, Goto, Answer,
       Procs, Requests
<1>11. ASSUME NEW w \in Workers, CheckRow(w) PROVE QueueOK'
    BY <1>11, QueueAside, QueueShape DEF CheckRow, queue, worker, At, Goto, Answer, Procs
<1>12. ASSUME NEW w \in Workers, RereadEvent(w) PROVE QueueOK'
    BY <1>12, QueueAside, QueueShape DEF RereadEvent, queue, worker, At, Goto, Answer, Procs
<1>13. ASSUME NEW w \in Workers, MarkDone(w) PROVE QueueOK'
    <2>1. \A q \in Procs \ {w} : pc'[q] = pc[q]
        BY <1>13, QueueShape DEF MarkDone, Goto
    <2>2. UNCHANGED job /\ \A r \in Refunds : r # job[w] => intent'[r] = intent[r] /\ attempts'[r] = attempts[r]
        BY <1>13, QueueShape DEF MarkDone, worker
    <2>3. job[w] # Nil => \/ intent'[job[w]] \in {"done", "failed"}
                          \/ /\ intent'[job[w]] = intent[job[w]]
                             /\ attempts'[job[w]] < MAX_ATTEMPTS
        BY <1>13, QueueShape, ConstantsOK DEF MarkDone
    <2> QED BY <2>1, <2>2, <2>3, QueueSettles
<1>14. ASSUME NEW w \in Workers, MarkRetryOrFailed(w) PROVE QueueOK'
    <2>1. \A q \in Procs \ {w} : pc'[q] = pc[q]
        BY <1>14, QueueShape DEF MarkRetryOrFailed, Goto
    <2>2. UNCHANGED job /\ \A r \in Refunds : r # job[w] => intent'[r] = intent[r] /\ attempts'[r] = attempts[r]
        BY <1>14, QueueShape DEF MarkRetryOrFailed, worker
    <2>3. job[w] # Nil => \/ intent'[job[w]] \in {"done", "failed"}
                          \/ /\ intent'[job[w]] = intent[job[w]]
                             /\ attempts'[job[w]] < MAX_ATTEMPTS
        BY <1>14, QueueShape, ConstantsOK DEF MarkRetryOrFailed
    <2> QED BY <2>1, <2>2, <2>3, QueueSettles
<1>15. ASSUME NEW w \in Workers, HandleRaises(w) PROVE QueueOK'
    BY <1>15, QueueAside, QueueShape DEF HandleRaises, queue, worker, At, Goto, Answer, Procs
<1>16. ASSUME NEW p \in Procs, Own(p) PROVE QueueOK'
    BY <1>16, QueueAside, QueueShape DEF Own, queue, worker, At, Goto, Answer, Busy, End
<1>17. ASSUME NEW p \in Procs, OwnRaises(p) PROVE QueueOK'
    BY <1>17, QueueAside, QueueShape DEF OwnRaises, queue, worker, At, Goto, Answer, End
<1>18. ASSUME NEW p \in Procs, VerifyBooking(p) PROVE QueueOK'
    BY <1>18, QueueAside, QueueShape DEF VerifyBooking, queue, worker, At, Goto, Answer
<1>19. ASSUME NEW p \in Procs, SendCancel(p) PROVE QueueOK'
    BY <1>19, QueueAside, QueueShape DEF SendCancel, queue, worker, At, Goto, Answer
<1>20. ASSUME NEW p \in Procs, CancelAnswered(p) PROVE QueueOK'
    BY <1>20, QueueAside, QueueShape DEF CancelAnswered, queue, worker, At, Goto, Answer
<1>21. ASSUME NEW p \in Procs, CancelUnknown(p) PROVE QueueOK'
    BY <1>21, QueueAside, QueueShape DEF CancelUnknown, queue, worker, At, Goto, Answer, End
<1>22. ASSUME NEW p \in Procs, CancelRefused(p) PROVE QueueOK'
    BY <1>22, QueueAside, QueueShape DEF CancelRefused, queue, worker, At, Goto, Answer, End
<1>23. ASSUME NEW p \in Procs, WriteCancelled(p) PROVE QueueOK'
    BY <1>23, QueueAside, QueueShape DEF WriteCancelled, queue, worker, At, Goto, Answer
<1>24. ASSUME NEW p \in Procs, ReleaseCancelled(p) PROVE QueueOK'
    BY <1>24, QueueAside, QueueShape DEF ReleaseCancelled, queue, worker, At, Goto, Answer, End
<1>25. ASSUME NEW p \in Procs, WriteRaises(p) PROVE QueueOK'
    BY <1>25, QueueAside, QueueShape DEF WriteRaises, queue, worker, At, Goto, Answer
<1>26. ASSUME NEW p \in Procs, HandOverUnwritten(p) PROVE QueueOK'
    BY <1>26, QueueAside, QueueShape DEF HandOverUnwritten, queue, worker, At, Goto, Answer, End
<1>27. ASSUME NEW w \in Workers, ListReconcile(w) PROVE QueueOK'
    BY <1>27, QueueAside, QueueShape DEF ListReconcile, queue, worker, At, Goto, Answer, Procs
<1>28. ASSUME NEW w \in Workers, TakeOverClaim(w) PROVE QueueOK'
    BY <1>28, QueueAside, QueueShape DEF TakeOverClaim, queue, worker, At, Goto, Answer, Procs
<1>29. ASSUME NEW w \in Workers, ReadBooking(w) PROVE QueueOK'
    BY <1>29, QueueAside, QueueShape DEF ReadBooking, queue, worker, At, Goto, Answer, Procs
<1>30. ASSUME NEW w \in Workers, ReconcileFails(w) PROVE QueueOK'
    BY <1>30, QueueAside, QueueShape DEF ReconcileFails, queue, worker, At, Goto, Answer, Procs
<1>31. ASSUME NEW w \in Workers, RecordCancelled(w) PROVE QueueOK'
    BY <1>31, QueueAside, QueueShape DEF RecordCancelled, queue, worker, At, Goto, Answer, Procs
<1>32. ASSUME NEW w \in Workers, DropClaim(w) PROVE QueueOK'
    BY <1>32, QueueAside, QueueShape DEF DropClaim, queue, worker, At, Goto, Answer, Procs
<1>33. ASSUME NEW w \in Workers, ReturnClaim(w) PROVE QueueOK'
    BY <1>33, QueueAside, QueueShape DEF ReturnClaim, queue, worker, At, Goto, Answer, Procs
<1>34. ASSUME NEW p \in Procs, LandCancel(p) PROVE QueueOK'
    BY <1>34, QueueShape, ConstantsOK DEF QueueOK, LandCancel, queue, worker
<1>35. ASSUME NEW p \in Procs, RefuseCancel(p) PROVE QueueOK'
    BY <1>35, QueueShape, ConstantsOK DEF QueueOK, RefuseCancel, queue, worker
<1>36. ASSUME NEW p \in Procs, Crash(p) PROVE QueueOK'
    BY <1>36, QueueAside, QueueShape DEF Crash, queue, worker, At, Goto, Answer, Resting
<1>37. ASSUME MoveBegins PROVE QueueOK'
    BY <1>37, QueueShape, ConstantsOK DEF QueueOK, MoveBegins, queue, worker, others
<1>38. ASSUME MoveCancelsSource PROVE QueueOK'
    BY <1>38, QueueShape, ConstantsOK DEF QueueOK, MoveCancelsSource, queue, worker, others
<1>39. ASSUME MoveRecordsSource PROVE QueueOK'
    BY <1>39, QueueShape, ConstantsOK DEF QueueOK, MoveRecordsSource, queue, worker, others
<1>40. ASSUME MoveReleases PROVE QueueOK'
    BY <1>40, QueueShape, ConstantsOK DEF QueueOK, MoveReleases, queue, worker, others
<1>41. ASSUME AgeClaim PROVE QueueOK'
    BY <1>41, QueueShape, ConstantsOK DEF QueueOK, AgeClaim, queue, worker
<1> QED
    BY <1>1, <1>2, <1>3, <1>4, <1>5, <1>6, <1>7, <1>8, <1>9, <1>10, <1>11, <1>12, <1>13, <1>14,
       <1>15, <1>16, <1>17, <1>18, <1>19, <1>20, <1>21, <1>22, <1>23, <1>24, <1>25, <1>26,
       <1>27, <1>28, <1>29, <1>30, <1>31, <1>32, <1>33, <1>34, <1>35, <1>36, <1>37, <1>38,
       <1>39, <1>40, <1>41 DEF Next, CancelAtProvider, Caller, Refund, HandleEvent, Reconcile,
       Reschedule, Environment

-----------------------------------------------------------------------------
(* A booking that is gone is gone for good *)

LEMMA TruthShape ==
    Typed => /\ pc \in [Procs -> Labels] /\ reply \in [Requests -> Replies] /\ call \in [Procs -> CallStates]
             /\ row \in BOOLEAN /\ booking \in BOOLEAN
BY DEF Typed, TypeOK

LEMMA TruthStep == ASSUME Typed, Truth, Next PROVE Truth'
<1>1. ASSUME NEW c \in Callers, BeginCancel(c) PROVE Truth'
    BY <1>1, TruthShape, ConstantsOK DEF Truth, MoveTruth, ProcTruth, RequestTruth, CallerTruth,
       SeenGone, square, moving, BeginCancel, At, Goto, Answer, Procs, Requests
<1>2. ASSUME NEW c \in Callers, RereadCancel(c) PROVE Truth'
    BY <1>2, TruthShape, ConstantsOK DEF Truth, MoveTruth, ProcTruth, RequestTruth, CallerTruth,
       SeenGone, square, moving, RereadCancel, At, Goto, Answer, Procs, Requests
<1>3. ASSUME NEW c \in Callers, ClaimRef(c) PROVE Truth'
    BY <1>3, TruthShape, ConstantsOK DEF Truth, MoveTruth, ProcTruth, RequestTruth, CallerTruth,
       SeenGone, square, moving, ClaimRef, At, Goto, Answer, Procs, Requests
<1>4. ASSUME NEW r \in Refunds, BeginRefund(r) PROVE Truth'
    BY <1>4, TruthShape, ConstantsOK DEF Truth, MoveTruth, ProcTruth, RequestTruth, CallerTruth,
       SeenGone, square, moving, BeginRefund, At, Goto, Answer, Procs, Requests
<1>5. ASSUME NEW r \in Refunds, MarkRefunded(r) PROVE Truth'
    BY <1>5, TruthShape, ConstantsOK DEF Truth, MoveTruth, ProcTruth, RequestTruth, CallerTruth,
       SeenGone, square, moving, MarkRefunded, At, Goto, Answer, Procs, Requests
<1>6. ASSUME NEW r \in Refunds, LoadAppointment(r) PROVE Truth'
    BY <1>6, TruthShape, ConstantsOK DEF Truth, MoveTruth, ProcTruth, RequestTruth, CallerTruth,
       SeenGone, square, moving, LoadAppointment, At, Goto, Answer, Procs, Requests
<1>7. ASSUME NEW r \in Refunds, WhoOwns(r) PROVE Truth'
    BY <1>7, TruthShape, ConstantsOK DEF Truth, MoveTruth, ProcTruth, RequestTruth, CallerTruth,
       SeenGone, square, moving, WhoOwns, At, Goto, Answer, Procs, Requests
<1>8. ASSUME NEW r \in Refunds, Enqueue(r) PROVE Truth'
    BY <1>8, TruthShape, ConstantsOK DEF Truth, MoveTruth, ProcTruth, RequestTruth, CallerTruth,
       SeenGone, square, moving, Enqueue, At, Goto, Answer, Procs, Requests
<1>9. ASSUME NEW r \in Refunds, RefundRaises(r) PROVE Truth'
    BY <1>9, TruthShape, ConstantsOK DEF Truth, MoveTruth, ProcTruth, RequestTruth, CallerTruth,
       SeenGone, square, moving, RefundRaises, At, Goto, Answer, Procs, Requests
<1>10. ASSUME NEW w \in Workers, TakeEvent(w) PROVE Truth'
    BY <1>10, TruthShape, ConstantsOK DEF Truth, MoveTruth, ProcTruth, RequestTruth,
       CallerTruth, SeenGone, square, moving, TakeEvent, At, Goto, Answer, Procs, Requests
<1>11. ASSUME NEW w \in Workers, CheckRow(w) PROVE Truth'
    BY <1>11, TruthShape, ConstantsOK DEF Truth, MoveTruth, ProcTruth, RequestTruth,
       CallerTruth, SeenGone, square, moving, CheckRow, At, Goto, Answer, Procs, Requests
<1>12. ASSUME NEW w \in Workers, RereadEvent(w) PROVE Truth'
    BY <1>12, TruthShape, ConstantsOK DEF Truth, MoveTruth, ProcTruth, RequestTruth,
       CallerTruth, SeenGone, square, moving, RereadEvent, At, Goto, Answer, Procs, Requests
<1>13. ASSUME NEW w \in Workers, MarkDone(w) PROVE Truth'
    BY <1>13, TruthShape, ConstantsOK DEF Truth, MoveTruth, ProcTruth, RequestTruth,
       CallerTruth, SeenGone, square, moving, MarkDone, At, Goto, Answer, Procs, Requests
<1>14. ASSUME NEW w \in Workers, MarkRetryOrFailed(w) PROVE Truth'
    BY <1>14, TruthShape, ConstantsOK DEF Truth, MoveTruth, ProcTruth, RequestTruth,
       CallerTruth, SeenGone, square, moving, MarkRetryOrFailed, At, Goto, Answer, Procs,
       Requests
<1>15. ASSUME NEW w \in Workers, HandleRaises(w) PROVE Truth'
    BY <1>15, TruthShape, ConstantsOK DEF Truth, MoveTruth, ProcTruth, RequestTruth,
       CallerTruth, SeenGone, square, moving, HandleRaises, At, Goto, Answer, Procs, Requests
<1>16. ASSUME NEW p \in Procs, Own(p) PROVE Truth'
    BY <1>16, TruthShape, ConstantsOK DEF Truth, MoveTruth, ProcTruth, RequestTruth,
       CallerTruth, SeenGone, square, moving, Own, At, Goto, Answer, Busy, End, Procs, Requests
<1>17. ASSUME NEW p \in Procs, OwnRaises(p) PROVE Truth'
    BY <1>17, TruthShape, ConstantsOK DEF Truth, MoveTruth, ProcTruth, RequestTruth,
       CallerTruth, SeenGone, square, moving, OwnRaises, At, Goto, Answer, End, Procs, Requests
<1>18. ASSUME NEW p \in Procs, VerifyBooking(p) PROVE Truth'
    BY <1>18, TruthShape, ConstantsOK DEF Truth, MoveTruth, ProcTruth, RequestTruth,
       CallerTruth, SeenGone, square, moving, VerifyBooking, At, Goto, Answer, Procs, Requests
<1>19. ASSUME NEW p \in Procs, SendCancel(p) PROVE Truth'
    BY <1>19, TruthShape, ConstantsOK DEF Truth, MoveTruth, ProcTruth, RequestTruth,
       CallerTruth, SeenGone, square, moving, SendCancel, At, Goto, Answer, Procs, Requests
<1>20. ASSUME NEW p \in Procs, CancelAnswered(p) PROVE Truth'
    BY <1>20, TruthShape, ConstantsOK DEF Truth, MoveTruth, ProcTruth, RequestTruth,
       CallerTruth, SeenGone, square, moving, CancelAnswered, At, Goto, Answer, Procs, Requests
<1>21. ASSUME NEW p \in Procs, CancelUnknown(p) PROVE Truth'
    BY <1>21, TruthShape, ConstantsOK DEF Truth, MoveTruth, ProcTruth, RequestTruth,
       CallerTruth, SeenGone, square, moving, CancelUnknown, At, Goto, Answer, End, Procs,
       Requests
<1>22. ASSUME NEW p \in Procs, CancelRefused(p) PROVE Truth'
    BY <1>22, TruthShape, ConstantsOK DEF Truth, MoveTruth, ProcTruth, RequestTruth,
       CallerTruth, SeenGone, square, moving, CancelRefused, At, Goto, Answer, End, Procs,
       Requests
<1>23. ASSUME NEW p \in Procs, WriteCancelled(p) PROVE Truth'
    BY <1>23, TruthShape, ConstantsOK DEF Truth, MoveTruth, ProcTruth, RequestTruth,
       CallerTruth, SeenGone, square, moving, WriteCancelled, At, Goto, Answer, Procs, Requests
<1>24. ASSUME NEW p \in Procs, ReleaseCancelled(p) PROVE Truth'
    BY <1>24, TruthShape, ConstantsOK DEF Truth, MoveTruth, ProcTruth, RequestTruth,
       CallerTruth, SeenGone, square, moving, ReleaseCancelled, At, Goto, Answer, End, Procs,
       Requests
<1>25. ASSUME NEW p \in Procs, WriteRaises(p) PROVE Truth'
    <2>1. pc' = [pc EXCEPT ![p] = "unwritten"] /\ UNCHANGED <<booking, call, reply, move>>
        BY <1>25 DEF WriteRaises, At, Goto, square, moving
    <2>2. pc[p] \in SeenGone
        BY <1>25 DEF WriteRaises, At, SeenGone
    <2>3. ~booking /\ ~booking'
        BY <2>1, <2>2 DEF Truth, ProcTruth
    <2>4. ~row => ~row'
        <3>1. row' = row \/ row' = FALSE
            BY <1>25 DEF WriteRaises
        <3> QED BY <3>1
    <2>5. \A q \in Procs : ProcTruth(q)'
        BY <2>1, <2>3, <2>4, TruthShape DEF Truth, ProcTruth
    <2>6. \A c \in Callers : CallerTruth(c)'
        BY <2>1, TruthShape DEF Truth, CallerTruth, Procs, Requests
    <2>7. \A q \in Requests : RequestTruth(q)'
        <3>1. p \in Requests => reply[p] = "none"
            BY <2>2 DEF Truth, RequestTruth, SeenGone
        <3> QED BY <2>1, <2>3, <3>1, TruthShape DEF Truth, RequestTruth, Procs
    <2> QED
        BY <2>1, <2>3, <2>4, <2>5, <2>6, <2>7 DEF Truth, MoveTruth
<1>26. ASSUME NEW p \in Procs, HandOverUnwritten(p) PROVE Truth'
    BY <1>26, TruthShape, ConstantsOK DEF Truth, MoveTruth, ProcTruth, RequestTruth,
       CallerTruth, SeenGone, square, moving, HandOverUnwritten, At, Goto, Answer, End, Procs,
       Requests
<1>27. ASSUME NEW w \in Workers, ListReconcile(w) PROVE Truth'
    BY <1>27, TruthShape, ConstantsOK DEF Truth, MoveTruth, ProcTruth, RequestTruth,
       CallerTruth, SeenGone, square, moving, ListReconcile, At, Goto, Answer, Procs, Requests
<1>28. ASSUME NEW w \in Workers, TakeOverClaim(w) PROVE Truth'
    BY <1>28, TruthShape, ConstantsOK DEF Truth, MoveTruth, ProcTruth, RequestTruth,
       CallerTruth, SeenGone, square, moving, TakeOverClaim, At, Goto, Answer, Procs, Requests
<1>29. ASSUME NEW w \in Workers, ReadBooking(w) PROVE Truth'
    BY <1>29, TruthShape, ConstantsOK DEF Truth, MoveTruth, ProcTruth, RequestTruth,
       CallerTruth, SeenGone, square, moving, ReadBooking, At, Goto, Answer, Procs, Requests
<1>30. ASSUME NEW w \in Workers, ReconcileFails(w) PROVE Truth'
    BY <1>30, TruthShape, ConstantsOK DEF Truth, MoveTruth, ProcTruth, RequestTruth,
       CallerTruth, SeenGone, square, moving, ReconcileFails, At, Goto, Answer, Procs, Requests
<1>31. ASSUME NEW w \in Workers, RecordCancelled(w) PROVE Truth'
    BY <1>31, TruthShape, ConstantsOK DEF Truth, MoveTruth, ProcTruth, RequestTruth,
       CallerTruth, SeenGone, square, moving, RecordCancelled, At, Goto, Answer, Procs, Requests
<1>32. ASSUME NEW w \in Workers, DropClaim(w) PROVE Truth'
    BY <1>32, TruthShape, ConstantsOK DEF Truth, MoveTruth, ProcTruth, RequestTruth,
       CallerTruth, SeenGone, square, moving, DropClaim, At, Goto, Answer, Procs, Requests
<1>33. ASSUME NEW w \in Workers, ReturnClaim(w) PROVE Truth'
    BY <1>33, TruthShape, ConstantsOK DEF Truth, MoveTruth, ProcTruth, RequestTruth,
       CallerTruth, SeenGone, square, moving, ReturnClaim, At, Goto, Answer, Procs, Requests
<1>34. ASSUME NEW p \in Procs, LandCancel(p) PROVE Truth'
    BY <1>34, TruthShape, ConstantsOK DEF Truth, MoveTruth, ProcTruth, RequestTruth,
       CallerTruth, SeenGone, square, moving, LandCancel, Procs, Requests
<1>35. ASSUME NEW p \in Procs, RefuseCancel(p) PROVE Truth'
    BY <1>35, TruthShape, ConstantsOK DEF Truth, MoveTruth, ProcTruth, RequestTruth,
       CallerTruth, SeenGone, square, moving, RefuseCancel, Procs, Requests
<1>36. ASSUME NEW p \in Procs, Crash(p) PROVE Truth'
    BY <1>36, TruthShape, ConstantsOK DEF Truth, MoveTruth, ProcTruth, RequestTruth,
       CallerTruth, SeenGone, square, moving, Crash, At, Goto, Answer, Resting, Procs, Requests
<1>37. ASSUME MoveBegins PROVE Truth'
    BY <1>37, TruthShape, ConstantsOK DEF Truth, MoveTruth, ProcTruth, RequestTruth,
       CallerTruth, SeenGone, square, moving, MoveBegins, others, Procs, Requests
<1>38. ASSUME MoveCancelsSource PROVE Truth'
    BY <1>38, TruthShape, ConstantsOK DEF Truth, MoveTruth, ProcTruth, RequestTruth,
       CallerTruth, SeenGone, square, moving, MoveCancelsSource, others, Procs, Requests
<1>39. ASSUME MoveRecordsSource PROVE Truth'
    BY <1>39, TruthShape, ConstantsOK DEF Truth, MoveTruth, ProcTruth, RequestTruth,
       CallerTruth, SeenGone, square, moving, MoveRecordsSource, others, Procs, Requests
<1>40. ASSUME MoveReleases PROVE Truth'
    BY <1>40, TruthShape, ConstantsOK DEF Truth, MoveTruth, ProcTruth, RequestTruth,
       CallerTruth, SeenGone, square, moving, MoveReleases, others, Procs, Requests
<1>41. ASSUME AgeClaim PROVE Truth'
    BY <1>41, TruthShape, ConstantsOK DEF Truth, MoveTruth, ProcTruth, RequestTruth,
       CallerTruth, SeenGone, square, moving, AgeClaim, Procs, Requests
<1> QED
    BY <1>1, <1>2, <1>3, <1>4, <1>5, <1>6, <1>7, <1>8, <1>9, <1>10, <1>11, <1>12, <1>13, <1>14,
       <1>15, <1>16, <1>17, <1>18, <1>19, <1>20, <1>21, <1>22, <1>23, <1>24, <1>25, <1>26,
       <1>27, <1>28, <1>29, <1>30, <1>31, <1>32, <1>33, <1>34, <1>35, <1>36, <1>37, <1>38,
       <1>39, <1>40, <1>41 DEF Next, CancelAtProvider, Caller, Refund, HandleEvent, Reconcile,
       Reschedule, Environment

-----------------------------------------------------------------------------
(* Who holds the claim *)

LEMMA OwnerShape ==
    Typed => /\ pc \in [Procs -> Labels] /\ mine \in [Procs -> Tokens \cup {Nil}] /\ Nil \notin Tokens
             /\ claim.token # Nil <=> ~Free
             /\ claim.type = "none" <=> Free
             /\ claim.type \in ClaimTypes \cup {"none"}
<1> SUFFICES ASSUME Typed
             PROVE  /\ pc \in [Procs -> Labels] /\ mine \in [Procs -> Tokens \cup {Nil}] /\ Nil \notin Tokens
                    /\ claim.token # Nil <=> ~Free
                    /\ claim.type = "none" <=> Free
                    /\ claim.type \in ClaimTypes \cup {"none"}
    OBVIOUS
<1>1. Nil \notin Tokens
    <2>1. Tokens \subseteq Nat
        BY ConstantsOK, FS_CardinalityType DEF Tokens
    <2> QED BY <2>1, NilOK
<1>2. claim \in ClaimRows({Op}, Tokens) \cup {NoClaim}
    BY DEF Typed, TypeOK, ClaimsTypeOK
<1>3. CASE claim = NoClaim
    BY <1>1, <1>3 DEF Free, NoClaim, ClaimTypes, Typed, TypeOK
<1>4. CASE claim \in ClaimRows({Op}, Tokens)
    BY <1>1, <1>4 DEF Free, NoClaim, ClaimRows, ClaimTypes, Typed, TypeOK
<1> QED BY <1>2, <1>3, <1>4

LEMMA OwnershipStep == ASSUME Typed, Ownership, Next PROVE Ownership'
<1>1. ASSUME NEW c \in Callers, BeginCancel(c) PROVE Ownership'
    BY <1>1, OwnerShape, ConstantsOK DEF Ownership, Owned, Holds, Owning, Settling, moving,
       BeginCancel, claims, claimVars, At, Goto, Answer, Procs, Requests
<1>2. ASSUME NEW c \in Callers, RereadCancel(c) PROVE Ownership'
    BY <1>2, OwnerShape, ConstantsOK DEF Ownership, Owned, Holds, Owning, Settling, moving,
       RereadCancel, claims, claimVars, GiveBack, Release, Delete, NoClaim, Forget, At, Goto,
       Answer, Procs, Requests
<1>3. ASSUME NEW c \in Callers, ClaimRef(c) PROVE Ownership'
    BY <1>3, OwnerShape, ConstantsOK DEF Ownership, Owned, Holds, Owning, Settling, moving,
       ClaimRef, claims, claimVars, GiveBack, Release, Delete, NoClaim, Forget, At, Goto,
       Answer, Procs, Requests
<1>4. ASSUME NEW r \in Refunds, BeginRefund(r) PROVE Ownership'
    BY <1>4, OwnerShape, ConstantsOK DEF Ownership, Owned, Holds, Owning, Settling, moving,
       BeginRefund, claims, claimVars, At, Goto, Answer, Procs, Requests
<1>5. ASSUME NEW r \in Refunds, MarkRefunded(r) PROVE Ownership'
    BY <1>5, OwnerShape, ConstantsOK DEF Ownership, Owned, Holds, Owning, Settling, moving,
       MarkRefunded, claims, claimVars, At, Goto, Answer, Procs, Requests
<1>6. ASSUME NEW r \in Refunds, LoadAppointment(r) PROVE Ownership'
    BY <1>6, OwnerShape, ConstantsOK DEF Ownership, Owned, Holds, Owning, Settling, moving,
       LoadAppointment, claims, claimVars, At, Goto, Answer, Procs, Requests
<1>7. ASSUME NEW r \in Refunds, WhoOwns(r) PROVE Ownership'
    BY <1>7, OwnerShape, ConstantsOK DEF Ownership, Owned, Holds, Owning, Settling, moving,
       WhoOwns, claims, claimVars, At, Goto, Answer, Procs, Requests
<1>8. ASSUME NEW r \in Refunds, Enqueue(r) PROVE Ownership'
    BY <1>8, OwnerShape, ConstantsOK DEF Ownership, Owned, Holds, Owning, Settling, moving,
       Enqueue, claims, claimVars, At, Goto, Answer, Procs, Requests
<1>9. ASSUME NEW r \in Refunds, RefundRaises(r) PROVE Ownership'
    BY <1>9, OwnerShape, ConstantsOK DEF Ownership, Owned, Holds, Owning, Settling, moving,
       RefundRaises, GiveBack, Release, Delete, NoClaim, Forget, At, Goto, Answer, Procs,
       Requests
<1>10. ASSUME NEW w \in Workers, TakeEvent(w) PROVE Ownership'
    BY <1>10, OwnerShape, ConstantsOK DEF Ownership, Owned, Holds, Owning, Settling, moving,
       TakeEvent, claims, claimVars, At, Goto, Answer, Procs, Requests
<1>11. ASSUME NEW w \in Workers, CheckRow(w) PROVE Ownership'
    BY <1>11, OwnerShape, ConstantsOK DEF Ownership, Owned, Holds, Owning, Settling, moving,
       CheckRow, claims, claimVars, At, Goto, Answer, Procs, Requests
<1>12. ASSUME NEW w \in Workers, RereadEvent(w) PROVE Ownership'
    BY <1>12, OwnerShape, ConstantsOK DEF Ownership, Owned, Holds, Owning, Settling, moving,
       RereadEvent, claims, claimVars, GiveBack, Release, Delete, NoClaim, Forget, At, Goto,
       Answer, Procs, Requests
<1>13. ASSUME NEW w \in Workers, MarkDone(w) PROVE Ownership'
    BY <1>13, OwnerShape, ConstantsOK DEF Ownership, Owned, Holds, Owning, Settling, moving,
       MarkDone, claims, claimVars, At, Goto, Answer, Procs, Requests
<1>14. ASSUME NEW w \in Workers, MarkRetryOrFailed(w) PROVE Ownership'
    BY <1>14, OwnerShape, ConstantsOK DEF Ownership, Owned, Holds, Owning, Settling, moving,
       MarkRetryOrFailed, claims, claimVars, At, Goto, Answer, Procs, Requests
<1>15. ASSUME NEW w \in Workers, HandleRaises(w) PROVE Ownership'
    BY <1>15, OwnerShape, ConstantsOK DEF Ownership, Owned, Holds, Owning, Settling, moving,
       HandleRaises, Forget, claimVars, At, Goto, Answer, Procs, Requests
<1>16. ASSUME NEW p \in Procs, Own(p) PROVE Ownership'
    BY <1>16, OwnerShape, FreshIsFresh, ConstantsOK DEF Typed, Ownership, Owned, Holds, Owning,
       Settling, moving, Own, claims, claimVars, AcquireCancel, Insert, ClaimRow, At, Goto,
       Answer, Busy, End, Procs, Requests
<1>17. ASSUME NEW p \in Procs, OwnRaises(p) PROVE Ownership'
    BY <1>17, OwnerShape, FreshIsFresh, ConstantsOK DEF Typed, Ownership, Owned, Holds, Owning,
       Settling, moving, OwnRaises, claims, claimVars, AcquireCancel, Insert, ClaimRow, At,
       Goto, Answer, End, Procs, Requests
<1>18. ASSUME NEW p \in Procs, VerifyBooking(p) PROVE Ownership'
    BY <1>18, OwnerShape, ConstantsOK DEF Ownership, Owned, Holds, Owning, Settling, moving,
       VerifyBooking, claims, claimVars, At, Goto, Answer, Procs, Requests
<1>19. ASSUME NEW p \in Procs, SendCancel(p) PROVE Ownership'
    BY <1>19, OwnerShape, ConstantsOK DEF Ownership, Owned, Holds, Owning, Settling, moving,
       SendCancel, claims, claimVars, At, Goto, Answer, Procs, Requests
<1>20. ASSUME NEW p \in Procs, CancelAnswered(p) PROVE Ownership'
    BY <1>20, OwnerShape, ConstantsOK DEF Ownership, Owned, Holds, Owning, Settling, moving,
       CancelAnswered, claims, claimVars, At, Goto, Answer, Procs, Requests
<1>21. ASSUME NEW p \in Procs, CancelUnknown(p) PROVE Ownership'
    BY <1>21, OwnerShape, ConstantsOK DEF Ownership, Owned, Holds, Owning, Settling, moving,
       CancelUnknown, HandOver, ToReconcile, Owns, ClaimRow, claimVars, Forget, At, Goto,
       Answer, End, Procs, Requests
<1>22. ASSUME NEW p \in Procs, CancelRefused(p) PROVE Ownership'
    BY <1>22, OwnerShape, ConstantsOK DEF Ownership, Owned, Holds, Owning, Settling, moving,
       CancelRefused, GiveBack, Release, Delete, NoClaim, Forget, At, Goto, Answer, End, Procs,
       Requests
<1>23. ASSUME NEW p \in Procs, WriteCancelled(p) PROVE Ownership'
    BY <1>23, OwnerShape, ConstantsOK DEF Ownership, Owned, Holds, Owning, Settling, moving,
       WriteCancelled, claims, claimVars, At, Goto, Answer, Procs, Requests
<1>24. ASSUME NEW p \in Procs, ReleaseCancelled(p) PROVE Ownership'
    BY <1>24, OwnerShape, ConstantsOK DEF Ownership, Owned, Holds, Owning, Settling, moving,
       ReleaseCancelled, GiveBack, Release, Delete, NoClaim, Forget, At, Goto, Answer, End,
       Procs, Requests
<1>25. ASSUME NEW p \in Procs, WriteRaises(p) PROVE Ownership'
    BY <1>25, OwnerShape, ConstantsOK DEF Ownership, Owned, Holds, Owning, Settling, moving,
       WriteRaises, claims, claimVars, At, Goto, Answer, Procs, Requests
<1>26. ASSUME NEW p \in Procs, HandOverUnwritten(p) PROVE Ownership'
    BY <1>26, OwnerShape, ConstantsOK DEF Ownership, Owned, Holds, Owning, Settling, moving,
       HandOverUnwritten, HandOver, ToReconcile, Owns, ClaimRow, claimVars, Forget, At, Goto,
       Answer, End, Procs, Requests
<1>27. ASSUME NEW w \in Workers, ListReconcile(w) PROVE Ownership'
    BY <1>27, OwnerShape, ConstantsOK DEF Ownership, Owned, Holds, Owning, Settling, moving,
       ListReconcile, claims, claimVars, At, Goto, Answer, Procs, Requests
<1>28. ASSUME NEW w \in Workers, TakeOverClaim(w) PROVE Ownership'
    <2>1. pc[w] = "takeover" /\ UNCHANGED move /\ w \in Procs
        BY <1>28 DEF TakeOverClaim, At, moving, Procs
    <2>2. CASE claim' = claim /\ mine' = mine /\ Goto(w, "idle")
        BY <2>1, <2>2, OwnerShape DEF Goto, Ownership, Owned, Holds, Owning, Settling
    <2>3. CASE TakeOverReconcile(prev[w], Fresh) /\ mine' = [mine EXCEPT ![w] = Fresh] /\ Goto(w, "settle")
        <3>1. claim.type = "cancel_reconcile" /\ claim'.type = claim.type /\ claim'.token = Fresh
            BY <2>3, OwnerShape DEF TakeOverReconcile, TakeOver, Owns, Typed, TypeOK, ClaimsTypeOK,
               ClaimRows, NoClaim
        <3>2. \A q \in Procs : Holds(q)' <=> q = w
            BY <2>1, <2>3, <3>1, FreshIsFresh, OwnerShape DEF Typed, Holds
        <3>3. \A q \in Procs : pc'[q] \notin Owning
            BY <2>1, <2>3, <3>1, OwnerShape DEF Goto, Ownership, Owned, Owning
        <3>4. pc'[w] \in Settling
            BY <2>1, <2>3, OwnerShape DEF Goto, Settling
        <3> QED BY <2>1, <3>1, <3>2, <3>3, <3>4 DEF Ownership, Owned
    <2> QED BY <1>28, <2>2, <2>3 DEF TakeOverClaim, claims, claimVars
<1>29. ASSUME NEW w \in Workers, ReadBooking(w) PROVE Ownership'
    BY <1>29, OwnerShape, ConstantsOK DEF Ownership, Owned, Holds, Owning, Settling, moving,
       ReadBooking, Forget, claimVars, At, Goto, Answer, Procs, Requests
<1>30. ASSUME NEW w \in Workers, ReconcileFails(w) PROVE Ownership'
    BY <1>30, OwnerShape, ConstantsOK DEF Ownership, Owned, Holds, Owning, Settling, moving,
       ReconcileFails, Forget, claimVars, At, Goto, Answer, Procs, Requests
<1>31. ASSUME NEW w \in Workers, RecordCancelled(w) PROVE Ownership'
    BY <1>31, OwnerShape, ConstantsOK DEF Ownership, Owned, Holds, Owning, Settling, moving,
       RecordCancelled, claims, claimVars, At, Goto, Answer, Procs, Requests
<1>32. ASSUME NEW w \in Workers, DropClaim(w) PROVE Ownership'
    <2>1. pc' = [pc EXCEPT ![w] = "idle"] /\ mine' = [mine EXCEPT ![w] = Nil] /\ pc[w] = "drop"
          /\ UNCHANGED move /\ w \in Procs
        BY <1>32 DEF DropClaim, GiveBack, Forget, Goto, At, moving, Procs
    <2>2. CASE Holds(w)
        <3>1. claim' = NoClaim /\ claim.type = "cancel_reconcile"
            BY <1>32, <2>1, <2>2 DEF DropClaim, GiveBack, Release, Delete, Ownership, Owned, Holds, Owning
        <3>2. \A q \in Procs : ~Holds(q)' /\ pc'[q] \notin Owning
            BY <2>1, <2>2, <3>1, OwnerShape DEF Ownership, Owned, Holds, Owning, NoClaim
        <3> QED BY <2>1, <3>1, <3>2 DEF Ownership, Owned, NoClaim
    <2>3. CASE ~Holds(w)
        <3>1. claim' = claim
            BY <1>32, <2>3, OwnerShape DEF DropClaim, GiveBack, Release, Delete, Holds, claimVars, Free
        <3> QED BY <2>1, <3>1, OwnerShape DEF Ownership, Owned, Holds, Owning, Settling
    <2> QED BY <2>2, <2>3
<1>33. ASSUME NEW w \in Workers, ReturnClaim(w) PROVE Ownership'
    BY <1>33, OwnerShape, FreshIsFresh, ConstantsOK DEF Typed, Ownership, Owned, Holds, Owning,
       Settling, moving, ReturnClaim, ReturnToCancel, Owns, ClaimRow, claimVars, Forget, At,
       Goto, Answer, Procs, Requests
<1>34. ASSUME NEW p \in Procs, LandCancel(p) PROVE Ownership'
    BY <1>34, OwnerShape, ConstantsOK DEF Ownership, Owned, Holds, Owning, Settling, moving,
       LandCancel, claims, claimVars, Procs, Requests
<1>35. ASSUME NEW p \in Procs, RefuseCancel(p) PROVE Ownership'
    BY <1>35, OwnerShape, ConstantsOK DEF Ownership, Owned, Holds, Owning, Settling, moving,
       RefuseCancel, claims, claimVars, Procs, Requests
<1>36. ASSUME NEW p \in Procs, Crash(p) PROVE Ownership'
    BY <1>36, OwnerShape, ConstantsOK DEF Ownership, Owned, Holds, Owning, Settling, moving,
       Crash, Forget, claimVars, At, Goto, Answer, Resting, Procs, Requests
<1>37. ASSUME MoveBegins PROVE Ownership'
    BY <1>37, OwnerShape, FreshIsFresh, ConstantsOK DEF Typed, Ownership, Owned, Holds, Owning,
       Settling, moving, MoveBegins, others, AcquireReschedule, Insert, ClaimRow, Procs,
       Requests
<1>38. ASSUME MoveCancelsSource PROVE Ownership'
    BY <1>38, OwnerShape, ConstantsOK DEF Ownership, Owned, Holds, Owning, Settling, moving,
       MoveCancelsSource, claims, claimVars, others, Procs, Requests
<1>39. ASSUME MoveRecordsSource PROVE Ownership'
    BY <1>39, OwnerShape, ConstantsOK DEF Ownership, Owned, Holds, Owning, Settling, moving,
       MoveRecordsSource, claims, claimVars, others, Procs, Requests
<1>40. ASSUME MoveReleases PROVE Ownership'
    BY <1>40, OwnerShape, ConstantsOK DEF Ownership, Owned, Holds, Owning, Settling, moving,
       MoveReleases, others, Release, Delete, NoClaim, Procs, Requests
<1>41. ASSUME AgeClaim PROVE Ownership'
    BY <1>41, OwnerShape, ConstantsOK DEF Ownership, Owned, Holds, Owning, Settling, moving,
       AgeClaim, ClaimAges, Free, Procs, Requests
<1> QED
    BY <1>1, <1>2, <1>3, <1>4, <1>5, <1>6, <1>7, <1>8, <1>9, <1>10, <1>11, <1>12, <1>13, <1>14,
       <1>15, <1>16, <1>17, <1>18, <1>19, <1>20, <1>21, <1>22, <1>23, <1>24, <1>25, <1>26,
       <1>27, <1>28, <1>29, <1>30, <1>31, <1>32, <1>33, <1>34, <1>35, <1>36, <1>37, <1>38,
       <1>39, <1>40, <1>41 DEF Next, CancelAtProvider, Caller, Refund, HandleEvent, Reconcile,
       Reschedule, Environment

-----------------------------------------------------------------------------
(* What is unsettled stays so until the row says cancelled *)

LEMMA UnsettledStep ==
    ASSUME Typed, Truth, Ownership, Next
    PROVE  (~row => ~row') /\ (Unsettled => Unsettled' \/ ~row)
<1>1. ASSUME NEW c \in Callers, BeginCancel(c) PROVE (~row => ~row') /\ (Unsettled => Unsettled' \/ ~row)
    BY <1>1, OwnerShape DEF Ownership, Owned, Holds, Owning, Unsettled, Procs, Requests,
       BeginCancel, claims, claimVars, At
<1>2. ASSUME NEW c \in Callers, RereadCancel(c) PROVE (~row => ~row') /\ (Unsettled => Unsettled' \/ ~row)
    BY <1>2, OwnerShape DEF Ownership, Owned, Holds, Owning, Unsettled, Procs, Requests,
       RereadCancel, claims, claimVars, GiveBack, Release, Delete, NoClaim, Forget, At
<1>3. ASSUME NEW c \in Callers, ClaimRef(c) PROVE (~row => ~row') /\ (Unsettled => Unsettled' \/ ~row)
    BY <1>3, OwnerShape DEF Ownership, Owned, Holds, Owning, Unsettled, Procs, Requests,
       ClaimRef, claims, claimVars, GiveBack, Release, Delete, NoClaim, Forget, At
<1>4. ASSUME NEW r \in Refunds, BeginRefund(r) PROVE (~row => ~row') /\ (Unsettled => Unsettled' \/ ~row)
    BY <1>4, OwnerShape DEF Ownership, Owned, Holds, Owning, Unsettled, Procs, Requests,
       BeginRefund, claims, claimVars, At
<1>5. ASSUME NEW r \in Refunds, MarkRefunded(r) PROVE (~row => ~row') /\ (Unsettled => Unsettled' \/ ~row)
    BY <1>5, OwnerShape DEF Ownership, Owned, Holds, Owning, Unsettled, Procs, Requests,
       MarkRefunded, claims, claimVars, At
<1>6. ASSUME NEW r \in Refunds, LoadAppointment(r) PROVE (~row => ~row') /\ (Unsettled => Unsettled' \/ ~row)
    BY <1>6, OwnerShape DEF Ownership, Owned, Holds, Owning, Unsettled, Procs, Requests,
       LoadAppointment, claims, claimVars, At
<1>7. ASSUME NEW r \in Refunds, WhoOwns(r) PROVE (~row => ~row') /\ (Unsettled => Unsettled' \/ ~row)
    BY <1>7, OwnerShape DEF Ownership, Owned, Holds, Owning, Unsettled, Procs, Requests,
       WhoOwns, claims, claimVars, At
<1>8. ASSUME NEW r \in Refunds, Enqueue(r) PROVE (~row => ~row') /\ (Unsettled => Unsettled' \/ ~row)
    BY <1>8, OwnerShape DEF Ownership, Owned, Holds, Owning, Unsettled, Procs, Requests,
       Enqueue, claims, claimVars, At
<1>9. ASSUME NEW r \in Refunds, RefundRaises(r) PROVE (~row => ~row') /\ (Unsettled => Unsettled' \/ ~row)
    BY <1>9, OwnerShape DEF Ownership, Owned, Holds, Owning, Unsettled, Procs, Requests,
       RefundRaises, GiveBack, Release, Delete, NoClaim, Forget, At
<1>10. ASSUME NEW w \in Workers, TakeEvent(w) PROVE (~row => ~row') /\ (Unsettled => Unsettled' \/ ~row)
    BY <1>10, OwnerShape DEF Ownership, Owned, Holds, Owning, Unsettled, Procs, TakeEvent,
       claims, claimVars, At
<1>11. ASSUME NEW w \in Workers, CheckRow(w) PROVE (~row => ~row') /\ (Unsettled => Unsettled' \/ ~row)
    BY <1>11, OwnerShape DEF Ownership, Owned, Holds, Owning, Unsettled, Procs, CheckRow,
       claims, claimVars, At
<1>12. ASSUME NEW w \in Workers, RereadEvent(w) PROVE (~row => ~row') /\ (Unsettled => Unsettled' \/ ~row)
    BY <1>12, OwnerShape DEF Ownership, Owned, Holds, Owning, Unsettled, Procs, RereadEvent,
       claims, claimVars, GiveBack, Release, Delete, NoClaim, Forget, At
<1>13. ASSUME NEW w \in Workers, MarkDone(w) PROVE (~row => ~row') /\ (Unsettled => Unsettled' \/ ~row)
    BY <1>13, OwnerShape DEF Ownership, Owned, Holds, Owning, Unsettled, Procs, MarkDone,
       claims, claimVars, At
<1>14. ASSUME NEW w \in Workers, MarkRetryOrFailed(w) PROVE (~row => ~row') /\ (Unsettled => Unsettled' \/ ~row)
    BY <1>14, OwnerShape DEF Ownership, Owned, Holds, Owning, Unsettled, Procs,
       MarkRetryOrFailed, claims, claimVars, At
<1>15. ASSUME NEW w \in Workers, HandleRaises(w) PROVE (~row => ~row') /\ (Unsettled => Unsettled' \/ ~row)
    BY <1>15, OwnerShape DEF Ownership, Owned, Holds, Owning, Unsettled, Procs, HandleRaises,
       Forget, claimVars, At
<1>16. ASSUME NEW p \in Procs, Own(p) PROVE (~row => ~row') /\ (Unsettled => Unsettled' \/ ~row)
    BY <1>16, OwnerShape, FreshIsFresh DEF Typed, Ownership, Owned, Holds, Owning, Unsettled,
       Own, claims, claimVars, AcquireCancel, Insert, ClaimRow, Free, NoClaim, At
<1>17. ASSUME NEW p \in Procs, OwnRaises(p) PROVE (~row => ~row') /\ (Unsettled => Unsettled' \/ ~row)
    BY <1>17, OwnerShape, FreshIsFresh DEF Typed, Ownership, Owned, Holds, Owning, Unsettled,
       OwnRaises, claims, claimVars, AcquireCancel, Insert, ClaimRow, Free, NoClaim, At
<1>18. ASSUME NEW p \in Procs, VerifyBooking(p) PROVE (~row => ~row') /\ (Unsettled => Unsettled' \/ ~row)
    BY <1>18, OwnerShape DEF Ownership, Owned, Holds, Owning, Unsettled, VerifyBooking, claims,
       claimVars, At
<1>19. ASSUME NEW p \in Procs, SendCancel(p) PROVE (~row => ~row') /\ (Unsettled => Unsettled' \/ ~row)
    BY <1>19, OwnerShape DEF Ownership, Owned, Holds, Owning, Unsettled, SendCancel, claims,
       claimVars, At
<1>20. ASSUME NEW p \in Procs, CancelAnswered(p) PROVE (~row => ~row') /\ (Unsettled => Unsettled' \/ ~row)
    BY <1>20, OwnerShape DEF Ownership, Owned, Holds, Owning, Unsettled, CancelAnswered, claims,
       claimVars, At
<1>21. ASSUME NEW p \in Procs, CancelUnknown(p) PROVE (~row => ~row') /\ (Unsettled => Unsettled' \/ ~row)
    BY <1>21, OwnerShape DEF Ownership, Owned, Holds, Owning, Unsettled, CancelUnknown,
       HandOver, ToReconcile, Owns, ClaimRow, claimVars, Forget, At
<1>22. ASSUME NEW p \in Procs, CancelRefused(p) PROVE (~row => ~row') /\ (Unsettled => Unsettled' \/ ~row)
    BY <1>22, OwnerShape DEF Ownership, Owned, Holds, Owning, Unsettled, CancelRefused,
       GiveBack, Release, Delete, NoClaim, Forget, At
<1>23. ASSUME NEW p \in Procs, WriteCancelled(p) PROVE (~row => ~row') /\ (Unsettled => Unsettled' \/ ~row)
    BY <1>23, OwnerShape DEF Ownership, Owned, Holds, Owning, Unsettled, WriteCancelled, claims,
       claimVars, At
<1>24. ASSUME NEW p \in Procs, ReleaseCancelled(p) PROVE (~row => ~row') /\ (Unsettled => Unsettled' \/ ~row)
    BY <1>24, OwnerShape DEF Ownership, Owned, Holds, Owning, Unsettled, ReleaseCancelled,
       GiveBack, Release, Delete, NoClaim, Forget, At
<1>25. ASSUME NEW p \in Procs, WriteRaises(p) PROVE (~row => ~row') /\ (Unsettled => Unsettled' \/ ~row)
    <2>1. row' = row \/ row' = FALSE
        BY <1>25 DEF WriteRaises
    <2>2. UNCHANGED <<claim, mine>>
        BY <1>25 DEF WriteRaises, claims, claimVars
    <2>3. Unsettled => Unsettled'
        BY <2>2 DEF Unsettled, Holds
    <2> QED BY <2>1, <2>3
<1>26. ASSUME NEW p \in Procs, HandOverUnwritten(p) PROVE (~row => ~row') /\ (Unsettled => Unsettled' \/ ~row)
    BY <1>26, OwnerShape DEF Ownership, Owned, Holds, Owning, Unsettled, HandOverUnwritten,
       HandOver, ToReconcile, Owns, ClaimRow, claimVars, Forget, At
<1>27. ASSUME NEW w \in Workers, ListReconcile(w) PROVE (~row => ~row') /\ (Unsettled => Unsettled' \/ ~row)
    BY <1>27, OwnerShape DEF Ownership, Owned, Holds, Owning, Unsettled, Procs, ListReconcile,
       claims, claimVars, At
<1>28. ASSUME NEW w \in Workers, TakeOverClaim(w) PROVE (~row => ~row') /\ (Unsettled => Unsettled' \/ ~row)
    <2>1. row' = row
        BY <1>28 DEF TakeOverClaim
    <2>2. CASE UNCHANGED claims
        BY <2>1, <2>2 DEF claims, claimVars, Unsettled, Holds
    <2>3. CASE TakeOverReconcile(prev[w], Fresh)
        <3>1. claim'.type = "cancel_reconcile"
            BY <2>3, OwnerShape DEF TakeOverReconcile, TakeOver, Owns, Typed, TypeOK, ClaimsTypeOK,
               ClaimRows, NoClaim
        <3> QED BY <2>1, <3>1 DEF Unsettled
    <2> QED BY <1>28, <2>2, <2>3 DEF TakeOverClaim
<1>29. ASSUME NEW w \in Workers, ReadBooking(w) PROVE (~row => ~row') /\ (Unsettled => Unsettled' \/ ~row)
    BY <1>29, OwnerShape DEF Ownership, Owned, Holds, Owning, Unsettled, Procs, ReadBooking,
       Forget, claimVars, At
<1>30. ASSUME NEW w \in Workers, ReconcileFails(w) PROVE (~row => ~row') /\ (Unsettled => Unsettled' \/ ~row)
    BY <1>30, OwnerShape DEF Ownership, Owned, Holds, Owning, Unsettled, Procs, ReconcileFails,
       Forget, claimVars, At
<1>31. ASSUME NEW w \in Workers, RecordCancelled(w) PROVE (~row => ~row') /\ (Unsettled => Unsettled' \/ ~row)
    BY <1>31, OwnerShape DEF Ownership, Owned, Holds, Owning, Unsettled, Procs, RecordCancelled,
       claims, claimVars, At
<1>32. ASSUME NEW w \in Workers, DropClaim(w) PROVE (~row => ~row') /\ (Unsettled => Unsettled' \/ ~row)
    BY <1>32, OwnerShape DEF Truth, ProcTruth, Ownership, Owned, Holds, Owning, Unsettled,
       Procs, DropClaim, GiveBack, Release, Delete, NoClaim, Forget, At
<1>33. ASSUME NEW w \in Workers, ReturnClaim(w) PROVE (~row => ~row') /\ (Unsettled => Unsettled' \/ ~row)
    BY <1>33, OwnerShape, FreshIsFresh DEF Typed, Ownership, Owned, Holds, Owning, Unsettled,
       Procs, ReturnClaim, ReturnToCancel, Owns, ClaimRow, claimVars, Forget, At
<1>34. ASSUME NEW p \in Procs, LandCancel(p) PROVE (~row => ~row') /\ (Unsettled => Unsettled' \/ ~row)
    BY <1>34, OwnerShape DEF Ownership, Owned, Holds, Owning, Unsettled, LandCancel, claims,
       claimVars
<1>35. ASSUME NEW p \in Procs, RefuseCancel(p) PROVE (~row => ~row') /\ (Unsettled => Unsettled' \/ ~row)
    BY <1>35, OwnerShape DEF Ownership, Owned, Holds, Owning, Unsettled, RefuseCancel, claims,
       claimVars
<1>36. ASSUME NEW p \in Procs, Crash(p) PROVE (~row => ~row') /\ (Unsettled => Unsettled' \/ ~row)
    BY <1>36, OwnerShape DEF Ownership, Owned, Holds, Owning, Unsettled, Crash, Forget,
       claimVars, At
<1>37. ASSUME MoveBegins PROVE (~row => ~row') /\ (Unsettled => Unsettled' \/ ~row)
    BY <1>37, OwnerShape, FreshIsFresh DEF Typed, Ownership, Owned, Holds, Owning, Unsettled,
       Procs, MoveBegins, others, AcquireReschedule, Insert, ClaimRow, Free, NoClaim
<1>38. ASSUME MoveCancelsSource PROVE (~row => ~row') /\ (Unsettled => Unsettled' \/ ~row)
    BY <1>38, OwnerShape DEF Ownership, Owned, Holds, Owning, Unsettled, Procs,
       MoveCancelsSource, claims, claimVars, others
<1>39. ASSUME MoveRecordsSource PROVE (~row => ~row') /\ (Unsettled => Unsettled' \/ ~row)
    BY <1>39, OwnerShape DEF Ownership, Owned, Holds, Owning, Unsettled, Procs,
       MoveRecordsSource, claims, claimVars, others
<1>40. ASSUME MoveReleases PROVE (~row => ~row') /\ (Unsettled => Unsettled' \/ ~row)
    BY <1>40, OwnerShape DEF Ownership, Owned, Holds, Owning, Unsettled, Procs, MoveReleases,
       others, Release, Delete, NoClaim
<1>41. ASSUME AgeClaim PROVE (~row => ~row') /\ (Unsettled => Unsettled' \/ ~row)
    BY <1>41, OwnerShape DEF Ownership, Owned, Holds, Owning, Unsettled, Procs, AgeClaim,
       ClaimAges, Free
<1> QED
    BY <1>1, <1>2, <1>3, <1>4, <1>5, <1>6, <1>7, <1>8, <1>9, <1>10, <1>11, <1>12, <1>13, <1>14,
       <1>15, <1>16, <1>17, <1>18, <1>19, <1>20, <1>21, <1>22, <1>23, <1>24, <1>25, <1>26,
       <1>27, <1>28, <1>29, <1>30, <1>31, <1>32, <1>33, <1>34, <1>35, <1>36, <1>37, <1>38,
       <1>39, <1>40, <1>41 DEF Next, CancelAtProvider, Caller, Refund, HandleEvent, Reconcile,
       Reschedule, Environment

-----------------------------------------------------------------------------
(* A queued intent is finished only when its appointment is settled, or owned *)

\* A process in one of the steps that own does own, and nobody else does.
LEMMA OwnerHolds ==
    ASSUME Typed, Ownership, NEW p \in Procs, pc[p] \in Owning
    PROVE  /\ Holds(p) /\ claim.type = "cancel" /\ move = "none" /\ ~Unsettled
           /\ \A q \in Procs : pc[q] \in Owning => q = p
BY DEF Ownership, Owned, Unsettled

\* Handing the claim over leaves it to the reconciler.
LEMMA HandedOver ==
    ASSUME Typed, Ownership, NEW p \in Procs, pc[p] \in Owning, NEW reason, ToReconcile(mine[p], reason)
    PROVE  Unsettled'
<1>1. Owns("cancel", mine[p])
    BY OwnerHolds DEF Holds, Owns
<1>2. claim'.type = "cancel_reconcile"
    BY <1>1 DEF ToReconcile, ClaimRow
<1> QED BY <1>2 DEF Unsettled

\* An owner that stops leaves a claim nobody holds.
LEMMA LetGo ==
    ASSUME Typed, Ownership, NEW p \in Procs, pc[p] \in Owning, UNCHANGED claim, Forget(p)
    PROVE  Unsettled'
<1>1. claim.type = "cancel" /\ claim.token # Nil /\ \A q \in Procs \ {p} : mine[q] # claim.token
    BY OwnerHolds, OwnerShape DEF Holds, Ownership, Free
<1>2. \A q \in Procs : ~Holds(q)'
    BY <1>1, OwnerShape DEF Forget, Holds
<1> QED BY <1>1, <1>2 DEF Unsettled

LEMMA EventsShape ==
    Typed => /\ pc \in [Procs -> Labels] /\ intent \in [Refunds -> {"none", "pending", "done", "failed"}]
             /\ Workers \subseteq Procs /\ Callers \subseteq Procs /\ Refunds \subseteq Procs
BY DEF Typed, TypeOK, Procs, Requests

LEMMA EventsStep ==
    ASSUME Typed, Truth, Ownership, EventsKept, Next
    PROVE  EventsKept'
<1> DEFINE Over == ~row \/ Unsettled
<1>0. Over => Over'
    BY UnsettledStep
<1>a. (\A w \in Workers : pc[w] = "markdone" => Over) /\ (\A r \in Refunds : intent[r] = "done" => Over)
    BY DEF EventsKept
<1> SUFFICES /\ \A w \in Workers : pc'[w] = "markdone" => Over'
             /\ \A r \in Refunds : intent'[r] = "done" => Over'
    BY DEF EventsKept
<1> DEFINE Goal == /\ \A w \in Workers : pc'[w] = "markdone" => Over'
                   /\ \A r \in Refunds : intent'[r] = "done" => Over'
<1>1. ASSUME NEW c \in Callers, BeginCancel(c) PROVE Goal
    <2> HIDE DEF Over
    <2> QED
        BY <1>1, <1>0, <1>a, EventsShape, ConstantsOK DEF BeginCancel, queue, At, Goto, Answer,
           Procs, Requests
<1>2. ASSUME NEW c \in Callers, RereadCancel(c) PROVE Goal
    <2> HIDE DEF Over
    <2> QED
        BY <1>2, <1>0, <1>a, EventsShape, ConstantsOK DEF RereadCancel, queue, At, Goto, Answer,
           Procs, Requests
<1>3. ASSUME NEW c \in Callers, ClaimRef(c) PROVE Goal
    <2> HIDE DEF Over
    <2> QED
        BY <1>3, <1>0, <1>a, EventsShape, ConstantsOK DEF ClaimRef, queue, At, Goto, Answer,
           Procs, Requests
<1>4. ASSUME NEW r \in Refunds, BeginRefund(r) PROVE Goal
    <2> HIDE DEF Over
    <2> QED
        BY <1>4, <1>0, <1>a, EventsShape, ConstantsOK DEF BeginRefund, queue, At, Goto, Answer,
           Procs, Requests
<1>5. ASSUME NEW r \in Refunds, MarkRefunded(r) PROVE Goal
    <2> HIDE DEF Over
    <2> QED
        BY <1>5, <1>0, <1>a, EventsShape, ConstantsOK DEF MarkRefunded, queue, At, Goto, Answer,
           Procs, Requests
<1>6. ASSUME NEW r \in Refunds, LoadAppointment(r) PROVE Goal
    <2> HIDE DEF Over
    <2> QED
        BY <1>6, <1>0, <1>a, EventsShape, ConstantsOK DEF LoadAppointment, queue, At, Goto,
           Answer, Procs, Requests
<1>7. ASSUME NEW r \in Refunds, WhoOwns(r) PROVE Goal
    <2> HIDE DEF Over
    <2> QED
        BY <1>7, <1>0, <1>a, EventsShape, ConstantsOK DEF WhoOwns, queue, At, Goto, Answer,
           Procs, Requests
<1>8. ASSUME NEW r \in Refunds, Enqueue(r) PROVE Goal
    <2> HIDE DEF Over
    <2> QED
        BY <1>8, <1>0, <1>a, EventsShape, ConstantsOK DEF Enqueue, queue, At, Goto, Answer,
           Procs, Requests
<1>9. ASSUME NEW r \in Refunds, RefundRaises(r) PROVE Goal
    <2> HIDE DEF Over
    <2> QED
        BY <1>9, <1>0, <1>a, EventsShape, ConstantsOK DEF RefundRaises, queue, At, Goto, Answer,
           Procs, Requests
<1>10. ASSUME NEW w \in Workers, TakeEvent(w) PROVE Goal
    <2> HIDE DEF Over
    <2> QED
        BY <1>10, <1>0, <1>a, EventsShape, ConstantsOK DEF TakeEvent, queue, At, Goto, Answer,
           Procs, Requests
<1>11. ASSUME NEW w \in Workers, CheckRow(w) PROVE Goal
    <2>1. pc'[w] = "markdone" => Over'
        BY <1>11, <1>0, EventsShape DEF CheckRow, At, Goto
    <2> HIDE DEF Over
    <2> QED
        BY <1>11, <1>0, <1>a, <2>1, EventsShape DEF CheckRow, At, Goto, Answer, queue
<1>12. ASSUME NEW w \in Workers, RereadEvent(w) PROVE Goal
    <2>1. pc'[w] = "markdone" => Over'
        BY <1>12, <1>0, EventsShape DEF RereadEvent, At, Goto
    <2> HIDE DEF Over
    <2> QED
        BY <1>12, <1>0, <1>a, <2>1, EventsShape DEF RereadEvent, At, Goto, Answer, queue
<1>13. ASSUME NEW w \in Workers, MarkDone(w) PROVE Goal
    <2> HIDE DEF Over
    <2> QED
        BY <1>13, <1>0, <1>a, EventsShape, ConstantsOK DEF MarkDone, queue, At, Goto, Answer,
           Procs, Requests
<1>14. ASSUME NEW w \in Workers, MarkRetryOrFailed(w) PROVE Goal
    <2> HIDE DEF Over
    <2> QED
        BY <1>14, <1>0, <1>a, EventsShape, ConstantsOK DEF MarkRetryOrFailed, queue, At, Goto,
           Answer, Procs, Requests
<1>15. ASSUME NEW w \in Workers, HandleRaises(w) PROVE Goal
    <2> HIDE DEF Over
    <2> QED
        BY <1>15, <1>0, <1>a, EventsShape, ConstantsOK DEF HandleRaises, queue, At, Goto,
           Answer, Procs, Requests
<1>16. ASSUME NEW p \in Procs, Own(p) PROVE Goal
    <2> HIDE DEF Over
    <2> QED
        BY <1>16, <1>0, <1>a, EventsShape, ConstantsOK DEF Own, queue, At, Goto, Answer, Busy,
           End, Procs, Requests
<1>17. ASSUME NEW p \in Procs, OwnRaises(p) PROVE Goal
    <2> HIDE DEF Over
    <2> QED
        BY <1>17, <1>0, <1>a, EventsShape, ConstantsOK DEF OwnRaises, queue, At, Goto, Answer,
           End, Procs, Requests
<1>18. ASSUME NEW p \in Procs, VerifyBooking(p) PROVE Goal
    <2> HIDE DEF Over
    <2> QED
        BY <1>18, <1>0, <1>a, EventsShape, ConstantsOK DEF VerifyBooking, queue, At, Goto,
           Answer, Procs, Requests
<1>19. ASSUME NEW p \in Procs, SendCancel(p) PROVE Goal
    <2> HIDE DEF Over
    <2> QED
        BY <1>19, <1>0, <1>a, EventsShape, ConstantsOK DEF SendCancel, queue, At, Goto, Answer,
           Procs, Requests
<1>20. ASSUME NEW p \in Procs, CancelAnswered(p) PROVE Goal
    <2> HIDE DEF Over
    <2> QED
        BY <1>20, <1>0, <1>a, EventsShape, ConstantsOK DEF CancelAnswered, queue, At, Goto,
           Answer, Procs, Requests
<1>21. ASSUME NEW p \in Procs, CancelUnknown(p) PROVE Goal
    <2>1. Over'
        BY <1>21, HandedOver DEF CancelUnknown, HandOver, At, Owning
    <2> HIDE DEF Over
    <2> QED
        BY <1>21, <1>0, <1>a, <2>1, EventsShape DEF CancelUnknown, At, Goto, Answer, queue, End
<1>22. ASSUME NEW p \in Procs, CancelRefused(p) PROVE Goal
    <2> HIDE DEF Over
    <2> QED
        BY <1>22, <1>0, <1>a, EventsShape, ConstantsOK DEF CancelRefused, queue, At, Goto,
           Answer, End, Procs, Requests
<1>23. ASSUME NEW p \in Procs, WriteCancelled(p) PROVE Goal
    <2> HIDE DEF Over
    <2> QED
        BY <1>23, <1>0, <1>a, EventsShape, ConstantsOK DEF WriteCancelled, queue, At, Goto,
           Answer, Procs, Requests
<1>24. ASSUME NEW p \in Procs, ReleaseCancelled(p) PROVE Goal
    <2>1. Over'
        BY <1>24, <1>0 DEF ReleaseCancelled, At, Truth, ProcTruth
    <2> HIDE DEF Over
    <2> QED
        BY <1>24, <1>0, <1>a, <2>1, EventsShape DEF ReleaseCancelled, At, Goto, Answer, queue,
           End
<1>25. ASSUME NEW p \in Procs, WriteRaises(p) PROVE Goal
    <2> HIDE DEF Over
    <2> QED
        BY <1>25, <1>0, <1>a, EventsShape, ConstantsOK DEF WriteRaises, queue, At, Goto, Answer,
           Procs, Requests
<1>26. ASSUME NEW p \in Procs, HandOverUnwritten(p) PROVE Goal
    <2>1. Over'
        BY <1>26, HandedOver DEF HandOverUnwritten, HandOver, At, Owning
    <2> HIDE DEF Over
    <2> QED
        BY <1>26, <1>0, <1>a, <2>1, EventsShape DEF HandOverUnwritten, At, Goto, Answer, queue,
           End
<1>27. ASSUME NEW w \in Workers, ListReconcile(w) PROVE Goal
    <2> HIDE DEF Over
    <2> QED
        BY <1>27, <1>0, <1>a, EventsShape, ConstantsOK DEF ListReconcile, queue, At, Goto,
           Answer, Procs, Requests
<1>28. ASSUME NEW w \in Workers, TakeOverClaim(w) PROVE Goal
    <2> HIDE DEF Over
    <2> QED
        BY <1>28, <1>0, <1>a, EventsShape, ConstantsOK DEF TakeOverClaim, queue, At, Goto,
           Answer, Procs, Requests
<1>29. ASSUME NEW w \in Workers, ReadBooking(w) PROVE Goal
    <2> HIDE DEF Over
    <2> QED
        BY <1>29, <1>0, <1>a, EventsShape, ConstantsOK DEF ReadBooking, queue, At, Goto, Answer,
           Procs, Requests
<1>30. ASSUME NEW w \in Workers, ReconcileFails(w) PROVE Goal
    <2> HIDE DEF Over
    <2> QED
        BY <1>30, <1>0, <1>a, EventsShape, ConstantsOK DEF ReconcileFails, queue, At, Goto,
           Answer, Procs, Requests
<1>31. ASSUME NEW w \in Workers, RecordCancelled(w) PROVE Goal
    <2> HIDE DEF Over
    <2> QED
        BY <1>31, <1>0, <1>a, EventsShape, ConstantsOK DEF RecordCancelled, queue, At, Goto,
           Answer, Procs, Requests
<1>32. ASSUME NEW w \in Workers, DropClaim(w) PROVE Goal
    <2> HIDE DEF Over
    <2> QED
        BY <1>32, <1>0, <1>a, EventsShape, ConstantsOK DEF DropClaim, queue, At, Goto, Answer,
           Procs, Requests
<1>33. ASSUME NEW w \in Workers, ReturnClaim(w) PROVE Goal
    <2> HIDE DEF Over
    <2> QED
        BY <1>33, <1>0, <1>a, EventsShape, ConstantsOK DEF ReturnClaim, queue, At, Goto, Answer,
           Procs, Requests
<1>34. ASSUME NEW p \in Procs, LandCancel(p) PROVE Goal
    <2> HIDE DEF Over
    <2> QED
        BY <1>34, <1>0, <1>a, EventsShape, ConstantsOK DEF LandCancel, queue, Procs, Requests
<1>35. ASSUME NEW p \in Procs, RefuseCancel(p) PROVE Goal
    <2> HIDE DEF Over
    <2> QED
        BY <1>35, <1>0, <1>a, EventsShape, ConstantsOK DEF RefuseCancel, queue, Procs, Requests
<1>36. ASSUME NEW p \in Procs, Crash(p) PROVE Goal
    <2> HIDE DEF Over
    <2> QED
        BY <1>36, <1>0, <1>a, EventsShape, ConstantsOK DEF Crash, queue, At, Goto, Answer,
           Resting, Procs, Requests
<1>37. ASSUME MoveBegins PROVE Goal
    <2> HIDE DEF Over
    <2> QED
        BY <1>37, <1>0, <1>a, EventsShape, ConstantsOK DEF MoveBegins, queue, others, Procs,
           Requests
<1>38. ASSUME MoveCancelsSource PROVE Goal
    <2> HIDE DEF Over
    <2> QED
        BY <1>38, <1>0, <1>a, EventsShape, ConstantsOK DEF MoveCancelsSource, queue, others,
           Procs, Requests
<1>39. ASSUME MoveRecordsSource PROVE Goal
    <2> HIDE DEF Over
    <2> QED
        BY <1>39, <1>0, <1>a, EventsShape, ConstantsOK DEF MoveRecordsSource, queue, others,
           Procs, Requests
<1>40. ASSUME MoveReleases PROVE Goal
    <2> HIDE DEF Over
    <2> QED
        BY <1>40, <1>0, <1>a, EventsShape, ConstantsOK DEF MoveReleases, queue, others, Procs,
           Requests
<1>41. ASSUME AgeClaim PROVE Goal
    <2> HIDE DEF Over
    <2> QED
        BY <1>41, <1>0, <1>a, EventsShape, ConstantsOK DEF AgeClaim, queue, Procs, Requests
<1> QED
    BY <1>1, <1>2, <1>3, <1>4, <1>5, <1>6, <1>7, <1>8, <1>9, <1>10, <1>11, <1>12, <1>13, <1>14,
       <1>15, <1>16, <1>17, <1>18, <1>19, <1>20, <1>21, <1>22, <1>23, <1>24, <1>25, <1>26,
       <1>27, <1>28, <1>29, <1>30, <1>31, <1>32, <1>33, <1>34, <1>35, <1>36, <1>37, <1>38,
       <1>39, <1>40, <1>41 DEF Next, CancelAtProvider, Caller, Refund, HandleEvent, Reconcile,
       Reschedule, Environment

-----------------------------------------------------------------------------
(* A booking gone and not recorded has an owner who knows, or will ask *)

\* An answered request stays answered.
LEMMA AbandonedStays ==
    ASSUME Typed, Truth, Next
    PROVE  Abandoned => Abandoned'
<1>1. ASSUME NEW c \in Callers, BeginCancel(c) PROVE Abandoned => Abandoned'
    BY <1>1, TruthShape, ConstantsOK DEF Abandoned, BeginCancel, Truth, RequestTruth, At, Goto,
       Answer, Procs, Requests
<1>2. ASSUME NEW c \in Callers, RereadCancel(c) PROVE Abandoned => Abandoned'
    BY <1>2, TruthShape, ConstantsOK DEF Abandoned, RereadCancel, Truth, RequestTruth, At, Goto,
       Answer, Procs, Requests
<1>3. ASSUME NEW c \in Callers, ClaimRef(c) PROVE Abandoned => Abandoned'
    BY <1>3, TruthShape, ConstantsOK DEF Abandoned, ClaimRef, Truth, RequestTruth, At, Goto,
       Answer, Procs, Requests
<1>4. ASSUME NEW r \in Refunds, BeginRefund(r) PROVE Abandoned => Abandoned'
    BY <1>4, TruthShape, ConstantsOK DEF Abandoned, BeginRefund, Truth, RequestTruth, At, Goto,
       Answer, Procs, Requests
<1>5. ASSUME NEW r \in Refunds, MarkRefunded(r) PROVE Abandoned => Abandoned'
    BY <1>5, TruthShape, ConstantsOK DEF Abandoned, MarkRefunded, Truth, RequestTruth, At, Goto,
       Answer, Procs, Requests
<1>6. ASSUME NEW r \in Refunds, LoadAppointment(r) PROVE Abandoned => Abandoned'
    BY <1>6, TruthShape, ConstantsOK DEF Abandoned, LoadAppointment, Truth, RequestTruth, At,
       Goto, Answer, Procs, Requests
<1>7. ASSUME NEW r \in Refunds, WhoOwns(r) PROVE Abandoned => Abandoned'
    BY <1>7, TruthShape, ConstantsOK DEF Abandoned, WhoOwns, Truth, RequestTruth, At, Goto,
       Answer, Procs, Requests
<1>8. ASSUME NEW r \in Refunds, Enqueue(r) PROVE Abandoned => Abandoned'
    BY <1>8, TruthShape, ConstantsOK DEF Abandoned, Enqueue, Truth, RequestTruth, At, Goto,
       Answer, Procs, Requests
<1>9. ASSUME NEW r \in Refunds, RefundRaises(r) PROVE Abandoned => Abandoned'
    BY <1>9, TruthShape, ConstantsOK DEF Abandoned, RefundRaises, Truth, RequestTruth, At, Goto,
       Answer, Procs, Requests
<1>10. ASSUME NEW w \in Workers, TakeEvent(w) PROVE Abandoned => Abandoned'
    BY <1>10, TruthShape, ConstantsOK DEF Abandoned, TakeEvent, Truth, RequestTruth, At, Goto,
       Answer, Procs, Requests
<1>11. ASSUME NEW w \in Workers, CheckRow(w) PROVE Abandoned => Abandoned'
    BY <1>11, TruthShape, ConstantsOK DEF Abandoned, CheckRow, Truth, RequestTruth, At, Goto,
       Answer, Procs, Requests
<1>12. ASSUME NEW w \in Workers, RereadEvent(w) PROVE Abandoned => Abandoned'
    BY <1>12, TruthShape, ConstantsOK DEF Abandoned, RereadEvent, Truth, RequestTruth, At, Goto,
       Answer, Procs, Requests
<1>13. ASSUME NEW w \in Workers, MarkDone(w) PROVE Abandoned => Abandoned'
    BY <1>13, TruthShape, ConstantsOK DEF Abandoned, MarkDone, Truth, RequestTruth, At, Goto,
       Answer, Procs, Requests
<1>14. ASSUME NEW w \in Workers, MarkRetryOrFailed(w) PROVE Abandoned => Abandoned'
    BY <1>14, TruthShape, ConstantsOK DEF Abandoned, MarkRetryOrFailed, Truth, RequestTruth, At,
       Goto, Answer, Procs, Requests
<1>15. ASSUME NEW w \in Workers, HandleRaises(w) PROVE Abandoned => Abandoned'
    BY <1>15, TruthShape, ConstantsOK DEF Abandoned, HandleRaises, Truth, RequestTruth, At,
       Goto, Answer, Procs, Requests
<1>16. ASSUME NEW p \in Procs, Own(p) PROVE Abandoned => Abandoned'
    BY <1>16, TruthShape, ConstantsOK DEF Abandoned, Own, Truth, RequestTruth, At, Goto, Answer,
       Busy, End, Procs, Requests
<1>17. ASSUME NEW p \in Procs, OwnRaises(p) PROVE Abandoned => Abandoned'
    BY <1>17, TruthShape, ConstantsOK DEF Abandoned, OwnRaises, Truth, RequestTruth, At, Goto,
       Answer, End, Procs, Requests
<1>18. ASSUME NEW p \in Procs, VerifyBooking(p) PROVE Abandoned => Abandoned'
    BY <1>18, TruthShape, ConstantsOK DEF Abandoned, VerifyBooking, Truth, RequestTruth, At,
       Goto, Answer, Procs, Requests
<1>19. ASSUME NEW p \in Procs, SendCancel(p) PROVE Abandoned => Abandoned'
    BY <1>19, TruthShape, ConstantsOK DEF Abandoned, SendCancel, Truth, RequestTruth, At, Goto,
       Answer, Procs, Requests
<1>20. ASSUME NEW p \in Procs, CancelAnswered(p) PROVE Abandoned => Abandoned'
    BY <1>20, TruthShape, ConstantsOK DEF Abandoned, CancelAnswered, Truth, RequestTruth, At,
       Goto, Answer, Procs, Requests
<1>21. ASSUME NEW p \in Procs, CancelUnknown(p) PROVE Abandoned => Abandoned'
    BY <1>21, TruthShape, ConstantsOK DEF Abandoned, CancelUnknown, Truth, RequestTruth, At,
       Goto, Answer, End, Procs, Requests
<1>22. ASSUME NEW p \in Procs, CancelRefused(p) PROVE Abandoned => Abandoned'
    BY <1>22, TruthShape, ConstantsOK DEF Abandoned, CancelRefused, Truth, RequestTruth, At,
       Goto, Answer, End, Procs, Requests
<1>23. ASSUME NEW p \in Procs, WriteCancelled(p) PROVE Abandoned => Abandoned'
    BY <1>23, TruthShape, ConstantsOK DEF Abandoned, WriteCancelled, Truth, RequestTruth, At,
       Goto, Answer, Procs, Requests
<1>24. ASSUME NEW p \in Procs, ReleaseCancelled(p) PROVE Abandoned => Abandoned'
    BY <1>24, TruthShape, ConstantsOK DEF Abandoned, ReleaseCancelled, Truth, RequestTruth, At,
       Goto, Answer, End, Procs, Requests
<1>25. ASSUME NEW p \in Procs, WriteRaises(p) PROVE Abandoned => Abandoned'
    BY <1>25, TruthShape, ConstantsOK DEF Abandoned, WriteRaises, Truth, RequestTruth, At, Goto,
       Answer, Procs, Requests
<1>26. ASSUME NEW p \in Procs, HandOverUnwritten(p) PROVE Abandoned => Abandoned'
    BY <1>26, TruthShape, ConstantsOK DEF Abandoned, HandOverUnwritten, Truth, RequestTruth, At,
       Goto, Answer, End, Procs, Requests
<1>27. ASSUME NEW w \in Workers, ListReconcile(w) PROVE Abandoned => Abandoned'
    BY <1>27, TruthShape, ConstantsOK DEF Abandoned, ListReconcile, Truth, RequestTruth, At,
       Goto, Answer, Procs, Requests
<1>28. ASSUME NEW w \in Workers, TakeOverClaim(w) PROVE Abandoned => Abandoned'
    BY <1>28, TruthShape, ConstantsOK DEF Abandoned, TakeOverClaim, Truth, RequestTruth, At,
       Goto, Answer, Procs, Requests
<1>29. ASSUME NEW w \in Workers, ReadBooking(w) PROVE Abandoned => Abandoned'
    BY <1>29, TruthShape, ConstantsOK DEF Abandoned, ReadBooking, Truth, RequestTruth, At, Goto,
       Answer, Procs, Requests
<1>30. ASSUME NEW w \in Workers, ReconcileFails(w) PROVE Abandoned => Abandoned'
    BY <1>30, TruthShape, ConstantsOK DEF Abandoned, ReconcileFails, Truth, RequestTruth, At,
       Goto, Answer, Procs, Requests
<1>31. ASSUME NEW w \in Workers, RecordCancelled(w) PROVE Abandoned => Abandoned'
    BY <1>31, TruthShape, ConstantsOK DEF Abandoned, RecordCancelled, Truth, RequestTruth, At,
       Goto, Answer, Procs, Requests
<1>32. ASSUME NEW w \in Workers, DropClaim(w) PROVE Abandoned => Abandoned'
    BY <1>32, TruthShape, ConstantsOK DEF Abandoned, DropClaim, Truth, RequestTruth, At, Goto,
       Answer, Procs, Requests
<1>33. ASSUME NEW w \in Workers, ReturnClaim(w) PROVE Abandoned => Abandoned'
    BY <1>33, TruthShape, ConstantsOK DEF Abandoned, ReturnClaim, Truth, RequestTruth, At, Goto,
       Answer, Procs, Requests
<1>34. ASSUME NEW p \in Procs, LandCancel(p) PROVE Abandoned => Abandoned'
    BY <1>34, TruthShape, ConstantsOK DEF Abandoned, LandCancel, Procs, Requests
<1>35. ASSUME NEW p \in Procs, RefuseCancel(p) PROVE Abandoned => Abandoned'
    BY <1>35, TruthShape, ConstantsOK DEF Abandoned, RefuseCancel, Procs, Requests
<1>36. ASSUME NEW p \in Procs, Crash(p) PROVE Abandoned => Abandoned'
    BY <1>36, TruthShape, ConstantsOK DEF Abandoned, Crash, Truth, RequestTruth, At, Goto,
       Answer, Resting, Procs, Requests
<1>37. ASSUME MoveBegins PROVE Abandoned => Abandoned'
    BY <1>37, TruthShape, ConstantsOK DEF Abandoned, MoveBegins, others, Procs, Requests
<1>38. ASSUME MoveCancelsSource PROVE Abandoned => Abandoned'
    BY <1>38, TruthShape, ConstantsOK DEF Abandoned, MoveCancelsSource, others, Procs, Requests
<1>39. ASSUME MoveRecordsSource PROVE Abandoned => Abandoned'
    BY <1>39, TruthShape, ConstantsOK DEF Abandoned, MoveRecordsSource, others, Procs, Requests
<1>40. ASSUME MoveReleases PROVE Abandoned => Abandoned'
    BY <1>40, TruthShape, ConstantsOK DEF Abandoned, MoveReleases, others, Procs, Requests
<1>41. ASSUME AgeClaim PROVE Abandoned => Abandoned'
    BY <1>41, TruthShape, ConstantsOK DEF Abandoned, AgeClaim, Procs, Requests
<1> QED
    BY <1>1, <1>2, <1>3, <1>4, <1>5, <1>6, <1>7, <1>8, <1>9, <1>10, <1>11, <1>12, <1>13, <1>14,
       <1>15, <1>16, <1>17, <1>18, <1>19, <1>20, <1>21, <1>22, <1>23, <1>24, <1>25, <1>26,
       <1>27, <1>28, <1>29, <1>30, <1>31, <1>32, <1>33, <1>34, <1>35, <1>36, <1>37, <1>38,
       <1>39, <1>40, <1>41 DEF Next, CancelAtProvider, Caller, Refund, HandleEvent, Reconcile,
       Reschedule, Environment

LEMMA OutcomeStep ==
    ASSUME Typed, Truth, Ownership, Outcome, Next, ~Abandoned'
    PROVE  LateLanding' /\ GoneUnrecorded'
<1> DEFINE Over == ~row \/ Unsettled
           Late(q) == call[q] = "inflight" => Over \/ pc[q] \in {"sent", "unknown"}
           Unrecorded == row /\ ~booking => Unsettled \/ move = "cancelled" \/ \E p \in Procs : Knows(p)
           Goal == (\A q \in Procs : Late(q)') /\ Unrecorded'
<1>a. ~Abandoned /\ (\A q \in Procs : Late(q)) /\ Unrecorded
    BY AbandonedStays DEF Outcome, LateLanding, GoneUnrecorded
<1>b. (Over => Over') /\ (~row => ~row') /\ (Unsettled => Unsettled' \/ ~row')
    BY UnsettledStep
<1> SUFFICES Goal
    BY DEF LateLanding, GoneUnrecorded
<1>1. ASSUME NEW c \in Callers, BeginCancel(c) PROVE Goal
    BY <1>1, <1>a, <1>b, TruthShape, OwnerHolds, ConstantsOK DEF BeginCancel, Knows, Owning,
       square, moving, At, Goto, Answer, Procs, Requests
<1>2. ASSUME NEW c \in Callers, RereadCancel(c) PROVE Goal
    BY <1>2, <1>a, <1>b, TruthShape, OwnerHolds, ConstantsOK DEF RereadCancel, Knows, Owning,
       square, moving, At, Goto, Answer, Procs, Requests
<1>3. ASSUME NEW c \in Callers, ClaimRef(c) PROVE Goal
    BY <1>3, <1>a, <1>b, TruthShape, OwnerHolds, ConstantsOK DEF ClaimRef, Knows, Owning,
       square, moving, At, Goto, Answer, Procs, Requests
<1>4. ASSUME NEW r \in Refunds, BeginRefund(r) PROVE Goal
    BY <1>4, <1>a, <1>b, TruthShape, OwnerHolds, ConstantsOK DEF BeginRefund, Knows, Owning,
       square, moving, At, Goto, Answer, Procs, Requests
<1>5. ASSUME NEW r \in Refunds, MarkRefunded(r) PROVE Goal
    BY <1>5, <1>a, <1>b, TruthShape, OwnerHolds, ConstantsOK DEF MarkRefunded, Knows, Owning,
       square, moving, At, Goto, Answer, Procs, Requests
<1>6. ASSUME NEW r \in Refunds, LoadAppointment(r) PROVE Goal
    BY <1>6, <1>a, <1>b, TruthShape, OwnerHolds, ConstantsOK DEF LoadAppointment, Knows, Owning,
       square, moving, At, Goto, Answer, Procs, Requests
<1>7. ASSUME NEW r \in Refunds, WhoOwns(r) PROVE Goal
    BY <1>7, <1>a, <1>b, TruthShape, OwnerHolds, ConstantsOK DEF WhoOwns, Knows, Owning, square,
       moving, At, Goto, Answer, Procs, Requests
<1>8. ASSUME NEW r \in Refunds, Enqueue(r) PROVE Goal
    BY <1>8, <1>a, <1>b, TruthShape, OwnerHolds, ConstantsOK DEF Enqueue, Knows, Owning, square,
       moving, At, Goto, Answer, Procs, Requests
<1>9. ASSUME NEW r \in Refunds, RefundRaises(r) PROVE Goal
    BY <1>9, TruthShape DEF RefundRaises, Answer, Abandoned, Requests
<1>10. ASSUME NEW w \in Workers, TakeEvent(w) PROVE Goal
    BY <1>10, <1>a, <1>b, TruthShape, OwnerHolds, ConstantsOK DEF TakeEvent, Knows, Owning,
       square, moving, At, Goto, Answer, Procs, Requests
<1>11. ASSUME NEW w \in Workers, CheckRow(w) PROVE Goal
    BY <1>11, <1>a, <1>b, TruthShape, OwnerHolds, ConstantsOK DEF CheckRow, Knows, Owning,
       square, moving, At, Goto, Answer, Procs, Requests
<1>12. ASSUME NEW w \in Workers, RereadEvent(w) PROVE Goal
    BY <1>12, <1>a, <1>b, TruthShape, OwnerHolds, ConstantsOK DEF RereadEvent, Knows, Owning,
       square, moving, At, Goto, Answer, Procs, Requests
<1>13. ASSUME NEW w \in Workers, MarkDone(w) PROVE Goal
    BY <1>13, <1>a, <1>b, TruthShape, OwnerHolds, ConstantsOK DEF MarkDone, Knows, Owning,
       square, moving, At, Goto, Answer, Procs, Requests
<1>14. ASSUME NEW w \in Workers, MarkRetryOrFailed(w) PROVE Goal
    BY <1>14, <1>a, <1>b, TruthShape, OwnerHolds, ConstantsOK DEF MarkRetryOrFailed, Knows,
       Owning, square, moving, At, Goto, Answer, Procs, Requests
<1>15. ASSUME NEW w \in Workers, HandleRaises(w) PROVE Goal
    <2>1. UNCHANGED <<claim, row, booking, call, move>> /\ Forget(w) /\ w \in Procs
        BY <1>15 DEF HandleRaises, claimVars, square, moving, Procs
    <2>2. CASE pc[w] \in Owning
        <3>1. Unsettled'
            BY <2>1, <2>2, LetGo
        <3> QED BY <3>1
    <2>3. CASE pc[w] \notin Owning
        <3>1. \A q \in Procs : (Knows(q) => Knows(q)') /\ (pc[q] \in {"sent", "unknown"} => pc'[q] = pc[q])
            BY <1>15, <2>1, <2>3, TruthShape DEF HandleRaises, Goto, Knows, Owning
        <3>2. Unrecorded'
            BY <1>a, <1>b, <2>1, <3>1
        <3>3. \A q \in Procs : Late(q)'
            BY <1>a, <1>b, <2>1, <3>1
        <3> QED BY <3>2, <3>3
    <2> QED BY <2>2, <2>3
<1>16. ASSUME NEW p \in Procs, Own(p) PROVE Goal
    BY <1>16, <1>a, <1>b, TruthShape, OwnerHolds, ConstantsOK DEF Own, Knows, Owning, square,
       moving, At, Goto, Answer, Busy, End, Procs, Requests
<1>17. ASSUME NEW p \in Procs, OwnRaises(p) PROVE Goal
    BY <1>17, <1>a, <1>b, TruthShape, OwnerHolds, ConstantsOK DEF OwnRaises, Knows, Owning,
       square, moving, At, Goto, Answer, End, Procs, Requests
<1>18. ASSUME NEW p \in Procs, VerifyBooking(p) PROVE Goal
    BY <1>18, <1>a, <1>b, TruthShape, OwnerHolds, ConstantsOK DEF VerifyBooking, Knows, Owning,
       square, moving, At, Goto, Answer, Procs, Requests
<1>19. ASSUME NEW p \in Procs, SendCancel(p) PROVE Goal
    BY <1>19, <1>a, <1>b, TruthShape, OwnerHolds, ConstantsOK DEF SendCancel, Knows, Owning,
       square, moving, At, Goto, Answer, Procs, Requests
<1>20. ASSUME NEW p \in Procs, CancelAnswered(p) PROVE Goal
    BY <1>20, <1>a, <1>b, TruthShape, OwnerHolds, ConstantsOK DEF CancelAnswered, Knows, Owning,
       square, moving, At, Goto, Answer, Procs, Requests
<1>21. ASSUME NEW p \in Procs, CancelUnknown(p) PROVE Goal
    <2>1. Unsettled' /\ (~row' <=> ~row)
        BY <1>21, HandedOver DEF CancelUnknown, HandOver, At, Owning
    <2> QED BY <2>1
<1>22. ASSUME NEW p \in Procs, CancelRefused(p) PROVE Goal
    BY <1>22, <1>a, <1>b, TruthShape, OwnerHolds, ConstantsOK DEF CancelRefused, Knows, Owning,
       square, moving, At, Goto, Answer, End, Procs, Requests
<1>23. ASSUME NEW p \in Procs, WriteCancelled(p) PROVE Goal
    BY <1>23, <1>a, <1>b, TruthShape, OwnerHolds, ConstantsOK DEF WriteCancelled, Knows, Owning,
       square, moving, At, Goto, Answer, Procs, Requests
<1>24. ASSUME NEW p \in Procs, ReleaseCancelled(p) PROVE Goal
    BY <1>24, <1>a, <1>b, TruthShape, OwnerHolds, ConstantsOK DEF ReleaseCancelled, Knows,
       Owning, square, moving, At, Goto, Answer, End, Procs, Requests
<1>25. ASSUME NEW p \in Procs, WriteRaises(p) PROVE Goal
    BY <1>25, <1>a, <1>b, TruthShape, OwnerHolds, ConstantsOK DEF WriteRaises, Knows, Owning,
       square, moving, At, Goto, Answer, Procs, Requests
<1>26. ASSUME NEW p \in Procs, HandOverUnwritten(p) PROVE Goal
    <2>1. Unsettled' /\ (~row' <=> ~row)
        BY <1>26, HandedOver DEF HandOverUnwritten, HandOver, At, Owning
    <2> QED BY <2>1
<1>27. ASSUME NEW w \in Workers, ListReconcile(w) PROVE Goal
    BY <1>27, <1>a, <1>b, TruthShape, OwnerHolds, ConstantsOK DEF ListReconcile, Knows, Owning,
       square, moving, At, Goto, Answer, Procs, Requests
<1>28. ASSUME NEW w \in Workers, TakeOverClaim(w) PROVE Goal
    BY <1>28, <1>a, <1>b, TruthShape, OwnerHolds, ConstantsOK DEF TakeOverClaim, Knows, Owning,
       square, moving, At, Goto, Answer, Procs, Requests
<1>29. ASSUME NEW w \in Workers, ReadBooking(w) PROVE Goal
    BY <1>29, <1>a, <1>b, TruthShape, OwnerHolds, ConstantsOK DEF ReadBooking, Knows, Owning,
       square, moving, At, Goto, Answer, Procs, Requests
<1>30. ASSUME NEW w \in Workers, ReconcileFails(w) PROVE Goal
    BY <1>30, <1>a, <1>b, TruthShape, OwnerHolds, ConstantsOK DEF ReconcileFails, Knows, Owning,
       square, moving, At, Goto, Answer, Procs, Requests
<1>31. ASSUME NEW w \in Workers, RecordCancelled(w) PROVE Goal
    BY <1>31, <1>a, <1>b, TruthShape, OwnerHolds, ConstantsOK DEF RecordCancelled, Knows,
       Owning, square, moving, At, Goto, Answer, Procs, Requests
<1>32. ASSUME NEW w \in Workers, DropClaim(w) PROVE Goal
    BY <1>32, <1>a, <1>b, TruthShape, OwnerHolds, ConstantsOK DEF DropClaim, Knows, Owning,
       square, moving, At, Goto, Answer, Procs, Requests
<1>33. ASSUME NEW w \in Workers, ReturnClaim(w) PROVE Goal
    BY <1>33, <1>a, <1>b, TruthShape, OwnerHolds, ConstantsOK DEF ReturnClaim, Knows, Owning,
       square, moving, At, Goto, Answer, Procs, Requests
<1>34. ASSUME NEW p \in Procs, LandCancel(p) PROVE Goal
    BY <1>34, <1>a, <1>b, TruthShape, OwnerHolds, ConstantsOK DEF LandCancel, Knows, Owning,
       square, moving, Procs, Requests
<1>35. ASSUME NEW p \in Procs, RefuseCancel(p) PROVE Goal
    BY <1>35, <1>a, <1>b, TruthShape, OwnerHolds, ConstantsOK DEF RefuseCancel, Knows, Owning,
       square, moving, Procs, Requests
<1>36. ASSUME NEW p \in Procs, Crash(p) PROVE Goal
    <2>1. UNCHANGED <<claim, row, booking, call, move>> /\ Forget(p) /\ p \in Procs
        BY <1>36 DEF Crash, claimVars, square, moving, Procs
    <2>2. CASE pc[p] \in Owning
        <3>1. Unsettled'
            BY <2>1, <2>2, LetGo
        <3> QED BY <3>1
    <2>3. CASE pc[p] \notin Owning
        <3>1. \A q \in Procs : (Knows(q) => Knows(q)') /\ (pc[q] \in {"sent", "unknown"} => pc'[q] = pc[q])
            BY <1>36, <2>1, <2>3, TruthShape DEF Crash, Goto, Knows, Owning
        <3>2. Unrecorded'
            BY <1>a, <1>b, <2>1, <3>1
        <3>3. \A q \in Procs : Late(q)'
            BY <1>a, <1>b, <2>1, <3>1
        <3> QED BY <3>2, <3>3
    <2> QED BY <2>2, <2>3
<1>37. ASSUME MoveBegins PROVE Goal
    <2>1. Free /\ UNCHANGED <<row, booking, call, pc>>
        BY <1>37 DEF MoveBegins, AcquireReschedule, Insert, others
    <2>2. move # "cancelled" /\ ~Unsettled /\ \A q \in Procs : pc[q] \notin Owning
        BY <2>1, OwnerShape, OwnerHolds DEF Ownership, Unsettled, Free, NoClaim
    <2>3. \A q \in Procs : ~Knows(q)
        BY <2>2 DEF Knows, Owning
    <2>4. row => booking
        BY <1>a, <2>2, <2>3
    <2>5. \A q \in Procs : call[q] = "inflight" => ~row
        BY <1>a, <2>2 DEF Owning
    <2> QED BY <2>1, <2>4, <2>5
<1>38. ASSUME MoveCancelsSource PROVE Goal
    BY <1>38, <1>a, <1>b, TruthShape, ConstantsOK DEF MoveCancelsSource, Knows, Owning, square,
       moving, others, Procs, Requests
<1>39. ASSUME MoveRecordsSource PROVE Goal
    BY <1>39, <1>a, <1>b, TruthShape, ConstantsOK DEF MoveRecordsSource, Knows, Owning, square,
       moving, others, Procs, Requests
<1>40. ASSUME MoveReleases PROVE Goal
    BY <1>40, <1>a, <1>b, TruthShape, ConstantsOK DEF MoveReleases, Knows, Owning, square,
       moving, others, Procs, Requests
<1>41. ASSUME AgeClaim PROVE Goal
    BY <1>41, <1>a, <1>b, TruthShape, ConstantsOK DEF AgeClaim, Knows, Owning, square, moving,
       Procs, Requests
<1> QED
    BY <1>1, <1>2, <1>3, <1>4, <1>5, <1>6, <1>7, <1>8, <1>9, <1>10, <1>11, <1>12, <1>13, <1>14,
       <1>15, <1>16, <1>17, <1>18, <1>19, <1>20, <1>21, <1>22, <1>23, <1>24, <1>25, <1>26,
       <1>27, <1>28, <1>29, <1>30, <1>31, <1>32, <1>33, <1>34, <1>35, <1>36, <1>37, <1>38,
       <1>39, <1>40, <1>41 DEF Next, CancelAtProvider, Caller, Refund, HandleEvent, Reconcile,
       Reschedule, Environment

-----------------------------------------------------------------------------
(* The theorems *)

LEMMA InitIInv == Init => IInv
<1> SUFFICES ASSUME Init PROVE IInv
    OBVIOUS
<1>1. TypeOK
    <2>1. pc \in [Procs -> Labels] /\ reply \in [Requests -> Replies] /\ call \in [Procs -> CallStates]
        BY DEF Init, Labels, Replies, CallStates
    <2>2. ClaimsTypeOK({Op}, Tokens) /\ mine \in [Procs -> Tokens \cup {Nil}]
          /\ prev \in [Workers -> Tokens \cup {Nil}]
        BY DEF Init, ClaimsTypeOK
    <2>3. moves \in 0..MaxMoves /\ crashes \in 0..MaxCrashes /\ attempts \in [Refunds -> 0..MAX_ATTEMPTS]
          /\ tries \in [Workers -> 0..MAX_ATTEMPTS]
        BY ConstantsOK DEF Init
    <2> QED BY <2>1, <2>2, <2>3 DEF Init, TypeOK
<1>2. QueueOK
    BY ConstantsOK, NilOK DEF Init, QueueOK
<1>3. Truth
    BY ConstantsOK DEF Init, Truth, MoveTruth, ProcTruth, RequestTruth, CallerTruth, SeenGone, Procs,
       Requests
<1>4. Ownership
    BY DEF Init, Ownership, Owned, Holds, Owning, NoClaim, Procs, Requests
<1>5. Outcome
    BY DEF Init, Outcome, LateLanding, GoneUnrecorded
<1>6. EventsKept
    BY DEF Init, EventsKept, Procs
<1> QED BY <1>1, <1>2, <1>3, <1>4, <1>5, <1>6 DEF IInv, Typed

LEMMA NextIInv == IInv /\ [Next]_vars => IInv'
<1> SUFFICES ASSUME IInv, [Next]_vars PROVE IInv'
    OBVIOUS
<1>1. CASE Next
    <2>1. Typed' /\ Truth' /\ Ownership' /\ EventsKept'
        BY <1>1, TypeStep, QueueStep, TruthStep, OwnershipStep, EventsStep DEF IInv, Typed
    <2>2. Outcome'
        BY <1>1, OutcomeStep DEF IInv, Outcome
    <2> QED BY <2>1, <2>2 DEF IInv
<1>2. CASE UNCHANGED vars
    <2> USE <1>2 DEF vars, claims, claimVars, queue, square, worker, moving
    <2>1. Typed'
        BY DEF IInv, Typed, TypeOK, ClaimsTypeOK, QueueOK
    <2>2. Truth'
        BY DEF IInv, Truth, MoveTruth, ProcTruth, RequestTruth, CallerTruth
    <2>3. Ownership' /\ EventsKept'
        BY DEF IInv, Ownership, Owned, EventsKept, Unsettled, Holds
    <2>4. Outcome'
        BY DEF IInv, Outcome, LateLanding, GoneUnrecorded, Abandoned, Unsettled, Holds, Knows
    <2> QED BY <2>1, <2>2, <2>3, <2>4 DEF IInv
<1> QED BY <1>1, <1>2 DEF Spec

LEMMA Inductive == Spec => []IInv
<1> QED BY InitIInv, NextIInv, PTL DEF Spec

\* Every variable keeps its type, however many deliveries and processors there are:
\* among others, there is always a token nobody uses, and no event is tried more
\* than MAX_ATTEMPTS times (webhook_processor).
THEOREM TypeCorrect == Spec => []TypeOK
<1>1. IInv => TypeOK
    BY DEF IInv, Typed
<1> QED BY <1>1, Inductive, PTL

\* The row says cancelled only once the booking is gone at Square, whichever of the
\* tool, the refund, the queued intent, the reconciler or a reschedule wrote it.
THEOREM NoEarlyCancel == Spec => []CancelledIsGone
<1>1. IInv => CancelledIsGone
    BY DEF IInv, Truth, CancelledIsGone
<1> QED BY <1>1, Inductive, PTL

\* A caller who hears "cancelled" has no booking left, and one who hears "refused"
\* has no cancellation of his own that could still land.
THEOREM CallersHearTheTruth == Spec => []AnswerIsTrue
<1>1. IInv => AnswerIsTrue
    BY DEF IInv, Truth, RequestTruth, CallerTruth, AnswerIsTrue, Requests
<1> QED BY <1>1, Inductive, PTL

\* Nobody may take over an active appointment whose booking is gone, or whose
\* cancellation may still land: somebody owns it until the row is written.
THEOREM NothingLeftBehind == Spec => []UnownedAgrees
<1>1. IInv => UnownedAgrees
    <2> SUFFICES ASSUME IInv, Free, row, ~Abandoned PROVE booking
        BY DEF UnownedAgrees
    <2>1. claim.type \notin {"cancel", "cancel_reconcile", "reschedule"} /\ ~Unsettled
        BY DEF Free, NoClaim, Unsettled
    <2>2. move # "cancelled" /\ \A p \in Procs : pc[p] \notin Owning
        BY <2>1 DEF IInv, Ownership, Owned
    <2>3. \A p \in Procs : ~Knows(p)
        BY <2>2 DEF Knows, Owning
    <2> QED BY <2>1, <2>2, <2>3 DEF IInv, Outcome, GoneUnrecorded
<1> QED BY <1>1, Inductive, PTL

\* A queued refund intent is finished only when its appointment is cancelled, or
\* while a cancellation still owns it.
THEOREM IntentsAreKept == Spec => []IntentNotDropped
<1>1. IInv => IntentNotDropped
    BY DEF IInv, EventsKept, Unsettled, IntentNotDropped, CancelOwner
<1> QED BY <1>1, Inductive, PTL
=============================================================================
