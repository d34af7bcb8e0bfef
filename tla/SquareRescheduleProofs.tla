----------------------- MODULE SquareRescheduleProofs -----------------------
(***************************************************************************)
(* Proofs about SquareReschedule, for any number of requests, processors   *)
(* and crashes, and any interleaving of their steps with the merchant, a   *)
(* cancellation and late answers from Square.                              *)
(*                                                                         *)
(* The argument has two halves.  Order is what the order of the steps      *)
(* gives by itself, however long a process stalls: nothing is dropped      *)
(* before its replacement is booked and recorded.  It makes the module an  *)
(* implementation of Switch.  The other invariants hold when nothing at    *)
(* work outlasts the cut-off (Prompt): Exclusive, that the claim has one   *)
(* holder and an old claim none; Stage, that where the holder is says what *)
(* its operation is; Booked, that what is booked belongs to the operation  *)
(* that owns the appointment or to a finished one; and Answers.            *)
(***************************************************************************)
EXTENDS SquareReschedule, FiniteSetTheorems, TLAPS

\* The steps that own the appointment: D1 before there is an operation, D2 before and
\* after the replacement is recorded, and the ends that give the claim back.
Validating == {"reread", "snapshot", "slot", "insert"}
Replacing == {"adopt", "create", "creating", "createfailed", "name", "lineage", "consume",
              "advance"}
Dropping == {"regate", "fetch", "ours", "cancelget", "cancel", "cancelling", "complete", "finish"}
            \cup CancelReasons
Owning == Validating \cup Replacing \cup Dropping \cup {"undo", "leave", "handoff", "gate", "take"}

\* A mover works on its own operation; a worker at work has one.
JobOK ==
    /\ \A m \in Movers : job[m] = m
    /\ \A w \in Workers : job[w] = Nil => pc[w] = "idle"

\* The merchant's bound bounds the version too.
VersionOK == source.version <= edits

Typed == TypeOK /\ JobOK /\ VersionOK

-----------------------------------------------------------------------------
(* What D2's order of steps gives by itself, whoever else is at work *)

Behind == {"replacement_created", "cancel_failed", "completed"}

ProcOrder(p) ==
    /\ pc[p] \in {"name", "lineage"} => job[p] \in made
    /\ pc[p] = "creating" /\ call[p] = "ok" => job[p] \in made
    /\ pc[p] \in {"consume", "advance"} \cup Dropping => lineage # Nil
    /\ pc[p] \in {"complete", "finish"} => source.state # "live"
    /\ pc[p] = "cancelling" /\ call[p] = "ok" => source.state # "live"

Order ==
    /\ lineage # Nil => lineage \in made
    /\ \A p \in Procs : ProcOrder(p)
    /\ \A m \in Movers : op[m].state \in Behind => lineage # Nil
    /\ \A c \in late : c.kind = "cancel" => lineage # Nil
    /\ cancelling \in {"cancelled", "recorded"} => source.state # "live"

-----------------------------------------------------------------------------
(* What ownership adds, when nothing at work outlasts the cut-off *)

Holds(p) == mine[p] # Nil /\ mine[p] = claim.token

Ours(m) == claim.type = "reschedule" /\ claim.op = m

Owned(p) ==
    /\ pc[p] \in Owning => Holds(p) /\ Ours(job[p])
    /\ pc[p] \notin Owning => mine[p] = Nil

\* A claim that is listed for recovery is nobody's, and stays so until it is taken.
Looking == {"look", "sweep", "dropstale", "takeover"}

Reader(w) ==
    /\ pc[w] \in Looking => read[w].claim # Nil
    /\ read[w].claim # Nil => /\ pc[w] \in Looking \cup {"take"}
                              /\ claim.token = read[w].claim => claimOld /\ Ours(job[w])

Exclusive ==
    /\ \A p \in Procs : Owned(p)
    /\ \A p, q \in Procs : Holds(p) /\ Holds(q) => p = q
    /\ \A w \in Workers : Reader(w)
    /\ claimOld => late = {} /\ \A p \in Procs : ~Holds(p)
    /\ late # {} => /\ claim.type = "reschedule"
                    /\ \A p \in Procs : Holds(p) => pc[p] = "provider_unknown"
    /\ cancelling # "none" <=> claim.type = "cancel"

\* Where a process is says what its operation is.
ProcStage(p) ==
    /\ pc[p] \in Replacing \cup Dropping => op[job[p]].token = mine[p]
    /\ pc[p] \in Replacing => op[job[p]].state = "in_progress"
    /\ pc[p] \in Dropping => /\ op[job[p]].state \in {"replacement_created", "cancel_failed"}
                             /\ ~Parked(job[p])

MoverStage(m) ==
    /\ pc[m] \in {"start"} \cup Validating => op[m].state = "none"
    /\ pc[m] \in {"handoff", "gate"} => op[m].state = "in_progress" /\ op[m].token = mine[m]

WorkerStage(w) ==
    /\ pc[w] = "sweep" /\ claim.token = read[w].claim => op[job[w]].state = "none"
    /\ pc[w] = "dropstale" => op[job[w]].state \in {"completed", "create_failed"}

LateStage(c) ==
    /\ c.kind = "create" => Ours(c.op) /\ op[c.op].state = "in_progress"
    /\ c.kind = "cancel" => /\ op[claim.op].state \in {"replacement_created", "cancel_failed"}
                            /\ ~Parked(claim.op)

Stage ==
    /\ \A p \in Procs : ProcStage(p)
    /\ \A m \in Movers : MoverStage(m)
    /\ \A w \in Workers : WorkerStage(w)
    /\ \A c \in late : LateStage(c)

\* What is booked belongs to the operation that owns the appointment, or to a finished one.
OpBooked(m) ==
    /\ m \in made => op[m].state # "none"
    /\ m \in made /\ Live(m) => Ours(m)
    /\ op[m].state \in Behind => lineage = m
    /\ op[m].state = "completed" => ~row /\ source.state # "live"
    /\ Parked(m) => source.state # "replaced"

LineageBooked ==
    lineage # Nil => /\ op[lineage].state \in LiveStates \cup {"completed"}
                     /\ claim.type = "reschedule" /\ op[claim.op].state # "none" => claim.op = lineage

ProcBooked(p) ==
    /\ pc[p] \in {"create", "creating", "createfailed", "name", "lineage"} => lineage = Nil
    /\ pc[p] = "finish" => ~row
    /\ pc[p] \in {"undo", "leave"} => job[p] \notin made \/ ~Live(job[p])
    /\ pc[p] = "source_changed" => source.state # "replaced"
    /\ pc[p] = "cancelling" /\ call[p] = "mismatch" => source.state # "replaced"

MoverBooked(m) ==
    /\ pc[m] \in {"snapshot", "slot", "insert"} => row
    /\ pc[m] \in {"handoff", "gate", "adopt", "create", "createfailed"} => m \notin made
    /\ pc[m] = "creating" /\ call[m] # "ok" => m \notin made

Booked ==
    /\ LineageBooked
    /\ \A m \in Movers : OpBooked(m) /\ MoverBooked(m)
    /\ \A p \in Procs : ProcBooked(p)

\* What a mover answered is what became of its operation.
Answered(m) ==
    /\ reply[m] # "none" => pc[m] \in {"undo", "leave", "done", "crashed"}
    /\ reply[m] \in {"busy", "refused", "already_cancelled"} => op[m].state = "none"
    /\ reply[m] = "create_failed" => op[m].state = "create_failed" /\ m \notin made
    /\ reply[m] = "cancel_failed" => m \in made
    /\ reply[m] = "source_changed" => Parked(m)
    /\ reply[m] = "completed" => op[m].state = "completed"

Answers == \A m \in Movers : Answered(m)

IInv == Typed /\ Order /\ (Prompt => Exclusive /\ Stage /\ Booked /\ Answers)

-----------------------------------------------------------------------------
(* Tokens: there are more of them than can be in use *)

LEMMA ImageBound ==
    ASSUME NEW X, IsFiniteSet(X), NEW V, NEW f \in [X -> V]
    PROVE  IsFiniteSet({f[s] : s \in X}) /\ Cardinality({f[s] : s \in X}) <= Cardinality(X)
<1> DEFINE Y == {f[s] : s \in X}
<1>1. f \in Surjection(X, Y)
    BY DEF Surjection
<1> QED BY <1>1, FS_Surjection

LEMMA UnionBound ==
    ASSUME NEW X, NEW Y, IsFiniteSet(X), IsFiniteSet(Y), NEW a \in Nat, NEW b \in Nat,
           Cardinality(X) <= a, Cardinality(Y) <= b
    PROVE  IsFiniteSet(X \cup Y) /\ Cardinality(X \cup Y) <= a + b
<1>1. /\ IsFiniteSet(X \cup Y)
      /\ Cardinality(X \cup Y) = Cardinality(X) + Cardinality(Y) - Cardinality(X \cap Y)
    BY FS_Union
<1>2. Cardinality(X) \in Nat /\ Cardinality(Y) \in Nat
    BY FS_CardinalityType
<1>3. Cardinality(X \cap Y) \in Nat
    BY FS_Intersection, FS_CardinalityType
<1> QED BY <1>1, <1>2, <1>3

LEMMA Sizes ==
    /\ IsFiniteSet(Procs) /\ IsFiniteSet(Movers) /\ IsFiniteSet(Workers)
    /\ Cardinality(Procs) \in Nat /\ Cardinality(Movers) \in Nat /\ Cardinality(Workers) \in Nat
<1>1. IsFiniteSet(Procs) /\ Movers \subseteq Procs /\ Workers \subseteq Procs
    BY ConstantsOK DEF Procs
<1> QED BY <1>1, FS_Subset, FS_CardinalityType

OpRows == [state : OpStates, token : Tokens \cup {Nil}, version : 0..MaxEdits,
           named : BOOLEAN, reason : CancelReasons \cup {Nil}]
Reads == [claim : Tokens \cup {Nil}, op : Tokens \cup {Nil}]

LEMMA SomeTokenIsFree == TypeOK => \E t \in Tokens : t \notin InUse
<1> SUFFICES ASSUME TypeOK PROVE \E t \in Tokens : t \notin InUse
    OBVIOUS
<1> DEFINE f == [m \in Movers |-> op[m].token]
           g == [w \in Workers |-> read[w].claim]
           h == [w \in Workers |-> read[w].op]
           A == {mine[p] : p \in Procs}
           B == {f[m] : m \in Movers}
           C == {g[w] : w \in Workers}
           D == {h[w] : w \in Workers}
           O == {claim.token}
           P == Cardinality(Procs)
           M == Cardinality(Movers)
           W == Cardinality(Workers)
<1>1. InUse = ((O \cup A) \cup B) \cup (C \cup D)
    BY DEF InUse
<1>2. IsFiniteSet(A) /\ Cardinality(A) <= P
    <2>1. mine \in [Procs -> Tokens \cup {Nil}]
        BY DEF TypeOK
    <2> QED BY <2>1, Sizes, ImageBound
<1>3. IsFiniteSet(B) /\ Cardinality(B) <= M
    <2>1. f \in [Movers -> {f[m] : m \in Movers}]
        OBVIOUS
    <2> HIDE DEF f
    <2> QED BY <2>1, Sizes, ImageBound
<1>4. IsFiniteSet(C) /\ Cardinality(C) <= W
    <2>1. g \in [Workers -> {g[w] : w \in Workers}]
        OBVIOUS
    <2> HIDE DEF g
    <2> QED BY <2>1, Sizes, ImageBound
<1>5. IsFiniteSet(D) /\ Cardinality(D) <= W
    <2>1. h \in [Workers -> {h[w] : w \in Workers}]
        OBVIOUS
    <2> HIDE DEF h
    <2> QED BY <2>1, Sizes, ImageBound
<1>6. IsFiniteSet(O) /\ Cardinality(O) = 1
    BY FS_Singleton
<1>7. P \in Nat /\ M \in Nat /\ W \in Nat
    BY Sizes
<1>8. IsFiniteSet(Tokens) /\ Cardinality(Tokens) = P + M + 2 * W + 2
    <2> HIDE DEF P, M, W
    <2> PICK last \in Nat : last = P + M + 2 * W + 1
        BY <1>7
    <2>1. IsFiniteSet(0..last) /\ Cardinality(0..last) = last + 1
        BY FS_Interval
    <2> QED BY <1>7, <2>1 DEF Tokens, P, M, W
<1> HIDE DEF A, B, C, D, O, P, M, W
<1>9. IsFiniteSet(InUse) /\ Cardinality(InUse) <= ((1 + P) + M) + (W + W)
    <2>1. IsFiniteSet(O \cup A) /\ Cardinality(O \cup A) <= 1 + P
        <3>1. 1 \in Nat /\ Cardinality(O) <= 1
            BY <1>6
        <3> QED BY <1>2, <1>6, <1>7, <3>1, UnionBound
    <2>2. IsFiniteSet((O \cup A) \cup B) /\ Cardinality((O \cup A) \cup B) <= (1 + P) + M
        <3>1. 1 + P \in Nat
            BY <1>7
        <3> QED BY <1>3, <1>7, <2>1, <3>1, UnionBound
    <2>3. IsFiniteSet(C \cup D) /\ Cardinality(C \cup D) <= W + W
        BY <1>4, <1>5, <1>7, UnionBound
    <2>4. (1 + P) + M \in Nat /\ W + W \in Nat
        BY <1>7
    <2> QED BY <1>1, <2>2, <2>3, <2>4, UnionBound
<1>10. SUFFICES ASSUME Tokens \subseteq InUse PROVE FALSE
    OBVIOUS
<1>11. Cardinality(Tokens) <= Cardinality(InUse) /\ Cardinality(InUse) \in Nat
    BY <1>9, <1>10, FS_Subset, FS_CardinalityType
<1> QED BY <1>7, <1>8, <1>9, <1>11

\* A uuid is a token, nobody's yet, and not SQL NULL.
LEMMA FreshIsFresh ==
    ASSUME TypeOK
    PROVE  /\ Fresh \in Tokens /\ Fresh # Nil /\ Fresh # claim.token
           /\ \A p \in Procs : mine[p] # Fresh
           /\ \A m \in Movers : op[m].token # Fresh
           /\ \A w \in Workers : read[w].claim # Fresh
<1>1. Fresh \in Tokens /\ Fresh \notin InUse
    BY SomeTokenIsFree DEF Fresh
<1>2. Tokens \subseteq Nat
    BY Sizes DEF Tokens
<1> QED BY <1>1, <1>2, NilOK DEF InUse

-----------------------------------------------------------------------------
(* Types *)

LEMMA GotoTyped ==
    ASSUME TypeOK, NEW p \in Procs, NEW l \in Labels, Goto(p, l)
    PROVE  pc' \in [Procs -> Labels] /\ reply' \in [Movers -> Replies]
BY DEF TypeOK, Goto

LEMMA TellTyped ==
    ASSUME TypeOK, NEW p \in Procs, NEW r \in Replies, NEW l \in Labels, Tell(p, r, l)
    PROVE  pc' \in [Procs -> Labels] /\ reply' \in [Movers -> Replies]
BY DEF TypeOK, Tell

LEMMA EndTyped ==
    ASSUME TypeOK, NEW p \in Procs, NEW r \in Replies, End(p, r)
    PROVE  pc' \in [Procs -> Labels] /\ reply' \in [Movers -> Replies]
<1>1. Rest(p) \in Labels
    BY DEF Rest, Labels
<1> QED BY <1>1, TellTyped DEF End

LEMMA OpTyped ==
    ASSUME TypeOK, NEW j, NEW s \in OpStates, NEW t \in Tokens \cup {Nil}, NEW r \in CancelReasons,
           \/ UNCHANGED op
           \/ op' = [op EXCEPT ![j].state = s]
           \/ op' = [op EXCEPT ![j].state = s, ![j].reason = r]
           \/ op' = [op EXCEPT ![j].token = t]
           \/ op' = [op EXCEPT ![j].named = TRUE]
    PROVE  op' \in [Movers -> OpRows]
<1>1. op \in [Movers -> OpRows]
    BY DEF TypeOK, OpRows
<1>2. CASE j \notin Movers
    BY <1>1, <1>2
<1>3. CASE j \in Movers
    <2>1. op[j] \in OpRows
        BY <1>1, <1>3
    <2>2. /\ [op[j] EXCEPT !.state = s] \in OpRows
          /\ [op[j] EXCEPT !.state = s, !.reason = r] \in OpRows
          /\ [op[j] EXCEPT !.token = t] \in OpRows
          /\ [op[j] EXCEPT !.named = TRUE] \in OpRows
        BY <2>1 DEF OpRows
    <2>3. \/ op' = op
          \/ op' = [op EXCEPT ![j] = [op[j] EXCEPT !.state = s]]
          \/ op' = [op EXCEPT ![j] = [op[j] EXCEPT !.state = s, !.reason = r]]
          \/ op' = [op EXCEPT ![j] = [op[j] EXCEPT !.token = t]]
          \/ op' = [op EXCEPT ![j] = [op[j] EXCEPT !.named = TRUE]]
        BY <1>1, <1>3
    <2> HIDE DEF OpRows
    <2> QED BY <1>1, <1>3, <2>2, <2>3
<1> QED BY <1>2, <1>3

\* What the statements on the claim write is a claim.
LEMMA ClaimTyped ==
    ASSUME TypeOK, NEW t \in Tokens, NEW j, NEW u,
           \/ UNCHANGED claimVars \/ Release(u) \/ ReleaseOrphan(j, u) \/ ClaimAges
           \/ AcquireCancel(t) \/ (\E m \in Movers : AcquireReschedule(m, t)) \/ TakeOverReschedule(j, u, t)
    PROVE  ClaimsTypeOK(Movers, Tokens)'
<1> USE DEF ClaimsTypeOK
<1>1. CASE UNCHANGED claimVars \/ Release(u) \/ ReleaseOrphan(j, u) \/ ClaimAges
    BY <1>1 DEF TypeOK, claimVars, Release, ReleaseOrphan, Delete, ClaimAges
<1>2. CASE AcquireCancel(t) \/ \E m \in Movers : AcquireReschedule(m, t)
    <2>1. /\ ClaimRow("cancel", Nil, t, Nil) \in ClaimRows(Movers, Tokens)
          /\ \A m \in Movers : ClaimRow("reschedule", m, t, Nil) \in ClaimRows(Movers, Tokens)
        BY ConstantsOK DEF ClaimRow, ClaimRows, ClaimTypes, Reasons
    <2> QED BY <1>2, <2>1 DEF AcquireCancel, AcquireReschedule, Insert
<1>3. CASE TakeOverReschedule(j, u, t)
    <2>1. claim \in ClaimRows(Movers, Tokens) /\ claim' = [claim EXCEPT !.token = t] /\ claimOld' = FALSE
        BY <1>3 DEF TypeOK, TakeOverReschedule, TakeOver, Owns, NoClaim
    <2> QED BY <2>1 DEF ClaimRows
<1> QED BY <1>1, <1>2, <1>3

\* A process at work has an operation.
LEMMA Working ==
    ASSUME Typed, NEW p \in Procs, pc[p] # "idle"
    PROVE  job[p] \in Movers
BY ConstantsOK DEF Typed, TypeOK, JobOK, Procs

LEMMA ClaimFields ==
    TypeOK => claim.token \in Tokens \cup {Nil} /\ (claim.type = "reschedule" => claim.op \in Movers)
BY DEF TypeOK, ClaimsTypeOK, ClaimRows, NoClaim

-----------------------------------------------------------------------------
(* Every step keeps the types, one variable after another *)

LEMMA TypeStep == ASSUME Typed, Next PROVE TypeOK'
<1> USE DEF Typed
<1>1. ASSUME NEW m \in Movers, Begin(m) PROVE TypeOK'
    <2>1. pc' \in [Procs -> Labels] /\ reply' \in [Movers -> Replies]
        BY <1>1, GotoTyped, EndTyped DEF Begin, Labels, Replies, CancelReasons, Procs
    <2>2. ClaimsTypeOK(Movers, Tokens)'
        BY <1>1, FreshIsFresh, ClaimTyped DEF Begin, claims
    <2>3. mine' \in [Procs -> Tokens \cup {Nil}]
        BY <1>1, FreshIsFresh DEF TypeOK, Begin, claims, Hold, End, Procs
    <2> QED
        BY <1>1, <2>1, <2>2, <2>3 DEF TypeOK, Begin, records, square, local, other
<1>2. ASSUME NEW m \in Movers, BeginRaises(m) PROVE TypeOK'
    <2>1. pc' \in [Procs -> Labels] /\ reply' \in [Movers -> Replies]
        BY <1>2, EndTyped DEF BeginRaises, Labels, Replies, CancelReasons, Procs
    <2>2. ClaimsTypeOK(Movers, Tokens)'
        BY <1>2, FreshIsFresh, ClaimTyped DEF BeginRaises
    <2>3. mine' \in [Procs -> Tokens \cup {Nil}]
        BY <1>2 DEF TypeOK, BeginRaises, End, Hold, Procs
    <2> QED
        BY <1>2, <2>1, <2>2, <2>3 DEF TypeOK, BeginRaises, records, square, local, other
<1>3. ASSUME NEW m \in Movers, Reread(m) PROVE TypeOK'
    <2>1. pc' \in [Procs -> Labels] /\ reply' \in [Movers -> Replies]
        BY <1>3, GotoTyped, EndTyped DEF Reread, GiveUp, Labels, Replies, CancelReasons, Procs
    <2>2. ClaimsTypeOK(Movers, Tokens)'
        BY <1>3, FreshIsFresh, ClaimTyped DEF Reread, GiveUp, claims
    <2>3. mine' \in [Procs -> Tokens \cup {Nil}]
        BY <1>3 DEF TypeOK, Reread, claims, GiveUp, End, Hold, Procs
    <2> QED
        BY <1>3, <2>1, <2>2, <2>3 DEF TypeOK, Reread, records, square, local, other
<1>4. ASSUME NEW m \in Movers, Snapshot(m) PROVE TypeOK'
    <2>1. pc' \in [Procs -> Labels] /\ reply' \in [Movers -> Replies]
        BY <1>4, GotoTyped, EndTyped, TellTyped DEF Snapshot, GiveUp, Labels, Replies,
           CancelReasons, Procs
    <2>2. ClaimsTypeOK(Movers, Tokens)'
        BY <1>4, FreshIsFresh, ClaimTyped DEF Snapshot, GiveUp, claims
    <2>3. mine' \in [Procs -> Tokens \cup {Nil}]
        BY <1>4 DEF TypeOK, Snapshot, claims, GiveUp, End, Hold, Procs
    <2>5. /\ frozen' \in [Procs -> 0..MaxEdits]
          /\ row' \in BOOLEAN
        BY <1>4 DEF Snapshot, TypeOK, Procs
    <2> QED
        BY <1>4, <2>1, <2>2, <2>3, <2>5 DEF TypeOK, Snapshot, records, square, local, other
<1>5. ASSUME NEW m \in Movers, ClaimSlot(m) PROVE TypeOK'
    <2>1. pc' \in [Procs -> Labels] /\ reply' \in [Movers -> Replies]
        BY <1>5, GotoTyped, EndTyped DEF ClaimSlot, GiveUp, Labels, Replies, CancelReasons,
           Procs
    <2>2. ClaimsTypeOK(Movers, Tokens)'
        BY <1>5, FreshIsFresh, ClaimTyped DEF ClaimSlot, GiveUp, claims
    <2>3. mine' \in [Procs -> Tokens \cup {Nil}]
        BY <1>5 DEF TypeOK, ClaimSlot, claims, GiveUp, End, Hold, Procs
    <2>5. slot' \in [Slots -> {"free", "claimed", "consumed"}]
        BY <1>5, ConstantsOK DEF ClaimSlot, TypeOK, Procs
    <2> QED
        BY <1>5, <2>1, <2>2, <2>3, <2>5 DEF TypeOK, ClaimSlot, records, square, local, other
<1>6. ASSUME NEW m \in Movers, InsertOp(m) PROVE TypeOK'
    <2>1. pc' \in [Procs -> Labels] /\ reply' \in [Movers -> Replies]
        BY <1>6, GotoTyped, TellTyped DEF InsertOp, Labels, Replies, CancelReasons, Procs
    <2>2. ClaimsTypeOK(Movers, Tokens)'
        BY <1>6, FreshIsFresh, ClaimTyped DEF InsertOp, claims
    <2>3. mine' \in [Procs -> Tokens \cup {Nil}]
        BY <1>6 DEF TypeOK, InsertOp, claims, Procs
    <2>4. op' \in [Movers -> OpRows]
        <3>1. Frozen(m) \in OpRows
            BY NilOK DEF TypeOK, Frozen, NoOp, OpRows, OpStates, LiveStates, Procs
        <3> QED
            BY <1>6, <3>1 DEF InsertOp, TypeOK, OpRows
    <2>5. frozen' \in [Procs -> 0..MaxEdits]
        BY <1>6, ConstantsOK DEF InsertOp, TypeOK, Procs
    <2> QED
        BY <1>6, <2>1, <2>2, <2>3, <2>4, <2>5 DEF TypeOK, InsertOp, records, square, local,
           other, OpRows
<1>7. ASSUME NEW m \in Movers, InsertRaises(m) PROVE TypeOK'
    <2>1. pc' \in [Procs -> Labels] /\ reply' \in [Movers -> Replies]
        BY <1>7, TellTyped DEF InsertRaises, Labels, Replies, CancelReasons, Procs
    <2>2. ClaimsTypeOK(Movers, Tokens)'
        BY <1>7, FreshIsFresh, ClaimTyped DEF InsertRaises, claims
    <2>3. mine' \in [Procs -> Tokens \cup {Nil}]
        BY <1>7 DEF TypeOK, InsertRaises, claims, Procs
    <2>4. op' \in [Movers -> OpRows]
        <3>1. Frozen(m) \in OpRows
            BY NilOK DEF TypeOK, Frozen, NoOp, OpRows, OpStates, LiveStates, Procs
        <3> QED
            BY <1>7, <3>1 DEF InsertRaises, TypeOK, OpRows
    <2>5. frozen' \in [Procs -> 0..MaxEdits]
        BY <1>7, ConstantsOK DEF InsertRaises, TypeOK, Procs
    <2> QED
        BY <1>7, <2>1, <2>2, <2>3, <2>4, <2>5 DEF TypeOK, InsertRaises, records, square, local,
           other, OpRows
<1>8. ASSUME NEW m \in Movers, Undo(m) PROVE TypeOK'
    <2>1. pc' \in [Procs -> Labels] /\ reply' \in [Movers -> Replies]
        BY <1>8, GotoTyped DEF Undo, Labels, CancelReasons, Procs
    <2>2. ClaimsTypeOK(Movers, Tokens)'
        BY <1>8, FreshIsFresh, ClaimTyped DEF Undo, claims
    <2>3. mine' \in [Procs -> Tokens \cup {Nil}]
        BY <1>8 DEF TypeOK, Undo, claims, Procs
    <2>5. slot' \in [Slots -> {"free", "claimed", "consumed"}]
        BY <1>8, ConstantsOK DEF Undo, TypeOK, FreeSlot, Procs
    <2> QED
        BY <1>8, <2>1, <2>2, <2>3, <2>5 DEF TypeOK, Undo, records, square, local, other
<1>9. ASSUME NEW m \in Movers, HandOff(m) PROVE TypeOK'
    <2>1. pc' \in [Procs -> Labels] /\ reply' \in [Movers -> Replies]
        BY <1>9, GotoTyped, EndTyped DEF HandOff, Labels, Replies, CancelReasons, Procs
    <2>2. ClaimsTypeOK(Movers, Tokens)'
        BY <1>9, FreshIsFresh, ClaimTyped DEF HandOff
    <2>3. mine' \in [Procs -> Tokens \cup {Nil}]
        BY <1>9 DEF TypeOK, HandOff, Hold, End, Procs
    <2> QED
        BY <1>9, <2>1, <2>2, <2>3 DEF TypeOK, HandOff, records, square, local, other
<1>10. ASSUME NEW p \in Procs, Gate(p) PROVE TypeOK'
    <2>1. pc' \in [Procs -> Labels] /\ reply' \in [Movers -> Replies]
        BY <1>10, GotoTyped, EndTyped DEF Gate, Labels, Replies, CancelReasons
    <2>2. ClaimsTypeOK(Movers, Tokens)'
        BY <1>10, FreshIsFresh, ClaimTyped DEF Gate
    <2>3. mine' \in [Procs -> Tokens \cup {Nil}]
        BY <1>10 DEF TypeOK, Gate, End, Hold
    <2> QED
        BY <1>10, <2>1, <2>2, <2>3 DEF TypeOK, Gate, records, square, local, other
<1>11. ASSUME NEW p \in Procs, NoCredential(p) PROVE TypeOK'
    <2>1. pc' \in [Procs -> Labels] /\ reply' \in [Movers -> Replies]
        BY <1>11, EndTyped DEF NoCredential, Labels, Replies, CancelReasons
    <2>2. ClaimsTypeOK(Movers, Tokens)'
        BY <1>11, FreshIsFresh, ClaimTyped DEF NoCredential
    <2>3. mine' \in [Procs -> Tokens \cup {Nil}]
        BY <1>11 DEF TypeOK, NoCredential, End, Hold
    <2> QED
        BY <1>11, <2>1, <2>2, <2>3 DEF TypeOK, NoCredential, records, square, local, other
<1>12. ASSUME NEW p \in Procs, Adopt(p) PROVE TypeOK'
    <2>1. pc' \in [Procs -> Labels] /\ reply' \in [Movers -> Replies]
        BY <1>12, GotoTyped DEF Adopt, Labels, CancelReasons
    <2>2. ClaimsTypeOK(Movers, Tokens)'
        BY <1>12, FreshIsFresh, ClaimTyped DEF Adopt, claims
    <2>3. mine' \in [Procs -> Tokens \cup {Nil}]
        BY <1>12 DEF TypeOK, Adopt, claims
    <2> QED
        BY <1>12, <2>1, <2>2, <2>3 DEF TypeOK, Adopt, records, square, local, other
<1>13. ASSUME NEW p \in Procs, SendCreate(p) PROVE TypeOK'
    <2>1. pc' \in [Procs -> Labels] /\ reply' \in [Movers -> Replies]
        BY <1>13, GotoTyped DEF SendCreate, Labels, CancelReasons
    <2>2. ClaimsTypeOK(Movers, Tokens)'
        BY <1>13, FreshIsFresh, ClaimTyped DEF SendCreate, claims
    <2>3. mine' \in [Procs -> Tokens \cup {Nil}]
        BY <1>13 DEF TypeOK, SendCreate, claims
    <2>5. call' \in [Procs -> CallStates]
        BY <1>13 DEF SendCreate, TypeOK, CallStates
    <2> QED
        BY <1>13, <2>1, <2>2, <2>3, <2>5 DEF TypeOK, SendCreate, records, square, local, other
<1>14. ASSUME NEW p \in Procs, CreateAnswered(p) PROVE TypeOK'
    <2>1. pc' \in [Procs -> Labels] /\ reply' \in [Movers -> Replies]
        BY <1>14, GotoTyped, EndTyped DEF CreateAnswered, Labels, Replies, CancelReasons
    <2>2. ClaimsTypeOK(Movers, Tokens)'
        BY <1>14, FreshIsFresh, ClaimTyped DEF CreateAnswered
    <2>3. mine' \in [Procs -> Tokens \cup {Nil}]
        BY <1>14 DEF TypeOK, CreateAnswered, End, Hold
    <2>5. /\ call' \in [Procs -> CallStates]
          /\ frozen' \in [Procs -> 0..MaxEdits]
          /\ late' \subseteq Calls
        BY <1>14, ConstantsOK DEF CreateAnswered, TypeOK, Abandon, CallStates
    <2> QED
        BY <1>14, <2>1, <2>2, <2>3, <2>5 DEF TypeOK, CreateAnswered, records, square, local,
           other, Abandon
<1>15. ASSUME NEW p \in Procs, MarkCreateFailed(p) PROVE TypeOK'
    <2>1. pc' \in [Procs -> Labels] /\ reply' \in [Movers -> Replies]
        BY <1>15, EndTyped, TellTyped DEF MarkCreateFailed, Labels, Replies, CancelReasons
    <2>2. ClaimsTypeOK(Movers, Tokens)'
        BY <1>15, FreshIsFresh, ClaimTyped DEF MarkCreateFailed
    <2>3. mine' \in [Procs -> Tokens \cup {Nil}]
        BY <1>15 DEF TypeOK, MarkCreateFailed, End, Hold
    <2>4. op' \in [Movers -> OpRows]
        BY <1>15, OpTyped DEF MarkCreateFailed, OpStates, LiveStates, CancelReasons
    <2> QED
        BY <1>15, <2>1, <2>2, <2>3, <2>4 DEF TypeOK, MarkCreateFailed, records, square, local,
           other, OpRows
<1>16. ASSUME NEW p \in Procs, Name(p) PROVE TypeOK'
    <2>1. pc' \in [Procs -> Labels] /\ reply' \in [Movers -> Replies]
        BY <1>16, GotoTyped, EndTyped DEF Name, Labels, Replies, CancelReasons
    <2>2. ClaimsTypeOK(Movers, Tokens)'
        BY <1>16, FreshIsFresh, ClaimTyped DEF Name
    <2>3. mine' \in [Procs -> Tokens \cup {Nil}]
        BY <1>16 DEF TypeOK, Name, End, Hold
    <2>4. op' \in [Movers -> OpRows]
        BY <1>16, OpTyped DEF Name, OpStates, LiveStates, CancelReasons
    <2> QED
        BY <1>16, <2>1, <2>2, <2>3, <2>4 DEF TypeOK, Name, records, square, local, other, OpRows
<1>17. ASSUME NEW p \in Procs, InsertReplacement(p) PROVE TypeOK'
    <2>1. pc' \in [Procs -> Labels] /\ reply' \in [Movers -> Replies]
        BY <1>17, GotoTyped, EndTyped DEF InsertReplacement, Labels, Replies, CancelReasons
    <2>2. ClaimsTypeOK(Movers, Tokens)'
        BY <1>17, FreshIsFresh, ClaimTyped DEF InsertReplacement
    <2>3. mine' \in [Procs -> Tokens \cup {Nil}]
        BY <1>17 DEF TypeOK, InsertReplacement, End, Hold
    <2>5. lineage' \in Movers \cup {Nil}
        BY <1>17, Working DEF InsertReplacement, TypeOK, At, Procs, Labels
    <2> QED
        BY <1>17, <2>1, <2>2, <2>3, <2>5 DEF TypeOK, InsertReplacement, records, square, local,
           other
<1>18. ASSUME NEW p \in Procs, MarkConsumed(p) PROVE TypeOK'
    <2>1. pc' \in [Procs -> Labels] /\ reply' \in [Movers -> Replies]
        BY <1>18, GotoTyped DEF MarkConsumed, Labels, CancelReasons
    <2>2. ClaimsTypeOK(Movers, Tokens)'
        BY <1>18, FreshIsFresh, ClaimTyped DEF MarkConsumed, claims
    <2>3. mine' \in [Procs -> Tokens \cup {Nil}]
        BY <1>18 DEF TypeOK, MarkConsumed, claims
    <2>5. slot' \in [Slots -> {"free", "claimed", "consumed"}]
        BY <1>18, ConstantsOK DEF MarkConsumed, TypeOK
    <2> QED
        BY <1>18, <2>1, <2>2, <2>3, <2>5 DEF TypeOK, MarkConsumed, records, square, local, other
<1>19. ASSUME NEW p \in Procs, MarkReplacementCreated(p) PROVE TypeOK'
    <2>1. pc' \in [Procs -> Labels] /\ reply' \in [Movers -> Replies]
        BY <1>19, GotoTyped, EndTyped DEF MarkReplacementCreated, Labels, Replies, CancelReasons
    <2>2. ClaimsTypeOK(Movers, Tokens)'
        BY <1>19, FreshIsFresh, ClaimTyped DEF MarkReplacementCreated
    <2>3. mine' \in [Procs -> Tokens \cup {Nil}]
        BY <1>19 DEF TypeOK, MarkReplacementCreated, End, Hold
    <2>4. op' \in [Movers -> OpRows]
        BY <1>19, OpTyped DEF MarkReplacementCreated, OpStates, LiveStates, CancelReasons
    <2> QED
        BY <1>19, <2>1, <2>2, <2>3, <2>4 DEF TypeOK, MarkReplacementCreated, records, square,
           local, other, OpRows
<1>20. ASSUME NEW p \in Procs, Fetch(p) PROVE TypeOK'
    <2>1. pc' \in [Procs -> Labels] /\ reply' \in [Movers -> Replies]
        BY <1>20, GotoTyped DEF Fetch, Labels, CancelReasons
    <2>2. ClaimsTypeOK(Movers, Tokens)'
        BY <1>20, FreshIsFresh, ClaimTyped DEF Fetch, claims
    <2>3. mine' \in [Procs -> Tokens \cup {Nil}]
        BY <1>20 DEF TypeOK, Fetch, claims
    <2> QED
        BY <1>20, <2>1, <2>2, <2>3 DEF TypeOK, Fetch, records, square, local, other
<1>21. ASSUME NEW p \in Procs, StillOurs(p) PROVE TypeOK'
    <2>1. pc' \in [Procs -> Labels] /\ reply' \in [Movers -> Replies]
        BY <1>21, GotoTyped, EndTyped DEF StillOurs, Labels, Replies, CancelReasons
    <2>2. ClaimsTypeOK(Movers, Tokens)'
        BY <1>21, FreshIsFresh, ClaimTyped DEF StillOurs
    <2>3. mine' \in [Procs -> Tokens \cup {Nil}]
        BY <1>21 DEF TypeOK, StillOurs, End, Hold
    <2> QED
        BY <1>21, <2>1, <2>2, <2>3 DEF TypeOK, StillOurs, records, square, local, other
<1>22. ASSUME NEW p \in Procs, CancelGet(p) PROVE TypeOK'
    <2>1. pc' \in [Procs -> Labels] /\ reply' \in [Movers -> Replies]
        BY <1>22, GotoTyped DEF CancelGet, Labels, CancelReasons
    <2>2. ClaimsTypeOK(Movers, Tokens)'
        BY <1>22, FreshIsFresh, ClaimTyped DEF CancelGet, claims
    <2>3. mine' \in [Procs -> Tokens \cup {Nil}]
        BY <1>22 DEF TypeOK, CancelGet, claims
    <2>5. frozen' \in [Procs -> 0..MaxEdits]
        BY <1>22 DEF CancelGet, TypeOK
    <2> QED
        BY <1>22, <2>1, <2>2, <2>3, <2>5 DEF TypeOK, CancelGet, records, square, local, other
<1>23. ASSUME NEW p \in Procs, SendCancel(p) PROVE TypeOK'
    <2>1. pc' \in [Procs -> Labels] /\ reply' \in [Movers -> Replies]
        BY <1>23, GotoTyped DEF SendCancel, Labels, CancelReasons
    <2>2. ClaimsTypeOK(Movers, Tokens)'
        BY <1>23, FreshIsFresh, ClaimTyped DEF SendCancel, claims
    <2>3. mine' \in [Procs -> Tokens \cup {Nil}]
        BY <1>23 DEF TypeOK, SendCancel, claims
    <2>5. call' \in [Procs -> CallStates]
        BY <1>23 DEF SendCancel, TypeOK, CallStates
    <2> QED
        BY <1>23, <2>1, <2>2, <2>3, <2>5 DEF TypeOK, SendCancel, records, square, local, other
<1>24. ASSUME NEW p \in Procs, CancelAnswered(p) PROVE TypeOK'
    <2>1. pc' \in [Procs -> Labels] /\ reply' \in [Movers -> Replies]
        BY <1>24, GotoTyped DEF CancelAnswered, Labels, CancelReasons
    <2>2. ClaimsTypeOK(Movers, Tokens)'
        BY <1>24, FreshIsFresh, ClaimTyped DEF CancelAnswered, claims
    <2>3. mine' \in [Procs -> Tokens \cup {Nil}]
        BY <1>24 DEF TypeOK, CancelAnswered, claims
    <2>5. /\ call' \in [Procs -> CallStates]
          /\ frozen' \in [Procs -> 0..MaxEdits]
          /\ late' \subseteq Calls
        BY <1>24, ConstantsOK DEF CancelAnswered, TypeOK, Abandon, CallStates
    <2> QED
        BY <1>24, <2>1, <2>2, <2>3, <2>5 DEF TypeOK, CancelAnswered, records, square, local,
           other, Abandon
<1>25. ASSUME NEW p \in Procs, MarkCancelFailed(p) PROVE TypeOK'
    <2>1. pc' \in [Procs -> Labels] /\ reply' \in [Movers -> Replies]
        BY <1>25, EndTyped DEF MarkCancelFailed, Labels, Replies, CancelReasons
    <2>2. ClaimsTypeOK(Movers, Tokens)'
        BY <1>25, FreshIsFresh, ClaimTyped DEF MarkCancelFailed
    <2>3. mine' \in [Procs -> Tokens \cup {Nil}]
        BY <1>25 DEF TypeOK, MarkCancelFailed, End, Hold
    <2>4. op' \in [Movers -> OpRows]
        BY <1>25, OpTyped DEF MarkCancelFailed, OpStates, LiveStates
    <2> QED
        BY <1>25, <2>1, <2>2, <2>3, <2>4 DEF TypeOK, MarkCancelFailed, records, square, local,
           other, OpRows
<1>26. ASSUME NEW p \in Procs, Complete(p) PROVE TypeOK'
    <2>1. pc' \in [Procs -> Labels] /\ reply' \in [Movers -> Replies]
        BY <1>26, GotoTyped DEF Complete, Labels, CancelReasons
    <2>2. ClaimsTypeOK(Movers, Tokens)'
        BY <1>26, FreshIsFresh, ClaimTyped DEF Complete, claims
    <2>3. mine' \in [Procs -> Tokens \cup {Nil}]
        BY <1>26 DEF TypeOK, Complete, claims
    <2> QED
        BY <1>26, <2>1, <2>2, <2>3 DEF TypeOK, Complete, records, square, local, other
<1>27. ASSUME NEW p \in Procs, MarkCompleted(p) PROVE TypeOK'
    <2>1. pc' \in [Procs -> Labels] /\ reply' \in [Movers -> Replies]
        BY <1>27, EndTyped, TellTyped DEF MarkCompleted, Labels, Replies, CancelReasons
    <2>2. ClaimsTypeOK(Movers, Tokens)'
        BY <1>27, FreshIsFresh, ClaimTyped DEF MarkCompleted
    <2>3. mine' \in [Procs -> Tokens \cup {Nil}]
        BY <1>27 DEF TypeOK, MarkCompleted, End, Hold
    <2>4. op' \in [Movers -> OpRows]
        BY <1>27, OpTyped DEF MarkCompleted, OpStates, LiveStates, CancelReasons
    <2> QED
        BY <1>27, <2>1, <2>2, <2>3, <2>4 DEF TypeOK, MarkCompleted, records, square, local,
           other, OpRows
<1>28. ASSUME NEW p \in Procs, Leave(p) PROVE TypeOK'
    <2>1. pc' \in [Procs -> Labels] /\ reply' \in [Movers -> Replies]
        BY <1>28, GotoTyped DEF Leave, Rest, Labels, CancelReasons
    <2>2. ClaimsTypeOK(Movers, Tokens)'
        BY <1>28, FreshIsFresh, ClaimTyped DEF Leave
    <2>3. mine' \in [Procs -> Tokens \cup {Nil}]
        BY <1>28 DEF TypeOK, Leave, Hold
    <2> QED
        BY <1>28, <2>1, <2>2, <2>3 DEF TypeOK, Leave, records, square, local, other
<1>29. ASSUME NEW w \in Workers, ListStale(w) PROVE TypeOK'
    <2>1. pc' \in [Procs -> Labels] /\ reply' \in [Movers -> Replies]
        BY <1>29, GotoTyped DEF ListStale, Labels, CancelReasons, Procs
    <2>2. ClaimsTypeOK(Movers, Tokens)'
        BY <1>29, FreshIsFresh, ClaimTyped DEF ListStale, claims
    <2>3. mine' \in [Procs -> Tokens \cup {Nil}]
        BY <1>29 DEF TypeOK, ListStale, claims, Procs
    <2>5. /\ job' \in [Procs -> Movers \cup {Nil}]
          /\ read' \in [Workers -> Reads]
        BY <1>29, ClaimFields DEF ListStale, TypeOK, Reads, Procs
    <2> QED
        BY <1>29, <2>1, <2>2, <2>3, <2>5 DEF TypeOK, ListStale, records, square, local, other,
           Reads
<1>30. ASSUME NEW w \in Workers, LookForOp(w) PROVE TypeOK'
    <2>1. pc' \in [Procs -> Labels] /\ reply' \in [Movers -> Replies]
        BY <1>30, GotoTyped DEF LookForOp, Labels, CancelReasons, Procs
    <2>2. ClaimsTypeOK(Movers, Tokens)'
        BY <1>30, FreshIsFresh, ClaimTyped DEF LookForOp, claims
    <2>3. mine' \in [Procs -> Tokens \cup {Nil}]
        BY <1>30 DEF TypeOK, LookForOp, claims, Procs
    <2>5. read' \in [Workers -> Reads]
        <3>1. pc[w] = "look" /\ w \in Procs
            BY <1>30 DEF LookForOp, At, Procs
        <3>2. op[job[w]].token \in Tokens \cup {Nil}
            BY <3>1, Working DEF TypeOK
        <3>3. \/ UNCHANGED read \/ Forget(w)
              \/ read' = [read EXCEPT ![w].op = op[job[w]].token]
            BY <1>30 DEF LookForOp
        <3>4. PICK t \in Tokens \cup {Nil} : t = op[job[w]].token
            BY <3>2
        <3>5. read[w] \in Reads /\ read \in [Workers -> Reads]
            BY DEF TypeOK, Reads
        <3>6. [read[w] EXCEPT !.op = t] \in Reads /\ [claim |-> Nil, op |-> Nil] \in Reads
            BY <3>5 DEF Reads
        <3>7. \/ read' = read \/ read' = [read EXCEPT ![w] = [claim |-> Nil, op |-> Nil]]
              \/ read' = [read EXCEPT ![w] = [read[w] EXCEPT !.op = t]]
            BY <3>3, <3>4 DEF Forget
        <3> QED BY <3>5, <3>6, <3>7
    <2> QED
        BY <1>30, <2>1, <2>2, <2>3, <2>5 DEF TypeOK, LookForOp, records, square, local, other,
           Reads
<1>31. ASSUME NEW w \in Workers, SweepOrphan(w) PROVE TypeOK'
    <2>1. pc' \in [Procs -> Labels] /\ reply' \in [Movers -> Replies]
        BY <1>31, GotoTyped DEF SweepOrphan, Labels, CancelReasons, Procs
    <2>2. ClaimsTypeOK(Movers, Tokens)'
        BY <1>31, FreshIsFresh, ClaimTyped DEF SweepOrphan
    <2>3. mine' \in [Procs -> Tokens \cup {Nil}]
        BY <1>31 DEF TypeOK, SweepOrphan, Procs
    <2>5. read' \in [Workers -> Reads]
        BY <1>31 DEF SweepOrphan, TypeOK, Forget, Reads, Procs
    <2> QED
        BY <1>31, <2>1, <2>2, <2>3, <2>5 DEF TypeOK, SweepOrphan, records, square, local, other,
           Reads
<1>32. ASSUME NEW w \in Workers, DropStale(w) PROVE TypeOK'
    <2>1. pc' \in [Procs -> Labels] /\ reply' \in [Movers -> Replies]
        BY <1>32, GotoTyped DEF DropStale, Labels, CancelReasons, Procs
    <2>2. ClaimsTypeOK(Movers, Tokens)'
        BY <1>32, FreshIsFresh, ClaimTyped DEF DropStale
    <2>3. mine' \in [Procs -> Tokens \cup {Nil}]
        BY <1>32 DEF TypeOK, DropStale, Procs
    <2>5. read' \in [Workers -> Reads]
        BY <1>32 DEF DropStale, TypeOK, Forget, Reads, Procs
    <2> QED
        BY <1>32, <2>1, <2>2, <2>3, <2>5 DEF TypeOK, DropStale, records, square, local, other,
           Reads
<1>33. ASSUME NEW w \in Workers, TakeOverClaim(w) PROVE TypeOK'
    <2>1. pc' \in [Procs -> Labels] /\ reply' \in [Movers -> Replies]
        BY <1>33, GotoTyped DEF TakeOverClaim, Labels, CancelReasons, Procs
    <2>2. ClaimsTypeOK(Movers, Tokens)'
        BY <1>33, FreshIsFresh, ClaimTyped DEF TakeOverClaim, claims
    <2>3. mine' \in [Procs -> Tokens \cup {Nil}]
        BY <1>33, FreshIsFresh DEF TypeOK, TakeOverClaim, claims, Hold, Procs
    <2>5. read' \in [Workers -> Reads]
        BY <1>33 DEF TakeOverClaim, TypeOK, Forget, Reads, Procs
    <2> QED
        BY <1>33, <2>1, <2>2, <2>3, <2>5 DEF TypeOK, TakeOverClaim, records, square, local,
           other, Reads
<1>34. ASSUME NEW w \in Workers, AdoptToken(w) PROVE TypeOK'
    <2>1. pc' \in [Procs -> Labels] /\ reply' \in [Movers -> Replies]
        BY <1>34, GotoTyped, EndTyped DEF AdoptToken, Labels, Replies, CancelReasons, Procs
    <2>2. ClaimsTypeOK(Movers, Tokens)'
        BY <1>34, FreshIsFresh, ClaimTyped DEF AdoptToken
    <2>3. mine' \in [Procs -> Tokens \cup {Nil}]
        BY <1>34 DEF TypeOK, AdoptToken, End, Hold, Procs
    <2>4. op' \in [Movers -> OpRows]
        BY <1>34, OpTyped DEF AdoptToken, TypeOK, OpStates, CancelReasons, Procs
    <2>5. read' \in [Workers -> Reads]
        BY <1>34 DEF AdoptToken, TypeOK, Forget, Reads, Procs
    <2> QED
        BY <1>34, <2>1, <2>2, <2>3, <2>4, <2>5 DEF TypeOK, AdoptToken, records, square, local,
           other, OpRows, Reads
<1>35. ASSUME CancelBegins PROVE TypeOK'
    <2>1. pc' \in [Procs -> Labels] /\ reply' \in [Movers -> Replies]
        BY <1>35 DEF TypeOK, CancelBegins, cancelled
    <2>2. ClaimsTypeOK(Movers, Tokens)'
        BY <1>35, FreshIsFresh, ClaimTyped DEF CancelBegins
    <2>3. mine' \in [Procs -> Tokens \cup {Nil}]
        BY <1>35 DEF TypeOK, CancelBegins, cancelled
    <2>5. cancels' \in 0..MaxCancels
        BY <1>35, ConstantsOK DEF CancelBegins, TypeOK
    <2> QED
        BY <1>35, <2>1, <2>2, <2>3, <2>5 DEF TypeOK, CancelBegins, records, square, local,
           other, cancelled
<1>36. ASSUME CancelActs PROVE TypeOK'
    <2>1. pc' \in [Procs -> Labels] /\ reply' \in [Movers -> Replies]
        BY <1>36 DEF TypeOK, CancelActs, cancelled
    <2>2. ClaimsTypeOK(Movers, Tokens)'
        BY <1>36, FreshIsFresh, ClaimTyped DEF CancelActs, claimVars, cancelled
    <2>3. mine' \in [Procs -> Tokens \cup {Nil}]
        BY <1>36 DEF TypeOK, CancelActs, cancelled
    <2>5. source' \in [state : {"live", "replaced", "cancelled"}, version : 0..MaxEdits]
        BY <1>36 DEF CancelActs, TypeOK
    <2> QED
        BY <1>36, <2>1, <2>2, <2>3, <2>5 DEF TypeOK, CancelActs, records, square, local, other,
           cancelled
<1>37. ASSUME CancelRecords PROVE TypeOK'
    <2>1. pc' \in [Procs -> Labels] /\ reply' \in [Movers -> Replies]
        BY <1>37 DEF TypeOK, CancelRecords, cancelled
    <2>2. ClaimsTypeOK(Movers, Tokens)'
        BY <1>37, FreshIsFresh, ClaimTyped DEF CancelRecords, claimVars, cancelled
    <2>3. mine' \in [Procs -> Tokens \cup {Nil}]
        BY <1>37 DEF TypeOK, CancelRecords, cancelled
    <2> QED
        BY <1>37, <2>1, <2>2, <2>3 DEF TypeOK, CancelRecords, records, square, local, other,
           cancelled
<1>38. ASSUME CancelReleases PROVE TypeOK'
    <2>1. pc' \in [Procs -> Labels] /\ reply' \in [Movers -> Replies]
        BY <1>38 DEF TypeOK, CancelReleases, cancelled
    <2>2. ClaimsTypeOK(Movers, Tokens)'
        BY <1>38, FreshIsFresh, ClaimTyped DEF CancelReleases
    <2>3. mine' \in [Procs -> Tokens \cup {Nil}]
        BY <1>38 DEF TypeOK, CancelReleases, cancelled
    <2> QED
        BY <1>38, <2>1, <2>2, <2>3 DEF TypeOK, CancelReleases, records, square, local, other,
           cancelled
<1>39. ASSUME NEW p \in Procs, AnswerCreate(p) PROVE TypeOK'
    <2>1. pc' \in [Procs -> Labels] /\ reply' \in [Movers -> Replies]
        BY <1>39 DEF TypeOK, AnswerCreate
    <2>2. ClaimsTypeOK(Movers, Tokens)'
        BY <1>39, FreshIsFresh, ClaimTyped DEF AnswerCreate, claims
    <2>3. mine' \in [Procs -> Tokens \cup {Nil}]
        BY <1>39 DEF TypeOK, AnswerCreate, claims
    <2>5. /\ made' \subseteq Movers
          /\ call' \in [Procs -> CallStates]
        BY <1>39, Working DEF AnswerCreate, TypeOK, At, Book, CallStates
    <2> QED
        BY <1>39, <2>1, <2>2, <2>3, <2>5 DEF TypeOK, AnswerCreate, records, square, local, other
<1>40. ASSUME NEW p \in Procs, AnswerCancel(p) PROVE TypeOK'
    <2>1. pc' \in [Procs -> Labels] /\ reply' \in [Movers -> Replies]
        BY <1>40 DEF TypeOK, AnswerCancel
    <2>2. ClaimsTypeOK(Movers, Tokens)'
        BY <1>40, FreshIsFresh, ClaimTyped DEF AnswerCancel, claims
    <2>3. mine' \in [Procs -> Tokens \cup {Nil}]
        BY <1>40 DEF TypeOK, AnswerCancel, claims
    <2>5. /\ source' \in [state : {"live", "replaced", "cancelled"}, version : 0..MaxEdits]
          /\ call' \in [Procs -> CallStates]
        BY <1>40 DEF AnswerCancel, TypeOK, CancelSource, CallStates
    <2> QED
        BY <1>40, <2>1, <2>2, <2>3, <2>5 DEF TypeOK, AnswerCancel, records, square, local, other
<1>41. ASSUME NEW p \in Procs, Crash(p) PROVE TypeOK'
    <2>1. pc' \in [Procs -> Labels] /\ reply' \in [Movers -> Replies]
        BY <1>41 DEF TypeOK, Crash, Labels
    <2>2. ClaimsTypeOK(Movers, Tokens)'
        BY <1>41, FreshIsFresh, ClaimTyped DEF Crash
    <2>3. mine' \in [Procs -> Tokens \cup {Nil}]
        BY <1>41 DEF TypeOK, Crash, Hold
    <2>5. /\ call' \in [Procs -> CallStates]
          /\ frozen' \in [Procs -> 0..MaxEdits]
          /\ late' \subseteq Calls
         
          /\ crashes' \in 0..MaxCrashes
          /\ read' \in [Workers -> Reads]
        BY <1>41, ConstantsOK DEF Crash, TypeOK, Abandon, CallStates, Reads
    <2> QED
        BY <1>41, <2>1, <2>2, <2>3, <2>5 DEF TypeOK, Crash, records, square, local, other, Reads
<1>42. ASSUME LateCall PROVE TypeOK'
    <2>1. pc' \in [Procs -> Labels] /\ reply' \in [Movers -> Replies]
        BY <1>42 DEF TypeOK, LateCall
    <2>2. ClaimsTypeOK(Movers, Tokens)'
        BY <1>42, FreshIsFresh, ClaimTyped DEF LateCall, claims
    <2>3. mine' \in [Procs -> Tokens \cup {Nil}]
        BY <1>42 DEF TypeOK, LateCall, claims
    <2>5. /\ late' \subseteq Calls
          /\ made' \subseteq Movers
         
          /\ source' \in [state : {"live", "replaced", "cancelled"}, version : 0..MaxEdits]
        BY <1>42 DEF LateCall, TypeOK, CancelSource, Book, Calls
    <2> QED
        BY <1>42, <2>1, <2>2, <2>3, <2>5 DEF TypeOK, LateCall, records, square, local, other
<1>43. ASSUME MerchantEdits PROVE TypeOK'
    <2>1. pc' \in [Procs -> Labels] /\ reply' \in [Movers -> Replies]
        BY <1>43 DEF TypeOK, MerchantEdits
    <2>2. ClaimsTypeOK(Movers, Tokens)'
        BY <1>43, FreshIsFresh, ClaimTyped DEF MerchantEdits, claims
    <2>3. mine' \in [Procs -> Tokens \cup {Nil}]
        BY <1>43 DEF TypeOK, MerchantEdits, claims
    <2>5. /\ edits' \in 0..MaxEdits
         
          /\ source' \in [state : {"live", "replaced", "cancelled"}, version : 0..MaxEdits]
        <3>1. edits' \in 0..MaxEdits
            BY <1>43, ConstantsOK DEF MerchantEdits, TypeOK
        <3>2. source.version \in 0..MaxEdits /\ source.version + 1 \in 0..MaxEdits
            BY <1>43, ConstantsOK DEF MerchantEdits, TypeOK, VersionOK
        <3>3. source' \in [state : {"live", "replaced", "cancelled"}, version : 0..MaxEdits]
            BY <1>43, <3>2 DEF MerchantEdits, TypeOK
        <3> QED BY <3>1, <3>3
    <2> QED
        BY <1>43, <2>1, <2>2, <2>3, <2>5 DEF TypeOK, MerchantEdits, records, square, local,
           other
<1>44. ASSUME AgeClaim PROVE TypeOK'
    <2>1. pc' \in [Procs -> Labels] /\ reply' \in [Movers -> Replies]
        BY <1>44 DEF TypeOK, AgeClaim
    <2>2. ClaimsTypeOK(Movers, Tokens)'
        BY <1>44, FreshIsFresh, ClaimTyped DEF AgeClaim
    <2>3. mine' \in [Procs -> Tokens \cup {Nil}]
        BY <1>44 DEF TypeOK, AgeClaim
    <2> QED
        BY <1>44, <2>1, <2>2, <2>3 DEF TypeOK, AgeClaim, records, square, local, other
<1> QED
    BY <1>1, <1>2, <1>3, <1>4, <1>5, <1>6, <1>7, <1>8, <1>9, <1>10, <1>11, <1>12, <1>13, <1>14,
       <1>15, <1>16, <1>17, <1>18, <1>19, <1>20, <1>21, <1>22, <1>23, <1>24, <1>25, <1>26,
       <1>27, <1>28, <1>29, <1>30, <1>31, <1>32, <1>33, <1>34, <1>35, <1>36, <1>37, <1>38,
       <1>39, <1>40, <1>41, <1>42, <1>43, <1>44 DEF Next, Freeze, Execute, Recover, Cancel,
       Environment

LEMMA JobStep == ASSUME Typed, Next PROVE JobOK'
<1> USE DEF Typed
<1>1. ASSUME NEW m \in Movers, Begin(m) PROVE JobOK'
    BY <1>1, ConstantsOK DEF TypeOK, JobOK, Begin, local, At, Procs, Goto, End, Tell, Rest
<1>2. ASSUME NEW m \in Movers, BeginRaises(m) PROVE JobOK'
    BY <1>2, ConstantsOK DEF TypeOK, JobOK, BeginRaises, local, At, Procs, End, Tell, Rest
<1>3. ASSUME NEW m \in Movers, Reread(m) PROVE JobOK'
    BY <1>3, ConstantsOK DEF TypeOK, JobOK, Reread, local, At, Procs, Goto, GiveUp, End, Tell,
       Rest
<1>4. ASSUME NEW m \in Movers, Snapshot(m) PROVE JobOK'
    BY <1>4, ConstantsOK DEF TypeOK, JobOK, Snapshot, local, At, Procs, Goto, GiveUp, End, Tell,
       Rest
<1>5. ASSUME NEW m \in Movers, ClaimSlot(m) PROVE JobOK'
    BY <1>5, ConstantsOK DEF TypeOK, JobOK, ClaimSlot, local, At, Procs, Goto, GiveUp, End,
       Tell, Rest
<1>6. ASSUME NEW m \in Movers, InsertOp(m) PROVE JobOK'
    BY <1>6, ConstantsOK DEF TypeOK, JobOK, InsertOp, local, At, Procs, Tell, Goto
<1>7. ASSUME NEW m \in Movers, InsertRaises(m) PROVE JobOK'
    BY <1>7, ConstantsOK DEF TypeOK, JobOK, InsertRaises, local, At, Procs, Tell
<1>8. ASSUME NEW m \in Movers, Undo(m) PROVE JobOK'
    BY <1>8, ConstantsOK DEF TypeOK, JobOK, Undo, local, At, Procs, Goto
<1>9. ASSUME NEW m \in Movers, HandOff(m) PROVE JobOK'
    BY <1>9, ConstantsOK DEF TypeOK, JobOK, HandOff, local, At, Procs, Goto, End, Tell, Rest
<1>10. ASSUME NEW p \in Procs, Gate(p) PROVE JobOK'
    BY <1>10, ConstantsOK DEF TypeOK, JobOK, Gate, local, At, Procs, Goto, End, Tell, Rest
<1>11. ASSUME NEW p \in Procs, NoCredential(p) PROVE JobOK'
    BY <1>11, ConstantsOK DEF TypeOK, JobOK, NoCredential, local, At, Procs, End, Tell, Rest
<1>12. ASSUME NEW p \in Procs, Adopt(p) PROVE JobOK'
    BY <1>12, ConstantsOK DEF TypeOK, JobOK, Adopt, local, At, Procs, Goto
<1>13. ASSUME NEW p \in Procs, SendCreate(p) PROVE JobOK'
    BY <1>13, ConstantsOK DEF TypeOK, JobOK, SendCreate, local, At, Procs, Goto
<1>14. ASSUME NEW p \in Procs, CreateAnswered(p) PROVE JobOK'
    BY <1>14, ConstantsOK DEF TypeOK, JobOK, CreateAnswered, local, At, Procs, Goto, End, Tell,
       Rest
<1>15. ASSUME NEW p \in Procs, MarkCreateFailed(p) PROVE JobOK'
    BY <1>15, ConstantsOK DEF TypeOK, JobOK, MarkCreateFailed, local, At, Procs, End, Tell, Rest
<1>16. ASSUME NEW p \in Procs, Name(p) PROVE JobOK'
    BY <1>16, ConstantsOK DEF TypeOK, JobOK, Name, local, At, Procs, Goto, End, Tell, Rest
<1>17. ASSUME NEW p \in Procs, InsertReplacement(p) PROVE JobOK'
    BY <1>17, ConstantsOK DEF TypeOK, JobOK, InsertReplacement, local, At, Procs, Goto, End,
       Tell, Rest
<1>18. ASSUME NEW p \in Procs, MarkConsumed(p) PROVE JobOK'
    BY <1>18, ConstantsOK DEF TypeOK, JobOK, MarkConsumed, local, At, Procs, Goto
<1>19. ASSUME NEW p \in Procs, MarkReplacementCreated(p) PROVE JobOK'
    BY <1>19, ConstantsOK DEF TypeOK, JobOK, MarkReplacementCreated, local, At, Procs, Goto,
       End, Tell, Rest
<1>20. ASSUME NEW p \in Procs, Fetch(p) PROVE JobOK'
    BY <1>20, ConstantsOK DEF TypeOK, JobOK, Fetch, local, At, Procs, Goto
<1>21. ASSUME NEW p \in Procs, StillOurs(p) PROVE JobOK'
    BY <1>21, ConstantsOK DEF TypeOK, JobOK, StillOurs, local, At, Procs, Goto, End, Tell, Rest
<1>22. ASSUME NEW p \in Procs, CancelGet(p) PROVE JobOK'
    BY <1>22, ConstantsOK DEF TypeOK, JobOK, CancelGet, local, At, Procs, Goto
<1>23. ASSUME NEW p \in Procs, SendCancel(p) PROVE JobOK'
    BY <1>23, ConstantsOK DEF TypeOK, JobOK, SendCancel, local, At, Procs, Goto
<1>24. ASSUME NEW p \in Procs, CancelAnswered(p) PROVE JobOK'
    BY <1>24, ConstantsOK DEF TypeOK, JobOK, CancelAnswered, local, At, Procs, Goto
<1>25. ASSUME NEW p \in Procs, MarkCancelFailed(p) PROVE JobOK'
    BY <1>25, ConstantsOK DEF TypeOK, JobOK, MarkCancelFailed, local, At, Procs, End, Tell, Rest
<1>26. ASSUME NEW p \in Procs, Complete(p) PROVE JobOK'
    BY <1>26, ConstantsOK DEF TypeOK, JobOK, Complete, local, At, Procs, Goto
<1>27. ASSUME NEW p \in Procs, MarkCompleted(p) PROVE JobOK'
    BY <1>27, ConstantsOK DEF TypeOK, JobOK, MarkCompleted, local, At, Procs, End, Tell, Rest
<1>28. ASSUME NEW p \in Procs, Leave(p) PROVE JobOK'
    BY <1>28, ConstantsOK DEF TypeOK, JobOK, Leave, local, At, Procs, Goto, Rest
<1>29. ASSUME NEW w \in Workers, ListStale(w) PROVE JobOK'
    BY <1>29, ConstantsOK, ClaimFields DEF TypeOK, JobOK, ListStale, local, At, Procs, Goto
<1>30. ASSUME NEW w \in Workers, LookForOp(w) PROVE JobOK'
    BY <1>30, ConstantsOK DEF TypeOK, JobOK, LookForOp, local, At, Procs, Goto
<1>31. ASSUME NEW w \in Workers, SweepOrphan(w) PROVE JobOK'
    BY <1>31, ConstantsOK DEF TypeOK, JobOK, SweepOrphan, local, At, Procs, Goto
<1>32. ASSUME NEW w \in Workers, DropStale(w) PROVE JobOK'
    BY <1>32, ConstantsOK DEF TypeOK, JobOK, DropStale, local, At, Procs, Goto
<1>33. ASSUME NEW w \in Workers, TakeOverClaim(w) PROVE JobOK'
    BY <1>33, ConstantsOK DEF TypeOK, JobOK, TakeOverClaim, local, At, Procs, Goto
<1>34. ASSUME NEW w \in Workers, AdoptToken(w) PROVE JobOK'
    BY <1>34, ConstantsOK DEF TypeOK, JobOK, AdoptToken, local, At, Procs, Goto, End, Tell, Rest
<1>35. ASSUME CancelBegins PROVE JobOK'
    BY <1>35, ConstantsOK DEF TypeOK, JobOK, CancelBegins, local, Procs, cancelled
<1>36. ASSUME CancelActs PROVE JobOK'
    BY <1>36, ConstantsOK DEF TypeOK, JobOK, CancelActs, local, Procs, cancelled
<1>37. ASSUME CancelRecords PROVE JobOK'
    BY <1>37, ConstantsOK DEF TypeOK, JobOK, CancelRecords, local, Procs, cancelled
<1>38. ASSUME CancelReleases PROVE JobOK'
    BY <1>38, ConstantsOK DEF TypeOK, JobOK, CancelReleases, local, Procs, cancelled
<1>39. ASSUME NEW p \in Procs, AnswerCreate(p) PROVE JobOK'
    BY <1>39, ConstantsOK DEF TypeOK, JobOK, AnswerCreate, local, Procs
<1>40. ASSUME NEW p \in Procs, AnswerCancel(p) PROVE JobOK'
    BY <1>40, ConstantsOK DEF TypeOK, JobOK, AnswerCancel, local, Procs
<1>41. ASSUME NEW p \in Procs, Crash(p) PROVE JobOK'
    BY <1>41, ConstantsOK DEF TypeOK, JobOK, Crash, local, Procs, Resting
<1>42. ASSUME LateCall PROVE JobOK'
    BY <1>42, ConstantsOK DEF TypeOK, JobOK, LateCall, local, Procs
<1>43. ASSUME MerchantEdits PROVE JobOK'
    BY <1>43, ConstantsOK DEF TypeOK, JobOK, MerchantEdits, local, Procs
<1>44. ASSUME AgeClaim PROVE JobOK'
    BY <1>44, ConstantsOK DEF TypeOK, JobOK, AgeClaim, local, Procs
<1> QED
    BY <1>1, <1>2, <1>3, <1>4, <1>5, <1>6, <1>7, <1>8, <1>9, <1>10, <1>11, <1>12, <1>13, <1>14,
       <1>15, <1>16, <1>17, <1>18, <1>19, <1>20, <1>21, <1>22, <1>23, <1>24, <1>25, <1>26,
       <1>27, <1>28, <1>29, <1>30, <1>31, <1>32, <1>33, <1>34, <1>35, <1>36, <1>37, <1>38,
       <1>39, <1>40, <1>41, <1>42, <1>43, <1>44 DEF Next, Freeze, Execute, Recover, Cancel,
       Environment

LEMMA VersionStep == ASSUME Typed, Next PROVE VersionOK'
<1> USE DEF Typed
<1>1. ASSUME NEW m \in Movers, Begin(m) PROVE VersionOK'
    BY <1>1 DEF TypeOK, VersionOK, Begin, square, other
<1>2. ASSUME NEW m \in Movers, BeginRaises(m) PROVE VersionOK'
    BY <1>2 DEF TypeOK, VersionOK, BeginRaises, square, other
<1>3. ASSUME NEW m \in Movers, Reread(m) PROVE VersionOK'
    BY <1>3 DEF TypeOK, VersionOK, Reread, square, other
<1>4. ASSUME NEW m \in Movers, Snapshot(m) PROVE VersionOK'
    BY <1>4 DEF TypeOK, VersionOK, Snapshot, square, other
<1>5. ASSUME NEW m \in Movers, ClaimSlot(m) PROVE VersionOK'
    BY <1>5 DEF TypeOK, VersionOK, ClaimSlot, square, other
<1>6. ASSUME NEW m \in Movers, InsertOp(m) PROVE VersionOK'
    BY <1>6 DEF TypeOK, VersionOK, InsertOp, square, other
<1>7. ASSUME NEW m \in Movers, InsertRaises(m) PROVE VersionOK'
    BY <1>7 DEF TypeOK, VersionOK, InsertRaises, square, other
<1>8. ASSUME NEW m \in Movers, Undo(m) PROVE VersionOK'
    BY <1>8 DEF TypeOK, VersionOK, Undo, square, other
<1>9. ASSUME NEW m \in Movers, HandOff(m) PROVE VersionOK'
    BY <1>9 DEF TypeOK, VersionOK, HandOff, square, other
<1>10. ASSUME NEW p \in Procs, Gate(p) PROVE VersionOK'
    BY <1>10 DEF TypeOK, VersionOK, Gate, square, other
<1>11. ASSUME NEW p \in Procs, NoCredential(p) PROVE VersionOK'
    BY <1>11 DEF TypeOK, VersionOK, NoCredential, square, other
<1>12. ASSUME NEW p \in Procs, Adopt(p) PROVE VersionOK'
    BY <1>12 DEF TypeOK, VersionOK, Adopt, square, other
<1>13. ASSUME NEW p \in Procs, SendCreate(p) PROVE VersionOK'
    BY <1>13 DEF TypeOK, VersionOK, SendCreate, square, other
<1>14. ASSUME NEW p \in Procs, CreateAnswered(p) PROVE VersionOK'
    BY <1>14 DEF TypeOK, VersionOK, CreateAnswered, square, other
<1>15. ASSUME NEW p \in Procs, MarkCreateFailed(p) PROVE VersionOK'
    BY <1>15 DEF TypeOK, VersionOK, MarkCreateFailed, square, other
<1>16. ASSUME NEW p \in Procs, Name(p) PROVE VersionOK'
    BY <1>16 DEF TypeOK, VersionOK, Name, square, other
<1>17. ASSUME NEW p \in Procs, InsertReplacement(p) PROVE VersionOK'
    BY <1>17 DEF TypeOK, VersionOK, InsertReplacement, square, other
<1>18. ASSUME NEW p \in Procs, MarkConsumed(p) PROVE VersionOK'
    BY <1>18 DEF TypeOK, VersionOK, MarkConsumed, square, other
<1>19. ASSUME NEW p \in Procs, MarkReplacementCreated(p) PROVE VersionOK'
    BY <1>19 DEF TypeOK, VersionOK, MarkReplacementCreated, square, other
<1>20. ASSUME NEW p \in Procs, Fetch(p) PROVE VersionOK'
    BY <1>20 DEF TypeOK, VersionOK, Fetch, square, other
<1>21. ASSUME NEW p \in Procs, StillOurs(p) PROVE VersionOK'
    BY <1>21 DEF TypeOK, VersionOK, StillOurs, square, other
<1>22. ASSUME NEW p \in Procs, CancelGet(p) PROVE VersionOK'
    BY <1>22 DEF TypeOK, VersionOK, CancelGet, square, other
<1>23. ASSUME NEW p \in Procs, SendCancel(p) PROVE VersionOK'
    BY <1>23 DEF TypeOK, VersionOK, SendCancel, square, other
<1>24. ASSUME NEW p \in Procs, CancelAnswered(p) PROVE VersionOK'
    BY <1>24 DEF TypeOK, VersionOK, CancelAnswered, square, other
<1>25. ASSUME NEW p \in Procs, MarkCancelFailed(p) PROVE VersionOK'
    BY <1>25 DEF TypeOK, VersionOK, MarkCancelFailed, square, other
<1>26. ASSUME NEW p \in Procs, Complete(p) PROVE VersionOK'
    BY <1>26 DEF TypeOK, VersionOK, Complete, square, other
<1>27. ASSUME NEW p \in Procs, MarkCompleted(p) PROVE VersionOK'
    BY <1>27 DEF TypeOK, VersionOK, MarkCompleted, square, other
<1>28. ASSUME NEW p \in Procs, Leave(p) PROVE VersionOK'
    BY <1>28 DEF TypeOK, VersionOK, Leave, square, other
<1>29. ASSUME NEW w \in Workers, ListStale(w) PROVE VersionOK'
    BY <1>29 DEF TypeOK, VersionOK, ListStale, square, other
<1>30. ASSUME NEW w \in Workers, LookForOp(w) PROVE VersionOK'
    BY <1>30 DEF TypeOK, VersionOK, LookForOp, square, other
<1>31. ASSUME NEW w \in Workers, SweepOrphan(w) PROVE VersionOK'
    BY <1>31 DEF TypeOK, VersionOK, SweepOrphan, square, other
<1>32. ASSUME NEW w \in Workers, DropStale(w) PROVE VersionOK'
    BY <1>32 DEF TypeOK, VersionOK, DropStale, square, other
<1>33. ASSUME NEW w \in Workers, TakeOverClaim(w) PROVE VersionOK'
    BY <1>33 DEF TypeOK, VersionOK, TakeOverClaim, square, other
<1>34. ASSUME NEW w \in Workers, AdoptToken(w) PROVE VersionOK'
    BY <1>34 DEF TypeOK, VersionOK, AdoptToken, square, other
<1>35. ASSUME CancelBegins PROVE VersionOK'
    BY <1>35 DEF TypeOK, VersionOK, CancelBegins, square, other, cancelled
<1>36. ASSUME CancelActs PROVE VersionOK'
    BY <1>36 DEF TypeOK, VersionOK, CancelActs, square, other, cancelled
<1>37. ASSUME CancelRecords PROVE VersionOK'
    BY <1>37 DEF TypeOK, VersionOK, CancelRecords, square, other, cancelled
<1>38. ASSUME CancelReleases PROVE VersionOK'
    BY <1>38 DEF TypeOK, VersionOK, CancelReleases, square, other, cancelled
<1>39. ASSUME NEW p \in Procs, AnswerCreate(p) PROVE VersionOK'
    BY <1>39 DEF TypeOK, VersionOK, AnswerCreate, square, other
<1>40. ASSUME NEW p \in Procs, AnswerCancel(p) PROVE VersionOK'
    BY <1>40 DEF TypeOK, VersionOK, AnswerCancel, square, other, CancelSource
<1>41. ASSUME NEW p \in Procs, Crash(p) PROVE VersionOK'
    BY <1>41 DEF TypeOK, VersionOK, Crash, square, other
<1>42. ASSUME LateCall PROVE VersionOK'
    BY <1>42 DEF TypeOK, VersionOK, LateCall, square, other, CancelSource
<1>43. ASSUME MerchantEdits PROVE VersionOK'
    BY <1>43, ConstantsOK DEF TypeOK, VersionOK, MerchantEdits, square, other
<1>44. ASSUME AgeClaim PROVE VersionOK'
    BY <1>44 DEF TypeOK, VersionOK, AgeClaim, square, other
<1> QED
    BY <1>1, <1>2, <1>3, <1>4, <1>5, <1>6, <1>7, <1>8, <1>9, <1>10, <1>11, <1>12, <1>13, <1>14,
       <1>15, <1>16, <1>17, <1>18, <1>19, <1>20, <1>21, <1>22, <1>23, <1>24, <1>25, <1>26,
       <1>27, <1>28, <1>29, <1>30, <1>31, <1>32, <1>33, <1>34, <1>35, <1>36, <1>37, <1>38,
       <1>39, <1>40, <1>41, <1>42, <1>43, <1>44 DEF Next, Freeze, Execute, Recover, Cancel,
       Environment

-----------------------------------------------------------------------------
(* Nothing is dropped before its replacement is booked and recorded *)

LEMMA Shape ==
    Typed => /\ pc \in [Procs -> Labels] /\ call \in [Procs -> CallStates] /\ reply \in [Movers -> Replies]
             /\ op \in [Movers -> OpRows] /\ mine \in [Procs -> Tokens \cup {Nil}]
             /\ read \in [Workers -> Reads] /\ late \subseteq Calls
             /\ Movers \subseteq Procs /\ Workers \subseteq Procs /\ Movers \cap Workers = {}
             /\ job \in [Procs -> Movers \cup {Nil}] /\ Nil \notin Movers /\ JobOK
             /\ \A p \in Procs : pc[p] # "idle" => job[p] \in Movers
BY Working, ConstantsOK DEF Typed, TypeOK, OpRows, Reads, Procs

LEMMA OrderShape ==
    Typed => /\ pc \in [Procs -> Labels] /\ call \in [Procs -> CallStates]
             /\ op \in [Movers -> OpRows] /\ Movers \subseteq Procs /\ Workers \subseteq Procs
             /\ job \in [Procs -> Movers \cup {Nil}] /\ Nil \notin Movers
             /\ \A p \in Procs : pc[p] # "idle" => job[p] \in Movers
BY Shape

LEMMA FrozenRow ==
    ASSUME NEW m
    PROVE  Frozen(m).state = "in_progress" /\ Frozen(m).token = mine[m] /\ Frozen(m).reason = Nil
BY DEF Frozen, NoOp

\* What a process leaves behind is the one call it was waiting for.
LEMMA AbandonLate ==
    ASSUME Typed, NEW p \in Procs, Abandon(p)
    PROVE  /\ call[p] # "inflight" => late' = late
           /\ \A c \in late' :
                 \/ c \in late
                 \/ pc[p] = "creating" /\ call[p] = "inflight" /\ c.kind = "create" /\ c.op = job[p]
                 \/ pc[p] = "cancelling" /\ call[p] = "inflight" /\ c.kind = "cancel"
BY DEF Abandon, Create, CancelAt, At

LEMMA OrderStep == ASSUME Typed, Order, Next PROVE Order'
<1>1. ASSUME NEW m \in Movers, Begin(m) PROVE Order'
    BY <1>1, OrderShape DEF Order, ProcOrder, Dropping, CancelReasons, Behind, Begin, records,
       square, local, other, Goto, End, Tell, At, Rest
<1>2. ASSUME NEW m \in Movers, BeginRaises(m) PROVE Order'
    BY <1>2, OrderShape DEF Order, ProcOrder, Dropping, CancelReasons, Behind, BeginRaises,
       records, square, local, other, End, Tell, At, Rest
<1>3. ASSUME NEW m \in Movers, Reread(m) PROVE Order'
    BY <1>3, OrderShape DEF Order, ProcOrder, Dropping, CancelReasons, Behind, Reread, records,
       square, local, other, Goto, GiveUp, End, Tell, At, Rest
<1>4. ASSUME NEW m \in Movers, Snapshot(m) PROVE Order'
    <2>1. /\ pc[m] = "snapshot" /\ m \in Procs
          /\ pc'[m] \in {"slot", "leave", "done", "idle"} /\ \A q \in Procs \ {m} : pc'[q] = pc[q]
        BY <1>4, OrderShape DEF Snapshot, At, Goto, GiveUp, End, Tell, Rest
    <2>2. UNCHANGED <<lineage, op, source, made, call, late, job, cancelling>>
        BY <1>4 DEF Snapshot, square, other
    <2> QED
        BY <2>1, <2>2 DEF Order, ProcOrder, Dropping, CancelReasons
<1>5. ASSUME NEW m \in Movers, ClaimSlot(m) PROVE Order'
    BY <1>5, OrderShape DEF Order, ProcOrder, Dropping, CancelReasons, Behind, ClaimSlot,
       records, square, local, other, Goto, GiveUp, End, Tell, At, Rest
<1>6. ASSUME NEW m \in Movers, InsertOp(m) PROVE Order'
    <2>1. op' = op \/ op' = [op EXCEPT ![m] = Frozen(m)]
        BY <1>6 DEF InsertOp
    <2>2. \A j \in Movers : op'[j].state \in Behind => op[j].state \in Behind
        BY <2>1, FrozenRow, OrderShape DEF Behind
    <2>3. /\ pc'[m] \in {"undo", "handoff"} /\ \A q \in Procs \ {m} : pc'[q] = pc[q]
          /\ UNCHANGED <<lineage, source, made, call, late, job, cancelling>>
        BY <1>6, OrderShape DEF InsertOp, Goto, Tell, square, other
    <2> QED
        BY <2>2, <2>3 DEF Order, ProcOrder, Dropping, CancelReasons
<1>7. ASSUME NEW m \in Movers, InsertRaises(m) PROVE Order'
    <2>1. op' = op \/ op' = [op EXCEPT ![m] = Frozen(m)]
        BY <1>7 DEF InsertRaises
    <2>2. \A j \in Movers : op'[j].state \in Behind => op[j].state \in Behind
        BY <2>1, FrozenRow, OrderShape DEF Behind
    <2>3. /\ pc'[m] \in {"undo", "handoff"} /\ \A q \in Procs \ {m} : pc'[q] = pc[q]
          /\ UNCHANGED <<lineage, source, made, call, late, job, cancelling>>
        BY <1>7, OrderShape DEF InsertRaises, Goto, Tell, square, other
    <2> QED
        BY <2>2, <2>3 DEF Order, ProcOrder, Dropping, CancelReasons
<1>8. ASSUME NEW m \in Movers, Undo(m) PROVE Order'
    BY <1>8, OrderShape DEF Order, ProcOrder, Dropping, CancelReasons, Behind, Undo, records,
       square, local, other, Goto, At
<1>9. ASSUME NEW m \in Movers, HandOff(m) PROVE Order'
    BY <1>9, OrderShape DEF Order, ProcOrder, Dropping, CancelReasons, Behind, HandOff, records,
       square, local, other, Goto, End, Tell, At, Rest
<1>10. ASSUME NEW p \in Procs, Gate(p) PROVE Order'
    BY <1>10, OrderShape DEF Order, ProcOrder, Dropping, CancelReasons, Behind, Gate, records,
       square, local, other, GateHolds, Live, Parked, LiveStates, Goto, End, Tell, At, Rest
<1>11. ASSUME NEW p \in Procs, NoCredential(p) PROVE Order'
    BY <1>11, OrderShape DEF Order, ProcOrder, Dropping, CancelReasons, Behind, NoCredential,
       records, square, local, other, End, Tell, At, Rest
<1>12. ASSUME NEW p \in Procs, Adopt(p) PROVE Order'
    BY <1>12, OrderShape DEF Order, ProcOrder, Dropping, CancelReasons, Behind, Adopt, records,
       square, local, other, Goto, At
<1>13. ASSUME NEW p \in Procs, SendCreate(p) PROVE Order'
    BY <1>13, OrderShape DEF Order, ProcOrder, Dropping, CancelReasons, Behind, SendCreate,
       records, square, local, other, Goto, At
<1>14. ASSUME NEW p \in Procs, CreateAnswered(p) PROVE Order'
    BY <1>14, OrderShape DEF Order, ProcOrder, Dropping, CancelReasons, Behind, CreateAnswered,
       records, square, local, other, Abandon, Create, CancelAt, Goto, End, Tell, At, Rest
<1>15. ASSUME NEW p \in Procs, MarkCreateFailed(p) PROVE Order'
    BY <1>15, OrderShape DEF Order, ProcOrder, Dropping, CancelReasons, Behind,
       MarkCreateFailed, records, square, local, other, Mine, End, Tell, At, Rest, OpRows
<1>16. ASSUME NEW p \in Procs, Name(p) PROVE Order'
    BY <1>16, OrderShape DEF Order, ProcOrder, Dropping, CancelReasons, Behind, Name, records,
       square, local, other, Goto, End, Tell, At, Rest, OpRows
<1>17. ASSUME NEW p \in Procs, InsertReplacement(p) PROVE Order'
    BY <1>17, OrderShape DEF Order, ProcOrder, Dropping, CancelReasons, Behind,
       InsertReplacement, records, square, local, other, Goto, End, Tell, At, Rest
<1>18. ASSUME NEW p \in Procs, MarkConsumed(p) PROVE Order'
    BY <1>18, OrderShape DEF Order, ProcOrder, Dropping, CancelReasons, Behind, MarkConsumed,
       records, square, local, other, Goto, At
<1>19. ASSUME NEW p \in Procs, MarkReplacementCreated(p) PROVE Order'
    BY <1>19, OrderShape DEF Order, ProcOrder, Dropping, CancelReasons, Behind,
       MarkReplacementCreated, records, square, local, other, Mine, Goto, End, Tell, At, Rest,
       OpRows
<1>20. ASSUME NEW p \in Procs, Fetch(p) PROVE Order'
    BY <1>20, OrderShape DEF Order, ProcOrder, Dropping, CancelReasons, Behind, Fetch, records,
       square, local, other, Goto, At
<1>21. ASSUME NEW p \in Procs, StillOurs(p) PROVE Order'
    BY <1>21, OrderShape DEF Order, ProcOrder, Dropping, CancelReasons, Behind, StillOurs,
       records, square, local, other, Goto, End, Tell, At, Rest
<1>22. ASSUME NEW p \in Procs, CancelGet(p) PROVE Order'
    BY <1>22, OrderShape DEF Order, ProcOrder, Dropping, CancelReasons, Behind, CancelGet,
       records, square, local, other, Goto, At
<1>23. ASSUME NEW p \in Procs, SendCancel(p) PROVE Order'
    BY <1>23, OrderShape DEF Order, ProcOrder, Dropping, CancelReasons, Behind, SendCancel,
       records, square, local, other, Goto, At
<1>24. ASSUME NEW p \in Procs, CancelAnswered(p) PROVE Order'
    BY <1>24, OrderShape DEF Order, ProcOrder, Dropping, CancelReasons, Behind, CancelAnswered,
       records, square, local, other, Abandon, Create, CancelAt, Goto, At
<1>25. ASSUME NEW p \in Procs, MarkCancelFailed(p) PROVE Order'
    BY <1>25, OrderShape DEF Order, ProcOrder, Dropping, CancelReasons, Behind,
       MarkCancelFailed, records, square, local, other, Mine, End, Tell, At, Rest, OpRows
<1>26. ASSUME NEW p \in Procs, Complete(p) PROVE Order'
    BY <1>26, OrderShape DEF Order, ProcOrder, Dropping, CancelReasons, Behind, Complete,
       records, square, local, other, Goto, At
<1>27. ASSUME NEW p \in Procs, MarkCompleted(p) PROVE Order'
    BY <1>27, OrderShape DEF Order, ProcOrder, Dropping, CancelReasons, Behind, MarkCompleted,
       records, square, local, other, Mine, End, Tell, At, Rest, OpRows
<1>28. ASSUME NEW p \in Procs, Leave(p) PROVE Order'
    BY <1>28, OrderShape DEF Order, ProcOrder, Dropping, CancelReasons, Behind, Leave, records,
       square, local, other, Goto, At, Rest
<1>29. ASSUME NEW w \in Workers, ListStale(w) PROVE Order'
    BY <1>29, OrderShape DEF Order, ProcOrder, Dropping, CancelReasons, Behind, ListStale,
       records, square, local, other, Goto, At
<1>30. ASSUME NEW w \in Workers, LookForOp(w) PROVE Order'
    BY <1>30, OrderShape DEF Order, ProcOrder, Dropping, CancelReasons, Behind, LookForOp,
       records, square, local, other, Goto, At
<1>31. ASSUME NEW w \in Workers, SweepOrphan(w) PROVE Order'
    BY <1>31, OrderShape DEF Order, ProcOrder, Dropping, CancelReasons, Behind, SweepOrphan,
       records, square, local, other, Goto, At
<1>32. ASSUME NEW w \in Workers, DropStale(w) PROVE Order'
    BY <1>32, OrderShape DEF Order, ProcOrder, Dropping, CancelReasons, Behind, DropStale,
       records, square, local, other, Goto, At
<1>33. ASSUME NEW w \in Workers, TakeOverClaim(w) PROVE Order'
    BY <1>33, OrderShape DEF Order, ProcOrder, Dropping, CancelReasons, Behind, TakeOverClaim,
       records, square, local, other, Goto, At
<1>34. ASSUME NEW w \in Workers, AdoptToken(w) PROVE Order'
    BY <1>34, OrderShape DEF Order, ProcOrder, Dropping, CancelReasons, Behind, AdoptToken,
       records, square, local, other, Goto, End, Tell, At, Rest, OpRows
<1>35. ASSUME CancelBegins PROVE Order'
    BY <1>35, OrderShape DEF Order, ProcOrder, Dropping, CancelReasons, Behind, CancelBegins,
       records, square, local, other, cancelled
<1>36. ASSUME CancelActs PROVE Order'
    BY <1>36, OrderShape DEF Order, ProcOrder, Dropping, CancelReasons, Behind, CancelActs,
       records, square, local, other, cancelled
<1>37. ASSUME CancelRecords PROVE Order'
    BY <1>37, OrderShape DEF Order, ProcOrder, Dropping, CancelReasons, Behind, CancelRecords,
       records, square, local, other, cancelled
<1>38. ASSUME CancelReleases PROVE Order'
    BY <1>38, OrderShape DEF Order, ProcOrder, Dropping, CancelReasons, Behind, CancelReleases,
       records, square, local, other, cancelled
<1>39. ASSUME NEW p \in Procs, AnswerCreate(p) PROVE Order'
    BY <1>39, OrderShape DEF Order, ProcOrder, Dropping, CancelReasons, Behind, AnswerCreate,
       records, square, local, other, Book, At
<1>40. ASSUME NEW p \in Procs, AnswerCancel(p) PROVE Order'
    <2>1. UNCHANGED <<pc, op, lineage, made, late, cancelling, job>> /\ pc[p] = "cancelling"
        BY <1>40 DEF AnswerCancel, At, records, local, other
    <2>2. source.state # "live" => source'.state # "live"
        BY <1>40 DEF AnswerCancel, CancelSource, Typed, TypeOK
    <2>3. call'[p] = "ok" => source'.state # "live"
        BY <1>40, OrderShape DEF AnswerCancel, CancelSource, Typed, TypeOK
    <2>4. \A q \in Procs \ {p} : call'[q] = call[q]
        BY <1>40, OrderShape DEF AnswerCancel
    <2> QED
        BY <2>1, <2>2, <2>3, <2>4 DEF Order, ProcOrder, Dropping, CancelReasons
<1>41. ASSUME NEW p \in Procs, Crash(p) PROVE Order'
    <2>1. pc'[p] \in {"idle", "crashed"} /\ \A q \in Procs \ {p} : pc'[q] = pc[q] /\ call'[q] = call[q]
        BY <1>41, OrderShape DEF Crash, Abandon
    <2>2. UNCHANGED <<lineage, op, source, made, job, cancelling>>
        BY <1>41 DEF Crash, records, other
    <2>3. \A c \in late' : c \in late \/ (c.kind = "cancel" => pc[p] = "cancelling")
        BY <1>41, AbandonLate DEF Crash
    <2> QED
        BY <2>1, <2>2, <2>3 DEF Order, ProcOrder, Dropping, CancelReasons
<1>42. ASSUME LateCall PROVE Order'
    BY <1>42, OrderShape DEF Order, ProcOrder, Dropping, CancelReasons, Behind, LateCall,
       records, square, local, other, CancelSource, Book, Calls
<1>43. ASSUME MerchantEdits PROVE Order'
    BY <1>43, OrderShape DEF Order, ProcOrder, Dropping, CancelReasons, Behind, MerchantEdits,
       records, square, local, other
<1>44. ASSUME AgeClaim PROVE Order'
    BY <1>44, OrderShape DEF Order, ProcOrder, Dropping, CancelReasons, Behind, AgeClaim,
       records, square, local, other
<1> QED
    BY <1>1, <1>2, <1>3, <1>4, <1>5, <1>6, <1>7, <1>8, <1>9, <1>10, <1>11, <1>12, <1>13, <1>14,
       <1>15, <1>16, <1>17, <1>18, <1>19, <1>20, <1>21, <1>22, <1>23, <1>24, <1>25, <1>26,
       <1>27, <1>28, <1>29, <1>30, <1>31, <1>32, <1>33, <1>34, <1>35, <1>36, <1>37, <1>38,
       <1>39, <1>40, <1>41, <1>42, <1>43, <1>44 DEF Next, Freeze, Execute, Recover, Cancel,
       Environment

-----------------------------------------------------------------------------
(* Every step is a step of Switch, or a stutter *)

LEMMA SwitchStep == ASSUME Typed, Order, Next PROVE [S!Next]_S!vars
<1> USE DEF S!vars
<1>1. ASSUME NEW m \in Movers, Begin(m) PROVE [S!Next]_S!vars
    BY <1>1 DEF Begin, records, square
<1>2. ASSUME NEW m \in Movers, BeginRaises(m) PROVE [S!Next]_S!vars
    BY <1>2 DEF BeginRaises, records, square
<1>3. ASSUME NEW m \in Movers, Reread(m) PROVE [S!Next]_S!vars
    BY <1>3 DEF Reread, records, square
<1>4. ASSUME NEW m \in Movers, Snapshot(m) PROVE [S!Next]_S!vars
    <2>1. UNCHANGED <<source, made, lineage>>
        BY <1>4 DEF Snapshot, square
    <2>2. row' = row \/ (row' = FALSE /\ source.state # "live")
        BY <1>4 DEF Snapshot
    <2> QED BY <2>1, <2>2 DEF S!Next, S!Close
<1>5. ASSUME NEW m \in Movers, ClaimSlot(m) PROVE [S!Next]_S!vars
    BY <1>5 DEF ClaimSlot, records, square
<1>6. ASSUME NEW m \in Movers, InsertOp(m) PROVE [S!Next]_S!vars
    BY <1>6 DEF InsertOp, records, square
<1>7. ASSUME NEW m \in Movers, InsertRaises(m) PROVE [S!Next]_S!vars
    BY <1>7 DEF InsertRaises, records, square
<1>8. ASSUME NEW m \in Movers, Undo(m) PROVE [S!Next]_S!vars
    BY <1>8 DEF Undo, records, square
<1>9. ASSUME NEW m \in Movers, HandOff(m) PROVE [S!Next]_S!vars
    BY <1>9 DEF HandOff, records, square
<1>10. ASSUME NEW p \in Procs, Gate(p) PROVE [S!Next]_S!vars
    BY <1>10 DEF Gate, records, square
<1>11. ASSUME NEW p \in Procs, NoCredential(p) PROVE [S!Next]_S!vars
    BY <1>11 DEF NoCredential, records, square
<1>12. ASSUME NEW p \in Procs, Adopt(p) PROVE [S!Next]_S!vars
    BY <1>12 DEF Adopt, records, square
<1>13. ASSUME NEW p \in Procs, SendCreate(p) PROVE [S!Next]_S!vars
    BY <1>13 DEF SendCreate, records, square
<1>14. ASSUME NEW p \in Procs, CreateAnswered(p) PROVE [S!Next]_S!vars
    BY <1>14 DEF CreateAnswered, records, square
<1>15. ASSUME NEW p \in Procs, MarkCreateFailed(p) PROVE [S!Next]_S!vars
    BY <1>15 DEF MarkCreateFailed, records, square
<1>16. ASSUME NEW p \in Procs, Name(p) PROVE [S!Next]_S!vars
    BY <1>16 DEF Name, records, square
<1>17. ASSUME NEW p \in Procs, InsertReplacement(p) PROVE [S!Next]_S!vars
    <2>1. UNCHANGED <<row, made, source>> /\ job[p] \in Movers /\ job[p] \in made
        BY <1>17, OrderShape DEF InsertReplacement, square, At, Order, ProcOrder
    <2>2. lineage' = lineage \/ (lineage = Nil /\ lineage' = job[p])
        BY <1>17 DEF InsertReplacement
    <2> QED BY <2>1, <2>2 DEF S!Next, S!Record
<1>18. ASSUME NEW p \in Procs, MarkConsumed(p) PROVE [S!Next]_S!vars
    BY <1>18 DEF MarkConsumed, records, square
<1>19. ASSUME NEW p \in Procs, MarkReplacementCreated(p) PROVE [S!Next]_S!vars
    BY <1>19 DEF MarkReplacementCreated, records, square
<1>20. ASSUME NEW p \in Procs, Fetch(p) PROVE [S!Next]_S!vars
    BY <1>20 DEF Fetch, records, square
<1>21. ASSUME NEW p \in Procs, StillOurs(p) PROVE [S!Next]_S!vars
    BY <1>21 DEF StillOurs, records, square
<1>22. ASSUME NEW p \in Procs, CancelGet(p) PROVE [S!Next]_S!vars
    BY <1>22 DEF CancelGet, records, square
<1>23. ASSUME NEW p \in Procs, SendCancel(p) PROVE [S!Next]_S!vars
    BY <1>23 DEF SendCancel, records, square
<1>24. ASSUME NEW p \in Procs, CancelAnswered(p) PROVE [S!Next]_S!vars
    BY <1>24 DEF CancelAnswered, records, square
<1>25. ASSUME NEW p \in Procs, MarkCancelFailed(p) PROVE [S!Next]_S!vars
    BY <1>25 DEF MarkCancelFailed, records, square
<1>26. ASSUME NEW p \in Procs, Complete(p) PROVE [S!Next]_S!vars
    <2>1. UNCHANGED <<source, made, lineage>> /\ source.state # "live"
        BY <1>26 DEF Complete, square, At, Order, ProcOrder
    <2>2. row' = row \/ row' = FALSE
        BY <1>26 DEF Complete
    <2> QED BY <2>1, <2>2 DEF S!Next, S!Close
<1>27. ASSUME NEW p \in Procs, MarkCompleted(p) PROVE [S!Next]_S!vars
    BY <1>27 DEF MarkCompleted, records, square
<1>28. ASSUME NEW p \in Procs, Leave(p) PROVE [S!Next]_S!vars
    BY <1>28 DEF Leave, records, square
<1>29. ASSUME NEW w \in Workers, ListStale(w) PROVE [S!Next]_S!vars
    BY <1>29 DEF ListStale, records, square
<1>30. ASSUME NEW w \in Workers, LookForOp(w) PROVE [S!Next]_S!vars
    BY <1>30 DEF LookForOp, records, square
<1>31. ASSUME NEW w \in Workers, SweepOrphan(w) PROVE [S!Next]_S!vars
    BY <1>31 DEF SweepOrphan, records, square
<1>32. ASSUME NEW w \in Workers, DropStale(w) PROVE [S!Next]_S!vars
    BY <1>32 DEF DropStale, records, square
<1>33. ASSUME NEW w \in Workers, TakeOverClaim(w) PROVE [S!Next]_S!vars
    BY <1>33 DEF TakeOverClaim, records, square
<1>34. ASSUME NEW w \in Workers, AdoptToken(w) PROVE [S!Next]_S!vars
    BY <1>34 DEF AdoptToken, records, square
<1>35. ASSUME CancelBegins PROVE [S!Next]_S!vars
    BY <1>35 DEF CancelBegins, records, square, cancelled
<1>36. ASSUME CancelActs PROVE [S!Next]_S!vars
    <2>1. UNCHANGED <<row, made, lineage>>
        BY <1>36 DEF CancelActs, cancelled
    <2>2. source'.state = source.state \/ (source.state = "live" /\ source'.state = "cancelled")
        BY <1>36 DEF CancelActs, Typed, TypeOK
    <2> QED BY <2>1, <2>2 DEF S!Next, S!Cancel
<1>37. ASSUME CancelRecords PROVE [S!Next]_S!vars
    <2>1. UNCHANGED <<source, made, lineage>> /\ row' = FALSE /\ source.state # "live"
        BY <1>37 DEF CancelRecords, cancelled, Order
    <2> QED BY <2>1 DEF S!Next, S!Close
<1>38. ASSUME CancelReleases PROVE [S!Next]_S!vars
    BY <1>38 DEF CancelReleases, records, square, cancelled
<1>39. ASSUME NEW p \in Procs, AnswerCreate(p) PROVE [S!Next]_S!vars
    <2>1. UNCHANGED <<row, lineage, source>> /\ job[p] \in Movers
        BY <1>39, OrderShape DEF AnswerCreate, records, At
    <2>2. made' = made \/ made' = made \cup {job[p]}
        BY <1>39 DEF AnswerCreate, Book
    <2> QED BY <2>1, <2>2 DEF S!Next, S!Book
<1>40. ASSUME NEW p \in Procs, AnswerCancel(p) PROVE [S!Next]_S!vars
    <2>1. UNCHANGED <<row, lineage, made>> /\ lineage # Nil
        BY <1>40 DEF AnswerCancel, records, At, Order, ProcOrder, Dropping
    <2>2. source'.state = source.state \/ (source.state = "live" /\ source'.state = "replaced")
        BY <1>40 DEF AnswerCancel, CancelSource, Typed, TypeOK
    <2> QED BY <2>1, <2>2 DEF S!Next, S!Replace
<1>41. ASSUME NEW p \in Procs, Crash(p) PROVE [S!Next]_S!vars
    BY <1>41 DEF Crash, records, square
<1>42. ASSUME LateCall PROVE [S!Next]_S!vars
    <2> PICK c \in late : /\ late' = late \ {c}
                      /\ \/ c.kind = "create" /\ Book(c.op) /\ UNCHANGED source
                         \/ c.kind = "cancel" /\ CancelSource(c.version) /\ UNCHANGED made
                         \/ UNCHANGED <<source, made>>
                      /\ UNCHANGED <<claims, records, call, local, other, pc, reply, crashes>>
        BY <1>42 DEF LateCall
    <2>1. UNCHANGED <<row, lineage>>
        BY DEF records
    <2>2. CASE c.kind = "create" /\ Book(c.op) /\ UNCHANGED source
        <3>1. c.op \in Movers
            BY <2>2, Shape DEF Calls
        <3> QED BY <2>1, <2>2, <3>1 DEF Book, S!Next, S!Book
    <2>3. CASE c.kind = "cancel" /\ CancelSource(c.version) /\ UNCHANGED made
        <3>1. lineage # Nil
            BY <2>3 DEF Order
        <3>2. source'.state = source.state \/ (source.state = "live" /\ source'.state = "replaced")
            BY <2>3 DEF CancelSource, Typed, TypeOK
        <3> QED BY <2>1, <2>3, <3>1, <3>2 DEF S!Next, S!Replace
    <2> QED BY <2>1, <2>2, <2>3
<1>43. ASSUME MerchantEdits PROVE [S!Next]_S!vars
    <2>1. UNCHANGED <<row, made, lineage>>
        BY <1>43 DEF MerchantEdits, records
    <2>2. source'.state = source.state \/ (source.state = "live" /\ source'.state = "cancelled")
        BY <1>43 DEF MerchantEdits, Typed, TypeOK
    <2> QED BY <2>1, <2>2 DEF S!Next, S!Cancel
<1>44. ASSUME AgeClaim PROVE [S!Next]_S!vars
    BY <1>44 DEF AgeClaim, records, square
<1> QED
    BY <1>1, <1>2, <1>3, <1>4, <1>5, <1>6, <1>7, <1>8, <1>9, <1>10, <1>11, <1>12, <1>13, <1>14,
       <1>15, <1>16, <1>17, <1>18, <1>19, <1>20, <1>21, <1>22, <1>23, <1>24, <1>25, <1>26,
       <1>27, <1>28, <1>29, <1>30, <1>31, <1>32, <1>33, <1>34, <1>35, <1>36, <1>37, <1>38,
       <1>39, <1>40, <1>41, <1>42, <1>43, <1>44 DEF Next, Freeze, Execute, Recover, Cancel,
       Environment

-----------------------------------------------------------------------------
(* Who holds the claim *)

LEMMA ClaimShape ==
    Typed => /\ Nil \notin Tokens
             /\ claim.token # Nil <=> ~Free
             /\ claim.type = "none" <=> Free
             /\ claim.type = "reschedule" => claim.op \in Movers
<1> SUFFICES ASSUME Typed
             PROVE  /\ Nil \notin Tokens
                    /\ claim.token # Nil <=> ~Free
                    /\ claim.type = "none" <=> Free
                    /\ claim.type = "reschedule" => claim.op \in Movers
    OBVIOUS
<1>1. Nil \notin Tokens
    <2>1. Tokens \subseteq Nat
        BY Sizes DEF Tokens
    <2> QED BY <2>1, NilOK
<1>2. claim \in ClaimRows(Movers, Tokens) \cup {NoClaim}
    BY DEF Typed, TypeOK, ClaimsTypeOK
<1>3. CASE claim = NoClaim
    BY <1>1, <1>3 DEF Free, NoClaim
<1>4. CASE claim \in ClaimRows(Movers, Tokens)
    BY <1>1, <1>4 DEF Free, NoClaim, ClaimRows, ClaimTypes
<1> QED BY <1>1, <1>2, <1>3, <1>4

\* The holder goes on, or stops holding; anybody else only moves about.
LEMMA HolderMoves ==
    ASSUME Typed, Exclusive, NEW p \in Procs,
           UNCHANGED <<claim, claimOld, job, cancelling, read>>,
           \A q \in Procs \ {p} : pc'[q] = pc[q] /\ mine'[q] = mine[q],
           pc[p] \notin Looking \cup {"take"}, pc'[p] \notin Looking,
           \/ mine'[p] = mine[p] /\ (pc[p] \in Owning <=> pc'[p] \in Owning)
           \/ mine'[p] = Nil /\ pc'[p] \notin Owning,
           \/ late' = late /\ (pc[p] = "provider_unknown" => mine'[p] = Nil)
           \/ Holds(p) /\ (pc'[p] = "provider_unknown" \/ mine'[p] = Nil)
    PROVE  Exclusive'
<1>1. \A q \in Procs : Owned(q)'
    BY DEF Exclusive, Owned, Holds, Ours
<1>2. \A q \in Procs : Holds(q)' => Holds(q)
    BY DEF Holds
<1>3. \A w \in Workers : Reader(w)'
    BY DEF Exclusive, Reader, Looking, Ours, Procs
<1>4. claimOld' => late' = {} /\ \A q \in Procs : ~Holds(q)'
    BY <1>2 DEF Exclusive
<1>5. late' # {} => /\ claim'.type = "reschedule"
                    /\ \A q \in Procs : Holds(q)' => pc'[q] = "provider_unknown"
    <2>1. CASE late' = late /\ (pc[p] = "provider_unknown" => mine'[p] = Nil)
        BY <1>2, <2>1 DEF Exclusive, Holds
    <2>2. CASE Holds(p) /\ (pc'[p] = "provider_unknown" \/ mine'[p] = Nil)
        <3>1. claim.type = "reschedule"
            BY <2>2 DEF Exclusive, Owned, Holds, Ours
        <3>2. \A q \in Procs : Holds(q)' => q = p
            BY <1>2, <2>2 DEF Exclusive
        <3> QED BY <2>2, <3>1, <3>2 DEF Holds
    <2> QED BY <2>1, <2>2
<1> QED BY <1>1, <1>2, <1>3, <1>4, <1>5 DEF Exclusive

LEMMA ExclusiveStep == ASSUME Typed, Exclusive, Stage, Prompt, Next PROVE Exclusive'
<1>1. ASSUME NEW m \in Movers, Begin(m) PROVE Exclusive'
    <2>1. /\ UNCHANGED <<job, cancelling, read, late>> /\ m \in Procs /\ pc[m] = "start" /\ job[m] = m
          /\ \A q \in Procs \ {m} : pc'[q] = pc[q] /\ mine'[q] = mine[q]
        BY <1>1, Shape DEF Begin, square, local, other, At, Goto, End, Tell, Hold, JobOK
    <2>2. CASE AcquireReschedule(m, Fresh) /\ Hold(m, Fresh) /\ Goto(m, "reread")
        <3>1. /\ Free /\ ~claimOld' /\ claim'.token = Fresh /\ claim'.type = "reschedule" /\ claim'.op = m
              /\ claim.type # "reschedule" /\ cancelling = "none"
            BY <2>2, ClaimShape DEF AcquireReschedule, Insert, ClaimRow, Exclusive, Free, NoClaim
        <3>2. late = {} /\ \A q \in Procs : mine[q] = Nil /\ pc[q] \notin Owning
            BY <3>1 DEF Exclusive, Owned, Ours
        <3>3. /\ mine'[m] = Fresh /\ pc'[m] = "reread" /\ Fresh # Nil
              /\ \A q \in Procs \ {m} : mine'[q] = Nil /\ pc'[q] \notin Owning
            BY <2>1, <2>2, <3>2, Shape, FreshIsFresh DEF Hold, Goto, Typed
        <3>4. \A v \in Workers : Reader(v)'
            BY <2>1, <3>1, Shape, FreshIsFresh DEF Exclusive, Reader, Looking, Typed
        <3>5. \A q \in Procs : Owned(q)'
            BY <2>1, <3>1, <3>3 DEF Owned, Holds, Ours, Owning, Validating
        <3> QED
            BY <2>1, <3>1, <3>2, <3>3, <3>4, <3>5 DEF Exclusive, Holds
    <2>3. CASE End(m, "busy") /\ UNCHANGED claimVars
        <3>1. mine'[m] = Nil /\ pc'[m] \in {"done", "idle"}
            BY <2>3, Shape DEF End, Tell, Hold, Rest
        <3> QED
            BY <2>1, <2>3, <3>1, HolderMoves DEF claimVars, Looking, Owning, Validating, Replacing, Dropping,
               CancelReasons
    <2> QED BY <1>1, <2>2, <2>3 DEF Begin
<1>2. ASSUME NEW m \in Movers, BeginRaises(m) PROVE Exclusive'
    BY <1>2, Shape, ClaimShape, FreshIsFresh DEF Exclusive, Owned, Holds, Reader, Looking,
       Owning, Ours, Validating, Replacing, Dropping, CancelReasons, BeginRaises, square, local,
       other, claims, claimVars, Hold, Typed, AcquireReschedule, Insert, ClaimRow, Free,
       NoClaim, End, Tell, At, Rest, JobOK
<1>3. ASSUME NEW m \in Movers, Reread(m) PROVE Exclusive'
    BY <1>3, Shape, ClaimShape DEF Exclusive, Owned, Holds, Reader, Looking, Owning, Ours,
       Validating, Replacing, Dropping, CancelReasons, Reread, square, local, other, claims,
       claimVars, Hold, GiveUp, Release, Delete, NoClaim, Goto, End, Tell, At, Rest, JobOK
<1>4. ASSUME NEW m \in Movers, Snapshot(m) PROVE Exclusive'
    <2>1. /\ UNCHANGED <<job, cancelling, read, late>> /\ m \in Procs /\ pc[m] = "snapshot"
          /\ \A q \in Procs \ {m} : pc'[q] = pc[q] /\ mine'[q] = mine[q]
        BY <1>4, Shape DEF Snapshot, claims, square, other, At, Goto, Tell, GiveUp, End, Hold
    <2>2. CASE UNCHANGED claims /\ pc'[m] \in {"slot", "leave"}
        BY <2>1, <2>2, HolderMoves DEF claims, claimVars, Looking, Owning, Validating
    <2>3. CASE GiveUp(m, "refused")
        <3>1. mine'[m] = Nil /\ pc'[m] \in {"done", "idle"}
            BY <2>3, Shape DEF GiveUp, End, Tell, Hold, Rest
        <3>2. CASE UNCHANGED claimVars
            BY <2>1, <3>1, <3>2, HolderMoves DEF claimVars, Looking, Owning, Validating, Replacing, Dropping,
               CancelReasons
        <3>3. CASE Release(mine[m])
            <4>1. claim' = NoClaim /\ ~claimOld' /\ Holds(m) /\ late = {} /\ claim.type = "reschedule"
                BY <2>1, <3>3 DEF Release, Delete, Exclusive, Owned, Holds, Ours, Owning, Validating
            <4>2. \A q \in Procs : mine'[q] = Nil /\ pc'[q] \notin Owning
                BY <2>1, <3>1, <4>1 DEF Exclusive, Owned, Holds, Owning, Validating, Replacing, Dropping,
                   CancelReasons
            <4> QED
                BY <2>1, <4>1, <4>2, Shape DEF Exclusive, Owned, Holds, Reader, Looking, NoClaim
        <3> QED BY <2>3, <3>2, <3>3 DEF GiveUp
    <2> QED
        BY <1>4, <2>2, <2>3, Shape DEF Snapshot, Goto, Tell
<1>5. ASSUME NEW m \in Movers, ClaimSlot(m) PROVE Exclusive'
    BY <1>5, Shape, ClaimShape DEF Exclusive, Owned, Holds, Reader, Looking, Owning, Ours,
       Validating, Replacing, Dropping, CancelReasons, ClaimSlot, square, local, other, claims,
       claimVars, Hold, GiveUp, Release, Delete, NoClaim, Goto, End, Tell, At, Rest, JobOK
<1>6. ASSUME NEW m \in Movers, InsertOp(m) PROVE Exclusive'
    <2>1. /\ UNCHANGED <<claim, claimOld, job, cancelling, read>> /\ m \in Procs
          /\ \A q \in Procs \ {m} : pc'[q] = pc[q] /\ mine'[q] = mine[q]
        BY <1>6, Shape DEF InsertOp, claims, claimVars, local, other, Tell, Goto, Hold
    <2>2. /\ pc[m] \notin Looking \cup {"take"} /\ pc'[m] \notin Looking
          /\ \/ mine'[m] = mine[m] /\ (pc[m] \in Owning <=> pc'[m] \in Owning)
             \/ mine'[m] = Nil /\ pc'[m] \notin Owning
        BY <1>6, Shape DEF InsertOp, claims, Hold, Looking, Owning, Validating, Replacing,
           Dropping, CancelReasons, Tell, Goto, At
    <2>3. late' = late /\ (pc[m] = "provider_unknown" => mine'[m] = Nil)
        BY <1>6 DEF InsertOp, square, At
    <2> QED BY <2>1, <2>2, <2>3, HolderMoves
<1>7. ASSUME NEW m \in Movers, InsertRaises(m) PROVE Exclusive'
    <2>1. /\ UNCHANGED <<claim, claimOld, job, cancelling, read>> /\ m \in Procs
          /\ \A q \in Procs \ {m} : pc'[q] = pc[q] /\ mine'[q] = mine[q]
        BY <1>7, Shape DEF InsertRaises, claims, claimVars, local, other, Tell, Hold
    <2>2. /\ pc[m] \notin Looking \cup {"take"} /\ pc'[m] \notin Looking
          /\ \/ mine'[m] = mine[m] /\ (pc[m] \in Owning <=> pc'[m] \in Owning)
             \/ mine'[m] = Nil /\ pc'[m] \notin Owning
        BY <1>7, Shape DEF InsertRaises, claims, Hold, Looking, Owning, Validating, Replacing,
           Dropping, CancelReasons, Tell, At
    <2>3. late' = late /\ (pc[m] = "provider_unknown" => mine'[m] = Nil)
        BY <1>7 DEF InsertRaises, square, At
    <2> QED BY <2>1, <2>2, <2>3, HolderMoves
<1>8. ASSUME NEW m \in Movers, Undo(m) PROVE Exclusive'
    <2>1. /\ UNCHANGED <<claim, claimOld, job, cancelling, read>> /\ m \in Procs
          /\ \A q \in Procs \ {m} : pc'[q] = pc[q] /\ mine'[q] = mine[q]
        BY <1>8, Shape DEF Undo, claims, claimVars, local, other, Goto, Hold
    <2>2. /\ pc[m] \notin Looking \cup {"take"} /\ pc'[m] \notin Looking
          /\ \/ mine'[m] = mine[m] /\ (pc[m] \in Owning <=> pc'[m] \in Owning)
             \/ mine'[m] = Nil /\ pc'[m] \notin Owning
        BY <1>8, Shape DEF Undo, claims, Hold, Looking, Owning, Validating, Replacing, Dropping,
           CancelReasons, Goto, At
    <2>3. late' = late /\ (pc[m] = "provider_unknown" => mine'[m] = Nil)
        BY <1>8 DEF Undo, square, At
    <2> QED BY <2>1, <2>2, <2>3, HolderMoves
<1>9. ASSUME NEW m \in Movers, HandOff(m) PROVE Exclusive'
    BY <1>9, Shape, ClaimShape DEF Exclusive, Owned, Holds, Reader, Looking, Owning, Ours,
       Validating, Replacing, Dropping, CancelReasons, HandOff, square, local, other, claims,
       claimVars, Hold, Goto, End, Tell, At, Rest, Stage, MoverStage, JobOK
<1>10. ASSUME NEW p \in Procs, Gate(p) PROVE Exclusive'
    <2>1. /\ UNCHANGED <<claim, claimOld, job, cancelling, read>> /\ p \in Procs
          /\ \A q \in Procs \ {p} : pc'[q] = pc[q] /\ mine'[q] = mine[q]
        BY <1>10, Shape DEF Gate, claims, claimVars, local, other, Goto, End, Tell, Hold
    <2>2. /\ pc[p] \notin Looking \cup {"take"} /\ pc'[p] \notin Looking
          /\ \/ mine'[p] = mine[p] /\ (pc[p] \in Owning <=> pc'[p] \in Owning)
             \/ mine'[p] = Nil /\ pc'[p] \notin Owning
        BY <1>10, Shape DEF Gate, claims, Hold, Looking, Owning, Validating, Replacing,
           Dropping, CancelReasons, Goto, End, Tell, At, Rest
    <2>3. late' = late /\ (pc[p] = "provider_unknown" => mine'[p] = Nil)
        BY <1>10 DEF Gate, square, At
    <2> QED BY <2>1, <2>2, <2>3, HolderMoves
<1>11. ASSUME NEW p \in Procs, NoCredential(p) PROVE Exclusive'
    <2>1. /\ UNCHANGED <<claim, claimOld, job, cancelling, read>> /\ p \in Procs
          /\ \A q \in Procs \ {p} : pc'[q] = pc[q] /\ mine'[q] = mine[q]
        BY <1>11, Shape DEF NoCredential, claims, claimVars, local, other, End, Tell, Hold
    <2>2. /\ pc[p] \notin Looking \cup {"take"} /\ pc'[p] \notin Looking
          /\ \/ mine'[p] = mine[p] /\ (pc[p] \in Owning <=> pc'[p] \in Owning)
             \/ mine'[p] = Nil /\ pc'[p] \notin Owning
        BY <1>11, Shape DEF NoCredential, claims, Hold, Looking, Owning, Validating, Replacing,
           Dropping, CancelReasons, End, Tell, At, Rest
    <2>3. late' = late /\ (pc[p] = "provider_unknown" => mine'[p] = Nil)
        BY <1>11 DEF NoCredential, square, At
    <2> QED BY <2>1, <2>2, <2>3, HolderMoves
<1>12. ASSUME NEW p \in Procs, Adopt(p) PROVE Exclusive'
    <2>1. /\ UNCHANGED <<claim, claimOld, job, cancelling, read>> /\ p \in Procs
          /\ \A q \in Procs \ {p} : pc'[q] = pc[q] /\ mine'[q] = mine[q]
        BY <1>12, Shape DEF Adopt, claims, claimVars, local, other, Goto, Hold
    <2>2. /\ pc[p] \notin Looking \cup {"take"} /\ pc'[p] \notin Looking
          /\ \/ mine'[p] = mine[p] /\ (pc[p] \in Owning <=> pc'[p] \in Owning)
             \/ mine'[p] = Nil /\ pc'[p] \notin Owning
        BY <1>12, Shape DEF Adopt, claims, Hold, Looking, Owning, Validating, Replacing,
           Dropping, CancelReasons, Goto, At
    <2>3. late' = late /\ (pc[p] = "provider_unknown" => mine'[p] = Nil)
        BY <1>12 DEF Adopt, square, At
    <2> QED BY <2>1, <2>2, <2>3, HolderMoves
<1>13. ASSUME NEW p \in Procs, SendCreate(p) PROVE Exclusive'
    <2>1. /\ UNCHANGED <<claim, claimOld, job, cancelling, read>> /\ p \in Procs
          /\ \A q \in Procs \ {p} : pc'[q] = pc[q] /\ mine'[q] = mine[q]
        BY <1>13, Shape DEF SendCreate, claims, claimVars, local, other, Goto, Hold
    <2>2. /\ pc[p] \notin Looking \cup {"take"} /\ pc'[p] \notin Looking
          /\ \/ mine'[p] = mine[p] /\ (pc[p] \in Owning <=> pc'[p] \in Owning)
             \/ mine'[p] = Nil /\ pc'[p] \notin Owning
        BY <1>13, Shape DEF SendCreate, claims, Hold, Looking, Owning, Validating, Replacing,
           Dropping, CancelReasons, Goto, At
    <2>3. late' = late /\ (pc[p] = "provider_unknown" => mine'[p] = Nil)
        BY <1>13 DEF SendCreate, square, At
    <2> QED BY <2>1, <2>2, <2>3, HolderMoves
<1>14. ASSUME NEW p \in Procs, CreateAnswered(p) PROVE Exclusive'
    <2>1. /\ UNCHANGED <<claim, claimOld, job, cancelling, read>> /\ p \in Procs
          /\ \A q \in Procs \ {p} : pc'[q] = pc[q] /\ mine'[q] = mine[q]
        BY <1>14, Shape DEF CreateAnswered, claims, claimVars, local, other, Goto, End, Tell,
           Hold
    <2>2. /\ pc[p] \notin Looking \cup {"take"} /\ pc'[p] \notin Looking
          /\ \/ mine'[p] = mine[p] /\ (pc[p] \in Owning <=> pc'[p] \in Owning)
             \/ mine'[p] = Nil /\ pc'[p] \notin Owning
        BY <1>14, Shape DEF CreateAnswered, claims, Hold, Looking, Owning, Validating,
           Replacing, Dropping, CancelReasons, Goto, End, Tell, At, Rest
    <2>3. \/ late' = late /\ (pc[p] = "provider_unknown" => mine'[p] = Nil)
          \/ Holds(p) /\ (pc'[p] = "provider_unknown" \/ mine'[p] = Nil)
        BY <1>14, AbandonLate, Shape DEF CreateAnswered, Hold, Exclusive, Owned, Owning,
           Replacing, Dropping, claims, Goto, End, Tell, At, Rest
    <2> QED BY <2>1, <2>2, <2>3, HolderMoves
<1>15. ASSUME NEW p \in Procs, MarkCreateFailed(p) PROVE Exclusive'
    <2>1. /\ UNCHANGED <<claim, claimOld, job, cancelling, read>> /\ p \in Procs
          /\ \A q \in Procs \ {p} : pc'[q] = pc[q] /\ mine'[q] = mine[q]
        BY <1>15, Shape DEF MarkCreateFailed, claims, claimVars, local, other, End, Tell, Hold
    <2>2. /\ pc[p] \notin Looking \cup {"take"} /\ pc'[p] \notin Looking
          /\ \/ mine'[p] = mine[p] /\ (pc[p] \in Owning <=> pc'[p] \in Owning)
             \/ mine'[p] = Nil /\ pc'[p] \notin Owning
        BY <1>15, Shape DEF MarkCreateFailed, claims, Hold, Looking, Owning, Validating,
           Replacing, Dropping, CancelReasons, End, Tell, At, Rest
    <2>3. late' = late /\ (pc[p] = "provider_unknown" => mine'[p] = Nil)
        BY <1>15 DEF MarkCreateFailed, square, At
    <2> QED BY <2>1, <2>2, <2>3, HolderMoves
<1>16. ASSUME NEW p \in Procs, Name(p) PROVE Exclusive'
    <2>1. /\ UNCHANGED <<claim, claimOld, job, cancelling, read>> /\ p \in Procs
          /\ \A q \in Procs \ {p} : pc'[q] = pc[q] /\ mine'[q] = mine[q]
        BY <1>16, Shape DEF Name, claims, claimVars, local, other, Goto, End, Tell, Hold
    <2>2. /\ pc[p] \notin Looking \cup {"take"} /\ pc'[p] \notin Looking
          /\ \/ mine'[p] = mine[p] /\ (pc[p] \in Owning <=> pc'[p] \in Owning)
             \/ mine'[p] = Nil /\ pc'[p] \notin Owning
        BY <1>16, Shape DEF Name, claims, Hold, Looking, Owning, Validating, Replacing,
           Dropping, CancelReasons, Goto, End, Tell, At, Rest
    <2>3. late' = late /\ (pc[p] = "provider_unknown" => mine'[p] = Nil)
        BY <1>16 DEF Name, square, At
    <2> QED BY <2>1, <2>2, <2>3, HolderMoves
<1>17. ASSUME NEW p \in Procs, InsertReplacement(p) PROVE Exclusive'
    <2>1. /\ UNCHANGED <<claim, claimOld, job, cancelling, read>> /\ p \in Procs
          /\ \A q \in Procs \ {p} : pc'[q] = pc[q] /\ mine'[q] = mine[q]
        BY <1>17, Shape DEF InsertReplacement, claims, claimVars, local, other, Goto, End, Tell,
           Hold
    <2>2. /\ pc[p] \notin Looking \cup {"take"} /\ pc'[p] \notin Looking
          /\ \/ mine'[p] = mine[p] /\ (pc[p] \in Owning <=> pc'[p] \in Owning)
             \/ mine'[p] = Nil /\ pc'[p] \notin Owning
        BY <1>17, Shape DEF InsertReplacement, claims, Hold, Looking, Owning, Validating,
           Replacing, Dropping, CancelReasons, Goto, End, Tell, At, Rest
    <2>3. late' = late /\ (pc[p] = "provider_unknown" => mine'[p] = Nil)
        BY <1>17 DEF InsertReplacement, square, At
    <2> QED BY <2>1, <2>2, <2>3, HolderMoves
<1>18. ASSUME NEW p \in Procs, MarkConsumed(p) PROVE Exclusive'
    <2>1. /\ UNCHANGED <<claim, claimOld, job, cancelling, read>> /\ p \in Procs
          /\ \A q \in Procs \ {p} : pc'[q] = pc[q] /\ mine'[q] = mine[q]
        BY <1>18, Shape DEF MarkConsumed, claims, claimVars, local, other, Goto, Hold
    <2>2. /\ pc[p] \notin Looking \cup {"take"} /\ pc'[p] \notin Looking
          /\ \/ mine'[p] = mine[p] /\ (pc[p] \in Owning <=> pc'[p] \in Owning)
             \/ mine'[p] = Nil /\ pc'[p] \notin Owning
        BY <1>18, Shape DEF MarkConsumed, claims, Hold, Looking, Owning, Validating, Replacing,
           Dropping, CancelReasons, Goto, At
    <2>3. late' = late /\ (pc[p] = "provider_unknown" => mine'[p] = Nil)
        BY <1>18 DEF MarkConsumed, square, At
    <2> QED BY <2>1, <2>2, <2>3, HolderMoves
<1>19. ASSUME NEW p \in Procs, MarkReplacementCreated(p) PROVE Exclusive'
    <2>1. /\ UNCHANGED <<claim, claimOld, job, cancelling, read>> /\ p \in Procs
          /\ \A q \in Procs \ {p} : pc'[q] = pc[q] /\ mine'[q] = mine[q]
        BY <1>19, Shape DEF MarkReplacementCreated, claims, claimVars, local, other, Goto, End,
           Tell, Hold
    <2>2. /\ pc[p] \notin Looking \cup {"take"} /\ pc'[p] \notin Looking
          /\ \/ mine'[p] = mine[p] /\ (pc[p] \in Owning <=> pc'[p] \in Owning)
             \/ mine'[p] = Nil /\ pc'[p] \notin Owning
        BY <1>19, Shape DEF MarkReplacementCreated, claims, Hold, Looking, Owning, Validating,
           Replacing, Dropping, CancelReasons, Goto, End, Tell, At, Rest
    <2>3. late' = late /\ (pc[p] = "provider_unknown" => mine'[p] = Nil)
        BY <1>19 DEF MarkReplacementCreated, square, At
    <2> QED BY <2>1, <2>2, <2>3, HolderMoves
<1>20. ASSUME NEW p \in Procs, Fetch(p) PROVE Exclusive'
    <2>1. /\ UNCHANGED <<claim, claimOld, job, cancelling, read>> /\ p \in Procs
          /\ \A q \in Procs \ {p} : pc'[q] = pc[q] /\ mine'[q] = mine[q]
        BY <1>20, Shape DEF Fetch, claims, claimVars, local, other, Goto, Hold
    <2>2. /\ pc[p] \notin Looking \cup {"take"} /\ pc'[p] \notin Looking
          /\ \/ mine'[p] = mine[p] /\ (pc[p] \in Owning <=> pc'[p] \in Owning)
             \/ mine'[p] = Nil /\ pc'[p] \notin Owning
        BY <1>20, Shape DEF Fetch, claims, Hold, Looking, Owning, Validating, Replacing,
           Dropping, CancelReasons, Goto, At
    <2>3. late' = late /\ (pc[p] = "provider_unknown" => mine'[p] = Nil)
        BY <1>20 DEF Fetch, square, At
    <2> QED BY <2>1, <2>2, <2>3, HolderMoves
<1>21. ASSUME NEW p \in Procs, StillOurs(p) PROVE Exclusive'
    <2>1. /\ UNCHANGED <<claim, claimOld, job, cancelling, read>> /\ p \in Procs
          /\ \A q \in Procs \ {p} : pc'[q] = pc[q] /\ mine'[q] = mine[q]
        BY <1>21, Shape DEF StillOurs, claims, claimVars, local, other, Goto, End, Tell, Hold
    <2>2. /\ pc[p] \notin Looking \cup {"take"} /\ pc'[p] \notin Looking
          /\ \/ mine'[p] = mine[p] /\ (pc[p] \in Owning <=> pc'[p] \in Owning)
             \/ mine'[p] = Nil /\ pc'[p] \notin Owning
        BY <1>21, Shape DEF StillOurs, claims, Hold, Looking, Owning, Validating, Replacing,
           Dropping, CancelReasons, Goto, End, Tell, At, Rest
    <2>3. late' = late /\ (pc[p] = "provider_unknown" => mine'[p] = Nil)
        BY <1>21 DEF StillOurs, square, At
    <2> QED BY <2>1, <2>2, <2>3, HolderMoves
<1>22. ASSUME NEW p \in Procs, CancelGet(p) PROVE Exclusive'
    <2>1. /\ UNCHANGED <<claim, claimOld, job, cancelling, read>> /\ p \in Procs
          /\ \A q \in Procs \ {p} : pc'[q] = pc[q] /\ mine'[q] = mine[q]
        BY <1>22, Shape DEF CancelGet, claims, claimVars, local, other, Goto, Hold
    <2>2. /\ pc[p] \notin Looking \cup {"take"} /\ pc'[p] \notin Looking
          /\ \/ mine'[p] = mine[p] /\ (pc[p] \in Owning <=> pc'[p] \in Owning)
             \/ mine'[p] = Nil /\ pc'[p] \notin Owning
        BY <1>22, Shape DEF CancelGet, claims, Hold, Looking, Owning, Validating, Replacing,
           Dropping, CancelReasons, Goto, At
    <2>3. late' = late /\ (pc[p] = "provider_unknown" => mine'[p] = Nil)
        BY <1>22 DEF CancelGet, square, At
    <2> QED BY <2>1, <2>2, <2>3, HolderMoves
<1>23. ASSUME NEW p \in Procs, SendCancel(p) PROVE Exclusive'
    <2>1. /\ UNCHANGED <<claim, claimOld, job, cancelling, read>> /\ p \in Procs
          /\ \A q \in Procs \ {p} : pc'[q] = pc[q] /\ mine'[q] = mine[q]
        BY <1>23, Shape DEF SendCancel, claims, claimVars, local, other, Goto, Hold
    <2>2. /\ pc[p] \notin Looking \cup {"take"} /\ pc'[p] \notin Looking
          /\ \/ mine'[p] = mine[p] /\ (pc[p] \in Owning <=> pc'[p] \in Owning)
             \/ mine'[p] = Nil /\ pc'[p] \notin Owning
        BY <1>23, Shape DEF SendCancel, claims, Hold, Looking, Owning, Validating, Replacing,
           Dropping, CancelReasons, Goto, At
    <2>3. late' = late /\ (pc[p] = "provider_unknown" => mine'[p] = Nil)
        BY <1>23 DEF SendCancel, square, At
    <2> QED BY <2>1, <2>2, <2>3, HolderMoves
<1>24. ASSUME NEW p \in Procs, CancelAnswered(p) PROVE Exclusive'
    <2>1. /\ UNCHANGED <<claim, claimOld, job, cancelling, read>> /\ p \in Procs
          /\ \A q \in Procs \ {p} : pc'[q] = pc[q] /\ mine'[q] = mine[q]
        BY <1>24, Shape DEF CancelAnswered, claims, claimVars, local, other, Goto, Hold
    <2>2. /\ pc[p] \notin Looking \cup {"take"} /\ pc'[p] \notin Looking
          /\ \/ mine'[p] = mine[p] /\ (pc[p] \in Owning <=> pc'[p] \in Owning)
             \/ mine'[p] = Nil /\ pc'[p] \notin Owning
        BY <1>24, Shape DEF CancelAnswered, claims, Hold, Looking, Owning, Validating,
           Replacing, Dropping, CancelReasons, Goto, At
    <2>3. \/ late' = late /\ (pc[p] = "provider_unknown" => mine'[p] = Nil)
          \/ Holds(p) /\ (pc'[p] = "provider_unknown" \/ mine'[p] = Nil)
        BY <1>24, AbandonLate, Shape DEF CancelAnswered, Hold, Exclusive, Owned, Owning,
           Replacing, Dropping, claims, Goto, At
    <2> QED BY <2>1, <2>2, <2>3, HolderMoves
<1>25. ASSUME NEW p \in Procs, MarkCancelFailed(p) PROVE Exclusive'
    <2>1. /\ UNCHANGED <<claim, claimOld, job, cancelling, read>> /\ p \in Procs
          /\ \A q \in Procs \ {p} : pc'[q] = pc[q] /\ mine'[q] = mine[q]
        BY <1>25, Shape DEF MarkCancelFailed, claims, claimVars, local, other, End, Tell, Hold
    <2>2. /\ pc[p] \notin Looking \cup {"take"} /\ pc'[p] \notin Looking
          /\ \/ mine'[p] = mine[p] /\ (pc[p] \in Owning <=> pc'[p] \in Owning)
             \/ mine'[p] = Nil /\ pc'[p] \notin Owning
        BY <1>25, Shape DEF MarkCancelFailed, claims, Hold, Looking, Owning, Validating,
           Replacing, Dropping, CancelReasons, End, Tell, At, Rest
    <2>3. late' = late /\ (pc[p] = "provider_unknown" => mine'[p] = Nil)
        BY <1>25, Shape DEF MarkCancelFailed, square, At, End, Hold
    <2> QED BY <2>1, <2>2, <2>3, HolderMoves
<1>26. ASSUME NEW p \in Procs, Complete(p) PROVE Exclusive'
    <2>1. /\ UNCHANGED <<claim, claimOld, job, cancelling, read>> /\ p \in Procs
          /\ \A q \in Procs \ {p} : pc'[q] = pc[q] /\ mine'[q] = mine[q]
        BY <1>26, Shape DEF Complete, claims, claimVars, local, other, Goto, Hold
    <2>2. /\ pc[p] \notin Looking \cup {"take"} /\ pc'[p] \notin Looking
          /\ \/ mine'[p] = mine[p] /\ (pc[p] \in Owning <=> pc'[p] \in Owning)
             \/ mine'[p] = Nil /\ pc'[p] \notin Owning
        BY <1>26, Shape DEF Complete, claims, Hold, Looking, Owning, Validating, Replacing,
           Dropping, CancelReasons, Goto, At
    <2>3. late' = late /\ (pc[p] = "provider_unknown" => mine'[p] = Nil)
        BY <1>26 DEF Complete, square, At
    <2> QED BY <2>1, <2>2, <2>3, HolderMoves
<1>27. ASSUME NEW p \in Procs, MarkCompleted(p) PROVE Exclusive'
    <2>1. /\ UNCHANGED <<claim, claimOld, job, cancelling, read>> /\ p \in Procs
          /\ \A q \in Procs \ {p} : pc'[q] = pc[q] /\ mine'[q] = mine[q]
        BY <1>27, Shape DEF MarkCompleted, claims, claimVars, local, other, End, Tell, Hold
    <2>2. /\ pc[p] \notin Looking \cup {"take"} /\ pc'[p] \notin Looking
          /\ \/ mine'[p] = mine[p] /\ (pc[p] \in Owning <=> pc'[p] \in Owning)
             \/ mine'[p] = Nil /\ pc'[p] \notin Owning
        BY <1>27, Shape DEF MarkCompleted, claims, Hold, Looking, Owning, Validating, Replacing,
           Dropping, CancelReasons, End, Tell, At, Rest
    <2>3. late' = late /\ (pc[p] = "provider_unknown" => mine'[p] = Nil)
        BY <1>27 DEF MarkCompleted, square, At
    <2> QED BY <2>1, <2>2, <2>3, HolderMoves
<1>28. ASSUME NEW p \in Procs, Leave(p) PROVE Exclusive'
    BY <1>28, Shape, ClaimShape DEF Exclusive, Owned, Holds, Reader, Looking, Owning, Ours,
       Validating, Replacing, Dropping, CancelReasons, Leave, square, local, other, claims,
       claimVars, Hold, Release, Delete, NoClaim, Goto, At, Rest
<1>29. ASSUME NEW w \in Workers, ListStale(w) PROVE Exclusive'
    BY <1>29, Shape, ClaimShape DEF Exclusive, Owned, Holds, Reader, Looking, Owning, Ours,
       Validating, Replacing, Dropping, CancelReasons, ListStale, square, local, other, claims,
       claimVars, Hold, Goto, At, Forget
<1>30. ASSUME NEW w \in Workers, LookForOp(w) PROVE Exclusive'
    <2>1. /\ UNCHANGED <<claim, claimOld, mine, job, cancelling, late>> /\ w \in Procs /\ pc[w] = "look"
          /\ \A q \in Procs \ {w} : pc'[q] = pc[q]
        BY <1>30, Shape DEF LookForOp, claims, claimVars, square, other, At, Goto
    <2>2. /\ pc'[w] \in {"sweep", "dropstale", "takeover", "idle"}
          /\ \A v \in Workers \ {w} : read'[v] = read[v]
          /\ IF pc'[w] = "idle" THEN read'[w].claim = Nil ELSE read'[w].claim = read[w].claim
        BY <1>30, Shape DEF LookForOp, Forget, Goto, Reads
    <2>3. \A q \in Procs : Owned(q)'
        BY <2>1, <2>2 DEF Exclusive, Owned, Holds, Ours, Owning, Validating, Replacing, Dropping, CancelReasons
    <2>4. \A v \in Workers : Reader(v)'
        BY <2>1, <2>2, Shape DEF Exclusive, Reader, Looking, Ours
    <2>5. \A q \in Procs : pc[q] = "provider_unknown" => pc'[q] = "provider_unknown"
        BY <2>1
    <2> QED
        BY <2>1, <2>3, <2>4, <2>5 DEF Exclusive, Holds
<1>31. ASSUME NEW w \in Workers, SweepOrphan(w) PROVE Exclusive'
    BY <1>31, Shape, ClaimShape DEF Exclusive, Owned, Holds, Reader, Looking, Owning, Ours,
       Validating, Replacing, Dropping, CancelReasons, SweepOrphan, square, local, other,
       claims, claimVars, Hold, ReleaseOrphan, Delete, Owns, NoClaim, Goto, At, Forget
<1>32. ASSUME NEW w \in Workers, DropStale(w) PROVE Exclusive'
    BY <1>32, Shape, ClaimShape DEF Exclusive, Owned, Holds, Reader, Looking, Owning, Ours,
       Validating, Replacing, Dropping, CancelReasons, DropStale, square, local, other, claims,
       claimVars, Hold, Release, Delete, NoClaim, Goto, At, Forget
<1>33. ASSUME NEW w \in Workers, TakeOverClaim(w) PROVE Exclusive'
    <2>1. UNCHANGED <<job, cancelling, late>> /\ w \in Procs /\ pc[w] = "takeover"
        BY <1>33, Shape DEF TakeOverClaim, square, other, At
    <2>2. CASE TakeOverReschedule(job[w], read[w].claim, Fresh) /\ Hold(w, Fresh) /\ Goto(w, "take")
               /\ UNCHANGED read
        <3>1. /\ claimOld /\ ~claimOld' /\ claim'.token = Fresh /\ Ours(job[w]) /\ Ours(job[w])'
              /\ claim'.type = claim.type
            BY <2>1, <2>2, ClaimShape, Shape DEF TakeOverReschedule, TakeOver, Owns, Ours, Typed, TypeOK,
               ClaimsTypeOK, ClaimRows, NoClaim
        <3>2. late = {} /\ \A q \in Procs : mine[q] = Nil /\ pc[q] \notin Owning
            BY <3>1 DEF Exclusive, Owned
        <3>3. /\ mine'[w] = Fresh /\ pc'[w] = "take" /\ Fresh # Nil
              /\ \A q \in Procs \ {w} : mine'[q] = Nil /\ pc'[q] = pc[q]
            BY <2>1, <2>2, <3>2, Shape, FreshIsFresh DEF Hold, Goto, Typed
        <3>4. \A v \in Workers : Reader(v)'
            BY <2>1, <2>2, <3>1, <3>3, Shape, FreshIsFresh DEF Exclusive, Reader, Looking, Typed
        <3>5. \A q \in Procs : Owned(q)'
            BY <2>1, <3>1, <3>2, <3>3 DEF Owned, Holds, Owning
        <3> QED
            BY <2>1, <3>1, <3>2, <3>3, <3>4, <3>5 DEF Exclusive, Holds
    <2>3. CASE UNCHANGED claims /\ Goto(w, "idle") /\ Forget(w)
        <3>1. \A q \in Procs : Owned(q)'
            BY <2>1, <2>3, Shape DEF claims, claimVars, Goto, Exclusive, Owned, Holds, Ours, Owning,
               Validating, Replacing, Dropping, CancelReasons
        <3>2. \A v \in Workers : Reader(v)'
            BY <2>1, <2>3, Shape DEF claims, claimVars, Goto, Forget, Exclusive, Reader, Looking, Ours
        <3> QED
            BY <2>1, <2>3, <3>1, <3>2, Shape DEF claims, claimVars, Goto, Exclusive, Holds
    <2> QED BY <1>33, <2>2, <2>3 DEF TakeOverClaim
<1>34. ASSUME NEW w \in Workers, AdoptToken(w) PROVE Exclusive'
    BY <1>34, Shape, ClaimShape DEF Exclusive, Owned, Holds, Reader, Looking, Owning, Ours,
       Validating, Replacing, Dropping, CancelReasons, AdoptToken, square, local, other, claims,
       claimVars, Hold, Goto, End, Tell, At, Rest, Forget
<1>35. ASSUME CancelBegins PROVE Exclusive'
    BY <1>35, Shape, ClaimShape, FreshIsFresh DEF Exclusive, Owned, Holds, Reader, Looking,
       Owning, Ours, Validating, Replacing, Dropping, CancelReasons, CancelBegins, square,
       local, other, claims, claimVars, Hold, cancelled, Typed, AcquireCancel, Insert, ClaimRow,
       Free, NoClaim
<1>36. ASSUME CancelActs PROVE Exclusive'
    BY <1>36, Shape, ClaimShape DEF Exclusive, Owned, Holds, Reader, Looking, Owning, Ours,
       Validating, Replacing, Dropping, CancelReasons, CancelActs, square, local, other, claims,
       claimVars, Hold, cancelled
<1>37. ASSUME CancelRecords PROVE Exclusive'
    BY <1>37, Shape, ClaimShape DEF Exclusive, Owned, Holds, Reader, Looking, Owning, Ours,
       Validating, Replacing, Dropping, CancelReasons, CancelRecords, square, local, other,
       claims, claimVars, Hold, cancelled
<1>38. ASSUME CancelReleases PROVE Exclusive'
    BY <1>38, Shape, ClaimShape DEF Exclusive, Owned, Holds, Reader, Looking, Owning, Ours,
       Validating, Replacing, Dropping, CancelReasons, CancelReleases, square, local, other,
       claims, claimVars, Hold, cancelled, Release, Delete, NoClaim
<1>39. ASSUME NEW p \in Procs, AnswerCreate(p) PROVE Exclusive'
    BY <1>39, Shape, ClaimShape DEF Exclusive, Owned, Holds, Reader, Looking, Owning, Ours,
       Validating, Replacing, Dropping, CancelReasons, AnswerCreate, square, local, other,
       claims, claimVars, Hold
<1>40. ASSUME NEW p \in Procs, AnswerCancel(p) PROVE Exclusive'
    BY <1>40, Shape, ClaimShape DEF Exclusive, Owned, Holds, Reader, Looking, Owning, Ours,
       Validating, Replacing, Dropping, CancelReasons, AnswerCancel, square, local, other,
       claims, claimVars, Hold
<1>41. ASSUME NEW p \in Procs, Crash(p) PROVE Exclusive'
    <2>1. /\ UNCHANGED <<claim, claimOld, job, cancelling>>
          /\ \A q \in Procs \ {p} : pc'[q] = pc[q] /\ mine'[q] = mine[q]
          /\ pc'[p] \in {"idle", "crashed"} /\ mine'[p] = Nil
        BY <1>41, Shape DEF Crash, claimVars, other, Hold
    <2>2. \A w \in Workers : IF w = p THEN read'[w].claim = Nil ELSE read'[w] = read[w]
        BY <1>41, Shape DEF Crash
    <2>3. \A q \in Procs : Owned(q)' /\ (Holds(q)' => Holds(q) /\ q # p)
        BY <2>1 DEF Exclusive, Owned, Holds, Ours, Owning, Validating, Replacing, Dropping, CancelReasons
    <2>4. \A w \in Workers : Reader(w)'
        BY <2>1, <2>2, Shape DEF Exclusive, Reader, Looking, Ours
    <2>5. late' = late \/ pc[p] \in {"creating", "cancelling"}
        BY <1>41, AbandonLate, Shape DEF Crash, Abandon, At
    <2>6. late' # late => Holds(p) /\ claim.type = "reschedule"
        BY <2>5 DEF Exclusive, Owned, Ours, Owning, Replacing, Dropping
    <2>7. late' # {} => /\ claim'.type = "reschedule"
                        /\ \A q \in Procs : Holds(q)' => pc'[q] = "provider_unknown"
        BY <2>1, <2>3, <2>6 DEF Exclusive
    <2>8. claimOld' => late' = {} /\ \A q \in Procs : ~Holds(q)'
        BY <2>1, <2>3, <2>6 DEF Exclusive
    <2> QED
        BY <2>1, <2>3, <2>4, <2>7, <2>8 DEF Exclusive
<1>42. ASSUME LateCall PROVE Exclusive'
    BY <1>42, Shape, ClaimShape DEF Exclusive, Owned, Holds, Reader, Looking, Owning, Ours,
       Validating, Replacing, Dropping, CancelReasons, LateCall, square, local, other, claims,
       claimVars, Hold
<1>43. ASSUME MerchantEdits PROVE Exclusive'
    BY <1>43, Shape, ClaimShape DEF Exclusive, Owned, Holds, Reader, Looking, Owning, Ours,
       Validating, Replacing, Dropping, CancelReasons, MerchantEdits, square, local, other,
       claims, claimVars, Hold
<1>44. ASSUME AgeClaim PROVE Exclusive'
    BY <1>44, Shape, ClaimShape DEF Exclusive, Owned, Holds, Reader, Looking, Owning, Ours,
       Validating, Replacing, Dropping, CancelReasons, AgeClaim, square, local, other, claims,
       claimVars, records, Hold, ClaimAges, Free, Resting
<1> QED
    BY <1>1, <1>2, <1>3, <1>4, <1>5, <1>6, <1>7, <1>8, <1>9, <1>10, <1>11, <1>12, <1>13, <1>14,
       <1>15, <1>16, <1>17, <1>18, <1>19, <1>20, <1>21, <1>22, <1>23, <1>24, <1>25, <1>26,
       <1>27, <1>28, <1>29, <1>30, <1>31, <1>32, <1>33, <1>34, <1>35, <1>36, <1>37, <1>38,
       <1>39, <1>40, <1>41, <1>42, <1>43, <1>44 DEF Next, Freeze, Execute, Recover, Cancel,
       Environment

-----------------------------------------------------------------------------
(* Where the holder is says what its operation is *)

\* Two processes that own the appointment are one.
LEMMA OneOwner ==
    ASSUME Exclusive, NEW p \in Procs, pc[p] \in Owning
    PROVE  /\ Holds(p) /\ Ours(job[p]) /\ ~claimOld
           /\ \A q \in Procs : pc[q] \in Owning => q = p
           /\ late # {} => pc[p] = "provider_unknown"
BY DEF Exclusive, Owned

\* What an owner's step leaves to the others: none of them is anywhere that says
\* something about the owner's operation, but that it has ended.
LEMMA StageAside ==
    ASSUME Typed, Exclusive, Stage, NEW p \in Procs, pc[p] \in Owning,
           UNCHANGED job, claim' = claim \/ claim' = NoClaim,
           \A q \in Procs \ {p} : pc'[q] = pc[q] /\ mine'[q] = mine[q],
           \A u \in Workers \ {p} : read'[u] = read[u],
           \A j \in Movers \ {job[p]} : op'[j] = op[j],
           op[job[p]].state \in {"completed", "create_failed"} => op'[job[p]].state = op[job[p]].state,
           op[job[p]].state = "none" => op'[job[p]].state = "none" \/ job[p] = p,
           ProcStage(p)', p \in Movers => MoverStage(p)', p \in Workers => WorkerStage(p)',
           \A c \in late' : LateStage(c)'
    PROVE  Stage'
<1>1. \A q \in Procs : ProcStage(q)'
    BY OneOwner DEF ProcStage, Owning
<1>2. \A j \in Movers : MoverStage(j)'
    <2> SUFFICES ASSUME NEW j \in Movers, j # p PROVE MoverStage(j)'
        OBVIOUS
    <2>1. pc'[j] = pc[j] /\ pc[j] \notin Owning
        BY OneOwner, Shape
    <2>2. op[j].state = "none" => op'[j].state = "none"
        <3>1. CASE j = job[p]
            BY <3>1
        <3>2. CASE j # job[p]
            BY <3>2
        <3> QED BY <3>1, <3>2
    <2> QED BY <2>1, <2>2 DEF Stage, MoverStage, Owning
<1>3. \A u \in Workers : WorkerStage(u)'
    <2> SUFFICES ASSUME NEW u \in Workers, u # p PROVE WorkerStage(u)'
        OBVIOUS
    <2>1. pc'[u] = pc[u] /\ read'[u] = read[u] /\ job'[u] = job[u] /\ u \in Procs
        BY Shape
    <2>2. pc[u] = "sweep" => claim'.token # read[u].claim
        BY OneOwner DEF Exclusive, Reader, Looking, NoClaim
    <2>3. pc[u] = "dropstale" => op'[job[u]].state \in {"completed", "create_failed"}
        <3>1. pc[u] = "dropstale" => job[u] \in Movers /\ op[job[u]].state \in {"completed", "create_failed"}
            BY <2>1, Shape DEF Stage, WorkerStage
        <3>2. CASE job[u] = job[p]
            BY <3>1, <3>2
        <3>3. CASE job[u] # job[p]
            BY <3>1, <3>3
        <3> QED BY <3>2, <3>3
    <2> QED BY <2>1, <2>2, <2>3 DEF WorkerStage
<1> QED BY <1>1, <1>2, <1>3 DEF Stage

LEMMA StageStep == ASSUME Typed, Exclusive, Stage, Prompt, Next PROVE Stage'
<1>1. ASSUME NEW m \in Movers, Begin(m) PROVE Stage'
    <2>1. \A q \in Procs : ProcStage(q)'
        BY <1>1, Shape, OneOwner DEF Stage, Begin, claims, claimVars, records, square, local,
           other, Goto, End, Tell, At, Rest, Hold, ProcStage, Replacing, Dropping,
           CancelReasons, Parked
    <2>2. \A j \in Movers : MoverStage(j)'
        BY <1>1, Shape, OneOwner DEF Stage, Begin, claims, claimVars, records, square, local,
           other, Goto, End, Tell, At, Rest, Hold, MoverStage, Validating, JobOK
    <2>3. \A u \in Workers : WorkerStage(u)'
        <3>1. UNCHANGED <<job, read, op>> /\ \A u \in Workers : pc'[u] = pc[u]
            BY <1>1, Shape DEF Begin, records, local, Goto, End, Tell, At, Rest, Hold
        <3>2. claim' = claim \/ claim'.token = Fresh
            BY <1>1 DEF Begin, claims, claimVars, AcquireReschedule, Insert, ClaimRow, Free,
               NoClaim
        <3> QED BY <3>1, <3>2, FreshIsFresh, Shape DEF Typed, Stage, WorkerStage
    <2>4. \A c \in late' : LateStage(c)'
        BY <1>1, Shape, OneOwner, ClaimShape DEF Stage, Begin, claims, claimVars, records,
           square, local, other, Goto, End, Tell, At, Rest, Hold, LateStage, Ours, Exclusive,
           Owned, Owning, Replacing, Dropping, CancelReasons, Parked, Free, AcquireReschedule,
           Insert, ClaimRow, NoClaim
    <2> QED BY <2>1, <2>2, <2>3, <2>4 DEF Stage
<1>2. ASSUME NEW m \in Movers, BeginRaises(m) PROVE Stage'
    <2>1. \A q \in Procs : ProcStage(q)'
        BY <1>2, Shape, OneOwner DEF Stage, BeginRaises, claims, claimVars, records, square,
           local, other, End, Tell, At, Rest, Hold, ProcStage, Replacing, Dropping,
           CancelReasons, Parked
    <2>2. \A j \in Movers : MoverStage(j)'
        BY <1>2, Shape, OneOwner DEF Stage, BeginRaises, claims, claimVars, records, square,
           local, other, End, Tell, At, Rest, Hold, MoverStage, Validating, JobOK
    <2>3. \A u \in Workers : WorkerStage(u)'
        <3>1. UNCHANGED <<job, read, op>> /\ \A u \in Workers : pc'[u] = pc[u]
            BY <1>2, Shape DEF BeginRaises, records, local, End, Tell, At, Rest, Hold
        <3>2. claim' = claim \/ claim'.token = Fresh
            BY <1>2 DEF BeginRaises, claims, claimVars, AcquireReschedule, Insert, ClaimRow,
               Free, NoClaim
        <3> QED BY <3>1, <3>2, FreshIsFresh, Shape DEF Typed, Stage, WorkerStage
    <2>4. \A c \in late' : LateStage(c)'
        BY <1>2, Shape, OneOwner, ClaimShape DEF Stage, BeginRaises, claims, claimVars, records,
           square, local, other, End, Tell, At, Rest, Hold, LateStage, Ours, Exclusive, Owned,
           Owning, Replacing, Dropping, CancelReasons, Parked, Free, AcquireReschedule, Insert,
           ClaimRow, NoClaim
    <2> QED BY <2>1, <2>2, <2>3, <2>4 DEF Stage
<1>3. ASSUME NEW m \in Movers, Reread(m) PROVE Stage'
    <2>1. m \in Procs /\ pc[m] \in Owning
        BY <1>3, Shape DEF Reread, At, Owning, Validating, Replacing, Dropping
    <2>2. /\ UNCHANGED job /\ (claim' = claim \/ claim' = NoClaim)
          /\ \A q \in Procs \ {m} : pc'[q] = pc[q] /\ mine'[q] = mine[q]
          /\ \A u \in Workers \ {m} : read'[u] = read[u]
        BY <1>3, <2>1, Shape DEF Reread, claims, claimVars, local, Goto, GiveUp, End, Tell,
           Hold, Release, Delete
    <2>3. /\ \A j \in Movers \ {job[m]} : op'[j] = op[j]
          /\ op[job[m]].state \in {"completed", "create_failed", "none"} => op'[job[m]].state = op[job[m]].state
        BY <1>3, <2>1, Shape DEF Reread, records
    <2>4. ProcStage(m)'
        BY <1>3, <2>1, Shape DEF Reread, Goto, GiveUp, End, Tell, At, Rest, Hold, Stage,
           ProcStage, Replacing, Dropping, CancelReasons, records, local, claims, Parked
    <2>5. MoverStage(m)'
        BY <1>3, <2>1, Shape DEF Reread, Goto, GiveUp, End, Tell, At, Rest, Hold, Stage,
           MoverStage, Validating, records, claims
    <2>6. m \in Workers => WorkerStage(m)'
        BY Shape
    <2>7. \A c \in late' : LateStage(c)'
        <3>1. late' = {}
            BY <1>3, <2>1, OneOwner DEF Reread, square, At
        <3> QED BY <3>1
    <2> QED
        BY <2>1, <2>2, <2>3, <2>4, <2>5, <2>6, <2>7, StageAside, Shape
<1>4. ASSUME NEW m \in Movers, Snapshot(m) PROVE Stage'
    <2>1. m \in Procs /\ pc[m] \in Owning
        BY <1>4, Shape DEF Snapshot, At, Owning, Validating, Replacing, Dropping
    <2>2. /\ UNCHANGED job /\ (claim' = claim \/ claim' = NoClaim)
          /\ \A q \in Procs \ {m} : pc'[q] = pc[q] /\ mine'[q] = mine[q]
          /\ \A u \in Workers \ {m} : read'[u] = read[u]
        BY <1>4, <2>1, Shape DEF Snapshot, claims, claimVars, local, Goto, GiveUp, End, Tell,
           Hold, Release, Delete
    <2>3. /\ \A j \in Movers \ {job[m]} : op'[j] = op[j]
          /\ op[job[m]].state \in {"completed", "create_failed", "none"} => op'[job[m]].state = op[job[m]].state
        BY <1>4, <2>1, Shape DEF Snapshot, records
    <2>4. ProcStage(m)'
        BY <1>4, <2>1, Shape DEF Snapshot, Goto, GiveUp, End, Tell, At, Rest, Hold, Stage,
           ProcStage, Replacing, Dropping, CancelReasons, records, local, claims, Parked
    <2>5. MoverStage(m)'
        BY <1>4, <2>1, Shape DEF Snapshot, Goto, GiveUp, End, Tell, At, Rest, Hold, Stage,
           MoverStage, Validating, records, claims
    <2>6. m \in Workers => WorkerStage(m)'
        BY Shape
    <2>7. \A c \in late' : LateStage(c)'
        <3>1. late' = {}
            BY <1>4, <2>1, OneOwner DEF Snapshot, square, At
        <3> QED BY <3>1
    <2> QED
        BY <2>1, <2>2, <2>3, <2>4, <2>5, <2>6, <2>7, StageAside, Shape
<1>5. ASSUME NEW m \in Movers, ClaimSlot(m) PROVE Stage'
    <2>1. m \in Procs /\ pc[m] \in Owning
        BY <1>5, Shape DEF ClaimSlot, At, Owning, Validating, Replacing, Dropping
    <2>2. /\ UNCHANGED job /\ (claim' = claim \/ claim' = NoClaim)
          /\ \A q \in Procs \ {m} : pc'[q] = pc[q] /\ mine'[q] = mine[q]
          /\ \A u \in Workers \ {m} : read'[u] = read[u]
        BY <1>5, <2>1, Shape DEF ClaimSlot, claims, claimVars, local, Goto, GiveUp, End, Tell,
           Hold, Release, Delete
    <2>3. /\ \A j \in Movers \ {job[m]} : op'[j] = op[j]
          /\ op[job[m]].state \in {"completed", "create_failed", "none"} => op'[job[m]].state = op[job[m]].state
        BY <1>5, <2>1, Shape DEF ClaimSlot, records
    <2>4. ProcStage(m)'
        BY <1>5, <2>1, Shape DEF ClaimSlot, Goto, GiveUp, End, Tell, At, Rest, Hold, Stage,
           ProcStage, Replacing, Dropping, CancelReasons, records, local, claims, Parked
    <2>5. MoverStage(m)'
        BY <1>5, <2>1, Shape DEF ClaimSlot, Goto, GiveUp, End, Tell, At, Rest, Hold, Stage,
           MoverStage, Validating, records, claims
    <2>6. m \in Workers => WorkerStage(m)'
        BY Shape
    <2>7. \A c \in late' : LateStage(c)'
        <3>1. late' = {}
            BY <1>5, <2>1, OneOwner DEF ClaimSlot, square, At
        <3> QED BY <3>1
    <2> QED
        BY <2>1, <2>2, <2>3, <2>4, <2>5, <2>6, <2>7, StageAside, Shape
<1>6. ASSUME NEW m \in Movers, InsertOp(m) PROVE Stage'
    <2>1. m \in Procs /\ pc[m] \in Owning
        BY <1>6, Shape DEF InsertOp, At, Owning, Validating, Replacing, Dropping
    <2>2. /\ UNCHANGED job /\ (claim' = claim \/ claim' = NoClaim)
          /\ \A q \in Procs \ {m} : pc'[q] = pc[q] /\ mine'[q] = mine[q]
          /\ \A u \in Workers \ {m} : read'[u] = read[u]
        BY <1>6, <2>1, Shape DEF InsertOp, claims, claimVars, local, Tell, Goto
    <2>3. pc[m] = "insert" /\ job[m] = m /\ op[m].state = "none" /\ late' = {}
        BY <1>6, <2>1, Shape, OneOwner DEF InsertOp, At, JobOK, Stage, MoverStage, Validating, square
    <2>4. /\ op' = op \/ op' = [op EXCEPT ![m] = Frozen(m)]
          /\ pc'[m] = "undo" \/ (pc'[m] = "handoff" /\ op' = [op EXCEPT ![m] = Frozen(m)])
        BY <1>6, Shape DEF InsertOp, Tell, Goto
    <2>5. \A j \in Movers \ {m} : op'[j] = op[j]
        BY <2>4, Shape
    <2>6. ProcStage(m)' /\ WorkerStage(m)'
        BY <2>1, <2>4 DEF ProcStage, WorkerStage, Replacing, Dropping, CancelReasons
    <2>7. MoverStage(m)'
        <3>1. mine' = mine
            BY <1>6 DEF InsertOp, claims
        <3> QED BY <2>4, <3>1, FrozenRow, Shape DEF MoverStage, Validating
    <2> QED
        BY <2>1, <2>2, <2>3, <2>5, <2>6, <2>7, StageAside
<1>7. ASSUME NEW m \in Movers, InsertRaises(m) PROVE Stage'
    <2>1. m \in Procs /\ pc[m] \in Owning
        BY <1>7, Shape DEF InsertRaises, At, Owning, Validating, Replacing, Dropping
    <2>2. /\ UNCHANGED job /\ (claim' = claim \/ claim' = NoClaim)
          /\ \A q \in Procs \ {m} : pc'[q] = pc[q] /\ mine'[q] = mine[q]
          /\ \A u \in Workers \ {m} : read'[u] = read[u]
        BY <1>7, <2>1, Shape DEF InsertRaises, claims, claimVars, local, Tell
    <2>3. pc[m] = "insert" /\ job[m] = m /\ op[m].state = "none" /\ late' = {}
        BY <1>7, <2>1, Shape, OneOwner DEF InsertRaises, At, JobOK, Stage, MoverStage, Validating, square
    <2>4. /\ op' = op \/ op' = [op EXCEPT ![m] = Frozen(m)]
          /\ pc'[m] = "undo" \/ (pc'[m] = "handoff" /\ op' = [op EXCEPT ![m] = Frozen(m)])
        BY <1>7, Shape DEF InsertRaises, Tell, Goto
    <2>5. \A j \in Movers \ {m} : op'[j] = op[j]
        BY <2>4, Shape
    <2>6. ProcStage(m)' /\ WorkerStage(m)'
        BY <2>1, <2>4 DEF ProcStage, WorkerStage, Replacing, Dropping, CancelReasons
    <2>7. MoverStage(m)'
        <3>1. mine' = mine
            BY <1>7 DEF InsertRaises, claims
        <3> QED BY <2>4, <3>1, FrozenRow, Shape DEF MoverStage, Validating
    <2> QED
        BY <2>1, <2>2, <2>3, <2>5, <2>6, <2>7, StageAside
<1>8. ASSUME NEW m \in Movers, Undo(m) PROVE Stage'
    <2>1. m \in Procs /\ pc[m] \in Owning
        BY <1>8, Shape DEF Undo, At, Owning, Validating, Replacing, Dropping
    <2>2. /\ UNCHANGED job /\ (claim' = claim \/ claim' = NoClaim)
          /\ \A q \in Procs \ {m} : pc'[q] = pc[q] /\ mine'[q] = mine[q]
          /\ \A u \in Workers \ {m} : read'[u] = read[u]
        BY <1>8, <2>1, Shape DEF Undo, claims, claimVars, local, Goto
    <2>3. /\ \A j \in Movers \ {job[m]} : op'[j] = op[j]
          /\ op[job[m]].state \in {"completed", "create_failed", "none"} => op'[job[m]].state = op[job[m]].state
        BY <1>8, <2>1, Shape DEF Undo, records
    <2>4. ProcStage(m)'
        BY <1>8, <2>1, Shape DEF Undo, Goto, At, Stage, ProcStage, Replacing, Dropping,
           CancelReasons, records, local, claims, Parked
    <2>5. MoverStage(m)'
        BY <1>8, <2>1, Shape DEF Undo, Goto, At, Stage, MoverStage, Validating, records, claims
    <2>6. m \in Workers => WorkerStage(m)'
        BY Shape
    <2>7. \A c \in late' : LateStage(c)'
        <3>1. late' = {}
            BY <1>8, <2>1, OneOwner DEF Undo, square, At
        <3> QED BY <3>1
    <2> QED
        BY <2>1, <2>2, <2>3, <2>4, <2>5, <2>6, <2>7, StageAside, Shape
<1>9. ASSUME NEW m \in Movers, HandOff(m) PROVE Stage'
    <2>1. m \in Procs /\ pc[m] \in Owning
        BY <1>9, Shape DEF HandOff, At, Owning, Validating, Replacing, Dropping
    <2>2. /\ UNCHANGED job /\ (claim' = claim \/ claim' = NoClaim)
          /\ \A q \in Procs \ {m} : pc'[q] = pc[q] /\ mine'[q] = mine[q]
          /\ \A u \in Workers \ {m} : read'[u] = read[u]
        BY <1>9, <2>1, Shape DEF HandOff, claims, claimVars, local, Goto, End, Tell, Hold
    <2>3. /\ \A j \in Movers \ {job[m]} : op'[j] = op[j]
          /\ op[job[m]].state \in {"completed", "create_failed", "none"} => op'[job[m]].state = op[job[m]].state
        BY <1>9, <2>1, Shape DEF HandOff, records
    <2>4. ProcStage(m)'
        BY <1>9, <2>1, Shape DEF HandOff, Goto, End, Tell, At, Rest, Hold, Stage, ProcStage,
           Replacing, Dropping, CancelReasons, records, local, claims, Parked
    <2>5. MoverStage(m)'
        BY <1>9, <2>1, Shape DEF HandOff, Goto, End, Tell, At, Rest, Hold, Stage, MoverStage,
           Validating, records, claims
    <2>6. m \in Workers => WorkerStage(m)'
        BY Shape
    <2>7. \A c \in late' : LateStage(c)'
        <3>1. late' = {}
            BY <1>9, <2>1, OneOwner DEF HandOff, square, At
        <3> QED BY <3>1
    <2> QED
        BY <2>1, <2>2, <2>3, <2>4, <2>5, <2>6, <2>7, StageAside, Shape
<1>10. ASSUME NEW p \in Procs, Gate(p) PROVE Stage'
    <2>1. p \in Procs /\ pc[p] \in Owning
        BY <1>10, Shape DEF Gate, At, Owning, Validating, Replacing, Dropping
    <2>2. /\ UNCHANGED job /\ (claim' = claim \/ claim' = NoClaim)
          /\ \A q \in Procs \ {p} : pc'[q] = pc[q] /\ mine'[q] = mine[q]
          /\ \A u \in Workers \ {p} : read'[u] = read[u]
        BY <1>10, <2>1, Shape DEF Gate, claims, claimVars, local, Goto, End, Tell, Hold
    <2>3. /\ \A j \in Movers \ {job[p]} : op'[j] = op[j]
          /\ op[job[p]].state \in {"completed", "create_failed", "none"} => op'[job[p]].state = op[job[p]].state
        BY <1>10, <2>1, Shape DEF Gate, records
    <2>4. ProcStage(p)'
        BY <1>10, <2>1, Shape DEF Gate, Goto, End, Tell, At, Rest, Hold, GateHolds, Live,
           Parked, LiveStates, Stage, ProcStage, Replacing, Dropping, CancelReasons, records,
           local, claims
    <2>5. p \in Movers => MoverStage(p)'
        BY <1>10, <2>1, Shape DEF Gate, Goto, End, Tell, At, Rest, Hold, GateHolds, Live,
           Parked, LiveStates, MoverStage, Validating
    <2>6. p \in Workers => WorkerStage(p)'
        BY <1>10, <2>1, Shape DEF Gate, Goto, End, Tell, At, Rest, Hold, GateHolds, Live,
           Parked, LiveStates, WorkerStage
    <2>7. \A c \in late' : LateStage(c)'
        <3>1. late' = {}
            BY <1>10, <2>1, OneOwner DEF Gate, square, At
        <3> QED BY <3>1
    <2> QED
        BY <2>1, <2>2, <2>3, <2>4, <2>5, <2>6, <2>7, StageAside, Shape
<1>11. ASSUME NEW p \in Procs, NoCredential(p) PROVE Stage'
    <2>1. p \in Procs /\ pc[p] \in Owning
        BY <1>11, Shape DEF NoCredential, At, Owning, Validating, Replacing, Dropping
    <2>2. /\ UNCHANGED job /\ (claim' = claim \/ claim' = NoClaim)
          /\ \A q \in Procs \ {p} : pc'[q] = pc[q] /\ mine'[q] = mine[q]
          /\ \A u \in Workers \ {p} : read'[u] = read[u]
        BY <1>11, <2>1, Shape DEF NoCredential, claims, claimVars, local, End, Tell, Hold
    <2>3. /\ \A j \in Movers \ {job[p]} : op'[j] = op[j]
          /\ op[job[p]].state \in {"completed", "create_failed", "none"} => op'[job[p]].state = op[job[p]].state
        BY <1>11, <2>1, Shape DEF NoCredential, records
    <2>4. ProcStage(p)'
        BY <1>11, <2>1, Shape DEF NoCredential, End, Tell, At, Rest, Hold, Stage, ProcStage,
           Replacing, Dropping, CancelReasons, records, local, claims, Parked
    <2>5. p \in Movers => MoverStage(p)'
        BY <1>11, <2>1, Shape DEF NoCredential, End, Tell, At, Rest, Hold, MoverStage,
           Validating
    <2>6. p \in Workers => WorkerStage(p)'
        BY <1>11, <2>1, Shape DEF NoCredential, End, Tell, At, Rest, Hold, WorkerStage
    <2>7. \A c \in late' : LateStage(c)'
        <3>1. late' = {}
            BY <1>11, <2>1, OneOwner DEF NoCredential, square, At
        <3> QED BY <3>1
    <2> QED
        BY <2>1, <2>2, <2>3, <2>4, <2>5, <2>6, <2>7, StageAside, Shape
<1>12. ASSUME NEW p \in Procs, Adopt(p) PROVE Stage'
    <2>1. p \in Procs /\ pc[p] \in Owning
        BY <1>12, Shape DEF Adopt, At, Owning, Validating, Replacing, Dropping
    <2>2. /\ UNCHANGED job /\ (claim' = claim \/ claim' = NoClaim)
          /\ \A q \in Procs \ {p} : pc'[q] = pc[q] /\ mine'[q] = mine[q]
          /\ \A u \in Workers \ {p} : read'[u] = read[u]
        BY <1>12, <2>1, Shape DEF Adopt, claims, claimVars, local, Goto
    <2>3. /\ \A j \in Movers \ {job[p]} : op'[j] = op[j]
          /\ op[job[p]].state \in {"completed", "create_failed", "none"} => op'[job[p]].state = op[job[p]].state
        BY <1>12, <2>1, Shape DEF Adopt, records
    <2>4. ProcStage(p)'
        BY <1>12, <2>1, Shape DEF Adopt, Goto, At, Stage, ProcStage, Replacing, Dropping,
           CancelReasons, records, local, claims, Parked
    <2>5. p \in Movers => MoverStage(p)'
        BY <1>12, <2>1, Shape DEF Adopt, Goto, At, MoverStage, Validating
    <2>6. p \in Workers => WorkerStage(p)'
        BY <1>12, <2>1, Shape DEF Adopt, Goto, At, WorkerStage
    <2>7. \A c \in late' : LateStage(c)'
        <3>1. late' = {}
            BY <1>12, <2>1, OneOwner DEF Adopt, square, At
        <3> QED BY <3>1
    <2> QED
        BY <2>1, <2>2, <2>3, <2>4, <2>5, <2>6, <2>7, StageAside, Shape
<1>13. ASSUME NEW p \in Procs, SendCreate(p) PROVE Stage'
    <2>1. p \in Procs /\ pc[p] \in Owning
        BY <1>13, Shape DEF SendCreate, At, Owning, Validating, Replacing, Dropping
    <2>2. /\ UNCHANGED job /\ (claim' = claim \/ claim' = NoClaim)
          /\ \A q \in Procs \ {p} : pc'[q] = pc[q] /\ mine'[q] = mine[q]
          /\ \A u \in Workers \ {p} : read'[u] = read[u]
        BY <1>13, <2>1, Shape DEF SendCreate, claims, claimVars, local, Goto
    <2>3. /\ \A j \in Movers \ {job[p]} : op'[j] = op[j]
          /\ op[job[p]].state \in {"completed", "create_failed", "none"} => op'[job[p]].state = op[job[p]].state
        BY <1>13, <2>1, Shape DEF SendCreate, records
    <2>4. ProcStage(p)'
        BY <1>13, <2>1, Shape DEF SendCreate, Goto, At, Stage, ProcStage, Replacing, Dropping,
           CancelReasons, records, local, claims, Parked
    <2>5. p \in Movers => MoverStage(p)'
        BY <1>13, <2>1, Shape DEF SendCreate, Goto, At, MoverStage, Validating
    <2>6. p \in Workers => WorkerStage(p)'
        BY <1>13, <2>1, Shape DEF SendCreate, Goto, At, WorkerStage
    <2>7. \A c \in late' : LateStage(c)'
        <3>1. late' = {}
            BY <1>13, <2>1, OneOwner DEF SendCreate, square, At
        <3> QED BY <3>1
    <2> QED
        BY <2>1, <2>2, <2>3, <2>4, <2>5, <2>6, <2>7, StageAside, Shape
<1>14. ASSUME NEW p \in Procs, CreateAnswered(p) PROVE Stage'
    <2>1. p \in Procs /\ pc[p] \in Owning
        BY <1>14, Shape DEF CreateAnswered, At, Owning, Validating, Replacing, Dropping
    <2>2. /\ UNCHANGED job /\ (claim' = claim \/ claim' = NoClaim)
          /\ \A q \in Procs \ {p} : pc'[q] = pc[q] /\ mine'[q] = mine[q]
          /\ \A u \in Workers \ {p} : read'[u] = read[u]
        BY <1>14, <2>1, Shape DEF CreateAnswered, claims, claimVars, local, Goto, End, Tell,
           Hold
    <2>3. /\ \A j \in Movers \ {job[p]} : op'[j] = op[j]
          /\ op[job[p]].state \in {"completed", "create_failed", "none"} => op'[job[p]].state = op[job[p]].state
        BY <1>14, <2>1, Shape DEF CreateAnswered, records
    <2>4. ProcStage(p)'
        BY <1>14, <2>1, Shape DEF CreateAnswered, Goto, End, Tell, At, Rest, Hold, Stage,
           ProcStage, Replacing, Dropping, CancelReasons, records, local, claims, Parked
    <2>5. p \in Movers => MoverStage(p)'
        BY <1>14, <2>1, Shape DEF CreateAnswered, Goto, End, Tell, At, Rest, Hold, MoverStage,
           Validating
    <2>6. p \in Workers => WorkerStage(p)'
        BY <1>14, <2>1, Shape DEF CreateAnswered, Goto, End, Tell, At, Rest, Hold, WorkerStage
    <2>7. \A c \in late' : LateStage(c)'
        <3>1. late = {} /\ Ours(job[p]) /\ UNCHANGED <<claim, op>> /\ job[p] \in Movers
            BY <1>14, <2>1, OneOwner, Shape DEF CreateAnswered, At, claims, claimVars, records
        <3>2. \A c \in late' : c.kind = "create" /\ (c.kind = "create" => c.op = job[p])
            BY <1>14, <3>1, AbandonLate DEF CreateAnswered, At
        <3> QED
            BY <1>14, <3>1, <3>2, OneOwner DEF CreateAnswered, At, Stage, ProcStage, LateStage, Ours, Replacing, Dropping, Parked
    <2> QED
        BY <2>1, <2>2, <2>3, <2>4, <2>5, <2>6, <2>7, StageAside, Shape
<1>15. ASSUME NEW p \in Procs, MarkCreateFailed(p) PROVE Stage'
    <2>1. p \in Procs /\ pc[p] \in Owning
        BY <1>15, Shape DEF MarkCreateFailed, At, Owning, Validating, Replacing, Dropping
    <2>2. /\ UNCHANGED job /\ (claim' = claim \/ claim' = NoClaim)
          /\ \A q \in Procs \ {p} : pc'[q] = pc[q] /\ mine'[q] = mine[q]
          /\ \A u \in Workers \ {p} : read'[u] = read[u]
        BY <1>15, <2>1, Shape DEF MarkCreateFailed, claims, claimVars, local, End, Tell, Hold
    <2>3. /\ \A j \in Movers \ {job[p]} : op'[j] = op[j]
          /\ op[job[p]].state \in {"completed", "create_failed", "none"} => op'[job[p]].state = op[job[p]].state
        BY <1>15, <2>1, Shape DEF MarkCreateFailed, records, OpRows, At, Stage, ProcStage,
           Replacing, Dropping, Mine
    <2>4. ProcStage(p)'
        BY <1>15, <2>1, Shape DEF MarkCreateFailed, End, Tell, At, Rest, Hold, Mine, Stage,
           ProcStage, Replacing, Dropping, CancelReasons, records, local, claims, OpRows, Parked
    <2>5. p \in Movers => MoverStage(p)'
        BY <1>15, <2>1, Shape DEF MarkCreateFailed, End, Tell, At, Rest, Hold, Mine, MoverStage,
           Validating
    <2>6. p \in Workers => WorkerStage(p)'
        BY <1>15, <2>1, Shape DEF MarkCreateFailed, End, Tell, At, Rest, Hold, Mine, WorkerStage
    <2>7. \A c \in late' : LateStage(c)'
        <3>1. late' = {}
            BY <1>15, <2>1, OneOwner DEF MarkCreateFailed, square, At
        <3> QED BY <3>1
    <2> QED
        BY <2>1, <2>2, <2>3, <2>4, <2>5, <2>6, <2>7, StageAside, Shape
<1>16. ASSUME NEW p \in Procs, Name(p) PROVE Stage'
    <2>1. p \in Procs /\ pc[p] \in Owning
        BY <1>16, Shape DEF Name, At, Owning, Validating, Replacing, Dropping
    <2>2. /\ UNCHANGED job /\ (claim' = claim \/ claim' = NoClaim)
          /\ \A q \in Procs \ {p} : pc'[q] = pc[q] /\ mine'[q] = mine[q]
          /\ \A u \in Workers \ {p} : read'[u] = read[u]
        BY <1>16, <2>1, Shape DEF Name, claims, claimVars, local, Goto, End, Tell, Hold
    <2>3. /\ \A j \in Movers \ {job[p]} : op'[j] = op[j]
          /\ op[job[p]].state \in {"completed", "create_failed", "none"} => op'[job[p]].state = op[job[p]].state
        BY <1>16, <2>1, Shape DEF Name, records, OpRows, At, Stage, ProcStage, Replacing,
           Dropping
    <2>4. ProcStage(p)'
        BY <1>16, <2>1, Shape DEF Name, Goto, End, Tell, At, Rest, Hold, Stage, ProcStage,
           Replacing, Dropping, CancelReasons, records, local, claims, OpRows, Parked
    <2>5. p \in Movers => MoverStage(p)'
        BY <1>16, <2>1, Shape DEF Name, Goto, End, Tell, At, Rest, Hold, MoverStage, Validating
    <2>6. p \in Workers => WorkerStage(p)'
        BY <1>16, <2>1, Shape DEF Name, Goto, End, Tell, At, Rest, Hold, WorkerStage
    <2>7. \A c \in late' : LateStage(c)'
        <3>1. late' = {}
            BY <1>16, <2>1, OneOwner DEF Name, square, At
        <3> QED BY <3>1
    <2> QED
        BY <2>1, <2>2, <2>3, <2>4, <2>5, <2>6, <2>7, StageAside, Shape
<1>17. ASSUME NEW p \in Procs, InsertReplacement(p) PROVE Stage'
    <2>1. p \in Procs /\ pc[p] \in Owning
        BY <1>17, Shape DEF InsertReplacement, At, Owning, Validating, Replacing, Dropping
    <2>2. /\ UNCHANGED job /\ (claim' = claim \/ claim' = NoClaim)
          /\ \A q \in Procs \ {p} : pc'[q] = pc[q] /\ mine'[q] = mine[q]
          /\ \A u \in Workers \ {p} : read'[u] = read[u]
        BY <1>17, <2>1, Shape DEF InsertReplacement, claims, claimVars, local, Goto, End, Tell,
           Hold
    <2>3. /\ \A j \in Movers \ {job[p]} : op'[j] = op[j]
          /\ op[job[p]].state \in {"completed", "create_failed", "none"} => op'[job[p]].state = op[job[p]].state
        BY <1>17, <2>1, Shape DEF InsertReplacement, records
    <2>4. ProcStage(p)'
        BY <1>17, <2>1, Shape DEF InsertReplacement, Goto, End, Tell, At, Rest, Hold, Stage,
           ProcStage, Replacing, Dropping, CancelReasons, records, local, claims, Parked
    <2>5. p \in Movers => MoverStage(p)'
        BY <1>17, <2>1, Shape DEF InsertReplacement, Goto, End, Tell, At, Rest, Hold,
           MoverStage, Validating
    <2>6. p \in Workers => WorkerStage(p)'
        BY <1>17, <2>1, Shape DEF InsertReplacement, Goto, End, Tell, At, Rest, Hold,
           WorkerStage
    <2>7. \A c \in late' : LateStage(c)'
        <3>1. late' = {}
            BY <1>17, <2>1, OneOwner DEF InsertReplacement, square, At
        <3> QED BY <3>1
    <2> QED
        BY <2>1, <2>2, <2>3, <2>4, <2>5, <2>6, <2>7, StageAside, Shape
<1>18. ASSUME NEW p \in Procs, MarkConsumed(p) PROVE Stage'
    <2>1. p \in Procs /\ pc[p] \in Owning
        BY <1>18, Shape DEF MarkConsumed, At, Owning, Validating, Replacing, Dropping
    <2>2. /\ UNCHANGED job /\ (claim' = claim \/ claim' = NoClaim)
          /\ \A q \in Procs \ {p} : pc'[q] = pc[q] /\ mine'[q] = mine[q]
          /\ \A u \in Workers \ {p} : read'[u] = read[u]
        BY <1>18, <2>1, Shape DEF MarkConsumed, claims, claimVars, local, Goto
    <2>3. /\ \A j \in Movers \ {job[p]} : op'[j] = op[j]
          /\ op[job[p]].state \in {"completed", "create_failed", "none"} => op'[job[p]].state = op[job[p]].state
        BY <1>18, <2>1, Shape DEF MarkConsumed, records
    <2>4. ProcStage(p)'
        BY <1>18, <2>1, Shape DEF MarkConsumed, Goto, At, Stage, ProcStage, Replacing, Dropping,
           CancelReasons, records, local, claims, Parked
    <2>5. p \in Movers => MoverStage(p)'
        BY <1>18, <2>1, Shape DEF MarkConsumed, Goto, At, MoverStage, Validating
    <2>6. p \in Workers => WorkerStage(p)'
        BY <1>18, <2>1, Shape DEF MarkConsumed, Goto, At, WorkerStage
    <2>7. \A c \in late' : LateStage(c)'
        <3>1. late' = {}
            BY <1>18, <2>1, OneOwner DEF MarkConsumed, square, At
        <3> QED BY <3>1
    <2> QED
        BY <2>1, <2>2, <2>3, <2>4, <2>5, <2>6, <2>7, StageAside, Shape
<1>19. ASSUME NEW p \in Procs, MarkReplacementCreated(p) PROVE Stage'
    <2>1. p \in Procs /\ pc[p] \in Owning
        BY <1>19, Shape DEF MarkReplacementCreated, At, Owning, Validating, Replacing, Dropping
    <2>2. /\ UNCHANGED job /\ (claim' = claim \/ claim' = NoClaim)
          /\ \A q \in Procs \ {p} : pc'[q] = pc[q] /\ mine'[q] = mine[q]
          /\ \A u \in Workers \ {p} : read'[u] = read[u]
        BY <1>19, <2>1, Shape DEF MarkReplacementCreated, claims, claimVars, local, Goto, End,
           Tell, Hold
    <2>3. /\ \A j \in Movers \ {job[p]} : op'[j] = op[j]
          /\ op[job[p]].state \in {"completed", "create_failed", "none"} => op'[job[p]].state = op[job[p]].state
        BY <1>19, <2>1, Shape DEF MarkReplacementCreated, records, OpRows, At, Stage, ProcStage,
           Replacing, Dropping, Mine
    <2>4. ProcStage(p)'
        BY <1>19, <2>1, Shape DEF MarkReplacementCreated, Goto, End, Tell, At, Rest, Hold, Mine,
           Stage, ProcStage, Replacing, Dropping, CancelReasons, records, local, claims, OpRows,
           Parked
    <2>5. p \in Movers => MoverStage(p)'
        BY <1>19, <2>1, Shape DEF MarkReplacementCreated, Goto, End, Tell, At, Rest, Hold, Mine,
           MoverStage, Validating
    <2>6. p \in Workers => WorkerStage(p)'
        BY <1>19, <2>1, Shape DEF MarkReplacementCreated, Goto, End, Tell, At, Rest, Hold, Mine,
           WorkerStage
    <2>7. \A c \in late' : LateStage(c)'
        <3>1. late' = {}
            BY <1>19, <2>1, OneOwner DEF MarkReplacementCreated, square, At
        <3> QED BY <3>1
    <2> QED
        BY <2>1, <2>2, <2>3, <2>4, <2>5, <2>6, <2>7, StageAside, Shape
<1>20. ASSUME NEW p \in Procs, Fetch(p) PROVE Stage'
    <2>1. p \in Procs /\ pc[p] \in Owning
        BY <1>20, Shape DEF Fetch, At, Owning, Validating, Replacing, Dropping
    <2>2. /\ UNCHANGED job /\ (claim' = claim \/ claim' = NoClaim)
          /\ \A q \in Procs \ {p} : pc'[q] = pc[q] /\ mine'[q] = mine[q]
          /\ \A u \in Workers \ {p} : read'[u] = read[u]
        BY <1>20, <2>1, Shape DEF Fetch, claims, claimVars, local, Goto
    <2>3. /\ \A j \in Movers \ {job[p]} : op'[j] = op[j]
          /\ op[job[p]].state \in {"completed", "create_failed", "none"} => op'[job[p]].state = op[job[p]].state
        BY <1>20, <2>1, Shape DEF Fetch, records
    <2>4. ProcStage(p)'
        BY <1>20, <2>1, Shape DEF Fetch, Goto, At, Stage, ProcStage, Replacing, Dropping,
           CancelReasons, records, local, claims, Parked
    <2>5. p \in Movers => MoverStage(p)'
        BY <1>20, <2>1, Shape DEF Fetch, Goto, At, MoverStage, Validating
    <2>6. p \in Workers => WorkerStage(p)'
        BY <1>20, <2>1, Shape DEF Fetch, Goto, At, WorkerStage
    <2>7. \A c \in late' : LateStage(c)'
        <3>1. late' = {}
            BY <1>20, <2>1, OneOwner DEF Fetch, square, At
        <3> QED BY <3>1
    <2> QED
        BY <2>1, <2>2, <2>3, <2>4, <2>5, <2>6, <2>7, StageAside, Shape
<1>21. ASSUME NEW p \in Procs, StillOurs(p) PROVE Stage'
    <2>1. p \in Procs /\ pc[p] \in Owning
        BY <1>21, Shape DEF StillOurs, At, Owning, Validating, Replacing, Dropping
    <2>2. /\ UNCHANGED job /\ (claim' = claim \/ claim' = NoClaim)
          /\ \A q \in Procs \ {p} : pc'[q] = pc[q] /\ mine'[q] = mine[q]
          /\ \A u \in Workers \ {p} : read'[u] = read[u]
        BY <1>21, <2>1, Shape DEF StillOurs, claims, claimVars, local, Goto, End, Tell, Hold
    <2>3. /\ \A j \in Movers \ {job[p]} : op'[j] = op[j]
          /\ op[job[p]].state \in {"completed", "create_failed", "none"} => op'[job[p]].state = op[job[p]].state
        BY <1>21, <2>1, Shape DEF StillOurs, records
    <2>4. ProcStage(p)'
        BY <1>21, <2>1, Shape DEF StillOurs, Goto, End, Tell, At, Rest, Hold, Stage, ProcStage,
           Replacing, Dropping, CancelReasons, records, local, claims, Parked
    <2>5. p \in Movers => MoverStage(p)'
        BY <1>21, <2>1, Shape DEF StillOurs, Goto, End, Tell, At, Rest, Hold, MoverStage,
           Validating
    <2>6. p \in Workers => WorkerStage(p)'
        BY <1>21, <2>1, Shape DEF StillOurs, Goto, End, Tell, At, Rest, Hold, WorkerStage
    <2>7. \A c \in late' : LateStage(c)'
        <3>1. late' = {}
            BY <1>21, <2>1, OneOwner DEF StillOurs, square, At
        <3> QED BY <3>1
    <2> QED
        BY <2>1, <2>2, <2>3, <2>4, <2>5, <2>6, <2>7, StageAside, Shape
<1>22. ASSUME NEW p \in Procs, CancelGet(p) PROVE Stage'
    <2>1. p \in Procs /\ pc[p] \in Owning
        BY <1>22, Shape DEF CancelGet, At, Owning, Validating, Replacing, Dropping
    <2>2. /\ UNCHANGED job /\ (claim' = claim \/ claim' = NoClaim)
          /\ \A q \in Procs \ {p} : pc'[q] = pc[q] /\ mine'[q] = mine[q]
          /\ \A u \in Workers \ {p} : read'[u] = read[u]
        BY <1>22, <2>1, Shape DEF CancelGet, claims, claimVars, local, Goto
    <2>3. /\ \A j \in Movers \ {job[p]} : op'[j] = op[j]
          /\ op[job[p]].state \in {"completed", "create_failed", "none"} => op'[job[p]].state = op[job[p]].state
        BY <1>22, <2>1, Shape DEF CancelGet, records
    <2>4. ProcStage(p)'
        BY <1>22, <2>1, Shape DEF CancelGet, Goto, At, Stage, ProcStage, Replacing, Dropping,
           CancelReasons, records, local, claims, Parked
    <2>5. p \in Movers => MoverStage(p)'
        BY <1>22, <2>1, Shape DEF CancelGet, Goto, At, MoverStage, Validating
    <2>6. p \in Workers => WorkerStage(p)'
        BY <1>22, <2>1, Shape DEF CancelGet, Goto, At, WorkerStage
    <2>7. \A c \in late' : LateStage(c)'
        <3>1. late' = {}
            BY <1>22, <2>1, OneOwner DEF CancelGet, square, At
        <3> QED BY <3>1
    <2> QED
        BY <2>1, <2>2, <2>3, <2>4, <2>5, <2>6, <2>7, StageAside, Shape
<1>23. ASSUME NEW p \in Procs, SendCancel(p) PROVE Stage'
    <2>1. p \in Procs /\ pc[p] \in Owning
        BY <1>23, Shape DEF SendCancel, At, Owning, Validating, Replacing, Dropping
    <2>2. /\ UNCHANGED job /\ (claim' = claim \/ claim' = NoClaim)
          /\ \A q \in Procs \ {p} : pc'[q] = pc[q] /\ mine'[q] = mine[q]
          /\ \A u \in Workers \ {p} : read'[u] = read[u]
        BY <1>23, <2>1, Shape DEF SendCancel, claims, claimVars, local, Goto
    <2>3. /\ \A j \in Movers \ {job[p]} : op'[j] = op[j]
          /\ op[job[p]].state \in {"completed", "create_failed", "none"} => op'[job[p]].state = op[job[p]].state
        BY <1>23, <2>1, Shape DEF SendCancel, records
    <2>4. ProcStage(p)'
        BY <1>23, <2>1, Shape DEF SendCancel, Goto, At, Stage, ProcStage, Replacing, Dropping,
           CancelReasons, records, local, claims, Parked
    <2>5. p \in Movers => MoverStage(p)'
        BY <1>23, <2>1, Shape DEF SendCancel, Goto, At, MoverStage, Validating
    <2>6. p \in Workers => WorkerStage(p)'
        BY <1>23, <2>1, Shape DEF SendCancel, Goto, At, WorkerStage
    <2>7. \A c \in late' : LateStage(c)'
        <3>1. late' = {}
            BY <1>23, <2>1, OneOwner DEF SendCancel, square, At
        <3> QED BY <3>1
    <2> QED
        BY <2>1, <2>2, <2>3, <2>4, <2>5, <2>6, <2>7, StageAside, Shape
<1>24. ASSUME NEW p \in Procs, CancelAnswered(p) PROVE Stage'
    <2>1. p \in Procs /\ pc[p] \in Owning
        BY <1>24, Shape DEF CancelAnswered, At, Owning, Validating, Replacing, Dropping
    <2>2. /\ UNCHANGED job /\ (claim' = claim \/ claim' = NoClaim)
          /\ \A q \in Procs \ {p} : pc'[q] = pc[q] /\ mine'[q] = mine[q]
          /\ \A u \in Workers \ {p} : read'[u] = read[u]
        BY <1>24, <2>1, Shape DEF CancelAnswered, claims, claimVars, local, Goto
    <2>3. /\ \A j \in Movers \ {job[p]} : op'[j] = op[j]
          /\ op[job[p]].state \in {"completed", "create_failed", "none"} => op'[job[p]].state = op[job[p]].state
        BY <1>24, <2>1, Shape DEF CancelAnswered, records
    <2>4. ProcStage(p)'
        BY <1>24, <2>1, Shape DEF CancelAnswered, Goto, At, Stage, ProcStage, Replacing,
           Dropping, CancelReasons, records, local, claims, Parked
    <2>5. p \in Movers => MoverStage(p)'
        BY <1>24, <2>1, Shape DEF CancelAnswered, Goto, At, MoverStage, Validating
    <2>6. p \in Workers => WorkerStage(p)'
        BY <1>24, <2>1, Shape DEF CancelAnswered, Goto, At, WorkerStage
    <2>7. \A c \in late' : LateStage(c)'
        <3>1. late = {} /\ Ours(job[p]) /\ UNCHANGED <<claim, op>> /\ job[p] \in Movers
            BY <1>24, <2>1, OneOwner, Shape DEF CancelAnswered, At, claims, claimVars, records
        <3>2. \A c \in late' : c.kind = "cancel" /\ (c.kind = "create" => c.op = job[p])
            BY <1>24, <3>1, AbandonLate DEF CancelAnswered, At
        <3> QED
            BY <1>24, <3>1, <3>2, OneOwner DEF CancelAnswered, At, Stage, ProcStage, LateStage, Ours, Replacing, Dropping, Parked
    <2> QED
        BY <2>1, <2>2, <2>3, <2>4, <2>5, <2>6, <2>7, StageAside, Shape
<1>25. ASSUME NEW p \in Procs, MarkCancelFailed(p) PROVE Stage'
    <2>1. p \in Procs /\ pc[p] \in Owning
        BY <1>25, Shape DEF MarkCancelFailed, At, Owning, Validating, Replacing, Dropping
    <2>2. /\ UNCHANGED job /\ (claim' = claim \/ claim' = NoClaim)
          /\ \A q \in Procs \ {p} : pc'[q] = pc[q] /\ mine'[q] = mine[q]
          /\ \A u \in Workers \ {p} : read'[u] = read[u]
        BY <1>25, <2>1, Shape DEF MarkCancelFailed, claims, claimVars, local, End, Tell, Hold
    <2>3. /\ Mine(p, {"replacement_created", "cancel_failed"}) /\ ~Parked(job[p]) /\ job[p] \in Movers
          /\ pc[p] \in CancelReasons
        <3>1. pc[p] \in CancelReasons
            BY <1>25 DEF MarkCancelFailed
        <3>2. pc[p] \in Dropping /\ pc[p] # "idle"
            BY <3>1 DEF Dropping, CancelReasons
        <3> QED BY <3>1, <3>2, Shape DEF Stage, ProcStage, Mine
    <2>4. op' = [op EXCEPT ![job[p]].state = "cancel_failed", ![job[p]].reason = pc[p]]
        BY <1>25, <2>3 DEF MarkCancelFailed
    <2>5. /\ \A j \in Movers \ {job[p]} : op'[j] = op[j]
          /\ op'[job[p]].state = "cancel_failed" /\ op'[job[p]].reason = pc[p]
        BY <2>3, <2>4, Shape DEF OpRows
    <2>6. pc'[p] \in {"done", "idle"}
        BY <1>25, <2>1, Shape DEF MarkCancelFailed, End, Tell, Rest
    <2>7. ProcStage(p)' /\ MoverStage(p)' /\ WorkerStage(p)'
        BY <2>6 DEF ProcStage, MoverStage, WorkerStage, Replacing, Dropping, Validating, CancelReasons
    <2>8. op[job[p]].state \in {"replacement_created", "cancel_failed"}
        BY <2>3 DEF Mine
    <2>9. \A c \in late' : LateStage(c)'
        <3>1. UNCHANGED <<late, claim>>
            BY <1>25 DEF MarkCancelFailed, square, claimVars
        <3>2. SUFFICES ASSUME NEW c \in late PROVE LateStage(c)'
            BY <3>1
        <3>3. claim.op = job[p] /\ pc[p] = "provider_unknown"
            BY <2>1, <3>2, OneOwner DEF Ours
        <3>4. c.kind # "create"
            BY <2>8, <3>2, <3>3 DEF Stage, LateStage, Ours
        <3> QED
            BY <2>5, <3>1, <3>3, <3>4 DEF LateStage, Parked
    <2> QED
        BY <2>1, <2>2, <2>5, <2>7, <2>8, <2>9, StageAside
<1>26. ASSUME NEW p \in Procs, Complete(p) PROVE Stage'
    <2>1. p \in Procs /\ pc[p] \in Owning
        BY <1>26, Shape DEF Complete, At, Owning, Validating, Replacing, Dropping
    <2>2. /\ UNCHANGED job /\ (claim' = claim \/ claim' = NoClaim)
          /\ \A q \in Procs \ {p} : pc'[q] = pc[q] /\ mine'[q] = mine[q]
          /\ \A u \in Workers \ {p} : read'[u] = read[u]
        BY <1>26, <2>1, Shape DEF Complete, claims, claimVars, local, Goto
    <2>3. /\ \A j \in Movers \ {job[p]} : op'[j] = op[j]
          /\ op[job[p]].state \in {"completed", "create_failed", "none"} => op'[job[p]].state = op[job[p]].state
        BY <1>26, <2>1, Shape DEF Complete, records
    <2>4. ProcStage(p)'
        BY <1>26, <2>1, Shape DEF Complete, Goto, At, Stage, ProcStage, Replacing, Dropping,
           CancelReasons, records, local, claims, Parked
    <2>5. p \in Movers => MoverStage(p)'
        BY <1>26, <2>1, Shape DEF Complete, Goto, At, MoverStage, Validating
    <2>6. p \in Workers => WorkerStage(p)'
        BY <1>26, <2>1, Shape DEF Complete, Goto, At, WorkerStage
    <2>7. \A c \in late' : LateStage(c)'
        <3>1. late' = {}
            BY <1>26, <2>1, OneOwner DEF Complete, square, At
        <3> QED BY <3>1
    <2> QED
        BY <2>1, <2>2, <2>3, <2>4, <2>5, <2>6, <2>7, StageAside, Shape
<1>27. ASSUME NEW p \in Procs, MarkCompleted(p) PROVE Stage'
    <2>1. p \in Procs /\ pc[p] \in Owning
        BY <1>27, Shape DEF MarkCompleted, At, Owning, Validating, Replacing, Dropping
    <2>2. /\ UNCHANGED job /\ (claim' = claim \/ claim' = NoClaim)
          /\ \A q \in Procs \ {p} : pc'[q] = pc[q] /\ mine'[q] = mine[q]
          /\ \A u \in Workers \ {p} : read'[u] = read[u]
        BY <1>27, <2>1, Shape DEF MarkCompleted, claims, claimVars, local, End, Tell, Hold
    <2>3. /\ \A j \in Movers \ {job[p]} : op'[j] = op[j]
          /\ op[job[p]].state \in {"completed", "create_failed", "none"} => op'[job[p]].state = op[job[p]].state
        BY <1>27, <2>1, Shape DEF MarkCompleted, records, OpRows, At, Stage, ProcStage,
           Replacing, Dropping, Mine
    <2>4. ProcStage(p)'
        BY <1>27, <2>1, Shape DEF MarkCompleted, End, Tell, At, Rest, Hold, Mine, Stage,
           ProcStage, Replacing, Dropping, CancelReasons, records, local, claims, OpRows, Parked
    <2>5. p \in Movers => MoverStage(p)'
        BY <1>27, <2>1, Shape DEF MarkCompleted, End, Tell, At, Rest, Hold, Mine, MoverStage,
           Validating
    <2>6. p \in Workers => WorkerStage(p)'
        BY <1>27, <2>1, Shape DEF MarkCompleted, End, Tell, At, Rest, Hold, Mine, WorkerStage
    <2>7. \A c \in late' : LateStage(c)'
        <3>1. late' = {}
            BY <1>27, <2>1, OneOwner DEF MarkCompleted, square, At
        <3> QED BY <3>1
    <2> QED
        BY <2>1, <2>2, <2>3, <2>4, <2>5, <2>6, <2>7, StageAside, Shape
<1>28. ASSUME NEW p \in Procs, Leave(p) PROVE Stage'
    <2>1. p \in Procs /\ pc[p] \in Owning
        BY <1>28, Shape DEF Leave, At, Owning, Validating, Replacing, Dropping
    <2>2. /\ UNCHANGED job /\ (claim' = claim \/ claim' = NoClaim)
          /\ \A q \in Procs \ {p} : pc'[q] = pc[q] /\ mine'[q] = mine[q]
          /\ \A u \in Workers \ {p} : read'[u] = read[u]
        BY <1>28, <2>1, Shape DEF Leave, claims, claimVars, local, Goto, Hold, Release, Delete
    <2>3. /\ \A j \in Movers \ {job[p]} : op'[j] = op[j]
          /\ op[job[p]].state \in {"completed", "create_failed", "none"} => op'[job[p]].state = op[job[p]].state
        BY <1>28, <2>1, Shape DEF Leave, records
    <2>4. ProcStage(p)'
        BY <1>28, <2>1, Shape DEF Leave, Goto, At, Rest, Hold, Stage, ProcStage, Replacing,
           Dropping, CancelReasons, records, local, claims, Parked
    <2>5. p \in Movers => MoverStage(p)'
        BY <1>28, <2>1, Shape DEF Leave, Goto, At, Rest, Hold, MoverStage, Validating
    <2>6. p \in Workers => WorkerStage(p)'
        BY <1>28, <2>1, Shape DEF Leave, Goto, At, Rest, Hold, WorkerStage
    <2>7. \A c \in late' : LateStage(c)'
        <3>1. late' = {}
            BY <1>28, <2>1, OneOwner DEF Leave, square, At
        <3> QED BY <3>1
    <2> QED
        BY <2>1, <2>2, <2>3, <2>4, <2>5, <2>6, <2>7, StageAside, Shape
<1>29. ASSUME NEW w \in Workers, ListStale(w) PROVE Stage'
    <2>1. \A q \in Procs : ProcStage(q)'
        BY <1>29, Shape, OneOwner DEF Stage, ListStale, claims, claimVars, records, square,
           local, other, Goto, At, ProcStage, Replacing, Dropping, CancelReasons, Parked
    <2>2. \A j \in Movers : MoverStage(j)'
        BY <1>29, Shape, OneOwner DEF Stage, ListStale, claims, claimVars, records, square,
           local, other, Goto, At, MoverStage, Validating, JobOK
    <2>3. \A u \in Workers : WorkerStage(u)'
        BY <1>29, Shape, OneOwner, ClaimShape DEF Stage, ListStale, claims, claimVars, records,
           square, local, other, Goto, At, WorkerStage, Exclusive, Reader, Looking, Free, Forget
    <2>4. \A c \in late' : LateStage(c)'
        BY <1>29, Shape, OneOwner, ClaimShape DEF Stage, ListStale, claims, claimVars, records,
           square, local, other, Goto, At, LateStage, Ours, Exclusive, Owned, Owning, Replacing,
           Dropping, CancelReasons, Parked, Free
    <2> QED BY <2>1, <2>2, <2>3, <2>4 DEF Stage
<1>30. ASSUME NEW w \in Workers, LookForOp(w) PROVE Stage'
    <2>1. \A q \in Procs : ProcStage(q)'
        BY <1>30, Shape, OneOwner DEF Stage, LookForOp, claims, claimVars, records, square,
           local, other, Goto, At, Live, Parked, LiveStates, ProcStage, Replacing, Dropping,
           CancelReasons
    <2>2. \A j \in Movers : MoverStage(j)'
        BY <1>30, Shape, OneOwner DEF Stage, LookForOp, claims, claimVars, records, square,
           local, other, Goto, At, Live, Parked, LiveStates, MoverStage, Validating, JobOK
    <2>3. \A u \in Workers : WorkerStage(u)'
        BY <1>30, Shape, OneOwner, ClaimShape DEF Stage, LookForOp, claims, claimVars, records,
           square, local, other, Goto, At, Live, Parked, LiveStates, WorkerStage, Exclusive,
           Reader, Looking, Free, Forget
    <2>4. \A c \in late' : LateStage(c)'
        BY <1>30, Shape, OneOwner, ClaimShape DEF Stage, LookForOp, claims, claimVars, records,
           square, local, other, Goto, At, Live, Parked, LiveStates, LateStage, Ours, Exclusive,
           Owned, Owning, Replacing, Dropping, CancelReasons, Free
    <2> QED BY <2>1, <2>2, <2>3, <2>4 DEF Stage
<1>31. ASSUME NEW w \in Workers, SweepOrphan(w) PROVE Stage'
    <2>1. \A q \in Procs : ProcStage(q)'
        BY <1>31, Shape, OneOwner DEF Stage, SweepOrphan, claims, claimVars, records, square,
           local, other, Goto, At, ProcStage, Replacing, Dropping, CancelReasons, Parked
    <2>2. \A j \in Movers : MoverStage(j)'
        BY <1>31, Shape, OneOwner DEF Stage, SweepOrphan, claims, claimVars, records, square,
           local, other, Goto, At, MoverStage, Validating, JobOK
    <2>3. \A u \in Workers : WorkerStage(u)'
        BY <1>31, Shape, OneOwner, ClaimShape DEF Stage, SweepOrphan, claims, claimVars,
           records, square, local, other, Goto, At, WorkerStage, Exclusive, Reader, Looking,
           Free, ReleaseOrphan, Delete, Owns, NoClaim, Forget
    <2>4. \A c \in late' : LateStage(c)'
        BY <1>31, Shape, OneOwner, ClaimShape DEF Stage, SweepOrphan, claims, claimVars,
           records, square, local, other, Goto, At, LateStage, Ours, Exclusive, Owned, Owning,
           Replacing, Dropping, CancelReasons, Parked, Free, ReleaseOrphan, Delete, Owns,
           NoClaim
    <2> QED BY <2>1, <2>2, <2>3, <2>4 DEF Stage
<1>32. ASSUME NEW w \in Workers, DropStale(w) PROVE Stage'
    <2>1. \A q \in Procs : ProcStage(q)'
        BY <1>32, Shape, OneOwner DEF Stage, DropStale, claims, claimVars, records, square,
           local, other, Goto, At, ProcStage, Replacing, Dropping, CancelReasons, Parked
    <2>2. \A j \in Movers : MoverStage(j)'
        BY <1>32, Shape, OneOwner DEF Stage, DropStale, claims, claimVars, records, square,
           local, other, Goto, At, MoverStage, Validating, JobOK
    <2>3. \A u \in Workers : WorkerStage(u)'
        BY <1>32, Shape, OneOwner, ClaimShape DEF Stage, DropStale, claims, claimVars, records,
           square, local, other, Goto, At, WorkerStage, Exclusive, Reader, Looking, Free,
           Release, Delete, NoClaim, Forget
    <2>4. \A c \in late' : LateStage(c)'
        <3>1. claim' = claim \/ late = {}
            BY <1>32, Shape DEF DropStale, Release, Delete, claimVars, At, Exclusive, Reader, Looking
        <3> QED BY <1>32, <3>1 DEF DropStale, records, square, Stage, LateStage, Ours, Parked
    <2> QED BY <2>1, <2>2, <2>3, <2>4 DEF Stage
<1>33. ASSUME NEW w \in Workers, TakeOverClaim(w) PROVE Stage'
    <2>1. UNCHANGED <<job, late, op>> /\ w \in Procs /\ pc[w] = "takeover"
        BY <1>33, Shape DEF TakeOverClaim, records, square, At
    <2>2. CASE UNCHANGED claims /\ Goto(w, "idle") /\ Forget(w)
        <3>1. \A q \in Procs : ProcStage(q)'
            BY <2>1, <2>2, Shape DEF Stage, ProcStage, Replacing, Dropping, CancelReasons, Goto, claims, Parked
        <3>2. \A j \in Movers : MoverStage(j)'
            BY <2>1, <2>2, Shape DEF Stage, MoverStage, Validating, Goto, claims
        <3>3. \A u \in Workers : WorkerStage(u)'
            BY <2>1, <2>2, Shape DEF Stage, WorkerStage, Goto, Forget, claims, claimVars
        <3>4. \A c \in late' : LateStage(c)'
            BY <2>1, <2>2 DEF Stage, LateStage, claims, claimVars, Ours, Parked
        <3> QED BY <3>1, <3>2, <3>3, <3>4 DEF Stage
    <2>3. CASE TakeOverReschedule(job[w], read[w].claim, Fresh) /\ Hold(w, Fresh) /\ Goto(w, "take")
               /\ UNCHANGED read
        <3>1. late = {} /\ \A q \in Procs : pc[q] \notin Owning
            BY <2>3 DEF TakeOverReschedule, TakeOver, Exclusive, Owned
        <3>2. pc'[w] = "take" /\ \A q \in Procs \ {w} : pc'[q] = pc[q] /\ mine'[q] = mine[q]
            BY <2>1, <2>3, Shape DEF Goto, Hold
        <3>3. \A q \in Procs : ProcStage(q)'
            BY <3>1, <3>2 DEF ProcStage, Owning, Replacing, Dropping, CancelReasons
        <3>4. \A j \in Movers : MoverStage(j)'
            BY <2>1, <3>1, <3>2, Shape DEF Stage, MoverStage, Validating, Owning
        <3>5. claim'.token = Fresh /\ \A u \in Workers : read'[u].claim # claim'.token
            <4>1. claim'.token = Fresh
                BY <2>3, ClaimShape DEF TakeOverReschedule, TakeOver, Owns, Typed, TypeOK, ClaimsTypeOK,
                   ClaimRows, NoClaim
            <4> QED BY <2>3, <4>1, FreshIsFresh DEF Typed
        <3>6. \A u \in Workers : WorkerStage(u)'
            BY <2>1, <3>2, <3>5, Shape DEF Stage, WorkerStage
        <3> QED BY <2>1, <3>1, <3>3, <3>4, <3>6 DEF Stage
    <2> QED BY <1>33, <2>2, <2>3 DEF TakeOverClaim
<1>34. ASSUME NEW w \in Workers, AdoptToken(w) PROVE Stage'
    <2>1. w \in Procs /\ pc[w] \in Owning
        BY <1>34, Shape DEF AdoptToken, At, Owning, Validating, Replacing, Dropping
    <2>2. /\ UNCHANGED job /\ (claim' = claim \/ claim' = NoClaim)
          /\ \A q \in Procs \ {w} : pc'[q] = pc[q] /\ mine'[q] = mine[q]
          /\ \A u \in Workers \ {w} : read'[u] = read[u]
        BY <1>34, <2>1, Shape DEF AdoptToken, claims, claimVars, local, Goto, End, Tell, Hold,
           Forget
    <2>3. /\ \A j \in Movers \ {job[w]} : op'[j] = op[j]
          /\ op[job[w]].state \in {"completed", "create_failed", "none"} => op'[job[w]].state = op[job[w]].state
        BY <1>34, <2>1, Shape DEF AdoptToken, records, OpRows, At, Stage, ProcStage, Replacing,
           Dropping
    <2>4. ProcStage(w)'
        BY <1>34, <2>1, Shape DEF AdoptToken, Goto, End, Tell, At, Rest, Hold, Stage, ProcStage,
           Replacing, Dropping, CancelReasons, records, local, claims, OpRows, Parked
    <2>5. w \notin Movers
        BY Shape
    <2>6. w \in Workers => WorkerStage(w)'
        BY <1>34, <2>1, Shape DEF AdoptToken, Goto, End, Tell, At, Rest, Hold, WorkerStage
    <2>7. \A c \in late' : LateStage(c)'
        <3>1. late' = {}
            BY <1>34, <2>1, OneOwner DEF AdoptToken, square, At
        <3> QED BY <3>1
    <2> QED
        BY <2>1, <2>2, <2>3, <2>4, <2>5, <2>6, <2>7, StageAside, Shape
<1>35. ASSUME CancelBegins PROVE Stage'
    <2>1. \A q \in Procs : ProcStage(q)'
        BY <1>35, Shape DEF Stage, CancelBegins, claims, claimVars, records, square, local,
           other, cancelled, ProcStage, Replacing, Dropping, CancelReasons, Parked
    <2>2. \A j \in Movers : MoverStage(j)'
        BY <1>35, Shape DEF Stage, CancelBegins, claims, claimVars, records, square, local,
           other, cancelled, MoverStage, Validating, JobOK
    <2>3. \A u \in Workers : WorkerStage(u)'
        <3>1. UNCHANGED <<job, read, op>> /\ \A u \in Workers : pc'[u] = pc[u]
            BY <1>35, Shape DEF CancelBegins, records, local, cancelled
        <3>2. claim' = claim \/ claim'.token = Fresh
            BY <1>35 DEF CancelBegins, claims, claimVars, AcquireCancel, Insert, ClaimRow, Free,
               NoClaim
        <3> QED BY <3>1, <3>2, FreshIsFresh, Shape DEF Typed, Stage, WorkerStage
    <2>4. \A c \in late' : LateStage(c)'
        BY <1>35, Shape, ClaimShape DEF Stage, CancelBegins, claims, claimVars, records, square,
           local, other, cancelled, LateStage, Ours, Exclusive, Owned, Owning, Replacing,
           Dropping, CancelReasons, Parked, Free, AcquireCancel, Insert, ClaimRow, NoClaim
    <2> QED BY <2>1, <2>2, <2>3, <2>4 DEF Stage
<1>36. ASSUME CancelActs PROVE Stage'
    <2>1. \A q \in Procs : ProcStage(q)'
        BY <1>36, Shape DEF Stage, CancelActs, claims, claimVars, records, square, local, other,
           cancelled, ProcStage, Replacing, Dropping, CancelReasons, Parked
    <2>2. \A j \in Movers : MoverStage(j)'
        BY <1>36, Shape DEF Stage, CancelActs, claims, claimVars, records, square, local, other,
           cancelled, MoverStage, Validating, JobOK
    <2>3. \A u \in Workers : WorkerStage(u)'
        BY <1>36, Shape, ClaimShape DEF Stage, CancelActs, claims, claimVars, records, square,
           local, other, cancelled, WorkerStage, Exclusive, Reader, Looking, Free
    <2>4. \A c \in late' : LateStage(c)'
        BY <1>36, Shape, ClaimShape DEF Stage, CancelActs, claims, claimVars, records, square,
           local, other, cancelled, LateStage, Ours, Exclusive, Owned, Owning, Replacing,
           Dropping, CancelReasons, Parked, Free
    <2> QED BY <2>1, <2>2, <2>3, <2>4 DEF Stage
<1>37. ASSUME CancelRecords PROVE Stage'
    <2>1. \A q \in Procs : ProcStage(q)'
        BY <1>37, Shape DEF Stage, CancelRecords, claims, claimVars, records, square, local,
           other, cancelled, ProcStage, Replacing, Dropping, CancelReasons, Parked
    <2>2. \A j \in Movers : MoverStage(j)'
        BY <1>37, Shape DEF Stage, CancelRecords, claims, claimVars, records, square, local,
           other, cancelled, MoverStage, Validating, JobOK
    <2>3. \A u \in Workers : WorkerStage(u)'
        BY <1>37, Shape, ClaimShape DEF Stage, CancelRecords, claims, claimVars, records,
           square, local, other, cancelled, WorkerStage, Exclusive, Reader, Looking, Free
    <2>4. \A c \in late' : LateStage(c)'
        BY <1>37, Shape, ClaimShape DEF Stage, CancelRecords, claims, claimVars, records,
           square, local, other, cancelled, LateStage, Ours, Exclusive, Owned, Owning,
           Replacing, Dropping, CancelReasons, Parked, Free
    <2> QED BY <2>1, <2>2, <2>3, <2>4 DEF Stage
<1>38. ASSUME CancelReleases PROVE Stage'
    <2>1. \A q \in Procs : ProcStage(q)'
        BY <1>38, Shape DEF Stage, CancelReleases, claims, claimVars, records, square, local,
           other, cancelled, ProcStage, Replacing, Dropping, CancelReasons, Parked
    <2>2. \A j \in Movers : MoverStage(j)'
        BY <1>38, Shape DEF Stage, CancelReleases, claims, claimVars, records, square, local,
           other, cancelled, MoverStage, Validating, JobOK
    <2>3. \A u \in Workers : WorkerStage(u)'
        BY <1>38, Shape, ClaimShape DEF Stage, CancelReleases, claims, claimVars, records,
           square, local, other, cancelled, WorkerStage, Exclusive, Reader, Looking, Free,
           Release, Delete, NoClaim
    <2>4. \A c \in late' : LateStage(c)'
        BY <1>38, Shape, ClaimShape DEF Stage, CancelReleases, claims, claimVars, records,
           square, local, other, cancelled, LateStage, Ours, Exclusive, Owned, Owning,
           Replacing, Dropping, CancelReasons, Parked, Free, Release, Delete, NoClaim
    <2> QED BY <2>1, <2>2, <2>3, <2>4 DEF Stage
<1>39. ASSUME NEW p \in Procs, AnswerCreate(p) PROVE Stage'
    <2>1. \A q \in Procs : ProcStage(q)'
        BY <1>39, Shape, OneOwner DEF Stage, AnswerCreate, claims, claimVars, records, square,
           local, other, ProcStage, Replacing, Dropping, CancelReasons, Parked
    <2>2. \A j \in Movers : MoverStage(j)'
        BY <1>39, Shape, OneOwner DEF Stage, AnswerCreate, claims, claimVars, records, square,
           local, other, MoverStage, Validating, JobOK
    <2>3. \A u \in Workers : WorkerStage(u)'
        BY <1>39, Shape, OneOwner, ClaimShape DEF Stage, AnswerCreate, claims, claimVars,
           records, square, local, other, WorkerStage, Exclusive, Reader, Looking, Free
    <2>4. \A c \in late' : LateStage(c)'
        BY <1>39, Shape, OneOwner, ClaimShape DEF Stage, AnswerCreate, claims, claimVars,
           records, square, local, other, LateStage, Ours, Exclusive, Owned, Owning, Replacing,
           Dropping, CancelReasons, Parked, Free
    <2> QED BY <2>1, <2>2, <2>3, <2>4 DEF Stage
<1>40. ASSUME NEW p \in Procs, AnswerCancel(p) PROVE Stage'
    <2>1. \A q \in Procs : ProcStage(q)'
        BY <1>40, Shape, OneOwner DEF Stage, AnswerCancel, claims, claimVars, records, square,
           local, other, ProcStage, Replacing, Dropping, CancelReasons, Parked
    <2>2. \A j \in Movers : MoverStage(j)'
        BY <1>40, Shape, OneOwner DEF Stage, AnswerCancel, claims, claimVars, records, square,
           local, other, MoverStage, Validating, JobOK
    <2>3. \A u \in Workers : WorkerStage(u)'
        BY <1>40, Shape, OneOwner, ClaimShape DEF Stage, AnswerCancel, claims, claimVars,
           records, square, local, other, WorkerStage, Exclusive, Reader, Looking, Free
    <2>4. \A c \in late' : LateStage(c)'
        BY <1>40, Shape, OneOwner, ClaimShape DEF Stage, AnswerCancel, claims, claimVars,
           records, square, local, other, LateStage, Ours, Exclusive, Owned, Owning, Replacing,
           Dropping, CancelReasons, Parked, Free
    <2> QED BY <2>1, <2>2, <2>3, <2>4 DEF Stage
<1>41. ASSUME NEW p \in Procs, Crash(p) PROVE Stage'
    <2>1. /\ UNCHANGED <<claim, job, op>> /\ pc'[p] \in {"idle", "crashed"}
          /\ \A q \in Procs \ {p} : pc'[q] = pc[q] /\ mine'[q] = mine[q]
          /\ \A u \in Workers \ {p} : read'[u] = read[u]
        BY <1>41, Shape DEF Crash, claimVars, records, Hold
    <2>2. \A q \in Procs : ProcStage(q)'
        BY <2>1 DEF Stage, ProcStage, Replacing, Dropping, CancelReasons, Parked
    <2>3. \A j \in Movers : MoverStage(j)'
        BY <2>1, Shape DEF Stage, MoverStage, Validating
    <2>4. \A u \in Workers : WorkerStage(u)'
        BY <2>1, Shape DEF Stage, WorkerStage
    <2>5. \A c \in late' : LateStage(c)'
        <3>1. SUFFICES ASSUME NEW c \in late' PROVE LateStage(c)'
            OBVIOUS
        <3>2. CASE c \in late
            BY <2>1, <3>2 DEF Stage, LateStage, Ours, Parked
        <3>3. CASE pc[p] = "creating" /\ c.kind = "create" /\ c.op = job[p]
            <4>1. Ours(job[p]) /\ op[job[p]].state = "in_progress"
                BY <3>3, OneOwner DEF Owning, Replacing, Stage, ProcStage
            <4> QED BY <2>1, <3>3, <4>1 DEF LateStage, Ours
        <3>4. CASE pc[p] = "cancelling" /\ c.kind = "cancel"
            <4>1. Ours(job[p]) /\ op[job[p]].state \in {"replacement_created", "cancel_failed"} /\ ~Parked(job[p])
                BY <3>4, OneOwner DEF Owning, Dropping, Stage, ProcStage
            <4> QED BY <2>1, <3>4, <4>1 DEF LateStage, Ours, Parked
        <3> QED BY <1>41, <3>1, <3>2, <3>3, <3>4, AbandonLate DEF Crash
    <2> QED BY <2>2, <2>3, <2>4, <2>5 DEF Stage
<1>42. ASSUME LateCall PROVE Stage'
    <2>1. \A q \in Procs : ProcStage(q)'
        BY <1>42, Shape DEF Stage, LateCall, claims, claimVars, records, square, local, other,
           ProcStage, Replacing, Dropping, CancelReasons, Parked
    <2>2. \A j \in Movers : MoverStage(j)'
        BY <1>42, Shape DEF Stage, LateCall, claims, claimVars, records, square, local, other,
           MoverStage, Validating, JobOK
    <2>3. \A u \in Workers : WorkerStage(u)'
        BY <1>42, Shape, ClaimShape DEF Stage, LateCall, claims, claimVars, records, square,
           local, other, WorkerStage, Exclusive, Reader, Looking, Free
    <2>4. \A c \in late' : LateStage(c)'
        BY <1>42, Shape, ClaimShape DEF Stage, LateCall, claims, claimVars, records, square,
           local, other, LateStage, Ours, Exclusive, Owned, Owning, Replacing, Dropping,
           CancelReasons, Parked, Free
    <2> QED BY <2>1, <2>2, <2>3, <2>4 DEF Stage
<1>43. ASSUME MerchantEdits PROVE Stage'
    <2>1. \A q \in Procs : ProcStage(q)'
        BY <1>43, Shape DEF Stage, MerchantEdits, claims, claimVars, records, square, local,
           other, ProcStage, Replacing, Dropping, CancelReasons, Parked
    <2>2. \A j \in Movers : MoverStage(j)'
        BY <1>43, Shape DEF Stage, MerchantEdits, claims, claimVars, records, square, local,
           other, MoverStage, Validating, JobOK
    <2>3. \A u \in Workers : WorkerStage(u)'
        BY <1>43, Shape, ClaimShape DEF Stage, MerchantEdits, claims, claimVars, records,
           square, local, other, WorkerStage, Exclusive, Reader, Looking, Free
    <2>4. \A c \in late' : LateStage(c)'
        BY <1>43, Shape, ClaimShape DEF Stage, MerchantEdits, claims, claimVars, records,
           square, local, other, LateStage, Ours, Exclusive, Owned, Owning, Replacing, Dropping,
           CancelReasons, Parked, Free
    <2> QED BY <2>1, <2>2, <2>3, <2>4 DEF Stage
<1>44. ASSUME AgeClaim PROVE Stage'
    <2>1. \A q \in Procs : ProcStage(q)'
        BY <1>44, Shape DEF Stage, AgeClaim, claims, claimVars, records, square, local, other,
           ProcStage, Replacing, Dropping, CancelReasons, Parked
    <2>2. \A j \in Movers : MoverStage(j)'
        BY <1>44, Shape DEF Stage, AgeClaim, claims, claimVars, records, square, local, other,
           MoverStage, Validating, JobOK
    <2>3. \A u \in Workers : WorkerStage(u)'
        BY <1>44, Shape, ClaimShape DEF Stage, AgeClaim, claims, claimVars, records, square,
           local, other, WorkerStage, Exclusive, Reader, Looking, Free, ClaimAges
    <2>4. \A c \in late' : LateStage(c)'
        BY <1>44, Shape, ClaimShape DEF Stage, AgeClaim, claims, claimVars, records, square,
           local, other, LateStage, Ours, Exclusive, Owned, Owning, Replacing, Dropping,
           CancelReasons, Parked, Free, ClaimAges
    <2> QED BY <2>1, <2>2, <2>3, <2>4 DEF Stage
<1> QED
    BY <1>1, <1>2, <1>3, <1>4, <1>5, <1>6, <1>7, <1>8, <1>9, <1>10, <1>11, <1>12, <1>13, <1>14,
       <1>15, <1>16, <1>17, <1>18, <1>19, <1>20, <1>21, <1>22, <1>23, <1>24, <1>25, <1>26,
       <1>27, <1>28, <1>29, <1>30, <1>31, <1>32, <1>33, <1>34, <1>35, <1>36, <1>37, <1>38,
       <1>39, <1>40, <1>41, <1>42, <1>43, <1>44 DEF Next, Freeze, Execute, Recover, Cancel,
       Environment

-----------------------------------------------------------------------------
(* What is booked belongs to the owner's operation, or to a finished one *)

\* The claim may go once the operation it names has booked nothing, or is over.
MayGo == \A j \in Movers : Ours(j) => j \notin made \/ ~Live(j)

\* A step that books nothing, records no booking and changes no operation's state.
LEMMA BookedAside ==
    ASSUME Typed, Exclusive, Booked, NEW p \in Procs,
           \A q \in Procs \ {p} : pc'[q] = pc[q] /\ call'[q] = call[q] /\ job'[q] = job[q],
           UNCHANGED <<lineage, made, source>>,
           \A j \in Movers : op'[j].state = op[j].state /\ op'[j].reason = op[j].reason,
           row' = row \/ (row' = FALSE /\ pc[p] \in Owning),
           \/ claim'.type = claim.type /\ claim'.op = claim.op
           \/ claim' = NoClaim /\ MayGo
           \/ Free /\ claim'.type = "reschedule" /\ op[claim'.op].state = "none",
           claim'.type = "reschedule" => claim'.op \in Movers,
           ProcBooked(p)', p \in Movers => MoverBooked(p)'
    PROVE  Booked'
<1>1. LineageBooked'
    <2> SUFFICES ASSUME lineage # Nil
                 PROVE  /\ op'[lineage].state \in LiveStates \cup {"completed"}
                        /\ claim'.type = "reschedule" /\ op'[claim'.op].state # "none" => claim'.op = lineage
        BY DEF LineageBooked
    <2>1. lineage \in Movers
        BY DEF Typed, TypeOK
    <2>2. op'[lineage].state \in LiveStates \cup {"completed"}
        BY <2>1 DEF Booked, LineageBooked
    <2>3. ASSUME claim'.type = "reschedule", op'[claim'.op].state # "none" PROVE claim'.op = lineage
        BY <2>3 DEF Booked, LineageBooked, NoClaim
    <2> QED BY <2>2, <2>3
<1>2. ASSUME NEW j \in Movers PROVE OpBooked(j)'
    <2>1. /\ op'[j].state = op[j].state /\ op'[j].reason = op[j].reason /\ (~row => ~row')
          /\ OpBooked(j)
        BY <1>2 DEF Booked
    <2>2. j \in made /\ Live(j) => Ours(j)'
        BY <1>2, <2>1 DEF OpBooked, MayGo, Ours, Free, NoClaim
    <2> QED BY <2>1, <2>2 DEF OpBooked, Live, Parked
<1>3. ASSUME NEW j \in Movers, j # p PROVE MoverBooked(j)'
    <2>1. pc'[j] = pc[j] /\ call'[j] = call[j] /\ MoverBooked(j)
        BY <1>3, Shape DEF Booked
    <2>2. pc[j] \in {"snapshot", "slot", "insert"} => row' = row
        BY <1>3, OneOwner, Shape DEF Owning, Validating
    <2> QED BY <2>1, <2>2 DEF MoverBooked
<1>4. ASSUME NEW q \in Procs, q # p PROVE ProcBooked(q)'
    <2>1. pc'[q] = pc[q] /\ call'[q] = call[q] /\ job'[q] = job[q] /\ ProcBooked(q) /\ (~row => ~row')
        BY <1>4 DEF Booked
    <2>2. pc[q] \in {"undo", "leave"} => job[q] \notin made \/ ~Live(job[q])'
        BY <1>4, <2>1, Shape DEF ProcBooked, Live
    <2> QED BY <2>1, <2>2 DEF ProcBooked
<1> QED BY <1>1, <1>2, <1>3, <1>4 DEF Booked

\* A step of the owner that moves its operation, or records its booking.
LEMMA BookedOps ==
    ASSUME Typed, Exclusive, Booked, NEW p \in Procs, pc[p] \in Owning,
           \A q \in Procs \ {p} : pc'[q] = pc[q],
           UNCHANGED <<made, row, source, claim, job>>,
           \A j \in Movers \ {job[p]} : op'[j] = op[j],
           lineage' = lineage \/ lineage = Nil,
           LineageBooked', OpBooked(job[p])', ProcBooked(p)', p \in Movers => MoverBooked(p)'
    PROVE  Booked'
<1>1. ASSUME NEW j \in Movers PROVE OpBooked(j)'
    <2>1. CASE j = job[p]
        <3>1. job'[p] = j
            BY <2>1
        <3> QED BY <3>1 DEF OpBooked, Live, Parked, Ours
    <2>2. CASE j # job[p]
        <3>1. op'[j] = op[j] /\ OpBooked(j)
            BY <1>1, <2>2 DEF Booked
        <3>2. op[j].state \in Behind => lineage = j /\ lineage # Nil
            BY <1>1, <3>1, Shape DEF OpBooked
        <3> QED BY <3>1, <3>2 DEF OpBooked, Live, Parked, Ours
    <2> QED BY <2>1, <2>2
<1>2. ASSUME NEW j \in Movers, j # p PROVE MoverBooked(j)'
    BY <1>2, OneOwner, Shape DEF MoverBooked, Owning, Validating, Replacing
<1>3. ASSUME NEW q \in Procs, q # p PROVE ProcBooked(q)'
    BY <1>3, OneOwner, Shape DEF ProcBooked, Owning, Replacing, Dropping, CancelReasons
<1> QED BY <1>1, <1>2, <1>3 DEF Booked

\* The owner's operation, once past its booking, is the one our records name.
LEMMA OwnerRecorded ==
    ASSUME Typed, Order, Exclusive, Stage, Booked, NEW p \in Procs, pc[p] \in {"consume", "advance"} \cup Dropping
    PROVE  lineage = job[p] /\ job[p] \in Movers
<1>1. lineage # Nil /\ Ours(job[p]) /\ pc[p] # "idle"
    BY OneOwner DEF Order, ProcOrder, Owning, Replacing, Dropping, CancelReasons
<1>2. op[job[p]].state # "none"
    BY DEF Stage, ProcStage, Replacing
<1> QED BY <1>1, <1>2, Shape DEF Booked, LineageBooked, Ours

\* An appointment still active, validated for a new operation, has no replacement.
LEMMA NothingRecorded ==
    ASSUME Typed, Order, Exclusive, Stage, Booked, NEW m \in Movers, pc[m] = "insert"
    PROVE  lineage = Nil /\ m \notin made
<1>1. row /\ op[m].state = "none" /\ m \notin made
    BY DEF Booked, MoverBooked, OpBooked, Stage, MoverStage, Validating
<1>2. Ours(m)
    BY OneOwner, Shape DEF Owning, Validating, JobOK
<1> SUFFICES ASSUME lineage # Nil PROVE FALSE
    BY <1>1
<1>3. lineage \in Movers /\ lineage \in made /\ op[lineage].state \in LiveStates \cup {"completed"}
    BY DEF Typed, TypeOK, Order, Booked, LineageBooked
<1>4. op[lineage].state # "completed"
    BY <1>1, <1>3 DEF Booked, OpBooked
<1>5. lineage = m
    BY <1>2, <1>3, <1>4 DEF Booked, OpBooked, Live, Ours
<1> QED BY <1>1, <1>3, <1>5 DEF LiveStates

\* Nobody parks an operation while its source can still be dropped.
LEMMA ParkedIsOurs ==
    ASSUME Typed, Order, Booked, NEW j \in Movers, Parked(j)
    PROVE  Ours(j)
<1>1. lineage = j /\ j \in made /\ Live(j)
    BY Shape DEF Parked, Live, LiveStates, Behind, Booked, OpBooked, Order
<1> QED BY <1>1 DEF Booked, OpBooked

LEMMA BookedStep == ASSUME Typed, Order, Exclusive, Stage, Booked, Prompt, Next PROVE Booked'
<1>1. ASSUME NEW m \in Movers, Begin(m) PROVE Booked'
    <2>1. /\ m \in Procs /\ UNCHANGED <<lineage, made, source>>
          /\ \A q \in Procs \ {m} : pc'[q] = pc[q] /\ call'[q] = call[q] /\ job'[q] = job[q]
        BY <1>1, Shape DEF Begin, records, square, local, Goto, End, Tell
    <2>2. \A j \in Movers : op'[j].state = op[j].state /\ op'[j].reason = op[j].reason
        BY <1>1 DEF Begin, records
    <2>3. row' = row \/ (row' = FALSE /\ pc[m] \in Owning)
        BY <1>1 DEF Begin, records
    <2>4. /\ claim'.type = "reschedule" => claim'.op \in Movers
          /\ \/ claim'.type = claim.type /\ claim'.op = claim.op
             \/ claim' = NoClaim /\ MayGo
             \/ Free /\ claim'.type = "reschedule" /\ op[claim'.op].state = "none"
        BY <1>1, ClaimShape DEF Begin, claims, claimVars, AcquireReschedule, Insert, ClaimRow,
           At, Stage, MoverStage
    <2>5. ProcBooked(m)'
        BY <1>1, Shape DEF Begin, Goto, End, Tell, At, Rest, Hold, Booked, ProcBooked, records,
           square, local
    <2>6. m \in Movers => MoverBooked(m)'
        BY <1>1, Shape DEF Begin, Goto, End, Tell, At, Rest, Hold, Booked, MoverBooked, records,
           square
    <2> QED
        BY <2>1, <2>2, <2>3, <2>4, <2>5, <2>6, BookedAside
<1>2. ASSUME NEW m \in Movers, BeginRaises(m) PROVE Booked'
    <2>1. /\ m \in Procs /\ UNCHANGED <<lineage, made, source>>
          /\ \A q \in Procs \ {m} : pc'[q] = pc[q] /\ call'[q] = call[q] /\ job'[q] = job[q]
        BY <1>2, Shape DEF BeginRaises, records, square, local, End, Tell
    <2>2. \A j \in Movers : op'[j].state = op[j].state /\ op'[j].reason = op[j].reason
        BY <1>2 DEF BeginRaises, records
    <2>3. row' = row \/ (row' = FALSE /\ pc[m] \in Owning)
        BY <1>2 DEF BeginRaises, records
    <2>4. /\ claim'.type = "reschedule" => claim'.op \in Movers
          /\ \/ claim'.type = claim.type /\ claim'.op = claim.op
             \/ claim' = NoClaim /\ MayGo
             \/ Free /\ claim'.type = "reschedule" /\ op[claim'.op].state = "none"
        BY <1>2, ClaimShape DEF BeginRaises, claims, claimVars, AcquireReschedule, Insert,
           ClaimRow, At, Stage, MoverStage
    <2>5. ProcBooked(m)'
        BY <1>2, Shape DEF BeginRaises, End, Tell, At, Rest, Hold, Booked, ProcBooked, records,
           square, local
    <2>6. m \in Movers => MoverBooked(m)'
        BY <1>2, Shape DEF BeginRaises, End, Tell, At, Rest, Hold, Booked, MoverBooked, records,
           square
    <2> QED
        BY <2>1, <2>2, <2>3, <2>4, <2>5, <2>6, BookedAside
<1>3. ASSUME NEW m \in Movers, Reread(m) PROVE Booked'
    <2>1. /\ m \in Procs /\ UNCHANGED <<lineage, made, source>>
          /\ \A q \in Procs \ {m} : pc'[q] = pc[q] /\ call'[q] = call[q] /\ job'[q] = job[q]
        BY <1>3, Shape DEF Reread, records, square, local, Goto, GiveUp, End, Tell
    <2>2. \A j \in Movers : op'[j].state = op[j].state /\ op'[j].reason = op[j].reason
        BY <1>3 DEF Reread, records
    <2>3. row' = row \/ (row' = FALSE /\ pc[m] \in Owning)
        BY <1>3 DEF Reread, records
    <2>4. /\ claim'.type = "reschedule" => claim'.op \in Movers
          /\ \/ claim'.type = claim.type /\ claim'.op = claim.op
             \/ claim' = NoClaim /\ MayGo
             \/ Free /\ claim'.type = "reschedule" /\ op[claim'.op].state = "none"
        <3>1. Ours(m) /\ m \notin made
            BY <1>3, <2>1, OneOwner, Shape DEF Reread, At, Owning, Validating, JobOK, Stage, MoverStage, Booked, OpBooked
        <3>2. MayGo
            BY <3>1 DEF MayGo, Ours
        <3>3. claim' = claim \/ claim' = NoClaim
            BY <1>3 DEF Reread, GiveUp, Release, Delete, claims, claimVars
        <3> QED BY <3>2, <3>3, ClaimShape DEF NoClaim
    <2>5. ProcBooked(m)'
        BY <1>3, Shape DEF Reread, Goto, GiveUp, End, Tell, At, Rest, Hold, Booked, ProcBooked,
           records, square, local, Stage, MoverStage, Validating, OpBooked, JobOK
    <2>6. m \in Movers => MoverBooked(m)'
        BY <1>3, Shape DEF Reread, Goto, GiveUp, End, Tell, At, Rest, Hold, Booked, MoverBooked,
           records, square
    <2> QED
        BY <2>1, <2>2, <2>3, <2>4, <2>5, <2>6, BookedAside
<1>4. ASSUME NEW m \in Movers, Snapshot(m) PROVE Booked'
    <2>1. /\ m \in Procs /\ UNCHANGED <<lineage, made, source>>
          /\ \A q \in Procs \ {m} : pc'[q] = pc[q] /\ call'[q] = call[q] /\ job'[q] = job[q]
        BY <1>4, Shape DEF Snapshot, records, square, local, Goto, GiveUp, End, Tell
    <2>2. \A j \in Movers : op'[j].state = op[j].state /\ op'[j].reason = op[j].reason
        BY <1>4 DEF Snapshot, records
    <2>3. row' = row \/ (row' = FALSE /\ pc[m] \in Owning)
        BY <1>4 DEF Snapshot, records, At, Owning, Validating, Dropping
    <2>4. /\ claim'.type = "reschedule" => claim'.op \in Movers
          /\ \/ claim'.type = claim.type /\ claim'.op = claim.op
             \/ claim' = NoClaim /\ MayGo
             \/ Free /\ claim'.type = "reschedule" /\ op[claim'.op].state = "none"
        <3>1. Ours(m) /\ m \notin made
            BY <1>4, <2>1, OneOwner, Shape DEF Snapshot, At, Owning, Validating, JobOK, Stage, MoverStage, Booked, OpBooked
        <3>2. MayGo
            BY <3>1 DEF MayGo, Ours
        <3>3. claim' = claim \/ claim' = NoClaim
            BY <1>4 DEF Snapshot, GiveUp, Release, Delete, claims, claimVars
        <3> QED BY <3>2, <3>3, ClaimShape DEF NoClaim
    <2>5. ProcBooked(m)'
        <3>1. pc'[m] \in {"slot", "leave", "done", "idle"} /\ job'[m] = m
            BY <1>4, Shape DEF Snapshot, Goto, GiveUp, End, Tell, Rest, JobOK
        <3>2. m \notin made
            BY <1>4 DEF Snapshot, At, Stage, MoverStage, Validating, Booked, OpBooked
        <3> QED BY <2>1, <3>1, <3>2 DEF ProcBooked
    <2>6. m \in Movers => MoverBooked(m)'
        <3>1. pc'[m] \in {"leave", "done", "idle"} \/ (pc'[m] = "slot" /\ row' = row /\ row)
            BY <1>4, Shape DEF Snapshot, At, Goto, GiveUp, End, Tell, Rest, Booked, MoverBooked
        <3> QED BY <2>1, <3>1 DEF MoverBooked
    <2> QED
        BY <2>1, <2>2, <2>3, <2>4, <2>5, <2>6, BookedAside
<1>5. ASSUME NEW m \in Movers, ClaimSlot(m) PROVE Booked'
    <2>1. /\ m \in Procs /\ UNCHANGED <<lineage, made, source>>
          /\ \A q \in Procs \ {m} : pc'[q] = pc[q] /\ call'[q] = call[q] /\ job'[q] = job[q]
        BY <1>5, Shape DEF ClaimSlot, records, square, local, Goto, GiveUp, End, Tell
    <2>2. \A j \in Movers : op'[j].state = op[j].state /\ op'[j].reason = op[j].reason
        BY <1>5 DEF ClaimSlot, records
    <2>3. row' = row \/ (row' = FALSE /\ pc[m] \in Owning)
        BY <1>5 DEF ClaimSlot, records
    <2>4. /\ claim'.type = "reschedule" => claim'.op \in Movers
          /\ \/ claim'.type = claim.type /\ claim'.op = claim.op
             \/ claim' = NoClaim /\ MayGo
             \/ Free /\ claim'.type = "reschedule" /\ op[claim'.op].state = "none"
        <3>1. Ours(m) /\ m \notin made
            BY <1>5, <2>1, OneOwner, Shape DEF ClaimSlot, At, Owning, Validating, JobOK, Stage, MoverStage, Booked, OpBooked
        <3>2. MayGo
            BY <3>1 DEF MayGo, Ours
        <3>3. claim' = claim \/ claim' = NoClaim
            BY <1>5 DEF ClaimSlot, GiveUp, Release, Delete, claims, claimVars
        <3> QED BY <3>2, <3>3, ClaimShape DEF NoClaim
    <2>5. ProcBooked(m)'
        BY <1>5, Shape DEF ClaimSlot, Goto, GiveUp, End, Tell, At, Rest, Hold, Booked,
           ProcBooked, records, square, local, Stage, MoverStage, Validating, OpBooked, JobOK
    <2>6. m \in Movers => MoverBooked(m)'
        BY <1>5, Shape DEF ClaimSlot, Goto, GiveUp, End, Tell, At, Rest, Hold, Booked,
           MoverBooked, records, square
    <2> QED
        BY <2>1, <2>2, <2>3, <2>4, <2>5, <2>6, BookedAside
<1>6. ASSUME NEW m \in Movers, InsertOp(m) PROVE Booked'
    <2>1. m \in Procs /\ pc[m] = "insert" /\ pc[m] \in Owning /\ job[m] = m
        BY <1>6, Shape DEF InsertOp, At, JobOK, Owning, Validating
    <2>2. lineage = Nil /\ m \notin made /\ Ours(m)
        BY <2>1, NothingRecorded, OneOwner
    <2>3. op' = op \/ op' = [op EXCEPT ![m] = Frozen(m)]
        BY <1>6 DEF InsertOp
    <2>4. \A j \in Movers \ {m} : op'[j] = op[j]
        BY <2>3, Shape
    <2>5. op'[m].state \in {"none", "in_progress"}
        BY <2>1, <2>3, FrozenRow, Shape DEF Stage, MoverStage, Validating
    <2>6. /\ UNCHANGED <<made, row, source, claim, lineage, job>>
          /\ pc'[m] \in {"undo", "handoff"} /\ \A q \in Procs \ {m} : pc'[q] = pc[q]
        BY <1>6, <2>1, Shape DEF InsertOp, claims, claimVars, square, Tell, Goto
    <2>7. LineageBooked' /\ OpBooked(m)'
        BY <2>2, <2>5, <2>6 DEF LineageBooked, OpBooked, Live, Parked, Behind
    <2>8. ProcBooked(m)' /\ MoverBooked(m)'
        BY <2>1, <2>2, <2>6 DEF ProcBooked, MoverBooked
    <2> QED
        BY <2>1, <2>2, <2>4, <2>6, <2>7, <2>8, BookedOps
<1>7. ASSUME NEW m \in Movers, InsertRaises(m) PROVE Booked'
    <2>1. m \in Procs /\ pc[m] = "insert" /\ pc[m] \in Owning /\ job[m] = m
        BY <1>7, Shape DEF InsertRaises, At, JobOK, Owning, Validating
    <2>2. lineage = Nil /\ m \notin made /\ Ours(m)
        BY <2>1, NothingRecorded, OneOwner
    <2>3. op' = op \/ op' = [op EXCEPT ![m] = Frozen(m)]
        BY <1>7 DEF InsertRaises
    <2>4. \A j \in Movers \ {m} : op'[j] = op[j]
        BY <2>3, Shape
    <2>5. op'[m].state \in {"none", "in_progress"}
        BY <2>1, <2>3, FrozenRow, Shape DEF Stage, MoverStage, Validating
    <2>6. /\ UNCHANGED <<made, row, source, claim, lineage, job>>
          /\ pc'[m] \in {"undo", "handoff"} /\ \A q \in Procs \ {m} : pc'[q] = pc[q]
        BY <1>7, <2>1, Shape DEF InsertRaises, claims, claimVars, square, Tell, Goto
    <2>7. LineageBooked' /\ OpBooked(m)'
        BY <2>2, <2>5, <2>6 DEF LineageBooked, OpBooked, Live, Parked, Behind
    <2>8. ProcBooked(m)' /\ MoverBooked(m)'
        BY <2>1, <2>2, <2>6 DEF ProcBooked, MoverBooked
    <2> QED
        BY <2>1, <2>2, <2>4, <2>6, <2>7, <2>8, BookedOps
<1>8. ASSUME NEW m \in Movers, Undo(m) PROVE Booked'
    <2>1. /\ m \in Procs /\ UNCHANGED <<lineage, made, source>>
          /\ \A q \in Procs \ {m} : pc'[q] = pc[q] /\ call'[q] = call[q] /\ job'[q] = job[q]
        BY <1>8, Shape DEF Undo, records, square, local, Goto
    <2>2. \A j \in Movers : op'[j].state = op[j].state /\ op'[j].reason = op[j].reason
        BY <1>8 DEF Undo, records
    <2>3. row' = row \/ (row' = FALSE /\ pc[m] \in Owning)
        BY <1>8 DEF Undo, records
    <2>4. /\ claim'.type = "reschedule" => claim'.op \in Movers
          /\ \/ claim'.type = claim.type /\ claim'.op = claim.op
             \/ claim' = NoClaim /\ MayGo
             \/ Free /\ claim'.type = "reschedule" /\ op[claim'.op].state = "none"
        BY <1>8, ClaimShape DEF Undo, claims, claimVars
    <2>5. ProcBooked(m)'
        BY <1>8, Shape DEF Undo, Goto, At, Booked, ProcBooked, records, square, local, Live
    <2>6. m \in Movers => MoverBooked(m)'
        BY <1>8, Shape DEF Undo, Goto, At, Booked, MoverBooked, records, square
    <2> QED
        BY <2>1, <2>2, <2>3, <2>4, <2>5, <2>6, BookedAside
<1>9. ASSUME NEW m \in Movers, HandOff(m) PROVE Booked'
    <2>1. /\ m \in Procs /\ UNCHANGED <<lineage, made, source>>
          /\ \A q \in Procs \ {m} : pc'[q] = pc[q] /\ call'[q] = call[q] /\ job'[q] = job[q]
        BY <1>9, Shape DEF HandOff, records, square, local, Goto, End, Tell
    <2>2. \A j \in Movers : op'[j].state = op[j].state /\ op'[j].reason = op[j].reason
        BY <1>9 DEF HandOff, records
    <2>3. row' = row \/ (row' = FALSE /\ pc[m] \in Owning)
        BY <1>9 DEF HandOff, records
    <2>4. /\ claim'.type = "reschedule" => claim'.op \in Movers
          /\ \/ claim'.type = claim.type /\ claim'.op = claim.op
             \/ claim' = NoClaim /\ MayGo
             \/ Free /\ claim'.type = "reschedule" /\ op[claim'.op].state = "none"
        BY <1>9, ClaimShape DEF HandOff, claims, claimVars
    <2>5. ProcBooked(m)'
        BY <1>9, Shape DEF HandOff, Goto, End, Tell, At, Rest, Hold, Booked, ProcBooked,
           records, square, local
    <2>6. m \in Movers => MoverBooked(m)'
        BY <1>9, Shape DEF HandOff, Goto, End, Tell, At, Rest, Hold, Booked, MoverBooked,
           records, square
    <2> QED
        BY <2>1, <2>2, <2>3, <2>4, <2>5, <2>6, BookedAside
<1>10. ASSUME NEW p \in Procs, Gate(p) PROVE Booked'
    <2>1. /\ p \in Procs /\ UNCHANGED <<lineage, made, source>>
          /\ \A q \in Procs \ {p} : pc'[q] = pc[q] /\ call'[q] = call[q] /\ job'[q] = job[q]
        BY <1>10, Shape DEF Gate, records, square, local, Goto, End, Tell
    <2>2. \A j \in Movers : op'[j].state = op[j].state /\ op'[j].reason = op[j].reason
        BY <1>10 DEF Gate, records
    <2>3. row' = row \/ (row' = FALSE /\ pc[p] \in Owning)
        BY <1>10 DEF Gate, records
    <2>4. /\ claim'.type = "reschedule" => claim'.op \in Movers
          /\ \/ claim'.type = claim.type /\ claim'.op = claim.op
             \/ claim' = NoClaim /\ MayGo
             \/ Free /\ claim'.type = "reschedule" /\ op[claim'.op].state = "none"
        BY <1>10, ClaimShape DEF Gate, claims, claimVars
    <2>5. ProcBooked(p)'
        BY <1>10, Shape DEF Gate, Goto, End, Tell, At, Rest, Hold, Booked, ProcBooked, records,
           square, local
    <2>6. p \in Movers => MoverBooked(p)'
        BY <1>10, Shape DEF Gate, Goto, End, Tell, At, Rest, Hold, Booked, MoverBooked, records,
           square, GateHolds, Stage, MoverStage
    <2> QED
        BY <2>1, <2>2, <2>3, <2>4, <2>5, <2>6, BookedAside
<1>11. ASSUME NEW p \in Procs, NoCredential(p) PROVE Booked'
    <2>1. /\ p \in Procs /\ UNCHANGED <<lineage, made, source>>
          /\ \A q \in Procs \ {p} : pc'[q] = pc[q] /\ call'[q] = call[q] /\ job'[q] = job[q]
        BY <1>11, Shape DEF NoCredential, records, square, local, End, Tell
    <2>2. \A j \in Movers : op'[j].state = op[j].state /\ op'[j].reason = op[j].reason
        BY <1>11 DEF NoCredential, records
    <2>3. row' = row \/ (row' = FALSE /\ pc[p] \in Owning)
        BY <1>11 DEF NoCredential, records
    <2>4. /\ claim'.type = "reschedule" => claim'.op \in Movers
          /\ \/ claim'.type = claim.type /\ claim'.op = claim.op
             \/ claim' = NoClaim /\ MayGo
             \/ Free /\ claim'.type = "reschedule" /\ op[claim'.op].state = "none"
        BY <1>11, ClaimShape DEF NoCredential, claims, claimVars
    <2>5. ProcBooked(p)'
        BY <1>11, Shape DEF NoCredential, End, Tell, At, Rest, Hold, Booked, ProcBooked,
           records, square, local
    <2>6. p \in Movers => MoverBooked(p)'
        BY <1>11, Shape DEF NoCredential, End, Tell, At, Rest, Hold, Booked, MoverBooked,
           records, square
    <2> QED
        BY <2>1, <2>2, <2>3, <2>4, <2>5, <2>6, BookedAside
<1>12. ASSUME NEW p \in Procs, Adopt(p) PROVE Booked'
    <2>1. /\ p \in Procs /\ UNCHANGED <<lineage, made, source>>
          /\ \A q \in Procs \ {p} : pc'[q] = pc[q] /\ call'[q] = call[q] /\ job'[q] = job[q]
        BY <1>12, Shape DEF Adopt, records, square, local, Goto
    <2>2. \A j \in Movers : op'[j].state = op[j].state /\ op'[j].reason = op[j].reason
        BY <1>12 DEF Adopt, records
    <2>3. row' = row \/ (row' = FALSE /\ pc[p] \in Owning)
        BY <1>12 DEF Adopt, records
    <2>4. /\ claim'.type = "reschedule" => claim'.op \in Movers
          /\ \/ claim'.type = claim.type /\ claim'.op = claim.op
             \/ claim' = NoClaim /\ MayGo
             \/ Free /\ claim'.type = "reschedule" /\ op[claim'.op].state = "none"
        BY <1>12, ClaimShape DEF Adopt, claims, claimVars
    <2>5. ProcBooked(p)'
        BY <1>12, Shape DEF Adopt, Goto, At, Booked, ProcBooked, records, square, local
    <2>6. p \in Movers => MoverBooked(p)'
        BY <1>12, Shape DEF Adopt, Goto, At, Booked, MoverBooked, records, square
    <2> QED
        BY <2>1, <2>2, <2>3, <2>4, <2>5, <2>6, BookedAside
<1>13. ASSUME NEW p \in Procs, SendCreate(p) PROVE Booked'
    <2>1. /\ p \in Procs /\ UNCHANGED <<lineage, made, source>>
          /\ \A q \in Procs \ {p} : pc'[q] = pc[q] /\ call'[q] = call[q] /\ job'[q] = job[q]
        BY <1>13, Shape DEF SendCreate, records, square, local, Goto
    <2>2. \A j \in Movers : op'[j].state = op[j].state /\ op'[j].reason = op[j].reason
        BY <1>13 DEF SendCreate, records
    <2>3. row' = row \/ (row' = FALSE /\ pc[p] \in Owning)
        BY <1>13 DEF SendCreate, records
    <2>4. /\ claim'.type = "reschedule" => claim'.op \in Movers
          /\ \/ claim'.type = claim.type /\ claim'.op = claim.op
             \/ claim' = NoClaim /\ MayGo
             \/ Free /\ claim'.type = "reschedule" /\ op[claim'.op].state = "none"
        BY <1>13, ClaimShape DEF SendCreate, claims, claimVars
    <2>5. ProcBooked(p)'
        BY <1>13, Shape DEF SendCreate, Goto, At, Booked, ProcBooked, records, square, local
    <2>6. p \in Movers => MoverBooked(p)'
        BY <1>13, Shape DEF SendCreate, Goto, At, Booked, MoverBooked, records, square
    <2> QED
        BY <2>1, <2>2, <2>3, <2>4, <2>5, <2>6, BookedAside
<1>14. ASSUME NEW p \in Procs, CreateAnswered(p) PROVE Booked'
    <2>1. /\ p \in Procs /\ UNCHANGED <<lineage, made, source>>
          /\ \A q \in Procs \ {p} : pc'[q] = pc[q] /\ call'[q] = call[q] /\ job'[q] = job[q]
        BY <1>14, Shape DEF CreateAnswered, records, square, local, Goto, End, Tell, Abandon
    <2>2. \A j \in Movers : op'[j].state = op[j].state /\ op'[j].reason = op[j].reason
        BY <1>14 DEF CreateAnswered, records
    <2>3. row' = row \/ (row' = FALSE /\ pc[p] \in Owning)
        BY <1>14 DEF CreateAnswered, records
    <2>4. /\ claim'.type = "reschedule" => claim'.op \in Movers
          /\ \/ claim'.type = claim.type /\ claim'.op = claim.op
             \/ claim' = NoClaim /\ MayGo
             \/ Free /\ claim'.type = "reschedule" /\ op[claim'.op].state = "none"
        BY <1>14, ClaimShape DEF CreateAnswered, claims, claimVars
    <2>5. ProcBooked(p)'
        BY <1>14, Shape DEF CreateAnswered, Goto, End, Tell, At, Rest, Hold, Abandon, Booked,
           ProcBooked, records, square, local
    <2>6. p \in Movers => MoverBooked(p)'
        BY <1>14, Shape DEF CreateAnswered, Goto, End, Tell, At, Rest, Hold, Abandon, Booked,
           MoverBooked, records, square
    <2> QED
        BY <2>1, <2>2, <2>3, <2>4, <2>5, <2>6, BookedAside
<1>15. ASSUME NEW p \in Procs, MarkCreateFailed(p) PROVE Booked'
    <2>1. pc[p] = "createfailed" /\ pc[p] \in Owning /\ job[p] \in Movers /\ Ours(job[p])
        BY <1>15, OneOwner, Shape DEF MarkCreateFailed, At, Owning, Replacing, Dropping
    <2>2. op[job[p]].token = mine[p] /\ op[job[p]].state \in {"in_progress"}
        BY <2>1 DEF Stage, ProcStage, Replacing, Dropping
    <2>3. op' = [op EXCEPT ![job[p]].state = "create_failed"]
        BY <1>15, <2>2 DEF MarkCreateFailed, Mine
    <2>4. op'[job[p]].state = "create_failed" /\ \A j \in Movers \ {job[p]} : op'[j] = op[j]
        BY <2>1, <2>3, Shape DEF OpRows
    <2>5. /\ UNCHANGED <<made, row, source, claim, lineage, job>>
          /\ pc'[p] \in {"regate", "undo", "leave", "done", "idle"} /\ \A q \in Procs \ {p} : pc'[q] = pc[q]
        BY <1>15, Shape DEF MarkCreateFailed, claimVars, square, local, Tell, Goto, End, Rest
    <2>6. lineage = Nil
        BY <2>1 DEF Booked, ProcBooked
    <2>7. LineageBooked' /\ OpBooked(job[p])'
        BY <2>4, <2>5, <2>6 DEF LineageBooked, OpBooked, Live, LiveStates, Parked, Behind
    <2>8. ProcBooked(p)' /\ MoverBooked(p)'
        BY <2>4, <2>5 DEF ProcBooked, MoverBooked, Live, LiveStates
    <2> QED
        BY <2>1, <2>4, <2>5, <2>7, <2>8, BookedOps
<1>16. ASSUME NEW p \in Procs, Name(p) PROVE Booked'
    <2>1. /\ p \in Procs /\ UNCHANGED <<lineage, made, source>>
          /\ \A q \in Procs \ {p} : pc'[q] = pc[q] /\ call'[q] = call[q] /\ job'[q] = job[q]
        BY <1>16, Shape DEF Name, records, square, local, Goto, End, Tell
    <2>2. \A j \in Movers : op'[j].state = op[j].state /\ op'[j].reason = op[j].reason
        BY <1>16, Shape DEF Name, records, OpRows
    <2>3. row' = row \/ (row' = FALSE /\ pc[p] \in Owning)
        BY <1>16 DEF Name, records
    <2>4. /\ claim'.type = "reschedule" => claim'.op \in Movers
          /\ \/ claim'.type = claim.type /\ claim'.op = claim.op
             \/ claim' = NoClaim /\ MayGo
             \/ Free /\ claim'.type = "reschedule" /\ op[claim'.op].state = "none"
        BY <1>16, ClaimShape DEF Name, claims, claimVars
    <2>5. ProcBooked(p)'
        BY <1>16, Shape DEF Name, Goto, End, Tell, At, Rest, Hold, Booked, ProcBooked, records,
           square, local
    <2>6. p \in Movers => MoverBooked(p)'
        BY <1>16, Shape DEF Name, Goto, End, Tell, At, Rest, Hold, Booked, MoverBooked, records,
           square
    <2> QED
        BY <2>1, <2>2, <2>3, <2>4, <2>5, <2>6, BookedAside
<1>17. ASSUME NEW p \in Procs, InsertReplacement(p) PROVE Booked'
    <2>1. pc[p] = "lineage" /\ pc[p] \in Owning /\ job[p] \in Movers /\ Ours(job[p])
        BY <1>17, OneOwner, Shape DEF InsertReplacement, At, Owning, Replacing
    <2>2. lineage = Nil /\ op[job[p]].state = "in_progress"
        BY <2>1 DEF Booked, ProcBooked, Stage, ProcStage, Replacing
    <2>3. /\ lineage' = job[p] /\ UNCHANGED <<made, row, source, claim, op, job>> /\ pc'[p] = "consume"
          /\ \A q \in Procs \ {p} : pc'[q] = pc[q]
        BY <1>17, <2>2, Shape DEF InsertReplacement, Goto, claimVars, square, local
    <2>4. LineageBooked'
        BY <2>1, <2>2, <2>3 DEF LineageBooked, LiveStates, Ours
    <2>5. OpBooked(job[p])'
        BY <2>1, <2>2, <2>3 DEF Booked, OpBooked, Live, Parked, Ours
    <2>6. ProcBooked(p)' /\ MoverBooked(p)'
        BY <2>3 DEF ProcBooked, MoverBooked
    <2> QED
        BY <2>1, <2>2, <2>3, <2>4, <2>5, <2>6, BookedOps
<1>18. ASSUME NEW p \in Procs, MarkConsumed(p) PROVE Booked'
    <2>1. /\ p \in Procs /\ UNCHANGED <<lineage, made, source>>
          /\ \A q \in Procs \ {p} : pc'[q] = pc[q] /\ call'[q] = call[q] /\ job'[q] = job[q]
        BY <1>18, Shape DEF MarkConsumed, records, square, local, Goto
    <2>2. \A j \in Movers : op'[j].state = op[j].state /\ op'[j].reason = op[j].reason
        BY <1>18 DEF MarkConsumed, records
    <2>3. row' = row \/ (row' = FALSE /\ pc[p] \in Owning)
        BY <1>18 DEF MarkConsumed, records
    <2>4. /\ claim'.type = "reschedule" => claim'.op \in Movers
          /\ \/ claim'.type = claim.type /\ claim'.op = claim.op
             \/ claim' = NoClaim /\ MayGo
             \/ Free /\ claim'.type = "reschedule" /\ op[claim'.op].state = "none"
        BY <1>18, ClaimShape DEF MarkConsumed, claims, claimVars
    <2>5. ProcBooked(p)'
        BY <1>18, Shape DEF MarkConsumed, Goto, At, Booked, ProcBooked, records, square, local
    <2>6. p \in Movers => MoverBooked(p)'
        BY <1>18, Shape DEF MarkConsumed, Goto, At, Booked, MoverBooked, records, square
    <2> QED
        BY <2>1, <2>2, <2>3, <2>4, <2>5, <2>6, BookedAside
<1>19. ASSUME NEW p \in Procs, MarkReplacementCreated(p) PROVE Booked'
    <2>1. pc[p] = "advance" /\ pc[p] \in Owning /\ job[p] \in Movers /\ Ours(job[p])
        BY <1>19, OneOwner, Shape DEF MarkReplacementCreated, At, Owning, Replacing, Dropping
    <2>2. op[job[p]].token = mine[p] /\ op[job[p]].state \in {"in_progress"}
        BY <2>1 DEF Stage, ProcStage, Replacing, Dropping
    <2>3. op' = [op EXCEPT ![job[p]].state = "replacement_created"]
        BY <1>19, <2>2 DEF MarkReplacementCreated, Mine
    <2>4. op'[job[p]].state = "replacement_created" /\ \A j \in Movers \ {job[p]} : op'[j] = op[j]
        BY <2>1, <2>3, Shape DEF OpRows
    <2>5. /\ UNCHANGED <<made, row, source, claim, lineage, job>>
          /\ pc'[p] \in {"regate", "undo", "leave", "done", "idle"} /\ \A q \in Procs \ {p} : pc'[q] = pc[q]
        BY <1>19, Shape DEF MarkReplacementCreated, claimVars, square, local, Tell, Goto, End, Rest
    <2>6. lineage = job[p]
        BY <2>1, OwnerRecorded
    <2>7. LineageBooked' /\ OpBooked(job[p])'
        BY <2>1, <2>4, <2>5, <2>6 DEF LineageBooked, OpBooked, Live, LiveStates, Parked, Ours
    <2>8. pc'[p] \in {"regate", "done", "idle"}
        BY <1>19, Shape DEF MarkReplacementCreated, Goto, End, Tell, Rest
    <2>9. ProcBooked(p)' /\ MoverBooked(p)'
        BY <2>8 DEF ProcBooked, MoverBooked
    <2> QED
        BY <2>1, <2>4, <2>5, <2>7, <2>9, BookedOps
<1>20. ASSUME NEW p \in Procs, Fetch(p) PROVE Booked'
    <2>1. /\ p \in Procs /\ UNCHANGED <<lineage, made, source>>
          /\ \A q \in Procs \ {p} : pc'[q] = pc[q] /\ call'[q] = call[q] /\ job'[q] = job[q]
        BY <1>20, Shape DEF Fetch, records, square, local, Goto
    <2>2. \A j \in Movers : op'[j].state = op[j].state /\ op'[j].reason = op[j].reason
        BY <1>20 DEF Fetch, records
    <2>3. row' = row \/ (row' = FALSE /\ pc[p] \in Owning)
        BY <1>20 DEF Fetch, records
    <2>4. /\ claim'.type = "reschedule" => claim'.op \in Movers
          /\ \/ claim'.type = claim.type /\ claim'.op = claim.op
             \/ claim' = NoClaim /\ MayGo
             \/ Free /\ claim'.type = "reschedule" /\ op[claim'.op].state = "none"
        BY <1>20, ClaimShape DEF Fetch, claims, claimVars
    <2>5. ProcBooked(p)'
        BY <1>20, Shape DEF Fetch, Goto, At, Booked, ProcBooked, records, square, local
    <2>6. p \in Movers => MoverBooked(p)'
        BY <1>20, Shape DEF Fetch, Goto, At, Booked, MoverBooked, records, square
    <2> QED
        BY <2>1, <2>2, <2>3, <2>4, <2>5, <2>6, BookedAside
<1>21. ASSUME NEW p \in Procs, StillOurs(p) PROVE Booked'
    <2>1. /\ p \in Procs /\ UNCHANGED <<lineage, made, source>>
          /\ \A q \in Procs \ {p} : pc'[q] = pc[q] /\ call'[q] = call[q] /\ job'[q] = job[q]
        BY <1>21, Shape DEF StillOurs, records, square, local, Goto, End, Tell
    <2>2. \A j \in Movers : op'[j].state = op[j].state /\ op'[j].reason = op[j].reason
        BY <1>21 DEF StillOurs, records
    <2>3. row' = row \/ (row' = FALSE /\ pc[p] \in Owning)
        BY <1>21 DEF StillOurs, records
    <2>4. /\ claim'.type = "reschedule" => claim'.op \in Movers
          /\ \/ claim'.type = claim.type /\ claim'.op = claim.op
             \/ claim' = NoClaim /\ MayGo
             \/ Free /\ claim'.type = "reschedule" /\ op[claim'.op].state = "none"
        BY <1>21, ClaimShape DEF StillOurs, claims, claimVars
    <2>5. ProcBooked(p)'
        BY <1>21, Shape DEF StillOurs, Goto, End, Tell, At, Rest, Hold, Booked, ProcBooked,
           records, square, local
    <2>6. p \in Movers => MoverBooked(p)'
        BY <1>21, Shape DEF StillOurs, Goto, End, Tell, At, Rest, Hold, Booked, MoverBooked,
           records, square
    <2> QED
        BY <2>1, <2>2, <2>3, <2>4, <2>5, <2>6, BookedAside
<1>22. ASSUME NEW p \in Procs, CancelGet(p) PROVE Booked'
    <2>1. /\ p \in Procs /\ UNCHANGED <<lineage, made, source>>
          /\ \A q \in Procs \ {p} : pc'[q] = pc[q] /\ call'[q] = call[q] /\ job'[q] = job[q]
        BY <1>22, Shape DEF CancelGet, records, square, local, Goto
    <2>2. \A j \in Movers : op'[j].state = op[j].state /\ op'[j].reason = op[j].reason
        BY <1>22 DEF CancelGet, records
    <2>3. row' = row \/ (row' = FALSE /\ pc[p] \in Owning)
        BY <1>22 DEF CancelGet, records
    <2>4. /\ claim'.type = "reschedule" => claim'.op \in Movers
          /\ \/ claim'.type = claim.type /\ claim'.op = claim.op
             \/ claim' = NoClaim /\ MayGo
             \/ Free /\ claim'.type = "reschedule" /\ op[claim'.op].state = "none"
        BY <1>22, ClaimShape DEF CancelGet, claims, claimVars
    <2>5. ProcBooked(p)'
        BY <1>22, Shape DEF CancelGet, Goto, At, Booked, ProcBooked, records, square, local
    <2>6. p \in Movers => MoverBooked(p)'
        BY <1>22, Shape DEF CancelGet, Goto, At, Booked, MoverBooked, records, square
    <2> QED
        BY <2>1, <2>2, <2>3, <2>4, <2>5, <2>6, BookedAside
<1>23. ASSUME NEW p \in Procs, SendCancel(p) PROVE Booked'
    <2>1. /\ p \in Procs /\ UNCHANGED <<lineage, made, source>>
          /\ \A q \in Procs \ {p} : pc'[q] = pc[q] /\ call'[q] = call[q] /\ job'[q] = job[q]
        BY <1>23, Shape DEF SendCancel, records, square, local, Goto
    <2>2. \A j \in Movers : op'[j].state = op[j].state /\ op'[j].reason = op[j].reason
        BY <1>23 DEF SendCancel, records
    <2>3. row' = row \/ (row' = FALSE /\ pc[p] \in Owning)
        BY <1>23 DEF SendCancel, records
    <2>4. /\ claim'.type = "reschedule" => claim'.op \in Movers
          /\ \/ claim'.type = claim.type /\ claim'.op = claim.op
             \/ claim' = NoClaim /\ MayGo
             \/ Free /\ claim'.type = "reschedule" /\ op[claim'.op].state = "none"
        BY <1>23, ClaimShape DEF SendCancel, claims, claimVars
    <2>5. ProcBooked(p)'
        BY <1>23, Shape DEF SendCancel, Goto, At, Booked, ProcBooked, records, square, local
    <2>6. p \in Movers => MoverBooked(p)'
        BY <1>23, Shape DEF SendCancel, Goto, At, Booked, MoverBooked, records, square
    <2> QED
        BY <2>1, <2>2, <2>3, <2>4, <2>5, <2>6, BookedAside
<1>24. ASSUME NEW p \in Procs, CancelAnswered(p) PROVE Booked'
    <2>1. /\ p \in Procs /\ UNCHANGED <<lineage, made, source>>
          /\ \A q \in Procs \ {p} : pc'[q] = pc[q] /\ call'[q] = call[q] /\ job'[q] = job[q]
        BY <1>24, Shape DEF CancelAnswered, records, square, local, Goto, Abandon
    <2>2. \A j \in Movers : op'[j].state = op[j].state /\ op'[j].reason = op[j].reason
        BY <1>24 DEF CancelAnswered, records
    <2>3. row' = row \/ (row' = FALSE /\ pc[p] \in Owning)
        BY <1>24 DEF CancelAnswered, records
    <2>4. /\ claim'.type = "reschedule" => claim'.op \in Movers
          /\ \/ claim'.type = claim.type /\ claim'.op = claim.op
             \/ claim' = NoClaim /\ MayGo
             \/ Free /\ claim'.type = "reschedule" /\ op[claim'.op].state = "none"
        BY <1>24, ClaimShape DEF CancelAnswered, claims, claimVars
    <2>5. ProcBooked(p)'
        BY <1>24, Shape DEF CancelAnswered, Goto, At, Abandon, Booked, ProcBooked, records,
           square, local
    <2>6. p \in Movers => MoverBooked(p)'
        BY <1>24, Shape DEF CancelAnswered, Goto, At, Abandon, Booked, MoverBooked, records,
           square
    <2> QED
        BY <2>1, <2>2, <2>3, <2>4, <2>5, <2>6, BookedAside
<1>25. ASSUME NEW p \in Procs, MarkCancelFailed(p) PROVE Booked'
    <2>1. /\ pc[p] \in CancelReasons /\ pc[p] \in Owning /\ pc[p] \in Dropping /\ pc[p] # "idle"
          /\ job[p] \in Movers /\ Ours(job[p])
        <3>1. pc[p] \in CancelReasons
            BY <1>25 DEF MarkCancelFailed
        <3>2. pc[p] \in Dropping /\ pc[p] # "idle" /\ pc[p] \in Owning
            BY <3>1 DEF Owning, Dropping, CancelReasons
        <3> QED BY <3>1, <3>2, OneOwner, Shape
    <2>2. op[job[p]].token = mine[p] /\ op[job[p]].state \in {"replacement_created", "cancel_failed"}
        BY <2>1 DEF Stage, ProcStage
    <2>3. op' = [op EXCEPT ![job[p]].state = "cancel_failed", ![job[p]].reason = pc[p]]
        BY <1>25, <2>2 DEF MarkCancelFailed, Mine
    <2>4. /\ op'[job[p]].state = "cancel_failed" /\ op'[job[p]].reason = pc[p]
          /\ \A j \in Movers \ {job[p]} : op'[j] = op[j]
        BY <2>1, <2>3, Shape DEF OpRows
    <2>5. /\ UNCHANGED <<made, row, source, claim, lineage, job>>
          /\ pc'[p] \in {"done", "idle"} /\ \A q \in Procs \ {p} : pc'[q] = pc[q]
        BY <1>25, Shape DEF MarkCancelFailed, claimVars, square, local, Tell, End, Rest
    <2>6. lineage = job[p]
        BY <2>1, OwnerRecorded
    <2>7. pc[p] = "source_changed" => source.state # "replaced"
        BY DEF Booked, ProcBooked
    <2>8. LineageBooked' /\ OpBooked(job[p])'
        BY <2>1, <2>4, <2>5, <2>6, <2>7 DEF LineageBooked, OpBooked, Live, LiveStates, Parked, Ours
    <2>9. ProcBooked(p)' /\ MoverBooked(p)'
        BY <2>5 DEF ProcBooked, MoverBooked
    <2> QED
        BY <2>1, <2>4, <2>5, <2>8, <2>9, BookedOps
<1>26. ASSUME NEW p \in Procs, Complete(p) PROVE Booked'
    <2>1. /\ p \in Procs /\ UNCHANGED <<lineage, made, source>>
          /\ \A q \in Procs \ {p} : pc'[q] = pc[q] /\ call'[q] = call[q] /\ job'[q] = job[q]
        BY <1>26, Shape DEF Complete, records, square, local, Goto
    <2>2. \A j \in Movers : op'[j].state = op[j].state /\ op'[j].reason = op[j].reason
        BY <1>26 DEF Complete, records
    <2>3. row' = row \/ (row' = FALSE /\ pc[p] \in Owning)
        BY <1>26 DEF Complete, records, At, Owning, Validating, Dropping
    <2>4. /\ claim'.type = "reschedule" => claim'.op \in Movers
          /\ \/ claim'.type = claim.type /\ claim'.op = claim.op
             \/ claim' = NoClaim /\ MayGo
             \/ Free /\ claim'.type = "reschedule" /\ op[claim'.op].state = "none"
        BY <1>26, ClaimShape DEF Complete, claims, claimVars
    <2>5. ProcBooked(p)'
        BY <1>26, Shape DEF Complete, Goto, At, Booked, ProcBooked, records, square, local
    <2>6. p \in Movers => MoverBooked(p)'
        BY <1>26, Shape DEF Complete, Goto, At, Booked, MoverBooked, records, square
    <2> QED
        BY <2>1, <2>2, <2>3, <2>4, <2>5, <2>6, BookedAside
<1>27. ASSUME NEW p \in Procs, MarkCompleted(p) PROVE Booked'
    <2>1. pc[p] = "finish" /\ pc[p] \in Owning /\ job[p] \in Movers /\ Ours(job[p])
        BY <1>27, OneOwner, Shape DEF MarkCompleted, At, Owning, Replacing, Dropping
    <2>2. op[job[p]].token = mine[p] /\ op[job[p]].state \in {"replacement_created", "cancel_failed"}
        BY <2>1 DEF Stage, ProcStage, Replacing, Dropping
    <2>3. op' = [op EXCEPT ![job[p]].state = "completed"]
        BY <1>27, <2>2 DEF MarkCompleted, Mine
    <2>4. op'[job[p]].state = "completed" /\ \A j \in Movers \ {job[p]} : op'[j] = op[j]
        BY <2>1, <2>3, Shape DEF OpRows
    <2>5. /\ UNCHANGED <<made, row, source, claim, lineage, job>>
          /\ pc'[p] \in {"regate", "undo", "leave", "done", "idle"} /\ \A q \in Procs \ {p} : pc'[q] = pc[q]
        BY <1>27, Shape DEF MarkCompleted, claimVars, square, local, Tell, Goto, End, Rest
    <2>6. lineage = job[p] /\ ~row /\ source.state # "live"
        BY <2>1, OwnerRecorded DEF Dropping, Booked, ProcBooked, Order, ProcOrder
    <2>7. LineageBooked' /\ OpBooked(job[p])'
        BY <2>1, <2>4, <2>5, <2>6 DEF LineageBooked, OpBooked, Live, LiveStates, Parked, Ours
    <2>8. ProcBooked(p)' /\ MoverBooked(p)'
        BY <2>4, <2>5 DEF ProcBooked, MoverBooked, Live, LiveStates
    <2> QED
        BY <2>1, <2>4, <2>5, <2>7, <2>8, BookedOps
<1>28. ASSUME NEW p \in Procs, Leave(p) PROVE Booked'
    <2>1. /\ p \in Procs /\ UNCHANGED <<lineage, made, source>>
          /\ \A q \in Procs \ {p} : pc'[q] = pc[q] /\ call'[q] = call[q] /\ job'[q] = job[q]
        BY <1>28, Shape DEF Leave, records, square, local, Goto
    <2>2. \A j \in Movers : op'[j].state = op[j].state /\ op'[j].reason = op[j].reason
        BY <1>28 DEF Leave, records
    <2>3. row' = row \/ (row' = FALSE /\ pc[p] \in Owning)
        BY <1>28 DEF Leave, records
    <2>4. /\ claim'.type = "reschedule" => claim'.op \in Movers
          /\ \/ claim'.type = claim.type /\ claim'.op = claim.op
             \/ claim' = NoClaim /\ MayGo
             \/ Free /\ claim'.type = "reschedule" /\ op[claim'.op].state = "none"
        <3>1. Ours(job[p]) /\ (job[p] \notin made \/ ~Live(job[p]))
            BY <1>28, OneOwner DEF Leave, At, Owning, Booked, ProcBooked
        <3>2. MayGo
            BY <3>1 DEF MayGo, Ours
        <3>3. claim' = claim \/ claim' = NoClaim
            BY <1>28 DEF Leave, Release, Delete, claimVars
        <3> QED BY <3>2, <3>3, ClaimShape DEF NoClaim
    <2>5. ProcBooked(p)'
        BY <1>28, Shape DEF Leave, Goto, At, Rest, Hold, Booked, ProcBooked, records, square,
           local
    <2>6. p \in Movers => MoverBooked(p)'
        BY <1>28, Shape DEF Leave, Goto, At, Rest, Hold, Booked, MoverBooked, records, square
    <2> QED
        BY <2>1, <2>2, <2>3, <2>4, <2>5, <2>6, BookedAside
<1>29. ASSUME NEW w \in Workers, ListStale(w) PROVE Booked'
    <2>1. /\ w \in Procs /\ UNCHANGED <<lineage, made, source>>
          /\ \A q \in Procs \ {w} : pc'[q] = pc[q] /\ call'[q] = call[q] /\ job'[q] = job[q]
        BY <1>29, Shape DEF ListStale, records, square, local, Goto
    <2>2. \A j \in Movers : op'[j].state = op[j].state /\ op'[j].reason = op[j].reason
        BY <1>29 DEF ListStale, records
    <2>3. row' = row \/ (row' = FALSE /\ pc[w] \in Owning)
        BY <1>29 DEF ListStale, records
    <2>4. /\ claim'.type = "reschedule" => claim'.op \in Movers
          /\ \/ claim'.type = claim.type /\ claim'.op = claim.op
             \/ claim' = NoClaim /\ MayGo
             \/ Free /\ claim'.type = "reschedule" /\ op[claim'.op].state = "none"
        BY <1>29, ClaimShape DEF ListStale, claims, claimVars
    <2>5. ProcBooked(w)'
        BY <1>29, Shape DEF ListStale, Goto, At, Booked, ProcBooked, records, square, local
    <2>6. w \notin Movers
        BY Shape
    <2> QED
        BY <2>1, <2>2, <2>3, <2>4, <2>5, <2>6, BookedAside
<1>30. ASSUME NEW w \in Workers, LookForOp(w) PROVE Booked'
    <2>1. /\ w \in Procs /\ UNCHANGED <<lineage, made, source>>
          /\ \A q \in Procs \ {w} : pc'[q] = pc[q] /\ call'[q] = call[q] /\ job'[q] = job[q]
        BY <1>30, Shape DEF LookForOp, records, square, local, Goto
    <2>2. \A j \in Movers : op'[j].state = op[j].state /\ op'[j].reason = op[j].reason
        BY <1>30 DEF LookForOp, records
    <2>3. row' = row \/ (row' = FALSE /\ pc[w] \in Owning)
        BY <1>30 DEF LookForOp, records
    <2>4. /\ claim'.type = "reschedule" => claim'.op \in Movers
          /\ \/ claim'.type = claim.type /\ claim'.op = claim.op
             \/ claim' = NoClaim /\ MayGo
             \/ Free /\ claim'.type = "reschedule" /\ op[claim'.op].state = "none"
        BY <1>30, ClaimShape DEF LookForOp, claims, claimVars
    <2>5. ProcBooked(w)'
        BY <1>30, Shape DEF LookForOp, Goto, At, Booked, ProcBooked, records, square, local
    <2>6. w \notin Movers
        BY Shape
    <2> QED
        BY <2>1, <2>2, <2>3, <2>4, <2>5, <2>6, BookedAside
<1>31. ASSUME NEW w \in Workers, SweepOrphan(w) PROVE Booked'
    <2>1. /\ w \in Procs /\ UNCHANGED <<lineage, made, source>>
          /\ \A q \in Procs \ {w} : pc'[q] = pc[q] /\ call'[q] = call[q] /\ job'[q] = job[q]
        BY <1>31, Shape DEF SweepOrphan, records, square, local, Goto
    <2>2. \A j \in Movers : op'[j].state = op[j].state /\ op'[j].reason = op[j].reason
        BY <1>31 DEF SweepOrphan, records
    <2>3. row' = row \/ (row' = FALSE /\ pc[w] \in Owning)
        BY <1>31 DEF SweepOrphan, records
    <2>4. /\ claim'.type = "reschedule" => claim'.op \in Movers
          /\ \/ claim'.type = claim.type /\ claim'.op = claim.op
             \/ claim' = NoClaim /\ MayGo
             \/ Free /\ claim'.type = "reschedule" /\ op[claim'.op].state = "none"
        <3>1. claim' = claim \/ (claim' = NoClaim /\ claim.token = read[w].claim)
            BY <1>31 DEF SweepOrphan, Release, ReleaseOrphan, Owns, Delete, claimVars
        <3>2. ASSUME claim.token = read[w].claim PROVE MayGo
            <4>1. Ours(job[w]) /\ job[w] \in Movers
                BY <1>31, <2>1, <3>2, Shape DEF SweepOrphan, At, Exclusive, Reader, Looking
            <4>2. job[w] \notin made \/ ~Live(job[w])
                BY <1>31, <3>2, <4>1 DEF SweepOrphan, At, Stage, WorkerStage, Booked, OpBooked, Live, LiveStates
            <4> QED BY <4>1, <4>2 DEF MayGo, Ours
        <3> QED BY <3>1, <3>2, ClaimShape DEF NoClaim
    <2>5. ProcBooked(w)'
        BY <1>31, Shape DEF SweepOrphan, Goto, At, Booked, ProcBooked, records, square, local
    <2>6. w \notin Movers
        BY Shape
    <2> QED
        BY <2>1, <2>2, <2>3, <2>4, <2>5, <2>6, BookedAside
<1>32. ASSUME NEW w \in Workers, DropStale(w) PROVE Booked'
    <2>1. /\ w \in Procs /\ UNCHANGED <<lineage, made, source>>
          /\ \A q \in Procs \ {w} : pc'[q] = pc[q] /\ call'[q] = call[q] /\ job'[q] = job[q]
        BY <1>32, Shape DEF DropStale, records, square, local, Goto
    <2>2. \A j \in Movers : op'[j].state = op[j].state /\ op'[j].reason = op[j].reason
        BY <1>32 DEF DropStale, records
    <2>3. row' = row \/ (row' = FALSE /\ pc[w] \in Owning)
        BY <1>32 DEF DropStale, records
    <2>4. /\ claim'.type = "reschedule" => claim'.op \in Movers
          /\ \/ claim'.type = claim.type /\ claim'.op = claim.op
             \/ claim' = NoClaim /\ MayGo
             \/ Free /\ claim'.type = "reschedule" /\ op[claim'.op].state = "none"
        <3>1. claim' = claim \/ (claim' = NoClaim /\ claim.token = read[w].claim)
            BY <1>32 DEF DropStale, Release, ReleaseOrphan, Owns, Delete, claimVars
        <3>2. ASSUME claim.token = read[w].claim PROVE MayGo
            <4>1. Ours(job[w]) /\ job[w] \in Movers
                BY <1>32, <2>1, <3>2, Shape DEF DropStale, At, Exclusive, Reader, Looking
            <4>2. job[w] \notin made \/ ~Live(job[w])
                BY <1>32, <3>2, <4>1 DEF DropStale, At, Stage, WorkerStage, Booked, OpBooked, Live, LiveStates
            <4> QED BY <4>1, <4>2 DEF MayGo, Ours
        <3> QED BY <3>1, <3>2, ClaimShape DEF NoClaim
    <2>5. ProcBooked(w)'
        BY <1>32, Shape DEF DropStale, Goto, At, Booked, ProcBooked, records, square, local
    <2>6. w \notin Movers
        BY Shape
    <2> QED
        BY <2>1, <2>2, <2>3, <2>4, <2>5, <2>6, BookedAside
<1>33. ASSUME NEW w \in Workers, TakeOverClaim(w) PROVE Booked'
    <2>1. /\ w \in Procs /\ UNCHANGED <<lineage, made, source>>
          /\ \A q \in Procs \ {w} : pc'[q] = pc[q] /\ call'[q] = call[q] /\ job'[q] = job[q]
        BY <1>33, Shape DEF TakeOverClaim, records, square, local, Goto
    <2>2. \A j \in Movers : op'[j].state = op[j].state /\ op'[j].reason = op[j].reason
        BY <1>33 DEF TakeOverClaim, records
    <2>3. row' = row \/ (row' = FALSE /\ pc[w] \in Owning)
        BY <1>33 DEF TakeOverClaim, records
    <2>4. /\ claim'.type = "reschedule" => claim'.op \in Movers
          /\ \/ claim'.type = claim.type /\ claim'.op = claim.op
             \/ claim' = NoClaim /\ MayGo
             \/ Free /\ claim'.type = "reschedule" /\ op[claim'.op].state = "none"
        <3>1. claim'.type = claim.type /\ claim'.op = claim.op
            BY <1>33, ClaimShape DEF TakeOverClaim, TakeOverReschedule, TakeOver, Owns, claims, claimVars, Typed,
               TypeOK, ClaimsTypeOK, ClaimRows, NoClaim
        <3> QED BY <3>1, ClaimShape
    <2>5. ProcBooked(w)'
        BY <1>33, Shape DEF TakeOverClaim, Goto, At, Hold, Booked, ProcBooked, records, square,
           local
    <2>6. w \notin Movers
        BY Shape
    <2> QED
        BY <2>1, <2>2, <2>3, <2>4, <2>5, <2>6, BookedAside
<1>34. ASSUME NEW w \in Workers, AdoptToken(w) PROVE Booked'
    <2>1. /\ w \in Procs /\ UNCHANGED <<lineage, made, source>>
          /\ \A q \in Procs \ {w} : pc'[q] = pc[q] /\ call'[q] = call[q] /\ job'[q] = job[q]
        BY <1>34, Shape DEF AdoptToken, records, square, local, Goto, End, Tell
    <2>2. \A j \in Movers : op'[j].state = op[j].state /\ op'[j].reason = op[j].reason
        BY <1>34, Shape DEF AdoptToken, records, OpRows
    <2>3. row' = row \/ (row' = FALSE /\ pc[w] \in Owning)
        BY <1>34 DEF AdoptToken, records
    <2>4. /\ claim'.type = "reschedule" => claim'.op \in Movers
          /\ \/ claim'.type = claim.type /\ claim'.op = claim.op
             \/ claim' = NoClaim /\ MayGo
             \/ Free /\ claim'.type = "reschedule" /\ op[claim'.op].state = "none"
        BY <1>34, ClaimShape DEF AdoptToken, claims, claimVars
    <2>5. ProcBooked(w)'
        BY <1>34, Shape DEF AdoptToken, Goto, End, Tell, At, Rest, Hold, Booked, ProcBooked,
           records, square, local
    <2>6. w \notin Movers
        BY Shape
    <2> QED
        BY <2>1, <2>2, <2>3, <2>4, <2>5, <2>6, BookedAside
<1>35. ASSUME CancelBegins PROVE Booked'
    <2>1. /\ UNCHANGED <<row, lineage, op, made, source, call, job, pc>>
          /\ claim'.type = "cancel" /\ claim.type = "none"
        BY <1>35 DEF CancelBegins, AcquireCancel, Insert, ClaimRow, Free, NoClaim, cancelled, local
    <2> QED
        BY <2>1 DEF Booked, LineageBooked, OpBooked, MoverBooked, ProcBooked, Live, Parked, Ours
<1>36. ASSUME CancelActs PROVE Booked'
    <2>1. UNCHANGED <<claim, row, lineage, op, made, call, job, pc>>
        BY <1>36 DEF CancelActs, cancelled, claimVars, local
    <2>2. IF source.state = "live" THEN source'.state = "cancelled" ELSE source'.state = source.state
        BY <1>36 DEF CancelActs, Typed, TypeOK
    <2> QED
        BY <2>1, <2>2 DEF Booked, LineageBooked, OpBooked, MoverBooked, ProcBooked, Live, Parked, Ours
<1>37. ASSUME CancelRecords PROVE Booked'
    <2>1. UNCHANGED <<claim, lineage, op, made, source, call, job, pc>> /\ ~row' /\ claim.type = "cancel"
        BY <1>37 DEF CancelRecords, cancelled, claimVars, local, Exclusive
    <2>2. \A q \in Procs : pc[q] \notin Owning
        BY <2>1 DEF Exclusive, Owned, Ours
    <2>3. \A j \in Movers : MoverBooked(j)'
        BY <2>1, <2>2, Shape DEF MoverBooked, Owning, Validating, Replacing
    <2> QED
        BY <2>1, <2>3 DEF Booked, LineageBooked, OpBooked, ProcBooked, Live, Parked, Ours
<1>38. ASSUME CancelReleases PROVE Booked'
    <2>1. /\ UNCHANGED <<row, lineage, op, made, source, call, job, pc>>
          /\ claim' = NoClaim /\ claim.type = "cancel"
        BY <1>38 DEF CancelReleases, Release, Delete, cancelled, local, Exclusive
    <2> QED
        BY <2>1 DEF Booked, LineageBooked, OpBooked, MoverBooked, ProcBooked, Live, Parked, Ours, NoClaim
<1>39. ASSUME NEW p \in Procs, AnswerCreate(p) PROVE Booked'
    <2>1. /\ UNCHANGED <<claim, row, lineage, op, source, job, pc>> /\ pc[p] = "creating"
          /\ \A q \in Procs \ {p} : call'[q] = call[q]
          /\ \/ made' = made \cup {job[p]} /\ call'[p] = "ok"
             \/ made' = made
        BY <1>39, Shape DEF AnswerCreate, Book, At, claims, claimVars, records, local
    <2>2. Ours(job[p]) /\ op[job[p]].state = "in_progress" /\ job[p] \in Movers
        BY <2>1, OneOwner, Shape DEF Owning, Replacing, Stage, ProcStage
    <2>3. \A j \in Movers : OpBooked(j)'
        BY <2>1, <2>2 DEF Booked, OpBooked, Live, Parked, Ours
    <2>4. call'[p] = "ok" \/ (made' = made /\ call[p] # "ok")
        BY <1>39, <2>1 DEF AnswerCreate
    <2>5. \A j \in Movers : MoverBooked(j)'
        BY <2>1, <2>4, OneOwner, Shape DEF Booked, MoverBooked, Owning, Validating, Replacing
    <2>6. call'[p] # "mismatch"
        BY <1>39, Shape DEF AnswerCreate
    <2>7. \A q \in Procs : ProcBooked(q)'
        BY <2>1, <2>6, OneOwner, Shape DEF Booked, ProcBooked, Owning, Replacing, Dropping, Live
    <2> QED
        BY <2>1, <2>3, <2>5, <2>7 DEF Booked, LineageBooked
<1>40. ASSUME NEW p \in Procs, AnswerCancel(p) PROVE Booked'
    <2>1. /\ UNCHANGED <<claim, row, lineage, op, made, job, pc>> /\ pc[p] = "cancelling"
          /\ \A q \in Procs \ {p} : call'[q] = call[q]
        BY <1>40, Shape DEF AnswerCancel, At, claims, claimVars, records, local
    <2>2. source' = source \/ (source.state = "live" /\ source'.state = "replaced" /\ call'[p] # "mismatch")
        BY <1>40, Shape DEF AnswerCancel, CancelSource, Typed, TypeOK
    <2>3. Ours(job[p]) /\ ~Parked(job[p])
        BY <2>1, OneOwner DEF Owning, Dropping, Stage, ProcStage
    <2>4. \A j \in Movers : ~Parked(j)
        BY <2>3, ParkedIsOurs DEF Ours
    <2>5. \A j \in Movers : OpBooked(j)'
        BY <2>1, <2>2, <2>4 DEF Booked, OpBooked, Live, Parked, Ours
    <2>6. \A j \in Movers : MoverBooked(j)'
        BY <2>1, OneOwner, Shape DEF Booked, MoverBooked, Owning, Validating, Replacing
    <2>7. call'[p] = "mismatch" => source'.state # "replaced"
        BY <1>40, <2>2, Shape DEF AnswerCancel, Typed, TypeOK
    <2>8. \A q \in Procs : ProcBooked(q)'
        BY <2>1, <2>7, OneOwner, Shape DEF Booked, ProcBooked, Owning, Replacing, Dropping, CancelReasons, Live
    <2> QED
        BY <2>1, <2>5, <2>6, <2>8 DEF Booked, LineageBooked
<1>41. ASSUME NEW p \in Procs, Crash(p) PROVE Booked'
    <2>1. /\ p \in Procs /\ UNCHANGED <<lineage, made, source>>
          /\ \A q \in Procs \ {p} : pc'[q] = pc[q] /\ call'[q] = call[q] /\ job'[q] = job[q]
        BY <1>41, Shape DEF Crash, records, square, local, Abandon
    <2>2. \A j \in Movers : op'[j].state = op[j].state /\ op'[j].reason = op[j].reason
        BY <1>41 DEF Crash, records
    <2>3. row' = row \/ (row' = FALSE /\ pc[p] \in Owning)
        BY <1>41 DEF Crash, records
    <2>4. /\ claim'.type = "reschedule" => claim'.op \in Movers
          /\ \/ claim'.type = claim.type /\ claim'.op = claim.op
             \/ claim' = NoClaim /\ MayGo
             \/ Free /\ claim'.type = "reschedule" /\ op[claim'.op].state = "none"
        BY <1>41, ClaimShape DEF Crash, claims, claimVars
    <2>5. ProcBooked(p)'
        BY <1>41, Shape DEF Crash, Hold, Abandon, Booked, ProcBooked, records, square, local
    <2>6. p \in Movers => MoverBooked(p)'
        BY <1>41, Shape DEF Crash, MoverBooked
    <2> QED
        BY <2>1, <2>2, <2>3, <2>4, <2>5, <2>6, BookedAside
<1>42. ASSUME LateCall PROVE Booked'
    <2> PICK c \in late : /\ late' = late \ {c}
                      /\ \/ c.kind = "create" /\ Book(c.op) /\ UNCHANGED source
                         \/ c.kind = "cancel" /\ CancelSource(c.version) /\ UNCHANGED made
                         \/ UNCHANGED <<source, made>>
                      /\ UNCHANGED <<claims, records, call, local, other, pc, reply, crashes>>
        BY <1>42 DEF LateCall
    <2>1. UNCHANGED <<claim, row, lineage, op, call, job, pc>>
        BY DEF claims, claimVars, records, local
    <2>2. \A q \in Procs : pc[q] \in Owning => pc[q] = "provider_unknown"
        BY OneOwner
    <2>3. \A j \in Movers : MoverBooked(j)'
        BY <2>1, <2>2, Shape DEF MoverBooked, Owning, Validating, Replacing
    <2>4. \A q \in Procs : ProcBooked(q)'
        BY <2>1, <2>2 DEF ProcBooked, Owning, Replacing, Dropping, CancelReasons
    <2>5. LineageBooked'
        BY <2>1 DEF Booked, LineageBooked
    <2>6. \A j \in Movers : OpBooked(j)'
        <3>1. CASE UNCHANGED <<source, made>>
            BY <2>1, <3>1 DEF Booked, OpBooked, Live, Parked, Ours
        <3>2. CASE c.kind = "create" /\ Book(c.op) /\ UNCHANGED source
            <4>1. Ours(c.op) /\ op[c.op].state = "in_progress"
                BY <3>2 DEF Stage, LateStage
            <4> QED BY <2>1, <3>2, <4>1 DEF Book, Booked, OpBooked, Live, Parked, Ours
        <3>3. CASE c.kind = "cancel" /\ CancelSource(c.version) /\ UNCHANGED made
            <4>1. \A j \in Movers : ~Parked(j)
                BY <3>3, ParkedIsOurs DEF Stage, LateStage, Ours
            <4>2. source'.state = source.state \/ (source.state = "live" /\ source'.state = "replaced")
                BY <3>3 DEF CancelSource, Typed, TypeOK
            <4> QED BY <2>1, <3>3, <4>1, <4>2 DEF Booked, OpBooked, Live, Parked, Ours
        <3> QED BY <3>1, <3>2, <3>3
    <2> QED BY <2>3, <2>4, <2>5, <2>6 DEF Booked
<1>43. ASSUME MerchantEdits PROVE Booked'
    <2>1. UNCHANGED <<claim, row, lineage, op, made, call, job, pc>>
        BY <1>43 DEF MerchantEdits, claims, claimVars, records, local
    <2>2. source.state = "live" /\ source'.state \in {"live", "cancelled"}
        BY <1>43 DEF MerchantEdits, Typed, TypeOK
    <2> QED
        BY <2>1, <2>2 DEF Booked, LineageBooked, OpBooked, MoverBooked, ProcBooked, Live, Parked, Ours
<1>44. ASSUME AgeClaim PROVE Booked'
    <2>1. UNCHANGED <<claim, row, lineage, op, source, made, call, job, pc>>
        BY <1>44 DEF AgeClaim, ClaimAges, records, square, local
    <2> QED
        BY <2>1 DEF Booked, LineageBooked, OpBooked, MoverBooked, ProcBooked, Live, Parked, Ours
<1> QED
    BY <1>1, <1>2, <1>3, <1>4, <1>5, <1>6, <1>7, <1>8, <1>9, <1>10, <1>11, <1>12, <1>13, <1>14,
       <1>15, <1>16, <1>17, <1>18, <1>19, <1>20, <1>21, <1>22, <1>23, <1>24, <1>25, <1>26,
       <1>27, <1>28, <1>29, <1>30, <1>31, <1>32, <1>33, <1>34, <1>35, <1>36, <1>37, <1>38,
       <1>39, <1>40, <1>41, <1>42, <1>43, <1>44 DEF Next, Freeze, Execute, Recover, Cancel,
       Environment

-----------------------------------------------------------------------------
(* What a mover answered is what became of its operation *)

\* What an answer may rest on: no operation, one that is over, or one that is parked.
AsAnswered(m) ==
    /\ op[m].state \in {"none", "create_failed", "completed"} => op'[m].state = op[m].state
    /\ Parked(m) => Parked(m)'
    /\ m \in made' => m \in made \/ op[m].state # "create_failed"

LEMMA AnswersAside ==
    ASSUME Typed, Answers, NEW p \in Procs, made \subseteq made',
           \A m \in Movers \ {p} : pc'[m] = pc[m] /\ reply'[m] = reply[m] /\ AsAnswered(m),
           p \in Movers => Answered(p)'
    PROVE  Answers'
<1> SUFFICES ASSUME NEW m \in Movers, m # p PROVE Answered(m)'
    BY DEF Answers
<1>1. Answered(m) /\ AsAnswered(m) /\ pc'[m] = pc[m] /\ reply'[m] = reply[m]
    BY DEF Answers
<1> QED BY <1>1 DEF Answered, AsAnswered

LEMMA AnswersStep == ASSUME Typed, Order, Exclusive, Stage, Booked, Answers, Prompt, Next PROVE Answers'
<1>1. ASSUME NEW m \in Movers, Begin(m) PROVE Answers'
    <2>1. m \in Procs /\ \A j \in Movers \ {m} : pc'[j] = pc[j] /\ reply'[j] = reply[j]
        BY <1>1, Shape DEF Begin, Goto, End, Tell
    <2>2. made' = made
        BY <1>1 DEF Begin, square
    <2>3. \A j \in Movers : AsAnswered(j)
        <3>1. op' = op
            BY <1>1 DEF Begin, records
        <3> QED BY <2>2, <3>1 DEF AsAnswered, Parked
    <2>4. m \in Movers => Answered(m)'
        <3>1. op'[m].state = "none" /\ reply[m] = "none"
            BY <1>1 DEF Begin, At, Stage, MoverStage, Validating, Answers, Answered, records
        <3>2. reply'[m] = "none" \/ (reply'[m] \in {"busy", "refused", "already_cancelled"} /\ pc'[m] \in {"leave", "done"})
            BY <1>1, <3>1, Shape DEF Begin, Goto, End, Tell, Rest, Hold
        <3> QED BY <3>1, <3>2 DEF Answered
    <2> QED BY <2>1, <2>2, <2>3, <2>4, AnswersAside
<1>2. ASSUME NEW m \in Movers, BeginRaises(m) PROVE Answers'
    <2>1. m \in Procs /\ \A j \in Movers \ {m} : pc'[j] = pc[j] /\ reply'[j] = reply[j]
        BY <1>2, Shape DEF BeginRaises, End, Tell
    <2>2. made' = made
        BY <1>2 DEF BeginRaises, square
    <2>3. \A j \in Movers : AsAnswered(j)
        <3>1. op' = op
            BY <1>2 DEF BeginRaises, records
        <3> QED BY <2>2, <3>1 DEF AsAnswered, Parked
    <2>4. m \in Movers => Answered(m)'
        <3>1. op'[m].state = "none" /\ reply[m] = "none"
            BY <1>2 DEF BeginRaises, At, Stage, MoverStage, Validating, Answers, Answered,
               records
        <3>2. reply'[m] = "none" \/ (reply'[m] \in {"busy", "refused", "already_cancelled"} /\ pc'[m] \in {"leave", "done"})
            BY <1>2, <3>1, Shape DEF BeginRaises, End, Tell, Rest, Hold
        <3> QED BY <3>1, <3>2 DEF Answered
    <2> QED BY <2>1, <2>2, <2>3, <2>4, AnswersAside
<1>3. ASSUME NEW m \in Movers, Reread(m) PROVE Answers'
    <2>1. m \in Procs /\ \A j \in Movers \ {m} : pc'[j] = pc[j] /\ reply'[j] = reply[j]
        BY <1>3, Shape DEF Reread, Goto, GiveUp, End, Tell
    <2>2. made' = made
        BY <1>3 DEF Reread, square
    <2>3. \A j \in Movers : AsAnswered(j)
        <3>1. op' = op
            BY <1>3 DEF Reread, records
        <3> QED BY <2>2, <3>1 DEF AsAnswered, Parked
    <2>4. m \in Movers => Answered(m)'
        <3>1. op'[m].state = "none" /\ reply[m] = "none"
            BY <1>3 DEF Reread, At, Stage, MoverStage, Validating, Answers, Answered, records
        <3>2. reply'[m] = "none" \/ (reply'[m] \in {"busy", "refused", "already_cancelled"} /\ pc'[m] \in {"leave", "done"})
            BY <1>3, <3>1, Shape DEF Reread, Goto, GiveUp, End, Tell, Rest, Hold
        <3> QED BY <3>1, <3>2 DEF Answered
    <2> QED BY <2>1, <2>2, <2>3, <2>4, AnswersAside
<1>4. ASSUME NEW m \in Movers, Snapshot(m) PROVE Answers'
    <2>1. m \in Procs /\ \A j \in Movers \ {m} : pc'[j] = pc[j] /\ reply'[j] = reply[j]
        BY <1>4, Shape DEF Snapshot, Goto, GiveUp, End, Tell
    <2>2. made' = made
        BY <1>4 DEF Snapshot, square
    <2>3. \A j \in Movers : AsAnswered(j)
        <3>1. op' = op
            BY <1>4 DEF Snapshot, records
        <3> QED BY <2>2, <3>1 DEF AsAnswered, Parked
    <2>4. m \in Movers => Answered(m)'
        <3>1. op'[m].state = "none" /\ reply[m] = "none"
            BY <1>4 DEF Snapshot, At, Stage, MoverStage, Validating, Answers, Answered, records
        <3>2. reply'[m] = "none" \/ (reply'[m] \in {"busy", "refused", "already_cancelled"} /\ pc'[m] \in {"leave", "done"})
            BY <1>4, <3>1, Shape DEF Snapshot, Goto, GiveUp, End, Tell, Rest, Hold
        <3> QED BY <3>1, <3>2 DEF Answered
    <2> QED BY <2>1, <2>2, <2>3, <2>4, AnswersAside
<1>5. ASSUME NEW m \in Movers, ClaimSlot(m) PROVE Answers'
    <2>1. m \in Procs /\ \A j \in Movers \ {m} : pc'[j] = pc[j] /\ reply'[j] = reply[j]
        BY <1>5, Shape DEF ClaimSlot, Goto, GiveUp, End, Tell
    <2>2. made' = made
        BY <1>5 DEF ClaimSlot, square
    <2>3. \A j \in Movers : AsAnswered(j)
        <3>1. op' = op
            BY <1>5 DEF ClaimSlot, records
        <3> QED BY <2>2, <3>1 DEF AsAnswered, Parked
    <2>4. m \in Movers => Answered(m)'
        <3>1. op'[m].state = "none" /\ reply[m] = "none"
            BY <1>5 DEF ClaimSlot, At, Stage, MoverStage, Validating, Answers, Answered, records
        <3>2. reply'[m] = "none" \/ (reply'[m] \in {"busy", "refused", "already_cancelled"} /\ pc'[m] \in {"leave", "done"})
            BY <1>5, <3>1, Shape DEF ClaimSlot, Goto, GiveUp, End, Tell, Rest, Hold
        <3> QED BY <3>1, <3>2 DEF Answered
    <2> QED BY <2>1, <2>2, <2>3, <2>4, AnswersAside
<1>6. ASSUME NEW m \in Movers, InsertOp(m) PROVE Answers'
    <2>1. m \in Procs /\ \A j \in Movers \ {m} : pc'[j] = pc[j] /\ reply'[j] = reply[j]
        BY <1>6, Shape DEF InsertOp, Tell, Goto
    <2>2. made' = made
        BY <1>6 DEF InsertOp, square
    <2>3. \A j \in Movers \ {m} : AsAnswered(j)
        <3>1. op' = op \/ op' = [op EXCEPT ![m] = Frozen(m)]
            BY <1>6 DEF InsertOp
        <3> QED BY <2>2, <3>1, Shape DEF AsAnswered, Parked
    <2>4. m \in Movers => Answered(m)'
        <3>1. op[m].state = "none" /\ reply[m] = "none"
            BY <1>6 DEF InsertOp, At, Stage, MoverStage, Validating, Answers, Answered
        <3>2. \/ reply'[m] = "none" \/ (reply'[m] = "busy" /\ op' = op /\ pc'[m] = "undo")
              \/ reply'[m] = "insert_failed" /\ pc'[m] = "undo"
            BY <1>6, <3>1, Shape DEF InsertOp, Goto, Tell
        <3> QED BY <3>1, <3>2 DEF Answered
    <2> QED BY <2>1, <2>2, <2>3, <2>4, AnswersAside
<1>7. ASSUME NEW m \in Movers, InsertRaises(m) PROVE Answers'
    <2>1. m \in Procs /\ \A j \in Movers \ {m} : pc'[j] = pc[j] /\ reply'[j] = reply[j]
        BY <1>7, Shape DEF InsertRaises, Tell
    <2>2. made' = made
        BY <1>7 DEF InsertRaises, square
    <2>3. \A j \in Movers \ {m} : AsAnswered(j)
        <3>1. op' = op \/ op' = [op EXCEPT ![m] = Frozen(m)]
            BY <1>7 DEF InsertRaises
        <3> QED BY <2>2, <3>1, Shape DEF AsAnswered, Parked
    <2>4. m \in Movers => Answered(m)'
        <3>1. op[m].state = "none" /\ reply[m] = "none"
            BY <1>7 DEF InsertRaises, At, Stage, MoverStage, Validating, Answers, Answered
        <3>2. \/ reply'[m] = "none" \/ (reply'[m] = "busy" /\ op' = op /\ pc'[m] = "undo")
              \/ reply'[m] = "insert_failed" /\ pc'[m] = "undo"
            BY <1>7, <3>1, Shape DEF InsertRaises, Goto, Tell
        <3> QED BY <3>1, <3>2 DEF Answered
    <2> QED BY <2>1, <2>2, <2>3, <2>4, AnswersAside
<1>8. ASSUME NEW m \in Movers, Undo(m) PROVE Answers'
    <2>1. m \in Procs /\ \A j \in Movers \ {m} : pc'[j] = pc[j] /\ reply'[j] = reply[j]
        BY <1>8, Shape DEF Undo, Goto
    <2>2. made' = made
        BY <1>8 DEF Undo, square
    <2>3. \A j \in Movers : AsAnswered(j)
        <3>1. op' = op
            BY <1>8 DEF Undo, records
        <3> QED BY <2>2, <3>1 DEF AsAnswered, Parked
    <2>4. m \in Movers => Answered(m)'
        BY <1>8, <2>2, Shape DEF Undo, Answers, Answered, records, Parked, Goto, At
    <2> QED BY <2>1, <2>2, <2>3, <2>4, AnswersAside
<1>9. ASSUME NEW m \in Movers, HandOff(m) PROVE Answers'
    <2>1. m \in Procs /\ \A j \in Movers \ {m} : pc'[j] = pc[j] /\ reply'[j] = reply[j]
        BY <1>9, Shape DEF HandOff, Goto, End, Tell
    <2>2. made' = made
        BY <1>9 DEF HandOff, square
    <2>3. \A j \in Movers : AsAnswered(j)
        <3>1. op' = op
            BY <1>9 DEF HandOff, records
        <3> QED BY <2>2, <3>1 DEF AsAnswered, Parked
    <2>4. m \in Movers => Answered(m)'
        BY <1>9, <2>2, Shape DEF HandOff, Answers, Answered, records, Parked, Goto, End, Tell,
           At, Rest, Hold
    <2> QED BY <2>1, <2>2, <2>3, <2>4, AnswersAside
<1>10. ASSUME NEW p \in Procs, Gate(p) PROVE Answers'
    <2>1. p \in Procs /\ \A j \in Movers \ {p} : pc'[j] = pc[j] /\ reply'[j] = reply[j]
        BY <1>10, Shape DEF Gate, Goto, End, Tell
    <2>2. made' = made
        BY <1>10 DEF Gate, square
    <2>3. \A j \in Movers : AsAnswered(j)
        <3>1. op' = op
            BY <1>10 DEF Gate, records
        <3> QED BY <2>2, <3>1 DEF AsAnswered, Parked
    <2>4. p \in Movers => Answered(p)'
        <3> SUFFICES ASSUME p \in Movers PROVE Answered(p)'
            OBVIOUS
        <3>1. job[p] = p /\ reply[p] = "none" /\ op' = op
            BY <1>10, Shape DEF Gate, JobOK, At, Answers, Answered, records
        <3>2. pc[p] = "gate" => op[p].state = "in_progress"
            BY DEF Stage, MoverStage
        <3>3. pc[p] = "regate" => GateHolds(p) /\ ~Parked(p) /\ op[p].state \in {"replacement_created", "cancel_failed"}
            BY <3>1, OneOwner DEF Stage, ProcStage, Dropping, Owning, GateHolds, Holds, Ours, Owns
        <3>4. reply'[p] = "none" \/ (reply'[p] = "unresolved" /\ pc'[p] = "done")
            BY <1>10, <3>1, <3>2, <3>3, Shape DEF Gate, At, Goto, End, Tell, Rest, Parked, Live
        <3> QED BY <3>1, <3>4 DEF Answered
    <2> QED BY <2>1, <2>2, <2>3, <2>4, AnswersAside
<1>11. ASSUME NEW p \in Procs, NoCredential(p) PROVE Answers'
    <2>1. p \in Procs /\ \A j \in Movers \ {p} : pc'[j] = pc[j] /\ reply'[j] = reply[j]
        BY <1>11, Shape DEF NoCredential, End, Tell
    <2>2. made' = made
        BY <1>11 DEF NoCredential, square
    <2>3. \A j \in Movers : AsAnswered(j)
        <3>1. op' = op
            BY <1>11 DEF NoCredential, records
        <3> QED BY <2>2, <3>1 DEF AsAnswered, Parked
    <2>4. p \in Movers => Answered(p)'
        <3> SUFFICES ASSUME p \in Movers PROVE Answered(p)'
            OBVIOUS
        <3>1. job[p] = p /\ reply[p] = "none" /\ op' = op
            BY <1>11, Shape DEF NoCredential, JobOK, At, Answers, Answered, records
        <3>2. pc[p] = "gate" => op[p].state = "in_progress"
            BY DEF Stage, MoverStage
        <3>3. pc[p] = "regate" => GateHolds(p) /\ ~Parked(p) /\ op[p].state \in {"replacement_created", "cancel_failed"}
            BY <3>1, OneOwner DEF Stage, ProcStage, Dropping, Owning, GateHolds, Holds, Ours, Owns
        <3>4. reply'[p] = "none" \/ (reply'[p] = "unresolved" /\ pc'[p] = "done")
            BY <1>11, <3>1, <3>2, <3>3, Shape DEF NoCredential, At, Goto, End, Tell, Rest, Parked, Live
        <3> QED BY <3>1, <3>4 DEF Answered
    <2> QED BY <2>1, <2>2, <2>3, <2>4, AnswersAside
<1>12. ASSUME NEW p \in Procs, Adopt(p) PROVE Answers'
    <2>1. p \in Procs /\ \A j \in Movers \ {p} : pc'[j] = pc[j] /\ reply'[j] = reply[j]
        BY <1>12, Shape DEF Adopt, Goto
    <2>2. made' = made
        BY <1>12 DEF Adopt, square
    <2>3. \A j \in Movers : AsAnswered(j)
        <3>1. op' = op
            BY <1>12 DEF Adopt, records
        <3> QED BY <2>2, <3>1 DEF AsAnswered, Parked
    <2>4. p \in Movers => Answered(p)'
        BY <1>12, <2>2, Shape DEF Adopt, Answers, Answered, records, Parked, Goto, At
    <2> QED BY <2>1, <2>2, <2>3, <2>4, AnswersAside
<1>13. ASSUME NEW p \in Procs, SendCreate(p) PROVE Answers'
    <2>1. p \in Procs /\ \A j \in Movers \ {p} : pc'[j] = pc[j] /\ reply'[j] = reply[j]
        BY <1>13, Shape DEF SendCreate, Goto
    <2>2. made' = made
        BY <1>13 DEF SendCreate, square
    <2>3. \A j \in Movers : AsAnswered(j)
        <3>1. op' = op
            BY <1>13 DEF SendCreate, records
        <3> QED BY <2>2, <3>1 DEF AsAnswered, Parked
    <2>4. p \in Movers => Answered(p)'
        BY <1>13, <2>2, Shape DEF SendCreate, Answers, Answered, records, Parked, Goto, At
    <2> QED BY <2>1, <2>2, <2>3, <2>4, AnswersAside
<1>14. ASSUME NEW p \in Procs, CreateAnswered(p) PROVE Answers'
    <2>1. p \in Procs /\ \A j \in Movers \ {p} : pc'[j] = pc[j] /\ reply'[j] = reply[j]
        BY <1>14, Shape DEF CreateAnswered, Goto, End, Tell
    <2>2. made' = made
        BY <1>14 DEF CreateAnswered, square
    <2>3. \A j \in Movers : AsAnswered(j)
        <3>1. op' = op
            BY <1>14 DEF CreateAnswered, records
        <3> QED BY <2>2, <3>1 DEF AsAnswered, Parked
    <2>4. p \in Movers => Answered(p)'
        BY <1>14, <2>2, Shape DEF CreateAnswered, Answers, Answered, records, Parked, Goto, End,
           Tell, At, Rest, Hold
    <2> QED BY <2>1, <2>2, <2>3, <2>4, AnswersAside
<1>15. ASSUME NEW p \in Procs, MarkCreateFailed(p) PROVE Answers'
    <2>1. p \in Procs /\ \A j \in Movers \ {p} : pc'[j] = pc[j] /\ reply'[j] = reply[j]
        BY <1>15, Shape DEF MarkCreateFailed, End, Tell
    <2>2. made' = made
        BY <1>15 DEF MarkCreateFailed, square
    <2>3. \A j \in Movers : AsAnswered(j)
        <3>1. pc[p] \in Replacing \cup Dropping
            BY <1>15 DEF MarkCreateFailed, At, Replacing, Dropping
        <3>2. op[job[p]].state \in {"in_progress", "replacement_created", "cancel_failed"} /\ ~Parked(job[p])
            BY <3>1 DEF Stage, ProcStage, Parked
        <3>3. \A j \in Movers : j # job[p] => op'[j] = op[j]
            BY <1>15, Shape DEF MarkCreateFailed
        <3> QED BY <2>2, <3>2, <3>3 DEF AsAnswered, Parked
    <2>4. p \in Movers => Answered(p)'
        <3> SUFFICES ASSUME p \in Movers PROVE Answered(p)'
            OBVIOUS
        <3>1. job[p] = p
            BY Shape DEF JobOK
        <3>2. Mine(p, {"in_progress"}) /\ p \notin made
            BY <1>15, <3>1 DEF MarkCreateFailed, At, Stage, ProcStage, Replacing, Mine, Booked, MoverBooked
        <3>3. reply'[p] = "create_failed" /\ pc'[p] = "undo" /\ op' = [op EXCEPT ![p].state = "create_failed"]
            BY <1>15, <3>1, <3>2, Shape DEF MarkCreateFailed, Tell
        <3>4. op'[p].state = "create_failed"
            BY <3>3, Shape DEF OpRows
        <3> QED BY <2>2, <3>2, <3>3, <3>4 DEF Answered
    <2> QED BY <2>1, <2>2, <2>3, <2>4, AnswersAside
<1>16. ASSUME NEW p \in Procs, Name(p) PROVE Answers'
    <2>1. p \in Procs /\ \A j \in Movers \ {p} : pc'[j] = pc[j] /\ reply'[j] = reply[j]
        BY <1>16, Shape DEF Name, Goto, End, Tell
    <2>2. made' = made
        BY <1>16 DEF Name, square
    <2>3. \A j \in Movers : AsAnswered(j)
        <3>1. \A j \in Movers : op'[j].state = op[j].state /\ op'[j].reason = op[j].reason
            BY <1>16, Shape DEF Name, OpRows
        <3> QED BY <2>2, <3>1 DEF AsAnswered, Parked
    <2>4. p \in Movers => Answered(p)'
        BY <1>16, <2>2, Shape DEF Name, Answers, Answered, records, Parked, Goto, End, Tell, At,
           Rest, Hold
    <2> QED BY <2>1, <2>2, <2>3, <2>4, AnswersAside
<1>17. ASSUME NEW p \in Procs, InsertReplacement(p) PROVE Answers'
    <2>1. p \in Procs /\ \A j \in Movers \ {p} : pc'[j] = pc[j] /\ reply'[j] = reply[j]
        BY <1>17, Shape DEF InsertReplacement, Goto, End, Tell
    <2>2. made' = made
        BY <1>17 DEF InsertReplacement, square
    <2>3. \A j \in Movers : AsAnswered(j)
        <3>1. op' = op
            BY <1>17 DEF InsertReplacement, records
        <3> QED BY <2>2, <3>1 DEF AsAnswered, Parked
    <2>4. p \in Movers => Answered(p)'
        BY <1>17, <2>2, Shape DEF InsertReplacement, Answers, Answered, records, Parked, Goto,
           End, Tell, At, Rest, Hold
    <2> QED BY <2>1, <2>2, <2>3, <2>4, AnswersAside
<1>18. ASSUME NEW p \in Procs, MarkConsumed(p) PROVE Answers'
    <2>1. p \in Procs /\ \A j \in Movers \ {p} : pc'[j] = pc[j] /\ reply'[j] = reply[j]
        BY <1>18, Shape DEF MarkConsumed, Goto
    <2>2. made' = made
        BY <1>18 DEF MarkConsumed, square
    <2>3. \A j \in Movers : AsAnswered(j)
        <3>1. op' = op
            BY <1>18 DEF MarkConsumed, records
        <3> QED BY <2>2, <3>1 DEF AsAnswered, Parked
    <2>4. p \in Movers => Answered(p)'
        BY <1>18, <2>2, Shape DEF MarkConsumed, Answers, Answered, records, Parked, Goto, At
    <2> QED BY <2>1, <2>2, <2>3, <2>4, AnswersAside
<1>19. ASSUME NEW p \in Procs, MarkReplacementCreated(p) PROVE Answers'
    <2>1. p \in Procs /\ \A j \in Movers \ {p} : pc'[j] = pc[j] /\ reply'[j] = reply[j]
        BY <1>19, Shape DEF MarkReplacementCreated, Goto, End, Tell
    <2>2. made' = made
        BY <1>19 DEF MarkReplacementCreated, square
    <2>3. \A j \in Movers : AsAnswered(j)
        <3>1. pc[p] \in Replacing \cup Dropping
            BY <1>19 DEF MarkReplacementCreated, At, Replacing, Dropping
        <3>2. op[job[p]].state \in {"in_progress", "replacement_created", "cancel_failed"} /\ ~Parked(job[p])
            BY <3>1 DEF Stage, ProcStage, Parked
        <3>3. \A j \in Movers : j # job[p] => op'[j] = op[j]
            BY <1>19, Shape DEF MarkReplacementCreated
        <3> QED BY <2>2, <3>2, <3>3 DEF AsAnswered, Parked
    <2>4. p \in Movers => Answered(p)'
        BY <1>19, <2>2, Shape DEF MarkReplacementCreated, Answers, Answered, records, Parked,
           Goto, End, Tell, At, Rest, Hold
    <2> QED BY <2>1, <2>2, <2>3, <2>4, AnswersAside
<1>20. ASSUME NEW p \in Procs, Fetch(p) PROVE Answers'
    <2>1. p \in Procs /\ \A j \in Movers \ {p} : pc'[j] = pc[j] /\ reply'[j] = reply[j]
        BY <1>20, Shape DEF Fetch, Goto
    <2>2. made' = made
        BY <1>20 DEF Fetch, square
    <2>3. \A j \in Movers : AsAnswered(j)
        <3>1. op' = op
            BY <1>20 DEF Fetch, records
        <3> QED BY <2>2, <3>1 DEF AsAnswered, Parked
    <2>4. p \in Movers => Answered(p)'
        BY <1>20, <2>2, Shape DEF Fetch, Answers, Answered, records, Parked, Goto, At
    <2> QED BY <2>1, <2>2, <2>3, <2>4, AnswersAside
<1>21. ASSUME NEW p \in Procs, StillOurs(p) PROVE Answers'
    <2>1. p \in Procs /\ \A j \in Movers \ {p} : pc'[j] = pc[j] /\ reply'[j] = reply[j]
        BY <1>21, Shape DEF StillOurs, Goto, End, Tell
    <2>2. made' = made
        BY <1>21 DEF StillOurs, square
    <2>3. \A j \in Movers : AsAnswered(j)
        <3>1. op' = op
            BY <1>21 DEF StillOurs, records
        <3> QED BY <2>2, <3>1 DEF AsAnswered, Parked
    <2>4. p \in Movers => Answered(p)'
        BY <1>21, <2>2, Shape DEF StillOurs, Answers, Answered, records, Parked, Goto, End,
           Tell, At, Rest, Hold
    <2> QED BY <2>1, <2>2, <2>3, <2>4, AnswersAside
<1>22. ASSUME NEW p \in Procs, CancelGet(p) PROVE Answers'
    <2>1. p \in Procs /\ \A j \in Movers \ {p} : pc'[j] = pc[j] /\ reply'[j] = reply[j]
        BY <1>22, Shape DEF CancelGet, Goto
    <2>2. made' = made
        BY <1>22 DEF CancelGet, square
    <2>3. \A j \in Movers : AsAnswered(j)
        <3>1. op' = op
            BY <1>22 DEF CancelGet, records
        <3> QED BY <2>2, <3>1 DEF AsAnswered, Parked
    <2>4. p \in Movers => Answered(p)'
        BY <1>22, <2>2, Shape DEF CancelGet, Answers, Answered, records, Parked, Goto, At
    <2> QED BY <2>1, <2>2, <2>3, <2>4, AnswersAside
<1>23. ASSUME NEW p \in Procs, SendCancel(p) PROVE Answers'
    <2>1. p \in Procs /\ \A j \in Movers \ {p} : pc'[j] = pc[j] /\ reply'[j] = reply[j]
        BY <1>23, Shape DEF SendCancel, Goto
    <2>2. made' = made
        BY <1>23 DEF SendCancel, square
    <2>3. \A j \in Movers : AsAnswered(j)
        <3>1. op' = op
            BY <1>23 DEF SendCancel, records
        <3> QED BY <2>2, <3>1 DEF AsAnswered, Parked
    <2>4. p \in Movers => Answered(p)'
        BY <1>23, <2>2, Shape DEF SendCancel, Answers, Answered, records, Parked, Goto, At
    <2> QED BY <2>1, <2>2, <2>3, <2>4, AnswersAside
<1>24. ASSUME NEW p \in Procs, CancelAnswered(p) PROVE Answers'
    <2>1. p \in Procs /\ \A j \in Movers \ {p} : pc'[j] = pc[j] /\ reply'[j] = reply[j]
        BY <1>24, Shape DEF CancelAnswered, Goto
    <2>2. made' = made
        BY <1>24 DEF CancelAnswered, square
    <2>3. \A j \in Movers : AsAnswered(j)
        <3>1. op' = op
            BY <1>24 DEF CancelAnswered, records
        <3> QED BY <2>2, <3>1 DEF AsAnswered, Parked
    <2>4. p \in Movers => Answered(p)'
        BY <1>24, <2>2, Shape DEF CancelAnswered, Answers, Answered, records, Parked, Goto, At
    <2> QED BY <2>1, <2>2, <2>3, <2>4, AnswersAside
<1>25. ASSUME NEW p \in Procs, MarkCancelFailed(p) PROVE Answers'
    <2>1. p \in Procs /\ \A j \in Movers \ {p} : pc'[j] = pc[j] /\ reply'[j] = reply[j]
        BY <1>25, Shape DEF MarkCancelFailed, End, Tell
    <2>2. made' = made
        BY <1>25 DEF MarkCancelFailed, square
    <2>3. \A j \in Movers : AsAnswered(j)
        <3>1. pc[p] \in Replacing \cup Dropping
            BY <1>25 DEF MarkCancelFailed, At, Replacing, Dropping
        <3>2. op[job[p]].state \in {"in_progress", "replacement_created", "cancel_failed"} /\ ~Parked(job[p])
            BY <3>1 DEF Stage, ProcStage, Parked
        <3>3. \A j \in Movers : j # job[p] => op'[j] = op[j]
            BY <1>25, Shape DEF MarkCancelFailed
        <3> QED BY <2>2, <3>2, <3>3 DEF AsAnswered, Parked
    <2>4. p \in Movers => Answered(p)'
        <3> SUFFICES ASSUME p \in Movers PROVE Answered(p)'
            OBVIOUS
        <3>1. job[p] = p
            BY Shape DEF JobOK
        <3>2. pc[p] \in CancelReasons /\ pc[p] \in Dropping
            BY <1>25 DEF MarkCancelFailed, Dropping
        <3>3. Mine(p, {"replacement_created", "cancel_failed"}) /\ p \in made
            BY <3>1, <3>2, OwnerRecorded, Shape DEF Stage, ProcStage, Mine, Order
        <3>4. op' = [op EXCEPT ![p].state = "cancel_failed", ![p].reason = pc[p]] /\ pc'[p] = "done"
              /\ reply'[p] = IF pc[p] = "source_changed" THEN "source_changed" ELSE "cancel_failed"
            BY <1>25, <3>1, <3>3, Shape DEF MarkCancelFailed, At, End, Tell, Rest
        <3>5. op'[p].state = "cancel_failed" /\ op'[p].reason = pc[p]
            BY <3>4, Shape DEF OpRows
        <3> QED BY <2>2, <3>3, <3>4, <3>5 DEF Answered, Parked
    <2> QED BY <2>1, <2>2, <2>3, <2>4, AnswersAside
<1>26. ASSUME NEW p \in Procs, Complete(p) PROVE Answers'
    <2>1. p \in Procs /\ \A j \in Movers \ {p} : pc'[j] = pc[j] /\ reply'[j] = reply[j]
        BY <1>26, Shape DEF Complete, Goto
    <2>2. made' = made
        BY <1>26 DEF Complete, square
    <2>3. \A j \in Movers : AsAnswered(j)
        <3>1. op' = op
            BY <1>26 DEF Complete, records
        <3> QED BY <2>2, <3>1 DEF AsAnswered, Parked
    <2>4. p \in Movers => Answered(p)'
        BY <1>26, <2>2, Shape DEF Complete, Answers, Answered, records, Parked, Goto, At
    <2> QED BY <2>1, <2>2, <2>3, <2>4, AnswersAside
<1>27. ASSUME NEW p \in Procs, MarkCompleted(p) PROVE Answers'
    <2>1. p \in Procs /\ \A j \in Movers \ {p} : pc'[j] = pc[j] /\ reply'[j] = reply[j]
        BY <1>27, Shape DEF MarkCompleted, End, Tell
    <2>2. made' = made
        BY <1>27 DEF MarkCompleted, square
    <2>3. \A j \in Movers : AsAnswered(j)
        <3>1. pc[p] \in Replacing \cup Dropping
            BY <1>27 DEF MarkCompleted, At, Replacing, Dropping
        <3>2. op[job[p]].state \in {"in_progress", "replacement_created", "cancel_failed"} /\ ~Parked(job[p])
            BY <3>1 DEF Stage, ProcStage, Parked
        <3>3. \A j \in Movers : j # job[p] => op'[j] = op[j]
            BY <1>27, Shape DEF MarkCompleted
        <3> QED BY <2>2, <3>2, <3>3 DEF AsAnswered, Parked
    <2>4. p \in Movers => Answered(p)'
        <3> SUFFICES ASSUME p \in Movers PROVE Answered(p)'
            OBVIOUS
        <3>1. job[p] = p
            BY Shape DEF JobOK
        <3>2. Mine(p, {"replacement_created", "cancel_failed"})
            BY <1>27, <3>1 DEF MarkCompleted, At, Stage, ProcStage, Dropping, Mine
        <3>3. reply'[p] = "completed" /\ pc'[p] = "leave" /\ op' = [op EXCEPT ![p].state = "completed"]
            BY <1>27, <3>1, <3>2, Shape DEF MarkCompleted, Tell
        <3>4. op'[p].state = "completed"
            BY <3>3, Shape DEF OpRows
        <3> QED BY <3>3, <3>4 DEF Answered
    <2> QED BY <2>1, <2>2, <2>3, <2>4, AnswersAside
<1>28. ASSUME NEW p \in Procs, Leave(p) PROVE Answers'
    <2>1. p \in Procs /\ \A j \in Movers \ {p} : pc'[j] = pc[j] /\ reply'[j] = reply[j]
        BY <1>28, Shape DEF Leave, Goto
    <2>2. made' = made
        BY <1>28 DEF Leave, square
    <2>3. \A j \in Movers : AsAnswered(j)
        <3>1. op' = op
            BY <1>28 DEF Leave, records
        <3> QED BY <2>2, <3>1 DEF AsAnswered, Parked
    <2>4. p \in Movers => Answered(p)'
        BY <1>28, <2>2, Shape DEF Leave, Answers, Answered, records, Parked, Goto, At, Rest,
           Hold
    <2> QED BY <2>1, <2>2, <2>3, <2>4, AnswersAside
<1>29. ASSUME NEW w \in Workers, ListStale(w) PROVE Answers'
    <2>1. w \in Procs /\ \A j \in Movers \ {w} : pc'[j] = pc[j] /\ reply'[j] = reply[j]
        BY <1>29, Shape DEF ListStale, Goto
    <2>2. made' = made
        BY <1>29 DEF ListStale, square
    <2>3. \A j \in Movers : AsAnswered(j)
        <3>1. op' = op
            BY <1>29 DEF ListStale, records
        <3> QED BY <2>2, <3>1 DEF AsAnswered, Parked
    <2>4. w \notin Movers
        BY Shape
    <2> QED BY <2>1, <2>2, <2>3, <2>4, AnswersAside
<1>30. ASSUME NEW w \in Workers, LookForOp(w) PROVE Answers'
    <2>1. w \in Procs /\ \A j \in Movers \ {w} : pc'[j] = pc[j] /\ reply'[j] = reply[j]
        BY <1>30, Shape DEF LookForOp, Goto
    <2>2. made' = made
        BY <1>30 DEF LookForOp, square
    <2>3. \A j \in Movers : AsAnswered(j)
        <3>1. op' = op
            BY <1>30 DEF LookForOp, records
        <3> QED BY <2>2, <3>1 DEF AsAnswered, Parked
    <2>4. w \notin Movers
        BY Shape
    <2> QED BY <2>1, <2>2, <2>3, <2>4, AnswersAside
<1>31. ASSUME NEW w \in Workers, SweepOrphan(w) PROVE Answers'
    <2>1. w \in Procs /\ \A j \in Movers \ {w} : pc'[j] = pc[j] /\ reply'[j] = reply[j]
        BY <1>31, Shape DEF SweepOrphan, Goto
    <2>2. made' = made
        BY <1>31 DEF SweepOrphan, square
    <2>3. \A j \in Movers : AsAnswered(j)
        <3>1. op' = op
            BY <1>31 DEF SweepOrphan, records
        <3> QED BY <2>2, <3>1 DEF AsAnswered, Parked
    <2>4. w \notin Movers
        BY Shape
    <2> QED BY <2>1, <2>2, <2>3, <2>4, AnswersAside
<1>32. ASSUME NEW w \in Workers, DropStale(w) PROVE Answers'
    <2>1. w \in Procs /\ \A j \in Movers \ {w} : pc'[j] = pc[j] /\ reply'[j] = reply[j]
        BY <1>32, Shape DEF DropStale, Goto
    <2>2. made' = made
        BY <1>32 DEF DropStale, square
    <2>3. \A j \in Movers : AsAnswered(j)
        <3>1. op' = op
            BY <1>32 DEF DropStale, records
        <3> QED BY <2>2, <3>1 DEF AsAnswered, Parked
    <2>4. w \notin Movers
        BY Shape
    <2> QED BY <2>1, <2>2, <2>3, <2>4, AnswersAside
<1>33. ASSUME NEW w \in Workers, TakeOverClaim(w) PROVE Answers'
    <2>1. w \in Procs /\ \A j \in Movers \ {w} : pc'[j] = pc[j] /\ reply'[j] = reply[j]
        BY <1>33, Shape DEF TakeOverClaim, Goto
    <2>2. made' = made
        BY <1>33 DEF TakeOverClaim, square
    <2>3. \A j \in Movers : AsAnswered(j)
        <3>1. op' = op
            BY <1>33 DEF TakeOverClaim, records
        <3> QED BY <2>2, <3>1 DEF AsAnswered, Parked
    <2>4. w \notin Movers
        BY Shape
    <2> QED BY <2>1, <2>2, <2>3, <2>4, AnswersAside
<1>34. ASSUME NEW w \in Workers, AdoptToken(w) PROVE Answers'
    <2>1. w \in Procs /\ \A j \in Movers \ {w} : pc'[j] = pc[j] /\ reply'[j] = reply[j]
        BY <1>34, Shape DEF AdoptToken, Goto, End, Tell
    <2>2. made' = made
        BY <1>34 DEF AdoptToken, square
    <2>3. \A j \in Movers : AsAnswered(j)
        <3>1. \A j \in Movers : op'[j].state = op[j].state /\ op'[j].reason = op[j].reason
            BY <1>34, Shape DEF AdoptToken, OpRows
        <3> QED BY <2>2, <3>1 DEF AsAnswered, Parked
    <2>4. w \notin Movers
        BY Shape
    <2> QED BY <2>1, <2>2, <2>3, <2>4, AnswersAside
<1>35. ASSUME CancelBegins PROVE Answers'
    BY <1>35 DEF Answers, Answered, CancelBegins, records, cancelled, Parked
<1>36. ASSUME CancelActs PROVE Answers'
    BY <1>36 DEF Answers, Answered, CancelActs, records, cancelled, Parked
<1>37. ASSUME CancelRecords PROVE Answers'
    BY <1>37 DEF Answers, Answered, CancelRecords, records, cancelled, Parked
<1>38. ASSUME CancelReleases PROVE Answers'
    BY <1>38 DEF Answers, Answered, CancelReleases, records, cancelled, Parked
<1>39. ASSUME NEW p \in Procs, AnswerCreate(p) PROVE Answers'
    <2>1. p \in Procs /\ \A j \in Movers \ {p} : pc'[j] = pc[j] /\ reply'[j] = reply[j]
        BY <1>39, Shape DEF AnswerCreate
    <2>2. op' = op /\ pc[p] = "creating" /\ pc'[p] = pc[p] /\ reply' = reply
          /\ (made' = made \/ made' = made \cup {job[p]})
        BY <1>39 DEF AnswerCreate, At, Book, records
    <2>3. op[job[p]].state = "in_progress"
        BY <2>2 DEF Stage, ProcStage, Replacing
    <2>4. made \subseteq made' /\ \A j \in Movers : AsAnswered(j)
        BY <2>2, <2>3 DEF AsAnswered, Parked
    <2>5. p \in Movers => Answered(p)'
        BY <2>2 DEF Answers, Answered
    <2> QED BY <2>1, <2>4, <2>5, AnswersAside
<1>40. ASSUME NEW p \in Procs, AnswerCancel(p) PROVE Answers'
    <2>1. p \in Procs /\ \A j \in Movers \ {p} : pc'[j] = pc[j] /\ reply'[j] = reply[j]
        BY <1>40, Shape DEF AnswerCancel
    <2>2. made' = made
        BY <1>40 DEF AnswerCancel, square
    <2>3. \A j \in Movers : AsAnswered(j)
        <3>1. op' = op
            BY <1>40 DEF AnswerCancel, records
        <3> QED BY <2>2, <3>1 DEF AsAnswered, Parked
    <2>4. p \in Movers => Answered(p)'
        BY <1>40, <2>2, Shape DEF AnswerCancel, Answers, Answered, records, Parked
    <2> QED BY <2>1, <2>2, <2>3, <2>4, AnswersAside
<1>41. ASSUME NEW p \in Procs, Crash(p) PROVE Answers'
    <2>1. p \in Procs /\ \A j \in Movers \ {p} : pc'[j] = pc[j] /\ reply'[j] = reply[j]
        BY <1>41, Shape DEF Crash
    <2>2. made' = made
        BY <1>41 DEF Crash, square
    <2>3. \A j \in Movers : AsAnswered(j)
        <3>1. op' = op
            BY <1>41 DEF Crash, records
        <3> QED BY <2>2, <3>1 DEF AsAnswered, Parked
    <2>4. p \in Movers => Answered(p)'
        BY <1>41, <2>2, Shape DEF Crash, Answers, Answered, records, Parked, Hold, Resting
    <2> QED BY <2>1, <2>2, <2>3, <2>4, AnswersAside
<1>42. ASSUME LateCall PROVE Answers'
    <2>1. /\ UNCHANGED <<op, pc, reply>>
          /\ \A j \in made' : j \in made \/ op[j].state = "in_progress"
        BY <1>42 DEF LateCall, records, Book, Stage, LateStage
    <2>2. made \subseteq made'
        BY <1>42 DEF LateCall, Book
    <2> QED BY <2>1, <2>2 DEF Answers, Answered, Parked
<1>43. ASSUME MerchantEdits PROVE Answers'
    BY <1>43 DEF Answers, Answered, MerchantEdits, records, Parked
<1>44. ASSUME AgeClaim PROVE Answers'
    BY <1>44 DEF Answers, Answered, AgeClaim, records, square, Parked
<1> QED
    BY <1>1, <1>2, <1>3, <1>4, <1>5, <1>6, <1>7, <1>8, <1>9, <1>10, <1>11, <1>12, <1>13, <1>14,
       <1>15, <1>16, <1>17, <1>18, <1>19, <1>20, <1>21, <1>22, <1>23, <1>24, <1>25, <1>26,
       <1>27, <1>28, <1>29, <1>30, <1>31, <1>32, <1>33, <1>34, <1>35, <1>36, <1>37, <1>38,
       <1>39, <1>40, <1>41, <1>42, <1>43, <1>44 DEF Next, Freeze, Execute, Recover, Cancel,
       Environment

-----------------------------------------------------------------------------
(* The theorems *)

LEMMA InitIInv == Init => IInv
<1> SUFFICES ASSUME Init PROVE IInv
    OBVIOUS
<1>1. TypeOK
    <2>1. /\ pc \in [Procs -> Labels] /\ reply \in [Movers -> Replies] /\ call \in [Procs -> CallStates]
          /\ late \subseteq Calls
        BY DEF Init, Labels, Replies, CallStates
    <2>2. /\ ClaimsTypeOK(Movers, Tokens) /\ mine \in [Procs -> Tokens \cup {Nil}]
          /\ job \in [Procs -> Movers \cup {Nil}] /\ read \in [Workers -> Reads]
        BY DEF Init, ClaimsTypeOK, Procs, Reads
    <2>3. /\ 0 \in 0..MaxEdits /\ edits \in 0..MaxEdits /\ cancels \in 0..MaxCancels
          /\ crashes \in 0..MaxCrashes
        BY ConstantsOK DEF Init
    <2>4. op \in [Movers -> OpRows]
        BY <2>3 DEF Init, NoOp, OpRows, OpStates
    <2>5. frozen \in [Procs -> 0..MaxEdits]
          /\ source \in [state : {"live", "replaced", "cancelled"}, version : 0..MaxEdits]
        BY <2>3 DEF Init
    <2> QED BY <2>1, <2>2, <2>3, <2>4, <2>5 DEF Init, TypeOK, OpRows, Reads
<1>2. JobOK /\ VersionOK
    BY ConstantsOK DEF Init, JobOK, VersionOK, Procs
<1>3. \A p \in Procs : pc[p] \in {"idle", "start"}
    BY DEF Init
<1>4. Order
    BY <1>3, ConstantsOK DEF Init, Order, ProcOrder, Dropping, CancelReasons, Behind, NoOp
<1>5. Exclusive
    <2>1. \A p \in Procs : Owned(p) /\ ~Holds(p)
        BY <1>3 DEF Init, Owned, Holds, Owning, Validating, Replacing, Dropping, CancelReasons
    <2>2. \A w \in Workers : Reader(w)
        BY <1>3 DEF Init, Reader, Looking, Procs
    <2> QED BY <2>1, <2>2 DEF Init, Exclusive, NoClaim
<1>6. Stage
    <2>1. \A m \in Movers : op[m].state = "none"
        BY DEF Init, NoOp
    <2> QED
        BY <1>3, <2>1 DEF Init, Stage, ProcStage, MoverStage, WorkerStage, Replacing, Dropping, CancelReasons,
           Procs
<1>7. Booked
    BY <1>3, ConstantsOK DEF Init, Booked, LineageBooked, OpBooked, MoverBooked, ProcBooked, NoOp, Live,
       LiveStates, Parked, Behind, Procs
<1>8. Answers
    BY DEF Init, Answers, Answered
<1> QED BY <1>1, <1>2, <1>4, <1>5, <1>6, <1>7, <1>8 DEF IInv, Typed

LEMMA NextIInv == IInv /\ [Next]_vars => IInv'
<1> SUFFICES ASSUME IInv, [Next]_vars PROVE IInv'
    OBVIOUS
<1>1. CASE Next
    <2>1. Typed' /\ Order'
        BY <1>1, TypeStep, JobStep, VersionStep, OrderStep DEF IInv, Typed
    <2>2. Prompt => Exclusive' /\ Stage' /\ Booked' /\ Answers'
        BY <1>1, ExclusiveStep, StageStep, BookedStep, AnswersStep DEF IInv
    <2> QED BY <2>1, <2>2 DEF IInv
<1>2. CASE UNCHANGED vars
    <2> USE <1>2 DEF vars, claims, claimVars, records, square, local, other
    <2>1. Typed'
        BY DEF IInv, Typed, TypeOK, ClaimsTypeOK, JobOK, VersionOK
    <2>2. Order'
        BY DEF IInv, Order, ProcOrder
    <2>3. Exclusive => Exclusive'
        BY DEF Exclusive, Owned, Holds, Ours, Reader
    <2>4. Stage => Stage'
        BY DEF Stage, ProcStage, MoverStage, WorkerStage, LateStage, Ours, Parked
    <2>5. Booked => Booked'
        BY DEF Booked, LineageBooked, OpBooked, MoverBooked, ProcBooked, Live, Parked, Ours
    <2>6. Answers => Answers'
        BY DEF Answers, Answered, Parked
    <2> QED BY <2>1, <2>2, <2>3, <2>4, <2>5, <2>6 DEF IInv
<1> QED BY <1>1, <1>2

LEMMA Inductive == Spec => []IInv
<1> QED BY InitIInv, NextIInv, PTL DEF Spec

\* Every variable keeps its type, whatever stops or stalls: among others there is
\* always a token nobody uses, and a merchant's edits bound every version read.
THEOREM TypeCorrect == Spec => []TypeOK
<1>1. IInv => TypeOK
    BY DEF IInv, Typed
<1> QED BY <1>1, Inductive, PTL

\* D2 implements Switch, however long a process stalls and whatever stops half-way:
\* it drops the old booking only behind a booked and recorded new one, and closes the
\* row only when the old booking is gone (reschedule_execute.py: create, record,
\* cancel, close).
THEOREM KeepsThePromise == Spec => Implements
<1>1. Init => S!Init
    BY DEF Init, S!Init
<1>2. IInv /\ [Next]_vars => [S!Next]_S!vars
    <2> SUFFICES ASSUME IInv, [Next]_vars PROVE [S!Next]_S!vars
        OBVIOUS
    <2>1. CASE Next
        BY <2>1, SwitchStep DEF IInv
    <2>2. CASE UNCHANGED vars
        BY <2>2 DEF vars, records, square, S!vars
    <2> QED BY <2>1, <2>2
<1> QED BY <1>1, <1>2, Inductive, PTL DEF Spec, Implements, S!Spec

\* When nothing at work outlasts the cut-off, an appointment that nobody owns and
\* whose booking is live has no replacement beside it, and there are never two.
THEOREM OneBooking == ASSUME Prompt PROVE Spec => []BookedOnce
<1>1. IInv => BookedOnce
    <2> SUFFICES ASSUME IInv PROVE BookedOnce
        OBVIOUS
    <2> DEFINE booked == {m \in made : ~RefusedLate(m)}
    <2>1. Typed /\ Order /\ Booked
        BY DEF IInv
    <2>2. \A m \in booked : m \in Movers /\ (Live(m) \/ op[m].state = "completed")
        BY <2>1 DEF Booked, OpBooked, RefusedLate, Live, LiveStates, Typed, TypeOK, OpStates
    <2>3. Free /\ source.state = "live" => booked = {}
        BY <2>1, <2>2 DEF Booked, OpBooked, Free, NoClaim, Ours
    <2>4. \A m, j \in booked : m = j
        <3> SUFFICES ASSUME NEW m \in booked, NEW j \in booked PROVE m = j
            OBVIOUS
        <3>1. CASE Live(m) /\ Live(j)
            BY <2>1, <2>2, <3>1 DEF Booked, OpBooked, Ours
        <3>2. CASE op[m].state = "completed" /\ op[j].state = "completed"
            BY <2>1, <2>2, <3>2 DEF Booked, OpBooked, Behind
        <3>3. ASSUME NEW a \in booked, NEW b \in booked, Live(a), op[b].state = "completed" PROVE a = b
            <4>1. Ours(a) /\ lineage = b /\ op[a].state # "none"
                BY <2>1, <2>2, <3>3 DEF Booked, OpBooked, Behind, Live, LiveStates
            <4> QED BY <2>1, <2>2, <4>1, Shape DEF Booked, LineageBooked, Ours
        <3> QED BY <2>2, <3>1, <3>2, <3>3
    <2>5. Cardinality(booked) <= 1
        <3>1. CASE booked = {}
            BY <3>1, FS_EmptySet
        <3>2. CASE booked # {}
            <4> PICK m \in booked : TRUE
                BY <3>2
            <4>1. booked = {m}
                BY <2>4
            <4> HIDE DEF booked
            <4> QED BY <4>1, FS_Singleton
        <3> QED BY <3>1, <3>2
    <2> QED BY <2>3, <2>5 DEF BookedOnce
<1> QED BY <1>1, Inductive, PTL

\* When nothing at work outlasts the cut-off, what the caller is told is so: moved,
\* not moved, or changed by the business meanwhile.
THEOREM CallersHearTheTruth == ASSUME Prompt PROVE Spec => []AnswerIsTrue
<1>1. IInv => AnswerIsTrue
    <2> SUFFICES ASSUME IInv, NEW m \in Movers
                 PROVE  /\ reply[m] = "completed" => lineage = m /\ ~row /\ source.state # "live"
                        /\ reply[m] \in {"busy", "refused", "already_cancelled", "create_failed"}
                              => m \notin made
                        /\ reply[m] = "cancel_failed" => m \in made
                        /\ reply[m] = "source_changed" => source.state # "replaced"
        BY DEF AnswerIsTrue
    <2>1. Answered(m) /\ OpBooked(m)
        BY DEF IInv, Booked, Answers
    <2> QED BY <2>1 DEF Answered, OpBooked, Behind
<1> QED BY <1>1, Inductive, PTL

\* When nothing at work outlasts the cut-off, a move drops the source only while its
\* operation owns the appointment and is waiting for exactly that.
THEOREM OwnerDropsTheSource == ASSUME Prompt PROVE Spec => SourceDroppedByOwner
<1> DEFINE Dropped == source.state # "replaced" /\ source'.state = "replaced" =>
                          \E m \in Movers : /\ op[m].state \in {"replacement_created", "cancel_failed"}
                                            /\ claim.type = "reschedule" /\ claim.op = m
<1>1. IInv /\ [Next]_vars => [Dropped]_vars
    <2> SUFFICES ASSUME IInv, [Next]_vars, source.state # "replaced", source'.state = "replaced"
                 PROVE  \E m \in Movers : /\ op[m].state \in {"replacement_created", "cancel_failed"}
                                          /\ claim.type = "reschedule" /\ claim.op = m
        OBVIOUS
    <2>1. Typed /\ Exclusive /\ Stage
        BY DEF IInv
    <2>2. (\E p \in Procs : AnswerCancel(p)) \/ LateCall
        <3>1. Next
            BY DEF vars, square
        <3>2. \/ UNCHANGED source \/ source'.state \in {"live", "cancelled"}
              \/ source'.state = source.state
              \/ (\E p \in Procs : AnswerCancel(p)) \/ LateCall
            <4>1. \A m \in Movers : Freeze(m) => UNCHANGED source
                BY DEF Freeze, Begin, BeginRaises, Reread, Snapshot, ClaimSlot, InsertOp, InsertRaises, Undo,
                   HandOff, square
            <4>2. \A p \in Procs : Execute(p) => UNCHANGED source
                <5> SUFFICES ASSUME NEW p \in Procs, Execute(p) PROVE UNCHANGED source
                    OBVIOUS
                <5>1. CASE \/ Gate(p) \/ NoCredential(p) \/ Adopt(p) \/ SendCreate(p) \/ CreateAnswered(p)
                           \/ MarkCreateFailed(p) \/ Name(p) \/ InsertReplacement(p) \/ MarkConsumed(p)
                    BY <5>1 DEF Gate, NoCredential, Adopt, SendCreate, CreateAnswered, MarkCreateFailed, Name,
                       InsertReplacement, MarkConsumed, square
                <5>2. CASE \/ MarkReplacementCreated(p) \/ Fetch(p) \/ StillOurs(p) \/ CancelGet(p)
                           \/ SendCancel(p) \/ CancelAnswered(p) \/ MarkCancelFailed(p) \/ Complete(p)
                           \/ MarkCompleted(p) \/ Leave(p)
                    BY <5>2 DEF MarkReplacementCreated, Fetch, StillOurs, CancelGet, SendCancel, CancelAnswered,
                       MarkCancelFailed, Complete, MarkCompleted, Leave, square
                <5> QED BY <5>1, <5>2 DEF Execute
            <4>3. \A w \in Workers : ListStale(w) \/ Recover(w) => UNCHANGED source
                BY DEF ListStale, Recover, LookForOp, SweepOrphan, DropStale, TakeOverClaim, AdoptToken, square
            <4>4. Cancel => UNCHANGED source \/ source'.state \in {source.state, "cancelled"}
                BY <2>1 DEF Cancel, CancelBegins, CancelActs, CancelRecords, CancelReleases, cancelled, Typed,
                   TypeOK
            <4>5. MerchantEdits => source'.state \in {"live", "cancelled"}
                BY <2>1 DEF MerchantEdits, Typed, TypeOK
            <4>6. AgeClaim \/ (\E p \in Procs : AnswerCreate(p) \/ Crash(p)) => UNCHANGED source
                BY DEF AgeClaim, AnswerCreate, Crash, square
            <4> QED BY <3>1, <4>1, <4>2, <4>3, <4>4, <4>5, <4>6 DEF Next, Environment
        <3> QED BY <3>2
    <2>3. CASE \E p \in Procs : AnswerCancel(p)
        <3> PICK p \in Procs : AnswerCancel(p)
            BY <2>3
        <3>1. pc[p] = "cancelling" /\ pc[p] \in Dropping /\ pc[p] \in Owning
            BY DEF AnswerCancel, At, Dropping, Owning
        <3>2. /\ Ours(job[p]) /\ job[p] \in Movers
              /\ op[job[p]].state \in {"replacement_created", "cancel_failed"}
            BY <2>1, <3>1, OneOwner, Shape DEF Stage, ProcStage
        <3> QED BY <3>2 DEF Ours
    <2>4. CASE LateCall
        <3> PICK c \in late : c.kind = "cancel"
            BY <2>4 DEF LateCall
        <3>1. claim.type = "reschedule" /\ op[claim.op].state \in {"replacement_created", "cancel_failed"}
            BY <2>1 DEF Exclusive, Stage, LateStage
        <3> QED BY <2>1, <3>1, ClaimShape
    <2> QED BY <2>2, <2>3, <2>4
<1> QED BY <1>1, Inductive, PTL DEF Spec, SourceDroppedByOwner
-----------------------------------------------------------------------------
(* What every implementation of Switch inherits                              *)

\* What a step of Switch relies on: a record is of a booking, and nothing was replaced
\* before there was one.
SwitchInv ==
    /\ S!TypeOK
    /\ lineage # Nil => lineage \in made
    /\ source.state = "replaced" => lineage # Nil
    /\ S!ClosedIsGone

\* Whatever keeps the promise of Switch: a booking dropped for a move has its
\* replacement, and an appointment closed in our records has no booking left (the order
\* of reschedule_execute.py: create, record, cancel, close).
THEOREM Safe == Implements => [](S!NeverStranded /\ S!ClosedIsGone)
<1> USE DEF SwitchInv, S!TypeOK, S!ClosedIsGone
<1>1. S!Init => SwitchInv
    BY DEF S!Init
<1>2. SwitchInv /\ [S!Next]_S!vars => SwitchInv'
    <2> SUFFICES ASSUME SwitchInv, [S!Next]_S!vars PROVE SwitchInv'
        OBVIOUS
    <2>1. ASSUME NEW o \in Movers, S!Book(o) PROVE SwitchInv'
        BY <2>1 DEF S!Book
    <2>2. ASSUME NEW o \in Movers, S!Record(o) PROVE SwitchInv'
        BY <2>2 DEF S!Record
    <2>3. CASE S!Replace
        BY <2>3 DEF S!Replace
    <2>4. CASE S!Cancel
        BY <2>4 DEF S!Cancel
    <2>5. CASE S!Close
        BY <2>5 DEF S!Close
    <2>6. CASE UNCHANGED S!vars
        BY <2>6 DEF S!vars
    <2> QED BY <2>1, <2>2, <2>3, <2>4, <2>5, <2>6 DEF S!Next
<1>3. SwitchInv => S!NeverStranded /\ S!ClosedIsGone
    BY DEF S!NeverStranded
<1> QED BY <1>1, <1>2, <1>3, PTL DEF Implements, S!Spec

\* So the replacement reschedule strands nobody, however long a process stalls.
THEOREM NobodyIsStranded == Spec => [](S!NeverStranded /\ S!ClosedIsGone)
BY KeepsThePromise, Safe, PTL
=============================================================================
