-------------------------- MODULE SquareReschedule --------------------------
(***************************************************************************)
(* Moving one Square appointment on the phone: the new time is booked as a *)
(* replacement, the old booking is cancelled afterwards.                   *)
(*   D1 (backend/services/reschedule.py) owns the appointment and freezes  *)
(*      an operation, without touching Square;                             *)
(*   D2 (backend/services/reschedule_execute.py) advances the operation,   *)
(*      in the request that froze it or in a recovery worker;              *)
(*   D3 (backend/services/reschedule_intent.py) is the request itself.     *)
(*                                                                         *)
(* An operation is named by the mover that inserts it: its id and its      *)
(* idempotency key are fresh uuids of that request.  The key makes every   *)
(* CreateBooking of one operation one booking, so a booking is named by    *)
(* its operation too.  Tokens are as in Cancellation: a number nobody      *)
(* holds.  Every action is one awaited call; a statement of D2 that raises *)
(* leaves everything where it was, as Crash does.                          *)
(*                                                                         *)
(* References, the customer, the service and the location are read before  *)
(* anything is written: here they are reasons to refuse.                   *)
(***************************************************************************)
EXTENDS MutationClaims, Naturals, FiniteSets

CONSTANTS
    Movers,                     \* reschedule tool calls
    Workers,                    \* background processors (one per backend)
    Slots, SlotOf,              \* slot offers, and the one each mover names
    Prompt,                     \* TRUE: nothing at work outlasts the cut-off
    MaxEdits,                   \* bound: changes the merchant makes in Square
    MaxCancels,                 \* bound: cancellations that start
    MaxCrashes                  \* bound: processes that stop mid-way

Procs == Movers \cup Workers

ASSUME ConstantsOK ==
    /\ Prompt \in BOOLEAN
    /\ SlotOf \in [Movers -> Slots]
    /\ MaxEdits \in Nat /\ MaxCancels \in Nat /\ MaxCrashes \in Nat
    /\ Nil \notin Movers \cup Reasons
    /\ Movers \cap Workers = {}
    /\ IsFiniteSet(Procs)

VARIABLES
    row,        \* is the appointment's status still an active one
    lineage,    \* the booking its replacement row names, or Nil
    op,         \* each mover's row of appointment_reschedule_operations
    slot,       \* call_slot_offers: consumed_at, booking_id
    source,     \* the old booking at Square, and its version
    made,       \* the new bookings at Square
    call,       \* what became of the last call each process sent
    late,       \* calls still on their way whose sender has gone on
    pc, reply,  \* where each process is; what a mover's caller is told
    mine,       \* the claim token each process holds
    job,        \* the operation each process works on
    frozen,     \* the version each process read the source at
    read,       \* a worker's copy of the claim's and the operation's token
    cancelling, \* how far the cancellation that owns the appointment is
    edits, cancels, crashes

claims == <<claimVars, mine>>
records == <<row, lineage, op, slot>>
square == <<source, made, call, late>>
local == <<job, frozen, read>>
other == <<cancelling, edits, cancels>>
vars == <<claims, records, square, local, other, pc, reply, crashes>>

\* migration 020's states, and "none" before the INSERT.
LiveStates == {"in_progress", "replacement_created", "cancel_failed"}
OpStates == LiveStates \cup {"none", "create_failed", "completed"}
CancelReasons == {"provider_retryable", "provider_unknown", "source_changed"}

ASSUME NilOK == Nil \notin Nat /\ Nil \notin CancelReasons

Live(m) == op[m].state \in LiveStates
Parked(m) == op[m].state = "cancel_failed" /\ op[m].reason = "source_changed"

NoOp == [state |-> "none", token |-> Nil, version |-> 0, named |-> FALSE, reason |-> Nil]

Calls == [kind : {"create"}, op : Movers] \cup [kind : {"cancel"}, version : 0..MaxEdits]

CallStates == {"none", "inflight", "ok", "refused", "mismatch"}

Labels == {"start", "reread", "snapshot", "slot", "insert", "undo", "handoff",
           "gate", "adopt", "create", "creating", "createfailed", "name",
           "lineage", "consume", "advance", "regate", "fetch", "ours", "cancelget",
           "cancel", "cancelling", "complete", "finish", "leave", "done", "crashed",
           "idle", "look", "sweep", "dropstale", "takeover", "take"}
           \cup CancelReasons

Replies == {"none", "busy", "refused", "already_cancelled", "insert_failed", "unresolved",
            "create_failed", "cancel_failed", "source_changed", "completed"}

Tokens == 0..(Cardinality(Procs) + Cardinality(Movers) + 2 * Cardinality(Workers) + 1)

InUse == {claim.token} \cup {mine[p] : p \in Procs} \cup {op[m].token : m \in Movers}
         \cup UNION {{read[w].claim, read[w].op} : w \in Workers}

Fresh == CHOOSE t \in Tokens : t \notin InUse

TypeOK ==
    /\ ClaimsTypeOK(Movers, Tokens)
    /\ row \in BOOLEAN
    /\ lineage \in Movers \cup {Nil}
    /\ op \in [Movers -> [state : OpStates, token : Tokens \cup {Nil}, version : 0..MaxEdits,
                          named : BOOLEAN, reason : CancelReasons \cup {Nil}]]
    /\ slot \in [Slots -> {"free", "claimed", "consumed"}]
    /\ source \in [state : {"live", "replaced", "cancelled"}, version : 0..MaxEdits]
    /\ made \subseteq Movers
    /\ call \in [Procs -> CallStates]
    /\ late \subseteq Calls
    /\ pc \in [Procs -> Labels]
    /\ reply \in [Movers -> Replies]
    /\ mine \in [Procs -> Tokens \cup {Nil}]
    /\ job \in [Procs -> Movers \cup {Nil}]
    /\ frozen \in [Procs -> 0..MaxEdits]
    /\ read \in [Workers -> [claim : Tokens \cup {Nil}, op : Tokens \cup {Nil}]]
    /\ cancelling \in {"none", "owner", "cancelled", "recorded"}
    /\ edits \in 0..MaxEdits /\ cancels \in 0..MaxCancels /\ crashes \in 0..MaxCrashes

Init ==
    /\ claim = NoClaim /\ claimOld = FALSE
    /\ row = TRUE /\ lineage = Nil
    /\ op = [m \in Movers |-> NoOp]
    /\ slot = [s \in Slots |-> "free"]
    /\ source = [state |-> "live", version |-> 0]
    /\ made = {} /\ late = {}
    /\ call = [p \in Procs |-> "none"]
    /\ pc = [p \in Procs |-> IF p \in Workers THEN "idle" ELSE "start"]
    /\ reply = [m \in Movers |-> "none"]
    /\ mine = [p \in Procs |-> Nil]
    /\ job = [p \in Procs |-> IF p \in Workers THEN Nil ELSE p]
    /\ frozen = [p \in Procs |-> 0]
    /\ read = [w \in Workers |-> [claim |-> Nil, op |-> Nil]]
    /\ cancelling = "none"
    /\ edits = 0 /\ cancels = 0 /\ crashes = 0

-----------------------------------------------------------------------------
(* Steps of a process *)

At(p, label) == pc[p] = label

Goto(p, label) == pc' = [pc EXCEPT ![p] = label] /\ UNCHANGED reply

Hold(p, token) == mine' = [mine EXCEPT ![p] = token]

\* What a mover will answer, whatever its last statements do.
Tell(p, what, label) ==
    /\ pc' = [pc EXCEPT ![p] = label]
    /\ reply' = [m \in Movers |-> IF m = p THEN what ELSE reply[m]]

Rest(p) == IF p \in Workers THEN "idle" ELSE "done"

\* A mover answers its caller; a worker takes the next claim.
End(p, what) == Tell(p, what, Rest(p)) /\ Hold(p, Nil)

\* mutation_ownership.release raises when the database does, landed or not.
GiveUp(m, what) ==
    /\ Release(mine[m]) \/ UNCHANGED claimVars
    /\ End(m, what)

-----------------------------------------------------------------------------
(* D1: own the appointment, validate it, freeze the operation *)

Begin(m) ==
    /\ At(m, "start")
    /\ \/ /\ AcquireReschedule(m, Fresh)
          /\ Hold(m, Fresh)
          /\ Goto(m, "reread")
       \/ ~Free /\ End(m, "busy") /\ UNCHANGED claimVars
    /\ UNCHANGED <<records, square, local, other, crashes>>

\* The INSERT raised and may have landed, with a token nobody will present.
BeginRaises(m) ==
    /\ At(m, "start")
    /\ AcquireReschedule(m, Fresh) \/ UNCHANGED claimVars
    /\ End(m, "refused")
    /\ UNCHANGED <<records, square, local, other, crashes>>

\* Under ownership: any other reason may still refuse a row that is active.
Reread(m) ==
    /\ At(m, "reread")
    /\ \/ row /\ Goto(m, "snapshot") /\ UNCHANGED claims
       \/ GiveUp(m, "refused")
    /\ UNCHANGED <<records, square, local, other, crashes>>

\* Read the booking at Square.  A booking already gone is recorded (if the
\* statement does not raise); one that cannot be read, or moved, refuses.
Snapshot(m) ==
    /\ At(m, "snapshot")
    /\ \/ /\ source.state = "live"
          /\ frozen' = [frozen EXCEPT ![m] = source.version]
          /\ Goto(m, "slot")
          /\ UNCHANGED <<claims, row>>
       \/ /\ source.state # "live"
          /\ row' \in {row, FALSE}
          /\ Tell(m, "already_cancelled", "leave")
          /\ UNCHANGED <<claims, frozen>>
       \/ GiveUp(m, "refused") /\ UNCHANGED <<row, frozen>>
    /\ UNCHANGED <<lineage, op, slot, square, job, read, other, crashes>>

\* A slot that is not free, not bookable any more, or whose statement raised.
ClaimSlot(m) ==
    /\ At(m, "slot")
    /\ \/ /\ slot[SlotOf[m]] = "free"
          /\ slot' = [slot EXCEPT ![SlotOf[m]] = "claimed"]
          /\ \/ Goto(m, "insert") /\ UNCHANGED claims
             \/ GiveUp(m, "refused")
       \/ GiveUp(m, "refused") /\ UNCHANGED slot
    /\ UNCHANGED <<row, lineage, op, square, local, other, crashes>>

Frozen(m) == [NoOp EXCEPT !.state = "in_progress", !.token = mine[m], !.version = frozen[m]]

\* The partial unique index allows one live operation per appointment.
InsertOp(m) ==
    /\ At(m, "insert")
    /\ IF \E j \in Movers : Live(j)
       THEN Tell(m, "busy", "undo") /\ UNCHANGED op
       ELSE op' = [op EXCEPT ![m] = Frozen(m)] /\ Goto(m, "handoff")
    /\ frozen' = [frozen EXCEPT ![m] = 0]
    /\ UNCHANGED <<claims, row, lineage, slot, square, job, read, other, crashes>>

\* The INSERT raised, having landed or not: D1 takes it for not landed.
InsertRaises(m) ==
    /\ At(m, "insert")
    /\ \/ UNCHANGED op
       \/ (\A j \in Movers : ~Live(j)) /\ op' = [op EXCEPT ![m] = Frozen(m)]
    /\ Tell(m, "insert_failed", "undo")
    /\ frozen' = [frozen EXCEPT ![m] = 0]
    /\ UNCHANGED <<claims, row, lineage, slot, square, job, read, other, crashes>>

\* An offer that names a booking stays consumed; an error is swallowed.
FreeSlot(s) == IF slot[s] = "claimed" THEN slot' \in {slot, [slot EXCEPT ![s] = "free"]}
                                      ELSE UNCHANGED slot

Undo(m) ==
    /\ At(m, "undo")
    /\ FreeSlot(SlotOf[m])
    /\ Goto(m, "leave")
    /\ UNCHANGED <<claims, row, lineage, op, square, local, other, crashes>>

\* The claim given back at the end, by D1, by D2 or by a recovery worker.
Leave(p) ==
    /\ At(p, "leave")
    /\ Release(mine[p]) \/ UNCHANGED claimVars
    /\ Goto(p, Rest(p))
    /\ Hold(p, Nil)
    /\ UNCHANGED <<records, square, local, other, crashes>>

\* D3 reads the token back from the operation: it need not be the one D1 wrote.
HandOff(m) ==
    /\ At(m, "handoff")
    /\ \/ Hold(m, op[m].token) /\ Goto(m, "gate")
       \/ End(m, "unresolved")
    /\ UNCHANGED <<claimVars, records, square, local, other, crashes>>

-----------------------------------------------------------------------------
(* D2: the gate.  Claim and operation must both name this process's token.   *)

GateHolds(p) ==
    /\ Owns("reschedule", mine[p])
    /\ claim.op = job[p]
    /\ op[job[p]].token = mine[p]

\* Three reads, taken as one: the operation's token moves only after the claim's.
Gate(p) ==
    /\ At(p, "gate") \/ At(p, "regate")
    /\ LET o == op[job[p]] IN
       \/ ~GateHolds(p) /\ End(p, "unresolved")
       \/ /\ GateHolds(p)
          /\ \/ o.state = "in_progress" /\ At(p, "gate") /\ Goto(p, "adopt") /\ UNCHANGED mine
             \/ Live(job[p]) /\ o.state # "in_progress" /\ ~Parked(job[p])
                /\ Goto(p, "fetch") /\ UNCHANGED mine
             \/ Parked(job[p]) /\ End(p, "source_changed")
             \/ o.state \in {"completed", "create_failed"} /\ End(p, o.state)
    /\ UNCHANGED <<claimVars, records, square, local, other, crashes>>

NoCredential(p) ==
    /\ At(p, "gate")
    /\ GateHolds(p)
    /\ End(p, IF op[job[p]].state = "in_progress" THEN "unresolved" ELSE "cancel_failed")
    /\ UNCHANGED <<claimVars, records, square, local, other, crashes>>

\* An UPDATE of the operation, fenced on the token and the states it may leave.
Mine(p, from) == op[job[p]].token = mine[p] /\ op[job[p]].state \in from

-----------------------------------------------------------------------------
(* D2, first half: book the replacement *)

\* Seeded fault: a named booking is taken to be a recorded one.
AdoptNamed(p) ==
    /\ At(p, "adopt")
    /\ Goto(p, IF op[job[p]].named THEN "consume" ELSE "create")
    /\ UNCHANGED <<claims, records, square, local, other, crashes>>

\* A replacement row that exists is the answer: Square is not asked again.
Adopt(p) ==
    /\ At(p, "adopt")
    /\ Goto(p, IF lineage = Nil THEN "create" ELSE "consume")
    /\ UNCHANGED <<claims, records, square, local, other, crashes>>

SendCreate(p) ==
    /\ At(p, "create")
    /\ call' = [call EXCEPT ![p] = "inflight"]
    /\ Goto(p, "creating")
    /\ UNCHANGED <<claims, records, source, made, late, local, other, crashes>>

Create(o) == [kind |-> "create", op |-> o]
CancelAt(version) == [kind |-> "cancel", version |-> version]

\* What a process no longer waits for may still arrive, if it can still do anything.
Abandon(p) ==
    /\ call' = [call EXCEPT ![p] = "none"]
    /\ frozen' = [frozen EXCEPT ![p] = 0]
    /\ late' = late \cup
          {c \in Calls : /\ call[p] = "inflight"
                         /\ \/ At(p, "creating") /\ c = Create(job[p]) /\ job[p] \notin made
                            \/ At(p, "cancelling") /\ c = CancelAt(frozen[p])
                               /\ source = [state |-> "live", version |-> frozen[p]]}

\* Seeded fault: no answer is taken for a refusal.
CreateAnsweredTooSoon(p) ==
    /\ At(p, "creating")
    /\ \/ call[p] = "ok" /\ Goto(p, "name")
       \/ call[p] \in {"refused", "inflight"} /\ Goto(p, "createfailed")
    /\ Abandon(p)
    /\ UNCHANGED <<claims, records, source, made, job, read, other, crashes>>

\* Seeded fault: without an answer the slot and the appointment are given back.
CreateAnsweredUndone(p) ==
    /\ At(p, "creating")
    /\ \/ call[p] = "ok" /\ Goto(p, "name")
       \/ call[p] = "refused" /\ Goto(p, "createfailed")
       \/ Tell(p, "unresolved", IF p \in Movers THEN "undo" ELSE "leave")
    /\ Abandon(p)
    /\ UNCHANGED <<claims, records, source, made, job, read, other, crashes>>

\* An answer; or none, or 429 or 5xx: everything stays as it is, to be replayed.
CreateAnswered(p) ==
    /\ At(p, "creating")
    /\ \/ call[p] = "ok" /\ Goto(p, "name") /\ UNCHANGED mine
       \/ call[p] = "refused" /\ Goto(p, "createfailed") /\ UNCHANGED mine
       \/ End(p, "unresolved")
    /\ Abandon(p)
    /\ UNCHANGED <<claimVars, records, source, made, job, read, other, crashes>>

MarkCreateFailed(p) ==
    /\ At(p, "createfailed")
    /\ \/ /\ Mine(p, {"in_progress"})
          /\ op' = [op EXCEPT ![job[p]].state = "create_failed"]
          /\ Tell(p, "create_failed", IF p \in Movers THEN "undo" ELSE "leave")
          /\ UNCHANGED mine
       \/ ~Mine(p, {"in_progress"}) /\ End(p, "unresolved") /\ UNCHANGED op
    /\ UNCHANGED <<claimVars, row, lineage, slot, square, local, other, crashes>>

\* Name the booking on the operation, once; a replay finds its own name there.
Name(p) ==
    /\ At(p, "name")
    /\ LET o == op[job[p]] IN
       IF o.token = mine[p] \/ o.named
       THEN /\ op' = [op EXCEPT ![job[p]].named = TRUE]
            /\ Goto(p, "lineage") /\ UNCHANGED mine
       ELSE End(p, "unresolved") /\ UNCHANGED op
    /\ UNCHANGED <<claimVars, row, lineage, slot, square, local, other, crashes>>

\* The unique index keeps one replacement row; another booking's is an incident.
InsertReplacement(p) ==
    /\ At(p, "lineage")
    /\ IF lineage \in {Nil, job[p]}
       THEN lineage' = job[p] /\ Goto(p, "consume") /\ UNCHANGED mine
       ELSE End(p, "unresolved") /\ UNCHANGED lineage
    /\ UNCHANGED <<claimVars, row, op, slot, square, local, other, crashes>>

\* Only the request still knows its slot; an error is swallowed.
MarkConsumed(p) ==
    /\ At(p, "consume")
    /\ \/ p \in Movers /\ slot' = [slot EXCEPT ![SlotOf[p]] = "consumed"]
       \/ UNCHANGED slot
    /\ Goto(p, "advance")
    /\ UNCHANGED <<claims, row, lineage, op, square, local, other, crashes>>

MarkReplacementCreated(p) ==
    /\ At(p, "advance")
    /\ IF Mine(p, {"in_progress"})
       THEN /\ op' = [op EXCEPT ![job[p]].state = "replacement_created"]
            /\ Goto(p, "regate") /\ UNCHANGED mine
       ELSE End(p, "unresolved") /\ UNCHANGED op
    /\ UNCHANGED <<claimVars, row, lineage, slot, square, local, other, crashes>>

-----------------------------------------------------------------------------
(* D2, second half: cancel the source *)

Fetch(p) ==
    /\ At(p, "fetch")
    /\ \/ Goto(p, "provider_retryable")
       \/ source.state # "live" /\ Goto(p, "complete")
       \/ /\ source.state = "live"
          /\ Goto(p, IF source.version = op[job[p]].version THEN "ours" ELSE "source_changed")
    /\ UNCHANGED <<claims, records, square, local, other, crashes>>

\* Ownership again, right before the destructive call.
StillOurs(p) ==
    /\ At(p, "ours")
    /\ IF GateHolds(p) THEN Goto(p, "cancelget") /\ UNCHANGED mine ELSE End(p, "unresolved")
    /\ UNCHANGED <<claimVars, records, square, local, other, crashes>>

\* cancel_booking_detailed reads the booking itself, and cancels the version it reads.
CancelGet(p) ==
    /\ At(p, "cancelget")
    /\ frozen' = [frozen EXCEPT ![p] = source.version]
    /\ \/ Goto(p, "provider_unknown")
       \/ Goto(p, IF source.state = "live" THEN "cancel" ELSE "complete")
    /\ UNCHANGED <<claims, records, square, job, read, other, crashes>>

SendCancel(p) ==
    /\ At(p, "cancel")
    /\ call' = [call EXCEPT ![p] = "inflight"]
    /\ Goto(p, "cancelling")
    /\ UNCHANGED <<claims, records, source, made, late, local, other, crashes>>

CancelAnswered(p) ==
    /\ At(p, "cancelling")
    /\ \/ call[p] = "ok" /\ Goto(p, "complete")
       \/ call[p] = "mismatch" /\ Goto(p, "source_changed")
       \/ call[p] = "refused" /\ Goto(p, "provider_retryable")
       \/ Goto(p, "provider_unknown")
    /\ Abandon(p)
    /\ UNCHANGED <<claims, records, source, made, job, read, other, crashes>>

\* Seeded fault: the appointment is given back with the refusal.
MarkCancelFailedReleases(p) ==
    /\ pc[p] \in CancelReasons
    /\ IF Mine(p, {"replacement_created", "cancel_failed"})
       THEN op' = [op EXCEPT ![job[p]].state = "cancel_failed", ![job[p]].reason = pc[p]]
       ELSE UNCHANGED op
    /\ Tell(p, IF At(p, "source_changed") THEN "source_changed" ELSE "cancel_failed", "leave")
    /\ UNCHANGED <<claims, row, lineage, slot, square, local, other, crashes>>

\* The operation keeps the reason; whether the UPDATE was fenced is not asked.
MarkCancelFailed(p) ==
    /\ pc[p] \in CancelReasons
    /\ IF Mine(p, {"replacement_created", "cancel_failed"})
       THEN op' = [op EXCEPT ![job[p]].state = "cancel_failed", ![job[p]].reason = pc[p]]
       ELSE UNCHANGED op
    /\ End(p, IF At(p, "source_changed") THEN "source_changed" ELSE "cancel_failed")
    /\ UNCHANGED <<claimVars, row, lineage, slot, square, local, other, crashes>>

\* The row first; the UPDATE may raise, having landed or not.
Complete(p) ==
    /\ At(p, "complete")
    /\ \/ row' = FALSE /\ Goto(p, "finish")
       \/ row' \in {row, FALSE} /\ Goto(p, "provider_unknown")
    /\ UNCHANGED <<claims, lineage, op, slot, square, local, other, crashes>>

MarkCompleted(p) ==
    /\ At(p, "finish")
    /\ IF Mine(p, {"replacement_created", "cancel_failed"})
       THEN /\ op' = [op EXCEPT ![job[p]].state = "completed"]
            /\ Tell(p, "completed", "leave") /\ UNCHANGED mine
       ELSE End(p, "unresolved") /\ UNCHANGED op
    /\ UNCHANGED <<claimVars, row, lineage, slot, square, local, other, crashes>>

-----------------------------------------------------------------------------
(* Recovery: from the stale claims *)

ListStale(w) ==
    /\ At(w, "idle")
    /\ claim.type = "reschedule" /\ claimOld
    /\ job' = [job EXCEPT ![w] = claim.op]
    /\ read' = [read EXCEPT ![w] = [claim |-> claim.token, op |-> Nil]]
    /\ Goto(w, "look")
    /\ UNCHANGED <<claims, records, square, frozen, other, crashes>>

Forget(w) == read' = [read EXCEPT ![w] = [claim |-> Nil, op |-> Nil]]

\* No operation: D1's sweep.  A finished one only needs its claim dropped; a parked
\* one waits for a person.
LookForOp(w) ==
    /\ At(w, "look")
    /\ LET o == op[job[w]] IN
       \/ o.state = "none" /\ Goto(w, "sweep") /\ UNCHANGED read
       \/ o.state \in {"completed", "create_failed"} /\ Goto(w, "dropstale") /\ UNCHANGED read
       \/ Parked(job[w]) /\ Goto(w, "idle") /\ Forget(w)
       \/ /\ Live(job[w]) /\ ~Parked(job[w])
          /\ Goto(w, "takeover")
          /\ read' = [read EXCEPT ![w].op = o.token]
    /\ UNCHANGED <<claims, records, square, job, frozen, other, crashes>>

SweepOrphan(w) ==
    /\ At(w, "sweep")
    /\ ReleaseOrphan(job[w], read[w].claim)
    /\ Goto(w, "idle") /\ Forget(w)
    /\ UNCHANGED <<mine, records, square, job, frozen, other, crashes>>

DropStale(w) ==
    /\ At(w, "dropstale")
    /\ Release(read[w].claim)
    /\ Goto(w, "idle") /\ Forget(w)
    /\ UNCHANGED <<mine, records, square, job, frozen, other, crashes>>

TakeOverClaim(w) ==
    /\ At(w, "takeover")
    /\ \/ /\ TakeOverReschedule(job[w], read[w].claim, Fresh)
          /\ Hold(w, Fresh)
          /\ Goto(w, "take")
          /\ UNCHANGED read
       \/ /\ ~(Owns("reschedule", read[w].claim) /\ claim.op = job[w] /\ claimOld)
          /\ Goto(w, "idle") /\ Forget(w)
          /\ UNCHANGED claims
    /\ UNCHANGED <<records, square, job, frozen, other, crashes>>

\* Seeded fault: fenced on the claim's old token instead of the operation's own.
AdoptTokenOfClaim(w) ==
    /\ At(w, "take")
    /\ IF op[job[w]].token = read[w].claim
       THEN op' = [op EXCEPT ![job[w]].token = mine[w]] /\ Goto(w, "gate") /\ UNCHANGED mine
       ELSE End(w, "unresolved") /\ UNCHANGED op
    /\ Forget(w)
    /\ UNCHANGED <<claimVars, row, lineage, slot, square, job, frozen, other, crashes>>

AdoptToken(w) ==
    /\ At(w, "take")
    /\ IF op[job[w]].token = read[w].op
       THEN op' = [op EXCEPT ![job[w]].token = mine[w]] /\ Goto(w, "gate") /\ UNCHANGED mine
       ELSE End(w, "unresolved") /\ UNCHANGED op
    /\ Forget(w)
    /\ UNCHANGED <<claimVars, row, lineage, slot, square, job, frozen, other, crashes>>

-----------------------------------------------------------------------------
(* Square, the merchant, another cancellation, the clock and crashes *)

Book(m) == made' = made \cup {m}

CancelSource(version) ==
    IF source = [state |-> "live", version |-> version]
    THEN source' = [source EXCEPT !.state = "replaced"]
    ELSE UNCHANGED source

\* The key makes a replay the first booking again; it may still be refused for a
\* reason of its own (a revoked credential).
AnswerCreate(p) ==
    /\ At(p, "creating") /\ call[p] = "inflight"
    /\ \/ Book(job[p]) /\ call' = [call EXCEPT ![p] = "ok"]
       \/ UNCHANGED made /\ call' = [call EXCEPT ![p] = "refused"]
    /\ UNCHANGED <<claims, records, source, late, local, other, pc, reply, crashes>>

AnswerCancel(p) ==
    /\ At(p, "cancelling") /\ call[p] = "inflight"
    /\ \/ /\ CancelSource(frozen[p])
          /\ call' = [call EXCEPT ![p] = IF source.state # "live" THEN "refused"
                                         ELSE IF source.version = frozen[p] THEN "ok"
                                         ELSE "mismatch"]
       \/ UNCHANGED source /\ call' = [call EXCEPT ![p] = "refused"]
    /\ UNCHANGED <<claims, records, made, late, local, other, pc, reply, crashes>>

\* A call nobody waits for any more arrives, or never does.
LateCall ==
    \E c \in late :
        /\ late' = late \ {c}
        /\ \/ c.kind = "create" /\ Book(c.op) /\ UNCHANGED source
           \/ c.kind = "cancel" /\ CancelSource(c.version) /\ UNCHANGED made
           \/ UNCHANGED <<source, made>>
        /\ UNCHANGED <<claims, records, call, local, other, pc, reply, crashes>>

MerchantEdits ==
    /\ edits < MaxEdits /\ source.state = "live"
    /\ edits' = edits + 1
    /\ \/ source' = [source EXCEPT !.version = @ + 1]
       \/ source' = [source EXCEPT !.state = "cancelled"]
    /\ UNCHANGED <<claims, records, made, call, late, local, cancelling, cancels, pc, reply, crashes>>

\* A cancellation (Cancellation) owns the appointment, acts at Square and records it.
cancelled == <<mine, lineage, op, slot, made, call, late, local, edits, pc, reply, crashes>>

CancelBegins ==
    /\ cancels < MaxCancels /\ row
    /\ AcquireCancel(Fresh)
    /\ cancelling' = "owner" /\ cancels' = cancels + 1
    /\ UNCHANGED <<cancelled, row, source>>

CancelActs ==
    /\ cancelling = "owner"
    /\ cancelling' = "cancelled"
    /\ source' = [source EXCEPT !.state = IF @ = "live" THEN "cancelled" ELSE @]
    /\ UNCHANGED <<claimVars, cancelled, row, cancels>>

CancelRecords ==
    /\ cancelling = "cancelled"
    /\ row' = FALSE /\ cancelling' = "recorded"
    /\ UNCHANGED <<claimVars, cancelled, source, cancels>>

CancelReleases ==
    /\ cancelling \in {"owner", "recorded"}
    /\ Release(claim.token)
    /\ cancelling' = "none"
    /\ UNCHANGED <<cancelled, row, source, cancels>>

Resting(p) == pc[p] \in {"start", "done", "crashed", "idle"}

\* Under Prompt the cut-off passes only once the claim's holder and every call are done.
AgeClaim ==
    /\ ClaimAges
    /\ Prompt => late = {} /\ \A p \in Procs : mine[p] = claim.token => Resting(p)
    /\ UNCHANGED <<mine, records, square, local, other, pc, reply, crashes>>

Crash(p) ==
    /\ crashes < MaxCrashes
    /\ ~Resting(p)
    /\ crashes' = crashes + 1
    /\ pc' = [pc EXCEPT ![p] = IF p \in Workers THEN "idle" ELSE "crashed"]
    /\ Hold(p, Nil)
    /\ Abandon(p)
    /\ read' = [w \in Workers |-> IF w = p THEN [claim |-> Nil, op |-> Nil] ELSE read[w]]
    /\ UNCHANGED <<claimVars, records, source, made, job, other, reply>>

-----------------------------------------------------------------------------
Freeze(m) ==
    \/ Begin(m) \/ BeginRaises(m) \/ Reread(m) \/ Snapshot(m) \/ ClaimSlot(m)
    \/ InsertOp(m) \/ InsertRaises(m) \/ Undo(m) \/ HandOff(m)

Execute(p) ==
    \/ Gate(p) \/ NoCredential(p) \/ Adopt(p) \/ SendCreate(p) \/ CreateAnswered(p)
    \/ MarkCreateFailed(p) \/ Name(p) \/ InsertReplacement(p) \/ MarkConsumed(p)
    \/ MarkReplacementCreated(p) \/ Fetch(p) \/ StillOurs(p) \/ CancelGet(p) \/ SendCancel(p)
    \/ CancelAnswered(p) \/ MarkCancelFailed(p) \/ Complete(p) \/ MarkCompleted(p) \/ Leave(p)

Recover(w) == LookForOp(w) \/ SweepOrphan(w) \/ DropStale(w) \/ TakeOverClaim(w) \/ AdoptToken(w)

Cancel == CancelBegins \/ CancelActs \/ CancelRecords \/ CancelReleases

Environment ==
    \/ \E p \in Procs : AnswerCreate(p) \/ AnswerCancel(p) \/ Crash(p)
    \/ LateCall \/ MerchantEdits \/ AgeClaim

Next ==
    \/ \E m \in Movers : Freeze(m)
    \/ \E p \in Procs : Execute(p)
    \/ \E w \in Workers : ListStale(w) \/ Recover(w)
    \/ Cancel
    \/ Environment

Spec == Init /\ [][Next]_vars

\* A step at which Square or our database fails, or refuses for a passing reason.
Fails(p) ==
    \/ NoCredential(p)
    \/ At(p, "creating") /\ pc'[p] = Rest(p)
    \/ ~At(p, pc'[p]) /\ pc'[p] \in {"provider_retryable", "provider_unknown"}

\* Requests run on until they stop, crashes aside; the processor's loop comes back to
\* the claims every minute; time passes; and every outage ends.
FairSpec ==
    /\ Spec
    /\ \A m \in Movers : WF_vars(Freeze(m))
    /\ \A p \in Procs : WF_vars(Execute(p)) /\ WF_vars(AnswerCreate(p) \/ AnswerCancel(p))
    /\ \A w \in Workers : WF_vars(ListStale(w)) /\ WF_vars(Recover(w))
    /\ WF_vars(LateCall) /\ WF_vars(AgeClaim)
    /\ WF_vars(CancelActs \/ CancelRecords \/ CancelReleases)
    /\ <>[][\A p \in Procs : ~Fails(p)]_vars

-----------------------------------------------------------------------------
(* Safety *)

\* One of the README's findings: a replay that was refused although an earlier try
\* had booked.
RefusedLate(m) == m \in made /\ op[m].state = "create_failed"

\* Nobody owns the appointment only when the caller has exactly the one booking:
\* never a replacement beside a live source, never two replacements.
BookedOnce ==
    LET booked == {m \in made : ~RefusedLate(m)} IN
    /\ Free /\ source.state = "live" => booked = {}
    /\ Cardinality(booked) <= 1

\* What the caller is told is so.  Moved: the replacement is theirs and the old booking
\* is gone; not moved: nothing was booked; changed by the business: not cancelled by us.
AnswerIsTrue ==
    \A m \in Movers :
        /\ reply[m] = "completed" => lineage = m /\ ~row /\ source.state # "live"
        /\ reply[m] \in {"busy", "refused", "already_cancelled", "create_failed"}
              => m \notin made
        /\ reply[m] = "cancel_failed" => m \in made
        /\ reply[m] = "source_changed" => source.state # "replaced"

\* A move drops the source only while its operation still owns the appointment and is
\* waiting for exactly that: no stalled process drops it later, or for another.
SourceDroppedByOwner ==
    [][source.state # "replaced" /\ source'.state = "replaced" =>
          \E m \in Movers : /\ op[m].state \in {"replacement_created", "cancel_failed"}
                            /\ claim.type = "reschedule" /\ claim.op = m]_vars

\* The promise of Switch, whatever stops or stalls.
S == INSTANCE Switch WITH Offers <- Movers, None <- Nil,
                          old <- source.state, new <- made, kept <- lineage, open <- row
Implements == S!Spec

(* Liveness *)

\* An appointment a reschedule owns is given back, whatever stops half-way, unless its
\* operation is parked for a person.
Resolved ==
    \A m \in Movers : claim.type = "reschedule" /\ claim.op = m
                         ~> claim.type # "reschedule" \/ claim.op # m \/ Parked(m)
=============================================================================
