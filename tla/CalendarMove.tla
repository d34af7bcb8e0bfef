---------------------------- MODULE CalendarMove ----------------------------
(***************************************************************************)
(* Moving and cancelling one Google or Outlook appointment on the phone    *)
(* (backend/services/calendar_reschedule.py, backend/routers/tools.py),    *)
(* with the recovery passes of the background processor.                   *)
(*                                                                         *)
(* Each process is a request (a mover or a canceller) or a background      *)
(* worker; every action is one awaited call, so requests interleave        *)
(* exactly where the code awaits (only a path's last release, which is     *)
(* fenced on a token no other process holds, is taken with the step before *)
(* it).  An operation row is named by the mover that inserts it: op_id and *)
(* the claim token are both fresh uuids of that request, and neither       *)
(* changes later.                                                          *)
(*                                                                         *)
(* Early returns that change nothing (a bad or expired reference, a date   *)
(* refused, another caller's appointment) are left out.                    *)
(***************************************************************************)
EXTENDS MutationClaims, Naturals, FiniteSets

CONSTANTS
    Movers, Cancellers,         \* requests of the move and cancel tools
    Workers,                    \* background processors (one per backend)
    Refs, RefOf,                \* call-scoped references, and each request's
    Times, Start,               \* start times; the appointment's first one
    Prompt,                     \* TRUE: no request or call outlasts a cut-off
    MaxEdits,                   \* bound: edits the merchant makes by hand
    MaxCrashes                  \* bound: processes that stop mid-way

Requests == Movers \cup Cancellers

Procs == Requests \cup Workers

ASSUME ConstantsOK ==
    /\ Prompt \in BOOLEAN
    /\ Start \in Times
    /\ RefOf \in [Requests -> Refs]
    /\ MaxEdits \in Nat /\ MaxCrashes \in Nat
    /\ Nil \notin Requests \cup Times \cup Reasons
    /\ Movers \cap Cancellers = {} /\ Workers \cap Requests = {}

VARIABLES
    row,        \* appointments: start and whether its status is active
    consumed,   \* references whose consumed_at is set
    heard,      \* start_at_utc recorded with a reference when it was listed
    opState,    \* calendar_move_operations.state, "none" before the INSERT
    opOld,      \* updated_at is STALE_SECONDS old
    readers,    \* workers whose copy of updated_at is still the row's
    event,      \* the provider's event: start, and whether it is live
    patch,      \* what became of the PATCH each mover sends
    edits,      \* edits made by the merchant in the calendar
    pc, reply,  \* where each process is; what a request answered
    job,        \* the operation a process is settling or sweeping
    aged,       \* its copy of the operation was already stale
    seen,       \* the mover's reading of the appointment row
    want,       \* the start time the mover is asked for
    crashes

store == <<row, consumed, heard>>
ops == <<opState, opOld, readers>>
provider == <<event, patch, edits>>
local == <<job, aged, seen, want>>
vars == <<claimVars, store, ops, provider, local, pc, reply, crashes>>

LiveStates == {"in_progress", "unknown", "provider_moved"}
OpStates == LiveStates \cup {"none", "completed", "failed"}
Live(m) == opState[m] \in LiveStates

PatchStates == {"unsent", "inflight", "applied", "refused", "lost"}

Labels == {"start", "check", "own", "reread", "insert", "patch", "sent", "moved",
           "refused", "timeout", "settle", "sawTo", "sawFrom", "verify", "finish",
           "confirm", "release", "consume", "call", "write", "undo", "done",
           "crashed", "idle", "lease", "look", "sweep"}

Replies == {"none", "busy", "temporary", "changed", "already_there", "not_eligible",
            "not_free", "completed", "failed", "unknown", "stale", "local_pending",
            "already_cancelled", "inactive", "not_cancelled", "cancelled",
            "cancelled_unrecorded"}

TypeOK ==
    /\ ClaimsTypeOK(Movers, Requests)
    /\ row \in [start : Times, active : BOOLEAN]
    /\ consumed \subseteq Refs
    /\ heard \in [Refs -> Times \cup {Nil}]
    /\ opState \in [Movers -> OpStates]
    /\ opOld \in [Movers -> BOOLEAN]
    /\ readers \in [Movers -> SUBSET Workers]
    /\ event \in [start : Times, live : BOOLEAN]
    /\ patch \in [Movers -> PatchStates]
    /\ edits \in 0..MaxEdits
    /\ pc \in [Procs -> Labels]
    /\ reply \in [Requests -> Replies]
    /\ job \in [Procs -> Movers \cup {Nil}]
    /\ aged \in [Procs -> BOOLEAN]
    /\ seen \in [Movers -> [start : Times, active : BOOLEAN, retry : BOOLEAN]]
    /\ want \in [Movers -> Times]
    /\ crashes \in 0..MaxCrashes

Init ==
    /\ claim = NoClaim /\ claimOld = FALSE
    /\ row = [start |-> Start, active |-> TRUE]
    /\ consumed = {}
    /\ heard = [r \in Refs |-> Nil]
    /\ opState = [m \in Movers |-> "none"]
    /\ opOld = [m \in Movers |-> FALSE]
    /\ readers = [m \in Movers |-> {}]
    /\ event = [start |-> Start, live |-> TRUE]
    /\ patch = [m \in Movers |-> "unsent"]
    /\ edits = 0
    /\ pc = [p \in Procs |-> IF p \in Workers THEN "idle" ELSE "start"]
    /\ reply = [p \in Requests |-> "none"]
    /\ job = [p \in Procs |-> Nil]
    /\ aged = [p \in Procs |-> FALSE]
    /\ seen = [m \in Movers |-> [start |-> Start, active |-> TRUE, retry |-> FALSE]]
    /\ want = [m \in Movers |-> Start]
    /\ crashes = 0

-----------------------------------------------------------------------------
(* Steps of a process *)

At(p, label) == pc[p] = label

Goto(p, label) == pc' = [pc EXCEPT ![p] = label] /\ UNCHANGED reply

Answer(p, what) ==
    /\ pc' = [pc EXCEPT ![p] = "done"]
    /\ reply' = [reply EXCEPT ![p] = what]

\* A request reports an unsuccessful outcome; a worker takes the next operation.
GiveUp(p, outcome) == IF p \in Workers THEN Goto(p, "idle") ELSE Answer(p, outcome)

(* Statements on an operation row *)

\* UPDATE ... WHERE state IN from: takes effect only there, and moves updated_at.
Transition(m, to) ==
    /\ opState' = [opState EXCEPT ![m] = to]
    /\ opOld' = [opOld EXCEPT ![m] = FALSE]
    /\ readers' = [readers EXCEPT ![m] = {}]

-----------------------------------------------------------------------------
(* The caller hears the appointment and its time, under a reference *)

ListAppointment(r) ==
    /\ heard[r] = Nil
    /\ row.active
    /\ heard' = [heard EXCEPT ![r] = row.start]
    /\ UNCHANGED <<claimVars, row, consumed, ops, provider, local, pc, reply, crashes>>

-----------------------------------------------------------------------------
(* move(): resolve the reference, read the row, settle what is unfinished *)

ReadAppointment(m) == seen' = [seen EXCEPT ![m] =
    [start |-> row.start, active |-> row.active, retry |-> RefOf[m] \in consumed]]

\* A live operation stops the move: busy if fresh, otherwise settled first.
BeginMove(m) ==
    /\ At(m, "start")
    /\ heard[RefOf[m]] # Nil
    /\ ReadAppointment(m)
    /\ \E t \in Times : want' = [want EXCEPT ![m] = t]
    /\ \/ /\ \A j \in Movers : ~Live(j)
          /\ Goto(m, "check")
          /\ UNCHANGED <<job, aged>>
       \/ \E j \in Movers :
             /\ opState[j] = "in_progress" /\ ~opOld[j]
             /\ Answer(m, "busy")
             /\ UNCHANGED <<job, aged>>
       \/ \E j \in Movers :
             /\ Live(j)
             /\ opState[j] = "in_progress" => opOld[j]
             /\ job' = [job EXCEPT ![m] = j]
             /\ aged' = [aged EXCEPT ![m] = opOld[j]]
             /\ Goto(m, IF opState[j] = "provider_moved" THEN "verify" ELSE "settle")
    /\ UNCHANGED <<claimVars, store, ops, provider, crashes>>

\* The refusals between reading the row and owning it; slot_problem may refuse too.
CheckMove(m) ==
    /\ At(m, "check")
    /\ LET s == seen[m]
           stop == IF s.retry THEN {IF s.start = want[m] THEN "already_there" ELSE "changed"}
                   ELSE IF ~s.active THEN {"not_eligible"}
                   ELSE IF s.start = want[m] THEN {"already_there"}
                   ELSE IF heard[RefOf[m]] # s.start THEN {"changed"}
                   ELSE {"not_free", "none"}
       IN \E r \in stop : IF r = "none" THEN Goto(m, "own") ELSE Answer(m, r)
    /\ UNCHANGED <<claimVars, store, ops, provider, local, crashes>>

(* Own it, re-read it, record it, then move it *)

Own(m) ==
    /\ At(m, "own")
    /\ IF Free
       THEN /\ AcquireReschedule(m, m)
            /\ Goto(m, "reread")
       ELSE Answer(m, "busy") /\ UNCHANGED claimVars
    /\ UNCHANGED <<store, ops, provider, local, crashes>>

\* The INSERT raised: it may have landed, and nobody keeps its token.
OwnRaises(m) ==
    /\ At(m, "own")
    /\ AcquireReschedule(m, m) \/ UNCHANGED claimVars
    /\ Answer(m, "temporary")
    /\ UNCHANGED <<store, ops, provider, local, crashes>>

\* Seeded fault: the re-read row is only checked for being active.
RereadStatusOnly(m) ==
    /\ At(m, "reread")
    /\ IF row.active
       THEN Goto(m, "insert") /\ UNCHANGED claimVars
       ELSE Answer(m, "changed") /\ Release(m)
    /\ UNCHANGED <<store, ops, provider, local, crashes>>

Reread(m) ==
    /\ At(m, "reread")
    /\ IF row.active /\ row.start = seen[m].start
       THEN Goto(m, "insert") /\ UNCHANGED claimVars
       ELSE Answer(m, "changed") /\ Release(m)
    /\ UNCHANGED <<store, ops, provider, local, crashes>>

\* The partial unique index allows one live operation per appointment.
InsertOp(m) ==
    /\ At(m, "insert")
    /\ IF \E j \in Movers : Live(j)
       THEN Answer(m, "busy") /\ Release(m) /\ UNCHANGED ops
       ELSE Transition(m, "in_progress") /\ Goto(m, "patch") /\ UNCHANGED claimVars
    /\ UNCHANGED <<store, provider, local, crashes>>

SendPatch(m) ==
    /\ At(m, "patch")
    /\ patch' = [patch EXCEPT ![m] = "inflight"]
    /\ Goto(m, "sent")
    /\ UNCHANGED <<claimVars, store, ops, event, edits, local, crashes>>

\* The access token could not be refreshed, so nothing was sent.
TokenExpired(m) ==
    /\ At(m, "patch")
    /\ Goto(m, "refused")
    /\ UNCHANGED <<claimVars, store, ops, provider, local, crashes>>

\* Seeded fault: an unanswered PATCH is reported as a failure to reach the calendar.
PatchAnsweredCarelessly(m) ==
    /\ At(m, "sent")
    /\ \/ patch[m] = "applied" /\ Goto(m, "moved")
       \/ patch[m] = "refused" /\ Goto(m, "refused")
       \/ Answer(m, "temporary")
    /\ UNCHANGED <<claimVars, store, ops, provider, local, crashes>>

\* An answer; or none, or 408, 409, 429 or 5xx, which settles nothing.
PatchAnswered(m) ==
    /\ At(m, "sent")
    /\ \/ patch[m] = "applied" /\ Goto(m, "moved")
       \/ patch[m] = "refused" /\ Goto(m, "refused")
       \/ Goto(m, "timeout")
    /\ UNCHANGED <<claimVars, store, ops, provider, local, crashes>>

\* Record the provider's acceptance; the UPDATE itself may raise.
RecordMoved(m) ==
    /\ At(m, "moved")
    /\ job' = [job EXCEPT ![m] = m]
    /\ \/ /\ opState[m] = "in_progress"
          /\ Transition(m, "provider_moved")
          /\ Goto(m, "verify") \/ Goto(m, "timeout")
       \/ /\ opState[m] # "in_progress"
          /\ Answer(m, "unknown")
          /\ UNCHANGED ops
       \/ Goto(m, "timeout") /\ UNCHANGED ops
    /\ UNCHANGED <<claimVars, store, provider, aged, seen, want, crashes>>

RecordRefused(m) ==
    /\ At(m, "refused")
    /\ job' = [job EXCEPT ![m] = m]
    /\ IF opState[m] = "in_progress"
       THEN Transition(m, "failed") /\ Goto(m, "release")
       ELSE Answer(m, "failed") /\ UNCHANGED ops
    /\ UNCHANGED <<claimVars, store, provider, aged, seen, want, crashes>>

\* Seeded fault: an unknown outcome gives the appointment up.
RecordUnknownReleases(m) ==
    /\ At(m, "timeout")
    /\ IF opState[m] = "in_progress" THEN Transition(m, "unknown") ELSE UNCHANGED ops
    /\ Release(m)
    /\ Answer(m, "unknown")
    /\ UNCHANGED <<store, provider, local, crashes>>

\* Mark it unknown, read it again and settle it by reading the provider.
RecordUnknown(m) ==
    /\ At(m, "timeout")
    /\ job' = [job EXCEPT ![m] = m]
    /\ aged' = [aged EXCEPT ![m] = FALSE]
    /\ IF opState[m] = "in_progress"
       THEN Transition(m, "unknown") /\ Goto(m, "settle")
       ELSE /\ Goto(m, IF opState[m] = "provider_moved" THEN "verify" ELSE "settle")
            /\ UNCHANGED ops
    /\ UNCHANGED <<claimVars, store, provider, seen, want, crashes>>

-----------------------------------------------------------------------------
(* settle() and _finish_local(), by a mover or a recovery worker *)

ReadEvent(p) ==
    /\ At(p, "settle")
    /\ LET j == job[p] IN
       \/ event.live /\ event.start = want[j] /\ Goto(p, "sawTo")
       \/ event.live /\ event.start = seen[j].start /\ Goto(p, "sawFrom")
       \/ ~(event.live /\ event.start \in {want[j], seen[j].start}) /\ GiveUp(p, "unknown")
    /\ UNCHANGED <<claimVars, store, ops, provider, local, crashes>>

\* The provider could not be read, here or in the verification: still unknown.
ReadFails(p) ==
    /\ At(p, "settle") \/ At(p, "verify")
    /\ GiveUp(p, "unknown")
    /\ UNCHANGED <<claimVars, store, ops, provider, local, crashes>>

\* Seeded fault: the UPDATE does not name the states it may leave.
SettleMovedUnguarded(p) ==
    /\ At(p, "sawTo")
    /\ Transition(job[p], "provider_moved")
    /\ Goto(p, "verify")
    /\ UNCHANGED <<claimVars, store, provider, local, crashes>>

SettleMoved(p) ==
    /\ At(p, "sawTo")
    /\ IF opState[job[p]] \in {"in_progress", "unknown"}
       THEN Transition(job[p], "provider_moved") /\ Goto(p, "verify")
       ELSE GiveUp(p, "unknown") /\ UNCHANGED ops
    /\ UNCHANGED <<claimVars, store, provider, local, crashes>>

\* Seeded fault: a fresh operation is failed too.
SettleNotMovedAtOnce(p) ==
    /\ At(p, "sawFrom")
    /\ IF opState[job[p]] \in {"in_progress", "unknown"}
       THEN Transition(job[p], "failed") /\ Goto(p, "release")
       ELSE GiveUp(p, "unknown") /\ UNCHANGED ops
    /\ UNCHANGED <<claimVars, store, provider, local, crashes>>

\* Only an operation old enough that no request can be in flight is failed.
SettleNotMoved(p) ==
    /\ At(p, "sawFrom")
    /\ IF (p \in Workers \/ aged[p] \/ opOld[job[p]]) /\ opState[job[p]] \in {"in_progress", "unknown"}
       THEN Transition(job[p], "failed") /\ Goto(p, "release")
       ELSE GiveUp(p, "unknown") /\ UNCHANGED ops
    /\ UNCHANGED <<claimVars, store, provider, local, crashes>>

\* release_claim is fenced on the operation's own token; an error is swallowed.
ReleaseFailed(p) ==
    /\ At(p, "release")
    /\ Release(job[p]) \/ UNCHANGED claimVars
    /\ GiveUp(p, "failed")
    /\ UNCHANGED <<store, ops, provider, local, crashes>>

Verify(p) ==
    /\ At(p, "verify")
    /\ LET j == job[p] IN
       IF event.live /\ event.start = want[j]
       THEN Goto(p, "finish") /\ UNCHANGED ops
       ELSE /\ GiveUp(p, "unknown")
            /\ IF opState[j] = "provider_moved"
               THEN Transition(j, "provider_moved") ELSE UNCHANGED ops
    /\ UNCHANGED <<claimVars, store, provider, local, crashes>>

\* calendar_move_finish: row, operation and claim in one transaction.
OwnsFinish(j) ==
    /\ opState[j] = "provider_moved"
    /\ Owns("reschedule", j) /\ claim.op = j

Commit(j) ==
    /\ OwnsFinish(j) /\ row.active
    /\ row' = [row EXCEPT !.start = want[j]]
    /\ Transition(j, "completed")
    /\ Delete

Finish(p) ==
    /\ At(p, "finish")
    /\ LET j == job[p] IN
       \/ Commit(j) /\ Goto(p, "confirm")
       \/ /\ ~(OwnsFinish(j) /\ row.active)
          /\ GiveUp(p, IF OwnsFinish(j) THEN "unknown" ELSE "stale")
          /\ UNCHANGED <<claimVars, row, ops>>
    /\ UNCHANGED <<consumed, heard, provider, local, crashes>>

\* The call raised: the transaction may or may not have committed.
FinishRaises(p) ==
    /\ At(p, "finish")
    /\ Commit(job[p]) \/ UNCHANGED <<claimVars, row, ops>>
    /\ GiveUp(p, "local_pending")
    /\ UNCHANGED <<consumed, heard, provider, local, crashes>>

\* Success needs our row re-read at the new time.  A mover that settled somebody
\* else's operation goes on with its own request from the row it re-reads; one whose
\* own re-read raises treats its move as unknown.
Confirm(p) ==
    /\ At(p, "confirm")
    /\ \/ job[p] = p /\ Goto(p, "timeout") /\ UNCHANGED seen
       \/ IF row.start # want[job[p]]
          THEN GiveUp(p, "unknown") /\ UNCHANGED seen
          ELSE IF p \in Workers
          THEN Goto(p, "idle") /\ UNCHANGED seen
          ELSE IF job[p] = p
          THEN Goto(p, "consume") /\ UNCHANGED seen
          ELSE /\ Goto(p, "check")
               /\ seen' = [seen EXCEPT ![p].start = row.start, ![p].active = row.active]
    /\ UNCHANGED <<claimVars, store, ops, provider, job, aged, want, crashes>>

\* A failure to consume the reference is swallowed.
ConsumeRef(m) ==
    /\ At(m, "consume")
    /\ consumed' \in {consumed, consumed \cup {RefOf[m]}}
    /\ Answer(m, "completed")
    /\ UNCHANGED <<claimVars, row, heard, ops, provider, local, crashes>>

-----------------------------------------------------------------------------
(* The background processor: run_recovery and the orphan sweep *)

\* Seeded fault: recovery looks for unknown outcomes only.
ListStaleUnknown(w) ==
    /\ At(w, "idle")
    /\ \E j \in Movers :
          /\ opState[j] = "unknown" /\ opOld[j]
          /\ job' = [job EXCEPT ![w] = j]
          /\ readers' = [readers EXCEPT ![j] = @ \cup {w}]
    /\ Goto(w, "lease")
    /\ UNCHANGED <<claimVars, store, opState, opOld, provider, aged, seen, want, crashes>>

ListStale(w) ==
    /\ At(w, "idle")
    /\ \E j \in Movers :
          /\ Live(j) /\ opOld[j]
          /\ job' = [job EXCEPT ![w] = j]
          /\ readers' = [readers EXCEPT ![j] = @ \cup {w}]
    /\ Goto(w, "lease")
    /\ UNCHANGED <<claimVars, store, opState, opOld, provider, aged, seen, want, crashes>>

\* UPDATE ... WHERE updated_at is the one this worker read.
Lease(w) ==
    /\ At(w, "lease")
    /\ LET j == job[w] IN
       IF w \in readers[j] /\ Live(j)
       THEN /\ Transition(j, opState[j])
            /\ Goto(w, IF opState[j] = "provider_moved" THEN "verify" ELSE "settle")
       ELSE Goto(w, "idle") /\ UNCHANGED ops
    /\ UNCHANGED <<claimVars, store, provider, local, crashes>>

\* A stale reschedule claim is listed, looked up (twice in the code; operation
\* rows are never deleted, so the second look subsumes the first), and deleted.
ListOrphans(w) ==
    /\ At(w, "idle")
    /\ claim.type = "reschedule" /\ claimOld
    /\ job' = [job EXCEPT ![w] = claim.op]
    /\ Goto(w, "look")
    /\ UNCHANGED <<claimVars, store, ops, provider, aged, seen, want, crashes>>

\* Seeded fault: an operation that cannot be found is taken for a live one.
LookForOpCautiously(w) ==
    /\ At(w, "look")
    /\ Goto(w, "idle")
    /\ UNCHANGED <<claimVars, store, ops, provider, local, crashes>>

LookForOp(w) ==
    /\ At(w, "look")
    /\ Goto(w, IF opState[job[w]] = "none" THEN "sweep" ELSE "idle")
    /\ UNCHANGED <<claimVars, store, ops, provider, local, crashes>>

SweepOrphan(w) ==
    /\ At(w, "sweep")
    /\ ReleaseOrphan(job[w], job[w])
    /\ Goto(w, "idle")
    /\ UNCHANGED <<store, ops, provider, local, crashes>>

-----------------------------------------------------------------------------
(* cancel_appointment: the calendar branch of the tool *)

BeginCancel(c) ==
    /\ At(c, "start")
    /\ heard[RefOf[c]] # Nil
    /\ IF RefOf[c] \in consumed THEN Answer(c, "already_cancelled") ELSE Goto(c, "own")
    /\ UNCHANGED <<claimVars, store, ops, provider, local, crashes>>

OwnCancel(c) ==
    /\ At(c, "own")
    /\ IF Free
       THEN AcquireCancel(c) /\ Goto(c, "reread")
       ELSE Answer(c, "busy") /\ UNCHANGED claimVars
    /\ UNCHANGED <<store, ops, provider, local, crashes>>

OwnCancelRaises(c) ==
    /\ At(c, "own")
    /\ AcquireCancel(c) \/ UNCHANGED claimVars
    /\ Answer(c, "temporary")
    /\ UNCHANGED <<store, ops, provider, local, crashes>>

\* Seeded fault: the claim is held for the reading only.
RereadCancelReleases(c) ==
    /\ At(c, "reread")
    /\ IF row.active THEN Goto(c, "consume") ELSE Answer(c, "inactive")
    /\ Release(c)
    /\ UNCHANGED <<store, ops, provider, local, crashes>>

RereadCancel(c) ==
    /\ At(c, "reread")
    /\ IF row.active
       THEN Goto(c, "consume") /\ UNCHANGED claimVars
       ELSE Answer(c, "inactive") /\ Release(c)
    /\ UNCHANGED <<store, ops, provider, local, crashes>>

\* Two tool calls holding the same reference compete here.
ClaimRef(c) ==
    /\ At(c, "consume")
    /\ IF RefOf[c] \in consumed
       THEN Answer(c, "already_cancelled") /\ Release(c) /\ UNCHANGED consumed
       ELSE /\ consumed' = consumed \cup {RefOf[c]}
            /\ Goto(c, "call") /\ UNCHANGED claimVars
    /\ UNCHANGED <<row, heard, ops, provider, local, crashes>>

\* The statement raised, which is answered like a lost election.
ClaimRefRaises(c) ==
    /\ At(c, "consume")
    /\ consumed' \in {consumed, consumed \cup {RefOf[c]}}
    /\ Answer(c, "already_cancelled") /\ Release(c)
    /\ UNCHANGED <<row, heard, ops, provider, local, crashes>>

DeleteEvent(c) ==
    /\ At(c, "call")
    /\ event' = [event EXCEPT !.live = FALSE]
    /\ Goto(c, "write")
    /\ UNCHANGED <<claimVars, store, ops, patch, edits, local, crashes>>

\* Refused, expired token, or no answer to a delete that may have been applied.
DeleteRaises(c) ==
    /\ At(c, "call")
    /\ \/ UNCHANGED event
       \/ event' = [event EXCEPT !.live = FALSE]
    /\ Goto(c, "undo")
    /\ UNCHANGED <<claimVars, store, ops, patch, edits, local, crashes>>

\* The reference is handed back (a failure to is swallowed), the appointment released.
UndoCancel(c) ==
    /\ At(c, "undo")
    /\ consumed' \in {consumed, consumed \ {RefOf[c]}}
    /\ Release(c)
    /\ Answer(c, "not_cancelled")
    /\ UNCHANGED <<row, heard, ops, provider, local, crashes>>

WriteCancelled(c) ==
    /\ At(c, "write")
    /\ row' = [row EXCEPT !.active = FALSE]
    /\ Goto(c, "release")
    /\ UNCHANGED <<claimVars, consumed, heard, ops, provider, local, crashes>>

ReleaseCancel(c) ==
    /\ At(c, "release")
    /\ Release(c)
    /\ Answer(c, "cancelled")
    /\ UNCHANGED <<store, ops, provider, local, crashes>>

\* Either statement raised, the first perhaps after landing: ownership is kept,
\* for reconciliation.
WriteRaises(c) ==
    /\ At(c, "write") \/ At(c, "release")
    /\ row' \in {row, [row EXCEPT !.active = FALSE]}
    /\ ToReconcile(c, "local_write_failed")
    /\ Answer(c, "cancelled_unrecorded")
    /\ UNCHANGED <<consumed, heard, ops, provider, local, crashes>>

-----------------------------------------------------------------------------
(* cancel_reconcile, on a calendar's claim: it takes the claim over, asks Square
   (these tenants have no Square token, so the answer is "unknown"), and leaves
   the claim as it is.  Nobody holds the token it replaces.                     *)

ReconcileCancel(w) ==
    /\ At(w, "idle")
    /\ TakeOverReconcile(claim.token, claim.token)
    /\ UNCHANGED <<store, ops, provider, local, pc, reply, crashes>>

-----------------------------------------------------------------------------
(* The provider, the merchant, the clock and crashes *)

ApplyPatch(m) ==
    /\ patch[m] = "inflight" /\ event.live
    /\ patch' = [patch EXCEPT ![m] = "applied"]
    /\ event' = [event EXCEPT !.start = want[m]]
    /\ UNCHANGED <<claimVars, store, ops, edits, local, pc, reply, crashes>>

RefusePatch(m) ==
    /\ patch[m] = "inflight"
    /\ \E s \in {"refused", "lost"} : patch' = [patch EXCEPT ![m] = s]
    /\ UNCHANGED <<claimVars, store, ops, event, edits, local, pc, reply, crashes>>

MerchantEdits ==
    /\ edits < MaxEdits
    /\ event.live
    /\ edits' = edits + 1
    /\ event' \in [start : Times, live : BOOLEAN] \ {event}
    /\ UNCHANGED <<claimVars, store, ops, patch, local, pc, reply, crashes>>

SettleLabels == {"settle", "sawTo", "sawFrom", "verify", "finish", "release"}

Resting(p) == pc[p] \in {"start", "done", "crashed", "idle"}

\* Under Prompt a cut-off passes only once everyone at work on the row is done.
AgeClaim ==
    /\ ClaimAges
    /\ Prompt => Resting(claim.token)
    /\ UNCHANGED <<store, ops, provider, local, pc, reply, crashes>>

AgeOp(m) ==
    /\ Live(m) /\ ~opOld[m]
    /\ Prompt => /\ patch[m] # "inflight"
                 /\ Resting(m)
                 /\ \A p \in Procs : job[p] = m => pc[p] \notin SettleLabels
    /\ opOld' = [opOld EXCEPT ![m] = TRUE]
    /\ UNCHANGED <<claimVars, store, opState, readers, provider, local, pc, reply, crashes>>

Crash(p) ==
    /\ crashes < MaxCrashes
    /\ ~Resting(p)
    /\ crashes' = crashes + 1
    /\ Goto(p, IF p \in Workers THEN "idle" ELSE "crashed")
    /\ UNCHANGED <<claimVars, store, ops, provider, local>>

-----------------------------------------------------------------------------
Move(m) ==
    \/ BeginMove(m) \/ CheckMove(m) \/ Own(m) \/ OwnRaises(m) \/ Reread(m) \/ InsertOp(m)
    \/ SendPatch(m) \/ TokenExpired(m) \/ PatchAnswered(m)
    \/ RecordMoved(m) \/ RecordRefused(m) \/ RecordUnknown(m) \/ ConsumeRef(m)

Settle(p) ==
    \/ ReadEvent(p) \/ ReadFails(p) \/ SettleMoved(p) \/ SettleNotMoved(p) \/ ReleaseFailed(p)
    \/ Verify(p) \/ Finish(p) \/ FinishRaises(p) \/ Confirm(p)

Recover(w) ==
    \/ ListStale(w) \/ Lease(w) \/ ListOrphans(w) \/ LookForOp(w) \/ SweepOrphan(w)
    \/ ReconcileCancel(w)

Cancel(c) ==
    \/ BeginCancel(c) \/ OwnCancel(c) \/ OwnCancelRaises(c) \/ RereadCancel(c)
    \/ ClaimRef(c) \/ ClaimRefRaises(c) \/ DeleteEvent(c) \/ DeleteRaises(c)
    \/ UndoCancel(c) \/ WriteCancelled(c) \/ ReleaseCancel(c) \/ WriteRaises(c)

Environment ==
    \/ \E r \in Refs : ListAppointment(r)
    \/ \E m \in Movers : ApplyPatch(m) \/ RefusePatch(m) \/ AgeOp(m)
    \/ MerchantEdits \/ AgeClaim
    \/ \E p \in Procs : Crash(p)

Next ==
    \/ \E m \in Movers : Move(m)
    \/ \E p \in Movers \cup Workers : Settle(p)
    \/ \E w \in Workers : Recover(w)
    \/ \E c \in Cancellers : Cancel(c)
    \/ Environment

Spec == Init /\ [][Next]_vars

\* Requests run on until they stop, crashes aside; the processor's loop comes back
\* every minute; time passes; and the outages of the provider's reads and of the
\* database end.
FairSpec ==
    /\ Spec
    /\ \A m \in Movers : /\ WF_vars(Move(m)) /\ WF_vars(ApplyPatch(m) \/ RefusePatch(m))
                         /\ WF_vars(AgeOp(m))
    /\ \A p \in Movers \cup Workers : WF_vars(Settle(p))
    /\ \A w \in Workers : WF_vars(Lease(w) \/ LookForOp(w) \/ SweepOrphan(w)) /\ SF_vars(ListStale(w))
                         /\ SF_vars(ListOrphans(w)) /\ SF_vars(ReconcileCancel(w))
    /\ \A c \in Cancellers : WF_vars(Cancel(c))
    /\ WF_vars(AgeClaim)
    /\ <>[][\A p \in Movers \cup Workers : ~ReadFails(p) /\ ~FinishRaises(p)]_vars

-----------------------------------------------------------------------------
(* Safety *)

\* Every live operation owns its appointment: whatever a move may still have to
\* settle, no cancellation and no other move can start meanwhile.
LiveOpOwned == \A m \in Movers : Live(m) => Owns("reschedule", m)

\* An appointment nobody owns is at the time the calendar shows.
UnownedAgrees ==
    Free /\ row.active /\ event.live /\ edits = 0 => row.start = event.start

\* What the caller is told is true of the operation it is told about: done means
\* completed, refused means failed, and "nothing has been moved" means that this
\* request sent nothing.
AnswerIsTrue ==
    \A m \in Movers :
        /\ (reply[m] = "completed" => opState[m] = "completed")
        /\ (reply[m] = "failed" => opState[job[m]] = "failed")
        /\ (reply[m] \in {"busy", "changed", "not_free", "temporary"} => patch[m] = "unsent")

\* Our row takes a new time only from the one the caller heard, to the one asked
\* for, and only while the calendar is already there; a cancelled appointment is
\* never moved.
RowMovesAsAgreed ==
    [][row'.start # row.start =>
          /\ row.active
          /\ (edits = 0 => event.live /\ event.start = row'.start)
          /\ \E m \in Movers : /\ opState[m] = "provider_moved"
                              /\ heard[RefOf[m]] = row.start /\ want[m] = row'.start]_vars

\* Our row is only ever written under a claim of the right kind, whoever stalls.
RowWrittenByOwner ==
    [][/\ (row'.start # row.start => claim.type = "reschedule")
       /\ (row'.active # row.active => claim.type = "cancel")]_vars

\* A settled operation stays settled.
OutcomeIsFinal ==
    [][\A m \in Movers : opState[m] \in {"completed", "failed"} => opState'[m] = opState[m]]_vars

(* Liveness *)

\* Whatever stops half-way, an operation is settled by the recovery pass, unless
\* the calendar shows neither of its times: that is left for a person.
Settled == \A m \in Movers : Live(m) ~> (~Live(m) \/ edits > 0 \/ ~event.live)

\* A claim whose operation never landed is swept.
OrphansSwept ==
    \A m \in Movers : Owns("reschedule", m) /\ opState[m] = "none"
                       ~> ~(Owns("reschedule", m) /\ opState[m] = "none")
=============================================================================
