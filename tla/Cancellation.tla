---------------------------- MODULE Cancellation ----------------------------
(***************************************************************************)
(* Cancelling one Square appointment: the cancel tool                      *)
(* (backend/routers/tools.py), a refund (backend/routers/payments.py), the *)
(* queued intent of a refund that could not act                            *)
(* (backend/services/appointment_cancel_intent.py) and the recovery of     *)
(* what they left unresolved (backend/services/cancel_reconcile.py), all   *)
(* competing for the appointment's claim with a reschedule.                *)
(*                                                                         *)
(* Every action is one awaited call.  A claim token is a fresh uuid: here  *)
(* a number nobody holds, so that it is as fresh and the state space stays *)
(* finite.  A failure that escapes a handler with nothing else written is  *)
(* Crash: both leave everything where it was.                              *)
(***************************************************************************)
EXTENDS MutationClaims, Naturals, FiniteSets

CONSTANTS
    Callers, Refs, RefOf,       \* cancel tool calls, and each one's reference
    Refunds,                    \* deliveries of the refund's webhook
    Workers,                    \* background processors (one per backend)
    MAX_ATTEMPTS,               \* webhook_processor: tries before an event fails
    MaxMoves,                   \* bound: reschedules that start
    MaxCrashes                  \* bound: processes that stop mid-way

Requests == Callers \cup Refunds

Procs == Requests \cup Workers

ASSUME ConstantsOK ==
    /\ RefOf \in [Callers -> Refs]
    /\ MAX_ATTEMPTS \in Nat \ {0}
    /\ MaxMoves \in Nat /\ MaxCrashes \in Nat
    /\ Callers \cap Refunds = {} /\ Workers \cap Requests = {}
    /\ IsFiniteSet(Procs)

VARIABLES
    row,        \* is appointments.status still an active one
    booking,    \* is the booking at Square still live (absent counts as not)
    consumed,   \* references whose consumed_at is set
    refunded,   \* is payments.status "refunded"
    intent,     \* webhook_events.status of the intent each refund enqueued
    attempts,   \* webhook_events.attempts
    call,       \* what became of the CancelBooking each process sent last
    pc, reply,  \* where each process is; what a request ended with
    mine,       \* the claim token each process holds
    prev,       \* the token a worker read before its takeover
    job, tries, \* the event a worker handles, and which attempt this is
    move,       \* how far the reschedule that owns the appointment is
    moves, crashes

claims == <<claimVars, mine>>
queue == <<intent, attempts>>
square == <<booking, call>>
worker == <<prev, job, tries>>
moving == <<move, moves>>
vars == <<claims, queue, square, worker, moving, row, consumed, refunded, pc, reply, crashes>>

\* The operation a reschedule claim names; one at a time, so a name is enough.
Op == "op"

\* SQL NULL is no value of a column.
ASSUME NilOK == Nil \notin Nat /\ Nil \notin Refunds /\ Nil \notin Reasons /\ Nil # Op

Labels == {"start", "mark", "load", "own", "who", "enqueue", "reread", "consume",
           "verify", "call", "sent", "ok", "refused", "unknown", "unwritten", "release",
           "done", "crashed", "idle", "event", "markdone", "raise",
           "takeover", "settle", "record", "drop", "return"}

Replies == {"none", "already_cancelled", "busy", "error", "inactive", "unverified",
            "unconfirmed", "refused", "cancelled", "cancelled_unrecorded",
            "duplicate", "not_loaded", "left_to_owner", "enqueued", "already_pending",
            "enqueue_failed", "abandoned"}

CallStates == {"unsent", "inflight", "landed", "refused", "lost"}

InUse == {claim.token} \cup {mine[p] : p \in Procs} \cup {prev[w] : w \in Workers}

Tokens == 0..(2 * Cardinality(Procs) + 2)

Fresh == CHOOSE t \in Tokens : t \notin InUse

TypeOK ==
    /\ ClaimsTypeOK({Op}, Tokens)
    /\ row \in BOOLEAN /\ booking \in BOOLEAN /\ refunded \in BOOLEAN
    /\ consumed \subseteq Refs
    /\ intent \in [Refunds -> {"none", "pending", "done", "failed"}]
    /\ attempts \in [Refunds -> 0..MAX_ATTEMPTS]
    /\ call \in [Procs -> CallStates]
    /\ pc \in [Procs -> Labels]
    /\ reply \in [Requests -> Replies]
    /\ mine \in [Procs -> Tokens \cup {Nil}]
    /\ prev \in [Workers -> Tokens \cup {Nil}]
    /\ job \in [Workers -> Refunds \cup {Nil}]
    /\ tries \in [Workers -> 0..MAX_ATTEMPTS]
    /\ move \in {"none", "owner", "cancelled", "recorded"}
    /\ moves \in 0..MaxMoves /\ crashes \in 0..MaxCrashes

Init ==
    /\ claim = NoClaim /\ claimOld = FALSE
    /\ row = TRUE /\ booking = TRUE /\ refunded = FALSE
    /\ consumed = {}
    /\ intent = [r \in Refunds |-> "none"]
    /\ attempts = [r \in Refunds |-> 0]
    /\ call = [p \in Procs |-> "unsent"]
    /\ pc = [p \in Procs |-> IF p \in Workers THEN "idle" ELSE "start"]
    /\ reply = [p \in Requests |-> "none"]
    /\ mine = [p \in Procs |-> Nil]
    /\ prev = [w \in Workers |-> Nil]
    /\ job = [w \in Workers |-> Nil]
    /\ tries = [w \in Workers |-> 0]
    /\ move = "none" /\ moves = 0 /\ crashes = 0

-----------------------------------------------------------------------------
(* Steps of a process *)

At(p, label) == pc[p] = label

Goto(p, label) == pc' = [pc EXCEPT ![p] = label] /\ UNCHANGED reply

Answer(p, what) ==
    /\ pc' = [pc EXCEPT ![p] = "done"]
    /\ reply' = [reply EXCEPT ![p] = what]

\* The end of a handler: a request answers, a worker settles its event.
End(p, what, next) == IF p \in Workers THEN Goto(p, next) ELSE Answer(p, what)

Forget(p) == mine' = [mine EXCEPT ![p] = Nil]

GiveBack(p) == Release(mine[p]) /\ Forget(p)

HandOver(p, reason) == ToReconcile(mine[p], reason) /\ Forget(p)

-----------------------------------------------------------------------------
(* The cancel tool, second stage: a reference is resolved *)

BeginCancel(c) ==
    /\ At(c, "start")
    /\ IF RefOf[c] \in consumed THEN Answer(c, "already_cancelled") ELSE Goto(c, "own")
    /\ UNCHANGED <<claims, queue, square, worker, moving, row, consumed, refunded, crashes>>

\* The re-read also refuses a row it cannot verify, or that names no booking.
RereadCancel(c) ==
    /\ At(c, "reread")
    /\ \/ row /\ Goto(c, "consume") /\ UNCHANGED claims
       \/ Answer(c, IF row THEN "unverified" ELSE "inactive") /\ GiveBack(c)
    /\ UNCHANGED <<queue, square, worker, moving, row, consumed, refunded, crashes>>

\* A lost election and a raised statement are the same answer.
ClaimRef(c) ==
    /\ At(c, "consume")
    /\ \/ /\ RefOf[c] \notin consumed
          /\ consumed' = consumed \cup {RefOf[c]}
          /\ Goto(c, "verify")
          /\ UNCHANGED claims
       \/ /\ consumed' \in {consumed, consumed \cup {RefOf[c]}}
          /\ Answer(c, "already_cancelled")
          /\ GiveBack(c)
    /\ UNCHANGED <<queue, square, worker, moving, row, refunded, crashes>>

-----------------------------------------------------------------------------
(* A refund: mark the payment, then cancel the appointment *)

\* Both deliveries may read the payment before either marks it.
BeginRefund(r) ==
    /\ At(r, "start")
    /\ IF refunded THEN Answer(r, "duplicate") ELSE Goto(r, "mark")
    /\ UNCHANGED <<claims, queue, square, worker, moving, row, consumed, refunded, crashes>>

MarkRefunded(r) ==
    /\ At(r, "mark")
    /\ refunded' = TRUE
    /\ Goto(r, "load")
    /\ UNCHANGED <<claims, queue, square, worker, moving, row, consumed, crashes>>

LoadAppointment(r) ==
    /\ At(r, "load")
    /\ Goto(r, "own") \/ Answer(r, "not_loaded")
    /\ UNCHANGED <<claims, queue, square, worker, moving, row, consumed, refunded, crashes>>

\* A cancellation that already owns it is trusted to finish; the read may raise.
WhoOwns(r) ==
    /\ At(r, "who")
    /\ \/ claim.type \in {"cancel", "cancel_reconcile"} /\ Answer(r, "left_to_owner")
       \/ Goto(r, "enqueue")
    /\ UNCHANGED <<claims, queue, square, worker, moving, row, consumed, refunded, crashes>>

\* One pending intent per appointment (migration 023); the INSERT may raise.
Enqueue(r) ==
    /\ At(r, "enqueue")
    /\ \/ /\ \A i \in Refunds : intent[i] # "pending"
          /\ intent' = [intent EXCEPT ![r] = "pending"]
          /\ Answer(r, "enqueued")
       \/ /\ \E i \in Refunds : intent[i] = "pending"
          /\ Answer(r, "already_pending")
          /\ UNCHANGED intent
       \/ Answer(r, "enqueue_failed") /\ UNCHANGED intent
    /\ UNCHANGED <<claims, attempts, square, worker, moving, row, consumed, refunded, crashes>>

-----------------------------------------------------------------------------
(* The queued intent: handle(), and the queue's own bookkeeping *)

TakeEvent(w) ==
    /\ At(w, "idle")
    /\ \E r \in Refunds :
          /\ intent[r] = "pending"
          /\ job' = [job EXCEPT ![w] = r]
          /\ tries' = [tries EXCEPT ![w] = attempts[r] + 1]
    /\ Goto(w, "event")
    /\ UNCHANGED <<claims, queue, square, prev, moving, row, consumed, refunded, crashes>>

CheckRow(w) ==
    /\ At(w, "event")
    /\ Goto(w, IF row THEN "own" ELSE "markdone")
    /\ UNCHANGED <<claims, queue, square, worker, moving, row, consumed, refunded, crashes>>

RereadEvent(w) ==
    /\ At(w, "reread")
    /\ IF row THEN Goto(w, "verify") /\ UNCHANGED claims
              ELSE Goto(w, "markdone") /\ GiveBack(w)
    /\ UNCHANGED <<queue, square, worker, moving, row, consumed, refunded, crashes>>

\* Nothing but the row's id guards these updates: two backends may both hold it.
MarkDone(w) ==
    /\ At(w, "markdone")
    /\ intent' = [intent EXCEPT ![job[w]] = "done"]
    /\ Goto(w, "idle")
    /\ UNCHANGED <<claims, attempts, square, worker, moving, row, consumed, refunded, crashes>>

\* Seeded fault: the attempt is not counted.
MarkRetryUncounted(w) ==
    /\ At(w, "raise")
    /\ intent' = [intent EXCEPT ![job[w]] = IF tries[w] >= MAX_ATTEMPTS THEN "failed" ELSE @]
    /\ Goto(w, "idle")
    /\ UNCHANGED <<claims, attempts, square, worker, moving, row, consumed, refunded, crashes>>

MarkRetryOrFailed(w) ==
    /\ At(w, "raise")
    /\ attempts' = [attempts EXCEPT ![job[w]] = tries[w]]
    /\ intent' = [intent EXCEPT ![job[w]] = IF tries[w] >= MAX_ATTEMPTS THEN "failed" ELSE @]
    /\ Goto(w, "idle")
    /\ UNCHANGED <<claims, square, worker, moving, row, consumed, refunded, crashes>>

-----------------------------------------------------------------------------
(* Owning it, and cancelling at Square: shared by all three *)

\* Seeded fault: an intent that meets another owner is done.
BusyIsDone(p) == IF p \in Refunds THEN Goto(p, "who") ELSE End(p, "busy", "markdone")

Busy(p) == IF p \in Refunds THEN Goto(p, "who") ELSE End(p, "busy", "raise")

Own(p) ==
    /\ At(p, "own")
    /\ IF Free
       THEN /\ AcquireCancel(Fresh)
            /\ mine' = [mine EXCEPT ![p] = Fresh]
            /\ Goto(p, IF p \in Refunds THEN "verify" ELSE "reread")
       ELSE Busy(p) /\ UNCHANGED claims
    /\ UNCHANGED <<queue, square, worker, moving, row, consumed, refunded, crashes>>

\* The INSERT raised and may have landed, with a token nobody will present.
OwnRaises(p) ==
    /\ At(p, "own")
    /\ AcquireCancel(Fresh) \/ UNCHANGED claimVars
    /\ IF p \in Refunds THEN Goto(p, "who") ELSE End(p, "error", "raise")
    /\ UNCHANGED <<mine, queue, square, worker, moving, row, consumed, refunded, crashes>>

\* Seeded fault: a booking that cannot be read counts as absent.
VerifyBookingHopefully(p) ==
    /\ At(p, "verify")
    /\ \E next \in {"ok", "refused"} \cup (IF booking THEN {"call"} ELSE {}) : Goto(p, next)
    /\ UNCHANGED <<claims, queue, square, worker, moving, row, consumed, refunded, crashes>>

\* cancel_square_booking reads the booking first, and again for its version.  No
\* token or a booking at another location refuses; an absent one is already gone.
VerifyBooking(p) ==
    /\ At(p, "verify")
    /\ \E next \in {"unknown", "refused"} \cup (IF booking THEN {"call"} ELSE {"ok"}) : Goto(p, next)
    /\ UNCHANGED <<claims, queue, square, worker, moving, row, consumed, refunded, crashes>>

SendCancel(p) ==
    /\ At(p, "call")
    /\ call' = [call EXCEPT ![p] = "inflight"]
    /\ Goto(p, "sent")
    /\ UNCHANGED <<claims, queue, booking, worker, moving, row, consumed, refunded, crashes>>

\* Seeded fault: 429 is taken for a refusal.
CancelAnsweredTooSoon(p) ==
    /\ At(p, "sent")
    /\ \/ call[p] = "landed" /\ Goto(p, "ok")
       \/ Goto(p, "refused")
    /\ UNCHANGED <<claims, queue, square, worker, moving, row, consumed, refunded, crashes>>

\* An answer; or none, or 429 or 5xx, which settles nothing.
CancelAnswered(p) ==
    /\ At(p, "sent")
    /\ \/ call[p] = "landed" /\ Goto(p, "ok")
       \/ call[p] = "refused" /\ Goto(p, "refused")
       \/ Goto(p, "unknown")
    /\ UNCHANGED <<claims, queue, square, worker, moving, row, consumed, refunded, crashes>>

\* The three outcomes.  The tool hands its reference back unless the booking is
\* gone (that statement may raise unnoticed).
GiveRefBack(p) ==
    IF p \in Callers THEN consumed' \in {consumed, consumed \ {RefOf[p]}} ELSE UNCHANGED consumed

\* Seeded fault: an unknown outcome gives the appointment up.
CancelUnknownReleases(p) ==
    /\ At(p, "unknown")
    /\ GiveRefBack(p)
    /\ GiveBack(p)
    /\ End(p, "unconfirmed", "markdone")
    /\ UNCHANGED <<queue, square, worker, moving, row, refunded, crashes>>

CancelUnknown(p) ==
    /\ At(p, "unknown")
    /\ GiveRefBack(p)
    /\ HandOver(p, "provider_outcome_unknown")
    /\ End(p, "unconfirmed", "markdone")
    /\ UNCHANGED <<queue, square, worker, moving, row, refunded, crashes>>

CancelRefused(p) ==
    /\ At(p, "refused")
    /\ GiveRefBack(p)
    /\ GiveBack(p)
    /\ IF p \in Refunds THEN Goto(p, "enqueue") ELSE End(p, "refused", "raise")
    /\ UNCHANGED <<queue, square, worker, moving, row, refunded, crashes>>

WriteCancelled(p) ==
    /\ At(p, "ok")
    /\ row' = FALSE
    /\ Goto(p, "release")
    /\ UNCHANGED <<claims, queue, square, worker, moving, consumed, refunded, crashes>>

ReleaseCancelled(p) ==
    /\ At(p, "release")
    /\ GiveBack(p)
    /\ End(p, "cancelled", "markdone")
    /\ UNCHANGED <<queue, square, worker, moving, row, consumed, refunded, crashes>>

\* The tool's try covers the write and the release, the other two only the write.
WriteRaises(p) ==
    /\ At(p, "ok") \/ (p \in Callers /\ At(p, "release"))
    /\ row' \in {row, FALSE}
    /\ Goto(p, "unwritten")
    /\ UNCHANGED <<claims, queue, square, worker, moving, consumed, refunded, crashes>>

HandOverUnwritten(p) ==
    /\ At(p, "unwritten")
    /\ HandOver(p, "local_write_failed")
    /\ End(p, "cancelled_unrecorded", "markdone")
    /\ UNCHANGED <<queue, square, worker, moving, row, consumed, refunded, crashes>>

\* Anything else that raises: a refund releases, the queue retries.
RefundRaises(r) ==
    /\ pc[r] \in {"verify", "unknown", "refused", "unwritten", "release"}
    /\ GiveBack(r)
    /\ Answer(r, "abandoned")
    /\ UNCHANGED <<queue, square, worker, moving, row, consumed, refunded, crashes>>

HandleRaises(w) ==
    /\ pc[w] \in {"event", "reread", "verify", "unknown", "refused", "unwritten", "release",
              "markdone"}
    /\ Goto(w, "raise")
    /\ Forget(w)
    /\ UNCHANGED <<claimVars, queue, square, worker, moving, row, consumed, refunded, crashes>>

-----------------------------------------------------------------------------
(* cancel_reconcile: settle a claim whose truth was left unresolved *)

\* Seeded fault: only unwritten cancellations are listed.
ListUnwritten(w) ==
    /\ At(w, "idle")
    /\ claim.type = "cancel_reconcile" /\ claim.reason = "local_write_failed" /\ claimOld
    /\ prev' = [prev EXCEPT ![w] = claim.token]
    /\ Goto(w, "takeover")
    /\ UNCHANGED <<claims, queue, square, job, tries, moving, row, consumed, refunded, crashes>>

ListReconcile(w) ==
    /\ At(w, "idle")
    /\ claim.type = "cancel_reconcile" /\ claimOld
    /\ prev' = [prev EXCEPT ![w] = claim.token]
    /\ Goto(w, "takeover")
    /\ UNCHANGED <<claims, queue, square, job, tries, moving, row, consumed, refunded, crashes>>

TakeOverClaim(w) ==
    /\ At(w, "takeover")
    /\ prev' = [prev EXCEPT ![w] = Nil]
    /\ \/ /\ TakeOverReconcile(prev[w], Fresh)
          /\ mine' = [mine EXCEPT ![w] = Fresh]
          /\ Goto(w, "settle")
       \/ /\ ~(Owns("cancel_reconcile", prev[w]) /\ claimOld)
          /\ Goto(w, "idle")
          /\ UNCHANGED claims
    /\ UNCHANGED <<queue, square, job, tries, moving, row, consumed, refunded, crashes>>

\* Read Square: unreadable, or live against a recorded cancellation, changes nothing.
ReadBooking(w) ==
    /\ At(w, "settle")
    /\ IF booking
       THEN IF claim.reason = "local_write_failed"
            THEN Goto(w, "idle") /\ Forget(w)
            ELSE Goto(w, "return") /\ UNCHANGED mine
       ELSE Goto(w, "record") /\ UNCHANGED mine
    /\ UNCHANGED <<claimVars, queue, square, worker, moving, row, consumed, refunded, crashes>>

\* The booking could not be read, or the row not written: later, perhaps.
ReconcileFails(w) ==
    /\ pc[w] \in {"settle", "record", "drop", "return"}
    /\ Goto(w, "idle")
    /\ Forget(w)
    /\ UNCHANGED <<claimVars, queue, square, worker, moving, row, consumed, refunded, crashes>>

RecordCancelled(w) ==
    /\ At(w, "record")
    /\ row' = FALSE
    /\ Goto(w, "drop")
    /\ UNCHANGED <<claims, queue, square, worker, moving, consumed, refunded, crashes>>

DropClaim(w) ==
    /\ At(w, "drop")
    /\ GiveBack(w)
    /\ Goto(w, "idle")
    /\ UNCHANGED <<queue, square, worker, moving, row, consumed, refunded, crashes>>

\* The new token is generated inside the call and kept by nobody.
ReturnClaim(w) ==
    /\ At(w, "return")
    /\ ReturnToCancel(mine[w], Fresh)
    /\ Forget(w)
    /\ Goto(w, "idle")
    /\ UNCHANGED <<queue, square, worker, moving, row, consumed, refunded, crashes>>

-----------------------------------------------------------------------------
(* A reschedule owns the appointment meanwhile (SquareReschedule): it cancels the
   source and records that, or ends with the source as it was.               *)

others == <<mine, queue, call, worker, consumed, refunded, pc, reply, crashes>>

MoveBegins ==
    /\ moves < MaxMoves /\ row
    /\ AcquireReschedule(Op, Fresh)
    /\ move' = "owner" /\ moves' = moves + 1
    /\ UNCHANGED <<others, row, booking>>

MoveCancelsSource ==
    /\ move = "owner"
    /\ booking' = FALSE /\ move' = "cancelled"
    /\ UNCHANGED <<claimVars, others, row, moves>>

MoveRecordsSource ==
    /\ move = "cancelled"
    /\ row' = FALSE /\ move' = "recorded"
    /\ UNCHANGED <<claimVars, others, booking, moves>>

MoveReleases ==
    /\ move \in {"owner", "recorded"}
    /\ Release(claim.token)
    /\ move' = "none"
    /\ UNCHANGED <<others, row, booking, moves>>

-----------------------------------------------------------------------------
(* Square, the clock and crashes *)

LandCancel(p) ==
    /\ call[p] = "inflight"
    /\ call' = [call EXCEPT ![p] = "landed"]
    /\ booking' = FALSE
    /\ UNCHANGED <<claims, queue, worker, moving, row, consumed, refunded, pc, reply, crashes>>

\* Refused (a stale version, say), or never arrived.
RefuseCancel(p) ==
    /\ call[p] = "inflight"
    /\ \E s \in {"refused", "lost"} : call' = [call EXCEPT ![p] = s]
    /\ UNCHANGED <<claims, queue, booking, worker, moving, row, consumed, refunded, pc, reply,
                   crashes>>

Resting(p) == pc[p] \in {"start", "done", "crashed", "idle"}

\* The cut-off may pass while the claim's owner, or its call, is still at work.
AgeClaim ==
    /\ ClaimAges
    /\ UNCHANGED <<mine, queue, square, worker, moving, row, consumed, refunded, pc, reply, crashes>>

Crash(p) ==
    /\ crashes < MaxCrashes
    /\ ~Resting(p)
    /\ crashes' = crashes + 1
    /\ Goto(p, IF p \in Workers THEN "idle" ELSE "crashed")
    /\ Forget(p)
    /\ prev' = [w \in Workers |-> IF w = p THEN Nil ELSE prev[w]]
    /\ UNCHANGED <<claimVars, queue, square, job, tries, moving, row, consumed, refunded>>

-----------------------------------------------------------------------------
CancelAtProvider(p) ==
    \/ Own(p) \/ OwnRaises(p) \/ VerifyBooking(p) \/ SendCancel(p) \/ CancelAnswered(p)
    \/ CancelUnknown(p) \/ CancelRefused(p) \/ WriteCancelled(p) \/ ReleaseCancelled(p)
    \/ WriteRaises(p) \/ HandOverUnwritten(p)

Caller(c) == BeginCancel(c) \/ RereadCancel(c) \/ ClaimRef(c)

Refund(r) ==
    \/ BeginRefund(r) \/ MarkRefunded(r) \/ LoadAppointment(r) \/ WhoOwns(r) \/ Enqueue(r)
    \/ RefundRaises(r)

HandleEvent(w) ==
    CheckRow(w) \/ RereadEvent(w) \/ MarkDone(w) \/ MarkRetryOrFailed(w) \/ HandleRaises(w)

Reconcile(w) ==
    \/ TakeOverClaim(w) \/ ReadBooking(w) \/ ReconcileFails(w)
    \/ RecordCancelled(w) \/ DropClaim(w) \/ ReturnClaim(w)

Reschedule == MoveBegins \/ MoveCancelsSource \/ MoveRecordsSource \/ MoveReleases

Environment ==
    \/ \E p \in Procs : LandCancel(p) \/ RefuseCancel(p) \/ Crash(p)
    \/ AgeClaim

Next ==
    \/ \E p \in Procs : CancelAtProvider(p)
    \/ \E c \in Callers : Caller(c)
    \/ \E r \in Refunds : Refund(r)
    \/ \E w \in Workers : TakeEvent(w) \/ HandleEvent(w) \/ ListReconcile(w) \/ Reconcile(w)
    \/ Reschedule
    \/ Environment

Spec == Init /\ [][Next]_vars

\* Requests and reschedules run on until they stop, crashes aside; the processor's
\* loop comes back to the queue and to the claims; time passes; and the reconciler's
\* outages end.
FairSpec ==
    /\ Spec
    /\ \A p \in Procs : WF_vars(CancelAtProvider(p)) /\ WF_vars(LandCancel(p) \/ RefuseCancel(p))
    /\ \A c \in Callers : WF_vars(Caller(c))
    /\ \A r \in Refunds : WF_vars(Refund(r))
    /\ \A w \in Workers :
          /\ WF_vars(HandleEvent(w)) /\ WF_vars(Reconcile(w))
          /\ SF_vars(TakeEvent(w)) /\ SF_vars(ListReconcile(w))
    /\ WF_vars(MoveRecordsSource \/ MoveReleases)
    /\ WF_vars(AgeClaim)
    /\ <>[][\A w \in Workers : ~ReconcileFails(w)]_vars

-----------------------------------------------------------------------------
(* Safety *)

CancelOwner == claim.type \in {"cancel", "cancel_reconcile"}

Abandoned == \E r \in Refunds : reply[r] = "abandoned"

\* An appointment nobody owns, and that we still call active, has its booking:
\* an unknown or unrecorded cancellation keeps its claim until Square is read.
\* (A refund whose hand-over raises does let go, against that rule: README, Findings.)
UnownedAgrees == Free /\ row /\ ~Abandoned => booking

\* We never call an appointment cancelled while its booking is live.
CancelledIsGone == ~row => ~booking

\* A queued intent is finished only when the row says cancelled, or while a
\* cancellation still owns the appointment.
IntentNotDropped == \A r \in Refunds : intent[r] = "done" => ~row \/ CancelOwner

\* What the caller is told is so: cancelled means gone, refused means that this
\* request's own cancellation can no longer land.
AnswerIsTrue ==
    \A c \in Callers :
        /\ reply[c] \in {"cancelled", "cancelled_unrecorded"} => ~booking
        /\ reply[c] = "refused" => call[c] \notin {"inflight", "landed"}

(* Liveness *)

\* A claim left for reconciliation does not stay one.
ReconcileSettles == claim.type = "cancel_reconcile" ~> claim.type # "cancel_reconcile"

\* A queued intent ends done or, after MAX_ATTEMPTS tries, failed.
IntentsEnd == \A r \in Refunds : intent[r] = "pending" ~> intent[r] \in {"done", "failed"}
=============================================================================
