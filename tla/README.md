# Verification of the Open Lines backend

TLA+ specifications of the state the Open Lines backend (`src/backend`) keeps in more than
one place, small instances of them for TLC, and proofs for TLAPS. Paths below are relative
to `src/backend/` unless they start with `migrations/` or `docs/`.

Open Lines answers the phone for small businesses. While a call is running, an
assistant calls tools of the backend (`routers/tools.py`) that book, move and cancel
appointments in Google Calendar, Outlook or Square; Stripe, Square, Twilio and Vapi
call webhooks; one background task per backend process
(`services/webhook_processor.py`) works through durable queues and repairs what
requests left half-done; signup and daily jobs buy phone numbers and give them back. All
durable state is in one Postgres database reached through single HTTP statements
(PostgREST), so **every statement is atomic and nothing larger is**, and any two awaited
calls of two requests may interleave. What the database says must nevertheless follow
what Google, Square, Stripe, Twilio and Vapi did, though their answers are lost, late or
repeated. That is where the hard part of this program lies, and what these modules model.

## 1. Inventory

| Component (main sources) | State it keeps | Operations | What makes it correct | Module |
|---|---|---|---|---|
| Mutation ownership (`db/mutation_claims.py`, `services/mutation_ownership.py`, migrations 021, 047) | one claim row per appointment: type, operation, token, time, reason | acquire, release, to and from reconciliation, take over, sweep orphans | one owner at a time; a process that lost the row changes nothing | `MutationClaims` |
| Calendar move (`services/calendar_reschedule.py`, `db/calendar_moves.py`, migration 046) | operation row, appointment row, the provider's event | own, re-read, insert, PATCH, record, settle, finish, recover | row and event agree whenever nobody owns the appointment | `CalendarMove` |
| Cancellation (`routers/tools.py`, `routers/payments.py`, `services/appointment_cancellation.py`, `appointment_cancel_intent.py`, `cancel_reconcile.py`) | claim, row, booking, reference, queued intent | cancel tool, refund, queued intent, reconciliation | cancelled only when gone; an unknown outcome stays owned until it is read | `Cancellation` (Square), `CalendarMove` (calendars) |
| Square replacement reschedule (`services/reschedule.py`, `reschedule_execute.py`, `reschedule_intent.py`, `db/reschedule_ops.py`, migrations 018, 020, 022) | operation row, claim, slot, replacement row, two bookings | freeze, gate, create, record, cancel, complete, recover | the new booking first, never two, never none | `SquareReschedule`, `Switch` |
| Booking and replacing within a call (`services/booking_claims.py`, `routers/tools.py`, migrations 045, 026) | one claim row per slot and call, appointments, calendar events | acquire, take over after 90 s, check, create, probe, complete, fail; replace | one event per slot; the old booking goes only for a new one | `CallBooking` |
| Usage ledger (`services/usage.py`, migration 042) behind the durable queue (`services/webhook_processor.py`, `db/supabase.py`) | events, ledger rows, the tenant's counters, Stripe's meter | record, report, retry, review, roll the period over | counters equal the ledger; each minute billed once | `UsageLedger` |
| Regulatory resources (`services/regulatory_engine.py`, `provider_claims.py`, `db/regulatory.py`, migrations 027, 030) | a claim per scope, its lease, the resource it names, Twilio's resources | find, claim, look up by marker, create, attach, detach, withdraw | one resource per scope, never a lost one named, no scope left shut | `ProviderClaims` |
| Billing and trial (`routers/billing.py`, `services/trial.py`, `account_state.py`, `routers/admin.py`, migrations 010, 040) | plan, subscription and pending columns; Stripe's subscriptions and events | buy, transition, confirm, webhooks, end of trial, the admin's grants | apart from the admin's writes access changes only for money; nobody is billed twice | `Billing` |
| Phone numbers (`services/provisioning.py`, `phone_registry.py`, `phone_lifecycle.py`, `number_reclaim.py`, `retention.py`, `db/phone_numbers.py`) | number at Twilio, record at Vapi, canonical row, the tenant's pointers | buy at signup, reprovision, sweep, admin release, purge | calls never ring at a stranger's; the books never run ahead of Twilio; what is due is given back | `NumberLifecycle` |
| Slot offers, appointment references (`services/slot_offers.py`, `appointment_refs.py`, migrations 016, 017) | `consumed_at`, `booking_id` | offer, claim, release, consume | a booked time is not offered again | in the modules that use them |
| Square in-place deposit move (`services/square_inplace_reschedule.py`, migration 047) | operation, claim, booking | the claim protocol by UpdateBooking, behind a validation scope | deposit stays with its row | not modelled |
| Square webhooks (`services/square_booking.py`, `square_booking_reconcile.py`, `square_webhook_*.py`) | mirror rows, versions | deliver, resolve, mirror | never undo a newer write | not modelled |
| Deposit confirmation (`routers/payments.py`) | payment, confirmation claim | own, confirm, notify | confirms the time the payer saw | not modelled |
| Payment customer session (`services/payment_customer.py`, `db/payment_sessions.py`, migrations 034, 035) | session, attempt, customer | claim, mark, create, attach, recover | one Stripe customer per onboarding | not modelled |
| Customer identity, call routing, relative dates, integrations, e-mail, assistant, knowledge, frontend | little or none of their own | lookups, matching, text, I/O | unit tests reach it | not modelled |

How they interact: every mutation of an existing appointment (move, cancel,
refund, queued intent, recovery) first inserts the appointment's **claim**; a request
that crashes leaves the claim, and the processor finds it by its age
(`RECONCILE_STALE_SECONDS`, 120 s). The durable queue carries the refund's cancellation
intents and the calls the usage ledger records. Billing's webhooks start the usage
ledger's periods and decide, by the subscription's status, which phone numbers fall due.
Providers are called between statements, with timeouts of 15-20 s, so an answer may be
lost and a call may land late. What is hard is listed, line by line, in `PROJECT.json`
under `hazards`.

## 2. Modules

    MutationClaims            the claim row: one operator per SQL statement
      |-- CalendarMove        move and cancel on Google / Outlook
      |     |-- MCCalendarMove, CalendarMoveProofs
      |-- Cancellation        cancel on Square: tool, refund, intent, reconciler
      |     |-- MCCancellation, CancellationProofs
      |-- SquareReschedule    move on Square: request, recovery worker, sweep
            |-- MCSquareReschedule, SquareRescheduleProofs
            |-- implements Switch
    CallBooking               book and replace in one call    (MCCallBooking, CallBookingProofs)
    UsageLedger               minutes, overage, the queue     (MCUsageLedger, UsageLedgerProofs)
    ProviderClaims            Twilio's regulatory resources   (MCProviderClaims, ProviderClaimsProofs)
    Billing                   Stripe's subscriptions          (MCBilling, BillingProofs)
    NumberLifecycle           Twilio, Vapi and the books      (MCNumberLifecycle, NumberLifecycleProofs)

The three appointment modules EXTEND `MutationClaims` and add their own tables, their
processes' program counters and the provider. Each of them models one appointment, because
the claim's primary key, the operation's unique index and the replacement's unique index
are all per appointment; the other modules model one call, one tenant or one scope for the
same reason. Conventions common to all:

- A **process** is a request or a background worker. **An action is one awaited call**
  with the code up to the next one, so processes interleave exactly where the code
  awaits. An exception is a disjunct of the call that raises; a statement that raises
  may have landed or not.
- A process may stop anywhere (`Crash`, `Stop`). Constants named `Max...` bound how often
  things go wrong, and nothing else: crashes, faults, lapses, edits, attempts.
- A provider call is *sent*, then *applied or refused* by the provider, then *answered*;
  the answer may be missing while the call is still in flight, so it can land after the
  process went on.
- Ages: `claimOld`, `opOld`, `old` and `fresh` say whether a row's time is past the
  cut-off. With **`Prompt = TRUE`** the cut-off passes only when the row's holder has
  stopped and its calls have been answered or lost: the code's own assumption, justified
  by 15-20 s timeouts against 90-120 s. With `Prompt = FALSE` a process may stall for as
  long as it likes. What needs `Prompt` is checked under it and what does not is checked
  without. `ProviderClaims` counts a lease that lapses under a working holder as a fault.
- Tokens are uuids: the request's name, or a number that nobody holds, which is as fresh
  and keeps the state space finite. Timestamps compared for equality
  (`updated_at`) are treated alike.
- Operators whose comment says "seeded fault" are deliberately wrong variants of the
  definition that follows them. No specification uses them; `PROJECT.json` pairs each
  with the property that must fail when it replaces the right one.

`MutationClaims` - `claim` is the row of `appointment_mutation_claims`, `NoClaim` its
absence. `ClaimRows` are migration 021's CHECK constraints.

`CalendarMove` - `row`, `consumed`, `heard`, `opState`, `opOld`, `readers` are columns;
`event` is the provider's; `patch` is each mover's PATCH. `Move` is
`calendar_reschedule.move_appointment`, `Settle` is `settle` with `_finish`, `Recover`
the worker's passes, `Cancel` the cancel tool's Google/Outlook branch.

`Cancellation` - `Caller` is the Square branch of `cancel_appointment`; `Refund` is
`_process_refund`; `HandleEvent` is the queued intent with its attempts; `Reconcile` is
`reconcile_one`; `Reschedule` is a coarse competitor that drops the booking as
`SquareReschedule` does.

`SquareReschedule` - `Freeze` is `begin_reschedule` and the hand-over in
`reschedule_intent.py`; `Execute` is `run_operation`, by the request or a worker;
`Recover` is `run_reschedule_recovery` with `cleanup_orphan_reschedule_claims`; `Cancel`
is a coarse cancellation. An operation is named by the request that inserted it and so
is its booking: the stored idempotency key makes every replay the same booking. The
fingerprint (version, start, location) is one `version`. Left out: the spending of the
reference at the very end, a 2xx answer of CreateBooking that cannot be parsed, and
Square's webhook, which writes the row without owning it.

`Switch` - the promise: book, record, drop the old one, close the row.

`CallBooking` - `claim` is the call's rows of `call_booking_claims` by slot, with the
attempt that names the event: an event's id is a digest of slot and attempt, so a repeat of
the same attempt is a conflict at Google and a second event at Outlook (`Google`). `pc`
walks `_calendar_book` (check, claim, check again, create, probe when the answer is
missing, insert the appointment, complete the claim) and, for a replacement, `replace_booking`
around it: own the old booking, book the new one, cancel the old one, hand what is
unknown to reconciliation. `Keep` is the caller's answer that both bookings are wanted.
An insert may be carried out, be refused (by the calendar or by an expired token, whatever an
earlier request of the attempt has made), or go unanswered and `Land` at any time later,
after the read-back too. `slipped` marks a slot whose claim was marked failed, or settled by
another attempt's appointment, while its event was there or on its way.

`UsageLedger` - `event` is `webhook_events`, which a backend reads without claiming; `row`
and `tenant` are changed by migration 042's two functions, each one action because it locks
the tenant's row; `meter` is what Stripe counts, with the identifier it remembers for
`Dedupe`. Periods and times are numbers: a period by its index, a time as an age.

`ProviderClaims` - `claim` is the claim row with its lease (`fresh`), `col` the column a
profile or address keeps beside it, `res` Twilio's resources. The `kind`s differ as
in the code: an address is its own claim, a document's column is overwritten, a Bundle is
fetched once more after it is in hand (`Refetch`), and a filed one that its claim names may
not be replaced. `filed_before` is a Bundle filed before there were claims; it may be, because
no claim names it (finding 22). Twilio's refusal of a create is a free step: one code is a
verdict, every other one is looked into and answered "unavailable" (`CreateRefused`, `Again`,
`Release`). An error other than a 404 on a fetch or a list is no answer, and budgeted.

`Billing` - `acct` is the tenant row, `subs` Stripe's subscriptions with the idempotency
key each was created under, `events` the webhooks on their way in any order, `job` a
request or a webhook being handled. `Transition`, `Buy`, `Confirm`, `Deliver` and
`Convert` start one; `Check` to `Note` are its steps; `Pay`, `Expire`, `TrialEnds` and
`Later` are the customer and Stripe; `SetComp`, `AskPlan` and `SetPlan` are the admin, who gives
and takes complimentary and manual access at any time (PATCH /comp, PATCH /plan). `crossed` marks
the histories in which two purchases ran at once, which no design without a lock can order;
those in which a purchase that has been paid is cancelled (finding 25); and those in which the
admin takes the access away while a transition is under way, which opens /create-subscription for
a second one (finding 27). The properties that exempt them say so. The end of a trial is one
step: at Stripe it is active and then past due, and those two events in the wrong order are
not covered.

`NumberLifecycle` - `twilio` says which sub-account holds a number, `vapi` which records
exist, `rows` is `tenant_phone_numbers`, `tenant` the tenant row with its pointers, `req`
what each request read and how far it is. `ReadTenant` to `ClearTenant` is
`release_tenant_number`, for the sweep, an admin and the purge alike; `Begin` to `Finish`
is a purchase by signup or by an admin's reprovision; `Undo` is the signup's rollback.
`blind` remembers the numbers that were given back by somebody who did not look at their
Vapi record.

## 3. Runs

| Run | Question | Bounds |
|---|---|---|
| `move_safety` | two moves and a cancellation, a worker, a crash, in one call or two: ownership, outcomes, answers, agreement of row and event | 2 movers, 1 canceller, 1 worker, 3 times, 1 crash, `Prompt`; 1.7M states |
| `move_live` | half-done moves are settled, orphan claims swept | 1 mover, 1 canceller, 1 worker, 1 edit, 2 crashes; 0.1M |
| `cancel_safety` | a caller, two deliveries of a refund, an intent two backends may both hold, the reconciler, a reschedule, a crash | 2 workers (`Apart`), 2 attempts, 1 reschedule, 1 crash; 0.8M |
| `cancel_live` | unresolved cancellations are settled, intents end | 1 caller, 1 refund, 1 crash; 0.2M |
| `square_safety` | two requests for the same slot, a worker, an edit, a cancellation, a crash: one booking, true answers, the source dropped by its owner | `Prompt`, requests interchangeable; 0.8M |
| `square_stalls` | with stalls: still implements `Switch` | 1 mover, 1 worker; 2.1M |
| `square_live` | an owned appointment is given back or parked | 1 mover, 1 worker, 2 crashes; 0.1M |
| `booking` | tries of a booking and of its replacement: one event per slot, bookings written, new before old | 2 bookers, 2 replacers, 2 times, 2 upsets, `Prompt`; 0.5M |
| `usage` | two backends on the same events, a rollover, an outage: counters, billing, and that every overage ends | 2 calls, 2 backends, 1 rollover, 1 upset; 0.2M |
| `claims` | three requests for one scope of each kind: one identity, no duplicate, no scope poisoned | 3 requests, 3 resources and an older one, 2 faults, 2 deletions by hand; 0.4M |
| `billing` | two requests, webhooks and an admin over three subscriptions: who pays, who is served | 2 jobs, 3 subscriptions, 2 plans, 1 window, 1 later change or admin's write, 1 fault; 2.1M |
| `numbers` | a signup, a reprovision, the sweep and the purge: Vapi first, books, what is due | 2 numbers, 4 requests, 1 fault; 0.4M |

Why these bounds are enough for the interesting cases: two requests give every race for a
claim, a slot, an event or a row, and a third only waits, except in `claims`, where the
third is what can adopt or create between the other two; one worker with a crashed or
stalled request gives every takeover, and its own crash (or second pass) gives the
takeover of a takeover; one edit separates a frozen version from the live one; three
times separate "from", "to" and neither; two attempts separate a retry from the last one.
In `cancel_safety` two backends work at once only while the second delivery is still to
come and nothing has stopped (`Apart`), and states that differ in what nobody reads again
count as one (`StillRead`). In `usage` the second recorded call goes over the allowance
whichever it is, and the ages 1, 1 and 2 keep the order of 5 minutes, 23 and 24 hours. In
`billing` two plans are what two requests need to cross, a third subscription is the one
bought after a crossing or an expiry, and one fault separates lost from landed;
`Separately` keeps the crossing apart from the other complications, because the properties
exempt what follows it. In `numbers` two numbers are the old and the new one, an admin's
release is left to the sweep's steps (the same without its test of the date, which the
purge also skips), and one fault
makes any one of the four steps fail, or land without saying so. Most runs turn deadlock
checking off because requests may all have been answered with nothing left to do.

**Safety.** For appointments `LiveOpOwned` and `UnownedAgrees` are the heart: as long as
our records and the provider may disagree, the appointment has an owner, so nobody else
can act on it and recovery can find it; `SourceDroppedByOwner` says the same of a call
still on its way. `BookedOnce`, `OneEventPerSlot`, `BookedIsWritten`, `NewFirst` and
`CancelledIsGone` are about what the customer ends up with, `AnswerIsTrue` about what the
caller is told, `IntentNotDropped` about a refund's cancellation. `RowMovesAsAgreed`,
`RowWrittenByOwner` and `OutcomeIsFinal` say what a step may never do.
`CountersMatchLedger`, `BilledOnce` and `SettledStays` are the ledger's account of the
minutes; `OneIdentity`, `NoDuplicate`, `RetiredIsGone` and `WinnerIsKept` that claims and
Twilio agree, `NoScopeIsPoisoned` that no lease or refusal left behind blocks a scope; `OneLive`,
`CompEndsPaid`, `PaidIsFinished` and `UnpaidIsCut` that money and access agree; `VapiFirst` and
`BooksFollowTwilio` that the places a number lives in are left in the right order.

Where the code does not keep a property in a state it can reach, the property exempts
that state by name, and the findings say so: `Abandoned` (a refund whose hand-over raised,
finding 15), `RefusedLate` (a replay refused after an earlier try had booked, 7), `slipped` (a
booking claim let go of while its event was there or on its way, 11 to 14), `crossed` (two
purchases under different keys, a paid one cancelled, access taken away meanwhile, 24 to 27),
`blind` (numbers given back without looking at Vapi, 29 and 36). `unknown` sets aside calls counted
before any period start was known. `OneLive` also sets aside a fault: a
creation whose answer is lost before the customer picks another plan; `UnpaidIsCut` too: the
write that says past due may be the one that was lost; `NoDuplicate` and
`WinnerIsKept` set aside deletions by hand at Twilio (`vanished`), and the first also lost
answers and lapsed leases (`faults`). `NoScopeIsPoisoned` speaks of a request that is alone and
whose fetches and lists are answered; refusals are among what it is told. `CompEndsPaid` leaves
out the admin's own write, the step that spends `changes`. No property is about a Bundle filed
before the claims and gone at Twilio: what becomes of it is finding 22, and its states are in
the run.

**Liveness and fairness.** Weak fairness of a request's steps (the event loop runs what
is ready), of the provider's answer (the HTTP timeouts) and of time; strong fairness
only where the worker's loop alternates between passes, each of which it runs every
60 s whatever it met (`webhook_processor.py:442-519`); and "outages end": from some
point on, reads of the provider and statements of recovery do not fail. Nothing
guarantees that a crashed request continues. Without the last assumption no retry loop
terminates, and the code claims no more. `usage` assumes the backends' loops and time;
outages are bounded by `MaxUpsets`. `numbers` assumes only that the daily sweep runs and goes
on to its end unless its process stops: no signup, admin or purge need ever move.

## 4. Proofs

Everything below holds for any number of processes and of the things they work on, from
the named assumptions of each module (that sets of names are disjoint, that bounds are
numbers). Each is proved from an inductive invariant, most of them in layers, with a lemma per action and a step
per conjunct it can disturb.

`CalendarMoveProofs`, invariant `IInv`:

- `TypeCorrect`: `Spec => []TypeOK`.
- `LiveMovesOwn`: `Prompt => (Spec => []LiveOpOwned)`.
- `OwnersWrite`: `Spec => RowWrittenByOwner`, stalls included.
- `OutcomesAreFinal`: `Spec => OutcomeIsFinal`, stalls included.
- `UnownedStands`: `Prompt => (Spec => []UnownedAgrees)`.
- `CallersHearTheTruth`: `Prompt => (Spec => []AnswerIsTrue)`.
- `MovesAsAgreed`: `Prompt => (Spec => RowMovesAsAgreed)`.

`TypeOK` alone is not inductive: that an
outcome is final needs `NotYetInserted` (a mover before its INSERT has no row, so the
INSERT overwrites none), which needs the program counter and the job of a mover that
settles somebody else's operation; that a cancelled row was written under a cancel
claim needs `CancelOwned`; that a live operation keeps its claim needs that releases are
of failed operations (`ReleasesFailed`) and, under `Prompt`, that the owner of a stale
claim has stopped (`StaleOwnerStopped`), so the sweep never meets an operation on its
way to the table (`SweptStopped`, `InsertOwned`). TLC checks the two action properties
under `Prompt` only; that stalls do not break them is this proof's.

The last three rest on a second invariant, `IInv2`, which says where the event is while a
move is under way. What passes a cut-off is over (`OldStopped`), so nobody but its own
request touches an operation whose PATCH may still be answered (`LeftAlone`), and whoever
fails an operation fails one whose PATCH can no longer land. Hence an event that nobody
edited by hand is where the live operation's PATCH put it, or where that operation found
it, and with no live operation it is where our row says (`Placed`); what a settler read of
it stays a proof of one or the other until it acts on it (`SeenSo`), because the only PATCH
that could change it is that operation's own. The row keeps the old time until the
operation is written (`RowKept`), and a move starts from the time its caller heard
(`HeardTime`). TLC checked this invariant on the instances of the runs before it was proved.

`CancellationProofs`, for any callers, refunds, workers and attempts, with processes that
stop, answers that are lost and calls that land late:

- `TypeCorrect`: `Spec => []TypeOK`.
- `NoEarlyCancel`: `Spec => []CancelledIsGone`.
- `CallersHearTheTruth`: `Spec => []AnswerIsTrue`.
- `NothingLeftBehind`: `Spec => []UnownedAgrees`.
- `IntentsAreKept`: `Spec => []IntentNotDropped`.

The invariant has layers, each inductive once the ones before it are known. `Truth` ties
what a process believes (its program counter, its call, its answer) to the booking; being
gone is for ever, so it survives every other process. `Ownership` says who may hold the
claim at each point: a process about to call Square holds a `cancel` claim, one that is
reading Square back may only hold a `cancel_reconcile` one, and a fresh token is nobody's.
`Outcome` says that a call in flight, or a booking gone that the row does not know of,
leaves the appointment unsettled or in the hands of a process that knows. `EventsKept` says
that an intent is marked done only from there. `UnownedAgrees` is `Outcome` read where
nobody owns the claim; only these two need that no hand-over was `Abandoned`.

`SquareRescheduleProofs`, for any requests and workers:

- `TypeCorrect`: `Spec => []TypeOK`.
- `KeepsThePromise`: `Spec => Implements`, stalls included.
- `OneBooking`: `Prompt => (Spec => []BookedOnce)`.
- `CallersHearTheTruth`: `Prompt => (Spec => []AnswerIsTrue)`.
- `OwnerDropsTheSource`: `Prompt => (Spec => SourceDroppedByOwner)`.

The refinement needs only `Order`, which holds whoever stalls: nobody cancels the source
before a replacement that was booked is recorded, and nobody closes the row before the
source is gone. The other three need `Prompt`, because a stalled request passes its fences
with the worker's token (finding 9). Under it `Exclusive` says that at most one process is
past each fence, and that a call still in flight belongs to the operation that owns the
appointment; `Stage` ties that process's program counter to the state of its operation;
`Booked` ties the operations' states to what was booked, and `Answers` the answers to both.
`Booked` counts one operation at most that may have booked, so `BookedOnce` needs no
induction over the bookings.

Two more say what the refinement is for, for any set of offers. `Safe`: whatever implements
`Switch` drops a booking for a move only once a replacement is booked and recorded, and closes
a row only over a booking that is gone. `NobodyIsStranded`: so does `SquareReschedule`, by
`KeepsThePromise`, stalls included.

`CallBookingProofs`, for any requests, slots and bounds:

- `TypeCorrect`: `Spec => []TypeOK`.
- `ClaimsAreWritten`: `Spec => []BookedIsWritten`, stalls included.
- `CallersHearTheTruth`: `Spec => []AnswerIsTrue`, stalls included.
- `NewComesFirst`: `Spec => NewFirst`, stalls included.
- `OneEventEach`: `Spec => []OneEventPerSlot`.

The first invariant, `IInv`, is about what is written. A claim row, and every copy of one,
names only an appointment written at its own slot (`RowOK`), and every appointment written
had its event made first (`BooksOK`), so what a request reports from a claim, a list it read
or its own creation was in the calendar; a replacement past its new booking has an event
at the new time that is not the one it swaps out (`MadeInstead`). `TypeCorrect` itself needs
a count: an attempt is one request's (`AttemptsCounted`), so attempts, and the event ids
made of them, stay within one more than the requests; and a copy in use leaves some
`updated_at` free (`Fresh`, by the pigeonhole principle).

`OneEventPerSlot` rests on the second, `IInv2`, most of which is read while `Prompt` holds. What is
in the calendar, on its way there, or written, is of the claim's own attempt, and the claim is
pending or booked (`OwnAttempt`); a booked claim names that attempt's appointment
(`OwnBooking`); and a request on its way from the claim to the row works for that attempt
too, or its appointment is written already (`Harmless`). An event's id is made of slot and
attempt, so there is one. A new attempt begins only from a failed claim, which has slipped if its
event could be there, or from a booked one whose appointment no longer stands, and with it
went the event. Who made the claim is alone with it (`FirstAlone`), nobody owns a claim
that may be taken over (`OldIdle`), and while one works for the claim's attempt no other copy of
it will swap (`CopiesStale`). TLC checked both invariants on the run's instance, and on one
with mixed slots and one with Outlook and stalls, before they were proved.

`UsageLedgerProofs`, under `Timely` (Stripe remembers an identifier for longer than the
retry window and one pass together):

- `ChargedOnce`: `Spec => [](BilledOnce /\ ReportedIsBilled)`.
- `SettledForEver`: `Spec => SettledStays`.

and, whatever the windows are:

- `TypeCorrect`: `Spec => []TypeOK`.
- `CountersTrue`: `Spec => []CountersMatchLedger`.

Stripe counts twice only when it has forgotten the identifier. The invariant bounds the age
of everything that may still lead to a report, a pending row and what a backend read of
one, by the age of the identifier, so nothing is left to be sent by then. `Timely`
is needed: the pass reads the clock once (a finding), and a pass long enough would send
what has become too old.

`CountersTrue` is about sums, and the sum of a set (`Total`, of the community modules' fold)
is defined by recursion over the set. No installed prover can use an induction theorem whose
hypothesis is an operator, so the module shows what it needs of `Total` by a smallest
counterexample: a set of naturals has a least element (`Least`), so a set of finite sets has a
smallest member (`Smallest`), and one that broke the claim could be made smaller. In that way a
finite set has a fold (`FoldIs`), it is a natural (`FoldType`), the same whatever element is
taken first (`FoldAny`) and within a larger set (`FoldSame`); then one more call adds its
minutes (`TotalAdd`) and calls that count the same have the same sum (`TotalSame`). The
invariant, `Counts`, adds to the two sums what makes each database step arithmetic (`Ledger`):
a call without a row is counted nowhere, a row with overage is of a counted call, as long as no
period start is on record every counted call is in `unknown`, and only finitely many calls have
rows. `Queued` says that a row exists only for a call that has ended, so a call never changes
its period after it was counted. A rollover computes both sums from the rows it keeps
(`LedgerEnters`), a first start keeps everybody in (`LedgerStarts`), a recording adds one call
or none (`LedgerCounts`), and a late report adds its overage exactly when the period on record
is the call's (`LedgerNotes`).

`ProviderClaimsProofs`:

- `RetiredForGood`: `Spec => RetiredIsGone`.
- `GivenOnce`: `Spec => []OneIdentity`.
- `CreatedOnce`: `Spec => []NoDuplicate`.
- `WinnerStands`: `Spec => WinnerIsKept`.
- `NeverPoisoned`: `Spec => []NoScopeIsPoisoned`.

Being gone is for ever. The first invariant, `IInv`, says that every resource a request has in hand, or
was given, is the claim's or gone, and that a request about to detach a resource has seen
that very one gone; so the claim never leaves a living resource, and two that were given
to two requests cannot both live.

The other three rest on a second one, `IInv2`, with a part for each. `Single`: while
nothing goes wrong only one request holds the lease, only it is on the way to a create,
and as long as it is nothing carries the claim's marker; so what there is is one, and the
claim names it or its holder is about to attach it. `Winner`: until somebody deletes by
hand, nothing is lost before the claim names a resource, and a request that withdraws has
read that the claim names another. `Lonely`: a request that has the scope to itself has met
no lease and lost no race, what it has in hand is what the claim names, and where it ends it
has given its own lease up or attached what it found (`Unhindered`, point by point).
Checking `Single` and `Winner` with more requests is how findings 20 and 21 were met.

`NumberLifecycleProofs`:

- `VapiDetached`: `Spec => []VapiFirst`.
- `BooksFollow`: `Spec => BooksFollowTwilio`.

The invariant says that the number in a buyer's hand is nobody else's until it is on the
tenant, that a number about to be taken off the books is gone at Twilio, which is for ever,
and that the tenant's pointer names the live row, a number that is gone, or one older than
the canonical rows; so a release that stalled finds its fences closed or takes off what is
gone in any case. That the live rows are at most one, which the index promises, is
part of it.

`BillingProofs`, for any subscriptions, plans, requests, webhooks, windows, changes by Stripe and by
the admin, and faults:

- `TypeCorrect`: `Spec => []TypeOK`.
- `PaidBeforeCompEnds`: `Spec => CompEndsPaid`.
- `BouncedIsCut`: `Spec => []UnpaidIsCut`.
- `PaidGetsThere`: `Spec => []PaidIsFinished`.
- `NobodyPaysTwice`: `Spec => []OneLive`.

The invariant has layers here too. `Base` holds always: types, what a request in hand knows of
the subscription it works on (what was paid stays paid, so a request that finishes a transition
may end complimentary access later), and that an idempotency key creates one subscription.
`Trials` follows, while nothing raises, what is known of a trial that ended: until the row
says that the first charge bounced, an event on its way, a webhook in hand or the conversion's
answer is about to tell it (`ToldSoon`). `OneByOne` is for histories without a crossing: requests
under way share their key (`Paired`), so both get the same subscription; the row is about
the one that a customer can still pay for or has (`OnRow`); and one that was paid while the
account is still complimentary has its webhook to come or in hand (`Awaited`). With
nothing raising either, `AtMostOne` says that what is billed or payable is the row's, or just
about to be (`Held`), and that a request about to create one without a key has seen
the last one over (`Alone`). What the admin does is mostly absorbed: an account that is
complimentary again with a subscription on record is so by the admin's hand (`Stands`), and a
purchase without a key and a transition's subscription exclude each other (`Apart`). `PaidIsFinished` is `Awaited` read when all is quiet, `OneLive` is
`AtMostOne` read at any time.

Every invariant and every action property of the runs is proved. Only model-checked are the
liveness properties (`Settled`, `OrphansSwept`, `ReconcileSettles`, `IntentsEnd`, `Resolved`,
`PendingSettles`, `CallIsRecorded`, `Reclaimed`): liveness under fairness and ENABLED are out of
TLAPS's reach. Of a recursive definition what is needed was proved by a smallest
counterexample, in `UsageLedgerProofs` and nowhere else.

## 5. Findings

Where the code does not do what a document or comment of the repository says, or what it
plainly means to do; `PROJECT.json` quotes the lines. Each was met while modelling; the
models do what the code does, and a property exempts or avoids the state by name.

Appointments:

1. Failing a move and releasing its claim are two statements, and recovery never returns
   to a failed operation (`calendar_reschedule.py:316`).
2. An unanswered calendar deletion gives the appointment back (`tools.py:2869`).
3. A calendar cancellation whose row was not written is handed to a reconciler that can
   read only Square (`cancel_reconcile.py:28`).
4. The reconciler returns a live booking to "cancel" under a token nobody keeps
   (`cancel_reconcile.py:112`).
5. A refund that meets a cancellation in charge records no intent, also when that
   cancellation then ends without cancelling (`payments.py:705`).
6. The fingerprint is compared with one read, and another read's version is cancelled
   (`reschedule_execute.py:436`, `square_booking.py:609-625`).
7. A replayed CreateBooking that is refused for a new reason ends as `create_failed`
   although an earlier try may have booked (`reschedule_execute.py:283`).
8. An INSERT of the operation that raises after landing leaves a live operation without a
   claim (`reschedule.py:242`).
9. A stalled request reads back the recovery worker's token and passes its fences
   (`reschedule_intent.py:370`).
10. Recovery scans claims, whose age no transition refreshes (`reschedule_execute.py:589`).
11. A booking claim taken over from a dead request is marked failed when the repeated check
    refuses, though the dead request's event may exist (`tools.py:1610`).
12. The same when its create is refused or its token has expired, though the dead request's
    event is live: the next attempt makes a second one (`tools.py:1648`).
13. An insert that lands after it was read back and not found: the claim is marked failed, and
    the next attempt makes a second event (`tools.py:1416`).
14. A claim restarted after a cancellation is settled by the cancelled appointment, which
    another request had read before (`booking_claims.py:133`).
15. A refund's cancellation whose hand-over raises is released, and nothing is queued, against
    `appointment_cancellation.py:12-13` (`payments.py:757`).

Usage, regulation, billing:

16. Entering a period clears overage that is being, or has just been, reported
    (`migrations/042:105`).
17. The retry pass reads the clock once and may send a row past its age limit
    (`usage.py:202`).
18. Twilio is asked for marked resources before the claim is taken over, not after
    (`regulatory_engine.py:710`).
19. An address deleted at Twilio is reported as an outage for ever
    (`regulatory_engine.py:355`).
20. A request attaches a resource it listed before that was deleted by hand and retired:
    the claim is retired twice and two are created (`regulatory_engine.py:835`).
21. What the loser of a race withdraws may have been adopted since, if the winner's was
    deleted by hand (`regulatory_engine.py:844`).
22. A Bundle filed before migration 030 that is gone at Twilio is created anew, because no
    claim names it (`regulatory_engine.py:745`).
23. The conversion's "unpaid" flag may be written after the payment's webhook
    (`trial.py:391`).
24. Paid transitions for different plans that cross create two payable subscriptions
    (`billing.py:839`).
25. A pending subscription found incomplete is cancelled although it may have been paid
    since (`billing.py:860`).
26. `create_subscription` has no idempotency key and resumes whatever plan is pending
    (`billing.py:720`).
27. Recording a paid transition is not "the only place that ends comp or manual access": the
    admin's PATCH /comp and PATCH /plan do, with no payment, during a transition too
    (`billing.py:785`, `admin.py:131`, `:155`).
28. The recovery of a customer creation can itself create (`payment_customer.py:180`).

Phone numbers:

29. Rollbacks hand a number back and leave its Vapi record (`provisioning.py:1311`, `:672`).
30. A reprovision whose registration raises leaves the number it bought unrecorded
    (`provisioning.py:1319`).
31. A repeated signup overwrites the credentials the first one's number is released with
    (`provisioning.py:937`).
32. The sweep releases on rows read at its start (`number_reclaim.py:197`).
33. A date that is past releases although no warning was sent (`number_reclaim.py:128`).
34. A number that is already gone at Twilio stays on the books until a person clears it
    (`provisioning.py:1116`).
35. The purge drops the tenant, and the rows with it, when the release has just failed
    (`retention.py:113`).
36. Between activation and the last update the tenant names no Vapi record
    (`provisioning.py:1325`).

Two notes of the same kind on billing, with no line that says otherwise: the subscription
webhook writes the row's status by tenant even when the row names another subscription, and
`/confirm-payment` accepts the subscription of a transition that has been superseded.

## 6. Not modelled

Most of the code base (54,000 lines) is prompts, text, parsing, rendering and
calls that fetch and format: it has no state whose order matters, tests reach it, and a
model of it would be a transcription. Of what has state:

- **Square webhooks** (`square_booking.py:1083`): the mirror writes the whole row it read
  earlier and owns nothing. Composed with any module here, every property that ties the row
  to its owner fails at once, and there is no narrower promise in the code to hold it to.
- **Deposit confirmation** and **checkout** (`routers/payments.py`): the refund half is in
  `Cancellation`; the confirmation's lease is one more claim type with two fenced
  statements.
- **Square in-place deposit move**: behind a validation scope in the code; it repeats the
  claim protocol with UpdateBooking in the place of two bookings.
- **Payment customer session**: one fenced statement per state; what goes wrong is the
  replay outside Stripe's retention, finding 28.
- **Regulatory filing, polling and review**, **temporary and regulated numbers** and their
  promotion: `ProviderClaims` has the creation of each resource and `NumberLifecycle` the
  permanent number; what is between them is a wait for Twilio's reviewers and mostly
  presentation.
- **Upgrades, downgrades, cancelling and reactivating** a live subscription: single calls
  to Stripe whose effect arrives by the webhook `Billing` has.
- **Booking straight into Square** within a call, **quarantine** of suspicious calls,
  tenants from before the ledger, and the e-mail thresholds of usage.
- **Expiry and purge** of references and slot offers: a row that has expired is one that is
  not found.
