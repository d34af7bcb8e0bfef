---------------------------- MODULE UsageLedger ----------------------------
(* Call minutes and their overage (backend/services/usage.py, migration 042),
   behind the durable queue that feeds them (webhook_events, read and not
   claimed by every backend: db/supabase.py, services/webhook_processor.py).

   One tenant. A finished call leaves an event in the queue. A backend reads a
   pending event, records the call in one locked database step, reports the
   overage that step found to the Stripe meter, writes down that Stripe has it,
   and marks the event done. The same loop later retries the overage that
   stayed pending. Meanwhile the billing webhook, a trial conversion or the
   recording itself moves the tenant to a newer billing period.

   Two backends run during a deployment and nothing stops both from reading the
   same event. Periods are numbered: a call carries the number of the Stripe
   period it ended in, so "ended_at >= start" is a comparison of numbers. Time
   is kept as ages: of a pending row, of Stripe's memory of an identifier, and
   of what a backend read before it acts on it.                             *)
EXTENDS Integers, FiniteSets, FiniteSetsExt

CONSTANTS
    Backends,     \* processes that run the loop (two while a deployment overlaps)
    Calls,        \* finished calls, each with an id of its own
    NoCall,       \* what a backend holds when it holds none
    Minutes,      \* whole minutes of each call
    Allowance,    \* minutes the plan includes
    MaxPeriods,   \* bound: periods Stripe starts
    RetryAfter,   \* age a pending row must have to be retried (5 minutes)
    RetryWindow,  \* age after which a row is never sent again (23 hours)
    Dedupe,       \* time for which Stripe refuses a repeated identifier (24 hours)
    PassLimit,    \* longest time from what a backend read to what it sends
    MaxAttempts,  \* MAX_ATTEMPTS of the queue
    MaxUpsets     \* bound: crashes, and statements that raise

ASSUME ConstantsAssumption ==
    /\ NoCall \notin Calls
    /\ Minutes \in [Calls -> Nat \ {0}] /\ Allowance \in Nat
    /\ MaxPeriods \in Nat /\ MaxAttempts \in Nat \ {0} /\ MaxUpsets \in Nat
    /\ RetryAfter \in Nat /\ RetryWindow \in Nat /\ PassLimit \in Nat
    /\ Dedupe \in Nat \ {0} /\ RetryWindow < Dedupe

VARIABLES
    event,      \* webhook_events: status and attempts of each call's report
    tenant,     \* the tenants row: start of the period on record, minutes, reported overage
    row,        \* usage_events: one row per recorded call
    ended,      \* number of the period a call ended in
    period,     \* Stripe's current period
    meter,      \* Stripe's meter: per call, events counted, minutes of the last, age of the identifier
    backend,    \* what each backend is doing
    upsets,     \* crashes and raised statements so far
    unknown     \* calls counted while no period start was on record

vars == <<event, tenant, row, ended, period, meter, backend, upsets, unknown>>

NoStart == -1                       \* billing_period_started_at is null

Over(n) == IF n > Allowance THEN n - Allowance ELSE 0

\* What the ledger's queries add up: f over the calls of a set.
Total(f, calls) == MapThenSumSet(LAMBDA c : f[c], calls)

-----------------------------------------------------------------------------
(* State                                                                     *)

Statuses == {"absent", "pending", "done", "failed"}
States   == {"absent", "none", "pending", "reported", "review"}
Labels   == {"idle", "record", "send", "note", "mark", "raised"}

Idle   == [at |-> "idle", call |-> NoCall, tries |-> 0, over |-> 0, age |-> 0, since |-> 0, retry |-> FALSE]
NoRow  == [state |-> "absent", counted |-> FALSE, over |-> 0, age |-> 0]

Init ==
    /\ event  = [c \in Calls |-> [status |-> "absent", attempts |-> 0]]
    /\ \E s \in {NoStart, 0} : tenant = [start |-> s, used |-> 0, reported |-> 0]
    /\ row    = [c \in Calls |-> NoRow]
    /\ ended  = [c \in Calls |-> 0]
    /\ period = 0
    /\ meter  = [c \in Calls |-> [times |-> 0, minutes |-> 0, age |-> 0]]
    /\ backend = [b \in Backends |-> Idle]
    /\ upsets = 0 /\ unknown = {}

Set(b, new) == backend' = [backend EXCEPT ![b] = new]
At(b, l)    == backend[b].at = l
Goto(b, l)  == Set(b, [backend[b] EXCEPT !.at = l])

\* A statement raises, having landed or not: `landed` tells the two apart.
Upset == upsets < MaxUpsets /\ upsets' = upsets + 1

-----------------------------------------------------------------------------
(* The locked database steps of migration 042                                *)

\* usage_enter_period: the ledger decides what the new period starts with.
\* Overage worked out against the old balance is cleared unless Stripe has it.
InPeriod(c, s) == row[c].state # "absent" /\ ended[c] >= s

\* Seeded fault: a rollover clears the overage of every call it keeps.
EnteredAll(s) ==
    [c \in Calls |-> IF InPeriod(c, s)
                     THEN [row[c] EXCEPT !.counted = TRUE, !.over = 0, !.state = "none", !.age = 0]
                     ELSE row[c]]

Entered(s) ==
    [c \in Calls |->
        IF ~InPeriod(c, s) THEN row[c]
        ELSE IF row[c].state = "pending"
             THEN [row[c] EXCEPT !.counted = TRUE, !.over = 0, !.state = "none", !.age = 0]
             ELSE [row[c] EXCEPT !.counted = TRUE]]

\* Seeded fault: a rollover starts from zero, as the webhook once wrote.
EnteredAtZero(s) == [start |-> s, used |-> 0, reported |-> 0]

EnteredTenant(s) ==
    LET kept == {c \in Calls : InPeriod(c, s)}
    IN  [start    |-> s,
         used     |-> Total(Minutes, kept),
         reported |-> Total([c \in Calls |-> row[c].over],
                            {c \in kept : row[c].state = "reported"})]

\* usage_period_moved: with no start on record a period has not moved.
Moved(s) == tenant.start # NoStart /\ s > tenant.start

\* usage_record_call, for a call with no row yet: roll first if the caller saw a
\* newer period, then count the call if it ended in the period on record.
Overage(t, c) == Over(t.used + Minutes[c]) - Over(t.used)

NewRow(counts, over) ==
    [state |-> IF over > 0 THEN "pending" ELSE "none",
     counted |-> counts, over |-> over, age |-> 0]

Counted(c, rows, t, early) ==
    /\ unknown' = early \union (IF t.start = NoStart THEN {c} ELSE {})
    /\ IF ended[c] >= t.start
       THEN /\ tenant' = [t EXCEPT !.used = @ + Minutes[c]]
            /\ row' = [rows EXCEPT ![c] = NewRow(TRUE, Overage(t, c))]
       ELSE /\ tenant' = t
            /\ row' = [rows EXCEPT ![c] = NewRow(FALSE, 0)]

Recorded(c, s) ==
    IF s # NoStart /\ Moved(s) THEN Counted(c, Entered(s), EnteredTenant(s), {})
    ELSE IF s # NoStart /\ tenant.start = NoStart
    THEN Counted(c, row, [tenant EXCEPT !.start = s], unknown)
    ELSE Counted(c, row, tenant, unknown)

\* usage_overage_reported: only a pending row becomes reported, and it adds to
\* the tenant's total only if the call is of the period on record.
Noted(c) ==
    IF row[c].state # "pending" THEN UNCHANGED <<row, tenant>>
    ELSE /\ row' = [row EXCEPT ![c].state = "reported", ![c].age = 0]
         /\ tenant' = IF tenant.start # NoStart /\ ended[c] >= tenant.start
                      THEN [tenant EXCEPT !.reported = @ + row[c].over] ELSE tenant

-----------------------------------------------------------------------------
(* Calls, Stripe and the clock                                               *)

\* The end-of-call report is stored, once per call (enqueue_webhook_event).
CallEnds(c) ==
    /\ event[c].status = "absent"
    /\ event' = [event EXCEPT ![c].status = "pending"]
    /\ ended' = [ended EXCEPT ![c] = period]
    /\ UNCHANGED <<tenant, row, period, meter, backend, upsets, unknown>>

\* Stripe starts the subscription's next period.
Renew ==
    /\ period < MaxPeriods
    /\ period' = period + 1
    /\ UNCHANGED <<event, tenant, row, ended, meter, backend, upsets, unknown>>

\* usage_roll_period, from an invoice webhook, late or repeated (paid = FALSE),
\* or from a trial conversion or a paid transition (paid = TRUE).
RollPeriod(s, paid) ==
    /\ s \in 0 .. period
    /\ IF Moved(s) \/ (paid /\ s > tenant.start)
       THEN row' = Entered(s) /\ tenant' = EnteredTenant(s) /\ unknown' = {}
       ELSE /\ tenant' = IF tenant.start = NoStart
                         THEN [tenant EXCEPT !.start = s] ELSE tenant
            /\ UNCHANGED <<row, unknown>>
    /\ UNCHANGED <<event, ended, period, meter, backend, upsets>>

\* Time passes: rows that wait, Stripe's memory, and what a backend read get
\* older. A backend never holds what it read for longer than PassLimit. Stripe's
\* memory of a call is followed only while the call could still be sent.
Older(n) == IF n < Dedupe THEN n + 1 ELSE n

Holds(b) == At(b, "send")

Watched(c) == row[c].state = "pending" \/ \E b \in Backends : Holds(b) /\ backend[b].call = c

Tick ==
    /\ \A b \in Backends : Holds(b) => backend[b].since < PassLimit
    /\ row' = [c \in Calls |-> IF row[c].state = "pending"
                               THEN [row[c] EXCEPT !.age = Older(@)] ELSE row[c]]
    /\ meter' = [c \in Calls |-> [meter[c] EXCEPT !.age =
                                     IF meter[c].times > 0 /\ Watched(c)
                                     THEN Older(@) ELSE 0]]
    /\ backend' = [b \in Backends |-> IF Holds(b)
                                      THEN [backend[b] EXCEPT !.since = @ + 1]
                                      ELSE backend[b]]
    /\ UNCHANGED <<event, tenant, ended, period, upsets, unknown>>

-----------------------------------------------------------------------------
(* A backend takes an event (webhook_processor, usage.record_call_minutes)   *)

\* Seeded fault: only events never tried before are read.
TakeFresh(b, c) ==
    /\ At(b, "idle") /\ event[c].status = "pending" /\ event[c].attempts = 0
    /\ Set(b, [Idle EXCEPT !.at = "record", !.call = c, !.tries = 1])
    /\ UNCHANGED <<event, tenant, row, ended, period, meter, upsets, unknown>>

\* claim_pending_webhook_events reads; it marks nothing, so every backend may
\* take the same event, and what it took may be long done when it acts on it.
Take(b, c) ==
    /\ At(b, "idle") /\ event[c].status = "pending"
    /\ Set(b, [Idle EXCEPT !.at = "record", !.call = c, !.tries = event[c].attempts + 1])
    /\ UNCHANGED <<event, tenant, row, ended, period, meter, upsets, unknown>>

\* Anything before the usage step may raise: the event is tried again.
ReportFails(b) ==
    /\ At(b, "record") /\ Upset /\ Goto(b, "raised")
    /\ UNCHANGED <<event, tenant, row, ended, period, meter, unknown>>

\* What Stripe said the current period is, asked on the way here: a period that
\* has started, or nothing when the stored start is young or Stripe is away.
SeenStart == {NoStart} \union 0 .. period

\* usage_record_call: a call that has a row changes nothing.
Record(b) ==
    LET me == backend[b] c == me.call
    IN  /\ At(b, "record")
        /\ IF row[c].state # "absent"
           THEN UNCHANGED <<tenant, row, unknown>>
           ELSE \E s \in SeenStart : Recorded(c, s)
        /\ Set(b, IF row[c].state = "absent" /\ row'[c].over > 0
                  THEN [me EXCEPT !.at = "send", !.over = row'[c].over]
                  ELSE [me EXCEPT !.at = "mark"])
        /\ UNCHANGED <<event, ended, period, meter, upsets>>

\* It raises, written or not. record_call_minutes logs that and returns, and so
\* does the read of the tenant before it: the event ends as done.
RecordRaises(b, landed) ==
    LET c == backend[b].call
    IN  /\ At(b, "record") /\ Upset /\ Goto(b, "mark")
        /\ IF landed /\ row[c].state = "absent"
           THEN \E s \in SeenStart : Recorded(c, s) ELSE UNCHANGED <<tenant, row, unknown>>
        /\ UNCHANGED <<event, ended, period, meter>>

-----------------------------------------------------------------------------
(* Overage goes to Stripe (_report_overage, retry_pending_overage)           *)

\* Stripe counts an event unless it remembers the identifier.
Remembers(c) == meter[c].times > 0 /\ meter[c].age < Dedupe

Metered(c, over) ==
    meter' = IF Remembers(c) THEN meter
             ELSE [meter EXCEPT ![c] = [times |-> @.times + 1, minutes |-> over, age |-> 0]]

\* "An event already exists" is as good as accepted.
Send(b) ==
    /\ At(b, "send") /\ Metered(backend[b].call, backend[b].over)
    /\ Set(b, [backend[b] EXCEPT !.at = "note", !.over = 0, !.age = 0, !.since = 0])
    /\ UNCHANGED <<event, tenant, row, ended, period, upsets, unknown>>

\* The request fails, whether Stripe took it or not. The row stays pending.
After(b) == Set(b, IF backend[b].retry THEN Idle
                   ELSE [Idle EXCEPT !.at = "mark", !.call = backend[b].call,
                                     !.tries = backend[b].tries])

SendFails(b, landed) ==
    /\ At(b, "send") /\ Upset /\ After(b)
    /\ IF landed THEN Metered(backend[b].call, backend[b].over) ELSE UNCHANGED meter
    /\ UNCHANGED <<event, tenant, row, ended, period, unknown>>

Note(b) ==
    /\ At(b, "note") /\ Noted(backend[b].call) /\ After(b)
    /\ UNCHANGED <<event, ended, period, meter, upsets, unknown>>

NoteRaises(b, landed) ==
    /\ At(b, "note") /\ Upset /\ After(b)
    /\ IF landed THEN Noted(backend[b].call) ELSE UNCHANGED <<row, tenant>>
    /\ UNCHANGED <<event, ended, period, meter, unknown>>

\* Seeded fault: a row is retried whatever its age.
RetryAlways(b, c) ==
    /\ At(b, "idle") /\ row[c].state = "pending" /\ row[c].age >= RetryAfter
    /\ Set(b, [Idle EXCEPT !.at = "send", !.call = c, !.over = row[c].over,
                           !.age = row[c].age, !.retry = TRUE])
    /\ UNCHANGED <<event, tenant, row, ended, period, meter, upsets, unknown>>

\* A retry pass reads the pending rows and the time once, then works through
\* them: by its turn a row is as old as it was when read, plus the wait.
Retry(b, c) ==
    /\ At(b, "idle") /\ row[c].state = "pending" /\ row[c].age \in RetryAfter .. RetryWindow
    /\ Set(b, [Idle EXCEPT !.at = "send", !.call = c, !.over = row[c].over,
                           !.age = row[c].age, !.retry = TRUE])
    /\ UNCHANGED <<event, tenant, row, ended, period, meter, upsets, unknown>>

\* Seeded fault: a row past the window is skipped.
ReviewSkips(b, c) == FALSE

\* usage_overage_needs_review: too old to send again, so a person looks at it.
\* The statement itself asks that the row is still pending.
Review(b, c) ==
    /\ At(b, "idle") /\ row[c].state = "pending" /\ row[c].age > RetryWindow
    /\ row' = [row EXCEPT ![c].state = "review", ![c].age = 0]
    /\ UNCHANGED <<event, tenant, ended, period, meter, backend, upsets, unknown>>

-----------------------------------------------------------------------------
(* The event is finished (_process_one)                                      *)

Mark(b) ==
    /\ At(b, "mark") /\ Set(b, Idle)
    /\ event' = [event EXCEPT ![backend[b].call].status = "done"]
    /\ UNCHANGED <<tenant, row, ended, period, meter, upsets, unknown>>

\* mark_webhook_done raises inside the same try: the event counts as failed.
MarkRaises(b, landed) ==
    /\ At(b, "mark") /\ Upset /\ Goto(b, "raised")
    /\ event' = IF landed THEN [event EXCEPT ![backend[b].call].status = "done"] ELSE event
    /\ UNCHANGED <<tenant, row, ended, period, meter, unknown>>

\* mark_webhook_retry leaves the status as it is; mark_webhook_failed overwrites
\* whatever another backend wrote.
Raised(b) ==
    LET c == backend[b].call
    IN  /\ At(b, "raised") /\ Set(b, Idle)
        /\ event' = IF backend[b].tries >= MaxAttempts
                    THEN [event EXCEPT ![c] = [status |-> "failed", attempts |-> backend[b].tries]]
                    ELSE [event EXCEPT ![c].attempts = backend[b].tries]
        /\ UNCHANGED <<tenant, row, ended, period, meter, upsets, unknown>>

\* The process stops. Nothing it held survives; what it wrote does.
Crash(b) ==
    /\ ~At(b, "idle") /\ Upset /\ Set(b, Idle)
    /\ UNCHANGED <<event, tenant, row, ended, period, meter, unknown>>

-----------------------------------------------------------------------------
Step(b) ==
    \/ Record(b) \/ Send(b) \/ Note(b) \/ Mark(b) \/ Raised(b)

Fails(b) ==
    \/ ReportFails(b) \/ Crash(b)
    \/ \E landed \in BOOLEAN : \/ RecordRaises(b, landed) \/ SendFails(b, landed)
                               \/ NoteRaises(b, landed) \/ MarkRaises(b, landed)

\* The loop takes events, then retries what is pending; it holds one at a time.
Loop(b) == Step(b) \/ \E c \in Calls : Take(b, c) \/ Retry(b, c) \/ Review(b, c)

Next ==
    \/ \E c \in Calls : CallEnds(c)
    \/ Renew \/ Tick
    \/ \E s \in 0 .. period, paid \in BOOLEAN : RollPeriod(s, paid)
    \/ \E b \in Backends : Loop(b) \/ Fails(b)

Spec == Init /\ [][Next]_vars

\* Each backend runs its loop for ever, and time passes. Failures are bounded by
\* MaxUpsets: outages end.
FairSpec == Spec /\ WF_vars(Tick) /\ \A b \in Backends : WF_vars(Loop(b))

-----------------------------------------------------------------------------
(* Properties                                                                *)

TypeOK ==
    /\ event \in [Calls -> [status : Statuses, attempts : 0 .. MaxAttempts]]
    /\ tenant \in [start : NoStart .. MaxPeriods, used : Nat, reported : Nat]
    /\ row \in [Calls -> [state : States, counted : BOOLEAN, over : Nat, age : 0 .. Dedupe]]
    /\ ended \in [Calls -> 0 .. MaxPeriods] /\ period \in 0 .. MaxPeriods
    /\ meter \in [Calls -> [times : Nat, minutes : Nat, age : 0 .. Dedupe]]
    /\ backend \in [Backends -> [at : Labels, call : Calls \union {NoCall},
                                 tries : 0 .. MaxAttempts, over : Nat, age : 0 .. Dedupe, since : Nat,
                                 retry : BOOLEAN]]
    /\ upsets \in 0 .. MaxUpsets /\ unknown \subseteq Calls

\* The tenant's minutes are those of the calls the ledger has for the period on
\* record, each once, whatever order recordings, rollovers and repeats came in;
\* calls taken while no start was known stay in until the next rollover. The
\* reported total is that of the period's reported rows.
CountersMatchLedger ==
    /\ tenant.used = Total(Minutes,
           {c \in Calls : row[c].counted /\ (ended[c] >= tenant.start \/ c \in unknown)})
    /\ unknown = {} =>
         tenant.reported = Total([c \in Calls |-> row[c].over],
             {c \in Calls : row[c].state = "reported" /\ ended[c] >= tenant.start})

\* Stripe never counts a call's overage twice, however often an event is
\* processed, a report is repeated or a backend stops between Stripe's answer
\* and the database write.
BilledOnce == \A c \in Calls : meter[c].times <= 1

\* A row says reported only when Stripe has exactly the minutes it says.
ReportedIsBilled ==
    \A c \in Calls : row[c].state = "reported" =>
        meter[c].times > 0 /\ meter[c].minutes = row[c].over

\* A period only moves forward, and what Stripe was told, or a person must look
\* at, is never rewritten: not by a rollover, a repeated recording or a retry.
SettledStays ==
    [][ /\ tenant'.start >= tenant.start
        /\ \A c \in Calls : row[c].state \in {"reported", "review"} =>
               row'[c].state = row[c].state /\ row'[c].over = row[c].over ]_vars

\* Pending overage is reported, cleared or handed to a person: Stripe may stay
\* away, and the process may stop, but no row waits for ever.
PendingSettles == \A c \in Calls : row[c].state = "pending" ~> row[c].state # "pending"

\* A finished call gets its ledger row, unless a statement raised on the way:
\* record_call_minutes logs that and lets the event end.
CallIsRecorded ==
    \A c \in Calls : event[c].status = "pending" ~>
        \/ row[c].state # "absent"
        \/ upsets > 0 /\ event[c].status \in {"done", "failed"}
=============================================================================
