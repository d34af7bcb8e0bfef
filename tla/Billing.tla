------------------------------- MODULE Billing -------------------------------
(* One account and its Stripe subscriptions (routers/billing.py,
   services/trial.py, services/account_state.py, routers/admin.py).

   An account buys a plan in one of two ways, or starts in a card trial:
   /create-subscription, and, for a complimentary or manual account in a window
   an admin opened, /paid-transition.  Either creates a subscription that waits
   for its first payment; the browser's /confirm-payment and Stripe's webhooks
   race to record it.  A trial ends by itself or early (convert_card_trial).
   An admin may give complimentary or manual access, or take it, at any time.

   Stripe replays the answer of a creation whose idempotency key it has seen,
   delivers its events in any order, and repeats one that was not answered 200.

   Left out: which plan the row names, addresses and the Stripe customer, usage
   (UsageLedger has it), /sync (nothing calls it), the hosted checkout, and
   cancelling or resuming at the period's end.

   Bounds: Subs; MaxWindows windows; MaxChanges changes of another's making, at
   Stripe in the weeks after a purchase or by the admin; MaxFaults statements
   that raise, landed or not, answers Stripe does not give, and processes that
   stop.                                                                     *)
EXTENDS Naturals, Sequences, FiniteSets, SequencesExt

CONSTANTS Subs, Plans, Jobs, Nil, Kinds, MaxWindows, MaxChanges, MaxFaults

ASSUME KindAssumption == Kinds \subseteq {"comp", "manual", "new", "trial"}
ASSUME WindowAssumption == MaxWindows \in Nat

Statuses == {"none", "incomplete", "trialing", "active", "past_due", "canceled"}
Events == [kind : {"updated", "deleted", "paid"}, sub : Subs, status : Statuses]
(* The idempotency key of a transition: the plan, and the subscription it replaces
   or else the window's deadline.  An id is no time. *)
Keys == Plans \X (Subs \cup Nat)
ASSUME NameAssumption == /\ Nil \notin Subs /\ Nil \notin Events /\ Nil \notin Keys
                         /\ \A s \in Subs : s \notin Nat

VARIABLES acct, subs, events, job, opened, changes, faults, crossed
vars == <<acct, subs, events, job, opened, changes, faults, crossed>>

Idle == [pc |-> "idle", how |-> "none", plan |-> Nil, key |-> Nil, sub |-> Nil,
         st |-> "none", was |-> "none", ev |-> Nil]
Unmade == [status |-> "none", key |-> Nil, plan |-> Nil, first |-> "none", ended |-> "none",
           secret |-> FALSE, paid |-> FALSE]

Init == \E kind \in Kinds, trial \in Subs :
    /\ acct = [comp |-> kind = "comp", sub |-> IF kind = "trial" THEN trial ELSE Nil,
               status |-> CASE kind = "manual" -> "active" [] kind = "trial" -> "trialing" [] OTHER -> "none",
               pending |-> Nil, window |-> 0, reason |-> FALSE, unpaid |-> FALSE]
    /\ subs = [s \in Subs |-> IF kind = "trial" /\ s = trial
                              THEN [Unmade EXCEPT !.status = "trialing"] ELSE Unmade]
    /\ events = <<>>
    /\ job = [j \in Jobs |-> Idle]
    /\ opened = 0 /\ changes = 0 /\ faults = 0 /\ crossed = FALSE

At(j, pc) == job[j].pc = pc
Goto(j, pc) == job' = [job EXCEPT ![j].pc = pc]
Done(j) == job' = [job EXCEPT ![j] = Idle]
Fault == faults < MaxFaults /\ faults' = faults + 1
Quiet == \A j \in Jobs : At(j, "idle")

(* Seeded fault: a webhook that failed is answered 200 all the same. *)
UnansweredLost(j) == Done(j) /\ UNCHANGED events
(* A webhook that is not answered 200 is sent again, after what waits by then. *)
Unanswered(j) == /\ Done(j)
                 /\ events' = IF job[j].ev = Nil THEN events ELSE Append(events, job[j].ev)
Tell(kind, s, st) == [kind |-> kind, sub |-> s, status |-> st]
(* Stripe moves s to st, and says so. *)
Moved(s, st) == [subs[s] EXCEPT !.status = st, !.paid = @ \/ st = "active", !.plan = Nil]
Told(s, st) == events \o CASE st = "canceled" -> <<Tell("deleted", s, st)>>
                          [] st = "active" -> <<Tell("updated", s, st), Tell("paid", s, st)>>
                          [] OTHER -> <<Tell("updated", s, st)>>
Moves(s, st) == subs' = [subs EXCEPT ![s] = Moved(s, st)] /\ events' = Told(s, st)

-----------------------------------------------------------------------------
(* Complimentary or manual, with no subscription on record. *)
Manual == acct.status \in {"active", "past_due"} /\ acct.sub = Nil
Eligible == (acct.comp \/ Manual) /\ acct.sub = Nil

Open == /\ Eligible /\ opened < MaxWindows
        /\ opened' = opened + 1
        /\ acct' = [acct EXCEPT !.window = opened + 1]
        /\ UNCHANGED <<subs, events, job, changes, faults, crossed>>
(* The admin closes the window, or it expires. *)
Close == /\ acct.window # 0
         /\ acct' = [acct EXCEPT !.window = 0]
         /\ UNCHANGED <<subs, events, job, opened, changes, faults, crossed>>

(* PATCH /comp and PATCH /plan: the admin gives complimentary or manual access, or
   takes it, whatever transition is under way; taken during one, it lets a second
   purchase begin.  A plan is refused to an account with a subscription on record,
   which is read before the write. *)
ByHand == changes < MaxChanges /\ changes' = changes + 1
UnderWay == acct.pending # Nil \/ \E j \in Jobs : job[j].how = "transition"
SetComp(exempt) ==
    /\ ByHand
    /\ acct' = [acct EXCEPT !.comp = exempt]
    /\ crossed' = (crossed \/ (~exempt /\ UnderWay))
    /\ UNCHANGED <<subs, events, job, opened, faults>>
AskPlan(j, st) ==
    /\ ByHand
    /\ At(j, "idle") /\ acct.sub = Nil
    /\ job' = [job EXCEPT ![j] = [Idle EXCEPT !.pc = "set_plan", !.st = st]]
    /\ UNCHANGED <<acct, subs, events, opened, faults, crossed>>
SetPlan(j) ==
    /\ At(j, "set_plan")
    /\ acct' = [acct EXCEPT !.status = job[j].st]
    /\ crossed' = (crossed \/ (job[j].st = "none" /\ UnderWay))
    /\ Done(j)
    /\ UNCHANGED <<subs, events, opened, changes, faults>>

(* Two purchases under way at once, unless they share a key. *)
Begins(j, r) ==
    /\ job' = [job EXCEPT ![j] = r]
    /\ crossed' = (crossed \/ \E k \in Jobs \ {j} :
                      job[k].how # "none" /\ (r.key = Nil \/ job[k].key # r.key))

(* POST /paid-transition: a second attempt resumes the first.  Its idempotency
   key is the subscription it replaces, or else the window. *)
Transition(j, p) ==
    /\ At(j, "idle") /\ acct.window # 0 /\ Eligible
    /\ Begins(j, [Idle EXCEPT !.pc = IF acct.pending = Nil THEN "create" ELSE "check",
                              !.how = "transition", !.plan = p, !.sub = acct.pending,
                              !.key = <<p, IF acct.pending = Nil THEN acct.window ELSE acct.pending>>])
    /\ UNCHANGED <<acct, subs, events, opened, changes, faults>>
(* POST /create-subscription, after _guard_plan_purchase: without a key. *)
Buy(j, p) ==
    /\ At(j, "idle") /\ ~acct.comp /\ ~Manual
    /\ Begins(j, [Idle EXCEPT !.pc = IF acct.sub = Nil THEN "create" ELSE "check",
                              !.how = "buy", !.plan = p, !.sub = acct.sub])
    /\ UNCHANGED <<acct, subs, events, opened, changes, faults>>

Secret(s) == subs' = [subs EXCEPT ![s].secret = TRUE]
Over(how) == IF how = "buy" THEN {"canceled"} ELSE {"trialing", "past_due", "canceled"}
(* Seeded fault: the one that waits for another plan is left to wait. *)
CheckLeaves(j) ==
    /\ At(j, "check")
    /\ LET r == job[j]  st == subs[r.sub].status
       IN \/ st = "active" /\ r.how = "transition" /\ Goto(j, "finish") /\ UNCHANGED subs
          \/ st \in {"active", "trialing", "past_due"} /\ r.how = "buy" /\ Done(j) /\ UNCHANGED subs
          \/ st = "incomplete" /\ subs[r.sub].plan = r.plan /\ Secret(r.sub) /\ Done(j)
          \/ st = "incomplete" /\ subs[r.sub].plan # r.plan /\ Goto(j, "create") /\ UNCHANGED subs
          \/ st \in Over(r.how) /\ Goto(j, "create") /\ UNCHANGED subs
    /\ UNCHANGED <<acct, events, opened, changes, faults, crossed>>
(* What became of the subscription on record.  A live one is changed in place
   (or, in a transition, recorded); one still waiting for its payment is resumed,
   by a transition only for the same plan; one that is over is replaced. *)
Check(j) ==
    /\ At(j, "check")
    /\ LET r == job[j]  st == subs[r.sub].status  same == r.how = "buy" \/ subs[r.sub].plan = r.plan
       IN \/ st = "active" /\ r.how = "transition" /\ Goto(j, "finish") /\ UNCHANGED <<subs, faults>>
          \/ st \in {"active", "trialing", "past_due"} /\ r.how = "buy" /\ Done(j) /\ UNCHANGED <<subs, faults>>
          \/ st = "incomplete" /\ same /\ Secret(r.sub) /\ Done(j) /\ UNCHANGED faults
          \/ st = "incomplete" /\ ~same /\ Goto(j, "cancel") /\ UNCHANGED <<subs, faults>>
          \/ st = "incomplete" /\ same /\ Fault /\ Goto(j, "cancel") /\ UNCHANGED subs
          \/ st \in Over(r.how) /\ Goto(j, "create") /\ UNCHANGED <<subs, faults>>
    /\ UNCHANGED <<acct, events, opened, changes, crossed>>

(* The one that waits is cancelled, so that it can no longer be paid: also when
   it has been paid since. *)
Cancel(j) ==
    /\ At(j, "cancel")
    /\ \/ /\ Moves(job[j].sub, "canceled") /\ Goto(j, "create") /\ UNCHANGED faults
          /\ crossed' = (crossed \/ subs[job[j].sub].paid)
       \/ /\ Fault /\ UNCHANGED <<subs, events, crossed>>
          /\ IF job[j].how = "buy" THEN Goto(j, "create") ELSE Done(j)
    /\ UNCHANGED <<acct, opened, changes>>

Replays(r) == {s \in Subs : r.key # Nil /\ subs[s].key = r.key}
(* Stripe creates, or answers as it answered the same key before.  Credit on the
   customer may pay for it at once. *)
Creates(j, s, st) ==
    /\ subs[s].status = "none"
    /\ subs' = [subs EXCEPT ![s] = [Unmade EXCEPT !.status = st, !.key = job[j].key, !.paid = st = "active",
                                          !.first = IF job[j].key = Nil THEN "none" ELSE st,
                                          !.plan = IF st = "active" THEN Nil ELSE job[j].plan]]
    /\ events' = IF st = "active" THEN Append(events, Tell("paid", s, st)) ELSE events
(* Seeded fault: the account is moved over before Stripe says it paid. *)
GoesAtOnce(j, s, st) ==
    job' = [job EXCEPT ![j].sub = s, ![j].plan = Nil,
                       ![j].st = IF job[j].how = "buy" THEN st ELSE "none",
                       ![j].pc = IF job[j].how = "buy" THEN "record" ELSE "finish"]
Goes(j, s, st) ==
    job' = [job EXCEPT ![j].sub = s, ![j].plan = Nil,
                       ![j].st = IF job[j].how = "buy" THEN st ELSE "none",
                       ![j].pc = IF job[j].how = "buy" THEN "record"
                                 ELSE IF st = "active" THEN "finish" ELSE "pending"]
Create(j) ==
    /\ At(j, "create")
    /\ IF Replays(job[j]) # {}
       THEN /\ \E s \in Replays(job[j]) : Goes(j, s, subs[s].first)
            /\ UNCHANGED <<subs, events>>
       ELSE \E s \in Subs, st \in {"incomplete", "active"} : Creates(j, s, st) /\ Goes(j, s, st)
    /\ UNCHANGED <<acct, opened, changes, faults, crossed>>
CreateRaises(j) ==
    /\ At(j, "create") /\ Fault /\ Done(j)
    /\ \/ UNCHANGED <<subs, events>>
       \/ Replays(job[j]) = {} /\ \E s \in Subs : Creates(j, s, "incomplete")
    /\ UNCHANGED <<acct, opened, changes, crossed>>

(* The row learns what waits to be paid before the customer can pay it. *)
Answer(j) == /\ Done(j)
             /\ \/ Secret(job[j].sub) /\ UNCHANGED faults
                \/ Fault /\ UNCHANGED subs
Pending(j) ==
    /\ At(j, "pending")
    /\ acct' = [acct EXCEPT !.pending = job[j].sub]
    /\ Answer(j)
    /\ UNCHANGED <<events, opened, changes, crossed>>
Record(j) ==
    /\ At(j, "record")
    /\ acct' = [acct EXCEPT !.sub = job[j].sub, !.status = job[j].st]
    /\ Answer(j)
    /\ UNCHANGED <<events, opened, changes, crossed>>

(* _finish_paid_transition: the one write of a purchase that ends comp or manual access. *)
Finish(j) ==
    /\ At(j, "finish")
    /\ acct' = [acct EXCEPT !.sub = job[j].sub, !.status = "active", !.comp = FALSE,
                            !.window = 0, !.pending = Nil]
    /\ \/ Done(j) /\ UNCHANGED <<events, faults>>
       \/ Unanswered(j) /\ Fault
    /\ UNCHANGED <<subs, opened, changes, crossed>>

(* POST /confirm-payment, from the browser whose payment went through. *)
Confirm(j, s) ==
    /\ At(j, "idle") /\ subs[s].secret /\ subs[s].status = "active"
    /\ job' = [job EXCEPT ![j] = [Idle EXCEPT !.sub = s,
                  !.pc = IF acct.pending = s THEN "retrieve" ELSE "confirm"]]
    /\ UNCHANGED <<acct, subs, events, opened, changes, faults, crossed>>
Confirmed(j) ==
    /\ At(j, "confirm")
    /\ job' = [job EXCEPT ![j].pc = "write", ![j].st = subs[job[j].sub].status]
    /\ UNCHANGED <<acct, subs, events, opened, changes, faults, crossed>>
Write(j) ==
    /\ At(j, "write")
    /\ acct' = [acct EXCEPT !.sub = job[j].sub, !.status = job[j].st]
    /\ Done(j)
    /\ UNCHANGED <<subs, events, opened, changes, faults, crossed>>

-----------------------------------------------------------------------------
(* POST /webhook.  An event is taken out of turn, or sent twice. *)
Deliver(j, i) ==
    /\ At(j, "idle")
    /\ LET e == events[i]
       IN job' = [job EXCEPT ![j] = [Idle EXCEPT !.ev = e, !.sub = e.sub, !.st = e.status,
                     !.pc = IF e.kind = "updated" /\ e.status = "active" THEN "lookup" ELSE "read"]]
    /\ \/ events' = RemoveAt(events, i) /\ UNCHANGED faults
       \/ Fault /\ UNCHANGED events
    /\ UNCHANGED <<acct, subs, opened, changes, crossed>>
Lookup(j) ==
    /\ At(j, "lookup")
    /\ Goto(j, IF acct.pending = job[j].sub THEN "retrieve" ELSE "read")
    /\ UNCHANGED <<acct, subs, events, opened, changes, faults, crossed>>
(* Only what Stripe says now finishes a transition, not what the event says. *)
Retrieve(j) ==
    /\ At(j, "retrieve")
    /\ IF subs[job[j].sub].status = "active" THEN Goto(j, "finish") ELSE Done(j)
    /\ UNCHANGED <<acct, subs, events, opened, changes, faults, crossed>>
(* Only the subscription on record; a payment clears the flag of a first charge. *)
Concerns(e) == IF e.kind = "paid" THEN acct.unpaid ELSE acct.sub = e.sub
Read(j) ==
    /\ At(j, "read")
    /\ IF Concerns(job[j].ev)
       THEN job' = [job EXCEPT ![j].pc = "apply", ![j].was = acct.status] ELSE Done(j)
    /\ UNCHANGED <<acct, subs, events, opened, changes, faults, crossed>>
(* Seeded fault: a trial that ended is not marked as unpaid. *)
AppliedStatus(r) ==
    IF r.ev.kind = "paid" THEN [acct EXCEPT !.unpaid = FALSE] ELSE [acct EXCEPT !.status = r.st]
(* The status the event carries; a trial seen to end has yet to be paid for. *)
Applied(r) ==
    CASE r.ev.kind = "paid" -> [acct EXCEPT !.unpaid = FALSE]
      [] r.ev.kind = "updated" /\ r.was = "trialing" /\ r.st # "trialing"
           -> [acct EXCEPT !.status = r.st, !.reason = TRUE, !.unpaid = TRUE]
      [] OTHER -> [acct EXCEPT !.status = r.st]
(* A statement that raises is logged, and the event answered 200 all the same. *)
Apply(j) ==
    /\ At(j, "apply") /\ Done(j)
    /\ \/ acct' = Applied(job[j]) /\ UNCHANGED faults
       \/ Fault /\ UNCHANGED acct
    /\ UNCHANGED <<subs, events, opened, changes, crossed>>

-----------------------------------------------------------------------------
(* convert_card_trial: at the minute cap, by the sweep, or from the dashboard. *)
Convert(j) ==
    /\ At(j, "idle") /\ acct.status = "trialing" /\ acct.sub # Nil /\ ~acct.reason
    /\ job' = [job EXCEPT ![j] = [Idle EXCEPT !.pc = "end_trial", !.sub = acct.sub]]
    /\ UNCHANGED <<acct, subs, events, opened, changes, faults, crossed>>
(* Stripe charges the card, or answers as it answered this key before. *)
EndTrial(j) ==
    /\ At(j, "end_trial")
    /\ LET s == job[j].sub  Note(st) == job' = [job EXCEPT ![j].pc = "note", ![j].st = st]
       IN \/ subs[s].ended # "none" /\ Note(subs[s].ended) /\ UNCHANGED <<subs, events>>
          \/ /\ subs[s].ended = "none" /\ subs[s].status = "trialing"
             /\ \E st \in {"active", "past_due"} :
                  /\ subs' = [subs EXCEPT ![s] = [Moved(s, st) EXCEPT !.ended = st]]
                  /\ events' = Told(s, st)
                  /\ Note(st)
          \/ /\ subs[s].ended = "none" /\ subs[s].status \in {"active", "past_due"}
             /\ subs' = [subs EXCEPT ![s].ended = subs[s].status] /\ Note(subs[s].status)
             /\ UNCHANGED events
          \/ subs[s].ended = "none" /\ subs[s].status = "canceled" /\ Done(j) /\ UNCHANGED <<subs, events>>
    /\ UNCHANGED <<acct, opened, changes, faults, crossed>>
EndTrialRaises(j) ==
    /\ At(j, "end_trial") /\ Fault /\ Done(j)
    /\ LET s == job[j].sub
       IN /\ subs[s].ended = "none" /\ subs[s].status = "trialing"
          /\ \E st \in {"active", "past_due"} :
               subs' = [subs EXCEPT ![s] = [Moved(s, st) EXCEPT !.ended = st]] /\ events' = Told(s, st)
    /\ UNCHANGED <<acct, opened, changes, crossed>>
Note(j) ==
    /\ At(j, "note")
    /\ acct' = [acct EXCEPT !.status = job[j].st, !.reason = TRUE, !.unpaid = TRUE]
    /\ Done(j)
    /\ UNCHANGED <<subs, events, opened, changes, faults, crossed>>

(* A statement raises, Stripe does not answer, or the process stops. *)
Stop(j) ==
    /\ ~At(j, "idle") /\ Fault /\ Unanswered(j)
    /\ UNCHANGED <<acct, subs, opened, changes, crossed>>

-----------------------------------------------------------------------------
(* The customer pays what a browser holds the secret of, or never does: Stripe
   gives up after 23 hours, when every request is long over. *)
Pay(s) == /\ subs[s].secret /\ subs[s].status = "incomplete" /\ Moves(s, "active")
          /\ UNCHANGED <<acct, job, opened, changes, faults, crossed>>
Expire(s) == /\ subs[s].status = "incomplete" /\ Quiet /\ Moves(s, "canceled")
             /\ UNCHANGED <<acct, job, opened, changes, faults, crossed>>
TrialEnds(s) == /\ subs[s].status = "trialing"
                /\ \E st \in {"active", "past_due"} : Moves(s, st)
                /\ UNCHANGED <<acct, job, opened, changes, faults, crossed>>
(* Weeks later, when Stripe has long delivered its events or given up, an invoice
   fails or is paid, or the subscription ends. *)
Later(s) ==
    /\ Quiet /\ events = <<>> /\ changes < MaxChanges /\ changes' = changes + 1
    /\ \/ subs[s].status = "active" /\ \E st \in {"past_due", "canceled"} : Moves(s, st)
       \/ subs[s].status = "past_due" /\ \E st \in {"active", "canceled"} : Moves(s, st)
       \/ subs[s].status = "trialing" /\ Moves(s, "canceled")
    /\ UNCHANGED <<acct, job, opened, faults, crossed>>

Step(j) == \/ SetPlan(j) \/ Check(j) \/ Cancel(j) \/ Create(j) \/ CreateRaises(j) \/ Pending(j) \/ Record(j)
           \/ Finish(j) \/ Confirmed(j) \/ Write(j) \/ Lookup(j) \/ Retrieve(j) \/ Read(j)
           \/ Apply(j) \/ EndTrial(j) \/ EndTrialRaises(j) \/ Note(j) \/ Stop(j)
Next == \/ Open \/ Close \/ \E exempt \in BOOLEAN : SetComp(exempt)
        \/ \E j \in Jobs : \/ \E st \in {"active", "none"} : AskPlan(j, st)
                           \/ \E p \in Plans : Transition(j, p) \/ Buy(j, p)
                           \/ \E s \in Subs : Confirm(j, s)
                           \/ \E i \in DOMAIN events : Deliver(j, i)
                           \/ Convert(j) \/ Step(j)
        \/ \E s \in Subs : Pay(s) \/ Expire(s) \/ TrialEnds(s) \/ Later(s)
Spec == Init /\ [][Next]_vars

-----------------------------------------------------------------------------
PCs == {"idle", "check", "cancel", "create", "pending", "record", "finish", "retrieve", "confirm",
        "write", "set_plan", "lookup", "read", "apply", "end_trial", "note"}
JobRecs == [pc : PCs, how : {"none", "buy", "transition"}, plan : Plans \cup {Nil},
            key : Keys \cup {Nil}, sub : Subs \cup {Nil}, st : Statuses, was : Statuses,
            ev : Events \cup {Nil}]
SubRecs == [status : Statuses, key : Keys \cup {Nil}, plan : Plans \cup {Nil},
            first : {"none", "incomplete", "active"}, ended : {"none", "active", "past_due"},
            secret : BOOLEAN, paid : BOOLEAN]
(* Types. *)
TypeOK ==
    /\ acct \in [comp : BOOLEAN, sub : Subs \cup {Nil}, status : Statuses, pending : Subs \cup {Nil},
                  window : 0..MaxWindows, reason : BOOLEAN, unpaid : BOOLEAN]
    /\ subs \in [Subs -> SubRecs]
    /\ events \in Seq(Events)
    /\ job \in [Jobs -> JobRecs]
    /\ opened \in 0..MaxWindows /\ changes \in Nat /\ faults \in Nat /\ crossed \in BOOLEAN

AtRest == Quiet /\ events = <<>>

(* Complimentary access that the admin does not take away ends in one write, and
   only for a subscription that has been paid: whatever is lost, repeated or
   overtaken on the way, and whatever the admin does meanwhile. *)
CompEndsPaid == [][acct.comp /\ ~acct'.comp /\ changes' = changes =>
                     acct'.status = "active" /\ acct'.sub # Nil /\ subs[acct'.sub].paid]_vars

(* A transition that was paid is not stranded: once every webhook was answered
   200, the account is on the subscription it paid for, and complimentary no more
   unless the admin made it so again. *)
PaidIsFinished ==
    AtRest /\ ~crossed /\ acct.pending # Nil /\ subs[acct.pending].status = "active"
      => acct.sub = acct.pending /\ (acct.comp => changes > 0)

Billed == {s \in Subs : subs[s].status \in {"trialing", "active", "past_due"}}
Payable == {s \in Subs : subs[s].status = "incomplete" /\ subs[s].secret}
(* Nobody pays twice: at most one subscription is billed, or waits in somebody's
   browser to be paid, however often plans are picked, dropped and picked again.
   Two purchases that cross under different keys are the exception, and so are a
   transition whose access the admin takes away meanwhile and a creation whose
   answer is lost before another plan is picked. *)
OneLive == ~crossed /\ faults = 0 => Cardinality(Billed \cup Payable) <= 1

(* A trial whose first charge bounced does not go on being served: whoever ended
   it, the row ends up as trial.conversion_payment_failed wants it. *)
UnpaidIsCut ==
    AtRest /\ faults = 0 /\ acct.sub # Nil
      => (subs[acct.sub].status = "past_due" /\ ~subs[acct.sub].paid
            => acct.status = "past_due" /\ acct.unpaid)
=============================================================================
