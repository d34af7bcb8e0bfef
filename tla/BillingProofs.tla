---------------------------- MODULE BillingProofs ----------------------------
(* Billing's safety properties, for any number of subscriptions, plans, requests,
   windows, changes and faults.  Each rests on the one before:

     Base        types, what a request in hand says, what Stripe keeps; always.
     Trials      what is known of the trial before and after it ended, while
                 nothing raises.
     OneByOne    one purchase at a time: the row is about the one subscription
                 that can be paid; until purchases cross.
     AtMostOne   at most one is billed or waits in a browser; until purchases
                 cross or something raises.                                   *)
EXTENDS Billing, FiniteSetTheorems, TLAPS

-----------------------------------------------------------------------------
(* The queue of events                                                       *)

\* Is e one of the events of q.
In(e, q) == \E i \in DOMAIN q : q[i] = e

\* What is told comes after what waits.
LEMMA ConcatIn ==
    ASSUME NEW q \in Seq(Events), NEW p \in Seq(Events)
    PROVE  /\ q \o p \in Seq(Events)
           /\ \A e : In(e, q \o p) <=> In(e, q) \/ In(e, p)
<1>1. q \o p \in Seq(Events) /\ DOMAIN (q \o p) = 1..(Len(q) + Len(p))
    OBVIOUS
<1>2. \A i \in DOMAIN (q \o p) : (q \o p)[i] = IF i <= Len(q) THEN q[i] ELSE p[i - Len(q)]
    OBVIOUS
<1>3. \A i \in DOMAIN q : i \in DOMAIN (q \o p) /\ (q \o p)[i] = q[i]
    BY <1>1, <1>2
<1>4. \A i \in DOMAIN p : i + Len(q) \in DOMAIN (q \o p) /\ (q \o p)[i + Len(q)] = p[i]
    BY <1>1, <1>2
<1>5. ASSUME NEW i \in DOMAIN (q \o p)
      PROVE  In((q \o p)[i], q) \/ In((q \o p)[i], p)
    <2>1. CASE i <= Len(q)
        BY <1>1, <1>2, <2>1 DEF In
    <2>2. CASE ~(i <= Len(q))
        <3>1. i - Len(q) \in DOMAIN p /\ (q \o p)[i] = p[i - Len(q)]
            BY <1>1, <1>2, <2>2
        <3> QED BY <3>1 DEF In
    <2> QED BY <2>1, <2>2
<1> QED BY <1>1, <1>3, <1>4, <1>5 DEF In

LEMMA AppendIn ==
    ASSUME NEW q \in Seq(Events), NEW x \in Events
    PROVE  /\ Append(q, x) \in Seq(Events)
           /\ \A e : In(e, Append(q, x)) <=> In(e, q) \/ e = x
<1>1. Append(q, x) \in Seq(Events) /\ DOMAIN Append(q, x) = 1..(Len(q) + 1)
    OBVIOUS
<1>2. /\ \A i \in DOMAIN q : i \in DOMAIN Append(q, x) /\ Append(q, x)[i] = q[i]
      /\ Append(q, x)[Len(q) + 1] = x /\ Len(q) + 1 \in DOMAIN Append(q, x)
    BY <1>1
<1>3. \A i \in DOMAIN Append(q, x) : i = Len(q) + 1 \/ i \in DOMAIN q
    BY <1>1
<1> QED BY <1>1, <1>2, <1>3 DEF In

\* Taking one out of turn loses that one and no other.
LEMMA RemoveIn ==
    ASSUME NEW q \in Seq(Events), NEW i \in DOMAIN q
    PROVE  /\ RemoveAt(q, i) \in Seq(Events)
           /\ \A e : In(e, RemoveAt(q, i)) => In(e, q)
           /\ \A e : In(e, q) => In(e, RemoveAt(q, i)) \/ e = q[i]
<1> DEFINE a == SubSeq(q, 1, i - 1)
           b == SubSeq(q, i + 1, Len(q))
<1>0. i \in 1..Len(q) /\ Len(q) \in Nat /\ DOMAIN q = 1..Len(q) /\ \A k \in 1..Len(q) : q[k] \in Events
    OBVIOUS
<1>1. a \in Seq(Events) /\ Len(a) = i - 1 /\ \A k \in 1..(i - 1) : a[k] = q[k]
    BY <1>0
<1>2. b \in Seq(Events) /\ Len(b) = Len(q) - i /\ \A k \in 1..(Len(q) - i) : b[k] = q[i + k]
    <2>1. b \in Seq(Events) /\ Len(b) = Len(q) - i
        BY <1>0
    <2>2. ASSUME NEW k \in 1..(Len(q) - i) PROVE b[k] = q[i + k]
        <3>1. k \in 1..(Len(q) - (i + 1) + 1) /\ (i + 1) + k - 1 = i + k
            BY <1>0
        <3> QED BY <1>0, <3>1
    <2> QED BY <2>1, <2>2
<1>3. DOMAIN a = 1..(i - 1) /\ DOMAIN b = 1..(Len(q) - i)
    BY <1>1, <1>2
<1>4. RemoveAt(q, i) = a \o b
    BY DEF RemoveAt
<1>5. \A e : In(e, a) => In(e, q)
    <2> SUFFICES ASSUME NEW e, NEW k \in DOMAIN a, a[k] = e PROVE In(e, q)
        BY DEF In
    <2>1. k \in DOMAIN q /\ q[k] = e
        BY <1>0, <1>1, <1>3
    <2> QED BY <2>1 DEF In
<1>6. \A e : In(e, b) => In(e, q)
    <2> SUFFICES ASSUME NEW e, NEW k \in DOMAIN b, b[k] = e PROVE In(e, q)
        BY DEF In
    <2>1. i + k \in DOMAIN q /\ q[i + k] = e
        BY <1>0, <1>2, <1>3
    <2> QED BY <2>1 DEF In
<1>7. \A e : In(e, q) => In(e, a) \/ In(e, b) \/ e = q[i]
    <2> SUFFICES ASSUME NEW e, NEW k \in DOMAIN q, q[k] = e PROVE In(e, a) \/ In(e, b) \/ e = q[i]
        BY DEF In
    <2>1. CASE k < i
        <3>1. k \in DOMAIN a /\ a[k] = e
            BY <1>0, <1>1, <1>3, <2>1
        <3> QED BY <3>1 DEF In
    <2>2. CASE k > i
        <3>0. k - i \in 1..(Len(q) - i) /\ i + (k - i) = k
            BY <1>0, <2>2
        <3>1. k - i \in DOMAIN b /\ b[k - i] = e
            BY <1>2, <1>3, <3>0
        <3> QED BY <3>1 DEF In
    <2> QED BY <1>0, <2>1, <2>2
<1> HIDE DEF a, b
<1>8. a \o b \in Seq(Events) /\ \A e : In(e, a \o b) <=> In(e, a) \/ In(e, b)
    BY <1>1, <1>2, ConcatIn
<1> QED BY <1>4, <1>5, <1>6, <1>7, <1>8

\* What Stripe says when it moves s to st.
News(s, st) == CASE st = "canceled" -> {Tell("deleted", s, st)}
                 [] st = "active" -> {Tell("updated", s, st), Tell("paid", s, st)}
                 [] OTHER -> {Tell("updated", s, st)}

LEMMA TellType ==
    ASSUME NEW kind \in {"updated", "deleted", "paid"}, NEW s \in Subs, NEW st \in Statuses
    PROVE  Tell(kind, s, st) \in Events
BY DEF Tell, Events

LEMMA ToldIn ==
    ASSUME TypeOK, NEW s \in Subs, NEW st \in Statuses
    PROVE  /\ Told(s, st) \in Seq(Events)
           /\ \A e : In(e, Told(s, st)) <=> In(e, events) \/ e \in News(s, st)
<1>1. events \in Seq(Events)
    BY DEF TypeOK
<1>2. CASE st = "canceled"
    <2> DEFINE p == <<Tell("deleted", s, st)>>
    <2>1. p \in Seq(Events) /\ \A e : In(e, p) <=> e = Tell("deleted", s, st)
        BY TellType DEF In
    <2>2. Told(s, st) = events \o p /\ News(s, st) = {Tell("deleted", s, st)}
        BY <1>2 DEF Told, News
    <2> HIDE DEF p
    <2> QED BY <1>1, <2>1, <2>2, ConcatIn
<1>3. CASE st = "active"
    <2> DEFINE p == <<Tell("updated", s, st), Tell("paid", s, st)>>
    <2>1. p \in Seq(Events) /\ \A e : In(e, p) <=> e \in {Tell("updated", s, st), Tell("paid", s, st)}
        BY TellType DEF In
    <2>2. Told(s, st) = events \o p /\ News(s, st) = {Tell("updated", s, st), Tell("paid", s, st)}
        BY <1>3 DEF Told, News
    <2> HIDE DEF p
    <2> QED BY <1>1, <2>1, <2>2, ConcatIn
<1>4. CASE st \notin {"canceled", "active"}
    <2> DEFINE p == <<Tell("updated", s, st)>>
    <2>1. p \in Seq(Events) /\ \A e : In(e, p) <=> e = Tell("updated", s, st)
        BY TellType DEF In
    <2>2. Told(s, st) = events \o p /\ News(s, st) = {Tell("updated", s, st)}
        BY <1>4 DEF Told, News
    <2> HIDE DEF p
    <2> QED BY <1>1, <2>1, <2>2, ConcatIn
<1> QED BY <1>2, <1>3, <1>4

-----------------------------------------------------------------------------
(* The first invariant: what a request in hand says, and what Stripe keeps   *)

\* The admin's two changes of access.
Grants == \E exempt \in BOOLEAN : SetComp(exempt)
Asks(j) == \E st \in {"active", "none"} : AskPlan(j, st)

Made(s) == subs[s].status # "none"
Keyed(s) == subs[s].key # Nil

\* What a job knows of the subscription it is about, by where it is.
Known(r) ==
    /\ r.pc \notin {"idle", "create", "set_plan"} => r.sub # Nil
    /\ r.sub # Nil => Made(r.sub)
    /\ r.pc = "record" => ~Keyed(r.sub) /\ r.st \in {"incomplete", "active"}
    /\ r.pc = "pending" => subs[r.sub].key = r.key /\ subs[r.sub].first = "incomplete"
    /\ r.pc = "finish" => subs[r.sub].paid
    /\ r.pc = "finish" /\ r.how = "transition" =>
          r.sub = r.key[2] \/ (subs[r.sub].key = r.key /\ subs[r.sub].first = "active")

\* Who may be where: a purchase without a key, one with, and a webhook with its event.
Placed(r) ==
    /\ r.pc = "idle" => r = Idle
    /\ r.pc \in {"check", "cancel", "create", "pending", "record"} => r.how # "none"
    /\ r.how = "buy" => r.key = Nil /\ r.pc \in {"check", "cancel", "create", "record"}
    /\ r.how = "transition" => r.key \in Keys /\ r.pc \in {"check", "cancel", "create", "pending", "finish"}
    /\ r.how = "transition" /\ r.pc \in {"check", "cancel"} => r.sub = r.key[2]
    /\ r.how = "transition" /\ r.pc = "create" => r.sub = r.key[2] \/ r.key[2] \notin Subs
    /\ r.how # "none" => r.ev = Nil
    /\ r.pc \in {"lookup", "read", "apply"} => r.ev # Nil
    /\ r.ev # Nil => r.pc \in {"lookup", "read", "apply", "retrieve", "finish"}
    /\ r.ev # Nil => r.sub = r.ev.sub /\ r.st = r.ev.status
    /\ r.ev # Nil /\ r.pc \in {"lookup", "retrieve", "finish"} => r.ev.kind = "updated" /\ r.ev.status = "active"
    /\ r.pc = "set_plan" => r.st \in {"active", "none"}

\* What Stripe knows: none is active, or was answered to be, that was not paid, and one
\* created under a key is paid by a browser that holds its secret or at its creation.
Sound(x) ==
    /\ x.status = "none" => x = Unmade
    /\ x.status = "incomplete" => ~x.paid
    /\ "active" \in {x.status, x.first, x.ended} => x.paid
    /\ x.key # Nil => x.status # "trialing" /\ x.first # "none"
    /\ x.key # Nil /\ x.status = "past_due" => x.paid
    /\ x.key # Nil /\ x.paid /\ ~x.secret => x.first = "active"

AllSound == \A s \in Subs : Sound(subs[s])

\* A key creates one subscription.
KeysDiffer == \A s, t \in Subs : Keyed(s) /\ subs[s].key = subs[t].key => s = t

\* The events are about subscriptions there are, and so is the row.
RowKnown ==
    /\ acct.sub # Nil => Made(acct.sub)
    /\ acct.pending # Nil => /\ Made(acct.pending) /\ Keyed(acct.pending)
                             /\ subs[acct.pending].first = "incomplete"

Base ==
    /\ TypeOK
    /\ \A j \in Jobs : Known(job[j]) /\ Placed(job[j])
    /\ AllSound
    /\ KeysDiffer
    /\ \A e : In(e, events) => Made(e.sub)
    /\ RowKnown

-----------------------------------------------------------------------------
(* Types                                                                     *)

LEMMA IdleType == Idle \in JobRecs
BY DEF Idle, JobRecs, PCs, Statuses

LEMMA UnmadeType == Unmade \in SubRecs
BY DEF Unmade, SubRecs, Statuses

\* A move keeps a subscription's record one.
LEMMA MovedType ==
    ASSUME TypeOK, NEW s \in Subs, NEW st \in Statuses
    PROVE  Moved(s, st) \in SubRecs
<1> DEFINE b == subs[s].paid \/ st = "active"
<1>1. subs[s] \in SubRecs
    BY DEF TypeOK
<1>2. b \in BOOLEAN
    OBVIOUS
<1>3. Moved(s, st) = [subs[s] EXCEPT !.status = st, !.paid = b, !.plan = Nil]
    BY DEF Moved
<1> HIDE DEF b
<1> QED BY <1>1, <1>2, <1>3 DEF SubRecs

LEMMA InitType == Init => TypeOK
<1> SUFFICES ASSUME Init PROVE TypeOK
    OBVIOUS
<1> PICK kind \in Kinds, trial \in Subs :
        /\ acct = [comp |-> kind = "comp", sub |-> IF kind = "trial" THEN trial ELSE Nil,
                   status |-> CASE kind = "manual" -> "active" [] kind = "trial" -> "trialing" [] OTHER -> "none",
                   pending |-> Nil, window |-> 0, reason |-> FALSE, unpaid |-> FALSE]
        /\ subs = [s \in Subs |-> IF kind = "trial" /\ s = trial
                                  THEN [Unmade EXCEPT !.status = "trialing"] ELSE Unmade]
        /\ events = <<>>
        /\ job = [j \in Jobs |-> Idle]
        /\ opened = 0 /\ changes = 0 /\ faults = 0 /\ crossed = FALSE
    BY DEF Init
<1>1. [Unmade EXCEPT !.status = "trialing"] \in SubRecs
    BY DEF Unmade, SubRecs, Statuses
<1>2. subs \in [Subs -> SubRecs]
    BY <1>1, UnmadeType
<1>3. (CASE kind = "manual" -> "active" [] kind = "trial" -> "trialing" [] OTHER -> "none") \in Statuses
    BY DEF Statuses
<1>4. job \in [Jobs -> JobRecs]
    BY IdleType
<1>5. acct \in [comp : BOOLEAN, sub : Subs \cup {Nil}, status : Statuses, pending : Subs \cup {Nil},
                window : 0..MaxWindows, reason : BOOLEAN, unpaid : BOOLEAN]
    <2> DEFINE st == CASE kind = "manual" -> "active" [] kind = "trial" -> "trialing" [] OTHER -> "none"
               b == kind = "comp"
               x == IF kind = "trial" THEN trial ELSE Nil
    <2>1. st \in Statuses /\ b \in BOOLEAN /\ x \in Subs \cup {Nil} /\ 0 \in 0..MaxWindows
        BY <1>3, WindowAssumption
    <2>2. acct = [comp |-> b, sub |-> x, status |-> st, pending |-> Nil, window |-> 0,
                  reason |-> FALSE, unpaid |-> FALSE]
        OBVIOUS
    <2> HIDE DEF st, b, x
    <2> QED BY <2>1, <2>2
<1>6. events \in Seq(Events) /\ opened \in 0..MaxWindows /\ changes \in Nat /\ faults \in Nat
      /\ crossed \in BOOLEAN
    <2>1. <<>> \in Seq(Events) /\ 0 \in 0..MaxWindows /\ 0 \in Nat /\ FALSE \in BOOLEAN
        BY WindowAssumption
    <2>2. events = <<>> /\ opened = 0 /\ changes = 0 /\ faults = 0 /\ crossed = FALSE
        OBVIOUS
    <2> QED BY <2>1, <2>2
<1> QED BY <1>2, <1>4, <1>5, <1>6 DEF TypeOK

\* The account's requests and the admin's.
LEMMA StartType ==
    ASSUME TypeOK, NEW j \in Jobs,
           \/ Open \/ Close \/ Grants
           \/ \E p \in Plans : Transition(j, p) \/ Buy(j, p)
           \/ \E s \in Subs : Confirm(j, s)
           \/ Convert(j) \/ Asks(j)
    PROVE  TypeOK'
<1>1. CASE Open
    BY <1>1, WindowAssumption DEF TypeOK, Open
<1>2. CASE Close
    BY <1>2, WindowAssumption DEF TypeOK, Close
<1>3. ASSUME NEW p \in Plans, Transition(j, p) PROVE TypeOK'
    <2> DEFINE r == [Idle EXCEPT !.pc = IF acct.pending = Nil THEN "create" ELSE "check",
                              !.how = "transition", !.plan = p, !.sub = acct.pending,
                              !.key = <<p, IF acct.pending = Nil THEN acct.window ELSE acct.pending>>]
    <2>1. <<p, IF acct.pending = Nil THEN acct.window ELSE acct.pending>> \in Keys
        BY WindowAssumption DEF TypeOK, Keys
    <2>2. r \in JobRecs
        BY <2>1 DEF TypeOK, Idle, JobRecs, PCs, Statuses
    <2>3. job' = [job EXCEPT ![j] = r] /\ crossed' \in BOOLEAN
        BY <1>3 DEF Transition, Begins, TypeOK
    <2>4. UNCHANGED <<acct, subs, events, opened, changes, faults>>
        BY <1>3 DEF Transition
    <2> HIDE DEF r
    <2> QED BY <2>2, <2>3, <2>4 DEF TypeOK
<1>4. ASSUME NEW p \in Plans, Buy(j, p) PROVE TypeOK'
    <2> DEFINE r == [Idle EXCEPT !.pc = IF acct.sub = Nil THEN "create" ELSE "check",
                              !.how = "buy", !.plan = p, !.sub = acct.sub]
    <2>2. r \in JobRecs
        BY DEF TypeOK, Idle, JobRecs, PCs, Statuses
    <2>3. job' = [job EXCEPT ![j] = r] /\ crossed' \in BOOLEAN
        BY <1>4 DEF Buy, Begins, TypeOK
    <2>4. UNCHANGED <<acct, subs, events, opened, changes, faults>>
        BY <1>4 DEF Buy
    <2> HIDE DEF r
    <2> QED BY <2>2, <2>3, <2>4 DEF TypeOK
<1>5. ASSUME NEW s \in Subs, Confirm(j, s) PROVE TypeOK'
    <2> DEFINE r == [Idle EXCEPT !.sub = s, !.pc = IF acct.pending = s THEN "retrieve" ELSE "confirm"]
    <2>2. r \in JobRecs
        BY DEF TypeOK, Idle, JobRecs, PCs, Statuses
    <2>3. job' = [job EXCEPT ![j] = r] /\ UNCHANGED <<acct, subs, events, opened, changes, faults, crossed>>
        BY <1>5 DEF Confirm
    <2> HIDE DEF r
    <2> QED BY <2>2, <2>3 DEF TypeOK
<1>6. CASE Convert(j)
    <2> DEFINE r == [Idle EXCEPT !.pc = "end_trial", !.sub = acct.sub]
    <2>2. r \in JobRecs
        BY DEF TypeOK, Idle, JobRecs, PCs, Statuses
    <2>3. job' = [job EXCEPT ![j] = r] /\ UNCHANGED <<acct, subs, events, opened, changes, faults, crossed>>
        BY <1>6 DEF Convert
    <2> HIDE DEF r
    <2> QED BY <2>2, <2>3 DEF TypeOK
<1>7. ASSUME NEW exempt \in BOOLEAN, SetComp(exempt) PROVE TypeOK'
    <2>1. acct' = [acct EXCEPT !.comp = exempt] /\ changes' = changes + 1
          /\ UNCHANGED <<subs, events, job, opened, faults>>
        BY <1>7 DEF SetComp, ByHand
    <2>2. crossed' \in BOOLEAN
        BY <1>7 DEF SetComp, TypeOK
    <2> QED BY <2>1, <2>2 DEF TypeOK
<1>8. ASSUME NEW st \in {"active", "none"}, AskPlan(j, st) PROVE TypeOK'
    <2> DEFINE r == [Idle EXCEPT !.pc = "set_plan", !.st = st]
    <2>2. r \in JobRecs
        BY DEF Idle, JobRecs, PCs, Statuses
    <2>3. job' = [job EXCEPT ![j] = r] /\ changes' = changes + 1
          /\ UNCHANGED <<acct, subs, events, opened, faults, crossed>>
        BY <1>8 DEF AskPlan, ByHand
    <2> HIDE DEF r
    <2> QED BY <2>2, <2>3 DEF TypeOK
<1> QED BY <1>1, <1>2, <1>3, <1>4, <1>5, <1>6, <1>7, <1>8 DEF Grants, Asks

\* A job that goes on, or ends, is a job.
LEMMA JobType ==
    ASSUME TypeOK, NEW j \in Jobs
    PROVE  /\ \A pc \in PCs : Goto(j, pc) => job' \in [Jobs -> JobRecs]
           /\ Done(j) => job' \in [Jobs -> JobRecs]
<1>1. ASSUME NEW pc \in PCs, Goto(j, pc) PROVE job' \in [Jobs -> JobRecs]
    BY <1>1 DEF TypeOK, Goto, JobRecs
<1>2. ASSUME Done(j) PROVE job' \in [Jobs -> JobRecs]
    BY <1>2, IdleType DEF TypeOK, Done
<1> QED BY <1>1, <1>2

LEMMA SecretType ==
    ASSUME TypeOK, NEW s \in Subs, Secret(s)
    PROVE  subs' \in [Subs -> SubRecs]
<1>1. subs[s] \in SubRecs /\ TRUE \in BOOLEAN
    BY DEF TypeOK
<1>2. [subs[s] EXCEPT !.secret = TRUE] \in SubRecs
    BY <1>1 DEF SubRecs
<1>3. subs' = [subs EXCEPT ![s] = [subs[s] EXCEPT !.secret = TRUE]]
    BY DEF Secret
<1> QED BY <1>2, <1>3 DEF TypeOK

LEMMA MovesType ==
    ASSUME TypeOK, NEW s \in Subs, NEW st \in Statuses, Moves(s, st)
    PROVE  subs' \in [Subs -> SubRecs] /\ events' \in Seq(Events)
<1>1. subs' = [subs EXCEPT ![s] = Moved(s, st)] /\ events' = Told(s, st)
    BY DEF Moves
<1>2. Moved(s, st) \in SubRecs /\ Told(s, st) \in Seq(Events)
    BY MovedType, ToldIn
<1> QED BY <1>1, <1>2 DEF TypeOK

LEMMA UnansweredType ==
    ASSUME TypeOK, NEW j \in Jobs, Unanswered(j)
    PROVE  job' \in [Jobs -> JobRecs] /\ events' \in Seq(Events)
<1>1. job' \in [Jobs -> JobRecs]
    BY JobType DEF Unanswered
<1>2. job[j].ev \in Events \cup {Nil} /\ events \in Seq(Events)
    BY DEF TypeOK, JobRecs
<1>3. events' \in Seq(Events)
    BY <1>2, AppendIn DEF Unanswered
<1> QED BY <1>1, <1>3

LEMMA CreatesType ==
    ASSUME TypeOK, NEW j \in Jobs, NEW s \in Subs, NEW st \in {"incomplete", "active"}, Creates(j, s, st)
    PROVE  subs' \in [Subs -> SubRecs] /\ events' \in Seq(Events)
<1> DEFINE x == [Unmade EXCEPT !.status = st, !.key = job[j].key, !.paid = st = "active",
                               !.first = IF job[j].key = Nil THEN "none" ELSE st,
                               !.plan = IF st = "active" THEN Nil ELSE job[j].plan]
<1>1. job[j].key \in Keys \cup {Nil} /\ job[j].plan \in Plans \cup {Nil}
    BY DEF TypeOK, JobRecs
<1>2. (st = "active") \in BOOLEAN /\ st \in Statuses
    BY DEF Statuses
<1>3. x \in SubRecs
    BY <1>1, <1>2 DEF Unmade, SubRecs
<1>4. subs' = [subs EXCEPT ![s] = x]
    BY DEF Creates
<1>5. events' \in Seq(Events)
    <2>1. Tell("paid", s, st) \in Events
        BY <1>2, TellType
    <2> QED BY <2>1, AppendIn DEF Creates, TypeOK
<1> HIDE DEF x
<1> QED BY <1>3, <1>4, <1>5 DEF TypeOK

\* Where Stripe's answer to a creation takes a purchase.
LEMMA GoesType ==
    ASSUME TypeOK, NEW j \in Jobs, NEW s \in Subs, NEW st \in Statuses, Goes(j, s, st)
    PROVE  job' \in [Jobs -> JobRecs]
<1> DEFINE r == [job[j] EXCEPT !.sub = s, !.plan = Nil, !.st = IF job[j].how = "buy" THEN st ELSE "none",
                       !.pc = IF job[j].how = "buy" THEN "record"
                                 ELSE IF st = "active" THEN "finish" ELSE "pending"]
<1>1. r \in JobRecs
    <2>1. job[j] \in JobRecs
        BY DEF TypeOK
    <2> DEFINE to == IF job[j].how = "buy" THEN "record" ELSE IF st = "active" THEN "finish" ELSE "pending"
               as == IF job[j].how = "buy" THEN st ELSE "none"
    <2>2. to \in PCs /\ as \in Statuses
        BY DEF PCs, Statuses
    <2>3. r = [job[j] EXCEPT !.sub = s, !.plan = Nil, !.st = as, !.pc = to]
        OBVIOUS
    <2> HIDE DEF to, as, r
    <2> QED BY <2>1, <2>2, <2>3 DEF JobRecs
<1>2. job' = [job EXCEPT ![j] = r]
    BY DEF Goes, TypeOK, JobRecs
<1> HIDE DEF r
<1> QED BY <1>1, <1>2 DEF TypeOK

LEMMA StepType ==
    ASSUME Base, NEW j \in Jobs, Step(j)
    PROVE  TypeOK'
<1> USE DEF Base
<1>0. /\ job[j] \in JobRecs /\ job[j].sub \in Subs \cup {Nil} /\ job[j].st \in Statuses
      /\ \A s \in Subs : subs[s] \in SubRecs
      /\ \A s \in Subs : subs[s].status \in Statuses /\ subs[s].first \in Statuses
    BY DEF TypeOK, JobRecs, SubRecs, Statuses
<1>n. ~At(j, "idle") /\ ~At(j, "create") /\ ~At(j, "set_plan") => job[j].sub \in Subs
    BY <1>0 DEF Known, At
<1>f. Fault => faults' \in Nat
    BY DEF Fault, TypeOK
<1>s. {"canceled", "active", "past_due", "incomplete", "trialing", "none"} \subseteq Statuses
    BY DEF Statuses
<1>p. {"finish", "cancel", "create", "write", "retrieve", "read"} \subseteq PCs
    BY DEF PCs
<1> HIDE DEF Base
<1>t. TypeOK
    BY DEF Base
<1>1. CASE Check(j)
    <2>1. job' \in [Jobs -> JobRecs]
        BY <1>1, <1>t, <1>p, JobType DEF Check
    <2>2. subs' \in [Subs -> SubRecs]
        <3>1. CASE UNCHANGED subs
            BY <1>t, <3>1 DEF TypeOK
        <3>2. CASE Secret(job[j].sub)
            BY <1>1, <3>2, <1>n, <1>t, SecretType DEF Check, At
        <3> QED BY <1>1, <3>1, <3>2 DEF Check
    <2>3. faults' \in Nat
        BY <1>1, <1>f, <1>t DEF Check, TypeOK
    <2> QED BY <1>1, <1>t, <2>1, <2>2, <2>3 DEF Check, TypeOK
<1>2. CASE Cancel(j)
    <2>1. job' \in [Jobs -> JobRecs]
        BY <1>2, <1>t, <1>p, JobType DEF Cancel
    <2>2. subs' \in [Subs -> SubRecs] /\ events' \in Seq(Events)
        <3>1. CASE UNCHANGED <<subs, events>>
            BY <1>t, <3>1 DEF TypeOK
        <3>2. CASE Moves(job[j].sub, "canceled")
            BY <1>2, <1>t, <1>n, <3>2, <1>s, MovesType DEF Cancel, At
        <3> QED BY <1>2, <3>1, <3>2 DEF Cancel
    <2>3. faults' \in Nat /\ crossed' \in BOOLEAN
        BY <1>2, <1>t, <1>f DEF Cancel, TypeOK
    <2> QED BY <1>2, <1>t, <2>1, <2>2, <2>3 DEF Cancel, TypeOK
<1>3. CASE Create(j)
    <2>1. job' \in [Jobs -> JobRecs]
        BY <1>3, <1>t, <1>0, <1>s, GoesType DEF Create, Replays
    <2>2. subs' \in [Subs -> SubRecs] /\ events' \in Seq(Events)
        BY <1>3, <1>t, CreatesType DEF Create, TypeOK
    <2> QED BY <1>3, <1>t, <2>1, <2>2 DEF Create, TypeOK
<1>4. CASE CreateRaises(j)
    <2>1. job' \in [Jobs -> JobRecs]
        BY <1>4, <1>t, JobType DEF CreateRaises
    <2>2. subs' \in [Subs -> SubRecs] /\ events' \in Seq(Events)
        BY <1>4, <1>t, CreatesType DEF CreateRaises, TypeOK
    <2> QED BY <1>4, <1>t, <1>f, <2>1, <2>2 DEF CreateRaises, TypeOK
<1>a. ASSUME Answer(j), job[j].sub \in Subs
      PROVE  job' \in [Jobs -> JobRecs] /\ subs' \in [Subs -> SubRecs] /\ faults' \in Nat
    <2>1. job' \in [Jobs -> JobRecs]
        BY <1>a, <1>t, JobType DEF Answer
    <2>2. subs' \in [Subs -> SubRecs]
        BY <1>a, <1>t, SecretType DEF Answer, TypeOK
    <2> QED BY <1>a, <1>t, <1>f, <2>1, <2>2 DEF Answer, TypeOK
<1>5. CASE Pending(j)
    <2>1. Answer(j) /\ job[j].sub \in Subs
        BY <1>5, <1>n DEF Pending, At
    <2> QED BY <1>5, <1>a, <1>t, <2>1 DEF Pending, TypeOK
<1>6. CASE Record(j)
    <2>1. Answer(j) /\ job[j].sub \in Subs
        BY <1>6, <1>n DEF Record, At
    <2> QED BY <1>6, <1>a, <1>t, <1>0, <2>1 DEF Record, TypeOK
<1>7. CASE Finish(j)
    <2>1. job[j].sub \in Subs
        BY <1>7, <1>n DEF Finish, At
    <2>2. job' \in [Jobs -> JobRecs] /\ events' \in Seq(Events)
        BY <1>7, <1>t, JobType, UnansweredType DEF Finish, TypeOK
    <2>3. acct' \in [comp : BOOLEAN, sub : Subs \cup {Nil}, status : Statuses, pending : Subs \cup {Nil},
                  window : 0..MaxWindows, reason : BOOLEAN, unpaid : BOOLEAN]
        <3>1. 0 \in 0..MaxWindows /\ "active" \in Statuses /\ FALSE \in BOOLEAN
            BY <1>s, WindowAssumption
        <3>2. acct' = [acct EXCEPT !.sub = job[j].sub, !.status = "active", !.comp = FALSE,
                            !.window = 0, !.pending = Nil]
            BY <1>7 DEF Finish
        <3>3. acct \in [comp : BOOLEAN, sub : Subs \cup {Nil}, status : Statuses, pending : Subs \cup {Nil},
                      window : 0..MaxWindows, reason : BOOLEAN, unpaid : BOOLEAN]
            BY <1>t DEF TypeOK
        <3> QED BY <2>1, <3>1, <3>2, <3>3
    <2> QED BY <1>7, <1>t, <1>f, <2>2, <2>3 DEF Finish, TypeOK
<1>8. CASE Confirmed(j)
    <2>1. job[j].sub \in Subs /\ subs[job[j].sub].status \in Statuses
        BY <1>8, <1>n, <1>0 DEF Confirmed, At
    <2>2. [job[j] EXCEPT !.pc = "write", !.st = subs[job[j].sub].status] \in JobRecs
        BY <2>1, <1>0, <1>p DEF JobRecs
    <2>3. job' = [job EXCEPT ![j] = [job[j] EXCEPT !.pc = "write", !.st = subs[job[j].sub].status]]
        BY <1>8 DEF Confirmed
    <2> QED BY <1>8, <1>t, <2>2, <2>3 DEF Confirmed, TypeOK
<1>9. CASE Write(j)
    <2>1. job[j].sub \in Subs /\ job' \in [Jobs -> JobRecs]
        BY <1>9, <1>n, <1>t, JobType DEF Write, At
    <2> QED BY <1>9, <1>t, <1>0, <2>1 DEF Write, TypeOK
<1>10. CASE Lookup(j)
    <2>1. job' \in [Jobs -> JobRecs]
        BY <1>10, <1>p, <1>t, JobType DEF Lookup
    <2> QED BY <1>10, <1>t, <2>1 DEF Lookup, TypeOK
<1>11. CASE Retrieve(j)
    <2>1. job' \in [Jobs -> JobRecs]
        BY <1>11, <1>p, <1>t, JobType DEF Retrieve
    <2> QED BY <1>11, <1>t, <2>1 DEF Retrieve, TypeOK
<1>12. CASE Read(j)
    <2>1. acct.status \in Statuses /\ "apply" \in PCs
        BY <1>t DEF TypeOK, PCs
    <2>2. [job[j] EXCEPT !.pc = "apply", !.was = acct.status] \in JobRecs
        BY <2>1, <1>0 DEF JobRecs
    <2>3. job' \in [Jobs -> JobRecs]
        <3>1. CASE Done(j)
            BY <3>1, <1>t, JobType
        <3>2. CASE job' = [job EXCEPT ![j].pc = "apply", ![j].was = acct.status]
            BY <3>2, <2>2, <1>t DEF TypeOK
        <3> QED BY <1>12, <3>1, <3>2 DEF Read
    <2> QED BY <1>12, <1>t, <2>3 DEF Read, TypeOK
<1>13. CASE Apply(j)
    <2>1. job' \in [Jobs -> JobRecs]
        BY <1>13, <1>t, JobType DEF Apply
    <2>2. acct' \in [comp : BOOLEAN, sub : Subs \cup {Nil}, status : Statuses, pending : Subs \cup {Nil},
                  window : 0..MaxWindows, reason : BOOLEAN, unpaid : BOOLEAN]
        BY <1>13, <1>t, <1>0 DEF Apply, Applied, TypeOK
    <2>3. faults' \in Nat
        BY <1>13, <1>t, <1>f DEF Apply, TypeOK
    <2> QED BY <1>13, <1>t, <2>1, <2>2, <2>3 DEF Apply, TypeOK
<1>e. ASSUME NEW s \in Subs, NEW st \in {"active", "past_due"}
      PROVE  /\ [Moved(s, st) EXCEPT !.ended = st] \in SubRecs
             /\ [subs[s] EXCEPT !.ended = st] \in SubRecs
             /\ Told(s, st) \in Seq(Events)
    <2>1. Moved(s, st) \in SubRecs /\ Told(s, st) \in Seq(Events) /\ subs[s] \in SubRecs
        BY <1>t, <1>s, <1>0, MovedType, ToldIn
    <2> QED BY <2>1 DEF SubRecs
<1>14. CASE EndTrial(j)
    <2> DEFINE s == job[j].sub
    <2>1. s \in Subs /\ subs[s].ended \in {"none", "active", "past_due"}
        BY <1>14, <1>n, <1>t DEF EndTrial, At, TypeOK, SubRecs
    <2>2. /\ UNCHANGED <<acct, opened, changes, faults, crossed>>
          /\ \/ Done(j)
             \/ \E st \in {"active", "past_due"} : job' = [job EXCEPT ![j].pc = "note", ![j].st = st]
          /\ \/ UNCHANGED <<subs, events>>
             \/ \E st \in {"active", "past_due"} :
                   /\ subs' = [subs EXCEPT ![s] = [Moved(s, st) EXCEPT !.ended = st]]
                   /\ events' = Told(s, st)
             \/ \E st \in {"active", "past_due"} :
                   subs' = [subs EXCEPT ![s] = [subs[s] EXCEPT !.ended = st]] /\ UNCHANGED events
        <3>1. CASE subs[s].ended # "none"
            BY <1>14, <2>1, <3>1 DEF EndTrial
        <3>2. CASE subs[s].ended = "none" /\ subs[s].status = "trialing"
            BY <1>14, <2>1, <3>2 DEF EndTrial
        <3>3. CASE subs[s].ended = "none" /\ subs[s].status \in {"active", "past_due"}
            BY <1>14, <2>1, <3>3 DEF EndTrial
        <3>4. CASE subs[s].ended = "none" /\ subs[s].status = "canceled"
            BY <1>14, <2>1, <3>4 DEF EndTrial
        <3> QED BY <1>14, <3>1, <3>2, <3>3, <3>4 DEF EndTrial
    <2>3. job' \in [Jobs -> JobRecs]
        <3>1. CASE Done(j)
            BY <3>1, <1>t, JobType
        <3>2. ASSUME NEW st \in {"active", "past_due"}, job' = [job EXCEPT ![j].pc = "note", ![j].st = st]
              PROVE  job' \in [Jobs -> JobRecs]
            <4>1. [job[j] EXCEPT !.pc = "note", !.st = st] \in JobRecs
                BY <1>0 DEF JobRecs, PCs, Statuses
            <4> QED BY <3>2, <4>1, <1>t DEF TypeOK
        <3> QED BY <2>2, <3>1, <3>2
    <2> HIDE DEF s
    <2>4. subs' \in [Subs -> SubRecs] /\ events' \in Seq(Events)
        <3>1. CASE UNCHANGED <<subs, events>>
            BY <1>t, <3>1 DEF TypeOK
        <3>2. ASSUME NEW st \in {"active", "past_due"},
                     subs' = [subs EXCEPT ![s] = [Moved(s, st) EXCEPT !.ended = st]], events' = Told(s, st)
              PROVE  subs' \in [Subs -> SubRecs] /\ events' \in Seq(Events)
            BY <1>t, <1>e, <2>1, <3>2 DEF TypeOK
        <3>3. ASSUME NEW st \in {"active", "past_due"},
                     subs' = [subs EXCEPT ![s] = [subs[s] EXCEPT !.ended = st]], UNCHANGED events
              PROVE  subs' \in [Subs -> SubRecs] /\ events' \in Seq(Events)
            BY <1>t, <1>e, <2>1, <3>3 DEF TypeOK
        <3> QED BY <2>2, <3>1, <3>2, <3>3
    <2> QED BY <1>t, <2>2, <2>3, <2>4 DEF TypeOK
<1>15. CASE EndTrialRaises(j)
    <2> DEFINE s == job[j].sub
    <2>1. s \in Subs /\ Fault /\ Done(j) /\ UNCHANGED <<acct, opened, changes, crossed>>
        BY <1>15, <1>n DEF EndTrialRaises, At
    <2>2. \E st \in {"active", "past_due"} :
             subs' = [subs EXCEPT ![s] = [Moved(s, st) EXCEPT !.ended = st]] /\ events' = Told(s, st)
        BY <1>15 DEF EndTrialRaises
    <2>3. job' \in [Jobs -> JobRecs]
        BY <2>1, <1>t, JobType
    <2> HIDE DEF s
    <2>4. subs' \in [Subs -> SubRecs] /\ events' \in Seq(Events)
        BY <1>t, <1>e, <2>1, <2>2 DEF TypeOK
    <2> QED BY <1>t, <1>f, <2>1, <2>3, <2>4 DEF TypeOK
<1>16. CASE Note(j)
    <2>1. job' \in [Jobs -> JobRecs]
        BY <1>16, <1>t, JobType DEF Note
    <2> QED BY <1>16, <1>t, <1>0, <2>1 DEF Note, TypeOK
<1>17. CASE Stop(j)
    <2>1. job' \in [Jobs -> JobRecs] /\ events' \in Seq(Events)
        BY <1>17, <1>t, UnansweredType DEF Stop
    <2> QED BY <1>17, <1>t, <1>f, <2>1 DEF Stop, TypeOK
<1>18. CASE SetPlan(j)
    <2>1. job' \in [Jobs -> JobRecs] /\ crossed' \in BOOLEAN
        BY <1>18, <1>t, JobType DEF SetPlan, TypeOK
    <2> QED BY <1>18, <1>t, <1>0, <2>1 DEF SetPlan, TypeOK
<1> QED
    BY <1>1, <1>2, <1>3, <1>4, <1>5, <1>6, <1>7, <1>8, <1>9, <1>10, <1>11, <1>12, <1>13, <1>14,
       <1>15, <1>16, <1>17, <1>18 DEF Step

LEMMA WorldType ==
    ASSUME Base, NEW j \in Jobs, NEW s \in Subs,
           (\E i \in DOMAIN events : Deliver(j, i)) \/ Pay(s) \/ Expire(s) \/ TrialEnds(s) \/ Later(s)
    PROVE  TypeOK'
<1>t. TypeOK
    BY DEF Base
<1>1. ASSUME NEW i \in DOMAIN events, Deliver(j, i) PROVE TypeOK'
    <2> DEFINE e == events[i]
               r == [Idle EXCEPT !.ev = e, !.sub = e.sub, !.st = e.status,
                                 !.pc = IF e.kind = "updated" /\ e.status = "active" THEN "lookup" ELSE "read"]
    <2>1. e \in Events /\ events \in Seq(Events)
        BY <1>t DEF TypeOK
    <2>2. e.sub \in Subs /\ e.status \in Statuses
        BY <2>1 DEF Events
    <2>3. r \in JobRecs
        BY <2>1, <2>2 DEF Idle, JobRecs, PCs, Statuses
    <2>4. events' \in Seq(Events)
        BY <1>1, <2>1, RemoveIn DEF Deliver
    <2>5. job' = [job EXCEPT ![j] = r] /\ UNCHANGED <<acct, subs, opened, changes, crossed>>
        BY <1>1 DEF Deliver
    <2>6. faults' \in Nat
        <3>1. faults' = faults \/ faults' = faults + 1
            BY <1>1 DEF Deliver, Fault
        <3> QED BY <1>t, <3>1 DEF TypeOK
    <2> HIDE DEF e, r
    <2> QED BY <1>t, <2>3, <2>4, <2>5, <2>6 DEF TypeOK
<1>2. CASE Pay(s)
    BY <1>2, <1>t, MovesType DEF Pay, TypeOK, Statuses
<1>3. CASE Expire(s)
    BY <1>3, <1>t, MovesType DEF Expire, TypeOK, Statuses
<1>4. CASE TrialEnds(s)
    BY <1>4, <1>t, MovesType DEF TrialEnds, TypeOK, Statuses
<1>5. CASE Later(s)
    <2>1. \E st \in Statuses : Moves(s, st)
        BY <1>5 DEF Later, Statuses
    <2>2. subs' \in [Subs -> SubRecs] /\ events' \in Seq(Events)
        BY <2>1, <1>t, MovesType
    <2> QED BY <1>5, <1>t, <2>2 DEF Later, TypeOK
<1> QED BY <1>1, <1>2, <1>3, <1>4, <1>5

-----------------------------------------------------------------------------
(* What Stripe may do to a subscription                                      *)

\* Nothing is taken back: not a key, a payment, a secret or a cancellation.
Follows(x, y) ==
    /\ y.status # "none"
    /\ y.key = x.key /\ y.first = x.first
    /\ x.paid => y.paid
    /\ x.secret => y.secret
    /\ x.status = "canceled" => y.status = "canceled"
    /\ x.ended # "none" => y.ended = x.ended
    /\ y.status = "trialing" => x.status = "trialing"
    /\ y.status = "past_due" /\ ~y.paid => x.status \in {"trialing", "past_due"}

\* A new one waits for its payment, or was paid by credit.
Fresh(y) == y.status \in {"incomplete", "active"} /\ ~y.secret /\ y.ended = "none"

Grown == \A s \in Subs : IF Made(s) THEN Follows(subs[s], subs'[s])
                                   ELSE subs'[s] = subs[s] \/ Fresh(subs'[s])

LEMMA SecretFollows ==
    ASSUME NEW x \in SubRecs, Sound(x), x.status # "none"
    PROVE  Follows(x, [x EXCEPT !.secret = TRUE]) /\ Sound([x EXCEPT !.secret = TRUE])
BY DEF Follows, Sound, SubRecs

\* Moving it to st, which for one with a key is only paid for by who holds its secret.
Movable(x, st) ==
    /\ x.status # "none" /\ st \in {"active", "past_due", "canceled"}
    /\ x.status = "canceled" => st = "canceled"
    /\ st = "past_due" => x.status \in {"trialing", "active"}
    /\ x.key # Nil /\ st # "canceled" => x.paid \/ (x.secret /\ st = "active")

LEMMA MovedFollows ==
    ASSUME TypeOK, NEW s \in Subs, NEW st, Sound(subs[s]), Movable(subs[s], st)
    PROVE  /\ Follows(subs[s], Moved(s, st)) /\ Sound(Moved(s, st))
           /\ subs[s].ended = "none" /\ subs[s].key = Nil =>
                /\ Follows(subs[s], [Moved(s, st) EXCEPT !.ended = st])
                /\ Sound([Moved(s, st) EXCEPT !.ended = st])
<1> DEFINE x == subs[s]
           y == Moved(s, st)
           z == [y EXCEPT !.ended = st]
<1>1. x \in SubRecs /\ st \in Statuses
    BY DEF TypeOK, Movable, Statuses
<1>2. y \in SubRecs
    BY <1>1, MovedType
<1>3. /\ y.status = st /\ (y.paid <=> x.paid \/ st = "active") /\ y.key = x.key
      /\ y.first = x.first /\ y.secret = x.secret /\ y.ended = x.ended
    BY <1>1 DEF Moved, SubRecs
<1>4. /\ z.status = y.status /\ z.paid = y.paid /\ z.key = y.key
      /\ z.first = y.first /\ z.secret = y.secret /\ z.ended = st
    BY <1>2 DEF SubRecs
<1> HIDE DEF x, y, z
<1>5. Sound(x) /\ Movable(x, st)
    BY DEF x
<1>6. Follows(x, y) /\ Sound(y)
    BY <1>3, <1>5 DEF Follows, Sound, Movable
<1>7. x.ended = "none" /\ x.key = Nil => Follows(x, z) /\ Sound(z)
    BY <1>3, <1>4, <1>5 DEF Follows, Sound, Movable
<1> QED BY <1>6, <1>7 DEF x, y, z

LEMMA EndedFollows ==
    ASSUME NEW x \in SubRecs, Sound(x), x.ended = "none", x.status \in {"active", "past_due"}
    PROVE  Follows(x, [x EXCEPT !.ended = x.status]) /\ Sound([x EXCEPT !.ended = x.status])
BY DEF Follows, Sound, SubRecs

\* One subscription changes, and may.
LEMMA OneFollows ==
    ASSUME TypeOK, AllSound, KeysDiffer, NEW s \in Subs, NEW y, Made(s),
           subs' = [subs EXCEPT ![s] = y], Follows(subs[s], y), Sound(y)
    PROVE  Grown /\ AllSound' /\ KeysDiffer'
<1>1. subs'[s] = y /\ (\A t \in Subs \ {s} : subs'[t] = subs[t]) /\ subs \in [Subs -> SubRecs]
    BY DEF TypeOK
<1>2. \A t \in Subs : Made(t) => Follows(subs[t], subs[t])
    BY <1>1 DEF Made, Follows
<1>3. Grown
    BY <1>1, <1>2 DEF Grown
<1>4. AllSound'
    BY <1>1 DEF AllSound
<1>5. \A t \in Subs : subs'[t].key = subs[t].key
    BY <1>1 DEF Follows
<1>6. KeysDiffer'
    BY <1>5 DEF KeysDiffer, Keyed
<1> QED BY <1>3, <1>4, <1>6

\* Or one is created, under a key that created none.
LEMMA CreatesFollows ==
    ASSUME TypeOK, AllSound, KeysDiffer, NEW j \in Jobs, NEW s \in Subs, NEW st \in {"incomplete", "active"},
           Creates(j, s, st), Replays(job[j]) = {}
    PROVE  /\ Grown /\ AllSound' /\ KeysDiffer'
           /\ ~Made(s) /\ Made(s)'
           /\ subs'[s].status = st /\ subs'[s].key = job[j].key /\ (subs'[s].paid <=> st = "active")
           /\ subs'[s].first = (IF job[j].key = Nil THEN "none" ELSE st)
           /\ ~subs'[s].secret /\ subs'[s].ended = "none"
           /\ \A t \in Subs \ {s} : subs'[t] = subs[t]
<1> DEFINE x == [Unmade EXCEPT !.status = st, !.key = job[j].key, !.paid = st = "active",
                               !.first = IF job[j].key = Nil THEN "none" ELSE st,
                               !.plan = IF st = "active" THEN Nil ELSE job[j].plan]
<1>1. subs'[s] = x /\ (\A t \in Subs \ {s} : subs'[t] = subs[t]) /\ subs \in [Subs -> SubRecs]
    BY DEF TypeOK, Creates
<1>2. /\ x.status = st /\ x.key = job[j].key /\ (x.paid <=> st = "active")
      /\ x.first = (IF job[j].key = Nil THEN "none" ELSE st)
      /\ ~x.secret /\ x.ended = "none"
    BY DEF Unmade
<1> HIDE DEF x
<1>3. ~Made(s) /\ Made(s)'
    BY <1>1, <1>2 DEF Creates, Made
<1>4. Sound(x)
    BY <1>2 DEF Sound
<1>5. AllSound'
    BY <1>1, <1>4 DEF AllSound
<1>6. Grown
    BY <1>1, <1>2, <1>3 DEF Grown, Made, Follows, Fresh
<1>7. KeysDiffer'
    <2> SUFFICES ASSUME NEW a \in Subs, NEW b \in Subs, subs'[a].key # Nil, subs'[a].key = subs'[b].key
                 PROVE  a = b
        BY DEF KeysDiffer, Keyed
    <2>1. \A t \in Subs : subs[t].key # job[j].key \/ job[j].key = Nil
        BY DEF Replays
    <2> QED BY <1>1, <1>2, <2>1 DEF KeysDiffer, Keyed
<1> QED BY <1>1, <1>2, <1>3, <1>5, <1>6, <1>7

LEMMA StayFollows == ASSUME TypeOK, AllSound, KeysDiffer, UNCHANGED subs PROVE Grown /\ AllSound' /\ KeysDiffer'
BY DEF Grown, AllSound, KeysDiffer, Keyed, Made, Follows

LEMMA SecretGrows ==
    ASSUME TypeOK, AllSound, KeysDiffer, NEW s \in Subs, Made(s), Secret(s)
    PROVE  Grown /\ AllSound' /\ KeysDiffer'
<1>1. subs[s] \in SubRecs /\ Sound(subs[s]) /\ subs[s].status # "none"
    BY DEF TypeOK, AllSound, Made
<1>2. subs' = [subs EXCEPT ![s] = [subs[s] EXCEPT !.secret = TRUE]]
    BY DEF Secret
<1> QED BY <1>1, <1>2, SecretFollows, OneFollows

LEMMA MovesGrows ==
    ASSUME TypeOK, AllSound, KeysDiffer, NEW s \in Subs, NEW st, Moves(s, st), Movable(subs[s], st)
    PROVE  Grown /\ AllSound' /\ KeysDiffer'
<1>1. Sound(subs[s]) /\ Made(s)
    BY DEF AllSound, Made, Movable
<1>2. subs' = [subs EXCEPT ![s] = Moved(s, st)]
    BY DEF Moves
<1> QED BY <1>1, <1>2, MovedFollows, OneFollows

\* What the end of a trial does to the subscription, and what it tells.
Ends(s) ==
    \/ UNCHANGED <<subs, events>>
    \/ /\ subs[s].status = "trialing" /\ subs[s].ended = "none"
       /\ \E st \in {"active", "past_due"} :
             /\ subs' = [subs EXCEPT ![s] = [Moved(s, st) EXCEPT !.ended = st]]
             /\ events' = Told(s, st)
    \/ /\ subs[s].status \in {"active", "past_due"} /\ subs[s].ended = "none"
       /\ subs' = [subs EXCEPT ![s] = [subs[s] EXCEPT !.ended = subs[s].status]]
       /\ UNCHANGED events

LEMMA EndsGrows ==
    ASSUME TypeOK, AllSound, KeysDiffer, NEW s \in Subs, Ends(s)
    PROVE  Grown /\ AllSound' /\ KeysDiffer'
<1>0. Sound(subs[s]) /\ subs[s] \in SubRecs
    BY DEF AllSound, TypeOK
<1>1. CASE UNCHANGED subs
    BY <1>1, StayFollows
<1>2. ASSUME subs[s].status = "trialing", subs[s].ended = "none", NEW st \in {"active", "past_due"},
             subs' = [subs EXCEPT ![s] = [Moved(s, st) EXCEPT !.ended = st]]
      PROVE  Grown /\ AllSound' /\ KeysDiffer'
    <2>1. Movable(subs[s], st) /\ subs[s].key = Nil /\ Made(s)
        BY <1>0, <1>2 DEF Sound, Movable, Made
    <2> QED BY <1>0, <1>2, <2>1, MovedFollows, OneFollows
<1>3. ASSUME subs[s].status \in {"active", "past_due"}, subs[s].ended = "none",
             subs' = [subs EXCEPT ![s] = [subs[s] EXCEPT !.ended = subs[s].status]]
      PROVE  Grown /\ AllSound' /\ KeysDiffer'
    <2>1. Made(s)
        BY <1>3 DEF Made
    <2> QED BY <1>0, <1>3, <2>1, EndedFollows, OneFollows
<1> QED BY <1>1, <1>2, <1>3 DEF Ends

LEMMA EndTrialEnds ==
    ASSUME NEW j, EndTrial(j) \/ EndTrialRaises(j)
    PROVE  Ends(job[j].sub)
<1> DEFINE s == job[j].sub
<1>1. CASE EndTrialRaises(j)
    BY <1>1 DEF EndTrialRaises, Ends
<1>2. CASE EndTrial(j)
    <2>1. CASE subs[s].ended # "none" /\ UNCHANGED <<subs, events>>
        BY <2>1 DEF Ends
    <2>2. CASE subs[s].ended = "none" /\ subs[s].status = "trialing"
        BY <1>2, <2>2 DEF EndTrial, Ends
    <2>3. CASE subs[s].ended = "none" /\ subs[s].status \in {"active", "past_due"}
        BY <1>2, <2>3 DEF EndTrial, Ends
    <2>4. CASE subs[s].ended = "none" /\ subs[s].status = "canceled" /\ UNCHANGED <<subs, events>>
        BY <2>4 DEF Ends
    <2> QED BY <1>2, <2>1, <2>2, <2>3, <2>4 DEF EndTrial
<1> QED BY <1>1, <1>2

\* The job's own subscription is there, once it has one in hand.
LEMMA InHand ==
    ASSUME Base, NEW j \in Jobs
    PROVE  /\ ~At(j, "idle") /\ ~At(j, "create") /\ ~At(j, "set_plan") =>
                  job[j].sub \in Subs /\ Made(job[j].sub)
           /\ job[j].sub # Nil => job[j].sub \in Subs /\ Made(job[j].sub)
BY DEF Base, Known, At, TypeOK, JobRecs

\* Whatever a request, a webhook, a customer or Stripe does.
LEMMA NextGrows ==
    ASSUME Base, Next
    PROVE  Grown /\ AllSound' /\ KeysDiffer'
<1>t. TypeOK /\ AllSound /\ KeysDiffer
    BY DEF Base
<1>j. \A j \in Jobs : ~At(j, "idle") /\ ~At(j, "create") /\ ~At(j, "set_plan") => job[j].sub \in Subs /\ Made(job[j].sub)
    BY InHand
<1>1. CASE UNCHANGED subs
    BY <1>1, <1>t, StayFollows
<1>2. ASSUME NEW s \in Subs, Made(s), Secret(s) PROVE Grown /\ AllSound' /\ KeysDiffer'
    BY <1>2, <1>t, SecretGrows
<1>3. ASSUME NEW s \in Subs, Pay(s) \/ Expire(s) \/ TrialEnds(s) \/ Later(s)
      PROVE  Grown /\ AllSound' /\ KeysDiffer'
    <2>1. Sound(subs[s])
        BY <1>t DEF AllSound
    <2>2. \E st : Moves(s, st) /\ Movable(subs[s], st)
        <3>1. CASE Pay(s)
            BY <2>1, <3>1 DEF Pay, Movable
        <3>2. CASE Expire(s)
            BY <2>1, <3>2 DEF Expire, Movable
        <3>3. CASE TrialEnds(s)
            BY <2>1, <3>3 DEF TrialEnds, Movable, Sound
        <3>4. CASE Later(s)
            BY <2>1, <3>4 DEF Later, Movable, Sound
        <3> QED BY <1>3, <3>1, <3>2, <3>3, <3>4
    <2> QED BY <1>t, <2>2, MovesGrows
<1>4. ASSUME NEW j \in Jobs, Step(j) PROVE Grown /\ AllSound' /\ KeysDiffer'
    <2>1. CASE Check(j)
        BY <2>1, <1>1, <1>2, <1>j DEF Check, At
    <2>2. CASE Cancel(j)
        <3>1. CASE Moves(job[j].sub, "canceled")
            <4>1. job[j].sub \in Subs /\ Movable(subs[job[j].sub], "canceled")
                BY <2>2, <1>j DEF Cancel, Movable, Made, At
            <4> QED BY <3>1, <4>1, <1>t, MovesGrows
        <3> QED BY <2>2, <3>1, <1>1 DEF Cancel
    <2>3. CASE Create(j)
        BY <2>3, <1>t, <1>1, CreatesFollows DEF Create
    <2>4. CASE CreateRaises(j)
        BY <2>4, <1>t, <1>1, CreatesFollows DEF CreateRaises
    <2>5. CASE Pending(j) \/ Record(j)
        BY <2>5, <1>1, <1>2, <1>j DEF Pending, Record, Answer, At
    <2>6. CASE EndTrial(j) \/ EndTrialRaises(j)
        <3>1. Ends(job[j].sub) /\ job[j].sub \in Subs
            BY <2>6, <1>j, EndTrialEnds DEF EndTrial, EndTrialRaises, At
        <3> QED BY <3>1, <1>t, EndsGrows
    <2>7. CASE \/ Finish(j) \/ Confirmed(j) \/ Write(j) \/ Lookup(j) \/ Retrieve(j) \/ Read(j)
               \/ Apply(j) \/ Note(j) \/ Stop(j) \/ SetPlan(j)
        BY <2>7, <1>1 DEF Finish, Confirmed, Write, Lookup, Retrieve, Read, Apply, Note, Stop, SetPlan
    <2> QED BY <1>4, <2>1, <2>2, <2>3, <2>4, <2>5, <2>6, <2>7 DEF Step
<1>5. CASE Open \/ Close \/ Grants
    BY <1>5, <1>1 DEF Open, Close, Grants, SetComp
<1>6. ASSUME NEW j \in Jobs,
             \/ \E p \in Plans : Transition(j, p) \/ Buy(j, p)
             \/ \E s \in Subs : Confirm(j, s)
             \/ \E i \in DOMAIN events : Deliver(j, i)
             \/ Convert(j) \/ Asks(j)
      PROVE  Grown /\ AllSound' /\ KeysDiffer'
    BY <1>6, <1>1 DEF Transition, Buy, Confirm, Deliver, Convert, Asks, AskPlan
<1> QED BY <1>3, <1>4, <1>5, <1>6 DEF Next, Grants, Asks

-----------------------------------------------------------------------------
(* The first invariant is kept                                               *)

\* Another job knows no less for a step of somebody else.
LEMMA OthersKnow ==
    ASSUME Base, Grown, NEW k \in Jobs, job'[k] = job[k]
    PROVE  Known(job[k])' /\ Placed(job[k])'
<1> DEFINE r == job[k]
<1>1. r.sub \in Subs \cup {Nil} /\ Known(r) /\ Placed(r) /\ job'[k] = r
    BY DEF Base, TypeOK, JobRecs
<1>2. r.sub # Nil => r.sub \in Subs /\ Made(r.sub) /\ Follows(subs[r.sub], subs'[r.sub])
    BY <1>1 DEF Known, Grown
<1> HIDE DEF r
<1>3. Known(job[k])'
    BY <1>1, <1>2 DEF Known, Follows, Made, Keyed
<1>4. Placed(job[k])'
    BY <1>1 DEF Placed
<1> QED BY <1>3, <1>4

\* An event is about a subscription.
LEMMA EventsKnown ==
    ASSUME Base
    PROVE  /\ \A e : In(e, events) => e \in Events /\ e.sub \in Subs /\ e.status \in Statuses /\ Made(e.sub)
           /\ \A j \in Jobs : job[j].ev # Nil => job[j].ev \in Events /\ job[j].ev.sub = job[j].sub
<1>1. \A i \in DOMAIN events : events[i] \in Events
    BY DEF Base, TypeOK
<1>2. \A e : In(e, events) => e \in Events /\ Made(e.sub)
    BY <1>1 DEF In, Base
<1>3. \A e \in Events : e.sub \in Subs /\ e.status \in Statuses
    BY DEF Events
<1>4. \A j \in Jobs : job[j].ev # Nil => job[j].ev \in Events /\ job[j].ev.sub = job[j].sub
    BY DEF Base, TypeOK, JobRecs, Placed
<1> QED BY <1>2, <1>3, <1>4

\* What a step of j must show.
LEMMA BaseFrame ==
    ASSUME Base, TypeOK', Grown /\ AllSound' /\ KeysDiffer', NEW j \in Jobs,
           \A k \in Jobs \ {j} : job'[k] = job[k],
           Known(job[j])' /\ Placed(job[j])',
           \A e : In(e, events') => In(e, events) \/ Made(e.sub)',
           acct'.sub = acct.sub \/ Made(acct.sub)',
           \/ acct'.pending \in {acct.pending, Nil}
           \/ (Made(acct.pending) /\ Keyed(acct.pending) /\ subs[acct.pending].first = "incomplete")'
    PROVE  Base'
<1>1. \A k \in Jobs : Known(job[k])' /\ Placed(job[k])'
    BY OthersKnow
<1>2. \A s \in Subs : Made(s) => Made(s)' /\ subs'[s].key = subs[s].key /\ subs'[s].first = subs[s].first
    BY DEF Grown, Follows, Made
<1>3. \A e : In(e, events') => Made(e.sub)'
    BY <1>2, EventsKnown
<1>4. RowKnown'
    <2>1. acct.sub \in Subs \cup {Nil} /\ acct.pending \in Subs \cup {Nil}
        BY DEF Base, TypeOK
    <2>2. RowKnown
        BY DEF Base
    <2>3. (acct.sub # Nil => Made(acct.sub))'
        <3>1. CASE acct'.sub = acct.sub
            BY <1>2, <2>1, <2>2, <3>1 DEF RowKnown, Made
        <3> QED BY <3>1
    <2>4. (acct.pending # Nil => /\ Made(acct.pending) /\ Keyed(acct.pending)
                                /\ subs[acct.pending].first = "incomplete")'
        <3>1. CASE acct'.pending = acct.pending
            BY <1>2, <2>1, <2>2, <3>1 DEF RowKnown, Keyed, Made
        <3> QED BY <3>1
    <2> QED BY <2>3, <2>4 DEF RowKnown
<1> QED BY <1>1, <1>3, <1>4 DEF Base

LEMMA IdlePlaced == ASSUME NEW j, job'[j] = Idle PROVE Known(job[j])' /\ Placed(job[j])'
BY DEF Idle, Known, Placed

LEMMA InitBase == Init => Base
<1> SUFFICES ASSUME Init PROVE Base
    OBVIOUS
<1> PICK kind \in Kinds, trial \in Subs :
        /\ acct = [comp |-> kind = "comp", sub |-> IF kind = "trial" THEN trial ELSE Nil,
                   status |-> CASE kind = "manual" -> "active" [] kind = "trial" -> "trialing" [] OTHER -> "none",
                   pending |-> Nil, window |-> 0, reason |-> FALSE, unpaid |-> FALSE]
        /\ subs = [s \in Subs |-> IF kind = "trial" /\ s = trial
                                  THEN [Unmade EXCEPT !.status = "trialing"] ELSE Unmade]
        /\ events = <<>>
        /\ job = [j \in Jobs |-> Idle]
    BY DEF Init
<1>1. TypeOK
    BY InitType
<1>2. \A j \in Jobs : Known(job[j]) /\ Placed(job[j])
    BY DEF Idle, Known, Placed
<1>3. AllSound
    BY DEF AllSound, Sound, Unmade
<1>4. KeysDiffer
    BY DEF KeysDiffer, Keyed, Unmade
<1>5. \A e : ~In(e, events)
    BY DEF In
<1>6. RowKnown
    BY DEF RowKnown, Made, Unmade
<1> QED BY <1>1, <1>2, <1>3, <1>4, <1>5, <1>6 DEF Base

\* A job that goes on keeps what it has in hand; one that is done has nothing.
LEMMA GotoJob ==
    ASSUME TypeOK, NEW j \in Jobs
    PROVE  /\ \A pc \in PCs : Goto(j, pc) =>
                /\ \A k \in Jobs \ {j} : job'[k] = job[k]
                /\ job'[j].pc = pc /\ job'[j].how = job[j].how /\ job'[j].plan = job[j].plan
                /\ job'[j].key = job[j].key /\ job'[j].sub = job[j].sub /\ job'[j].st = job[j].st
                /\ job'[j].was = job[j].was /\ job'[j].ev = job[j].ev
           /\ Done(j) => job'[j] = Idle /\ \A k \in Jobs \ {j} : job'[k] = job[k]
BY DEF TypeOK, JobRecs, Goto, Done

LEMMA GoesJob ==
    ASSUME TypeOK, NEW j \in Jobs, NEW s, NEW st, Goes(j, s, st)
    PROVE  /\ \A k \in Jobs \ {j} : job'[k] = job[k]
           /\ job'[j].sub = s /\ job'[j].plan = Nil
           /\ job'[j].how = job[j].how /\ job'[j].key = job[j].key /\ job'[j].ev = job[j].ev
           /\ job[j].how = "buy" => job'[j].pc = "record" /\ job'[j].st = st
           /\ job[j].how # "buy" => job'[j].pc = (IF st = "active" THEN "finish" ELSE "pending")
BY DEF TypeOK, JobRecs, Goes

LEMMA DeliverJob ==
    ASSUME TypeOK, NEW j \in Jobs, NEW i \in DOMAIN events, Deliver(j, i)
    PROVE  /\ \A k \in Jobs \ {j} : job'[k] = job[k]
           /\ job'[j].how = "none" /\ job'[j].sub = events[i].sub /\ job'[j].ev = events[i]
           /\ job'[j].st = events[i].status
           /\ job'[j].pc = (IF events[i].kind = "updated" /\ events[i].status = "active" THEN "lookup" ELSE "read")
           /\ events' = events \/ events' = RemoveAt(events, i)
           /\ UNCHANGED <<acct, subs, opened, changes, crossed>>
BY DEF Deliver, Idle, TypeOK

LEMMA PurchaseBase ==
    ASSUME Base, TypeOK', Next, NEW j \in Jobs,
           Check(j) \/ Cancel(j) \/ Create(j) \/ CreateRaises(j)
    PROVE  Base'
<1>g. Grown /\ AllSound' /\ KeysDiffer'
    BY NextGrows
<1>t. TypeOK /\ AllSound
    BY DEF Base
<1>h. /\ job[j].how # "none" => job[j].how \in {"buy", "transition"}
      /\ job[j].key \in Keys \cup {Nil}
    BY <1>t DEF TypeOK, JobRecs
<1>k. Known(job[j]) /\ Placed(job[j])
    BY DEF Base
<1>p. {"finish", "cancel", "create", "write", "retrieve", "read"} \subseteq PCs
    BY DEF PCs
<1>m. \A s \in Subs : Made(s) => Made(s)'
    BY <1>g DEF Grown, Follows, Made
<1>1. CASE Check(j)
    <2>0. job[j].sub \in Subs /\ Made(job[j].sub) /\ At(j, "check") /\ UNCHANGED <<acct, events>>
        BY <1>1, InHand DEF Check, At
    <2>1. \/ Done(j)
          \/ Goto(j, "cancel") \/ Goto(j, "create")
          \/ Goto(j, "finish") /\ UNCHANGED subs /\ subs[job[j].sub].status = "active" /\ job[j].how = "transition"
        BY <1>1 DEF Check
    <2>2. (\A k \in Jobs \ {j} : job'[k] = job[k]) /\ Known(job[j])' /\ Placed(job[j])'
        <3>1. CASE Done(j)
            BY <3>1, <1>t, GotoJob, IdlePlaced
        <3>2. CASE Goto(j, "cancel") \/ Goto(j, "create")
            <4>1. /\ \A k \in Jobs \ {j} : job'[k] = job[k]
                  /\ job'[j].pc \in {"cancel", "create"} /\ job'[j].how = job[j].how
                  /\ job'[j].key = job[j].key /\ job'[j].sub = job[j].sub /\ job'[j].ev = job[j].ev
                BY <3>2, <1>t, <1>p, GotoJob
            <4>m. subs'[job[j].sub].status # "none"
                BY <2>0, <1>m DEF Made
            <4>2. Known(job[j])'
                BY <4>1, <4>m, <2>0, NameAssumption DEF Known, Made
            <4>3. Placed(job[j])'
                BY <4>1, <2>0, <1>k, <1>h DEF Placed, At
            <4> QED BY <4>1, <4>2, <4>3
        <3>3. CASE /\ Goto(j, "finish") /\ UNCHANGED subs
                   /\ subs[job[j].sub].status = "active" /\ job[j].how = "transition"
            <4>1. /\ \A k \in Jobs \ {j} : job'[k] = job[k]
                  /\ job'[j].pc = "finish" /\ job'[j].how = job[j].how
                  /\ job'[j].key = job[j].key /\ job'[j].sub = job[j].sub /\ job'[j].ev = job[j].ev
                BY <3>3, <1>t, <1>p, GotoJob
            <4>0. subs[job[j].sub].paid
                BY <3>3, <2>0, <1>t DEF AllSound, Sound
            <4>2. Known(job[j])'
                BY <4>0, <4>1, <3>3, <2>0, <1>k DEF Known, Made, Placed, At, Keyed
            <4>3. Placed(job[j])'
                BY <4>1, <2>0, <3>3, <1>k, <1>h DEF Placed, At
            <4> QED BY <4>1, <4>2, <4>3
        <3> QED BY <2>1, <3>1, <3>2, <3>3
    <2>3. \A e : In(e, events') => In(e, events)
        BY <2>0 DEF In
    <2> QED BY <1>g, <2>0, <2>2, <2>3, BaseFrame
<1>2. CASE Cancel(j)
    <2>0. job[j].sub \in Subs /\ Made(job[j].sub) /\ At(j, "cancel") /\ UNCHANGED acct
        BY <1>2, InHand DEF Cancel, At
    <2>1. Done(j) \/ Goto(j, "create")
        BY <1>2 DEF Cancel
    <2>2. (\A k \in Jobs \ {j} : job'[k] = job[k]) /\ Known(job[j])' /\ Placed(job[j])'
        <3>1. CASE Done(j)
            BY <3>1, <1>t, GotoJob, IdlePlaced
        <3>2. CASE Goto(j, "create")
            <4>1. /\ \A k \in Jobs \ {j} : job'[k] = job[k]
                  /\ job'[j].pc = "create" /\ job'[j].how = job[j].how
                  /\ job'[j].key = job[j].key /\ job'[j].sub = job[j].sub /\ job'[j].ev = job[j].ev
                BY <3>2, <1>t, <1>p, GotoJob
            <4>m. subs'[job[j].sub].status # "none"
                BY <2>0, <1>m DEF Made
            <4>2. Known(job[j])'
                BY <4>1, <4>m, <2>0, NameAssumption DEF Known, Made
            <4>3. Placed(job[j])'
                BY <4>1, <2>0, <1>k, <1>h DEF Placed, At
            <4> QED BY <4>1, <4>2, <4>3
        <3> QED BY <2>1, <3>1, <3>2
    <2>3. \A e : In(e, events') => In(e, events) \/ e.sub = job[j].sub
        <3>1. CASE UNCHANGED events
            BY <3>1 DEF In
        <3>2. CASE Moves(job[j].sub, "canceled")
            <4>1. events' = Told(job[j].sub, "canceled") /\ "canceled" \in Statuses
                BY <3>2 DEF Moves, Statuses
            <4>2. \A e \in News(job[j].sub, "canceled") : e.sub = job[j].sub
                BY DEF News, Tell
            <4> QED BY <4>1, <4>2, <2>0, <1>t, ToldIn
        <3> QED BY <1>2, <3>1, <3>2 DEF Cancel
    <2>4. \A e : In(e, events') => In(e, events) \/ Made(e.sub)'
        BY <2>0, <2>3, <1>m
    <2> QED BY <1>g, <2>0, <2>2, <2>4, BaseFrame
<1>3. CASE Create(j)
    <2>0. At(j, "create") /\ UNCHANGED acct
        BY <1>3 DEF Create
    <2>1. \E s \in Subs, st \in {"incomplete", "active"} :
             /\ Goes(j, s, st) /\ Made(s)' /\ subs'[s].key = job[j].key
             /\ job[j].key # Nil => subs'[s].first = st
             /\ st = "active" => subs'[s].paid
             /\ \A e : In(e, events') => In(e, events) \/ e.sub = s
        <3>1. CASE Replays(job[j]) # {}
            <4>1. PICK s \in Replays(job[j]) : Goes(j, s, subs[s].first) /\ UNCHANGED <<subs, events>>
                BY <1>3, <3>1 DEF Create
            <4>2. s \in Subs /\ job[j].key # Nil /\ subs[s].key = job[j].key
                BY DEF Replays
            <4>3. subs[s] \in SubRecs /\ Sound(subs[s])
                BY <4>2, <1>t DEF TypeOK, AllSound
            <4>4. subs[s].first \in {"incomplete", "active"} /\ (subs[s].first = "active" => subs[s].paid) /\ Made(s)
                BY <4>2, <4>3 DEF Sound, SubRecs, Unmade, Made
            <4> QED BY <4>1, <4>2, <4>4 DEF Made, In
        <3>2. CASE Replays(job[j]) = {}
            <4>1. PICK s \in Subs, st \in {"incomplete", "active"} : Creates(j, s, st) /\ Goes(j, s, st)
                BY <1>3, <3>2 DEF Create
            <4>2. /\ Made(s)' /\ subs'[s].key = job[j].key /\ (job[j].key # Nil => subs'[s].first = st)
                  /\ st = "active" => subs'[s].paid
                BY <1>t, <3>2, <4>1, CreatesFollows DEF Base
            <4>3. \A e : In(e, events') => In(e, events) \/ e.sub = s
                <5>1. Tell("paid", s, st) \in Events /\ Tell("paid", s, st).sub = s
                    BY TellType DEF Statuses, Tell
                <5> QED BY <4>1, <5>1, <1>t, AppendIn DEF Creates, TypeOK
            <4> QED BY <4>1, <4>2, <4>3
        <3> QED BY <3>1, <3>2
    <2>2. PICK s \in Subs, st \in {"incomplete", "active"} :
             /\ Goes(j, s, st) /\ Made(s)' /\ subs'[s].key = job[j].key
             /\ job[j].key # Nil => subs'[s].first = st
             /\ st = "active" => subs'[s].paid
             /\ \A e : In(e, events') => In(e, events) \/ e.sub = s
        BY <2>1
    <2>3. /\ \A k \in Jobs \ {j} : job'[k] = job[k]
          /\ job'[j].sub = s /\ job'[j].how = job[j].how /\ job'[j].key = job[j].key /\ job'[j].ev = job[j].ev
          /\ job[j].how = "buy" => job'[j].pc = "record" /\ job'[j].st = st
          /\ job[j].how # "buy" => job'[j].pc = (IF st = "active" THEN "finish" ELSE "pending")
        BY <2>2, <1>t, GoesJob
    <2>h. \/ job[j].how = "buy" /\ job[j].key = Nil
          \/ job[j].how = "transition" /\ job[j].key \in Keys /\ job[j].key # Nil
        BY <2>0, <1>k, <1>h, NameAssumption DEF Placed, At
    <2>4. Known(job[j])'
        BY <2>2, <2>3, <2>h, NameAssumption DEF Known, Keyed, Made
    <2>5. Placed(job[j])'
        BY <2>0, <2>3, <2>h, <1>k DEF Placed, At
    <2>6. \A e : In(e, events') => In(e, events) \/ Made(e.sub)'
        BY <2>2
    <2> QED BY <1>g, <2>0, <2>3, <2>4, <2>5, <2>6, BaseFrame
<1>4. CASE CreateRaises(j)
    <2>0. UNCHANGED acct /\ Done(j)
        BY <1>4 DEF CreateRaises
    <2>1. \A e : In(e, events') => In(e, events)
        BY <1>4 DEF CreateRaises, Creates, In
    <2> QED BY <1>g, <1>t, <2>0, <2>1, GotoJob, IdlePlaced, BaseFrame
<1> QED BY <1>1, <1>2, <1>3, <1>4

\* The answer to a purchase, the account moved over, and the admin's plan.
LEMMA SettleBase ==
    ASSUME Base, TypeOK', Next, NEW j \in Jobs,
           Pending(j) \/ Record(j) \/ Finish(j) \/ Write(j) \/ SetPlan(j) \/ Stop(j)
    PROVE  Base'
<1>g. Grown /\ AllSound' /\ KeysDiffer'
    BY NextGrows
<1>t. TypeOK /\ AllSound /\ events \in Seq(Events)
    BY DEF Base, TypeOK
<1>k. Known(job[j]) /\ Placed(job[j])
    BY DEF Base
<1>m. \A s \in Subs : Made(s) => subs'[s].status # "none" /\ subs'[s].key = subs[s].key /\ subs'[s].first = subs[s].first
    BY <1>g DEF Grown, Follows, Made
<1>d. Done(j) => /\ \A k \in Jobs \ {j} : job'[k] = job[k]
                 /\ Known(job[j])' /\ Placed(job[j])'
    BY <1>t, GotoJob, IdlePlaced
<1>u. Unanswered(j) => \A e : In(e, events') => In(e, events) \/ (e = job[j].ev /\ e # Nil)
    <2> SUFFICES ASSUME Unanswered(j) PROVE \A e : In(e, events') => In(e, events) \/ (e = job[j].ev /\ e # Nil)
        OBVIOUS
    <2>1. CASE job[j].ev = Nil
        BY <2>1 DEF Unanswered
    <2>2. CASE job[j].ev # Nil
        <3>1. job[j].ev \in Events /\ events' = Append(events, job[j].ev)
            BY <2>2, EventsKnown DEF Unanswered
        <3> QED BY <2>2, <3>1, <1>t, AppendIn
    <2> QED BY <2>1, <2>2
<1>v. \A e : In(e, events') => In(e, events) \/ (e = job[j].ev /\ e # Nil)
    BY <1>u DEF Pending, Record, Finish, Write, SetPlan, Stop, In
<1>w. \A e : In(e, events') => In(e, events) \/ Made(e.sub)'
    <2>1. job[j].ev # Nil => job[j].ev.sub = job[j].sub /\ job[j].sub \in Subs /\ Made(job[j].sub)
        <3>1. \A e \in Events : e.sub \in Subs
            BY DEF Events
        <3> QED BY <3>1, EventsKnown, InHand, NameAssumption
    <2> QED BY <1>v, <1>m, <2>1 DEF Made
<1>i. ~At(j, "idle") /\ ~At(j, "create") /\ ~At(j, "set_plan") => job[j].sub \in Subs /\ Made(job[j].sub)
    BY InHand
<1>1. CASE Stop(j)
    <2>1. UNCHANGED acct /\ Done(j)
        BY <1>1 DEF Stop, Unanswered
    <2> QED BY <1>g, <1>d, <1>w, <2>1, BaseFrame
<1>2. CASE Pending(j)
    <2>1. Done(j) /\ acct'.sub = acct.sub /\ acct'.pending = job[j].sub
        BY <1>2, <1>t DEF Pending, Answer, TypeOK
    <2>2. job[j].sub \in Subs /\ Made(job[j].sub) /\ subs[job[j].sub].key = job[j].key /\ subs[job[j].sub].first = "incomplete"
        BY <1>2, <1>i, <1>k DEF Pending, Known, At
    <2>3. job[j].key # Nil
        <3>1. AllSound /\ subs[job[j].sub] \in SubRecs
            BY <1>t, <2>2 DEF TypeOK
        <3>2. job[j].how = "transition"
            BY <1>2, <1>k, <1>t DEF Pending, Placed, At, TypeOK, JobRecs
        <3> QED BY <3>2, <1>k, NameAssumption DEF Placed
    <2>4. (Made(acct.pending) /\ Keyed(acct.pending) /\ subs[acct.pending].first = "incomplete")'
        BY <2>1, <2>2, <2>3, <1>m DEF Made, Keyed
    <2> QED BY <1>g, <1>d, <1>w, <2>1, <2>4, BaseFrame
<1>3. CASE Record(j) \/ Finish(j) \/ Write(j)
    <2>1. Done(j) /\ acct'.sub = job[j].sub /\ acct'.pending \in {acct.pending, Nil}
        BY <1>3, <1>t DEF Record, Finish, Write, Answer, Unanswered, TypeOK
    <2>2. Made(acct.sub)'
        BY <1>3, <2>1, <1>i, <1>m DEF Record, Finish, Write, Made, At
    <2> QED BY <1>g, <1>d, <1>w, <2>1, <2>2, BaseFrame
<1>4. CASE SetPlan(j)
    <2>1. Done(j) /\ acct'.sub = acct.sub /\ acct'.pending = acct.pending
        BY <1>4, <1>t DEF SetPlan, TypeOK
    <2> QED BY <1>g, <1>d, <1>w, <2>1, BaseFrame
<1> QED BY <1>1, <1>2, <1>3, <1>4

\* A webhook on its way, the end of a trial, and what somebody starts.
LEMMA HandleBase ==
    ASSUME Base, TypeOK', Next, NEW j \in Jobs,
           \/ Confirmed(j) \/ Lookup(j) \/ Retrieve(j) \/ Read(j) \/ Apply(j)
           \/ EndTrial(j) \/ EndTrialRaises(j) \/ Note(j)
    PROVE  Base'
<1>g. Grown /\ AllSound' /\ KeysDiffer'
    BY NextGrows
<1>t. TypeOK /\ AllSound /\ events \in Seq(Events)
    BY DEF Base, TypeOK
<1>k. Known(job[j]) /\ Placed(job[j])
    BY DEF Base
<1>m. \A s \in Subs : Made(s) => subs'[s].status # "none"
    BY <1>g DEF Grown, Follows, Made
<1>d. Done(j) => /\ \A k \in Jobs \ {j} : job'[k] = job[k]
                 /\ Known(job[j])' /\ Placed(job[j])'
    BY <1>t, GotoJob, IdlePlaced
<1>i. job[j].sub \in Subs /\ Made(job[j].sub)
    BY InHand DEF Confirmed, Lookup, Retrieve, Read, Apply, EndTrial, EndTrialRaises, Note, At
<1>h. job[j].how = "none" /\ job[j].pc \in PCs
    <2>1. job[j].how \in {"none", "buy", "transition"} /\ job[j].pc \in PCs
        BY <1>t DEF TypeOK, JobRecs
    <2> QED BY <2>1, <1>k DEF Placed, Confirmed, Lookup, Retrieve, Read, Apply, EndTrial, EndTrialRaises, Note, At
<1>a. acct'.sub = acct.sub /\ acct'.pending = acct.pending
    BY <1>t DEF Confirmed, Lookup, Retrieve, Read, Apply, Applied, EndTrial, EndTrialRaises, Note, TypeOK
<1>e. \A e : In(e, events') => In(e, events) \/ Made(e.sub)'
    <2>1. CASE UNCHANGED events
        BY <2>1 DEF In
    <2>2. CASE EndTrial(j) \/ EndTrialRaises(j)
        <3>1. \A st \in {"active", "past_due"} : \A e : In(e, Told(job[j].sub, st)) => In(e, events) \/ e.sub = job[j].sub
            <4>1. \A st \in {"active", "past_due"} : st \in Statuses /\ \A e \in News(job[j].sub, st) : e.sub = job[j].sub
                BY DEF Statuses, News, Tell
            <4> QED BY <4>1, <1>i, <1>t, ToldIn
        <3>2. \A e : In(e, events') => In(e, events) \/ e.sub = job[j].sub
            <4>1. Ends(job[j].sub)
                BY <2>2, EndTrialEnds
            <4> QED BY <3>1, <4>1 DEF Ends, In
        <3> QED BY <3>2, <1>i, <1>m DEF Made
    <2> QED BY <2>1, <2>2 DEF Confirmed, Lookup, Retrieve, Read, Apply, Note
<1>1. \/ Done(j)
      \/ /\ \A k \in Jobs \ {j} : job'[k] = job[k]
         /\ job'[j].how = "none" /\ job'[j].sub = job[j].sub /\ job'[j].ev = job[j].ev
         /\ \/ /\ job[j].pc = "confirm" /\ job'[j].pc = "write"
            \/ /\ job[j].pc = "lookup" /\ job'[j].pc \in {"retrieve", "read"} /\ job'[j].st = job[j].st
            \/ /\ job[j].pc = "retrieve" /\ job'[j].pc = "finish" /\ job'[j].st = job[j].st
               /\ subs[job[j].sub].status = "active" /\ UNCHANGED subs
            \/ /\ job[j].pc = "read" /\ job'[j].pc = "apply" /\ job'[j].st = job[j].st
            \/ /\ job[j].pc = "end_trial" /\ job'[j].pc = "note"
    <2>1. CASE Confirmed(j)
        BY <2>1, <1>t, <1>h DEF Confirmed, TypeOK, JobRecs, At
    <2>2. CASE Lookup(j)
        BY <2>2, <1>t, <1>h DEF Lookup, Goto, TypeOK, JobRecs, At
    <2>3. CASE Retrieve(j)
        BY <2>3, <1>t, <1>h DEF Retrieve, Goto, TypeOK, JobRecs, At
    <2>4. CASE Read(j)
        BY <2>4, <1>t, <1>h DEF Read, TypeOK, JobRecs, At
    <2>5. CASE EndTrial(j)
        <3>1. Done(j) \/ \E st : job' = [job EXCEPT ![j].pc = "note", ![j].st = st]
            BY <2>5 DEF EndTrial
        <3> QED BY <2>5, <3>1, <1>t, <1>h DEF EndTrial, TypeOK, JobRecs, At
    <2>6. CASE Apply(j) \/ EndTrialRaises(j) \/ Note(j)
        BY <2>6 DEF Apply, EndTrialRaises, Note
    <2> QED BY <2>1, <2>2, <2>3, <2>4, <2>5, <2>6
<1>2. (\A k \in Jobs \ {j} : job'[k] = job[k]) /\ Known(job[j])' /\ Placed(job[j])'
    <2>1. CASE ~Done(j)
        <3>1. subs'[job[j].sub].status # "none"
            BY <1>i, <1>m
        <3>2. job[j].pc = "confirm" \/ job[j].pc = "end_trial" => job[j].ev = Nil
            BY <1>k DEF Placed
        <3>3. job[j].pc = "retrieve" /\ job'[j].pc = "finish" => subs'[job[j].sub].paid
            BY <1>1, <1>i, <1>t, <2>1 DEF AllSound, Sound
        <3>4. Known(job[j])'
            BY <1>1, <1>i, <2>1, <3>1, <3>3, NameAssumption DEF Known, Made
        <3>5. Placed(job[j])'
            BY <1>1, <1>k, <2>1, <3>2 DEF Placed
        <3> QED BY <1>1, <2>1, <3>4, <3>5
    <2> QED BY <1>d, <2>1
<1> QED BY <1>g, <1>a, <1>e, <1>2, BaseFrame

LEMMA StartBase ==
    ASSUME Base, TypeOK', Next, NEW j \in Jobs,
           \/ \E p \in Plans : Transition(j, p) \/ Buy(j, p)
           \/ \E s \in Subs : Confirm(j, s)
           \/ Convert(j) \/ Asks(j)
           \/ \E i \in DOMAIN events : Deliver(j, i)
    PROVE  Base'
<1>g. Grown /\ AllSound' /\ KeysDiffer'
    BY NextGrows
<1>t. TypeOK /\ AllSound /\ events \in Seq(Events) /\ RowKnown
    BY DEF Base, TypeOK
<1>u. UNCHANGED <<acct, subs>>
    BY DEF Transition, Buy, Confirm, Convert, Deliver, Asks, AskPlan
<1>e. \A e : In(e, events') => In(e, events)
    <2>1. CASE UNCHANGED events
        BY <2>1 DEF In
    <2>2. ASSUME NEW i \in DOMAIN events, events' = RemoveAt(events, i)
          PROVE  \A e : In(e, events') => In(e, events)
        BY <1>t, <2>2, RemoveIn
    <2> QED BY <2>1, <2>2 DEF Transition, Buy, Confirm, Convert, Deliver, Asks, AskPlan
<1>r. acct.sub \in Subs \cup {Nil} /\ acct.pending \in Subs \cup {Nil} /\ acct.window \in 0..MaxWindows
    BY <1>t DEF TypeOK
<1>1. ASSUME NEW p \in Plans, Transition(j, p) PROVE Base'
    <2> DEFINE x == IF acct.pending = Nil THEN acct.window ELSE acct.pending
    <2>1. /\ \A k \in Jobs \ {j} : job'[k] = job[k]
          /\ job'[j].pc = (IF acct.pending = Nil THEN "create" ELSE "check")
          /\ job'[j].how = "transition" /\ job'[j].sub = acct.pending /\ job'[j].key = <<p, x>>
          /\ job'[j].ev = Nil
        BY <1>1, <1>t DEF Transition, Begins, Idle, TypeOK
    <2>2. x \in Subs \cup Nat /\ (acct.pending = Nil => x \notin Subs)
        BY <1>r, WindowAssumption, NameAssumption
    <2> HIDE DEF x
    <2>3. <<p, x>> \in Keys /\ <<p, x>>[2] = x
        BY <2>2 DEF Keys
    <2>4. Known(job[j])'
        BY <1>t, <1>u, <2>1 DEF Known, RowKnown, Made
    <2>5. Placed(job[j])'
        <3>1. acct.pending # Nil => x = acct.pending
            BY DEF x
        <3> QED BY <2>1, <2>2, <2>3, <3>1 DEF Placed
    <2> QED BY <1>g, <1>u, <1>e, <2>1, <2>4, <2>5, BaseFrame
<1>2. ASSUME NEW p \in Plans, Buy(j, p) PROVE Base'
    <2>1. /\ \A k \in Jobs \ {j} : job'[k] = job[k]
          /\ job'[j].pc = (IF acct.sub = Nil THEN "create" ELSE "check")
          /\ job'[j].how = "buy" /\ job'[j].sub = acct.sub /\ job'[j].key = Nil
          /\ job'[j].ev = Nil
        BY <1>2, <1>t DEF Buy, Begins, Idle, TypeOK
    <2>4. Known(job[j])'
        BY <1>t, <1>u, <2>1 DEF Known, RowKnown, Made
    <2>5. Placed(job[j])'
        BY <2>1 DEF Placed
    <2> QED BY <1>g, <1>u, <1>e, <2>1, <2>4, <2>5, BaseFrame
<1>3. ASSUME NEW s \in Subs, Confirm(j, s) PROVE Base'
    <2>1. /\ \A k \in Jobs \ {j} : job'[k] = job[k]
          /\ job'[j].pc \in {"retrieve", "confirm"}
          /\ job'[j].how = "none" /\ job'[j].sub = s /\ job'[j].ev = Nil
          /\ subs[s].status = "active"
        BY <1>3, <1>t DEF Confirm, Idle, TypeOK
    <2>4. Known(job[j])'
        BY <1>t, <1>u, <2>1, NameAssumption DEF Known, Made
    <2>5. Placed(job[j])'
        BY <2>1 DEF Placed
    <2> QED BY <1>g, <1>u, <1>e, <2>1, <2>4, <2>5, BaseFrame
<1>4. CASE Convert(j)
    <2>1. /\ \A k \in Jobs \ {j} : job'[k] = job[k]
          /\ job'[j].pc = "end_trial"
          /\ job'[j].how = "none" /\ job'[j].sub = acct.sub /\ job'[j].ev = Nil
          /\ acct.sub # Nil
        BY <1>4, <1>t DEF Convert, Idle, TypeOK
    <2>4. Known(job[j])'
        BY <1>t, <1>u, <2>1 DEF Known, Made, RowKnown
    <2>5. Placed(job[j])'
        BY <2>1 DEF Placed
    <2> QED BY <1>g, <1>u, <1>e, <2>1, <2>4, <2>5, BaseFrame
<1>5. ASSUME NEW i \in DOMAIN events, Deliver(j, i) PROVE Base'
    <2> DEFINE e == events[i]
    <2>1. /\ \A k \in Jobs \ {j} : job'[k] = job[k]
          /\ job'[j].pc = (IF e.kind = "updated" /\ e.status = "active" THEN "lookup" ELSE "read")
          /\ job'[j].how = "none" /\ job'[j].sub = e.sub /\ job'[j].ev = e /\ job'[j].st = e.status
        BY <1>5, <1>t DEF Deliver, Idle, TypeOK
    <2>2. e \in Events /\ e.sub \in Subs /\ Made(e.sub)
        BY EventsKnown DEF In
    <2> HIDE DEF e
    <2>4. Known(job[j])'
        BY <1>u, <2>1, <2>2, NameAssumption DEF Known, Made
    <2>5. Placed(job[j])'
        BY <2>1, <2>2, NameAssumption DEF Placed
    <2> QED BY <1>g, <1>u, <1>e, <2>1, <2>4, <2>5, BaseFrame
<1>6. ASSUME NEW st \in {"active", "none"}, AskPlan(j, st) PROVE Base'
    <2>1. /\ \A k \in Jobs \ {j} : job'[k] = job[k]
          /\ job'[j].pc = "set_plan" /\ job'[j].st = st
          /\ job'[j].how = "none" /\ job'[j].sub = Nil /\ job'[j].ev = Nil
        BY <1>6, <1>t DEF AskPlan, Idle, TypeOK
    <2>4. Known(job[j])'
        BY <2>1 DEF Known
    <2>5. Placed(job[j])'
        BY <2>1 DEF Placed
    <2> QED BY <1>g, <1>u, <1>e, <2>1, <2>4, <2>5, BaseFrame
<1> QED BY <1>1, <1>2, <1>3, <1>4, <1>5, <1>6 DEF Asks

\* No job moves: the admin, the customer and Stripe.
LEMMA WorldBase ==
    ASSUME Base, TypeOK', Next,
           \/ Open \/ Close \/ Grants
           \/ \E s \in Subs : Pay(s) \/ Expire(s) \/ TrialEnds(s) \/ Later(s)
    PROVE  Base'
<1>g. Grown /\ AllSound' /\ KeysDiffer'
    BY NextGrows
<1>t. TypeOK
    BY DEF Base
<1>m. \A s \in Subs : Made(s) => subs'[s].status # "none" /\ subs'[s].key = subs[s].key /\ subs'[s].first = subs[s].first
    BY <1>g DEF Grown, Follows, Made
<1>1. UNCHANGED job /\ acct'.sub = acct.sub /\ acct'.pending = acct.pending
    BY <1>t DEF Open, Close, Grants, SetComp, Pay, Expire, TrialEnds, Later, TypeOK
<1>2. \A j \in Jobs : Known(job[j])' /\ Placed(job[j])'
    BY <1>1, <1>g, OthersKnow
<1>3. \A e : In(e, events') => Made(e.sub)'
    <2>1. CASE UNCHANGED events
        BY <1>m, <2>1, EventsKnown DEF In, Made
    <2>2. ASSUME NEW s \in Subs, NEW st \in Statuses, Moves(s, st), Made(s)
          PROVE  \A e : In(e, events') => Made(e.sub)'
        <3>1. events' = Told(s, st) /\ \A e \in News(s, st) : e.sub = s
            BY <2>2 DEF Moves, News, Tell
        <3>2. \A e : In(e, events') => In(e, events) \/ e.sub = s
            BY <1>t, <3>1, ToldIn
        <3> QED BY <1>m, <2>2, <3>2, EventsKnown DEF Made
    <2>3. CASE Open \/ Close \/ Grants
        BY <2>1, <2>3 DEF Open, Close, Grants, SetComp
    <2>4. ASSUME NEW s \in Subs, Pay(s) \/ Expire(s) \/ TrialEnds(s) \/ Later(s)
          PROVE  \E st \in Statuses : Moves(s, st) /\ Made(s)
        BY <2>4 DEF Pay, Expire, TrialEnds, Later, Made, Statuses
    <2> QED BY <2>2, <2>3, <2>4
<1>4. RowKnown'
    <2>1. RowKnown /\ acct.sub \in Subs \cup {Nil} /\ acct.pending \in Subs \cup {Nil}
        BY <1>t DEF Base, TypeOK
    <2>2. acct.sub # Nil => subs'[acct.sub].status # "none"
        BY <1>m, <2>1 DEF RowKnown
    <2>3. acct.pending # Nil => /\ subs'[acct.pending].status # "none" /\ subs'[acct.pending].key # Nil
                                /\ subs'[acct.pending].first = "incomplete"
        BY <1>m, <2>1 DEF RowKnown, Keyed
    <2> QED BY <1>1, <2>2, <2>3 DEF RowKnown, Made, Keyed
<1> QED BY <1>g, <1>2, <1>3, <1>4 DEF Base

LEMMA NextBase == Base /\ [Next]_vars => Base'
<1> SUFFICES ASSUME Base, [Next]_vars PROVE Base'
    OBVIOUS
<1>1. CASE UNCHANGED vars
    BY <1>1 DEF vars, Base, TypeOK, Known, Placed, AllSound, KeysDiffer, RowKnown, In, Made, Keyed
<1>2. CASE Next
    <2>t. TypeOK
        BY DEF Base
    <2>1. ASSUME NEW j \in Jobs, Step(j) PROVE Base'
        <3>1. TypeOK'
            BY <2>1, StepType
        <3> QED BY <1>2, <2>1, <3>1, PurchaseBase, SettleBase, HandleBase DEF Step
    <2>2. ASSUME NEW j \in Jobs,
                 \/ \E p \in Plans : Transition(j, p) \/ Buy(j, p)
                 \/ \E s \in Subs : Confirm(j, s)
                 \/ Convert(j) \/ Asks(j)
          PROVE  Base'
        BY <1>2, <2>2, <2>t, StartType, StartBase
    <2>3. ASSUME NEW j \in Jobs, NEW i \in DOMAIN events, Deliver(j, i) PROVE Base'
        <3>1. TypeOK'
            <4>1. CASE Subs = {}
                BY <2>3, <4>1, EventsKnown DEF In
            <4>2. ASSUME NEW s \in Subs PROVE TypeOK'
                BY <2>3, WorldType
            <4> QED BY <4>1, <4>2
        <3> QED BY <1>2, <2>3, <3>1, StartBase
    <2>4. CASE Open \/ Close \/ Grants
        <3>1. TypeOK'
            <4>1. CASE Open \/ Close
                BY <2>t, <4>1, WindowAssumption DEF TypeOK, Open, Close
            <4>2. ASSUME NEW exempt \in BOOLEAN, SetComp(exempt) PROVE TypeOK'
                <5>1. acct' = [acct EXCEPT !.comp = exempt] /\ changes' = changes + 1
                      /\ UNCHANGED <<subs, events, job, opened, faults>>
                    BY <4>2 DEF SetComp, ByHand
                <5>2. crossed' \in BOOLEAN
                    BY <2>t, <4>2 DEF SetComp, TypeOK
                <5> QED BY <2>t, <5>1, <5>2 DEF TypeOK
            <4> QED BY <2>4, <4>1, <4>2 DEF Grants
        <3> QED BY <1>2, <2>4, <3>1, WorldBase
    <2>5. ASSUME NEW s \in Subs, Pay(s) \/ Expire(s) \/ TrialEnds(s) \/ Later(s) PROVE Base'
        <3>1. TypeOK'
            <4>1. ASSUME NEW st \in Statuses, Moves(s, st) PROVE subs' \in [Subs -> SubRecs] /\ events' \in Seq(Events)
                BY <2>t, <4>1, MovesType
            <4>2. \E st \in Statuses : Moves(s, st)
                BY <2>5 DEF Pay, Expire, TrialEnds, Later, Statuses
            <4>3. UNCHANGED <<acct, job, opened, faults, crossed>> /\ (changes' = changes \/ changes' = changes + 1)
                BY <2>5 DEF Pay, Expire, TrialEnds, Later
            <4> QED BY <2>t, <4>1, <4>2, <4>3 DEF TypeOK
        <3> QED BY <1>2, <2>5, <3>1, WorldBase
    <2> QED BY <1>2, <2>1, <2>2, <2>3, <2>4, <2>5 DEF Next, Grants, Asks
<1> QED BY <1>1, <1>2

LEMMA BaseHolds == Spec => []Base
<1> QED BY InitBase, NextBase, PTL DEF Spec

\* Every variable keeps its type, whatever is lost, repeated or overtaken.
THEOREM TypeCorrect == Spec => []TypeOK
<1>1. Base => TypeOK
    BY DEF Base
<1> QED BY <1>1, BaseHolds, PTL

\* Complimentary access that the admin does not take away himself (PATCH /comp) ends in one
\* write, and only for a subscription that has been paid (_finish_paid_transition is called
\* with an active subscription only), whatever is lost, repeated or overtaken on the way,
\* however purchases cross and whatever the admin does meanwhile.
THEOREM PaidBeforeCompEnds == Spec => CompEndsPaid
<1>1. Base /\ [Next]_vars =>
        [acct.comp /\ ~acct'.comp /\ changes' = changes =>
             acct'.status = "active" /\ acct'.sub # Nil /\ subs[acct'.sub].paid]_vars
    <2> SUFFICES ASSUME Base, Next, acct.comp, ~acct'.comp, changes' = changes
                 PROVE  acct'.status = "active" /\ acct'.sub # Nil /\ subs[acct'.sub].paid
        OBVIOUS
    <2>t. acct \in [comp : BOOLEAN, sub : Subs \cup {Nil}, status : Statuses, pending : Subs \cup {Nil},
                  window : 0..MaxWindows, reason : BOOLEAN, unpaid : BOOLEAN]
        BY DEF Base, TypeOK
    <2>1. ASSUME NEW j \in Jobs, Finish(j)
          PROVE  acct'.status = "active" /\ acct'.sub # Nil /\ subs[acct'.sub].paid
        <3>1. acct'.status = "active" /\ acct'.sub = job[j].sub
            BY <2>t, <2>1 DEF Finish
        <3>2. job[j].sub # Nil /\ subs[job[j].sub].paid
            BY <2>1 DEF Base, Known, Finish, At
        <3> QED BY <3>1, <3>2
    <2>2. ASSUME acct'.comp = acct.comp PROVE FALSE
        BY <2>2
    <2>3. ASSUME NEW j \in Jobs, Step(j), ~Finish(j) PROVE acct'.comp = acct.comp
        BY <2>t, <2>3 DEF Step, SetPlan, Check, Cancel, Create, CreateRaises, Pending, Record, Confirmed, Write, Lookup,
                        Retrieve, Read, Apply, Applied, EndTrial, EndTrialRaises, Note, Stop
    <2>4. CASE Open \/ Close \/ Grants
        <3>1. ~Grants
            BY DEF Grants, SetComp, ByHand, Base, TypeOK
        <3> QED BY <2>t, <2>4, <2>2, <3>1 DEF Open, Close
    <2>5. ASSUME NEW s \in Subs, Pay(s) \/ Expire(s) \/ TrialEnds(s) \/ Later(s) PROVE acct'.comp = acct.comp
        BY <2>5 DEF Pay, Expire, TrialEnds, Later
    <2>6. ASSUME NEW j \in Jobs,
                 \/ \E p \in Plans : Transition(j, p) \/ Buy(j, p)
                 \/ \E s \in Subs : Confirm(j, s)
                 \/ Convert(j) \/ Asks(j)
                 \/ \E i \in DOMAIN events : Deliver(j, i)
          PROVE  acct'.comp = acct.comp
        BY <2>6 DEF Transition, Buy, Confirm, Convert, Deliver, Asks, AskPlan
    <2> QED BY <2>1, <2>2, <2>3, <2>4, <2>5, <2>6 DEF Next, Grants, Asks
<1> QED BY <1>1, BaseHolds, PTL DEF Spec, CompEndsPaid

-----------------------------------------------------------------------------
(* A trial that bounced                                                      *)

St(s) == subs[s].status

\* A card trial that runs, or that ended with a first charge that bounced.
OnTrial(s) == ~subs[s].paid /\ St(s) \in {"trialing", "past_due"}

\* What is heard of such a trial.
Bounced(s) == Tell("updated", s, "past_due")

\* What a request or a webhook may be doing meanwhile.
TrialJob(r, s) ==
    /\ r.pc \in {"idle", "check", "end_trial", "note", "read", "apply"}
    /\ r.pc = "check" => r.how = "buy" /\ r.sub = s
    /\ r.pc \in {"end_trial", "note"} => r.sub = s
    /\ r.pc \in {"note", "read", "apply"} => St(s) = "past_due"
    /\ r.pc = "note" => r.st = "past_due"
    /\ r.pc \in {"read", "apply"} => r.ev = Bounced(s)
    /\ r.pc = "apply" => r.was = "trialing" \/ acct.status = "past_due"

\* Somebody is about to mark the row.
ToldSoon ==
    \/ \E e : In(e, events)
    \/ \E j \in Jobs : \/ job[j].pc \in {"note", "read"}
                       \/ job[j].pc = "apply" /\ job[j].was = "trialing"

\* The account has this subscription only, its row has not missed the end of the trial,
\* and unless something failed it will hear of it.
OnlyTrial(s) ==
    /\ acct.sub = s
    /\ \A t \in Subs \ {s} : ~Made(t)
    /\ ~subs[s].secret /\ subs[s].ended \in {"none", "past_due"}
    /\ St(s) = "trialing" => subs[s].ended = "none" /\ acct.status = "trialing" /\ \A e : ~In(e, events)
    /\ \A e : In(e, events) => e = Bounced(s)
    /\ \A j \in Jobs : TrialJob(job[j], s)
    /\ acct.status \in {"trialing", "past_due"}
    /\ acct.status = "past_due" => acct.unpaid
    /\ faults = 0 /\ St(s) = "past_due" /\ acct.status = "trialing" => ToldSoon

Trials == \A s \in Subs : OnTrial(s) => OnlyTrial(s)

LEMMA InitTrials == Init => Trials
<1> SUFFICES ASSUME Init, NEW s \in Subs, OnTrial(s) PROVE OnlyTrial(s)
    BY DEF Trials
<1> PICK kind \in Kinds, trial \in Subs :
        /\ acct = [comp |-> kind = "comp", sub |-> IF kind = "trial" THEN trial ELSE Nil,
                   status |-> CASE kind = "manual" -> "active" [] kind = "trial" -> "trialing" [] OTHER -> "none",
                   pending |-> Nil, window |-> 0, reason |-> FALSE, unpaid |-> FALSE]
        /\ subs = [t \in Subs |-> IF kind = "trial" /\ t = trial
                                  THEN [Unmade EXCEPT !.status = "trialing"] ELSE Unmade]
        /\ events = <<>>
        /\ job = [j \in Jobs |-> Idle]
    BY DEF Init
<1>1. kind = "trial" /\ s = trial /\ subs[s] = [Unmade EXCEPT !.status = "trialing"]
    BY DEF OnTrial, St, Unmade
<1>2. St(s) = "trialing" /\ ~subs[s].secret /\ subs[s].ended = "none"
    BY <1>1 DEF St, Unmade
<1>3. \A t \in Subs \ {s} : ~Made(t)
    BY <1>1 DEF Made, Unmade
<1>4. acct.sub = s /\ acct.status = "trialing"
    BY <1>1
<1>5. \A e : ~In(e, events)
    BY DEF In
<1>6. \A j \in Jobs : TrialJob(job[j], s)
    BY DEF TrialJob, Idle
<1> QED BY <1>2, <1>3, <1>4, <1>5, <1>6 DEF OnlyTrial

\* Nothing becomes such a trial.
LEMMA TrialBefore ==
    ASSUME Base, Next, NEW s \in Subs, OnTrial(s)'
    PROVE  OnTrial(s)
<1>1. Grown /\ Sound(subs[s])
    BY NextGrows DEF Base, AllSound
<1>2. CASE Made(s)
    BY <1>1, <1>2 DEF Grown, Follows, OnTrial, St
<1>3. CASE ~Made(s)
    BY <1>1, <1>3 DEF Grown, Fresh, OnTrial, St, Made
<1> QED BY <1>2, <1>3

\* The others are where they were: the row only ever comes to say that the trial ended.
LEMMA TrialOthers ==
    ASSUME NEW s, NEW j \in Jobs, \A k \in Jobs : TrialJob(job[k], s),
           \A k \in Jobs \ {j} : job'[k] = job[k], TrialJob(job[j], s)',
           subs'[s].status \in {St(s), "past_due"},
           acct'.status \in {acct.status, "past_due"}
    PROVE  (\A k \in Jobs : TrialJob(job[k], s))'
<1> SUFFICES ASSUME NEW k \in Jobs, k # j PROVE TrialJob(job[k], s)'
    OBVIOUS
<1>1. job'[k] = job[k] /\ TrialJob(job[k], s)
    OBVIOUS
<1> QED BY <1>1 DEF TrialJob, St

\* What an account on trial may do, and what may happen to it.
LEMMA TrialActs ==
    ASSUME Base, NEW s \in Subs, OnTrial(s), OnlyTrial(s), Next
    PROVE  \/ \E j \in Jobs : \/ \E p \in Plans : Buy(j, p)
                              \/ \E i \in DOMAIN events : Deliver(j, i)
                              \/ Convert(j) \/ Check(j) \/ Read(j) \/ Apply(j)
                              \/ EndTrial(j) \/ EndTrialRaises(j) \/ Note(j) \/ Stop(j)
           \/ Close \/ Grants \/ TrialEnds(s) \/ Later(s)
<1>t. \A t \in Subs \ {s} : subs[t] = Unmade
    BY DEF OnlyTrial, Base, AllSound, Sound, Made
<1>1. ~Eligible
    BY NameAssumption DEF OnlyTrial, Eligible, Manual
<1>2. \A t \in Subs : ~subs[t].secret /\ St(t) # "incomplete"
    BY <1>t DEF OnlyTrial, OnTrial, Unmade, St
<1>3. \A t \in Subs \ {s} : St(t) = "none"
    BY <1>t DEF Unmade, St
<1>4. \A j \in Jobs : job[j].pc \in {"idle", "check", "end_trial", "note", "read", "apply"}
    BY DEF OnlyTrial, TrialJob
<1>5. ~Open /\ \A j \in Jobs : ~Asks(j)
    BY <1>1, NameAssumption DEF Open, Asks, AskPlan, OnlyTrial
<1>6. \A j \in Jobs : /\ \A p \in Plans : ~Transition(j, p)
                      /\ \A t \in Subs : ~Confirm(j, t)
    BY <1>1, <1>2 DEF Transition, Confirm
<1>7. \A j \in Jobs : ~Cancel(j) /\ ~Create(j) /\ ~CreateRaises(j) /\ ~Pending(j) /\ ~Record(j) /\ ~Finish(j)
    BY <1>4 DEF Cancel, Create, CreateRaises, Pending, Record, Finish, At
<1>8. \A j \in Jobs : ~Confirmed(j) /\ ~Write(j) /\ ~Lookup(j) /\ ~Retrieve(j) /\ ~SetPlan(j)
    BY <1>4 DEF Confirmed, Write, Lookup, Retrieve, SetPlan, At
<1>9. \A t \in Subs : ~Pay(t) /\ ~Expire(t)
    BY <1>2 DEF Pay, Expire, St
<1>10. \A t \in Subs \ {s} : ~TrialEnds(t) /\ ~Later(t)
    BY <1>3 DEF TrialEnds, Later, St
<1> QED BY <1>5, <1>6, <1>7, <1>8, <1>9, <1>10 DEF Next, Grants, Asks, Step

\* Nothing happens at Stripe: requests begin, webhooks are taken and wait.
LEMMA TrialGoesOn ==
    ASSUME Base, NEW s \in Subs, OnTrial(s), OnlyTrial(s), NEW j \in Jobs,
           \/ \E p \in Plans : Buy(j, p)
           \/ \E i \in DOMAIN events : Deliver(j, i)
           \/ Convert(j) \/ Check(j) \/ Read(j) \/ Apply(j) \/ Note(j) \/ Stop(j)
    PROVE  OnlyTrial(s)'
<1>t. TypeOK /\ events \in Seq(Events) /\ faults \in Nat
    BY DEF Base, TypeOK
<1>k. Known(job[j]) /\ Placed(job[j]) /\ TrialJob(job[j], s)
    BY DEF Base, OnlyTrial
<1>h. job[j].how # "buy" => job[j].pc # "check"
    BY <1>k DEF TrialJob
<1>c. Check(j) => Done(j) /\ UNCHANGED <<acct, subs, events, faults>> /\ job[j].pc = "check"
    BY <1>k DEF Check, TrialJob, OnTrial, St, Over, At
<1>u. UNCHANGED subs
    BY <1>c DEF Buy, Deliver, Convert, Read, Apply, Note, Stop
<1>r. Read(j) => /\ job' = [job EXCEPT ![j].pc = "apply", ![j].was = acct.status]
                 /\ job[j].pc = "read" /\ UNCHANGED <<acct, events, faults>>
    BY <1>k DEF Read, Concerns, TrialJob, Bounced, Tell, OnlyTrial, At
<1>a. /\ acct'.sub = acct.sub
      /\ \/ acct'.status = acct.status /\ acct'.unpaid = acct.unpaid
         \/ acct'.status = "past_due" /\ acct'.unpaid
    <2>1. CASE Apply(j)
        <3>1. job[j].ev = Bounced(s) /\ job[j].st = "past_due" /\ job[j].pc = "apply"
              /\ (job[j].was = "trialing" \/ acct.status = "past_due")
            BY <2>1, <1>k, NameAssumption DEF Apply, At, TrialJob, Placed, Bounced, Tell
        <3>2. \/ acct' = acct
              \/ acct' = [acct EXCEPT !.status = "past_due", !.reason = TRUE, !.unpaid = TRUE]
              \/ acct' = [acct EXCEPT !.status = "past_due"] /\ acct.status = "past_due"
            BY <2>1, <3>1 DEF Apply, Applied, Bounced, Tell
        <3> QED BY <3>2, <1>t DEF TypeOK
    <2>2. CASE Note(j)
        BY <2>2, <1>k, <1>t DEF Note, TrialJob, At, TypeOK
    <2>3. CASE UNCHANGED acct
        BY <2>3
    <2> QED BY <1>c, <1>r, <2>1, <2>2, <2>3 DEF Buy, Deliver, Convert, Stop
<1>b. (\A k \in Jobs \ {j} : job'[k] = job[k]) /\ TrialJob(job[j], s)'
    <2>1. ASSUME job' = [job EXCEPT ![j] = Idle] PROVE (\A k \in Jobs \ {j} : job'[k] = job[k]) /\ TrialJob(job[j], s)'
        BY <1>t, <2>1 DEF TypeOK, Idle, TrialJob
    <2>2. CASE Check(j) \/ Apply(j) \/ Note(j) \/ Stop(j)
        BY <2>1, <2>2, <1>c DEF Apply, Note, Stop, Unanswered, Done
    <2>3. ASSUME NEW p \in Plans, Buy(j, p) PROVE (\A k \in Jobs \ {j} : job'[k] = job[k]) /\ TrialJob(job[j], s)'
        <3>1. /\ \A k \in Jobs \ {j} : job'[k] = job[k]
              /\ job'[j].pc = "check" /\ job'[j].how = "buy" /\ job'[j].sub = s
            BY <2>3, <1>t, NameAssumption DEF Buy, Begins, Idle, TypeOK, OnlyTrial
        <3> QED BY <3>1 DEF TrialJob
    <2>4. ASSUME NEW i \in DOMAIN events, Deliver(j, i) PROVE (\A k \in Jobs \ {j} : job'[k] = job[k]) /\ TrialJob(job[j], s)'
        <3>1. events[i] = Bounced(s) /\ St(s) = "past_due"
            BY DEF OnlyTrial, In, OnTrial
        <3>2. /\ \A k \in Jobs \ {j} : job'[k] = job[k]
              /\ job'[j].pc = "read" /\ job'[j].ev = Bounced(s)
            <4>1. Bounced(s).status = "past_due"
                BY DEF Bounced, Tell
            <4> QED BY <2>4, <1>t, <3>1, <4>1, DeliverJob
        <3> QED BY <1>u, <3>1, <3>2 DEF TrialJob, St
    <2>5. CASE Convert(j)
        <3>1. /\ \A k \in Jobs \ {j} : job'[k] = job[k]
              /\ job'[j].pc = "end_trial" /\ job'[j].sub = s
            BY <2>5, <1>t DEF Convert, Idle, TypeOK, OnlyTrial
        <3> QED BY <3>1 DEF TrialJob
    <2>6. CASE Read(j)
        <3>1. /\ \A k \in Jobs \ {j} : job'[k] = job[k]
              /\ job'[j].pc = "apply" /\ job'[j].was = acct.status /\ job'[j].ev = job[j].ev /\ acct' = acct
            BY <2>6, <1>t, <1>r DEF TypeOK, JobRecs
        <3>2. job[j].ev = Bounced(s) /\ St(s) = "past_due" /\ acct.status \in {"trialing", "past_due"}
            BY <2>6, <1>k, <1>r DEF TrialJob, OnlyTrial
        <3> QED BY <1>u, <3>1, <3>2 DEF TrialJob, St
    <2> QED BY <2>2, <2>3, <2>4, <2>5, <2>6
<1>v. \A e : In(e, events') => In(e, events) \/ (St(s) = "past_due" /\ e = Bounced(s))
    <2>1. CASE UNCHANGED events
        BY <2>1 DEF In
    <2>2. ASSUME NEW i \in DOMAIN events, events' = RemoveAt(events, i)
          PROVE  \A e : In(e, events') => In(e, events)
        BY <1>t, <2>2, RemoveIn
    <2>3. CASE Stop(j) /\ job[j].ev # Nil
        <3>1. job[j].ev \in Events /\ events' = Append(events, job[j].ev)
            BY <2>3, EventsKnown DEF Stop, Unanswered
        <3>2. job[j].ev = Bounced(s) /\ St(s) = "past_due"
            BY <2>3, <1>k DEF Placed, TrialJob
        <3> QED BY <1>t, <3>1, <3>2, AppendIn
    <2> QED BY <1>c, <1>r, <2>1, <2>2, <2>3 DEF Buy, Deliver, Convert, Apply, Note, Stop, Unanswered
<1>w. faults' = 0 /\ St(s) = "past_due" /\ acct'.status = "trialing" => ToldSoon'
    <2> SUFFICES ASSUME faults' = 0, St(s) = "past_due", acct'.status = "trialing" PROVE ToldSoon'
        OBVIOUS
    <2>0. acct.status = "trialing"
        BY <1>a
    <2>f. faults' = faults \/ Fault
        BY <1>c, <1>r DEF Buy, Deliver, Convert, Apply, Note, Stop
    <2>g. ~Fault
        BY <1>t DEF Fault
    <2>1. faults = 0 /\ ~Stop(j)
        BY <2>f, <2>g DEF Stop
    <2>2. ToldSoon
        BY <2>0, <2>1 DEF OnlyTrial
    <2>3. CASE Read(j)
        <3>1. job'[j].pc = "apply" /\ job'[j].was = "trialing"
            BY <2>3, <1>r, <1>t, <2>0 DEF TypeOK, JobRecs
        <3> QED BY <3>1 DEF ToldSoon
    <2>4. ASSUME NEW i \in DOMAIN events, Deliver(j, i) PROVE ToldSoon'
        <3>1. events[i] = Bounced(s)
            BY DEF OnlyTrial, In
        <3>2. job'[j].pc = "read"
            <4>1. Bounced(s).status = "past_due"
                BY DEF Bounced, Tell
            <4> QED BY <2>4, <1>t, <3>1, <4>1, DeliverJob
        <3> QED BY <3>2 DEF ToldSoon
    <2>5. ASSUME UNCHANGED events, job[j].pc \notin {"note", "read", "apply"} PROVE ToldSoon'
        BY <2>2, <2>5, <1>b DEF ToldSoon, In
    <2>6. CASE Check(j)
        BY <2>5, <2>6, <1>c
    <2>7. CASE (\E p \in Plans : Buy(j, p)) \/ Convert(j)
        BY <2>5, <2>7 DEF Buy, Convert, At
    <2>8. CASE Note(j)
        BY <2>8, <1>t, <1>k, <2>0, <1>a DEF Note, TypeOK, TrialJob, At
    <2>9. CASE Apply(j)
        <3>1. job[j].ev = Bounced(s) /\ job[j].st = "past_due"
            BY <2>9, <1>k, NameAssumption DEF Apply, At, TrialJob, Placed, Bounced, Tell
        <3>2. acct'.status = "past_due"
            <4>1. acct' = Applied(job[j])
                BY <2>g, <2>9 DEF Apply
            <4>2. Bounced(s).kind = "updated"
                BY DEF Bounced, Tell
            <4>3. \/ acct' = [acct EXCEPT !.status = "past_due", !.reason = TRUE, !.unpaid = TRUE]
                  \/ acct' = [acct EXCEPT !.status = "past_due"]
                BY <3>1, <4>1, <4>2 DEF Applied
            <4> QED BY <4>3, <1>t DEF TypeOK
        <3> QED BY <3>2
    <2> QED BY <2>1, <2>3, <2>4, <2>6, <2>7, <2>8, <2>9
<1>s. St(s)' = St(s) /\ subs' = subs
    BY <1>u DEF St
<1>1. (\A k \in Jobs : TrialJob(job[k], s))'
    BY <1>a, <1>b, <1>s, TrialOthers DEF OnlyTrial, St
<1>2. acct'.sub = s /\ acct'.status \in {"trialing", "past_due"} /\ (acct'.status = "past_due" => acct'.unpaid)
    BY <1>a DEF OnlyTrial
<1>3. St(s) = "trialing" => acct'.status = "trialing" /\ \A e : ~In(e, events')
    <2> SUFFICES ASSUME St(s) = "trialing" PROVE acct'.status = "trialing" /\ \A e : ~In(e, events')
        OBVIOUS
    <2>1. ~Apply(j) /\ ~Note(j)
        BY <1>k DEF TrialJob, Apply, Note, At
    <2>2. acct'.status = acct.status
        BY <2>1, <1>c, <1>r DEF Buy, Deliver, Convert, Stop
    <2> QED BY <2>2, <1>v DEF OnlyTrial
<1>4. \A e : In(e, events') => e = Bounced(s)
    BY <1>v DEF OnlyTrial
<1> QED BY <1>1, <1>2, <1>3, <1>4, <1>w, <1>s DEF OnlyTrial, Made, Bounced


\* What has to be seen once it has bounced.
LEMMA BouncedFrame ==
    ASSUME Base, NEW s \in Subs, OnTrial(s), OnlyTrial(s), UNCHANGED acct,
           \A t \in Subs \ {s} : subs'[t] = subs[t],
           subs'[s].secret = subs[s].secret, subs'[s].ended \in {"none", "past_due"},
           subs'[s].status = "past_due",
           events' = events \/ events' = Told(s, "past_due"),
           NEW j \in Jobs, \A k \in Jobs \ {j} : job'[k] = job[k], TrialJob(job[j], s)',
           faults' = 0 /\ acct.status = "trialing" => ToldSoon'
    PROVE  OnlyTrial(s)'
<1>1. \A e : In(e, events') => e = Bounced(s)
    <2>1. \A e : In(e, Told(s, "past_due")) => In(e, events) \/ e = Bounced(s)
        BY ToldIn DEF News, Bounced, Statuses, Base
    <2> QED BY <2>1 DEF OnlyTrial
<1>2. (\A k \in Jobs : TrialJob(job[k], s))'
    BY TrialOthers DEF OnlyTrial
<1>3. \A t \in Subs \ {s} : ~Made(t)'
    BY DEF OnlyTrial, Made
<1> QED BY <1>1, <1>2, <1>3 DEF OnlyTrial, St, Bounced

\* A trial that ends without a payment, at the hand of whoever.
LEMMA MovedBounces ==
    ASSUME TypeOK, NEW s \in Subs, OnTrial(s)', NEW st \in {"active", "past_due"}, NEW en,
           subs' = [subs EXCEPT ![s] = [Moved(s, st) EXCEPT !.ended = en]]
    PROVE  /\ st = "past_due"
           /\ \A t \in Subs \ {s} : subs'[t] = subs[t]
           /\ subs'[s].secret = subs[s].secret /\ subs'[s].ended = en
           /\ subs'[s].status = "past_due"
<1>1. st \in Statuses
    BY DEF Statuses
<1>2. /\ Moved(s, st) \in SubRecs /\ Moved(s, st).secret = subs[s].secret /\ Moved(s, st).status = st
      /\ st = "active" => Moved(s, st).paid
    BY <1>1, MovedType DEF TypeOK, Moved, SubRecs
<1>3. /\ \A t \in Subs \ {s} : subs'[t] = subs[t]
      /\ subs'[s].secret = subs[s].secret /\ subs'[s].ended = en
      /\ subs'[s].status = st /\ subs'[s].paid = Moved(s, st).paid
    BY <1>2 DEF SubRecs, TypeOK
<1> QED BY <1>2, <1>3 DEF OnTrial

\* Its days are over.
LEMMA TrialRunsOut ==
    ASSUME Base, NEW s \in Subs, OnTrial(s), OnlyTrial(s), OnTrial(s)', TrialEnds(s)
    PROVE  OnlyTrial(s)'
<1>t. TypeOK /\ subs[s] \in SubRecs
    BY DEF Base, TypeOK
<1>1. PICK st \in {"active", "past_due"} : subs' = [subs EXCEPT ![s] = Moved(s, st)] /\ events' = Told(s, st)
    BY DEF TrialEnds, Moves
<1>2. Moved(s, st) = [Moved(s, st) EXCEPT !.ended = subs[s].ended]
    BY <1>t DEF Moved, SubRecs
<1>3. /\ st = "past_due" /\ \A t \in Subs \ {s} : subs'[t] = subs[t]
      /\ subs'[s].secret = subs[s].secret /\ subs'[s].ended = subs[s].ended
      /\ subs'[s].status = "past_due"
    <2>1. subs' = [subs EXCEPT ![s] = [Moved(s, st) EXCEPT !.ended = subs[s].ended]]
        BY <1>1, <1>2
    <2> QED BY <1>t, <2>1, MovedBounces
<1>4. In(Bounced(s), events')
    BY <1>1, <1>3, <1>t, ToldIn DEF News, Bounced, Statuses
<1>5. UNCHANGED <<acct, job>>
    BY DEF TrialEnds
<1>6. \A j \in Jobs : TrialJob(job[j], s)'
    BY <1>3, <1>5 DEF OnlyTrial, TrialJob, St
<1>7. CASE \E j \in Jobs : TRUE
    <2>1. PICK j \in Jobs : TRUE
        BY <1>7
    <2>2. ToldSoon'
        BY <1>4 DEF ToldSoon
    <2> QED BY <1>1, <1>3, <1>5, <1>6, <2>2, BouncedFrame DEF OnlyTrial
<1>8. CASE Jobs = {}
    <2>1. \A e : In(e, events') => e = Bounced(s)
        <3>1. \A e : In(e, Told(s, "past_due")) => In(e, events) \/ e = Bounced(s)
            BY <1>t, ToldIn DEF News, Bounced, Statuses
        <3> QED BY <1>1, <1>3, <3>1 DEF OnlyTrial
    <2>2. ToldSoon'
        BY <1>4 DEF ToldSoon
    <2>3. \A t \in Subs \ {s} : ~Made(t)'
        BY <1>3 DEF OnlyTrial, Made
    <2> QED BY <1>3, <1>5, <1>6, <2>1, <2>2, <2>3 DEF OnlyTrial, St, Bounced
<1> QED BY <1>7, <1>8

\* convert_card_trial ends it, and unless it fails there it marks the row.
LEMMA TrialConverted ==
    ASSUME Base, NEW s \in Subs, OnTrial(s), OnlyTrial(s), OnTrial(s)', NEW j \in Jobs,
           EndTrial(j) \/ EndTrialRaises(j)
    PROVE  OnlyTrial(s)'
<1>t. /\ TypeOK /\ job \in [Jobs -> JobRecs] /\ subs \in [Subs -> SubRecs] /\ faults \in Nat
      /\ subs[s] \in SubRecs
    BY DEF Base, TypeOK
<1>e. job[j].pc = "end_trial" /\ job[j].sub = s
    BY DEF OnlyTrial, EndTrial, EndTrialRaises, At, TrialJob
<1>f. subs[s].ended \in {"none", "past_due"} /\ St(s) \in {"trialing", "past_due"}
      /\ (subs[s].ended # "none" => St(s) = "past_due")
    BY DEF OnlyTrial, OnTrial
<1>a. UNCHANGED acct
    BY DEF EndTrial, EndTrialRaises
<1>1. ASSUME subs[s].ended = "none", St(s) = "trialing", NEW st \in {"active", "past_due"},
             subs' = [subs EXCEPT ![s] = [Moved(s, st) EXCEPT !.ended = st]], events' = Told(s, st)
      PROVE  /\ st = "past_due" /\ \A t \in Subs \ {s} : subs'[t] = subs[t]
             /\ subs'[s].secret = subs[s].secret /\ subs'[s].ended = "past_due"
             /\ subs'[s].status = "past_due" /\ events' = Told(s, "past_due")
    BY <1>1, <1>t, MovedBounces
<1>2. CASE EndTrialRaises(j)
    <2>1. PICK st \in {"active", "past_due"} :
                subs' = [subs EXCEPT ![s] = [Moved(s, st) EXCEPT !.ended = st]] /\ events' = Told(s, st)
        BY <1>2, <1>e DEF EndTrialRaises
    <2>2. Done(j) /\ faults' # 0 /\ subs[s].ended = "none" /\ St(s) = "trialing"
        BY <1>2, <1>e, <1>t DEF EndTrialRaises, Fault, St
    <2>3. (\A k \in Jobs \ {j} : job'[k] = job[k]) /\ TrialJob(job[j], s)'
        BY <1>t, <2>2, GotoJob DEF TrialJob, Idle
    <2> QED BY <1>1, <1>a, <2>1, <2>2, <2>3, BouncedFrame
<1>3. CASE EndTrial(j)
    <2> DEFINE Noted(st) == job' = [job EXCEPT ![j].pc = "note", ![j].st = st]
    <2>1. /\ Noted("past_due")
          /\ \A t \in Subs \ {s} : subs'[t] = subs[t]
          /\ subs'[s].secret = subs[s].secret /\ subs'[s].ended = "past_due"
          /\ subs'[s].status = "past_due" /\ (events' = events \/ events' = Told(s, "past_due"))
        <3>1. CASE subs[s].ended # "none"
            BY <1>3, <1>e, <1>f, <3>1 DEF EndTrial, St
        <3>2. CASE subs[s].ended = "none" /\ St(s) = "trialing"
            <4>1. PICK st \in {"active", "past_due"} :
                    /\ subs' = [subs EXCEPT ![s] = [Moved(s, st) EXCEPT !.ended = st]]
                    /\ events' = Told(s, st) /\ Noted(st)
                BY <1>3, <1>e, <3>2 DEF EndTrial, St
            <4> QED BY <1>1, <3>2, <4>1
        <3>3. CASE subs[s].ended = "none" /\ St(s) = "past_due"
            <4>1. subs' = [subs EXCEPT ![s] = [subs[s] EXCEPT !.ended = "past_due"]]
                  /\ Noted("past_due") /\ events' = events
                BY <1>3, <1>e, <3>3 DEF EndTrial, St
            <4> QED BY <4>1, <1>t, <3>3 DEF SubRecs, St
        <3> QED BY <1>f, <3>1, <3>2, <3>3
    <2>2. /\ \A k \in Jobs \ {j} : job'[k] = job[k]
          /\ job'[j].pc = "note" /\ job'[j].st = "past_due" /\ job'[j].sub = s
        BY <2>1, <1>t, <1>e DEF JobRecs
    <2>3. TrialJob(job[j], s)' /\ ToldSoon'
        BY <2>1, <2>2 DEF TrialJob, ToldSoon, St
    <2> HIDE DEF Noted
    <2> QED BY <1>a, <2>1, <2>2, <2>3, BouncedFrame
<1> QED BY <1>2, <1>3

LEMMA TrialsStep == Base /\ Trials /\ [Next]_vars => Trials'
<1> SUFFICES ASSUME Base, Trials, [Next]_vars, NEW s \in Subs, OnTrial(s)' PROVE OnlyTrial(s)'
    BY DEF Trials
<1>1. CASE UNCHANGED vars
    <2>1. OnTrial(s)
        BY <1>1 DEF vars, OnTrial, St
    <2>2. OnlyTrial(s)
        BY <2>1 DEF Trials
    <2>3. UNCHANGED <<acct, subs, events, job, faults>>
        BY <1>1 DEF vars
    <2> QED BY <2>2, <2>3 DEF OnlyTrial, Made, St, TrialJob, ToldSoon, In
<1>2. CASE Next
    <2>1. OnTrial(s)
        BY <1>2, TrialBefore
    <2>2. OnlyTrial(s)
        BY <2>1 DEF Trials
    <2>3. ASSUME NEW j \in Jobs,
                 \/ \E p \in Plans : Buy(j, p)
                 \/ \E i \in DOMAIN events : Deliver(j, i)
                 \/ Convert(j) \/ Check(j) \/ Read(j) \/ Apply(j) \/ Note(j) \/ Stop(j)
          PROVE  OnlyTrial(s)'
        BY <2>1, <2>2, <2>3, TrialGoesOn
    <2>4. ASSUME NEW j \in Jobs, EndTrial(j) \/ EndTrialRaises(j) PROVE OnlyTrial(s)'
        BY <2>1, <2>2, <2>4, TrialConverted
    <2>5. CASE TrialEnds(s)
        BY <2>1, <2>2, <2>5, TrialRunsOut
    <2>6. CASE Close \/ Grants
        <3>1. /\ UNCHANGED <<subs, events, job, faults>>
              /\ acct'.sub = acct.sub
              /\ acct'.status = acct.status /\ acct'.unpaid = acct.unpaid
            BY <2>6 DEF Close, Grants, SetComp, Base, TypeOK
        <3> QED BY <2>2, <3>1 DEF OnlyTrial, Made, St, TrialJob, ToldSoon, In
    <2>7. ~Later(s)
        <3>1. ASSUME NEW st \in {"active", "canceled"}, Moves(s, st) PROVE FALSE
            <4>1. subs' = [subs EXCEPT ![s] = Moved(s, st)] /\ subs \in [Subs -> SubRecs]
                BY <3>1 DEF Moves, Base, TypeOK
            <4>2. Moved(s, st).status = st
                BY <4>1 DEF Moved, SubRecs
            <4> QED BY <4>1, <4>2 DEF OnTrial, St
        <3>2. St(s) # "active"
            BY <2>1 DEF OnTrial
        <3> QED BY <3>1, <3>2 DEF Later, St
    <2> QED BY <1>2, <2>1, <2>2, <2>3, <2>4, <2>5, <2>6, <2>7, TrialActs
<1> QED BY <1>1, <1>2

(* UnpaidIsCut is an invariant: when every webhook has been answered and nothing
   failed, a trial whose first charge bounced is marked on the row, whoever ended
   it and whatever else was asked for meanwhile. *)
THEOREM BouncedIsCut == Spec => []UnpaidIsCut
<1>1. Base /\ Trials => UnpaidIsCut
    <2> SUFFICES ASSUME Base, Trials, AtRest, faults = 0, acct.sub # Nil,
                        subs[acct.sub].status = "past_due", ~subs[acct.sub].paid
                 PROVE  acct.status = "past_due" /\ acct.unpaid
        BY DEF UnpaidIsCut
    <2>1. acct.sub \in Subs
        BY DEF Base, TypeOK
    <2>2. OnlyTrial(acct.sub) /\ St(acct.sub) = "past_due"
        BY <2>1 DEF Trials, OnTrial, St
    <2>3. ~ToldSoon
        BY DEF AtRest, Quiet, At, ToldSoon, In
    <2> QED BY <2>2, <2>3 DEF OnlyTrial
<1>2. Init => Base /\ Trials
    BY InitBase, InitTrials
<1>3. Base /\ Trials /\ [Next]_vars => Base' /\ Trials'
    BY NextBase, TrialsStep
<1> QED BY <1>1, <1>2, <1>3, PTL DEF Spec

-----------------------------------------------------------------------------
(* What one purchase at a time keeps                                         *)

\* The subscription the row is about.
Row == IF acct.sub = Nil THEN acct.pending ELSE acct.sub

\* What a transition created and a customer may pay for, or has.
Bound(s) == Keyed(s) /\ subs[s].secret /\ St(s) \in {"incomplete", "active", "past_due"}

\* There is one such subscription, and the row is about it.
OnRow == \A s \in Subs : Bound(s) => s = Row

\* Those under way share a key.
Paired == \A j, k \in Jobs : j # k /\ job[j].how # "none" /\ job[k].how # "none" =>
             job[j].key = job[k].key /\ job[j].key # Nil

\* What was created to replace another outlives it.
Replaced == \A s \in Subs : Keyed(s) /\ subs[s].key[2] \in Subs => St(subs[s].key[2]) = "canceled"

\* Stripe says that s was paid, and the account is to hear of it.
Paid(s) == Tell("updated", s, "active")
Coming(s) == \/ In(Paid(s), events)
             \/ \E j \in Jobs : job[j].pc \in {"lookup", "retrieve", "finish"} /\ job[j].ev = Paid(s)
Awaited == acct.sub = Nil /\ acct.pending # Nil =>
              /\ St(acct.pending) # "past_due"
              /\ St(acct.pending) = "active" => Coming(acct.pending)

\* The request is past the subscription it replaces.
Past(r) == r.pc \in {"create", "pending"} \/ (r.pc = "finish" /\ r.sub # r.key[2])

\* A transition: what it replaces is on the row, or what it, or one like it, created.
Moving(r) == r.how = "transition"
Mover(r) == Moving(r) =>
    /\ acct.sub = Nil => Eligible
    /\ r.key[2] \in Subs => /\ Keyed(r.key[2]) /\ subs[r.key[2]].first = "incomplete"
                            /\ Past(r) => St(r.key[2]) = "canceled"
    /\ \/ Row # Nil /\ subs[Row].key = r.key
       \/ acct.sub = Nil /\ acct.pending = (IF r.key[2] \in Subs THEN r.key[2] ELSE Nil)
       \/ acct.sub # Nil /\ acct.sub = r.key[2] /\ St(acct.sub) = "active"

\* A purchase without a key: nothing that a transition created is left but what it looks at.
Buying(r) == r.how = "buy"
Buyer(r) == Buying(r) =>
    /\ acct.comp => changes > 0
    /\ r.pc = "check" => acct.sub # Nil /\ (Keyed(r.sub) => subs[r.sub].paid)
    /\ \A s \in Subs : Bound(s) => r.pc = "check" /\ s = r.sub

\* What finishes, confirms, converts or applies.
Hook(r) ==
    /\ r.pc \in {"retrieve", "finish"} /\ r.how = "none" => Keyed(r.sub) /\ subs[r.sub].first = "incomplete"
    /\ r.pc = "finish" /\ (r.how = "none" \/ r.sub = r.key[2]) => St(r.sub) = "active"
    /\ r.pc \in {"confirm", "write"} => acct.sub # Nil /\ St(r.sub) = "active" /\ subs[r.sub].secret
    /\ r.pc \in {"end_trial", "note"} => acct.sub # Nil
    /\ r.pc = "apply" /\ r.ev.kind # "paid" => acct.sub # Nil

\* What kind of account it is: complimentary with a subscription only by the admin's hand.
Stands ==
    /\ acct.comp => acct.sub = Nil \/ changes > 0
    /\ acct.sub = Nil /\ acct.pending # Nil => Eligible
    /\ acct.sub = Nil => \A s \in Subs : ~Keyed(s) => ~subs[s].secret
    /\ acct.sub # Nil /\ Keyed(acct.sub) => subs[acct.sub].paid

\* Once what was bought without a key may be paid, nothing of a transition is left.
Apart == (\E s \in Subs : ~Keyed(s) /\ subs[s].secret) =>
             (\A s \in Subs : ~Bound(s)) /\ (\A j \in Jobs : ~Moving(job[j]))

OneByOne ==
    /\ Paired /\ Replaced /\ OnRow /\ Awaited /\ Stands /\ Apart
    /\ \A j \in Jobs : Mover(job[j]) /\ Buyer(job[j]) /\ Hook(job[j])

-----------------------------------------------------------------------------
(* What a step may do to a subscription                                      *)

\* A browser is given its secret.
HandsOut(s) ==
    /\ Made(s)
    /\ subs'[s].secret /\ subs'[s].status = St(s) /\ subs'[s].key = subs[s].key
    /\ subs'[s].first = subs[s].first /\ subs'[s].paid = subs[s].paid
    /\ \E j \in Jobs : /\ job[j].sub = s
                       /\ (Check(j) /\ St(s) = "incomplete") \/ Pending(j) \/ Record(j)

\* Its status moves: no request is in hand, or it had yet to be paid, or a request cancels it.
MovesOn(s) ==
    /\ Made(s)
    /\ subs'[s].secret = subs[s].secret /\ subs'[s].key = subs[s].key /\ subs'[s].first = subs[s].first
    /\ \/ subs'[s].status = St(s)
       \/ St(s) = "trialing" /\ subs'[s].status \in {"active", "past_due"}
       \/ St(s) = "trialing" /\ subs'[s].status = "canceled"
       \/ /\ St(s) = "incomplete" /\ subs'[s].status = "active" /\ subs[s].secret
          /\ In(Paid(s), events')
       \/ St(s) = "incomplete" /\ subs'[s].status = "canceled" /\ Quiet
       \/ St(s) \in {"active", "past_due"} /\ subs'[s].status \in {"active", "past_due", "canceled"} /\ AtRest
       \/ /\ subs'[s].status = "canceled" /\ (subs[s].paid => crossed')
          /\ \E j \in Jobs : Cancel(j) /\ job[j].sub = s

\* Stripe creates it.
IsCreated(s) ==
    /\ ~Made(s) /\ subs'[s].status \in {"incomplete", "active"}
    /\ ~subs'[s].secret
    /\ \E j \in Jobs :
          /\ job[j].pc = "create" /\ Replays(job[j]) = {} /\ subs'[s].key = job[j].key
          /\ subs'[s].first = (IF job[j].key = Nil THEN "none" ELSE subs'[s].status)
          /\ \/ Create(j) /\ Goes(j, s, subs'[s].status)
             \/ CreateRaises(j) /\ subs'[s].status = "incomplete"

LEMMA MovedOn ==
    ASSUME TypeOK, NEW s \in Subs, NEW st \in Statuses, Moves(s, st)
    PROVE  /\ \A t \in Subs \ {s} : subs'[t] = subs[t]
           /\ subs'[s].status = st /\ subs'[s].secret = subs[s].secret
           /\ subs'[s].key = subs[s].key /\ subs'[s].first = subs[s].first
           /\ st = "active" => In(Paid(s), events')
<1>1. subs \in [Subs -> SubRecs] /\ subs' = [subs EXCEPT ![s] = Moved(s, st)]
    BY DEF TypeOK, Moves
<1>2. /\ Moved(s, st).status = st /\ Moved(s, st).secret = subs[s].secret
      /\ Moved(s, st).key = subs[s].key /\ Moved(s, st).first = subs[s].first
    BY <1>1 DEF Moved, SubRecs
<1>3. st = "active" => In(Paid(s), events')
    <2>1. st = "active" => Paid(s) \in News(s, st)
        BY DEF News, Paid
    <2> QED BY <2>1, ToldIn DEF Moves
<1> QED BY <1>1, <1>2, <1>3

LEMMA SecretOut ==
    ASSUME TypeOK, NEW s \in Subs, Made(s), Secret(s),
           \E j \in Jobs : /\ job[j].sub = s
                           /\ (Check(j) /\ St(s) = "incomplete") \/ Pending(j) \/ Record(j)
    PROVE  HandsOut(s) /\ \A t \in Subs \ {s} : subs'[t] = subs[t]
<1>1. /\ subs \in [Subs -> SubRecs] /\ subs' = [subs EXCEPT ![s] = [subs[s] EXCEPT !.secret = TRUE]]
    BY DEF TypeOK, Secret
<1> QED BY <1>1 DEF HandsOut, SubRecs, St

LEMMA CreatedIs ==
    ASSUME Base, NEW j \in Jobs, NEW s \in Subs, NEW st \in {"incomplete", "active"},
           Creates(j, s, st), Replays(job[j]) = {}, job[j].pc = "create",
           (Create(j) /\ Goes(j, s, st)) \/ (CreateRaises(j) /\ st = "incomplete")
    PROVE  IsCreated(s) /\ \A t \in Subs \ {s} : subs'[t] = subs[t]
BY CreatesFollows DEF IsCreated, Base

LEMMA EndsOn ==
    ASSUME TypeOK, NEW s \in Subs, Made(s), Ends(s)
    PROVE  \/ UNCHANGED subs
           \/ MovesOn(s) /\ \A t \in Subs \ {s} : subs'[t] = subs[t]
<1>t. subs \in [Subs -> SubRecs]
    BY DEF TypeOK
<1>1. ASSUME subs[s].status = "trialing", NEW st \in {"active", "past_due"},
             subs' = [subs EXCEPT ![s] = [Moved(s, st) EXCEPT !.ended = st]]
      PROVE  MovesOn(s) /\ \A t \in Subs \ {s} : subs'[t] = subs[t]
    <2> DEFINE y == [Moved(s, st) EXCEPT !.ended = st]
    <2>0. st \in Statuses
        BY DEF Statuses
    <2>1. /\ Moved(s, st) \in SubRecs /\ Moved(s, st).status = st /\ Moved(s, st).secret = subs[s].secret
          /\ Moved(s, st).key = subs[s].key /\ Moved(s, st).first = subs[s].first
        BY <1>t, <2>0, MovedType DEF Moved, SubRecs
    <2>2. /\ y.status = st /\ y.secret = subs[s].secret /\ y.key = subs[s].key /\ y.first = subs[s].first
        BY <2>1 DEF SubRecs
    <2> HIDE DEF y
    <2>3. subs'[s] = y /\ \A t \in Subs \ {s} : subs'[t] = subs[t]
        BY <1>1, <1>t DEF y
    <2> QED BY <1>1, <2>2, <2>3 DEF MovesOn, St
<1>2. ASSUME subs' = [subs EXCEPT ![s] = [subs[s] EXCEPT !.ended = subs[s].status]]
      PROVE  MovesOn(s) /\ \A t \in Subs \ {s} : subs'[t] = subs[t]
    BY <1>2, <1>t DEF MovesOn, St, SubRecs
<1> QED BY <1>1, <1>2 DEF Ends

\* One at a time.
SubsMove ==
    \/ UNCHANGED subs
    \/ \E s \in Subs : /\ \A t \in Subs \ {s} : subs'[t] = subs[t]
                       /\ HandsOut(s) \/ MovesOn(s) \/ IsCreated(s)

LEMMA SubsStep == ASSUME Base, Next PROVE SubsMove
<1>t. TypeOK
    BY DEF Base
<1>j. \A j \in Jobs : ~At(j, "idle") /\ ~At(j, "create") /\ ~At(j, "set_plan") => job[j].sub \in Subs /\ Made(job[j].sub)
    BY InHand
<1>1. ASSUME NEW s \in Subs, Made(s), Secret(s),
             \E j \in Jobs : /\ job[j].sub = s
                             /\ (Check(j) /\ St(s) = "incomplete") \/ Pending(j) \/ Record(j)
      PROVE  SubsMove
    BY <1>1, <1>t, SecretOut DEF SubsMove
<1>2. ASSUME NEW s \in Subs, Pay(s) \/ Expire(s) \/ TrialEnds(s) \/ Later(s)
      PROVE  SubsMove
    <2>0. Made(s)
        BY <1>2 DEF Pay, Expire, TrialEnds, Later, Made
    <2>1. CASE Pay(s)
        <3>1. Moves(s, "active") /\ "active" \in Statuses
            BY <2>1 DEF Pay, Statuses
        <3> QED BY <2>0, <2>1, <3>1, <1>t, MovedOn DEF Pay, MovesOn, St, SubsMove
    <2>2. CASE Expire(s)
        <3>1. Moves(s, "canceled") /\ "canceled" \in Statuses
            BY <2>2 DEF Expire, Statuses
        <3> QED BY <2>0, <2>2, <3>1, <1>t, MovedOn DEF Expire, MovesOn, St, SubsMove
    <2>3. CASE TrialEnds(s)
        <3>1. PICK st \in {"active", "past_due"} : Moves(s, st)
            BY <2>3 DEF TrialEnds
        <3>2. st \in Statuses /\ St(s) = "trialing"
            BY <2>3 DEF Statuses, TrialEnds, St
        <3> QED BY <2>0, <3>1, <3>2, <1>t, MovedOn DEF MovesOn, SubsMove
    <2>4. CASE Later(s)
        <3>1. PICK st \in {"active", "past_due", "canceled"} :
                /\ Moves(s, st)
                /\ St(s) \in {"active", "past_due"} \/ (St(s) = "trialing" /\ st = "canceled")
            BY <2>4 DEF Later, St
        <3>2. st \in Statuses /\ AtRest
            BY <2>4 DEF Statuses, Later, AtRest
        <3> QED BY <2>0, <3>1, <3>2, <1>t, MovedOn DEF MovesOn, SubsMove
    <2> QED BY <1>2, <2>1, <2>2, <2>3, <2>4
<1>3. ASSUME NEW j \in Jobs, Step(j) PROVE SubsMove
    <2>1. CASE Check(j)
        <3>1. job[j].sub \in Subs /\ Made(job[j].sub)
            BY <2>1, <1>j DEF Check, At
        <3>2. UNCHANGED subs \/ (Secret(job[j].sub) /\ St(job[j].sub) = "incomplete")
            BY <2>1 DEF Check, St
        <3> QED BY <1>1, <2>1, <3>1, <3>2 DEF SubsMove
    <2>2. CASE Cancel(j)
        <3>1. job[j].sub \in Subs /\ Made(job[j].sub) /\ "canceled" \in Statuses
            BY <2>2, <1>j DEF Cancel, At, Statuses
        <3>2. CASE UNCHANGED subs
            BY <3>2 DEF SubsMove
        <3>3. CASE Moves(job[j].sub, "canceled") /\ crossed' = (crossed \/ subs[job[j].sub].paid)
            <4>1. /\ \A t \in Subs \ {job[j].sub} : subs'[t] = subs[t]
                  /\ MovesOn(job[j].sub)
                BY <2>2, <3>1, <3>3, <1>t, MovedOn DEF MovesOn
            <4> QED BY <3>1, <4>1 DEF SubsMove
        <3> QED BY <2>2, <3>2, <3>3 DEF Cancel
    <2>3. CASE Create(j)
        BY <2>3, CreatedIs DEF Create, At, SubsMove
    <2>4. CASE CreateRaises(j)
        BY <2>4, CreatedIs DEF CreateRaises, At, SubsMove
    <2>5. CASE Pending(j) \/ Record(j)
        <3>1. job[j].sub \in Subs /\ Made(job[j].sub)
            BY <2>5, <1>j DEF Pending, Record, At
        <3>2. UNCHANGED subs \/ Secret(job[j].sub)
            BY <2>5 DEF Pending, Record, Answer
        <3> QED BY <1>1, <2>5, <3>1, <3>2 DEF SubsMove
    <2>6. CASE EndTrial(j) \/ EndTrialRaises(j)
        <3>1. Ends(job[j].sub) /\ job[j].sub \in Subs /\ Made(job[j].sub)
            BY <2>6, <1>j, EndTrialEnds DEF EndTrial, EndTrialRaises, At
        <3> QED BY <3>1, <1>t, EndsOn DEF SubsMove
    <2>7. CASE \/ Finish(j) \/ Confirmed(j) \/ Write(j) \/ Lookup(j) \/ Retrieve(j) \/ Read(j)
               \/ Apply(j) \/ Note(j) \/ Stop(j) \/ SetPlan(j)
        BY <2>7 DEF Finish, Confirmed, Write, Lookup, Retrieve, Read, Apply, Note, Stop, SetPlan, SubsMove
    <2> QED BY <1>3, <2>1, <2>2, <2>3, <2>4, <2>5, <2>6, <2>7 DEF Step
<1>4. CASE Open \/ Close \/ Grants
    BY <1>4 DEF Open, Close, Grants, SetComp, SubsMove
<1>5. ASSUME NEW j \in Jobs,
             \/ \E p \in Plans : Transition(j, p) \/ Buy(j, p)
             \/ \E s \in Subs : Confirm(j, s)
             \/ \E i \in DOMAIN events : Deliver(j, i)
             \/ Convert(j) \/ Asks(j)
      PROVE  SubsMove
    BY <1>5 DEF Transition, Buy, Confirm, Deliver, Convert, Asks, AskPlan, SubsMove
<1>6. ASSUME NEW j \in Jobs,
             \/ \E p \in Plans : Transition(j, p) \/ Buy(j, p)
             \/ \E s \in Subs : Confirm(j, s)
             \/ \E i \in DOMAIN events : Deliver(j, i)
             \/ Convert(j) \/ Asks(j) \/ Step(j)
      PROVE  SubsMove
    BY <1>3, <1>5, <1>6
<1>7. SubsMove
    BY <1>2, <1>4, <1>6 DEF Next, Grants, Asks
<1> QED BY <1>7

\* While a request is in hand an active one stays active, or something was paid and cancelled.
LEMMA ActiveStays ==
    ASSUME Base, Next, crossed' = FALSE, ~Quiet, NEW s \in Subs, St(s) = "active"
    PROVE  St(s)' = "active"
<1>1. CASE UNCHANGED subs
    BY <1>1 DEF St
<1>2. ASSUME NEW t \in Subs, \A u \in Subs \ {t} : subs'[u] = subs[u], HandsOut(t) \/ MovesOn(t) \/ IsCreated(t)
      PROVE  St(s)' = "active"
    <2>1. Sound(subs[s])
        BY DEF Base, AllSound
    <2>2. CASE s # t
        BY <1>2, <2>2 DEF St
    <2>3. CASE s = t
        BY <1>2, <2>1, <2>3 DEF St, HandsOut, MovesOn, IsCreated, Made, AtRest, Sound
    <2> QED BY <2>2, <2>3
<1> QED BY <1>1, <1>2, SubsStep DEF SubsMove

\* One becomes payable only when a transition hands out its secret.
Binds(s) == /\ Keyed(s) /\ St(s) \in {"incomplete", "active", "past_due"}
            /\ \E j \in Jobs : /\ job[j].sub = s /\ Moving(job[j])
                               /\ (Check(j) /\ St(s) = "incomplete") \/ Pending(j)

LEMMA BoundStep ==
    ASSUME Base, Next, \A j \in Jobs : Buyer(job[j]), NEW s \in Subs, Bound(s)'
    PROVE  Bound(s) \/ Binds(s)
<1>1. CASE UNCHANGED subs
    BY <1>1 DEF Bound, Keyed, St
<1>2. ASSUME NEW t \in Subs, \A u \in Subs \ {t} : subs'[u] = subs[u], HandsOut(t) \/ MovesOn(t) \/ IsCreated(t)
      PROVE  Bound(s) \/ Binds(s)
    <2>1. Sound(subs[s])
        BY DEF Base, AllSound
    <2>2. CASE s # t
        BY <1>2, <2>2 DEF St, Bound, Keyed
    <2>3. CASE s = t /\ MovesOn(s)
        BY <2>1, <2>3 DEF St, MovesOn, Bound, Keyed, Sound, Made
    <2>4. CASE s = t /\ IsCreated(s)
        BY <2>4 DEF IsCreated, Bound
    <2>5. CASE s = t /\ HandsOut(s)
        <3>1. Keyed(s) /\ St(s) \in {"incomplete", "active", "past_due"}
            BY <2>5 DEF HandsOut, Bound, Keyed, St
        <3>2. PICK j \in Jobs : /\ job[j].sub = s
                                /\ (Check(j) /\ St(s) = "incomplete") \/ Pending(j) \/ Record(j)
            BY <2>5 DEF HandsOut
        <3>3. Known(job[j]) /\ Placed(job[j]) /\ Buyer(job[j]) /\ job[j].how \in {"none", "buy", "transition"}
            BY DEF Base, TypeOK, JobRecs
        <3>4. ~Record(j)
            BY <3>1, <3>2, <3>3 DEF Record, At, Known
        <3>5. CASE Pending(j)
            <4>1. Moving(job[j])
                BY <3>3, <3>5 DEF Pending, At, Placed, Moving
            <4> QED BY <3>1, <3>2, <3>5, <4>1 DEF Binds
        <3>6. CASE Check(j) /\ St(s) = "incomplete"
            <4>1. job[j].pc = "check" /\ ~subs[s].paid
                BY <2>1, <3>6 DEF Check, At, Sound, St
            <4>2. Moving(job[j])
                BY <3>1, <3>2, <3>3, <4>1 DEF Placed, Moving, Buying, Buyer
            <4> QED BY <3>1, <3>2, <3>6, <4>2 DEF Binds
        <3> QED BY <3>2, <3>4, <3>5, <3>6
    <2> QED BY <1>2, <2>2, <2>3, <2>4, <2>5
<1> QED BY <1>1, <1>2, SubsStep DEF SubsMove

\* One has a key when a transition under that key, which created none yet, creates it.
LEMMA KeyedStep ==
    ASSUME Base, Next, NEW s \in Subs, Keyed(s)'
    PROVE  /\ Made(s) => Keyed(s) /\ subs'[s].key = subs[s].key
           /\ ~Made(s) => \E j \in Jobs : /\ job[j].pc = "create" /\ Moving(job[j])
                                          /\ Replays(job[j]) = {} /\ subs'[s].key = job[j].key
<1>1. Grown /\ Sound(subs[s])
    BY NextGrows DEF Base, AllSound
<1>2. CASE Made(s)
    BY <1>1, <1>2 DEF Grown, Follows, Keyed
<1>3. CASE ~Made(s)
    <2>1. ~Keyed(s)
        BY <1>1, <1>3 DEF Made, Sound, Unmade, Keyed
    <2>2. IsCreated(s)
        BY <1>3, <2>1, SubsStep DEF SubsMove, HandsOut, MovesOn, Keyed
    <2>3. PICK j \in Jobs : job[j].pc = "create" /\ Replays(job[j]) = {} /\ subs'[s].key = job[j].key
        BY <2>2 DEF IsCreated
    <2>4. Placed(job[j]) /\ job[j].how \in {"none", "buy", "transition"}
        BY DEF Base, TypeOK, JobRecs
    <2> QED BY <1>3, <2>3, <2>4 DEF Placed, Moving, Keyed
<1> QED BY <1>2, <1>3

\* One without a key is created by a purchase without one.
LEMMA UnkeyedStep ==
    ASSUME Base, Next, NEW s \in Subs, Made(s)', ~Keyed(s)'
    PROVE  (Made(s) /\ ~Keyed(s)) \/ \E j \in Jobs : job[j].pc = "create" /\ Buying(job[j])
<1>1. Grown /\ Sound(subs[s])
    BY NextGrows DEF Base, AllSound
<1>2. CASE Made(s)
    BY <1>1, <1>2 DEF Grown, Follows, Keyed
<1>3. CASE ~Made(s)
    <2>2. IsCreated(s)
        BY <1>3, SubsStep DEF SubsMove, HandsOut, MovesOn, Made
    <2>3. PICK j \in Jobs : job[j].pc = "create" /\ subs'[s].key = job[j].key
        BY <2>2 DEF IsCreated
    <2>4. Placed(job[j]) /\ job[j].how \in {"none", "buy", "transition"}
        BY DEF Base, TypeOK, JobRecs
    <2>5. job[j].key = Nil
        BY <2>3 DEF Keyed
    <2> QED BY <2>3, <2>4, <2>5, NameAssumption DEF Placed, Buying
<1> QED BY <1>2, <1>3

-----------------------------------------------------------------------------
(* What a step may do to the row, and to a request                           *)

\* It is about the same subscription, and complimentary or manual as it was but for the admin.
AcctSame == /\ acct'.sub = acct.sub /\ acct'.pending = acct.pending
            /\ acct'.comp => acct.comp \/ changes' > 0
            /\ Eligible /\ ~Eligible' => crossed' \/ ~UnderWay

\* What was changed by another's hand is not forgotten.
LEMMA ChangesStep ==
    ASSUME TypeOK, Next
    PROVE  changes \in Nat /\ changes' \in Nat /\ changes' >= changes
<1>1. changes' = changes \/ changes' = changes + 1
    <2>1. ASSUME NEW j \in Jobs, Step(j) PROVE changes' = changes
        BY <2>1 DEF Step, SetPlan, Check, Cancel, Create, CreateRaises, Pending, Record, Finish, Confirmed,
                    Write, Lookup, Retrieve, Read, Apply, EndTrial, EndTrialRaises, Note, Stop
    <2>2. ASSUME NEW j \in Jobs,
                 \/ \E p \in Plans : Transition(j, p) \/ Buy(j, p)
                 \/ \E s \in Subs : Confirm(j, s)
                 \/ \E i \in DOMAIN events : Deliver(j, i)
                 \/ Convert(j) \/ Asks(j)
          PROVE  changes' = changes \/ changes' = changes + 1
        BY <2>2 DEF Transition, Buy, Confirm, Deliver, Convert, Asks, AskPlan, ByHand
    <2>3. CASE Open \/ Close \/ Grants
        BY <2>3 DEF Open, Close, Grants, SetComp, ByHand
    <2>4. ASSUME NEW s \in Subs, Pay(s) \/ Expire(s) \/ TrialEnds(s) \/ Later(s)
          PROVE  changes' = changes \/ changes' = changes + 1
        BY <2>4 DEF Pay, Expire, TrialEnds, Later
    <2> QED BY <2>1, <2>2, <2>3, <2>4 DEF Next, Grants, Asks
<1> QED BY <1>1 DEF TypeOK

LEMMA AcctStep ==
    ASSUME Base, Next, \A j \in Jobs : Hook(job[j])
    PROVE  AcctSame \/ \E j \in Jobs : Pending(j) \/ Record(j) \/ Finish(j) \/ Write(j)
<1>t. TypeOK
    BY DEF Base
<1>1. ASSUME NEW exempt \in BOOLEAN, SetComp(exempt) PROVE AcctSame
    <2>1. /\ acct'.sub = acct.sub /\ acct'.pending = acct.pending
          /\ acct'.status = acct.status /\ (acct'.comp <=> exempt)
        BY <1>1, <1>t DEF SetComp, TypeOK
    <2>2. changes' > 0
        BY <1>1, <1>t DEF SetComp, ByHand, TypeOK
    <2>3. crossed' <=> (crossed \/ (~exempt /\ UnderWay))
        BY <1>1 DEF SetComp
    <2>4. Eligible /\ exempt => Eligible'
        BY <2>1 DEF Eligible
    <2> QED BY <2>1, <2>2, <2>3, <2>4 DEF AcctSame
<1>2. CASE Open \/ Close
    <2>1. /\ acct'.sub = acct.sub /\ acct'.pending = acct.pending
          /\ acct'.status = acct.status /\ (acct'.comp <=> acct.comp)
        BY <1>2, <1>t DEF Open, Close, TypeOK
    <2> QED BY <2>1 DEF AcctSame, Eligible, Manual
<1>3. ASSUME NEW j \in Jobs, Step(j), ~(Pending(j) \/ Record(j) \/ Finish(j) \/ Write(j))
      PROVE  AcctSame
    <2>h. Hook(job[j]) /\ Known(job[j]) /\ Placed(job[j])
        BY DEF Base
    <2>1. CASE Apply(j)
        <3>1. job[j].ev.kind # "paid" => acct.sub # Nil
            BY <2>1, <2>h DEF Apply, At, Hook
        <3>2. /\ acct'.sub = acct.sub /\ acct'.pending = acct.pending /\ acct'.comp = acct.comp
              /\ job[j].ev.kind = "paid" => acct'.status = acct.status
            BY <2>1, <1>t DEF Apply, Applied, TypeOK
        <3> QED BY <3>1, <3>2 DEF AcctSame, Eligible, Manual
    <2>2. CASE Note(j)
        <3>1. /\ acct.sub # Nil /\ acct'.sub = acct.sub /\ acct'.pending = acct.pending
              /\ acct'.comp = acct.comp
            BY <2>2, <2>h, <1>t DEF Note, At, Hook, TypeOK
        <3> QED BY <3>1 DEF AcctSame, Eligible
    <2>4. CASE SetPlan(j)
        <3>1. /\ acct'.sub = acct.sub /\ acct'.pending = acct.pending
              /\ acct'.status = job[j].st /\ (acct'.comp <=> acct.comp)
            BY <2>4, <1>t DEF SetPlan, TypeOK
        <3>2. job[j].st \in {"active", "none"}
            BY <2>4, <2>h DEF SetPlan, At, Placed
        <3>3. crossed' <=> (crossed \/ (job[j].st = "none" /\ UnderWay))
            BY <2>4 DEF SetPlan
        <3>4. Eligible /\ job[j].st = "active" => Eligible'
            BY <3>1 DEF Eligible, Manual
        <3> QED BY <3>1, <3>2, <3>3, <3>4 DEF AcctSame
    <2>3. CASE \/ Check(j) \/ Cancel(j) \/ Create(j) \/ CreateRaises(j) \/ Confirmed(j) \/ Lookup(j)
               \/ Retrieve(j) \/ Read(j) \/ EndTrial(j) \/ EndTrialRaises(j) \/ Stop(j)
        BY <2>3 DEF Check, Cancel, Create, CreateRaises, Confirmed, Lookup, Retrieve, Read,
                    EndTrial, EndTrialRaises, Stop, AcctSame, Eligible, Manual
    <2> QED BY <1>3, <2>1, <2>2, <2>3, <2>4 DEF Step
<1>4. ASSUME NEW j \in Jobs,
             \/ \E p \in Plans : Transition(j, p) \/ Buy(j, p)
             \/ \E s \in Subs : Confirm(j, s)
             \/ \E i \in DOMAIN events : Deliver(j, i)
             \/ Convert(j) \/ Asks(j)
      PROVE  AcctSame
    BY <1>4 DEF Transition, Buy, Confirm, Deliver, Convert, Asks, AskPlan, AcctSame, Eligible, Manual
<1>5. ASSUME NEW s \in Subs, Pay(s) \/ Expire(s) \/ TrialEnds(s) \/ Later(s)
      PROVE  AcctSame
    BY <1>5 DEF Pay, Expire, TrialEnds, Later, AcctSame, Eligible, Manual
<1> QED BY <1>1, <1>2, <1>3, <1>4, <1>5 DEF Next, Asks

LEMMA RowWrites ==
    ASSUME TypeOK, NEW j \in Jobs
    PROVE  /\ Pending(j) => /\ acct'.sub = acct.sub /\ acct'.pending = job[j].sub
                            /\ acct'.comp = acct.comp /\ acct'.status = acct.status
           /\ Record(j) \/ Write(j) => /\ acct'.sub = job[j].sub /\ acct'.pending = acct.pending
                                       /\ acct'.comp = acct.comp
           /\ Finish(j) => /\ acct'.sub = job[j].sub /\ acct'.pending = Nil /\ ~acct'.comp
                           /\ acct'.status = "active" /\ UNCHANGED subs
BY DEF TypeOK, Pending, Record, Write, Finish

\* A request is what it was, or over, or one that just began.
Begun(k) == \E p \in Plans : Transition(k, p) \/ Buy(k, p)

LEMMA HowStep ==
    ASSUME Base, Next, NEW k \in Jobs, job'[k].how # "none"
    PROVE  \/ job'[k].how = job[k].how /\ job'[k].key = job[k].key
           \/ Begun(k)
<1>t. TypeOK /\ job \in [Jobs -> JobRecs]
    BY DEF Base, TypeOK
<1>d. \A j \in Jobs : Done(j) => \/ job'[k].how = job[k].how /\ job'[k].key = job[k].key
    BY <1>t, GotoJob DEF Idle
<1>g. \A j \in Jobs, pc \in PCs : Goto(j, pc) => job'[k].how = job[k].how /\ job'[k].key = job[k].key
    BY <1>t, GotoJob
<1>p. {"finish", "cancel", "create", "write", "retrieve", "read"} \subseteq PCs
    BY DEF PCs
<1>1. CASE UNCHANGED job
    BY <1>1
<1>2. ASSUME NEW j \in Jobs, Step(j)
      PROVE  job'[k].how = job[k].how /\ job'[k].key = job[k].key
    <2>1. CASE Check(j)
        BY <2>1, <1>d, <1>g, <1>p DEF Check
    <2>2. CASE Cancel(j)
        BY <2>2, <1>d, <1>g, <1>p DEF Cancel
    <2>3. CASE Create(j)
        <3>1. PICK s, st : Goes(j, s, st)
            BY <2>3 DEF Create
        <3>2. /\ \A l \in Jobs \ {j} : job'[l] = job[l]
              /\ job'[j].how = job[j].how /\ job'[j].key = job[j].key
            BY <3>1, <1>t, GoesJob
        <3> QED BY <3>2
    <2>4. CASE Pending(j) \/ Record(j) \/ Write(j) \/ Finish(j) \/ CreateRaises(j) \/ Apply(j) \/ EndTrialRaises(j) \/ Note(j) \/ Stop(j)
        BY <2>4, <1>d DEF Pending, Record, Write, Finish, CreateRaises, Apply, EndTrialRaises, Note, Stop, Answer, Unanswered
    <2>10. CASE SetPlan(j)
        BY <2>10, <1>d DEF SetPlan
    <2>5. CASE Confirmed(j)
        BY <2>5, <1>t DEF Confirmed, JobRecs
    <2>6. CASE Lookup(j)
        BY <2>6, <1>g, <1>p DEF Lookup
    <2>7. CASE Retrieve(j)
        BY <2>7, <1>d, <1>g, <1>p DEF Retrieve
    <2>8. CASE Read(j)
        <3>1. Done(j) \/ job' = [job EXCEPT ![j].pc = "apply", ![j].was = acct.status]
            BY <2>8 DEF Read
        <3> QED BY <3>1, <1>d, <1>t DEF JobRecs
    <2>9. CASE EndTrial(j)
        <3>1. Done(j) \/ \E st : job' = [job EXCEPT ![j].pc = "note", ![j].st = st]
            BY <2>9 DEF EndTrial
        <3> QED BY <3>1, <1>d, <1>t DEF JobRecs
    <2> QED BY <1>2, <2>1, <2>2, <2>3, <2>4, <2>5, <2>6, <2>7, <2>8, <2>9, <2>10 DEF Step
<1>3. ASSUME NEW j \in Jobs,
             \/ \E s \in Subs : Confirm(j, s)
             \/ \E i \in DOMAIN events : Deliver(j, i)
             \/ Convert(j) \/ Asks(j)
      PROVE  job'[k].how = job[k].how /\ job'[k].key = job[k].key
    <2>0. Placed(job[j]) /\ At(j, "idle")
        BY <1>3 DEF Base, Confirm, Deliver, Convert, Asks, AskPlan
    <2>2. CASE Convert(j) \/ \E s \in Subs : Confirm(j, s)
        <3>0. \E pc, x : job' = [job EXCEPT ![j] = [Idle EXCEPT !.pc = pc, !.sub = x]]
            <4>1. CASE Convert(j)
                BY <4>1 DEF Convert
            <4>2. ASSUME NEW s \in Subs, Confirm(j, s)
                  PROVE  \E pc, x : job' = [job EXCEPT ![j] = [Idle EXCEPT !.pc = pc, !.sub = x]]
                <5>1. job' = [job EXCEPT ![j] = [Idle EXCEPT !.sub = s, !.pc = IF acct.pending = s THEN "retrieve" ELSE "confirm"]]
                    BY <4>2 DEF Confirm
                <5>2. \A pc : [Idle EXCEPT !.sub = s, !.pc = pc] = [Idle EXCEPT !.pc = pc, !.sub = s]
                    BY DEF Idle
                <5> QED BY <5>1, <5>2
            <4> QED BY <2>2, <4>1, <4>2
        <3>1. (\A l \in Jobs \ {j} : job'[l] = job[l]) /\ job'[j].how = "none" /\ job'[j].key = Nil
            BY <3>0, <1>t DEF Idle
        <3> QED BY <3>1, <2>0 DEF Placed, At, Idle
    <2>3. CASE \E i \in DOMAIN events : Deliver(j, i)
        <3>1. (\A l \in Jobs \ {j} : job'[l] = job[l]) /\ job'[j].how = "none"
            BY <2>3, <1>t, DeliverJob
        <3> QED BY <3>1
    <2>4. CASE Asks(j)
        <3>1. (\A l \in Jobs \ {j} : job'[l] = job[l]) /\ job'[j].how = "none"
            BY <2>4, <1>t DEF Asks, AskPlan, Idle
        <3> QED BY <3>1
    <2> QED BY <1>3, <2>2, <2>3, <2>4
<1>4. ASSUME NEW j \in Jobs, Begun(j)
      PROVE  (job'[k].how = job[k].how /\ job'[k].key = job[k].key) \/ Begun(k)
    <2>1. \A l \in Jobs \ {j} : job'[l] = job[l]
        BY <1>4, <1>t DEF Begun, Transition, Buy, Begins
    <2> QED BY <1>4, <2>1
<1>5. ASSUME Open \/ Close \/ Grants \/ \E s \in Subs : Pay(s) \/ Expire(s) \/ TrialEnds(s) \/ Later(s)
      PROVE  UNCHANGED job
    BY <1>5 DEF Open, Close, Grants, SetComp, Pay, Expire, TrialEnds, Later
<1> QED BY <1>1, <1>2, <1>3, <1>4, <1>5 DEF Next, Grants, Asks, Begun

\* It begins alone, or under the key of those under way.
LEMMA BegunAlone ==
    ASSUME Base, NEW k \in Jobs, Begun(k), crossed' = FALSE
    PROVE  /\ job[k] = Idle /\ \A l \in Jobs \ {k} : job'[l] = job[l]
           /\ \A l \in Jobs \ {k} : job[l].how # "none" => job'[k].key # Nil /\ job[l].key = job'[k].key
           /\ UNCHANGED <<acct, subs, events, faults>>
<1>1. job \in [Jobs -> JobRecs] /\ Placed(job[k]) /\ At(k, "idle")
    BY DEF Base, TypeOK, Begun, Transition, Buy
<1>2. PICK r : Begins(k, r) /\ UNCHANGED <<acct, subs, events, faults>>
    BY DEF Begun, Transition, Buy
<1>3. job'[k] = r /\ \A l \in Jobs \ {k} : job'[l] = job[l]
    BY <1>1, <1>2 DEF Begins
<1>4. \A l \in Jobs \ {k} : job[l].how # "none" => r.key # Nil /\ job[l].key = r.key
    BY <1>2 DEF Begins
<1> QED BY <1>1, <1>2, <1>3, <1>4 DEF Placed, At

LEMMA PairedStep ==
    ASSUME Base, Next, Paired, crossed' = FALSE
    PROVE  Paired'
<1> SUFFICES ASSUME NEW j \in Jobs, NEW k \in Jobs, j # k, job'[j].how # "none", job'[k].how # "none"
             PROVE  job'[j].key = job'[k].key /\ job'[j].key # Nil
    BY DEF Paired
<1>1. CASE Begun(j)
    <2>1. job'[k] = job[k] /\ (job[k].how # "none" => job'[j].key # Nil /\ job[k].key = job'[j].key)
        BY <1>1, BegunAlone
    <2> QED BY <2>1
<1>2. CASE Begun(k)
    <2>1. job'[j] = job[j] /\ (job[j].how # "none" => job'[k].key # Nil /\ job[j].key = job'[k].key)
        BY <1>2, BegunAlone
    <2> QED BY <2>1
<1>3. CASE ~Begun(j) /\ ~Begun(k)
    BY <1>3, HowStep DEF Paired
<1> QED BY <1>1, <1>2, <1>3

\* The step is nobody's, or one job's.
Acts(j) == \/ Begun(j) \/ (\E s \in Subs : Confirm(j, s)) \/ (\E i \in DOMAIN events : Deliver(j, i))
           \/ Convert(j) \/ Asks(j) \/ Step(j)

LEMMA OneActs ==
    ASSUME Base, Next, NEW k \in Jobs
    PROVE  job'[k] = job[k] \/ Acts(k)
<1>t. TypeOK /\ job \in [Jobs -> JobRecs]
    BY DEF Base, TypeOK
<1>1. ASSUME NEW j \in Jobs, Acts(j), j # k PROVE job'[k] = job[k]
    <2>1. CASE Begun(j)
        BY <1>1, <1>t, <2>1 DEF Begun, Transition, Buy, Begins
    <2>2. CASE Convert(j) \/ \E s \in Subs : Confirm(j, s)
        BY <1>1, <1>t, <2>2 DEF Convert, Confirm
    <2>3. CASE \E i \in DOMAIN events : Deliver(j, i)
        BY <1>1, <1>t, <2>3, DeliverJob
    <2>4. CASE Step(j)
        <3>d. Done(j) \/ (\E pc : Goto(j, pc)) => job'[k] = job[k]
            BY <1>1, <1>t DEF Done, Goto
        <3>1. CASE Check(j) \/ Cancel(j)
            BY <3>d, <3>1 DEF Check, Cancel
        <3>2. CASE Create(j)
            BY <1>1, <1>t, <3>2 DEF Create, Goes
        <3>3. CASE Lookup(j) \/ Retrieve(j)
            BY <3>d, <3>3 DEF Lookup, Retrieve
        <3>4. CASE Confirmed(j) \/ Read(j)
            BY <1>1, <1>t, <3>d, <3>4 DEF Confirmed, Read
        <3>5. CASE EndTrial(j)
            <4>1. Done(j) \/ \E st : job' = [job EXCEPT ![j].pc = "note", ![j].st = st]
                BY <3>5 DEF EndTrial
            <4> QED BY <4>1, <3>d, <1>1, <1>t
        <3>6. CASE Pending(j) \/ Record(j) \/ Write(j) \/ Finish(j) \/ CreateRaises(j) \/ Apply(j) \/ EndTrialRaises(j) \/ Note(j) \/ Stop(j)
            BY <3>6, <3>d DEF Pending, Record, Write, Finish, CreateRaises, Apply, EndTrialRaises, Note, Stop, Answer, Unanswered
        <3>7. CASE SetPlan(j)
            BY <3>7, <3>d DEF SetPlan
        <3> QED BY <2>4, <3>1, <3>2, <3>3, <3>4, <3>5, <3>6, <3>7 DEF Step
    <2>5. CASE Asks(j)
        BY <1>1, <1>t, <2>5 DEF Asks, AskPlan
    <2> QED BY <1>1, <2>1, <2>2, <2>3, <2>4, <2>5 DEF Acts
<1>2. ASSUME Open \/ Close \/ Grants \/ \E s \in Subs : Pay(s) \/ Expire(s) \/ TrialEnds(s) \/ Later(s)
      PROVE  UNCHANGED job
    BY <1>2 DEF Open, Close, Grants, SetComp, Pay, Expire, TrialEnds, Later
<1>3. ASSUME UNCHANGED job PROVE job'[k] = job[k]
    BY <1>3
<1>4. (\E j \in Jobs : Acts(j)) \/ UNCHANGED job
    BY <1>2 DEF Next, Grants, Asks, Acts, Begun
<1> QED BY <1>1, <1>3, <1>4

-----------------------------------------------------------------------------
(* The row is about the one that can be paid                                 *)

\* Once a transition is past what it replaces, only what it created can be.
LEMMA PastRow ==
    ASSUME Base, OneByOne, NEW j \in Jobs, Moving(job[j]), Past(job[j]),
           job[j].sub \in Subs, subs[job[j].sub].key = job[j].key
    PROVE  /\ job[j].key # Nil
           /\ \A s \in Subs : Bound(s) => s = job[j].sub
           /\ acct.sub # Nil => acct.sub = job[j].sub
<1> DEFINE r == job[j]
<1>1. Mover(r) /\ Placed(r) /\ r.key \in Keys
    BY DEF OneByOne, Base, Placed, Moving
<1>2. r.key # Nil
    BY <1>1, NameAssumption
<1>3. Row \in Subs \cup {Nil}
    BY DEF Row, Base, TypeOK
<1>4. Row # Nil /\ subs[Row].key = r.key => Row = r.sub
    BY <1>2, <1>3 DEF Base, KeysDiffer, Keyed
<1>5. r.key[2] \in Subs => St(r.key[2]) = "canceled"
    BY <1>1 DEF Mover
<1>6. ASSUME NEW s \in Subs, Bound(s) PROVE s = r.sub
    <2>1. s = Row /\ s # Nil
        BY <1>6, NameAssumption DEF OneByOne, OnRow
    <2>2. CASE acct.sub = Nil /\ acct.pending = (IF r.key[2] \in Subs THEN r.key[2] ELSE Nil)
        BY <1>5, <1>6, <2>1, <2>2 DEF Row, Bound
    <2>3. CASE acct.sub # Nil /\ acct.sub = r.key[2] /\ St(acct.sub) = "active"
        BY <1>5, <1>6, <2>1, <2>3 DEF Row
    <2> QED BY <1>1, <1>4, <2>1, <2>2, <2>3 DEF Mover
<1>7. acct.sub # Nil => acct.sub = r.sub
    <2>1. acct.sub \in Subs \cup {Nil}
        BY DEF Base, TypeOK
    <2> QED BY <1>1, <1>4, <1>5, <2>1 DEF Mover, Row
<1> QED BY <1>2, <1>6, <1>7

\* What a transition, a webhook or a browser finishes is on the row, or was paid for at once.
LEMMA FinishKnows ==
    ASSUME Base, OneByOne, NEW j \in Jobs, job[j].pc = "finish"
    PROVE  /\ job[j].sub \in Subs
           /\ \/ Bound(job[j].sub) /\ St(job[j].sub) = "active"
              \/ Moving(job[j]) /\ Past(job[j]) /\ subs[job[j].sub].key = job[j].key
<1> DEFINE r == job[j]
           s == job[j].sub
<1>1. Known(r) /\ Placed(r) /\ Hook(r) /\ Mover(r) /\ r.how \in {"none", "buy", "transition"}
    BY DEF OneByOne, Base, TypeOK, JobRecs
<1>2. s \in Subs /\ Sound(subs[s])
    BY InHand DEF At, Base, AllSound
<1>3. CASE r.how = "none" \/ (Moving(r) /\ s = r.key[2])
    <2>1. Keyed(s) /\ subs[s].first = "incomplete" /\ St(s) = "active"
        BY <1>1, <1>2, <1>3 DEF Hook, Mover, Moving
    <2> QED BY <1>2, <2>1 DEF Sound, Bound, Keyed, St
<1>4. CASE Moving(r) /\ s # r.key[2]
    BY <1>1, <1>2, <1>4 DEF Known, Past, Moving
<1> QED BY <1>1, <1>3, <1>4 DEF Placed, Moving

KeepsRow == /\ Row' = Row
            /\ acct.sub = Nil /\ acct'.sub # Nil => Row \in Subs /\ St(Row)' = "active"
MovesRow == \E j \in Jobs : /\ Moving(job[j]) /\ Past(job[j]) /\ job[j].key # Nil
                            /\ Row' = job[j].sub /\ job[j].sub \in Subs /\ subs[job[j].sub].key = job[j].key
                            /\ \A s \in Subs : Bound(s) => s = job[j].sub
DropsRow == /\ acct'.sub \in Subs /\ ~Keyed(acct'.sub)
            /\ \A s \in Subs : ~Bound(s)
            /\ \A j \in Jobs : ~Moving(job[j])

LEMMA RowStep ==
    ASSUME Base, OneByOne, Next
    PROVE  KeepsRow \/ MovesRow \/ DropsRow
<1>t. TypeOK
    BY DEF Base
<1>1. CASE AcctSame
    BY <1>1 DEF AcctSame, KeepsRow, Row
<1>2. ASSUME NEW j \in Jobs, Pending(j) PROVE KeepsRow \/ MovesRow
    <2>1. acct'.sub = acct.sub /\ acct'.pending = job[j].sub
        BY <1>2, <1>t, RowWrites
    <2>2. job[j].sub \in Subs /\ Known(job[j]) /\ Placed(job[j]) /\ job[j].pc = "pending"
          /\ job[j].how \in {"none", "buy", "transition"}
        BY <1>2, <1>t, InHand DEF Pending, At, Base, TypeOK, JobRecs
    <2>3. Moving(job[j]) /\ Past(job[j]) /\ subs[job[j].sub].key = job[j].key
        BY <2>2 DEF Known, Placed, Moving, Past
    <2>4. CASE acct.sub # Nil
        BY <2>1, <2>4 DEF KeepsRow, Row
    <2>5. CASE acct.sub = Nil
        <3>1. Row' = job[j].sub
            BY <2>1, <2>5 DEF Row
        <3> QED BY <2>2, <2>3, <3>1, PastRow DEF MovesRow
    <2> QED BY <2>4, <2>5
<1>3. ASSUME NEW j \in Jobs, Finish(j) PROVE KeepsRow \/ MovesRow
    <2>1. acct'.sub = job[j].sub /\ UNCHANGED subs /\ job[j].pc = "finish"
        BY <1>3, <1>t, RowWrites DEF Finish, At
    <2>2. job[j].sub \in Subs
        BY <2>1, FinishKnows
    <2>3. Row' = job[j].sub
        BY <2>1, <2>2, NameAssumption DEF Row
    <2>4. CASE Bound(job[j].sub) /\ St(job[j].sub) = "active"
        BY <2>1, <2>2, <2>3, <2>4 DEF OneByOne, OnRow, KeepsRow, St
    <2>5. CASE Moving(job[j]) /\ Past(job[j]) /\ subs[job[j].sub].key = job[j].key
        BY <2>2, <2>3, <2>5, PastRow DEF MovesRow
    <2> QED BY <2>1, <2>4, <2>5, FinishKnows
<1>4. ASSUME NEW j \in Jobs, Write(j) PROVE KeepsRow \/ DropsRow
    <2>1. acct'.sub = job[j].sub /\ job[j].pc = "write"
        BY <1>4, <1>t, RowWrites DEF Write, At
    <2>2. job[j].sub \in Subs /\ Made(job[j].sub) /\ Hook(job[j])
        BY <2>1, InHand DEF At, OneByOne
    <2>3. acct.sub # Nil /\ St(job[j].sub) = "active" /\ subs[job[j].sub].secret
        BY <2>1, <2>2 DEF Hook
    <2>4. CASE Keyed(job[j].sub)
        <3>1. acct.sub = job[j].sub
            BY <2>2, <2>3, <2>4 DEF OneByOne, OnRow, Bound, Row
        <3> QED BY <2>1, <2>3, <3>1 DEF KeepsRow, Row
    <2>5. CASE ~Keyed(job[j].sub)
        BY <2>1, <2>2, <2>3, <2>5 DEF OneByOne, Apart, DropsRow
    <2> QED BY <2>4, <2>5
<1>5. ASSUME NEW j \in Jobs, Record(j) PROVE DropsRow
    <2>1. acct'.sub = job[j].sub /\ job[j].pc = "record"
        BY <1>5, <1>t, RowWrites DEF Record, At
    <2>2. job[j].sub \in Subs /\ Known(job[j]) /\ Placed(job[j]) /\ Buyer(job[j])
          /\ job[j].how \in {"none", "buy", "transition"}
        BY <2>1, <1>t, InHand DEF At, OneByOne, Base, TypeOK, JobRecs
    <2>3. ~Keyed(job[j].sub) /\ Buying(job[j]) /\ job[j].key = Nil
        BY <2>1, <2>2 DEF Known, Placed, Buying
    <2>4. \A s \in Subs : ~Bound(s)
        BY <2>1, <2>2, <2>3 DEF Buyer
    <2>5. \A k \in Jobs : ~Moving(job[k])
        BY <2>3 DEF OneByOne, Paired, Moving, Buying
    <2> QED BY <2>1, <2>2, <2>3, <2>4, <2>5 DEF DropsRow
<1> QED BY <1>1, <1>2, <1>3, <1>4, <1>5, AcctStep DEF OneByOne

\* A row that is about no subscription stays so until it is about one.
LEMMA NilStep ==
    ASSUME Base, OneByOne, Next, acct'.sub = Nil
    PROVE  /\ acct.sub = Nil
           /\ Eligible /\ ~Eligible' => crossed' \/ ~UnderWay
<1>1. CASE AcctSame
    BY <1>1 DEF AcctSame
<1>2. ASSUME NEW j \in Jobs, Pending(j) PROVE acct.sub = Nil /\ (Eligible' <=> Eligible)
    BY <1>2, RowWrites DEF Base, Eligible, Manual
<1>3. ASSUME NEW j \in Jobs, Record(j) \/ Finish(j) \/ Write(j) PROVE FALSE
    <2>1. job[j].sub \in Subs
        BY <1>3, InHand DEF Record, Finish, Write, At
    <2> QED BY <1>3, <2>1, RowWrites, NameAssumption DEF Base
<1> QED BY <1>1, <1>2, <1>3, AcctStep DEF OneByOne

\* Complimentary with a subscription is the admin's doing.
LEMMA CompStep ==
    ASSUME Base, OneByOne, Next, acct.comp => changes > 0, acct'.comp
    PROVE  changes' > 0
<1>1. acct.comp \/ changes' > 0
    <2>1. ASSUME NEW j \in Jobs, Pending(j) \/ Record(j) \/ Finish(j) \/ Write(j) PROVE acct.comp
        BY <2>1, RowWrites DEF Base
    <2> QED BY <2>1, AcctStep DEF AcctSame, OneByOne
<1>2. changes \in Nat /\ changes' \in Nat /\ changes' >= changes
    BY ChangesStep DEF Base
<1> QED BY <1>1, <1>2

LEMMA CanceledStays ==
    ASSUME Base, Next, NEW s \in Subs, St(s) = "canceled"
    PROVE  St(s)' = "canceled"
BY NextGrows DEF Grown, Follows, Made, St

LEMMA OnRowStep ==
    ASSUME Base, OneByOne, Next
    PROVE  OnRow'
<1> SUFFICES ASSUME NEW s \in Subs, Bound(s)' PROVE s = Row'
    BY DEF OnRow
<1>1. Bound(s) \/ Binds(s)
    BY BoundStep DEF OneByOne
<1>2. CASE Bound(s)
    <2>1. s = Row
        BY <1>2 DEF OneByOne, OnRow
    <2> QED BY <1>2, <2>1, RowStep DEF KeepsRow, MovesRow, DropsRow
<1>3. CASE Binds(s)
    <2>1. PICK j \in Jobs : /\ job[j].sub = s /\ Moving(job[j])
                            /\ (Check(j) /\ St(s) = "incomplete") \/ Pending(j)
        BY <1>3 DEF Binds
    <2>2. Known(job[j]) /\ Placed(job[j]) /\ Mover(job[j]) /\ TypeOK /\ s # Nil
        BY NameAssumption DEF Base, OneByOne
    <2>3. CASE Pending(j)
        <3>1. subs[s].key = job[j].key /\ Past(job[j])
            BY <2>1, <2>2, <2>3 DEF Pending, At, Known, Past
        <3>2. acct'.sub = acct.sub /\ acct'.pending = s
            BY <2>1, <2>2, <2>3, RowWrites
        <3>3. acct.sub # Nil => acct.sub = s
            BY <2>1, <3>1, PastRow
        <3> QED BY <3>2, <3>3 DEF Row
    <2>4. CASE Check(j) /\ St(s) = "incomplete"
        <3>1. job[j].key[2] = s /\ UNCHANGED acct
            BY <2>1, <2>2, <2>4 DEF Check, At, Placed, Moving
        <3>2. ~(Row # Nil /\ subs[Row].key = job[j].key)
            <4> SUFFICES ASSUME Row # Nil, subs[Row].key = job[j].key PROVE FALSE
                OBVIOUS
            <4>1. Row \in Subs
                BY <2>2 DEF Row, TypeOK
            <4>2. Keyed(Row)
                BY <2>1, <2>2, NameAssumption DEF Keyed, Placed, Moving
            <4> QED BY <2>4, <3>1, <4>1, <4>2 DEF OneByOne, Replaced
        <3>3. Row = s
            BY <2>1, <2>2, <2>4, <3>1, <3>2 DEF Mover, Row
        <3> QED BY <3>1, <3>3 DEF Row
    <2> QED BY <2>1, <2>3, <2>4
<1> QED BY <1>1, <1>2, <1>3

LEMMA ReplacedStep ==
    ASSUME Base, OneByOne, Next
    PROVE  Replaced'
<1> SUFFICES ASSUME NEW s \in Subs, Keyed(s)', subs'[s].key[2] \in Subs PROVE St(subs[s].key[2])'  = "canceled"
    BY DEF Replaced
<1>1. CASE Made(s)
    <2>1. Keyed(s) /\ subs'[s].key = subs[s].key
        BY <1>1, KeyedStep
    <2>2. St(subs[s].key[2]) = "canceled"
        BY <2>1 DEF OneByOne, Replaced
    <2>3. St(subs[s].key[2])' = "canceled"
        <3> DEFINE t == subs'[s].key[2]
        <3>1. t \in Subs /\ St(t) = "canceled"
            BY <2>1, <2>2
        <3> HIDE DEF t
        <3>2. subs'[t].status = "canceled"
            BY <3>1, CanceledStays DEF St
        <3> QED BY <3>2 DEF t, St
    <2> QED BY <2>3
<1>2. CASE ~Made(s)
    <2>1. PICK j \in Jobs : job[j].pc = "create" /\ Moving(job[j]) /\ subs'[s].key = job[j].key
        BY <1>2, KeyedStep
    <2> DEFINE t == subs'[s].key[2]
    <2>2. t \in Subs /\ St(t) = "canceled"
        BY <2>1 DEF OneByOne, Mover, Past
    <2> HIDE DEF t
    <2>3. subs'[t].status = "canceled"
        BY <2>2, CanceledStays DEF St
    <2> QED BY <2>3 DEF t, St
<1> QED BY <1>1, <1>2

\* A transition is past what it replaces when that is cancelled, or was none.
LEMMA PastStep ==
    ASSUME Base, OneByOne, Next, crossed' = FALSE, NEW k \in Jobs, Moving(job[k])', Past(job[k])',
           job'[k].key[2] \in Subs
    PROVE  St(job[k].key[2])' = "canceled"
<1> DEFINE t == job'[k].key[2]
<1>t. TypeOK /\ job \in [Jobs -> JobRecs] /\ acct.window \in 0..MaxWindows
    BY DEF Base, TypeOK
<1>p. {"finish", "cancel", "create"} \subseteq PCs
    BY DEF PCs
<1>g. \A s \in Subs : St(s) = "canceled" => subs'[s].status = "canceled"
    BY CanceledStays DEF St
<1>i. Done(k) => ~Moving(job[k])'
    BY <1>t, GotoJob DEF Idle, Moving
<1>1. CASE Begun(k)
    <2>1. UNCHANGED acct /\ Placed(job[k])
        BY <1>1, BegunAlone DEF Base
    <2>2. /\ job'[k].pc = (IF acct.pending = Nil THEN "create" ELSE "check")
          /\ acct.pending = Nil => job'[k].key[2] = acct.window
        <3>1. ASSUME NEW p \in Plans, Buy(k, p) PROVE FALSE
            <4>1. job'[k].how = "buy"
                BY <3>1, <1>t DEF Buy, Begins, Idle
            <4> QED BY <4>1 DEF Moving
        <3>2. PICK p \in Plans : Transition(k, p)
            BY <1>1, <3>1 DEF Begun
        <3> QED BY <3>2, <1>t DEF Transition, Begins, Idle
    <2> QED BY <2>2, <1>t, WindowAssumption, NameAssumption DEF Past
<1>2. CASE ~Begun(k)
    <2>1. job'[k].key = job[k].key /\ job[k].how = "transition" /\ t = job[k].key[2]
        BY <1>2, HowStep DEF Moving
    <2>2. Placed(job[k]) /\ Mover(job[k]) /\ Known(job[k]) /\ t \in Subs
        BY DEF Base, OneByOne
    <2>3. CASE Past(job[k])
        BY <2>1, <2>2, <2>3, <1>g DEF Mover, Moving, St
    <2>4. CASE ~Past(job[k])
        <3>1. job'[k] # job[k]
            BY <2>4
        <3>2. Acts(k)
            BY <3>1, OneActs
        <3>3. job[k].pc \in {"check", "cancel", "finish"} /\ (job[k].pc \in {"check", "cancel"} => job[k].sub = t)
            BY <2>1, <2>2, <2>4 DEF Placed, Past
        <3>4. Check(k) \/ Cancel(k)
            <4>1. Check(k) \/ Cancel(k) \/ Finish(k) \/ Stop(k)
                BY <3>2, <3>3, <1>2 DEF Acts, Confirm, Deliver, Convert, Asks, AskPlan, SetPlan, Step, Create, CreateRaises, Pending, Record,
                        Confirmed, Write, Lookup, Retrieve, Read, Apply, EndTrial, EndTrialRaises, Note, At
            <4> QED BY <4>1, <1>i DEF Finish, Stop, Unanswered
        <3>5. CASE Check(k)
            <4>1. job[k].sub = t /\ UNCHANGED acct
                BY <3>3, <3>5 DEF Check, At
            <4>2. \/ Goto(k, "finish")
                  \/ Goto(k, "cancel")
                  \/ Goto(k, "create") /\ St(t) \in {"trialing", "past_due", "canceled"} /\ UNCHANGED subs
                BY <2>1, <3>5, <4>1, <1>i DEF Check, Over, St
            <4>3. \A pc \in {"finish", "cancel"} : Goto(k, pc) => job'[k].pc = pc /\ job'[k].sub = t
                BY <1>t, <1>p, <4>1, GotoJob
            <4>4. Goto(k, "create") /\ St(t) \in {"trialing", "past_due", "canceled"} /\ UNCHANGED subs
                BY <4>2, <4>3 DEF Past
            <4>5. Keyed(t) /\ subs[t].first = "incomplete" /\ Sound(subs[t])
                BY <2>1, <2>2 DEF Mover, Moving, Base, AllSound
            <4>6. St(t) # "trialing" /\ (St(t) = "past_due" => Bound(t))
                BY <4>5 DEF Sound, Keyed, Bound, St
            <4>7. St(t) # "past_due"
                <5> SUFFICES ASSUME St(t) = "past_due" PROVE FALSE
                    OBVIOUS
                <5>1. t = Row
                    BY <2>2, <4>6 DEF OneByOne, OnRow
                <5>2. CASE acct.sub = Nil
                    BY <5>1, <5>2, <2>2, NameAssumption DEF OneByOne, Awaited, Row
                <5>3. CASE acct.sub # Nil
                    <6>1. subs[t].key = job[k].key
                        BY <5>1, <5>3, <2>1, <2>2 DEF Mover, Moving, Row
                    <6>2. St(job[k].key[2]) = "canceled"
                        BY <6>1, <2>1, <2>2, <4>5 DEF OneByOne, Replaced
                    <6> QED BY <6>2, <2>1
                <5> QED BY <5>2, <5>3
            <4> QED BY <4>4, <4>6, <4>7 DEF St
        <3>6. CASE Cancel(k)
            <4>1. job[k].sub = t
                BY <3>3, <3>6 DEF Cancel, At
            <4>2. Moves(t, "canceled") /\ "canceled" \in Statuses
                BY <2>1, <3>6, <4>1, <1>i DEF Cancel, Statuses
            <4>3. subs'[t].status = "canceled"
                BY <4>2, <2>2, <1>t, MovedOn
            <4> QED BY <4>3 DEF St
        <3> QED BY <3>4, <3>5, <3>6
    <2> QED BY <2>3, <2>4
<1> QED BY <1>1, <1>2

\* Its key, its first answer and what it was paid stay with a subscription.
LEMMA SubStays ==
    ASSUME Base, Next, NEW s \in Subs, Made(s)
    PROVE  /\ subs'[s].key = subs[s].key /\ subs'[s].first = subs[s].first /\ subs'[s].status # "none"
           /\ subs[s].paid => subs'[s].paid
           /\ subs[s].secret => subs'[s].secret
BY NextGrows DEF Grown, Follows

LEMMA KeyedMade == ASSUME Base, NEW s \in Subs, Keyed(s) PROVE Made(s)
BY DEF Base, AllSound, Sound, Unmade, Made, Keyed

LEMMA MoverStep ==
    ASSUME Base, OneByOne, Next, crossed' = FALSE, NEW k \in Jobs
    PROVE  Mover(job[k])'
<1> SUFFICES ASSUME Moving(job[k])' PROVE Mover(job[k])'
    BY DEF Mover
<1> DEFINE r == job'[k]
<1>t. /\ TypeOK /\ job \in [Jobs -> JobRecs] /\ RowKnown /\ acct.window \in 0..MaxWindows
      /\ acct.sub \in Subs \cup {Nil} /\ acct.pending \in Subs \cup {Nil}
    BY DEF Base, TypeOK
<1>m. \A s \in Subs : Made(s) => subs'[s].key = subs[s].key /\ subs'[s].first = subs[s].first
    BY SubStays
<1>p. (Past(job[k]) /\ job[k].key[2] \in Subs => St(job[k].key[2]) = "canceled")'
    BY PastStep
<1>1. CASE Begun(k)
    <2>1. UNCHANGED <<acct, subs>>
        BY <1>1, BegunAlone
    <2>2. PICK p \in Plans : Transition(k, p)
        <3>1. ASSUME NEW p \in Plans, Buy(k, p) PROVE FALSE
            <4>1. job'[k].how = "buy"
                BY <3>1, <1>t DEF Buy, Begins, Idle
            <4> QED BY <4>1 DEF Moving
        <3> QED BY <1>1, <3>1 DEF Begun
    <2>3. Eligible /\ acct.sub = Nil
        BY <2>2 DEF Transition, Eligible
    <2>4. r.key[2] = (IF acct.pending = Nil THEN acct.window ELSE acct.pending)
        BY <2>2, <1>t DEF Transition, Begins, Idle
    <2>5. acct.pending = (IF r.key[2] \in Subs THEN r.key[2] ELSE Nil)
        BY <2>4, <1>t, WindowAssumption, NameAssumption
    <2>6. r.key[2] \in Subs => Keyed(r.key[2]) /\ subs[r.key[2]].first = "incomplete"
        BY <2>5, <1>t, NameAssumption DEF RowKnown
    <2>7. r.key[2] \in Subs => subs'[r.key[2]].key # Nil /\ subs'[r.key[2]].first = "incomplete"
        BY <2>1, <2>6 DEF Keyed
    <2>8. Eligible' /\ acct'.sub = Nil
        BY <2>1, <2>3 DEF Eligible, Manual
    <2> QED BY <2>1, <2>5, <2>7, <2>8, <1>p DEF Mover, Keyed
<1>2. CASE ~Begun(k)
    <2>1. Moving(job[k]) /\ r.key = job[k].key
        BY <1>2, HowStep DEF Moving
    <2>2. Mover(job[k]) /\ Placed(job[k]) /\ r.key # Nil
        BY <2>1, NameAssumption DEF OneByOne, Base, Placed, Moving
    <2>q. ~Quiet
        BY <2>1 DEF Base, Placed, Moving, Quiet, At, Idle
    <2>3. acct'.sub = Nil => Eligible'
        <3>1. UnderWay
            BY <2>1 DEF UnderWay, Moving
        <3> QED BY <2>1, <2>2, <3>1, NilStep DEF Mover
    <2>4. r.key[2] \in Subs => subs'[r.key[2]].key # Nil /\ subs'[r.key[2]].first = "incomplete"
        BY <2>1, <2>2, <1>m, KeyedMade DEF Mover, Keyed
    <2>5. /\ Row \in Subs \cup {Nil}
          /\ \A s \in Subs : subs[s].key = r.key => subs'[s].key = r.key
        BY <1>t, <1>m, <2>2, KeyedMade DEF Row, Keyed
    <2>6. \/ Row' # Nil /\ Row' \in Subs /\ subs'[Row'].key = r.key
          \/ acct'.sub = Nil /\ acct'.pending = (IF r.key[2] \in Subs THEN r.key[2] ELSE Nil)
          \/ acct'.sub # Nil /\ acct'.sub = r.key[2] /\ acct'.sub \in Subs /\ subs'[acct'.sub].status = "active"
        <3>1. CASE MovesRow
            <4>1. PICK j \in Jobs : /\ Moving(job[j]) /\ Row' = job[j].sub /\ job[j].sub \in Subs
                                    /\ subs[job[j].sub].key = job[j].key
                BY <3>1 DEF MovesRow
            <4>2. job[j].key = r.key
                BY <2>1, <4>1 DEF OneByOne, Paired, Moving
            <4> QED BY <2>5, <4>1, <4>2, NameAssumption
        <3>2. CASE KeepsRow
            <4>1. Row' = Row /\ (acct.sub = Nil /\ acct'.sub # Nil => Row \in Subs /\ subs'[Row].status = "active")
                BY <3>2 DEF KeepsRow, St
            <4>2. CASE Row # Nil /\ subs[Row].key = r.key
                BY <2>5, <4>1, <4>2
            <4>3. CASE acct.sub = Nil /\ acct.pending = (IF r.key[2] \in Subs THEN r.key[2] ELSE Nil)
                <5>1. Row = acct.pending
                    BY <4>3 DEF Row
                <5>2. CASE acct'.sub = Nil
                    <6>1. acct'.pending = acct.pending
                        BY <4>1, <5>1, <5>2 DEF Row
                    <6> QED BY <4>3, <5>2, <6>1
                <5>3. CASE acct'.sub # Nil
                    <6>1. acct'.sub = Row /\ Row \in Subs /\ subs'[Row].status = "active"
                        BY <4>1, <4>3, <5>3 DEF Row
                    <6>2. acct'.sub = r.key[2]
                        BY <4>3, <5>1, <6>1, NameAssumption
                    <6> QED BY <5>3, <6>1, <6>2
                <5> QED BY <5>2, <5>3
            <4>4. CASE acct.sub # Nil /\ acct.sub = r.key[2] /\ St(acct.sub) = "active"
                <5>1. acct'.sub # Nil
                    BY <4>4, NilStep
                <5>2. acct'.sub = acct.sub /\ acct.sub \in Subs
                    BY <4>1, <4>4, <5>1, <1>t DEF Row
                <5>3. St(acct.sub)' = "active" /\ subs'[acct.sub].status = "active"
                    <6> DEFINE s == acct.sub
                    <6>1. s \in Subs /\ St(s) = "active"
                        BY <4>4, <5>2
                    <6> HIDE DEF s
                    <6>2. subs'[s].status = "active"
                        BY <2>q, <6>1, ActiveStays DEF St
                    <6> QED BY <5>2, <6>2 DEF s, St
                <5> QED BY <4>4, <5>1, <5>2, <5>3
            <4> QED BY <2>1, <2>2, <4>2, <4>3, <4>4 DEF Mover
        <3>3. ~DropsRow
            BY <2>1 DEF DropsRow
        <3> QED BY <3>1, <3>2, <3>3, RowStep
    <2> QED BY <2>3, <2>4, <2>6, <1>p DEF Mover, Keyed, St
<1> QED BY <1>1, <1>2

LEMMA StandsStep ==
    ASSUME Base, OneByOne, Next, crossed' = FALSE
    PROVE  Stands'
<1>t. TypeOK /\ RowKnown /\ acct.sub \in Subs \cup {Nil} /\ acct.comp \in BOOLEAN
    BY DEF Base, TypeOK
<1>m. \A s \in Subs : Made(s) => subs'[s].key = subs[s].key /\ (subs[s].paid => subs'[s].paid)
    BY SubStays
<1>j. \A j \in Jobs : /\ Known(job[j]) /\ Placed(job[j]) /\ Mover(job[j]) /\ Buyer(job[j]) /\ Hook(job[j])
                      /\ job[j].how \in {"none", "buy", "transition"}
    BY DEF Base, OneByOne, TypeOK, JobRecs
<1>i. \A j \in Jobs : Pending(j) \/ Record(j) \/ Finish(j) \/ Write(j) => job[j].sub \in Subs /\ Made(job[j].sub)
    BY InHand DEF Pending, Record, Finish, Write, At
<1>1. acct'.comp => acct'.sub = Nil \/ changes' > 0
    <2> SUFFICES ASSUME acct'.comp, acct'.sub # Nil PROVE changes' > 0
        OBVIOUS
    <2>1. CASE acct.comp => changes > 0
        BY <2>1, CompStep
    <2>2. CASE acct.comp /\ ~(changes > 0)
        <3>1. acct.sub = Nil
            BY <2>2 DEF OneByOne, Stands
        <3>2. CASE AcctSame
            BY <3>1, <3>2 DEF AcctSame
        <3>3. ASSUME NEW j \in Jobs, Pending(j) \/ Finish(j) PROVE FALSE
            BY <3>1, <3>3, <1>t, RowWrites
        <3>4. ASSUME NEW j \in Jobs, Record(j) \/ Write(j) PROVE FALSE
            BY <2>2, <3>1, <3>4, <1>j DEF Record, Write, At, Placed, Hook, Buyer, Buying
        <3> QED BY <3>2, <3>3, <3>4, AcctStep DEF OneByOne
    <2> QED BY <2>1, <2>2
<1>2. acct'.sub = Nil /\ acct'.pending # Nil => Eligible'
    <2> SUFFICES ASSUME acct'.sub = Nil, acct'.pending # Nil PROVE Eligible'
        OBVIOUS
    <2>1. acct.sub = Nil /\ (Eligible /\ ~Eligible' => ~UnderWay)
        BY NilStep
    <2>2. CASE AcctSame
        <3>1. acct.pending # Nil
            BY <2>2 DEF AcctSame
        <3> QED BY <2>1, <3>1 DEF OneByOne, Stands, UnderWay
    <2>3. ASSUME NEW j \in Jobs, Pending(j) PROVE Eligible'
        <3>1. Moving(job[j])
            BY <2>3, <1>j DEF Pending, At, Placed, Moving
        <3> QED BY <2>1, <3>1, <1>j DEF Mover, Moving, UnderWay
    <2>4. \A j \in Jobs : ~(Record(j) \/ Finish(j) \/ Write(j))
        BY <1>i, <1>t, RowWrites, NameAssumption
    <2> QED BY <2>2, <2>3, <2>4, AcctStep DEF OneByOne
<1>3. acct'.sub = Nil => \A s \in Subs : ~Keyed(s)' => ~subs'[s].secret
    <2> SUFFICES ASSUME acct'.sub = Nil, NEW s \in Subs, ~Keyed(s)', subs'[s].secret PROVE FALSE
        OBVIOUS
    <2>1. acct.sub = Nil /\ (~Keyed(s) => ~subs[s].secret)
        BY NilStep DEF OneByOne, Stands
    <2>2. CASE subs'[s] = subs[s]
        BY <2>1, <2>2 DEF Keyed
    <2>3. CASE MovesOn(s)
        BY <2>1, <2>3 DEF MovesOn, Keyed
    <2>4. CASE IsCreated(s)
        BY <2>4 DEF IsCreated
    <2>5. CASE HandsOut(s)
        <3>1. ~Keyed(s)
            BY <2>5 DEF HandsOut, Keyed
        <3>2. PICK j \in Jobs : job[j].sub = s /\ (Check(j) \/ Pending(j) \/ Record(j))
            BY <2>5 DEF HandsOut
        <3>3. ~Record(j)
            BY <3>2, <1>t, RowWrites, NameAssumption
        <3>4. ~Pending(j)
            BY <3>1, <3>2, <1>j, NameAssumption DEF Pending, At, Known, Placed, Keyed
        <3>5. ~Check(j)
            BY <2>1, <3>1, <3>2, <1>j DEF Check, At, Placed, Mover, Moving, Buyer, Buying
        <3> QED BY <3>2, <3>3, <3>4, <3>5
    <2> QED BY <2>2, <2>3, <2>4, <2>5, SubsStep DEF SubsMove
<1>4. acct'.sub # Nil /\ Keyed(acct.sub)' => subs'[acct'.sub].paid
    <2>1. CASE acct'.sub = acct.sub
        <3>1. acct.sub # Nil => acct.sub \in Subs /\ Made(acct.sub)
            BY <1>t DEF RowKnown
        <3> QED BY <2>1, <3>1, <1>m DEF OneByOne, Stands, Keyed
    <2>2. ASSUME NEW j \in Jobs, Record(j) PROVE ~Keyed(acct.sub)'
        <3>1. acct'.sub = job[j].sub /\ ~Keyed(job[j].sub)
            BY <2>2, <1>t, <1>j, RowWrites DEF Record, At, Known
        <3> QED BY <2>2, <3>1, <1>i, <1>m DEF Keyed
    <2>3. ASSUME NEW j \in Jobs, Finish(j) \/ Write(j) PROVE subs'[acct'.sub].paid
        <3>1. acct'.sub = job[j].sub /\ UNCHANGED subs /\ job[j].sub \in Subs
            BY <2>3, <1>t, <1>i, RowWrites DEF Write
        <3>2. subs[job[j].sub].paid
            <4>1. CASE Finish(j)
                BY <4>1, <1>j DEF Finish, At, Known
            <4>2. CASE Write(j)
                BY <4>2, <3>1, <1>j DEF Write, At, Hook, St, Base, AllSound, Sound
            <4> QED BY <2>3, <4>1, <4>2
        <3> QED BY <3>1, <3>2
    <2>4. ASSUME NEW j \in Jobs, Pending(j) PROVE acct'.sub = acct.sub
        BY <2>4, <1>t, RowWrites
    <2> QED BY <2>1, <2>2, <2>3, <2>4, AcctStep DEF OneByOne, AcctSame
<1> QED BY <1>1, <1>2, <1>3, <1>4 DEF Stands

LEMMA ApartStep ==
    ASSUME Base, OneByOne, Next
    PROVE  Apart'
<1> SUFFICES ASSUME NEW s \in Subs, ~Keyed(s)', subs'[s].secret
             PROVE  (\A t \in Subs : ~Bound(t)') /\ \A j \in Jobs : ~Moving(job[j])'
    BY DEF Apart
<1>j. \A j \in Jobs : /\ Known(job[j]) /\ Placed(job[j]) /\ Mover(job[j]) /\ Buyer(job[j])
                      /\ job[j].how \in {"none", "buy", "transition"}
    BY DEF Base, OneByOne, TypeOK, JobRecs
<1>1. (\A t \in Subs : ~Bound(t)) /\ \A j \in Jobs : ~Moving(job[j])
    <2>1. CASE subs'[s] = subs[s]
        BY <2>1 DEF OneByOne, Apart, Keyed
    <2>2. CASE MovesOn(s)
        BY <2>2 DEF MovesOn, OneByOne, Apart, Keyed
    <2>3. CASE IsCreated(s)
        BY <2>3 DEF IsCreated
    <2>4. CASE HandsOut(s)
        <3>1. ~Keyed(s)
            BY <2>4 DEF HandsOut, Keyed
        <3>2. PICK j \in Jobs : job[j].sub = s /\ (Check(j) \/ Pending(j) \/ Record(j))
            BY <2>4 DEF HandsOut
        <3>3. ~Pending(j)
            BY <3>1, <3>2, <1>j, NameAssumption DEF Pending, At, Known, Placed, Keyed
        <3>4. Buying(job[j])
            BY <3>1, <3>2, <3>3, <1>j DEF Check, Record, At, Placed, Mover, Moving, Buying
        <3>5. \A t \in Subs : ~Bound(t)
            BY <3>1, <3>2, <3>4, <1>j DEF Buyer, Bound
        <3>6. \A k \in Jobs : ~Moving(job[k])
            <4>1. job[j].key = Nil
                BY <3>4, <1>j DEF Placed, Buying
            <4> QED BY <3>4, <4>1 DEF OneByOne, Paired, Moving, Buying
        <3> QED BY <3>5, <3>6
    <2> QED BY <2>1, <2>2, <2>3, <2>4, SubsStep DEF SubsMove
<1>2. \A t \in Subs : ~Bound(t)'
    BY <1>1, BoundStep DEF OneByOne, Binds
<1>3. ASSUME NEW j \in Jobs, Moving(job[j])' PROVE FALSE
    <2>1. Begun(j)
        BY <1>1, <1>3, HowStep DEF Moving
    <2>2. ASSUME NEW p \in Plans, Buy(j, p) PROVE FALSE
        <3>1. job'[j].how = "buy"
            BY <2>2 DEF Base, TypeOK, Buy, Begins, Idle
        <3> QED BY <1>3, <3>1 DEF Moving
    <2>3. UNCHANGED subs /\ acct.sub = Nil
        BY <2>1, <2>2 DEF Begun, Transition, Eligible
    <2> QED BY <2>3 DEF OneByOne, Stands, Keyed
<1> QED BY <1>2, <1>3

LEMMA BuyerStep ==
    ASSUME Base, OneByOne, Next, crossed' = FALSE, NEW k \in Jobs
    PROVE  Buyer(job[k])'
<1> SUFFICES ASSUME Buying(job[k])' PROVE Buyer(job[k])'
    BY DEF Buyer
<1>t. /\ TypeOK /\ job \in [Jobs -> JobRecs] /\ RowKnown /\ AllSound
      /\ acct.sub \in Subs \cup {Nil}
    BY DEF Base, TypeOK
<1>m. \A s \in Subs : Made(s) => subs'[s].key = subs[s].key /\ (subs[s].paid => subs'[s].paid)
    BY SubStays
<1>1. CASE Begun(k)
    <2>1. UNCHANGED <<acct, subs>>
        BY <1>1, BegunAlone
    <2>2. PICK p \in Plans : Buy(k, p)
        <3>1. ASSUME NEW p \in Plans, Transition(k, p) PROVE FALSE
            <4>1. job'[k].how = "transition"
                BY <3>1, <1>t DEF Transition, Begins, Idle
            <4> QED BY <4>1 DEF Buying
        <3> QED BY <1>1, <3>1 DEF Begun
    <2>3. ~Eligible /\ ~acct.comp
        BY <2>2 DEF Buy, Eligible
    <2>4. /\ job'[k].pc = (IF acct.sub = Nil THEN "create" ELSE "check")
          /\ job'[k].sub = acct.sub
        BY <2>2, <1>t DEF Buy, Begins, Idle
    <2>5. ~acct'.comp
        BY <2>1, <2>3
    <2>6. acct.sub # Nil /\ Keyed(acct.sub) => subs[acct.sub].paid
        BY DEF OneByOne, Stands
    <2>7. ASSUME NEW s \in Subs, Bound(s) PROVE acct.sub # Nil /\ s = acct.sub
        <3>1. s = Row /\ s # Nil
            BY <2>7, NameAssumption DEF OneByOne, OnRow
        <3>2. acct.sub # Nil
            BY <2>3, <3>1 DEF OneByOne, Stands, Row
        <3> QED BY <3>1, <3>2 DEF Row
    <2>8. \A s \in Subs : Bound(s)' => Bound(s)
        BY <2>1 DEF Bound, Keyed, St
    <2>9. job'[k].pc = "check" => acct'.sub # Nil /\ (subs'[job'[k].sub].key # Nil => subs'[job'[k].sub].paid)
        BY <2>1, <2>4, <2>6 DEF Keyed
    <2> QED BY <2>4, <2>5, <2>7, <2>8, <2>9 DEF Buyer, Keyed
<1>2. CASE ~Begun(k)
    <2>1. Buying(job[k])
        BY <1>2, HowStep DEF Buying
    <2>2. Buyer(job[k]) /\ Placed(job[k]) /\ Known(job[k]) /\ job[k].key = Nil
        BY <2>1 DEF OneByOne, Base, Placed, Buying
    <2>i. ~Done(k)
        BY <1>t, GotoJob DEF Idle, Buying
    <2>s. job[k].pc = "check" => job[k].sub \in Subs /\ Made(job[k].sub)
        BY InHand DEF At
    <2>3. (acct'.comp => changes' > 0) /\ (acct.sub # Nil => acct'.sub # Nil)
        BY <2>1, <2>2, CompStep, NilStep DEF Buyer
    <2>4. \A j \in Jobs : ~Moving(job[j])
        BY <2>1, <2>2 DEF OneByOne, Paired, Buying, Moving
    <2>5. \A s \in Subs : Bound(s)' => Bound(s)
        BY <2>4, BoundStep DEF OneByOne, Binds
    <2>6. CASE job'[k] = job[k]
        <3>1. job[k].pc = "check" /\ subs'[job[k].sub].key # Nil => subs'[job[k].sub].paid
            BY <2>1, <2>2, <2>s, <1>m DEF Buyer, Keyed
        <3>2. \A s \in Subs : Bound(s)' => job[k].pc = "check" /\ s = job[k].sub
            BY <2>1, <2>2, <2>5 DEF Buyer
        <3>3. job[k].pc = "check" => acct'.sub # Nil
            BY <2>1, <2>2, <2>3 DEF Buyer
        <3> QED BY <2>3, <2>6, <3>1, <3>2, <3>3 DEF Buyer, Keyed
    <2>7. CASE job'[k] # job[k]
        <3>1. \/ Check(k) \/ Cancel(k) \/ Create(k)
            <4>1. Acts(k)
                BY <2>7, OneActs
            <4>2. \/ Check(k) \/ Cancel(k) \/ Create(k) \/ CreateRaises(k) \/ Record(k) \/ Stop(k)
                <5>1. job[k].pc \in {"check", "cancel", "create", "record"}
                    BY <2>1, <2>2 DEF Placed, Buying
                <5> QED BY <4>1, <5>1, <1>2 DEF Acts, Confirm, Deliver, Convert, Asks, AskPlan, SetPlan, Step, Pending, Finish,
                        Confirmed, Write, Lookup, Retrieve, Read, Apply, EndTrial, EndTrialRaises, Note, At
            <4> QED BY <4>2, <2>i DEF CreateRaises, Record, Stop, Answer, Unanswered
        <3>2. job'[k].pc # "check"
            <4>p. {"finish", "cancel", "create"} \subseteq PCs
                BY DEF PCs
            <4>1. CASE Create(k)
                BY <4>1, <2>1, <1>t, GoesJob DEF Create, Buying
            <4>2. CASE Check(k) \/ Cancel(k)
                <5>1. Goto(k, "finish") \/ Goto(k, "cancel") \/ Goto(k, "create")
                    BY <4>2, <2>i DEF Check, Cancel
                <5> QED BY <5>1, <4>p, <1>t, GotoJob
            <4> QED BY <3>1, <4>1, <4>2
        <3>3. ASSUME NEW s \in Subs, Bound(s)' PROVE FALSE
            <4>1. Bound(s) /\ job[k].pc = "check" /\ s = job[k].sub
                BY <2>1, <2>2, <2>5, <3>3 DEF Buyer
            <4>2. Check(k) /\ job[k].how = "buy"
                BY <2>1, <3>1, <4>1 DEF Cancel, Create, At, Buying
            <4>3. subs[s].paid /\ Sound(subs[s])
                BY <2>1, <2>2, <4>1, <1>t DEF Buyer, Bound, AllSound
            <4>4. subs[s].status \in {"active", "past_due"}
                BY <4>1, <4>3 DEF Bound, Sound, St
            <4> QED BY <4>1, <4>2, <4>4, <2>i DEF Check, Over
        <3> QED BY <2>3, <3>2, <3>3 DEF Buyer
    <2> QED BY <2>6, <2>7
<1> QED BY <1>1, <1>2

LEMMA HookStep ==
    ASSUME Base, OneByOne, Next, crossed' = FALSE, NEW k \in Jobs
    PROVE  Hook(job[k])'
<1>t. /\ TypeOK /\ job \in [Jobs -> JobRecs] /\ RowKnown /\ AllSound
      /\ acct.sub \in Subs \cup {Nil}
    BY DEF Base, TypeOK
<1>m. \A s \in Subs : Made(s) => /\ subs'[s].key = subs[s].key /\ subs'[s].first = subs[s].first
                                 /\ subs[s].secret => subs'[s].secret
    BY SubStays
<1>k. Known(job[k]) /\ Placed(job[k]) /\ Hook(job[k]) /\ Mover(job[k])
      /\ job[k].how \in {"none", "buy", "transition"}
    BY <1>t DEF Base, OneByOne, JobRecs
<1>n. acct.sub # Nil => acct'.sub # Nil
    BY NilStep
<1>a. ASSUME NEW s \in Subs, St(s) = "active", job[k].pc # "idle" PROVE subs'[s].status = "active"
    <2>1. ~Quiet
        BY <1>a DEF Quiet, At
    <2> QED BY <1>a, <2>1, ActiveStays DEF St
<1>s. job[k].pc \notin {"idle", "create", "set_plan"} => job[k].sub \in Subs /\ Made(job[k].sub)
    BY InHand DEF At
<1>p. {"finish", "cancel", "create", "write", "retrieve", "read"} \subseteq PCs
    BY DEF PCs
<1>i. Done(k) => Hook(job[k])'
    BY <1>t, GotoJob DEF Idle, Hook
<1>1. CASE job'[k] = job[k]
    <2>1. job[k].pc \in {"retrieve", "finish"} /\ job[k].how = "none" =>
              subs'[job[k].sub].key # Nil /\ subs'[job[k].sub].first = "incomplete"
        BY <1>k, <1>s, <1>m DEF Hook, Keyed
    <2>2. job[k].pc = "finish" /\ (job[k].how = "none" \/ job[k].sub = job[k].key[2]) => subs'[job[k].sub].status = "active"
        BY <1>k, <1>s, <1>a DEF Hook
    <2>3. job[k].pc \in {"confirm", "write"} => acct'.sub # Nil /\ subs'[job[k].sub].status = "active" /\ subs'[job[k].sub].secret
        BY <1>k, <1>s, <1>a, <1>m, <1>n DEF Hook
    <2>4. /\ job[k].pc \in {"end_trial", "note"} => acct'.sub # Nil
          /\ job[k].pc = "apply" /\ job[k].ev.kind # "paid" => acct'.sub # Nil
        BY <1>k, <1>n DEF Hook
    <2> QED BY <1>1, <2>1, <2>2, <2>3, <2>4 DEF Hook, Keyed, St
<1>2. CASE Begun(k)
    <2>1. ASSUME NEW p \in Plans, Transition(k, p) PROVE job'[k].pc \in {"check", "create"}
        BY <2>1, <1>t DEF Transition, Begins, Idle
    <2>2. ASSUME NEW p \in Plans, Buy(k, p) PROVE job'[k].pc \in {"check", "create"}
        BY <2>2, <1>t DEF Buy, Begins, Idle
    <2>3. job'[k].pc \in {"check", "create"}
        BY <1>2, <2>1, <2>2 DEF Begun
    <2> QED BY <2>3 DEF Hook
<1>3. ASSUME NEW s \in Subs, Confirm(k, s) PROVE Hook(job[k])'
    <2>1. /\ job'[k].how = "none" /\ job'[k].sub = s
          /\ job'[k].pc = (IF acct.pending = s THEN "retrieve" ELSE "confirm")
          /\ UNCHANGED <<acct, subs>> /\ subs[s].secret /\ St(s) = "active"
        BY <1>3, <1>t DEF Confirm, Idle, St
    <2>2. CASE acct.pending = s
        <3>1. Keyed(s) /\ subs[s].first = "incomplete"
            BY <2>2, <1>t, NameAssumption DEF RowKnown
        <3> QED BY <2>1, <2>2, <3>1 DEF Hook, Keyed
    <2>3. CASE acct.pending # s
        <3>1. acct.sub # Nil
            BY <2>1, <2>3 DEF OneByOne, Stands, OnRow, Bound, Row
        <3> QED BY <2>1, <2>3, <3>1 DEF Hook, St
    <2> QED BY <2>2, <2>3
<1>4. CASE \E i \in DOMAIN events : Deliver(k, i)
    <2>1. job'[k].pc \in {"lookup", "read"}
        BY <1>4, <1>t, DeliverJob
    <2> QED BY <2>1 DEF Hook
<1>5. CASE Convert(k)
    <2>1. job'[k].pc = "end_trial" /\ acct'.sub # Nil
        BY <1>5, <1>t DEF Convert, Idle
    <2> QED BY <2>1 DEF Hook
<1>6. CASE Check(k)
    <2>1. \/ Done(k) \/ Goto(k, "cancel") \/ Goto(k, "create")
          \/ Goto(k, "finish") /\ St(job[k].sub) = "active" /\ UNCHANGED subs /\ job[k].how = "transition"
        BY <1>6 DEF Check, St
    <2>2. CASE Goto(k, "cancel") \/ Goto(k, "create")
        <3>1. job'[k].pc \in {"cancel", "create"}
            BY <2>2, <1>t, <1>p, GotoJob
        <3> QED BY <3>1 DEF Hook
    <2>3. CASE Goto(k, "finish") /\ St(job[k].sub) = "active" /\ UNCHANGED subs /\ job[k].how = "transition"
        <3>1. job'[k].pc = "finish" /\ job'[k].sub = job[k].sub /\ job'[k].how = "transition"
            BY <2>3, <1>t, <1>p, GotoJob
        <3> QED BY <2>3, <3>1 DEF Hook, St
    <2> QED BY <1>i, <2>1, <2>2, <2>3
<1>7. CASE Cancel(k)
    <2>2. CASE Goto(k, "create")
        <3>1. job'[k].pc = "create"
            BY <2>2, <1>t, <1>p, GotoJob
        <3> QED BY <3>1 DEF Hook
    <2> QED BY <1>7, <1>i, <2>2 DEF Cancel
<1>8. CASE Create(k)
    <2>1. \E s \in Subs, st \in {"incomplete", "active"} :
             /\ Goes(k, s, st)
             /\ \/ ~Made(s)
                \/ Made(s) /\ subs[s].key = job[k].key /\ subs[s].first = st
        <3>1. CASE Replays(job[k]) = {}
            BY <1>8, <3>1 DEF Create, Creates, Made
        <3>2. CASE Replays(job[k]) # {}
            <4>1. PICK s \in Replays(job[k]) : Goes(k, s, subs[s].first)
                BY <1>8, <3>2 DEF Create
            <4>2. s \in Subs /\ Keyed(s) /\ subs[s].key = job[k].key
                BY DEF Replays, Keyed
            <4>3. Made(s) /\ Sound(subs[s]) /\ subs[s] \in SubRecs
                BY <4>2, <1>t, KeyedMade DEF AllSound, TypeOK
            <4>4. subs[s].first \in {"incomplete", "active"}
                BY <4>2, <4>3 DEF Sound, SubRecs, Keyed
            <4> QED BY <4>1, <4>2, <4>3, <4>4
        <3> QED BY <3>1, <3>2
    <2>2. PICK s \in Subs, st \in {"incomplete", "active"} :
             /\ Goes(k, s, st)
             /\ \/ ~Made(s)
                \/ Made(s) /\ subs[s].key = job[k].key /\ subs[s].first = st
        BY <2>1
    <2>3. /\ job'[k].sub = s /\ job'[k].how = job[k].how /\ job'[k].key = job[k].key
          /\ job[k].how = "buy" => job'[k].pc = "record"
          /\ job[k].how # "buy" => job'[k].pc = (IF st = "active" THEN "finish" ELSE "pending")
        BY <2>2, <1>t, GoesJob
    <2>4. job[k].how # "none"
        BY <1>8, <1>k DEF Create, At, Placed
    <2>5. Moving(job[k]) /\ st = "active" => s # job[k].key[2]
        <3> SUFFICES ASSUME Moving(job[k]), st = "active", s = job[k].key[2] PROVE FALSE
            OBVIOUS
        <3>1. Keyed(s) /\ subs[s].first = "incomplete"
            BY <1>k DEF Mover
        <3> QED BY <2>2, <3>1, KeyedMade
    <2> QED BY <2>3, <2>4, <2>5, <1>k DEF Hook, Moving
<1>9. CASE Confirmed(k)
    <2>1. /\ job'[k].pc = "write" /\ job'[k].sub = job[k].sub /\ UNCHANGED <<acct, subs>> /\ job[k].pc = "confirm"
        BY <1>9, <1>t DEF Confirmed, At, JobRecs
    <2> QED BY <2>1, <1>k DEF Hook, St
<1>10. CASE Lookup(k)
    <2>1. /\ job'[k].pc = (IF acct.pending = job[k].sub THEN "retrieve" ELSE "read") /\ job'[k].sub = job[k].sub
          /\ UNCHANGED <<acct, subs>> /\ job[k].pc = "lookup"
        BY <1>10, <1>t, <1>p, GotoJob DEF Lookup, At
    <2>2. acct.pending = job[k].sub => Keyed(job[k].sub) /\ subs[job[k].sub].first = "incomplete"
        BY <2>1, <1>s, <1>t, NameAssumption DEF RowKnown
    <2> QED BY <2>1, <2>2 DEF Hook, Keyed
<1>11. CASE Retrieve(k)
    <2>1. CASE Goto(k, "finish") /\ St(job[k].sub) = "active"
        <3>1. /\ job'[k].pc = "finish" /\ job'[k].sub = job[k].sub /\ job'[k].how = job[k].how
              /\ UNCHANGED <<acct, subs>> /\ job[k].pc = "retrieve"
            BY <1>11, <2>1, <1>t, <1>p, GotoJob DEF Retrieve, At
        <3>2. job[k].how = "none"
            BY <3>1, <1>k DEF Placed
        <3> QED BY <2>1, <3>1, <3>2, <1>k DEF Hook, Keyed, St
    <2> QED BY <1>11, <1>i, <2>1 DEF Retrieve, St
<1>12. CASE Read(k)
    <2>1. CASE Concerns(job[k].ev) /\ job' = [job EXCEPT ![k].pc = "apply", ![k].was = acct.status]
        <3>1. job'[k].pc = "apply" /\ job'[k].ev = job[k].ev /\ UNCHANGED acct /\ job[k].pc = "read"
            BY <1>12, <2>1, <1>t DEF Read, At, JobRecs
        <3>2. job[k].ev # Nil /\ job[k].ev \in Events
            BY <3>1, <1>k, EventsKnown DEF Placed
        <3>3. job[k].ev.kind # "paid" => acct.sub = job[k].ev.sub /\ job[k].ev.sub \in Subs
            BY <2>1, <3>2 DEF Concerns, Events
        <3>4. job[k].ev.kind # "paid" => acct'.sub # Nil
            BY <3>1, <3>3, NameAssumption
        <3> QED BY <3>1, <3>4 DEF Hook
    <2> QED BY <1>12, <1>i, <2>1 DEF Read
<1>13. CASE EndTrial(k)
    <2>1. CASE \E st : job' = [job EXCEPT ![k].pc = "note", ![k].st = st]
        <3>1. job'[k].pc = "note" /\ UNCHANGED acct /\ job[k].pc = "end_trial"
            BY <1>13, <2>1, <1>t DEF EndTrial, At, JobRecs
        <3>2. acct'.sub # Nil
            BY <3>1, <1>k DEF Hook
        <3> QED BY <3>1, <3>2 DEF Hook
    <2>2. Done(k) \/ \E st : job' = [job EXCEPT ![k].pc = "note", ![k].st = st]
        BY <1>13 DEF EndTrial
    <2> QED BY <1>i, <2>1, <2>2
<1>14. CASE \/ CreateRaises(k) \/ Pending(k) \/ Record(k) \/ Finish(k) \/ Write(k) \/ Apply(k)
            \/ EndTrialRaises(k) \/ Note(k) \/ SetPlan(k) \/ Stop(k)
    BY <1>14, <1>i DEF CreateRaises, Pending, Record, Finish, Write, Apply, EndTrialRaises, Note, SetPlan, Stop, Answer, Unanswered
<1>15. CASE Asks(k)
    <2>1. job'[k].pc = "set_plan"
        BY <1>15, <1>t DEF Asks, AskPlan, Idle
    <2> QED BY <2>1 DEF Hook
<1>16. CASE Acts(k)
    BY <1>16, <1>2, <1>3, <1>4, <1>5, <1>6, <1>7, <1>8, <1>9, <1>10, <1>11, <1>12, <1>13, <1>14, <1>15 DEF Acts, Step
<1> QED BY <1>1, <1>16, OneActs

\* An event is lost only by being delivered.
LEMMA EventsStay ==
    ASSUME Base, Next, NEW e, In(e, events)
    PROVE  In(e, events') \/ \E j \in Jobs : \E i \in DOMAIN events : Deliver(j, i) /\ events[i] = e
<1>t. TypeOK /\ events \in Seq(Events)
    BY DEF Base, TypeOK
<1>1. CASE UNCHANGED events
    BY <1>1
<1>2. ASSUME NEW s \in Subs, NEW st \in Statuses, events' = Told(s, st) PROVE In(e, events')
    BY <1>2, <1>t, ToldIn
<1>3. ASSUME NEW x \in Events, events' = Append(events, x) PROVE In(e, events')
    BY <1>3, <1>t, AppendIn
<1>4. ASSUME NEW j \in Jobs, Unanswered(j) PROVE In(e, events')
    <2>1. job[j].ev # Nil => job[j].ev \in Events
        BY EventsKnown
    <2> QED BY <1>1, <1>3, <1>4, <2>1 DEF Unanswered
<1>5. ASSUME NEW j \in Jobs, NEW s \in Subs, NEW st \in {"incomplete", "active"}, Creates(j, s, st)
      PROVE  In(e, events')
    <2>1. Tell("paid", s, st) \in Events
        BY TellType DEF Statuses
    <2> QED BY <1>1, <1>3, <1>5, <2>1 DEF Creates
<1>6. ASSUME NEW j \in Jobs, Step(j) PROVE In(e, events')
    <2>1. CASE Cancel(j)
        <3>1. job[j].sub \in Subs /\ "canceled" \in Statuses
            BY <2>1, InHand DEF Cancel, At, Statuses
        <3> QED BY <1>1, <1>2, <2>1, <3>1 DEF Cancel, Moves
    <2>2. CASE Create(j) \/ CreateRaises(j)
        <3>1. UNCHANGED events \/ \E s \in Subs, st \in {"incomplete", "active"} : Creates(j, s, st)
            BY <2>2 DEF Create, CreateRaises
        <3> QED BY <1>1, <1>5, <3>1
    <2>3. CASE Finish(j) \/ Stop(j)
        BY <1>1, <1>4, <2>3 DEF Finish, Stop
    <2>4. CASE EndTrial(j) \/ EndTrialRaises(j)
        <3>1. job[j].sub \in Subs /\ {"active", "past_due"} \subseteq Statuses
            BY <2>4, InHand DEF EndTrial, EndTrialRaises, At, Statuses
        <3>2. UNCHANGED events \/ \E st \in {"active", "past_due"} : events' = Told(job[j].sub, st)
            BY <2>4 DEF EndTrial, EndTrialRaises
        <3> QED BY <1>1, <1>2, <3>1, <3>2
    <2>5. CASE \/ Check(j) \/ Pending(j) \/ Record(j) \/ Confirmed(j) \/ Write(j) \/ Lookup(j)
               \/ Retrieve(j) \/ Read(j) \/ Apply(j) \/ Note(j) \/ SetPlan(j)
        BY <1>1, <2>5 DEF Check, Pending, Record, Confirmed, Write, Lookup, Retrieve, Read, Apply, Note, SetPlan
    <2> QED BY <1>6, <2>1, <2>2, <2>3, <2>4, <2>5 DEF Step
<1>7. ASSUME NEW s \in Subs, Pay(s) \/ Expire(s) \/ TrialEnds(s) \/ Later(s)
      PROVE  In(e, events')
    <2>1. \E st \in {"active", "past_due", "canceled"} : Moves(s, st)
        BY <1>7 DEF Pay, Expire, TrialEnds, Later
    <2>2. {"active", "past_due", "canceled"} \subseteq Statuses
        BY DEF Statuses
    <2> QED BY <1>2, <2>1, <2>2 DEF Moves
<1>8. ASSUME NEW j \in Jobs, NEW i \in DOMAIN events, Deliver(j, i)
      PROVE  In(e, events') \/ events[i] = e
    <2>1. events' = events \/ events' = RemoveAt(events, i)
        BY <1>8 DEF Deliver
    <2> QED BY <1>1, <1>t, <2>1, RemoveIn
<1>9. ASSUME NEW j \in Jobs,
             (\E p \in Plans : Transition(j, p) \/ Buy(j, p)) \/ (\E s \in Subs : Confirm(j, s)) \/ Convert(j) \/ Asks(j)
      PROVE  In(e, events')
    BY <1>1, <1>9 DEF Transition, Buy, Confirm, Convert, Asks, AskPlan
<1>10. CASE Open \/ Close \/ Grants
    BY <1>1, <1>10 DEF Open, Close, Grants, SetComp
<1> QED BY <1>6, <1>7, <1>8, <1>9, <1>10 DEF Next, Grants, Asks

\* The news of a payment that is to finish a transition is not dropped before it has.
LEMMA ComingStays ==
    ASSUME Base, Next, NEW s \in Subs, Coming(s), St(s) = "active",
           acct.pending = s, acct'.sub = Nil
    PROVE  Coming(s)'
<1>t. TypeOK /\ job \in [Jobs -> JobRecs] /\ events \in Seq(Events)
    BY DEF Base, TypeOK
<1>e. Paid(s).kind = "updated" /\ Paid(s).status = "active" /\ Paid(s).sub = s /\ Paid(s) \in Events
    BY TellType DEF Paid, Tell, Statuses
<1>n. Paid(s) # Nil
    BY <1>e, NameAssumption
<1>1. CASE In(Paid(s), events)
    <2>1. ASSUME NEW j \in Jobs, NEW i \in DOMAIN events, Deliver(j, i), events[i] = Paid(s)
          PROVE  Coming(s)'
        <3>1. job'[j].pc = "lookup" /\ job'[j].ev = Paid(s)
            BY <1>e, <1>t, <2>1, DeliverJob
        <3> QED BY <3>1 DEF Coming, Paid, Tell
    <2>2. In(Paid(s), events') => Coming(s)'
        BY DEF Coming, Paid, Tell
    <2> QED BY <1>1, <2>1, <2>2, EventsStay
<1>2. ASSUME NEW j \in Jobs, job[j].pc \in {"lookup", "retrieve", "finish"}, job[j].ev = Paid(s)
      PROVE  Coming(s)'
    <2>0. Placed(job[j]) /\ job[j].sub = s /\ job[j].how \in {"none", "buy", "transition"}
        BY <1>2, <1>e, <1>n, <1>t DEF Base, Placed, JobRecs
    <2>1. CASE job'[j] = job[j]
        BY <1>2, <2>1 DEF Coming, Paid, Tell
    <2>g. ASSUME NEW pc \in {"retrieve", "finish"}, Goto(j, pc) PROVE Coming(s)'
        <3>1. job'[j].pc = pc /\ job'[j].ev = Paid(s)
            BY <1>2, <1>t, <2>g, GotoJob DEF PCs
        <3> QED BY <3>1 DEF Coming, Paid, Tell
    <2>2. CASE Lookup(j)
        BY <2>0, <2>2, <2>g DEF Lookup
    <2>3. CASE Retrieve(j)
        BY <2>0, <2>3, <2>g DEF Retrieve, St
    <2>4. ~Finish(j)
        <3>1. s # Nil
            BY NameAssumption
        <3> QED BY <2>0, <3>1, <1>t, RowWrites
    <2>5. CASE Stop(j)
        <3>1. events' = Append(events, Paid(s))
            BY <1>2, <1>n, <2>5 DEF Stop, Unanswered
        <3>2. In(Paid(s), events')
            BY <3>1, <1>e, <1>t, AppendIn
        <3> QED BY <3>2 DEF Coming, Paid, Tell
    <2>6. CASE Acts(j)
        <3>1. Lookup(j) \/ Retrieve(j) \/ Finish(j) \/ Stop(j)
            BY <1>2, <2>6 DEF Acts, Begun, Transition, Buy, Confirm, Deliver, Convert, Asks, AskPlan, SetPlan, Step, Check, Cancel, Create,
                CreateRaises, Pending, Record, Confirmed, Write, Read, Apply, EndTrial, EndTrialRaises, Note, At
        <3> QED BY <2>2, <2>3, <2>4, <2>5, <3>1
    <2> QED BY <2>1, <2>6, OneActs
<1> QED BY <1>1, <1>2 DEF Coming

LEMMA AwaitedStep ==
    ASSUME Base, OneByOne, Next
    PROVE  Awaited'
<1> SUFFICES ASSUME acct'.sub = Nil, acct'.pending # Nil
             PROVE  /\ St(acct.pending)' # "past_due"
                    /\ St(acct.pending)' = "active" => Coming(acct.pending)'
    BY DEF Awaited
<1>t. TypeOK /\ RowKnown /\ acct.pending \in Subs \cup {Nil} /\ AllSound
    BY DEF Base, TypeOK
<1>n. acct.sub = Nil
    BY NilStep
<1>1. CASE AcctSame
    <2>1. PICK s \in Subs : s = acct.pending /\ s = acct'.pending
        BY <1>1, <1>t DEF AcctSame
    <2>2. Keyed(s) /\ subs[s].first = "incomplete" /\ Made(s) /\ Sound(subs[s])
        BY <2>1, <1>t, NameAssumption DEF RowKnown, AllSound
    <2>3. St(s) # "past_due" /\ (St(s) = "active" => Coming(s))
        BY <1>n, <2>1 DEF OneByOne, Awaited
    <2>4. St(s) = "active" => Coming(s)'
        BY <2>1, <2>3, ComingStays
    <2>5. CASE subs'[s].status = St(s)
        BY <2>1, <2>3, <2>4, <2>5 DEF St, Coming
    <2>6. CASE subs'[s].status # St(s)
        <3>1. MovesOn(s)
            BY <2>2, <2>6, SubsStep DEF SubsMove, HandsOut, IsCreated, St
        <3>2. St(s) # "trialing"
            BY <2>2 DEF Sound, Keyed, St
        <3>3. AtRest => ~Coming(s)
            BY DEF AtRest, Quiet, At, Coming, In
        <3>4. \/ subs'[s].status = "canceled"
              \/ subs'[s].status = "active" /\ In(Paid(s), events')
            BY <2>3, <2>6, <3>1, <3>2, <3>3 DEF MovesOn
        <3>5. In(Paid(s), events') => Coming(s)'
            BY DEF Coming, Paid, Tell
        <3> QED BY <2>1, <3>4, <3>5 DEF St, Coming
    <2> QED BY <2>5, <2>6
<1>2. ASSUME NEW j \in Jobs, Pending(j)
      PROVE  /\ St(acct.pending)' # "past_due"
             /\ St(acct.pending)' = "active" => Coming(acct.pending)'
    <2>1. PICK s \in Subs : s = job[j].sub /\ Made(s)
        BY <1>2, InHand DEF Pending, At
    <2>2. acct'.pending = s /\ acct'.sub = acct.sub
        BY <1>2, <1>t, <2>1, RowWrites
    <2>3. subs[s].key = job[j].key /\ subs[s].first = "incomplete" /\ Sound(subs[s])
        BY <1>2, <1>t, <2>1 DEF Pending, At, Base, Known, AllSound
    <2>4. Keyed(s)
        <3>1. Placed(job[j]) /\ job[j].pc = "pending" /\ job[j].how \in {"none", "buy", "transition"}
            BY <1>2 DEF Pending, At, Base, TypeOK, JobRecs
        <3> QED BY <2>3, <3>1, NameAssumption DEF Placed, Keyed
    <2>5. subs'[s].status = St(s)
        <3>1. UNCHANGED subs \/ Secret(s)
            BY <1>2, <2>1 DEF Pending, Answer
        <3>2. Secret(s) => subs'[s].status = St(s)
            BY <1>t DEF Secret, TypeOK, SubRecs, St
        <3> QED BY <3>1, <3>2 DEF St
    <2>6. CASE St(s) \notin {"active", "past_due"}
        BY <2>2, <2>5, <2>6 DEF St
    <2>7. CASE St(s) \in {"active", "past_due"}
        <3>1. Bound(s)
            BY <2>3, <2>4, <2>7 DEF Sound, Bound, Keyed, St
        <3>2. acct.pending = s
            BY <1>n, <2>2, <3>1 DEF OneByOne, OnRow, Row
        <3>3. St(s) # "past_due" /\ (St(s) = "active" => Coming(s))
            BY <1>n, <3>2, NameAssumption DEF OneByOne, Awaited
        <3>4. St(s) = "active" => Coming(s)'
            BY <3>2, <3>3, ComingStays
        <3> QED BY <2>2, <2>5, <3>3, <3>4 DEF St, Coming
    <2> QED BY <2>6, <2>7
<1>3. ASSUME NEW j \in Jobs, Record(j) \/ Finish(j) \/ Write(j) PROVE FALSE
    <2>1. job[j].sub \in Subs
        BY <1>3, InHand DEF Record, Finish, Write, At
    <2> QED BY <1>3, <1>t, <2>1, RowWrites, NameAssumption
<1> QED BY <1>1, <1>2, <1>3, AcctStep DEF OneByOne

LEMMA OneByOneStep ==
    ASSUME Base, OneByOne, Next, crossed' = FALSE
    PROVE  OneByOne'
<1>1. Paired' /\ Replaced' /\ OnRow' /\ Awaited' /\ Stands' /\ Apart'
    BY PairedStep, ReplacedStep, OnRowStep, AwaitedStep, StandsStep, ApartStep DEF OneByOne
<1>2. \A k \in Jobs : Mover(job[k])' /\ Buyer(job[k])' /\ Hook(job[k])'
    BY MoverStep, BuyerStep, HookStep
<1> QED BY <1>1, <1>2 DEF OneByOne

\* Purchases that crossed have.
LEMMA CrossedStays == ASSUME Next, crossed PROVE crossed'
<1>1. ASSUME NEW j \in Jobs, Step(j) PROVE crossed'
    BY <1>1 DEF Step, SetPlan, Check, Cancel, Create, CreateRaises, Pending, Record, Finish, Confirmed, Write, Lookup,
        Retrieve, Read, Apply, EndTrial, EndTrialRaises, Note, Stop
<1>2. ASSUME NEW j \in Jobs, NEW p \in Plans, Transition(j, p) \/ Buy(j, p) PROVE crossed'
    BY <1>2 DEF Transition, Buy, Begins
<1>3. ASSUME NEW j \in Jobs,
             (\E s \in Subs : Confirm(j, s)) \/ (\E i \in DOMAIN events : Deliver(j, i)) \/ Convert(j) \/ Asks(j)
      PROVE  crossed'
    BY <1>3 DEF Confirm, Deliver, Convert, Asks, AskPlan
<1>4. CASE Open \/ Close \/ Grants \/ \E s \in Subs : Pay(s) \/ Expire(s) \/ TrialEnds(s) \/ Later(s)
    BY <1>4 DEF Open, Close, Grants, SetComp, Pay, Expire, TrialEnds, Later
<1> QED BY <1>1, <1>2, <1>3, <1>4 DEF Next, Grants, Asks

LEMMA InitOneByOne == ASSUME Init PROVE OneByOne
<1> PICK kind \in Kinds, trial \in Subs :
        /\ acct = [comp |-> kind = "comp", sub |-> IF kind = "trial" THEN trial ELSE Nil,
                   status |-> CASE kind = "manual" -> "active" [] kind = "trial" -> "trialing" [] OTHER -> "none",
                   pending |-> Nil, window |-> 0, reason |-> FALSE, unpaid |-> FALSE]
        /\ subs = [s \in Subs |-> IF kind = "trial" /\ s = trial
                                  THEN [Unmade EXCEPT !.status = "trialing"] ELSE Unmade]
        /\ events = <<>>
        /\ job = [j \in Jobs |-> Idle]
    BY DEF Init
<1>1. acct.comp = (kind = "comp") /\ acct.sub = (IF kind = "trial" THEN trial ELSE Nil) /\ acct.pending = Nil
    OBVIOUS
<1>2. \A s \in Subs : subs[s].key = Nil /\ ~subs[s].secret /\ (Made(s) => kind = "trial")
    BY DEF Unmade, Made
<1>3. \A j \in Jobs : job[j].pc = "idle" /\ job[j].how = "none"
    BY DEF Idle
<1>4. Paired /\ Replaced /\ OnRow /\ Awaited
    BY <1>1, <1>2, <1>3 DEF Paired, Replaced, OnRow, Awaited, Bound, Keyed
<1>5. \A j \in Jobs : Mover(job[j]) /\ Buyer(job[j]) /\ Hook(job[j])
    BY <1>3 DEF Mover, Moving, Buyer, Buying, Hook
<1>6. acct.sub = Nil \/ (kind = "trial" /\ acct.sub = trial /\ acct.sub # Nil)
    BY <1>1, NameAssumption
<1>7. Stands
    BY <1>1, <1>2, <1>6 DEF Stands, Keyed
<1>8. Apart
    <2>1. (\E s \in Subs : Made(s)) => acct.sub # Nil
        BY <1>1, <1>2, NameAssumption
    <2> QED BY <1>2, <1>3, <2>1 DEF Apart, Bound, Keyed, Moving, Eligible
<1> QED BY <1>4, <1>5, <1>7, <1>8 DEF OneByOne

Uncrossed == ~crossed => OneByOne

LEMMA UncrossedStep == Base /\ Uncrossed /\ [Next]_vars => Uncrossed'
<1> SUFFICES ASSUME Base, Uncrossed, [Next]_vars, ~crossed' PROVE OneByOne'
    BY DEF Uncrossed
<1>1. CASE UNCHANGED vars
    <2>1. OneByOne /\ UNCHANGED <<acct, subs, events, job, changes>>
        BY <1>1 DEF Uncrossed, vars
    <2>2. UNCHANGED Paired /\ UNCHANGED Replaced /\ UNCHANGED OnRow /\ UNCHANGED Stands /\ UNCHANGED Apart
        BY <2>1 DEF Paired, Replaced, OnRow, Stands, Apart, Bound, Keyed, Made, St, Row, Eligible, Manual, Moving
    <2>3. UNCHANGED Awaited
        BY <2>1 DEF Awaited, Coming, Paid, Tell, In, St
    <2>4. \A j \in Jobs : Mover(job[j])' /\ Buyer(job[j])' /\ Hook(job[j])'
        <3> SUFFICES ASSUME NEW j \in Jobs PROVE Mover(job[j])' /\ Buyer(job[j])' /\ Hook(job[j])'
            OBVIOUS
        <3>1. Mover(job[j]) /\ Buyer(job[j]) /\ Hook(job[j]) /\ job'[j] = job[j]
            BY <2>1 DEF OneByOne
        <3>2. Mover(job[j])'
            BY <2>1, <3>1 DEF Mover, Moving, Eligible, Manual, Keyed, Past, St, Row
        <3>3. Buyer(job[j])'
            BY <2>1, <3>1 DEF Buyer, Buying, Eligible, Manual, Keyed, Bound, St
        <3>4. Hook(job[j])'
            BY <2>1, <3>1 DEF Hook, Keyed, St
        <3> QED BY <3>2, <3>3, <3>4
    <2> QED BY <2>1, <2>2, <2>3, <2>4 DEF OneByOne
<1>2. CASE Next
    <2>1. crossed \in BOOLEAN /\ crossed' \in BOOLEAN
        BY NextBase DEF Base, TypeOK
    <2>2. OneByOne /\ crossed' = FALSE
        BY <1>2, <2>1, CrossedStays DEF Uncrossed
    <2> QED BY <1>2, <2>2, OneByOneStep
<1> QED BY <1>1, <1>2

LEMMA UncrossedHolds == Spec => []Uncrossed
<1>1. Init => Uncrossed
    BY InitOneByOne DEF Uncrossed
<1> QED BY <1>1, UncrossedStep, BaseHolds, PTL DEF Spec

\* A transition that was paid is not stranded, as long as purchases do not cross: a browser pays
\* only for the one the row waits for, the news of it is delivered until the row is on it, and a
\* request that overtakes it neither cancels nor replaces it (_finish_paid_transition,
\* stripe_webhook and the retrieve of POST /paid-transition).
THEOREM PaidGetsThere == Spec => []PaidIsFinished
<1>1. Base /\ Uncrossed => PaidIsFinished
    <2> SUFFICES ASSUME Base, OneByOne, AtRest, acct.pending # Nil, subs[acct.pending].status = "active"
                 PROVE  acct.sub = acct.pending /\ (acct.comp => changes > 0)
        BY DEF PaidIsFinished, Uncrossed
    <2>1. PICK s \in Subs : s = acct.pending
        BY DEF Base, TypeOK
    <2>2. Keyed(s) /\ subs[s].first = "incomplete" /\ Sound(subs[s]) /\ St(s) = "active"
        BY <2>1 DEF Base, RowKnown, AllSound, St
    <2>3. s = Row
        BY <2>2 DEF Sound, Bound, Keyed, OneByOne, OnRow, St
    <2>4. acct.sub # Nil
        <3>1. ~Coming(s)
            BY DEF AtRest, Quiet, At, Coming, In
        <3> QED BY <2>1, <2>2, <3>1 DEF OneByOne, Awaited
    <2> QED BY <2>1, <2>3, <2>4 DEF Row, OneByOne, Stands
<1> QED BY <1>1, BaseHolds, UncrossedHolds, PTL

-----------------------------------------------------------------------------
(* Nobody pays twice                                                         *)

\* It is billed, or somebody holds what pays for it.
Live(s) == St(s) \in {"trialing", "active", "past_due"} \/ (St(s) = "incomplete" /\ subs[s].secret)

\* A live one is on the row, or about to be.
Held == \A s \in Subs : Live(s) =>
    \/ s = Row
    \/ acct.sub = Nil /\ \E j \in Jobs : job[j].pc = "finish" /\ Moving(job[j]) /\ job[j].sub = s
    \/ \E j \in Jobs : job[j].pc = "record" /\ job[j].sub = s /\ ~subs[s].secret

\* A purchase without a key has nothing live but what it looks at, or created.
Alone(r) == Buying(r) =>
    /\ r.pc # "cancel"
    /\ r.pc = "check" => acct.sub = r.sub
    /\ r.pc = "create" => \A s \in Subs : ~Live(s)
    /\ r.pc = "record" => \A s \in Subs : Live(s) => s = r.sub

\* What credit paid for at once is active until the account is moved over to it.
AtOnce ==
    /\ acct.sub = Nil => \A s \in Subs : subs[s].first = "active" =>
          \E j \in Jobs : job[j].pc = "finish" /\ Moving(job[j]) /\ job[j].sub = s
    /\ \A j \in Jobs : job[j].pc = "finish" => St(job[j].sub) = "active"
    /\ \A j \in Jobs, s \in Subs :
          Moving(job[j]) /\ subs[s].key = job[j].key /\ subs[s].first = "active" => St(s) = "active"

AtMostOne == Held /\ AtOnce /\ \A j \in Jobs : Alone(job[j])

LEMMA LiveBound ==
    ASSUME Base, NEW s \in Subs, Live(s), Keyed(s), subs[s].first = "incomplete"
    PROVE  Bound(s)
<1>1. Sound(subs[s])
    BY DEF Base, AllSound
<1> QED BY <1>1 DEF Sound, Live, Bound, Keyed, St

\* A purchase without a key is the only one.
LEMMA OneBuyer ==
    ASSUME Base, OneByOne, NEW k \in Jobs, Buying(job[k]), NEW j \in Jobs, job[j].how # "none"
    PROVE  j = k
<1>1. job[k].key = Nil /\ job[k].how # "none"
    BY DEF Base, Placed, Buying
<1> QED BY <1>1 DEF OneByOne, Paired

\* While a purchase looks at the one on record, that is the live one, if one is.
LEMMA OnRecord ==
    ASSUME Base, OneByOne, AtMostOne, NEW k \in Jobs, Buying(job[k]), job[k].pc = "check",
           NEW s \in Subs, Live(s)
    PROVE  s = acct.sub /\ s = job[k].sub
<1>1. acct.sub # Nil /\ acct.sub = job[k].sub
    BY DEF OneByOne, Buyer, AtMostOne, Alone
<1>2. ASSUME NEW j \in Jobs, job[j].pc = "record" PROVE FALSE
    <2>1. job[j].how # "none"
        BY <1>2 DEF Base, Placed
    <2>2. j = k
        BY <2>1, OneBuyer
    <2> QED BY <1>2, <2>2
<1> QED BY <1>1, <1>2 DEF AtMostOne, Held, Row

LEMMA OneLives ==
    ASSUME Base, OneByOne, AtMostOne, NEW s \in Subs, NEW t \in Subs, Live(s), Live(t)
    PROVE  s = t
<1>1. ASSUME NEW j \in Jobs, job[j].pc = "record" PROVE s = t
    <2>1. Buying(job[j])
        BY <1>1 DEF Base, TypeOK, JobRecs, Placed, Buying
    <2> QED BY <1>1, <2>1 DEF AtMostOne, Alone
<1>2. ASSUME NEW j \in Jobs, NEW x \in Subs, NEW y \in Subs, Live(y), acct.sub = Nil,
             job[j].pc = "finish", Moving(job[j]), job[j].sub = x,
             \/ y = Row
             \/ \E k \in Jobs : job[k].pc = "finish" /\ Moving(job[k]) /\ job[k].sub = y
      PROVE  x = y
    <2>1. \A z \in Subs : Bound(z) => z = Row
        BY DEF OneByOne, OnRow
    <2>2. Bound(x) \/ (Past(job[j]) /\ subs[x].key = job[j].key)
        BY <1>2, FinishKnows
    <2>3. Past(job[j]) /\ subs[x].key = job[j].key => \A z \in Subs : Bound(z) => z = x
        BY <1>2, PastRow
    <2>4. CASE y = Row
        <3>1. y = acct.pending /\ y # Nil
            BY <1>2, <2>4, NameAssumption DEF Row
        <3>2. Keyed(y) /\ subs[y].first = "incomplete"
            BY <3>1 DEF Base, RowKnown
        <3>3. Bound(y)
            BY <1>2, <3>2, LiveBound
        <3> QED BY <2>1, <2>2, <2>3, <3>3
    <2>5. ASSUME NEW k \in Jobs, job[k].pc = "finish", Moving(job[k]), job[k].sub = y PROVE x = y
        <3>1. Bound(y) \/ (Past(job[k]) /\ subs[y].key = job[k].key)
            BY <2>5, FinishKnows
        <3>2. Past(job[k]) /\ subs[y].key = job[k].key => \A z \in Subs : Bound(z) => z = y
            BY <2>5, PastRow
        <3>3. job[k].key = job[j].key /\ job[j].key # Nil
            <4>1. Placed(job[j]) /\ job[j].key # Nil
                BY <1>2, NameAssumption DEF Base, Placed, Moving
            <4> QED BY <1>2, <2>5, <4>1 DEF OneByOne, Paired, Moving
        <3>4. CASE Bound(x) /\ Bound(y)
            BY <2>1, <3>4
        <3>5. CASE subs[x].key = job[j].key /\ subs[y].key = job[k].key
            BY <3>3, <3>5 DEF Base, KeysDiffer, Keyed
        <3> QED BY <2>2, <2>3, <3>1, <3>2, <3>4, <3>5
    <2> QED BY <1>2, <2>4, <2>5
<1>3. CASE \A j \in Jobs : job[j].pc # "record"
    <2>1. \A x \in {s, t} : \/ x = Row
                            \/ acct.sub = Nil /\ \E j \in Jobs : job[j].pc = "finish" /\ Moving(job[j]) /\ job[j].sub = x
        BY <1>3 DEF AtMostOne, Held
    <2> QED BY <1>2, <2>1
<1> QED BY <1>1, <1>3

\* Nothing raises, and no process stops.
LEMMA NoFault == ASSUME TypeOK, faults' = 0 PROVE ~Fault
BY DEF TypeOK, Fault

LEMMA FaultsStay == ASSUME TypeOK, Next, faults' = 0 PROVE faults = 0
<1>f. ~Fault
    BY NoFault
<1>1. ASSUME NEW j \in Jobs, Step(j) PROVE UNCHANGED faults
    BY <1>1, <1>f DEF Step, SetPlan, Check, Cancel, Create, CreateRaises, Pending, Record, Finish, Confirmed, Write, Lookup,
        Retrieve, Read, Apply, EndTrial, EndTrialRaises, Note, Stop, Answer
<1>2. ASSUME NEW j \in Jobs,
             \/ \E p \in Plans : Transition(j, p) \/ Buy(j, p)
             \/ \E s \in Subs : Confirm(j, s)
             \/ \E i \in DOMAIN events : Deliver(j, i)
             \/ Convert(j) \/ Asks(j)
      PROVE  UNCHANGED faults
    BY <1>2, <1>f DEF Transition, Buy, Confirm, Deliver, Convert, Asks, AskPlan
<1>3. CASE Open \/ Close \/ Grants \/ \E s \in Subs : Pay(s) \/ Expire(s) \/ TrialEnds(s) \/ Later(s)
    BY <1>3 DEF Open, Close, Grants, SetComp, Pay, Expire, TrialEnds, Later
<1> QED BY <1>1, <1>2, <1>3 DEF Next, Grants, Asks

\* One becomes live when its secret is handed out, or credit pays for it at its creation.
GivenOut(j, s) == job[j].sub = s /\ ((Check(j) /\ St(s) = "incomplete") \/ Pending(j) \/ Record(j))
PaidFor(j, s) == /\ job[j].pc = "create" /\ Replays(job[j]) = {} /\ Create(j) /\ Goes(j, s, "active")
                 /\ ~subs'[s].secret

LEMMA LiveStep ==
    ASSUME Base, Next, faults' = 0, NEW s \in Subs, Live(s)'
    PROVE  Live(s) \/ \E j \in Jobs : job[j].how # "none" /\ (GivenOut(j, s) \/ PaidFor(j, s))
<1>1. Sound(subs[s]) /\ ~Fault
    BY NoFault DEF Base, AllSound
<1>2. CASE subs'[s] = subs[s]
    BY <1>2 DEF Live, St
<1>3. CASE MovesOn(s)
    BY <1>1, <1>3 DEF MovesOn, Live, St, AtRest
<1>4. CASE HandsOut(s)
    <2>1. PICK j \in Jobs : GivenOut(j, s)
        BY <1>4 DEF HandsOut, GivenOut
    <2>2. job[j].pc \in {"check", "pending", "record"}
        BY <2>1 DEF GivenOut, Check, Pending, Record, At
    <2> QED BY <2>1, <2>2 DEF Base, Placed
<1>5. CASE IsCreated(s)
    <2>1. subs'[s].status = "active" /\ ~subs'[s].secret
        BY <1>5 DEF IsCreated, Live, St
    <2>2. PICK j \in Jobs : PaidFor(j, s)
        BY <1>1, <1>5, <2>1 DEF IsCreated, CreateRaises, PaidFor
    <2>3. job[j].how # "none"
        BY <2>2 DEF PaidFor, Base, Placed
    <2> QED BY <2>2, <2>3
<1> QED BY <1>2, <1>3, <1>4, <1>5, SubsStep DEF SubsMove

LEMMA HeldStep ==
    ASSUME Base, OneByOne, AtMostOne, Next, crossed' = FALSE, faults' = 0
    PROVE  Held'
<1> SUFFICES ASSUME NEW s \in Subs, Live(s)'
             PROVE  \/ s = Row'
                    \/ acct'.sub = Nil /\ \E k \in Jobs : job'[k].pc = "finish" /\ Moving(job[k])' /\ job'[k].sub = s
                    \/ \E k \in Jobs : job'[k].pc = "record" /\ job'[k].sub = s /\ ~subs'[s].secret
    BY DEF Held
<1>t. /\ TypeOK /\ acct.sub \in Subs \cup {Nil} /\ acct.pending \in Subs \cup {Nil} /\ ~Fault /\ s # Nil
      /\ AllSound /\ job \in [Jobs -> JobRecs]
    BY NoFault, NameAssumption DEF Base, TypeOK
<1>h. \A j \in Jobs : /\ Known(job[j]) /\ Placed(job[j]) /\ Mover(job[j]) /\ Hook(job[j]) /\ Alone(job[j])
                      /\ job[j].how \in {"none", "buy", "transition"}
    BY <1>t DEF Base, OneByOne, AtMostOne, JobRecs
<1>i. \A j \in Jobs : Pending(j) \/ Record(j) \/ Finish(j) \/ Write(j) => job[j].sub \in Subs /\ job[j].sub # Nil
    BY InHand, NameAssumption DEF Pending, Record, Finish, Write, At
<1>p. ASSUME NEW j \in Jobs, Pending(j)
      PROVE  /\ Moving(job[j]) /\ Past(job[j]) /\ subs[job[j].sub].key = job[j].key
             /\ \A t \in Subs : Bound(t) => t = job[j].sub
             /\ acct.sub # Nil => acct.sub = job[j].sub
             /\ Row' = job[j].sub
    <2>1. job[j].pc = "pending"
        BY <1>p DEF Pending, At
    <2>2. Moving(job[j]) /\ Past(job[j]) /\ subs[job[j].sub].key = job[j].key
        BY <1>h, <2>1 DEF Known, Placed, Moving, Past
    <2>3. /\ \A t \in Subs : Bound(t) => t = job[j].sub
          /\ acct.sub # Nil => acct.sub = job[j].sub
        BY <1>i, <1>p, <2>2, PastRow
    <2>4. Row' = job[j].sub
        BY <1>t, <1>p, <2>3, RowWrites DEF Row
    <2> QED BY <2>2, <2>3, <2>4
<1>1. CASE Live(s)
    <2>1. ASSUME NEW j \in Jobs, Record(j) \/ Finish(j) \/ Write(j) PROVE s = Row'
        <3>1. Row' = job[j].sub /\ job[j].sub \in Subs
            BY <1>i, <1>t, <2>1, RowWrites DEF Row
        <3>2. CASE Record(j)
            <4>1. Buying(job[j]) /\ job[j].pc = "record"
                BY <1>h, <3>2 DEF Record, At, Placed, Buying
            <4> QED BY <1>1, <1>h, <3>1, <4>1 DEF Alone
        <3>3. CASE Finish(j) \/ Write(j)
            <4>1. Live(job[j].sub)
                BY <1>h, <3>3 DEF Finish, Write, At, AtMostOne, AtOnce, Hook, Live
            <4> QED BY <1>1, <3>1, <4>1, OneLives
        <3> QED BY <2>1, <3>2, <3>3
    <2>2. ASSUME AcctSame \/ \E j \in Jobs : Pending(j), ~(\E j \in Jobs : Record(j) \/ Finish(j) \/ Write(j))
          PROVE  \/ s = Row'
                 \/ acct'.sub = Nil /\ \E k \in Jobs : job'[k].pc = "finish" /\ Moving(job[k])' /\ job'[k].sub = s
                 \/ \E k \in Jobs : job'[k].pc = "record" /\ job'[k].sub = s /\ ~subs'[s].secret
        <3>1. CASE s = Row
            <4>1. CASE AcctSame
                BY <3>1, <4>1 DEF AcctSame, Row
            <4>2. ASSUME NEW j \in Jobs, Pending(j) PROVE s = Row'
                <5>1. CASE acct.sub # Nil
                    BY <1>p, <3>1, <4>2, <5>1 DEF Row
                <5>2. CASE acct.sub = Nil
                    <6>1. s = acct.pending
                        BY <3>1, <5>2 DEF Row
                    <6>2. Keyed(s) /\ subs[s].first = "incomplete"
                        BY <1>t, <6>1 DEF Base, RowKnown
                    <6>3. Bound(s)
                        BY <1>1, <6>2, LiveBound
                    <6> QED BY <1>p, <4>2, <6>3
                <5> QED BY <5>1, <5>2
            <4> QED BY <2>2, <4>1, <4>2
        <3>2. ASSUME acct.sub = Nil, NEW k \in Jobs, job[k].pc = "finish", Moving(job[k]), job[k].sub = s
              PROVE  acct'.sub = Nil /\ job'[k] = job[k]
            <4>1. acct'.sub = Nil
                BY <1>t, <2>2, <3>2, RowWrites DEF AcctSame
            <4>2. ~Acts(k)
                BY <3>2, <2>2, <1>t DEF Acts, Begun, Transition, Buy, Confirm, Deliver, Convert, Asks, AskPlan, SetPlan, Step, Check, Cancel, Create,
                    CreateRaises, Pending, Record, Confirmed, Write, Lookup, Retrieve, Read, Apply, EndTrial, EndTrialRaises,
                    Note, Stop, At
            <4> QED BY <4>1, <4>2, OneActs
        <3>3. ASSUME NEW k \in Jobs, job[k].pc = "record", job[k].sub = s, ~subs[s].secret
              PROVE  job'[k] = job[k] /\ ~subs'[s].secret
            <4>1. ~Acts(k)
                BY <3>3, <2>2, <1>t DEF Acts, Begun, Transition, Buy, Confirm, Deliver, Convert, Asks, AskPlan, SetPlan, Step, Check, Cancel, Create,
                    CreateRaises, Pending, Finish, Confirmed, Write, Lookup, Retrieve, Read, Apply, EndTrial, EndTrialRaises,
                    Note, Stop, At
            <4>2. Buying(job[k])
                BY <1>h, <3>3 DEF Placed, Buying
            <4>3. ~HandsOut(s)
                <5> SUFFICES ASSUME NEW j \in Jobs, Check(j) \/ Pending(j) \/ Record(j) PROVE FALSE
                    BY DEF HandsOut
                <5>1. job[j].pc \in {"check", "pending", "record"}
                    BY DEF Check, Pending, Record, At
                <5>2. job[j].how # "none"
                    BY <1>h, <5>1 DEF Placed
                <5>3. j = k
                    BY <4>2, <5>2, OneBuyer
                <5> QED BY <3>3, <5>3, <2>2 DEF Check, Pending, At
            <4>4. ~subs'[s].secret
                BY <3>3, <4>3, SubsStep DEF SubsMove, MovesOn, IsCreated
            <4> QED BY <4>1, <4>4, OneActs
        <3>4. \/ s = Row
              \/ acct.sub = Nil /\ \E k \in Jobs : job[k].pc = "finish" /\ Moving(job[k]) /\ job[k].sub = s
              \/ \E k \in Jobs : job[k].pc = "record" /\ job[k].sub = s /\ ~subs[s].secret
            BY <1>1 DEF AtMostOne, Held
        <3> QED BY <3>1, <3>2, <3>3, <3>4 DEF Moving
    <2> QED BY <2>1, <2>2, AcctStep DEF OneByOne
<1>2. ASSUME NEW j \in Jobs, job[j].how # "none", GivenOut(j, s) PROVE s = Row'
    <2>1. CASE Pending(j)
        BY <1>2, <1>p, <2>1 DEF GivenOut
    <2>2. CASE Record(j)
        BY <1>2, <1>t, <2>2, RowWrites DEF GivenOut, Row
    <2>3. CASE Check(j) /\ St(s) = "incomplete"
        <3>1. job[j].pc = "check" /\ job[j].sub = s /\ UNCHANGED acct
            BY <1>2, <2>3 DEF GivenOut, Check, Pending, Record, At
        <3>2. CASE Buying(job[j])
            BY <1>h, <1>t, <3>1, <3>2 DEF Alone, Row
        <3>3. CASE Moving(job[j])
            <4>1. job[j].key[2] = s
                BY <1>h, <3>1, <3>3 DEF Placed, Moving
            <4>2. ~(Row # Nil /\ subs[Row].key = job[j].key)
                <5> SUFFICES ASSUME Row # Nil, subs[Row].key = job[j].key PROVE FALSE
                    OBVIOUS
                <5>1. Row \in Subs /\ Keyed(Row)
                    BY <1>h, <1>t, <3>3, NameAssumption DEF Row, Keyed, Placed, Moving
                <5>2. St(s) = "canceled"
                    BY <4>1, <5>1 DEF OneByOne, Replaced
                <5> QED BY <2>3, <5>2
            <4> QED BY <1>h, <1>t, <3>1, <3>3, <4>1, <4>2 DEF Mover, Row
        <3> QED BY <1>2, <1>h, <3>2, <3>3 DEF Buying, Moving
    <2> QED BY <1>2, <2>1, <2>2, <2>3 DEF GivenOut
<1>3. ASSUME NEW j \in Jobs, job[j].how # "none", PaidFor(j, s)
      PROVE  \/ acct'.sub = Nil /\ \E k \in Jobs : job'[k].pc = "finish" /\ Moving(job[k])' /\ job'[k].sub = s
             \/ \E k \in Jobs : job'[k].pc = "record" /\ job'[k].sub = s /\ ~subs'[s].secret
    <2>1. job[j].pc = "create" /\ Replays(job[j]) = {} /\ ~subs'[s].secret /\ UNCHANGED acct
        BY <1>3 DEF PaidFor, Create
    <2>2. /\ job'[j].sub = s /\ job'[j].how = job[j].how
          /\ job[j].how = "buy" => job'[j].pc = "record"
          /\ job[j].how # "buy" => job'[j].pc = "finish"
        BY <1>3, <1>t, GoesJob DEF PaidFor
    <2>3. CASE job[j].how = "buy"
        BY <2>1, <2>2, <2>3
    <2>4. CASE Moving(job[j])
        <3>1. job[j].key # Nil /\ Past(job[j]) /\ Row \in Subs \cup {Nil}
            BY <1>h, <1>t, <2>1, <2>4, NameAssumption DEF Placed, Moving, Past, Row
        <3>2. ~(Row # Nil /\ subs[Row].key = job[j].key)
            BY <2>1, <3>1 DEF Replays
        <3>3. acct.sub = Nil
            BY <1>h, <1>t, <2>4, <3>1, <3>2 DEF Mover
        <3> QED BY <2>1, <2>2, <2>4, <3>3 DEF Moving
    <2> QED BY <1>3, <1>h, <2>3, <2>4 DEF Moving
<1> QED BY <1>1, <1>2, <1>3, LiveStep

LEMMA AtOnceStep ==
    ASSUME Base, OneByOne, AtMostOne, Next, crossed' = FALSE, faults' = 0
    PROVE  AtOnce'
<1>t. /\ TypeOK /\ job \in [Jobs -> JobRecs] /\ ~Fault /\ AllSound /\ KeysDiffer
    BY NoFault DEF Base, TypeOK
<1>h. \A j \in Jobs : Known(job[j]) /\ Placed(job[j]) /\ job[j].how \in {"none", "buy", "transition"}
    BY <1>t DEF Base, JobRecs
<1>a. ASSUME NEW s \in Subs, St(s) = "active", NEW j \in Jobs, job[j].pc # "idle" PROVE subs'[s].status = "active"
    <2>1. ~Quiet
        BY <1>a DEF Quiet, At
    <2> QED BY <1>a, <2>1, ActiveStays DEF St
<1>f. ASSUME NEW s \in Subs, subs'[s].first = "active"
      PROVE  \/ Made(s) /\ subs[s].first = "active" /\ subs'[s].key = subs[s].key
             \/ /\ subs'[s].status = "active"
                /\ \E j \in Jobs : job[j].pc = "create" /\ job[j].key # Nil /\ Create(j) /\ Goes(j, s, "active")
    <2>1. CASE Made(s)
        BY <1>f, <2>1, SubStays
    <2>2. CASE ~Made(s)
        <3>1. subs[s].first = "none"
            BY <1>t, <2>2 DEF AllSound, Made, Sound, Unmade
        <3>2. IsCreated(s)
            BY <1>f, <2>2, <3>1, SubsStep DEF SubsMove, HandsOut, MovesOn
        <3> QED BY <1>f, <1>t, <3>2 DEF IsCreated, CreateRaises
    <2> QED BY <2>1, <2>2
<1>1. ASSUME acct'.sub = Nil, NEW s \in Subs, subs'[s].first = "active"
      PROVE  \E k \in Jobs : job'[k].pc = "finish" /\ Moving(job[k])' /\ job'[k].sub = s
    <2>1. acct.sub = Nil
        BY <1>1, NilStep
    <2>2. CASE subs[s].first = "active"
        <3>1. PICK k \in Jobs : job[k].pc = "finish" /\ Moving(job[k]) /\ job[k].sub = s
            BY <2>1, <2>2 DEF AtMostOne, AtOnce
        <3>2. ~Finish(k)
            BY <1>1, <1>t, <3>1, RowWrites, NameAssumption
        <3>3. ~Acts(k)
            BY <3>1, <3>2, <1>t DEF Acts, Begun, Transition, Buy, Confirm, Deliver, Convert, Asks, AskPlan, SetPlan, Step, Check, Cancel, Create,
                CreateRaises, Pending, Record, Confirmed, Write, Lookup, Retrieve, Read, Apply, EndTrial, EndTrialRaises,
                Note, Stop, At
        <3> QED BY <3>1, <3>3, OneActs DEF Moving
    <2>3. ASSUME NEW k \in Jobs, job[k].pc = "create", job[k].key # Nil, Goes(k, s, "active")
          PROVE  job'[k].pc = "finish" /\ Moving(job[k])' /\ job'[k].sub = s
        <3>1. Moving(job[k])
            BY <1>h, <2>3 DEF Placed, Moving
        <3> QED BY <1>t, <2>3, <3>1, GoesJob DEF Moving
    <2> QED BY <1>1, <1>f, <2>2, <2>3
<1>2. ASSUME NEW j \in Jobs, job'[j].pc = "finish" PROVE St(job[j].sub)' = "active"
    <2>1. Hook(job[j])' /\ Placed(job[j])' /\ job'[j].how \in {"none", "buy", "transition"}
        BY HookStep, NextBase DEF Base, TypeOK, JobRecs
    <2>2. CASE job'[j].how = "none" \/ job'[j].sub = job'[j].key[2]
        BY <1>2, <2>1, <2>2 DEF Hook
    <2>3. CASE job'[j] = job[j]
        <3>1. job[j].sub \in Subs /\ St(job[j].sub) = "active"
            BY <1>2, <2>3, InHand DEF AtMostOne, AtOnce, At
        <3> QED BY <1>2, <1>a, <2>3, <3>1 DEF St
    <2>4. CASE job'[j].how = "transition" /\ job'[j].sub # job'[j].key[2] /\ job'[j] # job[j]
        <3>1. ~Begun(j)
            <4>1. ASSUME NEW p \in Plans, Transition(j, p) PROVE FALSE
                BY <1>2, <1>t, <4>1 DEF Transition, Begins, Idle
            <4>2. ASSUME NEW p \in Plans, Buy(j, p) PROVE FALSE
                BY <1>2, <1>t, <4>2 DEF Buy, Begins, Idle
            <4> QED BY <4>1, <4>2 DEF Begun
        <3>2. Moving(job[j]) /\ job'[j].key = job[j].key
            BY <2>4, <3>1, HowStep DEF Moving
        <3>3. Check(j) \/ Create(j)
            <4>1. Acts(j)
                BY <2>4, OneActs
            <4>2. job[j].pc \in {"check", "cancel", "create", "pending", "finish"}
                BY <1>h, <3>2 DEF Placed, Moving
            <4>3. Check(j) \/ Cancel(j) \/ Create(j) \/ Pending(j) \/ Finish(j)
                BY <3>1, <4>1, <4>2, <1>t DEF Acts, Confirm, Deliver, Convert, Asks, AskPlan, SetPlan, Step, CreateRaises, Record,
                    Confirmed, Write, Lookup, Retrieve, Read, Apply, EndTrial, EndTrialRaises, Note, Stop, At
            <4>4. Done(j) => job'[j].pc # "finish"
                BY <1>t, GotoJob DEF Idle
            <4>5. Goto(j, "create") => job'[j].pc # "finish"
                BY <1>t, GotoJob DEF PCs
            <4> QED BY <1>2, <1>t, <4>3, <4>4, <4>5 DEF Cancel, Pending, Finish, Answer, Unanswered
        <3>4. ~Check(j)
            <4> SUFFICES ASSUME Check(j) PROVE FALSE
                OBVIOUS
            <4>1. job[j].sub = job[j].key[2]
                BY <1>h, <3>2 DEF Check, At, Placed, Moving
            <4>2. Done(j) \/ \E pc \in {"finish", "cancel", "create"} : Goto(j, pc)
                BY DEF Check
            <4>3. {"finish", "cancel", "create"} \subseteq PCs
                BY DEF PCs
            <4>4. ~Done(j)
                BY <1>2, <1>t, GotoJob DEF Idle
            <4>5. job'[j].sub = job[j].sub
                BY <1>t, <4>2, <4>3, <4>4, GotoJob
            <4> QED BY <2>4, <3>2, <4>1, <4>5
        <3>5. CASE Replays(job[j]) = {}
            <4>1. PICK s \in Subs, st \in {"incomplete", "active"} : Creates(j, s, st) /\ Goes(j, s, st)
                BY <3>3, <3>4, <3>5 DEF Create
            <4>2. job'[j].sub = s /\ st = "active"
                BY <1>2, <1>t, <3>2, <4>1, GoesJob DEF Moving
            <4>3. subs'[s].status = st
                BY <1>t, <3>5, <4>1, CreatesFollows
            <4> QED BY <4>2, <4>3 DEF St
        <3>6. CASE Replays(job[j]) # {}
            <4>1. PICK s \in Replays(job[j]) : Goes(j, s, subs[s].first) /\ UNCHANGED subs
                BY <3>3, <3>4, <3>6 DEF Create
            <4>2. s \in Subs /\ subs[s].key = job[j].key
                BY DEF Replays
            <4>3. job'[j].sub = s /\ subs[s].first = "active"
                BY <1>2, <1>t, <3>2, <4>1, GoesJob DEF Moving
            <4>4. St(s) = "active"
                BY <3>2, <4>2, <4>3 DEF AtMostOne, AtOnce
            <4> QED BY <4>1, <4>3, <4>4 DEF St
        <3> QED BY <3>5, <3>6
    <2> QED BY <1>2, <2>1, <2>2, <2>3, <2>4 DEF Placed
<1>3. ASSUME NEW j \in Jobs, NEW s \in Subs, Moving(job[j])', subs'[s].key = job'[j].key, subs'[s].first = "active"
      PROVE  St(s)' = "active"
    <2>1. CASE subs'[s].status = "active"
        BY <2>1 DEF St
    <2>2. CASE Made(s) /\ subs[s].first = "active" /\ subs'[s].key = subs[s].key
        <3>1. CASE Begun(j)
            <4>1. UNCHANGED <<acct, subs>>
                BY <3>1, BegunAlone
            <4>2. ASSUME NEW p \in Plans, Buy(j, p) PROVE FALSE
                BY <1>3, <1>t, <4>2 DEF Buy, Begins, Idle, Moving
            <4>3. acct.sub = Nil
                BY <3>1, <4>2 DEF Begun, Transition, Eligible
            <4>4. St(s) = "active"
                BY <2>2, <4>3 DEF AtMostOne, AtOnce
            <4> QED BY <4>1, <4>4 DEF St
        <3>2. CASE ~Begun(j)
            <4>1. Moving(job[j]) /\ job'[j].key = job[j].key
                BY <1>3, <3>2, HowStep DEF Moving
            <4>c. \A k \in Jobs, u \in Subs :
                      Moving(job[k]) /\ subs[u].key = job[k].key /\ subs[u].first = "active" => St(u) = "active"
                BY DEF AtMostOne, AtOnce
            <4>k. subs[s].key = job[j].key
                BY <1>3, <2>2, <4>1
            <4>2. St(s) = "active"
                BY <2>2, <4>1, <4>c, <4>k
            <4>3. job[j].pc # "idle"
                BY <1>h, <4>1 DEF Placed, Moving, Idle
            <4> QED BY <1>a, <4>2, <4>3 DEF St
        <3> QED BY <3>1, <3>2
    <2> QED BY <1>3, <1>f, <2>1, <2>2
<1> QED BY <1>1, <1>2, <1>3 DEF AtOnce

LEMMA AloneStep ==
    ASSUME Base, OneByOne, AtMostOne, Next, crossed' = FALSE, faults' = 0, NEW k \in Jobs
    PROVE  Alone(job[k])'
<1> SUFFICES ASSUME Buying(job[k])' PROVE Alone(job[k])'
    BY DEF Alone
<1>t. /\ TypeOK /\ job \in [Jobs -> JobRecs] /\ ~Fault /\ acct.sub \in Subs \cup {Nil}
    BY NoFault DEF Base, TypeOK
<1>h. \A j \in Jobs : Known(job[j]) /\ Placed(job[j]) /\ job[j].how \in {"none", "buy", "transition"}
    BY <1>t DEF Base, JobRecs
<1>1. CASE Begun(k)
    <2>1. UNCHANGED <<acct, subs>> /\ job[k] = Idle
        BY <1>1, BegunAlone
    <2>2. PICK p \in Plans : Buy(k, p)
        <3>1. ASSUME NEW p \in Plans, Transition(k, p) PROVE FALSE
            BY <3>1, <1>t DEF Transition, Begins, Idle, Buying
        <3> QED BY <1>1, <3>1 DEF Begun
    <2>3. /\ job'[k].pc = (IF acct.sub = Nil THEN "create" ELSE "check")
          /\ job'[k].sub = acct.sub /\ job'[k].key = Nil /\ ~Eligible
        BY <2>2, <1>t DEF Buy, Begins, Idle, Eligible
    <2>4. ASSUME NEW j \in Jobs PROVE job[j].how = "none"
        <3>1. \A l \in Jobs \ {k} : job[l].how # "none" => job'[k].key # Nil
            BY <1>1, BegunAlone
        <3>2. job[k].how = "none"
            BY <2>1 DEF Idle
        <3> QED BY <2>3, <3>1, <3>2
    <2>5. ASSUME acct.sub = Nil, NEW s \in Subs, Live(s) PROVE FALSE
        <3>1. s # Row
            BY <2>3, <2>5, NameAssumption DEF OneByOne, Stands, Row
        <3>2. \A j \in Jobs : ~Moving(job[j]) /\ job[j].pc # "record"
            BY <1>h, <2>4 DEF Moving, Placed
        <3> QED BY <2>5, <3>1, <3>2 DEF AtMostOne, Held
    <2>6. \A s \in Subs : Live(s)' <=> Live(s)
        BY <2>1 DEF Live, St
    <2> QED BY <2>1, <2>3, <2>5, <2>6 DEF Alone
<1>2. CASE ~Begun(k)
    <2>1. Buying(job[k])
        BY <1>2, HowStep DEF Buying
    <2>2. Alone(job[k]) /\ Placed(job[k]) /\ job[k].pc \in {"check", "create", "record"} /\ job[k].key = Nil
        BY <1>h, <2>1 DEF AtMostOne, Alone, Placed, Buying
    <2>3. \A j \in Jobs : job[j].how # "none" => j = k
        BY <2>1, OneBuyer
    <2>4. ASSUME NEW s \in Subs, Live(s)' PROVE Live(s) \/ GivenOut(k, s) \/ PaidFor(k, s)
        BY <2>3, <2>4, LiveStep
    <2>5. CASE job'[k] = job[k]
        <3>1. CASE job[k].pc = "check"
            <4>1. ASSUME NEW j \in Jobs, Record(j) PROVE FALSE
                <5>1. job[j].pc = "record"
                    BY <4>1 DEF Record, At
                <5>2. j = k
                    BY <1>h, <2>3, <5>1 DEF Placed
                <5> QED BY <3>1, <5>1, <5>2
            <4>2. ASSUME NEW j \in Jobs, Finish(j) \/ Write(j) PROVE acct'.sub = acct.sub
                <5>1. job[j].sub \in Subs /\ acct'.sub = job[j].sub
                    BY <1>t, <4>2, InHand, RowWrites DEF Finish, Write, At
                <5>2. Hook(job[j])
                    BY DEF OneByOne
                <5>3. Live(job[j].sub)
                    BY <4>2, <5>2 DEF Finish, Write, At, AtMostOne, AtOnce, Hook, Live
                <5> QED BY <2>1, <3>1, <5>1, <5>3, OnRecord
            <4>3. acct'.sub = acct.sub
                BY <1>t, <4>1, <4>2, AcctStep, RowWrites DEF OneByOne, AcctSame
            <4> QED BY <2>1, <2>2, <2>5, <3>1, <4>3 DEF Alone
        <3>2. CASE job[k].pc = "create"
            <4>1. ASSUME NEW s \in Subs, Live(s)' PROVE FALSE
                <5>1. ~GivenOut(k, s)
                    BY <3>2 DEF GivenOut, Check, Pending, Record, At
                <5>2. ~PaidFor(k, s)
                    BY <1>t, <2>1, <2>5, <3>2, GoesJob DEF PaidFor, Buying
                <5> QED BY <2>1, <2>2, <2>4, <3>2, <4>1, <5>1, <5>2 DEF Alone
            <4> QED BY <2>5, <3>2, <4>1 DEF Alone
        <3>3. CASE job[k].pc = "record"
            <4>1. ASSUME NEW s \in Subs, Live(s)' PROVE s = job[k].sub
                <5>1. ~PaidFor(k, s)
                    BY <3>3 DEF PaidFor
                <5> QED BY <2>1, <2>2, <2>4, <3>3, <4>1, <5>1 DEF Alone, GivenOut
            <4> QED BY <2>5, <3>3, <4>1 DEF Alone
        <3> QED BY <2>2, <3>1, <3>2, <3>3
    <2>6. CASE job'[k] # job[k]
        <3>d. ~Done(k)
            BY <1>t, GotoJob DEF Idle, Buying
        <3>1. Check(k) \/ Create(k)
            <4>1. Acts(k)
                BY <2>6, OneActs
            <4>2. Check(k) \/ Create(k) \/ Record(k)
                BY <1>2, <1>t, <2>2, <4>1 DEF Acts, Confirm, Deliver, Convert, Asks, AskPlan, SetPlan, Step, Cancel, CreateRaises, Pending, Finish,
                    Confirmed, Write, Lookup, Retrieve, Read, Apply, EndTrial, EndTrialRaises, Note, Stop, At
            <4> QED BY <3>d, <4>2 DEF Record, Answer
        <3>2. CASE Check(k)
            <4>1. job[k].pc = "check" /\ job[k].how = "buy"
                BY <2>1, <3>2 DEF Check, At, Buying
            <4>2. Goto(k, "create") /\ UNCHANGED subs /\ St(job[k].sub) = "canceled"
                BY <1>t, <3>2, <3>d, <4>1 DEF Check, Over, St
            <4>3. job'[k].pc = "create"
                BY <1>t, <4>2, GotoJob DEF PCs
            <4>4. ASSUME NEW s \in Subs, Live(s)' PROVE FALSE
                <5>1. Live(s)
                    BY <4>2, <4>4 DEF Live, St
                <5>2. s = job[k].sub
                    BY <2>1, <4>1, <5>1, OnRecord
                <5> QED BY <4>2, <5>1, <5>2 DEF Live
            <4> QED BY <4>3, <4>4 DEF Alone
        <3>3. CASE Create(k)
            <4>1. Replays(job[k]) = {} /\ job[k].pc = "create"
                BY <2>2, <3>3 DEF Replays, Create, At
            <4>2. PICK s \in Subs, st \in {"incomplete", "active"} : Creates(k, s, st) /\ Goes(k, s, st)
                BY <3>3, <4>1 DEF Create
            <4>3. job'[k].pc = "record" /\ job'[k].sub = s
                BY <1>t, <2>1, <4>2, GoesJob DEF Buying
            <4>4. \A t \in Subs \ {s} : subs'[t] = subs[t]
                BY <1>t, <4>1, <4>2, CreatesFollows DEF Base
            <4>5. \A t \in Subs \ {s} : ~Live(t)'
                BY <2>1, <2>2, <4>1, <4>4 DEF Alone, Live, St
            <4> QED BY <4>3, <4>5 DEF Alone
        <3> QED BY <3>1, <3>2, <3>3
    <2> QED BY <2>5, <2>6
<1> QED BY <1>1, <1>2

LEMMA InitAtMostOne == ASSUME Init PROVE AtMostOne
<1> PICK kind \in Kinds, trial \in Subs :
        /\ acct = [comp |-> kind = "comp", sub |-> IF kind = "trial" THEN trial ELSE Nil,
                   status |-> CASE kind = "manual" -> "active" [] kind = "trial" -> "trialing" [] OTHER -> "none",
                   pending |-> Nil, window |-> 0, reason |-> FALSE, unpaid |-> FALSE]
        /\ subs = [s \in Subs |-> IF kind = "trial" /\ s = trial
                                  THEN [Unmade EXCEPT !.status = "trialing"] ELSE Unmade]
        /\ job = [j \in Jobs |-> Idle]
    BY DEF Init
<1>1. \A j \in Jobs : job[j].pc = "idle" /\ job[j].how = "none"
    BY DEF Idle
<1>2. \A s \in Subs : subs[s].first = "none" /\ (Live(s) => kind = "trial" /\ s = trial)
    BY DEF Unmade, Live, St
<1>3. kind = "trial" => acct.sub = trial /\ trial # Nil
    BY NameAssumption
<1>4. Held
    BY <1>2, <1>3 DEF Held, Row
<1>5. AtOnce /\ \A j \in Jobs : Alone(job[j])
    BY <1>1, <1>2 DEF AtOnce, Alone, Buying, Moving
<1> QED BY <1>4, <1>5 DEF AtMostOne

Undisturbed == ~crossed /\ faults = 0 => AtMostOne

LEMMA UndisturbedStep == Base /\ Uncrossed /\ Undisturbed /\ [Next]_vars => Undisturbed'
<1> SUFFICES ASSUME Base, Uncrossed, Undisturbed, [Next]_vars, ~crossed', faults' = 0 PROVE AtMostOne'
    BY DEF Undisturbed
<1>1. CASE UNCHANGED vars
    <2>1. AtMostOne /\ UNCHANGED <<acct, subs, job>>
        BY <1>1 DEF Undisturbed, vars
    <2> QED BY <2>1 DEF AtMostOne, Held, AtOnce, Alone, Live, St, Row, Moving, Buying
<1>2. CASE Next
    <2>1. crossed \in BOOLEAN /\ crossed' \in BOOLEAN
        BY NextBase DEF Base, TypeOK
    <2>2. OneByOne /\ AtMostOne /\ crossed' = FALSE
        BY <1>2, <2>1, CrossedStays, FaultsStay DEF Uncrossed, Undisturbed, Base
    <2>3. Held' /\ AtOnce' /\ \A k \in Jobs : Alone(job[k])'
        BY <1>2, <2>2, HeldStep, AtOnceStep, AloneStep
    <2> QED BY <2>3 DEF AtMostOne
<1> QED BY <1>1, <1>2

\* Nobody pays twice: as long as purchases do not cross and nothing raises, at most one
\* subscription is billed, or waits in somebody's browser to be paid, however many there are and
\* however often plans are picked, dropped and picked again (POST /create-subscription and
\* POST /paid-transition, which cancel or resume what waits before they create another).
THEOREM NobodyPaysTwice == Spec => []OneLive
<1>1. Base /\ Uncrossed /\ Undisturbed => OneLive
    <2> SUFFICES ASSUME Base, OneByOne, AtMostOne PROVE Cardinality(Billed \cup Payable) <= 1
        BY DEF OneLive, Uncrossed, Undisturbed
    <2>1. Billed \cup Payable = {s \in Subs : Live(s)}
        BY DEF Billed, Payable, Live, St
    <2>2. CASE Billed \cup Payable = {}
        <3>1. Cardinality(Billed \cup Payable) = 0
            BY <2>2, FS_EmptySet
        <3> QED BY <3>1
    <2>3. CASE Billed \cup Payable # {}
        <3>1. PICK s \in Subs : Live(s)
            BY <2>1, <2>3
        <3>2. Billed \cup Payable = {s}
            BY <2>1, <3>1, OneLives
        <3>3. Cardinality(Billed \cup Payable) = 1
            BY <3>2, FS_Singleton
        <3> QED BY <3>3
    <2> QED BY <2>2, <2>3
<1>2. Init => Undisturbed
    BY InitAtMostOne DEF Undisturbed
<1> QED BY <1>1, <1>2, UndisturbedStep, UncrossedHolds, BaseHolds, PTL DEF Spec
=============================================================================
