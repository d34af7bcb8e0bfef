------------------------- MODULE UsageLedgerProofs -------------------------
(* Stripe counts a call's overage at most once, and a row that says reported
   says what Stripe has: for any calls, backends, allowance and periods, any
   number of crashes and raised statements, and any retry window and identifier
   lifetime, as long as a backend never holds what it read for longer than the
   two leave it (RetryWindow + PassLimit < Dedupe).

   The argument is about ages. Stripe's memory of a call is never older than
   the call's pending row, nor than what a backend that is about to send it
   has read plus its wait. So whoever sends, sends inside the memory.

   The tenant's totals are sums over the ledger's rows. The sum of a set is a
   fold, chosen by its recursive equation; that every finite set has one, and
   that it does not matter in which order it takes the elements, is shown here
   by a smallest counterexample, because no prover can use an induction theorem
   whose hypothesis is an operator. Then what each database step does to the two
   totals is arithmetic (Ledger). Here nothing is asked of the windows: calls,
   backends, periods and failures are as many as one likes, and Calls may be
   infinite, since only finitely many have a row.                             *)
EXTENDS UsageLedger, FiniteSetTheorems, WellFoundedInduction, TLAPS

Timely == RetryWindow + PassLimit < Dedupe

-----------------------------------------------------------------------------
(* The inductive invariant                                                   *)

\* The shape of the state, without the sums.
Shapes ==
    /\ DOMAIN row = Calls /\ DOMAIN meter = Calls /\ DOMAIN backend = Backends
    /\ \A c \in Calls :
         /\ DOMAIN row[c] = {"state", "counted", "over", "age"}
         /\ row[c].state \in States /\ row[c].age \in Nat
         /\ DOMAIN meter[c] = {"times", "minutes", "age"}
         /\ meter[c].times \in Nat /\ meter[c].age \in Nat
    /\ \A b \in Backends :
         /\ DOMAIN backend[b] = {"at", "call", "tries", "over", "age", "since", "retry"}
         /\ backend[b].at \in Labels
         /\ backend[b].age \in Nat /\ backend[b].since \in Nat
         /\ ~At(b, "send") => backend[b].age = 0 /\ backend[b].since = 0
         /\ ~At(b, "idle") => backend[b].call \in Calls

\* What was never recorded was never sent.
Fresh == \A c \in Calls : row[c].state = "absent" => meter[c].times = 0

\* Stripe met a pending call's identifier after the row was written, and heard
\* the minutes the row still says.
Waiting ==
    \A c \in Calls : row[c].state = "pending" /\ meter[c].times > 0 =>
        meter[c].age <= row[c].age /\ meter[c].minutes = row[c].over

\* A backend about to send read a row young enough, waits no longer than the
\* bound, and carries the row's minutes unless a rollover cleared them.
SendOK(b) ==
    LET c == backend[b].call
    IN  /\ row[c].state # "absent"
        /\ backend[b].age <= RetryWindow /\ backend[b].since <= PassLimit
        /\ meter[c].times > 0 => meter[c].age <= backend[b].age + backend[b].since
        /\ row[c].state = "pending" => backend[b].over = row[c].over

Sending == \A b \in Backends : At(b, "send") => SendOK(b)

\* A backend writes down a report only after Stripe had it.
Noting == \A b \in Backends : At(b, "note") =>
              row[backend[b].call].state # "absent" /\ meter[backend[b].call].times > 0

IInv ==
    Shapes /\ Fresh /\ Waiting /\ Sending /\ Noting /\ BilledOnce /\ ReportedIsBilled

\* Steps that leave rows, the meter and what is being sent alone.
Aside == UNCHANGED <<row, meter>>

-----------------------------------------------------------------------------
LEMMA InitIInv == Init => IInv
BY ConstantsAssumption
   DEF Init, IInv, Shapes, Fresh, Waiting, Sending, SendOK, Noting, BilledOnce,
       ReportedIsBilled, At, NoRow, Idle, States, Labels

\* A backend that goes anywhere but to "send" or "note" keeps the invariant.
LEMMA MoveKeepsIInv ==
    ASSUME IInv, Aside, NEW b \in Backends, NEW new,
           backend' = [backend EXCEPT ![b] = new],
           DOMAIN new = {"at", "call", "tries", "over", "age", "since", "retry"},
           new.at \in Labels \ {"send", "note"}, new.age = 0, new.since = 0,
           new.at # "idle" => new.call \in Calls
    PROVE  IInv'
BY DEF IInv, Aside, Shapes, Fresh, Waiting, Sending, SendOK, Noting, BilledOnce,
       ReportedIsBilled, At

-----------------------------------------------------------------------------
(* The database's steps                                                      *)

\* A rollover clears pending rows and leaves every other row's state and minutes.
LEMMA EnteredRow ==
    ASSUME Shapes, NEW s, NEW c \in Calls
    PROVE  /\ DOMAIN Entered(s) = Calls
           /\ DOMAIN Entered(s)[c] = {"state", "counted", "over", "age"}
           /\ Entered(s)[c].state \in States /\ Entered(s)[c].age \in Nat
           /\ \/ Entered(s)[c].state = row[c].state /\ Entered(s)[c].over = row[c].over
                 /\ Entered(s)[c].age = row[c].age
              \/ row[c].state = "pending" /\ Entered(s)[c].state = "none"
BY DEF Shapes, Entered, States

LEMMA EnterKeepsIInv ==
    ASSUME IInv, NEW s, row' = Entered(s), UNCHANGED <<meter, backend>>
    PROVE  IInv'
<1> USE DEF IInv
<1>1. \A c \in Calls :
        /\ DOMAIN row'[c] = {"state", "counted", "over", "age"}
        /\ row'[c].state \in States /\ row'[c].age \in Nat
        /\ \/ row'[c].state = row[c].state /\ row'[c].over = row[c].over
              /\ row'[c].age = row[c].age
           \/ row[c].state = "pending" /\ row'[c].state = "none"
    BY EnteredRow
<1>2. DOMAIN row' = Calls
    BY DEF Entered
<1> QED
    BY <1>1, <1>2 DEF Shapes, Fresh, Waiting, Sending, SendOK, Noting, BilledOnce,
                       ReportedIsBilled, At

\* A recording writes the row of a call that had none, after a rollover or not.
LEMMA RecordedRow ==
    ASSUME Shapes, NEW c \in Calls, NEW s, Recorded(c, s)
    PROVE  /\ DOMAIN row' = Calls
           /\ DOMAIN row'[c] = {"state", "counted", "over", "age"}
           /\ row'[c].state \in {"pending", "none"} /\ row'[c].age = 0
           /\ row'[c].over > 0 => row'[c].state = "pending"
           /\ \A d \in Calls \ {c} :
                /\ DOMAIN row'[d] = {"state", "counted", "over", "age"}
                /\ row'[d].state \in States /\ row'[d].age \in Nat
                /\ \/ row'[d].state = row[d].state /\ row'[d].over = row[d].over
                      /\ row'[d].age = row[d].age
                   \/ row[d].state = "pending" /\ row'[d].state = "none"
<1>1. PICK rows \in {row, Entered(s)} : \E counts, over :
        row' = [rows EXCEPT ![c] = NewRow(counts, over)]
    BY DEF Recorded, Counted
<1>. PICK counts, over : row' = [rows EXCEPT ![c] = NewRow(counts, over)]
    BY <1>1
<1>2. DOMAIN rows = Calls
    BY DEF Shapes, Entered
<1>3. \A d \in Calls \ {c} : row'[d] = rows[d]
    BY <1>2
<1>4. row'[c] = [state |-> IF over > 0 THEN "pending" ELSE "none",
                 counted |-> counts, over |-> over, age |-> 0]
    BY <1>2 DEF NewRow
<1>5. DOMAIN row' = Calls
    BY <1>2
<1>6. ASSUME NEW d \in Calls \ {c}
      PROVE  /\ DOMAIN row'[d] = {"state", "counted", "over", "age"}
             /\ row'[d].state \in States /\ row'[d].age \in Nat
             /\ \/ row'[d].state = row[d].state /\ row'[d].over = row[d].over
                   /\ row'[d].age = row[d].age
                \/ row[d].state = "pending" /\ row'[d].state = "none"
    <2>1. CASE rows = row
        BY <1>3, <2>1 DEF Shapes
    <2>2. CASE rows = Entered(s)
        BY <1>3, <2>2, EnteredRow
    <2> QED BY <1>1, <2>1, <2>2
<1> QED BY <1>4, <1>5, <1>6

\* An answer written down: the pending row says reported.
LEMMA NotedKeepsIInv ==
    ASSUME IInv, NEW b \in Backends, At(b, "note"), Noted(backend[b].call),
           UNCHANGED meter,
           NEW new, backend' = [backend EXCEPT ![b] = new],
           DOMAIN new = {"at", "call", "tries", "over", "age", "since", "retry"},
           new.at \in Labels \ {"send", "note"}, new.age = 0, new.since = 0,
           new.at # "idle" => new.call \in Calls
    PROVE  IInv'
<1> DEFINE c == backend[b].call
<1>1. CASE row[c].state # "pending"
    BY <1>1, MoveKeepsIInv DEF Noted, Aside
<1>2. CASE row[c].state = "pending"
    <2>1. c \in Calls /\ meter[c].times > 0
        BY DEF IInv, Shapes, Noting, At
    <2>2. row' = [row EXCEPT ![c].state = "reported", ![c].age = 0]
        BY <1>2 DEF Noted
    <2>3. row'[c].state = "reported" /\ row'[c].over = row[c].over /\ row'[c].age = 0
          /\ DOMAIN row'[c] = {"state", "counted", "over", "age"}
        BY <2>1, <2>2 DEF IInv, Shapes
    <2>4. DOMAIN row' = Calls /\ \A d \in Calls \ {c} : row'[d] = row[d]
        BY <2>2 DEF IInv, Shapes
    <2> HIDE DEF c
    <2> QED
        BY <1>2, <2>1, <2>3, <2>4
           DEF IInv, Shapes, Fresh, Waiting, Sending, SendOK, Noting, BilledOnce,
               ReportedIsBilled, At, States
<1> QED BY <1>1, <1>2

-----------------------------------------------------------------------------
(* The steps of the specification                                            *)

\* A recording: its backend carries what the new row says, or goes to "mark".
LEMMA RecordKeepsIInv ==
    ASSUME IInv, NEW b \in Backends, At(b, "record"), UNCHANGED meter,
           NEW s, Recorded(backend[b].call, s), row[backend[b].call].state = "absent",
           NEW new, backend' = [backend EXCEPT ![b] = new],
           DOMAIN new = {"at", "call", "tries", "over", "age", "since", "retry"},
           new.at \in {"send", "mark"}, new.call = backend[b].call,
           new.at = "send" => new.over = row'[new.call].over,
           new.age = 0, new.since = 0
    PROVE  IInv'
<1> DEFINE c == backend[b].call
<1>1. c \in Calls /\ meter[c].times = 0
    BY DEF IInv, Shapes, At, Fresh
<1>2. /\ DOMAIN row' = Calls
      /\ DOMAIN row'[c] = {"state", "counted", "over", "age"}
      /\ row'[c].state \in {"pending", "none"} /\ row'[c].age = 0
      /\ \A d \in Calls \ {c} :
           /\ DOMAIN row'[d] = {"state", "counted", "over", "age"}
           /\ row'[d].state \in States /\ row'[d].age \in Nat
           /\ \/ row'[d].state = row[d].state /\ row'[d].over = row[d].over
                 /\ row'[d].age = row[d].age
              \/ row[d].state = "pending" /\ row'[d].state = "none"
    BY <1>1, RecordedRow DEF IInv
<1>3. \A o \in Backends : At(o, "send") \/ At(o, "note") => backend[o].call # c
    BY DEF IInv, Sending, SendOK, Noting
<1>4. backend'[b] = new /\ DOMAIN backend' = Backends
      /\ \A o \in Backends \ {b} : backend'[o] = backend[o]
    BY DEF IInv, Shapes
<1>5. Shapes'
    BY <1>1, <1>2, <1>4 DEF IInv, Shapes, States, Labels, At
<1>6. Fresh' /\ Waiting' /\ BilledOnce' /\ ReportedIsBilled'
    BY <1>1, <1>2 DEF IInv, Fresh, Waiting, BilledOnce, ReportedIsBilled
<1>7. ASSUME NEW o \in Backends, At(o, "send")' PROVE SendOK(o)'
    <2>1. CASE o = b
        BY <1>1, <1>2, <1>4, <1>7, <2>1, ConstantsAssumption DEF SendOK, At
    <2>2. CASE o # b
        <3>1. At(o, "send") /\ backend'[o] = backend[o]
            BY <1>4, <1>7, <2>2 DEF At
        <3>2. backend[o].call \in Calls \ {c}
            BY <1>3, <3>1 DEF IInv, Shapes, At
        <3> QED BY <1>2, <3>1, <3>2 DEF IInv, Sending, SendOK
    <2> QED BY <2>1, <2>2
<1>8. ASSUME NEW o \in Backends, At(o, "note")'
      PROVE  row'[backend'[o].call].state # "absent" /\ meter'[backend'[o].call].times > 0
    <2>1. o # b /\ At(o, "note") /\ backend'[o] = backend[o]
        BY <1>4, <1>8 DEF At
    <2>2. backend[o].call \in Calls \ {c}
        BY <1>3, <2>1 DEF IInv, Shapes, At
    <2> QED BY <1>2, <2>1, <2>2 DEF IInv, Noting
<1> QED BY <1>5, <1>6, <1>7, <1>8 DEF IInv, Sending, Noting

\* A request that reaches Stripe. The backend is inside Stripe's memory of the
\* call, if it has one: the step at which a call could be counted twice.
LEMMA MeteredKeepsIInv ==
    ASSUME Timely, IInv, NEW b \in Backends, At(b, "send"),
           Metered(backend[b].call, backend[b].over), UNCHANGED row,
           NEW new, backend' = [backend EXCEPT ![b] = new],
           DOMAIN new = {"at", "call", "tries", "over", "age", "since", "retry"},
           new.at \in Labels \ {"send"}, new.age = 0, new.since = 0,
           new.at # "idle" => new.call = backend[b].call
    PROVE  IInv'
<1> DEFINE c == backend[b].call
<1>1. c \in Calls /\ SendOK(b)
    BY DEF IInv, Shapes, Sending, At
<1>2. CASE Remembers(c)
    <2>1. meter' = meter /\ meter[c].times > 0
        BY <1>2 DEF Metered, Remembers
    <2> QED
        BY <1>1, <2>1 DEF IInv, Shapes, Fresh, Waiting, Sending, SendOK, Noting, BilledOnce,
                          ReportedIsBilled, At
<1>3. CASE ~Remembers(c)
    <2>1. meter[c].times = 0
        BY <1>1, <1>3, ConstantsAssumption DEF SendOK, Remembers, Timely, IInv, Shapes
    <2>2. meter' = [meter EXCEPT ![c] = [times |-> 1, minutes |-> backend[b].over, age |-> 0]]
        BY <1>3, <2>1 DEF Metered, IInv, Shapes
    <2>3. /\ DOMAIN meter' = Calls
          /\ meter'[c] = [times |-> 1, minutes |-> backend[b].over, age |-> 0]
          /\ \A d \in Calls \ {c} : meter'[d] = meter[d]
        BY <1>1, <2>2 DEF IInv, Shapes
    <2>4. /\ DOMAIN meter'[c] = {"times", "minutes", "age"}
          /\ meter'[c].times = 1 /\ meter'[c].minutes = backend[b].over /\ meter'[c].age = 0
        BY <2>3
    <2>5. backend'[b] = new /\ DOMAIN backend' = Backends
          /\ \A o \in Backends \ {b} : backend'[o] = backend[o]
        BY DEF IInv, Shapes
    <2>6. Shapes'
        BY <1>1, <2>3, <2>4, <2>5 DEF IInv, Shapes, At
    <2>7. Fresh' /\ BilledOnce' /\ Waiting' /\ ReportedIsBilled'
        BY <1>1, <2>1, <2>3, <2>4
           DEF IInv, Shapes, Fresh, BilledOnce, Waiting, ReportedIsBilled, SendOK
    <2>8. Sending' /\ Noting'
        BY <1>1, <2>3, <2>4, <2>5
           DEF IInv, Shapes, Sending, SendOK, Noting, At
    <2> QED BY <2>6, <2>7, <2>8 DEF IInv
<1> QED BY <1>2, <1>3

\* Time: nothing that may still be sent gets ahead of Stripe's memory of it.
LEMMA TickKeepsIInv ==
    ASSUME IInv, Tick PROVE IInv'
<1>1. /\ DOMAIN row' = Calls /\ DOMAIN meter' = Calls /\ DOMAIN backend' = Backends
      /\ \A c \in Calls :
           /\ DOMAIN row'[c] = {"state", "counted", "over", "age"}
           /\ row'[c].state = row[c].state /\ row'[c].over = row[c].over
           /\ row'[c].age = IF row[c].state = "pending" THEN Older(row[c].age) ELSE row[c].age
    BY DEF Tick, IInv, Shapes
<1>2. \A c \in Calls :
           /\ DOMAIN meter'[c] = {"times", "minutes", "age"}
           /\ meter'[c].times = meter[c].times /\ meter'[c].minutes = meter[c].minutes
           /\ meter'[c].age \in {0, Older(meter[c].age)}
    BY DEF Tick, IInv, Shapes
<1>3. \A b \in Backends :
           /\ DOMAIN backend'[b] = {"at", "call", "tries", "over", "age", "since", "retry"}
           /\ backend'[b].at = backend[b].at /\ backend'[b].call = backend[b].call
           /\ backend'[b].over = backend[b].over /\ backend'[b].age = backend[b].age
           /\ IF At(b, "send")
              THEN backend[b].since < PassLimit /\ backend'[b].since = backend[b].since + 1
              ELSE backend'[b].since = backend[b].since
    BY DEF Tick, Holds, IInv, Shapes, At
<1>4. Shapes'
    BY <1>1, <1>2, <1>3, ConstantsAssumption DEF IInv, Shapes, Older, At
<1>5. Fresh' /\ BilledOnce' /\ ReportedIsBilled' /\ Noting'
    BY <1>1, <1>2, <1>3 DEF IInv, Shapes, Fresh, BilledOnce, ReportedIsBilled, Noting, At
<1>6. Waiting'
    BY <1>1, <1>2, ConstantsAssumption DEF IInv, Shapes, Waiting, Older
<1>7. Sending'
    <2> SUFFICES ASSUME NEW b \in Backends, At(b, "send")' PROVE SendOK(b)'
        BY DEF Sending
    <2>1. At(b, "send") /\ SendOK(b) /\ backend[b].call \in Calls
        BY <1>3 DEF IInv, Shapes, Sending, At
    <2> QED
        BY <1>1, <1>2, <1>3, <2>1, ConstantsAssumption DEF IInv, Shapes, SendOK, Older
<1> QED BY <1>4, <1>5, <1>6, <1>7 DEF IInv

\* A backend that only changes its place, having sent nothing.
LEMMA GotoKeepsIInv ==
    ASSUME IInv, Aside, NEW b \in Backends, NEW l \in {"mark", "raised"}, Goto(b, l),
           ~At(b, "send"), ~At(b, "idle")
    PROVE  IInv'
<1> DEFINE new == [backend[b] EXCEPT !.at = l]
<1>1. /\ DOMAIN new = {"at", "call", "tries", "over", "age", "since", "retry"}
      /\ new.at = l /\ new.call = backend[b].call /\ new.age = 0 /\ new.since = 0
      /\ new.call \in Calls
    BY DEF IInv, Shapes
<1>2. backend' = [backend EXCEPT ![b] = new]
    BY DEF Goto, Set
<1> HIDE DEF new
<1> QED BY <1>1, <1>2, MoveKeepsIInv DEF Labels

\* A backend that has finished, or stops.
LEMMA StopKeepsIInv ==
    ASSUME IInv, Aside, NEW b \in Backends, Set(b, Idle) PROVE IInv'
<1>1. /\ DOMAIN Idle = {"at", "call", "tries", "over", "age", "since", "retry"}
      /\ Idle.at = "idle" /\ Idle.age = 0 /\ Idle.since = 0
    BY DEF Idle
<1>2. backend' = [backend EXCEPT ![b] = Idle]
    BY DEF Set
<1> QED BY <1>1, <1>2, MoveKeepsIInv DEF Labels

\* A report that ended, one way or the other, leaves its backend at rest.
LEMMA AfterRests ==
    ASSUME Shapes, NEW b \in Backends, ~At(b, "idle"), After(b)
    PROVE  \E new : /\ backend' = [backend EXCEPT ![b] = new]
                    /\ DOMAIN new = {"at", "call", "tries", "over", "age", "since", "retry"}
                    /\ new.at \in {"idle", "mark"} /\ new.age = 0 /\ new.since = 0
                    /\ new.at # "idle" => new.call = backend[b].call /\ new.call \in Calls
<1> DEFINE new == IF backend[b].retry THEN Idle
                  ELSE [Idle EXCEPT !.at = "mark", !.call = backend[b].call,
                                    !.tries = backend[b].tries]
<1>1. backend' = [backend EXCEPT ![b] = new]
    BY DEF After, Set
<1>2. /\ DOMAIN new = {"at", "call", "tries", "over", "age", "since", "retry"}
      /\ new.at \in {"idle", "mark"} /\ new.age = 0 /\ new.since = 0
      /\ new.at # "idle" => new.call = backend[b].call /\ new.call \in Calls
    BY DEF Idle, Shapes
<1> QED BY <1>1, <1>2

LEMMA StepIInv ==
    ASSUME Timely, IInv, [Next]_vars PROVE IInv'
<1> USE DEF IInv
<1>1. CASE \E c \in Calls : CallEnds(c)
    BY <1>1 DEF CallEnds, Shapes, Fresh, Waiting, Sending, SendOK, Noting, BilledOnce,
                ReportedIsBilled, At
<1>2. CASE Renew
    BY <1>2 DEF Renew, Shapes, Fresh, Waiting, Sending, SendOK, Noting, BilledOnce,
                ReportedIsBilled, At
<1>3. CASE Tick
    BY <1>3, TickKeepsIInv
<1>4. ASSUME NEW s \in 0 .. period, NEW paid \in BOOLEAN, RollPeriod(s, paid) PROVE IInv'
    <2>1. CASE row' = Entered(s)
        BY <1>4, <2>1, EnterKeepsIInv DEF RollPeriod
    <2>2. CASE UNCHANGED row
        BY <1>4, <2>2 DEF RollPeriod, Shapes, Fresh, Waiting, Sending, SendOK, Noting,
                          BilledOnce, ReportedIsBilled, At
    <2> QED BY <1>4, <2>1, <2>2 DEF RollPeriod
<1>5. ASSUME NEW b \in Backends, Loop(b) PROVE IInv'
    <2>1. ASSUME NEW c \in Calls, Take(b, c) PROVE IInv'
        <3> DEFINE new == [Idle EXCEPT !.at = "record", !.call = c,
                                       !.tries = event[c].attempts + 1]
        <3>1. backend' = [backend EXCEPT ![b] = new] /\ Aside
            BY <2>1 DEF Take, Set, Aside
        <3>2. /\ DOMAIN new = {"at", "call", "tries", "over", "age", "since", "retry"}
              /\ new.at = "record" /\ new.call = c /\ new.age = 0 /\ new.since = 0
            BY DEF Idle
        <3> HIDE DEF new
        <3> QED BY <3>1, <3>2, MoveKeepsIInv DEF Labels
    <2>2. ASSUME NEW c \in Calls, Retry(b, c) PROVE IInv'
        <3> DEFINE new == [Idle EXCEPT !.at = "send", !.call = c, !.over = row[c].over,
                                       !.age = row[c].age, !.retry = TRUE]
        <3>1. backend' = [backend EXCEPT ![b] = new] /\ UNCHANGED <<row, meter>>
            BY <2>2 DEF Retry, Set
        <3>2. /\ DOMAIN new = {"at", "call", "tries", "over", "age", "since", "retry"}
              /\ new.at = "send" /\ new.call = c /\ new.over = row[c].over
              /\ new.age = row[c].age /\ new.since = 0
            BY DEF Idle
        <3>3. row[c].state = "pending" /\ row[c].age <= RetryWindow
            BY <2>2, ConstantsAssumption DEF Retry, Shapes
        <3> HIDE DEF new
        <3> QED
            BY <3>1, <3>2, <3>3, ConstantsAssumption
               DEF Shapes, Labels, Fresh, Waiting, Sending, SendOK, Noting, BilledOnce,
                   ReportedIsBilled, At
    <2>3. ASSUME NEW c \in Calls, Review(b, c) PROVE IInv'
        <3>1. /\ DOMAIN row' = Calls /\ \A d \in Calls \ {c} : row'[d] = row[d]
              /\ DOMAIN row'[c] = {"state", "counted", "over", "age"}
              /\ row'[c].state = "review" /\ row'[c].age = 0
              /\ row[c].state = "pending" /\ UNCHANGED <<meter, backend>>
            BY <2>3 DEF Review, Shapes
        <3> QED
            BY <3>1 DEF Shapes, States, Fresh, Waiting, Sending, SendOK, Noting, BilledOnce,
                        ReportedIsBilled, At
    <2>4. CASE Record(b)
        <3> DEFINE c == backend[b].call
                   new == IF row[c].state = "absent" /\ row'[c].over > 0
                          THEN [backend[b] EXCEPT !.at = "send", !.over = row'[c].over]
                          ELSE [backend[b] EXCEPT !.at = "mark"]
        <3>1. c \in Calls /\ At(b, "record") /\ UNCHANGED meter
              /\ backend' = [backend EXCEPT ![b] = new]
            BY <2>4 DEF Record, Set, Shapes, At
        <3>2. /\ DOMAIN new = {"at", "call", "tries", "over", "age", "since", "retry"}
              /\ new.at \in {"send", "mark"} /\ new.call = c
              /\ new.age = backend[b].age /\ new.since = backend[b].since
              /\ new.at = "send" => new.over = row'[c].over /\ row[c].state = "absent"
            BY DEF Shapes
        <3>3. backend[b].age = 0 /\ backend[b].since = 0
            BY <3>1 DEF Shapes, At
        <3>4. CASE row[c].state = "absent"
            <4>1. PICK s : Recorded(c, s)
                BY <2>4, <3>4 DEF Record
            <4> HIDE DEF new
            <4> QED BY <3>1, <3>2, <3>3, <3>4, <4>1, RecordKeepsIInv DEF Shapes
        <3>5. CASE row[c].state # "absent"
            <4>1. UNCHANGED row /\ new.at = "mark"
                BY <2>4, <3>2, <3>5 DEF Record
            <4>2. Aside /\ new.age = 0 /\ new.since = 0 /\ new.call \in Calls
                BY <3>1, <3>2, <3>3, <4>1 DEF Aside
            <4> HIDE DEF new, c
            <4> QED BY <3>1, <3>2, <4>1, <4>2, MoveKeepsIInv DEF Labels
        <3> QED BY <3>4, <3>5
    <2>5. CASE Send(b)
        <3> DEFINE new == [backend[b] EXCEPT !.at = "note", !.over = 0, !.age = 0, !.since = 0]
        <3>1. At(b, "send") /\ Metered(backend[b].call, backend[b].over) /\ UNCHANGED row
              /\ backend' = [backend EXCEPT ![b] = new]
            BY <2>5 DEF Send, Set
        <3>2. /\ DOMAIN new = {"at", "call", "tries", "over", "age", "since", "retry"}
              /\ new.at = "note" /\ new.call = backend[b].call /\ new.age = 0 /\ new.since = 0
            BY DEF Shapes
        <3> HIDE DEF new
        <3> QED BY <3>1, <3>2, MeteredKeepsIInv DEF Labels, Shapes
    <2>6. CASE Note(b)
        <3>1. At(b, "note") /\ Noted(backend[b].call) /\ UNCHANGED meter /\ After(b)
            BY <2>6 DEF Note
        <3>2. PICK new : /\ backend' = [backend EXCEPT ![b] = new]
                         /\ DOMAIN new = {"at", "call", "tries", "over", "age", "since", "retry"}
                         /\ new.at \in {"idle", "mark"} /\ new.age = 0 /\ new.since = 0
                         /\ new.at # "idle" => new.call \in Calls
            BY <3>1, AfterRests DEF At
        <3> QED BY <3>1, <3>2, NotedKeepsIInv DEF Labels
    <2>7. CASE Mark(b)
        BY <2>7, StopKeepsIInv DEF Mark, Aside
    <2>8. CASE Raised(b)
        BY <2>8, StopKeepsIInv DEF Raised, Aside
    <2> QED BY <1>5, <2>1, <2>2, <2>3, <2>4, <2>5, <2>6, <2>7, <2>8 DEF Loop, Step
<1>6. ASSUME NEW b \in Backends, Fails(b) PROVE IInv'
    <2>1. CASE ReportFails(b)
        BY <2>1, GotoKeepsIInv DEF ReportFails, Aside, At
    <2>2. CASE Crash(b)
        BY <2>2, StopKeepsIInv DEF Crash, Aside
    <2>3. ASSUME NEW landed \in BOOLEAN, RecordRaises(b, landed) PROVE IInv'
        <3> DEFINE new == [backend[b] EXCEPT !.at = "mark"]
        <3>1. At(b, "record") /\ Goto(b, "mark") /\ UNCHANGED meter
              /\ backend' = [backend EXCEPT ![b] = new]
            BY <2>3 DEF RecordRaises, Goto, Set
        <3>2. CASE UNCHANGED row
            BY <3>1, <3>2, GotoKeepsIInv DEF Aside, At
        <3>3. CASE ~UNCHANGED row
            <4>1. row[backend[b].call].state = "absent"
                  /\ \E s : Recorded(backend[b].call, s)
                BY <2>3, <3>3 DEF RecordRaises
            <4>2. /\ DOMAIN new = {"at", "call", "tries", "over", "age", "since", "retry"}
                  /\ new.at = "mark" /\ new.call = backend[b].call
                  /\ new.age = 0 /\ new.since = 0
                BY <3>1 DEF Shapes, At
            <4> HIDE DEF new
            <4> QED BY <3>1, <4>1, <4>2, RecordKeepsIInv
        <3> QED BY <3>2, <3>3
    <2>4. ASSUME NEW landed \in BOOLEAN, SendFails(b, landed) PROVE IInv'
        <3>1. At(b, "send") /\ UNCHANGED row /\ After(b)
              /\ (Metered(backend[b].call, backend[b].over) \/ UNCHANGED meter)
            BY <2>4 DEF SendFails
        <3>2. PICK new : /\ backend' = [backend EXCEPT ![b] = new]
                         /\ DOMAIN new = {"at", "call", "tries", "over", "age", "since", "retry"}
                         /\ new.at \in {"idle", "mark"} /\ new.age = 0 /\ new.since = 0
                         /\ new.at # "idle" => new.call = backend[b].call /\ new.call \in Calls
            BY <3>1, AfterRests DEF At
        <3>3. CASE UNCHANGED meter
            BY <3>1, <3>2, <3>3, MoveKeepsIInv DEF Aside, Labels
        <3>4. CASE Metered(backend[b].call, backend[b].over)
            BY <3>1, <3>2, <3>4, MeteredKeepsIInv DEF Labels
        <3> QED BY <3>1, <3>3, <3>4
    <2>5. ASSUME NEW landed \in BOOLEAN, NoteRaises(b, landed) PROVE IInv'
        <3>1. At(b, "note") /\ UNCHANGED meter /\ After(b)
              /\ (Noted(backend[b].call) \/ UNCHANGED row)
            BY <2>5 DEF NoteRaises
        <3>2. PICK new : /\ backend' = [backend EXCEPT ![b] = new]
                         /\ DOMAIN new = {"at", "call", "tries", "over", "age", "since", "retry"}
                         /\ new.at \in {"idle", "mark"} /\ new.age = 0 /\ new.since = 0
                         /\ new.at # "idle" => new.call \in Calls
            BY <3>1, AfterRests DEF At
        <3>3. CASE Noted(backend[b].call)
            BY <3>1, <3>2, <3>3, NotedKeepsIInv DEF Labels
        <3>4. CASE UNCHANGED row
            BY <3>1, <3>2, <3>4, MoveKeepsIInv DEF Aside, Labels
        <3> QED BY <3>1, <3>3, <3>4
    <2>6. ASSUME NEW landed \in BOOLEAN, MarkRaises(b, landed) PROVE IInv'
        BY <2>6, GotoKeepsIInv DEF MarkRaises, Aside, At
    <2> QED BY <1>6, <2>1, <2>2, <2>3, <2>4, <2>5, <2>6 DEF Fails
<1>7. CASE UNCHANGED vars
    BY <1>7 DEF vars, Shapes, Fresh, Waiting, Sending, SendOK, Noting, BilledOnce,
                ReportedIsBilled, At
<1> QED BY <1>1, <1>2, <1>3, <1>4, <1>5, <1>6, <1>7 DEF Next

-----------------------------------------------------------------------------
\* However many backends process a call's event, whatever stops them and where,
\* Stripe counts the call's overage at most once, and a reported row tells what
\* Stripe counted (services/usage.py, _report_overage and retry_pending_overage).
THEOREM ChargedOnce == Timely => (Spec => [](BilledOnce /\ ReportedIsBilled))
<1> SUFFICES ASSUME Timely PROVE Spec => [](BilledOnce /\ ReportedIsBilled)
    OBVIOUS
<1>1. IInv => BilledOnce /\ ReportedIsBilled
    BY DEF IInv
<1> QED BY InitIInv, StepIInv, <1>1, PTL DEF Spec

-----------------------------------------------------------------------------
(* What is settled stays                                                     *)

LEMMA StepSettled ==
    ASSUME Timely, IInv, [Next]_vars, NEW c \in Calls, row[c].state \in {"reported", "review"}
    PROVE  row'[c].state = row[c].state /\ row'[c].over = row[c].over
<1> DEFINE Kept == row'[c].state = row[c].state /\ row'[c].over = row[c].over
<1> USE DEF IInv
<1>1. CASE UNCHANGED row
    BY <1>1
<1>2. ASSUME NEW s, row' = Entered(s) PROVE Kept
    BY <1>2, EnteredRow
<1>3. ASSUME NEW d \in Calls, NEW s, Recorded(d, s), row[d].state = "absent" PROVE Kept
    BY <1>3, RecordedRow
<1>4. ASSUME NEW d \in Calls, Noted(d) PROVE Kept
    BY <1>4 DEF Noted, Shapes
<1>5. ASSUME NEW d \in Calls, row[d].state = "pending",
             row' = [row EXCEPT ![d].state = "review", ![d].age = 0]
      PROVE  Kept
    BY <1>5 DEF Shapes
<1>6. CASE Tick
    BY <1>6 DEF Tick, Shapes
<1>7. ASSUME NEW b \in Backends, Loop(b) PROVE Kept
    <2>1. CASE Record(b)
        BY <1>1, <1>3, <2>1 DEF Record, Shapes, At
    <2>2. CASE Note(b)
        BY <1>4, <2>2 DEF Note, Shapes, At
    <2>3. CASE \E d \in Calls : Review(b, d)
        BY <1>5, <2>3 DEF Review
    <2>4. CASE Send(b) \/ Mark(b) \/ Raised(b) \/ \E d \in Calls : Take(b, d) \/ Retry(b, d)
        BY <1>1, <2>4 DEF Send, Mark, Raised, Take, Retry
    <2> QED BY <1>7, <2>1, <2>2, <2>3, <2>4 DEF Loop, Step
<1>8. ASSUME NEW b \in Backends, Fails(b) PROVE Kept
    <2>1. CASE \E landed \in BOOLEAN : RecordRaises(b, landed)
        BY <1>1, <1>3, <2>1 DEF RecordRaises, Shapes, At
    <2>2. CASE \E landed \in BOOLEAN : NoteRaises(b, landed)
        BY <1>1, <1>4, <2>2 DEF NoteRaises, Shapes, At
    <2>3. CASE \/ ReportFails(b) \/ Crash(b)
               \/ \E landed \in BOOLEAN : SendFails(b, landed) \/ MarkRaises(b, landed)
        BY <1>1, <2>3 DEF ReportFails, Crash, SendFails, MarkRaises
    <2> QED BY <1>8, <2>1, <2>2, <2>3 DEF Fails
<1>9. ASSUME NEW s \in 0 .. period, NEW paid \in BOOLEAN, RollPeriod(s, paid) PROVE Kept
    BY <1>1, <1>2, <1>9 DEF RollPeriod
<1>10. CASE (\E d \in Calls : CallEnds(d)) \/ Renew \/ UNCHANGED vars
    BY <1>1, <1>10 DEF CallEnds, Renew, vars
<1> QED BY <1>6, <1>7, <1>8, <1>9, <1>10 DEF Next

\* The period on record never goes back, whoever moves it.
StartOK ==
    /\ DOMAIN tenant = {"start", "used", "reported"} /\ tenant.start \in Int
    /\ period \in Nat /\ tenant.start >= NoStart

LEMMA StepStart ==
    ASSUME Shapes, StartOK, [Next]_vars PROVE StartOK' /\ tenant'.start >= tenant.start
<1> DEFINE Goal == StartOK' /\ tenant'.start >= tenant.start
<1> USE DEF StartOK, NoStart
<1>1. CASE UNCHANGED <<tenant, period>>
    BY <1>1
<1>2. ASSUME NEW s \in Int, tenant' = EnteredTenant(s), s >= tenant.start, UNCHANGED period
      PROVE  Goal
    BY <1>2 DEF EnteredTenant
<1>3. ASSUME NEW s \in Int, tenant' = [tenant EXCEPT !.start = s], s >= tenant.start,
             UNCHANGED period
      PROVE  Goal
    BY <1>3
<1>4. ASSUME NEW d \in Calls, NEW s \in {NoStart} \union 0 .. period, Recorded(d, s), UNCHANGED period
      PROVE  Goal
    <2>1. ASSUME NEW t, NEW rows, NEW early, Counted(d, rows, t, early),
                 DOMAIN t = {"start", "used", "reported"}, t.start \in Int,
                 t.start >= tenant.start
          PROVE  Goal
        <3>1. tenant' = t \/ \E u : tenant' = [t EXCEPT !.used = u]
            BY <2>1 DEF Counted
        <3>2. DOMAIN tenant' = {"start", "used", "reported"} /\ tenant'.start = t.start
            BY <2>1, <3>1
        <3> QED BY <1>4, <2>1, <3>2
    <2>2. CASE s # NoStart /\ Moved(s)
        <3>1. DOMAIN EnteredTenant(s) = {"start", "used", "reported"}
              /\ EnteredTenant(s).start = s
            BY DEF EnteredTenant
        <3> QED BY <1>4, <2>1, <2>2, <3>1 DEF Recorded, Moved
    <2>3. CASE ~(s # NoStart /\ Moved(s)) /\ s # NoStart /\ tenant.start = NoStart
        <3> DEFINE t == [tenant EXCEPT !.start = s]
        <3>1. DOMAIN t = {"start", "used", "reported"} /\ t.start = s
            OBVIOUS
        <3>2. Counted(d, row, t, unknown)
            BY <1>4, <2>3 DEF Recorded
        <3> HIDE DEF t
        <3> QED BY <1>4, <2>1, <2>3, <3>1, <3>2
    <2>4. CASE ~(s # NoStart /\ Moved(s)) /\ ~(s # NoStart /\ tenant.start = NoStart)
        BY <1>4, <2>1, <2>4 DEF Recorded
    <2> QED BY <2>2, <2>3, <2>4
<1>5. ASSUME NEW d \in Calls, Noted(d), UNCHANGED period PROVE Goal
    BY <1>5 DEF Noted
<1>6. CASE Tick \/ Renew \/ (\E d \in Calls : CallEnds(d)) \/ UNCHANGED vars
    BY <1>6 DEF Tick, Renew, CallEnds, vars
<1>7. ASSUME NEW b \in Backends, Loop(b) PROVE Goal
    <2>1. CASE Record(b)
        BY <1>1, <1>4, <2>1 DEF Record, SeenStart, Shapes, At
    <2>2. CASE Note(b)
        BY <1>5, <2>2 DEF Note, Shapes, At
    <2>3. CASE \/ Send(b) \/ Mark(b) \/ Raised(b)
               \/ \E d \in Calls : Take(b, d) \/ Retry(b, d) \/ Review(b, d)
        BY <1>1, <2>3 DEF Send, Mark, Raised, Take, Retry, Review
    <2> QED BY <1>7, <2>1, <2>2, <2>3 DEF Loop, Step
<1>8. ASSUME NEW b \in Backends, Fails(b) PROVE Goal
    <2>1. CASE \E landed \in BOOLEAN : RecordRaises(b, landed)
        BY <1>1, <1>4, <2>1 DEF RecordRaises, SeenStart, Shapes, At
    <2>2. CASE \E landed \in BOOLEAN : NoteRaises(b, landed)
        BY <1>1, <1>5, <2>2 DEF NoteRaises, Shapes, At
    <2>3. CASE \/ ReportFails(b) \/ Crash(b)
               \/ \E landed \in BOOLEAN : SendFails(b, landed) \/ MarkRaises(b, landed)
        BY <1>1, <2>3 DEF ReportFails, Crash, SendFails, MarkRaises
    <2> QED BY <1>8, <2>1, <2>2, <2>3 DEF Fails
<1>9. ASSUME NEW s \in 0 .. period, NEW paid \in BOOLEAN, RollPeriod(s, paid) PROVE Goal
    <2>1. s \in Int /\ s >= 0 /\ UNCHANGED period
        BY <1>9 DEF RollPeriod
    <2>2. CASE Moved(s) \/ (paid /\ s > tenant.start)
        BY <1>2, <1>9, <2>1, <2>2 DEF RollPeriod, Moved
    <2>3. CASE ~(Moved(s) \/ (paid /\ s > tenant.start))
        <3>1. CASE tenant.start = NoStart
            BY <1>3, <1>9, <2>1, <2>3, <3>1 DEF RollPeriod
        <3>2. CASE tenant.start # NoStart
            BY <1>1, <1>9, <2>1, <2>3, <3>2 DEF RollPeriod
        <3> QED BY <3>1, <3>2
    <2> QED BY <2>2, <2>3
<1> QED BY <1>6, <1>7, <1>8, <1>9 DEF Next

\* A billing period only moves forward, and no rollover, repeated recording or
\* retry rewrites a call whose overage Stripe has or a person must look at
\* (migration 042: "A period only moves forward").
THEOREM SettledForEver == Timely => (Spec => SettledStays)
<1> SUFFICES ASSUME Timely PROVE Spec => SettledStays
    OBVIOUS
<1>1. Init => StartOK
    BY DEF Init, StartOK, NoStart
<1>2. IInv /\ StartOK /\ [Next]_vars => IInv' /\ StartOK'
    BY StepIInv, StepStart DEF IInv
<1>3. ASSUME IInv, StartOK, [Next]_vars
      PROVE  [ /\ tenant'.start >= tenant.start
               /\ \A c \in Calls : row[c].state \in {"reported", "review"} =>
                      row'[c].state = row[c].state /\ row'[c].over = row[c].over ]_vars
    BY <1>3, StepSettled, StepStart DEF IInv
<1> QED BY InitIInv, <1>1, <1>2, <1>3, PTL DEF Spec, SettledStays

-----------------------------------------------------------------------------
(* Sums                                                                      *)

\* A fold takes one element after the other, always the same one of a set.
First(s) == CHOOSE x \in s : TRUE
Folds(f, S, g) == g = [s \in SUBSET S |-> IF s = {} THEN 0 ELSE f[First(s)] + g[s \ {First(s)}]]
Fold(f, S) == CHOOSE g : Folds(f, S, g)

LEMMA TotalFolds == ASSUME NEW f, NEW S PROVE Total(f, S) = Fold(f, S)[S]
BY DEF Total, MapThenSumSet, MapThenFoldSet, Fold, Folds, First

LEMMA FirstIn == ASSUME NEW s, s # {} PROVE First(s) \in s
BY DEF First

\* Taking one element away leaves a smaller set.
LEMMA Smaller ==
    ASSUME NEW S, IsFiniteSet(S), NEW s \in SUBSET S, NEW x \in s
    PROVE  /\ s \ {x} \in SUBSET S
           /\ Cardinality(s) \in Nat /\ Cardinality(s \ {x}) \in Nat
           /\ Cardinality(s \ {x}) = Cardinality(s) - 1
<1>1. IsFiniteSet(s)
    BY FS_Subset
<1> QED BY <1>1, FS_RemoveElement, FS_CardinalityType

\* Every non-empty set of naturals has a least element.
LEMMA Least == ASSUME NEW T, T \subseteq Nat, T # {} PROVE \E n \in T : \A m \in T : n <= m
<1> DEFINE R == {p \in Nat \X Nat : p[1] < p[2]}
<1>1. \A m, n \in Nat : m < n => <<m, n>> \in R
    OBVIOUS
<1>2. IsWellFoundedOn(R, Nat)
    BY NatLessThanWellFounded, Zenon DEF OpToRel
<1> HIDE DEF R
<1>3. PICK n \in T : \A m \in T : <<m, n>> \notin R
    BY <1>2, WFMin
<1>4. \A m \in T : ~(m < n)
    BY <1>1, <1>3
<1> QED BY <1>4

\* There is such a fold of a finite set.
LEMMA FoldIs ==
    ASSUME NEW S, IsFiniteSet(S), NEW f
    PROVE  Folds(f, S, Fold(f, S))
<1> DEFINE Upto(n, g) == \A s \in SUBSET S : Cardinality(s) <= n =>
                            g[s] = IF s = {} THEN 0 ELSE f[First(s)] + g[s \ {First(s)}]
           Again(g) == [s \in SUBSET S |-> IF s = {} THEN 0 ELSE f[First(s)] + g[s \ {First(s)}]]
           Bad == {n \in Nat : \A g : ~Upto(n, Again(g))}
<1>c. \A s \in SUBSET S : IsFiniteSet(s) /\ Cardinality(s) \in Nat /\ (Cardinality(s) = 0 <=> s = {})
    BY FS_Subset, FS_CardinalityType, FS_EmptySet
<1>1. Bad = {}
    <2> SUFFICES ASSUME Bad # {} PROVE FALSE
        OBVIOUS
    <2>1. PICK n \in Bad : \A m \in Bad : n <= m
        <3>1. Bad \subseteq Nat
            OBVIOUS
        <3> HIDE DEF Bad
        <3> QED BY <3>1, Least
    <2>2. n # 0
        <3> SUFFICES ASSUME n = 0 PROVE FALSE
            OBVIOUS
        <3>1. ASSUME NEW g PROVE Upto(0, Again(g))
            <4>1. \A s \in SUBSET S : Cardinality(s) <= 0 => s = {}
                BY <1>c
            <4>2. Again(g)[{}] = 0
                OBVIOUS
            <4> HIDE DEF Again
            <4> QED BY <4>1, <4>2
        <3> HIDE DEF Upto, Again
        <3> QED BY <2>1, <3>1
    <2>3. n - 1 \in Nat /\ n - 1 \notin Bad /\ n \in Nat
        <3>1. n \in Nat
            OBVIOUS
        <3> HIDE DEF Bad
        <3> QED BY <2>1, <2>2, <3>1
    <2>4. PICK g : Upto(n - 1, Again(g))
        <3> HIDE DEF Upto, Again
        <3> QED BY <2>3
    <2>5. Upto(n, Again(Again(g)))
        <3> DEFINE h == Again(g)
        <3>0. Upto(n - 1, h)
            BY <2>4
        <3> HIDE DEF h
        <3> SUFFICES ASSUME NEW s \in SUBSET S, Cardinality(s) <= n
                     PROVE  Again(h)[s] = IF s = {} THEN 0 ELSE f[First(s)] + Again(h)[s \ {First(s)}]
            BY DEF h
        <3>1. CASE s = {}
            BY <3>1
        <3>2. CASE s # {}
            <4> DEFINE t == s \ {First(s)}
            <4>1. t \in SUBSET S /\ Cardinality(t) <= n - 1
                BY <2>3, <3>2, <1>c, FirstIn, Smaller
            <4>2. h[t] = IF t = {} THEN 0 ELSE f[First(t)] + h[t \ {First(t)}]
                BY <3>0, <4>1
            <4>3. Again(h)[t] = IF t = {} THEN 0 ELSE f[First(t)] + h[t \ {First(t)}]
                BY <4>1
            <4>4. Again(h)[s] = f[First(s)] + h[t]
                BY <3>2
            <4> QED BY <3>2, <4>2, <4>3, <4>4
        <3> QED BY <3>1, <3>2
    <2> HIDE DEF Upto, Again
    <2> QED BY <2>3, <2>5
<1>2. \E g : Folds(f, S, g)
    <2>1. PICK g : Upto(Cardinality(S), Again(g))
        <3>1. Cardinality(S) \in Nat
            BY FS_CardinalityType
        <3> HIDE DEF Upto, Again
        <3> QED BY <1>1, <3>1
    <2> DEFINE h == Again(g)
    <2>2. h = [s \in SUBSET S |-> h[s]]
        OBVIOUS
    <2>3. \A s \in SUBSET S : Cardinality(s) <= Cardinality(S)
        BY FS_Subset
    <2>4. \A s \in SUBSET S : h[s] = IF s = {} THEN 0 ELSE f[First(s)] + h[s \ {First(s)}]
        BY <2>1, <2>3
    <2> HIDE DEF h
    <2>5. h = [s \in SUBSET S |-> IF s = {} THEN 0 ELSE f[First(s)] + h[s \ {First(s)}]]
        BY <2>2, <2>4
    <2> QED BY <2>5 DEF Folds
<1> HIDE DEF Bad, Upto, Again
<1> QED BY <1>2 DEF Fold

\* A non-empty set of finite sets has a member such that no other is smaller.
LEMMA Smallest ==
    ASSUME NEW S, IsFiniteSet(S), NEW Bad \in SUBSET (SUBSET S), Bad # {}
    PROVE  \E s \in Bad : \A x \in s : s \ {x} \notin Bad
<1> DEFINE T == {Cardinality(s) : s \in Bad}
<1>1. T \subseteq Nat /\ T # {}
    <2>1. \A s \in SUBSET S : Cardinality(s) \in Nat
        BY FS_Subset, FS_CardinalityType
    <2> QED BY <2>1
<1>2. PICK n \in T : \A m \in T : n <= m
    <2> HIDE DEF T
    <2> QED BY <1>1, Least
<1>3. PICK s \in Bad : n = Cardinality(s)
    OBVIOUS
<1>4. ASSUME NEW x \in s, s \ {x} \in Bad PROVE FALSE
    <2>1. n <= Cardinality(s \ {x})
        BY <1>2, <1>4
    <2> QED BY <1>3, <2>1, Smaller
<1> QED BY <1>4

\* What a fold of a finite set says of each of its subsets.
LEMMA FoldAt ==
    ASSUME NEW S, IsFiniteSet(S), NEW f
    PROVE  /\ Fold(f, S)[{}] = 0
           /\ \A s \in SUBSET S : s # {} =>
                /\ First(s) \in s
                /\ Fold(f, S)[s] = f[First(s)] + Fold(f, S)[s \ {First(s)}]
<1> DEFINE g == Fold(f, S)
<1>1. g = [s \in SUBSET S |-> IF s = {} THEN 0 ELSE f[First(s)] + g[s \ {First(s)}]]
    BY FoldIs DEF Folds
<1> HIDE DEF g
<1>2. g[{}] = 0
    BY <1>1
<1>3. \A s \in SUBSET S : s # {} => g[s] = f[First(s)] + g[s \ {First(s)}]
    BY <1>1
<1> QED BY <1>2, <1>3, FirstIn DEF g

\* Functions that agree on a set have the same sum of it, and a smaller fold
\* says what a larger one does.
LEMMA FoldSame ==
    ASSUME NEW S, IsFiniteSet(S), NEW B \in SUBSET S, NEW f, NEW g,
           \A x \in B : f[x] = g[x]
    PROVE  Fold(f, B)[B] = Fold(g, S)[B]
<1> DEFINE Bad == {s \in SUBSET B : Fold(f, B)[s] # Fold(g, S)[s]}
<1>f. IsFiniteSet(B)
    BY FS_Subset
<1>1. Bad = {}
    <2> SUFFICES ASSUME Bad # {} PROVE FALSE
        OBVIOUS
    <2>1. Bad \in SUBSET (SUBSET B)
        OBVIOUS
    <2>2. PICK s \in Bad : \A x \in s : s \ {x} \notin Bad
        <3> HIDE DEF Bad
        <3> QED BY <1>f, <2>1, Smallest
    <2>3. CASE s = {}
        BY <1>f, <2>3, FoldAt
    <2>4. CASE s # {}
        <3>0. s \in SUBSET B /\ s \in SUBSET S
            OBVIOUS
        <3>1. /\ First(s) \in s /\ s \in SUBSET B /\ s \in SUBSET S
              /\ Fold(f, B)[s] = f[First(s)] + Fold(f, B)[s \ {First(s)}]
              /\ Fold(g, S)[s] = g[First(s)] + Fold(g, S)[s \ {First(s)}]
            <4> HIDE DEF Bad
            <4>1. Fold(f, B)[s] = f[First(s)] + Fold(f, B)[s \ {First(s)}] /\ First(s) \in s
                BY <1>f, <2>4, <3>0, FoldAt
            <4>2. Fold(g, S)[s] = g[First(s)] + Fold(g, S)[s \ {First(s)}]
                BY <2>4, <3>0, FoldAt
            <4> QED BY <3>0, <4>1, <4>2
        <3>2. Fold(f, B)[s \ {First(s)}] = Fold(g, S)[s \ {First(s)}]
            BY <2>2, <3>1
        <3>3. f[First(s)] = g[First(s)]
            BY <3>1
        <3>4. Fold(f, B)[s] = Fold(g, S)[s]
            BY <3>1, <3>2, <3>3
        <3> QED BY <3>4
    <2> QED BY <2>3, <2>4
<1> HIDE DEF Bad
<1>2. ASSUME Fold(f, B)[B] # Fold(g, S)[B] PROVE B \in Bad
    BY <1>2 DEF Bad
<1> QED BY <1>1, <1>2

\* A fold of naturals is a natural.
LEMMA FoldType ==
    ASSUME NEW S, IsFiniteSet(S), NEW f, \A x \in S : f[x] \in Nat
    PROVE  \A s \in SUBSET S : Fold(f, S)[s] \in Nat
<1> DEFINE Bad == {s \in SUBSET S : Fold(f, S)[s] \notin Nat}
<1>1. ASSUME Bad # {} PROVE FALSE
    <2>1. Bad \in SUBSET (SUBSET S)
        OBVIOUS
    <2>2. PICK s \in Bad : \A x \in s : s \ {x} \notin Bad
        <3> HIDE DEF Bad
        <3> QED BY <1>1, <2>1, Smallest
    <2>3. CASE s = {}
        BY <2>3, FoldAt
    <2>4. CASE s # {}
        <3>1. /\ First(s) \in s /\ s \in SUBSET S
              /\ Fold(f, S)[s] = f[First(s)] + Fold(f, S)[s \ {First(s)}]
            BY <2>4, FoldAt
        <3>2. Fold(f, S)[s \ {First(s)}] \in Nat /\ f[First(s)] \in Nat
            BY <2>2, <3>1
        <3>3. Fold(f, S)[s] \in Nat
            BY <3>1, <3>2
        <3> QED BY <3>3
    <2> QED BY <2>3, <2>4
<1> QED BY <1>1

\* It does not matter which element a fold takes first.
LEMMA FoldAny ==
    ASSUME NEW S, IsFiniteSet(S), NEW f, \A x \in S : f[x] \in Nat
    PROVE  \A s \in SUBSET S : \A x \in s : Fold(f, S)[s] = f[x] + Fold(f, S)[s \ {x}]
<1> DEFINE F == Fold(f, S)
           Bad == {s \in SUBSET S : \E x \in s : F[s] # f[x] + F[s \ {x}]}
<1>n. \A s \in SUBSET S : F[s] \in Nat
    BY FoldType
<1>a. \A s \in SUBSET S : s # {} => First(s) \in s /\ F[s] = f[First(s)] + F[s \ {First(s)}]
    BY FoldAt
<1> HIDE DEF F
<1>1. ASSUME Bad # {} PROVE FALSE
    <2>1. Bad \in SUBSET (SUBSET S)
        OBVIOUS
    <2>2. PICK s \in Bad : \A x \in s : s \ {x} \notin Bad
        <3> HIDE DEF Bad
        <3> QED BY <1>1, <2>1, Smallest
    <2>3. PICK x \in s : F[s] # f[x] + F[s \ {x}]
        OBVIOUS
    <2> DEFINE y == First(s)
               both == (s \ {x}) \ {y}
    <2>4. y \in s /\ s \in SUBSET S /\ F[s] = f[y] + F[s \ {y}]
        BY <1>a
    <2>5. x # y
        BY <2>3, <2>4
    <2> HIDE DEF y
    <2>6. F[s \ {y}] = f[x] + F[both]
        <3>1. s \ {y} \notin Bad /\ s \ {y} \in SUBSET S /\ x \in s \ {y}
            BY <2>2, <2>4, <2>5
        <3>2. (s \ {y}) \ {x} = both
            OBVIOUS
        <3>3. F[s \ {y}] = f[x] + F[(s \ {y}) \ {x}]
            BY <3>1
        <3> QED BY <3>2, <3>3
    <2>7. F[s \ {x}] = f[y] + F[both]
        <3>1. s \ {x} \notin Bad /\ s \ {x} \in SUBSET S /\ y \in s \ {x}
            BY <2>2, <2>4, <2>5
        <3> QED BY <3>1
    <2>8. f[x] \in Nat /\ f[y] \in Nat /\ F[both] \in Nat /\ F[s \ {y}] \in Nat /\ F[s \ {x}] \in Nat
        BY <1>n, <2>4
    <2> HIDE DEF Bad, both
    <2> QED BY <2>3, <2>4, <2>6, <2>7, <2>8
<1> HIDE DEF Bad
<1>2. ASSUME NEW s \in SUBSET S, NEW x \in s, F[s] # f[x] + F[s \ {x}] PROVE s \in Bad
    BY <1>2 DEF Bad
<1>3. \A s \in SUBSET S : \A x \in s : F[s] = f[x] + F[s \ {x}]
    BY <1>1, <1>2
<1> QED BY <1>3 DEF F

\* The sum of no calls, of one more call, and of calls that count the same.
LEMMA TotalEmpty == ASSUME NEW f PROVE Total(f, {}) = 0
BY TotalFolds, FoldAt, FS_EmptySet

LEMMA TotalType ==
    ASSUME NEW S, IsFiniteSet(S), NEW f, \A x \in S : f[x] \in Nat PROVE Total(f, S) \in Nat
BY TotalFolds, FoldType

LEMMA TotalAdd ==
    ASSUME NEW S, IsFiniteSet(S), NEW f, NEW c, c \notin S, \A x \in S \union {c} : f[x] \in Nat
    PROVE  Total(f, S \union {c}) = Total(f, S) + f[c]
<1> DEFINE T == S \union {c}
<1>1. IsFiniteSet(T) /\ T \ {c} = S
    BY FS_AddElement
<1>2. Fold(f, T)[T] = f[c] + Fold(f, T)[S]
    BY <1>1, FoldAny
<1>3. Fold(f, T)[S] = Fold(f, S)[S]
    BY <1>1, FoldSame
<1>4. Fold(f, S)[S] \in Nat /\ f[c] \in Nat
    BY FoldType
<1> QED BY <1>2, <1>3, <1>4, TotalFolds

LEMMA TotalSame ==
    ASSUME NEW S, IsFiniteSet(S), NEW f, NEW g, \A x \in S : f[x] = g[x]
    PROVE  Total(f, S) = Total(g, S)
BY TotalFolds, FoldSame

-----------------------------------------------------------------------------
(* The ledger and its counters                                               *)

RowRec     == [state : States, counted : BOOLEAN, over : Nat, age : 0 .. Dedupe]
TenantRec  == [start : NoStart .. MaxPeriods, used : Nat, reported : Nat]
EventRec   == [status : Statuses, attempts : 0 .. MaxAttempts]
MeterRec   == [times : Nat, minutes : Nat, age : 0 .. Dedupe]
BackendRec == [at : Labels, call : Calls \union {NoCall}, tries : 0 .. MaxAttempts, over : Nat,
               age : 0 .. Dedupe, since : Nat, retry : BOOLEAN]

\* The calls a tenant's two totals are about.
OfPeriod(rows, start, un) == {c \in Calls : rows[c].counted /\ (ended[c] >= start \/ c \in un)}
Reported(rows, start) == {c \in Calls : rows[c].state = "reported" /\ ended[c] >= start}
Overs(rows)  == [c \in Calls |-> rows[c].over]
Listed(rows) == {c \in Calls : rows[c].state # "absent"}

Match(rows, t, un) ==
    /\ t.used = Total(Minutes, OfPeriod(rows, t.start, un))
    /\ un = {} => t.reported = Total(Overs(rows), Reported(rows, t.start))

\* The totals match rows of which only finitely many exist. A call without a row
\* counts nowhere, a call with overage is counted, and as long as no start is
\* known every counted call is one that was counted without it.
Ledger(rows, t, un) ==
    /\ rows \in [Calls -> RowRec] /\ t \in TenantRec /\ un \subseteq Calls
    /\ IsFiniteSet(Listed(rows))
    /\ \A c \in Calls : /\ rows[c].state = "absent" => ~rows[c].counted /\ c \notin un
                        /\ rows[c].state \in {"pending", "reported"} => rows[c].counted
                        /\ t.start = NoStart /\ rows[c].counted => c \in un
    /\ Match(rows, t, un)

\* Only a call whose report is in the queue has a row, or a backend at work on it.
Queued ==
    /\ \A c \in Calls : row[c].state # "absent" => event[c].status # "absent"
    /\ \A c \in Calls : event[c].status \in {"absent", "pending"} => event[c].attempts < MaxAttempts
    /\ \A b \in Backends : ~At(b, "idle") =>
         backend[b].call \in Calls /\ event[backend[b].call].status # "absent"

Dated == ended \in [Calls -> 0 .. MaxPeriods] /\ period \in 0 .. MaxPeriods

Counts ==
    /\ event \in [Calls -> EventRec] /\ meter \in [Calls -> MeterRec]
    /\ backend \in [Backends -> BackendRec] /\ upsets \in 0 .. MaxUpsets
    /\ Dated /\ Queued /\ Ledger(row, tenant, unknown)

LEMMA CountsSays == Counts => TypeOK /\ CountersMatchLedger
BY DEF Counts, Dated, Ledger, Match, OfPeriod, Reported, Overs, TypeOK, CountersMatchLedger,
       RowRec, TenantRec, EventRec, MeterRec, BackendRec

LEMMA InitCounts == Init => Counts
<1> SUFFICES ASSUME Init PROVE Counts
    OBVIOUS
<1>1. PICK s \in {NoStart, 0} : tenant = [start |-> s, used |-> 0, reported |-> 0]
    BY DEF Init
<1>2. OfPeriod(row, tenant.start, unknown) = {} /\ Reported(row, tenant.start) = {}
      /\ Listed(row) = {}
    BY DEF Init, OfPeriod, Reported, Listed, NoRow
<1>3. Match(row, tenant, unknown)
    BY <1>1, <1>2, TotalEmpty DEF Match
<1>4. row \in [Calls -> RowRec] /\ tenant \in TenantRec
    BY <1>1, ConstantsAssumption DEF Init, NoRow, RowRec, TenantRec, NoStart, States
<1>5. Ledger(row, tenant, unknown)
    BY <1>2, <1>3, <1>4, FS_EmptySet DEF Init, Ledger, NoRow
<1>6. event \in [Calls -> EventRec] /\ meter \in [Calls -> MeterRec] /\ upsets \in 0 .. MaxUpsets
    BY ConstantsAssumption DEF Init, EventRec, MeterRec, Statuses
<1>7. backend \in [Backends -> BackendRec]
    BY ConstantsAssumption DEF Init, BackendRec, Idle, Labels
<1>8. Dated /\ Queued
    BY ConstantsAssumption DEF Init, Dated, Queued, NoRow, Idle, At
<1> QED BY <1>5, <1>6, <1>7, <1>8 DEF Counts

-----------------------------------------------------------------------------
(* What each database step does to the ledger                                *)

\* Every set the totals are about is a set of rows, hence finite.
LEMMA SetsFinite ==
    ASSUME NEW rows, NEW t, NEW un, Ledger(rows, t, un), NEW start
    PROVE  /\ IsFiniteSet(OfPeriod(rows, start, un)) /\ IsFiniteSet(Reported(rows, start))
           /\ \A c \in Calls : Minutes[c] \in Nat /\ Overs(rows)[c] \in Nat
<1>1. OfPeriod(rows, start, un) \subseteq Listed(rows)
    BY DEF Ledger, OfPeriod, Listed
<1>2. Reported(rows, start) \subseteq Listed(rows)
    BY DEF Reported, Listed
<1>3. IsFiniteSet(Listed(rows))
    BY DEF Ledger
<1>4. \A c \in Calls : Minutes[c] \in Nat /\ Overs(rows)[c] \in Nat
    BY ConstantsAssumption DEF Ledger, Overs, RowRec
<1> QED BY <1>1, <1>2, <1>3, <1>4, FS_Subset

\* A rollover: the new totals are sums over the rows it keeps.
LEMMA LedgerEnters ==
    ASSUME Counts, NEW s \in 0 .. period
    PROVE  /\ Ledger(Entered(s), EnteredTenant(s), {})
           /\ Listed(Entered(s)) = Listed(row)
<1> DEFINE rows == Entered(s)
           t == EnteredTenant(s)
           keep == {c \in Calls : InPeriod(c, s)}
<1>r. row \in [Calls -> RowRec] /\ s \in 0 .. MaxPeriods /\ ended \in [Calls -> 0 .. MaxPeriods]
    BY ConstantsAssumption DEF Counts, Dated, Ledger
<1>l. Ledger(row, tenant, unknown)
    BY DEF Counts
<1>1. rows \in [Calls -> RowRec]
    <2> SUFFICES ASSUME NEW c \in Calls PROVE rows[c] \in RowRec
        BY DEF Entered
    <2>1. row[c] \in RowRec /\ 0 \in 0 .. Dedupe /\ 0 \in Nat /\ "none" \in States
        BY <1>r, ConstantsAssumption DEF States
    <2>2. [row[c] EXCEPT !.counted = TRUE] \in RowRec
        BY <2>1 DEF RowRec
    <2>3. [row[c] EXCEPT !.counted = TRUE, !.over = 0, !.state = "none", !.age = 0] \in RowRec
        BY <2>1 DEF RowRec
    <2> QED BY <2>1, <2>2, <2>3 DEF Entered
<1>2. \A c \in Calls :
        /\ rows[c].state = "absent" <=> row[c].state = "absent"
        /\ rows[c].state = "reported" <=> row[c].state = "reported"
        /\ rows[c].state = "reported" => rows[c].over = row[c].over
        /\ rows[c].counted = (InPeriod(c, s) \/ row[c].counted)
        /\ InPeriod(c, s) = (row[c].state # "absent" /\ ended[c] >= s)
        /\ rows[c].state = "pending" => row[c].state = "pending"
    BY <1>r DEF Entered, RowRec, InPeriod
<1>3. Listed(rows) = Listed(row)
    BY <1>2 DEF Listed
<1>4. OfPeriod(rows, s, {}) = keep
    BY <1>2, <1>l DEF OfPeriod, Ledger
<1>5. Reported(rows, s) = {c \in keep : row[c].state = "reported"}
    BY <1>2 DEF Reported
<1>6. t.start = s /\ t.used = Total(Minutes, keep)
      /\ t.reported = Total(Overs(row), Reported(rows, s))
    BY <1>5 DEF EnteredTenant, Overs
<1>7. IsFiniteSet(keep) /\ IsFiniteSet(Reported(rows, s)) /\ IsFiniteSet(Listed(row))
    <2>1. keep \subseteq Listed(row) /\ Reported(rows, s) \subseteq Listed(row)
        BY <1>2 DEF Listed, Reported
    <2>2. IsFiniteSet(Listed(row))
        BY <1>l DEF Ledger
    <2> QED BY <2>1, <2>2, FS_Subset
<1>8. t.used \in Nat /\ t.reported \in Nat
    <2>1. \A c \in Calls : Minutes[c] \in Nat /\ Overs(row)[c] \in Nat
        BY <1>l, SetsFinite
    <2>2. \A c \in keep : Minutes[c] \in Nat
        BY <2>1
    <2>3. \A c \in Reported(rows, s) : Overs(row)[c] \in Nat
        BY <2>1 DEF Reported
    <2> HIDE DEF keep, t, rows
    <2> QED BY <1>6, <1>7, <2>2, <2>3, TotalType
<1>9. Total(Overs(row), Reported(rows, s)) = Total(Overs(rows), Reported(rows, s))
    <2>1. \A c \in Reported(rows, s) : Overs(row)[c] = Overs(rows)[c]
        BY <1>2 DEF Reported, Overs
    <2> HIDE DEF rows
    <2> QED BY <1>7, <2>1, TotalSame
<1>10. t \in TenantRec
    <2>1. t = [start |-> t.start, used |-> t.used, reported |-> t.reported]
        BY DEF EnteredTenant
    <2>2. t.start \in NoStart .. MaxPeriods
        BY <1>r, <1>6 DEF NoStart
    <2> HIDE DEF t
    <2> QED BY <1>8, <2>1, <2>2 DEF TenantRec
<1>11. Match(rows, t, {})
    <2> HIDE DEF rows, t, keep
    <2> QED BY <1>4, <1>6, <1>9 DEF Match
<1>12. t.start # NoStart
    BY <1>r, <1>6 DEF NoStart
<1>13. \A c \in Calls : /\ rows[c].state = "absent" => ~rows[c].counted
                        /\ rows[c].state \in {"pending", "reported"} => rows[c].counted
    BY <1>2, <1>l DEF Ledger
<1> HIDE DEF rows, t, keep
<1>14. Ledger(rows, t, {})
    BY <1>1, <1>3, <1>7, <1>10, <1>11, <1>12, <1>13 DEF Ledger
<1> QED BY <1>3, <1>14 DEF rows, t

\* A start becomes known: every call counted so far stays in the balance.
LEMMA LedgerStarts ==
    ASSUME Counts, tenant.start = NoStart, NEW s \in 0 .. period
    PROVE  Ledger(row, [tenant EXCEPT !.start = s], unknown)
<1> DEFINE t == [tenant EXCEPT !.start = s]
<1>1. Ledger(row, tenant, unknown) /\ Dated
    BY DEF Counts
<1>2. t \in TenantRec /\ t.start = s /\ t.start # NoStart
      /\ t.used = tenant.used /\ t.reported = tenant.reported
    BY <1>1, ConstantsAssumption DEF Ledger, Dated, TenantRec, NoStart
<1>3. OfPeriod(row, tenant.start, unknown) = OfPeriod(row, s, unknown)
    BY <1>1 DEF Ledger, OfPeriod, Dated, NoStart
<1>4. unknown = {} => Reported(row, tenant.start) = Reported(row, s)
    BY <1>1 DEF Ledger, Reported
<1>5. Match(row, t, unknown)
    <2> HIDE DEF t
    <2> QED BY <1>1, <1>2, <1>3, <1>4 DEF Ledger, Match
<1> HIDE DEF t
<1>6. Ledger(row, t, unknown)
    BY <1>1, <1>2, <1>5 DEF Ledger
<1> QED BY <1>6 DEF t

\* A call without a row is recorded: it is in the balance exactly when its row
\* counts it, and nothing of it has been reported.
LEMMA LedgerCounts ==
    ASSUME Dated, NEW rows, NEW t, NEW un, Ledger(rows, t, un),
           NEW c \in Calls, rows[c].state = "absent", Counted(c, rows, t, un)
    PROVE  Ledger(row', tenant', unknown') /\ Listed(row') = Listed(rows) \union {c}
<1>1. /\ rows \in [Calls -> RowRec] /\ t \in TenantRec /\ un \subseteq Calls
      /\ ~rows[c].counted /\ c \notin un
      /\ ended[c] \in Nat /\ Minutes[c] \in Nat
    BY ConstantsAssumption DEF Ledger, Dated
<1>2. PICK counts \in BOOLEAN, over \in Nat :
        /\ row' = [rows EXCEPT ![c] = NewRow(counts, over)]
        /\ over > 0 => counts
        /\ counts <=> ended[c] >= t.start
        /\ tenant' = [t EXCEPT !.used = @ + (IF counts THEN Minutes[c] ELSE 0)]
    <2>1. CASE ended[c] >= t.start
        <3>1. Overage(t, c) \in Nat
            BY <1>1, ConstantsAssumption DEF Overage, Over, TenantRec
        <3> QED BY <2>1, <3>1 DEF Counted
    <2>2. CASE ~(ended[c] >= t.start)
        <3>1. tenant' = t /\ row' = [rows EXCEPT ![c] = NewRow(FALSE, 0)]
            BY <2>2 DEF Counted
        <3>2. t = [t EXCEPT !.used = @ + 0]
            BY <1>1 DEF TenantRec
        <3>3. tenant' = [t EXCEPT !.used = @ + (IF FALSE THEN Minutes[c] ELSE 0)]
            BY <3>1, <3>2
        <3>4. ~(0 > 0) /\ 0 \in Nat /\ FALSE \in BOOLEAN
            OBVIOUS
        <3> QED BY <2>2, <3>1, <3>3, <3>4
    <2> QED BY <2>1, <2>2
<1>3. /\ NewRow(counts, over) \in RowRec /\ NewRow(counts, over).counted = counts
      /\ NewRow(counts, over).state \in {"pending", "none"}
      /\ NewRow(counts, over).state = "pending" => counts
    BY <1>2, ConstantsAssumption DEF NewRow, RowRec, States
<1>4. /\ row' \in [Calls -> RowRec] /\ row'[c] = NewRow(counts, over)
      /\ \A d \in Calls \ {c} : row'[d] = rows[d]
    BY <1>1, <1>2, <1>3
<1>5. /\ tenant' \in TenantRec /\ tenant'.start = t.start /\ tenant'.reported = t.reported
      /\ tenant'.used = t.used + (IF counts THEN Minutes[c] ELSE 0)
    <2>1. t.used + (IF counts THEN Minutes[c] ELSE 0) \in Nat
        BY <1>1 DEF TenantRec
    <2> QED BY <1>1, <1>2, <2>1 DEF TenantRec
<1>6. unknown' = un \union (IF t.start = NoStart THEN {c} ELSE {})
    BY DEF Counted
<1>7. t.start = NoStart => counts
    BY <1>1, <1>2 DEF NoStart
<1>8. Listed(row') = Listed(rows) \union {c} /\ IsFiniteSet(Listed(row'))
    <2>1. Listed(row') = Listed(rows) \union {c}
        BY <1>3, <1>4 DEF Listed
    <2>2. IsFiniteSet(Listed(rows))
        BY DEF Ledger
    <2> QED BY <2>1, <2>2, FS_AddElement
<1>9. OfPeriod(row', t.start, unknown') =
          OfPeriod(rows, t.start, un) \union (IF counts THEN {c} ELSE {})
    <2>1. \A d \in Calls \ {c} : d \in unknown' <=> d \in un
        BY <1>6
    <2>2. \A d \in Calls \ {c} :
            d \in OfPeriod(row', t.start, unknown') <=> d \in OfPeriod(rows, t.start, un)
        BY <1>4, <2>1 DEF OfPeriod
    <2>3. c \notin OfPeriod(rows, t.start, un)
        BY <1>1 DEF OfPeriod
    <2>4. c \in OfPeriod(row', t.start, unknown') <=> counts
        BY <1>2, <1>3, <1>4 DEF OfPeriod
    <2>5. OfPeriod(row', t.start, unknown') \subseteq Calls /\ OfPeriod(rows, t.start, un) \subseteq Calls
        BY DEF OfPeriod
    <2> QED BY <2>2, <2>3, <2>4, <2>5
<1>10. tenant'.used = Total(Minutes, OfPeriod(row', t.start, unknown'))
    <2> DEFINE S == OfPeriod(rows, t.start, un)
    <2>1. c \notin S /\ IsFiniteSet(S) /\ S \subseteq Calls /\ \A d \in Calls : Minutes[d] \in Nat
        <3>1. c \notin S /\ S \subseteq Calls
            BY <1>1 DEF OfPeriod
        <3> QED BY <3>1, SetsFinite
    <2>2. t.used = Total(Minutes, S)
        BY DEF Ledger, Match
    <2>3. Total(Minutes, S \union {c}) = Total(Minutes, S) + Minutes[c]
        <3> HIDE DEF S
        <3>1. \A d \in S \union {c} : Minutes[d] \in Nat
            BY <2>1
        <3> QED BY <2>1, <3>1, TotalAdd
    <2>4. CASE counts
        BY <1>5, <1>9, <2>2, <2>3, <2>4
    <2>5. CASE ~counts
        <3>1. OfPeriod(row', t.start, unknown') = S
            BY <1>9, <2>5
        <3>2. t.used \in Nat
            BY <1>1 DEF TenantRec
        <3> QED BY <1>5, <2>2, <2>5, <3>1, <3>2
    <2> QED BY <1>2, <2>4, <2>5
<1>11. ASSUME unknown' = {} PROVE tenant'.reported = Total(Overs(row'), Reported(row', t.start))
    <2>1. un = {}
        BY <1>6, <1>11
    <2>2. Reported(row', t.start) = Reported(rows, t.start)
        BY <1>3, <1>4 DEF Reported
    <2>3. \A d \in Reported(rows, t.start) : Overs(rows)[d] = Overs(row')[d]
        BY <1>4 DEF Reported, Overs
    <2>4. Total(Overs(rows), Reported(rows, t.start)) = Total(Overs(row'), Reported(rows, t.start))
        BY <2>3, SetsFinite, TotalSame
    <2>5. t.reported = Total(Overs(rows), Reported(rows, t.start))
        BY <2>1 DEF Ledger, Match
    <2> QED BY <1>5, <2>2, <2>4, <2>5
<1>12. Match(row', tenant', unknown')
    BY <1>5, <1>10, <1>11 DEF Match
<1>13. unknown' \subseteq Calls
    BY <1>1, <1>6
<1>14. ASSUME NEW d \in Calls
       PROVE  /\ row'[d].state = "absent" => ~row'[d].counted /\ d \notin unknown'
              /\ row'[d].state \in {"pending", "reported"} => row'[d].counted
              /\ tenant'.start = NoStart /\ row'[d].counted => d \in unknown'
    <2>1. CASE d = c
        BY <1>3, <1>4, <1>5, <1>6, <2>1
    <2>2. CASE d # c
        BY <1>4, <1>5, <1>6, <2>2 DEF Ledger
    <2> QED BY <2>1, <2>2
<1> QED BY <1>4, <1>5, <1>8, <1>12, <1>13, <1>14 DEF Ledger

\* A recording, after a rollover, with the first start known, or neither.
LEMMA LedgerRecords ==
    ASSUME Counts, NEW c \in Calls, row[c].state = "absent", NEW s \in SeenStart, Recorded(c, s)
    PROVE  Ledger(row', tenant', unknown') /\ Listed(row') = Listed(row) \union {c}
<1>1. Dated /\ Ledger(row, tenant, unknown)
    BY DEF Counts
<1>2. s # NoStart => s \in 0 .. period
    BY DEF SeenStart
<1>3. CASE s # NoStart /\ Moved(s)
    <2>1. Counted(c, Entered(s), EnteredTenant(s), {})
        BY <1>3 DEF Recorded
    <2>2. Ledger(Entered(s), EnteredTenant(s), {}) /\ Listed(Entered(s)) = Listed(row)
        BY <1>2, <1>3, LedgerEnters
    <2>3. Entered(s)[c].state = "absent"
        BY <2>2 DEF Listed
    <2> QED BY <1>1, <2>1, <2>2, <2>3, LedgerCounts
<1>4. CASE ~(s # NoStart /\ Moved(s)) /\ s # NoStart /\ tenant.start = NoStart
    <2>1. Counted(c, row, [tenant EXCEPT !.start = s], unknown)
        BY <1>4 DEF Recorded
    <2>2. Ledger(row, [tenant EXCEPT !.start = s], unknown)
        BY <1>2, <1>4, LedgerStarts
    <2> QED BY <1>1, <2>1, <2>2, LedgerCounts
<1>5. CASE ~(s # NoStart /\ Moved(s)) /\ ~(s # NoStart /\ tenant.start = NoStart)
    <2>1. Counted(c, row, tenant, unknown)
        BY <1>5 DEF Recorded
    <2> QED BY <1>1, <2>1, LedgerCounts
<1> QED BY <1>3, <1>4, <1>5

\* Rows that only age, or that a person must look at now, keep the totals.
LEMMA LedgerAges ==
    ASSUME NEW rows, NEW t, NEW un, Ledger(rows, t, un), NEW new \in [Calls -> RowRec],
           \A c \in Calls : /\ new[c].counted = rows[c].counted /\ new[c].over = rows[c].over
                            /\ new[c].state = "absent" <=> rows[c].state = "absent"
                            /\ new[c].state = "reported" <=> rows[c].state = "reported"
                            /\ new[c].state = "pending" => rows[c].state = "pending"
    PROVE  Ledger(new, t, un)
<1>1. Listed(new) = Listed(rows) /\ Overs(new) = Overs(rows)
    BY DEF Listed, Overs
<1>2. OfPeriod(new, t.start, un) = OfPeriod(rows, t.start, un)
      /\ Reported(new, t.start) = Reported(rows, t.start)
    BY DEF OfPeriod, Reported
<1>3. Match(new, t, un)
    BY <1>1, <1>2 DEF Ledger, Match
<1> QED BY <1>1, <1>3 DEF Ledger

\* A report written down: its overage is added exactly when the period on record
\* is the call's.
LEMMA LedgerNotes ==
    ASSUME Counts, NEW c \in Calls, Noted(c), UNCHANGED unknown
    PROVE  /\ Ledger(row', tenant', unknown')
           /\ \A d \in Calls : row'[d].state = "absent" <=> row[d].state = "absent"
<1>1. Ledger(row, tenant, unknown) /\ Dated
    BY DEF Counts
<1>2. CASE row[c].state # "pending"
    BY <1>1, <1>2 DEF Noted
<1>3. CASE row[c].state = "pending"
    <2>1. row \in [Calls -> RowRec] /\ tenant \in TenantRec /\ row[c].counted
        BY <1>1, <1>3 DEF Ledger
    <2>2. row' = [row EXCEPT ![c].state = "reported", ![c].age = 0]
        BY <1>3 DEF Noted
    <2>3. row[c] \in RowRec /\ 0 \in 0 .. Dedupe /\ "reported" \in States
        BY <2>1, ConstantsAssumption DEF States
    <2>4. /\ row'[c] \in RowRec /\ row'[c].state = "reported"
          /\ row'[c].counted = row[c].counted /\ row'[c].over = row[c].over
          /\ row' \in [Calls -> RowRec] /\ \A d \in Calls \ {c} : row'[d] = row[d]
        BY <2>1, <2>2, <2>3 DEF RowRec
    <2>5. Listed(row') = Listed(row) /\ Overs(row') = Overs(row)
          /\ OfPeriod(row', tenant.start, unknown) = OfPeriod(row, tenant.start, unknown)
        BY <1>3, <2>4 DEF Listed, Overs, OfPeriod
    <2> DEFINE mine == tenant.start # NoStart /\ ended[c] >= tenant.start
               S == Reported(row, tenant.start)
    <2>6. IsFiniteSet(S) /\ c \notin S /\ S \subseteq Calls
          /\ \A d \in Calls : Overs(row)[d] \in Nat
        <3>1. c \notin S /\ S \subseteq Calls
            BY <1>3 DEF Reported
        <3> QED BY <1>1, <3>1, SetsFinite
    <2>7. Total(Overs(row), S \union {c}) = Total(Overs(row), S) + row[c].over
        <3>1. \A d \in S \union {c} : Overs(row)[d] \in Nat
            BY <2>6
        <3>2. Overs(row)[c] = row[c].over
            BY DEF Overs
        <3> HIDE DEF S
        <3>3. IsFiniteSet(S) /\ c \notin S
            BY <2>6
        <3>4. Total(Overs(row), S \union {c}) = Total(Overs(row), S) + Overs(row)[c]
            BY <3>1, <3>3, TotalAdd
        <3> QED BY <3>2, <3>4
    <2>8. row[c].over \in Nat /\ tenant.reported \in Nat
        BY <2>1 DEF RowRec, TenantRec
    <2>9. CASE mine
        <3>1. tenant' = [tenant EXCEPT !.reported = @ + row[c].over]
            BY <1>3, <2>9 DEF Noted
        <3>2. /\ tenant' \in TenantRec /\ tenant'.start = tenant.start /\ tenant'.used = tenant.used
              /\ tenant'.reported = tenant.reported + row[c].over
            BY <2>1, <2>8, <3>1 DEF TenantRec
        <3>3. Reported(row', tenant.start) = S \union {c}
            BY <2>4, <2>9 DEF Reported
        <3> HIDE DEF S, mine
        <3>4. Match(row', tenant', unknown)
            BY <1>1, <2>5, <2>7, <3>2, <3>3 DEF Ledger, Match, S
        <3>5. Ledger(row', tenant', unknown)
            <4>1. \A d \in Calls :
                    /\ row'[d].state = "absent" => ~row'[d].counted /\ d \notin unknown
                    /\ row'[d].state \in {"pending", "reported"} => row'[d].counted
                    /\ tenant'.start = NoStart /\ row'[d].counted => d \in unknown
                BY <1>1, <2>1, <2>4, <3>2 DEF Ledger
            <4>2. IsFiniteSet(Listed(row')) /\ unknown \subseteq Calls
                BY <1>1, <2>5 DEF Ledger
            <4> QED BY <2>4, <3>2, <3>4, <4>1, <4>2 DEF Ledger
        <3> QED BY <1>3, <2>4, <3>5
    <2>10. CASE ~mine
        <3>1. tenant' = tenant
            BY <1>3, <2>10 DEF Noted
        <3>2. ASSUME unknown = {} PROVE Reported(row', tenant.start) = S
            <4>1. tenant.start # NoStart
                BY <1>1, <2>1, <3>2 DEF Ledger
            <4>2. ~(ended[c] >= tenant.start)
                BY <2>10, <4>1
            <4> QED BY <2>4, <4>2 DEF Reported
        <3> HIDE DEF S, mine
        <3>3. Match(row', tenant, unknown)
            BY <1>1, <2>5, <3>2 DEF Ledger, Match, S
        <3>4. Ledger(row', tenant, unknown)
            <4>1. \A d \in Calls :
                    /\ row'[d].state = "absent" => ~row'[d].counted /\ d \notin unknown
                    /\ row'[d].state \in {"pending", "reported"} => row'[d].counted
                    /\ tenant.start = NoStart /\ row'[d].counted => d \in unknown
                BY <1>1, <2>1, <2>4 DEF Ledger
            <4>2. IsFiniteSet(Listed(row')) /\ unknown \subseteq Calls
                BY <1>1, <2>5 DEF Ledger
            <4> QED BY <2>1, <2>4, <3>3, <4>1, <4>2 DEF Ledger
        <3> QED BY <1>3, <2>4, <3>1, <3>4
    <2> QED BY <2>9, <2>10
<1> QED BY <1>2, <1>3

\* A step that dates no call anew.
LEMMA LedgerPrimed ==
    ASSUME UNCHANGED ended, Ledger(row', tenant', unknown') PROVE Ledger(row, tenant, unknown)'
BY DEF Ledger, Match, OfPeriod, Reported, Overs, Listed

-----------------------------------------------------------------------------
(* The steps keep the counts                                                 *)

\* A call ends: it had no row, so no sum depends on when it ended.
LEMMA CallEndsCounts == ASSUME Counts, NEW c \in Calls, CallEnds(c) PROVE Counts'
<1>1. /\ event[c].status = "absent" /\ event' = [event EXCEPT ![c].status = "pending"]
      /\ ended' = [ended EXCEPT ![c] = period]
      /\ UNCHANGED <<tenant, row, period, meter, backend, upsets, unknown>>
    BY DEF CallEnds
<1>2. event \in [Calls -> EventRec] /\ Dated /\ Queued /\ Ledger(row, tenant, unknown)
    BY DEF Counts
<1>3. row[c].state = "absent" /\ ~row[c].counted
    BY <1>1, <1>2 DEF Queued, Ledger
<1>4. Dated' /\ \A d \in Calls \ {c} : ended'[d] = ended[d]
    BY <1>1, <1>2 DEF Dated
<1>5. OfPeriod(row, tenant.start, unknown)' = OfPeriod(row, tenant.start, unknown)
      /\ Reported(row, tenant.start)' = Reported(row, tenant.start)
    BY <1>1, <1>3, <1>4 DEF OfPeriod, Reported
<1>6. Match(row, tenant, unknown)'
    BY <1>1, <1>2, <1>5 DEF Match, Ledger, Overs
<1>7. Ledger(row, tenant, unknown)'
    BY <1>1, <1>2, <1>6 DEF Ledger, Listed
<1>8. event' \in [Calls -> EventRec]
    BY <1>1, <1>2 DEF EventRec, Statuses
<1>9. Queued'
    <2>1. \A d \in Calls \ {c} : event'[d] = event[d]
        BY <1>1, <1>2
    <2>2. event'[c].status = "pending" /\ event'[c].attempts = event[c].attempts
        BY <1>1, <1>2 DEF EventRec
    <2>3. \A d \in Calls : event'[d].status = "absent" => event[d].status = "absent"
        BY <1>1, <2>1, <2>2
    <2>4. \A d \in Calls : row'[d].state # "absent" => event'[d].status # "absent"
        BY <1>1, <1>2, <2>3 DEF Queued
    <2>5. \A d \in Calls : event'[d].status \in {"absent", "pending"} =>
                             event'[d].attempts < MaxAttempts
        <3>1. event[c].attempts < MaxAttempts
            BY <1>1, <1>2 DEF Queued
        <3> QED BY <1>2, <2>1, <2>2, <3>1 DEF Queued
    <2>6. \A b \in Backends : ~At(b, "idle")' =>
            backend'[b].call \in Calls /\ event'[backend'[b].call].status # "absent"
        BY <1>1, <1>2, <2>3 DEF Queued, At
    <2> QED BY <2>4, <2>5, <2>6 DEF Queued, At
<1> QED BY <1>1, <1>4, <1>7, <1>8, <1>9 DEF Counts

LEMMA RenewCounts == ASSUME Counts, Renew PROVE Counts'
<1>1. period' \in 0 .. MaxPeriods /\ UNCHANGED <<event, tenant, row, ended, meter, backend, upsets, unknown>>
    BY ConstantsAssumption DEF Renew, Counts, Dated
<1> QED BY <1>1, LedgerPrimed DEF Counts, Dated, Queued, At

LEMMA RollCounts ==
    ASSUME Counts, NEW s \in 0 .. period, NEW paid \in BOOLEAN, RollPeriod(s, paid) PROVE Counts'
<1>1. Ledger(row', tenant', unknown') /\ Listed(row') = Listed(row)
    <2>1. CASE Moved(s) \/ (paid /\ s > tenant.start)
        BY <2>1, LedgerEnters DEF RollPeriod
    <2>2. CASE ~(Moved(s) \/ (paid /\ s > tenant.start)) /\ tenant.start = NoStart
        BY <2>2, LedgerStarts DEF RollPeriod
    <2>3. CASE ~(Moved(s) \/ (paid /\ s > tenant.start)) /\ tenant.start # NoStart
        BY <2>3 DEF RollPeriod, Counts
    <2> QED BY <2>1, <2>2, <2>3
<1>2. UNCHANGED <<event, ended, period, meter, backend, upsets>>
    BY DEF RollPeriod
<1>3. Queued'
    <2>1. \A c \in Calls : row'[c].state = "absent" <=> row[c].state = "absent"
        BY <1>1 DEF Listed
    <2> QED BY <1>2, <2>1 DEF Counts, Queued, At
<1> QED BY <1>1, <1>2, <1>3, LedgerPrimed DEF Counts, Dated

LEMMA TickCounts == ASSUME Counts, Tick PROVE Counts'
<1>1. /\ row \in [Calls -> RowRec] /\ meter \in [Calls -> MeterRec]
      /\ backend \in [Backends -> BackendRec] /\ Ledger(row, tenant, unknown)
    BY DEF Counts, Ledger
<1>2. UNCHANGED <<event, tenant, ended, period, upsets, unknown>>
    BY DEF Tick
<1>3. \A n \in 0 .. Dedupe : Older(n) \in 0 .. Dedupe
    BY ConstantsAssumption DEF Older
<1>4. row' \in [Calls -> RowRec]
      /\ \A c \in Calls : row'[c].state = row[c].state /\ row'[c].counted = row[c].counted
                          /\ row'[c].over = row[c].over
    <2>1. ASSUME NEW r \in RowRec
          PROVE  /\ [r EXCEPT !.age = Older(@)] \in RowRec
                 /\ [r EXCEPT !.age = Older(@)].state = r.state
                 /\ [r EXCEPT !.age = Older(@)].counted = r.counted
                 /\ [r EXCEPT !.age = Older(@)].over = r.over
        BY <1>3 DEF RowRec
    <2> QED BY <1>1, <2>1 DEF Tick
<1>5. meter' \in [Calls -> MeterRec]
    <2>1. ASSUME NEW m \in MeterRec, NEW B \in BOOLEAN
          PROVE  [m EXCEPT !.age = IF B THEN Older(@) ELSE 0] \in MeterRec
        BY <1>3, ConstantsAssumption DEF MeterRec
    <2>2. \A c \in Calls : (meter[c].times > 0 /\ Watched(c)) \in BOOLEAN
        OBVIOUS
    <2> QED BY <1>1, <2>1, <2>2 DEF Tick
<1>6. backend' \in [Backends -> BackendRec]
      /\ \A b \in Backends : backend'[b].at = backend[b].at /\ backend'[b].call = backend[b].call
    <2>1. ASSUME NEW r \in BackendRec
          PROVE  /\ [r EXCEPT !.since = @ + 1] \in BackendRec
                 /\ [r EXCEPT !.since = @ + 1].at = r.at /\ [r EXCEPT !.since = @ + 1].call = r.call
        BY DEF BackendRec
    <2> QED BY <1>1, <2>1 DEF Tick
<1>7. Ledger(row', tenant, unknown)
    BY <1>1, <1>4, LedgerAges
<1>8. Queued'
    BY <1>2, <1>4, <1>6 DEF Counts, Queued, At
<1> QED BY <1>2, <1>5, <1>6, <1>7, <1>8, LedgerPrimed DEF Counts, Dated

\* A backend's step: where it may leave the queue, the meter and the ledger.
LEMMA BackendCounts ==
    ASSUME Counts, NEW b \in Backends, NEW new \in BackendRec, Set(b, new),
           new.at # "idle" => new.call \in Calls /\ event[new.call].status # "absent",
           event' \in [Calls -> EventRec],
           \A c \in Calls : /\ event'[c].status = "absent" <=> event[c].status = "absent"
                            /\ event'[c].status \in {"absent", "pending"} => event'[c].attempts < MaxAttempts,
           meter' \in [Calls -> MeterRec], upsets' \in 0 .. MaxUpsets, UNCHANGED <<ended, period>>,
           Ledger(row', tenant', unknown'),
           \A c \in Calls : row'[c].state # "absent" =>
               row[c].state # "absent" \/ (~At(b, "idle") /\ backend[b].call = c)
    PROVE  Counts'
<1>1. backend \in [Backends -> BackendRec] /\ Queued /\ Dated
    BY DEF Counts
<1>2. /\ backend' \in [Backends -> BackendRec] /\ backend'[b] = new
      /\ \A o \in Backends \ {b} : backend'[o] = backend[o]
    BY <1>1 DEF Set
<1>3. \A c \in Calls : row'[c].state # "absent" => event'[c].status # "absent"
    BY <1>1 DEF Queued
<1>4. ASSUME NEW o \in Backends, backend'[o].at # "idle"
      PROVE  backend'[o].call \in Calls /\ event'[backend'[o].call].status # "absent"
    <2>1. CASE o = b
        BY <1>2, <1>4, <2>1
    <2>2. CASE o # b
        BY <1>1, <1>2, <1>4, <2>2 DEF Queued, At
    <2> QED BY <2>1, <2>2
<1>5. Queued'
    BY <1>3, <1>4 DEF Queued, At
<1>6. Dated'
    BY <1>1 DEF Dated
<1>7. Ledger(row, tenant, unknown)'
    BY LedgerPrimed
<1> QED BY <1>2, <1>5, <1>6, <1>7 DEF Counts

\* The backend's new record, by the step that writes it.
LEMMA GotoRec ==
    ASSUME NEW r \in BackendRec, NEW l \in Labels
    PROVE  /\ [r EXCEPT !.at = l] \in BackendRec
           /\ [r EXCEPT !.at = l].at = l /\ [r EXCEPT !.at = l].call = r.call
BY DEF BackendRec

LEMMA SentRec ==
    ASSUME NEW r \in BackendRec, NEW l \in Labels
    PROVE  /\ [r EXCEPT !.at = l, !.over = 0, !.age = 0, !.since = 0] \in BackendRec
           /\ [r EXCEPT !.at = l, !.over = 0, !.age = 0, !.since = 0].call = r.call
<1>1. 0 \in 0 .. Dedupe /\ 0 \in Nat
    BY ConstantsAssumption
<1> QED BY <1>1 DEF BackendRec

LEMMA IdleRec == Idle \in BackendRec /\ Idle.at = "idle"
BY ConstantsAssumption DEF Idle, BackendRec, Labels

LEMMA AfterRec ==
    ASSUME Counts, NEW b \in Backends, ~At(b, "idle"), After(b)
    PROVE  \E new \in BackendRec :
             Set(b, new) /\ (new.at # "idle" => new.call \in Calls /\ event[new.call].status # "absent")
<1> DEFINE on == [Idle EXCEPT !.at = "mark", !.call = backend[b].call, !.tries = backend[b].tries]
<1>1. backend[b] \in BackendRec
    BY DEF Counts
<1>2. backend[b].call \in Calls /\ event[backend[b].call].status # "absent"
    BY DEF Counts, Queued
<1>3. on \in BackendRec /\ on.call = backend[b].call
    <2>1. backend[b].call \in Calls /\ backend[b].tries \in 0 .. MaxAttempts /\ "mark" \in Labels
        BY <1>1, <1>2 DEF BackendRec, Labels
    <2> QED BY <2>1, IdleRec DEF BackendRec
<1>4. CASE backend[b].retry
    BY <1>4, IdleRec DEF After
<1>5. CASE ~backend[b].retry
    <2>1. Set(b, on)
        BY <1>5 DEF After
    <2> HIDE DEF on
    <2> QED BY <1>2, <1>3, <2>1
<1> QED BY <1>4, <1>5

\* A step of a backend that leaves the queue, the ledger and the meter alone.
LEMMA QuietCounts ==
    ASSUME Counts, NEW b \in Backends, NEW new \in BackendRec, Set(b, new),
           new.at # "idle" => new.call \in Calls /\ event[new.call].status # "absent",
           UNCHANGED <<event, tenant, row, ended, period, meter, unknown>>, upsets' \in 0 .. MaxUpsets
    PROVE  Counts'
<1>1. /\ event \in [Calls -> EventRec] /\ meter \in [Calls -> MeterRec]
      /\ Ledger(row, tenant, unknown) /\ Queued
    BY DEF Counts
<1>2. \A c \in Calls : event[c].status \in {"absent", "pending"} => event[c].attempts < MaxAttempts
    BY <1>1 DEF Queued
<1> QED BY <1>1, <1>2, BackendCounts

LEMMA UpsetCounts == ASSUME Counts, Upset PROVE upsets' \in 0 .. MaxUpsets
BY ConstantsAssumption DEF Counts, Upset

LEMMA MeteredCounts ==
    ASSUME Counts, NEW c \in Calls, NEW over \in Nat, Metered(c, over) \/ UNCHANGED meter
    PROVE  meter' \in [Calls -> MeterRec]
<1>1. meter \in [Calls -> MeterRec]
    BY DEF Counts
<1>2. [times |-> meter[c].times + 1, minutes |-> over, age |-> 0] \in MeterRec
    BY <1>1, ConstantsAssumption DEF MeterRec
<1> QED BY <1>1, <1>2 DEF Metered

\* What a backend at work knows.
LEMMA AtWork ==
    ASSUME Counts, NEW b \in Backends, ~At(b, "idle")
    PROVE  /\ backend[b] \in BackendRec /\ backend[b].call \in Calls
           /\ event[backend[b].call].status # "absent" /\ event[backend[b].call] \in EventRec
           /\ event \in [Calls -> EventRec] /\ meter \in [Calls -> MeterRec]
           /\ upsets \in 0 .. MaxUpsets /\ Ledger(row, tenant, unknown) /\ Queued
           /\ \A c \in Calls : event[c].status \in {"absent", "pending"} => event[c].attempts < MaxAttempts
BY DEF Counts, Queued

LEMMA TakeCounts == ASSUME Counts, NEW b \in Backends, NEW c \in Calls, Take(b, c) PROVE Counts'
<1> DEFINE new == [Idle EXCEPT !.at = "record", !.call = c, !.tries = event[c].attempts + 1]
<1>1. event[c] \in EventRec /\ event[c].attempts < MaxAttempts /\ event[c].status = "pending"
    BY DEF Counts, Queued, Take
<1>2. new \in BackendRec /\ new.call = c
    <2>1. event[c].attempts + 1 \in 0 .. MaxAttempts /\ "record" \in Labels
        BY <1>1, ConstantsAssumption DEF EventRec, Labels
    <2> QED BY <2>1, IdleRec DEF BackendRec
<1>3. Set(b, new) /\ UNCHANGED <<event, tenant, row, ended, period, meter, upsets, unknown>>
    BY DEF Take
<1> HIDE DEF new
<1>4. upsets' \in 0 .. MaxUpsets
    BY <1>3 DEF Counts
<1> QED BY <1>1, <1>2, <1>3, <1>4, QuietCounts

LEMMA RetryCounts == ASSUME Counts, NEW b \in Backends, NEW c \in Calls, Retry(b, c) PROVE Counts'
<1> DEFINE new == [Idle EXCEPT !.at = "send", !.call = c, !.over = row[c].over,
                               !.age = row[c].age, !.retry = TRUE]
<1>1. row[c] \in RowRec /\ event[c].status # "absent"
    BY DEF Counts, Ledger, Queued, Retry
<1>2. new \in BackendRec /\ new.call = c
    <2>1. row[c].over \in Nat /\ row[c].age \in 0 .. Dedupe /\ "send" \in Labels
        BY <1>1 DEF RowRec, Labels
    <2> QED BY <2>1, IdleRec DEF BackendRec
<1>3. Set(b, new) /\ UNCHANGED <<event, tenant, row, ended, period, meter, upsets, unknown>>
    BY DEF Retry
<1> HIDE DEF new
<1>4. upsets' \in 0 .. MaxUpsets
    BY <1>3 DEF Counts
<1> QED BY <1>1, <1>2, <1>3, <1>4, QuietCounts

LEMMA ReviewCounts == ASSUME Counts, NEW b \in Backends, NEW c \in Calls, Review(b, c) PROVE Counts'
<1>1. /\ row' = [row EXCEPT ![c].state = "review", ![c].age = 0] /\ row[c].state = "pending"
      /\ UNCHANGED <<event, tenant, ended, period, meter, backend, upsets, unknown>>
    BY DEF Review
<1>2. row \in [Calls -> RowRec] /\ Ledger(row, tenant, unknown) /\ row[c] \in RowRec
      /\ 0 \in 0 .. Dedupe /\ "review" \in States
    BY ConstantsAssumption DEF Counts, Ledger, States
<1>3. /\ row'[c] \in RowRec /\ row'[c].state = "review"
      /\ row'[c].counted = row[c].counted /\ row'[c].over = row[c].over
      /\ row' \in [Calls -> RowRec] /\ \A d \in Calls \ {c} : row'[d] = row[d]
    BY <1>1, <1>2 DEF RowRec
<1>4. \A d \in Calls : /\ row'[d].counted = row[d].counted /\ row'[d].over = row[d].over
                       /\ row'[d].state = "absent" <=> row[d].state = "absent"
                       /\ row'[d].state = "reported" <=> row[d].state = "reported"
                       /\ row'[d].state = "pending" => row[d].state = "pending"
    BY <1>1, <1>3
<1>5. Ledger(row', tenant', unknown')
    <2>1. Ledger(row', tenant, unknown)
        BY <1>2, <1>3, <1>4, LedgerAges
    <2> QED BY <1>1, <2>1
<1>6. Queued'
    BY <1>1, <1>4 DEF Counts, Queued, At
<1> QED BY <1>1, <1>5, <1>6, LedgerPrimed DEF Counts, Dated

LEMMA RecordCounts ==
    ASSUME Counts, NEW b \in Backends, Record(b) \/ \E landed \in BOOLEAN : RecordRaises(b, landed)
    PROVE  Counts'
<1> DEFINE c == backend[b].call
<1>1. At(b, "record") /\ UNCHANGED <<event, ended, period, meter>>
    BY DEF Record, RecordRaises
<1>2. ~At(b, "idle")
    BY <1>1 DEF At
<1>3. /\ backend[b] \in BackendRec /\ c \in Calls /\ event[c].status # "absent"
      /\ event \in [Calls -> EventRec] /\ meter \in [Calls -> MeterRec] /\ upsets \in 0 .. MaxUpsets
      /\ Ledger(row, tenant, unknown)
      /\ \A d \in Calls : event[d].status \in {"absent", "pending"} => event[d].attempts < MaxAttempts
    BY <1>2, AtWork
<1>4. /\ Ledger(row', tenant', unknown')
      /\ \A d \in Calls : row'[d].state # "absent" => row[d].state # "absent" \/ d = c
    <2>1. CASE UNCHANGED <<tenant, row, unknown>>
        BY <1>3, <2>1
    <2>2. CASE row[c].state = "absent" /\ \E s \in SeenStart : Recorded(c, s)
        <3>1. PICK s \in SeenStart : Recorded(c, s)
            BY <2>2
        <3>2. Ledger(row', tenant', unknown') /\ Listed(row') = Listed(row) \union {c}
            BY <1>3, <2>2, <3>1, LedgerRecords
        <3> QED BY <3>2 DEF Listed
    <2> QED BY <2>1, <2>2 DEF Record, RecordRaises
<1>5. row' \in [Calls -> RowRec]
    BY <1>4 DEF Ledger
<1>6. PICK new \in BackendRec : Set(b, new) /\ new.call = c
    <2>1. [backend[b] EXCEPT !.at = "mark"] \in BackendRec
          /\ [backend[b] EXCEPT !.at = "mark"].call = c
        BY <1>3, GotoRec DEF Labels
    <2>2. row'[c].over \in Nat
        BY <1>3, <1>5 DEF RowRec
    <2>3. [backend[b] EXCEPT !.at = "send", !.over = row'[c].over] \in BackendRec
          /\ [backend[b] EXCEPT !.at = "send", !.over = row'[c].over].call = c
        BY <1>3, <2>2 DEF BackendRec, Labels
    <2>4. \/ Set(b, [backend[b] EXCEPT !.at = "mark"])
          \/ Set(b, [backend[b] EXCEPT !.at = "send", !.over = row'[c].over])
        BY DEF Record, RecordRaises, Goto
    <2> QED BY <2>1, <2>3, <2>4
<1>7. upsets' \in 0 .. MaxUpsets
    BY <1>3, UpsetCounts DEF Record, RecordRaises
<1> QED BY <1>1, <1>2, <1>3, <1>4, <1>6, <1>7, BackendCounts

LEMMA SendCounts ==
    ASSUME Counts, NEW b \in Backends, Send(b) \/ \E landed \in BOOLEAN : SendFails(b, landed)
    PROVE  Counts'
<1>1. At(b, "send") /\ UNCHANGED <<event, tenant, row, ended, period, unknown>>
      /\ (Metered(backend[b].call, backend[b].over) \/ UNCHANGED meter)
    BY DEF Send, SendFails
<1>2. ~At(b, "idle")
    BY <1>1 DEF At
<1>3. /\ backend[b] \in BackendRec /\ backend[b].call \in Calls
      /\ event[backend[b].call].status # "absent"
      /\ event \in [Calls -> EventRec] /\ upsets \in 0 .. MaxUpsets /\ Ledger(row, tenant, unknown)
      /\ \A d \in Calls : event[d].status \in {"absent", "pending"} => event[d].attempts < MaxAttempts
    BY <1>2, AtWork
<1>4. meter' \in [Calls -> MeterRec]
    <2>1. backend[b].over \in Nat
        BY <1>3 DEF BackendRec
    <2> QED BY <1>1, <1>3, <2>1, MeteredCounts
<1>5. PICK new \in BackendRec :
        Set(b, new) /\ (new.at # "idle" => new.call \in Calls /\ event[new.call].status # "absent")
    <2>1. CASE After(b)
        BY <1>2, <2>1, AfterRec
    <2>2. CASE Set(b, [backend[b] EXCEPT !.at = "note", !.over = 0, !.age = 0, !.since = 0])
        <3> DEFINE on == [backend[b] EXCEPT !.at = "note", !.over = 0, !.age = 0, !.since = 0]
        <3>1. on \in BackendRec /\ on.call = backend[b].call
            BY <1>3, SentRec DEF Labels
        <3>2. Set(b, on)
            BY <2>2
        <3> HIDE DEF on
        <3> QED BY <1>3, <3>1, <3>2
    <2> QED BY <2>1, <2>2 DEF Send, SendFails
<1>6. upsets' \in 0 .. MaxUpsets
    BY <1>3, UpsetCounts DEF Send, SendFails
<1> QED BY <1>1, <1>2, <1>3, <1>4, <1>5, <1>6, BackendCounts

LEMMA NoteCounts ==
    ASSUME Counts, NEW b \in Backends, Note(b) \/ \E landed \in BOOLEAN : NoteRaises(b, landed)
    PROVE  Counts'
<1>1. At(b, "note") /\ After(b) /\ UNCHANGED <<event, ended, period, meter, unknown>>
      /\ (Noted(backend[b].call) \/ UNCHANGED <<row, tenant>>)
    BY DEF Note, NoteRaises
<1>2. ~At(b, "idle")
    BY <1>1 DEF At
<1>3. /\ backend[b].call \in Calls /\ meter \in [Calls -> MeterRec]
      /\ event \in [Calls -> EventRec] /\ upsets \in 0 .. MaxUpsets /\ Ledger(row, tenant, unknown)
      /\ \A d \in Calls : event[d].status \in {"absent", "pending"} => event[d].attempts < MaxAttempts
    BY <1>2, AtWork
<1>4. Ledger(row', tenant', unknown')
      /\ \A d \in Calls : row'[d].state = "absent" <=> row[d].state = "absent"
    BY <1>1, <1>3, LedgerNotes
<1>5. PICK new \in BackendRec :
        Set(b, new) /\ (new.at # "idle" => new.call \in Calls /\ event[new.call].status # "absent")
    BY <1>1, <1>2, AfterRec
<1>6. upsets' \in 0 .. MaxUpsets
    BY <1>3, UpsetCounts DEF Note, NoteRaises
<1> QED BY <1>1, <1>2, <1>3, <1>4, <1>5, <1>6, BackendCounts

LEMMA MarkCounts ==
    ASSUME Counts, NEW b \in Backends,
           Mark(b) \/ Raised(b) \/ \E landed \in BOOLEAN : MarkRaises(b, landed)
    PROVE  Counts'
<1> DEFINE c == backend[b].call
<1>1. ~At(b, "idle") /\ UNCHANGED <<tenant, row, ended, period, meter, unknown>>
    BY DEF Mark, Raised, MarkRaises, At
<1>2. /\ backend[b] \in BackendRec /\ c \in Calls /\ event[c].status # "absent" /\ event[c] \in EventRec
      /\ event \in [Calls -> EventRec] /\ meter \in [Calls -> MeterRec] /\ upsets \in 0 .. MaxUpsets
      /\ Ledger(row, tenant, unknown)
      /\ \A d \in Calls : event[d].status \in {"absent", "pending"} => event[d].attempts < MaxAttempts
    BY <1>1, AtWork
<1>3. backend[b].tries \in 0 .. MaxAttempts
    BY <1>2 DEF BackendRec
<1>4. PICK e \in EventRec :
        /\ event' = [event EXCEPT ![c] = e]
        /\ e.status # "absent" /\ (e.status = "pending" => e.attempts < MaxAttempts)
    <2>1. CASE event' = event
        <3>1. event = [event EXCEPT ![c] = event[c]]
            BY <1>2
        <3> QED BY <1>2, <2>1, <3>1
    <2>2. CASE event' = [event EXCEPT ![c].status = "done"]
        <3>1. [event[c] EXCEPT !.status = "done"] \in EventRec
              /\ [event[c] EXCEPT !.status = "done"].status = "done"
            BY <1>2 DEF EventRec, Statuses
        <3>2. event' = [event EXCEPT ![c] = [event[c] EXCEPT !.status = "done"]]
            BY <1>2, <2>2
        <3> QED BY <3>1, <3>2
    <2>3. CASE event' = [event EXCEPT ![c] = [status |-> "failed", attempts |-> backend[b].tries]]
        <3>1. [status |-> "failed", attempts |-> backend[b].tries] \in EventRec
            BY <1>3 DEF EventRec, Statuses
        <3> QED BY <2>3, <3>1
    <2>4. CASE ~(backend[b].tries >= MaxAttempts)
               /\ event' = [event EXCEPT ![c].attempts = backend[b].tries]
        <3> DEFINE e == [event[c] EXCEPT !.attempts = backend[b].tries]
        <3>1. e \in EventRec /\ e.status = event[c].status /\ e.attempts = backend[b].tries
            BY <1>2, <1>3 DEF EventRec
        <3>2. event' = [event EXCEPT ![c] = e]
            BY <1>2, <2>4
        <3>3. e.attempts < MaxAttempts
            BY <1>3, <2>4, <3>1, ConstantsAssumption
        <3> HIDE DEF e
        <3> QED BY <1>2, <3>1, <3>2, <3>3
    <2> QED BY <2>1, <2>2, <2>3, <2>4 DEF Mark, Raised, MarkRaises
<1>5. event' \in [Calls -> EventRec]
      /\ \A d \in Calls : /\ event'[d].status = "absent" <=> event[d].status = "absent"
                          /\ event'[d].status \in {"absent", "pending"} => event'[d].attempts < MaxAttempts
    <2>1. event'[c] = e /\ \A d \in Calls \ {c} : event'[d] = event[d]
        BY <1>2, <1>4
    <2> HIDE DEF c
    <2>2. event' \in [Calls -> EventRec]
        BY <1>2, <1>4
    <2> QED BY <1>2, <1>4, <2>1, <2>2
<1>6. PICK new \in BackendRec : Set(b, new) /\ (new.at # "idle" => new.call = c)
    <2>1. CASE Set(b, Idle)
        BY <2>1, IdleRec
    <2>2. CASE Goto(b, "raised")
        BY <1>2, <2>2, GotoRec DEF Goto, Labels
    <2> QED BY <2>1, <2>2 DEF Mark, Raised, MarkRaises
<1>7. upsets' \in 0 .. MaxUpsets
    BY <1>2, UpsetCounts DEF Mark, Raised, MarkRaises
<1> QED BY <1>1, <1>2, <1>5, <1>6, <1>7, BackendCounts

LEMMA StopCounts == ASSUME Counts, NEW b \in Backends, ReportFails(b) \/ Crash(b) PROVE Counts'
<1>1. ~At(b, "idle") /\ UNCHANGED <<event, tenant, row, ended, period, meter, unknown>> /\ Upset
    BY DEF ReportFails, Crash, At
<1>2. backend[b] \in BackendRec /\ backend[b].call \in Calls /\ event[backend[b].call].status # "absent"
    BY <1>1, AtWork
<1>3. PICK new \in BackendRec : Set(b, new) /\ (new.at # "idle" => new.call = backend[b].call)
    <2>1. CASE Set(b, Idle)
        BY <2>1, IdleRec
    <2>2. CASE Goto(b, "raised")
        BY <1>2, <2>2, GotoRec DEF Goto, Labels
    <2> QED BY <2>1, <2>2 DEF ReportFails, Crash
<1>4. upsets' \in 0 .. MaxUpsets
    BY <1>1, UpsetCounts
<1> QED BY <1>1, <1>2, <1>3, <1>4, QuietCounts

LEMMA StepCounts == Counts /\ [Next]_vars => Counts'
<1> SUFFICES ASSUME Counts, [Next]_vars PROVE Counts'
    OBVIOUS
<1>1. ASSUME NEW c \in Calls, CallEnds(c) PROVE Counts'
    BY <1>1, CallEndsCounts
<1>2. CASE Renew
    BY <1>2, RenewCounts
<1>3. CASE Tick
    BY <1>3, TickCounts
<1>4. ASSUME NEW s \in 0 .. period, NEW paid \in BOOLEAN, RollPeriod(s, paid) PROVE Counts'
    BY <1>4, RollCounts
<1>5. ASSUME NEW b \in Backends, Loop(b) PROVE Counts'
    <2>1. CASE \E c \in Calls : Take(b, c) \/ Retry(b, c) \/ Review(b, c)
        BY <2>1, TakeCounts, RetryCounts, ReviewCounts
    <2>2. CASE Step(b)
        BY <2>2, RecordCounts, SendCounts, NoteCounts, MarkCounts DEF Step
    <2> QED BY <1>5, <2>1, <2>2 DEF Loop
<1>6. ASSUME NEW b \in Backends, Fails(b) PROVE Counts'
    BY <1>6, StopCounts, RecordCounts, SendCounts, NoteCounts, MarkCounts DEF Fails
<1>7. CASE UNCHANGED vars
    BY <1>7, LedgerPrimed DEF vars, Counts, Dated, Queued, At
<1> QED BY <1>1, <1>2, <1>3, <1>4, <1>5, <1>6, <1>7 DEF Next

-----------------------------------------------------------------------------
\* Every variable keeps its type: no attempt counter passes the queue's limit
\* and no age Stripe's memory (webhook_processor.py, _process_one; usage.py).
THEOREM TypeCorrect == Spec => []TypeOK
<1>1. Counts => TypeOK
    BY CountsSays
<1> QED BY InitCounts, StepCounts, <1>1, PTL DEF Spec

\* The tenant's minutes and reported overage are the sums of its ledger, for any
\* number of calls, backends, failures and rollovers in any order (migration 042:
\* usage_record_call, usage_enter_period, usage_overage_reported).
THEOREM CountersTrue == Spec => []CountersMatchLedger
<1>1. Counts => CountersMatchLedger
    BY CountsSays
<1> QED BY InitCounts, StepCounts, <1>1, PTL DEF Spec

=============================================================================
