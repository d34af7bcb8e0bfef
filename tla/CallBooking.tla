---------------------------- MODULE CallBooking ----------------------------
(***************************************************************************)
(* The Google and Outlook bookings of one phone call: the book_appointment *)
(* and replace_booking tools (backend/routers/tools.py) over the per-slot  *)
(* claims of backend/services/booking_claims.py (migration 045).           *)
(*                                                                         *)
(* Every action is one awaited call.  A claim row is compared and swapped  *)
(* on its state and updated_at; here ver stands for updated_at, a number   *)
(* that no copy still in use holds.  Reading a row and swapping it with no *)
(* other decision between is one action: a change in between shows as a    *)
(* lost swap.  A failure that escapes a handler is Crash.                  *)
(***************************************************************************)
EXTENDS Naturals, FiniteSets

CONSTANTS
    Nil,
    Bookers, Replacers,     \* book_appointment and replace_booking requests
    Slots, SlotOf,          \* the time each request names
    Keep,                   \* bookers that pass also_keep_earlier_booking
    Google,                 \* the calendar is Google's (FALSE: Outlook's)
    Prompt,                 \* no request outlasts STALE_SECONDS
    MaxUpsets               \* bound: requests that stop mid-way, and bookings the
                            \* caller cancels meanwhile

Requests == Bookers \cup Replacers

ASSUME ConstantsOK ==
    /\ SlotOf \in [Requests -> Slots] /\ Keep \subseteq Bookers
    /\ Google \in BOOLEAN /\ Prompt \in BOOLEAN
    /\ MaxUpsets \in Nat
    /\ Bookers \cap Replacers = {} /\ Nil \notin Slots \X Nat
    /\ IsFiniteSet(Requests)

VARIABLES
    claim,      \* call_booking_claims of this call, by slot
    old,        \* slots whose claim's updated_at is past STALE_SECONDS
    slipped,    \* slots whose claim was let go though its event is, or may yet be, there
    event,      \* the calendar, by event id: "sent" while an insert may still land
    appt,       \* appointments of this call, by event id (migration 026)
    from,       \* rescheduled_from_appointment_id
    owner,      \* who holds an appointment's mutation claim
    mine,       \* the claim row each request last read
    seen,       \* this call's standing bookings as each request last read them
    orig,       \* the booking a replace_booking swaps out
    pc, reply, upsets

store == <<claim, old, slipped>>
rows == <<appt, from>>
local == <<mine, seen, orig>>
vars == <<store, event, rows, owner, local, pc, reply, upsets>>

Attempts == 1..(Cardinality(Requests) + 1)

\* event_id: a digest of the slot and the attempt.
Ids == Slots \X Attempts

Vers == 0..(Cardinality(Requests) + 1)

NoClaim == [state |-> "none", attempt |-> 1, ver |-> 0, appt |-> Nil]

Claims == [state : {"none", "pending", "booked", "failed"}, attempt : Attempts,
           ver : Vers, appt : Ids \cup {Nil}]

\* The request is at work on the claim it made or took.
Owning == {"readback", "recheck", "resettle", "create", "probe", "note", "lookup",
           "insert", "fail", "mark"}

\* Its copy of the row will be compared again.
Holding == (Owning \ {"readback"}) \cup {"reopen"}

Labels == Owning \cup
    {"guard", "settle", "check", "claim", "take", "reopen",
     "look", "original", "own", "own2", "reread", "reread2", "cancel", "write",
     "handover", "release", "both", "finish", "done", "crashed"}

Replies == {"none", "refused", "already", "in_progress", "busy", "error", "uncertain",
            "booked", "unchanged", "both", "replaced", "unrecorded", "unverified"}

TypeOK ==
    /\ claim \in [Slots -> Claims] /\ old \subseteq Slots /\ slipped \subseteq Slots
    /\ event \in [Ids -> {"none", "sent", "live", "gone"}]
    /\ appt \in [Ids -> {"none", "standing", "cancelled"}]
    /\ from \in [Ids -> Ids \cup {Nil}]
    /\ owner \in [Ids -> Replacers \cup {Nil, "reconcile", "lost"}]
    /\ mine \in [Requests -> Claims]
    /\ seen \in [Requests -> SUBSET Ids]
    /\ orig \in [Replacers -> Ids \cup {Nil}]
    /\ pc \in [Requests -> Labels] /\ reply \in [Requests -> Replies]
    /\ upsets \in 0..MaxUpsets

Init ==
    /\ claim = [s \in Slots |-> NoClaim] /\ old = {} /\ slipped = {}
    /\ event = [e \in Ids |-> "none"]
    /\ appt = [e \in Ids |-> "none"]
    /\ from = [e \in Ids |-> Nil]
    /\ owner = [e \in Ids |-> Nil]
    /\ mine = [r \in Requests |-> NoClaim]
    /\ seen = [r \in Requests |-> {}]
    /\ orig = [p \in Replacers |-> Nil]
    /\ pc = [r \in Requests |-> IF r \in Bookers THEN "guard" ELSE "look"]
    /\ reply = [r \in Requests |-> "none"]
    /\ upsets = 0

-----------------------------------------------------------------------------
(* Steps of a request *)

At(r, label) == pc[r] = label

Goto(r, label) == pc' = [pc EXCEPT ![r] = label] /\ UNCHANGED reply

Answer(r, what) ==
    /\ pc' = [pc EXCEPT ![r] = "done"]
    /\ reply' = [reply EXCEPT ![r] = what]

\* _calendar_book returns "not booked": a replacement gives its booking back.
NotBooked(r, what) == IF r \in Replacers THEN Goto(r, "release") ELSE Answer(r, what)

\* It returns "booked": a replacement goes on to cancel the earlier booking.
Booked(r, what) == IF r \in Replacers THEN Goto(r, "cancel") ELSE Answer(r, what)

\* The calendar had it, and may have lost it since; it has it, or is about to.
Made(e) == event[e] \in {"live", "gone"}
Coming(e) == event[e] \in {"sent", "live"}

Standing == {e \in Ids : appt[e] = "standing"}

\* The event id of the claim a request holds.
Event(r) == <<SlotOf[r], mine[r].attempt>>

-----------------------------------------------------------------------------
(* The claim store: booking_claims.transition and its callers *)

FreshVer(s) ==
    LET used == {claim[s].ver} \cup
                {mine[r].ver : r \in {q \in Requests : SlotOf[q] = s /\ pc[q] \in Holding}}
    IN  CHOOSE v \in Vers : v \notin used

\* The partial index: one pending claim per call.
MayPend(s) == \A t \in Slots \ {s} : claim[t].state # "pending"

Swaps(s, row, new) == claim[s] = row /\ (new.state = "pending" => MayPend(s))

\* What the properties exempt (README, Findings): a claim is marked failed while its
\* event is there or on its way, or its appointment stands; or it is settled by the
\* appointment of an earlier attempt.
Slips(s, new) ==
    LET e == <<s, new.attempt>> IN
    \/ new.state = "failed" /\ (Coming(e) \/ appt[e] = "standing")
    \/ new.state = "booked" /\ new.appt # e

Put(s, new) ==
    /\ claim' = [claim EXCEPT ![s] = [new EXCEPT !.ver = FreshVer(s)]]
    /\ old' = old \ {s}
    /\ slipped' = IF Slips(s, new) THEN slipped \cup {s} ELSE slipped

Keeps(r) == mine' = [mine EXCEPT ![r] = claim'[SlotOf[r]]]

\* transition() of the row r holds: won, lost, or raised before or after it landed.
Transition(r, row, new, won, lost, raised) ==
    LET s == SlotOf[r] IN
    \/ Swaps(s, row, new) /\ Put(s, new) /\ Keeps(r) /\ won
    \/ ~Swaps(s, row, new) /\ UNCHANGED <<store, mine>> /\ lost
    \/ UNCHANGED <<store, mine>> /\ raised
    \/ Swaps(s, row, new) /\ Put(s, new) /\ UNCHANGED mine /\ raised

\* A transition whose outcome the caller logs and ignores.
Try(r, new, next) == Transition(r, mine[r], new, next, next, next)

\* settle_from_appointments: a pending claim whose row this request has just read
\* is marked booked; a lost or failed swap leaves it.
Settle(known) ==
    \/ \E s \in Slots, e \in known :
          /\ claim[s].state = "pending" /\ e[1] = s
          /\ Put(s, [claim[s] EXCEPT !.state = "booked", !.appt = e])
    \/ UNCHANGED store

\* Opening hours, the daily break, capacity and staff: other calls fill them too,
\* and a check that fails lets the booking through.
CheckSlot(r) ==
    /\ At(r, "check")
    /\ Goto(r, "claim") \/ NotBooked(r, "refused")
    /\ UNCHANGED <<store, event, rows, owner, local, upsets>>

\* insert_pending, refused by the primary key or by the partial index.
InsertPending(r) ==
    LET s == SlotOf[r] IN
    /\ At(r, "claim")
    /\ \/ /\ claim[s].state = "none" /\ MayPend(s)
          /\ Put(s, [NoClaim EXCEPT !.state = "pending"])
          /\ (Goto(r, "readback") \/ NotBooked(r, "error"))
       \/ /\ ~(claim[s].state = "none" /\ MayPend(s))
          /\ Goto(r, "take") /\ UNCHANGED store
       \/ NotBooked(r, "error") /\ UNCHANGED store
    /\ UNCHANGED <<event, rows, owner, local, upsets>>

ReadBack(r) ==
    /\ At(r, "readback")
    /\ \/ mine' = [mine EXCEPT ![r] = claim[SlotOf[r]]] /\ Goto(r, "recheck")
       \/ NotBooked(r, "error") /\ UNCHANGED mine
    /\ UNCHANGED <<store, event, rows, owner, seen, orig, upsets>>

\* (Seeded fault: a takeover counts as a new attempt, under a new event id.)
TakeAnew(r) ==
    LET row == claim[SlotOf[r]] IN
    /\ At(r, "take")
    /\ row.state \in {"pending", "failed"} /\ (row.state = "pending" => SlotOf[r] \in old)
    /\ Transition(r, row, [row EXCEPT !.state = "pending", !.attempt = @ + 1],
                  Goto(r, "recheck"), NotBooked(r, "in_progress"), NotBooked(r, "error"))
    /\ UNCHANGED <<event, rows, owner, seen, orig, upsets>>

\* acquire() once the insert was refused: what the row in the way says.
Take(r) ==
    LET s == SlotOf[r]
        row == claim[s]
        retry == [row EXCEPT !.state = "pending", !.attempt = @ + 1]
        won == Goto(r, "recheck")
        lost == NotBooked(r, "in_progress")
        raised == NotBooked(r, "error")
    IN
    /\ At(r, "take")
    /\ \/ /\ row.state = "none"             \* the per-call index refused it
          /\ NotBooked(r, "busy") /\ UNCHANGED <<store, mine>>
       \/ /\ row.state = "booked" /\ Goto(r, "reopen")
          /\ mine' = [mine EXCEPT ![r] = row] /\ UNCHANGED store
       \/ /\ row.state = "failed"
          /\ Transition(r, row, retry, won, lost, raised)
       \/ /\ row.state = "pending" /\ s \in old
          /\ Transition(r, row, row, won, lost, raised)
       \/ /\ row.state = "pending" /\ s \notin old
          /\ lost /\ UNCHANGED <<store, mine>>
       \/ raised /\ UNCHANGED <<store, mine>>
    /\ UNCHANGED <<event, rows, owner, seen, orig, upsets>>

\* A booked slot: report its appointment, or restart() the claim when that
\* appointment no longer stands.
Reopen(r) ==
    LET held == mine[r]
        stands == held.appt # Nil /\ appt[held.appt] = "standing"
        again == [held EXCEPT !.state = "pending", !.attempt = @ + 1, !.appt = Nil]
    IN
    /\ At(r, "reopen")
    /\ \/ stands /\ Booked(r, "already") /\ UNCHANGED <<store, mine>>
       \/ ~stands /\ Transition(r, held, again, Goto(r, "recheck"),
                                NotBooked(r, "in_progress"), NotBooked(r, "error"))
       \/ held.appt # Nil /\ NotBooked(r, "uncertain") /\ UNCHANGED <<store, mine>>
    /\ UNCHANGED <<event, rows, owner, seen, orig, upsets>>

-----------------------------------------------------------------------------
(* _same_call_booking_guard, before the claim and again under it *)

Ignored(r) == IF r \in Replacers THEN {orig[r]} ELSE {}

Earlier(r, known) == known \ Ignored(r)

AtSlot(r, known) == \E e \in known : e[1] = SlotOf[r]

\* The caller's bookings of this call, read first without the claim and then under
\* it.
LookUp(r) ==
    /\ pc[r] \in {"guard", "recheck"}
    /\ \/ /\ seen' = [seen EXCEPT ![r] = Standing]
          /\ Goto(r, IF At(r, "guard") THEN "settle" ELSE "resettle")
       \/ /\ IF At(r, "guard") THEN Answer(r, "refused") ELSE Goto(r, "fail")
          /\ UNCHANGED seen
    /\ UNCHANGED <<store, event, rows, owner, mine, orig, upsets>>

\* What they allow, once the claims they settle are marked.  Under the claim a
\* refusal marks it failed: "nothing was created".
Decide(r) ==
    LET earlier == Earlier(r, seen[r]) IN
    /\ pc[r] \in {"settle", "resettle"}
    /\ Settle(seen[r])
    /\ \/ AtSlot(r, earlier) /\ NotBooked(r, "already")
       \/ /\ ~AtSlot(r, earlier) /\ (earlier = {} \/ r \in Keep)
          /\ Goto(r, IF At(r, "settle") THEN "check" ELSE "create")
       \/ /\ ~AtSlot(r, earlier)
          /\ \/ At(r, "settle") /\ Answer(r, "refused")
             \/ At(r, "resettle") /\ earlier # {} /\ r \notin Keep /\ Goto(r, "fail")
    /\ seen' = [seen EXCEPT ![r] = {}]
    /\ UNCHANGED <<event, rows, owner, mine, orig, upsets>>

MarkFailed(r) ==
    /\ At(r, "fail")
    /\ Try(r, [mine[r] EXCEPT !.state = "failed"], NotBooked(r, "refused"))
    /\ UNCHANGED <<event, rows, owner, seen, orig, upsets>>

-----------------------------------------------------------------------------
(* _calendar_book, from the calendar to the appointment's row *)

\* The insert carries the claim's event id.  Google answers 409 for an id it has,
\* and a deleted one is retired; Outlook drops a repeated transactionId.  A refusal,
\* or a token that has expired, says nothing of the event an earlier request of the
\* same attempt made; an insert that is not answered may land at any time later.
Create(r) ==
    LET e == Event(r) IN
    /\ At(r, "create")
    /\ \/ /\ event[e] # "gone"
          /\ event' = [event EXCEPT ![e] = "live"]
          /\ Goto(r, "note")
       \/ Goto(r, "fail") /\ UNCHANGED event                    \* refused, or retired
       \/ /\ event' \in {event, [event EXCEPT ![e] = IF Made(e) THEN @ ELSE "sent"]}
          /\ IF Google THEN Goto(r, "probe") ELSE NotBooked(r, "uncertain")
    /\ UNCHANGED <<store, rows, owner, local, upsets>>

Land(e) ==
    /\ event[e] = "sent"
    /\ event' = [event EXCEPT ![e] = "live"]
    /\ UNCHANGED <<store, rows, owner, local, pc, reply, upsets>>

\* (Seeded fault: an event not found is taken for one not visible yet.)
ProbeHopeful(r) ==
    /\ At(r, "probe")
    /\ Goto(r, "note")
    /\ UNCHANGED <<store, event, rows, owner, local, upsets>>

\* _settle_create_failure: read the event back.
Probe(r) ==
    LET live == event[Event(r)] = "live" IN
    /\ At(r, "probe")
    /\ \/ live /\ Goto(r, "note")
       \/ ~live /\ Goto(r, "fail")
       \/ NotBooked(r, "uncertain")
    /\ UNCHANGED <<store, event, rows, owner, local, upsets>>

\* Seeded fault: the claim is booked as soon as the event is made.
NoteBooked(r) ==
    /\ At(r, "note")
    /\ Try(r, [mine[r] EXCEPT !.state = "booked", !.appt = Event(r)], Goto(r, "lookup"))
    /\ UNCHANGED <<event, rows, owner, seen, orig, upsets>>

\* note_event; a lost swap goes on with the old copy.
Note(r) ==
    /\ At(r, "note")
    /\ Try(r, mine[r], Goto(r, "lookup"))
    /\ UNCHANGED <<event, rows, owner, seen, orig, upsets>>

\* An appointment already written for this event is the booking.
Lookup(r) ==
    LET e == Event(r) IN
    /\ At(r, "lookup")
    /\ \/ /\ appt[e] = "none" /\ Goto(r, "insert") /\ UNCHANGED <<store, mine>>
       \/ /\ appt[e] # "none"
          /\ Try(r, [mine[r] EXCEPT !.state = "booked", !.appt = e],
                 \/ appt[e] = "standing" /\ Booked(r, "already")
                 \/ NotBooked(r, "uncertain"))
       \/ NotBooked(r, "uncertain") /\ UNCHANGED <<store, mine>>
    /\ UNCHANGED <<event, rows, owner, seen, orig, upsets>>

\* insert_appointment; a row for this event (migration 026) or an outage raises,
\* and the caller is told it is booked either way.
InsertAppointment(r) ==
    LET e == Event(r) IN
    /\ At(r, "insert")
    /\ \/ /\ appt[e] = "none"
          /\ appt' = [appt EXCEPT ![e] = "standing"]
          /\ from' = [from EXCEPT ![e] = IF r \in Replacers THEN orig[r] ELSE Nil]
          /\ (Goto(r, "mark") \/ Booked(r, "booked"))
       \/ Booked(r, "booked") /\ UNCHANGED rows
    /\ UNCHANGED <<store, event, owner, local, upsets>>

MarkBooked(r) ==
    /\ At(r, "mark")
    /\ Try(r, [mine[r] EXCEPT !.state = "booked", !.appt = Event(r)], Booked(r, "booked"))
    /\ UNCHANGED <<event, rows, owner, seen, orig, upsets>>

-----------------------------------------------------------------------------
(* replace_booking: the new booking first, then the earlier one is cancelled *)

\* Which of this call's bookings is swapped out; a booking at the new time that
\* names the one it replaced is a swap to finish.
Look(p) ==
    LET target == {e \in Standing : e[1] = SlotOf[p]} IN
    /\ At(p, "look")
    /\ \/ /\ target = {}
          /\ \E e \in Standing :
                /\ Standing = {e}
                /\ orig' = [orig EXCEPT ![p] = e]
          /\ Goto(p, "own")
       \/ \E e \in target :
             /\ from[e] # Nil
             /\ orig' = [orig EXCEPT ![p] = from[e]]
             /\ Goto(p, "original")
       \/ Answer(p, "unchanged") /\ UNCHANGED orig
    /\ UNCHANGED <<store, event, rows, owner, mine, seen, upsets>>

\* _finish_replacement: the original, re-read.
Original(p) ==
    /\ At(p, "original")
    /\ \/ appt[orig[p]] = "cancelled" /\ Answer(p, "replaced")
       \/ appt[orig[p]] = "standing" /\ Goto(p, "own2")
       \/ Answer(p, "unverified")
    /\ UNCHANGED <<store, event, rows, owner, local, upsets>>

\* acquire_for_cancel; an insert that raised after landing is owned by nobody.
Own(p) ==
    /\ pc[p] \in {"own", "own2"}
    /\ \/ /\ owner[orig[p]] = Nil
          /\ \/ /\ owner' = [owner EXCEPT ![orig[p]] = p]
                /\ Goto(p, IF At(p, "own") THEN "reread" ELSE "reread2")
             \/ owner' = [owner EXCEPT ![orig[p]] = "lost"] /\ Answer(p, "unchanged")
       \/ Answer(p, "unchanged") /\ UNCHANGED owner
    /\ UNCHANGED <<store, event, rows, local, upsets>>

\* (Seeded fault: the earlier booking is cancelled first.)
RereadOldFirst(p) ==
    /\ pc[p] \in {"reread", "reread2"}
    /\ IF appt[orig[p]] = "standing" THEN Goto(p, "cancel") ELSE Goto(p, "release")
    /\ UNCHANGED <<store, event, rows, owner, local, upsets>>

\* The re-read under ownership; a swap to finish goes straight to the cancel.
Reread(p) ==
    /\ pc[p] \in {"reread", "reread2"}
    /\ \/ /\ appt[orig[p]] = "standing"
          /\ Goto(p, IF At(p, "reread") THEN "check" ELSE "cancel")
       \/ Goto(p, "release")
    /\ UNCHANGED <<store, event, rows, owner, local, upsets>>

\* _cancel_replaced: a call that raises may have deleted the event all the same.
CancelOld(p) ==
    /\ At(p, "cancel")
    /\ \/ /\ event' = [event EXCEPT ![orig[p]] = "gone"] /\ Goto(p, "write")
       \/ /\ event' \in {event, [event EXCEPT ![orig[p]] = "gone"]}
          /\ Goto(p, "both")
    /\ UNCHANGED <<store, rows, owner, local, upsets>>

WriteOld(p) ==
    /\ At(p, "write")
    /\ \/ /\ appt' = [appt EXCEPT ![orig[p]] = "cancelled"]
          /\ (Goto(p, "finish") \/ Goto(p, "handover"))
       \/ Goto(p, "handover") /\ UNCHANGED appt
    /\ UNCHANGED <<store, event, from, owner, local, upsets>>

\* to_reconcile; a hand-over that fails leaves the claim with this request.
HandOver(p) ==
    /\ At(p, "handover")
    /\ owner' \in {owner, [owner EXCEPT ![orig[p]] = "reconcile"]}
    /\ Answer(p, "unrecorded")
    /\ UNCHANGED <<store, event, rows, local, upsets>>

\* release, which may fail unseen, and what the caller is told.
ReleaseOld(p) ==
    /\ pc[p] \in {"release", "both", "finish"}
    /\ owner' \in {owner, [owner EXCEPT ![orig[p]] = Nil]}
    /\ \/ At(p, "release") /\ Answer(p, "unchanged")
       \/ At(p, "both") /\ Answer(p, "both")
       \/ At(p, "finish") /\ Answer(p, "replaced")
    /\ UNCHANGED <<store, event, rows, local, upsets>>

-----------------------------------------------------------------------------
(* The caller, time and crashes *)

\* The cancel tool, on an appointment nobody owns.
CallerCancels(e) ==
    /\ upsets < MaxUpsets
    /\ appt[e] = "standing" /\ owner[e] = Nil
    /\ appt' = [appt EXCEPT ![e] = "cancelled"]
    /\ event' = [event EXCEPT ![e] = "gone"]
    /\ upsets' = upsets + 1
    /\ UNCHANGED <<store, from, owner, local, pc, reply>>

\* STALE_SECONDS pass since a claim was last written.
ClaimAges(s) ==
    /\ claim[s].state = "pending" /\ s \notin old
    /\ Prompt => \A r \in Requests : SlotOf[r] = s =>
          pc[r] \notin Owning
    /\ old' = old \cup {s}
    /\ UNCHANGED <<claim, slipped, event, rows, owner, local, pc, reply, upsets>>

Crash(r) ==
    /\ upsets < MaxUpsets
    /\ pc[r] \notin {"done", "crashed", "guard", "look"}
    /\ pc' = [pc EXCEPT ![r] = "crashed"]
    /\ upsets' = upsets + 1
    /\ UNCHANGED <<store, event, rows, owner, local, reply>>

Book(r) ==
    \/ CheckSlot(r) \/ InsertPending(r) \/ ReadBack(r) \/ Take(r) \/ Reopen(r)
    \/ LookUp(r) \/ Decide(r) \/ MarkFailed(r)
    \/ Create(r) \/ Probe(r) \/ Note(r) \/ Lookup(r)
    \/ InsertAppointment(r) \/ MarkBooked(r)

Replace(p) ==
    \/ Look(p) \/ Original(p) \/ Own(p) \/ Reread(p)
    \/ CancelOld(p) \/ WriteOld(p) \/ HandOver(p) \/ ReleaseOld(p)

Next ==
    \/ \E r \in Requests : Book(r) \/ Crash(r)
    \/ \E p \in Replacers : Replace(p)
    \/ \E e \in Ids : CallerCancels(e) \/ Land(e)
    \/ \E s \in Slots : ClaimAges(s)

Spec == Init /\ [][Next]_vars

-----------------------------------------------------------------------------
(* What must hold *)

\* Whatever requests arrive together, die, are retried or taken over, a time of the call
\* has one event, those that may still land included.  Only a claim let go of too early
\* opens the way to a second one.  (A request that stalls past STALE_SECONDS may let it go
\* unseen.)
OneEventPerSlot ==
    Prompt => \A d, e \in Ids :
        Coming(d) /\ Coming(e) /\ d[1] = e[1] /\ d[1] \notin slipped => d = e

\* A retry is answered from the claim alone: whatever requests die, are taken over
\* or settled late, a booked claim names an appointment that was really written.
BookedIsWritten ==
    \A s \in Slots : claim[s].state = "booked" =>
        claim[s].appt # Nil /\ appt[claim[s].appt] # "none"

\* What was told as booked was put in the calendar at that time.
AnswerIsTrue ==
    \A r \in Requests : reply[r] \in {"booked", "already", "replaced", "both", "unrecorded"} =>
        \E e \in Ids : e[1] = SlotOf[r] /\ Made(e)

\* replace_booking: "New first, old second ... If the new one fails, the original
\* stands."  It deletes the earlier event only when one at the new time was made.
NewFirst ==
    [][\A p \in Replacers : pc[p] = "cancel" /\ pc'[p] # "crashed" =>
          \E e \in Ids \ {orig[p]} : e[1] = SlotOf[p] /\ Made(e)]_vars
=============================================================================
