-------------------------- MODULE CallBookingProofs --------------------------
(***************************************************************************)
(* What the bookings of a call keep, for any requests, slots and bounds.   *)
(*                                                                         *)
(* The first invariant, IInv, is about what is written: a claim names only *)
(* appointments that were written, at its own slot; whatever was written   *)
(* was put in the calendar; and a replacement only ever swaps out a        *)
(* booking at another time than its own.  The second, IInv2, is about the  *)
(* attempt of a claim: while no request outlasts STALE_SECONDS, the events *)
(* of a slot are those of its claim's attempt, and who is at work for an   *)
(* earlier attempt finds its appointment written.                          *)
(***************************************************************************)
EXTENDS CallBooking, FiniteSetTheorems, TLAPS

-----------------------------------------------------------------------------
(* The first invariant                                                       *)

USE DEF Made

\* Past the one statement that may count an attempt.
Counted == Labels \ {"guard", "settle", "check", "claim", "take", "reopen", "look", "original",
                     "own", "own2", "reread", "reread2"}

PastTaking == {r \in Requests : pc[r] \in Counted}

\* Every attempt was one request's.
AttemptsCounted == \A s \in Slots : claim[s].attempt <= 1 + Cardinality(PastTaking)

Written(e) == appt[e] # "none"

\* A claim row, or a copy of one, of slot s names an appointment written at that slot;
\* a booked one names some, and one not made yet counts no attempt.
RowOK(row, s) ==
    /\ row.appt # Nil => row.appt \in Ids /\ row.appt[1] = s /\ Written(row.appt)
    /\ row.state = "booked" => row.appt # Nil
    /\ row.state = "none" => row.attempt = 1

\* An event was made at r's slot, and is not the one a replacement swaps out.
MadeAt(r) == \E e \in Ids : e[1] = SlotOf[r] /\ Made(e)
MadeInstead(p) == \E e \in Ids \ {orig[p]} : e[1] = SlotOf[p] /\ Made(e)

\* On the way to book: a replacement there has what it swaps out in hand.
Booking == {"guard", "settle", "own", "reread", "check", "claim", "take", "reopen"} \cup Owning

\* Where a replacement knows that the new booking was made.
Swapping == {"original", "own2", "reread2", "cancel", "write", "handover", "both", "finish"}

Told == {"booked", "already", "replaced", "both", "unrecorded"}

ReqOK(r) ==
    /\ RowOK(mine[r], SlotOf[r])
    /\ pc[r] = "reopen" => mine[r].state = "booked"
    /\ \A e \in seen[r] : Written(e)
    /\ pc[r] \in {"note", "lookup", "insert", "mark"} => Made(Event(r))
    /\ pc[r] = "mark" => Written(Event(r))
    /\ r \in Replacers /\ pc[r] \in Booking => orig[r] \in Ids /\ orig[r][1] # SlotOf[r]
    /\ r \in Replacers /\ pc[r] \in Swapping => orig[r] \in Ids /\ MadeInstead(r)
    /\ pc[r] = "write" => event[orig[r]] = "gone"
    /\ pc[r] \in Swapping \cup {"release"} => r \in Replacers
    /\ reply[r] \in Told => MadeAt(r)

BooksOK ==
    /\ \A s \in Slots : RowOK(claim[s], s)
    /\ \A e \in Ids : Written(e) => Made(e)
    /\ \A e \in Ids : appt[e] = "cancelled" => event[e] = "gone"
    /\ \A e \in Ids : from[e] # Nil => from[e][1] # e[1]

IInv == TypeOK /\ AttemptsCounted /\ BooksOK /\ \A r \in Requests : ReqOK(r)

-----------------------------------------------------------------------------
(* The second invariant                                                      *)

\* At work on a claim: between its taking and its being let go of, or about to restart it.
AtWork == Owning \cup {"reopen"}

\* On the way from the claim taken to the appointment written.
Underway == {"recheck", "resettle", "create", "probe", "note", "lookup", "insert"}

\* The attempt r works for is still the claim's.
Current(r) ==
    /\ claim[SlotOf[r]].state = "pending"
    /\ claim[SlotOf[r]].attempt = mine[r].attempt

Stands(e) == appt[e] = "standing"

\* A slot nobody has claimed has no event, and nobody at work.
NoneYet ==
    \A s \in Slots : claim[s].state = "none" =>
        /\ \A e \in Ids : e[1] = s => event[e] = "none"
        /\ \A r \in Requests : SlotOf[r] = s => pc[r] \notin AtWork

\* What is swapped out was written.
Originals ==
    /\ \A p \in Replacers : orig[p] # Nil => Written(orig[p])
    /\ \A e \in Ids : from[e] # Nil => Written(from[e])

\* No copy is ahead of its claim.
Behind == \A r \in Requests : mine[r].attempt <= claim[SlotOf[r]].attempt

\* Nobody owns a claim that may be taken over.
OldIdle == \A r \in Requests : SlotOf[r] \in old => pc[r] \notin Owning

\* Who has just made a claim is alone with it.
FirstAlone ==
    \A r \in Requests : pc[r] = "readback" =>
        /\ claim[SlotOf[r]].state = "pending"
        /\ \A e \in Ids : Written(e) => e[1] # SlotOf[r]
        /\ \A q \in Requests \ {r} : SlotOf[q] = SlotOf[r] => pc[q] \notin AtWork

\* While one works for the claim's attempt, no other's copy of the claim will swap.
CopiesStale ==
    \A q, r \in Requests :
        pc[r] \in Underway /\ Current(r) /\ q # r /\ SlotOf[q] = SlotOf[r] /\ pc[q] \in Holding
            => mine[q] # claim[SlotOf[r]]

\* What is in the calendar, or written, is the claim's own attempt.
OwnAttempt ==
    \A e \in Ids : (Coming(e) \/ Stands(e)) /\ e[1] \notin slipped =>
        /\ claim[e[1]].state \in {"pending", "booked"}
        /\ claim[e[1]].attempt = e[2]

OwnBooking ==
    \A s \in Slots \ slipped : claim[s].state = "booked" => claim[s].appt = <<s, claim[s].attempt>>

\* Who is to make or to write an event works for the claim's attempt, or it is written.
Harmless ==
    \A r \in Requests : pc[r] \in Underway /\ SlotOf[r] \notin slipped =>
        Current(r) \/ Written(Event(r))

Course == OldIdle /\ FirstAlone /\ CopiesStale /\ OwnAttempt /\ OwnBooking /\ Harmless

Second == NoneYet /\ Behind /\ (Prompt => Course)

IInv2 == IInv /\ Originals /\ Second

-----------------------------------------------------------------------------
(* What the operators of the store do                                        *)

\* The types of all that is not where a request is.
DataOK ==
    /\ claim \in [Slots -> Claims] /\ old \subseteq Slots /\ slipped \subseteq Slots
    /\ event \in [Ids -> {"none", "sent", "live", "gone"}]
    /\ appt \in [Ids -> {"none", "standing", "cancelled"}]
    /\ from \in [Ids -> Ids \cup {Nil}]
    /\ owner \in [Ids -> Replacers \cup {Nil, "reconcile", "lost"}]
    /\ mine \in [Requests -> Claims]
    /\ seen \in [Requests -> SUBSET Ids]
    /\ orig \in [Replacers -> Ids \cup {Nil}]
    /\ reply \in [Requests -> Replies]
    /\ upsets \in 0..MaxUpsets

LEMMA TypeParts == TypeOK <=> DataOK /\ pc \in [Requests -> Labels]
  BY DEF TypeOK, DataOK

LEMMA Counts == Cardinality(Requests) \in Nat /\ IsFiniteSet(Requests)
  BY ConstantsOK, FS_CardinalityType

LEMMA NotNil == Nil \notin Ids
  BY ConstantsOK, Counts DEF Ids, Attempts

\* There is always an updated_at that no copy in use holds.
LEMMA Fresh ==
    ASSUME TypeOK, NEW s \in Slots
    PROVE  /\ FreshVer(s) \in Vers /\ FreshVer(s) # claim[s].ver
           /\ \A r \in Requests : SlotOf[r] = s /\ pc[r] \in Holding => mine[r].ver # FreshVer(s)
<1> DEFINE holders == {q \in Requests : SlotOf[q] = s /\ pc[q] \in Holding}
           used == {claim[s].ver} \cup {mine[r].ver : r \in holders}
           others == Vers \ {claim[s].ver}
<1>1. \E v \in Vers : v \notin used
  <2> SUFFICES ASSUME \A v \in Vers : v \in used PROVE FALSE
    OBVIOUS
  <2>1. IsFiniteSet(Vers) /\ Cardinality(Vers) = Cardinality(Requests) + 2
    <3>1. PICK n \in Nat : n = Cardinality(Requests) + 1
      BY Counts
    <3>2. IsFiniteSet(0..n) /\ Cardinality(0..n) = n + 1
      BY FS_Interval
    <3>. QED
      BY <3>1, <3>2, Counts DEF Vers
  <2>2. claim[s].ver \in Vers
    BY DEF TypeOK, Claims
  <2>3. IsFiniteSet(others) /\ Cardinality(others) = Cardinality(Requests) + 1
    <3>1. IsFiniteSet(Vers \ {claim[s].ver}) /\ Cardinality(Vers \ {claim[s].ver}) = Cardinality(Vers) - 1
      BY <2>1, <2>2, FS_RemoveElement
    <3>. QED
      BY <2>1, <3>1, Counts
  <2>4. \A v \in others : \E r \in holders : mine[r].ver = v
    OBVIOUS
  <2> DEFINE g == [v \in others |-> CHOOSE r \in holders : mine[r].ver = v]
  <2>5. g \in [others -> Requests] /\ \A v \in others : mine[g[v]].ver = v
    BY <2>4
  <2> HIDE DEF g, others
  <2>6. Cardinality(Requests) < Cardinality(others)
    BY <2>3, Counts
  <2>7. \E x, y \in others : x # y /\ g[x] = g[y]
    BY <2>3, <2>5, <2>6, Counts, FS_PigeonHole
  <2>. QED
    BY <2>5, <2>7
<1>2. FreshVer(s) = CHOOSE v \in Vers : v \notin used
  BY DEF FreshVer
<1>. QED
  BY <1>1, <1>2

LEMMA PutDoes ==
    ASSUME TypeOK, NEW s \in Slots, NEW new \in Claims, Put(s, new)
    PROVE  /\ claim' \in [Slots -> Claims] /\ old' = old \ {s} /\ old' \subseteq Slots
           /\ slipped \subseteq slipped' /\ slipped' \subseteq Slots
           /\ slipped' \subseteq slipped \cup {s} /\ (Slips(s, new) => s \in slipped')
           /\ claim'[s].state = new.state /\ claim'[s].attempt = new.attempt
           /\ claim'[s].appt = new.appt /\ claim'[s].ver = FreshVer(s)
           /\ \A t \in Slots \ {s} : claim'[t] = claim[t]
<1>1. FreshVer(s) \in Vers
  BY Fresh
<1>2. PICK c : c = [new EXCEPT !.ver = FreshVer(s)]
  OBVIOUS
<1>3. c \in Claims /\ c.state = new.state /\ c.attempt = new.attempt /\ c.appt = new.appt
      /\ c.ver = FreshVer(s)
  BY <1>1, <1>2 DEF Claims
<1>4. claim' = [claim EXCEPT ![s] = c] /\ old' = old \ {s}
  BY <1>2 DEF Put
<1>5. /\ slipped \subseteq slipped' /\ slipped' \subseteq slipped \cup {s}
      /\ Slips(s, new) => s \in slipped'
  BY DEF Put
<1>. QED
  BY <1>3, <1>4, <1>5 DEF TypeOK

\* The claim's row is swapped for new, or left; the request keeps the new row or its old
\* copy.
Moves(r, row, new) ==
    \/ Swaps(SlotOf[r], row, new) /\ Put(SlotOf[r], new) /\ (Keeps(r) \/ UNCHANGED mine)
    \/ UNCHANGED <<store, mine>>

LEMMA MovesDo ==
    ASSUME IInv, NEW r \in Requests, NEW row, NEW new \in Claims, Moves(r, row, new),
           new.appt \in {row.appt, Nil} \/ RowOK(new, SlotOf[r]),
           new.state = "booked" => new.appt # Nil, new.state = "none" => new.attempt = 1
    PROVE  /\ claim' \in [Slots -> Claims] /\ old' \subseteq Slots /\ slipped' \subseteq Slots
           /\ mine' \in [Requests -> Claims]
           /\ \A q \in Requests \ {r} : mine'[q] = mine[q]
           /\ \A s \in Slots : RowOK(claim'[s], s)
           /\ RowOK(mine'[r], SlotOf[r])
           /\ mine'[r] = mine[r] \/ (mine'[r].state = new.state /\ mine'[r].attempt = new.attempt)
           /\ \A s \in Slots : \/ claim'[s].attempt = claim[s].attempt
                               \/ /\ s = SlotOf[r] /\ claim[s] = row
                                  /\ claim'[s].attempt = new.attempt
<1>1. SlotOf[r] \in Slots /\ TypeOK
  BY ConstantsOK DEF Requests, IInv
<1>2. CASE Swaps(SlotOf[r], row, new) /\ Put(SlotOf[r], new) /\ (Keeps(r) \/ UNCHANGED mine)
  <2>1. /\ claim' \in [Slots -> Claims] /\ old' \subseteq Slots /\ slipped' \subseteq Slots
        /\ claim'[SlotOf[r]].state = new.state /\ claim'[SlotOf[r]].attempt = new.attempt
        /\ claim'[SlotOf[r]].appt = new.appt
        /\ \A t \in Slots \ {SlotOf[r]} : claim'[t] = claim[t]
    BY <1>1, <1>2, PutDoes
  <2>2. mine' \in [Requests -> Claims] /\ \A q \in Requests \ {r} : mine'[q] = mine[q]
    BY <1>1, <1>2, <2>1 DEF Keeps, TypeOK
  <2>3. mine'[r] = mine[r] \/ mine'[r] = claim'[SlotOf[r]]
    BY <1>1, <1>2, <2>1 DEF Keeps, TypeOK
  <2>4. \A s \in Slots : RowOK(claim[s], s)
    BY DEF IInv, BooksOK
  <2>5. \A s \in Slots : RowOK(claim'[s], s)
    <3>1. RowOK(claim'[SlotOf[r]], SlotOf[r])
      BY <1>1, <1>2, <2>1, <2>4 DEF RowOK, Swaps
    <3>. QED
      BY <2>1, <2>4, <3>1
  <2>6. RowOK(mine[r], SlotOf[r])
    BY DEF IInv, ReqOK
  <2>. QED
    <3>1. RowOK(mine'[r], SlotOf[r])
      BY <1>1, <2>3, <2>5, <2>6
    <3>2. mine'[r] = mine[r] \/ (mine'[r].state = new.state /\ mine'[r].attempt = new.attempt)
      BY <2>1, <2>3
    <3>3. \A s \in Slots : \/ claim'[s].attempt = claim[s].attempt
                           \/ /\ s = SlotOf[r] /\ claim[s] = row
                              /\ claim'[s].attempt = new.attempt
      BY <1>2, <2>1 DEF Swaps
    <3>. QED
      BY <2>1, <2>2, <2>5, <3>1, <3>2, <3>3
<1>3. CASE UNCHANGED <<store, mine>>
  BY <1>1, <1>3 DEF IInv, BooksOK, ReqOK, TypeOK, store
<1>. QED
  BY <1>2, <1>3 DEF Moves

-----------------------------------------------------------------------------
(* Frames                                                                    *)

\* What is made, gone or written stays so.
Grows ==
    /\ \A e \in Ids : Made(e) => Made(e)'
    /\ \A e \in Ids : event[e] = "gone" => event'[e] = "gone"
    /\ \A e \in Ids : Written(e) => Written(e)'

LEMMA OthersKept ==
    ASSUME IInv, Grows, NEW q \in Requests,
           pc'[q] = pc[q], reply'[q] = reply[q], mine'[q] = mine[q], seen'[q] = seen[q],
           q \in Replacers => orig'[q] = orig[q]
    PROVE  ReqOK(q)'
<1>1. ReqOK(q) /\ TypeOK
  BY DEF IInv
<1>2. Event(q) \in Ids /\ seen[q] \subseteq Ids /\ mine[q] \in Claims /\ SlotOf[q] \in Slots
  BY <1>1, ConstantsOK DEF TypeOK, Event, Ids, Claims
<1>3. Event(q)' = Event(q)
  BY DEF Event
<1>4. RowOK(mine[q], SlotOf[q])'
  BY <1>1 DEF ReqOK, RowOK, Grows
<1>5. MadeAt(q) => MadeAt(q)'
  BY DEF MadeAt, Grows
<1>6. q \in Replacers /\ MadeInstead(q) => MadeInstead(q)'
  BY DEF MadeInstead, Grows
<1>7. q \in Replacers \/ pc[q] # "write"
  BY <1>1 DEF ReqOK, Swapping
<1>8. pc[q] = "write" => orig[q] \in Ids
  BY <1>1, <1>7 DEF ReqOK, Swapping
<1>. QED
  BY <1>1, <1>2, <1>3, <1>4, <1>5, <1>6, <1>7, <1>8 DEF ReqOK, Grows

\* A step of r, once what it writes and where it goes are right.
LEMMA StepKeeps ==
    ASSUME IInv, Grows, NEW r \in Requests, NEW l \in Labels, pc' = [pc EXCEPT ![r] = l],
           \A q \in Requests \ {r} : reply'[q] = reply[q] /\ mine'[q] = mine[q] /\ seen'[q] = seen[q],
           \A p \in Replacers \ {r} : orig'[p] = orig[p],
           DataOK', BooksOK', ReqOK(r)',
           pc[r] \in Counted => l \in Counted,
           \A s \in Slots : \/ claim'[s].attempt = claim[s].attempt
                            \/ /\ claim'[s].attempt = claim[s].attempt + 1
                               /\ pc[r] \notin Counted /\ l \in Counted
    PROVE  IInv'
<1>1. TypeOK' /\ \A q \in Requests \ {r} : pc'[q] = pc[q]
  BY TypeParts DEF IInv, TypeOK, DataOK
<1>2. \A q \in Requests : ReqOK(q)'
  BY <1>1, OthersKept
<1>3. AttemptsCounted'
  <2>1. pc \in [Requests -> Labels] /\ claim \in [Slots -> Claims]
    BY DEF IInv, TypeOK
  <2>2. IsFiniteSet(PastTaking) /\ IsFiniteSet(PastTaking') /\ PastTaking \subseteq PastTaking'
    BY <1>1, <2>1, Counts, FS_Subset DEF PastTaking
  <2>3. Cardinality(PastTaking) <= Cardinality(PastTaking') /\ Cardinality(PastTaking) \in Nat
        /\ Cardinality(PastTaking') \in Nat
    BY <2>2, FS_Subset, FS_CardinalityType
  <2>4. pc[r] \notin Counted /\ l \in Counted => Cardinality(PastTaking) + 1 <= Cardinality(PastTaking')
    <3> SUFFICES ASSUME pc[r] \notin Counted, l \in Counted
                 PROVE  Cardinality(PastTaking) + 1 <= Cardinality(PastTaking')
      OBVIOUS
    <3>1. r \notin PastTaking /\ PastTaking \cup {r} \in SUBSET PastTaking'
      BY <2>1, <2>2 DEF PastTaking
    <3>2. Cardinality(PastTaking \cup {r}) = Cardinality(PastTaking) + 1
      BY <2>2, <3>1, FS_AddElement
    <3>. QED
      BY <2>2, <3>1, <3>2, FS_Subset
  <2>5. \A s \in Slots : claim[s].attempt <= 1 + Cardinality(PastTaking) /\ claim[s].attempt \in Nat
    BY <2>1 DEF IInv, AttemptsCounted, Claims, Attempts
  <2>. QED
    BY <2>3, <2>4, <2>5 DEF AttemptsCounted
<1>. QED
  BY <1>1, <1>2, <1>3 DEF IInv

\* Who has not counted an attempt yet may.
LEMMA MayTry ==
    ASSUME IInv, NEW r \in Requests, pc[r] \notin Counted, NEW s \in Slots
    PROVE  claim[s].attempt + 1 \in Attempts
<1>1. PastTaking \in SUBSET Requests /\ r \notin PastTaking
  BY DEF PastTaking
<1>2. IsFiniteSet(PastTaking) /\ Cardinality(PastTaking) <= Cardinality(Requests)
      /\ Cardinality(PastTaking) # Cardinality(Requests) /\ Cardinality(PastTaking) \in Nat
  BY <1>1, Counts, FS_Subset, FS_CardinalityType
<1>3. claim[s].attempt \in Nat \ {0} /\ claim[s].attempt <= 1 + Cardinality(PastTaking)
  BY DEF IInv, TypeOK, Claims, Attempts, AttemptsCounted
<1>. QED
  BY <1>2, <1>3, Counts DEF Attempts

\* Where r may go on to, with the row it holds then.
Arrives(r, l) ==
    /\ l \in {"note", "lookup", "insert", "mark"} => Made(Event(r))
    /\ l = "mark" => Written(Event(r))
    /\ r \in Replacers /\ l \in Booking => orig[r] \in Ids /\ orig[r][1] # SlotOf[r]
    /\ r \in Replacers /\ l \in Swapping => orig[r] \in Ids /\ MadeInstead(r)
    /\ l = "write" => event[orig[r]] = "gone"
    /\ l \in Swapping \cup {"release"} => r \in Replacers

\* r goes to l, and what it answers is so.
Goes(r, l) ==
    /\ pc' = [pc EXCEPT ![r] = l] /\ Arrives(r, l)
    /\ pc[r] \in Counted => l \in Counted
    /\ \/ reply' = reply
       \/ \E w \in Replies : reply' = [reply EXCEPT ![r] = w] /\ (w \in Told => MadeAt(r))

LEMMA GoesTo ==
    ASSUME IInv, NEW r \in Requests, NEW l, Goes(r, l)
    PROVE  /\ reply' \in [Requests -> Replies] /\ \A q \in Requests \ {r} : reply'[q] = reply[q]
           /\ reply'[r] \in Told => MadeAt(r)
<1>1. reply \in [Requests -> Replies] /\ (reply[r] \in Told => MadeAt(r))
  BY DEF IInv, TypeOK, ReqOK
<1>. QED
  BY <1>1 DEF Goes

\* A step that writes claims only.
LEMMA StoreKeeps ==
    ASSUME IInv, NEW r \in Requests, NEW l \in Labels, Goes(r, l),
           UNCHANGED <<event, rows, owner, orig, upsets>>,
           claim' \in [Slots -> Claims], old' \subseteq Slots, slipped' \subseteq Slots,
           mine' \in [Requests -> Claims],
           seen' \in [Requests -> SUBSET Ids],
           \A q \in Requests \ {r} : mine'[q] = mine[q] /\ seen'[q] = seen[q],
           \A s \in Slots : RowOK(claim'[s], s), RowOK(mine'[r], SlotOf[r]),
           \A e \in seen'[r] : Written(e),
           l = "reopen" => mine'[r].state = "booked",
           l \in {"note", "lookup", "insert", "mark"} => mine'[r].attempt = mine[r].attempt,
           \A s \in Slots : \/ claim'[s].attempt = claim[s].attempt
                            \/ /\ claim'[s].attempt = claim[s].attempt + 1
                               /\ pc[r] \notin Counted /\ l \in Counted
    PROVE  IInv'
<1>1. UNCHANGED <<event, appt, from, owner, orig, upsets>>
  BY DEF rows
<1>2. reply' \in [Requests -> Replies] /\ (\A q \in Requests \ {r} : reply'[q] = reply[q])
      /\ (reply'[r] \in Told => MadeAt(r))
  BY GoesTo
<1>3. Grows
  BY <1>1 DEF Grows, Written
<1>4. DataOK' /\ BooksOK'
  BY <1>1, <1>2 DEF IInv, TypeOK, DataOK, BooksOK, RowOK, Written
<1>5. pc'[r] = l
  BY DEF Goes, IInv, TypeOK
<1>6. ReqOK(r)'
  <2>1. RowOK(mine[r], SlotOf[r])' /\ (\A e \in seen[r] : Written(e))'
    BY <1>1 DEF RowOK, Written
  <2>2. l \in {"note", "lookup", "insert", "mark"} => Event(r)' = Event(r)
    BY DEF Event
  <2>3. MadeAt(r)' = MadeAt(r) /\ MadeInstead(r)' = MadeInstead(r)
    BY <1>1 DEF MadeAt, MadeInstead
  <2>4. Arrives(r, l)
    BY DEF Goes
  <2>5. /\ pc'[r] = "reopen" => mine'[r].state = "booked"
        /\ pc'[r] \in {"note", "lookup", "insert", "mark"} => Made(Event(r))'
        /\ pc'[r] = "mark" => Written(Event(r))'
        /\ r \in Replacers /\ pc'[r] \in Booking => orig'[r] \in Ids /\ orig'[r][1] # SlotOf[r]
    BY <1>1, <1>5, <2>2, <2>4 DEF Arrives, Written
  <2>6. /\ r \in Replacers /\ pc'[r] \in Swapping => orig'[r] \in Ids /\ MadeInstead(r)'
        /\ pc'[r] = "write" => event'[orig'[r]] = "gone"
        /\ pc'[r] \in Swapping \cup {"release"} => r \in Replacers
        /\ reply'[r] \in Told => MadeAt(r)'
    BY <1>1, <1>2, <1>5, <2>3, <2>4 DEF Arrives
  <2>. QED
    BY <2>1, <2>5, <2>6 DEF ReqOK
<1>7. /\ pc[r] \in Counted => l \in Counted
      /\ \A p \in Replacers \ {r} : orig'[p] = orig[p]
      /\ pc' = [pc EXCEPT ![r] = l]
  BY <1>1 DEF Goes, Arrives
<1>. QED
  BY <1>2, <1>3, <1>4, <1>6, <1>7, StepKeeps

\* A step that only goes on, or answers.
LEMMA WalkKeeps ==
    ASSUME IInv, NEW r \in Requests, NEW l \in Labels \ {"reopen"}, Goes(r, l),
           UNCHANGED <<store, event, rows, owner, local, upsets>>
    PROVE  IInv'
<1>1. UNCHANGED <<claim, old, slipped, mine, seen, orig>>
  BY DEF store, local
<1>2. /\ claim \in [Slots -> Claims] /\ old \subseteq Slots /\ slipped \subseteq Slots
      /\ mine \in [Requests -> Claims]
      /\ seen \in [Requests -> SUBSET Ids] /\ RowOK(mine[r], SlotOf[r]) /\ \A e \in seen[r] : Written(e)
      /\ \A s \in Slots : RowOK(claim[s], s)
  BY DEF IInv, TypeOK, ReqOK, BooksOK
<1>. QED
  BY <1>1, <1>2, StoreKeeps

\* A step that swaps the claim's row, or fails to.
LEMMA SwapKeeps ==
    ASSUME IInv, NEW r \in Requests, NEW l \in Labels \ {"reopen"}, Goes(r, l),
           UNCHANGED <<event, rows, owner, seen, orig, upsets>>,
           NEW row, NEW new \in Claims, Moves(r, row, new),
           new.appt \in {row.appt, Nil} \/ RowOK(new, SlotOf[r]),
           new.state = "booked" => new.appt # Nil, new.state = "none" => new.attempt = 1,
           \/ new.attempt = row.attempt
           \/ new.attempt = row.attempt + 1 /\ pc[r] \notin Counted /\ l \in Counted,
           l \in {"note", "lookup", "insert", "mark"} => new.attempt = mine[r].attempt
    PROVE  IInv'
<1>1. /\ claim' \in [Slots -> Claims] /\ old' \subseteq Slots /\ slipped' \subseteq Slots
      /\ mine' \in [Requests -> Claims]
      /\ \A q \in Requests \ {r} : mine'[q] = mine[q]
      /\ \A s \in Slots : RowOK(claim'[s], s)
      /\ RowOK(mine'[r], SlotOf[r])
      /\ mine'[r] = mine[r] \/ (mine'[r].state = new.state /\ mine'[r].attempt = new.attempt)
      /\ \A s \in Slots : \/ claim'[s].attempt = claim[s].attempt
                          \/ s = SlotOf[r] /\ claim[s] = row /\ claim'[s].attempt = new.attempt
  BY MovesDo
<1>2. /\ seen \in [Requests -> SUBSET Ids] /\ \A e \in seen[r] : Written(e)
  BY DEF IInv, TypeOK, ReqOK
<1>3. \A s \in Slots : \/ claim'[s].attempt = claim[s].attempt
                       \/ /\ claim'[s].attempt = claim[s].attempt + 1
                          /\ pc[r] \notin Counted /\ l \in Counted
  BY <1>1
<1>. QED
  BY <1>1, <1>2, <1>3, StoreKeeps

\* A step that writes the calendar, the appointments or who owns them.
LEMMA BooksStep ==
    ASSUME IInv, Grows, NEW r \in Requests, NEW l \in Labels \ {"reopen"},
           pc' = [pc EXCEPT ![r] = l], pc[r] \in Counted => l \in Counted, Arrives(r, l)',
           UNCHANGED <<store, mine, seen, orig>>, DataOK', BooksOK',
           \A q \in Requests \ {r} : reply'[q] = reply[q], reply'[r] \in Told => MadeAt(r)
    PROVE  IInv'
<1>1. UNCHANGED <<claim, mine, seen, orig>>
  BY DEF store
<1>2. ReqOK(r) /\ pc'[r] = l /\ seen[r] \subseteq Ids
  BY DEF IInv, TypeOK
<1>3. RowOK(mine[r], SlotOf[r])' /\ (\A e \in seen[r] : Written(e))'
  BY <1>1, <1>2 DEF ReqOK, RowOK, Grows
<1>4. MadeAt(r) => MadeAt(r)'
  BY DEF MadeAt, Grows
<1>5. ReqOK(r)'
  BY <1>2, <1>3, <1>4 DEF ReqOK, Arrives
<1>. QED
  BY <1>1, <1>5, StepKeeps

\* The same, once r knows where it goes.
LEMMA BooksGo ==
    ASSUME IInv, Grows, NEW r \in Requests, NEW l \in Labels \ {"reopen"}, Goes(r, l),
           UNCHANGED <<store, mine, seen, orig>>, DataOK', BooksOK'
    PROVE  IInv'
<1>1. Event(r) \in Ids
  BY ConstantsOK DEF IInv, TypeOK, Event, Ids, Claims
<1>2. Event(r)' = Event(r)
  BY DEF Event
<1>3. r \in Replacers /\ MadeInstead(r) => MadeInstead(r)'
  BY DEF MadeInstead, Grows
<1>4. Arrives(r, l)
  BY DEF Goes
<1>5. l = "write" => orig[r] \in Ids
  BY <1>4 DEF Arrives, Swapping
<1>6. Arrives(r, l)'
  BY <1>1, <1>2, <1>3, <1>4, <1>5 DEF Arrives, Grows
<1>. QED
  BY <1>6, GoesTo, BooksStep DEF Goes

\* What the books say of each other is kept where only the calendar grows.
LEMMA GrowsBooks ==
    ASSUME IInv, Grows, UNCHANGED <<claim, appt, from>>
    PROVE  BooksOK'
BY DEF IInv, BooksOK, RowOK, Written, Grows

LEMMA InitIInv == Init => IInv
<1> SUFFICES ASSUME Init PROVE IInv
  OBVIOUS
<1>1. NoClaim \in Claims
  BY Counts DEF NoClaim, Claims, Attempts, Vers
<1>2. TypeOK
  BY <1>1, ConstantsOK DEF Init, TypeOK, Labels, Replies
<1>3. AttemptsCounted
  <2>1. PastTaking \in SUBSET Requests
    BY DEF PastTaking
  <2>2. Cardinality(PastTaking) \in Nat
    BY <2>1, Counts, FS_Subset, FS_CardinalityType
  <2>. QED
    BY <2>2 DEF Init, AttemptsCounted, NoClaim
<1>4. BooksOK
  BY DEF Init, BooksOK, RowOK, NoClaim, Written
<1>5. ASSUME NEW r \in Requests PROVE ReqOK(r)
  BY ConstantsOK DEF Init, ReqOK, RowOK, NoClaim, Booking, Swapping, Owning, Told, Requests
<1>. QED
  BY <1>2, <1>3, <1>4, <1>5 DEF IInv

-----------------------------------------------------------------------------
(* How a request ends or goes on                                             *)

\* A refusal: a replacement gives its booking back, a booker answers.
LEMMA RefusedGoes ==
    ASSUME IInv, NEW r \in Requests, NEW w \in Replies,
           NotBooked(r, w) \/ Answer(r, w), w \in Told => MadeAt(r)
    PROVE  \E l \in {"release", "done"} : Goes(r, l)
<1>1. CASE r \in Replacers /\ Goto(r, "release")
  BY <1>1 DEF Goto, Goes, Arrives, Booking, Owning, Swapping, Counted, Labels
<1>2. CASE Answer(r, w)
  BY <1>2 DEF Answer, Goes, Arrives, Booking, Owning, Swapping, Counted, Labels
<1>. QED
  BY <1>1, <1>2 DEF NotBooked

\* A booking made or found: a replacement goes on to cancel the earlier one.
LEMMA BookedGoes ==
    ASSUME IInv, NEW r \in Requests, NEW w \in Replies, Booked(r, w), pc[r] \in Booking, MadeAt(r)
    PROVE  \E l \in {"cancel", "done"} : Goes(r, l)
<1>1. CASE r \in Replacers
  <2>1. orig[r] \in Ids /\ orig[r][1] # SlotOf[r]
    BY <1>1 DEF IInv, ReqOK
  <2>2. MadeInstead(r)
    BY <2>1 DEF MadeAt, MadeInstead
  <2>. QED
    BY <1>1, <2>1, <2>2 DEF Booked, Goto, Goes, Arrives, Booking, Owning, Swapping, Counted, Labels
<1>2. CASE r \notin Replacers
  BY <1>2 DEF Booked, Answer, Goes, Arrives, Booking, Owning, Swapping, Counted, Labels
<1>. QED
  BY <1>1, <1>2

\* On to a step of the booking.
LEMMA BookingGoes ==
    ASSUME IInv, NEW r \in Requests, NEW l \in Booking, Goto(r, l), r \in Bookers \/ pc[r] \in Booking,
           pc[r] \in Counted => l \in Counted,
           l \in {"note", "lookup", "insert", "mark"} => Made(Event(r)),
           l = "mark" => Written(Event(r))
    PROVE  Goes(r, l)
<1>1. r \in Replacers => orig[r] \in Ids /\ orig[r][1] # SlotOf[r]
  BY ConstantsOK DEF IInv, ReqOK
<1>2. l \notin Swapping \cup {"release"}
  BY DEF Booking, Owning, Swapping
<1>. QED
  BY <1>1, <1>2 DEF Goto, Goes, Arrives, Swapping

LEMMA Who == ASSUME IInv, NEW r \in Requests
             PROVE  r \in Bookers \/ r \in Replacers
  BY DEF Requests

\* The event of the claim a request holds is at its slot.
LEMMA EventAt ==
    ASSUME IInv, NEW r \in Requests
    PROVE  Event(r) \in Ids /\ Event(r)[1] = SlotOf[r] /\ SlotOf[r] \in Slots
           /\ (Made(Event(r)) => MadeAt(r))
<1>1. Event(r) \in Ids /\ Event(r)[1] = SlotOf[r] /\ SlotOf[r] \in Slots
  BY ConstantsOK DEF IInv, TypeOK, Event, Ids, Claims
<1>. QED
  BY <1>1 DEF MadeAt

\* A claim's labels are those of its taking and what follows.
LEMMA Listed ==
    /\ Owning \subseteq Booking /\ Booking \subseteq Labels
    /\ Owning \subseteq Counted
    /\ {"release", "done", "cancel"} \subseteq Labels \cap Counted
    /\ "reopen" \notin {"release", "done", "cancel"} \cup Owning
    /\ {"check", "claim", "take", "reopen"} \cap Counted = {}
  BY DEF Owning, Booking, Labels, Counted

-----------------------------------------------------------------------------
(* The slot and its claim                                                    *)

LEMMA CheckSlotStep == ASSUME IInv, NEW r \in Requests, CheckSlot(r) PROVE IInv'
<1>1. UNCHANGED <<store, event, rows, owner, local, upsets>> /\ pc[r] = "check"
  BY DEF CheckSlot, At
<1>2. CASE Goto(r, "claim")
  <2>1. Goes(r, "claim")
    BY <1>1, <1>2, BookingGoes, Who, Listed DEF Booking
  <2>. QED
    BY <1>1, <2>1, WalkKeeps DEF Labels
<1>3. CASE NotBooked(r, "refused")
  <2>1. \E l \in {"release", "done"} : Goes(r, l)
    BY <1>3, RefusedGoes DEF Replies, Told
  <2>. QED
    BY <1>1, <2>1, WalkKeeps DEF Labels
<1>. QED
  BY <1>2, <1>3 DEF CheckSlot

LEMMA InsertPendingStep == ASSUME IInv, NEW r \in Requests, InsertPending(r) PROVE IInv'
<1>1. UNCHANGED <<event, rows, owner, mine, seen, orig, upsets>> /\ pc[r] = "claim"
  BY DEF InsertPending, At, local
<1>2. \E l \in {"readback", "take", "release", "done"} : Goes(r, l)
  <2>1. CASE \E l \in {"readback", "take"} : Goto(r, l)
    BY <1>1, <2>1, BookingGoes, Listed DEF Booking, Owning
  <2>2. CASE NotBooked(r, "error")
    BY <2>2, RefusedGoes DEF Replies, Told
  <2>. QED
    BY <2>1, <2>2 DEF InsertPending
<1>3. PICK new : new = [NoClaim EXCEPT !.state = "pending"]
  OBVIOUS
<1>4. new \in Claims /\ new.state = "pending" /\ new.attempt = 1 /\ new.appt = Nil
  BY <1>3, Counts DEF NoClaim, Claims, Attempts, Vers
<1>5. SlotOf[r] \in Slots /\ TypeOK
  BY EventAt DEF IInv
<1>6. /\ mine \in [Requests -> Claims] /\ seen \in [Requests -> SUBSET Ids]
      /\ RowOK(mine[r], SlotOf[r]) /\ \A e \in seen[r] : Written(e)
  BY DEF IInv, TypeOK, ReqOK
<1>7. CASE claim[SlotOf[r]].state = "none" /\ Put(SlotOf[r], new)
  <2>1. claim[SlotOf[r]].attempt = 1 /\ \A s \in Slots : RowOK(claim[s], s)
    BY <1>5, <1>7 DEF IInv, BooksOK, RowOK
  <2>2. /\ claim' \in [Slots -> Claims] /\ old' \subseteq Slots /\ slipped' \subseteq Slots
        /\ claim'[SlotOf[r]].state = "pending" /\ claim'[SlotOf[r]].attempt = 1
        /\ claim'[SlotOf[r]].appt = Nil
        /\ \A t \in Slots \ {SlotOf[r]} : claim'[t] = claim[t]
    BY <1>4, <1>5, <1>7, PutDoes
  <2>3. \A s \in Slots : RowOK(claim'[s], s) /\ claim'[s].attempt = claim[s].attempt
    BY <2>1, <2>2 DEF RowOK
  <2>. QED
    <3>1. PICK l \in {"readback", "take", "release", "done"} : Goes(r, l)
      BY <1>2
    <3>2. l \in Labels
      BY DEF Labels, Owning
    <3>. QED
      BY <1>1, <1>6, <2>2, <2>3, <3>1, <3>2, StoreKeeps
<1>8. CASE UNCHANGED store
  <2>1. PICK l \in {"readback", "take", "release", "done"} : Goes(r, l)
    BY <1>2
  <2>2. l \in Labels
    BY DEF Labels, Owning
  <2>. QED
    BY <1>1, <1>8, <2>1, <2>2, WalkKeeps DEF local
<1>. QED
  BY <1>3, <1>7, <1>8 DEF InsertPending

LEMMA ReadBackStep == ASSUME IInv, NEW r \in Requests, ReadBack(r) PROVE IInv'
<1>1. UNCHANGED <<store, event, rows, owner, seen, orig, upsets>> /\ pc[r] = "readback"
      /\ UNCHANGED <<claim, old, slipped>>
  BY DEF ReadBack, At, store
<1>2. /\ claim \in [Slots -> Claims] /\ old \subseteq Slots /\ slipped \subseteq Slots
      /\ mine \in [Requests -> Claims]
      /\ seen \in [Requests -> SUBSET Ids] /\ RowOK(mine[r], SlotOf[r]) /\ \A e \in seen[r] : Written(e)
      /\ \A s \in Slots : RowOK(claim[s], s)
  BY DEF IInv, TypeOK, ReqOK, BooksOK
<1>3. CASE mine' = [mine EXCEPT ![r] = claim[SlotOf[r]]] /\ Goto(r, "recheck")
  <2>1. Goes(r, "recheck")
    BY <1>1, <1>3, BookingGoes, Listed DEF Booking, Owning
  <2>2. mine' \in [Requests -> Claims] /\ RowOK(mine'[r], SlotOf[r])
        /\ \A q \in Requests \ {r} : mine'[q] = mine[q]
    BY <1>2, <1>3, EventAt
  <2>. QED
    BY <1>1, <1>2, <2>1, <2>2, StoreKeeps DEF Labels, Owning
<1>4. CASE NotBooked(r, "error") /\ UNCHANGED mine
  <2>1. \E l \in {"release", "done"} : Goes(r, l)
    BY <1>4, RefusedGoes DEF Replies, Told
  <2>. QED
    BY <1>1, <1>4, <2>1, WalkKeeps DEF Labels, local
<1>. QED
  BY <1>3, <1>4 DEF ReadBack

\* What a request does once it tried to take a claim over.
LEMMA TakenGoes ==
    ASSUME IInv, NEW r \in Requests, pc[r] \in {"take", "reopen"},
           Goto(r, "recheck") \/ NotBooked(r, "in_progress") \/ NotBooked(r, "error")
    PROVE  \E l \in {"recheck", "release", "done"} : Goes(r, l) /\ l \in Labels \cap Counted
<1>1. CASE Goto(r, "recheck")
  <2>1. Goes(r, "recheck")
    BY <1>1, BookingGoes, Listed DEF Booking, Owning
  <2>. QED
    BY <2>1, Listed DEF Owning, Labels
<1>2. CASE NotBooked(r, "in_progress") \/ NotBooked(r, "error")
  <2>1. \E l \in {"release", "done"} : Goes(r, l)
    BY <1>2, RefusedGoes DEF Replies, Told
  <2>. QED
    BY <2>1, Listed
<1>. QED
  BY <1>1, <1>2

LEMMA TakeStep == ASSUME IInv, NEW r \in Requests, Take(r) PROVE IInv'
<1> DEFINE row == claim[SlotOf[r]]
           retry == [row EXCEPT !.state = "pending", !.attempt = @ + 1]
           won == Goto(r, "recheck")
           lost == NotBooked(r, "in_progress")
           raised == NotBooked(r, "error")
<1>1. UNCHANGED <<event, rows, owner, seen, orig, upsets>> /\ pc[r] = "take" /\ SlotOf[r] \in Slots
  BY EventAt DEF Take, At
<1>2. row \in Claims /\ RowOK(row, SlotOf[r])
  BY <1>1 DEF IInv, TypeOK, BooksOK
<1>3. pc[r] \notin Counted
  BY <1>1, Listed
<1>4. CASE UNCHANGED <<store, mine>> /\ (NotBooked(r, "busy") \/ lost \/ raised)
  <2>1. \E l \in {"release", "done"} : Goes(r, l)
    BY <1>4, RefusedGoes DEF Replies, Told
  <2>. QED
    BY <1>1, <1>4, <2>1, WalkKeeps DEF Labels, local
<1>5. CASE row.state = "booked" /\ Goto(r, "reopen") /\ mine' = [mine EXCEPT ![r] = row] /\ UNCHANGED store
  <2>1. Goes(r, "reopen")
    BY <1>1, <1>3, <1>5, BookingGoes, Listed DEF Booking
  <2>2. /\ claim \in [Slots -> Claims] /\ old \subseteq Slots /\ slipped \subseteq Slots
        /\ mine \in [Requests -> Claims]
        /\ seen \in [Requests -> SUBSET Ids] /\ \A e \in seen[r] : Written(e)
        /\ \A s \in Slots : RowOK(claim[s], s)
    BY DEF IInv, TypeOK, ReqOK, BooksOK
  <2>3. mine' \in [Requests -> Claims] /\ mine'[r] = row /\ \A q \in Requests \ {r} : mine'[q] = mine[q]
    BY <1>2, <1>5, <2>2
  <2>4. UNCHANGED <<claim, old, slipped>>
    BY <1>5 DEF store
  <2>. QED
    BY <1>1, <1>2, <1>5, <2>1, <2>2, <2>3, <2>4, StoreKeeps DEF Labels
<1>6. CASE row.state = "failed" /\ Transition(r, row, retry, won, lost, raised)
  <2>1. PICK new : new = retry
    OBVIOUS
  <2>2. row.attempt + 1 \in Attempts
    BY <1>1, <1>3, MayTry
  <2>3. new \in Claims /\ new.state = "pending" /\ new.attempt = row.attempt + 1 /\ new.appt = row.appt
    BY <1>2, <2>1, <2>2 DEF Claims
  <2>4. Moves(r, row, new) /\ (won \/ lost \/ raised)
    BY <1>6, <2>1 DEF Transition, Moves, Swaps
  <2>5. PICK l \in {"recheck", "release", "done"} : Goes(r, l) /\ l \in Labels \cap Counted
    BY <1>1, <2>4, TakenGoes
  <2>. HIDE DEF row
  <2>. QED
    BY <1>1, <1>3, <2>3, <2>4, <2>5, SwapKeeps
<1>7. CASE row.state = "pending" /\ Transition(r, row, row, won, lost, raised)
  <2>1. Moves(r, row, row) /\ (won \/ lost \/ raised)
    BY <1>7 DEF Transition, Moves, Swaps
  <2>2. PICK l \in {"recheck", "release", "done"} : Goes(r, l) /\ l \in Labels \cap Counted
    BY <1>1, <2>1, TakenGoes
  <2>. HIDE DEF row
  <2>. QED
    BY <1>1, <1>2, <1>7, <2>1, <2>2, SwapKeeps
<1>. QED
  BY <1>4, <1>5, <1>6, <1>7 DEF Take

LEMMA ReopenStep == ASSUME IInv, NEW r \in Requests, Reopen(r) PROVE IInv'
<1> DEFINE held == mine[r]
           stands == held.appt # Nil /\ appt[held.appt] = "standing"
           again == [held EXCEPT !.state = "pending", !.attempt = @ + 1, !.appt = Nil]
           won == Goto(r, "recheck")
           lost == NotBooked(r, "in_progress")
           raised == NotBooked(r, "error")
<1>1. UNCHANGED <<event, rows, owner, seen, orig, upsets>> /\ pc[r] = "reopen" /\ SlotOf[r] \in Slots
  BY EventAt DEF Reopen, At
<1>2. held \in Claims /\ RowOK(held, SlotOf[r])
  BY DEF IInv, TypeOK, ReqOK
<1>3. pc[r] \notin Counted
  BY <1>1, Listed
<1>4. CASE stands /\ Booked(r, "already") /\ UNCHANGED <<store, mine>>
  <2>1. MadeAt(r)
    BY <1>2, <1>4 DEF RowOK, IInv, BooksOK, MadeAt
  <2>2. \E l \in {"cancel", "done"} : Goes(r, l)
    BY <1>1, <1>4, <2>1, BookedGoes DEF Replies, Booking
  <2>. QED
    BY <1>1, <1>4, <2>2, WalkKeeps DEF Labels, local
<1>5. CASE NotBooked(r, "uncertain") /\ UNCHANGED <<store, mine>>
  <2>1. \E l \in {"release", "done"} : Goes(r, l)
    BY <1>5, RefusedGoes DEF Replies, Told
  <2>. QED
    BY <1>1, <1>5, <2>1, WalkKeeps DEF Labels, local
<1>6. CASE Transition(r, held, again, won, lost, raised)
  <2>1. won \/ lost \/ raised
    BY <1>6 DEF Transition
  <2>2. PICK l \in {"recheck", "release", "done"} : Goes(r, l) /\ l \in Labels \cap Counted
    BY <1>1, <2>1, TakenGoes
  <2>3. CASE claim[SlotOf[r]] = held
    <3>1. PICK new : new = again
      OBVIOUS
    <3>2. held.attempt + 1 \in Attempts
      BY <1>1, <1>3, <2>3, MayTry
    <3>3. new \in Claims /\ new.state = "pending" /\ new.attempt = held.attempt + 1 /\ new.appt = Nil
      BY <1>2, <3>1, <3>2 DEF Claims
    <3>4. Moves(r, held, new)
      BY <1>6, <3>1 DEF Transition, Moves, Swaps
    <3>. HIDE DEF held
    <3>. QED
      BY <1>1, <1>3, <2>2, <3>3, <3>4, SwapKeeps
  <2>4. CASE claim[SlotOf[r]] # held
    <3>1. UNCHANGED <<store, mine>>
      BY <1>6, <2>4 DEF Transition, Swaps
    <3>. QED
      BY <1>1, <2>2, <3>1, WalkKeeps DEF local
  <2>. QED
    BY <2>3, <2>4
<1>. QED
  BY <1>4, <1>5, <1>6 DEF Reopen

-----------------------------------------------------------------------------
(* The guard, before the claim and under it                                  *)

LEMMA LookUpStep == ASSUME IInv, NEW r \in Requests, LookUp(r) PROVE IInv'
<1>1. UNCHANGED <<store, event, rows, owner, mine, orig, upsets>> /\ pc[r] \in {"guard", "recheck"}
      /\ UNCHANGED <<claim, old, slipped>>
  BY DEF LookUp, store
<1>2. /\ claim \in [Slots -> Claims] /\ old \subseteq Slots /\ slipped \subseteq Slots
      /\ mine \in [Requests -> Claims]
      /\ seen \in [Requests -> SUBSET Ids] /\ RowOK(mine[r], SlotOf[r]) /\ \A e \in seen[r] : Written(e)
      /\ \A s \in Slots : RowOK(claim[s], s)
  BY DEF IInv, TypeOK, ReqOK, BooksOK
<1>3. PICK l \in {"settle", "resettle", "fail", "done"} : Goes(r, l)
  <2>1. CASE Goto(r, IF At(r, "guard") THEN "settle" ELSE "resettle")
    <3>1. CASE pc[r] = "guard" /\ Goto(r, "settle")
      <4>1. "settle" \in Booking /\ pc[r] \in Booking /\ pc[r] \notin Counted
        BY <3>1 DEF Booking, Counted
      <4>2. Goes(r, "settle")
        BY <3>1, <4>1, BookingGoes
      <4>. QED
        BY <4>2
    <3>2. CASE pc[r] = "recheck" /\ Goto(r, "resettle")
      <4>1. Goes(r, "resettle")
        BY <3>2, BookingGoes, Listed DEF Owning
      <4>. QED
        BY <4>1
    <3>. QED
      BY <1>1, <2>1, <3>1, <3>2 DEF At
  <2>2. CASE Goto(r, "fail") /\ pc[r] = "recheck"
    <3>1. Goes(r, "fail")
      BY <2>2, BookingGoes, Listed DEF Owning
    <3>. QED
      BY <3>1
  <2>3. CASE Answer(r, "refused")
    <3>1. Goes(r, "done")
      BY <2>3 DEF Answer, Goes, Arrives, Booking, Owning, Swapping, Counted, Labels, Replies, Told
    <3>. QED
      BY <3>1
  <2>. QED
    BY <1>1, <2>1, <2>2, <2>3 DEF LookUp, At
<1>4. /\ seen' \in [Requests -> SUBSET Ids] /\ (\A e \in seen'[r] : Written(e))
      /\ \A q \in Requests \ {r} : seen'[q] = seen[q]
  <2>1. CASE UNCHANGED seen
    BY <1>2, <2>1
  <2>2. CASE seen' = [seen EXCEPT ![r] = Standing]
    BY <1>2, <2>2 DEF Standing, Written
  <2>. QED
    BY <2>1, <2>2 DEF LookUp
<1>5. l \in Labels
  BY DEF Labels, Owning
<1>. QED
  BY <1>1, <1>2, <1>3, <1>4, <1>5, StoreKeeps

\* A settled claim names a booking its settler has read.
LEMMA Settled ==
    ASSUME IInv, NEW r \in Requests, Settle(seen[r])
    PROVE  /\ claim' \in [Slots -> Claims] /\ old' \subseteq Slots /\ slipped' \subseteq Slots
           /\ \A s \in Slots : RowOK(claim'[s], s) /\ claim'[s].attempt = claim[s].attempt
<1>1. /\ claim \in [Slots -> Claims] /\ old \subseteq Slots /\ slipped \subseteq Slots
      /\ seen[r] \subseteq Ids
      /\ (\A e \in seen[r] : Written(e)) /\ \A s \in Slots : RowOK(claim[s], s)
  BY DEF IInv, TypeOK, ReqOK, BooksOK
<1>2. CASE UNCHANGED store
  BY <1>1, <1>2 DEF store
<1>3. ASSUME NEW s \in Slots, NEW e \in seen[r], e[1] = s,
             Put(s, [claim[s] EXCEPT !.state = "booked", !.appt = e])
      PROVE  /\ claim' \in [Slots -> Claims] /\ old' \subseteq Slots /\ slipped' \subseteq Slots
             /\ \A t \in Slots : RowOK(claim'[t], t) /\ claim'[t].attempt = claim[t].attempt
  <2>1. PICK new : new = [claim[s] EXCEPT !.state = "booked", !.appt = e]
    OBVIOUS
  <2>2. new \in Claims /\ new.state = "booked" /\ new.appt = e /\ new.attempt = claim[s].attempt /\ e # Nil
    <3>1. new \in Claims /\ new.state = "booked" /\ new.appt = e /\ new.attempt = claim[s].attempt
      BY <1>1, <2>1 DEF Claims
    <3>. QED
      BY <1>1, <3>1, NotNil
  <2>3. TypeOK /\ Put(s, new)
    BY <1>3, <2>1 DEF IInv
  <2>4. /\ claim' \in [Slots -> Claims] /\ old' \subseteq Slots /\ slipped' \subseteq Slots
        /\ claim'[s].state = "booked" /\ claim'[s].attempt = claim[s].attempt
        /\ claim'[s].appt = e
        /\ \A t \in Slots \ {s} : claim'[t] = claim[t]
    BY <2>2, <2>3, PutDoes
  <2>5. RowOK(claim'[s], s)
    BY <1>1, <1>3, <2>2, <2>4 DEF RowOK
  <2>. QED
    BY <1>1, <2>4, <2>5
<1>. QED
  BY <1>2, <1>3 DEF Settle

LEMMA DecideStep == ASSUME IInv, NEW r \in Requests, Decide(r) PROVE IInv'
<1>1. UNCHANGED <<event, rows, owner, mine, orig, upsets>> /\ pc[r] \in {"settle", "resettle"}
      /\ Settle(seen[r]) /\ seen' = [seen EXCEPT ![r] = {}]
  BY DEF Decide
<1>2. /\ mine \in [Requests -> Claims] /\ seen \in [Requests -> SUBSET Ids]
      /\ RowOK(mine[r], SlotOf[r])
  BY DEF IInv, TypeOK, ReqOK
<1>3. pc[r] \in Booking
  BY <1>1 DEF Booking, Owning
<1>4. PICK l \in {"check", "create", "fail", "release", "done"} : Goes(r, l)
  <2>1. CASE AtSlot(r, Earlier(r, seen[r])) /\ NotBooked(r, "already")
    <3>1. MadeAt(r)
      <4>1. PICK e \in seen[r] : e[1] = SlotOf[r]
        BY <2>1 DEF AtSlot, Earlier
      <4>2. e \in Ids /\ Written(e)
        BY <1>2 DEF IInv, ReqOK
      <4>. QED
        BY <4>1, <4>2 DEF IInv, BooksOK, MadeAt
    <3>2. \E l \in {"release", "done"} : Goes(r, l)
      BY <2>1, <3>1, RefusedGoes DEF Replies
    <3>. QED
      BY <3>2
  <2>2. CASE Goto(r, "check") /\ pc[r] = "settle"
    <3>1. "check" \in Booking /\ pc[r] \notin Counted
      BY <2>2 DEF Booking, Counted
    <3>2. Goes(r, "check")
      BY <1>3, <2>2, <3>1, BookingGoes
    <3>. QED
      BY <3>2
  <2>3. CASE \E l \in {"create", "fail"} : Goto(r, l)
    <3>1. PICK l \in {"create", "fail"} : Goto(r, l)
      BY <2>3
    <3>2. l \in Booking \cap Counted
      BY <3>1, Listed DEF Owning
    <3>3. Goes(r, l)
      BY <1>3, <3>1, <3>2, BookingGoes
    <3>. QED
      BY <3>3
  <2>4. CASE Answer(r, "refused")
    <3>1. \E l \in {"release", "done"} : Goes(r, l)
      BY <2>4, RefusedGoes DEF Replies, Told
    <3>. QED
      BY <3>1
  <2>. QED
    BY <1>1, <2>1, <2>2, <2>3, <2>4 DEF Decide, At
<1>5. /\ claim' \in [Slots -> Claims] /\ old' \subseteq Slots /\ slipped' \subseteq Slots
      /\ \A s \in Slots : RowOK(claim'[s], s) /\ claim'[s].attempt = claim[s].attempt
  BY <1>1, Settled
<1>6. /\ seen' \in [Requests -> SUBSET Ids] /\ (\A e \in seen'[r] : Written(e))
      /\ \A q \in Requests \ {r} : seen'[q] = seen[q]
  BY <1>1, <1>2
<1>7. l \in Labels /\ l # "reopen" /\ l \notin {"note", "lookup", "insert", "mark"}
  BY DEF Labels, Owning
<1>. QED
  BY <1>1, <1>2, <1>4, <1>5, <1>6, <1>7, StoreKeeps

LEMMA MarkFailedStep == ASSUME IInv, NEW r \in Requests, MarkFailed(r) PROVE IInv'
<1>1. PICK new : new = [mine[r] EXCEPT !.state = "failed"]
  OBVIOUS
<1>2. new \in Claims /\ new.state = "failed" /\ new.attempt = mine[r].attempt /\ new.appt = mine[r].appt
  BY <1>1 DEF IInv, TypeOK, Claims
<1>3. Moves(r, mine[r], new) /\ NotBooked(r, "refused")
  BY <1>1 DEF MarkFailed, Try, Transition, Moves, Swaps
<1>4. PICK l \in {"release", "done"} : Goes(r, l)
  BY <1>3, RefusedGoes DEF Replies, Told
<1>5. l \in Labels
  BY DEF Labels
<1>6. UNCHANGED <<event, rows, owner, seen, orig, upsets>>
  BY DEF MarkFailed
<1>. QED
  BY <1>2, <1>3, <1>4, <1>5, <1>6, SwapKeeps

-----------------------------------------------------------------------------
(* From the calendar to the appointment's row                                *)

LEMMA CreateStep == ASSUME IInv, NEW r \in Requests, Create(r) PROVE IInv'
<1>1. UNCHANGED <<store, rows, owner, local, upsets>> /\ pc[r] = "create"
      /\ UNCHANGED <<claim, old, slipped, appt, from, mine, seen, orig>>
  BY DEF Create, At, store, rows, local
<1>2. pc[r] \in Booking \cap Counted
  BY <1>1, Listed DEF Owning
<1>3. PICK e : e = Event(r)
  OBVIOUS
<1>4. e \in Ids /\ e[1] = SlotOf[r] /\ (r \in Replacers => orig[r] \in Ids /\ orig[r][1] # SlotOf[r])
  BY <1>2, <1>3, EventAt DEF IInv, ReqOK
<1>5. \/ event' = event
      \/ event[e] # "gone" /\ event' = [event EXCEPT ![e] = "live"]
      \/ ~Made(e) /\ event' = [event EXCEPT ![e] = "sent"]
  <2>1. Made(e) => [event EXCEPT ![e] = event[e]] = event
    BY <1>4 DEF IInv, TypeOK
  <2>. QED
    BY <1>3, <2>1 DEF Create
<1>6. event' \in [Ids -> {"none", "sent", "live", "gone"}] /\ Grows
  BY <1>1, <1>4, <1>5 DEF IInv, TypeOK, Grows, Written
<1>7. BooksOK'
  BY <1>1, <1>6, GrowsBooks
<1>8. CASE event' = [event EXCEPT ![e] = "live"] /\ Goto(r, "note")
  <2>1. event'[e] = "live" /\ Event(r)' = e
    BY <1>1, <1>3, <1>4, <1>8 DEF IInv, TypeOK, Event
  <2>2. Arrives(r, "note")'
    BY <1>1, <1>4, <2>1 DEF Arrives, Booking, Owning, Swapping
  <2>3. DataOK' /\ reply' = reply /\ pc' = [pc EXCEPT ![r] = "note"]
    BY <1>1, <1>6, <1>8 DEF Goto, IInv, TypeOK, DataOK
  <2>4. reply'[r] \in Told => MadeAt(r)
    BY <2>3 DEF IInv, ReqOK
  <2>. QED
    BY <1>1, <1>2, <1>6, <1>7, <2>2, <2>3, <2>4, Listed, BooksStep DEF Owning, Labels, Counted
<1>9. CASE Goto(r, "fail") \/ Goto(r, "probe") \/ NotBooked(r, "uncertain")
  <2>1. PICK l \in {"fail", "probe", "release", "done"} : Goes(r, l)
    <3>1. CASE \E l \in {"fail", "probe"} : Goto(r, l)
      <4>1. PICK l \in {"fail", "probe"} : Goto(r, l)
        BY <3>1
      <4>2. l \in Booking \cap Counted
        BY <4>1, Listed DEF Owning
      <4>3. Goes(r, l)
        BY <1>2, <4>1, <4>2, BookingGoes
      <4>. QED
        BY <4>3
    <3>2. CASE NotBooked(r, "uncertain")
      <4>1. \E l \in {"release", "done"} : Goes(r, l)
        BY <3>2, RefusedGoes DEF Replies, Told
      <4>. QED
        BY <4>1
    <3>. QED
      BY <1>9, <3>1, <3>2
  <2>2. DataOK'
    BY <1>1, <1>6, <2>1, GoesTo DEF IInv, TypeOK, DataOK
  <2>3. l \in Labels
    BY DEF Labels, Owning
  <2>. QED
    BY <1>1, <1>6, <1>7, <2>1, <2>2, <2>3, BooksGo
<1>. QED
  BY <1>3, <1>8, <1>9 DEF Create

LEMMA LandStep == ASSUME IInv, NEW e \in Ids, Land(e) PROVE IInv'
<1>1. UNCHANGED <<claim, old, slipped, appt, from, owner, mine, seen, orig, pc, reply, upsets>>
      /\ event[e] = "sent" /\ event' = [event EXCEPT ![e] = "live"]
  BY DEF Land, store, rows, local
<1>2. event' \in [Ids -> {"none", "sent", "live", "gone"}] /\ Grows
  BY <1>1 DEF IInv, TypeOK, Grows, Written
<1>3. BooksOK'
  BY <1>1, <1>2, GrowsBooks
<1>4. TypeOK' /\ AttemptsCounted'
  BY <1>1, <1>2 DEF IInv, TypeOK, AttemptsCounted, PastTaking
<1>5. \A q \in Requests : ReqOK(q)'
  BY <1>1, <1>2, OthersKept
<1>. QED
  BY <1>3, <1>4, <1>5 DEF IInv

LEMMA ProbeStep == ASSUME IInv, NEW r \in Requests, Probe(r) PROVE IInv'
<1>1. UNCHANGED <<store, event, rows, owner, local, upsets>> /\ pc[r] = "probe"
  BY DEF Probe, At
<1>2. pc[r] \in Booking \cap Counted
  BY <1>1, Listed DEF Owning
<1>3. PICK l \in {"note", "fail", "release", "done"} : Goes(r, l)
  <2>1. CASE event[Event(r)] = "live" /\ Goto(r, "note")
    <3>1. "note" \in Booking \cap Counted
      BY Listed DEF Owning
    <3>2. Goes(r, "note")
      BY <1>2, <2>1, <3>1, BookingGoes
    <3>. QED
      BY <3>2
  <2>2. CASE Goto(r, "fail")
    <3>1. "fail" \in Booking \cap Counted
      BY Listed DEF Owning
    <3>2. Goes(r, "fail")
      BY <1>2, <2>2, <3>1, BookingGoes
    <3>. QED
      BY <3>2
  <2>3. CASE NotBooked(r, "uncertain")
    <3>1. \E l \in {"release", "done"} : Goes(r, l)
      BY <2>3, RefusedGoes DEF Replies, Told
    <3>. QED
      BY <3>1
  <2>. QED
    BY <2>1, <2>2, <2>3 DEF Probe
<1>4. l \in Labels
  BY DEF Labels, Owning
<1>. QED
  BY <1>1, <1>3, <1>4, WalkKeeps

LEMMA NoteStep == ASSUME IInv, NEW r \in Requests, Note(r) PROVE IInv'
<1>1. UNCHANGED <<event, rows, owner, seen, orig, upsets>> /\ pc[r] = "note"
  BY DEF Note, At
<1>2. Moves(r, mine[r], mine[r]) /\ Goto(r, "lookup")
  BY DEF Note, Try, Transition, Moves, Swaps
<1>3. mine[r] \in Claims /\ RowOK(mine[r], SlotOf[r]) /\ Made(Event(r))
  BY <1>1 DEF IInv, TypeOK, ReqOK
<1>4. "lookup" \in Booking \cap Counted /\ "lookup" \in Labels /\ pc[r] \in Booking
  BY <1>1, Listed DEF Owning, Labels
<1>5. Goes(r, "lookup")
  BY <1>2, <1>3, <1>4, BookingGoes
<1>. QED
  BY <1>1, <1>2, <1>3, <1>4, <1>5, SwapKeeps DEF RowOK

\* The row that marks the claim booked with the event of the request.
LEMMA BookedRow ==
    ASSUME IInv, NEW r \in Requests, Written(Event(r)), NEW new,
           new = [mine[r] EXCEPT !.state = "booked", !.appt = Event(r)]
    PROVE  new \in Claims /\ new.state = "booked" /\ new.attempt = mine[r].attempt
           /\ new.appt # Nil /\ RowOK(new, SlotOf[r])
<1>1. Event(r) \in Ids /\ Event(r)[1] = SlotOf[r]
  BY EventAt
<1>2. mine[r] \in Claims /\ RowOK(mine[r], SlotOf[r])
  BY DEF IInv, TypeOK, ReqOK
<1>3. new \in Claims /\ new.state = "booked" /\ new.attempt = mine[r].attempt /\ new.appt = Event(r)
  BY <1>1, <1>2 DEF Claims
<1>4. Event(r) # Nil
  BY <1>1, NotNil
<1>. QED
  BY <1>1, <1>3, <1>4 DEF RowOK

LEMMA LookupStep == ASSUME IInv, NEW r \in Requests, Lookup(r) PROVE IInv'
<1>1. UNCHANGED <<event, rows, owner, seen, orig, upsets>> /\ pc[r] = "lookup"
  BY DEF Lookup, At
<1>2. pc[r] \in Booking \cap Counted /\ Made(Event(r))
  BY <1>1, Listed DEF Owning, IInv, ReqOK
<1>3. CASE Goto(r, "insert") /\ UNCHANGED <<store, mine>>
  <2>1. "insert" \in Booking \cap Counted /\ "insert" \in Labels
    BY Listed DEF Owning, Labels
  <2>2. Goes(r, "insert")
    BY <1>2, <1>3, <2>1, BookingGoes
  <2>. QED
    BY <1>1, <1>3, <2>1, <2>2, WalkKeeps DEF local
<1>4. CASE NotBooked(r, "uncertain") /\ UNCHANGED <<store, mine>>
  <2>1. PICK l \in {"release", "done"} : Goes(r, l)
    BY <1>4, RefusedGoes DEF Replies, Told
  <2>. QED
    BY <1>1, <1>4, <2>1, WalkKeeps DEF local, Labels
<1>5. ASSUME appt[Event(r)] # "none",
             Try(r, [mine[r] EXCEPT !.state = "booked", !.appt = Event(r)],
                 \/ appt[Event(r)] = "standing" /\ Booked(r, "already")
                 \/ NotBooked(r, "uncertain"))
      PROVE  IInv'
  <2>1. PICK new : new = [mine[r] EXCEPT !.state = "booked", !.appt = Event(r)]
    OBVIOUS
  <2>2. new \in Claims /\ new.state = "booked" /\ new.attempt = mine[r].attempt /\ new.appt # Nil
        /\ RowOK(new, SlotOf[r])
    BY <1>5, <2>1, BookedRow DEF Written
  <2>3. Moves(r, mine[r], new) /\ (Booked(r, "already") \/ NotBooked(r, "uncertain"))
    BY <1>5, <2>1 DEF Try, Transition, Moves, Swaps
  <2>4. PICK l \in {"cancel", "release", "done"} : Goes(r, l)
    <3>1. CASE Booked(r, "already")
      <4>1. MadeAt(r)
        BY <1>2, EventAt
      <4>2. \E l \in {"cancel", "done"} : Goes(r, l)
        BY <1>2, <3>1, <4>1, BookedGoes DEF Replies
      <4>. QED
        BY <4>2
    <3>2. CASE NotBooked(r, "uncertain")
      <4>1. \E l \in {"release", "done"} : Goes(r, l)
        BY <3>2, RefusedGoes DEF Replies, Told
      <4>. QED
        BY <4>1
    <3>. QED
      BY <2>3, <3>1, <3>2
  <2>5. l \in Labels /\ l # "reopen"
    BY DEF Labels
  <2>. QED
    BY <1>1, <2>2, <2>3, <2>4, <2>5, SwapKeeps
<1>. QED
  BY <1>3, <1>4, <1>5 DEF Lookup

LEMMA InsertAppointmentStep == ASSUME IInv, NEW r \in Requests, InsertAppointment(r) PROVE IInv'
<1>1. UNCHANGED <<store, event, owner, local, upsets>> /\ pc[r] = "insert"
      /\ UNCHANGED <<claim, old, slipped, mine, seen, orig>>
  BY DEF InsertAppointment, At, store, local
<1>2. pc[r] \in Booking \cap Counted /\ Made(Event(r)) /\ MadeAt(r)
  BY <1>1, Listed, EventAt DEF Owning, IInv, ReqOK
<1>3. PICK e : e = Event(r)
  OBVIOUS
<1>4. e \in Ids /\ e[1] = SlotOf[r] /\ (r \in Replacers => orig[r] \in Ids /\ orig[r][1] # SlotOf[r])
  BY <1>2, <1>3, EventAt DEF IInv, ReqOK
<1>5. CASE UNCHANGED rows /\ Booked(r, "booked")
  <2>1. PICK l \in {"cancel", "done"} : Goes(r, l)
    BY <1>2, <1>5, BookedGoes DEF Replies
  <2>. QED
    BY <1>1, <1>5, <2>1, WalkKeeps DEF local, Labels
<1>6. CASE /\ appt[e] = "none" /\ appt' = [appt EXCEPT ![e] = "standing"]
           /\ from' = [from EXCEPT ![e] = IF r \in Replacers THEN orig[r] ELSE Nil]
           /\ (Goto(r, "mark") \/ Booked(r, "booked"))
  <2>1. /\ appt' \in [Ids -> {"none", "standing", "cancelled"}] /\ appt'[e] = "standing"
        /\ \A d \in Ids \ {e} : appt'[d] = appt[d]
    BY <1>4, <1>6 DEF IInv, TypeOK
  <2>2. /\ from' \in [Ids -> Ids \cup {Nil}]
        /\ from'[e] # Nil => from'[e][1] # e[1]
        /\ \A d \in Ids \ {e} : from'[d] = from[d]
    BY <1>4, <1>6 DEF IInv, TypeOK
  <2>3. Grows
    BY <1>1, <2>1 DEF Grows, Written
  <2>4. BooksOK'
    <3>1. \A s \in Slots : RowOK(claim[s], s)'
      BY <1>1, <2>3 DEF IInv, BooksOK, RowOK, Grows
    <3>2. \A d \in Ids : (Written(d) => Made(d))'
      BY <1>1, <1>2, <1>3, <2>1 DEF IInv, BooksOK, Written
    <3>3. \A d \in Ids : (appt[d] = "cancelled" => event[d] = "gone")'
      BY <1>1, <2>1 DEF IInv, BooksOK
    <3>4. \A d \in Ids : (from[d] # Nil => from[d][1] # d[1])'
      BY <2>2 DEF IInv, BooksOK
    <3>. QED
      BY <3>1, <3>2, <3>3, <3>4 DEF BooksOK
  <2>5. CASE Goto(r, "mark")
    <3>1. Event(r)' = e
      BY <1>1, <1>3 DEF Event
    <3>2. Arrives(r, "mark")'
      BY <1>1, <1>2, <1>3, <1>4, <2>1, <3>1 DEF Arrives, Booking, Owning, Swapping, Written
    <3>3. DataOK' /\ reply' = reply /\ pc' = [pc EXCEPT ![r] = "mark"]
      BY <1>1, <2>1, <2>2, <2>5 DEF Goto, IInv, TypeOK, DataOK
    <3>4. reply'[r] \in Told => MadeAt(r)
      BY <1>2
    <3>5. "mark" \in Labels \cap Counted
      BY Listed DEF Owning, Labels
    <3>. QED
      BY <1>1, <1>2, <2>3, <2>4, <3>2, <3>3, <3>4, <3>5, BooksStep
  <2>6. CASE Booked(r, "booked")
    <3>1. PICK l \in {"cancel", "done"} : Goes(r, l)
      BY <1>2, <2>6, BookedGoes DEF Replies
    <3>2. DataOK'
      BY <1>1, <2>1, <2>2, <3>1, GoesTo DEF IInv, TypeOK, DataOK
    <3>3. l \in Labels
      BY DEF Labels
    <3>. QED
      BY <1>1, <2>3, <2>4, <3>1, <3>2, <3>3, BooksGo
  <2>. QED
    BY <1>6, <2>5, <2>6
<1>. QED
  BY <1>3, <1>5, <1>6 DEF InsertAppointment

LEMMA MarkBookedStep == ASSUME IInv, NEW r \in Requests, MarkBooked(r) PROVE IInv'
<1>1. UNCHANGED <<event, rows, owner, seen, orig, upsets>> /\ pc[r] = "mark"
  BY DEF MarkBooked, At
<1>2. pc[r] \in Booking /\ Written(Event(r)) /\ MadeAt(r)
  BY <1>1, Listed, EventAt DEF Owning, IInv, ReqOK
<1>3. PICK new : new = [mine[r] EXCEPT !.state = "booked", !.appt = Event(r)]
  OBVIOUS
<1>4. new \in Claims /\ new.state = "booked" /\ new.attempt = mine[r].attempt /\ new.appt # Nil
      /\ RowOK(new, SlotOf[r])
  BY <1>2, <1>3, BookedRow
<1>5. Moves(r, mine[r], new) /\ Booked(r, "booked")
  BY <1>3 DEF MarkBooked, Try, Transition, Moves, Swaps
<1>6. PICK l \in {"cancel", "done"} : Goes(r, l)
  BY <1>2, <1>5, BookedGoes DEF Replies
<1>7. l \in Labels /\ l # "reopen"
  BY DEF Labels
<1>. QED
  BY <1>1, <1>4, <1>5, <1>6, <1>7, SwapKeeps

-----------------------------------------------------------------------------
(* The replacement                                                           *)

LEMMA LookStep == ASSUME IInv, NEW p \in Replacers, Look(p) PROVE IInv'
<1>1. UNCHANGED <<store, event, rows, owner, mine, seen, upsets>> /\ pc[p] = "look" /\ p \in Requests
      /\ UNCHANGED <<claim, old, slipped, appt, from>>
  BY DEF Look, At, store, rows, Requests
<1>2. Grows
  BY <1>1 DEF Grows, Written
<1>3. BooksOK'
  BY <1>1, <1>2, GrowsBooks
<1>4. pc[p] \notin Counted
  BY <1>1 DEF Counted
<1>5. CASE Answer(p, "unchanged") /\ UNCHANGED orig
  <2>1. PICK l \in {"release", "done"} : Goes(p, l)
    BY <1>1, <1>5, RefusedGoes DEF Replies, Told
  <2>. QED
    BY <1>1, <1>5, <2>1, WalkKeeps DEF local, Labels
<1>6. ASSUME NEW e \in Ids, NEW l \in {"own", "original"}, Goto(p, l),
             orig' = [orig EXCEPT ![p] = e],
             l = "own" => e[1] # SlotOf[p],
             l = "original" => \E d \in Ids \ {e} : d[1] = SlotOf[p] /\ Made(d)
      PROVE  IInv'
  <2>1. /\ orig' \in [Replacers -> Ids \cup {Nil}] /\ orig'[p] = e
        /\ \A q \in Replacers \ {p} : orig'[q] = orig[q]
    BY <1>6 DEF IInv, TypeOK
  <2>2. DataOK' /\ reply' = reply /\ pc' = [pc EXCEPT ![p] = l] /\ pc'[p] = l
    BY <1>1, <1>6, <2>1 DEF Goto, IInv, TypeOK, DataOK
  <2>3. RowOK(mine[p], SlotOf[p])' /\ (\A d \in seen[p] : Written(d))' /\ (reply'[p] \in Told => MadeAt(p)')
    BY <1>1, <2>2 DEF IInv, ReqOK, RowOK, Written, MadeAt
  <2>4. l = "original" => MadeInstead(p)'
    BY <1>1, <1>6, <2>1 DEF MadeInstead
  <2>5. ReqOK(p)'
    BY <1>6, <2>1, <2>2, <2>3, <2>4 DEF ReqOK, Booking, Owning, Swapping
  <2>6. l \in Labels
    BY DEF Labels
  <2>. QED
    BY <1>1, <1>2, <1>3, <1>4, <2>1, <2>2, <2>5, <2>6, StepKeeps
<1>7. CASE {e \in Standing : e[1] = SlotOf[p]} = {} /\ Goto(p, "own")
           /\ \E e \in Standing : Standing = {e} /\ orig' = [orig EXCEPT ![p] = e]
  <2>1. PICK e \in Standing : orig' = [orig EXCEPT ![p] = e]
    BY <1>7
  <2>2. e \in Ids /\ e[1] # SlotOf[p]
    BY <1>7 DEF Standing
  <2>. QED
    BY <1>6, <1>7, <2>1, <2>2
<1>8. CASE \E e \in {d \in Standing : d[1] = SlotOf[p]} :
             from[e] # Nil /\ orig' = [orig EXCEPT ![p] = from[e]] /\ Goto(p, "original")
  <2>1. PICK e \in Standing : e[1] = SlotOf[p] /\ from[e] # Nil /\ orig' = [orig EXCEPT ![p] = from[e]]
                              /\ Goto(p, "original")
    BY <1>8
  <2>2. e \in Ids /\ Made(e) /\ from[e] \in Ids /\ from[e] # e
    BY <2>1 DEF Standing, IInv, TypeOK, BooksOK, Written
  <2>. QED
    BY <1>6, <2>1, <2>2
<1>. QED
  BY <1>5, <1>7, <1>8 DEF Look

LEMMA Swapper ==
    ASSUME IInv, NEW p \in Replacers, pc[p] \in Swapping
    PROVE  p \in Requests /\ orig[p] \in Ids /\ MadeInstead(p) /\ MadeAt(p)
<1>1. p \in Requests
  BY DEF Requests
<1>2. orig[p] \in Ids /\ MadeInstead(p)
  BY <1>1 DEF IInv, ReqOK
<1>. QED
  BY <1>1, <1>2 DEF MadeInstead, MadeAt

LEMMA SwapGoes ==
    ASSUME IInv, NEW p \in Replacers, pc[p] \in Swapping, NEW l \in Swapping \ {"write"}, Goto(p, l),
           pc[p] \in Counted => l \in Counted
    PROVE  Goes(p, l)
<1>1. orig[p] \in Ids /\ MadeInstead(p)
  BY Swapper
<1>2. l \notin Booking /\ l \notin {"note", "lookup", "insert", "mark"}
  BY DEF Booking, Owning, Swapping
<1>. QED
  BY <1>1, <1>2 DEF Goto, Goes, Arrives

\* A replacement that stops, with an answer that is so.
LEMMA StopGoes ==
    ASSUME IInv, NEW p \in Replacers, NEW w \in Replies, w \in Told => MadeAt(p), Answer(p, w)
    PROVE  p \in Requests /\ \E l \in {"release", "done"} : Goes(p, l)
<1>1. p \in Requests
  BY DEF Requests
<1>. QED
  BY <1>1, RefusedGoes

LEMMA OriginalStep == ASSUME IInv, NEW p \in Replacers, Original(p) PROVE IInv'
<1>1. UNCHANGED <<store, event, rows, owner, local, upsets>> /\ pc[p] = "original"
  BY DEF Original, At
<1>2. pc[p] \in Swapping /\ pc[p] \notin Counted
  BY <1>1 DEF Swapping, Counted
<1>3. p \in Requests /\ MadeAt(p)
  BY <1>2, Swapper
<1>4. PICK l \in {"own2", "release", "done"} : Goes(p, l)
  <2>1. CASE Goto(p, "own2")
    <3>1. Goes(p, "own2")
      BY <1>2, <2>1, SwapGoes DEF Swapping
    <3>. QED
      BY <3>1
  <2>2. CASE Answer(p, "replaced") \/ Answer(p, "unverified")
    <3>1. \E l \in {"release", "done"} : Goes(p, l)
      BY <1>3, <2>2, StopGoes DEF Replies, Told
    <3>. QED
      BY <3>1
  <2>. QED
    BY <2>1, <2>2 DEF Original
<1>. QED
  BY <1>1, <1>3, <1>4, WalkKeeps DEF Labels

\* A step that writes only who owns an appointment.
LEMMA OwnerKeeps ==
    ASSUME IInv, NEW r \in Requests, NEW l \in Labels \ {"reopen"}, Goes(r, l),
           UNCHANGED <<store, event, rows, local, upsets>>,
           owner' \in [Ids -> Replacers \cup {Nil, "reconcile", "lost"}]
    PROVE  IInv'
<1>1. UNCHANGED <<claim, old, slipped, event, appt, from, mine, seen, orig, upsets>>
  BY DEF store, rows, local
<1>2. Grows
  BY <1>1 DEF Grows, Written
<1>3. BooksOK'
  BY <1>1, <1>2, GrowsBooks
<1>4. DataOK'
  BY <1>1, GoesTo DEF IInv, TypeOK, DataOK
<1>. QED
  BY <1>1, <1>2, <1>3, <1>4, BooksGo

LEMMA OwnStep == ASSUME IInv, NEW p \in Replacers, Own(p) PROVE IInv'
<1>1. UNCHANGED <<store, event, rows, local, upsets>> /\ pc[p] \in {"own", "own2"} /\ p \in Requests
  BY DEF Own, Requests
<1>2. owner' \in [Ids -> Replacers \cup {Nil, "reconcile", "lost"}]
  BY DEF Own, IInv, TypeOK
<1>3. PICK l \in {"reread", "reread2", "release", "done"} : Goes(p, l)
  <2>1. CASE Goto(p, "reread") /\ pc[p] = "own"
    <3>1. pc[p] \in Booking /\ pc[p] \notin Counted /\ "reread" \in Booking
      BY <2>1 DEF Booking, Counted
    <3>2. Goes(p, "reread")
      BY <1>1, <2>1, <3>1, BookingGoes
    <3>. QED
      BY <3>2
  <2>2. CASE Goto(p, "reread2") /\ pc[p] = "own2"
    <3>1. Goes(p, "reread2")
      BY <2>2, SwapGoes DEF Swapping, Counted
    <3>. QED
      BY <3>1
  <2>3. CASE Answer(p, "unchanged")
    <3>1. \E l \in {"release", "done"} : Goes(p, l)
      BY <2>3, StopGoes DEF Replies, Told
    <3>. QED
      BY <3>1
  <2>. QED
    BY <1>1, <2>1, <2>2, <2>3 DEF Own, At
<1>. QED
  BY <1>1, <1>2, <1>3, OwnerKeeps DEF Labels

LEMMA RereadStep == ASSUME IInv, NEW p \in Replacers, Reread(p) PROVE IInv'
<1>1. UNCHANGED <<store, event, rows, owner, local, upsets>> /\ pc[p] \in {"reread", "reread2"}
      /\ p \in Requests
  BY DEF Reread, Requests
<1>2. PICK l \in {"check", "cancel", "release", "done"} : Goes(p, l)
  <2>1. CASE Goto(p, "check") /\ pc[p] = "reread"
    <3>1. pc[p] \in Booking /\ pc[p] \notin Counted /\ "check" \in Booking
      BY <2>1 DEF Booking, Counted
    <3>2. Goes(p, "check")
      BY <1>1, <2>1, <3>1, BookingGoes
    <3>. QED
      BY <3>2
  <2>2. CASE Goto(p, "cancel") /\ pc[p] = "reread2"
    <3>1. Goes(p, "cancel")
      BY <2>2, SwapGoes DEF Swapping, Counted
    <3>. QED
      BY <3>1
  <2>3. CASE Goto(p, "release")
    <3>1. NotBooked(p, "refused")
      BY <2>3 DEF NotBooked
    <3>2. \E l \in {"release", "done"} : Goes(p, l)
      BY <1>1, <3>1, RefusedGoes DEF Replies, Told
    <3>. QED
      BY <3>2
  <2>. QED
    BY <1>1, <2>1, <2>2, <2>3 DEF Reread, At
<1>. QED
  BY <1>1, <1>2, WalkKeeps DEF Labels

LEMMA CancelOldStep == ASSUME IInv, NEW p \in Replacers, CancelOld(p) PROVE IInv'
<1>1. UNCHANGED <<store, rows, owner, local, upsets>> /\ pc[p] = "cancel"
      /\ UNCHANGED <<claim, old, slipped, appt, from, mine, seen, orig>>
  BY DEF CancelOld, At, store, rows, local
<1>2. pc[p] \in Swapping /\ pc[p] \in Counted
  BY <1>1, Listed DEF Swapping
<1>3. p \in Requests /\ orig[p] \in Ids /\ MadeInstead(p)
  BY <1>2, Swapper
<1>4. event' = event \/ event' = [event EXCEPT ![orig[p]] = "gone"]
  BY DEF CancelOld
<1>5. event' \in [Ids -> {"none", "sent", "live", "gone"}] /\ Grows
  BY <1>1, <1>3, <1>4 DEF IInv, TypeOK, Grows, Written
<1>6. BooksOK'
  BY <1>1, <1>5, GrowsBooks
<1>7. CASE event' = [event EXCEPT ![orig[p]] = "gone"] /\ Goto(p, "write")
  <2>1. MadeInstead(p)' /\ event'[orig[p]] = "gone"
    BY <1>1, <1>3, <1>5, <1>7 DEF MadeInstead, Grows, IInv, TypeOK
  <2>2. Arrives(p, "write")'
    BY <1>1, <1>3, <2>1 DEF Arrives, Booking, Owning, Swapping
  <2>3. DataOK' /\ reply' = reply /\ pc' = [pc EXCEPT ![p] = "write"]
    BY <1>1, <1>5, <1>7 DEF Goto, IInv, TypeOK, DataOK
  <2>4. reply'[p] \in Told => MadeAt(p)
    BY <1>3, <2>3 DEF IInv, ReqOK
  <2>5. "write" \in Labels \cap Counted
    BY DEF Labels, Counted
  <2>. QED
    BY <1>1, <1>2, <1>3, <1>5, <1>6, <2>2, <2>3, <2>4, <2>5, BooksStep
<1>8. CASE Goto(p, "both")
  <2>1. Goes(p, "both")
    BY <1>2, <1>8, SwapGoes DEF Swapping, Counted, Labels
  <2>2. DataOK'
    BY <1>1, <1>3, <1>5, <2>1, GoesTo DEF IInv, TypeOK, DataOK
  <2>. QED
    BY <1>1, <1>3, <1>5, <1>6, <2>1, <2>2, BooksGo DEF Labels
<1>. QED
  BY <1>7, <1>8 DEF CancelOld

LEMMA WriteOldStep == ASSUME IInv, NEW p \in Replacers, WriteOld(p) PROVE IInv'
<1>1. UNCHANGED <<store, event, from, owner, local, upsets>> /\ pc[p] = "write"
      /\ UNCHANGED <<claim, old, slipped, mine, seen, orig>>
  BY DEF WriteOld, At, store, local
<1>2. pc[p] \in Swapping /\ pc[p] \in Counted
  BY <1>1 DEF Swapping, Counted, Labels
<1>3. p \in Requests /\ orig[p] \in Ids
  BY <1>2, Swapper
<1>4. event[orig[p]] = "gone"
  BY <1>1, <1>3 DEF IInv, ReqOK
<1>5. appt' = appt \/ appt' = [appt EXCEPT ![orig[p]] = "cancelled"]
  BY DEF WriteOld
<1>6. appt' \in [Ids -> {"none", "standing", "cancelled"}] /\ Grows
  BY <1>1, <1>3, <1>5 DEF IInv, TypeOK, Grows, Written
<1>7. BooksOK'
  <2>1. \A s \in Slots : RowOK(claim[s], s)'
    BY <1>1, <1>6 DEF IInv, BooksOK, RowOK, Grows
  <2>2. \A d \in Ids : (Written(d) => Made(d))'
    BY <1>1, <1>3, <1>4, <1>5 DEF IInv, TypeOK, BooksOK, Written
  <2>3. \A d \in Ids : (appt[d] = "cancelled" => event[d] = "gone")'
    BY <1>1, <1>3, <1>4, <1>5 DEF IInv, TypeOK, BooksOK
  <2>4. \A d \in Ids : (from[d] # Nil => from[d][1] # d[1])'
    BY <1>1 DEF IInv, BooksOK
  <2>. QED
    BY <2>1, <2>2, <2>3, <2>4 DEF BooksOK
<1>8. PICK l \in {"finish", "handover"} : Goto(p, l)
  BY DEF WriteOld
<1>9. Goes(p, l) /\ l \in Labels /\ l # "reopen"
  BY <1>2, <1>8, SwapGoes DEF Swapping, Counted, Labels
<1>10. DataOK'
  BY <1>1, <1>3, <1>6, <1>9, GoesTo DEF IInv, TypeOK, DataOK
<1>. QED
  BY <1>1, <1>3, <1>6, <1>7, <1>9, <1>10, BooksGo

LEMMA HandOverStep == ASSUME IInv, NEW p \in Replacers, HandOver(p) PROVE IInv'
<1>1. UNCHANGED <<store, event, rows, local, upsets>> /\ pc[p] = "handover" /\ Answer(p, "unrecorded")
  BY DEF HandOver, At
<1>2. p \in Requests /\ MadeAt(p)
  BY <1>1, Swapper DEF Swapping
<1>3. owner' \in [Ids -> Replacers \cup {Nil, "reconcile", "lost"}]
  BY DEF HandOver, IInv, TypeOK
<1>4. PICK l \in {"release", "done"} : Goes(p, l)
  BY <1>1, <1>2, StopGoes DEF Replies
<1>. QED
  BY <1>1, <1>2, <1>3, <1>4, OwnerKeeps DEF Labels

LEMMA ReleaseOldStep == ASSUME IInv, NEW p \in Replacers, ReleaseOld(p) PROVE IInv'
<1>1. UNCHANGED <<store, event, rows, local, upsets>> /\ pc[p] \in {"release", "both", "finish"}
      /\ p \in Requests
  BY DEF ReleaseOld, Requests
<1>2. owner' \in [Ids -> Replacers \cup {Nil, "reconcile", "lost"}]
  BY DEF ReleaseOld, IInv, TypeOK
<1>3. PICK l \in {"release", "done"} : Goes(p, l)
  <2>1. CASE Answer(p, "unchanged")
    BY <2>1, StopGoes DEF Replies, Told
  <2>2. CASE pc[p] \in {"both", "finish"} /\ (Answer(p, "both") \/ Answer(p, "replaced"))
    <3>1. MadeAt(p)
      BY <2>2, Swapper DEF Swapping
    <3>. QED
      BY <2>2, <3>1, StopGoes DEF Replies
  <2>. QED
    BY <2>1, <2>2 DEF ReleaseOld, At
<1>. QED
  BY <1>1, <1>2, <1>3, OwnerKeeps DEF Labels

-----------------------------------------------------------------------------
(* The caller, time, crashes, and the step                                   *)

LEMMA CallerCancelsStep == ASSUME IInv, NEW e \in Ids, CallerCancels(e) PROVE IInv'
<1>1. UNCHANGED <<claim, old, slipped, from, owner, mine, seen, orig, pc, reply>>
      /\ appt[e] = "standing" /\ upsets < MaxUpsets /\ upsets' = upsets + 1
      /\ appt' = [appt EXCEPT ![e] = "cancelled"] /\ event' = [event EXCEPT ![e] = "gone"]
  BY DEF CallerCancels, store, local
<1>2. appt' \in [Ids -> {"none", "standing", "cancelled"}] /\ event' \in [Ids -> {"none", "sent", "live", "gone"}]
      /\ appt'[e] = "cancelled" /\ event'[e] = "gone"
      /\ \A d \in Ids \ {e} : appt'[d] = appt[d] /\ event'[d] = event[d]
  BY <1>1 DEF IInv, TypeOK
<1>3. Grows
  BY <1>2 DEF Grows, Written
<1>4. BooksOK'
  <2>1. \A s \in Slots : RowOK(claim[s], s)'
    BY <1>1, <1>3 DEF IInv, BooksOK, RowOK, Grows
  <2>2. \A d \in Ids : (Written(d) => Made(d))'
    BY <1>2 DEF IInv, BooksOK, Written
  <2>3. \A d \in Ids : (appt[d] = "cancelled" => event[d] = "gone")'
    BY <1>2 DEF IInv, BooksOK
  <2>4. \A d \in Ids : (from[d] # Nil => from[d][1] # d[1])'
    BY <1>1 DEF IInv, BooksOK
  <2>. QED
    BY <2>1, <2>2, <2>3, <2>4 DEF BooksOK
<1>5. upsets' \in 0..MaxUpsets
  BY <1>1, ConstantsOK DEF IInv, TypeOK
<1>6. TypeOK' /\ AttemptsCounted'
  BY <1>1, <1>2, <1>5 DEF IInv, TypeOK, AttemptsCounted, PastTaking
<1>7. \A q \in Requests : ReqOK(q)'
  BY <1>1, <1>3, OthersKept
<1>. QED
  BY <1>4, <1>6, <1>7 DEF IInv

LEMMA ClaimAgesStep == ASSUME IInv, NEW s \in Slots, ClaimAges(s) PROVE IInv'
<1>1. UNCHANGED <<claim, slipped, event, appt, from, owner, mine, seen, orig, pc, reply, upsets>>
      /\ old' = old \cup {s}
  BY DEF ClaimAges, rows, local
<1>2. Grows
  BY <1>1 DEF Grows, Written
<1>3. BooksOK'
  BY <1>1, <1>2, GrowsBooks
<1>4. TypeOK' /\ AttemptsCounted'
  BY <1>1 DEF IInv, TypeOK, AttemptsCounted, PastTaking
<1>5. \A q \in Requests : ReqOK(q)'
  BY <1>1, <1>2, OthersKept
<1>. QED
  BY <1>3, <1>4, <1>5 DEF IInv

LEMMA CrashStep == ASSUME IInv, NEW r \in Requests, Crash(r) PROVE IInv'
<1>1. UNCHANGED <<claim, old, slipped, event, appt, from, owner, mine, seen, orig, reply>>
      /\ UNCHANGED store /\ pc' = [pc EXCEPT ![r] = "crashed"] /\ upsets < MaxUpsets /\ upsets' = upsets + 1
  BY DEF Crash, store, rows, local
<1>2. Grows
  BY <1>1 DEF Grows, Written
<1>3. BooksOK'
  BY <1>1, <1>2, GrowsBooks
<1>4. upsets' \in 0..MaxUpsets
  BY <1>1, ConstantsOK DEF IInv, TypeOK
<1>5. DataOK'
  BY <1>1, <1>4 DEF IInv, TypeOK, DataOK
<1>6. Goes(r, "crashed")
  BY <1>1 DEF Goes, Arrives, Booking, Owning, Swapping, Counted, Labels
<1>. QED
  BY <1>1, <1>2, <1>3, <1>5, <1>6, BooksGo DEF Labels

LEMMA StutterStep == ASSUME IInv, UNCHANGED vars PROVE IInv'
<1>1. UNCHANGED <<claim, old, slipped, event, appt, from, owner, mine, seen, orig, pc, reply, upsets>>
  BY DEF vars, store, rows, local
<1>2. Grows
  BY <1>1 DEF Grows, Written
<1>3. BooksOK'
  BY <1>1, <1>2, GrowsBooks
<1>4. TypeOK' /\ AttemptsCounted'
  BY <1>1 DEF IInv, TypeOK, AttemptsCounted, PastTaking
<1>5. \A q \in Requests : ReqOK(q)'
  BY <1>1, <1>2, OthersKept
<1>. QED
  BY <1>3, <1>4, <1>5 DEF IInv

LEMMA NextIInv == IInv /\ [Next]_vars => IInv'
<1> SUFFICES ASSUME IInv, [Next]_vars PROVE IInv'
  OBVIOUS
<1>1. ASSUME NEW r \in Requests, Book(r) PROVE IInv'
  BY <1>1, CheckSlotStep, InsertPendingStep, ReadBackStep, TakeStep, ReopenStep, LookUpStep, DecideStep,
     MarkFailedStep, CreateStep, ProbeStep, NoteStep, LookupStep, InsertAppointmentStep, MarkBookedStep
     DEF Book
<1>2. ASSUME NEW r \in Requests, Crash(r) PROVE IInv'
  BY <1>2, CrashStep
<1>3. ASSUME NEW p \in Replacers, Replace(p) PROVE IInv'
  BY <1>3, LookStep, OriginalStep, OwnStep, RereadStep, CancelOldStep, WriteOldStep, HandOverStep,
     ReleaseOldStep DEF Replace
<1>4. ASSUME NEW e \in Ids, CallerCancels(e) \/ Land(e) PROVE IInv'
  BY <1>4, CallerCancelsStep, LandStep
<1>5. ASSUME NEW s \in Slots, ClaimAges(s) PROVE IInv'
  BY <1>5, ClaimAgesStep
<1>6. CASE UNCHANGED vars
  BY <1>6, StutterStep
<1>. QED
  BY <1>1, <1>2, <1>3, <1>4, <1>5, <1>6 DEF Next

-----------------------------------------------------------------------------
(* What the first invariant gives                                            *)

\* IInv holds in every state.
THEOREM Inductive == Spec => []IInv
<1>1. Init => IInv
  BY InitIInv
<1>2. IInv /\ [Next]_vars => IInv'
  BY NextIInv
<1>. QED
  BY <1>1, <1>2, PTL DEF Spec

\* The types of every state.
THEOREM TypeCorrect == Spec => []TypeOK
<1>1. IInv => TypeOK
  BY DEF IInv
<1>. QED
  BY <1>1, Inductive, PTL

\* A booked claim names an appointment that was written.
THEOREM ClaimsAreWritten == Spec => []BookedIsWritten
<1>1. IInv => BookedIsWritten
  BY DEF IInv, BooksOK, RowOK, Written, BookedIsWritten
<1>. QED
  BY <1>1, Inductive, PTL

\* What a caller was told is booked was put in the calendar at that time.
THEOREM CallersHearTheTruth == Spec => []AnswerIsTrue
<1>1. IInv => AnswerIsTrue
  BY DEF IInv, ReqOK, Told, MadeAt, AnswerIsTrue
<1>. QED
  BY <1>1, Inductive, PTL

\* A replacement deletes the earlier event only once another was made at the new time.
THEOREM NewComesFirst == Spec => NewFirst
<1>1. ASSUME IInv
      PROVE  \A p \in Replacers : pc[p] = "cancel" /\ pc'[p] # "crashed" =>
                \E e \in Ids \ {orig[p]} : e[1] = SlotOf[p] /\ Made(e)
  <2>1. ASSUME NEW p \in Replacers, pc[p] = "cancel" PROVE MadeInstead(p)
    BY <1>1, <2>1, Swapper DEF Swapping
  <2>. QED
    BY <2>1 DEF MadeInstead
<1>2. IInv /\ [Next]_vars =>
        [\A p \in Replacers : pc[p] = "cancel" /\ pc'[p] # "crashed" =>
            \E e \in Ids \ {orig[p]} : e[1] = SlotOf[p] /\ Made(e)]_vars
  BY <1>1
<1>. QED
  BY <1>2, Inductive, PTL DEF Spec, NewFirst

-----------------------------------------------------------------------------
(* One event each: the labels, and what a step must respect                  *)

LEMMA Classes ==
    /\ Underway \subseteq Owning \cap Holding /\ Owning \subseteq AtWork /\ Holding \subseteq AtWork
    /\ AtWork \subseteq Labels
    /\ "readback" \in Owning \ (Holding \cup Underway) /\ "reopen" \in Holding \ Owning
    /\ {"fail", "mark"} \subseteq Owning \ Underway /\ {"fail", "mark"} \subseteq Holding
    /\ "recheck" \in Underway /\ "resettle" \in Underway
    /\ Labels \ AtWork =
         {"guard", "settle", "check", "claim", "take", "look", "original", "own", "own2", "reread",
          "reread2", "cancel", "write", "handover", "release", "both", "finish", "done", "crashed"}
  BY DEF Labels, Underway, Holding, Owning, AtWork

\* Nobody comes to work on a claim.
Fewer ==
    /\ \A q \in Requests : pc'[q] \in AtWork => pc[q] \in AtWork
    /\ \A q \in Requests : pc'[q] \in Owning => pc[q] \in Owning
    /\ \A q \in Requests : pc'[q] \in Holding => pc[q] \in Holding
    /\ \A q \in Requests : pc'[q] \in Underway => pc[q] \in Underway
    /\ \A q \in Requests : pc'[q] = "readback" => pc[q] = "readback"

Works(r) == pc[r] \in Underway

\* What is made or written is the event of who works on the claim.
Only ==
    /\ \A e \in Ids : Written(e) => Written(e)'
    /\ \A e \in Ids : Written(e)' => Written(e) \/ \E r \in Requests : Works(r) /\ e = Event(r)
    /\ \A e \in Ids : (Coming(e) \/ Stands(e))' =>
          Coming(e) \/ Stands(e) \/ (~Written(e) /\ \E r \in Requests : Works(r) /\ e = Event(r))
    /\ \A e \in Ids : event[e] = "none" /\ event'[e] # "none" =>
          \E r \in Requests : Works(r) /\ e = Event(r)

LEMMA SlotAt == \A r \in Requests : SlotOf[r] \in Slots
  BY ConstantsOK

LEMMA SameBooks == UNCHANGED <<event, appt>> => Only
  BY DEF Only, Written, Coming, Stands

LEMMA EventParts ==
    ASSUME IInv, NEW r \in Requests
    PROVE  Event(r) \in Ids /\ Event(r)[1] = SlotOf[r] /\ Event(r)[2] = mine[r].attempt
  BY EventAt DEF Event

\* A step that leaves the claims and their copies.
LEMMA WalkSecond ==
    ASSUME IInv, Second, Fewer, Only, UNCHANGED <<claim, old, slipped, mine>>
    PROVE  Second'
<1>1. \A r \in Requests : Current(r)' <=> Current(r)
  BY DEF Current
<1>2. \A r \in Requests : Event(r)' = Event(r)
  BY DEF Event
<1>3. \A r \in Requests : Works(r) => pc[r] \in AtWork /\ pc[r] \in Owning
  BY Classes DEF Works
<1>4. \A r \in Requests : Event(r) \in Ids /\ Event(r)[1] = SlotOf[r] /\ Event(r)[2] = mine[r].attempt
  BY EventParts
<1>5. NoneYet'
  <2> SUFFICES ASSUME NEW s \in Slots, claim[s].state = "none"
               PROVE  /\ \A e \in Ids : e[1] = s => event'[e] = "none"
                      /\ \A r \in Requests : SlotOf[r] = s => pc'[r] \notin AtWork
    BY DEF NoneYet
  <2>1. /\ \A e \in Ids : e[1] = s => event[e] = "none"
        /\ \A r \in Requests : SlotOf[r] = s => pc[r] \notin AtWork
    BY DEF Second, NoneYet
  <2>. QED
    BY <1>3, <1>4, <2>1 DEF Only, Fewer
<1>6. Behind'
  BY DEF Second, Behind
<1>7. ASSUME Prompt PROVE Course'
  <2>1. Course
    BY <1>7 DEF Second
  <2>2. OldIdle'
    BY <2>1 DEF Course, OldIdle, Fewer
  <2>3. FirstAlone'
    <3> SUFFICES ASSUME NEW r \in Requests, pc'[r] = "readback"
                 PROVE  /\ claim[SlotOf[r]].state = "pending"
                        /\ \A e \in Ids : Written(e)' => e[1] # SlotOf[r]
                        /\ \A q \in Requests \ {r} : SlotOf[q] = SlotOf[r] => pc'[q] \notin AtWork
      BY DEF FirstAlone
    <3>1. /\ claim[SlotOf[r]].state = "pending" /\ pc[r] = "readback"
          /\ \A e \in Ids : Written(e) => e[1] # SlotOf[r]
          /\ \A q \in Requests \ {r} : SlotOf[q] = SlotOf[r] => pc[q] \notin AtWork
      BY <2>1 DEF Course, FirstAlone, Fewer
    <3>2. \A q \in Requests : SlotOf[q] = SlotOf[r] => ~Works(q)
      BY <1>3, <3>1, Classes DEF Works
    <3>3. \A e \in Ids : Written(e)' => e[1] # SlotOf[r]
      BY <1>4, <3>1, <3>2 DEF Only
    <3>. QED
      BY <3>1, <3>3 DEF Fewer
  <2>4. CopiesStale'
    BY <1>1, <2>1 DEF Course, CopiesStale, Fewer
  <2>5. OwnAttempt'
    <3> SUFFICES ASSUME NEW e \in Ids, (Coming(e) \/ Stands(e))', e[1] \notin slipped
                 PROVE  claim[e[1]].state \in {"pending", "booked"} /\ claim[e[1]].attempt = e[2]
      BY DEF OwnAttempt
    <3>1. CASE Coming(e) \/ Stands(e)
      BY <2>1, <3>1 DEF Course, OwnAttempt
    <3>2. CASE ~Written(e) /\ \E r \in Requests : Works(r) /\ e = Event(r)
      <4>1. PICK r \in Requests : Works(r) /\ e = Event(r)
        BY <3>2
      <4>2. Current(r)
        BY <1>4, <2>1, <3>2, <4>1 DEF Course, Harmless, Works
      <4>. QED
        BY <1>4, <4>1, <4>2 DEF Current
    <3>. QED
      BY <3>1, <3>2 DEF Only
  <2>6. OwnBooking'
    BY <2>1 DEF Course, OwnBooking
  <2>7. Harmless'
    <3> SUFFICES ASSUME NEW r \in Requests, pc'[r] \in Underway, SlotOf[r] \notin slipped
                 PROVE  Current(r)' \/ Written(Event(r))'
      BY DEF Harmless
    <3>1. Current(r) \/ Written(Event(r))
      BY <2>1 DEF Course, Harmless, Fewer
    <3>. QED
      BY <1>1, <1>2, <1>4, <3>1 DEF Only, Written
  <2>. QED
    BY <2>2, <2>3, <2>4, <2>5, <2>6, <2>7 DEF Course
<1>. QED
  BY <1>5, <1>6, <1>7 DEF Second

\* A request that goes to l without coming to work.
LEMMA GoesFewer ==
    ASSUME IInv, NEW r \in Requests, NEW l \in Labels, pc' = [pc EXCEPT ![r] = l],
           \/ l \notin AtWork
           \/ l \in Underway /\ pc[r] \in Underway
           \/ l \in {"fail", "mark"} /\ pc[r] \in Underway
    PROVE  Fewer
<1>1. pc'[r] = l /\ \A q \in Requests \ {r} : pc'[q] = pc[q]
  BY DEF IInv, TypeOK
<1>. QED
  BY <1>1, Classes DEF Fewer

LEMMA Ends ==
    ASSUME NEW r \in Requests, NEW w, NotBooked(r, w) \/ Answer(r, w) \/ Booked(r, w)
    PROVE  \E l \in {"release", "cancel", "done"} :
              pc' = [pc EXCEPT ![r] = l] /\ l \in Labels \ AtWork
BY Classes DEF NotBooked, Answer, Booked, Goto

LEMMA EndsFewer ==
    ASSUME IInv, NEW r \in Requests, NEW w, NotBooked(r, w) \/ Answer(r, w) \/ Booked(r, w)
    PROVE  Fewer
BY Ends, GoesFewer

LEMMA GotoFewer ==
    ASSUME IInv, NEW r \in Requests, NEW l \in Labels, Goto(r, l),
           l \notin AtWork \/ (pc[r] \in Underway /\ (l \in Underway \/ l \in {"fail", "mark"}))
    PROVE  Fewer
BY GoesFewer DEF Goto

-----------------------------------------------------------------------------
(* One event each: writing a claim                                           *)

\* r writes the claim of s; if it is its own it may keep what it wrote.
Writes(r, s, new) ==
    /\ Put(s, new) /\ UNCHANGED <<event, appt>>
    /\ \A q \in Requests \ {r} : mine'[q] = mine[q] /\ pc'[q] = pc[q]
    /\ mine'[r] = mine[r] \/ (SlotOf[r] = s /\ mine'[r] = claim'[s])

\* Claims do not go back to none, nor to an earlier attempt.
LEMMA WritesGrow ==
    ASSUME IInv, NoneYet, Behind, NEW r \in Requests, NEW s \in Slots, NEW new \in Claims,
           Writes(r, s, new), new.attempt >= claim[s].attempt, new.state # "none",
           pc'[r] \in AtWork => pc[r] \in AtWork \/ SlotOf[r] = s
    PROVE  NoneYet' /\ Behind'
<1>1. /\ claim' \in [Slots -> Claims] /\ claim'[s].state = new.state /\ claim'[s].attempt = new.attempt
      /\ \A t \in Slots \ {s} : claim'[t] = claim[t]
  BY PutDoes DEF Writes, IInv
<1>2. NoneYet'
  BY <1>1 DEF NoneYet, Writes
<1>3. Behind'
  <2> SUFFICES ASSUME NEW q \in Requests PROVE mine'[q].attempt <= claim'[SlotOf[q]].attempt
    BY DEF Behind
  <2>1. mine[q].attempt <= claim[SlotOf[q]].attempt /\ mine[q].attempt \in Nat
        /\ claim[SlotOf[q]].attempt \in Nat /\ claim'[SlotOf[q]].attempt \in Nat /\ new.attempt \in Nat
    BY <1>1, SlotAt DEF Behind, IInv, TypeOK, Claims, Attempts
  <2>2. claim[SlotOf[q]].attempt <= claim'[SlotOf[q]].attempt
    BY <1>1, <2>1, SlotAt
  <2>3. mine'[q] = mine[q] \/ mine'[q] = claim'[SlotOf[q]]
    BY DEF Writes
  <2>. QED
    BY <2>1, <2>2, <2>3
<1>. QED
  BY <1>2, <1>3

\* A claim that is let go of, or settled: who worked for it has had its event written.
LEMMA WritesOff ==
    ASSUME IInv, Course, NEW r \in Requests, NEW s \in Slots, NEW new \in Claims, Writes(r, s, new), Fewer,
           new.state \in {"failed", "booked"}, new.attempt = claim[s].attempt,
           \A q \in Requests : pc'[q] \in Underway => mine'[q] = mine[q],
           pc'[r] \in Holding => mine'[r] = mine[r],
           \A q \in Requests : SlotOf[q] = s => pc'[q] # "readback",
           \A q \in Requests : SlotOf[q] = s /\ pc'[q] \in Underway /\ Current(q) =>
               Written(Event(q)) \/ Slips(s, new)
    PROVE  Course'
<1>1. /\ claim' \in [Slots -> Claims] /\ claim'[s].state = new.state /\ claim'[s].attempt = new.attempt
      /\ claim'[s].appt = new.appt /\ old' = old \ {s}
      /\ slipped \subseteq slipped' /\ (Slips(s, new) => s \in slipped')
      /\ \A t \in Slots \ {s} : claim'[t] = claim[t]
  BY PutDoes DEF Writes, IInv
<1>2. \A e \in Ids : (Written(e)' <=> Written(e)) /\ (Coming(e)' <=> Coming(e)) /\ (Stands(e)' <=> Stands(e))
  BY DEF Writes, Written, Coming, Stands
<1>3. \A q \in Requests : Event(q) \in Ids /\ Event(q)[1] = SlotOf[q] /\ SlotOf[q] \in Slots
  BY EventParts, SlotAt
<1>4. OldIdle'
  BY <1>1 DEF Course, OldIdle, Fewer
<1>5. FirstAlone'
  BY <1>1, <1>2, <1>3 DEF Course, FirstAlone, Fewer
<1>6. CopiesStale'
  <2> SUFFICES ASSUME NEW q \in Requests, NEW a \in Requests, pc'[a] \in Underway, Current(a)', q # a,
                      SlotOf[q] = SlotOf[a], pc'[q] \in Holding
               PROVE  mine'[q] # claim'[SlotOf[a]]
    BY DEF CopiesStale
  <2>1. SlotOf[a] # s /\ claim'[SlotOf[a]] = claim[SlotOf[a]]
    BY <1>1, <1>3 DEF Current
  <2>2. mine'[a] = mine[a] /\ mine'[q] = mine[q]
    BY DEF Writes
  <2>. QED
    BY <2>1, <2>2 DEF Course, CopiesStale, Current, Fewer
<1>7. OwnAttempt'
  <2> SUFFICES ASSUME NEW e \in Ids, Coming(e) \/ Stands(e), e[1] \notin slipped'
               PROVE  claim'[e[1]].state \in {"pending", "booked"} /\ claim'[e[1]].attempt = e[2]
    BY <1>2 DEF OwnAttempt
  <2>1. claim[e[1]].state \in {"pending", "booked"} /\ claim[e[1]].attempt = e[2]
    BY <1>1 DEF Course, OwnAttempt
  <2>2. e \in Slots \X Attempts /\ e = <<e[1], e[2]>> /\ e[1] \in Slots
    BY DEF Ids
  <2>3. e[1] = s => new.state = "booked"
    BY <1>1, <2>1, <2>2 DEF Slips, Stands
  <2>. QED
    BY <1>1, <2>1, <2>2, <2>3
<1>8. OwnBooking'
  BY <1>1 DEF Course, OwnBooking, Slips
<1>9. Harmless'
  <2> SUFFICES ASSUME NEW q \in Requests, pc'[q] \in Underway, SlotOf[q] \notin slipped'
               PROVE  Current(q)' \/ Written(Event(q))'
    BY DEF Harmless
  <2>1. mine'[q] = mine[q] /\ Event(q)' = Event(q)
    BY DEF Event
  <2>2. Current(q) \/ Written(Event(q))
    BY <1>1 DEF Course, Harmless, Fewer
  <2>3. SlotOf[q] # s => (Current(q)' <=> Current(q))
    BY <1>1, <1>3, <2>1 DEF Current
  <2>4. Written(Event(q)) => Written(Event(q))'
    BY <2>1 DEF Written, Writes
  <2>5. SlotOf[q] = s /\ Current(q) => Written(Event(q))
    BY <1>1
  <2>. QED
    BY <2>2, <2>3, <2>4, <2>5
<1>. QED
  BY <1>4, <1>5, <1>6, <1>7, <1>8, <1>9 DEF Course

\* A claim that is made or taken: nobody else works for the attempt it is at then.
LEMMA WritesAnew ==
    ASSUME IInv, Course, NEW r \in Requests, NEW new \in Claims, Writes(r, SlotOf[r], new),
           new.state = "pending", NEW l \in Labels, pc' = [pc EXCEPT ![r] = l],
           l \notin AtWork \/ l = "readback" \/ (l = "recheck" /\ mine'[r] = claim'[SlotOf[r]]),
           \A q \in Requests \ {r} : SlotOf[q] = SlotOf[r] => pc[q] # "readback",
           \A q \in Requests \ {r} : SlotOf[q] = SlotOf[r] /\ pc[q] \in Underway =>
               ~Current(q) /\ mine[q].attempt # new.attempt,
           \A e \in Ids : (Coming(e) \/ Stands(e)) /\ e[1] = SlotOf[r] /\ e[1] \notin slipped =>
               e[2] = new.attempt,
           l = "readback" =>
               /\ \A e \in Ids : Written(e) => e[1] # SlotOf[r]
               /\ \A q \in Requests \ {r} : SlotOf[q] = SlotOf[r] => pc[q] \notin AtWork
    PROVE  Course'
<1> DEFINE s == SlotOf[r]
<1>. s \in Slots
  BY SlotAt
<1>1. /\ claim' \in [Slots -> Claims] /\ claim'[s].state = "pending" /\ claim'[s].attempt = new.attempt
      /\ claim'[s].ver = FreshVer(s) /\ old' = old \ {s} /\ slipped \subseteq slipped'
      /\ \A t \in Slots \ {s} : claim'[t] = claim[t]
  BY PutDoes DEF Writes, IInv
<1>2. \A e \in Ids : (Written(e)' <=> Written(e)) /\ (Coming(e)' <=> Coming(e)) /\ (Stands(e)' <=> Stands(e))
  BY DEF Writes, Written, Coming, Stands
<1>3. \A q \in Requests : Event(q) \in Ids /\ Event(q)[1] = SlotOf[q] /\ SlotOf[q] \in Slots
  BY EventParts, SlotAt
<1>4. pc'[r] = l /\ \A q \in Requests \ {r} : pc'[q] = pc[q] /\ mine'[q] = mine[q]
  BY DEF IInv, TypeOK, Writes
<1>5. OldIdle'
  BY <1>1, <1>4, Classes DEF Course, OldIdle
<1>6. FirstAlone'
  BY <1>1, <1>2, <1>3, <1>4 DEF Course, FirstAlone
<1>7. CopiesStale'
  <2> SUFFICES ASSUME NEW q \in Requests, NEW a \in Requests, pc'[a] \in Underway, Current(a)', q # a,
                      SlotOf[q] = SlotOf[a], pc'[q] \in Holding
               PROVE  mine'[q] # claim'[SlotOf[a]]
    BY DEF CopiesStale
  <2>1. CASE SlotOf[a] # s
    BY <1>1, <1>3, <1>4, <2>1 DEF Course, CopiesStale, Current
  <2>2. CASE SlotOf[a] = s /\ a # r
    BY <1>1, <1>4, <2>2 DEF Current
  <2>3. CASE a = r
    <3>1. mine'[q] = mine[q] /\ pc[q] \in Holding /\ SlotOf[q] = s
      BY <1>4, <2>3
    <3>2. mine[q].ver # FreshVer(s)
      BY <3>1, Fresh DEF IInv
    <3>. QED
      BY <1>1, <2>3, <3>1, <3>2
  <2>. QED
    BY <2>1, <2>2, <2>3
<1>8. OwnAttempt'
  <2> SUFFICES ASSUME NEW e \in Ids, Coming(e) \/ Stands(e), e[1] \notin slipped'
               PROVE  claim'[e[1]].state \in {"pending", "booked"} /\ claim'[e[1]].attempt = e[2]
    BY <1>2 DEF OwnAttempt
  <2>1. e[1] # s => claim[e[1]].state \in {"pending", "booked"} /\ claim[e[1]].attempt = e[2]
    BY <1>1 DEF Course, OwnAttempt
  <2>2. e[1] \in Slots
    BY DEF Ids
  <2>. QED
    BY <1>1, <2>1, <2>2
<1>9. OwnBooking'
  BY <1>1 DEF Course, OwnBooking
<1>10. Harmless'
  <2> SUFFICES ASSUME NEW q \in Requests, pc'[q] \in Underway, SlotOf[q] \notin slipped'
               PROVE  Current(q)' \/ Written(Event(q))'
    BY DEF Harmless
  <2>1. CASE q = r
    <3>1. mine'[r] = claim'[s]
      BY <1>4, <2>1, Classes
    <3>. QED
      BY <1>1, <2>1, <3>1 DEF Current
  <2>2. CASE q # r
    <3>1. mine'[q] = mine[q] /\ Event(q)' = Event(q) /\ pc[q] \in Underway
      BY <1>4, <2>2 DEF Event
    <3>2. Current(q) \/ Written(Event(q))
      BY <1>1, <3>1 DEF Course, Harmless
    <3>3. SlotOf[q] # s => (Current(q)' <=> Current(q))
      BY <1>1, <1>3, <3>1 DEF Current
    <3>4. Written(Event(q)) => Written(Event(q))'
      BY <3>1 DEF Written, Writes
    <3>. QED
      BY <2>2, <3>1, <3>2, <3>3, <3>4
  <2>. QED
    BY <2>1, <2>2
<1>. QED
  BY <1>5, <1>6, <1>7, <1>8, <1>9, <1>10 DEF Course

-----------------------------------------------------------------------------
(* One event each: the steps                                                 *)

\* A step that leaves the store, the calendar and the rows, and ends or goes on.
LEMMA JustGoes ==
    ASSUME IInv, Second, Fewer, UNCHANGED <<store, event, appt, mine>>
    PROVE  Second'
BY SameBooks, WalkSecond DEF store

LEMMA CheckSlotSecond == ASSUME IInv, Second, NEW r \in Requests, CheckSlot(r) PROVE Second'
<1>1. Fewer
  BY EndsFewer, GotoFewer, Classes DEF CheckSlot, Labels
<1>. QED
  BY <1>1, JustGoes DEF CheckSlot, rows, local

LEMMA InsertPendingSecond == ASSUME IInv, Second, NEW r \in Requests, InsertPending(r) PROVE Second'
<1>1. UNCHANGED <<event, appt, mine>> /\ SlotOf[r] \in Slots
  BY SlotAt DEF InsertPending, rows, local
<1>2. PICK new : new = [NoClaim EXCEPT !.state = "pending"]
  OBVIOUS
<1>3. new \in Claims /\ new.state = "pending" /\ new.attempt = 1
  BY <1>2, Counts DEF NoClaim, Claims, Attempts, Vers
<1>4. CASE /\ claim[SlotOf[r]].state = "none" /\ Put(SlotOf[r], new)
           /\ (Goto(r, "readback") \/ NotBooked(r, "error"))
  <2>1. PICK l \in {"readback", "release", "cancel", "done"} :
           pc' = [pc EXCEPT ![r] = l] /\ l \in Labels /\ (l = "readback" \/ l \notin AtWork)
    BY <1>4, Ends, Classes DEF Goto
  <2>2. \A q \in Requests \ {r} : pc'[q] = pc[q]
    BY <2>1 DEF IInv, TypeOK
  <2>3. Writes(r, SlotOf[r], new)
    BY <1>1, <1>4, <2>2 DEF Writes
  <2>4. claim[SlotOf[r]].attempt = 1
    BY <1>1, <1>4 DEF IInv, BooksOK, RowOK
  <2>5. NoneYet' /\ Behind'
    BY <1>1, <1>3, <2>3, <2>4, WritesGrow DEF Second
  <2>6. /\ \A e \in Ids : e[1] = SlotOf[r] => event[e] = "none"
        /\ \A q \in Requests : SlotOf[q] = SlotOf[r] => pc[q] \notin AtWork
    BY <1>1, <1>4 DEF Second, NoneYet
  <2>7. \A e \in Ids : e[1] = SlotOf[r] => ~Written(e) /\ ~Coming(e) /\ ~Stands(e)
    BY <2>6 DEF IInv, BooksOK, Written, Coming, Stands
  <2>8. ASSUME Prompt PROVE Course'
    <3>1. Course /\ (l \notin AtWork \/ l = "readback")
      BY <2>1, <2>8 DEF Second
    <3>2. /\ \A q \in Requests \ {r} : SlotOf[q] = SlotOf[r] => pc[q] # "readback"
          /\ \A q \in Requests \ {r} : SlotOf[q] = SlotOf[r] /\ pc[q] \in Underway =>
                 ~Current(q) /\ mine[q].attempt # new.attempt
      BY <2>6, Classes
    <3>. QED
      BY <1>3, <2>1, <2>3, <2>6, <2>7, <3>1, <3>2, WritesAnew
  <2>. QED
    BY <2>5, <2>8 DEF Second
<1>5. CASE UNCHANGED store /\ (Goto(r, "take") \/ NotBooked(r, "error"))
  <2>1. Fewer
    BY <1>5, EndsFewer, GotoFewer, Classes DEF Labels
  <2>. QED
    BY <1>1, <1>5, <2>1, JustGoes
<1>. QED
  BY <1>2, <1>4, <1>5 DEF InsertPending

LEMMA ReadBackSecond == ASSUME IInv, Second, NEW r \in Requests, ReadBack(r) PROVE Second'
<1>1. UNCHANGED <<event, appt, claim, old, slipped>> /\ pc[r] = "readback" /\ SlotOf[r] \in Slots
  BY SlotAt DEF ReadBack, At, store, rows
<1>2. CASE NotBooked(r, "error") /\ UNCHANGED mine
  <2>1. Fewer
    BY <1>2, EndsFewer
  <2>. QED
    BY <1>1, <1>2, <2>1, JustGoes DEF store
<1>3. CASE mine' = [mine EXCEPT ![r] = claim[SlotOf[r]]] /\ Goto(r, "recheck")
  <2>1. /\ pc'[r] = "recheck" /\ mine'[r] = claim[SlotOf[r]]
        /\ \A q \in Requests \ {r} : pc'[q] = pc[q] /\ mine'[q] = mine[q]
    BY <1>3 DEF Goto, IInv, TypeOK
  <2>2. \A e \in Ids : (Written(e)' <=> Written(e)) /\ (Coming(e)' <=> Coming(e)) /\ (Stands(e)' <=> Stands(e))
    BY <1>1 DEF Written, Coming, Stands
  <2>3. NoneYet'
    BY <1>1, <2>1, Classes DEF Second, NoneYet
  <2>4. Behind'
    <3>1. claim[SlotOf[r]].attempt \in Nat
      BY <1>1 DEF IInv, TypeOK, Claims, Attempts
    <3>. QED
      BY <1>1, <2>1, <3>1 DEF Second, Behind
  <2>5. ASSUME Prompt PROVE Course'
    <3>1. Course
      BY <2>5 DEF Second
    <3>2. claim[SlotOf[r]].state = "pending"
          /\ \A q \in Requests \ {r} : SlotOf[q] = SlotOf[r] => pc[q] \notin AtWork
      BY <1>1, <3>1 DEF Course, FirstAlone
    <3>3. \A q \in Requests \ {r} : (Current(q)' <=> Current(q)) /\ Event(q)' = Event(q)
      BY <1>1, <2>1 DEF Current, Event
    <3>4. Current(r)'
      BY <1>1, <2>1, <3>2 DEF Current
    <3>5. OldIdle'
      BY <1>1, <2>1, <3>1, Classes DEF Course, OldIdle
    <3>6. FirstAlone'
      BY <1>1, <2>1, <2>2, <3>1, Classes DEF Course, FirstAlone
    <3>7. CopiesStale'
      BY <1>1, <2>1, <3>1, <3>2, <3>3, Classes DEF Course, CopiesStale
    <3>8. OwnAttempt' /\ OwnBooking'
      BY <1>1, <2>2, <3>1 DEF Course, OwnAttempt, OwnBooking
    <3>9. Harmless'
      <4>1. \A q \in Requests \ {r} : Written(Event(q))' <=> Written(Event(q))
        BY <1>1, <3>3 DEF Written
      <4>. QED
        BY <1>1, <2>1, <3>1, <3>3, <3>4, <4>1 DEF Course, Harmless
    <3>. QED
      BY <3>5, <3>6, <3>7, <3>8, <3>9 DEF Course
  <2>. QED
    BY <2>3, <2>4, <2>5 DEF Second
<1>. QED
  BY <1>2, <1>3 DEF ReadBack

\* A claim taken by a swap: nobody else works for the attempt it is at then.
LEMMA TakeOver ==
    ASSUME IInv, Second, NEW r \in Requests, UNCHANGED <<event, appt>>, NEW row, NEW new,
           Transition(r, row, new, Goto(r, "recheck"), NotBooked(r, "in_progress"), NotBooked(r, "error")),
           new.state = "pending",
           claim[SlotOf[r]] = row =>
               /\ new \in Claims /\ new.attempt >= row.attempt
               /\ Prompt =>
                     /\ \A q \in Requests \ {r} : SlotOf[q] = SlotOf[r] => pc[q] # "readback"
                     /\ \A q \in Requests \ {r} : SlotOf[q] = SlotOf[r] /\ pc[q] \in Underway =>
                            ~Current(q) /\ mine[q].attempt # new.attempt
                     /\ \A e \in Ids : (Coming(e) \/ Stands(e)) /\ e[1] = SlotOf[r] /\ e[1] \notin slipped =>
                            e[2] = new.attempt
    PROVE  Second'
<1>1. CASE UNCHANGED <<store, mine>> /\ (NotBooked(r, "in_progress") \/ NotBooked(r, "error"))
  <2>1. Fewer
    BY <1>1, EndsFewer
  <2>. QED
    BY <1>1, <2>1, JustGoes
<1>2. CASE /\ Swaps(SlotOf[r], row, new) /\ Put(SlotOf[r], new)
           /\ \/ Keeps(r) /\ Goto(r, "recheck")
              \/ UNCHANGED mine /\ NotBooked(r, "error")
  <2>1. claim[SlotOf[r]] = row /\ SlotOf[r] \in Slots
    BY <1>2, SlotAt DEF Swaps
  <2>2. PICK l \in {"recheck", "release", "cancel", "done"} :
           /\ pc' = [pc EXCEPT ![r] = l] /\ l \in Labels
           /\ l \notin AtWork \/ (l = "recheck" /\ mine' = [mine EXCEPT ![r] = claim'[SlotOf[r]]])
    BY <1>2, Ends, Classes DEF Goto, Keeps
  <2>3. /\ \A q \in Requests \ {r} : pc'[q] = pc[q] /\ mine'[q] = mine[q]
        /\ mine'[r] = mine[r] \/ mine'[r] = claim'[SlotOf[r]]
        /\ l = "recheck" => mine'[r] = claim'[SlotOf[r]]
    BY <1>2, <2>2, Classes DEF Keeps, IInv, TypeOK
  <2>4. Writes(r, SlotOf[r], new)
    BY <1>2, <2>3 DEF Writes
  <2>5. NoneYet' /\ Behind'
    BY <2>1, <2>4, WritesGrow DEF Second
  <2>6. ASSUME Prompt PROVE Course'
    <3>1. Course /\ l # "readback" /\ pc' = [pc EXCEPT ![r] = l] /\ l \in Labels
          /\ (l \notin AtWork \/ l = "readback" \/ (l = "recheck" /\ mine'[r] = claim'[SlotOf[r]]))
      BY <2>2, <2>3, <2>6 DEF Second
    <3>. QED
      BY <2>1, <2>4, <2>6, <3>1, WritesAnew
  <2>. QED
    BY <2>5, <2>6 DEF Second
<1>. QED
  BY <1>1, <1>2 DEF Transition

\* Nobody works for the attempt of a claim that is not pending, nor for a later one.
LEMMA NobodyCurrent ==
    ASSUME IInv, Second, Prompt, NEW s \in Slots, claim[s].state # "pending"
    PROVE  /\ \A q \in Requests : SlotOf[q] = s => pc[q] # "readback" /\ ~Current(q)
           /\ \A q \in Requests : SlotOf[q] = s => mine[q].attempt # claim[s].attempt + 1
           /\ claim[s].attempt + 1 >= claim[s].attempt
<1>1. \A q \in Requests : SlotOf[q] = s => pc[q] # "readback" /\ ~Current(q)
  BY DEF Second, Course, FirstAlone, Current
<1>2. \A q \in Requests : SlotOf[q] = s => mine[q].attempt <= claim[s].attempt /\ mine[q].attempt \in Nat
  BY DEF Second, Behind, IInv, TypeOK, Claims, Attempts
<1>3. claim[s].attempt \in Nat
  BY DEF IInv, TypeOK, Claims, Attempts
<1>. QED
  BY <1>1, <1>2, <1>3

LEMMA TakeSecond == ASSUME IInv, Second, NEW r \in Requests, Take(r) PROVE Second'
<1> DEFINE row == claim[SlotOf[r]]
           retry == [row EXCEPT !.state = "pending", !.attempt = @ + 1]
<1>1. UNCHANGED <<event, appt>> /\ pc[r] = "take" /\ SlotOf[r] \in Slots /\ row \in Claims
      /\ row.attempt \in Nat
  BY SlotAt DEF Take, At, rows, IInv, TypeOK, Claims, Attempts
<1>2. CASE UNCHANGED <<store, mine>> /\ \E w \in {"busy", "in_progress", "error"} : NotBooked(r, w)
  <2>1. Fewer
    BY <1>2, EndsFewer
  <2>. QED
    BY <1>1, <1>2, <2>1, JustGoes
<1>3. CASE row.state = "booked" /\ Goto(r, "reopen") /\ mine' = [mine EXCEPT ![r] = row] /\ UNCHANGED store
  <2>1. /\ pc'[r] = "reopen" /\ mine'[r] = row /\ UNCHANGED <<claim, old, slipped>>
        /\ \A q \in Requests \ {r} : pc'[q] = pc[q] /\ mine'[q] = mine[q]
    BY <1>3 DEF Goto, IInv, TypeOK, store
  <2>2. NoneYet' /\ Behind'
    BY <1>1, <1>3, <2>1 DEF Second, NoneYet, Behind
  <2>3. ASSUME Prompt PROVE Course'
    <3>1. Course
      BY <2>3 DEF Second
    <3>2. \A q \in Requests \ {r} : (Current(q)' <=> Current(q)) /\ Event(q)' = Event(q)
                                    /\ (Written(Event(q))' <=> Written(Event(q)))
      BY <1>1, <2>1 DEF Current, Event, Written
    <3>3. \A q \in Requests : SlotOf[q] = SlotOf[r] => ~Current(q)' /\ pc[q] # "readback"
      BY <1>1, <1>3, <2>1, <2>3, NobodyCurrent DEF Current
    <3>4. OldIdle'
      BY <2>1, <3>1, Classes DEF Course, OldIdle
    <3>5. FirstAlone'
      BY <1>1, <2>1, <3>1, <3>3 DEF Course, FirstAlone, Written
    <3>6. CopiesStale'
      BY <2>1, <3>1, <3>2, <3>3 DEF Course, CopiesStale
    <3>7. OwnAttempt' /\ OwnBooking'
      BY <1>1, <2>1, <3>1 DEF Course, OwnAttempt, OwnBooking, Coming, Stands
    <3>8. Harmless'
      BY <2>1, <3>1, <3>2, Classes DEF Course, Harmless
    <3>. QED
      BY <3>4, <3>5, <3>6, <3>7, <3>8 DEF Course
  <2>. QED
    BY <2>2, <2>3 DEF Second
<1>4. CASE /\ row.state = "failed"
           /\ Transition(r, row, retry, Goto(r, "recheck"), NotBooked(r, "in_progress"), NotBooked(r, "error"))
  <2>1. PICK new : new = retry
    OBVIOUS
  <2>2. row.attempt + 1 \in Attempts
    BY <1>1, MayTry DEF Counted
  <2>3. new \in Claims /\ new.state = "pending" /\ new.attempt = row.attempt + 1
    BY <1>1, <2>1, <2>2 DEF Claims
  <2>4. Transition(r, row, new, Goto(r, "recheck"), NotBooked(r, "in_progress"), NotBooked(r, "error"))
    BY <1>4, <2>1
  <2>5. Prompt => \A e \in Ids : (Coming(e) \/ Stands(e)) /\ e[1] = SlotOf[r] => e[1] \in slipped
    BY <1>4 DEF Second, Course, OwnAttempt
  <2>6. Prompt => /\ \A q \in Requests : SlotOf[q] = SlotOf[r] => pc[q] # "readback" /\ ~Current(q)
                  /\ \A q \in Requests : SlotOf[q] = SlotOf[r] => mine[q].attempt # new.attempt
    BY <1>1, <1>4, <2>3, NobodyCurrent
  <2>7. new.attempt >= row.attempt
    BY <1>1, <2>3
  <2>. HIDE DEF row
  <2>. QED
    BY <1>1, <2>3, <2>4, <2>5, <2>6, <2>7, TakeOver
<1>5. CASE /\ row.state = "pending" /\ SlotOf[r] \in old
           /\ Transition(r, row, row, Goto(r, "recheck"), NotBooked(r, "in_progress"), NotBooked(r, "error"))
  <2>1. Prompt => \A q \in Requests : SlotOf[q] = SlotOf[r] => pc[q] # "readback" /\ pc[q] \notin Underway
    BY <1>5, Classes DEF Second, Course, OldIdle
  <2>2. Prompt => \A e \in Ids : (Coming(e) \/ Stands(e)) /\ e[1] = SlotOf[r] /\ e[1] \notin slipped =>
                      e[2] = row.attempt
    BY DEF Second, Course, OwnAttempt
  <2>3. row.attempt >= row.attempt
    BY <1>1
  <2>. HIDE DEF row
  <2>. QED
    BY <1>1, <1>5, <2>1, <2>2, <2>3, TakeOver
<1>. QED
  BY <1>2, <1>3, <1>4, <1>5 DEF Take

LEMMA ReopenSecond == ASSUME IInv, Second, NEW r \in Requests, Reopen(r) PROVE Second'
<1> DEFINE held == mine[r]
           stands == held.appt # Nil /\ appt[held.appt] = "standing"
           again == [held EXCEPT !.state = "pending", !.attempt = @ + 1, !.appt = Nil]
           s == SlotOf[r]
<1>1. UNCHANGED <<event, appt>> /\ pc[r] = "reopen" /\ s \in Slots /\ held \in Claims
      /\ held.attempt \in Nat /\ held.state = "booked"
  BY SlotAt DEF Reopen, At, rows, IInv, TypeOK, ReqOK, Claims, Attempts
<1>2. CASE UNCHANGED <<store, mine>> /\ (Booked(r, "already") \/ NotBooked(r, "uncertain"))
  <2>1. Fewer
    BY <1>2, EndsFewer
  <2>. QED
    BY <1>1, <1>2, <2>1, JustGoes
<1>3. CASE /\ ~stands
           /\ Transition(r, held, again, Goto(r, "recheck"), NotBooked(r, "in_progress"),
                         NotBooked(r, "error"))
  <2>1. PICK new : new = again
    OBVIOUS
  <2>2. claim[s] = held => new \in Claims
    <3>1. claim[s] = held => held.attempt + 1 \in Attempts
      BY <1>1, MayTry DEF Counted
    <3>. QED
      BY <1>1, <2>1, <3>1 DEF Claims
  <2>3. new.state = "pending" /\ new.attempt = held.attempt + 1
    BY <1>1, <2>1 DEF Claims
  <2>4. Transition(r, held, new, Goto(r, "recheck"), NotBooked(r, "in_progress"), NotBooked(r, "error"))
    BY <1>3, <2>1
  <2>5. ASSUME Prompt, claim[s] = held, NEW e \in Ids, Coming(e) \/ Stands(e), e[1] = s, s \notin slipped
        PROVE  FALSE
    <3>1. claim[s].attempt = e[2] /\ claim[s].appt = <<s, claim[s].attempt>>
      BY <1>1, <2>5 DEF Second, Course, OwnAttempt, OwnBooking
    <3>2. e = held.appt
      BY <2>5, <3>1 DEF Ids
    <3>3. Written(e) /\ ~Stands(e)
      BY <1>1, <1>3, <2>5, <3>2, NotNil DEF IInv, BooksOK, RowOK, Stands
    <3>4. appt[e] = "cancelled"
      BY <3>3 DEF IInv, TypeOK, Written, Stands
    <3>. QED
      BY <2>5, <3>3, <3>4 DEF IInv, BooksOK, Coming
  <2>6. Prompt /\ claim[s] = held =>
          /\ \A q \in Requests : SlotOf[q] = s => pc[q] # "readback" /\ ~Current(q)
          /\ \A q \in Requests : SlotOf[q] = s => mine[q].attempt # new.attempt
    BY <1>1, <2>3, NobodyCurrent
  <2>7. new.attempt >= held.attempt
    BY <1>1, <2>3
  <2>. HIDE DEF held, s
  <2>8. claim[SlotOf[r]] = held =>
          /\ new \in Claims /\ new.attempt >= held.attempt
          /\ Prompt =>
                /\ \A q \in Requests \ {r} : SlotOf[q] = SlotOf[r] => pc[q] # "readback"
                /\ \A q \in Requests \ {r} : SlotOf[q] = SlotOf[r] /\ pc[q] \in Underway =>
                       ~Current(q) /\ mine[q].attempt # new.attempt
                /\ \A e \in Ids : (Coming(e) \/ Stands(e)) /\ e[1] = SlotOf[r] /\ e[1] \notin slipped =>
                       e[2] = new.attempt
    BY <2>2, <2>5, <2>6, <2>7 DEF s
  <2>. QED
    BY <1>1, <2>3, <2>4, <2>8, TakeOver
<1>. QED
  BY <1>2, <1>3 DEF Reopen

LEMMA LookUpSecond == ASSUME IInv, Second, NEW r \in Requests, LookUp(r) PROVE Second'
<1>1. UNCHANGED <<store, event, appt, mine>> /\ pc[r] \in {"guard", "recheck"}
  BY DEF LookUp, rows
<1>2. CASE \E l \in {"settle", "resettle", "fail"} :
              Goto(r, l) /\ (pc[r] = "guard" => l = "settle")
  <2>1. PICK l \in {"settle", "resettle", "fail"} : Goto(r, l) /\ (pc[r] = "guard" => l = "settle")
    BY <1>2
  <2>2. l \in Labels /\ (l \notin AtWork \/ (pc[r] \in Underway /\ (l \in Underway \/ l \in {"fail", "mark"})))
    BY <1>1, <2>1, Classes DEF Labels, Owning
  <2>3. Fewer
    BY <2>1, <2>2, GotoFewer
  <2>. QED
    BY <1>1, <2>3, JustGoes
<1>3. CASE Answer(r, "refused")
  BY <1>1, <1>3, EndsFewer, JustGoes
<1>. QED
  BY <1>1, <1>2, <1>3 DEF LookUp, At

LEMMA DecideSecond == ASSUME IInv, Second, NEW r \in Requests, Decide(r) PROVE Second'
<1>1. UNCHANGED <<event, appt, mine>> /\ pc[r] \in {"settle", "resettle"} /\ Settle(seen[r])
  BY DEF Decide, rows
<1>2. Fewer
  <2>1. CASE \E l \in {"check", "create", "fail"} : Goto(r, l) /\ (pc[r] = "settle" => l = "check")
    <3>1. PICK l \in {"check", "create", "fail"} : Goto(r, l) /\ (pc[r] = "settle" => l = "check")
      BY <2>1
    <3>2. l \in Labels /\ (l \notin AtWork \/ (pc[r] \in Underway /\ (l \in Underway \/ l \in {"fail", "mark"})))
      BY <1>1, <3>1, Classes DEF Labels, Owning, Underway
    <3>. QED
      BY <3>1, <3>2, GotoFewer
  <2>2. CASE NotBooked(r, "already") \/ Answer(r, "refused")
    BY <2>2, EndsFewer
  <2>. QED
    BY <1>1, <2>1, <2>2 DEF Decide, At
<1>3. CASE UNCHANGED store
  BY <1>1, <1>2, <1>3, JustGoes
<1>4. ASSUME NEW s \in Slots, NEW e \in seen[r], claim[s].state = "pending", e[1] = s,
             Put(s, [claim[s] EXCEPT !.state = "booked", !.appt = e])
      PROVE  Second'
  <2>1. PICK new : new = [claim[s] EXCEPT !.state = "booked", !.appt = e]
    OBVIOUS
  <2>2. e \in Ids /\ Written(e) /\ claim[s] \in Claims
    BY DEF IInv, TypeOK, ReqOK
  <2>3. new \in Claims /\ new.state = "booked" /\ new.appt = e /\ new.attempt = claim[s].attempt
    BY <2>1, <2>2 DEF Claims
  <2>8. new.attempt >= claim[s].attempt
    BY <2>2, <2>3 DEF Claims, Attempts
  <2>4. \A q \in Requests \ {r} : pc'[q] = pc[q]
    <3>1. \E l \in Labels : pc' = [pc EXCEPT ![r] = l]
      BY DEF Decide, NotBooked, Answer, Goto, At, Labels, Owning
    <3>. QED
      BY <3>1 DEF IInv, TypeOK
  <2>5. Writes(r, s, new)
    BY <1>1, <1>4, <2>1, <2>4 DEF Writes
  <2>6. NoneYet' /\ Behind'
    BY <1>2, <2>3, <2>5, <2>8, WritesGrow DEF Second, Fewer
  <2>7. ASSUME Prompt PROVE Course'
    <3>1. Course
      BY <2>7 DEF Second
    <3>2. \A q \in Requests : SlotOf[q] = s => pc'[q] # "readback"
      BY <1>2, <1>4, <2>2, <3>1 DEF Course, FirstAlone, Fewer
    <3>3. ASSUME NEW q \in Requests, SlotOf[q] = s, Current(q)
          PROVE  Written(Event(q)) \/ Slips(s, new)
      <4>1. Event(q) = <<s, new.attempt>>
        BY <2>3, <3>3 DEF Event, Current
      <4>. QED
        BY <2>2, <2>3, <4>1 DEF Slips
    <3>. QED
      BY <1>1, <1>2, <2>3, <2>5, <3>1, <3>2, <3>3, WritesOff
  <2>. QED
    BY <2>6, <2>7 DEF Second
<1>. QED
  BY <1>1, <1>3, <1>4 DEF Settle

\* A swap of the row that r last read, after which r rests: nobody else works for it.
LEMMA SwapsOff ==
    ASSUME IInv, Second, NEW r \in Requests, UNCHANGED <<event, appt>>, pc[r] \in Holding,
           NEW new \in Claims, new.state \in {"failed", "booked"}, new.attempt = mine[r].attempt,
           Moves(r, mine[r], new), NEW w, NotBooked(r, w) \/ Booked(r, w)
    PROVE  Second'
<1>1. Fewer
  BY EndsFewer
<1>2. CASE UNCHANGED <<store, mine>>
  BY <1>1, <1>2, JustGoes
<1>3. CASE Swaps(SlotOf[r], mine[r], new) /\ Put(SlotOf[r], new) /\ (Keeps(r) \/ UNCHANGED mine)
  <2>1. claim[SlotOf[r]] = mine[r] /\ SlotOf[r] \in Slots /\ mine[r].attempt \in Nat
    BY <1>3, SlotAt DEF Swaps, IInv, TypeOK, Claims, Attempts
  <2>2. PICK l \in Labels \ AtWork : pc' = [pc EXCEPT ![r] = l]
    BY Ends
  <2>3. /\ pc'[r] = l /\ \A q \in Requests \ {r} : pc'[q] = pc[q] /\ mine'[q] = mine[q]
        /\ mine'[r] = mine[r] \/ mine'[r] = claim'[SlotOf[r]]
    BY <1>3, <2>2 DEF Keeps, IInv, TypeOK
  <2>4. Writes(r, SlotOf[r], new)
    BY <1>3, <2>3 DEF Writes
  <2>5. new.attempt >= claim[SlotOf[r]].attempt /\ new.attempt = claim[SlotOf[r]].attempt
        /\ pc'[r] \notin AtWork /\ new.state # "none"
    BY <2>1, <2>3
  <2>6. NoneYet' /\ Behind'
    BY <2>1, <2>4, <2>5, WritesGrow DEF Second
  <2>7. ASSUME Prompt PROVE Course'
    <3>1. Course
      BY <2>7 DEF Second
    <3>2. \A q \in Requests : pc'[q] \in Underway => mine'[q] = mine[q]
      BY <2>3, <2>5, Classes
    <3>3. pc'[r] \in Holding => mine'[r] = mine[r]
      BY <2>5, Classes
    <3>4. \A q \in Requests : SlotOf[q] = SlotOf[r] => pc'[q] # "readback"
      BY <2>3, <2>5, <3>1, Classes DEF Course, FirstAlone
    <3>5. \A q \in Requests : SlotOf[q] = SlotOf[r] /\ pc'[q] \in Underway /\ Current(q) =>
              Written(Event(q)) \/ Slips(SlotOf[r], new)
      BY <2>1, <2>3, <2>5, <3>1, Classes DEF Course, CopiesStale
    <3>. QED
      BY <1>1, <2>1, <2>4, <2>5, <3>1, <3>2, <3>3, <3>4, <3>5, WritesOff
  <2>. QED
    BY <2>6, <2>7 DEF Second
<1>. QED
  BY <1>2, <1>3 DEF Moves

LEMMA MarkFailedSecond == ASSUME IInv, Second, NEW r \in Requests, MarkFailed(r) PROVE Second'
<1>1. PICK new : new = [mine[r] EXCEPT !.state = "failed"]
  OBVIOUS
<1>2. new \in Claims /\ new.state = "failed" /\ new.attempt = mine[r].attempt
  BY <1>1 DEF IInv, TypeOK, Claims
<1>3. Moves(r, mine[r], new) /\ NotBooked(r, "refused")
  BY <1>1 DEF MarkFailed, Try, Transition, Moves
<1>4. UNCHANGED <<event, appt>> /\ pc[r] \in Holding
  BY Classes DEF MarkFailed, At, rows
<1>. QED
  BY <1>2, <1>3, <1>4, SwapsOff

LEMMA CreateSecond == ASSUME IInv, Second, NEW r \in Requests, Create(r) PROVE Second'
<1>1. UNCHANGED <<claim, old, slipped, appt, mine>> /\ pc[r] = "create" /\ pc[r] \in Underway
  BY DEF Create, At, store, rows, local, Underway
<1>2. PICK e \in Ids : e = Event(r)
  BY EventParts
<1>3. \/ event' = event
      \/ event[e] # "gone" /\ event' = [event EXCEPT ![e] = "live"]
      \/ ~Made(e) /\ event' = [event EXCEPT ![e] = "sent"]
  <2>1. Made(e) => [event EXCEPT ![e] = event[e]] = event
    BY DEF IInv, TypeOK
  <2>. QED
    BY <1>2, <2>1 DEF Create
<1>4. Only
  <2>1. \A d \in Ids \ {e} : event'[d] = event[d]
    BY <1>3 DEF IInv, TypeOK
  <2>2. \A d \in Ids : (Written(d)' <=> Written(d)) /\ (Stands(d)' <=> Stands(d))
    BY <1>1 DEF Written, Stands
  <2>3. Works(r)
    BY <1>1 DEF Works
  <2>4. Written(e) /\ Coming(e)' => Coming(e)
    BY <1>3 DEF IInv, TypeOK, BooksOK, Coming
  <2>5. \A d \in Ids \ {e} : Coming(d)' <=> Coming(d)
    BY <2>1 DEF Coming
  <2>. QED
    BY <1>2, <2>1, <2>2, <2>3, <2>4, <2>5 DEF Only
<1>5. Fewer
  <2>1. CASE \E l \in {"note", "fail", "probe"} : Goto(r, l)
    <3>1. PICK l \in {"note", "fail", "probe"} : Goto(r, l)
      BY <2>1
    <3>2. l \in Labels /\ (l \in Underway \/ l \in {"fail", "mark"})
      BY DEF Labels, Owning, Underway
    <3>. QED
      BY <1>1, <3>1, <3>2, GotoFewer
  <2>2. CASE NotBooked(r, "uncertain")
    BY <2>2, EndsFewer
  <2>. QED
    BY <2>1, <2>2 DEF Create
<1>. QED
  BY <1>1, <1>4, <1>5, WalkSecond

LEMMA ProbeSecond == ASSUME IInv, Second, NEW r \in Requests, Probe(r) PROVE Second'
<1>1. UNCHANGED <<store, event, appt, mine>> /\ pc[r] \in Underway
  BY DEF Probe, At, rows, local, Underway
<1>2. CASE \E l \in {"note", "fail"} : Goto(r, l)
  <2>1. PICK l \in {"note", "fail"} : Goto(r, l)
    BY <1>2
  <2>2. l \in Labels /\ (l \in Underway \/ l \in {"fail", "mark"})
    BY DEF Labels, Owning, Underway
  <2>. QED
    BY <1>1, <2>1, <2>2, GotoFewer, JustGoes
<1>3. CASE NotBooked(r, "uncertain")
  BY <1>1, <1>3, EndsFewer, JustGoes
<1>. QED
  BY <1>2, <1>3 DEF Probe

LEMMA NoteSecond == ASSUME IInv, Second, NEW r \in Requests, Note(r) PROVE Second'
<1>1. UNCHANGED <<event, appt>> /\ pc[r] = "note" /\ pc[r] \in Underway /\ SlotOf[r] \in Slots
      /\ mine[r] \in Claims /\ "lookup" \in Underway
  BY SlotAt DEF Note, At, rows, Underway, IInv, TypeOK
<1>2. Moves(r, mine[r], mine[r]) /\ Goto(r, "lookup")
  BY DEF Note, Try, Transition, Moves
<1>3. Fewer
  BY <1>1, <1>2, GotoFewer, Classes
<1>4. CASE UNCHANGED <<store, mine>>
  BY <1>1, <1>3, <1>4, JustGoes
<1>5. CASE Swaps(SlotOf[r], mine[r], mine[r]) /\ Put(SlotOf[r], mine[r]) /\ (Keeps(r) \/ UNCHANGED mine)
  <2> DEFINE s == SlotOf[r]
  <2>1. claim[s] = mine[r]
    BY <1>5 DEF Swaps
  <2>2. /\ claim' \in [Slots -> Claims] /\ claim'[s].state = claim[s].state
        /\ claim'[s].attempt = claim[s].attempt /\ claim'[s].appt = claim[s].appt
        /\ claim'[s].ver = FreshVer(s) /\ old' = old \ {s} /\ slipped \subseteq slipped'
        /\ \A t \in Slots \ {s} : claim'[t] = claim[t]
    BY <1>1, <1>5, <2>1, PutDoes DEF IInv
  <2>3. /\ \A q \in Requests \ {r} : pc'[q] = pc[q] /\ mine'[q] = mine[q]
        /\ mine'[r] = mine[r] \/ mine'[r] = claim'[s]
    BY <1>2, <1>5 DEF Goto, Keeps, IInv, TypeOK
  <2>4. mine'[r].attempt = mine[r].attempt
    BY <2>1, <2>2, <2>3
  <2>5. /\ \A q \in Requests : mine'[q].attempt = mine[q].attempt
        /\ \A t \in Slots : claim'[t].state = claim[t].state /\ claim'[t].attempt = claim[t].attempt
                            /\ claim'[t].appt = claim[t].appt
    BY <2>2, <2>3, <2>4
  <2>6. \A q \in Requests : (Current(q)' <=> Current(q)) /\ Event(q)' = Event(q)
    BY <2>5, SlotAt DEF Current, Event
  <2>7. \A e \in Ids : (Written(e)' <=> Written(e)) /\ (Coming(e)' <=> Coming(e)) /\ (Stands(e)' <=> Stands(e))
    BY <1>1 DEF Written, Coming, Stands
  <2>8. NoneYet' /\ Behind'
    BY <1>1, <1>3, <2>5, SlotAt DEF Second, NoneYet, Behind, Fewer
  <2>9. ASSUME Prompt PROVE Course'
    <3>1. Course
      BY <2>9 DEF Second
    <3>2. OldIdle'
      BY <1>3, <2>2, <3>1 DEF Course, OldIdle, Fewer
    <3>3. FirstAlone'
      BY <1>3, <2>5, <2>7, <3>1, SlotAt DEF Course, FirstAlone, Fewer
    <3>4. CopiesStale'
      <4> SUFFICES ASSUME NEW q \in Requests, NEW a \in Requests, pc'[a] \in Underway, Current(a)', q # a,
                          SlotOf[q] = SlotOf[a], pc'[q] \in Holding
                   PROVE  mine'[q] # claim'[SlotOf[a]]
        BY DEF CopiesStale
      <4>1. pc[a] \in Underway /\ Current(a) /\ pc[q] \in Holding
        BY <1>3, <2>6 DEF Fewer
      <4>2. mine[q] # claim[SlotOf[a]]
        BY <3>1, <4>1 DEF Course, CopiesStale
      <4>3. CASE SlotOf[a] # s
        BY <2>2, <2>3, <4>2, <4>3, SlotAt
      <4>4. CASE SlotOf[a] = s
        <5>1. q # r
          BY <2>1, <4>2, <4>4
        <5>2. mine[q].ver # FreshVer(s)
          BY <1>1, <4>1, <4>4, Fresh DEF IInv
        <5>. QED
          BY <2>2, <2>3, <4>4, <5>1, <5>2
      <4>. QED
        BY <4>3, <4>4
    <3>5. OwnAttempt'
      <4>1. \A e \in Ids : e[1] \in Slots
        BY DEF Ids
      <4>. QED
        BY <2>2, <2>5, <2>7, <3>1, <4>1 DEF Course, OwnAttempt
    <3>6. OwnBooking'
      BY <2>2, <2>5, <3>1 DEF Course, OwnBooking
    <3>7. Harmless'
      <4>1. \A q \in Requests : Written(Event(q))' <=> Written(Event(q))
        BY <1>1, <2>6 DEF Written
      <4>. QED
        BY <1>3, <2>2, <2>6, <3>1, <4>1 DEF Course, Harmless, Fewer
    <3>. QED
      BY <3>2, <3>3, <3>4, <3>5, <3>6, <3>7 DEF Course
  <2>. QED
    BY <2>8, <2>9 DEF Second
<1>. QED
  BY <1>2, <1>4, <1>5 DEF Moves

LEMMA LookupSecond == ASSUME IInv, Second, NEW r \in Requests, Lookup(r) PROVE Second'
<1>1. UNCHANGED <<event, appt>> /\ pc[r] = "lookup" /\ pc[r] \in Underway /\ pc[r] \in Holding
      /\ "insert" \in Underway
  BY Classes DEF Lookup, At, rows, Underway
<1>2. CASE Goto(r, "insert") /\ UNCHANGED <<store, mine>>
  BY <1>1, <1>2, GotoFewer, Classes, JustGoes
<1>3. CASE NotBooked(r, "uncertain") /\ UNCHANGED <<store, mine>>
  BY <1>1, <1>3, EndsFewer, JustGoes
<1>4. ASSUME appt[Event(r)] # "none",
             Try(r, [mine[r] EXCEPT !.state = "booked", !.appt = Event(r)],
                 \/ appt[Event(r)] = "standing" /\ Booked(r, "already")
                 \/ NotBooked(r, "uncertain"))
      PROVE  Second'
  <2>1. PICK new : new = [mine[r] EXCEPT !.state = "booked", !.appt = Event(r)]
    OBVIOUS
  <2>2. new \in Claims /\ new.state = "booked" /\ new.attempt = mine[r].attempt
    BY <1>4, <2>1, BookedRow DEF Written
  <2>3. Moves(r, mine[r], new) /\ (Booked(r, "already") \/ NotBooked(r, "uncertain"))
    BY <1>4, <2>1 DEF Try, Transition, Moves
  <2>. QED
    BY <1>1, <2>2, <2>3, SwapsOff
<1>. QED
  BY <1>2, <1>3, <1>4 DEF Lookup

LEMMA MarkBookedSecond == ASSUME IInv, Second, NEW r \in Requests, MarkBooked(r) PROVE Second'
<1>1. UNCHANGED <<event, appt>> /\ pc[r] = "mark" /\ pc[r] \in Holding /\ Written(Event(r))
  BY Classes DEF MarkBooked, At, rows, IInv, ReqOK
<1>2. PICK new : new = [mine[r] EXCEPT !.state = "booked", !.appt = Event(r)]
  OBVIOUS
<1>3. new \in Claims /\ new.state = "booked" /\ new.attempt = mine[r].attempt
  BY <1>1, <1>2, BookedRow
<1>4. Moves(r, mine[r], new) /\ Booked(r, "booked")
  BY <1>2 DEF MarkBooked, Try, Transition, Moves
<1>. QED
  BY <1>1, <1>3, <1>4, SwapsOff

LEMMA InsertAppointmentSecond ==
    ASSUME IInv, Second, NEW r \in Requests, InsertAppointment(r) PROVE Second'
<1>1. UNCHANGED <<claim, old, slipped, event, mine>> /\ pc[r] \in Underway
  BY DEF InsertAppointment, At, store, local, Underway
<1>2. Fewer
  BY <1>1, EndsFewer, GotoFewer, Classes DEF InsertAppointment, Labels, Owning
<1>3. PICK e \in Ids : e = Event(r)
  BY EventParts
<1>4. Only
  <2>1. \/ appt' = appt
        \/ appt[e] = "none" /\ appt' = [appt EXCEPT ![e] = "standing"]
    BY <1>3 DEF InsertAppointment, rows
  <2>2. Works(r)
    BY <1>1 DEF Works
  <2>. QED
    BY <1>1, <1>3, <2>1, <2>2 DEF Only, Written, Coming, Stands, IInv, TypeOK
<1>. QED
  BY <1>1, <1>2, <1>4, WalkSecond

\* What is swapped out was written.
LEMMA NextOriginals == ASSUME IInv, Originals, [Next]_vars PROVE Originals'
<1>1. ASSUME NEW r \in Requests, Book(r) PROVE Originals'
  <2>1. CASE InsertAppointment(r)
    <3>1. Event(r) \in Ids /\ UNCHANGED orig
          /\ \/ UNCHANGED <<appt, from>>
             \/ /\ appt' = [appt EXCEPT ![Event(r)] = "standing"]
                /\ from' = [from EXCEPT ![Event(r)] = IF r \in Replacers THEN orig[r] ELSE Nil]
      BY <2>1, EventParts DEF InsertAppointment, rows, local
    <3>. QED
      BY <3>1 DEF Originals, Written, IInv, TypeOK
  <2>2. CASE ~InsertAppointment(r)
    <3>1. UNCHANGED <<appt, from, orig>>
      BY <1>1, <2>2 DEF Book, CheckSlot, InsertPending, ReadBack, Take, Reopen, LookUp, Decide, MarkFailed,
         Create, Probe, Note, Lookup, MarkBooked, rows, local
    <3>. QED
      BY <3>1 DEF Originals, Written
  <2>. QED
    BY <2>1, <2>2
<1>2. ASSUME NEW r \in Requests, Crash(r) PROVE Originals'
  BY <1>2 DEF Crash, Originals, Written, rows, local
<1>3. ASSUME NEW p \in Replacers, Replace(p) PROVE Originals'
  <2>1. CASE Look(p)
    <3>1. UNCHANGED <<appt, from>>
          /\ \/ UNCHANGED orig
             \/ \E e \in Standing : orig' = [orig EXCEPT ![p] = e]
             \/ \E e \in Standing : from[e] # Nil /\ orig' = [orig EXCEPT ![p] = from[e]]
      BY <2>1 DEF Look, rows
    <3>. QED
      BY <3>1 DEF Originals, Written, Standing, IInv, TypeOK
  <2>2. CASE WriteOld(p)
    <3>1. UNCHANGED <<from, orig>> /\ orig[p] \in Ids
          /\ (appt' = appt \/ appt' = [appt EXCEPT ![orig[p]] = "cancelled"])
      BY <2>2, Swapper DEF WriteOld, At, Swapping, local
    <3>. QED
      BY <3>1 DEF Originals, Written, IInv, TypeOK
  <2>3. CASE ~Look(p) /\ ~WriteOld(p)
    <3>1. UNCHANGED <<appt, from, orig>>
      BY <1>3, <2>3 DEF Replace, Original, Own, Reread, CancelOld, HandOver, ReleaseOld, rows, local
    <3>. QED
      BY <3>1 DEF Originals, Written
  <2>. QED
    BY <2>1, <2>2, <2>3
<1>4. ASSUME NEW e \in Ids, CallerCancels(e) \/ Land(e) PROVE Originals'
  BY <1>4 DEF CallerCancels, Land, Originals, Written, rows, local, IInv, TypeOK
<1>5. ASSUME NEW s \in Slots, ClaimAges(s) PROVE Originals'
  BY <1>5 DEF ClaimAges, Originals, Written, rows, local
<1>6. CASE UNCHANGED vars
  BY <1>6 DEF vars, Originals, Written, rows, local
<1>. QED
  BY <1>1, <1>2, <1>3, <1>4, <1>5, <1>6 DEF Next

LEMMA ReplaceSecond == ASSUME IInv, Originals, Second, NEW p \in Replacers, Replace(p) PROVE Second'
<1>1. p \in Requests
  BY DEF Requests
<1>2. PICK l \in {"own", "own2", "original", "reread", "reread2", "check", "cancel", "write", "both",
                  "finish", "handover", "release", "done"} : pc' = [pc EXCEPT ![p] = l]
  BY DEF Replace, Look, Original, Own, Reread, CancelOld, WriteOld, HandOver, ReleaseOld, Goto, Answer
<1>3. Fewer
  BY <1>1, <1>2, GoesFewer, Classes
<1>4. UNCHANGED <<claim, old, slipped, mine>>
  BY DEF Replace, Look, Original, Own, Reread, CancelOld, WriteOld, HandOver, ReleaseOld, store, local
<1>5. Only
  <2>1. CASE CancelOld(p)
    <3>1. UNCHANGED appt /\ (event' = event \/ event' = [event EXCEPT ![orig[p]] = "gone"])
          /\ orig[p] \in Ids
      BY <2>1, Swapper DEF CancelOld, At, rows, Swapping
    <3>2. event[orig[p]] # "none"
      BY <3>1, NotNil DEF Originals, IInv, BooksOK
    <3>. QED
      BY <3>1, <3>2 DEF Only, Written, Coming, Stands, IInv, TypeOK
  <2>2. CASE WriteOld(p)
    <3>1. UNCHANGED event /\ orig[p] \in Ids
          /\ (appt' = appt \/ appt' = [appt EXCEPT ![orig[p]] = "cancelled"])
      BY <2>2, Swapper DEF WriteOld, At, Swapping
    <3>2. Written(orig[p])
      BY <3>1, NotNil DEF Originals
    <3>. QED
      BY <3>1, <3>2 DEF Only, Written, Coming, Stands, IInv, TypeOK
  <2>3. CASE ~CancelOld(p) /\ ~WriteOld(p)
    BY <2>3, SameBooks DEF Replace, Look, Original, Own, Reread, HandOver, ReleaseOld, rows
  <2>. QED
    BY <2>1, <2>2, <2>3
<1>. QED
  BY <1>3, <1>4, <1>5, WalkSecond

LEMMA CallerCancelsSecond ==
    ASSUME IInv, Second, NEW e \in Ids, CallerCancels(e) \/ Land(e) PROVE Second'
<1>1. UNCHANGED <<claim, old, slipped, mine, pc>>
  BY DEF CallerCancels, Land, store, local
<1>2. Fewer
  BY <1>1 DEF Fewer
<1>3. Only
  <2>1. CASE CallerCancels(e)
    <3>1. event[e] # "none" /\ Written(e)
      BY <2>1 DEF CallerCancels, IInv, BooksOK, Written
    <3>. QED
      BY <2>1, <3>1 DEF CallerCancels, Only, Written, Coming, Stands, IInv, TypeOK
  <2>2. CASE Land(e)
    BY <2>2 DEF Land, Only, Written, Coming, Stands, rows, IInv, TypeOK
  <2>. QED
    BY <2>1, <2>2
<1>. QED
  BY <1>1, <1>2, <1>3, WalkSecond

\* No claim of a request at work ages.
LEMMA ClaimAgesSecond == ASSUME IInv, Second, NEW s \in Slots, ClaimAges(s) PROVE Second'
<1>1. UNCHANGED <<claim, slipped, event, appt, mine, pc>> /\ old' = old \cup {s}
      /\ (Prompt => \A r \in Requests : SlotOf[r] = s => pc[r] \notin Owning)
  BY DEF ClaimAges, rows, local
<1>2. NoneYet' /\ Behind'
  BY <1>1 DEF Second, NoneYet, Behind
<1>3. ASSUME Prompt PROVE Course'
  <2>1. Course
    BY <1>3 DEF Second
  <2>2. OldIdle'
    BY <1>1, <1>3, <2>1 DEF Course, OldIdle
  <2>. QED
    BY <1>1, <2>1, <2>2 DEF Course, FirstAlone, CopiesStale, OwnAttempt, OwnBooking, Harmless, Current,
       Written, Coming, Stands, Event
<1>. QED
  BY <1>2, <1>3 DEF Second

LEMMA CrashSecond == ASSUME IInv, Second, NEW r \in Requests, Crash(r) PROVE Second'
<1>1. Fewer
  BY GoesFewer, Classes DEF Crash
<1>. QED
  BY <1>1, JustGoes DEF Crash, rows, local

LEMMA StutterSecond == ASSUME IInv, Second, UNCHANGED vars PROVE Second'
<1>1. UNCHANGED <<store, event, appt, mine, pc>>
  BY DEF vars, rows, local
<1>2. Fewer
  BY <1>1 DEF Fewer
<1>. QED
  BY <1>1, <1>2, JustGoes

LEMMA NextIInv2 == IInv2 /\ [Next]_vars => IInv2'
<1> SUFFICES ASSUME IInv, Originals, Second, [Next]_vars PROVE Second'
  BY NextIInv, NextOriginals DEF IInv2
<1>1. ASSUME NEW r \in Requests, Book(r) PROVE Second'
  BY <1>1, CheckSlotSecond, InsertPendingSecond, ReadBackSecond, TakeSecond, ReopenSecond, LookUpSecond,
     DecideSecond, MarkFailedSecond, CreateSecond, ProbeSecond, NoteSecond, LookupSecond,
     InsertAppointmentSecond, MarkBookedSecond DEF Book
<1>2. ASSUME NEW r \in Requests, Crash(r) PROVE Second'
  BY <1>2, CrashSecond
<1>3. ASSUME NEW p \in Replacers, Replace(p) PROVE Second'
  BY <1>3, ReplaceSecond
<1>4. ASSUME NEW e \in Ids, CallerCancels(e) \/ Land(e) PROVE Second'
  BY <1>4, CallerCancelsSecond
<1>5. ASSUME NEW s \in Slots, ClaimAges(s) PROVE Second'
  BY <1>5, ClaimAgesSecond
<1>6. CASE UNCHANGED vars
  BY <1>6, StutterSecond
<1>. QED
  BY <1>1, <1>2, <1>3, <1>4, <1>5, <1>6 DEF Next

\* IInv2 holds in every state.
THEOREM Inductive2 == Spec => []IInv2
<1>1. Init => IInv2
  <2> SUFFICES ASSUME Init PROVE Originals /\ Second
    BY InitIInv DEF IInv2
  <2>1. \A r \in Requests : pc[r] \notin AtWork
    BY DEF Init, AtWork, Owning
  <2>2. NoneYet /\ Behind
    BY <2>1, SlotAt DEF Init, NoneYet, Behind, NoClaim
  <2>3. Course
    BY <2>1, Classes DEF Init, Course, OldIdle, FirstAlone, CopiesStale, OwnAttempt, OwnBooking,
       Harmless, Coming, Stands, NoClaim
  <2>4. Originals
    BY DEF Init, Originals
  <2>. QED
    BY <2>2, <2>3, <2>4 DEF Second
<1>2. IInv2 /\ [Next]_vars => IInv2'
  BY NextIInv2
<1>. QED
  BY <1>1, <1>2, PTL DEF Spec

\* While no request outlasts STALE_SECONDS, a time of the call has one event, unless its
\* claim was let go of with one in the calendar or on its way.
THEOREM OneEventEach == Spec => []OneEventPerSlot
<1>1. IInv2 => OneEventPerSlot
  <2> SUFFICES ASSUME IInv2, Prompt, NEW d \in Ids, NEW e \in Ids, Coming(d), Coming(e), d[1] = e[1],
                      d[1] \notin slipped
               PROVE  d = e
    BY DEF OneEventPerSlot
  <2>1. d[2] = claim[d[1]].attempt /\ e[2] = claim[e[1]].attempt
    BY DEF IInv2, Second, Course, OwnAttempt
  <2>. QED
    BY <2>1 DEF Ids
<1>. QED
  BY <1>1, Inductive2, PTL
=============================================================================
