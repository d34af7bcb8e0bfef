----------------------- MODULE NumberLifecycleProofs ------------------------
(* Nothing leaves the books while Twilio has it, and Vapi is detached before a
   number is given back, for any numbers, requests, failures and stops.

   The argument: the number a buyer has in hand is nobody else's until it is on
   the tenant, so nobody can give it back under the buyer; a number that is being
   taken off the books is gone at Twilio, for good; and the number on the tenant
   is the live row's, or gone, or older than the canonical rows.             *)
EXTENDS NumberLifecycle, TLAPS

-----------------------------------------------------------------------------
(* The inductive invariant                                                   *)

\* The number is bought, and not yet on the tenant.
Holding == {"import", "name", "register", "insert", "activate", "mirror"}
Giving  == {"lookup", "vapi", "twilio"}
Taking  == {"books", "clear"}
Wanting == {"preflight", "buy"}

\* What a request relies on, and what it has in hand.
ReqOK(r) ==
    /\ req[r].pc \in Holding \cup Giving \cup Taking \cup {"undo"} => req[r].num \in Numbers
    /\ req[r].pc \in Giving => r \in Releasers
    /\ req[r].pc \in Holding \cup Wanting \cup {"undo", "finish"} => r \in Buyers
    /\ req[r].pc \in Holding \cup Wanting => req[r].acct \in Accounts
    /\ req[r].pc = "name" => r \in Signups
    /\ req[r].pc \in Taking => twilio[req[r].num] = "gone"
    /\ req[r].pc \in Holding => /\ twilio[req[r].num] = req[r].acct
                                /\ tenant.number # req[r].num
    /\ req[r].pc \in {"activate", "mirror"} /\ tenant.here => req[r].num \in Current
    /\ req[r].pc = "twilio" /\ req[r].vapi = req[r].num => req[r].num \notin vapi

\* A number in a buyer's hand is in nobody else's.
Apart == \A r, q \in Requests : r # q /\ req[r].pc \in Holding => req[q].num # req[r].num

\* A number nobody has bought is nowhere.
Unbought ==
    \A n \in Numbers : twilio[n] = "free" =>
        /\ rows[n] = "none" /\ tenant.number # n
        /\ \A r \in Requests : req[r].num # n

\* An established tenant that predates the canonical rows, before any purchase.
Legacy == ~tenant.open /\ \A b \in Buyers : req[b].pc = "idle"
\* What the tenant's pointer may name.
PointerOK == \A n \in Numbers : tenant.number = n => n \in Current \/ twilio[n] = "gone" \/ Legacy

\* A tenant that was dropped left nothing behind, and does not come back.
HereOK == ~tenant.here => tenant.number = Nil /\ \A n \in Numbers : rows[n] = "none"

IInv == /\ TypeOK /\ HereOK /\ Unbought /\ Apart /\ PointerOK /\ VapiFirst
        /\ \A r \in Requests : ReqOK(r)

\* The non-temporal form of BooksFollowTwilio.
Follows == tenant'.here => \A n \in Numbers :
               (n \in Current /\ n \notin Current') \/ (tenant.number = n /\ tenant'.number # n)
                  => twilio'[n] = "gone"

-----------------------------------------------------------------------------
(* What the requests' records look like after a step                         *)

LEMMA Cases == /\ Buyers \subseteq Requests /\ Releasers \subseteq Requests
               /\ Releasers \cap Buyers = {} /\ Signups \subseteq Buyers
                     /\ Purges \subseteq Releasers
               /\ First \in Numbers /\ Nil \notin Numbers /\ Nil \notin Accounts
               /\ "free" \notin Accounts /\ "gone" \notin Accounts
    BY FirstAssumption, RequestAssumption DEF Requests, Buyers, Releasers

\* A request that goes on keeps its record but for pc; one that is over is Idle.
LEMMA GotoIs ==
    ASSUME req \in [Requests -> Records], NEW r \in Requests, NEW to \in Pcs, Goto(r, to)
    PROVE  /\ req' \in [Requests -> Records]
           /\ \A q \in Requests : q # r => req'[q] = req[q]
           /\ req'[r].pc = to
           /\ \/ to = "idle" /\ req'[r].num = Nil
              \/ /\ to # "idle" /\ req'[r].num = req[r].num
                 /\ req'[r].vapi = req[r].vapi /\ req'[r].acct = req[r].acct
<1>1. Idle \in Records /\ Idle.pc = "idle" /\ Idle.num = Nil
    BY DEF Idle, Records, Pcs
<1>2. CASE to = "idle"
    BY <1>1, <1>2 DEF Goto
<1>3. CASE to # "idle"
    <2>1. req' = [req EXCEPT ![r].pc = to]
        BY <1>3 DEF Goto
    <2>2. req[r] \in Records
        OBVIOUS
    <2> QED
        BY <1>3, <2>1, <2>2 DEF Records
<1> QED
    BY <1>2, <1>3

LEMMA CallIs ==
    ASSUME faults \in Nat, NEW o, Call(o)
    PROVE  faults' \in Nat
BY FaultAssumption DEF Call

\* The pieces of the invariant a request's step has to keep.
LEMMA Pieces ==
    ASSUME IInv, NEW r \in Requests, NEW to \in Pcs,
           req' \in [Requests -> Records], \A q \in Requests : q # r => req'[q] = req[q],
           req'[r].pc = to,
           \A q \in Requests : q # r => ReqOK(q)', ReqOK(r)',
           twilio' \in [Numbers -> Accounts \cup {"free", "gone"}], vapi' \subseteq Numbers,
           blind' \subseteq Numbers, rows' \in [Numbers -> Statuses], tenant' \in Tenants,
           faults' \in Nat, \A m, n \in Current' : m = n,
           HereOK', Unbought', Apart', PointerOK', VapiFirst'
    PROVE  IInv'
BY DEF IInv, TypeOK

-----------------------------------------------------------------------------
(* Giving a number back                                                      *)

LEMMA ReadTenantKeeps ==
    ASSUME IInv, NEW r \in Requests, ReadTenant(r)
    PROVE  IInv' /\ Follows
<1> DEFINE n == req[r].num
<1>0. req[r].pc = "idle" /\ TypeOK /\ req[r] \in Records /\ r \in Releasers /\ r \notin Buyers
      /\ tenant.here
    BY Cases DEF ReadTenant, At, IInv, ReqOK, Giving, Taking, Holding, Wanting, TypeOK
<1>1. PICK to \in {"drop", "lookup"} : req' = 
             [req EXCEPT ![r] = [pc |-> to, num |-> tenant.number, vapi |-> tenant.vapi,
                                     acct |-> tenant.acct, canonical |-> FALSE]]
          /\ (to = "drop" <=> tenant.number = Nil)
    BY DEF ReadTenant
<1>2. UNCHANGED <<twilio, vapi, rows, tenant, blind>> /\ faults' \in Nat
    BY <1>0 DEF ReadTenant, TypeOK
<1>3. /\ req' \in [Requests -> Records]
      /\ \A q \in Requests : q # r => req'[q] = req[q]
      /\ req'[r].pc = to /\ req'[r].num = tenant.number
    BY <1>0, <1>1 DEF TypeOK, Records, Tenants, Pcs
<1>4. /\ twilio' \in [Numbers -> Accounts \cup {"free", "gone"}] /\ vapi' \subseteq Numbers
      /\ blind' \subseteq Numbers /\ rows' \in [Numbers -> Statuses] /\ tenant' \in Tenants
    BY <1>0, <1>2, Cases DEF TypeOK, Tenants, Statuses, RELEASABLE_STATUSES
<1>5. \A q \in Requests : q # r => ReqOK(q)'
    BY <1>0, <1>2, <1>3, Cases DEF IInv, TypeOK, ReqOK, Apart, Current, Holding, Giving, Taking,
       Wanting
<1>6. ReqOK(r)'
    BY <1>0, <1>1, <1>2, <1>3, Cases DEF IInv, TypeOK, Tenants, ReqOK, Current,
       RELEASABLE_STATUSES, Holding, Giving, Taking, Wanting
<1>7. HereOK' /\ Unbought'
    BY <1>0, <1>1, <1>2, <1>3, Cases DEF IInv, TypeOK, HereOK, Unbought, Current,
       RELEASABLE_STATUSES
<1>8. PointerOK'
    BY <1>0, <1>1, <1>2, <1>3, Cases DEF IInv, TypeOK, HereOK, PointerOK, Current, Legacy
<1>9. Apart'
    BY <1>0, <1>1, <1>3, Cases DEF IInv, Apart, ReqOK, Holding
<1>10. VapiFirst'
    BY <1>0, <1>2, Cases DEF IInv, TypeOK, VapiFirst, ReqOK
<1>11. (\A m, k \in Current' : m = k) /\ Follows
    BY <1>0, <1>2, Cases DEF IInv, TypeOK, Current, RELEASABLE_STATUSES, HereOK, ReqOK, Holding,
       Taking, Follows
<1> QED
    BY <1>0, <1>1, <1>2, <1>3, <1>4, <1>5, <1>6, <1>7, <1>8, <1>9, <1>10, <1>11, Pieces
       DEF TypeOK, Pcs

LEMMA LookUpKeeps ==
    ASSUME IInv, NEW r \in Requests, LookUp(r)
    PROVE  IInv' /\ Follows
<1> DEFINE n == req[r].num
<1>0. req[r].pc = "lookup" /\ TypeOK /\ req[r] \in Records /\ n \in Numbers /\ r \in Releasers
      /\ r \in Requests /\ r \notin Buyers
    BY Cases DEF LookUp, At, IInv, ReqOK, Giving, Taking, Holding, Wanting, TypeOK
<1>1. PICK to \in {"drop", "idle", "vapi", "twilio"} :
             /\ req' \in [Requests -> Records]
             /\ \A q \in Requests : q # r => req'[q] = req[q]
             /\ req'[r].pc = to /\ (req'[r].num = n \/ (to = "idle" /\ req'[r].num = Nil))
             /\ to = "twilio" => req'[r].vapi = Nil
    <2>1. PICK o \in {"done", "refused"} :
             IF o = "done"
             THEN req' = [req EXCEPT ![r].canonical = req[r].num \in Current,
                                     ![r].pc = IF req[r].vapi = Nil THEN "twilio" ELSE "vapi"]
             ELSE Goto(r, Over(r))
        BY DEF LookUp
    <2>2. CASE o = "done"
        BY <1>0, <2>1, <2>2 DEF TypeOK, Records, Pcs
    <2>3. CASE o # "done"
        BY <1>0, <2>1, <2>3, GotoIs DEF TypeOK, Over, Pcs
    <2> QED
        BY <2>2, <2>3
<1>2. UNCHANGED <<twilio, vapi, rows, tenant, blind>> /\ faults' \in Nat
    BY <1>0, CallIs DEF LookUp, TypeOK
<1>4. /\ twilio' \in [Numbers -> Accounts \cup {"free", "gone"}] /\ vapi' \subseteq Numbers
      /\ blind' \subseteq Numbers /\ rows' \in [Numbers -> Statuses] /\ tenant' \in Tenants
    BY <1>0, <1>2, Cases DEF TypeOK, Tenants, Statuses, RELEASABLE_STATUSES
<1>5. \A q \in Requests : q # r => ReqOK(q)'
    BY <1>0, <1>2, <1>1, Cases DEF IInv, TypeOK, ReqOK, Apart, Current, Holding, Giving, Taking,
       Wanting
<1>6. ReqOK(r)'
    BY <1>0, <1>1, <1>2, Cases DEF IInv, TypeOK, Tenants, ReqOK, Current, RELEASABLE_STATUSES,
       Holding, Giving, Taking, Wanting
<1>7. HereOK' /\ Unbought'
    BY <1>0, <1>1, <1>2, Cases DEF IInv, TypeOK, HereOK, Unbought, Current, RELEASABLE_STATUSES
<1>8. PointerOK'
    BY <1>0, <1>1, <1>2, Cases DEF IInv, TypeOK, HereOK, PointerOK, Current, Legacy
<1>9. Apart'
    BY <1>0, <1>1, Cases DEF IInv, Apart, ReqOK, Holding
<1>10. VapiFirst'
    BY <1>0, <1>2, Cases DEF IInv, TypeOK, VapiFirst, ReqOK
<1>11. (\A m, k \in Current' : m = k) /\ Follows
    BY <1>0, <1>2, Cases DEF IInv, TypeOK, Current, RELEASABLE_STATUSES, HereOK, ReqOK, Holding,
       Taking, Follows
<1> QED
    BY <1>0, <1>1, <1>2, <1>4, <1>5, <1>6, <1>7, <1>8, <1>9, <1>10, <1>11, Pieces DEF TypeOK, Pcs

LEMMA DeleteVapiKeeps ==
    ASSUME IInv, NEW r \in Requests, DeleteVapi(r)
    PROVE  IInv' /\ Follows
<1> DEFINE n == req[r].num
<1>0. req[r].pc = "vapi" /\ TypeOK /\ req[r] \in Records /\ n \in Numbers /\ r \in Releasers
      /\ r \in Requests /\ r \notin Buyers
    BY Cases DEF DeleteVapi, At, IInv, ReqOK, Giving, Taking, Holding, Wanting, TypeOK
<1>1. PICK to \in {"drop", "idle", "twilio"} : Goto(r, to)
      /\ (to = "twilio" => vapi' = vapi \ {req[r].vapi})
    BY DEF DeleteVapi, Over, Outcomes, Took
<1>2. UNCHANGED <<twilio, rows, tenant, blind>> /\ faults' \in Nat
      /\ vapi' \in {vapi, vapi \ {req[r].vapi}}
    BY <1>0, CallIs DEF DeleteVapi, Outcomes, Took, TypeOK
<1>3. /\ req' \in [Requests -> Records]
      /\ \A q \in Requests : q # r => req'[q] = req[q]
      /\ req'[r].pc = to /\ (req'[r].num = n \/ (to = "idle" /\ req'[r].num = Nil))
      /\ to # "idle" => req'[r].vapi = req[r].vapi /\ req'[r].acct = req[r].acct
    BY <1>0, <1>1, GotoIs DEF TypeOK, Pcs
<1>4. /\ twilio' \in [Numbers -> Accounts \cup {"free", "gone"}] /\ vapi' \subseteq Numbers
      /\ blind' \subseteq Numbers /\ rows' \in [Numbers -> Statuses] /\ tenant' \in Tenants
    BY <1>0, <1>2, Cases DEF TypeOK, Tenants, Statuses, RELEASABLE_STATUSES
<1>5. \A q \in Requests : q # r => ReqOK(q)'
    BY <1>0, <1>2, <1>3, Cases DEF IInv, TypeOK, ReqOK, Apart, Current, Holding, Giving, Taking,
       Wanting
<1>6. ReqOK(r)'
    BY <1>0, <1>1, <1>2, <1>3, Cases DEF IInv, TypeOK, Tenants, ReqOK, Current,
       RELEASABLE_STATUSES, Holding, Giving, Taking, Wanting
<1>7. HereOK' /\ Unbought'
    BY <1>0, <1>1, <1>2, <1>3, Cases DEF IInv, TypeOK, HereOK, Unbought, Current,
       RELEASABLE_STATUSES
<1>8. PointerOK'
    BY <1>0, <1>1, <1>2, <1>3, Cases DEF IInv, TypeOK, HereOK, PointerOK, Current, Legacy
<1>9. Apart'
    BY <1>0, <1>1, <1>3, Cases DEF IInv, Apart, ReqOK, Holding
<1>10. VapiFirst'
    BY <1>0, <1>2, Cases DEF IInv, TypeOK, VapiFirst, ReqOK
<1>11. (\A m, k \in Current' : m = k) /\ Follows
    BY <1>0, <1>2, Cases DEF IInv, TypeOK, Current, RELEASABLE_STATUSES, HereOK, ReqOK, Holding,
       Taking, Follows
<1> QED
    BY <1>0, <1>1, <1>2, <1>3, <1>4, <1>5, <1>6, <1>7, <1>8, <1>9, <1>10, <1>11, Pieces
       DEF TypeOK, Pcs

LEMMA ReleaseTwilioKeeps ==
    ASSUME IInv, NEW r \in Requests, ReleaseTwilio(r)
    PROVE  IInv' /\ Follows
<1> DEFINE n == req[r].num
<1>0. req[r].pc = "twilio" /\ TypeOK /\ req[r] \in Records /\ n \in Numbers /\ r \in Releasers
      /\ r \in Requests /\ r \notin Buyers
    BY Cases DEF ReleaseTwilio, At, IInv, ReqOK, Giving, Taking, Holding, Wanting, TypeOK
<1>1. PICK to \in {"drop", "idle", "books", "clear"} : Goto(r, to)
      /\ (to \in Taking => twilio'[n] = "gone")
    BY <1>0 DEF ReleaseTwilio, Over, Taking, Outcomes, Took, TypeOK
<1>2. /\ faults' \in Nat /\ UNCHANGED <<vapi, rows, tenant>>
      /\ \/ UNCHANGED <<twilio, blind>>
         \/ /\ twilio' = [twilio EXCEPT ![n] = "gone"] /\ twilio[n] \in Accounts \cup {Nil}
            /\ blind' = IF req[r].vapi # n THEN blind \cup {n} ELSE blind
    BY <1>0, CallIs DEF ReleaseTwilio, Outcomes, Took, TypeOK, Records
<1>3. /\ req' \in [Requests -> Records]
      /\ \A q \in Requests : q # r => req'[q] = req[q]
      /\ req'[r].pc = to /\ (req'[r].num = n \/ (to = "idle" /\ req'[r].num = Nil))
      /\ to # "idle" => req'[r].vapi = req[r].vapi /\ req'[r].acct = req[r].acct
    BY <1>0, <1>1, GotoIs DEF TypeOK, Pcs
<1>4. /\ twilio' \in [Numbers -> Accounts \cup {"free", "gone"}] /\ vapi' \subseteq Numbers
      /\ blind' \subseteq Numbers /\ rows' \in [Numbers -> Statuses] /\ tenant' \in Tenants
    BY <1>0, <1>2, Cases DEF TypeOK, Tenants, Statuses, RELEASABLE_STATUSES
<1>5. \A q \in Requests : q # r => ReqOK(q)'
    BY <1>0, <1>2, <1>3, Cases DEF IInv, TypeOK, ReqOK, Apart, Current, Holding, Giving, Taking,
       Wanting
<1>6. ReqOK(r)'
    BY <1>0, <1>1, <1>2, <1>3, Cases DEF IInv, TypeOK, Tenants, ReqOK, Current,
       RELEASABLE_STATUSES, Holding, Giving, Taking, Wanting
<1>7. HereOK' /\ Unbought'
    BY <1>0, <1>1, <1>2, <1>3, Cases DEF IInv, TypeOK, HereOK, Unbought, Current,
       RELEASABLE_STATUSES
<1>8. PointerOK'
    BY <1>0, <1>1, <1>2, <1>3, Cases DEF IInv, TypeOK, HereOK, PointerOK, Current, Legacy
<1>9. Apart'
    BY <1>0, <1>1, <1>3, Cases DEF IInv, Apart, ReqOK, Holding
<1>10. VapiFirst'
    BY <1>0, <1>2, Cases DEF IInv, TypeOK, VapiFirst, ReqOK
<1>11. (\A m, k \in Current' : m = k) /\ Follows
    BY <1>0, <1>2, Cases DEF IInv, TypeOK, Current, RELEASABLE_STATUSES, HereOK, ReqOK, Holding,
       Taking, Follows
<1> QED
    BY <1>0, <1>1, <1>2, <1>3, <1>4, <1>5, <1>6, <1>7, <1>8, <1>9, <1>10, <1>11, Pieces
       DEF TypeOK, Pcs

LEMMA MarkReleasedKeeps ==
    ASSUME IInv, NEW r \in Requests, MarkReleased(r)
    PROVE  IInv' /\ Follows
<1> DEFINE n == req[r].num
<1>0. req[r].pc = "books" /\ TypeOK /\ req[r] \in Records /\ n \in Numbers /\ twilio[n] = "gone"
    BY Cases DEF MarkReleased, At, IInv, ReqOK, Giving, Taking, Holding, Wanting, TypeOK
<1>1. PICK to \in {"drop", "idle", "clear"} : Goto(r, to)
    BY DEF MarkReleased, Over
<1>2. /\ faults' \in Nat /\ UNCHANGED <<twilio, vapi, tenant, blind>>
      /\ rows' = rows \/ (n \in Current /\ rows' = [rows EXCEPT ![n] = "released"])
    BY <1>0, CallIs DEF MarkReleased, Outcomes, Took, TypeOK, Current
<1>3. /\ req' \in [Requests -> Records]
      /\ \A q \in Requests : q # r => req'[q] = req[q]
      /\ req'[r].pc = to /\ (req'[r].num = n \/ (to = "idle" /\ req'[r].num = Nil))
      /\ to # "idle" => req'[r].vapi = req[r].vapi /\ req'[r].acct = req[r].acct
    BY <1>0, <1>1, GotoIs DEF TypeOK, Pcs
<1>4. /\ twilio' \in [Numbers -> Accounts \cup {"free", "gone"}] /\ vapi' \subseteq Numbers
      /\ blind' \subseteq Numbers /\ rows' \in [Numbers -> Statuses] /\ tenant' \in Tenants
    BY <1>0, <1>2, Cases DEF TypeOK, Tenants, Statuses, RELEASABLE_STATUSES
<1>5. \A q \in Requests : q # r => ReqOK(q)'
    BY <1>0, <1>2, <1>3, Cases DEF IInv, TypeOK, ReqOK, Apart, Current, Holding, Giving, Taking,
       Wanting
<1>6. ReqOK(r)'
    BY <1>0, <1>1, <1>2, <1>3, Cases DEF IInv, TypeOK, Tenants, ReqOK, Current,
       RELEASABLE_STATUSES, Holding, Giving, Taking, Wanting
<1>7. HereOK' /\ Unbought'
    BY <1>0, <1>1, <1>2, <1>3, Cases DEF IInv, TypeOK, HereOK, Unbought, Current,
       RELEASABLE_STATUSES
<1>8. PointerOK'
    BY <1>0, <1>1, <1>2, <1>3, Cases DEF IInv, TypeOK, HereOK, PointerOK, Current, Legacy
<1>9. Apart'
    BY <1>0, <1>1, <1>3, Cases DEF IInv, Apart, ReqOK, Holding
<1>10. VapiFirst'
    BY <1>0, <1>2, Cases DEF IInv, TypeOK, VapiFirst, ReqOK
<1>11. (\A m, k \in Current' : m = k) /\ Follows
    BY <1>0, <1>2, Cases DEF IInv, TypeOK, Current, RELEASABLE_STATUSES, HereOK, ReqOK, Holding,
       Taking, Follows
<1> QED
    BY <1>0, <1>1, <1>2, <1>3, <1>4, <1>5, <1>6, <1>7, <1>8, <1>9, <1>10, <1>11, Pieces
       DEF TypeOK, Pcs

LEMMA ClearTenantKeeps ==
    ASSUME IInv, NEW r \in Requests, ClearTenant(r)
    PROVE  IInv' /\ Follows
<1> DEFINE n == req[r].num
<1>0. req[r].pc = "clear" /\ TypeOK /\ req[r] \in Records /\ n \in Numbers /\ twilio[n] = "gone"
    BY Cases DEF ClearTenant, At, IInv, ReqOK, Giving, Taking, Holding, Wanting, TypeOK
<1>1. PICK to \in {"drop", "idle"} : Goto(r, to)
    BY DEF ClearTenant, Over
<1>2. /\ faults' \in Nat /\ UNCHANGED <<twilio, vapi, rows, blind>>
      /\ tenant' = tenant \/ (tenant.number = n /\ tenant' = Cleared)
      /\ Cleared \in Tenants /\ Cleared.number = Nil /\ Cleared.here = tenant.here
    BY <1>0, CallIs DEF ClearTenant, Cleared, Outcomes, Took, TypeOK, Tenants
<1>3. /\ req' \in [Requests -> Records]
      /\ \A q \in Requests : q # r => req'[q] = req[q]
      /\ req'[r].pc = to /\ (req'[r].num = n \/ (to = "idle" /\ req'[r].num = Nil))
      /\ to # "idle" => req'[r].vapi = req[r].vapi /\ req'[r].acct = req[r].acct
    BY <1>0, <1>1, GotoIs DEF TypeOK, Pcs
<1>4. /\ twilio' \in [Numbers -> Accounts \cup {"free", "gone"}] /\ vapi' \subseteq Numbers
      /\ blind' \subseteq Numbers /\ rows' \in [Numbers -> Statuses] /\ tenant' \in Tenants
    BY <1>0, <1>2, Cases DEF TypeOK, Tenants, Statuses, RELEASABLE_STATUSES
<1>5. \A q \in Requests : q # r => ReqOK(q)'
    BY <1>0, <1>2, <1>3, Cases DEF IInv, TypeOK, ReqOK, Apart, Current, Holding, Giving, Taking,
       Wanting
<1>6. ReqOK(r)'
    BY <1>0, <1>1, <1>2, <1>3, Cases DEF IInv, TypeOK, Tenants, ReqOK, Current,
       RELEASABLE_STATUSES, Holding, Giving, Taking, Wanting
<1>7. HereOK' /\ Unbought'
    BY <1>0, <1>1, <1>2, <1>3, Cases DEF IInv, TypeOK, HereOK, Unbought, Current,
       RELEASABLE_STATUSES
<1>8. PointerOK'
    BY <1>0, <1>1, <1>2, <1>3, Cases DEF IInv, TypeOK, HereOK, PointerOK, Current, Legacy
<1>9. Apart'
    BY <1>0, <1>1, <1>3, Cases DEF IInv, Apart, ReqOK, Holding
<1>10. VapiFirst'
    BY <1>0, <1>2, Cases DEF IInv, TypeOK, VapiFirst, ReqOK
<1>11. (\A m, k \in Current' : m = k) /\ Follows
    BY <1>0, <1>2, Cases DEF IInv, TypeOK, Current, RELEASABLE_STATUSES, HereOK, ReqOK, Holding,
       Taking, Follows
<1> QED
    BY <1>0, <1>1, <1>2, <1>3, <1>4, <1>5, <1>6, <1>7, <1>8, <1>9, <1>10, <1>11, Pieces
       DEF TypeOK, Pcs

LEMMA DropTenantKeeps ==
    ASSUME IInv, NEW r \in Requests, DropTenant(r)
    PROVE  IInv' /\ Follows
<1> DEFINE n == req[r].num
<1>0. req[r].pc = "drop" /\ TypeOK /\ req[r] \in Records
    BY Cases DEF DropTenant, At, IInv, ReqOK, Giving, Taking, Holding, Wanting, TypeOK
<1>1. PICK to \in {"idle"} : Goto(r, to)
    BY DEF DropTenant
<1>2. /\ faults' \in Nat /\ UNCHANGED <<twilio, vapi, blind>>
      /\ \/ UNCHANGED <<tenant, rows>>
         \/ tenant' = Dropped /\ rows' = [m \in Numbers |-> "none"]
      /\ Dropped \in Tenants /\ Dropped.number = Nil /\ ~Dropped.here
    BY <1>0, CallIs DEF DropTenant, Dropped, Tenant, Outcomes, Took, TypeOK, Tenants
<1>3. /\ req' \in [Requests -> Records]
      /\ \A q \in Requests : q # r => req'[q] = req[q]
      /\ req'[r].pc = to /\ (req'[r].num = n \/ (to = "idle" /\ req'[r].num = Nil))
      /\ to # "idle" => req'[r].vapi = req[r].vapi /\ req'[r].acct = req[r].acct
    BY <1>0, <1>1, GotoIs DEF TypeOK, Pcs
<1>4. /\ twilio' \in [Numbers -> Accounts \cup {"free", "gone"}] /\ vapi' \subseteq Numbers
      /\ blind' \subseteq Numbers /\ rows' \in [Numbers -> Statuses] /\ tenant' \in Tenants
    BY <1>0, <1>2, Cases DEF TypeOK, Tenants, Statuses, RELEASABLE_STATUSES
<1>5. \A q \in Requests : q # r => ReqOK(q)'
    BY <1>0, <1>2, <1>3, Cases DEF IInv, TypeOK, ReqOK, Apart, Current, Holding, Giving, Taking,
       Wanting
<1>6. ReqOK(r)'
    BY <1>0, <1>1, <1>2, <1>3, Cases DEF IInv, TypeOK, Tenants, ReqOK, Current,
       RELEASABLE_STATUSES, Holding, Giving, Taking, Wanting
<1>7. HereOK' /\ Unbought'
    BY <1>0, <1>1, <1>2, <1>3, Cases DEF IInv, TypeOK, HereOK, Unbought, Current,
       RELEASABLE_STATUSES
<1>8. PointerOK'
    BY <1>0, <1>1, <1>2, <1>3, Cases DEF IInv, TypeOK, HereOK, PointerOK, Current, Legacy
<1>9. Apart'
    BY <1>0, <1>1, <1>3, Cases DEF IInv, Apart, ReqOK, Holding
<1>10. VapiFirst'
    BY <1>0, <1>2, Cases DEF IInv, TypeOK, VapiFirst, ReqOK
<1>11. (\A m, k \in Current' : m = k) /\ Follows
    BY <1>0, <1>2, Cases DEF IInv, TypeOK, Current, RELEASABLE_STATUSES, HereOK, ReqOK, Holding,
       Taking, Follows
<1> QED
    BY <1>0, <1>1, <1>2, <1>3, <1>4, <1>5, <1>6, <1>7, <1>8, <1>9, <1>10, <1>11, Pieces
       DEF TypeOK, Pcs

-----------------------------------------------------------------------------
(* Getting a number                                                           *)

LEMMA BeginKeeps ==
    ASSUME IInv, NEW r \in Buyers, Begin(r)
    PROVE  IInv' /\ Follows
<1> DEFINE n == req[r].num
<1>0. req[r].pc = "idle" /\ TypeOK /\ req[r] \in Records /\ r \in Buyers /\ r \notin Releasers
      /\ r \in Requests /\ tenant.here
    BY Cases DEF Begin, At, IInv, ReqOK, Giving, Taking, Holding, Wanting, TypeOK
<1>1. PICK a \in Accounts, to \in {"buy", "preflight"} :
          /\ req' = [req EXCEPT ![r].pc = to, ![r].acct = a]
          /\ tenant.number = Nil \/ tenant.open
    BY <1>0, Cases DEF Begin, Accounts, TypeOK, Tenants
<1>2. UNCHANGED <<twilio, vapi, rows, tenant, blind>> /\ faults' \in Nat
    BY <1>0 DEF Begin, TypeOK
<1>3. /\ req' \in [Requests -> Records]
      /\ \A q \in Requests : q # r => req'[q] = req[q]
      /\ req'[r].pc = to /\ req'[r].num = n /\ req'[r].acct = a
    BY <1>0, <1>1 DEF TypeOK, Records, Pcs
<1>4. /\ twilio' \in [Numbers -> Accounts \cup {"free", "gone"}] /\ vapi' \subseteq Numbers
      /\ blind' \subseteq Numbers /\ rows' \in [Numbers -> Statuses] /\ tenant' \in Tenants
    BY <1>0, <1>2, Cases DEF TypeOK, Tenants, Statuses, RELEASABLE_STATUSES
<1>5. \A q \in Requests : q # r => ReqOK(q)'
    BY <1>0, <1>2, <1>3, Cases DEF IInv, TypeOK, ReqOK, Apart, Current, Holding, Giving, Taking,
       Wanting
<1>6. ReqOK(r)'
    BY <1>0, <1>1, <1>2, <1>3, Cases DEF IInv, TypeOK, Tenants, ReqOK, Current,
       RELEASABLE_STATUSES, Holding, Giving, Taking, Wanting
<1>7. HereOK' /\ Unbought'
    BY <1>0, <1>1, <1>2, <1>3, Cases DEF IInv, TypeOK, HereOK, Unbought, Current,
       RELEASABLE_STATUSES
<1>8. PointerOK'
    BY <1>0, <1>1, <1>2, <1>3, Cases DEF IInv, TypeOK, HereOK, PointerOK, Current, Legacy
<1>9. Apart'
    BY <1>0, <1>1, <1>3, Cases DEF IInv, Apart, ReqOK, Holding
<1>10. VapiFirst'
    BY <1>0, <1>2, Cases DEF IInv, TypeOK, VapiFirst, ReqOK
<1>11. (\A m, k \in Current' : m = k) /\ Follows
    BY <1>0, <1>2, Cases DEF IInv, TypeOK, Current, RELEASABLE_STATUSES, HereOK, ReqOK, Holding,
       Taking, Follows
<1> QED
    BY <1>0, <1>1, <1>2, <1>3, <1>4, <1>5, <1>6, <1>7, <1>8, <1>9, <1>10, <1>11, Pieces
       DEF TypeOK, Pcs

LEMMA PreflightKeeps ==
    ASSUME IInv, NEW r \in Buyers, Preflight(r)
    PROVE  IInv' /\ Follows
<1> DEFINE n == req[r].num
<1>0. req[r].pc = "preflight" /\ TypeOK /\ req[r] \in Records /\ r \in Buyers
      /\ r \notin Releasers /\ r \in Requests /\ req[r].acct \in Accounts
    BY Cases DEF Preflight, At, IInv, ReqOK, Giving, Taking, Holding, Wanting, TypeOK
<1>1. PICK to \in {"buy", "idle"} : Goto(r, to)
    BY DEF Preflight
<1>2. UNCHANGED <<twilio, vapi, rows, tenant, blind>> /\ faults' \in Nat
    BY <1>0, CallIs DEF Preflight, TypeOK
<1>3. /\ req' \in [Requests -> Records]
      /\ \A q \in Requests : q # r => req'[q] = req[q]
      /\ req'[r].pc = to /\ (req'[r].num = n \/ (to = "idle" /\ req'[r].num = Nil))
      /\ to # "idle" => req'[r].vapi = req[r].vapi /\ req'[r].acct = req[r].acct
    BY <1>0, <1>1, GotoIs DEF TypeOK, Pcs
<1>4. /\ twilio' \in [Numbers -> Accounts \cup {"free", "gone"}] /\ vapi' \subseteq Numbers
      /\ blind' \subseteq Numbers /\ rows' \in [Numbers -> Statuses] /\ tenant' \in Tenants
    BY <1>0, <1>2, Cases DEF TypeOK, Tenants, Statuses, RELEASABLE_STATUSES
<1>5. \A q \in Requests : q # r => ReqOK(q)'
    BY <1>0, <1>2, <1>3, Cases DEF IInv, TypeOK, ReqOK, Apart, Current, Holding, Giving, Taking,
       Wanting
<1>6. ReqOK(r)'
    BY <1>0, <1>1, <1>2, <1>3, Cases DEF IInv, TypeOK, Tenants, ReqOK, Current,
       RELEASABLE_STATUSES, Holding, Giving, Taking, Wanting
<1>7. HereOK' /\ Unbought'
    BY <1>0, <1>1, <1>2, <1>3, Cases DEF IInv, TypeOK, HereOK, Unbought, Current,
       RELEASABLE_STATUSES
<1>8. PointerOK'
    BY <1>0, <1>1, <1>2, <1>3, Cases DEF IInv, TypeOK, HereOK, PointerOK, Current, Legacy
<1>9. Apart'
    BY <1>0, <1>1, <1>3, Cases DEF IInv, Apart, ReqOK, Holding
<1>10. VapiFirst'
    BY <1>0, <1>2, Cases DEF IInv, TypeOK, VapiFirst, ReqOK
<1>11. (\A m, k \in Current' : m = k) /\ Follows
    BY <1>0, <1>2, Cases DEF IInv, TypeOK, Current, RELEASABLE_STATUSES, HereOK, ReqOK, Holding,
       Taking, Follows
<1> QED
    BY <1>0, <1>1, <1>2, <1>3, <1>4, <1>5, <1>6, <1>7, <1>8, <1>9, <1>10, <1>11, Pieces
       DEF TypeOK, Pcs

LEMMA BuyKeeps ==
    ASSUME IInv, NEW r \in Buyers, Buy(r)
    PROVE  IInv' /\ Follows
<1> DEFINE n == req[r].num
<1>0. req[r].pc = "buy" /\ TypeOK /\ req[r] \in Records /\ r \in Buyers /\ r \notin Releasers
      /\ r \in Requests /\ req[r].acct \in Accounts
    BY Cases DEF Buy, At, IInv, ReqOK, Giving, Taking, Holding, Wanting, TypeOK
<1>1. PICK x \in Numbers, to \in {"import", "idle"} :
          /\ twilio[x] = "free"
          /\ twilio' = twilio \/ twilio' = [twilio EXCEPT ![x] = req[r].acct]
          /\ \/ to = "idle" /\ Goto(r, to)
             \/ /\ to = "import" /\ twilio' = [twilio EXCEPT ![x] = req[r].acct]
                /\ req' = [req EXCEPT ![r].pc = "import", ![r].num = x]
    <2> DEFINE m == CHOOSE k \in Free : TRUE
    <2>1. m \in Free
        BY DEF Buy
    <2>2. PICK o \in Outcomes :
              /\ twilio' = [twilio EXCEPT ![m] = Took(o, req[r].acct, @)]
              /\ IF o = "done" THEN req' = [req EXCEPT ![r].pc = "import", ![r].num = m]
                               ELSE Goto(r, "idle")
        BY DEF Buy, Outcomes
    <2>3. twilio' = twilio \/ twilio' = [twilio EXCEPT ![m] = req[r].acct]
        BY <1>0, <2>1, <2>2 DEF Took, Free, TypeOK
    <2>4. CASE o = "done"
        <3>1. twilio' = [twilio EXCEPT ![m] = req[r].acct]
            BY <1>0, <2>1, <2>2, <2>4 DEF Took, Free, TypeOK
        <3> QED
            BY <2>1, <2>2, <2>3, <2>4, <3>1 DEF Free
    <2>5. CASE o # "done"
        BY <2>1, <2>2, <2>3, <2>5 DEF Free
    <2> QED
        BY <2>4, <2>5
<1>2. UNCHANGED <<vapi, rows, tenant, blind>> /\ faults' \in Nat
    BY <1>0, CallIs DEF Buy, TypeOK
<1>3. /\ req' \in [Requests -> Records]
      /\ \A q \in Requests : q # r => req'[q] = req[q]
      /\ req'[r].pc = to
      /\ \/ to = "idle" /\ req'[r].num = Nil
         \/ /\ to = "import" /\ req'[r].num = x /\ req'[r].acct = req[r].acct
            /\ twilio' = [twilio EXCEPT ![x] = req[r].acct]
    <2>1. CASE to = "idle"
        <3>1. Goto(r, "idle") /\ "idle" \in Pcs
            BY <1>1, <2>1 DEF Pcs
        <3> QED
            BY <1>0, <2>1, <3>1, GotoIs DEF TypeOK
    <2>2. CASE to = "import"
        BY <1>0, <1>1, <2>2 DEF TypeOK, Records, Pcs
    <2> QED
        BY <1>1, <2>1, <2>2
<1>4. /\ twilio' \in [Numbers -> Accounts \cup {"free", "gone"}] /\ vapi' \subseteq Numbers
      /\ blind' \subseteq Numbers /\ rows' \in [Numbers -> Statuses] /\ tenant' \in Tenants
    BY <1>0, <1>1, <1>2, Cases DEF TypeOK, Tenants, Records, Statuses, RELEASABLE_STATUSES
<1>5. \A q \in Requests : q # r => ReqOK(q)'
    BY <1>0, <1>1, <1>2, <1>3, Cases DEF IInv, TypeOK, Tenants, ReqOK, Apart, Unbought, Current,
       RELEASABLE_STATUSES, Holding, Giving, Taking, Wanting
<1>6. ReqOK(r)'
    BY <1>0, <1>1, <1>2, <1>3, Cases DEF IInv, TypeOK, Tenants, ReqOK, Unbought, Current,
       RELEASABLE_STATUSES, Holding, Giving, Taking, Wanting
<1>7. HereOK' /\ Unbought'
    BY <1>0, <1>1, <1>2, <1>3, Cases DEF IInv, TypeOK, Tenants, HereOK, Unbought, Current,
       RELEASABLE_STATUSES
<1>8. PointerOK'
    BY <1>0, <1>1, <1>2, <1>3, Cases DEF IInv, TypeOK, Tenants, HereOK, PointerOK, Current,
       RELEASABLE_STATUSES, Legacy
<1>9. Apart'
    BY <1>0, <1>1, <1>2, <1>3, Cases DEF IInv, Apart, Unbought, ReqOK, Holding
<1>10. VapiFirst'
    BY <1>0, <1>1, <1>2, Cases DEF IInv, TypeOK, VapiFirst, ReqOK
<1>11. (\A m, k \in Current' : m = k) /\ Follows
    BY <1>0, <1>1, <1>2, Cases DEF IInv, TypeOK, Tenants, Current, RELEASABLE_STATUSES, HereOK,
       PointerOK, Legacy, Follows
<1> QED
    BY <1>0, <1>1, <1>2, <1>3, <1>4, <1>5, <1>6, <1>7, <1>8, <1>9, <1>10, <1>11, Pieces
       DEF TypeOK, Pcs

LEMMA ImportKeeps ==
    ASSUME IInv, NEW r \in Buyers, Import(r)
    PROVE  IInv' /\ Follows
<1> DEFINE n == req[r].num
<1>0. req[r].pc = "import" /\ TypeOK /\ req[r] \in Records /\ n \in Numbers /\ r \in Buyers
      /\ r \in Requests /\ r \notin Releasers
      /\ twilio[n] = req[r].acct /\ req[r].acct \in Accounts /\ tenant.number # n
    BY Cases DEF Import, At, IInv, ReqOK, Giving, Taking, Holding, Wanting, TypeOK
<1>1. PICK to \in {"undo", "name", "register"} : Goto(r, to) /\ (to = "name" => r \in Signups)
    BY DEF Import
<1>2. UNCHANGED <<twilio, rows, tenant, blind>> /\ faults' \in Nat
      /\ vapi' \in {vapi, vapi \cup {n}}
    BY <1>0, CallIs DEF Import, Outcomes, Took, TypeOK
<1>3. /\ req' \in [Requests -> Records]
      /\ \A q \in Requests : q # r => req'[q] = req[q]
      /\ req'[r].pc = to /\ (req'[r].num = n \/ (to = "idle" /\ req'[r].num = Nil))
      /\ to # "idle" => req'[r].vapi = req[r].vapi /\ req'[r].acct = req[r].acct
    BY <1>0, <1>1, GotoIs DEF TypeOK, Pcs
<1>4. /\ twilio' \in [Numbers -> Accounts \cup {"free", "gone"}] /\ vapi' \subseteq Numbers
      /\ blind' \subseteq Numbers /\ rows' \in [Numbers -> Statuses] /\ tenant' \in Tenants
    BY <1>0, <1>2, Cases DEF TypeOK, Tenants, Statuses, RELEASABLE_STATUSES
<1>5. \A q \in Requests : q # r => ReqOK(q)'
    BY <1>0, <1>2, <1>3, Cases DEF IInv, TypeOK, ReqOK, Apart, Current, Holding, Giving, Taking,
       Wanting
<1>6. ReqOK(r)'
    BY <1>0, <1>1, <1>2, <1>3, Cases DEF IInv, TypeOK, Tenants, ReqOK, Current,
       RELEASABLE_STATUSES, Holding, Giving, Taking, Wanting
<1>7. HereOK' /\ Unbought'
    BY <1>0, <1>1, <1>2, <1>3, Cases DEF IInv, TypeOK, HereOK, Unbought, Current,
       RELEASABLE_STATUSES
<1>8. PointerOK'
    BY <1>0, <1>1, <1>2, <1>3, Cases DEF IInv, TypeOK, HereOK, PointerOK, Current, Legacy
<1>9. Apart'
    BY <1>0, <1>1, <1>3, Cases DEF IInv, Apart, ReqOK, Holding
<1>10. VapiFirst'
    BY <1>0, <1>2, Cases DEF IInv, TypeOK, VapiFirst, ReqOK
<1>11. (\A m, k \in Current' : m = k) /\ Follows
    BY <1>0, <1>2, Cases DEF IInv, TypeOK, Current, RELEASABLE_STATUSES, HereOK, ReqOK, Holding,
       Taking, Follows
<1> QED
    BY <1>0, <1>1, <1>2, <1>3, <1>4, <1>5, <1>6, <1>7, <1>8, <1>9, <1>10, <1>11, Pieces
       DEF TypeOK, Pcs

LEMMA NameTenantKeeps ==
    ASSUME IInv, NEW r \in Buyers, NameTenant(r)
    PROVE  IInv' /\ Follows
<1> DEFINE n == req[r].num
<1>0. req[r].pc = "name" /\ TypeOK /\ req[r] \in Records /\ n \in Numbers /\ r \in Buyers
      /\ r \in Requests /\ r \notin Releasers
      /\ twilio[n] = req[r].acct /\ req[r].acct \in Accounts /\ tenant.number # n /\ r \in Signups
    BY Cases DEF NameTenant, At, IInv, ReqOK, Giving, Taking, Holding, Wanting, TypeOK
<1>1. PICK to \in {"register", "undo"} : Goto(r, to)
    BY DEF NameTenant
<1>2. /\ UNCHANGED <<twilio, vapi, rows, blind>> /\ faults' \in Nat
      /\ tenant' \in Tenants /\ tenant'.number = tenant.number /\ tenant'.here = tenant.here
      /\ tenant'.open = tenant.open
    <2>1. tenant' \in {tenant, [tenant EXCEPT !.acct = r, !.vapi = req[r].num]}
        BY DEF NameTenant, Outcomes, Took
    <2>2. faults' \in Nat
        BY <1>0, CallIs DEF NameTenant, TypeOK
    <2>3. UNCHANGED <<twilio, vapi, rows, blind>>
        BY DEF NameTenant
    <2>4. tenant \in Tenants /\ r \in Accounts /\ n \in Numbers
        BY <1>0 DEF TypeOK, Accounts
    <2>5. /\ tenant' \in Tenants /\ tenant'.number = tenant.number /\ tenant'.here = tenant.here
          /\ tenant'.open = tenant.open
        <3> HIDE DEF n
        <3>1. tenant' = tenant \/ tenant' = [tenant EXCEPT !.acct = r, !.vapi = n]
            BY <2>1 DEF n
        <3> QED
            BY <2>4, <3>1 DEF Tenants
    <2> QED
        BY <2>2, <2>3, <2>5
<1>3. /\ req' \in [Requests -> Records]
      /\ \A q \in Requests : q # r => req'[q] = req[q]
      /\ req'[r].pc = to /\ (req'[r].num = n \/ (to = "idle" /\ req'[r].num = Nil))
      /\ to # "idle" => req'[r].vapi = req[r].vapi /\ req'[r].acct = req[r].acct
    BY <1>0, <1>1, GotoIs DEF TypeOK, Pcs
<1>4. /\ twilio' \in [Numbers -> Accounts \cup {"free", "gone"}] /\ vapi' \subseteq Numbers
      /\ blind' \subseteq Numbers /\ rows' \in [Numbers -> Statuses] /\ tenant' \in Tenants
    BY <1>0, <1>2, Cases DEF TypeOK, Tenants, Statuses, RELEASABLE_STATUSES
<1>5. \A q \in Requests : q # r => ReqOK(q)'
    BY <1>0, <1>2, <1>3, Cases DEF IInv, TypeOK, ReqOK, Apart, Current, Holding, Giving, Taking,
       Wanting
<1>6. ReqOK(r)'
    BY <1>0, <1>1, <1>2, <1>3, Cases DEF IInv, TypeOK, Tenants, ReqOK, Current,
       RELEASABLE_STATUSES, Holding, Giving, Taking, Wanting
<1>7. HereOK' /\ Unbought'
    BY <1>0, <1>1, <1>2, <1>3, Cases DEF IInv, TypeOK, HereOK, Unbought, Current,
       RELEASABLE_STATUSES
<1>8. PointerOK'
    BY <1>0, <1>1, <1>2, <1>3, Cases DEF IInv, TypeOK, HereOK, PointerOK, Current, Legacy
<1>9. Apart'
    BY <1>0, <1>1, <1>3, Cases DEF IInv, Apart, ReqOK, Holding
<1>10. VapiFirst'
    BY <1>0, <1>2, Cases DEF IInv, TypeOK, VapiFirst, ReqOK
<1>11. (\A m, k \in Current' : m = k) /\ Follows
    BY <1>0, <1>2, Cases DEF IInv, TypeOK, Current, RELEASABLE_STATUSES, HereOK, ReqOK, Holding,
       Taking, Follows
<1> QED
    BY <1>0, <1>1, <1>2, <1>3, <1>4, <1>5, <1>6, <1>7, <1>8, <1>9, <1>10, <1>11, Pieces
       DEF TypeOK, Pcs

LEMMA RegisterKeeps ==
    ASSUME IInv, NEW r \in Buyers, Register(r)
    PROVE  IInv' /\ Follows
<1> DEFINE n == req[r].num
<1>0. req[r].pc = "register" /\ TypeOK /\ req[r] \in Records /\ n \in Numbers /\ r \in Buyers
      /\ r \in Requests /\ r \notin Releasers
      /\ twilio[n] = req[r].acct /\ req[r].acct \in Accounts /\ tenant.number # n
    BY Cases DEF Register, At, IInv, ReqOK, Giving, Taking, Holding, Wanting, TypeOK
<1>1. PICK to \in {"idle", "insert", "undo"} : Goto(r, to)
    BY DEF Register, Raised
<1>2. UNCHANGED <<twilio, vapi, rows, tenant, blind>> /\ faults' \in Nat
    BY <1>0, CallIs DEF Register, TypeOK
<1>3. /\ req' \in [Requests -> Records]
      /\ \A q \in Requests : q # r => req'[q] = req[q]
      /\ req'[r].pc = to /\ (req'[r].num = n \/ (to = "idle" /\ req'[r].num = Nil))
      /\ to # "idle" => req'[r].vapi = req[r].vapi /\ req'[r].acct = req[r].acct
    BY <1>0, <1>1, GotoIs DEF TypeOK, Pcs
<1>4. /\ twilio' \in [Numbers -> Accounts \cup {"free", "gone"}] /\ vapi' \subseteq Numbers
      /\ blind' \subseteq Numbers /\ rows' \in [Numbers -> Statuses] /\ tenant' \in Tenants
    BY <1>0, <1>2, Cases DEF TypeOK, Tenants, Statuses, RELEASABLE_STATUSES
<1>5. \A q \in Requests : q # r => ReqOK(q)'
    BY <1>0, <1>2, <1>3, Cases DEF IInv, TypeOK, ReqOK, Apart, Current, Holding, Giving, Taking,
       Wanting
<1>6. ReqOK(r)'
    BY <1>0, <1>1, <1>2, <1>3, Cases DEF IInv, TypeOK, Tenants, ReqOK, Current,
       RELEASABLE_STATUSES, Holding, Giving, Taking, Wanting
<1>7. HereOK' /\ Unbought'
    BY <1>0, <1>1, <1>2, <1>3, Cases DEF IInv, TypeOK, HereOK, Unbought, Current,
       RELEASABLE_STATUSES
<1>8. PointerOK'
    BY <1>0, <1>1, <1>2, <1>3, Cases DEF IInv, TypeOK, HereOK, PointerOK, Current, Legacy
<1>9. Apart'
    BY <1>0, <1>1, <1>3, Cases DEF IInv, Apart, ReqOK, Holding
<1>10. VapiFirst'
    BY <1>0, <1>2, Cases DEF IInv, TypeOK, VapiFirst, ReqOK
<1>11. (\A m, k \in Current' : m = k) /\ Follows
    BY <1>0, <1>2, Cases DEF IInv, TypeOK, Current, RELEASABLE_STATUSES, HereOK, ReqOK, Holding,
       Taking, Follows
<1> QED
    BY <1>0, <1>1, <1>2, <1>3, <1>4, <1>5, <1>6, <1>7, <1>8, <1>9, <1>10, <1>11, Pieces
       DEF TypeOK, Pcs

LEMMA InsertKeeps ==
    ASSUME IInv, NEW r \in Buyers, Insert(r)
    PROVE  IInv' /\ Follows
<1> DEFINE n == req[r].num
<1>0. req[r].pc = "insert" /\ TypeOK /\ req[r] \in Records /\ n \in Numbers /\ r \in Buyers
      /\ r \in Requests /\ r \notin Releasers
      /\ twilio[n] = req[r].acct /\ req[r].acct \in Accounts /\ tenant.number # n
    BY Cases DEF Insert, At, IInv, ReqOK, Giving, Taking, Holding, Wanting, TypeOK
<1>1. PICK to \in {"idle", "undo", "activate"} :
          /\ Goto(r, to)
          /\ \/ UNCHANGED rows /\ to # "activate"
             \/ Current = {} /\ tenant.here /\ rows' = [rows EXCEPT ![n] = "provisioning"]
    <2>1. PICK o \in Outcomes :
              /\ rows' = IF Current = {} /\ tenant.here
                         THEN [rows EXCEPT ![n] = Took(o, "provisioning", @)] ELSE rows
              /\ Goto(r, IF o = "done" /\ Current = {}
                    /\ tenant.here THEN "activate" ELSE Raised(r))
        BY DEF Insert
    <2>2. CASE o = "done" /\ Current = {} /\ tenant.here
        BY <1>0, <2>1, <2>2 DEF Took, TypeOK
    <2>3. CASE o # "done" /\ Current = {} /\ tenant.here
        BY <1>0, <2>1, <2>3 DEF Took, Raised, TypeOK
    <2>4. CASE ~(Current = {} /\ tenant.here)
        BY <1>0, <2>1, <2>4 DEF Raised
    <2> QED
        BY <2>2, <2>3, <2>4
<1>2. UNCHANGED <<twilio, vapi, tenant, blind>> /\ faults' \in Nat
    BY <1>0, CallIs DEF Insert, TypeOK
<1>3. /\ req' \in [Requests -> Records]
      /\ \A q \in Requests : q # r => req'[q] = req[q]
      /\ req'[r].pc = to /\ (req'[r].num = n \/ (to = "idle" /\ req'[r].num = Nil))
      /\ to # "idle" => req'[r].vapi = req[r].vapi /\ req'[r].acct = req[r].acct
    BY <1>0, <1>1, GotoIs DEF TypeOK, Pcs
<1>4. /\ twilio' \in [Numbers -> Accounts \cup {"free", "gone"}] /\ vapi' \subseteq Numbers
      /\ blind' \subseteq Numbers /\ rows' \in [Numbers -> Statuses] /\ tenant' \in Tenants
    BY <1>0, <1>1, <1>2, Cases DEF TypeOK, Tenants, Records, Statuses, RELEASABLE_STATUSES
<1>5. \A q \in Requests : q # r => ReqOK(q)'
    BY <1>0, <1>1, <1>2, <1>3, Cases DEF IInv, TypeOK, Tenants, ReqOK, Apart, Unbought, Current,
       RELEASABLE_STATUSES, Holding, Giving, Taking, Wanting
<1>6. ReqOK(r)'
    BY <1>0, <1>1, <1>2, <1>3, Cases DEF IInv, TypeOK, Tenants, ReqOK, Unbought, Current,
       RELEASABLE_STATUSES, Holding, Giving, Taking, Wanting
<1>7. HereOK' /\ Unbought'
    BY <1>0, <1>1, <1>2, <1>3, Cases DEF IInv, TypeOK, Tenants, HereOK, Unbought, Current,
       RELEASABLE_STATUSES
<1>8. PointerOK'
    BY <1>0, <1>1, <1>2, <1>3, Cases DEF IInv, TypeOK, Tenants, HereOK, PointerOK, Current,
       RELEASABLE_STATUSES, Legacy
<1>9. Apart'
    BY <1>0, <1>1, <1>2, <1>3, Cases DEF IInv, Apart, Unbought, ReqOK, Holding
<1>10. VapiFirst'
    BY <1>0, <1>1, <1>2, Cases DEF IInv, TypeOK, VapiFirst, ReqOK
<1>11. (\A m, k \in Current' : m = k) /\ Follows
    BY <1>0, <1>1, <1>2, Cases DEF IInv, TypeOK, Tenants, Current, RELEASABLE_STATUSES, HereOK,
       PointerOK, Legacy, Follows
<1> QED
    BY <1>0, <1>1, <1>2, <1>3, <1>4, <1>5, <1>6, <1>7, <1>8, <1>9, <1>10, <1>11, Pieces
       DEF TypeOK, Pcs

LEMMA ActivateKeeps ==
    ASSUME IInv, NEW r \in Buyers, Activate(r)
    PROVE  IInv' /\ Follows
<1> DEFINE n == req[r].num
<1>0. req[r].pc = "activate" /\ TypeOK /\ req[r] \in Records /\ n \in Numbers /\ r \in Buyers
      /\ r \in Requests /\ r \notin Releasers
      /\ twilio[n] = req[r].acct /\ req[r].acct \in Accounts /\ tenant.number # n
      /\ (tenant.here => n \in Current)
    BY Cases DEF Activate, At, IInv, ReqOK, Giving, Taking, Holding, Wanting, TypeOK
<1>1. PICK to \in {"idle", "undo", "mirror"} : Goto(r, to)
    BY DEF Activate, Raised
<1>2. /\ UNCHANGED <<twilio, vapi, tenant, blind>> /\ faults' \in Nat
      /\ rows' = rows \/ (rows[n] # "none" /\ rows' = [rows EXCEPT ![n] = "active"])
    BY <1>0, CallIs DEF Activate, Outcomes, Took, TypeOK
<1>3. /\ req' \in [Requests -> Records]
      /\ \A q \in Requests : q # r => req'[q] = req[q]
      /\ req'[r].pc = to /\ (req'[r].num = n \/ (to = "idle" /\ req'[r].num = Nil))
      /\ to # "idle" => req'[r].vapi = req[r].vapi /\ req'[r].acct = req[r].acct
    BY <1>0, <1>1, GotoIs DEF TypeOK, Pcs
<1>4. /\ twilio' \in [Numbers -> Accounts \cup {"free", "gone"}] /\ vapi' \subseteq Numbers
      /\ blind' \subseteq Numbers /\ rows' \in [Numbers -> Statuses] /\ tenant' \in Tenants
    BY <1>0, <1>2, Cases DEF TypeOK, Tenants, Statuses, RELEASABLE_STATUSES
<1>5. \A q \in Requests : q # r => ReqOK(q)'
    BY <1>0, <1>2, <1>3, Cases DEF IInv, TypeOK, ReqOK, Apart, Current, Holding, Giving, Taking,
       Wanting
<1>6. ReqOK(r)'
    BY <1>0, <1>1, <1>2, <1>3, Cases DEF IInv, TypeOK, Tenants, ReqOK, Current,
       RELEASABLE_STATUSES, Holding, Giving, Taking, Wanting
<1>7. HereOK' /\ Unbought'
    BY <1>0, <1>1, <1>2, <1>3, Cases DEF IInv, TypeOK, HereOK, Unbought, Current,
       RELEASABLE_STATUSES
<1>8. PointerOK'
    BY <1>0, <1>1, <1>2, <1>3, Cases DEF IInv, TypeOK, HereOK, PointerOK, Current, Legacy
<1>9. Apart'
    BY <1>0, <1>1, <1>3, Cases DEF IInv, Apart, ReqOK, Holding
<1>10. VapiFirst'
    BY <1>0, <1>2, Cases DEF IInv, TypeOK, VapiFirst, ReqOK
<1>11. (\A m, k \in Current' : m = k) /\ Follows
    BY <1>0, <1>2, Cases DEF IInv, TypeOK, Current, RELEASABLE_STATUSES, HereOK, ReqOK, Holding,
       Taking, Follows
<1> QED
    BY <1>0, <1>1, <1>2, <1>3, <1>4, <1>5, <1>6, <1>7, <1>8, <1>9, <1>10, <1>11, Pieces
       DEF TypeOK, Pcs

LEMMA MirrorKeeps ==
    ASSUME IInv, NEW r \in Buyers, Mirror(r)
    PROVE  IInv' /\ Follows
<1> DEFINE n == req[r].num
<1>0. req[r].pc = "mirror" /\ TypeOK /\ req[r] \in Records /\ n \in Numbers /\ r \in Buyers
      /\ r \in Requests /\ r \notin Releasers
      /\ twilio[n] = req[r].acct /\ req[r].acct \in Accounts /\ tenant.number # n
      /\ (tenant.here => n \in Current)
    BY Cases DEF Mirror, At, IInv, ReqOK, Giving, Taking, Holding, Wanting, TypeOK
<1>1. PICK to \in {"idle", "undo", "finish"} : Goto(r, to)
    BY DEF Mirror, Raised
<1>2. /\ UNCHANGED <<twilio, vapi, rows, blind>> /\ faults' \in Nat
      /\ tenant' = tenant \/ (tenant.here /\ tenant' = [tenant EXCEPT !.number = n])
    BY <1>0, CallIs DEF Mirror, Write, Outcomes, Took, TypeOK
<1>3. /\ req' \in [Requests -> Records]
      /\ \A q \in Requests : q # r => req'[q] = req[q]
      /\ req'[r].pc = to /\ (req'[r].num = n \/ (to = "idle" /\ req'[r].num = Nil))
      /\ to # "idle" => req'[r].vapi = req[r].vapi /\ req'[r].acct = req[r].acct
    BY <1>0, <1>1, GotoIs DEF TypeOK, Pcs
<1>4. /\ twilio' \in [Numbers -> Accounts \cup {"free", "gone"}] /\ vapi' \subseteq Numbers
      /\ blind' \subseteq Numbers /\ rows' \in [Numbers -> Statuses] /\ tenant' \in Tenants
    BY <1>0, <1>1, <1>2, Cases DEF TypeOK, Tenants, Records, Statuses, RELEASABLE_STATUSES
<1>5. \A q \in Requests : q # r => ReqOK(q)'
    BY <1>0, <1>1, <1>2, <1>3, Cases DEF IInv, TypeOK, Tenants, ReqOK, Apart, Unbought, Current,
       RELEASABLE_STATUSES, Holding, Giving, Taking, Wanting
<1>6. ReqOK(r)'
    BY <1>0, <1>1, <1>2, <1>3, Cases DEF IInv, TypeOK, Tenants, ReqOK, Unbought, Current,
       RELEASABLE_STATUSES, Holding, Giving, Taking, Wanting
<1>7. HereOK' /\ Unbought'
    BY <1>0, <1>1, <1>2, <1>3, Cases DEF IInv, TypeOK, Tenants, HereOK, Unbought, Current,
       RELEASABLE_STATUSES
<1>8. PointerOK'
    BY <1>0, <1>1, <1>2, <1>3, Cases DEF IInv, TypeOK, Tenants, HereOK, PointerOK, Current,
       RELEASABLE_STATUSES, Legacy
<1>9. Apart'
    BY <1>0, <1>1, <1>2, <1>3, Cases DEF IInv, Apart, Unbought, ReqOK, Holding
<1>10. VapiFirst'
    BY <1>0, <1>1, <1>2, Cases DEF IInv, TypeOK, VapiFirst, ReqOK
<1>11. (\A m, k \in Current' : m = k) /\ Follows
    BY <1>0, <1>1, <1>2, Cases DEF IInv, TypeOK, Tenants, Current, RELEASABLE_STATUSES, HereOK,
       PointerOK, Legacy, Follows
<1> QED
    BY <1>0, <1>1, <1>2, <1>3, <1>4, <1>5, <1>6, <1>7, <1>8, <1>9, <1>10, <1>11, Pieces
       DEF TypeOK, Pcs

LEMMA FinishKeeps ==
    ASSUME IInv, NEW r \in Buyers, Finish(r)
    PROVE  IInv' /\ Follows
<1> DEFINE n == req[r].num
<1>0. req[r].pc = "finish" /\ TypeOK /\ req[r] \in Records /\ r \in Buyers
      /\ r \notin Releasers /\ r \in Requests
    BY Cases DEF Finish, At, IInv, ReqOK, Giving, Taking, Holding, Wanting, TypeOK
<1>1. PICK to \in {"idle"} : Goto(r, to)
    BY DEF Finish
<1>2. /\ UNCHANGED <<twilio, vapi, rows, blind>> /\ faults' \in Nat
      /\ tenant' \in Tenants /\ tenant'.number = tenant.number /\ tenant'.here = tenant.here
    <2>1. tenant' \in {tenant, [tenant EXCEPT !.open = FALSE],
                      [tenant EXCEPT !.vapi = req[r].num, !.stamped = FALSE]}
        BY DEF Finish, Write, Outcomes, Took
    <2>2. faults' \in Nat
        BY <1>0, CallIs DEF Finish, TypeOK
    <2>3. UNCHANGED <<twilio, vapi, rows, blind>>
        BY DEF Finish
    <2> QED
        BY <1>0, <2>1, <2>2, <2>3 DEF TypeOK, Tenants, Records
<1>3. /\ req' \in [Requests -> Records]
      /\ \A q \in Requests : q # r => req'[q] = req[q]
      /\ req'[r].pc = to /\ (req'[r].num = n \/ (to = "idle" /\ req'[r].num = Nil))
      /\ to # "idle" => req'[r].vapi = req[r].vapi /\ req'[r].acct = req[r].acct
    BY <1>0, <1>1, GotoIs DEF TypeOK, Pcs
<1>4. /\ twilio' \in [Numbers -> Accounts \cup {"free", "gone"}] /\ vapi' \subseteq Numbers
      /\ blind' \subseteq Numbers /\ rows' \in [Numbers -> Statuses] /\ tenant' \in Tenants
    BY <1>0, <1>2, Cases DEF TypeOK, Tenants, Statuses, RELEASABLE_STATUSES
<1>5. \A q \in Requests : q # r => ReqOK(q)'
    BY <1>0, <1>2, <1>3, Cases DEF IInv, TypeOK, ReqOK, Apart, Current, Holding, Giving, Taking,
       Wanting
<1>6. ReqOK(r)'
    BY <1>0, <1>1, <1>2, <1>3, Cases DEF IInv, TypeOK, Tenants, ReqOK, Current,
       RELEASABLE_STATUSES, Holding, Giving, Taking, Wanting
<1>7. HereOK' /\ Unbought'
    BY <1>0, <1>1, <1>2, <1>3, Cases DEF IInv, TypeOK, HereOK, Unbought, Current,
       RELEASABLE_STATUSES
<1>8. PointerOK'
    BY <1>0, <1>1, <1>2, <1>3, Cases DEF IInv, TypeOK, HereOK, PointerOK, Current, Legacy
<1>9. Apart'
    BY <1>0, <1>1, <1>3, Cases DEF IInv, Apart, ReqOK, Holding
<1>10. VapiFirst'
    BY <1>0, <1>2, Cases DEF IInv, TypeOK, VapiFirst, ReqOK
<1>11. (\A m, k \in Current' : m = k) /\ Follows
    BY <1>0, <1>2, Cases DEF IInv, TypeOK, Current, RELEASABLE_STATUSES, HereOK, ReqOK, Holding,
       Taking, Follows
<1> QED
    BY <1>0, <1>1, <1>2, <1>3, <1>4, <1>5, <1>6, <1>7, <1>8, <1>9, <1>10, <1>11, Pieces
       DEF TypeOK, Pcs

LEMMA UndoKeeps ==
    ASSUME IInv, NEW r \in Buyers, Undo(r)
    PROVE  IInv' /\ Follows
<1> DEFINE n == req[r].num
<1>0. req[r].pc = "undo" /\ TypeOK /\ req[r] \in Records /\ n \in Numbers /\ r \in Buyers
      /\ r \notin Releasers /\ r \in Requests
    BY Cases DEF Undo, At, IInv, ReqOK, Giving, Taking, Holding, Wanting, TypeOK
<1>1. PICK to \in {"idle", "books"} : Goto(r, to) /\ (to = "books" => twilio'[n] = "gone")
    BY <1>0 DEF Undo, Outcomes, Took, TypeOK
<1>2. /\ UNCHANGED <<vapi, rows, tenant>> /\ faults' \in Nat
      /\ \/ UNCHANGED <<twilio, blind>>
         \/ /\ twilio' = [twilio EXCEPT ![n] = "gone"] /\ blind' = blind \cup {n}
            /\ twilio[n] \in Accounts \cup {Nil}
    BY <1>0, CallIs DEF Undo, Outcomes, Took, TypeOK, Records
<1>3. /\ req' \in [Requests -> Records]
      /\ \A q \in Requests : q # r => req'[q] = req[q]
      /\ req'[r].pc = to /\ (req'[r].num = n \/ (to = "idle" /\ req'[r].num = Nil))
      /\ to # "idle" => req'[r].vapi = req[r].vapi /\ req'[r].acct = req[r].acct
    BY <1>0, <1>1, GotoIs DEF TypeOK, Pcs
<1>4. /\ twilio' \in [Numbers -> Accounts \cup {"free", "gone"}] /\ vapi' \subseteq Numbers
      /\ blind' \subseteq Numbers /\ rows' \in [Numbers -> Statuses] /\ tenant' \in Tenants
    BY <1>0, <1>2, Cases DEF TypeOK, Tenants, Statuses, RELEASABLE_STATUSES
<1>5. \A q \in Requests : q # r => ReqOK(q)'
    BY <1>0, <1>2, <1>3, Cases DEF IInv, TypeOK, ReqOK, Apart, Current, Holding, Giving, Taking,
       Wanting
<1>6. ReqOK(r)'
    BY <1>0, <1>1, <1>2, <1>3, Cases DEF IInv, TypeOK, Tenants, ReqOK, Current,
       RELEASABLE_STATUSES, Holding, Giving, Taking, Wanting
<1>7. HereOK' /\ Unbought'
    BY <1>0, <1>1, <1>2, <1>3, Cases DEF IInv, TypeOK, HereOK, Unbought, Current,
       RELEASABLE_STATUSES
<1>8. PointerOK'
    BY <1>0, <1>1, <1>2, <1>3, Cases DEF IInv, TypeOK, HereOK, PointerOK, Current, Legacy
<1>9. Apart'
    BY <1>0, <1>1, <1>3, Cases DEF IInv, Apart, ReqOK, Holding
<1>10. VapiFirst'
    BY <1>0, <1>2, Cases DEF IInv, TypeOK, VapiFirst, ReqOK
<1>11. (\A m, k \in Current' : m = k) /\ Follows
    BY <1>0, <1>2, Cases DEF IInv, TypeOK, Current, RELEASABLE_STATUSES, HereOK, ReqOK, Holding,
       Taking, Follows
<1> QED
    BY <1>0, <1>1, <1>2, <1>3, <1>4, <1>5, <1>6, <1>7, <1>8, <1>9, <1>10, <1>11, Pieces
       DEF TypeOK, Pcs

LEMMA StopKeeps ==
    ASSUME IInv, NEW r \in Requests, Stop(r)
    PROVE  IInv' /\ Follows
<1> DEFINE n == req[r].num
<1>0. req[r] \in Records /\ TypeOK /\ r \in Requests
    BY Cases DEF IInv, TypeOK
<1>1. PICK to \in {"idle"} : Goto(r, to)
    BY DEF Stop
<1>2. UNCHANGED <<twilio, vapi, rows, tenant, blind>> /\ faults' \in Nat
    BY <1>0, CallIs DEF Stop, TypeOK
<1>3. /\ req' \in [Requests -> Records]
      /\ \A q \in Requests : q # r => req'[q] = req[q]
      /\ req'[r].pc = to /\ (req'[r].num = n \/ (to = "idle" /\ req'[r].num = Nil))
      /\ to # "idle" => req'[r].vapi = req[r].vapi /\ req'[r].acct = req[r].acct
    BY <1>0, <1>1, GotoIs DEF TypeOK, Pcs
<1>4. /\ twilio' \in [Numbers -> Accounts \cup {"free", "gone"}] /\ vapi' \subseteq Numbers
      /\ blind' \subseteq Numbers /\ rows' \in [Numbers -> Statuses] /\ tenant' \in Tenants
    BY <1>0, <1>2, Cases DEF TypeOK, Tenants, Statuses, RELEASABLE_STATUSES
<1>5. \A q \in Requests : q # r => ReqOK(q)'
    BY <1>0, <1>2, <1>3, Cases DEF IInv, TypeOK, ReqOK, Apart, Current, Holding, Giving, Taking,
       Wanting
<1>6. ReqOK(r)'
    BY <1>0, <1>1, <1>2, <1>3, Cases DEF IInv, TypeOK, Tenants, ReqOK, Current,
       RELEASABLE_STATUSES, Holding, Giving, Taking, Wanting
<1>7. HereOK' /\ Unbought'
    BY <1>0, <1>1, <1>2, <1>3, Cases DEF IInv, TypeOK, HereOK, Unbought, Current,
       RELEASABLE_STATUSES
<1>8. PointerOK'
    BY <1>0, <1>1, <1>2, <1>3, Cases DEF IInv, TypeOK, HereOK, PointerOK, Current, Legacy
<1>9. Apart'
    BY <1>0, <1>1, <1>3, Cases DEF IInv, Apart, ReqOK, Holding
<1>10. VapiFirst'
    BY <1>0, <1>2, Cases DEF IInv, TypeOK, VapiFirst, ReqOK
<1>11. (\A m, k \in Current' : m = k) /\ Follows
    BY <1>0, <1>2, Cases DEF IInv, TypeOK, Current, RELEASABLE_STATUSES, HereOK, ReqOK, Holding,
       Taking, Follows
<1> QED
    BY <1>0, <1>1, <1>2, <1>3, <1>4, <1>5, <1>6, <1>7, <1>8, <1>9, <1>10, <1>11, Pieces
       DEF TypeOK, Pcs

-----------------------------------------------------------------------------
(* What happens beside the requests                                          *)

LEMMA CustomerKeeps == ASSUME IInv, Customer PROVE IInv' /\ Follows
<1>1. /\ UNCHANGED <<twilio, vapi, rows, req, blind, faults>>
      /\ tenant' \in Tenants /\ tenant'.number = tenant.number /\ tenant'.here = tenant.here
      /\ tenant'.open = tenant.open
    BY DEF Customer, IInv, TypeOK, Tenants
<1>2. TypeOK' /\ VapiFirst' /\ Apart' /\ Follows
    BY <1>1 DEF IInv, TypeOK, Current, VapiFirst, Apart, Follows
<1>3. HereOK' /\ Unbought' /\ PointerOK'
    BY <1>1 DEF IInv, HereOK, Unbought, PointerOK, Legacy, Current
<1>4. \A r \in Requests : ReqOK(r)'
    BY <1>1 DEF IInv, ReqOK, Current
<1> QED
    BY <1>2, <1>3, <1>4 DEF IInv

LEMMA ReconcileKeeps == ASSUME IInv, Reconcile PROVE IInv' /\ Follows
<1>1. PICK n \in Numbers :
          /\ twilio[n] = "gone"
          /\ rows' = IF n \in Current THEN [rows EXCEPT ![n] = "released"] ELSE rows
          /\ tenant' = IF tenant.number = n THEN Cleared ELSE tenant
    BY DEF Reconcile
<1>2. UNCHANGED <<twilio, vapi, req, blind, faults>> /\ TypeOK
    BY DEF Reconcile, IInv
<1>3. /\ tenant' = tenant \/ (tenant.number = n /\ tenant'.number = Nil)
      /\ tenant' \in Tenants /\ tenant'.here = tenant.here /\ tenant'.open = tenant.open
    BY <1>1, <1>2 DEF Cleared, TypeOK, Tenants
<1>4. /\ rows' \in [Numbers -> Statuses] /\ n \notin Current'
      /\ \A k \in Numbers : k # n => rows'[k] = rows[k]
      /\ rows[n] = "none" => rows'[n] = "none"
    BY <1>1, <1>2 DEF TypeOK, Statuses, Current, RELEASABLE_STATUSES
<1>5. TypeOK'
    BY <1>2, <1>3, <1>4 DEF TypeOK, Current
<1>6. VapiFirst' /\ Apart'
    BY <1>2 DEF IInv, VapiFirst, Apart
<1>7. HereOK' /\ Unbought'
    BY <1>1, <1>2, <1>3, <1>4, Cases DEF IInv, HereOK, Unbought
<1>8. PointerOK' /\ Follows
    BY <1>1, <1>2, <1>3, <1>4, Cases DEF IInv, PointerOK, Legacy, Current, Follows
<1>9. ASSUME NEW r \in Requests PROVE ReqOK(r)'
    <2>1. ReqOK(r) /\ req'[r] = req[r] /\ req[r] \in Records
        BY <1>2, <1>9 DEF IInv, TypeOK
    <2>2. CASE req[r].pc \in Holding
        <3>1. req[r].num # n
            BY <1>1, <1>2, <2>1, <2>2, Cases DEF ReqOK, Holding
        <3> QED
            BY <1>2, <1>3, <1>4, <2>1, <2>2, <3>1, Cases
            DEF ReqOK, Current, Holding, Giving, Taking, Wanting
    <2>3. CASE req[r].pc \notin Holding
        BY <1>2, <2>1, <2>3 DEF ReqOK, Holding, Giving, Taking, Wanting
    <2> QED
        BY <2>2, <2>3
<1> QED
    BY <1>5, <1>6, <1>7, <1>8, <1>9 DEF IInv

-----------------------------------------------------------------------------
(* The theorems                                                              *)

LEMMA InitIInv == Init => IInv
<1> SUFFICES ASSUME Init PROVE IInv
    OBVIOUS
<1>1. \A r \in Requests : req[r] = Idle
    BY DEF Init
<1>2. req \in [Requests -> Records]
    BY DEF Init, Idle, Records, Pcs
<1>3. /\ tenant \in Tenants /\ tenant.here
      /\ rows \in [Numbers -> Statuses]
      /\ twilio \in [Numbers -> Accounts \cup {"free", "gone"}]
      /\ \A n \in Numbers : twilio[n] # "gone"
      /\ \A n \in Numbers : twilio[n] = "free" => rows[n] = "none" /\ tenant.number # n
      /\ \A n \in Current : n = First
      /\ tenant.number # Nil => ~tenant.open
    <2>1. CASE tenant = Tenant(First, Home, FALSE)
        <3>1. /\ rows \in [Numbers -> Statuses]
              /\ \A n \in Numbers : n # First => rows[n] = "none"
              /\ twilio = [n \in Numbers |-> IF n = First THEN Home ELSE "free"]
            BY <2>1, Cases DEF Init, Tenant, Statuses, RELEASABLE_STATUSES
        <3>2. tenant \in Tenants /\ tenant.here /\ tenant.number = First /\ ~tenant.open
            BY <2>1, Cases DEF Tenant, Tenants, Accounts
        <3> QED
            BY <3>1, <3>2, Cases DEF Accounts, Current, RELEASABLE_STATUSES
    <2>2. CASE tenant = Tenant(Nil, Nil, TRUE)
        <3>1. /\ rows = [n \in Numbers |-> "none"]
              /\ twilio = [n \in Numbers |-> "free"]
            BY <2>2, Cases DEF Init, Tenant
        <3>2. tenant \in Tenants /\ tenant.here /\ tenant.number = Nil
            BY <2>2 DEF Tenant, Tenants
        <3> QED
            BY <3>1, <3>2, Cases DEF Current, Statuses, RELEASABLE_STATUSES
    <2> QED
        BY <2>1, <2>2 DEF Init
<1>4. vapi \subseteq Numbers /\ blind \subseteq Numbers /\ faults \in Nat
    BY Cases DEF Init
<1>5. TypeOK
    BY <1>2, <1>3, <1>4 DEF TypeOK, Current
<1>6. HereOK /\ VapiFirst
    BY <1>3, <1>4 DEF HereOK, VapiFirst
<1>7. Unbought /\ Apart
    BY <1>1, <1>3, Cases DEF Unbought, Apart, Idle, Holding
<1>8. PointerOK
    BY <1>1, <1>3, Cases DEF PointerOK, Legacy, Idle
<1>9. \A r \in Requests : ReqOK(r)
    BY <1>1 DEF ReqOK, Idle, Holding, Giving, Taking, Wanting
<1> QED
    BY <1>5, <1>6, <1>7, <1>8, <1>9 DEF IInv

LEMMA StutterKeeps == ASSUME IInv, UNCHANGED vars PROVE IInv' /\ (Follows \/ UNCHANGED vars)
<1>1. TypeOK' /\ HereOK' /\ Unbought'
    BY DEF IInv, vars, TypeOK, HereOK, Unbought, Current
<1>2. Apart' /\ PointerOK' /\ VapiFirst'
    BY DEF IInv, vars, Apart, PointerOK, VapiFirst, Legacy, Current
<1>3. \A r \in Requests : ReqOK(r)'
    BY DEF IInv, vars, ReqOK, Current
<1> QED
    BY <1>1, <1>2, <1>3 DEF IInv

\* Every step keeps the invariant and takes nothing off the books too soon.
LEMMA StepKeeps == ASSUME IInv, Next PROVE IInv' /\ Follows
<1>1. CASE \E r \in Releasers : ReadTenant(r) \/ DropTenant(r)
    BY <1>1, Cases, ReadTenantKeeps, DropTenantKeeps
<1>2. CASE \E b \in Buyers : Begin(b) \/ Provision(b)
    BY <1>2, BeginKeeps, PreflightKeeps, BuyKeeps, ImportKeeps, NameTenantKeeps, RegisterKeeps,
       InsertKeeps, ActivateKeeps, MirrorKeeps, FinishKeeps, UndoKeeps DEF Provision
<1>3. CASE \E r \in Requests : Release(r) \/ Stop(r)
    BY <1>3, LookUpKeeps, DeleteVapiKeeps, ReleaseTwilioKeeps, MarkReleasedKeeps,
       ClearTenantKeeps,
       StopKeeps DEF Release
<1> QED
    BY <1>1, <1>2, <1>3, CustomerKeeps, ReconcileKeeps DEF Next

\* The invariant the argument above describes holds for ever.
THEOREM Inductive == Spec => []IInv
<1>1. IInv /\ [Next]_vars => IInv'
    BY StepKeeps, StutterKeeps
<1> QED
    BY <1>1, InitIInv, PTL DEF Spec

(* release_tenant_number detaches the Vapi record before it gives the number
   back: no release that was looking at the record leaves Vapi pointing at a
   number Twilio may hand to somebody else, however requests interleave, fail or
   stop. *)
THEOREM VapiDetached == Spec => []VapiFirst
<1>1. IInv => VapiFirst
    BY DEF IInv
<1> QED
    BY <1>1, Inductive, PTL

(* mark_released and its fences: neither the canonical row nor the tenant's
   pointer lets go of a number before Twilio has, in any interleaving of
   releases, stalled ones included, with purchases. *)
THEOREM BooksFollow == Spec => BooksFollowTwilio
<1>1. IInv /\ [Next]_vars => [Follows]_vars
    BY StepKeeps
<1>2. IInv /\ [Next]_vars =>
         [tenant'.here => \A n \in Numbers :
             (n \in Current /\ n \notin Current') \/ (tenant.number = n /\ tenant'.number # n)
                => twilio'[n] = "gone"]_vars
    BY <1>1 DEF Follows
<1> QED
    BY <1>2, Inductive, PTL DEF Spec, BooksFollowTwilio

=============================================================================
