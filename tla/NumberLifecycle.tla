--------------------------- MODULE NumberLifecycle ---------------------------
(* One tenant's phone numbers, bought at signup or when an admin reprovisions
   and given back by the reclaim sweep, an admin or the retention purge
   (services/provisioning.py, phone_registry.py, number_reclaim.py,
   retention.py, db/phone_numbers.py, routers/admin.py).

   A number lives in four places no transaction spans: Twilio, under a
   sub-account; Vapi, which routes its calls; its canonical row in
   tenant_phone_numbers; and the pointers on the tenant row.  Giving a number
   back goes Vapi, Twilio, canonical row, pointers; getting one goes Twilio,
   Vapi, canonical row, pointers, and pointers in two writes.

   A number is never bought twice, so it stands for its E.164, its provider SID,
   its canonical row and its Vapi record at once; First is the number of an
   established tenant, whose sub-account is Home.  A signup makes a sub-account
   of its own, named after it.  The sweep is enabled and not a dry run.

   Bounds: one purchase per number; MaxFaults calls that fail, answers that are
   lost after the call took effect, and requests that stop.                  *)
EXTENDS Naturals, FiniteSets

CONSTANTS Numbers, First, Nil, Home, Sweeps, Admins, Purges, Signups, Reprovisions, MaxFaults

Releasers == Sweeps \cup Admins \cup Purges
Buyers    == Signups \cup Reprovisions
Requests  == Releasers \cup Buyers
Accounts  == Signups \cup {Home}

ASSUME FirstAssumption == /\ First \in Numbers /\ Nil \notin Numbers \cup Accounts
                          /\ {"free", "gone"} \cap Accounts = {}
ASSUME RequestAssumption == Releasers \cap Buyers = {}
ASSUME FaultAssumption == MaxFaults \in Nat

VARIABLES twilio, vapi, rows, tenant, req, blind, faults
vars == <<twilio, vapi, rows, tenant, req, blind, faults>>

(* "retiring", which only a promotion writes, does not occur here. *)
RELEASABLE_STATUSES == {"provisioning", "active"}
Idle == [pc |-> "idle", num |-> Nil, vapi |-> Nil, acct |-> Nil, canonical |-> FALSE]
Tenant(number, acct, open) ==
    [here |-> TRUE, number |-> number, vapi |-> number, acct |-> acct, open |-> open,
     stamped |-> FALSE, paying |-> TRUE]
Dropped == [Tenant(Nil, Nil, FALSE) EXCEPT !.here = FALSE]

(* An established tenant, with or (from before the canonical model) without a
   canonical row; or one whose signup has claimed its row and nothing else. *)
Init == /\ \/ /\ tenant = Tenant(First, Home, FALSE)
              /\ \E status \in {"none", "active"} :
                    rows = [n \in Numbers |-> IF n = First THEN status ELSE "none"]
              /\ twilio = [n \in Numbers |-> IF n = First THEN Home ELSE "free"]
              /\ vapi = {First}
           \/ /\ tenant = Tenant(Nil, Nil, TRUE)
              /\ rows = [n \in Numbers |-> "none"]
              /\ twilio = [n \in Numbers |-> "free"]
              /\ vapi = {}
        /\ req = [r \in Requests |-> Idle]
        /\ blind = {} /\ faults = 0

(* What becomes of a call: it is done, it is done and its answer lost, or not. *)
Outcomes == {"done", "lost", "refused"}
Call(o) == IF o = "done" THEN UNCHANGED faults
                         ELSE faults < MaxFaults /\ faults' = faults + 1
Took(o, new, old) == IF o = "refused" THEN old ELSE new

At(r, pc) == req[r].pc = pc
Goto(r, pc) == req' = [req EXCEPT ![r] = IF pc = "idle" THEN Idle ELSE [@ EXCEPT !.pc = pc]]
(* Once the purge has tried to give the number back it drops the tenant. *)
Over(r) == IF r \in Purges THEN "drop" ELSE "idle"
(* A signup that fails after its purchase gives the number back; a reprovision
   whose canonical writes raise just answers phone_persistence_failed. *)
Raised(b) == IF b \in Signups THEN "undo" ELSE "idle"

Current == {n \in Numbers : rows[n] \in RELEASABLE_STATUSES}
Due == tenant.here /\ tenant.number # Nil /\ ~tenant.paying /\ ~tenant.stamped

-----------------------------------------------------------------------------
(* Giving a number back.  Everything is decided on the tenant row as read here;
   the sweep reads all rows first and gets to this one when it gets to it.  An
   account may have been closed for as long as the purge requires at any time. *)
ReadTenant(r) ==
    /\ At(r, "idle") /\ r \in Releasers /\ tenant.here /\ (r \in Sweeps => Due)
    /\ r \in Purges \/ tenant.number # Nil
    /\ req' = [req EXCEPT ![r] =
                 [pc |-> IF tenant.number = Nil THEN "drop" ELSE "lookup", num |-> tenant.number,
                  vapi |-> tenant.vapi, acct |-> tenant.acct, canonical |-> FALSE]]
    /\ UNCHANGED <<twilio, vapi, rows, tenant, blind, faults>>

LookUp(r) ==
    /\ At(r, "lookup")
    /\ \E o \in {"done", "refused"} :
          /\ Call(o)
          /\ IF o = "done"
             THEN req' = [req EXCEPT ![r].canonical = req[r].num \in Current,
                                     ![r].pc = IF req[r].vapi = Nil THEN "twilio" ELSE "vapi"]
             ELSE Goto(r, Over(r))
    /\ UNCHANGED <<twilio, vapi, rows, tenant, blind>>

(* Seeded fault: the Twilio number is given back whatever Vapi said. *)
DeleteVapiHopefully(r) ==
    /\ At(r, "vapi")
    /\ \E o \in Outcomes : Call(o) /\ vapi' = Took(o, vapi \ {req[r].vapi}, vapi)
    /\ Goto(r, "twilio")
    /\ UNCHANGED <<twilio, rows, tenant, blind>>
(* Seeded fault: a record Vapi no longer has is an error. *)
DeleteVapiOnce(r) ==
    /\ At(r, "vapi")
    /\ \E o \in Outcomes :
          /\ Call(o) /\ vapi' = Took(o, vapi \ {req[r].vapi}, vapi)
          /\ Goto(r, IF o = "done" /\ req[r].vapi \in vapi THEN "twilio" ELSE Over(r))
    /\ UNCHANGED <<twilio, rows, tenant, blind>>
(* Vapi goes first, and a record it does not have (404) counts as deleted. *)
DeleteVapi(r) ==
    /\ At(r, "vapi")
    /\ \E o \in Outcomes :
          /\ Call(o) /\ vapi' = Took(o, vapi \ {req[r].vapi}, vapi)
          /\ Goto(r, IF o = "done" THEN "twilio" ELSE Over(r))
    /\ UNCHANGED <<twilio, rows, tenant, blind>>

(* The number is looked for under the tenant's sub-account and deleted; one that
   is not there leaves the books as they are.  `blind` keeps the numbers given
   back by somebody who was not looking at their Vapi record. *)
ReleaseTwilio(r) ==
    LET n == req[r].num IN
    /\ At(r, "twilio")
    /\ IF twilio[n] # req[r].acct
       THEN Goto(r, Over(r)) /\ UNCHANGED <<twilio, blind, faults>>
       ELSE \E o \in Outcomes :
              /\ Call(o)
              /\ twilio' = [twilio EXCEPT ![n] = Took(o, "gone", @)]
              /\ blind' = IF o # "refused" /\ req[r].vapi # n THEN blind \cup {n} ELSE blind
              /\ Goto(r, IF o # "done" THEN Over(r)
                         ELSE IF req[r].canonical THEN "books" ELSE "clear")
    /\ UNCHANGED <<vapi, rows, tenant>>

(* mark_released: the canonical row by compare-and-swap, and only then the
   tenant's pointers, while they still name this number. *)
MarkReleased(r) ==
    LET n == req[r].num IN
    /\ At(r, "books")
    /\ \E o \in Outcomes :
          /\ Call(o)
          /\ rows' = IF n \in Current THEN [rows EXCEPT ![n] = Took(o, "released", @)] ELSE rows
          /\ Goto(r, IF o = "done" /\ rows[n] # "none" THEN "clear" ELSE Over(r))
    /\ UNCHANGED <<twilio, vapi, tenant, blind>>

Cleared == [tenant EXCEPT !.number = Nil, !.vapi = Nil, !.stamped = TRUE]
(* Seeded fault: the pointers are cleared whatever they name. *)
ClearTenantUnfenced(r) ==
    /\ At(r, "clear")
    /\ \E o \in Outcomes : Call(o) /\ tenant' = Took(o, Cleared, tenant)
    /\ Goto(r, Over(r))
    /\ UNCHANGED <<twilio, vapi, rows, blind>>
ClearTenant(r) ==
    /\ At(r, "clear")
    /\ \E o \in Outcomes :
          /\ Call(o)
          /\ tenant' = IF tenant.number = req[r].num THEN Took(o, Cleared, tenant) ELSE tenant
    /\ Goto(r, Over(r))
    /\ UNCHANGED <<twilio, vapi, rows, blind>>

(* The purge drops the row, and the canonical rows with it, in any case. *)
DropTenant(r) ==
    /\ At(r, "drop")
    /\ \E o \in Outcomes :
          /\ Call(o)
          /\ tenant' = Took(o, Dropped, tenant)
          /\ rows' = Took(o, [n \in Numbers |-> "none"], rows)
    /\ Goto(r, "idle")
    /\ UNCHANGED <<twilio, vapi, blind>>

-----------------------------------------------------------------------------
(* Getting a number.  A signup resumes any tenant whose onboarding is open; a
   reprovision wants a tenant without a number that has been set up before. *)
Begin(b) ==
    /\ At(b, "idle") /\ tenant.here
    /\ \/ b \in Signups /\ tenant.open
       \/ b \in Reprovisions /\ tenant.number = Nil /\ tenant.acct # Nil
    /\ req' = [req EXCEPT ![b].pc   = IF b \in Signups THEN "buy" ELSE "preflight",
                          ![b].acct = IF b \in Signups THEN b ELSE tenant.acct]
    /\ UNCHANGED <<twilio, vapi, rows, tenant, blind, faults>>

Preflight(b) ==
    /\ At(b, "preflight")
    /\ \E o \in {"done", "refused"} :
          Call(o) /\ Goto(b, IF o = "done" /\ Current = {} THEN "buy" ELSE "idle")
    /\ UNCHANGED <<twilio, vapi, rows, tenant, blind>>

Free == {n \in Numbers : twilio[n] = "free"}
(* Numbers not bought yet are alike: which one Twilio offers makes no difference.
   A signup whose purchase fails closes its sub-account, and what is in it. *)
Buy(b) ==
    LET n == CHOOSE m \in Free : TRUE IN
    /\ At(b, "buy") /\ Free # {}
    /\ \E o \in IF b \in Signups THEN {"done", "refused"} ELSE Outcomes :
          /\ Call(o)
          /\ twilio' = [twilio EXCEPT ![n] = Took(o, req[b].acct, @)]
          /\ IF o = "done" THEN req' = [req EXCEPT ![b].pc = "import", ![b].num = n]
                           ELSE Goto(b, "idle")
    /\ UNCHANGED <<vapi, rows, tenant, blind>>

Import(b) ==
    /\ At(b, "import")
    /\ \E o \in Outcomes :
          /\ Call(o) /\ vapi' = Took(o, vapi \cup {req[b].num}, vapi)
          /\ Goto(b, IF o # "done" THEN "undo" ELSE IF b \in Signups THEN "name" ELSE "register")
    /\ UNCHANGED <<twilio, rows, tenant, blind>>

(* Step 12 of a signup names its sub-account and Vapi record on the tenant,
   before it is known whether the tenant may have the number. *)
NameTenant(b) ==
    /\ At(b, "name")
    /\ \E o \in Outcomes :
          /\ Call(o)
          /\ tenant' = IF tenant.here
                       THEN Took(o, [tenant EXCEPT !.acct = b, !.vapi = req[b].num], tenant)
                       ELSE tenant
          /\ Goto(b, IF o = "done" THEN "register" ELSE "undo")
    /\ UNCHANGED <<twilio, vapi, rows, blind>>

(* A conflict that is read is refused, and the number handed back; one that only
   the index finds raises. *)
Register(b) ==
    /\ At(b, "register")
    /\ \E o \in {"done", "refused"} :
          /\ Call(o)
          /\ Goto(b, IF o = "refused" THEN Raised(b) ELSE IF Current # {} THEN "undo" ELSE "insert")
    /\ UNCHANGED <<twilio, vapi, rows, tenant, blind>>

Insert(b) ==
    /\ At(b, "insert")
    /\ \E o \in Outcomes :
          LET fits == Current = {} /\ tenant.here IN
          /\ Call(o)
          /\ rows' = IF fits THEN [rows EXCEPT ![req[b].num] = Took(o, "provisioning", @)] ELSE rows
          /\ Goto(b, IF o = "done" /\ fits THEN "activate" ELSE Raised(b))
    /\ UNCHANGED <<twilio, vapi, tenant, blind>>

Activate(b) ==
    LET n == req[b].num IN
    /\ At(b, "activate")
    /\ \E o \in Outcomes :
          /\ Call(o)
          /\ rows' = IF rows[n] # "none" THEN [rows EXCEPT ![n] = Took(o, "active", @)] ELSE rows
          /\ Goto(b, IF o = "done" THEN "mirror" ELSE Raised(b))
    /\ UNCHANGED <<twilio, vapi, tenant, blind>>

Write(o, row) == tenant' = IF tenant.here THEN Took(o, row, tenant) ELSE tenant

Mirror(b) ==
    /\ At(b, "mirror")
    /\ \E o \in Outcomes :
          /\ Call(o) /\ Write(o, [tenant EXCEPT !.number = req[b].num])
          /\ Goto(b, IF o = "done" THEN "finish" ELSE Raised(b))
    /\ UNCHANGED <<twilio, vapi, rows, blind>>

(* A reprovision names its Vapi record last and clears the reclaim history; a
   signup marks the onboarding over, and goes live even if that fails. *)
Finish(b) ==
    /\ At(b, "finish")
    /\ \E o \in Outcomes :
          /\ Call(o)
          /\ Write(o, IF b \in Signups THEN [tenant EXCEPT !.open = FALSE]
                      ELSE [tenant EXCEPT !.vapi = req[b].num, !.stamped = FALSE])
    /\ Goto(b, "idle")
    /\ UNCHANGED <<twilio, vapi, rows, blind>>

(* The number is handed back to Twilio; nobody deletes its Vapi record.  A signup
   also retires the canonical row, once Twilio has confirmed. *)
Undo(b) ==
    LET n == req[b].num IN
    /\ At(b, "undo")
    /\ IF twilio[n] # req[b].acct
       THEN Goto(b, "idle") /\ UNCHANGED <<twilio, blind, faults>>
       ELSE \E o \in Outcomes :
              /\ Call(o)
              /\ twilio' = [twilio EXCEPT ![n] = Took(o, "gone", @)]
              /\ blind' = Took(o, blind \cup {n}, blind)
              /\ Goto(b, IF o = "done" /\ b \in Signups /\ n \in Current THEN "books" ELSE "idle")
    /\ UNCHANGED <<vapi, rows, tenant>>

-----------------------------------------------------------------------------
(* The subscription lapses past its grace period, or is taken up again. *)
Customer ==
    /\ tenant.here /\ Sweeps # {}
    /\ tenant' = [tenant EXCEPT !.paying = ~@]
    /\ UNCHANGED <<twilio, vapi, rows, req, blind, faults>>

(* Somebody brings the books into line with a number Twilio no longer has. *)
Reconcile ==
    /\ \E n \in Numbers :
          /\ twilio[n] = "gone" /\ (n \in Current \/ tenant.number = n)
          /\ rows' = IF n \in Current THEN [rows EXCEPT ![n] = "released"] ELSE rows
          /\ tenant' = IF tenant.number = n THEN Cleared ELSE tenant
    /\ UNCHANGED <<twilio, vapi, req, blind, faults>>

(* The process stops. *)
Stop(r) ==
    /\ ~At(r, "idle") /\ Call("refused") /\ Goto(r, "idle")
    /\ UNCHANGED <<twilio, vapi, rows, tenant, blind>>

Release(r) == LookUp(r) \/ DeleteVapi(r) \/ ReleaseTwilio(r) \/ MarkReleased(r) \/ ClearTenant(r)
Provision(b) == \/ Preflight(b) \/ Buy(b) \/ Import(b) \/ NameTenant(b) \/ Register(b)
                \/ Insert(b) \/ Activate(b) \/ Mirror(b) \/ Finish(b) \/ Undo(b)

Next == \/ \E r \in Releasers : ReadTenant(r) \/ DropTenant(r)
        \/ \E b \in Buyers : Begin(b) \/ Provision(b)
        \/ \E r \in Requests : Release(r) \/ Stop(r)
        \/ Customer \/ Reconcile

Spec == Init /\ [][Next]_vars
(* The sweep runs every day, to its end unless the process stops.  Nothing else
   is assumed to run. *)
FairSpec == Spec /\ \A r \in Sweeps : WF_vars(ReadTenant(r) \/ Release(r))

-----------------------------------------------------------------------------
Statuses == RELEASABLE_STATUSES \cup {"none", "released"}
Pcs == {"idle", "lookup", "vapi", "twilio", "books", "clear", "drop", "preflight", "buy", "import",
        "name", "register", "insert", "activate", "mirror", "finish", "undo"}
Records == [pc : Pcs, num : Numbers \cup {Nil}, vapi : Numbers \cup {Nil},
            acct : Accounts \cup {Nil}, canonical : BOOLEAN]
Tenants == [here : BOOLEAN, number : Numbers \cup {Nil}, vapi : Numbers \cup {Nil},
            acct : Accounts \cup {Nil}, open : BOOLEAN, stamped : BOOLEAN, paying : BOOLEAN]
(* Every variable keeps its type, and a tenant has at most one live permanent
   row, what the index tpn_one_current_permanent promises. *)
TypeOK == /\ twilio \in [Numbers -> Accounts \cup {"free", "gone"}]
          /\ vapi \subseteq Numbers /\ blind \subseteq Numbers
          /\ rows \in [Numbers -> Statuses]
          /\ tenant \in Tenants /\ req \in [Requests -> Records] /\ faults \in Nat
          /\ \A m, n \in Current : m = n

(* release_tenant_number detaches Vapi first, so that Vapi never points at a
   number Twilio may have handed to somebody else.  It holds for every number
   given back by a request that was looking at its Vapi record; a rollback and a
   row that does not name the record yet are the exceptions, both findings. *)
VapiFirst == \A n \in vapi : twilio[n] = "gone" => n \in blind

(* Nothing leaves the books, the canonical row or the tenant's pointer, while
   Twilio still has it: what rings stays linked, whatever a stalled release
   wakes up to, and what is billed can be found.  The purge is the exception. *)
BooksFollowTwilio ==
    [][tenant'.here => \A n \in Numbers :
          (n \in Current /\ n \notin Current') \/ (tenant.number = n /\ tenant'.number # n)
             => twilio'[n] = "gone"]_vars

(* A number that is due and can be reached with the tenant's credentials is given
   back, whatever failed on earlier days, unless the tenant returns. *)
Reclaimed ==
    \A n \in Numbers :
        (Due /\ tenant.number = n /\ twilio[n] = tenant.acct)
            ~> (~Due \/ tenant.number # n \/ twilio[n] # tenant.acct)
=============================================================================
