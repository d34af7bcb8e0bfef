--------------------------- MODULE ProviderClaims ---------------------------
(* Creating a regulatory resource at Twilio at most once for one scope
   (services/regulatory_engine.py, db/regulatory.py, migrations 027 and 030).

   Twilio deduplicates nothing, so a request first takes a claim, a row unique
   for its scope, then asks Twilio for resources that carry the claim's marker,
   adopts one if there is one, and creates only while it holds the claim's
   lease.  A claim without a resource may be taken over once its lease lapses
   or its last attempt was refused; a resource Twilio says is gone is detached.

   `kind` is what the scope is for: an address (whose own row is the claim),
   an end_user, a document, a bundle not yet filed, a Bundle filed under a
   claim, or one filed before there were claims (filed_before).  The column a
   profile or address row keeps beside the claim is `col`; a row older than the
   claims may name a resource, Old, that carries no marker.

   Bounds: one create per Sid; MaxVanished resources deleted at Twilio by hand;
   MaxFaults answers Twilio does not give (to a fetch or a list, an error other
   than a 404 counts as none), requests that stop, and leases that lapse while
   their holder is still at work.  Refusing a create is an answer, and free.   *)
EXTENDS Naturals, FiniteSets

CONSTANTS Requests, Sids, Old, Nil, Kinds, MaxFaults, MaxVanished

ASSUME OldAssumption  == Old \notin Sids /\ Nil \notin Sids \cup {Old}
ASSUME KindAssumption == Kinds \subseteq {"address", "end_user", "document",
                                             "bundle", "filed", "filed_before"}

VARIABLES kind, claim, col, res, req, faults, vanished
vars == <<kind, claim, col, res, req, faults, vanished>>

Resources == Sids \cup {Old}
Answers == {"none", "ok", "unavailable", "in_progress", "refused", "conflict", "human"}
Fresh == [pc |-> "idle", own |-> FALSE, retired |-> FALSE, seed |-> Nil, sid |-> Nil,
          found |-> {}, answer |-> "none", alone |-> FALSE]

Filed == {"filed", "filed_before"}
Bundles == Filed \cup {"bundle"}
Init == /\ kind \in Kinds
        /\ col \in CASE kind = "address" -> {Nil} [] kind \in Filed -> {Old} [] OTHER -> {Nil, Old}
        /\ claim = [made |-> kind = "filed", sid |-> IF kind = "filed" THEN Old ELSE Nil,
                    failed |-> FALSE, fresh |-> FALSE]
        /\ res = [s \in Resources |-> IF s = col THEN "live" ELSE "none"]
        /\ req = [r \in Requests |-> Fresh]
        /\ faults = 0 /\ vanished = 0

(* Twilio's resources that carry the claim's marker. *)
Marked == {s \in Resources : res[s] = "live" /\ (s = Old => kind = "filed")}
MayRetire == kind \notin Filed \cup {"address"}

At(r, pc) == req[r].pc = pc
Goto(r, pc) == req' = [req EXCEPT ![r].pc = pc]
End(r, pc, answer, sid) ==
    req' = [req EXCEPT ![r] = [Fresh EXCEPT !.pc = pc, !.answer = answer, !.sid = sid,
                                            !.alone = req[r].alone]]
Answer(r, answer) == End(r, "done", answer, Nil)
(* A resource in hand: an address's row already names it; the other callers
   still bring their own column into line, a Bundle's after another fetch, and
   are told whether the resource it named was proved gone. *)
InHand(r, sid, retired) ==
    IF kind = "address" THEN End(r, "done", "ok", sid)
    ELSE req' = [req EXCEPT ![r] = [Fresh EXCEPT !.pc = IF kind \in Bundles THEN "refetch" ELSE "column",
                                        !.sid = sid, !.retired = retired,
                                        !.seed = req[r].seed, !.alone = req[r].alone]]
Resolved(r, sid) == InHand(r, sid, req[r].retired)
Fault == faults < MaxFaults /\ faults' = faults + 1

(* Nobody else is under way, and no lease has to be waited out. *)
Resting(r) == req[r].pc \in {"idle", "done"}
Open == claim.sid # Nil \/ claim.failed \/ ~claim.fresh
Alone(r) == Open /\ \A q \in Requests \ {r} : Resting(q)

Start(r) ==
    /\ At(r, "idle")
    /\ req' = [q \in Requests |->
                  IF q = r THEN [Fresh EXCEPT !.pc = "find", !.seed = col, !.alone = Alone(r)]
                           ELSE [req[q] EXCEPT !.alone = FALSE]]
    /\ UNCHANGED <<kind, claim, col, res, faults, vanished>>

Find(r) ==
    /\ At(r, "find")
    /\ req' = [req EXCEPT ![r].pc = IF ~claim.made THEN "insert"
                                    ELSE IF claim.sid # Nil THEN "verify" ELSE "lookup",
                          ![r].sid = claim.sid]
    /\ UNCHANGED <<kind, claim, col, res, faults, vanished>>

(* The unique index decides who made the claim; the loser never creates. *)
Insert(r) ==
    /\ At(r, "insert")
    /\ IF claim.made
       THEN Goto(r, "wait") /\ UNCHANGED claim
       ELSE /\ claim' = [claim EXCEPT !.made = TRUE, !.fresh = TRUE]
            /\ req' = [req EXCEPT ![r].pc = "lookup", ![r].own = TRUE]
    /\ UNCHANGED <<kind, col, res, faults, vanished>>

(* A few short waits; an address that appears is fetched before it is answered. *)
Wait(r) ==
    /\ At(r, "wait")
    /\ IF claim.sid # Nil
       THEN IF kind = "address"
            THEN req' = [req EXCEPT ![r].pc = "verify", ![r].sid = claim.sid]
            ELSE Resolved(r, claim.sid)
       ELSE Answer(r, IF claim.failed THEN "refused" ELSE "in_progress")
    /\ UNCHANGED <<kind, claim, col, res, faults, vanished>>

(* An attached resource is fetched; only a 404 says it is gone, and that opens
   the way to a replacement only where recreating rewrites no filing. *)
Verify(r) ==
    /\ At(r, "verify")
    /\ \/ res[req[r].sid] = "live" /\ Resolved(r, req[r].sid)
       \/ /\ res[req[r].sid] # "live" /\ MayRetire
          /\ req' = [req EXCEPT ![r].pc = "retire", ![r].retired = TRUE]
       \/ res[req[r].sid] # "live" /\ kind \in Filed   /\ Answer(r, "human")
       \/ res[req[r].sid] # "live" /\ kind = "address" /\ Answer(r, "unavailable")
    /\ UNCHANGED <<kind, claim, col, res, faults, vanished>>

(* Seeded fault: the claim is detached whatever it names by now. *)
RetireAnyway(r) ==
    /\ At(r, "retire")
    /\ claim' = [claim EXCEPT !.sid = Nil, !.fresh = TRUE, !.failed = FALSE]
    /\ req' = [req EXCEPT ![r].pc = "lookup", ![r].own = TRUE, ![r].sid = Nil]
    /\ UNCHANGED <<kind, col, res, faults, vanished>>
Retire(r) ==
    /\ At(r, "retire")
    /\ IF claim.sid = req[r].sid
       THEN /\ claim' = [claim EXCEPT !.sid = Nil, !.fresh = TRUE, !.failed = FALSE]
            /\ req' = [req EXCEPT ![r].pc = "lookup", ![r].own = TRUE, ![r].sid = Nil]
       ELSE Goto(r, "reread") /\ UNCHANGED claim
    /\ UNCHANGED <<kind, col, res, faults, vanished>>

Reread(r) ==
    /\ At(r, "reread")
    /\ IF claim.sid # Nil THEN Resolved(r, claim.sid) ELSE Answer(r, "in_progress")
    /\ UNCHANGED <<kind, claim, col, res, faults, vanished>>

(* What carries the marker is adopted.  Two addresses are interchangeable; two
   of anything else are a conflict for a person. *)
Adopt(r, found) ==
    IF Cardinality(found) > 1 /\ kind # "address"
    THEN Answer(r, "conflict")
    ELSE req' = [req EXCEPT ![r].pc = "attach", ![r].found = found]

Lookup(r) ==
    /\ At(r, "lookup")
    /\ IF Marked # {} THEN Adopt(r, Marked)
       ELSE Goto(r, IF ~req[r].own THEN "take"
                    ELSE IF req[r].seed # Nil THEN "seed" ELSE "create")
    /\ UNCHANGED <<kind, claim, col, res, faults, vanished>>

(* Two statements: a claim whose last attempt was refused, then one whose lease
   has lapsed.  Neither touches a claim that names a resource. *)
Takes(r) ==
    /\ claim' = [claim EXCEPT !.fresh = TRUE, !.failed = FALSE]
    /\ req' = [req EXCEPT ![r].pc = IF req[r].seed # Nil THEN "seed" ELSE "create",
                          ![r].own = TRUE]
Take(r) ==
    /\ At(r, "take")
    /\ IF claim.sid = Nil /\ claim.failed THEN Takes(r) ELSE Goto(r, "take_stale") /\ UNCHANGED claim
    /\ UNCHANGED <<kind, col, res, faults, vanished>>
(* Seeded fault: a lease is taken while its holder is still at work. *)
TakeFresh(r) ==
    /\ At(r, "take_stale")
    /\ IF claim.sid = Nil /\ ~claim.failed THEN Takes(r) ELSE Goto(r, "wait") /\ UNCHANGED claim
    /\ UNCHANGED <<kind, col, res, faults, vanished>>
TakeStale(r) ==
    /\ At(r, "take_stale")
    /\ IF claim.sid = Nil /\ ~claim.failed /\ ~claim.fresh
       THEN Takes(r) ELSE Goto(r, "wait") /\ UNCHANGED claim
    /\ UNCHANGED <<kind, col, res, faults, vanished>>

(* The resource an older row names is adopted, if Twilio has it. *)
Seed(r) ==
    /\ At(r, "seed")
    /\ Goto(r, IF res[req[r].seed] = "live" THEN "attach_seed" ELSE "create")
    /\ UNCHANGED <<kind, claim, col, res, faults, vanished>>
AttachSeed(r) ==
    /\ At(r, "attach_seed")
    /\ IF claim.sid = Nil
       THEN claim' = [claim EXCEPT !.sid = req[r].seed, !.failed = FALSE] /\ Resolved(r, req[r].seed)
       ELSE Goto(r, "follow_seed") /\ UNCHANGED claim
    /\ UNCHANGED <<kind, col, res, faults, vanished>>
FollowSeed(r) ==
    /\ At(r, "follow_seed")
    /\ IF claim.sid # Nil
       THEN InHand(r, claim.sid, FALSE) ELSE Goto(r, "create")
    /\ UNCHANGED <<kind, claim, col, res, faults, vanished>>

Create(r) ==
    /\ At(r, "create")
    /\ \E s \in Sids :
         /\ res[s] = "none"
         /\ res' = [res EXCEPT ![s] = "live"]
         /\ req' = [req EXCEPT ![r].pc = "attach", ![r].found = {s}]
    /\ UNCHANGED <<kind, claim, col, faults, vanished>>
(* The answer is lost: the resource exists, never will, or will later. *)
CreateUnanswered(r) ==
    /\ At(r, "create")
    /\ Fault
    /\ \E s \in Sids, landed \in {"none", "live", "sent"} :
         res[s] = "none" /\ res' = [res EXCEPT ![s] = landed]
    /\ req' = [req EXCEPT ![r].pc = "again", ![r].alone = FALSE]
    /\ UNCHANGED <<kind, claim, col, vanished>>
Land(s) == /\ res[s] = "sent" /\ res' = [res EXCEPT ![s] = "live"]
           /\ UNCHANGED <<kind, claim, col, req, faults, vanished>>
(* A refusal: one code is a verdict, any other is treated as no answer at all. *)
CreateRefused(r) == At(r, "create") /\ (Goto(r, "refused") \/ Goto(r, "again"))
                    /\ UNCHANGED <<kind, claim, col, res, faults, vanished>>
RecordFailure(r) ==
    /\ At(r, "refused")
    /\ claim' = IF claim.sid = Nil THEN [claim EXCEPT !.failed = TRUE] ELSE claim
    /\ Answer(r, "refused")
    /\ UNCHANGED <<kind, col, res, faults, vanished>>

(* What may have been created is looked for; if nothing is there the lease is
   given up, so that the next request need not wait it out. *)
Again(r) ==
    /\ At(r, "again")
    /\ IF Marked # {} THEN Adopt(r, Marked) ELSE Goto(r, "release")
    /\ UNCHANGED <<kind, claim, col, res, faults, vanished>>
(* Seeded fault: the request leaves and its lease runs on. *)
ReleaseNothing(r) ==
    /\ At(r, "release")
    /\ Answer(r, "unavailable")
    /\ UNCHANGED <<kind, claim, col, res, faults, vanished>>
Release(r) ==
    /\ At(r, "release")
    /\ claim' = IF claim.sid = Nil THEN [claim EXCEPT !.fresh = FALSE] ELSE claim
    /\ Answer(r, "unavailable")
    /\ UNCHANGED <<kind, col, res, faults, vanished>>

(* Seeded fault: the answer that came back is attached over the winner's. *)
AttachOver(r) ==
    /\ At(r, "attach")
    /\ \E s \in req[r].found : /\ claim' = [claim EXCEPT !.sid = s, !.failed = FALSE]
                               /\ Resolved(r, s)
    /\ UNCHANGED <<kind, col, res, faults, vanished>>
(* The fenced write: only while the claim names nothing.  Of several addresses
   the one attached is kept and the rest are withdrawn. *)
Attach(r) ==
    /\ At(r, "attach")
    /\ \E s \in req[r].found :
         IF claim.sid # Nil
         THEN req' = [req EXCEPT ![r].pc = "lost", ![r].sid = s] /\ UNCHANGED claim
         ELSE /\ claim' = [claim EXCEPT !.sid = s, !.failed = FALSE]
              /\ IF req[r].found = {s} THEN Resolved(r, s)
                 ELSE req' = [req EXCEPT ![r].pc = "discard", ![r].sid = s, ![r].found = @ \ {s}]
    /\ UNCHANGED <<kind, col, res, faults, vanished>>

(* Seeded fault: the loser withdraws every candidate, the winner's too. *)
LostAll(r) ==
    /\ At(r, "lost")
    /\ req' = [req EXCEPT ![r].pc = "withdraw", ![r].sid = claim.sid,
                          ![r].found = @ \cup {req[r].sid}]
    /\ UNCHANGED <<kind, claim, col, res, faults, vanished>>
(* The loser follows the winner and withdraws what it brought. *)
Lost(r) ==
    /\ At(r, "lost")
    /\ LET own == (IF kind = "address" THEN req[r].found ELSE {req[r].sid}) \ {claim.sid}
       IN IF claim.sid = Nil THEN Answer(r, "in_progress")
          ELSE IF own # {}
          THEN req' = [req EXCEPT ![r].pc = "withdraw", ![r].sid = claim.sid, ![r].found = own]
          ELSE IF kind = "address" THEN req' = [req EXCEPT ![r].pc = "verify", ![r].sid = claim.sid]
          ELSE Resolved(r, claim.sid)
    /\ UNCHANGED <<kind, claim, col, res, faults, vanished>>

(* One deletion; one that fails leaves the resource where it is. *)
Withdraw(r) ==
    /\ req[r].pc \in {"discard", "withdraw"}
    /\ \E s \in req[r].found :
         /\ \/ res' = [res EXCEPT ![s] = "gone"] /\ UNCHANGED faults
            \/ Fault /\ UNCHANGED res
         /\ IF req[r].found # {s} THEN req' = [req EXCEPT ![r].found = @ \ {s}]
            ELSE IF At(r, "withdraw") /\ kind = "address"
            THEN req' = [req EXCEPT ![r].pc = "verify", ![r].found = {}]
            ELSE Resolved(r, req[r].sid)
    /\ UNCHANGED <<kind, claim, col, vanished>>

(* A Bundle is fetched once more for its status; one that is gone by now, a 404
   like any other error, ends the request. *)
Refetch(r) ==
    /\ At(r, "refetch")
    /\ IF res[req[r].sid] = "live" THEN Goto(r, "column") ELSE Answer(r, "unavailable")
    /\ UNCHANGED <<kind, claim, col, res, faults, vanished>>

(* The column follows the claim; two references that disagree, neither proved
   gone, are a conflict, except for a document, whose column is overwritten. *)
Column(r) ==
    /\ At(r, "column")
    /\ IF req[r].seed \notin {Nil, req[r].sid} /\ ~req[r].retired /\ kind # "document"
       THEN Answer(r, "conflict") /\ UNCHANGED col
       ELSE End(r, "done", "ok", req[r].sid) /\ col' = req[r].sid
    /\ UNCHANGED <<kind, claim, res, faults, vanished>>

(* Twilio does not answer: nothing is cleared and nothing is created, and only a
   request that tried to create gives its lease up. *)
Unavailable(r) ==
    /\ req[r].pc \in {"verify", "lookup", "seed", "again", "refetch"}
    /\ Fault
    /\ IF At(r, "again") THEN Goto(r, "release")
       ELSE req' = [req EXCEPT ![r] = [Fresh EXCEPT !.pc = "done", !.answer = "unavailable"]]
    /\ UNCHANGED <<kind, claim, col, res, vanished>>
(* The request stops: its process does, or a statement raises, landed or not. *)
Stop(r) ==
    /\ ~Resting(r)
    /\ Fault
    /\ req' = [req EXCEPT ![r] = [Fresh EXCEPT !.pc = "done"]]
    /\ UNCHANGED <<kind, claim, col, res, vanished>>

(* CLAIM_STALE_SECONDS pass. *)
Lapse ==
    /\ claim.fresh
    /\ claim' = [claim EXCEPT !.fresh = FALSE]
    /\ \/ (\A r \in Requests : ~req[r].own) /\ UNCHANGED faults
       \/ (\E r \in Requests : req[r].own) /\ Fault
    /\ UNCHANGED <<kind, col, res, req, vanished>>
Vanish(s) ==
    /\ res[s] = "live" /\ vanished < MaxVanished
    /\ res' = [res EXCEPT ![s] = "gone"] /\ vanished' = vanished + 1
    /\ UNCHANGED <<kind, claim, col, req, faults>>

Step(r) == \/ Start(r) \/ Find(r) \/ Insert(r) \/ Wait(r) \/ Verify(r) \/ Retire(r) \/ Reread(r)
           \/ Lookup(r) \/ Take(r) \/ TakeStale(r) \/ Seed(r) \/ AttachSeed(r) \/ FollowSeed(r)
           \/ Create(r) \/ CreateUnanswered(r) \/ CreateRefused(r) \/ RecordFailure(r)
           \/ Again(r) \/ Release(r) \/ Attach(r) \/ Lost(r) \/ Withdraw(r) \/ Refetch(r) \/ Column(r)
           \/ Unavailable(r) \/ Stop(r)
Next == (\E r \in Requests : Step(r)) \/ (\E s \in Resources : Land(s) \/ Vanish(s)) \/ Lapse
Spec == Init /\ [][Next]_vars

-----------------------------------------------------------------------------
(* Types, and that only a claim that was made names a resource. *)
Pcs == {"idle", "find", "insert", "wait", "verify", "retire", "reread", "lookup", "take",
        "take_stale", "seed", "attach_seed", "follow_seed", "create", "refused", "again",
        "release", "attach", "lost", "discard", "withdraw", "refetch", "column", "done"}
Claim == [made : BOOLEAN, sid : Resources \cup {Nil}, failed : BOOLEAN, fresh : BOOLEAN]
Request == [pc : Pcs, own : BOOLEAN, retired : BOOLEAN, seed : Resources \cup {Nil},
            sid : Resources \cup {Nil}, found : SUBSET Resources,
            answer : Answers, alone : BOOLEAN]
TypeOK ==
    /\ kind \in Kinds /\ col \in Resources \cup {Nil} /\ faults \in Nat /\ vanished \in Nat
    /\ claim \in Claim /\ (claim.sid # Nil => claim.made)
    /\ res \in [Resources -> {"none", "sent", "live", "gone"}]
    /\ req \in [Requests -> Request]

(* A claim lets go of a resource only once Twilio has lost it: a 404 for an
   earlier one never detaches the one attached since. *)
RetiredIsGone == [][claim.sid # Nil /\ claim'.sid # claim.sid => res[claim.sid] = "gone"]_vars

(* Two requests are never given two identities that both exist. *)
Given(r) == At(r, "done") /\ req[r].answer = "ok"
OneIdentity == \A r, q \in Requests :
    Given(r) /\ Given(q) /\ req[r].sid # req[q].sid => "gone" \in {res[req[r].sid], res[req[q].sid]}

(* What the claim names is never withdrawn: the loser of a race takes away only
   its own resource.  (Once somebody deletes the winner's resource by hand, what a
   loser is about to remove may have been adopted since: README, Findings.) *)
WinnerIsKept == [][\A s \in Resources :
    vanished = 0 /\ res[s] = "live" /\ res'[s] = "gone" /\ vanished' = vanished
      => s # claim.sid]_vars

(* While every answer arrives, no request stops and nobody deletes by hand, one
   claim has one resource: nobody creates while another may be creating. *)
NoDuplicate == faults = 0 /\ vanished = 0 => Cardinality(Marked) <= 1

(* No scope is poisoned.  A request that has it to itself, with no lease to wait
   out and no fetch or list left unanswered, is never told that somebody else is
   creating; told ok, its resource is the one the claim and the column name; and
   whatever it is told, Twilio's refusals included, the next request finds no
   lease to wait out either, unless a person must first choose between two. *)
NoScopeIsPoisoned == \A r \in Requests :
    At(r, "done") /\ req[r].alone
      => /\ req[r].answer # "in_progress"
         /\ req[r].answer = "ok" => claim.sid = req[r].sid /\ (kind = "address" \/ col = claim.sid)
         /\ Open \/ req[r].answer = "conflict"
=============================================================================
