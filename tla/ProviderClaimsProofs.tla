------------------------ MODULE ProviderClaimsProofs ------------------------
(* A claim lets go of a resource only when Twilio has lost it, and two requests
   are never given two identities that both exist: for any requests, resources,
   kind of scope, lost answers, lapsed leases and deletions by hand.

   The argument: being gone is for ever, every resource a request has in hand is
   the one the claim names or is gone, and a request that is about to detach a
   resource has seen that very resource gone.                                *)
EXTENDS ProviderClaims, FiniteSetTheorems, TLAPS

-----------------------------------------------------------------------------
(* The inductive invariant                                                   *)

\* Twilio has, or had, the resource.
Exists(s) == res[s] \in {"live", "gone"}

Holding == {"verify", "retire", "withdraw", "discard", "refetch", "column"}

\* What a request has in hand exists, and is the claim's, or is gone; only a
\* request that lost the claim still names its own.
ReqOK(r) ==
    /\ req[r].sid # Nil => Exists(req[r].sid)
    /\ \A s \in req[r].found : Exists(s)
    /\ req[r].pc \in Holding \cup {"lost"} => req[r].sid # Nil
    /\ req[r].pc \in {"seed", "attach_seed"} => req[r].seed # Nil
    /\ req[r].pc = "attach_seed" => Exists(req[r].seed)
    /\ req[r].pc = "retire" => res[req[r].sid] = "gone"
    /\ req[r].answer = "ok" => req[r].pc = "done" /\ req[r].sid # Nil
    /\ req[r].pc # "lost" /\ req[r].sid # Nil =>
           req[r].sid = claim.sid \/ res[req[r].sid] = "gone"
    /\ req[r].pc \notin {"idle", "find", "insert", "done"} => claim.made

ClaimOK == claim.sid # Nil => Exists(claim.sid)

IInv == TypeOK /\ ClaimOK /\ \A r \in Requests : ReqOK(r)

\* What every step keeps: resources that exist go on existing or are gone for
\* good, and the claim lets go only of what is gone.
Kept ==
    /\ \A s \in Resources : (Exists(s) => Exists(s)') /\ (res[s] = "gone" => res'[s] = "gone")
    /\ claim.made => claim'.made
    /\ claim.sid # Nil /\ claim'.sid # claim.sid => res[claim.sid] = "gone"

\* A request the step was not about is where it was.
Same(q) ==
    /\ req'[q].pc = req[q].pc /\ req'[q].sid = req[q].sid /\ req'[q].found = req[q].found
    /\ req'[q].seed = req[q].seed /\ req'[q].answer = req[q].answer

-----------------------------------------------------------------------------
LEMMA InitIInv == Init => IInv
<1> SUFFICES ASSUME Init PROVE IInv
    OBVIOUS
<1>1. Fresh \in Request
    BY DEF Fresh, Request, Pcs, Answers
<1>2. TypeOK
    BY <1>1, KindAssumption, OldAssumption DEF Init, TypeOK, Claim, Resources, Filed
<1>3. ClaimOK
    BY <1>2, OldAssumption DEF Init, ClaimOK, Exists, Resources, Filed
<1>4. \A r \in Requests : ReqOK(r)
    BY DEF Init, ReqOK, Fresh, Holding
<1> QED BY <1>2, <1>3, <1>4 DEF IInv

\* A request the step was not about stays right.
LEMMA OthersKept ==
    ASSUME IInv, Kept, NEW q \in Requests, Same(q)
    PROVE  ReqOK(q)'
<1> USE DEF IInv
<1>1. ReqOK(q) /\ req[q] \in Request /\ claim \in Claim
    BY DEF TypeOK
<1>2. req[q].found \subseteq Resources /\ req[q].sid \in Resources \cup {Nil}
      /\ req[q].seed \in Resources \cup {Nil}
    BY <1>1 DEF Request
<1> QED BY <1>1, <1>2 DEF Kept, Same, ReqOK, Exists, Holding

LEMMA Frame ==
    ASSUME IInv, Kept, TypeOK', ClaimOK', NEW r \in Requests, ReqOK(r)',
           \A q \in Requests \ {r} : Same(q)
    PROVE  IInv'
BY OthersKept DEF IInv

\* Steps of the outside world.
LEMMA WorldKeepsIInv ==
    ASSUME IInv, Lapse \/ (\E s \in Resources : Land(s) \/ Vanish(s))
    PROVE  Kept /\ IInv'
<1> USE DEF IInv
<1>1. CASE Lapse
    <2>0. claim' = [claim EXCEPT !.fresh = FALSE] /\ claim \in Claim
        BY <1>1 DEF Lapse, TypeOK
    <2>1. claim' \in Claim /\ claim'.sid = claim.sid /\ claim'.made = claim.made
        BY <2>0 DEF Claim
    <2>4. faults' \in Nat
        BY <1>1 DEF Lapse, TypeOK, Fault
    <2>2. UNCHANGED <<kind, col, res, req, vanished>>
        BY <1>1 DEF Lapse
    <2>3. Kept /\ TypeOK' /\ ClaimOK' /\ \A q \in Requests : Same(q)
        BY <2>1, <2>2, <2>4 DEF Kept, TypeOK, ClaimOK, Exists, Same
    <2> QED BY <2>3, OthersKept
<1>2. ASSUME NEW s \in Resources, Land(s) \/ Vanish(s) PROVE Kept /\ IInv'
    <2>1. /\ res' \in [Resources -> {"none", "sent", "live", "gone"}] /\ vanished' \in Nat
          /\ \A t \in Resources : (Exists(t) => Exists(t)') /\ (res[t] = "gone" => res'[t] = "gone")
        BY <1>2 DEF Land, Vanish, TypeOK, Exists
    <2>2. UNCHANGED <<kind, col, claim, req, faults>>
        BY <1>2 DEF Land, Vanish
    <2>3. Kept /\ TypeOK' /\ \A q \in Requests : Same(q)
        BY <2>1, <2>2 DEF Kept, TypeOK, Same
    <2>4. ClaimOK'
        BY <2>1, <2>2 DEF ClaimOK, TypeOK, Claim, Resources
    <2> QED BY <2>3, <2>4, OthersKept
<1> QED BY <1>1, <1>2

-----------------------------------------------------------------------------
(* What a request does to its own state                                      *)

\* The request that steps ends up right, and no other is moved.
Actor(r) ==
    /\ req' \in [Requests -> Request]
    /\ ReqOK(r)'
    /\ \A q \in Requests \ {r} : Same(q)

LEMMA FreshOK == Fresh \in Request
BY DEF Fresh, Request, Pcs, Answers

\* A request that is answered with something else than a resource.
LEMMA AnswerActs ==
    ASSUME IInv, NEW r \in Requests, NEW answer \in Answers \ {"ok"}, Answer(r, answer)
    PROVE  Actor(r)
<1> DEFINE new == [Fresh EXCEPT !.pc = "done", !.answer = answer, !.sid = Nil, !.alone = req[r].alone]
<1>1. req' = [req EXCEPT ![r] = new]
    BY DEF Answer, End
<1>2. new \in Request
    BY DEF IInv, TypeOK, Request, Fresh, Pcs, Answers
<1>3. /\ new.pc = "done" /\ new.sid = Nil /\ new.found = {} /\ new.answer # "ok"
    BY DEF Fresh
<1> QED BY <1>1, <1>2, <1>3 DEF IInv, TypeOK, Actor, ReqOK, Same, Holding

\* A request that has the claim's resource, or one that is gone, in hand.
LEMMA InHandActs ==
    ASSUME IInv, NEW r \in Requests, NEW sid \in Resources, NEW retired \in BOOLEAN,
           InHand(r, sid, retired),
           Exists(sid)', sid = claim'.sid \/ res'[sid] = "gone", claim'.made
    PROVE  Actor(r)
<1>0. sid # Nil
    BY OldAssumption DEF Resources
<1>1. CASE kind = "address"
    <2> DEFINE new == [Fresh EXCEPT !.pc = "done", !.answer = "ok", !.sid = sid, !.alone = req[r].alone]
    <2>1. req' = [req EXCEPT ![r] = new]
        BY <1>1 DEF InHand, End
    <2>2. new \in Request /\ new.pc = "done" /\ new.sid = sid /\ new.found = {}
        BY DEF IInv, TypeOK, Request, Fresh, Pcs, Answers
    <2> HIDE DEF new
    <2>3. req'[r] = new
        BY <2>1 DEF IInv, TypeOK
    <2>4. ReqOK(r)'
        BY <1>0, <2>2, <2>3 DEF ReqOK, Exists, Holding
    <2> QED BY <2>1, <2>2, <2>4 DEF IInv, TypeOK, Actor, Same
<1>2. CASE kind # "address"
    <2> DEFINE pc == IF kind \in Bundles THEN "refetch" ELSE "column"
               new == [Fresh EXCEPT !.pc = pc, !.sid = sid, !.retired = retired,
                                    !.seed = req[r].seed, !.alone = req[r].alone]
    <2>1. req' = [req EXCEPT ![r] = new]
        BY <1>2 DEF InHand
    <2>2. new \in Request /\ new.pc \in {"refetch", "column"} /\ new.sid = sid /\ new.found = {} /\ new.answer = "none"
        BY DEF IInv, TypeOK, Request, Fresh, Pcs, Answers
    <2> HIDE DEF new
    <2>3. req'[r] = new
        BY <2>1 DEF IInv, TypeOK
    <2>4. ReqOK(r)'
        BY <1>0, <2>2, <2>3 DEF ReqOK, Exists, Holding
    <2> QED BY <2>1, <2>2, <2>4 DEF IInv, TypeOK, Actor, Same
<1> QED BY <1>1, <1>2

LEMMA ResolvedActs ==
    ASSUME IInv, NEW r \in Requests, NEW sid \in Resources, Resolved(r, sid),
           Exists(sid)', sid = claim'.sid \/ res'[sid] = "gone", claim'.made
    PROVE  Actor(r)
BY InHandActs DEF Resolved, IInv, TypeOK, Request

\* A request that only goes on to a step which asks nothing of what it holds.
LEMMA GotoActs ==
    ASSUME IInv, Kept, NEW r \in Requests, claim'.made, req[r].pc \notin {"lost", "done"},
           NEW pc \in Pcs \ (Holding \cup {"attach_seed", "lost"}), pc = "seed" => req[r].seed # Nil,
           Goto(r, pc)
    PROVE  Actor(r)
<1>1. req[r] \in Request /\ ReqOK(r)
    BY DEF IInv, TypeOK
<1>2. req'[r] = [req[r] EXCEPT !.pc = pc]
    BY DEF IInv, TypeOK, Goto
<1>3. req'[r] \in Request /\ req'[r].pc = pc /\ req'[r].sid = req[r].sid
      /\ req'[r].found = req[r].found /\ req'[r].answer = req[r].answer /\ req'[r].seed = req[r].seed
    BY <1>1, <1>2 DEF Request
<1>4. req[r].found \subseteq Resources /\ req[r].sid \in Resources \cup {Nil}
    BY <1>1 DEF Request
<1>5. ReqOK(r)'
    BY <1>1, <1>3, <1>4 DEF ReqOK, Kept, Exists, Holding
<1>6. req' \in [Requests -> Request] /\ \A q \in Requests \ {r} : Same(q)
    BY <1>3 DEF IInv, TypeOK, Goto, Same
<1> QED BY <1>5, <1>6 DEF Actor

\* Putting a step together: the claim, the resources, and the request.
LEMMA Together ==
    ASSUME IInv, Kept, NEW r \in Requests, Actor(r), ClaimOK', claim' \in Claim,
           claim'.sid # Nil => claim'.made,
           res' \in [Resources -> {"none", "sent", "live", "gone"}],
           kind' = kind, col' \in Resources \cup {Nil}, faults' \in Nat, vanished' \in Nat
    PROVE  IInv'
<1>1. TypeOK'
    BY DEF IInv, TypeOK, Actor
<1> QED BY <1>1, Frame DEF Actor

\* A step that leaves the claim and Twilio's resources alone.
LEMMA Aside ==
    ASSUME IInv, UNCHANGED <<claim, res>>
    PROVE  Kept /\ ClaimOK' /\ claim' \in Claim /\ (claim'.sid # Nil => claim'.made)
           /\ res' \in [Resources -> {"none", "sent", "live", "gone"}]
BY DEF IInv, Kept, ClaimOK, Exists, TypeOK

LEMMA AsideKeeps ==
    ASSUME IInv, NEW r \in Requests, Actor(r), UNCHANGED <<kind, claim, res>>,
           col' \in Resources \cup {Nil}, faults' \in Nat, vanished' \in Nat
    PROVE  Kept /\ IInv'
BY Aside, Together
-----------------------------------------------------------------------------
(* Steps that only read                                                      *)

LEMMA StartKeeps == ASSUME IInv, NEW r \in Requests, Start(r) PROVE Kept /\ IInv'
<1>1. col \in Resources \cup {Nil} /\ Alone(r) \in BOOLEAN /\ UNCHANGED <<kind, claim, col, res, faults, vanished>>
    BY DEF IInv, TypeOK, Start, Alone, Open
<1> DEFINE new == [Fresh EXCEPT !.pc = "find", !.seed = col, !.alone = Alone(r)]
<1>2. new \in Request /\ new.pc = "find" /\ new.sid = Nil /\ new.found = {} /\ new.answer = "none"
    BY <1>1 DEF Fresh, Request, Pcs, Answers
<1> HIDE DEF new
<1>3. req' = [q \in Requests |-> IF q = r THEN new ELSE [req[q] EXCEPT !.alone = FALSE]]
    BY DEF Start, new
<1>4. \A q \in Requests \ {r} : req'[q] \in Request /\ Same(q)
    <2> TAKE q \in Requests \ {r}
    <2>1. req'[q] = [req[q] EXCEPT !.alone = FALSE] /\ req[q] \in Request
        BY <1>3 DEF IInv, TypeOK
    <2> QED BY <2>1 DEF Same, Request
<1>5. req'[r] = new
    BY <1>3
<1>6. Actor(r)
    BY <1>2, <1>3, <1>4, <1>5 DEF Actor, ReqOK, Holding
<1> QED BY <1>1, <1>6, AsideKeeps DEF IInv, TypeOK

LEMMA FindKeeps == ASSUME IInv, NEW r \in Requests, Find(r) PROVE Kept /\ IInv'
<1> DEFINE pc == IF ~claim.made THEN "insert" ELSE IF claim.sid # Nil THEN "verify" ELSE "lookup"
<1>1. req' = [req EXCEPT ![r].pc = pc, ![r].sid = claim.sid] /\ req[r] \in Request /\ req[r].pc = "find"
      /\ UNCHANGED <<kind, claim, col, res, faults, vanished>> /\ claim.sid \in Resources \cup {Nil}
      /\ (claim.sid # Nil => claim.made /\ Exists(claim.sid)) /\ ReqOK(r)
    BY DEF Find, IInv, TypeOK, ClaimOK, Claim, At
<1>2. pc \in {"insert", "verify", "lookup"} /\ (pc = "verify" => claim.sid # Nil) /\ (pc # "insert" => claim.made)
    OBVIOUS
<1> HIDE DEF pc
<1>6. req'[r] = [req[r] EXCEPT !.pc = pc, !.sid = claim.sid]
    BY <1>1 DEF IInv, TypeOK
<1>10. pc \in Pcs /\ req[r] \in Request /\ claim.sid \in Resources \cup {Nil}
    BY <1>1, <1>2 DEF Pcs
<1>3. req'[r] \in Request /\ req'[r].pc = pc /\ req'[r].sid = claim.sid /\ req'[r].found = req[r].found
      /\ req'[r].answer = req[r].answer
    BY <1>6, <1>10 DEF Request
<1>7. Exists(claim.sid)' <=> Exists(claim.sid)
    BY <1>1 DEF Exists
<1>8. \A s \in Resources : Exists(s)' <=> Exists(s)
    BY <1>1 DEF Exists
<1>9. req[r].found \subseteq Resources /\ req[r].answer # "ok"
    BY <1>1 DEF Request, ReqOK
<1>4. ReqOK(r)'
    BY <1>1, <1>2, <1>3, <1>7, <1>8, <1>9 DEF ReqOK, Holding
<1>5. Actor(r)
    BY <1>1, <1>3, <1>4 DEF IInv, TypeOK, Actor, Same
<1> QED BY <1>1, <1>5, AsideKeeps DEF IInv, TypeOK

\* Facts about a request that is not resting.
LEMMA Active ==
    ASSUME IInv, NEW r \in Requests
    PROVE  /\ req[r] \in Request /\ ReqOK(r) /\ claim \in Claim /\ claim.sid \in Resources \cup {Nil}
           /\ req[r].sid \in Resources \cup {Nil} /\ req[r].seed \in Resources \cup {Nil}
           /\ req[r].found \subseteq Resources
           /\ req[r].retired \in BOOLEAN /\ Nil \notin Resources
           /\ (claim.sid # Nil => claim.made /\ Exists(claim.sid))
           /\ (req[r].pc \notin {"idle", "find", "insert", "done"} => claim.made)
BY OldAssumption DEF IInv, TypeOK, ClaimOK, Claim, Request, Resources, ReqOK

LEMMA WaitKeeps == ASSUME IInv, NEW r \in Requests, Wait(r) PROVE Kept /\ IInv'
<1>1. UNCHANGED <<kind, claim, col, res, faults, vanished>> /\ req[r].pc = "wait"
    BY DEF Wait, At
<1>2. CASE claim.sid # Nil /\ kind = "address"
    <2>1. req' = [req EXCEPT ![r].pc = "verify", ![r].sid = claim.sid]
        BY <1>2 DEF Wait
    <2>5. req'[r] = [req[r] EXCEPT !.pc = "verify", !.sid = claim.sid] /\ req[r] \in Request
        BY <2>1, Active DEF IInv, TypeOK
    <2>6. claim.sid \in Resources \cup {Nil}
        BY Active
    <2>2. req'[r] \in Request /\ req'[r].pc = "verify" /\ req'[r].sid = claim.sid
          /\ req'[r].found = req[r].found /\ req'[r].answer = req[r].answer
        BY <2>5, <2>6 DEF Request, Pcs
    <2>3. ReqOK(r)'
        BY <1>1, <1>2, <2>2, Active DEF ReqOK, Exists, Holding
    <2>4. Actor(r)
        BY <2>1, <2>2, <2>3 DEF IInv, TypeOK, Actor, Same
    <2> QED BY <1>1, <2>4, AsideKeeps DEF IInv, TypeOK
<1>3. CASE claim.sid # Nil /\ kind # "address"
    <2>1. Resolved(r, claim.sid)
        BY <1>3 DEF Wait
    <2>2. Exists(claim.sid)' /\ claim'.made /\ claim.sid = claim'.sid
        BY <1>1, <1>3, Active DEF Exists
    <2>3. Actor(r)
        BY <1>3, <2>1, <2>2, Active, ResolvedActs
    <2> QED BY <1>1, <2>3, AsideKeeps DEF IInv, TypeOK
<1>4. CASE claim.sid = Nil
    <2>1. \E answer \in Answers \ {"ok"} : Answer(r, answer)
        BY <1>4 DEF Wait, Answers
    <2>2. Actor(r)
        BY <2>1, AnswerActs
    <2> QED BY <1>1, <2>2, AsideKeeps DEF IInv, TypeOK
<1> QED BY <1>2, <1>3, <1>4

LEMMA VerifyKeeps == ASSUME IInv, NEW r \in Requests, Verify(r) PROVE Kept /\ IInv'
<1>1. UNCHANGED <<kind, claim, col, res, faults, vanished>> /\ req[r].pc = "verify"
    BY DEF Verify, At
<1>2. req[r].sid \in Resources /\ Exists(req[r].sid) /\ claim.made
      /\ (req[r].sid = claim.sid \/ res[req[r].sid] = "gone")
    BY <1>1, Active DEF ReqOK, Holding
<1>3. CASE res[req[r].sid] = "live" /\ Resolved(r, req[r].sid)
    <2> PICK sid \in Resources : sid = req[r].sid
        BY <1>2
    <2>1. Resolved(r, sid)
        BY <1>3
    <2>2. Exists(sid)' /\ claim'.made /\ (sid = claim'.sid \/ res'[sid] = "gone")
        BY <1>1, <1>2 DEF Exists
    <2>3. Actor(r)
        BY <2>1, <2>2, ResolvedActs
    <2> QED BY <1>1, <2>3, AsideKeeps DEF IInv, TypeOK
<1>4. CASE res[req[r].sid] # "live" /\ req' = [req EXCEPT ![r].pc = "retire", ![r].retired = TRUE]
    <2>1. res[req[r].sid] = "gone"
        BY <1>2, <1>4 DEF Exists
    <2>5. req'[r] = [req[r] EXCEPT !.pc = "retire", !.retired = TRUE] /\ req[r] \in Request
        BY <1>4, Active DEF IInv, TypeOK
    <2>2. req'[r] \in Request /\ req'[r].pc = "retire" /\ req'[r].sid = req[r].sid
          /\ req'[r].found = req[r].found /\ req'[r].answer = req[r].answer
        BY <2>5 DEF Request, Pcs
    <2>3. ReqOK(r)'
        BY <1>1, <1>2, <2>1, <2>2, Active DEF ReqOK, Exists, Holding
    <2>4. Actor(r)
        BY <1>4, <2>2, <2>3 DEF IInv, TypeOK, Actor, Same
    <2> QED BY <1>1, <2>4, AsideKeeps DEF IInv, TypeOK
<1>5. CASE Answer(r, "human") \/ Answer(r, "unavailable")
    <2>1. Actor(r)
        BY <1>5, AnswerActs DEF Answers
    <2> QED BY <1>1, <2>1, AsideKeeps DEF IInv, TypeOK
<1> QED BY <1>3, <1>4, <1>5 DEF Verify

LEMMA RereadKeeps == ASSUME IInv, NEW r \in Requests, Reread(r) PROVE Kept /\ IInv'
<1>1. UNCHANGED <<kind, claim, col, res, faults, vanished>>
    BY DEF Reread
<1>2. CASE claim.sid # Nil
    <2>1. Resolved(r, claim.sid)
        BY <1>2 DEF Reread
    <2>2. Exists(claim.sid)' /\ claim'.made /\ claim.sid = claim'.sid
        BY <1>1, <1>2, Active DEF Exists
    <2>3. Actor(r)
        BY <1>2, <2>1, <2>2, Active, ResolvedActs
    <2> QED BY <1>1, <2>3, AsideKeeps DEF IInv, TypeOK
<1>3. CASE claim.sid = Nil
    <2>1. Actor(r)
        BY <1>3, AnswerActs DEF Reread, Answers
    <2> QED BY <1>1, <2>1, AsideKeeps DEF IInv, TypeOK
<1> QED BY <1>2, <1>3

\* Adopting what Twilio has: a conflict, or on to attach it.
LEMMA AdoptKeeps ==
    ASSUME IInv, NEW r \in Requests, req[r].pc \in {"lookup", "again"}, Adopt(r, Marked),
           UNCHANGED <<kind, claim, col, res, faults, vanished>>
    PROVE  Kept /\ IInv'
<1>1. CASE Answer(r, "conflict")
    <2>1. Actor(r)
        BY <1>1, AnswerActs DEF Answers
    <2> QED BY <2>1, AsideKeeps DEF IInv, TypeOK
<1>2. CASE req' = [req EXCEPT ![r].pc = "attach", ![r].found = Marked]
    <2>1. Marked \in SUBSET Resources /\ \A s \in Marked : Exists(s)
        BY DEF Marked, Exists
    <2>5. req'[r] = [req[r] EXCEPT !.pc = "attach", !.found = Marked] /\ req[r] \in Request
        BY <1>2, Active DEF IInv, TypeOK
    <2>2. req'[r] \in Request /\ req'[r].pc = "attach" /\ req'[r].sid = req[r].sid
          /\ req'[r].found = Marked /\ req'[r].answer = req[r].answer
        BY <2>1, <2>5 DEF Request, Pcs
    <2>3. ReqOK(r)'
        BY <2>1, <2>2, Active DEF ReqOK, Exists, Holding
    <2>4. Actor(r)
        BY <1>2, <2>2, <2>3 DEF IInv, TypeOK, Actor, Same
    <2> QED BY <2>4, AsideKeeps DEF IInv, TypeOK
<1> QED BY <1>1, <1>2 DEF Adopt

\* A step that goes on to one that asks nothing of what is in hand.
LEMMA GotoKeeps ==
    ASSUME IInv, NEW r \in Requests, req[r].pc \notin {"idle", "find", "insert", "lost", "done"},
           NEW pc \in Pcs \ (Holding \cup {"attach_seed", "lost"}), pc = "seed" => req[r].seed # Nil,
           Goto(r, pc), UNCHANGED <<kind, claim, col, res, vanished>>, faults' \in Nat
    PROVE  Kept /\ IInv'
<1>1. claim'.made /\ Kept
    BY Active, Aside
<1>2. Actor(r)
    BY <1>1, GotoActs
<1> QED BY <1>2, AsideKeeps DEF IInv, TypeOK

LEMMA LookupKeeps == ASSUME IInv, NEW r \in Requests, Lookup(r) PROVE Kept /\ IInv'
<1>1. UNCHANGED <<kind, claim, col, res, faults, vanished>> /\ req[r].pc = "lookup" /\ faults' \in Nat
    BY DEF Lookup, At, IInv, TypeOK
<1>2. CASE Marked # {}
    BY <1>1, <1>2, AdoptKeeps DEF Lookup
<1>3. CASE Marked = {}
    BY <1>1, <1>3, GotoKeeps DEF Lookup, Pcs, Holding
<1> QED BY <1>2, <1>3

LEMMA SeedKeeps == ASSUME IInv, NEW r \in Requests, Seed(r) PROVE Kept /\ IInv'
<1>1. UNCHANGED <<kind, claim, col, res, faults, vanished>> /\ req[r].pc = "seed" /\ faults' \in Nat
    BY DEF Seed, At, IInv, TypeOK
<1>2. CASE res[req[r].seed] = "live"
    <2>1. req' = [req EXCEPT ![r].pc = "attach_seed"]
        BY <1>2 DEF Seed, Goto
    <2>2. req'[r] \in Request /\ req'[r].pc = "attach_seed" /\ req'[r].sid = req[r].sid
          /\ req'[r].found = req[r].found /\ req'[r].answer = req[r].answer /\ req'[r].seed = req[r].seed
        BY <2>1, Active DEF IInv, TypeOK, Request, Pcs
    <2>3. ReqOK(r)'
        BY <1>1, <1>2, <2>2, Active DEF ReqOK, Exists, Holding
    <2>4. Actor(r)
        BY <2>1, <2>2, <2>3 DEF IInv, TypeOK, Actor, Same
    <2> QED BY <1>1, <2>4, AsideKeeps DEF IInv, TypeOK
<1>3. CASE res[req[r].seed] # "live"
    BY <1>1, <1>3, GotoKeeps DEF Seed, Pcs, Holding
<1> QED BY <1>2, <1>3

LEMMA FollowSeedKeeps == ASSUME IInv, NEW r \in Requests, FollowSeed(r) PROVE Kept /\ IInv'
<1>1. UNCHANGED <<kind, claim, col, res, faults, vanished>> /\ req[r].pc = "follow_seed" /\ faults' \in Nat
    BY DEF FollowSeed, At, IInv, TypeOK
<1>2. CASE claim.sid # Nil
    <2>1. InHand(r, claim.sid, FALSE) /\ claim.sid \in Resources
        BY <1>2, Active DEF FollowSeed
    <2>2. Exists(claim.sid)' /\ claim'.made /\ claim.sid = claim'.sid
        BY <1>1, <1>2, Active DEF Exists
    <2>3. Actor(r)
        BY <2>1, <2>2, InHandActs
    <2> QED BY <1>1, <2>3, AsideKeeps DEF IInv, TypeOK
<1>3. CASE claim.sid = Nil
    BY <1>1, <1>3, GotoKeeps DEF FollowSeed, Pcs, Holding
<1> QED BY <1>2, <1>3

LEMMA RefusedKeeps == ASSUME IInv, NEW r \in Requests, CreateRefused(r) PROVE Kept /\ IInv'
<1>1. PICK pc \in {"refused", "again"} : Goto(r, pc)
    BY DEF CreateRefused
<1> QED BY <1>1, GotoKeeps DEF CreateRefused, At, Pcs, Holding, IInv, TypeOK

LEMMA AgainKeeps == ASSUME IInv, NEW r \in Requests, Again(r) PROVE Kept /\ IInv'
<1>1. UNCHANGED <<kind, claim, col, res, faults, vanished>> /\ req[r].pc = "again" /\ faults' \in Nat
    BY DEF Again, At, IInv, TypeOK
<1>2. CASE Marked # {}
    BY <1>1, <1>2, AdoptKeeps DEF Again
<1>3. CASE Marked = {}
    BY <1>1, <1>3, GotoKeeps DEF Again, Pcs, Holding
<1> QED BY <1>2, <1>3

LEMMA LostKeeps == ASSUME IInv, NEW r \in Requests, Lost(r) PROVE Kept /\ IInv'
<1>1. UNCHANGED <<kind, claim, col, res, faults, vanished>> /\ req[r].pc = "lost"
    BY DEF Lost, At
<1> DEFINE own == (IF kind = "address" THEN req[r].found ELSE {req[r].sid}) \ {claim.sid}
<1>2. CASE claim.sid = Nil
    <2>1. Actor(r)
        BY <1>2, AnswerActs DEF Lost, Answers
    <2> QED BY <1>1, <2>1, AsideKeeps DEF IInv, TypeOK
<1>3. CASE claim.sid # Nil /\ own # {}
    <2>1. req' = [req EXCEPT ![r].pc = "withdraw", ![r].sid = claim.sid, ![r].found = own]
        BY <1>3 DEF Lost
    \* A request that lost holds what it brought.
    <2>2. own \subseteq Resources /\ \A s \in own : Exists(s)
        BY <1>1, Active DEF ReqOK
    <2> HIDE DEF own
    <2>3. /\ req'[r] = [req[r] EXCEPT !.pc = "withdraw", !.sid = claim.sid, !.found = own]
          /\ req[r] \in Request /\ claim.sid \in Resources \cup {Nil}
        BY <2>1, Active DEF IInv, TypeOK
    <2>4. req'[r].pc = "withdraw" /\ req'[r].sid = claim.sid
          /\ req'[r].found = own /\ req'[r].answer = req[r].answer
        BY <2>3 DEF Request
    <2>5. req'[r] \in Request
        BY <2>2, <2>3 DEF Request, Pcs
    <2>6. ReqOK(r)'
        BY <1>1, <1>3, <2>2, <2>4, Active DEF ReqOK, Exists, Holding
    <2>7. Actor(r)
        BY <2>1, <2>5, <2>6 DEF IInv, TypeOK, Actor, Same
    <2> QED BY <1>1, <2>7, AsideKeeps DEF IInv, TypeOK
<1>4. CASE claim.sid # Nil /\ own = {} /\ kind = "address"
    <2>1. req' = [req EXCEPT ![r].pc = "verify", ![r].sid = claim.sid]
        BY <1>4 DEF Lost
    <2>2. req'[r] \in Request /\ req'[r].pc = "verify" /\ req'[r].sid = claim.sid
          /\ req'[r].found = req[r].found /\ req'[r].answer = req[r].answer
        <3>1. /\ req'[r] = [req[r] EXCEPT !.pc = "verify", !.sid = claim.sid]
              /\ req[r] \in Request /\ claim.sid \in Resources \cup {Nil}
            BY <2>1, Active DEF IInv, TypeOK
        <3> QED BY <3>1 DEF Request, Pcs
    <2>3. ReqOK(r)'
        BY <1>1, <1>4, <2>2, Active DEF ReqOK, Exists, Holding
    <2>4. Actor(r)
        BY <2>1, <2>2, <2>3 DEF IInv, TypeOK, Actor, Same
    <2> QED BY <1>1, <2>4, AsideKeeps DEF IInv, TypeOK
<1>5. CASE claim.sid # Nil /\ own = {} /\ kind # "address"
    <2>1. Resolved(r, claim.sid)
        BY <1>5 DEF Lost
    <2>2. Exists(claim.sid)' /\ claim'.made /\ claim.sid = claim'.sid
        BY <1>1, <1>5, Active DEF Exists
    <2>3. Actor(r)
        BY <1>5, <2>1, <2>2, Active, ResolvedActs
    <2> QED BY <1>1, <2>3, AsideKeeps DEF IInv, TypeOK
<1> QED BY <1>2, <1>3, <1>4, <1>5

LEMMA RefetchKeeps == ASSUME IInv, NEW r \in Requests, Refetch(r) PROVE Kept /\ IInv'
<1>1. UNCHANGED <<kind, claim, col, res, faults, vanished>> /\ req[r].pc = "refetch"
    BY DEF Refetch, At
<1>2. CASE Answer(r, "unavailable")
    <2>1. Actor(r)
        BY <1>2, AnswerActs DEF Answers
    <2> QED BY <1>1, <2>1, AsideKeeps DEF IInv, TypeOK
<1>3. CASE Goto(r, "column")
    <2>1. req'[r] = [req[r] EXCEPT !.pc = "column"] /\ req[r] \in Request
        BY <1>3, Active DEF Goto, IInv, TypeOK
    <2>2. req'[r] \in Request /\ req'[r].pc = "column" /\ req'[r].sid = req[r].sid
          /\ req'[r].found = req[r].found /\ req'[r].answer = req[r].answer
        BY <2>1 DEF Request, Pcs
    <2>3. ReqOK(r)'
        BY <1>1, <2>2, Active DEF ReqOK, Exists, Holding
    <2>4. Actor(r)
        BY <1>3, <2>2, <2>3 DEF IInv, TypeOK, Actor, Same, Goto
    <2> QED BY <1>1, <2>4, AsideKeeps DEF IInv, TypeOK
<1> QED BY <1>2, <1>3 DEF Refetch

LEMMA ColumnKeeps == ASSUME IInv, NEW r \in Requests, Column(r) PROVE Kept /\ IInv'
<1>1. UNCHANGED <<kind, claim, res, faults, vanished>> /\ req[r].pc = "column"
    BY DEF Column, At
<1>2. req[r].sid \in Resources /\ Exists(req[r].sid)
      /\ (req[r].sid = claim.sid \/ res[req[r].sid] = "gone")
    BY <1>1, Active DEF ReqOK, Holding
<1>3. CASE Answer(r, "conflict") /\ UNCHANGED col
    <2>1. Actor(r)
        BY <1>3, AnswerActs DEF Answers
    <2> QED BY <1>1, <1>3, <2>1, AsideKeeps DEF IInv, TypeOK
<1>4. CASE End(r, "done", "ok", req[r].sid) /\ col' = req[r].sid
    <2> DEFINE new == [Fresh EXCEPT !.pc = "done", !.answer = "ok", !.sid = req[r].sid, !.alone = req[r].alone]
    <2>1. req' = [req EXCEPT ![r] = new]
        BY <1>4 DEF End
    <2>2. new \in Request /\ new.pc = "done" /\ new.sid = req[r].sid /\ new.found = {}
        BY <1>2 DEF IInv, TypeOK, Request, Fresh, Pcs, Answers
    <2> HIDE DEF new
    <2>3. req'[r] = new
        BY <2>1 DEF IInv, TypeOK
    <2>4. ReqOK(r)'
        BY <1>1, <1>2, <2>2, <2>3, Active DEF ReqOK, Exists, Holding
    <2>5. Actor(r)
        BY <2>1, <2>2, <2>4 DEF IInv, TypeOK, Actor, Same
    <2> QED BY <1>1, <1>2, <1>4, <2>5, AsideKeeps DEF IInv, TypeOK
<1> QED BY <1>3, <1>4 DEF Column

\* A request that ends without a resource.
LEMMA EndsKeeps ==
    ASSUME IInv, NEW r \in Requests, NEW new \in Request,
           new.pc = "done", new.sid = Nil, new.found = {}, new.answer # "ok",
           req' = [req EXCEPT ![r] = new],
           UNCHANGED <<kind, claim, col, res, vanished>>, faults' \in Nat
    PROVE  Kept /\ IInv'
<1>1. req'[r] = new
    BY DEF IInv, TypeOK
<1>2. ReqOK(r)'
    BY <1>1 DEF ReqOK, Holding
<1>3. Actor(r)
    BY <1>2 DEF IInv, TypeOK, Actor, Same
<1> QED BY <1>3, AsideKeeps DEF IInv, TypeOK

LEMMA UnavailableKeeps == ASSUME IInv, NEW r \in Requests, Unavailable(r) PROVE Kept /\ IInv'
<1>1. UNCHANGED <<kind, claim, col, res, vanished>> /\ faults' \in Nat
    BY DEF Unavailable, Fault, IInv, TypeOK
<1>2. CASE req[r].pc = "again"
    BY <1>1, <1>2, GotoKeeps DEF Unavailable, At, Pcs, Holding
<1>3. CASE req[r].pc # "again"
    <2> DEFINE new == [Fresh EXCEPT !.pc = "done", !.answer = "unavailable"]
    <2>1. new \in Request /\ new.pc = "done" /\ new.sid = Nil /\ new.found = {} /\ new.answer # "ok"
        BY DEF Request, Fresh, Pcs, Answers
    <2>2. req' = [req EXCEPT ![r] = new]
        BY <1>3 DEF Unavailable, At
    <2> HIDE DEF new
    <2> QED BY <1>1, <2>1, <2>2, EndsKeeps
<1> QED BY <1>2, <1>3

LEMMA StopKeeps == ASSUME IInv, NEW r \in Requests, Stop(r) PROVE Kept /\ IInv'
<1>1. UNCHANGED <<kind, claim, col, res, vanished>> /\ faults' \in Nat
    BY DEF Stop, Fault, IInv, TypeOK
<1> DEFINE new == [Fresh EXCEPT !.pc = "done"]
<1>2. new \in Request /\ new.pc = "done" /\ new.sid = Nil /\ new.found = {} /\ new.answer # "ok"
    BY DEF Request, Fresh, Pcs, Answers
<1>3. req' = [req EXCEPT ![r] = new]
    BY DEF Stop
<1> HIDE DEF new
<1> QED BY <1>1, <1>2, <1>3, EndsKeeps

-----------------------------------------------------------------------------
(* Steps that write the claim's row                                          *)

\* A write that leaves the resource the claim names, and Twilio's, alone.
LEMMA ClaimWritten ==
    ASSUME IInv, claim' \in Claim, claim'.sid = claim.sid, claim.made => claim'.made, UNCHANGED res
    PROVE  Kept /\ ClaimOK' /\ (claim'.sid # Nil => claim'.made)
           /\ res' \in [Resources -> {"none", "sent", "live", "gone"}]
BY DEF IInv, Kept, ClaimOK, Exists, TypeOK

LEMMA InsertKeeps == ASSUME IInv, NEW r \in Requests, Insert(r) PROVE Kept /\ IInv'
<1>1. UNCHANGED <<kind, col, res, faults, vanished>> /\ req[r].pc = "insert"
    BY DEF Insert, At
<1>2. CASE claim.made
    <2>1. UNCHANGED claim /\ Goto(r, "wait")
        BY <1>2 DEF Insert
    <2>2. Kept /\ claim'.made
        BY <1>1, <1>2, <2>1, Aside
    <2>3. Actor(r)
        BY <1>1, <2>1, <2>2, GotoActs DEF Pcs, Holding
    <2> QED BY <1>1, <2>1, <2>3, AsideKeeps DEF IInv, TypeOK
<1>3. CASE ~claim.made
    <2>1. claim' = [claim EXCEPT !.made = TRUE, !.fresh = TRUE] /\ claim \in Claim
        BY <1>3, Active DEF Insert
    <2>2. claim' \in Claim /\ claim'.sid = claim.sid /\ claim'.made
        BY <2>1 DEF Claim
    <2>3. Kept /\ ClaimOK' /\ res' \in [Resources -> {"none", "sent", "live", "gone"}]
        BY <1>1, <2>2, ClaimWritten
    <2>4. req' = [req EXCEPT ![r].pc = "lookup", ![r].own = TRUE]
        BY <1>3 DEF Insert
    <2>5. req'[r] = [req[r] EXCEPT !.pc = "lookup", !.own = TRUE] /\ req[r] \in Request
        BY <2>4, Active DEF IInv, TypeOK
    <2>6. req'[r] \in Request /\ req'[r].pc = "lookup" /\ req'[r].sid = req[r].sid
          /\ req'[r].found = req[r].found /\ req'[r].answer = req[r].answer
        BY <2>5 DEF Request, Pcs
    <2>7. ReqOK(r)'
        BY <1>1, <2>2, <2>6, Active DEF ReqOK, Exists, Holding
    <2>8. Actor(r)
        BY <2>4, <2>6, <2>7 DEF IInv, TypeOK, Actor, Same
    <2> QED BY <1>1, <2>2, <2>3, <2>8, Together DEF IInv, TypeOK
<1> QED BY <1>2, <1>3

\* Only what has been seen gone is detached.
LEMMA RetireKeeps == ASSUME IInv, NEW r \in Requests, Retire(r) PROVE Kept /\ IInv'
<1>1. UNCHANGED <<kind, col, res, faults, vanished>> /\ req[r].pc = "retire" /\ faults' \in Nat
    BY DEF Retire, At, IInv, TypeOK
<1>2. req[r].sid # Nil /\ res[req[r].sid] = "gone" /\ claim.made
    BY <1>1, Active DEF ReqOK, Holding
<1>3. CASE claim.sid # req[r].sid
    BY <1>1, <1>3, GotoKeeps DEF Retire, Pcs, Holding
<1>4. CASE claim.sid = req[r].sid
    <2>1. claim' = [claim EXCEPT !.sid = Nil, !.fresh = TRUE, !.failed = FALSE] /\ claim \in Claim
        BY <1>4, Active DEF Retire
    <2>2. claim' \in Claim /\ claim'.sid = Nil
        BY <2>1 DEF Claim
    <2>3. claim'.made
        BY <1>2, <2>1 DEF Claim
    <2>4. Kept /\ ClaimOK'
        BY <1>1, <1>2, <1>4, <2>2, <2>3 DEF Kept, ClaimOK, Exists
    <2>5. req' = [req EXCEPT ![r].pc = "lookup", ![r].own = TRUE, ![r].sid = Nil]
        BY <1>4 DEF Retire
    <2>6. req'[r] = [req[r] EXCEPT !.pc = "lookup", !.own = TRUE, !.sid = Nil] /\ req[r] \in Request
        BY <2>5, Active DEF IInv, TypeOK
    <2>7. req'[r] \in Request /\ req'[r].pc = "lookup" /\ req'[r].sid = Nil
          /\ req'[r].found = req[r].found /\ req'[r].answer = req[r].answer
        BY <2>6 DEF Request, Pcs
    <2>8. ReqOK(r)'
        BY <1>1, <2>3, <2>7, Active DEF ReqOK, Exists, Holding
    <2>9. Actor(r)
        BY <2>5, <2>7, <2>8 DEF IInv, TypeOK, Actor, Same
    <2> QED BY <1>1, <2>2, <2>4, <2>9, Together DEF IInv, TypeOK
<1> QED BY <1>3, <1>4

LEMMA TakesKeeps ==
    ASSUME IInv, NEW r \in Requests, req[r].pc \in {"take", "take_stale"}, Takes(r),
           UNCHANGED <<kind, col, res, faults, vanished>>
    PROVE  Kept /\ IInv'
<1> DEFINE pc == IF req[r].seed # Nil THEN "seed" ELSE "create"
<1>1. claim' = [claim EXCEPT !.fresh = TRUE, !.failed = FALSE] /\ claim \in Claim
      /\ req' = [req EXCEPT ![r].pc = pc, ![r].own = TRUE]
    BY Active DEF Takes
<1>2. pc \in {"seed", "create"} /\ (pc = "seed" => req[r].seed # Nil)
    OBVIOUS
<1> HIDE DEF pc
<1>3. claim' \in Claim /\ claim'.sid = claim.sid
    BY <1>1 DEF Claim
<1>4. claim'.made
    BY <1>1, Active DEF Claim
<1>5. Kept /\ ClaimOK' /\ res' \in [Resources -> {"none", "sent", "live", "gone"}]
    BY <1>3, <1>4, ClaimWritten
<1>6. req'[r] = [req[r] EXCEPT !.pc = pc, !.own = TRUE] /\ req[r] \in Request
    BY <1>1, Active DEF IInv, TypeOK
<1>7. req'[r] \in Request /\ req'[r].pc = pc /\ req'[r].sid = req[r].sid /\ req'[r].seed = req[r].seed
      /\ req'[r].found = req[r].found /\ req'[r].answer = req[r].answer
    BY <1>2, <1>6 DEF Request, Pcs
<1>8. ReqOK(r)'
    BY <1>2, <1>3, <1>4, <1>7, Active DEF ReqOK, Exists, Holding
<1>9. Actor(r)
    BY <1>1, <1>7, <1>8 DEF IInv, TypeOK, Actor, Same
<1> QED BY <1>3, <1>4, <1>5, <1>9, Together DEF IInv, TypeOK

LEMMA TakeKeeps == ASSUME IInv, NEW r \in Requests, Take(r) \/ TakeStale(r) PROVE Kept /\ IInv'
<1>1. UNCHANGED <<kind, col, res, faults, vanished>> /\ req[r].pc \in {"take", "take_stale"} /\ faults' \in Nat
    BY DEF Take, TakeStale, At, IInv, TypeOK
<1>2. CASE Takes(r)
    BY <1>1, <1>2, TakesKeeps
<1>3. CASE UNCHANGED claim /\ \E pc \in {"take_stale", "wait"} : Goto(r, pc)
    BY <1>1, <1>3, GotoKeeps DEF Pcs, Holding
<1> QED BY <1>2, <1>3 DEF Take, TakeStale

\* The claim gives up or marks an attempt, and the request is answered.
LEMMA GivesUpKeeps ==
    ASSUME IInv, NEW r \in Requests, RecordFailure(r) \/ Release(r)
    PROVE  Kept /\ IInv'
<1>1. UNCHANGED <<kind, col, res, faults, vanished>>
    BY DEF RecordFailure, Release
<1>2. \/ claim' = claim \/ claim' = [claim EXCEPT !.failed = TRUE] \/ claim' = [claim EXCEPT !.fresh = FALSE]
    BY DEF RecordFailure, Release
<1>3. claim \in Claim
    BY Active
<1>4. claim' \in Claim /\ claim'.sid = claim.sid
    BY <1>2, <1>3 DEF Claim
<1>5. claim.made => claim'.made
    BY <1>2, <1>3 DEF Claim
<1>6. Kept /\ ClaimOK' /\ (claim'.sid # Nil => claim'.made)
      /\ res' \in [Resources -> {"none", "sent", "live", "gone"}]
    BY <1>1, <1>4, <1>5, ClaimWritten
<1>7. Actor(r)
    BY AnswerActs DEF RecordFailure, Release, Answers
<1> QED BY <1>1, <1>4, <1>6, <1>7, Together DEF IInv, TypeOK

\* The claim is given a resource that exists, while it has none.
LEMMA Attached ==
    ASSUME IInv, claim.sid = Nil, claim.made, NEW sid \in Resources, Exists(sid), UNCHANGED res,
           claim' = [claim EXCEPT !.sid = sid, !.failed = FALSE]
    PROVE  Kept /\ ClaimOK' /\ claim' \in Claim /\ claim'.sid = sid /\ claim'.made
           /\ res' \in [Resources -> {"none", "sent", "live", "gone"}]
<1>1. claim \in Claim
    BY DEF IInv, TypeOK
<1>2. claim' \in Claim /\ claim'.sid = sid
    BY <1>1 DEF Claim
<1>3. claim'.made
    BY <1>1 DEF Claim
<1> QED BY <1>2, <1>3 DEF IInv, TypeOK, Kept, ClaimOK, Exists

LEMMA AttachSeedKeeps == ASSUME IInv, NEW r \in Requests, AttachSeed(r) PROVE Kept /\ IInv'
<1>1. UNCHANGED <<kind, col, res, faults, vanished>> /\ req[r].pc = "attach_seed" /\ faults' \in Nat
    BY DEF AttachSeed, At, IInv, TypeOK
<1>2. CASE claim.sid = Nil
    <2> PICK sid \in Resources : sid = req[r].seed /\ Exists(sid)
        BY <1>1, Active DEF ReqOK
    <2>1. claim' = [claim EXCEPT !.sid = sid, !.failed = FALSE] /\ Resolved(r, sid) /\ claim.made
        BY <1>1, <1>2, Active DEF AttachSeed
    <2>2. Kept /\ ClaimOK' /\ claim' \in Claim /\ claim'.sid = sid /\ claim'.made
          /\ res' \in [Resources -> {"none", "sent", "live", "gone"}]
        BY <1>1, <1>2, <2>1, Attached
    <2>3. Exists(sid)'
        BY <1>1 DEF Exists
    <2>4. Actor(r)
        BY <2>1, <2>2, <2>3, ResolvedActs
    <2> QED BY <1>1, <2>2, <2>4, Together DEF IInv, TypeOK
<1>3. CASE claim.sid # Nil
    BY <1>1, <1>3, GotoKeeps DEF AttachSeed, Pcs, Holding
<1> QED BY <1>2, <1>3

LEMMA AttachKeeps == ASSUME IInv, NEW r \in Requests, Attach(r) PROVE Kept /\ IInv'
<1>1. UNCHANGED <<kind, col, res, faults, vanished>> /\ req[r].pc = "attach" /\ claim.made
    BY Active DEF Attach, At
<1> PICK s \in req[r].found :
       IF claim.sid # Nil
       THEN req' = [req EXCEPT ![r].pc = "lost", ![r].sid = s] /\ UNCHANGED claim
       ELSE /\ claim' = [claim EXCEPT !.sid = s, !.failed = FALSE]
            /\ IF req[r].found = {s} THEN Resolved(r, s)
               ELSE req' = [req EXCEPT ![r].pc = "discard", ![r].sid = s, ![r].found = @ \ {s}]
    BY DEF Attach
<1>2. s \in Resources /\ Exists(s) /\ s # Nil /\ Exists(s)'
    BY <1>1, Active DEF ReqOK, Exists
<1>3. CASE claim.sid # Nil
    <2>1. req'[r] = [req[r] EXCEPT !.pc = "lost", !.sid = s] /\ req[r] \in Request
        BY <1>3, Active DEF IInv, TypeOK
    <2>2. req'[r] \in Request /\ req'[r].pc = "lost" /\ req'[r].sid = s
          /\ req'[r].found = req[r].found /\ req'[r].answer = req[r].answer
        BY <1>2, <2>1 DEF Request, Pcs
    <2>3. ReqOK(r)'
        BY <1>1, <1>2, <1>3, <2>2, Active DEF ReqOK, Exists, Holding
    <2>4. Actor(r)
        BY <1>3, <2>2, <2>3 DEF IInv, TypeOK, Actor, Same
    <2> QED BY <1>1, <1>3, <2>4, AsideKeeps DEF IInv, TypeOK
<1>4. CASE claim.sid = Nil
    <2>1. Kept /\ ClaimOK' /\ claim' \in Claim /\ claim'.sid = s /\ claim'.made
          /\ res' \in [Resources -> {"none", "sent", "live", "gone"}]
        BY <1>1, <1>2, <1>4, Attached
    <2>2. CASE req[r].found = {s}
        <3>1. Actor(r)
            BY <1>2, <1>4, <2>1, <2>2, ResolvedActs
        <3> QED BY <1>1, <2>1, <3>1, Together DEF IInv, TypeOK
    <2>3. CASE req[r].found # {s}
        <3>1. req'[r] = [req[r] EXCEPT !.pc = "discard", !.sid = s, !.found = req[r].found \ {s}]
              /\ req[r] \in Request
            BY <1>4, <2>3, Active DEF IInv, TypeOK
        <3>7. req[r].found \ {s} \in SUBSET Resources /\ "discard" \in Pcs
            BY Active DEF Pcs
        <3> PICK rest \in SUBSET Resources : rest = req[r].found \ {s}
            BY <3>7
        <3>8. req'[r] = [req[r] EXCEPT !.pc = "discard", !.sid = s, !.found = rest]
            BY <3>1
        <3>2. req'[r] \in Request /\ req'[r].pc = "discard" /\ req'[r].sid = s
              /\ req'[r].found = rest /\ req'[r].answer = req[r].answer
            BY <1>2, <3>1, <3>7, <3>8 DEF Request
        <3>5. \A x \in Resources : Exists(x)' <=> Exists(x)
            BY <1>1 DEF Exists
        <3>6. /\ \A x \in req[r].found : Exists(x)
              /\ req[r].found \subseteq Resources /\ req[r].answer # "ok"
            BY <1>1, Active DEF ReqOK, At
        <3>3. ReqOK(r)'
            BY <1>2, <2>1, <3>2, <3>5, <3>6 DEF ReqOK, Holding
        <3>4. Actor(r)
            BY <1>4, <2>3, <3>2, <3>3 DEF IInv, TypeOK, Actor, Same
        <3> QED BY <1>1, <2>1, <3>4, Together DEF IInv, TypeOK
    <2> QED BY <2>2, <2>3
<1> QED BY <1>3, <1>4

-----------------------------------------------------------------------------
(* Steps that change what Twilio has                                         *)

\* Twilio's resources change, none that exists is lost but for good, and the
\* claim stays.
LEMMA TwilioKeeps ==
    ASSUME IInv, NEW s \in Resources, NEW state \in {"none", "sent", "live", "gone"},
           res' = [res EXCEPT ![s] = state], res[s] = "none" \/ state = "gone", UNCHANGED claim
    PROVE  Kept /\ ClaimOK' /\ claim' \in Claim /\ (claim'.sid # Nil => claim'.made)
           /\ res' \in [Resources -> {"none", "sent", "live", "gone"}]
<1>1. res' \in [Resources -> {"none", "sent", "live", "gone"}]
    BY DEF IInv, TypeOK
<1>2. \A t \in Resources : (Exists(t) => Exists(t)') /\ (res[t] = "gone" => res'[t] = "gone")
    BY DEF IInv, TypeOK, Exists
<1>3. Kept
    BY <1>2 DEF Kept
<1>4. claim.sid \in Resources \cup {Nil} /\ claim \in Claim /\ (claim.sid # Nil => claim.made)
    BY Active DEF IInv, TypeOK, Claim
<1> QED BY <1>1, <1>2, <1>3, <1>4 DEF IInv, ClaimOK

LEMMA CreateKeeps == ASSUME IInv, NEW r \in Requests, Create(r) PROVE Kept /\ IInv'
<1>1. UNCHANGED <<kind, claim, col, faults, vanished>> /\ req[r].pc = "create" /\ claim.made
    BY Active DEF Create, At
<1>2. PICK s \in Sids : /\ res[s] = "none" /\ res' = [res EXCEPT ![s] = "live"]
                        /\ req' = [req EXCEPT ![r].pc = "attach", ![r].found = {s}]
    BY DEF Create
<1>3. s \in Resources
    BY DEF Resources
<1>4. Kept /\ ClaimOK' /\ claim' \in Claim /\ (claim'.sid # Nil => claim'.made)
      /\ res' \in [Resources -> {"none", "sent", "live", "gone"}]
    BY <1>1, <1>2, <1>3, TwilioKeeps
<1>5. PICK old \in Request : old = req[r]
    BY Active
<1>a. PICK found \in SUBSET Resources : found = {s}
    BY <1>3
<1> DEFINE new == [old EXCEPT !.pc = "attach", !.found = found]
<1>6. req' = [req EXCEPT ![r] = new] /\ req'[r] = new
    BY <1>2, <1>5, <1>a DEF IInv, TypeOK
<1>7. new \in Request /\ new.pc = "attach" /\ new.found = found /\ new.sid = old.sid /\ new.answer = old.answer
    BY <1>5, <1>a DEF Request, Pcs
<1> HIDE DEF new
<1>8. \A t \in found : Exists(t)'
    BY <1>2, <1>3, <1>a DEF IInv, TypeOK, Exists
<1>9. old.answer # "ok" /\ (old.sid # Nil => /\ old.sid \in Resources /\ Exists(old.sid)
                                            /\ (old.sid = claim.sid \/ res[old.sid] = "gone"))
    BY <1>1, <1>5, Active DEF ReqOK
<1>10. old.sid # Nil => Exists(old.sid)' /\ (old.sid = claim'.sid \/ res'[old.sid] = "gone")
    BY <1>1, <1>4, <1>9 DEF Kept
<1>11. ReqOK(r)'
    BY <1>1, <1>6, <1>7, <1>8, <1>9, <1>10 DEF ReqOK, Exists, Holding
<1>12. Actor(r)
    BY <1>6, <1>7, <1>11 DEF IInv, TypeOK, Actor, Same
<1> QED BY <1>1, <1>4, <1>12, Together DEF IInv, TypeOK

LEMMA CreateUnansweredKeeps ==
    ASSUME IInv, NEW r \in Requests, CreateUnanswered(r) PROVE Kept /\ IInv'
<1>1. UNCHANGED <<kind, claim, col, vanished>> /\ req[r].pc = "create" /\ claim.made /\ faults' \in Nat
    BY Active DEF CreateUnanswered, At, Fault, IInv, TypeOK
<1> PICK s \in Sids, landed \in {"none", "live", "sent"} :
       res[s] = "none" /\ res' = [res EXCEPT ![s] = landed]
    BY DEF CreateUnanswered
<1>2. s \in Resources
    BY DEF Resources
<1>3. Kept /\ ClaimOK' /\ claim' \in Claim /\ (claim'.sid # Nil => claim'.made)
      /\ res' \in [Resources -> {"none", "sent", "live", "gone"}]
    BY <1>1, <1>2, TwilioKeeps
<1>4. req' = [req EXCEPT ![r].pc = "again", ![r].alone = FALSE]
    BY DEF CreateUnanswered
<1>5. req'[r] = [req[r] EXCEPT !.pc = "again", !.alone = FALSE] /\ req[r] \in Request
    BY <1>4, Active DEF IInv, TypeOK
<1>6. req'[r] \in Request /\ req'[r].pc = "again" /\ req'[r].sid = req[r].sid
      /\ req'[r].found = req[r].found /\ req'[r].answer = req[r].answer
    BY <1>5 DEF Request, Pcs
<1>7. ReqOK(r)'
    BY <1>1, <1>3, <1>6, Active DEF ReqOK, Kept, Exists, Holding
<1>8. Actor(r)
    BY <1>4, <1>6, <1>7 DEF IInv, TypeOK, Actor, Same
<1> QED BY <1>1, <1>3, <1>8, Together DEF IInv, TypeOK

\* A withdrawal leaves the request with a resource that is the claim's or gone.
LEMMA WithdrawKeeps == ASSUME IInv, NEW r \in Requests, Withdraw(r) PROVE Kept /\ IInv'
<1>1. UNCHANGED <<kind, claim, col, vanished>> /\ req[r].pc \in {"discard", "withdraw"} /\ claim.made
    BY Active DEF Withdraw
<1> PICK s \in req[r].found :
       /\ \/ res' = [res EXCEPT ![s] = "gone"] /\ UNCHANGED faults
          \/ Fault /\ UNCHANGED res
       /\ IF req[r].found # {s} THEN req' = [req EXCEPT ![r].found = @ \ {s}]
          ELSE IF At(r, "withdraw") /\ kind = "address"
          THEN req' = [req EXCEPT ![r].pc = "verify", ![r].found = {}]
          ELSE Resolved(r, req[r].sid)
    BY DEF Withdraw
<1>2. s \in Resources /\ faults' \in Nat
    BY Active DEF Fault, IInv, TypeOK
<1>3. Kept /\ ClaimOK' /\ claim' \in Claim /\ (claim'.sid # Nil => claim'.made)
      /\ res' \in [Resources -> {"none", "sent", "live", "gone"}]
    <2>1. CASE res' = [res EXCEPT ![s] = "gone"]
        BY <1>1, <1>2, <2>1, TwilioKeeps
    <2>2. CASE UNCHANGED res
        BY <1>1, <2>2, Aside
    <2> QED BY <2>1, <2>2
<1>4. req[r].sid \in Resources /\ Exists(req[r].sid) /\ ReqOK(r) /\ req[r] \in Request
      /\ (req[r].sid = claim.sid \/ res[req[r].sid] = "gone")
    BY <1>1, Active DEF ReqOK, Holding
<1>5. ASSUME NEW new \in Request, req' = [req EXCEPT ![r] = new],
             new.pc \in {"discard", "withdraw", "verify"}, new.found \subseteq req[r].found,
             new.sid = req[r].sid, new.answer = req[r].answer
      PROVE  Kept /\ IInv'
    <2>1. req'[r] = new
        BY <1>5 DEF IInv, TypeOK
    <2>2. ReqOK(r)'
        BY <1>1, <1>3, <1>4, <1>5, <2>1, Active DEF ReqOK, Kept, Exists, Holding
    <2>3. Actor(r)
        BY <1>5, <2>2 DEF IInv, TypeOK, Actor, Same
    <2> QED BY <1>1, <1>2, <1>3, <2>3, Together DEF IInv, TypeOK
<1>6. CASE Resolved(r, req[r].sid)
    <2> PICK sid \in Resources : sid = req[r].sid
        BY <1>4
    <2>1. Resolved(r, sid) /\ Exists(sid)' /\ (sid = claim'.sid \/ res'[sid] = "gone") /\ claim'.made
        BY <1>1, <1>3, <1>4, <1>6 DEF Kept
    <2>2. Actor(r)
        BY <2>1, ResolvedActs
    <2> QED BY <1>1, <1>2, <1>3, <2>2, Together DEF IInv, TypeOK
<1>7. CASE req' = [req EXCEPT ![r].found = @ \ {s}]
    <2> DEFINE new == [req[r] EXCEPT !.found = @ \ {s}]
    <2>1. req' = [req EXCEPT ![r] = new]
        BY <1>7
    <2>2. new \in Request /\ new.pc = req[r].pc /\ new.found = req[r].found \ {s}
          /\ new.sid = req[r].sid /\ new.answer = req[r].answer
        BY <1>4 DEF Request
    <2> QED BY <1>1, <1>5, <2>1, <2>2
<1>8. CASE req' = [req EXCEPT ![r].pc = "verify", ![r].found = {}]
    <2> DEFINE new == [req[r] EXCEPT !.pc = "verify", !.found = {}]
    <2>1. req' = [req EXCEPT ![r] = new]
        BY <1>8
    <2>2. new \in Request /\ new.pc = "verify" /\ new.found = {}
          /\ new.sid = req[r].sid /\ new.answer = req[r].answer
        BY <1>4 DEF Request, Pcs
    <2> QED BY <1>5, <2>1, <2>2
<1> QED BY <1>6, <1>7, <1>8

-----------------------------------------------------------------------------
(* Every step keeps the first layer                                          *)

LEMMA StepKeeps == ASSUME IInv, NEW r \in Requests, Step(r) PROVE Kept /\ IInv'
<1>1. CASE Start(r) \/ Find(r) \/ Insert(r) \/ Wait(r) \/ Verify(r) \/ Retire(r) \/ Reread(r)
    BY <1>1, StartKeeps, FindKeeps, InsertKeeps, WaitKeeps, VerifyKeeps, RetireKeeps, RereadKeeps
<1>2. CASE Lookup(r) \/ Take(r) \/ TakeStale(r) \/ Seed(r) \/ AttachSeed(r) \/ FollowSeed(r)
    BY <1>2, LookupKeeps, TakeKeeps, SeedKeeps, AttachSeedKeeps, FollowSeedKeeps
<1>3. CASE Create(r) \/ CreateUnanswered(r) \/ CreateRefused(r) \/ RecordFailure(r) \/ Again(r) \/ Release(r)
    BY <1>3, CreateKeeps, CreateUnansweredKeeps, RefusedKeeps, GivesUpKeeps, AgainKeeps
<1>4. CASE Attach(r) \/ Lost(r) \/ Withdraw(r) \/ Refetch(r) \/ Column(r) \/ Unavailable(r) \/ Stop(r)
    BY <1>4, AttachKeeps, LostKeeps, WithdrawKeeps, RefetchKeeps, ColumnKeeps, UnavailableKeeps, StopKeeps
<1> QED BY <1>1, <1>2, <1>3, <1>4 DEF Step

LEMMA NextKeeps == ASSUME IInv, [Next]_vars PROVE Kept /\ IInv'
<1>1. CASE UNCHANGED vars
    <2>1. UNCHANGED <<kind, claim, col, res, req, faults, vanished>>
        BY <1>1 DEF vars
    <2>2. Kept /\ TypeOK' /\ ClaimOK' /\ \A q \in Requests : Same(q)
        BY <2>1 DEF IInv, Kept, TypeOK, ClaimOK, Exists, Same
    <2> QED BY <2>2, OthersKept DEF IInv
<1>2. CASE \E r \in Requests : Step(r)
    BY <1>2, StepKeeps
<1>3. CASE Lapse \/ (\E s \in Resources : Land(s) \/ Vanish(s))
    BY <1>3, WorldKeepsIInv
<1> QED BY <1>1, <1>2, <1>3 DEF Next

-----------------------------------------------------------------------------
(* The second layer: who creates, who withdraws, who is alone                *)

\* Nobody deletes by hand: nothing is lost before the claim names a resource, what it
\* names is not lost, and who withdraws has read what it names.
WinnerOK(r) == req[r].pc \in {"discard", "withdraw"} => claim.sid # Nil /\ claim.sid \notin req[r].found

Winner ==
    vanished = 0 =>
        /\ claim.sid = Nil => \A s \in Resources : res[s] # "gone"
        /\ claim.sid # Nil => res[claim.sid] # "gone"
        /\ \A r \in Requests : WinnerOK(r)

\* On the way to a create, or just refused one.
Attempting == {"seed", "attach_seed", "follow_seed", "create", "refused", "again", "release"}

\* Nothing goes wrong: only a lease's holder is on the way to a create, nothing was
\* created before it is there, and what a request found is what there is.
Orderly(pc, own, sid, found) ==
    /\ pc \in Attempting => own
    /\ own => claim.made /\ claim.fresh /\ ~claim.failed
    /\ own /\ pc \in Attempting \cup {"lookup"} => claim.sid = Nil /\ Marked = {}
    /\ own => pc \in Attempting \cup {"lookup", "attach", "lost", "verify"}
    /\ own /\ pc \in {"lost", "verify"} => claim.sid # Nil
    /\ pc \notin {"follow_seed", "retire", "reread", "discard", "withdraw"}
    /\ found \subseteq Marked
    /\ pc = "attach" => found # {}
    /\ pc = "lost" => sid \in Marked /\ claim.sid # Nil

Owner(r) == req[r].own

OwnerOK(r) == Orderly(req[r].pc, req[r].own, req[r].sid, req[r].found)

Calm == faults = 0 /\ vanished = 0

Single ==
    Calm =>
        /\ \A r \in Requests : OwnerOK(r)
        /\ \A r, q \in Requests : Owner(r) /\ Owner(q) => r = q
        /\ \A s \in Resources : res[s] \notin {"sent", "gone"}
        /\ \A s, t \in Marked : s = t
        /\ ~claim.made => Marked = {} /\ ~claim.failed
        /\ Marked # {} => \/ claim.sid \in Marked
                          \/ claim.sid = Nil /\ \E r \in Requests : Owner(r) /\ req[r].pc = "attach"

\* A request that has the scope to itself meets no lease and loses no race, and what it
\* has in hand is the claim's.
Unhindered(pc, own, sid, answer) ==
    /\ pc \notin {"idle", "wait", "reread", "follow_seed", "lost", "withdraw"}
    /\ pc = "find" => Open
    /\ pc = "insert" => ~claim.made
    /\ pc = "lookup" /\ ~own => Open
    /\ pc \in {"take", "take_stale"} => ~own /\ Open
    /\ pc = "take_stale" => ~claim.failed
    /\ pc \in {"lookup", "take", "take_stale", "seed", "attach_seed", "create", "attach", "again"} =>
          claim.sid = Nil
    /\ pc \in {"verify", "retire", "discard", "refetch", "column"} => sid = claim.sid
    /\ pc = "done" =>
          /\ answer # "in_progress"
          /\ answer = "ok" => claim.sid = sid /\ (kind = "address" \/ col = claim.sid)
          /\ Open \/ answer = "conflict"

AloneOK(r) == req[r].alone => /\ Unhindered(req[r].pc, req[r].own, req[r].sid, req[r].answer)
                              /\ \A q \in Requests \ {r} : Resting(q)

Lonely == \A r \in Requests : AloneOK(r)

IInv2 == IInv /\ Winner /\ Single /\ Lonely

-----------------------------------------------------------------------------
(* What each step does to the request that takes it                          *)

Acts(r, pc, own, sid, found, answer) ==
    /\ req'[r].pc = pc /\ req'[r].own = own /\ req'[r].sid = sid /\ req'[r].found = found
    /\ req'[r].answer = answer /\ req'[r].alone = req[r].alone
    /\ \A q \in Requests \ {r} : req'[q] = req[q]

\* It leaves the claim and Twilio alone.
Beside == UNCHANGED <<kind, claim, res, faults, vanished>>

LEMMA GotoDoes ==
    ASSUME IInv, NEW r \in Requests, NEW pc, Goto(r, pc)
    PROVE  Acts(r, pc, req[r].own, req[r].sid, req[r].found, req[r].answer)
<1>1. req'[r] = [req[r] EXCEPT !.pc = pc] /\ \A q \in Requests \ {r} : req'[q] = req[q]
    BY DEF IInv, TypeOK, Goto
<1>2. req[r] \in Request
    BY Active
<1> QED BY <1>1, <1>2 DEF Acts, Request

LEMMA EndDoes ==
    ASSUME IInv, NEW r \in Requests, NEW pc, NEW answer, NEW sid, End(r, pc, answer, sid)
    PROVE  Acts(r, pc, FALSE, sid, {}, answer)
<1>1. req'[r] = [Fresh EXCEPT !.pc = pc, !.answer = answer, !.sid = sid, !.alone = req[r].alone]
      /\ \A q \in Requests \ {r} : req'[q] = req[q]
    BY DEF IInv, TypeOK, End
<1> QED BY <1>1 DEF Acts, Fresh

InHandActs2(r, sid) ==
    \/ kind = "address" /\ Acts(r, "done", FALSE, sid, {}, "ok")
    \/ kind # "address" /\ Acts(r, "refetch", FALSE, sid, {}, "none")
    \/ kind # "address" /\ Acts(r, "column", FALSE, sid, {}, "none")

LEMMA InHandDoes ==
    ASSUME IInv, NEW r \in Requests, NEW sid, NEW retired, InHand(r, sid, retired)
    PROVE  InHandActs2(r, sid)
<1>1. CASE kind = "address"
    <2>1. End(r, "done", "ok", sid)
        BY <1>1 DEF InHand
    <2> QED BY <1>1, <2>1, EndDoes DEF InHandActs2
<1>2. CASE kind # "address"
    <2>1. PICK pc \in {"refetch", "column"} :
                req'[r] = [Fresh EXCEPT !.pc = pc, !.sid = sid, !.retired = retired,
                                        !.seed = req[r].seed, !.alone = req[r].alone]
          /\ \A q \in Requests \ {r} : req'[q] = req[q]
        BY <1>2 DEF InHand, IInv, TypeOK
    <2>2. Acts(r, pc, FALSE, sid, {}, "none")
        BY <2>1 DEF Acts, Fresh
    <2> QED BY <1>2, <2>2 DEF InHandActs2
<1> QED BY <1>1, <1>2

LEMMA AnswerDoes ==
    ASSUME IInv, NEW r \in Requests, NEW answer, Answer(r, answer)
    PROVE  Acts(r, "done", FALSE, Nil, {}, answer)
BY EndDoes DEF Answer

LEMMA ResolvedDoes ==
    ASSUME IInv, NEW r \in Requests, NEW sid, Resolved(r, sid)
    PROVE  InHandActs2(r, sid)
BY InHandDoes DEF Resolved

-----------------------------------------------------------------------------
(* What the layers ask of a step                                             *)

LEMMA Shapes ==
    ASSUME IInv
    PROVE  /\ Marked \subseteq Resources /\ Nil \notin Resources /\ faults \in Nat /\ vanished \in Nat
           /\ claim \in Claim /\ claim.sid \in Resources \cup {Nil} /\ claim.fresh \in BOOLEAN
           /\ \A q \in Requests : /\ req[q].own \in BOOLEAN /\ req[q].alone \in BOOLEAN
                                  /\ req[q].found \subseteq Resources
BY Active, OldAssumption DEF IInv, TypeOK, Marked, Request, Claim, Resources

\* A request that took a step was alone only if no other is under way.
LEMMA LonelyHere ==
    ASSUME Lonely, NEW r \in Requests, ~Resting(r), req'[r].alone = req[r].alone,
           \A q \in Requests \ {r} : req'[q] = req[q],
           req[r].alone => Unhindered(req[r].pc, req[r].own, req[r].sid, req[r].answer)'
    PROVE  Lonely'
<1> SUFFICES ASSUME NEW q \in Requests, req'[q].alone PROVE AloneOK(q)'
    BY DEF Lonely, AloneOK
<1>1. CASE q = r
    <2>1. req[r].alone /\ \A p \in Requests \ {r} : Resting(p) /\ req'[p] = req[p]
        BY <1>1 DEF Lonely, AloneOK
    <2>2. \A p \in Requests \ {r} : Resting(p)'
        BY <2>1 DEF Resting
    <2> QED BY <1>1, <2>1, <2>2 DEF AloneOK
<1>2. CASE q # r
    BY <1>2 DEF Lonely, AloneOK
<1> QED BY <1>1, <1>2

LEMMA LonelyStep ==
    ASSUME Lonely, NEW r \in Requests, ~Resting(r),
           NEW pc, NEW own, NEW sid, NEW found, NEW answer, Acts(r, pc, own, sid, found, answer),
           req[r].alone => Unhindered(pc, own, sid, answer)'
    PROVE  Lonely'
<1>1. req[r].alone => Unhindered(req[r].pc, req[r].own, req[r].sid, req[r].answer)'
    BY DEF Acts
<1> QED BY <1>1, LonelyHere DEF Acts

\* A step that was not one of a request that is alone.
LEMMA LonelyLost ==
    ASSUME Lonely, NEW r \in Requests, ~Resting(r), ~req'[r].alone,
           \A q \in Requests \ {r} : req'[q] = req[q]
    PROVE  Lonely'
BY DEF Lonely, AloneOK

LEMMA WinnerStep ==
    ASSUME IInv, Winner, NEW r \in Requests, claim'.sid = claim.sid, vanished' = vanished,
           \A s \in Resources : res'[s] = "gone" => res[s] = "gone",
           \A q \in Requests \ {r} : req'[q] = req[q],
           vanished = 0 => WinnerOK(r)'
    PROVE  Winner'
<1>1. claim.sid \in Resources \cup {Nil}
    BY Shapes
<1> QED BY <1>1 DEF Winner, WinnerOK

LEMMA SingleFaulty == ASSUME IInv, Fault PROVE Single'
BY Shapes DEF Fault, Single, Calm

\* The claim, and what Twilio has, are as they were.
LEMMA SingleBeside ==
    ASSUME Single, NEW r \in Requests, Beside,
           NEW pc, NEW own, NEW sid, NEW found, NEW answer, Acts(r, pc, own, sid, found, answer),
           Calm => /\ Orderly(pc, own, sid, found)
                   /\ own => Owner(r)
                   /\ Owner(r) /\ req[r].pc = "attach" => claim.sid # Nil
    PROVE  Single'
<1> SUFFICES ASSUME Calm'
             PROVE  /\ \A q \in Requests : OwnerOK(q)'
                    /\ \A p, q \in Requests : Owner(p)' /\ Owner(q)' => p = q
                    /\ \A s \in Resources : res'[s] \notin {"sent", "gone"}
                    /\ \A s, t \in Marked' : s = t
                    /\ ~claim'.made => Marked' = {} /\ ~claim'.failed
                    /\ Marked' # {} =>
                          \/ claim'.sid \in Marked'
                          \/ claim'.sid = Nil /\ \E q \in Requests : Owner(q)' /\ req'[q].pc = "attach"
    BY DEF Single
<1>1. Calm /\ Marked' = Marked /\ claim' = claim /\ res' = res
    BY DEF Beside, Calm, Marked
<1>2. \A q \in Requests \ {r} : OwnerOK(q)' /\ Owner(q)' = Owner(q) /\ req'[q] = req[q]
    BY <1>1 DEF Single, Acts, OwnerOK, Orderly, Owner
<1>3. OwnerOK(r)' /\ (Owner(r)' => Owner(r))
    BY <1>1 DEF Acts, OwnerOK, Orderly, Owner
<1>4. \A q \in Requests : OwnerOK(q)'
    BY <1>2, <1>3
<1>5. \A p, q \in Requests : Owner(p)' /\ Owner(q)' => p = q
    BY <1>1, <1>2, <1>3 DEF Single
<1>6. Marked' # {} =>
          \/ claim'.sid \in Marked'
          \/ claim'.sid = Nil /\ \E q \in Requests : Owner(q)' /\ req'[q].pc = "attach"
    <2> SUFFICES ASSUME Marked # {}, claim.sid \notin Marked
                 PROVE claim.sid = Nil /\ \E q \in Requests : Owner(q)' /\ req'[q].pc = "attach"
        BY <1>1
    <2>1. PICK q \in Requests : claim.sid = Nil /\ Owner(q) /\ req[q].pc = "attach"
        BY <1>1 DEF Single
    <2>2. q # r
        BY <1>1, <2>1
    <2> QED BY <1>2, <2>1, <2>2
<1> QED BY <1>1, <1>4, <1>5, <1>6 DEF Single

\* A step of one request that leaves the claim and Twilio alone.
LEMMA BesideStep ==
    ASSUME IInv2, IInv', NEW r \in Requests, Beside, ~Resting(r),
           NEW pc, NEW own, NEW sid, NEW found, NEW answer, Acts(r, pc, own, sid, found, answer),
           Winner => (vanished = 0 /\ pc \in {"discard", "withdraw"} => claim.sid # Nil /\ claim.sid \notin found),
           Calm => /\ Orderly(pc, own, sid, found)
                   /\ own => Owner(r)
                   /\ Owner(r) /\ req[r].pc = "attach" => claim.sid # Nil,
           req[r].alone => Unhindered(pc, own, sid, answer)'
    PROVE  IInv2'
<1>1. Winner'
    <2>1. vanished = 0 => WinnerOK(r)'
        BY DEF IInv2, Acts, WinnerOK, Beside
    <2>2. /\ claim'.sid = claim.sid /\ vanished' = vanished
          /\ \A s \in Resources : res'[s] = "gone" => res[s] = "gone"
          /\ \A q \in Requests \ {r} : req'[q] = req[q]
        BY DEF Beside, Acts
    <2> QED BY <2>1, <2>2, WinnerStep DEF IInv2
<1>2. Single'
    BY SingleBeside DEF IInv2
<1>3. Lonely'
    BY LonelyStep DEF IInv2
<1> QED BY <1>1, <1>2, <1>3 DEF IInv2

\* One that does not bring a column into line either.
LEMMA BesideKeeps2 ==
    ASSUME IInv2, IInv', NEW r \in Requests, Beside, ~Resting(r),
           NEW pc, NEW own, NEW sid, NEW found, NEW answer, Acts(r, pc, own, sid, found, answer),
           Winner => (vanished = 0 /\ pc \in {"discard", "withdraw"} => claim.sid # Nil /\ claim.sid \notin found),
           Calm => /\ Orderly(pc, own, sid, found)
                   /\ own => Owner(r)
                   /\ Owner(r) /\ req[r].pc = "attach" => claim.sid # Nil,
           pc # "done" \/ answer # "ok" \/ kind = "address",
           req[r].alone => Unhindered(pc, own, sid, answer)
    PROVE  IInv2'
<1>1. req[r].alone => Unhindered(pc, own, sid, answer)'
    BY DEF Unhindered, Beside, Open
<1> QED BY <1>1, BesideStep

\* A request that ends with a resource in hand is out of every race.
LEMMA InHandBeside ==
    ASSUME IInv2, IInv', NEW r \in Requests, Beside, ~Resting(r), req[r].pc # "attach",
           NEW sid, InHandActs2(r, sid), req[r].alone => sid = claim.sid /\ sid # Nil
    PROVE  IInv2'
<1>1. Orderly("done", FALSE, sid, {}) /\ Orderly("refetch", FALSE, sid, {}) /\ Orderly("column", FALSE, sid, {})
    BY DEF Orderly, Attempting
<1>2. req[r].alone => /\ kind = "address" => Unhindered("done", FALSE, sid, "ok")
                      /\ Unhindered("refetch", FALSE, sid, "none")
                      /\ Unhindered("column", FALSE, sid, "none")
    BY DEF Unhindered, Open
<1>3. CASE kind = "address" /\ Acts(r, "done", FALSE, sid, {}, "ok")
    BY <1>1, <1>2, <1>3, BesideKeeps2
<1>4. CASE Acts(r, "refetch", FALSE, sid, {}, "none")
    BY <1>1, <1>2, <1>4, BesideKeeps2
<1>5. CASE Acts(r, "column", FALSE, sid, {}, "none")
    BY <1>1, <1>2, <1>5, BesideKeeps2
<1> QED BY <1>3, <1>4, <1>5 DEF InHandActs2

LEMMA AnswerBeside ==
    ASSUME IInv2, IInv', NEW r \in Requests, Beside, ~Resting(r), req[r].pc # "attach",
           NEW answer, Acts(r, "done", FALSE, Nil, {}, answer), answer # "ok",
           req[r].alone => answer # "in_progress" /\ (claim.sid # Nil \/ answer = "conflict")
    PROVE  IInv2'
<1>1. Orderly("done", FALSE, Nil, {})
    BY DEF Orderly, Attempting
<1>2. req[r].alone => Unhindered("done", FALSE, Nil, answer)
    BY DEF Unhindered, Open
<1> QED BY <1>1, <1>2, BesideKeeps2

\* A request that only goes on.
LEMMA GotoBeside ==
    ASSUME IInv2, IInv', NEW r \in Requests, Beside, ~Resting(r), req[r].pc # "attach",
           NEW pc, Goto(r, pc), pc \notin {"discard", "withdraw"},
           Calm => Orderly(pc, req[r].own, req[r].sid, req[r].found), pc # "done",
           req[r].alone => Unhindered(pc, req[r].own, req[r].sid, req[r].answer)
    PROVE  IInv2'
<1>1. Acts(r, pc, req[r].own, req[r].sid, req[r].found, req[r].answer)
    BY GotoDoes DEF IInv2
<1> QED BY <1>1, BesideKeeps2 DEF Owner

\* What a request that is not alone, or not in an orderly state, need not show.
LEMMA Known ==
    ASSUME IInv2, NEW r \in Requests
    PROVE  /\ req[r].alone => Unhindered(req[r].pc, req[r].own, req[r].sid, req[r].answer)
           /\ Calm => Orderly(req[r].pc, req[r].own, req[r].sid, req[r].found)
BY DEF IInv2, Lonely, AloneOK, Single, OwnerOK

-----------------------------------------------------------------------------
(* Steps beside the claim, in the second layer                               *)

LEMMA FindKeeps2 == ASSUME IInv2, IInv', NEW r \in Requests, Find(r) PROVE IInv2'
<1>1. Beside /\ req[r].pc = "find" /\ ~Resting(r)
    BY DEF Find, Beside, At, Resting
<1> DEFINE pc == IF ~claim.made THEN "insert" ELSE IF claim.sid # Nil THEN "verify" ELSE "lookup"
<1>2. req'[r] = [req[r] EXCEPT !.pc = pc, !.sid = claim.sid] /\ \A q \in Requests \ {r} : req'[q] = req[q]
    BY DEF Find, IInv2, IInv, TypeOK
<1>3. /\ pc \in {"insert", "verify", "lookup"} /\ (pc = "insert" => ~claim.made)
      /\ (pc = "verify" => claim.sid # Nil) /\ (pc = "lookup" => claim.sid = Nil)
    OBVIOUS
<1> HIDE DEF pc
<1>4. Acts(r, pc, req[r].own, claim.sid, req[r].found, req[r].answer)
    <2>1. req[r] \in Request
        BY Active DEF IInv2
    <2> QED BY <1>2, <2>1 DEF Acts, Request
<1>5. Calm => Orderly(pc, req[r].own, claim.sid, req[r].found) /\ ~Owner(r)
    BY <1>1, <1>3, Known DEF Orderly, Attempting, Owner
<1>6. req[r].alone => Unhindered(pc, req[r].own, claim.sid, req[r].answer)
    BY <1>1, <1>3, Known DEF Unhindered
<1> QED BY <1>1, <1>3, <1>4, <1>5, <1>6, BesideKeeps2 DEF Owner

LEMMA WaitKeeps2 == ASSUME IInv2, IInv', NEW r \in Requests, Wait(r) PROVE IInv2'
<1>1. Beside /\ req[r].pc = "wait" /\ ~Resting(r) /\ ~req[r].alone /\ IInv
    BY Known DEF Wait, Beside, At, Resting, Unhindered, IInv2
<1>2. CASE Resolved(r, claim.sid)
    BY <1>1, <1>2, ResolvedDoes, InHandBeside
<1>3. CASE \E answer \in Answers \ {"ok"} : Answer(r, answer)
    BY <1>1, <1>3, AnswerDoes, AnswerBeside
<1>4. CASE req' = [req EXCEPT ![r].pc = "verify", ![r].sid = claim.sid] /\ claim.sid # Nil
    <2>1. req'[r] = [req[r] EXCEPT !.pc = "verify", !.sid = claim.sid] /\ \A q \in Requests \ {r} : req'[q] = req[q]
        BY <1>4 DEF IInv2, IInv, TypeOK
    <2>2. req[r] \in Request
        BY Active DEF IInv2
    <2>3. Acts(r, "verify", req[r].own, claim.sid, req[r].found, req[r].answer)
        BY <2>1, <2>2 DEF Acts, Request
    <2>4. Calm => Orderly("verify", req[r].own, claim.sid, req[r].found)
        BY <1>1, <1>4, Known DEF Orderly, Attempting
    <2> QED BY <1>1, <2>3, <2>4, BesideKeeps2 DEF Owner
<1> QED BY <1>2, <1>3, <1>4 DEF Wait, Answers

LEMMA VerifyKeeps2 == ASSUME IInv2, IInv', NEW r \in Requests, Verify(r) PROVE IInv2'
<1>1. Beside /\ req[r].pc = "verify" /\ ~Resting(r) /\ IInv
    BY DEF Verify, Beside, At, Resting, IInv2
<1>2. /\ req[r].sid \in Resources /\ Exists(req[r].sid) /\ (req[r].alone => req[r].sid = claim.sid)
      /\ (Calm => res[req[r].sid] # "gone")
    <2>1. req[r].sid \in Resources /\ Exists(req[r].sid)
        BY <1>1, Active DEF ReqOK, Holding
    <2>2. req[r].alone => req[r].sid = claim.sid
        BY <1>1, Known DEF Unhindered
    <2> QED BY <2>1, <2>2 DEF IInv2, Single
<1>3. CASE Resolved(r, req[r].sid)
    BY <1>1, <1>2, <1>3, ResolvedDoes, InHandBeside, Shapes
<1>4. CASE res[req[r].sid] # "live" /\ req' = [req EXCEPT ![r].pc = "retire", ![r].retired = TRUE]
    <2>1. req'[r] = [req[r] EXCEPT !.pc = "retire", !.retired = TRUE] /\ \A q \in Requests \ {r} : req'[q] = req[q]
        BY <1>4 DEF IInv2, IInv, TypeOK
    <2>2. req[r] \in Request
        BY Active DEF IInv2
    <2>3. Acts(r, "retire", req[r].own, req[r].sid, req[r].found, req[r].answer)
        BY <2>1, <2>2 DEF Acts, Request
    <2>4. ~Calm
        BY <1>2, <1>4 DEF Exists
    <2>5. req[r].alone => Unhindered("retire", req[r].own, req[r].sid, req[r].answer)
        BY <1>2 DEF Unhindered
    <2> QED BY <1>1, <2>3, <2>4, <2>5, BesideKeeps2
<1>5. CASE Answer(r, "human") \/ Answer(r, "unavailable")
    <2>1. req[r].alone => claim.sid # Nil
        BY <1>1, <1>2, Shapes
    <2> QED BY <1>1, <1>5, <2>1, AnswerDoes, AnswerBeside
<1> QED BY <1>3, <1>4, <1>5 DEF Verify

LEMMA RereadKeeps2 == ASSUME IInv2, IInv', NEW r \in Requests, Reread(r) PROVE IInv2'
<1>1. Beside /\ req[r].pc = "reread" /\ ~Resting(r) /\ ~req[r].alone /\ IInv
    BY Known DEF Reread, Beside, At, Resting, Unhindered, IInv2
<1>2. CASE Resolved(r, claim.sid)
    BY <1>1, <1>2, ResolvedDoes, InHandBeside
<1>3. CASE Answer(r, "in_progress")
    BY <1>1, <1>3, AnswerDoes, AnswerBeside
<1> QED BY <1>2, <1>3 DEF Reread

\* What was found is what there is, when the request was the one to find it.
LEMMA AdoptKeeps2 ==
    ASSUME IInv2, IInv', NEW r \in Requests, Beside, req[r].pc \in {"lookup", "again"},
           Marked # {}, Adopt(r, Marked)
    PROVE  IInv2'
<1>1. ~Resting(r) /\ IInv
    BY DEF Resting, IInv2
<1>2. CASE Answer(r, "conflict")
    BY <1>1, <1>2, AnswerDoes, AnswerBeside
<1>3. CASE req' = [req EXCEPT ![r].pc = "attach", ![r].found = Marked]
    <2>1. req'[r] = [req[r] EXCEPT !.pc = "attach", !.found = Marked] /\ \A q \in Requests \ {r} : req'[q] = req[q]
        BY <1>3 DEF IInv2, IInv, TypeOK
    <2>2. req[r] \in Request
        BY Active DEF IInv2
    <2>3. Acts(r, "attach", req[r].own, req[r].sid, Marked, req[r].answer)
        BY <2>1, <2>2 DEF Acts, Request
    <2>4. Calm => Orderly("attach", req[r].own, req[r].sid, Marked)
        BY Known DEF Orderly, Attempting
    <2>5. req[r].alone => Unhindered("attach", req[r].own, req[r].sid, req[r].answer)
        BY Known DEF Unhindered
    <2> QED BY <1>1, <2>3, <2>4, <2>5, BesideKeeps2 DEF Owner
<1> QED BY <1>2, <1>3 DEF Adopt

LEMMA LookupKeeps2 == ASSUME IInv2, IInv', NEW r \in Requests, Lookup(r) PROVE IInv2'
<1>1. Beside /\ req[r].pc = "lookup" /\ ~Resting(r) /\ IInv
    BY DEF Lookup, Beside, At, Resting, IInv2
<1>2. CASE Marked # {}
    BY <1>1, <1>2, AdoptKeeps2 DEF Lookup
<1>3. CASE Marked = {}
    <2> DEFINE pc == IF ~req[r].own THEN "take" ELSE IF req[r].seed # Nil THEN "seed" ELSE "create"
    <2>1. Goto(r, pc)
        BY <1>3 DEF Lookup
    <2>2. pc \in {"take", "seed", "create"} /\ (pc = "take" <=> ~req[r].own)
        OBVIOUS
    <2> HIDE DEF pc
    <2>3. Calm => Orderly(pc, req[r].own, req[r].sid, req[r].found)
        BY <1>1, <1>3, <2>2, Known DEF Orderly, Attempting
    <2>4. req[r].alone => Unhindered(pc, req[r].own, req[r].sid, req[r].answer)
        BY <1>1, <2>2, Known DEF Unhindered
    <2> QED BY <1>1, <2>1, <2>2, <2>3, <2>4, GotoBeside
<1> QED BY <1>2, <1>3

LEMMA SeedKeeps2 == ASSUME IInv2, IInv', NEW r \in Requests, Seed(r) PROVE IInv2'
<1>1. Beside /\ req[r].pc = "seed" /\ ~Resting(r)
    BY DEF Seed, Beside, At, Resting
<1>2. PICK pc \in {"attach_seed", "create"} : Goto(r, pc)
    BY DEF Seed
<1>3. Calm => Orderly(pc, req[r].own, req[r].sid, req[r].found)
    BY <1>1, Known DEF Orderly, Attempting
<1>4. req[r].alone => Unhindered(pc, req[r].own, req[r].sid, req[r].answer)
    BY <1>1, Known DEF Unhindered
<1> QED BY <1>1, <1>2, <1>3, <1>4, GotoBeside

LEMMA FollowSeedKeeps2 == ASSUME IInv2, IInv', NEW r \in Requests, FollowSeed(r) PROVE IInv2'
<1>1. Beside /\ req[r].pc = "follow_seed" /\ ~Resting(r) /\ ~req[r].alone /\ ~Calm /\ IInv
    BY Known DEF FollowSeed, Beside, At, Resting, Unhindered, Orderly, IInv2
<1>2. CASE InHand(r, claim.sid, FALSE)
    BY <1>1, <1>2, InHandDoes, InHandBeside
<1>3. CASE Goto(r, "create")
    BY <1>1, <1>3, GotoBeside
<1> QED BY <1>2, <1>3 DEF FollowSeed

LEMMA RefusedKeeps2 == ASSUME IInv2, IInv', NEW r \in Requests, CreateRefused(r) PROVE IInv2'
<1>1. Beside /\ req[r].pc = "create" /\ ~Resting(r)
    BY DEF CreateRefused, Beside, At, Resting
<1>2. PICK pc \in {"refused", "again"} : Goto(r, pc)
    BY DEF CreateRefused
<1>3. Calm => Orderly(pc, req[r].own, req[r].sid, req[r].found)
    BY <1>1, Known DEF Orderly, Attempting
<1>4. req[r].alone => Unhindered(pc, req[r].own, req[r].sid, req[r].answer)
    BY <1>1, Known DEF Unhindered
<1> QED BY <1>1, <1>2, <1>3, <1>4, GotoBeside

LEMMA AgainKeeps2 == ASSUME IInv2, IInv', NEW r \in Requests, Again(r) PROVE IInv2'
<1>1. Beside /\ req[r].pc = "again" /\ ~Resting(r)
    BY DEF Again, Beside, At, Resting
<1>2. CASE Marked # {}
    BY <1>1, <1>2, AdoptKeeps2 DEF Again
<1>3. CASE Goto(r, "release")
    <2>1. Calm => Orderly("release", req[r].own, req[r].sid, req[r].found)
        BY <1>1, Known DEF Orderly, Attempting
    <2>2. req[r].alone => Unhindered("release", req[r].own, req[r].sid, req[r].answer)
        BY <1>1, Known DEF Unhindered
    <2> QED BY <1>1, <1>3, <2>1, <2>2, GotoBeside
<1> QED BY <1>2, <1>3 DEF Again

\* A loser withdraws nothing that the claim names.
LEMMA LostKeeps2 == ASSUME IInv2, IInv', NEW r \in Requests, Lost(r) PROVE IInv2'
<1>1. Beside /\ req[r].pc = "lost" /\ ~Resting(r) /\ ~req[r].alone /\ IInv
    BY Known DEF Lost, Beside, At, Resting, Unhindered, IInv2
<1> DEFINE rest == (IF kind = "address" THEN req[r].found ELSE {req[r].sid}) \ {claim.sid}
<1>2. CASE Answer(r, "in_progress")
    BY <1>1, <1>2, AnswerDoes, AnswerBeside
<1>3. CASE Resolved(r, claim.sid)
    BY <1>1, <1>3, ResolvedDoes, InHandBeside
<1>4. CASE claim.sid # Nil /\ rest # {} /\ req' = [req EXCEPT ![r].pc = "withdraw", ![r].sid = claim.sid, ![r].found = rest]
    <2>1. claim.sid \notin rest
        OBVIOUS
    <2>2. Calm => rest = {}
        <3> SUFFICES ASSUME Calm PROVE rest = {}
            OBVIOUS
        <3>1. req[r].found \subseteq Marked /\ req[r].sid \in Marked
            BY <1>1, Known DEF Orderly
        <3>2. claim.sid \in Marked
            BY <1>4, <3>1 DEF IInv2, Single
        <3>3. \A s \in Marked : s = claim.sid
            BY <3>2 DEF IInv2, Single
        <3> QED BY <3>1, <3>3
    <2> HIDE DEF rest
    <2>3. req'[r] = [req[r] EXCEPT !.pc = "withdraw", !.sid = claim.sid, !.found = rest]
          /\ \A q \in Requests \ {r} : req'[q] = req[q]
        BY <1>4 DEF IInv2, IInv, TypeOK
    <2>4. req[r] \in Request
        BY Active DEF IInv2
    <2>5. Acts(r, "withdraw", req[r].own, claim.sid, rest, req[r].answer)
        BY <2>3, <2>4 DEF Acts, Request
    <2> QED BY <1>1, <1>4, <2>1, <2>2, <2>5, BesideKeeps2
<1>5. CASE claim.sid # Nil /\ req' = [req EXCEPT ![r].pc = "verify", ![r].sid = claim.sid]
    <2>1. req'[r] = [req[r] EXCEPT !.pc = "verify", !.sid = claim.sid] /\ \A q \in Requests \ {r} : req'[q] = req[q]
        BY <1>5 DEF IInv2, IInv, TypeOK
    <2>2. req[r] \in Request
        BY Active DEF IInv2
    <2>3. Acts(r, "verify", req[r].own, claim.sid, req[r].found, req[r].answer)
        BY <2>1, <2>2 DEF Acts, Request
    <2>4. Calm => Orderly("verify", req[r].own, claim.sid, req[r].found)
        BY <1>1, <1>5, Known DEF Orderly, Attempting
    <2> QED BY <1>1, <2>3, <2>4, BesideKeeps2 DEF Owner
<1> QED BY <1>2, <1>3, <1>4, <1>5 DEF Lost

LEMMA RefetchKeeps2 == ASSUME IInv2, IInv', NEW r \in Requests, Refetch(r) PROVE IInv2'
<1>1. Beside /\ req[r].pc = "refetch" /\ ~Resting(r) /\ IInv
    BY DEF Refetch, Beside, At, Resting, IInv2
<1>2. req[r].alone => req[r].sid = claim.sid /\ claim.sid # Nil
    BY <1>1, Known, Active DEF Unhindered, ReqOK, Holding
<1>3. CASE Answer(r, "unavailable")
    BY <1>1, <1>2, <1>3, AnswerDoes, AnswerBeside
<1>4. CASE Goto(r, "column")
    <2>1. Calm => Orderly("column", req[r].own, req[r].sid, req[r].found)
        BY <1>1, Known DEF Orderly, Attempting
    <2>2. req[r].alone => Unhindered("column", req[r].own, req[r].sid, req[r].answer)
        BY <1>2 DEF Unhindered
    <2> QED BY <1>1, <1>4, <2>1, <2>2, GotoBeside
<1> QED BY <1>3, <1>4 DEF Refetch

LEMMA ColumnKeeps2 == ASSUME IInv2, IInv', NEW r \in Requests, Column(r) PROVE IInv2'
<1>1. Beside /\ req[r].pc = "column" /\ ~Resting(r) /\ IInv
    BY DEF Column, Beside, At, Resting, IInv2
<1>2. CASE Answer(r, "conflict")
    BY <1>1, <1>2, AnswerDoes, AnswerBeside
<1>3. CASE End(r, "done", "ok", req[r].sid) /\ col' = req[r].sid
    <2> PICK sid \in Resources : sid = req[r].sid
        BY <1>1, Active DEF ReqOK, Holding
    <2>1. Acts(r, "done", FALSE, sid, {}, "ok")
        BY <1>1, <1>3, EndDoes
    <2>2. Orderly("done", FALSE, sid, {})
        BY DEF Orderly, Attempting
    <2>3. req[r].alone => sid = claim.sid /\ claim.sid # Nil
        BY <1>1, Known, Shapes DEF Unhindered
    <2>4. req[r].alone => Unhindered("done", FALSE, sid, "ok")'
        BY <1>1, <1>3, <2>3 DEF Unhindered, Open, Beside
    <2> QED BY <1>1, <2>1, <2>2, <2>4, BesideStep
<1> QED BY <1>2, <1>3 DEF Column

-----------------------------------------------------------------------------
(* Steps that begin, or that write the claim or Twilio, in the second layer  *)

LEMMA StartKeeps2 == ASSUME IInv2, IInv', NEW r \in Requests, Start(r) PROVE IInv2'
<1>1. Beside /\ req[r].pc = "idle" /\ IInv
    BY DEF Start, Beside, At, IInv2
<1>2. Alone(r) \in BOOLEAN
    BY DEF Alone, Open
<1>3. /\ req'[r].pc = "find" /\ ~req'[r].own /\ req'[r].found = {} /\ req'[r].alone = Alone(r)
      /\ req'[r].sid = Nil /\ req'[r].answer = "none"
    <2>1. req'[r] = [Fresh EXCEPT !.pc = "find", !.seed = col, !.alone = Alone(r)]
        BY DEF Start
    <2> QED BY <2>1 DEF Fresh
<1>4. \A q \in Requests \ {r} : /\ req'[q].pc = req[q].pc /\ req'[q].own = req[q].own /\ req'[q].sid = req[q].sid
                                /\ req'[q].found = req[q].found /\ ~req'[q].alone
    <2> TAKE q \in Requests \ {r}
    <2>1. req'[q] = [req[q] EXCEPT !.alone = FALSE] /\ req[q] \in Request
        BY Active DEF Start, IInv2
    <2> QED BY <2>1 DEF Request
<1>5. Winner'
    <2>1. claim.sid \in Resources \cup {Nil}
        BY <1>1, Shapes
    <2> QED BY <1>1, <1>3, <1>4, <2>1 DEF IInv2, Winner, WinnerOK, Beside
<1>6. Lonely'
    <2>1. ~Alone(r) \/ (Open' /\ \A q \in Requests \ {r} : Resting(q)')
        BY <1>1, <1>4 DEF Alone, Open, Resting, Beside
    <2>2. Open' => Unhindered(req[r].pc, req[r].own, req[r].sid, req[r].answer)'
        BY <1>3 DEF Unhindered
    <2>3. AloneOK(r)'
        BY <1>2, <1>3, <2>1, <2>2 DEF AloneOK
    <2> QED BY <1>4, <2>3 DEF Lonely, AloneOK
<1>7. Single'
    <2> SUFFICES ASSUME Calm' PROVE Single'
        BY DEF Single
    <2>1. Calm /\ Marked' = Marked /\ claim' = claim /\ res' = res
        BY <1>1 DEF Beside, Calm, Marked
    <2>2. \A q \in Requests \ {r} : OwnerOK(q)' /\ Owner(q)' = Owner(q)
        BY <1>4, <2>1 DEF IInv2, Single, OwnerOK, Orderly, Owner
    <2>3. OwnerOK(r)' /\ ~Owner(r)'
        BY <1>3 DEF OwnerOK, Orderly, Owner, Attempting
    <2>4. \A q \in Requests : Owner(q) /\ req[q].pc = "attach" => Owner(q)' /\ req'[q].pc = "attach"
        BY <1>1, <1>4 DEF Owner
    <2>5. (\A q \in Requests : OwnerOK(q)') /\ (\A p, q \in Requests : Owner(p)' /\ Owner(q)' => p = q)
        BY <2>1, <2>2, <2>3 DEF IInv2, Single
    <2>6. Marked' # {} => \/ claim'.sid \in Marked'
                          \/ claim'.sid = Nil /\ \E q \in Requests : Owner(q)' /\ req'[q].pc = "attach"
        BY <2>1, <2>4 DEF IInv2, Single
    <2>7. (\A s, t \in Marked' : s = t) /\ (\A s \in Resources : res'[s] \notin {"sent", "gone"})
          /\ (~claim'.made => Marked' = {} /\ ~claim'.failed)
        BY <2>1 DEF IInv2, Single
    <2> QED BY <2>5, <2>6, <2>7 DEF Single
<1> QED BY <1>5, <1>6, <1>7 DEF IInv2

\* A request takes the lease, which nobody had.
LEMMA HoldsKeeps2 ==
    ASSUME IInv2, IInv', NEW r \in Requests, ~Resting(r), UNCHANGED <<kind, res, faults, vanished>>,
           NEW pc \in {"lookup", "seed", "create"},
           Acts(r, pc, TRUE, req[r].sid, req[r].found, req[r].answer),
           claim.sid = Nil, claim'.sid = Nil, claim'.made, claim'.fresh,
           Calm => ~claim'.failed /\ (~claim.made \/ claim.failed \/ ~claim.fresh)
    PROVE  IInv2'
<1>1. Winner'
    <2>1. WinnerOK(r)'
        BY DEF WinnerOK, Acts
    <2> QED BY <2>1, WinnerStep DEF IInv2, Acts
<1>2. Lonely'
    <2>1. Unhindered(req[r].pc, req[r].own, req[r].sid, req[r].answer)'
        BY DEF Unhindered, Acts
    <2> QED BY <2>1, LonelyHere DEF IInv2, Acts
<1>3. Single'
    <2> SUFFICES ASSUME Calm' PROVE Single'
        BY DEF Single
    <2>1. Calm /\ Marked' = Marked /\ res' = res
        BY DEF Calm, Marked
    <2>2. \A q \in Requests : ~Owner(q)
        BY <2>1 DEF IInv2, Single, OwnerOK, Orderly, Owner
    <2>3. Marked = {}
        BY <2>1, <2>2, Shapes DEF IInv2, Single
    <2>4. \A q \in Requests \ {r} : OwnerOK(q)' /\ ~Owner(q)'
        <3> TAKE q \in Requests \ {r}
        <3>1. OwnerOK(q) /\ ~Owner(q) /\ req'[q] = req[q]
            BY <2>1, <2>2 DEF IInv2, Single, Acts
        <3> QED BY <2>1, <3>1 DEF OwnerOK, Orderly, Owner
    <2>5. OwnerOK(r)' /\ Owner(r)'
        <3>1. req[r].found \subseteq Marked
            BY <2>1 DEF IInv2, Single, OwnerOK, Orderly
        <3>2. /\ req'[r].pc = pc /\ req'[r].own /\ req'[r].found = req[r].found
              /\ Marked' = {} /\ ~claim'.failed
            BY <2>1, <2>3 DEF Acts
        <3> QED BY <3>1, <3>2, <2>3 DEF OwnerOK, Orderly, Attempting, Owner
    <2>6. (\A q \in Requests : OwnerOK(q)') /\ (\A p, q \in Requests : Owner(p)' /\ Owner(q)' => p = q)
        BY <2>4, <2>5
    <2>7. (\A s, t \in Marked' : s = t) /\ (\A s \in Resources : res'[s] \notin {"sent", "gone"})
        BY <2>1 DEF IInv2, Single
    <2> QED BY <2>1, <2>3, <2>6, <2>7 DEF Single
<1> QED BY <1>1, <1>2, <1>3 DEF IInv2

LEMMA InsertKeeps2 == ASSUME IInv2, IInv', NEW r \in Requests, Insert(r) PROVE IInv2'
<1>1. UNCHANGED <<kind, res, faults, vanished>> /\ req[r].pc = "insert" /\ ~Resting(r) /\ IInv
    BY DEF Insert, At, Resting, IInv2
<1>2. CASE claim.made
    <2>1. Beside /\ Goto(r, "wait") /\ ~req[r].alone
        BY <1>1, <1>2, Known DEF Insert, Beside, Unhindered
    <2>2. Calm => Orderly("wait", req[r].own, req[r].sid, req[r].found)
        BY <1>1, Known DEF Orderly, Attempting
    <2> QED BY <1>1, <2>1, <2>2, GotoBeside
<1>3. CASE ~claim.made
    <2>1. claim' = [claim EXCEPT !.made = TRUE, !.fresh = TRUE] /\ claim \in Claim /\ claim.sid = Nil
        BY <1>1, <1>3, Active DEF Insert
    <2>2. claim'.sid = Nil /\ claim'.made /\ claim'.fresh /\ claim'.failed = claim.failed
        BY <2>1 DEF Claim
    <2>3. req'[r] = [req[r] EXCEPT !.pc = "lookup", !.own = TRUE] /\ \A q \in Requests \ {r} : req'[q] = req[q]
        BY <1>3 DEF Insert, IInv2, IInv, TypeOK
    <2>4. req[r] \in Request
        BY <1>1, Active
    <2>5. Acts(r, "lookup", TRUE, req[r].sid, req[r].found, req[r].answer)
        BY <2>3, <2>4 DEF Acts, Request
    <2>6. Calm => ~claim.failed
        BY <1>3 DEF IInv2, Single
    <2> QED BY <1>1, <1>3, <2>1, <2>2, <2>5, <2>6, HoldsKeeps2
<1> QED BY <1>2, <1>3

LEMMA TakeKeeps2 == ASSUME IInv2, IInv', NEW r \in Requests, Take(r) \/ TakeStale(r) PROVE IInv2'
<1>1. UNCHANGED <<kind, res, faults, vanished>> /\ req[r].pc \in {"take", "take_stale"} /\ ~Resting(r)
      /\ IInv /\ claim.made /\ claim \in Claim
    <2>1. UNCHANGED <<kind, res, faults, vanished>> /\ req[r].pc \in {"take", "take_stale"}
        BY DEF Take, TakeStale, At
    <2> QED BY <2>1, Active DEF Resting, IInv2
<1>2. CASE Takes(r) /\ claim.sid = Nil /\ (claim.failed \/ ~claim.fresh)
    <2>1. claim' = [claim EXCEPT !.fresh = TRUE, !.failed = FALSE]
        BY <1>2 DEF Takes
    <2>2. claim'.sid = Nil /\ claim'.made /\ claim'.fresh /\ ~claim'.failed
        BY <1>1, <1>2, <2>1 DEF Claim
    <2> DEFINE pc == IF req[r].seed # Nil THEN "seed" ELSE "create"
    <2>3. req' = [req EXCEPT ![r].pc = pc, ![r].own = TRUE]
        BY <1>2 DEF Takes
    <2>4. pc \in {"lookup", "seed", "create"}
        OBVIOUS
    <2> HIDE DEF pc
    <2>5. req'[r] = [req[r] EXCEPT !.pc = pc, !.own = TRUE] /\ \A q \in Requests \ {r} : req'[q] = req[q]
        BY <2>3 DEF IInv2, IInv, TypeOK
    <2>6. req[r] \in Request
        BY <1>1, Active
    <2>7. Acts(r, pc, TRUE, req[r].sid, req[r].found, req[r].answer)
        BY <2>5, <2>6 DEF Acts, Request
    <2> QED BY <1>1, <1>2, <2>2, <2>4, <2>7, HoldsKeeps2
<1>3. CASE req[r].pc = "take" /\ ~(claim.sid = Nil /\ claim.failed) /\ Goto(r, "take_stale") /\ UNCHANGED claim
    <2>1. Beside
        BY <1>1, <1>3 DEF Beside
    <2>2. Calm => Orderly("take_stale", req[r].own, req[r].sid, req[r].found)
        BY <1>1, <1>3, Known DEF Orderly, Attempting
    <2>3. req[r].alone => Unhindered("take_stale", req[r].own, req[r].sid, req[r].answer)
        BY <1>3, Known DEF Unhindered
    <2> QED BY <1>1, <1>3, <2>1, <2>2, <2>3, GotoBeside
<1>4. CASE /\ req[r].pc = "take_stale" /\ ~(claim.sid = Nil /\ ~claim.failed /\ ~claim.fresh)
           /\ Goto(r, "wait") /\ UNCHANGED claim
    <2>1. Beside
        BY <1>1, <1>4 DEF Beside
    <2>2. Calm => Orderly("wait", req[r].own, req[r].sid, req[r].found)
        BY <1>1, <1>4, Known DEF Orderly, Attempting
    <2>3. ~req[r].alone
        BY <1>4, Known DEF Unhindered, Open
    <2> QED BY <1>1, <1>4, <2>1, <2>2, <2>3, GotoBeside
<1> QED BY <1>1, <1>2, <1>3, <1>4 DEF Take, TakeStale, At

\* A request that ends, and with it whatever it was alone for.
LEMMA RetireKeeps2 == ASSUME IInv2, IInv', NEW r \in Requests, Retire(r) PROVE IInv2'
<1>1. UNCHANGED <<kind, res, faults, vanished>> /\ req[r].pc = "retire" /\ ~Resting(r) /\ IInv /\ ~Calm
    BY Known DEF Retire, At, Resting, IInv2, Orderly
<1>2. CASE claim.sid # req[r].sid
    <2>1. Beside /\ Goto(r, "reread") /\ ~req[r].alone
        BY <1>1, <1>2, Known DEF Retire, Beside, Unhindered
    <2> QED BY <1>1, <2>1, GotoBeside
<1>3. CASE claim.sid = req[r].sid
    <2>1. claim' = [claim EXCEPT !.sid = Nil, !.fresh = TRUE, !.failed = FALSE] /\ claim \in Claim
        BY <1>1, <1>3, Active DEF Retire
    <2>2. claim'.sid = Nil
        BY <2>1 DEF Claim
    <2>3. req'[r] = [req[r] EXCEPT !.pc = "lookup", !.own = TRUE, !.sid = Nil]
          /\ \A q \in Requests \ {r} : req'[q] = req[q]
        BY <1>3 DEF Retire, IInv2, IInv, TypeOK
    <2>4. req[r] \in Request
        BY <1>1, Active
    <2>5. Acts(r, "lookup", TRUE, Nil, req[r].found, req[r].answer)
        BY <2>3, <2>4 DEF Acts, Request
    <2>6. Unhindered(req[r].pc, req[r].own, req[r].sid, req[r].answer)'
        BY <2>2, <2>5 DEF Unhindered, Acts
    <2>7. Lonely'
        BY <1>1, <2>5, <2>6, LonelyHere DEF IInv2, Acts
    \* Only what was deleted by hand is retired.
    <2>8. vanished # 0
        <3>1. claim.sid # Nil /\ res[claim.sid] = "gone"
            BY <1>1, <1>3, Active DEF ReqOK, Holding
        <3> QED BY <3>1 DEF IInv2, Winner
    <2> QED BY <1>1, <2>7, <2>8 DEF IInv2, Winner, Single, Calm
<1> QED BY <1>2, <1>3

\* The claim is given a resource that nobody has lost.
LEMMA WinnerAttached ==
    ASSUME IInv2, NEW r \in Requests, UNCHANGED <<res, vanished>>, claim.sid = Nil,
           claim'.sid \in Resources, Exists(claim'.sid),
           \A q \in Requests \ {r} : req'[q] = req[q],
           req'[r].pc \in {"discard", "withdraw"} => claim'.sid \notin req'[r].found
    PROVE  Winner'
<1> SUFFICES ASSUME vanished = 0 PROVE Winner'
    BY DEF Winner
<1>1. claim'.sid # Nil /\ res'[claim'.sid] # "gone"
    BY Shapes DEF IInv2, Winner
<1>2. \A q \in Requests \ {r} : req'[q].pc \notin {"discard", "withdraw"}
    BY DEF IInv2, Winner, WinnerOK
<1> QED BY <1>1, <1>2 DEF Winner, WinnerOK

\* So is the claim of a scope where all goes well: with what there is, if anything.
LEMMA SingleAttached ==
    ASSUME IInv2, NEW r \in Requests, UNCHANGED <<kind, res, faults, vanished>>,
           claim.sid = Nil, claim'.sid # Nil, claim.made, claim'.made, claim'.fresh = claim.fresh, ~claim'.failed,
           NEW pc, NEW own, NEW sid, NEW found, NEW answer, Acts(r, pc, own, sid, found, answer),
           Calm => /\ Marked # {} => claim'.sid \in Marked
                   /\ Marked = {} => Owner(r)
                   /\ pc \notin Attempting \cup {"lookup", "attach", "lost", "verify"}
                   /\ pc \notin {"again", "release", "retire", "reread", "discard", "withdraw"}
                   /\ ~own /\ found = {}
    PROVE  Single'
<1> SUFFICES ASSUME Calm' PROVE Single'
    BY DEF Single
<1>1. Calm /\ Marked' = Marked /\ res' = res
    BY DEF Calm, Marked
<1>2. OwnerOK(r)' /\ ~Owner(r)'
    <2>1. /\ req'[r].pc = pc /\ ~req'[r].own /\ req'[r].found = {}
          /\ pc \notin Attempting \cup {"lookup", "attach", "lost", "verify"}
          /\ pc \notin {"again", "release", "retire", "reread", "discard", "withdraw"}
        BY <1>1 DEF Acts
    <2> QED BY <2>1 DEF OwnerOK, Orderly, Owner, Attempting
<1>3. \A q \in Requests \ {r} : OwnerOK(q)' /\ Owner(q)' = Owner(q)
    <2> TAKE q \in Requests \ {r}
    <2>1. OwnerOK(q) /\ req'[q] = req[q]
        BY <1>1 DEF IInv2, Single, Acts
    <2>2. ~(Owner(q) /\ req[q].pc \in Attempting \cup {"lookup"})
        <3> SUFFICES ASSUME Owner(q), req[q].pc \in Attempting \cup {"lookup"} PROVE FALSE
            OBVIOUS
        <3>1. Marked = {}
            BY <2>1 DEF OwnerOK, Orderly, Owner
        <3>2. Owner(r)
            BY <1>1, <3>1
        <3> QED BY <1>1, <3>2 DEF IInv2, Single
    <2> QED BY <1>1, <2>1, <2>2 DEF OwnerOK, Orderly, Owner
<1>4. (\A q \in Requests : OwnerOK(q)') /\ (\A p, q \in Requests : Owner(p)' /\ Owner(q)' => p = q)
    BY <1>1, <1>2, <1>3 DEF IInv2, Single
<1>5. (\A s, t \in Marked' : s = t) /\ (\A s \in Resources : res'[s] \notin {"sent", "gone"})
    BY <1>1 DEF IInv2, Single
<1> QED BY <1>1, <1>4, <1>5 DEF Single

\* What a request ends with when its resource was attached.
LEMMA ResolvedLonely ==
    ASSUME IInv2, NEW r \in Requests, ~Resting(r), kind' = kind, claim'.sid # Nil, InHandActs2(r, claim'.sid)
    PROVE  Lonely'
<1>1. /\ kind = "address" /\ req'[r].pc = "done" => Unhindered(req[r].pc, req[r].own, req[r].sid, req[r].answer)'
      /\ req'[r].pc \in {"refetch", "column"} => Unhindered(req[r].pc, req[r].own, req[r].sid, req[r].answer)'
    BY DEF Unhindered, Open, InHandActs2, Acts
<1> QED BY <1>1, LonelyHere DEF InHandActs2, IInv2, Acts

LEMMA AttachSeedKeeps2 == ASSUME IInv2, IInv', NEW r \in Requests, AttachSeed(r) PROVE IInv2'
<1>1. UNCHANGED <<kind, res, faults, vanished>> /\ req[r].pc = "attach_seed" /\ ~Resting(r) /\ IInv
    BY DEF AttachSeed, At, Resting, IInv2
<1>2. CASE claim.sid # Nil
    <2>1. Beside /\ Goto(r, "follow_seed") /\ ~req[r].alone
        BY <1>1, <1>2, Known DEF AttachSeed, Beside, Unhindered
    <2>2. ~Calm
        BY <1>1, <1>2, Known DEF Orderly, Attempting
    <2> QED BY <1>1, <2>1, <2>2, GotoBeside
<1>3. CASE claim.sid = Nil
    <2> PICK seed \in Resources : seed = req[r].seed /\ Exists(seed)
        BY <1>1, Active DEF ReqOK
    <2>1. claim' = [claim EXCEPT !.sid = seed, !.failed = FALSE] /\ Resolved(r, seed) /\ claim.made /\ claim \in Claim
        BY <1>1, <1>3, Active DEF AttachSeed
    <2>2. claim'.sid = seed /\ claim'.made /\ claim'.fresh = claim.fresh /\ ~claim'.failed /\ seed # Nil
        BY <1>1, <2>1, Shapes DEF Claim
    <2>3. InHandActs2(r, seed)
        BY <1>1, <2>1, ResolvedDoes
    <2>4. Winner'
        BY <1>1, <1>3, <2>2, <2>3, WinnerAttached DEF InHandActs2, Acts
    <2>5. Lonely'
        BY <1>1, <2>2, <2>3, ResolvedLonely
    <2>6. Calm => Owner(r) /\ Marked = {}
        BY <1>1, Known DEF Orderly, Attempting, Owner
    <2>7. Single'
        BY <1>1, <1>3, <2>1, <2>2, <2>3, <2>6, SingleAttached DEF InHandActs2, Attempting
    <2> QED BY <2>4, <2>5, <2>7 DEF IInv2
<1> QED BY <1>2, <1>3

LEMMA AttachKeeps2 == ASSUME IInv2, IInv', NEW r \in Requests, Attach(r) PROVE IInv2'
<1>1. UNCHANGED <<kind, res, faults, vanished>> /\ req[r].pc = "attach" /\ ~Resting(r) /\ IInv
      /\ claim.made /\ claim \in Claim /\ req[r] \in Request
    <2>1. UNCHANGED <<kind, res, faults, vanished>> /\ req[r].pc = "attach"
        BY DEF Attach, At
    <2> QED BY <2>1, Active DEF Resting, IInv2
<1> PICK s \in req[r].found :
       IF claim.sid # Nil
       THEN req' = [req EXCEPT ![r].pc = "lost", ![r].sid = s] /\ UNCHANGED claim
       ELSE /\ claim' = [claim EXCEPT !.sid = s, !.failed = FALSE]
            /\ IF req[r].found = {s} THEN Resolved(r, s)
               ELSE req' = [req EXCEPT ![r].pc = "discard", ![r].sid = s, ![r].found = @ \ {s}]
    BY DEF Attach
<1>2. s \in Resources /\ Exists(s) /\ s # Nil
    BY <1>1, Active DEF ReqOK
\* When all goes well, what was found is the one there is.
<1>3. Calm => req[r].found = {s} /\ s \in Marked
    <2>1. Calm => req[r].found \subseteq Marked /\ (\A t \in Marked : t = s)
        BY <1>1, Known DEF Orderly, IInv2, Single
    <2> QED BY <2>1
<1>4. CASE claim.sid # Nil
    <2>1. req'[r] = [req[r] EXCEPT !.pc = "lost", !.sid = s] /\ \A q \in Requests \ {r} : req'[q] = req[q]
        BY <1>4 DEF IInv2, IInv, TypeOK
    <2>2. Acts(r, "lost", req[r].own, s, req[r].found, req[r].answer)
        BY <1>1, <2>1 DEF Acts, Request
    <2>3. Calm => Orderly("lost", req[r].own, s, req[r].found)
        BY <1>1, <1>3, <1>4, Known DEF Orderly, Attempting
    <2>4. Beside /\ ~req[r].alone
        BY <1>1, <1>4, Known DEF Beside, Unhindered
    <2> QED BY <1>1, <1>4, <2>2, <2>3, <2>4, BesideKeeps2 DEF Owner
<1>5. CASE claim.sid = Nil
    <2>1. claim'.sid = s /\ claim'.made /\ claim'.fresh = claim.fresh /\ ~claim'.failed
        BY <1>1, <1>5 DEF Claim
    <2>2. CASE req[r].found = {s}
        <3>1. InHandActs2(r, s)
            BY <1>1, <1>5, <2>2, ResolvedDoes
        <3>2. Winner'
            BY <1>1, <1>2, <1>5, <2>1, <3>1, WinnerAttached DEF InHandActs2, Acts
        <3>3. Lonely'
            BY <1>1, <1>2, <2>1, <3>1, ResolvedLonely
        <3>4. Single'
            BY <1>1, <1>2, <1>3, <1>5, <2>1, <3>1, SingleAttached DEF InHandActs2, Attempting
        <3> QED BY <3>2, <3>3, <3>4 DEF IInv2
    <2>3. CASE req[r].found # {s}
        <3>1. req'[r] = [req[r] EXCEPT !.pc = "discard", !.sid = s, !.found = req[r].found \ {s}]
              /\ \A q \in Requests \ {r} : req'[q] = req[q]
            BY <1>5, <2>3 DEF IInv2, IInv, TypeOK
        <3>2. Acts(r, "discard", req[r].own, s, req[r].found \ {s}, req[r].answer)
            BY <1>1, <3>1 DEF Acts, Request
        <3>3. Winner'
            BY <1>1, <1>2, <1>5, <2>1, <3>2, WinnerAttached DEF Acts
        <3>4. Unhindered(req[r].pc, req[r].own, req[r].sid, req[r].answer)'
            BY <2>1, <3>2 DEF Unhindered, Acts
        <3>5. Lonely'
            BY <1>1, <3>2, <3>4, LonelyHere DEF IInv2, Acts
        <3>6. ~Calm'
            BY <1>1, <1>3, <2>3 DEF Calm
        <3> QED BY <3>3, <3>5, <3>6 DEF IInv2, Single
    <2> QED BY <2>2, <2>3
<1> QED BY <1>4, <1>5

\* The lease's holder creates, where there was nothing.
LEMMA CreateKeeps2 == ASSUME IInv2, IInv', NEW r \in Requests, Create(r) PROVE IInv2'
<1>1. UNCHANGED <<kind, claim, col, faults, vanished>> /\ req[r].pc = "create" /\ ~Resting(r) /\ IInv
      /\ req[r] \in Request
    <2>1. UNCHANGED <<kind, claim, col, faults, vanished>> /\ req[r].pc = "create"
        BY DEF Create, At
    <2> QED BY <2>1, Active DEF Resting, IInv2
<1>2. PICK s \in Sids : /\ res[s] = "none" /\ res' = [res EXCEPT ![s] = "live"]
                        /\ req' = [req EXCEPT ![r].pc = "attach", ![r].found = {s}]
    BY DEF Create
<1>3. s \in Resources /\ s # Old
    BY OldAssumption DEF Resources
<1>4. res'[s] = "live" /\ \A t \in Resources \ {s} : res'[t] = res[t]
    BY <1>2, <1>3 DEF IInv2, IInv, TypeOK
<1>5. req'[r] = [req[r] EXCEPT !.pc = "attach", !.found = {s}] /\ \A q \in Requests \ {r} : req'[q] = req[q]
    BY <1>2 DEF IInv2, IInv, TypeOK
<1>6. Acts(r, "attach", req[r].own, req[r].sid, {s}, req[r].answer)
    BY <1>1, <1>5 DEF Acts, Request
<1>7. Winner'
    <2>1. WinnerOK(r)'
        BY <1>6 DEF WinnerOK, Acts
    <2>2. \A t \in Resources : res'[t] = "gone" => res[t] = "gone"
        BY <1>4
    <2> QED BY <1>1, <1>6, <2>1, <2>2, WinnerStep DEF IInv2, Acts
<1>8. Lonely'
    <2>1. req[r].alone => claim.sid = Nil
        BY <1>1, Known DEF Unhindered
    <2>2. req[r].alone => Unhindered(req[r].pc, req[r].own, req[r].sid, req[r].answer)'
        BY <1>1, <1>6, <2>1 DEF Unhindered, Acts
    <2> QED BY <1>1, <1>6, <2>2, LonelyHere DEF IInv2, Acts
<1>9. Single'
    <2> SUFFICES ASSUME Calm' PROVE Single'
        BY DEF Single
    <2>1. Calm /\ Owner(r) /\ claim.sid = Nil /\ Marked = {} /\ claim' = claim /\ claim.made
        BY <1>1, Known DEF Calm, Orderly, Attempting, Owner
    <2>2. Marked' = {s}
        BY <1>1, <1>3, <1>4, <2>1 DEF Marked
    <2>3. OwnerOK(r)' /\ Owner(r)'
        BY <1>1, <1>6, <2>1, <2>2, Known DEF OwnerOK, Orderly, Owner, Acts, Attempting
    <2>4. \A q \in Requests \ {r} : OwnerOK(q)' /\ ~Owner(q)'
        <3> TAKE q \in Requests \ {r}
        <3>1. OwnerOK(q) /\ ~Owner(q) /\ req'[q] = req[q]
            BY <1>5, <2>1 DEF IInv2, Single
        <3> QED BY <2>1, <2>2, <3>1 DEF OwnerOK, Orderly, Owner
    <2>5. (\A q \in Requests : OwnerOK(q)') /\ (\A p, q \in Requests : Owner(p)' /\ Owner(q)' => p = q)
        BY <2>3, <2>4
    <2>6. \A t \in Resources : res'[t] \notin {"sent", "gone"}
        BY <1>4, <2>1 DEF IInv2, Single
    <2>7. claim'.sid = Nil /\ Owner(r)' /\ req'[r].pc = "attach"
        BY <1>6, <2>1, <2>3 DEF Acts
    <2> QED BY <2>1, <2>2, <2>5, <2>6, <2>7 DEF Single
<1> QED BY <1>7, <1>8, <1>9 DEF IInv2

LEMMA CreateUnansweredKeeps2 ==
    ASSUME IInv2, IInv', NEW r \in Requests, CreateUnanswered(r) PROVE IInv2'
<1>1. UNCHANGED <<kind, claim, col, vanished>> /\ req[r].pc = "create" /\ ~Resting(r) /\ Fault /\ IInv
    BY DEF CreateUnanswered, At, Resting, IInv2
<1> PICK s \in Sids, landed \in {"none", "live", "sent"} :
       res[s] = "none" /\ res' = [res EXCEPT ![s] = landed]
    BY DEF CreateUnanswered
<1>2. \A t \in Resources : res'[t] = "gone" => res[t] = "gone"
    BY DEF IInv2, IInv, TypeOK, Resources
<1>3. req'[r] = [req[r] EXCEPT !.pc = "again", !.alone = FALSE] /\ req[r] \in Request
      /\ \A q \in Requests \ {r} : req'[q] = req[q]
    BY <1>1, Active DEF CreateUnanswered, IInv, TypeOK
<1>4. req'[r].pc = "again" /\ ~req'[r].alone
    BY <1>3 DEF Request
<1>5. Winner'
    BY <1>1, <1>2, <1>3, <1>4, WinnerStep DEF IInv2, WinnerOK
<1>6. Lonely'
    BY <1>1, <1>3, <1>4, LonelyLost DEF IInv2
<1> QED BY <1>1, <1>5, <1>6, SingleFaulty DEF IInv2

\* The holder ends where there is nothing: nobody holds the lease any more.
LEMMA SingleEnded ==
    ASSUME IInv2, NEW r \in Requests, Calm, Calm', Marked' = Marked, res' = res,
           claim'.sid = claim.sid, claim'.made = claim.made,
           Owner(r), Marked = {}, claim.made, NEW answer, Acts(r, "done", FALSE, Nil, {}, answer)
    PROVE  Single'
<1>1. OwnerOK(r)' /\ ~Owner(r)'
    BY DEF OwnerOK, Orderly, Owner, Acts, Attempting
<1>2. \A q \in Requests \ {r} : OwnerOK(q)' /\ ~Owner(q)'
    <2> TAKE q \in Requests \ {r}
    <2>1. OwnerOK(q) /\ ~Owner(q) /\ req'[q] = req[q]
        BY DEF IInv2, Single, Acts
    <2> QED BY <2>1 DEF OwnerOK, Orderly, Owner
<1>3. (\A q \in Requests : OwnerOK(q)') /\ (\A p, q \in Requests : Owner(p)' /\ Owner(q)' => p = q)
    BY <1>1, <1>2
<1>4. \A t \in Resources : res'[t] \notin {"sent", "gone"}
    BY DEF IInv2, Single
<1> QED BY <1>3, <1>4 DEF Single

\* The holder ends and gives its lease up, or leaves word that it was refused.
LEMMA FailureKeeps2 == ASSUME IInv2, IInv', NEW r \in Requests, RecordFailure(r) PROVE IInv2'
<1>1. UNCHANGED <<kind, res, faults, vanished>> /\ req[r].pc = "refused" /\ ~Resting(r) /\ IInv /\ claim \in Claim
    BY Shapes DEF RecordFailure, At, Resting, IInv2
<1>2. Acts(r, "done", FALSE, Nil, {}, "refused")
    BY <1>1, AnswerDoes DEF RecordFailure
<1>3. claim'.sid = claim.sid /\ claim'.made = claim.made /\ claim'.fresh = claim.fresh
    BY <1>1 DEF RecordFailure, Claim
<1>4. Winner'
    BY <1>1, <1>2, <1>3, WinnerStep DEF IInv2, WinnerOK, Acts
<1>5. Lonely'
    <2>1. Unhindered("done", FALSE, Nil, "refused")'
        BY <1>1 DEF Unhindered, Open, RecordFailure, Claim
    <2> QED BY <1>1, <1>2, <2>1, LonelyStep DEF IInv2
<1>6. Single'
    <2> SUFFICES ASSUME Calm' PROVE Single'
        BY DEF Single
    <2>1. Calm /\ Marked' = Marked /\ res' = res
        BY <1>1 DEF Calm, Marked
    <2>2. Owner(r) /\ Marked = {} /\ claim.made
        BY <1>1, <2>1, Known DEF Orderly, Attempting, Owner
    <2> QED BY <1>2, <1>3, <2>1, <2>2, SingleEnded
<1> QED BY <1>4, <1>5, <1>6 DEF IInv2

LEMMA ReleaseKeeps2 == ASSUME IInv2, IInv', NEW r \in Requests, Release(r) PROVE IInv2'
<1>1. UNCHANGED <<kind, res, faults, vanished>> /\ req[r].pc = "release" /\ ~Resting(r) /\ IInv /\ claim \in Claim
    BY Shapes DEF Release, At, Resting, IInv2
<1>2. Acts(r, "done", FALSE, Nil, {}, "unavailable")
    BY <1>1, AnswerDoes DEF Release
<1>3. claim'.sid = claim.sid /\ claim'.made = claim.made /\ claim'.failed = claim.failed
    BY <1>1 DEF Release, Claim
<1>4. Winner'
    BY <1>1, <1>2, <1>3, WinnerStep DEF IInv2, WinnerOK, Acts
<1>5. Lonely'
    <2>1. Unhindered("done", FALSE, Nil, "unavailable")'
        BY <1>1 DEF Unhindered, Open, Release, Claim
    <2> QED BY <1>1, <1>2, <2>1, LonelyStep DEF IInv2
<1>6. Single'
    <2> SUFFICES ASSUME Calm' PROVE Single'
        BY DEF Single
    <2>1. Calm /\ Marked' = Marked /\ res' = res
        BY <1>1 DEF Calm, Marked
    <2>2. Owner(r) /\ Marked = {} /\ claim.made
        BY <1>1, <2>1, Known DEF Orderly, Attempting, Owner
    <2> QED BY <1>2, <1>3, <2>1, <2>2, SingleEnded
<1> QED BY <1>4, <1>5, <1>6 DEF IInv2

\* What is withdrawn is not what the claim names.
LEMMA WithdrawKeeps2 == ASSUME IInv2, IInv', NEW r \in Requests, Withdraw(r) PROVE IInv2'
<1>1. UNCHANGED <<kind, claim, col, vanished>> /\ req[r].pc \in {"discard", "withdraw"} /\ ~Resting(r)
      /\ IInv /\ ~Calm /\ req[r] \in Request
    <2>1. UNCHANGED <<kind, claim, col, vanished>> /\ req[r].pc \in {"discard", "withdraw"}
        BY DEF Withdraw
    <2> QED BY <2>1, Known, Active DEF Resting, IInv2, Orderly
<1> PICK s \in req[r].found :
       /\ \/ res' = [res EXCEPT ![s] = "gone"] /\ UNCHANGED faults
          \/ Fault /\ UNCHANGED res
       /\ IF req[r].found # {s} THEN req' = [req EXCEPT ![r].found = @ \ {s}]
          ELSE IF At(r, "withdraw") /\ kind = "address"
          THEN req' = [req EXCEPT ![r].pc = "verify", ![r].found = {}]
          ELSE Resolved(r, req[r].sid)
    BY DEF Withdraw
<1>2. s \in Resources /\ \A t \in Resources \ {s} : res'[t] = res[t]
    BY <1>1 DEF Request, IInv2, IInv, TypeOK
<1>3. vanished = 0 => claim.sid # Nil /\ claim.sid \notin req[r].found
    BY <1>1 DEF IInv2, Winner, WinnerOK
<1>4. /\ req'[r].found \subseteq req[r].found /\ \A q \in Requests \ {r} : req'[q] = req[q]
      /\ req'[r].alone = req[r].alone
      /\ req[r].alone => Unhindered(req[r].pc, req[r].own, req[r].sid, req[r].answer)'
    <2>1. CASE req' = [req EXCEPT ![r].found = @ \ {s}]
        <3>1. req'[r] = [req[r] EXCEPT !.found = @ \ {s}] /\ \A q \in Requests \ {r} : req'[q] = req[q]
            BY <2>1 DEF IInv2, IInv, TypeOK
        <3>2. Acts(r, req[r].pc, req[r].own, req[r].sid, req[r].found \ {s}, req[r].answer)
            BY <1>1, <3>1 DEF Acts, Request
        <3>3. req[r].alone => Unhindered(req[r].pc, req[r].own, req[r].sid, req[r].answer)'
            <4>1. req[r].alone => Unhindered(req[r].pc, req[r].own, req[r].sid, req[r].answer)
                BY Known
            <4> QED BY <1>1, <3>2, <4>1 DEF Unhindered, Acts
        <3>4. req'[r].found \subseteq req[r].found
            BY <3>2 DEF Acts
        <3> QED BY <3>1, <3>2, <3>3, <3>4 DEF Acts
    <2>2. CASE req' = [req EXCEPT ![r].pc = "verify", ![r].found = {}] /\ req[r].pc = "withdraw"
        <3>1. req'[r] = [req[r] EXCEPT !.pc = "verify", !.found = {}] /\ \A q \in Requests \ {r} : req'[q] = req[q]
            BY <2>2 DEF IInv2, IInv, TypeOK
        <3>2. Acts(r, "verify", req[r].own, req[r].sid, {}, req[r].answer)
            BY <1>1, <3>1 DEF Acts, Request
        <3>3. ~req[r].alone
            BY <2>2, Known DEF Unhindered
        <3> QED BY <3>1, <3>2, <3>3 DEF Acts
    <2>3. CASE Resolved(r, req[r].sid)
        <3>1. InHandActs2(r, req[r].sid)
            BY <1>1, <2>3, ResolvedDoes
        <3>2. req[r].alone => Unhindered(req[r].pc, req[r].own, req[r].sid, req[r].answer)'
            <4>1. req[r].alone => req[r].sid = claim.sid /\ claim.sid # Nil
                BY <1>1, Known, Active DEF Unhindered, ReqOK, Holding
            <4> QED BY <1>1, <3>1, <4>1 DEF Unhindered, Open, InHandActs2, Acts
        <3> QED BY <3>1, <3>2 DEF InHandActs2, Acts
    <2> QED BY <2>1, <2>2, <2>3 DEF At
<1>5. Lonely'
    BY <1>1, <1>4, LonelyHere DEF IInv2
<1>6. Winner'
    <2> SUFFICES ASSUME vanished = 0 PROVE Winner'
        BY <1>1 DEF Winner
    <2>1. claim.sid # Nil /\ claim.sid # s /\ claim.sid \in Resources /\ claim' = claim
        BY <1>1, <1>3, Shapes
    <2>2. res'[claim.sid] = res[claim.sid]
        BY <1>2, <2>1
    <2>3. \A q \in Requests : WinnerOK(q)'
        BY <1>1, <1>3, <1>4, <2>1 DEF IInv2, Winner, WinnerOK
    <2> QED BY <2>1, <2>2, <2>3 DEF IInv2, Winner
<1>7. ~Calm'
    BY <1>1, Shapes DEF Calm, Fault
<1> QED BY <1>5, <1>6, <1>7 DEF IInv2, Single

\* A request that a fault ends, or sends to give its lease up.
LEMMA FaultKeeps2 == ASSUME IInv2, IInv', NEW r \in Requests, Unavailable(r) \/ Stop(r) PROVE IInv2'
<1>1. UNCHANGED <<kind, claim, col, res, vanished>> /\ ~Resting(r) /\ Fault /\ IInv
    BY DEF Unavailable, Stop, Resting, IInv2
<1>2. CASE Goto(r, "release")
    <2>1. Acts(r, "release", req[r].own, req[r].sid, req[r].found, req[r].answer)
        BY <1>1, <1>2, GotoDoes
    <2>2. Winner'
        BY <1>1, <2>1, WinnerStep DEF IInv2, WinnerOK, Acts
    <2>3. Unhindered(req[r].pc, req[r].own, req[r].sid, req[r].answer)'
        BY <2>1 DEF Unhindered, Acts
    <2>4. Lonely'
        BY <1>1, <2>1, <2>3, LonelyHere DEF IInv2, Acts
    <2> QED BY <1>1, <2>2, <2>4, SingleFaulty DEF IInv2
<1>3. CASE \E answer \in Answers : req' = [req EXCEPT ![r] = [Fresh EXCEPT !.pc = "done", !.answer = answer]]
    <2>1. req'[r].pc = "done" /\ ~req'[r].alone /\ \A q \in Requests \ {r} : req'[q] = req[q]
        BY <1>3 DEF IInv2, IInv, TypeOK, Fresh
    <2>2. Winner'
        BY <1>1, <2>1, WinnerStep DEF IInv2, WinnerOK
    <2>3. Lonely'
        BY <1>1, <2>1, LonelyLost DEF IInv2
    <2> QED BY <1>1, <2>2, <2>3, SingleFaulty DEF IInv2
<1>4. CASE req' = [req EXCEPT ![r] = [Fresh EXCEPT !.pc = "done"]]
    <2>1. req'[r].pc = "done" /\ ~req'[r].alone /\ \A q \in Requests \ {r} : req'[q] = req[q]
        BY <1>4 DEF IInv2, IInv, TypeOK, Fresh
    <2>2. Winner'
        BY <1>1, <2>1, WinnerStep DEF IInv2, WinnerOK
    <2>3. Lonely'
        BY <1>1, <2>1, LonelyLost DEF IInv2
    <2> QED BY <1>1, <2>2, <2>3, SingleFaulty DEF IInv2
<1> QED BY <1>2, <1>3, <1>4 DEF Unavailable, Stop, At, Answers

\* A lease that lapses, an answer that lands, a deletion by hand.
LEMMA WorldKeeps2 ==
    ASSUME IInv2, IInv', Lapse \/ (\E s \in Resources : Land(s) \/ Vanish(s))
    PROVE  IInv2'
<1>0. IInv
    BY DEF IInv2
<1>1. CASE Lapse
    <2>1. claim' = [claim EXCEPT !.fresh = FALSE] /\ UNCHANGED <<kind, col, res, req, vanished>> /\ claim \in Claim
        BY <1>0, <1>1, Shapes DEF Lapse
    <2>2. claim'.sid = claim.sid /\ claim'.made = claim.made /\ claim'.failed = claim.failed /\ ~claim'.fresh
        BY <2>1 DEF Claim
    <2>3. Winner'
        BY <2>1, <2>2 DEF IInv2, Winner, WinnerOK
    <2>4. Lonely'
        BY <2>1, <2>2 DEF IInv2, Lonely, AloneOK, Unhindered, Open, Resting
    <2>5. CASE Fault
        BY <1>0, <2>3, <2>4, <2>5, SingleFaulty DEF IInv2
    <2>6. CASE (\A r \in Requests : ~req[r].own) /\ UNCHANGED faults
        <3>1. Marked' = Marked /\ Calm' = Calm
            BY <2>1, <2>6 DEF Marked, Calm
        <3>2. ASSUME Calm PROVE \A q \in Requests : OwnerOK(q)'
            BY <2>1, <2>2, <2>6, <3>1, <3>2 DEF IInv2, Single, OwnerOK, Orderly
        <3>3. Single'
            BY <2>1, <2>2, <3>1, <3>2 DEF IInv2, Single, Owner
        <3> QED BY <2>3, <2>4, <3>3 DEF IInv2
    <2> QED BY <1>1, <2>5, <2>6 DEF Lapse
<1>2. ASSUME NEW s \in Resources, Land(s) PROVE IInv2'
    <2>1. res[s] = "sent" /\ UNCHANGED <<kind, claim, col, req, faults, vanished>>
          /\ \A t \in Resources : res'[t] = "gone" <=> res[t] = "gone"
        BY <1>2 DEF Land, IInv2, IInv, TypeOK
    <2>2. claim.sid \in Resources \cup {Nil}
        BY <1>0, Shapes
    <2>3. Winner'
        BY <2>1, <2>2 DEF IInv2, Winner, WinnerOK
    <2>4. Lonely'
        BY <2>1, <2>2 DEF IInv2, Lonely, AloneOK, Unhindered, Open, Resting
    <2>5. ~Calm'
        BY <2>1 DEF IInv2, Single, Calm
    <2> QED BY <2>3, <2>4, <2>5 DEF IInv2, Single
<1>3. ASSUME NEW s \in Resources, Vanish(s) PROVE IInv2'
    <2>1. UNCHANGED <<kind, claim, col, req, faults>> /\ vanished' # 0
          /\ \A t \in Resources : res[t] = "gone" => res'[t] = "gone"
        BY <1>0, <1>3, Shapes DEF Vanish, IInv2, IInv, TypeOK
    <2>2. claim.sid \in Resources \cup {Nil}
        BY <1>0, Shapes
    <2>3. Lonely'
        BY <2>1, <2>2 DEF IInv2, Lonely, AloneOK, Unhindered, Open, Resting
    <2> QED BY <2>1, <2>3 DEF IInv2, Winner, Single, Calm
<1> QED BY <1>1, <1>2, <1>3

LEMMA InitIInv2 == Init => IInv2
<1> SUFFICES ASSUME Init PROVE IInv2
    OBVIOUS
<1>1. IInv
    BY InitIInv
<1>2. \A r \in Requests : req[r] = Fresh
    BY DEF Init
<1>3. /\ \A s \in Resources : res[s] \in {"none", "live"} /\ (res[s] = "live" => s = col)
      /\ faults = 0 /\ vanished = 0 /\ kind \in Kinds
    BY DEF Init
<1>4. col \in {Nil, Old} /\ (kind = "filed" => claim.sid = Old /\ claim.made) /\ (kind # "filed" => claim.sid = Nil)
      /\ ~claim.failed
    BY KindAssumption, OldAssumption DEF Init, Filed
<1>5. \A s \in Marked : s = Old /\ kind = "filed"
    BY <1>1, <1>3, <1>4, Shapes DEF Marked
<1>6. Winner
    BY <1>1, <1>2, <1>3, Shapes DEF Winner, WinnerOK, Fresh
<1>7. Lonely
    BY <1>2 DEF Lonely, AloneOK, Fresh
<1>8. Single
    <2>1. \A r \in Requests : OwnerOK(r) /\ ~Owner(r)
        BY <1>2 DEF OwnerOK, Orderly, Owner, Attempting, Fresh
    <2> QED BY <1>3, <1>4, <1>5, <2>1 DEF Single
<1> QED BY <1>1, <1>6, <1>7, <1>8 DEF IInv2

LEMMA StepKeeps2 == ASSUME IInv2, NEW r \in Requests, Step(r) PROVE IInv2'
<1>0. IInv'
    BY StepKeeps DEF IInv2
<1>1. CASE Start(r) \/ Find(r) \/ Insert(r) \/ Wait(r) \/ Verify(r) \/ Retire(r) \/ Reread(r)
    BY <1>0, <1>1, StartKeeps2, FindKeeps2, InsertKeeps2, WaitKeeps2, VerifyKeeps2, RetireKeeps2, RereadKeeps2
<1>2. CASE Lookup(r) \/ Take(r) \/ TakeStale(r) \/ Seed(r) \/ AttachSeed(r) \/ FollowSeed(r)
    BY <1>0, <1>2, LookupKeeps2, TakeKeeps2, SeedKeeps2, AttachSeedKeeps2, FollowSeedKeeps2
<1>3. CASE Create(r) \/ CreateUnanswered(r) \/ CreateRefused(r) \/ RecordFailure(r) \/ Again(r) \/ Release(r)
    BY <1>0, <1>3, CreateKeeps2, CreateUnansweredKeeps2, RefusedKeeps2, FailureKeeps2, AgainKeeps2, ReleaseKeeps2
<1>4. CASE Attach(r) \/ Lost(r) \/ Withdraw(r) \/ Refetch(r) \/ Column(r) \/ Unavailable(r) \/ Stop(r)
    BY <1>0, <1>4, AttachKeeps2, LostKeeps2, WithdrawKeeps2, RefetchKeeps2, ColumnKeeps2, FaultKeeps2
<1> QED BY <1>1, <1>2, <1>3, <1>4 DEF Step

LEMMA NextKeeps2 == ASSUME IInv2, [Next]_vars PROVE IInv2'
<1>0. IInv'
    BY NextKeeps DEF IInv2
<1>1. CASE UNCHANGED vars
    <2>1. UNCHANGED <<kind, claim, col, res, req, faults, vanished>>
        BY <1>1 DEF vars
    <2>2. Marked' = Marked /\ \A r \in Requests : OwnerOK(r)' = OwnerOK(r) /\ AloneOK(r)' = AloneOK(r)
        BY <2>1 DEF Marked, OwnerOK, Orderly, AloneOK, Unhindered, Open, Resting
    <2>3. Winner' /\ Lonely'
        BY <2>1, <2>2 DEF IInv2, Winner, WinnerOK, Lonely
    <2>4. Single'
        BY <2>1, <2>2 DEF IInv2, Single, Calm, Owner
    <2> QED BY <1>0, <2>3, <2>4 DEF IInv2
<1>2. CASE \E r \in Requests : Step(r)
    BY <1>2, StepKeeps2
<1>3. CASE Lapse \/ (\E s \in Resources : Land(s) \/ Vanish(s))
    BY <1>0, <1>3, WorldKeeps2
<1> QED BY <1>1, <1>2, <1>3 DEF Next

-----------------------------------------------------------------------------
(* The theorems *)

THEOREM Inductive == Spec => []IInv
<1>1. IInv /\ [Next]_vars => IInv'
    BY NextKeeps
<1> QED BY InitIInv, <1>1, PTL DEF Spec

\* A claim lets go of a resource only once Twilio has lost it
\* (retire_provider_claim_sid is fenced on the very resource a 404 was about).
THEOREM RetiredForGood == Spec => RetiredIsGone
<1>1. IInv /\ [Next]_vars => [claim.sid # Nil /\ claim'.sid # claim.sid => res[claim.sid] = "gone"]_vars
    BY NextKeeps DEF Kept
<1> QED BY <1>1, Inductive, PTL DEF Spec, RetiredIsGone

\* Two requests are never given two identities that both exist.
THEOREM GivenOnce == Spec => []OneIdentity
<1>1. IInv => OneIdentity
    BY DEF IInv, ReqOK, OneIdentity, Given, At
<1> QED BY <1>1, Inductive, PTL

THEOREM Inductive2 == Spec => []IInv2
<1>1. IInv2 /\ [Next]_vars => IInv2'
    BY NextKeeps2
<1> QED BY InitIInv2, <1>1, PTL DEF Spec

\* While every answer arrives, no request stops and nobody deletes by hand, one claim has
\* one resource: the lease keeps everybody but its holder from creating
\* (take_over_provider_claim and the lookup before it).
THEOREM CreatedOnce == Spec => []NoDuplicate
<1>1. IInv2 => NoDuplicate
    <2> SUFFICES ASSUME IInv2, Calm PROVE Cardinality(Marked) <= 1
        BY DEF NoDuplicate, Calm
    <2>1. CASE Marked = {}
        BY <2>1, FS_EmptySet
    <2>2. CASE Marked # {}
        <3>1. PICK s \in Marked : Marked = {s}
            BY <2>2 DEF IInv2, Single
        <3>2. Cardinality({s}) = 1
            BY FS_Singleton
        <3> QED BY <3>1, <3>2
    <2> QED BY <2>1, <2>2
<1> QED BY <1>1, Inductive2, PTL

\* No scope is poisoned: a request that has it to itself is never told that somebody else
\* is at work, told ok it has what the claim and the column name, and whatever it is told,
\* a refusal included, it leaves no lease behind (release_provider_claim).
THEOREM NeverPoisoned == Spec => []NoScopeIsPoisoned
<1>1. IInv2 => NoScopeIsPoisoned
    BY DEF IInv2, Lonely, AloneOK, Unhindered, NoScopeIsPoisoned, At
<1> QED BY <1>1, Inductive2, PTL

\* The loser of a race takes away only what it brought (_withdraw_provider_resource),
\* until somebody deletes by hand.
THEOREM WinnerStands == Spec => WinnerIsKept
<1> DEFINE Stands == \A s \in Resources :
               vanished = 0 /\ res[s] = "live" /\ res'[s] = "gone" /\ vanished' = vanished
                  => s # claim.sid
<1>1. IInv2 /\ [Next]_vars => [Stands]_vars
    <2> SUFFICES ASSUME IInv2, Next, NEW s \in Resources, vanished = 0, res[s] = "live", res'[s] = "gone",
                        vanished' = vanished, s = claim.sid
                 PROVE  FALSE
        OBVIOUS
    <2>1. IInv2' /\ claim.sid # Nil
        BY NextKeeps2, Shapes DEF IInv2
    <2>2. res[claim.sid] = "live" /\ res'[claim.sid] = "gone"
        OBVIOUS
    <2>3. Kept
        BY NextKeeps DEF IInv2
    <2>4. claim'.sid = claim.sid
        BY <2>1, <2>2, <2>3 DEF Kept
    <2> QED BY <2>1, <2>2, <2>4 DEF IInv2, Winner
<1> QED BY <1>1, Inductive2, PTL DEF Spec, WinnerIsKept
=============================================================================
