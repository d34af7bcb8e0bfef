------------------------------ MODULE MCBilling ------------------------------
(* TLC instance of Billing: jobs, plans and subscriptions are alike. *)
EXTENDS Billing, TLC
CONSTANTS j1, j2, s1, s2, s3, p1, p2
Alike == {f @@ g @@ h : f \in Permutations(Jobs), g \in Permutations(Subs), h \in Permutations(Plans)}
(* What follows once two purchases crossed, which most properties exempt, is
   not combined with a fault, a later change or a third subscription. *)
Separately == crossed => faults = 0 /\ changes = 0 /\ \E s \in Subs : subs[s].status = "none"
=============================================================================
