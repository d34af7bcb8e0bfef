--------------------------- MODULE MutationClaims ---------------------------
(***************************************************************************)
(* The ownership row of one appointment: table appointment_mutation_claims *)
(* (migrations 021 and 047), reached through backend/db/mutation_claims.py *)
(* and backend/services/mutation_ownership.py.                             *)
(*                                                                         *)
(* The table's primary key is the appointment id, so appointments never    *)
(* share a row and one appointment is enough.  Every operator below is one *)
(* SQL statement and therefore one atomic step.  A fresh uuid per          *)
(* acquisition is an opaque token; claimed_at is never rewritten without a *)
(* new token, so the comparisons on claimed_at add nothing to those on the *)
(* token, and what is kept of claimed_at is only whether it is older than  *)
(* the cut-off its type is compared with (claimOld).                       *)
(***************************************************************************)
CONSTANT Nil                    \* SQL NULL

VARIABLES claim,                \* the row, or NoClaim
          claimOld              \* claimed_at is past the cut-off

claimVars == <<claim, claimOld>>

ClaimTypes == {"cancel", "reschedule", "cancel_reconcile", "payment_confirmation"}

Reasons == {"provider_outcome_unknown", "local_write_failed"}

NoClaim == [type |-> "none", op |-> Nil, token |-> Nil, reason |-> Nil]

ClaimRow(type, op, token, reason) ==
    [type |-> type, op |-> op, token |-> token, reason |-> reason]

\* The two CHECK constraints of migration 021 and the type list of 047.
ClaimRows(ops, tokens) ==
    {c \in [type : ClaimTypes, op : ops \cup {Nil}, token : tokens,
            reason : Reasons \cup {Nil}] :
        /\ c.type = "reschedule" <=> c.op # Nil
        /\ c.type = "cancel_reconcile" <=> c.reason # Nil}

ClaimsTypeOK(ops, tokens) ==
    /\ claim \in ClaimRows(ops, tokens) \cup {NoClaim}
    /\ claimOld \in BOOLEAN

Free == claim = NoClaim

Owns(type, token) == claim.type = type /\ claim.token = token

(***************************************************************************)
(* Acquisition is an INSERT: the primary key elects one owner.             *)
(***************************************************************************)
Insert(row) ==
    /\ Free
    /\ claim' = row
    /\ claimOld' = FALSE

AcquireCancel(token) == Insert(ClaimRow("cancel", Nil, token, Nil))

AcquireReschedule(op, token) == Insert(ClaimRow("reschedule", op, token, Nil))

Delete == claim' = NoClaim /\ claimOld' = FALSE

\* DELETE ... WHERE claim_token = token: a no-op for a worker that lost the row.
Release(token) ==
    IF claim.token = token THEN Delete ELSE UNCHANGED claimVars

\* DELETE of a reschedule claim whose operation row never landed.
ReleaseOrphan(op, token) ==
    IF Owns("reschedule", token) /\ claim.op = op /\ claimOld
    THEN Delete ELSE UNCHANGED claimVars

(***************************************************************************)
(* cancel -> cancel_reconcile keeps the token and claimed_at; the way back *)
(* and the takeovers write new ones.                                       *)
(***************************************************************************)
ToReconcile(token, reason) ==
    IF Owns("cancel", token)
    THEN /\ claim' = ClaimRow("cancel_reconcile", Nil, token, reason)
         /\ UNCHANGED claimOld
    ELSE UNCHANGED claimVars

ReturnToCancel(token, new) ==
    IF Owns("cancel_reconcile", token)
    THEN /\ claim' = ClaimRow("cancel", Nil, new, Nil)
         /\ claimOld' = FALSE
    ELSE UNCHANGED claimVars

TakeOver(type, op, prev, new) ==
    /\ Owns(type, prev)
    /\ claim.op = op
    /\ claimOld
    /\ claim' = [claim EXCEPT !.token = new]
    /\ claimOld' = FALSE

TakeOverReconcile(prev, new) == TakeOver("cancel_reconcile", Nil, prev, new)

TakeOverReschedule(op, prev, new) == TakeOver("reschedule", op, prev, new)

\* Time passes the cut-off the claim's type is compared with.
ClaimAges ==
    /\ ~Free
    /\ ~claimOld
    /\ claimOld' = TRUE
    /\ UNCHANGED claim
=============================================================================
