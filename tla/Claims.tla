------------------------------- MODULE Claims -------------------------------
(***************************************************************************)
(* ClaimsService (src/claims/claims.service.ts) for one claim and the      *)
(* approval it opens.                                                      *)
(*                                                                         *)
(* A request is one HTTP call on the claim, or one on its approval, with   *)
(* what it sets off behind the answer: create() opens the approval and     *)
(* update() amends it in a setImmediate callback, and a decision on the    *)
(* approval is announced to handleApprovalAction.                          *)
(*                                                                         *)
(* The approval's amount is written by both sides: by claims straight into *)
(* the approvals table, and by performAction, which saves the columns of   *)
(* the copy it loaded, perhaps from the approver's cache.  performAction   *)
(* is here what module Approvals says in detail: a save is refused when a  *)
(* history entry has been inserted since the copy was taken.               *)
(***************************************************************************)
EXTENDS Naturals, FiniteSets

CONSTANTS
    ClaimRequest,   \* HTTP calls, each performed at most once
    Amounts,        \* the amounts claimed
    ClaimCarried,   \* the statuses an update may carry in its body
    NoAmount, NoRow, NoRequest, NoneHeld

ClaimStatus == {"pending", "approved", "rejected", "paid", "cancelled",
                "declined", "deleted"}

ApprovalState == {"pending", "approved", "rejected", "additional_info_required"}

OnApproval == {"view", "approve", "reject", "request_info", "delegate"}

(* An update that leaves the amount or the status alone carries NoAmount,  *)
(* or "none".                                                              *)
ClaimCalls ==
    [op: {"create"}, amount: Amounts]
    \cup [op: {"update"}, amount: Amounts \cup {NoAmount},
          status: ClaimCarried \cup {"none"}]
    \cup [op: {"remove", "restore"} \cup OnApproval]

ClaimRow == [status: ClaimStatus, amount: Amounts, deleted: BOOLEAN]

ApprovalCopy == [status: ApprovalState, amount: Amounts, entries: Nat]

ASSUME ClaimsAssumption ==
    /\ NoAmount \notin Amounts
    /\ ClaimCarried \subseteq ClaimStatus
    /\ NoRequest \notin ClaimCalls
    /\ NoRow \notin ClaimRow \cup ApprovalCopy

VARIABLES
    claim,       \* the claim's row
    approvalRow, \* its approval's row, with the number of its history entries
    approverCopy,\* the copy of the approval cached for the approver
    claimPc,     \* where each request is
    claimCall,   \* what it asks for
    claimHeld,   \* the amount of the claim, or the copy of the approval, it has read
    disturbed    \* requests have overlapped, or one has failed

claimVars == <<claim, approvalRow, approverCopy, claimPc, claimCall, claimHeld, disturbed>>

ClaimPC == {"idle", "opening", "writing", "rereading", "finding", "amending",
            "deciding", "recording", "told", "hearing", "failed", "done"}

ClaimsInit ==
    /\ claim = NoRow
    /\ approvalRow = NoRow
    /\ approverCopy = NoneHeld
    /\ claimPc = [r \in ClaimRequest |-> "idle"]
    /\ claimCall = [r \in ClaimRequest |-> NoRequest]
    /\ claimHeld = [r \in ClaimRequest |-> NoneHeld]
    /\ disturbed = FALSE

Reach(r, p) == claimPc' = [claimPc EXCEPT ![r] = p]

Hold(r, x) == claimHeld' = [claimHeld EXCEPT ![r] = x]

ClaimInProgress == {r \in ClaimRequest : claimPc[r] \notin {"idle", "failed", "done"}}

(* A request begins, and reaches p.                                        *)
Start(r, q, p) ==
    /\ claimPc[r] = "idle"
    /\ claimCall' = [claimCall EXCEPT ![r] = q]
    /\ disturbed' = (disturbed \/ ClaimInProgress # {})
    /\ Reach(r, p)

-----------------------------------------------------------------------------
(* create(): the claim is saved as pending and the client answered; then   *)
(* initializeClaimApprovalWorkflow opens the approval, with the amount of  *)
(* the claim as it was created.                                            *)
CreateClaim(r, q) ==
    /\ q.op = "create"
    /\ claim = NoRow
    /\ claim' = [status |-> "pending", amount |-> q.amount, deleted |-> FALSE]
    /\ Hold(r, q.amount)
    /\ Start(r, q, "opening")
    /\ UNCHANGED <<approvalRow, approverCopy>>

OpenApproval(r) ==
    /\ claimPc[r] = "opening"
    /\ approvalRow' = [status |-> "pending", amount |-> claimHeld[r], entries |-> 0]
    /\ Reach(r, "done")
    /\ UNCHANGED <<claim, approverCopy, claimCall, claimHeld, disturbed>>

(* update() and remove() find the claim that is not deleted, restore() the *)
(* one that is.  Nothing is asked of its status: the check of the status   *)
(* an update carries is empty.                                             *)
Found(op) == claim # NoRow /\ claim.deleted = (op = "restore")

FindClaim(r, q) ==
    /\ q.op \in {"update", "remove", "restore"}
    /\ claim # NoRow
    /\ Start(r, q, IF Found(q.op) THEN "writing" ELSE "done")
    /\ UNCHANGED <<claim, approvalRow, approverCopy, claimHeld>>

Written(q) ==
    IF q.op = "update"
    THEN [claim EXCEPT !.status = IF q.status = "none" THEN @ ELSE q.status,
                       !.amount = IF q.amount = NoAmount THEN @ ELSE q.amount]
    ELSE [claim EXCEPT !.deleted = (q.op = "remove")]

WriteClaim(r) ==
    /\ claimPc[r] = "writing"
    /\ claim' = Written(claimCall[r])
    /\ Reach(r, IF claimCall[r].op = "update" THEN "rereading" ELSE "done")
    /\ UNCHANGED <<approvalRow, approverCopy, claimCall, claimHeld, disturbed>>

(* Behind the answer update() reads the claim again, finds its approval,   *)
(* and, unless that is decided, writes the claim's amount into its row.    *)
(* It leaves the approvals' caches alone.                                  *)
Reread(r) ==
    /\ claimPc[r] = "rereading"
    /\ Hold(r, claim.amount)
    /\ Reach(r, "finding")
    /\ UNCHANGED <<claim, approvalRow, approverCopy, claimCall, disturbed>>

(* Mutant: a decided approval is amended as well. *)
AmendableAlways(status) == status # "none"

Amendable(status) == status \notin {"approved", "rejected"}

FindApproval(r) ==
    /\ claimPc[r] = "finding"
    /\ Reach(r, IF approvalRow # NoRow /\ Amendable(approvalRow.status)
                THEN "amending" ELSE "done")
    /\ UNCHANGED <<claim, approvalRow, approverCopy, claimCall, claimHeld, disturbed>>

(* Mutant: the amount of the approval is left as it was opened. *)
AmendNothing(r) ==
    /\ claimPc[r] = "amending"
    /\ Reach(r, "done")
    /\ UNCHANGED <<claim, approvalRow, approverCopy, claimCall, claimHeld, disturbed>>

Amend(r) ==
    /\ claimPc[r] = "amending"
    /\ approvalRow' = [approvalRow EXCEPT !.amount = claimHeld[r]]
    /\ Reach(r, "done")
    /\ UNCHANGED <<claim, approverCopy, claimCall, claimHeld, disturbed>>

-----------------------------------------------------------------------------
(* performAction loads the approval from the approver's cache, or else     *)
(* from its row, which it caches; the copy must be pending.  On a hit it   *)
(* assigns to the cached object itself.                                    *)
(* Mutant: a refusal is written as the status claims use for it. *)
DecidedDeclined(op, status) == CASE op = "approve"      -> "approved"
                                 [] op = "reject"       -> "declined"
                                 [] op = "request_info" -> "additional_info_required"
                                 [] op = "delegate"     -> status

Decided(op, status) == CASE op = "approve"      -> "approved"
                         [] op = "reject"       -> "rejected"
                         [] op = "request_info" -> "additional_info_required"
                         [] op = "delegate"     -> status

LoadApproval(r, q) ==
    LET copy == IF approverCopy # NoneHeld THEN approverCopy ELSE approvalRow
        permitted == q.op # "view" /\ copy.status = "pending"
    IN  /\ q.op \in OnApproval
        /\ approvalRow # NoRow
        /\ Hold(r, copy)
        /\ approverCopy' = IF permitted /\ approverCopy # NoneHeld
                           THEN [copy EXCEPT !.status = Decided(q.op, @)] ELSE copy
        /\ Start(r, q, IF permitted THEN "deciding" ELSE "done")
        /\ UNCHANGED <<claim, approvalRow>>

(* The save writes the columns of the copy that differ from the row.  It   *)
(* is refused if the copy lacks a history entry: its foreign key would be  *)
(* cleared.                                                                *)
SaveDecision(r) ==
    /\ claimPc[r] = "deciding"
    /\ IF claimHeld[r].entries = approvalRow.entries
       THEN /\ approvalRow' = [claimHeld[r] EXCEPT !.status = Decided(claimCall[r].op, @)]
            /\ Reach(r, "recording")
            /\ UNCHANGED disturbed
       ELSE /\ Reach(r, "failed")
            /\ disturbed' = TRUE
            /\ UNCHANGED approvalRow
    /\ UNCHANGED <<claim, approverCopy, claimCall, claimHeld>>

(* The history entry is inserted, and the event emitted.                   *)
RecordDecision(r) ==
    /\ claimPc[r] = "recording"
    /\ approvalRow' = [approvalRow EXCEPT !.entries = @ + 1]
    /\ Reach(r, "told")
    /\ UNCHANGED <<claim, approverCopy, claimCall, claimHeld, disturbed>>

(* handleApprovalAction reads the claim, deleted or not, and updates it,   *)
(* whatever it has become; only approve and reject change its status.      *)
Hear(r) ==
    /\ claimPc[r] = "told"
    /\ Reach(r, IF claimCall[r].op = "delegate" THEN "done" ELSE "hearing")
    /\ UNCHANGED <<claim, approvalRow, approverCopy, claimCall, claimHeld, disturbed>>

(* Mutant: a rejection is taken for an approval. *)
ClaimOutcomeSwapped(op, status) ==
    IF op \in {"approve", "reject"} THEN "approved" ELSE status

ClaimOutcome(op, status) == CASE op = "approve" -> "approved"
                              [] op = "reject"  -> "declined"
                              [] OTHER          -> status

(* Mutant: a deleted claim is not found. *)
ApplyUnlessDeleted(r) ==
    /\ claimPc[r] = "hearing"
    /\ claim' = IF claim.deleted THEN claim
                ELSE [claim EXCEPT !.status = ClaimOutcome(claimCall[r].op, @)]
    /\ Reach(r, "done")
    /\ UNCHANGED <<approvalRow, approverCopy, claimCall, claimHeld, disturbed>>

ApplyOutcome(r) ==
    /\ claimPc[r] = "hearing"
    /\ claim' = [claim EXCEPT !.status = ClaimOutcome(claimCall[r].op, @)]
    /\ Reach(r, "done")
    /\ UNCHANGED <<approvalRow, approverCopy, claimCall, claimHeld, disturbed>>

(* A database call fails: the request is answered with an error, and a     *)
(* callback or a listener logs it and stops.                               *)
FailClaim(r) ==
    /\ claimPc[r] \in ClaimPC \ {"idle", "failed", "done"}
    /\ Reach(r, "failed")
    /\ disturbed' = TRUE
    /\ UNCHANGED <<claim, approvalRow, approverCopy, claimCall, claimHeld>>

EvictCopy ==
    /\ approverCopy # NoneHeld
    /\ approverCopy' = NoneHeld
    /\ UNCHANGED <<claim, approvalRow, claimPc, claimCall, claimHeld, disturbed>>

ContinueClaim(r) ==
    \/ OpenApproval(r)
    \/ WriteClaim(r)
    \/ Reread(r)
    \/ FindApproval(r)
    \/ Amend(r)
    \/ SaveDecision(r)
    \/ RecordDecision(r)
    \/ Hear(r)
    \/ ApplyOutcome(r)

ClaimsNext ==
    \/ \E r \in ClaimRequest : \E q \in ClaimCalls :
          \/ CreateClaim(r, q)
          \/ FindClaim(r, q)
          \/ LoadApproval(r, q)
    \/ \E r \in ClaimRequest : ContinueClaim(r) \/ FailClaim(r)
    \/ EvictCopy

ClaimsSpec == ClaimsInit /\ [][ClaimsNext]_claimVars

-----------------------------------------------------------------------------
ClaimsTypeOK ==
    /\ claim \in ClaimRow \cup {NoRow}
    /\ approvalRow \in ApprovalCopy \cup {NoRow}
    /\ approverCopy \in ApprovalCopy \cup {NoneHeld}
    /\ claimPc \in [ClaimRequest -> ClaimPC]
    /\ claimCall \in [ClaimRequest -> ClaimCalls \cup {NoRequest}]
    /\ claimHeld \in [ClaimRequest -> Amounts \cup ApprovalCopy \cup {NoneHeld}]
    /\ disturbed \in BOOLEAN

ClaimsAtRest == ClaimInProgress = {}

(* A claim is approved only because its approval was, or because an update *)
(* carried that status: no other handler, in any order, approves it.       *)
ClaimApprovedByDecision ==
    (claim # NoRow /\ claim.status = "approved") =>
      \E r \in ClaimRequest :
        /\ claimCall[r] # NoRequest
        /\ claimPc[r] \notin {"deciding", "recording", "writing"}
        /\ \/ claimCall[r].op = "approve"
           \/ claimCall[r].op = "update" /\ claimCall[r].status = "approved"

(* A delegation saved the copy it had loaded, with this amount. *)
DelegatedWith(amount) ==
    \E r \in ClaimRequest :
      /\ claimPc[r] \in {"recording", "told", "done"}
      /\ claimCall[r] # NoRequest
      /\ claimCall[r].op = "delegate"
      /\ claimHeld[r].amount = amount

(* Unless requests overlap or one fails, at rest the row of an approval    *)
(* that is still pending has the amount the claim has now, however the     *)
(* claim was updated, removed and restored: or else a delegation put back  *)
(* the amount of the copy it was given, taken before an update.  This is   *)
(* about the row: an approver whose copy is cached is shown the copy.      *)
PendingShowsClaim ==
    (ClaimsAtRest /\ ~disturbed /\ approvalRow # NoRow /\ approvalRow.status = "pending")
      => approvalRow.amount = claim.amount \/ DelegatedWith(approvalRow.amount)

(* Unless requests overlap, what was decided is kept: no update of the     *)
(* claim amends an approval that has been approved or rejected, and no     *)
(* copy of it is saved over it.                                            *)
DecidedApprovalIsKept ==
    [][(approvalRow # NoRow /\ approvalRow.status \in {"approved", "rejected"} /\ ~disturbed)
         => /\ approvalRow'.status = approvalRow.status
            /\ approvalRow'.amount = approvalRow.amount]_claimVars

(* Unless requests overlap or one fails, claim and approval end up with    *)
(* the same outcome, however often the claim was updated, removed or       *)
(* restored before and after the decision, if no update carried a status.  *)
OutcomesAgree ==
    (/\ ClaimsAtRest
     /\ ~disturbed
     /\ approvalRow # NoRow
     /\ approvalRow.status \in {"approved", "rejected"}
     /\ \A r \in ClaimRequest :
          (claimCall[r] # NoRequest /\ claimCall[r].op = "update")
             => claimCall[r].status = "none")
      => claim.status = IF approvalRow.status = "approved" THEN "approved" ELSE "declined"
=============================================================================
