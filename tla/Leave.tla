------------------------------- MODULE Leave -------------------------------
(***************************************************************************)
(* LeaveService (src/leave/leave.service.ts) for the leaves of one         *)
(* employee, composed with the approvals it opens for them.                *)
(*                                                                         *)
(* A request is one HTTP call on a leave, or one on an approval of a leave,*)
(* with what it sets off in the background: create() and update() return   *)
(* before they open an approval (setImmediate), and a decision on an       *)
(* approval is announced to handleApprovalAction, which reads the leave    *)
(* and then updates it.  Each approval behaves as ApprovalLifecycle says,  *)
(* which Approvals is shown to implement: it may be decided again as long  *)
(* as its decision is not final.                                           *)
(***************************************************************************)
EXTENDS Naturals, FiniteSets

CONSTANTS
    Leaves,       \* the leaves of the employee
    Approval,     \* approvals that can be opened
    Request,      \* HTTP calls, each performed at most once
    Dates,        \* the date ranges a leave may have, as sets of days
    Ops,          \* the operations the requests may ask for
    Carried,      \* the statuses an update may carry in its body
    NoLeave, NoCall

LeaveStatus == {"pending", "approved", "rejected", "cancelled_by_user",
                "cancelled_by_admin", "taken", "partially_taken"}

Cancelled == {"cancelled_by_user", "cancelled_by_admin"}

ApprovalStatus == {"pending", "approved", "rejected", "withdrawn"}

OnLeave    == {"create", "update", "approve", "reject", "cancel_by_user",
               "cancel_by_admin", "remove"}
OnApproval == {"decide_approve", "decide_reject", "withdraw"}

ASSUME LeaveAssumption ==
    /\ NoLeave \notin Leaves
    /\ Ops \subseteq OnLeave \cup OnApproval
    /\ Carried \subseteq LeaveStatus
    /\ {} \notin Dates

(* The columns of a leave's row that a guard or a listener reads. *)
Row  == [status: LeaveStatus, days: Dates, deleted: BOOLEAN]
NoRow == [status |-> "none", days |-> {}, deleted |-> FALSE]

(* days is empty in an update that leaves the dates alone; carried is      *)
(* "none" in one that carries no status.                                   *)
Call ==
    [op: OnLeave \cap Ops, leave: Leaves, days: Dates \cup {{}},
     carried: Carried \cup {"none"}]
    \cup [op: OnApproval \cap Ops, approval: Approval]

Calls ==
    {q \in Call :
       q.op \in OnLeave =>
         /\ q.days # {} => q.op \in {"create", "update"}
         /\ q.op = "create" => q.days # {}
         /\ q.carried # "none" => q.op = "update"}

ASSUME NoCallAssumption == NoCall \notin Calls

VARIABLES
    row,       \* the leaves' rows
    cache,     \* the status of the copy findOne cached under {ref}_{org}_{branch}
    approval,  \* the approvals opened: the leave, the status, whether it is final
    pc,        \* where each request is
    call,      \* what it asks for
    held       \* the status of the leave as the request read it

vars == <<row, cache, approval, pc, call, held>>

PC == {"idle", "filling", "checking", "rejecting", "revoking", "resetting", "writing",
       "submitting", "opening", "told", "hearing", "failed", "done"}

Unopened == [leave |-> NoLeave, status |-> "none", final |-> FALSE]

Init ==
    /\ row = [l \in Leaves |-> NoRow]
    /\ cache = [l \in Leaves |-> "none"]
    /\ approval = [a \in Approval |-> Unopened]
    /\ pc = [r \in Request |-> "idle"]
    /\ call = [r \in Request |-> NoCall]
    /\ held = [r \in Request |-> "none"]

Go(r, p) == pc' = [pc EXCEPT ![r] = p]

Live(l) == row[l] # NoRow /\ ~row[l].deleted

-----------------------------------------------------------------------------
(* create(): the row is inserted as pending.  validateLeaveConflicts then  *)
(* reads the owner's approved and taken leaves; an error there counts as   *)
(* no conflict.  A conflict rejects the new leave; otherwise its approval  *)
(* is opened in the background.                                            *)
Insert(r, q) ==
    /\ pc[r] = "idle"
    /\ q.op = "create"
    /\ row[q.leave] = NoRow
    /\ row' = [row EXCEPT ![q.leave] = [status |-> "pending", days |-> q.days,
                                        deleted |-> FALSE]]
    /\ call' = [call EXCEPT ![r] = q]
    /\ Go(r, "checking")
    /\ UNCHANGED <<cache, approval, held>>

Booked == {"approved", "taken", "partially_taken"}

(* Mutant: create() compares with the leaves of every status. *)
ConflictsOfAnyStatus(l) == {k \in Leaves \ {l} :
                              Live(k) /\ row[k].days \cap row[l].days # {}}

Conflicts(l) == {k \in Leaves \ {l} :
                   /\ Live(k)
                   /\ row[k].status \in Booked
                   /\ row[k].days \cap row[l].days # {}}

Check(r) ==
    /\ pc[r] = "checking"
    /\ \/ Conflicts(call[r].leave) # {} /\ Go(r, "rejecting")
       \/ Go(r, "submitting")       \* no conflict, or the query failed
    /\ UNCHANGED <<row, cache, approval, call, held>>

(* clearLeaveCache deletes the key leaves:{ref} and those of the lists.    *)
ClearedKeys == {"ref", "leaves_page", "leave:all", "limit"}

Cleared(l) == IF "ref_org_branch" \in ClearedKeys
              THEN [cache EXCEPT ![l] = "none"] ELSE cache

AutoReject(r) ==
    /\ pc[r] = "rejecting"
    /\ row' = [row EXCEPT ![call[r].leave].status = "rejected"]
    /\ cache' = Cleared(call[r].leave)
    /\ Go(r, "done")
    /\ UNCHANGED <<approval, call, held>>

-----------------------------------------------------------------------------
(* The other operations begin with findOne and check the status it returns:*)
(* that of the copy in the cache, or that of the row, which findOne caches *)
(* once the query has answered, whatever has been written meanwhile.       *)
Permits(op, status) ==
    \/ op \in {"update", "approve", "reject"} /\ status = "pending"
    \/ op \in {"cancel_by_user", "cancel_by_admin"} /\ status \in {"pending", "approved"}
    \/ op = "remove"

Critical(q) == q.days # {}

FirstStep(q) == IF \/ q.op \in {"cancel_by_user", "cancel_by_admin"}
                   \/ q.op = "update" /\ Critical(q)
                THEN "revoking" ELSE "writing"

Hit(r, q) ==
    /\ pc[r] = "idle"
    /\ q.op \in OnLeave \ {"create"}
    /\ cache[q.leave] # "none"
    /\ IF Permits(q.op, cache[q.leave])
       THEN /\ call' = [call EXCEPT ![r] = q]
            /\ Go(r, FirstStep(q))
       ELSE /\ Go(r, "done")
            /\ UNCHANGED call
    /\ UNCHANGED <<row, cache, approval, held>>

Query(r, q) ==
    /\ pc[r] = "idle"
    /\ q.op \in OnLeave \ {"create"}
    /\ cache[q.leave] = "none"
    /\ Live(q.leave)
    /\ held' = [held EXCEPT ![r] = row[q.leave].status]
    /\ call' = [call EXCEPT ![r] = q]
    /\ Go(r, "filling")
    /\ UNCHANGED <<row, cache, approval>>

NotFound(r, q) ==
    /\ pc[r] = "idle"
    /\ q.op \in OnLeave \ {"create"}
    /\ cache[q.leave] = "none"
    /\ row[q.leave].deleted
    /\ Go(r, "done")
    /\ UNCHANGED <<row, cache, approval, call, held>>

Fill(r) ==
    /\ pc[r] = "filling"
    /\ cache' = [cache EXCEPT ![call[r].leave] = held[r]]
    /\ held' = [held EXCEPT ![r] = "none"]
    /\ Go(r, IF Permits(call[r].op, held[r]) THEN FirstStep(call[r]) ELSE "failed")
    /\ UNCHANGED <<row, approval, call>>

(* handleLeaveRevocation looks the leave's open approvals up as a caller of*)
(* whom it gives only the uid, so that the scoping of findAll finds none   *)
(* but those of no organisation; what it finds it withdraws with           *)
(* performAction, which has no such action.  It swallows every error.      *)
CallerOrganisation   == "none"
ApprovalOrganisation == "organisation"
Performed == {"approve", "reject", "request_info", "delegate", "escalate"}

Revoked(l) == {a \in Approval :
                 /\ approval[a].leave = l
                 /\ approval[a].status = "pending"
                 /\ CallerOrganisation = ApprovalOrganisation
                 /\ "withdraw" \in Performed}

Revoke(r) ==
    /\ pc[r] = "revoking"
    /\ approval' = [a \in Approval |->
                      IF a \in Revoked(call[r].leave)
                      THEN [approval[a] EXCEPT !.status = "withdrawn", !.final = TRUE]
                      ELSE approval[a]]
    /\ Go(r, IF call[r].op = "update" THEN "resetting" ELSE "writing")
    /\ UNCHANGED <<row, cache, call, held>>

(* handleLeaveModificationDuringApproval puts the leave back to pending;   *)
(* it swallows an error.                                                   *)
Reset(r) ==
    /\ pc[r] = "resetting"
    /\ \/ row' = [row EXCEPT ![call[r].leave].status = "pending"]
       \/ UNCHANGED row
    /\ Go(r, "writing")
    /\ UNCHANGED <<cache, approval, call, held>>

(* Mutant: cancelLeave sets a status the enum does not have. *)
AfterUnlisted(q, x) ==
    [status  |-> IF q.op = "cancel_by_user" THEN "cancelled" ELSE x.status,
     days    |-> x.days,
     deleted |-> x.deleted]

(* The row an operation's repository.update (or softDelete) leaves behind. *)
After(q, x) ==
    [status  |-> CASE q.op = "approve"         -> "approved"
                   [] q.op = "reject"          -> "rejected"
                   [] q.op = "cancel_by_user"  -> "cancelled_by_user"
                   [] q.op = "cancel_by_admin" -> "cancelled_by_admin"
                   [] q.op = "update" /\ q.carried # "none" -> q.carried
                   [] OTHER                    -> x.status,
     days    |-> IF q.op = "update" /\ Critical(q) THEN q.days ELSE x.days,
     deleted |-> x.deleted \/ q.op = "remove"]

Write(r) ==
    /\ pc[r] = "writing"
    /\ LET q == call[r] IN
         /\ row' = [row EXCEPT ![q.leave] = After(q, @)]
         /\ cache' = Cleared(q.leave)
         /\ Go(r, IF q.op = "update" /\ Critical(q) THEN "submitting" ELSE "done")
    /\ UNCHANGED <<approval, call, held>>

Fresh == {a \in Approval : approval[a] = Unopened}

(* In the background of create() and update(): the leave is read again,    *)
(* and only a pending one is taken up after an update ...                  *)
Reread(r) ==
    /\ pc[r] = "submitting"
    /\ LET l == call[r].leave IN
         Go(r, IF Live(l) /\ (call[r].op = "update" => row[l].status = "pending")
               THEN "opening" ELSE "done")
    /\ UNCHANGED <<row, cache, approval, call, held>>

(* ... and, whatever it has become since, initializeLeaveApprovalWorkflow  *)
(* opens an approval for it, already pending.                              *)
Submit(r) ==
    /\ pc[r] = "opening"
    /\ Fresh # {}
    /\ approval' = [approval EXCEPT ![CHOOSE a \in Fresh : TRUE] =
                      [leave |-> call[r].leave, status |-> "pending", final |-> FALSE]]
    /\ Go(r, "done")
    /\ UNCHANGED <<row, cache, call, held>>

-----------------------------------------------------------------------------
(* A step of the life cycle of the approval.  performAction announces its  *)
(* decisions; withdraw() announces nothing a leave listens to.             *)
(* Mutant: a rejection is taken for an approval. *)
OutcomeSwapped(op) == IF op = "withdraw" THEN "withdrawn" ELSE "approved"

Outcome(op) == CASE op = "decide_approve" -> "approved"
                 [] op = "decide_reject"  -> "rejected"
                 [] op = "withdraw"       -> "withdrawn"

Decide(r, q) ==
    /\ pc[r] = "idle"
    /\ q.op \in OnApproval
    /\ approval[q.approval].status # "none"
    /\ ~approval[q.approval].final
    /\ \E f \in BOOLEAN :
         approval' = [approval EXCEPT ![q.approval] =
                        [leave |-> @.leave, status |-> Outcome(q.op), final |-> f]]
    /\ call' = [call EXCEPT ![r] = q]
    /\ Go(r, IF q.op = "withdraw" THEN "done" ELSE "told")
    /\ UNCHANGED <<row, cache, held>>

(* handleApprovalAction reads the leave the approval is about, ...         *)
Hear(r) ==
    /\ pc[r] = "told"
    /\ LET l == approval[call[r].approval].leave IN
         IF Live(l)
         THEN /\ held' = [held EXCEPT ![r] = row[l].status]
              /\ Go(r, "hearing")
         ELSE /\ Go(r, "done")
              /\ UNCHANGED held
    /\ UNCHANGED <<row, cache, approval, call>>

(* Mutant: the leave is updated only if it already has the outcome. *)
ApplyUnchanged(r) ==
    /\ pc[r] = "hearing"
    /\ Go(r, "done")
    /\ UNCHANGED <<row, cache, approval, call, held>>

(* ... and updates it, whatever it has become, unless the status it read   *)
(* already was the outcome.                                                *)
Apply(r) ==
    /\ pc[r] = "hearing"
    /\ LET l == approval[call[r].approval].leave
           s == Outcome(call[r].op)
       IN IF s # held[r]
          THEN /\ row' = [row EXCEPT ![l].status = s]
               /\ cache' = Cleared(l)
          ELSE UNCHANGED <<row, cache>>
    /\ Go(r, "done")
    /\ UNCHANGED <<approval, call, held>>

(* A database call fails: a request is answered with an error, a listener  *)
(* logs it and stops, and so does the background of a request that has     *)
(* been answered.                                                          *)
Fail(r) ==
    /\ \/ pc[r] \in {"rejecting", "writing", "told", "hearing"} /\ Go(r, "failed")
       \/ pc[r] \in {"submitting", "opening"} /\ Go(r, "done")
    /\ UNCHANGED <<row, cache, approval, call, held>>

Evict(l) ==
    /\ cache[l] # "none"
    /\ cache' = [cache EXCEPT ![l] = "none"]
    /\ UNCHANGED <<row, approval, pc, call, held>>

Continue(r) ==
    \/ Fill(r)
    \/ Check(r)
    \/ AutoReject(r)
    \/ Revoke(r)
    \/ Reset(r)
    \/ Write(r)
    \/ Reread(r)
    \/ Submit(r)
    \/ Hear(r)
    \/ Apply(r)

Next ==
    \/ \E r \in Request : \E q \in Calls :
          \/ Insert(r, q)
          \/ Hit(r, q)
          \/ Query(r, q)
          \/ NotFound(r, q)
          \/ Decide(r, q)
    \/ \E r \in Request : Continue(r) \/ Fail(r)
    \/ \E l \in Leaves : Evict(l)

(* An awaited call, a setImmediate callback and a listener are run by the  *)
(* event loop once they can be: each request that has begun goes on.       *)
Spec == Init /\ [][Next]_vars /\ \A r \in Request : WF_vars(Continue(r))

-----------------------------------------------------------------------------
TypeOK ==
    /\ row \in [Leaves -> Row \cup {NoRow}]
    /\ cache \in [Leaves -> LeaveStatus \cup {"none"}]
    /\ approval \in [Approval -> [leave: Leaves, status: ApprovalStatus, final: BOOLEAN]
                                   \cup {Unopened}]
    /\ pc \in [Request -> PC]
    /\ call \in [Request -> Calls \cup {NoCall}]
    /\ held \in [Request -> LeaveStatus \cup {"none"}]

AtRest == \A r \in Request : pc[r] \in {"idle", "done", "failed"}

Concerns(r, l) ==
    /\ call[r] # NoCall
    /\ IF call[r].op \in OnLeave THEN call[r].leave = l
       ELSE approval[call[r].approval].leave = l

Wrote(r) == pc[r] \in {"submitting", "opening", "done", "failed"}

(* A leave is approved only by someone's decision: a manager's approval of *)
(* the leave, one of an approval opened for this very leave, or an update  *)
(* that carried the status.                                                *)
ApprovedIsDecided ==
    \A l \in Leaves : row[l].status = "approved" =>
      \E r \in Request :
        /\ Concerns(r, l)
        /\ \/ call[r].op \in {"approve", "decide_approve"} /\ pc[r] = "done"
           \/ call[r].op = "update" /\ call[r].carried = "approved" /\ Wrote(r)

(* A leave that nobody rejected was rejected by create() because another   *)
(* leave of the employee had been booked by someone's decision or update.  *)
RejectedHasCause ==
    \A l \in Leaves : row[l].status = "rejected" =>
      \E r \in Request :
        \/ /\ Concerns(r, l)
           /\ \/ call[r].op \in {"reject", "decide_reject"}
              \/ call[r].op = "update" /\ call[r].carried = "rejected"
        \/ \E k \in Leaves \ {l} :
             /\ Concerns(r, k)
             /\ \/ call[r].op \in {"approve", "decide_approve"}
                \/ call[r].op = "update" /\ call[r].carried \in Booked

(* A decision announced for an approval reaches its leave: unless the      *)
(* listener fails, the leave does not stay pending (or has been deleted).  *)
DecisionReachesLeave ==
    \A r \in Request :
      pc[r] = "told" ~> \/ pc[r] = "failed"
                        \/ \E l \in Leaves :
                             Concerns(r, l) /\ (row[l].status # "pending" \/ row[l].deleted)

(* leave.service.ts:1144 "Handle leave revocation by canceling associated  *)
(* approval workflows": at rest, a cancelled leave has no open approval.   *)
CancelledIsRevoked ==
    AtRest => \A l \in Leaves : row[l].status \in Cancelled =>
                ~ \E a \in Approval : approval[a].leave = l /\ approval[a].status = "pending"
=============================================================================
