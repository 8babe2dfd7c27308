-------------------------- MODULE ClaimsShopProofs --------------------------
(***************************************************************************)
(* Proofs about Claims, for any number of requests and amounts, and about  *)
(* Quotations and EventQueue, for any users, quotations and batch size,    *)
(* however many approvals there are.                                       *)
(***************************************************************************)
EXTENDS Claims, Quotations, EventQueue, SequenceTheorems, TLAPS

(* What a request has read and asks for, at each of its steps.             *)
RequestOK(r) ==
    /\ claimPc[r] = "idle" => claimCall[r] = NoRequest
    /\ claimPc[r] # "idle" => claimCall[r] \in ClaimCalls
    /\ claimPc[r] = "opening" => claim # NoRow /\ claimHeld[r] \in Amounts
    /\ claimPc[r] = "writing" =>
         claim # NoRow /\ claimCall[r].op \in {"update", "remove", "restore"}
    /\ claimPc[r] \in {"rereading", "finding", "amending"} => claim # NoRow
    /\ claimPc[r] \in {"finding", "amending"} => claimHeld[r] \in Amounts
    /\ claimPc[r] = "amending" => approvalRow # NoRow
    /\ claimPc[r] \in {"deciding", "recording", "told", "hearing"} =>
         approvalRow # NoRow /\ claimCall[r].op \in OnApproval \ {"view"}
    /\ claimPc[r] = "deciding" => claimHeld[r] \in ApprovalCopy

ClaimsInv ==
    /\ ClaimsTypeOK
    /\ approvalRow # NoRow => claim # NoRow
    /\ \A r \in ClaimRequest : RequestOK(r)
    /\ ClaimApprovedByDecision

-----------------------------------------------------------------------------
LEMMA CallIs ==
    ASSUME NEW q \in ClaimCalls
    PROVE  /\ q # NoRequest
           /\ q.op = "create" => q.amount \in Amounts
           /\ q.op = "update" => /\ q.amount \in Amounts \cup {NoAmount}
                                 /\ q.status \in ClaimCarried \cup {"none"}
BY ClaimsAssumption DEF ClaimCalls, OnApproval

LEMMA RowIs ==
    /\ NoRow \notin ClaimRow /\ NoRow \notin ApprovalCopy /\ NoRequest \notin ClaimCalls
    /\ ClaimCarried \subseteq ClaimStatus
BY ClaimsAssumption

(* What claim's row becomes by an update, a removal or a restoration. *)
LEMMA WrittenIs ==
    ASSUME claim \in ClaimRow, NEW q \in ClaimCalls
    PROVE  /\ Written(q) \in ClaimRow
           /\ Written(q).status = "approved"
                => \/ claim.status = "approved"
                   \/ q.op = "update" /\ q.status = "approved"
<1>1. CASE q.op = "update"
  <2> DEFINE s == IF q.status = "none" THEN claim.status ELSE q.status
             a == IF q.amount = NoAmount THEN claim.amount ELSE q.amount
             e == [[claim EXCEPT !.status = s] EXCEPT !.amount = a]
  <2>1. s \in ClaimStatus /\ a \in Amounts BY <1>1, CallIs, RowIs DEF ClaimRow
  <2>2. Written(q) = e BY <1>1 DEF Written, ClaimRow
  <2>3. s = "approved" => claim.status = "approved" \/ q.status = "approved" OBVIOUS
  <2> HIDE DEF s, a
  <2>4. e \in ClaimRow /\ e.status = s BY <2>1 DEF ClaimRow
  <2> QED BY <1>1, <2>2, <2>3, <2>4
<1>2. CASE q.op # "update"
  <2>1. Written(q) = [claim EXCEPT !.deleted = (q.op = "remove")] BY <1>2 DEF Written
  <2>2. (q.op = "remove") \in BOOLEAN OBVIOUS
  <2> QED BY <2>1, <2>2 DEF ClaimRow
<1> QED BY <1>1, <1>2

LEMMA DecidedIs ==
    ASSUME NEW op \in OnApproval \ {"view"}, NEW s \in ApprovalState
    PROVE  /\ Decided(op, s) \in ApprovalState
           /\ op = "delegate" => Decided(op, s) = s
           /\ op \in {"approve", "reject", "request_info"} => Decided(op, s) # "pending"
BY DEF OnApproval, ApprovalState, Decided

(* Request r goes from one step to another, what it asks for known. *)
LEMMA Continues ==
    ASSUME ClaimsInv, NEW r \in ClaimRequest, NEW p \in ClaimPC \ {"idle", "writing", "deciding"},
           claimPc[r] # "idle", claimPc' = [claimPc EXCEPT ![r] = p],
           p = "recording" => claimPc[r] = "deciding",
           UNCHANGED claimCall,
           claimHeld' \in [ClaimRequest -> Amounts \cup ApprovalCopy \cup {NoneHeld}],
           \A s \in ClaimRequest \ {r} : claimHeld'[s] = claimHeld[s],
           claim' \in ClaimRow \cup {NoRow}, claim # NoRow => claim' # NoRow,
           approvalRow' \in ApprovalCopy \cup {NoRow}, approvalRow # NoRow => approvalRow' # NoRow,
           approvalRow' # NoRow => claim' # NoRow,
           approverCopy' \in ApprovalCopy \cup {NoneHeld},
           disturbed' \in BOOLEAN,
           p \in {"opening", "rereading", "finding", "amending"} => claim' # NoRow,
           p \in {"opening", "finding", "amending"} => claimHeld'[r] \in Amounts,
           p \in {"amending", "recording", "told", "hearing"} => approvalRow' # NoRow,
           p \in {"recording", "told", "hearing"}
             => claimCall[r].op \in OnApproval \ {"view"},
           (claim' # NoRow /\ claim'.status = "approved")
             => \/ claim # NoRow /\ claim.status = "approved"
                \/ /\ p \notin {"deciding", "recording", "writing"}
                   /\ \/ claimCall[r].op = "approve"
                      \/ claimCall[r].op = "update" /\ claimCall[r].status = "approved"
    PROVE  ClaimsInv'
<1>1. /\ claimPc' \in [ClaimRequest -> ClaimPC] /\ claimPc'[r] = p
      /\ \A s \in ClaimRequest \ {r} : claimPc'[s] = claimPc[s]
  BY DEF ClaimsInv, ClaimsTypeOK
<1>2. ClaimsTypeOK' BY <1>1 DEF ClaimsInv, ClaimsTypeOK
<1>3. RequestOK(r)' BY <1>1 DEF ClaimsInv, RequestOK
<1>4. ASSUME NEW s \in ClaimRequest, s # r PROVE RequestOK(s)'
  <2>1. RequestOK(s) BY DEF ClaimsInv
  <2>2. claimPc'[s] = claimPc[s] /\ claimHeld'[s] = claimHeld[s] /\ claimCall'[s] = claimCall[s]
    BY <1>1, <1>4
  <2> QED BY <2>1, <2>2 DEF RequestOK
<1>5. \A s \in ClaimRequest : RequestOK(s)' BY <1>3, <1>4
<1>6. ClaimApprovedByDecision'
  <2>1. SUFFICES ASSUME claim' # NoRow, claim'.status = "approved"
                 PROVE  ClaimApprovedByDecision'
    BY DEF ClaimApprovedByDecision
  <2>2. claimCall[r] \in ClaimCalls /\ claimCall[r] # NoRequest
    BY CallIs DEF ClaimsInv, RequestOK
  <2>3. CASE claim # NoRow /\ claim.status = "approved"
    <3>1. PICK s \in ClaimRequest :
            /\ claimCall[s] # NoRequest
            /\ claimPc[s] \notin {"deciding", "recording", "writing"}
            /\ \/ claimCall[s].op = "approve"
               \/ claimCall[s].op = "update" /\ claimCall[s].status = "approved"
      BY <2>3 DEF ClaimsInv, ClaimApprovedByDecision
    <3>2. claimPc'[s] \notin {"deciding", "recording", "writing"} BY <1>1, <3>1
    <3> QED BY <3>1, <3>2 DEF ClaimApprovedByDecision
  <2>4. CASE ~(claim # NoRow /\ claim.status = "approved")
    BY <1>1, <2>1, <2>2, <2>4 DEF ClaimApprovedByDecision
  <2> QED BY <2>3, <2>4
<1> QED BY <1>2, <1>5, <1>6 DEF ClaimsInv

(* Request r begins. *)
LEMMA Begins ==
    ASSUME ClaimsInv, NEW r \in ClaimRequest, NEW q \in ClaimCalls,
           NEW p \in {"opening", "writing", "deciding", "done"}, Start(r, q, p),
           claimHeld' \in [ClaimRequest -> Amounts \cup ApprovalCopy \cup {NoneHeld}],
           \A s \in ClaimRequest \ {r} : claimHeld'[s] = claimHeld[s],
           claim' \in ClaimRow \cup {NoRow}, claim # NoRow => claim' # NoRow,
           UNCHANGED approvalRow,
           approverCopy' \in ApprovalCopy \cup {NoneHeld},
           p = "opening" => claim' # NoRow /\ claimHeld'[r] \in Amounts,
           p = "writing" => claim' # NoRow /\ q.op \in {"update", "remove", "restore"},
           p = "deciding" => /\ approvalRow # NoRow /\ q.op \in OnApproval \ {"view"}
                             /\ claimHeld'[r] \in ApprovalCopy,
           claim' # NoRow /\ claim'.status = "approved"
             => claim # NoRow /\ claim.status = "approved"
    PROVE  ClaimsInv'
<1>1. /\ claimPc[r] = "idle" /\ claimCall[r] = NoRequest
      /\ claimPc' = [claimPc EXCEPT ![r] = p] /\ claimCall' = [claimCall EXCEPT ![r] = q]
      /\ disturbed' = (disturbed \/ ClaimInProgress # {})
      /\ claimPc \in [ClaimRequest -> ClaimPC]
      /\ claimCall \in [ClaimRequest -> ClaimCalls \cup {NoRequest}]
  BY DEF Start, Reach, ClaimsInv, ClaimsTypeOK, RequestOK
<1>2. /\ claimPc'[r] = p /\ claimCall'[r] = q
      /\ \A s \in ClaimRequest \ {r} :
           claimPc'[s] = claimPc[s] /\ claimCall'[s] = claimCall[s]
  BY <1>1
<1>3. /\ claimPc' \in [ClaimRequest -> ClaimPC]
      /\ claimCall' \in [ClaimRequest -> ClaimCalls \cup {NoRequest}]
  BY <1>1 DEF ClaimPC
<1>4. disturbed' \in BOOLEAN BY <1>1
<1>5. ClaimsTypeOK' BY <1>3, <1>4 DEF ClaimsInv, ClaimsTypeOK
<1>6. RequestOK(r)' BY <1>2 DEF RequestOK
<1>7. ASSUME NEW s \in ClaimRequest, s # r PROVE RequestOK(s)'
  <2>1. RequestOK(s) BY DEF ClaimsInv
  <2>2. claimPc'[s] = claimPc[s] /\ claimHeld'[s] = claimHeld[s] /\ claimCall'[s] = claimCall[s]
    BY <1>2, <1>7
  <2> QED BY <2>1, <2>2 DEF RequestOK
<1>8. \A s \in ClaimRequest : RequestOK(s)' BY <1>6, <1>7
<1>9. ClaimApprovedByDecision'
  <2>1. SUFFICES ASSUME claim' # NoRow, claim'.status = "approved"
                 PROVE  ClaimApprovedByDecision'
    BY DEF ClaimApprovedByDecision
  <2>2. PICK s \in ClaimRequest :
          /\ claimCall[s] # NoRequest
          /\ claimPc[s] \notin {"deciding", "recording", "writing"}
          /\ \/ claimCall[s].op = "approve"
             \/ claimCall[s].op = "update" /\ claimCall[s].status = "approved"
    BY <2>1 DEF ClaimsInv, ClaimApprovedByDecision
  <2>3. s # r BY <1>1, <2>2
  <2> QED BY <1>2, <2>2, <2>3 DEF ClaimApprovedByDecision
<1> QED BY <1>5, <1>8, <1>9 DEF ClaimsInv

LEMMA ClaimsInitInv == ClaimsInit => ClaimsInv
<1> SUFFICES ASSUME ClaimsInit PROVE ClaimsInv OBVIOUS
<1>1. /\ claim = NoRow /\ approvalRow = NoRow /\ approverCopy = NoneHeld
      /\ claimPc = [r \in ClaimRequest |-> "idle"]
      /\ claimCall = [r \in ClaimRequest |-> NoRequest]
      /\ claimHeld = [r \in ClaimRequest |-> NoneHeld] /\ disturbed = FALSE
  BY DEF ClaimsInit
<1>2. "idle" \in ClaimPC BY DEF ClaimPC
<1>3. disturbed \in BOOLEAN BY <1>1
<1>4. ClaimsTypeOK BY <1>1, <1>2, <1>3 DEF ClaimsTypeOK
<1>5. \A r \in ClaimRequest : RequestOK(r) BY <1>1 DEF RequestOK
<1> QED BY <1>1, <1>4, <1>5 DEF ClaimsInv, ClaimApprovedByDecision

LEMMA BeginKeeps ==
    ASSUME ClaimsInv, NEW r \in ClaimRequest, NEW q \in ClaimCalls,
           CreateClaim(r, q) \/ FindClaim(r, q) \/ LoadApproval(r, q)
    PROVE  ClaimsInv'
<1>1. /\ claimHeld \in [ClaimRequest -> Amounts \cup ApprovalCopy \cup {NoneHeld}]
      /\ claim \in ClaimRow \cup {NoRow} /\ approvalRow \in ApprovalCopy \cup {NoRow}
      /\ approverCopy \in ApprovalCopy \cup {NoneHeld}
  BY DEF ClaimsInv, ClaimsTypeOK
<1>2. CASE CreateClaim(r, q)
  <2>1. /\ q.op = "create" /\ claim = NoRow
        /\ claim' = [status |-> "pending", amount |-> q.amount, deleted |-> FALSE]
        /\ claimHeld' = [claimHeld EXCEPT ![r] = q.amount] /\ Start(r, q, "opening")
        /\ UNCHANGED <<approvalRow, approverCopy>>
    BY <1>2 DEF CreateClaim, Hold
  <2>2. q.amount \in Amounts BY <2>1, CallIs
  <2>3. claim' \in ClaimRow /\ claim'.status = "pending" BY <2>1, <2>2 DEF ClaimRow, ClaimStatus
  <2>4. claim' # NoRow BY <2>3, RowIs
  <2>5. /\ claimHeld' \in [ClaimRequest -> Amounts \cup ApprovalCopy \cup {NoneHeld}]
        /\ claimHeld'[r] = q.amount
        /\ \A s \in ClaimRequest \ {r} : claimHeld'[s] = claimHeld[s]
    BY <1>1, <2>1, <2>2
  <2> QED BY <1>1, <2>1, <2>2, <2>3, <2>4, <2>5, Begins
<1>3. CASE FindClaim(r, q)
  <2>1. /\ q.op \in {"update", "remove", "restore"} /\ claim # NoRow
        /\ Start(r, q, IF Found(q.op) THEN "writing" ELSE "done")
        /\ UNCHANGED <<claim, approvalRow, approverCopy, claimHeld>>
    BY <1>3 DEF FindClaim
  <2>2. CASE Found(q.op)
    <3>1. Start(r, q, "writing") BY <2>1, <2>2
    <3> QED BY <1>1, <2>1, <3>1, Begins
  <2>3. CASE ~Found(q.op)
    <3>1. Start(r, q, "done") BY <2>1, <2>3
    <3> QED BY <1>1, <2>1, <3>1, Begins
  <2> QED BY <2>2, <2>3
<1>4. CASE LoadApproval(r, q)
  <2> DEFINE copy == IF approverCopy # NoneHeld THEN approverCopy ELSE approvalRow
             permitted == q.op # "view" /\ copy.status = "pending"
             marked == [copy EXCEPT !.status = Decided(q.op, copy.status)]
  <2>1. /\ q.op \in OnApproval /\ approvalRow # NoRow
        /\ claimHeld' = [claimHeld EXCEPT ![r] = copy]
        /\ approverCopy' = IF permitted /\ approverCopy # NoneHeld THEN marked ELSE copy
        /\ Start(r, q, IF permitted THEN "deciding" ELSE "done")
        /\ UNCHANGED <<claim, approvalRow>>
    BY <1>4 DEF LoadApproval, Hold
  <2>2. copy \in ApprovalCopy BY <1>1, <2>1
  <2>3. permitted => marked \in ApprovalCopy
    BY <2>1, <2>2, DecidedIs DEF ApprovalCopy
  <2> HIDE DEF copy, marked
  <2>4. approverCopy' \in ApprovalCopy BY <2>1, <2>2, <2>3
  <2>5. /\ claimHeld' \in [ClaimRequest -> Amounts \cup ApprovalCopy \cup {NoneHeld}]
        /\ claimHeld'[r] = copy
        /\ \A s \in ClaimRequest \ {r} : claimHeld'[s] = claimHeld[s]
    BY <1>1, <2>1, <2>2
  <2>6. CASE permitted
    <3>1. Start(r, q, "deciding") /\ q.op \in OnApproval \ {"view"} BY <2>1, <2>6
    <3> QED BY <1>1, <2>1, <2>2, <2>4, <2>5, <3>1, Begins
  <2>7. CASE ~permitted
    <3>1. Start(r, q, "done") BY <2>1, <2>7
    <3> QED BY <1>1, <2>1, <2>2, <2>4, <2>5, <3>1, Begins
  <2> QED BY <2>6, <2>7
<1> QED BY <1>2, <1>3, <1>4

LEMMA ContinueKeeps ==
    ASSUME ClaimsInv, NEW r \in ClaimRequest, ContinueClaim(r) \/ FailClaim(r)
    PROVE  ClaimsInv'
<1>1. /\ claimHeld \in [ClaimRequest -> Amounts \cup ApprovalCopy \cup {NoneHeld}]
      /\ claim \in ClaimRow \cup {NoRow} /\ approvalRow \in ApprovalCopy \cup {NoRow}
      /\ approverCopy \in ApprovalCopy \cup {NoneHeld} /\ disturbed \in BOOLEAN
      /\ approvalRow # NoRow => claim # NoRow
      /\ RequestOK(r)
  BY DEF ClaimsInv, ClaimsTypeOK
<1>2. {"failed", "done", "amending", "recording", "told", "hearing", "rereading", "finding"}
        \subseteq ClaimPC \ {"idle", "writing", "deciding"}
  BY DEF ClaimPC
<1>3. CASE OpenApproval(r)
  <2>1. /\ claimPc[r] = "opening" /\ claimPc' = [claimPc EXCEPT ![r] = "done"]
        /\ approvalRow' = [status |-> "pending", amount |-> claimHeld[r], entries |-> 0]
        /\ UNCHANGED <<claim, approverCopy, claimCall, claimHeld, disturbed>>
    BY <1>3 DEF OpenApproval, Reach
  <2>2. claim # NoRow /\ claimHeld[r] \in Amounts BY <1>1, <2>1 DEF RequestOK
  <2>3. approvalRow' \in ApprovalCopy BY <2>1, <2>2 DEF ApprovalCopy, ApprovalState
  <2>4. approvalRow' # NoRow BY <2>3, RowIs
  <2> QED BY <1>1, <1>2, <2>1, <2>2, <2>3, <2>4, Continues
<1>4. CASE WriteClaim(r)
  <2> DEFINE p == IF claimCall[r].op = "update" THEN "rereading" ELSE "done"
  <2>1. /\ claimPc[r] = "writing" /\ claimPc' = [claimPc EXCEPT ![r] = p]
        /\ claim' = Written(claimCall[r])
        /\ UNCHANGED <<approvalRow, approverCopy, claimCall, claimHeld, disturbed>>
    BY <1>4 DEF WriteClaim, Reach
  <2>2. claim \in ClaimRow /\ claimCall[r] \in ClaimCalls
    BY <1>1, <2>1 DEF RequestOK
  <2>3. claim' \in ClaimRow /\ claim' # NoRow BY <2>1, <2>2, WrittenIs, RowIs
  <2>4. claim'.status = "approved"
          => \/ claim # NoRow /\ claim.status = "approved"
             \/ claimCall[r].op = "update" /\ claimCall[r].status = "approved"
    BY <2>1, <2>2, WrittenIs, RowIs
  <2>5. p \in {"rereading", "done"} OBVIOUS
  <2> HIDE DEF p
  <2> QED BY <1>1, <1>2, <2>1, <2>3, <2>4, <2>5, Continues
<1>5. CASE Reread(r)
  <2>1. /\ claimPc[r] = "rereading" /\ claimPc' = [claimPc EXCEPT ![r] = "finding"]
        /\ claimHeld' = [claimHeld EXCEPT ![r] = claim.amount]
        /\ UNCHANGED <<claim, approvalRow, approverCopy, claimCall, disturbed>>
    BY <1>5 DEF Reread, Reach, Hold
  <2>2. claim # NoRow /\ claim.amount \in Amounts BY <1>1, <2>1 DEF RequestOK, ClaimRow
  <2>3. /\ claimHeld' \in [ClaimRequest -> Amounts \cup ApprovalCopy \cup {NoneHeld}]
        /\ claimHeld'[r] \in Amounts
        /\ \A s \in ClaimRequest \ {r} : claimHeld'[s] = claimHeld[s]
    BY <1>1, <2>1, <2>2
  <2> QED BY <1>1, <1>2, <2>1, <2>2, <2>3, Continues
<1>6. CASE FindApproval(r)
  <2>1. /\ claimPc[r] = "finding"
        /\ claimPc' = [claimPc EXCEPT
             ![r] = IF approvalRow # NoRow /\ Amendable(approvalRow.status)
                    THEN "amending" ELSE "done"]
        /\ UNCHANGED <<claim, approvalRow, approverCopy, claimCall, claimHeld, disturbed>>
    BY <1>6 DEF FindApproval, Reach
  <2>2. claim # NoRow /\ claimHeld[r] \in Amounts BY <1>1, <2>1 DEF RequestOK
  <2>3. CASE approvalRow # NoRow /\ Amendable(approvalRow.status)
    <3>1. claimPc' = [claimPc EXCEPT ![r] = "amending"] BY <2>1, <2>3
    <3> QED BY <1>1, <1>2, <2>1, <2>2, <2>3, <3>1, Continues
  <2>4. CASE ~(approvalRow # NoRow /\ Amendable(approvalRow.status))
    <3>1. claimPc' = [claimPc EXCEPT ![r] = "done"] BY <2>1, <2>4
    <3> QED BY <1>1, <1>2, <2>1, <2>2, <3>1, Continues
  <2> QED BY <2>3, <2>4
<1>7. CASE Amend(r)
  <2>1. /\ claimPc[r] = "amending" /\ claimPc' = [claimPc EXCEPT ![r] = "done"]
        /\ approvalRow' = [approvalRow EXCEPT !.amount = claimHeld[r]]
        /\ UNCHANGED <<claim, approverCopy, claimCall, claimHeld, disturbed>>
    BY <1>7 DEF Amend, Reach
  <2>2. approvalRow # NoRow /\ claimHeld[r] \in Amounts BY <1>1, <2>1 DEF RequestOK
  <2>3. approvalRow' \in ApprovalCopy BY <1>1, <2>1, <2>2 DEF ApprovalCopy
  <2>4. approvalRow' # NoRow BY <2>3, RowIs
  <2> QED BY <1>1, <1>2, <2>1, <2>2, <2>3, <2>4, Continues
<1>8. CASE SaveDecision(r)
  <2>1. /\ claimPc[r] = "deciding"
        /\ UNCHANGED <<claim, approverCopy, claimCall, claimHeld>>
    BY <1>8 DEF SaveDecision
  <2>2. /\ approvalRow \in ApprovalCopy /\ claimHeld[r] \in ApprovalCopy
        /\ claimCall[r].op \in OnApproval \ {"view"}
    BY <1>1, <2>1 DEF RequestOK
  <2>3. CASE claimHeld[r].entries = approvalRow.entries
    <3> DEFINE s == Decided(claimCall[r].op, claimHeld[r].status)
    <3>1. /\ approvalRow' = [claimHeld[r] EXCEPT !.status = s]
          /\ claimPc' = [claimPc EXCEPT ![r] = "recording"] /\ disturbed' = disturbed
      BY <1>8, <2>3 DEF SaveDecision, Reach
    <3>2. s \in ApprovalState BY <2>2, DecidedIs DEF ApprovalCopy
    <3> HIDE DEF s
    <3>3. approvalRow' \in ApprovalCopy BY <2>2, <3>1, <3>2 DEF ApprovalCopy
    <3>4. approvalRow' # NoRow /\ approvalRow # NoRow BY <2>2, <3>3, RowIs
    <3> QED BY <1>1, <1>2, <2>1, <2>2, <3>1, <3>3, <3>4, Continues
  <2>4. CASE claimHeld[r].entries # approvalRow.entries
    <3>1. /\ claimPc' = [claimPc EXCEPT ![r] = "failed"] /\ disturbed' = TRUE
          /\ UNCHANGED approvalRow
      BY <1>8, <2>4 DEF SaveDecision, Reach
    <3> QED BY <1>1, <1>2, <2>1, <2>2, <3>1, Continues
  <2> QED BY <2>3, <2>4
<1>9. CASE RecordDecision(r)
  <2>1. /\ claimPc[r] = "recording" /\ claimPc' = [claimPc EXCEPT ![r] = "told"]
        /\ approvalRow' = [approvalRow EXCEPT !.entries = @ + 1]
        /\ UNCHANGED <<claim, approverCopy, claimCall, claimHeld, disturbed>>
    BY <1>9 DEF RecordDecision, Reach
  <2>2. approvalRow # NoRow /\ claimCall[r].op \in OnApproval \ {"view"}
    BY <1>1, <2>1 DEF RequestOK
  <2>3. approvalRow' \in ApprovalCopy BY <1>1, <2>1, <2>2 DEF ApprovalCopy
  <2>4. approvalRow' # NoRow BY <2>3, RowIs
  <2> QED BY <1>1, <1>2, <2>1, <2>2, <2>3, <2>4, Continues
<1>10. CASE Hear(r)
  <2>1. /\ claimPc[r] = "told"
        /\ claimPc' = [claimPc EXCEPT
             ![r] = IF claimCall[r].op = "delegate" THEN "done" ELSE "hearing"]
        /\ UNCHANGED <<claim, approvalRow, approverCopy, claimCall, claimHeld, disturbed>>
    BY <1>10 DEF Hear, Reach
  <2>2. approvalRow # NoRow /\ claimCall[r].op \in OnApproval \ {"view"}
    BY <1>1, <2>1 DEF RequestOK
  <2>3. CASE claimCall[r].op = "delegate"
    <3>1. claimPc' = [claimPc EXCEPT ![r] = "done"] BY <2>1, <2>3
    <3> QED BY <1>1, <1>2, <2>1, <2>2, <3>1, Continues
  <2>4. CASE claimCall[r].op # "delegate"
    <3>1. claimPc' = [claimPc EXCEPT ![r] = "hearing"] BY <2>1, <2>4
    <3> QED BY <1>1, <1>2, <2>1, <2>2, <3>1, Continues
  <2> QED BY <2>3, <2>4
<1>11. CASE ApplyOutcome(r)
  <2> DEFINE s == ClaimOutcome(claimCall[r].op, claim.status)
  <2>1. /\ claimPc[r] = "hearing" /\ claimPc' = [claimPc EXCEPT ![r] = "done"]
        /\ claim' = [claim EXCEPT !.status = s]
        /\ UNCHANGED <<approvalRow, approverCopy, claimCall, claimHeld, disturbed>>
    BY <1>11 DEF ApplyOutcome, Reach
  <2>2. claim \in ClaimRow /\ claim # NoRow BY <1>1, <2>1 DEF RequestOK
  <2>3. /\ s \in ClaimStatus
        /\ s = "approved" => claim.status = "approved" \/ claimCall[r].op = "approve"
    <3>1. claim.status \in ClaimStatus BY <2>2 DEF ClaimRow
    <3> QED BY <3>1 DEF ClaimOutcome, ClaimStatus
  <2> HIDE DEF s
  <2>4. claim' \in ClaimRow /\ claim'.status = s BY <2>1, <2>2, <2>3 DEF ClaimRow
  <2>5. claim' # NoRow BY <2>4, RowIs
  <2> QED BY <1>1, <1>2, <2>1, <2>2, <2>3, <2>4, <2>5, Continues
<1>12. CASE FailClaim(r)
  <2>1. /\ claimPc[r] # "idle" /\ claimPc' = [claimPc EXCEPT ![r] = "failed"]
        /\ disturbed' = TRUE
        /\ UNCHANGED <<claim, approvalRow, approverCopy, claimCall, claimHeld>>
    BY <1>12 DEF FailClaim, Reach
  <2> QED BY <1>1, <1>2, <2>1, Continues
<1> QED BY <1>3, <1>4, <1>5, <1>6, <1>7, <1>8, <1>9, <1>10, <1>11, <1>12
    DEF ContinueClaim

LEMMA ClaimsStepInv == ClaimsInv /\ [ClaimsNext]_claimVars => ClaimsInv'
<1> SUFFICES ASSUME ClaimsInv, [ClaimsNext]_claimVars PROVE ClaimsInv' OBVIOUS
<1>1. CASE \E r \in ClaimRequest : \E q \in ClaimCalls :
             CreateClaim(r, q) \/ FindClaim(r, q) \/ LoadApproval(r, q)
  BY <1>1, BeginKeeps
<1>2. CASE \E r \in ClaimRequest : ContinueClaim(r) \/ FailClaim(r)
  BY <1>2, ContinueKeeps
<1>3. CASE EvictCopy \/ UNCHANGED claimVars
  <2>1. /\ UNCHANGED <<claim, approvalRow, claimPc, claimCall, claimHeld, disturbed>>
        /\ approverCopy' \in {approverCopy, NoneHeld}
    BY <1>3 DEF EvictCopy, claimVars
  <2>2. ClaimsTypeOK' BY <2>1 DEF ClaimsInv, ClaimsTypeOK
  <2>3. \A r \in ClaimRequest : RequestOK(r)' BY <2>1 DEF ClaimsInv, RequestOK
  <2>4. ClaimApprovedByDecision' BY <2>1 DEF ClaimsInv, ClaimApprovedByDecision
  <2> QED BY <2>1, <2>2, <2>3, <2>4 DEF ClaimsInv
<1> QED BY <1>1, <1>2, <1>3 DEF ClaimsNext

(* What requests hold at each step, and why a claim is approved.           *)
THEOREM ClaimsInductive == ClaimsSpec => []ClaimsInv
BY ClaimsInitInv, ClaimsStepInv, PTL DEF ClaimsSpec

(* Every variable of the claims has its type.                              *)
THEOREM ClaimsTyping == ClaimsSpec => []ClaimsTypeOK
<1>1. ClaimsInv => ClaimsTypeOK BY DEF ClaimsInv
<1> QED BY <1>1, ClaimsInductive, PTL

(* No handler but a decision, or an update that says so, approves a claim. *)
THEOREM ApprovedOnlyByDecision == ClaimsSpec => []ClaimApprovedByDecision
<1>1. ClaimsInv => ClaimApprovedByDecision BY DEF ClaimsInv
<1> QED BY <1>1, ClaimsInductive, PTL
-----------------------------------------------------------------------------
(***************************************************************************)
(* What was decided is kept.  As long as requests do not overlap, and none *)
(* fails, the approver's copy is behind the row by an entry, or has its    *)
(* decision, once the row is decided; so that no copy is saved over it.    *)
(***************************************************************************)
IsDecided == approvalRow # NoRow /\ approvalRow.status \in {"approved", "rejected"}

Careful(r) ==
    /\ claimPc[r] = "opening" => approvalRow = NoRow
    /\ claimPc[r] = "amending" => ~IsDecided
    /\ claimPc[r] = "deciding" /\ claimHeld[r].entries = approvalRow.entries => ~IsDecided

CopyBehind ==
    approverCopy # NoneHeld =>
      /\ approvalRow # NoRow
      /\ approverCopy.entries <= approvalRow.entries
      /\ (approverCopy.status = "pending" /\ IsDecided)
           => \/ approverCopy.entries < approvalRow.entries
              \/ \E r \in ClaimRequest : claimPc[r] = "recording"

KeptInv ==
    ~disturbed => /\ \A r, s \in ClaimInProgress : r = s
                  /\ \A r \in ClaimRequest : Careful(r)
                  /\ CopyBehind

DecisionStays ==
    IsDecided /\ ~disturbed => /\ approvalRow'.status = approvalRow.status
                               /\ approvalRow'.amount = approvalRow.amount

(* A step of the one request that is in progress. *)
LEMMA KeptMoves ==
    ASSUME NEW r \in ClaimRequest, ~disturbed', NEW p,
           \A s \in ClaimInProgress : s = r,
           claimPc \in [ClaimRequest -> ClaimPC], claimPc' = [claimPc EXCEPT ![r] = p],
           Careful(r)', CopyBehind'
    PROVE  KeptInv'
<1>1. claimPc'[r] = p /\ \A s \in ClaimRequest \ {r} : claimPc'[s] = claimPc[s]
  OBVIOUS
<1>2. \A s \in ClaimRequest \ {r} : claimPc'[s] \in {"idle", "failed", "done"}
  BY <1>1 DEF ClaimInProgress
<1>3. \A s, t \in ClaimInProgress' : s = t BY <1>2 DEF ClaimInProgress
<1>4. \A s \in ClaimRequest \ {r} : Careful(s)' BY <1>2 DEF Careful
<1>5. \A s \in ClaimRequest : Careful(s)' BY <1>4
<1> QED BY <1>3, <1>5 DEF KeptInv

LEMMA KeptBegin ==
    ASSUME ClaimsInv, KeptInv, NEW r \in ClaimRequest, NEW q \in ClaimCalls,
           CreateClaim(r, q) \/ FindClaim(r, q) \/ LoadApproval(r, q)
    PROVE  KeptInv' /\ DecisionStays
<1>1. UNCHANGED approvalRow BY DEF CreateClaim, FindClaim, LoadApproval
<1>2. DecisionStays BY <1>1 DEF DecisionStays
<1>3. SUFFICES ASSUME ~disturbed' PROVE KeptInv' BY <1>2 DEF KeptInv
<1>4. /\ claimPc \in [ClaimRequest -> ClaimPC]
      /\ claimHeld \in [ClaimRequest -> Amounts \cup ApprovalCopy \cup {NoneHeld}]
      /\ approvalRow \in ApprovalCopy \cup {NoRow}
      /\ approverCopy \in ApprovalCopy \cup {NoneHeld}
      /\ approvalRow # NoRow => claim # NoRow
  BY DEF ClaimsInv, ClaimsTypeOK
<1>5. /\ disturbed' = (disturbed \/ ClaimInProgress # {}) /\ claimPc[r] = "idle"
  BY DEF CreateClaim, FindClaim, LoadApproval, Start
<1>6. ~disturbed /\ ClaimInProgress = {} BY <1>3, <1>5
<1>7. CopyBehind /\ \A s \in ClaimRequest : claimPc[s] # "recording"
  BY <1>6 DEF KeptInv, ClaimInProgress
<1>8. CASE CreateClaim(r, q)
  <2>1. /\ claimPc' = [claimPc EXCEPT ![r] = "opening"] /\ claim = NoRow
        /\ UNCHANGED <<approvalRow, approverCopy>>
    BY <1>8 DEF CreateClaim, Start, Reach
  <2>2. Careful(r)' BY <1>4, <2>1 DEF Careful
  <2>3. CopyBehind' BY <1>4, <2>1, <1>7 DEF CopyBehind
  <2> QED BY <1>3, <1>4, <1>6, <2>1, <2>2, <2>3, KeptMoves
<1>9. CASE FindClaim(r, q)
  <2> DEFINE p == IF Found(q.op) THEN "writing" ELSE "done"
  <2>1. /\ claimPc' = [claimPc EXCEPT ![r] = p] /\ UNCHANGED <<approvalRow, approverCopy>>
    BY <1>9 DEF FindClaim, Start, Reach
  <2>2. p \in {"writing", "done"} OBVIOUS
  <2> HIDE DEF p
  <2>3. Careful(r)' BY <1>4, <2>1, <2>2 DEF Careful
  <2>4. CopyBehind' BY <1>7, <2>1 DEF CopyBehind, IsDecided
  <2> QED BY <1>3, <1>4, <1>6, <2>1, <2>3, <2>4, KeptMoves
<1>10. CASE LoadApproval(r, q)
  <2> DEFINE copy == IF approverCopy # NoneHeld THEN approverCopy ELSE approvalRow
             permitted == q.op # "view" /\ copy.status = "pending"
             marked == [copy EXCEPT !.status = Decided(q.op, copy.status)]
             p == IF permitted THEN "deciding" ELSE "done"
  <2>1. /\ approvalRow # NoRow /\ q.op \in OnApproval
        /\ claimHeld' = [claimHeld EXCEPT ![r] = copy]
        /\ approverCopy' = IF permitted /\ approverCopy # NoneHeld THEN marked ELSE copy
        /\ claimPc' = [claimPc EXCEPT ![r] = p]
    BY <1>10 DEF LoadApproval, Hold, Start, Reach
  <2>2. copy \in ApprovalCopy /\ approvalRow \in ApprovalCopy BY <1>4, <2>1
  <2>3. /\ copy.entries \in Nat /\ approvalRow.entries \in Nat
        /\ copy.entries <= approvalRow.entries
        /\ copy.status = "pending" /\ IsDecided => copy.entries < approvalRow.entries
    <3>1. CASE approverCopy # NoneHeld
      BY <1>7, <2>2, <3>1 DEF CopyBehind, ApprovalCopy
    <3>2. CASE approverCopy = NoneHeld
      BY <2>2, <3>2 DEF IsDecided, ApprovalCopy
    <3> QED BY <3>1, <3>2
  <2>4. /\ marked.entries = copy.entries
        /\ permitted /\ marked.status = "pending" => copy.status = "pending"
    BY <2>2 DEF ApprovalCopy
  <2>5. claimHeld'[r] = copy /\ claimPc'[r] = p BY <1>4, <2>1
  <2> HIDE DEF copy, marked
  <2>6. /\ approverCopy'.entries = copy.entries
        /\ approverCopy'.status = "pending" => copy.status = "pending"
    BY <2>1, <2>4
  <2>7. IsDecided' = IsDecided BY <1>1 DEF IsDecided
  <2>8. Careful(r)'
    <3>1. claimPc'[r] \in {"deciding", "done"} BY <2>5
    <3>2. claimPc'[r] = "deciding" => copy.status = "pending" BY <2>5
    <3> QED BY <1>1, <2>3, <2>5, <3>1, <3>2 DEF Careful, IsDecided
  <2>9. CopyBehind' BY <1>1, <2>1, <2>3, <2>6 DEF CopyBehind, IsDecided
  <2> HIDE DEF p
  <2> QED BY <1>3, <1>4, <1>6, <2>1, <2>8, <2>9, KeptMoves
<1> QED BY <1>8, <1>9, <1>10

LEMMA KeptContinue ==
    ASSUME ClaimsInv, KeptInv, NEW r \in ClaimRequest, ContinueClaim(r) \/ FailClaim(r)
    PROVE  KeptInv' /\ DecisionStays
<1>1. /\ claimPc \in [ClaimRequest -> ClaimPC]
      /\ approvalRow \in ApprovalCopy \cup {NoRow}
      /\ approverCopy \in ApprovalCopy \cup {NoneHeld}
      /\ RequestOK(r) /\ NoRow \notin ApprovalCopy
  BY RowIs DEF ClaimsInv, ClaimsTypeOK
<1>2. claimPc[r] \notin {"idle", "failed", "done"}
  BY DEF ContinueClaim, OpenApproval, WriteClaim, Reread, FindApproval, Amend,
    SaveDecision, RecordDecision, Hear, ApplyOutcome, FailClaim, ClaimPC
<1>3. ~disturbed => /\ \A s \in ClaimInProgress : s = r
                    /\ Careful(r) /\ CopyBehind
                    /\ \A s \in ClaimRequest \ {r} : claimPc[s] # "recording"
  BY <1>2 DEF KeptInv, ClaimInProgress
<1>4. disturbed => disturbed'
  BY DEF ContinueClaim, OpenApproval, WriteClaim, Reread, FindApproval, Amend,
    SaveDecision, RecordDecision, Hear, ApplyOutcome, FailClaim
<1>5. ASSUME NEW p \in ClaimPC, claimPc[r] # "recording", p # "opening", p # "amending",
             p # "deciding", claimPc' = [claimPc EXCEPT ![r] = p],
             UNCHANGED <<approvalRow, approverCopy>>
      PROVE  KeptInv' /\ DecisionStays
  <2>1. DecisionStays BY <1>5 DEF DecisionStays
  <2>2. SUFFICES ASSUME ~disturbed' PROVE KeptInv' BY <2>1 DEF KeptInv
  <2>3. Careful(r)' BY <1>1, <1>5 DEF Careful
  <2>4. CopyBehind'
    BY <1>3, <1>4, <1>5, <2>2 DEF CopyBehind, IsDecided
  <2> QED BY <1>1, <1>3, <1>4, <1>5, <2>2, <2>3, <2>4, KeptMoves
<1>6. CASE WriteClaim(r) \/ Reread(r) \/ Hear(r) \/ ApplyOutcome(r)
  <2>1. PICK p \in {"rereading", "finding", "hearing", "done"} :
          claimPc' = [claimPc EXCEPT ![r] = p]
    BY <1>6 DEF WriteClaim, Reread, Hear, ApplyOutcome, Reach
  <2>2. claimPc[r] # "recording" /\ UNCHANGED <<approvalRow, approverCopy>>
    BY <1>6 DEF WriteClaim, Reread, Hear, ApplyOutcome
  <2> QED BY <1>5, <2>1, <2>2 DEF ClaimPC
<1>7. CASE FailClaim(r)
  BY <1>7 DEF FailClaim, KeptInv, DecisionStays
<1>8. CASE FindApproval(r)
  <2>1. /\ claimPc[r] = "finding" /\ UNCHANGED <<approvalRow, approverCopy, disturbed>>
        /\ claimPc' = [claimPc EXCEPT
             ![r] = IF approvalRow # NoRow /\ Amendable(approvalRow.status)
                    THEN "amending" ELSE "done"]
    BY <1>8 DEF FindApproval, Reach
  <2>2. CASE approvalRow # NoRow /\ Amendable(approvalRow.status)
    <3>1. claimPc' = [claimPc EXCEPT ![r] = "amending"] BY <2>1, <2>2
    <3>2. SUFFICES ASSUME ~disturbed' PROVE KeptInv' BY <2>1 DEF KeptInv, DecisionStays
    <3>3. ~IsDecided /\ ~IsDecided' BY <2>1, <2>2 DEF IsDecided, Amendable
    <3>4. Careful(r)' BY <1>1, <3>1, <3>3 DEF Careful
    <3>5. CopyBehind' BY <1>3, <2>1, <3>2, <3>3 DEF CopyBehind
    <3> QED BY <1>1, <1>3, <2>1, <3>1, <3>2, <3>4, <3>5, KeptMoves
  <2>3. CASE ~(approvalRow # NoRow /\ Amendable(approvalRow.status))
    BY <1>5, <2>1, <2>3 DEF ClaimPC
  <2> QED BY <2>2, <2>3
<1>9. CASE OpenApproval(r)
  <2>1. /\ claimPc[r] = "opening" /\ claimPc' = [claimPc EXCEPT ![r] = "done"]
        /\ approvalRow'.status = "pending" /\ approvalRow'.entries = 0
        /\ UNCHANGED <<approverCopy, disturbed>>
    BY <1>9 DEF OpenApproval, Reach
  <2>2. ~disturbed => approvalRow = NoRow /\ approverCopy = NoneHeld
    BY <1>3, <2>1 DEF Careful, CopyBehind
  <2>3. DecisionStays BY <2>2 DEF DecisionStays, IsDecided
  <2>4. SUFFICES ASSUME ~disturbed' PROVE KeptInv' BY <2>3 DEF KeptInv
  <2>5. Careful(r)' BY <1>1, <2>1 DEF Careful
  <2>6. CopyBehind' BY <2>1, <2>2, <2>4 DEF CopyBehind
  <2> QED BY <1>1, <1>3, <2>1, <2>4, <2>5, <2>6, KeptMoves
<1>10. CASE Amend(r)
  <2>1. /\ claimPc[r] = "amending" /\ claimPc' = [claimPc EXCEPT ![r] = "done"]
        /\ approvalRow' = [approvalRow EXCEPT !.amount = claimHeld[r]]
        /\ UNCHANGED <<approverCopy, disturbed>>
    BY <1>10 DEF Amend, Reach
  <2>2. approvalRow \in ApprovalCopy /\ approvalRow # NoRow BY <1>1, <2>1 DEF RequestOK
  <2>3. /\ approvalRow'.status = approvalRow.status
        /\ approvalRow'.entries = approvalRow.entries
        /\ approvalRow' \in [status: ApprovalState, amount: {claimHeld[r]}, entries: Nat]
    BY <2>1, <2>2 DEF ApprovalCopy
  <2>4. approvalRow' # NoRow
    <3>1. claimHeld[r] \in Amounts BY <1>1, <2>1 DEF RequestOK
    <3> QED BY <1>1, <2>3, <3>1 DEF ApprovalCopy
  <2>5. ~disturbed => ~IsDecided BY <1>3, <2>1 DEF Careful
  <2>6. DecisionStays BY <2>5 DEF DecisionStays
  <2>7. SUFFICES ASSUME ~disturbed' PROVE KeptInv' BY <2>6 DEF KeptInv
  <2>8. Careful(r)' BY <1>1, <2>1 DEF Careful
  <2>9. ~IsDecided' BY <2>1, <2>2, <2>3, <2>5, <2>7 DEF IsDecided
  <2>10. CopyBehind' BY <1>3, <2>1, <2>3, <2>4, <2>7, <2>9 DEF CopyBehind
  <2> QED BY <1>1, <1>3, <2>1, <2>7, <2>8, <2>10, KeptMoves
<1>11. CASE SaveDecision(r)
  <2>1. claimPc[r] = "deciding" /\ UNCHANGED approverCopy BY <1>11 DEF SaveDecision
  <2>2. approvalRow \in ApprovalCopy /\ claimHeld[r] \in ApprovalCopy
    BY <1>1, <2>1 DEF RequestOK
  <2>3. CASE claimHeld[r].entries = approvalRow.entries
    <3> DEFINE s == Decided(claimCall[r].op, claimHeld[r].status)
    <3>1. /\ approvalRow' = [claimHeld[r] EXCEPT !.status = s]
          /\ claimPc' = [claimPc EXCEPT ![r] = "recording"] /\ disturbed' = disturbed
      BY <1>11, <2>3 DEF SaveDecision, Reach
    <3>2. approvalRow'.entries = approvalRow.entries BY <2>2, <2>3, <3>1 DEF ApprovalCopy
    <3>3. approvalRow' # NoRow
      <4>1. claimCall[r].op \in OnApproval \ {"view"} /\ claimHeld[r].status \in ApprovalState
        BY <1>1, <2>1, <2>2 DEF RequestOK, ApprovalCopy
      <4>2. s \in ApprovalState BY <4>1, DecidedIs
      <4> HIDE DEF s
      <4>3. approvalRow' \in ApprovalCopy BY <2>2, <3>1, <4>2 DEF ApprovalCopy
      <4> QED BY <1>1, <4>3
    <3>4. ~disturbed => ~IsDecided BY <1>3, <2>1, <2>3 DEF Careful
    <3>5. DecisionStays BY <3>4 DEF DecisionStays
    <3>6. SUFFICES ASSUME ~disturbed' PROVE KeptInv' BY <3>5 DEF KeptInv
    <3>7. claimPc'[r] = "recording" BY <1>1, <3>1
    <3>8. Careful(r)' BY <3>7 DEF Careful
    <3>9. CopyBehind' BY <1>3, <2>1, <3>1, <3>2, <3>3, <3>6, <3>7 DEF CopyBehind
    <3> QED BY <1>1, <1>3, <3>1, <3>6, <3>8, <3>9, KeptMoves
  <2>4. CASE claimHeld[r].entries # approvalRow.entries
    BY <1>11, <2>4 DEF SaveDecision, KeptInv, DecisionStays
  <2> QED BY <2>3, <2>4
<1>12. CASE RecordDecision(r)
  <2>1. /\ claimPc[r] = "recording" /\ claimPc' = [claimPc EXCEPT ![r] = "told"]
        /\ approvalRow' = [approvalRow EXCEPT !.entries = @ + 1]
        /\ UNCHANGED <<approverCopy, disturbed>>
    BY <1>12 DEF RecordDecision, Reach
  <2>2. approvalRow \in ApprovalCopy BY <1>1, <2>1 DEF RequestOK
  <2>3. /\ approvalRow'.status = approvalRow.status
        /\ approvalRow'.amount = approvalRow.amount
        /\ approvalRow'.entries = approvalRow.entries + 1
        /\ approvalRow.entries \in Nat /\ approvalRow' \in ApprovalCopy
    BY <2>1, <2>2 DEF ApprovalCopy
  <2>4. DecisionStays BY <2>3 DEF DecisionStays
  <2>5. SUFFICES ASSUME ~disturbed' PROVE KeptInv' BY <2>4 DEF KeptInv
  <2>6. Careful(r)' BY <1>1, <2>1 DEF Careful
  <2>7. approverCopy # NoneHeld
          => /\ approverCopy.entries \in Nat
             /\ approverCopy.entries <= approvalRow.entries
    BY <1>1, <1>3, <2>1, <2>5 DEF CopyBehind, ApprovalCopy
  <2>8. approvalRow' # NoRow BY <1>1, <2>3
  <2>9. CopyBehind' BY <2>1, <2>3, <2>7, <2>8 DEF CopyBehind
  <2> QED BY <1>1, <1>3, <2>1, <2>5, <2>6, <2>9, KeptMoves
<1> QED BY <1>6, <1>7, <1>8, <1>9, <1>10, <1>11, <1>12 DEF ContinueClaim

LEMMA KeptStep ==
    ASSUME ClaimsInv, KeptInv, [ClaimsNext]_claimVars
    PROVE  KeptInv' /\ (DecisionStays \/ UNCHANGED claimVars)
<1>1. CASE \E r \in ClaimRequest : \E q \in ClaimCalls :
             CreateClaim(r, q) \/ FindClaim(r, q) \/ LoadApproval(r, q)
  BY <1>1, KeptBegin
<1>2. CASE \E r \in ClaimRequest : ContinueClaim(r) \/ FailClaim(r)
  BY <1>2, KeptContinue
<1>3. CASE EvictCopy
  <2>1. approverCopy' = NoneHeld /\ UNCHANGED <<approvalRow, claimPc, claimHeld, disturbed>>
    BY <1>3 DEF EvictCopy
  <2> QED BY <2>1 DEF KeptInv, Careful, CopyBehind, IsDecided, ClaimInProgress, DecisionStays
<1>4. CASE UNCHANGED claimVars
  <2>1. UNCHANGED <<approvalRow, approverCopy, claimPc, claimHeld, disturbed>>
    BY <1>4 DEF claimVars
  <2> QED BY <1>4, <2>1 DEF KeptInv, Careful, CopyBehind, IsDecided, ClaimInProgress
<1> QED BY <1>1, <1>2, <1>3, <1>4 DEF ClaimsNext

(* Unless requests overlap or fail, an approval that was approved or       *)
(* rejected keeps its status and amount, whatever updates follow.          *)
THEOREM DecisionAlwaysKept == ClaimsSpec => DecidedApprovalIsKept
<1>1. ClaimsInit => KeptInv
  BY DEF ClaimsInit, KeptInv, Careful, CopyBehind, IsDecided, ClaimInProgress
<1>2. ClaimsInv /\ KeptInv /\ [ClaimsNext]_claimVars => KeptInv' BY KeptStep
<1>3. ClaimsSpec => [](ClaimsInv /\ KeptInv)
  BY <1>1, <1>2, ClaimsInductive, PTL DEF ClaimsSpec
<1>4. ClaimsInv /\ KeptInv /\ [ClaimsNext]_claimVars
        => [(approvalRow # NoRow /\ approvalRow.status \in {"approved", "rejected"} /\ ~disturbed)
             => /\ approvalRow'.status = approvalRow.status
                /\ approvalRow'.amount = approvalRow.amount]_claimVars
  BY KeptStep DEF DecisionStays, IsDecided
<1> QED BY <1>3, <1>4, PTL DEF ClaimsSpec, DecidedApprovalIsKept

-----------------------------------------------------------------------------
(***************************************************************************)
(* Claim and approval agree.  As long as requests do not overlap and none  *)
(* fails, only the request in progress can have left them apart: an update *)
(* that has yet to amend the approval, or a decision that the claim has    *)
(* yet to hear of.                                                         *)
(***************************************************************************)
NoneCarries == \A r \in ClaimRequest :
                  (claimCall[r] # NoRequest /\ claimCall[r].op = "update")
                     => claimCall[r].status = "none"

(* What the request in progress has read is what is stored, and what it    *)
(* has decided is the approval's status.                                   *)
ReadWell(r) ==
    /\ claimPc[r] \in {"opening", "finding", "amending"} => claimHeld[r] = claim.amount
    /\ claimPc[r] = "deciding" => claimHeld[r].status = "pending"
    /\ claimPc[r] \in {"recording", "told", "hearing"} /\ claimCall[r].op \in {"approve", "reject"}
         => approvalRow.status = Decided(claimCall[r].op, "pending")

PendingShown ==
    (approvalRow # NoRow /\ approvalRow.status = "pending")
      => \/ approvalRow.amount = claim.amount
         \/ DelegatedWith(approvalRow.amount)
         \/ \E r \in ClaimRequest : claimPc[r] \in {"rereading", "finding", "amending"}

ToldOf(status) == IF status = "approved" THEN "approved" ELSE "declined"

DecidedShown ==
    (NoneCarries /\ IsDecided)
      => \/ claim.status = ToldOf(approvalRow.status)
         \/ \E r \in ClaimRequest : /\ claimPc[r] \in {"recording", "told", "hearing"}
                                    /\ claimCall[r].op \in {"approve", "reject"}

SettleInv ==
    ~disturbed => /\ \A r \in ClaimRequest : ReadWell(r)
                  /\ PendingShown
                  /\ DecidedShown

(* Of the request that is in progress alone. *)
LEMMA SettledBefore ==
    ASSUME SettleInv, ~disturbed, NEW r \in ClaimRequest, \A s \in ClaimInProgress : s = r,
           claimPc \in [ClaimRequest -> ClaimPC]
    PROVE  /\ ReadWell(r)
           /\ (approvalRow # NoRow /\ approvalRow.status = "pending")
                => \/ approvalRow.amount = claim.amount
                   \/ DelegatedWith(approvalRow.amount)
                   \/ claimPc[r] \in {"rereading", "finding", "amending"}
           /\ (NoneCarries /\ IsDecided)
                => \/ claim.status = ToldOf(approvalRow.status)
                   \/ /\ claimPc[r] \in {"recording", "told", "hearing"}
                      /\ claimCall[r].op \in {"approve", "reject"}
<1>1. \A s \in ClaimRequest \ {r} : claimPc[s] \in {"idle", "failed", "done"}
  BY DEF ClaimInProgress
<1> QED BY <1>1 DEF SettleInv, PendingShown, DecidedShown

LEMMA SettledAfter ==
    ASSUME NEW r \in ClaimRequest, \A s \in ClaimInProgress : s = r, NEW p,
           claimPc \in [ClaimRequest -> ClaimPC], claimPc' = [claimPc EXCEPT ![r] = p],
           ReadWell(r)',
           (approvalRow' # NoRow /\ approvalRow'.status = "pending")
             => \/ approvalRow'.amount = claim'.amount
                \/ DelegatedWith(approvalRow.amount)'
                \/ p \in {"rereading", "finding", "amending"},
           (NoneCarries' /\ IsDecided')
             => \/ claim'.status = ToldOf(approvalRow'.status)
                \/ /\ p \in {"recording", "told", "hearing"}
                   /\ claimCall'[r].op \in {"approve", "reject"}
    PROVE  SettleInv'
<1>1. claimPc'[r] = p /\ \A s \in ClaimRequest \ {r} : claimPc'[s] = claimPc[s]
  OBVIOUS
<1>2. \A s \in ClaimRequest \ {r} : claimPc'[s] \in {"idle", "failed", "done"}
  BY <1>1 DEF ClaimInProgress
<1>3. \A s \in ClaimRequest \ {r} : ReadWell(s)' BY <1>2 DEF ReadWell
<1>4. \A s \in ClaimRequest : ReadWell(s)' BY <1>3
<1>5. PendingShown' BY <1>1 DEF PendingShown
<1>6. DecidedShown' BY <1>1 DEF DecidedShown
<1> QED BY <1>4, <1>5, <1>6 DEF SettleInv

(* What a delegation has saved is remembered: it goes on to its end.       *)
LEMMA DelegatedStays ==
    ASSUME ClaimsInv, ~disturbed', NEW amount, DelegatedWith(amount),
           \/ \E r \in ClaimRequest : \E q \in ClaimCalls :
                CreateClaim(r, q) \/ FindClaim(r, q) \/ LoadApproval(r, q)
           \/ \E r \in ClaimRequest : ContinueClaim(r) \/ FailClaim(r)
    PROVE  DelegatedWith(amount)'
<1>1. /\ claimPc \in [ClaimRequest -> ClaimPC]
      /\ claimCall \in [ClaimRequest -> ClaimCalls \cup {NoRequest}]
      /\ claimHeld \in [ClaimRequest -> Amounts \cup ApprovalCopy \cup {NoneHeld}]
      /\ \A r \in ClaimRequest : RequestOK(r)
  BY DEF ClaimsInv, ClaimsTypeOK
<1>2. PICK d \in ClaimRequest :
        /\ claimPc[d] \in {"recording", "told", "done"}
        /\ claimCall[d] # NoRequest
        /\ claimCall[d].op = "delegate"
        /\ claimHeld[d].amount = amount
  BY DEF DelegatedWith
<1>3. SUFFICES /\ claimPc'[d] \in {"recording", "told", "done"}
               /\ claimCall'[d] = claimCall[d]
               /\ claimHeld'[d] = claimHeld[d]
  BY <1>2 DEF DelegatedWith
<1>4. ASSUME NEW r \in ClaimRequest, NEW q \in ClaimCalls,
             CreateClaim(r, q) \/ FindClaim(r, q) \/ LoadApproval(r, q)
      PROVE  /\ claimPc'[d] \in {"recording", "told", "done"}
             /\ claimCall'[d] = claimCall[d]
             /\ claimHeld'[d] = claimHeld[d]
  <2>1. claimPc[r] = "idle" BY <1>4 DEF CreateClaim, FindClaim, LoadApproval, Start
  <2>2. d # r BY <1>2, <2>1
  <2> QED BY <1>1, <1>2, <1>4, <2>2
    DEF CreateClaim, FindClaim, LoadApproval, Start, Reach, Hold
<1>5. ASSUME NEW r \in ClaimRequest, ContinueClaim(r)
      PROVE  /\ claimPc'[d] \in {"recording", "told", "done"}
             /\ claimCall'[d] = claimCall[d]
             /\ claimHeld'[d] = claimHeld[d]
  <2>1. CASE RecordDecision(r)
    BY <1>1, <1>2, <2>1 DEF RecordDecision, Reach
  <2>2. CASE Hear(r)
    BY <1>1, <1>2, <2>2 DEF Hear, Reach
  <2>3. CASE ~RecordDecision(r) /\ ~Hear(r)
    <3>1. claimPc[r] \notin {"recording", "told", "done"}
      BY <1>5, <2>3 DEF ContinueClaim, OpenApproval, WriteClaim, Reread, FindApproval, Amend,
         SaveDecision, ApplyOutcome
    <3>2. d # r BY <1>2, <3>1
    <3> QED BY <1>1, <1>2, <1>5, <2>3, <3>2
      DEF ContinueClaim, OpenApproval, WriteClaim, Reread, FindApproval, Amend,
          SaveDecision, ApplyOutcome, Reach, Hold
  <2> QED BY <2>1, <2>2, <2>3
<1>6. \A r \in ClaimRequest : ~FailClaim(r) BY DEF FailClaim
<1> QED BY <1>4, <1>5, <1>6

LEMMA SettleBegin ==
    ASSUME ClaimsInv, KeptInv, SettleInv, NEW r \in ClaimRequest, NEW q \in ClaimCalls,
           CreateClaim(r, q) \/ FindClaim(r, q) \/ LoadApproval(r, q)
    PROVE  SettleInv'
<1>1. SUFFICES ASSUME ~disturbed' PROVE SettleInv' BY DEF SettleInv
<1>2. /\ claimPc \in [ClaimRequest -> ClaimPC]
      /\ claimCall \in [ClaimRequest -> ClaimCalls \cup {NoRequest}]
      /\ claimHeld \in [ClaimRequest -> Amounts \cup ApprovalCopy \cup {NoneHeld}]
      /\ approvalRow # NoRow => claim # NoRow
      /\ RequestOK(r)
  BY DEF ClaimsInv, ClaimsTypeOK
<1>3. /\ disturbed' = (disturbed \/ ClaimInProgress # {}) /\ claimPc[r] = "idle"
      /\ claimCall' = [claimCall EXCEPT ![r] = q]
      /\ UNCHANGED approvalRow
  BY DEF CreateClaim, FindClaim, LoadApproval, Start
<1>4. ~disturbed /\ ClaimInProgress = {} BY <1>1, <1>3
<1>5. claimCall[r] = NoRequest /\ q # NoRequest BY <1>2, <1>3, CallIs DEF RequestOK
<1>6. NoneCarries' => NoneCarries
  BY <1>2, <1>3, <1>5 DEF NoneCarries
<1>11. DelegatedWith(approvalRow.amount) => DelegatedWith(approvalRow.amount)'
  BY <1>1, <1>3, DelegatedStays DEF DelegatedWith
<1>7. /\ (approvalRow # NoRow /\ approvalRow.status = "pending")
           => approvalRow.amount = claim.amount \/ DelegatedWith(approvalRow.amount)'
      /\ (NoneCarries' /\ IsDecided') => claim.status = ToldOf(approvalRow.status)
  BY <1>2, <1>3, <1>4, <1>6, <1>11, SettledBefore DEF IsDecided
<1>8. CASE CreateClaim(r, q)
  <2>1. /\ claim = NoRow /\ claim' = [status |-> "pending", amount |-> q.amount, deleted |-> FALSE]
        /\ claimHeld' = [claimHeld EXCEPT ![r] = q.amount]
        /\ claimPc' = [claimPc EXCEPT ![r] = "opening"]
    BY <1>8 DEF CreateClaim, Hold, Start, Reach
  <2>2. ReadWell(r)' BY <1>2, <2>1 DEF ReadWell
  <2>3. approvalRow' = NoRow BY <1>2, <1>3, <2>1
  <2> QED BY <1>2, <1>4, <2>1, <2>2, <2>3, SettledAfter DEF IsDecided
<1>9. CASE FindClaim(r, q)
  <2> DEFINE p == IF Found(q.op) THEN "writing" ELSE "done"
  <2>1. /\ UNCHANGED claim /\ claimPc' = [claimPc EXCEPT ![r] = p]
    BY <1>9 DEF FindClaim, Start, Reach
  <2>2. p \in {"writing", "done"} OBVIOUS
  <2> HIDE DEF p
  <2>3. ReadWell(r)' BY <1>2, <2>1, <2>2 DEF ReadWell
  <2> QED BY <1>2, <1>3, <1>4, <1>7, <2>1, <2>3, SettledAfter
<1>10. CASE LoadApproval(r, q)
  <2>1. PICK copy :
          /\ UNCHANGED claim /\ claimHeld' = [claimHeld EXCEPT ![r] = copy]
          /\ \/ claimPc' = [claimPc EXCEPT ![r] = "deciding"] /\ copy.status = "pending"
             \/ claimPc' = [claimPc EXCEPT ![r] = "done"]
    BY <1>10 DEF LoadApproval, Hold, Start, Reach
  <2>2. claimHeld'[r] = copy BY <1>2, <2>1
  <2>3. CASE claimPc' = [claimPc EXCEPT ![r] = "deciding"] /\ copy.status = "pending"
    <3>1. ReadWell(r)' BY <1>2, <2>2, <2>3 DEF ReadWell
    <3> QED BY <1>2, <1>3, <1>4, <1>7, <2>1, <2>3, <3>1, SettledAfter
  <2>4. CASE claimPc' = [claimPc EXCEPT ![r] = "done"]
    <3>1. ReadWell(r)' BY <1>2, <2>4 DEF ReadWell
    <3> QED BY <1>2, <1>3, <1>4, <1>7, <2>1, <2>4, <3>1, SettledAfter
  <2> QED BY <2>1, <2>3, <2>4
<1> QED BY <1>8, <1>9, <1>10

LEMMA SettleContinue ==
    ASSUME ClaimsInv, KeptInv, SettleInv, NEW r \in ClaimRequest, ContinueClaim(r) \/ FailClaim(r)
    PROVE  SettleInv'
<1>1. SUFFICES ASSUME ~disturbed' PROVE SettleInv' BY DEF SettleInv
<1>2. /\ claimPc \in [ClaimRequest -> ClaimPC]
      /\ claimHeld \in [ClaimRequest -> Amounts \cup ApprovalCopy \cup {NoneHeld}]
      /\ approvalRow \in ApprovalCopy \cup {NoRow}
      /\ claim \in ClaimRow \cup {NoRow}
      /\ RequestOK(r)
  BY DEF ClaimsInv, ClaimsTypeOK
<1>3. claimPc[r] \notin {"idle", "failed", "done"}
  BY DEF ContinueClaim, OpenApproval, WriteClaim, Reread, FindApproval, Amend,
    SaveDecision, RecordDecision, Hear, ApplyOutcome, FailClaim, ClaimPC
<1>4. /\ disturbed => disturbed'
      /\ claimCall' = claimCall
  BY DEF ContinueClaim, OpenApproval, WriteClaim, Reread, FindApproval, Amend,
    SaveDecision, RecordDecision, Hear, ApplyOutcome, FailClaim
<1>5. /\ \A s \in ClaimInProgress : s = r
      /\ Careful(r)
  BY <1>1, <1>3, <1>4 DEF KeptInv, ClaimInProgress
<1>6. NoneCarries' = NoneCarries
  BY <1>4 DEF NoneCarries
<1>7. /\ ReadWell(r)
      /\ (approvalRow # NoRow /\ approvalRow.status = "pending")
           => \/ approvalRow.amount = claim.amount
              \/ DelegatedWith(approvalRow.amount)
              \/ claimPc[r] \in {"rereading", "finding", "amending"}
      /\ (NoneCarries /\ IsDecided)
           => \/ claim.status = ToldOf(approvalRow.status)
              \/ /\ claimPc[r] \in {"recording", "told", "hearing"}
                 /\ claimCall[r].op \in {"approve", "reject"}
  BY <1>1, <1>2, <1>4, <1>5, SettledBefore
<1>8. claimCall[r] \in ClaimCalls /\ claimCall[r] # NoRequest
  BY <1>2, <1>3, CallIs DEF RequestOK
<1>19. approvalRow'.amount = approvalRow.amount
         => (DelegatedWith(approvalRow.amount) => DelegatedWith(approvalRow.amount)')
  <2>1. \A amount : DelegatedWith(amount) => DelegatedWith(amount)'
    BY <1>1, DelegatedStays
  <2> QED BY <2>1 DEF DelegatedWith
<1>9. CASE OpenApproval(r)
  <2>1. /\ claimPc[r] = "opening" /\ claimPc' = [claimPc EXCEPT ![r] = "done"]
        /\ approvalRow' = [status |-> "pending", amount |-> claimHeld[r], entries |-> 0]
        /\ UNCHANGED <<claim, claimHeld>>
    BY <1>9 DEF OpenApproval, Reach
  <2>2. approvalRow'.amount = claim.amount /\ approvalRow'.status = "pending"
    BY <1>7, <2>1 DEF ReadWell
  <2>3. ReadWell(r)' BY <1>2, <2>1 DEF ReadWell
  <2> QED BY <1>2, <1>5, <2>1, <2>2, <2>3, SettledAfter DEF IsDecided
<1>10. CASE WriteClaim(r)
  <2> DEFINE p == IF claimCall[r].op = "update" THEN "rereading" ELSE "done"
  <2>1. /\ claimPc[r] = "writing" /\ claimPc' = [claimPc EXCEPT ![r] = p]
        /\ claim' = Written(claimCall[r]) /\ UNCHANGED <<approvalRow, claimHeld>>
    BY <1>10 DEF WriteClaim, Reach
  <2>2. claim \in ClaimRow BY <1>2, <2>1 DEF RequestOK
  <2>3. /\ claimCall[r].op # "update" => claim'.amount = claim.amount
        /\ NoneCarries => claim'.status = claim.status
    <3>1. CASE claimCall[r].op = "update"
      BY <1>8, <2>1, <2>2, <3>1 DEF Written, NoneCarries, ClaimRow
    <3>2. CASE claimCall[r].op # "update"
      BY <2>1, <2>2, <3>2 DEF Written, ClaimRow
    <3> QED BY <3>1, <3>2
  <2>4. p \in {"rereading", "done"} /\ (claimCall[r].op = "update" => p = "rereading") OBVIOUS
  <2> HIDE DEF p
  <2>5. ReadWell(r)' BY <1>2, <2>1, <2>4 DEF ReadWell
  <2> QED BY <1>2, <1>5, <1>6, <1>7, <1>19, <2>1, <2>3, <2>4, <2>5, SettledAfter DEF IsDecided
<1>11. CASE Reread(r)
  <2>1. /\ claimPc[r] = "rereading" /\ claimPc' = [claimPc EXCEPT ![r] = "finding"]
        /\ claimHeld' = [claimHeld EXCEPT ![r] = claim.amount]
        /\ UNCHANGED <<claim, approvalRow>>
    BY <1>11 DEF Reread, Reach, Hold
  <2>2. ReadWell(r)' BY <1>2, <2>1 DEF ReadWell
  <2> QED BY <1>2, <1>5, <1>6, <1>7, <1>19, <2>1, <2>2, SettledAfter DEF IsDecided
<1>12. CASE FindApproval(r)
  <2> DEFINE p == IF approvalRow # NoRow /\ Amendable(approvalRow.status)
                  THEN "amending" ELSE "done"
  <2>1. /\ claimPc[r] = "finding" /\ claimPc' = [claimPc EXCEPT ![r] = p]
        /\ UNCHANGED <<claim, approvalRow, claimHeld>>
    BY <1>12 DEF FindApproval, Reach
  <2>2. /\ p \in {"amending", "done"}
        /\ approvalRow # NoRow /\ approvalRow.status = "pending" => p = "amending"
    BY DEF Amendable
  <2> HIDE DEF p
  <2>3. ReadWell(r)' BY <1>2, <1>7, <2>1, <2>2 DEF ReadWell
  <2> QED BY <1>2, <1>5, <1>6, <1>7, <1>19, <2>1, <2>2, <2>3, SettledAfter DEF IsDecided
<1>13. CASE Amend(r)
  <2>1. /\ claimPc[r] = "amending" /\ claimPc' = [claimPc EXCEPT ![r] = "done"]
        /\ approvalRow' = [approvalRow EXCEPT !.amount = claimHeld[r]]
        /\ UNCHANGED <<claim, claimHeld>>
    BY <1>13 DEF Amend, Reach
  <2>2. approvalRow \in ApprovalCopy BY <1>2, <2>1 DEF RequestOK
  <2>3. approvalRow'.amount = claim.amount /\ approvalRow'.status = approvalRow.status
    BY <1>7, <2>1, <2>2 DEF ReadWell, ApprovalCopy
  <2>4. ~IsDecided /\ approvalRow # NoRow BY <1>2, <1>5, <2>1 DEF Careful, RequestOK
  <2>5. ReadWell(r)' BY <1>2, <2>1 DEF ReadWell
  <2> QED BY <1>2, <1>5, <2>1, <2>3, <2>4, <2>5, SettledAfter DEF IsDecided
<1>14. CASE SaveDecision(r)
  <2>1. /\ claimPc[r] = "deciding" /\ claimPc' = [claimPc EXCEPT ![r] = "recording"]
        /\ approvalRow' = [claimHeld[r] EXCEPT !.status = Decided(claimCall[r].op, @)]
        /\ UNCHANGED <<claim, claimHeld>>
    BY <1>1, <1>14 DEF SaveDecision, Reach
  <2>2. /\ claimHeld[r] \in ApprovalCopy /\ claimCall[r].op \in OnApproval \ {"view"}
        /\ claimHeld[r].status = "pending"
    BY <1>2, <1>7, <2>1 DEF RequestOK, ReadWell
  <2>3. approvalRow'.status = Decided(claimCall[r].op, "pending")
    BY <2>1, <2>2 DEF ApprovalCopy
  <2>4. ReadWell(r)' BY <1>2, <1>4, <2>1, <2>3 DEF ReadWell
  <2>5. approvalRow'.status = "pending" => DelegatedWith(approvalRow.amount)'
    <3>1. approvalRow'.status = "pending" => claimCall[r].op = "delegate"
      BY <2>2, <2>3 DEF Decided, OnApproval
    <3>2. approvalRow'.amount = claimHeld'[r].amount BY <2>1, <2>2 DEF ApprovalCopy
    <3>3. claimPc'[r] = "recording" BY <1>2, <2>1
    <3> QED BY <1>4, <1>8, <3>1, <3>2, <3>3 DEF DelegatedWith
  <2>6. IsDecided' => claimCall[r].op \in {"approve", "reject"}
    BY <2>2, <2>3 DEF IsDecided, Decided, OnApproval
  <2> QED BY <1>2, <1>4, <1>5, <1>6, <2>1, <2>4, <2>5, <2>6, SettledAfter
<1>15. CASE RecordDecision(r)
  <2>1. /\ claimPc[r] = "recording" /\ claimPc' = [claimPc EXCEPT ![r] = "told"]
        /\ approvalRow' = [approvalRow EXCEPT !.entries = @ + 1]
        /\ UNCHANGED <<claim, claimHeld>>
    BY <1>15 DEF RecordDecision, Reach
  <2>2. approvalRow \in ApprovalCopy /\ approvalRow # NoRow BY <1>2, <2>1 DEF RequestOK
  <2>3. approvalRow'.status = approvalRow.status /\ approvalRow'.amount = approvalRow.amount
    BY <2>1, <2>2 DEF ApprovalCopy
  <2>4. ReadWell(r)' BY <1>2, <1>4, <1>7, <2>1, <2>3 DEF ReadWell
  <2> QED BY <1>2, <1>4, <1>5, <1>6, <1>7, <1>19, <2>1, <2>2, <2>3, <2>4, SettledAfter DEF IsDecided
<1>16. CASE Hear(r)
  <2> DEFINE p == IF claimCall[r].op = "delegate" THEN "done" ELSE "hearing"
  <2>1. /\ claimPc[r] = "told" /\ claimPc' = [claimPc EXCEPT ![r] = p]
        /\ UNCHANGED <<claim, approvalRow, claimHeld>>
    BY <1>16 DEF Hear, Reach
  <2>2. /\ p \in {"done", "hearing"}
        /\ claimCall[r].op \in {"approve", "reject"} => p = "hearing"
    OBVIOUS
  <2> HIDE DEF p
  <2>3. ReadWell(r)' BY <1>2, <1>4, <1>7, <2>1, <2>2 DEF ReadWell
  <2> QED BY <1>2, <1>4, <1>5, <1>6, <1>7, <1>19, <2>1, <2>2, <2>3, SettledAfter DEF IsDecided
<1>17. CASE ApplyOutcome(r)
  <2>1. /\ claimPc[r] = "hearing" /\ claimPc' = [claimPc EXCEPT ![r] = "done"]
        /\ claim' = [claim EXCEPT !.status = ClaimOutcome(claimCall[r].op, @)]
        /\ UNCHANGED <<approvalRow, claimHeld>>
    BY <1>17 DEF ApplyOutcome, Reach
  <2>2. claim \in ClaimRow
    <3>1. approvalRow # NoRow => claim # NoRow BY DEF ClaimsInv
    <3> QED BY <1>2, <2>1, <3>1 DEF RequestOK
  <2>3. /\ claim'.amount = claim.amount
        /\ claim'.status = ClaimOutcome(claimCall[r].op, claim.status)
    BY <2>1, <2>2 DEF ClaimRow
  <2>4. (NoneCarries /\ IsDecided) => claim'.status = ToldOf(approvalRow.status)
    <3>1. CASE claimCall[r].op \in {"approve", "reject"}
      <4>1. approvalRow.status = Decided(claimCall[r].op, "pending")
        BY <1>7, <2>1, <3>1 DEF ReadWell
      <4> QED BY <2>3, <3>1, <4>1 DEF ToldOf, Decided, ClaimOutcome
    <3>2. CASE claimCall[r].op \notin {"approve", "reject"}
      <4>1. claim'.status = claim.status BY <2>3, <3>2 DEF ClaimOutcome
      <4> QED BY <1>7, <3>2, <4>1
    <3> QED BY <3>1, <3>2
  <2>5. ReadWell(r)' BY <1>2, <2>1 DEF ReadWell
  <2> QED BY <1>2, <1>5, <1>6, <1>7, <1>19, <2>1, <2>3, <2>4, <2>5, SettledAfter DEF IsDecided
<1>18. ~FailClaim(r) BY <1>1 DEF FailClaim
<1> QED BY <1>9, <1>10, <1>11, <1>12, <1>13, <1>14, <1>15, <1>16, <1>17, <1>18
    DEF ContinueClaim

LEMMA SettleStep ==
    ASSUME ClaimsInv, KeptInv, SettleInv, [ClaimsNext]_claimVars
    PROVE  SettleInv'
<1>1. CASE \E r \in ClaimRequest : \E q \in ClaimCalls :
             CreateClaim(r, q) \/ FindClaim(r, q) \/ LoadApproval(r, q)
  BY <1>1, SettleBegin
<1>2. CASE \E r \in ClaimRequest : ContinueClaim(r) \/ FailClaim(r)
  BY <1>2, SettleContinue
<1>3. CASE EvictCopy \/ UNCHANGED claimVars
  <2>1. UNCHANGED <<claim, approvalRow, claimPc, claimCall, claimHeld, disturbed>>
    BY <1>3 DEF EvictCopy, claimVars
  <2> QED BY <2>1 DEF SettleInv, ReadWell, PendingShown, DecidedShown, DelegatedWith,
      NoneCarries, IsDecided
<1> QED BY <1>1, <1>2, <1>3 DEF ClaimsNext

LEMMA SettledAlways == ClaimsSpec => []SettleInv
<1>1. ClaimsInit => KeptInv /\ SettleInv
  BY DEF ClaimsInit, KeptInv, Careful, CopyBehind, IsDecided, ClaimInProgress,
     SettleInv, ReadWell, PendingShown, DecidedShown
<1>2. ClaimsInv /\ KeptInv /\ SettleInv /\ [ClaimsNext]_claimVars => (KeptInv /\ SettleInv)'
  BY KeptStep, SettleStep
<1> QED BY <1>1, <1>2, ClaimsInductive, PTL DEF ClaimsSpec

(* PendingShowsClaim: when no request is in progress, the row of an        *)
(* approval that is pending has its claim's amount, or the amount of the   *)
(* copy that a delegation loaded and saved over it, unless requests        *)
(* overlapped or one failed.  Nothing is said of an approver's copy.       *)
THEOREM PendingAlwaysShowsClaim == ClaimsSpec => []PendingShowsClaim
<1>1. SettleInv => PendingShowsClaim
  <2> SUFFICES ASSUME SettleInv, ClaimsAtRest, ~disturbed, approvalRow # NoRow,
                      approvalRow.status = "pending"
               PROVE  approvalRow.amount = claim.amount \/ DelegatedWith(approvalRow.amount)
    BY DEF PendingShowsClaim
  <2> QED BY DEF SettleInv, PendingShown, ClaimsAtRest, ClaimInProgress
<1> QED BY <1>1, SettledAlways, PTL

(* OutcomesAgree: when no request is in progress, a claim has the outcome  *)
(* its approval was decided with, unless an update carried a status,       *)
(* requests overlapped or one failed.                                      *)
THEOREM OutcomesAlwaysAgree == ClaimsSpec => []OutcomesAgree
<1>1. SettleInv => OutcomesAgree
  <2> SUFFICES ASSUME SettleInv, ClaimsAtRest, ~disturbed, IsDecided, NoneCarries
               PROVE  claim.status = ToldOf(approvalRow.status)
    BY DEF OutcomesAgree, NoneCarries, IsDecided, ToldOf
  <2> QED BY DEF SettleInv, DecidedShown, ClaimsAtRest, ClaimInProgress
<1> QED BY <1>1, SettledAlways, PTL

-----------------------------------------------------------------------------
(***************************************************************************)
(* Quotations.                                                             *)
(***************************************************************************)
QuoteCallRecord == [pc: QuotePC, status: OrderStatus \cup {NoTarget},
                    token: BOOLEAN, read: Nat]

(* Nothing makes a quotation "pending" or "inprogress", which the table    *)
(* would let pass to fulfilment without an approval.                       *)
Unused == {"pending", "inprogress"}

NeedsApproval == Fulfilment \cup {"approved"}

(* A call that is to write a status of fulfilment has read one that needed *)
(* an approval.                                                            *)
ApprovedFirst ==
    /\ quotation.status \notin Unused
    /\ quotation.status \in NeedsApproval => approvals > 0
    /\ \A u \in QuotationUser :
         /\ quoteCall[u].status \notin Unused
         /\ quoteCall[u].status \in Fulfilment => approvals > 0
         /\ quoteCall[u].pc \notin {"idle", "editing"} => quoteCall[u].status \in OrderStatus

(* The only call in progress, and what it has done about the sale.         *)
SaleInStep(u) ==
    LET c == quoteCall[u]
    IN  /\ c.pc \in {"counting", "selling"} => c.status = "approved"
        /\ c.pc \in {"counting", "selling"} /\ c.token => sold + 1 = approvals
        /\ c.pc \in {"counting", "selling"} /\ ~c.token => sold = approvals
        /\ c.pc = "selling" => c.read = sold
        /\ c.pc = "updating" /\ c.status = "approved" /\ ~c.token
             => sold = approvals + 1
        /\ c.pc = "updating" /\ (c.status # "approved" \/ c.token) => sold = approvals
        /\ c.pc = "editing" => sold = approvals

OneCall ==
    /\ \A u, v \in QuotationUser : ~At(u, "idle") /\ ~At(v, "idle") => u = v
    /\ (\A u \in QuotationUser : At(u, "idle")) => sold = approvals
    /\ \A u \in QuotationUser : SaleInStep(u)

QuoteInv == QuotationsTypeOK /\ ApprovedFirst /\ (~overlaps => OneCall)

-----------------------------------------------------------------------------
(* The table leads to fulfilment from an approval, or from fulfilment.     *)
LEMMA TableNeedsApproval ==
    ASSUME NEW s \in OrderStatus \ Unused, NEW t \in Transitions(s)
    PROVE  t \notin Unused /\ (t \in Fulfilment => s \in NeedsApproval)
BY DEF Transitions, OrderStatus, Unused, NeedsApproval, Fulfilment

LEMMA IdleIsCall == Idle \in QuoteCallRecord /\ Idle.pc = "idle" /\ Idle.status = NoTarget
<1>1. "idle" \in QuotePC BY DEF QuotePC
<1> QED BY <1>1 DEF Idle, QuoteCallRecord

LEMMA NoTargetIsNone == NoTarget \notin Unused /\ NoTarget \notin NeedsApproval
BY QuotationsAssumption DEF OrderStatus, Unused, NeedsApproval, Fulfilment

LEMMA QuoteInitInv == QuotationsInit => QuoteInv
<1> SUFFICES ASSUME QuotationsInit PROVE QuoteInv OBVIOUS
<1>1. PICK s \in {"draft", "pending_internal"} : quotation = [status |-> s, items |-> 0]
  BY DEF QuotationsInit
<1>2. /\ approvals = 0 /\ sold = 0 /\ overlaps = FALSE
      /\ quoteCall = [u \in QuotationUser |-> Idle]
  BY DEF QuotationsInit
<1>3. \A u \in QuotationUser : quoteCall[u] = Idle BY <1>2
<1>4. s \in OrderStatus BY DEF OrderStatus
<1>5. quotation \in [status: OrderStatus, items: {0, 1}] BY <1>1, <1>4
<1>6. quoteCall \in [QuotationUser -> QuoteCallRecord] BY <1>2, IdleIsCall
<1>7. overlaps \in BOOLEAN BY <1>2
<1>8. QuotationsTypeOK BY <1>2, <1>5, <1>6, <1>7 DEF QuotationsTypeOK, QuoteCallRecord
<1>9. ApprovedFirst
  <2>1. quotation.status = s BY <1>1
  <2>2. s \notin Unused /\ s \notin NeedsApproval
    BY DEF Unused, NeedsApproval, Fulfilment
  <2> QED BY <1>3, <2>1, <2>2, IdleIsCall, NoTargetIsNone DEF ApprovedFirst, NeedsApproval
<1>10. OneCall BY <1>2, <1>3, IdleIsCall DEF OneCall, SaleInStep, At
<1> QED BY <1>8, <1>9, <1>10 DEF QuoteInv
(* StartCall keeps everything: the new call is the only one, or overlaps.  *)
LEMMA StartKeeps ==
    ASSUME QuoteInv, NEW u \in QuotationUser,
           NEW p \in {"counting", "updating", "editing"},
           NEW s \in OrderStatus \cup {NoTarget}, NEW token \in BOOLEAN,
           StartCall(u, p, s, token),
           s \notin Unused, s \in Fulfilment => approvals > 0,
           p = "counting" => s = "approved" /\ ~token,
           p = "updating" => ~(s = "approved" /\ ~token),
           p # "editing" => s \in OrderStatus
    PROVE  QuoteInv'
<1> DEFINE new == [pc |-> p, status |-> s, token |-> token, read |-> 0]
<1>1. /\ UNCHANGED <<quotation, approvals, sold>>
      /\ quoteCall' = [quoteCall EXCEPT ![u] = new]
      /\ overlaps' = (overlaps \/ Busy # {}) /\ At(u, "idle")
  BY DEF StartCall
<1>2. p \in QuotePC BY DEF QuotePC
<1>3. /\ new \in QuoteCallRecord /\ new.pc = p /\ new.status = s /\ new.token = token
  BY <1>2 DEF QuoteCallRecord
<1> HIDE DEF new
<1>4. QuotationsTypeOK BY DEF QuoteInv
<1>5. quoteCall \in [QuotationUser -> QuoteCallRecord]
  BY <1>4 DEF QuotationsTypeOK, QuoteCallRecord
<1>6. /\ quoteCall' \in [QuotationUser -> QuoteCallRecord]
      /\ quoteCall'[u] = new
      /\ \A v \in QuotationUser \ {u} : quoteCall'[v] = quoteCall[v]
  BY <1>1, <1>3, <1>5
<1>7. overlaps' \in BOOLEAN BY <1>1, <1>4 DEF QuotationsTypeOK
<1>8. QuotationsTypeOK' BY <1>1, <1>4, <1>6, <1>7 DEF QuotationsTypeOK, QuoteCallRecord
<1>9. ApprovedFirst'
  <2>1. ApprovedFirst BY DEF QuoteInv
  <2> QED BY <1>1, <1>3, <1>6, <2>1 DEF ApprovedFirst
<1>10. ~overlaps' => OneCall'
  <2>1. SUFFICES ASSUME ~overlaps' PROVE OneCall' OBVIOUS
  <2>2. ~overlaps /\ Busy = {} BY <1>1, <2>1
  <2>3. \A v \in QuotationUser : quoteCall[v] = Idle BY <2>2 DEF Busy
  <2>4. \A v \in QuotationUser : At(v, "idle") BY <2>3, IdleIsCall DEF At
  <2>5. sold = approvals BY <2>2, <2>4 DEF QuoteInv, OneCall
  <2>6. \A v \in QuotationUser \ {u} : quoteCall'[v].pc = "idle"
    BY <1>6, <2>3, IdleIsCall
  <2>7. \A v \in QuotationUser \ {u} : SaleInStep(v)' BY <2>6 DEF SaleInStep
  <2>8. SaleInStep(u)'
    BY <1>1, <1>3, <1>6, <2>5 DEF SaleInStep
  <2>9. \A v \in QuotationUser : SaleInStep(v)' BY <2>7, <2>8
  <2>10. quoteCall'[u].pc # "idle" BY <1>3, <1>6
  <2> QED BY <2>6, <2>9, <2>10 DEF OneCall, At
<1> QED BY <1>8, <1>9, <1>10 DEF QuoteInv

LEMMA QuoteBeginKeeps ==
    ASSUME QuoteInv, NEW u \in QuotationUser,
           RequestStatus(u) \/ Review(u) \/ Send(u) \/ Edit(u)
    PROVE  QuoteInv'
<1>1. ApprovedFirst /\ quotation.status \in OrderStatus
  BY DEF QuoteInv, QuotationsTypeOK
<1>2. CASE RequestStatus(u)
  <2>1. PICK s \in Targets \cap Transitions(quotation.status) :
          StartCall(u, IF s = "approved" THEN "counting" ELSE "updating", s, FALSE)
    BY <1>2 DEF RequestStatus
  <2>2. s \in OrderStatus BY <2>1, QuotationsAssumption
  <2>3. s \notin Unused /\ (s \in Fulfilment => quotation.status \in NeedsApproval)
    BY <1>1, <2>1, TableNeedsApproval DEF ApprovedFirst
  <2>4. s \in Fulfilment => approvals > 0 BY <1>1, <2>3 DEF ApprovedFirst
  <2>5. CASE s = "approved"
    BY <2>1, <2>2, <2>3, <2>4, <2>5, StartKeeps
  <2>6. CASE s # "approved"
    BY <2>1, <2>2, <2>3, <2>4, <2>6, StartKeeps
  <2> QED BY <2>5, <2>6
<1>3. CASE Review(u)
  <2>1. PICK s \in {"approved", "rejected", "negotiation"} :
          StartCall(u, "updating", s, TRUE)
    BY <1>3 DEF Review
  <2>2. s \in OrderStatus /\ s \notin Unused /\ s \notin Fulfilment
    BY DEF OrderStatus, Unused, Fulfilment
  <2> QED BY <2>1, <2>2, StartKeeps
<1>4. CASE Send(u)
  <2>1. StartCall(u, "updating", "pending_client", FALSE) BY <1>4 DEF Send
  <2>2. /\ "pending_client" \in OrderStatus /\ "pending_client" \notin Unused
        /\ "pending_client" \notin Fulfilment
    BY DEF OrderStatus, Unused, Fulfilment
  <2> QED BY <2>1, <2>2, StartKeeps
<1>5. CASE Edit(u)
  <2>1. StartCall(u, "editing", NoTarget, TRUE)
    BY <1>5 DEF Edit
  <2> QED BY <2>1, NoTargetIsNone, StartKeeps DEF NeedsApproval
<1> QED BY <1>2, <1>3, <1>4, <1>5

(* What GoTo does to the call of u, which keeps its status and its token,  *)
(* or ends.                                                                *)
LEMMA GoToMoves ==
    ASSUME QuotationsTypeOK, NEW u \in QuotationUser, NEW p \in QuotePC, GoTo(u, p)
    PROVE  /\ quoteCall' \in [QuotationUser -> QuoteCallRecord]
           /\ \A v \in QuotationUser \ {u} : quoteCall'[v] = quoteCall[v]
           /\ quoteCall'[u].pc = p
           /\ quoteCall'[u].status \in {quoteCall[u].status, NoTarget}
           /\ p = "idle" => quoteCall'[u] = Idle
           /\ p # "idle" => /\ quoteCall'[u].status = quoteCall[u].status
                            /\ quoteCall'[u].token = quoteCall[u].token
<1> DEFINE moved == [quoteCall[u] EXCEPT !.pc = p]
<1>1. quoteCall \in [QuotationUser -> QuoteCallRecord]
  BY DEF QuotationsTypeOK, QuoteCallRecord
<1>2. /\ moved \in QuoteCallRecord /\ moved.pc = p /\ moved.status = quoteCall[u].status
      /\ moved.token = quoteCall[u].token
  BY <1>1 DEF QuoteCallRecord
<1>3. quoteCall' = [quoteCall EXCEPT ![u] = IF p = "idle" THEN Idle ELSE moved]
  BY DEF GoTo
<1> HIDE DEF moved
<1>4. CASE p = "idle" BY <1>1, <1>3, <1>4, IdleIsCall
<1>5. CASE p # "idle" BY <1>1, <1>2, <1>3, <1>5
<1> QED BY <1>4, <1>5
(* While no calls overlap, the others are idle when u moves. *)
LEMMA OneCallMoves ==
    ASSUME OneCall, NEW u \in QuotationUser, ~At(u, "idle"),
           \A v \in QuotationUser \ {u} : quoteCall'[v] = quoteCall[v],
           SaleInStep(u)', quoteCall'[u].pc = "idle" => sold' = approvals'
    PROVE  OneCall'
<1>1. \A v \in QuotationUser \ {u} : quoteCall'[v].pc = "idle" BY DEF OneCall, At
<1>2. \A v \in QuotationUser \ {u} : SaleInStep(v)' BY <1>1 DEF SaleInStep
<1>3. \A v \in QuotationUser : SaleInStep(v)' BY <1>2
<1> QED BY <1>1, <1>3 DEF OneCall, At

LEMMA SaveEditKeeps ==
    ASSUME QuoteInv, NEW u \in QuotationUser, SaveEdit(u) PROVE QuoteInv'
<1>1. /\ quotation' = [quotation EXCEPT !.items = 1 - @] /\ GoTo(u, "idle")
      /\ UNCHANGED <<approvals, sold, overlaps>> /\ quoteCall[u].pc = "editing"
  BY DEF SaveEdit, At
<1>2. QuotationsTypeOK /\ ApprovedFirst /\ "idle" \in QuotePC BY DEF QuoteInv, QuotePC
<1>3. /\ quoteCall' \in [QuotationUser -> QuoteCallRecord]
      /\ \A v \in QuotationUser \ {u} : quoteCall'[v] = quoteCall[v]
      /\ quoteCall'[u] = Idle
  BY <1>1, <1>2, GoToMoves
<1>4. /\ quotation \in [status: OrderStatus, items: {0, 1}]
      /\ quotation.items \in {0, 1}
  BY <1>2 DEF QuotationsTypeOK
<1>5. 1 - quotation.items \in {0, 1} BY <1>4
<1>6. quotation' \in [status: OrderStatus, items: {0, 1}]
      /\ quotation'.status = quotation.status
  BY <1>1, <1>4, <1>5
<1>7. QuotationsTypeOK' BY <1>1, <1>2, <1>3, <1>6 DEF QuotationsTypeOK, QuoteCallRecord
<1>8. ApprovedFirst'
  BY <1>1, <1>2, <1>3, <1>6, IdleIsCall, NoTargetIsNone DEF ApprovedFirst, NeedsApproval
<1>9. ~overlaps' => OneCall'
  <2>1. SUFFICES ASSUME ~overlaps PROVE OneCall' BY <1>1
  <2>2. OneCall /\ sold = approvals BY <1>1, <2>1 DEF QuoteInv, OneCall, SaleInStep
  <2>3. SaleInStep(u)' BY <1>3, IdleIsCall DEF SaleInStep
  <2>4. ~At(u, "idle") BY <1>1 DEF At
  <2> QED BY <1>1, <1>3, <2>2, <2>3, <2>4, OneCallMoves
<1> QED BY <1>7, <1>8, <1>9 DEF QuoteInv

LEMMA UpdateStatusKeeps ==
    ASSUME QuoteInv, NEW u \in QuotationUser, UpdateStatus(u) PROVE QuoteInv'
<1> DEFINE c == quoteCall[u]
           p == AfterUpdate(c)
<1>1. /\ quotation' = [quotation EXCEPT !.status = c.status]
      /\ approvals' = IF c.status = "approved" THEN approvals + 1 ELSE approvals
      /\ GoTo(u, p) /\ UNCHANGED <<sold, overlaps>> /\ c.pc = "updating"
  BY DEF UpdateStatus, At
<1>2. QuotationsTypeOK /\ ApprovedFirst BY DEF QuoteInv
<1>3. /\ p \in QuotePC
      /\ p = "counting" => c.token /\ c.status = "approved"
      /\ p # "counting" => p = "idle" /\ (c.status # "approved" \/ ~c.token)
  BY DEF AfterUpdate, QuotePC
<1> HIDE DEF p
<1>4. /\ quoteCall' \in [QuotationUser -> QuoteCallRecord]
      /\ \A v \in QuotationUser \ {u} : quoteCall'[v] = quoteCall[v]
      /\ quoteCall'[u].pc = p
      /\ quoteCall'[u].status \in {c.status, NoTarget}
      /\ p = "idle" => quoteCall'[u] = Idle
      /\ p # "idle" => /\ quoteCall'[u].status = c.status
                       /\ quoteCall'[u].token = c.token
  BY <1>1, <1>2, <1>3, GoToMoves
<1>5. c.status \in OrderStatus BY <1>1, <1>2 DEF ApprovedFirst
<1>6. /\ quotation' \in [status: OrderStatus, items: {0, 1}]
      /\ quotation'.status = c.status /\ quotation'.items = quotation.items
  BY <1>1, <1>2, <1>5 DEF QuotationsTypeOK
<1>7. approvals \in Nat /\ approvals' \in Nat /\ approvals' >= approvals
  BY <1>1, <1>2 DEF QuotationsTypeOK
<1>8. QuotationsTypeOK'
  BY <1>1, <1>2, <1>4, <1>6, <1>7 DEF QuotationsTypeOK, QuoteCallRecord
<1>9. ApprovedFirst'
  <2>1. quotation'.status \in NeedsApproval => approvals' > 0
    BY <1>1, <1>2, <1>6, <1>7 DEF ApprovedFirst, NeedsApproval
  <2>2. \A v \in QuotationUser :
          /\ quoteCall'[v].status \notin Unused
          /\ quoteCall'[v].status \in Fulfilment => approvals' > 0
    BY <1>2, <1>4, <1>7, NoTargetIsNone DEF ApprovedFirst, NeedsApproval
  <2>3. \A v \in QuotationUser :
          quoteCall'[v].pc \notin {"idle", "editing"} => quoteCall'[v].status \in OrderStatus
    BY <1>2, <1>3, <1>4, <1>5 DEF ApprovedFirst
  <2> QED BY <1>2, <1>6, <2>1, <2>2, <2>3 DEF ApprovedFirst
<1>10. ~overlaps' => OneCall'
  <2>1. SUFFICES ASSUME ~overlaps PROVE OneCall' BY <1>1
  <2>2. OneCall /\ SaleInStep(u) BY <2>1 DEF QuoteInv, OneCall
  <2>3. /\ c.status = "approved" /\ ~c.token => sold = approvals + 1
        /\ c.status # "approved" \/ c.token => sold = approvals
    BY <1>1, <2>2 DEF SaleInStep
  <2>4. SaleInStep(u)'
    BY <1>1, <1>3, <1>4, <1>7, <2>3 DEF SaleInStep
  <2>5. quoteCall'[u].pc = "idle" => sold' = approvals'
    BY <1>1, <1>3, <1>4, <1>7, <2>3
  <2>6. ~At(u, "idle") BY <1>1 DEF At
  <2> QED BY <1>4, <2>2, <2>4, <2>5, <2>6, OneCallMoves
<1> QED BY <1>8, <1>9, <1>10 DEF QuoteInv

(* A step in which a call moves on and no status is written. *)
LEMMA CallMovesKeeps ==
    ASSUME QuoteInv, NEW u \in QuotationUser, ~At(u, "idle"),
           UNCHANGED <<quotation, approvals>>, sold' \in Nat, overlaps' \in BOOLEAN,
           quoteCall' \in [QuotationUser -> QuoteCallRecord],
           \A v \in QuotationUser \ {u} : quoteCall'[v] = quoteCall[v],
           quoteCall'[u].status \in {quoteCall[u].status, NoTarget},
           \/ quoteCall'[u].pc = "idle"
           \/ quoteCall'[u].status = quoteCall[u].status /\ quoteCall[u].pc # "editing",
           ~overlaps' => /\ ~overlaps
                         /\ SaleInStep(u)'
                         /\ quoteCall'[u].pc = "idle" => sold' = approvals
    PROVE  QuoteInv'
<1>1. QuotationsTypeOK /\ ApprovedFirst BY DEF QuoteInv
<1>2. QuotationsTypeOK' BY <1>1 DEF QuotationsTypeOK, QuoteCallRecord
<1>3. ApprovedFirst'
  BY <1>1, NoTargetIsNone DEF ApprovedFirst, NeedsApproval, At
<1>4. ~overlaps' => OneCall' BY OneCallMoves DEF QuoteInv
<1> QED BY <1>2, <1>3, <1>4 DEF QuoteInv

LEMMA SaleKeeps ==
    ASSUME QuoteInv, NEW u \in QuotationUser, ReadSales(u) \/ RecordSale(u)
    PROVE  QuoteInv'
<1> DEFINE c == quoteCall[u]
<1>1. /\ QuotationsTypeOK
      /\ quoteCall \in [QuotationUser -> QuoteCallRecord] /\ sold \in Nat
      /\ approvals \in Nat /\ overlaps \in BOOLEAN
  BY DEF QuoteInv, QuotationsTypeOK, QuoteCallRecord
<1>2. ~overlaps => SaleInStep(u) BY DEF QuoteInv, OneCall
<1>3. CASE ReadSales(u)
  <2> DEFINE counted == [[c EXCEPT !.pc = "selling"] EXCEPT !.read = sold]
  <2>1. /\ c.pc = "counting" /\ UNCHANGED <<quotation, approvals, sold, overlaps>>
        /\ quoteCall' = [quoteCall EXCEPT ![u].pc = "selling", ![u].read = sold]
    BY <1>3 DEF ReadSales, At
  <2>2. "selling" \in QuotePC BY DEF QuotePC
  <2>3. /\ counted \in QuoteCallRecord /\ counted.pc = "selling" /\ counted.read = sold
        /\ counted.status = c.status /\ counted.token = c.token
    BY <1>1, <2>2 DEF QuoteCallRecord
  <2>4. quoteCall' = [quoteCall EXCEPT ![u] = counted] BY <1>1, <2>1
  <2> HIDE DEF counted
  <2>5. /\ quoteCall' \in [QuotationUser -> QuoteCallRecord] /\ quoteCall'[u] = counted
        /\ \A v \in QuotationUser \ {u} : quoteCall'[v] = quoteCall[v]
    BY <1>1, <2>3, <2>4
  <2>6. ~overlaps' => ~overlaps /\ SaleInStep(u)'
    BY <1>2, <2>1, <2>3, <2>5 DEF SaleInStep
  <2>7. /\ ~At(u, "idle") /\ c.pc # "editing" /\ quoteCall'[u].pc # "idle"
        /\ quoteCall'[u].status = c.status
    BY <2>1, <2>3, <2>5 DEF At
  <2> QED BY <1>1, <2>1, <2>5, <2>6, <2>7, CallMovesKeeps
<1>4. CASE RecordSale(u)
  <2> DEFINE p == AfterSale(c)
  <2>1. /\ c.pc = "selling" /\ UNCHANGED <<quotation, approvals, overlaps>>
        /\ sold' = c.read + 1 /\ GoTo(u, p)
    BY <1>4 DEF RecordSale, At
  <2>2. p \in QuotePC /\ p = IF c.token THEN "idle" ELSE "updating"
    BY DEF AfterSale, QuotePC
  <2> HIDE DEF p
  <2>3. sold' \in Nat BY <1>1, <2>1 DEF QuoteCallRecord
  <2>4. /\ quoteCall' \in [QuotationUser -> QuoteCallRecord]
        /\ \A v \in QuotationUser \ {u} : quoteCall'[v] = quoteCall[v]
        /\ quoteCall'[u].pc = p
        /\ quoteCall'[u].status \in {c.status, NoTarget}
        /\ p # "idle" => /\ quoteCall'[u].status = c.status
                         /\ quoteCall'[u].token = c.token
    BY <1>1, <2>1, <2>2, GoToMoves
  <2>5. ~overlaps' => /\ ~overlaps
                      /\ SaleInStep(u)'
                      /\ quoteCall'[u].pc = "idle" => sold' = approvals
    <3>1. SUFFICES ASSUME ~overlaps
                   PROVE  /\ SaleInStep(u)'
                          /\ quoteCall'[u].pc = "idle" => sold' = approvals
      BY <2>1
    <3>2. /\ c.status = "approved" /\ c.read = sold
          /\ c.token => sold + 1 = approvals
          /\ ~c.token => sold = approvals
      BY <1>2, <2>1, <3>1 DEF SaleInStep
    <3> QED BY <1>1, <2>1, <2>2, <2>4, <3>2 DEF SaleInStep
  <2>6. ~At(u, "idle") /\ c.pc # "editing" BY <2>1 DEF At
  <2>7. overlaps' \in BOOLEAN BY <1>1, <2>1
  <2> QED BY <2>1, <2>3, <2>4, <2>5, <2>6, <2>7, CallMovesKeeps
<1> QED BY <1>3, <1>4

LEMMA QuoteFailKeeps ==
    ASSUME QuoteInv, NEW u \in QuotationUser, FailSale(u) \/ FailUpdate(u)
    PROVE  QuoteInv'
<1>1. QuotationsTypeOK /\ ApprovedFirst BY DEF QuoteInv
<1>2. PICK p \in {"idle", "updating"} :
        GoTo(u, p) /\ (p = "updating" => quoteCall[u].pc \notin {"idle", "editing"})
  BY DEF FailSale, FailUpdate, AfterSale, At
<1>3. overlaps' = TRUE /\ UNCHANGED <<quotation, approvals, sold>>
  BY DEF FailSale, FailUpdate
<1>4. p \in QuotePC BY DEF QuotePC
<1>5. /\ quoteCall' \in [QuotationUser -> QuoteCallRecord]
      /\ \A v \in QuotationUser \ {u} : quoteCall'[v] = quoteCall[v]
      /\ quoteCall'[u].pc = p
      /\ quoteCall'[u].status \in {quoteCall[u].status, NoTarget}
      /\ p # "idle" => quoteCall'[u].status = quoteCall[u].status
  BY <1>1, <1>2, <1>4, GoToMoves
<1>6. overlaps' \in BOOLEAN BY <1>3
<1>7. QuotationsTypeOK' BY <1>1, <1>3, <1>5, <1>6 DEF QuotationsTypeOK, QuoteCallRecord
<1>8. ApprovedFirst'
  BY <1>1, <1>2, <1>3, <1>5, NoTargetIsNone DEF ApprovedFirst, NeedsApproval
<1>9. ~overlaps' => OneCall' BY <1>3
<1> QED BY <1>7, <1>8, <1>9 DEF QuoteInv

LEMMA QuoteStepInv == QuoteInv /\ [QuotationsNext]_quoteVars => QuoteInv'
<1> SUFFICES ASSUME QuoteInv, [QuotationsNext]_quoteVars PROVE QuoteInv' OBVIOUS
<1>1. CASE QuotationsNext
  BY <1>1, QuoteBeginKeeps, SaveEditKeeps, UpdateStatusKeeps, SaleKeeps, QuoteFailKeeps
  DEF QuotationsNext, QuotationStep
<1>2. CASE UNCHANGED quoteVars
  BY <1>2 DEF quoteVars, QuoteInv, QuotationsTypeOK, ApprovedFirst, OneCall, SaleInStep, At
<1> QED BY <1>1, <1>2

(* The quotation's rows and calls keep their invariant. *)
THEOREM QuotationsInductive == QuotationsSpec => []QuoteInv
BY QuoteInitInv, QuoteStepInv, PTL DEF QuotationsSpec

(* Goods are sourced, packed, paid for or delivered only on a quotation    *)
(* that was approved at some time, however many users overlap.             *)
THEOREM AlwaysApprovedFirst == QuotationsSpec => []FulfilledWasApproved
<1>1. QuoteInv => FulfilledWasApproved
  BY DEF QuoteInv, ApprovedFirst, NeedsApproval, FulfilledWasApproved
<1> QED BY <1>1, QuotationsInductive, PTL

(* Each approval is one sale, unless calls overlap or one fails. *)
THEOREM OneSalePerApproval == QuotationsSpec => []SalesMatchApprovals
<1>1. QuoteInv => SalesMatchApprovals
  <2>1. SUFFICES ASSUME QuoteInv, Busy = {}, ~overlaps PROVE sold = approvals
    BY DEF SalesMatchApprovals
  <2>2. \A u \in QuotationUser : At(u, "idle") BY <2>1, IdleIsCall DEF Busy, At
  <2> QED BY <2>1, <2>2 DEF QuoteInv, OneCall
<1> QED BY <1>1, QuotationsInductive, PTL
-----------------------------------------------------------------------------
(***************************************************************************)
(* The queues.                                                             *)
(***************************************************************************)
EventsInv ==
    /\ EventsTypeOK
    /\ NothingLost
    /\ MailedIsStored
    /\ \A q \in Quote, v \in Via : handler[q][v] = "mailing" => q \in pdfURL

LEMMA EventsInitInv == EventsInit => EventsInv
<1> SUFFICES ASSUME EventsInit PROVE EventsInv OBVIOUS
<1>1. /\ placed = {} /\ intact = TRUE /\ pdfURL = {}
      /\ queue = [p \in EventPriority |-> <<>>]
      /\ accepted = [p \in EventPriority |-> <<>>]
      /\ emitted = [p \in EventPriority |-> <<>>]
      /\ handler = [q \in Quote |-> [v \in Via |-> "none"]]
  BY DEF EventsInit
<1>2. <<>> \in Seq(QueuedEvent) /\ <<>> \o <<>> = <<>> /\ DOMAIN <<>> = {} OBVIOUS
<1>3. \A p \in EventPriority : queue[p] = <<>> /\ accepted[p] = <<>> /\ emitted[p] = <<>>
  BY <1>1
<1>4. [v \in Via |-> "none"] \in [Via -> HandlerPC] BY DEF HandlerPC
<1>5. /\ queue \in [EventPriority -> Seq(QueuedEvent)]
      /\ accepted \in [EventPriority -> Seq(QueuedEvent)]
      /\ emitted \in [EventPriority -> Seq(QueuedEvent)]
  BY <1>1, <1>2
<1>6. handler \in [Quote -> [Via -> HandlerPC]] BY <1>1, <1>4
<1>7. intact \in BOOLEAN BY <1>1
<1>8. EventsTypeOK BY <1>1, <1>5, <1>6, <1>7 DEF EventsTypeOK
<1>9. NothingLost BY <1>2, <1>3 DEF NothingLost
<1>10. "normal" \in EventPriority BY DEF EventPriority
<1>11. MailedIsStored BY <1>2, <1>3, <1>10 DEF MailedIsStored
<1>12. \A q \in Quote, v \in Via : handler[q][v] = "none" BY <1>1
<1> QED BY <1>8, <1>9, <1>11, <1>12 DEF EventsInv

(* A queue grows at its end as what it has accepted does. *)
LEMMA GrowsAlike ==
    ASSUME NEW a \in Seq(QueuedEvent), NEW e \in Seq(QueuedEvent),
           NEW s \in Seq(QueuedEvent), NEW t \in Seq(QueuedEvent), a = e \o s
    PROVE  a \o t = e \o (s \o t)
BY ConcatAssociative

LEMMA AppendsAlike ==
    ASSUME NEW a \in Seq(QueuedEvent), NEW e \in Seq(QueuedEvent),
           NEW s \in Seq(QueuedEvent), NEW x \in QueuedEvent, a = e \o s
    PROVE  Append(a, x) = e \o Append(s, x)
<1>1. Append(a, x) = a \o <<x>> /\ Append(s, x) = s \o <<x>> BY AppendIsConcat
<1>2. <<x>> \in Seq(QueuedEvent) OBVIOUS
<1> QED BY <1>1, <1>2, ConcatAssociative

(* The batch and the rest are the queue. *)
LEMMA BatchAndRest ==
    ASSUME NEW s \in Seq(QueuedEvent)
    PROVE  /\ Batch(s) \in Seq(QueuedEvent) /\ Rest(s) \in Seq(QueuedEvent)
           /\ s = Batch(s) \o Rest(s)
<1> DEFINE m == Least(BatchSize, Len(s))
<1>1. Len(s) \in Nat /\ m \in 0 .. Len(s)
  BY EventQueueAssumption, LenProperties DEF Least
<1>2. Batch(s) = SubSeq(s, 1, m) /\ Rest(s) = SubSeq(s, m + 1, Len(s)) BY DEF Batch, Rest
<1> HIDE DEF m
<1>3. SubSeq(s, 1, m) \o SubSeq(s, m + 1, Len(s)) = SubSeq(s, 1, Len(s))
  <2>1. /\ 1 \in 1 .. Len(s) + 1 /\ m \in 1 - 1 .. Len(s) /\ Len(s) \in m .. Len(s)
    BY <1>1
  <2> QED BY <2>1, ConcatAdjacentSubSeq
<1>4. SubSeq(s, 1, Len(s)) = s BY SubSeqFull
<1>5. \A i \in 1 .. Len(s) : s[i] \in QueuedEvent BY ElementOfSeq
<1>6. SubSeq(s, 1, m) \in Seq(QueuedEvent)
  <2>1. m \in Int /\ \A i \in 1 .. m : s[i] \in QueuedEvent BY <1>1, <1>5
  <2> QED BY <2>1, SubSeqProperties
<1>7. SubSeq(s, m + 1, Len(s)) \in Seq(QueuedEvent)
  <2>1. /\ m + 1 \in Int /\ Len(s) \in Int
        /\ \A i \in m + 1 .. Len(s) : s[i] \in QueuedEvent
    BY <1>1, <1>5
  <2> QED BY <2>1, SubSeqProperties
<1> QED BY <1>2, <1>3, <1>4, <1>6, <1>7

LEMMA EventsAreQueued ==
    ASSUME NEW e \in {"target", "pdf", "mail"}, NEW q \in Quote
    PROVE  Event(e, q) \in QueuedEvent /\ Event(e, q).event = e /\ Event(e, q).quote = q
BY DEF Event, QueuedEvent

LEMMA EventTypes ==
    ASSUME EventsInv, NEW p \in EventPriority
    PROVE  /\ queue[p] \in Seq(QueuedEvent) /\ accepted[p] \in Seq(QueuedEvent)
           /\ emitted[p] \in Seq(QueuedEvent)
BY DEF EventsInv, EventsTypeOK
LEMMA PublishKeeps ==
    ASSUME EventsInv, NEW q \in Quote, Publish(q) PROVE EventsInv'
<1> DEFINE target == IF q \in ByStaff THEN <<Event("target", q)>> ELSE <<>>
           pdf == Event("pdf", q)
<1>1. /\ queue \in [EventPriority -> Seq(QueuedEvent)]
      /\ accepted \in [EventPriority -> Seq(QueuedEvent)]
      /\ emitted \in [EventPriority -> Seq(QueuedEvent)]
      /\ handler \in [Quote -> [Via -> HandlerPC]]
      /\ placed \subseteq Quote
  BY DEF EventsInv, EventsTypeOK
<1>2. /\ placed' = placed \cup {q} /\ UNCHANGED <<emitted, intact, pdfURL>>
      /\ queue' = [queue EXCEPT !["normal"] = @ \o target, !["high"] = Append(@, pdf)]
      /\ accepted' = [accepted EXCEPT !["normal"] = @ \o target,
                                      !["high"] = Append(@, pdf)]
      /\ handler' = [handler EXCEPT ![q]["direct"] = "generating"]
  BY DEF Publish
<1>3. Event("target", q) \in QueuedEvent /\ Event("target", q).event = "target"
      /\ pdf \in QueuedEvent
  BY EventsAreQueued
<1>4. target \in Seq(QueuedEvent) /\ \A i \in DOMAIN target : target[i].event # "mail"
  <2>1. CASE q \in ByStaff BY <1>3, <2>1
  <2>2. CASE q \notin ByStaff BY <2>2
  <2> QED BY <2>1, <2>2
<1> HIDE DEF target, pdf
<1>5. EventPriority = {"high", "normal"} BY DEF EventPriority
<1>6. /\ \A p \in EventPriority : /\ queue[p] \in Seq(QueuedEvent)
                                  /\ accepted[p] \in Seq(QueuedEvent)
                                  /\ emitted[p] \in Seq(QueuedEvent)
      /\ "high" \in EventPriority /\ "normal" \in EventPriority
  BY <1>1, <1>5
<1>7. /\ queue'["normal"] = queue["normal"] \o target
      /\ queue'["high"] = Append(queue["high"], pdf)
      /\ accepted'["normal"] = accepted["normal"] \o target
      /\ accepted'["high"] = Append(accepted["high"], pdf)
  BY <1>1, <1>2, <1>5
<1>8. /\ queue["normal"] \o target \in Seq(QueuedEvent)
      /\ Append(queue["high"], pdf) \in Seq(QueuedEvent)
      /\ accepted["normal"] \o target \in Seq(QueuedEvent)
      /\ Append(accepted["high"], pdf) \in Seq(QueuedEvent)
  BY <1>3, <1>4, <1>6
<1>9. queue' \in [EventPriority -> Seq(QueuedEvent)]
      /\ accepted' \in [EventPriority -> Seq(QueuedEvent)]
  BY <1>1, <1>2, <1>6, <1>8
<1>10. handler' \in [Quote -> [Via -> HandlerPC]]
       /\ \A r \in Quote, v \in Via : handler'[r][v] \in {handler[r][v], "generating"}
  <2>1. "generating" \in HandlerPC /\ "direct" \in Via BY DEF HandlerPC, Via
  <2> DEFINE begun == [handler[q] EXCEPT !["direct"] = "generating"]
  <2>2. begun \in [Via -> HandlerPC]
        /\ \A v \in Via : begun[v] \in {handler[q][v], "generating"}
    BY <1>1, <2>1
  <2>3. handler' = [handler EXCEPT ![q] = begun] BY <1>2
  <2> HIDE DEF begun
  <2> QED BY <1>1, <2>2, <2>3
<1>11. EventsTypeOK'
  BY <1>1, <1>2, <1>9, <1>10 DEF EventsInv, EventsTypeOK
<1>12. NothingLost'
  <2>1. SUFFICES ASSUME intact
                 PROVE  /\ accepted'["high"] = emitted["high"] \o queue'["high"]
                        /\ accepted'["normal"] = emitted["normal"] \o queue'["normal"]
    BY <1>2, <1>5 DEF NothingLost
  <2>2. /\ accepted["high"] = emitted["high"] \o queue["high"]
        /\ accepted["normal"] = emitted["normal"] \o queue["normal"]
    BY <1>6, <2>1 DEF EventsInv, NothingLost
  <2>3. Append(accepted["high"], pdf) = emitted["high"] \o Append(queue["high"], pdf)
    <3>1. queue["high"] \in Seq(QueuedEvent) BY <1>6
    <3>2. accepted["high"] \in Seq(QueuedEvent) BY <1>6
    <3>3. emitted["high"] \in Seq(QueuedEvent) BY <1>6
    <3>4. pdf \in QueuedEvent BY <1>3
    <3>5. accepted["high"] = emitted["high"] \o queue["high"] BY <2>2
    <3> QED BY <3>1, <3>2, <3>3, <3>4, <3>5, AppendsAlike, Zenon
  <2>4. accepted["normal"] \o target = emitted["normal"] \o (queue["normal"] \o target)
    <3>1. queue["normal"] \in Seq(QueuedEvent) BY <1>6
    <3>2. accepted["normal"] \in Seq(QueuedEvent) BY <1>6
    <3>3. emitted["normal"] \in Seq(QueuedEvent) BY <1>6
    <3>4. target \in Seq(QueuedEvent) BY <1>4
    <3>5. accepted["normal"] = emitted["normal"] \o queue["normal"] BY <2>2
    <3> QED BY <3>1, <3>2, <3>3, <3>4, <3>5, GrowsAlike, Zenon
  <2> QED BY <1>7, <2>3, <2>4
<1>13. MailedIsStored'
  <2>1. \A i \in DOMAIN accepted["normal"] :
          accepted["normal"][i].event = "mail" => accepted["normal"][i].quote \in pdfURL
    BY DEF EventsInv, MailedIsStored
  <2>2. \A i \in DOMAIN (accepted["normal"] \o target) :
          \/ /\ i \in DOMAIN accepted["normal"]
             /\ (accepted["normal"] \o target)[i] = accepted["normal"][i]
          \/ \E j \in DOMAIN target : (accepted["normal"] \o target)[i] = target[j]
    BY <1>4, <1>6
  <2> DEFINE new == accepted["normal"] \o target
  <2> HIDE DEF new
  <2>3. \A i \in DOMAIN new : new[i].event = "mail" => new[i].quote \in pdfURL
    BY <1>4, <2>1, <2>2 DEF new
  <2>4. accepted'["normal"] = new /\ pdfURL' = pdfURL BY <1>2, <1>7 DEF new
  <2> QED BY <2>3, <2>4 DEF MailedIsStored
<1>14. \A r \in Quote, v \in Via : handler'[r][v] = "mailing" => r \in pdfURL'
  BY <1>2, <1>10 DEF EventsInv
<1> QED BY <1>11, <1>12, <1>13, <1>14 DEF EventsInv

LEMMA TickKeeps == ASSUME EventsInv, Tick PROVE EventsInv'
<1> DEFINE turns == {p \in EventPriority : Turn(p)}
           begun == {Batch(queue["high"])[i].quote : i \in DOMAIN Batch(queue["high"])}
<1>1. /\ queue \in [EventPriority -> Seq(QueuedEvent)]
      /\ accepted \in [EventPriority -> Seq(QueuedEvent)]
      /\ emitted \in [EventPriority -> Seq(QueuedEvent)]
      /\ handler \in [Quote -> [Via -> HandlerPC]]
  BY DEF EventsInv, EventsTypeOK
<1>2. /\ emitted' = [p \in EventPriority |-> IF p \in turns
                                             THEN emitted[p] \o Batch(queue[p])
                                             ELSE emitted[p]]
      /\ queue' = [p \in EventPriority |-> IF p \in turns THEN Rest(queue[p])
                                           ELSE queue[p]]
      /\ handler' = [q \in Quote |-> IF q \in begun
                                     THEN [handler[q] EXCEPT !["queued"] = "generating"]
                                     ELSE handler[q]]
      /\ UNCHANGED <<placed, accepted, intact, pdfURL>>
  BY DEF Tick
<1> HIDE DEF turns, begun
<1>3. \A p \in EventPriority :
        /\ Batch(queue[p]) \in Seq(QueuedEvent) /\ Rest(queue[p]) \in Seq(QueuedEvent)
        /\ queue[p] = Batch(queue[p]) \o Rest(queue[p])
        /\ emitted[p] \o Batch(queue[p]) \in Seq(QueuedEvent)
        /\ emitted[p] \o queue[p] = (emitted[p] \o Batch(queue[p])) \o Rest(queue[p])
  <2> SUFFICES ASSUME NEW p \in EventPriority
               PROVE  /\ Batch(queue[p]) \in Seq(QueuedEvent)
                      /\ Rest(queue[p]) \in Seq(QueuedEvent)
                      /\ queue[p] = Batch(queue[p]) \o Rest(queue[p])
                      /\ emitted[p] \o Batch(queue[p]) \in Seq(QueuedEvent)
                      /\ emitted[p] \o queue[p]
                           = (emitted[p] \o Batch(queue[p])) \o Rest(queue[p])
    OBVIOUS
  <2>1. queue[p] \in Seq(QueuedEvent) /\ emitted[p] \in Seq(QueuedEvent) BY <1>1
  <2>2. /\ Batch(queue[p]) \in Seq(QueuedEvent) /\ Rest(queue[p]) \in Seq(QueuedEvent)
        /\ queue[p] = Batch(queue[p]) \o Rest(queue[p])
    BY <2>1, BatchAndRest
  <2>3. emitted[p] \o Batch(queue[p]) \in Seq(QueuedEvent) BY <2>1, <2>2
  <2>4. \A e, s, b, r \in Seq(QueuedEvent) : s = b \o r => e \o s = (e \o b) \o r
    BY ConcatAssociative
  <2>5. emitted[p] \o queue[p] = (emitted[p] \o Batch(queue[p])) \o Rest(queue[p])
    BY <2>1, <2>2, <2>4, Zenon
  <2> QED BY <2>2, <2>3, <2>5
<1>4. /\ queue' \in [EventPriority -> Seq(QueuedEvent)]
      /\ emitted' \in [EventPriority -> Seq(QueuedEvent)]
  BY <1>1, <1>2, <1>3
<1>5. handler' \in [Quote -> [Via -> HandlerPC]]
      /\ \A q \in Quote, v \in Via : handler'[q][v] \in {handler[q][v], "generating"}
  <2>1. "generating" \in HandlerPC BY DEF HandlerPC
  <2>2. \A q \in Quote :
          /\ [handler[q] EXCEPT !["queued"] = "generating"] \in [Via -> HandlerPC]
          /\ \A v \in Via : [handler[q] EXCEPT !["queued"] = "generating"][v]
                              \in {handler[q][v], "generating"}
    BY <1>1, <2>1
  <2> QED BY <1>1, <1>2, <2>2
<1>6. EventsTypeOK' BY <1>2, <1>4, <1>5 DEF EventsInv, EventsTypeOK
<1>7. NothingLost'
  <2>1. SUFFICES ASSUME intact, NEW p \in EventPriority
                 PROVE  accepted[p] = emitted'[p] \o queue'[p]
    BY <1>2 DEF NothingLost
  <2>2. accepted[p] = emitted[p] \o queue[p] BY <2>1 DEF EventsInv, NothingLost
  <2>3. CASE p \in turns
    <3>1. emitted'[p] = emitted[p] \o Batch(queue[p]) /\ queue'[p] = Rest(queue[p])
      BY <1>2, <2>3
    <3> QED BY <1>3, <2>2, <3>1
  <2>4. CASE p \notin turns BY <1>2, <2>2, <2>4
  <2> QED BY <2>3, <2>4
<1>8. MailedIsStored' BY <1>2 DEF EventsInv, MailedIsStored
<1>9. \A q \in Quote, v \in Via : handler'[q][v] = "mailing" => q \in pdfURL'
  BY <1>2, <1>5 DEF EventsInv
<1> QED BY <1>6, <1>7, <1>8, <1>9 DEF EventsInv

(* A run of the listener moves on. *)
LEMMA BecomesMoves ==
    ASSUME EventsInv, NEW q \in Quote, NEW v \in Via, NEW p \in HandlerPC, Becomes(q, v, p)
    PROVE  /\ handler' \in [Quote -> [Via -> HandlerPC]]
           /\ \A r \in Quote, w \in Via :
                handler'[r][w] = IF r = q /\ w = v THEN p ELSE handler[r][w]
<1>1. handler \in [Quote -> [Via -> HandlerPC]] BY DEF EventsInv, EventsTypeOK
<1> DEFINE moved == [handler[q] EXCEPT ![v] = p]
<1>2. moved \in [Via -> HandlerPC]
      /\ \A w \in Via : moved[w] = IF w = v THEN p ELSE handler[q][w]
  BY <1>1
<1>3. handler' = [handler EXCEPT ![q] = moved] BY DEF Becomes
<1> HIDE DEF moved
<1> QED BY <1>1, <1>2, <1>3

LEMMA HandlerKeeps ==
    ASSUME EventsInv, NEW q \in Quote, NEW v \in Via,
           Generate(q, v) \/ Store(q, v) \/ FailHandler(q, v)
    PROVE  EventsInv'
<1>1. PICK p \in {"storing", "ended", "mailing", "failed"} :
        Becomes(q, v, p) /\ (p = "mailing" => q \in pdfURL')
  BY DEF Generate, Store, FailHandler
<1>2. p \in HandlerPC BY DEF HandlerPC
<1>3. /\ UNCHANGED <<placed, queue, accepted, emitted, intact>>
      /\ pdfURL \subseteq pdfURL' /\ pdfURL' \subseteq pdfURL \cup {q}
  BY DEF Generate, Store, FailHandler
<1>4. /\ handler' \in [Quote -> [Via -> HandlerPC]]
      /\ \A r \in Quote, w \in Via :
           handler'[r][w] = IF r = q /\ w = v THEN p ELSE handler[r][w]
  BY <1>1, <1>2, BecomesMoves
<1>5. EventsTypeOK' BY <1>3, <1>4 DEF EventsInv, EventsTypeOK
<1>6. NothingLost' BY <1>3 DEF EventsInv, NothingLost
<1>7. MailedIsStored' BY <1>3 DEF EventsInv, MailedIsStored
<1>8. \A r \in Quote, w \in Via : handler'[r][w] = "mailing" => r \in pdfURL'
  BY <1>1, <1>3, <1>4 DEF EventsInv
<1> QED BY <1>5, <1>6, <1>7, <1>8 DEF EventsInv

LEMMA QueueMailKeeps ==
    ASSUME EventsInv, NEW q \in Quote, NEW v \in Via, QueueMail(q, v) PROVE EventsInv'
<1> DEFINE mail == Event("mail", q)
<1>1. /\ Becomes(q, v, "ended") /\ handler[q][v] = "mailing"
      /\ UNCHANGED <<placed, emitted, intact, pdfURL>>
      /\ \/ UNCHANGED <<queue, accepted>>
         \/ /\ queue' = [queue EXCEPT !["normal"] = Append(@, mail)]
            /\ accepted' = [accepted EXCEPT !["normal"] = Append(@, mail)]
  BY DEF QueueMail, QueueEvent
<1>2. mail \in QueuedEvent /\ mail.quote = q BY EventsAreQueued
<1> HIDE DEF mail
<1>3. /\ queue \in [EventPriority -> Seq(QueuedEvent)]
      /\ accepted \in [EventPriority -> Seq(QueuedEvent)]
      /\ emitted \in [EventPriority -> Seq(QueuedEvent)]
      /\ "normal" \in EventPriority /\ q \in pdfURL
  BY <1>1 DEF EventsInv, EventsTypeOK, EventPriority
<1>4. "ended" \in HandlerPC BY DEF HandlerPC
<1>5. /\ handler' \in [Quote -> [Via -> HandlerPC]]
      /\ \A r \in Quote, w \in Via :
           handler'[r][w] = IF r = q /\ w = v THEN "ended" ELSE handler[r][w]
  BY <1>1, <1>4, BecomesMoves
<1>6. \A r \in Quote, w \in Via : handler'[r][w] = "mailing" => r \in pdfURL'
  BY <1>1, <1>5 DEF EventsInv
<1>7. CASE UNCHANGED <<queue, accepted>>
  <2>1. EventsTypeOK' BY <1>1, <1>5, <1>7 DEF EventsInv, EventsTypeOK
  <2>2. NothingLost' /\ MailedIsStored'
    BY <1>1, <1>7 DEF EventsInv, NothingLost, MailedIsStored
  <2> QED BY <1>6, <2>1, <2>2 DEF EventsInv
<1>8. CASE /\ queue' = [queue EXCEPT !["normal"] = Append(@, mail)]
           /\ accepted' = [accepted EXCEPT !["normal"] = Append(@, mail)]
  <2>1. /\ queue["normal"] \in Seq(QueuedEvent) /\ accepted["normal"] \in Seq(QueuedEvent)
        /\ emitted["normal"] \in Seq(QueuedEvent)
        /\ Append(queue["normal"], mail) \in Seq(QueuedEvent)
        /\ Append(accepted["normal"], mail) \in Seq(QueuedEvent)
    BY <1>2, <1>3
  <2>2. /\ queue' \in [EventPriority -> Seq(QueuedEvent)]
        /\ accepted' \in [EventPriority -> Seq(QueuedEvent)]
        /\ queue'["normal"] = Append(queue["normal"], mail)
        /\ accepted'["normal"] = Append(accepted["normal"], mail)
        /\ \A p \in EventPriority \ {"normal"} :
             queue'[p] = queue[p] /\ accepted'[p] = accepted[p]
    BY <1>3, <1>8, <2>1
  <2>3. EventsTypeOK' BY <1>1, <1>5, <2>2 DEF EventsInv, EventsTypeOK
  <2>4. NothingLost'
    <3>1. SUFFICES ASSUME intact, NEW p \in EventPriority
                   PROVE  accepted'[p] = emitted[p] \o queue'[p]
      BY <1>1 DEF NothingLost
    <3>2. accepted[p] = emitted[p] \o queue[p] BY <3>1 DEF EventsInv, NothingLost
    <3>3. CASE p = "normal"
      <4>1. accepted["normal"] = emitted["normal"] \o queue["normal"] BY <3>2, <3>3
      <4>2. Append(accepted["normal"], mail)
              = emitted["normal"] \o Append(queue["normal"], mail)
        BY <1>2, <2>1, <4>1, AppendsAlike, Zenon
      <4> QED BY <2>2, <3>3, <4>2
    <3>4. CASE p # "normal" BY <2>2, <3>2, <3>4
    <3> QED BY <3>3, <3>4
  <2>5. MailedIsStored'
    <3>1. \A i \in DOMAIN accepted["normal"] :
            accepted["normal"][i].event = "mail" => accepted["normal"][i].quote \in pdfURL
      BY DEF EventsInv, MailedIsStored
    <3>2. \A i \in DOMAIN Append(accepted["normal"], mail) :
            \/ /\ i \in DOMAIN accepted["normal"]
               /\ Append(accepted["normal"], mail)[i] = accepted["normal"][i]
            \/ Append(accepted["normal"], mail)[i] = mail
      BY <1>2, <2>1
    <3>3. \A i \in DOMAIN accepted'["normal"] :
            accepted'["normal"][i].event = "mail" => accepted'["normal"][i].quote \in pdfURL'
      BY <1>1, <1>2, <1>3, <2>2, <3>1, <3>2
    <3> QED BY <3>3 DEF MailedIsStored
  <2> QED BY <1>6, <2>3, <2>4, <2>5 DEF EventsInv
<1> QED BY <1>1, <1>7, <1>8

LEMMA LossKeeps ==
    ASSUME EventsInv, RestartQueue \/ \E p \in EventPriority : EvictQueue(p)
    PROVE  EventsInv'
<1>1. /\ queue \in [EventPriority -> Seq(QueuedEvent)]
      /\ handler \in [Quote -> [Via -> HandlerPC]]
  BY DEF EventsInv, EventsTypeOK
<1>2. intact' = FALSE /\ UNCHANGED <<placed, accepted, emitted, pdfURL>>
  BY DEF RestartQueue, EvictQueue
<1>3. <<>> \in Seq(QueuedEvent) OBVIOUS
<1>4. queue' \in [EventPriority -> Seq(QueuedEvent)]
  BY <1>1, <1>3 DEF RestartQueue, EvictQueue
<1>5. /\ handler' \in [Quote -> [Via -> HandlerPC]]
      /\ \A q \in Quote, v \in Via : handler'[q][v] \in {handler[q][v], "none", "ended"}
  <2>1. CASE RestartQueue
    <3> DEFINE Kept(q) == [v \in Via |-> IF handler[q][v] = "none" THEN "none" ELSE "ended"]
    <3>1. "none" \in HandlerPC /\ "ended" \in HandlerPC BY DEF HandlerPC
    <3>2. \A q \in Quote : /\ Kept(q) \in [Via -> HandlerPC]
                           /\ \A v \in Via : Kept(q)[v] \in {"none", "ended"}
      BY <3>1
    <3>3. handler' = [q \in Quote |-> Kept(q)] BY <2>1 DEF RestartQueue
    <3> HIDE DEF Kept
    <3> QED BY <3>2, <3>3
  <2>2. CASE \E p \in EventPriority : EvictQueue(p) BY <1>1, <2>2 DEF EvictQueue
  <2> QED BY <2>1, <2>2
<1>6. intact' \in BOOLEAN BY <1>2
<1>7. EventsTypeOK' BY <1>2, <1>4, <1>5, <1>6 DEF EventsInv, EventsTypeOK
<1>8. NothingLost' BY <1>2 DEF NothingLost
<1>9. MailedIsStored' BY <1>2 DEF EventsInv, MailedIsStored
<1>10. \A q \in Quote, v \in Via : handler'[q][v] = "mailing" => q \in pdfURL'
  BY <1>2, <1>5 DEF EventsInv
<1> QED BY <1>7, <1>8, <1>9, <1>10 DEF EventsInv

LEMMA EventsStepInv == EventsInv /\ [EventsNext]_eventVars => EventsInv'
<1> SUFFICES ASSUME EventsInv, [EventsNext]_eventVars PROVE EventsInv' OBVIOUS
<1>1. CASE EventsNext
  BY <1>1, PublishKeeps, TickKeeps, HandlerKeeps, QueueMailKeeps, LossKeeps
  DEF EventsNext, ContinueHandler
<1>2. CASE UNCHANGED eventVars
  BY <1>2 DEF eventVars, EventsInv, EventsTypeOK, NothingLost, MailedIsStored
<1> QED BY <1>1, <1>2

(* The queues and the listener's runs keep their invariant. *)
THEOREM EventsInductive == EventsSpec => []EventsInv
BY EventsInitInv, EventsStepInv, PTL DEF EventsSpec

(* Unless the cache loses a queue, every event is emitted once, in order,  *)
(* or still waits, for any size of the batch.                              *)
THEOREM NothingEverLost == EventsSpec => []NothingLost
<1>1. EventsInv => NothingLost BY DEF EventsInv
<1> QED BY <1>1, EventsInductive, PTL

(* No mail about a PDF is queued before the quotation's row has it.        *)
THEOREM AlwaysStoredFirst == EventsSpec => []MailedIsStored
<1>1. EventsInv => MailedIsStored BY DEF EventsInv
<1> QED BY <1>1, EventsInductive, PTL
=============================================================================
