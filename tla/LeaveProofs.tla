---------------------------- MODULE LeaveProofs ----------------------------
(***************************************************************************)
(* Proofs about Leave, for any leaves, approvals, requests, dates and      *)
(* operations.                                                             *)
(***************************************************************************)
EXTENDS Leave, TLAPS

Working == {"filling", "revoking", "writing"}

(* What a request asks for at each place, and that an approval it has      *)
(* decided was opened.                                                     *)
HoldsOf(r) ==
    /\ pc[r] = "idle" => call[r] = NoCall
    /\ pc[r] \notin {"idle", "done", "failed"} => call[r] # NoCall
    /\ pc[r] \in {"checking", "rejecting"} => call[r].op = "create"
    /\ pc[r] = "resetting" => call[r].op = "update"
    /\ pc[r] \in Working => call[r].op \in OnLeave \ {"create"}
    /\ pc[r] \in {"submitting", "opening"} => call[r].op \in {"create", "update"}
    /\ pc[r] \in {"told", "hearing"} => call[r].op \in {"decide_approve", "decide_reject"}
    /\ pc[r] = "filling" => held[r] \in LeaveStatus
    /\ pc[r] \in Working \cup {"checking", "rejecting", "resetting", "submitting", "opening"}
         => row[call[r].leave] # NoRow
    /\ pc[r] = "hearing" => row[approval[call[r].approval].leave] # NoRow
    /\ (call[r] # NoCall /\ call[r].op \in OnApproval)
            => approval[call[r].approval] # Unopened

Holds == \A r \in Request : HoldsOf(r)

CachedExists == \A l \in Leaves : cache[l] # "none" => row[l] # NoRow

Typed == TypeOK /\ Holds /\ CachedExists

(* No step takes a leave's row away, or gives an approval to another one.  *)
Lasting ==
    /\ \A l \in Leaves : row[l] # NoRow => row'[l] # NoRow
    /\ \A a \in Approval : approval[a] # Unopened =>
          approval'[a] # Unopened /\ approval'[a].leave = approval[a].leave

(* Somebody's decision or update has booked leave k.                       *)
Books(r, k) ==
    /\ Concerns(r, k)
    /\ \/ call[r].op \in {"approve", "decide_approve"}
       \/ call[r].op = "update" /\ call[r].carried \in Booked

BookedHasCause == \A k \in Leaves : row[k].status \in Booked => \E r \in Request : Books(r, k)

(* create() is about to reject a leave only beside one that was booked.    *)
RejectingHasCause ==
    \A r \in Request : pc[r] = "rejecting" =>
      \E k \in Leaves \ {call[r].leave} : \E s \in Request : Books(s, k)

Causes == BookedHasCause /\ RejectingHasCause /\ RejectedHasCause

-----------------------------------------------------------------------------
LEMMA CallTypes ==
    ASSUME NEW q \in Calls
    PROVE  /\ q # NoCall
           /\ q.op \in OnLeave \/ q.op \in OnApproval
           /\ q.op \in OnLeave => /\ q.op \notin OnApproval
                                  /\ q.leave \in Leaves
                                  /\ q.days \in Dates \cup {{}}
                                  /\ q.carried \in Carried \cup {"none"}
                                  /\ q.op = "create" => q.days \in Dates
           /\ q.op \in OnApproval => q.op \notin OnLeave /\ q.approval \in Approval
BY NoCallAssumption DEF Calls, Call, OnLeave, OnApproval

LEMMA RowTypes ==
    /\ NoRow \notin Row
    /\ NoRow.status = "none"
    /\ \A x \in Row : x.status \in LeaveStatus /\ x.days \in Dates /\ x.deleted \in BOOLEAN
    /\ \A s \in LeaveStatus, d \in Dates, b \in BOOLEAN :
         [status |-> s, days |-> d, deleted |-> b] \in Row
    /\ \A x \in Row, s \in LeaveStatus : [x EXCEPT !.status = s] \in Row
    /\ {"pending", "approved", "rejected", "cancelled_by_user", "cancelled_by_admin"}
         \subseteq LeaveStatus
    /\ "none" \notin LeaveStatus
BY DEF Row, NoRow, LeaveStatus

Opened == [leave: Leaves, status: ApprovalStatus, final: BOOLEAN]

LEMMA ApprovalTypes ==
    /\ Unopened \notin Opened
    /\ Unopened.status = "none"
    /\ \A x \in Opened : x.leave \in Leaves /\ x.status \in ApprovalStatus /\ x.status # "none"
    /\ \A l \in Leaves, s \in ApprovalStatus, f \in BOOLEAN :
         [leave |-> l, status |-> s, final |-> f] \in Opened
BY LeaveAssumption DEF Opened, Unopened, ApprovalStatus

-----------------------------------------------------------------------------
(* A request goes from place to place alone: what the others hold stays as *)
(* it is.                                                                  *)
LEMMA OneMoves ==
    ASSUME Holds, NEW r \in Request,
           \A s \in Request \ {r} : /\ pc'[s] = pc[s]
                                    /\ call'[s] = call[s]
                                    /\ held'[s] = held[s],
           TypeOK, Lasting,
           HoldsOf(r)'
    PROVE  Holds'
<1> SUFFICES ASSUME NEW s \in Request, s # r PROVE HoldsOf(s)'
  BY DEF Holds
<1>1. HoldsOf(s) /\ pc'[s] = pc[s] /\ call'[s] = call[s] /\ held'[s] = held[s]
  BY DEF Holds
<1>2. call[s] # NoCall =>
         /\ call[s].op \in OnLeave => call[s].leave \in Leaves
         /\ call[s].op \in OnApproval => /\ call[s].approval \in Approval
                                         /\ call[s].op \notin OnLeave
  BY CallTypes DEF TypeOK
<1>3. pc[s] \in Working \cup {"checking", "rejecting", "resetting", "submitting", "opening"}
        => call[s] # NoCall /\ call[s].op \in OnLeave
  BY <1>1 DEF HoldsOf, Working, OnLeave
<1>4. pc[s] = "hearing" => call[s] # NoCall /\ call[s].op \in OnApproval
  BY <1>1 DEF HoldsOf, OnApproval
<1>5. (call[s] # NoCall /\ call[s].op \in OnApproval)
        => /\ approval[call[s].approval] # Unopened
           /\ approval'[call[s].approval].leave = approval[call[s].approval].leave
           /\ approval'[call[s].approval] # Unopened
           /\ approval[call[s].approval].leave \in Leaves
  BY <1>1, <1>2, ApprovalTypes DEF HoldsOf, Lasting, TypeOK, Opened
<1> QED BY <1>1, <1>2, <1>3, <1>4, <1>5 DEF HoldsOf, Lasting

LEMMA InitTyped == Init => Typed
<1> SUFFICES ASSUME Init PROVE Typed OBVIOUS
<1>1. TypeOK BY DEF Init, TypeOK, PC
<1>2. Holds BY DEF Init, Holds, HoldsOf, Working
<1>3. CachedExists BY DEF Init, CachedExists
<1> QED BY <1>1, <1>2, <1>3 DEF Typed


LEMMA SameRows ==
    ASSUME UNCHANGED <<row, approval>> PROVE Lasting
BY DEF Lasting

LEMMA RowWritten ==
    ASSUME TypeOK, NEW l \in Leaves, NEW x \in Row, row' = [row EXCEPT ![l] = x],
           UNCHANGED approval
    PROVE  Lasting /\ row' \in [Leaves -> Row \cup {NoRow}]
BY RowTypes DEF Lasting, TypeOK

(* What is cached is what was there, or is cleared. *)
LEMMA CacheKept ==
    ASSUME CachedExists, Lasting, \A l \in Leaves : cache'[l] \in {cache[l], "none"}
    PROVE  CachedExists'
BY DEF CachedExists, Lasting

(* The requests that begin. *)
LEMMA BeginTyped ==
    ASSUME Typed, NEW r \in Request, NEW q \in Calls,
           \/ Insert(r, q)
           \/ Hit(r, q)
           \/ Query(r, q)
           \/ NotFound(r, q)
           \/ Decide(r, q)
    PROVE  Typed' /\ Lasting
<1>1. TypeOK /\ Holds /\ HoldsOf(r) /\ CachedExists BY DEF Typed, Holds
<1>2. q # NoCall /\ (q.op \in OnLeave \/ q.op \in OnApproval) BY CallTypes
<1>3. q.op \in OnLeave => q.op \notin OnApproval /\ q.leave \in Leaves BY CallTypes
<1>4. CASE Insert(r, q)
  <2>1. q.leave \in Leaves /\ q.days \in Dates BY <1>4, CallTypes DEF Insert, OnLeave, OnApproval
  <2>2. [status |-> "pending", days |-> q.days, deleted |-> FALSE] \in Row
    BY <2>1, RowTypes
  <2>3. Lasting /\ row' \in [Leaves -> Row \cup {NoRow}]
    BY <1>1, <1>4, <2>1, <2>2, RowWritten DEF Insert
  <2>4. TypeOK' BY <1>1, <1>4, <2>3 DEF Insert, TypeOK, Go, PC
  <2>5. row'[q.leave] # NoRow BY <1>1, <1>4, <2>1, <2>2, RowTypes DEF Insert, TypeOK
  <2>6. HoldsOf(r)'
    BY <1>1, <1>2, <1>4, <2>5 DEF Insert, TypeOK, Go, HoldsOf, Working, OnApproval
  <2>7. CachedExists' BY <1>1, <1>4, <2>3, CacheKept DEF Insert
  <2> QED BY <1>1, <1>4, <2>3, <2>4, <2>6, <2>7, OneMoves DEF Insert, TypeOK, Go, Typed
<1>5. CASE Hit(r, q)
  <2>1. Lasting BY <1>5, SameRows DEF Hit
  <2>2. TypeOK' BY <1>1, <1>5 DEF Hit, TypeOK, Go, PC, FirstStep
  <2>3. row[q.leave] # NoRow BY <1>1, <1>3, <1>5 DEF Hit, CachedExists
  <2>4. HoldsOf(r)'
    BY <1>1, <1>2, <1>3, <1>5, <2>3 DEF Hit, TypeOK, Go, HoldsOf, Working, FirstStep
  <2>5. CachedExists' BY <1>1, <1>5, <2>1, CacheKept DEF Hit
  <2> QED BY <1>1, <1>5, <2>1, <2>2, <2>4, <2>5, OneMoves DEF Hit, TypeOK, Go, Typed
<1>6. CASE Query(r, q)
  <2>1. Lasting BY <1>6, SameRows DEF Query
  <2>2. q.leave \in Leaves BY <1>3, <1>6 DEF Query
  <2>3. row[q.leave].status \in LeaveStatus /\ row[q.leave] # NoRow
    BY <1>1, <1>6, <2>2, RowTypes DEF Query, TypeOK, Live
  <2>4. TypeOK' BY <1>1, <1>6, <2>3 DEF Query, TypeOK, Go, PC
  <2>5. HoldsOf(r)'
    BY <1>1, <1>2, <1>3, <1>6, <2>3 DEF Query, TypeOK, Go, HoldsOf, Working
  <2>6. CachedExists' BY <1>1, <1>6, <2>1, CacheKept DEF Query
  <2> QED BY <1>1, <1>6, <2>1, <2>4, <2>5, <2>6, OneMoves DEF Query, TypeOK, Go, Typed
<1>7. CASE NotFound(r, q)
  <2>1. Lasting BY <1>7, SameRows DEF NotFound
  <2>2. TypeOK' BY <1>1, <1>7 DEF NotFound, TypeOK, Go, PC
  <2>3. HoldsOf(r)' BY <1>1, <1>7 DEF NotFound, TypeOK, Go, HoldsOf, Working
  <2>4. CachedExists' BY <1>1, <1>7, <2>1, CacheKept DEF NotFound
  <2> QED BY <1>1, <1>7, <2>1, <2>2, <2>3, <2>4, OneMoves DEF NotFound, TypeOK, Go, Typed
<1>8. CASE Decide(r, q)
  <2>1. q.approval \in Approval BY <1>8, CallTypes DEF Decide
  <2>2. approval[q.approval] \in Opened
    BY <1>1, <1>8, <2>1, ApprovalTypes DEF Decide, TypeOK, Opened
  <2>3. Outcome(q.op) \in ApprovalStatus
    BY <1>8 DEF Decide, Outcome, OnApproval, ApprovalStatus
  <2>4. PICK f \in BOOLEAN :
          approval' = [approval EXCEPT ![q.approval] =
             [leave |-> approval[q.approval].leave, status |-> Outcome(q.op), final |-> f]]
    BY <1>8 DEF Decide
  <2>5. [leave |-> approval[q.approval].leave, status |-> Outcome(q.op), final |-> f] \in Opened
    BY <2>2, <2>3, ApprovalTypes
  <2>6. approval' \in [Approval -> Opened \cup {Unopened}]
    BY <1>1, <2>1, <2>4, <2>5 DEF TypeOK, Opened
  <2>7. TypeOK' BY <1>1, <1>8, <2>6 DEF Decide, TypeOK, Go, PC, Opened
  <2>8. /\ approval'[q.approval] # Unopened
        /\ approval'[q.approval].leave = approval[q.approval].leave
    BY <1>1, <2>1, <2>4, <2>5, ApprovalTypes DEF TypeOK
  <2>9. HoldsOf(r)'
    BY <1>1, <1>2, <1>8, <2>8 DEF Decide, TypeOK, Go, HoldsOf, Working, OnApproval
  <2>10. Lasting BY <1>1, <1>8, <2>1, <2>4, <2>8 DEF Lasting, TypeOK, Decide
  <2>11. CachedExists' BY <1>1, <1>8, <2>10, CacheKept DEF Decide
  <2> QED
    BY <1>1, <1>8, <2>7, <2>9, <2>10, <2>11, OneMoves DEF Decide, TypeOK, Go, Typed
<1> QED BY <1>4, <1>5, <1>6, <1>7, <1>8
(* The requests that go on. *)
LEMMA WorkTyped ==
    ASSUME Typed, NEW r \in Request,
           \/ Fill(r)
           \/ Check(r)
           \/ AutoReject(r)
           \/ Revoke(r)
           \/ Reset(r)
           \/ Write(r)
    PROVE  Typed' /\ Lasting
<1>1. TypeOK /\ Holds /\ HoldsOf(r) /\ CachedExists BY DEF Typed, Holds
<1>2. /\ pc[r] \in {"checking", "rejecting", "resetting", "filling", "revoking", "writing"}
      /\ call[r] \in Calls
      /\ call[r].op \in OnLeave
  BY <1>1 DEF Fill, Check, AutoReject, Revoke, Reset, Write, HoldsOf, Working, OnLeave, TypeOK
<1>3. /\ call[r].leave \in Leaves
      /\ call[r].op \notin OnApproval
      /\ call[r].days \in Dates \cup {{}}
      /\ call[r].carried \in Carried \cup {"none"}
  BY <1>2, CallTypes
<1>4. row[call[r].leave] \in Row /\ row[call[r].leave] # NoRow
  BY <1>1, <1>2, <1>3 DEF HoldsOf, Working, TypeOK
<1>5. CASE Fill(r)
  <2>1. Lasting BY <1>5, SameRows DEF Fill
  <2>2. held[r] \in LeaveStatus BY <1>1, <1>5 DEF Fill, HoldsOf
  <2>3. TypeOK' BY <1>1, <1>3, <1>5, <2>2 DEF Fill, TypeOK, Go, PC, FirstStep
  <2>4. HoldsOf(r)'
    BY <1>1, <1>2, <1>3, <1>4, <1>5 DEF Fill, TypeOK, Go, HoldsOf, Working, FirstStep
  <2>5. CachedExists' BY <1>1, <1>3, <1>4, <1>5 DEF Fill, CachedExists, TypeOK
  <2> QED BY <1>1, <1>5, <2>1, <2>3, <2>4, <2>5, OneMoves DEF Fill, TypeOK, Go, Typed
<1>6. CASE Check(r)
  <2>1. Lasting BY <1>6, SameRows DEF Check
  <2>2. TypeOK' BY <1>1, <1>6 DEF Check, TypeOK, Go, PC
  <2>3. HoldsOf(r)' BY <1>1, <1>3, <1>4, <1>6 DEF Check, TypeOK, Go, HoldsOf, Working
  <2>4. CachedExists' BY <1>1, <1>6, <2>1, CacheKept DEF Check
  <2> QED BY <1>1, <1>6, <2>1, <2>2, <2>3, <2>4, OneMoves DEF Check, TypeOK, Go, Typed
<1>7. CASE AutoReject(r)
  <2>1. [row[call[r].leave] EXCEPT !.status = "rejected"] \in Row BY <1>4, RowTypes
  <2>2. Lasting /\ row' \in [Leaves -> Row \cup {NoRow}]
    BY <1>1, <1>3, <1>7, <2>1, RowWritten DEF AutoReject
  <2>3. \A l \in Leaves : cache'[l] \in {cache[l], "none"}
    BY <1>1, <1>7 DEF AutoReject, Cleared, TypeOK
  <2>4. cache' \in [Leaves -> LeaveStatus \cup {"none"}]
    BY <1>1, <1>7 DEF AutoReject, Cleared, TypeOK
  <2>5. TypeOK' BY <1>1, <1>7, <2>2, <2>4 DEF AutoReject, TypeOK, Go, PC
  <2>6. HoldsOf(r)' BY <1>1, <1>3, <1>7 DEF AutoReject, TypeOK, Go, HoldsOf, Working
  <2>7. CachedExists' BY <1>1, <2>2, <2>3, CacheKept
  <2> QED
    BY <1>1, <1>7, <2>2, <2>5, <2>6, <2>7, OneMoves DEF AutoReject, TypeOK, Go, Typed
<1>8. CASE Revoke(r)
  <2>1. Revoked(call[r].leave) = {}
    BY DEF Revoked, CallerOrganisation, ApprovalOrganisation
  <2>2. UNCHANGED approval BY <1>1, <1>8, <2>1 DEF Revoke, TypeOK
  <2>3. Lasting BY <1>8, <2>2, SameRows DEF Revoke
  <2>4. TypeOK' BY <1>1, <1>8, <2>2 DEF Revoke, TypeOK, Go, PC
  <2>5. HoldsOf(r)'
    BY <1>1, <1>2, <1>3, <1>4, <1>8 DEF Revoke, TypeOK, Go, HoldsOf, Working, OnLeave
  <2>6. CachedExists' BY <1>1, <1>8, <2>3, CacheKept DEF Revoke
  <2> QED BY <1>1, <1>8, <2>3, <2>4, <2>5, <2>6, OneMoves DEF Revoke, TypeOK, Go, Typed
<1>9. CASE Reset(r)
  <2>1. [row[call[r].leave] EXCEPT !.status = "pending"] \in Row BY <1>4, RowTypes
  <2>2. Lasting /\ row' \in [Leaves -> Row \cup {NoRow}]
    <3>1. CASE row' = [row EXCEPT ![call[r].leave].status = "pending"]
      BY <1>1, <1>3, <1>9, <2>1, <3>1, RowWritten DEF Reset
    <3>2. CASE UNCHANGED row BY <1>1, <1>9, <3>2, SameRows DEF Reset, TypeOK
    <3> QED BY <1>9, <3>1, <3>2 DEF Reset
  <2>3. TypeOK' BY <1>1, <1>9, <2>2 DEF Reset, TypeOK, Go, PC
  <2>4. row'[call[r].leave] # NoRow BY <1>3, <1>4, <2>2 DEF Lasting
  <2>5. HoldsOf(r)'
    BY <1>1, <1>2, <1>3, <1>9, <2>4 DEF Reset, TypeOK, Go, HoldsOf, Working, OnLeave
  <2>6. CachedExists' BY <1>1, <1>9, <2>2, CacheKept DEF Reset
  <2> QED BY <1>1, <1>9, <2>2, <2>3, <2>5, <2>6, OneMoves DEF Reset, TypeOK, Go, Typed
<1>10. CASE Write(r)
  <2>1. After(call[r], row[call[r].leave]) \in Row
    BY <1>3, <1>4, RowTypes, LeaveAssumption DEF After, Critical, Row, LeaveStatus
  <2>2. Lasting /\ row' \in [Leaves -> Row \cup {NoRow}]
    BY <1>1, <1>3, <1>10, <2>1, RowWritten DEF Write
  <2>3. \A l \in Leaves : cache'[l] \in {cache[l], "none"}
    BY <1>1, <1>10 DEF Write, Cleared, TypeOK
  <2>4. cache' \in [Leaves -> LeaveStatus \cup {"none"}]
    BY <1>1, <1>10 DEF Write, Cleared, TypeOK
  <2>5. TypeOK' BY <1>1, <1>10, <2>2, <2>4 DEF Write, TypeOK, Go, PC
  <2>6. row'[call[r].leave] # NoRow BY <1>3, <1>4, <2>2 DEF Lasting
  <2>7. HoldsOf(r)'
    BY <1>1, <1>2, <1>3, <1>10, <2>6 DEF Write, TypeOK, Go, HoldsOf, Working, Critical
  <2>8. CachedExists' BY <1>1, <2>2, <2>3, CacheKept
  <2> QED BY <1>1, <1>10, <2>2, <2>5, <2>7, <2>8, OneMoves DEF Write, TypeOK, Go, Typed
<1> QED BY <1>5, <1>6, <1>7, <1>8, <1>9, <1>10
(* The background of create() and update(), the listener, and failures. *)
LEMMA RestTyped ==
    ASSUME Typed, NEW r \in Request,
           \/ Submit(r)
           \/ Reread(r)
           \/ Hear(r)
           \/ Apply(r)
           \/ Fail(r)
    PROVE  Typed' /\ Lasting
<1>1. TypeOK /\ Holds /\ HoldsOf(r) /\ CachedExists BY DEF Typed, Holds
<1>2. call[r] \in Calls
  BY <1>1 DEF Submit, Reread, Hear, Apply, Fail, HoldsOf, TypeOK
<1>3. CASE Submit(r)
  <2> DEFINE a == CHOOSE b \in Fresh : TRUE
             new == [leave |-> call[r].leave, status |-> "pending", final |-> FALSE]
  <2>1. a \in Approval /\ approval[a] = Unopened BY <1>3 DEF Submit, Fresh
  <2>2. call[r].leave \in Leaves /\ call[r].op \notin OnApproval
    BY <1>1, <1>2, <1>3, CallTypes DEF Submit, HoldsOf, OnLeave
  <2>3. new \in Opened BY <2>2, ApprovalTypes DEF ApprovalStatus
  <2>4. approval' = [approval EXCEPT ![a] = new] BY <1>3 DEF Submit
  <2> HIDE DEF a, new
  <2>5. Lasting BY <1>1, <1>3, <2>1, <2>4 DEF Lasting, TypeOK, Submit
  <2>6. approval' \in [Approval -> Opened \cup {Unopened}]
    BY <1>1, <2>1, <2>3, <2>4 DEF TypeOK, Opened
  <2>7. TypeOK' BY <1>1, <1>3, <2>6 DEF Submit, TypeOK, Go, PC, Opened
  <2>8. HoldsOf(r)' BY <1>1, <1>3, <2>2 DEF Submit, TypeOK, Go, HoldsOf, Working
  <2>9. CachedExists' BY <1>1, <1>3, <2>5, CacheKept DEF Submit
  <2> QED BY <1>1, <1>3, <2>5, <2>7, <2>8, <2>9, OneMoves DEF Submit, TypeOK, Go, Typed
<1>4. CASE Reread(r)
  <2>1. Lasting BY <1>4, SameRows DEF Reread
  <2>2. TypeOK' BY <1>1, <1>4 DEF Reread, TypeOK, Go, PC
  <2>3. HoldsOf(r)'
    BY <1>1, <1>4 DEF Reread, TypeOK, Go, HoldsOf, Working, OnApproval
  <2>4. CachedExists' BY <1>1, <1>4, <2>1, CacheKept DEF Reread
  <2> QED BY <1>1, <1>4, <2>1, <2>2, <2>3, <2>4, OneMoves DEF Reread, TypeOK, Go, Typed
<1>5. CASE Hear(r)
  <2> DEFINE l == approval[call[r].approval].leave
  <2>1. /\ call[r].op \in {"decide_approve", "decide_reject"}
        /\ call[r].approval \in Approval
        /\ approval[call[r].approval] \in Opened
    BY <1>1, <1>2, <1>5, CallTypes DEF Hear, HoldsOf, OnApproval, TypeOK, Opened
  <2>2. l \in Leaves BY <2>1, ApprovalTypes
  <2>3. Live(l) => row[l] # NoRow /\ row[l].status \in LeaveStatus
    BY <1>1, <2>2, RowTypes DEF Live, TypeOK
  <2>4. Lasting BY <1>5, SameRows DEF Hear
  <2>5. TypeOK' BY <1>1, <1>5, <2>3 DEF Hear, TypeOK, Go, PC
  <2>6. HoldsOf(r)'
    BY <1>1, <1>5, <2>1, <2>3 DEF Hear, TypeOK, Go, HoldsOf, Working, OnApproval
  <2>7. CachedExists' BY <1>1, <1>5, <2>4, CacheKept DEF Hear
  <2> QED BY <1>1, <1>5, <2>4, <2>5, <2>6, <2>7, OneMoves DEF Hear, TypeOK, Go, Typed
<1>6. CASE Apply(r)
  <2> DEFINE l == approval[call[r].approval].leave
             s == Outcome(call[r].op)
  <2>1. /\ call[r].op \in {"decide_approve", "decide_reject"}
        /\ call[r].approval \in Approval
        /\ approval[call[r].approval] \in Opened
        /\ row[l] # NoRow
    BY <1>1, <1>2, <1>6, CallTypes DEF Apply, HoldsOf, OnApproval, TypeOK, Opened
  <2>2. l \in Leaves /\ s \in LeaveStatus
    BY <2>1, ApprovalTypes DEF Outcome, LeaveStatus
  <2>3. row[l] \in Row BY <1>1, <2>1, <2>2 DEF TypeOK
  <2>4. [row[l] EXCEPT !.status = s] \in Row BY <2>2, <2>3, RowTypes
  <2>5. \/ row' = [row EXCEPT ![l].status = s] /\ cache' = Cleared(l)
        \/ UNCHANGED <<row, cache>>
    BY <1>6 DEF Apply
  <2> HIDE DEF l, s
  <2>6. Lasting /\ row' \in [Leaves -> Row \cup {NoRow}]
    <3>1. CASE row' = [row EXCEPT ![l].status = s]
      BY <1>1, <1>6, <2>2, <2>4, <3>1, RowWritten DEF Apply
    <3>2. CASE UNCHANGED row BY <1>1, <1>6, <3>2, SameRows DEF Apply, TypeOK
    <3> QED BY <2>5, <3>1, <3>2
  <2>7. \A k \in Leaves : cache'[k] \in {cache[k], "none"}
    BY <1>1, <2>5 DEF Cleared, TypeOK
  <2>8. cache' \in [Leaves -> LeaveStatus \cup {"none"}]
    BY <1>1, <2>5 DEF Cleared, TypeOK
  <2>9. TypeOK' BY <1>1, <1>6, <2>6, <2>8 DEF Apply, TypeOK, Go, PC
  <2>10. HoldsOf(r)'
    BY <1>1, <1>6, <2>1 DEF Apply, TypeOK, Go, HoldsOf, Working, OnApproval
  <2>11. CachedExists' BY <1>1, <2>6, <2>7, CacheKept
  <2> QED BY <1>1, <1>6, <2>6, <2>9, <2>10, <2>11, OneMoves DEF Apply, TypeOK, Go, Typed
<1>7. CASE Fail(r)
  <2>1. Lasting BY <1>7, SameRows DEF Fail
  <2>2. TypeOK' BY <1>1, <1>7 DEF Fail, TypeOK, Go, PC
  <2>3. HoldsOf(r)' BY <1>1, <1>7 DEF Fail, TypeOK, Go, HoldsOf, Working
  <2>4. CachedExists' BY <1>1, <1>7, <2>1, CacheKept DEF Fail
  <2> QED BY <1>1, <1>7, <2>1, <2>2, <2>3, <2>4, OneMoves DEF Fail, TypeOK, Go, Typed
<1> QED BY <1>3, <1>4, <1>5, <1>6, <1>7

LEMMA EvictTyped ==
    ASSUME Typed, NEW l \in Leaves, Evict(l)
    PROVE  Typed' /\ Lasting
<1>1. Lasting BY SameRows DEF Evict
<1>2. TypeOK' BY DEF Evict, TypeOK, Typed
<1>3. CachedExists' BY <1>1, CacheKept DEF Evict, TypeOK, Typed
<1>4. Holds' BY DEF Evict, Holds, HoldsOf, Typed
<1> QED BY <1>1, <1>2, <1>3, <1>4 DEF Typed

LEMMA TypedStep == Typed /\ [Next]_vars => Typed' /\ Lasting
<1> SUFFICES ASSUME Typed, [Next]_vars PROVE Typed' /\ Lasting OBVIOUS
<1>1. ASSUME NEW r \in Request, NEW q \in Calls,
             Insert(r, q) \/ Hit(r, q) \/ Query(r, q) \/ NotFound(r, q) \/ Decide(r, q)
      PROVE  Typed' /\ Lasting
  BY <1>1, BeginTyped
<1>2. ASSUME NEW r \in Request, Continue(r) \/ Fail(r) PROVE Typed' /\ Lasting
  BY <1>2, WorkTyped, RestTyped DEF Continue
<1>3. ASSUME NEW l \in Leaves, Evict(l) PROVE Typed' /\ Lasting
  BY <1>3, EvictTyped
<1>4. CASE UNCHANGED vars
  <2>1. Lasting BY <1>4, SameRows DEF vars
  <2>2. Typed'
    BY <1>4 DEF vars, Typed, TypeOK, Holds, HoldsOf, CachedExists
  <2> QED BY <2>1, <2>2
<1> QED BY <1>1, <1>2, <1>3, <1>4 DEF Next
-----------------------------------------------------------------------------
(* What a request asked for is remembered, and what it has done. *)
LEMMA CallsLast ==
    ASSUME Typed, [Next]_vars, NEW r \in Request, call[r] # NoCall
    PROVE  /\ call'[r] = call[r]
           /\ pc[r] = "done" => pc'[r] = "done"
           /\ Wrote(r) => Wrote(r)'
<1>1. TypeOK /\ pc[r] # "idle" BY DEF Typed, Holds, HoldsOf
<1>2. ASSUME NEW s \in Request, NEW q \in Calls,
             Insert(s, q) \/ Hit(s, q) \/ Query(s, q) \/ NotFound(s, q) \/ Decide(s, q)
      PROVE  call'[r] = call[r] /\ pc'[r] = pc[r]
  <2>1. s # r BY <1>1, <1>2 DEF Insert, Hit, Query, NotFound, Decide
  <2> QED
    BY <1>1, <1>2, <2>1 DEF Insert, Hit, Query, NotFound, Decide, Go, TypeOK
<1>3. ASSUME NEW s \in Request, Continue(s) \/ Fail(s)
      PROVE  /\ UNCHANGED call
             /\ pc[r] = "done" => pc'[r] = "done"
             /\ Wrote(r) => Wrote(r)'
  BY <1>1, <1>3
  DEF Continue, Fill, Check, AutoReject, Revoke, Reset, Write, Submit, Reread, Hear, Apply,
      Fail, Go, TypeOK, Wrote
<1>4. ASSUME NEW l \in Leaves, Evict(l) PROVE call' = call /\ pc' = pc
  BY <1>4 DEF Evict
<1>5. CASE UNCHANGED vars BY <1>5 DEF vars, Wrote
<1> QED BY <1>2, <1>3, <1>4, <1>5 DEF Next, Wrote

LEMMA ConcernLasts ==
    ASSUME Typed, [Next]_vars, NEW r \in Request, NEW l \in Leaves, Concerns(r, l)
    PROVE  Concerns(r, l)'
<1>1. call[r] # NoCall /\ call'[r] = call[r] /\ call[r] \in Calls
  BY CallsLast DEF Concerns, Typed, TypeOK
<1>2. CASE call[r].op \in OnLeave BY <1>1, <1>2 DEF Concerns
<1>3. CASE call[r].op \notin OnLeave
  <2>1. call[r].op \in OnApproval /\ call[r].approval \in Approval
    BY <1>1, <1>3, CallTypes
  <2>2. approval[call[r].approval] # Unopened
    BY <1>1, <2>1 DEF Typed, Holds, HoldsOf
  <2>3. approval'[call[r].approval].leave = approval[call[r].approval].leave
    BY <2>1, <2>2, TypedStep DEF Lasting
  <2> QED BY <1>1, <1>3, <2>3 DEF Concerns
<1> QED BY <1>2, <1>3

(* The status of a leave is set by a request that concerns it, as pending  *)
(* or cancelled, or by the rejection of create().                          *)
Sets(r, l, s) ==
    /\ Concerns(r, l)
    /\ \/ call[r].op \in {"approve", "decide_approve"} /\ s = "approved" /\ pc[r] = "done"
       \/ call[r].op \in {"reject", "decide_reject"} /\ s = "rejected"
       \/ call[r].op = "update" /\ call[r].carried = s /\ Wrote(r)

LEMMA WhoSets ==
    ASSUME Typed, [Next]_vars, NEW l \in Leaves, row'[l].status # row[l].status
    PROVE  \/ row'[l].status \in {"pending"} \cup Cancelled
           \/ /\ row'[l].status = "rejected"
              /\ \E r \in Request : pc[r] = "rejecting" /\ call[r].leave = l
           \/ \E r \in Request : Sets(r, l, row[l].status)'
<1>1. TypeOK /\ Holds /\ TypeOK' BY TypedStep DEF Typed
<1>2. ASSUME NEW r \in Request, NEW q \in Calls, Insert(r, q)
      PROVE  row'[l].status = "pending"
  BY <1>1, <1>2 DEF Insert, TypeOK
<1>3. ASSUME NEW r \in Request, AutoReject(r)
      PROVE  pc[r] = "rejecting" /\ call[r].leave = l /\ row'[l].status = "rejected"
  <2>1. row' = [row EXCEPT ![call[r].leave].status = "rejected"] BY <1>3 DEF AutoReject
  <2>2. call[r].leave = l BY <1>1, <2>1 DEF TypeOK
  <2>3. row'[l] = [row[l] EXCEPT !.status = "rejected"] BY <1>1, <2>1, <2>2 DEF TypeOK
  <2>4. "status" \in DOMAIN row[l] BY <1>1 DEF TypeOK, Row, NoRow
  <2> QED BY <1>3, <2>2, <2>3, <2>4 DEF AutoReject
<1>4. ASSUME NEW r \in Request, Reset(r) PROVE row'[l].status = "pending"
  <2>1. row' = [row EXCEPT ![call[r].leave].status = "pending"] BY <1>4 DEF Reset
  <2>2. call[r].leave = l BY <1>1, <2>1 DEF TypeOK
  <2>3. row'[l] = [row[l] EXCEPT !.status = "pending"] BY <1>1, <2>1, <2>2 DEF TypeOK
  <2>4. "status" \in DOMAIN row[l] BY <1>1 DEF TypeOK, Row, NoRow
  <2> QED BY <2>3, <2>4
<1>5. ASSUME NEW r \in Request, Write(r)
      PROVE  row'[l].status \in Cancelled \/ Sets(r, l, row[l].status)'
  <2>1. HoldsOf(r) /\ call[r] \in Calls BY <1>1, <1>5 DEF Holds, HoldsOf, TypeOK, Write
  <2>2. call[r] # NoCall /\ call[r].op \in OnLeave /\ UNCHANGED call
    BY <1>5, <2>1 DEF HoldsOf, Working, Write
  <2>3. call[r].leave = l /\ row'[l] = After(call[r], row[l])
    BY <1>1, <1>5 DEF Write, TypeOK
  <2>4. Concerns(r, l)' BY <2>2, <2>3 DEF Concerns
  <2>5. /\ pc'[r] \in {"submitting", "done"}
        /\ call[r].op # "update" => pc'[r] = "done"
    BY <1>1, <1>5 DEF Write, Go, TypeOK
  <2>6. row'[l].status =
          CASE call[r].op = "approve"         -> "approved"
            [] call[r].op = "reject"          -> "rejected"
            [] call[r].op = "cancel_by_user"  -> "cancelled_by_user"
            [] call[r].op = "cancel_by_admin" -> "cancelled_by_admin"
            [] call[r].op = "update" /\ call[r].carried # "none" -> call[r].carried
            [] OTHER                          -> row[l].status
    BY <2>3 DEF After
  <2> QED BY <2>2, <2>4, <2>5, <2>6 DEF Sets, Cancelled, Wrote
<1>6. ASSUME NEW r \in Request, Apply(r) PROVE Sets(r, l, row[l].status)'
  <2>1. HoldsOf(r) /\ call[r] \in Calls /\ UNCHANGED <<call, approval>>
    BY <1>1, <1>6 DEF Holds, HoldsOf, TypeOK, Apply
  <2>2. call[r] # NoCall /\ call[r].op \in {"decide_approve", "decide_reject"} /\ pc'[r] = "done"
    BY <1>1, <1>6, <2>1 DEF HoldsOf, Apply, Go, TypeOK
  <2>3. row' = [row EXCEPT ![approval[call[r].approval].leave].status = Outcome(call[r].op)]
    BY <1>6 DEF Apply
  <2>4. approval[call[r].approval].leave = l BY <1>1, <2>3 DEF TypeOK
  <2>5. row'[l] = [row[l] EXCEPT !.status = Outcome(call[r].op)]
    BY <1>1, <2>3, <2>4 DEF TypeOK
  <2>6. "status" \in DOMAIN row[l] BY <1>1 DEF TypeOK, Row, NoRow
  <2>7. row'[l].status = Outcome(call[r].op) BY <2>5, <2>6
  <2>8. Concerns(r, l)' BY <2>1, <2>2, <2>4 DEF Concerns, OnLeave
  <2> QED BY <2>1, <2>2, <2>7, <2>8 DEF Sets, Outcome
<1>7. UNCHANGED row \/ \E r \in Request :
        \/ \E q \in Calls : Insert(r, q)
        \/ AutoReject(r) \/ Reset(r) \/ Write(r) \/ Apply(r)
  BY DEF Next, vars, Hit, Query, NotFound, Decide, Continue, Fill, Check, Revoke, Submit,
         Reread, Hear, Fail, Evict
<1> QED BY <1>2, <1>3, <1>4, <1>5, <1>6, <1>7
LEMMA BooksLast ==
    ASSUME Typed, [Next]_vars, NEW r \in Request, NEW k \in Leaves, Books(r, k)
    PROVE  Books(r, k)'
<1>1. Concerns(r, k)' BY ConcernLasts DEF Books
<1>2. call'[r] = call[r] BY CallsLast DEF Books, Concerns
<1> QED BY <1>1, <1>2 DEF Books

(* Unless a step sets it, the status of a leave is what it was. *)
LEMMA BookedStep ==
    ASSUME Typed, BookedHasCause, [Next]_vars
    PROVE  BookedHasCause'
<1> SUFFICES ASSUME NEW k \in Leaves, row'[k].status \in Booked
             PROVE  \E r \in Request : Books(r, k)'
  BY DEF BookedHasCause
<1>1. CASE row'[k].status = row[k].status
  <2>1. PICK r \in Request : Books(r, k) BY <1>1 DEF BookedHasCause
  <2> QED BY <2>1, BooksLast
<1>2. CASE row'[k].status # row[k].status
  <2>1. row'[k].status \notin {"pending", "rejected"} \cup Cancelled BY DEF Booked, Cancelled
  <2>2. PICK r \in Request : Sets(r, k, row[k].status)' BY <1>2, <2>1, WhoSets
  <2> QED BY <2>1, <2>2 DEF Sets, Books
<1> QED BY <1>1, <1>2

(* Whoever is about to reject a leave has read a booked one beside it. *)
LEMMA RejectingStep ==
    ASSUME Typed, BookedHasCause, RejectingHasCause, [Next]_vars
    PROVE  RejectingHasCause'
<1> SUFFICES ASSUME NEW r \in Request, pc'[r] = "rejecting"
             PROVE  \E k \in Leaves \ {call'[r].leave} : \E s \in Request : Books(s, k)'
  BY DEF RejectingHasCause
<1>1. TypeOK /\ HoldsOf(r) BY DEF Typed, Holds
<1>2. \/ pc[r] = "rejecting"
      \/ Check(r) /\ Conflicts(call[r].leave) # {}
  <2>1. ASSUME NEW s \in Request, NEW q \in Calls,
               Insert(s, q) \/ Hit(s, q) \/ Query(s, q) \/ NotFound(s, q) \/ Decide(s, q)
        PROVE  pc[r] = "rejecting"
    BY <1>1, <2>1 DEF Insert, Hit, FirstStep, Query, NotFound, Decide, Go, TypeOK
  <2>2. ASSUME NEW s \in Request, Continue(s) \/ Fail(s), pc[r] # "rejecting"
        PROVE  Check(r) /\ Conflicts(call[r].leave) # {}
    BY <1>1, <2>2
    DEF Continue, Fill, FirstStep, Check, AutoReject, Revoke, Reset, Write, Submit, Reread,
        Hear, Apply, Fail, Go, TypeOK
  <2>3. ASSUME NEW l \in Leaves, Evict(l) PROVE pc[r] = "rejecting"
    BY <2>3 DEF Evict
  <2> QED BY <2>1, <2>2, <2>3 DEF Next, vars
<1>3. call[r] # NoCall BY <1>1, <1>2 DEF HoldsOf, Check
<1>4. call'[r] = call[r] BY <1>3, CallsLast
<1>5. \E k \in Leaves \ {call[r].leave} : \E s \in Request : Books(s, k)
  BY <1>2 DEF RejectingHasCause, Conflicts, BookedHasCause
<1> QED BY <1>4, <1>5, BooksLast

Rejects(r, l) ==
    /\ Concerns(r, l)
    /\ \/ call[r].op \in {"reject", "decide_reject"}
       \/ call[r].op = "update" /\ call[r].carried = "rejected"

LEMMA RejectedStep ==
    ASSUME Typed, Causes, [Next]_vars
    PROVE  RejectedHasCause'
<1> SUFFICES
      ASSUME NEW l \in Leaves, row'[l].status = "rejected"
      PROVE  \E r \in Request : Rejects(r, l)' \/ \E k \in Leaves \ {l} : Books(r, k)'
  BY DEF RejectedHasCause, Rejects, Books
<1>1. CASE row[l].status = "rejected"
  <2>1. PICK r \in Request : Rejects(r, l) \/ \E k \in Leaves \ {l} : Books(r, k)
    BY <1>1 DEF Causes, RejectedHasCause, Rejects, Books
  <2>2. Rejects(r, l) => Rejects(r, l)'
    BY ConcernLasts, CallsLast DEF Rejects, Concerns
  <2> QED BY <2>1, <2>2, BooksLast
<1>2. CASE row[l].status # "rejected"
  <2>1. ASSUME NEW r \in Request, pc[r] = "rejecting", call[r].leave = l
        PROVE  \E s \in Request : \E k \in Leaves \ {l} : Books(s, k)'
    BY <2>1, BooksLast DEF Causes, RejectingHasCause
  <2>2. ASSUME NEW r \in Request, Sets(r, l, row[l].status)' PROVE Rejects(r, l)'
    BY <2>2 DEF Sets, Rejects
  <2> QED BY <1>2, <2>1, <2>2, WhoSets DEF Cancelled
<1> QED BY <1>1, <1>2

(* Whose decision or update made a leave approved is remembered. *)
LEMMA ApprovedStep ==
    ASSUME Typed, ApprovedIsDecided, [Next]_vars
    PROVE  ApprovedIsDecided'
<1> SUFFICES ASSUME NEW l \in Leaves, row'[l].status = "approved"
             PROVE  \E r \in Request : Sets(r, l, "approved")'
  BY DEF ApprovedIsDecided, Sets
<1>1. CASE row[l].status = "approved"
  <2>1. PICK r \in Request :
          /\ Concerns(r, l)
          /\ \/ call[r].op \in {"approve", "decide_approve"} /\ pc[r] = "done"
             \/ call[r].op = "update" /\ call[r].carried = "approved" /\ Wrote(r)
    BY <1>1 DEF ApprovedIsDecided
  <2>2. call[r] # NoCall BY <2>1 DEF Concerns
  <2> QED BY <2>1, <2>2, ConcernLasts, CallsLast DEF Sets
<1>2. CASE row[l].status # "approved"
  BY <1>2, WhoSets DEF Cancelled
<1> QED BY <1>1, <1>2

-----------------------------------------------------------------------------
Inv == Typed /\ Causes /\ ApprovedIsDecided

LEMMA InitInv == Init => Inv
<1>1. Init => Causes
  BY DEF Init, Causes, BookedHasCause, RejectingHasCause, RejectedHasCause, NoRow, Booked
<1>2. Init => ApprovedIsDecided BY DEF Init, ApprovedIsDecided, NoRow
<1> QED BY <1>1, <1>2, InitTyped DEF Inv

LEMMA InvStep == Inv /\ [Next]_vars => Inv'
BY TypedStep, BookedStep, RejectingStep, RejectedStep, ApprovedStep DEF Inv, Causes

THEOREM LeaveInductive == Spec => []Inv
BY InitInv, InvStep, PTL DEF Spec

(* Every variable of the leave service stays in its set. *)
THEOREM LeaveTyping == Spec => []TypeOK
<1>1. Inv => TypeOK BY DEF Inv, Typed
<1> QED BY <1>1, LeaveInductive, PTL

(* approve(), performAction() and update() are all that approves a leave:  *)
(* no other handler, listener or background task does, in any order.       *)
THEOREM ApprovedAlwaysDecided == Spec => []ApprovedIsDecided
<1>1. Inv => ApprovedIsDecided BY DEF Inv
<1> QED BY <1>1, LeaveInductive, PTL

(* create() rejects a leave only beside one that somebody has booked.      *)
THEOREM RejectedAlwaysCaused == Spec => []RejectedHasCause
<1>1. Inv => RejectedHasCause BY DEF Inv, Causes
<1> QED BY <1>1, LeaveInductive, PTL
=============================================================================
