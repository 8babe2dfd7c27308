---------------------------- MODULE MCApprovals ----------------------------
(* Instances of Approvals for TLC: a requester, an approver, a delegate    *)
(* and an administrator, and the operations each run is about.             *)
EXTENDS Approvals, TLC
CONSTANTS req, app, del, adm, r1, r2, r3, r4

AllUsers   == {req, app, del, adm}
TwoMembers == {req, app}
WithAdmin  == {req, app, adm}

EveryLevel  == [u \in AllUsers |-> CASE u = adm -> "admin"
                                     [] u = del -> "manager"
                                     [] OTHER   -> "member"]
LevelOfTwo      == [u \in TwoMembers |-> "member"]
LevelOfThree    == [u \in WithAdmin |-> IF u = adm THEN "admin" ELSE "member"]

EveryOp     == AllOps
RaceOps     == {"create_pending", "approve", "reject", "withdraw", "remove"}
ViewOps     == {"create_pending", "view", "approve"}
WithdrawOps == {"create_pending", "approve", "withdraw"}
SignOps     == {"create_pending", "view", "approve", "sign"}

Interchangeable == Permutations(Request)
=============================================================================
