------------------------------ MODULE MCLeave ------------------------------
(* Instances of Leave for TLC. *)
EXTENDS Leave, TLC
CONSTANTS l1, l2, a1, a2, a3, r1, r2, r3, r4, d1, d2

OneDay    == {{d1}}
TwoDays   == {{d1}, {d2}}
EveryOp   == OnLeave \cup OnApproval
CancelOps == {"create", "cancel_by_user", "decide_approve"}
=============================================================================
