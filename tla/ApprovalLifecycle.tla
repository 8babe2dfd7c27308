------------------------- MODULE ApprovalLifecycle -------------------------
(***************************************************************************)
(* What the approvals service promises about one approval, whatever the    *)
(* interleaving of the requests on it: it is opened as a draft or already  *)
(* pending, its status may move while requests that overlap are settling,  *)
(* and once its closing status is final it never moves again.              *)
(*                                                                         *)
(* status is the status column of the approval's row ("none" before the    *)
(* row exists); final says that the closing status can no longer be        *)
(* overwritten.  Module Approvals implements this specification.           *)
(***************************************************************************)
CONSTANTS Status,      \* the values of the status column
          Opening,     \* the statuses an approval is created in
          Closing      \* the statuses that are meant to be final

VARIABLES status, final

Init == status = "none" /\ final = FALSE

Open ==
    /\ status = "none"
    /\ status' \in Opening
    /\ final' = FALSE

Move ==
    /\ ~final
    /\ status # "none"
    /\ status' \in Status
    /\ final' \in BOOLEAN
    /\ final' => status' \in Closing

Next == Open \/ Move

Spec == Init /\ [][Next]_<<status, final>>
=============================================================================
