---------------------------- MODULE MCAttendance ----------------------------
(* Instances of Attendance for TLC. *)
EXTENDS Attendance, TLC
CONSTANTS phone, desk

Interchangeable == Permutations(Device)
=============================================================================
