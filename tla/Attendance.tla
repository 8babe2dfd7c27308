----------------------------- MODULE Attendance -----------------------------
(***************************************************************************)
(* AttendanceService (src/attendance/attendance.service.ts) for the shifts *)
(* of one user: checkIn, checkOut, startBreak, endBreak, the automatic     *)
(* close of a forgotten shift, and the check-ins of clocking machines.     *)
(*                                                                         *)
(* Each operation is a transaction that selects a shift and later inserts  *)
(* or updates a row.  No select locks what it reads and no index forbids a *)
(* second open shift, so the calls of two devices interleave between the   *)
(* two (READ COMMITTED); what is written is computed from what was read.   *)
(* checkIn closes an old shift through attendanceRepository, which is not  *)
(* part of its transaction.                                                *)
(*                                                                         *)
(* Of a finished break the model keeps how its minutes are counted: its    *)
(* whole minutes below two, and whether half a minute or more is left      *)
(* over.  endBreak adds the whole minutes of each break to totalBreakTime, *)
(* a check-out rounds each break of breakDetails.  (Two minutes more are   *)
(* two minutes more in both.)                                              *)
(***************************************************************************)
EXTENDS Naturals, Sequences, FiniteSets

CONSTANTS
    Device,     \* what the user's calls come from; one call of each at a time
    Day,        \* the calendar days (of the organisation's time zone)
    Carried,    \* the statuses a check-in's body may carry
    MaxCalls,   \* bound: calls in all
    NoCall

Status == {"present", "completed", "absent", "on_break", "missed"}
Out    == {"none", "reported", "auto"}      \* how checkOut was set, if it was
Length == {"moment", "half", "minute", "over"}  \* of a break: from 0, 0.5, 1, 1.5 minutes on
Break  == {"open"} \cup Length
Ops    == {"in", "machine_in", "out", "start_break", "end_break"}

ASSUME AttendanceAssumption ==
    /\ Day \subseteq Nat
    /\ Carried \subseteq Status
    /\ MaxCalls \in Nat

Shift == [day: Day, status: Status, out: Out, count: Nat, details: Seq(Break),
          total: Nat, deducted: Nat]

Call == {q \in [op: Ops, day: Day \cup {0}, status: Carried \cup {"none"}] :
           IF q.op \in {"in", "machine_in"}
           THEN q.day # 0 /\ q.status # "none"
           ELSE q.day = 0 /\ q.status = "none"}

ASSUME NothingAssumption == NoCall \notin Call /\ 0 \notin Day

VARIABLES
    shift,       \* the attendance rows of the user, in the order of their uid
    pc,          \* where the call of each device is
    call,        \* what it asks for
    held,        \* the index of the shift it selected (0: none)
    read,        \* that row as it was selected
    calls,       \* how many calls have begun
    overlapped,  \* two calls have been in progress together
    unseen       \* a check-in was inserted beside an open shift it does not look for

vars == <<shift, pc, call, held, read, calls, overlapped, unseen>>

PC == {"idle", "looking", "closing", "inserting", "updating"}

NoShift == [status |-> "none"]

Init ==
    /\ shift = <<>>
    /\ pc = [d \in Device |-> "idle"]
    /\ call = [d \in Device |-> NoCall]
    /\ held = [d \in Device |-> 0]
    /\ read = [d \in Device |-> NoShift]
    /\ calls = 0
    /\ overlapped = FALSE
    /\ unseen = FALSE

Open(s) == s.out = "none"

(* Mutant: a shift that has been checked out is looked for too. *)
ActiveOrCompleted == {i \in DOMAIN shift : shift[i].status \in {"present", "completed"}}

(* The shifts checkIn, checkOut and startBreak look for. *)
Active == {i \in DOMAIN shift : shift[i].status = "present" /\ Open(shift[i])}

(* The shift endBreak looks for (breakStartTime is set with breakCount).   *)
OnBreak == {i \in DOMAIN shift :
              shift[i].status = "on_break" /\ Open(shift[i]) /\ shift[i].count > 0}

(* ORDER BY checkIn DESC; the model does not order the shifts of a day.    *)
Latest(S) == {i \in S : \A j \in S : shift[j].day <= shift[i].day}

Begin(d, q) ==
    /\ pc[d] = "idle"
    /\ calls < MaxCalls
    /\ calls' = calls + 1
    /\ overlapped' = (overlapped \/ \E e \in Device : pc[e] # "idle")
    /\ call' = [call EXCEPT ![d] = q]
    /\ pc' = [pc EXCEPT ![d] = "looking"]
    /\ UNCHANGED <<shift, held, read, unseen>>

Answered(d) ==
    /\ pc' = [pc EXCEPT ![d] = "idle"]
    /\ call' = [call EXCEPT ![d] = NoCall]
    /\ held' = [held EXCEPT ![d] = 0]
    /\ read' = [read EXCEPT ![d] = NoShift]

Select(d, i) ==
    /\ held' = [held EXCEPT ![d] = i]
    /\ read' = [read EXCEPT ![d] = shift[i]]

-----------------------------------------------------------------------------
(* checkIn().  validateExternalMachineRecord has first refused a machine's *)
(* record for a day that already has any; its query and the one of checkIn *)
(* are taken as one read.                                                  *)
Recorded(q) == q.op = "machine_in" /\ \E i \in DOMAIN shift : shift[i].day = q.day

LookIn(d) ==
    /\ pc[d] = "looking"
    /\ call[d].op \in {"in", "machine_in"}
    /\ ~Recorded(call[d])
    /\ Active = {}
    /\ pc' = [pc EXCEPT ![d] = "inserting"]
    /\ UNCHANGED <<shift, call, held, read, calls, overlapped, unseen>>

(* An active shift of the same day refuses the check-in; one of another    *)
(* day is to be closed first, but not by a machine (skipAutoClose).  The   *)
(* query has no order: any active shift may be the one that is found.      *)
RefuseIn(d) ==
    /\ pc[d] = "looking"
    /\ LET q == call[d] IN
         \/ Recorded(q)
         \/ \E i \in Active :
              \/ q.op = "in" /\ shift[i].day = q.day
              \/ q.op = "machine_in"
    /\ Answered(d)
    /\ UNCHANGED <<shift, calls, overlapped, unseen>>

LookOld(d) ==
    /\ pc[d] = "looking"
    /\ call[d].op = "in"
    /\ \E i \in Active :
         /\ shift[i].day # call[d].day
         /\ Select(d, i)
    /\ pc' = [pc EXCEPT ![d] = "closing"]
    /\ UNCHANGED <<shift, call, calls, overlapped, unseen>>

(* Mutant: the old shift is completed without a check-out time. *)
AutoCloseWithoutTime(d) ==
    /\ pc[d] = "closing"
    /\ shift' = [shift EXCEPT ![held[d]].status = "completed"]
    /\ pc' = [pc EXCEPT ![d] = "inserting"]
    /\ UNCHANGED <<call, held, read, calls, overlapped, unseen>>

(* autoCloseExistingShift(): the columns it was given do not include the   *)
(* breaks, so it deducts none.  It saves outside the transaction of the    *)
(* check-in, so the close stands even if the insertion fails.              *)
AutoClosed(s) == [s EXCEPT !.status = "completed", !.out = "auto", !.deducted = 0]

AutoClose(d) ==
    /\ pc[d] = "closing"
    /\ shift' = [shift EXCEPT ![held[d]] = AutoClosed(@)]
    /\ pc' = [pc EXCEPT ![d] = "inserting"]
    /\ UNCHANGED <<call, held, read, calls, overlapped, unseen>>

NewShift(q) == [day |-> q.day, status |-> q.status, out |-> "none", count |-> 0,
                details |-> <<>>, total |-> 0, deducted |-> 0]

Insert(d) ==
    /\ pc[d] = "inserting"
    /\ shift' = Append(shift, NewShift(call[d]))
    /\ unseen' = (unseen \/ \E i \in DOMAIN shift :
                              /\ Open(shift[i])
                              /\ shift[i].status \in ({"on_break"} \cup Carried) \ {"present"})
    /\ Answered(d)
    /\ UNCHANGED <<calls, overlapped>>

-----------------------------------------------------------------------------
(* checkOut(), startBreak() and endBreak() select the latest shift they    *)
(* may work on ...                                                         *)
Candidates(op) == IF op = "end_break" THEN OnBreak ELSE Active

LookShift(d) ==
    /\ pc[d] = "looking"
    /\ call[d].op \in {"out", "start_break", "end_break"}
    /\ \E i \in Latest(Candidates(call[d].op)) : Select(d, i)
    /\ pc' = [pc EXCEPT ![d] = "updating"]
    /\ UNCHANGED <<shift, call, calls, overlapped, unseen>>

(* ... and refuse without one; a check-out also before the check-in.       *)
RefuseShift(d) ==
    /\ pc[d] = "looking"
    /\ call[d].op \in {"out", "start_break", "end_break"}
    /\ Candidates(call[d].op) = {} \/ call[d].op = "out"
    /\ Answered(d)
    /\ UNCHANGED <<shift, calls, overlapped, unseen>>

Among(details, L) == Cardinality({i \in DOMAIN details : details[i] \in L})

(* differenceInMinutes (whole minutes) of each ended break, added up ...   *)
WholeMinutes(details) == Among(details, {"minute", "over"})

(* ... and the breaks that rounding gives a minute more.                   *)
RoundedUp(details) == Among(details, {"half", "over"})

(* Mutant: only the last break's half minute is rounded. *)
BreakMinutesOfSum(s) ==
    IF s.details # <<>>
    THEN WholeMinutes(s.details)
           + (IF s.details[Len(s.details)] \in {"half", "over"} THEN 1 ELSE 0)
    ELSE s.total

(* TimeCalculatorUtil.calculateTotalBreakMinutes: the breakDetails if      *)
(* there are any, each rounded to minutes (an open one counts for          *)
(* nothing), otherwise totalBreakTime.                                     *)
BreakMinutes(s) ==
    IF s.details # <<>> THEN WholeMinutes(s.details) + RoundedUp(s.details) ELSE s.total

(* The columns written to the row s, computed from the row x as it was     *)
(* selected.                                                               *)
CheckedOut(s, x) == [s EXCEPT !.status = "completed", !.out = "reported",
                              !.deducted = BreakMinutes(x)]

CheckOut(d) ==
    /\ pc[d] = "updating"
    /\ call[d].op = "out"
    /\ shift' = [shift EXCEPT ![held[d]] = CheckedOut(@, read[d])]
    /\ Answered(d)
    /\ UNCHANGED <<calls, overlapped, unseen>>

BreakStarted(s, x) == [s EXCEPT !.status = "on_break", !.count = x.count + 1,
                                !.details = Append(x.details, "open")]

StartBreak(d) ==
    /\ pc[d] = "updating"
    /\ call[d].op = "start_break"
    /\ shift' = [shift EXCEPT ![held[d]] = BreakStarted(@, read[d])]
    /\ Answered(d)
    /\ UNCHANGED <<calls, overlapped, unseen>>

(* Mutant: the break is given a state of its own. *)
EndLastUnlisted(details, length) == [details EXCEPT ![Len(details)] = "closed"]

(* Mutant: the first break is ended, whichever is open. *)
EndFirst(details, length) == [details EXCEPT ![1] = length]

EndLast(details, length) ==
    IF details = <<>> THEN <<length>>
    ELSE [details EXCEPT ![Len(details)] = length]

BreakEnded(s, x, length) ==
    [s EXCEPT !.status = "present",
              !.total = x.total + (IF length \in {"minute", "over"} THEN 1 ELSE 0),
              !.details = EndLast(x.details, length)]

EndBreak(d) ==
    /\ pc[d] = "updating"
    /\ call[d].op = "end_break"
    /\ \E length \in Length :
         shift' = [shift EXCEPT ![held[d]] = BreakEnded(@, read[d], length)]
    /\ Answered(d)
    /\ UNCHANGED <<calls, overlapped, unseen>>

(* A database call fails and the transaction is rolled back. *)
Fail(d) ==
    /\ pc[d] # "idle"
    /\ Answered(d)
    /\ UNCHANGED <<shift, calls, overlapped, unseen>>

Next ==
    \E d \in Device :
      \/ \E q \in Call : Begin(d, q)
      \/ LookIn(d)
      \/ RefuseIn(d)
      \/ LookOld(d)
      \/ AutoClose(d)
      \/ Insert(d)
      \/ LookShift(d)
      \/ RefuseShift(d)
      \/ CheckOut(d)
      \/ StartBreak(d)
      \/ EndBreak(d)
      \/ Fail(d)

Spec == Init /\ [][Next]_vars

-----------------------------------------------------------------------------
TypeOK ==
    /\ shift \in Seq(Shift)
    /\ pc \in [Device -> PC]
    /\ call \in [Device -> Call \cup {NoCall}]
    /\ held \in [Device -> DOMAIN shift \cup {0}]
    /\ read \in [Device -> Shift \cup {NoShift}]
    /\ calls \in 0 .. MaxCalls
    /\ overlapped \in BOOLEAN
    /\ unseen \in BOOLEAN

OpenShifts == {i \in DOMAIN shift : Open(shift[i])}

(* A user whose calls never overlap, and who never checks in beside a      *)
(* shift that is on a break (or was not opened as present), has at most    *)
(* one open shift: checkIn refuses, or closes the old one.                 *)
OneOpenShift == ~overlapped /\ ~unseen => Cardinality(OpenShifts) <= 1

(* Without overlapping calls, the two records of a shift's breaks agree:   *)
(* breakCount counts the breakDetails, totalBreakTime adds up the whole    *)
(* minutes of the ended ones, the last alone may be open, and then the     *)
(* open shift is on a break.                                               *)
BreaksAgree ==
    ~overlapped => \A i \in DOMAIN shift :
      LET s == shift[i] IN
        /\ s.count = Len(s.details)
        /\ s.total = WholeMinutes(s.details)
        /\ \A k \in DOMAIN s.details :
             s.details[k] = "open" => k = Len(s.details) /\ s.status = "on_break" /\ Open(s)

(* Without overlapping calls, the two totals of a shift's breaks differ by *)
(* what rounding adds and by nothing else: a check-out deducts from the    *)
(* hours worked what endBreak added to totalBreakTime, and one minute for  *)
(* each break that left half a minute or more over, never more than one    *)
(* for each break.                                                         *)
DeductsBreaks ==
    ~overlapped => \A i \in DOMAIN shift :
      LET s == shift[i] IN
        s.out = "reported" => /\ s.deducted = s.total + RoundedUp(s.details)
                              /\ s.deducted <= s.total + s.count

(* Without overlapping calls, a check-out is the last word on a shift: its *)
(* row keeps the time, the breaks and the status it was closed with.       *)
ClosedIsUntouched ==
    [][ ~overlapped' => \A i \in DOMAIN shift :
          ~Open(shift[i]) => shift'[i] = shift[i] ]_vars

-----------------------------------------------------------------------------
(* attendance.controller.ts:257 "Duplicate check-in for same day is        *)
(* rejected": no two open shifts of a user are of the same day.            *)
DuplicateRejected ==
    \A i, j \in OpenShifts : shift[i].day = shift[j].day => i = j
=============================================================================
