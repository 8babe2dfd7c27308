-------------------------- MODULE AttendanceProofs --------------------------
(***************************************************************************)
(* Proofs about Attendance, for any devices, days and number of calls.     *)
(***************************************************************************)
EXTENDS Attendance, FiniteSetTheorems, TLAPS

(* What a call holds at each place of its transaction.                     *)
Holds ==
    \A d \in Device :
      /\ pc[d] # "idle" => call[d] \in Call
      /\ pc[d] \in {"closing", "inserting"} => call[d].op \in {"in", "machine_in"}
      /\ pc[d] = "updating" => call[d].op \in {"out", "start_break", "end_break"}
      /\ pc[d] \in {"closing", "updating"} => held[d] \in DOMAIN shift /\ read[d] \in Shift

Typed == TypeOK /\ Holds

(* The records of a shift agree, with each other and with its status.      *)
Consistent(s) ==
    /\ s.count = Len(s.details)
    /\ s.total = WholeMinutes(s.details)
    /\ \A k \in DOMAIN s.details :
         s.details[k] = "open" => k = Len(s.details) /\ s.status = "on_break" /\ Open(s)
    /\ (s.status = "on_break" /\ Open(s) /\ s.count > 0)
         => s.details[Len(s.details)] = "open"
    /\ Open(s) => s.status \in {"present", "on_break"} \cup Carried
    /\ s.out = "reported" => s.deducted = s.total + RoundedUp(s.details)

(* One call at a time, whose selected row is still the row.                *)
Alone ==
    /\ \A d, e \in Device : pc[d] # "idle" /\ pc[e] # "idle" => d = e
    /\ \A d \in Device : pc[d] \in {"closing", "updating"} =>
         read[d] = shift[held[d]] /\ held[d] \in Candidates(call[d].op)

AllConsistent == \A i \in DOMAIN shift : Consistent(shift[i])

(* One shift is open, and none that checkIn looks for when it inserts.     *)
Single ==
    /\ \A i, j \in OpenShifts : i = j
    /\ \A d \in Device : pc[d] = "inserting" => Active = {}

Inv == /\ Typed
       /\ ~overlapped => Alone /\ AllConsistent
       /\ ~overlapped /\ ~unseen => Single

-----------------------------------------------------------------------------
(* Facts about the rows. *)
LEMMA CallType ==
    ASSUME NEW q \in Call
    PROVE  /\ q.op \in Ops
           /\ q.op \in {"in", "machine_in"} => q.day \in Day /\ q.status \in Carried
BY NothingAssumption DEF Call

LEMMA NewShiftType ==
    ASSUME NEW q \in Call, q.op \in {"in", "machine_in"}
    PROVE  NewShift(q) \in Shift
<1>1. q.day \in Day /\ q.status \in Status
  BY CallType, AttendanceAssumption
<1>2. "none" \in Out /\ <<>> \in Seq(Break) BY DEF Out
<1> QED BY <1>1, <1>2 DEF NewShift, Shift

(* Counts of breaks: no more than there are breaks.                        *)
LEMMA AmongType ==
    ASSUME NEW b \in Seq(Break), NEW L
    PROVE  /\ IsFiniteSet({i \in DOMAIN b : b[i] \in L})
           /\ Among(b, L) \in Nat
           /\ Among(b, L) <= Len(b)
<1> DEFINE E == {i \in DOMAIN b : b[i] \in L}
<1>0. Len(b) \in Nat OBVIOUS
<1>1. IsFiniteSet(1 .. Len(b)) /\ Cardinality(1 .. Len(b)) = Len(b)
  BY <1>0, FS_Interval
<1>2. E \in SUBSET (1 .. Len(b)) OBVIOUS
<1>3. IsFiniteSet(E) /\ Cardinality(E) <= Cardinality(1 .. Len(b)) BY <1>1, <1>2, FS_Subset
<1>4. Cardinality(E) \in Nat BY <1>3, FS_CardinalityType
<1> QED BY <1>1, <1>3, <1>4 DEF Among

LEMMA CountsType ==
    ASSUME NEW b \in Seq(Break)
    PROVE  /\ WholeMinutes(b) \in Nat
           /\ RoundedUp(b) \in Nat
           /\ RoundedUp(b) <= Len(b)
BY AmongType DEF WholeMinutes, RoundedUp

LEMMA AmongEmpty == ASSUME NEW L PROVE Among(<<>>, L) = 0
<1>1. {i \in DOMAIN <<>> : <<>>[i] \in L} = {} OBVIOUS
<1> QED BY <1>1, FS_EmptySet DEF Among

(* A break that is opened does not count ... *)
LEMMA AmongAppend ==
    ASSUME NEW b \in Seq(Break), NEW L, "open" \notin L
    PROVE  Among(Append(b, "open"), L) = Among(b, L)
<1>1. {i \in DOMAIN Append(b, "open") : Append(b, "open")[i] \in L}
        = {i \in DOMAIN b : b[i] \in L}
  OBVIOUS
<1> QED BY <1>1 DEF Among

(* ... and counts as long as it was, once it is ended.                     *)
LEMMA EndedLast ==
    ASSUME NEW b \in Seq(Break), b # <<>>, NEW length \in Length
    PROVE  /\ EndLast(b, length) \in Seq(Break)
           /\ Len(EndLast(b, length)) = Len(b)
           /\ EndLast(b, length)[Len(b)] = length
           /\ \A k \in DOMAIN b : k # Len(b) => EndLast(b, length)[k] = b[k]
<1> DEFINE c == EndLast(b, length)
<1>0. length \in Break BY DEF Break
<1>1. c = [b EXCEPT ![Len(b)] = length] BY DEF EndLast
<1>2. Len(b) \in DOMAIN b OBVIOUS
<1> QED BY <1>0, <1>1, <1>2

LEMMA EndedCounts ==
    ASSUME NEW b \in Seq(Break), b # <<>>, b[Len(b)] = "open", NEW length \in Length,
           NEW L, "open" \notin L
    PROVE  Among(EndLast(b, length), L) = Among(b, L) + (IF length \in L THEN 1 ELSE 0)
<1> DEFINE c == EndLast(b, length)
           E == {i \in DOMAIN b : b[i] \in L}
           F == {i \in DOMAIN c : c[i] \in L}
<1>1. /\ c \in Seq(Break)
      /\ Len(c) = Len(b)
      /\ c[Len(b)] = length
      /\ \A k \in DOMAIN b : k # Len(b) => c[k] = b[k]
  BY EndedLast
<1> HIDE DEF c
<1>2. DOMAIN c = DOMAIN b /\ Len(b) \in DOMAIN b BY <1>1
<1>3. Len(b) \notin E OBVIOUS
<1>4. IsFiniteSet(E) /\ Cardinality(E) \in Nat BY AmongType DEF Among
<1>5. CASE length \in L
  <2>1. F = E \cup {Len(b)} BY <1>1, <1>2, <1>5
  <2>2. Cardinality(F) = Cardinality(E) + 1 BY <1>3, <1>4, <2>1, FS_AddElement
  <2> QED BY <1>5, <2>2 DEF Among, c
<1>6. CASE length \notin L
  <2>1. F = E BY <1>1, <1>2, <1>3, <1>6
  <2>2. Among(EndLast(b, length), L) = Among(b, L) BY <2>1 DEF Among, c
  <2>3. Among(b, L) \in Nat BY AmongType
  <2> QED BY <1>6, <2>2, <2>3
<1> QED BY <1>5, <1>6

LEMMA BreakMinutesType ==
    ASSUME NEW s \in Shift
    PROVE  BreakMinutes(s) \in Nat
BY CountsType DEF BreakMinutes, Shift

(* What each operation writes is a row, and which columns it leaves alone. *)
LEMMA WrittenType ==
    ASSUME NEW s \in Shift, NEW x \in Shift
    PROVE  /\ AutoClosed(s) \in Shift
           /\ CheckedOut(s, x) \in Shift
           /\ BreakStarted(s, x) \in Shift
           /\ \A length \in Length : BreakEnded(s, x, length) \in Shift
<1>0. /\ "completed" \in Status /\ "present" \in Status /\ "on_break" \in Status
      /\ "auto" \in Out /\ "reported" \in Out /\ "open" \in Break /\ Length \subseteq Break
  BY DEF Status, Out, Break
<1>1. AutoClosed(s) \in Shift BY <1>0 DEF AutoClosed, Shift
<1>2. CheckedOut(s, x) \in Shift BY <1>0, BreakMinutesType DEF CheckedOut, Shift
<1>3. BreakStarted(s, x) \in Shift
  <2>1. x.count + 1 \in Nat /\ Append(x.details, "open") \in Seq(Break) BY <1>0 DEF Shift
  <2> QED BY <1>0, <2>1 DEF BreakStarted, Shift
<1>4. ASSUME NEW length \in Length PROVE BreakEnded(s, x, length) \in Shift
  <2>1. x.total + (IF length \in {"minute", "over"} THEN 1 ELSE 0) \in Nat BY DEF Shift
  <2>2. EndLast(x.details, length) \in Seq(Break)
    <3>1. CASE x.details = <<>>
      BY <3>1, <1>0 DEF EndLast
    <3>2. CASE x.details # <<>>
      BY <3>2, EndedLast DEF Shift
    <3> QED BY <3>1, <3>2
  <2> QED BY <1>0, <2>1, <2>2 DEF BreakEnded, Shift
<1> QED BY <1>1, <1>2, <1>3, <1>4

(* One row is replaced. *)
LEMMA Replaced ==
    ASSUME shift \in Seq(Shift), NEW i \in DOMAIN shift, NEW t \in Shift,
           shift' = [shift EXCEPT ![i] = t]
    PROVE  /\ shift' \in Seq(Shift)
           /\ DOMAIN shift' = DOMAIN shift
           /\ shift'[i] = t
           /\ \A j \in DOMAIN shift : j # i => shift'[j] = shift[j]
OBVIOUS

(* One row is inserted. *)
LEMMA Inserted ==
    ASSUME shift \in Seq(Shift), NEW t \in Shift, shift' = Append(shift, t)
    PROVE  /\ shift' \in Seq(Shift)
           /\ DOMAIN shift' = DOMAIN shift \cup {Len(shift) + 1}
           /\ Len(shift) + 1 \notin DOMAIN shift
           /\ shift'[Len(shift) + 1] = t
           /\ \A j \in DOMAIN shift : shift'[j] = shift[j]
OBVIOUS

-----------------------------------------------------------------------------
(* What each operation writes keeps the records of the row consistent, if  *)
(* it was computed from the row itself.                                    *)
LEMMA NewShiftConsistent ==
    ASSUME NEW q \in Call, q.op \in {"in", "machine_in"}
    PROVE  Consistent(NewShift(q))
<1>1. q.status \in Carried BY CallType
<1>2. WholeMinutes(<<>>) = 0 BY AmongEmpty DEF WholeMinutes
<1> QED BY <1>1, <1>2 DEF Consistent, NewShift, Open

LEMMA AutoClosedConsistent ==
    ASSUME NEW s \in Shift, Consistent(s), s.status = "present"
    PROVE  /\ Consistent(AutoClosed(s))
           /\ ~Open(AutoClosed(s))
<1>1. /\ AutoClosed(s).out = "auto"
      /\ AutoClosed(s).status = "completed"
      /\ AutoClosed(s).count = s.count
      /\ AutoClosed(s).details = s.details
      /\ AutoClosed(s).total = s.total
  BY DEF AutoClosed, Shift
<1> QED BY <1>1 DEF Consistent, Open

LEMMA CheckedOutConsistent ==
    ASSUME NEW s \in Shift, Consistent(s), s.status = "present"
    PROVE  /\ Consistent(CheckedOut(s, s))
           /\ ~Open(CheckedOut(s, s))
<1> DEFINE t == CheckedOut(s, s)
<1>1. /\ t.out = "reported"
      /\ t.status = "completed"
      /\ t.deducted = BreakMinutes(s)
      /\ t.count = s.count
      /\ t.details = s.details
      /\ t.total = s.total
  BY DEF CheckedOut, Shift
<1>2. BreakMinutes(s) = s.total + RoundedUp(s.details)
  <2>1. s.total \in Nat /\ s.total = WholeMinutes(s.details) BY DEF Shift, Consistent
  <2>2. CASE s.details = <<>>
    <3>1. RoundedUp(s.details) = 0 BY <2>2, AmongEmpty DEF RoundedUp
    <3> QED BY <2>1, <2>2, <3>1 DEF BreakMinutes
  <2>3. CASE s.details # <<>> BY <2>1, <2>3 DEF BreakMinutes
  <2> QED BY <2>2, <2>3
<1> HIDE DEF t
<1>3. Consistent(t) /\ ~Open(t) BY <1>1, <1>2 DEF Consistent, Open
<1> QED BY <1>3 DEF t

LEMMA BreakStartedConsistent ==
    ASSUME NEW s \in Shift, Consistent(s), s.status = "present", Open(s)
    PROVE  Consistent(BreakStarted(s, s))
<1> DEFINE t == BreakStarted(s, s)
<1>0. s.details \in Seq(Break) BY DEF Shift
<1>1. /\ t.out = s.out
      /\ t.status = "on_break"
      /\ t.count = s.count + 1
      /\ t.details = Append(s.details, "open")
      /\ t.total = s.total
  BY DEF BreakStarted, Shift
<1> HIDE DEF t
<1>2. /\ Len(t.details) = Len(s.details) + 1
      /\ t.details[Len(t.details)] = "open"
      /\ DOMAIN t.details = DOMAIN s.details \cup {Len(t.details)}
      /\ \A k \in DOMAIN s.details : t.details[k] = s.details[k]
  BY <1>0, <1>1
<1>3. t.count = Len(t.details) BY <1>1, <1>2 DEF Consistent
<1>4. t.total = WholeMinutes(t.details)
  BY <1>0, <1>1, AmongAppend DEF Consistent, WholeMinutes
<1>5. Open(t) /\ t.out # "reported" BY <1>1 DEF Open
<1>6. \A k \in DOMAIN t.details : t.details[k] = "open" => k = Len(t.details)
  BY <1>2 DEF Consistent
<1>7. Consistent(t) BY <1>1, <1>2, <1>3, <1>4, <1>5, <1>6 DEF Consistent
<1> QED BY <1>7 DEF t

LEMMA BreakEndedConsistent ==
    ASSUME NEW s \in Shift, Consistent(s), s.status = "on_break", Open(s), s.count > 0,
           NEW length \in Length
    PROVE  Consistent(BreakEnded(s, s, length))
<1> DEFINE t == BreakEnded(s, s, length)
           more == IF length \in {"minute", "over"} THEN 1 ELSE 0
<1>0. /\ s.details \in Seq(Break)
      /\ s.details # <<>>
      /\ s.details[Len(s.details)] = "open"
  BY DEF Shift, Consistent
<1>1. /\ t.out = s.out
      /\ t.status = "present"
      /\ t.count = s.count
      /\ t.details = EndLast(s.details, length)
      /\ t.total = s.total + more
  BY DEF BreakEnded, Shift
<1> HIDE DEF t
<1>2. /\ t.details \in Seq(Break)
      /\ Len(t.details) = Len(s.details)
      /\ t.details[Len(s.details)] = length
      /\ \A k \in DOMAIN s.details : k # Len(s.details) => t.details[k] = s.details[k]
  BY <1>0, <1>1, EndedLast
<1>9. WholeMinutes(t.details) = WholeMinutes(s.details) + more
  BY <1>0, <1>1, EndedCounts DEF WholeMinutes
<1>3. t.count = Len(t.details) BY <1>1, <1>2 DEF Consistent
<1>4. t.total = WholeMinutes(t.details) BY <1>1, <1>9 DEF Consistent
<1>5. Open(t) /\ t.out # "reported" BY <1>1 DEF Open
<1>6. DOMAIN t.details = DOMAIN s.details BY <1>0, <1>2
<1>7. \A k \in DOMAIN t.details : t.details[k] # "open"
  BY <1>2, <1>6 DEF Consistent, Length
<1>8. Consistent(t) BY <1>1, <1>3, <1>4, <1>5, <1>7 DEF Consistent
<1> QED BY <1>8 DEF t

-----------------------------------------------------------------------------
(* Typed is inductive by itself. *)
LEMMA AnsweredTyped ==
    ASSUME Typed, NEW d \in Device, Answered(d),
           shift' \in Seq(Shift), DOMAIN shift \subseteq DOMAIN shift'
    PROVE  /\ pc' \in [Device -> PC]
           /\ call' \in [Device -> Call \cup {NoCall}]
           /\ held' \in [Device -> DOMAIN shift' \cup {0}]
           /\ read' \in [Device -> Shift \cup {NoShift}]
           /\ Holds'
<1> USE DEF Typed, TypeOK, Answered
<1>1. /\ pc' \in [Device -> PC]
      /\ call' \in [Device -> Call \cup {NoCall}]
      /\ held' \in [Device -> DOMAIN shift' \cup {0}]
      /\ read' \in [Device -> Shift \cup {NoShift}]
  BY DEF PC
<1>2. \A e \in Device : e # d => /\ pc'[e] = pc[e]
                               /\ call'[e] = call[e]
                               /\ held'[e] = held[e]
                               /\ read'[e] = read[e]
  OBVIOUS
<1>3. pc'[d] = "idle" OBVIOUS
<1>4. Holds' BY <1>2, <1>3 DEF Holds
<1> QED BY <1>1, <1>4

LEMMA TypedStep == Typed /\ [Next]_vars => Typed'
<1> SUFFICES ASSUME Typed, [Next]_vars PROVE Typed'
  OBVIOUS
<1> USE DEF Typed
<1>1. ASSUME NEW d \in Device, NEW q \in Call, Begin(d, q) PROVE Typed'
  <2>1. calls' \in 0 .. MaxCalls /\ overlapped' \in BOOLEAN
    BY <1>1, AttendanceAssumption DEF TypeOK, Begin
  <2>2. TypeOK' BY <1>1, <2>1 DEF TypeOK, Begin, PC
  <2>3. Holds' BY <1>1 DEF TypeOK, Holds, Begin
  <2> QED BY <2>2, <2>3
<1>2. ASSUME NEW d \in Device, LookIn(d) PROVE Typed'
  <2>1. TypeOK' BY <1>2 DEF TypeOK, LookIn, PC
  <2>2. Holds' BY <1>2 DEF TypeOK, Holds, LookIn
  <2> QED BY <2>1, <2>2
<1>3. ASSUME NEW d \in Device, RefuseIn(d) \/ RefuseShift(d) \/ Fail(d) PROVE Typed'
  <2>1. Answered(d) /\ UNCHANGED <<shift, calls, overlapped, unseen>>
    BY <1>3 DEF RefuseIn, RefuseShift, Fail
  <2>2. shift' \in Seq(Shift) /\ DOMAIN shift' = DOMAIN shift BY <2>1 DEF TypeOK
  <2> QED BY <2>1, <2>2, AnsweredTyped DEF TypeOK
<1>4. ASSUME NEW d \in Device, LookOld(d) PROVE Typed'
  <2>1. PICK i \in Active : Select(d, i) BY <1>4 DEF LookOld
  <2>2. i \in DOMAIN shift /\ shift[i] \in Shift BY DEF Active, TypeOK
  <2>3. TypeOK' BY <1>4, <2>1, <2>2 DEF TypeOK, LookOld, Select, PC
  <2>4. Holds' BY <1>4, <2>1, <2>2 DEF TypeOK, Holds, LookOld, Select
  <2> QED BY <2>3, <2>4
<1>5. ASSUME NEW d \in Device, AutoClose(d) PROVE Typed'
  <2>1. held[d] \in DOMAIN shift /\ shift[held[d]] \in Shift
    BY <1>5 DEF AutoClose, Holds, TypeOK
  <2>2. shift' = [shift EXCEPT ![held[d]] = AutoClosed(shift[held[d]])]
    BY <1>5 DEF AutoClose
  <2>3. shift' \in Seq(Shift) /\ DOMAIN shift' = DOMAIN shift
    BY <2>1, <2>2, WrittenType, Replaced DEF TypeOK
  <2>4. TypeOK' BY <1>5, <2>3 DEF TypeOK, AutoClose, PC
  <2>5. Holds' BY <1>5, <2>3 DEF TypeOK, Holds, AutoClose
  <2> QED BY <2>4, <2>5
<1>6. ASSUME NEW d \in Device, Insert(d) PROVE Typed'
  <2>1. NewShift(call[d]) \in Shift BY <1>6, NewShiftType DEF Insert, Holds
  <2>2. shift' \in Seq(Shift) /\ DOMAIN shift \subseteq DOMAIN shift'
    BY <1>6, <2>1, Inserted DEF Insert, TypeOK
  <2>3. Answered(d) /\ UNCHANGED <<calls, overlapped>> /\ unseen' \in BOOLEAN
    BY <1>6 DEF Insert, TypeOK
  <2> QED BY <2>2, <2>3, AnsweredTyped DEF TypeOK
<1>7. ASSUME NEW d \in Device, LookShift(d) PROVE Typed'
  <2>1. PICK i \in Latest(Candidates(call[d].op)) : Select(d, i) BY <1>7 DEF LookShift
  <2>2. i \in DOMAIN shift /\ shift[i] \in Shift
    BY DEF Latest, Candidates, Active, OnBreak, TypeOK
  <2>3. TypeOK' BY <1>7, <2>1, <2>2 DEF TypeOK, LookShift, Select, PC
  <2>4. Holds' BY <1>7, <2>1, <2>2 DEF TypeOK, Holds, LookShift, Select
  <2> QED BY <2>3, <2>4
<1>8. ASSUME NEW d \in Device, CheckOut(d) \/ StartBreak(d) \/ EndBreak(d) PROVE Typed'
  <2>1. /\ held[d] \in DOMAIN shift
        /\ shift[held[d]] \in Shift
        /\ read[d] \in Shift
    BY <1>8 DEF CheckOut, StartBreak, EndBreak, Holds, TypeOK
  <2>2. \E t \in Shift : shift' = [shift EXCEPT ![held[d]] = t]
    BY <1>8, <2>1, WrittenType DEF CheckOut, StartBreak, EndBreak
  <2>3. shift' \in Seq(Shift) /\ DOMAIN shift' = DOMAIN shift
    BY <2>1, <2>2, Replaced DEF TypeOK
  <2>4. Answered(d) /\ UNCHANGED <<calls, overlapped, unseen>>
    BY <1>8 DEF CheckOut, StartBreak, EndBreak
  <2> QED BY <2>3, <2>4, AnsweredTyped DEF TypeOK
<1>9. CASE UNCHANGED vars
  BY <1>9 DEF TypeOK, Holds, vars
<1> QED BY <1>1, <1>2, <1>3, <1>4, <1>5, <1>6, <1>7, <1>8, <1>9 DEF Next

LEMMA InitInv == Init => Inv
<1> SUFFICES ASSUME Init PROVE Inv
  OBVIOUS
<1>1. TypeOK
  <2>1. shift \in Seq(Shift) BY DEF Init
  <2>2. calls \in 0 .. MaxCalls BY AttendanceAssumption DEF Init
  <2> QED BY <2>1, <2>2 DEF Init, TypeOK, PC
<1>4. Holds BY DEF Init, Holds
<1>2. Alone /\ AllConsistent BY DEF Init, Alone, AllConsistent
<1>3. Single BY DEF Init, Single, OpenShifts
<1> QED BY <1>1, <1>2, <1>3, <1>4 DEF Inv, Typed

-----------------------------------------------------------------------------
(* The records of a shift, while one call is in progress at a time.  An    *)
(* operation that updates a row, or inserts one, and answers ...           *)
LEMMA UpdatedAgree ==
    ASSUME Typed, AllConsistent, NEW i \in DOMAIN shift,
           NEW t \in Shift, Consistent(t), Open(t) => Open(shift[i]),
           shift' = [shift EXCEPT ![i] = t]
    PROVE  AllConsistent' /\ OpenShifts' \subseteq OpenShifts
<1>1. /\ DOMAIN shift' = DOMAIN shift
      /\ shift'[i] = t
      /\ \A j \in DOMAIN shift : j # i => shift'[j] = shift[j]
  BY Replaced DEF Typed, TypeOK
<1>2. AllConsistent'
  <2> SUFFICES ASSUME NEW j \in DOMAIN shift PROVE Consistent(shift'[j])
    BY <1>1 DEF AllConsistent
  <2>1. CASE j = i BY <2>1, <1>1
  <2>2. CASE j # i BY <2>2, <1>1 DEF AllConsistent
  <2> QED BY <2>1, <2>2
<1>3. OpenShifts' \subseteq OpenShifts BY <1>1 DEF OpenShifts
<1> QED BY <1>2, <1>3

(* ... is left alone afterwards: no other call was in progress.            *)
LEMMA AnsweredAlone ==
    ASSUME Typed, Alone, NEW d \in Device, pc[d] # "idle", Answered(d)
    PROVE  /\ Alone'
           /\ \A e \in Device : pc'[e] = "idle"
<1>1. \A e \in Device : pc'[e] = "idle" BY DEF Typed, TypeOK, Answered, Alone
<1> QED BY <1>1 DEF Alone

(* The row an update is computed from, and what it is written over.        *)
LEMMA UpdateWrites ==
    ASSUME Typed, Alone, AllConsistent, NEW d \in Device,
           AutoClose(d) \/ CheckOut(d) \/ StartBreak(d) \/ EndBreak(d)
    PROVE  \E t \in Shift :
             /\ shift' = [shift EXCEPT ![held[d]] = t]
             /\ held[d] \in DOMAIN shift
             /\ Open(shift[held[d]])
             /\ Consistent(t)
<1> DEFINE s == shift[held[d]]
<1>1. /\ pc[d] \in {"closing", "updating"}
      /\ held[d] \in DOMAIN shift
      /\ s \in Shift
      /\ read[d] = s
      /\ held[d] \in Candidates(call[d].op)
      /\ Consistent(s)
  BY DEF AutoClose, CheckOut, StartBreak, EndBreak, Typed, TypeOK, Holds, Alone, AllConsistent
<1>2. Open(s) BY <1>1 DEF Candidates, Active, OnBreak
<1>3. call[d].op # "end_break" => s.status = "present"
  BY <1>1 DEF Candidates, Active
<1>4. CASE AutoClose(d)
  <2>1. call[d].op # "end_break" BY <1>4 DEF AutoClose, Typed, Holds
  <2>2. shift' = [shift EXCEPT ![held[d]] = AutoClosed(s)] BY <1>4 DEF AutoClose
  <2> QED BY <1>1, <1>2, <1>3, <2>1, <2>2, WrittenType, AutoClosedConsistent
<1>5. CASE CheckOut(d)
  <2>1. shift' = [shift EXCEPT ![held[d]] = CheckedOut(s, s)] BY <1>1, <1>5 DEF CheckOut
  <2>2. s.status = "present" BY <1>3, <1>5 DEF CheckOut
  <2> QED BY <1>1, <1>2, <2>1, <2>2, WrittenType, CheckedOutConsistent
<1>6. CASE StartBreak(d)
  <2>1. shift' = [shift EXCEPT ![held[d]] = BreakStarted(s, s)] BY <1>1, <1>6 DEF StartBreak
  <2>2. s.status = "present" BY <1>3, <1>6 DEF StartBreak
  <2> QED BY <1>1, <1>2, <2>1, <2>2, WrittenType, BreakStartedConsistent
<1>7. CASE EndBreak(d)
  <2>1. PICK length \in Length : shift' = [shift EXCEPT ![held[d]] = BreakEnded(s, s, length)]
    BY <1>1, <1>7 DEF EndBreak
  <2>2. s.status = "on_break" /\ s.count > 0
    BY <1>1, <1>7 DEF EndBreak, Candidates, OnBreak
  <2> QED BY <1>1, <1>2, <2>1, <2>2, WrittenType, BreakEndedConsistent
<1> QED BY <1>4, <1>5, <1>6, <1>7

LEMMA AgreeStep ==
    ASSUME Typed, Alone, AllConsistent, [Next]_vars, ~overlapped'
    PROVE  Alone' /\ AllConsistent'
<1> USE DEF Typed
<1>1. ASSUME NEW d \in Device, NEW q \in Call, Begin(d, q) PROVE Alone' /\ AllConsistent'
  <2>1. \A e \in Device : pc[e] = "idle" BY <1>1 DEF Begin
  <2>2. Alone' BY <1>1, <2>1 DEF Begin, Alone, TypeOK
  <2>3. AllConsistent' BY <1>1 DEF Begin, AllConsistent
  <2> QED BY <2>2, <2>3
<1>2. ASSUME NEW d \in Device, LookIn(d) PROVE Alone' /\ AllConsistent'
  <2>1. Alone' BY <1>2 DEF LookIn, Alone, TypeOK, Candidates, Active, OnBreak
  <2>2. AllConsistent' BY <1>2 DEF LookIn, AllConsistent
  <2> QED BY <2>1, <2>2
<1>3. ASSUME NEW d \in Device, RefuseIn(d) \/ RefuseShift(d) \/ Fail(d)
      PROVE  Alone' /\ AllConsistent'
  <2>1. pc[d] # "idle" /\ Answered(d) /\ UNCHANGED shift
    BY <1>3 DEF RefuseIn, RefuseShift, Fail
  <2>2. AllConsistent' BY <2>1 DEF AllConsistent
  <2> QED BY <2>1, <2>2, AnsweredAlone
<1>4. ASSUME NEW d \in Device, LookOld(d) \/ LookShift(d) PROVE Alone' /\ AllConsistent'
  <2>1. /\ pc[d] = "looking"
        /\ pc' = [pc EXCEPT ![d] = IF LookOld(d) THEN "closing" ELSE "updating"]
        /\ UNCHANGED <<shift, call>>
    BY <1>4 DEF LookOld, LookShift
  <2>2. PICK i \in Candidates(call[d].op) : Select(d, i)
    BY <1>4 DEF LookOld, LookShift, Latest, Candidates
  <2>3. held'[d] = i /\ read'[d] = shift[i] BY <2>2 DEF Select, TypeOK
  <2>4. Candidates(call[d].op)' = Candidates(call[d].op)
    BY <2>1 DEF Candidates, Active, OnBreak
  <2>5. \A e \in Device : e # d => pc'[e] = "idle" BY <2>1 DEF Alone, TypeOK
  <2>6. Alone' BY <2>1, <2>2, <2>3, <2>4, <2>5 DEF Alone
  <2>7. AllConsistent' BY <2>1 DEF AllConsistent
  <2> QED BY <2>6, <2>7
<1>5. ASSUME NEW d \in Device, AutoClose(d) PROVE Alone' /\ AllConsistent'
  <2>1. AllConsistent' BY <1>5, UpdateWrites, UpdatedAgree
  <2>2. \A e \in Device : e # d => pc'[e] = "idle" BY <1>5 DEF AutoClose, Alone, TypeOK
  <2>3. pc'[d] = "inserting" BY <1>5 DEF AutoClose, TypeOK
  <2> QED BY <2>1, <2>2, <2>3 DEF Alone
<1>6. ASSUME NEW d \in Device, Insert(d) PROVE Alone' /\ AllConsistent'
  <2>1. call[d] \in Call /\ call[d].op \in {"in", "machine_in"}
    BY <1>6 DEF Insert, Holds
  <2>2. NewShift(call[d]) \in Shift /\ Consistent(NewShift(call[d]))
    BY <2>1, NewShiftType, NewShiftConsistent
  <2>3. AllConsistent' BY <1>6, <2>2, Inserted DEF Insert, TypeOK, AllConsistent
  <2> QED BY <1>6, <2>3, AnsweredAlone DEF Insert
<1>7. ASSUME NEW d \in Device, CheckOut(d) \/ StartBreak(d) \/ EndBreak(d)
      PROVE  Alone' /\ AllConsistent'
  <2>1. AllConsistent' BY <1>7, UpdateWrites, UpdatedAgree
  <2>2. pc[d] # "idle" /\ Answered(d) BY <1>7 DEF CheckOut, StartBreak, EndBreak
  <2> QED BY <2>1, <2>2, AnsweredAlone
<1>8. CASE UNCHANGED vars
  BY <1>8 DEF vars, Alone, AllConsistent, Candidates, Active, OnBreak
<1> QED BY <1>1, <1>2, <1>3, <1>4, <1>5, <1>6, <1>7, <1>8 DEF Next

-----------------------------------------------------------------------------
(* One open shift, while no check-in was inserted beside an unseen one.    *)
LEMMA SingleStep ==
    ASSUME Typed, Alone, AllConsistent, Single, [Next]_vars, ~overlapped', ~unseen'
    PROVE  Single'
<1> USE DEF Typed
<1>1. ASSUME UNCHANGED shift, \A d \in Device : pc'[d] = "inserting" => pc[d] = "inserting"
      PROVE  Single'
  BY <1>1 DEF Single, OpenShifts, Active
<1>2. ASSUME NEW d \in Device, NEW q \in Call, Begin(d, q) PROVE Single'
  BY <1>1, <1>2 DEF Begin, TypeOK
<1>3. ASSUME NEW d \in Device, LookIn(d) PROVE Single'
  BY <1>3 DEF LookIn, Single, OpenShifts, Active
<1>4. ASSUME NEW d \in Device, RefuseIn(d) \/ RefuseShift(d) \/ Fail(d) PROVE Single'
  BY <1>1, <1>4 DEF RefuseIn, RefuseShift, Fail, Answered, TypeOK
<1>5. ASSUME NEW d \in Device, LookOld(d) \/ LookShift(d) PROVE Single'
  BY <1>1, <1>5 DEF LookOld, LookShift, TypeOK
<1>6. ASSUME NEW d \in Device, AutoClose(d) PROVE Single'
  <2> DEFINE i == held[d]
  <2>1. i \in DOMAIN shift /\ shift[i] \in Shift BY <1>6 DEF AutoClose, Holds, TypeOK
  <2>2. i \in OpenShifts
    BY <1>6, <2>1 DEF AutoClose, Alone, Candidates, Active, OnBreak, OpenShifts
  <2>3. AutoClosed(shift[i]) \in Shift /\ AutoClosed(shift[i]).out = "auto"
    BY <2>1, WrittenType DEF AutoClosed, Shift
  <2>4. /\ DOMAIN shift' = DOMAIN shift
        /\ shift'[i] = AutoClosed(shift[i])
        /\ \A j \in DOMAIN shift : j # i => shift'[j] = shift[j]
    BY <1>6, <2>1, <2>3, Replaced DEF AutoClose, TypeOK
  <2>5. OpenShifts' = {} BY <2>2, <2>3, <2>4 DEF Single, OpenShifts, Open
  <2>6. Active' = {} BY <2>5 DEF Active, OpenShifts
  <2> QED BY <2>5, <2>6 DEF Single
<1>7. ASSUME NEW d \in Device, Insert(d) PROVE Single'
  <2>1. \A i \in OpenShifts : shift[i].status = "present"
    BY <1>7 DEF Insert, OpenShifts, AllConsistent, Consistent
  <2>2. OpenShifts = {} BY <1>7, <2>1 DEF Insert, Single, OpenShifts, Active
  <2>3. NewShift(call[d]) \in Shift BY <1>7, NewShiftType DEF Insert, Holds
  <2>4. OpenShifts' \subseteq {Len(shift) + 1}
    BY <1>7, <2>2, <2>3, Inserted DEF Insert, TypeOK, OpenShifts
  <2>5. \A e \in Device : pc'[e] = "idle" BY <1>7, AnsweredAlone DEF Insert
  <2> QED BY <2>4, <2>5 DEF Single
<1>8. ASSUME NEW d \in Device, CheckOut(d) \/ StartBreak(d) \/ EndBreak(d) PROVE Single'
  <2>1. OpenShifts' \subseteq OpenShifts BY <1>8, UpdateWrites, UpdatedAgree
  <2>2. pc[d] # "idle" /\ Answered(d) BY <1>8 DEF CheckOut, StartBreak, EndBreak
  <2>3. \A e \in Device : pc'[e] = "idle" BY <2>2, AnsweredAlone
  <2> QED BY <2>1, <2>3 DEF Single
<1>9. CASE UNCHANGED vars
  BY <1>1, <1>9 DEF vars
<1> QED BY <1>2, <1>3, <1>4, <1>5, <1>6, <1>7, <1>8, <1>9 DEF Next

(* An overlap, and an unseen shift, are remembered. *)
LEMMA Remembered ==
    ASSUME [Next]_vars
    PROVE  (overlapped => overlapped') /\ (unseen => unseen')
<1>1. ASSUME NEW d \in Device, NEW q \in Call, Begin(d, q)
      PROVE  (overlapped => overlapped') /\ (unseen => unseen')
  BY <1>1 DEF Begin
<1>2. ASSUME NEW d \in Device, Insert(d)
      PROVE  (overlapped => overlapped') /\ (unseen => unseen')
  BY <1>2 DEF Insert
<1>3. CASE UNCHANGED <<overlapped, unseen>>
  BY <1>3
<1>4. \/ \E d \in Device : Insert(d) \/ \E q \in Call : Begin(d, q)
      \/ UNCHANGED <<overlapped, unseen>>
  BY DEF Next, vars, LookIn, RefuseIn, LookOld, AutoClose, LookShift, RefuseShift,
         CheckOut, StartBreak, EndBreak, Fail
<1> QED BY <1>1, <1>2, <1>3, <1>4

LEMMA InvStep == Inv /\ [Next]_vars => Inv'
<1> SUFFICES ASSUME Inv, [Next]_vars PROVE Inv'
  OBVIOUS
<1>1. Typed /\ Typed' BY TypedStep DEF Inv
<1>2. ASSUME ~overlapped' PROVE Alone' /\ AllConsistent'
  BY <1>1, <1>2, Remembered, AgreeStep DEF Inv
<1>3. ASSUME ~overlapped', ~unseen' PROVE Single'
  BY <1>1, <1>3, Remembered, SingleStep DEF Inv
<1> QED BY <1>1, <1>2, <1>3 DEF Inv

THEOREM Inductive == Spec => []Inv
BY InitInv, InvStep, PTL DEF Spec

-----------------------------------------------------------------------------
(* The rows and the calls in progress stay in their sets. *)
THEOREM AttendanceTyping == Spec => []TypeOK
<1>1. Inv => TypeOK BY DEF Inv, Typed
<1> QED BY <1>1, Inductive, PTL

(* checkIn() leaves a user whose calls do not overlap, and who never       *)
(* checks in beside a shift it does not look for, at most one open shift.  *)
THEOREM OneOpen == Spec => []OneOpenShift
<1>1. ASSUME Inv PROVE OneOpenShift
  <2> SUFFICES ASSUME ~overlapped, ~unseen PROVE Cardinality(OpenShifts) <= 1
    BY DEF OneOpenShift
  <2>1. \A i, j \in OpenShifts : i = j BY <1>1 DEF Inv, Single
  <2>2. CASE OpenShifts = {} BY <2>2, FS_EmptySet
  <2>3. ASSUME NEW i \in OpenShifts PROVE Cardinality(OpenShifts) <= 1
    <3>1. OpenShifts = {i} BY <2>1
    <3>2. Cardinality({i}) = 1 BY FS_Singleton
    <3> QED BY <3>1, <3>2
  <2> QED BY <2>2, <2>3
<1> QED BY <1>1, Inductive, PTL

(* startBreak() and endBreak() keep the counters and the list of a shift's *)
(* breaks together, however many breaks it has.                            *)
THEOREM BreaksAgreeAlways == Spec => []BreaksAgree
<1>1. Inv => BreaksAgree BY DEF Inv, AllConsistent, Consistent, BreaksAgree
<1> QED BY <1>1, Inductive, PTL

(* checkOut() deducts what endBreak() has added up, and one minute for     *)
(* each break that rounding gives one, so at most one for each break.      *)
THEOREM BreaksDeducted == Spec => []DeductsBreaks
<1>1. ASSUME Inv PROVE DeductsBreaks
  <2> SUFFICES ASSUME ~overlapped, NEW i \in DOMAIN shift, shift[i].out = "reported"
               PROVE  /\ shift[i].deducted = shift[i].total + RoundedUp(shift[i].details)
                      /\ shift[i].deducted <= shift[i].total + shift[i].count
    BY DEF DeductsBreaks
  <2> DEFINE s == shift[i]
  <2>1. s \in Shift /\ Consistent(s) BY <1>1 DEF Inv, Typed, TypeOK, AllConsistent
  <2>2. s.deducted = s.total + RoundedUp(s.details) /\ s.count = Len(s.details)
    BY <2>1 DEF Consistent
  <2>3. s.details \in Seq(Break) /\ s.total \in Nat BY <2>1 DEF Shift
  <2> QED BY <2>2, <2>3, CountsType
<1> QED BY <1>1, Inductive, PTL

(* No operation writes to a shift that has been checked out or closed.     *)
THEOREM ClosedStays == Spec => ClosedIsUntouched
<1> DEFINE Untouched == ~overlapped' => \A i \in DOMAIN shift :
                          ~Open(shift[i]) => shift'[i] = shift[i]
<1>1. ASSUME Inv, Next PROVE Untouched
  <2> SUFFICES ASSUME ~overlapped', NEW i \in DOMAIN shift, ~Open(shift[i])
               PROVE  shift'[i] = shift[i]
    OBVIOUS
  <2>1. Typed /\ Alone /\ AllConsistent BY <1>1, Remembered DEF Inv
  <2>2. CASE UNCHANGED shift BY <2>2
  <2>3. ASSUME NEW d \in Device, Insert(d) PROVE shift'[i] = shift[i]
    <3>1. NewShift(call[d]) \in Shift BY <2>1, <2>3, NewShiftType DEF Insert, Typed, Holds
    <3> QED BY <2>1, <2>3, <3>1, Inserted DEF Insert, Typed, TypeOK
  <2>4. ASSUME NEW d \in Device,
               AutoClose(d) \/ CheckOut(d) \/ StartBreak(d) \/ EndBreak(d)
        PROVE  shift'[i] = shift[i]
    BY <2>1, <2>4, UpdateWrites, Replaced DEF Typed, TypeOK
  <2> QED
    BY <1>1, <2>2, <2>3, <2>4
    DEF Next, Begin, LookIn, RefuseIn, LookOld, LookShift, RefuseShift, Fail
<1>2. Inv /\ [Next]_vars => [Untouched]_vars BY <1>1
<1> QED BY <1>2, Inductive, PTL DEF Spec, ClosedIsUntouched
=============================================================================
