--------------------------- MODULE CountingProofs ---------------------------
(***************************************************************************)
(* Proofs about Targets, LicenseUsage, Rewards and Loyalty: what is        *)
(* counted is counted once, for any number of events, licences and calls.  *)
(***************************************************************************)
EXTENDS Targets, LicenseUsage, Rewards, Loyalty, FiniteSetTheorems, SequenceTheorems, TLAPS

(* What was done up to time n.                                             *)
DoneBy(n) == {t \in activities : t <= n}

(* A row that counts nothing twice.                                        *)
Honest(row) == row.archived + row.current <= row.given + Cardinality(DoneBy(row.last))

Differing(k) == {c \in Column : job[k].copy[c] # target[c]}

(* The entity a job holds counts nothing twice, and what the job is about  *)
(* to update makes the row that entity.                                    *)
Sound(k) ==
    /\ job[k].copy.last <= clock
    /\ k = "calculate" /\ job[k].pc = "finding" => job[k].copy.last <= job[k].end
    /\ ~savesCrossed => /\ Honest(job[k].copy)
                        /\ job[k].pc = "updating" => job[k].columns = Differing(k)

TargetInv ==
    /\ TargetsTypeOK
    /\ target.last <= clock
    /\ ~savesCrossed => Honest(target)
    /\ \A k \in Job : Sound(k)

JobRecord(n) == [pc: JobPC, copy: TargetRow, end: 0 .. n, columns: SUBSET Column]

-----------------------------------------------------------------------------
LEMMA RowTypes ==
    ASSUME NEW row \in TargetRow
    PROVE  /\ row.current \in Int /\ row.last \in Int /\ row.given \in Int
           /\ row.archived \in Int /\ row.period \in Int
BY DEF TargetRow, Field, Column

LEMMA FieldSet ==
    ASSUME NEW row \in TargetRow, NEW f \in Field, NEW v \in Int
    PROVE  [row EXCEPT ![f] = v] \in TargetRow
BY DEF TargetRow

LEMMA TargetTypes ==
    ASSUME TargetsTypeOK
    PROVE  /\ clock \in Nat /\ target \in TargetRow
           /\ job \in [Job -> JobRecord(clock)]
           /\ \A k \in Job : /\ job[k] \in JobRecord(clock)
                             /\ job[k].copy \in TargetRow
                             /\ job[k].end \in 0 .. clock
BY DEF TargetsTypeOK, JobRecord

LEMMA DoneByFinite ==
    ASSUME TargetsTypeOK, NEW n
    PROVE  IsFiniteSet(DoneBy(n)) /\ Cardinality(DoneBy(n)) \in Nat
<1>1. IsFiniteSet(1 .. clock) BY FS_Interval DEF TargetsTypeOK
<1>2. DoneBy(n) \subseteq 1 .. clock BY DEF TargetsTypeOK, DoneBy
<1> QED BY <1>1, <1>2, FS_Subset, FS_CardinalityType

(* More is done as time goes on. *)
LEMMA HonestStays ==
    ASSUME TargetsTypeOK, TargetsTypeOK', activities \subseteq activities',
           NEW row \in TargetRow, Honest(row)
    PROVE  row.archived + row.current <= row.given + Cardinality(DoneBy(row.last)')
<1> DEFINE n == row.last
           now == DoneBy(n)
           later == DoneBy(n)'
<1>1. IsFiniteSet(later) /\ Cardinality(later) \in Nat
  <2>1. IsFiniteSet(1 .. clock') BY FS_Interval DEF TargetsTypeOK
  <2>2. later \subseteq 1 .. clock' BY DEF TargetsTypeOK, DoneBy
  <2> QED BY <2>1, <2>2, FS_Subset, FS_CardinalityType
<1>2. now \subseteq later BY DEF DoneBy
<1>3. Cardinality(now) <= Cardinality(later) /\ Cardinality(now) \in Nat
  BY <1>1, <1>2, FS_Subset, DoneByFinite
<1> QED BY <1>1, <1>3, RowTypes DEF Honest

LEMMA TargetsInitInv == TargetsInit => TargetInv
<1> SUFFICES ASSUME TargetsInit PROVE TargetInv OBVIOUS
<1>1. /\ clock = 0 /\ inserting = {} /\ activities = {} /\ target = Nothing
      /\ job = [k \in Job |-> Resting] /\ savesCrossed = FALSE /\ jobsCrossed = FALSE
  BY DEF TargetsInit
<1>2. Nothing \in TargetRow /\ \A c \in Field : Nothing[c] = 0
  BY DEF TargetRow, Nothing
<1>3. /\ Nothing.last = 0 /\ Nothing.archived = 0 /\ Nothing.current = 0
      /\ Nothing.given = 0
  BY <1>2 DEF Field, Column
<1>4. "idle" \in JobPC /\ 0 \in 0 .. clock BY <1>1 DEF JobPC
<1>5. /\ Resting \in JobRecord(clock) /\ Resting.pc = "idle" /\ Resting.copy = Nothing
  BY <1>2, <1>4 DEF Resting, JobRecord
<1>6. job \in [Job -> JobRecord(clock)] /\ \A k \in Job : job[k] = Resting
  BY <1>1, <1>5
<1>7. savesCrossed \in BOOLEAN /\ jobsCrossed \in BOOLEAN BY <1>1
<1>8. TargetsTypeOK BY <1>1, <1>2, <1>6, <1>7 DEF TargetsTypeOK, JobRecord
<1>9. Honest(Nothing) BY <1>3, <1>8, DoneByFinite DEF Honest
<1>10. \A k \in Job : Sound(k) BY <1>1, <1>3, <1>5, <1>6, <1>9 DEF Sound
<1> QED BY <1>1, <1>3, <1>8, <1>9, <1>10 DEF TargetInv

(* As long as the row is what it was, a job that does not move stays sound.*)
LEMMA StaysSound ==
    ASSUME TargetInv, TargetsTypeOK', UNCHANGED <<target, savesCrossed>>,
           clock <= clock', activities \subseteq activities',
           NEW k \in Job, job'[k] = job[k]
    PROVE  Sound(k)'
<1>1. Sound(k) /\ TargetsTypeOK BY DEF TargetInv
<1>2. /\ job[k].copy \in TargetRow /\ clock \in Nat /\ clock' \in Nat
      /\ job[k].copy.last \in Int
  BY <1>1, TargetTypes, RowTypes DEF TargetsTypeOK
<1>3. job'[k].copy.last <= clock' BY <1>1, <1>2 DEF Sound
<1>4. ~savesCrossed' => Honest(job[k].copy)'
  <2>1. SUFFICES ASSUME ~savesCrossed PROVE Honest(job[k].copy)' OBVIOUS
  <2>2. Honest(job[k].copy) BY <1>1, <2>1 DEF Sound
  <2>3. job[k].copy.archived + job[k].copy.current
          <= job[k].copy.given + Cardinality(DoneBy(job[k].copy.last)')
    BY <1>1, <1>2, <2>2, HonestStays
  <2> QED BY <2>3 DEF Honest, DoneBy
<1> QED BY <1>1, <1>3, <1>4 DEF Sound, Differing

(* One job moves, or none, and the row is what it was. *)
LEMMA JobMoves ==
    ASSUME TargetInv, TargetsTypeOK', UNCHANGED <<target, savesCrossed>>,
           clock <= clock', activities \subseteq activities',
           NEW j \in Job, Sound(j)', \A k \in Job \ {j} : job'[k] = job[k]
    PROVE  TargetInv'
<1>1. \A k \in Job : Sound(k)' BY StaysSound
<1>2. /\ TargetsTypeOK /\ target \in TargetRow /\ target.last \in Int /\ clock \in Nat
      /\ clock' \in Nat
  BY TargetTypes, RowTypes DEF TargetInv, TargetsTypeOK
<1>3. target'.last <= clock' BY <1>2 DEF TargetInv
<1>4. ~savesCrossed' => Honest(target)'
  <2>1. SUFFICES ASSUME ~savesCrossed PROVE Honest(target)' OBVIOUS
  <2>2. target.archived + target.current
          <= target.given + Cardinality(DoneBy(target.last)')
    BY <1>2, <2>1, HonestStays DEF TargetInv
  <2> QED BY <2>2 DEF Honest, DoneBy
<1> QED BY <1>1, <1>3, <1>4 DEF TargetInv

(* The row and the jobs' types when the job j becomes e. *)
LEMMA JobTypes ==
    ASSUME TargetsTypeOK, clock' \in Nat, clock <= clock', inserting' \subseteq 1 .. clock',
           activities' \subseteq 1 .. clock', target' \in TargetRow,
           savesCrossed' \in BOOLEAN, jobsCrossed' \in BOOLEAN,
           NEW j \in Job, NEW e \in JobRecord(clock'), job' = [job EXCEPT ![j] = e]
    PROVE  /\ TargetsTypeOK' /\ job'[j] = e
           /\ \A k \in Job \ {j} : job'[k] = job[k]
<1>1. JobRecord(clock) \subseteq JobRecord(clock')
  <2>1. 0 .. clock \subseteq 0 .. clock' BY TargetTypes
  <2> QED BY <2>1 DEF JobRecord
<1>2. job \in [Job -> JobRecord(clock')] BY <1>1, TargetTypes
<1>3. job' \in [Job -> JobRecord(clock')] BY <1>2
<1>4. job'[j] = e /\ \A k \in Job \ {j} : job'[k] = job[k] BY <1>2
<1> QED BY <1>3, <1>4 DEF TargetsTypeOK, JobRecord

LEMMA ActivityKeeps ==
    ASSUME TargetInv, InsertActivity \/ \E t \in inserting : CommitActivity(t)
    PROVE  TargetInv'
<1>1. /\ TargetsTypeOK /\ clock \in Nat /\ inserting \subseteq 1 .. clock
      /\ activities \subseteq 1 .. clock /\ "calculate" \in Job
      /\ \A k \in Job : Sound(k)
  BY DEF TargetInv, TargetsTypeOK, Job
<1>2. /\ clock' \in Nat /\ clock <= clock' /\ inserting' \subseteq 1 .. clock'
      /\ activities' \subseteq 1 .. clock' /\ activities \subseteq activities'
  <2>1. CASE InsertActivity
    <3>1. /\ clock' = clock + 1 /\ inserting' = inserting \cup {clock + 1}
          /\ activities' = activities
      BY <2>1 DEF InsertActivity
    <3>2. 1 .. clock \subseteq 1 .. clock' /\ clock + 1 \in 1 .. clock' BY <1>1, <3>1
    <3> QED BY <1>1, <3>1, <3>2
  <2>2. CASE \E t \in inserting : CommitActivity(t) BY <1>1, <2>2 DEF CommitActivity
  <2> QED BY <2>1, <2>2
<1>3. UNCHANGED <<target, job, savesCrossed, jobsCrossed>>
  BY DEF InsertActivity, CommitActivity
<1>4. TargetsTypeOK'
  <2>1. 0 .. clock \subseteq 0 .. clock' BY <1>1, <1>2
  <2>2. job \in [Job -> JobRecord(clock')] BY <1>1, <2>1, TargetTypes DEF JobRecord
  <2> QED BY <1>1, <1>2, <1>3, <2>2 DEF TargetsTypeOK, JobRecord
<1>5. Sound("calculate")' BY <1>1, <1>2, <1>3, <1>4, StaysSound
<1> QED BY <1>1, <1>2, <1>3, <1>4, <1>5, JobMoves

LEMMA LoadKeeps ==
    ASSUME TargetInv, NEW j \in Job, NEW p \in {"finding", "queued", "reloading"},
           NEW row \in TargetRow, row.last = target.last,
           row.current - row.given = target.current - target.given,
           row.archived = target.archived, Load(j, p, row)
    PROVE  TargetInv'
<1> DEFINE e == [pc |-> p, copy |-> row, end |-> clock + 1, columns |-> {}]
<1>1. /\ TargetsTypeOK /\ clock \in Nat /\ target \in TargetRow /\ target.last \in Int
      /\ inserting \subseteq 1 .. clock /\ activities \subseteq 1 .. clock
      /\ savesCrossed \in BOOLEAN
  BY TargetTypes, RowTypes DEF TargetInv, TargetsTypeOK
<1>2. /\ clock' = clock + 1 /\ job' = [job EXCEPT ![j] = e]
      /\ UNCHANGED <<inserting, activities, target, savesCrossed>>
  BY DEF Load
<1>3. jobsCrossed' \in BOOLEAN BY <1>1 DEF Load, TargetsTypeOK
<1>4. /\ clock' \in Nat /\ clock <= clock' /\ 1 .. clock \subseteq 1 .. clock'
      /\ clock + 1 \in 0 .. clock'
  BY <1>1, <1>2
<1>5. e \in JobRecord(clock')
  <2>1. p \in JobPC BY DEF JobPC
  <2> QED BY <1>1, <1>4, <2>1 DEF JobRecord
<1>6. e.pc = p /\ e.copy = row /\ e.end = clock + 1 OBVIOUS
<1> HIDE DEF e
<1>7. /\ TargetsTypeOK' /\ job'[j] = e /\ \A k \in Job \ {j} : job'[k] = job[k]
  BY <1>1, <1>2, <1>3, <1>4, <1>5, JobTypes
<1>8. Sound(j)'
  <2>1. target.last <= clock /\ (~savesCrossed => Honest(target)) BY DEF TargetInv
  <2>2. ~savesCrossed => Honest(row)
    <3>1. /\ row.current \in Int /\ row.given \in Int /\ target.current \in Int
          /\ target.given \in Int /\ target.archived \in Int
          /\ Cardinality(DoneBy(target.last)) \in Nat
      BY <1>1, RowTypes, DoneByFinite
    <3> QED BY <2>1, <3>1 DEF Honest
  <2>3. ~savesCrossed => row.archived + row.current
                           <= row.given + Cardinality(DoneBy(row.last)')
    BY <1>1, <1>2, <1>7, <2>2, HonestStays
  <2>4. ~savesCrossed' => Honest(job[j].copy)' BY <1>2, <1>6, <1>7, <2>3 DEF Honest, DoneBy
  <2>5. job'[j].copy.last <= clock' /\ job'[j].copy.last <= job'[j].end
    BY <1>1, <1>2, <1>6, <1>7, <2>1
  <2> QED BY <1>6, <1>7, <2>4, <2>5 DEF Sound
<1> QED BY <1>2, <1>4, <1>7, <1>8, JobMoves

(* What an update gives is accounted for. *)
LEMMA GivenIs ==
    ASSUME NEW row \in TargetRow, NEW v \in Int
    PROVE  /\ Given(row, v) \in TargetRow /\ Given(row, v).last = row.last
           /\ Given(row, v).archived = row.archived /\ Given(row, v).period = row.period
           /\ Given(row, v).current - Given(row, v).given = row.current - row.given
<1> DEFINE g == row.given + (v - row.current)
<1>1. /\ row.current \in Int /\ row.given \in Int /\ g \in Int BY RowTypes
<1>2. Given(row, v) = [row EXCEPT !.current = v, !.given = g]
  BY DEF Given, TargetRow, Field, Column
<1>3. v - g = row.current - row.given BY <1>1
<1> HIDE DEF g
<1> QED BY <1>1, <1>2, <1>3 DEF TargetRow, Field, Column

LEMMA DoneKeeps ==
    ASSUME TargetInv, NEW j \in Job, job' = Done(j),
           UNCHANGED <<clock, inserting, activities, target, savesCrossed, jobsCrossed>>
    PROVE  TargetInv'
<1>1. /\ TargetsTypeOK /\ clock \in Nat /\ target \in TargetRow
      /\ inserting \subseteq 1 .. clock /\ activities \subseteq 1 .. clock
      /\ savesCrossed \in BOOLEAN /\ jobsCrossed \in BOOLEAN
  BY DEF TargetInv, TargetsTypeOK
<1>2. Nothing \in TargetRow /\ \A c \in Field : Nothing[c] = 0
  BY DEF TargetRow, Nothing
<1>3. /\ Nothing.last = 0 /\ Nothing.archived = 0 /\ Nothing.current = 0
      /\ Nothing.given = 0
  BY <1>2 DEF Field, Column
<1>4. "idle" \in JobPC /\ 0 \in 0 .. clock' BY <1>1 DEF JobPC
<1>5. /\ Resting \in JobRecord(clock') /\ Resting.pc = "idle" /\ Resting.copy = Nothing
  BY <1>2, <1>4 DEF Resting, JobRecord
<1>6. /\ TargetsTypeOK' /\ job'[j] = Resting /\ \A k \in Job \ {j} : job'[k] = job[k]
  <2>1. job' = [job EXCEPT ![j] = Resting] BY DEF Done
  <2>2. /\ clock' \in Nat /\ clock <= clock' /\ target' \in TargetRow
        /\ inserting' \subseteq 1 .. clock' /\ activities' \subseteq 1 .. clock'
    BY <1>1
  <2>3. savesCrossed' \in BOOLEAN /\ jobsCrossed' \in BOOLEAN BY <1>1
  <2> QED BY <1>1, <1>5, <2>1, <2>2, <2>3, JobTypes
<1>7. Honest(Nothing) BY <1>1, <1>3, DoneByFinite DEF Honest
<1>8. Sound(j)'
  <2>1. Honest(job[j].copy)' BY <1>3, <1>5, <1>6, <1>7 DEF Honest, DoneBy
  <2> QED BY <1>1, <1>3, <1>5, <1>6, <2>1 DEF Sound
<1> QED BY <1>1, <1>6, <1>8, JobMoves

(* The window adds what was done since the last calculation, once. *)
LEMMA WindowAdds ==
    ASSUME TargetInv, NEW row \in TargetRow, NEW end \in Nat, row.last <= end, Honest(row)
    PROVE  /\ Cardinality(Window(row, end)) \in Nat
           /\ row.archived + (row.current + Cardinality(Window(row, end)))
                <= row.given + Cardinality(DoneBy(end))
<1>1. TargetsTypeOK /\ activities \subseteq 1 .. clock /\ clock \in Nat
  BY DEF TargetInv, TargetsTypeOK
<1>2. /\ row.current \in Int /\ row.last \in Int /\ row.archived \in Int
      /\ row.given \in Int
  BY RowTypes
<1> DEFINE old == DoneBy(row.last)
           new == Window(row, end)
           all == DoneBy(end)
<1>3. /\ IsFiniteSet(old) /\ Cardinality(old) \in Nat
      /\ IsFiniteSet(all) /\ Cardinality(all) \in Nat
  BY <1>1, DoneByFinite
<1>4. new \subseteq all /\ old \cup new = all /\ old \cap new = {}
  <2>1. \A t \in activities : t \in Nat BY <1>1
  <2>2. \A t : t \in all <=> t \in old \/ t \in new
    BY <1>2, <2>1 DEF DoneBy, Window
  <2>3. \A t : ~(t \in old /\ t \in new) BY <1>2, <2>1 DEF DoneBy, Window
  <2> HIDE DEF old, new, all
  <2> QED BY <2>2, <2>3
<1>5. IsFiniteSet(new) /\ Cardinality(new) \in Nat
  BY <1>3, <1>4, FS_Subset, FS_CardinalityType
<1> HIDE DEF old, new, all
<1>6. Cardinality(all) = Cardinality(old) + Cardinality(new)
  <2>1. Cardinality(old \cup new)
          = Cardinality(old) + Cardinality(new) - Cardinality(old \cap new)
    BY <1>3, <1>5, FS_Union
  <2>2. Cardinality(old \cap new) = 0 BY <1>4, FS_EmptySet
  <2>3. Cardinality(old \cup new) = Cardinality(all) BY <1>4
  <2> QED BY <1>3, <1>5, <2>1, <2>2, <2>3
<1>7. row.archived + row.current <= row.given + Cardinality(old) BY DEF Honest, old
<1>8. row.archived + (row.current + Cardinality(new)) <= row.given + Cardinality(all)
  BY <1>2, <1>3, <1>5, <1>6, <1>7
<1> QED BY <1>5, <1>8 DEF new, all
(* A job replaces the row it holds by one that counts nothing twice. *)
LEMMA HoldKeeps ==
    ASSUME TargetInv, NEW j \in Job, NEW row \in TargetRow,
           job' = [job EXCEPT ![j].pc = "reloading", ![j].copy = row],
           clock' \in Nat, clock <= clock',
           UNCHANGED <<inserting, activities, target, savesCrossed, jobsCrossed>>,
           row.last <= clock', ~savesCrossed => Honest(row)
    PROVE  TargetInv'
<1> DEFINE e == [[job[j] EXCEPT !.pc = "reloading"] EXCEPT !.copy = row]
<1>1. /\ TargetsTypeOK /\ clock \in Nat /\ target \in TargetRow
      /\ inserting \subseteq 1 .. clock /\ activities \subseteq 1 .. clock
      /\ savesCrossed \in BOOLEAN /\ jobsCrossed \in BOOLEAN
      /\ job \in [Job -> JobRecord(clock)] /\ job[j] \in JobRecord(clock)
  BY TargetTypes DEF TargetInv, TargetsTypeOK
<1>2. /\ 1 .. clock \subseteq 1 .. clock' /\ 0 .. clock \subseteq 0 .. clock'
  BY <1>1
<1>3. "reloading" \in JobPC BY DEF JobPC
<1>4. /\ e \in JobRecord(clock') /\ e.pc = "reloading" /\ e.copy = row
  BY <1>1, <1>2, <1>3 DEF JobRecord
<1>5. job' = [job EXCEPT ![j] = e] BY <1>1
<1> HIDE DEF e
<1>6. /\ target' \in TargetRow /\ savesCrossed' \in BOOLEAN /\ jobsCrossed' \in BOOLEAN
      /\ inserting' \subseteq 1 .. clock' /\ activities' \subseteq 1 .. clock'
      /\ UNCHANGED <<target, savesCrossed, activities>>
  BY <1>1, <1>2
<1>7. /\ TargetsTypeOK' /\ job'[j] = e /\ \A k \in Job \ {j} : job'[k] = job[k]
  BY <1>1, <1>4, <1>5, <1>6, JobTypes
<1>8. Sound(j)'
  <2>1. ~savesCrossed' => Honest(job[j].copy)' BY <1>4, <1>7 DEF Honest, DoneBy
  <2> QED BY <1>4, <1>7, <2>1 DEF Sound
<1> QED BY <1>6, <1>7, <1>8, JobMoves

LEMMA FindKeeps == ASSUME TargetInv, Find PROVE TargetInv'
<1> DEFINE c == job["calculate"]
           n == Cardinality(Window(c.copy, c.end))
           row == [c.copy EXCEPT !.current = c.copy.current + n, !.last = c.end]
<1>1. /\ TargetsTypeOK /\ clock \in Nat
      /\ "calculate" \in Job /\ Sound("calculate")
      /\ c.copy \in TargetRow /\ c.end \in 0 .. clock
  BY TargetTypes DEF TargetInv, TargetsTypeOK, Job
<1>2. /\ c.pc = "finding"
      /\ UNCHANGED <<clock, inserting, activities, target, savesCrossed, jobsCrossed>>
  BY DEF Find
<1>3. CASE Window(c.copy, c.end) = {} \/ Calculated(c.copy, c.end).current < 0
  <2>1. job' = Done("calculate") BY <1>3 DEF Find
  <2> QED BY <1>1, <1>2, <2>1, DoneKeeps
<1>4. CASE ~(Window(c.copy, c.end) = {} \/ Calculated(c.copy, c.end).current < 0)
  <2>1. job' = [job EXCEPT !["calculate"].pc = "reloading", !["calculate"].copy = row]
    BY <1>4 DEF Find, Calculated
  <2>2. /\ c.copy.current \in Int /\ c.copy.archived \in Int /\ c.end \in Nat
        /\ c.copy.last <= c.end
    BY <1>1, <1>2, RowTypes DEF Sound
  <2>3. n \in Nat
    <3>1. IsFiniteSet(1 .. clock) BY <1>1, FS_Interval
    <3>2. Window(c.copy, c.end) \subseteq activities BY DEF Window
    <3>3. Window(c.copy, c.end) \subseteq 1 .. clock BY <1>1, <3>2 DEF TargetsTypeOK
    <3> QED BY <3>1, <3>3, FS_Subset, FS_CardinalityType
  <2> HIDE DEF n
  <2>4. /\ row \in TargetRow /\ row.current = c.copy.current + n /\ row.last = c.end
        /\ row.archived = c.copy.archived /\ row.given = c.copy.given
    <3>1. c.copy.current + n \in Int BY <2>2, <2>3
    <3>2. c.copy \in TargetRow /\ c.end \in Nat BY <1>1, <2>2
    <3> DEFINE old == c.copy
               v == c.copy.current + n
               end == c.end
    <3>3. old \in TargetRow /\ v \in Int /\ end \in Nat BY <3>1, <3>2
    <3> HIDE DEF old, v, end
    <3>4. /\ [old EXCEPT !.current = v, !.last = end] \in TargetRow
          /\ [old EXCEPT !.current = v, !.last = end].current = v
          /\ [old EXCEPT !.current = v, !.last = end].last = end
          /\ [old EXCEPT !.current = v, !.last = end].archived = old.archived
          /\ [old EXCEPT !.current = v, !.last = end].given = old.given
      <4>1. \A f : f \in Field <=> f \in {"current", "last", "archived", "period", "given"}
        BY DEF Field, Column
      <4>2. [old EXCEPT !.current = v, !.last = end] \in TargetRow
        <5> DEFINE f1 == [old EXCEPT !["current"] = v]
        <5>1. f1 \in TargetRow BY <3>3, <4>1, FieldSet
        <5> HIDE DEF f1
        <5>2. [f1 EXCEPT !["last"] = end] \in TargetRow BY <3>3, <4>1, <5>1, FieldSet
        <5> QED BY <5>2 DEF f1
      <4>3. old \in [Field -> Int] BY <3>3 DEF TargetRow
      <4> QED BY <4>1, <4>2, <4>3
    <3> QED BY <3>4 DEF old, v, end
  <2>5. ~savesCrossed => Honest(row)
    <3>1. SUFFICES ASSUME ~savesCrossed PROVE Honest(row) OBVIOUS
    <3>2. Honest(c.copy) BY <1>1, <3>1 DEF Sound
    <3>3. c.copy.archived + (c.copy.current + n) <= c.copy.given + Cardinality(DoneBy(c.end))
      BY <1>1, <2>2, <3>2, WindowAdds DEF n
    <3> HIDE DEF row
    <3> QED BY <2>4, <3>3 DEF Honest
  <2>6. row.last <= clock' /\ clock' \in Nat /\ clock <= clock' BY <1>1, <1>2, <2>4
  <2> HIDE DEF row
  <2> QED BY <1>1, <1>2, <2>1, <2>4, <2>5, <2>6, HoldKeeps
<1> QED BY <1>3, <1>4

LEMMA RecurKeeps == ASSUME TargetInv, Recur PROVE TargetInv'
<1> DEFINE old == job["recur"].copy
           row == Archived(old, clock + 1)
<1>1. /\ TargetsTypeOK /\ clock \in Nat /\ "recur" \in Job /\ Sound("recur")
      /\ old \in TargetRow /\ job \in [Job -> JobRecord(clock)]
  BY TargetTypes DEF TargetInv, Job
<1>2. /\ clock' = clock + 1
      /\ job' = [job EXCEPT !["recur"].pc = "reloading", !["recur"].copy = row]
      /\ UNCHANGED <<inserting, activities, target, savesCrossed, jobsCrossed>>
  <2>1. job' = [job EXCEPT !["recur"].pc = "reloading",
                           !["recur"].copy = Archived(@, clock + 1)]
    BY DEF Recur
  <2> HIDE DEF row
  <2>2. job' = [job EXCEPT !["recur"].pc = "reloading", !["recur"].copy = row]
    BY <1>1, <2>1 DEF JobRecord, row
  <2> QED BY <2>2 DEF Recur
<1>3. /\ old.current \in Int /\ old.archived \in Int /\ old.period \in Int
      /\ old.given \in Int /\ old.last \in Int /\ old.last <= clock
  BY <1>1, RowTypes DEF Sound
<1>4. /\ row \in TargetRow /\ row.current = 0 /\ row.last = clock + 1
      /\ row.archived = old.archived + old.current /\ row.given = old.given
  <2>1. \A f : f \in Field <=> f \in {"current", "last", "archived", "period", "given"}
    BY DEF Field, Column
  <2>2. old \in [Field -> Int] /\ clock + 1 \in Int BY <1>1 DEF TargetRow
  <2> HIDE DEF old
  <2>3. row \in TargetRow
    <3> DEFINE f1 == [old EXCEPT !["current"] = 0]
               f2 == [f1 EXCEPT !["last"] = clock + 1]
               f3 == [f2 EXCEPT !["archived"] = old.archived + old.current]
               f4 == [f3 EXCEPT !["period"] = old.period + 1]
    <3>1. old.archived + old.current \in Int /\ old.period + 1 \in Int BY <1>3
    <3>2. f1 \in TargetRow BY <2>1, <2>2, FieldSet DEF TargetRow
    <3> HIDE DEF f1
    <3>3. f2 \in TargetRow BY <2>1, <2>2, <3>2, FieldSet
    <3> HIDE DEF f2
    <3>4. f3 \in TargetRow BY <2>1, <3>1, <3>3, FieldSet
    <3> HIDE DEF f3
    <3>5. f4 \in TargetRow BY <2>1, <3>1, <3>4, FieldSet
    <3>6. row = f4 BY <2>1, <2>2 DEF Archived, f1, f2, f3
    <3> QED BY <3>5, <3>6
  <2>4. /\ row.current = 0 /\ row.last = clock + 1
        /\ row.archived = old.archived + old.current /\ row.given = old.given
    BY <2>1, <2>2 DEF Archived
  <2> QED BY <2>3, <2>4
<1>5. ~savesCrossed => Honest(row)
  <2>1. SUFFICES ASSUME ~savesCrossed PROVE Honest(row) OBVIOUS
  <2>2. old.archived + old.current <= old.given + Cardinality(DoneBy(old.last))
    BY <1>1, <2>1 DEF Sound, Honest
  <2>3. DoneBy(old.last) \subseteq DoneBy(clock + 1)
    <3>1. \A t \in activities : t \in Nat BY <1>1 DEF TargetsTypeOK
    <3> HIDE DEF old
    <3> QED BY <1>1, <1>3, <3>1 DEF DoneBy
  <2>4. Cardinality(DoneBy(old.last)) <= Cardinality(DoneBy(clock + 1))
    BY <1>1, <2>3, DoneByFinite, FS_Subset
  <2>5. /\ Cardinality(DoneBy(old.last)) \in Nat
        /\ Cardinality(DoneBy(clock + 1)) \in Nat
    BY <1>1, DoneByFinite
  <2> HIDE DEF row, old
  <2> QED BY <1>3, <1>4, <2>2, <2>4, <2>5 DEF Honest
<1>6. row.last <= clock' /\ clock' \in Nat /\ clock <= clock' BY <1>1, <1>2, <1>4
<1> HIDE DEF row
<1> QED BY <1>1, <1>2, <1>4, <1>5, <1>6, HoldKeeps

LEMMA ReloadKeeps == ASSUME TargetInv, NEW j \in Job, Reload(j) PROVE TargetInv'
<1> DEFINE e == [[job[j] EXCEPT !.pc = "updating"] EXCEPT !.columns = Differing(j)]
<1>1. /\ TargetsTypeOK /\ clock \in Nat /\ target \in TargetRow
      /\ inserting \subseteq 1 .. clock /\ activities \subseteq 1 .. clock
      /\ savesCrossed \in BOOLEAN /\ jobsCrossed \in BOOLEAN
      /\ job \in [Job -> JobRecord(clock)] /\ job[j] \in JobRecord(clock)
  BY TargetTypes DEF TargetInv, TargetsTypeOK
<1>2. UNCHANGED <<clock, inserting, activities, target, savesCrossed, jobsCrossed>>
  BY DEF Reload
<1>3. CASE Differing(j) = {}
  <2>1. job' = Done(j) BY <1>3 DEF Reload, Differing
  <2> QED BY <1>2, <2>1, DoneKeeps
<1>4. CASE Differing(j) # {}
  <2>1. job' = [job EXCEPT ![j].pc = "updating", ![j].columns = Differing(j)]
    BY <1>4 DEF Reload, Differing
  <2>2. "updating" \in JobPC /\ Differing(j) \subseteq Column BY DEF JobPC, Differing
  <2>3. /\ e \in JobRecord(clock) /\ e.pc = "updating" /\ e.copy = job[j].copy
        /\ e.columns = Differing(j)
    BY <1>1, <2>2 DEF JobRecord
  <2>4. job' = [job EXCEPT ![j] = e] BY <1>1, <2>1
  <2> HIDE DEF e
  <2>5. /\ clock' \in Nat /\ clock <= clock' /\ e \in JobRecord(clock')
        /\ target' \in TargetRow /\ savesCrossed' \in BOOLEAN /\ jobsCrossed' \in BOOLEAN
        /\ inserting' \subseteq 1 .. clock' /\ activities' \subseteq 1 .. clock'
    BY <1>1, <1>2, <2>3
  <2>6. /\ TargetsTypeOK' /\ job'[j] = e /\ \A k \in Job \ {j} : job'[k] = job[k]
    BY <1>1, <2>4, <2>5, JobTypes
  <2>7. Sound(j)'
    <3>1. Sound(j) BY DEF TargetInv
    <3>2. Differing(j)' = Differing(j) BY <1>2, <2>3, <2>6 DEF Differing
    <3>3. ~savesCrossed' => Honest(job[j].copy)'
      BY <1>2, <2>3, <2>6, <3>1 DEF Sound, Honest, DoneBy
    <3>4. job'[j].copy.last <= clock' BY <1>2, <2>3, <2>6, <3>1 DEF Sound
    <3> QED BY <2>3, <2>6, <3>2, <3>3, <3>4 DEF Sound
  <2> QED BY <1>1, <1>2, <2>6, <2>7, JobMoves
<1> QED BY <1>3, <1>4

(* An update makes the row the entity of the job, unless saves crossed. *)
LEMMA UpdateKeeps == ASSUME TargetInv, NEW j \in Job, Update(j) PROVE TargetInv'
<1> DEFINE copy == job[j].copy
<1>1. /\ TargetsTypeOK /\ clock \in Nat /\ target \in TargetRow
      /\ inserting \subseteq 1 .. clock /\ activities \subseteq 1 .. clock
      /\ savesCrossed \in BOOLEAN /\ jobsCrossed \in BOOLEAN
      /\ job \in [Job -> JobRecord(clock)]
      /\ \A k \in Job : job[k].copy \in TargetRow
      /\ \A k \in Job : Sound(k)
  BY TargetTypes DEF TargetInv, TargetsTypeOK
<1>2. /\ job[j].pc = "updating" /\ job' = [job EXCEPT ![j] = Resting]
      /\ target' = [c \in Field |-> IF c \in job[j].columns \cup {"given"}
                                   THEN copy[c] ELSE target[c]]
      /\ savesCrossed' = (savesCrossed \/ \E k \in Job \ {j} : job[k].pc = "updating")
      /\ UNCHANGED <<clock, inserting, activities, jobsCrossed>>
  BY DEF Update, Done
<1>3. target' \in TargetRow BY <1>1, <1>2 DEF TargetRow
<1>4. target'.last <= clock
  <2>1. target'.last \in {copy.last, target.last} BY <1>2 DEF Field, Column
  <2>2. copy.last <= clock /\ target.last <= clock BY <1>1 DEF Sound, TargetInv
  <2> QED BY <2>1, <2>2
<1>5. Nothing \in TargetRow /\ \A c \in Field : Nothing[c] = 0
  BY DEF TargetRow, Nothing
<1>6. /\ Nothing.last = 0 /\ Nothing.archived = 0 /\ Nothing.current = 0
      /\ Nothing.given = 0
  BY <1>5 DEF Field, Column
<1>7. "idle" \in JobPC /\ 0 \in 0 .. clock BY <1>1 DEF JobPC
<1>8. /\ Resting \in JobRecord(clock) /\ Resting.pc = "idle" /\ Resting.copy = Nothing
  BY <1>5, <1>7 DEF Resting, JobRecord
<1>9. savesCrossed' \in BOOLEAN BY <1>1, <1>2
<1>10. /\ clock' \in Nat /\ clock <= clock' /\ Resting \in JobRecord(clock')
       /\ jobsCrossed' \in BOOLEAN
       /\ inserting' \subseteq 1 .. clock' /\ activities' \subseteq 1 .. clock'
  BY <1>1, <1>2, <1>8
<1>11. /\ TargetsTypeOK' /\ job'[j] = Resting /\ \A k \in Job \ {j} : job'[k] = job[k]
  BY <1>1, <1>2, <1>3, <1>9, <1>10, JobTypes
<1>12. ~savesCrossed' => /\ ~savesCrossed
                         /\ \A k \in Job \ {j} : job[k].pc # "updating"
  BY <1>2
<1>13. ~savesCrossed' => Honest(target)'
  <2>1. SUFFICES ASSUME ~savesCrossed' PROVE Honest(target)' OBVIOUS
  <2>2. ~savesCrossed BY <1>12, <2>1
  <2>3. Honest(copy) /\ job[j].columns = {c \in Column : copy[c] # target[c]}
    BY <1>1, <1>2, <2>2 DEF Sound, Differing
  <2>4. \A c \in Column : target'[c] = copy[c] BY <1>2, <2>3 DEF Field
  <2>5. /\ target'.last = copy.last /\ target'.archived = copy.archived
        /\ target'.current = copy.current /\ target'.given = copy.given
    BY <1>2, <2>4 DEF Field, Column
  <2> QED BY <1>2, <2>3, <2>5 DEF Honest, DoneBy
<1>14. ASSUME NEW k \in Job PROVE Sound(k)'
  <2>1. CASE k = j
    <3>1. Honest(Nothing) BY <1>1, <1>6, DoneByFinite DEF Honest
    <3>2. Honest(job[j].copy)' BY <1>2, <1>8, <1>11, <3>1 DEF Honest, DoneBy
    <3> QED BY <1>1, <1>2, <1>6, <1>8, <1>11, <2>1, <3>2 DEF Sound
  <2>2. CASE k # j
    <3>1. job'[k] = job[k] BY <1>11, <2>2
    <3>2. ~savesCrossed' => Honest(job[k].copy)' /\ job[k].pc # "updating"
      BY <1>1, <1>2, <1>12, <2>2, <3>1 DEF Sound, Honest, DoneBy
    <3> QED BY <1>1, <1>2, <3>1, <3>2 DEF Sound
  <2> QED BY <2>1, <2>2
<1> QED BY <1>2, <1>4, <1>11, <1>13, <1>14 DEF TargetInv

LEMMA TargetsStepInv == TargetInv /\ [TargetsNext]_targetVars => TargetInv'
<1> SUFFICES ASSUME TargetInv, [TargetsNext]_targetVars PROVE TargetInv' OBVIOUS
<1>1. CASE InsertActivity \/ \E t \in inserting : CommitActivity(t)
  BY <1>1, ActivityKeeps
<1>2. CASE LoadForCalculation \/ LoadForRecurrence \/ LoadForUpdate
  <2>1. target \in TargetRow BY DEF TargetInv, TargetsTypeOK
  <2>2. CASE \E j \in Job, p \in {"finding", "queued", "reloading"} : Load(j, p, target)
    BY <2>1, <2>2, LoadKeeps
  <2>3. CASE \E v \in ProgressSet : Load("update", "reloading", Given(target, v))
    <3>1. PICK v \in ProgressSet : Load("update", "reloading", Given(target, v)) BY <2>3
    <3>2. v \in Int /\ "update" \in Job BY TargetsAssumption DEF Job
    <3> QED BY <2>1, <3>1, <3>2, GivenIs, LoadKeeps
  <2> QED BY <1>2, <2>2, <2>3 DEF LoadForCalculation, LoadForRecurrence, LoadForUpdate, Job
<1>3. CASE Find \/ Recur BY <1>3, FindKeeps, RecurKeeps
<1>4. CASE \E j \in Job : Reload(j) \/ Update(j) \/ FailJob(j)
  BY <1>4, ReloadKeeps, UpdateKeeps, DoneKeeps DEF FailJob
<1>5. CASE UNCHANGED targetVars
  <2>1. UNCHANGED <<clock, inserting, activities, target, job, savesCrossed, jobsCrossed>>
    BY <1>5 DEF targetVars
  <2>2. TargetsTypeOK' BY <2>1 DEF TargetInv, TargetsTypeOK
  <2>3. "calculate" \in Job /\ clock \in Nat BY DEF Job, TargetInv, TargetsTypeOK
  <2>4. \A k \in Job : Sound(k)' BY <2>1, <2>2, <2>3, StaysSound
  <2> QED BY <2>1, <2>2, <2>3, <2>4, JobMoves
<1> QED BY <1>1, <1>2, <1>3, <1>4, <1>5 DEF TargetsNext

(* The rows that jobs hold keep their invariant. *)
THEOREM TargetsInductive == TargetsSpec => []TargetInv
BY TargetsInitInv, TargetsStepInv, PTL DEF TargetsSpec

(* Nothing a user does is counted twice, whatever progress administrators  *)
(* write, unless one save falls between the reading and the updating of    *)
(* another.                                                                *)
THEOREM NeverCountedTwice == TargetsSpec => []NeverOvercounted
<1>1. TargetInv => NeverOvercounted
  BY DEF TargetInv, Honest, DoneBy, NeverOvercounted
<1> QED BY <1>1, TargetsInductive, PTL

(* A row to which a recurrence was added, or none.                         *)
Follows(row) ==
    \/ row.period = target.period /\ row.archived = target.archived
    \/ /\ row.period = target.period + 1
       /\ row.archived = target.archived + target.current

(* Unless jobs overlap, one job at most is in progress, and what it will   *)
(* save was made from the row as it is.                                    *)
FromRow(j) ==
    job[j].pc # "idle" =>
      /\ \A k \in Job \ {j} : job[k].pc = "idle"
      /\ Follows(job[j].copy)
      /\ job[j].pc \in {"finding", "queued"} => job[j].copy = target
      /\ job[j].pc = "updating" => job[j].columns = Differing(j)

AloneInv == ~jobsCrossed => \A j \in Job : FromRow(j)

(* A step of job j that leaves the row as it is. *)
LEMMA AloneMoves ==
    ASSUME AloneInv, NEW j \in Job, UNCHANGED target, jobsCrossed => jobsCrossed',
           job[j].pc # "idle" \/ (~jobsCrossed' => \A k \in Job : job[k].pc = "idle"),
           \A k \in Job \ {j} : job'[k] = job[k],
           ~jobsCrossed' =>
             \/ job'[j].pc = "idle"
             \/ /\ Follows(job[j].copy)'
                /\ job'[j].pc \in {"finding", "queued"} => job'[j].copy = target
                /\ job'[j].pc = "updating" => job'[j].columns = Differing(j)'
    PROVE  AloneInv'
<1> SUFFICES ASSUME ~jobsCrossed' PROVE \A k \in Job : FromRow(k)'
  BY DEF AloneInv
<1>1. \A m \in Job : FromRow(m) BY DEF AloneInv
<1>2. \A m \in Job \ {j} : job'[m].pc = "idle" BY <1>1 DEF FromRow
<1>3. FromRow(j)' BY <1>2 DEF FromRow
<1>4. \A k \in Job \ {j} : FromRow(k)' BY <1>2 DEF FromRow
<1> QED BY <1>3, <1>4 DEF FromRow

LEMMA AloneStep ==
    ASSUME TargetInv, AloneInv, [TargetsNext]_targetVars
    PROVE  /\ AloneInv'
           /\ ~jobsCrossed /\ target' # target =>
                \/ target'.period = target.period /\ target'.archived = target.archived
                \/ /\ target'.period = target.period + 1
                   /\ target'.archived = target.archived + target.current
<1>1. /\ target \in TargetRow /\ job \in [Job -> JobRecord(clock)] /\ clock \in Nat
      /\ \A k \in Job : job[k] \in JobRecord(clock) /\ job[k].copy \in TargetRow
      /\ Resting.pc = "idle"
  BY TargetTypes DEF TargetInv, TargetsTypeOK, Resting
<1>2. ASSUME NEW j \in Job, job' = Done(j), job[j].pc # "idle", target' = target,
             jobsCrossed' = jobsCrossed
      PROVE  AloneInv'
  <2>1. job'[j] = Resting /\ \A k \in Job \ {j} : job'[k] = job[k]
    BY <1>1, <1>2 DEF Done
  <2> QED BY <1>1, <1>2, <2>1, AloneMoves
<1>3. CASE InsertActivity \/ (\E t \in inserting : CommitActivity(t)) \/ UNCHANGED targetVars
  <2>1. UNCHANGED <<target, job, jobsCrossed>>
    BY <1>3 DEF InsertActivity, CommitActivity, targetVars
  <2> QED BY <2>1 DEF AloneInv, FromRow, Follows, Differing
<1>4. ASSUME NEW j \in Job, NEW p, NEW row, Load(j, p, row), Follows(row),
             p \in {"finding", "queued"} => row = target, p # "updating"
      PROVE  AloneInv' /\ target' = target
  <2> DEFINE e == [pc |-> p, copy |-> row, end |-> clock + 1, columns |-> {}]
  <2>1. /\ job[j].pc = "idle" /\ job' = [job EXCEPT ![j] = e] /\ target' = target
        /\ jobsCrossed' = (jobsCrossed \/ \E k \in Job : job[k].pc # "idle")
    BY <1>4 DEF Load
  <2>2. e.pc = p /\ e.copy = row OBVIOUS
  <2> HIDE DEF e
  <2>3. job'[j] = e /\ \A k \in Job \ {j} : job'[k] = job[k] BY <1>1, <2>1
  <2>4. Follows(job[j].copy)' BY <1>4, <2>1, <2>2, <2>3 DEF Follows
  <2> QED BY <1>4, <2>1, <2>2, <2>3, <2>4, AloneMoves
<1>5. CASE Find
  <2> DEFINE c   == job["calculate"]
             row == Calculated(c.copy, c.end)
             e   == [[c EXCEPT !.pc = "reloading"] EXCEPT !.copy = row]
  <2>1. /\ c.pc = "finding" /\ UNCHANGED <<target, jobsCrossed>> /\ "calculate" \in Job
    BY <1>5 DEF Find, Job
  <2>2. CASE Window(c.copy, c.end) = {} \/ Calculated(c.copy, c.end).current < 0
    <3>1. job' = Done("calculate") BY <1>5, <2>2 DEF Find
    <3> QED BY <1>2, <2>1, <3>1
  <2>3. CASE ~(Window(c.copy, c.end) = {} \/ Calculated(c.copy, c.end).current < 0)
    <3>1. job' = [job EXCEPT !["calculate"].pc = "reloading", !["calculate"].copy = row]
      BY <1>5, <2>3 DEF Find
    <3>2. c \in JobRecord(clock) /\ c.copy \in TargetRow BY <1>1, <2>1
    <3>3. row.period = c.copy.period /\ row.archived = c.copy.archived
      BY <3>2 DEF Calculated, TargetRow, Field, Column
    <3> HIDE DEF row
    <3>4. e.pc = "reloading" /\ e.copy = row BY <3>2 DEF JobRecord
    <3>5. job' = [job EXCEPT !["calculate"] = e] BY <1>1, <2>1, <3>1
    <3> HIDE DEF e
    <3>6. job'["calculate"] = e /\ \A k \in Job \ {"calculate"} : job'[k] = job[k]
      BY <1>1, <2>1, <3>5
    <3>7. ~jobsCrossed => Follows(c.copy) BY <2>1 DEF AloneInv, FromRow
    <3>8. ~jobsCrossed' => Follows(job["calculate"].copy)'
      BY <2>1, <3>3, <3>4, <3>6, <3>7 DEF Follows
    <3> QED BY <2>1, <3>4, <3>6, <3>8, AloneMoves
  <2> QED BY <2>1, <2>2, <2>3
<1>6. CASE Recur
  <2> DEFINE c   == job["recur"]
             row == Archived(c.copy, clock + 1)
             e   == [[c EXCEPT !.pc = "reloading"] EXCEPT !.copy = row]
  <2>1. /\ c.pc = "queued" /\ UNCHANGED <<target, jobsCrossed>> /\ "recur" \in Job
        /\ job' = [job EXCEPT !["recur"].pc = "reloading", !["recur"].copy = row]
    BY <1>6 DEF Recur, Job
  <2>2. c \in JobRecord(clock) BY <1>1, <2>1
  <2>3. /\ row.period = c.copy.period + 1
        /\ row.archived = c.copy.archived + c.copy.current
    BY <1>1, <2>1 DEF Archived, TargetRow, Field, Column
  <2> HIDE DEF row
  <2>4. e.pc = "reloading" /\ e.copy = row BY <2>2 DEF JobRecord
  <2>5. job' = [job EXCEPT !["recur"] = e] BY <1>1, <2>1
  <2> HIDE DEF e
  <2>6. job'["recur"] = e /\ \A k \in Job \ {"recur"} : job'[k] = job[k]
    BY <1>1, <2>1, <2>5
  <2>7. ~jobsCrossed => c.copy = target BY <2>1 DEF AloneInv, FromRow
  <2>8. ~jobsCrossed' => Follows(job["recur"].copy)'
    BY <2>1, <2>3, <2>4, <2>6, <2>7 DEF Follows
  <2> QED BY <2>1, <2>4, <2>6, <2>8, AloneMoves
<1>7. ASSUME NEW j \in Job, Reload(j) PROVE AloneInv' /\ target' = target
  <2> DEFINE e == [[job[j] EXCEPT !.pc = "updating"] EXCEPT !.columns = Differing(j)]
  <2>1. job[j].pc = "reloading" /\ UNCHANGED <<target, jobsCrossed>> BY <1>7 DEF Reload
  <2>2. CASE Differing(j) = {}
    <3>1. job' = Done(j) BY <1>7, <2>2 DEF Reload, Differing
    <3> QED BY <1>2, <2>1, <3>1
  <2>3. CASE Differing(j) # {}
    <3>1. job' = [job EXCEPT ![j].pc = "updating", ![j].columns = Differing(j)]
      BY <1>7, <2>3 DEF Reload, Differing
    <3>2. e.pc = "updating" /\ e.copy = job[j].copy /\ e.columns = Differing(j)
      BY <1>1 DEF JobRecord
    <3>3. job' = [job EXCEPT ![j] = e] BY <1>1, <3>1
    <3> HIDE DEF e
    <3>4. job'[j] = e /\ \A k \in Job \ {j} : job'[k] = job[k] BY <1>1, <3>3
    <3>5. Differing(j)' = Differing(j) BY <2>1, <3>2, <3>4 DEF Differing
    <3>6. ~jobsCrossed' => Follows(job[j].copy)'
      BY <2>1, <3>2, <3>4 DEF AloneInv, FromRow, Follows
    <3> QED BY <2>1, <3>2, <3>4, <3>5, <3>6, AloneMoves
  <2> QED BY <2>1, <2>2, <2>3
<1>8. ASSUME NEW j \in Job, Update(j)
      PROVE  AloneInv' /\ (~jobsCrossed => Follows(target'))
  <2>1. /\ job[j].pc = "updating" /\ job' = [job EXCEPT ![j] = Resting]
        /\ target' = [c \in Field |-> IF c \in job[j].columns \cup {"given"}
                                      THEN job[j].copy[c] ELSE target[c]]
        /\ jobsCrossed' = jobsCrossed
    BY <1>8 DEF Update, Done
  <2>2. job'[j].pc = "idle" /\ \A k \in Job \ {j} : job'[k] = job[k] BY <1>1, <2>1
  <2>3. ~jobsCrossed => FromRow(j) BY DEF AloneInv
  <2>4. ~jobsCrossed => \A k \in Job : job'[k].pc = "idle" BY <2>1, <2>2, <2>3 DEF FromRow
  <2>5. AloneInv' BY <2>1, <2>4 DEF AloneInv, FromRow
  <2>6. ASSUME ~jobsCrossed PROVE Follows(target')
    <3>1. job[j].columns = Differing(j) /\ Follows(job[j].copy)
      BY <2>1, <2>3, <2>6 DEF FromRow
    <3>2. \A c \in Column : target'[c] = job[j].copy[c] BY <2>1, <3>1 DEF Differing, Field
    <3>3. target'.period = job[j].copy.period /\ target'.archived = job[j].copy.archived
      BY <3>2 DEF Column
    <3> QED BY <3>1, <3>3 DEF Follows
  <2> QED BY <2>5, <2>6
<1>9. CASE \E j \in Job : FailJob(j) BY <1>2, <1>9 DEF FailJob
<1>10. ASSUME LoadForCalculation \/ LoadForRecurrence \/ LoadForUpdate
       PROVE  AloneInv' /\ target' = target
  <2>1. Follows(target) BY DEF Follows
  <2>2. \A v \in ProgressSet : Follows(Given(target, v))
    BY <1>1, TargetsAssumption, GivenIs DEF Follows
  <2> QED BY <1>4, <1>10, <2>1, <2>2
    DEF LoadForCalculation, LoadForRecurrence, LoadForUpdate, Job
<1>11. AloneInv'
  BY <1>3, <1>5, <1>6, <1>7, <1>8, <1>9, <1>10 DEF TargetsNext
<1>12. ~jobsCrossed /\ target' # target => Follows(target')
  <2>1. CASE \E j \in Job : Update(j) BY <1>8, <2>1
  <2>2. CASE ~ \E j \in Job : Update(j)
    <3>1. target' = target
      BY <1>10, <2>2 DEF TargetsNext, targetVars, InsertActivity, CommitActivity,
        Find, Recur, Reload, FailJob
    <3> QED BY <3>1
  <2> QED BY <2>1, <2>2
<1> QED BY <1>11, <1>12 DEF Follows

(* Unless jobs overlap, a recurrence is not undone by any save.            *)
THEOREM ArchiveAlwaysKept == TargetsSpec => ArchiveIsKept
<1>1. TargetsInit => AloneInv
  <2> SUFFICES ASSUME TargetsInit PROVE \A j \in Job : FromRow(j) BY DEF AloneInv
  <2>1. \A j \in Job : job[j].pc = "idle" BY DEF TargetsInit, Resting
  <2> QED BY <2>1 DEF FromRow
<1>2. TargetInv /\ AloneInv /\ [TargetsNext]_targetVars => AloneInv' BY AloneStep
<1>3. TargetsSpec => [](TargetInv /\ AloneInv)
  BY <1>1, <1>2, TargetsInductive, PTL DEF TargetsSpec
<1>4. TargetInv /\ AloneInv /\ [TargetsNext]_targetVars
        => [(~jobsCrossed /\ target' # target)
             => \/ target'.period = target.period /\ target'.archived = target.archived
                \/ /\ target'.period = target.period + 1
                   /\ target'.archived = target.archived + target.current]_targetVars
  BY AloneStep
<1> QED BY <1>3, <1>4, PTL DEF TargetsSpec, ArchiveIsKept
-----------------------------------------------------------------------------
(***************************************************************************)
(* The usage of licences.  Of a licence whose flushes have not overlapped, *)
(* one flush at most is in progress, and it holds the array in the map.    *)
(***************************************************************************)
FlushRecord == [pc: FlushPC, license: License \cup {NoLicense}, total: Nat, old: BOOLEAN,
                length: Nat]

OneFlush(l) ==
    /\ \A f, g \in FlushOf(l) : f = g
    /\ currentValue[l] <= Chargeable(l)
    /\ \A f \in FlushOf(l) :
         /\ ~flush[f].old
         /\ flush[f].pc = "counting" => flush[f].total = currentValue[l]
         /\ flush[f].pc = "saving" => flush[f].total <= currentValue[l] + usageBuffer[l]
    /\ (\A f \in FlushOf(l) : flush[f].pc # "emptying")
         => currentValue[l] + usageBuffer[l] <= Chargeable(l)

Exact(l) ==
    /\ \A f \in FlushOf(l) :
         /\ flush[f].pc = "saving" => flush[f].total = currentValue[l] + usageBuffer[l]
         /\ flush[f].pc = "emptying" => currentValue[l] = Chargeable(l)
    /\ (\A f \in FlushOf(l) : flush[f].pc # "emptying")
         => currentValue[l] + usageBuffer[l] = Chargeable(l)

Counts(l) ==
    /\ l \notin overlapped => OneFlush(l)
    /\ l \notin overlapped \cup crossed /\ ~forgotten => Exact(l)

FlushKept(f) ==
    /\ flush[f].pc = "idle" => flush[f] = NoFlush
    /\ flush[f].pc # "idle" => flush[f].license \in License

UsageInv ==
    /\ UsageTypeOK
    /\ \A f \in Flush : FlushKept(f)
    /\ \A l \in License : Counts(l)

LEMMA UsageTypes ==
    ASSUME UsageInv
    PROVE  /\ flush \in [Flush -> FlushRecord] /\ \A f \in Flush : flush[f] \in FlushRecord
           /\ \A l \in License : /\ currentValue[l] \in Nat /\ usageBuffer[l] \in Nat
                                 /\ made[l] \in Nat /\ recounted[l] \in Int
                                 /\ Chargeable(l) \in Int
           /\ NoLicense \notin License
BY LicenseUsageAssumption DEF UsageInv, UsageTypeOK, FlushRecord, Chargeable

LEMMA ChargeableStays ==
    UNCHANGED <<made, recounted>> => \A l \in License : Chargeable(l)' = Chargeable(l)
BY DEF Chargeable

LEMMA NoFlushIs ==
    /\ NoFlush \in FlushRecord /\ NoFlush.pc = "idle" /\ NoFlush.license = NoLicense
    /\ NoFlush.old = FALSE
<1>1. "idle" \in FlushPC BY DEF FlushPC
<1> QED BY <1>1 DEF NoFlush, FlushRecord

LEMMA UsageInitInv == UsageInit => UsageInv
<1> SUFFICES ASSUME UsageInit PROVE UsageInv OBVIOUS
<1>1. /\ usageOrder = <<>> /\ usageBuffer = [l \in License |-> 0]
      /\ currentValue = [l \in License |-> 0] /\ made = [l \in License |-> 0]
      /\ recounted = [l \in License |-> 0]
      /\ flush = [f \in Flush |-> NoFlush] /\ overlapped = {} /\ crossed = {}
      /\ forgotten = FALSE
  BY DEF UsageInit
<1>2. usageOrder \in Seq(License) BY <1>1
<1>3. forgotten \in BOOLEAN BY <1>1
<1>4. flush \in [Flush -> FlushRecord] BY <1>1, NoFlushIs
<1>5. UsageTypeOK BY <1>1, <1>2, <1>3, <1>4 DEF UsageTypeOK, FlushRecord
<1>6. \A f \in Flush : flush[f] = NoFlush BY <1>1
<1>7. \A f \in Flush : FlushKept(f) BY <1>6, NoFlushIs DEF FlushKept
<1>8. \A l \in License : FlushOf(l) = {}
  BY <1>6, NoFlushIs, LicenseUsageAssumption DEF FlushOf
<1>9. \A l \in License : currentValue[l] = 0 /\ usageBuffer[l] = 0 /\ Chargeable(l) = 0
  BY <1>1 DEF Chargeable
<1>10. \A l \in License : Counts(l) BY <1>8, <1>9 DEF Counts, OneFlush, Exact
<1> QED BY <1>5, <1>7, <1>10 DEF UsageInv

(* A licence to which nothing happens but perhaps a call, or a flush that  *)
(* begins.                                                                 *)
LEMMA CountsStays ==
    ASSUME UsageInv, NEW m \in License, currentValue'[m] = currentValue[m],
           \/ usageBuffer'[m] = usageBuffer[m] /\ Chargeable(m)' = Chargeable(m)
           \/ /\ usageBuffer'[m] = usageBuffer[m] + 1 /\ Chargeable(m)' = Chargeable(m) + 1
              /\ Counted(m) => m \in crossed',
           \A f \in FlushOf(m)' : f \in FlushOf(m) => flush'[f] = flush[f],
           \A f \in FlushOf(m) : f \in FlushOf(m)',
           \/ \A f \in FlushOf(m)' : f \in FlushOf(m)
           \/ /\ FlushOf(m) # {} => m \in overlapped'
              /\ \A f, g \in FlushOf(m)' \ FlushOf(m) : f = g
              /\ \A f \in FlushOf(m)' \ FlushOf(m) :
                   flush'[f].pc = "reading" /\ ~flush'[f].old,
           overlapped \subseteq overlapped', crossed \subseteq crossed',
           forgotten => forgotten'
    PROVE  Counts(m)'
<1>1. Counts(m) /\ currentValue[m] \in Nat /\ usageBuffer[m] \in Nat /\ Chargeable(m) \in Int
  BY UsageTypes DEF UsageInv
<1>2. m \notin overlapped' => OneFlush(m)'
  <2>1. SUFFICES ASSUME m \notin overlapped' PROVE OneFlush(m)' OBVIOUS
  <2>2. OneFlush(m) BY <1>1, <2>1 DEF Counts
  <2>3. \/ \A f \in FlushOf(m)' : f \in FlushOf(m)
        \/ /\ FlushOf(m) = {} /\ \A f, g \in FlushOf(m)' : f = g
           /\ \A f \in FlushOf(m)' : flush'[f].pc = "reading" /\ ~flush'[f].old
    BY <2>1
  <2>4. \A f \in FlushOf(m) : /\ flush[f].total \in Nat /\ f \in FlushOf(m)'
                               /\ flush'[f] = flush[f]
    BY UsageTypes DEF FlushOf, FlushRecord
  <2>5. \A f, g \in FlushOf(m)' : f = g BY <2>2, <2>3 DEF OneFlush
  <2>6. /\ usageBuffer'[m] \in Nat /\ Chargeable(m)' \in Int
        /\ usageBuffer[m] <= usageBuffer'[m]
        /\ currentValue[m] <= Chargeable(m) => currentValue'[m] <= Chargeable(m)'
        /\ currentValue[m] + usageBuffer[m] <= Chargeable(m)
             => currentValue'[m] + usageBuffer'[m] <= Chargeable(m)'
    BY <1>1
  <2>7. ASSUME NEW f \in FlushOf(m)'
        PROVE  /\ ~flush'[f].old
               /\ flush'[f].pc = "counting" => flush'[f].total = currentValue'[m]
               /\ flush'[f].pc = "saving"
                    => flush'[f].total <= currentValue'[m] + usageBuffer'[m]
    <3>1. CASE f \in FlushOf(m) BY <1>1, <2>2, <2>4, <2>6, <3>1 DEF OneFlush
    <3>2. CASE f \notin FlushOf(m) BY <2>3, <3>2
    <3> QED BY <3>1, <3>2
  <2>8. (\A f \in FlushOf(m)' : flush'[f].pc # "emptying")
          => currentValue'[m] + usageBuffer'[m] <= Chargeable(m)'
    BY <2>2, <2>4, <2>6 DEF OneFlush
  <2>9. currentValue'[m] <= Chargeable(m)' BY <2>2, <2>6 DEF OneFlush
  <2> QED BY <2>5, <2>7, <2>8, <2>9 DEF OneFlush
<1>3. m \notin overlapped' \cup crossed' /\ ~forgotten' => Exact(m)'
  <2>1. SUFFICES ASSUME m \notin overlapped' \cup crossed', ~forgotten'
                 PROVE  Exact(m)'
    OBVIOUS
  <2>2. Exact(m) BY <1>1, <2>1 DEF Counts
  <2>3. \/ \A f \in FlushOf(m)' : f \in FlushOf(m)
        \/ /\ FlushOf(m) = {}
           /\ \A f \in FlushOf(m)' : flush'[f].pc = "reading"
    BY <2>1
  <2>4. \/ usageBuffer'[m] = usageBuffer[m] /\ Chargeable(m)' = Chargeable(m)
        \/ /\ usageBuffer'[m] = usageBuffer[m] + 1 /\ Chargeable(m)' = Chargeable(m) + 1
           /\ \A f \in FlushOf(m) : flush[f].pc \notin {"saving", "emptying"}
    BY <2>1 DEF Counted
  <2> QED BY <1>1, <2>2, <2>3, <2>4 DEF Exact
<1> QED BY <1>2, <1>3 DEF Counts

BeginsOnly(m) ==
    /\ \A g \in FlushOf(m)' : g \in FlushOf(m) => flush'[g] = flush[g]
    /\ \A g \in FlushOf(m) : g \in FlushOf(m)'
    /\ \/ \A g \in FlushOf(m)' : g \in FlushOf(m)
       \/ /\ FlushOf(m) # {} => m \in overlapped'
          /\ \A g, h \in FlushOf(m)' \ FlushOf(m) : g = h
          /\ \A g \in FlushOf(m)' \ FlushOf(m) :
               flush'[g].pc = "reading" /\ ~flush'[g].old

LEMMA BeginMoves ==
    ASSUME UsageInv, NEW f \in Flush, NEW order \in Seq(License), NEW buffer, NEW wanted,
           Begin(f, order, buffer, wanted)
    PROVE  /\ flush' \in [Flush -> FlushRecord] /\ \A g \in Flush : FlushKept(g)'
           /\ overlapped' \subseteq License /\ overlapped \subseteq overlapped'
           /\ \A m \in License : BeginsOnly(m)
<1>1. /\ flush \in [Flush -> FlushRecord] /\ flush[f] \in FlushRecord
      /\ NoLicense \notin License /\ overlapped \subseteq License
      /\ \A g \in Flush : FlushKept(g)
  BY UsageTypes DEF UsageInv, UsageTypeOK
<1>2. CASE UNCHANGED <<flush, overlapped>>
  <2>1. \A g \in Flush : FlushKept(g)' BY <1>1, <1>2 DEF FlushKept
  <2>2. \A m \in License : BeginsOnly(m) BY <1>2 DEF BeginsOnly, FlushOf
  <2> QED BY <1>1, <1>2, <2>1, <2>2
<1>3. ASSUME NEW i \in DOMAIN order, flush[f].pc = "idle",
             flush' = [flush EXCEPT ![f].pc = "reading", ![f].license = order[i]],
             overlapped' = IF FlushOf(order[i]) = {} THEN overlapped
                           ELSE overlapped \cup {order[i]}
      PROVE  /\ flush' \in [Flush -> FlushRecord] /\ \A g \in Flush : FlushKept(g)'
             /\ overlapped' \subseteq License /\ overlapped \subseteq overlapped'
             /\ \A m \in License : BeginsOnly(m)
  <2> DEFINE l == order[i]
             e == [[flush[f] EXCEPT !.pc = "reading"] EXCEPT !.license = l]
  <2>1. l \in License OBVIOUS
  <2>2. flush[f] = NoFlush BY <1>1, <1>3 DEF FlushKept
  <2>3. flush[f].license = NoLicense /\ flush[f].old = FALSE BY <2>2, NoFlushIs
  <2>4. "reading" \in FlushPC BY DEF FlushPC
  <2>5. e \in FlushRecord /\ e.pc = "reading" /\ e.license = l /\ e.old = FALSE
    BY <1>1, <2>1, <2>3, <2>4 DEF FlushRecord
  <2>6. flush' = [flush EXCEPT ![f] = e] BY <1>1, <1>3
  <2> HIDE DEF e
  <2>7. /\ flush' \in [Flush -> FlushRecord] /\ flush'[f] = e
        /\ \A g \in Flush \ {f} : flush'[g] = flush[g]
    BY <1>1, <2>5, <2>6
  <2>8. \A g \in Flush : FlushKept(g)'
    BY <1>1, <2>1, <2>5, <2>7 DEF FlushKept
  <2>9. overlapped' \subseteq License /\ overlapped \subseteq overlapped'
    BY <1>1, <1>3, <2>1
  <2>10. ASSUME NEW m \in License PROVE BeginsOnly(m)
    <3>1. f \notin FlushOf(m) BY <1>1, <2>3 DEF FlushOf
    <3>2. \A g \in Flush \ {f} : g \in FlushOf(m)' <=> g \in FlushOf(m)
      BY <2>7 DEF FlushOf
    <3>3. f \in FlushOf(m)' <=> m = l BY <2>5, <2>7 DEF FlushOf
    <3>4. /\ \A g \in FlushOf(m)' : g \in FlushOf(m) => flush'[g] = flush[g]
          /\ \A g \in FlushOf(m) : g \in FlushOf(m)'
      BY <2>7, <3>1, <3>2 DEF FlushOf
    <3>5. FlushOf(m)' \ FlushOf(m) \subseteq {f} BY <3>2 DEF FlushOf
    <3>6. flush'[f].pc = "reading" /\ ~flush'[f].old BY <2>5, <2>7
    <3>7. CASE m = l
      <4>1. FlushOf(m) # {} => m \in overlapped' BY <1>3, <3>7
      <4> QED BY <3>4, <3>5, <3>6, <4>1 DEF BeginsOnly
    <3>8. CASE m # l
      <4>1. \A g \in FlushOf(m)' : g \in FlushOf(m) BY <3>2, <3>3, <3>8 DEF FlushOf
      <4> QED BY <3>4, <4>1 DEF BeginsOnly
    <3> QED BY <3>7, <3>8
  <2> QED BY <2>7, <2>8, <2>9, <2>10
<1> QED BY <1>2, <1>3 DEF Begin, Keys

LEMMA AggregateKeeps == UsageInv /\ Aggregate => UsageInv'
<1> SUFFICES ASSUME UsageInv, Aggregate PROVE UsageInv' OBVIOUS
<1>1. PICK f \in Flush : Begin(f, usageOrder, usageBuffer, License) BY DEF Aggregate
<1>2. UNCHANGED <<usageOrder, usageBuffer, currentValue, made, recounted, crossed, forgotten>>
  BY DEF Aggregate
<1>3. UsageTypeOK /\ usageOrder \in Seq(License) BY DEF UsageInv, UsageTypeOK
<1>4. /\ flush' \in [Flush -> FlushRecord] /\ \A g \in Flush : FlushKept(g)'
      /\ overlapped' \subseteq License /\ overlapped \subseteq overlapped'
      /\ \A m \in License : BeginsOnly(m)
  BY <1>1, <1>3, BeginMoves
<1>5. UsageTypeOK' BY <1>2, <1>3, <1>4 DEF UsageTypeOK, FlushRecord
<1>6. ASSUME NEW m \in License PROVE Counts(m)'
  <2>1. Chargeable(m)' = Chargeable(m) BY <1>2 DEF Chargeable
  <2> QED BY <1>2, <1>4, <2>1, CountsStays DEF BeginsOnly
<1> QED BY <1>4, <1>5, <1>6 DEF UsageInv

LEMMA CountCallKeeps == ASSUME UsageInv, NEW l \in License, CountCall(l) PROVE UsageInv'
<1> DEFINE buffer == [usageBuffer EXCEPT ![l] = @ + 1]
           order  == IF \E i \in DOMAIN usageOrder : usageOrder[i] = l
                     THEN usageOrder ELSE Append(usageOrder, l)
<1>1. /\ made' = [made EXCEPT ![l] = @ + 1] /\ usageBuffer' = buffer
      /\ usageOrder' = order
      /\ crossed' = IF Counted(l) THEN crossed \cup {l} ELSE crossed
      /\ UNCHANGED <<currentValue, recounted, forgotten>>
  BY DEF CountCall
<1>2. \/ \E f \in Flush : Begin(f, order, buffer, Matching(l))
      \/ UNCHANGED <<flush, overlapped>>
  BY DEF CountCall
<1>3. /\ UsageTypeOK /\ usageOrder \in Seq(License) /\ overlapped \subseteq License
      /\ \A g \in Flush : FlushKept(g)
      /\ usageBuffer \in [License -> Nat] /\ made \in [License -> Nat]
      /\ flush \in [Flush -> FlushRecord]
  BY UsageTypes DEF UsageInv, UsageTypeOK
<1>4. order \in Seq(License) BY <1>3
<1>5. buffer \in [License -> Nat] BY <1>3
<1> HIDE DEF order, buffer
<1>6. /\ flush' \in [Flush -> FlushRecord] /\ \A g \in Flush : FlushKept(g)'
      /\ overlapped' \subseteq License /\ overlapped \subseteq overlapped'
      /\ \A m \in License : BeginsOnly(m)
  <2>1. CASE \E f \in Flush : Begin(f, order, buffer, Matching(l))
    BY <1>4, <2>1, BeginMoves
  <2>2. CASE UNCHANGED <<flush, overlapped>>
    <3>1. \A g \in Flush : FlushKept(g)' BY <1>3, <2>2 DEF FlushKept
    <3>2. \A m \in License : BeginsOnly(m) BY <2>2 DEF BeginsOnly, FlushOf
    <3> QED BY <1>3, <2>2, <3>1, <3>2
  <2> QED BY <1>2, <2>1, <2>2
<1>7. UsageTypeOK'
  <2>1. crossed' \subseteq License /\ made' \in [License -> Nat]
    BY <1>1, <1>3 DEF UsageTypeOK
  <2> QED BY <1>1, <1>3, <1>4, <1>5, <1>6, <2>1 DEF UsageTypeOK, FlushRecord
<1>8. ASSUME NEW m \in License PROVE Counts(m)'
  <2>1. \/ usageBuffer'[m] = usageBuffer[m] /\ Chargeable(m)' = Chargeable(m)
        \/ /\ usageBuffer'[m] = usageBuffer[m] + 1
           /\ Chargeable(m)' = Chargeable(m) + 1
           /\ Counted(m) => m \in crossed'
    BY <1>1, <1>3, UsageTypes DEF buffer, Chargeable
  <2>2. crossed \subseteq crossed' /\ currentValue'[m] = currentValue[m] BY <1>1
  <2>3. forgotten => forgotten' BY <1>1
  <2> QED BY <1>6, <2>1, <2>2, <2>3, CountsStays DEF BeginsOnly
<1> QED BY <1>6, <1>7, <1>8 DEF UsageInv

(* A step of flush f, of licence l: what it must keep. *)
LEMMA FlushMoves ==
    ASSUME UsageInv, NEW f \in Flush, NEW l \in License, flush[f].license = l,
           UNCHANGED <<usageOrder, made, recounted, overlapped, crossed, forgotten>>,
           flush' \in [Flush -> FlushRecord], usageBuffer' \in [License -> Nat],
           currentValue' \in [License -> Nat],
           \A g \in Flush : FlushKept(g)',
           \A g \in Flush : flush[g].license # l => flush'[g] = flush[g],
           \A g \in Flush : flush[g].license = l => flush'[g].license \in {l, NoLicense},
           \A m \in License \ {l} : /\ currentValue'[m] = currentValue[m]
                                    /\ usageBuffer'[m] = usageBuffer[m],
           OneFlush(l) /\ FlushOf(l) = {f} => OneFlush(l)',
           OneFlush(l) /\ Exact(l) /\ FlushOf(l) = {f} => Exact(l)'
    PROVE  UsageInv'
<1>1. UsageTypeOK' BY DEF UsageInv, UsageTypeOK, FlushRecord
<1>2. ASSUME NEW m \in License, m # l PROVE Counts(m)'
  <2>1. NoLicense \notin License BY LicenseUsageAssumption
  <2>2. \A g \in Flush : g \in FlushOf(m)' <=> g \in FlushOf(m)
    BY <1>2, <2>1 DEF FlushOf
  <2>3. \A g \in FlushOf(m)' : g \in FlushOf(m) => flush'[g] = flush[g]
    BY <1>2 DEF FlushOf
  <2>4. /\ \A g \in FlushOf(m)' : g \in FlushOf(m)
        /\ \A g \in FlushOf(m) : g \in FlushOf(m)'
    BY <2>2 DEF FlushOf
  <2>5. /\ currentValue'[m] = currentValue[m] /\ usageBuffer'[m] = usageBuffer[m]
        /\ Chargeable(m)' = Chargeable(m)
    BY <1>2 DEF Chargeable
  <2>6. /\ overlapped \subseteq overlapped' /\ crossed \subseteq crossed'
        /\ forgotten => forgotten'
    OBVIOUS
  <2> QED BY <2>3, <2>4, <2>5, <2>6, CountsStays
<1>3. Counts(l)'
  <2>1. Counts(l) BY DEF UsageInv
  <2>2. OneFlush(l) => FlushOf(l) = {f} BY DEF OneFlush, FlushOf
  <2> QED BY <2>1, <2>2 DEF Counts
<1>4. \A m \in License : Counts(m)' BY <1>2, <1>3
<1> QED BY <1>1, <1>4 DEF UsageInv

(* Flush f of licence l becomes e, of the same licence. *)
LEMMA FlushBecomes ==
    ASSUME UsageInv, NEW f \in Flush, NEW l \in License, flush[f].license = l,
           NEW e \in FlushRecord, e.pc # "idle", e.license = l,
           flush' = [flush EXCEPT ![f] = e]
    PROVE  /\ flush' \in [Flush -> FlushRecord] /\ flush'[f] = e
           /\ \A g \in Flush \ {f} : flush'[g] = flush[g]
           /\ \A g \in Flush : FlushKept(g)'
           /\ FlushOf(l) = {f} => FlushOf(l)' = {f}
<1>1. flush \in [Flush -> FlushRecord] /\ \A g \in Flush : FlushKept(g)
  BY UsageTypes DEF UsageInv
<1>2. /\ flush' \in [Flush -> FlushRecord] /\ flush'[f] = e
      /\ \A g \in Flush \ {f} : flush'[g] = flush[g]
  BY <1>1
<1>3. \A g \in Flush : FlushKept(g)' BY <1>1, <1>2 DEF FlushKept
<1>4. FlushOf(l) = {f} => FlushOf(l)' = {f} BY <1>2 DEF FlushOf
<1> QED BY <1>2, <1>3, <1>4

LEMMA ReadKeeps == ASSUME UsageInv, NEW f \in Flush, ReadLatest(f) PROVE UsageInv'
<1> DEFINE l == flush[f].license
           e == [[flush[f] EXCEPT !.pc = "counting"] EXCEPT !.total = currentValue[l]]
<1>1. /\ flush \in [Flush -> FlushRecord] /\ flush[f] \in FlushRecord
      /\ flush[f].pc = "reading" /\ l \in License /\ currentValue[l] \in Nat
      /\ usageBuffer \in [License -> Nat] /\ currentValue \in [License -> Nat]
  BY UsageTypes DEF UsageInv, UsageTypeOK, FlushKept, ReadLatest
<1>2. "counting" \in FlushPC BY DEF FlushPC
<1>3. /\ e \in FlushRecord /\ e.pc = "counting" /\ e.license = l
      /\ e.total = currentValue[l] /\ e.old = flush[f].old
  BY <1>1, <1>2 DEF FlushRecord
<1>4. /\ flush' = [flush EXCEPT ![f] = e]
      /\ UNCHANGED <<usageOrder, usageBuffer, currentValue, made, recounted, overlapped,
                     crossed, forgotten>>
  BY <1>1 DEF ReadLatest, Advance
<1> HIDE DEF e
<1>5. /\ flush' \in [Flush -> FlushRecord] /\ flush'[f] = e
      /\ \A g \in Flush \ {f} : flush'[g] = flush[g]
      /\ \A g \in Flush : FlushKept(g)'
      /\ \A k \in License : k = l => (FlushOf(k) = {f} => FlushOf(k)' = {f})
  BY <1>1, <1>3, <1>4, FlushBecomes
<1>6. PICK k \in License : k = l BY <1>1
<1> HIDE DEF l
<1>7. OneFlush(k) /\ FlushOf(k) = {f} => OneFlush(k)'
  BY <1>1, <1>3, <1>4, <1>5, <1>6, ChargeableStays DEF OneFlush
<1>8. OneFlush(k) /\ Exact(k) /\ FlushOf(k) = {f} => Exact(k)'
  BY <1>1, <1>3, <1>4, <1>5, <1>6, ChargeableStays DEF Exact
<1>9. \A g \in Flush : /\ flush[g].license # k => flush'[g] = flush[g]
                       /\ flush[g].license = k => flush'[g].license \in {k, NoLicense}
  BY <1>3, <1>5, <1>6 DEF l
<1> QED BY <1>1, <1>4, <1>5, <1>6, <1>7, <1>8, <1>9, FlushMoves DEF l

LEMMA CountKeeps == ASSUME UsageInv, NEW f \in Flush, Count(f) PROVE UsageInv'
<1> DEFINE l == flush[f].license
           e == [[flush[f] EXCEPT !.pc = "saving"]
                EXCEPT !.total = Total(flush[f].total, Held(f))]
<1>1. /\ flush \in [Flush -> FlushRecord] /\ flush[f] \in FlushRecord
      /\ flush[f].pc = "counting" /\ l \in License /\ currentValue[l] \in Nat
      /\ usageBuffer \in [License -> Nat] /\ currentValue \in [License -> Nat]
  BY UsageTypes DEF UsageInv, UsageTypeOK, FlushKept, Count
<1>2. /\ "saving" \in FlushPC /\ Held(f) \in Nat
      /\ Total(flush[f].total, Held(f)) = flush[f].total + Held(f)
      /\ Total(flush[f].total, Held(f)) \in Nat
  <2>1. "saving" \in FlushPC BY DEF FlushPC
  <2>2. Held(f) \in Nat BY <1>1 DEF Held, FlushRecord
  <2> QED BY <1>1, <2>1, <2>2 DEF Total, FlushRecord
<1>3. /\ e \in FlushRecord /\ e.pc = "saving" /\ e.license = l
      /\ e.total = Total(flush[f].total, Held(f)) /\ e.old = flush[f].old
  BY <1>1, <1>2 DEF FlushRecord
<1>4. /\ flush' = [flush EXCEPT ![f] = e]
      /\ UNCHANGED <<usageOrder, usageBuffer, currentValue, made, recounted, overlapped,
                     crossed, forgotten>>
  BY <1>1 DEF Count, Advance
<1> HIDE DEF e
<1>5. /\ flush' \in [Flush -> FlushRecord] /\ flush'[f] = e
      /\ \A g \in Flush \ {f} : flush'[g] = flush[g]
      /\ \A g \in Flush : FlushKept(g)'
      /\ \A k \in License : k = l => (FlushOf(k) = {f} => FlushOf(k)' = {f})
  BY <1>1, <1>3, <1>4, FlushBecomes
<1>6. PICK k \in License : k = l BY <1>1
<1> HIDE DEF l
<1>7. /\ currentValue[k] \in Nat /\ usageBuffer[k] \in Nat
      /\ flush[f].total \in Nat
  BY <1>1, <1>6 DEF FlushRecord
<1>8. OneFlush(k) /\ FlushOf(k) = {f} => e.total = currentValue[k] + usageBuffer[k]
  BY <1>1, <1>2, <1>3, <1>6, <1>7 DEF OneFlush, Held, l
<1>9. OneFlush(k) /\ FlushOf(k) = {f} => OneFlush(k)'
  BY <1>1, <1>3, <1>4, <1>5, <1>6, <1>7, <1>8, ChargeableStays DEF OneFlush
<1>10. OneFlush(k) /\ Exact(k) /\ FlushOf(k) = {f} => Exact(k)'
  BY <1>1, <1>3, <1>4, <1>5, <1>6, <1>7, <1>8, ChargeableStays DEF Exact
<1>11. \A g \in Flush : /\ flush[g].license # k => flush'[g] = flush[g]
                        /\ flush[g].license = k => flush'[g].license \in {k, NoLicense}
  BY <1>3, <1>5, <1>6 DEF l
<1> QED BY <1>1, <1>4, <1>5, <1>6, <1>9, <1>10, <1>11,
   FlushMoves DEF l

LEMMA SaveKeeps == ASSUME UsageInv, NEW f \in Flush, SaveUsage(f) PROVE UsageInv'
<1> DEFINE e == [flush[f] EXCEPT !.pc = "emptying"]
<1>1. PICK l \in License : flush[f].license = l
  BY DEF UsageInv, FlushKept, SaveUsage
<1>2. /\ flush \in [Flush -> FlushRecord] /\ flush[f] \in FlushRecord
      /\ flush[f].pc = "saving" /\ flush[f].total \in Nat
      /\ currentValue[l] \in Nat /\ usageBuffer[l] \in Nat /\ Chargeable(l) \in Int
      /\ usageBuffer \in [License -> Nat] /\ currentValue \in [License -> Nat]
  BY UsageTypes DEF UsageInv, UsageTypeOK, SaveUsage, FlushRecord
<1>3. "emptying" \in FlushPC BY DEF FlushPC
<1>4. e \in FlushRecord /\ e.pc = "emptying" /\ e.license = l /\ e.old = flush[f].old
  BY <1>1, <1>2, <1>3 DEF FlushRecord
<1>5. /\ flush' = [flush EXCEPT ![f] = e]
      /\ currentValue' = [currentValue EXCEPT ![l] = flush[f].total]
      /\ UNCHANGED <<usageOrder, usageBuffer, made, recounted, overlapped, crossed,
                     forgotten>>
  BY <1>1, <1>2 DEF SaveUsage
<1> HIDE DEF e
<1>6. /\ flush' \in [Flush -> FlushRecord] /\ flush'[f] = e
      /\ \A g \in Flush \ {f} : flush'[g] = flush[g]
      /\ \A g \in Flush : FlushKept(g)'
      /\ FlushOf(l) = {f} => FlushOf(l)' = {f}
  BY <1>1, <1>2, <1>4, <1>5, FlushBecomes
<1>7. /\ currentValue' \in [License -> Nat] /\ currentValue'[l] = flush[f].total
      /\ \A m \in License \ {l} : currentValue'[m] = currentValue[m]
  BY <1>2, <1>5
<1>8. OneFlush(l) /\ FlushOf(l) = {f}
        => /\ flush[f].total <= currentValue[l] + usageBuffer[l]
           /\ flush[f].total <= Chargeable(l)
  BY <1>2 DEF OneFlush
<1>9. OneFlush(l) /\ FlushOf(l) = {f} => OneFlush(l)'
  BY <1>2, <1>4, <1>5, <1>6, <1>7, <1>8, ChargeableStays DEF OneFlush
<1>10. OneFlush(l) /\ Exact(l) /\ FlushOf(l) = {f} => Exact(l)'
  BY <1>2, <1>4, <1>5, <1>6, <1>7, ChargeableStays DEF Exact
<1>11. \A g \in Flush : /\ flush[g].license # l => flush'[g] = flush[g]
                        /\ flush[g].license = l => flush'[g].license \in {l, NoLicense}
  BY <1>1, <1>4, <1>6
<1> QED BY <1>1, <1>2, <1>5, <1>6, <1>7, <1>9, <1>10, <1>11, FlushMoves

LEMMA FlushFailKeeps == ASSUME UsageInv, NEW f \in Flush, FailFlush(f) PROVE UsageInv'
<1>1. PICK l \in License : flush[f].license = l
  BY DEF UsageInv, FlushKept, FailFlush
<1>2. /\ flush \in [Flush -> FlushRecord] /\ \A g \in Flush : FlushKept(g)
      /\ flush[f].pc \in {"reading", "saving"} /\ NoLicense \notin License
      /\ usageBuffer \in [License -> Nat] /\ currentValue \in [License -> Nat]
  BY UsageTypes DEF UsageInv, UsageTypeOK, FailFlush
<1>3. /\ flush' = [flush EXCEPT ![f] = NoFlush]
      /\ UNCHANGED <<usageOrder, usageBuffer, currentValue, made, recounted, overlapped,
                     crossed, forgotten>>
  BY DEF FailFlush
<1>4. /\ flush' \in [Flush -> FlushRecord] /\ flush'[f] = NoFlush
      /\ \A g \in Flush \ {f} : flush'[g] = flush[g]
  BY <1>2, <1>3, NoFlushIs
<1>5. \A g \in Flush : FlushKept(g)' BY <1>2, <1>4, NoFlushIs DEF FlushKept
<1>6. FlushOf(l) = {f} => FlushOf(l)' = {} BY <1>2, <1>4, NoFlushIs DEF FlushOf
<1>7. OneFlush(l) /\ FlushOf(l) = {f} => OneFlush(l)'
  BY <1>2, <1>3, <1>6, ChargeableStays DEF OneFlush
<1>8. OneFlush(l) /\ Exact(l) /\ FlushOf(l) = {f} => Exact(l)'
  BY <1>2, <1>3, <1>6, ChargeableStays DEF Exact
<1>9. \A g \in Flush : /\ flush[g].license # l => flush'[g] = flush[g]
                       /\ flush[g].license = l => flush'[g].license \in {l, NoLicense}
  BY <1>1, <1>4, NoFlushIs
<1> QED BY <1>1, <1>2, <1>3, <1>4, <1>5, <1>7, <1>8, <1>9, FlushMoves

LEMMA LoseKeeps == ASSUME UsageInv, NEW f \in Flush, LoseAnswer(f) PROVE UsageInv'
<1>1. PICK l \in License : flush[f].license = l
  BY DEF UsageInv, FlushKept, LoseAnswer
<1>2. /\ flush \in [Flush -> FlushRecord] /\ flush[f].total \in Nat
      /\ \A g \in Flush : FlushKept(g)
      /\ flush[f].pc = "saving" /\ NoLicense \notin License
      /\ usageBuffer \in [License -> Nat] /\ currentValue \in [License -> Nat]
      /\ made \in [License -> Nat] /\ recounted \in [License -> Int]
  BY UsageTypes DEF UsageInv, UsageTypeOK, LoseAnswer, FlushRecord
<1>3. /\ flush' = [flush EXCEPT ![f] = NoFlush]
      /\ currentValue' = [currentValue EXCEPT ![l] = flush[f].total]
      /\ recounted' = [recounted EXCEPT ![l] = @ + flush[f].total - currentValue[l]]
      /\ UNCHANGED <<usageOrder, usageBuffer, made, overlapped, crossed, forgotten>>
  BY <1>1 DEF LoseAnswer
<1>4. /\ flush' \in [Flush -> FlushRecord] /\ flush'[f] = NoFlush
      /\ \A g \in Flush \ {f} : flush'[g] = flush[g]
  BY <1>2, <1>3, NoFlushIs
<1>5. /\ currentValue' \in [License -> Nat] /\ recounted' \in [License -> Int]
      /\ currentValue'[l] = flush[f].total
      /\ recounted'[l] = recounted[l] + flush[f].total - currentValue[l]
      /\ \A m \in License \ {l} :
           currentValue'[m] = currentValue[m] /\ recounted'[m] = recounted[m]
  BY <1>2, <1>3
<1>6. UsageTypeOK' BY <1>3, <1>4, <1>5 DEF UsageInv, UsageTypeOK, FlushRecord
<1>7. \A g \in Flush : FlushKept(g)' BY <1>2, <1>4, NoFlushIs DEF FlushKept
<1>8. ASSUME NEW m \in License, m # l PROVE Counts(m)'
  <2>1. f \notin FlushOf(m) BY <1>1, <1>8 DEF FlushOf
  <2>2. \A g \in Flush : g \in FlushOf(m)' <=> g \in FlushOf(m)
    BY <1>2, <1>4, <2>1, NoFlushIs DEF FlushOf
  <2>3. \A g \in FlushOf(m)' : g \in FlushOf(m) => flush'[g] = flush[g]
    BY <1>4, <2>1 DEF FlushOf
  <2>4. /\ \A g \in FlushOf(m)' : g \in FlushOf(m)
        /\ \A g \in FlushOf(m) : g \in FlushOf(m)'
    BY <2>2 DEF FlushOf
  <2>5. /\ currentValue'[m] = currentValue[m] /\ usageBuffer'[m] = usageBuffer[m]
        /\ Chargeable(m)' = Chargeable(m)
    BY <1>3, <1>5, <1>8 DEF Chargeable
  <2>6. /\ overlapped \subseteq overlapped' /\ crossed \subseteq crossed'
        /\ forgotten => forgotten'
    BY <1>3
  <2> QED BY <2>3, <2>4, <2>5, <2>6, CountsStays
<1>9. Counts(l)'
  <2>1. Counts(l) BY DEF UsageInv
  <2>2. OneFlush(l) => FlushOf(l) = {f} BY <1>1 DEF OneFlush, FlushOf
  <2>3. FlushOf(l) = {f} => FlushOf(l)' = {} BY <1>2, <1>4, NoFlushIs DEF FlushOf
  <2>4. /\ currentValue[l] \in Nat /\ usageBuffer[l] \in Nat /\ Chargeable(l) \in Int
        /\ Chargeable(l)' = Chargeable(l) + flush[f].total - currentValue[l]
        /\ usageBuffer'[l] = usageBuffer[l]
    BY <1>2, <1>3, <1>5, UsageTypes DEF Chargeable
  <2>5. OneFlush(l) /\ FlushOf(l) = {f} => OneFlush(l)'
    BY <1>2, <1>5, <2>3, <2>4 DEF OneFlush
  <2>6. OneFlush(l) /\ Exact(l) /\ FlushOf(l) = {f} => Exact(l)'
    BY <1>2, <1>5, <2>3, <2>4 DEF Exact
  <2> QED BY <1>3, <2>1, <2>2, <2>5, <2>6 DEF Counts
<1> QED BY <1>6, <1>7, <1>8, <1>9 DEF UsageInv

LEMMA EmptyKeeps == ASSUME UsageInv, NEW f \in Flush, EmptyBuffer(f) PROVE UsageInv'
<1>1. PICK l \in License : flush[f].license = l
  BY DEF UsageInv, FlushKept, EmptyBuffer
<1> DEFINE old(g)  == [flush[g] EXCEPT !.old = TRUE, !.length = usageBuffer[l]]
           Left(g) == IF g \in FlushOf(l) /\ ~flush[g].old THEN old(g) ELSE flush[g]
<1>2. /\ flush \in [Flush -> FlushRecord] /\ \A g \in Flush : FlushKept(g)
      /\ flush[f].pc = "emptying" /\ NoLicense \notin License
      /\ usageBuffer[l] \in Nat /\ currentValue[l] \in Nat /\ Chargeable(l) \in Int
      /\ usageBuffer \in [License -> Nat] /\ currentValue \in [License -> Nat]
  BY UsageTypes DEF UsageInv, UsageTypeOK, EmptyBuffer
<1>3. ASSUME NEW g \in Flush
      PROVE  /\ old(g) \in FlushRecord /\ old(g).license = flush[g].license
             /\ old(g).pc = flush[g].pc
  <2> DEFINE e == [[flush[g] EXCEPT !.old = TRUE] EXCEPT !.length = usageBuffer[l]]
  <2>1. e \in FlushRecord /\ e.license = flush[g].license /\ e.pc = flush[g].pc
    BY <1>2 DEF FlushRecord
  <2>2. old(g) = e BY <1>2 DEF FlushRecord
  <2> QED BY <2>1, <2>2
<1>4. /\ flush' = [g \in Flush |-> IF g = f THEN NoFlush ELSE Left(g)]
      /\ usageBuffer' = [usageBuffer EXCEPT ![l] = 0]
      /\ UNCHANGED <<usageOrder, currentValue, made, recounted, overlapped, crossed,
                     forgotten>>
  BY <1>1 DEF EmptyBuffer, Emptied
<1> HIDE DEF old
<1>5. /\ flush'[f] = NoFlush /\ flush' \in [Flush -> FlushRecord]
      /\ \A g \in Flush \ {f} : flush'[g] = Left(g)
  BY <1>2, <1>3, <1>4, NoFlushIs
<1>6. ASSUME NEW g \in Flush
      PROVE  /\ FlushKept(g)'
             /\ flush[g].license # l => flush'[g] = flush[g]
             /\ flush[g].license = l => flush'[g].license \in {l, NoLicense}
  <2>1. CASE g = f BY <1>1, <1>5, <2>1, NoFlushIs DEF FlushKept
  <2>2. CASE g # f /\ g \in FlushOf(l) /\ ~flush[g].old
    <3>1. flush'[g] = old(g) BY <1>5, <2>2
    <3>2. flush[g].license = l BY <2>2 DEF FlushOf
    <3>3. flush[g].pc # "idle" BY <1>2, <3>2, NoFlushIs DEF FlushKept
    <3> QED BY <1>3, <3>1, <3>2, <3>3 DEF FlushKept
  <2>3. CASE g # f /\ ~(g \in FlushOf(l) /\ ~flush[g].old)
    <3>1. flush'[g] = flush[g] BY <1>5, <2>3
    <3> QED BY <1>2, <3>1 DEF FlushKept
  <2> QED BY <2>1, <2>2, <2>3
<1>7. FlushOf(l) = {f} => FlushOf(l)' = {}
  <2>1. SUFFICES ASSUME FlushOf(l) = {f} PROVE FlushOf(l)' = {} OBVIOUS
  <2>2. \A g \in Flush \ {f} : flush'[g] = flush[g] BY <1>5, <2>1
  <2> QED BY <1>2, <1>5, <2>1, <2>2, NoFlushIs DEF FlushOf
<1>8. /\ usageBuffer' \in [License -> Nat] /\ usageBuffer'[l] = 0
      /\ \A m \in License \ {l} : usageBuffer'[m] = usageBuffer[m]
  BY <1>2, <1>4
<1>9. OneFlush(l) /\ FlushOf(l) = {f} => OneFlush(l)'
  BY <1>2, <1>4, <1>7, <1>8, ChargeableStays DEF OneFlush
<1>10. OneFlush(l) /\ Exact(l) /\ FlushOf(l) = {f} => Exact(l)'
  BY <1>2, <1>4, <1>7, <1>8, ChargeableStays DEF Exact
<1>11. /\ UNCHANGED <<usageOrder, made, recounted, overlapped, crossed, forgotten>>
       /\ currentValue' \in [License -> Nat]
       /\ \A m \in License \ {l} : currentValue'[m] = currentValue[m]
  BY <1>2, <1>4
<1> QED BY <1>1, <1>5, <1>6, <1>8, <1>9, <1>10, <1>11, FlushMoves

LEMMA RestartKeeps == UsageInv /\ RestartUsage => UsageInv'
<1> SUFFICES ASSUME UsageInv, RestartUsage PROVE UsageInv' OBVIOUS
<1>1. /\ usageOrder' = <<>> /\ usageBuffer' = [l \in License |-> 0]
      /\ flush' = [f \in Flush |-> NoFlush] /\ forgotten' = TRUE
      /\ UNCHANGED <<currentValue, made, recounted, overlapped, crossed>>
  BY DEF RestartUsage
<1>2. UsageTypeOK /\ NoLicense \notin License
  BY UsageTypes DEF UsageInv
<1>3. flush' \in [Flush -> FlushRecord] BY <1>1, NoFlushIs
<1>4. usageOrder' \in Seq(License) BY <1>1
<1>5. UsageTypeOK' BY <1>1, <1>2, <1>3, <1>4 DEF UsageTypeOK, FlushRecord
<1>6. \A f \in Flush : FlushKept(f)' BY <1>1, NoFlushIs DEF FlushKept
<1>7. ASSUME NEW l \in License PROVE Counts(l)'
  <2>1. FlushOf(l)' = {} BY <1>1, <1>2, NoFlushIs DEF FlushOf
  <2>2. currentValue[l] \in Nat /\ Chargeable(l) \in Int /\ Counts(l)
    BY UsageTypes DEF UsageInv
  <2>3. /\ usageBuffer'[l] = 0 /\ currentValue'[l] = currentValue[l]
        /\ Chargeable(l)' = Chargeable(l)
    BY <1>1 DEF Chargeable
  <2> QED BY <1>1, <2>1, <2>2, <2>3 DEF Counts, OneFlush
<1> QED BY <1>5, <1>6, <1>7 DEF UsageInv

LEMMA UsageStepInv == UsageInv /\ [UsageNext]_usageVars => UsageInv'
<1> SUFFICES ASSUME UsageInv, [UsageNext]_usageVars PROVE UsageInv' OBVIOUS
<1>1. CASE \E l \in License : CountCall(l) BY <1>1, CountCallKeeps
<1>2. CASE Aggregate BY <1>2, AggregateKeeps
<1>3. CASE \E f \in Flush : FlushStep(f)
  BY <1>3, ReadKeeps, CountKeeps, SaveKeeps, EmptyKeeps, FlushFailKeeps, LoseKeeps
  DEF FlushStep
<1>4. CASE RestartUsage BY <1>4, RestartKeeps
<1>5. CASE UNCHANGED usageVars
  <2>1. UNCHANGED <<usageOrder, usageBuffer, currentValue, made, recounted, flush,
                    overlapped, crossed, forgotten>>
    BY <1>5 DEF usageVars
  <2>2. UsageTypeOK' BY <2>1 DEF UsageInv, UsageTypeOK
  <2>3. \A f \in Flush : FlushKept(f)' BY <2>1 DEF UsageInv, FlushKept
  <2>4. \A l \in License : Counts(l)'
    BY <2>1 DEF UsageInv, Counts, OneFlush, Exact, FlushOf, Chargeable
  <2> QED BY <2>2, <2>3, <2>4 DEF UsageInv
<1> QED BY <1>1, <1>2, <1>3, <1>4, <1>5 DEF UsageNext

(* The one flush of a licence adds what its buffer held, once. *)
THEOREM UsageInductive == UsageSpec => []UsageInv
BY UsageInitInv, UsageStepInv, PTL DEF UsageSpec

(* A licence whose flushes do not overlap is never charged for calls that  *)
(* were not made, nor twice but for those of a row whose save was not      *)
(* answered, however calls, failures and restarts fall.                    *)
THEOREM NeverChargedTwice == UsageSpec => []NeverOvercharged
<1>1. UsageInv => NeverOvercharged BY DEF UsageInv, Counts, OneFlush, NeverOvercharged
<1> QED BY <1>1, UsageInductive, PTL

(* Between flushes the total and the buffer hold every call, once, and     *)
(* once more for each save that was not answered.                          *)
THEOREM NoCallForgotten == UsageSpec => []EveryCallCounted
<1>1. UsageInv => EveryCallCounted BY DEF UsageInv, Counts, Exact, EveryCallCounted
<1> QED BY <1>1, UsageInductive, PTL

-----------------------------------------------------------------------------
(* What a call has logged and not yet added to the row.                    *)
Pending(c) == IF xpCall[c].pc = "saving" THEN xpCall[c].award.amount ELSE 0

Net == granted - fined

Within(xp) == -fined <= xp /\ xp <= granted

(* A lone call knows the row as it is.                                     *)
LoneCall(c) ==
    /\ AwardingXP = {c}
    /\ xpCall[c].row.total + Pending(c) = Net
    /\ TotalXP + Pending(c) = Net

XPInv ==
    /\ RewardsTypeOK
    /\ Within(TotalXP)
    /\ \A c \in AwardingXP : Within(xpCall[c].row.total + Pending(c))
    /\ (~xpOverlaps /\ ~xpFailed) =>
         /\ \A c \in AwardingXP : LoneCall(c)
         /\ AwardingXP = {} => TotalXP = Net

LEMMA XPTypes ==
    ASSUME RewardsTypeOK, NEW c \in AwardingXP
    PROVE  /\ c \in XPCaller /\ xpCall[c] \in XPCall
           /\ xpCall[c].pc \in {"creating", "logging", "saving"}
           /\ xpCall[c].row \in RewardsRow /\ xpCall[c].award \in Award
           /\ xpCall[c].row.total \in Int /\ xpCall[c].award.amount \in Int
           /\ Pending(c) \in Int
<1>1. c \in XPCaller /\ xpCall[c] \in XPCall BY DEF RewardsTypeOK, AwardingXP
<1>2. /\ xpCall[c].pc \in {"creating", "logging", "saving"}
      /\ xpCall[c].row \in RewardsRow /\ xpCall[c].award \in Award
  BY <1>1 DEF XPCall
<1>3. xpCall[c].row.total \in Int BY <1>2 DEF RewardsRow
<1>4. xpCall[c].award.amount \in Int BY <1>2, RewardsAssumption DEF Award
<1> QED BY <1>1, <1>2, <1>3, <1>4 DEF Pending

LEMMA TotalType == ASSUME RewardsTypeOK PROVE TotalXP \in Int
BY DEF RewardsTypeOK, TotalXP, RewardsRow

LEMMA NewRewardsType == NewRewards \in RewardsRow /\ NewRewards.total = 0
BY DEF NewRewards, RewardsRow, Category

LEMMA CreditedType ==
    ASSUME NEW row \in RewardsRow, NEW a \in Award
    PROVE  /\ Credited(row, a) \in RewardsRow
           /\ Credited(row, a).total = row.total + a.amount
<1>1. LevelOf(row.total + a.amount) \in Nat BY RewardsAssumption DEF LevelOf
<1>2. a.amount \in Int BY RewardsAssumption DEF Award
<1>3. \A n \in Int \cup {Missing, Null} :
        Plus(n, a.amount) \in Int \cup {Missing, Null}
  BY <1>2 DEF Plus
<1>4. /\ row.total \in Int /\ row.level \in Nat
      /\ row.breakdown \in [Category -> Int \cup {Missing, Null}]
      /\ a.category \in Category
  BY DEF RewardsRow, Award
<1> DEFINE total == row.total + a.amount
           level == IF LevelOf(total) > row.level THEN LevelOf(total) ELSE row.level
           parts == [row.breakdown EXCEPT ![a.category] = Plus(@, a.amount)]
<1>5. total \in Int /\ level \in Nat BY <1>1, <1>2, <1>4
<1>6. parts \in [Category -> Int \cup {Missing, Null}] BY <1>3, <1>4
<1>7. Credited(row, a) = [total |-> total, level |-> level, breakdown |-> parts]
  BY DEF Credited
<1> HIDE DEF total, level, parts
<1>8. Credited(row, a) \in RewardsRow /\ Credited(row, a).total = total
  BY <1>5, <1>6, <1>7 DEF RewardsRow
<1> QED BY <1>8 DEF total

LEMMA XPInitInv == RewardsInit => XPInv
<1> SUFFICES ASSUME RewardsInit PROVE XPInv OBVIOUS
<1>1. AwardingXP = {} BY DEF RewardsInit, AwardingXP
<1>2. RewardsTypeOK BY DEF RewardsInit, RewardsTypeOK
<1>3. TotalXP = 0 /\ granted = 0 /\ fined = 0 BY DEF RewardsInit, TotalXP
<1> QED BY <1>1, <1>2, <1>3 DEF XPInv, Within, Net

(* One call moves: what is known of the others does not change, as long as *)
(* the transactions only grow.                                             *)
LEMMA XPMoves ==
    ASSUME XPInv, RewardsTypeOK', NEW c \in XPCaller,
           \A d \in XPCaller \ {c} : xpCall'[d] = xpCall[d],
           granted <= granted' /\ fined <= fined', Within(TotalXP)',
           c \in AwardingXP' => Within(xpCall[c].row.total + Pending(c))',
           (~xpOverlaps /\ ~xpFailed)' =>
             /\ AwardingXP \subseteq {c} /\ ~xpOverlaps /\ ~xpFailed
             /\ c \in AwardingXP' =>
                  /\ (xpCall[c].row.total + Pending(c))' = Net'
                  /\ (TotalXP + Pending(c))' = Net'
             /\ c \notin AwardingXP' => TotalXP' = Net'
    PROVE  XPInv'
<1>1. \A d \in XPCaller \ {c} : d \in AwardingXP' <=> d \in AwardingXP
  BY DEF AwardingXP
<1>2. ASSUME NEW d \in AwardingXP' PROVE Within(xpCall[d].row.total + Pending(d))'
  <2>1. CASE d = c BY <2>1, <1>2
  <2>2. CASE d # c
    <3>1. d \in XPCaller /\ d \in AwardingXP BY <1>1, <1>2, <2>2 DEF AwardingXP
    <3>2. xpCall'[d] = xpCall[d] BY <2>2, <3>1
    <3>3. xpCall[d].row.total \in Int /\ Pending(d) \in Int BY <3>1, XPTypes DEF XPInv
    <3>4. Within(xpCall[d].row.total + Pending(d)) BY <3>1 DEF XPInv
    <3>5. Pending(d)' = Pending(d) BY <3>2 DEF Pending
    <3>6. granted \in Nat /\ fined \in Nat /\ granted' \in Nat /\ fined' \in Nat BY DEF XPInv, RewardsTypeOK
    <3> QED BY <3>2, <3>3, <3>4, <3>5, <3>6 DEF Within, Net
  <2> QED BY <2>1, <2>2
<1>3. ASSUME (~xpOverlaps /\ ~xpFailed)'
      PROVE  /\ \A d \in AwardingXP' : LoneCall(d)'
             /\ AwardingXP' = {} => TotalXP' = Net'
  <2>1. AwardingXP' \subseteq {c} BY <1>1, <1>3 DEF AwardingXP
  <2> QED BY <1>3, <2>1 DEF LoneCall
<1> QED BY <1>2, <1>3 DEF XPInv

LEMMA XPFindKeeps == ASSUME XPInv, NEW c \in XPCaller, FindRewards(c) PROVE XPInv'
<1>1. PICK a \in Award :
        xpCall' = [xpCall EXCEPT ![c] =
          IF rewardsRow = NoRewards
          THEN [pc |-> "creating", row |-> NewRewards, award |-> a]
          ELSE [pc |-> "logging", row |-> rewardsRow, award |-> a]]
  BY DEF FindRewards
<1>2. /\ xpCall[c] = NoXPCall /\ xpOverlaps' = (xpOverlaps \/ AwardingXP # {})
      /\ UNCHANGED <<rewardsRow, granted, fined, xpFailed>>
  BY DEF FindRewards
<1>3. /\ xpCall \in [XPCaller -> XPCall \cup {NoXPCall}] /\ granted \in Nat /\ fined \in Nat
      /\ rewardsRow \in RewardsRow \cup {NoRewards}
  BY DEF XPInv, RewardsTypeOK
<1>4. /\ xpCall'[c] \in XPCall /\ xpCall'[c].pc \in {"creating", "logging"}
      /\ xpCall'[c].row.total = TotalXP
      /\ \A d \in XPCaller \ {c} : xpCall'[d] = xpCall[d]
  BY <1>1, <1>3, NewRewardsType DEF XPCall, TotalXP
<1>5. RewardsTypeOK'
  <2>1. xpCall' \in [XPCaller -> XPCall \cup {NoXPCall}] BY <1>1, <1>3, <1>4
  <2> QED BY <2>1, <1>2 DEF XPInv, RewardsTypeOK
<1>6. Pending(c)' = 0 BY <1>4 DEF Pending
<1>7. TotalXP' = TotalXP /\ TotalXP \in Int BY <1>2, TotalType DEF TotalXP, XPInv
<1>8. c \notin AwardingXP BY <1>2 DEF AwardingXP
<1>9. c \in AwardingXP' BY <1>4 DEF AwardingXP, XPCall, NoXPCall
<1>10. (~xpOverlaps /\ ~xpFailed)' => /\ AwardingXP = {} /\ ~xpOverlaps /\ ~xpFailed
                                      /\ TotalXP = Net
  BY <1>2 DEF XPInv
<1>11. Within(TotalXP) /\ Within(TotalXP)' /\ granted <= granted' /\ fined <= fined'
  BY <1>2, <1>3, <1>7 DEF XPInv, Within, Net
<1>12. (xpCall[c].row.total + Pending(c))' = TotalXP /\ (TotalXP + Pending(c))' = TotalXP
  BY <1>4, <1>6, <1>7
<1>13. Within(xpCall[c].row.total + Pending(c))' BY <1>11, <1>12, <1>7
<1>14. (~xpOverlaps /\ ~xpFailed)' =>
         /\ AwardingXP \subseteq {c} /\ ~xpOverlaps /\ ~xpFailed
         /\ (xpCall[c].row.total + Pending(c))' = Net'
         /\ (TotalXP + Pending(c))' = Net'
  BY <1>2, <1>10, <1>12 DEF Within, Net
<1> QED BY <1>4, <1>5, <1>9, <1>11, <1>13, <1>14, XPMoves

(* A call ends, and what it has logged is in the row, or it has failed.    *)
LEMMA XPEnds ==
    ASSUME XPInv, NEW c \in XPCaller,
           xpCall' = [xpCall EXCEPT ![c] = NoXPCall],
           rewardsRow' \in RewardsRow \cup {NoRewards},
           UNCHANGED <<granted, fined, xpOverlaps>>, xpFailed' \in BOOLEAN,
           xpFailed => xpFailed', Within(TotalXP)',
           (~xpOverlaps /\ ~xpFailed') => AwardingXP \subseteq {c} /\ TotalXP' = Net
    PROVE  XPInv'
<1>1. /\ xpCall \in [XPCaller -> XPCall \cup {NoXPCall}] /\ granted \in Nat /\ fined \in Nat
      /\ xpOverlaps \in BOOLEAN /\ xpFailed \in BOOLEAN
  BY DEF XPInv, RewardsTypeOK
<1>2. xpCall'[c] = NoXPCall /\ \A d \in XPCaller \ {c} : xpCall'[d] = xpCall[d]
  BY <1>1
<1>3. RewardsTypeOK' BY <1>1 DEF RewardsTypeOK
<1>4. c \notin AwardingXP' BY <1>2 DEF AwardingXP
<1>5. granted <= granted' /\ fined <= fined' /\ Within(TotalXP)' BY <1>1
<1>6. (~xpOverlaps /\ ~xpFailed)' =>
        /\ AwardingXP \subseteq {c} /\ ~xpOverlaps /\ ~xpFailed /\ TotalXP' = Net'
  BY <1>1 DEF Within, Net
<1> QED BY <1>2, <1>3, <1>4, <1>5, <1>6, XPMoves

LEMMA XPCreateKeeps == ASSUME XPInv, NEW c \in XPCaller, CreateRewards(c) PROVE XPInv'
<1>1. /\ c \in AwardingXP /\ xpCall[c].pc = "creating"
      /\ UNCHANGED <<granted, fined, xpOverlaps, xpFailed>>
  BY DEF CreateRewards, AwardingXP
<1>2. /\ xpCall[c] \in XPCall /\ xpCall[c].row.total \in Int /\ Pending(c) = 0
      /\ xpCall \in [XPCaller -> XPCall \cup {NoXPCall}] /\ granted \in Nat /\ fined \in Nat
      /\ rewardsRow \in RewardsRow \cup {NoRewards}
  BY <1>1, XPTypes DEF XPInv, RewardsTypeOK, Pending
<1>3. TotalXP \in Int /\ Within(TotalXP) /\ Within(xpCall[c].row.total)
  BY <1>1, <1>2, TotalType DEF XPInv
<1>4. (~xpOverlaps /\ ~xpFailed) =>
        AwardingXP \subseteq {c} /\ xpCall[c].row.total = Net /\ TotalXP = Net
  BY <1>1, <1>2, <1>3 DEF XPInv, LoneCall
<1>5. CASE rewardsRow = NoRewards
  <2>1. /\ rewardsRow' = NewRewards
        /\ xpCall' = [xpCall EXCEPT ![c].pc = "logging"]
    BY <1>5 DEF CreateRewards
  <2>2. /\ xpCall'[c] = [xpCall[c] EXCEPT !.pc = "logging"]
        /\ \A d \in XPCaller \ {c} : xpCall'[d] = xpCall[d]
    BY <1>2, <2>1
  <2>3. xpCall'[c] \in XPCall /\ xpCall'[c].pc = "logging"
        /\ xpCall'[c].row = xpCall[c].row
    BY <1>2, <2>2 DEF XPCall
  <2>4. TotalXP = 0 BY <1>5 DEF TotalXP
  <2>5. TotalXP' \in {0} BY <2>1, NewRewardsType DEF TotalXP
  <2>6. RewardsTypeOK'
    <3>1. xpCall' \in [XPCaller -> XPCall \cup {NoXPCall}] BY <1>2, <2>1, <2>3
    <3> QED BY <3>1, <1>1, <2>1, NewRewardsType DEF XPInv, RewardsTypeOK
  <2>7. Pending(c)' = 0 BY <2>3 DEF Pending
  <2>8. c \in AwardingXP' BY <2>3 DEF AwardingXP, XPCall, NoXPCall
  <2>9. (xpCall[c].row.total + Pending(c))' = xpCall[c].row.total
        /\ (TotalXP + Pending(c))' = TotalXP
    BY <1>2, <2>3, <2>4, <2>5, <2>7
  <2>10. Within(xpCall[c].row.total + Pending(c))' BY <1>1, <1>3, <2>9 DEF Within, Net
  <2>11. granted <= granted' /\ fined <= fined' /\ Within(TotalXP)' BY <1>1, <1>2, <2>5 DEF Within, Net
  <2>12. (~xpOverlaps /\ ~xpFailed)' =>
           /\ AwardingXP \subseteq {c} /\ ~xpOverlaps /\ ~xpFailed
           /\ (xpCall[c].row.total + Pending(c))' = Net'
           /\ (TotalXP + Pending(c))' = Net'
    BY <1>1, <1>4, <2>9 DEF Within, Net
  <2> QED BY <2>2, <2>6, <2>8, <2>10, <2>11, <2>12, XPMoves
<1>6. CASE rewardsRow # NoRewards
  <2>1. xpCall' = [xpCall EXCEPT ![c] = NoXPCall] /\ UNCHANGED rewardsRow
    BY <1>6 DEF CreateRewards
  <2>2. TotalXP' = TotalXP BY <2>1 DEF TotalXP
  <2>3. xpFailed \in BOOLEAN /\ xpFailed' = xpFailed /\ UNCHANGED <<granted, fined, xpOverlaps>>
    BY <1>1 DEF XPInv, RewardsTypeOK
  <2>4. xpFailed' \in BOOLEAN /\ (xpFailed => xpFailed') BY <2>3
  <2>5. rewardsRow' \in RewardsRow \cup {NoRewards} BY <1>2, <2>1
  <2>6. (~xpOverlaps /\ ~xpFailed') => AwardingXP \subseteq {c} /\ TotalXP' = Net
    BY <1>4, <2>2, <2>3
  <2>7. Within(TotalXP)' BY <1>1, <1>3, <2>2 DEF Within
  <2> QED BY <2>1, <2>3, <2>4, <2>5, <2>6, <2>7, XPEnds
<1> QED BY <1>5, <1>6

LEMMA XPLogKeeps == ASSUME XPInv, NEW c \in XPCaller, LogXP(c) PROVE XPInv'
<1>1. /\ c \in AwardingXP /\ xpCall[c].pc = "logging"
      /\ granted' = IF xpCall[c].award.amount > 0 THEN granted + xpCall[c].award.amount
                    ELSE granted
      /\ fined' = IF xpCall[c].award.amount < 0 THEN fined - xpCall[c].award.amount
                  ELSE fined
      /\ xpCall' = [xpCall EXCEPT ![c].pc = "saving"]
      /\ UNCHANGED <<rewardsRow, xpOverlaps, xpFailed>>
  BY DEF LogXP, AwardingXP
<1>2. /\ xpCall[c] \in XPCall /\ xpCall[c].row.total \in Int /\ Pending(c) = 0
      /\ xpCall[c].award.amount \in Int
      /\ xpCall \in [XPCaller -> XPCall \cup {NoXPCall}] /\ granted \in Nat /\ fined \in Nat
  BY <1>1, XPTypes DEF XPInv, RewardsTypeOK, Pending
<1>3. TotalXP \in Int /\ Within(TotalXP) /\ Within(xpCall[c].row.total)
  BY <1>1, <1>2, TotalType DEF XPInv
<1>4. (~xpOverlaps /\ ~xpFailed) =>
        AwardingXP \subseteq {c} /\ xpCall[c].row.total = Net /\ TotalXP = Net
  BY <1>1, <1>2, <1>3 DEF XPInv, LoneCall
<1>5. /\ xpCall'[c] = [xpCall[c] EXCEPT !.pc = "saving"]
      /\ \A d \in XPCaller \ {c} : xpCall'[d] = xpCall[d]
  BY <1>1, <1>2
<1>6. /\ xpCall'[c] \in XPCall /\ xpCall'[c].pc = "saving"
      /\ xpCall'[c].row = xpCall[c].row /\ xpCall'[c].award = xpCall[c].award
  BY <1>2, <1>5 DEF XPCall
<1>7. RewardsTypeOK'
  <2>1. xpCall' \in [XPCaller -> XPCall \cup {NoXPCall}] BY <1>1, <1>2, <1>6
  <2> QED BY <2>1, <1>1, <1>2 DEF XPInv, RewardsTypeOK
<1>8. Pending(c)' = xpCall[c].award.amount BY <1>6 DEF Pending
<1>9. c \in AwardingXP' BY <1>6 DEF AwardingXP, XPCall, NoXPCall
<1>10. TotalXP' = TotalXP BY <1>1 DEF TotalXP
<1>11. /\ (xpCall[c].row.total + Pending(c))' = xpCall[c].row.total + xpCall[c].award.amount
       /\ (TotalXP + Pending(c))' = TotalXP + xpCall[c].award.amount
  BY <1>6, <1>8, <1>10
<1>12. Within(xpCall[c].row.total + Pending(c))' BY <1>1, <1>2, <1>3, <1>11 DEF Within, Net
<1>13. granted <= granted' /\ fined <= fined' /\ Within(TotalXP)' BY <1>1, <1>2, <1>3, <1>10 DEF Within, Net
<1>14. (~xpOverlaps /\ ~xpFailed)' =>
         /\ AwardingXP \subseteq {c} /\ ~xpOverlaps /\ ~xpFailed
         /\ (xpCall[c].row.total + Pending(c))' = Net'
         /\ (TotalXP + Pending(c))' = Net'
  BY <1>1, <1>2, <1>3, <1>4, <1>11 DEF Net
<1> QED BY <1>5, <1>7, <1>9, <1>12, <1>13, <1>14, XPMoves

LEMMA XPSaveKeeps == ASSUME XPInv, NEW c \in XPCaller, SaveRewards(c) PROVE XPInv'
<1>1. /\ c \in AwardingXP /\ xpCall[c].pc = "saving"
      /\ rewardsRow' = Credited(xpCall[c].row, xpCall[c].award)
      /\ xpCall' = [xpCall EXCEPT ![c] = NoXPCall]
      /\ UNCHANGED <<granted, fined, xpOverlaps, xpFailed>>
  BY DEF SaveRewards, AwardingXP
<1>2. /\ xpCall[c].row \in RewardsRow /\ xpCall[c].award \in Award
      /\ Pending(c) = xpCall[c].award.amount
      /\ NoRewards \notin RewardsRow
  BY <1>1, XPTypes, RewardsAssumption DEF XPInv, Pending
<1>3. rewardsRow' \in RewardsRow /\ rewardsRow'.total = xpCall[c].row.total + Pending(c)
  BY <1>1, <1>2, CreditedType
<1>4. TotalXP' = xpCall[c].row.total + Pending(c) BY <1>2, <1>3 DEF TotalXP
<1>5. Within(TotalXP)' BY <1>1, <1>4 DEF XPInv, Within, Net
<1>6. (~xpOverlaps /\ ~xpFailed) => AwardingXP \subseteq {c} /\ TotalXP' = Net
  BY <1>1, <1>4 DEF XPInv, LoneCall
<1>7. xpFailed' \in BOOLEAN BY <1>1 DEF XPInv, RewardsTypeOK
<1> QED BY <1>1, <1>3, <1>5, <1>6, <1>7, XPEnds

LEMMA XPFailKeeps == ASSUME XPInv, NEW c \in XPCaller, FailXP(c) PROVE XPInv'
<1>1. /\ c \in AwardingXP /\ xpCall' = [xpCall EXCEPT ![c] = NoXPCall]
      /\ xpFailed' = (xpFailed \/ xpCall[c].pc = "saving")
      /\ UNCHANGED <<rewardsRow, granted, fined, xpOverlaps>>
  BY DEF FailXP, AwardingXP
<1>2. TotalXP' = TotalXP /\ TotalXP \in Int BY <1>1, TotalType DEF TotalXP, XPInv
<1>3. xpFailed \in BOOLEAN /\ granted \in Nat /\ fined \in Nat /\ Within(TotalXP)
  BY DEF XPInv, RewardsTypeOK
<1>4. ~xpFailed' => ~xpFailed /\ xpCall[c].pc # "saving" BY <1>1
<1>5. xpCall[c].pc # "saving" => Pending(c) = 0 BY DEF Pending
<1>6. (~xpOverlaps /\ ~xpFailed) => AwardingXP \subseteq {c} /\ TotalXP + Pending(c) = Net
  BY <1>1 DEF XPInv, LoneCall
<1>7. (~xpOverlaps /\ ~xpFailed') => AwardingXP \subseteq {c} /\ TotalXP' = Net
  BY <1>2, <1>4, <1>5, <1>6
<1>8. rewardsRow' \in RewardsRow \cup {NoRewards} BY <1>1 DEF XPInv, RewardsTypeOK
<1>9. xpFailed' \in BOOLEAN /\ (xpFailed => xpFailed') /\ Within(TotalXP)'
  BY <1>1, <1>2, <1>3 DEF Within, Net
<1> QED BY <1>1, <1>7, <1>8, <1>9, XPEnds

LEMMA XPStepInv == XPInv /\ [RewardsNext]_rewardsVars => XPInv'
<1> SUFFICES ASSUME XPInv, [RewardsNext]_rewardsVars PROVE XPInv' OBVIOUS
<1>1. CASE RewardsNext
  BY <1>1, XPFindKeeps, XPCreateKeeps, XPLogKeeps, XPSaveKeeps, XPFailKeeps
  DEF RewardsNext, XPStep
<1>2. CASE UNCHANGED rewardsVars
  BY <1>2 DEF rewardsVars, XPInv, RewardsTypeOK, AwardingXP, TotalXP, Pending, LoneCall, Within, Net
<1> QED BY <1>1, <1>2

(* What a lone call has read, and has to add, makes up what is logged.     *)
THEOREM XPInductive == RewardsSpec => []XPInv
BY XPInitInv, XPStepInv, PTL DEF RewardsSpec

(* A user's experience never exceeds what was granted, nor falls below     *)
(* what was fined, and is the difference when no award overlapped another  *)
(* or failed half-way.                                                     *)
THEOREM XPAlwaysLogged == RewardsSpec => []XPIsLogged
<1>1. XPInv => XPIsLogged BY DEF XPInv, XPIsLogged, Within, Net
<1> QED BY <1>1, XPInductive, PTL
-----------------------------------------------------------------------------
(* Loyalty: the credit of a client and the conversions recorded.           *)
Recorded(c) == member[c].pc \in {"deducting", "charging", "spending", "crediting"}

HoldsRow(c) ==
    member[c].pc \in {"completing", "following", "converting", "earning", "deducting",
                      "spending"}

(* What every call has read, however the others moved.                     *)
CallFits(c) ==
    /\ Recorded(c) => member[c].limit + member[c].points <= converted
    /\ member[c].pc = "converting" => member[c].limit <= converted
    /\ member[c].pc \notin {"idle", "enrolling"} => profile \in Profile
    /\ HoldsRow(c) => member[c].row \in Profile

(* What a call that met no other has read.                                 *)
LoneMember(c) ==
    /\ Recorded(c) => member[c].limit + member[c].points = converted
    /\ member[c].pc = "converting" => member[c].limit = converted
    /\ ~Recorded(c) => credit = converted

CreditInv ==
    /\ LoyaltyTypeOK
    /\ credit <= converted
    /\ \A c \in LoyaltyCaller : CallFits(c)
    /\ (~loyaltyOverlaps /\ ~conversionFailed) =>
         /\ Calling = {} => credit = converted
         /\ \A c \in Calling : Calling \subseteq {c} /\ LoneMember(c)

LEMMA AppendedType == ASSUME NEW t \in Int, NEW n PROVE Appended(t, n) \in Int
BY DEF Appended

LEMMA LoyaltyRows ==
    ASSUME NEW row \in Profile, NEW n \in Nat
    PROVE  /\ Earned(row, n) \in Profile /\ Deducted(row, n) \in Profile
           /\ Spent(row, n) \in Profile /\ row.points - 100 * n \in Int
           /\ [row EXCEPT !.complete = TRUE] \in Profile
           /\ [row EXCEPT !.followedUp = TRUE] \in Profile
<1>1. /\ row.points \in Int /\ row.earned \in Int /\ row.spent \in Int
      /\ Appended(row.points, n) \in Int /\ Appended(row.earned, n) \in Int
      /\ Appended(row.spent, n) \in Int
  BY AppendedType DEF Profile
<1>2. row.points - 100 * n \in Int BY <1>1
<1>3. Earned(row, n) \in Profile BY <1>1 DEF Earned, Profile
<1>4. Deducted(row, n) \in Profile BY <1>2 DEF Deducted, Profile
<1>5. Deducted(row, n).spent = row.spent BY DEF Deducted, Profile
<1>6. Spent(row, n) \in Profile BY <1>1, <1>4, <1>5 DEF Spent, Profile
<1> QED BY <1>2, <1>3, <1>4, <1>6 DEF Profile

LEMMA CreditInitInv == LoyaltyInit => CreditInv
<1> SUFFICES ASSUME LoyaltyInit PROVE CreditInv OBVIOUS
<1>1. \A c \in LoyaltyCaller : member[c] = NoMemberCall /\ member[c].pc = "idle"
  BY DEF LoyaltyInit, NoMemberCall
<1>2. NoMemberCall \in MemberCall BY DEF NoMemberCall, MemberCall, LoyaltyPC
<1>3. LoyaltyTypeOK BY <1>2 DEF LoyaltyInit, LoyaltyTypeOK
<1>4. Calling = {} BY <1>1 DEF Calling
<1>5. \A c \in LoyaltyCaller : CallFits(c) BY <1>1 DEF CallFits, Recorded, HoldsRow
<1> QED BY <1>3, <1>4, <1>5 DEF CreditInv, LoyaltyInit

(* One call moves: the others keep what they hold, as long as the          *)
(* conversions only grow and the profile stays.                            *)
LEMMA MemberMoves ==
    ASSUME CreditInv, LoyaltyTypeOK', NEW c \in LoyaltyCaller,
           \A d \in LoyaltyCaller \ {c} : member'[d] = member[d],
           converted <= converted', credit' <= converted',
           profile \in Profile => profile' \in Profile,
           CallFits(c)',
           (~loyaltyOverlaps /\ ~conversionFailed)' =>
             /\ Calling \subseteq {c} /\ ~loyaltyOverlaps /\ ~conversionFailed
             /\ LoneMember(c)'
    PROVE  CreditInv'
<1>1. ASSUME NEW d \in LoyaltyCaller PROVE CallFits(d)'
  <2>1. CASE d = c BY <2>1
  <2>2. CASE d # c
    <3>1. member'[d] = member[d] /\ CallFits(d) BY <2>2 DEF CreditInv
    <3>2. /\ member[d].limit \in Nat /\ member[d].points \in Nat
          /\ converted \in Nat /\ converted' \in Nat
      BY DEF CreditInv, LoyaltyTypeOK, MemberCall
    <3> QED BY <3>1, <3>2 DEF CallFits, Recorded, HoldsRow
  <2> QED BY <2>1, <2>2
<1>2. ASSUME (~loyaltyOverlaps /\ ~conversionFailed)'
      PROVE  /\ Calling' = {} => credit' = converted'
             /\ \A d \in Calling' : Calling' \subseteq {d} /\ LoneMember(d)'
  <2>1. Calling' \subseteq {c} BY <1>2 DEF Calling
  <2>2. Calling' = {} => ~Recorded(c)' BY DEF Calling, Recorded
  <2> QED BY <1>2, <2>1, <2>2 DEF LoneMember
<1> QED BY <1>1, <1>2 DEF CreditInv

(* A call that begins has read the limit, if it converts.                  *)
LEMMA AskKeeps ==
    ASSUME CreditInv, NEW c \in LoyaltyCaller, NEW n \in Nat,
           NEW p \in {"enrolling", "awarding", "completing", "following", "claiming",
                      "converting"},
           p # "enrolling" => profile # NoProfile, Ask(c, p, n)
    PROVE  CreditInv'
<1> DEFINE new == [pc     |-> p,
                   row    |-> IF p \in {"completing", "following", "converting"}
                              THEN profile ELSE NoProfile,
                   limit  |-> IF p = "converting" THEN credit ELSE 0,
                   points |-> n,
                   noted  |-> 0]
<1>1. /\ member[c].pc = "idle" /\ member' = [member EXCEPT ![c] = new]
      /\ loyaltyOverlaps' = (loyaltyOverlaps \/ Calling # {})
      /\ UNCHANGED <<profile, credit, converted, vouchers, conversionFailed>>
  BY DEF Ask
<1>2. /\ member \in [LoyaltyCaller -> MemberCall] /\ credit \in Nat /\ converted \in Nat
      /\ credit <= converted /\ profile \in Profile \cup {NoProfile}
  BY DEF CreditInv, LoyaltyTypeOK
<1>3. new \in MemberCall BY <1>2 DEF MemberCall, LoyaltyPC
<1>4. member'[c] = new /\ \A d \in LoyaltyCaller \ {c} : member'[d] = member[d]
  BY <1>1, <1>2
<1>5. LoyaltyTypeOK'
  <2>1. member' \in [LoyaltyCaller -> MemberCall] BY <1>1, <1>2, <1>3
  <2> QED BY <2>1, <1>1 DEF CreditInv, LoyaltyTypeOK
<1>6. ~Recorded(c)' BY <1>4 DEF Recorded
<1>7. CallFits(c)' BY <1>1, <1>2, <1>4, <1>6 DEF CallFits, HoldsRow
<1>8. (~loyaltyOverlaps /\ ~conversionFailed)' =>
        /\ Calling = {} /\ ~loyaltyOverlaps /\ ~conversionFailed /\ credit' = converted'
  BY <1>1 DEF CreditInv
<1>9. (~loyaltyOverlaps /\ ~conversionFailed)' => LoneMember(c)'
  BY <1>1, <1>4, <1>6, <1>8 DEF LoneMember
<1>10. converted <= converted' /\ credit' <= converted' BY <1>1, <1>2
<1> QED BY <1>1, <1>4, <1>5, <1>7, <1>8, <1>9, <1>10, MemberMoves

(* A call moves on and leaves the credit and the conversions as they are.  *)
LEMMA MemberGoesOn ==
    ASSUME CreditInv, NEW c \in Calling, NEW m \in MemberCall,
           member' = [member EXCEPT ![c] = m],
           UNCHANGED <<credit, converted, loyaltyOverlaps, conversionFailed>>,
           vouchers' \in Nat, profile' \in Profile,
           m.pc \in {"deducting", "charging", "spending", "crediting"} <=> Recorded(c),
           m.limit = member[c].limit, m.points = member[c].points,
           m.pc # "converting",
           m.pc \in {"completing", "following", "earning", "deducting", "spending"}
             => m.row \in Profile
    PROVE  CreditInv'
<1>1. /\ member \in [LoyaltyCaller -> MemberCall] /\ credit \in Nat /\ converted \in Nat
      /\ credit <= converted /\ c \in LoyaltyCaller
  BY DEF CreditInv, LoyaltyTypeOK, Calling
<1>2. member'[c] = m /\ \A d \in LoyaltyCaller \ {c} : member'[d] = member[d]
  BY <1>1
<1>3. LoyaltyTypeOK'
  <2>1. member' \in [LoyaltyCaller -> MemberCall] BY <1>1
  <2> QED BY <2>1 DEF CreditInv, LoyaltyTypeOK
<1>4. Recorded(c)' <=> Recorded(c) BY <1>2 DEF Recorded
<1>5. CallFits(c)
  BY <1>1 DEF CreditInv
<1>6. CallFits(c)' BY <1>2, <1>4, <1>5 DEF CallFits, HoldsRow
<1>7. (~loyaltyOverlaps /\ ~conversionFailed)' =>
        Calling \subseteq {c} /\ ~loyaltyOverlaps /\ ~conversionFailed /\ LoneMember(c)
  BY DEF CreditInv
<1>8. (~loyaltyOverlaps /\ ~conversionFailed)' => LoneMember(c)'
  BY <1>2, <1>4, <1>7 DEF LoneMember
<1>9. converted <= converted' /\ credit' <= converted' BY <1>1
<1> QED BY <1>1, <1>2, <1>3, <1>6, <1>7, <1>8, <1>9, MemberMoves

(* A call ends without touching the profile, the credit or a conversion.   *)
LEMMA MemberAnswers ==
    ASSUME CreditInv, NEW c \in Calling, Answer(c),
           profile' \in Profile \cup {NoProfile},
           profile \in Profile => profile' \in Profile,
           credit' \in Nat, credit' <= converted,
           UNCHANGED <<converted, loyaltyOverlaps>>, vouchers' \in Nat,
           conversionFailed' \in BOOLEAN, conversionFailed => conversionFailed',
           (~loyaltyOverlaps /\ ~conversionFailed') => credit' = converted
    PROVE  CreditInv'
<1>1. /\ member \in [LoyaltyCaller -> MemberCall] /\ converted \in Nat
      /\ c \in LoyaltyCaller /\ loyaltyOverlaps \in BOOLEAN /\ conversionFailed \in BOOLEAN
  BY DEF CreditInv, LoyaltyTypeOK, Calling
<1>2. /\ NoMemberCall \in MemberCall /\ NoMemberCall.pc = "idle"
      /\ member' = [member EXCEPT ![c] = NoMemberCall]
  BY DEF NoMemberCall, MemberCall, LoyaltyPC, Answer
<1>3. member'[c] = NoMemberCall /\ \A d \in LoyaltyCaller \ {c} : member'[d] = member[d]
  BY <1>1, <1>2
<1>4. LoyaltyTypeOK'
  <2>1. member' \in [LoyaltyCaller -> MemberCall] BY <1>1, <1>2
  <2> QED BY <2>1, <1>1 DEF LoyaltyTypeOK
<1>5. ~Recorded(c)' /\ CallFits(c)' BY <1>2, <1>3 DEF CallFits, HoldsRow, Recorded
<1>6. (~loyaltyOverlaps /\ ~conversionFailed)' =>
        Calling \subseteq {c} /\ ~loyaltyOverlaps /\ ~conversionFailed
  BY <1>1 DEF CreditInv
<1>7. (~loyaltyOverlaps /\ ~conversionFailed)' => LoneMember(c)'
  BY <1>2, <1>3, <1>5 DEF LoneMember
<1>8. converted <= converted' /\ credit' <= converted' BY <1>1
<1> QED BY <1>1, <1>3, <1>4, <1>5, <1>6, <1>7, <1>8, MemberMoves

LEMMA MemberTypes ==
    ASSUME CreditInv, NEW c \in Calling
    PROVE  /\ c \in LoyaltyCaller /\ member[c] \in MemberCall
           /\ member[c].pc \in LoyaltyPC /\ member[c].limit \in Nat
           /\ member[c].points \in Nat /\ member[c].noted \in Int
           /\ member[c].row \in Profile \cup {NoProfile}
           /\ member \in [LoyaltyCaller -> MemberCall]
           /\ credit \in Nat /\ converted \in Nat /\ vouchers \in Nat
           /\ loyaltyOverlaps \in BOOLEAN /\ conversionFailed \in BOOLEAN
           /\ profile \in Profile \cup {NoProfile} /\ credit <= converted
           /\ CallFits(c)
<1>1. c \in LoyaltyCaller BY DEF Calling
<1>2. member[c] \in MemberCall BY <1>1 DEF CreditInv, LoyaltyTypeOK
<1> QED BY <1>1, <1>2 DEF CreditInv, LoyaltyTypeOK, MemberCall

LEMMA NewProfileType == NewProfile \in Profile
BY LoyaltyAssumption DEF NewProfile, Profile

(* A call that has not recorded a conversion leaves credit = converted.    *)
LEMMA UnrecordedCredit ==
    ASSUME CreditInv, NEW c \in Calling, ~Recorded(c),
           ~loyaltyOverlaps, ~conversionFailed
    PROVE  credit = converted
BY DEF CreditInv, LoneMember

LEMMA LoyaltyBeginKeeps ==
    ASSUME CreditInv, NEW c \in LoyaltyCaller, LoyaltyBegin(c) PROVE CreditInv'
<1>1. CASE Enroll(c)
  <2>1. Welcome \in Nat BY LoyaltyAssumption
  <2> QED BY <1>1, <2>1, AskKeeps DEF Enroll
<1>2. CASE AwardPoints(c)
  <2>1. PICK n \in Points : Ask(c, "awarding", n) BY <1>2 DEF AwardPoints
  <2>2. n \in Nat BY LoyaltyAssumption
  <2>3. profile # NoProfile BY <1>2 DEF AwardPoints
  <2> QED BY <2>1, <2>2, <2>3, AskKeeps
<1>3. CASE CompleteProfile(c)
  <2>1. Completion \in Nat BY LoyaltyAssumption
  <2> QED BY <1>3, <2>1, AskKeeps DEF CompleteProfile
<1>4. CASE FollowUp(c) BY <1>4, AskKeeps DEF FollowUp
<1>5. CASE ClaimReward(c)
  <2>1. Cost \in Nat BY LoyaltyAssumption
  <2> QED BY <1>5, <2>1, AskKeeps DEF ClaimReward
<1>6. CASE Convert(c)
  <2>1. PICK n \in Points : Ask(c, "converting", n) BY <1>6 DEF Convert
  <2>2. n \in Nat BY LoyaltyAssumption
  <2>3. profile # NoProfile BY <1>6 DEF Convert
  <2> QED BY <2>1, <2>2, <2>3, AskKeeps
<1> QED BY <1>1, <1>2, <1>3, <1>4, <1>5, <1>6 DEF LoyaltyBegin

LEMMA InsertProfileKeeps ==
    ASSUME CreditInv, NEW c \in LoyaltyCaller, InsertProfile(c) PROVE CreditInv'
<1>1. /\ c \in Calling /\ ~Recorded(c)
      /\ UNCHANGED <<credit, converted, vouchers, loyaltyOverlaps, conversionFailed>>
  BY DEF InsertProfile, Calling, Recorded
<1>2. CASE profile = NoProfile
  <2> DEFINE m == [member[c] EXCEPT !.pc = "awarding", !.row = NoProfile]
  <2>1. profile' = NewProfile /\ Goto(c, "awarding") BY <1>2 DEF InsertProfile
  <2>2. m \in MemberCall /\ m.pc = "awarding" /\ m.limit = member[c].limit
        /\ m.points = member[c].points
    BY <1>1, MemberTypes DEF MemberCall, LoyaltyPC
  <2>3. member' = [member EXCEPT ![c] = m] BY <1>1, <2>1, MemberTypes DEF Goto
  <2>4. vouchers' \in Nat BY <1>1, MemberTypes
  <2> HIDE DEF m
  <2> QED BY <1>1, <2>1, <2>2, <2>3, <2>4, NewProfileType, MemberGoesOn
<1>3. CASE profile # NoProfile
  <2>1. Answer(c) /\ profile' = profile BY <1>3 DEF InsertProfile
  <2> QED BY <1>1, <2>1, MemberTypes, UnrecordedCredit, MemberAnswers
<1> QED BY <1>2, <1>3

LEMMA FindAgainKeeps ==
    ASSUME CreditInv, NEW c \in LoyaltyCaller,
           NEW from, NEW to, from \in {"awarding", "charging"},
           to = IF from = "awarding" THEN "earning" ELSE "spending",
           FindAgain(c, from, to)
    PROVE  CreditInv'
<1> DEFINE m == [member[c] EXCEPT !.pc = to, !.row = profile]
<1>1. /\ c \in Calling /\ member[c].pc = from
      /\ UNCHANGED <<profile, credit, converted, vouchers, loyaltyOverlaps, conversionFailed>>
  BY DEF FindAgain, Calling
<1>2. profile \in Profile BY <1>1, MemberTypes DEF CallFits
<1>3. m \in MemberCall /\ m.pc = to /\ m.limit = member[c].limit
      /\ m.points = member[c].points /\ m.row \in Profile
  BY <1>1, <1>2, MemberTypes DEF MemberCall, LoyaltyPC
<1>4. member' = [member EXCEPT ![c] = m] BY <1>1, MemberTypes DEF FindAgain
<1>5. vouchers' \in Nat BY <1>1, MemberTypes
<1>6. m.pc \in {"deducting", "charging", "spending", "crediting"} <=> Recorded(c)
  BY <1>1, <1>3 DEF Recorded
<1> HIDE DEF m
<1> QED BY <1>1, <1>2, <1>3, <1>4, <1>5, <1>6, MemberGoesOn

(* SaveCompleted, DeductPoints and SaveSpent: a row is saved, and the call *)
(* goes on without it.                                                     *)
LEMMA RowSavedKeeps ==
    ASSUME CreditInv, NEW c \in Calling, NEW to, Goto(c, to), profile' \in Profile,
           to \in {"awarding", "charging", "crediting"},
           to = "awarding" <=> ~Recorded(c),
           UNCHANGED <<credit, converted, vouchers, loyaltyOverlaps, conversionFailed>>
    PROVE  CreditInv'
<1> DEFINE m == [member[c] EXCEPT !.pc = to, !.row = NoProfile]
<1>1. m \in MemberCall /\ m.pc = to /\ m.limit = member[c].limit
      /\ m.points = member[c].points
  BY MemberTypes DEF MemberCall, LoyaltyPC
<1>2. member' = [member EXCEPT ![c] = m] BY MemberTypes DEF Goto
<1>3. vouchers' \in Nat BY MemberTypes
<1>4. m.pc \in {"deducting", "charging", "spending", "crediting"} <=> Recorded(c)
  BY <1>1
<1> HIDE DEF m
<1> QED BY <1>1, <1>2, <1>3, <1>4, MemberGoesOn

LEMMA RecordConversionKeeps ==
    ASSUME CreditInv, NEW c \in LoyaltyCaller, RecordConversion(c) PROVE CreditInv'
<1> DEFINE n == member[c].points
           m == [member[c] EXCEPT !.pc = "deducting",
                                  !.noted = member[c].row.points - 100 * n]
<1>1. /\ c \in Calling /\ member[c].pc = "converting" /\ converted' = converted + n
      /\ UNCHANGED <<profile, credit, vouchers, loyaltyOverlaps, conversionFailed>>
  BY DEF RecordConversion, Calling
<1>2. /\ member[c].row \in Profile /\ member[c].limit <= converted
      /\ profile \in Profile /\ n \in Nat /\ member[c].limit \in Nat /\ converted \in Nat
  BY <1>1, MemberTypes DEF CallFits, HoldsRow
<1>3. member[c].row.points - 100 * n \in Int BY <1>2, LoyaltyRows
<1>4. m \in MemberCall /\ m.pc = "deducting" /\ m.limit = member[c].limit
      /\ m.points = n /\ m.row = member[c].row
  BY <1>1, <1>3, MemberTypes DEF MemberCall, LoyaltyPC
<1>5. member' = [member EXCEPT ![c] = m] BY <1>1, MemberTypes DEF RecordConversion
<1>6. member \in [LoyaltyCaller -> MemberCall] BY <1>1, MemberTypes
<1> HIDE DEF m, n
<1>7. member'[c] = m /\ \A d \in LoyaltyCaller \ {c} : member'[d] = member[d]
  BY <1>5, <1>6
<1>8. LoyaltyTypeOK'
  <2>1. member' \in [LoyaltyCaller -> MemberCall] BY <1>4, <1>5, <1>6
  <2>2. converted' \in Nat BY <1>1, <1>2
  <2> QED BY <2>1, <2>2, <1>1 DEF CreditInv, LoyaltyTypeOK
<1>9. Recorded(c)' BY <1>4, <1>7 DEF Recorded
<1>10. (member[c].limit + member[c].points)' = member[c].limit + n
  BY <1>4, <1>7
<1>11. (member[c].limit + member[c].points)' <= converted' BY <1>1, <1>2, <1>10
<1>12. CallFits(c)' BY <1>1, <1>2, <1>4, <1>7, <1>11 DEF CallFits, HoldsRow
<1>13. (~loyaltyOverlaps /\ ~conversionFailed)' =>
         /\ Calling \subseteq {c} /\ ~loyaltyOverlaps /\ ~conversionFailed
         /\ member[c].limit = converted
  BY <1>1 DEF CreditInv, LoneMember
<1>14. (~loyaltyOverlaps /\ ~conversionFailed)' => LoneMember(c)'
  BY <1>1, <1>4, <1>7, <1>9, <1>10, <1>13 DEF LoneMember
<1>15. converted <= converted' /\ credit' <= converted'
  BY <1>1, <1>2, MemberTypes
<1> QED BY <1>1, <1>7, <1>8, <1>12, <1>13, <1>14, <1>15, MemberMoves

LEMMA SaveCreditKeeps ==
    ASSUME CreditInv, NEW c \in LoyaltyCaller, SaveCredit(c) PROVE CreditInv'
<1>1. /\ c \in Calling /\ Recorded(c) /\ Answer(c)
      /\ credit' = member[c].limit + member[c].points
      /\ UNCHANGED <<profile, converted, vouchers, loyaltyOverlaps, conversionFailed>>
  BY DEF SaveCredit, NewLimit, Calling, Recorded
<1>2. credit' \in Nat /\ credit' <= converted
  BY <1>1, MemberTypes DEF CallFits
<1>3. (~loyaltyOverlaps /\ ~conversionFailed') => credit' = converted
  BY <1>1 DEF CreditInv, LoneMember
<1> QED BY <1>1, <1>2, <1>3, MemberTypes, MemberAnswers

LEMMA FailMemberKeeps ==
    ASSUME CreditInv, NEW c \in LoyaltyCaller, FailMember(c) PROVE CreditInv'
<1>1. /\ c \in Calling /\ Answer(c)
      /\ conversionFailed' = (conversionFailed \/ Recorded(c))
      /\ UNCHANGED <<profile, credit, converted, vouchers, loyaltyOverlaps>>
  BY DEF FailMember, Calling, Recorded
<1>2. (~loyaltyOverlaps /\ ~conversionFailed') => credit' = converted
  BY <1>1, UnrecordedCredit
<1>3. conversionFailed' \in BOOLEAN /\ (conversionFailed => conversionFailed')
  BY <1>1, MemberTypes DEF Recorded
<1> QED BY <1>1, <1>2, <1>3, MemberTypes, MemberAnswers

(* The calls that end with a row saved, or with a claim.                   *)
LEMMA LastSaveKeeps ==
    ASSUME CreditInv, NEW c \in LoyaltyCaller,
           SaveEarned(c) \/ SaveFollowedUp(c) \/ SaveClaim(c)
    PROVE  CreditInv'
<1>1. /\ c \in Calling /\ ~Recorded(c) /\ Answer(c)
      /\ UNCHANGED <<credit, converted, loyaltyOverlaps, conversionFailed>>
  BY DEF SaveEarned, SaveFollowedUp, SaveClaim, Calling, Recorded
<1>2. vouchers' \in Nat
  BY <1>1, MemberTypes DEF SaveEarned, SaveFollowedUp, SaveClaim
<1>3. profile' \in Profile \cup {NoProfile} /\ (profile \in Profile => profile' \in Profile)
  <2>1. member[c].pc \in {"earning", "following"} => member[c].row \in Profile
    BY <1>1, MemberTypes DEF CallFits, HoldsRow
  <2>2. CASE SaveEarned(c)
    BY <1>1, <2>1, <2>2, MemberTypes, LoyaltyRows DEF SaveEarned
  <2>3. CASE SaveFollowedUp(c)
    BY <1>1, <2>1, <2>3, MemberTypes, LoyaltyRows DEF SaveFollowedUp
  <2>4. CASE SaveClaim(c) BY <1>1, <2>4, MemberTypes DEF SaveClaim
  <2> QED BY <2>2, <2>3, <2>4
<1>4. (~loyaltyOverlaps /\ ~conversionFailed') => credit' = converted
  BY <1>1, UnrecordedCredit
<1> QED BY <1>1, <1>2, <1>3, <1>4, MemberTypes, MemberAnswers

LEMMA RowStepKeeps ==
    ASSUME CreditInv, NEW c \in LoyaltyCaller,
           SaveCompleted(c) \/ DeductPoints(c) \/ SaveSpent(c)
    PROVE  CreditInv'
<1>1. c \in Calling BY DEF SaveCompleted, DeductPoints, SaveSpent, Calling
<1>2. member[c].pc \in {"completing", "deducting", "spending"} => member[c].row \in Profile
  BY <1>1, MemberTypes DEF CallFits, HoldsRow
<1>3. member[c].points \in Nat BY <1>1, MemberTypes
<1>4. CASE SaveCompleted(c)
  BY <1>1, <1>2, <1>3, <1>4, LoyaltyRows, RowSavedKeeps DEF SaveCompleted, Recorded
<1>5. CASE DeductPoints(c)
  BY <1>1, <1>2, <1>3, <1>5, LoyaltyRows, RowSavedKeeps DEF DeductPoints, Recorded
<1>6. CASE SaveSpent(c)
  BY <1>1, <1>2, <1>3, <1>6, LoyaltyRows, RowSavedKeeps DEF SaveSpent, Recorded
<1> QED BY <1>4, <1>5, <1>6

LEMMA CreditStepInv == CreditInv /\ [LoyaltyNext]_loyaltyVars => CreditInv'
<1> SUFFICES ASSUME CreditInv, [LoyaltyNext]_loyaltyVars PROVE CreditInv' OBVIOUS
<1>1. ASSUME NEW c \in LoyaltyCaller, LoyaltyBegin(c) PROVE CreditInv'
  BY <1>1, LoyaltyBeginKeeps
<1>2. ASSUME NEW c \in LoyaltyCaller, LoyaltyStep(c) PROVE CreditInv'
  BY <1>2, InsertProfileKeeps, FindAgainKeeps, LastSaveKeeps, RowStepKeeps,
     RecordConversionKeeps, SaveCreditKeeps, FailMemberKeeps
  DEF LoyaltyStep
<1>3. CASE UNCHANGED loyaltyVars
  BY <1>3 DEF loyaltyVars, CreditInv, LoyaltyTypeOK, CallFits, Recorded, HoldsRow, Calling,
     LoneMember
<1> QED BY <1>1, <1>2, <1>3 DEF LoyaltyNext

(* What a lone conversion has read and adds is what is recorded.           *)
THEOREM CreditInductive == LoyaltySpec => []CreditInv
BY CreditInitInv, CreditStepInv, PTL DEF LoyaltySpec

(* No credit is granted that no conversion accounts for, and none is       *)
(* missing once the calls have ended, if they did not overlap or fail.     *)
THEOREM CreditAlwaysRecorded == LoyaltySpec => []CreditIsRecorded
<1>1. CreditInv => CreditIsRecorded BY DEF CreditInv, CreditIsRecorded
<1> QED BY <1>1, CreditInductive, PTL
=============================================================================
