------------------------------ MODULE Targets ------------------------------
(***************************************************************************)
(* The progress of one user towards a target (src/user/user.service.ts):   *)
(* calculateUserTargets adds what was done since the last calculation,     *)
(* recurSingleTarget archives it when the period is over, updateUserTarget *)
(* saves what an administrator changes.                                    *)
(*                                                                         *)
(* Each loads the row, and saves a whole entity some awaits later: TypeORM *)
(* reads the row again and updates the columns in which the entity differs.*)
(* Quotations, orders, leads, clients and check-ins are counted in the     *)
(* same way: one kind stands for them.  Times are the places of events in  *)
(* the order in which they happen; no two are equal.                       *)
(***************************************************************************)
EXTENDS Integers, FiniteSets

CONSTANTS
    ProgressSet, \* the progress an update may carry in its body: any number
    MaxClock,    \* bound on the events that are stamped
    MaxPeriods   \* bound on the recurrences

ASSUME TargetsAssumption ==
    ProgressSet \subseteq Int /\ MaxClock \in Nat /\ MaxPeriods \in Nat

VARIABLES
    clock,       \* the last stamp given
    inserting,   \* the stamps of activities not yet committed
    activities,  \* the stamps of those that are
    target,      \* the row: current progress, lastCalculatedAt, the sum of the
                 \* history, the number of recurrences; and, which the program does
                 \* not keep, by how much updates have changed its progress
    job,         \* where each job is, with the entity it has loaded, the end of its
                 \* window and the columns it will update
    savesCrossed,\* a save was made between the reading and the updating of another
    jobsCrossed  \* a job was begun while another was in progress

targetVars == <<clock, inserting, activities, target, job, savesCrossed, jobsCrossed>>

(* calculateUserTargets keeps a second calculation of a user from          *)
(* beginning; recurrences come from one timer.                             *)
Job == {"calculate", "recur", "update"}

Column == {"current", "last", "archived", "period"}

Field == Column \cup {"given"}

JobPC == {"idle", "finding", "queued", "reloading", "updating"}

Nothing == [c \in Field |-> 0]

Resting == [pc |-> "idle", copy |-> Nothing, end |-> 0, columns |-> {}]

Done(j) == [job EXCEPT ![j] = Resting]

TargetsInit ==
    /\ clock = 0
    /\ inserting = {}
    /\ activities = {}
    /\ target = Nothing
    /\ job = [j \in Job |-> Resting]
    /\ savesCrossed = FALSE
    /\ jobsCrossed = FALSE

-----------------------------------------------------------------------------
(* A quotation, lead, client or check-in takes its time when its           *)
(* transaction begins, and is seen by others when it is committed.         *)
InsertActivity ==
    /\ clock < MaxClock                                                \* bound
    /\ clock' = clock + 1
    /\ inserting' = inserting \cup {clock + 1}
    /\ UNCHANGED <<activities, target, job, savesCrossed, jobsCrossed>>

CommitActivity(t) ==
    /\ t \in inserting
    /\ inserting' = inserting \ {t}
    /\ activities' = activities \cup {t}
    /\ UNCHANGED <<clock, target, job, savesCrossed, jobsCrossed>>

(* A job loads the row, and may change what it has loaded; the window of a *)
(* calculation ends now.                                                   *)
Load(j, p, row) ==
    /\ job[j].pc = "idle"
    /\ clock < MaxClock                                                \* bound
    /\ clock' = clock + 1
    /\ job' = [job EXCEPT ![j] = [pc |-> p, copy |-> row, end |-> clock + 1,
                                  columns |-> {}]]
    /\ jobsCrossed' = (jobsCrossed \/ \E k \in Job : job[k].pc # "idle")
    /\ UNCHANGED <<inserting, activities, target, savesCrossed>>

LoadForCalculation == Load("calculate", "finding", target)

(* nextRecurrenceDate has passed; other targets of the list come first.    *)
LoadForRecurrence ==
    target.period < MaxPeriods /\ Load("recur", "queued", target)      \* bound

(* What an administrator changes may be the progress itself, to which the  *)
(* body gives any number, or other columns only.                           *)
Given(row, v) == [row EXCEPT !.current = v, !.given = @ + (v - row.current)]

LoadForUpdate ==
    \/ Load("update", "reloading", target)
    \/ \E v \in ProgressSet : Load("update", "reloading", Given(target, v))

(* Mutant: the window begins with the period, not with the last calculation. *)
WindowOfPeriod(copy, end) == {t \in activities : t <= end}

(* Between(lastCalculatedAt, now)                                          *)
Window(copy, end) == {t \in activities : copy.last < t /\ t <= end}

(* performCalculation: what is new is added to the progress; without       *)
(* anything new, or if the sum is still below zero, nothing is saved.      *)
Calculated(row, end) ==
    [row EXCEPT !.current = @ + Cardinality(Window(row, end)), !.last = end]

Find ==
    LET c == job["calculate"]
    IN  /\ c.pc = "finding"
        /\ job' = IF Window(c.copy, c.end) = {} \/ Calculated(c.copy, c.end).current < 0
                  THEN Done("calculate")
                  ELSE [job EXCEPT !["calculate"].pc = "reloading",
                                   !["calculate"].copy = Calculated(c.copy, c.end)]
        /\ UNCHANGED <<clock, inserting, activities, target, savesCrossed, jobsCrossed>>

(* Mutant: the progress is reset before it is archived. *)
ArchivedAfterReset(row, now) ==
    [row EXCEPT !.current = 0, !.last = now, !.period = @ + 1]

(* recurSingleTarget: what was done since the last calculation is in       *)
(* neither period.                                                         *)
Archived(row, now) ==
    [row EXCEPT !.current = 0, !.last = now, !.archived = @ + row.current, !.period = @ + 1]

Recur ==
    /\ job["recur"].pc = "queued"
    /\ clock < MaxClock                                                \* bound
    /\ clock' = clock + 1
    /\ job' = [job EXCEPT !["recur"].pc = "reloading",
                          !["recur"].copy = Archived(@, clock + 1)]
    /\ UNCHANGED <<inserting, activities, target, savesCrossed, jobsCrossed>>

(* save(): the row is read again, and compared with the entity.            *)
Reload(j) ==
    LET columns == {c \in Column : job[j].copy[c] # target[c]}
    IN  /\ job[j].pc = "reloading"
        /\ job' = IF columns = {} THEN Done(j)
                  ELSE [job EXCEPT ![j].pc = "updating", ![j].columns = columns]
        /\ UNCHANGED <<clock, inserting, activities, target, savesCrossed, jobsCrossed>>

Update(j) ==
    /\ job[j].pc = "updating"
    /\ target' = [c \in Field |-> IF c \in job[j].columns \cup {"given"}
                                  THEN job[j].copy[c] ELSE target[c]]
    /\ job' = Done(j)
    /\ savesCrossed' = (savesCrossed \/ \E k \in Job \ {j} : job[k].pc = "updating")
    /\ UNCHANGED <<clock, inserting, activities, jobsCrossed>>

FailJob(j) ==
    /\ job[j].pc # "idle"
    /\ job' = Done(j)
    /\ UNCHANGED <<clock, inserting, activities, target, savesCrossed, jobsCrossed>>

TargetsNext ==
    \/ InsertActivity
    \/ \E t \in inserting : CommitActivity(t)
    \/ LoadForCalculation
    \/ LoadForRecurrence
    \/ LoadForUpdate
    \/ Find
    \/ Recur
    \/ \E j \in Job : Reload(j) \/ Update(j) \/ FailJob(j)

TargetsSpec == TargetsInit /\ [][TargetsNext]_targetVars

-----------------------------------------------------------------------------
TargetRow == [Field -> Int]

TargetsTypeOK ==
    /\ clock \in Nat
    /\ inserting \subseteq 1 .. clock
    /\ activities \subseteq 1 .. clock
    /\ target \in TargetRow
    /\ job \in [Job -> [pc: JobPC, copy: TargetRow, end: 0 .. clock,
                        columns: SUBSET Column]]
    /\ savesCrossed \in BOOLEAN
    /\ jobsCrossed \in BOOLEAN

(* Nothing a user does is counted twice: unless one save falls between the *)
(* reading and the updating of another, the progress and its history are   *)
(* at most what was done up to the last calculation, and what the updates  *)
(* that the row goes back to have added or taken away, however             *)
(* calculations, recurrences and updates overlap and overwrite each other. *)
NeverOvercounted ==
    ~savesCrossed => target.archived + target.current
                       <= target.given + Cardinality({t \in activities : t <= target.last})

(* A recurrence is not undone: unless jobs overlap, no save takes a period *)
(* back, or changes what was archived without a recurrence.                *)
ArchiveIsKept ==
    [][(~jobsCrossed /\ target' # target)
         => \/ target'.period = target.period /\ target'.archived = target.archived
            \/ /\ target'.period = target.period + 1
               /\ target'.archived = target.archived + target.current]_targetVars
=============================================================================
