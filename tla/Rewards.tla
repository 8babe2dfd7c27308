------------------------------- MODULE Rewards -------------------------------
(***************************************************************************)
(* RewardsService.awardXP (src/rewards/rewards.service.ts): the experience *)
(* of one user.  Tasks, leads, logins, check-ins, claims and journals call *)
(* it, most of them without waiting for its answer, so calls overlap.      *)
(* Each reads the user's row, inserts a transaction, and saves the row it  *)
(* read with the award added: three database calls, in no transaction.     *)
(*                                                                         *)
(* currentXP moves as totalXP does, and rank as level does; neither has a  *)
(* variable of its own.                                                    *)
(***************************************************************************)
EXTENDS Integers

CONSTANTS
    XPCaller,        \* the calls of awardXP that may be in progress
    XPAmount,        \* the amounts awarded: any number, a fine is a negative one
    Levels,          \* LEVELS: [min, max] of each level, from 1
    MaxLogged,       \* bound: no award begins once this much is logged
    NoRewards,
    Missing, Null    \* undefined and null in a breakdown

(* "task" stands for the categories mapSourceTypeToCategory names that a   *)
(* new breakdown does not have: it has "tasks".                            *)
Category == {"login", "task"}

RewardsRow == [total: Int, level: Nat, breakdown: [Category -> Int \cup {Missing, Null}]]

NewRewards == [total |-> 0, level |-> 1,
               breakdown |-> [k \in Category |-> IF k = "login" THEN 0 ELSE Missing]]

Award == [amount: XPAmount, category: Category]

ASSUME RewardsAssumption ==
    /\ XPAmount \subseteq Int
    /\ 1 \in DOMAIN Levels /\ DOMAIN Levels \subseteq Nat
    /\ \A l \in DOMAIN Levels : Levels[l] \in [min: Nat, max: Nat]
    /\ \A l, m \in DOMAIN Levels : l < m => Levels[l].max < Levels[m].min
    /\ MaxLogged \in Nat
    /\ NoRewards \notin RewardsRow

VARIABLES
    rewardsRow,   \* the user's row
    granted,      \* what the transactions of positive amounts add up to
    fined,        \* and, without its sign, what those of negative amounts do
    xpCall,       \* where each call is, the row it read, and what it awards
    xpOverlaps,   \* two calls were in progress at the same time
    xpFailed      \* a call failed after its transaction was inserted

rewardsVars == <<rewardsRow, granted, fined, xpCall, xpOverlaps, xpFailed>>

NoXPCall == [pc |-> "idle"]

XPCall == [pc: {"creating", "logging", "saving"}, row: RewardsRow, award: Award]

AwardingXP == {c \in XPCaller : xpCall[c] # NoXPCall}

RewardsInit ==
    /\ rewardsRow = NoRewards
    /\ granted = 0
    /\ fined = 0
    /\ xpCall = [c \in XPCaller |-> NoXPCall]
    /\ xpOverlaps = FALSE
    /\ xpFailed = FALSE

(* findOne: the user's row, or a new one to insert.                        *)
FindRewards(c) ==
    /\ xpCall[c] = NoXPCall
    /\ granted + fined < MaxLogged                                               \* bound
    /\ \E a \in Award :
         xpCall' = [xpCall EXCEPT ![c] =
           IF rewardsRow = NoRewards
           THEN [pc |-> "creating", row |-> NewRewards, award |-> a]
           ELSE [pc |-> "logging", row |-> rewardsRow, award |-> a]]
    /\ xpOverlaps' = (xpOverlaps \/ AwardingXP # {})
    /\ UNCHANGED <<rewardsRow, granted, fined, xpFailed>>

(* A user has one row: the second insert is refused, and its award with it. *)
CreateRewards(c) ==
    /\ xpCall[c] # NoXPCall /\ xpCall[c].pc = "creating"
    /\ IF rewardsRow = NoRewards
       THEN rewardsRow' = NewRewards /\ xpCall' = [xpCall EXCEPT ![c].pc = "logging"]
       ELSE xpCall' = [xpCall EXCEPT ![c] = NoXPCall] /\ UNCHANGED rewardsRow
    /\ UNCHANGED <<granted, fined, xpOverlaps, xpFailed>>

(* The amount is the caller's: no pipe validates the body of the request,  *)
(* and its type would let any number pass.                                 *)
LogXP(c) ==
    LET n == xpCall[c].award.amount
    IN  /\ xpCall[c] # NoXPCall /\ xpCall[c].pc = "logging"
        /\ granted' = IF n > 0 THEN granted + n ELSE granted
        /\ fined' = IF n < 0 THEN fined - n ELSE fined
        /\ xpCall' = [xpCall EXCEPT ![c].pc = "saving"]
        /\ UNCHANGED <<rewardsRow, xpOverlaps, xpFailed>>

(* calculateLevel: 1 where no level's range has the number.                *)
LevelOf(xp) ==
    LET fits == {l \in DOMAIN Levels : Levels[l].min <= xp /\ xp <= Levels[l].max}
    IN  IF fits = {} THEN 1 ELSE CHOOSE l \in fits : TRUE

(* += on a number of the breakdown: undefined becomes NaN, which is stored *)
(* as null, and null counts as 0.                                          *)
Plus(n, amount) ==
    CASE n = Missing -> Null
      [] n = Null    -> amount
      [] OTHER       -> n + amount

(* Mutant: an award is added to the total twice. *)
CreditedTwice(row, a) ==
    [row EXCEPT !.total = @ + 2 * a.amount,
                !.breakdown[a.category] = Plus(@, a.amount)]

(* What the row read becomes.  A level is never taken back by an award.    *)
Credited(row, a) ==
    LET total == row.total + a.amount
        level == LevelOf(total)
    IN  [total     |-> total,
         level     |-> IF level > row.level THEN level ELSE row.level,
         breakdown |-> [row.breakdown EXCEPT ![a.category] = Plus(@, a.amount)]]

(* The whole row is written, whatever it has become since it was read.     *)
SaveRewards(c) ==
    /\ xpCall[c] # NoXPCall /\ xpCall[c].pc = "saving"
    /\ rewardsRow' = Credited(xpCall[c].row, xpCall[c].award)
    /\ xpCall' = [xpCall EXCEPT ![c] = NoXPCall]
    /\ UNCHANGED <<granted, fined, xpOverlaps, xpFailed>>

(* A database call fails; the caller is answered without rewards.          *)
FailXP(c) ==
    /\ xpCall[c] # NoXPCall
    /\ xpCall' = [xpCall EXCEPT ![c] = NoXPCall]
    /\ xpFailed' = (xpFailed \/ xpCall[c].pc = "saving")
    /\ UNCHANGED <<rewardsRow, granted, fined, xpOverlaps>>

XPStep(c) ==
    FindRewards(c) \/ CreateRewards(c) \/ LogXP(c) \/ SaveRewards(c) \/ FailXP(c)

RewardsNext == \E c \in XPCaller : XPStep(c)

RewardsSpec == RewardsInit /\ [][RewardsNext]_rewardsVars

-----------------------------------------------------------------------------
RewardsTypeOK ==
    /\ rewardsRow \in RewardsRow \cup {NoRewards}
    /\ granted \in Nat
    /\ fined \in Nat
    /\ xpCall \in [XPCaller -> XPCall \cup {NoXPCall}]
    /\ xpOverlaps \in BOOLEAN
    /\ xpFailed \in BOOLEAN

TotalXP == IF rewardsRow = NoRewards THEN 0 ELSE rewardsRow.total

(* However calls overlap and fail, a user never has more experience than   *)
(* the awards granted account for, nor less than the fines do; and exactly *)
(* the difference of the two between calls, if none overlapped and none    *)
(* failed between its transaction and its save.                            *)
XPIsLogged ==
    /\ -fined <= TotalXP /\ TotalXP <= granted
    /\ (AwardingXP = {} /\ ~xpOverlaps /\ ~xpFailed) => TotalXP = granted - fined
=============================================================================
