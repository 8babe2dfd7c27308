---------------------------- MODULE LicenseUsage ----------------------------
(***************************************************************************)
(* The API calls LicenseUsageService counts for each licence               *)
(* (src/licensing/license-usage.service.ts): handleAPIUsage buffers them,  *)
(* processBufferedUsage adds a buffer to the total of the latest row.      *)
(*                                                                         *)
(* A flush keeps the array it found in the map, reads its length when the  *)
(* latest row has been read, and puts a new array in the map when the new  *)
(* row has been saved; calls go on arriving at each of its awaits.         *)
(***************************************************************************)
EXTENDS Integers, Sequences, Functions

CONSTANTS
    License,     \* the licences
    Confused,    \* <<l, m>>: the key of m begins with the uid of l, as "10_" with "1"
    Flush,       \* flushes, each in progress once at most
    Threshold,   \* the length of a buffer that is flushed at once
    MaxCalls,    \* bound on the calls, of all licences
    MaxRecounted,\* bound: no more answers are lost once so many calls may be recounted
    NoLicense

ASSUME LicenseUsageAssumption ==
    /\ Threshold \in Nat \ {0}
    /\ MaxCalls \in Nat
    /\ MaxRecounted \in Nat
    /\ Confused \subseteq License \X License
    /\ NoLicense \notin License

VARIABLES
    usageOrder,  \* the keys of usageBuffer, in the order of insertion
    usageBuffer, \* the length of the array under each key
    currentValue,\* the total of each licence's latest row
    made,        \* the calls made under each licence
    recounted,   \* what rows whose save was not answered had added: their calls are still
                 \* in the buffer
    flush,       \* where each flush is, its key and total; and the array it holds: the
                 \* one in the map, or an old one, of this length
    overlapped,  \* licences of which two flushes have overlapped
    crossed,     \* licences with a call that came after a flush had counted
    forgotten    \* the process was restarted

usageVars == <<usageOrder, usageBuffer, currentValue, made, recounted, flush, overlapped,
               crossed, forgotten>>

FlushPC == {"idle", "reading", "counting", "saving", "emptying"}

NoFlush == [pc |-> "idle", license |-> NoLicense, total |-> 0, old |-> FALSE, length |-> 0]

UsageInit ==
    /\ usageOrder = <<>>
    /\ usageBuffer = [l \in License |-> 0]
    /\ currentValue = [l \in License |-> 0]
    /\ made = [l \in License |-> 0]
    /\ recounted = [l \in License |-> 0]
    /\ flush = [f \in Flush |-> NoFlush]
    /\ overlapped = {}
    /\ crossed = {}
    /\ forgotten = FALSE

FlushOf(l) == {f \in Flush : flush[f].license = l}

Counted(l) == \E f \in FlushOf(l) : flush[f].pc \in {"saving", "emptying"}

-----------------------------------------------------------------------------
(* processBufferedUsage takes the first key, in the map's order, whose     *)
(* buffer is not empty, and no other.  With a licence, it looks for a key  *)
(* that begins with the licence's uid.                                     *)
Keys(order, buffer, wanted) ==
    {i \in DOMAIN order : order[i] \in wanted /\ buffer[order[i]] > 0}

Begin(f, order, buffer, wanted) ==
    LET found == Keys(order, buffer, wanted)
    IN  /\ flush[f].pc = "idle"
        /\ \/ found = {} /\ UNCHANGED <<flush, overlapped>>
           \/ \E i \in found :
                /\ \A j \in found : i <= j
                /\ flush' = [flush EXCEPT ![f].pc = "reading", ![f].license = order[i]]
                /\ overlapped' = IF FlushOf(order[i]) = {} THEN overlapped
                                 ELSE overlapped \cup {order[i]}

Matching(l) == {l} \cup {m \in License : <<l, m>> \in Confused}

(* handleAPIUsage: a call is pushed, and flushes its licence if the buffer *)
(* has reached the threshold, whether or not a flush is in progress.       *)
CountCall(l) ==
    LET buffer == [usageBuffer EXCEPT ![l] = @ + 1]
        order  == IF \E i \in DOMAIN usageOrder : usageOrder[i] = l
                  THEN usageOrder ELSE Append(usageOrder, l)
    IN  /\ SumFunction(made) < MaxCalls                                          \* bound
        /\ made' = [made EXCEPT ![l] = @ + 1]
        /\ usageBuffer' = buffer
        /\ usageOrder' = order
        /\ crossed' = IF Counted(l) THEN crossed \cup {l} ELSE crossed
        /\ IF buffer[l] >= Threshold
           THEN \E f \in Flush : Begin(f, order, buffer, Matching(l))
           ELSE UNCHANGED <<flush, overlapped>>
        /\ UNCHANGED <<currentValue, recounted, forgotten>>

(* The interval, every five minutes.                                       *)
Aggregate ==
    /\ \E f \in Flush : Begin(f, usageOrder, usageBuffer, License)
    /\ UNCHANGED <<usageOrder, usageBuffer, currentValue, made, recounted, crossed,
                   forgotten>>

Advance(f, p, total) == flush' = [flush EXCEPT ![f].pc = p, ![f].total = total]

(* The latest usage row of the licence is read.                            *)
ReadLatest(f) ==
    /\ flush[f].pc = "reading"
    /\ Advance(f, "counting", currentValue[flush[f].license])
    /\ UNCHANGED <<usageOrder, usageBuffer, currentValue, made, recounted, overlapped,
                   crossed, forgotten>>

(* Mutant: the latest row's total is left out. *)
TotalOfBuffer(latest, length) == length

Total(latest, length) == latest + length

Held(f) == IF flush[f].old THEN flush[f].length ELSE usageBuffer[flush[f].license]

(* totalCalls; the licence may have to be fetched before the row is saved. *)
Count(f) ==
    /\ flush[f].pc = "counting"
    /\ Advance(f, "saving", Total(flush[f].total, Held(f)))
    /\ UNCHANGED <<usageOrder, usageBuffer, currentValue, made, recounted, overlapped,
                   crossed, forgotten>>

SaveUsage(f) ==
    /\ flush[f].pc = "saving"
    /\ currentValue' = [currentValue EXCEPT ![flush[f].license] = flush[f].total]
    /\ flush' = [flush EXCEPT ![f].pc = "emptying"]
    /\ UNCHANGED <<usageOrder, usageBuffer, made, recounted, overlapped, crossed,
                   forgotten>>

(* Mutant: the buffer stays as it is. *)
EmptiedNot(buffer, l) == buffer

(* usageBuffer.set(key, []): calls pushed since they were counted go with  *)
(* the old array, which other flushes may still hold.                      *)
Emptied(buffer, l) == [buffer EXCEPT ![l] = 0]

EmptyBuffer(f) ==
    LET l == flush[f].license
        Left(g) == IF g \in FlushOf(l) /\ ~flush[g].old
                   THEN [flush[g] EXCEPT !.old = TRUE, !.length = usageBuffer[l]]
                   ELSE flush[g]
    IN  /\ flush[f].pc = "emptying"
        /\ usageBuffer' = Emptied(usageBuffer, l)
        /\ flush' = [g \in Flush |-> IF g = f THEN NoFlush ELSE Left(g)]
        /\ UNCHANGED <<usageOrder, currentValue, made, recounted, overlapped, crossed,
                       forgotten>>

(* A database call fails: the error is logged, and the buffer kept.        *)
FailFlush(f) ==
    /\ flush[f].pc \in {"reading", "saving"}
    /\ flush' = [flush EXCEPT ![f] = NoFlush]
    /\ UNCHANGED <<usageOrder, usageBuffer, currentValue, made, recounted, overlapped,
                   crossed, forgotten>>

(* The row is saved, but the answer does not come, or is an error: to the  *)
(* flush that is a failure as any other, and the buffer is kept.           *)
LoseAnswer(f) ==
    LET l == flush[f].license
    IN  /\ flush[f].pc = "saving"
        /\ SumFunction(recounted) < MaxRecounted                                 \* bound
        /\ currentValue' = [currentValue EXCEPT ![l] = flush[f].total]
        /\ recounted' = [recounted EXCEPT ![l] = @ + flush[f].total - currentValue[l]]
        /\ flush' = [flush EXCEPT ![f] = NoFlush]
        /\ UNCHANGED <<usageOrder, usageBuffer, made, overlapped, crossed, forgotten>>

RestartUsage ==
    /\ usageOrder # <<>>
    /\ usageOrder' = <<>>
    /\ usageBuffer' = [l \in License |-> 0]
    /\ flush' = [f \in Flush |-> NoFlush]
    /\ forgotten' = TRUE
    /\ UNCHANGED <<currentValue, made, recounted, overlapped, crossed>>

FlushStep(f) ==
    \/ ReadLatest(f)
    \/ Count(f)
    \/ SaveUsage(f)
    \/ EmptyBuffer(f)
    \/ FailFlush(f)
    \/ LoseAnswer(f)

UsageNext ==
    \/ \E l \in License : CountCall(l)
    \/ Aggregate
    \/ \E f \in Flush : FlushStep(f)
    \/ RestartUsage

UsageSpec == UsageInit /\ [][UsageNext]_usageVars

-----------------------------------------------------------------------------
UsageTypeOK ==
    /\ usageOrder \in Seq(License)
    /\ usageBuffer \in [License -> Nat]
    /\ currentValue \in [License -> Nat]
    /\ made \in [License -> Nat]
    /\ recounted \in [License -> Int]
    /\ flush \in [Flush -> [pc: FlushPC, license: License \cup {NoLicense},
                            total: Nat, old: BOOLEAN, length: Nat]]
    /\ overlapped \subseteq License
    /\ crossed \subseteq License
    /\ forgotten \in BOOLEAN

(* The calls made, and those that lost answers have made to be counted     *)
(* once more.                                                              *)
Chargeable(l) == made[l] + recounted[l]

(* A licence is not charged for calls that were not made, nor twice but    *)
(* for those of a saved row whose save was not answered: as long as no two *)
(* of its flushes overlap, whatever calls arrive meanwhile, whatever       *)
(* fails, restarts included.                                               *)
NeverOvercharged ==
    \A l \in License \ overlapped : currentValue[l] <= Chargeable(l)

(* Between flushes, every call is in the total or in the buffer, once, and *)
(* once more for each save that was not answered, if none came between the *)
(* counting and the emptying of a flush, no flushes overlapped, and the    *)
(* process was not restarted.                                              *)
EveryCallCounted ==
    \A l \in License \ (overlapped \cup crossed) :
      (FlushOf(l) = {} /\ ~forgotten)
        => currentValue[l] + usageBuffer[l] = Chargeable(l)
=============================================================================
