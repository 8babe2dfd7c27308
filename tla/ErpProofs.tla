----------------------------- MODULE ErpProofs -----------------------------
(***************************************************************************)
(* Proofs about ErpBreaker and ErpConnections, for any callers, thresholds *)
(* and limits, however many queries and connections are made.              *)
(***************************************************************************)
EXTENDS ErpBreaker, ErpConnections, FiniteSetTheorems, SequenceTheorems, TLAPS

(* The attempts that hold a place of the semaphore and are waited for.     *)
Running == {c \in ErpCall : erpCall[c].pc = "running"}

CallRecord == [pc: ErpCallPC, attempt: 0 .. MaxRetries]

BreakerInv ==
    /\ BreakerTypeOK
    /\ IsFiniteSet(Running)
    /\ Cardinality(Running) + abandoned.running <= MaxConcurrent
    /\ \A c \in ErpCall : erpCall[c].pc = "backoff" => erpCall[c].attempt < MaxRetries
    /\ HalfOpenIsTested
    /\ OpenAfterFailures

-----------------------------------------------------------------------------
LEMMA LimitTypes ==
    /\ FailureThreshold \in Nat /\ FailureThreshold >= 1
    /\ HalfOpenMax \in Nat /\ HalfOpenMax >= 1
    /\ MaxRetries \in Nat /\ MaxRetries >= 1
    /\ MaxConcurrent \in Nat /\ MaxConcurrent >= 1
    /\ MaxAbandoned \in Nat
BY BreakerAssumption

(* Attempt(c, p, n) changes the call of c alone. *)
LEMMA AttemptMoves ==
    ASSUME BreakerTypeOK, NEW c \in ErpCall, NEW p \in ErpCallPC, NEW n \in 0 .. MaxRetries,
           Attempt(c, p, n)
    PROVE  /\ erpCall' \in [ErpCall -> CallRecord]
           /\ erpCall'[c].pc = p /\ erpCall'[c].attempt = n
           /\ \A d \in ErpCall \ {c} : erpCall'[d] = erpCall[d]
BY DEF Attempt, BreakerTypeOK, CallRecord

(* Running gains or loses the call that moves, or stays. *)
LEMMA RunningMoves ==
    ASSUME BreakerTypeOK, IsFiniteSet(Running), NEW c \in ErpCall,
           NEW p \in ErpCallPC, NEW n \in 0 .. MaxRetries, Attempt(c, p, n)
    PROVE  /\ IsFiniteSet(Running')
           /\ Cardinality(Running) \in Nat
           /\ Cardinality(Running') \in Nat
           /\ Cardinality(Running') <= Cardinality(Running) + 1
           /\ p # "running" => Cardinality(Running') <= Cardinality(Running)
           /\ (erpCall[c].pc = "running" /\ p # "running")
                => Cardinality(Running') = Cardinality(Running) - 1
<1>1. /\ erpCall'[c].pc = p
      /\ \A d \in ErpCall \ {c} : erpCall'[d] = erpCall[d]
  BY AttemptMoves
<1>2. Cardinality(Running) \in Nat BY FS_CardinalityType
<1>3. CASE p = "running"
  <2>1. Running' = Running \cup {c} BY <1>1, <1>3 DEF Running
  <2>2. /\ IsFiniteSet(Running \cup {c})
        /\ Cardinality(Running \cup {c}) \in {Cardinality(Running), Cardinality(Running) + 1}
    BY FS_AddElement
  <2> QED BY <1>2, <1>3, <2>1, <2>2
<1>4. CASE p # "running"
  <2>1. Running' = Running \ {c} BY <1>1, <1>4 DEF Running
  <2>2. /\ IsFiniteSet(Running \ {c})
        /\ Cardinality(Running \ {c})
             = IF c \in Running THEN Cardinality(Running) - 1 ELSE Cardinality(Running)
    BY FS_RemoveElement
  <2>3. c \in Running => erpCall[c].pc = "running" BY DEF Running
  <2>4. erpCall[c].pc = "running" => c \in Running BY DEF Running
  <2>5. Cardinality(Running \ {c}) \in Nat BY <2>2, FS_CardinalityType
  <2> QED BY <1>2, <1>4, <2>1, <2>2, <2>4, <2>5
<1> QED BY <1>3, <1>4

LEMMA BreakerInitInv == BreakerInit => BreakerInv
<1> SUFFICES ASSUME BreakerInit PROVE BreakerInv OBVIOUS
<1>1. Running = {} BY DEF BreakerInit, Running
<1>2. IsFiniteSet(Running) /\ Cardinality(Running) = 0 BY <1>1, FS_EmptySet
<1>3. BreakerTypeOK
  <2>1. erpCall \in [ErpCall -> CallRecord]
    <3> DEFINE idle == [pc |-> "idle", attempt |-> 0]
    <3>1. 0 \in 0 .. MaxRetries /\ "idle" \in ErpCallPC BY LimitTypes DEF ErpCallPC
    <3>2. idle \in CallRecord BY <3>1 DEF CallRecord
    <3>3. erpCall = [c \in ErpCall |-> idle] BY DEF BreakerInit
    <3> HIDE DEF idle
    <3> QED BY <3>2, <3>3
  <2>2. abandoned \in [line: 0 .. MaxAbandoned, running: 0 .. MaxConcurrent]
    BY LimitTypes DEF BreakerInit
  <2>3. /\ breaker \in {"CLOSED", "OPEN", "HALF_OPEN"}
        /\ failureCount \in 0 .. FailureThreshold
        /\ cooled \in BOOLEAN
        /\ halfOpenRequests \in 0 .. HalfOpenMax
        /\ testing \subseteq ErpCall
    <3>1. /\ breaker = "CLOSED" /\ failureCount = 0 /\ cooled = FALSE
          /\ halfOpenRequests = 0 /\ testing = {}
      BY DEF BreakerInit
    <3>2. cooled \in BOOLEAN BY <3>1
    <3> QED BY <3>1, <3>2, LimitTypes
  <2> QED BY <2>1, <2>2, <2>3 DEF BreakerTypeOK, CallRecord
<1>4. HalfOpenIsTested /\ OpenAfterFailures
  BY DEF BreakerInit, HalfOpenIsTested, OpenAfterFailures
<1>5. Cardinality(Running) + abandoned.running <= MaxConcurrent
  BY <1>2, BreakerAssumption DEF BreakerInit
<1>6. \A c \in ErpCall : erpCall[c].pc = "idle" BY DEF BreakerInit
<1> QED BY <1>2, <1>3, <1>4, <1>5, <1>6 DEF BreakerInv

(* A call that is admitted, takes a place or tries again. *)
LEMMA GoesOn ==
    ASSUME BreakerInv, NEW c \in ErpCall,
           AdmitClosed(c) \/ AdmitTest(c) \/ TakePlace(c) \/ Retry(c)
    PROVE  BreakerInv'
<1>1. BreakerTypeOK /\ IsFiniteSet(Running) BY DEF BreakerInv
<1>2. PICK p \in {"line", "running"}, n \in 0 .. MaxRetries : Attempt(c, p, n) /\ (p = "running" => ActiveQueries < MaxConcurrent)
  <2>1. erpCall[c].attempt \in 0 .. MaxRetries BY <1>1 DEF BreakerTypeOK
  <2>2. CASE AdmitClosed(c) \/ AdmitTest(c)
    BY <2>2, LimitTypes DEF AdmitClosed, AdmitTest
  <2>3. CASE TakePlace(c) BY <2>1, <2>3 DEF TakePlace
  <2>4. CASE Retry(c)
    <3>1. erpCall[c].attempt < MaxRetries BY <2>4 DEF Retry, BreakerInv
    <3>2. erpCall[c].attempt + 1 \in 0 .. MaxRetries BY <2>1, <3>1, LimitTypes
    <3> QED BY <2>4, <3>2 DEF Retry
  <2> QED BY <2>2, <2>3, <2>4
<1>3. p \in ErpCallPC BY DEF ErpCallPC
<1>4. /\ erpCall' \in [ErpCall -> CallRecord]
      /\ erpCall'[c].pc = p
      /\ \A d \in ErpCall \ {c} : erpCall'[d] = erpCall[d]
  BY <1>1, <1>2, <1>3, AttemptMoves
<1>5. UNCHANGED <<failureCount, cooled, abandoned>>
  BY DEF AdmitClosed, AdmitTest, TakePlace, Retry
<1>6. /\ breaker' \in {"CLOSED", "OPEN", "HALF_OPEN"}
      /\ breaker = "CLOSED" => breaker' = "CLOSED"
      /\ halfOpenRequests' \in 0 .. HalfOpenMax
      /\ testing' \subseteq ErpCall
  BY <1>1, LimitTypes
  DEF AdmitClosed, AdmitTest, TakePlace, Retry, BecomesHalfOpen, BreakerTypeOK
<1>7. BreakerTypeOK' BY <1>1, <1>4, <1>5, <1>6 DEF BreakerTypeOK, CallRecord
<1>8. IsFiniteSet(Running') /\ Cardinality(Running') + abandoned.running <= MaxConcurrent
  <2>1. /\ IsFiniteSet(Running')
        /\ Cardinality(Running) \in Nat
        /\ Cardinality(Running') \in Nat
        /\ Cardinality(Running') <= Cardinality(Running) + 1
        /\ p # "running" => Cardinality(Running') <= Cardinality(Running)
    BY <1>1, <1>2, <1>3, RunningMoves
  <2>2. abandoned.running \in Nat BY <1>1 DEF BreakerTypeOK
  <2>3. p = "running" => Cardinality(Running) + abandoned.running < MaxConcurrent
    BY <1>2 DEF ActiveQueries, Running
  <2>4. Cardinality(Running) + abandoned.running <= MaxConcurrent BY DEF BreakerInv
  <2> QED BY <2>1, <2>2, <2>3, <2>4, LimitTypes
<1>9. \A d \in ErpCall : erpCall'[d].pc = "backoff" => erpCall'[d].attempt < MaxRetries
  BY <1>4 DEF BreakerInv
<1>10. HalfOpenIsTested'
  BY <1>4, <1>6 DEF AdmitClosed, AdmitTest, TakePlace, Retry, BreakerInv, HalfOpenIsTested
<1>11. OpenAfterFailures' BY <1>5, <1>6 DEF BreakerInv, OpenAfterFailures
<1> QED BY <1>5, <1>7, <1>8, <1>9, <1>10, <1>11 DEF BreakerInv, Running
(* A call that fails for good: every test it cut short reopens the breaker. *)
LEMMA FinalMoves ==
    ASSUME BreakerInv, NEW c \in ErpCall, FinalFailure(c)
    PROVE  /\ Attempt(c, "idle", 0)
           /\ failureCount' \in 0 .. FailureThreshold
           /\ breaker' \in {"CLOSED", "OPEN"}
           /\ breaker' # "CLOSED" => failureCount' >= FailureThreshold
           /\ cooled' \in BOOLEAN
           /\ halfOpenRequests' \in 0 .. HalfOpenMax
           /\ testing' \subseteq ErpCall
<1>1. BreakerTypeOK BY DEF BreakerInv
<1>2. breaker # "CLOSED" => failureCount >= FailureThreshold
  BY DEF BreakerInv, OpenAfterFailures
<1>3. failureCount' \in 0 .. FailureThreshold
  BY <1>1, LimitTypes DEF FinalFailure, AtMost, BreakerTypeOK
<1>4. breaker' # "CLOSED" => failureCount' >= FailureThreshold
  BY <1>1, <1>2, LimitTypes DEF FinalFailure, AtMost, AfterFailure, BreakerTypeOK
<1>5. breaker' \in {"CLOSED", "OPEN"}
  BY <1>1, LimitTypes DEF FinalFailure, AfterFailure, BreakerTypeOK
<1> QED BY <1>1, <1>3, <1>4, <1>5 DEF FinalFailure, BreakerTypeOK

(* What an attempt that is left leaves behind: an attempt timed out while  *)
(* it ran passes from Running to the abandoned ones.                       *)
LEMMA LeftBehind ==
    ASSUME BreakerInv, NEW c \in ErpCall, NEW p \in {"idle", "backoff"},
           NEW n \in 0 .. MaxRetries, Attempt(c, p, n),
           \/ UNCHANGED abandoned
           \/ /\ erpCall[c].pc \in {"line", "running"}
              /\ abandoned' = IF erpCall[c].pc = "line"
                              THEN [abandoned EXCEPT !.line = AtMost(@ + 1, MaxAbandoned)]
                              ELSE [abandoned EXCEPT !.running = @ + 1]
    PROVE  /\ IsFiniteSet(Running')
           /\ Cardinality(Running') + abandoned'.running <= MaxConcurrent
           /\ abandoned' \in [line: 0 .. MaxAbandoned, running: 0 .. MaxConcurrent]
<1>1. BreakerTypeOK /\ IsFiniteSet(Running) BY DEF BreakerInv
<1>2. p \in ErpCallPC /\ p # "running" BY DEF ErpCallPC
<1>3. /\ IsFiniteSet(Running')
      /\ Cardinality(Running) \in Nat
      /\ Cardinality(Running') \in Nat
      /\ Cardinality(Running') <= Cardinality(Running)
      /\ erpCall[c].pc = "running" => Cardinality(Running') = Cardinality(Running) - 1
  BY <1>1, <1>2, RunningMoves
<1>4. Cardinality(Running) + abandoned.running <= MaxConcurrent BY DEF BreakerInv
<1>5. /\ abandoned \in [line: 0 .. MaxAbandoned, running: 0 .. MaxConcurrent]
      /\ abandoned.running \in Nat /\ abandoned.line \in 0 .. MaxAbandoned
  BY <1>1 DEF BreakerTypeOK
<1>6. CASE UNCHANGED abandoned BY <1>3, <1>4, <1>5, <1>6, LimitTypes
<1>7. CASE erpCall[c].pc = "line"
           /\ abandoned' = [abandoned EXCEPT !.line = AtMost(@ + 1, MaxAbandoned)]
  <2>1. AtMost(abandoned.line + 1, MaxAbandoned) \in 0 .. MaxAbandoned
    BY <1>5, LimitTypes DEF AtMost
  <2>2. abandoned'.running = abandoned.running BY <1>5, <1>7
  <2>3. abandoned' \in [line: 0 .. MaxAbandoned, running: 0 .. MaxConcurrent]
    BY <1>5, <1>7, <2>1
  <2> QED BY <1>3, <1>4, <1>5, <2>2, <2>3, LimitTypes
<1>8. CASE erpCall[c].pc = "running" /\ abandoned' = [abandoned EXCEPT !.running = @ + 1]
  <2>1. abandoned'.running = abandoned.running + 1 BY <1>5, <1>8
  <2>2. Cardinality(Running') + abandoned'.running <= MaxConcurrent
    BY <1>3, <1>4, <1>5, <1>8, <2>1, LimitTypes
  <2>3. abandoned.running + 1 \in 0 .. MaxConcurrent
    BY <1>3, <1>5, <2>1, <2>2, LimitTypes
  <2>4. abandoned' \in [line: 0 .. MaxAbandoned, running: 0 .. MaxConcurrent]
    BY <1>5, <1>8, <2>3
  <2> QED BY <1>3, <2>2, <2>4
<1> QED BY <1>6, <1>7, <1>8

(* A call that succeeds, fails, or waits to try again. *)
LEMMA Stops ==
    ASSUME BreakerInv, NEW c \in ErpCall,
           Succeed(c) \/ NetworkError(c) \/ OtherError(c) \/ Timeout(c)
    PROVE  BreakerInv'
<1>1. BreakerTypeOK /\ IsFiniteSet(Running) /\ HalfOpenIsTested /\ OpenAfterFailures
  BY DEF BreakerInv
<1>2. RetryLater(c) \/ FinalFailure(c) \/ Succeed(c)
  BY DEF NetworkError, OtherError, Timeout
<1>3. PICK p \in {"idle", "backoff"}, n \in 0 .. MaxRetries :
        Attempt(c, p, n) /\ (p = "backoff" => n < MaxRetries)
  <2>1. erpCall[c].attempt \in 0 .. MaxRetries BY <1>1 DEF BreakerTypeOK
  <2>2. 0 \in 0 .. MaxRetries BY LimitTypes
  <2> QED BY <1>2, <2>1, <2>2, FinalMoves DEF RetryLater, Succeed
<1>4. p \in ErpCallPC /\ p # "running" BY DEF ErpCallPC
<1>5. /\ erpCall' \in [ErpCall -> CallRecord]
      /\ erpCall'[c].pc = p /\ erpCall'[c].attempt = n
      /\ \A d \in ErpCall \ {c} : erpCall'[d] = erpCall[d]
  BY <1>1, <1>3, <1>4, AttemptMoves
<1>6. /\ failureCount' \in 0 .. FailureThreshold
      /\ breaker' \in {"CLOSED", "OPEN", "HALF_OPEN"}
      /\ breaker' # "CLOSED" => failureCount' >= FailureThreshold
      /\ cooled' \in BOOLEAN
      /\ halfOpenRequests' \in 0 .. HalfOpenMax
      /\ testing' \subseteq ErpCall
  <2>1. CASE Succeed(c)
    BY <1>1, <2>1, LimitTypes
    DEF Succeed, CountAfterSuccess, BreakerTypeOK, OpenAfterFailures
  <2>2. CASE RetryLater(c) BY <1>1, <2>2 DEF RetryLater, BreakerTypeOK, OpenAfterFailures
  <2>3. CASE FinalFailure(c) BY <2>3, FinalMoves
  <2> QED BY <1>2, <2>1, <2>2, <2>3
<1>7. HalfOpenIsTested'
  <2>1. CASE Succeed(c) BY <1>1, <2>1 DEF Succeed, BreakerTypeOK, HalfOpenIsTested
  <2>2. CASE RetryLater(c)
    <3>1. "backoff" \in ErpCallPC /\ erpCall[c].attempt \in 0 .. MaxRetries
      BY <1>1 DEF ErpCallPC, BreakerTypeOK
    <3>2. erpCall'[c].pc = "backoff"
      BY <1>1, <2>2, <3>1, AttemptMoves DEF RetryLater
    <3>3. /\ testing \subseteq ErpCall /\ testing' = testing /\ breaker' = breaker
          /\ breaker = "HALF_OPEN" => \E d \in testing : erpCall[d].pc # "idle"
      BY <1>1, <2>2 DEF RetryLater, BreakerTypeOK, HalfOpenIsTested
    <3> QED BY <1>5, <3>2, <3>3 DEF HalfOpenIsTested
  <2>3. CASE FinalFailure(c) BY <2>3, FinalMoves DEF HalfOpenIsTested
  <2> QED BY <1>2, <2>1, <2>2, <2>3
<1>8. /\ IsFiniteSet(Running')
      /\ Cardinality(Running') + abandoned'.running <= MaxConcurrent
      /\ abandoned' \in [line: 0 .. MaxAbandoned, running: 0 .. MaxConcurrent]
  <2>1. CASE UNCHANGED abandoned BY <1>3, <2>1, LeftBehind
  <2>2. CASE Timeout(c) BY <1>3, <2>2, LeftBehind DEF Timeout, Trying
  <2> QED BY <2>1, <2>2 DEF Succeed, NetworkError, OtherError
<1>9. BreakerTypeOK' BY <1>5, <1>6, <1>8 DEF BreakerTypeOK, CallRecord
<1>10. \A d \in ErpCall : erpCall'[d].pc = "backoff" => erpCall'[d].attempt < MaxRetries
  BY <1>3, <1>5 DEF BreakerInv
<1>11. OpenAfterFailures' BY <1>6 DEF OpenAfterFailures
<1> QED BY <1>7, <1>8, <1>9, <1>10, <1>11 DEF BreakerInv

(* The attempts nobody waits for. *)
LEMMA AbandonedMoves ==
    ASSUME BreakerInv, AbandonedTakesPlace \/ AbandonedEnds
    PROVE  BreakerInv'
<1>1. BreakerTypeOK /\ IsFiniteSet(Running) BY DEF BreakerInv
<1>2. UNCHANGED <<breaker, failureCount, cooled, halfOpenRequests, erpCall, testing>>
  BY DEF AbandonedTakesPlace, AbandonedEnds
<1>3. Running' = Running BY <1>2 DEF Running
<1>4. /\ abandoned \in [line: 0 .. MaxAbandoned, running: 0 .. MaxConcurrent]
      /\ abandoned.running \in Nat /\ abandoned.line \in Nat
      /\ Cardinality(Running) \in Nat
      /\ Cardinality(Running) + abandoned.running <= MaxConcurrent
  BY <1>1, FS_CardinalityType DEF BreakerTypeOK, BreakerInv
<1>5. /\ abandoned' \in [line: 0 .. MaxAbandoned, running: 0 .. MaxConcurrent]
      /\ Cardinality(Running) + abandoned'.running <= MaxConcurrent
  <2>1. CASE AbandonedTakesPlace
    <3>1. Cardinality(Running) + abandoned.running < MaxConcurrent
      BY <2>1 DEF AbandonedTakesPlace, ActiveQueries, Running
    <3>2. abandoned' = [line |-> abandoned.line - 1, running |-> abandoned.running + 1]
          /\ abandoned.line > 0
      BY <2>1 DEF AbandonedTakesPlace
    <3>3. /\ abandoned.line - 1 \in 0 .. MaxAbandoned
          /\ abandoned.running + 1 \in 0 .. MaxConcurrent
      BY <1>4, <3>1, <3>2, LimitTypes
    <3> QED BY <1>4, <3>1, <3>2, <3>3, LimitTypes
  <2>2. CASE AbandonedEnds
    <3>1. abandoned.running > 0 /\ abandoned' = [abandoned EXCEPT !.running = @ - 1]
      BY <2>2 DEF AbandonedEnds
    <3>2. abandoned.running - 1 \in 0 .. MaxConcurrent BY <1>4, <3>1, LimitTypes
    <3>3. abandoned'.running = abandoned.running - 1 BY <1>4, <3>1
    <3>4. abandoned' \in [line: 0 .. MaxAbandoned, running: 0 .. MaxConcurrent]
      BY <1>4, <3>1, <3>2
    <3> QED BY <1>4, <3>1, <3>3, <3>4, LimitTypes
  <2> QED BY <2>1, <2>2
<1>6. BreakerTypeOK' BY <1>1, <1>2, <1>5 DEF BreakerTypeOK
<1> QED BY <1>2, <1>3, <1>5, <1>6
  DEF BreakerInv, HalfOpenIsTested, OpenAfterFailures

LEMMA BreakerStays ==
    ASSUME BreakerInv, Cool \/ UNCHANGED breakerVars PROVE BreakerInv'
<1>1. UNCHANGED <<breaker, failureCount, halfOpenRequests, erpCall, testing, abandoned>>
  BY DEF Cool, breakerVars
<1>2. cooled' \in BOOLEAN BY DEF BreakerInv, BreakerTypeOK, Cool, breakerVars
<1>3. BreakerTypeOK' BY <1>1, <1>2 DEF BreakerInv, BreakerTypeOK
<1>4. Running' = Running BY <1>1 DEF Running
<1> QED BY <1>1, <1>3, <1>4 DEF BreakerInv, HalfOpenIsTested, OpenAfterFailures

LEMMA BreakerStepInv == BreakerInv /\ [BreakerNext]_breakerVars => BreakerInv'
<1> SUFFICES ASSUME BreakerInv, [BreakerNext]_breakerVars PROVE BreakerInv' OBVIOUS
<1>1. CASE \E c \in ErpCall : BreakerStep(c) BY <1>1, GoesOn, Stops DEF BreakerStep
<1>2. CASE AbandonedTakesPlace \/ AbandonedEnds BY <1>2, AbandonedMoves
<1>3. CASE Cool \/ UNCHANGED breakerVars BY <1>3, BreakerStays
<1> QED BY <1>1, <1>2, <1>3 DEF BreakerNext

(* The protection of the queries keeps its invariant. *)
THEOREM BreakerInductive == BreakerSpec => []BreakerInv
BY BreakerInitInv, BreakerStepInv, PTL DEF BreakerSpec

(* Every count stays in its range: at no time do more attempts hold a      *)
(* place of the semaphore, the abandoned ones included, than it has.       *)
THEOREM BreakerTyping == BreakerSpec => []BreakerTypeOK
<1>1. BreakerInv => BreakerTypeOK BY DEF BreakerInv
<1> QED BY <1>1, BreakerInductive, PTL

(* A half-open breaker is never stuck: a test it admitted is in progress.  *)
THEOREM HalfOpenAlwaysTested == BreakerSpec => []HalfOpenIsTested
<1>1. BreakerInv => HalfOpenIsTested BY DEF BreakerInv
<1> QED BY <1>1, BreakerInductive, PTL

(* The breaker refuses only after as many final failures as its threshold. *)
THEOREM OpensOnlyAfterFailures == BreakerSpec => []OpenAfterFailures
<1>1. BreakerInv => OpenAfterFailures BY DEF BreakerInv
<1> QED BY <1>1, BreakerInductive, PTL
-----------------------------------------------------------------------------
(***************************************************************************)
(* The connections.  Whoever checks or destroys a connection, it was       *)
(* opened; while no two callers do so at a time, it is the cached one.     *)
(***************************************************************************)
Handling(c) == caller[c].pc \in {"checking", "destroying"}

WasOpened == {"open", "closing", "closed"}

CreationKept ==
    /\ \A c \in ConnCaller : caller[c].pc = "creating" => creation = c
    /\ creation # NoCaller => /\ caller[creation].pc = "creating"
                              /\ caller[creation].source \in DOMAIN sources
                              /\ sources[caller[creation].source] = "opening"
    /\ \A i \in DOMAIN sources :
         sources[i] = "opening" => /\ creation # NoCaller
                                   /\ i = caller[creation].source

UseKept ==
    /\ connection # 0 => sources[connection] \in WasOpened
    /\ \A c \in ConnCaller :
         Handling(c) => /\ caller[c].source \in DOMAIN sources
                    /\ sources[caller[c].source] \in WasOpened

Sole ==
    /\ \A c \in ConnCaller :
         /\ Handling(c) => caller[c].source = connection
         /\ caller[c].pc = "checking" => sources[connection] = "open"
         /\ caller[c].pc = "destroying" => sources[connection] = "closing"
    /\ \A c, d \in ConnCaller : Handling(c) /\ Handling(d) => c = d
    /\ creation # NoCaller => connection = 0
    /\ connection # 0 => sources[connection] \in {"open", "closing"}
    /\ connection # 0 /\ sources[connection] = "closing"
         => \E c \in ConnCaller : caller[c].pc = "destroying"
    /\ \A i \in DOMAIN sources \ undestroyed : sources[i] = "open" => i = connection

ConnInv == ConnectionsTypeOK /\ CreationKept /\ UseKept /\ (~checksRaced => Sole)

LEMMA ConnInitInv == ConnectionsInit => ConnInv
<1> SUFFICES ASSUME ConnectionsInit PROVE ConnInv OBVIOUS
<1>1. /\ sources = <<>> /\ connection = 0 /\ creation = NoCaller /\ checksRaced = FALSE
      /\ undestroyed = {}
      /\ sources \in Seq(SourceState) /\ Len(sources) = 0 /\ DOMAIN sources = {}
  BY DEF ConnectionsInit
<1>2. caller \in [ConnCaller -> [pc: CallerPC, source: 0 .. Len(sources)]]
  <2> DEFINE idle == [pc |-> "idle", source |-> 0]
  <2>1. 0 \in 0 .. Len(sources) /\ "idle" \in CallerPC BY <1>1 DEF CallerPC
  <2>2. idle \in [pc: CallerPC, source: 0 .. Len(sources)] BY <2>1
  <2>3. caller = [c \in ConnCaller |-> idle] BY DEF ConnectionsInit
  <2> HIDE DEF idle
  <2> QED BY <2>2, <2>3
<1>3. \A c \in ConnCaller : caller[c].pc = "idle" BY DEF ConnectionsInit
<1>4. ConnectionsTypeOK
  <2>1. checksRaced \in BOOLEAN BY <1>1
  <2>2. undestroyed \subseteq Nat BY <1>1
  <2> QED BY <1>1, <1>2, <2>1, <2>2 DEF ConnectionsTypeOK
<1>5. CreationKept /\ UseKept /\ Sole BY <1>1, <1>3 DEF CreationKept, UseKept, Sole, Handling
<1> QED BY <1>4, <1>5 DEF ConnInv

(* Caller(c, p, i) moves c alone. *)
LEMMA CallerMoves ==
    ASSUME NEW n \in Nat, NEW m \in Nat, n <= m,
           caller \in [ConnCaller -> [pc: CallerPC, source: 0 .. n]],
           NEW c \in ConnCaller, NEW p \in CallerPC, NEW i \in 0 .. m, Caller(c, p, i)
    PROVE  /\ caller' \in [ConnCaller -> [pc: CallerPC, source: 0 .. m]]
           /\ caller'[c].pc = p /\ caller'[c].source = i
           /\ \A d \in ConnCaller \ {c} : caller'[d] = caller[d]
<1>1. [pc |-> p, source |-> i] \in [pc: CallerPC, source: 0 .. m] OBVIOUS
<1>2. 0 .. n \subseteq 0 .. m OBVIOUS
<1>3. caller \in [ConnCaller -> [pc: CallerPC, source: 0 .. m]] BY <1>2
<1> DEFINE new == [pc |-> p, source |-> i]
<1>4. new.pc = p /\ new.source = i OBVIOUS
<1>5. caller' = [caller EXCEPT ![c] = new] BY DEF Caller
<1> HIDE DEF new
<1>6. new \in [pc: CallerPC, source: 0 .. m] BY <1>1 DEF new
<1> QED BY <1>3, <1>4, <1>5, <1>6

(* A caller that joins the creation in progress, or begins one. *)
LEMMA JoinMoves ==
    ASSUME ConnInv, NEW c \in ConnCaller, caller[c].pc # "creating",
           NEW states \in Seq(SourceState), Len(states) = Len(sources), Join(c, states)
    PROVE  /\ sources' \in Seq(SourceState)
           /\ Len(sources') \in Nat /\ Len(sources') >= Len(sources)
           /\ \A i \in 1 .. Len(sources) : sources'[i] = states[i]
           /\ caller' \in [ConnCaller -> [pc: CallerPC, source: 0 .. Len(sources')]]
           /\ \A d \in ConnCaller \ {c} : caller'[d] = caller[d]
           /\ \/ /\ creation # NoCaller /\ creation' = creation /\ creation # c
                 /\ Len(sources') = Len(sources)
                 /\ caller'[c].pc = "waiting"
              \/ /\ creation = NoCaller /\ creation' = c
                 /\ Len(sources') = Len(sources) + 1
                 /\ sources'[Len(sources) + 1] = "opening"
                 /\ caller'[c].pc = "creating"
                 /\ caller'[c].source = Len(sources) + 1
<1>1. /\ caller \in [ConnCaller -> [pc: CallerPC, source: 0 .. Len(sources)]]
      /\ Len(sources) \in Nat
      /\ creation # NoCaller => creation \in ConnCaller
  BY DEF ConnInv, ConnectionsTypeOK
<1>2. {"waiting", "creating"} \subseteq CallerPC BY DEF CallerPC
<1>3. CASE creation # NoCaller
  <2>1. /\ Caller(c, "waiting", caller[creation].source)
        /\ sources' = states /\ creation' = creation
    BY <1>3 DEF Join, CreationKnown
  <2>2. caller[creation].source \in 0 .. Len(sources) BY <1>1, <1>3
  <2>3. /\ caller' \in [ConnCaller -> [pc: CallerPC, source: 0 .. Len(sources)]]
        /\ caller'[c].pc = "waiting"
        /\ \A d \in ConnCaller \ {c} : caller'[d] = caller[d]
    BY <1>1, <1>2, <2>1, <2>2, CallerMoves
  <2>4. creation # c BY <1>3 DEF ConnInv, CreationKept
  <2> QED BY <1>1, <1>3, <2>1, <2>3, <2>4
<1>4. CASE creation = NoCaller
  <2>1. /\ Caller(c, "creating", Len(states) + 1)
        /\ sources' = Append(states, "opening") /\ creation' = c
    BY <1>4 DEF Join, CreationKnown
  <2>2. "opening" \in SourceState BY DEF SourceState
  <2>3. /\ sources' \in Seq(SourceState)
        /\ Len(sources') = Len(sources) + 1
        /\ \A i \in 1 .. Len(sources) : sources'[i] = states[i]
        /\ sources'[Len(sources) + 1] = "opening"
    BY <2>1, <2>2, AppendProperties
  <2>4. /\ caller' \in [ConnCaller -> [pc: CallerPC, source: 0 .. Len(sources) + 1]]
        /\ caller'[c].pc = "creating" /\ caller'[c].source = Len(sources) + 1
        /\ \A d \in ConnCaller \ {c} : caller'[d] = caller[d]
    BY <1>1, <1>2, <2>1, CallerMoves
  <2> QED BY <1>1, <1>4, <2>1, <2>3, <2>4
<1> QED BY <1>3, <1>4
LEMMA ConnTypes ==
    ASSUME ConnInv
    PROVE  /\ sources \in Seq(SourceState) /\ Len(sources) \in Nat
           /\ DOMAIN sources = 1 .. Len(sources)
           /\ \A i \in 1 .. Len(sources) : sources[i] \in SourceState
           /\ connection \in 0 .. Len(sources)
           /\ creation \in ConnCaller \cup {NoCaller}
           /\ caller \in [ConnCaller -> [pc: CallerPC, source: 0 .. Len(sources)]]
           /\ checksRaced \in BOOLEAN /\ undestroyed \subseteq Nat
BY LenProperties DEF ConnInv, ConnectionsTypeOK

(* Joining keeps the invariant: no stale connection is in use when it may. *)
LEMMA JoinKeeps ==
    ASSUME ConnInv, NEW c \in ConnCaller, caller[c].pc # "creating",
           NEW states \in Seq(SourceState), Len(states) = Len(sources), Join(c, states),
           \A i \in 1 .. Len(sources) :
             \/ states[i] = sources[i]
             \/ sources[i] \in WasOpened /\ states[i] \in {"open", "closed"},
           connection' = 0, UNCHANGED checksRaced,
           undestroyed' \subseteq Nat,
           ~checksRaced => /\ \A d \in ConnCaller \ {c} : ~Handling(d)
                           /\ \A i \in (1 .. Len(sources)) \ undestroyed' : states[i] # "open"
    PROVE  ConnInv'
<1>1. /\ sources' \in Seq(SourceState)
      /\ Len(sources') \in Nat /\ Len(sources') >= Len(sources)
      /\ \A i \in 1 .. Len(sources) : sources'[i] = states[i]
      /\ caller' \in [ConnCaller -> [pc: CallerPC, source: 0 .. Len(sources')]]
      /\ \A d \in ConnCaller \ {c} : caller'[d] = caller[d]
  BY JoinMoves
<1>2. \/ /\ creation # NoCaller /\ creation' = creation /\ creation # c
         /\ Len(sources') = Len(sources)
         /\ caller'[c].pc = "waiting"
      \/ /\ creation = NoCaller /\ creation' = c
         /\ Len(sources') = Len(sources) + 1
         /\ sources'[Len(sources) + 1] = "opening"
         /\ caller'[c].pc = "creating"
         /\ caller'[c].source = Len(sources) + 1
  BY JoinMoves
<1>3. /\ DOMAIN sources = 1 .. Len(sources) /\ DOMAIN sources' = 1 .. Len(sources')
      /\ Len(sources) \in Nat
      /\ creation \in ConnCaller \cup {NoCaller} /\ checksRaced \in BOOLEAN
  BY <1>1, ConnTypes, LenProperties
<1>4. ConnectionsTypeOK'
  <2>1. connection' \in 0 .. Len(sources') BY <1>1
  <2>2. creation' \in ConnCaller \cup {NoCaller} BY <1>2, <1>3
  <2>3. checksRaced' \in BOOLEAN BY <1>3
  <2> QED BY <1>1, <2>1, <2>2, <2>3 DEF ConnectionsTypeOK
<1>5. CreationKept'
  <2>1. /\ \A d \in ConnCaller : caller[d].pc = "creating" => creation = d
        /\ creation # NoCaller => /\ caller[creation].pc = "creating"
                                  /\ caller[creation].source \in 1 .. Len(sources)
                                  /\ sources[caller[creation].source] = "opening"
        /\ \A i \in 1 .. Len(sources) :
             sources[i] = "opening" => /\ creation # NoCaller
                                       /\ i = caller[creation].source
    BY <1>3 DEF ConnInv, CreationKept
  <2>2. \A i \in 1 .. Len(sources) : sources'[i] = "opening" <=> sources[i] = "opening"
    BY <1>1 DEF WasOpened
  <2>3. CASE creation # NoCaller /\ creation' = creation /\ creation # c
             /\ Len(sources') = Len(sources) /\ caller'[c].pc = "waiting"
    <3>1. creation \in ConnCaller \ {c} BY <1>3, <2>3
    <3>2. caller'[creation] = caller[creation] BY <1>1, <3>1
    <3> QED BY <1>1, <1>3, <2>1, <2>2, <2>3, <3>2 DEF CreationKept
  <2>4. CASE /\ creation = NoCaller /\ creation' = c
             /\ Len(sources') = Len(sources) + 1
             /\ sources'[Len(sources) + 1] = "opening"
             /\ caller'[c].pc = "creating"
             /\ caller'[c].source = Len(sources) + 1
    <3>1. \A d \in ConnCaller : caller'[d].pc = "creating" => d = c
      BY <1>1, <2>1, <2>4, ConnectionsAssumption
    <3>2. \A i \in DOMAIN sources' : sources'[i] = "opening" => i = Len(sources) + 1
      BY <1>3, <2>1, <2>2, <2>4
    <3>3. Len(sources) + 1 \in DOMAIN sources' BY <1>3, <2>4
    <3>4. c # NoCaller BY ConnectionsAssumption
    <3> QED BY <2>4, <3>1, <3>2, <3>3, <3>4 DEF CreationKept
  <2> QED BY <1>2, <2>3, <2>4
<1>6. UseKept'
  <2>1. SUFFICES ASSUME NEW d \in ConnCaller, Handling(d)'
                 PROVE  /\ caller'[d].source \in DOMAIN sources'
                        /\ sources'[caller'[d].source] \in WasOpened
    BY DEF UseKept
  <2>2. d # c BY <1>2, <2>1 DEF Handling
  <2>3. caller'[d] = caller[d] BY <1>1, <2>2
  <2>4. caller[d].source \in 1 .. Len(sources) /\ sources[caller[d].source] \in WasOpened
    BY <1>3, <2>1, <2>3 DEF Handling, ConnInv, UseKept
  <2> QED BY <1>1, <1>3, <2>3, <2>4 DEF WasOpened
<1>7. ~checksRaced' => Sole'
  <2>1. SUFFICES ASSUME ~checksRaced PROVE Sole' OBVIOUS
  <2>2. \A d \in ConnCaller : ~Handling(d)' BY <1>1, <1>2, <2>1 DEF Handling
  <2>3. \A d \in ConnCaller : caller'[d].pc \notin {"checking", "destroying"}
    BY <2>2 DEF Handling
  <2>4. \A i \in (1 .. Len(sources)) \ undestroyed' : sources'[i] # "open"
    BY <1>1, <2>1
  <2>5. \A i \in 1 .. Len(sources') : i \in 1 .. Len(sources) \/ sources'[i] = "opening"
    <3>1. Len(sources) \in Nat /\ Len(sources') \in Nat BY <1>1, <1>3
    <3>2. CASE Len(sources') = Len(sources) BY <3>2
    <3>3. CASE Len(sources') = Len(sources) + 1 /\ sources'[Len(sources) + 1] = "opening"
      BY <3>1, <3>3
    <3> QED BY <1>2, <3>2, <3>3
  <2>6. \A i \in DOMAIN sources' \ undestroyed' : sources'[i] # "open"
    BY <1>3, <2>4, <2>5
  <2> QED BY <2>2, <2>3, <2>6 DEF Sole
<1> QED BY <1>4, <1>5, <1>6, <1>7 DEF ConnInv

LEMMA MissKeeps ==
    ASSUME ConnInv, NEW c \in ConnCaller, MissCached(c) PROVE ConnInv'
<1>1. /\ caller[c].pc = "idle" /\ Join(c, sources) /\ connection' = 0
      /\ UNCHANGED <<checksRaced, undestroyed>> /\ sources \in Seq(SourceState)
      /\ undestroyed \subseteq Nat
  BY ConnTypes DEF MissCached
<1>2. ~checksRaced => /\ \A d \in ConnCaller \ {c} : ~Handling(d)
                      /\ \A i \in (1 .. Len(sources)) \ undestroyed' : sources[i] # "open"
  <2>1. SUFFICES ASSUME ~checksRaced
                 PROVE  /\ \A d \in ConnCaller \ {c} : ~Handling(d)
                        /\ \A i \in (1 .. Len(sources)) \ undestroyed' : sources[i] # "open"
    OBVIOUS
  <2>2. Sole /\ UseKept BY <2>1 DEF ConnInv
  <2>3. connection = 0 BY <2>2 DEF MissCached, Cached, Sole
  <2>4. DOMAIN sources = 1 .. Len(sources) /\ Len(sources) \in Nat BY ConnTypes
  <2> QED BY <1>1, <2>2, <2>3, <2>4 DEF Sole, UseKept
<1> QED BY <1>1, <1>2, JoinKeeps

LEMMA DestroyKeeps ==
    ASSUME ConnInv, NEW c \in ConnCaller, Destroy(c) \/ DestroyFails(c) PROVE ConnInv'
<1> DEFINE i == caller[c].source
<1>1. PICK state \in {"open", "closed"} :
        /\ caller[c].pc = "destroying" /\ connection' = 0
        /\ Join(c, [sources EXCEPT ![i] = state])
        /\ UNCHANGED checksRaced
        /\ undestroyed' = IF state = "open" THEN undestroyed \cup {i} ELSE undestroyed
  BY DEF Destroy, Destroyed, DestroyFails
<1> DEFINE states == [sources EXCEPT ![i] = state]
<1>2. Handling(c) BY <1>1 DEF Handling
<1>3. i \in 1 .. Len(sources) /\ sources[i] \in WasOpened
  BY <1>2, ConnTypes DEF ConnInv, UseKept
<1>4. /\ states \in Seq(SourceState) /\ Len(states) = Len(sources)
      /\ \A j \in 1 .. Len(sources) :
           states[j] = IF j = i THEN state ELSE sources[j]
  BY <1>3, ConnTypes, ExceptSeq DEF SourceState
<1>5. ~checksRaced =>
         /\ \A d \in ConnCaller \ {c} : ~Handling(d)
         /\ \A j \in (1 .. Len(sources)) \ undestroyed' : states[j] # "open"
  <2>1. SUFFICES ASSUME ~checksRaced
                 PROVE  /\ \A d \in ConnCaller \ {c} : ~Handling(d)
                        /\ \A j \in (1 .. Len(sources)) \ undestroyed' :
                             states[j] # "open"
    OBVIOUS
  <2>2. Sole BY <2>1 DEF ConnInv
  <2>3. i = connection BY <1>2, <2>2 DEF Sole
  <2>4. \A j \in (1 .. Len(sources)) \ undestroyed : sources[j] = "open" => j = i
    BY <2>2, <2>3, ConnTypes DEF Sole
  <2> QED BY <1>1, <1>2, <1>4, <2>2, <2>4 DEF Sole
<1>6. undestroyed' \subseteq Nat BY <1>1, <1>3, ConnTypes
<1>7. Join(c, states) BY <1>1
<1> HIDE DEF states
<1> QED BY <1>1, <1>3, <1>4, <1>5, <1>6, <1>7, JoinKeeps

(* A check of a connection that is cached, ends well, or fails. *)
LEMMA CheckKeeps ==
    ASSUME ConnInv, NEW c \in ConnCaller, CheckCached(c) PROVE ConnInv'
<1>1. /\ caller[c].pc = "idle" /\ connection # 0 /\ sources[connection] # "closed"
      /\ Caller(c, "checking", connection)
      /\ UNCHANGED <<sources, connection, creation, undestroyed>>
      /\ ~checksRaced' => ~checksRaced /\ Checking(connection) = {}
  BY DEF CheckCached, Cached
<1>2. "checking" \in CallerPC BY DEF CallerPC
<1>3. /\ caller' \in [ConnCaller -> [pc: CallerPC, source: 0 .. Len(sources)]]
      /\ caller'[c].pc = "checking" /\ caller'[c].source = connection
      /\ \A d \in ConnCaller \ {c} : caller'[d] = caller[d]
  BY <1>1, <1>2, ConnTypes, CallerMoves
<1>4. ConnectionsTypeOK'
  <2>1. checksRaced' \in BOOLEAN BY ConnTypes DEF CheckCached
  <2> QED BY <1>1, <1>3, <2>1, ConnTypes DEF ConnectionsTypeOK
<1>5. CreationKept'
  <2>1. CreationKept BY DEF ConnInv
  <2>2. creation # NoCaller => creation \in ConnCaller \ {c}
    BY <1>1, <2>1, ConnTypes DEF CreationKept
  <2>3. creation # NoCaller => caller'[creation] = caller[creation] BY <1>3, <2>2
  <2> QED BY <1>1, <1>3, <2>1, <2>3 DEF CreationKept
<1>6. connection \in DOMAIN sources /\ sources[connection] \in WasOpened
  BY <1>1, ConnTypes DEF ConnInv, UseKept
<1>7. UseKept' BY <1>1, <1>3, <1>6 DEF ConnInv, UseKept, Handling
<1>8. ~checksRaced' => Sole'
  <2>1. SUFFICES ASSUME ~checksRaced' PROVE Sole' OBVIOUS
  <2>2. Sole /\ Checking(connection) = {} BY <1>1, <2>1 DEF ConnInv
  <2>3. \A d \in ConnCaller : ~Handling(d) BY <2>2 DEF Sole, Handling, Checking
  <2>4. sources[connection] = "open"
    BY <1>1, <2>2, <2>3 DEF Sole, Handling
  <2>5. \A d \in ConnCaller : Handling(d)' => d = c BY <1>3, <2>3 DEF Handling
  <2>6. \A d \in ConnCaller \ {c} : caller'[d].pc \notin {"checking", "destroying"}
    BY <1>3, <2>3 DEF Handling
  <2>7. creation # NoCaller => connection = 0 BY <2>2 DEF Sole
  <2>8. \A i \in DOMAIN sources \ undestroyed : sources[i] = "open" => i = connection
    BY <2>2 DEF Sole
  <2> QED BY <1>1, <1>3, <2>4, <2>5, <2>6, <2>7, <2>8 DEF Sole
<1> QED BY <1>4, <1>5, <1>7, <1>8 DEF ConnInv

LEMMA CheckEndsKeeps ==
    ASSUME ConnInv, NEW c \in ConnCaller, CheckSucceeds(c) PROVE ConnInv'
<1>1. /\ caller[c].pc = "checking" /\ Caller(c, "answered", caller[c].source)
      /\ UNCHANGED <<sources, connection, creation, checksRaced, undestroyed>>
      /\ sources[caller[c].source] = "open"
  BY DEF CheckSucceeds
<1>2. "answered" \in CallerPC /\ caller[c].source \in 0 .. Len(sources)
  BY ConnTypes DEF CallerPC
<1>3. /\ caller' \in [ConnCaller -> [pc: CallerPC, source: 0 .. Len(sources)]]
      /\ caller'[c].pc = "answered"
      /\ \A d \in ConnCaller \ {c} : caller'[d] = caller[d]
  <2>1. /\ Len(sources) \in Nat
        /\ caller \in [ConnCaller -> [pc: CallerPC, source: 0 .. Len(sources)]]
    BY ConnTypes
  <2> QED BY <1>1, <1>2, <2>1, CallerMoves
<1>4. ConnectionsTypeOK' BY <1>1, <1>3, ConnTypes DEF ConnectionsTypeOK
<1>5. CreationKept'
  <2>1. CreationKept BY DEF ConnInv
  <2>2. creation # NoCaller => creation \in ConnCaller \ {c}
    BY <1>1, <2>1, ConnTypes DEF CreationKept
  <2>3. creation # NoCaller => caller'[creation] = caller[creation] BY <1>3, <2>2
  <2> QED BY <1>1, <1>3, <2>1, <2>3 DEF CreationKept
<1>6. UseKept' BY <1>1, <1>3 DEF ConnInv, UseKept, Handling
<1>7. ~checksRaced' => Sole'
  <2>1. SUFFICES ASSUME ~checksRaced PROVE Sole' BY <1>1
  <2>2. Sole BY <2>1 DEF ConnInv
  <2>3. sources[connection] = "open" BY <1>1, <2>2 DEF Sole
  <2> QED BY <1>1, <1>3, <2>2, <2>3 DEF Sole, Handling
<1> QED BY <1>4, <1>5, <1>6, <1>7 DEF ConnInv

LEMMA CheckFailsKeeps ==
    ASSUME ConnInv, NEW c \in ConnCaller, CheckFails(c) PROVE ConnInv'
<1> DEFINE i == caller[c].source
<1>1. caller[c].pc = "checking" /\ UNCHANGED <<checksRaced, undestroyed>> BY DEF CheckFails
<1>2. i \in 1 .. Len(sources) /\ sources[i] \in WasOpened
  BY <1>1, ConnTypes DEF ConnInv, UseKept, Handling
<1>3. CASE sources[i] = "closed"
  <2>1. connection' = 0 /\ Join(c, sources) BY <1>3 DEF CheckFails
  <2>2. checksRaced
    <3>1. SUFFICES ASSUME ~checksRaced PROVE FALSE OBVIOUS
    <3>2. Sole BY <3>1 DEF ConnInv
    <3> QED BY <1>1, <1>3, <3>2 DEF Sole, Handling
  <2> QED BY <1>1, <2>1, <2>2, ConnTypes, JoinKeeps
<1>4. CASE sources[i] # "closed"
  <2>1. /\ sources' = [sources EXCEPT ![i] = "closing"] /\ Caller(c, "destroying", i)
        /\ UNCHANGED <<connection, creation>>
    BY <1>4 DEF CheckFails
  <2>2. /\ sources' \in Seq(SourceState) /\ Len(sources') = Len(sources)
        /\ \A j \in 1 .. Len(sources) :
             sources'[j] = IF j = i THEN "closing" ELSE sources[j]
    BY <1>2, <2>1, ConnTypes, ExceptSeq DEF SourceState
  <2>3. "destroying" \in CallerPC BY DEF CallerPC
  <2>4. /\ caller' \in [ConnCaller -> [pc: CallerPC, source: 0 .. Len(sources)]]
        /\ caller'[c].pc = "destroying" /\ caller'[c].source = i
        /\ \A d \in ConnCaller \ {c} : caller'[d] = caller[d]
    BY <1>2, <2>1, <2>3, ConnTypes, CallerMoves
  <2>5. /\ DOMAIN sources = 1 .. Len(sources) /\ DOMAIN sources' = 1 .. Len(sources)
        /\ Len(sources) \in Nat
    BY <2>2, ConnTypes, LenProperties
  <2>6. ConnectionsTypeOK'
    BY <1>1, <2>1, <2>2, <2>4, ConnTypes DEF ConnectionsTypeOK
  <2>7. CreationKept'
    <3>1. CreationKept BY DEF ConnInv
    <3>2. creation # NoCaller => creation \in ConnCaller \ {c}
      BY <1>1, <3>1, ConnTypes DEF CreationKept
    <3>3. creation # NoCaller => caller'[creation] = caller[creation] BY <2>4, <3>2
    <3>4. \A j \in 1 .. Len(sources) : sources'[j] = "opening" <=> sources[j] = "opening"
      BY <1>2, <2>2 DEF WasOpened
    <3> QED BY <2>1, <2>4, <2>5, <3>1, <3>3, <3>4 DEF CreationKept
  <2>8. \A j \in 1 .. Len(sources) : sources[j] \in WasOpened => sources'[j] \in WasOpened
    BY <2>2 DEF WasOpened
  <2>9. UseKept'
    <3>1. connection' # 0 => sources'[connection'] \in WasOpened
      BY <2>1, <2>8, ConnTypes DEF ConnInv, UseKept
    <3>2. sources'[i] \in WasOpened BY <1>2, <2>2 DEF WasOpened
    <3> QED BY <1>2, <2>4, <2>5, <2>8, <3>1, <3>2 DEF ConnInv, UseKept, Handling
  <2>10. ~checksRaced' => Sole'
    <3>1. SUFFICES ASSUME ~checksRaced PROVE Sole' BY <1>1
    <3>2. Sole BY <3>1 DEF ConnInv
    <3>3. i = connection BY <1>1, <3>2 DEF Sole, Handling
    <3>4. \A d \in ConnCaller \ {c} : caller'[d].pc \notin {"checking", "destroying"}
      BY <1>1, <2>4, <3>2 DEF Sole, Handling
    <3>5. sources'[connection] = "closing" BY <1>2, <2>2, <3>3
    <3>6. \A j \in DOMAIN sources' \ undestroyed' : sources'[j] # "open"
      BY <1>1, <2>2, <2>5, <3>2, <3>3 DEF Sole
    <3>7. creation' # NoCaller => connection' = 0 BY <2>1, <3>2 DEF Sole
    <3> QED BY <2>1, <2>4, <3>3, <3>4, <3>5, <3>6, <3>7 DEF Sole, Handling
  <2> QED BY <2>6, <2>7, <2>9, <2>10 DEF ConnInv
<1> QED BY <1>3, <1>4
(* A creation ends: it was the only one, and nothing was cached meanwhile  *)
(* unless two callers had checked one connection.                          *)
LEMMA EndKeeps ==
    ASSUME ConnInv, NEW c \in ConnCaller, CreationSucceeds(c) \/ CreationFails(c)
    PROVE  ConnInv'
<1> DEFINE i == caller[c].source
<1>1. PICK p \in {"answered", "refused"}, state \in {"open", "refused"} :
        /\ EndCreation(c, p, state)
        /\ \/ connection' = i /\ state = "open"
           \/ connection' = connection /\ state = "refused"
  BY DEF CreationSucceeds, CreationFails
<1>2. /\ caller[c].pc = "creating" /\ UNCHANGED <<checksRaced, undestroyed>> /\ creation' = NoCaller
      /\ sources' = [sources EXCEPT ![i] = state]
      /\ caller' = [d \in ConnCaller |->
                      IF d = c \/ caller[d] = [pc |-> "waiting", source |-> i]
                      THEN [pc |-> p, source |-> i] ELSE caller[d]]
  BY <1>1 DEF EndCreation
<1>3. creation = c /\ c # NoCaller
  BY <1>2, ConnectionsAssumption DEF ConnInv, CreationKept
<1>4. i \in 1 .. Len(sources) /\ sources[i] = "opening"
  BY <1>3, ConnTypes DEF ConnInv, CreationKept
<1>5. state \in SourceState /\ p \in CallerPC BY DEF SourceState, CallerPC
<1>6. /\ sources' \in Seq(SourceState) /\ Len(sources') = Len(sources)
      /\ \A j \in 1 .. Len(sources) : sources'[j] = IF j = i THEN state ELSE sources[j]
  BY <1>2, <1>4, <1>5, ConnTypes, ExceptSeq
<1>7. /\ DOMAIN sources = 1 .. Len(sources) /\ DOMAIN sources' = 1 .. Len(sources)
      /\ Len(sources) \in Nat
  BY <1>6, ConnTypes, LenProperties
<1>8. /\ caller' \in [ConnCaller -> [pc: CallerPC, source: 0 .. Len(sources)]]
      /\ \A d \in ConnCaller : caller'[d] = caller[d] \/ caller'[d].pc = p
      /\ caller'[c].pc = p
  <2> DEFINE ended == [pc |-> p, source |-> i]
  <2>1. ended \in [pc: CallerPC, source: 0 .. Len(sources)] /\ ended.pc = p
    BY <1>4, <1>5
  <2>2. caller' = [d \in ConnCaller |->
                     IF d = c \/ caller[d] = [pc |-> "waiting", source |-> i]
                     THEN ended ELSE caller[d]]
    BY <1>2
  <2> HIDE DEF ended
  <2>3. \A d \in ConnCaller :
          caller'[d] = IF d = c \/ caller[d] = [pc |-> "waiting", source |-> i]
                       THEN ended ELSE caller[d]
    BY <2>2
  <2>4. \A d \in ConnCaller : caller'[d] \in {ended, caller[d]} BY <2>3
  <2>5. caller'[c] = ended BY <2>3
  <2>6. \A d \in ConnCaller : caller[d] \in [pc: CallerPC, source: 0 .. Len(sources)]
    BY ConnTypes
  <2>7. \A d \in ConnCaller : caller'[d] \in [pc: CallerPC, source: 0 .. Len(sources)]
    BY <2>1, <2>4, <2>6
  <2>8. caller' \in [ConnCaller -> [pc: CallerPC, source: 0 .. Len(sources)]]
    <3>1. DOMAIN caller' = ConnCaller BY <2>2
    <3>2. caller' = [d \in ConnCaller |-> caller'[d]] BY <2>2
    <3> QED BY <2>7, <3>2
  <2> QED BY <2>1, <2>4, <2>5, <2>8
<1>9. ConnectionsTypeOK'
  <2>1. connection' \in 0 .. Len(sources) BY <1>1, <1>4, ConnTypes
  <2>2. checksRaced' \in BOOLEAN BY <1>2, ConnTypes
  <2> QED BY <1>2, <1>6, <1>8, <2>1, <2>2, ConnTypes DEF ConnectionsTypeOK
<1>10. CreationKept'
  <2>1. \A d \in ConnCaller : caller'[d].pc # "creating"
    <3>1. \A d \in ConnCaller : caller[d].pc = "creating" => d = c
      BY <1>3 DEF ConnInv, CreationKept
    <3> QED BY <1>8, <3>1
  <2>2. \A j \in 1 .. Len(sources) : sources[j] = "opening" => j = i
    BY <1>3, <1>7 DEF ConnInv, CreationKept
  <2>3. \A j \in DOMAIN sources' : sources'[j] # "opening" BY <1>6, <1>7, <2>2
  <2> QED BY <1>2, <2>1, <2>3 DEF CreationKept
<1>11. UseKept'
  <2>1. \A j \in 1 .. Len(sources) : sources[j] \in WasOpened => sources'[j] = sources[j]
    BY <1>4, <1>6 DEF WasOpened
  <2>2. \A d \in ConnCaller : Handling(d)' => caller'[d] = caller[d] /\ Handling(d)
    BY <1>8 DEF Handling
  <2>3. connection' # 0 => sources'[connection'] \in WasOpened
    <3>1. CASE connection' = i /\ state = "open" BY <1>4, <1>6, <3>1 DEF WasOpened
    <3>2. CASE connection' = connection
      BY <2>1, <3>2, ConnTypes DEF ConnInv, UseKept
    <3> QED BY <1>1, <3>1, <3>2
  <2> QED BY <1>7, <2>1, <2>2, <2>3 DEF ConnInv, UseKept
<1>12. ~checksRaced' => Sole'
  <2>1. SUFFICES ASSUME ~checksRaced PROVE Sole' BY <1>2
  <2>2. Sole /\ UseKept BY <2>1 DEF ConnInv
  <2>3. connection = 0 BY <1>3, <2>2 DEF Sole
  <2>4. \A d \in ConnCaller : ~Handling(d) BY <1>7, <2>2, <2>3 DEF Sole, UseKept
  <2>5. \A d \in ConnCaller : caller'[d].pc \notin {"checking", "destroying"}
    BY <1>8, <2>4 DEF Handling
  <2>6. \A j \in DOMAIN sources' \ undestroyed' : sources'[j] = "open" => j = connection'
    BY <1>1, <1>2, <1>6, <1>7, <2>2, <2>3 DEF Sole
  <2>7. connection' # 0 => sources'[connection'] = "open" BY <1>1, <1>4, <1>6, <2>3
  <2> QED BY <1>2, <2>5, <2>6, <2>7 DEF Sole, Handling
<1> QED BY <1>9, <1>10, <1>11, <1>12 DEF ConnInv

LEMMA ConnStepInv == ConnInv /\ [ConnectionsNext]_connVars => ConnInv'
<1> SUFFICES ASSUME ConnInv, [ConnectionsNext]_connVars PROVE ConnInv' OBVIOUS
<1>1. CASE ConnectionsNext
  BY <1>1, CheckKeeps, MissKeeps, CheckEndsKeeps, CheckFailsKeeps, DestroyKeeps, EndKeeps
  DEF ConnectionsNext, ConnectionStep
<1>2. CASE UNCHANGED connVars
  BY <1>2 DEF connVars, ConnInv, ConnectionsTypeOK, CreationKept, UseKept, Sole, Handling
<1> QED BY <1>1, <1>2

(* The connections of a country keep their invariant. *)
THEOREM ConnectionsInductive == ConnectionsSpec => []ConnInv
BY ConnInitInv, ConnStepInv, PTL DEF ConnectionsSpec

(* Whatever the callers' interleaving, the cache, the creation in progress *)
(* and the callers name connections that were made.                        *)
THEOREM ConnectionsTyping == ConnectionsSpec => []ConnectionsTypeOK
<1>1. ConnInv => ConnectionsTypeOK BY DEF ConnInv
<1> QED BY <1>1, ConnectionsInductive, PTL

(* One connection at most is being opened, however many callers miss the   *)
(* cache or find the connection stale at once.                             *)
THEOREM AlwaysOneOpening == ConnectionsSpec => []OneOpening
<1>1. ConnInv => OneOpening BY DEF ConnInv, CreationKept, OneOpening
<1> QED BY <1>1, ConnectionsInductive, PTL

(* Unless two callers checked one connection at the same time, the only    *)
(* connections that stay open without being the cached one are those of    *)
(* which a destruction failed.                                             *)
THEOREM NoConnectionLeft == ConnectionsSpec => []OpenIsCached
<1>1. ConnInv => OpenIsCached BY DEF ConnInv, Sole, OpenIsCached
<1> QED BY <1>1, ConnectionsInductive, PTL
=============================================================================
