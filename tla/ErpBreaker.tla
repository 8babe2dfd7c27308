----------------------------- MODULE ErpBreaker -----------------------------
(***************************************************************************)
(* executeQueryWithProtection of ErpDataService (src/erp/services/         *)
(* erp-data.service.ts): the circuit breaker, the retries and the          *)
(* semaphore around the queries of the ERP database.                       *)
(*                                                                         *)
(* A call is admitted once, and may then retry for minutes without asking  *)
(* the breaker again.  An attempt that times out is abandoned, not         *)
(* cancelled: its query goes on and keeps its place in the semaphore.      *)
(*                                                                         *)
(* The failure counts of the network and of SQL never reach their          *)
(* thresholds (5 and 10) before the total reaches its own (5), and are     *)
(* reset with it: the total alone is kept here, up to the threshold.       *)
(***************************************************************************)
EXTENDS Naturals, FiniteSets

CONSTANTS
    ErpCall,          \* callers, each with one call at a time
    FailureThreshold, \* FAILURE_THRESHOLD
    HalfOpenMax,      \* HALF_OPEN_MAX_REQUESTS
    MaxRetries,       \* MAX_RETRIES_NETWORK
    MaxConcurrent,    \* MAX_CONCURRENT_QUERIES
    MaxAbandoned      \* bound: abandoned attempts still waiting are counted up to it

ASSUME BreakerAssumption ==
    /\ {FailureThreshold, HalfOpenMax, MaxRetries, MaxConcurrent} \subseteq Nat \ {0}
    /\ MaxAbandoned \in Nat

VARIABLES
    breaker,          \* circuitBreakerState
    failureCount,
    cooled,           \* CIRCUIT_RESET_TIMEOUT has passed since the last failure
    halfOpenRequests,
    erpCall,          \* where each call is, and its attempt
    testing,          \* the calls admitted since the breaker was last half open
    abandoned         \* attempts nobody waits for: in line, and running

breakerVars == <<breaker, failureCount, cooled, halfOpenRequests, erpCall, testing,
                 abandoned>>

BreakerInit ==
    /\ breaker = "CLOSED"
    /\ failureCount = 0
    /\ cooled = FALSE
    /\ halfOpenRequests = 0
    /\ erpCall = [c \in ErpCall |-> [pc |-> "idle", attempt |-> 0]]
    /\ testing = {}
    /\ abandoned = [line |-> 0, running |-> 0]

ErpCallPC == {"idle", "line", "running", "backoff"}

Trying(c) == erpCall[c].pc \in {"line", "running"}

Attempt(c, p, n) == erpCall' = [erpCall EXCEPT ![c] = [pc |-> p, attempt |-> n]]

AtMost(n, m) == IF n < m THEN n ELSE m

-----------------------------------------------------------------------------
(* isCircuitOpen, and the tests a half-open breaker admits.  A refused     *)
(* call is over at once.                                                   *)
BecomesHalfOpen == breaker = "OPEN" /\ cooled

AdmitClosed(c) ==
    /\ erpCall[c].pc = "idle"
    /\ breaker = "CLOSED"
    /\ Attempt(c, "line", 1)
    /\ UNCHANGED <<breaker, failureCount, cooled, halfOpenRequests, testing, abandoned>>

AdmitTest(c) ==
    /\ erpCall[c].pc = "idle"
    /\ \/ BecomesHalfOpen
       \/ breaker = "HALF_OPEN" /\ halfOpenRequests < HalfOpenMax
    /\ breaker' = "HALF_OPEN"
    /\ halfOpenRequests' = IF BecomesHalfOpen THEN 1 ELSE halfOpenRequests + 1
    /\ testing' = IF BecomesHalfOpen THEN {c} ELSE testing \cup {c}
    /\ Attempt(c, "line", 1)
    /\ UNCHANGED <<failureCount, cooled, abandoned>>

(* executeWithSemaphore: every 100 ms those in line look for a place.      *)
ActiveQueries ==
    Cardinality({c \in ErpCall : erpCall[c].pc = "running"}) + abandoned.running

TakePlace(c) ==
    /\ erpCall[c].pc = "line"
    /\ ActiveQueries < MaxConcurrent
    /\ Attempt(c, "running", erpCall[c].attempt)
    /\ UNCHANGED <<breaker, failureCount, cooled, halfOpenRequests, testing, abandoned>>

AbandonedTakesPlace ==
    /\ abandoned.line > 0
    /\ ActiveQueries < MaxConcurrent
    /\ abandoned' = [line |-> abandoned.line - 1, running |-> abandoned.running + 1]
    /\ UNCHANGED <<breaker, failureCount, cooled, halfOpenRequests, erpCall, testing>>

AbandonedEnds ==
    /\ abandoned.running > 0
    /\ abandoned' = [abandoned EXCEPT !.running = @ - 1]
    /\ UNCHANGED <<breaker, failureCount, cooled, halfOpenRequests, erpCall, testing>>

(* Mutant: a success resets the count, whatever the breaker. *)
CountAfterSuccessAlways == 0

(* recordSuccess: a half-open breaker is closed, whoever succeeded; an     *)
(* open one ignores it.                                                    *)
CountAfterSuccess == IF breaker = "OPEN" THEN failureCount ELSE 0

Succeed(c) ==
    /\ erpCall[c].pc = "running"
    /\ failureCount' = CountAfterSuccess
    /\ breaker' = IF breaker = "HALF_OPEN" THEN "CLOSED" ELSE breaker
    /\ halfOpenRequests' = IF breaker = "HALF_OPEN" THEN 0 ELSE halfOpenRequests
    /\ testing' = testing \ {c}
    /\ Attempt(c, "idle", 0)
    /\ UNCHANGED <<cooled, abandoned>>

(* Mutant: a test that fails leaves the breaker half open. *)
AfterFailureHalfOpen(count) ==
    IF breaker # "HALF_OPEN" /\ count >= FailureThreshold THEN "OPEN" ELSE breaker

(* recordFailure.                                                          *)
AfterFailure(count) ==
    IF breaker = "HALF_OPEN" \/ count >= FailureThreshold THEN "OPEN" ELSE breaker

FinalFailure(c) ==
    LET count == AtMost(failureCount + 1, FailureThreshold)
    IN  /\ failureCount' = count
        /\ breaker' = AfterFailure(count)
        /\ cooled' = FALSE
        /\ testing' = testing \ {c}
        /\ Attempt(c, "idle", 0)
        /\ UNCHANGED halfOpenRequests

(* An error of the network is retried after a delay, up to its limit; any  *)
(* other is final.                                                         *)
RetryLater(c) ==
    /\ erpCall[c].attempt < MaxRetries
    /\ Attempt(c, "backoff", erpCall[c].attempt)
    /\ UNCHANGED <<breaker, failureCount, cooled, halfOpenRequests, testing>>

NetworkError(c) ==
    /\ erpCall[c].pc = "running"
    /\ RetryLater(c) \/ (erpCall[c].attempt >= MaxRetries /\ FinalFailure(c))
    /\ UNCHANGED abandoned

OtherError(c) ==
    /\ erpCall[c].pc = "running"
    /\ FinalFailure(c)
    /\ UNCHANGED abandoned

(* The attempt loses the race with its timeout, which counts as an error   *)
(* of the network; what it was doing goes on.                              *)
Timeout(c) ==
    /\ Trying(c)
    /\ RetryLater(c) \/ (erpCall[c].attempt >= MaxRetries /\ FinalFailure(c))
    /\ abandoned' = IF erpCall[c].pc = "line"
                    THEN [abandoned EXCEPT !.line = AtMost(@ + 1, MaxAbandoned)]
                    ELSE [abandoned EXCEPT !.running = @ + 1]

(* Mutant: the attempt is not counted. *)
RetryUncounted(c) ==
    /\ erpCall[c].pc = "backoff"
    /\ Attempt(c, "line", erpCall[c].attempt)
    /\ UNCHANGED <<breaker, failureCount, cooled, halfOpenRequests, testing, abandoned>>

Retry(c) ==
    /\ erpCall[c].pc = "backoff"
    /\ Attempt(c, "line", erpCall[c].attempt + 1)
    /\ UNCHANGED <<breaker, failureCount, cooled, halfOpenRequests, testing, abandoned>>

Cool ==
    /\ ~cooled
    /\ cooled' = TRUE
    /\ UNCHANGED <<breaker, failureCount, halfOpenRequests, erpCall, testing, abandoned>>

BreakerStep(c) ==
    \/ AdmitClosed(c)
    \/ AdmitTest(c)
    \/ TakePlace(c)
    \/ Succeed(c)
    \/ NetworkError(c)
    \/ OtherError(c)
    \/ Timeout(c)
    \/ Retry(c)

BreakerNext ==
    \/ \E c \in ErpCall : BreakerStep(c)
    \/ AbandonedTakesPlace
    \/ AbandonedEnds
    \/ Cool

(* The timers fire.  Nothing is assumed of the database.                   *)
BreakerFairness ==
    \A c \in ErpCall : WF_breakerVars(Timeout(c)) /\ WF_breakerVars(Retry(c))

BreakerSpec == BreakerInit /\ [][BreakerNext]_breakerVars /\ BreakerFairness

-----------------------------------------------------------------------------
BreakerTypeOK ==
    /\ breaker \in {"CLOSED", "OPEN", "HALF_OPEN"}
    /\ failureCount \in 0 .. FailureThreshold
    /\ cooled \in BOOLEAN
    /\ halfOpenRequests \in 0 .. HalfOpenMax
    /\ erpCall \in [ErpCall -> [pc: ErpCallPC, attempt: 0 .. MaxRetries]]
    /\ testing \subseteq ErpCall
    /\ abandoned \in [line: 0 .. MaxAbandoned, running: 0 .. MaxConcurrent]

(* A half-open breaker is never stuck: a test it admitted is still in      *)
(* progress and will open or close it, however late the calls admitted     *)
(* before it opened succeed or fail.                                       *)
HalfOpenIsTested == breaker = "HALF_OPEN" => \E c \in testing : erpCall[c].pc # "idle"

(* The breaker refuses calls only after as many calls as the threshold     *)
(* have failed for good since the last success it took note of.            *)
OpenAfterFailures == breaker # "CLOSED" => failureCount >= FailureThreshold

(* Every query is answered, even by a database that never does: abandoned  *)
(* attempts that hold every place of the semaphore delay the others until  *)
(* they time out, and not longer.                                          *)
QueryIsAnswered ==
    \A c \in ErpCall : (erpCall[c].pc # "idle") ~> (erpCall[c].pc = "idle")
=============================================================================
