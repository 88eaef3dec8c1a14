-------------------------- MODULE ExecutionChecker --------------------------
(***************************************************************************)
(* BaseLib/Strategy/ExecutionChecker.cpp with BaseLib/Status and            *)
(* BaseLib/Policy: when a task may run, as functions of its ExecutionStatus *)
(* and its policies.                                                        *)
(*                                                                         *)
(* A status is a record: state; attempts and successes, the counts; failed, *)
(* whether the last failure started after the last success; succeeded,      *)
(* whether the run that began last has succeeded; age, the time since the   *)
(* task last began, or since it was created.  A policy is a record: kind,   *)
(* min and max (Attempt), initial and period (Interval), retryInitial and   *)
(* retryPeriod (RetryInterval), timeout.                                    *)
(***************************************************************************)
EXTENDS Integers

CONSTANT Infinite    \* Duration::Infinite(), longer than any other duration

ASSUME InfiniteAssumption == Infinite \in Nat \ {0}

Durations == 0..Infinite
States == {"NO", "STARTING", "STARTED", "SUSPENDED", "RESUMED", "CANCELLED",
           "FAILURE", "STOPPED", "INTERRUPTED"}
Kinds == {"UNTIL_SUCCESS", "NUM_SUCCESSFUL_TIMES", "FOREVER"}

StatusType ==
  [state : States, attempts : Nat, successes : Nat, failed : BOOLEAN,
   succeeded : BOOLEAN, age : Nat]

PolicyType ==
  [kind : Kinds, min : Nat, max : Nat, initial : Durations, period : Durations,
   retryInitial : Durations, retryPeriod : Durations, timeout : Durations]

Lesser(a, b) == IF a <= b THEN a ELSE b
Remaining(d, age) == IF d > age THEN d - age ELSE 0

-----------------------------------------------------------------------------
(* ExecutionStatus.                                                        *)

Fresh == [state |-> "NO", attempts |-> 0, successes |-> 0, failed |-> FALSE,
          succeeded |-> FALSE, age |-> 0]

\* Mutant: a task that was triggered, but has not begun, does not count.
IsBegun(s) == s.state \in {"STARTED", "INTERRUPTED"}

IsExecuting(s) == s.state \in {"STARTED", "STARTING", "INTERRUPTED"}

Start(s) ==
  [s EXCEPT !.state = "STARTED", !.attempts = @ + 1, !.succeeded = FALSE, !.age = 0]

\* Mutant: the state stays STARTED.
SuccessUnmarked(s) ==
  [s EXCEPT !.successes = @ + 1, !.failed = FALSE, !.succeeded = TRUE]

Success(s) ==
  [s EXCEPT !.state = "STOPPED", !.successes = @ + 1, !.failed = FALSE,
            !.succeeded = TRUE]

\* ExecutionCount::Success asserts that no status has more successes than starts.  One
\* that is reset during a run may, as in CommandController; in ThreadPool none is reset
\* and every success follows a start of its own.
Overcounts(s) == s.successes >= s.attempts

\* A failure that follows a success of the same run has the same time.
Failure(s, state) == [s EXCEPT !.state = state, !.failed = ~s.succeeded]

-----------------------------------------------------------------------------
(* The strategies.                                                         *)

IsInInterval(s, initial, period) ==
  /\ s.state # "SUSPENDED"
  /\ \/ s.attempts = 0 /\ s.age >= initial
     \/ s.age >= period

IsInRetryInterval(s, p) == s.failed /\ IsInInterval(s, p.retryInitial, p.retryPeriod)

IsInAttempt(s, p) ==
  /\ s.state # "CANCELLED"
  /\ \/ p.kind = "FOREVER"
     \/ p.kind = "NUM_SUCCESSFUL_TIMES" /\ s.successes < p.min /\ s.attempts < p.max
     \/ p.kind = "UNTIL_SUCCESS" /\ s.successes = 0 /\ s.attempts < p.max

IsReadyToExecute(s, p) ==
  /\ IsInAttempt(s, p)
  /\ IsInInterval(s, p.initial, p.period) \/ IsInRetryInterval(s, p)

IsTimeout(s, p) == IsExecuting(s) /\ s.age >= p.timeout

\* Mutant: the initial delay for every run.
UntilFirstExecution(s, initial, period) ==
  IF s.state = "SUSPENDED" THEN Infinite ELSE Remaining(initial, s.age)

\* ComputeTimeUntilNextExecution
UntilExecution(s, initial, period) ==
  IF s.state = "SUSPENDED" THEN Infinite
  ELSE Remaining(IF s.attempts = 0 THEN initial ELSE period, s.age)

\* ComputeTimeUntilNextRetry
UntilRetry(s, p) ==
  IF IsInRetryInterval(s, p) THEN UntilExecution(s, p.retryInitial, p.retryPeriod)
  ELSE Infinite

\* ComputeTimeUntilTimeout, which is asked about tasks not interrupted yet.
UntilTimeout(s, p) ==
  IF s.state \in {"STARTED", "STARTING"} THEN Remaining(p.timeout, s.age)
  ELSE Infinite

\* ComputeEarliestReadyIn of a status that nobody changes meanwhile.
NextExecution(s, p) ==
  IF IsExecuting(s) THEN p.period
  ELSE IF IsInAttempt(s, p) THEN UntilExecution(s, p.initial, p.period)
  ELSE Infinite

EarliestReadyIn(s, p) ==
  Lesser(Lesser(NextExecution(s, p), UntilRetry(s, p)), UntilTimeout(s, p))

\* The assertions at its end, for a status that is ready now.
Postcondition(s, p) ==
  IF UntilTimeout(s, p) = 0 THEN IsExecuting(s)
  ELSE s.state # "SUSPENDED" /\ ~IsExecuting(s) /\ IsReadyToExecute(s, p)
=============================================================================
