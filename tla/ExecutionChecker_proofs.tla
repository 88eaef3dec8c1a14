----------------------- MODULE ExecutionChecker_proofs -----------------------
(***************************************************************************)
(* Proofs about the policies of ExecutionChecker, for every status and      *)
(* every policy.                                                            *)
(***************************************************************************)
EXTENDS ExecutionChecker, TLAPS

\* The operators of ExecutionStatus keep a status a status.
LEMMA StatusTypes ==
  /\ Fresh \in StatusType
  /\ \A s \in StatusType : Start(s) \in StatusType /\ Success(s) \in StatusType
  /\ \A s \in StatusType, f \in States : Failure(s, f) \in StatusType
  /\ \A s \in StatusType, n \in Nat : [s EXCEPT !.age = n] \in StatusType
<1>1. Fresh \in StatusType
  BY DEF StatusType, States, Fresh
<1>2. ASSUME NEW s \in StatusType PROVE Start(s) \in StatusType
  <2>1. ASSUME NEW n \in Nat, NEW z \in Nat
        PROVE  [s EXCEPT !.state = "STARTED", !.attempts = n, !.succeeded = FALSE,
                         !.age = z] \in StatusType
    BY DEF StatusType, States
  <2>2. s.attempts + 1 \in Nat /\ 0 \in Nat
    BY DEF StatusType
  <2> QED
    BY <2>1, <2>2 DEF Start
<1>3. ASSUME NEW s \in StatusType PROVE Success(s) \in StatusType
  <2>1. ASSUME NEW n \in Nat
        PROVE  [s EXCEPT !.state = "STOPPED", !.successes = n, !.failed = FALSE,
                         !.succeeded = TRUE] \in StatusType
    BY DEF StatusType, States
  <2>2. s.successes + 1 \in Nat
    BY DEF StatusType
  <2> QED
    BY <2>1, <2>2 DEF Success
<1>4. ASSUME NEW s \in StatusType, NEW f \in States PROVE Failure(s, f) \in StatusType
  BY DEF StatusType, Failure
<1>5. ASSUME NEW s \in StatusType, NEW n \in Nat PROVE [s EXCEPT !.age = n] \in StatusType
  BY DEF StatusType
<1> QED
  BY <1>1, <1>2, <1>3, <1>4, <1>5

-----------------------------------------------------------------------------
(* ReadyIn and IsReady.                                                    *)

\* The time until a task that does not execute is ready: until its next execution
\* or its next retry.
LEMMA ReadyInParts ==
  ASSUME NEW s \in StatusType, NEW p \in PolicyType,
         ~IsExecuting(s), IsInAttempt(s, p)
  PROVE  EarliestReadyIn(s, p) = 0 <=>
           \/ UntilExecution(s, p.initial, p.period) = 0
           \/ UntilRetry(s, p) = 0
<1>1. UntilTimeout(s, p) = Infinite /\ Infinite \in Nat \ {0}
  BY InfiniteAssumption DEF UntilTimeout, IsExecuting
<1>2. NextExecution(s, p) = UntilExecution(s, p.initial, p.period)
  BY DEF NextExecution
<1>3. /\ UntilExecution(s, p.initial, p.period) \in Nat
      /\ UntilRetry(s, p) \in Nat
  BY <1>1 DEF UntilExecution, UntilRetry, Remaining, StatusType, PolicyType, Durations
<1> QED
  BY <1>1, <1>2, <1>3 DEF EarliestReadyIn, Lesser

\* ComputeEarliestReadyIn is sound for a status that nobody changes meanwhile: when
\* it says "now" of a task that does not execute and has attempts left, the
\* assertions at its end hold, and IsReadyToExecute agrees that the task may run.
THEOREM ReadyNowIsReady ==
  ASSUME NEW s \in StatusType, NEW p \in PolicyType,
         ~IsExecuting(s), IsInAttempt(s, p), EarliestReadyIn(s, p) = 0
  PROVE  Postcondition(s, p)
<1>1. UntilTimeout(s, p) # 0
  BY InfiniteAssumption DEF UntilTimeout, IsExecuting
<1>2. \/ UntilExecution(s, p.initial, p.period) = 0
      \/ UntilRetry(s, p) = 0
  BY ReadyInParts
<1>3. s.attempts \in Nat /\ s.age \in Nat /\ Infinite \in Nat \ {0}
  BY InfiniteAssumption DEF StatusType
<1>4. ASSUME NEW i \in Durations, NEW d \in Durations, UntilExecution(s, i, d) = 0
      PROVE  IsInInterval(s, i, d) /\ s.state # "SUSPENDED"
  BY <1>3, <1>4 DEF UntilExecution, IsInInterval, Remaining, Durations
<1>5. CASE UntilExecution(s, p.initial, p.period) = 0
  BY <1>1, <1>4, <1>5 DEF Postcondition, IsReadyToExecute, PolicyType
<1>6. CASE UntilRetry(s, p) = 0
  <2>1. IsInRetryInterval(s, p)
    BY <1>3, <1>6 DEF UntilRetry
  <2> QED
    BY <1>1, <2>1 DEF Postcondition, IsReadyToExecute, IsInRetryInterval, IsInInterval
<1> QED
  BY <1>2, <1>5, <1>6

\* And it is complete: a task that IsReadyToExecute lets run, and that does not
\* execute, is ready now, unless it is before its first run and has a period shorter
\* than its initial delay: then IsReadyToExecute lets it run after the period already.
THEOREM ReadyIsReadyNow ==
  ASSUME NEW s \in StatusType, NEW p \in PolicyType,
         ~IsExecuting(s), IsReadyToExecute(s, p),
         s.attempts > 0 \/ p.initial <= p.period,
         s.attempts > 0 \/ p.retryInitial <= p.retryPeriod
  PROVE  EarliestReadyIn(s, p) = 0
<1>1. s.attempts \in Nat /\ s.age \in Nat
  BY DEF StatusType
<1>2. ASSUME NEW i \in Durations, NEW d \in Durations, s.attempts > 0 \/ i <= d,
             IsInInterval(s, i, d)
      PROVE  UntilExecution(s, i, d) = 0
  <2>1. i \in Nat /\ d \in Nat
    BY InfiniteAssumption DEF Durations
  <2> QED
    BY <1>1, <1>2, <2>1 DEF UntilExecution, IsInInterval, Remaining
<1>3. IsInAttempt(s, p) /\ (IsInInterval(s, p.initial, p.period) \/ IsInRetryInterval(s, p))
  BY DEF IsReadyToExecute
<1>4. CASE IsInInterval(s, p.initial, p.period)
  BY <1>2, <1>3, <1>4, ReadyInParts DEF PolicyType
<1>5. CASE IsInRetryInterval(s, p)
  <2>1. UntilExecution(s, p.retryInitial, p.retryPeriod) = 0
    BY <1>2, <1>5 DEF IsInRetryInterval, PolicyType
  <2> QED
    BY <1>3, <1>5, <2>1, ReadyInParts DEF UntilRetry
<1> QED
  BY <1>3, <1>4, <1>5

-----------------------------------------------------------------------------
(* Waiting for as long as ReadyIn says.                                    *)

\* The same status some time later, when nobody has changed it.
Aged(s, n) == [s EXCEPT !.age = @ + n]

LEMMA AgedKeeps ==
  ASSUME NEW s \in StatusType, NEW p \in PolicyType, NEW n \in Nat
  PROVE  /\ Aged(s, n) \in StatusType
         /\ Aged(s, n).age = s.age + n
         /\ Aged(s, n).state = s.state /\ Aged(s, n).attempts = s.attempts
         /\ Aged(s, n).failed = s.failed
         /\ IsExecuting(Aged(s, n)) <=> IsExecuting(s)
         /\ IsInAttempt(Aged(s, n), p) <=> IsInAttempt(s, p)
<1>1. Aged(s, n) = [s EXCEPT !.age = s.age + n] /\ s.age + n \in Nat
  BY DEF Aged, StatusType
<1>2. Aged(s, n) \in StatusType
  BY <1>1, StatusTypes
<1>3. /\ Aged(s, n).age = s.age + n /\ Aged(s, n).state = s.state
      /\ Aged(s, n).attempts = s.attempts /\ Aged(s, n).successes = s.successes
      /\ Aged(s, n).failed = s.failed
  BY <1>1 DEF StatusType
<1> QED
  BY <1>2, <1>3 DEF IsExecuting, IsInAttempt

\* The scheduler's wait is long enough: a task that does not execute and that ReadyIn
\* says is ready after some time is ready, for all three programs that are asked, when
\* that time or more has passed and nobody has touched it.  So a scheduler that sleeps
\* for what ReadyIn says does not wake up to find the task not ready yet.
THEOREM ReadyAfterWaiting ==
  ASSUME NEW s \in StatusType, NEW p \in PolicyType, NEW n \in Nat,
         ~IsExecuting(s), IsInAttempt(s, p),
         EarliestReadyIn(s, p) < Infinite, EarliestReadyIn(s, p) <= n
  PROVE  /\ EarliestReadyIn(Aged(s, n), p) = 0
         /\ Postcondition(Aged(s, n), p)
         /\ IsReadyToExecute(Aged(s, n), p)
<1> DEFINE a == Aged(s, n)
<1>1. /\ a \in StatusType /\ a.age = s.age + n /\ a.state = s.state
      /\ a.attempts = s.attempts /\ a.failed = s.failed
      /\ ~IsExecuting(a) /\ IsInAttempt(a, p)
  BY AgedKeeps
<1>2. Infinite \in Nat \ {0} /\ s.age \in Nat
  BY InfiniteAssumption DEF StatusType
<1>3. UntilTimeout(s, p) = Infinite /\ UntilTimeout(a, p) = Infinite
  BY <1>1 DEF UntilTimeout, IsExecuting
<1> HIDE DEF a
<1>4. \/ /\ UntilExecution(s, p.initial, p.period) < Infinite
         /\ UntilExecution(s, p.initial, p.period) <= n
      \/ UntilRetry(s, p) < Infinite /\ UntilRetry(s, p) <= n
  <2>1. NextExecution(s, p) = UntilExecution(s, p.initial, p.period)
    BY DEF NextExecution
  <2>2. UntilExecution(s, p.initial, p.period) \in Nat /\ UntilRetry(s, p) \in Nat
    BY <1>2 DEF UntilExecution, UntilRetry, Remaining, PolicyType, Durations
  <2> QED
    BY <1>2, <1>3, <2>1, <2>2 DEF EarliestReadyIn, Lesser
<1>5. ASSUME NEW i \in Durations, NEW d \in Durations,
             UntilExecution(s, i, d) < Infinite, UntilExecution(s, i, d) <= n
      PROVE  UntilExecution(a, i, d) = 0
  <2>1. i \in Nat /\ d \in Nat
    BY <1>2 DEF Durations
  <2>2. s.state # "SUSPENDED"
    BY <1>2, <1>5 DEF UntilExecution
  <2> QED
    BY <1>1, <1>2, <1>5, <2>1, <2>2 DEF UntilExecution, Remaining
<1>6. EarliestReadyIn(a, p) = 0
  <2>1. CASE /\ UntilExecution(s, p.initial, p.period) < Infinite
             /\ UntilExecution(s, p.initial, p.period) <= n
    BY <1>1, <1>5, <2>1, ReadyInParts DEF PolicyType
  <2>2. CASE UntilRetry(s, p) < Infinite /\ UntilRetry(s, p) <= n
    <3>1. IsInRetryInterval(s, p)
      BY <1>2, <2>2 DEF UntilRetry
    <3>2. p.retryInitial \in Nat /\ p.retryPeriod \in Nat
      BY <1>2 DEF PolicyType, Durations
    <3>3. IsInRetryInterval(a, p)
      BY <1>1, <1>2, <3>1, <3>2 DEF IsInRetryInterval, IsInInterval
    <3>4. UntilExecution(a, p.retryInitial, p.retryPeriod) = 0
      BY <1>5, <2>2, <3>1 DEF UntilRetry, PolicyType
    <3>5. UntilRetry(a, p) = 0
      BY <3>3, <3>4 DEF UntilRetry
    <3> QED
      BY <1>1, <3>5, ReadyInParts
  <2> QED
    BY <1>4, <2>1, <2>2
<1>7. Postcondition(a, p)
  BY <1>1, <1>6, ReadyNowIsReady
<1>8. IsReadyToExecute(a, p)
  BY <1>2, <1>3, <1>7 DEF Postcondition
<1> QED
  BY <1>6, <1>7, <1>8 DEF a

\* And no longer than it must be, for a task whose last run has not failed: what ReadyIn
\* says grows shorter by exactly the time that passes.  A failed one may be ready
\* earlier than it says: see RetryIsNotAnnounced.
THEOREM WaitIsExact ==
  ASSUME NEW s \in StatusType, NEW p \in PolicyType, NEW n \in Nat,
         ~IsExecuting(s), ~s.failed, IsInAttempt(s, p),
         EarliestReadyIn(s, p) < Infinite, n <= EarliestReadyIn(s, p)
  PROVE  EarliestReadyIn(Aged(s, n), p) = EarliestReadyIn(s, p) - n
<1> DEFINE a == Aged(s, n)
<1>1. /\ a \in StatusType /\ a.age = s.age + n /\ a.state = s.state
      /\ a.attempts = s.attempts /\ ~a.failed
      /\ ~IsExecuting(a) /\ IsInAttempt(a, p)
  BY AgedKeeps
<1>2. Infinite \in Nat \ {0} /\ s.age \in Nat /\ p.initial \in Nat /\ p.period \in Nat
      /\ p.initial <= Infinite /\ p.period <= Infinite
  BY InfiniteAssumption DEF StatusType, PolicyType, Durations
<1> HIDE DEF a
<1>3. ASSUME NEW r \in {s, a}
      PROVE  EarliestReadyIn(r, p) = UntilExecution(r, p.initial, p.period)
  <2>1. UntilTimeout(r, p) = Infinite /\ UntilRetry(r, p) = Infinite
    BY <1>1 DEF UntilTimeout, UntilRetry, IsInRetryInterval, IsExecuting
  <2>2. NextExecution(r, p) = UntilExecution(r, p.initial, p.period)
    BY <1>1 DEF NextExecution
  <2>3. r.age \in Nat
    BY <1>1 DEF StatusType
  <2>4. /\ UntilExecution(r, p.initial, p.period) \in Nat
        /\ UntilExecution(r, p.initial, p.period) <= Infinite
    BY <1>2, <2>3 DEF UntilExecution, Remaining
  <2> QED
    BY <1>2, <2>1, <2>2, <2>4 DEF EarliestReadyIn, Lesser
<1>4. s.state # "SUSPENDED"
  BY <1>2, <1>3 DEF UntilExecution
<1>5. UntilExecution(a, p.initial, p.period) = UntilExecution(s, p.initial, p.period) - n
  BY <1>1, <1>2, <1>3, <1>4 DEF UntilExecution, Remaining
<1> QED
  BY <1>3, <1>5 DEF a

\* ComputeTimeUntilNextRetry answers only when the retry interval is over: a task that
\* has failed and is before it is announced for its next execution, however much sooner
\* the retry is.  A scheduler that sleeps until then comes late for the retry, unless
\* something else wakes it.
THEOREM RetryIsNotAnnounced ==
  ASSUME NEW s \in StatusType, NEW p \in PolicyType,
         ~IsExecuting(s), IsInAttempt(s, p), s.state # "SUSPENDED",
         s.failed, s.attempts > 0, s.age < p.retryPeriod
  PROVE  /\ EarliestReadyIn(s, p) = Remaining(p.period, s.age)
         /\ p.retryPeriod < p.period =>
              /\ IsReadyToExecute(Aged(s, p.retryPeriod - s.age), p)
              /\ p.retryPeriod - s.age < EarliestReadyIn(s, p)
<1>1. /\ Infinite \in Nat \ {0} /\ s.age \in Nat /\ s.attempts \in Nat
      /\ p.period \in Nat /\ p.retryPeriod \in Nat /\ p.period <= Infinite
  BY InfiniteAssumption DEF StatusType, PolicyType, Durations
<1>2. UntilTimeout(s, p) = Infinite
  BY DEF UntilTimeout, IsExecuting
<1>3. UntilRetry(s, p) = Infinite
  BY <1>1 DEF UntilRetry, IsInRetryInterval, IsInInterval
<1>4. NextExecution(s, p) = Remaining(p.period, s.age)
  BY <1>1 DEF NextExecution, UntilExecution
<1>5. EarliestReadyIn(s, p) = Remaining(p.period, s.age)
  BY <1>1, <1>2, <1>3, <1>4 DEF EarliestReadyIn, Lesser, Remaining
<1>6. ASSUME p.retryPeriod < p.period
      PROVE  /\ IsReadyToExecute(Aged(s, p.retryPeriod - s.age), p)
             /\ p.retryPeriod - s.age < EarliestReadyIn(s, p)
  <2> DEFINE n == p.retryPeriod - s.age
  <2>1. n \in Nat /\ s.age + n = p.retryPeriod
    BY <1>1
  <2> HIDE DEF n
  <2>2. /\ Aged(s, n).age = p.retryPeriod /\ Aged(s, n).state = s.state
        /\ Aged(s, n).failed /\ IsInAttempt(Aged(s, n), p)
    BY <2>1, AgedKeeps
  <2>3. IsReadyToExecute(Aged(s, n), p)
    BY <1>1, <2>2 DEF IsReadyToExecute, IsInRetryInterval, IsInInterval
  <2>4. n < EarliestReadyIn(s, p)
    BY <1>1, <1>5, <1>6, <2>1 DEF Remaining
  <2> QED
    BY <2>3, <2>4 DEF n
<1> QED
  BY <1>5, <1>6
=============================================================================
