--------------------------- MODULE WaitCondition ---------------------------
(***************************************************************************)
(* BaseLib/WaitCondition.cpp (the pthread build): a condition variable     *)
(* that keeps two counters of its own, waiters and wakeups, beside the     *)
(* pthread condition, and sleeps in slices of at most five seconds so that *)
(* an interrupted thread notices it.  The mutex its callers hold is        *)
(* BaseLib/Mutex.cpp, whose lock() throws InterruptedException after it    *)
(* has acquired the mutex when the calling thread is interrupted.          *)
(*                                                                         *)
(* Everything WaitCondition does between locking and unlocking its         *)
(* internal mutex is one step here: a thread gives that mutex up only      *)
(* inside pthread_cond_timedwait, which is taken to return 0 only to a     *)
(* thread that a signal or a broadcast has released.                       *)
(***************************************************************************)
EXTENDS Integers, FiniteSets

CONSTANTS
  Threads,      \* the threads that lock the mutex and wait
  NoThread      \* the owner of an unlocked mutex

ASSUME ThreadsAssumption ==
  /\ IsFiniteSet(Threads)
  /\ NoThread \notin Threads

VARIABLES
  owner,        \* the thread that holds the callers' mutex
  pc,           \* where each thread is in lock / wait / unlock
  waiters,      \* WaitConditionPrivate::waiters
  wakeups,      \* WaitConditionPrivate::wakeups
  expired,      \* has the deadline of the thread's wait passed?
  interrupted,  \* the thread's interrupt flag
  result        \* what the thread's last wait() came to

vars == <<owner, pc, waiters, wakeups, expired, interrupted, result>>

\* "out":       outside the critical section
\* "locked":    inside it, holding the mutex
\* "asleep":    blocked in pthread_cond_timedwait
\* "sliced":    its slice of sleep ended, code is ETIMEDOUT
\* "signalled": a signal chose it, code is 0
\* "relock":    wait() has its verdict and locks the mutex again
Places == {"out", "locked", "asleep", "sliced", "signalled", "relock"}

In(places) == {t \in Threads : pc[t] \in places}
Asleep     == In({"asleep"})
Signalled  == In({"signalled"})
Waiting    == In({"asleep", "sliced", "signalled"})  \* counted by waiters

Lesser(m, n) == IF m <= n THEN m ELSE n

Init ==
  /\ owner = NoThread
  /\ pc = [t \in Threads |-> "out"]
  /\ waiters = 0
  /\ wakeups = 0
  /\ expired = [t \in Threads |-> FALSE]
  /\ interrupted = [t \in Threads |-> FALSE]
  /\ result = [t \in Threads |-> "none"]

-----------------------------------------------------------------------------
(* The callers' mutex.                                                     *)

\* Mutex::lock from a MutexLocker's constructor.  When it throws, the locker
\* was never built, so nothing unlocks the mutex: the thread leaves with it.
Lock(t) ==
  /\ pc[t] = "out"
  /\ owner = NoThread
  /\ owner' = t
  /\ pc' = [pc EXCEPT ![t] = IF interrupted[t] THEN "out" ELSE "locked"]
  /\ UNCHANGED <<waiters, wakeups, expired, interrupted, result>>

\* Mutex::unlock from the locker's destructor.
Unlock(t) ==
  /\ pc[t] = "locked"
  /\ owner' = NoThread
  /\ pc' = [pc EXCEPT ![t] = "out"]
  /\ UNCHANGED <<waiters, wakeups, expired, interrupted, result>>

-----------------------------------------------------------------------------
(* wait().                                                                 *)

\* Mutant: the loop does not look for a wakeup that found nobody to signal.
MaySleepIgnoringWakeups(t) == ~expired[t] /\ ~interrupted[t]

\* Mutant: an interrupt does not end the wait.
MaySleepUninterruptible(t) == wakeups <= 0 /\ ~expired[t]

\* The condition of the loop in WaitConditionPrivate::wait while code is not 0.
MaySleep(t) == wakeups <= 0 /\ ~expired[t] /\ ~interrupted[t]

\* wait() counts the caller in, releases its mutex and blocks.
EnterAndSleep(t) ==
  /\ pc[t] = "locked"
  /\ MaySleep(t)
  /\ waiters' = waiters + 1
  /\ owner' = NoThread
  /\ pc' = [pc EXCEPT ![t] = "asleep"]
  /\ UNCHANGED <<wakeups, expired, interrupted, result>>

\* wait() does not block, because ~MaySleep(t) or because the caller allows it
\* no time: the caller is counted in and out again before the internal mutex
\* is released, and code is still -1.
EnterAndReturn(t) ==
  /\ pc[t] = "locked"
  /\ owner' = NoThread
  /\ pc' = [pc EXCEPT ![t] = "relock"]
  /\ result' = [result EXCEPT ![t] = "notWoken"]
  /\ UNCHANGED <<waiters, wakeups, expired, interrupted>>

\* pthread_cond_timedwait returns ETIMEDOUT.
SliceEnds(t) ==
  /\ pc[t] = "asleep"
  /\ pc' = [pc EXCEPT ![t] = "sliced"]
  /\ UNCHANGED <<owner, waiters, wakeups, expired, interrupted, result>>

\* The loop goes round again: no wake, no deadline, no interrupt.
SleepAgain(t) ==
  /\ pc[t] = "sliced"
  /\ MaySleep(t)
  /\ pc' = [pc EXCEPT ![t] = "asleep"]
  /\ UNCHANGED <<owner, waiters, wakeups, expired, interrupted, result>>

\* Mutant: --waiters is missing on the way out without a wake.
LeaveUnwokenStillCounted(t) ==
  /\ pc[t] = "sliced"
  /\ ~MaySleep(t)
  /\ pc' = [pc EXCEPT ![t] = "relock"]
  /\ result' = [result EXCEPT ![t] = "notWoken"]
  /\ UNCHANGED <<owner, waiters, wakeups, expired, interrupted>>

\* Mutant: a thread that was not signalled takes a wakeup as well.
LeaveUnwokenTaking(t) ==
  /\ pc[t] = "sliced"
  /\ ~MaySleep(t)
  /\ waiters' = waiters - 1
  /\ wakeups' = wakeups - 1
  /\ pc' = [pc EXCEPT ![t] = "relock"]
  /\ result' = [result EXCEPT ![t] = "notWoken"]
  /\ UNCHANGED <<owner, expired, interrupted>>

\* The loop ends after ETIMEDOUT; wakeups is left as it is.
LeaveUnwoken(t) ==
  /\ pc[t] = "sliced"
  /\ ~MaySleep(t)
  /\ waiters' = waiters - 1
  /\ pc' = [pc EXCEPT ![t] = "relock"]
  /\ result' = [result EXCEPT ![t] = "notWoken"]
  /\ UNCHANGED <<owner, wakeups, expired, interrupted>>

\* The loop ends with code 0: the thread takes one wakeup for itself, unless
\* it has been interrupted in the meantime.
LeaveWoken(t) ==
  /\ pc[t] = "signalled"
  /\ waiters' = waiters - 1
  /\ wakeups' = IF interrupted[t] THEN wakeups ELSE wakeups - 1
  /\ pc' = [pc EXCEPT ![t] = "relock"]
  /\ result' = [result EXCEPT ![t] = "woken"]
  /\ UNCHANGED <<owner, expired, interrupted>>

\* wait() locks the caller's mutex again.  If that throws, the caller's locker
\* unlocks it while the exception passes.
Relock(t) ==
  /\ pc[t] = "relock"
  /\ owner = NoThread
  /\ IF interrupted[t]
       THEN /\ pc' = [pc EXCEPT ![t] = "out"]
            /\ result' = [result EXCEPT ![t] = "threw"]
            /\ UNCHANGED owner
       ELSE /\ pc' = [pc EXCEPT ![t] = "locked"]
            /\ owner' = t
            /\ UNCHANGED result
  /\ expired' = [expired EXCEPT ![t] = FALSE]
  /\ UNCHANGED <<waiters, wakeups, interrupted>>

-----------------------------------------------------------------------------
(* wakeOne(), wakeAll() and what else happens to a waiting thread.         *)

\* Mutant: wakeups is a flag, as if one wake could be pending at most.
WakeOneFlag ==
  /\ wakeups' = Lesser(1, waiters)
  /\ IF Asleep = {} THEN UNCHANGED pc
     ELSE \E t \in Asleep : pc' = [pc EXCEPT ![t] = "signalled"]
  /\ UNCHANGED <<owner, waiters, expired, interrupted, result>>

\* pthread_cond_signal releases one blocked thread, if there is one.
WakeOne ==
  /\ wakeups' = Lesser(wakeups + 1, waiters)
  /\ IF Asleep = {} THEN UNCHANGED pc
     ELSE \E t \in Asleep : pc' = [pc EXCEPT ![t] = "signalled"]
  /\ UNCHANGED <<owner, waiters, expired, interrupted, result>>

\* pthread_cond_broadcast releases every blocked thread.
WakeAll ==
  /\ wakeups' = waiters
  /\ pc' = [t \in Threads |-> IF pc[t] = "asleep" THEN "signalled" ELSE pc[t]]
  /\ UNCHANGED <<owner, waiters, expired, interrupted, result>>

\* The deadline of a wait passes.
Expire(t) ==
  /\ pc[t] \in {"asleep", "sliced", "signalled"}
  /\ ~expired[t]
  /\ expired' = [expired EXCEPT ![t] = TRUE]
  /\ UNCHANGED <<owner, pc, waiters, wakeups, interrupted, result>>

\* Thread::interrupt, from another thread, at any moment.
Interrupt(t) ==
  /\ ~interrupted[t]
  /\ interrupted' = [interrupted EXCEPT ![t] = TRUE]
  /\ UNCHANGED <<owner, pc, waiters, wakeups, expired, result>>

\* Thread::unsetInterrupt, by the thread itself, outside its critical sections.
UnsetInterrupt(t) ==
  /\ pc[t] = "out"
  /\ interrupted[t]
  /\ interrupted' = [interrupted EXCEPT ![t] = FALSE]
  /\ UNCHANGED <<owner, pc, waiters, wakeups, expired, result>>

-----------------------------------------------------------------------------
Step(t) ==
  \/ Lock(t) \/ Unlock(t)
  \/ EnterAndSleep(t) \/ EnterAndReturn(t)
  \/ SliceEnds(t) \/ SleepAgain(t) \/ LeaveUnwoken(t) \/ LeaveWoken(t)
  \/ Relock(t)
  \/ Expire(t) \/ Interrupt(t) \/ UnsetInterrupt(t)

Next == WakeOne \/ WakeAll \/ \E t \in Threads : Step(t)

Spec == Init /\ [][Next]_vars

\* A blocked thread's slice ends within five seconds, and a thread that has
\* been released goes through the rest of the internal critical section.
Fairness ==
  \A t \in Threads :
    WF_vars(SliceEnds(t)) /\ WF_vars(LeaveUnwoken(t)) /\ WF_vars(LeaveWoken(t))

FairSpec == Spec /\ Fairness
-----------------------------------------------------------------------------
(* Properties.                                                             *)

TypeOK ==
  /\ owner \in Threads \cup {NoThread}
  /\ pc \in [Threads -> Places]
  /\ waiters \in Nat
  /\ wakeups \in Nat
  /\ expired \in [Threads -> BOOLEAN]
  /\ interrupted \in [Threads -> BOOLEAN]
  /\ result \in [Threads -> {"none", "woken", "notWoken", "threw"}]

\* waiters counts the threads between ++waiters and --waiters.
WaitersCounted == waiters = Cardinality(Waiting)

\* Every thread a signal has chosen still finds a wakeup to take, however wakes,
\* deadlines and interrupts of several threads interleave (wakeOne, wakeAll and
\* the end of WaitConditionPrivate::wait).
SignalledCovered == Cardinality(Signalled) <= wakeups

\* ASSERT(wakeups > 0) in WaitConditionPrivate::wait, which a thread reaches
\* with code 0 when it has not been interrupted.
WakeupAsserted ==
  \A t \in Threads : pc[t] = "signalled" /\ ~interrupted[t] => wakeups > 0

\* A thread whose slice ended cannot go back to sleep while there are more
\* wakeups than signalled threads: one of them was meant for it.
Released(t) ==
  \/ pc[t] = "signalled"
  \/ pc[t] = "sliced" /\ wakeups > Cardinality(Signalled)

\* A wake is never absorbed: once a wakeOne or wakeAll has released a thread,
\* whether by a signal or by a wakeup it left behind, no later step puts that
\* thread back to sleep inside the same wait().
ReleaseKept ==
  [][\A t \in Threads : Released(t) => (Released(t)' \/ pc'[t] = "relock")]_vars

\* What the callers of wait() see is the condition variable of CondVar: in
\* particular a wakeOne that finds sleepers always releases one of them, even
\* when the only sleeper's slice had just ended and there was nobody to signal.
cvBar ==
  [t \in Threads |->
    CASE pc[t] = "asleep" -> "asleep"
      [] pc[t] = "signalled" -> "woken"
      [] pc[t] = "sliced" -> IF Released(t) THEN "unwoken" ELSE "asleep"
      [] pc[t] = "relock" -> IF result[t] = "woken" THEN "woken" ELSE "unwoken"
      [] OTHER -> "out"]

CV == INSTANCE CondVar WITH cv <- cvBar

ImplementsCondVar == CV!Spec

\* Thread::interrupt does not signal this condition variable; the thread finds
\* out when its slice ends.  An interrupt that is not taken back always gets
\* its thread out of the wait.
InterruptNoticed ==
  \A t \in Threads :
    (pc[t] = "asleep" /\ interrupted[t]) ~> (pc[t] \notin {"asleep", "sliced"})
=============================================================================
