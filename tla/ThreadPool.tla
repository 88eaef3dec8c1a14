---------------------------- MODULE ThreadPool ----------------------------
(***************************************************************************)
(* RxConcurrent/ThreadPool with RxConcurrent/Strategy: the scheduler thread *)
(* (ThreadPool::run), the workers, and a client that schedules tasks and    *)
(* uses their handles.                                                      *)
(*                                                                         *)
(* A task's ExecutionStatus is read by one strategy after the other, each   *)
(* under its own lock; one strategy of ExecutionChecker is one step here,   *)
(* and the workers and the client go on in between.  The wait sets are      *)
(* those of module WaitSet: what that module shows of Signal, Attach and    *)
(* WaitGetNext, that no trigger is lost, lets each of them be one step.     *)
(***************************************************************************)
EXTENDS ExecutionChecker, Sequences, FiniteSets

CONSTANTS
  Tasks, Workers,
  Initial,      \* the tasks that were scheduled before the pool started
  Policy,       \* Policy[t]: the TaskPolicy of t
  Backoff,      \* the second the scheduler waits when it found nothing
  MaxAge,       \* bound: ages stop here, and longer durations never pass
  Started,      \* the workers that were started for tasks that have left the pool
  MaxCalls,     \* bound: how often the client calls
  Ops,          \* what the environment may do, see AllOps
  None

\* Add, Trigger, Suspend, Resume, Cancel: the client calls them.  Suspended:
\* createAsSuspended.  Throw: a task throws while it has attempts left.  Fail: a
\* task throws on its last attempt.  Late: a task may be late for its
\* timeout.  Idle: workers may be idle for their IdleTimeout.
AllOps == {"Add", "Suspended", "Trigger", "Suspend", "Resume", "Cancel",
           "Throw", "Fail", "Late", "Idle"}

ASSUME PoolAssumption ==
  /\ Policy \in [Tasks -> PolicyType]
  /\ Initial \subseteq Tasks /\ IsFiniteSet(Initial)
  /\ Started \subseteq Workers /\ IsFiniteSet(Workers)
  /\ None \notin Tasks \cup Workers
  /\ Backoff \in Durations /\ MaxAge \in Nat /\ MaxCalls \in Nat
  /\ Ops \subseteq AllOps

VARIABLES
  status,       \* the ExecutionStatus of each task
  list,         \* ScheduledTasksState::tasks_ and tasksBase_
  \* The executors' wait set and the conditions of the tasks.
  valid,        \* WaitSet::valid_
  attached,     \* the tasks whose condition is attached
  trigger,      \* GuardCondition::triggerValue_
  queue,        \* WaitSet::triggeredQueue_
  refused,      \* history: triggered while the wait set was not valid
  \* The scheduler.
  phase, step,  \* where it is, see below
  todo, found,  \* the tasks it still has to visit, and those it found
  next,         \* earliestReadyIn so far, of the task it is at
  alarm,        \* the earliest of the tasks it has been at, then its deadline
  triggered,    \* triggeredNumber > 0
  called,       \* a condition of its wait set is queued
  \* The workers and the client.
  place, hand,  \* where each worker is, and the task it has in hand
  flagged,      \* the workers with their interrupt flag set; a thread keeps it when it ends
  leaked,       \* the tasks whose future was left locked by a worker that died
  jammed,       \* such a worker, started again, has left the executors' wait set locked
  call,         \* the client's progress in Schedule or in a method of a handle
  calls,        \* how often it has called
  aborted       \* the ASSERT that failed and ended the process

execVars   == <<valid, attached, trigger, queue, refused>>
schedVars  == <<phase, step, todo, found, next, alarm, triggered>>
faultVars  == <<flagged, leaked, jammed>>
workerVars == <<place, hand, faultVars>>
clientVars == <<call, calls>>
vars == <<status, list, execVars, schedVars, called, workerVars, clientVars, aborted>>

\* The phases of ThreadPool::run.  "balance": manageWorkers.  "find", "assert",
\* "check", "recheck": FindReady, its assertions, IsReady and the rest of it.
\* "trigger" to "raise": triggerTask.  "earliest": EarliestReadyIn.  "wait" and
\* "asleep": WaitDispatch.  "done", "lapsed", "drop": RemoveDone.  "late",
\* "interrupt": InterruptTimeoutTasks.  "hung": in IsIdle for good.
Phases == {"balance", "find", "assert", "check", "recheck", "trigger", "ready",
           "unready", "starting", "set", "raise", "earliest", "wait", "asleep",
           "done", "lapsed", "drop", "late", "interrupt", "hung"}

\* "begin" and "each" are about the loop over the tasks; the others are the
\* steps of ComputeEarliestReadyIn for the task at the head of todo.
Steps == {"begin", "each", "attempt", "free", "executing", "next", "retry",
          "timeout", "overdue", "due"}

\* "none": no thread.  "loop": the head of Worker::run.  "get": WaitGetNext.
\* "look", "ready": around GetTriggerValue.  "entry" to "return": the handler.
\* "guard": about to wake the scheduler.
Places == {"none", "loop", "get", "look", "ready", "entry", "running", "return", "guard"}

NoCall == <<"none", None>>
Members(s) == {s[i] : i \in DOMAIN s}
Alive == {w \in Workers : place[w] # "none"}
Dead == {w \in flagged : place[w] = "none"}

\* The mutex of t's condition is held while its handler runs.
Free(t) == ~\E w \in Workers : hand[w] = t /\ place[w] \in {"entry", "running", "return"}
Runners(t) == {w \in Workers : hand[w] = t /\ place[w] = "running"}

\* The mutex of ScheduledTasks is held in the loops over the tasks.
TasksFree ==
  phase \notin {"assert", "check", "recheck", "lapsed", "drop"} /\
  (phase \in {"find", "earliest", "done"} => step = "begin")

Init ==
  /\ status = [t \in Tasks |-> Fresh]
  /\ list \in {q \in [1..Cardinality(Initial) -> Initial] : Members(q) = Initial}
  /\ valid = TRUE /\ attached = Initial
  /\ trigger = [t \in Tasks |-> FALSE] /\ queue = <<>> /\ refused = {}
  /\ phase = "balance" /\ step = "begin" /\ todo = <<>> /\ found = <<>>
  /\ next = Infinite /\ alarm = Infinite /\ triggered = FALSE /\ called = FALSE
  /\ place = [w \in Workers |-> IF w \in Started THEN "loop" ELSE "none"]
  /\ hand = [w \in Workers |-> None]
  /\ flagged = {} /\ leaked = {} /\ jammed = FALSE
  /\ call = NoCall /\ calls = 0 /\ aborted = "none"

-----------------------------------------------------------------------------
(* The status and the condition of a task.                                 *)

SetState(t, state) == status' = [status EXCEPT ![t].state = state]

\* ExecutionStatus::SetIffNotExecuting
SetIffNotExecuting(t, state) ==
  status' = [status EXCEPT ![t].state = IF IsExecuting(status[t]) THEN @ ELSE state]

Enqueue(t) == queue' = IF t \in Members(queue) THEN queue ELSE Append(queue, t)

\* Mutant: SetTriggerValue does not lock the condition.
RaiseUnlocked(t) ==
  /\ jammed => t \notin attached
  /\ trigger' = [trigger EXCEPT ![t] = TRUE]
  /\ IF valid /\ t \in attached
       THEN Enqueue(t) /\ refused' = refused \ {t}
       ELSE UNCHANGED queue /\ refused' = IF valid THEN refused ELSE refused \cup {t}
  /\ UNCHANGED <<valid, attached>>

\* Cond()->SetTriggerValue(true), with Signal to the executors' wait set, which
\* blocks when that is jammed.
Raise(t) ==
  /\ Free(t) /\ (jammed => t \notin attached)
  /\ trigger' = [trigger EXCEPT ![t] = TRUE]
  /\ IF valid /\ t \in attached
       THEN Enqueue(t) /\ refused' = refused \ {t}
       ELSE UNCHANGED queue /\ refused' = IF valid THEN refused ELSE refused \cup {t}
  /\ UNCHANGED <<valid, attached>>

-----------------------------------------------------------------------------
(* The scheduler: its loops over the tasks.                                *)

Go(ph, st, td) == phase' = ph /\ step' = st /\ todo' = td

\* LoadBalanceWorkers: too few workers.  Those that have ended are started again,
\* or others are created.
StartWorkers ==
  LET missing == Lesser(Len(list), Cardinality(Workers)) - Cardinality(Alive) IN
  /\ phase = "balance" /\ missing > 0 /\ ~jammed
  /\ \E new \in SUBSET (Workers \ Alive) :
       /\ Cardinality(new) = missing
       /\ place' = [w \in Workers |-> IF w \in new THEN "loop" ELSE place[w]]
  /\ valid' = TRUE
  /\ Go("find", "begin", <<>>)
  /\ UNCHANGED <<status, list, attached, trigger, queue, refused, found, next,
                 alarm, triggered, called, hand, faultVars, clientVars, aborted>>

\* LoadBalanceWorkers: too many, and some are idle.  A worker is stopped by
\* stopping the wait set that it shares with the others.  RemoveDone may take
\* dead workers off the list, to be replaced by new ones.
StopIdleWorkers ==
  /\ phase = "balance" /\ "Idle" \in Ops /\ ~jammed
  /\ Cardinality(Alive) > Len(list)
  /\ \E w \in Workers : place[w] \in {"loop", "get", "guard"}
  /\ valid' = FALSE
  /\ \E removed \in SUBSET Dead : flagged' = flagged \ removed
  /\ Go("find", "begin", <<>>)
  /\ UNCHANGED <<status, list, attached, trigger, queue, refused, found, next,
                 alarm, triggered, called, place, hand, leaked, jammed, clientVars, aborted>>

\* Otherwise.  When it asks a dead worker whether it is idle it blocks: that one
\* has left its own status locked, too.
KeepWorkers ==
  /\ phase = "balance"
  /\ Cardinality(Alive) >= Lesser(Len(list), Cardinality(Workers))
  /\ Go(IF Dead # {} /\ Cardinality(Alive) > Len(list) THEN "hung" ELSE "find",
        "begin", <<>>)
  /\ UNCHANGED <<status, list, execVars, found, next, alarm, triggered, called,
                 workerVars, clientVars, aborted>>

\* A loop over the tasks begins.
Begin ==
  /\ step = "begin" /\ phase \in {"find", "earliest", "done", "late"}
  /\ Go(phase, "each", list)
  /\ UNCHANGED <<status, list, execVars, found, next, alarm, triggered, called,
                 workerVars, clientVars, aborted>>

\* What the loops do with a task: FindReady, IsReady and EarliestReadyIn ask
\* ReadyIn first, triggerTask asks IsExecuting, RemoveDone too, and
\* InterruptTimeoutTasks asks IsTimeout.
Visit ==
  /\ step = "each" /\ todo # <<>>
  /\ LET s == status[Head(todo)]  p == Policy[Head(todo)] IN
     \/ phase \in {"find", "check", "ready", "earliest"} /\ Go(phase, "attempt", todo)
     \/ /\ phase = "trigger"
        /\ IF IsExecuting(s) THEN Go(phase, "each", Tail(todo)) ELSE Go("ready", "each", todo)
     \/ /\ phase = "done"
        /\ IF IsExecuting(s) THEN Go(phase, "each", Tail(todo)) ELSE Go("lapsed", "each", todo)
     \/ /\ phase = "late"
        /\ IF IsTimeout(s, p) THEN Go("interrupt", "each", todo) ELSE Go(phase, "each", Tail(todo))
     \/ /\ phase = "starting"
        /\ IF s.state \in {"STARTING", "SUSPENDED"} THEN Go("trigger", "each", Tail(todo))
           ELSE Go("set", "each", todo)
  /\ UNCHANGED <<status, list, execVars, found, next, alarm, triggered, called,
                 workerVars, clientVars, aborted>>

\* A loop ends.
EndLoop ==
  /\ step = "each" /\ todo = <<>>
  /\ \/ /\ phase \in {"find", "done"}
        /\ Go(IF phase = "find" THEN "trigger" ELSE "drop", "each", found) /\ found' = <<>>
        /\ UNCHANGED <<alarm, triggered>>
     \/ /\ phase = "trigger" /\ Go("earliest", "begin", <<>>)
        /\ UNCHANGED <<found, alarm, triggered>>
     \/ /\ phase = "earliest" /\ Go("wait", "begin", <<>>)
        /\ alarm' = IF alarm = 0 /\ ~triggered THEN Backoff ELSE alarm
        /\ triggered' = FALSE /\ UNCHANGED found
     \/ /\ phase \in {"drop", "late"}
        /\ Go(IF phase = "drop" THEN "late" ELSE "balance", "begin", <<>>)
        /\ UNCHANGED <<found, alarm, triggered>>
  /\ UNCHANGED <<status, list, execVars, next, called, workerVars, clientVars, aborted>>

-----------------------------------------------------------------------------
(* The scheduler: ComputeEarliestReadyIn, one strategy at a time.          *)

Status == status[Head(todo)]
Pol == Policy[Head(todo)]

\* ReadyIn has returned v to the loop it was called from.
Return(v) ==
  /\ next' = Infinite
  /\ \/ /\ phase = "find"
        /\ IF v = 0 THEN Go("assert", "each", todo) ELSE Go(phase, "each", Tail(todo))
        /\ UNCHANGED <<found, alarm>>
     \/ /\ phase = "check"
        /\ IF v = 0 THEN found' = Append(found, Head(todo)) /\ Go("find", "each", Tail(todo))
           ELSE UNCHANGED found /\ Go("recheck", "each", todo)
        /\ UNCHANGED alarm
     \/ /\ phase = "ready"
        /\ Go(IF v = 0 THEN "starting" ELSE "unready", "each", todo)
        /\ UNCHANGED <<found, alarm>>
     \/ /\ phase = "earliest"
        /\ alarm' = Lesser(alarm, v)
        /\ Go(phase, "each", Tail(todo))
        /\ UNCHANGED found

Then(st) == step' = st /\ UNCHANGED <<phase, todo, found, alarm>>

ReadAttempt ==
  /\ step = "attempt"
  /\ Then(IF IsInAttempt(Status, Pol) THEN "free" ELSE "executing") /\ UNCHANGED next

ReadFree ==
  /\ step = "free"
  /\ Then(IF IsExecuting(Status) THEN "executing" ELSE "next") /\ UNCHANGED next

ReadNext ==
  /\ step = "next"
  /\ next' = UntilExecution(Status, Pol.initial, Pol.period)
  /\ Then("retry")

ReadExecuting ==
  /\ step = "executing"
  /\ next' = IF IsExecuting(Status) THEN Pol.period ELSE Infinite
  /\ Then("retry")

ReadRetry ==
  /\ step = "retry"
  /\ next' = Lesser(next, UntilRetry(Status, Pol))
  /\ Then("timeout")

ReadTimeout ==
  /\ step = "timeout"
  /\ LET late == UntilTimeout(Status, Pol) IN
       IF late = 0 THEN Then("overdue") /\ UNCHANGED next
       ELSE IF next = 0 THEN Then("due") /\ UNCHANGED next
       ELSE Return(Lesser(next, late))

\* The assertions at the end, which read the status once more.
AssertReady ==
  \/ step = "overdue" /\ IsExecuting(Status) /\ Return(0)
  \/ /\ step = "due"
     /\ Status.state # "SUSPENDED" /\ ~IsExecuting(Status) /\ IsReadyToExecute(Status, Pol)
     /\ Return(0)

Evaluate ==
  /\ \/ ReadAttempt \/ ReadFree \/ ReadNext \/ ReadExecuting \/ ReadRetry
     \/ ReadTimeout \/ AssertReady
  /\ UNCHANGED <<status, list, execVars, triggered, called, workerVars, clientVars, aborted>>

\* The assertions of FindReady on a task that is ready now.
AssertFound ==
  /\ step = "each"
  /\ \/ /\ phase = "assert"
        /\ Status.state \notin {"SUSPENDED", "INTERRUPTED"} /\ ~IsExecuting(Status)
        /\ Go("check", "each", todo) /\ UNCHANGED found
     \/ /\ phase = "recheck"
        /\ ~IsExecuting(Status) /\ IsReadyToExecute(Status, Pol)
        /\ found' = Append(found, Head(todo)) /\ Go("find", "each", Tail(todo))
  /\ UNCHANGED <<status, list, execVars, next, alarm, triggered, called,
                 workerVars, clientVars, aborted>>

\* t is in the list once, as i.
IsOnly(i, t) == \A j \in DOMAIN list : list[j] = t <=> j = i

\* One of the assertions above fails, or that of ScheduledTasksState::Remove.
Abort ==
  /\ \/ step = "overdue" /\ ~IsExecuting(Status)
     \/ /\ step = "due"
        /\ \/ Status.state = "SUSPENDED" \/ IsExecuting(Status)
           \/ ~IsReadyToExecute(Status, Pol)
     \/ /\ step = "each" /\ phase = "assert"
        /\ Status.state \in {"SUSPENDED", "INTERRUPTED"} \/ IsExecuting(Status)
     \/ /\ step = "each" /\ phase = "recheck"
        /\ IsExecuting(Status) \/ ~IsReadyToExecute(Status, Pol)
     \/ phase = "drop" /\ todo # <<>> /\ ~\E i \in DOMAIN list : IsOnly(i, Head(todo))
  /\ aborted' = IF step # "each" THEN "ComputeEarliestReadyIn"
                ELSE IF phase = "drop" THEN "Remove" ELSE "FindReady"
  /\ UNCHANGED <<status, list, execVars, schedVars, called, workerVars, clientVars>>

-----------------------------------------------------------------------------
(* The scheduler: triggering, waiting, removing, interrupting.             *)

\* The other half of IsReady in triggerTask.
Unready ==
  /\ phase = "unready"
  /\ IF ~IsExecuting(Status) /\ IsReadyToExecute(Status, Pol)
       THEN Go("starting", "each", todo) ELSE Go("trigger", "each", Tail(todo))
  /\ UNCHANGED <<status, list, execVars, found, next, alarm, triggered, called,
                 workerVars, clientVars, aborted>>

\* ScheduledRunnableTask::Trigger
SetStarting ==
  /\ phase = "set"
  /\ SetIffNotExecuting(Head(todo), "STARTING")
  /\ triggered' = TRUE
  /\ IF IsExecuting(Status) THEN Go("trigger", "each", Tail(todo)) ELSE Go("raise", "each", todo)
  /\ UNCHANGED <<list, execVars, found, next, alarm, called, workerVars, clientVars, aborted>>

RaiseTrigger ==
  /\ phase = "raise"
  /\ Raise(Head(todo))
  /\ Go("trigger", "each", Tail(todo))
  /\ UNCHANGED <<status, list, found, next, alarm, triggered, called, workerVars,
                 clientVars, aborted>>

\* WaitDispatch finds a queued condition, or no time left, or blocks.
Wait ==
  /\ phase = "wait"
  /\ IF called \/ alarm = 0
       THEN Go("done", "begin", <<>>) /\ alarm' = Infinite
       ELSE Go("asleep", "begin", <<>>) /\ UNCHANGED alarm
  /\ called' = FALSE
  /\ UNCHANGED <<status, list, execVars, found, next, triggered, workerVars, clientVars, aborted>>

\* It is signalled, or its time is up: InMillis rounds the time down.
WakeUp ==
  /\ phase = "asleep" /\ (called \/ alarm <= 1)
  /\ Go("done", "begin", <<>>) /\ alarm' = Infinite /\ called' = FALSE
  /\ UNCHANGED <<status, list, execVars, found, next, triggered, workerVars, clientVars, aborted>>

\* Mutant: a task is kept until it is cancelled.
LapsedCancelled ==
  /\ phase = "lapsed"
  /\ found' = IF Status.state # "CANCELLED" THEN found ELSE Append(found, Head(todo))
  /\ Go("done", "each", Tail(todo))
  /\ UNCHANGED <<status, list, execVars, next, alarm, triggered, called, workerVars,
                 clientVars, aborted>>

\* IsInAttempt in the IsDone of RemoveDone.
Lapsed ==
  /\ phase = "lapsed"
  /\ found' = IF IsInAttempt(Status, Pol) THEN found ELSE Append(found, Head(todo))
  /\ Go("done", "each", Tail(todo))
  /\ UNCHANGED <<status, list, execVars, next, alarm, triggered, called, workerVars,
                 clientVars, aborted>>

\* RemoveDone removes what it has found, one task after the other.
Remove ==
  /\ phase = "drop" /\ todo # <<>>
  /\ \E i \in DOMAIN list :
       /\ IsOnly(i, Head(todo))
       /\ list' = [j \in 1..Len(list) - 1 |-> list[IF j < i THEN j ELSE j + 1]]
  /\ Go("drop", "each", Tail(todo))
  /\ UNCHANGED <<status, execVars, found, next, alarm, triggered, called, workerVars,
                 clientVars, aborted>>

\* FutureInvokerBase::Interrupt, for the run that is going on by now.
Interrupt ==
  /\ phase = "interrupt" /\ Head(todo) \notin leaked
  /\ flagged' = flagged \cup Runners(Head(todo))
  /\ IF Runners(Head(todo)) = {} THEN UNCHANGED status
     ELSE SetState(Head(todo), "INTERRUPTED")
  /\ Go("late", "each", Tail(todo))
  /\ UNCHANGED <<list, execVars, found, next, alarm, triggered, called, place, hand,
                 leaked, jammed, clientVars, aborted>>

SchedulerStep ==
  \/ StartWorkers \/ StopIdleWorkers \/ KeepWorkers
  \/ Begin \/ Visit \/ EndLoop \/ Evaluate \/ AssertFound \/ Abort
  \/ Unready \/ SetStarting \/ RaiseTrigger \/ Wait \/ WakeUp \/ Lapsed \/ Remove \/ Interrupt

-----------------------------------------------------------------------------
(* The workers.                                                            *)

At(w, from, to) == place[w] = from /\ place' = [place EXCEPT ![w] = to]

\* Worker::run.  A thread that was started again with its interrupt flag still set
\* dies at once, with the wait set's mutex.
CheckStopped(w) ==
  /\ ~jammed
  /\ IF w \in flagged THEN At(w, "loop", "none") /\ jammed' = TRUE
     ELSE At(w, "loop", IF valid THEN "get" ELSE "none") /\ UNCHANGED jammed
  /\ UNCHANGED <<status, execVars, called, hand, flagged, leaked, aborted>>

\* WaitGetNext returns a condition, or none from an invalid wait set.
Get(w) ==
  \/ /\ At(w, "get", "look") /\ queue # <<>> /\ ~jammed
     /\ hand' = [hand EXCEPT ![w] = Head(queue)]
     /\ queue' = Tail(queue)
     /\ UNCHANGED <<status, valid, attached, trigger, refused, called, aborted>>
  \/ /\ At(w, "get", "loop") /\ queue = <<>> /\ ~valid /\ ~jammed
     /\ UNCHANGED <<status, execVars, called, hand, aborted>>

\* Mutant: a condition whose trigger is reset stays with the worker.
LookKeeping(w) ==
  /\ Free(hand[w])
  /\ At(w, "look", IF trigger[hand[w]] THEN "ready" ELSE "loop")
  /\ UNCHANGED <<status, execVars, called, hand, aborted>>

\* DispatchTriggeredCondition
Look(w) ==
  /\ place[w] = "look" /\ Free(hand[w])
  /\ IF trigger[hand[w]] THEN At(w, "look", "ready") /\ UNCHANGED hand
     ELSE At(w, "look", "loop") /\ hand' = [hand EXCEPT ![w] = None]
  /\ UNCHANGED <<status, execVars, called, aborted>>

\* Mutant: Dispatch does not lock the condition.
DispatchUnlocked(w) ==
  /\ place[w] = "ready"
  /\ IF trigger[hand[w]]
       THEN /\ At(w, "ready", "entry") /\ UNCHANGED hand
            /\ aborted' = IF status[hand[w]].state = "STARTED" THEN "IsStarted" ELSE aborted
       ELSE /\ At(w, "ready", "guard") /\ hand' = [hand EXCEPT ![w] = None]
            /\ UNCHANGED aborted
  /\ UNCHANGED <<status, execVars, called>>

\* Dispatch locks the condition and calls ThreadPool::operator(), which asserts
\* that the task has not started.
Dispatch(w) ==
  /\ place[w] = "ready" /\ Free(hand[w])
  /\ IF trigger[hand[w]]
       THEN /\ At(w, "ready", "entry") /\ UNCHANGED hand
            /\ aborted' = IF status[hand[w]].state = "STARTED" THEN "IsStarted" ELSE aborted
       ELSE /\ At(w, "ready", "guard") /\ hand' = [hand EXCEPT ![w] = None]
            /\ UNCHANGED aborted
  /\ UNCHANGED <<status, execVars, called>>

\* FutureInvokerBase::Entry
Entry(w) ==
  /\ At(w, "entry", "running") /\ hand[w] \notin leaked
  /\ LET s == Start(status[hand[w]]) IN
       status' = [status EXCEPT ![hand[w]] =
         [s EXCEPT !.attempts = Lesser(@, Policy[hand[w]].max + 1)]]
  /\ UNCHANGED <<execVars, called, hand, aborted>>

\* The task returns, and Complete records it, or it throws, and Error does;
\* ThreadPool::operator() keeps the exception.  An interrupted task may have reset
\* the flag of its thread by then.
Exit(w) ==
  /\ At(w, "running", "return")
  /\ LET s == status[hand[w]] IN
     \/ status' = [status EXCEPT ![hand[w]] =
          [Success(s) EXCEPT !.successes = Lesser(@, Policy[hand[w]].min)]]
     \/ /\ \/ w \in flagged
           \/ "Throw" \in Ops /\ IsInAttempt(s, Policy[hand[w]])
           \/ "Fail" \in Ops
        /\ status' = [status EXCEPT ![hand[w]] = Failure(s, "FAILURE")]
  /\ flagged' = flagged \ {w}
  /\ UNCHANGED <<execVars, called, hand, leaked, jammed, aborted>>

\* FutureInvokerBase::Exit throws in an interrupted thread with the future's mutex
\* locked, and every handler throws again up to the end of Worker::run: the status
\* and the trigger stay as they are.
Die(w) ==
  /\ w \in flagged /\ At(w, "running", "none")
  /\ hand' = [hand EXCEPT ![w] = None]
  /\ leaked' = leaked \cup {hand[w]}
  /\ UNCHANGED <<status, execVars, called, flagged, jammed, aborted>>

\* Dispatch resets the trigger and unlocks.
HandlerReturns(w) ==
  /\ At(w, "return", "guard")
  /\ trigger' = [trigger EXCEPT ![hand[w]] = FALSE]
  /\ hand' = [hand EXCEPT ![w] = None]
  /\ UNCHANGED <<status, valid, attached, queue, refused, called, aborted>>

\* Guard()->SetTriggerValue(true), which wakes the scheduler.
WakeScheduler(w) ==
  /\ At(w, "guard", "loop")
  /\ called' = TRUE
  /\ UNCHANGED <<status, execVars, hand, aborted>>

WorkerStep(w) ==
  /\ \/ CheckStopped(w) \/ Exit(w) \/ Die(w)
     \/ /\ Get(w) \/ Look(w) \/ Dispatch(w) \/ Entry(w) \/ HandlerReturns(w) \/ WakeScheduler(w)
        /\ UNCHANGED faultVars
  /\ UNCHANGED <<list, schedVars, clientVars>>

-----------------------------------------------------------------------------
(* The client.                                                             *)

Calls(op) ==
  /\ op \in Ops /\ call = NoCall
  /\ calls < MaxCalls /\ calls' = calls + 1

\* ThreadPool::schedule adds the task to the scheduled tasks, where
\* InterruptTimeoutTasks, which walks them without a lock, still comes by; ...
Add(t) ==
  /\ Calls("Add") /\ TasksFree
  /\ t \notin attached
  /\ list' = Append(list, t)
  /\ todo' = IF phase \in {"late", "interrupt"} /\ todo # <<>> THEN Append(todo, t) ELSE todo
  /\ call' = <<"attach", t>>
  /\ UNCHANGED <<status, execVars, phase, step, found, next, alarm, triggered, called>>

\* Mutant: Attach does not look at the trigger.
AttachBlindly ==
  LET t == call[2] IN
  /\ call[1] = "attach" /\ Free(t) /\ ~jammed
  /\ attached' = attached \cup {t}
  /\ call' \in {<<"wake", t>>} \cup
       (IF "Suspended" \in Ops THEN {<<"suspend", t>>} ELSE {})
  /\ UNCHANGED <<status, list, valid, trigger, queue, refused, schedVars, called>>

\* ... attaches its condition, which may have been triggered by then, ...
Attach ==
  LET t == call[2] IN
  /\ call[1] = "attach" /\ Free(t) /\ ~jammed
  /\ attached' = attached \cup {t}
  /\ IF trigger[t] THEN Enqueue(t) ELSE UNCHANGED queue
  /\ call' \in {<<"wake", t>>} \cup
       (IF "Suspended" \in Ops THEN {<<"suspend", t>>} ELSE {})
  /\ UNCHANGED <<status, list, valid, trigger, refused, schedVars, called>>

\* ... suspends it when it is created as suspended, ...
CreateSuspended ==
  /\ call[1] = "suspend"
  /\ SetState(call[2], "SUSPENDED")
  /\ call' = <<"wake", call[2]>>
  /\ UNCHANGED <<list, execVars, schedVars, called>>

\* ... and wakes the scheduler if it is asleep.
WakeAll ==
  /\ call[1] = "wake"
  /\ IF phase = "asleep"
       THEN Go("done", "begin", <<>>) /\ alarm' = Infinite
       ELSE UNCHANGED <<phase, step, todo, alarm>>
  /\ call' = NoCall
  /\ UNCHANGED <<status, list, execVars, found, next, triggered, called>>

\* ScheduledTask::Trigger and Resume, which are done in two steps.
Trigger(t) ==
  /\ Calls("Trigger") /\ t \in attached
  /\ SetIffNotExecuting(t, "STARTING")
  /\ call' = IF IsExecuting(status[t]) THEN NoCall ELSE <<"raise", t>>
  /\ UNCHANGED <<list, execVars, schedVars, called>>

TriggerRaise ==
  /\ call[1] = "raise"
  /\ Raise(call[2])
  /\ call' = NoCall
  /\ UNCHANGED <<status, list, schedVars, called>>

Resume(t) ==
  /\ Calls("Resume") /\ t \in attached
  /\ SetIffNotExecuting(t, "RESUMED")
  /\ call' = IF IsExecuting(status[t]) THEN NoCall ELSE <<"resumed", t>>
  /\ UNCHANGED <<list, execVars, schedVars, called>>

ResumeWake ==
  /\ call[1] = "resumed"
  /\ called' = TRUE
  /\ call' = NoCall
  /\ UNCHANGED <<status, list, execVars, schedVars>>

Suspend(t) ==
  /\ Calls("Suspend") /\ t \in attached
  /\ SetState(t, "SUSPENDED")
  /\ UNCHANGED <<list, execVars, schedVars, called, call>>

\* FutureInvokerBase::Cancel
Cancel(t) ==
  /\ Calls("Cancel") /\ t \in attached \ leaked
  /\ flagged' = flagged \cup Runners(t)
  /\ status' = IF status[t].state = "CANCELLED" THEN status
               ELSE [status EXCEPT ![t] = Failure(@, "CANCELLED")]
  /\ UNCHANGED <<list, execVars, schedVars, called, call>>

ClientGoesOn ==
  (Attach \/ CreateSuspended \/ WakeAll \/ TriggerRaise \/ ResumeWake) /\ UNCHANGED calls

ClientStep ==
  /\ \/ /\ ClientGoesOn \/ \E t \in Tasks : Add(t) \/ Trigger(t) \/ Resume(t) \/ Suspend(t)
        /\ UNCHANGED flagged
     \/ \E t \in Tasks : Cancel(t)
  /\ UNCHANGED <<place, hand, leaked, jammed, aborted>>

-----------------------------------------------------------------------------
\* Time passes, wherever the threads are.  A task that is not late begins and ends
\* again before its timeout, which is counted from its last start.
Tick ==
  /\ \/ "Late" \in Ops
     \/ \A t \in Members(list) :
          IsExecuting(status[t]) \/ IsInAttempt(status[t], Policy[t])
            => status[t].age + 1 < Policy[t].timeout
  /\ status' = [t \in Tasks |->
       IF t \in Members(list) THEN [status[t] EXCEPT !.age = Lesser(@ + 1, MaxAge)]
       ELSE status[t]]
  /\ alarm' = IF phase = "asleep" /\ alarm \in 1..MaxAge THEN alarm - 1 ELSE alarm
  /\ UNCHANGED <<list, execVars, phase, step, todo, found, next, triggered, called,
                 workerVars, clientVars, aborted>>

Next ==
  \/ aborted = "none" /\ (SchedulerStep \/ ClientStep \/ Tick)
  \/ aborted = "none" /\ \E w \in Workers : WorkerStep(w)
  \/ aborted # "none" /\ UNCHANGED vars

Spec == Init /\ [][Next]_vars

\* Every thread goes on when it may, tasks end, and time passes.
Fairness ==
  /\ WF_vars(aborted = "none" /\ SchedulerStep)
  /\ \A w \in Workers : WF_vars(aborted = "none" /\ WorkerStep(w))
  /\ WF_vars(aborted = "none" /\ ClientGoesOn /\ UNCHANGED <<workerVars, aborted>>)
  /\ SF_vars(aborted = "none" /\ Tick)

FairSpec == Spec /\ Fairness
-----------------------------------------------------------------------------
(* Properties.                                                             *)

TypeOK ==
  /\ status \in [Tasks -> StatusType]
  /\ list \in Seq(Tasks) /\ queue \in Seq(Tasks)
  /\ todo \in Seq(Tasks) /\ found \in Seq(Tasks)
  /\ attached \subseteq Tasks /\ refused \subseteq Tasks
  /\ trigger \in [Tasks -> BOOLEAN] /\ {valid, jammed} \subseteq BOOLEAN
  /\ flagged \subseteq Workers /\ leaked \subseteq Tasks
  /\ phase \in Phases /\ step \in Steps
  /\ step \notin {"begin", "each"} => todo # <<>>
  /\ next \in Durations /\ alarm \in Durations
  /\ triggered \in BOOLEAN /\ called \in BOOLEAN
  /\ place \in [Workers -> Places]
  /\ hand \in [Workers -> Tasks \cup {None}]
  /\ \A w \in Workers : hand[w] = None <=> place[w] \in {"none", "loop", "get", "guard"}
  /\ calls \in 0..MaxCalls
  /\ call \in {NoCall} \cup {"attach", "suspend", "wake", "raise", "resumed"} \X Tasks
  /\ aborted \in {"none", "FindReady", "ComputeEarliestReadyIn", "IsStarted", "Remove"}

\* The assertion of ThreadPool::operator(): whatever the client, the scheduler
\* and the workers do to a task's status and condition at the same time, no
\* worker is handed a task that another one has started.
NotStartedTwice == aborted # "IsStarted"

\* The trigger of t is set and on its way to a worker.
OnItsWay(t) ==
  /\ trigger[t]
  /\ \/ t \in Members(queue) \/ t \notin attached \/ t \in refused
     \/ \E w \in Workers : hand[w] = t

\* A task marked STARTING is never forgotten: somebody is about to set its
\* trigger, or it is on its way to a worker, unless the wait set refused it.
StartingIsServed ==
  \A t \in Tasks : status[t].state = "STARTING" =>
    \/ OnItsWay(t)
    \/ phase = "raise" /\ Head(todo) = t
    \/ call = <<"raise", t>>
    \/ t \in refused

\* No assertion fails while only the scheduler uses the tasks.
NoAssertFails == aborted = "none"

\* A task starts only when its policy allows another attempt and its initial
\* delay, its period or its retry period is over.
StartsWhenDue ==
  [][\A t \in Tasks : \A w \in Workers :
       place[w] = "entry" /\ hand[w] = t /\ place'[w] = "running"
         => IsReadyToExecute([status[t] EXCEPT !.state = "NO"], Policy[t])]_vars

\* A task that runs for ever runs again and again.
RunsAgain ==
  \A t \in Tasks : Policy[t].kind = "FOREVER" /\ t \in Initial =>
    []<>(\E w \in Workers : place[w] = "running" /\ hand[w] = t)

\* A task that has had its attempts or its success leaves the pool.
DoneIsRemoved ==
  \A t \in Tasks : ~IsInAttempt(status[t], Policy[t]) ~> t \notin Members(list)

\* A task that is scheduled starts, unless it is suspended: also one that is
\* added while the scheduler is about to sleep, or that the scheduler triggers
\* before schedule() has attached its condition.
AddedStarts ==
  \A t \in Tasks :
    t \in Members(list) ~> status[t].attempts > 0 \/ status[t].state = "SUSPENDED"
=============================================================================
