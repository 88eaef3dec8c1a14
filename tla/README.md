# TLA+ models of intact's concurrency core

This directory models the part of the repository on which everything else
waits: the condition variable and the locks of `BaseLib`, the wait set, the
futures and the thread pool of `RxConcurrent`, and, of the libraries above them, the
command controller of `RxCommand` and the signaller of `RxSignal`. The models are written in
TLA+, checked with TLC on small instances, and their main invariants are proved
for any number of threads, conditions, tasks or commands with TLAPS.

## The system

The repository is a set of C++ libraries and processes (about 207 000 lines).
A thread pool is at its centre: every reactive library above it (signals,
observers, streams, actors, commands), the RTPS implementation and the older
middleware schedule their work on it.

| Component | State it keeps | Operations | Interacts with |
|---|---|---|---|
| `BaseLib/WaitCondition` | `waiters`, `wakeups`, a pthread condition and its mutex | `wait`, `wakeOne`, `wakeAll` | releases and locks the caller's `Mutex` or `ReadWriteLock`; reads the thread's interrupt flag |
| `BaseLib/Mutex`, `MutexLocker` | a pthread mutex | `lock`, `unlock`, `tryLock` | `lock` throws in an interrupted thread, after it has acquired the mutex |
| `BaseLib/Thread` | interrupt flag, running state | `interrupt`, `isInterrupted`, `unsetInterrupt`, `start`, `wait` | `interrupt` wakes the thread's own notifier only |
| `BaseLib/ReadWriteLock` | a pthread read-write lock, `accessCount_` | `lockForRead`, `lockForWrite`, `unlock`, tries | throws like `Mutex`; given up and taken again inside `WaitCondition::wait` |
| `BaseLib/Collection` (`PCList`, ring buffer, weighted fair queue, blocking queue) | lists, buffers, weights | push, pop, enqueue, dequeue | `PCList` waits on a `WaitCondition` with a `ReadWriteLock`; sockets, proxies and stubs queue their messages in it |
| `RxConcurrent/WaitSet` | `valid_`, `conditions_`, `triggeredQueue_`, `triggeredConditions_` | `Wait`, `WaitDispatch`, `WaitDispatchNext`, `WaitGetNext`, `Signal`, `Attach`, `Detach`, `Stop`, `Start`, `WakeAll`, `ClearTriggeredQueue` | called back by conditions; locks conditions only outside its own mutex |
| `GuardCondition`, `AbstractCondition` | `triggerValue_`, a functor, the set of wait sets | `SetTriggerValue`, `Dispatch`, `SetHandler`, `ResetHandler`, `Attach`, `Detach` | signals a copy of its wait sets; runs its functor under its mutex |
| `FutureInvokerBase` | result, status, current thread, callbacks | `Entry`, `Exit`, `Next`, `Complete`, `Error`, `Interrupt`, `Cancel`, `Result` | run by a worker through `RunnableFutureExecution::Perform` |
| `Status/ExecutionStatus` (with `ExecutionCount`, `ExecutionTime`) | a state, counters, times of the last success and failure | `Start`, `Success`, `Failure`, `Cancel`, `Interrupt`, `Suspend`, `Resume`, `Reset` | shared by future, scheduler and clients |
| `Strategy/ExecutionChecker` | none | attempts, interval, retry interval, timeout, time until ready | read by the scheduler and by the command controller |
| `ThreadPool`, `ScheduledTask(s)`, `Workers`, `Worker` | tasks with policies, workers, two wait sets | `schedule`, `run`, `Trigger`, `Resume`, `Suspend`, `RemoveDone`, `InterruptTimeoutTasks` | triggers the tasks' conditions; workers take them from a wait set, run their handlers and wake the scheduler through a guard |
| `RxCommand` | a controller's status and trigger, a group of commands with a status each, a subscription | `run`, `Execute`, `Trigger`, `Reset`, `Cancel` | schedules itself on one pool and its commands on another |
| `RTPS` writers and readers | history caches, proxies, sequence numbers | changes, heartbeats, acknacks | messages over UDP; own wait sets |
| `RxSignal` | a signaller's slots by handle, the next handle; a holder per slot | `Connect`, `Disconnect` in four forms, `Signal`, `AsynchSignal`, `Block` | calls observers under its mutex; signals asynchronously through the pool |
| `RxObserver`, `RxData`, `DataReactor`, `RxActor` and the other reactive libraries | subscriptions, caches | publications | threads of the pool; signallers |
| `DDS`, `DCPS`, `NetworkLib`, `MicroMiddleware` and the managers | publish/subscribe, sockets, services | | use the components above |
| `GraphLib` | graphs | algorithms on trees and meshes | none: sequential, for simulations |

`PROJECT.json` lists all of them with what is modelled of each.

Correctness, per component:

* `WaitCondition`: a wake is neither lost nor given twice; the counters match the
  threads; its own assertions hold; an interrupt ends a wait.
* `ReadWriteLock` and `PCList`: the counter agrees with the lock, through `wait` and
  through exceptions; no consumer sleeps beside a list that has elements.
* `WaitSet`: every trigger of an attached condition is handled; the list and the
  set of triggered conditions agree; a trigger set while the handler runs is not
  wiped out; one wake per signal is enough; `Stop` lets everybody go.
* `FutureInvoker`: a waiting client gets the last result; an interrupt stays
  with the run it was meant for; the worker survives.
* `ThreadPool`: a task that has started is not started again; a task is not
  stranded in `STARTING`; tasks start when they are due, for as long as their policy
  says, and then leave the pool.
* `RxCommand`: the limit on concurrent commands holds; runs of a command do not
  overlap; an execution ends, once, and those who wait for it are told.
* `RxSignal`: an observer is not called once it was disconnected; a handle names one
  slot; a call of the signaller ends, whatever its observers throw.

Hard behaviours: the two-mutex hand-over from a condition to a wait set; sliced
sleeps whose end races a signal; exceptions thrown by `Mutex::lock` and
`ReadWriteLock::lock` after the lock was taken; administrative calls between the
halves of a hand-over; a scheduler that decides from a status it reads piece by
piece while the workers and the client change it; results, statuses and wakes in
the right order. `PROJECT.json` lists each with its line under "hazards".

## Modules

| Module | Models | |
|---|---|---|
| `CondVar` | what `WaitCondition` promises its callers | abstract |
| `WaitCondition` | `WaitCondition.cpp`, `Mutex.cpp`, the interrupt flag of `Thread.cpp` | implements `CondVar` |
| `ReadWriteLock` | `ReadWriteLock.cpp`, `ReadLocker.h`, `WriteLocker.h` | used by `PCList` |
| `PCList` | `Collection/PCList.h`, and `WaitCondition::wait(ReadWriteLock)` | composes `ReadWriteLock` and `WaitCondition` |
| `Dispatching` | what `GuardCondition` and `WaitSet` promise those who set triggers, and the handlers | abstract |
| `WaitSet` | `WaitSet.cpp`, `Condition.cpp`, `GuardCondition.cpp`, the loop of `Worker.cpp` | waits through `CondVar`, implements `Dispatching` |
| `FutureInvoker` | `FutureBase.h`, `RunnableFutureExecution`, `ExecutionStatus` | waits through `CondVar` |
| `ExecutionChecker` | `ExecutionChecker.cpp`, `Status/`, `Policy/`: functions of a status and a policy | used by the next two |
| `ThreadPool` | `ThreadPool/`, `RxConcurrent/Strategy/`: scheduler, workers, a client | wait sets as in `WaitSet`; its tasks implement `Dispatching` |
| `CommandController` | `RxCommand/`: controller, commands, a client | pools as multisets of runs |
| `Signaller` | `RxSignal/`: a signaller, its slots and the threads that use it | the pool is a number of pending signals |
| `WaitCondition_proofs`, `PCList_proofs`, `WaitSet_proofs`, `FutureInvoker_proofs`, `ExecutionChecker_proofs`, `ThreadPool_proofs`, `CommandController_proofs`, `Signaller_proofs` | theorems about the module of that name | TLAPS |
| `MCWaitSet`, `MCThreadPool`, `MCCommandController` | values of function-typed constants for TLC | |

`WaitCondition`, `PCList`, `FutureInvoker` and `Signaller` need no values TLC's
configurations cannot write, so their runs check these modules directly.

`CondVar` is the joint between `WaitCondition` and its users. `WaitCondition` has the
counters, the internal mutex and the slices, and is proved to implement `CondVar`
under the mapping `cvBar`; `WaitSet` and `FutureInvoker` then use the actions of
`CondVar` (`Sleep`, `Bypass`, `GiveUp`, `WakeOne`, `WakeAll`, `Return`) and so need
neither counters nor slices of their own. `PCList` has a consumer that takes an element
after `wait` without a second look, so the leftover wakeups matter to it: it uses the
actions of `WaitCondition` itself.

`Dispatching` is the joint between `WaitSet` and `ThreadPool`. It knows which conditions
have a trigger that no handler has answered and which thread runs which handler, and
nothing of mutexes, queues or wakes. `WaitSet` implements it with two mutexes, a queue and
`CondVar`. `ThreadPool` takes each operation of its two wait sets as one step, and is
proved to implement it too, with tasks for conditions and workers for threads: so the
coarser steps promise the tasks no more than the wait set keeps. That the trigger also
arrives is `WaitSet`'s other theorem (no trigger is lost).

### WaitCondition

One step is what the code does between locking and unlocking its internal mutex;
a thread gives that mutex up only inside `pthread_cond_timedwait`. `pc[t]` says
where a thread is: `asleep` in the pthread call, `sliced` after it returned
`ETIMEDOUT`, `signalled` after it returned 0, `relock` between `wait`'s verdict
and the caller's mutex. `waiters` and `wakeups` are the fields of that name.
`MaySleep` is the loop's condition; `LeaveUnwoken` and `LeaveWoken` are the two
ways out of the loop. A pending wakeup that found nobody to signal is taken by a
thread whose slice has ended, without counting it down, as the code does.
`Mutex::lock` throws in an interrupted thread after the lock was taken:
from a locker's constructor this leaves the mutex locked (`Lock`), inside `wait` the
caller's locker unlocks it (`Relock`). Time is not counted: a deadline may
pass at any moment (`Expire`) and a slice may end at any moment (`SliceEnds`).

### ReadWriteLock and PCList

`ReadWriteLock` keeps a pthread lock (`readers`, `owner`) and, beside it, the counter
`accessCount_`, -1 for a writer. The code changes the two one after the other, so a
thread passes through the `stage`s `entered` (it has the lock and is not counted) and
`leaving` (it is counted out and has the lock still). An interrupted thread throws
when it has been counted: in the constructor of a locker that leaves the lock taken
(`leaked`); in `wait`, where the locker exists already, the destructor unlocks. The
assertions of the three operations set `failed`.

`PCList` is the list under that lock. Producers push and then wake one consumer; a
consumer that finds the list empty waits and then takes an element, whatever it was
that ended its wait: the code says `if`, not `while`. A pop of the empty list is
undefined in `std::list`, and the model ends there (`emptied`).

### WaitSet

What `WaitSet` does under its own mutex is one step. The mutex of a condition is
taken and released within a step, except by `Dispatch`, which keeps it while the
functor runs: `holder[c]` is the thread that does, and `Free(c)` guards every step
that locks it. `SetTriggerValue(true)` is four steps, since the code gives up a
mutex between them: `Ask`, `SetTriggerValue`, `SignalAll` (copy the wait sets),
`Signal`. `Attach` and `Detach` are three steps each. Workers loop in
`WaitGetNext`; dispatchers make the timed calls, named by `aim`. A handler may
trigger the conditions `Triggers` lists and may throw. `unseen` and `dropped` are
history variables: triggered since the handler last began, and dropped by a step
whose purpose is to drop it. For `Dispatched`, the instance of `Dispatching`, a trigger is
pending while its value is set and no handler of its condition runs.

`Ops` selects the administrative operations of an instance, so that each run
keeps the interleavings it is about. `waitset` has no `Attach` and `Detach`; that no trigger is
lost and the queue stays consistent with them, too, is what the theorems say.

### FutureInvoker

`place` is the worker's position in `Perform`. Each step that locks the future's
mutex is one action and goes through `Locked`, which models the exception of
`Mutex::lock`: every handler of `Perform`, `DefaultRunnableExecution` and
`WaitSetExecutionStrategy` locks something before it calls `unsetInterrupt`, so
the exception leaves `Worker::run` and the future's mutex stays locked (`leaked`).
Times are run numbers. `Store` and `StoreEnds` are the assignment of `run()`, made
without the mutex: between the two, what a client copies of `result_` is undefined
(`Garbage`), and afterwards it is the value `Next` has stored, or one that was never
assigned after an exception that is not a `GeneralException`. So `ReadyIsCurrent`
excepts a client that copies while the assignment is under way: that copy may be torn,
though the client is told `Ready`. `Faults` selects what may go wrong.

### ExecutionChecker

A status is a record (the state, the numbers of attempts and successes, whether
the last failure is later than the last success, the time since the last start), a
policy is a record too. `Overcounts` is the assertion of `ExecutionCount::Success` that no
status has more successes than starts: a run that was started before its status was reset
can fail it, which `CommandController` has. The functions of `ExecutionChecker.cpp` are operators on the
two: whether another attempt is allowed, how long until the next one after a
success, after a failure, until the timeout, and `EarliestReadyIn` with the assertions
at its end (`Postcondition`). The module has no behaviour; the two modules
below use it, `ThreadPool` one operator at a time.

### ThreadPool

`phase` is where `ThreadPool::run` is (the comment on `Phases` names the functions) and
`step` where it is in the loop of that phase. The point of the model is the grain:
`ComputeEarliestReadyIn` asks one strategy after the other and each of them reads the
status under its own lock, so each is a step, and the workers and the client go on
between any two. The same holds of `FindReady` and its assertions (`find`, `assert`),
of `IsReady` and what follows it (`check`, `recheck`), of `triggerTask` (`trigger` to
`raise`), of `RemoveDone` and of `InterruptTimeoutTasks`. The last walks the list itself,
without the lock, so a task that is added meanwhile is still visited (`Add`). Time may pass
between any two steps: a scheduler may be kept as long as it likes between two reads
of one status. `RemoveDone` removes what it has found one task after the other
(`drop`), each with the assertion of `ScheduledTasksState::Remove` that the list held it
once. A worker is at a `place`: it takes a condition from the wait
set, looks at its trigger, and runs the handler, which starts the task, ends it, and
sets the guard that wakes the scheduler. An interrupt or a cancel sets the flag of the
worker's thread (`flagged`). A run that notices in time ends by an exception (`Exit`); one
that does not makes `FutureInvokerBase::Exit` throw, and the worker dies (`Die`) with the future
locked (`leaked`). When its thread is started again the flag is still set: it dies at
once with the mutex of the executors' wait set (`jammed`), and everybody who comes to it
blocks. A scheduler that has too many workers asks them whether they are idle, and blocks
at a dead one (`hung`), whose own status is locked too. `Free(t)` holds while no handler has the
condition's mutex; `TasksFree` while the scheduler does not hold the mutex of the
list. The client's `schedule` and the methods of its handle are two steps each where
the code gives up a lock in between (`call`). Times are ages: time passes by `Tick`, in
units of the shortest policy. A failed `ASSERT` sets `aborted` and ends the behaviour.
`Ops` selects what the client and the tasks may do.

### CommandController

`run` of the controller holds the scheduling mutex from its beginning to its end,
the client's calls hold another one, and the commands end under neither. One test or
one update of `schedule()` is one step, named by `phase`: the group's state, its next
execution, what to time out, what to start and how much room there is for it, when
to run again, and the end of the execution. A pool is the runs it has been given:
`live[c]` runs of command `c`, `due[d]` runs of the controller to start in `d`. A
command that was stopped may still run, and its end is that of a run nobody
waits for; if the status was reset meanwhile, it completes the execution that follows, or
is a success too many, and the assertion of `ExecutionCount::Success` ends the behaviour
(`aborted`). `stopped` and `overtaken` are history variables the properties refer to.

### Signaller

What is done under the mutex of `slotMap_` is one step, but for `signal`: it keeps the
mutex (`owner`) while it calls one observer after the other, so the other calls wait
(`Free`), and blocking a slot, which takes no mutex, comes in between. `connect` reads the
handle before it takes the mutex (`Connect`) and inserts under the handle that is next by
then (`Insert`); the `SlotHolder` it gives out names the first of the two. `disconnect` and
`disconnectAll` collect under one lock and erase under others (`copy`). `left` is a history
variable: the slots whose disconnect has told success. An assertion that fails, or an
iterator that is used after its slot is gone, ends the behaviour (`failed`).

## Runs

| Run | Instance | Shows |
|---|---|---|
| `waitcondition` | 2 threads, fair | counters exact, signalled threads covered, the assertion on `wakeups`, wakes kept, `CondVar` implemented, an interrupt ends a wait |
| `waitset` | a worker, a dispatcher with every timed call, 2 conditions, stop, start, clear, handlers, resets, throw | no trigger lost, queue consistent |
| `waitset_live` | 2 workers, 2 conditions, attach, detach, throw, fair | every trigger is handled, one wake per signal conserves the work, `Dispatching` is implemented |
| `future` | 3 runs, 2 clients, all faults, fair | interrupts scoped, outcomes recorded, results current but for a torn copy, clients released |
| `threadpool` | 1 task, 2 workers, 3 client calls, every disturbance but `Fail` | no task is started twice, no task is stranded in `STARTING`, also when workers die |
| `threadpool_live` | 2 tasks, one periodic, one once-only and added later, 1 worker, time passes between any two reads, fair | no assertion fails, tasks start when due, the periodic one for ever, a task that is done leaves |
| `threadpool_added` | 1 task, scheduled into an empty pool, fair | violation: the task is never started |
| `threadpool_immediate` | 1 task of the policy `RunOnceImmediately` | violation: an assertion of `ComputeEarliestReadyIn` |
| `pclist` | 1 producer, 2 consumers, all of which read too, 2 pushes, 2 reads, deadlines and interrupts, fair | counter and lock agree, assertions hold, no consumer sleeps beside an element |
| `command` | 2 commands, limit 1, 2 client calls, fair | limit kept, runs do not overlap, an execution ends once, no command holds the controller up, unless a success too many aborts |
| `command_wait` | 1 command, 1 call, fair | violation: those who wait for an execution are never told |
| `signaller` | 2 threads, 2 targets, 2 slots and one more by concurrent connects, 1 pending signal, fair | nobody is called after its disconnect, handles stay unique, calls end |

Bounds and why they suffice. Two threads on a `WaitCondition` let a wake meet a
sleeper and a thread whose slice has ended; the theorems below remove the bound. Two
conditions give a queue with an order and a handler that triggers another condition;
two takers give one that is busy and one that sleeps. In the passing runs the
handlers trigger in one direction: handlers run under their condition's mutex, so two
that trigger each other's conditions would block one another, and the repository gives
no rule that forbids it. A setter thread starts from anywhere, so one of them and the
handlers make two concurrent `SetTriggerValue` calls. Three runs of a future let a
client that began to wait in the first run get its answer from the second or the
third. One task is what the races about a single status and condition take; two
workers let one run it while the other is handed it again; three calls of the client
let it trigger, suspend and trigger again within one pass of the scheduler. Two
consumers let a wake find one that is leaving while the other sleeps; two pushes let a
wakeup be left over. The three threads of `pclist` also read, so that two readers are in any
two halves of `lockForRead` and `unlock` while the third writes. Two commands with room for one make them compete; two calls
let `Execute` meet an execution that is still ending. Two threads let one disconnect or
connect while the other does or signals, and give out two holders with one handle.

Bounds inside the modules: `MaxRuns` (runs of a future), `MaxAge` (ages stop at it; it is
not less than any duration that passes: in the runs of the pool ages stop at 1 or 2, and a
duration of `Infinite`, 2 or 4, is one that does not), `MaxCalls` (calls of a
client), `MaxPushes` and `MaxLooks`, `MaxSlots` and `MaxPending` (slots after which nobody
begins to connect, asynchronous signals that wait).

`threadpool` is checked up to a permutation of the workers: it has invariants only and
none of its constants names a worker other than the set of all of them. No other run
uses symmetry.

Every property of a passing run has a mutant of the model in the same module
(marked `Mutant:`), a plausible slip in the mapped code, under which TLC finds
that property violated.

`CHECK_DEADLOCK FALSE` is said for the instances that really end: clients and
producers have a bounded number of calls, and a failed assertion ends a signaller.

`WorkConserved` is not claimed for `Wait` and `WaitDispatch(condition)`: these
calls absorb a wake and leave the queue alone, so they do not mix with workers
on one wait set. The repository never mixes them.

`SleeperServed` excepts interrupted consumers: one that was chosen by a wake and is
interrupted takes the wakeup with it. `EndsOnce` excepts an `Execute` that comes
between the two steps in which a run ends the execution before it; that run then tells
the new subscription the old outcome.

### Fairness

* `WaitCondition`: a blocked thread's slice ends (the code sets a limit of five
  seconds), and a released thread runs on.
* `WaitSet`: a taker that may step does; `SetTriggerValue` ends; a handler
  returns. The last is strong fairness, since a handler that keeps setting
  triggers passes through states in which it cannot return yet. Giving up a wait
  is not fair: the workers wait without a deadline.
* `FutureInvoker`: a run that has begun goes on; a client that was woken, or that
  wakes up to a success, returns. Clients may wait without a deadline.
* `ThreadPool`: the scheduler, every worker and a client in the middle of a call go on,
  so tasks end; the client need not call. Time passes, wherever the threads are: strong
  fairness, since a tick changes nothing while every age is at its bound and the
  scheduler does not sleep.
* `PCList`: every operation that has begun ends. Locking again after a wait is strongly
  fair: the pthread lock is free again and again, and the others do not come for ever.
  Nobody need call, be interrupted or run out of time.
* `CommandController`: its pool starts the runs that are due and a run goes on, a client
  finishes its call, time passes. A command may run for ever: that is what its
  timeout is for.
* `Signaller`: a call that has begun goes on, strongly fair, since the mutex is free again
  and again and others take it meanwhile. Observers return or throw; nobody need call.

## Disagreements between code and text

Three runs are expected to find a violation; `PROJECT.json` quotes the assertion, the
comment or the test each of them contradicts.

* `threadpool_immediate`: `ComputeEarliestReadyIn` takes an executing task to be ready
  in its period, and asserts that a task that is ready now does not execute. With the
  period of zero that `RunOnceImmediately` has, the assertion fails when the scheduler
  asks at that moment.
* `threadpool_added`: `schedule` wakes the scheduler with `WakeAll`, which reaches only a
  thread that is asleep. A scheduler that has just found its pool empty, and is about to
  wait without end, misses it.
* `command_wait`: a controller runs again when the earliest command is ready. When the
  last command ends before that is asked, the answer is "never", and the run that would
  have told the subscription is not scheduled.

Other steps in which the code does less than its text suggests are in the models and
listed under "hazards" with a note: the assertion in `WaitSet::Signal` during `Attach`
(`SignalAborts`), a worker that sleeps on after `Stop` (`Get`), a `WaitDispatch(condition)`
that misses its trigger (`Peek`, `AwakeForOne`), a worker that dies by an
interrupt (`Exit` of `FutureInvoker`, `Die` of `ThreadPool`), a success of a run that was left
over from before its command was reset (`Complete`), a `PCList` that is popped when it is empty (`Take`),
a `SlotHolder` that names another slot (`Inserts`), the assertion of `disconnectAll` and the
iterators of `emptyCollection` when another thread disconnects (`DisconnectNext`,
`EmptyCollection`). `Signaller1.h` says that `Block` suspends signalling; `signal` never reads
the flag that `Signaller::Block` sets.


## Proofs

A run says something about two or three threads, tasks or commands. The theorems below hold
for all values of the constants, under the named assumptions of the modules and, for four of
them, a hypothesis that is named with it. Each follows the same course: an invariant `IInv`
(or a named part) that TLC has confirmed first, `Init => IInv`, one lemma per action or
group of actions for `IInv /\ [Next]_vars => IInv'`, and `IInv => Inv`.

**`WaitCondition_proofs`**: `[]TypeOK`, `[]WaitersCounted`, `[]SignalledCovered`,
`[]WakeupAsserted`, `ReleaseKept` and `ImplementsCondVar`, for every finite set of threads. The
model takes `pthread_cond_timedwait` to return 0 only to a thread that a signal or a
broadcast released. POSIX allows it to return 0 without one; the code's own assertion
on line 107 of `WaitCondition.cpp` rules that out, and would abort the process.

The invariant is `IInv == TypeOK /\ WaitersCounted /\ SignalledCovered`. None of its
conjuncts is inductive alone: `--waiters` keeps its type because `waiters` counts
the waiting threads, of which the leaving one is a member; `wakeOne` caps `wakeups` at
`waiters`, which is enough for the signalled threads only because those are among
the waiting ones. Steps that move nobody between the two sets are settled together by
`CountersAside`, those that do by `JoinLeave`, which relates a cardinality to that of
the set with one member more or less. For `ReleaseKept` the step that matters is a wake
with a sleeper and a thread whose slice has ended: the signalled threads, with the new
one, are a proper subset of the waiting ones, so capping `wakeups` at `waiters` still
leaves one wakeup too many for them.

`Implements` is the refinement: `cvBar` maps a thread to what its caller sees, the lemmas
`Views` and `NextViews` read that mapping off, `WakeOneImplements` and `StepsImplement`
show that each step is one of `CondVar` or a stutter.

**`WaitSet_proofs`**: `[]TypeOK`, `[]QueueConsistent`, `[]TriggerKept`,
`ImplementsDispatching` and `[]NoLostTrigger`, for any conditions, takers, setters, handlers
and administrative operations, and `[]WorkConserved`. The takers wait through `CondVar`; all
but the last need nothing about its wakes beyond their types, since they are about what
is queued.

* `Typed` adds to `TypeOK` which calls wait for the queue (`Aimed`) and
  `QueueConsistent`, without which the front of the queue need not be a
  condition that is attached. `AppendOnce`, `TailOnce` and `WithoutOnce` say what
  `push_back`, `pop_front` and `remove` do to a list that holds its members once each.
* `Guarded` adds to `TriggerKept` that a handler runs under its condition's mutex,
  and that a condition whose mutex is held was not triggered since: hence the reset
  at the end of `Dispatch` wipes out nothing.
* `DispatchingIsImplemented` is the refinement. It needs `Guarded`, and `Answering`: a
  condition whose handler runs is triggered, so that a handler that throws leaves its
  trigger behind. Steps that change neither a trigger nor a handler are stutters
  (`Stutters`); those that set a trigger, or reset one without a handler, are `Set`
  (`SetsTrigger`); `TakerDispatches` has the rest. `HandlersExclude` follows from it:
  two takers never run one handler.
* `Lossless` adds to `NoLostTrigger` that the wait set knows no condition that does
  not know the wait set, which holds because `Attach` tells the condition first and
  `Detach` tells it last, and that a condition `Attach` has found quiet is accounted
  for from its next trigger on.
* `AbortsOnlyInAttach` says how far the assertion of `WaitSet::Signal` can be trusted. It does
  fail; but where nothing is detached, only for a trigger that comes between the two
  halves of an `Attach` of its own condition. `Known` is its invariant: the conditions that
  know the wait set are those that it knows, and the one that `Attach` is at (`Half`).
* `WorkIsConserved` is about finitely many takers that come for the queue (`ForTheQueue`).
  `Working` adds to `WorkConserved` that whoever is inside `wait` is where the model says so.
  A step is one of four kinds: nobody turns away from the queue and nothing is added
  (`NobodyTurnsAway`), nothing is queued (`NothingQueued`), a taker turns away with a condition
  (`OneIsTaken`), or a condition is queued and a sleeper joins those on their way
  (`OneIsQueued`).

**`PCList_proofs`**: `[]TypeOK`, `[]AccessCounted` and `[]AssertionsHold`, for every finite set
of threads. `IInv` joins the invariant of the lock (`LockIInv`: who holds it, counted or not
yet), that of `WaitCondition_proofs` as it stands (`WP!IInv`), and `Placed`, which says that
a thread inside `wait` holds no lock and that a thread in a writer's task owns it. The
counter stays right because a writer is alone and the counted readers are a finite set.

**`FutureInvoker_proofs`**: `[]TypeOK`, `[]InterruptScoped`, `[]OutcomeRecorded` and
`ReadyIsCurrent`, for any clients, runs and faults. `Dated` bounds every time by the run
that began last; `Scoped` says that `currentThread_` is set from `Entry` to `Exit` only;
`Settled` that from the moment a run's outcome is recorded until the next begins, no
interrupt can change it. `Stored` says that while the status is a success and no second
assignment is under way the result is that of the last run: `run()` assigns `result_` once
more without the mutex, and what it leaves there is the same value, or another one only
after `Error` has taken the success back. While it assigns, a client that is told `Ready`
may copy anything, and the theorem says nothing of it.

**`ExecutionChecker_proofs`**: about the functions themselves, for every status and policy.
`ComputeEarliestReadyIn` and `IsReadyToExecute` are two programs for one question.
`ReadyNowIsReady` says that an answer "now", for a task that does not execute and has
attempts left, meets the assertions at the function's end; `ReadyIsReadyNow` that the
converse holds but for a first run whose period is shorter than its initial delay. Since
the proof is about one unchanging status, it also says what the run `threadpool_immediate`
is about: without the premise that the task does not execute, the assertions do not
follow. Three more theorems are about sleeping for what the function says.
`ReadyAfterWaiting`: whoever does finds the task ready. `WaitIsExact`: for a task that
has not failed, the answer shrinks by just the time that passes. `RetryIsNotAnnounced`
shows that the premise is needed: the time until a retry is told only when it is over, so
a failed task is announced for its next execution, however much sooner its retry is.

**`ThreadPool_proofs`**: `[]TypeOK`, `[]NotStartedTwice`, `[]StartingIsServed`, the
assertion of `ScheduledTasksState::Remove` (`RemovedOnce`) and the refinement of
`Dispatching`, for any tasks, workers, policies and calls of the client, whichever workers die.

* `IInv` adds to the two safety invariants `StartedRuns` (only a task that a worker runs,
  under its condition's mutex, is `STARTED`) and `RaiseWaits` (a task that is marked `STARTING`
  while its handler runs is about to have its trigger set: otherwise the reset at the
  handler's return would wipe the trigger out and strand it). `Held` has the types of what
  scheduler, workers and client share, `Typed` those of the scheduler's own, with
  `HasTask`: where it reads a status, there is a task to read it of.
* `Listed` and `Removable` say that the list holds every task once, a task that is about to
  be scheduled not at all, and that what `RemoveDone` has found is a part of it, in any
  order, until it has removed it. The client goes on adding tasks meanwhile.
* `DispatchingIsImplemented` maps a worker inside a task's handler to a thread that runs it,
  and a trigger no handler answers to a pending one; `OneWorkerPerTask` follows.
* `PoolInv` adds to `IInv` that no task is in the handlers of two workers (`OneHandler`) and
  where a worker may be whose flag is set (`Faults`): in a task that is no longer marked
  `STARTED`, ended, or about to begin anew. A worker that dies leaves the trigger of its task
  set for good (`DieKeeps`).
* `StartsWhenDue` is proved under `OnlyScheduled`: the client only schedules tasks. They may
  have any policies, throw, fail, be late and be interrupted, workers may die, and any time
  may pass between two reads of the scheduler. `ScheduledInv` follows a task from the read
  that finds it due to the worker that runs it: `Checked` (what `triggerTask` has found not
  executing, and then due, stays so until it marks it), `Marked` (a task marked `STARTING`
  is due), `Triggers` (a trigger belongs to a task that is marked, or is being run, or whose
  future is locked) and `Handled` (a handler begins with a marked task only). A client that
  triggers a task itself starts it whether it is due or not, hence the hypothesis.
* `[]NoAssertFails` is proved under `Undisturbed`. The client only schedules tasks, which do
  not throw and have no timeout that passes, and run for ever with a period or have a
  period that never passes. Nothing is assumed of how fast the threads are. `UndisturbedInv`
  says what the scheduler has read and still relies on (`Evaluated`): a task that waits
  and is due stays so until the scheduler triggers it, since only a worker that was handed
  it could change it. `AgeKeepsDue` is the step of time: a task becomes no less due with age.

  The hypothesis is a part of what is known about the code, not a convenience: `NoAssertFails`
  is false without it. TLC finds an assertion fail when tasks throw, since a task may fail
  between the read that finds it in attempt and the read of its next execution; when a
  timeout passes between two reads; and when the period of a once-only task, as
  `RunOnceIn` sets it, passes between them: the scheduler finds the task in attempt, is
  kept while a worker runs it, and then finds a task that is due again and has no attempt left. A
  period of zero is the run `threadpool_immediate`, and a client may suspend a task that was
  just found ready. The configuration of `threadpool_live` meets both hypotheses.

**`CommandController_proofs`**: `[]TypeOK`, `[]LimitKept`, `[]NoOverlap` and `EndsOnce`, for
any commands, policies, limit and calls of the client. `Typed` includes that no run is
dropped the pool does not have. `Limited` says that between `findReadyCommands` and the end
of `executeCommands` the commands it still has to start fit beside those that execute. The
step that takes work is the choice of the commands: all of them are among the startable ones
up to the last of them, of which there are no more than there is room for. `Single` is the
invariant behind `NoOverlap`: a command that was reset while it ran and was not stopped
(`Left`) exists only in a controller that is cancelled or timed out, and such a controller
starts nothing until its commands have been stopped (`Dead`, `AllStopped`). `Told` is the
one behind `EndsOnce`: as long as `Execute` has not overtaken a run that was ending the
execution before, those who wait are untold while the controller executes or a run is ending
it, and no second run finds an execution to end.

**`Signaller_proofs`**: `[]TypeOK`, `[]NotCalledAfterwards` and `[]InsertedFresh`, for any
threads, targets and bounds. `Locked` says that whoever goes through the slots has the mutex
and goes through connected ones; `Disconnected` that a slot that was told it is disconnected
is, unless its holder names another; `Numbered` that handles below `handle_` have been
given out and no others, which makes the next one nobody's however many threads read it
early. `ErasureKeeps` covers all ways to disconnect, since they all erase while nobody signals
(`NobodySignals`).

Every safety invariant and action property that a run checks is thus stated by a theorem,
`WorkConserved`, `NoAssertFails` and `StartsWhenDue` under a hypothesis their run meets.
What remains with TLC alone is liveness, under fairness, which is out of the prover's reach:
`InterruptNoticed`, `TriggerHandled`, `SuccessReleases`, `RunReleases`, `RunsAgain`,
`DoneIsRemoved`, `AddedStarts`, `SleeperServed`, `GetsDone` and `CallEnds`.

## Not modelled, and the plan

The share of the repository's lines that the models translate is small and stays so.
Most of the 207 000 lines are graph algorithms (`GraphLib`), sockets and addresses
(`NetworkLib`), message formats, settings and services of the older middleware, and
template layers whose concurrency is that of the components modelled here.

Of the modelled components:

* the Windows builds, lock-owner debugging, `tryLock` and the setters of callbacks;
* of the thread pool, stopping and clearing it (the wait sets' part of that is in
  `WaitSet`), the client's `Remove`, an external scheduler, task priorities, the life span of workers;
* of the commands, memento undo and redo, adding commands while they run, `Suspend` and
  `Resume`, the fatal exception path (exceptions are sliced when they are caught, so
  it is never taken);
* of the signals, `Block` of a whole signaller, which nothing reads, interrupted threads, and
  observers that call their signaller back: its mutex is not recursive, so they would wait
  for themselves;
* of the collections, `RingBufferQueue` and `WeightedFairQueue`, which nothing uses
  concurrently, and `BlockingQueue`, a template that nothing instantiates and that would
  not compile.

Of the others:

* `RTPS`: half of the reliable protocol is missing in the code. `mapChangesFromWriter_` is
  never filled, so no AckNack is sent, and `nackResponseTimer_` is never started, so none
  would be answered. A model could only check what is not there yet.
* `RxFSM`: a stub without a transition function.

Next, in this order: stopping and clearing the pool; the observable types built on a
signaller; connection set-up of `MicroMiddleware`.
