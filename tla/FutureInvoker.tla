--------------------------- MODULE FutureInvoker ---------------------------
(***************************************************************************)
(* RxConcurrent/FutureBase.h: a task that a worker of the thread pool runs, *)
(* once or again and again, while clients wait for its result and others   *)
(* interrupt or cancel it.  Its ExecutionStatus (BaseLib/Status) remembers  *)
(* a state and the start times of the last successful and the last failed  *)
(* run.  The worker runs it through RunnableFutureExecution::Perform, step  *)
(* by step as below; each step that locks the future's mutex is one action. *)
(*                                                                         *)
(* Mutex::lock throws InterruptedException in an interrupted thread after  *)
(* it has acquired the mutex, so the locker that asked for it never        *)
(* unlocks it (see module WaitCondition).                                  *)
(***************************************************************************)
EXTENDS Integers, FiniteSets

CONSTANTS
  Clients,      \* threads that call Result
  MaxRuns,      \* bound: how often the task is started
  Faults        \* what may happen besides: see AllFaults

\* Interrupt and Cancel: other threads call them.  Throw: the task throws a
\* GeneralException.  ThrowOther: it throws something else.  Callback: a
\* function set by OnNextDo, OnCompleteDo, OnErrorDo or FinallyDo throws.
AllFaults == {"Interrupt", "Cancel", "Throw", "ThrowOther", "Callback"}

ASSUME FutureAssumption == MaxRuns \in Nat /\ Faults \subseteq AllFaults

VARIABLES
  \* ExecutionStatus
  state,        \* state_
  runs,         \* executionCount_: how often it was started
  current,      \* start time of the current or last run
  succeeded,    \* start time of the last successful run
  failed,       \* start time of the last failed run
  \* FutureInvokerBase
  running,      \* currentThread_ is set
  result,       \* result_: the run that made it
  leaked,       \* the worker threw while it took the mutex, and left it locked
  \* The worker.
  place,        \* where it is in Perform
  flag,         \* its interrupt flag
  thrown,       \* kind of the exception being handled
  lastRun,      \* history: how the last run ended
  \* The clients.
  cv,           \* the future's WaitCondition
  answer        \* what Result last returned, or "waiting"

CV == INSTANCE CondVar WITH Threads <- Clients

statusVars == <<state, runs, current, succeeded, failed>>
workerVars == <<place, flag, thrown, lastRun>>
clientVars == <<cv, answer>>
vars == <<statusVars, running, result, leaked, workerVars, clientVars>>

\* Times are run numbers: the clock moves on between two starts.
Never == -1     \* Timestamp::min(), before any other time
Epoch == 0      \* a default Timestamp

Garbage == -1   \* a Return that was never assigned, or is being assigned

Places == {"idle", "invoke", "exit", "caught", "next", "complete", "wake",
           "store", "storing", "error", "errorWake", "dead"}
States == {"NO", "STARTED", "STOPPED", "FAILURE", "CANCELLED", "INTERRUPTED"}
Answers == {"none", "waiting", "Ready", "Deferred", "Failed", "Timeout"}

Init ==
  /\ state = "NO" /\ runs = 0
  /\ current = Epoch /\ succeeded = Never /\ failed = Never
  /\ running = FALSE /\ result = Garbage /\ leaked = FALSE
  /\ place = "idle" /\ flag = FALSE /\ thrown = "none" /\ lastRun = "none"
  /\ CV!Init
  /\ answer = [c \in Clients |-> "none"]

-----------------------------------------------------------------------------
(* ExecutionStatus.                                                        *)

IsExecuting == state \in {"STARTED", "INTERRUPTED"}
IsLastExecutionSuccess == failed < succeeded
IsLastExecutionFailure == failed > succeeded

Start ==
  /\ state' = "STARTED"
  /\ runs' = runs + 1 /\ current' = runs + 1
  /\ UNCHANGED <<succeeded, failed>>

\* Mutant: the last success is dated by its end, later than its start.
SuccessAtEnd ==
  /\ state' = "STOPPED"
  /\ succeeded' = current + 1
  /\ UNCHANGED <<runs, current, failed>>

Success ==
  /\ state' = "STOPPED"
  /\ succeeded' = current
  /\ UNCHANGED <<runs, current, failed>>

\* Mutant: a failure changes the state only.
FailureUndated(s) ==
  /\ state' = s
  /\ UNCHANGED <<runs, current, succeeded, failed>>

\* Failure, and Cancel, which counts as one.
Failure(s) ==
  /\ state' = s
  /\ failed' = current
  /\ UNCHANGED <<runs, current, succeeded>>

\* FutureInvokerBase::IsDone
IsDone == ~IsExecuting /\ (IsLastExecutionSuccess \/ IsLastExecutionFailure)

-----------------------------------------------------------------------------
(* The worker in RunnableFutureExecution::Perform.                         *)

\* The step locks the future's mutex.  If that throws, the mutex stays locked,
\* and the exception, or the DeadlockException of the second try to lock it,
\* goes through every handler up to the end of Worker::run: each of them
\* locks something and throws again.
Locked(step) ==
  /\ ~leaked
  /\ IF flag THEN /\ leaked' = TRUE /\ place' = "dead"
                  /\ UNCHANGED <<statusVars, running, result, thrown, lastRun, cv>>
             ELSE step /\ UNCHANGED leaked
  /\ UNCHANGED <<flag, answer>>

Entry ==
  /\ place = "idle" /\ runs < MaxRuns
  /\ Locked(/\ Start
            /\ running' = TRUE
            /\ place' = "invoke"
            /\ UNCHANGED <<result, thrown, lastRun, cv>>)

\* Invoke, the task's own code.  An interrupt reaches it as an exception from
\* the next mutex it locks; it may also run to its end without noticing.
Returns ==
  /\ place = "invoke"
  /\ place' = "exit"
  /\ UNCHANGED <<statusVars, running, result, leaked, flag, thrown, lastRun, clientVars>>

Throws(kind) ==
  /\ place = "invoke"
  /\ \/ kind = "general" /\ (flag \/ "Throw" \in Faults)
     \/ kind = "other" /\ "ThrowOther" \in Faults
  /\ place' = "caught" /\ thrown' = kind
  /\ UNCHANGED <<statusVars, running, result, leaked, flag, lastRun, clientVars>>

\* Exit, in the try block or in a handler.
Exit ==
  /\ place \in {"exit", "caught"}
  /\ Locked(/\ running' = FALSE
            /\ place' = IF place = "exit" THEN "next" ELSE "error"
            /\ UNCHANGED <<statusVars, result, thrown, lastRun, cv>>)

\* Mutant: Next leaves the result to run().
NextUnstored ==
  /\ place = "next"
  /\ Locked(/\ \/ place' = "complete" /\ UNCHANGED thrown
               \/ "Callback" \in Faults /\ place' = "caught" /\ thrown' = "general"
            /\ UNCHANGED <<statusVars, running, result, lastRun, cv>>)

\* Next: the result is stored, then the callback is called.
Next_ ==
  /\ place = "next"
  /\ Locked(/\ result' = current
            /\ \/ place' = "complete" /\ UNCHANGED thrown
               \/ "Callback" \in Faults /\ place' = "caught" /\ thrown' = "general"
            /\ UNCHANGED <<statusVars, running, lastRun, cv>>)

\* Complete: the status changes, then the callbacks are called.
Complete ==
  /\ place = "complete"
  /\ Locked(/\ Success
            /\ lastRun' = "ok"
            /\ \/ place' = "wake" /\ UNCHANGED thrown
               \/ "Callback" \in Faults /\ place' = "caught" /\ thrown' = "general"
            /\ UNCHANGED <<running, result, cv>>)

\* Mutant: nobody is woken after a failure.
ErrorSilent ==
  /\ place = "error"
  /\ Locked(/\ Failure("FAILURE")
            /\ lastRun' = "error"
            /\ place' = "idle" /\ thrown' = "none"
            /\ UNCHANGED <<running, result, cv>>)

\* Error: if a callback throws here, nobody is woken.
Error ==
  /\ place = "error"
  /\ Locked(/\ Failure("FAILURE")
            /\ \/ /\ place' = "errorWake" /\ UNCHANGED thrown
                  /\ lastRun' = IF lastRun = "ok" /\ succeeded = current THEN "both" ELSE "error"
               \/ /\ "Callback" \in Faults /\ place' = "idle" /\ thrown' = "none"
                  /\ lastRun' = "mute"
            /\ UNCHANGED <<running, result, cv>>)

\* Mutant: one client is woken.
WakeSingle ==
  /\ place \in {"wake", "errorWake"}
  /\ Locked(/\ CV!WakeOne
            /\ IF thrown = "general" THEN place' = "idle" /\ thrown' = "none"
                                     ELSE place' = "store" /\ UNCHANGED thrown
            /\ UNCHANGED <<statusVars, running, result, lastRun>>)

\* wakeAll under the mutex.  After a GeneralException Perform throws it on; in
\* the other cases it returns a value, which run() assigns to result_.
Wake ==
  /\ place \in {"wake", "errorWake"}
  /\ Locked(/\ CV!WakeAll
            /\ IF thrown = "general" THEN place' = "idle" /\ thrown' = "none"
                                     ELSE place' = "store" /\ UNCHANGED thrown
            /\ UNCHANGED <<statusVars, running, result, lastRun>>)

\* run() assigns the value Perform returned, without the mutex: what others
\* read of result_ until that is done is undefined.
Store ==
  /\ place = "store" /\ place' = "storing"
  /\ result' = Garbage
  /\ UNCHANGED <<statusVars, running, leaked, flag, thrown, lastRun, clientVars>>

StoreEnds ==
  /\ place = "storing" /\ place' = "idle"
  /\ result' = IF thrown = "none" THEN current ELSE Garbage
  /\ thrown' = "none"
  /\ UNCHANGED <<statusVars, running, leaked, flag, lastRun, clientVars>>

\* Thread::unsetInterrupt, in Worker::run between two runs and perhaps by the
\* task itself.
UnsetInterrupt ==
  /\ flag /\ place \in {"idle", "invoke"}
  /\ flag' = FALSE
  /\ UNCHANGED <<statusVars, running, result, leaked, place, thrown, lastRun, clientVars>>

-----------------------------------------------------------------------------
(* The other threads.                                                      *)

\* Mutant: Interrupt does not look whether the task runs on a thread.
InterruptAnyTime ==
  /\ "Interrupt" \in Faults /\ ~leaked
  /\ flag' = TRUE
  /\ state' = "INTERRUPTED"
  /\ UNCHANGED <<runs, current, succeeded, failed, running, result, leaked,
                 place, thrown, lastRun, clientVars>>

Interrupt ==
  /\ "Interrupt" \in Faults /\ ~leaked
  /\ running
  /\ flag' = TRUE
  /\ state' = "INTERRUPTED"
  /\ UNCHANGED <<runs, current, succeeded, failed, running, result, leaked,
                 place, thrown, lastRun, clientVars>>

\* Cancel does not wake anybody.
Cancel ==
  /\ "Cancel" \in Faults /\ ~leaked
  /\ flag' = (flag \/ running)
  /\ IF state = "CANCELLED" THEN UNCHANGED statusVars ELSE Failure("CANCELLED")
  /\ UNCHANGED <<running, result, leaked, place, thrown, lastRun, clientVars>>

\* What Result returns when waitForSuccess is over; isWoken is its result.
Verdict ==
  CASE state = "STOPPED" -> "Ready"
    [] runs = 0 -> "Deferred"
    [] IsLastExecutionSuccess -> "Failed"
    [] OTHER -> "Timeout"

\* Result locks the mutex and does not wait, because the last run succeeded or
\* because the caller allows no time.
ResultNow(c) ==
  /\ answer[c] # "waiting" /\ ~leaked
  /\ answer' = [answer EXCEPT ![c] = Verdict]
  /\ UNCHANGED <<statusVars, running, result, leaked, workerVars, cv>>

Result(c) ==
  /\ answer[c] # "waiting" /\ ~leaked
  /\ ~IsLastExecutionSuccess
  /\ CV!Sleep(c) \/ CV!Bypass(c)
  /\ answer' = [answer EXCEPT ![c] = "waiting"]
  /\ UNCHANGED <<statusVars, running, result, leaked, workerVars>>

\* waitForSuccess ends: success, a wake, or the caller's time is up.
Awake(c) ==
  /\ answer[c] = "waiting" /\ ~leaked
  /\ CV!Return(c)
  /\ answer' = [answer EXCEPT ![c] = Verdict]
  /\ UNCHANGED <<statusVars, running, result, leaked, workerVars>>

\* waitForSuccess goes round again, having kept the mutex.
WaitAgain(c) ==
  /\ answer[c] = "waiting" /\ ~leaked
  /\ cv[c] = "unwoken" /\ ~IsLastExecutionSuccess
  /\ cv' = [cv EXCEPT ![c] = "asleep"]
  /\ UNCHANGED <<statusVars, running, result, leaked, workerVars, answer>>

GiveUp(c) ==
  /\ cv[c] = "asleep" /\ CV!GiveUp({c})
  /\ UNCHANGED <<statusVars, running, result, leaked, workerVars, answer>>

-----------------------------------------------------------------------------
\* What the worker does of itself once it has begun.
Perform ==
  \/ Returns \/ Exit \/ Next_ \/ Complete \/ Error \/ Wake \/ Store \/ StoreEnds
  \/ \E kind \in {"general", "other"} : Throws(kind)

\* A worker that has no more runs to make, or has died, rests; so do clients
\* who can no longer lock the mutex.
Rest == (place = "dead" \/ (place = "idle" /\ runs = MaxRuns)) /\ UNCHANGED vars

Next ==
  \/ Entry \/ Perform \/ UnsetInterrupt \/ Interrupt \/ Cancel \/ Rest
  \/ \E c \in Clients : ResultNow(c) \/ Result(c) \/ Awake(c) \/ WaitAgain(c) \/ GiveUp(c)

Spec == Init /\ [][Next]_vars

\* A run that has begun goes on, and a client that was woken, or finds the
\* success it waits for, returns.
Fairness ==
  /\ WF_vars(Perform)
  /\ \A c \in Clients :
       WF_vars((cv[c] = "woken" \/ IsLastExecutionSuccess) /\ Awake(c))

FairSpec == Spec /\ Fairness
-----------------------------------------------------------------------------
(* Properties.                                                             *)

TypeOK ==
  /\ state \in States
  /\ runs \in 0..MaxRuns
  /\ {current, succeeded, failed, result} \subseteq Never..MaxRuns
  /\ {running, flag, leaked} \subseteq BOOLEAN
  /\ place \in Places
  /\ thrown \in {"none", "general", "other"}
  /\ lastRun \in {"none", "ok", "error", "both", "mute"}
  /\ CV!TypeOK
  /\ answer \in [Clients -> Answers]

\* Interrupt and Cancel reach the worker only while it runs this task: a worker
\* that has left Exit alive goes on to other tasks without a stray interrupt,
\* whatever the moment the request came.
InterruptScoped == flag => running \/ place = "dead"

\* A result that Result hands out is that of the last run, which Next stores
\* before Complete declares success; unless run() is just assigning result_ for
\* the second time, which it does without the mutex.
ReadyIsCurrent ==
  [][\A c \in Clients :
       (answer'[c] = "Ready" /\ answer[c] # "Ready")
         => runs > 0 /\ (result = current \/ place = "storing")]_vars

\* Cancel, or a callback that threw, recorded a failure of a run that succeeded.
Contested == succeeded = failed

\* Once a run has ended the future knows how: the status agrees with the last
\* run's outcome, whatever moment an interrupt came at, unless it is contested.
OutcomeRecorded ==
  place = "idle" /\ ~Contested =>
    /\ lastRun = "ok" => IsDone /\ IsLastExecutionSuccess
    /\ lastRun \in {"error", "mute"} => IsDone /\ IsLastExecutionFailure

\* A client that waits while the task runs to success is released, also when
\* it began to wait, or its slice of sleep ended, at the last moment; unless a
\* later run fails, or Cancel wipes the success out, before the client gets the
\* mutex, or the worker has died with it.
SuccessReleases ==
  \A c \in Clients :
    (answer[c] = "waiting" /\ IsLastExecutionSuccess)
      ~> (answer[c] # "waiting" \/ ~IsLastExecutionSuccess \/ leaked)

\* A client that waits while a run is under way gets an answer when it ends,
\* unless the worker dies or the error callback throws before the wake.
RunReleases ==
  \A c \in Clients :
    (cv[c] = "asleep" /\ place \notin {"idle", "store", "storing"})
      ~> (cv[c] # "asleep" \/ leaked \/ lastRun = "mute")
=============================================================================
