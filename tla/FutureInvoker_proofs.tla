------------------------ MODULE FutureInvoker_proofs ------------------------
(***************************************************************************)
(* Proofs about FutureInvoker, for any clients, any number of runs and any  *)
(* faults.                                                                  *)
(***************************************************************************)
EXTENDS FutureInvoker, TLAPS

-----------------------------------------------------------------------------
(* The inductive invariant.                                                *)

\* Times are run numbers, and none is later than the run that began last.
Dated ==
  /\ runs \in 0..MaxRuns /\ current = runs
  /\ succeeded \in Never..runs /\ failed \in Never..runs /\ result \in Never..runs

Typed ==
  /\ state \in States /\ place \in Places
  /\ thrown \in {"none", "general", "other"}
  /\ lastRun \in {"none", "ok", "error", "both", "mute"}
  /\ CV!TypeOK /\ answer \in [Clients -> Answers]

\* currentThread_ is set from Entry to Exit only, and a live worker is
\* interrupted only then.
Scoped ==
  /\ running \in BOOLEAN /\ flag \in BOOLEAN /\ leaked \in BOOLEAN
  /\ running => place \in {"invoke", "exit", "caught", "dead"}
  /\ InterruptScoped

\* From the moment its status is recorded until the next run begins, the last run
\* is dated and no interrupt can touch its state.
Settled ==
  place \in {"wake", "errorWake", "store", "storing", "idle"} =>
    /\ lastRun = "ok" => succeeded = current /\ state \in {"STOPPED", "CANCELLED"}
    /\ lastRun \in {"error", "mute"} => failed = current /\ state \in {"FAILURE", "CANCELLED"}

IInv == Dated /\ Typed /\ Scoped /\ Settled

LEMMA Initially == Init => IInv
<1> SUFFICES ASSUME Init PROVE IInv
  OBVIOUS
<1>1. Dated
  BY FutureAssumption DEF Init, Dated, Never, Epoch, Garbage
<1>2. Typed
  BY DEF Init, Typed, States, Places, Answers, CV!Init, CV!TypeOK, CV!States
<1>3. Scoped /\ Settled
  BY DEF Init, Scoped, Settled, InterruptScoped
<1> QED
  BY <1>1, <1>2, <1>3 DEF IInv

-----------------------------------------------------------------------------
(* The steps.                                                              *)

\* A step of the worker that finds it interrupted only leaks the mutex.
Dies ==
  /\ leaked' = TRUE /\ place' = "dead"
  /\ UNCHANGED <<statusVars, running, result, thrown, lastRun, cv, flag, answer>>

LEMMA DeathKeeps ==
  ASSUME IInv, Dies
  PROVE  IInv'
BY DEF IInv, Dies, Dated, Typed, Scoped, Settled, InterruptScoped, statusVars, Places,
       CV!TypeOK

\* The worker locks the future's mutex and is not interrupted.
LEMMA WorkerKeeps ==
  ASSUME IInv, Entry \/ Exit \/ Next_ \/ Complete \/ Error \/ Wake
  PROVE  IInv'
<1> USE DEF IInv
<1>1. CASE Entry
  <2>1. CASE flag
    BY <1>1, <2>1, DeathKeeps DEF Entry, Locked, Dies
  <2>2. CASE ~flag
    <3>1. /\ Start /\ running' = TRUE /\ place' = "invoke"
          /\ UNCHANGED <<result, thrown, lastRun, cv, flag, answer, leaked>>
      BY <1>1, <2>2 DEF Entry, Locked
    <3>2. Dated'
      BY <1>1, <3>1, FutureAssumption DEF Entry, Start, Dated, Never
    <3>3. Typed'
      BY <3>1 DEF Start, Typed, States, Places, CV!TypeOK
    <3>4. Scoped' /\ Settled'
      BY <2>2, <3>1 DEF Scoped, Settled, InterruptScoped
    <3> QED
      BY <3>2, <3>3, <3>4
  <2> QED
    BY <2>1, <2>2 DEF Scoped
<1>2. CASE Exit
  <2>1. CASE flag
    BY <1>2, <2>1, DeathKeeps DEF Exit, Locked, Dies
  <2>2. CASE ~flag
    <3>1. /\ running' = FALSE /\ place' \in {"next", "error"}
          /\ UNCHANGED <<statusVars, result, thrown, lastRun, cv, flag, answer, leaked>>
      BY <1>2, <2>2 DEF Exit, Locked
    <3> QED
      BY <2>2, <3>1 DEF Dated, Typed, Scoped, Settled, InterruptScoped, statusVars, Places,
                        CV!TypeOK
  <2> QED
    BY <2>1, <2>2 DEF Scoped
<1>3. CASE Next_
  <2>1. CASE flag
    BY <1>3, <2>1, DeathKeeps DEF Next_, Locked, Dies
  <2>2. CASE ~flag
    <3>1. /\ result' = current /\ place' \in {"complete", "caught"}
          /\ thrown' \in {thrown, "general"}
          /\ UNCHANGED <<statusVars, running, lastRun, cv, flag, answer, leaked>>
      BY <1>3, <2>2 DEF Next_, Locked
    <3>2. Dated'
      BY <3>1, FutureAssumption DEF Dated, statusVars, Never
    <3>3. ~running
      BY <1>3 DEF Next_, Scoped
    <3> QED
      BY <2>2, <3>1, <3>2, <3>3 DEF Typed, Scoped, Settled, InterruptScoped, statusVars,
                                    Places, CV!TypeOK
  <2> QED
    BY <2>1, <2>2 DEF Scoped
<1>4. CASE Complete
  <2>1. CASE flag
    BY <1>4, <2>1, DeathKeeps DEF Complete, Locked, Dies
  <2>2. CASE ~flag
    <3>1. /\ Success /\ lastRun' = "ok" /\ place' \in {"wake", "caught"}
          /\ thrown' \in {thrown, "general"}
          /\ UNCHANGED <<running, result, cv, flag, answer, leaked>>
      BY <1>4, <2>2 DEF Complete, Locked
    <3>2. Dated'
      BY <3>1, FutureAssumption DEF Dated, Success, Never
    <3>3. ~running
      BY <1>4 DEF Complete, Scoped
    <3> QED
      BY <2>2, <3>1, <3>2, <3>3 DEF Typed, Scoped, Settled, InterruptScoped, Success,
                                    States, Places, CV!TypeOK
  <2> QED
    BY <2>1, <2>2 DEF Scoped
<1>5. CASE Error
  <2>1. CASE flag
    BY <1>5, <2>1, DeathKeeps DEF Error, Locked, Dies
  <2>2. CASE ~flag
    <3>1. /\ Failure("FAILURE") /\ place' \in {"errorWake", "idle"}
          /\ lastRun' \in {"both", "error", "mute"} /\ thrown' \in {thrown, "none"}
          /\ UNCHANGED <<running, result, cv, flag, answer, leaked>>
      BY <1>5, <2>2 DEF Error, Locked
    <3>2. Dated'
      BY <3>1, FutureAssumption DEF Dated, Failure, Never
    <3>3. ~running
      BY <1>5 DEF Error, Scoped
    <3> QED
      BY <2>2, <3>1, <3>2, <3>3 DEF Typed, Scoped, Settled, InterruptScoped, Failure,
                                    States, Places, CV!TypeOK
  <2> QED
    BY <2>1, <2>2 DEF Scoped
<1>6. CASE Wake
  <2>1. CASE flag
    BY <1>6, <2>1, DeathKeeps DEF Wake, Locked, Dies
  <2>2. CASE ~flag
    <3>1. /\ CV!WakeAll /\ place' \in {"idle", "store"} /\ thrown' \in {thrown, "none"}
          /\ UNCHANGED <<statusVars, running, result, lastRun, flag, answer, leaked>>
      BY <1>6, <2>2 DEF Wake, Locked
    <3>2. CV!TypeOK'
      BY <3>1 DEF Typed, CV!TypeOK, CV!WakeAll, CV!States
    <3>3. ~running /\ place \in {"wake", "errorWake"}
      BY <1>6 DEF Wake, Scoped
    <3> QED
      BY <2>2, <3>1, <3>2, <3>3 DEF Dated, Typed, Scoped, Settled, InterruptScoped,
                                    statusVars, Places
  <2> QED
    BY <2>1, <2>2 DEF Scoped
<1> QED
  BY <1>1, <1>2, <1>3, <1>4, <1>5, <1>6

\* The steps of the worker outside the mutex.
LEMMA LooseKeeps ==
  ASSUME IInv, Returns \/ Store \/ StoreEnds \/ UnsetInterrupt \/ \E kind \in {"general", "other"} : Throws(kind)
  PROVE  IInv'
<1> USE DEF IInv
<1>1. CASE Returns
  BY <1>1 DEF Returns, Dated, Typed, Scoped, Settled, InterruptScoped, statusVars, clientVars,
              Places, CV!TypeOK
<1>2. CASE Store
  <2>1. Dated'
    BY <1>2, FutureAssumption DEF Store, Dated, statusVars, Never, Garbage
  <2> QED
    BY <1>2, <2>1 DEF Store, Typed, Scoped, Settled, InterruptScoped, statusVars,
                      clientVars, Places, CV!TypeOK
<1>5. CASE StoreEnds
  <2>1. Dated'
    BY <1>5, FutureAssumption DEF StoreEnds, Dated, statusVars, Never, Garbage
  <2> QED
    BY <1>5, <2>1 DEF StoreEnds, Typed, Scoped, Settled, InterruptScoped, statusVars,
                      clientVars, Places, CV!TypeOK
<1>3. CASE UnsetInterrupt
  BY <1>3 DEF UnsetInterrupt, Dated, Typed, Scoped, Settled, InterruptScoped, statusVars,
              clientVars, CV!TypeOK
<1>4. ASSUME NEW kind \in {"general", "other"}, Throws(kind) PROVE IInv'
  BY <1>4 DEF Throws, Dated, Typed, Scoped, Settled, InterruptScoped, statusVars,
              clientVars, Places, CV!TypeOK
<1> QED
  BY <1>1, <1>2, <1>3, <1>4, <1>5

\* Interrupt and Cancel.
LEMMA OthersKeep ==
  ASSUME IInv, Interrupt \/ Cancel
  PROVE  IInv'
<1> USE DEF IInv
<1>1. CASE Interrupt
  BY <1>1 DEF Interrupt, Dated, Typed, Scoped, Settled, InterruptScoped, clientVars, States,
              CV!TypeOK
<1>2. CASE Cancel
  <2>1. Dated'
    BY <1>2, FutureAssumption DEF Cancel, Dated, Failure, statusVars, Never
  <2>2. Scoped'
    BY <1>2 DEF Cancel, Scoped, InterruptScoped
  <2>3. CASE state = "CANCELLED"
    BY <1>2, <2>1, <2>2, <2>3 DEF Cancel, Typed, Settled, statusVars, clientVars, CV!TypeOK
  <2>4. CASE state # "CANCELLED"
    BY <1>2, <2>1, <2>2, <2>4 DEF Cancel, Typed, Settled, Failure, clientVars, States,
                                  CV!TypeOK
  <2> QED
    BY <2>3, <2>4
<1> QED
  BY <1>1, <1>2

\* The clients change their own variables.
LEMMA ClientsKeep ==
  ASSUME IInv, NEW c \in Clients,
         ResultNow(c) \/ Result(c) \/ Awake(c) \/ WaitAgain(c) \/ GiveUp(c)
  PROVE  IInv'
<1> USE DEF IInv
<1>1. UNCHANGED <<statusVars, running, result, leaked, workerVars>>
  BY DEF ResultNow, Result, Awake, WaitAgain, GiveUp
<1>2. CV!TypeOK'
  BY DEF Typed, CV!TypeOK, CV!States, ResultNow, Result, Awake, WaitAgain, GiveUp,
         CV!Sleep, CV!Bypass, CV!Return, CV!GiveUp, CV!Move
<1>3. answer' \in [Clients -> Answers]
  BY DEF Typed, Answers, Verdict, ResultNow, Result, Awake, WaitAgain, GiveUp
<1> QED
  BY <1>1, <1>2, <1>3 DEF Dated, Typed, Scoped, Settled, InterruptScoped, statusVars, workerVars

LEMMA Inductive ==
  ASSUME IInv, [Next]_vars
  PROVE  IInv'
<1>1. CASE UNCHANGED vars
  BY <1>1 DEF vars, IInv, Dated, Typed, Scoped, Settled, InterruptScoped, statusVars,
              workerVars, clientVars, CV!TypeOK
<1>2. CASE Rest
  BY <1>1, <1>2 DEF Rest
<1> QED
  BY <1>1, <1>2, WorkerKeeps, LooseKeeps, OthersKeep, ClientsKeep DEF Next, Perform

-----------------------------------------------------------------------------
(* The result that is handed out.                                          *)

\* While the status says success, result_ is what that run made, or run() is assigning
\* it: it is stored before Complete records the success, run() assigns the same value
\* again or, after an exception, another one once Error has taken the success back.
Stored ==
  /\ state = "STOPPED" => runs > 0 /\ (result = current \/ place = "storing")
  /\ place \notin {"idle", "dead"} => runs > 0
  /\ place \in {"idle", "invoke", "exit", "next", "complete", "wake"} => thrown = "none"
  /\ place = "complete" => result = current
  /\ place = "errorWake" \/ (place \in {"store", "storing"} /\ thrown # "none")
       => state # "STOPPED"

\* The steps that lock the future's mutex.
LEMMA LockedStores ==
  ASSUME IInv, Stored, Entry \/ Exit \/ Next_ \/ Complete \/ Error \/ Wake
  PROVE  Stored'
<1>1. CASE flag
  <2>1. Dies /\ place # "storing"
    BY <1>1 DEF Entry, Exit, Next_, Complete, Error, Wake, Locked, Dies
  <2> QED
    BY <2>1 DEF Dies, Stored, statusVars
<1>2. CASE ~flag
  <2>1. CASE Entry
    <3>1. /\ Start /\ place = "idle" /\ place' = "invoke" /\ thrown' = thrown
      BY <1>2, <2>1 DEF Entry, Locked
    <3> QED
      BY <3>1 DEF Start, Stored, IInv, Dated
  <2>2. CASE Exit
    <3>1. /\ UNCHANGED <<statusVars, result, thrown>> /\ place \in {"exit", "caught"}
          /\ place' = IF place = "exit" THEN "next" ELSE "error"
      BY <1>2, <2>2 DEF Exit, Locked
    <3> QED
      BY <3>1 DEF Stored, statusVars
  <2>3. CASE Next_
    <3>1. /\ UNCHANGED statusVars /\ result' = current /\ place = "next"
          /\ \/ place' = "complete" /\ thrown' = thrown
             \/ place' = "caught"
      BY <1>2, <2>3 DEF Next_, Locked
    <3> QED
      BY <3>1 DEF Stored, statusVars
  <2>4. CASE Complete
    <3>1. /\ Success /\ UNCHANGED result /\ place = "complete"
          /\ \/ place' = "wake" /\ thrown' = thrown
             \/ place' = "caught"
      BY <1>2, <2>4 DEF Complete, Locked
    <3> QED
      BY <3>1 DEF Stored, Success
  <2>5. CASE Error
    <3>1. /\ Failure("FAILURE") /\ UNCHANGED result /\ place = "error"
          /\ \/ place' = "errorWake"
             \/ place' = "idle" /\ thrown' = "none"
      BY <1>2, <2>5 DEF Error, Locked
    <3> QED
      BY <3>1 DEF Stored, Failure
  <2>6. CASE Wake
    <3>1. /\ UNCHANGED <<statusVars, result>> /\ place \in {"wake", "errorWake"}
          /\ \/ place' = "idle" /\ thrown' = "none"
             \/ place' = "store" /\ thrown' = thrown
      BY <1>2, <2>6 DEF Wake, Locked
    <3> QED
      BY <3>1 DEF Stored, statusVars
  <2> QED
    BY <2>1, <2>2, <2>3, <2>4, <2>5, <2>6
<1> QED
  BY <1>1, <1>2

\* The other steps: only run() touches the result, and Cancel the state.
LEMMA StoredKept ==
  ASSUME IInv, Stored, [Next]_vars
  PROVE  Stored'
<1>1. CASE Store \/ StoreEnds
  BY <1>1 DEF Store, StoreEnds, Stored, statusVars
<1>2. CASE Interrupt
  BY <1>2 DEF Interrupt, Stored
<1>3. CASE Cancel
  <2>1. UNCHANGED <<runs, current, result, place, thrown>> /\ state' \in {state, "CANCELLED"}
    BY <1>3 DEF Cancel, statusVars, Failure
  <2> QED
    BY <2>1 DEF Stored
<1>4. CASE Returns \/ \E kind \in {"general", "other"} : Throws(kind)
  BY <1>4 DEF Returns, Throws, Stored, statusVars
<1>5. ASSUME NEW c \in Clients,
             ResultNow(c) \/ Result(c) \/ Awake(c) \/ WaitAgain(c) \/ GiveUp(c)
      PROVE  Stored'
  BY <1>5 DEF ResultNow, Result, Awake, WaitAgain, GiveUp, Stored, statusVars, workerVars
<1>6. CASE UnsetInterrupt \/ Rest \/ UNCHANGED vars
  BY <1>6 DEF UnsetInterrupt, Rest, vars, Stored, statusVars, workerVars
<1> QED
  BY <1>1, <1>2, <1>3, <1>4, <1>5, <1>6, LockedStores DEF Next, Perform

\* Only what Result returns makes an answer "Ready", and then the status says success.
LEMMA ReadyMeansStopped ==
  ASSUME IInv, [Next]_vars, NEW c \in Clients, answer'[c] = "Ready", answer[c] # "Ready"
  PROVE  state = "STOPPED"
<1>1. ASSUME NEW d \in Clients, ResultNow(d) \/ Awake(d)
      PROVE  Verdict = "Ready"
  <2>1. answer' = [answer EXCEPT ![d] = Verdict]
    BY <1>1 DEF ResultNow, Awake
  <2> QED
    BY <2>1 DEF IInv, Typed
<1>2. ASSUME NEW d \in Clients, Result(d) PROVE FALSE
  <2>1. answer' = [answer EXCEPT ![d] = "waiting"]
    BY <1>2 DEF Result
  <2> QED
    BY <2>1 DEF IInv, Typed
<1>3. answer' # answer
  OBVIOUS
<1>4. \E d \in Clients : ResultNow(d) \/ Result(d) \/ Awake(d)
  BY <1>3 DEF Next, Perform, Entry, Exit, Next_, Complete, Error, Wake, Locked, Returns,
     Throws, Store, StoreEnds, UnsetInterrupt, Interrupt, Cancel, Rest, WaitAgain, GiveUp, vars, clientVars
<1>5. Verdict = "Ready"
  BY <1>1, <1>2, <1>4
<1> QED
  BY <1>5 DEF Verdict

-----------------------------------------------------------------------------
(* Theorems.                                                               *)

\* The types of the status, of the worker and of the clients.
THEOREM TypeCorrect ==
  Spec => []TypeOK
<1>1. IInv /\ [Next]_vars => IInv'
  BY Inductive
<1>2. IInv => TypeOK
  <2> SUFFICES ASSUME IInv PROVE TypeOK
    OBVIOUS
  <2>1. {current, succeeded, failed, result} \subseteq Never..MaxRuns /\ runs \in 0..MaxRuns
    BY FutureAssumption DEF IInv, Dated, Never
  <2>2. {running, flag, leaked} \subseteq BOOLEAN
    BY DEF IInv, Scoped
  <2> QED
    BY <2>1, <2>2 DEF IInv, Typed, TypeOK
<1> QED
  BY Initially, <1>1, <1>2, PTL DEF Spec

\* An interrupt never stays with a live worker after the run it was meant for.
THEOREM InterruptsAreScoped ==
  Spec => []InterruptScoped
<1>1. IInv /\ [Next]_vars => IInv'
  BY Inductive
<1>2. IInv => InterruptScoped
  BY DEF IInv, Scoped
<1> QED
  BY Initially, <1>1, <1>2, PTL DEF Spec

\* A run that has ended is recorded as what it was, for any interleaving of
\* interrupts, cancels and throwing callbacks.
THEOREM OutcomesAreRecorded ==
  Spec => []OutcomeRecorded
<1>1. IInv /\ [Next]_vars => IInv'
  BY Inductive
<1>2. IInv => OutcomeRecorded
  <2> SUFFICES ASSUME IInv, place = "idle", succeeded # failed
               PROVE  /\ lastRun = "ok" => IsDone /\ IsLastExecutionSuccess
                      /\ lastRun \in {"error", "mute"} => IsDone /\ IsLastExecutionFailure
    BY DEF OutcomeRecorded, Contested
  <2>1. /\ succeeded \in Int /\ failed \in Int
        /\ succeeded <= current /\ failed <= current /\ current \in Int
    BY FutureAssumption DEF IInv, Dated, Never
  <2> QED
    BY <2>1 DEF IInv, Settled, IsDone, IsExecuting, IsLastExecutionSuccess,
                IsLastExecutionFailure
<1> QED
  BY Initially, <1>1, <1>2, PTL DEF Spec

\* Whenever a client is told "Ready", the result is that of the last run, and not one
\* of a later run or of an exception; the one moment excepted, and stated, is run()'s
\* unlocked assignment, which a client's copy may meet half done.
THEOREM ReadyResultsAreCurrent ==
  Spec => ReadyIsCurrent
<1>1. Init => IInv /\ Stored
  BY Initially DEF Init, Stored
<1>2. IInv /\ Stored /\ [Next]_vars => (IInv /\ Stored)'
  BY Inductive, StoredKept
<1>3. IInv /\ Stored /\ [Next]_vars =>
        [\A c \in Clients :
           (answer'[c] = "Ready" /\ answer[c] # "Ready")
             => runs > 0 /\ (result = current \/ place = "storing")]_vars
  BY ReadyMeansStopped DEF Stored
<1> QED
  BY <1>1, <1>2, <1>3, PTL DEF Spec, ReadyIsCurrent
=============================================================================
