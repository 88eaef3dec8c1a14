------------------------------ MODULE WaitSet ------------------------------
(***************************************************************************)
(* RxConcurrent/WaitSet.cpp with the conditions attached to it             *)
(* (Condition.cpp, GuardCondition.cpp) and the threads that take triggered *)
(* conditions from it: the workers of a thread pool (Worker::run calling   *)
(* WaitGetNext without a deadline) and the dispatchers (the thread pool's  *)
(* scheduler, the RTPS writers and readers) that make timed calls.         *)
(*                                                                         *)
(* What WaitSet does while it holds its own mutex is one step.  It gives   *)
(* that mutex up only inside WaitCondition::wait, modelled by CondVar.  A  *)
(* condition's mutex is held across steps only while its handler runs.     *)
(***************************************************************************)
EXTENDS Integers, Sequences, FiniteSets

CONSTANTS
  Conditions,   \* guard conditions
  Workers,      \* threads in Worker::run
  Dispatchers,  \* threads that call the timed operations of WaitSet
  Setters,      \* other threads that set and reset trigger values
  Triggers,     \* Triggers[c]: the conditions that c's handler may trigger
  Calls,        \* what dispatchers call, see aim
  Ops,          \* the administrative operations that may happen
  None

Takers  == Workers \cup Dispatchers
Callers == Takers \cup Setters
AllOps  == {"Attach", "Detach", "Stop", "Clear", "Handler", "Reset", "Throw"}

ASSUME ConstantsAssumption ==
  /\ Workers \cap Dispatchers = {} /\ Takers \cap Setters = {}
  /\ None \notin Conditions \cup Callers
  /\ Triggers \in [Conditions -> SUBSET Conditions]
  /\ \A c \in Conditions : c \notin Triggers[c]
  /\ Conditions \cap {"all", "next", "wait"} = {}
  /\ Calls \subseteq {"all", "next", "wait"} \cup Conditions
  /\ Ops \subseteq AllOps

VARIABLES
  \* The wait set.
  valid,        \* WaitSet::valid_
  conditions,   \* WaitSet::conditions_
  queue,        \* WaitSet::triggeredQueue_
  triggered,    \* WaitSet::triggeredConditions_
  cv,           \* WaitSet::waitCondition_
  \* The conditions.
  trigger,      \* GuardCondition::triggerValue_
  handler,      \* the conditions that have a functor
  attached,     \* the conditions whose waitSet_ holds this wait set
  holder,       \* the taker that runs the condition's handler, under its mutex
  \* The threads.
  pc, cond,     \* where each taker is, and the condition it has in hand
  aim,          \* what its call is to do with the queue, see below
  call,         \* each caller's progress in SetTriggerValue(true)
  admin,        \* progress of the one Attach or Detach under way
  aborted,      \* an ASSERT failed and ended the process
  \* History.
  unseen,       \* triggered since their handler last began
  dropped       \* triggered, and dropped by a step that may drop it

CV == INSTANCE CondVar WITH Threads <- Takers

wsVars    == <<valid, conditions, queue, triggered>>
condVars  == <<trigger, handler, attached, holder>>
takerVars == <<pc, cond, aim>>
history   == <<unseen, dropped>>
vars == <<wsVars, cv, condVars, takerVars, call, admin, aborted, history>>

\* A worker: "idle" and "stopped" are the head of Worker::run's loop; "get" is
\* WaitGetNext about to lock the wait set.  A dispatcher: "idle" is outside its
\* call, "get" about to lock, "drain" in the loop of DispatchTriggeredConditions;
\* "peek" and "block" in the loop of WaitDispatch(condition).  All of them:
\* "waiting" in WaitCondition::wait, "look" and "ready" around GetTriggerValue
\* in DispatchTriggeredCondition, "handling" in the functor.
Places == {"idle", "stopped", "get", "peek", "block", "waiting", "drain",
           "look", "ready", "handling"}

\* "all": WaitDispatch.  "next": WaitDispatchNext, and WaitGetNext for a worker.
\* "wait": Wait.  A condition c: WaitDispatch(c).
Aims == {"all", "next", "wait"} \cup Conditions

NoCall == <<"none", None>>
Members(s) == {s[i] : i \in DOMAIN s}
Free(c) == holder[c] = None              \* the condition's mutex is free

Init ==
  /\ valid = TRUE
  /\ queue = <<>> /\ triggered = {}
  /\ CV!Init
  /\ trigger = [c \in Conditions |-> FALSE]
  /\ handler = Conditions
  /\ attached \in SUBSET Conditions /\ conditions = attached
  /\ holder = [c \in Conditions |-> None]
  /\ pc = [t \in Takers |-> "idle"]
  /\ cond = [t \in Takers |-> None]
  /\ aim = [t \in Takers |-> "next"]
  /\ call = [t \in Callers |-> NoCall]
  /\ admin = NoCall
  /\ aborted = FALSE
  /\ unseen = {} /\ dropped = {}

-----------------------------------------------------------------------------
(* The queue of triggered conditions, under the wait set's mutex.          *)

\* WaitSet::enqueueTriggered
Enqueue(c) ==
  /\ queue' = IF c \in triggered THEN queue ELSE Append(queue, c)
  /\ triggered' = triggered \cup {c}
  /\ dropped' = dropped \ {c}

\* Mutant: the condition leaves triggeredQueue_ but not triggeredConditions_.
TakeFrontOnly(t) ==
  /\ queue # <<>>
  /\ queue' = Tail(queue)
  /\ cond' = [cond EXCEPT ![t] = Head(queue)]
  /\ UNCHANGED triggered

\* WaitSet::dequeueTriggered with a condition to return.
TakeFront(t) ==
  /\ queue # <<>>
  /\ queue' = Tail(queue)
  /\ triggered' = triggered \ {Head(queue)}
  /\ cond' = [cond EXCEPT ![t] = Head(queue)]

\* std::list::remove, on a list that holds c at most once.
Without(q, c) ==
  IF c \notin Members(q) THEN q
  ELSE LET i == CHOOSE j \in DOMAIN q : q[j] = c
       IN  [j \in 1..Len(q) - 1 |-> IF j < i THEN q[j] ELSE q[j + 1]]

Goto(t, place) == pc' = [pc EXCEPT ![t] = place]

-----------------------------------------------------------------------------
(* The takers: waiting.                                                    *)

\* Worker::isStopped at the head of the loop; a stopped worker's thread ends.
CheckStopped(w) ==
  /\ pc[w] = "idle"
  /\ Goto(w, IF valid THEN "get" ELSE "stopped")
  /\ UNCHANGED <<wsVars, cv, condVars, cond, aim, call, admin, history>>

\* Worker::startWorker starts the thread again once the wait set is valid.
Restart(w) ==
  /\ pc[w] = "stopped" /\ valid
  /\ Goto(w, "idle")
  /\ UNCHANGED <<wsVars, cv, condVars, cond, aim, call, admin, history>>

\* A dispatcher calls.  WaitDispatch(c) looks at valid_ first and lets the
\* mutex go again; the other calls look at it when they wait.
Call(d, k) ==
  /\ pc[d] = "idle"
  /\ k \in Calls
  /\ k \in Conditions => valid
  /\ aim' = [aim EXCEPT ![d] = k]
  /\ IF k \in Conditions
       THEN Goto(d, "peek") /\ cond' = [cond EXCEPT ![d] = k]
       ELSE Goto(d, "get") /\ UNCHANGED cond
  /\ UNCHANGED <<wsVars, cv, condVars, call, admin, history>>

\* Mutant: WaitGetNext and WaitDispatchNext use the front of an empty queue.
ProceedUnchecked(t) ==
  \/ /\ aim[t] = "next" /\ queue = <<>>
     /\ Goto(t, "look")
     /\ UNCHANGED <<queue, triggered, cond>>
  \/ /\ aim[t] = "next"
     /\ TakeFront(t)
     /\ Goto(t, "look")

\* What a call does with the queue when its wait is over.  WaitGetNext goes
\* round its loop when it finds nothing and the wait set is valid.
Proceed(t) ==
  \/ /\ aim[t] = "all"
     /\ Goto(t, "drain")
     /\ UNCHANGED <<queue, triggered, cond>>
  \/ /\ aim[t] = "next"
     /\ TakeFront(t)
     /\ Goto(t, "look")
  \/ /\ aim[t] = "next" /\ queue = <<>>
     /\ Goto(t, IF t \in Workers /\ valid THEN "get" ELSE "idle")
     /\ UNCHANGED <<queue, triggered, cond>>
  \/ /\ aim[t] = "wait"
     /\ Goto(t, "idle")
     /\ UNCHANGED <<queue, triggered, cond>>

\* A timed call returns false from an invalid wait set.
Refuse(d) ==
  /\ pc[d] = "get" /\ ~valid
  /\ Goto(d, "idle")
  /\ UNCHANGED <<wsVars, cv, condVars, cond, aim, call, admin, history>>

MayWait(t) == pc[t] = "get" /\ (t \in Workers \/ valid)

\* The call finds triggered conditions and does not wait.
Get(t) ==
  /\ MayWait(t)
  /\ queue # <<>>
  /\ Proceed(t)
  /\ UNCHANGED <<valid, conditions, cv, condVars, aim, call, admin, history>>

\* Mutant: waitForTriggeredConditions waits without a look at the queue.
BlockUnchecked(t) ==
  /\ MayWait(t) \/ pc[t] = "block"
  /\ Goto(t, "waiting")
  /\ CV!Sleep(t) \/ CV!Bypass(t)
  /\ UNCHANGED <<wsVars, condVars, cond, aim, call, admin, history>>

\* waitForTriggeredConditions calls WaitCondition::wait; Bypass is also a
\* timed call with no time left.
Block(t) ==
  /\ (MayWait(t) /\ queue = <<>>) \/ pc[t] = "block"
  /\ Goto(t, "waiting")
  /\ CV!Sleep(t) \/ CV!Bypass(t)
  /\ UNCHANGED <<wsVars, condVars, cond, aim, call, admin, history>>

\* wait() returns and the loop of waitForTriggeredConditions ends: something is
\* queued, the taker was woken, the wait set was stopped, or time is up.
Awake(t) ==
  /\ pc[t] = "waiting" /\ aim[t] \notin Conditions
  /\ queue # <<>> \/ cv[t] = "woken" \/ ~valid \/ t \in Dispatchers
  /\ CV!Return(t)
  /\ Proceed(t)
  /\ UNCHANGED <<valid, conditions, condVars, aim, call, admin, history>>

\* wait() returns and the loop goes round: it blocks again without having let
\* the mutex go in between.
WaitAgain(t) ==
  /\ pc[t] = "waiting" /\ aim[t] \notin Conditions
  /\ queue = <<>> /\ cv[t] = "unwoken" /\ valid
  /\ cv' = [cv EXCEPT ![t] = "asleep"]
  /\ UNCHANGED <<wsVars, condVars, takerVars, call, admin, history>>

\* The loop of WaitDispatch(condition): GetTriggerValue, then, with the
\* condition's mutex released and the wait set's locked, wait().
Peek(d) ==
  /\ pc[d] = "peek" /\ Free(cond[d])
  /\ \/ Goto(d, "look")                       \* triggered, or time is up
     \/ ~trigger[cond[d]] /\ Goto(d, "block")
  /\ UNCHANGED <<wsVars, cv, condVars, cond, aim, call, admin, history>>

AwakeForOne(d) ==
  /\ pc[d] = "waiting" /\ aim[d] \in Conditions
  /\ Goto(d, IF cv[d] = "woken" \/ ~valid THEN "look" ELSE "peek")
  /\ CV!Return(d)
  /\ UNCHANGED <<wsVars, condVars, cond, aim, call, admin, history>>

\* A wait ends without a wake; CondVar lists the reasons.
GiveUp(t) ==
  /\ CV!GiveUp({t}) /\ cv[t] = "asleep"
  /\ UNCHANGED <<wsVars, condVars, takerVars, call, admin, history>>

\* The loop of DispatchTriggeredConditions.
Drain(d) ==
  /\ pc[d] = "drain"
  /\ \/ TakeFront(d) /\ Goto(d, "look")
     \/ /\ queue = <<>> /\ Goto(d, "idle")
        /\ UNCHANGED <<queue, triggered, cond>>
  /\ UNCHANGED <<valid, conditions, cv, condVars, aim, call, admin, history>>

-----------------------------------------------------------------------------
(* The takers: dispatching.                                                *)

\* DispatchTriggeredCondition returns.
Done(t) ==
  /\ Goto(t, IF aim[t] = "all" THEN "drain" ELSE "idle")
  /\ cond' = [cond EXCEPT ![t] = None]
  /\ UNCHANGED aim

\* The GetTriggerValue of DispatchTriggeredCondition.
Look(t) ==
  /\ pc[t] = "look" /\ Free(cond[t])
  /\ IF trigger[cond[t]]
       THEN Goto(t, "ready") /\ UNCHANGED <<cond, aim>>
       ELSE Done(t)
  /\ UNCHANGED <<wsVars, cv, condVars, call, admin, history>>

\* Mutant: the functor is called without the condition's mutex.
BeginHandlerUnlocked(t) ==
  /\ pc[t] = "ready" /\ Free(cond[t])
  /\ trigger[cond[t]] /\ cond[t] \in handler
  /\ unseen' = unseen \ {cond[t]}
  /\ Goto(t, "handling")
  /\ UNCHANGED <<wsVars, cv, condVars, cond, aim, call, admin, dropped>>

\* GuardCondition::Dispatch locks the condition and calls its functor.
BeginHandler(t) ==
  /\ pc[t] = "ready" /\ Free(cond[t])
  /\ trigger[cond[t]] /\ cond[t] \in handler
  /\ holder' = [holder EXCEPT ![cond[t]] = t]
  /\ unseen' = unseen \ {cond[t]}
  /\ Goto(t, "handling")
  /\ UNCHANGED <<wsVars, cv, trigger, handler, attached, cond, aim,
                 call, admin, dropped>>

\* Dispatch with nothing to call: it was reset meanwhile, or has no functor.
DispatchNothing(t) ==
  /\ pc[t] = "ready" /\ Free(cond[t])
  /\ ~trigger[cond[t]] \/ cond[t] \notin handler
  /\ trigger' = [trigger EXCEPT ![cond[t]] = FALSE]
  /\ unseen' = unseen \ {cond[t]}
  /\ dropped' = dropped \ {cond[t]}
  /\ Done(t)
  /\ UNCHANGED <<wsVars, cv, handler, attached, holder, call, admin>>

\* The functor returns; Dispatch resets the trigger and unlocks.
HandlerReturns(t) ==
  /\ pc[t] = "handling" /\ call[t] = NoCall
  /\ holder' = [holder EXCEPT ![cond[t]] = None]
  /\ trigger' = [trigger EXCEPT ![cond[t]] = FALSE]
  /\ dropped' = dropped \ {cond[t]}
  /\ Done(t)
  /\ UNCHANGED <<wsVars, cv, handler, attached, call, admin, unseen>>

\* The functor throws: the mutex is unlocked, the trigger is not reset, and the
\* exception leaves the dispatcher's call or ends in the worker's loop.
HandlerThrows(t) ==
  /\ "Throw" \in Ops
  /\ pc[t] = "handling" /\ call[t] = NoCall
  /\ holder' = [holder EXCEPT ![cond[t]] = None]
  /\ dropped' = dropped \cup {cond[t]}
  /\ cond' = [cond EXCEPT ![t] = None]
  /\ Goto(t, "idle")
  /\ UNCHANGED <<wsVars, cv, trigger, handler, attached, aim, call,
                 admin, unseen>>

-----------------------------------------------------------------------------
(* GuardCondition::SetTriggerValue.                                        *)

\* A thread, or a handler, starts to set c's trigger.
Ask(t, c) ==
  /\ call[t] = NoCall
  /\ t \in Takers => pc[t] = "handling" /\ c \in Triggers[cond[t]]
  /\ call' = [call EXCEPT ![t] = <<"set", c>>]
  /\ UNCHANGED <<wsVars, cv, condVars, takerVars, admin, history>>

SetTriggerValue(t) ==
  LET c == call[t][2] IN
  /\ call[t][1] = "set" /\ Free(c)
  /\ trigger' = [trigger EXCEPT ![c] = TRUE]
  /\ unseen' = unseen \cup {c}
  /\ call' = [call EXCEPT ![t] = <<"copy", c>>]
  /\ UNCHANGED <<wsVars, cv, handler, attached, holder, takerVars, admin, dropped>>

\* AbstractCondition::SignalAll copies waitSet_ and lets the mutex go.
SignalAll(t) ==
  LET c == call[t][2] IN
  /\ call[t][1] = "copy" /\ Free(c)
  /\ call' = [call EXCEPT ![t] = IF c \in attached THEN <<"signal", c>> ELSE NoCall]
  /\ UNCHANGED <<wsVars, cv, condVars, takerVars, admin, history>>

\* Mutant: Signal wakes a taker only when the queue was empty.
SignalFirstOnly(t) ==
  LET c == call[t][2] IN
  /\ call[t][1] = "signal"
  /\ valid /\ c \in conditions
  /\ Enqueue(c)
  /\ IF queue = <<>> THEN CV!WakeOne ELSE UNCHANGED cv
  /\ call' = [call EXCEPT ![t] = NoCall]
  /\ UNCHANGED <<valid, conditions, condVars, takerVars, admin, unseen>>

\* WaitSet::Signal on the copy: refused, or queued and one taker woken.
Signal(t) ==
  LET c == call[t][2] IN
  /\ call[t][1] = "signal"
  /\ valid => c \in conditions
  /\ IF valid THEN Enqueue(c) /\ CV!WakeOne
     ELSE dropped' = dropped \cup {c} /\ UNCHANGED <<queue, triggered, cv>>
  /\ call' = [call EXCEPT ![t] = NoCall]
  /\ UNCHANGED <<valid, conditions, condVars, takerVars, admin, unseen>>

\* The ASSERT of WaitSet::Signal: the condition is not attached.
SignalAborts(t) ==
  /\ call[t][1] = "signal" /\ valid /\ call[t][2] \notin conditions
  /\ aborted' = TRUE
  /\ UNCHANGED <<wsVars, cv, condVars, takerVars, call, admin, history>>

\* SetTriggerValue(false), as the RTPS writers call it.
ResetTrigger(c) ==
  /\ "Reset" \in Ops /\ Free(c)
  /\ trigger' = [trigger EXCEPT ![c] = FALSE]
  /\ unseen' = unseen \ {c} /\ dropped' = dropped \ {c}
  /\ UNCHANGED <<wsVars, cv, handler, attached, holder, takerVars, call, admin>>

\* SetHandler and ResetHandler.
ChangeHandler(c) ==
  /\ "Handler" \in Ops /\ Free(c)
  /\ handler' = IF c \in handler THEN handler \ {c} ELSE handler \cup {c}
  /\ UNCHANGED <<wsVars, cv, trigger, attached, holder, takerVars, call, admin, history>>

-----------------------------------------------------------------------------
(* Administration.  The owner of a wait set runs one Attach or Detach at a *)
(* time (the thread pool under its lock), and attaches a condition once.   *)

\* WaitSet::Attach: the condition learns of the wait set, ...
Attach(c) ==
  /\ "Attach" \in Ops /\ admin = NoCall
  /\ c \notin attached /\ Free(c)
  /\ attached' = attached \cup {c}
  /\ admin' = <<"attached", c>>
  /\ UNCHANGED <<wsVars, cv, trigger, handler, holder, takerVars, call, history>>

\* ... its trigger value is read, ...
AttachLook ==
  LET c == admin[2] IN
  /\ admin[1] = "attached" /\ Free(c)
  /\ admin' = <<IF trigger[c] THEN "triggered" ELSE "quiet", c>>
  /\ UNCHANGED <<wsVars, cv, condVars, takerVars, call, history>>

\* ... and the wait set learns of the condition, valid or not.
AttachInsert ==
  LET c == admin[2] IN
  /\ admin[1] \in {"triggered", "quiet"}
  /\ conditions' = conditions \cup {c}
  /\ IF admin[1] = "triggered" THEN Enqueue(c) /\ CV!WakeOne
     ELSE UNCHANGED <<queue, triggered, dropped, cv>>
  /\ admin' = NoCall
  /\ UNCHANGED <<valid, condVars, takerVars, call, unseen>>

\* WaitSet::Detach: the wait set forgets the condition, ...
Detach(c) ==
  /\ "Detach" \in Ops /\ admin = NoCall
  /\ c \in attached
  /\ conditions' = conditions \ {c}
  /\ triggered' = triggered \ {c}
  /\ queue' = Without(queue, c)
  /\ admin' = <<"erased", c>>
  /\ UNCHANGED <<valid, cv, condVars, takerVars, call, history>>

\* ... its trigger is reset, ...
DetachReset ==
  LET c == admin[2] IN
  /\ admin[1] = "erased" /\ Free(c)
  /\ trigger' = [trigger EXCEPT ![c] = FALSE]
  /\ unseen' = unseen \ {c} /\ dropped' = dropped \ {c}
  /\ admin' = <<"reset", c>>
  /\ UNCHANGED <<wsVars, cv, handler, attached, holder, takerVars, call>>

\* ... and the condition forgets the wait set.
DetachForget ==
  LET c == admin[2] IN
  /\ admin[1] = "reset" /\ Free(c)
  /\ attached' = attached \ {c}
  /\ admin' = NoCall
  /\ UNCHANGED <<wsVars, cv, trigger, handler, holder, takerVars, call, history>>

\* WaitSet::Stop and WaitSet::Start: both wake every taker.
SetValid(v) ==
  /\ "Stop" \in Ops
  /\ valid' = v
  /\ CV!WakeAll
  /\ UNCHANGED <<conditions, queue, triggered, condVars, takerVars, call, admin, history>>

WakeAll ==
  /\ "Stop" \in Ops
  /\ CV!WakeAll
  /\ UNCHANGED <<wsVars, condVars, takerVars, call, admin, history>>

\* Mutant: the queue is cleared, triggeredConditions_ is not.
ClearTriggeredQueueOnly ==
  /\ "Clear" \in Ops
  /\ queue' = <<>>
  /\ dropped' = dropped \cup triggered
  /\ UNCHANGED <<valid, conditions, triggered, cv, condVars, takerVars, call, admin, unseen>>

\* WaitSet::ClearTriggeredQueue
ClearTriggeredQueue ==
  /\ "Clear" \in Ops
  /\ queue' = <<>> /\ triggered' = {}
  /\ dropped' = dropped \cup triggered
  /\ UNCHANGED <<valid, conditions, cv, condVars, takerVars, call, admin, unseen>>

-----------------------------------------------------------------------------
\* What a taker does of its own accord once it may.
TakerStep(t) ==
  \/ t \in Workers /\ (CheckStopped(t) \/ Restart(t))
  \/ t \in Dispatchers /\ (Refuse(t) \/ Drain(t) \/ Peek(t) \/ AwakeForOne(t))
  \/ Get(t) \/ Block(t) \/ Awake(t) \/ WaitAgain(t)
  \/ Look(t) \/ BeginHandler(t) \/ DispatchNothing(t)

CallStep(t) == SetTriggerValue(t) \/ SignalAll(t) \/ Signal(t)

AdminStep ==
  \/ \E c \in Conditions :
       Attach(c) \/ Detach(c) \/ ResetTrigger(c) \/ ChangeHandler(c)
  \/ AttachLook \/ AttachInsert \/ DetachReset \/ DetachForget
  \/ WakeAll \/ ClearTriggeredQueue
  \/ \E v \in BOOLEAN : SetValid(v)

Next ==
  \/ /\ ~aborted /\ aborted' = FALSE
     /\ \/ \E t \in Takers : TakerStep(t) \/ GiveUp(t)
                             \/ HandlerReturns(t) \/ HandlerThrows(t)
        \/ \E d \in Dispatchers, k \in Calls : Call(d, k)
        \/ \E t \in Callers : CallStep(t) \/ \E c \in Conditions : Ask(t, c)
        \/ AdminStep
  \/ ~aborted /\ \E t \in Callers : SignalAborts(t)
  \/ aborted /\ UNCHANGED vars

Spec == Init /\ [][Next]_vars

\* Every thread keeps running: a taker that is not blocked goes on, a handler
\* returns, and SetTriggerValue comes to its end.
Fairness ==
  /\ \A t \in Takers :
       /\ WF_vars(~aborted /\ aborted' = FALSE /\ TakerStep(t))
       /\ SF_vars(~aborted /\ aborted' = FALSE /\ HandlerReturns(t))
  /\ \A t \in Callers : WF_vars(~aborted /\ aborted' = FALSE /\ CallStep(t))

FairSpec == Spec /\ Fairness
-----------------------------------------------------------------------------
(* Properties.                                                             *)

TypeOK ==
  /\ valid \in BOOLEAN /\ aborted \in BOOLEAN
  /\ conditions \subseteq Conditions /\ triggered \subseteq Conditions
  /\ handler \subseteq Conditions /\ attached \subseteq Conditions
  /\ unseen \subseteq Conditions /\ dropped \subseteq Conditions
  /\ queue \in Seq(Conditions)
  /\ CV!TypeOK
  /\ trigger \in [Conditions -> BOOLEAN]
  /\ holder \in [Conditions -> Takers \cup {None}]
  /\ pc \in [Takers -> Places]
  /\ cond \in [Takers -> Conditions \cup {None}]
  /\ \A t \in Takers : pc[t] \in {"peek", "block", "look", "ready", "handling"} => cond[t] # None
  /\ aim \in [Takers -> Aims]
  /\ call \in [Callers -> {NoCall} \cup {"set", "copy", "signal"} \X Conditions]
  /\ admin \in {NoCall} \cup
       {"attached", "triggered", "quiet", "erased", "reset"} \X Conditions

\* The ASSERTs of enqueueTriggered and dequeueTriggered, and what they stand
\* for: triggeredQueue_ and triggeredConditions_ hold the same conditions, each
\* once, and only attached ones, whatever Signal, Attach, Detach and
\* ClearTriggeredQueue do to them in turn.
QueueConsistent ==
  /\ Members(queue) = triggered
  /\ \A i, j \in DOMAIN queue : queue[i] = queue[j] => i = j
  /\ triggered \subseteq conditions

\* A taker has condition c in hand.
InHand(c) == \E t \in Takers : cond[t] = c /\ pc[t] \in {"look", "ready", "handling"}

\* Somebody will still look at c, or was told not to.
Accounted(c) ==
  \/ c \in Members(queue) \cup dropped
  \/ InHand(c)
  \/ \E t \in Callers : call[t] \in {<<"copy", c>>, <<"signal", c>>}
  \/ admin = <<"triggered", c>>

\* No trigger is lost between the condition's mutex and the wait set's: an
\* attached condition whose trigger is set is queued, or in the hands of a
\* taker, or about to be signalled, unless Stop, ClearTriggeredQueue or a
\* throwing handler dropped it.
NoLostTrigger == \A c \in conditions : trigger[c] => Accounted(c)

\* Dispatch resets triggerValue_ after the handler, but never wipes out a
\* trigger set after the handler began: the condition's mutex is held all along.
TriggerKept == \A c \in unseen : trigger[c]

\* Takers on their way to the queue: they come by it before they do anything else.
Heading ==
  {t \in Takers :
     \/ MayWait(t)
     \/ pc[t] = "waiting" /\ cv[t] # "asleep"
     \/ pc[t] = "drain"}

\* wakeOne is enough: while a taker sleeps, there is for every queued condition
\* a taker on its way to the queue, so no condition waits behind a busy handler
\* for as long as somebody could run it.
WorkConserved == CV!Asleep # {} => Len(queue) <= Cardinality(Heading)

\* Under the lock order of the code, a trigger is always handled: the handler of an
\* attached condition begins, or its trigger is found and reset, after it was set,
\* unless it is dropped, the condition detached or the wait set stopped before.  That
\* holds of a condition that has triggered before it is attached as well.
TriggerHandled ==
  \A c \in Conditions :
    (c \in unseen /\ c \in conditions)
      ~> (c \notin unseen \/ c \notin conditions \/ c \in dropped \/ ~valid \/ aborted)
\* A condition and the threads that dispatch it, as the code sees them that sets triggers
\* and the handlers: a trigger is pending while its value is set and no handler runs.
Dispatched ==
  INSTANCE Dispatching
    WITH Threads <- Takers,
         pending <- {c \in Conditions : trigger[c] /\ Free(c)},
         running <- [t \in Takers |-> IF pc[t] = "handling" THEN cond[t] ELSE None]

\* A handler runs for a trigger, alone, and takes none with it when it ends that was set
\* after it began, however its end, SetTriggerValue, Attach and Detach interleave.
ImplementsDispatching == Dispatched!Spec
=============================================================================
