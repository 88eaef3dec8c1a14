-------------------------- MODULE ThreadPool_proofs --------------------------
(***************************************************************************)
(* Proofs about ThreadPool, for any tasks, workers, policies, operations of *)
(* the client and bounds.                                                   *)
(***************************************************************************)
EXTENDS ThreadPool, ExecutionChecker_proofs, SequenceTheorems, FiniteSetTheorems, TLAPS

-----------------------------------------------------------------------------
(* The inductive invariant.                                                *)

\* The types of what the scheduler, the workers and the client share.
Held ==
  /\ status \in [Tasks -> StatusType] /\ trigger \in [Tasks -> BOOLEAN]
  /\ attached \subseteq Tasks /\ queue \in Seq(Tasks)
  /\ place \in [Workers -> Places] /\ hand \in [Workers -> Tasks \cup {None}]
  /\ \A w \in Workers : hand[w] = None <=> place[w] \in {"none", "loop", "get", "guard"}
  /\ call \in {NoCall} \cup {"attach", "suspend", "wake", "raise", "resumed"} \X Tasks

\* The scheduler or the client has marked t STARTING and not set its trigger yet.
Pending(t) == (phase = "raise" /\ Head(todo) = t) \/ call = <<"raise", t>>

Running(t) == \E w \in Workers : hand[w] = t /\ place[w] = "running"
Handling(w) == place[w] \in {"entry", "running", "return"}

\* Only a task that a worker runs is STARTED: the worker has its condition's mutex.
StartedRuns == \A t \in Tasks : status[t].state = "STARTED" => Running(t)

\* A task that is marked STARTING while its handler runs cannot have been triggered
\* since: its trigger is not reset by the handler's return.
RaiseWaits ==
  \A w \in Workers :
    place[w] \in {"running", "return"} /\ status[hand[w]].state = "STARTING"
      => Pending(hand[w])

IInv == Held /\ NotStartedTwice /\ StartedRuns /\ StartingIsServed /\ RaiseWaits

LEMMA Served ==
  StartingIsServed <=>
    \A t \in Tasks : status[t].state = "STARTING" =>
      OnItsWay(t) \/ Pending(t) \/ t \in refused
BY DEF StartingIsServed, Pending

LEMMA ServedNext ==
  StartingIsServed' <=>
    \A t \in Tasks : status'[t].state = "STARTING" =>
      OnItsWay(t)' \/ Pending(t)' \/ t \in refused'
BY DEF StartingIsServed, Pending

LEMMA Initially == Init => IInv
<1> SUFFICES ASSUME Init PROVE IInv
  OBVIOUS
<1>1. Held
  <2>1. status \in [Tasks -> StatusType] /\ trigger \in [Tasks -> BOOLEAN]
    BY StatusTypes DEF Init
  <2>2. attached \subseteq Tasks /\ queue \in Seq(Tasks)
    BY PoolAssumption DEF Init
  <2>3. /\ place \in [Workers -> Places] /\ hand \in [Workers -> Tasks \cup {None}]
        /\ \A w \in Workers :
             hand[w] = None <=> place[w] \in {"none", "loop", "get", "guard"}
    BY DEF Init, Places
  <2> QED
    BY <2>1, <2>2, <2>3 DEF Held, Init
<1>2. \A t \in Tasks : status[t].state = "NO"
  BY DEF Init, Fresh
<1>3. \A w \in Workers : place[w] \notin {"running", "return"}
  BY DEF Init
<1> QED
  BY <1>1, <1>2, <1>3 DEF IInv, NotStartedTwice, StartedRuns, StartingIsServed, RaiseWaits, Init

-----------------------------------------------------------------------------
(* The queue of triggered conditions.                                      *)

LEMMA MembersAppend ==
  ASSUME NEW q \in Seq(Tasks), NEW t \in Tasks
  PROVE  Append(q, t) \in Seq(Tasks) /\ Members(Append(q, t)) = Members(q) \cup {t}
<1>1. /\ Append(q, t) \in Seq(Tasks)
      /\ Len(Append(q, t)) = Len(q) + 1
      /\ \A i \in 1..Len(q) : Append(q, t)[i] = q[i]
      /\ Append(q, t)[Len(q) + 1] = t
  BY AppendProperties
<1>2. /\ Len(q) \in Nat /\ DOMAIN q = 1..Len(q)
      /\ DOMAIN Append(q, t) = 1..(Len(q) + 1)
  BY <1>1, LenProperties
<1>3. /\ \A i \in 1..(Len(q) + 1) : i \in 1..Len(q) \/ i = Len(q) + 1
      /\ 1..Len(q) \subseteq 1..(Len(q) + 1) /\ Len(q) + 1 \in 1..(Len(q) + 1)
  BY <1>2
<1> QED
  BY <1>1, <1>2, <1>3, Zenon DEF Members

LEMMA MembersTail ==
  ASSUME NEW q \in Seq(Tasks), q # <<>>
  PROVE  /\ Tail(q) \in Seq(Tasks) /\ Head(q) \in Tasks
         /\ \A t \in Members(q) : t = Head(q) \/ t \in Members(Tail(q))
<1>1. /\ Tail(q) \in Seq(Tasks) /\ Head(q) \in Tasks
      /\ Len(Tail(q)) = Len(q) - 1
      /\ \A i \in 1..Len(Tail(q)) : Tail(q)[i] = q[i + 1]
  BY HeadTailProperties
<1>2. /\ Len(q) \in Nat /\ DOMAIN q = 1..Len(q) /\ Head(q) = q[1]
      /\ DOMAIN Tail(q) = 1..(Len(q) - 1)
  BY <1>1, LenProperties
<1>3. ASSUME NEW i \in DOMAIN q, i # 1
      PROVE  i - 1 \in DOMAIN Tail(q) /\ q[i] = Tail(q)[i - 1]
  <2>1. i - 1 \in 1..(Len(q) - 1) /\ (i - 1) + 1 = i
    BY <1>2, <1>3
  <2> QED
    BY <1>1, <1>2, <2>1
<1>4. ASSUME NEW t \in Members(q) PROVE t = Head(q) \/ t \in Members(Tail(q))
  <2>1. PICK i \in DOMAIN q : t = q[i]
    BY DEF Members
  <2> QED
    BY <1>2, <1>3, <2>1 DEF Members
<1> QED
  BY <1>1, <1>4

\* Signal queues a task that is not queued yet.
LEMMA EnqueueKeeps ==
  ASSUME queue \in Seq(Tasks), NEW t \in Tasks, Enqueue(t)
  PROVE  queue' \in Seq(Tasks) /\ Members(queue') = Members(queue) \cup {t}
<1>1. CASE t \in Members(queue)
  BY <1>1 DEF Enqueue
<1>2. CASE t \notin Members(queue)
  BY <1>2, MembersAppend DEF Enqueue
<1> QED
  BY <1>1, <1>2

-----------------------------------------------------------------------------
(* Steps that leave the conditions and the workers alone.                  *)

LEMMA CalmKeeps ==
  ASSUME IInv, Held', aborted' # "IsStarted",
         UNCHANGED <<attached, trigger, queue, refused, place, hand>>,
         \A t \in Tasks : Pending(t) => Pending(t)',
         \A t \in Tasks : status'[t].state = "STARTED" => status[t].state = "STARTED",
         \A t \in Tasks : status'[t].state = "STARTING" =>
                            status[t].state = "STARTING" \/ Pending(t)'
  PROVE  IInv'
<1>1. StartedRuns'
  BY DEF IInv, StartedRuns, Running
<1>2. StartingIsServed'
  <2>1. \A t \in Tasks : OnItsWay(t)' <=> OnItsWay(t)
    BY DEF OnItsWay
  <2> QED
    BY <2>1, Served, ServedNext DEF IInv
<1>3. RaiseWaits'
  <2>1. \A w \in Workers : place[w] \in {"running", "return"} => hand[w] \in Tasks
    BY DEF IInv, Held
  <2> QED
    BY <2>1 DEF IInv, RaiseWaits
<1> QED
  BY <1>1, <1>2, <1>3 DEF IInv, NotStartedTwice

\* Raise sets the trigger of a task whose handler does not run.
LEMMA RaiseKeeps ==
  ASSUME IInv, NEW t, Raise(t), Held', UNCHANGED <<status, place, hand, aborted>>,
         \A u \in Tasks : u # t => (Pending(u) => Pending(u)')
  PROVE  IInv'
<1>1. \A u \in Members(queue) : u \in Members(queue')
  BY EnqueueKeeps DEF Raise, IInv, Held
<1>2. /\ Free(t) /\ attached' = attached
      /\ \A u \in refused : u # t => u \in refused'
  BY DEF Raise
<1>3. StartedRuns'
  BY DEF IInv, StartedRuns, Running
<1>4. ASSUME NEW u \in Tasks, status[u].state = "STARTING", u # t
      PROVE  OnItsWay(u)' \/ Pending(u)' \/ u \in refused'
  <2>1. trigger'[u] = trigger[u]
    BY <1>4 DEF Raise, IInv, Held
  <2>2. OnItsWay(u) => OnItsWay(u)' \/ u \in refused'
    BY <1>1, <1>2, <1>4, <2>1 DEF OnItsWay
  <2> QED
    BY <1>2, <1>4, <2>2, Served DEF IInv
<1>5. ASSUME t \in Tasks, status[t].state = "STARTING"
      PROVE  OnItsWay(t)' \/ t \in refused'
  <2>1. trigger'[t] = TRUE
    BY <1>5 DEF Raise, IInv, Held
  <2>2. CASE valid /\ t \in attached
    <3>1. t \in Members(queue')
      BY <1>5, <2>2, EnqueueKeeps DEF Raise, IInv, Held
    <3> QED
      BY <2>1, <3>1 DEF OnItsWay
  <2>3. CASE ~(valid /\ t \in attached)
    BY <1>2, <2>1, <2>3 DEF Raise, OnItsWay
  <2> QED
    BY <2>2, <2>3
<1>6. StartingIsServed'
  BY <1>4, <1>5, ServedNext
<1>7. RaiseWaits'
  <2>1. ASSUME NEW w \in Workers, place[w] \in {"running", "return"}
        PROVE  hand[w] \in Tasks /\ hand[w] # t
    BY <1>2, <2>1 DEF IInv, Held, Free
  <2> QED
    BY <2>1 DEF IInv, RaiseWaits
<1> QED
  BY <1>3, <1>6, <1>7 DEF IInv, NotStartedTwice

-----------------------------------------------------------------------------
(* The scheduler.                                                          *)

\* The reads and the loops of the scheduler.
LEMMA ReadsKeep ==
  ASSUME IInv,
         StopIdleWorkers \/ KeepWorkers \/ Begin \/ Visit \/ EndLoop \/ Evaluate
           \/ AssertFound \/ Abort \/ Unready \/ Wait \/ WakeUp \/ Lapsed \/ Remove
  PROVE  IInv'
<1>1. /\ UNCHANGED <<status, attached, trigger, queue, refused, place, hand, call>>
      /\ aborted' = aborted \/ aborted' \in {"FindReady", "ComputeEarliestReadyIn", "Remove"}
      /\ phase # "raise" \/ UNCHANGED <<phase, todo>>
  <2>1. CASE StopIdleWorkers \/ KeepWorkers \/ Begin \/ Visit \/ EndLoop
    BY <2>1 DEF StopIdleWorkers, KeepWorkers, Begin, Visit, EndLoop, execVars,
                workerVars, clientVars
  <2>2. CASE Evaluate
    <3>1. phase # "raise" \/ UNCHANGED <<phase, todo>>
      BY <2>2 DEF Evaluate, ReadAttempt, ReadFree, ReadNext, ReadExecuting, ReadRetry,
                  ReadTimeout, AssertReady, Return, Then
    <3> QED
      BY <2>2, <3>1 DEF Evaluate, execVars, workerVars, clientVars
  <2>3. CASE AssertFound \/ Abort
    BY <2>3 DEF AssertFound, Abort, execVars, schedVars, workerVars, clientVars
  <2>4. CASE Unready \/ Wait \/ WakeUp \/ Lapsed \/ Remove
    BY <2>4 DEF Unready, Wait, WakeUp, Lapsed, Remove, execVars, workerVars, clientVars
  <2> QED
    BY <2>1, <2>2, <2>3, <2>4
<1>2. \A t \in Tasks : Pending(t) => Pending(t)'
  BY <1>1 DEF Pending
<1>3. Held'
  BY <1>1 DEF IInv, Held
<1> QED
  BY <1>1, <1>2, <1>3, CalmKeeps DEF IInv, NotStartedTwice

\* New workers have no task in hand.
LEMMA StartWorkersKeeps ==
  ASSUME IInv, StartWorkers
  PROVE  IInv'
<1>1. /\ UNCHANGED <<status, attached, trigger, queue, refused, hand, call, aborted>>
      /\ phase = "balance"
  BY DEF StartWorkers, workerVars, clientVars
<1>2. PICK new \in SUBSET (Workers \ Alive) :
        place' = [w \in Workers |-> IF w \in new THEN "loop" ELSE place[w]]
  BY DEF StartWorkers
<1>3. \A w \in Workers : place'[w] = place[w] \/ (place[w] = "none" /\ place'[w] = "loop")
  BY <1>2 DEF Alive
<1>4. place' \in [Workers -> Places]
  BY <1>2 DEF IInv, Held, Places
<1>5. Held'
  BY <1>1, <1>3, <1>4 DEF IInv, Held
<1>6. StartedRuns'
  BY <1>1, <1>3 DEF IInv, StartedRuns, Running
<1>7. \A t \in Tasks : (OnItsWay(t)' <=> OnItsWay(t)) /\ (Pending(t) => Pending(t)')
  BY <1>1 DEF OnItsWay, Pending
<1>8. StartingIsServed'
  BY <1>1, <1>7, Served, ServedNext DEF IInv
<1>9. RaiseWaits'
  <2>1. \A w \in Workers : place[w] \in {"running", "return"} => hand[w] \in Tasks
    BY DEF IInv, Held
  <2> QED
    BY <1>1, <1>3, <1>7, <2>1 DEF IInv, RaiseWaits
<1> QED
  BY <1>1, <1>5, <1>6, <1>8, <1>9 DEF IInv, NotStartedTwice

\* A status keeps its type when its state is set, in or out of Tasks.
LEMMA SetTypes ==
  ASSUME Held, NEW t, NEW f \in States
  PROVE  /\ [status EXCEPT ![t].state = f] \in [Tasks -> StatusType]
         /\ \A u \in Tasks : [status EXCEPT ![t].state = f][u].state =
                              IF u = t THEN f ELSE status[u].state
<1>1. \A s \in StatusType : [s EXCEPT !.state = f] \in StatusType
                           /\ [s EXCEPT !.state = f].state = f
  BY DEF StatusType
<1> DEFINE new == [status EXCEPT ![t].state = f]
<1>2. new = [u \in Tasks |-> IF u = t THEN [status[u] EXCEPT !.state = f] ELSE status[u]]
  BY DEF Held
<1>3. \A u \in Tasks : status[u] \in StatusType
  BY DEF Held
<1> HIDE DEF new
<1>4. new \in [Tasks -> StatusType]
  BY <1>1, <1>2, <1>3
<1>5. \A u \in Tasks : new[u].state = IF u = t THEN f ELSE status[u].state
  BY <1>1, <1>2, <1>3
<1> QED
  BY <1>4, <1>5 DEF new

\* The steps of the scheduler that change a status or set a trigger.
LEMMA TriggersKeep ==
  ASSUME IInv, SetStarting \/ RaiseTrigger \/ Interrupt
  PROVE  IInv'
<1>1. CASE SetStarting
  <2>1. /\ UNCHANGED <<attached, trigger, queue, refused, place, hand, call, aborted>>
        /\ phase = "set"
    BY <1>1 DEF SetStarting, execVars, workerVars, clientVars
  <2>2. CASE IsExecuting(Status)
    <3>1. status' = [status EXCEPT ![Head(todo)].state = status[Head(todo)].state]
      BY <1>1, <2>2 DEF SetStarting, SetIffNotExecuting, Status
    <3>2. status' = status
      BY <3>1 DEF IInv, Held, StatusType
    <3>3. Held' /\ \A t \in Tasks : Pending(t) => Pending(t)'
      BY <2>1, <3>2 DEF IInv, Held, Pending
    <3> QED
      BY <2>1, <3>2, <3>3, CalmKeeps DEF IInv, NotStartedTwice
  <2>3. CASE ~IsExecuting(Status)
    <3>1. /\ status' = [status EXCEPT ![Head(todo)].state = "STARTING"]
          /\ phase' = "raise" /\ todo' = todo
      BY <1>1, <2>3 DEF SetStarting, SetIffNotExecuting, Status, Go
    <3>2. /\ status' \in [Tasks -> StatusType]
          /\ \A u \in Tasks : status'[u].state =
               IF u = Head(todo) THEN "STARTING" ELSE status[u].state
      BY <3>1, SetTypes DEF IInv, States
    <3>3. Held'
      BY <2>1, <3>2 DEF IInv, Held
    <3>4. /\ \A t \in Tasks : Pending(t) => Pending(t)'
          /\ \A t \in Tasks : t = Head(todo) => Pending(t)'
      BY <2>1, <3>1 DEF Pending
    <3> QED
      BY <2>1, <3>2, <3>3, <3>4, CalmKeeps DEF IInv, NotStartedTwice
  <2> QED
    BY <2>2, <2>3
<1>2. CASE RaiseTrigger
  <2>1. /\ UNCHANGED <<status, place, hand, call, aborted>> /\ Raise(Head(todo))
        /\ phase = "raise"
    BY <1>2 DEF RaiseTrigger, workerVars, clientVars
  <2>2. Held'
    <3>1. trigger' \in [Tasks -> BOOLEAN] /\ attached' = attached
      BY <2>1 DEF Raise, IInv, Held
    <3>2. queue' \in Seq(Tasks)
      BY <2>1, EnqueueKeeps DEF Raise, IInv, Held
    <3> QED
      BY <2>1, <3>1, <3>2 DEF IInv, Held
  <2>3. \A u \in Tasks : u # Head(todo) => (Pending(u) => Pending(u)')
    BY <2>1 DEF Pending
  <2> QED
    BY <2>1, <2>2, <2>3, RaiseKeeps
<1>3. CASE Interrupt
  <2>1. /\ UNCHANGED <<attached, trigger, queue, refused, place, hand, call, aborted>>
        /\ phase = "interrupt"
        /\ status' = status \/ status' = [status EXCEPT ![Head(todo)].state = "INTERRUPTED"]
    BY <1>3 DEF Interrupt, SetState, execVars, workerVars, clientVars
  <2>2. /\ status' \in [Tasks -> StatusType]
        /\ \A u \in Tasks : status'[u].state \in {status[u].state, "INTERRUPTED"}
    <3>1. CASE status' = status
      BY <3>1 DEF IInv, Held
    <3>2. CASE status' = [status EXCEPT ![Head(todo)].state = "INTERRUPTED"]
      <4>1. "INTERRUPTED" \in States /\ Held
        BY DEF IInv, States
      <4>2. /\ status' \in [Tasks -> StatusType]
            /\ \A u \in Tasks : status'[u].state =
                 IF u = Head(todo) THEN "INTERRUPTED" ELSE status[u].state
        BY <3>2, <4>1, SetTypes
      <4> QED
        BY <4>2
    <3> QED
      BY <2>1, <3>1, <3>2
  <2>3. Held' /\ \A t \in Tasks : Pending(t) => Pending(t)'
    BY <2>1, <2>2 DEF IInv, Held, Pending
  <2> QED
    BY <2>1, <2>2, <2>3, CalmKeeps DEF IInv, NotStartedTwice
<1> QED
  BY <1>1, <1>2, <1>3

-----------------------------------------------------------------------------
(* The workers.                                                            *)

\* What a worker has in hand is a task.
LEMMA InHand ==
  ASSUME Held, NEW w \in Workers, hand[w] # None
  PROVE  hand[w] \in Tasks
BY DEF Held

\* A worker that moves to a place where it has nothing in hand, or still has the
\* task it had, and no handler begins or ends.
LEMMA MovesKeep ==
  ASSUME IInv, NEW w \in Workers, Held', aborted' # "IsStarted",
         UNCHANGED <<status, valid, attached, trigger, refused, schedVars, call>>,
         place' = [place EXCEPT ![w] = place'[w]],
         \A v \in Workers : v # w => hand'[v] = hand[v],
         place[w] \notin {"running", "return"}, place'[w] \notin {"running", "return"},
         \A t \in Members(queue) : t \in Members(queue') \/ hand'[w] = t,
         hand'[w] = hand[w] \/ hand[w] = None \/ ~trigger[hand[w]]
  PROVE  IInv'
<1>1. \A v \in Workers : v # w => place'[v] = place[v]
  BY DEF IInv, Held
<1>2. StartedRuns'
  <2>1. \A t \in Tasks : Running(t) => Running(t)'
    BY <1>1 DEF Running
  <2> QED
    BY <2>1 DEF IInv, StartedRuns
<1>3. \A t \in Tasks : Pending(t)' <=> Pending(t)
  BY DEF Pending, schedVars
<1>4. ASSUME NEW t \in Tasks, OnItsWay(t) PROVE OnItsWay(t)'
  <2>1. t # None
    BY PoolAssumption
  <2>2. CASE \E v \in Workers : hand[v] = t
    BY <1>4, <2>1, <2>2 DEF OnItsWay
  <2>3. CASE t \in Members(queue)
    BY <1>4, <2>3 DEF OnItsWay
  <2>4. CASE t \notin attached \/ t \in refused
    BY <1>4, <2>4 DEF OnItsWay
  <2> QED
    BY <1>4, <2>2, <2>3, <2>4 DEF OnItsWay
<1>5. StartingIsServed'
  BY <1>3, <1>4, Served, ServedNext DEF IInv
<1>6. RaiseWaits'
  <2>1. ASSUME NEW v \in Workers, place'[v] \in {"running", "return"}
        PROVE  v # w /\ place[v] = place'[v] /\ hand'[v] = hand[v] /\ hand[v] \in Tasks
    BY <1>1, <2>1 DEF IInv, Held
  <2> QED
    BY <1>3, <2>1 DEF IInv, RaiseWaits
<1> QED
  BY <1>2, <1>5, <1>6 DEF IInv, NotStartedTwice

\* The steps between handlers.
LEMMA BetweenHandlers ==
  ASSUME IInv, NEW w \in Workers, UNCHANGED <<list, schedVars, clientVars>>,
         CheckStopped(w) \/ Get(w) \/ Look(w) \/ Dispatch(w) \/ WakeScheduler(w)
  PROVE  IInv'
<1>0. UNCHANGED call /\ PoolAssumption
  BY PoolAssumption DEF clientVars
<1>1. CASE CheckStopped(w) \/ WakeScheduler(w)
  <2>1. /\ UNCHANGED <<status, valid, attached, trigger, queue, refused, hand, aborted>>
        /\ place[w] \in {"loop", "guard"}
        /\ \E p \in {"get", "none", "loop"} : place' = [place EXCEPT ![w] = p]
    BY <1>1 DEF CheckStopped, WakeScheduler, At, execVars
  <2>2. place'[w] \in {"get", "none", "loop"} /\ place' = [place EXCEPT ![w] = place'[w]]
    BY <2>1 DEF IInv, Held
  <2>3. Held'
    <3>1. place' \in [Workers -> Places]
      BY <2>1 DEF IInv, Held, Places
    <3> QED
      BY <1>0, <2>1, <2>2, <3>1 DEF IInv, Held
  <2> QED
    BY <1>0, <2>1, <2>2, <2>3, MovesKeep DEF IInv, NotStartedTwice
<1>2. CASE Get(w)
  <2>1. /\ UNCHANGED <<status, valid, attached, trigger, refused, aborted>>
        /\ place[w] = "get" /\ hand[w] = None
    BY <1>2 DEF Get, At, execVars, IInv, Held
  <2>2. CASE queue # <<>> /\ place' = [place EXCEPT ![w] = "look"]
             /\ hand' = [hand EXCEPT ![w] = Head(queue)] /\ queue' = Tail(queue)
    <3>1. /\ queue' \in Seq(Tasks) /\ Head(queue) \in Tasks
          /\ \A t \in Members(queue) : t = Head(queue) \/ t \in Members(queue')
      BY <2>2, MembersTail DEF IInv, Held
    <3>2. /\ place'[w] = "look" /\ hand'[w] = Head(queue)
          /\ place' = [place EXCEPT ![w] = place'[w]]
          /\ \A v \in Workers : v # w => hand'[v] = hand[v] /\ place'[v] = place[v]
          /\ place' \in [Workers -> Places]
      BY <2>2 DEF IInv, Held, Places
    <3>3. hand' \in [Workers -> Tasks \cup {None}]
      BY <2>2, <3>1 DEF IInv, Held
    <3>4. Held'
      BY <1>0, <2>1, <3>1, <3>2, <3>3 DEF IInv, Held
    <3> QED
      BY <1>0, <2>1, <3>1, <3>2, <3>4, MovesKeep DEF IInv, NotStartedTwice
  <2>3. CASE place' = [place EXCEPT ![w] = "loop"] /\ UNCHANGED <<queue, hand>>
    <3>1. /\ place'[w] = "loop" /\ place' = [place EXCEPT ![w] = place'[w]]
          /\ place' \in [Workers -> Places]
          /\ \A v \in Workers : v # w => place'[v] = place[v]
      BY <2>3 DEF IInv, Held, Places
    <3>2. Held'
      BY <1>0, <2>1, <2>3, <3>1 DEF IInv, Held
    <3> QED
      BY <1>0, <2>1, <2>3, <3>1, <3>2, MovesKeep DEF IInv, NotStartedTwice
  <2> QED
    BY <1>2, <2>2, <2>3 DEF Get, At, execVars
<1>3. CASE Look(w) \/ Dispatch(w)
  <2>1. /\ UNCHANGED <<status, valid, attached, trigger, queue, refused>>
        /\ place[w] \in {"look", "ready"}
        /\ \/ trigger[hand[w]] /\ hand' = hand
              /\ \E p \in {"ready", "entry"} : place' = [place EXCEPT ![w] = p]
           \/ ~trigger[hand[w]] /\ hand' = [hand EXCEPT ![w] = None]
              /\ \E p \in {"loop", "guard"} : place' = [place EXCEPT ![w] = p]
    BY <1>3 DEF Look, Dispatch, At, execVars
  <2>2. aborted' # "IsStarted"
    <3>1. hand[w] # None /\ hand[w] \in Tasks
      BY <2>1, InHand DEF IInv, Held
    <3>2. Free(hand[w]) => status[hand[w]].state # "STARTED"
      BY <3>1 DEF IInv, StartedRuns, Running, Free
    <3> QED
      BY <1>3, <3>2 DEF Look, Dispatch, IInv, NotStartedTwice
  <2>3. /\ place' = [place EXCEPT ![w] = place'[w]] /\ place' \in [Workers -> Places]
        /\ \A v \in Workers : v # w => hand'[v] = hand[v] /\ place'[v] = place[v]
        /\ hand' \in [Workers -> Tasks \cup {None}]
    BY <2>1 DEF IInv, Held, Places
  <2>4. \/ trigger[hand[w]] /\ hand'[w] = hand[w] /\ place'[w] \in {"ready", "entry"}
        \/ ~trigger[hand[w]] /\ hand'[w] = None /\ place'[w] \in {"loop", "guard"}
    BY <2>1 DEF IInv, Held
  <2>5. Held'
    BY <1>0, <2>1, <2>3, <2>4 DEF IInv, Held
  <2> QED
    BY <1>0, <2>1, <2>2, <2>3, <2>4, <2>5, MovesKeep
<1> QED
  BY <1>1, <1>2, <1>3

\* The steps of a handler, which holds its condition's mutex.
LEMMA HandlerKeeps ==
  ASSUME IInv, NEW w \in Workers, UNCHANGED <<list, schedVars, clientVars>>,
         Entry(w) \/ Exit(w) \/ HandlerReturns(w)
  PROVE  IInv'
<1>a. hand[w] \in Tasks
  BY InHand DEF Entry, Exit, HandlerReturns, At, IInv, Held
<1>b. PICK t \in Tasks : t = hand[w]
  BY <1>a
<1>0. UNCHANGED call /\ t \in Tasks /\ t = hand[w] /\ t # None /\ status[t] \in StatusType
  BY <1>b, PoolAssumption DEF clientVars, IInv, Held
<1>1. \A u \in Tasks : Pending(u)' <=> Pending(u)
  BY <1>0 DEF Pending, schedVars
<1>2. CASE Entry(w) \/ Exit(w)
  <2>1. /\ UNCHANGED <<attached, trigger, queue, refused, hand, aborted>>
        /\ place' = [place EXCEPT ![w] = place'[w]]
        /\ \A v \in Workers : v # w => place'[v] = place[v]
        /\ place' \in [Workers -> Places]
        /\ \/ Entry(w) /\ place[w] = "entry" /\ place'[w] = "running"
           \/ Exit(w) /\ place[w] = "running" /\ place'[w] = "return"
    BY <1>2 DEF Entry, Exit, At, execVars, IInv, Held, Places
  <2>2. PICK s \in StatusType :
          /\ status' = [status EXCEPT ![t] = s]
          /\ s.state = "STARTED" <=> Entry(w)
          /\ s.state # "STARTING"
    <3>1. CASE Entry(w)
      <4>1. Lesser(Start(status[t]).attempts, Policy[t].max + 1) \in Nat
        BY <1>0, StatusTypes, PoolAssumption DEF Lesser, StatusType, PolicyType
      <4> DEFINE n == Lesser(Start(status[t]).attempts, Policy[t].max + 1)
                 s == [Start(status[t]) EXCEPT !.attempts = n]
      <4>2. status' = [status EXCEPT ![t] = s]
        <5>1. status' = [status EXCEPT ![hand[w]] =
                [Start(status[hand[w]]) EXCEPT !.attempts =
                   Lesser(Start(status[hand[w]]).attempts, Policy[hand[w]].max + 1)]]
          BY <3>1, Zenon DEF Entry
        <5> QED
          BY <1>0, <5>1
      <4>3. Start(status[t]) \in StatusType /\ Start(status[t]).state = "STARTED"
        BY <1>0, StatusTypes DEF Start, StatusType
      <4> HIDE DEF n
      <4>4. n \in Nat
        BY <4>1 DEF n
      <4>5. s \in StatusType /\ s.state = "STARTED"
        BY <4>3, <4>4 DEF StatusType
      <4> QED
        BY <3>1, <4>2, <4>5
    <3>2. CASE Exit(w)
      <4>1. ~Entry(w)
        BY <2>1, <3>2 DEF Entry, Exit, At
      <4>2. CASE status' = [status EXCEPT ![hand[w]] = Failure(status[hand[w]], "FAILURE")]
        <5>1. /\ Failure(status[t], "FAILURE") \in StatusType
              /\ Failure(status[t], "FAILURE").state = "FAILURE"
          <6>1. "FAILURE" \in States
            BY DEF States
          <6>2. Failure(status[t], "FAILURE") \in StatusType
            BY <1>0, <6>1, StatusTypes
          <6> QED
            BY <1>0, <6>2 DEF Failure, StatusType
        <5> QED
          BY <1>0, <4>1, <4>2, <5>1
      <4>3. CASE status' = [status EXCEPT ![hand[w]] =
                   [Success(status[hand[w]]) EXCEPT
                      !.successes = Lesser(@, Policy[hand[w]].min)]]
        <5> DEFINE n == Lesser(Success(status[t]).successes, Policy[t].min)
                   s == [Success(status[t]) EXCEPT !.successes = n]
        <5>1. n \in Nat
          BY <1>0, StatusTypes, PoolAssumption DEF Lesser, StatusType, PolicyType
        <5>2. status' = [status EXCEPT ![t] = s]
          BY <1>0, <4>3
        <5>3. Success(status[t]) \in StatusType /\ Success(status[t]).state = "STOPPED"
          BY <1>0, StatusTypes DEF Success, StatusType
        <5> HIDE DEF n
        <5>4. s \in StatusType /\ s.state = "STOPPED"
          BY <5>1, <5>3 DEF StatusType
        <5> QED
          BY <4>1, <5>2, <5>4
      <4> QED
        BY <3>2, <4>2, <4>3 DEF Exit
    <3> QED
      BY <1>2, <3>1, <3>2
  <2>3. /\ status' \in [Tasks -> StatusType]
        /\ \A u \in Tasks : status'[u] = IF u = t THEN s ELSE status[u]
    BY <1>0, <2>2 DEF IInv, Held
  <2>4. Held'
    BY <1>0, <2>1, <2>3 DEF IInv, Held
  <2>5. StartedRuns'
    <3>1. ASSUME NEW u \in Tasks, u # t, Running(u) PROVE Running(u)'
      BY <1>0, <2>1, <3>1 DEF Running
    <3>2. Entry(w) => Running(t)'
      BY <1>0, <2>1 DEF Running, Exit, Entry, At
    <3> QED
      BY <2>2, <2>3, <3>1, <3>2 DEF IInv, StartedRuns
  <2>6. StartingIsServed'
    <3>1. \A u \in Tasks : OnItsWay(u)' <=> OnItsWay(u)
      BY <2>1 DEF OnItsWay
    <3> QED
      BY <1>1, <2>1, <2>2, <2>3, <3>1, Served, ServedNext DEF IInv
  <2>7. RaiseWaits'
    <3>1. ASSUME NEW v \in Workers, place'[v] \in {"running", "return"},
                 NEW u \in Tasks, u = hand'[v], status'[u].state = "STARTING"
          PROVE  Pending(u)'
      <4>1. u = hand[v] /\ u # t /\ status[u].state = "STARTING"
        BY <2>1, <2>2, <2>3, <3>1
      <4>2. v # w /\ place[v] = place'[v]
        BY <1>0, <2>1, <4>1
      <4> QED
        BY <1>1, <3>1, <4>1, <4>2 DEF IInv, RaiseWaits
    <3>2. \A v \in Workers : place'[v] \in {"running", "return"} => hand'[v] \in Tasks
      BY <2>4 DEF Held
    <3> QED
      BY <3>1, <3>2 DEF RaiseWaits
  <2> QED
    BY <2>1, <2>4, <2>5, <2>6, <2>7 DEF IInv, NotStartedTwice
<1>3. CASE HandlerReturns(w)
  <2>1. /\ UNCHANGED <<status, attached, queue, refused, aborted>>
        /\ place[w] = "return" /\ place'[w] = "guard" /\ hand'[w] = None
        /\ \A v \in Workers : v # w => place'[v] = place[v] /\ hand'[v] = hand[v]
        /\ place' \in [Workers -> Places] /\ hand' \in [Workers -> Tasks \cup {None}]
        /\ trigger' \in [Tasks -> BOOLEAN]
        /\ \A u \in Tasks : u # t => trigger'[u] = trigger[u]
    BY <1>0, <1>3 DEF HandlerReturns, At, IInv, Held, Places
  <2>2. Held'
    BY <1>0, <2>1 DEF IInv, Held
  <2>3. StartedRuns'
    <3>1. \A u \in Tasks : Running(u) => Running(u)'
      BY <2>1 DEF Running
    <3> QED
      BY <2>1, <3>1 DEF IInv, StartedRuns
  <2>4. StartingIsServed'
    <3>1. ASSUME NEW u \in Tasks, u # t, OnItsWay(u) PROVE OnItsWay(u)'
      BY <1>0, <2>1, <3>1 DEF OnItsWay
    <3>2. status[t].state = "STARTING" => Pending(t)
      BY <1>0, <2>1 DEF IInv, RaiseWaits
    <3> QED
      BY <1>1, <2>1, <3>1, <3>2, Served, ServedNext DEF IInv
  <2>5. RaiseWaits'
    <3>1. ASSUME NEW v \in Workers, place'[v] \in {"running", "return"}
          PROVE  v # w /\ hand[v] \in Tasks
      BY <2>1, <2>2, <3>1 DEF Held
    <3> QED
      BY <1>1, <2>1, <3>1 DEF IInv, RaiseWaits
  <2> QED
    BY <2>1, <2>2, <2>3, <2>4, <2>5 DEF IInv, NotStartedTwice
<1> QED
  BY <1>2, <1>3

-----------------------------------------------------------------------------
(* The client, and time.                                                   *)

\* A call in progress is about a task.
LEMMA CallOf ==
  ASSUME Held, call[1] \in {"attach", "suspend", "wake", "raise", "resumed"}
  PROVE  call[2] \in Tasks /\ call = <<call[1], call[2]>>
BY DEF Held, NoCall

\* The calls that neither set a trigger nor attach a condition.
LEMMA CallsKeep ==
  ASSUME IInv, UNCHANGED <<place, hand, aborted>>,
         \/ \E t \in Tasks : Add(t) \/ Resume(t) \/ Suspend(t) \/ Cancel(t)
         \/ CreateSuspended \/ WakeAll \/ ResumeWake
  PROVE  IInv'
<1>1. UNCHANGED <<attached, trigger, queue, refused, place, hand, aborted>>
  BY DEF execVars, Add, Resume, Suspend, Cancel, CreateSuspended, WakeAll, ResumeWake
<1>2. phase # "raise" \/ UNCHANGED <<phase, todo>>
  BY DEF schedVars, Add, Resume, Suspend, Cancel, CreateSuspended, WakeAll, ResumeWake
<1>3. /\ call' = call \/ ~\E t \in Tasks : call = <<"raise", t>>
      /\ call' \in {NoCall} \cup {"attach", "suspend", "wake", "raise", "resumed"} \X Tasks
  BY CallOf DEF Add, Resume, Suspend, Cancel, CreateSuspended, WakeAll, ResumeWake, Calls,
                NoCall, IInv, Held
<1>4. /\ status' \in [Tasks -> StatusType]
      /\ \A t \in Tasks : status'[t].state \in {status[t].state, "RESUMED", "SUSPENDED", "CANCELLED"}
  <2>1. Held /\ {"RESUMED", "SUSPENDED", "CANCELLED"} \subseteq States
    BY DEF IInv, States
  <2>2. CASE status' = status
    BY <2>1, <2>2 DEF Held
  <2>3. ASSUME NEW t \in Tasks, NEW x \in {"RESUMED", "SUSPENDED", "CANCELLED"},
               status' = [status EXCEPT ![t].state = x]
        PROVE  /\ status' \in [Tasks -> StatusType]
               /\ \A u \in Tasks : status'[u].state \in {status[u].state, x}
    BY <2>1, <2>3, SetTypes
  <2>4. ASSUME NEW t \in Tasks, SetIffNotExecuting(t, "RESUMED")
        PROVE  status' = status \/ status' = [status EXCEPT ![t].state = "RESUMED"]
    <3>1. CASE IsExecuting(status[t])
      <4>1. status' = [status EXCEPT ![t].state = status[t].state]
        BY <2>4, <3>1 DEF SetIffNotExecuting
      <4> QED
        BY <2>1, <4>1 DEF Held, StatusType
    <3>2. CASE ~IsExecuting(status[t])
      BY <2>4, <3>2 DEF SetIffNotExecuting
    <3> QED
      BY <3>1, <3>2
  <2>5. CASE \E t \in Tasks : Cancel(t)
    <3>1. PICK t \in Tasks : \/ status' = status
                            \/ status' = [status EXCEPT ![t] = Failure(@, "CANCELLED")]
      BY <2>5 DEF Cancel
    <3>2. status[t] \in StatusType
      BY <2>1 DEF Held
    <3>3. Failure(status[t], "CANCELLED") \in StatusType
      BY <2>1, <3>2, StatusTypes
    <3>4. Failure(status[t], "CANCELLED").state = "CANCELLED"
      BY <3>2 DEF Failure, StatusType
    <3> QED
      BY <2>1, <3>1, <3>3, <3>4 DEF Held
  <2>6. CASE \E t \in Tasks : Resume(t)
    BY <2>2, <2>3, <2>4, <2>6 DEF Resume
  <2>7. CASE \E t \in Tasks : Suspend(t)
    BY <2>3, <2>7 DEF Suspend, SetState
  <2>8. CASE CreateSuspended
    BY <2>1, <2>3, <2>8, CallOf DEF CreateSuspended, SetState
  <2>9. CASE WakeAll \/ ResumeWake \/ \E t \in Tasks : Add(t)
    BY <2>2, <2>9 DEF WakeAll, ResumeWake, Add
  <2> QED
    BY <2>5, <2>6, <2>7, <2>8, <2>9
<1>5. \A t \in Tasks : Pending(t) => Pending(t)'
  BY <1>2, <1>3 DEF Pending
<1>6. Held'
  BY <1>1, <1>3, <1>4 DEF IInv, Held
<1> QED
  BY <1>1, <1>4, <1>5, <1>6, CalmKeeps DEF IInv, NotStartedTwice

\* The client triggers a task.
LEMMA TriggerKeeps ==
  ASSUME IInv, UNCHANGED <<place, hand, aborted>>, NEW t \in Tasks, Trigger(t)
  PROVE  IInv'
<1>1. UNCHANGED <<attached, trigger, queue, refused, place, hand, phase, todo>> /\ call = NoCall
  BY DEF Trigger, Calls, execVars, schedVars
<1>2. \A u \in Tasks : Pending(u) => Pending(u)'
  BY <1>1 DEF Pending, NoCall
<1>3. CASE IsExecuting(status[t])
  <2>1. status' = [status EXCEPT ![t].state = status[t].state] /\ call' = NoCall
    BY <1>3 DEF Trigger, SetIffNotExecuting
  <2>2. status' = status
    BY <2>1 DEF IInv, Held, StatusType
  <2>3. Held'
    BY <1>1, <2>1, <2>2 DEF IInv, Held
  <2> QED
    BY <1>1, <1>2, <2>2, <2>3, CalmKeeps DEF IInv, NotStartedTwice
<1>4. CASE ~IsExecuting(status[t])
  <2>1. status' = [status EXCEPT ![t].state = "STARTING"] /\ call' = <<"raise", t>>
    BY <1>4 DEF Trigger, SetIffNotExecuting
  <2>2. Held /\ "STARTING" \in States
    BY DEF IInv, States
  <2>3. /\ status' \in [Tasks -> StatusType]
        /\ \A u \in Tasks : status'[u].state = IF u = t THEN "STARTING" ELSE status[u].state
    BY <2>1, <2>2, SetTypes
  <2>4. Held'
    BY <1>1, <2>1, <2>2, <2>3 DEF Held
  <2>5. Pending(t)'
    BY <2>1 DEF Pending
  <2> QED
    BY <1>1, <1>2, <2>3, <2>4, <2>5, CalmKeeps DEF IInv, NotStartedTwice
<1> QED
  BY <1>3, <1>4

\* The client's half of a trigger.
LEMMA TriggerRaiseKeeps ==
  ASSUME IInv, UNCHANGED <<place, hand, aborted>>, TriggerRaise
  PROVE  IInv'
<1>1. PICK t \in Tasks : t = call[2] /\ call = <<"raise", t>>
  BY CallOf DEF TriggerRaise, IInv
<1>2. /\ UNCHANGED <<status, place, hand, aborted, phase, todo>>
      /\ Raise(t) /\ call' = NoCall
  BY <1>1 DEF TriggerRaise, schedVars
<1>3. Held'
  <2>1. trigger' \in [Tasks -> BOOLEAN] /\ attached' = attached
    BY <1>2 DEF Raise, IInv, Held
  <2>2. queue' \in Seq(Tasks)
    BY <1>2, EnqueueKeeps DEF Raise, IInv, Held
  <2> QED
    BY <1>2, <2>1, <2>2 DEF IInv, Held
<1>4. \A u \in Tasks : u # t => (Pending(u) => Pending(u)')
  BY <1>1, <1>2 DEF Pending
<1> QED
  BY <1>2, <1>3, <1>4, RaiseKeeps

\* The condition of a new task is attached, and queued if it was triggered before.
LEMMA AttachKeeps ==
  ASSUME IInv, UNCHANGED <<place, hand, aborted>>, Attach
  PROVE  IInv'
<1>1. PICK t \in Tasks : t = call[2] /\ call = <<"attach", t>>
  BY CallOf DEF Attach, IInv
<1>2. /\ UNCHANGED <<status, trigger, refused, place, hand, aborted, phase, todo>>
      /\ attached' = attached \cup {t}
      /\ IF trigger[t] THEN Enqueue(t) ELSE UNCHANGED queue
      /\ call' \in {<<"wake", t>>, <<"suspend", t>>}
  BY <1>1 DEF Attach, schedVars
<1>3. /\ queue' \in Seq(Tasks) /\ \A u \in Members(queue) : u \in Members(queue')
      /\ trigger[t] => t \in Members(queue')
  BY <1>2, EnqueueKeeps DEF IInv, Held
<1>4. Held'
  BY <1>2, <1>3 DEF IInv, Held
<1>5. \A u \in Tasks : Pending(u) => Pending(u)'
  BY <1>1, <1>2 DEF Pending
<1>6. StartedRuns' /\ aborted' # "IsStarted"
  BY <1>2 DEF IInv, StartedRuns, Running, NotStartedTwice
<1>7. StartingIsServed'
  <2>1. \A u \in Tasks : OnItsWay(u) => OnItsWay(u)'
    BY <1>2, <1>3 DEF OnItsWay
  <2> QED
    BY <1>2, <1>5, <2>1, Served, ServedNext DEF IInv
<1>8. RaiseWaits'
  <2>1. \A w \in Workers : place[w] \in {"running", "return"} => hand[w] \in Tasks
    BY DEF IInv, Held
  <2> QED
    BY <1>2, <1>5, <2>1 DEF IInv, RaiseWaits
<1> QED
  BY <1>4, <1>6, <1>7, <1>8 DEF IInv, NotStartedTwice

\* Time changes no state.
LEMMA TickKeeps ==
  ASSUME IInv, Tick
  PROVE  IInv'
<1>1. UNCHANGED <<attached, trigger, queue, refused, place, hand, call, aborted, phase, todo>>
  BY DEF Tick, execVars, workerVars, clientVars
<1>2. ASSUME NEW t \in Tasks
      PROVE  status'[t] \in StatusType /\ status'[t].state = status[t].state
  <2>1. status[t] \in StatusType /\ Lesser(status[t].age + 1, MaxAge) \in Nat
    BY PoolAssumption DEF IInv, Held, Lesser, StatusType
  <2>2. \/ status'[t] = status[t]
        \/ status'[t] = [status[t] EXCEPT !.age = Lesser(status[t].age + 1, MaxAge)]
    BY DEF Tick
  <2>3. \A n \in Nat : /\ [status[t] EXCEPT !.age = n] \in StatusType
                      /\ [status[t] EXCEPT !.age = n].state = status[t].state
    BY <2>1 DEF StatusType
  <2> QED
    BY <2>1, <2>2, <2>3
<1>3. status' \in [Tasks -> StatusType]
  BY <1>2 DEF Tick
<1>4. Held' /\ \A u \in Tasks : Pending(u) => Pending(u)'
  BY <1>1, <1>3 DEF IInv, Held, Pending
<1> QED
  BY <1>1, <1>2, <1>4, CalmKeeps DEF IInv, NotStartedTwice

-----------------------------------------------------------------------------
(* Handlers, and the workers whose interrupt flag is set.                  *)

\* A task is handled by one worker at a time.
OneHandler ==
  \A v, w \in Workers : Handling(v) /\ Handling(w) /\ hand[v] = hand[w] => v = w

\* A flag is set while its worker runs a task, which is not STARTED any more by then, and
\* is seen by no one but the end of the handler and a thread that begins anew.
Faults ==
  /\ flagged \subseteq Workers /\ leaked \subseteq Tasks /\ jammed \in BOOLEAN
  /\ \A w \in flagged :
       /\ place[w] \in {"running", "none", "loop"}
       /\ place[w] = "running" => status[hand[w]].state # "STARTED"

PoolInv == IInv /\ OneHandler /\ Faults

\* A worker that dies leaves the trigger of its task as it is.
LEMMA DieKeeps ==
  ASSUME PoolInv, NEW w \in Workers, UNCHANGED <<list, schedVars, clientVars>>, Die(w)
  PROVE  IInv'
<1>1. /\ UNCHANGED <<status, attached, trigger, queue, refused, call, aborted>>
      /\ w \in flagged /\ place[w] = "running" /\ place'[w] = "none" /\ hand'[w] = None
      /\ \A v \in Workers : v # w => place'[v] = place[v] /\ hand'[v] = hand[v]
      /\ place' \in [Workers -> Places] /\ hand' \in [Workers -> Tasks \cup {None}]
  BY DEF Die, At, execVars, clientVars, PoolInv, IInv, Held, Places
<1>2. PICK t \in Tasks : t = hand[w]
  BY <1>1 DEF PoolInv, IInv, Held
<1>3. status[t].state # "STARTED"
  BY <1>1, <1>2 DEF PoolInv, Faults
<1>4. Held'
  BY <1>1 DEF PoolInv, IInv, Held
<1>5. \A u \in Tasks : Pending(u)' <=> Pending(u)
  BY <1>1 DEF Pending, schedVars
<1>6. StartedRuns'
  <2>1. \A u \in Tasks : u # t /\ Running(u) => Running(u)'
    BY <1>1, <1>2 DEF Running
  <2> QED
    BY <1>1, <1>3, <2>1 DEF PoolInv, IInv, StartedRuns
<1>7. StartingIsServed'
  <2>1. ASSUME NEW u \in Tasks, u # t, OnItsWay(u) PROVE OnItsWay(u)'
    BY <1>1, <1>2, <2>1 DEF OnItsWay
  <2>2. status[t].state = "STARTING" => Pending(t)
    BY <1>1, <1>2 DEF PoolInv, IInv, RaiseWaits
  <2> QED
    BY <1>1, <1>5, <2>1, <2>2, Served, ServedNext DEF PoolInv, IInv
<1>8. RaiseWaits'
  <2>1. ASSUME NEW v \in Workers, place'[v] \in {"running", "return"}
        PROVE  v # w /\ hand[v] \in Tasks
    BY <1>1, <1>4, <2>1 DEF Held
  <2> QED
    BY <1>1, <1>5, <2>1 DEF PoolInv, IInv, RaiseWaits
<1> QED
  BY <1>1, <1>4, <1>6, <1>7, <1>8 DEF PoolInv, IInv, NotStartedTwice

LEMMA Inductive == PoolInv /\ [Next]_vars => IInv'
<1> SUFFICES ASSUME PoolInv, [Next]_vars PROVE IInv'
  OBVIOUS
<1>0. IInv
  BY DEF PoolInv
<1>1. CASE SchedulerStep
  BY <1>0, <1>1, ReadsKeep, StartWorkersKeeps, TriggersKeep DEF SchedulerStep
<1>2. CASE ClientStep
  BY <1>0, <1>2, CallsKeep, TriggerKeeps, TriggerRaiseKeeps, AttachKeeps
     DEF ClientStep, ClientGoesOn
<1>3. CASE Tick
  BY <1>0, <1>3, TickKeeps
<1>4. ASSUME NEW w \in Workers, WorkerStep(w) PROVE IInv'
  BY <1>0, <1>4, BetweenHandlers, HandlerKeeps, DieKeeps DEF WorkerStep
<1>5. CASE UNCHANGED vars
  <2>1. UNCHANGED <<status, attached, trigger, queue, refused, place, hand, call, aborted,
                    phase, todo>>
    BY <1>5 DEF vars, execVars, schedVars, workerVars, clientVars
  <2>2. Held' /\ \A u \in Tasks : Pending(u) => Pending(u)'
    BY <1>0, <2>1 DEF IInv, Held, Pending
  <2> QED
    BY <1>0, <2>1, <2>2, CalmKeeps DEF IInv, NotStartedTwice
<1> QED
  BY <1>1, <1>2, <1>3, <1>4, <1>5 DEF Next

\* What a worker does to the places and the hands of the workers.
LEMMA WorkerMoves ==
  ASSUME Held, NEW w \in Workers, WorkerStep(w)
  PROVE  /\ \A v \in Workers : v # w => place'[v] = place[v] /\ hand'[v] = hand[v]
         /\ Handling(w)' => hand'[w] = hand[w] /\ (Handling(w) \/ Free(hand[w]))
         /\ place'[w] = "running" => Entry(w)
         /\ w \in flagged => flagged' = flagged \ {w} \/ place[w] # "running" \/ place'[w] = "none"
         /\ w \in flagged /\ place[w] \in {"none", "loop"} => place'[w] = "none"
<1>1. CASE CheckStopped(w) \/ WakeScheduler(w)
  BY <1>1 DEF CheckStopped, WakeScheduler, At, Held, Handling
<1>2. CASE Get(w) \/ Look(w)
  BY <1>2 DEF Get, Look, At, Held, Handling
<1>3. CASE Entry(w) \/ Exit(w) \/ Die(w)
  BY <1>3 DEF Entry, Exit, Die, At, Held, Handling
<1>4. CASE Dispatch(w) \/ HandlerReturns(w)
  BY <1>4 DEF Dispatch, HandlerReturns, At, Held, Handling
<1> QED
  BY <1>1, <1>2, <1>3, <1>4 DEF WorkerStep

\* The others only start workers.
LEMMA OthersMove ==
  ASSUME SchedulerStep \/ ClientStep \/ Tick \/ UNCHANGED vars
  PROVE  /\ hand' = hand
         /\ \A w \in Workers : \/ place'[w] = place[w]
                               \/ place[w] = "none" /\ place'[w] = "loop"
<1>1. CASE StartWorkers
  BY <1>1 DEF StartWorkers, Alive
<1>2. CASE StopIdleWorkers \/ KeepWorkers \/ Begin \/ Visit \/ EndLoop \/ Evaluate
  BY <1>2 DEF StopIdleWorkers, KeepWorkers, Begin, Visit, EndLoop, Evaluate, workerVars
<1>3. CASE AssertFound \/ Abort \/ Unready \/ SetStarting \/ RaiseTrigger \/ Wait \/ WakeUp
             \/ Lapsed \/ Remove \/ Interrupt
  BY <1>3 DEF AssertFound, Abort, Unready, SetStarting, RaiseTrigger, Wait, WakeUp, Lapsed,
              Remove, Interrupt, workerVars
<1>4. CASE ClientStep \/ Tick \/ UNCHANGED vars
  BY <1>4 DEF ClientStep, Tick, vars, workerVars
<1> QED
  BY <1>1, <1>2, <1>3, <1>4 DEF SchedulerStep

LEMMA OneHandlerKeeps ==
  ASSUME Held, OneHandler, [Next]_vars
  PROVE  OneHandler'
<1>1. ASSUME NEW w \in Workers, WorkerStep(w) PROVE OneHandler'
  BY <1>1, WorkerMoves DEF OneHandler, Handling, Free
<1>2. CASE SchedulerStep \/ ClientStep \/ Tick \/ UNCHANGED vars
  BY <1>2, OthersMove DEF OneHandler, Handling
<1> QED
  BY <1>1, <1>2 DEF Next

\* Only the entry of a handler makes its task STARTED.
LEMMA OnlyEntryStarts ==
  ASSUME Held, [Next]_vars, NEW t \in Tasks, status'[t].state = "STARTED",
         status[t].state # "STARTED"
  PROVE  \E w \in Workers : Entry(w) /\ hand[w] = t
<1>1. status[t] \in StatusType
  BY DEF Held
<1>2. ASSUME NEW u, NEW f \in States, f # "STARTED", SetState(u, f) \/ SetIffNotExecuting(u, f)
      PROVE  FALSE
  <2>1. ASSUME status' = [status EXCEPT ![u].state = f] PROVE FALSE
    BY <1>2, <2>1, SetTypes
  <2>2. ASSUME status' = [status EXCEPT ![u].state = status[u].state] PROVE FALSE
    <3>1. status' = status
      BY <2>2 DEF Held, StatusType
    <3> QED
      BY <3>1
  <2> QED
    BY <1>2, <2>1, <2>2 DEF SetState, SetIffNotExecuting
<1>3. {"STARTING", "INTERRUPTED", "RESUMED", "SUSPENDED", "CANCELLED", "FAILURE"} \subseteq States
  BY DEF States
<1>4. status' # status
  OBVIOUS
<1>5. ~SchedulerStep
  <2>1. ~(StartWorkers \/ StopIdleWorkers \/ KeepWorkers \/ Begin \/ Visit \/ EndLoop \/ Evaluate)
    BY <1>4 DEF StartWorkers, StopIdleWorkers, KeepWorkers, Begin, Visit, EndLoop, Evaluate
  <2>2. ~(AssertFound \/ Abort \/ Unready \/ RaiseTrigger \/ Wait \/ WakeUp \/ Lapsed \/ Remove)
    BY <1>4 DEF AssertFound, Abort, Unready, RaiseTrigger, Wait, WakeUp, Lapsed, Remove
  <2>3. ~SetStarting
    BY <1>2, <1>3 DEF SetStarting
  <2>4. ~Interrupt
    BY <1>2, <1>3, <1>4 DEF Interrupt
  <2> QED
    BY <2>1, <2>2, <2>3, <2>4 DEF SchedulerStep
<1>6. ~ClientStep
  <2>1. ~(Attach \/ WakeAll \/ TriggerRaise \/ ResumeWake \/ \E u \in Tasks : Add(u))
    BY <1>4 DEF Attach, WakeAll, TriggerRaise, ResumeWake, Add
  <2>2. ~(CreateSuspended \/ \E u \in Tasks : Trigger(u) \/ Resume(u) \/ Suspend(u))
    BY <1>2, <1>3 DEF CreateSuspended, Trigger, Resume, Suspend
  <2>3. ASSUME NEW u \in Tasks, Cancel(u) PROVE FALSE
    <3>1. status' = [status EXCEPT ![u] = Failure(status[u], "CANCELLED")]
      BY <1>4, <2>3 DEF Cancel
    <3>2. Failure(status[t], "CANCELLED").state = "CANCELLED"
      BY <1>1 DEF Failure, StatusType
    <3> QED
      BY <3>1, <3>2 DEF Held
  <2> QED
    BY <2>1, <2>2, <2>3 DEF ClientStep, ClientGoesOn
<1>7. ~Tick
  <2> SUFFICES ASSUME Tick PROVE FALSE
    OBVIOUS
  <2>1. status'[t] = status[t] \/ status'[t] = [status[t] EXCEPT !.age = Lesser(status[t].age + 1, MaxAge)]
    BY DEF Tick
  <2> QED
    BY <1>1, <2>1 DEF StatusType
<1>8. PICK w \in Workers : WorkerStep(w)
  BY <1>4, <1>5, <1>6, <1>7 DEF Next, vars
<1>9. Entry(w) \/ Exit(w)
  BY <1>4, <1>8 DEF WorkerStep, CheckStopped, Die, Get, Look, Dispatch, HandlerReturns,
                    WakeScheduler
<1>10. ~Exit(w)
  <2> SUFFICES ASSUME Exit(w) PROVE FALSE
    OBVIOUS
  <2> DEFINE n == Lesser(Success(status[hand[w]]).successes, Policy[hand[w]].min)
  <2>1. \/ status' = [status EXCEPT ![hand[w]] =
                        [Success(status[hand[w]]) EXCEPT !.successes = n]]
        \/ status' = [status EXCEPT ![hand[w]] = Failure(status[hand[w]], "FAILURE")]
    BY DEF Exit
  <2> HIDE DEF n
  <2>2. /\ [Success(status[t]) EXCEPT !.successes = n].state = "STOPPED"
        /\ Failure(status[t], "FAILURE").state = "FAILURE"
    BY <1>1 DEF Success, Failure, StatusType
  <2> QED
    BY <2>1, <2>2 DEF Held
<1>11. Entry(w) /\ hand[w] = t
  <2>1. \E s : status' = [status EXCEPT ![hand[w]] = s]
    BY <1>9, <1>10, Zenon DEF Entry
  <2> QED
    BY <1>9, <1>10, <2>1 DEF Held
<1> QED
  BY <1>11

LEMMA FaultsKeep ==
  ASSUME PoolInv, [Next]_vars
  PROVE  Faults'
<1>0. Held /\ OneHandler /\ Faults
  BY DEF PoolInv, IInv
<1>1. flagged' = flagged \/ StopIdleWorkers \/ Interrupt \/ (\E w \in Workers : Exit(w))
        \/ (\E t \in Tasks : Cancel(t) /\ ClientStep)
  <2>1. CASE SchedulerStep
    <3>1. CASE StartWorkers \/ KeepWorkers \/ Begin \/ Visit \/ EndLoop \/ Evaluate \/ AssertFound
      BY <3>1 DEF StartWorkers, KeepWorkers, Begin, Visit, EndLoop, Evaluate, AssertFound,
                  workerVars, faultVars
    <3>2. CASE Abort \/ Unready \/ SetStarting \/ RaiseTrigger \/ Wait \/ WakeUp \/ Lapsed \/ Remove
      BY <3>2 DEF Abort, Unready, SetStarting, RaiseTrigger, Wait, WakeUp, Lapsed, Remove,
                  workerVars, faultVars
    <3> QED
      BY <2>1, <3>1, <3>2 DEF SchedulerStep
  <2>2. CASE ClientStep
    BY <2>2 DEF ClientStep
  <2>3. CASE Tick \/ UNCHANGED vars
    BY <2>3 DEF Tick, vars, workerVars, faultVars
  <2>4. ASSUME NEW w \in Workers, WorkerStep(w) PROVE flagged' = flagged \/ Exit(w)
    BY <2>4 DEF WorkerStep, CheckStopped, Die, faultVars
  <2> QED
    BY <2>1, <2>2, <2>3, <2>4 DEF Next
<1>2. ASSUME NEW w \in flagged', w \notin flagged
      PROVE  /\ w \in Workers /\ place'[w] = "running"
             /\ status'[hand'[w]].state # "STARTED"
  <2>1. CASE Interrupt
    <3>1. /\ w \in Runners(Head(todo)) /\ UNCHANGED <<place, hand>>
          /\ status' = [status EXCEPT ![Head(todo)].state = "INTERRUPTED"]
      BY <1>2, <2>1 DEF Interrupt, SetState
    <3>2. w \in Workers /\ hand[w] = Head(todo) /\ place[w] = "running" /\ hand[w] \in Tasks
      BY <1>0, <3>1 DEF Runners, Held
    <3>3. PICK t \in Tasks : t = hand[w]
      BY <3>2
    <3>4. "INTERRUPTED" \in States
      BY DEF States
    <3>5. status'[t].state = "INTERRUPTED"
      BY <1>0, <3>1, <3>2, <3>3, <3>4, SetTypes
    <3> QED
      BY <3>1, <3>2, <3>3, <3>5
  <2>2. ASSUME NEW t \in Tasks, Cancel(t), ClientStep
        PROVE  /\ w \in Workers /\ place'[w] = "running"
               /\ status'[hand'[w]].state # "STARTED"
    <3>1. /\ w \in Workers /\ hand[w] = t /\ place[w] = "running" /\ UNCHANGED <<place, hand>>
      BY <1>2, <2>2 DEF Cancel, Runners, ClientStep
    <3>2. status[t] \in StatusType /\ Failure(status[t], "CANCELLED").state = "CANCELLED"
      BY <1>0 DEF Held, Failure, StatusType
    <3>3. status'[t].state = "CANCELLED"
      BY <1>0, <2>2, <3>2 DEF Cancel, Held
    <3> QED
      BY <3>1, <3>3
  <2> QED
    BY <1>1, <1>2, <2>1, <2>2 DEF StopIdleWorkers, Exit
<1>3. ASSUME NEW w \in flagged, w \in flagged'
      PROVE  /\ w \in Workers /\ place'[w] \in {"running", "none", "loop"}
             /\ place'[w] = "running" => status'[hand'[w]].state # "STARTED"
  <2>0. /\ w \in Workers /\ place[w] \in {"running", "none", "loop"}
        /\ place[w] = "running" => status[hand[w]].state # "STARTED"
    BY <1>0 DEF Faults
  <2>1. CASE place'[w] \in {"none", "loop"}
    BY <2>0, <2>1
  <2>2. CASE place'[w] = place[w] /\ place[w] = "running" /\ hand'[w] = hand[w]
    <3>1. PICK t \in Tasks : t = hand[w]
      BY <1>0, <2>0, <2>2 DEF Held
    <3>2. ASSUME status'[t].state = "STARTED" PROVE FALSE
      <4>1. PICK v \in Workers : Entry(v) /\ hand[v] = t
        BY <1>0, <2>0, <2>2, <3>1, <3>2, OnlyEntryStarts
      <4>2. v = w
        BY <1>0, <2>0, <2>2, <3>1, <4>1 DEF OneHandler, Handling, Entry, At
      <4> QED
        BY <2>2, <4>1, <4>2 DEF Entry, At
    <3> QED
      BY <2>0, <2>2, <3>1, <3>2
  <2>3. CASE \E v \in Workers : WorkerStep(v)
    <3>1. PICK v \in Workers : WorkerStep(v)
      BY <2>3
    <3>2. CASE v # w
      BY <1>0, <2>0, <2>1, <2>2, <3>1, <3>2, WorkerMoves
    <3>3. CASE v = w
      BY <1>0, <1>3, <2>0, <2>1, <3>1, <3>3, WorkerMoves
    <3> QED
      BY <3>2, <3>3
  <2>4. CASE SchedulerStep \/ ClientStep \/ Tick \/ UNCHANGED vars
    BY <2>0, <2>1, <2>2, <2>4, OthersMove
  <2> QED
    BY <2>3, <2>4 DEF Next
<1>4. leaked' \subseteq Tasks /\ jammed' \in BOOLEAN
  <2>1. CASE SchedulerStep
    <3>1. CASE StartWorkers \/ StopIdleWorkers \/ KeepWorkers \/ Begin \/ Visit \/ EndLoop
                 \/ Evaluate \/ AssertFound
      BY <1>0, <3>1 DEF StartWorkers, StopIdleWorkers, KeepWorkers, Begin, Visit, EndLoop,
                        Evaluate, AssertFound, workerVars, faultVars, Faults
    <3>2. CASE Abort \/ Unready \/ SetStarting \/ RaiseTrigger \/ Wait \/ WakeUp \/ Lapsed
                 \/ Remove \/ Interrupt
      BY <1>0, <3>2 DEF Abort, Unready, SetStarting, RaiseTrigger, Wait, WakeUp, Lapsed,
                        Remove, Interrupt, workerVars, faultVars, Faults
    <3> QED
      BY <2>1, <3>1, <3>2 DEF SchedulerStep
  <2>2. CASE ClientStep \/ Tick \/ UNCHANGED vars
    BY <1>0, <2>2 DEF ClientStep, Tick, vars, workerVars, faultVars, Faults
  <2>3. ASSUME NEW w \in Workers, WorkerStep(w)
        PROVE  leaked' \subseteq Tasks /\ jammed' \in BOOLEAN
    <3>1. Die(w) => hand[w] \in Tasks
      BY <1>0 DEF Die, At, Held
    <3> QED
      BY <1>0, <2>3, <3>1 DEF WorkerStep, CheckStopped, Exit, Die, faultVars, Faults
  <2> QED
    BY <2>1, <2>2, <2>3 DEF Next
<1>5. ASSUME NEW w \in flagged' PROVE w \in Workers
  BY <1>2, <1>3
<1>6. flagged' \subseteq Workers
  BY <1>5
<1>7. \A w \in flagged' :
        /\ place'[w] \in {"running", "none", "loop"}
        /\ place'[w] = "running" => status'[hand'[w]].state # "STARTED"
  BY <1>2, <1>3
<1> QED
  BY <1>4, <1>6, <1>7 DEF Faults

LEMMA PoolInitially == Init => PoolInv
<1>1. Init => OneHandler /\ Faults
  BY DEF Init, OneHandler, Handling, Faults
<1> QED
  BY <1>1, Initially DEF PoolInv

LEMMA PoolInductive == PoolInv /\ [Next]_vars => PoolInv'
BY Inductive, OneHandlerKeeps, FaultsKeep DEF PoolInv, IInv

\* ThreadPool::operator() is never handed a task that has started: its assertion
\* holds whatever the scheduler, the workers and the client do at the same time.
THEOREM TasksStartOnce ==
  Spec => []NotStartedTwice
<1>1. PoolInv => NotStartedTwice
  BY DEF PoolInv, IInv
<1> QED
  BY PoolInitially, PoolInductive, <1>1, PTL DEF Spec

\* A task that ScheduledRunnableTask::Trigger has marked STARTING is on its way to a
\* worker, or about to be, unless the wait set was stopped when it was triggered.
THEOREM StartingIsNotForgotten ==
  Spec => []StartingIsServed
<1>1. PoolInv => StartingIsServed
  BY DEF PoolInv, IInv
<1> QED
  BY PoolInitially, PoolInductive, <1>1, PTL DEF Spec
-----------------------------------------------------------------------------
(* The types of the scheduler's own variables, and its list.               *)

\* The phases and steps in which the scheduler is at a task.
HasTask ==
  \/ phase \in {"assert", "check", "recheck", "ready", "unready", "starting", "set",
                "raise", "lapsed", "interrupt"}
  \/ step \notin {"begin", "each"}
  => todo # <<>>

Typed ==
  /\ list \in Seq(Tasks) /\ todo \in Seq(Tasks) /\ found \in Seq(Tasks)
  /\ refused \subseteq Tasks /\ valid \in BOOLEAN
  /\ phase \in Phases /\ step \in Steps
  /\ next \in Durations /\ alarm \in Durations
  /\ triggered \in BOOLEAN /\ called \in BOOLEAN
  /\ calls \in 0..MaxCalls
  /\ aborted \in {"none", "FindReady", "ComputeEarliestReadyIn", "IsStarted", "Remove"}
  /\ HasTask

\* What the strategies return is a duration.
LEMMA DurationTypes ==
  /\ Infinite \in Durations /\ 0 \in Durations
  /\ \A a, b \in Durations : Lesser(a, b) \in Durations
  /\ \A s \in StatusType, p \in PolicyType :
       /\ UntilExecution(s, p.initial, p.period) \in Durations
       /\ UntilRetry(s, p) \in Durations /\ UntilTimeout(s, p) \in Durations
       /\ p.period \in Durations
<1>1. Infinite \in Nat \ {0}
  BY InfiniteAssumption
<1>2. /\ Infinite \in Durations /\ 0 \in Durations
      /\ \A a, b \in Durations : Lesser(a, b) \in Durations
  BY <1>1 DEF Durations, Lesser
<1>3. \A d \in Durations, n \in Nat : Remaining(d, n) \in Durations
  BY <1>1 DEF Durations, Remaining
<1>4. ASSUME NEW s \in StatusType, NEW i \in Durations, NEW d \in Durations
      PROVE  UntilExecution(s, i, d) \in Durations
  <2>1. s.age \in Nat
    BY DEF StatusType
  <2> QED
    BY <1>2, <1>3, <2>1 DEF UntilExecution
<1>5. ASSUME NEW s \in StatusType, NEW p \in PolicyType
      PROVE  /\ UntilExecution(s, p.initial, p.period) \in Durations
             /\ UntilRetry(s, p) \in Durations /\ UntilTimeout(s, p) \in Durations
             /\ p.period \in Durations
  <2>1. /\ {p.initial, p.period, p.retryInitial, p.retryPeriod, p.timeout} \subseteq Durations
        /\ s.age \in Nat
    BY DEF StatusType, PolicyType
  <2> QED
    BY <1>2, <1>3, <1>4, <2>1 DEF UntilRetry, UntilTimeout
<1> QED
  BY <1>2, <1>5

\* The task the scheduler is at, and those after it.
LEMMA AtTask ==
  ASSUME todo \in Seq(Tasks), todo # <<>>
  PROVE  Head(todo) \in Tasks /\ Tail(todo) \in Seq(Tasks)
BY HeadTailProperties

LEMMA TypedInitially == Init => Typed
<1> SUFFICES ASSUME Init PROVE Typed
  OBVIOUS
<1>1. list \in Seq(Tasks)
  <2>1. Cardinality(Initial) \in Nat /\ Initial \subseteq Tasks
    BY PoolAssumption, FS_CardinalityType
  <2>2. list \in [1..Cardinality(Initial) -> Tasks]
    BY <2>1 DEF Init
  <2> QED
    BY <2>1, <2>2, SeqDef
<1>2. todo \in Seq(Tasks) /\ found \in Seq(Tasks) /\ refused \subseteq Tasks
  BY DEF Init
<1>3. calls \in 0..MaxCalls
  BY PoolAssumption DEF Init
<1>4. phase \in Phases /\ step \in Steps /\ HasTask
  BY DEF Init, HasTask, Phases, Steps
<1> QED
  BY <1>1, <1>2, <1>3, <1>4, DurationTypes DEF Init, Typed

\* Steps that leave the scheduler where it is, and the list as it is.
LEMMA AsideTyped ==
  ASSUME Typed, UNCHANGED <<phase, step, todo, found, next>>,
         list' \in Seq(Tasks), refused' \subseteq Tasks, valid' \in BOOLEAN,
         alarm' \in Durations, triggered' \in BOOLEAN, called' \in BOOLEAN,
         calls' \in 0..MaxCalls,
         aborted' \in {"none", "FindReady", "ComputeEarliestReadyIn", "IsStarted", "Remove"}
  PROVE  Typed'
BY DEF Typed, HasTask

\* Steps of the scheduler between one task and the next.
LEMMA GoTyped ==
  ASSUME Typed, NEW ph \in Phases, NEW st \in {"begin", "each"}, NEW td \in Seq(Tasks),
         Go(ph, st, td), td # <<>> \/ ph \notin {"assert", "check", "recheck", "ready",
           "unready", "starting", "set", "raise", "lapsed", "interrupt"},
         list' \in Seq(Tasks), found' \in Seq(Tasks), refused' \subseteq Tasks,
         valid' \in BOOLEAN, next' \in Durations, alarm' \in Durations,
         triggered' \in BOOLEAN, called' \in BOOLEAN, UNCHANGED <<calls, aborted>>
  PROVE  Typed'
BY DEF Typed, HasTask, Go, Steps

\* The steps of the scheduler that are not about a task.
LEMMA LoopsTyped ==
  ASSUME Typed,
         StartWorkers \/ StopIdleWorkers \/ KeepWorkers \/ Begin \/ EndLoop \/ Wait \/ WakeUp
  PROVE  Typed'
<1>0. /\ <<>> \in Seq(Tasks) /\ Infinite \in Durations /\ Backoff \in Durations
      /\ {"find", "trigger", "drop", "earliest", "wait", "late", "balance", "done",
          "asleep", "hung"} \subseteq Phases
  BY DurationTypes, PoolAssumption DEF Phases
<1>1. CASE StartWorkers \/ StopIdleWorkers \/ KeepWorkers
  <2>1. /\ Go("find", "begin", <<>>) \/ Go("hung", "begin", <<>>)
        /\ valid' \in {valid, TRUE, FALSE}
        /\ UNCHANGED <<list, refused, found, next, alarm, triggered, called, calls, aborted>>
    BY <1>1 DEF StartWorkers, StopIdleWorkers, KeepWorkers, execVars, clientVars
  <2> QED
    BY <1>0, <2>1, GoTyped DEF Typed
<1>2. CASE Begin
  <2>1. /\ phase \in {"find", "earliest", "done", "late"} /\ Go(phase, "each", list)
        /\ UNCHANGED <<list, valid, refused, found, next, alarm, triggered, called, calls, aborted>>
    BY <1>2 DEF Begin, execVars, clientVars
  <2> QED
    BY <2>1, GoTyped DEF Typed
<1>3. CASE EndLoop
  <2>1. /\ UNCHANGED <<list, valid, refused, next, called, calls, aborted>>
        /\ found' \in {found, <<>>} /\ alarm' \in {alarm, Backoff}
        /\ triggered' \in {triggered, FALSE}
    BY <1>3 DEF EndLoop, execVars, clientVars
  <2>2. \/ \E ph \in {"trigger", "drop"} : Go(ph, "each", found)
        \/ \E ph \in {"earliest", "wait", "late", "balance"} : Go(ph, "begin", <<>>)
    BY <1>3 DEF EndLoop
  <2> QED
    BY <1>0, <2>1, <2>2, GoTyped DEF Typed
<1>4. CASE Wait \/ WakeUp
  <2>1. /\ UNCHANGED <<list, valid, refused, found, next, triggered, calls, aborted>>
        /\ alarm' \in {alarm, Infinite} /\ called' = FALSE
        /\ \E ph \in {"done", "asleep"} : Go(ph, "begin", <<>>)
    BY <1>4 DEF Wait, WakeUp, execVars, clientVars
  <2> QED
    BY <1>0, <2>1, GoTyped DEF Typed
<1> QED
  BY <1>1, <1>2, <1>3, <1>4

\* The steps of the scheduler at a task, but for the strategies.
LEMMA TasksTyped ==
  ASSUME Typed,
         Visit \/ AssertFound \/ Unready \/ SetStarting \/ RaiseTrigger \/ Lapsed
           \/ Remove \/ Interrupt
  PROVE  Typed'
<1>1. todo # <<>>
  BY DEF Visit, AssertFound, Unready, SetStarting, RaiseTrigger, Lapsed, Remove, Interrupt,
         Typed, HasTask
<1>2. Head(todo) \in Tasks /\ Tail(todo) \in Seq(Tasks) /\ todo \in Seq(Tasks)
  BY <1>1, AtTask DEF Typed
<1>3. Append(found, Head(todo)) \in Seq(Tasks)
  BY <1>2, AppendProperties DEF Typed
<1>4. CASE Visit
  <2>1. UNCHANGED <<list, valid, refused, found, next, alarm, triggered, called, calls, aborted>>
    BY <1>4 DEF Visit, execVars, clientVars
  <2>2. CASE Go(phase, "attempt", todo)
    BY <1>1, <2>1, <2>2 DEF Go, Typed, HasTask, Steps
  <2>3. \/ Go(phase, "attempt", todo)
        \/ \E ph \in {"trigger", "done", "late"} : Go(ph, "each", Tail(todo))
        \/ \E ph \in {"ready", "lapsed", "interrupt", "set"} : Go(ph, "each", todo)
    BY <1>4 DEF Visit
  <2> QED
    BY <1>1, <1>2, <2>1, <2>2, <2>3, GoTyped DEF Typed, Phases
<1>5. CASE AssertFound
  <2>1. /\ UNCHANGED <<list, valid, refused, next, alarm, triggered, called, calls, aborted>>
        /\ found' \in {found, Append(found, Head(todo))}
        /\ Go("check", "each", todo) \/ Go("find", "each", Tail(todo))
    BY <1>5 DEF AssertFound, execVars, clientVars
  <2> QED
    BY <1>1, <1>2, <1>3, <2>1, GoTyped DEF Typed, Phases
<1>6. CASE Unready \/ SetStarting
  <2>1. /\ UNCHANGED <<list, valid, refused, found, next, alarm, called, calls, aborted>>
        /\ triggered' \in {triggered, TRUE}
        /\ \/ Go("starting", "each", todo) \/ Go("raise", "each", todo)
           \/ Go("trigger", "each", Tail(todo))
    BY <1>6 DEF Unready, SetStarting, execVars, clientVars
  <2> QED
    BY <1>1, <1>2, <2>1, GoTyped DEF Typed, Phases
<1>7. CASE RaiseTrigger
  <2>1. /\ UNCHANGED <<list, valid, found, next, alarm, triggered, called, calls, aborted>>
        /\ refused' \subseteq Tasks /\ Go("trigger", "each", Tail(todo))
    BY <1>2, <1>7 DEF RaiseTrigger, Raise, clientVars, Typed
  <2> QED
    BY <1>2, <2>1, GoTyped DEF Typed, Phases
<1>8. CASE Lapsed \/ Interrupt
  <2>1. /\ UNCHANGED <<list, valid, refused, next, alarm, triggered, called, calls, aborted>>
        /\ found' \in {found, Append(found, Head(todo))}
        /\ \E ph \in {"done", "late"} : Go(ph, "each", Tail(todo))
    BY <1>8 DEF Lapsed, Interrupt, execVars, clientVars
  <2> QED
    BY <1>2, <1>3, <2>1, GoTyped DEF Typed, Phases
<1>9. CASE Remove
  <2>1. /\ UNCHANGED <<valid, refused, found, next, alarm, triggered, called, calls, aborted>>
        /\ Go("drop", "each", Tail(todo))
    BY <1>9 DEF Remove, execVars, clientVars
  <2>2. PICK i \in DOMAIN list :
          list' = [j \in 1..Len(list) - 1 |-> list[IF j < i THEN j ELSE j + 1]]
    BY <1>9 DEF Remove
  <2>3. Len(list) \in Nat /\ DOMAIN list = 1..Len(list)
    BY LenProperties DEF Typed
  <2>4. \A j \in 1..Len(list) - 1 : list[IF j < i THEN j ELSE j + 1] \in Tasks
    BY <2>3, ElementOfSeq DEF Typed
  <2>5. Len(list) - 1 \in Nat
    BY <2>2, <2>3
  <2>6. list' \in [1..Len(list) - 1 -> Tasks]
    BY <2>2, <2>4
  <2>7. list' \in Seq(Tasks)
    BY <2>5, <2>6, SeqDef
  <2> QED
    BY <1>2, <2>1, <2>7, GoTyped DEF Typed, Phases
<1> QED
  BY <1>4, <1>5, <1>6, <1>7, <1>8, <1>9

\* The strategies.
LEMMA StrategiesTyped ==
  ASSUME Held, Typed, Evaluate \/ Abort
  PROVE  Typed'
<1>1. CASE Abort
  BY <1>1 DEF Abort, execVars, schedVars, workerVars, clientVars, Typed, HasTask
<1>2. CASE Evaluate
  <2>1. todo # <<>>
    BY <1>2 DEF Evaluate, ReadAttempt, ReadFree, ReadNext, ReadExecuting, ReadRetry,
                ReadTimeout, AssertReady, Typed, HasTask
  <2>2. /\ Head(todo) \in Tasks /\ Tail(todo) \in Seq(Tasks) /\ todo \in Seq(Tasks)
        /\ found \in Seq(Tasks)
    BY <2>1, AtTask DEF Typed
  <2>3. Append(found, Head(todo)) \in Seq(Tasks)
    BY <2>2, AppendProperties
  <2>4. /\ UNCHANGED <<list, valid, refused, triggered, called, calls, aborted>>
    BY <1>2 DEF Evaluate, execVars, clientVars
  <2>5. Status \in StatusType /\ Pol \in PolicyType
    BY <2>2, PoolAssumption DEF Held, Status, Pol
  <2>6. ASSUME NEW v \in Durations, Return(v) PROVE Typed'
    <3>1. /\ found' \in {found, Append(found, Head(todo))}
          /\ next' = Infinite /\ alarm' \in {alarm, Lesser(alarm, v)}
          /\ \/ \E ph \in {"assert", "recheck", "starting", "unready"} : Go(ph, "each", todo)
             \/ \E ph \in {"find", "earliest"} : Go(ph, "each", Tail(todo))
      BY <2>6 DEF Return
    <3>2. /\ found' \in Seq(Tasks) /\ next' \in Durations /\ alarm' \in Durations
          /\ list' \in Seq(Tasks) /\ refused' \subseteq Tasks /\ valid' \in BOOLEAN
          /\ triggered' \in BOOLEAN /\ called' \in BOOLEAN /\ UNCHANGED <<calls, aborted>>
      BY <2>2, <2>3, <2>4, <2>6, <3>1, DurationTypes DEF Typed
    <3>3. {"assert", "recheck", "starting", "unready", "find", "earliest"} \subseteq Phases
      BY DEF Phases
    <3>4. CASE \E ph \in {"assert", "recheck", "starting", "unready"} : Go(ph, "each", todo)
      BY <2>1, <2>2, <3>2, <3>3, <3>4, GoTyped
    <3>5. CASE \E ph \in {"find", "earliest"} : Go(ph, "each", Tail(todo))
      BY <2>2, <3>2, <3>3, <3>5, GoTyped
    <3> QED
      BY <3>1, <3>4, <3>5
  <2>7. ASSUME NEW st \in Steps, Then(st), next' \in Durations PROVE Typed'
    BY <2>1, <2>4, <2>7 DEF Then, Typed, HasTask
  <2>8. {"free", "executing", "next", "retry", "timeout", "overdue", "due"} \subseteq Steps
    BY DEF Steps
  <2>9. CASE ReadAttempt \/ ReadFree
    BY <2>7, <2>8, <2>9 DEF ReadAttempt, ReadFree, Typed
  <2>10. CASE ReadNext \/ ReadExecuting \/ ReadRetry
    <3>1. next' \in Durations
      BY <2>5, <2>10, DurationTypes DEF ReadNext, ReadExecuting, ReadRetry, Typed
    <3> QED
      BY <2>7, <2>8, <2>10, <3>1 DEF ReadNext, ReadExecuting, ReadRetry
  <2>11. CASE ReadTimeout
    <3>1. Lesser(next, UntilTimeout(Status, Pol)) \in Durations
      BY <2>5, DurationTypes DEF Typed
    <3> QED
      BY <2>6, <2>7, <2>8, <2>11, <3>1 DEF ReadTimeout, Typed
  <2>12. CASE AssertReady
    BY <2>6, <2>12, DurationTypes DEF AssertReady
  <2> QED
    BY <1>2, <2>9, <2>10, <2>11, <2>12 DEF Evaluate
<1> QED
  BY <1>1, <1>2

\* The workers, the client and time.
LEMMA OthersTyped ==
  ASSUME Held, Typed, \/ \E w \in Workers : WorkerStep(w)
                      \/ ClientStep \/ Tick \/ UNCHANGED vars
  PROVE  Typed'
<1>1. ASSUME NEW w \in Workers, WorkerStep(w) PROVE Typed'
  <2>1. UNCHANGED <<list, schedVars, calls, refused, valid>>
    BY <1>1 DEF WorkerStep, CheckStopped, Get, Look, Dispatch, Entry, Exit, Die,
                HandlerReturns, WakeScheduler, execVars, clientVars
  <2>2. called' \in {called, TRUE} /\ aborted' \in {aborted, "IsStarted"}
    BY <1>1 DEF WorkerStep, CheckStopped, Get, Look, Dispatch, Entry, Exit, Die,
                HandlerReturns, WakeScheduler
  <2> QED
    BY <2>1, <2>2 DEF Typed, HasTask, schedVars
<1>2. CASE ClientStep
  <2>1. calls' \in 0..MaxCalls /\ aborted' = aborted
    <3>1. calls' = calls \/ (calls < MaxCalls /\ calls' = calls + 1)
      BY <1>2 DEF ClientStep, ClientGoesOn, Add, Trigger, Resume, Suspend, Cancel, Calls
    <3> QED
      BY <1>2, <3>1, PoolAssumption DEF Typed, ClientStep
  <2>2. CASE \E t \in Tasks : Trigger(t) \/ Resume(t) \/ Suspend(t) \/ Cancel(t)
    <3>1. UNCHANGED <<list, schedVars, refused, valid, called>>
      BY <2>2 DEF Trigger, Resume, Suspend, Cancel, execVars
    <3> QED
      BY <2>1, <3>1, AsideTyped DEF schedVars, Typed
  <2>3. CASE Attach \/ CreateSuspended \/ TriggerRaise \/ ResumeWake
    <3>1. /\ UNCHANGED <<list, schedVars, valid>>
          /\ called' \in {called, TRUE} /\ refused' \subseteq Tasks
      BY <2>3, CallOf DEF Attach, CreateSuspended, TriggerRaise, ResumeWake, Raise, execVars,
                          Typed
    <3> QED
      BY <2>1, <3>1, AsideTyped DEF schedVars, Typed
  <2>4. CASE WakeAll
    <3>1. UNCHANGED <<list, valid, refused, found, next, triggered, called>>
      BY <2>4 DEF WakeAll, execVars
    <3>2. CASE phase = "asleep"
      <4>1. Go("done", "begin", <<>>) /\ alarm' = Infinite
        BY <2>4, <3>2 DEF WakeAll
      <4> QED
        BY <2>1, <3>1, <4>1, DurationTypes DEF Typed, Phases, Go, HasTask, Steps
    <3>3. CASE phase # "asleep"
      BY <2>1, <2>4, <3>1, <3>3, AsideTyped DEF WakeAll, Typed
    <3> QED
      BY <3>2, <3>3
  <2>5. ASSUME NEW t \in Tasks, Add(t) PROVE Typed'
    <3>1. /\ UNCHANGED <<phase, step, found, next, alarm, triggered, refused, valid, called>>
          /\ list' = Append(list, t)
          /\ todo' = todo \/ (todo # <<>> /\ todo' = Append(todo, t))
      BY <2>5 DEF Add, execVars
    <3>2. list \in Seq(Tasks) /\ todo \in Seq(Tasks)
      BY DEF Typed
    <3>3. list' \in Seq(Tasks) /\ todo' \in Seq(Tasks)
      BY <3>1, <3>2, AppendProperties
    <3>4. Append(todo, t) # <<>>
      BY <3>2, AppendProperties
    <3>5. HasTask'
      BY <3>1, <3>4 DEF Typed, HasTask
    <3> QED
      BY <2>1, <3>1, <3>3, <3>5 DEF Typed
  <2> QED
    BY <1>2, <2>2, <2>3, <2>4, <2>5 DEF ClientStep, ClientGoesOn
<1>3. CASE Tick
  <2>1. UNCHANGED <<list, phase, step, todo, found, next, valid, refused, triggered, called,
                    calls, aborted>>
    BY <1>3 DEF Tick, execVars, clientVars
  <2>2. alarm' \in Durations
    BY <1>3, InfiniteAssumption, PoolAssumption DEF Tick, Typed, Durations
  <2> QED
    BY <2>1, <2>2, AsideTyped DEF Typed
<1>4. CASE UNCHANGED vars
  BY <1>4 DEF vars, execVars, schedVars, clientVars, Typed, HasTask
<1> QED
  BY <1>1, <1>2, <1>3, <1>4

LEMMA TypedKeeps ==
  ASSUME Held, Typed, [Next]_vars
  PROVE  Typed'
BY LoopsTyped, TasksTyped, StrategiesTyped, OthersTyped DEF Next, SchedulerStep

\* Every variable keeps its type, and the scheduler is at a task whenever it reads
\* one's status: no strategy is asked about the head of an empty list.
THEOREM TypeCorrect ==
  Spec => []TypeOK
<1>1. Init => PoolInv /\ Typed
  BY PoolInitially, TypedInitially
<1>2. PoolInv /\ Typed /\ [Next]_vars => PoolInv' /\ Typed'
  BY PoolInductive, TypedKeeps DEF PoolInv, IInv
<1>3. PoolInv /\ Typed => TypeOK
  BY DEF PoolInv, Faults, IInv, Held, Typed, HasTask, TypeOK
<1> QED
  BY <1>1, <1>2, <1>3, PTL DEF Spec

-----------------------------------------------------------------------------
(* The tasks' conditions and the workers implement Dispatching, as the      *)
(* conditions and takers of WaitSet do.                                     *)

Dispatched ==
  INSTANCE Dispatching
    WITH Conditions <- Tasks, Threads <- Workers,
         pending <- {t \in Tasks : trigger[t] /\ Free(t)},
         running <- [w \in Workers |-> IF Handling(w) THEN hand[w] ELSE None]

\* Nothing that Dispatching knows of changes.
LEMMA Stutters ==
  ASSUME UNCHANGED trigger,
         \A w \in Workers : /\ Handling(w)' <=> Handling(w)
                            /\ Handling(w) => hand'[w] = hand[w]
  PROVE  UNCHANGED Dispatched!vars
<1>1. \A t : Free(t)' <=> Free(t)
  BY DEF Free, Handling
<1> QED
  BY <1>1 DEF Dispatched!vars

LEMMA RaiseSets ==
  ASSUME Held, NEW t \in Tasks, Raise(t), UNCHANGED <<place, hand>>
  PROVE  Dispatched!Next
<1>1. /\ Free(t) /\ \A u \in Tasks : trigger'[u] = (u = t \/ trigger[u])
      /\ \A u : Free(u)' <=> Free(u)
  BY DEF Raise, Held, Free
<1>2. t \notin Dispatched!Running
  <2>1. \A w \in Workers : Handling(w) => hand[w] # t
    BY <1>1 DEF Free, Handling
  <2> QED
    BY <2>1, PoolAssumption DEF Dispatched!Running
<1>3. {u \in Tasks : trigger'[u] /\ Free(u)'} = {u \in Tasks : trigger[u] /\ Free(u)} \cup {t}
  BY <1>1
<1>4. UNCHANGED [w \in Workers |-> IF Handling(w) THEN hand[w] ELSE None]
  BY DEF Handling
<1>5. Dispatched!Set(t, TRUE)
  BY <1>2, <1>3, <1>4 DEF Dispatched!Set
<1> QED
  BY <1>5 DEF Dispatched!Next

LEMMA WorkerDispatches ==
  ASSUME PoolInv, NEW w \in Workers, WorkerStep(w)
  PROVE  [Dispatched!Next]_(Dispatched!vars)
<1>0. Held /\ OneHandler
  BY DEF PoolInv, IInv
<1> DEFINE running == [v \in Workers |-> IF Handling(v) THEN hand[v] ELSE None]
<1>1. ASSUME UNCHANGED trigger, Handling(w)' <=> Handling(w), Handling(w) => hand'[w] = hand[w],
             \A v \in Workers : v # w => place'[v] = place[v] /\ hand'[v] = hand[v]
      PROVE  UNCHANGED Dispatched!vars
  BY <1>1, Stutters DEF Handling
<1>2. CASE CheckStopped(w) \/ WakeScheduler(w)
  BY <1>0, <1>1, <1>2 DEF CheckStopped, WakeScheduler, At, Held, Handling, execVars
<1>3. CASE Get(w) \/ Look(w)
  BY <1>0, <1>1, <1>3 DEF Get, Look, At, Held, Handling, execVars
<1>4. CASE Entry(w) \/ Exit(w)
  BY <1>0, <1>1, <1>4 DEF Entry, Exit, At, Held, Handling, execVars
<1>5. CASE Dispatch(w) /\ ~trigger[hand[w]]
  BY <1>0, <1>1, <1>5 DEF Dispatch, At, Held, Handling, execVars
<1>6. CASE Dispatch(w) /\ trigger[hand[w]]
  <2>1. PICK t \in Tasks : t = hand[w]
    BY <1>0, <1>6 DEF Dispatch, Held
  <2>2. /\ place[w] = "ready" /\ place' = [place EXCEPT ![w] = "entry"]
        /\ Free(t) /\ trigger[t] /\ UNCHANGED <<hand, trigger>>
    BY <1>6, <2>1 DEF Dispatch, At, execVars
  <2>3. t \notin Dispatched!Running
    <3>1. \A v \in Workers : Handling(v) => hand[v] # t
      BY <2>2 DEF Free, Handling
    <3> QED
      BY <3>1, PoolAssumption DEF Dispatched!Running
  <2>4. \A v \in Workers : Handling(v)' <=> Handling(v) \/ v = w
    BY <1>0, <2>2 DEF Held, Handling
  <2>5. \A u \in Tasks : Free(u)' <=> Free(u) /\ u # t
    BY <2>1, <2>2, <2>4 DEF Free, Handling
  <2>6. {u \in Tasks : trigger'[u] /\ Free(u)'} = {u \in Tasks : trigger[u] /\ Free(u)} \ {t}
    BY <2>2, <2>5
  <2>7. ~Handling(w) /\ running' = [running EXCEPT ![w] = t]
    BY <2>1, <2>2, <2>4 DEF Handling
  <2>8. Dispatched!Begin(w, t)
    BY <2>2, <2>3, <2>6, <2>7 DEF Dispatched!Begin
  <2> QED
    BY <2>8 DEF Dispatched!Next
<1>7. CASE HandlerReturns(w)
  <2>1. PICK t \in Tasks : t = hand[w]
    BY <1>0, <1>7 DEF HandlerReturns, At, Held
  <2>2. /\ place[w] = "return" /\ place' = [place EXCEPT ![w] = "guard"]
        /\ hand' = [hand EXCEPT ![w] = None] /\ trigger' = [trigger EXCEPT ![t] = FALSE]
    BY <1>7, <2>1 DEF HandlerReturns, At
  <2>3. /\ \A v \in Workers : Handling(v)' <=> Handling(v) /\ v # w
        /\ \A v \in Workers : v # w => hand'[v] = hand[v]
    BY <1>0, <2>2 DEF Held, Handling
  <2>4. ~Free(t) /\ \A u \in Tasks : u # t => (Free(u)' <=> Free(u))
    BY <2>1, <2>2, <2>3 DEF Free, Handling
  <2>5. \A u \in Tasks : trigger'[u] <=> trigger[u] /\ u # t
    BY <1>0, <2>2 DEF Held
  <2>6. {u \in Tasks : trigger'[u] /\ Free(u)'} = {u \in Tasks : trigger[u] /\ Free(u)}
    BY <2>4, <2>5
  <2>7. running' = [running EXCEPT ![w] = None]
    BY <2>3
  <2>8. running[w] # None
    BY <2>1, <2>2, PoolAssumption DEF Handling
  <2>9. Dispatched!Return(w)
    BY <2>6, <2>7, <2>8 DEF Dispatched!Return
  <2> QED
    BY <2>9 DEF Dispatched!Next
<1>8. CASE Die(w)
  <2>1. PICK t \in Tasks : t = hand[w]
    BY <1>0, <1>8 DEF Die, At, Held
  <2>2. /\ place[w] = "running" /\ place' = [place EXCEPT ![w] = "none"]
        /\ hand' = [hand EXCEPT ![w] = None] /\ UNCHANGED trigger
    BY <1>8 DEF Die, At, execVars
  <2>3. /\ \A v \in Workers : Handling(v)' <=> Handling(v) /\ v # w
        /\ \A v \in Workers : v # w => hand'[v] = hand[v]
    BY <1>0, <2>2 DEF Held, Handling
  <2>4. \A v \in Workers : Handling(v) /\ hand[v] = t => v = w
    BY <1>0, <2>1, <2>2 DEF OneHandler, Handling
  <2>5. Free(t)' /\ \A u \in Tasks : u # t => (Free(u)' <=> Free(u))
    BY <2>1, <2>3, <2>4 DEF Free, Handling
  <2>6. running' = [running EXCEPT ![w] = None]
    BY <2>3
  <2>7. running[w] = t /\ t # None /\ running[w] # None
    BY <2>1, <2>2, PoolAssumption DEF Handling
  <2>8. CASE trigger[t]
    <3>1. {u \in Tasks : trigger'[u] /\ Free(u)'}
            = {u \in Tasks : trigger[u] /\ Free(u)} \cup {running[w]}
      BY <2>2, <2>5, <2>7, <2>8
    <3>2. Dispatched!Throw(w)
      BY <2>6, <2>7, <3>1 DEF Dispatched!Throw
    <3> QED
      BY <3>2 DEF Dispatched!Next
  <2>9. CASE ~trigger[t]
    <3>1. ~Free(t)
      BY <2>1, <2>2 DEF Free
    <3>2. {u \in Tasks : trigger'[u] /\ Free(u)'} = {u \in Tasks : trigger[u] /\ Free(u)}
      BY <2>2, <2>5, <2>9, <3>1
    <3>3. Dispatched!Return(w)
      BY <2>6, <2>7, <3>2 DEF Dispatched!Return
    <3> QED
      BY <3>3 DEF Dispatched!Next
  <2> QED
    BY <2>8, <2>9
<1> QED
  BY <1>2, <1>3, <1>4, <1>5, <1>6, <1>7, <1>8 DEF WorkerStep

LEMMA StepDispatches ==
  ASSUME PoolInv, Typed, [Next]_vars
  PROVE  [Dispatched!Next]_(Dispatched!vars)
<1>0. Held
  BY DEF PoolInv, IInv
<1>1. ASSUME UNCHANGED <<trigger, place, hand>>
      PROVE  UNCHANGED Dispatched!vars
  BY <1>1, Stutters DEF Handling
<1>2. CASE StartWorkers
  <2>1. UNCHANGED <<trigger, hand>>
    BY <1>2 DEF StartWorkers
  <2>2. \A w \in Workers : Handling(w)' <=> Handling(w)
    BY <1>2 DEF StartWorkers, Alive, Handling
  <2> QED
    BY <2>1, <2>2, Stutters
<1>3. CASE RaiseTrigger
  <2>1. Head(todo) \in Tasks
    BY <1>3, AtTask DEF RaiseTrigger, Typed, HasTask
  <2> QED
    BY <1>0, <1>3, <2>1, RaiseSets DEF RaiseTrigger, workerVars
<1>4. CASE TriggerRaise /\ UNCHANGED <<place, hand>>
  <2>1. call[2] \in Tasks
    BY <1>0, <1>4, CallOf DEF TriggerRaise
  <2> QED
    BY <1>0, <1>4, <2>1, RaiseSets DEF TriggerRaise
<1>5. CASE \E w \in Workers : WorkerStep(w)
  BY <1>5, WorkerDispatches
<1>6. CASE SchedulerStep /\ ~StartWorkers /\ ~RaiseTrigger
  <2>1. CASE StopIdleWorkers \/ KeepWorkers \/ Begin \/ Visit \/ EndLoop \/ Evaluate
    BY <1>1, <2>1 DEF StopIdleWorkers, KeepWorkers, Begin, Visit, EndLoop, Evaluate,
       execVars, workerVars
  <2>2. CASE AssertFound \/ Abort \/ Unready \/ SetStarting \/ Wait \/ WakeUp \/ Lapsed
               \/ Remove \/ Interrupt
    BY <1>1, <2>2 DEF AssertFound, Abort, Unready, SetStarting, Wait, WakeUp, Lapsed,
       Remove, Interrupt, execVars, workerVars
  <2> QED
    BY <1>6, <2>1, <2>2 DEF SchedulerStep
<1>7. CASE ClientStep /\ ~TriggerRaise
  BY <1>1, <1>7 DEF ClientStep, ClientGoesOn, Attach, CreateSuspended, WakeAll, ResumeWake,
     Add, Trigger, Resume, Suspend, Cancel, execVars, workerVars
<1>8. CASE Tick \/ UNCHANGED vars
  BY <1>1, <1>8 DEF Tick, vars, execVars, workerVars
<1> QED
  BY <1>2, <1>3, <1>4, <1>5, <1>6, <1>7, <1>8 DEF Next, ClientStep

LEMMA InitDispatches == Init => Dispatched!Init
BY DEF Init, Handling, Dispatched!Init

\* What the pool keeps of its wait set and of its tasks' conditions promises what
\* WaitSet, GuardCondition and their two mutexes promise: a task runs for a trigger and
\* alone, and a trigger set while it runs waits for its next run.
THEOREM DispatchingIsImplemented ==
  Spec => Dispatched!Spec
<1>1. Init => PoolInv /\ Typed
  BY PoolInitially, TypedInitially
<1>2. PoolInv /\ Typed /\ [Next]_vars => PoolInv' /\ Typed'
  BY PoolInductive, TypedKeeps DEF PoolInv, IInv
<1>3. PoolInv /\ Typed /\ [Next]_vars => [Dispatched!Next]_(Dispatched!vars)
  BY StepDispatches DEF PoolInv, IInv
<1> QED
  BY <1>1, <1>2, <1>3, InitDispatches, PTL DEF Spec, Dispatched!Spec

\* No two workers run one task at once, however often it is triggered.
THEOREM OneWorkerPerTask ==
  Spec => []Dispatched!Exclusive
<1> DEFINE R == [w \in Workers |-> IF Handling(w) THEN hand[w] ELSE None]
           P == {t \in Tasks : trigger[t] /\ Free(t)}
           Apart == /\ \A v, w \in Workers : R[v] = R[w] /\ R[v] # None => v = w
                    /\ \A w \in Workers : R[w] \notin P
<1>1. Dispatched!Init => Apart
  BY DEF Dispatched!Init
<1>2. Apart /\ [Dispatched!Next]_(Dispatched!vars) => Apart'
  <2> SUFFICES ASSUME Apart, [Dispatched!Next]_(Dispatched!vars) PROVE Apart'
    OBVIOUS
  <2>1. DOMAIN R = Workers /\ R = [w \in Workers |-> R[w]] /\ P \subseteq Tasks
    OBVIOUS
  <2>2. CASE UNCHANGED Dispatched!vars
    <3>1. R' = R /\ P' = P
      BY <2>2 DEF Dispatched!vars
    <3> QED
      BY <3>1
  <2>3. ASSUME NEW t \in Tasks, NEW value \in BOOLEAN, Dispatched!Set(t, value)
        PROVE  Apart'
    <3> HIDE DEF R, P
    <3>1. R' = R /\ P' \subseteq P \cup {t} /\ \A w \in Workers : R[w] # t
      BY <2>3 DEF Dispatched!Set, Dispatched!Running, R, P
    <3> QED
      BY <3>1
  <2>4. ASSUME NEW w \in Workers, NEW t \in Tasks, Dispatched!Begin(w, t)
        PROVE  Apart'
    <3> HIDE DEF R, P
    <3>1. /\ t \in P /\ \A v \in Workers : R[v] # t
          /\ R' = [R EXCEPT ![w] = t] /\ P' = P \ {t}
      BY <2>4 DEF Dispatched!Begin, Dispatched!Running, R, P
    <3>2. \A v \in Workers : R'[v] = IF v = w THEN t ELSE R[v]
      BY <2>1, <3>1
    <3> QED
      BY <3>1, <3>2
  <2>5. ASSUME NEW w \in Workers, Dispatched!Return(w) \/ Dispatched!Throw(w)
        PROVE  Apart'
    <3> HIDE DEF R, P
    <3>1. R' = [R EXCEPT ![w] = None] /\ P' \subseteq P \cup {R[w]} /\ R[w] # None
      BY <2>5 DEF Dispatched!Return, Dispatched!Throw, R, P
    <3>2. \A v \in Workers : R'[v] = IF v = w THEN None ELSE R[v]
      BY <2>1, <3>1
    <3>3. None \notin P'
      BY <2>1, <3>1, PoolAssumption DEF P
    <3> QED
      BY <3>1, <3>2, <3>3
  <2> QED
    BY <2>2, <2>3, <2>4, <2>5 DEF Dispatched!Next
<1>3. Apart => Dispatched!Exclusive
  BY DEF Dispatched!Exclusive, Dispatched!Running
<1> QED
  BY <1>1, <1>2, <1>3, DispatchingIsImplemented, PTL DEF Dispatched!Spec

-----------------------------------------------------------------------------
(* RemoveDone: no task is in the list twice.                               *)

Once(s) == \A i, j \in DOMAIN s : s[i] = s[j] => i = j

LEMMA OnceTail ==
  ASSUME NEW q \in Seq(Tasks), q # <<>>, Once(q)
  PROVE  Once(Tail(q)) /\ Members(Tail(q)) = Members(q) \ {Head(q)}
<1>1. /\ Len(Tail(q)) = Len(q) - 1
      /\ \A i \in 1..Len(Tail(q)) : Tail(q)[i] = q[i + 1]
      /\ Tail(q) \in Seq(Tasks)
  BY HeadTailProperties
<1>2. /\ Len(q) \in Nat /\ DOMAIN q = 1..Len(q) /\ Head(q) = q[1]
      /\ DOMAIN Tail(q) = 1..(Len(q) - 1) /\ Len(q) # 0
  BY <1>1, LenProperties, EmptySeq
<1>3. \A i \in DOMAIN Tail(q) : i + 1 \in DOMAIN q /\ i + 1 # 1 /\ Tail(q)[i] = q[i + 1]
  BY <1>1, <1>2
<1>4. Once(Tail(q))
  <2>1. ASSUME NEW i \in DOMAIN Tail(q), NEW j \in DOMAIN Tail(q), Tail(q)[i] = Tail(q)[j]
        PROVE  i = j
    <3>1. i + 1 = j + 1
      BY <1>3, <2>1 DEF Once
    <3> QED
      BY <1>2, <3>1
  <2> QED
    BY <2>1 DEF Once
<1>5. 1 \in DOMAIN q
  BY <1>2
<1>6. \A t \in Members(Tail(q)) : t \in Members(q) /\ t # Head(q)
  BY <1>2, <1>3, <1>5 DEF Members, Once
<1>7. \A t \in Members(q) : t = Head(q) \/ t \in Members(Tail(q))
  BY MembersTail
<1> QED
  BY <1>4, <1>6, <1>7

LEMMA OnceAppend ==
  ASSUME NEW q \in Seq(Tasks), NEW t \in Tasks, Once(q), t \notin Members(q)
  PROVE  Once(Append(q, t))
<1>1. /\ Len(Append(q, t)) = Len(q) + 1
      /\ \A i \in 1..Len(q) : Append(q, t)[i] = q[i]
      /\ Append(q, t)[Len(q) + 1] = t
      /\ Append(q, t) \in Seq(Tasks)
  BY AppendProperties
<1>2. /\ Len(q) \in Nat /\ DOMAIN q = 1..Len(q)
      /\ DOMAIN Append(q, t) = 1..(Len(q) + 1)
  BY <1>1, LenProperties
<1>3. \A i \in DOMAIN Append(q, t) :
        \/ i \in DOMAIN q /\ Append(q, t)[i] = q[i] /\ q[i] \in Members(q)
        \/ i = Len(q) + 1 /\ Append(q, t)[i] = t
  BY <1>1, <1>2 DEF Members
<1> QED
  BY <1>3 DEF Once

\* Without what is at i, the rest of the list stays.
LEMMA OnceWithout ==
  ASSUME NEW q \in Seq(Tasks), Once(q), NEW i \in DOMAIN q, NEW r,
         r = [j \in 1..Len(q) - 1 |-> q[IF j < i THEN j ELSE j + 1]]
  PROVE  Once(r) /\ Members(r) = Members(q) \ {q[i]}
<1>1. Len(q) \in Nat /\ DOMAIN q = 1..Len(q) /\ DOMAIN r = 1..Len(q) - 1
  BY LenProperties
<1> DEFINE at(j) == IF j < i THEN j ELSE j + 1
<1>2. ASSUME NEW j \in DOMAIN r
      PROVE  at(j) \in DOMAIN q /\ at(j) # i /\ r[j] = q[at(j)]
  <2>1. j \in 1..Len(q) - 1 /\ i \in 1..Len(q) /\ Len(q) \in Nat
    BY <1>1
  <2>2. at(j) \in 1..Len(q) /\ at(j) # i
    BY <2>1
  <2> QED
    BY <1>1, <2>2
<1>3. ASSUME NEW j \in DOMAIN r, NEW k \in DOMAIN r, at(j) = at(k)
      PROVE  j = k
  <2>1. j \in 1..Len(q) - 1 /\ k \in 1..Len(q) - 1 /\ i \in 1..Len(q) /\ Len(q) \in Nat
    BY <1>1
  <2> QED
    BY <1>3, <2>1
<1>4. ASSUME NEW k \in DOMAIN q, k # i
      PROVE  \E j \in DOMAIN r : at(j) = k
  <2>1. k \in 1..Len(q) /\ i \in 1..Len(q) /\ Len(q) \in Nat
    BY <1>1
  <2>2. CASE k < i
    BY <1>1, <2>1, <2>2
  <2>3. CASE k > i
    <3>1. k - 1 \in DOMAIN r /\ at(k - 1) = k
      BY <1>1, <2>1, <2>3
    <3> QED
      BY <3>1
  <2> QED
    BY <1>4, <2>1, <2>2, <2>3
<1> HIDE DEF at
<1>5. Once(r)
  BY <1>2, <1>3 DEF Once
<1>6. \A t \in Members(r) : t \in Members(q) /\ t # q[i]
  BY <1>2 DEF Members, Once
<1>7. \A t \in Members(q) : t # q[i] => t \in Members(r)
  <2>1. ASSUME NEW k \in DOMAIN q, q[k] # q[i] PROVE q[k] \in Members(r)
    <3>1. PICK j \in DOMAIN r : at(j) = k
      BY <1>4, <2>1
    <3> QED
      BY <1>2, <3>1 DEF Members
  <2> QED
    BY <2>1 DEF Members
<1> QED
  BY <1>5, <1>6, <1>7

\* A task is in the list once, from the moment the client adds it, before its
\* condition is attached.
Listed ==
  /\ Once(list)
  /\ \A t \in Members(list) : t \in attached \/ call = <<"attach", t>>

\* What RemoveDone has found and has still to visit are tasks of the list, each of them
\* once, and nothing that FindReady found is left over for it.
Removable ==
  /\ phase \notin {"find", "assert", "check", "recheck", "done", "lapsed"} \/ step = "begin"
       => found = <<>>
  /\ phase = "lapsed" \/ (phase = "done" /\ step # "begin") =>
       /\ Once(found) /\ Once(todo) /\ Members(found) \cap Members(todo) = {}
       /\ Members(found) \cup Members(todo) \subseteq Members(list)
  /\ phase = "drop" => Once(todo) /\ Members(todo) \subseteq Members(list)

\* The assertion of ScheduledTasksState::Remove: the task is in the list, once.
RemovesOnce == aborted # "Remove"

ListInv == PoolInv /\ Typed /\ Listed /\ Removable /\ RemovesOnce

LEMMA ListedInitially == Init => Listed /\ Removable /\ RemovesOnce
<1> SUFFICES ASSUME Init PROVE Listed /\ Removable /\ RemovesOnce
  OBVIOUS
<1>1. Members(list) = Initial /\ attached = Initial /\ list \in [1..Cardinality(Initial) -> Initial]
  BY DEF Init
<1>2. Once(list)
  <2>1. IsFiniteSet(Initial) /\ Cardinality(Initial) \in Nat
    BY PoolAssumption, FS_CardinalityType
  <2>2. /\ IsFiniteSet(1..Cardinality(Initial))
        /\ Cardinality(1..Cardinality(Initial)) = Cardinality(Initial)
    BY <2>1, FS_Interval
  <2>3. list \in Surjection(1..Cardinality(Initial), Initial)
    <3>1. \A t \in Initial : \E i \in 1..Cardinality(Initial) : list[i] = t
      BY <1>1 DEF Members
    <3> QED
      BY <1>1, <3>1 DEF Surjection
  <2>4. list \in Injection(1..Cardinality(Initial), Initial)
    BY <2>1, <2>2, <2>3, FS_SurjSameCardinalityImpliesInj
  <2> QED
    BY <1>1, <2>4 DEF Injection, IsInjective, Once
<1> QED
  BY <1>1, <1>2 DEF Init, Listed, Removable, RemovesOnce

\* What is in the list is there at one place.
LEMMA ListedOnly ==
  ASSUME Once(list), NEW t \in Members(list)
  PROVE  \E i \in DOMAIN list : IsOnly(i, t)
BY DEF Once, Members, IsOnly

\* Steps outside RemoveDone.
LEMMA ElsewhereRemovable ==
  ASSUME phase' \notin {"done", "lapsed", "drop"} \/ (phase' = "done" /\ step' = "begin"),
         found' = <<>> \/ (phase' \in {"find", "assert", "check", "recheck"} /\ step' # "begin")
  PROVE  Removable'
BY DEF Removable

LEMMA NothingFound ==
  ASSUME Removable,
         phase \notin {"find", "assert", "check", "recheck", "done", "lapsed"} \/ step = "begin"
  PROVE  found = <<>>
BY DEF Removable

\* The loops of the scheduler over its tasks.
LEMMA LoopsRemovable ==
  ASSUME ListInv,
         \/ StartWorkers \/ StopIdleWorkers \/ KeepWorkers \/ Begin \/ EndLoop \/ Wait \/ WakeUp
  PROVE  /\ UNCHANGED <<list, attached, call, aborted>> /\ Removable'
<1>1. UNCHANGED <<list, attached, call, aborted>>
  BY DEF StartWorkers, StopIdleWorkers, KeepWorkers, Begin, EndLoop, Wait, WakeUp, execVars,
         clientVars
<1> SUFFICES Removable'
  BY <1>1
<1>2. CASE StartWorkers \/ StopIdleWorkers \/ KeepWorkers \/ Wait \/ WakeUp
  <2>1. /\ found' = found /\ step' = "begin" /\ phase' \in {"find", "done", "asleep", "hung"}
        /\ phase \in {"balance", "wait", "asleep"}
    BY <1>2 DEF StartWorkers, StopIdleWorkers, KeepWorkers, Wait, WakeUp, Go
  <2> QED
    BY <2>1, NothingFound, ElsewhereRemovable DEF ListInv
<1>3. CASE Begin
  <2>1. found' = found /\ step = "begin" /\ phase' = phase /\ todo' = list /\ found = <<>>
        /\ phase \in {"find", "earliest", "done", "late"}
    BY <1>3 DEF Begin, Go, ListInv, Removable
  <2>2. Once(<<>>) /\ Members(<<>>) = {}
    BY DEF Once, Members
  <2> QED
    BY <1>1, <2>1, <2>2 DEF ListInv, Removable, Listed
<1>4. CASE EndLoop
  <2>1. CASE phase = "done"
    <3>1. phase' = "drop" /\ todo' = found /\ found' = <<>> /\ step = "each"
      BY <1>4, <2>1 DEF EndLoop, Go
    <3> QED
      BY <1>1, <2>1, <3>1 DEF ListInv, Removable
  <2>2. CASE phase # "done"
    <3>1. /\ phase \in {"find", "trigger", "earliest", "drop", "late"}
          /\ phase' \in {"trigger", "earliest", "wait", "late", "balance"}
          /\ found' = IF phase = "find" THEN <<>> ELSE found
      BY <1>4, <2>2 DEF EndLoop, Go
    <3> QED
      BY <3>1, NothingFound, ElsewhereRemovable DEF ListInv
  <2> QED
    BY <2>1, <2>2
<1> QED
  BY <1>1, <1>2, <1>3, <1>4

\* What the scheduler does with a task.
LEMMA TasksRemovable ==
  ASSUME ListInv,
         Visit \/ Evaluate \/ AssertFound \/ Unready \/ SetStarting \/ RaiseTrigger
           \/ Lapsed \/ Interrupt
  PROVE  UNCHANGED <<list, attached, call, aborted>> /\ Removable'
<1>1. UNCHANGED <<list, attached, call, aborted>>
  BY DEF Visit, Evaluate, AssertFound, Unready, SetStarting, RaiseTrigger, Raise, Lapsed,
         Interrupt, execVars, clientVars
<1> SUFFICES Removable'
  BY <1>1
<1>2. todo # <<>> => Head(todo) \in Tasks /\ todo \in Seq(Tasks) /\ found \in Seq(Tasks)
  BY AtTask DEF ListInv, Typed
<1>3. CASE Visit
  <2>1. /\ found' = found /\ step = "each" /\ todo # <<>> /\ step' \in {"each", "attempt"}
        /\ todo' \in {todo, Tail(todo)}
        /\ phase \in {"find", "check", "ready", "earliest", "trigger", "done", "late", "starting"}
        /\ phase \in {"find", "check"} => phase' = phase
        /\ phase \in {"ready", "earliest", "trigger", "late", "starting"} =>
             phase' \in {"ready", "earliest", "trigger", "late", "starting", "set", "interrupt"}
        /\ phase = "done" => phase' \in {"done", "lapsed"}
    BY <1>3 DEF Visit, Go
  <2>2. Once(todo) => Once(Tail(todo)) /\ Members(Tail(todo)) \subseteq Members(todo)
    BY <1>2, <2>1, OnceTail
  <2>3. CASE phase = "done"
    BY <1>1, <2>1, <2>2, <2>3 DEF ListInv, Removable
  <2>4. CASE phase # "done"
    <3>1. CASE phase \in {"find", "check"}
      BY <2>1, <3>1, ElsewhereRemovable
    <3>2. CASE phase \in {"ready", "earliest", "trigger", "late", "starting"}
      BY <2>1, <3>2, NothingFound, ElsewhereRemovable DEF ListInv
    <3> QED
      BY <2>1, <2>4, <3>1, <3>2
  <2> QED
    BY <2>3, <2>4
<1>4. CASE Evaluate
  <2>1. CASE UNCHANGED <<phase, todo, found>> /\ step # "begin" /\ step' # "begin"
    BY <1>1, <2>1 DEF ListInv, Removable
  <2>2. CASE /\ phase \in {"find", "check"} /\ phase' \in {"find", "assert", "check", "recheck"}
             /\ step' # "begin"
    BY <2>2, ElsewhereRemovable
  <2>3. CASE /\ phase \in {"ready", "earliest"} /\ found' = found /\ step # "begin"
             /\ phase' \in {"starting", "unready", "earliest"}
    BY <2>3, NothingFound, ElsewhereRemovable DEF ListInv
  <2>4. ASSUME NEW v, Return(v)
        PROVE  \/ /\ phase \in {"find", "check"}
                  /\ phase' \in {"find", "assert", "check", "recheck"} /\ step' # "begin"
               \/ /\ phase \in {"ready", "earliest"} /\ found' = found
                  /\ phase' \in {"starting", "unready", "earliest"}
    BY <2>4 DEF Return, Go
  <2>5. step # "begin"
    BY <1>4 DEF Evaluate, ReadAttempt, ReadFree, ReadNext, ReadExecuting, ReadRetry,
                ReadTimeout, AssertReady
  <2>6. ASSUME NEW st \in {"free", "executing", "next", "retry", "timeout", "overdue", "due"},
               Then(st)
        PROVE  UNCHANGED <<phase, todo, found>> /\ step' # "begin"
    BY <2>6 DEF Then
  <2>7. \/ \E v : Return(v)
        \/ \E st \in {"free", "executing", "next", "retry", "timeout", "overdue", "due"} : Then(st)
    <3>1. CASE ReadAttempt \/ ReadFree \/ ReadNext \/ ReadExecuting \/ ReadRetry
      BY <3>1 DEF ReadAttempt, ReadFree, ReadNext, ReadExecuting, ReadRetry
    <3>2. CASE ReadTimeout \/ AssertReady
      BY <3>2 DEF ReadTimeout, AssertReady
    <3> QED
      BY <1>4, <3>1, <3>2 DEF Evaluate
  <2> QED
    BY <2>1, <2>2, <2>3, <2>4, <2>5, <2>6, <2>7
<1>5. CASE AssertFound
  <2>1. phase' \in {"check", "find"} /\ step' = "each"
    BY <1>5 DEF AssertFound, Go
  <2> QED
    BY <2>1, ElsewhereRemovable
<1>6. CASE Unready \/ SetStarting \/ RaiseTrigger \/ Interrupt
  <2>1. /\ found' = found /\ phase \in {"unready", "set", "raise", "interrupt"}
        /\ phase' \in {"starting", "trigger", "raise", "late"}
    BY <1>6 DEF Unready, SetStarting, RaiseTrigger, Interrupt, Go
  <2> QED
    BY <2>1, NothingFound, ElsewhereRemovable DEF ListInv
<1>7. CASE Lapsed
  <2>1. /\ phase = "lapsed" /\ phase' = "done" /\ step' = "each" /\ todo' = Tail(todo)
        /\ found' = found \/ found' = Append(found, Head(todo))
    BY <1>7 DEF Lapsed, Go
  <2>2. todo # <<>>
    BY <2>1 DEF ListInv, Typed, HasTask
  <2>3. /\ Once(found) /\ Once(todo) /\ Members(found) \cap Members(todo) = {}
        /\ Members(found) \cup Members(todo) \subseteq Members(list)
    BY <2>1 DEF ListInv, Removable
  <2>4. /\ Once(Tail(todo)) /\ Members(Tail(todo)) = Members(todo) \ {Head(todo)}
        /\ Head(todo) \in Tasks /\ Head(todo) \in Members(todo)
    <3>1. 1 \in DOMAIN todo /\ Head(todo) = todo[1]
      BY <1>2, <2>2, HeadTailProperties, LenProperties, EmptySeq
    <3> QED
      BY <1>2, <2>2, <2>3, <3>1, OnceTail DEF Members
  <2>5. /\ Once(Append(found, Head(todo)))
        /\ Members(Append(found, Head(todo))) = Members(found) \cup {Head(todo)}
    BY <1>2, <2>2, <2>3, <2>4, OnceAppend, MembersAppend
  <2>6. /\ Once(found') /\ Once(todo') /\ Members(found') \cap Members(todo') = {}
        /\ Members(found') \cup Members(todo') \subseteq Members(list)
    <3>1. CASE found' = found
      BY <2>1, <2>3, <2>4, <3>1
    <3>2. CASE found' = Append(found, Head(todo))
      BY <2>1, <2>3, <2>4, <2>5, <3>2
    <3> QED
      BY <2>1, <3>1, <3>2
  <2> QED
    BY <1>1, <2>1, <2>6 DEF Removable
<1> QED
  BY <1>3, <1>4, <1>5, <1>6, <1>7

\* RemoveDone removes a task.
LEMMA RemoveRemovable ==
  ASSUME ListInv, Remove
  PROVE  /\ UNCHANGED <<attached, call, aborted>> /\ Once(list')
         /\ Members(list') \subseteq Members(list) /\ Removable'
<1>1. /\ UNCHANGED <<attached, call, aborted, found>> /\ phase = "drop" /\ phase' = "drop"
      /\ todo # <<>> /\ todo' = Tail(todo) /\ found = <<>>
  BY DEF Remove, execVars, clientVars, Go, ListInv, Removable
<1>2. PICK i \in DOMAIN list :
        /\ IsOnly(i, Head(todo))
        /\ list' = [j \in 1..Len(list) - 1 |-> list[IF j < i THEN j ELSE j + 1]]
  BY DEF Remove
<1>3. list \in Seq(Tasks) /\ Once(list) /\ list[i] = Head(todo)
  BY <1>2 DEF ListInv, Typed, Listed, IsOnly
<1>4. Once(list') /\ Members(list') = Members(list) \ {Head(todo)}
  BY <1>2, <1>3, OnceWithout
<1>5. Once(Tail(todo)) /\ Members(Tail(todo)) = Members(todo) \ {Head(todo)}
  BY <1>1, OnceTail DEF ListInv, Typed, Removable
<1>6. Members(todo) \subseteq Members(list)
  BY <1>1 DEF ListInv, Removable
<1> QED
  BY <1>1, <1>4, <1>5, <1>6 DEF Removable

\* RemoveDone finds what it has to remove.
LEMMA DropFinds ==
  ASSUME ListInv, phase = "drop", todo # <<>>
  PROVE  \E i \in DOMAIN list : IsOnly(i, Head(todo))
<1>1. Head(todo) \in Members(todo)
  <2>1. 1 \in DOMAIN todo /\ Head(todo) = todo[1]
    BY HeadTailProperties, LenProperties, EmptySeq DEF ListInv, Typed
  <2> QED
    BY <2>1 DEF Members
<1>2. Once(list) /\ Head(todo) \in Members(list)
  BY <1>1 DEF ListInv, Removable, Listed
<1> QED
  BY <1>2, ListedOnly

\* No assertion of ScheduledTasksState::Remove fails.
LEMMA AbortRemovable ==
  ASSUME ListInv, Abort
  PROVE  UNCHANGED <<list, attached, call>> /\ Removable' /\ RemovesOnce'
<1>1. UNCHANGED <<list, attached, call, phase, step, todo, found>>
  BY DEF Abort, execVars, schedVars, clientVars
<1>2. Removable'
  BY <1>1 DEF ListInv, Removable
<1>3. RemovesOnce'
  <2>1. phase = "drop" /\ todo # <<>> => \E i \in DOMAIN list : IsOnly(i, Head(todo))
    BY DropFinds
  <2>2. CASE ~(phase = "drop" /\ step = "each")
    BY <2>2 DEF Abort, RemovesOnce
  <2>3. CASE phase = "drop" /\ step = "each"
    BY <2>1, <2>3 DEF Abort
  <2> QED
    BY <2>2, <2>3
<1> QED
  BY <1>1, <1>2, <1>3

\* The workers, the client and time.
LEMMA OthersRemovable ==
  ASSUME ListInv,
         (\E w \in Workers : WorkerStep(w)) \/ ClientStep \/ Tick \/ UNCHANGED vars
  PROVE  Listed' /\ Removable' /\ RemovesOnce'
<1>1. CASE (\E w \in Workers : WorkerStep(w)) \/ Tick \/ UNCHANGED vars
  <2>1. UNCHANGED <<list, attached, call, phase, step, todo, found>>
    BY <1>1 DEF WorkerStep, CheckStopped, Get, Look, Dispatch, Entry, Exit, Die,
                HandlerReturns, WakeScheduler, Tick, vars, execVars, schedVars, clientVars
  <2>2. aborted' \in {aborted, "IsStarted"}
    BY <1>1 DEF WorkerStep, CheckStopped, Get, Look, Dispatch, Entry, Exit, Die,
                HandlerReturns, WakeScheduler, Tick, vars
  <2> QED
    BY <2>1, <2>2 DEF ListInv, Listed, Removable, RemovesOnce
<1>2. ASSUME NEW t \in Tasks, Add(t), aborted' = aborted
      PROVE  Listed' /\ Removable' /\ RemovesOnce'
  <2>1. /\ UNCHANGED <<attached, phase, step, found>> /\ call = NoCall
        /\ UNCHANGED todo \/ phase \in {"late", "interrupt"}
        /\ list' = Append(list, t) /\ call' = <<"attach", t>> /\ t \notin attached
        /\ list \in Seq(Tasks)
    BY <1>2 DEF Add, Calls, execVars, schedVars, ListInv, Typed
  <2>2. \A u \in Members(list) : u \in attached
    BY <2>1 DEF ListInv, Listed, NoCall
  <2>3. Once(list') /\ Members(list') = Members(list) \cup {t}
    BY <2>1, <2>2, OnceAppend, MembersAppend DEF ListInv, Listed
  <2> QED
    BY <1>2, <2>1, <2>2, <2>3 DEF ListInv, Listed, Removable, RemovesOnce
<1>3. CASE /\ aborted' = aborted
           /\ Attach \/ CreateSuspended \/ WakeAll \/ TriggerRaise \/ ResumeWake
  <2>1. list' = list /\ (UNCHANGED <<phase, step, todo, found>>
                          \/ /\ phase = "asleep" /\ phase' = "done" /\ step' = "begin"
                             /\ found' = found)
    BY <1>3 DEF Attach, CreateSuspended, WakeAll, TriggerRaise, ResumeWake, Go, schedVars
  <2>2. Removable'
    BY <2>1 DEF ListInv, Removable
  <2>3. \A t \in Members(list) : t \in attached' \/ call' = <<"attach", t>>
    BY <1>3 DEF Attach, CreateSuspended, WakeAll, TriggerRaise, ResumeWake, Raise, execVars,
                ListInv, Listed
  <2> QED
    BY <1>3, <2>1, <2>2, <2>3 DEF ListInv, Listed, RemovesOnce
<1>4. ASSUME NEW t \in Tasks, Trigger(t) \/ Resume(t) \/ Suspend(t) \/ Cancel(t),
             aborted' = aborted
      PROVE  Listed' /\ Removable' /\ RemovesOnce'
  <2>1. /\ UNCHANGED <<list, attached, phase, step, todo, found>>
        /\ call' = call \/ call = NoCall
    BY <1>4 DEF Trigger, Resume, Suspend, Cancel, Calls, execVars, schedVars
  <2> QED
    BY <1>4, <2>1 DEF ListInv, Listed, Removable, RemovesOnce, NoCall
<1> QED
  BY <1>1, <1>2, <1>3, <1>4 DEF ClientStep, ClientGoesOn

LEMMA ListInductive == ListInv /\ [Next]_vars => ListInv'
<1> SUFFICES ASSUME ListInv, [Next]_vars PROVE ListInv'
  OBVIOUS
<1>1. PoolInv' /\ Typed'
  BY PoolInductive, TypedKeeps DEF ListInv, PoolInv, IInv
<1>2. ASSUME UNCHANGED <<attached, call, aborted>>, Once(list'),
             Members(list') \subseteq Members(list)
      PROVE  Listed' /\ RemovesOnce'
  <2>1. \A t \in Members(list) : t \in attached' \/ call' = <<"attach", t>>
    BY <1>2 DEF ListInv, Listed
  <2> QED
    BY <1>2, <2>1 DEF ListInv, Listed, RemovesOnce
<1>3. CASE SchedulerStep
  <2>1. list' = list => Once(list') /\ Members(list') \subseteq Members(list)
    BY DEF ListInv, Listed
  <2>2. CASE Abort
    <3>1. UNCHANGED <<list, attached, call>> /\ Removable' /\ RemovesOnce'
      BY <2>2, AbortRemovable
    <3>2. Listed'
      BY <3>1 DEF ListInv, Listed
    <3> QED
      BY <1>1, <3>1, <3>2 DEF ListInv
  <2>3. CASE Remove
    BY <1>1, <1>2, <2>3, RemoveRemovable DEF ListInv
  <2>4. CASE SchedulerStep /\ ~Abort /\ ~Remove
    <3>1. UNCHANGED <<list, attached, call, aborted>> /\ Removable'
      BY <2>4, LoopsRemovable, TasksRemovable DEF SchedulerStep
    <3> QED
      BY <1>1, <1>2, <2>1, <3>1 DEF ListInv
  <2> QED
    BY <1>3, <2>2, <2>3, <2>4
<1> QED
  BY <1>1, <1>3, OthersRemovable DEF Next, ListInv

\* Every task that RemoveDone has found is in the list, and once: the assertion of
\* ScheduledTasksState::Remove holds whatever the client adds meanwhile.
THEOREM RemovedOnce ==
  Spec => []RemovesOnce
<1>1. Init => ListInv
  BY PoolInitially, TypedInitially, ListedInitially DEF ListInv
<1>2. ListInv => RemovesOnce
  BY DEF ListInv
<1> QED
  BY <1>1, <1>2, ListInductive, PTL DEF Spec

-----------------------------------------------------------------------------
(* A pool whose tasks only the scheduler triggers.                         *)

\* The client only schedules tasks.  These may throw, and be late and interrupted.
OnlyScheduled == Ops \subseteq {"Add", "Throw", "Fail", "Late", "Idle"}

OnlySchedules == call[1] \in {"none", "attach", "wake"}

IsDue(s, p) == IsReadyToExecute([s EXCEPT !.state = "NO"], p)

\* A task that is marked STARTING is due until it begins.
Marked ==
  \A t \in Tasks : /\ status[t].state = "STARTING" => IsDue(status[t], Policy[t])
                  /\ status[t].age <= MaxAge

\* A handler begins with a task that is marked STARTING and triggered, unless its future
\* is locked for good, and runs one that is STARTED or interrupted.
Handled ==
  \A w \in Workers :
    /\ place[w] = "entry" /\ hand[w] \notin leaked
         => status[hand[w]].state = "STARTING" /\ ~Pending(hand[w])
    /\ place[w] = "running" => status[hand[w]].state \in {"STARTED", "INTERRUPTED"}

\* A trigger is set for a task that is marked STARTING, until its handler has returned,
\* and for good when that has died.
Triggers ==
  \A t \in Tasks : trigger[t] =>
    \/ status[t].state = "STARTING" /\ ~Pending(t)
    \/ \E w \in Workers : hand[w] = t /\ place[w] \in {"running", "return"}
    \/ t \in leaked

\* triggerTask is at a task that does not execute, and nobody else makes it; when it is
\* found ready it stays due.
Checked ==
  /\ phase \in {"ready", "unready", "starting", "set"} => ~IsExecuting(Status)
  /\ phase \in {"starting", "set"} => IsDue(Status, Pol)
  /\ phase = "raise" => Status.state = "STARTING"

ScheduledInv == ListInv /\ OnlySchedules /\ Marked /\ Handled /\ Triggers /\ Checked

\* Whether a task is due depends on its counts, its age, and whether it has failed.
LEMMA DueMeans ==
  ASSUME NEW s \in StatusType, NEW p \in PolicyType
  PROVE  IsDue(s, p) <=>
           /\ \/ p.kind = "FOREVER"
              \/ p.kind = "NUM_SUCCESSFUL_TIMES" /\ s.successes < p.min /\ s.attempts < p.max
              \/ p.kind = "UNTIL_SUCCESS" /\ s.successes = 0 /\ s.attempts < p.max
           /\ \/ s.attempts = 0 /\ s.age >= p.initial
              \/ s.age >= p.period
              \/ s.failed /\ s.attempts = 0 /\ s.age >= p.retryInitial
              \/ s.failed /\ s.age >= p.retryPeriod
<1> DEFINE n == [s EXCEPT !.state = "NO"]
<1>1. /\ n.state = "NO" /\ n.attempts = s.attempts /\ n.successes = s.successes
      /\ n.failed = s.failed /\ n.age = s.age
  BY DEF StatusType
<1> HIDE DEF n
<1>2. IsDue(s, p) <=> IsReadyToExecute(n, p)
  BY DEF IsDue, n
<1> QED
  BY <1>1, <1>2 DEF IsReadyToExecute, IsInAttempt, IsInInterval, IsInRetryInterval

\* A task that is ready is due.
LEMMA ReadyIsDue ==
  ASSUME NEW s \in StatusType, NEW p \in PolicyType, IsReadyToExecute(s, p)
  PROVE  IsDue(s, p)
BY DueMeans DEF IsReadyToExecute, IsInAttempt, IsInInterval, IsInRetryInterval

\* And stays so with age, and when it is marked.
LEMMA AgeKeepsDue ==
  ASSUME NEW s \in StatusType, NEW p \in PolicyType,
         NEW r, r = [s EXCEPT !.age = Lesser(s.age + 1, MaxAge)] \/ r = s, s.age <= MaxAge
  PROVE  /\ r \in StatusType /\ r.state = s.state /\ r.attempts = s.attempts
         /\ r.successes = s.successes /\ r.failed = s.failed
         /\ s.age <= r.age /\ r.age <= MaxAge
         /\ IsDue(s, p) => IsDue(r, p)
<1> DEFINE n == Lesser(s.age + 1, MaxAge)
<1>1. n \in Nat /\ s.age <= n /\ n <= MaxAge /\ s.age \in Nat
  BY PoolAssumption DEF Lesser, StatusType
<1> HIDE DEF n
<1>2. /\ r.state = s.state /\ r.attempts = s.attempts /\ r.successes = s.successes
      /\ r.failed = s.failed /\ s.age <= r.age /\ r.age <= MaxAge /\ r.age \in Nat
      /\ r \in StatusType
  BY <1>1 DEF StatusType, n
<1>3. {p.initial, p.period, p.retryInitial, p.retryPeriod} \subseteq Nat
  BY InfiniteAssumption DEF PolicyType, Durations
<1>4. \A d \in Nat : s.age >= d => r.age >= d
  BY <1>1, <1>2
<1>5. IsDue(s, p) => IsDue(r, p)
  BY <1>2, <1>3, <1>4, DueMeans
<1> QED
  BY <1>2, <1>5

LEMMA MarkKeepsDue ==
  ASSUME NEW s \in StatusType, NEW p \in PolicyType, IsDue(s, p),
         NEW r, r = [s EXCEPT !.state = "STARTING"]
  PROVE  /\ r \in StatusType /\ r.state = "STARTING" /\ r.attempts = s.attempts
         /\ r.successes = s.successes /\ r.failed = s.failed /\ r.age = s.age
         /\ IsDue(r, p)
<1>1. /\ r.state = "STARTING" /\ r.attempts = s.attempts /\ r.successes = s.successes
      /\ r.failed = s.failed /\ r.age = s.age /\ r \in StatusType
  BY DEF StatusType, States
<1> QED
  BY <1>1, DueMeans

Begun(s, p) == [Start(s) EXCEPT !.attempts = Lesser(@, p.max + 1)]
Succeeded(s, p) == [Success(s) EXCEPT !.successes = Lesser(@, p.min)]
Older(s) == [s EXCEPT !.age = Lesser(s.age + 1, MaxAge)]

LEMMA ScheduledTypes ==
  ASSUME ScheduledInv
  PROVE  /\ Held /\ Typed /\ OneHandler /\ Faults /\ HasTask /\ todo \in Seq(Tasks)
         /\ \A t \in Tasks : /\ status[t] \in StatusType /\ Policy[t] \in PolicyType
                             /\ status[t].age <= MaxAge
         /\ \A w \in Workers : hand[w] # None => hand[w] \in Tasks
         /\ \A w \in Workers : Handling(w) => hand[w] \in Tasks
         /\ todo # <<>> => /\ Head(todo) \in Tasks /\ Status \in StatusType
                           /\ Pol \in PolicyType
<1>1. Held /\ Typed /\ OneHandler /\ Faults /\ HasTask /\ todo \in Seq(Tasks)
  BY DEF ScheduledInv, ListInv, PoolInv, IInv, Typed
<1>2. \A t \in Tasks : /\ status[t] \in StatusType /\ Policy[t] \in PolicyType
                       /\ status[t].age <= MaxAge
  BY <1>1, PoolAssumption DEF Held, ScheduledInv, Marked
<1>3. \A w \in Workers : (hand[w] # None => hand[w] \in Tasks)
                         /\ (Handling(w) => hand[w] \in Tasks)
  BY <1>1 DEF Held, Handling
<1>4. todo # <<>> => Head(todo) \in Tasks
  BY <1>1, AtTask
<1> QED
  BY <1>1, <1>2, <1>3, <1>4 DEF Status, Pol

\* What the workers, the client and time do to a status.
LEMMA StatusSteps ==
  ASSUME OnlyScheduled, ScheduledInv, NEW t \in Tasks,
         (\E w \in Workers : WorkerStep(w)) \/ ClientStep \/ Tick \/ UNCHANGED vars
  PROVE  \/ status'[t] = status[t]
         \/ status'[t] = Older(status[t])
         \/ \E w \in Workers :
              /\ Entry(w) /\ hand[w] = t /\ status'[t] = Begun(status[t], Policy[t])
              /\ status[t].state = "STARTING" /\ ~Pending(t)
         \/ \E w \in Workers :
              /\ Exit(w) /\ hand[w] = t /\ status[t].state \in {"STARTED", "INTERRUPTED"}
              /\ \/ status'[t] = Succeeded(status[t], Policy[t])
                 \/ /\ status'[t] = Failure(status[t], "FAILURE")
                    /\ w \in flagged \/ "Throw" \in Ops \/ "Fail" \in Ops
<1>0. Held
  BY ScheduledTypes
<1>1. CASE UNCHANGED vars
  BY <1>1 DEF vars
<1>2. CASE Tick
  BY <1>2 DEF Tick, Older
<1>3. CASE ClientStep
  <2>1. \A u \in Tasks : ~(Trigger(u) \/ Resume(u) \/ Suspend(u) \/ Cancel(u))
    BY DEF Trigger, Resume, Suspend, Cancel, Calls, OnlyScheduled
  <2>2. ~(CreateSuspended \/ TriggerRaise \/ ResumeWake)
    BY DEF CreateSuspended, TriggerRaise, ResumeWake, ScheduledInv, OnlySchedules
  <2>3. Attach \/ WakeAll \/ \E u \in Tasks : Add(u)
    BY <1>3, <2>1, <2>2 DEF ClientStep, ClientGoesOn
  <2> QED
    BY <2>3 DEF Attach, WakeAll, Add
<1>4. ASSUME NEW w \in Workers, WorkerStep(w), status' # status
      PROVE  Entry(w) \/ Exit(w)
  BY <1>4 DEF WorkerStep, CheckStopped, Die, Get, Look, Dispatch, HandlerReturns, WakeScheduler
<1>5. ASSUME NEW w \in Workers, WorkerStep(w), Entry(w)
      PROVE  \/ status'[t] = status[t]
             \/ /\ hand[w] = t /\ status'[t] = Begun(status[t], Policy[t])
                /\ status[t].state = "STARTING" /\ ~Pending(t)
  <2>1. status' = [status EXCEPT ![hand[w]] = Begun(status[hand[w]], Policy[hand[w]])]
    BY <1>5, Zenon DEF Entry, Begun
  <2>2. place[w] = "entry" /\ hand[w] \notin leaked
    BY <1>5 DEF Entry, At
  <2> QED
    BY <1>0, <2>1, <2>2 DEF Held, ScheduledInv, Handled
<1>6. ASSUME NEW w \in Workers, WorkerStep(w), Exit(w)
      PROVE  \/ status'[t] = status[t]
             \/ /\ hand[w] = t /\ status[t].state \in {"STARTED", "INTERRUPTED"}
                /\ \/ status'[t] = Succeeded(status[t], Policy[t])
                   \/ /\ status'[t] = Failure(status[t], "FAILURE")
                      /\ w \in flagged \/ "Throw" \in Ops \/ "Fail" \in Ops
  <2>1. place[w] = "running"
    BY <1>6 DEF Exit, At
  <2>2. \/ status' = [status EXCEPT ![hand[w]] = Succeeded(status[hand[w]], Policy[hand[w]])]
        \/ /\ status' = [status EXCEPT ![hand[w]] = Failure(status[hand[w]], "FAILURE")]
           /\ w \in flagged \/ "Throw" \in Ops \/ "Fail" \in Ops
    BY <1>6, Zenon DEF Exit, Succeeded
  <2> QED
    BY <1>0, <2>1, <2>2 DEF Held, ScheduledInv, Handled
<1> QED
  BY <1>1, <1>2, <1>3, <1>4, <1>5, <1>6

LEMMA BegunIs ==
  ASSUME NEW s \in StatusType, NEW p \in PolicyType
  PROVE  /\ Begun(s, p).state = "STARTED" /\ Begun(s, p).age = 0
         /\ Begun(s, p).failed = s.failed /\ Begun(s, p).attempts > 0
<1> DEFINE n == Lesser(Start(s).attempts, p.max + 1)
<1>1. /\ Start(s) \in StatusType /\ Start(s).state = "STARTED" /\ Start(s).age = 0
      /\ Start(s).failed = s.failed /\ Start(s).attempts = s.attempts + 1
  BY StatusTypes DEF Start, StatusType
<1>2. n \in Nat /\ n > 0
  BY <1>1 DEF Lesser, StatusType, PolicyType
<1>3. Begun(s, p) = [Start(s) EXCEPT !.attempts = n]
  BY DEF Begun
<1> HIDE DEF n
<1> QED
  BY <1>1, <1>2, <1>3 DEF StatusType

LEMMA EndedIs ==
  ASSUME NEW s \in StatusType, NEW p \in PolicyType,
         NEW r, r = Succeeded(s, p) \/ r = Failure(s, "FAILURE")
  PROVE  /\ r.state \in {"STOPPED", "FAILURE"} /\ r.age = s.age /\ r.attempts = s.attempts
         /\ r = Succeeded(s, p) => r.state = "STOPPED" /\ ~r.failed
<1>1. /\ Success(s) \in StatusType /\ Success(s).state = "STOPPED" /\ Success(s).age = s.age
      /\ ~Success(s).failed /\ Success(s).attempts = s.attempts
  BY StatusTypes DEF Success, StatusType
<1> DEFINE n == Lesser(Success(s).successes, p.min)
<1>2. Succeeded(s, p) = [Success(s) EXCEPT !.successes = n]
  BY DEF Succeeded
<1> HIDE DEF n
<1>3. LET q == Succeeded(s, p) IN
        q.state = "STOPPED" /\ ~q.failed /\ q.age = s.age /\ q.attempts = s.attempts
  BY <1>1, <1>2 DEF StatusType
<1>4. LET q == Failure(s, "FAILURE") IN
        q.state = "FAILURE" /\ q.age = s.age /\ q.attempts = s.attempts
  BY DEF Failure, StatusType
<1> QED
  BY <1>3, <1>4

\* They make no task executing, they leave one due that is, and one that the scheduler is
\* about to trigger STARTING.
LEMMA OthersLeave ==
  ASSUME OnlyScheduled, ScheduledInv, NEW t \in Tasks,
         (\E w \in Workers : WorkerStep(w)) \/ ClientStep \/ Tick \/ UNCHANGED vars
  PROVE  /\ status'[t].age <= MaxAge
         /\ ~IsExecuting(status[t]) =>
              /\ ~IsExecuting(status'[t])
              /\ IsDue(status[t], Policy[t]) => IsDue(status'[t], Policy[t])
         /\ status'[t].state = "STARTING" => IsDue(status'[t], Policy[t])
         /\ status[t].state = "STARTING" /\ Pending(t) => status'[t].state = "STARTING"
<1>0. /\ status[t] \in StatusType /\ Policy[t] \in PolicyType /\ status[t].age <= MaxAge
      /\ status[t].state = "STARTING" => IsDue(status[t], Policy[t])
  BY ScheduledTypes DEF ScheduledInv, Marked
<1>1. CASE status'[t] = status[t]
  BY <1>0, <1>1
<1>2. CASE status'[t] = Older(status[t])
  BY <1>0, <1>2, AgeKeepsDue DEF Older, IsExecuting
<1>3. CASE /\ status'[t] = Begun(status[t], Policy[t])
           /\ status[t].state = "STARTING" /\ ~Pending(t)
  BY <1>0, <1>3, BegunIs, PoolAssumption DEF IsExecuting
<1>4. CASE /\ status[t].state \in {"STARTED", "INTERRUPTED"}
           /\ \/ status'[t] = Succeeded(status[t], Policy[t])
              \/ status'[t] = Failure(status[t], "FAILURE")
  BY <1>0, <1>4, EndedIs DEF IsExecuting
<1> QED
  BY <1>1, <1>2, <1>3, <1>4, StatusSteps

\* The client only schedules, and the scheduler stays where it is, or is woken up.
LEMMA ClientSchedules ==
  ASSUME OnlyScheduled, ScheduledInv, ClientStep
  PROVE  /\ UNCHANGED <<status, trigger, place, hand, faultVars, aborted>>
         /\ OnlySchedules'
         /\ \/ /\ UNCHANGED <<phase, step, next>>
               /\ todo # <<>> => Head(todo') = Head(todo)
            \/ phase = "asleep" /\ phase' = "done" /\ step' = "begin"
<1> DEFINE Goal ==
      /\ UNCHANGED <<status, trigger, place, hand, faultVars, aborted>>
      /\ OnlySchedules'
      /\ \/ /\ UNCHANGED <<phase, step, next>>
            /\ todo # <<>> => Head(todo') = Head(todo)
         \/ phase = "asleep" /\ phase' = "done" /\ step' = "begin"
<1>1. \A u \in Tasks : ~(Trigger(u) \/ Resume(u) \/ Suspend(u) \/ Cancel(u))
  BY DEF Trigger, Resume, Suspend, Cancel, Calls, OnlyScheduled
<1>2. ~(CreateSuspended \/ TriggerRaise \/ ResumeWake)
  BY DEF CreateSuspended, TriggerRaise, ResumeWake, ScheduledInv, OnlySchedules
<1>3. UNCHANGED <<flagged, place, hand, leaked, jammed, aborted>>
  BY <1>1 DEF ClientStep
<1>4. ASSUME NEW t \in Tasks, Add(t) PROVE Goal
  <2>1. /\ UNCHANGED <<status, trigger, phase, step, next>> /\ call' = <<"attach", t>>
        /\ todo' = todo \/ (todo # <<>> /\ todo' = Append(todo, t))
    BY <1>4 DEF Add, execVars
  <2>2. todo # <<>> => Head(todo') = Head(todo)
    <3>1. todo \in Seq(Tasks)
      BY ScheduledTypes
    <3>2. todo # <<>> => Head(Append(todo, t)) = Head(todo)
      BY <3>1
    <3> QED
      BY <2>1, <3>2
  <2> QED
    BY <1>3, <2>1, <2>2 DEF faultVars, OnlySchedules
<1>5. CASE Attach
  BY <1>3, <1>5 DEF Attach, schedVars, faultVars, OnlySchedules, OnlyScheduled
<1>6. CASE WakeAll
  BY <1>3, <1>6 DEF WakeAll, Go, execVars, faultVars, OnlySchedules, NoCall
<1> QED
  BY <1>1, <1>2, <1>4, <1>5, <1>6 DEF ClientStep, ClientGoesOn

\* The scheduler stays at its task while the workers and the client go on.
LEMMA OthersStay ==
  ASSUME OnlyScheduled, ScheduledInv,
         (\E w \in Workers : WorkerStep(w)) \/ ClientStep \/ Tick \/ UNCHANGED vars
  PROVE  /\ OnlySchedules'
         /\ \/ /\ UNCHANGED <<phase, step, next>>
               /\ todo # <<>> => Head(todo') = Head(todo)
            \/ phase = "asleep" /\ phase' = "done" /\ step' = "begin"
<1>1. CASE ClientStep
  BY <1>1, ClientSchedules
<1>2. CASE (\E w \in Workers : WorkerStep(w)) \/ Tick \/ UNCHANGED vars
  <2>1. UNCHANGED <<call, phase, step, todo, next>>
    BY <1>2 DEF WorkerStep, Tick, vars, schedVars, clientVars
  <2> QED
    BY <2>1 DEF ScheduledInv, OnlySchedules
<1> QED
  BY <1>1, <1>2

LEMMA OthersChecked ==
  ASSUME OnlyScheduled, ScheduledInv,
         (\E w \in Workers : WorkerStep(w)) \/ ClientStep \/ Tick \/ UNCHANGED vars
  PROVE  Marked' /\ Checked' /\ OnlySchedules'
<1>1. OnlySchedules'
  BY OthersStay
<1>2. Marked'
  <2>1. \A t \in Tasks : /\ status'[t].age <= MaxAge
                         /\ status'[t].state = "STARTING" => IsDue(status'[t], Policy[t])
    BY OthersLeave
  <2> QED
    BY <2>1 DEF Marked
<1>3. Checked'
  <2>1. CASE phase' \notin {"ready", "unready", "starting", "set", "raise"}
    BY <2>1 DEF Checked
  <2>2. CASE phase' \in {"ready", "unready", "starting", "set", "raise"}
    <3>1. phase' = phase /\ todo # <<>> /\ Head(todo') = Head(todo)
      BY <2>2, OthersStay, ScheduledTypes DEF HasTask
    <3>2. PICK t \in Tasks : t = Head(todo)
      BY <3>1, ScheduledTypes
    <3>3. Status = status[t] /\ Pol = Policy[t] /\ Status' = status'[t] /\ Pol' = Policy[t]
      BY <3>1, <3>2 DEF Status, Pol
    <3>4. phase = "raise" => Pending(t)
      BY <3>2 DEF Pending
    <3> QED
      BY <3>1, <3>3, <3>4, OthersLeave DEF ScheduledInv, Checked
  <2> QED
    BY <2>1, <2>2
<1> QED
  BY <1>1, <1>2, <1>3

-----------------------------------------------------------------------------
(* The handlers of such a pool.                                            *)

\* Steps that change no state and no trigger, and where no handler begins or ends.
LEMMA CalmHandled ==
  ASSUME ScheduledInv, UNCHANGED <<trigger, leaked>>,
         \A t \in Tasks : status'[t].state = status[t].state,
         \A t \in Tasks : Pending(t)' <=> Pending(t),
         \A w \in Workers : /\ Handling(w)' <=> Handling(w)
                            /\ Handling(w) => place'[w] = place[w] /\ hand'[w] = hand[w]
  PROVE  Handled' /\ Triggers'
<1>1. \A w \in Workers : Handling(w) => hand[w] \in Tasks
  BY ScheduledTypes
<1>2. Handled'
  BY <1>1 DEF ScheduledInv, Handled, Handling
<1>3. Triggers'
  BY DEF ScheduledInv, Triggers, Handling
<1> QED
  BY <1>2, <1>3

\* A worker between two handlers, the client, and time.
LEMMA BetweenHandled ==
  ASSUME OnlyScheduled, ScheduledInv,
         \/ ClientStep \/ Tick \/ UNCHANGED vars
         \/ \E w \in Workers :
              /\ WorkerStep(w)
              /\ \/ CheckStopped(w) \/ Get(w) \/ Look(w) \/ WakeScheduler(w)
                 \/ Dispatch(w) /\ ~trigger[hand[w]]
  PROVE  Handled' /\ Triggers'
<1>0. Held
  BY ScheduledTypes
<1>1. \A t \in Tasks : Pending(t)' <=> Pending(t)
  <2>1. /\ OnlySchedules'
        /\ \/ phase' = phase /\ (todo # <<>> => Head(todo') = Head(todo))
           \/ phase = "asleep" /\ phase' = "done"
    BY OthersStay
  <2>2. phase = "raise" => todo # <<>>
    BY ScheduledTypes DEF HasTask
  <2> QED
    BY <2>1, <2>2 DEF Pending, ScheduledInv, OnlySchedules
<1>2. CASE ClientStep
  BY <1>1, <1>2, ClientSchedules, CalmHandled DEF Handling, faultVars
<1>3. CASE UNCHANGED vars
  BY <1>1, <1>3, CalmHandled DEF vars, execVars, workerVars, faultVars, Handling
<1>4. CASE Tick
  <2>1. UNCHANGED <<trigger, leaked, place, hand>>
    BY <1>4 DEF Tick, execVars, workerVars, faultVars
  <2>2. \A t \in Tasks : status'[t].state = status[t].state
    <3>1. \A t \in Tasks : status'[t] = status[t] \/ status'[t] = Older(status[t])
      BY <1>4 DEF Tick, Older
    <3>2. \A t \in Tasks : status[t] \in StatusType /\ Policy[t] \in PolicyType
                           /\ status[t].age <= MaxAge
      BY ScheduledTypes
    <3>3. \A t \in Tasks : Older(status[t]).state = status[t].state
      BY <3>2, AgeKeepsDue DEF Older
    <3> QED
      BY <3>1, <3>3
  <2> QED
    BY <1>1, <2>1, <2>2, CalmHandled DEF Handling
<1>5. ASSUME NEW w \in Workers, WorkerStep(w),
             \/ CheckStopped(w) \/ Get(w) \/ Look(w) \/ WakeScheduler(w)
             \/ Dispatch(w) /\ ~trigger[hand[w]]
      PROVE  Handled' /\ Triggers'
  <2>1. UNCHANGED <<status, trigger, leaked>>
    BY <1>5 DEF WorkerStep, CheckStopped, Get, Look, WakeScheduler, Dispatch, Exit, Die, At,
      execVars, faultVars
  <2>2. ~Handling(w)' /\ ~Handling(w)
    BY <1>0, <1>5 DEF CheckStopped, Get, Look, WakeScheduler, Dispatch, At, Held, Handling
  <2>3. \A v \in Workers : v # w => place'[v] = place[v] /\ hand'[v] = hand[v]
    BY <1>0, <1>5, WorkerMoves
  <2> QED
    BY <1>1, <2>1, <2>2, <2>3, CalmHandled DEF Handling
<1> QED
  BY <1>2, <1>3, <1>4, <1>5

\* A worker with a handler.
LEMMA HandlingHandled ==
  ASSUME OnlyScheduled, ScheduledInv, NEW w \in Workers, WorkerStep(w),
         \/ Dispatch(w) /\ trigger[hand[w]]
         \/ Entry(w) \/ Exit(w) \/ Die(w) \/ HandlerReturns(w)
  PROVE  Handled' /\ Triggers'
<1>0. /\ Held /\ OneHandler
      /\ \A v \in Workers : Handling(v) => hand[v] \in Tasks
      /\ \A v \in Workers : hand[v] # None => hand[v] \in Tasks
  BY ScheduledTypes
<1>1. \A u : Pending(u)' <=> Pending(u)
  BY DEF WorkerStep, schedVars, clientVars, Pending
<1>2. \A v \in Workers : v # w => place'[v] = place[v] /\ hand'[v] = hand[v]
  BY <1>0, WorkerMoves
<1>3. CASE Dispatch(w) /\ trigger[hand[w]]
  <2>1. /\ UNCHANGED <<status, trigger, hand, leaked>> /\ Free(hand[w])
        /\ place[w] = "ready" /\ place'[w] = "entry"
    BY <1>0, <1>3 DEF WorkerStep, Dispatch, CheckStopped, Exit, Die, At, execVars, faultVars, Held
  <2>2. PICK t \in Tasks : t = hand[w]
    BY <1>0, <2>1 DEF Held
  <2>3. t \in leaked \/ (status[t].state = "STARTING" /\ ~Pending(t))
    BY <1>3, <2>1, <2>2 DEF ScheduledInv, Triggers, Free
  <2>4. Handled'
    BY <1>1, <1>2, <2>1, <2>2, <2>3 DEF ScheduledInv, Handled
  <2>5. Triggers'
    BY <1>1, <1>2, <2>1 DEF ScheduledInv, Triggers
  <2> QED
    BY <2>4, <2>5
<1>4. CASE Entry(w) \/ Exit(w)
  <2>1. PICK t \in Tasks : t = hand[w]
    BY <1>0, <1>4 DEF Entry, Exit, At, Handling
  <2>2. \/ place[w] = "entry" /\ place'[w] = "running" /\ Entry(w)
        \/ place[w] = "running" /\ place'[w] = "return" /\ Exit(w)
    BY <1>0, <1>4 DEF Entry, Exit, At, Held
  <2>3. UNCHANGED <<trigger, hand, leaked>>
    BY <1>4, <2>2 DEF WorkerStep, Entry, Exit, CheckStopped, Die, At, execVars, faultVars
  <2>4. \A u \in Tasks : u # t => status'[u] = status[u]
    <3>1. \E r : status' = [status EXCEPT ![t] = r]
      BY <1>4, <2>1, Zenon DEF Entry, Exit
    <3> QED
      BY <1>0, <3>1 DEF Held
  <2>5. Entry(w) => status'[t].state = "STARTED"
    <3>1. Entry(w) => status' = [status EXCEPT ![t] = Begun(status[t], Policy[t])]
      BY <2>1, Zenon DEF Entry, Begun
    <3>2. Begun(status[t], Policy[t]).state = "STARTED"
      BY BegunIs, ScheduledTypes
    <3> QED
      BY <1>0, <3>1, <3>2 DEF Held
  <2>6. \A v \in Workers : v # w /\ Handling(v) => hand[v] # t /\ hand[v] \in Tasks
    BY <1>0, <2>1, <2>2 DEF OneHandler, Handling
  <2>7. Handled'
    BY <1>1, <1>2, <2>1, <2>2, <2>3, <2>4, <2>5, <2>6 DEF ScheduledInv, Handled, Handling
  <2>8. Triggers'
    BY <1>1, <1>2, <2>1, <2>2, <2>3, <2>4 DEF ScheduledInv, Triggers
  <2> QED
    BY <2>7, <2>8
<1>5. CASE Die(w)
  <2>1. /\ UNCHANGED <<status, trigger>> /\ leaked' = leaked \cup {hand[w]}
        /\ place[w] = "running" /\ place'[w] = "none"
    BY <1>0, <1>5 DEF Die, At, execVars, Held
  <2>2. Handled'
    BY <1>0, <1>1, <1>2, <2>1 DEF ScheduledInv, Handled, Handling
  <2>3. Triggers'
    BY <1>0, <1>1, <1>2, <2>1 DEF ScheduledInv, Triggers
  <2> QED
    BY <2>2, <2>3
<1>6. CASE HandlerReturns(w)
  <2>1. /\ UNCHANGED <<status, leaked>> /\ trigger' = [trigger EXCEPT ![hand[w]] = FALSE]
        /\ place[w] = "return" /\ place'[w] = "guard"
    BY <1>0, <1>6 DEF WorkerStep, HandlerReturns, CheckStopped, Exit, Die, At, faultVars, Held
  <2>2. \A u \in Tasks : trigger'[u] => trigger[u] /\ u # hand[w]
    BY <1>0, <2>1 DEF Held
  <2>3. Handled'
    BY <1>0, <1>1, <1>2, <2>1 DEF ScheduledInv, Handled, Handling
  <2>4. Triggers'
    BY <1>0, <1>1, <1>2, <2>1, <2>2 DEF ScheduledInv, Triggers
  <2> QED
    BY <2>3, <2>4
<1> QED
  BY <1>3, <1>4, <1>5, <1>6


-----------------------------------------------------------------------------
(* The scheduler of such a pool.                                           *)

LEMMA ScheduledInitially ==
  ASSUME Init
  PROVE  ScheduledInv
<1>1. ListInv
  BY PoolInitially, TypedInitially, ListedInitially DEF ListInv
<1>2. Marked
  BY PoolAssumption DEF Init, Marked, Fresh
<1>3. Handled /\ Triggers /\ Checked /\ OnlySchedules
  BY DEF Init, Handled, Triggers, Checked, OnlySchedules, NoCall
<1> QED
  BY <1>1, <1>2, <1>3 DEF ScheduledInv

\* Its loops, its reads and its assertions.
Reads ==
  \/ StartWorkers \/ StopIdleWorkers \/ KeepWorkers \/ Begin \/ Visit \/ EndLoop \/ Evaluate
  \/ AssertFound \/ Abort \/ Unready \/ Wait \/ WakeUp \/ Lapsed \/ Remove

LEMMA ReadsLeave ==
  ASSUME Reads
  PROVE  /\ UNCHANGED <<status, trigger, leaked, call>>
         /\ UNCHANGED <<phase, todo>> \/ (phase # "raise" /\ phase' # "raise")
<1>1. CASE StartWorkers \/ StopIdleWorkers \/ KeepWorkers
  BY <1>1 DEF StartWorkers, StopIdleWorkers, KeepWorkers, Go, execVars, workerVars, faultVars,
              clientVars
<1>2. CASE Begin \/ Visit \/ EndLoop
  BY <1>2 DEF Begin, Visit, EndLoop, Go, execVars, workerVars, faultVars, clientVars
<1>3. CASE Evaluate
  <2>1. UNCHANGED <<status, trigger, leaked, call>>
    BY <1>3 DEF Evaluate, execVars, workerVars, faultVars, clientVars
  <2>2. (\E v \in Nat : Return(v)) \/ (\E st : Then(st))
        => UNCHANGED <<phase, todo>> \/ (phase # "raise" /\ phase' # "raise")
    <3>1. ASSUME NEW v, Return(v) PROVE phase # "raise" /\ phase' # "raise"
      BY <3>1 DEF Return, Go
    <3> QED
      BY <3>1 DEF Then
  <2>3. CASE ReadAttempt \/ ReadFree \/ ReadNext \/ ReadExecuting \/ ReadRetry
    BY <2>1, <2>2, <2>3 DEF ReadAttempt, ReadFree, ReadNext, ReadExecuting, ReadRetry
  <2>4. ASSUME NEW v, Return(v) PROVE phase # "raise" /\ phase' # "raise"
    BY <2>4 DEF Return, Go
  <2>5. CASE ReadTimeout \/ AssertReady
    BY <2>1, <2>2, <2>4, <2>5 DEF ReadTimeout, AssertReady
  <2> QED
    BY <1>3, <2>3, <2>5 DEF Evaluate
<1>4. CASE AssertFound \/ Abort \/ Unready
  BY <1>4 DEF AssertFound, Abort, Unready, Go, execVars, schedVars, workerVars, faultVars,
              clientVars
<1>5. CASE Wait \/ WakeUp \/ Lapsed \/ Remove
  BY <1>5 DEF Wait, WakeUp, Lapsed, Remove, Go, execVars, workerVars, faultVars, clientVars
<1> QED
  BY <1>1, <1>2, <1>3, <1>4, <1>5 DEF Reads

\* A task that triggerTask asks about is found ready only when it is due.
LEMMA ReadsChecked ==
  ASSUME ScheduledInv, Reads
  PROVE  Checked'
<1>0. UNCHANGED status
  BY ReadsLeave
<1>1. ASSUME phase' \notin {"ready", "unready", "starting", "set", "raise"} PROVE Checked'
  BY <1>1 DEF Checked
<1>2. ASSUME UNCHANGED todo, phase' \in {"ready", "unready"}, ~IsExecuting(Status) PROVE Checked'
  BY <1>0, <1>2 DEF Checked, Status
<1>3. ASSUME UNCHANGED todo, phase' \in {"starting", "set"}, ~IsExecuting(Status),
             IsDue(Status, Pol)
      PROVE  Checked'
  BY <1>0, <1>3 DEF Checked, Status, Pol
<1>4. ASSUME UNCHANGED <<phase, todo>> PROVE Checked'
  BY <1>0, <1>4 DEF ScheduledInv, Checked, Status, Pol
<1>5. ASSUME todo # <<>>, IsReadyToExecute(Status, Pol) PROVE IsDue(Status, Pol)
  BY <1>5, ReadyIsDue, ScheduledTypes
<1>6. CASE Visit
  <2>1. todo # <<>>
    BY <1>6 DEF Visit
  <2>2. \/ phase' \notin {"ready", "unready", "starting", "set", "raise"}
        \/ UNCHANGED <<phase, todo>>
        \/ phase = "trigger" /\ ~IsExecuting(Status) /\ phase' = "ready" /\ UNCHANGED todo
        \/ phase = "starting" /\ phase' = "set" /\ UNCHANGED todo
    BY <1>6 DEF Visit, Go, Status, Pol
  <2> QED
    BY <1>1, <1>2, <1>3, <1>4, <2>2 DEF ScheduledInv, Checked
<1>7. CASE Unready
  <2>1. todo # <<>> /\ phase = "unready"
    BY <1>7, ScheduledTypes DEF Unready, HasTask
  <2>2. \/ phase' = "trigger"
        \/ /\ phase' = "starting" /\ UNCHANGED todo
           /\ ~IsExecuting(Status) /\ IsReadyToExecute(Status, Pol)
    BY <1>7 DEF Unready, Go
  <2> QED
    BY <1>1, <1>3, <1>5, <2>1, <2>2
<1>8. CASE Evaluate
  <2>1. todo # <<>>
    BY <1>8, ScheduledTypes
       DEF Evaluate, ReadAttempt, ReadFree, ReadNext, ReadExecuting, ReadRetry, ReadTimeout,
           AssertReady, HasTask
  <2>2. ASSUME NEW v, Return(v), v = 0 /\ phase = "ready" => IsReadyToExecute(Status, Pol)
        PROVE  Checked'
    <3>1. \/ phase' \notin {"ready", "unready", "starting", "set", "raise"}
          \/ phase = "ready" /\ phase' = "unready" /\ UNCHANGED todo
          \/ phase = "ready" /\ phase' = "starting" /\ UNCHANGED todo /\ v = 0
      <4>1. CASE phase = "ready"
        BY <2>2, <4>1 DEF Return, Go
      <4>2. CASE phase # "ready"
        BY <2>2, <4>2 DEF Return, Go
      <4> QED
        BY <4>1, <4>2
    <3> QED
      BY <1>1, <1>2, <1>3, <1>5, <2>1, <2>2, <3>1 DEF ScheduledInv, Checked
  <2>3. ASSUME NEW st, Then(st) PROVE Checked'
    BY <1>4, <2>3 DEF Then
  <2>4. CASE ReadAttempt \/ ReadFree \/ ReadNext \/ ReadExecuting \/ ReadRetry
    BY <2>3, <2>4 DEF ReadAttempt, ReadFree, ReadNext, ReadExecuting, ReadRetry
  <2>5. CASE ReadTimeout
    <3>1. CASE UntilTimeout(Status, Pol) = 0 \/ next = 0
      BY <2>3, <2>5, <3>1 DEF ReadTimeout
    <3>2. CASE UntilTimeout(Status, Pol) # 0 /\ next # 0
      <4>1. Return(Lesser(next, UntilTimeout(Status, Pol)))
        BY <2>5, <3>2 DEF ReadTimeout
      <4>2. Lesser(next, UntilTimeout(Status, Pol)) # 0
        BY <3>2 DEF Lesser
      <4> QED
        BY <2>2, <4>1, <4>2
    <3> QED
      BY <3>1, <3>2
  <2>6. CASE AssertReady
    <3>1. Return(0) /\ (IsExecuting(Status) \/ IsReadyToExecute(Status, Pol))
      BY <2>6 DEF AssertReady
    <3> QED
      BY <2>2, <3>1 DEF ScheduledInv, Checked
  <2> QED
    BY <1>8, <2>4, <2>5, <2>6 DEF Evaluate
<1>9. CASE StartWorkers \/ StopIdleWorkers \/ KeepWorkers \/ Begin \/ EndLoop
  BY <1>1, <1>9 DEF StartWorkers, StopIdleWorkers, KeepWorkers, Begin, EndLoop, Go
<1>10. CASE AssertFound \/ Wait \/ WakeUp \/ Lapsed \/ Remove
  BY <1>1, <1>10 DEF AssertFound, Wait, WakeUp, Lapsed, Remove, Go
<1>11. CASE Abort
  BY <1>4, <1>11 DEF Abort, schedVars
<1> QED
  BY <1>6, <1>7, <1>8, <1>9, <1>10, <1>11 DEF Reads

LEMMA ReadsScheduled ==
  ASSUME ScheduledInv, Reads
  PROVE  OnlySchedules' /\ Marked' /\ Handled' /\ Triggers' /\ Checked'
<1>1. /\ UNCHANGED <<status, trigger, leaked, call>>
      /\ UNCHANGED <<phase, todo>> \/ (phase # "raise" /\ phase' # "raise")
  BY ReadsLeave
<1>2. \A t \in Tasks : Pending(t)' <=> Pending(t)
  BY <1>1 DEF Pending
<1>3. /\ hand' = hand
      /\ \A w \in Workers : place'[w] = place[w] \/ (place[w] = "none" /\ place'[w] = "loop")
  BY OthersMove DEF SchedulerStep, Reads
<1>4. Handled' /\ Triggers'
  BY <1>1, <1>2, <1>3, CalmHandled DEF Handling
<1>5. Marked' /\ OnlySchedules'
  BY <1>1 DEF ScheduledInv, Marked, OnlySchedules
<1> QED
  BY <1>4, <1>5, ReadsChecked

\* It triggers a task.
LEMMA SetScheduled ==
  ASSUME ScheduledInv, SetStarting
  PROVE  OnlySchedules' /\ Marked' /\ Handled' /\ Triggers' /\ Checked'
<1>1. /\ phase = "set" /\ todo # <<>>
      /\ UNCHANGED <<trigger, place, hand, leaked, call>>
  BY ScheduledTypes DEF SetStarting, execVars, workerVars, faultVars, clientVars, HasTask
<1>2. PICK t \in Tasks : t = Head(todo)
  BY <1>1, ScheduledTypes
<1>3. ~IsExecuting(status[t]) /\ IsDue(status[t], Policy[t])
  BY <1>1, <1>2 DEF ScheduledInv, Checked, Status, Pol
<1>4. /\ status' = [status EXCEPT ![t].state = "STARTING"]
      /\ phase' = "raise" /\ step' = "each" /\ todo' = todo
  BY <1>2, <1>3 DEF SetStarting, SetIffNotExecuting, Status, Go
<1>5. /\ status[t] \in StatusType /\ Policy[t] \in PolicyType /\ status[t].age <= MaxAge
      /\ status \in [Tasks -> StatusType]
  BY ScheduledTypes DEF Held
<1> DEFINE r == [status[t] EXCEPT !.state = "STARTING"]
<1>6. \A u \in Tasks : status'[u] = IF u = t THEN r ELSE status[u]
  BY <1>4, <1>5
<1>7. r.state = "STARTING" /\ r.age <= MaxAge /\ IsDue(r, Policy[t])
  BY <1>3, <1>5, MarkKeepsDue
<1> HIDE DEF r
<1>8. Marked'
  BY <1>6, <1>7 DEF ScheduledInv, Marked
<1>9. \A u : Pending(u)' <=> u = t
  BY <1>1, <1>2, <1>4 DEF Pending, ScheduledInv, OnlySchedules
<1>10. \A w \in Workers : Handling(w) => hand[w] \in Tasks
  BY ScheduledTypes
<1>11. \A w \in Workers : /\ place[w] = "running" => hand[w] # t
                          /\ place[w] = "entry" /\ hand[w] \notin leaked => hand[w] # t
  BY <1>3 DEF ScheduledInv, Handled, IsExecuting
<1>12. Handled'
  BY <1>1, <1>6, <1>9, <1>10, <1>11 DEF ScheduledInv, Handled, Handling
<1>13. Triggers'
  <2>1. ASSUME NEW u \in Tasks, trigger[u]
        PROVE  \/ status'[u].state = "STARTING" /\ ~Pending(u)'
               \/ \E w \in Workers : hand[w] = u /\ place[w] \in {"running", "return"}
               \/ u \in leaked
    <3>1. CASE u = t
      BY <1>3, <2>1, <3>1 DEF ScheduledInv, Triggers, IsExecuting
    <3>2. CASE u # t
      BY <1>6, <1>9, <2>1, <3>2 DEF ScheduledInv, Triggers
    <3> QED
      BY <3>1, <3>2
  <2> QED
    BY <1>1, <2>1 DEF Triggers
<1>14. Checked'
  <2>1. Status' = r
    BY <1>2, <1>4, <1>6 DEF Status
  <2> QED
    BY <1>4, <1>7, <2>1 DEF Checked
<1> QED
  BY <1>1, <1>8, <1>12, <1>13, <1>14 DEF ScheduledInv, OnlySchedules

LEMMA RaiseScheduled ==
  ASSUME ScheduledInv, RaiseTrigger
  PROVE  OnlySchedules' /\ Marked' /\ Handled' /\ Triggers' /\ Checked'
<1>1. /\ phase = "raise" /\ phase' = "trigger" /\ todo # <<>>
      /\ UNCHANGED <<status, place, hand, leaked, call>>
      /\ trigger' = [trigger EXCEPT ![Head(todo)] = TRUE]
  BY ScheduledTypes DEF RaiseTrigger, Raise, Go, workerVars, faultVars, clientVars, HasTask
<1>2. PICK t \in Tasks : t = Head(todo)
  BY <1>1, ScheduledTypes
<1>3. status[t].state = "STARTING"
  BY <1>1, <1>2 DEF ScheduledInv, Checked, Status
<1>4. \A u : ~Pending(u)'
  BY <1>1 DEF Pending, ScheduledInv, OnlySchedules
<1>5. \A u \in Tasks : trigger'[u] => u = t \/ trigger[u]
  BY <1>1, <1>2, ScheduledTypes DEF Held
<1>6. Triggers'
  BY <1>1, <1>3, <1>4, <1>5 DEF ScheduledInv, Triggers
<1>7. Handled' /\ Marked' /\ Checked' /\ OnlySchedules'
  BY <1>1, <1>4 DEF ScheduledInv, Handled, Marked, Checked, OnlySchedules
<1> QED
  BY <1>6, <1>7

\* It interrupts a task that runs.
LEMMA InterruptScheduled ==
  ASSUME ScheduledInv, Interrupt
  PROVE  OnlySchedules' /\ Marked' /\ Handled' /\ Triggers' /\ Checked'
<1>1. /\ phase = "interrupt" /\ phase' = "late" /\ todo # <<>>
      /\ UNCHANGED <<trigger, place, hand, leaked, call>>
  BY ScheduledTypes DEF Interrupt, Go, execVars, clientVars, HasTask
<1>2. PICK t \in Tasks : t = Head(todo)
  BY <1>1, ScheduledTypes
<1>3. /\ status \in [Tasks -> StatusType] /\ OneHandler
      /\ \A w \in Workers : Handling(w) => hand[w] \in Tasks
  BY ScheduledTypes DEF Held
<1>4. \A u : Pending(u) <=> Pending(u)'
  BY <1>1 DEF Pending
<1>5. CASE Runners(t) = {}
  <2>1. UNCHANGED status
    BY <1>2, <1>5 DEF Interrupt
  <2> QED
    BY <1>1, <1>4, <2>1 DEF ScheduledInv, OnlySchedules, Marked, Handled, Triggers, Checked
<1>6. CASE Runners(t) # {}
  <2>1. PICK w \in Workers : hand[w] = t /\ place[w] = "running"
    BY <1>6 DEF Runners
  <2>2. status' = [status EXCEPT ![t].state = "INTERRUPTED"]
    BY <1>2, <1>6 DEF Interrupt, SetState
  <2>3. /\ status'[t].state = "INTERRUPTED" /\ status'[t].age = status[t].age
        /\ \A u \in Tasks : u # t => status'[u] = status[u]
    BY <1>3, <2>2 DEF StatusType
  <2>4. \A v \in Workers : Handling(v) /\ hand[v] = t => v = w
    BY <1>3, <2>1 DEF OneHandler, Handling
  <2>5. Handled'
    BY <1>1, <1>3, <1>4, <2>1, <2>3, <2>4 DEF ScheduledInv, Handled, Handling
  <2>6. Triggers'
    BY <1>1, <1>4, <2>1, <2>3 DEF ScheduledInv, Triggers
  <2>7. Marked'
    BY <2>3 DEF ScheduledInv, Marked
  <2> QED
    BY <1>1, <2>5, <2>6, <2>7 DEF ScheduledInv, OnlySchedules, Checked
<1> QED
  BY <1>5, <1>6

LEMMA ScheduledInductive ==
  ASSUME OnlyScheduled, ScheduledInv, [Next]_vars
  PROVE  ScheduledInv'
<1>1. ListInv'
  BY ListInductive DEF ScheduledInv
<1>2. CASE SchedulerStep
  BY <1>1, <1>2, ReadsScheduled, SetScheduled, RaiseScheduled, InterruptScheduled
     DEF SchedulerStep, Reads, ScheduledInv
<1>3. CASE (\E w \in Workers : WorkerStep(w)) \/ ClientStep \/ Tick \/ UNCHANGED vars
  <2>1. Marked' /\ Checked' /\ OnlySchedules'
    BY <1>3, OthersChecked
  <2>2. CASE ClientStep \/ Tick \/ UNCHANGED vars
    BY <1>1, <2>1, <2>2, BetweenHandled DEF ScheduledInv
  <2>3. ASSUME NEW w \in Workers, WorkerStep(w) PROVE Handled' /\ Triggers'
    BY <2>3, BetweenHandled, HandlingHandled DEF WorkerStep
  <2> QED
    BY <1>1, <1>3, <2>1, <2>2, <2>3 DEF ScheduledInv
<1> QED
  BY <1>2, <1>3 DEF Next

\* In a pool whose client only schedules tasks, with any policies, tasks that throw, that
\* are late and are interrupted, and however long the scheduler is kept between two of its
\* reads, a task begins only when it is due: from the moment triggerTask has found it due
\* until a worker runs it, nothing makes it less so.
THEOREM ScheduledStartsWhenDue ==
  ASSUME OnlyScheduled
  PROVE  Spec => StartsWhenDue
<1> DEFINE Due == \A t \in Tasks : \A w \in Workers :
                    place[w] = "entry" /\ hand[w] = t /\ place'[w] = "running"
                      => IsReadyToExecute([status[t] EXCEPT !.state = "NO"], Policy[t])
<1>1. Init => ScheduledInv
  BY ScheduledInitially
<1>2. ScheduledInv /\ [Next]_vars => ScheduledInv'
  BY ScheduledInductive
<1>3. ScheduledInv /\ [Next]_vars => Due
  <2> SUFFICES ASSUME ScheduledInv, [Next]_vars, NEW t \in Tasks, NEW w \in Workers,
                      place[w] = "entry", hand[w] = t, place'[w] = "running"
               PROVE  IsDue(status[t], Policy[t])
    BY DEF IsDue
  <2>1. Entry(w)
    <3>1. \E v \in Workers : WorkerStep(v)
      BY OthersMove DEF Next
    <3> QED
      BY <3>1, WorkerMoves, ScheduledTypes
  <2> QED
    BY <2>1 DEF Entry, ScheduledInv, Handled, Marked
<1> QED
  BY <1>1, <1>2, <1>3, PTL DEF Spec, StartsWhenDue

-----------------------------------------------------------------------------
(* A pool whose tasks only the scheduler uses.                             *)

\* The client only schedules tasks, and these neither throw nor have a timeout that may
\* pass.  A task that runs for ever has a period; that of any other task never passes: a
\* run of such a task that both begins and ends between two of the scheduler's reads, a
\* period before the second, is an attempt to it that is due, though it was the last.
\* Nothing is assumed of how fast the threads are.
Undisturbed ==
  /\ Ops \subseteq {"Add", "Idle", "Late"}
  /\ \A t \in Tasks :
       /\ Policy[t].timeout > MaxAge
       /\ \/ Policy[t].kind = "FOREVER" /\ Policy[t].period > 0
          \/ Policy[t].period > MaxAge

Waits(s, p) == ~IsExecuting(s) /\ IsDue(s, p)

\* It is in attempt, or has begun since.
IsAttempted(s, p) == IsInAttempt(s, p) \/ s.attempts > 0

IsOrderly(s, p) ==
  /\ s.state \in {"NO", "STARTING", "STARTED", "STOPPED"} /\ ~s.failed
  /\ s.state = "STARTED" => s.attempts > 0

Orderly == \A t \in Tasks : IsOrderly(status[t], Policy[t])

\* What the scheduler has read of a task that it finds ready stays true until FindReady is
\* done with it.
Evaluated ==
  /\ phase # "interrupt" /\ step # "overdue"
  /\ phase \in {"assert", "check", "recheck"} => Waits(Status, Pol)
  /\ step \in {"free", "next"} => IsAttempted(Status, Pol)
  /\ step = "next" => ~IsExecuting(Status)
  /\ step \in {"retry", "timeout", "due"} /\ next = 0 => Waits(Status, Pol)
  /\ step = "due" => next = 0

UndisturbedInv ==
  ScheduledInv /\ NoAssertFails /\ Orderly /\ flagged = {} /\ Evaluated

\* A task that is neither suspended nor cancelled is ready when it is due.
LEMMA ReadyMeans ==
  ASSUME NEW s \in StatusType, NEW p \in PolicyType, IsOrderly(s, p)
  PROVE  /\ IsReadyToExecute(s, p) <=> IsDue(s, p)
         /\ IsDue(s, p) => IsInAttempt(s, p)
BY DueMeans DEF IsReadyToExecute, IsInAttempt, IsInInterval, IsInRetryInterval, IsOrderly

\* What the strategies say of an orderly task: it is not late, there is no retry, and
\* when its next execution is now, it is due.
LEMMA ReadsMean ==
  ASSUME NEW s \in StatusType, NEW p \in PolicyType, IsOrderly(s, p), s.age <= MaxAge,
         p.timeout > MaxAge, p.kind = "FOREVER" \/ p.period > MaxAge
  PROVE  /\ UntilTimeout(s, p) # 0 /\ ~IsTimeout(s, p)
         /\ UntilRetry(s, p) = Infinite
         /\ IsAttempted(s, p) /\ UntilExecution(s, p.initial, p.period) = 0 => IsDue(s, p)
<1>1. /\ Infinite \in Nat \ {0} /\ s.age \in Nat /\ s.attempts \in Nat /\ MaxAge \in Nat
      /\ {p.initial, p.period, p.timeout} \subseteq Nat
  BY InfiniteAssumption, PoolAssumption DEF PolicyType, Durations, StatusType
<1>2. UntilTimeout(s, p) # 0 /\ ~IsTimeout(s, p)
  BY <1>1 DEF UntilTimeout, IsTimeout, IsOrderly, IsExecuting, Remaining
<1>3. UntilRetry(s, p) = Infinite
  BY DEF UntilRetry, IsInRetryInterval, IsOrderly
<1>4. ASSUME IsAttempted(s, p), UntilExecution(s, p.initial, p.period) = 0
      PROVE  IsDue(s, p)
  <2>1. \/ s.attempts = 0 /\ s.age >= p.initial
        \/ s.attempts # 0 /\ s.age >= p.period
    BY <1>1, <1>4 DEF UntilExecution, Remaining, IsOrderly
  <2>2. IsInAttempt(s, p)
    BY <1>1, <1>4, <2>1 DEF IsAttempted, IsInAttempt, IsOrderly
  <2> QED
    BY <2>1, <2>2, DueMeans DEF IsOrderly, IsInAttempt
<1> QED
  BY <1>2, <1>3, <1>4

LEMMA UndisturbedInitially ==
  ASSUME Init
  PROVE  UndisturbedInv
<1>1. Orderly
  BY DEF Init, Orderly, IsOrderly, Fresh
<1>2. Evaluated /\ NoAssertFails /\ flagged = {}
  BY DEF Init, Evaluated, NoAssertFails
<1> QED
  BY <1>1, <1>2, ScheduledInitially DEF UndisturbedInv

\* The task the scheduler is at.
LEMMA HeadIs ==
  ASSUME Undisturbed, UndisturbedInv, todo # <<>>
  PROVE  /\ Head(todo) \in Tasks /\ Status \in StatusType /\ Pol \in PolicyType
         /\ IsOrderly(Status, Pol) /\ Status.age <= MaxAge /\ Pol.timeout > MaxAge
         /\ Pol.kind = "FOREVER" \/ Pol.period > MaxAge
         /\ Pol.period \in Nat \ {0}
<1>1. PICK t \in Tasks : t = Head(todo)
  BY ScheduledTypes DEF UndisturbedInv
<1>2. /\ status[t] \in StatusType /\ Policy[t] \in PolicyType /\ status[t].age <= MaxAge
      /\ IsOrderly(status[t], Policy[t])
  BY ScheduledTypes DEF UndisturbedInv, Orderly
<1>3. Policy[t].period \in Nat /\ MaxAge \in Nat
  BY <1>2, InfiniteAssumption, PoolAssumption DEF PolicyType, Durations
<1> QED
  BY <1>1, <1>2, <1>3 DEF Undisturbed, Status, Pol

LEMMA BetweenEvaluated ==
  ASSUME phase' \notin {"interrupt", "assert", "check", "recheck"},
         step' \in {"begin", "each"}
  PROVE  Evaluated'
BY DEF Evaluated

-----------------------------------------------------------------------------
(* Its scheduler.                                                          *)

LEMMA LoopsEvaluated ==
  ASSUME \/ StartWorkers \/ StopIdleWorkers \/ KeepWorkers \/ Begin \/ EndLoop \/ Wait
         \/ WakeUp \/ Lapsed \/ Remove
  PROVE  UNCHANGED <<status, aborted>> /\ flagged' \subseteq flagged /\ Evaluated'
<1>1. UNCHANGED <<status, aborted>> /\ flagged' \subseteq flagged
  BY DEF StartWorkers, StopIdleWorkers, KeepWorkers, Begin, EndLoop, Wait, WakeUp, Lapsed,
         Remove, workerVars, faultVars
<1>2. /\ step' \in {"begin", "each"}
      /\ phase' \in {"balance", "find", "trigger", "drop", "earliest", "wait", "asleep",
                     "done", "late", "hung"}
  BY DEF StartWorkers, StopIdleWorkers, KeepWorkers, Begin, EndLoop, Wait, WakeUp, Lapsed,
         Remove, Go
<1> QED
  BY <1>1, <1>2, BetweenEvaluated

LEMMA VisitEvaluated ==
  ASSUME Undisturbed, UndisturbedInv, Visit \/ AssertFound \/ Unready
  PROVE  UNCHANGED <<status, flagged, aborted>> /\ Evaluated'
<1>1. UNCHANGED <<status, flagged, aborted>>
  BY DEF Visit, AssertFound, Unready, workerVars, faultVars
<1>2. ASSUME UNCHANGED todo, phase' \in {"check", "recheck"}, step' = "each",
             phase \in {"assert", "check"}
      PROVE  Evaluated'
  BY <1>1, <1>2 DEF UndisturbedInv, Evaluated, Status, Pol
<1>3. ASSUME UNCHANGED <<phase, todo>>, step' = "attempt" PROVE Evaluated'
  BY <1>1, <1>3 DEF UndisturbedInv, Evaluated, Status, Pol
<1>4. CASE Visit
  <2>1. todo # <<>>
    BY <1>4 DEF Visit
  <2>2. ~IsTimeout(Status, Pol)
    BY <2>1, HeadIs, ReadsMean
  <2>3. \/ UNCHANGED <<phase, todo>> /\ step' = "attempt"
        \/ /\ phase' \in {"trigger", "ready", "done", "lapsed", "late", "set"}
           /\ step' = "each"
    BY <1>4, <2>2 DEF Visit, Go, Status, Pol
  <2> QED
    BY <1>1, <1>3, <2>3, BetweenEvaluated
<1>5. CASE AssertFound
  <2>1. /\ step' = "each"
        /\ \/ phase = "assert" /\ phase' = "check" /\ UNCHANGED todo
           \/ phase' = "find"
    BY <1>5 DEF AssertFound, Go
  <2> QED
    BY <1>1, <1>2, <2>1, BetweenEvaluated
<1>6. CASE Unready
  <2>1. step' = "each" /\ phase' \in {"starting", "trigger"}
    BY <1>6 DEF Unready, Go
  <2> QED
    BY <1>1, <2>1, BetweenEvaluated
<1> QED
  BY <1>4, <1>5, <1>6

\* ComputeEarliestReadyIn.
LEMMA StrategiesEvaluated ==
  ASSUME Undisturbed, UndisturbedInv, Evaluate
  PROVE  UNCHANGED <<status, flagged, aborted>> /\ Evaluated'
<1>1. UNCHANGED <<status, flagged, aborted>>
  BY DEF Evaluate, workerVars, faultVars
<1> SUFFICES Evaluated'
  BY <1>1
<1>2. todo # <<>>
  BY ScheduledTypes
     DEF Evaluate, ReadAttempt, ReadFree, ReadNext, ReadExecuting, ReadRetry, ReadTimeout,
         AssertReady, UndisturbedInv, HasTask
<1>3. /\ Status \in StatusType /\ Pol \in PolicyType /\ IsOrderly(Status, Pol)
      /\ Pol.period \in Nat \ {0}
  BY <1>2, HeadIs
<1>4. /\ UntilTimeout(Status, Pol) # 0 /\ UntilRetry(Status, Pol) = Infinite
      /\ IsAttempted(Status, Pol) /\ UntilExecution(Status, Pol.initial, Pol.period) = 0
           => IsDue(Status, Pol)
  BY <1>2, HeadIs, ReadsMean
<1>5. next \in Durations /\ Evaluated /\ Infinite \in Nat \ {0}
  BY InfiniteAssumption, ScheduledTypes DEF UndisturbedInv, Typed
<1>6. ASSUME todo' = todo PROVE Status' = Status /\ Pol' = Pol
  BY <1>1, <1>6 DEF Status, Pol
<1>7. ASSUME NEW st, Then(st), st \in {"executing", "retry"}, st = "retry" => next' # 0
      PROVE  Evaluated'
  BY <1>5, <1>6, <1>7 DEF Then, Evaluated
<1>8. ASSUME NEW st, Then(st), st \in {"free", "next"}, IsAttempted(Status, Pol),
             st = "next" => ~IsExecuting(Status)
      PROVE  Evaluated'
  BY <1>5, <1>6, <1>8 DEF Then, Evaluated
<1>9. ASSUME NEW st, Then(st), st \in {"retry", "timeout", "due"},
             next' = 0 => Waits(Status, Pol), st = "due" => next' = 0
      PROVE  Evaluated'
  BY <1>5, <1>6, <1>9 DEF Then, Evaluated
<1>10. ASSUME NEW v, Return(v), v = 0 => Waits(Status, Pol)
       PROVE  Evaluated'
  <2>1. CASE phase \in {"ready", "earliest"}
    <3>1. phase' \in {"starting", "unready", "earliest"} /\ step' = "each"
      BY <1>10, <2>1 DEF Return, Go
    <3> QED
      BY <3>1, BetweenEvaluated
  <2>2. CASE phase = "check"
    <3>1. Waits(Status, Pol)
      BY <1>5, <2>2 DEF Evaluated
    <3>2. step' = "each" /\ (phase' = "find" \/ (phase' = "recheck" /\ UNCHANGED todo))
      BY <1>10, <2>2 DEF Return, Go
    <3> QED
      BY <1>6, <3>1, <3>2, BetweenEvaluated DEF Evaluated
  <2>3. CASE phase = "find"
    <3>1. /\ step' = "each"
          /\ phase' = "find" \/ (phase' = "assert" /\ UNCHANGED todo /\ v = 0)
      BY <1>10, <2>3 DEF Return, Go
    <3> QED
      BY <1>6, <1>10, <3>1, BetweenEvaluated DEF Evaluated
  <2> QED
    BY <1>10, <2>1, <2>2, <2>3 DEF Return
<1>11. CASE ReadAttempt
  <2>1. CASE IsInAttempt(Status, Pol)
    <3>1. Then("free") /\ IsAttempted(Status, Pol)
      BY <1>11, <2>1 DEF ReadAttempt, IsAttempted
    <3> QED
      BY <1>8, <3>1
  <2>2. CASE ~IsInAttempt(Status, Pol)
    <3>1. Then("executing")
      BY <1>11, <2>2 DEF ReadAttempt
    <3> QED
      BY <1>7, <3>1
  <2> QED
    BY <2>1, <2>2
<1>12. CASE ReadFree
  <2>1. CASE IsExecuting(Status)
    <3>1. Then("executing")
      BY <1>12, <2>1 DEF ReadFree
    <3> QED
      BY <1>7, <3>1
  <2>2. CASE ~IsExecuting(Status)
    <3>1. Then("next") /\ IsAttempted(Status, Pol)
      BY <1>5, <1>12, <2>2 DEF ReadFree, Evaluated
    <3> QED
      BY <1>8, <2>2, <3>1
  <2> QED
    BY <2>1, <2>2
<1>13. CASE ReadNext
  <2>1. /\ IsAttempted(Status, Pol) /\ ~IsExecuting(Status) /\ Then("retry")
        /\ next' = UntilExecution(Status, Pol.initial, Pol.period)
    BY <1>5, <1>13 DEF ReadNext, Evaluated
  <2>2. next' = 0 => Waits(Status, Pol)
    BY <1>4, <2>1 DEF Waits
  <2> QED
    BY <1>9, <2>1, <2>2
<1>14. CASE ReadExecuting
  <2>1. Then("retry") /\ next' # 0
    BY <1>3, <1>5, <1>14 DEF ReadExecuting
  <2> QED
    BY <1>7, <2>1
<1>15. CASE ReadRetry
  <2>1. next' = Lesser(next, Infinite) /\ Then("timeout") /\ step = "retry"
    BY <1>4, <1>15 DEF ReadRetry
  <2>2. Lesser(next, Infinite) = next
    BY <1>5 DEF Lesser, Durations
  <2>3. next' = 0 => Waits(Status, Pol)
    BY <1>5, <2>1, <2>2 DEF Evaluated
  <2> QED
    BY <1>9, <2>1, <2>3
<1>16. CASE ReadTimeout
  <2>1. CASE next = 0
    <3>1. Then("due") /\ next' = next /\ Waits(Status, Pol)
      BY <1>4, <1>5, <1>16, <2>1 DEF ReadTimeout, Evaluated
    <3> QED
      BY <1>9, <2>1, <3>1
  <2>2. CASE next # 0
    <3>1. Return(Lesser(next, UntilTimeout(Status, Pol)))
      BY <1>4, <1>16, <2>2 DEF ReadTimeout
    <3>2. Lesser(next, UntilTimeout(Status, Pol)) # 0
      BY <1>4, <2>2 DEF Lesser
    <3> QED
      BY <1>10, <3>1, <3>2
  <2> QED
    BY <2>1, <2>2
<1>17. CASE AssertReady
  <2>1. Return(0) /\ Waits(Status, Pol)
    BY <1>5, <1>17 DEF AssertReady, Evaluated
  <2> QED
    BY <1>10, <2>1
<1> QED
  BY <1>11, <1>12, <1>13, <1>14, <1>15, <1>16, <1>17 DEF Evaluate

\* No assertion of the scheduler fails.
LEMMA NoAbort ==
  ASSUME Undisturbed, UndisturbedInv
  PROVE  ~Abort
<1> SUFFICES ASSUME Abort PROVE FALSE
  OBVIOUS
<1>1. phase = "drop" /\ todo # <<>> => \E i \in DOMAIN list : IsOnly(i, Head(todo))
  BY DropFinds DEF UndisturbedInv, ScheduledInv
<1>2. step = "due" \/ (step = "each" /\ phase \in {"assert", "recheck"})
  BY <1>1 DEF Abort, UndisturbedInv, Evaluated
<1>3. Waits(Status, Pol) /\ todo # <<>>
  BY <1>2, ScheduledTypes DEF UndisturbedInv, Evaluated, HasTask
<1>4. ~IsExecuting(Status) /\ IsReadyToExecute(Status, Pol)
      /\ Status.state \notin {"SUSPENDED", "INTERRUPTED"}
  BY <1>3, HeadIs, ReadyMeans DEF Waits, IsOrderly
<1>5. step # "overdue"
  BY DEF UndisturbedInv, Evaluated
<1> QED
  BY <1>1, <1>4, <1>5 DEF Abort

LEMMA TriggersOrderly ==
  ASSUME UndisturbedInv, SetStarting \/ RaiseTrigger
  PROVE  UNCHANGED <<flagged, aborted>> /\ Orderly' /\ Evaluated'
<1>1. UNCHANGED <<flagged, aborted>> /\ phase' \in {"trigger", "raise"} /\ step' = "each"
  BY DEF SetStarting, RaiseTrigger, Go, workerVars, faultVars
<1>2. \A u \in Tasks : \/ status'[u] = status[u]
                       \/ status'[u] = [status[u] EXCEPT !.state = "STARTING"]
  <2>1. status \in [Tasks -> StatusType]
    BY ScheduledTypes DEF UndisturbedInv, Held
  <2>2. CASE SetStarting
    <3> DEFINE s == status[Head(todo)]
    <3>1. status' = [status EXCEPT ![Head(todo)].state = IF IsExecuting(s) THEN @ ELSE "STARTING"]
      BY <2>2 DEF SetStarting, SetIffNotExecuting
    <3> QED
      BY <2>1, <3>1 DEF StatusType
  <2>3. CASE RaiseTrigger
    BY <2>3 DEF RaiseTrigger
  <2> QED
    BY <2>2, <2>3
<1>3. Orderly'
  <2> SUFFICES ASSUME NEW u \in Tasks PROVE IsOrderly(status'[u], Policy[u])
    BY DEF Orderly
  <2>1. status[u] \in StatusType /\ IsOrderly(status[u], Policy[u])
    BY ScheduledTypes DEF UndisturbedInv, Orderly
  <2>2. LET r == [status[u] EXCEPT !.state = "STARTING"] IN
          r.state = "STARTING" /\ r.failed = status[u].failed
    BY <2>1 DEF StatusType
  <2> QED
    BY <1>2, <2>1, <2>2 DEF IsOrderly
<1> QED
  BY <1>1, <1>3, BetweenEvaluated

-----------------------------------------------------------------------------
(* Its workers, its client, and time.                                      *)

LEMMA OthersOrderly ==
  ASSUME Undisturbed, UndisturbedInv, NEW t \in Tasks,
         (\E w \in Workers : WorkerStep(w)) \/ ClientStep \/ Tick \/ UNCHANGED vars
  PROVE  /\ IsOrderly(status'[t], Policy[t])
         /\ IsAttempted(status[t], Policy[t]) => IsAttempted(status'[t], Policy[t])
         /\ Waits(status[t], Policy[t]) => Waits(status'[t], Policy[t])
         /\ ~IsExecuting(status[t]) => ~IsExecuting(status'[t])
<1>0. OnlyScheduled /\ ScheduledInv
  BY DEF Undisturbed, OnlyScheduled, UndisturbedInv
<1>1. /\ status[t] \in StatusType /\ Policy[t] \in PolicyType /\ status[t].age <= MaxAge
      /\ IsOrderly(status[t], Policy[t])
  BY <1>0, ScheduledTypes DEF UndisturbedInv, Orderly
<1>2. /\ Waits(status[t], Policy[t]) => Waits(status'[t], Policy[t])
      /\ ~IsExecuting(status[t]) => ~IsExecuting(status'[t])
  BY <1>0, OthersLeave DEF Waits
<1> SUFFICES /\ IsOrderly(status'[t], Policy[t])
             /\ IsAttempted(status[t], Policy[t]) => IsAttempted(status'[t], Policy[t])
  BY <1>2
<1>3. CASE status'[t] = status[t]
  BY <1>1, <1>3
<1>4. CASE status'[t] = Older(status[t])
  BY <1>1, <1>4, AgeKeepsDue DEF Older, IsOrderly, IsAttempted, IsInAttempt
<1>5. CASE status'[t] = Begun(status[t], Policy[t])
  BY <1>1, <1>5, BegunIs DEF IsOrderly, IsAttempted
<1>6. CASE /\ status[t].state \in {"STARTED", "INTERRUPTED"}
           /\ status'[t] = Succeeded(status[t], Policy[t])
  BY <1>1, <1>6, EndedIs DEF IsOrderly, IsAttempted
<1>7. \A w : ~(w \in flagged \/ "Throw" \in Ops \/ "Fail" \in Ops)
  BY DEF Undisturbed, UndisturbedInv
<1> QED
  BY <1>0, <1>3, <1>4, <1>5, <1>6, <1>7, StatusSteps

LEMMA OthersUndisturbed ==
  ASSUME Undisturbed, UndisturbedInv, ScheduledInv',
         (\E w \in Workers : WorkerStep(w)) \/ ClientStep \/ Tick \/ UNCHANGED vars
  PROVE  UndisturbedInv'
<1>0. OnlyScheduled /\ ScheduledInv
  BY DEF Undisturbed, OnlyScheduled, UndisturbedInv
<1>1. Orderly'
  BY OthersOrderly DEF Orderly
<1>2. flagged' = {}
  <2>1. CASE \E w \in Workers : WorkerStep(w)
    BY <2>1 DEF WorkerStep, CheckStopped, Exit, Die, faultVars, UndisturbedInv
  <2>2. CASE ClientStep
    BY <1>0, <2>2, ClientSchedules DEF faultVars, UndisturbedInv
  <2>3. CASE Tick \/ UNCHANGED vars
    BY <2>3 DEF Tick, vars, workerVars, faultVars, UndisturbedInv
  <2> QED
    BY <2>1, <2>2, <2>3
<1>3. NoAssertFails'
  <2>1. aborted' \in {aborted, "IsStarted"}
    BY DEF WorkerStep, CheckStopped, Get, Look, Dispatch, Entry, Exit, Die, HandlerReturns,
           WakeScheduler, ClientStep, Tick, vars
  <2>2. aborted' # "IsStarted"
    BY DEF ScheduledInv, ListInv, PoolInv, IInv, NotStartedTwice
  <2> QED
    BY <2>1, <2>2 DEF UndisturbedInv, NoAssertFails
<1>4. Evaluated'
  <2>1. CASE phase = "asleep" /\ phase' = "done" /\ step' = "begin"
    BY <2>1, BetweenEvaluated
  <2>2. CASE UNCHANGED <<phase, step, next>> /\ (todo # <<>> => Head(todo') = Head(todo))
    <3>1. CASE phase \notin {"assert", "check", "recheck"} /\ step \in {"begin", "each"}
      BY <2>2, <3>1 DEF UndisturbedInv, Evaluated
    <3>2. CASE phase \in {"assert", "check", "recheck"} \/ step \notin {"begin", "each"}
      <4>1. todo # <<>> /\ Head(todo') = Head(todo)
        BY <1>0, <2>2, <3>2, ScheduledTypes DEF HasTask
      <4>2. PICK t \in Tasks : t = Head(todo)
        BY <1>0, <4>1, ScheduledTypes
      <4>3. Status = status[t] /\ Pol = Policy[t] /\ Status' = status'[t] /\ Pol' = Policy[t]
        BY <4>1, <4>2 DEF Status, Pol
      <4> QED
        BY <2>2, <4>3, OthersOrderly DEF UndisturbedInv, Evaluated
    <3> QED
      BY <3>1, <3>2
  <2> QED
    BY <1>0, <2>1, <2>2, OthersStay
<1> QED
  BY <1>1, <1>2, <1>3, <1>4 DEF UndisturbedInv

LEMMA UndisturbedInductive ==
  ASSUME Undisturbed, UndisturbedInv, [Next]_vars
  PROVE  UndisturbedInv'
<1>1. ScheduledInv'
  BY ScheduledInductive DEF UndisturbedInv, Undisturbed, OnlyScheduled
<1>2. ASSUME UNCHANGED <<status, aborted>>, flagged' \subseteq flagged, Evaluated'
      PROVE  UndisturbedInv'
  BY <1>1, <1>2 DEF UndisturbedInv, NoAssertFails, Orderly
<1>3. CASE SchedulerStep
  <2>1. CASE \/ StartWorkers \/ StopIdleWorkers \/ KeepWorkers \/ Begin \/ EndLoop \/ Wait
             \/ WakeUp \/ Lapsed \/ Remove
    BY <1>2, <2>1, LoopsEvaluated
  <2>2. CASE Visit \/ AssertFound \/ Unready
    BY <1>2, <2>2, VisitEvaluated
  <2>3. CASE Evaluate
    BY <1>2, <2>3, StrategiesEvaluated
  <2>4. CASE SetStarting \/ RaiseTrigger
    BY <1>1, <2>4, TriggersOrderly DEF UndisturbedInv, NoAssertFails
  <2>5. ~Abort /\ ~Interrupt
    BY NoAbort DEF Interrupt, UndisturbedInv, Evaluated
  <2> QED
    BY <1>3, <2>1, <2>2, <2>3, <2>4, <2>5 DEF SchedulerStep
<1> QED
  BY <1>1, <1>3, OthersUndisturbed DEF Next

\* While only the scheduler uses the tasks, no assertion of FindReady, of
\* ComputeEarliestReadyIn, of ThreadPool::operator() and of RemoveDone fails, for any
\* number of tasks and workers and however long a thread is kept between two of its steps:
\* what one strategy has read of a task that is ready stays true until the next has read
\* it.  A task has no timeout, does not throw, and runs for ever or has a period that never
\* passes: without one of these an assertion may fail.
THEOREM UndisturbedNeverAborts ==
  ASSUME Undisturbed
  PROVE  Spec => []NoAssertFails
<1>1. Init => UndisturbedInv
  BY UndisturbedInitially
<1>2. UndisturbedInv /\ [Next]_vars => UndisturbedInv'
  BY UndisturbedInductive
<1>3. UndisturbedInv => NoAssertFails
  BY DEF UndisturbedInv
<1> QED
  BY <1>1, <1>2, <1>3, PTL DEF Spec
=============================================================================
