--------------------------- MODULE WaitSet_proofs ---------------------------
(***************************************************************************)
(* Proofs about WaitSet, for any conditions, takers, setters, handlers and *)
(* choice of administrative operations.                                    *)
(***************************************************************************)
EXTENDS WaitSet, SequenceTheorems, FiniteSetTheorems, TLAPS

\* A list that holds its members once each, as triggeredQueue_ does.
Once(q) == \A i, j \in DOMAIN q : q[i] = q[j] => i = j

-----------------------------------------------------------------------------
(* Lists of conditions.                                                    *)

\* push_back of a new condition (WaitSet::enqueueTriggered).
LEMMA AppendOnce ==
  ASSUME NEW q \in Seq(Conditions), Once(q), NEW c \in Conditions,
         c \notin Members(q)
  PROVE  /\ Append(q, c) \in Seq(Conditions)
         /\ Members(Append(q, c)) = Members(q) \cup {c}
         /\ Once(Append(q, c))
<1>1. /\ Append(q, c) \in Seq(Conditions)
      /\ Len(Append(q, c)) = Len(q) + 1
      /\ \A i \in 1..Len(q) : Append(q, c)[i] = q[i]
      /\ Append(q, c)[Len(q) + 1] = c
  BY AppendProperties
<1>2. /\ Len(q) \in Nat /\ DOMAIN q = 1..Len(q)
      /\ DOMAIN Append(q, c) = 1..(Len(q) + 1)
  BY <1>1, LenProperties
<1>3. \A i \in 1..(Len(q) + 1) : i \in 1..Len(q) \/ i = Len(q) + 1
  BY <1>2
<1>4. 1..Len(q) \subseteq 1..(Len(q) + 1) /\ Len(q) + 1 \in 1..(Len(q) + 1)
  BY <1>2
<1>5. Members(Append(q, c)) = Members(q) \cup {c}
  BY <1>1, <1>2, <1>3, <1>4, Zenon DEF Members
<1>6. Once(Append(q, c))
  BY <1>1, <1>2, <1>3 DEF Once, Members
<1> QED
  BY <1>1, <1>5, <1>6

\* pop_front (WaitSet::dequeueTriggered).
LEMMA TailOnce ==
  ASSUME NEW q \in Seq(Conditions), Once(q), q # <<>>
  PROVE  /\ Tail(q) \in Seq(Conditions) /\ Head(q) \in Members(q)
         /\ Members(Tail(q)) = Members(q) \ {Head(q)}
         /\ Once(Tail(q))
<1>1. /\ Tail(q) \in Seq(Conditions)
      /\ Len(Tail(q)) = Len(q) - 1
      /\ \A i \in 1..Len(Tail(q)) : Tail(q)[i] = q[i + 1]
  BY HeadTailProperties
<1>2. /\ Len(q) \in Nat /\ Len(q) > 0 /\ DOMAIN q = 1..Len(q)
      /\ DOMAIN Tail(q) = 1..(Len(q) - 1)
  BY <1>1, LenProperties, EmptySeq
<1>3. Head(q) = q[1] /\ 1 \in DOMAIN q
  BY <1>2
<1>4. \A i \in DOMAIN Tail(q) : i + 1 \in DOMAIN q /\ i + 1 # 1
  BY <1>2
<1>5. \A i \in DOMAIN q : i # 1 => i - 1 \in DOMAIN Tail(q) /\ q[i] = Tail(q)[i - 1]
  BY <1>1, <1>2
<1>6. Members(Tail(q)) = Members(q) \ {Head(q)}
  <2>1. ASSUME NEW c \in Members(Tail(q)) PROVE c \in Members(q) \ {Head(q)}
    <3>1. PICK i \in DOMAIN Tail(q) : c = Tail(q)[i]
      BY DEF Members
    <3> QED
      BY <1>1, <1>2, <1>3, <1>4, <3>1 DEF Members, Once
  <2>2. ASSUME NEW c \in Members(q) \ {Head(q)} PROVE c \in Members(Tail(q))
    <3>1. PICK i \in DOMAIN q : c = q[i]
      BY DEF Members
    <3> QED
      BY <1>3, <1>5, <3>1 DEF Members
  <2> QED
    BY <2>1, <2>2
<1>7. Once(Tail(q))
  BY <1>1, <1>2 DEF Once
<1> QED
  BY <1>1, <1>3, <1>6, <1>7 DEF Members

\* remove (WaitSet::Detach).
LEMMA WithoutOnce ==
  ASSUME NEW q \in Seq(Conditions), Once(q), NEW c \in Conditions
  PROVE  /\ Without(q, c) \in Seq(Conditions)
         /\ Members(Without(q, c)) = Members(q) \ {c}
         /\ Once(Without(q, c))
<1>1. CASE c \notin Members(q)
  BY <1>1 DEF Without
<1>2. CASE c \in Members(q)
  <2> DEFINE i == CHOOSE j \in DOMAIN q : q[j] = c
             w == [j \in 1..Len(q) - 1 |-> IF j < i THEN q[j] ELSE q[j + 1]]
  <2>1. i \in DOMAIN q /\ q[i] = c
    BY <1>2 DEF Members
  <2>2. Without(q, c) = w
    BY <1>2 DEF Without
  <2>3. Len(q) \in Nat /\ DOMAIN q = 1..Len(q)
    BY LenProperties
  <2> HIDE DEF i
  <2>4. i \in 1..Len(q) /\ Len(q) - 1 \in Nat
    BY <2>1, <2>3
  <2>5. \A j \in 1..Len(q) - 1 : (IF j < i THEN q[j] ELSE q[j + 1]) \in Conditions
    BY <2>3, <2>4, ElementOfSeq
  <2>6. w \in [1..Len(q) - 1 -> Conditions]
    BY <2>5
  <2>7. w \in Seq(Conditions) /\ DOMAIN w = 1..Len(q) - 1
    BY <2>4, <2>6, SeqDef
  <2>8. \A j \in DOMAIN w : \E k \in DOMAIN q : k # i /\ w[j] = q[k]
    <3>1. SUFFICES ASSUME NEW j \in DOMAIN w
                   PROVE  \E k \in DOMAIN q : k # i /\ w[j] = q[k]
      OBVIOUS
    <3>2. CASE j < i
      BY <2>3, <2>4, <2>7, <3>2
    <3>3. CASE ~(j < i)
      <4>1. j + 1 \in DOMAIN q /\ j + 1 # i /\ w[j] = q[j + 1]
        BY <2>3, <2>4, <2>7, <3>3
      <4> QED
        BY <4>1
    <3> QED
      BY <3>2, <3>3
  <2>9. \A k \in DOMAIN q : k # i => \E j \in DOMAIN w : w[j] = q[k]
    <3>1. SUFFICES ASSUME NEW k \in DOMAIN q, k # i
                   PROVE  \E j \in DOMAIN w : w[j] = q[k]
      OBVIOUS
    <3>2. CASE k < i
      <4>1. k \in DOMAIN w /\ w[k] = q[k]
        BY <2>3, <2>4, <2>7, <3>2
      <4> QED
        BY <4>1
    <3>3. CASE k > i
      <4>1. k - 1 \in DOMAIN w /\ ~(k - 1 < i) /\ (k - 1) + 1 = k
        BY <2>3, <2>4, <2>7, <3>3
      <4>2. w[k - 1] = q[k]
        BY <2>7, <4>1
      <4> QED
        BY <4>1, <4>2
    <3> QED
      BY <2>3, <2>4, <3>1, <3>2, <3>3
  <2>10. Members(w) = Members(q) \ {c}
    <3>1. ASSUME NEW d \in Members(w) PROVE d \in Members(q) \ {c}
      <4>1. PICK j \in DOMAIN w : d = w[j]
        BY DEF Members
      <4>2. PICK k \in DOMAIN q : k # i /\ d = q[k]
        BY <2>8, <4>1
      <4> QED
        BY <2>1, <4>2 DEF Members, Once
    <3>2. ASSUME NEW d \in Members(q) \ {c} PROVE d \in Members(w)
      <4>1. PICK k \in DOMAIN q : d = q[k]
        BY DEF Members
      <4>2. PICK j \in DOMAIN w : w[j] = q[k]
        BY <2>1, <2>9, <3>2, <4>1
      <4> QED
        BY <4>1, <4>2 DEF Members
    <3> QED
      BY <3>1, <3>2
  <2>11. Once(w)
    BY <2>3, <2>4, <2>7 DEF Once
  <2> QED
    BY <2>2, <2>7, <2>10, <2>11
<1> QED
  BY <1>1, <1>2
-----------------------------------------------------------------------------
(* Types.                                                                  *)

\* What a call with a condition has in hand before it dispatches, and which
\* calls wait for the queue: with this TypeOK is inductive.
Aimed ==
  \A t \in Takers :
    /\ pc[t] = "get" => aim[t] \notin Conditions
    /\ pc[t] = "waiting" /\ aim[t] \in Conditions => cond[t] # None
    /\ t \in Workers => aim[t] = "next"

Typed == TypeOK /\ Aimed /\ QueueConsistent

\* Constants: who is who.
LEMMA Names ==
  /\ None \notin Conditions /\ None \notin Takers /\ None \notin Callers
  /\ Workers \subseteq Takers /\ Dispatchers \subseteq Takers
  /\ Takers \subseteq Callers
  /\ \A t \in Takers : ~(t \in Workers /\ t \in Dispatchers)
  /\ Conditions \subseteq Aims
  /\ "all" \notin Conditions /\ "next" \notin Conditions /\ "wait" \notin Conditions
  /\ Calls \subseteq Aims
BY ConstantsAssumption DEF Takers, Callers, Aims

\* Steps of the wait that leave the queue alone.
LEMMA TypedWaiting ==
  ASSUME Typed, aborted' \in BOOLEAN, NEW t \in Takers,
         \/ t \in Workers /\ (CheckStopped(t) \/ Restart(t))
         \/ t \in Dispatchers /\ (Refuse(t) \/ Peek(t) \/ AwakeForOne(t))
         \/ Block(t) \/ WaitAgain(t) \/ GiveUp(t)
  PROVE  Typed'
<1>1. CASE t \in Workers /\ (CheckStopped(t) \/ Restart(t))
  <2>1. \E q \in {"get", "stopped", "idle"} : pc' = [pc EXCEPT ![t] = q]
    BY <1>1 DEF CheckStopped, Restart, Goto
  <2> QED
    BY <1>1, <2>1, Names DEF Typed, TypeOK, Aimed, QueueConsistent,
       CheckStopped, Restart, Places, CV!TypeOK, wsVars, condVars, history
<1>2. CASE t \in Dispatchers /\ Refuse(t)
  BY <1>2, Names DEF Typed, TypeOK, Aimed, QueueConsistent, Refuse, Goto, Places,
     CV!TypeOK, wsVars, condVars, history
<1>3. CASE t \in Dispatchers /\ Peek(t)
  <2>1. pc[t] = "peek" /\ \E q \in {"look", "block"} : pc' = [pc EXCEPT ![t] = q]
    BY <1>3 DEF Peek, Goto
  <2> QED
    BY <1>3, <2>1, Names DEF Typed, TypeOK, Aimed, QueueConsistent, Peek, Places,
       CV!TypeOK, wsVars, condVars, history
<1>4. CASE t \in Dispatchers /\ AwakeForOne(t)
  BY <1>4, Names DEF Typed, TypeOK, Aimed, QueueConsistent, AwakeForOne, Goto, Places,
     CV!TypeOK, CV!States, CV!Return, wsVars, condVars, history
<1>5. CASE Block(t)
  BY <1>5, Names DEF Typed, TypeOK, Aimed, QueueConsistent, Block, MayWait, Goto, Places,
     CV!TypeOK, CV!States, CV!Sleep, CV!Bypass, wsVars, condVars, history
<1>6. CASE WaitAgain(t)
  BY <1>6 DEF Typed, TypeOK, Aimed, QueueConsistent, WaitAgain, CV!TypeOK, CV!States,
     wsVars, condVars, takerVars, history
<1>7. CASE GiveUp(t)
  BY <1>7 DEF Typed, TypeOK, Aimed, QueueConsistent, GiveUp, CV!TypeOK, CV!States,
     CV!GiveUp, CV!Move, CV!Asleep, wsVars, condVars, takerVars, history
<1> QED
  BY <1>1, <1>2, <1>3, <1>4, <1>5, <1>6, <1>7

\* A taker that takes the front of the queue gets a condition.
LEMMA Taking ==
  ASSUME Typed, NEW t \in Takers, TakeFront(t), conditions' = conditions
  PROVE  /\ queue' \in Seq(Conditions) /\ triggered' \subseteq Conditions
         /\ QueueConsistent'
         /\ Members(queue) = Members(queue') \cup {Head(queue)}
         /\ Head(queue) \in Conditions
         /\ cond' = [cond EXCEPT ![t] = Head(queue)]
         /\ cond' \in [Takers -> Conditions \cup {None}]
<1>1. queue \in Seq(Conditions) /\ Once(queue) /\ queue # <<>> /\ queue' = Tail(queue)
  BY DEF Typed, TypeOK, QueueConsistent, Once, TakeFront
<1>2. /\ Tail(queue) \in Seq(Conditions) /\ Head(queue) \in Members(queue)
      /\ Members(Tail(queue)) = Members(queue) \ {Head(queue)}
      /\ Once(Tail(queue))
  BY <1>1, TailOnce
<1>3. /\ Members(queue) = triggered /\ triggered \subseteq conditions
      /\ conditions \subseteq Conditions
      /\ triggered' = triggered \ {Head(queue)}
  BY DEF Typed, TypeOK, QueueConsistent, TakeFront
<1>4. Members(queue)' = Members(queue')
  BY DEF Members
<1>5. QueueConsistent'
  BY <1>1, <1>2, <1>3, <1>4 DEF QueueConsistent, Once
<1> QED
  BY <1>1, <1>2, <1>3, <1>5 DEF Typed, TypeOK, TakeFront

\* Nothing is taken.
LEMMA NotTaking ==
  ASSUME Typed, NEW t \in Takers,
         UNCHANGED <<queue, triggered, cond>>, conditions' = conditions
  PROVE  /\ queue' \in Seq(Conditions) /\ triggered' \subseteq Conditions
         /\ QueueConsistent'
         /\ cond' \in [Takers -> Conditions \cup {None}]
BY DEF Typed, TypeOK, QueueConsistent, Members

\* The end of a wait for the queue, and what comes before and after it.
LEMMA TypedTaking ==
  ASSUME Typed, aborted' \in BOOLEAN, NEW t \in Takers,
         \/ t \in Dispatchers /\ Drain(t)
         \/ Get(t) \/ Awake(t)
  PROVE  Typed'
<1>1. ASSUME valid' = valid, conditions' = conditions, CV!TypeOK',
             UNCHANGED <<condVars, aim, call, admin, history>>,
             \/ /\ TakeFront(t)
                /\ Goto(t, "look")
             \/ /\ UNCHANGED <<queue, triggered, cond>>
                /\ pc[t] \in {"get", "waiting", "drain"}
                /\ aim[t] \notin Conditions
                /\ \E q \in {"drain", "idle", "get"} : Goto(t, q)
      PROVE  Typed'
  <2>1. CASE TakeFront(t) /\ Goto(t, "look")
    <3>1. /\ queue' \in Seq(Conditions) /\ triggered' \subseteq Conditions
          /\ QueueConsistent' /\ Head(queue) \in Conditions
          /\ cond' = [cond EXCEPT ![t] = Head(queue)]
          /\ cond' \in [Takers -> Conditions \cup {None}]
      BY <1>1, <2>1, Taking
    <3>2. cond'[t] # None /\ \A u \in Takers : u # t => cond'[u] = cond[u]
      BY <3>1, Names DEF Typed, TypeOK
    <3> QED
      BY <1>1, <2>1, <3>1, <3>2, Names
      DEF Typed, TypeOK, Aimed, Goto, Places, condVars, history
  <2>2. CASE /\ UNCHANGED <<queue, triggered, cond>>
             /\ aim[t] \notin Conditions
             /\ \E q \in {"drain", "idle", "get"} : Goto(t, q)
    BY <1>1, <2>2, NotTaking, Names
    DEF Typed, TypeOK, Aimed, Goto, Places, condVars, history
  <2> QED
    BY <1>1, <2>1, <2>2
<1>2. CASE t \in Dispatchers /\ Drain(t)
  <2>1. CASE TakeFront(t) /\ Goto(t, "look")
    BY <1>1, <1>2, <2>1 DEF Drain, Typed, TypeOK, CV!TypeOK
  <2>2. CASE /\ queue = <<>> /\ Goto(t, "idle")
             /\ UNCHANGED <<queue, triggered, cond>>
    BY <1>2, <2>2, NotTaking, Names
    DEF Drain, Typed, TypeOK, Aimed, Goto, Places, CV!TypeOK, condVars, history
  <2> QED
    BY <1>2, <2>1, <2>2 DEF Drain
<1>3. ASSUME Proceed(t), pc[t] \in {"get", "waiting"}, aim[t] \notin Conditions
      PROVE  \/ /\ TakeFront(t)
                /\ Goto(t, "look")
             \/ /\ UNCHANGED <<queue, triggered, cond>>
                /\ pc[t] \in {"get", "waiting", "drain"}
                /\ aim[t] \notin Conditions
                /\ \E q \in {"drain", "idle", "get"} : Goto(t, q)
  BY <1>3 DEF Proceed
<1>4. CASE Get(t)
  <2>1. pc[t] = "get" /\ aim[t] \notin Conditions /\ Proceed(t)
    BY <1>4 DEF Get, MayWait, Typed, Aimed
  <2>2. CV!TypeOK' /\ valid' = valid /\ conditions' = conditions
    BY <1>4 DEF Get, Typed, TypeOK, CV!TypeOK
  <2> QED
    BY <1>1, <1>3, <1>4, <2>1, <2>2 DEF Get
<1>5. CASE Awake(t)
  <2>1. pc[t] = "waiting" /\ aim[t] \notin Conditions /\ Proceed(t)
    BY <1>5 DEF Awake
  <2>2. CV!TypeOK' /\ valid' = valid /\ conditions' = conditions
    BY <1>5 DEF Awake, CV!Return, Typed, TypeOK, CV!TypeOK, CV!States
  <2> QED
    BY <1>1, <1>3, <1>5, <2>1, <2>2 DEF Awake
<1> QED
  BY <1>2, <1>4, <1>5

\* A dispatcher begins a call.
LEMMA TypedCall ==
  ASSUME Typed, aborted' \in BOOLEAN, NEW t \in Dispatchers, NEW k \in Calls, Call(t, k)
  PROVE  Typed'
<1>1. t \in Takers /\ t \notin Workers /\ k \in Aims
  BY Names
<1>2. CASE k \in Conditions
  <2>1. /\ pc' = [pc EXCEPT ![t] = "peek"] /\ cond' = [cond EXCEPT ![t] = k]
        /\ aim' = [aim EXCEPT ![t] = k]
        /\ UNCHANGED <<wsVars, cv, condVars, call, admin, history>>
    BY <1>2 DEF Call, Goto
  <2> QED
    BY <1>1, <1>2, <2>1, Names DEF Typed, TypeOK, Aimed, QueueConsistent, Places,
       CV!TypeOK, wsVars, condVars, history
<1>3. CASE k \notin Conditions
  BY <1>1, <1>3, Names DEF Typed, TypeOK, Aimed, QueueConsistent, Call, Goto, Places,
     CV!TypeOK, wsVars, condVars, history
<1> QED
  BY <1>2, <1>3

\* Dispatching.
LEMMA TypedDispatching ==
  ASSUME Typed, aborted' \in BOOLEAN, NEW t \in Takers,
         \/ Look(t) \/ BeginHandler(t) \/ DispatchNothing(t)
         \/ HandlerReturns(t) \/ HandlerThrows(t)
  PROVE  Typed'
<1>1. CASE Look(t)
  <2>1. CASE trigger[cond[t]]
    BY <1>1, <2>1 DEF Typed, TypeOK, Aimed, QueueConsistent, Look, Goto, Places,
       CV!TypeOK, wsVars, condVars, history
  <2>2. CASE ~trigger[cond[t]]
    BY <1>1, <2>2 DEF Typed, TypeOK, Aimed, QueueConsistent, Look, Done, Goto, Places,
       CV!TypeOK, wsVars, condVars, history
  <2> QED
    BY <2>1, <2>2
<1>2. CASE BeginHandler(t)
  BY <1>2 DEF Typed, TypeOK, Aimed, QueueConsistent, BeginHandler, Goto, Places,
     CV!TypeOK, wsVars
<1>3. CASE DispatchNothing(t)
  BY <1>3 DEF Typed, TypeOK, Aimed, QueueConsistent, DispatchNothing, Done, Goto,
     Places, CV!TypeOK, wsVars
<1>4. CASE HandlerReturns(t)
  BY <1>4 DEF Typed, TypeOK, Aimed, QueueConsistent, HandlerReturns, Done, Goto,
     Places, CV!TypeOK, wsVars
<1>5. CASE HandlerThrows(t)
  BY <1>5 DEF Typed, TypeOK, Aimed, QueueConsistent, HandlerThrows, Goto, Places,
     CV!TypeOK, wsVars
<1> QED
  BY <1>1, <1>2, <1>3, <1>4, <1>5

\* A wake moves sleepers only.
LEMMA WakeTyped ==
  ASSUME CV!TypeOK, CV!WakeOne \/ CV!WakeAll
  PROVE  CV!TypeOK'
BY DEF CV!TypeOK, CV!States, CV!WakeOne, CV!WakeAll, CV!Move, CV!Asleep

\* The shape of a call of SetTriggerValue and of an Attach or Detach under way.
LEMMA Shapes ==
  ASSUME TypeOK
  PROVE  /\ \A t \in Callers : call[t][1] # "none" =>
              /\ call[t] = <<call[t][1], call[t][2]>>
              /\ call[t][1] \in {"set", "copy", "signal"}
              /\ call[t][2] \in Conditions
         /\ admin[1] # "none" =>
              /\ admin = <<admin[1], admin[2]>>
              /\ admin[1] \in {"attached", "triggered", "quiet", "erased", "reset"}
              /\ admin[2] \in Conditions
         /\ NoCall[1] = "none"
BY DEF TypeOK, NoCall

\* enqueueTriggered of an attached condition.
LEMMA Enqueuing ==
  ASSUME Typed, NEW c \in Conditions, Enqueue(c),
         c \in conditions', conditions \subseteq conditions'
  PROVE  /\ queue' \in Seq(Conditions) /\ triggered' \subseteq Conditions
         /\ dropped' \subseteq Conditions
         /\ QueueConsistent'
         /\ Members(queue') = Members(queue) \cup {c}
<1>1. queue \in Seq(Conditions) /\ Once(queue) /\ Members(queue) = triggered
  BY DEF Typed, TypeOK, QueueConsistent, Once
<1>2. Members(queue)' = Members(queue')
  BY DEF Members
<1>3. CASE c \in triggered
  BY <1>1, <1>2, <1>3 DEF Enqueue, Typed, TypeOK, QueueConsistent
<1>4. CASE c \notin triggered
  <2>1. /\ queue' \in Seq(Conditions) /\ Once(queue')
        /\ Members(queue') = Members(queue) \cup {c}
    BY <1>1, <1>4, AppendOnce DEF Enqueue
  <2> QED
    BY <1>1, <1>2, <2>1 DEF Enqueue, Typed, TypeOK, QueueConsistent, Once
<1> QED
  BY <1>3, <1>4

\* SetTriggerValue, by a handler or another thread.
LEMMA TypedCalling ==
  ASSUME Typed, aborted' \in BOOLEAN, NEW t \in Callers,
         \/ \E c \in Conditions : Ask(t, c)
         \/ CallStep(t) \/ SignalAborts(t)
  PROVE  Typed'
<1>1. CASE \E c \in Conditions : Ask(t, c)
  BY <1>1 DEF Typed, TypeOK, Aimed, QueueConsistent, Ask, CV!TypeOK, wsVars,
     condVars, takerVars, history
<1>2. CASE SetTriggerValue(t)
  <2>1. call[t][2] \in Conditions
    BY <1>2, Shapes DEF Typed, SetTriggerValue
  <2> QED
    BY <1>2, <2>1 DEF Typed, TypeOK, Aimed, QueueConsistent, SetTriggerValue,
       CV!TypeOK, wsVars, takerVars
<1>3. CASE SignalAll(t)
  <2>1. call[t][2] \in Conditions
    BY <1>3, Shapes DEF Typed, SignalAll
  <2> QED
    BY <1>3, <2>1 DEF Typed, TypeOK, Aimed, QueueConsistent, SignalAll, CV!TypeOK,
       wsVars, condVars, takerVars, history
<1>4. CASE Signal(t)
  <2>1. call[t][2] \in Conditions
    BY <1>4, Shapes DEF Typed, Signal
  <2>2. /\ queue' \in Seq(Conditions) /\ triggered' \subseteq Conditions
        /\ dropped' \subseteq Conditions
        /\ QueueConsistent' /\ CV!TypeOK'
    <3>1. CASE valid
      BY <1>4, <2>1, <3>1, Enqueuing, WakeTyped DEF Signal, Typed, TypeOK
    <3>2. CASE ~valid
      BY <1>4, <2>1, <3>2 DEF Signal, Typed, TypeOK, CV!TypeOK, QueueConsistent, Members
    <3> QED
      BY <3>1, <3>2
  <2> QED
    BY <1>4, <2>2 DEF Typed, TypeOK, Aimed, Signal, condVars, takerVars
<1>5. CASE SignalAborts(t)
  BY <1>5 DEF Typed, TypeOK, Aimed, QueueConsistent, SignalAborts, CV!TypeOK,
     wsVars, condVars, takerVars, history
<1> QED
  BY <1>1, <1>2, <1>3, <1>4, <1>5 DEF CallStep

\* Administration.
LEMMA TypedAdmin ==
  ASSUME Typed, aborted' \in BOOLEAN, AdminStep
  PROVE  Typed'
<1>1. CASE \E c \in Conditions : Attach(c) \/ ResetTrigger(c) \/ ChangeHandler(c)
  <2>1. PICK c \in Conditions : Attach(c) \/ ResetTrigger(c) \/ ChangeHandler(c)
    BY <1>1
  <2>2. CASE Attach(c)
    BY <2>2 DEF Typed, TypeOK, Aimed, QueueConsistent, Attach, CV!TypeOK, wsVars,
       takerVars, history
  <2>3. CASE ResetTrigger(c)
    BY <2>3 DEF Typed, TypeOK, Aimed, QueueConsistent, ResetTrigger, CV!TypeOK,
       wsVars, takerVars
  <2>4. CASE ChangeHandler(c)
    <3>1. handler' \subseteq Conditions
      BY <2>4 DEF ChangeHandler, Typed, TypeOK
    <3> QED
      BY <2>4, <3>1 DEF Typed, TypeOK, Aimed, QueueConsistent, ChangeHandler,
         CV!TypeOK, wsVars, takerVars, history
  <2> QED
    BY <2>1, <2>2, <2>3, <2>4
<1>2. CASE \E c \in Conditions : Detach(c)
  <2>1. PICK c \in Conditions : Detach(c)
    BY <1>2
  <2>2. queue \in Seq(Conditions) /\ Once(queue) /\ Members(queue) = triggered
    BY DEF Typed, TypeOK, QueueConsistent, Once
  <2>3. /\ queue' \in Seq(Conditions) /\ Once(queue')
        /\ Members(queue') = Members(queue) \ {c}
    BY <2>1, <2>2, WithoutOnce DEF Detach
  <2>4. Members(queue)' = Members(queue')
    BY DEF Members
  <2>5. QueueConsistent'
    BY <2>1, <2>2, <2>3, <2>4 DEF Typed, QueueConsistent, Once, Detach
  <2> QED
    BY <2>1, <2>3, <2>5 DEF Typed, TypeOK, Aimed, Detach, CV!TypeOK, condVars,
       takerVars, history
<1>3. CASE AttachLook \/ DetachForget
  <2>1. admin[2] \in Conditions
    BY <1>3, Shapes DEF Typed, AttachLook, DetachForget
  <2> QED
    BY <1>3, <2>1 DEF Typed, TypeOK, Aimed, QueueConsistent, AttachLook, DetachForget,
       CV!TypeOK, wsVars, condVars, takerVars, history
<1>4. CASE AttachInsert
  <2>1. admin[2] \in Conditions
    BY <1>4, Shapes DEF Typed, AttachInsert
  <2>2. /\ queue' \in Seq(Conditions) /\ triggered' \subseteq Conditions
        /\ dropped' \subseteq Conditions
        /\ QueueConsistent' /\ CV!TypeOK'
    <3>1. CASE admin[1] = "triggered"
      BY <1>4, <2>1, <3>1, Enqueuing, WakeTyped DEF AttachInsert, Typed, TypeOK
    <3>2. CASE admin[1] # "triggered"
      BY <1>4, <2>1, <3>2 DEF AttachInsert, Typed, TypeOK, CV!TypeOK,
         QueueConsistent, Members
    <3> QED
      BY <3>1, <3>2
  <2> QED
    BY <1>4, <2>1, <2>2 DEF Typed, TypeOK, Aimed, AttachInsert, condVars, takerVars
<1>5. CASE DetachReset
  <2>1. admin[2] \in Conditions
    BY <1>5, Shapes DEF Typed, DetachReset
  <2> QED
    BY <1>5, <2>1 DEF Typed, TypeOK, Aimed, QueueConsistent, DetachReset,
       CV!TypeOK, wsVars, takerVars
<1>6. CASE WakeAll \/ \E v \in BOOLEAN : SetValid(v)
  <2>1. CV!TypeOK' /\ valid' \in BOOLEAN
    BY <1>6, WakeTyped DEF WakeAll, SetValid, wsVars, Typed, TypeOK
  <2> QED
    BY <1>6, <2>1 DEF Typed, TypeOK, Aimed, QueueConsistent, WakeAll, SetValid,
       wsVars, condVars, takerVars, history
<1>7. CASE ClearTriggeredQueue
  <2>1. /\ queue' \in Seq(Conditions) /\ DOMAIN queue' = {}
        /\ triggered' = {} /\ dropped' \subseteq Conditions
    BY <1>7 DEF ClearTriggeredQueue, Typed, TypeOK
  <2> QED
    BY <1>7, <2>1 DEF Typed, TypeOK, Aimed, QueueConsistent, Members,
       ClearTriggeredQueue, CV!TypeOK, condVars, takerVars
<1> QED
  BY <1>1, <1>2, <1>3, <1>4, <1>5, <1>6, <1>7 DEF AdminStep

\* Every step.
LEMMA TypedStep ==
  ASSUME Typed, [Next]_vars
  PROVE  Typed'
<1>1. CASE UNCHANGED vars
  BY <1>1 DEF Typed, TypeOK, Aimed, QueueConsistent, Members, CV!TypeOK, vars, wsVars,
     condVars, takerVars, history
<1>2. CASE aborted' = FALSE /\ \E t \in Takers : TakerStep(t) \/ GiveUp(t)
                                 \/ HandlerReturns(t) \/ HandlerThrows(t)
  BY <1>2, TypedWaiting, TypedTaking, TypedDispatching DEF TakerStep
<1>3. CASE aborted' = FALSE /\ \E d \in Dispatchers, k \in Calls : Call(d, k)
  BY <1>3, TypedCall
<1>4. CASE aborted' = FALSE
           /\ \E t \in Callers : CallStep(t) \/ \E c \in Conditions : Ask(t, c)
  BY <1>4, TypedCalling
<1>5. CASE aborted' = FALSE /\ AdminStep
  BY <1>5, TypedAdmin
<1>6. CASE \E t \in Callers : SignalAborts(t)
  BY <1>6, TypedCalling DEF SignalAborts
<1> QED
  BY <1>1, <1>2, <1>3, <1>4, <1>5, <1>6 DEF Next

LEMMA TypedInit == Init => Typed
<1>1. SUFFICES ASSUME Init PROVE Typed
  OBVIOUS
<1>2. queue \in Seq(Conditions) /\ DOMAIN queue = {}
  BY <1>1 DEF Init
<1> QED
  BY <1>1, <1>2, Names DEF Init, Typed, TypeOK, Aimed, QueueConsistent, Members, Places,
     Aims, CV!Init, CV!TypeOK, CV!States

LEMMA AlwaysTyped == Spec => []Typed
BY TypedInit, TypedStep, PTL DEF Spec

\* Every variable keeps its type, and a taker that is about to dispatch, or
\* waits for a condition of its own choice, has a condition in hand.
THEOREM TypeCorrect == Spec => []TypeOK
BY AlwaysTyped, PTL DEF Typed

\* WaitSet's two collections of triggered conditions hold the same conditions,
\* each once, and attached ones only, after any operations in any order.
THEOREM QueueIsConsistent == Spec => []QueueConsistent
BY AlwaysTyped, PTL DEF Typed
-----------------------------------------------------------------------------
(* A trigger set while the handler runs outlives the handler.              *)

\* A handler runs under its condition's mutex, and a condition whose mutex is
\* held has not been triggered since: with this TriggerKept is inductive.
Guarded ==
  /\ \A t \in Takers : pc[t] = "handling" => holder[cond[t]] = t
  /\ \A c \in Conditions : holder[c] # None => c \notin unseen
  /\ TriggerKept

LEMMA GuardedTaker ==
  ASSUME Typed, Guarded, NEW t \in Takers,
         TakerStep(t) \/ GiveUp(t) \/ HandlerReturns(t) \/ HandlerThrows(t)
  PROVE  Guarded'
<1>1. ASSUME UNCHANGED <<trigger, holder, unseen>>, pc[t] # "handling",
             \E q \in Places \ {"handling"} : pc' = [pc EXCEPT ![t] = q],
             \A u \in Takers : u # t => cond'[u] = cond[u]
      PROVE  Guarded'
  BY <1>1 DEF Typed, TypeOK, Guarded, TriggerKept
<1>2. ASSUME TakeFront(t) \/ UNCHANGED <<queue, triggered, cond>>
      PROVE  \A u \in Takers : u # t => cond'[u] = cond[u]
  BY <1>2 DEF TakeFront, Typed, TypeOK
<1>3. CASE t \in Workers /\ (CheckStopped(t) \/ Restart(t))
  BY <1>1, <1>3 DEF CheckStopped, Restart, Goto, Places, condVars, history
<1>4. CASE t \in Dispatchers /\ (Refuse(t) \/ Peek(t) \/ AwakeForOne(t))
  BY <1>1, <1>4 DEF Refuse, Peek, AwakeForOne, Goto, Places, condVars, history
<1>5. CASE t \in Dispatchers /\ Drain(t)
  BY <1>1, <1>2, <1>5 DEF Drain, Goto, Places, condVars, history
<1>6. CASE Get(t) \/ Awake(t)
  <2>1. Proceed(t) /\ pc[t] \in {"get", "waiting"}
    BY <1>6 DEF Get, Awake, MayWait
  <2>2. TakeFront(t) \/ UNCHANGED <<queue, triggered, cond>>
    BY <2>1 DEF Proceed
  <2>3. \E q \in Places \ {"handling"} : pc' = [pc EXCEPT ![t] = q]
    BY <2>1 DEF Proceed, Goto, Places
  <2> QED
    BY <1>1, <1>2, <1>6, <2>1, <2>2, <2>3 DEF Get, Awake, condVars, history
<1>7. CASE Block(t)
  BY <1>1, <1>7 DEF Block, MayWait, Goto, Places, condVars, history
<1>8. CASE WaitAgain(t) \/ GiveUp(t)
  BY <1>8 DEF WaitAgain, GiveUp, Guarded, TriggerKept, condVars, takerVars, history
<1>9. CASE Look(t)
  BY <1>9 DEF Look, Done, Goto, Typed, TypeOK, Guarded, TriggerKept, condVars, history
<1>10. CASE BeginHandler(t)
  BY <1>10, Names DEF BeginHandler, Free, Goto, Typed, TypeOK, Guarded, TriggerKept
<1>11. CASE DispatchNothing(t)
  BY <1>11 DEF DispatchNothing, Done, Goto, Typed, TypeOK, Guarded, TriggerKept
<1>12. CASE HandlerReturns(t)
  BY <1>12, Names DEF HandlerReturns, Done, Goto, Typed, TypeOK, Guarded, TriggerKept
<1>13. CASE HandlerThrows(t)
  BY <1>13, Names DEF HandlerThrows, Goto, Typed, TypeOK, Guarded, TriggerKept
<1> QED
  BY <1>3, <1>4, <1>5, <1>6, <1>7, <1>8, <1>9, <1>10, <1>11, <1>12, <1>13 DEF TakerStep

LEMMA GuardedStep ==
  ASSUME Typed, Guarded, [Next]_vars
  PROVE  Guarded'
<1>1. ASSUME UNCHANGED <<pc, cond, holder, trigger, unseen>>
      PROVE  Guarded'
  BY <1>1 DEF Guarded, TriggerKept
<1>2. CASE UNCHANGED vars
  BY <1>1, <1>2 DEF vars, condVars, takerVars, history
<1>3. CASE \E t \in Takers : TakerStep(t) \/ GiveUp(t)
                             \/ HandlerReturns(t) \/ HandlerThrows(t)
  BY <1>3, GuardedTaker
<1>4. CASE \E d \in Dispatchers, k \in Calls : Call(d, k)
  <2>1. PICK d \in Dispatchers, k \in Calls : Call(d, k)
    BY <1>4
  <2>2. d \in Takers /\ pc[d] = "idle"
    BY <2>1, Names DEF Call
  <2>3. /\ \E q \in {"peek", "get"} : pc' = [pc EXCEPT ![d] = q]
        /\ \A u \in Takers : u # d => cond'[u] = cond[u]
    BY <2>1 DEF Call, Goto, Typed, TypeOK
  <2> QED
    BY <2>1, <2>2, <2>3 DEF Call, Typed, TypeOK, Guarded, TriggerKept, condVars, history
<1>5. CASE \E t \in Callers : CallStep(t) \/ \E c \in Conditions : Ask(t, c)
  <2>1. PICK t \in Callers : CallStep(t) \/ \E c \in Conditions : Ask(t, c)
    BY <1>5
  <2>2. CASE SetTriggerValue(t)
    <3>1. call[t][2] \in Conditions
      BY <2>2, Shapes DEF Typed, SetTriggerValue
    <3> QED
      BY <2>2, <3>1 DEF SetTriggerValue, Free, Typed, TypeOK, Guarded, TriggerKept,
         takerVars
  <2> QED
    BY <1>1, <2>1, <2>2 DEF CallStep, SignalAll, Signal, Ask, condVars, takerVars, history
<1>6. CASE \E c \in Conditions : ResetTrigger(c)
  BY <1>6 DEF ResetTrigger, Typed, TypeOK, Guarded, TriggerKept, takerVars
<1>7. CASE DetachReset
  <2>1. admin[2] \in Conditions
    BY <1>7, Shapes DEF Typed, DetachReset
  <2> QED
    BY <1>7, <2>1 DEF DetachReset, Typed, TypeOK, Guarded, TriggerKept, takerVars
<1>8. CASE \/ \E c \in Conditions : Attach(c) \/ Detach(c) \/ ChangeHandler(c)
           \/ AttachLook \/ AttachInsert \/ DetachForget
           \/ WakeAll \/ ClearTriggeredQueue
           \/ \E v \in BOOLEAN : SetValid(v)
  BY <1>1, <1>8 DEF Attach, Detach, ChangeHandler, AttachLook, AttachInsert,
     DetachForget, WakeAll, ClearTriggeredQueue, SetValid, condVars, takerVars, history
<1>9. CASE \E t \in Callers : SignalAborts(t)
  BY <1>1, <1>9 DEF SignalAborts, condVars, takerVars, history
<1> QED
  BY <1>2, <1>3, <1>4, <1>5, <1>6, <1>7, <1>8, <1>9 DEF Next, AdminStep

LEMMA GuardedInit == Init => Guarded
BY Names DEF Init, Guarded, TriggerKept

LEMMA AlwaysGuarded == Spec => []Guarded
BY AlwaysTyped, GuardedInit, GuardedStep, PTL DEF Spec

\* A trigger that was set after the handler last began is never wiped out: not
\* by the reset at the end of GuardCondition::Dispatch, not by that of Detach.
THEOREM TriggerIsKept == Spec => []TriggerKept
BY AlwaysGuarded, PTL DEF Guarded
-----------------------------------------------------------------------------
(* The wait set and its conditions implement Dispatching.                  *)

\* A handler runs for a trigger: the value stays set until its end.
Answering == \A c \in Conditions : holder[c] # None => trigger[c]

LEMMA AnsweringTaker ==
  ASSUME Typed, Answering, NEW t \in Takers,
         TakerStep(t) \/ GiveUp(t) \/ HandlerReturns(t) \/ HandlerThrows(t)
  PROVE  Answering'
<1>1. CASE UNCHANGED condVars
  BY <1>1 DEF Answering, condVars
<1>2. CASE BeginHandler(t)
  BY <1>2 DEF BeginHandler, Typed, TypeOK, Answering
<1>3. CASE DispatchNothing(t)
  BY <1>3 DEF DispatchNothing, Free, Typed, TypeOK, Answering
<1>4. CASE HandlerReturns(t)
  BY <1>4 DEF HandlerReturns, Typed, TypeOK, Answering
<1>5. CASE HandlerThrows(t)
  BY <1>5 DEF HandlerThrows, Typed, TypeOK, Answering
<1> QED
  BY <1>1, <1>2, <1>3, <1>4, <1>5 DEF TakerStep, CheckStopped, Restart, Refuse, Drain,
     Peek, AwakeForOne, Get, Block, Awake, WaitAgain, GiveUp, Look

LEMMA AnsweringStep ==
  ASSUME Typed, Answering, [Next]_vars
  PROVE  Answering'
<1>1. CASE UNCHANGED <<trigger, holder>>
  BY <1>1 DEF Answering
<1>2. CASE \E t \in Takers : TakerStep(t) \/ GiveUp(t)
                             \/ HandlerReturns(t) \/ HandlerThrows(t)
  BY <1>2, AnsweringTaker
<1>3. ASSUME NEW t \in Callers, SetTriggerValue(t) PROVE Answering'
  BY <1>3, Shapes DEF SetTriggerValue, Typed, TypeOK, Answering
<1>4. ASSUME NEW c \in Conditions, ResetTrigger(c) PROVE Answering'
  BY <1>4 DEF ResetTrigger, Free, Typed, TypeOK, Answering
<1>5. CASE DetachReset
  BY <1>5, Shapes DEF DetachReset, Free, Typed, TypeOK, Answering
<1> QED
  BY <1>1, <1>2, <1>3, <1>4, <1>5 DEF Next, Call, CallStep, SignalAll, Signal, SignalAborts,
     Ask, AdminStep, Attach, Detach, ChangeHandler, AttachLook, AttachInsert, DetachForget,
     WakeAll, ClearTriggeredQueue, SetValid, condVars, vars

LEMMA AlwaysAnswering == Spec => []Answering
<1>1. Init => Answering
  BY DEF Init, Answering
<1> QED
  BY <1>1, AlwaysTyped, AnsweringStep, PTL DEF Spec

\* Nothing that Dispatching knows of changes.
LEMMA Stutters ==
  ASSUME UNCHANGED <<trigger, holder>>,
         \A t \in Takers : /\ pc'[t] = "handling" <=> pc[t] = "handling"
                           /\ pc[t] = "handling" => cond'[t] = cond[t]
  PROVE  UNCHANGED Dispatched!vars
BY DEF Dispatched!vars, Free

\* What the code and a handler that runs see of one condition.
LEMMA Seen ==
  ASSUME Typed, Guarded, NEW c \in Conditions, Free(c)
  PROVE  \A t \in Takers : pc[t] = "handling" => cond[t] # c
BY Names DEF Typed, TypeOK, Guarded, Free

\* A trigger is set, or reset without a handler.
LEMMA SetsTrigger ==
  ASSUME Typed, Guarded, NEW c \in Conditions, NEW value \in BOOLEAN, Free(c),
         trigger' = [trigger EXCEPT ![c] = value], UNCHANGED holder,
         \A t \in Takers : /\ pc'[t] = "handling" <=> pc[t] = "handling"
                           /\ pc[t] = "handling" => cond'[t] = cond[t]
  PROVE  Dispatched!Set(c, value)
<1>1. \A t \in Takers : pc[t] = "handling" => cond[t] # c
  BY Seen
<1>2. c \notin Dispatched!Running
  BY <1>1, Names DEF Dispatched!Running
<1>3. \A k \in Conditions : trigger'[k] = IF k = c THEN value ELSE trigger[k]
  BY DEF Typed, TypeOK
<1>4. {k \in Conditions : trigger'[k] /\ Free(k)'}
        = IF value THEN {k \in Conditions : trigger[k] /\ Free(k)} \cup {c}
          ELSE {k \in Conditions : trigger[k] /\ Free(k)} \ {c}
  BY <1>3 DEF Free
<1> QED
  BY <1>2, <1>4 DEF Dispatched!Set

LEMMA TakerDispatches ==
  ASSUME Typed, Guarded, Answering, NEW t \in Takers,
         TakerStep(t) \/ GiveUp(t) \/ HandlerReturns(t) \/ HandlerThrows(t)
  PROVE  [Dispatched!Next]_(Dispatched!vars)
<1> DEFINE running == [u \in Takers |-> IF pc[u] = "handling" THEN cond[u] ELSE None]
<1>1. ASSUME UNCHANGED <<trigger, holder>>, pc[t] # "handling",
             \E q \in Places \ {"handling"} : pc' = [pc EXCEPT ![t] = q],
             \A u \in Takers : u # t => cond'[u] = cond[u]
      PROVE  UNCHANGED Dispatched!vars
  <2>1. \A u \in Takers : /\ pc'[u] = "handling" <=> pc[u] = "handling"
                          /\ pc[u] = "handling" => cond'[u] = cond[u]
    BY <1>1 DEF Typed, TypeOK
  <2> QED
    BY <1>1, <2>1, Stutters
<1>2. ASSUME TakeFront(t) \/ UNCHANGED <<queue, triggered, cond>>
      PROVE  \A u \in Takers : u # t => cond'[u] = cond[u]
  BY <1>2 DEF TakeFront, Typed, TypeOK
<1>3. CASE t \in Workers /\ (CheckStopped(t) \/ Restart(t))
  BY <1>1, <1>3 DEF CheckStopped, Restart, Goto, Places, condVars
<1>4. CASE t \in Dispatchers /\ (Refuse(t) \/ Peek(t) \/ AwakeForOne(t))
  BY <1>1, <1>4 DEF Refuse, Peek, AwakeForOne, Goto, Places, condVars
<1>5. CASE t \in Dispatchers /\ Drain(t)
  BY <1>1, <1>2, <1>5 DEF Drain, Goto, Places, condVars
<1>6. CASE Get(t) \/ Awake(t)
  <2>1. Proceed(t) /\ pc[t] \in {"get", "waiting"}
    BY <1>6 DEF Get, Awake, MayWait
  <2>2. TakeFront(t) \/ UNCHANGED <<queue, triggered, cond>>
    BY <2>1 DEF Proceed
  <2>3. \E q \in Places \ {"handling"} : pc' = [pc EXCEPT ![t] = q]
    BY <2>1 DEF Proceed, Goto, Places
  <2> QED
    BY <1>1, <1>2, <1>6, <2>1, <2>2, <2>3 DEF Get, Awake, condVars
<1>7. CASE Block(t)
  BY <1>1, <1>7 DEF Block, MayWait, Goto, Places, condVars
<1>8. CASE WaitAgain(t) \/ GiveUp(t)
  BY <1>8, Stutters DEF WaitAgain, GiveUp, condVars, takerVars
<1>9. CASE Look(t)
  <2>1. /\ \E q \in Places \ {"handling"} : pc' = [pc EXCEPT ![t] = q]
        /\ \A u \in Takers : u # t => cond'[u] = cond[u]
    BY <1>9 DEF Look, Done, Goto, Places, Typed, TypeOK
  <2> QED
    BY <1>1, <1>9, <2>1 DEF Look, condVars
<1>10. CASE BeginHandler(t)
  <2>1. PICK c \in Conditions : c = cond[t]
    BY <1>10, Names DEF BeginHandler, Typed, TypeOK
  <2>2. /\ pc[t] = "ready" /\ Free(c) /\ trigger[c]
        /\ pc' = [pc EXCEPT ![t] = "handling"] /\ UNCHANGED <<cond, trigger>>
        /\ holder' = [holder EXCEPT ![c] = t]
    BY <1>10, <2>1 DEF BeginHandler, Goto
  <2>3. c \notin Dispatched!Running
    BY <2>2, Seen, Names DEF Dispatched!Running
  <2>4. \A k \in Conditions : Free(k)' <=> Free(k) /\ k # c
    BY <2>2, Names DEF Free, Typed, TypeOK
  <2>5. {k \in Conditions : trigger'[k] /\ Free(k)'}
          = {k \in Conditions : trigger[k] /\ Free(k)} \ {c}
    BY <2>2, <2>4
  <2>6. running' = [running EXCEPT ![t] = c]
    BY <2>1, <2>2 DEF Typed, TypeOK
  <2>7. Dispatched!Begin(t, c)
    BY <2>2, <2>3, <2>5, <2>6 DEF Dispatched!Begin
  <2> QED
    BY <2>7 DEF Dispatched!Next
<1>11. CASE DispatchNothing(t)
  <2>1. /\ pc[t] = "ready" /\ cond[t] \in Conditions /\ Free(cond[t])
        /\ trigger' = [trigger EXCEPT ![cond[t]] = FALSE] /\ UNCHANGED holder
    BY <1>11, Names DEF DispatchNothing, Typed, TypeOK
  <2>2. \A u \in Takers : /\ pc'[u] = "handling" <=> pc[u] = "handling"
                          /\ pc[u] = "handling" => cond'[u] = cond[u]
    BY <1>11 DEF DispatchNothing, Done, Goto, Typed, TypeOK
  <2>3. Dispatched!Set(cond[t], FALSE)
    BY <2>1, <2>2, SetsTrigger
  <2> QED
    BY <2>1, <2>3 DEF Dispatched!Next
<1>12. ASSUME pc[t] = "handling", holder' = [holder EXCEPT ![cond[t]] = None],
              cond' = [cond EXCEPT ![t] = None],
              \E q \in Places \ {"handling"} : pc' = [pc EXCEPT ![t] = q]
       PROVE  /\ running[t] = cond[t] /\ running[t] # None /\ cond[t] \in Conditions
              /\ running' = [running EXCEPT ![t] = None]
              /\ \A k \in Conditions : Free(k)' <=> Free(k) \/ k = cond[t]
              /\ ~Free(cond[t]) /\ trigger[cond[t]]
  <2>1. cond[t] \in Conditions /\ holder[cond[t]] = t
    BY <1>12, Names DEF Typed, TypeOK, Guarded
  <2>2. ~Free(cond[t]) /\ trigger[cond[t]]
    BY <2>1, Names DEF Free, Answering
  <2>3. \A k \in Conditions : Free(k)' <=> Free(k) \/ k = cond[t]
    BY <1>12, <2>1 DEF Free, Typed, TypeOK
  <2>4. running' = [running EXCEPT ![t] = None]
    BY <1>12 DEF Typed, TypeOK
  <2>5. running[t] = cond[t]
    BY <1>12
  <2>6. running[t] # None
    BY <2>1, <2>5, Names
  <2> QED
    BY <2>1, <2>2, <2>3, <2>4, <2>5, <2>6
<1>13. CASE HandlerReturns(t)
  <2>1. /\ pc[t] = "handling" /\ holder' = [holder EXCEPT ![cond[t]] = None]
        /\ cond' = [cond EXCEPT ![t] = None]
        /\ trigger' = [trigger EXCEPT ![cond[t]] = FALSE]
        /\ pc' = [pc EXCEPT ![t] = IF aim[t] = "all" THEN "drain" ELSE "idle"]
    BY <1>13 DEF HandlerReturns, Done, Goto
  <2>2. \E q \in Places \ {"handling"} : pc' = [pc EXCEPT ![t] = q]
    <3>1. PICK q \in {"drain", "idle"} : q = IF aim[t] = "all" THEN "drain" ELSE "idle"
      OBVIOUS
    <3>2. q \in Places \ {"handling"} /\ pc' = [pc EXCEPT ![t] = q]
      BY <2>1, <3>1 DEF Places
    <3> QED
      BY <3>2
  <2>3. \A k \in Conditions : trigger'[k] <=> trigger[k] /\ k # cond[t]
    BY <2>1 DEF Typed, TypeOK
  <2>4. {k \in Conditions : trigger'[k] /\ Free(k)'}
          = {k \in Conditions : trigger[k] /\ Free(k)}
    BY <1>12, <2>1, <2>2, <2>3
  <2>5. Dispatched!Return(t)
    BY <1>12, <2>1, <2>2, <2>4 DEF Dispatched!Return
  <2> QED
    BY <2>5 DEF Dispatched!Next
<1>14. CASE HandlerThrows(t)
  <2>1. /\ pc[t] = "handling" /\ holder' = [holder EXCEPT ![cond[t]] = None]
        /\ cond' = [cond EXCEPT ![t] = None] /\ UNCHANGED trigger
        /\ \E q \in Places \ {"handling"} : pc' = [pc EXCEPT ![t] = q]
    BY <1>14 DEF HandlerThrows, Goto, Places
  <2>2. {k \in Conditions : trigger'[k] /\ Free(k)'}
          = {k \in Conditions : trigger[k] /\ Free(k)} \cup {cond[t]}
    BY <1>12, <2>1
  <2>3. Dispatched!Throw(t)
    BY <1>12, <2>1, <2>2 DEF Dispatched!Throw
  <2> QED
    BY <2>3 DEF Dispatched!Next
<1> QED
  BY <1>3, <1>4, <1>5, <1>6, <1>7, <1>8, <1>9, <1>10, <1>11, <1>13, <1>14 DEF TakerStep

LEMMA StepDispatches ==
  ASSUME Typed, Guarded, Answering, [Next]_vars
  PROVE  [Dispatched!Next]_(Dispatched!vars)
<1>1. ASSUME UNCHANGED <<pc, cond, holder, trigger>>
      PROVE  UNCHANGED Dispatched!vars
  BY <1>1, Stutters
<1>2. ASSUME NEW c \in Conditions, NEW value \in BOOLEAN, Free(c), UNCHANGED <<pc, cond, holder>>,
             trigger' = [trigger EXCEPT ![c] = value]
      PROVE  Dispatched!Next
  BY <1>2, SetsTrigger DEF Dispatched!Next
<1>3. CASE \E t \in Takers : TakerStep(t) \/ GiveUp(t)
                             \/ HandlerReturns(t) \/ HandlerThrows(t)
  BY <1>3, TakerDispatches
<1>4. ASSUME NEW d \in Dispatchers, NEW k \in Calls, Call(d, k)
      PROVE  UNCHANGED Dispatched!vars
  <2>1. /\ pc[d] = "idle" /\ \E q \in {"peek", "get"} : pc' = [pc EXCEPT ![d] = q]
        /\ \A u \in Takers : u # d => cond'[u] = cond[u]
        /\ UNCHANGED <<trigger, holder>>
    BY <1>4 DEF Call, Goto, condVars, Typed, TypeOK
  <2>2. \A u \in Takers : /\ pc'[u] = "handling" <=> pc[u] = "handling"
                          /\ pc[u] = "handling" => cond'[u] = cond[u]
    BY <2>1 DEF Typed, TypeOK
  <2> QED
    BY <2>1, <2>2, Stutters
<1>5. ASSUME NEW t \in Callers, SetTriggerValue(t) PROVE Dispatched!Next
  BY <1>2, <1>5, Shapes DEF SetTriggerValue, takerVars, Typed
<1>6. ASSUME NEW c \in Conditions, ResetTrigger(c) PROVE Dispatched!Next
  BY <1>2, <1>6 DEF ResetTrigger, takerVars
<1>7. CASE DetachReset
  BY <1>2, <1>7, Shapes DEF DetachReset, takerVars, Typed
<1> QED
  BY <1>1, <1>3, <1>4, <1>5, <1>6, <1>7 DEF Next, CallStep, SignalAll, Signal, SignalAborts,
     Ask, AdminStep, Attach, Detach, ChangeHandler, AttachLook, AttachInsert, DetachForget,
     WakeAll, ClearTriggeredQueue, SetValid, condVars, takerVars, vars

LEMMA InitDispatches == Init => Dispatched!Init
BY Names DEF Init, Dispatched!Init

\* For any conditions, threads and administrative operations, the handlers run as
\* Dispatching says: each for a trigger and under its condition's mutex, which keeps
\* the triggers that come while it runs for the next run (GuardCondition::Dispatch,
\* SetTriggerValue, WaitSet's Attach and Detach).
THEOREM DispatchingIsImplemented == Spec => ImplementsDispatching
BY AlwaysTyped, AlwaysGuarded, AlwaysAnswering, InitDispatches, StepDispatches, PTL
DEF Spec, ImplementsDispatching, Dispatched!Spec

\* Two takers never run the handler of one condition, and a handler that runs leaves
\* no older trigger pending: GuardCondition::Dispatch holds the mutex.
THEOREM HandlersExclude == Spec => []Dispatched!Exclusive
<1>1. Typed /\ Guarded => Dispatched!Exclusive
  <2>1. SUFFICES ASSUME Typed, Guarded PROVE Dispatched!Exclusive
    OBVIOUS
  <2>2. \A t \in Takers : pc[t] = "handling" => cond[t] \in Conditions /\ holder[cond[t]] = t
    BY <2>1, Names DEF Typed, TypeOK, Guarded
  <2> QED
    BY <2>2, Names DEF Dispatched!Exclusive, Dispatched!Running, Free
<1> QED
  BY <1>1, AlwaysTyped, AlwaysGuarded, PTL
-----------------------------------------------------------------------------
(* No trigger is lost.                                                     *)

\* The wait set knows no condition that does not know the wait set, and Attach
\* and Detach keep it so by the order of their two halves; a condition that
\* Attach found quiet and that has triggered since is accounted for already.
Attachment ==
  /\ conditions \subseteq attached
  /\ admin[1] \in {"erased", "reset"} => admin[2] \notin conditions
  /\ admin[1] \in {"attached", "triggered", "quiet"} => admin[2] \in attached

Claimed(c) == trigger[c] /\ (c \in conditions \/ admin = <<"quiet", c>>)

Lossless == Attachment /\ \A c \in Conditions : Claimed(c) => Accounted(c)

\* A step of one taker: it need account only for the conditions that were
\* queued, dropped or in its own hand.
LEMMA StaysAccounted ==
  ASSUME NEW c, NEW t \in Takers, Accounted(c), UNCHANGED <<call, admin>>,
         \A u \in Takers : u # t => cond'[u] = cond[u] /\ pc'[u] = pc[u],
         \/ c \in Members(queue) \cup dropped
         \/ cond[t] = c /\ pc[t] \in {"look", "ready", "handling"}
         => \/ c \in Members(queue') \cup dropped'
            \/ cond'[t] = c /\ pc'[t] \in {"look", "ready", "handling"}
  PROVE  Accounted(c)'
<1>1. Members(queue)' = Members(queue')
  BY DEF Members
<1> QED
  BY <1>1 DEF Accounted, InHand

LEMMA LosslessTaker ==
  ASSUME Typed, Lossless, NEW t \in Takers,
         TakerStep(t) \/ GiveUp(t) \/ HandlerReturns(t) \/ HandlerThrows(t)
  PROVE  Lossless'
<1>1. /\ UNCHANGED <<conditions, attached, call, admin>>
      /\ \A u \in Takers : u # t => cond'[u] = cond[u] /\ pc'[u] = pc[u]
  BY DEF Typed, TypeOK, TakerStep, CheckStopped, Restart, Refuse, Drain, Peek,
     AwakeForOne, Get, Block, Awake, WaitAgain, GiveUp, Proceed, TakeFront, Goto,
     Look, BeginHandler, DispatchNothing, HandlerReturns, HandlerThrows, Done,
     wsVars, condVars, takerVars
<1>2. ASSUME \A c \in Conditions :
               trigger'[c] =>
                 /\ trigger[c]
                 /\ \/ c \in Members(queue) \cup dropped
                    \/ cond[t] = c /\ pc[t] \in {"look", "ready", "handling"}
                    => \/ c \in Members(queue') \cup dropped'
                       \/ cond'[t] = c /\ pc'[t] \in {"look", "ready", "handling"}
      PROVE  Lossless'
  <2>1. \A c \in Conditions : trigger'[c] /\ Accounted(c) => Accounted(c)'
    BY <1>1, <1>2, StaysAccounted
  <2> QED
    BY <1>1, <1>2, <2>1 DEF Lossless, Attachment, Claimed
<1>3. CASE UNCHANGED <<queue, dropped, trigger, cond>>
           /\ pc[t] \notin {"look", "ready", "handling"}
  BY <1>2, <1>3
<1>4. CASE UNCHANGED <<queue, dropped, trigger, cond, pc>>
  BY <1>2, <1>4
<1>5. CASE /\ TakeFront(t) /\ Goto(t, "look") /\ UNCHANGED <<dropped, trigger>>
           /\ pc[t] \notin {"look", "ready", "handling"}
  <2>1. /\ Members(queue) = Members(queue') \cup {Head(queue)}
        /\ cond' = [cond EXCEPT ![t] = Head(queue)]
    BY <1>1, <1>5, Taking
  <2>2. cond'[t] = Head(queue) /\ pc'[t] = "look"
    BY <1>5, <2>1 DEF Goto, Typed, TypeOK
  <2> QED
    BY <1>2, <1>5, <2>1, <2>2
<1>6. CASE t \in Workers /\ (CheckStopped(t) \/ Restart(t))
  BY <1>3, <1>6 DEF CheckStopped, Restart, wsVars, condVars, history
<1>7. CASE t \in Dispatchers /\ (Refuse(t) \/ Drain(t) \/ Peek(t) \/ AwakeForOne(t))
  BY <1>3, <1>5, <1>7 DEF Refuse, Drain, Peek, AwakeForOne, wsVars, condVars, history
<1>8. CASE Get(t) \/ Awake(t)
  <2>1. Proceed(t) /\ pc[t] \in {"get", "waiting"} /\ UNCHANGED <<dropped, trigger>>
    BY <1>8 DEF Get, Awake, MayWait, condVars, history
  <2>2. (TakeFront(t) /\ Goto(t, "look")) \/ UNCHANGED <<queue, cond>>
    BY <2>1 DEF Proceed
  <2> QED
    BY <1>3, <1>5, <2>1, <2>2
<1>9. CASE Block(t)
  BY <1>3, <1>9 DEF Block, MayWait, wsVars, condVars, history
<1>10. CASE WaitAgain(t) \/ GiveUp(t)
  BY <1>4, <1>10 DEF WaitAgain, GiveUp, wsVars, condVars, takerVars, history
<1>11. CASE Look(t)
  BY <1>2, <1>11 DEF Look, Done, Goto, Typed, TypeOK, wsVars, condVars, history
<1>12. CASE BeginHandler(t)
  BY <1>2, <1>12 DEF BeginHandler, Goto, Typed, TypeOK, wsVars
<1>13. CASE DispatchNothing(t)
  BY <1>2, <1>13 DEF DispatchNothing, Done, Goto, Typed, TypeOK, wsVars
<1>14. CASE HandlerReturns(t)
  BY <1>2, <1>14 DEF HandlerReturns, Done, Goto, Typed, TypeOK, wsVars
<1>15. CASE HandlerThrows(t)
  BY <1>2, <1>15 DEF HandlerThrows, Goto, Typed, TypeOK, wsVars
<1> QED
  BY <1>6, <1>7, <1>8, <1>9, <1>10, <1>11, <1>12, <1>13, <1>14, <1>15 DEF TakerStep

\* Steps that touch neither hands, calls nor Attach.
LEMMA LosslessFrame ==
  ASSUME Lossless, UNCHANGED <<conditions, attached, call, admin, cond, pc>>,
         \A c \in Conditions : trigger'[c] =>
           trigger[c] /\ (c \in Members(queue) \cup dropped
                            => c \in Members(queue') \cup dropped')
  PROVE  Lossless'
<1>1. Members(queue)' = Members(queue')
  BY DEF Members
<1>2. \A c \in Conditions : trigger'[c] /\ Accounted(c) => Accounted(c)'
  BY <1>1 DEF Accounted, InHand
<1> QED
  BY <1>2 DEF Lossless, Attachment, Claimed

\* SetTriggerValue: from the condition's mutex to the wait set's.
LEMMA LosslessCalling ==
  ASSUME Typed, Lossless, NEW t \in Callers,
         CallStep(t) \/ \E c \in Conditions : Ask(t, c)
  PROVE  Lossless'
<1> DEFINE c == call[t][2]
<1>1. Members(queue)' = Members(queue')
  BY DEF Members
<1>2. CASE \E k \in Conditions : Ask(t, k)
  <2>1. /\ call[t] = NoCall /\ \A u \in Callers : u # t => call'[u] = call[u]
        /\ UNCHANGED <<queue, dropped, cond, pc, admin, trigger, conditions, attached>>
    BY <1>2 DEF Ask, Typed, TypeOK, wsVars, condVars, takerVars, history
  <2>2. \A k \in Conditions : Accounted(k) => Accounted(k)'
    BY <1>1, <2>1 DEF Accounted, InHand, NoCall
  <2> QED
    BY <2>1, <2>2 DEF Lossless, Attachment, Claimed
<1>3. CASE SetTriggerValue(t)
  <2>1. c \in Conditions /\ call[t] = <<"set", c>>
    BY <1>3, Shapes DEF Typed, SetTriggerValue
  <2>2. /\ call' = [call EXCEPT ![t] = <<"copy", c>>]
        /\ trigger' = [trigger EXCEPT ![c] = TRUE]
        /\ UNCHANGED <<queue, dropped, cond, pc, admin, conditions, attached>>
    BY <1>3 DEF SetTriggerValue, wsVars, takerVars
  <2>3. /\ call'[t] = <<"copy", c>> /\ \A u \in Callers : u # t => call'[u] = call[u]
        /\ \A k \in Conditions : k # c => trigger'[k] = trigger[k]
    BY <2>1, <2>2 DEF Typed, TypeOK
  <2>4. Accounted(c)'
    BY <2>3 DEF Accounted
  <2>5. \A k \in Conditions : Accounted(k) => Accounted(k)'
    BY <1>1, <2>1, <2>2, <2>3 DEF Accounted, InHand
  <2> QED
    BY <2>2, <2>3, <2>4, <2>5 DEF Lossless, Attachment, Claimed
<1>4. CASE SignalAll(t)
  <2>1. c \in Conditions /\ call[t] = <<"copy", c>>
    BY <1>4, Shapes DEF Typed, SignalAll
  <2>2. /\ call' = [call EXCEPT ![t] = IF c \in attached THEN <<"signal", c>> ELSE NoCall]
        /\ UNCHANGED <<queue, dropped, cond, pc, admin, trigger, conditions, attached>>
    BY <1>4 DEF SignalAll, wsVars, condVars, takerVars, history
  <2>3. /\ c \in attached => call'[t] = <<"signal", c>>
        /\ \A u \in Callers : u # t => call'[u] = call[u]
    BY <2>1, <2>2 DEF Typed, TypeOK
  <2>4. \A k \in Conditions : Accounted(k) /\ (k # c \/ c \in attached) => Accounted(k)'
    BY <1>1, <2>1, <2>2, <2>3 DEF Accounted, InHand
  <2>5. Claimed(c) => c \in attached
    BY DEF Lossless, Attachment, Claimed
  <2> QED
    BY <2>2, <2>4, <2>5 DEF Lossless, Attachment, Claimed
<1>5. CASE Signal(t)
  <2>1. c \in Conditions /\ call[t] = <<"signal", c>>
    BY <1>5, Shapes DEF Typed, Signal
  <2>2. /\ call' = [call EXCEPT ![t] = NoCall]
        /\ UNCHANGED <<cond, pc, admin, trigger, conditions, attached>>
    BY <1>5 DEF Signal, condVars, takerVars
  <2>3. \A u \in Callers : u # t => call'[u] = call[u]
    BY <2>2 DEF Typed, TypeOK
  <2>4. Members(queue') \cup dropped' = Members(queue) \cup dropped \cup {c}
    <3>1. CASE valid
      <4>1. Enqueue(c) /\ c \in conditions'
        BY <1>5, <3>1 DEF Signal
      <4>2. Members(queue') = Members(queue) \cup {c} /\ dropped' = dropped \ {c}
        BY <2>1, <2>2, <4>1, Enqueuing DEF Enqueue
      <4> QED
        BY <4>2
    <3>2. CASE ~valid
      BY <1>5, <3>2 DEF Signal
    <3> QED
      BY <3>1, <3>2
  <2>5. \A k \in Conditions : Accounted(k) => Accounted(k)'
    BY <1>1, <2>1, <2>2, <2>3, <2>4 DEF Accounted, InHand
  <2> QED
    BY <2>2, <2>5 DEF Lossless, Attachment, Claimed
<1> QED
  BY <1>2, <1>3, <1>4, <1>5 DEF CallStep

\* Attach and Detach, in halves.
LEMMA LosslessAdmin ==
  ASSUME Typed, Lossless, AdminStep
  PROVE  Lossless'
<1> DEFINE a == admin[2]
<1>1. Members(queue)' = Members(queue')
  BY DEF Members
<1>2. /\ admin[1] # "none" => admin = <<admin[1], a>> /\ a \in Conditions
      /\ NoCall[1] = "none"
  BY Shapes DEF Typed
<1>3. ASSUME UNCHANGED <<call, cond, pc>>, admin # <<"triggered", a>>
      PROVE  \A k \in Conditions :
               Accounted(k) /\ (k \in Members(queue) \cup dropped
                                  => k \in Members(queue') \cup dropped')
                 => Accounted(k)'
  BY <1>1, <1>2, <1>3 DEF Accounted, InHand
<1>4. CASE \E c \in Conditions : Attach(c)
  <2>1. PICK c \in Conditions : Attach(c)
    BY <1>4
  <2>2. /\ admin = NoCall /\ admin' = <<"attached", c>> /\ attached' = attached \cup {c}
        /\ UNCHANGED <<queue, dropped, call, cond, pc, trigger, conditions>>
    BY <2>1 DEF Attach, wsVars, takerVars, history
  <2>3. \A k \in Conditions : Accounted(k) => Accounted(k)'
    BY <1>2, <1>3, <2>2
  <2> QED
    BY <1>2, <2>2, <2>3 DEF Lossless, Attachment, Claimed
<1>5. CASE \E c \in Conditions : Detach(c)
  <2>1. PICK c \in Conditions : Detach(c)
    BY <1>5
  <2>2. /\ admin = NoCall /\ admin' = <<"erased", c>> /\ conditions' = conditions \ {c}
        /\ queue' = Without(queue, c)
        /\ UNCHANGED <<dropped, call, cond, pc, trigger, attached>>
    BY <2>1 DEF Detach, condVars, takerVars, history
  <2>3. Members(queue') = Members(queue) \ {c}
    BY <2>2, WithoutOnce DEF Typed, TypeOK, QueueConsistent, Once
  <2>4. \A k \in Conditions : k # c /\ Accounted(k) => Accounted(k)'
    BY <1>2, <1>3, <2>2, <2>3
  <2> QED
    BY <1>2, <2>2, <2>4 DEF Lossless, Attachment, Claimed
<1>6. CASE \E c \in Conditions : ResetTrigger(c) \/ ChangeHandler(c)
  BY <1>6, LosslessFrame DEF ResetTrigger, ChangeHandler, Typed, TypeOK, wsVars,
     takerVars, history
<1>7. CASE AttachLook
  <2>1. /\ admin = <<"attached", a>> /\ a \in Conditions
        /\ admin' = <<IF trigger[a] THEN "triggered" ELSE "quiet", a>>
        /\ UNCHANGED <<queue, dropped, call, cond, pc, trigger, conditions, attached>>
    BY <1>2, <1>7 DEF AttachLook, wsVars, condVars, takerVars, history
  <2>2. \A k \in Conditions : Accounted(k) => Accounted(k)'
    BY <1>3, <2>1
  <2>3. CASE trigger[a]
    <3>1. admin' = <<"triggered", a>>
      BY <2>1, <2>3
    <3>2. Accounted(a)'
      BY <3>1 DEF Accounted
    <3> QED
      BY <2>1, <2>2, <3>1, <3>2 DEF Lossless, Attachment, Claimed
  <2>4. CASE ~trigger[a]
    <3>1. admin' = <<"quiet", a>>
      BY <2>1, <2>4
    <3> QED
      BY <2>1, <2>2, <2>4, <3>1 DEF Lossless, Attachment, Claimed
  <2> QED
    BY <2>3, <2>4
<1>8. CASE AttachInsert
  <2>1. /\ admin \in {<<"triggered", a>>, <<"quiet", a>>} /\ a \in Conditions
        /\ admin' = NoCall /\ conditions' = conditions \cup {a}
        /\ UNCHANGED <<call, cond, pc, trigger, attached>>
    BY <1>2, <1>8 DEF AttachInsert, condVars, takerVars
  <2>2. CASE admin[1] = "triggered"
    <3>1. Members(queue') = Members(queue) \cup {a} /\ dropped' = dropped \ {a}
      BY <1>8, <2>1, <2>2, Enqueuing DEF AttachInsert, Enqueue
    <3>2. \A k \in Conditions : k = a \/ Accounted(k) => Accounted(k)'
      BY <1>1, <2>1, <2>2, <3>1 DEF Accounted, InHand
    <3> QED
      BY <1>2, <2>1, <3>2 DEF Lossless, Attachment, Claimed
  <2>3. CASE admin[1] # "triggered"
    <3>1. admin = <<"quiet", a>> /\ UNCHANGED <<queue, dropped>>
      BY <1>8, <2>1, <2>3 DEF AttachInsert
    <3>2. \A k \in Conditions : Accounted(k) => Accounted(k)'
      BY <1>3, <2>1, <3>1
    <3> QED
      BY <1>2, <2>1, <3>1, <3>2 DEF Lossless, Attachment, Claimed
  <2> QED
    BY <2>2, <2>3
<1>9. CASE DetachReset
  <2>1. /\ admin = <<"erased", a>> /\ a \in Conditions /\ admin' = <<"reset", a>>
        /\ trigger' = [trigger EXCEPT ![a] = FALSE] /\ dropped' = dropped \ {a}
        /\ UNCHANGED <<queue, call, cond, pc, conditions, attached>>
    BY <1>2, <1>9 DEF DetachReset, wsVars, takerVars
  <2>2. \A k \in Conditions : k # a /\ Accounted(k) => Accounted(k)'
    BY <1>3, <2>1
  <2> QED
    BY <2>1, <2>2 DEF Lossless, Attachment, Claimed, Typed, TypeOK
<1>10. CASE DetachForget
  <2>1. /\ admin = <<"reset", a>> /\ a \in Conditions /\ admin' = NoCall
        /\ attached' = attached \ {a}
        /\ UNCHANGED <<queue, dropped, call, cond, pc, trigger, conditions>>
    BY <1>2, <1>10 DEF DetachForget, wsVars, takerVars, history
  <2>2. \A k \in Conditions : Accounted(k) => Accounted(k)'
    BY <1>3, <2>1
  <2> QED
    BY <1>2, <2>1, <2>2 DEF Lossless, Attachment, Claimed
<1>11. CASE WakeAll \/ \E v \in BOOLEAN : SetValid(v)
  BY <1>11, LosslessFrame DEF WakeAll, SetValid, wsVars, condVars, takerVars, history
<1>12. CASE ClearTriggeredQueue
  BY <1>12, LosslessFrame DEF ClearTriggeredQueue, Typed, QueueConsistent, condVars, takerVars
<1> QED
  BY <1>4, <1>5, <1>6, <1>7, <1>8, <1>9, <1>10, <1>11, <1>12 DEF AdminStep

LEMMA LosslessStep ==
  ASSUME Typed, Lossless, [Next]_vars
  PROVE  Lossless'
<1>1. CASE UNCHANGED vars
  BY <1>1, LosslessFrame DEF vars, wsVars, condVars, takerVars, history
<1>2. CASE \E t \in Takers : TakerStep(t) \/ GiveUp(t)
                             \/ HandlerReturns(t) \/ HandlerThrows(t)
  BY <1>2, LosslessTaker
<1>3. CASE \E d \in Dispatchers, k \in Calls : Call(d, k)
  <2>1. PICK d \in Dispatchers, k \in Calls : Call(d, k)
    BY <1>3
  <2>2. /\ d \in Takers /\ pc[d] = "idle"
        /\ \A u \in Takers : u # d => cond'[u] = cond[u] /\ pc'[u] = pc[u]
        /\ UNCHANGED <<queue, dropped, call, admin, trigger, conditions, attached>>
    BY <2>1, Names DEF Call, Goto, Typed, TypeOK, wsVars, condVars, history
  <2>3. \A c \in Conditions : Accounted(c) => Accounted(c)'
    BY <2>2, StaysAccounted
  <2> QED
    BY <2>2, <2>3 DEF Lossless, Attachment, Claimed
<1>4. CASE \E t \in Callers : CallStep(t) \/ \E c \in Conditions : Ask(t, c)
  BY <1>4, LosslessCalling
<1>5. CASE AdminStep
  BY <1>5, LosslessAdmin
<1>6. CASE \E t \in Callers : SignalAborts(t)
  BY <1>6, LosslessFrame DEF SignalAborts, wsVars, condVars, takerVars, history
<1> QED
  BY <1>1, <1>2, <1>3, <1>4, <1>5, <1>6 DEF Next

LEMMA LosslessInit == Init => Lossless
BY DEF Init, Lossless, Attachment, Claimed, NoCall

\* A trigger that is set while its condition is attached is never lost between
\* the two mutexes: it is queued, in the hands of a taker, about to be
\* signalled or queued, or was dropped by a step that drops it on purpose.
THEOREM NoTriggerIsLost == Spec => []NoLostTrigger
<1>1. Typed /\ Lossless => NoLostTrigger
  BY DEF Typed, TypeOK, Lossless, Claimed, NoLostTrigger
<1> QED
  BY <1>1, AlwaysTyped, LosslessInit, LosslessStep, PTL DEF Spec
-----------------------------------------------------------------------------
(* The ASSERT of Signal.                                                   *)

\* The condition that an Attach under way has told of the wait set, and not yet the wait
\* set of it.
Half == IF admin[1] \in {"attached", "triggered", "quiet"} THEN {admin[2]} ELSE {}

\* Without Detach only such a condition can be signalled that the wait set does not know.
Known ==
  /\ attached \subseteq conditions \cup Half
  /\ \A t \in Callers : call[t][1] = "signal" => call[t][2] \in attached
  /\ admin[1] \notin {"erased", "reset"}

LEMMA KnownCalling ==
  ASSUME Typed, Known, NEW t \in Callers,
         CallStep(t) \/ \E c \in Conditions : Ask(t, c)
  PROVE  Known'
<1>1. UNCHANGED <<attached, conditions, admin>>
  BY DEF CallStep, SetTriggerValue, SignalAll, Signal, Ask, wsVars, condVars, takerVars
<1>2. \/ \E c \in Conditions : call' = [call EXCEPT ![t] = <<"set", c>>]
      \/ call' = [call EXCEPT ![t] = <<"copy", call[t][2]>>]
      \/ call[t][2] \in attached /\ call' = [call EXCEPT ![t] = <<"signal", call[t][2]>>]
      \/ call' = [call EXCEPT ![t] = NoCall]
  BY DEF CallStep, SetTriggerValue, SignalAll, Signal, Ask
<1>3. \A u \in Callers : call'[u][1] = "signal" => call'[u][2] \in attached
  BY <1>2 DEF Typed, TypeOK, Known, NoCall
<1> QED
  BY <1>1, <1>3 DEF Known, Half

LEMMA KnownStep ==
  ASSUME "Detach" \notin Ops, Typed, Known, [Next]_vars
  PROVE  Known'
<1>1. CASE UNCHANGED <<attached, conditions, admin, call>>
  BY <1>1 DEF Known, Half
<1>2. ASSUME NEW t \in Callers, CallStep(t) \/ \E c \in Conditions : Ask(t, c)
      PROVE  Known'
  BY <1>2, KnownCalling
<1>3. CASE \E t \in Takers : TakerStep(t) \/ GiveUp(t) \/ HandlerReturns(t) \/ HandlerThrows(t)
  BY <1>1, <1>3 DEF TakerStep, CheckStopped, Restart, Refuse, Drain, Peek, AwakeForOne, Get,
     Block, Awake, WaitAgain, GiveUp, Look, BeginHandler, DispatchNothing, HandlerReturns,
     HandlerThrows, wsVars, condVars
<1>4. ASSUME NEW c \in Conditions, Attach(c) PROVE Known'
  BY <1>4 DEF Attach, Known, Half, NoCall, wsVars
<1>5. CASE AttachLook
  BY <1>5 DEF AttachLook, Known, Half, wsVars, condVars
<1>6. CASE AttachInsert
  BY <1>6 DEF AttachInsert, Known, Half, NoCall, condVars
<1>7. ~DetachReset /\ ~DetachForget /\ \A c \in Conditions : ~Detach(c)
  BY DEF DetachReset, DetachForget, Detach, Known
<1> QED
  BY <1>1, <1>2, <1>3, <1>4, <1>5, <1>6, <1>7 DEF Next, Call, SignalAborts, AdminStep,
     ResetTrigger, ChangeHandler, WakeAll, ClearTriggeredQueue, SetValid, wsVars, condVars, vars

\* While nothing is detached, a trigger fails the ASSERT of WaitSet::Signal only if it comes
\* to the wait set between the two halves of an Attach of its own condition.
THEOREM AbortsOnlyInAttach ==
  ASSUME "Detach" \notin Ops
  PROVE  Spec => [][aborted' /\ ~aborted =>
                      /\ admin[1] \in {"attached", "triggered", "quiet"}
                      /\ \E t \in Callers : call[t] = <<"signal", admin[2]>>]_vars
<1> DEFINE InAttach == aborted' /\ ~aborted =>
                         /\ admin[1] \in {"attached", "triggered", "quiet"}
                         /\ \E t \in Callers : call[t] = <<"signal", admin[2]>>
<1>1. Init => Known
  BY DEF Init, Known, NoCall
<1>2. Typed /\ Known /\ [Next]_vars => Known'
  BY KnownStep
<1>3. Typed /\ Known /\ [Next]_vars => [InAttach]_vars
  <2> SUFFICES ASSUME Typed, Known, Next, aborted', ~aborted
               PROVE  /\ admin[1] \in {"attached", "triggered", "quiet"}
                      /\ \E t \in Callers : call[t] = <<"signal", admin[2]>>
    OBVIOUS
  <2>1. PICK t \in Callers : SignalAborts(t)
    BY DEF Next
  <2>2. call[t][2] \in Half
    BY <2>1 DEF SignalAborts, Known
  <2>3. call[t] = <<"signal", call[t][2]>>
    BY <2>1, Shapes DEF SignalAborts, Typed
  <2> QED
    BY <2>2, <2>3 DEF Half
<1> QED
  BY <1>1, <1>2, <1>3, AlwaysTyped, PTL DEF Spec
-----------------------------------------------------------------------------
(* One wake per signal is enough.                                          *)

\* The theorem is about finitely many takers that come for the queue, all of them:
\* Wait and WaitDispatch(condition) absorb a wake and leave the queue alone.
ForTheQueue == IsFiniteSet(Takers) /\ Calls \subseteq {"all", "next"}

\* Whoever is inside WaitCondition::wait is where the model says it waits, and no
\* call is one of those that leave the queue alone.
Coming ==
  /\ \A t \in Takers : aim[t] \in {"all", "next"} /\ pc[t] \notin {"peek", "block"}
  /\ \A t \in Takers : cv[t] # "out" => pc[t] = "waiting"

Working == Typed /\ Coming /\ WorkConserved

LEMMA HeadingIsFinite ==
  ASSUME ForTheQueue
  PROVE  IsFiniteSet(Heading) /\ Cardinality(Heading) \in Nat
<1>1. Heading \subseteq Takers
  BY DEF Heading
<1> QED
  BY <1>1, FS_Subset, FS_CardinalityType DEF ForTheQueue

LEMMA NextHeadingIsFinite ==
  ASSUME ForTheQueue
  PROVE  IsFiniteSet(Heading') /\ Cardinality(Heading') \in Nat
<1>1. Heading' \subseteq Takers
  BY DEF Heading
<1> QED
  BY <1>1, FS_Subset, FS_CardinalityType DEF ForTheQueue

LEMMA PrimedWorkConserved ==
  ASSUME CV!Asleep' # {} => Len(queue') <= Cardinality(Heading')
  PROVE  WorkConserved'
BY DEF WorkConserved

\* The four kinds of step.  Nobody turns away, and nothing is added.
LEMMA NobodyTurnsAway ==
  ASSUME ForTheQueue, Working, queue' \in Seq(Conditions),
         CV!Asleep' \subseteq CV!Asleep, Len(queue') <= Len(queue), Heading \subseteq Heading'
  PROVE  WorkConserved'
<1>1. Cardinality(Heading) <= Cardinality(Heading')
  BY NextHeadingIsFinite, FS_Subset
<1>2. Len(queue) \in Nat /\ Len(queue') \in Nat
  BY LenProperties DEF Working, Typed, TypeOK
<1>3. CV!Asleep' # {} => Len(queue) <= Cardinality(Heading)
  BY DEF Working, WorkConserved
<1>4. CV!Asleep' # {} => Len(queue') <= Cardinality(Heading')
  BY <1>1, <1>2, <1>3, HeadingIsFinite, NextHeadingIsFinite
<1> QED
  BY <1>4, PrimedWorkConserved

\* There is nothing to do.
LEMMA NothingQueued ==
  ASSUME ForTheQueue, queue' = <<>>
  PROVE  WorkConserved'
<1>1. Len(queue') = 0
  BY EmptySeq
<1>2. Len(queue') <= Cardinality(Heading')
  BY <1>1, NextHeadingIsFinite
<1> QED
  BY <1>2, PrimedWorkConserved

\* One taker turns to the condition that it has taken.
LEMMA OneIsTaken ==
  ASSUME ForTheQueue, Working, NEW t \in Takers, TakeFront(t),
         CV!Asleep' \subseteq CV!Asleep, Heading \ {t} \subseteq Heading'
  PROVE  WorkConserved'
<1>1. queue \in Seq(Conditions) /\ Len(queue) \in Nat
  BY LenProperties DEF Working, Typed, TypeOK
<1>2. Len(queue') = Len(queue) - 1
  BY <1>1, HeadTailProperties DEF TakeFront
<1>3. /\ IsFiniteSet(Heading \ {t}) /\ Cardinality(Heading \ {t}) \in Nat
      /\ Cardinality(Heading \ {t}) >= Cardinality(Heading) - 1
  <2>1. /\ IsFiniteSet(Heading \ {t})
        /\ Cardinality(Heading \ {t})
             = IF t \in Heading THEN Cardinality(Heading) - 1 ELSE Cardinality(Heading)
    BY HeadingIsFinite, FS_RemoveElement
  <2>2. Cardinality(Heading \ {t}) \in Nat
    BY <2>1, FS_CardinalityType
  <2> QED
    BY <2>1, <2>2, HeadingIsFinite
<1>4. Cardinality(Heading \ {t}) <= Cardinality(Heading')
  BY NextHeadingIsFinite, FS_Subset
<1>5. CV!Asleep' # {} => Len(queue) <= Cardinality(Heading)
  BY DEF Working, WorkConserved
<1>6. CV!Asleep' # {} => Len(queue') <= Cardinality(Heading')
  BY <1>1, <1>2, <1>3, <1>4, <1>5, HeadingIsFinite, NextHeadingIsFinite
<1> QED
  BY <1>6, PrimedWorkConserved

\* A condition is queued and one sleeper released.
LEMMA OneIsQueued ==
  ASSUME ForTheQueue, Working, NEW c \in Conditions, Enqueue(c), CV!WakeOne,
         queue' \in Seq(Conditions), UNCHANGED <<valid, pc>>
  PROVE  WorkConserved'
<1>1. queue \in Seq(Conditions) /\ Len(queue) \in Nat
  BY LenProperties DEF Working, Typed, TypeOK
<1>2. Len(queue') \in Nat /\ Len(queue') <= Len(queue) + 1
  BY <1>1, AppendProperties DEF Enqueue
<1>3. CASE CV!Asleep = {}
  <2>1. CV!Asleep' = {}
    BY <1>3 DEF CV!WakeOne, CV!Asleep
  <2> QED
    BY <2>1, PrimedWorkConserved
<1>4. CASE CV!Asleep # {}
  <2>1. PICK t \in CV!Asleep : cv'[t] # "asleep"
    BY <1>4 DEF CV!WakeOne, CV!Move, CV!Asleep, Working, Typed, TypeOK, CV!TypeOK
  <2>2. \A u \in Takers : cv[u] # "asleep" => cv'[u] = cv[u]
    BY <1>4 DEF CV!WakeOne, CV!Move, CV!Asleep, Working, Typed, TypeOK, CV!TypeOK
  <2>3. t \in Takers /\ cv[t] = "asleep" /\ pc[t] = "waiting"
    BY <2>1 DEF CV!Asleep, Working, Coming
  <2>4. t \notin Heading /\ Heading \cup {t} \subseteq Heading'
    BY <2>1, <2>2, <2>3 DEF Heading, MayWait
  <2>5. /\ IsFiniteSet(Heading \cup {t})
        /\ Cardinality(Heading \cup {t}) = Cardinality(Heading) + 1
    BY <2>4, HeadingIsFinite, FS_AddElement
  <2>6. Cardinality(Heading) + 1 <= Cardinality(Heading')
    BY <2>4, <2>5, NextHeadingIsFinite, FS_Subset
  <2>7. Len(queue) <= Cardinality(Heading)
    BY <1>4 DEF Working, WorkConserved
  <2>8. Len(queue') <= Cardinality(Heading')
    BY <1>1, <1>2, <2>6, <2>7, HeadingIsFinite, NextHeadingIsFinite
  <2> QED
    BY <2>8, PrimedWorkConserved
<1> QED
  BY <1>3, <1>4

-----------------------------------------------------------------------------
\* A taker that is not on its way to the queue may go anywhere.
LEMMA Elsewhere ==
  ASSUME ForTheQueue, Working, NEW t \in Takers, ~MayWait(t), pc[t] \notin {"waiting", "drain"},
         NEW place, pc' = [pc EXCEPT ![t] = place], UNCHANGED <<valid, cv, queue>>
  PROVE  WorkConserved'
<1>1. Heading \subseteq Heading'
  BY DEF Heading, MayWait, Working, Typed, TypeOK
<1>2. CV!Asleep' \subseteq CV!Asleep
  BY DEF CV!Asleep
<1>3. queue' \in Seq(Conditions) /\ Len(queue') <= Len(queue)
  BY LenProperties DEF Working, Typed, TypeOK
<1> QED
  BY <1>1, <1>2, <1>3, NobodyTurnsAway

\* What a call does with the queue: it finds nothing, takes one condition, or drains it.
LEMMA Proceeding ==
  ASSUME ForTheQueue, Working, NEW t \in Takers, Proceed(t), UNCHANGED valid,
         CV!Asleep' \subseteq CV!Asleep,
         \A u \in Takers \ {t} : cv'[u] = cv[u]
  PROVE  WorkConserved'
<1>1. aim[t] \in {"all", "next"}
  BY DEF Working, Coming
<1>2. \A u \in Takers \ {t} : pc'[u] = pc[u]
  BY DEF Proceed, Goto, Working, Typed, TypeOK
<1>3. Heading \ {t} \subseteq Heading'
  BY <1>2 DEF Heading, MayWait
<1>4. CASE aim[t] = "all"
  <2>1. pc'[t] = "drain" /\ UNCHANGED queue
    BY <1>4 DEF Proceed, Goto, Working, Typed, TypeOK
  <2>2. Heading \subseteq Heading'
    BY <1>3, <2>1 DEF Heading
  <2>3. queue' \in Seq(Conditions) /\ Len(queue') <= Len(queue)
    BY <2>1, LenProperties DEF Working, Typed, TypeOK
  <2> QED
    BY <2>2, <2>3, NobodyTurnsAway
<1>5. CASE aim[t] = "next" /\ queue = <<>>
  BY <1>5, NothingQueued DEF Proceed, TakeFront
<1>6. CASE aim[t] = "next" /\ queue # <<>>
  <2>1. TakeFront(t)
    BY <1>6 DEF Proceed
  <2> QED
    BY <1>3, <2>1, OneIsTaken
<1> QED
  BY <1>1, <1>4, <1>5, <1>6

LEMMA WorkingTaker ==
  ASSUME ForTheQueue, Working, NEW t \in Takers,
         TakerStep(t) \/ GiveUp(t) \/ HandlerReturns(t) \/ HandlerThrows(t)
  PROVE  WorkConserved'
<1>1. CASE t \in Workers /\ (CheckStopped(t) \/ Restart(t))
  <2>1. ~MayWait(t) /\ pc[t] \notin {"waiting", "drain"} /\ UNCHANGED <<valid, cv, queue>>
    BY <1>1 DEF CheckStopped, Restart, MayWait, wsVars
  <2>2. PICK place : pc' = [pc EXCEPT ![t] = place]
    BY <1>1 DEF CheckStopped, Restart, Goto
  <2> QED
    BY <2>1, <2>2, Elsewhere
<1>2. CASE Refuse(t) /\ t \in Dispatchers
  <2>1. ~MayWait(t) /\ pc[t] \notin {"waiting", "drain"} /\ UNCHANGED <<valid, cv, queue>>
    BY <1>2, Names DEF Refuse, MayWait, wsVars
  <2>2. pc' = [pc EXCEPT ![t] = "idle"]
    BY <1>2 DEF Refuse, Goto
  <2> QED
    BY <2>1, <2>2, Elsewhere
<1>3. CASE Look(t) \/ BeginHandler(t) \/ DispatchNothing(t) \/ HandlerReturns(t) \/ HandlerThrows(t)
  <2>1. ~MayWait(t) /\ pc[t] \notin {"waiting", "drain"} /\ UNCHANGED <<valid, cv, queue>>
    BY <1>3 DEF Look, BeginHandler, DispatchNothing, HandlerReturns, HandlerThrows, MayWait, wsVars
  <2>2. PICK place : pc' = [pc EXCEPT ![t] = place]
    BY <1>3 DEF Look, BeginHandler, DispatchNothing, HandlerReturns, HandlerThrows, Done, Goto
  <2> QED
    BY <2>1, <2>2, Elsewhere
<1>4. CASE Get(t)
  <2>1. Proceed(t) /\ UNCHANGED <<valid, cv>>
    BY <1>4 DEF Get
  <2>2. CV!Asleep' \subseteq CV!Asleep
    BY <2>1 DEF CV!Asleep
  <2> QED
    BY <2>1, <2>2, Proceeding
<1>5. CASE Awake(t)
  <2>1. Proceed(t) /\ UNCHANGED valid /\ cv' = [cv EXCEPT ![t] = "out"]
    BY <1>5 DEF Awake, CV!Return
  <2>2. CV!Asleep' \subseteq CV!Asleep /\ \A u \in Takers \ {t} : cv'[u] = cv[u]
    BY <2>1 DEF CV!Asleep, Working, Typed, TypeOK, CV!TypeOK
  <2> QED
    BY <2>1, <2>2, Proceeding
<1>6. CASE Block(t) \/ WaitAgain(t)
  <2>1. queue = <<>> /\ UNCHANGED queue
    BY <1>6 DEF Block, WaitAgain, wsVars, Working, Coming
  <2> QED
    BY <2>1, NothingQueued
<1>7. CASE GiveUp(t)
  <2>1. /\ cv[t] = "asleep" /\ cv' = CV!Move({t}, "unwoken")
        /\ UNCHANGED <<valid, queue, pc>>
    BY <1>7 DEF GiveUp, CV!GiveUp, wsVars, takerVars
  <2>2. Heading \subseteq Heading' /\ CV!Asleep' \subseteq CV!Asleep
    BY <2>1 DEF Heading, MayWait, CV!Move, CV!Asleep
  <2>3. queue' \in Seq(Conditions) /\ Len(queue') <= Len(queue)
    BY <2>1, LenProperties DEF Working, Typed, TypeOK
  <2> QED
    BY <2>2, <2>3, NobodyTurnsAway
<1>8. CASE Drain(t)
  <2>1. CASE queue = <<>>
    BY <1>8, <2>1, NothingQueued DEF Drain, TakeFront
  <2>2. CASE queue # <<>>
    <3>1. TakeFront(t) /\ pc' = [pc EXCEPT ![t] = "look"] /\ UNCHANGED <<valid, cv>>
      BY <1>8, <2>2 DEF Drain, Goto
    <3>2. Heading \ {t} \subseteq Heading' /\ CV!Asleep' \subseteq CV!Asleep
      BY <3>1 DEF Heading, MayWait, CV!Asleep, Working, Typed, TypeOK
    <3> QED
      BY <3>1, <3>2, OneIsTaken
  <2> QED
    BY <2>1, <2>2
<1>9. ~Peek(t) /\ ~AwakeForOne(t)
  BY Names DEF Peek, AwakeForOne, Working, Coming
<1> QED
  BY <1>1, <1>2, <1>3, <1>4, <1>5, <1>6, <1>7, <1>8, <1>9 DEF TakerStep

LEMMA WorkingOthers ==
  ASSUME ForTheQueue, Working, Typed',
         \/ \E t \in Callers : CallStep(t) \/ SignalAborts(t) \/ \E c \in Conditions : Ask(t, c)
         \/ AdminStep
         \/ UNCHANGED vars
  PROVE  WorkConserved'
<1>0. queue' \in Seq(Conditions) /\ queue \in Seq(Conditions) /\ Len(queue) \in Nat
  BY LenProperties DEF Working, Typed, TypeOK
<1>1. ASSUME UNCHANGED <<valid, cv, pc>>, Len(queue') <= Len(queue)
      PROVE  WorkConserved'
  <2>1. Heading' = Heading /\ CV!Asleep' = CV!Asleep
    BY <1>1 DEF Heading, MayWait, CV!Asleep
  <2> QED
    BY <1>0, <1>1, <2>1, NobodyTurnsAway
<1>2. ASSUME UNCHANGED <<valid, cv, pc, queue>> PROVE WorkConserved'
  BY <1>0, <1>1, <1>2
<1>3. ASSUME CV!WakeAll PROVE WorkConserved'
  <2>1. CV!Asleep' = {}
    BY <1>3 DEF CV!WakeAll, CV!Asleep
  <2> QED
    BY <2>1, PrimedWorkConserved
<1>4. ASSUME NEW t \in Callers, Signal(t) PROVE WorkConserved'
  <2>1. call[t][2] \in Conditions /\ UNCHANGED <<valid, pc>>
    BY <1>4, Shapes DEF Signal, Working, Typed, takerVars
  <2>2. CASE valid
    BY <1>0, <1>4, <2>1, <2>2, OneIsQueued DEF Signal
  <2>3. CASE ~valid
    BY <1>2, <1>4, <2>1, <2>3 DEF Signal
  <2> QED
    BY <2>2, <2>3
<1>5. ASSUME NEW t \in Callers,
             \/ SetTriggerValue(t) \/ SignalAll(t) \/ SignalAborts(t)
             \/ \E c \in Conditions : Ask(t, c)
      PROVE  WorkConserved'
  BY <1>2, <1>5 DEF SetTriggerValue, SignalAll, SignalAborts, Ask, wsVars, takerVars
<1>6. CASE AttachInsert
  <2>1. admin[2] \in Conditions /\ UNCHANGED <<valid, pc>>
    BY <1>6, Shapes DEF AttachInsert, Working, Typed, takerVars
  <2>2. CASE admin[1] = "triggered"
    BY <1>0, <1>6, <2>1, <2>2, OneIsQueued DEF AttachInsert
  <2>3. CASE admin[1] # "triggered"
    BY <1>2, <1>6, <2>1, <2>3 DEF AttachInsert
  <2> QED
    BY <2>2, <2>3
<1>7. ASSUME NEW c \in Conditions, Detach(c) PROVE WorkConserved'
  <2>1. queue' = Without(queue, c) /\ UNCHANGED <<valid, cv, pc>>
    BY <1>7 DEF Detach, takerVars
  <2>2. Len(queue') <= Len(queue)
    <3>1. CASE c \notin Members(queue)
      BY <1>0, <2>1, <3>1 DEF Without
    <3>2. CASE c \in Members(queue)
      <4>1. Len(queue) - 1 \in Nat
        BY <1>0, <3>2, LenProperties, EmptySeq DEF Members
      <4>2. DOMAIN queue' = 1..Len(queue) - 1
        BY <2>1, <3>2 DEF Without
      <4>3. Len(queue') = Len(queue) - 1
        BY <1>0, <4>1, <4>2, LenProperties
      <4> QED
        BY <1>0, <4>3
    <3> QED
      BY <3>1, <3>2
  <2> QED
    BY <1>1, <2>1, <2>2
<1>8. CASE ClearTriggeredQueue
  BY <1>8, NothingQueued DEF ClearTriggeredQueue
<1>9. CASE WakeAll \/ \E v \in BOOLEAN : SetValid(v)
  BY <1>3, <1>9 DEF WakeAll, SetValid
<1>10. CASE \/ \E c \in Conditions : Attach(c) \/ ResetTrigger(c) \/ ChangeHandler(c)
            \/ AttachLook \/ DetachReset \/ DetachForget
  BY <1>2, <1>10 DEF Attach, ResetTrigger, ChangeHandler, AttachLook, DetachReset,
     DetachForget, wsVars, takerVars
<1>11. CASE UNCHANGED vars
  BY <1>2, <1>11 DEF vars, wsVars, takerVars
<1> QED
  BY <1>4, <1>5, <1>6, <1>7, <1>8, <1>9, <1>10, <1>11 DEF CallStep, AdminStep

\* A dispatcher begins a call: it may be on its way to the queue then.
LEMMA WorkingCall ==
  ASSUME ForTheQueue, Working, NEW d \in Dispatchers, NEW k \in Calls, Call(d, k)
  PROVE  WorkConserved'
<1>1. /\ d \in Takers /\ ~MayWait(d) /\ pc[d] \notin {"waiting", "drain"}
      /\ UNCHANGED <<valid, cv, queue>>
  BY Names DEF Call, MayWait, wsVars
<1>2. PICK place : pc' = [pc EXCEPT ![d] = place]
  BY DEF Call, Goto
<1> QED
  BY <1>1, <1>2, Elsewhere

-----------------------------------------------------------------------------
LEMMA ComingTaker ==
  ASSUME ForTheQueue, Typed, Coming, NEW t \in Takers,
         TakerStep(t) \/ GiveUp(t) \/ HandlerReturns(t) \/ HandlerThrows(t)
  PROVE  Coming'
<1>1. ASSUME UNCHANGED <<aim, cv>>, pc[t] # "waiting",
             \E q : q \notin {"peek", "block"} /\ pc' = [pc EXCEPT ![t] = q]
      PROVE  Coming'
  BY <1>1 DEF Coming, Typed, TypeOK
<1>2. CASE t \in Workers /\ (CheckStopped(t) \/ Restart(t))
  BY <1>1, <1>2 DEF CheckStopped, Restart, Goto
<1>3. CASE Refuse(t) \/ Drain(t)
  BY <1>1, <1>3 DEF Refuse, Drain, Goto
<1>4. CASE Look(t) \/ BeginHandler(t) \/ DispatchNothing(t) \/ HandlerReturns(t) \/ HandlerThrows(t)
  <2>1. UNCHANGED <<aim, cv>> /\ pc[t] # "waiting"
    BY <1>4 DEF Look, BeginHandler, DispatchNothing, HandlerReturns, HandlerThrows, Done
  <2>2. \E q : q \notin {"peek", "block"} /\ pc' = [pc EXCEPT ![t] = q]
    BY <1>4 DEF Look, BeginHandler, DispatchNothing, HandlerReturns, HandlerThrows, Done, Goto
  <2> QED
    BY <1>1, <2>1, <2>2
<1>5. CASE Get(t)
  <2>1. UNCHANGED <<aim, cv>> /\ pc[t] # "waiting"
    BY <1>5 DEF Get, MayWait
  <2>2. \E q : q \notin {"peek", "block"} /\ pc' = [pc EXCEPT ![t] = q]
    BY <1>5 DEF Get, Proceed, Goto
  <2> QED
    BY <1>1, <2>1, <2>2
<1>6. CASE Awake(t)
  <2>1. UNCHANGED aim /\ cv' = [cv EXCEPT ![t] = "out"]
    BY <1>6 DEF Awake, CV!Return
  <2>2. \E q : q \notin {"peek", "block"} /\ pc' = [pc EXCEPT ![t] = q]
    BY <1>6 DEF Awake, Proceed, Goto
  <2> QED
    BY <2>1, <2>2 DEF Coming, Typed, TypeOK, CV!TypeOK
<1>7. CASE Block(t)
  <2>1. /\ UNCHANGED aim /\ pc' = [pc EXCEPT ![t] = "waiting"]
        /\ \A u \in Takers \ {t} : cv'[u] = cv[u]
    BY <1>7 DEF Block, Goto, CV!Sleep, CV!Bypass, Typed, TypeOK, CV!TypeOK
  <2> QED
    BY <2>1 DEF Coming, Typed, TypeOK
<1>8. CASE WaitAgain(t) \/ GiveUp(t)
  <2>1. UNCHANGED <<aim, pc>> /\ \A u \in Takers : cv'[u] = cv[u] \/ (u = t /\ cv[u] # "out")
    BY <1>8 DEF WaitAgain, GiveUp, CV!GiveUp, CV!Move, takerVars, Typed, TypeOK, CV!TypeOK
  <2> QED
    BY <2>1 DEF Coming
<1>9. ~Peek(t) /\ ~AwakeForOne(t)
  BY Names DEF Peek, AwakeForOne, Coming
<1> QED
  BY <1>2, <1>3, <1>4, <1>5, <1>6, <1>7, <1>8, <1>9 DEF TakerStep

LEMMA ComingOthers ==
  ASSUME ForTheQueue, Typed, Coming,
         \/ \E t \in Callers : CallStep(t) \/ SignalAborts(t) \/ \E c \in Conditions : Ask(t, c)
         \/ AdminStep
         \/ UNCHANGED vars
  PROVE  Coming'
<1>1. UNCHANGED <<pc, aim>>
  BY DEF CallStep, SetTriggerValue, SignalAll, Signal, SignalAborts, Ask, AdminStep, Attach,
     Detach, ResetTrigger, ChangeHandler, AttachLook, AttachInsert, DetachReset,
     DetachForget, WakeAll, ClearTriggeredQueue, SetValid, vars, takerVars
<1>2. UNCHANGED cv \/ CV!WakeOne \/ CV!WakeAll
  BY DEF CallStep, SetTriggerValue, SignalAll, Signal, SignalAborts, Ask, AdminStep, Attach,
     Detach, ResetTrigger, ChangeHandler, AttachLook, AttachInsert, DetachReset,
     DetachForget, WakeAll, ClearTriggeredQueue, SetValid, vars
<1>3. \A t \in Takers : cv[t] = "out" => cv'[t] = "out"
  BY <1>2 DEF CV!WakeOne, CV!WakeAll, CV!Move, CV!Asleep
<1> QED
  BY <1>1, <1>3 DEF Coming

LEMMA ComingCall ==
  ASSUME ForTheQueue, Typed, Coming, NEW d \in Dispatchers, NEW k \in Calls, Call(d, k)
  PROVE  Coming'
<1>1. d \in Takers /\ k \in {"all", "next"} /\ k \notin Conditions
  BY Names DEF ForTheQueue
<1>2. /\ pc[d] = "idle" /\ pc' = [pc EXCEPT ![d] = "get"]
      /\ aim' = [aim EXCEPT ![d] = k] /\ UNCHANGED cv
  BY <1>1 DEF Call, Goto
<1> QED
  BY <1>1, <1>2 DEF Coming, Typed, TypeOK

LEMMA WorkingStep ==
  ASSUME ForTheQueue, Working, [Next]_vars
  PROVE  Working'
<1>1. Typed'
  BY TypedStep DEF Working
<1>2. CASE \E t \in Takers : TakerStep(t) \/ GiveUp(t) \/ HandlerReturns(t) \/ HandlerThrows(t)
  BY <1>1, <1>2, WorkingTaker, ComingTaker DEF Working
<1>3. CASE \E d \in Dispatchers, k \in Calls : Call(d, k)
  BY <1>1, <1>3, WorkingCall, ComingCall DEF Working
<1>4. CASE \/ \E t \in Callers : CallStep(t) \/ SignalAborts(t) \/ \E c \in Conditions : Ask(t, c)
           \/ AdminStep
           \/ UNCHANGED vars
  BY <1>1, <1>4, WorkingOthers, ComingOthers DEF Working
<1> QED
  BY <1>2, <1>3, <1>4 DEF Next

LEMMA WorkingInit ==
  ASSUME ForTheQueue, Init
  PROVE  Working
<1>1. Coming /\ CV!Asleep = {}
  BY DEF Init, Coming, CV!Init, CV!Asleep
<1> QED
  BY <1>1, TypedInit DEF Working, WorkConserved

\* One wakeOne per signal is enough for any number of takers: while one of them sleeps,
\* for every queued condition another is on its way to the queue.
THEOREM WorkIsConserved ==
  ASSUME ForTheQueue
  PROVE  Spec => []WorkConserved
<1>1. Init => Working
  BY WorkingInit
<1>2. Working /\ [Next]_vars => Working'
  BY WorkingStep
<1>3. Working => WorkConserved
  BY DEF Working
<1> QED
  BY <1>1, <1>2, <1>3, PTL DEF Spec
=============================================================================
