------------------------ MODULE WaitCondition_proofs ------------------------
(***************************************************************************)
(* Proofs about WaitCondition, for any finite set of threads.              *)
(***************************************************************************)
EXTENDS WaitCondition, FiniteSetTheorems, TLAPS

\* The inductive invariant: the counters have their type because they are
\* related to the threads' places; neither conjunct is inductive alone.
IInv == TypeOK /\ WaitersCounted /\ SignalledCovered

-----------------------------------------------------------------------------
(* Sets of threads.                                                        *)

\* Sets of threads are finite, and a proper subset is smaller (the counters of
\* WaitCondition.cpp count sets of threads).
LEMMA Sizes ==
  ASSUME NEW W \in SUBSET Threads, NEW S \in SUBSET W
  PROVE  /\ IsFiniteSet(W) /\ IsFiniteSet(S)
         /\ Cardinality(W) \in Nat /\ Cardinality(S) \in Nat
         /\ Cardinality(S) <= Cardinality(W)
         /\ S # W => Cardinality(S) < Cardinality(W)
<1>1. IsFiniteSet(W)
  BY FS_Subset, ThreadsAssumption
<1>2. /\ IsFiniteSet(S)
      /\ Cardinality(S) <= Cardinality(W)
      /\ Cardinality(W) = Cardinality(S) => W = S
  BY <1>1, FS_Subset
<1>3. Cardinality(W) \in Nat /\ Cardinality(S) \in Nat
  BY <1>1, <1>2, FS_CardinalityType
<1> QED
  BY <1>1, <1>2, <1>3

\* A thread that joins a set or leaves it changes its size by one (++waiters,
\* --waiters and the choice of a sleeper by a signal).
LEMMA JoinLeave ==
  ASSUME NEW W \in SUBSET Threads, NEW t \in Threads
  PROVE  /\ t \notin W => Cardinality(W \cup {t}) = Cardinality(W) + 1
         /\ t \in W => Cardinality(W \ {t}) = Cardinality(W) - 1
BY Sizes, FS_AddElement, FS_RemoveElement

\* A step that moves one thread changes the sets of places accordingly.
LEMMA MoveOne ==
  ASSUME TypeOK, NEW t \in Threads, NEW q \in Places,
         pc' = [pc EXCEPT ![t] = q]
  PROVE  /\ Waiting' = IF q \in {"asleep", "sliced", "signalled"}
                         THEN Waiting \cup {t} ELSE Waiting \ {t}
         /\ Signalled' = IF q = "signalled" THEN Signalled \cup {t} ELSE Signalled \ {t}
BY DEF TypeOK, Waiting, Signalled, In

\* A step that moves nobody changes none of them.
LEMMA MoveNone ==
  ASSUME pc' = pc
  PROVE  Waiting' = Waiting /\ Signalled' = Signalled
BY DEF Waiting, Signalled, In

\* What the invariant says of the sizes of the two sets.
LEMMA Facts ==
  ASSUME IInv
  PROVE  /\ Waiting \in SUBSET Threads /\ Signalled \in SUBSET Waiting
         /\ Cardinality(Waiting) \in Nat /\ Cardinality(Signalled) \in Nat
         /\ waiters = Cardinality(Waiting) /\ waiters \in Nat /\ wakeups \in Nat
         /\ Cardinality(Signalled) <= wakeups
         /\ Cardinality(Signalled) <= waiters
<1>1. Waiting \in SUBSET Threads /\ Signalled \in SUBSET Waiting
  BY DEF Waiting, Signalled, In
<1>2. Cardinality(Waiting) \in Nat /\ Cardinality(Signalled) \in Nat
      /\ Cardinality(Signalled) <= Cardinality(Waiting)
  BY <1>1, Sizes
<1> QED
  BY <1>1, <1>2 DEF IInv, TypeOK, WaitersCounted, SignalledCovered

-----------------------------------------------------------------------------
\* Initially nobody waits.
LEMMA Initially == Init => IInv
<1> SUFFICES ASSUME Init PROVE IInv
  OBVIOUS
<1>1. TypeOK
  BY DEF Init, TypeOK, Places
<1>2. Waiting = {} /\ Signalled = {}
  BY DEF Init, Waiting, Signalled, In
<1> QED
  BY <1>1, <1>2, FS_EmptySet DEF Init, IInv, WaitersCounted, SignalledCovered

\* A step that leaves the waiting and the signalled threads and the two
\* counters alone preserves the invariant if it keeps the types.
LEMMA CountersAside ==
  ASSUME IInv, TypeOK', Waiting' = Waiting, Signalled' = Signalled,
         waiters' = waiters, wakeups' = wakeups
  PROVE  IInv'
BY DEF IInv, WaitersCounted, SignalledCovered

\* wakeOne and wakeAll grant every thread they signal a wakeup.
LEMMA Wakes ==
  ASSUME IInv, WakeOne \/ WakeAll
  PROVE  IInv'
<1>0. TypeOK
  BY DEF IInv
<1>1. CASE WakeOne
  <2>1. TypeOK'
    BY <1>0, <1>1 DEF TypeOK, WakeOne, Lesser, Places, Asleep, In
  <2>2. CASE Asleep = {}
    <3>1. pc' = pc
      BY <1>1, <2>2 DEF WakeOne
    <3>2. Waiting' = Waiting /\ Signalled' = Signalled
      BY <3>1, MoveNone
    <3> QED
      BY <1>1, <2>1, <3>2, Facts
      DEF IInv, WaitersCounted, SignalledCovered, WakeOne, Lesser
  <2>3. CASE Asleep # {}
    <3>1. PICK t \in Asleep : pc' = [pc EXCEPT ![t] = "signalled"]
      BY <1>1, <2>3 DEF WakeOne
    <3>2. t \in Threads /\ t \in Waiting /\ t \notin Signalled
      BY <3>1 DEF Asleep, Waiting, Signalled, In
    <3>3. Waiting' = Waiting /\ Signalled' = Signalled \cup {t}
      <4>1. "signalled" \in Places
        BY DEF Places
      <4>2. /\ Waiting' = Waiting \cup {t}
            /\ Signalled' = Signalled \cup {t}
        BY <1>0, <3>1, <3>2, <4>1, MoveOne
      <4> QED
        BY <3>2, <4>2
    <3>4. Cardinality(Signalled \cup {t}) = Cardinality(Signalled) + 1
      BY <3>2, Facts, JoinLeave
    <3>5. Cardinality(Signalled \cup {t}) <= Cardinality(Waiting)
      BY <3>2, Facts, Sizes
    <3> QED
      BY <1>1, <2>1, <3>3, <3>4, <3>5, Facts
      DEF IInv, WaitersCounted, SignalledCovered, WakeOne, Lesser
  <2> QED
    BY <2>2, <2>3
<1>2. CASE WakeAll
  <2>1. TypeOK'
    BY <1>0, <1>2 DEF TypeOK, WakeAll, Places
  <2>2. Waiting' = Waiting /\ Signalled' \in SUBSET Waiting
    BY <1>0, <1>2 DEF TypeOK, WakeAll, Waiting, Signalled, In
  <2>3. Cardinality(Signalled') <= Cardinality(Waiting)
    BY <2>2, Facts, Sizes
  <2> QED
    BY <1>2, <2>1, <2>2, <2>3, Facts
    DEF IInv, WaitersCounted, SignalledCovered, WakeAll
<1> QED
  BY <1>1, <1>2

\* Every step of one thread preserves the invariant.
LEMMA Steps ==
  ASSUME IInv, NEW t \in Threads, Step(t)
  PROVE  IInv'
<1>0. TypeOK
  BY DEF IInv
<1>1. CASE Lock(t) \/ Unlock(t) \/ EnterAndReturn(t) \/ Relock(t)
  <2>1. TypeOK'
    BY <1>0, <1>1, ThreadsAssumption
    DEF TypeOK, Lock, Unlock, EnterAndReturn, Relock, Places
  <2>2. /\ Waiting' = Waiting /\ Signalled' = Signalled
        /\ waiters' = waiters /\ wakeups' = wakeups
    BY <1>0, <1>1
    DEF TypeOK, Lock, Unlock, EnterAndReturn, Relock, Waiting, Signalled, In
  <2> QED
    BY <2>1, <2>2, CountersAside
<1>2. CASE EnterAndSleep(t)
  <2>1. TypeOK'
    BY <1>0, <1>2 DEF TypeOK, EnterAndSleep, Places
  <2>2. /\ t \notin Waiting /\ t \notin Signalled
        /\ Waiting' = Waiting \cup {t} /\ Signalled' = Signalled
    BY <1>0, <1>2 DEF TypeOK, EnterAndSleep, Waiting, Signalled, In
  <2>3. Cardinality(Waiting \cup {t}) = Cardinality(Waiting) + 1
    BY <2>2, Facts, JoinLeave
  <2> QED
    BY <1>2, <2>1, <2>2, <2>3, Facts
    DEF IInv, WaitersCounted, SignalledCovered, EnterAndSleep
<1>3. CASE SliceEnds(t) \/ SleepAgain(t)
  <2>1. TypeOK'
    BY <1>0, <1>3 DEF TypeOK, SliceEnds, SleepAgain, Places
  <2>2. /\ Waiting' = Waiting /\ Signalled' = Signalled
        /\ waiters' = waiters /\ wakeups' = wakeups
    BY <1>0, <1>3 DEF TypeOK, SliceEnds, SleepAgain, Waiting, Signalled, In
  <2> QED
    BY <2>1, <2>2, CountersAside
<1>4. CASE LeaveUnwoken(t)
  <2>1. /\ t \in Waiting /\ t \notin Signalled
        /\ Waiting' = Waiting \ {t} /\ Signalled' = Signalled
    BY <1>0, <1>4 DEF TypeOK, LeaveUnwoken, Waiting, Signalled, In
  <2>2. Cardinality(Waiting \ {t}) = Cardinality(Waiting) - 1
    BY <2>1, Facts, JoinLeave
  <2>3. Waiting \ {t} \in SUBSET Threads
    BY Facts
  <2>4. Cardinality(Waiting \ {t}) \in Nat
    BY <2>3, Sizes
  <2>5. waiters' \in Nat
    BY <1>4, <2>2, <2>4, Facts DEF LeaveUnwoken
  <2>6. TypeOK'
    BY <1>0, <1>4, <2>5 DEF TypeOK, LeaveUnwoken, Places
  <2> QED
    BY <1>4, <2>1, <2>2, <2>6, Facts
    DEF IInv, WaitersCounted, SignalledCovered, LeaveUnwoken
<1>5. CASE LeaveWoken(t)
  <2>1. /\ t \in Waiting /\ t \in Signalled
        /\ Waiting' = Waiting \ {t} /\ Signalled' = Signalled \ {t}
    BY <1>0, <1>5 DEF TypeOK, LeaveWoken, Waiting, Signalled, In
  <2>2. /\ Cardinality(Waiting \ {t}) = Cardinality(Waiting) - 1
        /\ Cardinality(Signalled \ {t}) = Cardinality(Signalled) - 1
    BY <2>1, Facts, JoinLeave
  <2>3. Waiting \ {t} \in SUBSET Threads /\ Signalled \ {t} \in SUBSET Threads
    BY Facts
  <2>4. Cardinality(Waiting \ {t}) \in Nat /\ Cardinality(Signalled \ {t}) \in Nat
    BY <2>3, Sizes
  <2>5. /\ waiters' = waiters - 1 /\ waiters' \in Nat
        /\ wakeups' \in {wakeups, wakeups - 1} /\ wakeups' \in Nat
    BY <1>5, <2>2, <2>4, Facts DEF LeaveWoken
  <2>6. TypeOK'
    BY <1>0, <1>5, <2>5 DEF TypeOK, LeaveWoken, Places
  <2> QED
    BY <2>1, <2>2, <2>5, <2>6, Facts
    DEF IInv, WaitersCounted, SignalledCovered
<1>6. CASE Expire(t) \/ Interrupt(t) \/ UnsetInterrupt(t)
  <2>1. TypeOK'
    BY <1>0, <1>6 DEF TypeOK, Expire, Interrupt, UnsetInterrupt
  <2>2. /\ Waiting' = Waiting /\ Signalled' = Signalled
        /\ waiters' = waiters /\ wakeups' = wakeups
    BY <1>6, MoveNone DEF Expire, Interrupt, UnsetInterrupt
  <2> QED
    BY <2>1, <2>2, CountersAside
<1> QED
  BY <1>1, <1>2, <1>3, <1>4, <1>5, <1>6 DEF Step

\* The invariant is inductive.
LEMMA Inductive ==
  ASSUME IInv, [Next]_vars
  PROVE  IInv'
<1>1. CASE WakeOne \/ WakeAll
  BY <1>1, Wakes
<1>2. ASSUME NEW t \in Threads, Step(t) PROVE IInv'
  BY <1>2, Steps
<1>3. CASE UNCHANGED vars
  <2>1. TypeOK'
    BY <1>3 DEF IInv, TypeOK, vars
  <2>2. /\ Waiting' = Waiting /\ Signalled' = Signalled
        /\ waiters' = waiters /\ wakeups' = wakeups
    BY <1>3, MoveNone DEF vars
  <2> QED
    BY <2>1, <2>2, CountersAside
<1> QED
  BY <1>1, <1>2, <1>3 DEF Next

-----------------------------------------------------------------------------
\* The counters of WaitCondition.cpp keep their types: waiters and wakeups
\* never go below zero, so ASSERT(waiters > 0) before --waiters holds too.
THEOREM TypeCorrect ==
  Spec => []TypeOK
<1>1. IInv /\ [Next]_vars => IInv'
  BY Inductive
<1>2. IInv => TypeOK
  BY DEF IInv
<1> QED
  BY Initially, <1>1, <1>2, PTL DEF Spec

\* The waiters counter is the number of threads between ++waiters and
\* --waiters of WaitCondition::wait.
THEOREM WaitersAreCounted ==
  Spec => []WaitersCounted
<1>1. IInv /\ [Next]_vars => IInv'
  BY Inductive
<1>2. IInv => WaitersCounted
  BY DEF IInv
<1> QED
  BY Initially, <1>1, <1>2, PTL DEF Spec

\* Every thread that a signal has chosen finds a wakeup to take.
THEOREM SignalledAreCovered ==
  Spec => []SignalledCovered
<1>1. IInv /\ [Next]_vars => IInv'
  BY Inductive
<1>2. IInv => SignalledCovered
  BY DEF IInv
<1> QED
  BY Initially, <1>1, <1>2, PTL DEF Spec

\* ASSERT(wakeups > 0) at the end of WaitConditionPrivate::wait cannot fail:
\* a thread with code 0 that is not interrupted finds wakeups positive.
THEOREM AssertionHolds ==
  Spec => []WakeupAsserted
<1>1. IInv /\ [Next]_vars => IInv'
  BY Inductive
<1>2. ASSUME IInv, NEW t \in Threads, pc[t] = "signalled" PROVE wakeups > 0
  <2>1. t \in Signalled /\ {t} \in SUBSET Signalled /\ Signalled \in SUBSET Threads
    BY <1>2, Facts DEF Signalled, In
  <2>2. Cardinality({t}) = 1
    BY FS_Singleton
  <2>3. 1 <= Cardinality(Signalled)
    BY <2>1, <2>2, Sizes
  <2> QED
    BY <1>2, <2>3, Facts
<1>3. IInv => WakeupAsserted
  BY <1>2 DEF WakeupAsserted
<1> QED
  BY Initially, <1>1, <1>3, PTL DEF Spec
-----------------------------------------------------------------------------
(* ReleaseKept.                                                            *)

\* A released thread stays released, or leaves, when the step moves no other
\* thread into or out of Signalled, takes no wakeup and leaves t in its place.
LEMMA StaysReleased ==
  ASSUME NEW t \in Threads, Released(t),
         pc'[t] = pc[t], Signalled' = Signalled, wakeups' = wakeups
  PROVE  Released(t)'
BY DEF Released

\* wakeOne and wakeAll leave a wakeup for a released thread whose slice ended.
LEMMA WakesKeepReleased ==
  ASSUME IInv, WakeOne \/ WakeAll, NEW t \in Threads, Released(t)
  PROVE  Released(t)'
<1>0. TypeOK
  BY DEF IInv
<1>1. CASE pc[t] = "signalled"
  <2>1. pc'[t] = "signalled"
    BY <1>0, <1>1 DEF TypeOK, WakeOne, WakeAll, Asleep, In
  <2> QED
    BY <2>1 DEF Released
<1>2. CASE pc[t] = "sliced" /\ wakeups > Cardinality(Signalled)
  <2>1. /\ t \in Waiting /\ t \notin Signalled /\ t \notin Asleep
        /\ Signalled \in SUBSET Waiting /\ Asleep \in SUBSET Waiting
        /\ Waiting \in SUBSET Threads
    BY <1>2 DEF Waiting, Signalled, Asleep, In
  <2>2. pc'[t] = "sliced"
    BY <1>0, <1>2 DEF TypeOK, WakeOne, WakeAll, Asleep, In
  <2>3. CASE WakeOne /\ Asleep = {}
    <3>1. Signalled' = Signalled
      BY <2>3, MoveNone DEF WakeOne
    <3>2. Cardinality(Signalled) < Cardinality(Waiting)
      BY <2>1, Sizes
    <3> QED
      BY <1>2, <2>2, <2>3, <3>1, <3>2, Facts DEF Released, WakeOne, Lesser
  <2>4. CASE WakeOne /\ Asleep # {}
    <3>1. PICK a \in Asleep : pc' = [pc EXCEPT ![a] = "signalled"]
      BY <2>4 DEF WakeOne
    <3>2. a \in Threads /\ a \notin Signalled /\ a # t
      BY <2>1, <3>1 DEF Asleep, Signalled, In
    <3>3. "signalled" \in Places
      BY DEF Places
    <3>4. Signalled' = Signalled \cup {a}
      BY <1>0, <3>1, <3>2, <3>3, MoveOne
    <3>5. Cardinality(Signalled \cup {a}) = Cardinality(Signalled) + 1
      BY <3>2, Facts, JoinLeave
    <3>6. Signalled \cup {a} \in SUBSET Waiting /\ Signalled \cup {a} # Waiting
      BY <2>1, <3>1, <3>2
    <3>7. Cardinality(Signalled \cup {a}) < Cardinality(Waiting)
      BY <2>1, <3>6, Sizes
    <3> QED
      BY <1>2, <2>2, <2>4, <3>4, <3>5, <3>7, Facts DEF Released, WakeOne, Lesser
  <2>5. CASE WakeAll
    <3>1. Signalled' = Signalled \cup Asleep
      BY <1>0, <2>5 DEF TypeOK, WakeAll, Signalled, Asleep, In
    <3>2. Cardinality(Signalled') < Cardinality(Waiting)
      BY <2>1, <3>1, Sizes
    <3> QED
      BY <2>2, <2>5, <3>2, Facts DEF Released, WakeAll
  <2> QED
    BY <2>3, <2>4, <2>5
<1> QED
  BY <1>1, <1>2 DEF Released

\* What a thread does leaves another thread released, and lets the thread
\* itself out of the wait if it was.
LEMMA StepsKeepReleased ==
  ASSUME IInv, NEW u \in Threads, Step(u),
         NEW t \in Threads, Released(t)
  PROVE  Released(t)' \/ pc'[t] = "relock"
<1>0. TypeOK /\ (pc[t] = "signalled" \/ pc[t] = "sliced")
  BY DEF IInv, Released
<1>1. CASE \/ Lock(u) \/ Unlock(u) \/ EnterAndSleep(u) \/ EnterAndReturn(u)
           \/ SliceEnds(u) \/ Relock(u)
  <2>1. pc'[t] = pc[t]
    BY <1>0, <1>1
    DEF TypeOK, Lock, Unlock, EnterAndSleep, EnterAndReturn, SliceEnds, Relock
  <2>2. Signalled' = Signalled /\ wakeups' = wakeups
    BY <1>0, <1>1
    DEF TypeOK, Lock, Unlock, EnterAndSleep, EnterAndReturn, SliceEnds, Relock,
        Signalled, In
  <2> QED
    BY <2>1, <2>2, StaysReleased
<1>2. CASE Expire(u) \/ Interrupt(u) \/ UnsetInterrupt(u)
  <2>1. pc' = pc /\ wakeups' = wakeups
    BY <1>2 DEF Expire, Interrupt, UnsetInterrupt
  <2> QED
    BY <2>1, MoveNone, StaysReleased
<1>3. CASE SleepAgain(u)
  <2>1. Signalled' = Signalled /\ wakeups' = wakeups
    BY <1>0, <1>3 DEF TypeOK, SleepAgain, Signalled, In
  <2>2. t # u
    BY <1>3, Facts DEF Released, SleepAgain, MaySleep
  <2>3. pc'[t] = pc[t]
    BY <1>0, <1>3, <2>2 DEF TypeOK, SleepAgain
  <2> QED
    BY <2>1, <2>3, StaysReleased
<1>4. CASE LeaveUnwoken(u)
  <2>1. Signalled' = Signalled /\ wakeups' = wakeups
    BY <1>0, <1>4 DEF TypeOK, LeaveUnwoken, Signalled, In
  <2>2. pc'[t] = IF t = u THEN "relock" ELSE pc[t]
    BY <1>0, <1>4 DEF TypeOK, LeaveUnwoken
  <2> QED
    BY <2>1, <2>2, StaysReleased
<1>5. CASE LeaveWoken(u)
  <2>1. u \in Signalled /\ Signalled' = Signalled \ {u}
    BY <1>0, <1>5 DEF TypeOK, LeaveWoken, Signalled, In
  <2>2. Cardinality(Signalled') = Cardinality(Signalled) - 1
    BY <2>1, Facts, JoinLeave
  <2>3. wakeups' \in {wakeups, wakeups - 1}
    BY <1>5 DEF LeaveWoken
  <2>4. pc'[t] = IF t = u THEN "relock" ELSE pc[t]
    BY <1>0, <1>5 DEF TypeOK, LeaveWoken
  <2> QED
    BY <2>2, <2>3, <2>4, Facts DEF Released
<1> QED
  BY <1>1, <1>2, <1>3, <1>4, <1>5 DEF Step

\* A wake is never absorbed by a wait whose slice of sleep ends at the same
\* moment: a released thread leaves its wait() without sleeping again.
THEOREM ReleasesAreKept ==
  Spec => ReleaseKept
<1>1. IInv /\ [Next]_vars => IInv'
  BY Inductive
<1>2. ASSUME IInv, [Next]_vars, NEW t \in Threads, Released(t)
      PROVE  Released(t)' \/ pc'[t] = "relock"
  <2>1. CASE WakeOne \/ WakeAll
    BY <1>2, <2>1, WakesKeepReleased
  <2>2. ASSUME NEW u \in Threads, Step(u)
        PROVE  Released(t)' \/ pc'[t] = "relock"
    BY <1>2, <2>2, StepsKeepReleased
  <2>3. CASE UNCHANGED vars
    BY <1>2, <2>3, MoveNone, StaysReleased DEF vars
  <2> QED
    BY <1>2, <2>1, <2>2, <2>3 DEF Next
<1>3. IInv /\ [Next]_vars =>
        [\A t \in Threads : Released(t) => (Released(t)' \/ pc'[t] = "relock")]_vars
  BY <1>2
<1> QED
  BY Initially, <1>1, <1>3, PTL DEF Spec, ReleaseKept

-----------------------------------------------------------------------------
(* WaitCondition implements CondVar.                                       *)

\* Where each thread is, for CondVar.
LEMMA Views ==
  ASSUME NEW t \in Threads
  PROVE  /\ pc[t] = "asleep" => cvBar[t] = "asleep"
         /\ pc[t] = "signalled" => cvBar[t] = "woken"
         /\ pc[t] = "sliced" => cvBar[t] = IF Released(t) THEN "unwoken" ELSE "asleep"
         /\ pc[t] = "relock" => cvBar[t] = IF result[t] = "woken" THEN "woken" ELSE "unwoken"
         /\ pc[t] \in {"out", "locked"} => cvBar[t] = "out"
BY DEF cvBar

LEMMA NextViews ==
  ASSUME NEW t \in Threads
  PROVE  /\ pc'[t] = "asleep" => cvBar'[t] = "asleep"
         /\ pc'[t] = "signalled" => cvBar'[t] = "woken"
         /\ pc'[t] = "sliced" => cvBar'[t] = IF Released(t)' THEN "unwoken" ELSE "asleep"
         /\ pc'[t] = "relock" =>
              cvBar'[t] = IF result'[t] = "woken" THEN "woken" ELSE "unwoken"
         /\ pc'[t] \in {"out", "locked"} => cvBar'[t] = "out"
BY DEF cvBar

\* A thread that stays where it is looks the same.
LEMMA SameView ==
  ASSUME TypeOK, NEW t \in Threads, pc'[t] = pc[t], result'[t] = result[t],
         pc[t] = "sliced" => (Released(t)' <=> Released(t))
  PROVE  cvBar'[t] = cvBar[t]
<1>1. pc[t] \in Places
  BY DEF TypeOK
<1> QED
  BY <1>1, Views, NextViews DEF Places

\* The sleepers of CondVar are those of WaitCondition and those whose slice ended
\* without a wakeup for them.
LEMMA Sleepers ==
  ASSUME TypeOK, NEW t \in Threads
  PROVE  t \in CV!Asleep <=> t \in Asleep \/ (pc[t] = "sliced" /\ ~Released(t))
<1>1. pc[t] \in Places
  BY DEF TypeOK
<1> QED
  BY <1>1, Views DEF Places, CV!Asleep, Asleep, In

LEMMA Functions_ ==
  /\ cvBar = [t \in Threads |-> cvBar[t]]
  /\ cvBar' = [t \in Threads |-> cvBar'[t]]
BY DEF cvBar

\* A wakeOne releases a sleeper of CondVar whenever there is one.
LEMMA WakeOneImplements ==
  ASSUME IInv, WakeOne
  PROVE  CV!WakeOne
<1>0. TypeOK /\ TypeOK' /\ result' = result
  BY Wakes DEF IInv, WakeOne
<1>1. CASE Asleep # {}
  <2>1. PICK a \in Asleep : pc' = [pc EXCEPT ![a] = "signalled"]
    BY <1>1 DEF WakeOne
  <2>2. a \in Threads /\ a \notin Signalled /\ pc[a] = "asleep" /\ "signalled" \in Places
    BY <2>1 DEF Asleep, Signalled, In, Places
  <2>3. Cardinality(Signalled') = Cardinality(Signalled) + 1
    BY <1>0, <2>1, <2>2, MoveOne, JoinLeave, Facts
  <2>4. wakeups' \in Nat /\ wakeups' <= wakeups + 1 /\ wakeups \in Nat
    BY Facts DEF WakeOne, Lesser
  <2>5. ASSUME NEW t \in Threads, t # a PROVE cvBar'[t] = cvBar[t]
    <3>1. pc'[t] = pc[t]
      BY <1>0, <2>1, <2>2, <2>5 DEF TypeOK
    <3>2. pc[t] = "sliced" => (Released(t)' <=> Released(t))
      BY <2>3, <2>4, <3>1, WakesKeepReleased, Facts DEF Released
    <3> QED
      BY <1>0, <3>1, <3>2, SameView
  <2>6. cvBar'[a] = "woken" /\ a \in CV!Asleep
    BY <1>0, <2>1, <2>2, NextViews, Sleepers DEF TypeOK
  <2>7. cvBar' = [CV!Move({}, "unwoken") EXCEPT ![a] = "woken"]
    BY <2>5, <2>6, Functions_ DEF CV!Move
  <2>8. {} \in SUBSET CV!Asleep /\ a \notin {}
    OBVIOUS
  <2> QED
    BY <2>6, <2>7, <2>8 DEF CV!WakeOne
<1>2. CASE Asleep = {}
  <2>1. pc' = pc /\ Signalled' = Signalled /\ wakeups' = Lesser(wakeups + 1, waiters)
    BY <1>2, MoveNone DEF WakeOne
  <2>2. ASSUME NEW t \in Threads, pc[t] = "sliced" PROVE Released(t)'
    <3>1. t \in Waiting /\ t \notin Signalled
      BY <2>2 DEF Waiting, Signalled, In
    <3>2. Cardinality(Signalled) < Cardinality(Waiting)
      BY <3>1, Facts, Sizes
    <3> QED
      BY <2>1, <2>2, <3>2, Facts DEF Released, Lesser
  <2>3. ASSUME NEW t \in Threads
        PROVE  cvBar'[t] = IF t \in CV!Asleep THEN "unwoken" ELSE cvBar[t]
    <3>1. CASE t \in CV!Asleep
      BY <1>0, <1>2, <2>1, <2>2, <3>1, Sleepers, NextViews
    <3>2. CASE t \notin CV!Asleep
      <4>1. pc[t] = "sliced" => Released(t)
        BY <1>0, <3>2, Sleepers
      <4> QED
        BY <1>0, <2>1, <2>2, <3>2, <4>1, SameView
    <3> QED
      BY <3>1, <3>2
  <2>4. cvBar' = CV!Move(CV!Asleep, "unwoken")
    BY <2>3, Functions_ DEF CV!Move
  <2>5. CV!Asleep = {} => cvBar' = cvBar
    BY <2>3, Functions_
  <2> QED
    BY <2>4, <2>5 DEF CV!WakeOne
<1> QED
  BY <1>1, <1>2

\* A wakeAll releases all of them.
LEMMA WakeAllImplements ==
  ASSUME IInv, WakeAll
  PROVE  CV!WakeAll
<1>0. TypeOK /\ TypeOK' /\ result' = result
  BY Wakes DEF IInv, WakeAll
<1>1. Signalled' = Signalled \cup Asleep
  BY <1>0 DEF TypeOK, WakeAll, Signalled, Asleep, In
<1>2. ASSUME NEW t \in Threads, pc[t] = "sliced" PROVE pc'[t] = "sliced" /\ Released(t)'
  <2>1. /\ t \in Waiting /\ t \notin Signalled' /\ Signalled' \in SUBSET Waiting
        /\ Waiting \in SUBSET Threads
    BY <1>1, <1>2 DEF Waiting, Signalled, Asleep, In
  <2>2. Cardinality(Signalled') < Cardinality(Waiting)
    BY <2>1, Sizes
  <2>3. pc'[t] = "sliced" /\ wakeups' = waiters
    BY <1>0, <1>2 DEF TypeOK, WakeAll
  <2> QED
    BY <2>2, <2>3, Facts DEF Released
<1>3. ASSUME NEW t \in Threads
      PROVE  cvBar'[t] = IF t \in Asleep THEN "woken"
                         ELSE IF t \in CV!Asleep THEN "unwoken" ELSE cvBar[t]
  <2>1. CASE t \in Asleep
    BY <1>0, <2>1, NextViews DEF WakeAll, Asleep, In
  <2>2. CASE t \notin Asleep
    <3>1. pc'[t] = pc[t]
      BY <1>0, <2>2 DEF WakeAll, Asleep, In
    <3>2. CASE t \in CV!Asleep
      BY <1>0, <1>2, <2>2, <3>2, Sleepers, NextViews
    <3>3. CASE t \notin CV!Asleep
      <4>1. pc[t] = "sliced" => Released(t)
        BY <1>0, <3>3, Sleepers
      <4> QED
        BY <1>0, <1>2, <2>2, <3>1, <3>3, <4>1, SameView
    <3> QED
      BY <3>2, <3>3
  <2> QED
    BY <2>1, <2>2
<1>4. Asleep \in SUBSET CV!Asleep
  BY <1>0, Sleepers DEF Asleep, In
<1>5. cvBar' = [t \in Threads |-> IF t \in Asleep THEN "woken"
                                 ELSE IF t \in CV!Asleep THEN "unwoken" ELSE cvBar[t]]
  BY <1>3, Functions_
<1> QED
  BY <1>4, <1>5 DEF CV!WakeAll

\* What one thread does is a step of CondVar, or none.
LEMMA StepsImplement ==
  ASSUME IInv, NEW u \in Threads, Step(u)
  PROVE  [CV!Next]_cvBar
<1>0. TypeOK /\ TypeOK'
  BY Steps DEF IInv
<1>1. ASSUME Signalled' = Signalled, wakeups' = wakeups, NEW t \in Threads, pc'[t] = pc[t],
             result'[t] = result[t]
      PROVE  cvBar'[t] = cvBar[t]
  BY <1>0, <1>1, SameView DEF Released
<1>2. CASE Lock(u) \/ Unlock(u) \/ Expire(u) \/ Interrupt(u) \/ UnsetInterrupt(u)
  <2>1. /\ Signalled' = Signalled /\ wakeups' = wakeups /\ result' = result
        /\ \A t \in Threads :
             pc'[t] = pc[t] \/ (pc[t] \in {"out", "locked"} /\ pc'[t] \in {"out", "locked"})
    BY <1>0, <1>2 DEF TypeOK, Lock, Unlock, Expire, Interrupt, UnsetInterrupt, Signalled, In
  <2>2. \A t \in Threads : cvBar'[t] = cvBar[t]
    BY <1>1, <2>1, Views, NextViews
  <2> QED
    BY <2>2, Functions_
<1>3. CASE EnterAndSleep(u) \/ EnterAndReturn(u)
  <2>1. /\ Signalled' = Signalled /\ wakeups' = wakeups /\ pc[u] = "locked"
        /\ \A t \in Threads : t # u => pc'[t] = pc[t] /\ result'[t] = result[t]
        /\ \/ pc'[u] = "asleep"
           \/ pc'[u] = "relock" /\ result'[u] = "notWoken"
    BY <1>0, <1>3 DEF TypeOK, EnterAndSleep, EnterAndReturn, Signalled, In
  <2>2. \A t \in Threads : t # u => cvBar'[t] = cvBar[t]
    BY <1>1, <2>1
  <2>3. cvBar[u] = "out" /\ cvBar'[u] \in {"asleep", "unwoken"}
    BY <2>1, Views, NextViews
  <2>4. \/ cvBar' = [cvBar EXCEPT ![u] = "asleep"]
        \/ cvBar' = [cvBar EXCEPT ![u] = "unwoken"]
    BY <2>2, <2>3, Functions_
  <2> QED
    BY <2>3, <2>4 DEF CV!Next, CV!Sleep, CV!Bypass
<1>4. CASE SliceEnds(u) \/ SleepAgain(u) \/ LeaveUnwoken(u)
  <2>1. /\ Signalled' = Signalled /\ wakeups' = wakeups /\ pc[u] \in {"asleep", "sliced"}
        /\ \A t \in Threads : t # u => pc'[t] = pc[t] /\ result'[t] = result[t]
    BY <1>0, <1>4 DEF TypeOK, SliceEnds, SleepAgain, LeaveUnwoken, Signalled, In
  <2>2. \A t \in Threads : t # u => cvBar'[t] = cvBar[t]
    BY <1>1, <2>1
  <2>3. \/ cvBar'[u] = cvBar[u]
        \/ cvBar[u] = "asleep" /\ cvBar'[u] = "unwoken"
    <3>1. CASE SliceEnds(u)
      <4>1. pc[u] = "asleep" /\ pc'[u] = "sliced"
        BY <1>0, <3>1 DEF SliceEnds, TypeOK
      <4> QED
        BY <4>1, Views, NextViews
    <3>2. CASE SleepAgain(u)
      <4>1. pc[u] = "sliced" /\ pc'[u] = "asleep" /\ ~Released(u)
        BY <1>0, <3>2, Facts DEF SleepAgain, MaySleep, TypeOK, Released
      <4> QED
        BY <4>1, Views, NextViews
    <3>3. CASE LeaveUnwoken(u)
      <4>1. pc[u] = "sliced" /\ pc'[u] = "relock" /\ result'[u] = "notWoken"
        BY <1>0, <3>3 DEF LeaveUnwoken, TypeOK
      <4> QED
        BY <4>1, Views, NextViews
    <3> QED
      BY <1>4, <3>1, <3>2, <3>3
  <2>4. CASE cvBar'[u] = cvBar[u]
    BY <2>2, <2>4, Functions_
  <2>5. CASE cvBar[u] = "asleep" /\ cvBar'[u] = "unwoken"
    <3>1. {u} \in SUBSET Threads /\ {u} \subseteq CV!Asleep
      BY <2>5 DEF CV!Asleep
    <3>2. cvBar' = CV!Move({u}, "unwoken")
      BY <2>2, <2>5, Functions_ DEF CV!Move
    <3> QED
      BY <3>1, <3>2 DEF CV!Next, CV!GiveUp
  <2> QED
    BY <2>3, <2>4, <2>5
<1>5. CASE LeaveWoken(u)
  <2>1. /\ u \in Signalled /\ Signalled' = Signalled \ {u} /\ pc[u] = "signalled"
        /\ pc'[u] = "relock" /\ result'[u] = "woken"
        /\ \A t \in Threads : t # u => pc'[t] = pc[t] /\ result'[t] = result[t]
        /\ wakeups' \in {wakeups, wakeups - 1}
    BY <1>0, <1>5 DEF TypeOK, LeaveWoken, Signalled, In
  <2>2. Cardinality(Signalled') = Cardinality(Signalled) - 1
    BY <2>1, Facts, JoinLeave
  <2>3. cvBar'[u] = "woken" /\ cvBar[u] = "woken"
    BY <2>1, Views, NextViews
  <2>4. ASSUME NEW t \in Threads
        PROVE  cvBar'[t] = cvBar[t] \/ (cvBar[t] = "asleep" /\ cvBar'[t] = "unwoken")
    <3>1. CASE t = u
      BY <2>3, <3>1
    <3>2. CASE t # u /\ pc[t] # "sliced"
      BY <1>0, <2>1, <3>2, SameView
    <3>3. CASE t # u /\ pc[t] = "sliced"
      <4>1. pc'[t] = "sliced" /\ (Released(t) => Released(t)')
        BY <2>1, <2>2, <3>3, Facts DEF Released
      <4> QED
        BY <3>3, <4>1, Views, NextViews
    <3> QED
      BY <3>1, <3>2, <3>3
  <2> DEFINE S == {t \in Threads : cvBar'[t] # cvBar[t]}
  <2>5. S \in SUBSET Threads /\ S \subseteq CV!Asleep
    BY <2>4 DEF CV!Asleep
  <2>6. cvBar' = CV!Move(S, "unwoken")
    BY <2>4, Functions_ DEF CV!Move
  <2> QED
    BY <2>5, <2>6 DEF CV!Next, CV!GiveUp
<1>6. CASE Relock(u)
  <2>1. /\ Signalled' = Signalled /\ wakeups' = wakeups /\ pc[u] = "relock"
        /\ pc'[u] \in {"out", "locked"}
        /\ \A t \in Threads : t # u => pc'[t] = pc[t] /\ result'[t] = result[t]
    BY <1>0, <1>6 DEF TypeOK, Relock, Signalled, In
  <2>2. \A t \in Threads : t # u => cvBar'[t] = cvBar[t]
    BY <1>1, <2>1
  <2>3. cvBar[u] \in {"woken", "unwoken"} /\ cvBar'[u] = "out"
    BY <2>1, Views, NextViews
  <2>4. cvBar' = [cvBar EXCEPT ![u] = "out"]
    BY <2>2, <2>3, Functions_
  <2> QED
    BY <2>3, <2>4 DEF CV!Next, CV!Return
<1> QED
  BY <1>2, <1>3, <1>4, <1>5, <1>6 DEF Step

\* WaitCondition is the condition variable that its callers (WaitSet, FutureInvoker)
\* are modelled with, for any number of threads.
THEOREM Implements ==
  Spec => ImplementsCondVar
<1>1. Init => CV!Init
  <2> SUFFICES ASSUME Init PROVE CV!Init
    OBVIOUS
  <2>1. \A t \in Threads : pc[t] = "out"
    BY DEF Init
  <2>2. \A t \in Threads : cvBar[t] = "out"
    BY <2>1, Views
  <2> QED
    BY <2>2, Functions_ DEF CV!Init
<1>2. IInv /\ [Next]_vars => [CV!Next]_cvBar
  <2> SUFFICES ASSUME IInv, [Next]_vars PROVE [CV!Next]_cvBar
    OBVIOUS
  <2>1. CASE WakeOne \/ WakeAll
    BY <2>1, WakeOneImplements, WakeAllImplements DEF CV!Next
  <2>2. ASSUME NEW u \in Threads, Step(u) PROVE [CV!Next]_cvBar
    BY <2>2, StepsImplement
  <2>3. CASE UNCHANGED vars
    <3>1. Signalled' = Signalled
      BY <2>3, MoveNone DEF vars
    <3>2. \A t \in Threads : cvBar'[t] = cvBar[t]
      BY <2>3, <3>1, SameView DEF IInv, vars, Released
    <3> QED
      BY <3>2, Functions_
  <2> QED
    BY <2>1, <2>2, <2>3 DEF Next
<1>3. IInv /\ [Next]_vars => IInv'
  BY Inductive
<1> QED
  BY Initially, <1>1, <1>2, <1>3, PTL DEF Spec, ImplementsCondVar, CV!Spec
=============================================================================
