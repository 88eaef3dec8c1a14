---------------------------- MODULE PCList_proofs ----------------------------
(***************************************************************************)
(* Proofs about PCList and the ReadWriteLock under it, for any finite set   *)
(* of threads, any bounds and any faults.                                   *)
(***************************************************************************)
EXTENDS PCList, FiniteSetTheorems, TLAPS

WP == INSTANCE WaitCondition_proofs

-----------------------------------------------------------------------------
(* The lock.                                                               *)

\* The inductive invariant of the lock: who holds it is who is past the entry, a
\* writer holds it alone, and the counter counts.
LockIInv ==
  /\ readers \subseteq Threads /\ owner \in Threads \cup {NoThread}
  /\ accessCount \in Int
  /\ stage \in [Threads -> Stages] /\ interrupted \in [Threads -> BOOLEAN]
  /\ \A t \in Threads : stage[t] # "out" <=> t \in Holders
  /\ owner # NoThread => readers = {}
  /\ AccessCounted
  /\ failed = "none"

\* The readers that accessCount_ counts.
CountedReaders == {t \in readers : Counted(t)}

\* A thread that joins a set of threads or leaves it changes its size by one.
LEMMA JoinLeave ==
  ASSUME NEW W \in SUBSET Threads, NEW t \in Threads
  PROVE  /\ IsFiniteSet(W) /\ Cardinality(W) \in Nat
         /\ Cardinality(W) <= Cardinality(Threads) /\ Cardinality(Threads) \in Nat
         /\ t \notin W => Cardinality(W \cup {t}) = Cardinality(W) + 1
         /\ t \in W => Cardinality(W \ {t}) = Cardinality(W) - 1
                       /\ Cardinality(W) >= 1
<1>1. /\ IsFiniteSet(W) /\ Cardinality(W) \in Nat
      /\ Cardinality(W) <= Cardinality(Threads) /\ Cardinality(Threads) \in Nat
  BY FS_Subset, FS_CardinalityType, ThreadsAssumption
<1>2. t \notin W => Cardinality(W \cup {t}) = Cardinality(W) + 1
  BY <1>1, FS_AddElement
<1>3. t \in W => Cardinality(W \ {t}) = Cardinality(W) - 1
  BY <1>1, FS_RemoveElement
<1>4. t \in W => Cardinality(W) >= 1
  <2>1. Cardinality(W \ {t}) \in Nat
    BY <1>1, FS_Subset, FS_CardinalityType
  <2> QED
    BY <2>1, <1>1, <1>3
<1> QED
  BY <1>1, <1>2, <1>3, <1>4

\* The invariant gives the range of the counter: a lock has at most as many readers
\* as there are threads.
LEMMA CountInRange ==
  ASSUME LockIInv
  PROVE  LockTypeOK
<1>1. CountedReaders \in SUBSET Threads
  BY DEF LockIInv, CountedReaders
<1>2. Cardinality(CountedReaders) \in 0..Cardinality(Threads)
  <2>1. /\ IsFiniteSet(CountedReaders)
        /\ Cardinality(CountedReaders) <= Cardinality(Threads)
    BY <1>1, FS_Subset, ThreadsAssumption
  <2>2. Cardinality(CountedReaders) \in Nat /\ Cardinality(Threads) \in Nat
    BY <2>1, FS_CardinalityType, ThreadsAssumption
  <2> QED
    BY <2>1, <2>2
<1> QED
  BY <1>2, FS_CardinalityType, ThreadsAssumption
     DEF LockIInv, LockTypeOK, AccessCounted, CountedReaders

\* Nobody is counted at first.
LEMMA LockInitially == LockInit => LockIInv
<1> SUFFICES ASSUME LockInit PROVE LockIInv
  OBVIOUS
<1>1. CountedReaders = {}
  BY DEF LockInit, CountedReaders
<1>2. AccessCounted
  BY <1>1, FS_EmptySet DEF LockInit, AccessCounted, CountedReaders
<1> QED
  BY <1>2, ThreadsAssumption DEF LockInit, LockIInv, Stages, Holders

\* Entering the pthread lock: the thread is not counted yet.
LEMMA EnterKeeps ==
  ASSUME LockIInv, NEW t \in Threads, EnterRead(t) \/ EnterWrite(t)
  PROVE  LockIInv'
<1> USE ThreadsAssumption
<1>1. CASE EnterRead(t)
  <2>1. CountedReaders' = CountedReaders
    BY <1>1 DEF LockIInv, EnterRead, Stage, CountedReaders, Counted, Stages, Holders
  <2>2. AccessCounted'
    BY <1>1, <2>1 DEF LockIInv, EnterRead, Stage, AccessCounted, CountedReaders
  <2> QED
    BY <1>1, <2>2 DEF LockIInv, EnterRead, Stage, Stages, Holders
<1>2. CASE EnterWrite(t)
  <2>1. CountedReaders = {} /\ CountedReaders' = {} /\ owner = NoThread /\ readers = {}
    BY <1>2 DEF LockIInv, EnterWrite, Stage, CountedReaders, Holders
  <2>2. AccessCounted'
    BY <1>2, <2>1 DEF LockIInv, EnterWrite, Stage, AccessCounted, CountedReaders, Counted, Stages
  <2> QED
    BY <1>2, <2>1, <2>2 DEF LockIInv, EnterWrite, Stage, Stages, Holders
<1> QED
  BY <1>1, <1>2

\* Who is in the lock is its writer or one of its readers, never both.
LEMMA Inside_ ==
  ASSUME LockIInv, NEW t \in Threads, stage[t] # "out"
  PROVE  /\ t = owner => readers = {}
         /\ t # owner => t \in readers /\ owner = NoThread
BY ThreadsAssumption DEF LockIInv, Holders

\* Counting in: the assertions of lockForRead and lockForWrite hold, since a writer
\* is alone and readers find no writer.
LEMMA CountKeeps ==
  ASSUME LockIInv, NEW t \in Threads, NEW built \in BOOLEAN, Count(t, built)
  PROVE  LockIInv'
<1> USE ThreadsAssumption
<1>0. stage[t] = "entered" /\ t \notin CountedReaders /\ CountedReaders \in SUBSET Threads
  BY DEF LockIInv, Count, Stage, CountedReaders, Counted
<1>1. /\ \A u \in Threads : stage'[u] # "out" <=> stage[u] # "out"
      /\ \A u \in Threads : Counted(u)' <=> Counted(u) \/ u = t
      /\ stage' \in [Threads -> Stages]
  BY DEF LockIInv, Count, Stage, Counted, Stages
<1>2. CASE t = owner
  <2>1. readers = {} /\ owner # NoThread
    BY <1>0, <1>2, Inside_
  <2>2. CountedReaders = {} /\ ~Counted(owner)
    BY <2>1, <1>0, <1>2 DEF CountedReaders, Counted
  <2>3. accessCount = 0
    BY <2>1, <2>2, FS_EmptySet DEF LockIInv, AccessCounted, CountedReaders
  <2>4. AccessCounted' /\ accessCount' = -1 /\ failed' = "none"
    BY <1>1, <1>2, <2>1, <2>3 DEF LockIInv, Count, AccessCounted
  <2> QED
    BY <1>1, <2>1, <2>4 DEF LockIInv, Count, Holders
<1>3. CASE t # owner
  <2>1. t \in readers /\ owner = NoThread
    BY <1>0, <1>3, Inside_
  <2>2. CountedReaders' = CountedReaders \cup {t}
    BY <1>1, <2>1 DEF LockIInv, Count, CountedReaders
  <2>3. Cardinality(CountedReaders') = Cardinality(CountedReaders) + 1
        /\ Cardinality(CountedReaders) \in Nat
    BY <1>0, <2>2, JoinLeave
  <2>4. accessCount = Cardinality(CountedReaders)
    BY <2>1 DEF LockIInv, AccessCounted, CountedReaders
  <2>5. AccessCounted' /\ accessCount' \in Int /\ failed' = "none"
    BY <1>3, <2>1, <2>3, <2>4 DEF LockIInv, Count, AccessCounted, CountedReaders
  <2> QED
    BY <1>1, <2>1, <2>5 DEF LockIInv, Count, Holders
<1> QED
  BY <1>2, <1>3

\* Counting out: the assertion of unlock holds, since the caller was counted.
LEMMA UncountKeeps ==
  ASSUME LockIInv, NEW t \in Threads, Uncount(t)
  PROVE  LockIInv'
<1> USE ThreadsAssumption
<1>0. stage[t] = "in" /\ Counted(t) /\ CountedReaders \in SUBSET Threads
  BY DEF LockIInv, Uncount, Stage, CountedReaders, Counted
<1>1. /\ \A u \in Threads : stage'[u] # "out" <=> stage[u] # "out"
      /\ \A u \in Threads : Counted(u)' <=> Counted(u) /\ u # t
      /\ stage' \in [Threads -> Stages]
  BY <1>0 DEF LockIInv, Uncount, Stage, Counted, Stages
<1>2. CASE t = owner
  <2>1. readers = {} /\ owner # NoThread /\ accessCount = -1
    BY <1>0, <1>2, Inside_ DEF LockIInv, AccessCounted
  <2>2. accessCount' = 0 /\ failed' = "none" /\ ~Counted(owner)' /\ CountedReaders' = {}
    BY <1>1, <1>2, <2>1 DEF LockIInv, Uncount, CountedReaders
  <2>3. AccessCounted'
    BY <1>1, <1>2, <2>1, <2>2, FS_EmptySet DEF Uncount, AccessCounted, CountedReaders
  <2> QED
    BY <1>1, <2>1, <2>2, <2>3 DEF LockIInv, Uncount, Holders
<1>3. CASE t # owner
  <2>1. t \in readers /\ owner = NoThread /\ t \in CountedReaders
    BY <1>0, <1>3, Inside_ DEF CountedReaders
  <2>2. CountedReaders' = CountedReaders \ {t}
    BY <1>1, <2>1 DEF LockIInv, Uncount, CountedReaders
  <2>3. /\ Cardinality(CountedReaders') = Cardinality(CountedReaders) - 1
        /\ Cardinality(CountedReaders) \in Nat /\ Cardinality(CountedReaders) >= 1
    BY <1>0, <2>1, <2>2, JoinLeave
  <2>4. accessCount = Cardinality(CountedReaders)
    BY <2>1 DEF LockIInv, AccessCounted, CountedReaders
  <2>5. accessCount' = accessCount - 1 /\ accessCount' >= 0
    BY <2>3, <2>4 DEF Uncount
  <2>6. AccessCounted' /\ accessCount' \in Int /\ failed' = "none"
    BY <2>1, <2>3, <2>4, <2>5 DEF LockIInv, Uncount, AccessCounted, CountedReaders
  <2> QED
    BY <1>1, <2>1, <2>6 DEF LockIInv, Uncount, Holders
<1> QED
  BY <1>2, <1>3

\* Giving the pthread lock up: the thread is not counted any more.
LEMMA ReleaseKeeps ==
  ASSUME LockIInv, NEW t \in Threads, Release(t)
  PROVE  LockIInv'
<1> USE ThreadsAssumption
<1>0. stage[t] = "leaving" /\ ~Counted(t)
  BY DEF Release, Stage, Counted
<1>1. /\ \A u \in Threads : stage'[u] # "out" <=> stage[u] # "out" /\ u # t
      /\ \A u \in Threads : Counted(u)' <=> Counted(u)
      /\ stage' \in [Threads -> Stages]
  BY <1>0 DEF LockIInv, Release, Stage, Counted, Stages
<1>2. CountedReaders' = CountedReaders
  BY <1>0, <1>1 DEF LockIInv, Release, CountedReaders
<1>3. AccessCounted'
  BY <1>0, <1>1, <1>2 DEF LockIInv, Release, AccessCounted, CountedReaders
<1> QED
  BY <1>0, <1>1, <1>3 DEF LockIInv, Release, Holders

\* wait() gives the lock up in one step, seen by nobody but the writer.
LEMMA GiveUpKeeps ==
  ASSUME LockIInv, NEW t \in Threads, stage[t] = "in", t = owner,
         owner' = NoThread, accessCount' = 0, stage' = [stage EXCEPT ![t] = "out"],
         UNCHANGED <<readers, interrupted, failed>>
  PROVE  LockIInv'
<1> USE ThreadsAssumption
<1>1. readers = {}
  BY Inside_
<1>2. AccessCounted'
  <2>1. CountedReaders' = {}
    BY <1>1 DEF CountedReaders
  <2> QED
    BY <2>1, FS_EmptySet DEF AccessCounted, CountedReaders
<1> QED
  BY <1>1, <1>2 DEF LockIInv, Holders, Stages
-----------------------------------------------------------------------------
(* The list.                                                               *)

\* Who works on the list, or waits beside it, entered the lock to write; a thread
\* is in wait() outside the lock and with nothing else to do.
WriterTasks == {"push", "wake", "pop", "wait", "take"}

Placed ==
  /\ task \in [Threads -> Tasks]
  /\ \A t \in Threads : stage[t] # "out" /\ task[t] \in WriterTasks => owner = t
  /\ \A t \in Threads : pc[t] # "out" => stage[t] = "out" /\ task[t] = "wait"

Bounded ==
  /\ result \in [Threads -> {"none", "notWoken", "woken"}]
  /\ length \in Nat /\ pushes \in 0..MaxPushes
  /\ looks \in 0..MaxLooks

\* The inductive invariant: WP!IInv says that the counters of the WaitCondition
\* count the threads that wait, which gives them their types.
IInv == LockIInv /\ WP!IInv /\ Placed /\ Bounded

\* What the lemmas of WaitCondition_proofs assume of its threads.
LEMMA WaitThreads == WP!ThreadsAssumption
BY ThreadsAssumption DEF WP!ThreadsAssumption, IsFiniteSet, WP!IsFiniteSet

\* Nobody has the lock, waits or works at first.
LEMMA Initially == Init => IInv
<1> SUFFICES ASSUME Init PROVE IInv
  OBVIOUS
<1>1. LockIInv
  BY LockInitially DEF Init
<1>2. WP!IInv
  <2>1. WP!Init
    BY DEF Init, LockInit, WP!Init
  <2> QED
    BY <2>1, WaitThreads, WP!Initially
<1>3. Placed
  BY DEF Init, LockInit, Placed, Tasks
<1>4. Bounded
  BY PCListAssumption DEF Init, Bounded
<1> QED
  BY <1>1, <1>2, <1>3, <1>4 DEF IInv

\* A step that does not touch the WaitCondition.
LEMMA WaitAside ==
  ASSUME WP!IInv, LockIInv', UNCHANGED <<pc, waiters, wakeups, expired, result>>
  PROVE  WP!IInv'
<1>1. WP!TypeOK'
  BY DEF LockIInv, WP!IInv, WP!TypeOK, WP!Places, waitVars
<1>2. WP!Waiting' = WP!Waiting /\ WP!Signalled' = WP!Signalled
  BY WaitThreads, WP!MoveNone
<1> QED
  BY <1>1, <1>2, WaitThreads, WP!CountersAside

\* A thread gets the lock (StartPush, StartPop, StartLook).
LEMMA EnterSteps ==
  ASSUME IInv, NEW t \in Threads, StartPush(t) \/ StartPop(t) \/ StartLook(t)
  PROVE  IInv'
<1> USE ThreadsAssumption, PCListAssumption DEF IInv
<1>1. LockIInv'
  BY EnterKeeps DEF StartPush, StartPop, StartLook
<1>2. WP!IInv'
  BY <1>1, WaitAside DEF StartPush, StartPop, StartLook, waitVars
<1>3. Bounded'
  BY DEF Bounded, StartPush, StartPop, StartLook, waitVars, listVars
<1>4. Placed'
  <2>1. CASE StartPush(t) \/ StartPop(t)
    <3>1. \A u \in Threads : stage[u] = "out"
      BY <2>1 DEF StartPush, StartPop, EnterWrite, LockIInv
    <3>2. owner' = t /\ pc' = pc /\ pc[t] = "out"
      BY <2>1 DEF StartPush, StartPop, EnterWrite, Does, Placed, waitVars
    <3>3. \E s \in {"push", "pop"} : task' = [task EXCEPT ![t] = s]
      BY <2>1 DEF StartPush, StartPop, Does
    <3>4. stage' = [stage EXCEPT ![t] = "entered"]
      BY <2>1 DEF StartPush, StartPop, EnterWrite, Stage
    <3> QED
      BY <3>1, <3>2, <3>3, <3>4 DEF Placed, Tasks, LockIInv
  <2>2. CASE StartLook(t)
    BY <2>2 DEF StartLook, EnterRead, Stage, Does, Placed, Tasks, WriterTasks,
                waitVars, LockIInv
  <2> QED
    BY <2>1, <2>2
<1> QED
  BY <1>1, <1>2, <1>3, <1>4

\* A thread is counted in or out, or gives the lock up (LockerBuilt, StartUnlock,
\* EndUnlock).
LEMMA CountSteps ==
  ASSUME IInv, NEW t \in Threads, LockerBuilt(t) \/ StartUnlock(t) \/ EndUnlock(t)
  PROVE  IInv'
<1> USE ThreadsAssumption DEF IInv
<1>1. LockIInv'
  BY CountKeeps, UncountKeeps, ReleaseKeeps DEF LockerBuilt, StartUnlock, EndUnlock
<1>2. WP!IInv'
  BY <1>1, WaitAside DEF LockerBuilt, StartUnlock, EndUnlock, waitVars
<1>3. Bounded'
  BY DEF Bounded, LockerBuilt, StartUnlock, EndUnlock, waitVars, listVars
<1>4. Placed'
  <2>1. CASE LockerBuilt(t)
    BY <2>1 DEF LockerBuilt, Count, Stage, Placed, waitVars, LockIInv
  <2>2. CASE StartUnlock(t)
    BY <2>2 DEF StartUnlock, Uncount, Stage, Placed, waitVars, LockIInv
  <2>3. CASE EndUnlock(t)
    BY <2>3 DEF EndUnlock, Release, Stage, Placed, Tasks, WriterTasks, waitVars, LockIInv
  <2> QED
    BY <2>1, <2>2, <2>3
<1> QED
  BY <1>1, <1>2, <1>3, <1>4

\* A writer works on the list (Push, Find, Take): nothing of the lock changes.
LEMMA WorkSteps ==
  ASSUME IInv, NEW t \in Threads, Push(t) \/ Find(t) \/ Take(t)
  PROVE  IInv'
<1> USE DEF IInv
<1>1. LockIInv'
  BY DEF Push, Find, Take, LockIInv, lockVars, Holders, AccessCounted, Counted
<1>2. WP!IInv'
  BY <1>1, WaitAside DEF Push, Find, Take, waitVars
<1>3. Bounded'
  BY DEF Bounded, Push, Find, Take, waitVars, listVars
<1>4. Placed'
  BY DEF Push, Find, Take, Does, Inside, Placed, Tasks, WriterTasks, waitVars, lockVars
<1> QED
  BY <1>1, <1>2, <1>3, <1>4

\* wakeOne and what threads do inside wait(): steps of WaitCondition (Wake, Waits,
\* Expire).
LEMMA WaitSteps ==
  ASSUME IInv, NEW t \in Threads, Wake(t) \/ Waits(t) \/ Expire(t)
  PROVE  IInv'
<1> USE DEF IInv
<1>1. LockIInv'
  BY DEF Wake, Waits, Expire, LockIInv, lockVars, Holders, AccessCounted, Counted,
         WC!WakeOne, WC!SliceEnds, WC!SleepAgain, WC!LeaveUnwoken, WC!LeaveWoken, WC!Expire
<1>2. CASE Wake(t)
  <2>1. WP!WakeOne
    BY <1>2 DEF Wake, WC!WakeOne, WP!WakeOne, WC!Lesser, WP!Lesser, WC!Asleep, WP!Asleep,
                WC!In, WP!In
  <2>2. WP!IInv'
    BY <2>1, WaitThreads, WP!Wakes
  <2>3. \A u \in Threads : pc'[u] # "out" => pc[u] # "out"
    BY <1>2 DEF Wake, WC!WakeOne, WC!Asleep, WC!In, WP!IInv, WP!TypeOK
  <2>4. Bounded' /\ Placed'
    BY <1>2, <2>3 DEF Wake, WC!WakeOne, Does, Inside, Placed, Bounded, Tasks, WriterTasks,
                      lockVars, listVars
  <2> QED
    BY <1>1, <2>2, <2>4
<1>3. CASE Waits(t) \/ Expire(t)
  <2>1. WP!Step(t)
    BY <1>3 DEF Waits, Expire, WP!Step, WC!SliceEnds, WC!SleepAgain, WC!LeaveUnwoken,
                WC!LeaveWoken, WC!Expire, WC!MaySleep, WP!SliceEnds, WP!SleepAgain,
                WP!LeaveUnwoken, WP!LeaveWoken, WP!Expire, WP!MaySleep
  <2>2. WP!IInv'
    BY <2>1, WaitThreads, WP!Steps
  <2>3. \A u \in Threads : pc'[u] # "out" => pc[u] # "out"
    BY <1>3 DEF Waits, Expire, WC!SliceEnds, WC!SleepAgain, WC!LeaveUnwoken,
                WC!LeaveWoken, WC!Expire, WP!IInv, WP!TypeOK
  <2>4. result' \in [Threads -> {"none", "notWoken", "woken"}]
    BY <1>3 DEF Waits, Expire, WC!SliceEnds, WC!SleepAgain, WC!LeaveUnwoken,
                WC!LeaveWoken, WC!Expire, Bounded
  <2>5. Bounded' /\ Placed'
    BY <1>3, <2>3, <2>4 DEF Waits, Expire, Placed, Bounded, lockVars, listVars
  <2> QED
    BY <1>1, <2>2, <2>5
<1> QED
  BY <1>2, <1>3

\* A consumer finds the list empty and waits.
LEMMA BlockSteps ==
  ASSUME IInv, NEW t \in Threads, Block(t)
  PROVE  IInv'
<1> USE ThreadsAssumption DEF IInv
<1>1. t = owner /\ stage[t] = "in" /\ pc[t] = "out" /\ task[t] = "pop"
  BY DEF Block, Inside, Does, Placed, WriterTasks
<1>2. LockIInv'
  BY <1>1, GiveUpKeeps DEF Block
<1>3. \/ /\ pc' = [pc EXCEPT ![t] = "asleep"] /\ waiters' = waiters + 1 /\ result' = result
      \/ /\ pc' = [pc EXCEPT ![t] = "relock"] /\ waiters' = waiters
         /\ result' = [result EXCEPT ![t] = "notWoken"]
  BY DEF Block
<1>4. WP!TypeOK /\ WP!TypeOK'
  BY <1>2, <1>3 DEF Block, WP!IInv, WP!TypeOK, WP!Places, LockIInv
<1>5. WP!IInv'
  <2>1. t \notin WP!Waiting /\ t \notin WP!Signalled /\ WP!Waiting \in SUBSET Threads
    BY <1>1 DEF WP!Waiting, WP!Signalled, WP!In
  <2>2. CASE pc' = [pc EXCEPT ![t] = "asleep"] /\ waiters' = waiters + 1
    <3>1. WP!Waiting' = WP!Waiting \cup {t} /\ WP!Signalled' = WP!Signalled
      BY <1>4, <2>1, <2>2, WaitThreads DEF WP!TypeOK, WP!Waiting, WP!Signalled, WP!In
    <3>2. WP!Cardinality(WP!Waiting \cup {t}) = WP!Cardinality(WP!Waiting) + 1
      BY <2>1, WaitThreads, WP!JoinLeave
    <3> QED
      BY <1>4, <2>2, <3>1, <3>2 DEF Block, WP!IInv, WP!WaitersCounted, WP!SignalledCovered
  <2>3. CASE pc' = [pc EXCEPT ![t] = "relock"] /\ waiters' = waiters
    <3>1. WP!Waiting' = WP!Waiting /\ WP!Signalled' = WP!Signalled
      BY <1>4, <2>1, <2>3, WaitThreads DEF WP!TypeOK, WP!Waiting, WP!Signalled, WP!In
    <3> QED
      BY <1>4, <2>3, <3>1, WaitThreads, WP!CountersAside DEF Block
  <2> QED
    BY <1>3, <2>2, <2>3
<1>6. Bounded' /\ Placed'
  BY <1>1, <1>3 DEF Block, Does, Placed, Bounded, Tasks, WriterTasks, listVars, LockIInv,
                    WP!IInv, WP!TypeOK
<1> QED
  BY <1>2, <1>5, <1>6

\* wait() locks again, and the consumer goes on.
LEMMA ReturnSteps ==
  ASSUME IInv, NEW t \in Threads, Relock(t) \/ Resume(t)
  PROVE  IInv'
<1> USE ThreadsAssumption DEF IInv
<1>1. LockIInv'
  BY EnterKeeps, CountKeeps DEF Relock, Resume
<1>2. CASE Relock(t)
  <2>1. pc[t] = "relock" /\ pc' = [pc EXCEPT ![t] = "out"]
    BY <1>2 DEF Relock
  <2>2. WP!TypeOK /\ WP!TypeOK'
    BY <1>1, <1>2 DEF Relock, WP!IInv, WP!TypeOK, WP!Places, LockIInv
  <2>3. t \notin WP!Waiting /\ t \notin WP!Signalled
    BY <2>1 DEF WP!Waiting, WP!Signalled, WP!In
  <2>4. WP!Waiting' = WP!Waiting /\ WP!Signalled' = WP!Signalled
    BY <2>1, <2>2, <2>3, WaitThreads DEF WP!TypeOK, WP!Waiting, WP!Signalled, WP!In
  <2>5. WP!IInv'
    BY <1>2, <2>2, <2>4, WaitThreads, WP!CountersAside DEF Relock
  <2>6. \A u \in Threads : stage[u] = "out"
    BY <1>2 DEF Relock, EnterWrite, LockIInv
  <2>7. owner' = t /\ task' = task /\ stage' = [stage EXCEPT ![t] = "entered"]
    BY <1>2 DEF Relock, EnterWrite, Stage
  <2>8. Placed'
    BY <2>1, <2>2, <2>6, <2>7 DEF Placed, LockIInv, WP!TypeOK
  <2>9. Bounded'
    BY <1>2 DEF Relock, Bounded, listVars
  <2> QED
    BY <1>1, <2>5, <2>8, <2>9
<1>3. CASE Resume(t)
  <2>1. WP!IInv'
    BY <1>1, <1>3, WaitAside DEF Resume, waitVars
  <2>2. stage[t] = "entered" /\ stage' \in [Threads -> Stages]
    BY <1>1, <1>3 DEF Resume, Count, Stage, LockIInv
  <2>3. Placed'
    BY <1>3, <2>2 DEF Resume, Does, Count, Stage, Placed, Tasks, WriterTasks, waitVars, LockIInv
  <2>4. Bounded'
    BY <1>3 DEF Resume, Bounded, waitVars, listVars
  <2> QED
    BY <1>1, <2>1, <2>3, <2>4
<1> QED
  BY <1>2, <1>3

\* An interrupt changes a flag.
LEMMA InterruptSteps ==
  ASSUME IInv, NEW t \in Threads, Interrupted(t)
  PROVE  IInv'
<1> USE DEF IInv
<1>1. LockIInv'
  BY DEF Interrupted, Interrupt, LockIInv, lockVars, Holders, AccessCounted, Counted
<1>2. WP!IInv'
  BY <1>1, WaitAside DEF Interrupted, waitVars
<1>3. Bounded' /\ Placed'
  BY DEF Interrupted, Interrupt, Bounded, Placed, waitVars, listVars, lockVars
<1> QED
  BY <1>1, <1>2, <1>3

\* emptied is a flag (it is told apart from Placed and Bounded for the provers' sake).
LEMMA FlagKept ==
  ASSUME emptied \in BOOLEAN, [Next]_vars
  PROVE  emptied' \in BOOLEAN
<1>1. ASSUME NEW t \in Threads,
             \/ StartPush(t) \/ StartPop(t) \/ StartLook(t) \/ LockerBuilt(t)
             \/ StartUnlock(t) \/ EndUnlock(t) \/ Push(t) \/ Wake(t) \/ Find(t)
             \/ Block(t) \/ Waits(t) \/ Expire(t) \/ Relock(t) \/ Resume(t)
             \/ Interrupted(t)
      PROVE  emptied' = emptied
  BY <1>1 DEF StartPush, StartPop, StartLook, LockerBuilt, StartUnlock, EndUnlock, Push,
              Wake, Find, Block, Waits, Expire, Relock, Resume, Interrupted, listVars
<1>2. ASSUME NEW t \in Threads, Take(t) PROVE emptied' = emptied \/ emptied' = TRUE
  BY <1>2 DEF Take
<1>3. CASE UNCHANGED vars
  BY <1>3 DEF vars, listVars
<1> QED
  BY <1>1, <1>2, <1>3 DEF Next, Proceeds

LEMMA Inductive ==
  ASSUME IInv, [Next]_vars
  PROVE  IInv'
<1>1. ASSUME NEW t \in Threads,
             \/ StartPush(t) \/ StartPop(t) \/ StartLook(t) \/ Relock(t)
             \/ Proceeds(t) \/ Expire(t) \/ Interrupted(t)
      PROVE  IInv'
  BY <1>1, EnterSteps, CountSteps, WorkSteps, WaitSteps, BlockSteps, ReturnSteps,
     InterruptSteps DEF Proceeds
<1>2. CASE UNCHANGED vars
  <2>1. LockIInv'
    BY <1>2 DEF vars, IInv, LockIInv, lockVars, Holders, AccessCounted, Counted
  <2>2. WP!IInv'
    BY <1>2, <2>1, WaitAside DEF IInv, vars, waitVars
  <2> QED
    BY <1>2, <2>1, <2>2 DEF vars, IInv, Placed, Bounded, waitVars, listVars, lockVars
<1> QED
  BY <1>1, <1>2 DEF Next

-----------------------------------------------------------------------------
(* Theorems.                                                               *)

\* accessCount_, waiters and wakeups stay in their ranges, for any number of
\* producers, consumers and lookers.
THEOREM TypeCorrect ==
  Spec => []TypeOK
<1>1. IInv /\ [Next]_vars => IInv'
  BY Inductive
<1>2. Init => emptied \in BOOLEAN
  BY DEF Init
<1>3. emptied \in BOOLEAN /\ [Next]_vars => (emptied \in BOOLEAN)'
  BY FlagKept
<1>4. IInv /\ emptied \in BOOLEAN => TypeOK
  BY CountInRange
     DEF IInv, TypeOK, Placed, Bounded, WP!IInv, WP!TypeOK, WP!Places, WC!Places
<1> QED
  BY Initially, <1>1, <1>2, <1>3, <1>4, PTL DEF Spec

\* accessCount_ agrees with the pthread lock at every moment.
THEOREM AccessIsCounted ==
  Spec => []AccessCounted
<1>1. IInv /\ [Next]_vars => IInv'
  BY Inductive
<1>2. IInv => AccessCounted
  BY DEF IInv, LockIInv
<1> QED
  BY Initially, <1>1, <1>2, PTL DEF Spec

\* The assertions in lockForRead, lockForWrite and unlock never fail.
THEOREM LockAssertionsHold ==
  Spec => []AssertionsHold
<1>1. IInv /\ [Next]_vars => IInv'
  BY Inductive
<1>2. IInv => AssertionsHold
  BY DEF IInv, LockIInv, AssertionsHold
<1> QED
  BY Initially, <1>1, <1>2, PTL DEF Spec
=============================================================================
