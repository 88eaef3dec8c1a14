--------------------------- MODULE ReadWriteLock ---------------------------
(***************************************************************************)
(* BaseLib/ReadWriteLock.cpp (the pthread build) with ReadLocker and        *)
(* WriteLocker: a pthread read-write lock beside accessCount_, a protected  *)
(* counter of its own that is -1 while a thread writes and the number of    *)
(* readers otherwise.  The two are changed one after the other, so a thread *)
(* may hold the lock before it is counted and after it was counted out.     *)
(***************************************************************************)
EXTENDS Integers, FiniteSets

CONSTANTS
  Threads,      \* the threads that use the lock
  NoThread      \* the writer of a lock nobody writes under

ASSUME ThreadsAssumption == IsFiniteSet(Threads) /\ NoThread \notin Threads

VARIABLES
  readers, owner,   \* the threads that hold the pthread lock: to read, to write
  accessCount,      \* accessCount_
  stage,            \* where each thread is in lock and unlock
  interrupted,      \* the interrupt flag of each thread
  failed            \* the ASSERT that failed

lockVars == <<readers, owner, accessCount, stage>>

\* "out": before lock.  "entered": it has the lock and is not counted.  "in":
\* inside.  "leaked": lock threw in the locker's constructor, so that nobody
\* will unlock.  "leaving": counted out, it still has the lock.
Stages == {"out", "entered", "in", "leaked", "leaving"}

Holders == readers \cup ({owner} \ {NoThread})
Counted(t) == stage[t] \in {"in", "leaked"}

LockInit ==
  /\ readers = {} /\ owner = NoThread /\ accessCount = 0
  /\ stage = [t \in Threads |-> "out"]
  /\ interrupted = [t \in Threads |-> FALSE]
  /\ failed = "none"

-----------------------------------------------------------------------------
Stage(t, from, to) == stage[t] = from /\ stage' = [stage EXCEPT ![t] = to]

\* pthread_rwlock_rdlock
EnterRead(t) ==
  /\ owner = NoThread
  /\ Stage(t, "out", "entered")
  /\ readers' = readers \cup {t}
  /\ UNCHANGED <<owner, accessCount, interrupted, failed>>

\* pthread_rwlock_wrlock
EnterWrite(t) ==
  /\ Holders = {}
  /\ Stage(t, "out", "entered")
  /\ owner' = t
  /\ UNCHANGED <<readers, accessCount, interrupted, failed>>

\* lock counts the thread in; then it throws if the thread is interrupted.  In
\* a locker's constructor (~built) that leaks the lock, later the locker unlocks.
Count(t, built) ==
  /\ Stage(t, "entered", IF interrupted[t] /\ ~built THEN "leaked" ELSE "in")
  /\ IF t = owner
       THEN /\ accessCount' = -1
            /\ failed' = IF accessCount = 0 THEN failed ELSE "lockForWrite"
       ELSE /\ accessCount' = accessCount + 1
            /\ failed' = IF accessCount # -1 THEN failed ELSE "lockForRead"
  /\ UNCHANGED <<readers, owner, interrupted>>

\* Mutant: unlock takes every caller for a reader.
UncountReader(t) ==
  /\ Stage(t, "in", "leaving")
  /\ accessCount' = accessCount - 1
  /\ failed' = IF accessCount' >= 0 THEN failed ELSE "unlock"
  /\ UNCHANGED <<readers, owner, interrupted>>

\* Mutant: the reader that leaves resets the counter, whoever else reads.
UncountAll(t) ==
  /\ Stage(t, "in", "leaving")
  /\ accessCount' = 0
  /\ UNCHANGED <<readers, owner, interrupted, failed>>

\* unlock counts it out, ...
Uncount(t) ==
  /\ Stage(t, "in", "leaving")
  /\ accessCount' = IF accessCount = -1 THEN 0 ELSE accessCount - 1
  /\ failed' = IF accessCount' >= 0 THEN failed ELSE "unlock"
  /\ UNCHANGED <<readers, owner, interrupted>>

\* ... and gives the pthread lock up.
Release(t) ==
  /\ Stage(t, "leaving", "out")
  /\ readers' = readers \ {t}
  /\ owner' = IF owner = t THEN NoThread ELSE owner
  /\ UNCHANGED <<accessCount, interrupted, failed>>

\* Thread::interrupt: a thread that is interrupted stays so while it uses the lock.
Interrupt(t) ==
  /\ ~interrupted[t]
  /\ interrupted' = [interrupted EXCEPT ![t] = TRUE]
  /\ UNCHANGED <<lockVars, failed>>

-----------------------------------------------------------------------------
(* Properties.                                                             *)

LockTypeOK ==
  /\ readers \subseteq Threads
  /\ owner \in Threads \cup {NoThread}
  /\ accessCount \in -1..Cardinality(Threads)
  /\ stage \in [Threads -> Stages]
  /\ interrupted \in [Threads -> BOOLEAN]

\* The counter and the pthread lock agree, whatever halves of lock and unlock
\* several threads are in: -1 for a writer that has been counted, the number of
\* counted readers otherwise.
AccessCounted ==
  accessCount = IF owner # NoThread /\ Counted(owner) THEN -1
                ELSE Cardinality({t \in readers : Counted(t)})

\* The assertions in lockForRead, lockForWrite and unlock hold.
AssertionsHold == failed = "none"
=============================================================================
