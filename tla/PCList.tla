------------------------------- MODULE PCList -------------------------------
(***************************************************************************)
(* BaseLib/Collection/PCList.h: a list under a ReadWriteLock, whose         *)
(* consumers wait on a WaitCondition for the producers, through the wait()  *)
(* that takes a ReadWriteLock.  The buffered sockets and the INet proxies   *)
(* and stubs queue their messages in it.                                    *)
(*                                                                         *)
(* The waiting is that of module WaitCondition, with its counters and its   *)
(* slices: pc, waiters, wakeups, expired and result are its variables.      *)
(***************************************************************************)
EXTENDS ReadWriteLock

CONSTANTS
  Producers, Consumers,   \* who call producer_push_..., consumer_pop_...
  Lookers,                \* empty() and length(), under the read lock
  MaxPushes, MaxLooks,    \* bounds: how often the producers push, the lookers look
  Faults                  \* which of "Interrupt" and "Deadline" may happen

ASSUME PCListAssumption ==
  /\ Threads = Producers \cup Consumers \cup Lookers
  /\ MaxPushes \in Nat /\ MaxLooks \in Nat
  /\ Faults \subseteq {"Interrupt", "Deadline"}

VARIABLES
  pc, waiters, wakeups, expired, result,
  task,         \* what each thread is at
  length,       \* how many elements the list has
  pushes, looks,
  emptied       \* an element was taken from an empty list: undefined behaviour

WC == INSTANCE WaitCondition

waitVars == <<pc, waiters, wakeups, expired, result>>
listVars == <<length, pushes, looks, emptied>>
vars == <<lockVars, interrupted, failed, waitVars, task, listVars>>

Tasks == {"idle", "push", "wake", "pop", "wait", "take", "look", "unlock"}

Init ==
  /\ LockInit
  /\ pc = [t \in Threads |-> "out"] /\ waiters = 0 /\ wakeups = 0
  /\ expired = [t \in Threads |-> FALSE] /\ result = [t \in Threads |-> "none"]
  /\ task = [t \in Threads |-> "idle"]
  /\ length = 0 /\ pushes = 0 /\ looks = 0 /\ emptied = FALSE

-----------------------------------------------------------------------------
Does(t, from, to) == task[t] = from /\ task' = [task EXCEPT ![t] = to]
Inside(t) == stage[t] = "in"

(* Locking and unlocking.                                                  *)

StartPush(t) ==
  /\ t \in Producers /\ pushes < MaxPushes
  /\ Does(t, "idle", "push") /\ EnterWrite(t)
  /\ pushes' = pushes + 1
  /\ UNCHANGED <<waitVars, length, looks, emptied>>

StartPop(t) ==
  /\ t \in Consumers
  /\ Does(t, "idle", "pop") /\ EnterWrite(t)
  /\ UNCHANGED <<waitVars, listVars>>

StartLook(t) ==
  /\ t \in Lookers /\ looks < MaxLooks /\ looks' = looks + 1
  /\ Does(t, "idle", "look") /\ EnterRead(t)
  /\ UNCHANGED <<waitVars, length, pushes, emptied>>

LockerBuilt(t) ==
  /\ task[t] \in {"push", "pop", "look"}
  /\ Count(t, FALSE)
  /\ UNCHANGED <<waitVars, task, listVars>>

StartUnlock(t) ==
  /\ Inside(t) /\ task[t] \in {"look", "unlock"}
  /\ Uncount(t)
  /\ UNCHANGED <<waitVars, task, listVars>>

EndUnlock(t) ==
  /\ task[t] \in {"look", "unlock"} /\ task' = [task EXCEPT ![t] = "idle"]
  /\ Release(t)
  /\ UNCHANGED <<waitVars, listVars>>

-----------------------------------------------------------------------------
(* producer_push_front and _back, consumer_pop_front and _back.            *)

Push(t) ==
  /\ Inside(t) /\ Does(t, "push", "wake")
  /\ length' = length + 1
  /\ UNCHANGED <<lockVars, interrupted, failed, waitVars, pushes, looks, emptied>>

\* Mutant: the producer wakes a consumer when the list was empty only.
WakeIfEmpty(t) ==
  /\ Inside(t) /\ Does(t, "wake", "unlock")
  /\ IF length = 1 THEN WC!WakeOne ELSE UNCHANGED <<waitVars, owner, interrupted>>
  /\ UNCHANGED <<lockVars, failed, listVars>>

Wake(t) ==
  /\ Inside(t) /\ Does(t, "wake", "unlock")
  /\ WC!WakeOne
  /\ UNCHANGED <<lockVars, failed, listVars>>

Find(t) ==
  /\ Inside(t) /\ length > 0
  /\ Does(t, "pop", "take")
  /\ UNCHANGED <<lockVars, interrupted, failed, waitVars, listVars>>

\* The list is empty: wait() unlocks and blocks, or does not block because of a wakeup that nobody took, an interrupt or no time.
Block(t) ==
  /\ Inside(t) /\ length = 0
  /\ Does(t, "pop", "wait")
  /\ \/ /\ WC!MaySleep(t)
        /\ pc' = [pc EXCEPT ![t] = "asleep"] /\ waiters' = waiters + 1
        /\ UNCHANGED result
     \/ /\ ~WC!MaySleep(t) \/ "Deadline" \in Faults
        /\ pc' = [pc EXCEPT ![t] = "relock"] /\ UNCHANGED waiters
        /\ result' = [result EXCEPT ![t] = "notWoken"]
  /\ owner' = NoThread /\ accessCount' = 0 /\ stage' = [stage EXCEPT ![t] = "out"]
  /\ UNCHANGED <<readers, interrupted, failed, wakeups, expired, listVars>>

\* What happens inside wait().
Waits(t) ==
  /\ \/ WC!SliceEnds(t) \/ WC!SleepAgain(t) \/ WC!LeaveUnwoken(t) \/ WC!LeaveWoken(t)
  /\ UNCHANGED <<lockVars, failed, task, listVars>>

Expire(t) ==
  /\ "Deadline" \in Faults /\ WC!Expire(t)
  /\ UNCHANGED <<lockVars, failed, task, listVars>>

\* wait() locks for writing again, ...
Relock(t) ==
  /\ pc[t] = "relock" /\ EnterWrite(t)
  /\ expired' = [expired EXCEPT ![t] = FALSE]
  /\ pc' = [pc EXCEPT ![t] = "out"]
  /\ UNCHANGED <<waiters, wakeups, result, task, listVars>>

\* ... and, unless that throws, the consumer takes an element: the code says
\* "if", not "while".
Resume(t) ==
  /\ Does(t, "wait", IF interrupted[t] THEN "unlock" ELSE "take")
  /\ Count(t, TRUE)
  /\ UNCHANGED <<waitVars, listVars>>

Take(t) ==
  /\ Inside(t) /\ Does(t, "take", "unlock")
  /\ IF length > 0 THEN length' = length - 1 /\ UNCHANGED emptied
     ELSE emptied' = TRUE /\ UNCHANGED length
  /\ UNCHANGED <<lockVars, interrupted, failed, waitVars, pushes, looks>>

Interrupted(t) ==
  /\ "Interrupt" \in Faults
  /\ Interrupt(t)
  /\ UNCHANGED <<waitVars, task, listVars>>

-----------------------------------------------------------------------------
Proceeds(t) ==
  \/ LockerBuilt(t) \/ StartUnlock(t) \/ EndUnlock(t)
  \/ Push(t) \/ Wake(t) \/ Find(t) \/ Block(t) \/ Waits(t) \/ Resume(t) \/ Take(t)

Next ==
  \/ ~emptied /\ \E t \in Threads :
       \/ StartPush(t) \/ StartPop(t) \/ StartLook(t) \/ Relock(t)
       \/ Proceeds(t) \/ Expire(t) \/ Interrupted(t)
  \/ emptied /\ UNCHANGED vars

Spec == Init /\ [][Next]_vars

\* Every thread ends the operation it is in, and one that waits for the write lock
\* gets it, since the others do not come for ever.  Nobody need come back.
Fairness ==
  \A t \in Threads :
    /\ WF_vars(~emptied /\ Proceeds(t))
    /\ SF_vars(~emptied /\ Relock(t))

FairSpec == Spec /\ Fairness
-----------------------------------------------------------------------------
(* Properties.                                                             *)

TypeOK ==
  /\ LockTypeOK
  /\ pc \in [Threads -> WC!Places] /\ waiters \in Nat /\ wakeups \in Nat
  /\ expired \in [Threads -> BOOLEAN]
  /\ result \in [Threads -> {"none", "notWoken", "woken"}]
  /\ task \in [Threads -> Tasks]
  /\ length \in Nat /\ pushes \in 0..MaxPushes
  /\ looks \in 0..MaxLooks /\ emptied \in BOOLEAN

\* A consumer does not sleep on beside a list that has elements, as long as no
\* consumer is interrupted (one that is may take a wakeup with it) and nobody
\* popped the empty list.
SleeperServed ==
  \A t \in Consumers :
    (pc[t] \in {"asleep", "sliced"} /\ length > 0)
      ~> (pc[t] \notin {"asleep", "sliced"} \/ length = 0 \/ emptied
          \/ \E c \in Threads : interrupted[c])
=============================================================================
