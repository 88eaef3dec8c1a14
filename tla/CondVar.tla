------------------------------ MODULE CondVar ------------------------------
(***************************************************************************)
(* What BaseLib/WaitCondition promises the code that waits on it, seen     *)
(* from outside: which threads sleep in wait(), and what the call will     *)
(* return to each of them.  The detailed counters, the internal mutex and  *)
(* the five-second slices of WaitCondition.cpp are in module               *)
(* WaitCondition, which implements this one; WaitSet.tla and the other     *)
(* clients wait through these actions.                                     *)
(***************************************************************************)
CONSTANT Threads                \* the threads that may call wait()

\* "out":      not inside wait()
\* "asleep":   blocked, to be released by a wake or by its own deadline
\* "woken":    on its way out, wait() will return true
\* "unwoken":  on its way out, wait() will return false
States == {"out", "asleep", "woken", "unwoken"}

VARIABLE cv                     \* cv[t]: where thread t is

TypeOK == cv \in [Threads -> States]

Init == cv = [t \in Threads |-> "out"]

Asleep == {t \in Threads : cv[t] = "asleep"}

\* The threads of S move to state s, the others stay where they are.
Move(S, s) == [t \in Threads |-> IF t \in S THEN s ELSE cv[t]]

-----------------------------------------------------------------------------
\* A thread enters wait() and blocks.
Sleep(t) == cv[t] = "out" /\ cv' = [cv EXCEPT ![t] = "asleep"]

\* A thread enters wait() and does not block: its deadline has passed, it was
\* interrupted, or an earlier wake is still unclaimed.
Bypass(t) == cv[t] = "out" /\ cv' = [cv EXCEPT ![t] = "unwoken"]

\* Any number of sleepers give up, for the reasons Bypass lists.
GiveUp(S) == S \subseteq Asleep /\ cv' = Move(S, "unwoken")

\* One wake: if anyone sleeps, at least one sleeper is released.  It is told
\* so (woken) unless its slice of sleep ended at the same moment (unwoken),
\* and others whose slice ended may leave with it.
WakeOne ==
  IF Asleep = {} THEN UNCHANGED cv
  ELSE \/ \E t \in Asleep, S \in SUBSET Asleep :
            /\ t \notin S
            /\ cv' = [Move(S, "unwoken") EXCEPT ![t] = "woken"]
       \/ \E S \in SUBSET Asleep :
            /\ S # {}
            /\ cv' = Move(S, "unwoken")

\* A wake of all leaves nobody asleep.
WakeAll ==
  \E S \in SUBSET Asleep :
    cv' = [t \in Threads |-> IF t \in S THEN "woken"
                             ELSE IF t \in Asleep THEN "unwoken" ELSE cv[t]]

\* wait() returns the mutex to the caller together with its verdict.
Return(t) ==
  /\ cv[t] \in {"woken", "unwoken"}
  /\ cv' = [cv EXCEPT ![t] = "out"]

Next ==
  \/ WakeOne
  \/ WakeAll
  \/ \E S \in SUBSET Threads : GiveUp(S)
  \/ \E t \in Threads : Sleep(t) \/ Bypass(t) \/ Return(t)

Spec == Init /\ [][Next]_cv
=============================================================================
