----------------------------- MODULE Dispatching -----------------------------
(***************************************************************************)
(* What RxConcurrent's GuardCondition and WaitSet together promise the code *)
(* that sets triggers and the handlers that run for them, seen from         *)
(* outside: which conditions have a trigger that no handler has answered,   *)
(* and which thread runs which handler.  How a trigger comes to a thread,   *)
(* over two mutexes, a queue and a WaitCondition, is in module WaitSet,     *)
(* which implements this one; so do the tasks' conditions of ThreadPool.    *)
(***************************************************************************)
CONSTANTS Conditions, Threads, None

VARIABLES
  pending,      \* the conditions that are triggered, and whose handler has not begun since
  running       \* running[t]: the condition whose handler thread t runs, or None

vars == <<pending, running>>

Running == {running[t] : t \in Threads}

TypeOK == pending \subseteq Conditions /\ running \in [Threads -> Conditions \cup {None}]

Init == pending = {} /\ running = [t \in Threads |-> None]

-----------------------------------------------------------------------------
\* SetTriggerValue, which has to wait for a handler of the condition that runs.
Set(c, value) ==
  /\ c \notin Running
  /\ pending' = IF value THEN pending \cup {c} ELSE pending \ {c}
  /\ UNCHANGED running

\* A handler begins, for a trigger, and answers all that were set before.
Begin(t, c) ==
  /\ running[t] = None /\ c \in pending /\ c \notin Running
  /\ pending' = pending \ {c}
  /\ running' = [running EXCEPT ![t] = c]

\* It returns, and takes no trigger with it.
Return(t) ==
  /\ running[t] # None
  /\ running' = [running EXCEPT ![t] = None]
  /\ UNCHANGED pending

\* It throws: the trigger it began for is still set.
Throw(t) ==
  /\ running[t] # None
  /\ running' = [running EXCEPT ![t] = None]
  /\ pending' = pending \cup {running[t]}

Next ==
  \/ \E c \in Conditions : \E value \in BOOLEAN : Set(c, value)
  \/ \E t \in Threads : Return(t) \/ Throw(t) \/ \E c \in Conditions : Begin(t, c)

Spec == Init /\ [][Next]_vars

-----------------------------------------------------------------------------
\* Two threads never run the handler of one condition, and a trigger that is pending
\* is later than any run of its handler that is still under way.
Exclusive ==
  /\ \A t, u \in Threads : running[t] = running[u] /\ running[t] # None => t = u
  /\ pending \cap Running = {}
=============================================================================
