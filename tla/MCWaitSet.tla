----------------------------- MODULE MCWaitSet -----------------------------
(* Model-checking instances of WaitSet.                                    *)
EXTENDS WaitSet, TLC

CONSTANTS c1, c2

\* The handler of c1 triggers c2, as a task that triggers another task.
Chained == (c1 :> {c2}) @@ (c2 :> {})
=============================================================================
