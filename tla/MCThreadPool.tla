---------------------------- MODULE MCThreadPool ----------------------------
(* Model-checking instances of ThreadPool.                                  *)
EXTENDS ThreadPool, TLC

CONSTANTS t1, t2

\* TaskPolicy::RunForever(interval), with an interval of a tick.  Its timeout of a
\* minute is out of reach.
Forever ==
  [kind |-> "FOREVER", min |-> 1, max |-> 1, initial |-> 0, period |-> 1,
   retryInitial |-> 0, retryPeriod |-> 1, timeout |-> Infinite]

\* TaskPolicy::RunOnceIn(duration), for a duration of a tick; and with the period
\* of a task that is not meant to run twice out of reach.
OnceIn ==
  [kind |-> "UNTIL_SUCCESS", min |-> 1, max |-> 1, initial |-> 1, period |-> 1,
   retryInitial |-> 0, retryPeriod |-> 1, timeout |-> Infinite]

Once == [OnceIn EXCEPT !.period = Infinite]

\* TaskPolicy::RunOnceImmediately()
Immediately == [OnceIn EXCEPT !.initial = 0, !.period = 0]

ForeverAndOnce == [t \in Tasks |-> IF t = t1 THEN Forever ELSE Once]
Short == [t \in Tasks |-> [Forever EXCEPT !.timeout = 1]]
AllImmediately == [t \in Tasks |-> Immediately]

Symmetry == Permutations(Workers)
=============================================================================
