------------------------ MODULE MCCommandController ------------------------
(* Model-checking instances of CommandController.                           *)
EXTENDS CommandController

CONSTANTS c1, c2

TwoCommands == <<c1, c2>>
OneCommand == <<c1>>

\* CommandPolicy::OnceIndividual, with a retry interval longer than the timeout.
Once ==
  [kind |-> "UNTIL_SUCCESS", min |-> 1, max |-> 1, initial |-> 0, period |-> 1,
   retryInitial |-> 0, retryPeriod |-> Infinite, timeout |-> 1]

AllOnce == [c \in Commands |-> Once]

\* CommandControllerPolicy: one successful execution of the group, in two attempts.
OneSuccess ==
  [kind |-> "NUM_SUCCESSFUL_TIMES", min |-> 1, max |-> 2, initial |-> 0, period |-> 1,
   retryInitial |-> 0, retryPeriod |-> 0, timeout |-> 2]
=============================================================================
