------------------------- MODULE CommandController -------------------------
(***************************************************************************)
(* RxCommand: a CommandController, the commands it executes, the runs of    *)
(* them that the command pool holds, and a client of the controller.        *)
(*                                                                         *)
(* CommandController::run holds the scheduling mutex, the client's calls    *)
(* hold the controller's own mutex, and the commands end under neither: one *)
(* test or one update of schedule() is one step here, and the client and    *)
(* the commands go on in between.  The two pools are those of module        *)
(* ThreadPool.  Here a pool is the runs it has been given and that have not *)
(* ended, and nothing is said of when the run of a command ends.            *)
(***************************************************************************)
EXTENDS ExecutionChecker, Sequences, FiniteSets

CONSTANTS
  Order,        \* the commands, in the order in which they were added
  Policy,       \* Policy[c]: the TaskPolicy of c
  Controller,   \* the Attempt, Interval and Timeout of the controller
  Limit,        \* MaxConcurrentCommands, or 1 if the policy's Computation is SEQUENTIAL
  MaxAge,       \* bound: ages stop here, no policy tells longer ones apart
  MaxCalls,     \* bound: how often the client calls
  Ops           \* the calls of the client, see AllOps

AllOps == {"Execute", "Cancel", "Trigger"}
Commands == {Order[i] : i \in DOMAIN Order}
Delays == 0..Infinite - 1

ASSUME ControllerAssumption ==
  /\ Order \in Seq(Commands)
  /\ Policy \in [Commands -> PolicyType] /\ Controller \in PolicyType
  /\ Limit \in Nat \ {0} /\ MaxAge \in Nat /\ MaxCalls \in Nat /\ Ops \subseteq AllOps

VARIABLES
  status,       \* the ExecutionStatus of each command
  won,          \* LastSuccessfulExecutionTime is after LastFailedExecutionTime
  fell,         \* LastFailedExecutionTime is that of the last run
  live,         \* how many runs of each command the command pool still has
  group,        \* the ExecutionStatus of the CommandsGroup
  own,          \* the ExecutionStatus of the controller
  triggered,    \* CommandControllerState::triggered_
  subscription, \* how the CommandControllerSubscription given out last has ended
  due,          \* due[d]: how many runs of the controller its pool starts in d
  phase, todo,  \* where schedule() is, and the places in Order it still has to execute
  call, calls,  \* where the client is, and how often it has called
  stopped,      \* history: the commands that were stopped while they ran
  overtaken,    \* history: Execute overtook a run that was about to end the last
  aborted       \* an ASSERT failed

commandVars == <<status, won, fell, live, stopped>>
clientVars == <<call, calls, overtaken>>
vars == <<commandVars, group, own, triggered, subscription, due, phase, todo,
          clientVars, aborted>>

\* "forever", "group": isDoneForever, isCommandGroupDone.  "record", "again":
\* nextGroupExecution.  "overdue" to "plan": scheduleReady and
\* scheduleController.  "stop" to "report": stopScheduling.
Phases == {"idle", "forever", "group", "record", "again", "overdue", "find",
           "check", "execute", "plan", "stop", "finish", "complete", "timeout",
           "error", "report"}
Ending == {"finish", "complete", "timeout", "error", "report"}

Init ==
  /\ status = [c \in Commands |-> Fresh]
  /\ won = [c \in Commands |-> FALSE] /\ fell = [c \in Commands |-> FALSE]
  /\ live = [c \in Commands |-> 0]
  /\ group = Fresh /\ own = Fresh /\ triggered = FALSE
  /\ subscription = "none" /\ due = [d \in Delays |-> 0]
  /\ phase = "idle" /\ todo = {} /\ call = "none" /\ calls = 0
  /\ stopped = {} /\ overtaken = FALSE /\ aborted = FALSE

-----------------------------------------------------------------------------
(* Commands and the group.                                                 *)

Done(c) == ~IsExecuting(status[c]) /\ ~IsInAttempt(status[c], Policy[c])

ReadyIn(c) == EarliestReadyIn(status[c], Policy[c])

Ready(c) ==
  \/ ReadyIn(c) = 0
  \/ ~IsExecuting(status[c]) /\ IsReadyToExecute(status[c], Policy[c])

\* An assertion at the end of EarliestReadyIn fails.
Broken(c) == ReadyIn(c) = 0 /\ ~Postcondition(status[c], Policy[c])

Startable(c) == ~IsExecuting(status[c]) /\ Ready(c)

Executing == {c \in Commands : IsExecuting(status[c])}
AllDone == \A c \in Commands : Done(c)
AllSucceeded == \A c \in Commands : won[c]

\* The group's EarliestReadyIn
GroupReadyIn ==
  CHOOSE d \in Durations :
    /\ d = Infinite \/ \E c \in Commands : d = ReadyIn(c)
    /\ \A c \in Commands : d <= ReadyIn(c)

\* CommandsGroup::Reset
ResetCommands ==
  /\ status' = [c \in Commands |-> Fresh]
  /\ won' = [c \in Commands |-> FALSE] /\ fell' = [c \in Commands |-> FALSE]

\* Mutant: a run is dropped whether or not the pool still has it.
StopTwice(S, state) ==
  /\ status' = [c \in Commands |->
                  IF c \in S THEN Failure(status[c], state) ELSE status[c]]
  /\ won' = [c \in Commands |-> won[c] /\ c \notin S]
  /\ fell' = [c \in Commands |-> fell[c] \/ c \in S]
  /\ \E dropped \in SUBSET S :
       live' = [c \in Commands |-> IF c \in dropped THEN live[c] - 1 ELSE live[c]]
  /\ stopped' = stopped \cup {c \in S : live[c] > 0}

\* A failure of the commands S, whose state becomes the one given.  Their last
\* runs are cancelled in the pool, which drops those that have not begun.
Stop(S, state) ==
  /\ status' = [c \in Commands |->
                  IF c \in S THEN Failure(status[c], state) ELSE status[c]]
  /\ won' = [c \in Commands |-> won[c] /\ c \notin S]
  /\ fell' = [c \in Commands |-> fell[c] \/ c \in S]
  /\ \E dropped \in SUBSET {c \in S : live[c] > 0} :
       live' = [c \in Commands |-> IF c \in dropped THEN live[c] - 1 ELSE live[c]]
  /\ stopped' = stopped \cup {c \in S : live[c] > 0}

\* CommandActions::processOnComplete, of any run of the command that is left,
\* and nothing if the command is cancelled.  A run left over from before the command
\* was reset may be a success too many.
Complete(c) ==
  /\ live[c] > 0 /\ live' = [live EXCEPT ![c] = @ - 1]
  /\ IF status[c].state = "CANCELLED"
     THEN UNCHANGED <<status, won, aborted>>
     ELSE /\ status' = [status EXCEPT ![c] = Success(@)]
          /\ won' = [won EXCEPT ![c] = ~fell[c]]
          /\ aborted' = Overcounts(status[c])
  /\ UNCHANGED <<fell, stopped, group, own, triggered, subscription, due, phase,
                 todo, clientVars>>

\* CommandActions::processOnError, of a run whose action throws.
Throw(c) ==
  /\ live[c] > 0 /\ live' = [live EXCEPT ![c] = @ - 1]
  /\ status' = [status EXCEPT ![c] = Failure(@, "FAILURE")]
  /\ won' = [won EXCEPT ![c] = FALSE] /\ fell' = [fell EXCEPT ![c] = TRUE]
  /\ UNCHANGED <<stopped, group, own, triggered, subscription, due, phase, todo,
                 clientVars, aborted>>

-----------------------------------------------------------------------------
(* CommandController::schedule.                                            *)

\* ControllerPool()->OnSchedule, and OnReady for 0.
RunIn(d) == due' = [due EXCEPT ![d] = @ + 1]

DoneForever ==
  /\ ~triggered
  /\ \/ own.state = "CANCELLED" \/ IsTimeout(own, Controller)
     \/ AllDone /\ ~IsInAttempt(group, Controller)

\* Mutant: the group counts as done when one command is.
GroupDoneWithOne ==
  own.state = "CANCELLED" \/ IsTimeout(own, Controller) \/ \E c \in Commands : Done(c)

GroupDone == own.state = "CANCELLED" \/ IsTimeout(own, Controller) \/ AllDone

\* CommandController::run, and scheduleFromRun with the scheduling mutex free.
Run ==
  /\ phase = "idle" /\ due[0] > 0
  /\ due' = [due EXCEPT ![0] = @ - 1]
  /\ phase' = "forever"
  /\ UNCHANGED <<commandVars, group, own, triggered, subscription, todo, clientVars, aborted>>

CheckForever ==
  /\ phase = "forever" /\ phase' = IF DoneForever THEN "stop" ELSE "group"
  /\ UNCHANGED <<commandVars, group, own, triggered, subscription, due, todo,
                 clientVars, aborted>>

CheckGroup ==
  /\ phase = "group" /\ phase' = IF GroupDone THEN "record" ELSE "overdue"
  /\ UNCHANGED <<commandVars, group, own, triggered, subscription, due, todo,
                 clientVars, aborted>>

\* nextGroupExecution: how the group ended.
Record ==
  /\ phase = "record" /\ phase' = "again"
  /\ group' = IF triggered THEN group
              ELSE IF AllSucceeded THEN Success(group) ELSE Failure(group, "FAILURE")
  /\ aborted' = (~triggered /\ AllSucceeded /\ Overcounts(group))
  /\ UNCHANGED <<commandVars, own, triggered, subscription, due, todo, clientVars>>

\* nextGroupExecution: another execution, or none.  Either way run returns.
Again ==
  /\ phase = "again" /\ phase' = "idle"
  /\ IF triggered \/ IsInAttempt(group, Controller)
     THEN /\ ResetCommands /\ triggered' = FALSE /\ group' = Start(group)
          /\ LET d == UntilExecution(own, Controller.initial, Controller.period)
             IN  IF d = Infinite THEN UNCHANGED due ELSE RunIn(d)
     ELSE UNCHANGED <<status, won, fell, triggered, group, due>>
  /\ UNCHANGED <<live, stopped, own, subscription, todo, clientVars, aborted>>

\* StopTimeoutCommands
Overdue ==
  /\ phase = "overdue" /\ phase' = "find"
  /\ Stop({c \in Commands : IsTimeout(status[c], Policy[c])}, "FAILURE")
  /\ UNCHANGED <<group, own, triggered, subscription, due, todo, clientVars, aborted>>

\* Mutant: the commands that are executing do not count.
RoomForAll == Limit

Room ==
  IF Cardinality(Executing) < Limit THEN Limit - Cardinality(Executing) ELSE 0

\* findReadyCommands: the first of the commands that are ready, as many as the
\* limit leaves.  A command whose assertion fails would be one of them.
Find ==
  /\ phase = "find" /\ phase' = "check"
  /\ todo' = {i \in DOMAIN Order :
                /\ Startable(Order[i])
                /\ Cardinality({j \in 1..i : Startable(Order[j])}) <= Room}
  /\ aborted' = \E i \in todo' : Broken(Order[i])
  /\ UNCHANGED <<commandVars, group, own, triggered, subscription, due, clientVars>>

First(i) == i \in todo /\ \A j \in todo : i <= j

\* executeCommands: the next of them, if it is still startable.
CheckNext ==
  /\ phase = "check"
  /\ \/ todo = {} /\ phase' = "plan" /\ UNCHANGED <<todo, aborted>>
     \/ \E i \in todo : First(i) /\
          IF Startable(Order[i])
          THEN phase' = "execute" /\ aborted' = Broken(Order[i]) /\ UNCHANGED todo
          ELSE todo' = todo \ {i} /\ UNCHANGED <<phase, aborted>>
  /\ UNCHANGED <<commandVars, group, own, triggered, subscription, due, clientVars>>

\* CommandActions::execute
ExecuteCommand ==
  /\ phase = "execute" /\ phase' = "check"
  /\ \E i \in todo : First(i) /\ todo' = todo \ {i} /\
       IF IsExecuting(status[Order[i]]) THEN UNCHANGED <<status, fell, live>>
       ELSE /\ status' = [status EXCEPT ![Order[i]] = Start(@)]
            /\ fell' = [fell EXCEPT ![Order[i]] = FALSE]
            /\ live' = [live EXCEPT ![Order[i]] = @ + 1]
  /\ UNCHANGED <<won, stopped, group, own, triggered, subscription, due, clientVars,
                 aborted>>

\* Mutant: the controller is scheduled only for what is ready later.
PlanLater ==
  /\ phase = "plan" /\ phase' = "idle"
  /\ IF GroupReadyIn \in {0, Infinite} THEN UNCHANGED due ELSE RunIn(GroupReadyIn)
  /\ UNCHANGED <<commandVars, group, own, triggered, subscription, todo, clientVars, aborted>>

\* scheduleController, with the assertions at the end of EarliestReadyIn.
Plan ==
  /\ phase = "plan" /\ phase' = "idle"
  /\ aborted' = \E c \in Commands : Broken(c)
  /\ IF GroupReadyIn = Infinite THEN UNCHANGED due ELSE RunIn(GroupReadyIn)
  /\ UNCHANGED <<commandVars, group, own, triggered, subscription, todo, clientVars>>

\* Mutant: stopScheduling does not ask whether the controller is executing.
StopSchedulingAgain ==
  /\ phase = "stop"
  /\ phase' = IF AllSucceeded THEN "finish"
              ELSE IF IsTimeout(own, Controller) THEN "timeout" ELSE "error"
  /\ UNCHANGED <<commandVars, group, own, triggered, subscription, due, todo,
                 clientVars, aborted>>

StopScheduling ==
  /\ phase = "stop"
  /\ phase' = IF ~IsExecuting(own) THEN "idle"
              ELSE IF AllSucceeded THEN "finish"
              ELSE IF IsTimeout(own, Controller) THEN "timeout" ELSE "error"
  /\ UNCHANGED <<commandVars, group, own, triggered, subscription, due, todo,
                 clientVars, aborted>>

\* doTimeout: every command fails, those that have ended too.
TimeOut ==
  /\ phase = "timeout" /\ phase' = "error"
  /\ Stop(Commands, "FAILURE") /\ own' = Failure(own, "CANCELLED")
  /\ UNCHANGED <<group, triggered, subscription, due, todo, clientVars, aborted>>

\* finished and finishedWithError, up to the subscription.
Finish ==
  /\ \/ phase = "finish" /\ phase' = "complete"
        /\ group' = Success(group) /\ own' = Success(own)
        /\ aborted' = (Overcounts(group) \/ Overcounts(own))
     \/ phase = "error" /\ phase' = "report"
        /\ group' = Failure(group, "FAILURE") /\ own' = Failure(own, "FAILURE")
        /\ UNCHANGED aborted
  /\ UNCHANGED <<commandVars, triggered, subscription, due, todo, clientVars>>

\* CommandControllerSubscription::OnComplete and OnError wake all that wait.
Notify ==
  /\ \/ phase = "complete" /\ subscription' = "success"
     \/ phase = "report" /\ subscription' = "failure"
  /\ phase' = "idle"
  /\ UNCHANGED <<commandVars, group, own, triggered, due, todo, clientVars, aborted>>

Schedule ==
  \/ Run \/ CheckForever \/ CheckGroup \/ Record \/ Again \/ Overdue \/ Find
  \/ CheckNext \/ ExecuteCommand \/ Plan \/ StopScheduling \/ TimeOut \/ Finish
  \/ Notify

-----------------------------------------------------------------------------
(* The client.                                                             *)

Calls(op) == op \in Ops /\ call = "none" /\ calls < MaxCalls /\ calls' = calls + 1

\* Execute, and all that Reset() does: reset() of a controller that is not executing.
Reset ==
  /\ Calls("Execute") /\ call' = "execute"
  /\ ~IsExecuting(own) /\ own' = Fresh /\ ResetCommands
  /\ stopped' = stopped \cup {c \in Commands : live[c] > 0}
  /\ UNCHANGED <<live, group, triggered, subscription, due, phase, todo, overtaken, aborted>>

\* The rest of resetAndExecute.
Execute ==
  /\ call = "execute" /\ call' = "none"
  /\ subscription' = "waiting" /\ group' = Start(group) /\ own' = Start(own) /\ RunIn(0)
  /\ overtaken' = (phase \in Ending)
  /\ UNCHANGED <<commandVars, triggered, phase, todo, calls, aborted>>

\* Cancel, Shutdown: the commands first.
Shutdown ==
  /\ Calls("Cancel") /\ call' = "cancel"
  /\ Stop({c \in Commands : status[c].state # "CANCELLED"}, "CANCELLED")
  /\ UNCHANGED <<group, own, triggered, subscription, due, phase, todo, overtaken, aborted>>

Cancel ==
  /\ call = "cancel" /\ call' = "none" /\ own' = Failure(own, "CANCELLED")
  /\ UNCHANGED <<commandVars, group, triggered, subscription, due, phase, todo, calls,
                 overtaken, aborted>>

Trigger ==
  /\ Calls("Trigger") /\ ~IsExecuting(own) /\ ~triggered
  /\ triggered' = TRUE /\ RunIn(0)
  /\ UNCHANGED <<commandVars, group, own, subscription, phase, todo, call, overtaken, aborted>>

Client == Reset \/ Execute \/ Shutdown \/ Cancel \/ Trigger

\* Time passes; a schedule() is over before it does.
Tick ==
  /\ phase = "idle"
  /\ LET older(s) == [s EXCEPT !.age = Lesser(@ + 1, MaxAge)]
     IN  status' = [c \in Commands |-> older(status[c])] /\ own' = older(own)
  /\ due' = [d \in Delays |-> (IF d = 0 THEN due[0] ELSE 0) +
                              (IF d + 1 \in Delays THEN due[d + 1] ELSE 0)]
  /\ UNCHANGED <<won, fell, live, stopped, group, triggered, subscription, phase, todo,
                 clientVars, aborted>>

Next ==
  /\ ~aborted
  /\ Schedule \/ Client \/ Tick \/ \E c \in Commands : Complete(c) \/ Throw(c)

Spec == Init /\ [][Next]_vars

\* The controller's pool starts the runs that are due and a run goes on, the
\* client finishes its calls and time passes; a command may run forever.
FairSpec ==
  /\ Spec
  /\ WF_vars(~aborted /\ Schedule) /\ WF_vars(~aborted /\ (Execute \/ Cancel))
  /\ SF_vars(~aborted /\ Tick)

-----------------------------------------------------------------------------
(* Properties.                                                             *)

\* Types.
TypeOK ==
  /\ status \in [Commands -> StatusType] /\ own \in StatusType /\ group \in StatusType
  /\ won \in [Commands -> BOOLEAN] /\ fell \in [Commands -> BOOLEAN]
  /\ live \in [Commands -> Nat] /\ due \in [Delays -> Nat]
  /\ triggered \in BOOLEAN
  /\ subscription \in {"none", "waiting", "success", "failure"}
  /\ phase \in Phases /\ todo \subseteq DOMAIN Order /\ (phase = "execute" => todo # {})
  /\ call \in {"none", "execute", "cancel"} /\ calls \in 0..MaxCalls
  /\ stopped \subseteq Commands /\ overtaken \in BOOLEAN /\ aborted \in BOOLEAN

\* However many runs of the controller its pool holds, and whatever the client does
\* meanwhile, the controller never has more commands executing than its policy lets
\* it.
LimitKept == Cardinality(Executing) <= Limit

\* Two runs of one command overlap only once the command has been stopped while it
\* ran: a retry, and the next execution of the group, wait for the run before.
NoOverlap == \A c \in Commands : live[c] > 1 => c \in stopped

\* What a subscription was told stays so: no second run of the controller ends the
\* same execution again with another outcome, unless Execute overtook the run that
\* was ending the one before.
EndsOnce ==
  [][(subscription \in {"success", "failure"}) =>
       subscription' \in {subscription, "waiting"} \/ overtaken]_vars

\* An executing controller gets all its commands done, by success, by failure or by
\* their timeouts, or is ended itself; no command can hold it up by never returning.
GetsDone == own.state = "STARTED" ~> (AllDone \/ own.state # "STARTED" \/ aborted)

\* Those who wait for an execution are told its end (the controller "executes
\* attached commands until they are done").
WaitEnds == subscription = "waiting" /\ AllDone ~> subscription # "waiting"
=============================================================================
