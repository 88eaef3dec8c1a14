---------------------- MODULE CommandController_proofs ----------------------
(***************************************************************************)
(* Proofs about CommandController, for any commands, policies, limit and    *)
(* bounds.                                                                  *)
(***************************************************************************)
EXTENDS CommandController, ExecutionChecker_proofs, FiniteSetTheorems,
        WellFoundedInduction, TLAPS

-----------------------------------------------------------------------------
(* Types.                                                                  *)

LEMMA OrderIsFinite ==
  /\ DOMAIN Order = 1..Len(Order) /\ Len(Order) \in Nat
  /\ IsFiniteSet(DOMAIN Order)
  /\ \A i \in DOMAIN Order : Order[i] \in Commands
<1>1. DOMAIN Order = 1..Len(Order) /\ Len(Order) \in Nat
  BY ControllerAssumption
<1>2. IsFiniteSet(1..Len(Order))
  BY <1>1, FS_Interval
<1> QED
  BY <1>1, <1>2 DEF Commands

\* The types of what the schedule, the client and the runs of the commands change.
Typed ==
  /\ status \in [Commands -> StatusType] /\ own \in StatusType /\ group \in StatusType
  /\ live \in [Commands -> Nat] /\ due \in [Delays -> Nat]
  /\ phase \in Phases /\ todo \subseteq DOMAIN Order /\ (phase = "execute" => todo # {})
  /\ subscription \in {"none", "waiting", "success", "failure"}
  /\ call \in {"none", "execute", "cancel"} /\ calls \in 0..MaxCalls
  /\ stopped \subseteq Commands

Flags ==
  /\ won \in [Commands -> BOOLEAN] /\ fell \in [Commands -> BOOLEAN]
  /\ triggered \in BOOLEAN /\ overtaken \in BOOLEAN /\ aborted \in BOOLEAN

LEMMA TypesInitially == Init => Typed /\ Flags
<1> SUFFICES ASSUME Init PROVE Typed /\ Flags
  OBVIOUS
<1>1. Typed
  BY StatusTypes, ControllerAssumption DEF Init, Typed, Phases
<1>2. Flags
  BY DEF Init, Flags
<1> QED
  BY <1>1, <1>2

LEMMA StopTypes ==
  ASSUME Typed, NEW S \in SUBSET Commands, NEW state \in States, Stop(S, state)
  PROVE  /\ status' \in [Commands -> StatusType]
         /\ live' \in [Commands -> Nat] /\ stopped' \subseteq Commands
BY StatusTypes DEF Typed, Stop

\* One more run of the controller, or one less.
LEMMA DueTypes ==
  ASSUME due \in [Delays -> Nat], NEW d
  PROVE  /\ [due EXCEPT ![d] = @ + 1] \in [Delays -> Nat]
         /\ due[d] > 0 => [due EXCEPT ![d] = @ - 1] \in [Delays -> Nat]
<1>1. \A x \in Delays : due[x] + 1 \in Nat /\ (due[x] > 0 => due[x] - 1 \in Nat)
  OBVIOUS
<1> QED
  BY <1>1

LEMMA ScheduleTypes ==
  ASSUME Typed, Schedule
  PROVE  Typed'
<1> USE StatusTypes DEF Typed, Phases
<1>1. CASE Run
  <2>1. due' \in [Delays -> Nat]
    BY <1>1, DueTypes DEF Run
  <2> QED
    BY <1>1, <2>1 DEF Run, commandVars, clientVars
<1>2. CASE CheckForever \/ CheckGroup
  BY <1>2 DEF CheckForever, CheckGroup, commandVars, clientVars
<1>3. CASE Record
  BY <1>3 DEF Record, commandVars, clientVars, States
<1>4. CASE Again
  <2>1. due' \in [Delays -> Nat]
    BY <1>4 DEF Again, RunIn
  <2>2. status' \in [Commands -> StatusType] /\ group' \in StatusType
    BY <1>4 DEF Again, ResetCommands
  <2> QED
    BY <1>4, <2>1, <2>2 DEF Again, commandVars, clientVars
<1>5. CASE Overdue
  <2>1. /\ status' \in [Commands -> StatusType]
        /\ live' \in [Commands -> Nat] /\ stopped' \subseteq Commands
    BY <1>5, StopTypes DEF Overdue, States
  <2> QED
    BY <1>5, <2>1 DEF Overdue, clientVars
<1>6. CASE Find
  BY <1>6 DEF Find, commandVars, clientVars
<1>7. CASE CheckNext
  BY <1>7 DEF CheckNext, First, commandVars, clientVars
<1>8. CASE ExecuteCommand
  <2>1. status' \in [Commands -> StatusType] /\ live' \in [Commands -> Nat]
    BY <1>8 DEF ExecuteCommand
  <2> QED
    BY <1>8, <2>1 DEF ExecuteCommand, clientVars
<1>9. CASE Plan
  BY <1>9 DEF Plan, RunIn, commandVars, clientVars
<1>10. CASE StopScheduling
  BY <1>10 DEF StopScheduling, commandVars, clientVars
<1>11. CASE TimeOut
  <2>1. /\ status' \in [Commands -> StatusType]
        /\ live' \in [Commands -> Nat] /\ stopped' \subseteq Commands
    BY <1>11, StopTypes DEF TimeOut, States
  <2> QED
    BY <1>11, <2>1 DEF TimeOut, clientVars, States
<1>12. CASE Finish
  BY <1>12 DEF Finish, commandVars, clientVars, States
<1>13. CASE Notify
  BY <1>13 DEF Notify, commandVars, clientVars
<1> QED
  BY <1>1, <1>2, <1>3, <1>4, <1>5, <1>6, <1>7, <1>8, <1>9, <1>10, <1>11, <1>12, <1>13
     DEF Schedule

LEMMA ClientTypes ==
  ASSUME Typed, Client
  PROVE  Typed'
<1> USE StatusTypes, ControllerAssumption DEF Typed
<1>1. CASE Reset
  BY <1>1 DEF Reset, Calls, ResetCommands
<1>2. CASE Execute
  <2>1. due' \in [Delays -> Nat] /\ group' \in StatusType /\ own' \in StatusType
    BY <1>2, DueTypes DEF Execute, RunIn
  <2> QED
    BY <1>2, <2>1 DEF Execute, commandVars
<1>3. CASE Shutdown
  <2>1. /\ status' \in [Commands -> StatusType]
        /\ live' \in [Commands -> Nat] /\ stopped' \subseteq Commands
    BY <1>3, StopTypes DEF Shutdown, States
  <2> QED
    BY <1>3, <2>1 DEF Shutdown, Calls
<1>4. CASE Cancel
  BY <1>4 DEF Cancel, commandVars, States
<1>5. CASE Trigger
  <2>1. due' \in [Delays -> Nat]
    BY <1>5, DueTypes DEF Trigger, RunIn
  <2> QED
    BY <1>5, <2>1 DEF Trigger, Calls, commandVars
<1> QED
  BY <1>1, <1>2, <1>3, <1>4, <1>5 DEF Client

LEMMA OtherTypes ==
  ASSUME Typed, Tick \/ \E c \in Commands : Complete(c) \/ Throw(c)
  PROVE  Typed'
<1> USE StatusTypes DEF Typed
<1>1. CASE Tick
  <2>1. \A s \in StatusType : Lesser(s.age + 1, MaxAge) \in Nat
    BY ControllerAssumption DEF Lesser, StatusType
  <2>2. status' \in [Commands -> StatusType] /\ own' \in StatusType
    BY <1>1, <2>1 DEF Tick
  <2>3. due' \in [Delays -> Nat]
    BY <1>1, InfiniteAssumption DEF Tick, Delays
  <2> QED
    BY <1>1, <2>2, <2>3 DEF Tick, clientVars
<1>2. ASSUME NEW c \in Commands, Complete(c) PROVE Typed'
  <2>1. live' \in [Commands -> Nat]
    BY <1>2 DEF Complete
  <2>2. status' \in [Commands -> StatusType]
    BY <1>2 DEF Complete
  <2> QED
    BY <1>2, <2>1, <2>2 DEF Complete, clientVars
<1>3. ASSUME NEW c \in Commands, Throw(c) PROVE Typed'
  <2>1. live' \in [Commands -> Nat]
    BY <1>3 DEF Throw
  <2>2. status' \in [Commands -> StatusType]
    BY <1>3 DEF Throw, States
  <2> QED
    BY <1>3, <2>1, <2>2 DEF Throw, clientVars
<1> QED
  BY <1>1, <1>2, <1>3

LEMMA TypesKept ==
  ASSUME Typed, [Next]_vars
  PROVE  Typed'
<1>1. CASE UNCHANGED vars
  BY <1>1 DEF vars, Typed, commandVars, clientVars
<1> QED
  BY <1>1, ScheduleTypes, ClientTypes, OtherTypes DEF Next

\* The flags; they are told apart from the rest for the provers' sake.
LEMMA FlagsKept ==
  ASSUME Flags, [Next]_vars
  PROVE  Flags'
<1> USE DEF Flags
<1>1. won' \in [Commands -> BOOLEAN] /\ fell' \in [Commands -> BOOLEAN]
  <2>1. ASSUME NEW S, NEW state, Stop(S, state)
        PROVE  won' \in [Commands -> BOOLEAN] /\ fell' \in [Commands -> BOOLEAN]
    BY <2>1 DEF Stop
  <2>2. ASSUME ResetCommands
        PROVE  won' \in [Commands -> BOOLEAN] /\ fell' \in [Commands -> BOOLEAN]
    BY <2>2 DEF ResetCommands
  <2>3. CASE Overdue \/ TimeOut \/ Shutdown
    BY <2>1, <2>3 DEF Overdue, TimeOut, Shutdown
  <2>4. CASE Again \/ Reset
    BY <2>2, <2>4 DEF Again, Reset
  <2>5. CASE ExecuteCommand
    BY <2>5 DEF ExecuteCommand
  <2>6. ASSUME NEW c \in Commands, Complete(c) \/ Throw(c)
        PROVE  won' \in [Commands -> BOOLEAN] /\ fell' \in [Commands -> BOOLEAN]
    BY <2>6 DEF Complete, Throw
  <2>7. CASE \/ Run \/ CheckForever \/ CheckGroup \/ Record \/ Find \/ CheckNext \/ Plan
             \/ StopScheduling \/ Finish \/ Notify \/ Execute \/ Cancel \/ Trigger \/ Tick
             \/ UNCHANGED vars
    BY <2>7 DEF Run, CheckForever, CheckGroup, Record, Find, CheckNext, Plan,
                StopScheduling, Finish, Notify, Execute, Cancel, Trigger, Tick, vars,
                commandVars
  <2> QED
    BY <2>3, <2>4, <2>5, <2>6, <2>7 DEF Next, Schedule, Client
<1>2. triggered' \in BOOLEAN
  <2>1. ASSUME NEW c \in Commands, Complete(c) \/ Throw(c) PROVE triggered' = triggered
    BY <2>1 DEF Complete, Throw
  <2>2. CASE Again
    BY <2>2 DEF Again
  <2>3. CASE Trigger
    BY <2>3 DEF Trigger
  <2>4. CASE \/ Run \/ CheckForever \/ CheckGroup \/ Record \/ Overdue \/ Find \/ CheckNext
             \/ ExecuteCommand \/ Plan \/ StopScheduling \/ TimeOut \/ Finish \/ Notify
             \/ Reset \/ Execute \/ Shutdown \/ Cancel \/ Tick \/ UNCHANGED vars
    BY <2>4 DEF Run, CheckForever, CheckGroup, Record, Overdue, Find, CheckNext,
                ExecuteCommand, Plan, StopScheduling, TimeOut, Finish, Notify, Reset,
                Execute, Shutdown, Cancel, Tick, vars
  <2> QED
    BY <2>1, <2>2, <2>3, <2>4 DEF Next, Schedule, Client
<1>3. overtaken' \in BOOLEAN
  <2>1. ASSUME NEW c \in Commands, Complete(c) \/ Throw(c) PROVE overtaken' = overtaken
    BY <2>1 DEF Complete, Throw, clientVars
  <2>2. CASE Execute
    BY <2>2 DEF Execute
  <2>3. CASE Schedule \/ Reset \/ Shutdown \/ Cancel \/ Trigger \/ Tick \/ UNCHANGED vars
    BY <2>3 DEF Schedule, Run, CheckForever, CheckGroup, Record, Again, Overdue, Find,
                CheckNext, ExecuteCommand, Plan, StopScheduling, TimeOut, Finish, Notify,
                Reset, Shutdown, Cancel, Trigger, Tick, vars, clientVars
  <2> QED
    BY <2>1, <2>2, <2>3 DEF Next, Client
<1>4. aborted' \in BOOLEAN
  <2>1. ASSUME NEW c \in Commands, Complete(c) \/ Throw(c) PROVE aborted' \in BOOLEAN
    <3>1. CASE aborted' = aborted
      BY <3>1
    <3>2. CASE aborted' = Overcounts(status[c])
      BY <3>2 DEF Overcounts
    <3> QED
      BY <2>1, <3>1, <3>2, Zenon DEF Complete, Throw
  <2>2. CASE Find
    BY <2>2 DEF Find
  <2>3. CASE Plan
    BY <2>3 DEF Plan
  <2>4. CASE CheckNext
    BY <2>4 DEF CheckNext, Broken
  <2>5. CASE Record \/ Finish
    BY <2>5 DEF Record, Finish, Overcounts
  <2>6. CASE \/ Run \/ CheckForever \/ CheckGroup \/ Again \/ Overdue \/ ExecuteCommand
             \/ StopScheduling \/ TimeOut \/ Notify \/ Client \/ Tick \/ UNCHANGED vars
    BY <2>6 DEF Run, CheckForever, CheckGroup, Again, Overdue, ExecuteCommand,
                StopScheduling, TimeOut, Notify, Client, Reset, Execute, Shutdown, Cancel,
                Trigger, Tick, vars
  <2> QED
    BY <2>1, <2>2, <2>3, <2>4, <2>5, <2>6 DEF Next, Schedule
<1> QED
  BY <1>1, <1>2, <1>3, <1>4

-----------------------------------------------------------------------------
(* The limit.                                                              *)

\* The inductive invariant: between findReadyCommands and the end of
\* executeCommands, what it still has to start fits beside what executes.
Limited ==
  /\ LimitKept
  /\ phase \in {"check", "execute"} =>
       Cardinality(Executing) + Cardinality(todo) <= Limit

\* There are finitely many commands and places in Order.
LEMMA Sizes ==
  /\ \A S \in SUBSET Commands : IsFiniteSet(S) /\ Cardinality(S) \in Nat
  /\ \A T \in SUBSET DOMAIN Order : IsFiniteSet(T) /\ Cardinality(T) \in Nat
<1>1. Order \in Surjection(DOMAIN Order, Commands)
  BY ControllerAssumption DEF Surjection, Commands
<1>2. IsFiniteSet(Commands) /\ IsFiniteSet(DOMAIN Order)
  BY <1>1, OrderIsFinite, FS_Surjection
<1> QED
  BY <1>2, FS_Subset, FS_CardinalityType

\* What does not execute after success, failure or reset.
LEMMA Ends ==
  /\ ~IsExecuting(Fresh)
  /\ \A s \in StatusType :
       /\ ~IsExecuting(Success(s))
       /\ ~IsExecuting(Failure(s, "FAILURE")) /\ ~IsExecuting(Failure(s, "CANCELLED"))
       /\ \A n \in Nat : IsExecuting([s EXCEPT !.age = n]) <=> IsExecuting(s)
<1>1. ASSUME NEW s \in StatusType
      PROVE  /\ Success(s).state = "STOPPED"
             /\ \A f \in {"FAILURE", "CANCELLED"} : Failure(s, f).state = f
             /\ \A n \in Nat : [s EXCEPT !.age = n].state = s.state
  BY DEF StatusType, Success, Failure
<1> QED
  BY <1>1 DEF Fresh, IsExecuting

\* Only executeCommands starts commands.
LEMMA FewerExecute ==
  ASSUME Typed, [Next]_vars, ~ExecuteCommand
  PROVE  Executing' \subseteq Executing
<1> USE Ends DEF Typed
<1> SUFFICES ASSUME NEW d \in Commands, IsExecuting(status'[d])
             PROVE  IsExecuting(status[d])
  BY DEF Executing
<1>1. ASSUME NEW S, NEW f \in {"FAILURE", "CANCELLED"}, Stop(S, f)
      PROVE  IsExecuting(status[d])
  BY <1>1 DEF Stop
<1>2. ~ResetCommands
  BY DEF ResetCommands
<1>3. CASE Overdue \/ TimeOut \/ Shutdown
  BY <1>1, <1>3 DEF Overdue, TimeOut, Shutdown
<1>4. CASE Again
  BY <1>2, <1>4 DEF Again
<1>5. ~Reset
  BY <1>2 DEF Reset
<1>6. ASSUME NEW c \in Commands, Complete(c) PROVE IsExecuting(status[d])
  BY <1>6 DEF Complete
<1>7. ASSUME NEW c \in Commands, Throw(c) PROVE IsExecuting(status[d])
  BY <1>7 DEF Throw
<1>8. CASE Tick
  <2>1. Lesser(status[d].age + 1, MaxAge) \in Nat
    BY ControllerAssumption DEF Lesser, StatusType
  <2>2. status'[d] = [status[d] EXCEPT !.age = Lesser(status[d].age + 1, MaxAge)]
    BY <1>8 DEF Tick
  <2> QED
    BY <2>1, <2>2
<1>9. CASE \/ Run \/ CheckForever \/ CheckGroup \/ Record \/ Find \/ CheckNext \/ Plan
           \/ StopScheduling \/ Finish \/ Notify \/ Execute \/ Cancel \/ Trigger
           \/ UNCHANGED vars
  BY <1>9 DEF Run, CheckForever, CheckGroup, Record, Find, CheckNext, Plan, StopScheduling,
              Finish, Notify, Execute, Cancel, Trigger, vars, commandVars
<1> QED
  BY <1>3, <1>4, <1>5, <1>6, <1>7, <1>8, <1>9 DEF Next, Schedule, Client

\* A step that starts nothing and chooses nothing.
LEMMA FewerKeeps ==
  ASSUME Typed, Typed', Limited, Executing' \subseteq Executing,
         phase' \in {"check", "execute"} =>
           phase \in {"check", "execute"} /\ todo' \subseteq todo
  PROVE  Limited'
<1>1. /\ IsFiniteSet(Executing) /\ Cardinality(Executing) \in Nat
      /\ Cardinality(Executing') \in Nat /\ Cardinality(Executing') <= Cardinality(Executing)
  <2>1. Executing \in SUBSET Commands /\ Executing' \in SUBSET Commands
    BY DEF Executing
  <2> QED
    BY <2>1, Sizes, FS_Subset
<1>2. CASE phase' \in {"check", "execute"}
  <2>1. /\ IsFiniteSet(todo) /\ Cardinality(todo) \in Nat /\ Cardinality(todo') \in Nat
        /\ Cardinality(todo') <= Cardinality(todo)
    BY <1>2, Sizes, FS_Subset DEF Typed
  <2> QED
    BY <1>1, <1>2, <2>1, ControllerAssumption DEF Limited, LimitKept
<1>3. CASE phase' \notin {"check", "execute"}
  BY <1>1, <1>3, ControllerAssumption DEF Limited, LimitKept
<1> QED
  BY <1>2, <1>3

\* findReadyCommands chooses no more than there is room for: all it chooses are among
\* the startable ones up to the last of them.
LEMMA FindKeeps ==
  ASSUME Typed, Limited, Find
  PROVE  Limited'
<1>1. /\ Cardinality(Executing) \in Nat /\ Cardinality(Executing) <= Limit
      /\ Executing' = Executing /\ Limit \in Nat
  <2>1. Executing \in SUBSET Commands
    BY DEF Executing
  <2> QED
    BY <2>1, Sizes, ControllerAssumption DEF Limited, LimitKept, Find, commandVars, Executing
<1>2. Room \in Nat /\ Cardinality(Executing) + Room <= Limit
  BY <1>1 DEF Room
<1> DEFINE Ahead(i) == {j \in 1..i : Startable(Order[j])}
<1>3. todo' \in SUBSET DOMAIN Order
      /\ \A i \in todo' : Startable(Order[i]) /\ Cardinality(Ahead(i)) <= Room
  BY DEF Find
<1>4. CASE todo' = {}
  BY <1>1, <1>2, <1>4, FS_EmptySet DEF Limited, LimitKept
<1>5. CASE todo' # {}
  <2>1. PICK m \in todo' : \A i \in todo' : i <= m
    <3> DEFINE n == Len(Order)
               Back == {x \in Nat : n - x \in todo'}
    <3>1. n \in Nat /\ todo' \subseteq 1..n
      BY <1>3, OrderIsFinite
    <3>2. Back \subseteq Nat /\ Back # {}
      <4>1. PICK i \in todo' : TRUE
        BY <1>5
      <4>2. n - i \in Nat /\ n - (n - i) = i
        BY <3>1, <4>1
      <4> QED
        BY <4>1, <4>2
    <3>3. PICK x \in Back : \A y \in Back : ~(<<y, x>> \in OpToRel(<, Nat))
      BY <3>2, NatLessThanWellFounded, WFMin
    <3>4. ASSUME NEW y \in Back PROVE x <= y
      <4>1. x \in Nat /\ y \in Nat
        BY <3>2, <3>3, <3>4
      <4>2. y < x => <<y, x>> \in OpToRel(<, Nat)
        BY <4>1 DEF OpToRel
      <4>3. ~(y < x)
        BY <3>3, <3>4, <4>2
      <4> HIDE DEF Back
      <4> QED
        BY <4>1, <4>3
    <3>5. ASSUME NEW i \in todo' PROVE i <= n - x
      <4>1. n - i \in Nat /\ n - (n - i) = i /\ i \in Nat
        BY <3>1
      <4>2. n - i \in Back
        BY <4>1
      <4>3. x <= n - i /\ x \in Nat
        BY <3>2, <3>3, <3>4, <4>2
      <4> HIDE DEF n, Back
      <4> QED
        BY <3>1, <4>1, <4>3
    <3>6. n - x \in todo'
      OBVIOUS
    <3> QED
      BY <3>5, <3>6
  <2>2. todo' \subseteq Ahead(m) /\ Ahead(m) \in SUBSET DOMAIN Order
    <3>1. Len(Order) \in Nat /\ DOMAIN Order = 1..Len(Order)
      BY OrderIsFinite
    <3>2. m \in 1..Len(Order) /\ todo' \subseteq 1..Len(Order)
      BY <1>3, <3>1
    <3>3. ASSUME NEW i \in todo' PROVE i \in 1..m
      BY <2>1, <3>1, <3>2
    <3>4. 1..m \subseteq 1..Len(Order)
      BY <3>1, <3>2
    <3> QED
      BY <1>3, <3>1, <3>3, <3>4
  <2>3. Cardinality(todo') <= Cardinality(Ahead(m)) /\ Cardinality(Ahead(m)) \in Nat
        /\ Cardinality(todo') \in Nat
    BY <1>3, <2>2, Sizes, FS_Subset
  <2>4. Cardinality(Ahead(m)) <= Room
    BY <1>3, <2>1
  <2> QED
    BY <1>1, <1>2, <2>3, <2>4 DEF Limited, LimitKept
<1> QED
  BY <1>4, <1>5

\* executeCommands moves one command from what it has to start to what executes.
LEMMA ExecuteKeeps ==
  ASSUME Typed, Limited, ExecuteCommand
  PROVE  Limited'
<1>1. PICK i \in todo : /\ todo' = todo \ {i}
                       /\ \/ status' = status
                          \/ status' = [status EXCEPT ![Order[i]] = Start(@)]
  BY DEF ExecuteCommand
<1>2. Order[i] \in Commands
  BY OrderIsFinite DEF Typed
<1>3. Executing' \subseteq Executing \cup {Order[i]}
  BY <1>1, <1>2 DEF Typed, Executing
<1>4. /\ IsFiniteSet(Executing) /\ Cardinality(Executing) \in Nat
      /\ Cardinality(Executing') \in Nat
      /\ Cardinality(Executing') <= Cardinality(Executing) + 1
  <2>1. /\ Executing \in SUBSET Commands /\ Executing' \in SUBSET Commands
        /\ Executing \cup {Order[i]} \in SUBSET Commands
    BY <1>2 DEF Executing
  <2>2. Cardinality(Executing \cup {Order[i]}) <= Cardinality(Executing) + 1
    BY <2>1, Sizes, FS_AddElement
  <2>3. Cardinality(Executing') <= Cardinality(Executing \cup {Order[i]})
    BY <1>3, <2>1, Sizes, FS_Subset
  <2>4. /\ IsFiniteSet(Executing) /\ Cardinality(Executing) \in Nat
        /\ Cardinality(Executing') \in Nat /\ Cardinality(Executing \cup {Order[i]}) \in Nat
    BY <2>1, Sizes
  <2> QED
    BY <2>2, <2>3, <2>4
<1>5. Cardinality(todo') = Cardinality(todo) - 1 /\ Cardinality(todo) \in Nat
  BY <1>1, Sizes, FS_RemoveElement DEF Typed
<1>6. Cardinality(Executing) + Cardinality(todo) <= Limit /\ Cardinality(todo') \in Nat
  BY <1>1, Sizes DEF Limited, ExecuteCommand, Typed
<1> QED
  BY <1>4, <1>5, <1>6, ControllerAssumption DEF Limited, LimitKept

LEMMA LimitedKept ==
  ASSUME Typed, Limited, [Next]_vars
  PROVE  Limited'
<1>1. CASE ExecuteCommand
  BY <1>1, ExecuteKeeps
<1>2. CASE Find
  BY <1>2, FindKeeps
<1>3. CASE ~ExecuteCommand /\ ~Find
  <2>1. phase' \in {"check", "execute"} =>
          phase \in {"check", "execute"} /\ todo' \subseteq todo
    <3>1. ASSUME NEW c \in Commands, Complete(c) \/ Throw(c)
          PROVE  phase' = phase /\ todo' = todo
      BY <3>1 DEF Complete, Throw
    <3>2. CASE Client \/ Tick \/ UNCHANGED vars
      BY <3>2 DEF Client, Reset, Execute, Shutdown, Cancel, Trigger, Tick, vars
    <3>3. CASE CheckNext
      BY <3>3 DEF CheckNext
    <3>4. CASE \/ Run \/ CheckForever \/ CheckGroup \/ Record \/ Again \/ Overdue \/ Plan
               \/ StopScheduling \/ TimeOut \/ Finish \/ Notify
      BY <3>4 DEF Run, CheckForever, CheckGroup, Record, Again, Overdue, Plan,
                  StopScheduling, TimeOut, Finish, Notify
    <3> QED
      BY <1>3, <3>1, <3>2, <3>3, <3>4 DEF Next, Schedule
  <2> QED
    BY <1>3, <2>1, TypesKept, FewerExecute, FewerKeeps
<1> QED
  BY <1>1, <1>2, <1>3

-----------------------------------------------------------------------------
(* Runs of one command.                                                    *)

\* The controller is cancelled or timed out: a run of it starts nothing any more.
Dead == own.state = "CANCELLED" \/ IsTimeout(own, Controller)

\* The run of a command that was reset while it ran and was not stopped.
Left(c) == live[c] > 0 /\ ~IsExecuting(status[c]) /\ c \notin stopped

AllStopped == \A c \in Commands : live[c] > 0 => c \in stopped

\* The inductive invariant: nextGroupExecution resets commands that run only in a
\* controller that is dead, which stays so until its commands are stopped.
Single ==
  /\ NoOverlap
  /\ \A c \in Commands : Left(c) =>
       /\ Dead /\ ~won[c]
       /\ phase \in {"idle", "forever", "group", "record", "again", "stop", "timeout"}
  /\ phase \in {"record", "again"} => Dead \/ AllStopped
  /\ call = "execute" => ~IsExecuting(own) /\ (own.state = "CANCELLED" => phase = "error")
  /\ own.age <= MaxAge

\* A step that starts and resets no command, unless it stops those that run.
LEMMA SameRuns ==
  ASSUME Typed, Typed', Single, stopped \subseteq stopped',
         \A c \in Commands : c \notin stopped' /\ live'[c] > 0 =>
           /\ live[c] >= live'[c] /\ (won'[c] => won[c])
           /\ IsExecuting(status'[c]) <=> IsExecuting(status[c])
  PROVE  /\ NoOverlap'
         /\ \A c \in Commands : Left(c)' => Left(c) /\ (won'[c] => won[c])
         /\ AllStopped => AllStopped'
<1>1. \A c \in Commands : live[c] \in Nat /\ live'[c] \in Nat
  BY DEF Typed
<1>2. NoOverlap'
  BY <1>1 DEF NoOverlap, Single
<1>3. \A c \in Commands : Left(c)' => Left(c) /\ (won'[c] => won[c])
  BY <1>1 DEF Left
<1>4. AllStopped => AllStopped'
  BY <1>1 DEF AllStopped
<1> QED
  BY <1>2, <1>3, <1>4

\* What Stop, Complete and Throw do to the runs.
LEMMA EndsSameRuns ==
  ASSUME Typed, Typed', Flags, Single,
         \/ \E S \in SUBSET Commands, f \in States : Stop(S, f)
         \/ \E c \in Commands : Complete(c) \/ Throw(c)
  PROVE  /\ NoOverlap'
         /\ \A c \in Commands : Left(c)' => Left(c) /\ (won'[c] => won[c])
         /\ AllStopped => AllStopped'
<1>0. \A c \in Commands : live[c] \in Nat /\ live'[c] \in Nat
  BY DEF Typed
<1>1. CASE \E S \in SUBSET Commands, f \in States : Stop(S, f)
  <2>1. PICK S \in SUBSET Commands, f \in States : Stop(S, f)
    BY <1>1
  <2>2. PICK dropped \in SUBSET {c \in S : live[c] > 0} :
          live' = [c \in Commands |-> IF c \in dropped THEN live[c] - 1 ELSE live[c]]
    BY <2>1 DEF Stop
  <2>3. stopped' = stopped \cup {c \in S : live[c] > 0}
    BY <2>1 DEF Stop
  <2>4. ASSUME NEW c \in Commands, c \notin stopped', live'[c] > 0
        PROVE  /\ live[c] >= live'[c] /\ (won'[c] => won[c])
               /\ status'[c] = status[c]
    <3>1. c \notin S /\ live'[c] = live[c]
      BY <1>0, <2>2, <2>3, <2>4
    <3>2. status'[c] = status[c]
      BY <2>1, <3>1 DEF Stop
    <3>3. won'[c] => won[c]
      <4>1. won' = [e \in Commands |-> won[e] /\ e \notin S]
        BY <2>1 DEF Stop
      <4> QED
        BY <4>1, Zenon
    <3> QED
      BY <1>0, <3>1, <3>2, <3>3
  <2> QED
    BY <2>3, <2>4, SameRuns
<1>2. ASSUME NEW d \in Commands, Complete(d) \/ Throw(d)
      PROVE  /\ NoOverlap'
             /\ \A c \in Commands : Left(c)' => Left(c) /\ (won'[c] => won[c])
             /\ AllStopped => AllStopped'
  <2>1. /\ live' = [live EXCEPT ![d] = @ - 1] /\ stopped' = stopped /\ live[d] > 0
        /\ \A c \in Commands : c # d => status'[c] = status[c] /\ (won'[c] => won[c])
    <3>1. /\ live' = [live EXCEPT ![d] = @ - 1] /\ stopped' = stopped /\ live[d] > 0
          /\ \A c \in Commands : c # d => status'[c] = status[c]
      BY <1>2 DEF Complete, Throw, Typed
    <3>2. won' = won \/ \E b \in {FALSE, ~fell[d]} : won' = [won EXCEPT ![d] = b]
      BY <1>2 DEF Complete, Throw
    <3>3. \A c \in Commands : c # d => (won'[c] => won[c])
      BY <3>2, Zenon DEF Flags
    <3> QED
      BY <3>1, <3>3
  <2>2. live'[d] = live[d] - 1 /\ \A c \in Commands : c # d => live'[c] = live[c]
    BY <2>1 DEF Typed
  <2>3. live'[d] > 0 => d \in stopped
    BY <1>0, <2>2 DEF Single, NoOverlap
  <2> QED
    BY <1>0, <2>1, <2>2, <2>3, SameRuns
<1> QED
  BY <1>1, <1>2

\* The steps that leave the status of the controller and of its commands alone.
LEMMA LooksKeep ==
  ASSUME Typed, Typed', Flags, Single,
         \/ Run \/ CheckForever \/ CheckGroup \/ Record \/ Find \/ CheckNext \/ Plan
         \/ StopScheduling \/ Notify \/ Trigger \/ UNCHANGED vars
  PROVE  Single'
<1>1. UNCHANGED <<status, won, live, stopped, own, call>>
  BY DEF Run, CheckForever, CheckGroup, Record, Find, CheckNext, Plan, StopScheduling,
         Notify, Trigger, commandVars, clientVars, vars
<1>2. /\ NoOverlap' /\ \A c \in Commands : Left(c)' <=> Left(c)
      /\ (Dead' <=> Dead) /\ (AllStopped' <=> AllStopped)
  <2>1. NoOverlap'
    BY <1>1 DEF Single, NoOverlap
  <2>2. \A c \in Commands : Left(c)' <=> Left(c)
    BY <1>1 DEF Left
  <2>3. Dead' <=> Dead
    BY <1>1 DEF Dead
  <2>4. AllStopped' <=> AllStopped
    BY <1>1 DEF AllStopped
  <2> QED
    BY <2>1, <2>2, <2>3, <2>4
<1>3. ASSUME NEW c \in Commands, Left(c)
      PROVE  phase' \in {"idle", "forever", "group", "record", "again", "stop", "timeout"}
  <2>1. /\ Dead /\ ~won[c]
        /\ phase \in {"idle", "forever", "group", "record", "again", "stop", "timeout"}
    BY <1>3 DEF Single
  <2>2. ~AllSucceeded
    BY <2>1 DEF AllSucceeded
  <2>3. IsExecuting(own) => IsTimeout(own, Controller)
    BY <2>1 DEF Dead, IsExecuting
  <2>4. GroupDone
    BY <2>1 DEF Dead, GroupDone
  <2> QED
    BY <2>1, <2>2, <2>3, <2>4 DEF Run, CheckForever, CheckGroup, Record, Find, CheckNext,
       Plan, StopScheduling, Notify, Trigger, vars
<1>4. phase' \in {"record", "again"} => Dead \/ AllStopped
  <2>1. CASE CheckGroup
    <3>1. phase' = "record" => Dead \/ AllDone
      BY <2>1 DEF CheckGroup, GroupDone, Dead
    <3>2. AllDone /\ ~AllStopped => \E c \in Commands : Left(c)
      BY DEF AllDone, Done, AllStopped, Left
    <3> QED
      BY <2>1, <3>1, <3>2 DEF Single, CheckGroup
  <2>2. CASE ~CheckGroup
    BY <2>2 DEF Single, Run, CheckForever, Record, Find, CheckNext, Plan, StopScheduling,
                Notify, Trigger, vars
  <2> QED
    BY <2>1, <2>2
<1>5. phase = "error" => phase' = "error"
  BY DEF Run, CheckForever, CheckGroup, Record, Find, CheckNext, Plan, StopScheduling,
         Notify, Trigger, vars
<1>6. \A c \in Commands : Left(c)' =>
        /\ Dead' /\ ~won'[c]
        /\ phase' \in {"idle", "forever", "group", "record", "again", "stop", "timeout"}
  BY <1>1, <1>2, <1>3 DEF Single
<1>7. phase' \in {"record", "again"} => Dead' \/ AllStopped'
  BY <1>2, <1>4
<1>8. /\ call' = "execute" =>
           ~IsExecuting(own') /\ (own'.state = "CANCELLED" => phase' = "error")
      /\ own'.age <= MaxAge
  BY <1>1, <1>5 DEF Single
<1> QED
  BY <1>2, <1>6, <1>7, <1>8 DEF Single

\* The steps in which commands end or are stopped.
LEMMA EndsKeep ==
  ASSUME Typed, Typed', Flags, Single,
         Overdue \/ Shutdown \/ \E c \in Commands : Complete(c) \/ Throw(c)
  PROVE  Single'
<1>1. /\ NoOverlap'
      /\ \A c \in Commands : Left(c)' => Left(c) /\ (won'[c] => won[c])
      /\ AllStopped => AllStopped'
  BY EndsSameRuns DEF Overdue, Shutdown, States
<1>2. own' = own /\ (Dead' <=> Dead)
  BY DEF Overdue, Shutdown, Complete, Throw, Dead
<1>3. call' = call \/ call' = "cancel"
  BY DEF Overdue, Shutdown, Complete, Throw, clientVars
<1>4. phase' = phase \/ (phase = "overdue" /\ phase' = "find")
  BY DEF Overdue, Shutdown, Complete, Throw
<1> QED
  BY <1>1, <1>2, <1>3, <1>4 DEF Single

\* doTimeout and Reset stop whatever runs.
LEMMA AllEnd ==
  ASSUME Typed, Typed', Flags, Single, TimeOut \/ Reset
  PROVE  Single'
<1>0. \A c \in Commands : live[c] \in Nat /\ live'[c] \in Nat
  BY DEF Typed
<1>1. CASE TimeOut
  <2>1. Stop(Commands, "FAILURE") /\ own' = Failure(own, "CANCELLED") /\ call' = call
    BY <1>1 DEF TimeOut, clientVars
  <2>2. AllStopped' /\ NoOverlap'
    <3>1. NoOverlap'
      BY <2>1, EndsSameRuns DEF States
    <3>2. stopped' = stopped \cup {c \in Commands : live[c] > 0}
      BY <2>1 DEF Stop
    <3>3. \A c \in Commands : live'[c] <= live[c]
      BY <1>0, <2>1 DEF Stop
    <3> QED
      BY <1>0, <3>1, <3>2, <3>3 DEF AllStopped
  <2>3. own'.age = own.age /\ own'.state = "CANCELLED"
    BY <2>1 DEF Typed, StatusType, Failure
  <2>4. ~IsExecuting(own')
    BY <2>3 DEF IsExecuting
  <2> QED
    BY <1>1, <2>1, <2>2, <2>3, <2>4 DEF TimeOut, Single, AllStopped, Left
<1>2. CASE Reset
  <2>1. /\ own' = Fresh /\ phase' = phase /\ live' = live
        /\ stopped' = stopped \cup {c \in Commands : live[c] > 0}
    BY <1>2 DEF Reset
  <2>2. AllStopped' /\ NoOverlap'
    BY <2>1 DEF AllStopped, Single, NoOverlap
  <2>3. ~IsExecuting(own') /\ own'.state # "CANCELLED" /\ own'.age <= MaxAge
    BY <2>1, ControllerAssumption DEF Fresh, IsExecuting
  <2> QED
    BY <2>1, <2>2, <2>3 DEF Single, AllStopped, Left
<1> QED
  BY <1>1, <1>2

\* The steps that change the controller's status, and time.
LEMMA OwnKeeps ==
  ASSUME Typed, Typed', Single, Finish \/ Execute \/ Cancel \/ Tick
  PROVE  Single'
<1>1. CASE Finish
  <2>1. /\ UNCHANGED <<status, won, live, stopped, call>> /\ phase \in {"finish", "error"}
        /\ phase' \in {"complete", "report"} /\ own' \in {Success(own), Failure(own, "FAILURE")}
    BY <1>1 DEF Finish, commandVars, clientVars
  <2>2. /\ own'.age = own.age /\ own'.state \in {"STOPPED", "FAILURE"}
    BY <2>1 DEF Typed, StatusType, Success, Failure
  <2>3. NoOverlap' /\ \A c \in Commands : Left(c)' <=> Left(c)
    BY <2>1 DEF NoOverlap, Left, Single
  <2>4. ~IsExecuting(own')
    BY <2>2 DEF IsExecuting
  <2> QED
    BY <2>1, <2>2, <2>3, <2>4 DEF Single
<1>2. CASE Execute
  <2>1. /\ UNCHANGED <<status, won, live, stopped, phase>> /\ call = "execute" /\ call' = "none"
        /\ own' = Start(own)
    BY <1>2 DEF Execute, commandVars
  <2>2. own'.age = 0
    BY <2>1 DEF Typed, StatusType, Start
  <2>3. /\ NoOverlap' /\ \A c \in Commands : Left(c)' <=> Left(c)
        /\ AllStopped' <=> AllStopped
    BY <2>1 DEF NoOverlap, Left, Single, AllStopped
  <2>4. Dead => phase = "error"
    BY <2>1 DEF Single, Dead, IsTimeout
  <2>5. MaxAge \in Nat
    BY ControllerAssumption
  <2> QED
    BY <2>1, <2>2, <2>3, <2>4, <2>5 DEF Single
<1>3. CASE Cancel
  <2>1. /\ UNCHANGED <<status, won, live, stopped, phase>> /\ call' = "none"
        /\ own' = Failure(own, "CANCELLED")
    BY <1>3 DEF Cancel, commandVars
  <2>2. own'.age = own.age /\ own'.state = "CANCELLED"
    BY <2>1 DEF Typed, StatusType, Failure
  <2>3. NoOverlap' /\ Dead' /\ \A c \in Commands : Left(c)' <=> Left(c)
    BY <2>1, <2>2 DEF NoOverlap, Left, Single, Dead
  <2> QED
    BY <2>1, <2>2, <2>3 DEF Single
<1>4. CASE Tick
  <2>1. /\ UNCHANGED <<won, live, stopped, phase, call>> /\ phase = "idle"
        /\ own' = [own EXCEPT !.age = Lesser(@ + 1, MaxAge)]
        /\ status' = [c \in Commands |->
                        [status[c] EXCEPT !.age = Lesser(@ + 1, MaxAge)]]
    BY <1>4 DEF Tick, clientVars
  <2>2. /\ own'.state = own.state /\ own'.age = Lesser(own.age + 1, MaxAge)
        /\ own.age \in Nat /\ own.age <= MaxAge /\ MaxAge \in Nat
    BY <2>1, ControllerAssumption DEF Typed, StatusType, Single
  <2>3. own'.age >= own.age /\ own'.age <= MaxAge /\ own'.age \in Nat
    BY <2>2 DEF Lesser
  <2>4. Controller.timeout \in Nat
    BY ControllerAssumption, InfiniteAssumption DEF PolicyType, Durations
  <2>5. Dead => Dead'
    BY <2>2, <2>3, <2>4 DEF Dead, IsTimeout, IsExecuting
  <2>6. \A c \in Commands : status'[c].state = status[c].state
    BY <2>1 DEF Typed, StatusType
  <2>7. NoOverlap' /\ \A c \in Commands : Left(c)' <=> Left(c)
    BY <2>1, <2>6 DEF NoOverlap, Left, Single, IsExecuting
  <2>8. IsExecuting(own') <=> IsExecuting(own)
    BY <2>2 DEF IsExecuting
  <2> QED
    BY <2>1, <2>2, <2>3, <2>5, <2>7, <2>8 DEF Single
<1> QED
  BY <1>1, <1>2, <1>3, <1>4

\* nextGroupExecution resets the commands.
LEMMA AgainKeeps ==
  ASSUME Typed, Typed', Single, Again
  PROVE  Single'
<1>1. /\ UNCHANGED <<live, stopped, own, call>> /\ phase = "again" /\ phase' = "idle"
      /\ (\A c \in Commands : ~won'[c]) \/ UNCHANGED <<status, won>>
  BY DEF Again, ResetCommands, clientVars
<1>2. NoOverlap' /\ (Dead' <=> Dead)
  BY <1>1 DEF NoOverlap, Dead, Single
<1>3. ASSUME NEW c \in Commands, Left(c)'
      PROVE  Dead /\ ~won'[c]
  <2>1. CASE UNCHANGED <<status, won>>
    BY <1>1, <1>3, <2>1 DEF Single, Left
  <2>2. CASE \A d \in Commands : ~won'[d]
    BY <1>1, <1>3, <2>2 DEF Single, Left, AllStopped
  <2> QED
    BY <1>1, <2>1, <2>2
<1> QED
  BY <1>1, <1>2, <1>3 DEF Single

\* executeCommands starts a command that does not execute: it has no run left.
LEMMA ExecuteOnce ==
  ASSUME Typed, Typed', Single, ExecuteCommand
  PROVE  Single'
<1>1. /\ UNCHANGED <<won, stopped, own, call>> /\ phase = "execute" /\ phase' = "check"
  BY DEF ExecuteCommand, clientVars
<1>2. PICK i \in todo :
        \/ UNCHANGED <<status, live>>
        \/ /\ ~IsExecuting(status[Order[i]])
           /\ status' = [status EXCEPT ![Order[i]] = Start(@)]
           /\ live' = [live EXCEPT ![Order[i]] = @ + 1]
  BY DEF ExecuteCommand
<1>3. PICK d \in Commands : d = Order[i]
  BY <1>2, OrderIsFinite DEF Typed
<1>4. \A c \in Commands : ~Left(c)
  BY <1>1 DEF Single
<1>5. CASE UNCHANGED <<status, live>>
  BY <1>1, <1>4, <1>5 DEF Single, NoOverlap, Left
<1>6. CASE /\ ~IsExecuting(status[d])
           /\ status' = [status EXCEPT ![d] = Start(@)]
           /\ live' = [live EXCEPT ![d] = @ + 1]
  <2>1. live[d] \in Nat /\ status[d] \in StatusType
    BY DEF Typed
  <2>2. d \notin stopped => live[d] = 0
    BY <1>4, <1>6, <2>1 DEF Left
  <2>3. live'[d] = live[d] + 1 /\ \A c \in Commands : c # d => live'[c] = live[c]
    BY <1>6 DEF Typed
  <2>4. NoOverlap'
    BY <1>1, <2>1, <2>2, <2>3 DEF Single, NoOverlap
  <2>5. IsExecuting(status'[d]) /\ \A c \in Commands : c # d => status'[c] = status[c]
    BY <1>6, <2>1 DEF Typed, Start, IsExecuting, StatusType
  <2>6. \A c \in Commands : ~Left(c)'
    BY <1>1, <1>4, <2>3, <2>5 DEF Left
  <2> QED
    BY <1>1, <2>4, <2>6 DEF Single
<1> QED
  BY <1>2, <1>3, <1>5, <1>6

LEMMA SingleKept ==
  ASSUME Typed, Flags, Single, [Next]_vars
  PROVE  Single'
<1>1. Typed'
  BY TypesKept
<1> QED
  BY <1>1, LooksKeep, EndsKeep, AllEnd, OwnKeeps, AgainKeeps, ExecuteOnce
     DEF Next, Schedule, Client

-----------------------------------------------------------------------------
(* What a subscription is told.                                            *)

\* The inductive invariant, as long as Execute has overtaken no run that was ending the
\* execution before: who waits is told while the controller executes or a run is ending
\* it, and from the moment finished has recorded the end no other run ends it again.
Told ==
  ~overtaken =>
    /\ IsExecuting(own) \/ phase \in Ending => subscription = "waiting"
    /\ phase \in {"complete", "report"} => ~IsExecuting(own)

LEMMA ScheduleTells ==
  ASSUME Typed, Told, Schedule
  PROVE  Told'
<1> USE Ends DEF Told, Ending
<1>1. CASE Run \/ CheckForever \/ CheckGroup \/ Record \/ CheckNext \/ Find \/ Plan
  BY <1>1 DEF Run, CheckForever, CheckGroup, Record, CheckNext, Find, Plan, clientVars
<1>2. CASE Again \/ Overdue \/ ExecuteCommand
  BY <1>2 DEF Again, Overdue, ExecuteCommand, clientVars
<1>3. CASE StopScheduling
  BY <1>3 DEF StopScheduling, clientVars
<1>4. CASE TimeOut
  BY <1>4 DEF TimeOut, clientVars, Typed
<1>5. CASE Finish
  BY <1>5 DEF Finish, clientVars, Typed
<1>6. CASE Notify
  BY <1>6 DEF Notify, clientVars
<1> QED
  BY <1>1, <1>2, <1>3, <1>4, <1>5, <1>6 DEF Schedule

LEMMA ToldKept ==
  ASSUME Typed, Told, [Next]_vars
  PROVE  Told'
<1> USE Ends DEF Told, Ending
<1>1. CASE Reset
  BY <1>1 DEF Reset
<1>2. CASE Execute
  BY <1>2 DEF Execute
<1>3. CASE Cancel
  BY <1>3 DEF Cancel, Typed
<1>4. CASE Tick
  <2>1. Lesser(own.age + 1, MaxAge) \in Nat
    BY ControllerAssumption DEF Lesser, StatusType, Typed
  <2>2. IsExecuting(own') <=> IsExecuting(own)
    BY <1>4, <2>1 DEF Tick, Typed
  <2> QED
    BY <1>4, <2>2 DEF Tick, clientVars
<1>5. CASE Shutdown \/ Trigger \/ UNCHANGED vars \/ \E c \in Commands : Complete(c) \/ Throw(c)
  BY <1>5 DEF Shutdown, Trigger, vars, clientVars, Complete, Throw
<1> QED
  BY <1>1, <1>2, <1>3, <1>4, <1>5, ScheduleTells DEF Next, Client

\* Only a run that ends an execution tells anything, and it tells those who wait.
LEMMA TellsOnce ==
  ASSUME Told, [Next]_vars, subscription \in {"success", "failure"},
         subscription' \notin {subscription, "waiting"}
  PROVE  overtaken
<1>1. ASSUME NEW c \in Commands, Complete(c) \/ Throw(c) PROVE FALSE
  BY <1>1 DEF Complete, Throw
<1>2. ~Client /\ ~Tick /\ vars' # vars
  BY DEF Client, Reset, Execute, Shutdown, Cancel, Trigger, Tick, vars
<1>3. Notify
  BY <1>1, <1>2 DEF Next, Schedule, Run, CheckForever, CheckGroup, Record, Again, Overdue,
     Find, CheckNext, ExecuteCommand, Plan, StopScheduling, TimeOut, Finish
<1> QED
  BY <1>3 DEF Notify, Told, Ending

-----------------------------------------------------------------------------
(* Theorems.                                                               *)

\* The types of the controller's and the commands' state.
THEOREM TypeCorrect ==
  Spec => []TypeOK
<1>1. Typed /\ Flags /\ [Next]_vars => (Typed /\ Flags)'
  BY TypesKept, FlagsKept
<1>2. Typed /\ Flags => TypeOK
  BY DEF Typed, Flags, TypeOK
<1> QED
  BY TypesInitially, <1>1, <1>2, PTL DEF Spec

\* The controller never has more commands executing than its policy lets it, for any
\* number of commands, whatever the client and the commands do meanwhile.
THEOREM LimitIsKept ==
  Spec => []LimitKept
<1>1. Init => Typed /\ Limited
  <2> SUFFICES ASSUME Init PROVE Typed /\ Limited
    OBVIOUS
  <2>1. Executing = {} /\ phase = "idle"
    BY Ends DEF Init, Executing
  <2> QED
    BY <2>1, TypesInitially, FS_EmptySet, ControllerAssumption DEF Limited, LimitKept
<1>2. Typed /\ Limited /\ [Next]_vars => (Typed /\ Limited)'
  BY TypesKept, LimitedKept
<1>3. Typed /\ Limited => LimitKept
  BY DEF Limited
<1> QED
  BY <1>1, <1>2, <1>3, PTL DEF Spec

\* Two runs of a command never overlap unless the command was stopped while it ran, for
\* any commands and policies, also when the group is reset while commands execute.
THEOREM RunsDoNotOverlap ==
  Spec => []NoOverlap
<1>1. Init => Typed /\ Flags /\ Single
  <2> SUFFICES ASSUME Init PROVE Typed /\ Flags /\ Single
    OBVIOUS
  <2>1. \A c \in Commands : live[c] = 0
    BY DEF Init
  <2>2. own.age <= MaxAge
    BY ControllerAssumption DEF Init, Fresh
  <2> QED
    BY <2>1, <2>2, TypesInitially DEF Init, Single, NoOverlap, Left
<1>2. Typed /\ Flags /\ Single /\ [Next]_vars => (Typed /\ Flags /\ Single)'
  BY TypesKept, FlagsKept, SingleKept
<1>3. Typed /\ Flags /\ Single => NoOverlap
  BY DEF Single
<1> QED
  BY <1>1, <1>2, <1>3, PTL DEF Spec

\* What a subscription was told stays so, for any commands, policies and calls of the
\* client: a second run of the controller finds the execution ended, unless Execute
\* overtook the run that was ending the one before.
THEOREM ExecutionsEndOnce ==
  Spec => EndsOnce
<1>1. Init => Typed /\ Told
  <2> SUFFICES ASSUME Init PROVE Typed /\ Told
    OBVIOUS
  <2>1. ~IsExecuting(own) /\ phase = "idle"
    BY Ends DEF Init
  <2> QED
    BY <2>1, TypesInitially DEF Told, Ending
<1>2. Typed /\ Told /\ [Next]_vars => (Typed /\ Told)'
  BY TypesKept, ToldKept
<1>3. Typed /\ Told /\ [Next]_vars =>
        [(subscription \in {"success", "failure"}) =>
           subscription' \in {subscription, "waiting"} \/ overtaken]_vars
  BY TellsOnce
<1> QED
  BY <1>1, <1>2, <1>3, PTL DEF Spec, EndsOnce
=============================================================================
