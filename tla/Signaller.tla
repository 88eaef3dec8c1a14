------------------------------ MODULE Signaller ------------------------------
(***************************************************************************)
(* RxSignal: a Signaller, the slots that observers connect to it, and the   *)
(* threads that connect, disconnect and signal.  Signaller0 to Signaller3   *)
(* differ in the number of arguments only.                                  *)
(*                                                                         *)
(* What is done under the mutex of slotMap_ is one step, but for signal,    *)
(* which keeps the mutex while it calls one observer after the other.       *)
(***************************************************************************)
EXTENDS Naturals, FiniteSets

CONSTANTS
  Threads,      \* the threads that use the signaller, those of the pool among them
  NoThread,     \* the owner of a mutex that is free
  Targets,      \* what a slot calls: an observer and one of its members
  MaxSlots,     \* bound: nobody begins to connect once there were so many slots
  MaxPending    \* bound: asynchronous signals that wait at a time

ASSUME SignallerAssumption ==
  NoThread \notin Threads /\ MaxSlots \in Nat /\ MaxPending \in Nat

VARIABLES
  handle,       \* Signaller::handle_, the InstanceHandle of the next slot
  slotMap,      \* slotMap_: what the slot of each connected handle calls
  holder,       \* holder[h]: the handle that the SlotHolder given for slot h names
  blocked,      \* the slots whose SlotHolder is blocked
  owner,        \* who has the mutex of slotMap_ beyond a step
  pending,      \* the signals that asynchSignal has scheduled
  pc,           \* where each thread is
  seen,         \* connect: the handle read first
  copy,         \* the handles left to erase, or to signal
  left,         \* history: the slots whose Disconnect has told success
  failed        \* the ASSERT that failed, or "erase" after the erase of an erased slot

threadVars == <<pc, seen, copy>>
vars == <<handle, slotMap, holder, blocked, owner, pending, threadVars, left, failed>>

\* "insert": in connect.  "erase": between disconnect and emptyCollection.  "all":
\* in disconnectAll.  "signal", "call": in signal, between and in the observers.
Places == {"idle", "insert", "erase", "all", "signal", "call"}

Connected == DOMAIN slotMap
Free == owner = NoThread

Init ==
  /\ handle = 0 /\ slotMap = [h \in {} |-> h] /\ holder = [h \in {} |-> h]
  /\ blocked = {} /\ owner = NoThread /\ pending = 0
  /\ pc = [t \in Threads |-> "idle"] /\ seen = [t \in Threads |-> 0]
  /\ copy = [t \in Threads |-> {}]
  /\ left = {} /\ failed = "none"

-----------------------------------------------------------------------------
Goes(t, from, to) == pc[t] = from /\ pc' = [pc EXCEPT ![t] = to]

\* slotMap.erase of each of the handles
Erased(S) == slotMap' = [h \in Connected \ S |-> slotMap[h]]

First(S) == CHOOSE h \in S : \A g \in S : h <= g

\* connect: the SlotHolder is made before the mutex is taken.
Connect(t) ==
  /\ handle < MaxSlots
  /\ Goes(t, "idle", "insert")
  /\ seen' = [seen EXCEPT ![t] = handle]
  /\ UNCHANGED <<handle, slotMap, holder, blocked, owner, pending, copy, left, failed>>

Inserts(t, h) ==
  /\ Goes(t, "insert", "idle") /\ Free
  /\ failed' = IF h \in Connected THEN "inserted" ELSE failed
  /\ \E x \in Targets :
       slotMap' = [g \in Connected \cup {h} |-> IF g \in Connected THEN slotMap[g] ELSE x]
  /\ holder' = [g \in DOMAIN holder \cup {h} |-> IF g = h THEN seen[t] ELSE holder[g]]
  /\ handle' = handle + 1 /\ seen' = [seen EXCEPT ![t] = 0]
  /\ UNCHANGED <<blocked, owner, pending, copy, left>>

\* Mutant: the slot is inserted under the handle that was read first.
InsertSeen(t) == Inserts(t, seen[t])

\* connect: the slot is inserted under the handle that is next by then.
Insert(t) == Inserts(t, handle)

\* SlotHolder::Disconnect, of the handle that the holder names.
DisconnectSlot(h) ==
  /\ Free
  /\ Erased({holder[h]})
  /\ left' = IF holder[h] \in Connected THEN left \cup {h} ELSE left
  /\ UNCHANGED <<handle, holder, blocked, owner, pending, threadVars, failed>>

\* disconnect of an observer, or of one of its members: what it finds.
Disconnect(t) ==
  /\ Free /\ Goes(t, "idle", "erase")
  /\ \E X \in SUBSET Targets : copy' = [copy EXCEPT ![t] = {h \in Connected : slotMap[h] \in X}]
  /\ UNCHANGED <<handle, slotMap, holder, blocked, owner, pending, seen, left, failed>>

\* emptyCollection.  An iterator whose slot is gone is not valid any more.
EmptyCollection(t) ==
  /\ Free /\ Goes(t, "erase", "idle")
  /\ Erased(copy[t]) /\ left' = left \cup copy[t]
  /\ failed' = IF copy[t] \subseteq Connected THEN failed ELSE "erase"
  /\ copy' = [copy EXCEPT ![t] = {}]
  /\ UNCHANGED <<handle, holder, blocked, owner, pending, seen>>

\* disconnectAll: the handles of all slots.
DisconnectAll(t) ==
  /\ Free /\ Goes(t, "idle", "all")
  /\ copy' = [copy EXCEPT ![t] = Connected]
  /\ UNCHANGED <<handle, slotMap, holder, blocked, owner, pending, seen, left, failed>>

\* disconnectAll: the next of them, with the assertion that it was there still.
DisconnectNext(t) ==
  /\ Free /\ pc[t] = "all"
  /\ IF copy[t] = {} THEN Goes(t, "all", "idle") /\ UNCHANGED <<slotMap, copy, left, failed>>
     ELSE LET h == First(copy[t])
          IN  /\ Erased({h}) /\ left' = left \cup {h}
              /\ failed' = IF h \in Connected THEN failed ELSE "disconnected"
              /\ copy' = [copy EXCEPT ![t] = @ \ {h}] /\ UNCHANGED pc
  /\ UNCHANGED <<handle, holder, blocked, owner, pending, seen>>

-----------------------------------------------------------------------------
(* Signals.                                                                *)

\* The slots that signal goes through, all of them or those of one member.
Visits(t) ==
  /\ Goes(t, "idle", "signal")
  /\ \E X \in SUBSET Targets : copy' = [copy EXCEPT ![t] = {h \in Connected : slotMap[h] \in X}]
  /\ UNCHANGED <<handle, slotMap, holder, blocked, seen, left, failed>>

\* Mutant: signal calls the observers of a copy of the map, without the mutex.
SignalCopy(t) == Free /\ Visits(t) /\ UNCHANGED <<owner, pending>>

\* Signal
Signal(t) == Free /\ Visits(t) /\ owner' = t /\ UNCHANGED pending

\* asynchSignal
AsynchSignal ==
  /\ Free /\ Connected # {} /\ pending < MaxPending
  /\ pending' = pending + 1
  /\ UNCHANGED <<handle, slotMap, holder, blocked, owner, threadVars, left, failed>>

\* The run() that scheduleSignal has given to the pool.
RunSignal(t) == Free /\ Visits(t) /\ owner' = t /\ pending > 0 /\ pending' = pending - 1

\* The next slot, which is passed over if it is blocked; the mutex after the last.
Look(t) ==
  /\ pc[t] = "signal"
  /\ IF copy[t] = {} THEN Goes(t, "signal", "idle") /\ owner' = NoThread /\ UNCHANGED copy
     ELSE IF First(copy[t]) \in blocked
     THEN copy' = [copy EXCEPT ![t] = @ \ {First(copy[t])}] /\ UNCHANGED <<pc, owner>>
     ELSE Goes(t, "signal", "call") /\ UNCHANGED <<copy, owner>>
  /\ UNCHANGED <<handle, slotMap, holder, blocked, pending, seen, left, failed>>

\* Mutant: the next slot is called at once.
ReturnToNext(t) ==
  /\ pc[t] = "call" /\ copy' = [copy EXCEPT ![t] = @ \ {First(@)}]
  /\ UNCHANGED <<handle, slotMap, holder, blocked, owner, pending, pc, seen, left, failed>>

\* The observer returns.
Return(t) ==
  /\ Goes(t, "call", "signal") /\ copy' = [copy EXCEPT ![t] = @ \ {First(@)}]
  /\ UNCHANGED <<handle, slotMap, holder, blocked, owner, pending, seen, left, failed>>

\* Mutant: an exception leaves signal past the unlock.
ThrowLocked(t) ==
  /\ Goes(t, "call", "idle") /\ copy' = [copy EXCEPT ![t] = {}]
  /\ UNCHANGED <<handle, slotMap, holder, blocked, owner, pending, seen, left, failed>>

\* The observer throws: the locker gives up the mutex, the other slots are not called.
Throw(t) ==
  /\ Goes(t, "call", "idle") /\ copy' = [copy EXCEPT ![t] = {}] /\ owner' = NoThread
  /\ UNCHANGED <<handle, slotMap, holder, blocked, pending, seen, left, failed>>

\* SlotHolder::Block and Unblock, which take no mutex of the signaller.
Block(h) ==
  /\ blocked' = blocked \cup {h} \/ blocked' = blocked \ {h}
  /\ UNCHANGED <<handle, slotMap, holder, owner, pending, threadVars, left, failed>>

-----------------------------------------------------------------------------
GoesOn(t) ==
  Insert(t) \/ EmptyCollection(t) \/ DisconnectNext(t) \/ Look(t) \/ Return(t) \/ Throw(t)

Begins(t) == Connect(t) \/ Disconnect(t) \/ DisconnectAll(t) \/ Signal(t) \/ RunSignal(t)

Next ==
  /\ failed = "none"
  /\ \/ \E t \in Threads : Begins(t) \/ GoesOn(t)
     \/ \E h \in DOMAIN holder : DisconnectSlot(h) \/ Block(h)
     \/ AsynchSignal

Spec == Init /\ [][Next]_vars

\* A call that has begun goes on, observers return or throw, and nobody is kept from
\* a mutex that is free again and again.
FairSpec == Spec /\ \A t \in Threads : SF_vars(failed = "none" /\ GoesOn(t))

-----------------------------------------------------------------------------
(* Properties.                                                             *)

\* Types; an observer is called for a slot that is left to signal.
TypeOK ==
  /\ handle \in Nat /\ Connected \subseteq Nat /\ DOMAIN holder \subseteq Nat
  /\ \A h \in Connected : slotMap[h] \in Targets
  /\ \A h \in DOMAIN holder : holder[h] \in Nat
  /\ blocked \subseteq DOMAIN holder /\ left \subseteq DOMAIN holder
  /\ owner \in Threads \cup {NoThread} /\ pending \in 0..MaxPending
  /\ pc \in [Threads -> Places] /\ seen \in [Threads -> Nat]
  /\ copy \in [Threads -> SUBSET Nat]
  /\ \A t \in Threads : pc[t] = "call" => copy[t] # {}
  /\ failed \in {"none", "inserted", "disconnected", "erase"}

\* Once a Disconnect has told an observer that it succeeded, the slot is not called any
\* more, not by a signal that was under way either, so the observer may be deleted.  A
\* SlotHolder that names the slot of somebody else, which connect gives out when two
\* threads connect at once, keeps that promise to the other observer instead.
NotCalledAfterwards ==
  \A t \in Threads : pc[t] = "call" =>
    LET h == First(copy[t])
    IN  h \in Connected /\ (h \in left => holder[h] # h)

\* ASSERT(inserted.second) of connect holds, however many threads connect at once.
InsertedFresh == failed # "inserted"

\* A call of the signaller ends, if observers return or throw and do not call it back.
CallEnds ==
  \A t \in Threads : pc[t] # "idle" ~> (pc[t] = "idle" \/ failed # "none")
=============================================================================
