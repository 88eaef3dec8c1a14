-------------------------- MODULE Signaller_proofs --------------------------
(***************************************************************************)
(* Proofs about Signaller, for any threads, targets and bounds.             *)
(***************************************************************************)
EXTENDS Signaller, WellFoundedInduction, TLAPS

-----------------------------------------------------------------------------
(* The inductive invariant.                                                *)

\* The types of what the calls carry with them.
Typed ==
  /\ blocked \subseteq DOMAIN holder /\ pending \in 0..MaxPending
  /\ owner \in Threads \cup {NoThread}
  /\ pc \in [Threads -> Places] /\ seen \in [Threads -> Nat]
  /\ copy \in [Threads -> SUBSET DOMAIN holder]
  /\ failed \in {"none", "disconnected", "erase"}

\* Handles below handle_ have been given out, and no others; each slot got its own.
Numbered ==
  /\ handle \in Nat /\ Connected \subseteq DOMAIN holder
  /\ \A h \in DOMAIN holder : h \in Nat /\ h < handle /\ holder[h] \in Nat
  /\ \A h \in Connected : slotMap[h] \in Targets

\* A slot that was told it is disconnected is, unless its holder names another one.
Disconnected == left \subseteq DOMAIN holder /\ \A h \in left \cap Connected : holder[h] # h

\* Whoever goes through the slots has the mutex, and goes through connected ones.
Locked ==
  \A t \in Threads :
    /\ pc[t] \in {"signal", "call"} => owner = t /\ copy[t] \subseteq Connected
    /\ pc[t] = "call" => copy[t] # {}

IInv == Typed /\ Numbered /\ Disconnected /\ Locked

\* std::map's first key: a set of handles that is not empty has a least one.
LEMMA FirstIsThere ==
  ASSUME NEW S \in SUBSET Nat, S # {}
  PROVE  First(S) \in S
<1>1. PICK h \in S : \A g \in S : ~(<<g, h>> \in OpToRel(<, Nat))
  BY NatLessThanWellFounded, WFMin
<1>2. ASSUME NEW g \in S PROVE h <= g
  <2>1. g \in Nat /\ h \in Nat
    OBVIOUS
  <2>2. g < h => <<g, h>> \in OpToRel(<, Nat)
    BY <2>1 DEF OpToRel
  <2>3. ~(g < h)
    BY <1>1, <2>2
  <2> QED
    BY <2>1, <2>3
<1> QED
  BY <1>2 DEF First

LEMMA HandlesAreNumbers ==
  ASSUME IInv
  PROVE  \A t \in Threads : copy[t] \in SUBSET Nat
BY DEF IInv, Typed, Numbered

LEMMA Initially == Init => IInv
BY SignallerAssumption DEF Init, IInv, Typed, Numbered, Disconnected, Locked, Places, Connected

-----------------------------------------------------------------------------
(* One lemma for each kind of step.                                        *)

\* While nobody goes through the slots they may come and go.
LEMMA NobodySignals ==
  ASSUME Locked, Free, NEW t \in Threads
  PROVE  pc[t] \notin {"signal", "call"}
BY SignallerAssumption DEF Locked, Free

LEMMA ConnectKeeps ==
  ASSUME IInv, NEW t \in Threads, Connect(t)
  PROVE  IInv'
BY DEF IInv, Typed, Numbered, Disconnected, Locked, Connect, Goes, Places, Connected

\* The handle that is next by then is nobody's.
LEMMA InsertKeeps ==
  ASSUME IInv, NEW t \in Threads, Insert(t)
  PROVE  IInv'
<1>1. handle \notin DOMAIN holder /\ handle \notin Connected /\ handle \notin left
  BY DEF IInv, Numbered, Disconnected
<1>2. /\ Goes(t, "insert", "idle") /\ Free /\ failed' = failed
      /\ DOMAIN holder' = DOMAIN holder \cup {handle}
      /\ \A g \in DOMAIN holder : holder'[g] = holder[g]
      /\ holder'[handle] = seen[t] /\ handle' = handle + 1
      /\ seen' = [seen EXCEPT ![t] = 0]
      /\ UNCHANGED <<blocked, owner, pending, copy, left>>
  BY <1>1 DEF Insert, Inserts
<1>3. /\ Connected' = Connected \cup {handle} /\ slotMap'[handle] \in Targets
      /\ \A g \in Connected : slotMap'[g] = slotMap[g]
  BY <1>1 DEF Insert, Inserts, Connected
<1>4. Typed'
  BY <1>2 DEF IInv, Typed, Goes, Places
<1>5. Numbered'
  <2>1. handle' \in Nat /\ Connected' \subseteq DOMAIN holder'
    BY <1>2, <1>3 DEF IInv, Numbered
  <2>2. \A h \in DOMAIN holder' : h \in Nat /\ h < handle' /\ holder'[h] \in Nat
    BY <1>2 DEF IInv, Typed, Numbered
  <2>3. \A h \in Connected' : slotMap'[h] \in Targets
    BY <1>3 DEF IInv, Numbered
  <2> QED
    BY <2>1, <2>2, <2>3 DEF Numbered
<1>6. Disconnected'
  BY <1>1, <1>2, <1>3 DEF IInv, Numbered, Disconnected
<1>7. Locked'
  BY <1>2, NobodySignals DEF IInv, Locked, Typed, Goes
<1> QED
  BY <1>4, <1>5, <1>6, <1>7 DEF IInv

\* Slots are erased while nobody goes through them.
LEMMA ErasureKeeps ==
  ASSUME IInv, Free, NEW S, Erased(S), UNCHANGED <<handle, holder, blocked, owner, pending, seen>>,
         \A t \in Threads : pc'[t] \notin {"signal", "call"},
         pc' \in [Threads -> Places], copy' \in [Threads -> SUBSET DOMAIN holder],
         failed' \in {"none", "disconnected", "erase"},
         left' \subseteq DOMAIN holder,
         \A h \in left' \ left : holder[h] = h => h \in S
  PROVE  IInv'
<1>1. Connected' = Connected \ S /\ \A h \in Connected' : slotMap'[h] = slotMap[h]
  BY DEF Erased, Connected
<1>2. Typed'
  BY DEF IInv, Typed
<1>3. Numbered'
  BY <1>1 DEF IInv, Numbered
<1>4. Disconnected'
  BY <1>1 DEF IInv, Disconnected
<1>5. Locked'
  BY DEF Locked
<1> QED
  BY <1>2, <1>3, <1>4, <1>5 DEF IInv

LEMMA DisconnectSlotKeeps ==
  ASSUME IInv, NEW h \in DOMAIN holder, DisconnectSlot(h)
  PROVE  IInv'
<1>1. /\ Free /\ Erased({holder[h]})
      /\ UNCHANGED <<handle, holder, blocked, owner, pending, seen, pc, copy, failed>>
      /\ left' \subseteq left \cup {h}
  BY DEF DisconnectSlot, threadVars
<1>2. \A t \in Threads : pc'[t] \notin {"signal", "call"}
  BY <1>1, NobodySignals DEF IInv
<1>3. \A g \in left' \ left : holder[g] = g => g \in {holder[h]}
  BY <1>1
<1>4. /\ pc' \in [Threads -> Places] /\ copy' \in [Threads -> SUBSET DOMAIN holder]
      /\ failed' \in {"none", "disconnected", "erase"} /\ left' \subseteq DOMAIN holder
  BY <1>1 DEF IInv, Typed, Disconnected
<1> QED
  BY <1>1, <1>2, <1>3, <1>4, ErasureKeeps

LEMMA DisconnectKeeps ==
  ASSUME IInv, NEW t \in Threads, Disconnect(t) \/ DisconnectAll(t)
  PROVE  IInv'
<1>1. /\ Free /\ \E to \in {"erase", "all"} : Goes(t, "idle", to)
      /\ UNCHANGED <<handle, slotMap, holder, blocked, owner, pending, seen, left, failed>>
  BY DEF Disconnect, DisconnectAll
<1>2. \E S \in SUBSET Connected : copy' = [copy EXCEPT ![t] = S]
  BY DEF Disconnect, DisconnectAll
<1>3. Typed'
  BY <1>1, <1>2 DEF IInv, Typed, Numbered, Goes, Places
<1>4. Numbered' /\ Disconnected'
  BY <1>1 DEF IInv, Numbered, Disconnected, Connected
<1>5. Locked'
  BY <1>1, NobodySignals DEF IInv, Locked, Typed, Goes
<1> QED
  BY <1>3, <1>4, <1>5 DEF IInv

LEMMA EmptyCollectionKeeps ==
  ASSUME IInv, NEW t \in Threads, EmptyCollection(t)
  PROVE  IInv'
<1>1. /\ Free /\ Goes(t, "erase", "idle") /\ Erased(copy[t])
      /\ left' = left \cup copy[t] /\ copy' = [copy EXCEPT ![t] = {}]
      /\ UNCHANGED <<handle, holder, blocked, owner, pending, seen>>
      /\ failed' \in {failed, "erase"}
  BY DEF EmptyCollection
<1>2. \A u \in Threads : pc'[u] \notin {"signal", "call"}
  BY <1>1, NobodySignals DEF IInv, Typed, Goes
<1>3. /\ pc' \in [Threads -> Places] /\ copy' \in [Threads -> SUBSET DOMAIN holder]
      /\ failed' \in {"none", "disconnected", "erase"} /\ left' \subseteq DOMAIN holder
  BY <1>1 DEF IInv, Typed, Disconnected, Goes, Places
<1>4. \A h \in left' \ left : holder[h] = h => h \in copy[t]
  BY <1>1
<1> QED
  BY <1>1, <1>2, <1>3, <1>4, ErasureKeeps

LEMMA DisconnectNextKeeps ==
  ASSUME IInv, NEW t \in Threads, DisconnectNext(t)
  PROVE  IInv'
<1>1. Free /\ pc[t] = "all" /\ UNCHANGED <<handle, holder, blocked, owner, pending, seen>>
  BY DEF DisconnectNext
<1>2. CASE copy[t] = {}
  <2>1. Goes(t, "all", "idle") /\ UNCHANGED <<slotMap, copy, left, failed>>
    BY <1>2 DEF DisconnectNext
  <2> QED
    BY <1>1, <2>1
       DEF IInv, Typed, Numbered, Disconnected, Locked, Goes, Places, Connected
<1>3. CASE copy[t] # {}
  <2> DEFINE h == First(copy[t])
  <2>1. /\ Erased({h}) /\ left' = left \cup {h} /\ failed' \in {failed, "disconnected"}
        /\ copy' = [copy EXCEPT ![t] = @ \ {h}] /\ UNCHANGED pc
    BY <1>3 DEF DisconnectNext
  <2>2. h \in copy[t]
    BY <1>3, FirstIsThere, HandlesAreNumbers
  <2> HIDE DEF h
  <2>3. \A u \in Threads : pc'[u] \notin {"signal", "call"}
    BY <1>1, <2>1, NobodySignals DEF IInv
  <2>4. /\ pc' \in [Threads -> Places] /\ copy' \in [Threads -> SUBSET DOMAIN holder]
        /\ failed' \in {"none", "disconnected", "erase"} /\ left' \subseteq DOMAIN holder
    BY <2>1, <2>2 DEF IInv, Typed, Disconnected
  <2>5. \A g \in left' \ left : holder[g] = g => g \in {h}
    BY <2>1
  <2> QED
    BY <1>1, <2>1, <2>3, <2>4, <2>5, ErasureKeeps
<1> QED
  BY <1>2, <1>3

\* A signal begins: it takes the mutex, and goes through connected slots.
LEMMA SignalKeeps ==
  ASSUME IInv, NEW t \in Threads, Signal(t) \/ RunSignal(t)
  PROVE  IInv'
<1>1. /\ Free /\ Goes(t, "idle", "signal") /\ owner' = t
      /\ UNCHANGED <<handle, slotMap, holder, blocked, seen, left, failed>>
      /\ \E S \in SUBSET Connected : copy' = [copy EXCEPT ![t] = S]
  BY DEF Signal, RunSignal, Visits
<1>2. pending' \in 0..MaxPending
  BY SignallerAssumption DEF IInv, Typed, Signal, RunSignal
<1>3. Typed'
  BY <1>1, <1>2 DEF IInv, Typed, Numbered, Goes, Places
<1>4. Numbered' /\ Disconnected'
  BY <1>1 DEF IInv, Numbered, Disconnected, Connected
<1>5. Locked'
  BY <1>1, NobodySignals DEF IInv, Locked, Typed, Goes, Connected
<1> QED
  BY <1>3, <1>4, <1>5 DEF IInv

\* A signal goes on: the one that has the mutex, and no other, is under way.
LEMMA SignallingKeeps ==
  ASSUME IInv, NEW t \in Threads, Look(t) \/ Return(t) \/ Throw(t)
  PROVE  IInv'
<1>1. /\ pc[t] \in {"signal", "call"}
      /\ UNCHANGED <<handle, slotMap, holder, blocked, pending, seen, left, failed>>
      /\ \E S \in SUBSET copy[t] : copy' = [copy EXCEPT ![t] = S]
      /\ \E to \in {"idle", "signal", "call"} :
           /\ pc' = [pc EXCEPT ![t] = to]
           /\ to = "idle" => owner' = NoThread
           /\ to # "idle" => owner' = owner
           /\ to = "call" => copy'[t] # {}
  <2>1. CASE Look(t)
    <3>1. CASE copy[t] = {}
      BY <2>1, <3>1 DEF Look, Goes, IInv, Typed
    <3>2. CASE copy[t] # {} /\ First(copy[t]) \in blocked
      BY <2>1, <3>2 DEF Look, Goes, IInv, Typed
    <3>3. CASE copy[t] # {} /\ First(copy[t]) \notin blocked
      BY <2>1, <3>3 DEF Look, Goes, IInv, Typed
    <3> QED
      BY <3>1, <3>2, <3>3
  <2>2. CASE Return(t)
    BY <2>2 DEF Return, Goes, IInv, Typed
  <2>3. CASE Throw(t)
    BY <2>3 DEF Throw, Goes, IInv, Typed
  <2> QED
    BY <2>1, <2>2, <2>3
<1>2. owner = t /\ \A u \in Threads \ {t} : pc[u] \notin {"signal", "call"}
  BY <1>1 DEF IInv, Locked
<1>3. Typed'
  BY <1>1 DEF IInv, Typed, Places
<1>4. Numbered' /\ Disconnected'
  BY <1>1 DEF IInv, Numbered, Disconnected, Connected
<1>5. Locked'
  BY <1>1, <1>2 DEF IInv, Locked, Typed, Connected
<1> QED
  BY <1>3, <1>4, <1>5 DEF IInv

LEMMA OthersKeep ==
  ASSUME IInv, AsynchSignal \/ (\E h \in DOMAIN holder : Block(h)) \/ UNCHANGED vars
  PROVE  IInv'
<1>1. UNCHANGED <<handle, slotMap, holder, owner, pc, seen, copy, left, failed>>
  BY DEF AsynchSignal, Block, vars, threadVars
<1>2. blocked' \subseteq DOMAIN holder /\ pending' \in 0..MaxPending
  BY SignallerAssumption DEF IInv, Typed, AsynchSignal, Block, vars
<1> QED
  BY <1>1, <1>2 DEF IInv, Typed, Numbered, Disconnected, Locked, Connected

-----------------------------------------------------------------------------
(* The theorems.                                                           *)

LEMMA IInvIsInductive == IInv /\ [Next]_vars => IInv'
<1> SUFFICES ASSUME IInv, [Next]_vars PROVE IInv'
  OBVIOUS
<1>1. ASSUME NEW t \in Threads, Begins(t) \/ GoesOn(t) PROVE IInv'
  BY <1>1, ConnectKeeps, InsertKeeps, DisconnectKeeps, EmptyCollectionKeeps,
     DisconnectNextKeeps, SignalKeeps, SignallingKeeps DEF Begins, GoesOn
<1>2. ASSUME NEW h \in DOMAIN holder, DisconnectSlot(h) PROVE IInv'
  BY <1>2, DisconnectSlotKeeps
<1> QED
  BY <1>1, <1>2, OthersKeep DEF Next

THEOREM Invariant == Spec => []IInv
BY Initially, IInvIsInductive, PTL DEF Spec

\* Types: the signaller's maps, its handles and what its calls carry keep their types,
\* and an observer is called for a slot that is left to signal.
THEOREM TypeCorrect == Spec => []TypeOK
<1>1. IInv => TypeOK
  BY DEF IInv, Typed, Numbered, Disconnected, Locked, TypeOK
<1> QED
  BY <1>1, Invariant, PTL

\* An observer is called under the mutex and through a slot that is connected, so never
\* after Disconnect has told it that it succeeded, unless its SlotHolder names another.
THEOREM NoCallAfterDisconnect == Spec => []NotCalledAfterwards
<1>1. IInv => NotCalledAfterwards
  <2> SUFFICES ASSUME IInv, NEW t \in Threads, pc[t] = "call"
               PROVE  LET h == First(copy[t])
                      IN  h \in Connected /\ (h \in left => holder[h] # h)
    BY DEF NotCalledAfterwards
  <2>1. copy[t] # {} /\ copy[t] \subseteq Connected
    BY DEF IInv, Locked
  <2>2. First(copy[t]) \in copy[t]
    BY <2>1, FirstIsThere, HandlesAreNumbers
  <2> QED
    BY <2>1, <2>2 DEF IInv, Disconnected
<1> QED
  BY <1>1, Invariant, PTL

\* The assertion of connect that the handle was nobody's never fails, although the
\* handle that the SlotHolder gets was read before the mutex was taken.
THEOREM InsertsFreshHandles == Spec => []InsertedFresh
<1>1. IInv => InsertedFresh
  BY DEF IInv, Typed, InsertedFresh
<1> QED
  BY <1>1, Invariant, PTL
=============================================================================
