------------------------- MODULE SharedArrayProofs -------------------------
(***************************************************************************)
(* Theorems about SharedArray, for every number of slots and every finite  *)
(* set of threads.                                                         *)
(***************************************************************************)
EXTENDS SharedArray, RingProofs, FiniteSetTheorems, TLAPS

\* A call that failed left its mutex taken, so its thread is between calls
\* or waits in front of the mutex: it never comes past it again.
FailedOutside ==
    \A t \in Failed : pc[t] \in {"idle", "wait_empty", "put_lock",
                                 "wait_full", "get_lock"}

\* While a put is in progress its argument is a hostname.
PutArgument == \A t \in Threads : pc[t] \in PutSteps => arg[t] \in Hostnames

\* The inductive invariant behind mutual exclusion.  TypeOK alone is not
\* inductive: that a sem_post leaves the mutex at most 1 needs its owner.
LockInv == TypeOK /\ PutArgument /\ MutualExclusion /\ FailedOutside

LEMMA SlotArithmetic ==
    ASSUME NEW x \in Nat
    PROVE  x % ARRAY_SIZE \in Slots
  BY SizeAssumption DEF Slots

LEMMA InitLock == Init => LockInv
  BY SizeAssumption DEF Init, LockInv, TypeOK, PutArgument, MutualExclusion, FailedOutside,
     Owners, Failed, Critical, Outcomes, Slots, PutSteps, GetSteps

\* Threads take the same step whatever their call: one case per action.
LEMMA StepLock ==
    ASSUME LockInv, NEW t \in Threads, PutStep(t) \/ GetStep(t)
    PROVE  LockInv'
  <1> USE DEF LockInv, TypeOK, PutArgument, MutualExclusion, FailedOutside, Owners, Failed,
              Critical, Outcomes, PutSteps, GetSteps, At, Goto, Return,
              ringVars, semVars, callVars
  <1>1. CASE WaitEmpty(t)  BY <1>1 DEF WaitEmpty
  <1>2. CASE PutLock(t)    BY <1>2 DEF PutLock
  <1>3. CASE PutTooLong(t) BY <1>3 DEF PutTooLong
  <1>4. CASE PutItems(t)   BY <1>4 DEF PutItems
  <1>5. CASE PutStore(t)
    <2>1. tail' \in Slots
      BY <1>5, SlotArithmetic DEF PutStore, Slots
    <2> QED BY <1>5, <2>1 DEF PutStore
  <1>6. CASE PutUnlock(t)  BY <1>6 DEF PutUnlock
  <1>7. CASE PostFull(t)   BY <1>7 DEF PostFull
  <1>8. CASE WaitFull(t)   BY <1>8 DEF WaitFull
  <1>9. CASE GetLock(t)    BY <1>9 DEF GetLock
  <1>10. CASE GetNull(t)   BY <1>10 DEF GetNull
  <1>11. CASE GetCopy(t)
    <2>1. head' \in Slots
      BY <1>11, SlotArithmetic DEF GetCopy, Slots
    <2> QED BY <1>11, <2>1 DEF GetCopy
  <1>12. CASE GetUnlock(t) BY <1>12 DEF GetUnlock
  <1>13. CASE PostEmpty(t) BY <1>13 DEF PostEmpty
  <1> QED BY <1>1, <1>2, <1>3, <1>4, <1>5, <1>6, <1>7, <1>8, <1>9, <1>10,
             <1>11, <1>12, <1>13 DEF PutStep, GetStep

LEMMA CallLock ==
    ASSUME LockInv, NEW t \in Threads,
           \/ \E h \in Hostnames : CallPut(t, h)
           \/ \E d \in Targets : CallGet(t, d)
    PROVE  LockInv'
  BY TargetsAssumption
     DEF LockInv, TypeOK, PutArgument, MutualExclusion, FailedOutside, Owners,
         Failed, Critical, Outcomes, PutSteps, GetSteps, At, Goto, CallPut,
         CallGet, ringVars, semVars, callVars

LEMMA NextLock == LockInv /\ [Next]_vars => LockInv'
  <1> SUFFICES ASSUME LockInv, [Next]_vars
               PROVE  LockInv'
    OBVIOUS
  <1>1. CASE UNCHANGED vars
    BY <1>1 DEF LockInv, TypeOK, PutArgument, MutualExclusion, FailedOutside,
                Owners, Failed, vars
  <1>2. CASE Next
    BY <1>2, StepLock, CallLock DEF Next
  <1> QED BY <1>1, <1>2

LEMMA LockInvariant == Spec => []LockInv
  BY InitLock, NextLock, PTL DEF Spec

\* Every reachable state is well typed: in particular head and tail stay
\* inside the array and the binary semaphore never exceeds 1.
THEOREM TypeCorrect == Spec => []TypeOK
  BY LockInvariant, PTL DEF LockInv

\* array_put and array_get give exclusive access, and a call that returned
\* -1 shuts every other thread out for good.
THEOREM Exclusion == Spec => []MutualExclusion
  BY LockInvariant, PTL DEF LockInv
-----------------------------------------------------------------------------
(* Counting.  Each action moves at most its own thread into or out of the  *)
(* sets the properties count.                                              *)

LEMMA FiniteSubsets ==
    /\ IsFiniteSet(InTransit) /\ Cardinality(InTransit) \in Nat
    /\ IsFiniteSet(Failed)    /\ Cardinality(Failed) \in Nat
    /\ IsFiniteSet(StoredBy)  /\ Cardinality(StoredBy) \in Nat
    /\ IsFiniteSet(FailedGet) /\ Cardinality(FailedGet) \in Nat
  <1>1. \A S \in SUBSET Threads : IsFiniteSet(S) /\ Cardinality(S) \in Nat
    BY ThreadsAssumption, FS_Subset, FS_CardinalityType
  <1> QED BY <1>1 DEF InTransit, Failed, StoredBy, FailedGet

LEMMA Joins ==
    ASSUME NEW S, NEW t, IsFiniteSet(S), t \notin S
    PROVE  Cardinality(S \cup {t}) = Cardinality(S) + 1
  BY FS_AddElement

LEMMA Leaves ==
    ASSUME NEW S, NEW t, IsFiniteSet(S), t \in S
    PROVE  Cardinality(S \ {t}) = Cardinality(S) - 1
  BY FS_RemoveElement

LEMMA SmallerByOne ==
    ASSUME NEW S, NEW T, NEW t, IsFiniteSet(T), t \notin S, S \cup {t} \subseteq T
    PROVE  Cardinality(S) + 1 <= Cardinality(T)
  <1>1. IsFiniteSet(S)
    BY FS_Subset
  <1>2. Cardinality(S \cup {t}) <= Cardinality(T)
    BY FS_Subset
  <1> QED BY <1>1, <1>2, Joins

\* A step that neither returns nor calls keeps every outcome.
LEMMA SameOutcomes ==
    ASSUME UNCHANGED ret
    PROVE  Failed' = Failed /\ FailedGet' = FailedGet
  BY DEF Failed, FailedGet

LEMMA InitSlots == Init => SlotsAccountedFor
  <1> SUFFICES ASSUME Init PROVE SlotsAccountedFor
    OBVIOUS
  <1>1. InTransit = {} /\ Failed = {}
    BY DEF Init, InTransit, Failed
  <1> QED BY <1>1, FS_EmptySet, SizeAssumption DEF Init, SlotsAccountedFor

LEMMA StepSlots ==
    ASSUME LockInv, SlotsAccountedFor, NEW t \in Threads,
           PutStep(t) \/ GetStep(t)
    PROVE  SlotsAccountedFor'
  <1> USE DEF LockInv, TypeOK, SlotsAccountedFor, Goto, At, ringVars, semVars,
              callVars, PutSteps, GetSteps
  <1>1. CASE WaitEmpty(t)
    <2>1. InTransit' = InTransit \cup {t} /\ t \notin InTransit
      BY <1>1 DEF WaitEmpty, InTransit
    <2> QED BY <1>1, <2>1, Joins, SameOutcomes, FiniteSubsets DEF WaitEmpty
  <1>2. CASE WaitFull(t)
    <2>1. InTransit' = InTransit \cup {t} /\ t \notin InTransit
      BY <1>2 DEF WaitFull, InTransit
    <2> QED BY <1>2, <2>1, Joins, SameOutcomes, FiniteSubsets DEF WaitFull
  <1>3. CASE PostFull(t)
    <2>1. InTransit' = InTransit \ {t} /\ t \in InTransit
      BY <1>3 DEF PostFull, Return, InTransit
    <2>2. Failed' = Failed
      BY <1>3 DEF PostFull, Return, Failed, FailedOutside
    <2> QED BY <1>3, <2>1, <2>2, Leaves, FiniteSubsets DEF PostFull
  <1>4. CASE PostEmpty(t)
    <2>1. InTransit' = InTransit \ {t} /\ t \in InTransit
      BY <1>4 DEF PostEmpty, Return, InTransit
    <2>2. Failed' = Failed
      BY <1>4 DEF PostEmpty, Return, Failed, FailedOutside
    <2> QED BY <1>4, <2>1, <2>2, Leaves, FiniteSubsets DEF PostEmpty
  <1>5. CASE PutTooLong(t) \/ GetNull(t)
    <2>1. InTransit' = InTransit \ {t} /\ t \in InTransit
      BY <1>5 DEF PutTooLong, GetNull, Return, InTransit
    <2>2. Failed' = Failed \cup {t} /\ t \notin Failed
      BY <1>5 DEF PutTooLong, GetNull, Return, Failed, FailedOutside
    <2>3. UNCHANGED <<full, empty>>
      BY <1>5 DEF PutTooLong, GetNull
    <2> QED BY <2>1, <2>2, <2>3, Joins, Leaves, FiniteSubsets
  <1>6. CASE \/ PutLock(t) \/ PutItems(t) \/ PutStore(t) \/ PutUnlock(t)
             \/ GetLock(t) \/ GetCopy(t) \/ GetUnlock(t)
    <2>1. UNCHANGED <<InTransit, full, empty, ret>>
      BY <1>6 DEF PutLock, PutItems, PutStore, PutUnlock, GetLock, GetCopy,
                  GetUnlock, InTransit
    <2> QED BY <2>1, SameOutcomes
  <1> QED BY <1>1, <1>2, <1>3, <1>4, <1>5, <1>6 DEF PutStep, GetStep

Call(t) == \/ \E h \in Hostnames : CallPut(t, h)
           \/ \E d \in Targets : CallGet(t, d)

\* Calling moves a thread to the front of its first semaphore only.
LEMMA CallCounts ==
    ASSUME LockInv, NEW t \in Threads, Call(t)
    PROVE  UNCHANGED <<InTransit, Failed, StoredBy, FailedGet, full, empty>>
  BY DEF LockInv, TypeOK, Call, CallPut, CallGet, InTransit, Failed, StoredBy,
         FailedGet, Goto, At, ringVars, semVars

LEMMA NextSlots ==
    LockInv /\ SlotsAccountedFor /\ [Next]_vars => SlotsAccountedFor'
  <1> SUFFICES ASSUME LockInv, SlotsAccountedFor, [Next]_vars
               PROVE  SlotsAccountedFor'
    OBVIOUS
  <1>1. CASE UNCHANGED vars
    BY <1>1 DEF SlotsAccountedFor, InTransit, Failed, vars
  <1>2. CASE \E t \in Threads : Call(t)
    BY <1>2, CallCounts DEF SlotsAccountedFor
  <1>3. CASE \E t \in Threads : PutStep(t) \/ GetStep(t)
    BY <1>3, StepSlots
  <1> QED BY <1>1, <1>2, <1>3 DEF Next, Call

\* No credit of the two counting semaphores is created or lost without trace:
\* whatever the interleaving, each slot is counted by one of them, held by a
\* call in progress, or was lost by a call that returned -1.
THEOREM Accounting == Spec => []SlotsAccountedFor
  BY InitSlots, NextSlots, LockInvariant, PTL DEF Spec
-----------------------------------------------------------------------------
(* The number of unread items. *)

LEMMA StoredNat ==
    ASSUME TypeOK
    PROVE  Stored \in Nat
  BY FiniteSubsets DEF TypeOK, Stored

\* A producer about to write holds a slot that no unread item occupies.
LEMMA RoomForPut ==
    ASSUME LockInv, SlotsAccountedFor, NEW t \in Threads,
           pc[t] \in {"put_items", "put_store"}
    PROVE  /\ Stored < ARRAY_SIZE
           /\ FailedGet = {}
           /\ Cardinality(StoredBy) < Cardinality(Threads)
  <1>1. Failed = {} /\ FailedGet = {}
    BY DEF LockInv, MutualExclusion, FailedOutside, Owners, Critical, Failed, FailedGet, TypeOK
  <1>2. t \notin StoredBy /\ StoredBy \cup {t} \subseteq InTransit
    BY DEF StoredBy, InTransit
  <1>3. Cardinality(StoredBy) + 1 <= Cardinality(InTransit)
    BY <1>2, FiniteSubsets, SmallerByOne
  <1>4. Cardinality(StoredBy) + 1 <= Cardinality(Threads)
    <2>1. StoredBy \cup {t} \subseteq Threads
      BY DEF StoredBy
    <2> QED BY <2>1, <1>2, ThreadsAssumption, SmallerByOne
  <1>5. Cardinality(Failed) = 0 /\ Cardinality(FailedGet) = 0
    BY <1>1, FS_EmptySet
  <1> QED BY <1>1, <1>3, <1>4, <1>5, FiniteSubsets, ThreadsAssumption,
             FS_CardinalityType, SizeAssumption
          DEF Stored, SlotsAccountedFor, LockInv, TypeOK

LEMMA PutStoreAdds ==
    ASSUME LockInv, NEW t \in Threads, PutStore(t)
    PROVE  Stored' = Stored + 1
  <1>1. StoredBy' = StoredBy \cup {t} /\ t \notin StoredBy
    BY DEF LockInv, TypeOK, PutStore, StoredBy, Goto, At
  <1>2. UNCHANGED <<full, FailedGet>>
    BY DEF PutStore, semVars, callVars, FailedGet
  <1> QED BY <1>1, <1>2, Joins, FiniteSubsets DEF Stored, LockInv, TypeOK

LEMMA GetCopyRemoves ==
    ASSUME LockInv, NEW t \in Threads, GetCopy(t)
    PROVE  Stored > 0 /\ Stored' = Stored - 1
  <1>1. StoredBy' = StoredBy \ {t} /\ t \in StoredBy
    BY DEF LockInv, TypeOK, GetCopy, StoredBy, Goto, At
  <1>2. UNCHANGED <<full, FailedGet>>
    BY DEF GetCopy, semVars, FailedGet
  <1>3. Cardinality(StoredBy \ {t}) = Cardinality(StoredBy) - 1 /\ Cardinality(StoredBy \ {t}) \in Nat
    BY <1>1, Leaves, FiniteSubsets, FS_Subset, FS_CardinalityType
  <1> QED BY <1>1, <1>2, <1>3, FiniteSubsets DEF Stored, LockInv, TypeOK

\* Credits pass from semaphore to thread and back; the count stays.
LEMMA OthersKeep ==
    ASSUME LockInv, NEW t \in Threads, PutStep(t) \/ GetStep(t),
           ~ PutStore(t), ~ GetCopy(t)
    PROVE  Stored' = Stored
  <1> USE DEF LockInv, TypeOK, Stored, Goto, At, ringVars, semVars, callVars
  <1>1. CASE WaitFull(t)
    <2>1. StoredBy' = StoredBy \cup {t} /\ t \notin StoredBy
      BY <1>1 DEF WaitFull, StoredBy
    <2> QED BY <1>1, <2>1, Joins, SameOutcomes, FiniteSubsets DEF WaitFull
  <1>2. CASE PostFull(t)
    <2>1. StoredBy' = StoredBy \ {t} /\ t \in StoredBy
      BY <1>2 DEF PostFull, Return, StoredBy
    <2>2. FailedGet' = FailedGet
      BY <1>2 DEF PostFull, Return, FailedGet, Failed, FailedOutside
    <2>3. full \in Nat /\ full' = full + 1
      BY <1>2 DEF PostFull
    <2>4. Cardinality(StoredBy \ {t}) = Cardinality(StoredBy) - 1
      BY <2>1, Leaves, FiniteSubsets
    <2> QED BY <2>1, <2>2, <2>3, <2>4, FiniteSubsets
  <1>3. CASE GetNull(t)
    <2>1. StoredBy' = StoredBy \ {t} /\ t \in StoredBy
      BY <1>3 DEF GetNull, Return, StoredBy
    <2>2. FailedGet' = FailedGet \cup {t} /\ t \notin FailedGet
      BY <1>3 DEF GetNull, Return, FailedGet, Failed, FailedOutside
    <2>3. full' = full
      BY <1>3 DEF GetNull
    <2> QED BY <2>1, <2>2, <2>3, Joins, Leaves, FiniteSubsets
  <1>4. CASE PutTooLong(t) \/ PostEmpty(t)
    <2>1. StoredBy' = StoredBy /\ full' = full
      BY <1>4 DEF PutTooLong, PostEmpty, Return, StoredBy
    <2>2. FailedGet' = FailedGet
      BY <1>4 DEF PutTooLong, PostEmpty, Return, FailedGet, Failed,
                  FailedOutside
    <2> QED BY <2>1, <2>2
  <1>5. CASE \/ WaitEmpty(t) \/ PutLock(t) \/ PutItems(t) \/ PutUnlock(t)
             \/ GetLock(t) \/ GetUnlock(t)
    <2>1. UNCHANGED <<StoredBy, full, ret>>
      BY <1>5 DEF WaitEmpty, PutLock, PutItems, PutUnlock, GetLock, GetUnlock,
                  StoredBy
    <2> QED BY <2>1, SameOutcomes
  <1> QED BY <1>1, <1>2, <1>3, <1>4, <1>5 DEF PutStep, GetStep

\* Some thread adds, some thread removes, or the count stays.
LEMMA NextStored ==
    ASSUME LockInv, SlotsAccountedFor, [Next]_vars
    PROVE  \/ Stored < ARRAY_SIZE /\ Stored' = Stored + 1
           \/ Stored > 0 /\ Stored' = Stored - 1
           \/ Stored' = Stored
  <1>1. CASE UNCHANGED vars
    BY <1>1 DEF Stored, StoredBy, FailedGet, vars
  <1>2. CASE \E t \in Threads : Call(t)
    BY <1>2, CallCounts DEF Stored
  <1>3. ASSUME NEW t \in Threads, PutStore(t)
        PROVE  Stored < ARRAY_SIZE /\ Stored' = Stored + 1
    BY <1>3, RoomForPut, PutStoreAdds DEF PutStore, At
  <1>4. ASSUME NEW t \in Threads, GetCopy(t)
        PROVE  Stored > 0 /\ Stored' = Stored - 1
    BY <1>4, GetCopyRemoves
  <1>5. ASSUME NEW t \in Threads, PutStep(t) \/ GetStep(t),
               ~ PutStore(t), ~ GetCopy(t)
        PROVE  Stored' = Stored
    BY <1>5, OthersKeep
  <1> QED BY <1>1, <1>2, <1>3, <1>4, <1>5 DEF Next, Call

LEMMA InitStored == Init => Stored = 0
  <1> SUFFICES ASSUME Init PROVE Stored = 0
    OBVIOUS
  <1>1. StoredBy = {} /\ FailedGet = {}
    BY DEF Init, StoredBy, FailedGet
  <1> QED BY <1>1, FS_EmptySet DEF Init, Stored

\* The two counting semaphores block as they should: whatever the
\* interleaving, the code refines a counter that moves by one within bounds.
THEOREM Counting == Spec => CountsItems
  <1>1. Init => Count!Init
    BY InitStored DEF Count!Init
  <1>2. LockInv /\ SlotsAccountedFor /\ [Next]_vars => [Count!Next]_Stored
    BY NextStored DEF Count!Next, Count!Add, Count!Remove
  <1> QED BY <1>1, <1>2, LockInvariant, Accounting, PTL
          DEF Spec, CountsItems, Count!Spec
-----------------------------------------------------------------------------
(* The index a producer computes. *)

LEMMA InitGap == Init => NoGap
  BY DEF Init, NoGap

LEMMA NextGap ==
    ASSUME LockInv, SlotsAccountedFor, NoGap, [Next]_vars
    PROVE  NoGap'
  <1> SUFFICES ASSUME NEW u \in Threads, pc'[u] = "put_store"
               PROVE  /\ num_items'[u] <= Stored'
                      /\ Stored' < num_items'[u] + Cardinality(Threads)
                      /\ Stored' < ARRAY_SIZE
    BY DEF NoGap
  <1>1. CASE UNCHANGED vars
    BY <1>1 DEF NoGap, Stored, StoredBy, FailedGet, vars
  <1>2. ASSUME NEW t \in Threads, Call(t)
        PROVE  pc[u] = "put_store" /\ UNCHANGED <<Stored, num_items>>
    BY <1>2, CallCounts
       DEF Call, CallPut, CallGet, Goto, LockInv, TypeOK, Stored
  <1>3. CASE PutItems(u)
    <2>1. num_items'[u] = full /\ Stored' = Stored
      BY <1>3, OthersKeep
         DEF PutItems, PutStep, PutStore, GetCopy, At, LockInv, TypeOK
    <2>2. /\ Stored < ARRAY_SIZE /\ FailedGet = {}
          /\ Cardinality(StoredBy) < Cardinality(Threads)
      BY <1>3, RoomForPut DEF PutItems, At
    <2>3. Stored = full + Cardinality(StoredBy)
      BY <2>2, FS_EmptySet, FiniteSubsets DEF Stored, LockInv, TypeOK
    <2> QED BY <2>1, <2>2, <2>3, FiniteSubsets, ThreadsAssumption,
               FS_CardinalityType DEF LockInv, TypeOK
  <1>4. ASSUME NEW t \in Threads, PutStep(t) \/ GetStep(t), ~ PutItems(u)
        PROVE  pc[u] = "put_store" /\ UNCHANGED <<Stored, num_items[u]>>
    <2> USE DEF LockInv, TypeOK, At, Goto, Return, callVars
    <2>1. t # u /\ pc[u] = "put_store" /\ num_items'[u] = num_items[u]
      BY <1>4 DEF PutStep, GetStep, WaitEmpty, PutLock, PutTooLong, PutItems,
                  PutStore, PutUnlock, PostFull, WaitFull, GetLock, GetNull,
                  GetCopy, GetUnlock, PostEmpty
    <2>2. ~ PutStore(t) /\ ~ GetCopy(t)
      BY <2>1 DEF MutualExclusion, Owners, Critical, PutStore, GetCopy
    <2> QED BY <1>4, <2>1, <2>2, OthersKeep
  <1> QED BY <1>1, <1>2, <1>3, <1>4 DEF Next, Call, NoGap

\* Whatever the interleaving, a put writes at most at the next open slot, and
\* fewer than Cardinality(Threads) slots short of it.
THEOREM NoGapTheorem == Spec => []NoGap
  BY InitGap, NextGap, LockInvariant, Accounting, PTL DEF Spec
-----------------------------------------------------------------------------
(* The array as a FIFO queue, when puts are kept away from all other calls. *)

\* What PhasedNext keeps true: while a put is in progress every other thread
\* is between calls, and the value it read with sem_getvalue is still right.
\* Without it the index of a put may fall short of the next open slot.
Phased ==
    /\ \A t, u \in Threads : Putting(t) /\ u # t => Idle(u)
    /\ \A t \in Threads : pc[t] = "put_store" => num_items[t] = full

PhasedInv == LockInv /\ SlotsAccountedFor /\ Phased

LEMMA PhasedIsNext == PhasedNext => Next
  BY DEF PhasedNext, Next

LEMMA InitPhased == Init => PhasedInv
  BY InitLock, InitSlots DEF PhasedInv, Phased, Putting, PutSteps, Init

\* A call moves its thread to the front of a semaphore, and only when the
\* callers' agreement allows it.
LEMMA CallPhased ==
    ASSUME PhasedInv, NEW t \in Threads,
           \/ /\ \A u \in Threads : Idle(u)
              /\ \E h \in Hostnames : CallPut(t, h)
           \/ /\ \A u \in Threads : ~ Putting(u)
              /\ \E d \in Targets : CallGet(t, d)
    PROVE  Phased'
  BY DEF PhasedInv, LockInv, TypeOK, Phased, Putting, Idle, PutSteps, GetSteps,
         CallPut, CallGet, At, Goto, semVars

\* Steps of a thread inside array_put: all others are idle and stay so.
LEMMA PutStepPhased ==
    ASSUME PhasedInv, NEW t \in Threads, PutStep(t)
    PROVE  Phased'
  <1> USE DEF PhasedInv, LockInv, TypeOK, Phased, Putting, Idle, PutSteps, At, Goto, Return,
              semVars, callVars
  <1>1. CASE WaitEmpty(t)  BY <1>1 DEF WaitEmpty
  <1>2. CASE PutLock(t)    BY <1>2 DEF PutLock
  <1>3. CASE PutTooLong(t) BY <1>3 DEF PutTooLong
  <1>4. CASE PutItems(t)   BY <1>4 DEF PutItems
  <1>5. CASE PutStore(t)   BY <1>5 DEF PutStore
  <1>6. CASE PutUnlock(t)  BY <1>6 DEF PutUnlock
  <1>7. CASE PostFull(t)   BY <1>7 DEF PostFull
  <1> QED BY <1>1, <1>2, <1>3, <1>4, <1>5, <1>6, <1>7 DEF PutStep

\* While a thread is inside array_get no put is in progress.
LEMMA GetStepPhased ==
    ASSUME PhasedInv, NEW t \in Threads, GetStep(t)
    PROVE  Phased'
  <1> USE DEF PhasedInv, LockInv, TypeOK, Phased, Putting, Idle, PutSteps, GetSteps, At, Goto,
              Return
  <1>1. pc[t] \in GetSteps /\ pc'[t] \in GetSteps \cup {"idle"}
        /\ \A u \in Threads : u # t => pc'[u] = pc[u]
    BY DEF GetStep, WaitFull, GetLock, GetNull, GetCopy, GetUnlock, PostEmpty
  <1>2. \A u \in Threads : ~ Putting(u)
    BY <1>1
  <1> QED BY <1>1, <1>2

LEMMA NextPhased == PhasedInv /\ [PhasedNext]_vars => PhasedInv'
  <1> SUFFICES ASSUME PhasedInv, [PhasedNext]_vars
               PROVE  PhasedInv'
    OBVIOUS
  <1>1. LockInv' /\ SlotsAccountedFor'
    BY PhasedIsNext, NextLock, NextSlots DEF PhasedInv
  <1>2. CASE UNCHANGED vars
    BY <1>1, <1>2 DEF PhasedInv, Phased, Putting, Idle, vars
  <1>3. CASE PhasedNext
    <2>1. Phased'
      BY <1>3, CallPhased, PutStepPhased, GetStepPhased DEF PhasedNext
    <2> QED BY <1>1, <2>1 DEF PhasedInv
  <1> QED BY <1>2, <1>3

LEMMA PhasedInvariant == PhasedSpec => []PhasedInv
  BY InitPhased, NextPhased, PTL DEF PhasedSpec

LEMMA UnreadIsRing == Unread = Ring(arr, head, Stored, ARRAY_SIZE)
  BY DEF Unread, Ring

LEMMA StoredBound ==
    ASSUME LockInv, SlotsAccountedFor
    PROVE  Stored \in 0 .. ARRAY_SIZE
  <1>1. StoredBy \subseteq InTransit /\ FailedGet \subseteq Failed
    BY DEF StoredBy, InTransit, FailedGet, Failed
  <1>2. /\ Cardinality(StoredBy) <= Cardinality(InTransit)
        /\ Cardinality(FailedGet) <= Cardinality(Failed)
    BY <1>1, FiniteSubsets, FS_Subset
  <1> QED BY <1>2, FiniteSubsets, SizeAssumption
          DEF LockInv, TypeOK, Stored, SlotsAccountedFor

\* In a phased run nothing is in transit but the put's own credit.
LEMMA IndexIsExact ==
    ASSUME PhasedInv, NEW t \in Threads, pc[t] = "put_store"
    PROVE  num_items[t] = Stored /\ Stored < ARRAY_SIZE
  <1>1. StoredBy = {}
    BY DEF PhasedInv, Phased, Putting, Idle, PutSteps, StoredBy
  <1>2. FailedGet = {} /\ Stored < ARRAY_SIZE
    BY RoomForPut DEF PhasedInv
  <1>3. Stored = full
    BY <1>1, <1>2, FS_EmptySet DEF Stored, PhasedInv, LockInv, TypeOK
  <1> QED BY <1>2, <1>3 DEF PhasedInv, Phased

LEMMA StoreIsPut ==
    ASSUME PhasedInv, NEW t \in Threads, PutStore(t)
    PROVE  arg[t] \in Hostnames /\ FIFO!Put(arg[t])
  <1> DEFINE host == arg[t]
  <1>1. num_items[t] = Stored /\ Stored \in 0 .. ARRAY_SIZE - 1
    BY IndexIsExact, StoredBound, SizeAssumption DEF PhasedInv, PutStore, At
  <1>2. /\ arr' = [arr EXCEPT ![(head + Stored) % ARRAY_SIZE] = host]
        /\ head' = head /\ Stored' = Stored + 1 /\ got' = got
    BY <1>1, PutStoreAdds DEF PhasedInv, PutStore, callVars
  <1>3. /\ head \in 0 .. ARRAY_SIZE - 1
        /\ DOMAIN arr = 0 .. ARRAY_SIZE - 1
        /\ host \in Hostnames
    BY DEF PhasedInv, LockInv, TypeOK, PutArgument, PutStore, At, PutSteps, Slots
  <1> HIDE DEF host
  <1>4. Unread' = Ring(arr', head, Stored + 1, ARRAY_SIZE)
    BY <1>2 DEF Unread, Ring
  <1>5. /\ ARRAY_SIZE \in Nat \ {0} /\ DOMAIN arr = 0 .. ARRAY_SIZE - 1
        /\ head \in 0 .. ARRAY_SIZE - 1 /\ Stored \in 0 .. ARRAY_SIZE - 1
    BY <1>1, <1>3, SizeAssumption
  <1>6. Ring([arr EXCEPT ![(head + Stored) % ARRAY_SIZE] = host],
             head, Stored + 1, ARRAY_SIZE)
          = Append(Ring(arr, head, Stored, ARRAY_SIZE), host)
    BY <1>5, RingAppend, Zenon
  <1>7. Unread' = Append(Unread, host)
    BY <1>2, <1>4, <1>6, UnreadIsRing
  <1>8. Len(Unread) < ARRAY_SIZE
    BY <1>1, UnreadIsRing, RingLength, SizeAssumption
  <1> QED BY <1>2, <1>3, <1>7, <1>8 DEF FIFO!Put, host

LEMMA CopyIsGet ==
    ASSUME PhasedInv, NEW t \in Threads, GetCopy(t)
    PROVE  FIFO!Get(t)
  <1>1. Stored \in 0 .. ARRAY_SIZE /\ Stored > 0 /\ Stored' = Stored - 1
    BY GetCopyRemoves, StoredBound DEF PhasedInv
  <1>2. /\ head' = (head + 1) % ARRAY_SIZE /\ arr' = arr
        /\ got' = [got EXCEPT ![t] = arr[head]]
    BY DEF GetCopy
  <1>3. head \in 0 .. ARRAY_SIZE - 1
    BY DEF PhasedInv, LockInv, TypeOK, Slots
  <1>4. Unread' = Ring(arr, (head + 1) % ARRAY_SIZE, Stored - 1, ARRAY_SIZE)
    BY <1>1, <1>2 DEF Unread, Ring
  <1>5. /\ Unread # << >> /\ Head(Unread) = arr[head]
        /\ Unread' = Tail(Unread)
    BY <1>1, <1>3, <1>4, SizeAssumption, UnreadIsRing, RingTail
  <1> QED BY <1>2, <1>5 DEF FIFO!Get

\* Calls and all other steps of calls leave the queue alone.
LEMMA OthersKeepQueue ==
    ASSUME LockInv, NEW t \in Threads,
           \/ Call(t)
           \/ (PutStep(t) \/ GetStep(t)) /\ ~ PutStore(t) /\ ~ GetCopy(t)
    PROVE  UNCHANGED <<Unread, got>>
  <1>1. UNCHANGED <<arr, head, got>>
    BY DEF Call, CallPut, CallGet, PutStep, GetStep, WaitEmpty, PutLock, PutTooLong, PutItems,
           PutUnlock, PostFull, WaitFull, GetLock, GetNull, GetUnlock, PostEmpty, ringVars,
           callVars
  <1>2. Stored' = Stored
    BY OthersKeep, CallCounts DEF Stored
  <1> QED BY <1>1, <1>2 DEF Unread

LEMMA PhasedStep ==
    PhasedInv /\ [PhasedNext]_vars => [FIFO!Next]_(FIFO!fifoVars)
  <1> SUFFICES ASSUME PhasedInv, [PhasedNext]_vars
               PROVE  FIFO!Next \/ UNCHANGED <<Unread, got>>
    BY DEF FIFO!fifoVars
  <1>1. CASE UNCHANGED vars
    BY <1>1 DEF vars, Unread, Stored, StoredBy, FailedGet
  <1>2. ASSUME NEW t \in Threads, PutStore(t)
        PROVE  FIFO!Next
    BY <1>2, StoreIsPut DEF FIFO!Next
  <1>3. ASSUME NEW t \in Threads, GetCopy(t)
        PROVE  FIFO!Next
    BY <1>3, CopyIsGet DEF FIFO!Next
  <1>4. ASSUME NEW t \in Threads,
               \/ Call(t)
               \/ (PutStep(t) \/ GetStep(t)) /\ ~ PutStore(t) /\ ~ GetCopy(t)
        PROVE  UNCHANGED <<Unread, got>>
    BY <1>4, OthersKeepQueue DEF PhasedInv
  <1> QED BY <1>1, <1>2, <1>3, <1>4 DEF PhasedNext, Call

LEMMA InitFIFO == Init => FIFO!Init
  <1> SUFFICES ASSUME Init PROVE FIFO!Init
    OBVIOUS
  <1>1. Unread = << >>
    BY InitStored DEF Unread
  <1> QED BY <1>1 DEF FIFO!Init, Init

\* When the callers keep puts away from all other calls, whatever the
\* overlap of the gets, the array is the queue array.h calls it: a put
\* appends, a get hands out the oldest hostname, nothing is overwritten.
THEOREM PhasedFIFO == PhasedSpec => IsFIFO
  <1>1. PhasedSpec => []PhasedInv
    BY PhasedInvariant
  <1> QED BY <1>1, InitFIFO, PhasedStep, PTL DEF PhasedSpec, IsFIFO, FIFO!Spec
=============================================================================
