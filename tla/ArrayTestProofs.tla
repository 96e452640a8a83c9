-------------------------- MODULE ArrayTestProofs --------------------------
(***************************************************************************)
(* Theorems about ArrayTest, for every number of threads, items and slots. *)
(***************************************************************************)
EXTENDS ArrayTest, SharedArrayProofs, FunctionTheorems

\* Where main can be, and what can become of a thread.
MainStates == {"init", "free_failed", "spawn", "join", "free", "return"} \cup Ended
Lives      == {"none", "running", "exited", "absent"}
Gone(t)    == life[t] \in {"exited", "absent"}

TestTypes == /\ main \in MainStates
             /\ next \in 0 .. NUM_THREADS - 1
             /\ life \in [Threads -> Lives]
             /\ count \in [Threads -> 0 .. NUM_ITEMS]

\* The threads main has started and joined so far.
Progress == /\ main \in {"init", "free_failed"} => \A t \in Threads : life[t] = "none"
            /\ main = "spawn" => \A t \in Threads : t >= next => life[t] = "none"
            /\ main = "join" => \A t \in Threads : t < next => Gone(t)
            /\ main \in {"free", "return", "returned"} => \A t \in Threads : Gone(t)

\* Only a running thread is inside a call, and only in its own routine's; no
\* call fails, so that a thread which has left its loop has finished it.
Routines == \A t \in Threads :
               /\ ret[t] = "ok"
               /\ ~ Idle(t) => life[t] = "running" /\ count[t] < NUM_ITEMS
               /\ pc[t] \in PutSteps => Produces(t)
               /\ pc[t] \in GetSteps => ~ Produces(t) /\ arg[t] = BUFFER
               /\ life[t] = "exited" => count[t] = NUM_ITEMS

\* The memory of the array while threads can be using it.
Memory == main \in {"spawn", "join", "free"} => live = Slots

\* An array_init that fails keeps the mutex, and array_free waits for it: that
\* process never comes to use the array.
Semaphores == /\ main # "free_failed" => LockInv /\ SlotsAccountedFor
              /\ main = "free_failed" => mutex = 0

\* The items of producers that have reached "full", and those consumers have
\* taken from it: by a finished array_get or by the one in progress.
Holds(t)  == IF pc[t] \in GetSteps \ {"wait_full"} THEN count[t] + 1 ELSE count[t]
Items     == 1 .. NUM_ITEMS
GivenFull == {p \in Threads \X Items : Produces(p[1]) /\ p[2] <= count[p[1]]}
TakenFull == {p \in Threads \X Items : ~ Produces(p[1]) /\ p[2] <= Holds(p[1])}

\* "full" is what was given and not yet taken: the link between the loops of
\* the threads and the semaphore, without which nothing says it ends at 0.
Balance == full + Cardinality(TakenFull) = Cardinality(GivenFull)

TestInv == TestTypes /\ Progress /\ Routines /\ Memory /\ Semaphores /\ Balance
-----------------------------------------------------------------------------
LEMMA NumberTypes ==
    /\ NUM_THREADS \in Nat \ {0} /\ NUM_ITEMS \in Nat /\ Threads = 0 .. NUM_THREADS - 1
    /\ \A t \in Threads : t \in Int
  BY ThreadNumbers

LEMMA GridFinite == IsFiniteSet(Threads \X Items)
  <1>1. IsFiniteSet(Threads) /\ IsFiniteSet(Items)
    BY NumberTypes, FS_Interval DEF Items
  <1> QED BY <1>1, FS_Product

LEMMA PairsFinite ==
    /\ IsFiniteSet(GivenFull) /\ Cardinality(GivenFull) \in Nat
    /\ IsFiniteSet(TakenFull) /\ Cardinality(TakenFull) \in Nat
  <1>1. GivenFull \subseteq Threads \X Items /\ TakenFull \subseteq Threads \X Items
    BY DEF GivenFull, TakenFull
  <1> QED BY <1>1, GridFinite, FS_Subset, FS_CardinalityType

LEMMA BeginInv == TestInit => TestInv
  <1> SUFFICES ASSUME TestInit PROVE TestInv
    OBVIOUS
  <1> USE DEF TestInit, Init
  <1>1. TestTypes
    BY NumberTypes DEF TestTypes, MainStates, Lives
  <1>2. Progress /\ Memory
    BY DEF Progress, Memory
  <1>3. Routines
    BY DEF Routines, Idle, PutSteps, GetSteps
  <1>4. Semaphores
    BY InitLock, InitSlots DEF Semaphores
  <1>5. Balance
    <2>1. GivenFull = {} /\ TakenFull = {}
      BY NumberTypes DEF GivenFull, TakenFull, Holds, Items, GetSteps
    <2> QED BY <2>1, FS_EmptySet DEF Balance
  <1> QED BY <1>1, <1>2, <1>3, <1>4, <1>5 DEF TestInv

\* What leaves the array alone keeps what is known about it.
LEMMA ArrayKept ==
    ASSUME LockInv, SlotsAccountedFor, UNCHANGED vars
    PROVE  LockInv' /\ SlotsAccountedFor'
  BY NextLock, NextSlots

LEMMA BalanceKept ==
    ASSUME Balance, UNCHANGED <<full, pc, count>>
    PROVE  Balance'
  BY DEF Balance, GivenFull, TakenFull, Holds

LEMMA RoutinesKept ==
    ASSUME Routines, UNCHANGED <<ret, pc, arg, count, life>>
    PROVE  Routines'
  BY DEF Routines, Idle
-----------------------------------------------------------------------------
(* main *)

LEMMA ArrayInitInv ==
    ASSUME TestInv, ArrayInit \/ ArrayInitFails
    PROVE  TestInv'
  <1> USE DEF ArrayInit, ArrayInitFails
  <1>1. UNCHANGED <<full, pc, arg, ret, next, life, count>>
    BY DEF vars, callVars
  <1>2. TestTypes' /\ Progress' /\ Memory'
    BY <1>1 DEF TestInv, TestTypes, MainStates, Progress, Memory
  <1>3. Routines' /\ Balance'
    BY <1>1, RoutinesKept, BalanceKept DEF TestInv
  <1>4. Semaphores'
    BY ArrayKept DEF TestInv, Semaphores
  <1> QED BY <1>2, <1>3, <1>4 DEF TestInv

LEMMA AdvanceFacts ==
    ASSUME TestTypes, NEW loop, NEW after, loop # after, Advance(loop, after)
    PROVE  /\ next' \in 0 .. NUM_THREADS - 1
           /\ main' = loop  => next' = next + 1
           /\ main' = after => next' = 0 /\ next + 1 = NUM_THREADS
           /\ main' \in {loop, after}
  BY NumberTypes DEF Advance, TestTypes

LEMMA CreateThreadInv ==
    ASSUME TestInv, CreateThread
    PROVE  TestInv'
  <1>1. /\ main = "spawn" /\ UNCHANGED vars /\ UNCHANGED <<live, count>>
        /\ next \in Threads
        /\ \/ life' = [life EXCEPT ![next] = "running"]
           \/ life' = [life EXCEPT ![next] = "absent"]
    BY NumberTypes DEF CreateThread, TestInv, TestTypes
  <1>2. /\ next' \in 0 .. NUM_THREADS - 1
        /\ main' = "spawn" => next' = next + 1
        /\ main' = "join"  => next' = 0
        /\ main' \in {"spawn", "join"}
    BY AdvanceFacts DEF CreateThread, TestInv
  <1>3. TestTypes'
    BY <1>1, <1>2 DEF TestInv, TestTypes, MainStates, Lives
  <1>4. Progress'
    BY <1>1, <1>2, NumberTypes DEF TestInv, TestTypes, Progress
  <1>5. life[next] = "none"
    BY <1>1, NumberTypes DEF TestInv, Progress
  <1>6. Routines'
    BY <1>1, <1>5 DEF TestInv, TestTypes, Routines, Idle, vars
  <1>7. Memory' /\ Semaphores'
    BY <1>1, <1>2, ArrayKept DEF TestInv, Memory, Semaphores
  <1>8. Balance'
    BY <1>1, BalanceKept DEF TestInv, vars
  <1> QED BY <1>3, <1>4, <1>6, <1>7, <1>8 DEF TestInv

\* Every other step of main leaves the array and the threads as they are.
LEMMA MainRestInv ==
    ASSUME TestInv, ArgsMallocFails \/ JoinThread \/ ArrayFree \/ Return0
    PROVE  TestInv'
  <1>1. UNCHANGED vars /\ UNCHANGED <<life, count>> /\ main # "free_failed" /\ main' # "free_failed"
    BY AdvanceFacts
       DEF ArgsMallocFails, JoinThread, ArrayFree, Return0, TestInv, Semaphores
  <1>2. TestTypes'
    <2>1. CASE JoinThread
      BY <2>1, <1>1, AdvanceFacts DEF JoinThread, TestInv, TestTypes, MainStates, Ended
    <2>2. CASE ArgsMallocFails \/ ArrayFree \/ Return0
      BY <2>2, <1>1 DEF ArgsMallocFails, ArrayFree, Return0, TestInv, TestTypes, MainStates, Ended
    <2> QED BY <2>1, <2>2
  <1>3. Progress' /\ Memory'
    <2>1. CASE JoinThread
      <3>1. main = "join" /\ live' = live /\ life' = life /\ Gone(next)
        BY <2>1 DEF JoinThread, Gone
      <3>2. CASE Advance("join", "free")
        BY <3>1, <3>2, AdvanceFacts, NumberTypes
           DEF TestInv, TestTypes, Progress, Memory, Gone
      <3>3. CASE main' = "fault"
        BY <3>3 DEF Progress, Memory
      <3> QED BY <2>1, <3>2, <3>3 DEF JoinThread
    <2>2. CASE ArgsMallocFails \/ ArrayFree \/ Return0
      BY <2>2, <1>1
         DEF ArgsMallocFails, ArrayFree, Return0, TestInv, Progress, Memory, Gone
    <2> QED BY <2>1, <2>2
  <1>4. Routines' /\ Balance'
    BY <1>1, RoutinesKept, BalanceKept DEF TestInv, vars, callVars
  <1>5. Semaphores'
    BY <1>1, ArrayKept DEF TestInv, Semaphores
  <1> QED BY <1>2, <1>3, <1>4, <1>5 DEF TestInv
-----------------------------------------------------------------------------
(* The threads *)

\* A thread acts only while it runs, so after main started it and before it
\* was joined: the array is there.
LEMMA Acting ==
    ASSUME TestInv, NEW t \in Threads, life[t] = "running", Alive
    PROVE  /\ LockInv /\ SlotsAccountedFor /\ main # "free_failed"
           /\ main \in {"spawn", "join"} /\ live = Slots
  <1>1. main \notin {"init", "free_failed", "free", "return", "returned"}
    BY DEF TestInv, Progress, Gone
  <1>2. main \in {"spawn", "join"}
    BY <1>1 DEF TestInv, TestTypes, MainStates, Alive, Ended
  <1> QED BY <1>2 DEF TestInv, Semaphores, Memory

LEMMA ExitInv ==
    ASSUME TestInv, NEW t \in Threads, ExitThread(t)
    PROVE  TestInv'
  <1>1. /\ UNCHANGED vars /\ UNCHANGED <<main, next, live, count>>
        /\ life[t] = "running" /\ Idle(t) /\ count[t] = NUM_ITEMS
        /\ life' = [life EXCEPT ![t] = "exited"]
    BY DEF ExitThread, TestInv, Routines
  <1>2. LockInv /\ SlotsAccountedFor /\ main \in {"spawn", "join"}
    BY <1>1, Acting DEF ExitThread
  <1>3. TestTypes' /\ Progress' /\ Memory'
    BY <1>1, <1>2 DEF TestInv, TestTypes, Lives, Progress, Gone, Memory
  <1>4. Routines'
    BY <1>1 DEF TestInv, TestTypes, Routines, Idle, vars
  <1>5. Balance' /\ Semaphores'
    BY <1>1, <1>2, ArrayKept, BalanceKept DEF TestInv, Semaphores, vars
  <1> QED BY <1>3, <1>4, <1>5 DEF TestInv

LEMMA FaultInv ==
    ASSUME TestInv, NEW t \in Threads, CopyFaults(t)
    PROVE  TestInv'
  <1>1. /\ UNCHANGED vars /\ UNCHANGED <<next, live, life, count>>
        /\ main' = "fault" /\ ~ Idle(t)
    BY DEF CopyFaults, At, Idle
  <1>2. life[t] = "running"
    BY <1>1 DEF TestInv, Routines
  <1>3. LockInv /\ SlotsAccountedFor
    BY <1>2, Acting DEF CopyFaults
  <1>4. TestTypes' /\ Progress' /\ Memory'
    BY <1>1 DEF TestInv, TestTypes, MainStates, Ended, Progress, Memory
  <1>5. Routines' /\ Balance' /\ Semaphores'
    BY <1>1, <1>3, ArrayKept, RoutinesKept, BalanceKept
       DEF TestInv, Semaphores, vars, callVars
  <1> QED BY <1>4, <1>5 DEF TestInv

\* Beginning a call moves nothing but the thread and its argument.
LEMMA BeginInvCall ==
    ASSUME TestInv, NEW t \in Threads, Produce(t) \/ Consume(t)
    PROVE  TestInv'
  <1>1. /\ UNCHANGED testVars /\ life[t] = "running" /\ Alive
        /\ Idle(t) /\ count[t] < NUM_ITEMS
        /\ Call(t)
        /\ UNCHANGED <<full, ret>>
    BY OneHostname DEF Produce, Consume, Looping, Call, CallPut, CallGet, semVars
  <1>2. LockInv /\ SlotsAccountedFor /\ main # "free_failed"
    BY <1>1, Acting
  <1>3. \/ /\ Produces(t) /\ pc' = [pc EXCEPT ![t] = "wait_empty"]
           /\ \E h \in Hostnames : arg' = [arg EXCEPT ![t] = h]
        \/ /\ ~ Produces(t) /\ pc' = [pc EXCEPT ![t] = "wait_full"]
           /\ arg' = [arg EXCEPT ![t] = BUFFER]
    BY DEF Produce, Consume, CallPut, CallGet, Goto
  <1>4. pc \in [Threads -> PutSteps \cup GetSteps \cup {"idle"}]
        /\ arg \in [Threads -> Hostnames \cup {BUFFER, NULL}]
    BY <1>2 DEF LockInv, TypeOK
  <1>5. TestTypes' /\ Progress' /\ Memory'
    BY <1>1 DEF testVars, TestInv, TestTypes, Progress, Gone, Memory
  <1>6. Routines'
    BY <1>1, <1>3, <1>4 DEF testVars, TestInv, Routines, Idle, PutSteps, GetSteps
  <1>7. Semaphores'
    <2>1. Next
      BY <1>1 DEF Next, Call
    <2> QED BY <1>1, <1>2, <2>1, NextLock, NextSlots DEF Semaphores, testVars
  <1>8. Balance'
    <2>1. \A u \in Threads : Holds(u)' = Holds(u)
      BY <1>1, <1>3, <1>4 DEF testVars, Holds, Idle, GetSteps
    <2>2. GivenFull' = GivenFull /\ TakenFull' = TakenFull
      BY <1>1, <2>1 DEF testVars, GivenFull, TakenFull
    <2> QED BY <1>1, <2>2 DEF TestInv, Balance
  <1> QED BY <1>5, <1>6, <1>7, <1>8 DEF TestInv

\* The shape of a step inside a call: it moves its own thread along its
\* routine's call, returns from the last step only, and never fails.
LEMMA CallStepShape ==
    ASSUME TestInv, NEW t \in Threads, InCall(t)
    PROVE  /\ LockInv /\ SlotsAccountedFor /\ main # "free_failed"
           /\ ~ Idle(t) /\ life[t] = "running" /\ count[t] < NUM_ITEMS
           /\ pc' = [pc EXCEPT ![t] = pc'[t]]
           /\ Produces(t) => pc[t] \in PutSteps /\ pc'[t] \in PutSteps \cup {"idle"}
           /\ ~ Produces(t) => /\ pc[t] \in GetSteps
                               /\ pc'[t] \in (GetSteps \ {"wait_full"}) \cup {"idle"}
           /\ pc'[t] = "idle" => pc[t] \in {"post_full", "post_empty"}
           /\ \A u \in Threads : ret'[u] = "ok"
           /\ \A u \in Threads \ {t} : arg'[u] = arg[u]
           /\ pc'[t] # "idle" => arg'[t] = arg[t]
           /\ full' = IF pc[t] = "wait_full" THEN full - 1
                      ELSE IF pc[t] = "post_full" THEN full + 1 ELSE full
  <1>1. ~ Idle(t)
    BY DEF InCall, PutStep, GetStep, WaitEmpty, PutLock, PutTooLong, PutItems, PutStore,
           PutUnlock, PostFull, WaitFull, GetLock, GetNull, GetCopy, GetUnlock, PostEmpty, At,
           Idle
  <1>2. life[t] = "running" /\ count[t] < NUM_ITEMS
    BY <1>1 DEF TestInv, Routines
  <1>3. LockInv /\ SlotsAccountedFor /\ main # "free_failed"
    BY <1>2, Acting DEF InCall
  <1>4. pc \in [Threads -> PutSteps \cup GetSteps \cup {"idle"}]
        /\ arg \in [Threads -> Hostnames \cup {BUFFER, NULL}]
        /\ ret \in [Threads -> Outcomes]
        /\ \A u \in Threads : ret[u] = "ok"
        /\ (pc[t] \in PutSteps => Produces(t))
        /\ (pc[t] \in GetSteps => ~ Produces(t) /\ arg[t] # NULL)
    BY <1>3, OneHostname DEF LockInv, TypeOK, TestInv, Routines
  <1> HIDE DEF Produces, TestInv
  <1> USE DEF At, Goto, Return, PutSteps, GetSteps, semVars, callVars, Idle
  <1>5. CASE PutStep(t)
    <2>1. ~ PutTooLong(t)
      BY OneHostname DEF PutTooLong
    <2> QED BY <1>1, <1>2, <1>3, <1>4, <1>5, <2>1
            DEF PutStep, WaitEmpty, PutLock, PutItems, PutStore, PutUnlock, PostFull
  <1>6. CASE GetStep(t)
    <2>1. ~ GetNull(t)
      BY <1>4 DEF GetNull
    <2> QED BY <1>1, <1>2, <1>3, <1>4, <1>6, <2>1
            DEF GetStep, WaitFull, GetLock, GetCopy, GetUnlock, PostEmpty
  <1> QED BY <1>5, <1>6 DEF InCall

\* Taking from "full" and giving to it are counted where they happen, and a
\* return counts what its thread held before.
LEMMA CallStepBalance ==
    ASSUME TestInv, NEW t \in Threads, InCall(t)
    PROVE  Balance'
  <1> DEFINE mine == <<t, count[t] + 1>>
  <1>1. /\ pc \in [Threads -> PutSteps \cup GetSteps \cup {"idle"}]
        /\ count \in [Threads -> 0 .. NUM_ITEMS] /\ full \in Nat
        /\ count[t] < NUM_ITEMS
    BY CallStepShape DEF TestInv, TestTypes, LockInv, TypeOK
  <1>2. count' = IF pc'[t] = "idle" THEN [count EXCEPT ![t] = @ + 1] ELSE count
    BY DEF InCall
  <1>3. mine \in Threads \X Items
    BY <1>1, NumberTypes DEF Items
  <1>4. \A u \in Threads \ {t} : count'[u] = count[u] /\ Holds(u)' = Holds(u)
    BY <1>1, <1>2, CallStepShape DEF Holds
  <1>5. full + Cardinality(TakenFull) = Cardinality(GivenFull)
    BY DEF TestInv, Balance
  <1>6. CASE pc[t] = "wait_full"
    <2>1. ~ Produces(t) /\ pc'[t] \in GetSteps \ {"wait_full"}
      <3>1. ~ Produces(t)
        BY <1>6, CallStepShape DEF PutSteps
      <3>2. pc'[t] # "idle"
        BY <1>6, CallStepShape
      <3> QED BY <3>1, <3>2, CallStepShape
    <2>2. count' = count
      BY <1>2, <2>1 DEF GetSteps
    <2>3. Holds(t) = count[t] /\ Holds(t)' = count[t] + 1
      BY <1>6, <2>1, <2>2 DEF Holds
    <2>4. GivenFull' = GivenFull
      BY <2>2 DEF GivenFull
    <2>5. TakenFull' = TakenFull \cup {mine} /\ mine \notin TakenFull
      <3>1. \A u \in Threads, i \in Items :
               i <= Holds(u)' <=> i <= Holds(u) \/ (u = t /\ i = count[t] + 1)
        BY <1>1, <1>4, <2>3 DEF Items
      <3>2. \A p \in Threads \X Items :
               p[2] <= Holds(p[1])' <=> p[2] <= Holds(p[1]) \/ p = mine
        BY <3>1
      <3>3. ~ (mine[2] <= Holds(mine[1]))
        BY <1>1, <2>3
      <3> QED BY <1>3, <2>1, <3>2, <3>3 DEF TakenFull
    <2>6. full' = full - 1
      BY <1>6, CallStepShape
    <2>7. Cardinality(TakenFull') = Cardinality(TakenFull) + 1
      BY <2>5, PairsFinite, Joins
    <2> QED BY <1>1, <1>5, <2>4, <2>6, <2>7, PairsFinite DEF Balance
  <1>7. CASE pc[t] = "post_full"
    <2>1. /\ Produces(t) /\ pc'[t] = "idle" /\ count'[t] = count[t] + 1
      <3>1. Produces(t)
        BY <1>7, CallStepShape DEF GetSteps
      <3>2. PostFull(t)
        BY <1>7 DEF InCall, PutStep, GetStep, WaitEmpty, PutLock, PutTooLong, PutItems,
                    PutStore, PutUnlock, WaitFull, GetLock, GetNull, GetCopy, GetUnlock,
                    PostEmpty, At
      <3> QED BY <3>1, <3>2, <1>1, <1>2 DEF PostFull, Return, Goto
    <2>2. GivenFull' = GivenFull \cup {mine} /\ mine \notin GivenFull
      BY <1>1, <1>3, <1>4, <2>1, NumberTypes DEF GivenFull, Items
    <2>3. TakenFull' = TakenFull
      BY <1>4, <2>1 DEF TakenFull
    <2>4. full' = full + 1
      BY <1>7, CallStepShape
    <2> QED BY <1>1, <1>5, <2>2, <2>3, <2>4, PairsFinite, Joins DEF Balance
  <1>8. CASE pc[t] \notin {"wait_full", "post_full"}
    <2>1. full' = full
      BY <1>8, CallStepShape
    <2>2. Produces(t) => count'[t] = count[t]
      BY <1>1, <1>2, <1>8, CallStepShape DEF PutSteps
    <2>3. ~ Produces(t) => Holds(t)' = Holds(t)
      BY <1>1, <1>2, <1>8, CallStepShape DEF Holds, GetSteps
    <2>4. GivenFull' = GivenFull /\ TakenFull' = TakenFull
      BY <1>4, <2>2, <2>3 DEF GivenFull, TakenFull
    <2> QED BY <1>5, <2>1, <2>4 DEF Balance
  <1> QED BY <1>6, <1>7, <1>8

LEMMA CallStepInv ==
    ASSUME TestInv, NEW t \in Threads, InCall(t)
    PROVE  TestInv'
  <1>1. /\ UNCHANGED <<main, next, live, life>>
        /\ count' = IF pc'[t] = "idle" THEN [count EXCEPT ![t] = @ + 1] ELSE count
        /\ count \in [Threads -> 0 .. NUM_ITEMS] /\ count[t] < NUM_ITEMS
    BY CallStepShape DEF InCall, TestInv, TestTypes
  <1>2. TestTypes' /\ Progress' /\ Memory'
    BY <1>1, NumberTypes DEF TestInv, TestTypes, Progress, Gone, Memory
  <1>3. Routines'
    <2>1. pc \in [Threads -> PutSteps \cup GetSteps \cup {"idle"}]
      BY CallStepShape DEF LockInv, TypeOK
    <2>2. \A u \in Threads \ {t} : pc'[u] = pc[u] /\ count'[u] = count[u] /\ arg'[u] = arg[u]
      BY <1>1, <2>1, CallStepShape
    <2>3. /\ ret'[t] = "ok" /\ life'[t] = "running"
          /\ pc'[t] # "idle" => count'[t] = count[t] /\ arg'[t] = arg[t]
          /\ pc'[t] \in PutSteps => Produces(t)
          /\ pc'[t] \in GetSteps => ~ Produces(t) /\ arg[t] = BUFFER
      BY <1>1, CallStepShape DEF TestInv, Routines, PutSteps, GetSteps
    <2>4. \A u \in Threads : ret'[u] = "ok"
      BY CallStepShape
    <2> QED BY <1>1, <2>2, <2>3, <2>4 DEF TestInv, Routines, Idle, PutSteps, GetSteps
  <1>4. Semaphores'
    <2>1. Next
      BY DEF InCall, Next
    <2> QED BY <1>1, <2>1, CallStepShape, NextLock, NextSlots DEF Semaphores
  <1> QED BY <1>2, <1>3, <1>4, CallStepBalance DEF TestInv
-----------------------------------------------------------------------------
LEMMA TestStepInv == TestInv /\ [TestNext]_allVars => TestInv'
  <1> SUFFICES ASSUME TestInv, [TestNext]_allVars
               PROVE  TestInv'
    OBVIOUS
  <1>1. CASE UNCHANGED allVars
    <2>1. UNCHANGED vars /\ UNCHANGED testVars
      BY <1>1 DEF allVars
    <2>2. TestTypes' /\ Progress' /\ Memory'
      BY <2>1 DEF testVars, TestInv, TestTypes, Progress, Gone, Memory
    <2>3. Routines' /\ Balance'
      BY <2>1, RoutinesKept, BalanceKept DEF TestInv, vars, callVars, testVars
    <2>4. Semaphores'
      BY <2>1, ArrayKept DEF TestInv, Semaphores, vars, testVars
    <2> QED BY <2>2, <2>3, <2>4 DEF TestInv
  <1>2. CASE Main
    BY <1>2, ArrayInitInv, CreateThreadInv, MainRestInv DEF Main
  <1>3. ASSUME NEW t \in Threads, Thread(t)
        PROVE  TestInv'
    BY <1>3, ExitInv, FaultInv, BeginInvCall, CallStepInv DEF Thread
  <1> QED BY <1>1, <1>2, <1>3 DEF TestNext

\* The loops, the semaphores and main move in step whatever the interleaving.
THEOREM TestInvariant == TestSpec => []TestInv
  BY BeginInv, TestStepInv, PTL DEF TestSpec

\* main joins every thread before it frees the array: no thread that is
\* between the mutex's lock and unlock ever sees freed slots.
THEOREM FreedAfterUse == TestSpec => []NoUseAfterFree
  <1>1. TestInv => NoUseAfterFree
    <2> SUFFICES ASSUME TestInv, NEW t \in Threads, Alive, pc[t] \in Critical
                 PROVE  live = Slots
      BY DEF NoUseAfterFree
    <2>1. life[t] = "running"
      BY DEF TestInv, Routines, Idle, Critical
    <2> QED BY <2>1, Acting
  <1> QED BY <1>1, TestInvariant, PTL

\* With an even number of threads every producer has its consumer.
LEMMA Paired ==
    ASSUME NUM_THREADS % 2 = 0
    PROVE  Cardinality({p \in Threads \X Items : Produces(p[1])})
             = Cardinality({p \in Threads \X Items : ~ Produces(p[1])})
  <1> DEFINE Made == {p \in Threads \X Items : Produces(p[1])}
             Used == {p \in Threads \X Items : ~ Produces(p[1])}
             f == [p \in Made |-> <<p[1] + 1, p[2]>>]
  <1>1. IsFiniteSet(Threads \X Items)
    BY GridFinite
  <1>2. IsFiniteSet(Made) /\ IsFiniteSet(Used)
    BY <1>1, FS_Subset
  <1>3. \A t \in Threads : Produces(t) => t + 1 \in Threads /\ ~ Produces(t + 1)
    BY NumberTypes DEF Produces
  <1>4. \A t \in Threads : ~ Produces(t) => t - 1 \in Threads /\ Produces(t - 1)
    BY NumberTypes DEF Produces
  <1>5. f \in [Made -> Used]
    BY <1>3
  <1>6. \A p, q \in Made : f[p] = f[q] => p = q
    <2> TAKE p, q \in Made
    <2>1. /\ p[1] \in Int /\ q[1] \in Int
          /\ p = <<p[1], p[2]>> /\ q = <<q[1], q[2]>>
      BY NumberTypes
    <2>2. f[p] = <<p[1] + 1, p[2]>> /\ f[q] = <<q[1] + 1, q[2]>>
      OBVIOUS
    <2> QED BY <2>1, <2>2
  <1>7. \A q \in Used : \E p \in Made : f[p] = q
    <2> TAKE q \in Used
    <2>1. <<q[1] - 1, q[2]>> \in Made /\ q = <<q[1], q[2]>> /\ q[1] \in Int
      BY <1>4, NumberTypes
    <2>2. f[<<q[1] - 1, q[2]>>] = q
      BY <2>1
    <2> QED BY <2>1, <2>2
  <1>8. f \in Bijection(Made, Used)
    BY <1>5, <1>6, <1>7, Fun_IsBij
  <1> QED BY <1>2, <1>8, FS_Bijection DEF ExistsBijection

\* Between them the threads put as many items as they take: when main comes to
\* free the array and no thread is missing, every item was taken and every
\* slot given back, however the calls overlapped.  The number of threads has
\* to be even, as the 8 of test.c is.
THEOREM Balanced ==
    ASSUME NUM_THREADS % 2 = 0
    PROVE  TestSpec => []Drained
  <1>1. TestInv => Drained
    <2> SUFFICES ASSUME TestInv, main = "free",
                        \A t \in Threads : life[t] # "absent"
                 PROVE  full = 0 /\ empty = ARRAY_SIZE
      BY DEF Drained
    <2>1. \A t \in Threads : Idle(t) /\ count[t] = NUM_ITEMS /\ ret[t] = "ok"
      BY DEF TestInv, Progress, Gone, Routines
    <2>2. /\ GivenFull = {p \in Threads \X Items : Produces(p[1])}
          /\ TakenFull = {p \in Threads \X Items : ~ Produces(p[1])}
      BY <2>1, NumberTypes DEF GivenFull, TakenFull, Holds, Idle, GetSteps, Items
    <2>3. Cardinality(GivenFull) = Cardinality(TakenFull)
      BY <2>2, Paired
    <2>4. LockInv /\ SlotsAccountedFor
      BY DEF TestInv, Semaphores
    <2>5. full = 0
      BY <2>3, <2>4, PairsFinite DEF TestInv, Balance, LockInv, TypeOK
    <2>6. InTransit = {} /\ Failed = {}
      BY <2>1 DEF InTransit, Failed, Idle
    <2>7. Cardinality(InTransit) = 0 /\ Cardinality(Failed) = 0
      BY <2>6, FS_EmptySet
    <2> QED BY <2>4, <2>5, <2>7 DEF SlotsAccountedFor, LockInv, TypeOK
  <1> QED BY <1>1, TestInvariant, PTL
=============================================================================
