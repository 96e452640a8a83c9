-------------------------- MODULE ThreadTestProofs -------------------------
(***************************************************************************)
(* Theorems about ThreadTest and its SemaphoreQueue, for any numbers of    *)
(* threads, iterations, producers, consumers, items and elements.          *)
(***************************************************************************)
EXTENDS ThreadTest, RingProofs, FiniteSetTheorems

LEMMA Joins ==
    ASSUME NEW S, NEW t, IsFiniteSet(S), t \notin S
    PROVE  Cardinality(S \cup {t}) = Cardinality(S) + 1
  BY FS_AddElement

LEMMA Leaves ==
    ASSUME NEW S, NEW t, IsFiniteSet(S), t \in S
    PROVE  /\ Cardinality(S \ {t}) = Cardinality(S) - 1
           /\ Cardinality(S \ {t}) \in Nat
  BY FS_RemoveElement, FS_CardinalityType

LEMMA Within ==
    ASSUME NEW S, NEW T, IsFiniteSet(T), S \subseteq T
    PROVE  /\ IsFiniteSet(S) /\ Cardinality(S) \in Nat /\ Cardinality(T) \in Nat
           /\ Cardinality(S) <= Cardinality(T)
  BY FS_Subset, FS_CardinalityType
-----------------------------------------------------------------------------
(* The queue: credits *)

Steps == {"wait", "test", "asleep", "woken", "lock", "ring", "post", "posting", "over"}

\* A thread that has taken from one semaphore and not yet posted the other.
Carrying == {t \in Users : user[t] \in {"lock", "ring", "post", "posting"}}

CreditsAccountedFor ==
    sems["empty"].count + sems["full"].count + Cardinality(Carrying) = QSIZE

\* The items that "full" is yet to be told of, and those that are promised.
Told     == {t \in Producers : user[t] \in {"post", "posting"}}
Promised == {t \in Consumers : user[t] \in {"lock", "ring"}}

\* The ring is as long as the counts say.
TailBehindItems == tail = (head + Stored) % QSIZE

Unfinished == \A t \in Users : user[t] # "over" => count[t] < PRODUCE_COUNT

\* The inductive invariant.  That a post leaves a count within QSIZE, and a push
\* finds an element that is free, is what the accounting of the credits says.
QueueInv == /\ QueueTypeOK /\ CreditsAccountedFor /\ TailBehindItems
            /\ Unfinished /\ NoLostWakeup

Awake(s) == {t \in Users : WaitsFor(t) = s /\ user[t] \in {"woken", "test"}}

LEMMA UserSets ==
    /\ \A S \in SUBSET Users : IsFiniteSet(S) /\ Cardinality(S) \in Nat
    /\ Producers \subseteq Users /\ Consumers \subseteq Users
    /\ \A t \in Users : t \in Consumers <=> t \notin Producers
  <1>1. IsFiniteSet(Users)
    BY QueueAssumption, FS_Union DEF Users
  <1> QED BY <1>1, Within, QueueAssumption DEF Users

LEMMA Finite ==
    /\ IsFiniteSet(Carrying) /\ Cardinality(Carrying) \in Nat
    /\ IsFiniteSet(Told)     /\ Cardinality(Told) \in Nat
    /\ IsFiniteSet(Promised) /\ Cardinality(Promised) \in Nat
    /\ \A s : IsFiniteSet(Awake(s)) /\ Cardinality(Awake(s)) \in Nat
  <1>1. Carrying \in SUBSET Users /\ Told \in SUBSET Users /\ Promised \in SUBSET Users
    BY UserSets DEF Carrying, Told, Promised
  <1>2. \A s : Awake(s) \in SUBSET Users
    BY DEF Awake
  <1> QED BY <1>1, <1>2, UserSets

LEMMA StoredIs ==
    /\ Stored = sems["full"].count + Cardinality(Told) + Cardinality(Promised)
    /\ Stored' = sems'["full"].count + Cardinality(Told') + Cardinality(Promised')
  BY DEF Stored, Told, Promised

LEMMA CountTypes ==
    ASSUME QueueTypeOK
    PROVE  /\ sems["empty"].count \in 0 .. QSIZE /\ sems["full"].count \in 0 .. QSIZE
           /\ QSIZE \in Nat \ {0} /\ Stored \in Nat
  <1>1. /\ sems["empty"].count \in 0 .. QSIZE /\ sems["full"].count \in 0 .. QSIZE
        /\ QSIZE \in Nat \ {0}
    BY QueueAssumption DEF QueueTypeOK
  <1>2. sems["full"].count \in Nat
    BY <1>1
  <1> QED BY <1>1, <1>2, Finite, StoredIs

LEMMA NoLostWakeupIs ==
    NoLostWakeup <=> \A s \in DOMAIN sems :
                        Asleep(s) # {} => sems[s].count <= Cardinality(Awake(s))
  BY DEF NoLostWakeup, Awake

LEMMA InitQueue == QueueInit => QueueInv
  <1> SUFFICES ASSUME QueueInit PROVE QueueInv
    OBVIOUS
  <1> USE QueueAssumption DEF QueueInit
  <1>1. QueueTypeOK
    BY DEF QueueTypeOK
  <1>2. Carrying = {} /\ Told = {} /\ Promised = {}
    BY UserSets DEF Carrying, Told, Promised
  <1>3. Cardinality({}) = 0
    BY FS_EmptySet
  <1>4. CreditsAccountedFor /\ Stored = 0
    BY <1>2, <1>3, StoredIs DEF CreditsAccountedFor
  <1>5. TailBehindItems
    BY <1>4, ModSmall DEF TailBehindItems
  <1>6. Unfinished /\ NoLostWakeup
    BY DEF Unfinished, NoLostWakeup, Asleep
  <1> QED BY <1>1, <1>4, <1>5, <1>6 DEF QueueInv

LEMMA Disjoint ==
    ASSUME NEW S, NEW T, IsFiniteSet(S), IsFiniteSet(T), S \cap T = {}
    PROVE  Cardinality(S \cup T) = Cardinality(S) + Cardinality(T)
  <1>1. Cardinality(S \cap T) = 0
    BY FS_EmptySet
  <1>2. Cardinality(S) \in Nat /\ Cardinality(T) \in Nat
    BY FS_CardinalityType
  <1>3. Cardinality(S \cup T) = Cardinality(S) + Cardinality(T) - Cardinality(S \cap T)
    BY FS_Union
  <1> QED BY <1>1, <1>2, <1>3

LEMMA Nonempty ==
    ASSUME NEW S, NEW t, IsFiniteSet(S), t \in S
    PROVE  Cardinality(S) > 0
  <1>1. Cardinality(S) - 1 \in Nat /\ Cardinality(S) \in Nat
    BY Leaves, FS_CardinalityType
  <1> QED BY <1>1

LEMMA UserTypes ==
    ASSUME QueueTypeOK, NEW t \in Users
    PROVE  /\ user[t] \in Steps /\ user \in [Users -> Steps]
           /\ count[t] \in 0 .. PRODUCE_COUNT /\ count \in [Users -> 0 .. PRODUCE_COUNT]
           /\ PRODUCE_COUNT \in Nat
  BY QueueAssumption DEF QueueTypeOK, Steps

LEMMA IndexTypes ==
    ASSUME QueueTypeOK
    PROVE  /\ head \in 0 .. QSIZE - 1 /\ tail \in 0 .. QSIZE - 1
           /\ Following(head) \in 0 .. QSIZE - 1 /\ Following(tail) \in 0 .. QSIZE - 1
           /\ data \in [0 .. QSIZE - 1 -> 0 .. PRODUCE_COUNT]
           /\ popped \in [Consumers -> 0 .. PRODUCE_COUNT]
  <1>1. /\ head \in 0 .. QSIZE - 1 /\ tail \in 0 .. QSIZE - 1
        /\ data \in [0 .. QSIZE - 1 -> 0 .. PRODUCE_COUNT]
        /\ popped \in [Consumers -> 0 .. PRODUCE_COUNT]
    BY DEF QueueTypeOK
  <1>2. head + 1 \in Nat /\ tail + 1 \in Nat /\ QSIZE \in Nat \ {0}
    BY <1>1, QueueAssumption
  <1>3. (head + 1) % QSIZE \in 0 .. QSIZE - 1 /\ (tail + 1) % QSIZE \in 0 .. QSIZE - 1
    BY <1>2, ModRange
  <1> QED BY <1>1, <1>3 DEF Following

LEMMA Semaphores ==
    ASSUME NEW t
    PROVE  /\ WaitsFor(t) \in {"empty", "full"} /\ Posts(t) \in {"empty", "full"}
           /\ WaitsFor(t) # Posts(t)
  BY DEF WaitsFor, Posts

LEMMA Roles ==
    ASSUME NEW t \in Users
    PROVE  t \in Consumers <=> t \notin Producers
  BY UserSets

\* Where each step leaves the threads that carry a credit, and the items.
LEMMA TakeMoves ==
    ASSUME QueueTypeOK, NEW t \in Users, Take(t)
    PROVE  /\ Carrying' = Carrying \cup {t} /\ t \notin Carrying
           /\ Told' = Told
           /\ Promised' = IF t \in Producers THEN Promised ELSE Promised \cup {t}
           /\ t \notin Promised
  BY Roles, UserSets DEF QueueTypeOK, Carrying, Told, Promised, Take

LEMMA OtherMoves ==
    ASSUME QueueTypeOK, NEW t \in Users,
           LockToWait(t) \/ Sleep(t) \/ Wake(t) \/ LockRing(t) \/ LockToPost(t)
    PROVE  UNCHANGED <<Carrying, Told, Promised>>
  BY Roles, UserSets
     DEF QueueTypeOK, Carrying, Told, Promised, LockToWait, Sleep, Wake, LockRing, LockToPost

LEMMA PushMoves ==
    ASSUME QueueTypeOK, NEW t \in Users, Push(t)
    PROVE  /\ UNCHANGED <<Carrying, Promised>>
           /\ Told' = Told \cup {t} /\ t \notin Told
           /\ t \in Carrying /\ t \notin Promised
  BY Roles, UserSets DEF QueueTypeOK, Carrying, Told, Promised, Push

LEMMA PopMoves ==
    ASSUME QueueTypeOK, NEW t \in Users, Pop(t)
    PROVE  /\ UNCHANGED <<Carrying, Told>>
           /\ Promised' = Promised \ {t} /\ t \in Promised
  BY Roles, UserSets DEF QueueTypeOK, Carrying, Told, Promised, Pop

\* What a post does to the users: the one that posts goes on, one that sleeps may wake.
LEMMA PostUsers ==
    ASSUME QueueTypeOK, NEW t \in Users, Post(t)
    PROVE  /\ user[t] = "posting" /\ user'[t] = Onward(t)
           /\ user' \in [Users -> Steps]
           /\ \A u \in Users : u # t => \/ user'[u] = user[u]
                                        \/ user[u] = "asleep" /\ user'[u] = "woken"
  <1>0. user[t] = "posting" /\ Onward(t) \in {"wait", "over"}
    BY DEF Post, Onward
  <1>1. user \in [Users -> Steps] /\ {"wait", "over", "woken"} \subseteq Steps
    BY DEF QueueTypeOK, Steps
  <1> HIDE DEF Onward, Steps
  <1>2. CASE user' = [user EXCEPT ![t] = Onward(t)]
    <2>1. Onward(t) \in Steps
      BY <1>0, <1>1
    <2>2. \A u \in Users : u # t => user'[u] = user[u]
      BY <1>1, <1>2, <2>1
    <2>3. user'[t] = Onward(t) /\ user' \in [Users -> Steps]
      BY <1>1, <1>2, <2>1
    <2> QED BY <1>0, <2>2, <2>3
  <1>3. ASSUME NEW other \in Asleep(Posts(t)),
               user' = [user EXCEPT ![t] = Onward(t), ![other] = "woken"]
        PROVE  /\ user'[t] = Onward(t) /\ user' \in [Users -> Steps]
               /\ \A u \in Users : u # t => \/ user'[u] = user[u]
                                            \/ user[u] = "asleep" /\ user'[u] = "woken"
    <2>1. other \in Users /\ other # t /\ user[other] = "asleep"
      BY <1>0, <1>3 DEF Asleep
    <2>2. Onward(t) \in Steps /\ "woken" \in Steps
      BY <1>0, <1>1
    <2>3. user'[t] = Onward(t) /\ user'[other] = "woken"
      BY <1>1, <1>3, <2>1, <2>2
    <2>4. \A u \in Users : u # t /\ u # other => user'[u] = user[u]
      BY <1>1, <1>3, <2>1, <2>2
    <2>5. user' \in [Users -> Steps]
      BY <1>1, <1>3, <2>1, <2>2
    <2> QED BY <2>1, <2>3, <2>4, <2>5
  <1> QED BY <1>0, <1>2, <1>3 DEF Post, Signalled

\* A post ends what the thread carries.
LEMMA PostMoves ==
    ASSUME QueueTypeOK, NEW t \in Users, Post(t)
    PROVE  /\ Carrying' = Carrying \ {t} /\ t \in Carrying
           /\ Promised' = Promised
           /\ Told' = IF t \in Producers THEN Told \ {t} ELSE Told
           /\ t \in Producers => t \in Told
  <1> DEFINE goes == Onward(t)
  <1>1. goes \in {"wait", "over"}
    BY DEF Onward
  <1> HIDE DEF goes
  <1>2. /\ user[t] = "posting" /\ user'[t] = goes
        /\ \A u \in Users : u # t => \/ user'[u] = user[u]
                                     \/ user[u] = "asleep" /\ user'[u] = "woken"
    BY PostUsers DEF goes
  <1>3. \A u \in Users : u # t => \/ user'[u] = user[u]
                                  \/ /\ user[u] \notin {"lock", "ring", "post", "posting"}
                                     /\ user'[u] \notin {"lock", "ring", "post", "posting"}
    BY <1>2
  <1>4. user'[t] \notin {"lock", "ring", "post", "posting"}
    BY <1>1, <1>2
  <1>5. Carrying' = Carrying \ {t} /\ t \in Carrying
    BY <1>2, <1>3, <1>4 DEF Carrying
  <1>6. Promised' = Promised
    BY <1>2, <1>3, <1>4, UserSets DEF Promised
  <1>7. /\ Told' = IF t \in Producers THEN Told \ {t} ELSE Told
        /\ t \in Producers => t \in Told
    BY <1>2, <1>3, <1>4, UserSets DEF Told
  <1> QED BY <1>5, <1>6, <1>7

-----------------------------------------------------------------------------
(* The queue: types *)

Semaphore == [count : 0 .. QSIZE, m : Users \cup {NULL}]

LEMMA SemaphoreLocked ==
    ASSUME QueueTypeOK, NEW s \in {"empty", "full"}, NEW m \in Users \cup {NULL}
    PROVE  [sems EXCEPT ![s].m = m] \in [{"empty", "full"} -> Semaphore]
  <1>1. sems \in [{"empty", "full"} -> Semaphore]
    BY DEF QueueTypeOK, Semaphore
  <1>2. [sems[s] EXCEPT !.m = m] \in Semaphore
    BY <1>1 DEF Semaphore
  <1>3. [sems EXCEPT ![s] = [sems[s] EXCEPT !.m = m]] \in [{"empty", "full"} -> Semaphore]
    BY <1>1, <1>2
  <1> QED BY <1>3

LEMMA SemaphoreChanged ==
    ASSUME QueueTypeOK, NEW s \in {"empty", "full"}, NEW c \in 0 .. QSIZE
    PROVE  [sems EXCEPT ![s] = [count |-> c, m |-> NULL]] \in [{"empty", "full"} -> Semaphore]
  BY DEF QueueTypeOK, Semaphore

LEMMA SemaphoreCounts ==
    ASSUME QueueTypeOK, NEW s \in {"empty", "full"}
    PROVE  sems[s].count \in 0 .. QSIZE /\ sems[s].m \in Users \cup {NULL}
  BY DEF QueueTypeOK

LEMMA LockToWaitTypes ==
    ASSUME QueueTypeOK, Unfinished, NEW t \in Users, LockToWait(t)
    PROVE  QueueTypeOK' /\ Unfinished'
  <1>1. sems' \in [{"empty", "full"} -> Semaphore]
    BY Semaphores, SemaphoreLocked DEF LockToWait
  <1> QED BY <1>1 DEF QueueTypeOK, Unfinished, LockToWait, ringVars, Semaphore

LEMMA TakeTypes ==
    ASSUME QueueTypeOK, Unfinished, NEW t \in Users, Take(t)
    PROVE  QueueTypeOK' /\ Unfinished'
  <1>1. sems[WaitsFor(t)].count - 1 \in 0 .. QSIZE
    BY Semaphores, SemaphoreCounts, QueueAssumption DEF Take
  <1>2. sems' \in [{"empty", "full"} -> Semaphore]
    BY <1>1, Semaphores, SemaphoreChanged DEF Take
  <1> QED BY <1>2 DEF QueueTypeOK, Unfinished, Take, ringVars, Semaphore

LEMMA SleepTypes ==
    ASSUME QueueTypeOK, Unfinished, NEW t \in Users, Sleep(t)
    PROVE  QueueTypeOK' /\ Unfinished'
  <1>1. sems' \in [{"empty", "full"} -> Semaphore]
    BY Semaphores, SemaphoreLocked DEF Sleep
  <1> QED BY <1>1 DEF QueueTypeOK, Unfinished, Sleep, ringVars, Semaphore

LEMMA WakeTypes ==
    ASSUME QueueTypeOK, Unfinished, NEW t \in Users, Wake(t)
    PROVE  QueueTypeOK' /\ Unfinished'
  BY QueueAssumption DEF QueueTypeOK, Unfinished, Wake, ringVars

LEMMA LockRingTypes ==
    ASSUME QueueTypeOK, Unfinished, NEW t \in Users, LockRing(t)
    PROVE  QueueTypeOK' /\ Unfinished'
  BY DEF QueueTypeOK, Unfinished, LockRing

LEMMA LockToPostTypes ==
    ASSUME QueueTypeOK, Unfinished, NEW t \in Users, LockToPost(t)
    PROVE  QueueTypeOK' /\ Unfinished'
  <1>1. sems' \in [{"empty", "full"} -> Semaphore]
    BY Semaphores, SemaphoreLocked DEF LockToPost
  <1> QED BY <1>1 DEF QueueTypeOK, Unfinished, LockToPost, ringVars, Semaphore

LEMMA PushTypes ==
    ASSUME QueueTypeOK, Unfinished, NEW t \in Users, Push(t)
    PROVE  QueueTypeOK' /\ Unfinished'
  <1>1. tail' \in 0 .. QSIZE - 1
    BY IndexTypes DEF Push
  <1>2. count[t] < PRODUCE_COUNT
    BY DEF Push, Unfinished
  <1>3. count[t] + 1 \in 0 .. PRODUCE_COUNT
    BY <1>2, UserTypes
  <1>4. data' \in [0 .. QSIZE - 1 -> 0 .. PRODUCE_COUNT]
    BY <1>3, IndexTypes DEF Push
  <1>5. user' \in [Users -> Steps] /\ Unfinished'
    BY DEF Push, QueueTypeOK, Unfinished, Steps
  <1> QED BY <1>1, <1>4, <1>5 DEF QueueTypeOK, Push, Steps

LEMMA PopTypes ==
    ASSUME QueueTypeOK, Unfinished, NEW t \in Users, Pop(t)
    PROVE  QueueTypeOK' /\ Unfinished'
  <1>1. head' \in 0 .. QSIZE - 1
    BY IndexTypes DEF Pop
  <1>2. popped' \in [Consumers -> 0 .. PRODUCE_COUNT]
    BY DEF Pop, QueueTypeOK
  <1>3. user' \in [Users -> Steps] /\ Unfinished'
    BY DEF Pop, QueueTypeOK, Unfinished, Steps
  <1> QED BY <1>1, <1>2, <1>3 DEF QueueTypeOK, Pop, Steps

LEMMA PostTypes ==
    ASSUME QueueTypeOK, CreditsAccountedFor, Unfinished, NEW t \in Users, Post(t)
    PROVE  QueueTypeOK' /\ Unfinished'
  <1>1. Cardinality(Carrying) > 0
    BY PostMoves, Finite, Nonempty
  <1>2. sems[Posts(t)].count + 1 \in 0 .. QSIZE
    BY <1>1, CountTypes, Finite DEF CreditsAccountedFor, Posts
  <1>3. sems' \in [{"empty", "full"} -> Semaphore]
    BY <1>2, Semaphores, SemaphoreChanged DEF Post
  <1>4. user[t] = "posting" /\ count[t] < PRODUCE_COUNT /\ count[t] \in Nat
    BY PostUsers DEF QueueTypeOK, Unfinished
  <1>5. count' \in [Users -> 0 .. PRODUCE_COUNT]
    BY <1>4, QueueAssumption DEF Post, QueueTypeOK
  <1>6. ASSUME NEW u \in Users, user'[u] # "over" PROVE count'[u] < PRODUCE_COUNT
    <2>1. CASE u = t
      BY <1>4, <1>6, <2>1, PostUsers DEF Post, QueueTypeOK, Onward
    <2>2. CASE u # t
      BY <1>6, <2>2, PostUsers DEF Post, QueueTypeOK, Unfinished
    <2> QED BY <2>1, <2>2
  <1>7. user' \in [Users -> Steps]
    BY PostUsers
  <1> QED BY <1>3, <1>5, <1>6, <1>7 DEF QueueTypeOK, Unfinished, Post, ringVars, Semaphore, Steps

LEMMA StepTypes ==
    ASSUME QueueTypeOK, CreditsAccountedFor, Unfinished, NEW t \in Users, Use(t) \/ Wake(t)
    PROVE  QueueTypeOK' /\ Unfinished'
  BY LockToWaitTypes, TakeTypes, SleepTypes, WakeTypes, LockRingTypes, LockToPostTypes,
     PushTypes, PopTypes, PostTypes DEF Use
-----------------------------------------------------------------------------
(* The queue: credits, and the length of the ring *)

\* The count of one semaphore changes, that of the other does not.
LEMMA TakeCounts ==
    ASSUME QueueTypeOK, NEW t \in Users, Take(t)
    PROVE  /\ sems[WaitsFor(t)].count > 0
           /\ sems'[WaitsFor(t)].count = sems[WaitsFor(t)].count - 1
           /\ sems'[Posts(t)] = sems[Posts(t)]
  BY Semaphores, SemaphoreCounts, QueueAssumption DEF QueueTypeOK, Take

LEMMA PostCounts ==
    ASSUME QueueTypeOK, NEW t \in Users, Post(t)
    PROVE  /\ sems'[Posts(t)].count = sems[Posts(t)].count + 1
           /\ sems'[WaitsFor(t)] = sems[WaitsFor(t)]
  BY Semaphores, SemaphoreCounts DEF QueueTypeOK, Post

LEMMA OtherCounts ==
    ASSUME QueueTypeOK, NEW t \in Users, NEW s \in {"empty", "full"},
           \/ LockToWait(t) \/ Sleep(t) \/ Wake(t) \/ LockRing(t) \/ LockToPost(t)
           \/ Push(t) \/ Pop(t)
    PROVE  sems'[s].count = sems[s].count
  <1>1. /\ sems \in [{"empty", "full"} -> Semaphore]
        /\ WaitsFor(t) \in {"empty", "full"} /\ Posts(t) \in {"empty", "full"}
    BY Semaphores DEF QueueTypeOK, Semaphore
  <1>2. \A r \in {"empty", "full"} : \A m :
           [sems EXCEPT ![r].m = m][s].count = sems[s].count
    BY <1>1 DEF Semaphore
  <1>3. CASE sems' = sems
    BY <1>3
  <1>4. CASE \E r \in {"empty", "full"} : \E m : sems' = [sems EXCEPT ![r].m = m]
    <2>1. PICK r \in {"empty", "full"} : \E m : sems' = [sems EXCEPT ![r].m = m]
      BY <1>4
    <2>2. PICK m : sems' = [sems EXCEPT ![r].m = m]
      BY <2>1
    <2>3. [sems EXCEPT ![r].m = m][s].count = sems[s].count
      BY <1>2
    <2> QED BY <2>2, <2>3
  <1>5. \/ sems' = sems
        \/ \E r \in {"empty", "full"} : \E m : sems' = [sems EXCEPT ![r].m = m]
    BY <1>1 DEF LockToWait, Sleep, Wake, LockRing, LockToPost, Push, Pop
  <1> QED BY <1>3, <1>4, <1>5

LEMMA StepCredits ==
    ASSUME QueueTypeOK, CreditsAccountedFor, NEW t \in Users, Use(t) \/ Wake(t)
    PROVE  CreditsAccountedFor'
  <1>1. CASE Take(t)
    <2>1. Cardinality(Carrying') = Cardinality(Carrying) + 1
      BY <1>1, TakeMoves, Finite, Joins
    <2> QED BY <1>1, <2>1, TakeCounts, Finite, CountTypes
            DEF CreditsAccountedFor, WaitsFor, Posts
  <1>2. CASE Post(t)
    <2>1. Cardinality(Carrying') = Cardinality(Carrying) - 1
      BY <1>2, PostMoves, Finite, Leaves
    <2> QED BY <1>2, <2>1, PostCounts, Finite, CountTypes
            DEF CreditsAccountedFor, WaitsFor, Posts
  <1>3. CASE \/ LockToWait(t) \/ Sleep(t) \/ Wake(t) \/ LockRing(t) \/ LockToPost(t)
             \/ Push(t) \/ Pop(t)
    <2>1. Carrying' = Carrying
      BY <1>3, OtherMoves, PushMoves, PopMoves
    <2> QED BY <1>3, <2>1, OtherCounts DEF CreditsAccountedFor
  <1> QED BY <1>1, <1>2, <1>3 DEF Use

\* Only a push adds an item, only a pop takes one.
LEMMA StepStored ==
    ASSUME QueueTypeOK, NEW t \in Users, Use(t) \/ Wake(t)
    PROVE  Stored' = IF Push(t) THEN Stored + 1 ELSE IF Pop(t) THEN Stored - 1 ELSE Stored
  <1> USE Finite, CountTypes, StoredIs
  <1>0. ~(Push(t) /\ Pop(t))
    BY Roles DEF Push, Pop
  <1>1. CASE Push(t)
    BY <1>0, <1>1, PushMoves, Joins, OtherCounts
  <1>2. CASE Pop(t)
    BY <1>0, <1>2, PopMoves, Leaves, OtherCounts
  <1>3. ASSUME ~Push(t), ~Pop(t) PROVE Stored' = Stored
    <2>1. CASE Take(t)
      <3>1. CASE t \in Producers
        BY <2>1, <3>1, TakeMoves, TakeCounts DEF WaitsFor, Posts
      <3>2. CASE t \notin Producers
        <4>1. Told' = Told /\ Promised' = Promised \cup {t} /\ t \notin Promised
          BY <2>1, <3>2, TakeMoves
        <4>2. Cardinality(Promised') = Cardinality(Promised) + 1
          BY <4>1, Joins
        <4>3. sems'["full"].count = sems["full"].count - 1
          BY <2>1, <3>2, TakeCounts DEF WaitsFor
        <4> QED BY <4>1, <4>2, <4>3
      <3> QED BY <3>1, <3>2
    <2>2. CASE Post(t)
      <3>1. CASE t \in Producers
        <4>1. Told' = Told \ {t} /\ t \in Told /\ Promised' = Promised
          BY <2>2, <3>1, PostMoves
        <4>2. Cardinality(Told') = Cardinality(Told) - 1
          BY <4>1, Leaves
        <4>3. sems'["full"].count = sems["full"].count + 1
          BY <2>2, <3>1, PostCounts DEF Posts
        <4> QED BY <4>1, <4>2, <4>3
      <3>2. CASE t \notin Producers
        BY <2>2, <3>2, PostMoves, PostCounts DEF WaitsFor, Posts
      <3> QED BY <3>1, <3>2
    <2>3. CASE LockToWait(t) \/ Sleep(t) \/ Wake(t) \/ LockRing(t) \/ LockToPost(t)
      BY <2>3, OtherMoves, OtherCounts
    <2> QED BY <1>3, <2>1, <2>2, <2>3 DEF Use
  <1> QED BY <1>1, <1>2, <1>3

\* The ring has an element left for a push, and an item for a pop.
LEMMA Room ==
    ASSUME QueueTypeOK, CreditsAccountedFor, NEW t \in Users
    PROVE  /\ Push(t) => Stored < QSIZE
           /\ Pop(t) => Stored > 0
           /\ Stored <= QSIZE
  <1> USE Finite, CountTypes, StoredIs
  <1>1. Told \cup Promised \subseteq Carrying /\ Told \cap Promised = {}
    BY UserSets, QueueAssumption DEF Told, Promised, Carrying
  <1>2. Cardinality(Told \cup Promised) = Cardinality(Told) + Cardinality(Promised)
    BY <1>1, Disjoint
  <1>3. Cardinality(Told \cup Promised) <= Cardinality(Carrying)
    BY <1>1, Within
  <1>4. Stored <= QSIZE
    BY <1>2, <1>3 DEF CreditsAccountedFor
  <1>5. ASSUME Push(t) PROVE Stored < QSIZE
    <2>1. t \in Carrying /\ t \notin Told \cup Promised
      BY <1>5, PushMoves
    <2>2. Told \cup Promised \subseteq Carrying \ {t}
      BY <1>1, <2>1
    <2>3. /\ Cardinality(Told \cup Promised) <= Cardinality(Carrying \ {t})
          /\ Cardinality(Carrying \ {t}) = Cardinality(Carrying) - 1
      BY <2>1, <2>2, Within, Leaves, FS_Subset
    <2> QED BY <1>2, <2>3 DEF CreditsAccountedFor
  <1>6. ASSUME Pop(t) PROVE Stored > 0
    BY <1>6, PopMoves, Leaves
  <1> QED BY <1>4, <1>5, <1>6

LEMMA StepTail ==
    ASSUME QueueTypeOK, CreditsAccountedFor, TailBehindItems,
           NEW t \in Users, Use(t) \/ Wake(t)
    PROVE  TailBehindItems'
  <1>1. /\ head \in 0 .. QSIZE - 1 /\ tail = (head + Stored) % QSIZE
        /\ QSIZE \in Nat \ {0} /\ Stored \in Nat
    BY IndexTypes, CountTypes DEF TailBehindItems
  <1>2. CASE Push(t)
    <2>1. tail' = (tail + 1) % QSIZE /\ head' = head /\ Stored' = Stored + 1
      BY <1>2, StepStored DEF Push, Following
    <2>2. head + Stored \in Nat
      BY <1>1
    <2>3. (tail + 1) % QSIZE = (head + Stored + 1) % QSIZE
      BY <1>1, <2>2, ModSuccessor
    <2> QED BY <1>1, <2>1, <2>3 DEF TailBehindItems
  <1>3. CASE Pop(t)
    <2>1. /\ tail' = tail /\ head' = (head + 1) % QSIZE /\ Stored' = Stored - 1
          /\ Stored - 1 \in Nat
      <3>1. tail' = tail /\ head' = (head + 1) % QSIZE /\ ~Push(t)
        BY <1>3, Roles DEF Push, Pop, Following
      <3>2. Stored' = Stored - 1 /\ Stored > 0
        BY <1>3, <3>1, StepStored, Room
      <3> QED BY <1>1, <3>1, <3>2
    <2>2. (((head + 1) % QSIZE) + (Stored - 1)) % QSIZE = (head + 1 + (Stored - 1)) % QSIZE
      BY <1>1, <2>1, ModTwice
    <2>3. head + 1 + (Stored - 1) = head + Stored
      BY <1>1
    <2> QED BY <1>1, <2>1, <2>2, <2>3 DEF TailBehindItems
  <1>4. ASSUME ~Push(t), ~Pop(t) PROVE TailBehindItems'
    <2>1. head' = head /\ tail' = tail
      BY <1>4 DEF Use, LockToWait, Take, Sleep, Wake, LockRing, LockToPost, Post, ringVars
    <2> QED BY <1>4, <2>1, StepStored DEF TailBehindItems
  <1> QED BY <1>2, <1>3, <1>4
-----------------------------------------------------------------------------
(* The queue: wakeups *)

NoneLostAt(s) == Asleep(s) # {} => sems[s].count <= Cardinality(Awake(s))

LEMMA NoneLost ==
    ASSUME QueueTypeOK
    PROVE  NoLostWakeup <=> \A s \in {"empty", "full"} : NoneLostAt(s)
  <1>1. DOMAIN sems = {"empty", "full"}
    BY DEF QueueTypeOK
  <1> QED BY <1>1 DEF NoLostWakeup, NoneLostAt, Awake

\* A semaphore that a step leaves with no more sleepers, no fewer threads awake and
\* no greater a count.
LEMMA NoneLostStays ==
    ASSUME NEW s \in {"empty", "full"}, NoneLostAt(s), QueueTypeOK, QueueTypeOK',
           Asleep(s)' \subseteq Asleep(s), Awake(s) \subseteq Awake(s)',
           sems'[s].count <= sems[s].count
    PROVE  NoneLostAt(s)'
  <1>1. Awake(s)' \subseteq Users /\ IsFiniteSet(Awake(s)')
    BY UserSets DEF Awake
  <1>2. /\ Cardinality(Awake(s)) <= Cardinality(Awake(s)')
        /\ Cardinality(Awake(s)) \in Nat /\ Cardinality(Awake(s)') \in Nat
    BY <1>1, Within
  <1>3. sems[s].count \in Nat /\ sems'[s].count \in Nat
    <2>1. \A c \in 0 .. QSIZE : c \in Nat
      BY QueueAssumption
    <2>2. sems[s].count \in 0 .. QSIZE /\ sems'[s].count \in 0 .. QSIZE
      BY DEF QueueTypeOK
    <2> QED BY <2>1, <2>2
  <1> QED BY <1>2, <1>3 DEF NoneLostAt

LEMMA TakeWakeup ==
    ASSUME QueueTypeOK, QueueTypeOK', NEW t \in Users, Take(t),
           NEW s \in {"empty", "full"}, NoneLostAt(s)
    PROVE  NoneLostAt(s)'
  <1>1. /\ Asleep(s)' = Asleep(s)
        /\ Awake(s)' = IF s = WaitsFor(t) THEN Awake(s) \ {t} ELSE Awake(s)
        /\ s = WaitsFor(t) => t \in Awake(s)
    BY UserTypes DEF Take, Asleep, Awake
  <1>2. CASE s = WaitsFor(t)
    <2>1. Cardinality(Awake(s)') = Cardinality(Awake(s)) - 1
      BY <1>1, <1>2, Finite, Leaves
    <2>2. sems'[s].count = sems[s].count - 1 /\ sems[s].count \in Nat
      BY <1>2, TakeCounts, SemaphoreCounts, QueueAssumption
    <2> QED BY <1>1, <2>1, <2>2, Finite DEF NoneLostAt
  <1>3. CASE s # WaitsFor(t)
    <2>1. sems'[s] = sems[s]
      BY <1>3, TakeCounts, Semaphores
    <2> QED BY <1>1, <1>3, <2>1 DEF NoneLostAt
  <1> QED BY <1>2, <1>3

LEMMA SleepWakeup ==
    ASSUME QueueTypeOK, QueueTypeOK', NEW t \in Users, Sleep(t),
           NEW s \in {"empty", "full"}, NoneLostAt(s)
    PROVE  NoneLostAt(s)'
  <1>1. sems'[s].count = sems[s].count
    BY OtherCounts
  <1>2. CASE s = WaitsFor(t)
    <2>1. sems'[s].count = 0
      BY <1>1, <1>2 DEF Sleep
    <2>2. Awake(s)' \subseteq Users
      BY DEF Awake
    <2>3. Cardinality(Awake(s)') \in Nat
      BY <2>2, UserSets
    <2> QED BY <2>1, <2>3 DEF NoneLostAt
  <1>3. CASE s # WaitsFor(t)
    <2>1. Asleep(s)' = Asleep(s) /\ Awake(s)' = Awake(s)
      BY <1>3, UserTypes DEF Sleep, Asleep, Awake
    <2> QED BY <1>1, <2>1 DEF NoneLostAt
  <1> QED BY <1>2, <1>3

LEMMA PostWakeup ==
    ASSUME QueueTypeOK, QueueTypeOK', NEW t \in Users, Post(t),
           NEW s \in {"empty", "full"}, NoneLostAt(s)
    PROVE  NoneLostAt(s)'
  <1>0. /\ user[t] = "posting" /\ Onward(t) \in {"wait", "over"}
        /\ user \in [Users -> Steps] /\ Onward(t) \in Steps /\ "woken" \in Steps
    BY UserTypes DEF Post, Onward, Steps
  <1> HIDE DEF Onward
  <1>1. CASE Asleep(Posts(t)) = {} /\ user' = [user EXCEPT ![t] = Onward(t)]
    <2>1. Asleep(s)' = Asleep(s) /\ Awake(s)' = Awake(s)
      BY <1>0, <1>1 DEF Asleep, Awake
    <2>2. CASE s = Posts(t)
      BY <1>1, <2>1, <2>2 DEF NoneLostAt
    <2>3. CASE s # Posts(t)
      <3>1. sems'[s] = sems[s]
        BY <2>3, PostCounts, Semaphores
      <3> QED BY <2>1, <3>1 DEF NoneLostAt
    <2> QED BY <2>2, <2>3
  <1>2. ASSUME NEW other \in Asleep(Posts(t)),
               user' = [user EXCEPT ![t] = Onward(t), ![other] = "woken"]
        PROVE  NoneLostAt(s)'
    <2>1. /\ other \in Users /\ other # t /\ user[other] = "asleep"
          /\ WaitsFor(other) = Posts(t)
      BY <1>0, <1>2 DEF Asleep
    <2>2. /\ user'[t] \in {"wait", "over"} /\ user'[other] = "woken"
          /\ \A u \in Users : u # t /\ u # other => user'[u] = user[u]
      BY <1>0, <1>2, <2>1
    <2>3. CASE s = Posts(t)
      <3>1. Awake(s)' = Awake(s) \cup {other} /\ other \notin Awake(s)
        BY <1>0, <2>1, <2>2, <2>3 DEF Awake
      <3>2. Cardinality(Awake(s)') = Cardinality(Awake(s)) + 1
        BY <3>1, Finite, Joins
      <3>3. sems'[s].count = sems[s].count + 1 /\ sems[s].count \in Nat
        BY <2>3, PostCounts, SemaphoreCounts, QueueAssumption
      <3>4. Asleep(s) # {}
        BY <1>2, <2>3
      <3> QED BY <3>2, <3>3, <3>4, Finite DEF NoneLostAt
    <2>4. CASE s # Posts(t)
      <3>1. sems'[s] = sems[s]
        BY <2>4, PostCounts, Semaphores
      <3>2. Asleep(s)' = Asleep(s) /\ Awake(s)' = Awake(s)
        BY <1>0, <2>1, <2>2, <2>4 DEF Asleep, Awake
      <3> QED BY <3>1, <3>2 DEF NoneLostAt
    <2> QED BY <2>3, <2>4
  <1> QED BY <1>1, <1>2 DEF Post, Signalled

LEMMA OtherWakeup ==
    ASSUME QueueTypeOK, QueueTypeOK', NEW t \in Users,
           \/ LockToWait(t) \/ Wake(t) \/ LockRing(t) \/ LockToPost(t)
           \/ Push(t) \/ Pop(t),
           NEW s \in {"empty", "full"}, NoneLostAt(s)
    PROVE  NoneLostAt(s)'
  <1>1. sems'[s].count = sems[s].count
    BY OtherCounts
  <1>2. Asleep(s)' \subseteq Asleep(s) /\ Awake(s) \subseteq Awake(s)'
    BY UserTypes DEF LockToWait, Wake, LockRing, LockToPost, Push, Pop, Asleep, Awake
  <1>3. sems[s].count \in Nat
    BY SemaphoreCounts, QueueAssumption
  <1> QED BY <1>1, <1>2, <1>3, NoneLostStays

LEMMA StepWakeup ==
    ASSUME QueueTypeOK, QueueTypeOK', NoLostWakeup, NEW t \in Users, Use(t) \/ Wake(t)
    PROVE  NoLostWakeup'
  <1>1. ASSUME NEW s \in {"empty", "full"} PROVE NoneLostAt(s)'
    BY NoneLost, TakeWakeup, SleepWakeup, PostWakeup, OtherWakeup DEF Use
  <1>2. DOMAIN sems' = {"empty", "full"}
    BY DEF QueueTypeOK
  <1>3. (\A s \in DOMAIN sems' : NoneLostAt(s)') => NoLostWakeup'
    BY DEF NoLostWakeup, NoneLostAt, Awake
  <1> QED BY <1>1, <1>2, <1>3

\* The invariant is kept by every step of the queue.
LEMMA QueueStep ==
    ASSUME QueueInv, NEW t \in Users, Use(t) \/ Wake(t)
    PROVE  QueueInv'
  BY StepTypes, StepCredits, StepTail, StepWakeup DEF QueueInv
-----------------------------------------------------------------------------
(* The queue: a bounded FIFO *)

Items == Ring(data, head, Stored, QSIZE)

LEMMA AbstractInit ==
    Abstract!Init <=> Items = << >> /\ popped = [c \in Consumers |-> 0]
  BY DEF Abstract!Init, Items, Ring

LEMMA AbstractPut ==
    ASSUME NEW v \in 1 .. PRODUCE_COUNT,
           Len(Items) < QSIZE, Items' = Append(Items, v), popped' = popped
    PROVE  Abstract!Next
  BY DEF Abstract!Put, Abstract!Next, Items, Ring

LEMMA AbstractGet ==
    ASSUME NEW c \in Consumers,
           Items # << >>, popped' = [popped EXCEPT ![c] = Head(Items)], Items' = Tail(Items)
    PROVE  Abstract!Next
  BY DEF Abstract!Get, Abstract!Next, Items, Ring

LEMMA AbstractStays ==
    ASSUME Items' = Items, popped' = popped
    PROVE  UNCHANGED Abstract!fifoVars
  BY DEF Abstract!fifoVars, Items, Ring

LEMMA QueueBegins == QueueInit => Abstract!Init
  <1> SUFFICES ASSUME QueueInit PROVE Items = << >> /\ popped = [c \in Consumers |-> 0]
    BY AbstractInit
  <1>1. Told = {} /\ Promised = {}
    BY UserSets DEF QueueInit, Told, Promised
  <1>2. Cardinality(Told) = 0 /\ Cardinality(Promised) = 0
    BY <1>1, FS_EmptySet
  <1>3. Stored = 0
    BY <1>2, StoredIs DEF QueueInit
  <1>4. Items = << >>
    BY <1>3 DEF Items, Ring
  <1> QED BY <1>4 DEF QueueInit

LEMMA QueueRefines ==
    ASSUME QueueInv, NEW t \in Users, Use(t) \/ Wake(t)
    PROVE  Abstract!Next \/ UNCHANGED Abstract!fifoVars
  <1>1. /\ QSIZE \in Nat \ {0} /\ Stored \in Nat /\ Stored <= QSIZE
        /\ head \in 0 .. QSIZE - 1 /\ DOMAIN data = 0 .. QSIZE - 1
    BY CountTypes, IndexTypes, Room DEF QueueInv
  <1>2. CASE Push(t)
    <2> DEFINE item == count[t] + 1
    <2>1. Stored < QSIZE /\ Stored' = Stored + 1
      BY <1>2, Room, StepStored DEF QueueInv
    <2>2. /\ data' = [data EXCEPT ![(head + Stored) % QSIZE] = item]
          /\ head' = head /\ popped' = popped
      BY <1>2 DEF Push, QueueInv, TailBehindItems
    <2>3. item \in 1 .. PRODUCE_COUNT
      <3>1. count[t] < PRODUCE_COUNT
        BY <1>2 DEF Push, QueueInv, Unfinished
      <3> QED BY <3>1, UserTypes DEF QueueInv
    <2> HIDE DEF item
    <2>4. /\ QSIZE \in Nat \ {0} /\ DOMAIN data = 0 .. QSIZE - 1
          /\ head \in 0 .. QSIZE - 1 /\ Stored \in 0 .. QSIZE - 1
      BY <1>1, <2>1
    <2>5. Ring([data EXCEPT ![(head + Stored) % QSIZE] = item], head, Stored + 1, QSIZE)
             = Append(Ring(data, head, Stored, QSIZE), item)
      BY <2>4, RingAppend, Zenon
    <2>6. Items' = Append(Items, item)
      BY <2>1, <2>2, <2>5 DEF Items
    <2>7. Len(Items) < QSIZE
      BY <1>1, <2>1, RingLength DEF Items
    <2> QED BY <2>2, <2>3, <2>6, <2>7, AbstractPut
  <1>3. CASE Pop(t)
    <2>1. /\ Stored > 0 /\ ~Push(t) /\ Stored' = Stored - 1 /\ t \in Consumers
          /\ head' = (head + 1) % QSIZE /\ data' = data
          /\ popped' = [popped EXCEPT ![t] = data[head]]
      <3>1. /\ t \in Consumers /\ ~Push(t)
            /\ head' = (head + 1) % QSIZE /\ data' = data
            /\ popped' = [popped EXCEPT ![t] = data[head]]
        BY <1>3, Roles DEF Push, Pop, Following
      <3> QED BY <1>3, <3>1, Room, StepStored DEF QueueInv
    <2>2. Stored \in 0 .. QSIZE
      BY <1>1
    <2>3. Items # << >> /\ Head(Items) = data[head] /\ Items' = Tail(Items)
      BY <1>1, <2>1, <2>2, RingTail DEF Items
    <2> QED BY <2>1, <2>3, AbstractGet
  <1>4. ASSUME ~Push(t), ~Pop(t) PROVE UNCHANGED Abstract!fifoVars
    <2>1. head' = head /\ data' = data /\ popped' = popped
      BY <1>4 DEF Use, LockToWait, Take, Sleep, Wake, LockRing, LockToPost, Post, ringVars
    <2>2. Stored' = Stored
      BY <1>4, StepStored DEF QueueInv
    <2>3. Items' = Items
      BY <2>1, <2>2 DEF Items
    <2> QED BY <2>1, <2>3, AbstractStays
  <1> QED BY <1>2, <1>3, <1>4

LEMMA QueueStutters ==
    ASSUME UNCHANGED queueVars
    PROVE  UNCHANGED Abstract!fifoVars
  <1>1. Stored' = Stored
    BY DEF queueVars, Stored
  <1>2. Items' = Items /\ popped' = popped
    BY <1>1 DEF queueVars, ringVars, Items
  <1> QED BY <1>2, AbstractStays
-----------------------------------------------------------------------------
(* Parts one and two: the increments that are made *)

AllDone == Threads \X (0 .. ITERATIONS - 1)
Done == {x \in AllDone : x[2] < inc[x[1]].i}

IncRecord == [at : {"lock", "load", "store", "over"}, i : 0 .. ITERATIONS,
              tmp : 0 .. AllIncrements]

IncTypes == /\ counter \in 0 .. AllIncrements
            /\ g_lock \in Threads \cup {NULL}
            /\ inc \in [Threads -> IncRecord]

OverWhenDone == \A t \in Threads : inc[t].at = "over" <=> inc[t].i = ITERATIONS

\* Nobody counts an increment that was not made.
CountAtMost == /\ counter <= Cardinality(Done)
               /\ \A t \in Threads : inc[t].tmp <= Cardinality(Done)

\* After the first store the counter is never 0 again, and so no later iteration
\* loads a 0; the last store of all is one of a later iteration.
Race == part = "one" =>
    /\ g_lock = NULL
    /\ \A t \in Threads : /\ inc[t].at # "lock"
                          /\ inc[t].i > 0 => counter > 0
                          /\ inc[t].at = "store" /\ inc[t].i > 0 => inc[t].tmp > 0
    /\ Counted /\ ITERATIONS > 1 /\ Threads # {} => counter > 1

Locked == part = "two" =>
    /\ counter = Cardinality(Done)
    /\ \A t \in Threads : /\ inc[t].at \in {"load", "store"} <=> g_lock = t
                          /\ inc[t].at = "store" => inc[t].tmp = counter

AfterTwo == part \notin {"one", "two"} => Counted

IncInv == IncTypes /\ OverWhenDone /\ CountAtMost /\ Race /\ Locked /\ AfterTwo

LEMMA Increments ==
    /\ IsFiniteSet(AllDone) /\ Cardinality(AllDone) = AllIncrements /\ AllIncrements \in Nat
    /\ IsFiniteSet(Done) /\ Cardinality(Done) \in 0 .. AllIncrements
    /\ ITERATIONS \in Nat \ {0}
  <1>1. /\ IsFiniteSet(0 .. ITERATIONS - 1) /\ Cardinality(0 .. ITERATIONS - 1) = ITERATIONS
        /\ ITERATIONS \in Nat \ {0} /\ IsFiniteSet(Threads)
    <2>1. ITERATIONS \in Nat \ {0} /\ IsFiniteSet(Threads)
      BY ThreadAssumption
    <2>2. IsFiniteSet(0 .. ITERATIONS - 1) /\ Cardinality(0 .. ITERATIONS - 1) = ITERATIONS
      BY <2>1, FS_Interval
    <2> QED BY <2>1, <2>2
  <1>2. IsFiniteSet(AllDone) /\ Cardinality(AllDone) = AllIncrements
    BY <1>1, FS_Product DEF AllDone, AllIncrements
  <1>3. Done \subseteq AllDone
    BY DEF Done
  <1>4. /\ IsFiniteSet(Done) /\ Cardinality(Done) \in Nat
        /\ Cardinality(AllDone) \in Nat /\ Cardinality(Done) <= Cardinality(AllDone)
    BY <1>2, <1>3, Within
  <1> QED BY <1>1, <1>2, <1>4

\* When all are over, all increments are made.
LEMMA AllMade ==
    ASSUME OverWhenDone, Counted
    PROVE  Done = AllDone
  <1>1. ASSUME NEW x \in AllDone PROVE x[2] < inc[x[1]].i
    <2>1. x[1] \in Threads /\ x[2] \in 0 .. ITERATIONS - 1
      BY DEF AllDone
    <2>2. inc[x[1]].i = ITERATIONS
      BY <2>1 DEF OverWhenDone, Counted
    <2> QED BY <2>1, <2>2, ThreadAssumption
  <1> QED BY <1>1 DEF Done

\* A state in which only the part has changed, past the second.
LEMMA IncStays ==
    ASSUME IncInv, UNCHANGED incVars, Counted,
           part' \notin {"one", "two"} \/ part' = part
    PROVE  IncInv'
  <1>1. Done' = Done /\ Counted'
    BY DEF incVars, Done, Counted
  <1>2. IncTypes' /\ OverWhenDone' /\ CountAtMost'
    BY <1>1 DEF IncInv, incVars, IncTypes, OverWhenDone, CountAtMost
  <1>3. Race' /\ Locked' /\ AfterTwo'
    BY <1>1 DEF IncInv, incVars, Race, Locked, AfterTwo, Counted
  <1> QED BY <1>2, <1>3 DEF IncInv

LEMMA IncBegins == Init => IncInv
  <1> SUFFICES ASSUME Init PROVE IncInv
    OBVIOUS
  <1>1. \A t \in Threads : inc[t] = [at |-> "load", i |-> 0, tmp |-> 0]
    BY DEF Init, Begun
  <1>2. IncTypes
    BY <1>1, Increments DEF Init, Begun, IncTypes, IncRecord
  <1>3. OverWhenDone
    BY <1>1, Increments DEF OverWhenDone
  <1>4. CountAtMost
    BY <1>1, Increments DEF CountAtMost, Init
  <1>5. Race /\ Locked /\ AfterTwo
    BY <1>1 DEF Init, Race, Locked, AfterTwo, Counted
  <1> QED BY <1>2, <1>3, <1>4, <1>5 DEF IncInv

LEMMA LockInc ==
    ASSUME IncInv, NEW t \in Threads, Lock(t)
    PROVE  IncInv'
  <1>1. /\ inc'[t] = [inc[t] EXCEPT !.at = "load"]
        /\ \A u \in Threads : u # t => inc'[u] = inc[u]
        /\ inc[t] \in IncRecord /\ inc[t].at = "lock"
        /\ inc' \in [Threads -> IncRecord]
    BY DEF Lock, IncInv, IncTypes, IncRecord
  <1>2. /\ inc'[t].at = "load" /\ inc'[t].i = inc[t].i /\ inc'[t].tmp = inc[t].tmp
        /\ \A u \in Threads : inc'[u].i = inc[u].i /\ inc'[u].tmp = inc[u].tmp
    BY <1>1 DEF IncRecord
  <1>3. Done' = Done
    BY <1>2 DEF Done, AllDone
  <1>4. part = "two" /\ part' = "two" /\ g_lock = NULL /\ g_lock' = t /\ counter' = counter
    BY DEF Lock
  <1>5. IncTypes' /\ CountAtMost'
    BY <1>1, <1>2, <1>3, <1>4 DEF IncInv, IncTypes, CountAtMost
  <1>6. OverWhenDone'
    <2>1. inc[t].i # ITERATIONS
      BY <1>1 DEF IncInv, OverWhenDone
    <2>2. ASSUME NEW u \in Threads, u # t PROVE inc'[u].at = "over" <=> inc'[u].i = ITERATIONS
      BY <1>1, <2>2 DEF IncInv, OverWhenDone
    <2> QED BY <1>2, <2>1, <2>2 DEF OverWhenDone
  <1>7. Locked'
    BY <1>1, <1>2, <1>3, <1>4, ThreadAssumption DEF IncInv, Locked
  <1> QED BY <1>4, <1>5, <1>6, <1>7 DEF IncInv, Race, AfterTwo

LEMMA LoadInc ==
    ASSUME IncInv, NEW t \in Threads, Load(t)
    PROVE  IncInv'
  <1>0. counter \in 0 .. AllIncrements
    BY DEF IncInv, IncTypes
  <1>1. /\ inc'[t] = [inc[t] EXCEPT !.at = "store", !.tmp = counter]
        /\ \A u \in Threads : u # t => inc'[u] = inc[u]
        /\ inc[t] \in IncRecord /\ inc[t].at = "load"
        /\ inc' \in [Threads -> IncRecord]
    BY <1>0 DEF Load, IncInv, IncTypes, IncRecord
  <1>2. /\ inc'[t].at = "store" /\ inc'[t].i = inc[t].i /\ inc'[t].tmp = counter
        /\ \A u \in Threads : inc'[u].i = inc[u].i
    BY <1>1 DEF IncRecord
  <1>3. Done' = Done
    BY <1>2 DEF Done, AllDone
  <1>4. part' = part /\ g_lock' = g_lock /\ counter' = counter
    BY DEF Load
  <1>5. IncTypes'
    BY <1>1, <1>4 DEF IncInv, IncTypes
  <1>6. CountAtMost'
    BY <1>1, <1>2, <1>3, <1>4 DEF IncInv, CountAtMost
  <1>7. OverWhenDone'
    <2> SUFFICES ASSUME NEW u \in Threads
                 PROVE  inc'[u].at = "over" <=> inc'[u].i = ITERATIONS
      BY DEF OverWhenDone
    <2>1. CASE u = t
      BY <1>1, <1>2, <2>1 DEF IncInv, OverWhenDone
    <2>2. CASE u # t
      BY <1>1, <2>2 DEF IncInv, OverWhenDone
    <2> QED BY <2>1, <2>2
  <1>8. Race'
    <2> SUFFICES ASSUME part = "one" PROVE Race'
      BY <1>4 DEF Race
    <2>1. ~Counted'
      BY <1>2 DEF Counted
    <2>2. ASSUME NEW u \in Threads
          PROVE  /\ inc'[u].at # "lock"
                 /\ inc'[u].i > 0 => counter > 0
                 /\ inc'[u].at = "store" /\ inc'[u].i > 0 => inc'[u].tmp > 0
      <3>1. CASE u = t
        BY <1>2, <3>1 DEF IncInv, Race
      <3>2. CASE u # t
        BY <1>1, <3>2 DEF IncInv, Race
      <3> QED BY <3>1, <3>2
    <2>3. g_lock = NULL
      BY DEF IncInv, Race
    <2> QED BY <1>4, <2>1, <2>2, <2>3 DEF Race
  <1>9. Locked'
    BY <1>1, <1>2, <1>3, <1>4 DEF IncInv, Locked
  <1>10. AfterTwo'
    BY <1>1, <1>4 DEF IncInv, AfterTwo, Counted
  <1> QED BY <1>5, <1>6, <1>7, <1>8, <1>9, <1>10 DEF IncInv

LEMMA StoreInc ==
    ASSUME IncInv, NEW t \in Threads, Store(t)
    PROVE  IncInv'
  <1> DEFINE made == inc[t].i
             next == IF made + 1 < ITERATIONS THEN IncStart ELSE "over"
  <1>1. /\ inc[t] \in IncRecord /\ inc[t].at = "store" /\ inc[t].tmp \in 0 .. AllIncrements
        /\ made \in 0 .. ITERATIONS /\ counter \in 0 .. AllIncrements
        /\ ITERATIONS \in Nat \ {0} /\ AllIncrements \in Nat
    BY Increments DEF Store, IncInv, IncTypes, IncRecord
  <1>2. part \in {"one", "two"} /\ part' = part /\ g_lock' = NULL /\ counter' = inc[t].tmp + 1
    BY <1>1 DEF Store, IncInv, AfterTwo, Counted
  <1>3. made < ITERATIONS
    <2>1. made # ITERATIONS
      BY <1>1 DEF IncInv, OverWhenDone
    <2> QED BY <1>1, <2>1
  <1>4. next \in {"lock", "load", "over"} /\ (next = "over" <=> made + 1 = ITERATIONS)
    BY <1>1, <1>3 DEF IncStart
  <1>5. next = "lock" => part # "one"
    BY DEF IncStart
  <1>6. next = "load" => part = "one"
    BY DEF IncStart
  <1>7. inc' = [inc EXCEPT ![t] = [at |-> next, i |-> made + 1, tmp |-> 0]]
    BY DEF Store
  <1> HIDE DEF next, made
  <1>8. [at |-> next, i |-> made + 1, tmp |-> 0] \in IncRecord
    BY <1>1, <1>3, <1>4 DEF IncRecord
  <1>9. /\ inc'[t].at = next /\ inc'[t].i = made + 1 /\ inc'[t].tmp = 0
        /\ \A u \in Threads : u # t => inc'[u] = inc[u]
        /\ inc' \in [Threads -> IncRecord]
    BY <1>7, <1>8 DEF IncInv, IncTypes
  <1>10. Done' = Done \cup {<<t, made>>} /\ <<t, made>> \notin Done
    <2>1. <<t, made>> \in AllDone
      BY <1>1, <1>3 DEF AllDone
    <2>2. <<t, made>> \notin Done
      BY <1>1 DEF Done, made
    <2>3. ASSUME NEW x \in AllDone
          PROVE  x[2] < inc'[x[1]].i <=> x[2] < inc[x[1]].i \/ x = <<t, made>>
      <3>1. x = <<x[1], x[2]>> /\ x[1] \in Threads /\ x[2] \in 0 .. ITERATIONS - 1
        BY DEF AllDone
      <3>2. CASE x[1] = t
        BY <1>1, <1>9, <3>1, <3>2 DEF made
      <3>3. CASE x[1] # t
        BY <1>9, <3>1, <3>3
      <3> QED BY <3>2, <3>3
    <2> QED BY <2>1, <2>2, <2>3 DEF Done
  <1>11. /\ Cardinality(Done') = Cardinality(Done) + 1
         /\ Cardinality(Done) \in Nat /\ Cardinality(Done') \in 0 .. AllIncrements
    <2>1. Done' \subseteq AllDone
      BY DEF Done, AllDone
    <2>2. Cardinality(Done') <= Cardinality(AllDone) /\ Cardinality(Done') \in Nat
      BY <2>1, Increments, Within
    <2> QED BY <1>10, <2>2, Increments, Joins
  <1>12. CountAtMost'
    <2>1. inc[t].tmp <= Cardinality(Done)
      BY DEF IncInv, CountAtMost
    <2>2. counter' <= Cardinality(Done')
      BY <1>1, <1>2, <1>11, <2>1
    <2>3. ASSUME NEW u \in Threads PROVE inc'[u].tmp <= Cardinality(Done')
      <3>1. CASE u = t
        BY <1>9, <1>11, <3>1
      <3>2. CASE u # t
        <4>1. inc'[u] = inc[u] /\ inc[u].tmp <= Cardinality(Done)
          BY <1>9, <3>2 DEF IncInv, CountAtMost
        <4>2. inc[u].tmp \in 0 .. AllIncrements
          BY DEF IncInv, IncTypes, IncRecord
        <4> QED BY <1>11, <4>1, <4>2
      <3> QED BY <3>1, <3>2
    <2> QED BY <2>2, <2>3 DEF CountAtMost
  <1>13. IncTypes'
    <2>1. counter' \in 0 .. AllIncrements
      BY <1>1, <1>2, <1>11, <1>12 DEF CountAtMost
    <2> QED BY <1>2, <1>9, <2>1 DEF IncTypes
  <1>14. OverWhenDone'
    BY <1>4, <1>9 DEF IncInv, OverWhenDone
  <1>15. Race'
    <2> SUFFICES ASSUME part = "one" PROVE Race'
      BY <1>2 DEF Race
    <2>1. ASSUME NEW u \in Threads
          PROVE  /\ inc'[u].at # "lock"
                 /\ inc'[u].at = "store" /\ inc'[u].i > 0 => inc'[u].tmp > 0
      <3>1. CASE u = t
        BY <1>4, <1>5, <1>9, <3>1
      <3>2. CASE u # t
        BY <1>9, <3>2 DEF IncInv, Race
      <3> QED BY <3>1, <3>2
    <2>2. counter' > 0
      BY <1>1, <1>2
    <2>3. ASSUME Counted', ITERATIONS > 1 PROVE counter' > 1
      <3>1. inc'[t].at = "over"
        BY <2>3 DEF Counted
      <3>2. made > 0
        BY <1>1, <1>4, <1>9, <2>3, <3>1
      <3>3. inc[t].tmp > 0
        BY <1>1, <3>2 DEF IncInv, Race, made
      <3> QED BY <1>1, <1>2, <3>3
    <2> QED BY <1>2, <2>1, <2>2, <2>3 DEF Race
  <1>16. Locked'
    <2> SUFFICES ASSUME part = "two" PROVE Locked'
      BY <1>2 DEF Locked
    <2>1. inc[t].tmp = counter /\ counter = Cardinality(Done) /\ g_lock = t
      BY <1>1 DEF IncInv, Locked
    <2>2. ASSUME NEW u \in Threads PROVE inc'[u].at \notin {"load", "store"}
      <3>1. CASE u = t
        BY <1>4, <1>6, <1>9, <3>1
      <3>2. CASE u # t
        BY <1>9, <2>1, <3>2 DEF IncInv, Locked
      <3> QED BY <3>1, <3>2
    <2> QED BY <1>2, <1>11, <2>1, <2>2, ThreadAssumption DEF Locked
  <1>17. AfterTwo'
    BY <1>2 DEF AfterTwo
  <1> QED BY <1>12, <1>13, <1>14, <1>15, <1>16, <1>17 DEF IncInv

LEMMA JoinOneInc ==
    ASSUME IncInv, JoinOne
    PROVE  IncInv'
  <1>1. /\ part = "one" /\ part' = "two" /\ g_lock = NULL /\ g_lock' = NULL /\ counter' = 0
        /\ inc' = [t \in Threads |-> [at |-> "lock", i |-> 0, tmp |-> 0]]
    BY DEF JoinOne, Begun, IncInv, Race
  <1>2. \A t \in Threads : inc'[t].at = "lock" /\ inc'[t].i = 0 /\ inc'[t].tmp = 0
    BY <1>1
  <1>3. Done' = {}
    BY <1>2 DEF Done, AllDone
  <1>4. Cardinality(Done') = 0
    BY <1>3, FS_EmptySet
  <1>5. IncTypes'
    BY <1>1, Increments DEF IncTypes, IncRecord
  <1>6. OverWhenDone'
    BY <1>2, Increments DEF OverWhenDone
  <1>7. CountAtMost'
    BY <1>1, <1>2, <1>4 DEF CountAtMost
  <1>8. Race' /\ Locked' /\ AfterTwo'
    BY <1>1, <1>2, <1>4, ThreadAssumption DEF Race, Locked, AfterTwo
  <1> QED BY <1>5, <1>6, <1>7, <1>8 DEF IncInv
-----------------------------------------------------------------------------
(* Parts three and four: the buffers *)

BufTypes == /\ buf \in [Writers \cup {"static"} -> [Chars -> Writers \cup {"none", "main"}]]
            /\ filled \in [Writers -> 0 .. LENGTH + 1]

\* A buffer holds what this part has written in it, as far as it has got.
FilledSoFar ==
    /\ part \in {"one", "two"} => \A w \in Writers : filled[w] = 0
    /\ part = "three" => \A w \in Writers, n \in Chars : n < filled[w] => buf["static"][n] \in Writers
    /\ part = "four" => \A w \in Writers, n \in Chars : n < filled[w] => buf[w][n] = w
    /\ part = "five" => \A w \in Writers, n \in Chars : buf[w][n] = w

FillInv == BufTypes /\ FilledSoFar

LEMMA CharsAre ==
    /\ LENGTH \in Nat
    /\ \A f \in 0 .. LENGTH + 1 : f \notin Chars => \A n \in Chars : n < f
    /\ \A n \in Chars : n \in Nat /\ n + 1 \in 0 .. LENGTH + 1
  BY ThreadAssumption DEF Chars

LEMMA FillBegins == Init => FillInv
  BY CharsAre DEF Init, FillInv, BufTypes, FilledSoFar

LEMMA FillStays ==
    ASSUME FillInv, UNCHANGED bufVars,
           part' = part \/ (part = "one" /\ part' = "two")
           \/ part' \notin {"one", "two", "three", "four", "five"}
    PROVE  FillInv'
  BY DEF FillInv, BufTypes, FilledSoFar, bufVars

LEMMA FillFill ==
    ASSUME FillInv, NEW w \in Writers, Fill(w)
    PROVE  FillInv'
  <1> DEFINE b == Buffer(w)
             n == filled[w]
  <1>1. /\ b = IF part = "three" THEN "static" ELSE w
        /\ n \in Chars /\ part \in {"three", "four"} /\ part' = part
        /\ b \in Writers \cup {"static"}
    BY DEF Fill, Buffer
  <1>2. buf' = [buf EXCEPT ![b] = [buf[b] EXCEPT ![n] = w]]
    BY DEF Fill
  <1>3. filled' = [filled EXCEPT ![w] = n + 1]
    BY DEF Fill
  <1> HIDE DEF b, n
  <1>4. /\ buf[b] \in [Chars -> Writers \cup {"none", "main"}]
        /\ filled \in [Writers -> 0 .. LENGTH + 1] /\ n + 1 \in 0 .. LENGTH + 1 /\ n \in Nat
    BY <1>1, CharsAre DEF FillInv, BufTypes
  <1>5. [buf[b] EXCEPT ![n] = w] \in [Chars -> Writers \cup {"none", "main"}]
    BY <1>1, <1>4
  <1>6. BufTypes'
    BY <1>1, <1>2, <1>3, <1>4, <1>5 DEF FillInv, BufTypes
  <1>7. /\ \A m \in Chars : buf'[b][m] = IF m = n THEN w ELSE buf[b][m]
        /\ \A a \in Writers \cup {"static"} : a # b => buf'[a] = buf[a]
    BY <1>1, <1>2, <1>4, <1>5 DEF FillInv, BufTypes
  <1>8. filled'[w] = n + 1 /\ \A v \in Writers : v # w => filled'[v] = filled[v]
    BY <1>3, <1>4
  <1>9. \A m \in Chars : m < n + 1 => m < n \/ m = n
    BY <1>4, CharsAre
  <1>10. CASE part = "three"
    <2>1. b = "static"
      BY <1>1, <1>10
    <2>2. ASSUME NEW v \in Writers, NEW m \in Chars, m < filled'[v]
          PROVE  buf'["static"][m] \in Writers
      <3>1. CASE m = n
        BY <1>7, <2>1, <3>1
      <3>2. CASE m # n
        <4>1. m < filled[v]
          BY <1>8, <1>9, <2>2, <3>2 DEF n
        <4> QED BY <1>7, <1>10, <2>1, <3>2, <4>1 DEF FillInv, FilledSoFar
      <3> QED BY <3>1, <3>2
    <2> QED BY <1>1, <1>6, <1>10, <2>2 DEF FillInv, FilledSoFar
  <1>11. CASE part = "four"
    <2>1. b = w
      BY <1>1, <1>11
    <2>2. ASSUME NEW v \in Writers, NEW m \in Chars, m < filled'[v]
          PROVE  buf'[v][m] = v
      <3>1. CASE v = w /\ m = n
        BY <1>7, <2>1, <3>1
      <3>2. CASE v = w /\ m # n
        <4>1. m < filled[w]
          BY <1>8, <1>9, <2>2, <3>2 DEF n
        <4> QED BY <1>7, <1>11, <2>1, <3>2, <4>1 DEF FillInv, FilledSoFar
      <3>3. CASE v # w
        <4>1. m < filled[v]
          BY <1>8, <2>2, <3>3
        <4> QED BY <1>7, <1>11, <2>1, <3>3, <4>1 DEF FillInv, FilledSoFar
      <3> QED BY <3>1, <3>2, <3>3
    <2> QED BY <1>1, <1>6, <1>11, <2>2 DEF FillInv, FilledSoFar
  <1> QED BY <1>1, <1>10, <1>11

LEMMA JoinFill ==
    ASSUME FillInv, JoinTwo \/ JoinThree \/ JoinFour
    PROVE  FillInv'
  <1>1. CASE JoinTwo
    <2>1. /\ part = "two" /\ part' = "three" /\ filled' = filled
          /\ buf' = [buf EXCEPT !["static"] = [n \in Chars |-> "main"]]
      BY <1>1 DEF JoinTwo
    <2>2. BufTypes'
      BY <2>1 DEF FillInv, BufTypes
    <2>3. \A w \in Writers, n \in Chars : ~(n < filled'[w])
      BY <2>1, CharsAre DEF FillInv, FilledSoFar
    <2> QED BY <2>1, <2>2, <2>3 DEF FillInv, FilledSoFar
  <1>2. CASE JoinThree
    <2>1. part' = "four" /\ buf' = buf /\ filled' = [w \in Writers |-> 0]
      BY <1>2 DEF JoinThree, Unwritten
    <2>2. \A w \in Writers, n \in Chars : ~(n < filled'[w])
      BY <2>1, CharsAre
    <2> QED BY <2>1, <2>2, CharsAre DEF FillInv, BufTypes, FilledSoFar
  <1>3. CASE JoinFour
    <2>1. part = "four" /\ part' = "five" /\ buf' = buf /\ filled' = filled
      BY <1>3 DEF JoinFour, bufVars
    <2>2. \A w \in Writers, n \in Chars : n < filled[w]
      BY <1>3, CharsAre DEF JoinFour, Filled, FillInv, BufTypes
    <2> QED BY <2>1, <2>2 DEF FillInv, BufTypes, FilledSoFar
  <1> QED BY <1>1, <1>2, <1>3
-----------------------------------------------------------------------------
(* The whole program *)

Parts == {"one", "two", "three", "four", "five", "banners", "six", "end"}

ThreadInv == /\ part \in Parts /\ label \in 0 .. 15
             /\ IncInv /\ FillInv /\ QueueInv

LEMMA ThreadBegins == Init => ThreadInv
  BY IncBegins, FillBegins, InitQueue DEF Init, ThreadInv, Parts

LEMMA QueueStays ==
    ASSUME QueueInv, UNCHANGED queueVars
    PROVE  QueueInv'
  <1>1. /\ Stored' = Stored /\ Carrying' = Carrying
        /\ \A s : Asleep(s)' = Asleep(s) /\ Awake(s)' = Awake(s)
    BY DEF queueVars, Stored, Carrying, Asleep, Awake
  <1>2. QueueTypeOK' /\ Unfinished'
    BY DEF QueueInv, queueVars, ringVars, QueueTypeOK, Unfinished
  <1>3. CreditsAccountedFor' /\ TailBehindItems'
    BY <1>1 DEF QueueInv, queueVars, ringVars, CreditsAccountedFor, TailBehindItems
  <1>4. NoLostWakeup'
    BY <1>1 DEF QueueInv, queueVars, NoLostWakeup, Awake
  <1> QED BY <1>2, <1>3, <1>4 DEF QueueInv

\* Main's steps, but those that join parts one to four.
LEMMA LaterMain ==
    ASSUME ThreadInv, ReadLabel \/ JoinFive \/ JoinSix
    PROVE  /\ part \notin {"one", "two", "three", "four"}
           /\ part' \in {"banners", "six", "end"} /\ label' \in 0 .. 15
           /\ UNCHANGED <<incVars, bufVars, queueVars>>
  BY DEF ReadLabel, JoinFive, JoinSix, LabelLengths, ThreadInv, incVars, bufVars, queueVars

LEMMA MainStep ==
    ASSUME ThreadInv, Main
    PROVE  ThreadInv'
  <1>1. UNCHANGED queueVars
    BY LaterMain
       DEF Main, JoinOne, JoinTwo, JoinThree, JoinFour, queueVars, ringVars
  <1>2. QueueInv'
    BY <1>1, QueueStays DEF ThreadInv
  <1>3. CASE JoinOne
    <2>1. part = "one" /\ part' = "two" /\ label' = label /\ UNCHANGED bufVars
      BY <1>3 DEF JoinOne, bufVars
    <2> QED BY <1>2, <1>3, <2>1, JoinOneInc, FillStays DEF ThreadInv, Parts
  <1>4. CASE JoinTwo \/ JoinThree \/ JoinFour
    <2>1. /\ part' \in {"three", "four", "five"} /\ label' = label /\ UNCHANGED incVars
          /\ part \in {"two", "three", "four"} /\ (part = "two" => Counted)
      BY <1>4 DEF JoinTwo, JoinThree, JoinFour, incVars
    <2>2. Counted
      BY <2>1 DEF ThreadInv, IncInv, AfterTwo
    <2>3. IncInv'
      BY <2>1, <2>2, IncStays DEF ThreadInv
    <2> QED BY <1>2, <1>4, <2>1, <2>3, JoinFill DEF ThreadInv, Parts
  <1>5. CASE ReadLabel \/ JoinFive \/ JoinSix
    <2>1. Counted
      BY <1>5, LaterMain DEF ThreadInv, IncInv, AfterTwo
    <2>2. IncInv'
      BY <1>5, <2>1, LaterMain, IncStays DEF ThreadInv
    <2>3. FillInv'
      BY <1>5, LaterMain, FillStays DEF ThreadInv
    <2> QED BY <1>2, <1>5, <2>2, <2>3, LaterMain DEF ThreadInv, Parts
  <1> QED BY <1>3, <1>4, <1>5 DEF Main

LEMMA IncrementStep ==
    ASSUME ThreadInv, NEW t \in Threads, Increment(t)
    PROVE  ThreadInv' /\ UNCHANGED queueVars
  <1>1. /\ UNCHANGED queueVars /\ UNCHANGED bufVars /\ part' = part /\ label' = label
    BY DEF Increment, Lock, Load, Store, queueVars, ringVars, bufVars
  <1>2. IncInv'
    BY LockInc, LoadInc, StoreInc DEF Increment, ThreadInv
  <1>3. FillInv' /\ QueueInv'
    BY <1>1, FillStays, QueueStays DEF ThreadInv
  <1> QED BY <1>1, <1>2, <1>3 DEF ThreadInv

LEMMA FillStep ==
    ASSUME ThreadInv, NEW w \in Writers, Fill(w)
    PROVE  ThreadInv' /\ UNCHANGED queueVars
  <1>1. /\ UNCHANGED queueVars /\ UNCHANGED incVars /\ part' = part /\ label' = label
        /\ part \in {"three", "four"}
    BY DEF Fill, queueVars, ringVars, incVars
  <1>2. Counted
    BY <1>1 DEF ThreadInv, IncInv, AfterTwo
  <1>3. IncInv' /\ QueueInv'
    BY <1>1, <1>2, IncStays, QueueStays DEF ThreadInv
  <1> QED BY <1>1, <1>3, FillFill DEF ThreadInv

LEMMA PartSixStep ==
    ASSUME ThreadInv, NEW t \in Users, InPartSix(Use(t) \/ Wake(t))
    PROVE  ThreadInv'
  <1>1. /\ (Use(t) \/ Wake(t)) /\ UNCHANGED <<part, label>>
        /\ UNCHANGED incVars /\ UNCHANGED bufVars /\ part = "six"
    BY DEF InPartSix
  <1>2. Counted
    BY <1>1 DEF ThreadInv, IncInv, AfterTwo
  <1>3. IncInv' /\ FillInv'
    BY <1>1, <1>2, IncStays, FillStays DEF ThreadInv
  <1>4. QueueInv'
    BY <1>1, QueueStep DEF ThreadInv
  <1> QED BY <1>1, <1>3, <1>4 DEF ThreadInv

LEMMA ThreadStays ==
    ASSUME ThreadInv, UNCHANGED vars
    PROVE  ThreadInv'
  <1>1. /\ UNCHANGED <<part, label>> /\ UNCHANGED incVars /\ UNCHANGED bufVars
        /\ UNCHANGED queueVars
    BY DEF vars
  <1>2. FillInv' /\ QueueInv'
    BY <1>1, FillStays, QueueStays DEF ThreadInv
  <1>3. Done' = Done /\ Counted' = Counted
    BY <1>1 DEF incVars, Done, Counted
  <1>4. IncInv'
    BY <1>1, <1>3
       DEF ThreadInv, incVars, IncInv, IncTypes, OverWhenDone, CountAtMost, Race, Locked, AfterTwo
  <1> QED BY <1>1, <1>2, <1>4 DEF ThreadInv

\* The inductive invariant of the program.
THEOREM ThreadInvariant == Spec => []ThreadInv
  <1>1. ThreadInv /\ [Next]_vars => ThreadInv'
    BY MainStep, IncrementStep, FillStep, PartSixStep, ThreadStays DEF Next
  <1> QED BY <1>1, ThreadBegins, PTL DEF Spec

\* Every variable has its type; that no count of a semaphore and no counter leaves
\* its range is what the accounting of credits and of increments shows.
THEOREM ThreadTyping == Spec => []ThreadTypeOK
  <1>1. ThreadInv => ThreadTypeOK
    BY DEF ThreadInv, Parts, IncInv, IncTypes, IncRecord, FillInv, BufTypes, QueueInv, ThreadTypeOK
  <1> QED BY <1>1, ThreadInvariant, PTL

\* The unlocked counter of part one ends at 2 or more, and at no more than expected.
THEOREM RacyCounter == Spec => []CounterBounds
  <1>1. ThreadInv => CounterBounds
    <2> SUFFICES ASSUME ThreadInv, part = "one", Counted, Cardinality(Threads) > 1,
                        ITERATIONS > 1
                 PROVE  counter \in 2 .. AllIncrements
      BY DEF CounterBounds
    <2>1. Threads # {}
      BY FS_EmptySet
    <2>2. counter > 1 /\ counter \in 0 .. AllIncrements
      BY <2>1 DEF ThreadInv, IncInv, Race, IncTypes
    <2> QED BY <2>2, Increments
  <1> QED BY <1>1, ThreadInvariant, PTL

\* What the other parts leave: all increments under the mutex, one writer's string in
\* each caller's own buffer, and labels that are cut where the buffers end.
THEOREM PartResults == Spec => []Results
  <1>1. ThreadInv => Results
    <2> SUFFICES ASSUME ThreadInv PROVE Results
      OBVIOUS
    <2>1. ASSUME part = "two", Counted PROVE counter = AllIncrements
      BY <2>1, AllMade, Increments DEF ThreadInv, IncInv, Locked
    <2>2. ASSUME part = "three", Filled PROVE \A n \in Chars : buf["static"][n] \in Writers
      <3>1. \A n \in Chars : n < filled["A"]
        BY <2>2, CharsAre DEF Filled, Writers, ThreadInv, FillInv, BufTypes
      <3> QED BY <2>2, <3>1 DEF ThreadInv, FillInv, FilledSoFar, Writers
    <2>3. ASSUME part = "five" PROVE \A w \in Writers, n \in Chars : buf[w][n] = w
      BY <2>3 DEF ThreadInv, FillInv, FilledSoFar
    <2>4. /\ Tag = 4 + label
          /\ Banner = IF label = 15 THEN Tag + 4 ELSE Tag + 5
      <3>1. label \in 0 .. 15
        BY DEF ThreadInv
      <3>2. Tag = 4 + label
        BY <3>1 DEF Tag, Printed
      <3> QED BY <3>1, <3>2 DEF Banner, Printed
    <2> QED BY <2>1, <2>2, <2>3, <2>4 DEF Results
  <1> QED BY <1>1, ThreadInvariant, PTL

\* No thread of part six sleeps on a count that nobody awake will take.
THEOREM QueueWakeups == Spec => []NoLostWakeup
  <1>1. ThreadInv => NoLostWakeup
    BY DEF ThreadInv, QueueInv
  <1> QED BY <1>1, ThreadInvariant, PTL

\* The ring with its two semaphores and its mutex is a bounded FIFO, for any numbers
\* of producers, consumers, items and elements.
THEOREM QueueIsFIFO == Spec => ImplementsFIFO
  <1>1. Init => Abstract!Init
    BY QueueBegins DEF Init
  <1>2. ThreadInv /\ [Next]_vars => [Abstract!Next]_(Abstract!fifoVars)
    <2> SUFFICES ASSUME ThreadInv, [Next]_vars
                 PROVE  Abstract!Next \/ UNCHANGED Abstract!fifoVars
      OBVIOUS
    <2>1. CASE Main
      <3>1. UNCHANGED queueVars
        BY <2>1, LaterMain
           DEF Main, JoinOne, JoinTwo, JoinThree, JoinFour, queueVars, ringVars
      <3> QED BY <3>1, QueueStutters
    <2>2. ASSUME NEW t \in Threads, Increment(t) PROVE UNCHANGED Abstract!fifoVars
      BY <2>2, IncrementStep, QueueStutters
    <2>3. ASSUME NEW w \in Writers, Fill(w) PROVE UNCHANGED Abstract!fifoVars
      BY <2>3, FillStep, QueueStutters
    <2>4. ASSUME NEW t \in Users, InPartSix(Use(t) \/ Wake(t))
          PROVE  Abstract!Next \/ UNCHANGED Abstract!fifoVars
      BY <2>4, QueueRefines DEF InPartSix, ThreadInv
    <2>5. CASE UNCHANGED vars
      <3>1. UNCHANGED queueVars
        BY <2>5 DEF vars
      <3> QED BY <3>1, QueueStutters
    <2> QED BY <2>1, <2>2, <2>3, <2>4, <2>5 DEF Next
  <1> QED BY <1>1, <1>2, ThreadInvariant, PTL DEF Spec, ImplementsFIFO, Abstract!Spec
=============================================================================
