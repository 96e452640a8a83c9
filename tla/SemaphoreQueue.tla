--------------------------- MODULE SemaphoreQueue --------------------------
(***************************************************************************)
(* The bounded buffer of recitation/threads/thread_test.c, part 6: a ring  *)
(* (queue_t) under a mutex, with two counting semaphores (semc_t), each of *)
(* them a count under a mutex with a condition variable; and the producers *)
(* and consumers that use it.  main starts one of each.                    *)
(*                                                                         *)
(* A producer waits for "empty" and posts "full", a consumer the other way *)
(* round.  What is done under a mutex is one step; taking the mutex is a   *)
(* step of its own.                                                        *)
(***************************************************************************)
EXTENDS Integers, Sequences, FiniteSets

CONSTANTS Producers, Consumers,
          QSIZE, PRODUCE_COUNT,
          SPURIOUS,     \* bound: how often pthread_cond_wait returns unasked
          NULL

ASSUME QueueAssumption ==
    /\ QSIZE \in Nat \ {0} /\ PRODUCE_COUNT \in Nat \ {0} /\ SPURIOUS \in Nat
    /\ IsFiniteSet(Producers) /\ IsFiniteSet(Consumers)
    /\ Cardinality(Producers) = Cardinality(Consumers)
    /\ Producers \cap Consumers = {}

Users == Producers \cup Consumers

VARIABLES sems,         \* empty and full
          data, head, tail, qlock,
          user,         \* where each user is
          count,        \* items it has produced or consumed
          popped,       \* the last item a consumer took
          spurious

ringVars == <<data, head, tail, qlock>>
queueVars == <<sems, ringVars, user, count, popped, spurious>>

\* q_init; the users are not started.
QueueInit == /\ sems = [s \in {"empty", "full"} |->
                           [count |-> IF s = "empty" THEN QSIZE ELSE 0, m |-> NULL]]
             /\ data = [n \in 0 .. QSIZE - 1 |-> 0]
             /\ head = 0 /\ tail = 0 /\ qlock = NULL
             /\ user = [t \in Users |-> "wait"]
             /\ count = [t \in Users |-> 0]
             /\ popped = [t \in Consumers |-> 0]
             /\ spurious = 0

WaitsFor(t) == IF t \in Producers THEN "empty" ELSE "full"
Posts(t)    == IF t \in Producers THEN "full" ELSE "empty"

Asleep(s) == {t \in Users : user[t] = "asleep" /\ WaitsFor(t) = s}
-----------------------------------------------------------------------------
(* semc_wait *)

\* Mutant of LockToWait: a thread that is woken does not look at the count again.
LockToWaitOnce(t) ==
    /\ user[t] \in {"wait", "woken"} /\ sems[WaitsFor(t)].m = NULL
    /\ IF user[t] = "wait"
       THEN /\ sems' = [sems EXCEPT ![WaitsFor(t)].m = t]
            /\ user' = [user EXCEPT ![t] = "test"]
       ELSE /\ sems' = [sems EXCEPT ![WaitsFor(t)].count = @ - 1]
            /\ user' = [user EXCEPT ![t] = "lock"]
    /\ UNCHANGED <<ringVars, count, popped, spurious>>

LockToWait(t) ==
    /\ user[t] \in {"wait", "woken"} /\ sems[WaitsFor(t)].m = NULL
    /\ sems' = [sems EXCEPT ![WaitsFor(t)].m = t]
    /\ user' = [user EXCEPT ![t] = "test"]
    /\ UNCHANGED <<ringVars, count, popped, spurious>>

Take(t) ==
    /\ user[t] = "test" /\ sems[WaitsFor(t)].count # 0
    /\ sems' = [sems EXCEPT ![WaitsFor(t)] = [count |-> @.count - 1, m |-> NULL]]
    /\ user' = [user EXCEPT ![t] = "lock"]
    /\ UNCHANGED <<ringVars, count, popped, spurious>>

\* pthread_cond_wait gives up the mutex ...
Sleep(t) ==
    /\ user[t] = "test" /\ sems[WaitsFor(t)].count = 0
    /\ sems' = [sems EXCEPT ![WaitsFor(t)].m = NULL]
    /\ user' = [user EXCEPT ![t] = "asleep"]
    /\ UNCHANGED <<ringVars, count, popped, spurious>>

\* ... and may return although nobody has signalled.
Wake(t) ==
    /\ user[t] = "asleep" /\ spurious < SPURIOUS
    /\ spurious' = spurious + 1
    /\ user' = [user EXCEPT ![t] = "woken"]
    /\ UNCHANGED <<sems, ringVars, count, popped>>
-----------------------------------------------------------------------------
(* q_push, q_pop *)

LockRing(t) ==
    /\ user[t] = "lock" /\ qlock = NULL
    /\ qlock' = t
    /\ user' = [user EXCEPT ![t] = "ring"]
    /\ UNCHANGED <<sems, data, head, tail, count, popped, spurious>>

\* Mutant of Following: the last element is left out.
FollowingShort(n) == IF n + 1 >= QSIZE - 1 THEN 0 ELSE n + 1

Following(n) == (n + 1) % QSIZE

\* A producer's items are 1 .. PRODUCE_COUNT.
Push(t) ==
    /\ t \in Producers /\ user[t] = "ring"
    /\ data' = [data EXCEPT ![tail] = count[t] + 1]
    /\ tail' = Following(tail)
    /\ qlock' = NULL
    /\ user' = [user EXCEPT ![t] = "post"]
    /\ UNCHANGED <<sems, head, count, popped, spurious>>

Pop(t) ==
    /\ t \in Consumers /\ user[t] = "ring"
    /\ popped' = [popped EXCEPT ![t] = data[head]]
    /\ head' = Following(head)
    /\ qlock' = NULL
    /\ user' = [user EXCEPT ![t] = "post"]
    /\ UNCHANGED <<sems, data, tail, count, spurious>>
-----------------------------------------------------------------------------
(* semc_post, and the loops of producer and consumer *)

LockToPost(t) ==
    /\ user[t] = "post" /\ sems[Posts(t)].m = NULL
    /\ sems' = [sems EXCEPT ![Posts(t)].m = t]
    /\ user' = [user EXCEPT ![t] = "posting"]
    /\ UNCHANGED <<ringVars, count, popped, spurious>>

Onward(t) == IF count[t] + 1 < PRODUCE_COUNT THEN "wait" ELSE "over"

\* Mutant of Signalled: nobody is woken.
SignalledNobody(t) == user' = [user EXCEPT ![t] = Onward(t)]

\* pthread_cond_signal wakes one thread that waits, if there is one.
Signalled(t) ==
    LET s == Posts(t)
    IN  \/ Asleep(s) = {} /\ user' = [user EXCEPT ![t] = Onward(t)]
        \/ \E other \in Asleep(s) :
              user' = [user EXCEPT ![t] = Onward(t), ![other] = "woken"]

Post(t) ==
    /\ user[t] = "posting"
    /\ sems' = [sems EXCEPT ![Posts(t)] = [count |-> @.count + 1, m |-> NULL]]
    /\ count' = [count EXCEPT ![t] = @ + 1]
    /\ Signalled(t)
    /\ UNCHANGED <<ringVars, popped, spurious>>

Use(t) == \/ LockToWait(t) \/ Take(t) \/ Sleep(t)
          \/ LockRing(t) \/ Push(t) \/ Pop(t)
          \/ LockToPost(t) \/ Post(t)
-----------------------------------------------------------------------------
(* Properties *)

QueueTypeOK ==
    /\ sems \in [{"empty", "full"} -> [count : 0 .. QSIZE, m : Users \cup {NULL}]]
    /\ data \in [0 .. QSIZE - 1 -> 0 .. PRODUCE_COUNT]
    /\ head \in 0 .. QSIZE - 1 /\ tail \in 0 .. QSIZE - 1
    /\ qlock \in Users \cup {NULL}
    /\ user \in [Users -> {"wait", "test", "asleep", "woken", "lock", "ring",
                           "post", "posting", "over"}]
    /\ count \in [Users -> 0 .. PRODUCE_COUNT]
    /\ popped \in [Consumers -> 0 .. PRODUCE_COUNT]
    /\ spurious \in 0 .. SPURIOUS

\* A post is not lost on a thread that sleeps: while one does, there are as many
\* threads awake on their way to the count as it has to give.
NoLostWakeup ==
    \A s \in DOMAIN sems :
       Asleep(s) # {} =>
          sems[s].count <= Cardinality({t \in Users : /\ WaitsFor(t) = s
                                                      /\ user[t] \in {"woken", "test"}})

\* Items in the ring: those that "full" counts, those it is yet to be told of,
\* and those that have been promised to a consumer.
Stored == sems["full"].count
          + Cardinality({t \in Producers : user[t] \in {"post", "posting"}})
          + Cardinality({t \in Consumers : user[t] \in {"lock", "ring"}})

Abstract == INSTANCE BoundedFIFO
            WITH Capacity <- QSIZE, Callers <- Consumers,
                 Values <- 1 .. PRODUCE_COUNT, Nothing <- 0,
                 queue <- [n \in 1 .. Stored |-> data[(head + n - 1) % QSIZE]],
                 received <- popped

\* The ring is a bounded FIFO: nothing is lost, handed out twice, overwritten or
\* read before it is there ("what do empty/full count? Why mutex too?", 356).
ImplementsFIFO == Abstract!Spec
=============================================================================
