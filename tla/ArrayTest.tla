----------------------------- MODULE ArrayTest -----------------------------
(***************************************************************************)
(* assignments/pa4/test.c: the life of one shared array.  main initialises *)
(* it, starts NUM_THREADS threads (the even ones produce, the odd ones     *)
(* consume NUM_ITEMS items each), joins them and frees the array.          *)
(*                                                                         *)
(* Every hostname of the test is the one string literal "facebook.com", so *)
(* what the strings contain is left out: Hostnames has a single member.    *)
(***************************************************************************)
EXTENDS SharedArray

CONSTANTS NUM_THREADS, NUM_ITEMS,
          MayFail,      \* the external calls that may fail
          LiteralStore  \* what a write to a string literal may do

ASSUME ThreadNumbers == /\ NUM_THREADS \in Nat \ {0} /\ NUM_ITEMS \in Nat
                         /\ Threads = 0 .. NUM_THREADS - 1
ASSUME OneHostname == /\ Hostnames # {} /\ LongNames = {}
                       /\ Targets = {BUFFER} /\ BUFFER # NULL
ASSUME FailureAssumption ==
    /\ MayFail \subseteq {"slot_malloc", "args_malloc", "pthread_create"}
    /\ LiteralStore \subseteq {"faults", "lands"}

VARIABLES main,     \* where main is
          next,     \* its loop index i
          live,     \* the slots whose memory is allocated
          life,     \* what became of each thread
          count     \* the loop index of each thread routine

testVars == <<main, next, live, life, count>>
allVars  == <<vars, testVars>>

\* The process ends when main returns, when it calls exit, or by a fault.
Ended == {"returned", "exit_failure", "fault"}
Alive == main \notin Ended

\* main calls array_init before any thread exists, so the array is described
\* from the start as a successful array_init leaves it.
TestInit == /\ Init
            /\ main = "init" /\ next = 0 /\ live = {}
            /\ life = [t \in Threads |-> "none"]
            /\ count = [t \in Threads |-> 0]
-----------------------------------------------------------------------------
(* main *)

ArrayInit == /\ main = "init"
             /\ main' = "spawn" /\ live' = Slots
             /\ UNCHANGED <<vars, next, life, count>>

\* The k-th malloc fails: array_init returns without posting the mutex.
ArrayInitFails == /\ main = "init" /\ "slot_malloc" \in MayFail
                  /\ \E k \in Slots : live' = 0 .. k - 1
                  /\ main' = "free_failed" /\ mutex' = 0
                  /\ UNCHANGED <<ringVars, full, empty, pc, callVars,
                                 next, life, count>>

Advance(loop, after) == IF next + 1 = NUM_THREADS
                        THEN main' = after /\ next' = 0
                        ELSE main' = loop  /\ next' = next + 1

\* pthread_create reports failure by a positive number, which the comparison
\* with -1 misses: main goes on without the thread.
CreateThread == /\ main = "spawn"
                /\ \/ life' = [life EXCEPT ![next] = "running"]
                   \/ /\ "pthread_create" \in MayFail
                      /\ life' = [life EXCEPT ![next] = "absent"]
                /\ Advance("spawn", "join")
                /\ UNCHANGED <<vars, live, count>>

ArgsMallocFails == /\ main = "spawn" /\ "args_malloc" \in MayFail
                   /\ main' = "exit_failure"
                   /\ UNCHANGED <<vars, next, live, life, count>>

\* Mutant of JoinThread: main does not wait.
JoinThreadNoWait == /\ main = "join"
                    /\ Advance("join", "free")
                    /\ UNCHANGED <<vars, live, life, count>>

\* Joining a thread that was never created uses an uninitialised pthread_t:
\* the call returns an error or the process faults.
JoinThread == /\ main = "join" /\ life[next] \in {"exited", "absent"}
              /\ \/ Advance("join", "free")
                 \/ life[next] = "absent" /\ main' = "fault" /\ next' = next
              /\ UNCHANGED <<vars, live, life, count>>

\* array_free waits for the mutex, frees every slot and posts it again.
ArrayFree == /\ main \in {"free_failed", "free"} /\ mutex = 1
             /\ live' = {}
             /\ main' = IF main = "free" THEN "return" ELSE "spawn"
             /\ UNCHANGED <<vars, next, life, count>>

Return0 == /\ main = "return" /\ main' = "returned"
           /\ UNCHANGED <<vars, next, live, life, count>>
-----------------------------------------------------------------------------
(* produce_routine and consume_routine *)

Produces(t) == t % 2 = 0

Looping(t) == /\ Alive /\ life[t] = "running" /\ Idle(t)
              /\ ret[t] = "ok" /\ count[t] < NUM_ITEMS

Produce(t) == /\ Looping(t) /\ Produces(t)
              /\ \E h \in Hostnames : CallPut(t, h)
              /\ UNCHANGED testVars

Consume(t) == /\ Looping(t) /\ ~ Produces(t)
              /\ CallGet(t, BUFFER)
              /\ UNCHANGED testVars

\* One step inside array_put or array_get; the loop index moves on return.
InCall(t) == /\ Alive
             /\ PutStep(t) \/ GetStep(t)
             /\ At(t, "get_copy") => "lands" \in LiteralStore
             /\ count' = IF pc'[t] = "idle"
                         THEN [count EXCEPT ![t] = @ + 1] ELSE count
             /\ UNCHANGED <<main, next, live, life>>

\* consume_routine passes the address of args->hostname, which points to the
\* literal: the strncpy of array_get writes to read-only memory.
CopyFaults(t) == /\ Alive /\ At(t, "get_copy") /\ "faults" \in LiteralStore
                 /\ main' = "fault"
                 /\ UNCHANGED <<vars, next, live, life, count>>

\* Mutant of ExitThread: the consumers run one iteration short.
ExitThreadEarly(t) == /\ Alive /\ life[t] = "running" /\ Idle(t)
                      /\ \/ ret[t] # "ok"
                         \/ count[t] = IF Produces(t) THEN NUM_ITEMS ELSE NUM_ITEMS - 1
                      /\ life' = [life EXCEPT ![t] = "exited"]
                      /\ UNCHANGED <<vars, main, next, live, count>>

ExitThread(t) == /\ Alive /\ life[t] = "running" /\ Idle(t)
                 /\ ret[t] # "ok" \/ count[t] = NUM_ITEMS
                 /\ life' = [life EXCEPT ![t] = "exited"]
                 /\ UNCHANGED <<vars, main, next, live, count>>
-----------------------------------------------------------------------------
Main == ArrayInit \/ ArrayInitFails \/ CreateThread \/ ArgsMallocFails
        \/ JoinThread \/ ArrayFree \/ Return0

Thread(t) == Produce(t) \/ Consume(t) \/ InCall(t) \/ CopyFaults(t) \/ ExitThread(t)

TestNext == Main \/ \E t \in Threads : Thread(t)

TestSpec == TestInit /\ [][TestNext]_allVars

\* The scheduler runs every thread that stays able to run.  Each thread makes
\* finitely many calls, so nothing stronger is needed for the semaphores.
FairTest == /\ TestSpec
            /\ WF_allVars(Main)
            /\ \A t \in Threads : WF_allVars(Thread(t))
-----------------------------------------------------------------------------
(* Properties *)

\* array_free runs after the last access: whoever is inside the critical
\* section of a process that is alive finds every slot allocated.
NoUseAfterFree == \A t \in Threads :
                     Alive /\ pc[t] \in Critical => live = Slots

\* The test is balanced: when main comes to free the array and every thread
\* was created, all items were taken and every slot is free again.
Drained == /\ main = "free"
           /\ \A t \in Threads : life[t] # "absent"
           => full = 0 /\ empty = ARRAY_SIZE

\* No external call has failed and no fault has happened.
Undisturbed == /\ main \notin {"free_failed", "exit_failure", "fault"}
               /\ \A t \in Threads : life[t] # "absent"

\* test.c:114 "wait for threads to finish execution and cleanup resources": in
\* an undisturbed run the waits of the threads for each other resolve, main
\* joins all of them and comes to the end of array_free.
CleansUp == []Undisturbed => <>(main = "returned")

\* The same where no external call fails: the comment knows no other way for
\* the test to end.
TestReturns == <>(main = "returned")
=============================================================================
