---------------------------- MODULE SharedArray ----------------------------
(***************************************************************************)
(* assignments/pa4/array.c: a circular array of ARRAY_SIZE hostnames, the  *)
(* binary semaphore "mutex" and the counting semaphores "full" and         *)
(* "empty".  Any thread may call array_put or array_get at any time; one   *)
(* action is one semaphore operation or one stretch of code between two.   *)
(* pc[t] names the operation thread t performs next.                       *)
(***************************************************************************)
EXTENDS Integers, FiniteSets

CONSTANTS ARRAY_SIZE,   \* slots
          Threads,      \* the callers
          Hostnames,    \* the strings passed to array_put
          LongNames,    \* those whose strlen is MAX_NAME_LENGTH or more
          Targets,      \* what array_get is passed: BUFFER, NULL or both
          BUFFER,       \* the address of a pointer to a caller's buffer
          NULL,         \* a null pointer; also "no argument" between calls
          EMPTY         \* the empty string, the content of a zeroed slot

ASSUME SizeAssumption == ARRAY_SIZE \in Nat \ {0}
ASSUME ThreadsAssumption == IsFiniteSet(Threads)
ASSUME NamesAssumption == LongNames \subseteq Hostnames
ASSUME TargetsAssumption == Targets \subseteq {BUFFER, NULL}

VARIABLES head, tail, arr,      \* the fields of shared_t
          mutex, full, empty,   \* the values of its three semaphores
          pc,                   \* where each thread is
          arg,                  \* hostname, the parameter of the call
          num_items,            \* the local of array_put
          got,                  \* the contents of each caller's buffer
          ret                   \* the outcome of the last call that returned

ringVars == <<head, tail, arr>>
semVars  == <<mutex, full, empty>>
callVars == <<arg, num_items, got, ret>>
vars == <<head, tail, arr, mutex, full, empty, pc, arg, num_items, got, ret>>

Slots == 0 .. ARRAY_SIZE - 1

PutSteps == {"wait_empty", "put_lock", "put_items", "put_store",
             "put_unlock", "post_full"}
GetSteps == {"wait_full", "get_lock", "get_copy", "get_unlock", "post_empty"}

\* Mutant of Init: one slot too many announced to the producers.
InitExtraSlot == /\ head = 0 /\ tail = 0
                 /\ arr = [i \in Slots |-> EMPTY]
                 /\ mutex = 1 /\ full = 0 /\ empty = ARRAY_SIZE + 1
                 /\ pc = [t \in Threads |-> "idle"]
                 /\ arg = [t \in Threads |-> NULL]
                 /\ num_items = [t \in Threads |-> 0]
                 /\ got = [t \in Threads |-> EMPTY]
                 /\ ret = [t \in Threads |-> "ok"]

\* array_init after a successful allocation of every slot: the semaphores
\* hold 1, 0 and ARRAY_SIZE, and every slot is zeroed.
Init == /\ head = 0 /\ tail = 0
        /\ arr = [i \in Slots |-> EMPTY]
        /\ mutex = 1 /\ full = 0 /\ empty = ARRAY_SIZE
        /\ pc = [t \in Threads |-> "idle"]
        /\ arg = [t \in Threads |-> NULL]
        /\ num_items = [t \in Threads |-> 0]
        /\ got = [t \in Threads |-> EMPTY]
        /\ ret = [t \in Threads |-> "ok"]

At(t, step)   == pc[t] = step
Goto(t, step) == pc' = [pc EXCEPT ![t] = step]

\* "ok" is a return of 0; the caller knows which call gave it a -1.
Outcomes == {"ok", "put_error", "get_error"}

\* A return forgets the locals of the call.
Return(t, value) == /\ Goto(t, "idle")
                    /\ ret' = [ret EXCEPT ![t] = value]
                    /\ arg' = [arg EXCEPT ![t] = NULL]
                    /\ num_items' = [num_items EXCEPT ![t] = 0]
-----------------------------------------------------------------------------
(* array_put(s, hostname) *)

CallPut(t, h) == /\ At(t, "idle")
                 /\ Goto(t, "wait_empty")
                 /\ arg' = [arg EXCEPT ![t] = h]
                 /\ UNCHANGED <<ringVars, semVars, num_items, got, ret>>

WaitEmpty(t) == /\ At(t, "wait_empty") /\ empty > 0
                /\ empty' = empty - 1
                /\ Goto(t, "put_lock")
                /\ UNCHANGED <<ringVars, mutex, full, callVars>>

PutLock(t) == /\ At(t, "put_lock") /\ mutex = 1
              /\ mutex' = 0
              /\ Goto(t, "put_items")
              /\ UNCHANGED <<ringVars, full, empty, callVars>>

\* The early return comes before either sem_post: the mutex stays taken.
PutTooLong(t) == /\ At(t, "put_items") /\ arg[t] \in LongNames
                 /\ Return(t, "put_error")
                 /\ UNCHANGED <<ringVars, semVars, got>>

\* Mutant of PutItems: the index counts from one.
PutItemsOffByOne(t) == /\ At(t, "put_items") /\ arg[t] \notin LongNames
                       /\ num_items' = [num_items EXCEPT ![t] = full + 1]
                       /\ Goto(t, "put_store")
                       /\ UNCHANGED <<ringVars, semVars, arg, got, ret>>

\* sem_getvalue reads full, which other threads move without the mutex.
PutItems(t) == /\ At(t, "put_items") /\ arg[t] \notin LongNames
               /\ num_items' = [num_items EXCEPT ![t] = full]
               /\ Goto(t, "put_store")
               /\ UNCHANGED <<ringVars, semVars, arg, got, ret>>

\* Mutant of PutStore: the modulo is forgotten.
PutStoreNoWrap(t) == /\ At(t, "put_store")
                     /\ tail' = head + num_items[t]
                     /\ arr' = [arr EXCEPT ![tail'] = arg[t]]
                     /\ Goto(t, "put_unlock")
                     /\ UNCHANGED <<head, semVars, callVars>>

PutStore(t) == /\ At(t, "put_store")
               /\ tail' = (head + num_items[t]) % ARRAY_SIZE
               /\ arr' = [arr EXCEPT ![tail'] = arg[t]]
               /\ Goto(t, "put_unlock")
               /\ UNCHANGED <<head, semVars, callVars>>

PutUnlock(t) == /\ At(t, "put_unlock")
                /\ mutex' = mutex + 1
                /\ Goto(t, "post_full")
                /\ UNCHANGED <<ringVars, full, empty, callVars>>

PostFull(t) == /\ At(t, "post_full")
               /\ full' = full + 1
               /\ Return(t, "ok")
               /\ UNCHANGED <<ringVars, mutex, empty, got>>
-----------------------------------------------------------------------------
(* array_get(s, hostname) *)

CallGet(t, d) == /\ At(t, "idle")
                 /\ Goto(t, "wait_full")
                 /\ arg' = [arg EXCEPT ![t] = d]
                 /\ UNCHANGED <<ringVars, semVars, num_items, got, ret>>

WaitFull(t) == /\ At(t, "wait_full") /\ full > 0
               /\ full' = full - 1
               /\ Goto(t, "get_lock")
               /\ UNCHANGED <<ringVars, mutex, empty, callVars>>

\* Mutant of GetLock: consumers do not wait for the mutex.
GetLockNoWait(t) == /\ At(t, "get_lock")
                    /\ mutex' = 0
                    /\ Goto(t, "get_copy")
                    /\ UNCHANGED <<ringVars, full, empty, callVars>>

GetLock(t) == /\ At(t, "get_lock") /\ mutex = 1
              /\ mutex' = 0
              /\ Goto(t, "get_copy")
              /\ UNCHANGED <<ringVars, full, empty, callVars>>

\* As in array_put, the error path returns with the mutex taken.
GetNull(t) == /\ At(t, "get_copy") /\ arg[t] = NULL
              /\ Return(t, "get_error")
              /\ UNCHANGED <<ringVars, semVars, got>>

\* Mutant of GetCopy: head stays where it is.
GetCopyKeepsHead(t) == /\ At(t, "get_copy") /\ arg[t] # NULL
                       /\ got' = [got EXCEPT ![t] = arr[head]]
                       /\ Goto(t, "get_unlock")
                       /\ UNCHANGED <<head, tail, arr, semVars, arg, num_items, ret>>

GetCopy(t) == /\ At(t, "get_copy") /\ arg[t] # NULL
              /\ got' = [got EXCEPT ![t] = arr[head]]
              /\ head' = (head + 1) % ARRAY_SIZE
              /\ Goto(t, "get_unlock")
              /\ UNCHANGED <<tail, arr, semVars, arg, num_items, ret>>

GetUnlock(t) == /\ At(t, "get_unlock")
                /\ mutex' = mutex + 1
                /\ Goto(t, "post_empty")
                /\ UNCHANGED <<ringVars, full, empty, callVars>>

\* Mutant of PostEmpty: the slot is never given back.
PostEmptyDropped(t) == /\ At(t, "post_empty")
                       /\ Return(t, "ok")
                       /\ UNCHANGED <<ringVars, mutex, full, empty, got>>

PostEmpty(t) == /\ At(t, "post_empty")
                /\ empty' = empty + 1
                /\ Return(t, "ok")
                /\ UNCHANGED <<ringVars, mutex, full, got>>
-----------------------------------------------------------------------------
PutStep(t) == \/ WaitEmpty(t) \/ PutLock(t) \/ PutTooLong(t) \/ PutItems(t)
              \/ PutStore(t) \/ PutUnlock(t) \/ PostFull(t)

GetStep(t) == \/ WaitFull(t) \/ GetLock(t) \/ GetNull(t)
              \/ GetCopy(t) \/ GetUnlock(t) \/ PostEmpty(t)

Next == \E t \in Threads : \/ \E h \in Hostnames : CallPut(t, h)
                           \/ \E d \in Targets : CallGet(t, d)
                           \/ PutStep(t)
                           \/ GetStep(t)

Spec == Init /\ [][Next]_vars

(***************************************************************************)
(* Callers that keep every put away from all other calls, while gets may   *)
(* overlap one another: the fill-then-drain use, or a reader/writer lock   *)
(* around the array.                                                       *)
(***************************************************************************)
Idle(t)    == pc[t] = "idle"
Putting(t) == pc[t] \in PutSteps

PhasedNext == \E t \in Threads :
                 \/ /\ \A u \in Threads : Idle(u)
                    /\ \E h \in Hostnames : CallPut(t, h)
                 \/ /\ \A u \in Threads : ~ Putting(u)
                    /\ \E d \in Targets : CallGet(t, d)
                 \/ PutStep(t)
                 \/ GetStep(t)

PhasedSpec == Init /\ [][PhasedNext]_vars
-----------------------------------------------------------------------------
(* Properties *)

\* Every variable has its type; the semaphores stay within their range.
TypeOK == /\ head \in Slots /\ tail \in Slots
          /\ arr \in [Slots -> Hostnames \cup {EMPTY}]
          /\ mutex \in {0, 1} /\ full \in Nat /\ empty \in Nat
          /\ pc \in [Threads -> PutSteps \cup GetSteps \cup {"idle"}]
          /\ arg \in [Threads -> Hostnames \cup {BUFFER, NULL}]
          /\ num_items \in [Threads -> Nat]
          /\ got \in [Threads -> Hostnames \cup {EMPTY}]
          /\ ret \in [Threads -> Outcomes]

Critical == {"put_items", "put_store", "put_unlock", "get_copy", "get_unlock"}

\* The threads that keep the mutex from being 1: those between its sem_wait
\* and its sem_post, and those whose call returned -1 and never posted it.
Failed == {t \in Threads : ret[t] # "ok"}
Owners == {t \in Threads : pc[t] \in Critical} \cup Failed

\* array.c promises "exclusive access" (43, 76): at most one thread is
\* between lock and unlock, the mutex is 0 exactly while there is one, and
\* once a call has failed no thread enters again.
MutualExclusion == /\ \A t, u \in Owners : t = u
                   /\ mutex = 1 <=> Owners = {}

\* A credit taken from one counting semaphore and not yet given to the
\* other.  A failed call never gives its credit back.
InTransit == {t \in Threads : pc[t] \notin {"idle", "wait_empty", "wait_full"}}

\* "full" and "empty" account for every slot: what neither counts is held by
\* a call in progress or was lost by a call that failed.
SlotsAccountedFor ==
    full + empty + Cardinality(InTransit) + Cardinality(Failed) = ARRAY_SIZE

\* Items written and not yet copied out: those "full" counts, those whose
\* producer has yet to post full, those whose consumer has yet to copy, and
\* the one a failed get took from "full" without copying it.
StoredBy  == {t \in Threads :
                pc[t] \in {"put_unlock", "post_full", "get_lock", "get_copy"}}
FailedGet == {t \in Threads : ret[t] = "get_error"}
Stored    == full + Cardinality(StoredBy) + Cardinality(FailedGet)

\* The index a put computes from sem_getvalue never lies beyond the next
\* open slot, and falls short of it by less than the number of threads:
\* array_put may overwrite unread items, but never leaves a gap.
NoGap == \A t \in Threads :
            pc[t] = "put_store" => /\ num_items[t] <= Stored
                                   /\ Stored < num_items[t] + Cardinality(Threads)
                                   /\ Stored < ARRAY_SIZE

\* The array as an abstract FIFO queue: the unread slots from head on.
Unread == [i \in 1 .. Stored |-> arr[(head + i - 1) % ARRAY_SIZE]]

FIFO == INSTANCE BoundedFIFO WITH
            Capacity <- ARRAY_SIZE, Callers <- Threads, Values <- Hostnames,
            Nothing <- EMPTY, queue <- Unread, received <- got

Count == INSTANCE Occupancy WITH Capacity <- ARRAY_SIZE, stored <- Stored

\* array.h:11 calls the type a "shared, circular FIFO array": every call of
\* array_put appends one hostname and every call of array_get hands out the
\* oldest one.
IsFIFO == FIFO!Spec

\* Whatever the interleaving, the number of unread items moves one at a time
\* and stays between 0 and ARRAY_SIZE: the semaphores block as they should.
CountsItems == Count!Spec
=============================================================================
