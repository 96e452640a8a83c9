---------------------------- MODULE MultiLookup ----------------------------
(***************************************************************************)
(* assignments/pa6/multi-lookup.c: main starts a pool of requesters and a  *)
(* pool of resolvers, feeds the data files to the requesters through       *)
(* file_store, and shuts each pool down with one poison pill per thread.   *)
(* Requesters pass the hostnames they read to the resolvers through        *)
(* host_store.                                                             *)
(*                                                                         *)
(* The type "array" of the two stores is not part of the repository.  From *)
(* its use it is a bounded FIFO queue whose array_put and array_get block, *)
(* and whose array_put returns ERROR for a name it cannot store.           *)
(*                                                                         *)
(* An fprintf between the lock and the unlock of one of the four output    *)
(* mutexes is one step: nothing else is locked or waited for inside.       *)
(***************************************************************************)
EXTENDS Integers, FiniteSets, Sequences, SequencesExt

CONSTANTS Commands,             \* what argv[5..], the data files, may be
          NumRequesters, NumResolvers,
          MAX_INPUT_FILES,
          Capacity,             \* of each of the two stores
          POISON,               \* the string "{END}"
          Contents,             \* the lines of each file that can be opened
          Hosts,                \* every line a file can hold, a "{END}" too
          Addresses,            \* the answer of getaddrinfo, per hostname
          Unstorable,           \* the names array_put rejects
          MayFail               \* the external calls that may fail

Requesters == 1 .. NumRequesters
Resolvers  == 1 .. NumResolvers
Files      == DOMAIN Contents

ASSUME CountsAssumption ==
    NumRequesters \in Nat /\ NumResolvers \in Nat /\ Capacity \in Nat \ {0}
ASSUME CommandsAssumption ==
    \A c \in Commands : Len(c) \in Nat /\ DOMAIN c = 1 .. Len(c)
ASSUME ContentsAssumption ==
    /\ POISON \in Hosts
    /\ \A f \in Files : f # POISON /\ Contents[f] \in Seq(Hosts)
ASSUME AddressAssumption ==
    \A h \in Hosts : Addresses[h] \in Seq({"AF_INET", "AF_INET6"})
ASSUME FailureAssumption == MayFail \subseteq {"args_malloc", "pthread_create"}

VARIABLES data_files,           \* argv[5..]
          main, i, result,      \* where main is, its loop index and result
          live,                 \* the stores and mutexes exist
          file_store, host_store,
          req, rest, req_count, \* requesters: step, unread lines, num_serviced
          res, host, res_count, \* resolvers: step, host_name, num_serviced
          serviced, results     \* how often each line is in the two log files

mainVars == <<main, i, result, live>>
reqVars  == <<req, rest, req_count>>
resVars  == <<res, host, res_count>>
logVars  == <<serviced, results>>
vars == <<data_files, mainVars, file_store, host_store, reqVars, resVars, logVars>>

ERROR == -1

Answers == {"address", "UNHANDELED", "NOT_RESOLVED"}

Init == /\ data_files \in Commands
        /\ main = "parse" /\ i = 1 /\ result = 0 /\ live = FALSE
        /\ file_store = << >> /\ host_store = << >>
        /\ req = [r \in Requesters |-> "none"]
        /\ rest = [r \in Requesters |-> << >>]
        /\ req_count = [r \in Requesters |-> 0]
        /\ res = [s \in Resolvers |-> "none"]
        /\ host = [s \in Resolvers |-> POISON]
        /\ res_count = [s \in Resolvers |-> 0]
        /\ serviced = [h \in Hosts |-> 0]
        /\ results = [line \in Hosts \X Answers |-> 0]

\* The process is over when main returns or a fault stops it.
Alive == main \notin {"rejected", "returned", "fault"}

HasRoom(store) == Len(store) < Capacity
-----------------------------------------------------------------------------
(* main: arguments and thread creation *)

\* argc - 6 is one less than the number of data files.
ParseArguments ==
    /\ main = "parse"
    /\ IF Len(data_files) >= 1 /\ Len(data_files) - 1 <= MAX_INPUT_FILES
       THEN main' = "spawn_req" /\ live' = TRUE
       ELSE main' = "rejected"  /\ live' = FALSE
    /\ result' = IF main' = "rejected" THEN ERROR ELSE 0
    /\ UNCHANGED <<i, file_store, host_store, reqVars, resVars, logVars>>

\* spawn_threads compares the result of pthread_create, a positive number
\* when it fails, with ERROR = -1: a thread that was not created is missed.
Created == {"started"} \cup (MayFail \cap {"pthread_create"})

SpawnRequester ==
    /\ main = "spawn_req" /\ i <= NumRequesters
    /\ \E outcome \in Created :
          req' = [req EXCEPT ![i] = IF outcome = "started" THEN "get_file"
                                                           ELSE "absent"]
    /\ i' = i + 1
    /\ UNCHANGED <<main, result, live, file_store, host_store, rest, req_count,
                   resVars, logVars>>

\* res_args has num_requesters elements: a later resolver writes beyond it,
\* which goes unnoticed or faults.
SpawnResolver ==
    /\ main = "spawn_res" /\ i <= NumResolvers
    /\ \/ /\ \E outcome \in Created :
                res' = [res EXCEPT ![i] = IF outcome = "started"
                                          THEN "get_host" ELSE "absent"]
          /\ i' = i + 1 /\ main' = main
       \/ /\ i > NumRequesters
          /\ main' = "fault" /\ UNCHANGED <<res, i>>
    /\ UNCHANGED <<result, live, file_store, host_store, reqVars, host,
                   res_count, logVars>>

\* A malloc that fails ends the loop of spawn_threads.
ArgsMallocFails ==
    /\ "args_malloc" \in MayFail
    /\ \/ main = "spawn_req" /\ i <= NumRequesters /\ main' = "spawn_res"
       \/ main = "spawn_res" /\ i <= NumResolvers  /\ main' = "cleanup"
    /\ i' = 1 /\ result' = ERROR
    /\ UNCHANGED <<live, file_store, host_store, reqVars, resVars, logVars>>

SpawnDone ==
    /\ \/ main = "spawn_req" /\ i > NumRequesters /\ main' = "spawn_res"
       \/ /\ main = "spawn_res" /\ i > NumResolvers
          /\ main' = IF result = ERROR THEN "cleanup" ELSE "put_files"
    /\ i' = 1
    /\ UNCHANGED <<result, live, file_store, host_store, reqVars, resVars,
                   logVars>>
-----------------------------------------------------------------------------
(* main: feeding the pools and shutting them down *)

\* Mutant of PutFile: array_put does not block on a full store.
PutFileNoWait ==
    /\ main = "put_files" /\ i <= Len(data_files)
    /\ file_store' = Append(file_store, data_files[i])
    /\ i' = i + 1
    /\ UNCHANGED <<main, result, live, host_store, reqVars, resVars, logVars>>

PutFile ==
    /\ main = "put_files" /\ i <= Len(data_files)
    /\ IF data_files[i] \in Unstorable
       THEN /\ main' = "cleanup" /\ result' = ERROR
            /\ UNCHANGED <<i, file_store>>
       ELSE /\ HasRoom(file_store)
            /\ file_store' = Append(file_store, data_files[i])
            /\ i' = i + 1 /\ UNCHANGED <<main, result>>
    /\ UNCHANGED <<live, host_store, reqVars, resVars, logVars>>

PoisonFiles ==
    /\ main = "poison_files" /\ i <= NumRequesters /\ HasRoom(file_store)
    /\ file_store' = Append(file_store, POISON)
    /\ i' = i + 1
    /\ UNCHANGED <<main, result, live, host_store, reqVars, resVars, logVars>>

\* Mutant of PoisonHosts: one pill too few.
PoisonHostsShort ==
    /\ main = "poison_hosts" /\ i <= NumResolvers /\ HasRoom(host_store)
    /\ host_store' = IF i = 1 THEN host_store ELSE Append(host_store, POISON)
    /\ i' = i + 1
    /\ UNCHANGED <<main, result, live, file_store, reqVars, resVars, logVars>>

PoisonHosts ==
    /\ main = "poison_hosts" /\ i <= NumResolvers /\ HasRoom(host_store)
    /\ host_store' = Append(host_store, POISON)
    /\ i' = i + 1
    /\ UNCHANGED <<main, result, live, file_store, reqVars, resVars, logVars>>

\* Joining a thread that was never created uses an uninitialised pthread_t:
\* the call returns an error or the process faults.
Joinable(state) == state \in {"exited", "absent"}

Join(state) == /\ Joinable(state)
               /\ \/ i' = i + 1 /\ main' = main
                  \/ state = "absent" /\ main' = "fault" /\ i' = i

\* Mutant of JoinRequester: main does not wait for the requesters to finish.
JoinRequesterNoWait ==
    /\ main = "join_req" /\ i <= NumRequesters
    /\ i' = i + 1
    /\ UNCHANGED <<main, result, live, file_store, host_store, reqVars, resVars, logVars>>

JoinRequester ==
    /\ main = "join_req" /\ i <= NumRequesters /\ Join(req[i])
    /\ UNCHANGED <<result, live, file_store, host_store, reqVars, resVars, logVars>>

\* Mutant of JoinResolver: main does not wait for the resolvers.
JoinResolverNoWait ==
    /\ main = "join_res" /\ i <= NumResolvers
    /\ i' = i + 1
    /\ UNCHANGED <<main, result, live, file_store, host_store, reqVars, resVars, logVars>>

JoinResolver ==
    /\ main = "join_res" /\ i <= NumResolvers /\ Join(res[i])
    /\ UNCHANGED <<result, live, file_store, host_store, reqVars, resVars, logVars>>

\* The stages of main after thread creation, each with its loop bound.
Stages == <<"put_files", "poison_files", "join_req", "poison_hosts",
            "join_res", "cleanup">>

Bound(k) == CASE k = 1 -> Len(data_files)
              [] k \in {2, 3} -> NumRequesters
              [] k \in {4, 5} -> NumResolvers

NextStage ==
    \E k \in 1 .. 5 :
       /\ main = Stages[k] /\ i > Bound(k)
       /\ main' = Stages[k + 1] /\ i' = 1
       /\ UNCHANGED <<result, live, file_store, host_store, reqVars, resVars, logVars>>

FreeResources ==
    /\ main = "cleanup"
    /\ IF live THEN live' = FALSE /\ main' = main
               ELSE live' = live  /\ main' = "returned"
    /\ UNCHANGED <<i, result, file_store, host_store, reqVars, resVars, logVars>>

Main == /\ \/ ParseArguments \/ SpawnRequester \/ SpawnResolver
           \/ ArgsMallocFails \/ SpawnDone \/ PutFile \/ PoisonFiles
           \/ PoisonHosts \/ JoinRequester \/ JoinResolver \/ NextStage
           \/ FreeResources
        /\ UNCHANGED data_files
-----------------------------------------------------------------------------
(* requester(arg) *)

\* array_get, the test for the pill and fopen.
GetFile(r) ==
    /\ Alive /\ req[r] = "get_file" /\ file_store # << >>
    /\ file_store' = Tail(file_store)
    /\ IF Head(file_store) \in Files
       THEN /\ req' = [req EXCEPT ![r] = "read"]
            /\ rest' = [rest EXCEPT ![r] = Contents[Head(file_store)]]
       ELSE /\ req' = [req EXCEPT ![r] = "exited"]
            /\ UNCHANGED rest
    /\ UNCHANGED <<mainVars, host_store, req_count, resVars, logVars>>

\* Mutant of PutLine: the ERROR of array_put is not looked at.
PutLineUnchecked(r) ==
    /\ Alive /\ req[r] = "read" /\ rest[r] # << >>
    /\ req' = [req EXCEPT ![r] = "log"]
    /\ IF Head(rest[r]) \in Unstorable
       THEN UNCHANGED host_store
       ELSE /\ HasRoom(host_store)
            /\ host_store' = Append(host_store, Head(rest[r]))
    /\ UNCHANGED <<mainVars, file_store, rest, req_count, resVars, logVars>>

\* fgets and array_put.  An ERROR ends the thread with its file open.
PutLine(r) ==
    /\ Alive /\ req[r] = "read" /\ rest[r] # << >>
    /\ IF Head(rest[r]) \in Unstorable
       THEN /\ req' = [req EXCEPT ![r] = "exited"]
            /\ UNCHANGED host_store
       ELSE /\ HasRoom(host_store)
            /\ host_store' = Append(host_store, Head(rest[r]))
            /\ req' = [req EXCEPT ![r] = "log"]
    /\ UNCHANGED <<mainVars, file_store, rest, req_count, resVars, logVars>>

LogLine(r) ==
    /\ Alive /\ req[r] = "log"
    /\ serviced' = [serviced EXCEPT ![Head(rest[r])] = @ + 1]
    /\ rest' = [rest EXCEPT ![r] = Tail(@)]
    /\ req' = [req EXCEPT ![r] = "read"]
    /\ UNCHANGED <<mainVars, file_store, host_store, req_count, resVars, results>>

CloseFile(r) ==
    /\ Alive /\ req[r] = "read" /\ rest[r] = << >>
    /\ req_count' = [req_count EXCEPT ![r] = @ + 1]
    /\ req' = [req EXCEPT ![r] = "get_file"]
    /\ UNCHANGED <<mainVars, file_store, host_store, rest, resVars, logVars>>
-----------------------------------------------------------------------------
(* resolver(arg) *)

\* array_get and the test for the pill.
GetHost(s) ==
    /\ Alive /\ res[s] = "get_host" /\ host_store # << >>
    /\ host_store' = Tail(host_store)
    /\ host' = [host EXCEPT ![s] = Head(host_store)]
    /\ res' = [res EXCEPT ![s] = IF Head(host_store) = POISON
                                 THEN "exited" ELSE "write"]
    /\ UNCHANGED <<mainVars, file_store, reqVars, res_count, logVars>>

\* dnslookup stores the first element of the address list only.
DnsLookup(h) == IF Addresses[h] = << >> THEN "NOT_RESOLVED"
                ELSE IF Head(Addresses[h]) = "AF_INET" THEN "address"
                ELSE "UNHANDELED"

\* dnslookup, the line in the results file, and the memset of the next round;
\* POISON stands for a buffer that holds no hostname.
WriteResult(s) ==
    /\ Alive /\ res[s] = "write"
    /\ results' = [results EXCEPT ![<<host[s], DnsLookup(host[s])>>] = @ + 1]
    /\ res_count' = [res_count EXCEPT ![s] = @ + 1]
    /\ host' = [host EXCEPT ![s] = POISON]
    /\ res' = [res EXCEPT ![s] = "get_host"]
    /\ UNCHANGED <<mainVars, file_store, host_store, reqVars, serviced>>

Running(state) == state \notin {"none", "absent", "exited"}

\* A thread that is still running when main frees the stores and the mutexes
\* uses freed memory: it goes on as before, or the process faults.
TouchFreed == /\ main = "cleanup" /\ ~ live
              /\ \/ \E r \in Requesters : Running(req[r])
                 \/ \E s \in Resolvers  : Running(res[s])
              /\ main' = "fault"
              /\ UNCHANGED <<data_files, i, result, live, file_store, host_store,
                             reqVars, resVars, logVars>>
-----------------------------------------------------------------------------
Requester(r) == /\ GetFile(r) \/ PutLine(r) \/ LogLine(r) \/ CloseFile(r)
                /\ UNCHANGED data_files

Resolver(s)  == /\ GetHost(s) \/ WriteResult(s)
                /\ UNCHANGED data_files

Next == \/ Main
        \/ \E r \in Requesters : Requester(r)
        \/ \E s \in Resolvers : Resolver(s)
        \/ TouchFreed

Spec == Init /\ [][Next]_vars

\* Every thread that stays able to run is scheduled.  Files are finite, so
\* each thread makes finitely many calls and waits need nothing stronger.
FairSpec == /\ Spec
            /\ WF_vars(Main)
            /\ \A r \in Requesters : WF_vars(Requester(r))
            /\ \A s \in Resolvers : WF_vars(Resolver(s))
-----------------------------------------------------------------------------
(* Properties *)

ThreadStates == {"none", "absent", "exited"}

\* Every variable has its type, and no store exceeds its capacity.
TypeOK ==
    /\ main \in {"parse", "rejected", "spawn_req", "spawn_res", "returned",
                 "fault"} \cup ToSet(Stages)
    /\ i \in Nat \ {0} /\ result \in {0, ERROR} /\ live \in BOOLEAN
    /\ Len(file_store) <= Capacity /\ Len(host_store) <= Capacity
    /\ ToSet(file_store) \subseteq ToSet(data_files) \cup {POISON}
    /\ ToSet(host_store) \subseteq Hosts \cup {POISON}
    /\ req \in [Requesters -> {"get_file", "read", "log"} \cup ThreadStates]
    /\ \A r \in Requesters : ToSet(rest[r]) \subseteq Hosts
    /\ req_count \in [Requesters -> 0 .. Len(data_files)]
    /\ res \in [Resolvers -> {"get_host", "write"} \cup ThreadStates]
    /\ host \in [Resolvers -> Hosts \cup {POISON}]

Occurrences(x, seq) == Cardinality({k \in DOMAIN seq : seq[k] = x})

\* How often h is on a line of the results file, whatever was found.
ResultLines(h) == results[<<h, "address">>] + results[<<h, "UNHANDELED">>]
                    + results[<<h, "NOT_RESOLVED">>]

\* A hostname is never lost or duplicated on its way from a data file to the
\* results: what the requesters have put in the store is there, in the hands
\* of a resolver, or in the results file.  A "{END}" on a line of a data file
\* is the one exception: it is taken for a pill.
NoHostLost ==
    \A h \in Hosts \ {POISON} :
       serviced[h]
         + Cardinality({r \in Requesters : req[r] = "log" /\ Head(rest[r]) = h})
       = Occurrences(h, host_store)
         + Cardinality({s \in Resolvers : res[s] = "write" /\ host[s] = h})
         + ResultLines(h)

Freed == main \in {"cleanup", "returned"} /\ ~ live

AllJoinable == /\ \A r \in Requesters : Joinable(req[r])
               /\ \A s \in Resolvers : Joinable(res[s])

\* Unless something failed on the way, the stores and the mutexes are freed
\* when no thread can use them any more.
JoinedBeforeFree == Freed /\ result = 0 => AllJoinable

\* The sum of the values of a function, counted as pairs <<a, 1>> .. <<a, f[a]>>.
Total(f) == Cardinality(UNION {{a} \X (1 .. f[a]) : a \in DOMAIN f})

\* The data files on the command line that exist, and how often h is a line
\* of one of them.
ValidFiles   == {k \in DOMAIN data_files : data_files[k] \in Files}
Announced(h) == Total([k \in ValidFiles |-> Occurrences(h, Contents[data_files[k]])])

\* No line of those files is too long for array_put.
Storable == \A k \in ValidFiles : ToSet(Contents[data_files[k]]) \cap Unstorable = {}

\* The threads of a pool that are not there for the pills of main: each file
\* that cannot be opened or has a line that cannot be stored ends a requester,
\* each "{END}" a resolver, and a failed pthread_create goes unnoticed.
Unreadable(f) == f \in Files => ToSet(Contents[f]) \cap Unstorable # {}
Absent(states) == Cardinality({t \in DOMAIN states : states[t] = "absent"})

LostRequesters == Absent(req) + Cardinality({k \in DOMAIN data_files : Unreadable(data_files[k])})
LostResolvers  == Absent(res) + Announced(POISON)

PoolsSurvive == LostRequesters < NumRequesters /\ LostResolvers < NumResolvers

\* If each pool keeps a thread, then when main has joined all of them every
\* line of every valid file is in both logs, as often as it was read, and the
\* threads' num_serviced add up to the number of valid files.
AllServed ==
    main = "cleanup" /\ result = 0 /\ PoolsSurvive /\ Storable
      => /\ \A h \in Hosts : serviced[h] = Announced(h)
         /\ \A h \in Hosts \ {POISON} : ResultLines(h) = serviced[h]
         /\ Total(req_count) = Cardinality(ValidFiles)

\* A thread of each pool is left, and what main puts for the others fits in
\* the stores; nothing has failed in main or faulted.
Undisturbed == /\ result = 0 /\ main # "fault"
               /\ PoolsSurvive
               /\ LostRequesters <= Capacity /\ LostResolvers <= Capacity

\* An undisturbed program ends by itself: the waits of main, of the requesters
\* and of the resolvers for each other resolve, although main puts pills for
\* threads that have ended before or were never created.
Terminates == []Undisturbed => <>(main \in {"returned", "rejected"})

\* The manual (17-26) promises that "The file names specified by <data file>
\* are passed to the pool of requester threads" and that the host names of
\* each file "are to be resolved": when main returns, the lines of every valid
\* file are in the results.
EveryLineResolved ==
    main = "returned" /\ result = 0
      => \A h \in Hosts \ {POISON} : ResultLines(h) = Announced(h)
=============================================================================
