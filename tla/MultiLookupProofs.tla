------------------------- MODULE MultiLookupProofs -------------------------
(***************************************************************************)
(* Theorems about MultiLookup, for every number of threads, every command  *)
(* line, every content of the files and every capacity of the stores.      *)
(***************************************************************************)
EXTENDS MultiLookup, FiniteSetTheorems, FunctionTheorems, SequenceTheorems, TLAPS

\* The stages of main between the creation of the threads and the last join;
\* those after it has done all of st; and those in which the requesters, and
\* the resolvers, have all been joined.
Feeding   == {"put_files", "poison_files", "join_req", "poison_hosts", "join_res"}
Done(st)  == main = st \/ (main = "cleanup" /\ result = 0)
ReqJoined == main = "poison_hosts" \/ main = "join_res"
             \/ (main \in {"cleanup", "returned"} /\ result = 0)
ResJoined == main \in {"cleanup", "returned"} /\ result = 0
Busy(r)   == req[r] \in {"read", "log"}

DataType      == Len(data_files) \in Nat /\ DOMAIN data_files = 1 .. Len(data_files)
MainType      == /\ main \in {"parse", "rejected", "spawn_req", "spawn_res", "cleanup",
                               "returned", "fault"} \cup Feeding
                 /\ i \in Nat \ {0} /\ result \in {0, ERROR} /\ live \in BOOLEAN
FileStoreType == /\ file_store \in Seq(ToSet(data_files) \cup {POISON})
                 /\ Len(file_store) <= Capacity
HostStoreType == host_store \in Seq(Hosts) /\ Len(host_store) <= Capacity
RequesterType == /\ req \in [Requesters -> {"get_file", "read", "log"} \cup ThreadStates]
                 /\ rest \in [Requesters -> Seq(Hosts)]
                 /\ req_count \in [Requesters -> Nat]
ResolverType  == /\ res \in [Resolvers -> {"get_host", "write"} \cup ThreadStates]
                 /\ host \in [Resolvers -> Hosts]
LogType       == serviced \in [Hosts -> Nat] /\ results \in [Hosts \X Answers -> Nat]

Types == /\ DataType /\ MainType /\ FileStoreType /\ HostStoreType
         /\ RequesterType /\ ResolverType /\ LogType

\* How far main is with its loops, and which threads exist or have ended.
Stage ==
    /\ main \in {"parse", "rejected"} => ~ live
    /\ main \in {"spawn_req", "spawn_res"} \cup Feeding => live
    /\ main \in Feeding => result = 0
    /\ main = "parse" => i = 1
    /\ main \in {"parse", "rejected", "spawn_req"} => \A s \in Resolvers : res[s] = "none"
    /\ main \in {"parse", "rejected"} => \A r \in Requesters : req[r] = "none"
    /\ main = "spawn_req" => \A r \in Requesters : r >= i => req[r] = "none"
    /\ main = "spawn_res" => \A s \in Resolvers : s >= i => res[s] = "none"
    /\ main = "put_files" => i <= Len(data_files) + 1
    /\ main \in {"poison_files", "join_req"} => i <= NumRequesters + 1
    /\ main \in {"poison_hosts", "join_res"} => i <= NumResolvers + 1
    /\ main = "join_req" => \A r \in Requesters : r < i => Joinable(req[r])
    /\ ReqJoined => \A r \in Requesters : Joinable(req[r])
    /\ main = "join_res" => \A s \in Resolvers : s < i => Joinable(res[s])
    /\ ResJoined => \A s \in Resolvers : Joinable(res[s])

\* A requester at "log" has the line it put in the store still before it.
LogHasLine == \A r \in Requesters : req[r] = "log" => rest[r] # << >>
WritesHost == \A s \in Resolvers : res[s] = "write" => host[s] # POISON

Threads == Types /\ Stage /\ LogHasLine /\ WritesHost
-----------------------------------------------------------------------------
(* The file store. *)

\* What main puts there, in order: the data files, then pills.
FileAt(k) == IF k <= Len(data_files) THEN data_files[k] ELSE POISON

\* How many of those the requesters have taken: the files each has counted,
\* the one it is reading, and the one whose taking or reading ended it.
Begun == [r \in Requesters |-> req_count[r] + (IF Busy(r) THEN 1 ELSE 0)]
Exits == {r \in Requesters : req[r] = "exited"}
Taken == Total(Begun) + Cardinality(Exits)

FileQueue ==
    /\ \A k \in 1 .. Len(file_store) : file_store[k] = FileAt(Taken + k)
    /\ main \in {"parse", "spawn_req", "spawn_res"} => Taken + Len(file_store) = 0
    /\ main = "put_files" => Taken + Len(file_store) = i - 1
    /\ main = "poison_files" => Taken + Len(file_store) = Len(data_files) + i - 1

\* Which of them end a requester at once, and which at the latest when it
\* comes to a line it cannot store.
NoFile(n) == {k \in 1 .. n : FileAt(k) \notin Files}
Deadly(n) == {k \in 1 .. n : k > Len(data_files) \/ Unreadable(data_files[k])}
Doomed    == {r \in Requesters :
                 req[r] = "exited" \/ (Busy(r) /\ ToSet(rest[r]) \cap Unstorable # {})}

ExitCount == /\ Cardinality(NoFile(Taken)) <= Cardinality(Exits)
             /\ Cardinality(Doomed) <= Cardinality(Deadly(Taken))

\* When no line is too long nothing else ends a requester, and each line of a
\* file that was taken is still to be read or in the log of serviced names.
LinesOf(h, k)    == IF FileAt(k) \in Files THEN Occurrences(h, Contents[FileAt(k)]) ELSE 0
Drawn(h, n)      == Total([k \in 1 .. n |-> LinesOf(h, k)])
Unread(h, lines) == Total([r \in Requesters |-> Occurrences(h, lines[r])])

LineFlow ==
    Storable =>
      /\ \A r \in Requesters : ToSet(rest[r]) \cap Unstorable = {}
      /\ \A r \in Requesters : ~ Busy(r) => rest[r] = << >>
      /\ Cardinality(Exits) = Cardinality(NoFile(Taken))
      /\ \A h \in Hosts : serviced[h] + Unread(h, rest) = Drawn(h, Taken)
-----------------------------------------------------------------------------
(* The host store. *)

Logging(h)  == {r \in Requesters : req[r] = "log" /\ Head(rest[r]) = h}
Writing(h)  == {s \in Resolvers : res[s] = "write" /\ host[s] = h}
Poisoned    == {s \in Resolvers : res[s] = "exited"}

\* How often a requester has put h in the store, and a resolver has taken it.
Sent(h)     == serviced[h] + Cardinality(Logging(h))
Received(h) == Cardinality(Writing(h)) + ResultLines(h)

\* The pills main has put there.
HostPills == IF main = "poison_hosts" THEN i - 1
             ELSE IF Done("join_res") THEN NumResolvers ELSE 0

\* NoHostLost, with its two sides named.
HostFlow == \A h \in Hosts \ {POISON} : Sent(h) = Occurrences(h, host_store) + Received(h)

\* Each pill, of main or of a data file, is in the store or ended a resolver;
\* those of main come behind every line.
PillFlow ==
    Alive => /\ Sent(POISON) + HostPills
                  = Occurrences(POISON, host_store) + Cardinality(Poisoned)
             /\ \A k \in 1 .. Len(host_store) :
                   k > Len(host_store) - HostPills => host_store[k] = POISON

LookupInv == Threads /\ FileQueue /\ ExitCount /\ LineFlow /\ HostFlow /\ PillFlow
-----------------------------------------------------------------------------
(* Sums, and how often a value occurs in a sequence. *)

Pairs(f) == UNION {{a} \X (1 .. f[a]) : a \in DOMAIN f}

LEMMA TotalIsPairs == ASSUME NEW f PROVE Total(f) = Cardinality(Pairs(f))
  BY DEF Total, Pairs

LEMMA PairsMember ==
    ASSUME NEW f, NEW p
    PROVE  p \in Pairs(f) <=> \E a \in DOMAIN f : \E n \in 1 .. f[a] : p = <<a, n>>
  BY DEF Pairs

LEMMA RowSize ==
    ASSUME NEW a, NEW n \in Nat
    PROVE  IsFiniteSet({a} \X (1 .. n)) /\ Cardinality({a} \X (1 .. n)) = n
  <1>1. IsFiniteSet({a}) /\ Cardinality({a}) = 1
    BY FS_Singleton
  <1>2. IsFiniteSet(1 .. n) /\ Cardinality(1 .. n) = n
    BY FS_Interval
  <1>3. /\ IsFiniteSet({a} \X (1 .. n))
        /\ Cardinality({a} \X (1 .. n)) = Cardinality({a}) * Cardinality(1 .. n)
    BY <1>1, <1>2, FS_Product
  <1> QED BY <1>1, <1>2, <1>3

\* A function to the naturals with finitely many arguments.
Countable(f) == IsFiniteSet(DOMAIN f) /\ \A a \in DOMAIN f : f[a] \in Nat

LEMMA PairsFinite ==
    ASSUME NEW f, Countable(f)
    PROVE  IsFiniteSet(Pairs(f)) /\ Total(f) \in Nat
  <1> DEFINE row  == [a \in DOMAIN f |-> {a} \X (1 .. f[a])]
             rows == {row[a] : a \in DOMAIN f}
  <1>1. row \in Surjection(DOMAIN f, rows)
    BY Fun_IsSurj
  <1>2. IsFiniteSet(rows)
    BY <1>1, FS_Surjection DEF Countable
  <1>3. ASSUME NEW R \in rows PROVE IsFiniteSet(R)
    <2>1. PICK a \in DOMAIN f : R = {a} \X (1 .. f[a])
      OBVIOUS
    <2>2. f[a] \in Nat
      BY DEF Countable
    <2>3. IsFiniteSet({a} \X (1 .. f[a]))
      BY <2>2, RowSize
    <2> QED BY <2>1, <2>3
  <1>4. IsFiniteSet(UNION rows)
    BY <1>2, <1>3, FS_UNION
  <1>5. Pairs(f) = UNION rows
    BY DEF Pairs
  <1> QED BY <1>4, <1>5, TotalIsPairs, FS_CardinalityType

\* The sum is one value and the sum of the others.
LEMMA TotalSplit ==
    ASSUME NEW f, Countable(f), NEW b \in DOMAIN f
    PROVE  LET others == {p \in Pairs(f) : p[1] # b}
           IN  IsFiniteSet(others) /\ Total(f) = Cardinality(others) + f[b]
  <1> DEFINE others == {p \in Pairs(f) : p[1] # b}
             mine   == {b} \X (1 .. f[b])
  <1>1. Pairs(f) = others \cup mine /\ others \cap mine = {}
    BY PairsMember
  <1>2. IsFiniteSet(others)
    BY PairsFinite, FS_Subset
  <1>3. IsFiniteSet(mine) /\ Cardinality(mine) = f[b]
    BY RowSize DEF Countable
  <1>4. Cardinality(others \cup mine)
          = Cardinality(others) + Cardinality(mine) - Cardinality(others \cap mine)
    BY <1>2, <1>3, FS_Union
  <1>5. Cardinality(others) \in Nat /\ f[b] \in Nat
    BY <1>2, FS_CardinalityType DEF Countable
  <1> HIDE DEF others, mine
  <1>6. Total(f) = Cardinality(others) + f[b]
    BY <1>1, <1>3, <1>4, <1>5, TotalIsPairs, FS_EmptySet
  <1> QED BY <1>2, <1>6 DEF others

LEMMA TotalUpdate ==
    ASSUME NEW f, Countable(f), NEW g, Countable(g), NEW b \in DOMAIN f,
           DOMAIN g = DOMAIN f, \A a \in DOMAIN f \ {b} : g[a] = f[a]
    PROVE  Total(g) = Total(f) - f[b] + g[b]
  <1> DEFINE fo == {p \in Pairs(f) : p[1] # b}
             go == {p \in Pairs(g) : p[1] # b}
  <1>1. fo = go
    BY PairsMember
  <1>2. Total(f) = Cardinality(fo) + f[b] /\ IsFiniteSet(fo)
    BY TotalSplit
  <1>3. Total(g) = Cardinality(go) + g[b]
    BY TotalSplit
  <1>4. f[b] \in Nat /\ g[b] \in Nat /\ Cardinality(fo) \in Nat
    BY <1>2, FS_CardinalityType DEF Countable
  <1> HIDE DEF fo, go
  <1> QED BY <1>1, <1>2, <1>3, <1>4

LEMMA TotalExtend ==
    ASSUME NEW f, Countable(f), NEW g, Countable(g), NEW b, b \notin DOMAIN f,
           DOMAIN g = DOMAIN f \cup {b}, \A a \in DOMAIN f : g[a] = f[a]
    PROVE  Total(g) = Total(f) + g[b]
  <1> DEFINE go == {p \in Pairs(g) : p[1] # b}
  <1>1. go = Pairs(f)
    BY PairsMember
  <1>2. Total(g) = Cardinality(go) + g[b]
    BY TotalSplit
  <1> QED BY <1>1, <1>2, TotalIsPairs

LEMMA TotalZero ==
    ASSUME NEW f, \A a \in DOMAIN f : f[a] = 0
    PROVE  Total(f) = 0
  <1>1. Pairs(f) = {}
    BY PairsMember
  <1> QED BY <1>1, TotalIsPairs, FS_EmptySet

LEMMA TotalAtLeast ==
    ASSUME NEW f, Countable(f), NEW b \in DOMAIN f
    PROVE  f[b] <= Total(f)
  <1> DEFINE others == {p \in Pairs(f) : p[1] # b}
  <1>1. IsFiniteSet(others) /\ Total(f) = Cardinality(others) + f[b]
    BY TotalSplit
  <1>2. Cardinality(others) \in Nat /\ f[b] \in Nat
    BY <1>1, FS_CardinalityType DEF Countable
  <1> HIDE DEF others
  <1> QED BY <1>1, <1>2

\* Arguments with the value 0 do not count.
LEMMA TotalSame ==
    ASSUME NEW f, NEW g, DOMAIN f \subseteq DOMAIN g,
           \A a \in DOMAIN f : g[a] = f[a],
           \A a \in DOMAIN g \ DOMAIN f : g[a] = 0
    PROVE  Total(f) = Total(g)
  <1>1. ASSUME NEW p PROVE p \in Pairs(f) => p \in Pairs(g)
    BY PairsMember
  <1>2. ASSUME NEW p, p \in Pairs(g) PROVE p \in Pairs(f)
    <2>1. PICK a \in DOMAIN g : \E n \in 1 .. g[a] : p = <<a, n>>
      BY <1>2, PairsMember
    <2>2. g[a] # 0
      BY <2>1
    <2>3. a \in DOMAIN f /\ f[a] = g[a]
      BY <2>2
    <2> QED BY <2>1, <2>3, PairsMember
  <1>3. Pairs(f) = Pairs(g)
    BY <1>1, <1>2
  <1> QED BY <1>3, TotalIsPairs

LEMMA Joins ==
    ASSUME NEW S, NEW x, IsFiniteSet(S), x \notin S
    PROVE  IsFiniteSet(S \cup {x}) /\ Cardinality(S \cup {x}) = Cardinality(S) + 1
  BY FS_AddElement

LEMMA Leaves ==
    ASSUME NEW S, NEW x, IsFiniteSet(S), x \in S
    PROVE  Cardinality(S \ {x}) = Cardinality(S) - 1
  BY FS_RemoveElement

\* How often h is in a sequence, and the places where it is.
Places(h, s) == {k \in 1 .. Len(s) : s[k] = h}

LEMMA OccurrencesPlaces ==
    ASSUME NEW S, NEW s \in Seq(S), NEW h
    PROVE  /\ Occurrences(h, s) = Cardinality(Places(h, s))
           /\ IsFiniteSet(Places(h, s)) /\ Occurrences(h, s) \in Nat
  <1>1. {k \in DOMAIN s : s[k] = h} = Places(h, s)
    BY DEF Places
  <1>2. IsFiniteSet(1 .. Len(s))
    BY FS_Interval
  <1>3. IsFiniteSet(Places(h, s))
    BY <1>2, FS_Subset DEF Places
  <1> QED BY <1>1, <1>3, FS_CardinalityType DEF Occurrences

LEMMA OccurrencesAppend ==
    ASSUME NEW S, NEW s \in Seq(S), NEW v \in S, NEW h
    PROVE  Occurrences(h, Append(s, v)) = Occurrences(h, s) + (IF v = h THEN 1 ELSE 0)
  <1>1. Append(s, v) \in Seq(S)
    BY AppendProperties
  <1>2. Places(h, Append(s, v)) = IF v = h THEN Places(h, s) \cup {Len(s) + 1} ELSE Places(h, s)
    BY AppendProperties DEF Places
  <1>3. Len(s) + 1 \notin Places(h, s)
    BY DEF Places
  <1>4. /\ Occurrences(h, s) = Cardinality(Places(h, s)) /\ IsFiniteSet(Places(h, s))
        /\ Occurrences(h, s) \in Nat
        /\ Occurrences(h, Append(s, v)) = Cardinality(Places(h, Append(s, v)))
    BY <1>1, OccurrencesPlaces
  <1>5. Cardinality(Places(h, s) \cup {Len(s) + 1}) = Cardinality(Places(h, s)) + 1
    BY <1>3, <1>4, Joins
  <1> QED BY <1>2, <1>4, <1>5

LEMMA OccurrencesTail ==
    ASSUME NEW S, NEW s \in Seq(S), s # << >>, NEW h
    PROVE  Occurrences(h, s) = Occurrences(h, Tail(s)) + (IF Head(s) = h THEN 1 ELSE 0)
  <1> DEFINE later == {k \in Places(h, s) : k # 1}
             f == [k \in Places(h, Tail(s)) |-> k + 1]
  <1>1. Tail(s) \in Seq(S) /\ Len(Tail(s)) = Len(s) - 1
        /\ \A k \in 1 .. Len(s) - 1 : Tail(s)[k] = s[k + 1]
    BY HeadTailProperties
  <1>2. f \in [Places(h, Tail(s)) -> later]
    BY <1>1 DEF Places
  <1>3. \A j, k \in Places(h, Tail(s)) : f[j] = f[k] => j = k
    BY DEF Places
  <1>4. \A k \in later : \E j \in Places(h, Tail(s)) : f[j] = k
    <2> TAKE k \in later
    <2>1. k - 1 \in Places(h, Tail(s)) /\ f[k - 1] = k
      BY <1>1 DEF Places
    <2> QED BY <2>1
  <1>5. f \in Bijection(Places(h, Tail(s)), later)
    BY <1>2, <1>3, <1>4, Fun_IsBij
  <1>6. ExistsBijection(Places(h, Tail(s)), later)
    BY <1>5 DEF ExistsBijection
  <1>7. IsFiniteSet(Places(h, Tail(s))) /\ Cardinality(Places(h, Tail(s))) = Occurrences(h, Tail(s))
    BY <1>1, OccurrencesPlaces
  <1>8. IsFiniteSet(later) /\ Cardinality(later) = Occurrences(h, Tail(s))
    BY <1>6, <1>7, FS_Bijection
  <1>9. Places(h, s) = IF Head(s) = h THEN later \cup {1} ELSE later
    BY DEF Places
  <1>10. 1 \notin later
    OBVIOUS
  <1> HIDE DEF later
  <1> QED BY <1>8, <1>9, <1>10, OccurrencesPlaces, Joins

LEMMA OccurrencesNone ==
    ASSUME NEW S, NEW s \in Seq(S), NEW h, \A k \in 1 .. Len(s) : s[k] # h
    PROVE  Occurrences(h, s) = 0
  <1>1. Places(h, s) = {}
    BY DEF Places
  <1> QED BY <1>1, OccurrencesPlaces, FS_EmptySet
-----------------------------------------------------------------------------
(* Types, stages and the life of the threads. *)

LEMMA StageNames ==
    /\ DOMAIN Stages = 1 .. 6
    /\ Stages[1] = "put_files" /\ Stages[2] = "poison_files" /\ Stages[3] = "join_req"
    /\ Stages[4] = "poison_hosts" /\ Stages[5] = "join_res" /\ Stages[6] = "cleanup"
    /\ ToSet(Stages) = Feeding \cup {"cleanup"}
  <1>1. /\ DOMAIN Stages = 1 .. 6
        /\ Stages[1] = "put_files" /\ Stages[2] = "poison_files" /\ Stages[3] = "join_req"
        /\ Stages[4] = "poison_hosts" /\ Stages[5] = "join_res" /\ Stages[6] = "cleanup"
    BY DEF Stages
  <1>2. 1 .. 6 = {1, 2, 3, 4, 5, 6}
    OBVIOUS
  <1> HIDE DEF Stages
  <1> QED BY <1>1, <1>2 DEF ToSet, Feeding

\* The five ways from one stage to the next.
LEMMA NextStageCases ==
    ASSUME NextStage
    PROVE  /\ i' = 1 /\ UNCHANGED <<result, live, file_store, host_store, reqVars, resVars, logVars>>
           /\ \/ main = "put_files" /\ i > Len(data_files) /\ main' = "poison_files"
              \/ main = "poison_files" /\ i > NumRequesters /\ main' = "join_req"
              \/ main = "join_req" /\ i > NumRequesters /\ main' = "poison_hosts"
              \/ main = "poison_hosts" /\ i > NumResolvers /\ main' = "join_res"
              \/ main = "join_res" /\ i > NumResolvers /\ main' = "cleanup"
  <1>1. PICK k \in 1 .. 5 :
           /\ main = Stages[k] /\ i > Bound(k)
           /\ main' = Stages[k + 1] /\ i' = 1
           /\ UNCHANGED <<result, live, file_store, host_store, reqVars, resVars, logVars>>
    BY DEF NextStage
  <1>2. k = 1 \/ k = 2 \/ k = 3 \/ k = 4 \/ k = 5
    OBVIOUS
  <1>3. CASE k = 1 BY <1>1, <1>3, StageNames DEF Bound
  <1>4. CASE k = 2 BY <1>1, <1>4, StageNames DEF Bound
  <1>5. CASE k = 3 BY <1>1, <1>5, StageNames DEF Bound
  <1>6. CASE k = 4 BY <1>1, <1>6, StageNames DEF Bound
  <1>7. CASE k = 5 BY <1>1, <1>7, StageNames DEF Bound
  <1> QED BY <1>2, <1>3, <1>4, <1>5, <1>6, <1>7

LEMMA InitThreads == Init => Threads
  <1> SUFFICES ASSUME Init PROVE Threads
    OBVIOUS
  <1>0. data_files \in Commands
    BY DEF Init
  <1>1. DataType
    BY <1>0, CommandsAssumption DEF DataType
  <1>6. MainType
    <2>1. live \in BOOLEAN
      BY Zenon DEF Init
    <2> QED BY <2>1 DEF Init, MainType
  <1>2. FileStoreType /\ HostStoreType
    BY CountsAssumption DEF Init, FileStoreType, HostStoreType
  <1>3. RequesterType /\ ResolverType
    BY ContentsAssumption DEF Init, RequesterType, ResolverType, ThreadStates
  <1>4. LogType
    BY DEF Init, LogType
  <1>5. Stage /\ LogHasLine /\ WritesHost
    BY DEF Init, Stage, Feeding, ReqJoined, ResJoined, LogHasLine, WritesHost
  <1> QED BY <1>1, <1>2, <1>3, <1>4, <1>5, <1>6 DEF Threads, Types

LEMMA PutsFile ==
    ASSUME DataType, FileStoreType, UNCHANGED data_files,
           Len(file_store) < Capacity, NEW f \in ToSet(data_files) \cup {POISON},
           file_store' = Append(file_store, f)
    PROVE  FileStoreType'
  <1>1. /\ Append(file_store, f) \in Seq(ToSet(data_files) \cup {POISON})
        /\ Len(Append(file_store, f)) = Len(file_store) + 1
    BY AppendProperties DEF FileStoreType
  <1> QED BY <1>1, CountsAssumption DEF FileStoreType

LEMMA TakesFile ==
    ASSUME FileStoreType, UNCHANGED data_files, file_store # << >>,
           file_store' = Tail(file_store)
    PROVE  FileStoreType'
  <1>1. /\ Tail(file_store) \in Seq(ToSet(data_files) \cup {POISON})
        /\ Len(Tail(file_store)) = Len(file_store) - 1
    BY HeadTailProperties DEF FileStoreType
  <1> QED BY <1>1, CountsAssumption DEF FileStoreType

LEMMA PutsHost ==
    ASSUME HostStoreType, Len(host_store) < Capacity, NEW h \in Hosts,
           host_store' = Append(host_store, h)
    PROVE  HostStoreType'
  <1>1. Append(host_store, h) \in Seq(Hosts) /\ Len(Append(host_store, h)) = Len(host_store) + 1
    BY AppendProperties DEF HostStoreType
  <1> QED BY <1>1, CountsAssumption DEF HostStoreType

LEMMA TakesHost ==
    ASSUME HostStoreType, host_store # << >>, host_store' = Tail(host_store)
    PROVE  HostStoreType' /\ Head(host_store) \in Hosts
  <1>1. /\ Tail(host_store) \in Seq(Hosts) /\ Head(host_store) \in Hosts
        /\ Len(Tail(host_store)) = Len(host_store) - 1
    BY HeadTailProperties DEF HostStoreType
  <1> QED BY <1>1, CountsAssumption DEF HostStoreType

\* What a step leaves alone keeps its type.
LEMMA TypesKept ==
    /\ DataType /\ UNCHANGED data_files => DataType'
    /\ MainType /\ UNCHANGED mainVars => MainType'
    /\ FileStoreType /\ UNCHANGED <<data_files, file_store>> => FileStoreType'
    /\ HostStoreType /\ UNCHANGED host_store => HostStoreType'
    /\ RequesterType /\ UNCHANGED reqVars => RequesterType'
    /\ ResolverType /\ UNCHANGED resVars => ResolverType'
    /\ LogType /\ UNCHANGED logVars => LogType'
  BY DEF DataType, MainType, FileStoreType, HostStoreType, RequesterType, ResolverType, LogType,
         mainVars, reqVars, resVars, logVars

\* What main does changes its own variables, adds to one store, or starts a
\* thread.
LEMMA MainTypes ==
    ASSUME Types, Main
    PROVE  Types'
  <1>1. DataType' /\ LogType'
    BY TypesKept
       DEF Types, Main, ParseArguments, SpawnRequester, SpawnResolver, ArgsMallocFails, SpawnDone,
           PutFile, PoisonFiles, PoisonHosts, JoinRequester, JoinResolver, NextStage, FreeResources
  <1>2. MainType'
    <2>1. CASE NextStage
      BY <2>1, NextStageCases DEF Types, MainType, Feeding
    <2>2. CASE ParseArguments
      <3>1. live' \in BOOLEAN
        BY <2>2, Zenon DEF ParseArguments
      <3>2. main' \in {"spawn_req", "rejected"} /\ i' = i /\ result' \in {0, ERROR}
        BY <2>2 DEF ParseArguments
      <3> QED BY <3>1, <3>2 DEF Types, MainType
    <2>3. CASE SpawnRequester
      BY <2>3 DEF SpawnRequester, Types, MainType
    <2>4. CASE SpawnResolver
      BY <2>4 DEF SpawnResolver, Types, MainType
    <2>5. CASE ArgsMallocFails \/ SpawnDone
      BY <2>5 DEF ArgsMallocFails, SpawnDone, Types, MainType, Feeding
    <2>6. CASE PutFile \/ PoisonFiles \/ PoisonHosts
      BY <2>6 DEF PutFile, PoisonFiles, PoisonHosts, Types, MainType
    <2>7. CASE FreeResources
      <3>1. live' \in BOOLEAN
        BY <2>7, Zenon DEF FreeResources, Types, MainType
      <3> QED BY <2>7, <3>1 DEF FreeResources, Types, MainType
    <2>8. CASE JoinRequester \/ JoinResolver
      BY <2>8 DEF JoinRequester, JoinResolver, Join, Types, MainType
    <2> QED BY <2>1, <2>2, <2>3, <2>4, <2>5, <2>6, <2>7, <2>8 DEF Main
  <1>3. FileStoreType'
    <2>1. CASE PutFile /\ file_store' # file_store
      <3>1. /\ Len(file_store) < Capacity /\ file_store' = Append(file_store, data_files[i])
            /\ data_files[i] \in ToSet(data_files)
        BY <2>1 DEF PutFile, HasRoom, Types, DataType, MainType, ToSet
      <3> QED BY <3>1, PutsFile DEF Types, Main
    <2>2. CASE PoisonFiles
      BY <2>2, PutsFile DEF PoisonFiles, HasRoom, Types, Main
    <2>3. CASE file_store' = file_store
      BY <2>3, TypesKept DEF Types, Main
    <2> QED BY <2>1, <2>2, <2>3
            DEF Main, ParseArguments, SpawnRequester, SpawnResolver, ArgsMallocFails, SpawnDone,
                PoisonHosts, JoinRequester, JoinResolver, NextStage, FreeResources
  <1>4. HostStoreType'
    <2>1. CASE PoisonHosts
      BY <2>1, PutsHost, ContentsAssumption DEF PoisonHosts, HasRoom, Types
    <2>2. CASE ~ PoisonHosts
      BY <2>2, TypesKept
         DEF Types, Main, ParseArguments, SpawnRequester, SpawnResolver, ArgsMallocFails,
             SpawnDone, PutFile, PoisonFiles, JoinRequester, JoinResolver, NextStage,
             FreeResources
    <2> QED BY <2>1, <2>2
  <1>5. RequesterType'
    <2>1. CASE SpawnRequester
      BY <2>1 DEF SpawnRequester, Types, RequesterType, ThreadStates
    <2>2. CASE ~ SpawnRequester
      BY <2>2, TypesKept
         DEF Types, Main, ParseArguments, SpawnResolver, ArgsMallocFails, SpawnDone, PutFile,
             PoisonFiles, PoisonHosts, JoinRequester, JoinResolver, NextStage, FreeResources
    <2> QED BY <2>1, <2>2
  <1>6. ResolverType'
    <2>1. CASE SpawnResolver
      BY <2>1 DEF SpawnResolver, Types, ResolverType, ThreadStates
    <2>2. CASE ~ SpawnResolver
      BY <2>2, TypesKept
         DEF Types, Main, ParseArguments, SpawnRequester, ArgsMallocFails, SpawnDone, PutFile,
             PoisonFiles, PoisonHosts, JoinRequester, JoinResolver, NextStage, FreeResources
    <2> QED BY <2>1, <2>2
  <1> QED BY <1>1, <1>2, <1>3, <1>4, <1>5, <1>6 DEF Types

LEMMA RequesterTypes ==
    ASSUME Types, LogHasLine, NEW r \in Requesters, Requester(r)
    PROVE  Types'
  <1>1. DataType' /\ MainType' /\ ResolverType'
    BY TypesKept DEF Types, Requester, GetFile, PutLine, LogLine, CloseFile
  <1>2. FileStoreType'
    BY TakesFile, TypesKept DEF Types, Requester, GetFile, PutLine, LogLine, CloseFile
  <1>3. HostStoreType'
    <2>1. CASE PutLine(r) /\ host_store' # host_store
      <3>1. /\ Len(host_store) < Capacity /\ host_store' = Append(host_store, Head(rest[r]))
            /\ rest[r] # << >> /\ rest[r] \in Seq(Hosts)
        BY <2>1 DEF PutLine, HasRoom, Types, RequesterType
      <3>2. Head(rest[r]) \in Hosts
        BY <3>1, HeadTailProperties
      <3> QED BY <3>1, <3>2, PutsHost DEF Types
    <2>2. CASE host_store' = host_store
      BY <2>2, TypesKept DEF Types
    <2> QED BY <2>1, <2>2 DEF Requester, GetFile, LogLine, CloseFile
  <1>4. RequesterType'
    <2> USE DEF Types, RequesterType, ThreadStates
    <2>1. CASE GetFile(r)
      BY <2>1, ContentsAssumption DEF GetFile
    <2>2. CASE PutLine(r)
      BY <2>2 DEF PutLine
    <2>3. CASE LogLine(r)
      <3>1. rest[r] # << >> /\ rest[r] \in Seq(Hosts)
        BY <2>3 DEF LogLine, LogHasLine
      <3>2. Tail(rest[r]) \in Seq(Hosts)
        BY <3>1, HeadTailProperties
      <3> QED BY <2>3, <3>2 DEF LogLine
    <2>4. CASE CloseFile(r)
      BY <2>4 DEF CloseFile
    <2> QED BY <2>1, <2>2, <2>3, <2>4 DEF Requester
  <1>5. LogType'
    <2>1. CASE LogLine(r)
      <3>1. rest[r] # << >> /\ rest[r] \in Seq(Hosts)
        BY <2>1 DEF LogLine, LogHasLine, Types, RequesterType
      <3>2. Head(rest[r]) \in Hosts
        BY <3>1, HeadTailProperties
      <3> QED BY <2>1, <3>2 DEF LogLine, Types, LogType
    <2>2. CASE ~ LogLine(r)
      BY <2>2, TypesKept DEF Types, Requester, GetFile, PutLine, CloseFile
    <2> QED BY <2>1, <2>2
  <1> QED BY <1>1, <1>2, <1>3, <1>4, <1>5 DEF Types

LEMMA ResolverTypes ==
    ASSUME Types, NEW s \in Resolvers, Resolver(s)
    PROVE  Types'
  <1>1. DataType' /\ MainType' /\ RequesterType' /\ FileStoreType'
    BY TypesKept DEF Types, Resolver, GetHost, WriteResult
  <1>2. HostStoreType'
    BY TakesHost, TypesKept DEF Types, Resolver, GetHost, WriteResult
  <1>3. ResolverType'
    <2>1. CASE GetHost(s)
      <3>1. Head(host_store) \in Hosts
        BY <2>1, TakesHost DEF GetHost, Types
      <3> QED BY <2>1, <3>1 DEF GetHost, Types, ResolverType, ThreadStates
    <2>2. CASE WriteResult(s)
      BY <2>2, ContentsAssumption DEF WriteResult, Types, ResolverType, ThreadStates
    <2> QED BY <2>1, <2>2 DEF Resolver
  <1>4. LogType'
    <2>1. CASE WriteResult(s)
      <3>1. <<host[s], DnsLookup(host[s])>> \in Hosts \X Answers
        BY DEF DnsLookup, Answers, Types, ResolverType
      <3> QED BY <2>1, <3>1 DEF WriteResult, Types, LogType
    <2>2. CASE GetHost(s)
      BY <2>2, TypesKept DEF Types, GetHost
    <2> QED BY <2>1, <2>2 DEF Resolver
  <1> QED BY <1>1, <1>2, <1>3, <1>4 DEF Types

LEMMA ParseStage ==
    ASSUME Threads, ParseArguments
    PROVE  Stage' /\ LogHasLine' /\ WritesHost'
  <1>1. /\ main = "parse" /\ UNCHANGED <<i, reqVars, resVars>>
        /\ \/ main' = "spawn_req" /\ live' = TRUE /\ result' = 0
           \/ main' = "rejected" /\ live' = FALSE /\ result' = ERROR
    BY DEF ParseArguments
  <1>2. i = 1 /\ (\A r \in Requesters : req[r] = "none") /\ \A s \in Resolvers : res[s] = "none"
    BY <1>1 DEF Threads, Stage
  <1> QED BY <1>1, <1>2
          DEF Threads, Stage, LogHasLine, WritesHost, Feeding, ReqJoined, ResJoined, reqVars,
              resVars

LEMMA SpawnStage ==
    ASSUME Threads, SpawnRequester \/ SpawnResolver
    PROVE  Stage' /\ LogHasLine' /\ WritesHost'
  <1> USE DEF Threads, Types, MainType, RequesterType, ResolverType, Stage, LogHasLine, WritesHost,
              Feeding, ReqJoined, ResJoined, Requesters, Resolvers
  <1>1. CASE SpawnRequester
    BY <1>1 DEF SpawnRequester, resVars
  <1>2. CASE SpawnResolver
    <2>1. /\ main = "spawn_res" /\ i \in Resolvers
          /\ UNCHANGED <<result, live, req, rest, host>>
      BY <1>2 DEF SpawnResolver, reqVars
    <2>2. CASE main' = "fault" /\ UNCHANGED <<res, i>>
      BY <2>1, <2>2
    <2>3. CASE /\ main' = main /\ i' = i + 1
               /\ \E outcome \in Created :
                     res' = [res EXCEPT ![i] = IF outcome = "started"
                                               THEN "get_host" ELSE "absent"]
      <3>1. /\ \A s \in Resolvers : s >= i' => res'[s] = "none"
            /\ \A s \in Resolvers : res'[s] = "write" => res[s] = "write"
        BY <2>1, <2>3
      <3> QED BY <2>1, <2>3, <3>1
    <2> QED BY <1>2, <2>2, <2>3 DEF SpawnResolver
  <1> QED BY <1>1, <1>2

LEMMA SpawnEndStage ==
    ASSUME Threads, ArgsMallocFails \/ SpawnDone
    PROVE  Stage' /\ LogHasLine' /\ WritesHost'
  <1> USE DEF Threads, Stage, LogHasLine, WritesHost, Feeding, ReqJoined, ResJoined, ERROR,
              reqVars, resVars
  <1>1. CASE ArgsMallocFails
    BY <1>1 DEF ArgsMallocFails
  <1>2. CASE SpawnDone
    BY <1>2, CountsAssumption DEF SpawnDone, Types, MainType, DataType
  <1> QED BY <1>1, <1>2

LEMMA FeedStage ==
    ASSUME Threads, PutFile \/ PoisonFiles \/ PoisonHosts, UNCHANGED data_files
    PROVE  Stage' /\ LogHasLine' /\ WritesHost'
  <1> USE DEF Threads, Types, DataType, MainType, Stage, LogHasLine, WritesHost, Feeding,
              ReqJoined, ResJoined, ERROR, reqVars, resVars
  <1>1. CASE PutFile
    BY <1>1 DEF PutFile
  <1>2. CASE PoisonFiles
    BY <1>2, CountsAssumption DEF PoisonFiles
  <1>3. CASE PoisonHosts
    BY <1>3, CountsAssumption DEF PoisonHosts
  <1> QED BY <1>1, <1>2, <1>3

LEMMA JoinStage ==
    ASSUME Threads, JoinRequester \/ JoinResolver
    PROVE  Stage' /\ LogHasLine' /\ WritesHost'
  <1> USE DEF Threads, Types, MainType, Stage, LogHasLine, WritesHost, Feeding,
              ReqJoined, ResJoined, reqVars, resVars, Requesters, Resolvers
  <1>1. CASE JoinRequester
    BY <1>1, CountsAssumption DEF JoinRequester, Join
  <1>2. CASE JoinResolver
    BY <1>2, CountsAssumption DEF JoinResolver, Join
  <1> QED BY <1>1, <1>2

LEMMA NextStageStage ==
    ASSUME Threads, NextStage, UNCHANGED data_files
    PROVE  Stage' /\ LogHasLine' /\ WritesHost'
  <1>1. UNCHANGED <<result, live, req, rest, res, host, data_files>> /\ i' = 1
    BY NextStageCases DEF reqVars, resVars
  <1> USE DEF Threads, Types, MainType, DataType, Stage, Feeding, ReqJoined, ResJoined
  <1>2. CASE main = "put_files" /\ main' = "poison_files"
    BY <1>1, <1>2, CountsAssumption DEF LogHasLine, WritesHost
  <1>3. CASE main = "poison_files" /\ main' = "join_req"
    BY <1>1, <1>3, CountsAssumption DEF LogHasLine, WritesHost, Requesters
  <1>4. CASE main = "join_req" /\ i > NumRequesters /\ main' = "poison_hosts"
    BY <1>1, <1>4, CountsAssumption DEF LogHasLine, WritesHost, Requesters
  <1>5. CASE main = "poison_hosts" /\ main' = "join_res"
    BY <1>1, <1>5, CountsAssumption DEF LogHasLine, WritesHost, Resolvers
  <1>6. CASE main = "join_res" /\ i > NumResolvers /\ main' = "cleanup"
    BY <1>1, <1>6, CountsAssumption DEF LogHasLine, WritesHost, Resolvers
  <1> QED BY <1>2, <1>3, <1>4, <1>5, <1>6, NextStageCases

LEMMA FreeStage ==
    ASSUME Threads, FreeResources
    PROVE  Stage' /\ LogHasLine' /\ WritesHost'
  BY DEF FreeResources, Threads, Types, MainType, Stage, LogHasLine, WritesHost, Feeding,
         ReqJoined, ResJoined, reqVars, resVars

\* A running thread is not one that main has yet to start or has joined.
LEMMA RequesterStage ==
    ASSUME Threads, NEW r \in Requesters, Requester(r)
    PROVE  Stage' /\ LogHasLine' /\ WritesHost'
  <1>1. /\ UNCHANGED mainVars /\ UNCHANGED resVars /\ data_files' = data_files
        /\ req[r] \in {"get_file", "read", "log"}
        /\ \A q \in Requesters \ {r} : req'[q] = req[q] /\ rest'[q] = rest[q]
        /\ req'[r] # "none" /\ (req'[r] = "log" => rest'[r] # << >>)
    BY DEF Requester, GetFile, PutLine, LogLine, CloseFile, Threads, Types, RequesterType
  <1>2. ~ ReqJoined /\ ~ ResJoined
    BY <1>1 DEF Threads, Stage, ReqJoined, ResJoined, Joinable
  <1>3. Stage'
    BY <1>1, <1>2
       DEF Threads, Types, MainType, Stage, Feeding, ReqJoined, ResJoined, Joinable, mainVars,
           resVars, Requesters
  <1>4. LogHasLine' /\ WritesHost'
    BY <1>1 DEF Threads, LogHasLine, WritesHost, resVars
  <1> QED BY <1>3, <1>4

LEMMA ResolverStage ==
    ASSUME Threads, NEW s \in Resolvers, Resolver(s)
    PROVE  Stage' /\ LogHasLine' /\ WritesHost'
  <1>1. /\ UNCHANGED mainVars /\ UNCHANGED reqVars /\ data_files' = data_files
        /\ res[s] \in {"get_host", "write"}
        /\ \A t \in Resolvers \ {s} : res'[t] = res[t] /\ host'[t] = host[t]
        /\ res'[s] # "none" /\ (res'[s] = "write" => host'[s] # POISON)
    BY DEF Resolver, GetHost, WriteResult, Threads, Types, ResolverType
  <1>2. ~ ResJoined
    BY <1>1 DEF Threads, Stage, ResJoined, Joinable
  <1>3. Stage'
    BY <1>1, <1>2
       DEF Threads, Types, MainType, Stage, Feeding, ReqJoined, ResJoined, Joinable, mainVars,
           reqVars, Resolvers
  <1>4. LogHasLine' /\ WritesHost'
    BY <1>1 DEF Threads, LogHasLine, WritesHost, reqVars
  <1> QED BY <1>3, <1>4

\* A fault stops everything.
LEMMA FaultThreads ==
    ASSUME Threads, TouchFreed
    PROVE  Threads'
  <1>1. MainType'
    BY DEF TouchFreed, Threads, Types, MainType
  <1>2. Types'
    BY <1>1, TypesKept DEF TouchFreed, Threads, Types
  <1>3. Stage' /\ LogHasLine' /\ WritesHost'
    BY DEF TouchFreed, Threads, Stage, LogHasLine, WritesHost, Feeding, ReqJoined, ResJoined,
           reqVars, resVars
  <1> QED BY <1>2, <1>3 DEF Threads

LEMMA NextThreads == Threads /\ [Next]_vars => Threads'
  <1> SUFFICES ASSUME Threads, [Next]_vars
               PROVE  Threads'
    OBVIOUS
  <1>1. CASE UNCHANGED vars
    <2>1. /\ UNCHANGED <<data_files, file_store, host_store>> /\ UNCHANGED mainVars
          /\ UNCHANGED reqVars /\ UNCHANGED resVars /\ UNCHANGED logVars
      BY <1>1 DEF vars
    <2>2. Types'
      BY <2>1, TypesKept DEF Threads, Types
    <2>3. Stage' /\ LogHasLine' /\ WritesHost'
      BY <2>1 DEF Threads, Stage, LogHasLine, WritesHost, Feeding, ReqJoined, ResJoined, mainVars,
                  reqVars, resVars
    <2> QED BY <2>2, <2>3 DEF Threads
  <1>2. CASE Main
    <2>1. Types'
      BY <1>2, MainTypes DEF Threads
    <2>2. Stage' /\ LogHasLine' /\ WritesHost'
      BY <1>2, ParseStage, SpawnStage, SpawnEndStage, FeedStage, JoinStage, NextStageStage,
         FreeStage DEF Main
    <2> QED BY <2>1, <2>2 DEF Threads
  <1>3. ASSUME NEW r \in Requesters, Requester(r)
        PROVE  Threads'
    BY <1>3, RequesterTypes, RequesterStage DEF Threads
  <1>4. ASSUME NEW s \in Resolvers, Resolver(s)
        PROVE  Threads'
    BY <1>4, ResolverTypes, ResolverStage DEF Threads
  <1> QED BY <1>1, <1>2, <1>3, <1>4, FaultThreads DEF Next
-----------------------------------------------------------------------------
(* What has been taken from the file store. *)

LEMMA RequestersFinite ==
    /\ IsFiniteSet(Requesters) /\ Cardinality(Requesters) = NumRequesters
    /\ \A S \in SUBSET Requesters : IsFiniteSet(S) /\ Cardinality(S) \in Nat
  <1>1. IsFiniteSet(Requesters) /\ Cardinality(Requesters) = NumRequesters
    BY FS_Interval, CountsAssumption DEF Requesters
  <1> QED BY <1>1, FS_Subset, FS_CardinalityType

LEMMA ResolversFinite ==
    /\ IsFiniteSet(Resolvers) /\ Cardinality(Resolvers) = NumResolvers
    /\ \A S \in SUBSET Resolvers : IsFiniteSet(S) /\ Cardinality(S) \in Nat
  <1>1. IsFiniteSet(Resolvers) /\ Cardinality(Resolvers) = NumResolvers
    BY FS_Interval, CountsAssumption DEF Resolvers
  <1> QED BY <1>1, FS_Subset, FS_CardinalityType

LEMMA BegunCountable ==
    ASSUME NEW q, NEW c \in [Requesters -> Nat]
    PROVE  Countable([r \in Requesters |-> c[r] + (IF q[r] \in {"read", "log"} THEN 1 ELSE 0)])
  BY RequestersFinite DEF Countable

LEMMA TakenTypes ==
    ASSUME RequesterType
    PROVE  /\ Countable(Begun) /\ Total(Begun) \in Nat
           /\ IsFiniteSet(Exits) /\ Cardinality(Exits) \in Nat /\ Taken \in Nat
  <1>1. Countable(Begun)
    BY BegunCountable DEF Begun, Busy, RequesterType
  <1>2. Total(Begun) \in Nat
    BY <1>1, PairsFinite
  <1>3. IsFiniteSet(Exits) /\ Cardinality(Exits) \in Nat
    BY RequestersFinite DEF Exits
  <1> QED BY <1>1, <1>2, <1>3 DEF Taken

\* One requester moves.
LEMMA BegunStep ==
    ASSUME RequesterType, RequesterType', NEW r \in Requesters,
           \A q \in Requesters \ {r} : req'[q] = req[q] /\ req_count'[q] = req_count[q]
    PROVE  /\ Total(Begun)' = Total(Begun) - Begun[r] + Begun'[r]
           /\ Total(Begun) \in Nat
  <1>1. Countable(Begun) /\ Total(Begun) \in Nat
    BY TakenTypes
  <1>2. Countable(Begun')
    BY BegunCountable DEF Begun, Busy, RequesterType
  <1>3. DOMAIN Begun = Requesters /\ DOMAIN Begun' = Requesters
    BY DEF Begun
  <1>4. \A q \in Requesters \ {r} : Begun'[q] = Begun[q]
    BY DEF Begun, Busy
  <1>5. Total(Begun') = Total(Begun) - Begun[r] + Begun'[r]
    BY <1>1, <1>2, <1>3, <1>4, TotalUpdate
  <1> QED BY <1>1, <1>5 DEF Total

LEMMA TakenKept ==
    ASSUME UNCHANGED req_count,
           \A r \in Requesters : /\ Busy(r)' <=> Busy(r)
                                 /\ req'[r] = "exited" <=> req[r] = "exited"
    PROVE  Begun' = Begun /\ Exits' = Exits /\ Taken' = Taken
  <1>1. Begun' = Begun
    BY DEF Begun
  <1>2. Exits' = Exits
    BY DEF Exits
  <1> QED BY <1>1, <1>2 DEF Taken, Total

\* What GetFile does to the counts: a file begun or a requester ended.
LEMMA GetFileTakes ==
    ASSUME Types, Types', NEW r \in Requesters, GetFile(r)
    PROVE  /\ Taken' = Taken + 1
           /\ Head(file_store) \in Files => Exits' = Exits
           /\ Head(file_store) \notin Files => Exits' = Exits \cup {r} /\ r \notin Exits
  <1>1. /\ req[r] = "get_file" /\ UNCHANGED req_count
        /\ \A q \in Requesters \ {r} : req'[q] = req[q]
        /\ Head(file_store) \in Files => req'[r] = "read"
        /\ Head(file_store) \notin Files => req'[r] = "exited"
        /\ RequesterType /\ RequesterType'
    BY DEF GetFile, Types, RequesterType
  <1>2. Total(Begun)' = Total(Begun) - Begun[r] + Begun'[r] /\ Total(Begun) \in Nat
    BY <1>1, BegunStep
  <1>3. Begun[r] = req_count[r] /\ req_count[r] \in Nat
    BY <1>1 DEF Begun, Busy, RequesterType
  <1>4. IsFiniteSet(Exits) /\ Cardinality(Exits) \in Nat
    BY <1>1, TakenTypes
  <1>5. CASE Head(file_store) \in Files
    <2>1. Begun'[r] = req_count[r] + 1
      BY <1>1, <1>5 DEF Begun, Busy
    <2>2. Exits' = Exits
      BY <1>1, <1>5 DEF Exits
    <2> QED BY <1>2, <1>3, <1>4, <1>5, <2>1, <2>2 DEF Taken
  <1>6. CASE Head(file_store) \notin Files
    <2>1. Begun'[r] = req_count[r]
      BY <1>1, <1>3, <1>6 DEF Begun, Busy
    <2>2. Exits' = Exits \cup {r} /\ r \notin Exits
      BY <1>1, <1>6 DEF Exits
    <2>3. Cardinality(Exits') = Cardinality(Exits) + 1
      BY <1>4, <2>2, Joins
    <2> QED BY <1>2, <1>3, <1>4, <1>6, <2>1, <2>2, <2>3 DEF Taken
  <1> QED BY <1>5, <1>6

\* A line that cannot be stored turns the file its reader had begun into the
\* end of that reader.
LEMMA PutLineTakes ==
    ASSUME Types, Types', NEW r \in Requesters, PutLine(r)
    PROVE  /\ Taken' = Taken
           /\ Head(rest[r]) \notin Unstorable => Exits' = Exits
           /\ Head(rest[r]) \in Unstorable => Exits' = Exits \cup {r} /\ r \notin Exits
  <1>1. /\ req[r] = "read" /\ UNCHANGED req_count
        /\ \A q \in Requesters \ {r} : req'[q] = req[q]
        /\ Head(rest[r]) \notin Unstorable => req'[r] = "log"
        /\ Head(rest[r]) \in Unstorable => req'[r] = "exited"
        /\ RequesterType /\ RequesterType'
    BY DEF PutLine, Types, RequesterType
  <1>2. CASE Head(rest[r]) \notin Unstorable
    BY <1>1, <1>2, TakenKept DEF Busy
  <1>3. CASE Head(rest[r]) \in Unstorable
    <2>1. Total(Begun)' = Total(Begun) - Begun[r] + Begun'[r] /\ Total(Begun) \in Nat
      BY <1>1, BegunStep
    <2>2. Begun[r] = req_count[r] + 1 /\ Begun'[r] = req_count[r] /\ req_count[r] \in Nat
      BY <1>1, <1>3 DEF Begun, Busy, RequesterType
    <2>3. IsFiniteSet(Exits) /\ Cardinality(Exits) \in Nat
      BY <1>1, TakenTypes
    <2>4. Exits' = Exits \cup {r} /\ r \notin Exits
      BY <1>1, <1>3 DEF Exits
    <2>5. Cardinality(Exits') = Cardinality(Exits) + 1
      BY <2>3, <2>4, Joins
    <2> QED BY <1>3, <2>1, <2>2, <2>3, <2>4, <2>5 DEF Taken
  <1> QED BY <1>2, <1>3

LEMMA LogLineTakes ==
    ASSUME Types, NEW r \in Requesters, LogLine(r)
    PROVE  Taken' = Taken /\ Exits' = Exits
  BY TakenKept DEF LogLine, Busy, Types, RequesterType

LEMMA CloseFileTakes ==
    ASSUME Types, Types', NEW r \in Requesters, CloseFile(r)
    PROVE  Taken' = Taken /\ Exits' = Exits
  <1>1. /\ req[r] = "read" /\ req'[r] = "get_file"
        /\ req_count'[r] = req_count[r] + 1 /\ req_count[r] \in Nat
        /\ \A q \in Requesters \ {r} : req'[q] = req[q] /\ req_count'[q] = req_count[q]
        /\ RequesterType /\ RequesterType'
    BY DEF CloseFile, Types, RequesterType
  <1>2. Total(Begun)' = Total(Begun) - Begun[r] + Begun'[r] /\ Total(Begun) \in Nat
    BY <1>1, BegunStep
  <1>3. Begun[r] = req_count[r] + 1 /\ Begun'[r] = req_count[r] + 1
    BY <1>1 DEF Begun, Busy
  <1>4. Exits' = Exits
    BY <1>1 DEF Exits
  <1> QED BY <1>1, <1>2, <1>3, <1>4 DEF Taken

LEMMA MainTakes ==
    ASSUME Threads, Main
    PROVE  Taken' = Taken /\ Exits' = Exits
  <1>1. CASE SpawnRequester
    <2>1. i \in Requesters /\ req[i] = "none"
      BY <1>1 DEF SpawnRequester, Requesters, Threads, Types, MainType, Stage
    <2>2. /\ UNCHANGED req_count /\ req'[i] \in {"get_file", "absent"}
          /\ \A q \in Requesters \ {i} : req'[q] = req[q]
      BY <1>1, <2>1 DEF SpawnRequester, Threads, Types, RequesterType
    <2> QED BY <2>1, <2>2, TakenKept DEF Busy
  <1>2. CASE ~ SpawnRequester
    <2>1. UNCHANGED <<req, req_count>>
      BY <1>2
         DEF Main, ParseArguments, SpawnResolver, ArgsMallocFails, SpawnDone, PutFile, PoisonFiles,
             PoisonHosts, JoinRequester, JoinResolver, NextStage, FreeResources, reqVars
    <2> QED BY <2>1, TakenKept DEF Busy
  <1> QED BY <1>1, <1>2

LEMMA ResolverTakes ==
    ASSUME (\E s \in Resolvers : Resolver(s)) \/ TouchFreed \/ UNCHANGED vars
    PROVE  Taken' = Taken /\ Exits' = Exits
  <1>1. UNCHANGED <<req, req_count>>
    BY DEF Resolver, GetHost, WriteResult, TouchFreed, vars, reqVars
  <1> QED BY <1>1, TakenKept DEF Busy

LEMMA InitTaken == Init => Taken = 0 /\ Exits = {}
  <1> SUFFICES ASSUME Init PROVE Taken = 0 /\ Exits = {}
    OBVIOUS
  <1>1. Exits = {}
    BY DEF Init, Exits
  <1>2. DOMAIN Begun = Requesters /\ \A r \in Requesters : Begun[r] = 0
    BY DEF Init, Begun, Busy
  <1>3. Total(Begun) = 0
    BY <1>2, TotalZero
  <1> QED BY <1>1, <1>3, FS_EmptySet DEF Taken

LEMMA InitFileQueue == Init => FileQueue
  BY InitTaken DEF Init, FileQueue

\* A step that takes nothing and puts nothing, within a stage of main or to
\* the next.
LEMMA QueueKept ==
    ASSUME FileQueue, UNCHANGED <<data_files, file_store, Taken>>,
           main' \in {"parse", "spawn_req", "spawn_res"}
              => main \in {"parse", "spawn_req", "spawn_res"},
           main' = "put_files" => \/ main = "put_files" /\ i' = i
                                  \/ main = "spawn_res" /\ i' = 1,
           main' = "poison_files" => \/ main = "poison_files" /\ i' = i
                                     \/ /\ main = "put_files" /\ i = Len(data_files) + 1
                                        /\ i' = 1
                                        /\ Len(data_files) \in Nat
    PROVE  FileQueue'
  BY DEF FileQueue, FileAt

LEMMA MainQueue ==
    ASSUME Threads, FileQueue, Main
    PROVE  FileQueue'
  <1>1. UNCHANGED <<data_files, Taken>>
    BY MainTakes DEF Main
  <1>2. /\ Taken \in Nat /\ Len(data_files) \in Nat /\ i \in Nat \ {0}
        /\ file_store \in Seq(ToSet(data_files) \cup {POISON})
    BY TakenTypes DEF Threads, Types, DataType, MainType, FileStoreType
  <1>3. CASE PutFile /\ file_store' # file_store
    <2>1. /\ main = "put_files" /\ main' = main /\ i' = i + 1 /\ i <= Len(data_files)
          /\ file_store' = Append(file_store, data_files[i])
          /\ data_files[i] \in ToSet(data_files) \cup {POISON}
      BY <1>2, <1>3 DEF PutFile, ToSet, Threads, Types, DataType
    <2>2. /\ Len(file_store') = Len(file_store) + 1
          /\ \A k \in 1 .. Len(file_store) : file_store'[k] = file_store[k]
          /\ file_store'[Len(file_store) + 1] = data_files[i]
      BY <1>2, <2>1, AppendProperties
    <2>3. Taken + Len(file_store) = i - 1
      BY <2>1 DEF FileQueue
    <2>4. FileAt(Taken + Len(file_store) + 1) = data_files[i]
      BY <1>2, <2>1, <2>3 DEF FileAt
    <2>5. \A k \in 1 .. Len(file_store') : file_store'[k] = FileAt(Taken + k)
      <3> TAKE k \in 1 .. Len(file_store')
      <3>1. CASE k \in 1 .. Len(file_store)
        BY <2>2, <3>1 DEF FileQueue
      <3>2. CASE k = Len(file_store) + 1
        <4>1. Taken + k = Taken + Len(file_store) + 1
          BY <1>2, <3>2
        <4> QED BY <2>2, <2>4, <3>2, <4>1
      <3> QED BY <1>2, <2>2, <3>1, <3>2
    <2> QED BY <1>1, <1>2, <2>1, <2>2, <2>3, <2>5 DEF FileQueue, FileAt
  <1>4. CASE PoisonFiles
    <2>1. /\ main = "poison_files" /\ main' = main /\ i' = i + 1
          /\ file_store' = Append(file_store, POISON)
      BY <1>4 DEF PoisonFiles
    <2>2. /\ Len(file_store') = Len(file_store) + 1
          /\ \A k \in 1 .. Len(file_store) : file_store'[k] = file_store[k]
          /\ file_store'[Len(file_store) + 1] = POISON
      BY <1>2, <2>1, AppendProperties
    <2>3. Taken + Len(file_store) = Len(data_files) + i - 1
      BY <2>1 DEF FileQueue
    <2>4. FileAt(Taken + Len(file_store) + 1) = POISON
      BY <1>2, <2>3 DEF FileAt
    <2>5. \A k \in 1 .. Len(file_store') : file_store'[k] = FileAt(Taken + k)
      <3> TAKE k \in 1 .. Len(file_store')
      <3>1. CASE k \in 1 .. Len(file_store)
        BY <2>2, <3>1 DEF FileQueue
      <3>2. CASE k = Len(file_store) + 1
        <4>1. Taken + k = Taken + Len(file_store) + 1
          BY <1>2, <3>2
        <4> QED BY <2>2, <2>4, <3>2, <4>1
      <3> QED BY <1>2, <2>2, <3>1, <3>2
    <2> QED BY <1>1, <1>2, <2>1, <2>2, <2>3, <2>5 DEF FileQueue, FileAt
  <1>5. CASE NextStage
    <2>1. file_store' = file_store /\ i' = 1
      BY <1>5, NextStageCases
    <2>2. main = "put_files" => i = Len(data_files) + 1 \/ i <= Len(data_files)
      BY <1>2 DEF Threads, Stage
    <2> QED BY <1>1, <1>2, <1>5, <2>1, <2>2, NextStageCases, QueueKept
  <1>6. CASE \/ ParseArguments \/ SpawnRequester \/ SpawnResolver \/ ArgsMallocFails \/ SpawnDone
    <2>1. file_store' = file_store
      BY <1>6 DEF ParseArguments, SpawnRequester, SpawnResolver, ArgsMallocFails, SpawnDone
    <2>2. /\ main \in {"parse", "spawn_req", "spawn_res"}
          /\ main' # "poison_files"
          /\ main' = "put_files" => main = "spawn_res" /\ i' = 1
      BY <1>6 DEF ParseArguments, SpawnRequester, SpawnResolver, ArgsMallocFails, SpawnDone
    <2> QED BY <1>1, <2>1, <2>2, QueueKept
  <1>7. CASE \/ PutFile /\ file_store' = file_store
             \/ PoisonHosts \/ JoinRequester \/ JoinResolver \/ FreeResources
    <2>1. /\ file_store' = file_store
          /\ main' \notin {"parse", "spawn_req", "spawn_res", "poison_files"}
          /\ main' = "put_files" => PutFile
      BY <1>7 DEF PutFile, PoisonHosts, JoinRequester, JoinResolver, Join, FreeResources
    <2>2. main' # "put_files"
      <3> SUFFICES ASSUME main' = "put_files" PROVE FALSE
        OBVIOUS
      <3>1. file_store' = Append(file_store, data_files[i])
            /\ data_files[i] \in ToSet(data_files) \cup {POISON}
        BY <1>2, <2>1 DEF PutFile, ToSet, Threads, Types, DataType
      <3>2. Len(file_store') = Len(file_store) + 1
        BY <1>2, <3>1, AppendProperties
      <3> QED BY <1>2, <2>1, <3>2
    <2> QED BY <1>1, <2>1, <2>2, QueueKept
  <1> QED BY <1>3, <1>4, <1>5, <1>6, <1>7 DEF Main

\* The element GetFile takes is the next of those main has put.
LEMMA GetFileHead ==
    ASSUME Threads, FileQueue, NEW r \in Requesters, GetFile(r)
    PROVE  /\ file_store # << >> /\ Len(file_store) > 0
           /\ Head(file_store) = FileAt(Taken + 1)
           /\ Len(file_store') = Len(file_store) - 1
           /\ \A k \in 1 .. Len(file_store') : file_store'[k] = file_store[k + 1]
           /\ Taken \in Nat
  <1>1. /\ file_store # << >> /\ file_store' = Tail(file_store)
        /\ file_store \in Seq(ToSet(data_files) \cup {POISON}) /\ Taken \in Nat
    BY TakenTypes DEF GetFile, Threads, Types, FileStoreType
  <1>2. /\ Len(file_store') = Len(file_store) - 1
        /\ \A k \in 1 .. Len(file_store') : file_store'[k] = file_store[k + 1]
    BY <1>1, HeadTailProperties
  <1>3. Len(file_store) > 0 /\ Head(file_store) = file_store[1]
    BY <1>1
  <1> QED BY <1>1, <1>2, <1>3 DEF FileQueue

LEMMA RequesterQueue ==
    ASSUME Threads, Threads', FileQueue, NEW r \in Requesters, Requester(r)
    PROVE  FileQueue'
  <1>1. UNCHANGED <<data_files, main, i>>
    BY DEF Requester, GetFile, PutLine, LogLine, CloseFile, mainVars
  <1>2. CASE GetFile(r)
    <2>1. Taken' = Taken + 1
      BY <1>2, GetFileTakes DEF Threads
    <2>2. /\ Len(file_store') = Len(file_store) - 1 /\ Len(file_store) \in Nat /\ Taken \in Nat
          /\ \A k \in 1 .. Len(file_store') : file_store'[k] = file_store[k + 1]
      BY <1>2, GetFileHead DEF Threads, Types, FileStoreType
    <2>3. \A k \in 1 .. Len(file_store') : file_store'[k] = FileAt(Taken' + k)
      <3> TAKE k \in 1 .. Len(file_store')
      <3>1. k + 1 \in 1 .. Len(file_store) /\ Taken + (k + 1) = Taken' + k
        BY <2>1, <2>2
      <3> QED BY <2>2, <3>1 DEF FileQueue
    <2>4. Taken' + Len(file_store') = Taken + Len(file_store)
      BY <2>1, <2>2
    <2> QED BY <1>1, <2>3, <2>4 DEF FileQueue, FileAt
  <1>3. CASE ~ GetFile(r)
    <2>1. UNCHANGED <<file_store, Taken>>
      BY <1>3, PutLineTakes, LogLineTakes, CloseFileTakes
         DEF Threads, Requester, PutLine, LogLine, CloseFile
    <2> QED BY <1>1, <2>1, QueueKept
  <1> QED BY <1>2, <1>3

LEMMA NextFileQueue ==
    ASSUME Threads, Threads', FileQueue, [Next]_vars
    PROVE  FileQueue'
  <1>1. CASE (\E s \in Resolvers : Resolver(s)) \/ TouchFreed \/ UNCHANGED vars
    <2>1. UNCHANGED <<data_files, file_store, Taken, i>>
          /\ (main' = main \/ main' = "fault")
      BY <1>1, ResolverTakes DEF Resolver, GetHost, WriteResult, TouchFreed, vars, mainVars
    <2> QED BY <2>1, QueueKept
  <1> QED BY <1>1, MainQueue, RequesterQueue DEF Next
-----------------------------------------------------------------------------
(* What ends the requesters. *)

LEMMA PlacesFinite ==
    ASSUME NEW n \in Nat
    PROVE  /\ IsFiniteSet(NoFile(n)) /\ Cardinality(NoFile(n)) \in Nat
           /\ IsFiniteSet(Deadly(n)) /\ Cardinality(Deadly(n)) \in Nat
  <1>1. IsFiniteSet(1 .. n)
    BY FS_Interval
  <1>2. NoFile(n) \subseteq 1 .. n /\ Deadly(n) \subseteq 1 .. n
    BY DEF NoFile, Deadly
  <1> QED BY <1>1, <1>2, FS_Subset, FS_CardinalityType

\* The next element taken is one more place without a file, or not.
LEMMA PlacesGrow ==
    ASSUME NEW n \in Nat, DataType
    PROVE  /\ FileAt(n + 1) \in Files =>
                /\ NoFile(n + 1) = NoFile(n)
                /\ n + 1 \in ValidFiles /\ FileAt(n + 1) = data_files[n + 1]
           /\ FileAt(n + 1) \notin Files =>
                /\ Cardinality(NoFile(n + 1)) = Cardinality(NoFile(n)) + 1
                /\ Cardinality(Deadly(n + 1)) = Cardinality(Deadly(n)) + 1
           /\ Cardinality(Deadly(n)) <= Cardinality(Deadly(n + 1))
           /\ n + 1 \in ValidFiles /\ Unreadable(data_files[n + 1]) =>
                Cardinality(Deadly(n + 1)) = Cardinality(Deadly(n)) + 1
  <1>0. n + 1 \in Nat /\ Len(data_files) \in Nat
    BY DEF DataType
  <1>1. n + 1 \notin NoFile(n) /\ n + 1 \notin Deadly(n)
    BY DEF NoFile, Deadly
  <1>2. \A k \in 1 .. n + 1 : k \in 1 .. n \/ k = n + 1
    OBVIOUS
  <1>5. Cardinality(Deadly(n)) <= Cardinality(Deadly(n + 1))
    <2>1. Deadly(n) \subseteq Deadly(n + 1)
      BY DEF Deadly
    <2> QED BY <1>0, <2>1, PlacesFinite, FS_Subset
  <1>6. ASSUME n + 1 \in ValidFiles, Unreadable(data_files[n + 1])
        PROVE  Cardinality(Deadly(n + 1)) = Cardinality(Deadly(n)) + 1
    <2>1. Deadly(n + 1) = Deadly(n) \cup {n + 1}
      BY <1>2, <1>6 DEF Deadly
    <2> QED BY <1>1, <2>1, PlacesFinite, Joins
  <1>7. /\ FileAt(n + 1) \in Files =>
             /\ NoFile(n + 1) = NoFile(n)
             /\ n + 1 \in ValidFiles /\ FileAt(n + 1) = data_files[n + 1]
        /\ FileAt(n + 1) \notin Files =>
             /\ Cardinality(NoFile(n + 1)) = Cardinality(NoFile(n)) + 1
             /\ Cardinality(Deadly(n + 1)) = Cardinality(Deadly(n)) + 1
    <2>1. CASE FileAt(n + 1) \in Files
      <3>1. NoFile(n + 1) = NoFile(n)
        BY <1>2, <2>1 DEF NoFile
      <3>2. n + 1 <= Len(data_files) /\ FileAt(n + 1) = data_files[n + 1]
        BY <2>1, ContentsAssumption DEF FileAt
      <3> QED BY <1>0, <2>1, <3>1, <3>2 DEF ValidFiles, DataType
    <2>2. CASE FileAt(n + 1) \notin Files
      <3>1. n + 1 > Len(data_files) \/ Unreadable(data_files[n + 1])
        BY <1>0, <2>2 DEF FileAt, Unreadable
      <3>2. NoFile(n + 1) = NoFile(n) \cup {n + 1}
        BY <1>2, <2>2 DEF NoFile
      <3>3. Deadly(n + 1) = Deadly(n) \cup {n + 1}
        BY <1>2, <3>1 DEF Deadly
      <3> QED BY <1>1, <2>2, <3>2, <3>3, PlacesFinite, Joins
    <2> QED BY <2>1, <2>2
  <1> QED BY <1>5, <1>6, <1>7

LEMMA DataKept ==
    ASSUME UNCHANGED data_files
    PROVE  /\ \A n \in Nat : NoFile(n)' = NoFile(n) /\ Deadly(n)' = Deadly(n)
           /\ Storable' <=> Storable
           /\ \A h : \A k \in Nat : LinesOf(h, k)' = LinesOf(h, k)
  BY DEF NoFile, Deadly, FileAt, Storable, ValidFiles, LinesOf

LEMMA DoomedFinite ==
    IsFiniteSet(Doomed) /\ Cardinality(Doomed) \in Nat
  BY RequestersFinite DEF Doomed

LEMMA DoomedShrinks ==
    ASSUME Doomed' \subseteq Doomed
    PROVE  Cardinality(Doomed') <= Cardinality(Doomed) /\ Cardinality(Doomed') \in Nat
  BY DoomedFinite, FS_Subset, FS_CardinalityType

\* Steps that neither take from the file store nor end a requester.
LEMMA ExitCountKept ==
    ASSUME Types, ExitCount, UNCHANGED <<data_files, Taken, Exits>>, Doomed' \subseteq Doomed
    PROVE  ExitCount'
  <1>1. Taken \in Nat
    BY TakenTypes DEF Types
  <1>2. NoFile(Taken)' = NoFile(Taken) /\ Deadly(Taken)' = Deadly(Taken)
    BY DEF NoFile, Deadly, FileAt
  <1> QED BY <1>1, <1>2, DoomedShrinks, DoomedFinite, PlacesFinite DEF ExitCount

LEMMA GetFileExits ==
    ASSUME Threads, Threads', FileQueue, ExitCount, NEW r \in Requesters, GetFile(r),
           UNCHANGED data_files
    PROVE  ExitCount'
  <1>1. /\ Taken \in Nat /\ Taken' = Taken + 1 /\ Head(file_store) = FileAt(Taken + 1)
        /\ DataType
    BY GetFileHead, GetFileTakes DEF Threads, Types
  <1>2. NoFile(Taken)' = NoFile(Taken + 1) /\ Deadly(Taken)' = Deadly(Taken + 1)
    BY <1>1 DEF NoFile, Deadly, FileAt
  <1>3. /\ req[r] = "get_file" /\ \A q \in Requesters \ {r} : req'[q] = req[q] /\ rest'[q] = rest[q]
        /\ Head(file_store) \in Files =>
             req'[r] = "read" /\ rest'[r] = Contents[Head(file_store)]
        /\ Head(file_store) \notin Files => req'[r] = "exited"
    BY DEF GetFile, Threads, Types, RequesterType
  <1>4. r \notin Doomed /\ \A q \in Requesters \ {r} : q \in Doomed' <=> q \in Doomed
    BY <1>3 DEF Doomed, Busy
  <1>5. Doomed' \subseteq Requesters /\ Doomed \subseteq Requesters
    BY DEF Doomed
  <1>6. CASE Head(file_store) \notin Files
    <2>1. Exits' = Exits \cup {r} /\ r \notin Exits
      BY <1>6, GetFileTakes DEF Threads
    <2>2. Cardinality(Exits') = Cardinality(Exits) + 1
      BY <2>1, TakenTypes, Joins DEF Threads, Types
    <2>3. Doomed' = Doomed \cup {r}
      BY <1>3, <1>4, <1>5, <1>6 DEF Doomed
    <2>4. Cardinality(Doomed') = Cardinality(Doomed) + 1
      BY <1>4, <2>3, DoomedFinite, Joins
    <2>5. /\ Cardinality(NoFile(Taken + 1)) = Cardinality(NoFile(Taken)) + 1
          /\ Cardinality(Deadly(Taken + 1)) = Cardinality(Deadly(Taken)) + 1
      BY <1>1, <1>6, PlacesGrow
    <2> QED BY <1>1, <1>2, <2>2, <2>4, <2>5, PlacesFinite, DoomedFinite, TakenTypes
            DEF ExitCount, Threads, Types
  <1>7. CASE Head(file_store) \in Files
    <2>1. Exits' = Exits
      BY <1>7, GetFileTakes DEF Threads
    <2>2. NoFile(Taken + 1) = NoFile(Taken)
      BY <1>1, <1>7, PlacesGrow
    <2>3. CASE r \in Doomed'
      <3>1. ToSet(Contents[Head(file_store)]) \cap Unstorable # {}
        BY <1>3, <1>7, <2>3 DEF Doomed
      <3>2. Unreadable(data_files[Taken + 1]) /\ Taken + 1 \in ValidFiles
        BY <1>1, <1>7, <3>1, PlacesGrow DEF Unreadable
      <3>3. Cardinality(Deadly(Taken + 1)) = Cardinality(Deadly(Taken)) + 1
        BY <1>1, <3>2, PlacesGrow
      <3>4. Doomed' = Doomed \cup {r}
        BY <1>4, <1>5, <2>3
      <3>5. Cardinality(Doomed') = Cardinality(Doomed) + 1
        BY <1>4, <3>4, DoomedFinite, Joins
      <3> QED BY <1>1, <1>2, <2>1, <2>2, <3>3, <3>5, PlacesFinite, DoomedFinite DEF ExitCount
    <2>4. CASE r \notin Doomed'
      <3>1. Doomed' = Doomed
        BY <1>4, <1>5, <2>4
      <3>2. Cardinality(Deadly(Taken)) <= Cardinality(Deadly(Taken + 1))
        BY <1>1, PlacesGrow
      <3> QED BY <1>1, <1>2, <2>1, <2>2, <3>1, <3>2, PlacesFinite, DoomedFinite DEF ExitCount
    <2> QED BY <2>3, <2>4
  <1> QED BY <1>6, <1>7

LEMMA PutLineExits ==
    ASSUME Threads, Threads', ExitCount, NEW r \in Requesters, PutLine(r), UNCHANGED data_files
    PROVE  ExitCount'
  <1>1. /\ req[r] = "read" /\ rest[r] # << >> /\ rest[r] \in Seq(Hosts) /\ rest' = rest
        /\ \A q \in Requesters \ {r} : req'[q] = req[q]
        /\ Head(rest[r]) \in Unstorable => req'[r] = "exited"
        /\ Head(rest[r]) \notin Unstorable => req'[r] = "log"
    BY DEF PutLine, Threads, Types, RequesterType
  <1>2. Taken' = Taken /\ Taken \in Nat
    BY PutLineTakes, TakenTypes DEF Threads, Types
  <1>3. CASE Head(rest[r]) \in Unstorable
    <2>1. Head(rest[r]) \in ToSet(rest[r])
      BY <1>1 DEF ToSet
    <2>2. Doomed' = Doomed
      BY <1>1, <1>3, <2>1 DEF Doomed, Busy
    <2>3. Exits' = Exits \cup {r} /\ r \notin Exits
      BY <1>3, PutLineTakes DEF Threads
    <2>4. Cardinality(Exits') = Cardinality(Exits) + 1 /\ Cardinality(Exits) \in Nat
      BY <2>3, TakenTypes, Joins DEF Threads, Types
    <2>5. NoFile(Taken)' = NoFile(Taken) /\ Deadly(Taken)' = Deadly(Taken)
      BY <1>2 DEF NoFile, Deadly, FileAt
    <2> QED BY <1>2, <2>2, <2>4, <2>5, PlacesFinite DEF ExitCount
  <1>4. CASE Head(rest[r]) \notin Unstorable
    <2>1. Doomed' = Doomed
      BY <1>1, <1>4 DEF Doomed, Busy
    <2>2. Exits' = Exits
      BY <1>4, PutLineTakes DEF Threads
    <2> QED BY <1>2, <2>1, <2>2, ExitCountKept DEF Threads
  <1> QED BY <1>3, <1>4

LEMMA ToSetTail ==
    ASSUME NEW S, NEW s \in Seq(S), s # << >>
    PROVE  ToSet(Tail(s)) \subseteq ToSet(s) /\ Head(s) \in ToSet(s)
  BY HeadTailProperties DEF ToSet

LEMMA NextExitCount ==
    ASSUME Threads, Threads', FileQueue, ExitCount, [Next]_vars
    PROVE  ExitCount'
  <1>1. CASE (\E s \in Resolvers : Resolver(s)) \/ TouchFreed \/ UNCHANGED vars
    <2>1. UNCHANGED <<data_files, req, rest>>
      BY <1>1 DEF Resolver, GetHost, WriteResult, TouchFreed, vars, reqVars
    <2>2. Doomed' = Doomed
      BY <2>1 DEF Doomed, Busy
    <2> QED BY <1>1, <2>1, <2>2, ResolverTakes, ExitCountKept DEF Threads
  <1>2. CASE Main
    <2>1. UNCHANGED <<data_files, rest>>
      BY <1>2
         DEF Main, ParseArguments, SpawnRequester, SpawnResolver, ArgsMallocFails, SpawnDone,
             PutFile, PoisonFiles, PoisonHosts, JoinRequester, JoinResolver, NextStage,
             FreeResources, reqVars
    <2>2. \A r \in Requesters : /\ req'[r] = "exited" => req[r] = "exited"
                                /\ Busy(r)' => Busy(r)
      <3>1. CASE SpawnRequester
        BY <3>1 DEF SpawnRequester, Busy, Threads, Types, RequesterType
      <3>2. CASE ~ SpawnRequester
        BY <1>2, <3>2
           DEF Main, ParseArguments, SpawnResolver, ArgsMallocFails, SpawnDone, PutFile,
               PoisonFiles, PoisonHosts, JoinRequester, JoinResolver, NextStage, FreeResources,
               reqVars, Busy
      <3> QED BY <3>1, <3>2
    <2>3. Doomed' \subseteq Doomed
      BY <2>1, <2>2 DEF Doomed
    <2> QED BY <1>2, <2>1, <2>3, MainTakes, ExitCountKept DEF Threads
  <1>3. ASSUME NEW r \in Requesters, Requester(r)
        PROVE  ExitCount'
    <2>1. UNCHANGED data_files
      BY <1>3 DEF Requester
    <2>2. CASE LogLine(r)
      <3>1. rest[r] # << >> /\ rest[r] \in Seq(Hosts)
        BY <2>2 DEF LogLine, Threads, Types, RequesterType, LogHasLine
      <3>2. ToSet(Tail(rest[r])) \subseteq ToSet(rest[r])
        BY <3>1, ToSetTail
      <3>3. Doomed' \subseteq Doomed
        BY <2>2, <3>2 DEF LogLine, Doomed, Busy, Threads, Types, RequesterType
      <3> QED BY <2>1, <2>2, <3>3, LogLineTakes, ExitCountKept DEF Threads
    <2>3. CASE CloseFile(r)
      <3>1. Doomed' \subseteq Doomed
        BY <2>3 DEF CloseFile, Doomed, Busy, Threads, Types, RequesterType
      <3> QED BY <2>1, <2>3, <3>1, CloseFileTakes, ExitCountKept DEF Threads
    <2> QED BY <1>3, <2>1, <2>2, <2>3, GetFileExits, PutLineExits DEF Requester
  <1> QED BY <1>1, <1>2, <1>3 DEF Next

LEMMA InitExitCount == Init => ExitCount
  <1> SUFFICES ASSUME Init PROVE ExitCount
    OBVIOUS
  <1>1. Taken = 0 /\ Exits = {}
    BY InitTaken
  <1>2. NoFile(0) = {} /\ Deadly(0) = {} /\ Doomed = {}
    BY DEF Init, NoFile, Deadly, Doomed, Busy
  <1> QED BY <1>1, <1>2, FS_EmptySet DEF ExitCount

\* The requesters never read more files than main was given.
LEMMA BegunBound ==
    ASSUME Threads, ExitCount
    PROVE  /\ Cardinality({k \in 1 .. Taken : FileAt(k) \in Files})
                = Taken - Cardinality(NoFile(Taken))
           /\ Total(Begun) <= Cardinality({k \in 1 .. Taken : FileAt(k) \in Files})
           /\ Total(Begun) <= Len(data_files)
  <1> DEFINE found == {k \in 1 .. Taken : FileAt(k) \in Files}
  <1>1. /\ Taken \in Nat /\ Total(Begun) \in Nat /\ Cardinality(Exits) \in Nat
        /\ Taken = Total(Begun) + Cardinality(Exits)
    BY TakenTypes DEF Threads, Types, Taken
  <1>2. IsFiniteSet(1 .. Taken) /\ Cardinality(1 .. Taken) = Taken
    BY <1>1, FS_Interval
  <1>3. NoFile(Taken) \subseteq 1 .. Taken /\ found = (1 .. Taken) \ NoFile(Taken)
    BY DEF NoFile
  <1>4. (1 .. Taken) \cap NoFile(Taken) = NoFile(Taken)
    BY <1>3
  <1>5. Cardinality((1 .. Taken) \ NoFile(Taken))
          = Cardinality(1 .. Taken) - Cardinality((1 .. Taken) \cap NoFile(Taken))
    BY <1>2, FS_Difference
  <1>6. Cardinality(found) = Taken - Cardinality(NoFile(Taken))
    BY <1>2, <1>3, <1>4, <1>5
  <1>7. Total(Begun) <= Cardinality(found)
    BY <1>1, <1>6, PlacesFinite DEF ExitCount
  <1>8. found \subseteq 1 .. Len(data_files)
    BY <1>1, ContentsAssumption DEF FileAt, Threads, Types, DataType
  <1>9. /\ IsFiniteSet(1 .. Len(data_files))
        /\ Cardinality(1 .. Len(data_files)) = Len(data_files)
    <2> DEFINE n == Len(data_files)
    <2>1. n \in Nat
      BY DEF Threads, Types, DataType
    <2> HIDE DEF n
    <2>2. IsFiniteSet(1 .. n) /\ Cardinality(1 .. n) = n
      BY <2>1, FS_Interval
    <2> QED BY <2>2 DEF n
  <1>10. Cardinality(found) <= Len(data_files) /\ Cardinality(found) \in Nat
    BY <1>8, <1>9, FS_Subset, FS_CardinalityType
  <1> HIDE DEF found
  <1>11. Total(Begun) <= Len(data_files)
    BY <1>1, <1>7, <1>10 DEF Threads, Types, DataType
  <1> QED BY <1>6, <1>7, <1>11 DEF found
-----------------------------------------------------------------------------
(* The lines between the files and the log of serviced names. *)

LEMMA OccurrencesEmpty == ASSUME NEW h PROVE Occurrences(h, << >>) = 0
  <1>1. << >> \in Seq({}) /\ \A k \in 1 .. Len(<< >>) : << >>[k] # h
    OBVIOUS
  <1> QED BY <1>1, OccurrencesNone

LEMMA LinesType ==
    ASSUME NEW h, NEW k
    PROVE  LinesOf(h, k) \in Nat
  <1>1. CASE FileAt(k) \in Files
    <2>1. Contents[FileAt(k)] \in Seq(Hosts)
      BY <1>1, ContentsAssumption
    <2> QED BY <1>1, <2>1, OccurrencesPlaces DEF LinesOf
  <1> QED BY <1>1 DEF LinesOf

LEMMA DrawnGrows ==
    ASSUME NEW h, NEW n \in Nat
    PROVE  Drawn(h, n) \in Nat /\ Drawn(h, n + 1) = Drawn(h, n) + LinesOf(h, n + 1)
  <1> DEFINE f == [k \in 1 .. n |-> LinesOf(h, k)]
             g == [k \in 1 .. n + 1 |-> LinesOf(h, k)]
  <1>1. IsFiniteSet(1 .. n) /\ IsFiniteSet(1 .. n + 1)
    BY FS_Interval
  <1>2. Countable(f) /\ Countable(g)
    BY <1>1, LinesType DEF Countable
  <1>3. n + 1 \notin DOMAIN f /\ DOMAIN g = DOMAIN f \cup {n + 1}
    OBVIOUS
  <1>4. (\A k \in DOMAIN f : g[k] = f[k]) /\ g[n + 1] = LinesOf(h, n + 1)
    OBVIOUS
  <1>5. Total(f) \in Nat
    BY <1>2, PairsFinite
  <1> HIDE DEF f, g
  <1>6. Total(g) = Total(f) + g[n + 1]
    BY <1>2, <1>3, <1>4, TotalExtend
  <1> QED BY <1>4, <1>5, <1>6 DEF Drawn, f, g

LEMMA UnreadCountable ==
    ASSUME NEW h, NEW lines \in [Requesters -> Seq(Hosts)]
    PROVE  /\ Countable([r \in Requesters |-> Occurrences(h, lines[r])])
           /\ Unread(h, lines) \in Nat
           /\ \A r \in Requesters : Occurrences(h, lines[r]) \in Nat
  <1>1. \A r \in Requesters : Occurrences(h, lines[r]) \in Nat
    BY OccurrencesPlaces
  <1>2. Countable([r \in Requesters |-> Occurrences(h, lines[r])])
    BY <1>1, RequestersFinite DEF Countable
  <1> QED BY <1>1, <1>2, PairsFinite DEF Unread

LEMMA UnreadStep ==
    ASSUME NEW h, NEW old \in [Requesters -> Seq(Hosts)], NEW new \in [Requesters -> Seq(Hosts)],
           NEW r \in Requesters, \A q \in Requesters \ {r} : new[q] = old[q]
    PROVE  Unread(h, new) = Unread(h, old) - Occurrences(h, old[r]) + Occurrences(h, new[r])
  <1> DEFINE f == [q \in Requesters |-> Occurrences(h, old[q])]
             g == [q \in Requesters |-> Occurrences(h, new[q])]
  <1>1. Countable(f) /\ Countable(g)
    BY UnreadCountable
  <1>2. DOMAIN f = Requesters /\ DOMAIN g = Requesters
    OBVIOUS
  <1>3. \A q \in Requesters \ {r} : g[q] = f[q]
    OBVIOUS
  <1>4. f[r] = Occurrences(h, old[r]) /\ g[r] = Occurrences(h, new[r])
    OBVIOUS
  <1> HIDE DEF f, g
  <1>5. Total(g) = Total(f) - f[r] + g[r]
    BY <1>1, <1>2, <1>3, TotalUpdate
  <1> QED BY <1>4, <1>5 DEF Unread, f, g

LEMMA InitLineFlow == Init => LineFlow
  <1> SUFFICES ASSUME Init PROVE LineFlow
    OBVIOUS
  <1>1. Taken = 0 /\ Exits = {} /\ \A r \in Requesters : rest[r] = << >>
    BY InitTaken DEF Init
  <1>2. NoFile(0) = {} /\ ToSet(<< >>) = {}
    BY DEF NoFile, ToSet
  <1>3. ASSUME NEW h \in Hosts
        PROVE  serviced[h] + Unread(h, rest) = Drawn(h, 0)
    <2>1. Unread(h, rest) = 0
      BY <1>1, OccurrencesEmpty, TotalZero DEF Unread
    <2>2. Drawn(h, 0) = 0
      <3>1. \A a \in DOMAIN [k \in 1 .. 0 |-> LinesOf(h, k)] :
                [k \in 1 .. 0 |-> LinesOf(h, k)][a] = 0
        OBVIOUS
      <3> QED BY <3>1, TotalZero DEF Drawn
    <2> QED BY <2>1, <2>2 DEF Init
  <1> QED BY <1>1, <1>2, <1>3 DEF LineFlow

\* The facts of LineFlow, of this state and of the next.
LEMMA LineFlowKept ==
    ASSUME Types, LineFlow, UNCHANGED <<data_files, Taken, Exits, rest, serviced>>,
           \A r \in Requesters : Busy(r) => Busy(r)' \/ rest[r] = << >>
    PROVE  LineFlow'
  <1>1. Storable' <=> Storable
    BY DataKept
  <1>2. /\ NoFile(Taken)' = NoFile(Taken)
        /\ \A h : Drawn(h, Taken)' = Drawn(h, Taken)
    BY DEF NoFile, Drawn, LinesOf, FileAt, Total
  <1> QED BY <1>1, <1>2 DEF LineFlow

LEMMA GetFileLines ==
    ASSUME Threads, Threads', FileQueue, LineFlow, NEW r \in Requesters, GetFile(r),
           UNCHANGED data_files
    PROVE  LineFlow'
  <1> SUFFICES ASSUME Storable PROVE LineFlow'
    BY DataKept DEF LineFlow
  <1>1. /\ Taken \in Nat /\ Taken' = Taken + 1 /\ Head(file_store) = FileAt(Taken + 1)
        /\ DataType
    BY GetFileHead, GetFileTakes DEF Threads, Types
  <1>2. /\ NoFile(Taken)' = NoFile(Taken + 1)
        /\ \A h : Drawn(h, Taken)' = Drawn(h, Taken + 1)
    BY <1>1 DEF NoFile, Drawn, LinesOf, FileAt, Total
  <1>3. /\ req[r] = "get_file" /\ rest[r] = << >>
        /\ \A q \in Requesters \ {r} : req'[q] = req[q] /\ rest'[q] = rest[q]
        /\ Head(file_store) \in Files =>
             req'[r] = "read" /\ rest'[r] = Contents[Head(file_store)]
        /\ Head(file_store) \notin Files => rest' = rest
        /\ UNCHANGED serviced
    BY DEF GetFile, Threads, Types, RequesterType, LineFlow, Busy, logVars
  <1>4. rest \in [Requesters -> Seq(Hosts)] /\ rest' \in [Requesters -> Seq(Hosts)]
        /\ serviced \in [Hosts -> Nat]
    BY DEF Threads, Types, RequesterType, LogType
  <1>5. /\ \A q \in Requesters : ToSet(rest[q]) \cap Unstorable = {}
        /\ \A q \in Requesters : ~ Busy(q) => rest[q] = << >>
        /\ Cardinality(Exits) = Cardinality(NoFile(Taken))
        /\ \A h \in Hosts : serviced[h] + Unread(h, rest) = Drawn(h, Taken)
    BY DEF LineFlow
  <1>6. CASE Head(file_store) \in Files
    <2>1. Exits' = Exits /\ NoFile(Taken + 1) = NoFile(Taken)
      BY <1>1, <1>6, GetFileTakes, PlacesGrow DEF Threads
    <2>2. ToSet(rest'[r]) \cap Unstorable = {}
      <3>1. Taken + 1 \in ValidFiles /\ Head(file_store) = data_files[Taken + 1]
        BY <1>1, <1>6, PlacesGrow
      <3>2. rest'[r] = Contents[data_files[Taken + 1]]
        BY <1>3, <1>6, <3>1
      <3> QED BY <3>1, <3>2 DEF Storable
    <2>3. \A q \in Requesters : ToSet(rest'[q]) \cap Unstorable = {}
      BY <1>3, <1>5, <2>2
    <2>4. \A q \in Requesters : (~ Busy(q))' => rest'[q] = << >>
      BY <1>3, <1>5, <1>6 DEF Busy
    <2>5. ASSUME NEW h \in Hosts
          PROVE  serviced'[h] + Unread(h, rest') = Drawn(h, Taken + 1)
      <3>0. \A q \in Requesters \ {r} : rest'[q] = rest[q]
        BY <1>3
      <3>1. Unread(h, rest') = Unread(h, rest) - Occurrences(h, rest[r]) + Occurrences(h, rest'[r])
        BY <3>0, <1>4, UnreadStep
      <3>2. Drawn(h, Taken + 1) = Drawn(h, Taken) + LinesOf(h, Taken + 1)
        BY <1>1, DrawnGrows
      <3>3. LinesOf(h, Taken + 1) = Occurrences(h, rest'[r])
        BY <1>1, <1>3, <1>6 DEF LinesOf
      <3>4. /\ Unread(h, rest) \in Nat /\ Occurrences(h, rest'[r]) \in Nat
            /\ serviced[h] \in Nat
        BY <1>4, UnreadCountable
      <3> QED BY <1>3, <1>5, <3>1, <3>2, <3>3, <3>4, OccurrencesEmpty
    <2> QED BY <1>2, <1>5, <2>1, <2>3, <2>4, <2>5 DEF LineFlow
  <1>7. CASE Head(file_store) \notin Files
    <2>1. Exits' = Exits \cup {r} /\ r \notin Exits
      BY <1>7, GetFileTakes DEF Threads
    <2>2. Cardinality(Exits') = Cardinality(Exits) + 1
      BY <2>1, TakenTypes, Joins DEF Threads, Types
    <2>3. Cardinality(NoFile(Taken + 1)) = Cardinality(NoFile(Taken)) + 1
      BY <1>1, <1>7, PlacesGrow
    <2>4. \A q \in Requesters : (~ Busy(q))' => rest'[q] = << >>
      BY <1>3, <1>5, <1>7 DEF Busy
    <2>5. ASSUME NEW h \in Hosts
          PROVE  serviced'[h] + Unread(h, rest') = Drawn(h, Taken + 1)
      <3>1. Drawn(h, Taken + 1) = Drawn(h, Taken) + LinesOf(h, Taken + 1)
            /\ Drawn(h, Taken) \in Nat
        BY <1>1, DrawnGrows
      <3>2. LinesOf(h, Taken + 1) = 0
        BY <1>1, <1>7 DEF LinesOf
      <3> QED BY <1>3, <1>5, <1>7, <3>1, <3>2
    <2> QED BY <1>2, <1>3, <1>5, <1>7, <2>2, <2>3, <2>4, <2>5 DEF LineFlow
  <1> QED BY <1>6, <1>7

LEMMA PutLineLines ==
    ASSUME Threads, Threads', LineFlow, NEW r \in Requesters, PutLine(r), UNCHANGED data_files
    PROVE  LineFlow'
  <1> SUFFICES ASSUME Storable PROVE LineFlow'
    BY DataKept DEF LineFlow
  <1>1. /\ req[r] = "read" /\ rest[r] # << >> /\ rest[r] \in Seq(Hosts)
        /\ UNCHANGED <<rest, serviced>>
        /\ \A q \in Requesters \ {r} : req'[q] = req[q]
    BY DEF PutLine, Threads, Types, RequesterType, logVars
  <1>2. Head(rest[r]) \in ToSet(rest[r])
    BY <1>1, ToSetTail
  <1>3. Head(rest[r]) \notin Unstorable
    BY <1>2 DEF LineFlow
  <1>4. Taken' = Taken /\ Exits' = Exits /\ req'[r] = "log"
    BY <1>3, PutLineTakes DEF PutLine, Threads, Types, RequesterType
  <1>5. \A q \in Requesters : Busy(q) => Busy(q)'
    BY <1>1, <1>4 DEF Busy
  <1> QED BY <1>1, <1>4, <1>5, LineFlowKept DEF Threads

LEMMA LogLineLines ==
    ASSUME Threads, Threads', LineFlow, NEW r \in Requesters, LogLine(r), UNCHANGED data_files
    PROVE  LineFlow'
  <1> SUFFICES ASSUME Storable PROVE LineFlow'
    BY DataKept DEF LineFlow
  <1> DEFINE line == Head(rest[r])
  <1>1. /\ req[r] = "log" /\ rest[r] # << >> /\ rest[r] \in Seq(Hosts)
        /\ \A q \in Requesters \ {r} : req'[q] = req[q] /\ rest'[q] = rest[q]
        /\ req'[r] = "read" /\ rest'[r] = Tail(rest[r])
        /\ serviced' = [serviced EXCEPT ![line] = @ + 1]
    BY DEF LogLine, Threads, Types, RequesterType, LogHasLine
  <1>2. Taken' = Taken /\ Exits' = Exits
    BY LogLineTakes DEF Threads
  <1>3. /\ NoFile(Taken)' = NoFile(Taken)
        /\ \A h : Drawn(h, Taken)' = Drawn(h, Taken)
    BY <1>2 DEF NoFile, Drawn, LinesOf, FileAt, Total
  <1>4. rest \in [Requesters -> Seq(Hosts)] /\ rest' \in [Requesters -> Seq(Hosts)]
        /\ serviced \in [Hosts -> Nat] /\ line \in Hosts
    BY <1>1 DEF Threads, Types, RequesterType, LogType
  <1>5. ToSet(rest'[r]) \subseteq ToSet(rest[r])
    BY <1>1, ToSetTail
  <1>6. /\ \A q \in Requesters : ToSet(rest'[q]) \cap Unstorable = {}
        /\ \A q \in Requesters : (~ Busy(q))' => rest'[q] = << >>
    BY <1>1, <1>5 DEF LineFlow, Busy
  <1>7. ASSUME NEW h \in Hosts
        PROVE  serviced'[h] + Unread(h, rest') = Drawn(h, Taken)
    <2>0. \A q \in Requesters \ {r} : rest'[q] = rest[q]
      BY <1>1
    <2>1. Unread(h, rest') = Unread(h, rest) - Occurrences(h, rest[r]) + Occurrences(h, rest'[r])
      BY <1>4, <2>0, UnreadStep
    <2>2. Occurrences(h, rest[r]) = Occurrences(h, rest'[r]) + (IF line = h THEN 1 ELSE 0)
      BY <1>1, OccurrencesTail
    <2>3. serviced'[h] = serviced[h] + (IF line = h THEN 1 ELSE 0)
      BY <1>1, <1>4
    <2>4. /\ Unread(h, rest) \in Nat /\ Occurrences(h, rest'[r]) \in Nat
          /\ Occurrences(h, rest[r]) \in Nat /\ serviced[h] \in Nat
      BY <1>4, UnreadCountable
    <2>5. serviced[h] + Unread(h, rest) = Drawn(h, Taken)
      BY DEF LineFlow
    <2> HIDE DEF line
    <2> QED BY <2>1, <2>2, <2>3, <2>4, <2>5
  <1> QED BY <1>2, <1>3, <1>6, <1>7 DEF LineFlow

LEMMA NextLineFlow ==
    ASSUME Threads, Threads', FileQueue, LineFlow, [Next]_vars
    PROVE  LineFlow'
  <1>1. CASE (\E s \in Resolvers : Resolver(s)) \/ TouchFreed \/ UNCHANGED vars
    <2>1. UNCHANGED <<data_files, req, rest, serviced>>
      BY <1>1 DEF Resolver, GetHost, WriteResult, TouchFreed, vars, reqVars, logVars
    <2> QED BY <1>1, <2>1, ResolverTakes, LineFlowKept DEF Threads, Busy
  <1>2. CASE Main
    <2>1. UNCHANGED <<data_files, rest, serviced>>
      BY <1>2
         DEF Main, ParseArguments, SpawnRequester, SpawnResolver, ArgsMallocFails, SpawnDone,
             PutFile, PoisonFiles, PoisonHosts, JoinRequester, JoinResolver, NextStage,
             FreeResources, reqVars, logVars
    <2>2. \A r \in Requesters : Busy(r) => Busy(r)'
      <3>1. CASE SpawnRequester
        <4>1. i \in Requesters /\ req[i] = "none"
          BY <3>1 DEF SpawnRequester, Requesters, Threads, Types, MainType, Stage
        <4>2. \A r \in Requesters \ {i} : req'[r] = req[r]
          BY <3>1 DEF SpawnRequester, Threads, Types, RequesterType
        <4> QED BY <4>1, <4>2 DEF Busy
      <3>2. CASE ~ SpawnRequester
        BY <1>2, <3>2
           DEF Main, ParseArguments, SpawnResolver, ArgsMallocFails, SpawnDone, PutFile,
               PoisonFiles, PoisonHosts, JoinRequester, JoinResolver, NextStage, FreeResources,
               reqVars, Busy
      <3> QED BY <3>1, <3>2
    <2> QED BY <1>2, <2>1, <2>2, MainTakes, LineFlowKept DEF Threads
  <1>3. ASSUME NEW r \in Requesters, Requester(r)
        PROVE  LineFlow'
    <2>1. UNCHANGED data_files
      BY <1>3 DEF Requester
    <2>2. CASE CloseFile(r)
      <3>1. /\ rest[r] = << >> /\ UNCHANGED <<rest, serviced>>
            /\ \A q \in Requesters \ {r} : req'[q] = req[q]
        BY <2>2 DEF CloseFile, Threads, Types, RequesterType, logVars
      <3>2. \A q \in Requesters : Busy(q) => Busy(q)' \/ rest[q] = << >>
        BY <3>1 DEF Busy
      <3> QED BY <2>1, <2>2, <3>1, <3>2, CloseFileTakes, LineFlowKept DEF Threads
    <2> QED BY <1>3, <2>1, <2>2, GetFileLines, PutLineLines, LogLineLines DEF Requester
  <1> QED BY <1>1, <1>2, <1>3 DEF Next
-----------------------------------------------------------------------------
(* The lines and the pills between the requesters and the results. *)

LEMMA CrewsFinite ==
    /\ \A h : IsFiniteSet(Logging(h)) /\ Cardinality(Logging(h)) \in Nat
    /\ \A h : IsFiniteSet(Writing(h)) /\ Cardinality(Writing(h)) \in Nat
    /\ IsFiniteSet(Poisoned) /\ Cardinality(Poisoned) \in Nat
  <1>1. /\ \A h : Logging(h) \in SUBSET Requesters /\ Writing(h) \in SUBSET Resolvers
        /\ Poisoned \in SUBSET Resolvers
    BY DEF Logging, Writing, Poisoned
  <1> QED BY <1>1, RequestersFinite, ResolversFinite

LEMMA SentType ==
    ASSUME Types, NEW h \in Hosts
    PROVE  Sent(h) \in Nat /\ Occurrences(h, host_store) \in Nat
  <1>1. serviced[h] \in Nat /\ host_store \in Seq(Hosts)
    BY DEF Types, LogType, HostStoreType
  <1>2. Occurrences(h, host_store) \in Nat
    BY <1>1, OccurrencesPlaces
  <1>3. Cardinality(Logging(h)) \in Nat
    BY CrewsFinite
  <1> QED BY <1>1, <1>2, <1>3 DEF Sent

LEMMA SentKept ==
    ASSUME UNCHANGED serviced,
           \A r \in Requesters : /\ req'[r] = "log" <=> req[r] = "log"
                                 /\ req[r] = "log" => rest'[r] = rest[r]
    PROVE  \A h : Sent(h)' = Sent(h)
  <1>1. \A h : Logging(h)' = Logging(h)
    BY DEF Logging
  <1> QED BY <1>1 DEF Sent

\* PutLine adds to the store what it has its requester put down as sent.
LEMMA PutLineSends ==
    ASSUME Types, NEW r \in Requesters, PutLine(r)
    PROVE  \/ host_store' = host_store /\ \A h : Sent(h)' = Sent(h)
           \/ \A h \in Hosts :
                 \E n \in {0, 1} : /\ Sent(h)' = Sent(h) + n
                                   /\ Occurrences(h, host_store') = Occurrences(h, host_store) + n
  <1>1. /\ req[r] = "read" /\ rest[r] # << >> /\ rest[r] \in Seq(Hosts)
        /\ UNCHANGED <<rest, serviced>>
        /\ \A q \in Requesters \ {r} : req'[q] = req[q]
        /\ host_store \in Seq(Hosts) /\ serviced \in [Hosts -> Nat]
    BY DEF PutLine, Types, RequesterType, HostStoreType, LogType, logVars
  <1>2. CASE Head(rest[r]) \in Unstorable
    <2>1. req'[r] = "exited" /\ host_store' = host_store
      BY <1>2 DEF PutLine, Types, RequesterType
    <2>2. \A q \in Requesters : req'[q] = "log" <=> req[q] = "log"
      BY <1>1, <2>1
    <2> QED BY <1>1, <2>1, <2>2, SentKept
  <1>3. CASE Head(rest[r]) \notin Unstorable
    <2> DEFINE line == Head(rest[r])
    <2>1. /\ req'[r] = "log" /\ line \in Hosts
          /\ host_store' = Append(host_store, line)
      BY <1>1, <1>3 DEF PutLine, Types, RequesterType
    <2>2. ASSUME NEW h \in Hosts
          PROVE  \E n \in {0, 1} :
                    /\ Sent(h)' = Sent(h) + n
                    /\ Occurrences(h, host_store') = Occurrences(h, host_store) + n
      <3>1. Occurrences(h, host_store')
              = Occurrences(h, host_store) + (IF line = h THEN 1 ELSE 0)
        BY <1>1, <2>1, OccurrencesAppend
      <3>2. CASE line = h
        <4>1. Logging(h)' = Logging(h) \cup {r} /\ r \notin Logging(h)
          BY <1>1, <2>1, <3>2 DEF Logging
        <4>2. Cardinality(Logging(h)') = Cardinality(Logging(h)) + 1
          BY <4>1, CrewsFinite, Joins
        <4>3. Sent(h)' = Sent(h) + 1
          BY <1>1, <4>2, CrewsFinite DEF Sent
        <4> QED BY <3>1, <3>2, <4>3
      <3>3. CASE line # h
        <4>1. Logging(h)' = Logging(h)
          BY <1>1, <2>1, <3>3 DEF Logging
        <4>2. Sent(h)' = Sent(h) /\ Sent(h) \in Nat
          BY <1>1, <4>1, SentType DEF Sent
        <4>3. Sent(h)' = Sent(h) + 0
          BY <4>2
        <4> QED BY <3>1, <3>3, <4>3
      <3> QED BY <3>2, <3>3
    <2> QED BY <2>2
  <1> QED BY <1>2, <1>3

LEMMA LogLineSends ==
    ASSUME Types, LogHasLine, NEW r \in Requesters, LogLine(r)
    PROVE  \A h \in Hosts : Sent(h)' = Sent(h)
  <1> DEFINE line == Head(rest[r])
  <1>1. /\ req[r] = "log" /\ req'[r] = "read" /\ line \in Hosts
        /\ \A q \in Requesters \ {r} : req'[q] = req[q] /\ rest'[q] = rest[q]
        /\ serviced' = [serviced EXCEPT ![line] = @ + 1] /\ serviced \in [Hosts -> Nat]
    BY DEF LogLine, Types, RequesterType, LogType, LogHasLine
  <1>2. ASSUME NEW h \in Hosts
        PROVE  Sent(h)' = Sent(h)
    <2>1. CASE line = h
      <3>1. Logging(h)' = Logging(h) \ {r} /\ r \in Logging(h)
        BY <1>1, <2>1 DEF Logging
      <3>2. Cardinality(Logging(h)') = Cardinality(Logging(h)) - 1
        BY <3>1, CrewsFinite, Leaves
      <3>3. serviced'[h] = serviced[h] + 1 /\ serviced[h] \in Nat
        BY <1>1, <2>1
      <3> QED BY <3>2, <3>3, CrewsFinite DEF Sent
    <2>2. CASE line # h
      <3>1. Logging(h)' = Logging(h)
        BY <1>1, <2>2 DEF Logging
      <3>2. serviced'[h] = serviced[h]
        BY <1>1, <2>2
      <3> QED BY <3>1, <3>2 DEF Sent
    <2> QED BY <2>1, <2>2
  <1> QED BY <1>2

\* Main and the resolvers send no line.
LEMMA OtherSends ==
    ASSUME Threads, Main \/ (\E s \in Resolvers : Resolver(s)) \/ TouchFreed \/ UNCHANGED vars
    PROVE  \A h : Sent(h)' = Sent(h)
  <1>1. CASE Main
    <2>1. UNCHANGED <<rest, serviced>>
      BY <1>1
         DEF Main, ParseArguments, SpawnRequester, SpawnResolver, ArgsMallocFails, SpawnDone,
             PutFile, PoisonFiles, PoisonHosts, JoinRequester, JoinResolver, NextStage,
             FreeResources, reqVars, logVars
    <2>2. \A r \in Requesters : req'[r] = "log" <=> req[r] = "log"
      <3>1. CASE SpawnRequester
        <4>1. i \in Requesters /\ req[i] = "none"
          BY <3>1 DEF SpawnRequester, Requesters, Threads, Types, MainType, Stage
        <4>2. \A r \in Requesters \ {i} : req'[r] = req[r]
          BY <3>1 DEF SpawnRequester, Threads, Types, RequesterType
        <4>3. req'[i] \in {"get_file", "absent"}
          BY <3>1, <4>1 DEF SpawnRequester, Threads, Types, RequesterType
        <4> QED BY <4>1, <4>2, <4>3
      <3>2. CASE ~ SpawnRequester
        BY <1>1, <3>2
           DEF Main, ParseArguments, SpawnResolver, ArgsMallocFails, SpawnDone, PutFile,
               PoisonFiles, PoisonHosts, JoinRequester, JoinResolver, NextStage, FreeResources,
               reqVars
      <3> QED BY <3>1, <3>2
    <2> QED BY <2>1, <2>2, SentKept
  <1>2. CASE (\E s \in Resolvers : Resolver(s)) \/ TouchFreed \/ UNCHANGED vars
    <2>1. UNCHANGED <<req, rest, serviced>>
      BY <1>2 DEF Resolver, GetHost, WriteResult, TouchFreed, vars, reqVars, logVars
    <2> QED BY <2>1, SentKept
  <1> QED BY <1>1, <1>2

LEMMA ReceivedType ==
    ASSUME Types, NEW h \in Hosts
    PROVE  Received(h) \in Nat /\ ResultLines(h) \in Nat
  <1>1. ResultLines(h) \in Nat
    BY DEF ResultLines, Types, LogType, Answers
  <1> QED BY <1>1, CrewsFinite DEF Received

LEMMA ReceivedKept ==
    ASSUME UNCHANGED results,
           \A s \in Resolvers : /\ res'[s] = "write" <=> res[s] = "write"
                                /\ res'[s] = "exited" <=> res[s] = "exited"
                                /\ res[s] = "write" => host'[s] = host[s]
    PROVE  Poisoned' = Poisoned /\ \A h : Received(h)' = Received(h)
  <1>1. \A h : Writing(h)' = Writing(h)
    BY DEF Writing
  <1>2. Poisoned' = Poisoned
    BY DEF Poisoned
  <1> QED BY <1>1, <1>2 DEF Received, ResultLines

\* What GetHost takes from the store is in its hands, or was its pill.
LEMMA GetHostReceives ==
    ASSUME Types, NEW s \in Resolvers, GetHost(s)
    PROVE  /\ \A h \in Hosts \ {POISON} :
                \E n \in {0, 1} : /\ Received(h)' = Received(h) + n
                                  /\ Occurrences(h, host_store) = Occurrences(h, host_store') + n
           /\ \E n \in {0, 1} : /\ Cardinality(Poisoned') = Cardinality(Poisoned) + n
                                /\ Occurrences(POISON, host_store)
                                     = Occurrences(POISON, host_store') + n
           /\ \A h \in Hosts : Occurrences(h, host_store') \in Nat
  <1> DEFINE line == Head(host_store)
  <1>1. /\ res[s] = "get_host" /\ host_store # << >> /\ host_store' = Tail(host_store)
        /\ host_store \in Seq(Hosts) /\ UNCHANGED results
        /\ host'[s] = line /\ res'[s] = (IF line = POISON THEN "exited" ELSE "write")
        /\ \A t \in Resolvers \ {s} : res'[t] = res[t] /\ host'[t] = host[t]
    BY DEF GetHost, Types, ResolverType, HostStoreType, logVars
  <1>2. \A h \in Hosts :
           /\ Occurrences(h, host_store)
                = Occurrences(h, host_store') + (IF line = h THEN 1 ELSE 0)
           /\ Occurrences(h, host_store') \in Nat
    <2>1. Tail(host_store) \in Seq(Hosts)
      BY <1>1
    <2> QED BY <1>1, <2>1, OccurrencesTail, OccurrencesPlaces
  <1> HIDE DEF line
  <1>3. \A h : ResultLines(h)' = ResultLines(h)
    BY <1>1 DEF ResultLines
  <1>4. ASSUME NEW h \in Hosts \ {POISON}
        PROVE  Received(h)' = Received(h) + (IF line = h THEN 1 ELSE 0)
    <2>1. CASE line = h
      <3>1. Writing(h)' = Writing(h) \cup {s} /\ s \notin Writing(h)
        BY <1>1, <2>1 DEF Writing
      <3>2. Cardinality(Writing(h)') = Cardinality(Writing(h)) + 1
        BY <3>1, CrewsFinite, Joins
      <3> QED BY <1>3, <2>1, <3>2, CrewsFinite, ReceivedType DEF Received
    <2>2. CASE line # h
      <3>1. Writing(h)' = Writing(h)
        BY <1>1, <2>2 DEF Writing
      <3> QED BY <1>3, <2>2, <3>1, ReceivedType DEF Received
    <2> QED BY <2>1, <2>2
  <1>5. Cardinality(Poisoned') = Cardinality(Poisoned) + (IF line = POISON THEN 1 ELSE 0)
    <2>1. CASE line = POISON
      <3>1. Poisoned' = Poisoned \cup {s} /\ s \notin Poisoned
        BY <1>1, <2>1 DEF Poisoned
      <3> QED BY <2>1, <3>1, CrewsFinite, Joins
    <2>2. CASE line # POISON
      <3>1. Poisoned' = Poisoned
        BY <1>1, <2>2 DEF Poisoned
      <3> QED BY <2>2, <3>1, CrewsFinite
    <2> QED BY <2>1, <2>2
  <1> QED BY <1>2, <1>4, <1>5, ContentsAssumption

LEMMA WriteResultReceives ==
    ASSUME Types, WritesHost, NEW s \in Resolvers, WriteResult(s)
    PROVE  Poisoned' = Poisoned /\ \A h \in Hosts \ {POISON} : Received(h)' = Received(h)
  <1> DEFINE line   == host[s]
             answer == DnsLookup(host[s])
  <1>1. /\ res[s] = "write" /\ res'[s] = "get_host" /\ line \in Hosts \ {POISON}
        /\ \A t \in Resolvers \ {s} : res'[t] = res[t] /\ host'[t] = host[t]
        /\ results' = [results EXCEPT ![<<line, answer>>] = @ + 1]
        /\ results \in [Hosts \X Answers -> Nat]
    BY DEF WriteResult, Types, ResolverType, LogType, WritesHost
  <1>2. answer \in {"address", "UNHANDELED", "NOT_RESOLVED"}
    BY DEF DnsLookup
  <1>3. Poisoned' = Poisoned
    BY <1>1 DEF Poisoned
  <1> HIDE DEF line, answer
  <1>4. ASSUME NEW h \in Hosts \ {POISON}
        PROVE  Received(h)' = Received(h)
    <2>1. CASE line = h
      <3>1. Writing(h)' = Writing(h) \ {s} /\ s \in Writing(h)
        BY <1>1, <2>1 DEF Writing, line
      <3>2. Cardinality(Writing(h)') = Cardinality(Writing(h)) - 1
        BY <3>1, CrewsFinite, Leaves
      <3>3. ResultLines(h)' = ResultLines(h) + 1 /\ ResultLines(h) \in Nat
        BY <1>1, <1>2, <2>1 DEF ResultLines, Answers
      <3> QED BY <3>2, <3>3, CrewsFinite DEF Received
    <2>2. CASE line # h
      <3>1. Writing(h)' = Writing(h)
        BY <1>1, <2>2 DEF Writing, line
      <3>2. ResultLines(h)' = ResultLines(h)
        BY <1>1, <1>2, <2>2 DEF ResultLines, Answers
      <3> QED BY <3>1, <3>2 DEF Received
    <2> QED BY <2>1, <2>2
  <1> QED BY <1>3, <1>4

LEMMA OtherReceives ==
    ASSUME Threads, Main \/ (\E r \in Requesters : Requester(r)) \/ TouchFreed \/ UNCHANGED vars
    PROVE  Poisoned' = Poisoned /\ \A h : Received(h)' = Received(h)
  <1>1. CASE Main
    <2>1. UNCHANGED <<host, results>>
      BY <1>1
         DEF Main, ParseArguments, SpawnRequester, SpawnResolver, ArgsMallocFails, SpawnDone,
             PutFile, PoisonFiles, PoisonHosts, JoinRequester, JoinResolver, NextStage,
             FreeResources, resVars, logVars
    <2>2. \A s \in Resolvers : /\ res'[s] = "write" <=> res[s] = "write"
                               /\ res'[s] = "exited" <=> res[s] = "exited"
      <3>1. CASE SpawnResolver
        <4>1. i \in Resolvers /\ res[i] = "none"
          BY <3>1 DEF SpawnResolver, Resolvers, Threads, Types, MainType, Stage
        <4>2. \/ res' = res
              \/ /\ \A s \in Resolvers \ {i} : res'[s] = res[s]
                 /\ res'[i] \in {"get_host", "absent"}
          BY <3>1, <4>1 DEF SpawnResolver, Threads, Types, ResolverType
        <4> QED BY <4>1, <4>2
      <3>2. CASE ~ SpawnResolver
        BY <1>1, <3>2
           DEF Main, ParseArguments, SpawnRequester, ArgsMallocFails, SpawnDone, PutFile,
               PoisonFiles, PoisonHosts, JoinRequester, JoinResolver, NextStage, FreeResources,
               resVars
      <3> QED BY <3>1, <3>2
    <2> QED BY <2>1, <2>2, ReceivedKept
  <1>2. CASE (\E r \in Requesters : Requester(r)) \/ TouchFreed \/ UNCHANGED vars
    <2>1. UNCHANGED <<res, host, results>>
      BY <1>2 DEF Requester, GetFile, PutLine, LogLine, CloseFile, TouchFreed, vars, resVars, logVars
    <2> QED BY <2>1, ReceivedKept
  <1> QED BY <1>1, <1>2

\* What each kind of step does to the store and to its two sides, as one fact.
LEMMA RequesterSends ==
    ASSUME Threads, NEW r \in Requesters, Requester(r)
    PROVE  /\ Poisoned' = Poisoned /\ \A h : Received(h)' = Received(h)
           /\ \/ host_store' = host_store /\ \A h \in Hosts : Sent(h)' = Sent(h)
              \/ PutLine(r) /\ \A h \in Hosts :
                   \E n \in {0, 1} : /\ Sent(h)' = Sent(h) + n
                                     /\ Occurrences(h, host_store') = Occurrences(h, host_store) + n
  <1>1. UNCHANGED <<res, host, results>>
    BY DEF Requester, GetFile, PutLine, LogLine, CloseFile, resVars, logVars
  <1>2. Poisoned' = Poisoned /\ \A h : Received(h)' = Received(h)
    BY <1>1, ReceivedKept
  <1>3. CASE PutLine(r)
    BY <1>2, <1>3, PutLineSends DEF Threads
  <1>4. CASE LogLine(r)
    BY <1>2, <1>4, LogLineSends DEF Threads, LogLine
  <1>5. CASE GetFile(r) \/ CloseFile(r)
    <2>1. /\ req[r] # "log" /\ req'[r] # "log" /\ UNCHANGED <<serviced, host_store>>
          /\ \A q \in Requesters \ {r} : req'[q] = req[q] /\ rest'[q] = rest[q]
      BY <1>5 DEF GetFile, CloseFile, Threads, Types, RequesterType, logVars
    <2>2. \A h : Sent(h)' = Sent(h)
      BY <2>1, SentKept
    <2> QED BY <1>2, <2>1, <2>2
  <1> QED BY <1>3, <1>4, <1>5 DEF Requester

LEMMA ResolverReceives ==
    ASSUME Threads, NEW s \in Resolvers, Resolver(s)
    PROVE  /\ \A h \in Hosts : Sent(h)' = Sent(h)
           /\ \/ /\ host_store' = host_store /\ Poisoned' = Poisoned
                 /\ \A h \in Hosts \ {POISON} : Received(h)' = Received(h)
              \/ GetHost(s)
  <1>1. UNCHANGED <<req, rest, serviced>>
    BY DEF Resolver, GetHost, WriteResult, reqVars, logVars
  <1>2. \A h : Sent(h)' = Sent(h)
    BY <1>1, SentKept
  <1>3. CASE WriteResult(s)
    BY <1>2, <1>3, WriteResultReceives DEF Threads, WriteResult
  <1> QED BY <1>2, <1>3 DEF Resolver

LEMMA MainFlows ==
    ASSUME Threads, Main \/ TouchFreed \/ UNCHANGED vars
    PROVE  /\ Poisoned' = Poisoned
           /\ \A h \in Hosts : Sent(h)' = Sent(h) /\ Received(h)' = Received(h)
  BY OtherSends, OtherReceives

\* The pills of main are the only elements it adds.
LEMMA MainPills ==
    ASSUME Threads, Main
    PROVE  /\ HostPills \in Nat
           /\ \/ /\ host_store' = Append(host_store, POISON)
                 /\ Alive /\ HostPills' = HostPills + 1
              \/ /\ host_store' = host_store
                 /\ Alive' => Alive /\ HostPills' = HostPills
  <1>1. /\ i \in Nat \ {0} /\ result \in {0, ERROR} /\ NumResolvers \in Nat
        /\ main \in Feeding => result = 0
        /\ main = "poison_hosts" => i <= NumResolvers + 1
    BY CountsAssumption DEF Threads, Types, MainType, Stage
  <1>2. HostPills \in Nat
    BY <1>1 DEF HostPills
  <1>3. CASE PoisonHosts
    BY <1>1, <1>2, <1>3 DEF PoisonHosts, HostPills, Alive
  <1>4. CASE NextStage
    <2>1. host_store' = host_store
      BY <1>4, NextStageCases
    <2>2. Alive' => Alive /\ HostPills' = HostPills
      BY <1>1, <1>4, NextStageCases DEF HostPills, Done, Alive, Feeding
    <2> QED BY <1>2, <2>1, <2>2
  <1>5. CASE \/ ParseArguments \/ SpawnRequester \/ SpawnResolver \/ ArgsMallocFails
             \/ SpawnDone \/ PutFile
    <2>1. host_store' = host_store
      BY <1>5 DEF ParseArguments, SpawnRequester, SpawnResolver, ArgsMallocFails, SpawnDone, PutFile
    <2>2. /\ main \in {"parse", "spawn_req", "spawn_res", "put_files"}
          /\ main' \in {"spawn_req", "rejected", "spawn_res", "put_files", "fault", "cleanup"}
          /\ main' = "cleanup" => result' = ERROR
      BY <1>5
         DEF ParseArguments, SpawnRequester, SpawnResolver, ArgsMallocFails, SpawnDone, PutFile
    <2>3. HostPills = 0 /\ HostPills' = 0 /\ Alive
      BY <2>2 DEF HostPills, Done, Alive, ERROR
    <2> QED BY <1>2, <2>1, <2>3
  <1>6. CASE PoisonFiles \/ JoinRequester \/ JoinResolver \/ FreeResources
    <2>1. host_store' = host_store
      BY <1>6 DEF PoisonFiles, JoinRequester, JoinResolver, FreeResources
    <2>2. Alive' => /\ main' = main /\ result' = result
                    /\ main \in {"poison_files", "join_req", "join_res", "cleanup"}
      BY <1>6 DEF PoisonFiles, JoinRequester, JoinResolver, Join, FreeResources, Alive
    <2> QED BY <1>2, <2>1, <2>2 DEF HostPills, Done, Alive
  <1> QED BY <1>3, <1>4, <1>5, <1>6 DEF Main

LEMMA NextHostFlow ==
    ASSUME Threads, HostFlow, [Next]_vars
    PROVE  HostFlow'
  <1> SUFFICES ASSUME NEW h \in Hosts \ {POISON}
               PROVE  Sent(h)' = Occurrences(h, host_store)' + Received(h)'
    BY DEF HostFlow
  <1> DEFINE before == Occurrences(h, host_store)
             after  == Occurrences(h, host_store')
  <1>1. Occurrences(h, host_store)' = after
    BY DEF Occurrences
  <1>2. /\ Sent(h) = before + Received(h)
        /\ Sent(h) \in Nat /\ Received(h) \in Nat /\ before \in Nat
        /\ host_store \in Seq(Hosts)
    BY SentType, ReceivedType DEF HostFlow, Threads, Types, HostStoreType
  <1>3. CASE Main
    <2>1. Sent(h)' = Sent(h) /\ Received(h)' = Received(h)
      BY <1>3, MainFlows
    <2>2. host_store' = host_store \/ host_store' = Append(host_store, POISON)
      BY <1>3, MainPills
    <2>3. Occurrences(h, Append(host_store, POISON)) = before + (IF POISON = h THEN 1 ELSE 0)
      BY <1>2, ContentsAssumption, OccurrencesAppend
    <2>4. after = before
      <3>1. CASE host_store' = host_store
        BY <3>1
      <3>2. CASE host_store' = Append(host_store, POISON)
        <4>1. after = before + 0
          BY <2>3, <3>2
        <4> QED BY <1>2, <4>1
      <3> QED BY <2>2, <3>1, <3>2
    <2> QED BY <1>1, <1>2, <2>1, <2>4
  <1>4. CASE TouchFreed \/ UNCHANGED vars
    <2>1. Sent(h)' = Sent(h) /\ Received(h)' = Received(h)
      BY <1>4, MainFlows
    <2>2. host_store' = host_store
      BY <1>4 DEF TouchFreed, vars
    <2> QED BY <1>1, <1>2, <2>1, <2>2
  <1>5. ASSUME NEW r \in Requesters, Requester(r)
        PROVE  Sent(h)' = Occurrences(h, host_store)' + Received(h)'
    <2>1. Received(h)' = Received(h)
      BY <1>5, RequesterSends
    <2>2. \E n \in {0, 1} : Sent(h)' = Sent(h) + n /\ after = before + n
      <3>1. CASE host_store' = host_store /\ Sent(h)' = Sent(h)
        <4>1. Sent(h)' = Sent(h) + 0 /\ after = before + 0
          BY <1>2, <3>1
        <4> QED BY <4>1
      <3> QED BY <1>5, <3>1, RequesterSends
    <2> HIDE DEF before, after
    <2> QED BY <1>1, <1>2, <2>1, <2>2
  <1>6. ASSUME NEW s \in Resolvers, Resolver(s)
        PROVE  Sent(h)' = Occurrences(h, host_store)' + Received(h)'
    <2>1. Sent(h)' = Sent(h)
      BY <1>6, ResolverReceives
    <2>2. CASE GetHost(s)
      <3>1. /\ \E n \in {0, 1} : Received(h)' = Received(h) + n /\ before = after + n
            /\ after \in Nat
        BY <2>2, GetHostReceives DEF Threads
      <3> HIDE DEF before, after
      <3> QED BY <1>1, <1>2, <2>1, <3>1
    <2>3. CASE ~ GetHost(s)
      <3>1. host_store' = host_store /\ Received(h)' = Received(h)
        BY <1>6, <2>3, ResolverReceives
      <3> QED BY <1>1, <1>2, <2>1, <3>1
    <2> QED BY <2>2, <2>3
  <1> QED BY <1>3, <1>4, <1>5, <1>6 DEF Next

\* A step that leaves main alone, with what it does to the pills in the store.
LEMMA ThreadPills ==
    ASSUME Threads, UNCHANGED <<main, i, result>>
    PROVE  HostPills' = HostPills /\ (Alive' <=> Alive) /\ HostPills \in Nat
  <1>1. i \in Nat \ {0} /\ NumResolvers \in Nat
    BY CountsAssumption DEF Threads, Types, MainType
  <1> QED BY <1>1 DEF HostPills, Done, Alive

\* A requester that can still put a line is not yet joined: no pill is there.
LEMMA NoPillsYet ==
    ASSUME Threads, Alive, NEW r \in Requesters, ~ Joinable(req[r])
    PROVE  HostPills = 0
  BY DEF Threads, Stage, ReqJoined, HostPills, Done, Alive

LEMMA NextPillFlow ==
    ASSUME Threads, PillFlow, [Next]_vars
    PROVE  PillFlow'
  <1> SUFFICES ASSUME Alive' PROVE PillFlow'
    BY DEF PillFlow
  <1> DEFINE before == Occurrences(POISON, host_store)
             after  == Occurrences(POISON, host_store')
             n0     == Cardinality(Poisoned)
             n1     == Cardinality(Poisoned')
  <1>1. Occurrences(POISON, host_store)' = after
    BY DEF Occurrences
  <1>2. /\ POISON \in Hosts /\ Sent(POISON) \in Nat /\ before \in Nat /\ n0 \in Nat
        /\ host_store \in Seq(Hosts) /\ Len(host_store) \in Nat
    BY SentType, CrewsFinite, ContentsAssumption DEF Threads, Types, HostStoreType
  <1>3. ASSUME Alive
        PROVE  /\ Sent(POISON) + HostPills = before + n0
               /\ \A k \in 1 .. Len(host_store) :
                     k > Len(host_store) - HostPills => host_store[k] = POISON
    BY <1>3 DEF PillFlow
  <1>4. SUFFICES /\ Sent(POISON)' + HostPills' = after + n1
                 /\ \A k \in 1 .. Len(host_store') :
                       k > Len(host_store') - HostPills' => host_store'[k] = POISON
    BY <1>1 DEF PillFlow
  <1>5. CASE Main
    <2>1. Sent(POISON)' = Sent(POISON) /\ n1 = n0 /\ HostPills \in Nat
      BY <1>2, <1>5, MainFlows, MainPills
    <2>2. CASE /\ host_store' = Append(host_store, POISON)
               /\ Alive /\ HostPills' = HostPills + 1
      <3>1. after = before + 1
        BY <1>2, <2>2, OccurrencesAppend
      <3>2. /\ Len(host_store') = Len(host_store) + 1
            /\ \A k \in 1 .. Len(host_store) : host_store'[k] = host_store[k]
            /\ host_store'[Len(host_store) + 1] = POISON
        BY <1>2, <2>2, AppendProperties
      <3>3. \A k \in 1 .. Len(host_store') :
               k > Len(host_store') - HostPills' => host_store'[k] = POISON
        BY <1>2, <1>3, <2>1, <2>2, <3>2
      <3> HIDE DEF before, after, n0, n1
      <3>4. Sent(POISON) + HostPills = before + n0
        BY <1>3, <2>2
      <3>5. Sent(POISON)' + HostPills' = Sent(POISON) + HostPills + 1 /\ n1 = n0
        BY <1>2, <2>1, <2>2
      <3>6. before \in Nat /\ n0 \in Nat
        BY <1>2
      <3>7. Sent(POISON)' + HostPills' = after + n1
        BY <3>1, <3>4, <3>5, <3>6
      <3> QED BY <3>3, <3>7
    <2>3. CASE host_store' = host_store /\ (Alive' => Alive /\ HostPills' = HostPills)
      BY <1>3, <2>1, <2>3
    <2> QED BY <1>5, <2>2, <2>3, MainPills
  <1>6. CASE UNCHANGED vars
    <2>1. Sent(POISON)' = Sent(POISON) /\ n1 = n0
      BY <1>2, <1>6, MainFlows
    <2>2. UNCHANGED <<main, i, result, host_store>>
      BY <1>6 DEF vars, mainVars
    <2>3. HostPills' = HostPills /\ Alive
      BY <2>2, ThreadPills
    <2> QED BY <1>3, <2>1, <2>2, <2>3
  <1>7. CASE TouchFreed
    BY <1>7 DEF TouchFreed, Alive
  <1>8. ASSUME NEW r \in Requesters, Requester(r)
        PROVE  /\ Sent(POISON)' + HostPills' = after + n1
               /\ \A k \in 1 .. Len(host_store') :
                     k > Len(host_store') - HostPills' => host_store'[k] = POISON
    <2>1. UNCHANGED <<main, i, result>>
      BY <1>8 DEF Requester, GetFile, PutLine, LogLine, CloseFile, mainVars
    <2>2. HostPills' = HostPills /\ Alive /\ n1 = n0
      BY <1>8, <2>1, ThreadPills, RequesterSends
    <2>3. CASE host_store' = host_store /\ \A h \in Hosts : Sent(h)' = Sent(h)
      BY <1>2, <1>3, <2>2, <2>3
    <2>4. CASE PutLine(r) /\ \E n \in {0, 1} : /\ Sent(POISON)' = Sent(POISON) + n
                                               /\ after = before + n
      <3>1. ~ Joinable(req[r])
        BY <2>4 DEF PutLine, Joinable
      <3>2. HostPills = 0
        BY <2>2, <3>1, NoPillsYet
      <3>3. Len(host_store') \in Nat
        <4>1. host_store' = host_store \/ host_store' = Append(host_store, Head(rest[r]))
          BY <2>4 DEF PutLine
        <4> QED BY <1>2, <4>1
      <3> HIDE DEF before, after, n0, n1
      <3> QED BY <1>2, <1>3, <2>2, <2>4, <3>2, <3>3
    <2> QED BY <1>2, <1>8, <2>3, <2>4, RequesterSends
  <1>9. ASSUME NEW s \in Resolvers, Resolver(s)
        PROVE  /\ Sent(POISON)' + HostPills' = after + n1
               /\ \A k \in 1 .. Len(host_store') :
                     k > Len(host_store') - HostPills' => host_store'[k] = POISON
    <2>1. UNCHANGED <<main, i, result>>
      BY <1>9 DEF Resolver, GetHost, WriteResult, mainVars
    <2>2. /\ HostPills' = HostPills /\ HostPills \in Nat /\ Alive
          /\ Sent(POISON)' = Sent(POISON)
      BY <1>2, <1>9, <2>1, ThreadPills, ResolverReceives
    <2>3. CASE GetHost(s)
      <3>1. \E n \in {0, 1} : n1 = n0 + n /\ before = after + n
        BY <2>3, GetHostReceives DEF Threads
      <3>2. after \in Nat
        BY <1>2, <2>3, GetHostReceives DEF Threads
      <3>3. host_store # << >> /\ host_store' = Tail(host_store)
        BY <2>3 DEF GetHost
      <3>4. /\ Len(host_store') = Len(host_store) - 1
            /\ \A k \in 1 .. Len(host_store') : host_store'[k] = host_store[k + 1]
        BY <1>2, <3>3, HeadTailProperties
      <3>5. \A k \in 1 .. Len(host_store') :
               k > Len(host_store') - HostPills' => host_store'[k] = POISON
        <4> TAKE k \in 1 .. Len(host_store')
        <4> HAVE k > Len(host_store') - HostPills'
        <4>1. k + 1 \in 1 .. Len(host_store) /\ k + 1 > Len(host_store) - HostPills
          BY <1>2, <2>2, <3>4
        <4> QED BY <1>3, <2>2, <3>4, <4>1
      <3> HIDE DEF before, after, n0, n1
      <3> QED BY <1>2, <1>3, <2>2, <3>1, <3>2, <3>5
    <2>4. CASE ~ GetHost(s)
      <3>1. host_store' = host_store /\ n1 = n0
        BY <1>9, <2>4, ResolverReceives
      <3> QED BY <1>3, <2>2, <3>1
    <2> QED BY <2>3, <2>4
  <1> QED BY <1>5, <1>6, <1>7, <1>8, <1>9 DEF Next

LEMMA InitFlows == Init => HostFlow /\ PillFlow
  <1> SUFFICES ASSUME Init PROVE HostFlow /\ PillFlow
    OBVIOUS
  <1>1. /\ \A h \in Hosts : serviced[h] = 0 /\ ResultLines(h) = 0
        /\ host_store = << >> /\ main = "parse"
    BY DEF Init, ResultLines, Answers
  <1>2. Poisoned = {} /\ \A h : Logging(h) = {} /\ Writing(h) = {}
    BY DEF Init, Poisoned, Logging, Writing
  <1>3. ASSUME NEW h \in Hosts
        PROVE  Sent(h) = 0 /\ Received(h) = 0 /\ Occurrences(h, host_store) = 0
    <2>1. Cardinality(Logging(h)) = 0 /\ Cardinality(Writing(h)) = 0
      BY <1>2, FS_EmptySet
    <2>2. Occurrences(h, host_store) = 0
      BY <1>1, OccurrencesEmpty
    <2> QED BY <1>1, <2>1, <2>2 DEF Sent, Received
  <1>4. HostPills = 0 /\ Len(host_store) = 0 /\ Cardinality(Poisoned) = 0
    BY <1>1, <1>2, FS_EmptySet DEF HostPills, Done
  <1> QED BY <1>3, <1>4, ContentsAssumption DEF HostFlow, PillFlow
-----------------------------------------------------------------------------
(* The theorems. *)

LEMMA InitLookup == Init => LookupInv
  BY InitThreads, InitFileQueue, InitExitCount, InitLineFlow, InitFlows DEF LookupInv

LEMMA NextLookup == LookupInv /\ [Next]_vars => LookupInv'
  <1> SUFFICES ASSUME LookupInv, [Next]_vars PROVE LookupInv'
    OBVIOUS
  <1>1. Threads'
    BY NextThreads DEF LookupInv
  <1> QED BY <1>1, NextFileQueue, NextExitCount, NextLineFlow, NextHostFlow, NextPillFlow
          DEF LookupInv

\* What file a requester holds, what ended it, where each line is and how many
\* pills are on their way is as LookupInv says at every moment of the program.
THEOREM LookupInvariant == Spec => []LookupInv
  BY InitLookup, NextLookup, PTL DEF Spec

\* Every variable of multi-lookup.c keeps its type, no store exceeds its
\* capacity, and no requester counts more files than there are.
THEOREM LookupTyping == Spec => []TypeOK
  <1>1. LookupInv => TypeOK
    <2> SUFFICES ASSUME LookupInv PROVE TypeOK
      OBVIOUS
    <2>1. Threads /\ Types /\ ExitCount
      BY DEF LookupInv, Threads
    <2>2. /\ main \in {"parse", "rejected", "spawn_req", "spawn_res", "returned",
                       "fault"} \cup ToSet(Stages)
          /\ i \in Nat \ {0} /\ result \in {0, ERROR} /\ live \in BOOLEAN
      BY <2>1, StageNames DEF Types, MainType
    <2>3. ASSUME NEW S, NEW s \in Seq(S)
          PROVE  ToSet(s) \subseteq S
      BY <2>3 DEF ToSet
    <2>4. /\ Len(file_store) <= Capacity
          /\ ToSet(file_store) \subseteq ToSet(data_files) \cup {POISON}
      BY <2>1, <2>3 DEF Types, FileStoreType
    <2>5. /\ Len(host_store) <= Capacity
          /\ ToSet(host_store) \subseteq Hosts \cup {POISON}
      BY <2>1, <2>3 DEF Types, HostStoreType
    <2>6. \A r \in Requesters : ToSet(rest[r]) \subseteq Hosts
      BY <2>1, <2>3 DEF Types, RequesterType
    <2>7. ASSUME NEW r \in Requesters
          PROVE  req_count[r] \in 0 .. Len(data_files)
      <3>1. /\ Countable(Begun) /\ Total(Begun) \in Nat /\ r \in DOMAIN Begun
            /\ req_count[r] \in Nat /\ Len(data_files) \in Nat
        BY <2>1, TakenTypes DEF Begun, Types, RequesterType, DataType
      <3>2. Begun[r] <= Total(Begun) /\ Total(Begun) <= Len(data_files)
        BY <2>1, <3>1, TotalAtLeast, BegunBound
      <3>3. req_count[r] <= Begun[r] /\ Begun[r] \in Nat
        BY <3>1 DEF Begun
      <3> QED BY <3>1, <3>2, <3>3
    <2>8. req_count \in [Requesters -> 0 .. Len(data_files)]
      BY <2>1, <2>7 DEF Types, RequesterType
    <2>9. /\ req \in [Requesters -> {"get_file", "read", "log"} \cup ThreadStates]
          /\ res \in [Resolvers -> {"get_host", "write"} \cup ThreadStates]
          /\ host \in [Resolvers -> Hosts \cup {POISON}]
      BY <2>1 DEF Types, RequesterType, ResolverType
    <2> QED BY <2>2, <2>4, <2>5, <2>6, <2>8, <2>9 DEF TypeOK
  <1> QED BY <1>1, LookupInvariant, PTL

\* No hostname is lost or duplicated between the requesters' array_put and the
\* results file, whatever the threads' speeds and however full the store is.
THEOREM HostsKept == Spec => []NoHostLost
  <1>1. LookupInv => NoHostLost
    <2> SUFFICES ASSUME LookupInv, NEW h \in Hosts \ {POISON}
                 PROVE  serviced[h]
                          + Cardinality({r \in Requesters : req[r] = "log" /\ Head(rest[r]) = h})
                        = Occurrences(h, host_store)
                          + Cardinality({s \in Resolvers : res[s] = "write" /\ host[s] = h})
                          + ResultLines(h)
      BY DEF NoHostLost
    <2>1. /\ Occurrences(h, host_store) \in Nat /\ ResultLines(h) \in Nat
          /\ Cardinality(Writing(h)) \in Nat
          /\ Sent(h) = Occurrences(h, host_store) + Received(h)
      BY SentType, ReceivedType, CrewsFinite DEF LookupInv, Threads, HostFlow
    <2>2. serviced[h] + Cardinality(Logging(h))
            = Occurrences(h, host_store) + Cardinality(Writing(h)) + ResultLines(h)
      BY <2>1 DEF Sent, Received
    <2> QED BY <2>2 DEF Logging, Writing
  <1> QED BY <1>1, LookupInvariant, PTL

\* main frees the stores and the mutexes after the last join, when every
\* thread has ended or was never created.
THEOREM JoinedFirst == Spec => []JoinedBeforeFree
  <1>1. LookupInv => JoinedBeforeFree
    BY DEF LookupInv, Threads, Stage, JoinedBeforeFree, Freed, AllJoinable, ReqJoined, ResJoined
  <1> QED BY <1>1, LookupInvariant, PTL

\* When main is done the requesters have taken every file of the command line.
LEMMA AllTaken ==
    ASSUME LookupInv, main = "cleanup", result = 0, LostRequesters < NumRequesters
    PROVE  Taken > Len(data_files) /\ Taken \in Nat /\ Len(data_files) \in Nat
  <1> DEFINE gone    == {r \in Requesters : req[r] = "absent"}
             useless == {k \in DOMAIN data_files : Unreadable(data_files[k])}
  <1>1. /\ Taken \in Nat /\ Len(data_files) \in Nat /\ NumRequesters \in Nat
        /\ DOMAIN data_files = 1 .. Len(data_files) /\ DOMAIN req = Requesters
    BY TakenTypes, CountsAssumption DEF LookupInv, Threads, Types, DataType, RequesterType
  <1>2. \A r \in Requesters : req[r] \in {"exited", "absent"}
    BY DEF LookupInv, Threads, Stage, ReqJoined, Joinable
  <1>3. gone \cap Exits = {} /\ gone \cup Exits = Requesters
    BY <1>2 DEF Exits
  <1>4. /\ IsFiniteSet(gone) /\ Cardinality(gone) \in Nat
        /\ IsFiniteSet(Exits) /\ Cardinality(Exits) \in Nat
    BY <1>3, RequestersFinite DEF Exits
  <1>5. Cardinality(gone \cup Exits)
          = Cardinality(gone) + Cardinality(Exits) - Cardinality(gone \cap Exits)
    BY <1>4, FS_Union
  <1>6. Absent(req) = Cardinality(gone)
    BY <1>1 DEF Absent
  <1>7. IsFiniteSet(useless) /\ Cardinality(useless) \in Nat
    <2>1. useless \subseteq 1 .. Len(data_files)
      BY <1>1
    <2>2. IsFiniteSet(1 .. Len(data_files))
      BY <1>1, FS_Interval
    <2> QED BY <2>1, <2>2, FS_Subset, FS_CardinalityType
  <1>8. Absent(req) + Cardinality(useless) < NumRequesters
    BY DEF LostRequesters
  <1>9. Cardinality(Exits) <= Cardinality(Deadly(Taken))
    <2>1. Exits \subseteq Doomed
      BY DEF Exits, Doomed
    <2>2. Cardinality(Exits) <= Cardinality(Doomed)
      BY <2>1, DoomedFinite, FS_Subset
    <2> QED BY <1>1, <1>4, <2>2, DoomedFinite, PlacesFinite DEF LookupInv, ExitCount
  <1>10. ASSUME Taken <= Len(data_files)
         PROVE  Cardinality(Deadly(Taken)) <= Cardinality(useless)
    <2>1. Deadly(Taken) \subseteq useless
      BY <1>1, <1>10 DEF Deadly
    <2> QED BY <1>7, <2>1, FS_Subset
  <1>11. Cardinality(Deadly(Taken)) \in Nat
    BY <1>1, PlacesFinite
  <1> HIDE DEF gone, useless
  <1>12. Cardinality(gone) + Cardinality(Exits) = NumRequesters
    BY <1>3, <1>4, <1>5, RequestersFinite, FS_EmptySet
  <1> QED BY <1>1, <1>4, <1>6, <1>7, <1>8, <1>9, <1>10, <1>11, <1>12

\* What is drawn from all of them is what they announce.
LEMMA AllDrawn ==
    ASSUME DataType, NEW n \in Nat, n > Len(data_files), NEW h \in Hosts
    PROVE  Drawn(h, n) = Announced(h)
  <1> DEFINE f == [k \in ValidFiles |-> Occurrences(h, Contents[data_files[k]])]
             g == [k \in 1 .. n |-> LinesOf(h, k)]
  <1>1. ValidFiles \subseteq 1 .. n
    BY DEF ValidFiles, DataType
  <1>2. \A k \in ValidFiles : g[k] = f[k]
    BY <1>1 DEF ValidFiles, LinesOf, FileAt, DataType
  <1>3. \A k \in (1 .. n) \ ValidFiles : g[k] = 0
    BY ContentsAssumption DEF ValidFiles, LinesOf, FileAt, DataType
  <1>4. DOMAIN f = ValidFiles /\ DOMAIN g = 1 .. n
    OBVIOUS
  <1> HIDE DEF f, g
  <1>5. Total(f) = Total(g)
    BY <1>1, <1>2, <1>3, <1>4, TotalSame
  <1> QED BY <1>5 DEF f, g, Drawn, Announced

\* With a resolver to spare for each "{END}", only pills are left in the store.
LEMMA OnlyPillsLeft ==
    ASSUME LookupInv, main = "cleanup", result = 0,
           Absent(res) + serviced[POISON] < NumResolvers
    PROVE  \A k \in 1 .. Len(host_store) : host_store[k] = POISON
  <1> DEFINE gone == {s \in Resolvers : res[s] = "absent"}
             pills == Len(host_store) - NumResolvers + 1 .. Len(host_store)
  <1>1. /\ host_store \in Seq(Hosts) /\ Len(host_store) \in Nat /\ NumResolvers \in Nat
        /\ serviced[POISON] \in Nat /\ DOMAIN res = Resolvers
    BY CountsAssumption, ContentsAssumption
       DEF LookupInv, Threads, Types, HostStoreType, LogType, ResolverType
  <1>2. /\ \A r \in Requesters : req[r] \in {"exited", "absent"}
        /\ \A s \in Resolvers : res[s] \in {"exited", "absent"}
    BY DEF LookupInv, Threads, Stage, ReqJoined, ResJoined, Joinable
  <1>3. gone \cap Poisoned = {} /\ gone \cup Poisoned = Resolvers
    BY <1>2 DEF Poisoned
  <1>4. /\ IsFiniteSet(gone) /\ Cardinality(gone) \in Nat
        /\ IsFiniteSet(Poisoned) /\ Cardinality(Poisoned) \in Nat
    BY <1>3, ResolversFinite, CrewsFinite
  <1>5. Cardinality(gone \cup Poisoned)
          = Cardinality(gone) + Cardinality(Poisoned) - Cardinality(gone \cap Poisoned)
    BY <1>4, FS_Union
  <1>6. Cardinality(gone) + Cardinality(Poisoned) = NumResolvers
    <2> HIDE DEF gone
    <2> QED BY <1>3, <1>4, <1>5, ResolversFinite, FS_EmptySet
  <1>7. Absent(res) = Cardinality(gone)
    BY <1>1 DEF Absent
  <1>8. HostPills = NumResolvers
    BY DEF HostPills, Done
  <1>9. Sent(POISON) = serviced[POISON]
    <2>1. Logging(POISON) = {}
      BY <1>2 DEF Logging
    <2> QED BY <1>1, <2>1, FS_EmptySet DEF Sent
  <1>10. /\ serviced[POISON] + NumResolvers
              = Occurrences(POISON, host_store) + Cardinality(Poisoned)
         /\ \A k \in 1 .. Len(host_store) :
               k > Len(host_store) - NumResolvers => host_store[k] = POISON
    BY <1>8, <1>9 DEF LookupInv, PillFlow, Alive
  <1>11. Occurrences(POISON, host_store) < NumResolvers
    <2>1. Occurrences(POISON, host_store) \in Nat
      BY <1>1, OccurrencesPlaces
    <2> HIDE DEF gone
    <2> QED BY <1>1, <1>4, <1>6, <1>7, <1>10, <2>1
  <1>12. Len(host_store) < NumResolvers
    <2> SUFFICES ASSUME Len(host_store) >= NumResolvers PROVE FALSE
      BY <1>1
    <2>1. pills \subseteq Places(POISON, host_store)
      BY <1>1, <1>10 DEF Places
    <2>2. /\ IsFiniteSet(Places(POISON, host_store))
          /\ Cardinality(Places(POISON, host_store)) = Occurrences(POISON, host_store)
          /\ Occurrences(POISON, host_store) \in Nat
      BY <1>1, OccurrencesPlaces
    <2>3. Cardinality(pills) = NumResolvers
      BY <1>1, FS_Interval
    <2>4. Cardinality(pills) <= Cardinality(Places(POISON, host_store))
      BY <2>1, <2>2, FS_Subset
    <2> HIDE DEF pills
    <2> QED BY <1>1, <1>11, <2>2, <2>3, <2>4
  <1> QED BY <1>1, <1>10, <1>12

\* If each pool keeps a thread, main is done only when every line of every
\* valid file is in both logs and every valid file is counted.
THEOREM EverythingServed == Spec => []AllServed
  <1>1. LookupInv => AllServed
    <2> SUFFICES ASSUME LookupInv, main = "cleanup", result = 0, PoolsSurvive, Storable
                 PROVE  /\ \A h \in Hosts : serviced[h] = Announced(h)
                        /\ \A h \in Hosts \ {POISON} : ResultLines(h) = serviced[h]
                        /\ Total(req_count) = Cardinality(ValidFiles)
      BY DEF AllServed
    <2>1. /\ Threads /\ Types /\ DataType /\ ExitCount
          /\ serviced \in [Hosts -> Nat] /\ host_store \in Seq(Hosts)
          /\ req_count \in [Requesters -> Nat]
      BY DEF LookupInv, Threads, Types, LogType, HostStoreType, RequesterType
    <2>2. /\ \A r \in Requesters : req[r] \in {"exited", "absent"}
          /\ \A s \in Resolvers : res[s] \in {"exited", "absent"}
      BY DEF LookupInv, Threads, Stage, ReqJoined, ResJoined, Joinable
    <2>3. Taken > Len(data_files) /\ Taken \in Nat /\ Len(data_files) \in Nat
      BY AllTaken DEF PoolsSurvive
    <2>4. ASSUME NEW h \in Hosts
          PROVE  serviced[h] = Announced(h)
      <3>1. \A r \in Requesters : rest[r] = << >>
        BY <2>2 DEF LookupInv, LineFlow, Busy
      <3>2. Unread(h, rest) = 0
        BY <3>1, OccurrencesEmpty, TotalZero DEF Unread
      <3>3. Drawn(h, Taken) = Announced(h)
        BY <2>1, <2>3, AllDrawn
      <3>4. serviced[h] + Unread(h, rest) = Drawn(h, Taken) /\ serviced[h] \in Nat
        BY <2>1 DEF LookupInv, LineFlow
      <3> QED BY <3>2, <3>3, <3>4
    <2>5. ASSUME NEW h \in Hosts \ {POISON}
          PROVE  ResultLines(h) = serviced[h]
      <3>1. Absent(res) + serviced[POISON] < NumResolvers
        BY <2>4, ContentsAssumption DEF PoolsSurvive, LostResolvers
      <3>2. Occurrences(h, host_store) = 0
        <4>1. \A k \in 1 .. Len(host_store) : host_store[k] # h
          BY <3>1, OnlyPillsLeft
        <4> QED BY <2>1, <4>1, OccurrencesNone
      <3>3. Logging(h) = {} /\ Writing(h) = {}
        BY <2>2 DEF Logging, Writing
      <3>4. Sent(h) = serviced[h] /\ Received(h) = ResultLines(h)
        <4>1. ResultLines(h) \in Nat /\ serviced[h] \in Nat
          BY <2>1, ReceivedType
        <4> QED BY <3>3, <4>1, FS_EmptySet DEF Sent, Received
      <3>5. Sent(h) = Occurrences(h, host_store) + Received(h) /\ Received(h) \in Nat
        BY <2>1, ReceivedType DEF LookupInv, HostFlow
      <3> QED BY <3>2, <3>4, <3>5
    <2>6. Total(req_count) = Cardinality(ValidFiles)
      <3>1. \A r \in Requesters : Begun[r] = req_count[r]
        BY <2>1, <2>2 DEF Begun, Busy
      <3>2. Begun = req_count
        BY <2>1, <3>1 DEF Begun
      <3>3. Total(req_count) = Taken - Cardinality(Exits)
        BY <2>1, <3>2, TakenTypes DEF Taken, Types
      <3>4. Cardinality(Exits) = Cardinality(NoFile(Taken))
        BY DEF LookupInv, LineFlow
      <3>5. {k \in 1 .. Taken : FileAt(k) \in Files} = ValidFiles
        BY <2>1, <2>3, ContentsAssumption DEF ValidFiles, FileAt, DataType
      <3>6. Cardinality({k \in 1 .. Taken : FileAt(k) \in Files}) = Taken - Cardinality(NoFile(Taken))
        BY <2>1, BegunBound
      <3> QED BY <3>3, <3>4, <3>5, <3>6
    <2> QED BY <2>4, <2>5, <2>6
  <1> QED BY <1>1, LookupInvariant, PTL
=============================================================================
