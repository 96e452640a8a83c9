------------------------- MODULE DeviceClientProofs ------------------------
(***************************************************************************)
(* Theorems about DeviceClient, for any number of clients, any sizes of    *)
(* the buffers, and any numbers that users type.                           *)
(***************************************************************************)
EXTENDS DeviceClient, RingProofs, FiniteSetTheorems

Stages == {"start", "opening", "prompt", "reading", "writing", "closing", "gone"}
CallRecord == [op    : {"none", "open", "opening", "release", "releasing", "read", "write"},
               bytes : 0 .. BUFFER_SIZE,
               done  : 0 .. BUFFER_SIZE + Cardinality(Files)]
LoopRecord == [requested : Numbers \cup 0 .. INPUT_BUF_SIZE,
               total : Nat, from : 0 .. BUFFER_SIZE]

\* Those who may have been counted by the driver.
Entered == {c \in Files : at[c] \notin {"start", "opening"}}
Gone    == {c \in Files : at[c] = "gone"}

CallAtStage(c) ==
    /\ call[c].op = "read"  => at[c] = "reading"
    /\ call[c].op = "write" => at[c] = "writing"
    /\ call[c].op \in {"open", "opening"} => at[c] = "opening"
    /\ call[c].op \in {"release", "releasing"} => at[c] = "closing"

\* What a call has read of the counts, which others change meanwhile.
CountRead(c) ==
    /\ call[c].op = "opening"   => call[c].done <= Cardinality(Entered)
    /\ call[c].op = "releasing" => call[c].done <= Cardinality(Gone)

\* A loop has moved its file as far as it has counted, and the call in progress
\* fits both into what is left of the file and into what is left of the request.
LoopAtPosition(c) ==
    /\ at[c] \in {"reading", "writing"} => f_pos[c] = loop[c].from + loop[c].total
    /\ at[c] = "writing" => /\ loop[c].total <= loop[c].requested
                            /\ loop[c].requested <= INPUT_BUF_SIZE
    /\ call[c].op \in {"read", "write"} =>
          /\ call[c].done <= call[c].bytes
          /\ f_pos[c] + call[c].bytes <= BUFFER_SIZE
          /\ loop[c].total + call[c].bytes <= loop[c].requested

\* A client holds the module; what its write has copied stays written.
HoldsBuffer(c) ==
    /\ at[c] \notin {"start", "gone"} => driver = "in"
    /\ call[c].op = "write" => \A n \in Bytes : n < call[c].done => device_buffer[n] # Junk

ClientInv(c) == CallAtStage(c) /\ CountRead(c) /\ LoopAtPosition(c) /\ HoldsBuffer(c)

Counted == open_count <= Cardinality(Entered) /\ close_count <= Cardinality(Gone)

\* The inductive invariant.
DeviceInv == /\ ClientTypeOK
             /\ \A c \in Files : ClientInv(c)
             /\ Counted
             /\ driver = "out" <=> device_buffer = NULL
             /\ NoHoles
-----------------------------------------------------------------------------
(* Types and counts *)

LEMMA Constants ==
    /\ BUFFER_SIZE \in Nat \ {0} /\ FAULTS \in Nat /\ IsFiniteSet(Files)
    /\ Cardinality(Files) \in Nat
    /\ READ_BUF_SIZE \in Nat /\ INPUT_BUF_SIZE \in Nat \ {0, 1} /\ Numbers \subseteq Int
    /\ INPUT_BUF_SIZE <= BUFFER_SIZE /\ BUFFER_SIZE <= READ_BUF_SIZE
    /\ LLONG_MAX \in Nat /\ INT_MAX \in Nat /\ BUFFER_SIZE <= INT_MAX
  BY DeviceAssumption, ClientAssumption, FS_CardinalityType

LEMMA Types ==
    ASSUME ClientTypeOK, NEW c \in Files
    PROVE  /\ at \in [Files -> Stages] /\ at[c] \in Stages
           /\ call \in [Files -> CallRecord] /\ call[c] \in CallRecord
           /\ loop \in [Files -> LoopRecord] /\ loop[c] \in LoopRecord
           /\ f_pos \in [Files -> 0 .. BUFFER_SIZE] /\ f_pos[c] \in 0 .. BUFFER_SIZE
  BY DEF ClientTypeOK, Stages, CallRecord, LoopRecord

LEMMA Fields ==
    ASSUME ClientTypeOK, NEW c \in Files
    PROVE  /\ call[c].bytes \in 0 .. BUFFER_SIZE /\ call[c].bytes \in Nat
           /\ call[c].done \in 0 .. BUFFER_SIZE + Cardinality(Files) /\ call[c].done \in Nat
           /\ loop[c].requested \in Int /\ loop[c].requested \in Numbers \cup 0 .. INPUT_BUF_SIZE
           /\ loop[c].total \in Nat
           /\ loop[c].from \in 0 .. BUFFER_SIZE /\ loop[c].from \in Nat
           /\ f_pos[c] \in 0 .. BUFFER_SIZE /\ f_pos[c] \in Nat
  <1>1. /\ call[c].bytes \in 0 .. BUFFER_SIZE
        /\ call[c].done \in 0 .. BUFFER_SIZE + Cardinality(Files)
    BY Types DEF CallRecord
  <1>2. /\ loop[c].requested \in Numbers \cup 0 .. INPUT_BUF_SIZE
        /\ loop[c].total \in Nat /\ loop[c].from \in 0 .. BUFFER_SIZE
    BY Types DEF LoopRecord
  <1>3. loop[c].requested \in Int
    <2>1. CASE loop[c].requested \in Numbers
      BY <2>1, Constants
    <2>2. CASE loop[c].requested \in 0 .. INPUT_BUF_SIZE
      BY <2>2, Constants
    <2> QED BY <1>2, <2>1, <2>2
  <1>4. f_pos[c] \in 0 .. BUFFER_SIZE
    BY Types
  <1>5. call[c].bytes \in Nat /\ call[c].done \in Nat
    BY <1>1, Constants
  <1> QED BY <1>1, <1>2, <1>3, <1>4, <1>5, Constants

LEMMA CountsFinite ==
    /\ IsFiniteSet(Entered) /\ Cardinality(Entered) \in 0 .. Cardinality(Files)
    /\ IsFiniteSet(Gone) /\ Cardinality(Gone) \in 0 .. Cardinality(Files)
    /\ IsFiniteSet(Entered') /\ Cardinality(Entered') \in 0 .. Cardinality(Files)
    /\ IsFiniteSet(Gone') /\ Cardinality(Gone') \in 0 .. Cardinality(Files)
  <1>1. /\ Entered \subseteq Files /\ Gone \subseteq Files
        /\ Entered' \subseteq Files /\ Gone' \subseteq Files
    BY DEF Entered, Gone
  <1> QED BY <1>1, Constants, FS_Subset, FS_CardinalityType

LEMMA Grows ==
    ASSUME NEW S, NEW T, IsFiniteSet(T), S \subseteq T
    PROVE  Cardinality(S) <= Cardinality(T)
  BY FS_Subset

LEMMA GrowsByOne ==
    ASSUME NEW S, NEW T, IsFiniteSet(T), NEW c \in T, S \subseteq T, c \notin S
    PROVE  Cardinality(S) + 1 <= Cardinality(T)
  <1>1. IsFiniteSet(S) /\ Cardinality(S) \in Nat
    BY FS_Subset, FS_CardinalityType
  <1>2. Cardinality(S \cup {c}) = Cardinality(S) + 1
    BY <1>1, FS_AddElement
  <1>3. S \cup {c} \subseteq T
    OBVIOUS
  <1>4. Cardinality(S \cup {c}) <= Cardinality(T)
    BY <1>3, FS_Subset
  <1> QED BY <1>2, <1>4
-----------------------------------------------------------------------------
(* What the step of one client leaves to the others *)

Elsewhere(c) ==
    \A u \in Files : u # c => /\ at'[u] = at[u] /\ loop'[u] = loop[u]
                              /\ call'[u] = call[u] /\ f_pos'[u] = f_pos[u]

StaysWritten == \A n \in Bytes : device_buffer[n] # Junk => device_buffer'[n] # Junk

LEMMA OthersKept ==
    ASSUME DeviceInv, NEW c \in Files, Elsewhere(c),
           driver' = driver, StaysWritten, Entered \subseteq Entered', Gone \subseteq Gone',
           ClientTypeOK', ClientInv(c)'
    PROVE  \A u \in Files : ClientInv(u)'
  <1> SUFFICES ASSUME NEW u \in Files, u # c PROVE ClientInv(u)'
    OBVIOUS
  <1>1. /\ at'[u] = at[u] /\ loop'[u] = loop[u] /\ call'[u] = call[u] /\ f_pos'[u] = f_pos[u]
        /\ ClientInv(u)
    BY DEF Elsewhere, DeviceInv
  <1>2. CallAtStage(u)' /\ LoopAtPosition(u)'
    BY <1>1 DEF ClientInv, CallAtStage, LoopAtPosition
  <1>3. CountRead(u)'
    <2>1. /\ Cardinality(Entered) <= Cardinality(Entered')
          /\ Cardinality(Gone) <= Cardinality(Gone')
      BY CountsFinite, Grows
    <2>2. call[u].done \in Nat
      BY Fields DEF DeviceInv
    <2> QED BY <1>1, <2>1, <2>2, CountsFinite DEF ClientInv, CountRead
  <1>4. HoldsBuffer(u)'
    BY <1>1 DEF ClientInv, HoldsBuffer, StaysWritten
  <1> QED BY <1>2, <1>3, <1>4 DEF ClientInv

\* The counts are not changed, and nobody comes back.
LEMMA CountsKept ==
    ASSUME DeviceInv, UNCHANGED countVars, Entered \subseteq Entered', Gone \subseteq Gone'
    PROVE  Counted'
  <1>1. /\ Cardinality(Entered) <= Cardinality(Entered')
        /\ Cardinality(Gone) <= Cardinality(Gone')
    BY CountsFinite, Grows
  <1>2. open_count \in Nat /\ close_count \in Nat
    BY Constants DEF DeviceInv, ClientTypeOK
  <1> QED BY <1>1, <1>2, CountsFinite DEF DeviceInv, Counted, countVars

\* A client that stays where it is, or goes on from where it is counted.
LEMMA NobodyReturns ==
    ASSUME DeviceInv, NEW c \in Files, Elsewhere(c),
           at[c] \notin {"start", "opening"} => at'[c] \notin {"start", "opening"},
           at[c] = "gone" => at'[c] = "gone"
    PROVE  Entered \subseteq Entered' /\ Gone \subseteq Gone'
  BY DEF Elsewhere, Entered, Gone

LEMMA BufferKept ==
    ASSUME DeviceInv, driver' = driver, device_buffer' = device_buffer
    PROVE  /\ StaysWritten
           /\ (driver = "out" <=> device_buffer = NULL)'
           /\ NoHoles'
  BY DEF DeviceInv, StaysWritten, NoHoles
-----------------------------------------------------------------------------
(* What an integer keeps of a greater one *)

LEMMA WrappedType ==
    ASSUME NEW n \in Int, NEW max \in Nat
    PROVE  Wrapped(n, max) \in Int
  <1>1. 2 * (max + 1) \in Nat \ {0}
    OBVIOUS
  <1>2. (n + max + 1) % (2 * (max + 1)) \in Int
    BY <1>1
  <1> QED BY <1>2 DEF Wrapped

\* Never more than there was to keep, and all of what fits.
LEMMA WrappedBelow ==
    ASSUME NEW n \in Nat, NEW max \in Nat
    PROVE  /\ Wrapped(n, max) <= n
           /\ n <= max => Wrapped(n, max) = n
  <1> DEFINE size == 2 * (max + 1)
             sum  == n + max + 1
             rest == sum % size
             past == size * (sum \div size)
  <1>1. size \in Nat \ {0} /\ sum \in Nat /\ size = max + 1 + max + 1
    OBVIOUS
  <1>2. Wrapped(n, max) = rest - (max + 1)
    BY DEF Wrapped
  <1> HIDE DEF size
  <1>3. past \in Nat /\ sum = past + rest /\ rest \in 0 .. size - 1
    <2>1. sum \div size \in Nat /\ sum = size * (sum \div size) + (sum % size)
      BY <1>1, ModDefinition
    <2>2. size * (sum \div size) \in Nat
      BY <1>1, <2>1
    <2> QED BY <1>1, <2>1, <2>2, ModRange
  <1>4. n <= max => rest = sum
    <2> SUFFICES ASSUME n <= max PROVE rest = sum
      OBVIOUS
    <2>1. sum \in 0 .. size - 1
      BY <1>1
    <2> QED BY <1>1, <2>1, ModSmall
  <1> HIDE DEF past, rest
  <1> QED BY <1>1, <1>2, <1>3, <1>4

\* No call is for more than is left, and one of a write is for all of it: a line is
\* no longer than an int can say.
LEMMA AskedLeft ==
    ASSUME DeviceInv, NEW c \in Files, Loops(c), Unfinished(c)
    PROVE  /\ Asked(c) \in Int /\ Asked(c) <= loop[c].requested - loop[c].total
           /\ at[c] = "writing" => Asked(c) = loop[c].requested - loop[c].total
  <1> DEFINE left == loop[c].requested - loop[c].total
  <1>1. loop[c].total \in Nat /\ loop[c].requested \in Int /\ ClientInv(c)
    BY Fields DEF DeviceInv
  <1>2. left \in Nat /\ INT_MAX \in Nat
    BY <1>1, Constants DEF Unfinished
  <1>3. at[c] = "writing" => left <= INT_MAX
    BY <1>1, Constants DEF ClientInv, LoopAtPosition
  <1>4. Asked(c) = Wrapped(left, INT_MAX)
    BY DEF Asked
  <1> HIDE DEF left
  <1>5. /\ Asked(c) \in Int /\ Asked(c) <= left
        /\ at[c] = "writing" => Asked(c) = left
    BY <1>2, <1>3, <1>4, WrappedType, WrappedBelow
  <1> QED BY <1>5 DEF left
-----------------------------------------------------------------------------
(* open and exit *)

LEMMA OpenStep ==
    ASSUME DeviceInv, NEW c \in Files, Open(c)
    PROVE  DeviceInv'
  <1>1. ClientTypeOK /\ ClientInv(c)
    BY DEF DeviceInv
  <1>2. /\ at[c] = "start" /\ at' = [at EXCEPT ![c] = "opening"]
        /\ call' = [call EXCEPT ![c] = [op |-> "open", bytes |-> 0, done |-> 0]]
        /\ loop' = loop /\ f_pos' = f_pos /\ driver = "in" /\ driver' = driver
        /\ device_buffer' = device_buffer /\ faults' = faults /\ registered' = registered
        /\ UNCHANGED countVars
    BY DEF Open, Goes, Begin, moduleVars
  <1>3. [op |-> "open", bytes |-> 0, done |-> 0] \in CallRecord
    BY Constants DEF CallRecord
  <1>4. /\ at' \in [Files -> Stages] /\ at'[c] = "opening"
        /\ call' \in [Files -> CallRecord] /\ call'[c] = [op |-> "open", bytes |-> 0, done |-> 0]
        /\ Elsewhere(c)
    BY <1>1, <1>2, <1>3, Types DEF Stages, Elsewhere
  <1>5. ClientTypeOK'
    BY <1>1, <1>2, <1>4 DEF ClientTypeOK, countVars, Stages, CallRecord
  <1>6. ClientInv(c)'
    BY <1>2, <1>4 DEF ClientInv, CallAtStage, CountRead, LoopAtPosition, HoldsBuffer
  <1>7. Entered \subseteq Entered' /\ Gone \subseteq Gone'
    BY <1>2, <1>4, NobodyReturns
  <1>8. Counted'
    BY <1>2, <1>7, CountsKept
  <1> QED BY <1>2, <1>4, <1>5, <1>6, <1>7, <1>8, BufferKept, OthersKept DEF DeviceInv

LEMMA OpenFailsStep ==
    ASSUME DeviceInv, NEW c \in Files, OpenFails(c)
    PROVE  DeviceInv'
  <1>1. ClientTypeOK /\ ClientInv(c)
    BY DEF DeviceInv
  <1>2. /\ at[c] = "start" /\ at' = [at EXCEPT ![c] = "gone"]
        /\ call' = call /\ loop' = loop /\ f_pos' = f_pos /\ driver' = driver
        /\ device_buffer' = device_buffer /\ faults' = faults /\ registered' = registered
        /\ UNCHANGED countVars
    BY DEF OpenFails, Goes, deviceVars, moduleVars
  <1>3. /\ at' \in [Files -> Stages] /\ at'[c] = "gone" /\ Elsewhere(c)
    BY <1>1, <1>2, Types DEF Stages, Elsewhere
  <1>4. ClientTypeOK'
    BY <1>1, <1>2, <1>3 DEF ClientTypeOK, countVars, Stages
  <1>5. call[c].op \notin {"read", "write", "open", "opening", "release", "releasing"}
    BY <1>1, <1>2 DEF ClientInv, CallAtStage
  <1>6. ClientInv(c)'
    BY <1>2, <1>3, <1>5 DEF ClientInv, CallAtStage, CountRead, LoopAtPosition, HoldsBuffer
  <1>7. Entered \subseteq Entered' /\ Gone \subseteq Gone'
    BY <1>2, <1>3, NobodyReturns
  <1>8. Counted'
    BY <1>2, <1>7, CountsKept
  <1> QED BY <1>2, <1>3, <1>4, <1>6, <1>7, <1>8, BufferKept, OthersKept DEF DeviceInv

\* Either of the increments ends here: it adds one to what was read before.
LEMMA OpenedStep ==
    ASSUME DeviceInv, NEW c \in Files, Opened(c)
    PROVE  DeviceInv'
  <1>1. ClientTypeOK /\ ClientInv(c)
    BY DEF DeviceInv
  <1>2. /\ at[c] = "opening" /\ at' = [at EXCEPT ![c] = "prompt"] /\ call[c].op = "opening"
        /\ call' = [call EXCEPT ![c] = Idle] /\ open_count' = call[c].done + 1
        /\ close_count' = close_count /\ driver' = driver
        /\ device_buffer' = device_buffer /\ faults' = faults /\ registered' = registered
        /\ loop' = loop /\ f_pos' = f_pos
    BY DEF Opened, Goes, StoreOpen, Returned, moduleVars
  <1>3. Idle \in CallRecord
    BY Constants DEF CallRecord, Idle
  <1>4. /\ at' \in [Files -> Stages] /\ at'[c] = "prompt"
        /\ call' \in [Files -> CallRecord] /\ call'[c].op = "none"
        /\ Elsewhere(c)
    BY <1>1, <1>2, <1>3, Types DEF Stages, Elsewhere, Idle
  <1>5. Entered \subseteq Entered' /\ c \notin Entered /\ c \in Entered' /\ Gone \subseteq Gone'
    BY <1>2, <1>4 DEF Elsewhere, Entered, Gone
  <1>6. Cardinality(Entered) + 1 <= Cardinality(Entered')
    BY <1>5, CountsFinite, GrowsByOne
  <1>7. open_count' <= Cardinality(Entered') /\ open_count' \in Nat
    BY <1>1, <1>2, <1>6, Fields, CountsFinite DEF ClientInv, CountRead
  <1>8. open_count' \in 0 .. Cardinality(Files)
    BY <1>7, CountsFinite, Constants
  <1>9. Counted'
    <2>1. Cardinality(Gone) <= Cardinality(Gone')
      BY <1>5, CountsFinite, Grows
    <2>2. close_count \in Nat
      BY <1>1, Constants DEF ClientTypeOK
    <2> QED BY <1>2, <1>7, <2>1, <2>2, CountsFinite DEF DeviceInv, Counted
  <1>10. ClientTypeOK'
    BY <1>1, <1>2, <1>4, <1>8 DEF ClientTypeOK, Stages, CallRecord
  <1>11. ClientInv(c)'
    BY <1>1, <1>2, <1>4 DEF ClientInv, CallAtStage, CountRead, LoopAtPosition, HoldsBuffer
  <1> QED BY <1>2, <1>4, <1>5, <1>9, <1>10, <1>11, BufferKept, OthersKept DEF DeviceInv

LEMMA ExitStep ==
    ASSUME DeviceInv, NEW c \in Files, Exit(c)
    PROVE  DeviceInv'
  <1>1. ClientTypeOK /\ ClientInv(c)
    BY DEF DeviceInv
  <1>2. /\ at[c] = "prompt" /\ at' = [at EXCEPT ![c] = "closing"]
        /\ call' = [call EXCEPT ![c] = [op |-> "release", bytes |-> 0, done |-> 0]]
        /\ loop' = loop /\ f_pos' = f_pos /\ driver' = driver
        /\ device_buffer' = device_buffer /\ faults' = faults /\ registered' = registered
        /\ UNCHANGED countVars
    BY DEF Exit, Goes, Begin, moduleVars
  <1>3. [op |-> "release", bytes |-> 0, done |-> 0] \in CallRecord
    BY Constants DEF CallRecord
  <1>4. /\ at' \in [Files -> Stages] /\ at'[c] = "closing"
        /\ call' \in [Files -> CallRecord] /\ call'[c].op = "release"
        /\ Elsewhere(c)
    BY <1>1, <1>2, <1>3, Types DEF Stages, Elsewhere
  <1>5. ClientTypeOK'
    BY <1>1, <1>2, <1>4 DEF ClientTypeOK, countVars, Stages, CallRecord
  <1>6. ClientInv(c)'
    <2>1. driver = "in"
      BY <1>1, <1>2 DEF ClientInv, HoldsBuffer
    <2> QED BY <1>2, <1>4, <2>1
            DEF ClientInv, CallAtStage, CountRead, LoopAtPosition, HoldsBuffer
  <1>7. Entered \subseteq Entered' /\ Gone \subseteq Gone'
    BY <1>2, <1>4, NobodyReturns
  <1>8. Counted'
    BY <1>2, <1>7, CountsKept
  <1> QED BY <1>2, <1>4, <1>5, <1>6, <1>7, <1>8, BufferKept, OthersKept DEF DeviceInv

LEMMA ClosedStep ==
    ASSUME DeviceInv, NEW c \in Files, Closed(c)
    PROVE  DeviceInv'
  <1>1. ClientTypeOK /\ ClientInv(c)
    BY DEF DeviceInv
  <1>2. /\ at[c] = "closing" /\ at' = [at EXCEPT ![c] = "gone"] /\ call[c].op = "releasing"
        /\ call' = [call EXCEPT ![c] = Idle] /\ close_count' = call[c].done + 1
        /\ open_count' = open_count /\ driver' = driver
        /\ device_buffer' = device_buffer /\ faults' = faults /\ registered' = registered
        /\ loop' = loop /\ f_pos' = f_pos
    BY DEF Closed, Goes, StoreClose, Returned, moduleVars
  <1>3. Idle \in CallRecord
    BY Constants DEF CallRecord, Idle
  <1>4. /\ at' \in [Files -> Stages] /\ at'[c] = "gone"
        /\ call' \in [Files -> CallRecord] /\ call'[c].op = "none"
        /\ Elsewhere(c)
    BY <1>1, <1>2, <1>3, Types DEF Stages, Elsewhere, Idle
  <1>5. Gone \subseteq Gone' /\ c \notin Gone /\ c \in Gone' /\ Entered \subseteq Entered'
    BY <1>2, <1>4 DEF Elsewhere, Entered, Gone
  <1>6. Cardinality(Gone) + 1 <= Cardinality(Gone')
    BY <1>5, CountsFinite, GrowsByOne
  <1>7. close_count' <= Cardinality(Gone') /\ close_count' \in Nat
    BY <1>1, <1>2, <1>6, Fields, CountsFinite DEF ClientInv, CountRead
  <1>8. close_count' \in 0 .. Cardinality(Files)
    BY <1>7, CountsFinite, Constants
  <1>9. Counted'
    <2>1. Cardinality(Entered) <= Cardinality(Entered')
      BY <1>5, CountsFinite, Grows
    <2>2. open_count \in Nat
      BY <1>1, Constants DEF ClientTypeOK
    <2> QED BY <1>2, <1>7, <2>1, <2>2, CountsFinite DEF DeviceInv, Counted
  <1>10. ClientTypeOK'
    BY <1>1, <1>2, <1>4, <1>8 DEF ClientTypeOK, Stages, CallRecord
  <1>11. ClientInv(c)'
    BY <1>2, <1>4 DEF ClientInv, CallAtStage, CountRead, LoopAtPosition, HoldsBuffer
  <1> QED BY <1>2, <1>4, <1>5, <1>9, <1>10, <1>11, BufferKept, OthersKept DEF DeviceInv

LEMMA FetchStep ==
    ASSUME DeviceInv, NEW c \in Files, Fetch(c), UNCHANGED clientVars
    PROVE  DeviceInv'
  <1>1. ClientTypeOK /\ ClientInv(c)
    BY DEF DeviceInv
  <1> DEFINE next == IF call[c].op = "open" THEN "opening" ELSE "releasing"
             read == IF call[c].op = "open" THEN open_count ELSE close_count
  <1>2. /\ call[c].op \in {"open", "release"}
        /\ call' = [call EXCEPT ![c] = [op |-> next, bytes |-> 0, done |-> read]]
        /\ at' = at /\ loop' = loop /\ f_pos' = f_pos /\ driver' = driver
        /\ device_buffer' = device_buffer /\ faults' = faults /\ registered' = registered
        /\ UNCHANGED countVars
    BY DEF Fetch, clientVars, moduleVars
  <1>3. /\ next \in {"opening", "releasing"}
        /\ next = "opening"   => at[c] = "opening" /\ read <= Cardinality(Entered)
        /\ next = "releasing" => at[c] = "closing" /\ read <= Cardinality(Gone)
    <2>1. open_count <= Cardinality(Entered) /\ close_count <= Cardinality(Gone)
      BY DEF DeviceInv, Counted
    <2>2. CASE call[c].op = "open"
      BY <1>1, <2>1, <2>2 DEF ClientInv, CallAtStage
    <2>3. CASE call[c].op = "release"
      BY <1>1, <2>1, <2>3 DEF ClientInv, CallAtStage
    <2> QED BY <1>2, <2>2, <2>3
  <1>4. read \in 0 .. BUFFER_SIZE + Cardinality(Files)
    <2>1. open_count \in 0 .. Cardinality(Files) /\ close_count \in 0 .. Cardinality(Files)
      BY <1>1 DEF ClientTypeOK
    <2> QED BY <2>1, Constants
  <1> HIDE DEF next, read
  <1>5. [op |-> next, bytes |-> 0, done |-> read] \in CallRecord
    BY <1>3, <1>4, Constants DEF CallRecord
  <1>6. /\ call' \in [Files -> CallRecord] /\ call'[c] = [op |-> next, bytes |-> 0, done |-> read]
        /\ Elsewhere(c)
    BY <1>1, <1>2, <1>5, Types DEF Elsewhere
  <1>7. ClientTypeOK'
    BY <1>1, <1>2, <1>6 DEF ClientTypeOK, countVars, CallRecord
  <1>8. Entered' = Entered /\ Gone' = Gone
    BY <1>2 DEF Entered, Gone
  <1>9. call'[c].op = next /\ call'[c].done = read
    BY <1>6
  <1>10. ClientInv(c)'
    <2>1. CallAtStage(c)' /\ CountRead(c)'
      BY <1>2, <1>3, <1>8, <1>9 DEF CallAtStage, CountRead
    <2>2. LoopAtPosition(c)' /\ HoldsBuffer(c)'
      BY <1>1, <1>2, <1>3, <1>9 DEF ClientInv, LoopAtPosition, HoldsBuffer
    <2> QED BY <2>1, <2>2 DEF ClientInv
  <1>11. Counted'
    BY <1>2, <1>8, CountsKept
  <1> QED BY <1>2, <1>6, <1>7, <1>8, <1>10, <1>11, BufferKept, OthersKept DEF DeviceInv
-----------------------------------------------------------------------------
(* The commands *)

LEMMA StartsStep ==
    ASSUME DeviceInv, NEW c \in Files, NEW what \in {"reading", "writing"},
           NEW requested \in Numbers \cup 0 .. INPUT_BUF_SIZE,
           what = "writing" => requested \in 0 .. INPUT_BUF_SIZE,
           Starts(c, what, requested)
    PROVE  DeviceInv'
  <1>1. ClientTypeOK /\ ClientInv(c)
    BY DEF DeviceInv
  <1> DEFINE begun == [requested |-> requested, total |-> 0, from |-> f_pos[c]]
  <1>2. /\ at[c] = "prompt" /\ at' = [at EXCEPT ![c] = what]
        /\ loop' = [loop EXCEPT ![c] = begun]
        /\ call' = call /\ f_pos' = f_pos /\ driver' = driver
        /\ device_buffer' = device_buffer /\ faults' = faults /\ registered' = registered
        /\ UNCHANGED countVars
    BY DEF Starts, Goes, deviceVars, moduleVars
  <1>3. begun \in LoopRecord
    BY <1>1, Types DEF LoopRecord
  <1>4. /\ at' \in [Files -> Stages] /\ at'[c] = what
        /\ loop' \in [Files -> LoopRecord] /\ loop'[c] = begun
        /\ Elsewhere(c)
    BY <1>1, <1>2, <1>3, Types DEF Stages, Elsewhere
  <1>5. ClientTypeOK'
    BY <1>1, <1>2, <1>4 DEF ClientTypeOK, countVars, Stages, LoopRecord
  <1>6. call[c].op \notin {"read", "write", "open", "opening", "release", "releasing"}
    BY <1>1, <1>2 DEF ClientInv, CallAtStage
  <1>7. /\ f_pos[c] = begun.from + begun.total
        /\ what = "writing" => begun.total <= begun.requested /\ begun.requested <= INPUT_BUF_SIZE
    <2>1. f_pos[c] \in Nat
      BY <1>1, Fields
    <2> QED BY <2>1, Constants
  <1> HIDE DEF begun
  <1>8. ClientInv(c)'
    <2>1. driver = "in"
      BY <1>1, <1>2 DEF ClientInv, HoldsBuffer
    <2> QED BY <1>2, <1>4, <1>6, <1>7, <2>1
            DEF ClientInv, CallAtStage, CountRead, LoopAtPosition, HoldsBuffer
  <1>9. Entered \subseteq Entered' /\ Gone \subseteq Gone'
    BY <1>2, <1>4, NobodyReturns
  <1>10. Counted'
    BY <1>2, <1>9, CountsKept
  <1> QED BY <1>2, <1>4, <1>5, <1>8, <1>9, <1>10, BufferKept, OthersKept DEF DeviceInv

LEMMA SeekStep ==
    ASSUME DeviceInv, NEW c \in Files, SeekCommand(c)
    PROVE  DeviceInv'
  <1>1. ClientTypeOK /\ ClientInv(c)
    BY DEF DeviceInv
  <1>2. ASSUME NEW offset \in Numbers, NEW whence \in 0 .. 3, at[c] = "prompt",
               SeekReturns(c, offset, whence), UNCHANGED clientVars
        PROVE  DeviceInv'
    <2> DEFINE sum == Wrapped(offset + Origin(c, whence), LLONG_MAX)
               pos == Clamped(sum)
    <2>1. /\ f_pos' = [f_pos EXCEPT ![c] = pos] /\ at' = at /\ loop' = loop /\ call' = call
          /\ driver' = driver /\ registered' = registered
          /\ device_buffer' = device_buffer /\ faults' = faults /\ UNCHANGED countVars
          /\ whence \in 0 .. 2
      BY <1>2 DEF SeekReturns, clientVars, moduleVars
    <2>2. pos \in 0 .. BUFFER_SIZE
      <3>1. f_pos[c] \in Int /\ BUFFER_SIZE \in Nat /\ offset \in Int
        BY <1>1, Fields, Constants
      <3>2. Origin(c, whence) \in Int
        BY <2>1, <3>1 DEF Origin
      <3>3. sum \in Int
        BY <3>1, <3>2, Constants, WrappedType
      <3> HIDE DEF sum
      <3> QED BY <3>1, <3>3 DEF Clamped
    <2> HIDE DEF pos
    <2>3. /\ f_pos' \in [Files -> 0 .. BUFFER_SIZE] /\ Elsewhere(c)
      BY <1>1, <2>1, <2>2, Types DEF Elsewhere
    <2>4. ClientTypeOK'
      BY <1>1, <2>1, <2>3 DEF ClientTypeOK, countVars
    <2>5. Entered' = Entered /\ Gone' = Gone
      BY <2>1 DEF Entered, Gone
    <2>6. ClientInv(c)'
      BY <1>1, <1>2, <2>1, <2>5
         DEF ClientInv, CallAtStage, CountRead, LoopAtPosition, HoldsBuffer
    <2>7. Counted'
      BY <2>1, <2>5, CountsKept
    <2> QED BY <2>1, <2>3, <2>4, <2>5, <2>6, <2>7, BufferKept, OthersKept DEF DeviceInv
  <1> QED BY <1>2, ExitStep DEF SeekCommand, SeekFails

LEMMA CommandStep ==
    ASSUME DeviceInv, NEW c \in Files, Command(c)
    PROVE  DeviceInv'
  <1>1. CASE ReadCommand(c)
    BY <1>1, StartsStep DEF ReadCommand
  <1>2. CASE WriteCommand(c)
    <2>1. LineLengths \subseteq 0 .. INPUT_BUF_SIZE
      BY Constants DEF LineLengths
    <2> QED BY <1>2, <2>1, StartsStep DEF WriteCommand
  <1> QED BY <1>1, <1>2, SeekStep DEF Command
-----------------------------------------------------------------------------
(* The loops *)

LEMMA CallsStep ==
    ASSUME DeviceInv, NEW c \in Files, Calls(c)
    PROVE  DeviceInv'
  <1>1. ClientTypeOK /\ ClientInv(c)
    BY DEF DeviceInv
  <1> DEFINE op == IF at[c] = "reading" THEN "read" ELSE "write"
             bytes == BytesToCopy(Asked(c), f_pos[c])
             begun == [op |-> op, bytes |-> bytes, done |-> 0]
  <1>2. /\ at[c] \in {"reading", "writing"} /\ call' = [call EXCEPT ![c] = begun]
        /\ Loops(c) /\ Unfinished(c) /\ Asked(c) >= 0
        /\ at' = at /\ loop' = loop /\ f_pos' = f_pos /\ driver' = driver
        /\ device_buffer' = device_buffer /\ faults' = faults /\ registered' = registered
        /\ UNCHANGED countVars
    BY DEF Calls, Loops, Unfinished, Begin, clientVars, moduleVars
  <1>3. /\ bytes \in 0 .. BUFFER_SIZE /\ f_pos[c] + bytes <= BUFFER_SIZE
        /\ loop[c].total + bytes <= loop[c].requested
    <2>1. /\ f_pos[c] \in 0 .. BUFFER_SIZE /\ loop[c].total \in Nat /\ loop[c].requested \in Int
          /\ BUFFER_SIZE \in Nat
      BY <1>1, Fields, Constants
    <2>2. Asked(c) \in Nat /\ loop[c].total + Asked(c) <= loop[c].requested
      BY <1>2, <2>1, AskedLeft
    <2> QED BY <2>1, <2>2 DEF BytesToCopy, Available
  <1>4. /\ op \in {"read", "write"} /\ (op = "read" => at[c] = "reading")
        /\ op = "write" => at[c] = "writing"
    BY <1>2
  <1> HIDE DEF op, bytes
  <1>5. begun \in CallRecord
    BY <1>3, <1>4, Constants DEF CallRecord
  <1>6. /\ call' \in [Files -> CallRecord] /\ call'[c] = begun /\ Elsewhere(c)
    BY <1>1, <1>2, <1>5, Types DEF Elsewhere
  <1>7. ClientTypeOK'
    BY <1>1, <1>2, <1>6 DEF ClientTypeOK, countVars, CallRecord
  <1>8. Entered' = Entered /\ Gone' = Gone
    BY <1>2 DEF Entered, Gone
  <1>9. call'[c].op = op /\ call'[c].bytes = bytes /\ call'[c].done = 0
    BY <1>6
  <1>10. ClientInv(c)'
    <2>1. CallAtStage(c)' /\ CountRead(c)'
      BY <1>2, <1>4, <1>9 DEF CallAtStage, CountRead
    <2>2. LoopAtPosition(c)'
      BY <1>1, <1>2, <1>3, <1>9 DEF ClientInv, LoopAtPosition
    <2>3. HoldsBuffer(c)'
      BY <1>1, <1>2, <1>9 DEF ClientInv, HoldsBuffer, Bytes
    <2> QED BY <2>1, <2>2, <2>3 DEF ClientInv
  <1>11. Counted'
    BY <1>2, <1>8, CountsKept
  <1> QED BY <1>2, <1>6, <1>7, <1>8, <1>10, <1>11, BufferKept, OthersKept DEF DeviceInv

LEMMA CallFailsStep ==
    ASSUME DeviceInv, NEW c \in Files, CallFails(c)
    PROVE  DeviceInv'
  <1>1. ClientTypeOK /\ ClientInv(c)
    BY DEF DeviceInv
  <1> DEFINE release == [op |-> "release", bytes |-> 0, done |-> 0]
  <1>2. /\ at[c] \in {"reading", "writing"} /\ call' = [call EXCEPT ![c] = release]
        /\ at' = [at EXCEPT ![c] = "closing"] /\ loop' = [loop EXCEPT ![c] = Rest]
        /\ f_pos' = f_pos /\ driver' = driver
        /\ device_buffer' = device_buffer /\ faults' = faults /\ registered' = registered
        /\ UNCHANGED countVars
    BY DEF CallFails, Loops, Leaves, Begin, moduleVars
  <1>3. Rest \in LoopRecord /\ release \in CallRecord
    BY Constants DEF LoopRecord, CallRecord, Rest
  <1>4. /\ at' \in [Files -> Stages] /\ at'[c] = "closing"
        /\ call' \in [Files -> CallRecord] /\ call'[c].op = "release"
        /\ loop' \in [Files -> LoopRecord] /\ Elsewhere(c)
    BY <1>1, <1>2, <1>3, Types DEF Stages, Elsewhere
  <1>5. ClientTypeOK'
    BY <1>1, <1>2, <1>4 DEF ClientTypeOK, countVars, Stages, CallRecord, LoopRecord
  <1>6. ClientInv(c)'
    <2>1. driver = "in"
      BY <1>1, <1>2 DEF ClientInv, HoldsBuffer
    <2> QED BY <1>2, <1>4, <2>1
            DEF ClientInv, CallAtStage, CountRead, LoopAtPosition, HoldsBuffer
  <1>7. Entered \subseteq Entered' /\ Gone \subseteq Gone'
    BY <1>2, <1>4, NobodyReturns
  <1>8. Counted'
    BY <1>2, <1>7, CountsKept
  <1> QED BY <1>2, <1>4, <1>5, <1>6, <1>7, <1>8, BufferKept, OthersKept DEF DeviceInv

LEMMA DoneStep ==
    ASSUME DeviceInv, NEW c \in Files, Done(c)
    PROVE  DeviceInv'
  <1>1. ClientTypeOK /\ ClientInv(c)
    BY DEF DeviceInv
  <1>2. /\ at[c] \in {"reading", "writing"} /\ call[c].op = "none"
        /\ at' = [at EXCEPT ![c] = "prompt"] /\ loop' = [loop EXCEPT ![c] = Rest]
        /\ call' = call /\ f_pos' = f_pos /\ driver' = driver
        /\ device_buffer' = device_buffer /\ faults' = faults /\ registered' = registered
        /\ UNCHANGED countVars
    BY DEF Done, Loops, Leaves, deviceVars, moduleVars
  <1>3. Rest \in LoopRecord
    BY Constants DEF LoopRecord, Rest
  <1>4. /\ at' \in [Files -> Stages] /\ at'[c] = "prompt"
        /\ loop' \in [Files -> LoopRecord] /\ Elsewhere(c)
    BY <1>1, <1>2, <1>3, Types DEF Stages, Elsewhere
  <1>5. ClientTypeOK'
    BY <1>1, <1>2, <1>4 DEF ClientTypeOK, countVars, Stages, LoopRecord
  <1>6. ClientInv(c)'
    <2>1. driver = "in"
      BY <1>1, <1>2 DEF ClientInv, HoldsBuffer
    <2> QED BY <1>2, <1>4, <2>1
            DEF ClientInv, CallAtStage, CountRead, LoopAtPosition, HoldsBuffer
  <1>7. Entered \subseteq Entered' /\ Gone \subseteq Gone'
    BY <1>2, <1>4, NobodyReturns
  <1>8. Counted'
    BY <1>2, <1>7, CountsKept
  <1> QED BY <1>2, <1>4, <1>5, <1>6, <1>7, <1>8, BufferKept, OthersKept DEF DeviceInv

LEMMA CutShortStep ==
    ASSUME DeviceInv, NEW c \in Files, CutShort(c), UNCHANGED clientVars
    PROVE  DeviceInv'
  <1>1. ClientTypeOK /\ ClientInv(c)
    BY DEF DeviceInv
  <1>2. /\ call[c].op \in {"read", "write"} /\ call[c].done < call[c].bytes
        /\ call' = [call EXCEPT ![c] = [call[c] EXCEPT !.bytes = call[c].done]]
        /\ faults < FAULTS /\ faults' = faults + 1
        /\ at' = at /\ loop' = loop /\ f_pos' = f_pos /\ driver' = driver
        /\ device_buffer' = device_buffer /\ registered' = registered
        /\ UNCHANGED countVars
    BY DEF CutShort, Copying, clientVars, moduleVars
  <1>3. /\ call[c] \in CallRecord /\ call[c].done \in 0 .. BUFFER_SIZE
        /\ call[c].done \in Nat /\ call[c].bytes \in Nat
    BY <1>1, <1>2, Types, Fields, Constants
  <1>4. [call[c] EXCEPT !.bytes = call[c].done] \in CallRecord
    BY <1>3 DEF CallRecord
  <1>5. /\ call' \in [Files -> CallRecord] /\ Elsewhere(c)
        /\ call'[c] = [call[c] EXCEPT !.bytes = call[c].done]
    BY <1>1, <1>2, <1>4, Types DEF Elsewhere
  <1>6. call'[c].op = call[c].op /\ call'[c].done = call[c].done /\ call'[c].bytes = call[c].done
    BY <1>3, <1>5 DEF CallRecord
  <1>7. faults' \in 0 .. FAULTS
    BY <1>1, <1>2, Constants DEF ClientTypeOK
  <1>8. ClientTypeOK'
    BY <1>1, <1>2, <1>5, <1>7 DEF ClientTypeOK, countVars, CallRecord
  <1>9. Entered' = Entered /\ Gone' = Gone
    BY <1>2 DEF Entered, Gone
  <1>10. ClientInv(c)'
    <2>1. CallAtStage(c)' /\ CountRead(c)' /\ HoldsBuffer(c)'
      BY <1>1, <1>2, <1>6, <1>9 DEF ClientInv, CallAtStage, CountRead, HoldsBuffer
    <2>2. f_pos[c] \in Nat /\ loop[c].total \in Nat /\ loop[c].requested \in Int /\ BUFFER_SIZE \in Nat
      BY <1>1, Fields, Constants
    <2>3. LoopAtPosition(c)'
      BY <1>1, <1>2, <1>3, <1>6, <2>2 DEF ClientInv, LoopAtPosition
    <2> QED BY <2>1, <2>3 DEF ClientInv
  <1>11. Counted'
    BY <1>2, <1>9, CountsKept
  <1> QED BY <1>2, <1>5, <1>8, <1>9, <1>10, <1>11, BufferKept, OthersKept DEF DeviceInv

LEMMA CallReturnsStep ==
    ASSUME DeviceInv, NEW c \in Files, CallReturns(c)
    PROVE  DeviceInv'
  <1>1. ClientTypeOK /\ ClientInv(c)
    BY DEF DeviceInv
  <1> DEFINE done == call[c].done
             onward == IF Breaks(c) THEN "prompt" ELSE at[c]
             after  == IF Breaks(c) THEN Rest
                       ELSE [loop[c] EXCEPT !.total = @ + done]
  <1>2. /\ call[c].op \in {"read", "write"} /\ done = call[c].bytes
        /\ f_pos' = [f_pos EXCEPT ![c] = f_pos[c] + done]
        /\ call' = [call EXCEPT ![c] = Idle]
        /\ driver' = driver /\ registered' = registered /\ faults' = faults
        /\ device_buffer' = device_buffer /\ UNCHANGED countVars
    BY DEF CallReturns, CopyReturns, Moved, Returned, moduleVars
  <1>3. /\ at[c] \in {"reading", "writing"} /\ f_pos[c] + done <= BUFFER_SIZE
        /\ loop[c].total + done <= loop[c].requested /\ done \in Nat
        /\ f_pos[c] \in Nat /\ loop[c].total \in Nat /\ loop[c] \in LoopRecord
        /\ loop[c].from \in Nat /\ BUFFER_SIZE \in Nat
    BY <1>1, <1>2, Fields, Types, Constants DEF ClientInv, CallAtStage, LoopAtPosition
  <1>4. /\ at \in [Files -> Stages] /\ loop \in [Files -> LoopRecord]
    BY <1>1, Types
  <1>5. at' = [at EXCEPT ![c] = onward] /\ loop' = [loop EXCEPT ![c] = after]
    BY <1>4 DEF CallReturns, Leaves
  <1>6. onward \in Stages /\ onward \in {"prompt", at[c]}
    BY <1>3 DEF Stages
  <1>7. after \in LoopRecord
    <2>1. Rest \in LoopRecord
      BY Constants DEF LoopRecord, Rest
    <2>2. loop[c].total + done \in Nat
      BY <1>3
    <2> HIDE DEF done
    <2>3. [loop[c] EXCEPT !.total = @ + done] \in LoopRecord
      BY <1>3, <2>2 DEF LoopRecord
    <2> QED BY <2>1, <2>3
  <1>8. onward \in {"reading", "writing"} =>
           /\ onward = at[c] /\ after.from = loop[c].from /\ after.requested = loop[c].requested
           /\ after.total = loop[c].total + done
    <2> SUFFICES ASSUME onward # "prompt"
                 PROVE  /\ onward = at[c] /\ after.from = loop[c].from
                        /\ after.requested = loop[c].requested
                        /\ after.total = loop[c].total + done
      OBVIOUS
    <2>1. onward = at[c] /\ after = [loop[c] EXCEPT !.total = @ + done]
      OBVIOUS
    <2> HIDE DEF onward, after, done
    <2> QED BY <1>3, <2>1 DEF LoopRecord
  <1>9. Idle \in CallRecord /\ f_pos[c] + done \in 0 .. BUFFER_SIZE
    BY <1>3, Constants DEF CallRecord, Idle
  <1> HIDE DEF onward, after, done
  <1>10. /\ at' \in [Files -> Stages] /\ at'[c] = onward
         /\ loop' \in [Files -> LoopRecord] /\ loop'[c] = after
         /\ call' \in [Files -> CallRecord] /\ call'[c].op = "none"
         /\ f_pos' \in [Files -> 0 .. BUFFER_SIZE] /\ f_pos'[c] = f_pos[c] + done
         /\ Elsewhere(c)
    BY <1>1, <1>2, <1>4, <1>5, <1>6, <1>7, <1>9, Types DEF Elsewhere, Idle
  <1>11. ClientTypeOK'
    BY <1>1, <1>2, <1>10 DEF ClientTypeOK, countVars, Stages, CallRecord, LoopRecord
  <1>12. ClientInv(c)'
    <2>1. CallAtStage(c)' /\ CountRead(c)'
      BY <1>10 DEF CallAtStage, CountRead
    <2>2. LoopAtPosition(c)'
      BY <1>1, <1>3, <1>6, <1>8, <1>10 DEF ClientInv, LoopAtPosition
    <2>3. HoldsBuffer(c)'
      BY <1>1, <1>2, <1>3, <1>10 DEF ClientInv, HoldsBuffer
    <2> QED BY <2>1, <2>2, <2>3 DEF ClientInv
  <1>13. Entered \subseteq Entered' /\ Gone \subseteq Gone'
    BY <1>3, <1>6, <1>10, NobodyReturns
  <1>14. Counted'
    BY <1>2, <1>13, CountsKept
  <1> QED BY <1>2, <1>10, <1>11, <1>12, <1>13, <1>14, BufferKept, OthersKept DEF DeviceInv

\* A write extends the bytes that are written, or writes some of them again.
LEMMA CopyByteStep ==
    ASSUME DeviceInv, NEW c \in Files, CopyByte(c), UNCHANGED clientVars
    PROVE  DeviceInv'
  <1>1. ClientTypeOK /\ ClientInv(c) /\ NoHoles
    BY DEF DeviceInv
  <1> DEFINE done == call[c].done
  <1>2. /\ call[c].op \in {"read", "write"} /\ done < call[c].bytes
        /\ call' = [call EXCEPT ![c] = [call[c] EXCEPT !.done = done + 1]]
        /\ at' = at /\ loop' = loop /\ f_pos' = f_pos /\ driver' = driver
        /\ registered' = registered /\ faults' = faults
        /\ UNCHANGED countVars
        /\ device_buffer' = IF call[c].op = "write" THEN [device_buffer EXCEPT ![done] = c]
                            ELSE device_buffer
    BY DEF CopyByte, Copying, Place, clientVars, moduleVars
  <1>3. /\ call[c] \in CallRecord /\ done \in Nat /\ call[c].bytes \in 0 .. BUFFER_SIZE
        /\ BUFFER_SIZE \in Nat
    BY <1>1, Types, Fields, Constants
  <1>4. done \in Bytes /\ done + 1 \in 0 .. BUFFER_SIZE + Cardinality(Files)
    BY <1>2, <1>3, Constants DEF Bytes
  <1>5. /\ driver = "in" /\ device_buffer \in [Bytes -> Files \cup {Junk}]
        /\ Junk \notin Files
    <2>1. driver = "in"
      BY <1>1, <1>2 DEF ClientInv, CallAtStage, HoldsBuffer
    <2>2. device_buffer # NULL
      BY <2>1 DEF DeviceInv
    <2> QED BY <1>1, <2>1, <2>2, DeviceAssumption DEF ClientTypeOK
  <1> HIDE DEF done
  <1>6. [call[c] EXCEPT !.done = done + 1] \in CallRecord
    BY <1>3, <1>4 DEF CallRecord
  <1>7. /\ call' \in [Files -> CallRecord] /\ Elsewhere(c)
        /\ call'[c] = [call[c] EXCEPT !.done = done + 1]
    BY <1>1, <1>2, <1>6, Types DEF Elsewhere
  <1>8. call'[c].op = call[c].op /\ call'[c].done = done + 1 /\ call'[c].bytes = call[c].bytes
    BY <1>3, <1>7 DEF CallRecord
  <1>9. /\ device_buffer' \in [Bytes -> Files \cup {Junk}]
        /\ \A n \in Bytes : device_buffer'[n] =
              IF call[c].op = "write" /\ n = done THEN c ELSE device_buffer[n]
    BY <1>2, <1>4, <1>5
  <1>10. StaysWritten
    BY <1>5, <1>9 DEF StaysWritten
  <1>11. device_buffer' # NULL /\ driver' # "out"
    BY <1>2, <1>5, <1>9, DeviceAssumption DEF Bytes
  <1>12. ClientTypeOK'
    BY <1>1, <1>2, <1>7, <1>9 DEF ClientTypeOK, countVars, CallRecord
  <1>13. Entered' = Entered /\ Gone' = Gone
    BY <1>2 DEF Entered, Gone
  <1>14. call[c].op = "write" => \A n \in Bytes : n < done => device_buffer[n] # Junk
    BY <1>1 DEF ClientInv, HoldsBuffer, done
  <1>15. \A n \in Bytes : n \in Nat /\ (n < done + 1 => n < done \/ n = done)
    BY <1>3 DEF Bytes
  <1>16. NoHoles'
    <2> SUFFICES ASSUME NEW n \in Bytes, NEW m \in Bytes, n < m, device_buffer'[n] = Junk
                 PROVE  device_buffer'[m] = Junk
      BY DEF NoHoles
    <2>1. device_buffer[n] = Junk /\ ~(call[c].op = "write" /\ n = done)
      BY <1>5, <1>9
    <2>2. device_buffer[m] = Junk
      BY <1>1, <1>5, <2>1, DeviceAssumption DEF NoHoles, Bytes
    <2>3. call[c].op = "write" => done < n
      BY <1>3, <1>14, <1>15, <2>1
    <2>4. call[c].op = "write" => m # done
      BY <1>3, <1>15, <2>3
    <2> QED BY <1>9, <2>2, <2>4
  <1>17. ClientInv(c)'
    <2>1. CallAtStage(c)' /\ CountRead(c)'
      BY <1>1, <1>2, <1>8, <1>13 DEF ClientInv, CallAtStage, CountRead
    <2>2. LoopAtPosition(c)'
      BY <1>1, <1>2, <1>3, <1>8 DEF ClientInv, LoopAtPosition
    <2>3. HoldsBuffer(c)'
      BY <1>2, <1>5, <1>8, <1>9, <1>14, <1>15 DEF HoldsBuffer
    <2> QED BY <2>1, <2>2, <2>3 DEF ClientInv
  <1>18. Counted'
    BY <1>2, <1>13, CountsKept
  <1>19. (driver = "out" <=> device_buffer = NULL)'
    BY <1>11
  <1> QED BY <1>2, <1>7, <1>10, <1>12, <1>13, <1>16, <1>17, <1>18, <1>19, OthersKept DEF DeviceInv
-----------------------------------------------------------------------------
(* The module *)

\* insmod and rmmod find nobody who holds the module.
LEMMA NoHolders ==
    ASSUME DeviceInv, driver # "in"
    PROVE  /\ Holders = {}
           /\ \A c \in Files : at[c] \in {"start", "gone"} /\ call[c].op = "none"
  <1>1. ASSUME NEW c \in Files PROVE at[c] \in {"start", "gone"} /\ call[c].op = "none"
    <2>1. at[c] \in {"start", "gone"}
      BY DEF DeviceInv, ClientInv, HoldsBuffer
    <2>2. call[c].op \in {"none", "open", "opening", "release", "releasing", "read", "write"}
      BY Types DEF DeviceInv, CallRecord
    <2> QED BY <2>1, <2>2 DEF DeviceInv, ClientInv, CallAtStage
  <1> QED BY <1>1 DEF Holders

LEMMA ModuleKept ==
    ASSUME DeviceInv, UNCHANGED <<at, loop, call, f_pos>>,
           \A c \in Files : at[c] \in {"start", "gone"}
    PROVE  \A c \in Files : ClientInv(c)'
  <1>1. Entered' = Entered /\ Gone' = Gone
    BY DEF Entered, Gone
  <1> QED BY <1>1 DEF DeviceInv, ClientInv, CallAtStage, CountRead, LoopAtPosition, HoldsBuffer

LEMMA ModuleStep ==
    ASSUME DeviceInv, Module
    PROVE  DeviceInv'
  <1> USE DEF clientVars, countVars
  <1>0. ClientTypeOK /\ Entered' = Entered /\ Gone' = Gone /\ Cardinality(Files) \in Nat
    BY Constants DEF DeviceInv, Module, Entered, Gone
  <1>1. CASE Allocate
    <2>1. /\ driver = "out" /\ driver' = "allocated" /\ open_count' = 0 /\ close_count' = 0
          /\ device_buffer' = [n \in Bytes |-> Junk]
          /\ UNCHANGED <<registered, faults, f_pos, call, at, loop>>
      BY <1>1 DEF Module, Allocate
    <2>2. ClientTypeOK'
      BY <1>0, <2>1 DEF ClientTypeOK
    <2>3. device_buffer' # NULL
      BY <2>1, DeviceAssumption DEF Bytes
    <2>4. Counted' /\ NoHoles'
      BY <1>0, <2>1, CountsFinite DEF Counted, NoHoles
    <2> QED BY <2>1, <2>2, <2>3, <2>4, NoHolders, ModuleKept DEF DeviceInv
  <1>2. CASE Register
    <2>1. /\ driver = "allocated" /\ driver' = "in" /\ registered' \in BOOLEAN
          /\ UNCHANGED <<open_count, close_count, device_buffer, faults, f_pos, call, at, loop>>
      BY <1>2 DEF Module, Register
    <2>2. ClientTypeOK'
      BY <1>0, <2>1 DEF ClientTypeOK
    <2>3. Counted' /\ NoHoles'
      BY <1>0, <2>1 DEF DeviceInv, Counted, NoHoles
    <2>4. (driver = "out" <=> device_buffer = NULL)'
      BY <2>1 DEF DeviceInv
    <2> QED BY <2>1, <2>2, <2>3, <2>4, NoHolders, ModuleKept DEF DeviceInv
  <1>3. CASE Unregister(Holders)
    <2>1. /\ driver = "in" /\ driver' = "unregistered" /\ registered' = FALSE /\ Holders = {}
          /\ UNCHANGED <<open_count, close_count, device_buffer, faults, f_pos, call, at, loop>>
      BY <1>3 DEF Module, Unregister, MayUnload
    <2>2. ClientTypeOK'
      BY <1>0, <2>1 DEF ClientTypeOK
    <2>3. Counted' /\ NoHoles'
      BY <1>0, <2>1 DEF DeviceInv, Counted, NoHoles
    <2>4. (driver = "out" <=> device_buffer = NULL)'
      BY <2>1 DEF DeviceInv
    <2>5. \A c \in Files : at[c] \in {"start", "gone"}
      BY <2>1 DEF Holders
    <2> QED BY <2>1, <2>2, <2>3, <2>4, <2>5, ModuleKept DEF DeviceInv
  <1>4. CASE Free
    <2>1. /\ driver = "unregistered" /\ driver' = "out" /\ device_buffer' = NULL
          /\ UNCHANGED <<registered, open_count, close_count, faults, f_pos, call, at, loop>>
      BY <1>4 DEF Module, Free
    <2>2. ClientTypeOK'
      BY <1>0, <2>1 DEF ClientTypeOK
    <2>3. Counted' /\ NoHoles'
      BY <1>0, <2>1 DEF DeviceInv, Counted, NoHoles
    <2> QED BY <2>1, <2>2, <2>3, NoHolders, ModuleKept DEF DeviceInv
  <1> QED BY <1>1, <1>2, <1>3, <1>4 DEF Module
-----------------------------------------------------------------------------
(* The whole *)

LEMMA DeviceBegins == Init => DeviceInv
  <1> SUFFICES ASSUME Init PROVE DeviceInv
    OBVIOUS
  <1> USE DEF Init, DeviceInit, Idle, Rest
  <1>1. ClientTypeOK
    <2>1. Idle \in CallRecord /\ Rest \in LoopRecord /\ 0 \in 0 .. BUFFER_SIZE
      BY Constants DEF CallRecord, LoopRecord
    <2> HIDE DEF Idle, Rest
    <2>2. call \in [Files -> CallRecord] /\ loop \in [Files -> LoopRecord]
      BY <2>1
    <2>3. /\ driver = "out" /\ registered = FALSE /\ device_buffer = NULL
          /\ open_count \in 0 .. Cardinality(Files) /\ close_count \in 0 .. Cardinality(Files)
          /\ faults \in 0 .. FAULTS /\ f_pos \in [Files -> 0 .. BUFFER_SIZE]
          /\ at \in [Files -> Stages]
      BY <2>1, Constants DEF Stages
    <2> HIDE DEF Init, DeviceInit
    <2> QED BY <2>2, <2>3 DEF ClientTypeOK, CallRecord, LoopRecord, Stages
  <1>2. Counted
    BY CountsFinite DEF Counted
  <1>3. ASSUME NEW c \in Files PROVE ClientInv(c)
    BY DEF ClientInv, CallAtStage, CountRead, LoopAtPosition, HoldsBuffer
  <1> QED BY <1>1, <1>2, <1>3 DEF DeviceInv, NoHoles

LEMMA DeviceStays ==
    ASSUME DeviceInv, UNCHANGED vars
    PROVE  DeviceInv'
  <1> USE DEF vars, deviceVars, clientVars, moduleVars, countVars
  <1>1. Entered' = Entered /\ Gone' = Gone
    BY DEF Entered, Gone
  <1>2. ClientTypeOK'
    BY DEF DeviceInv, ClientTypeOK
  <1>3. \A c \in Files : ClientInv(c)'
    BY <1>1 DEF DeviceInv, ClientInv, CallAtStage, CountRead, LoopAtPosition, HoldsBuffer
  <1>4. Counted' /\ NoHoles' /\ (driver = "out" <=> device_buffer = NULL)'
    BY <1>1 DEF DeviceInv, Counted, NoHoles
  <1> QED BY <1>2, <1>3, <1>4 DEF DeviceInv

LEMMA ClientStep ==
    ASSUME DeviceInv, NEW c \in Files, Client(c)
    PROVE  DeviceInv'
  BY OpenStep, OpenFailsStep, ExitStep, CommandStep, FetchStep, CopyByteStep, OpenedStep,
     ClosedStep, CallsStep, CallFailsStep, CallReturnsStep, DoneStep, CutShortStep DEF Client, Work

\* The inductive invariant of the driver and its clients.
THEOREM DeviceInvariant == Spec => []DeviceInv
  <1>1. DeviceInv /\ [Next]_vars => DeviceInv'
    BY ModuleStep, ClientStep, DeviceStays DEF Next
  <1> QED BY <1>1, DeviceBegins, PTL DEF Spec

\* Every variable has its type: no position is behind the end of the buffer, and
\* neither count is ever more than the clients there are, though each is increased
\* in two steps and several clients may do so at once.
THEOREM DeviceTypes == Spec => []ClientTypeOK
  BY DeviceInvariant, PTL DEF DeviceInv

\* A copy finds the driver's buffer there, and all calls of a loop together stay
\* within the buffer of the client.
THEOREM CopiesStayInBounds == Spec => []CopiesInBounds
  <1>1. DeviceInv => CopiesInBounds
    <2> SUFFICES ASSUME DeviceInv, NEW c \in Files
                 PROVE  /\ Copying(c) => device_buffer # NULL /\ driver = "in"
                        /\ call[c].op = "read"  => loop[c].total + call[c].bytes <= READ_BUF_SIZE
                        /\ call[c].op = "write" => loop[c].total + call[c].bytes <= INPUT_BUF_SIZE
      BY DEF CopiesInBounds
    <2>1. /\ f_pos[c] \in Nat /\ loop[c].total \in Nat /\ loop[c].requested \in Int
          /\ call[c].bytes \in Nat /\ loop[c].from \in Nat
          /\ BUFFER_SIZE \in Nat /\ READ_BUF_SIZE \in Nat /\ INPUT_BUF_SIZE \in Nat
          /\ BUFFER_SIZE <= READ_BUF_SIZE
      BY Fields, Constants DEF DeviceInv
    <2>2. CallAtStage(c) /\ LoopAtPosition(c) /\ HoldsBuffer(c)
      BY DEF DeviceInv, ClientInv
    <2>3. Copying(c) => driver = "in"
      BY <2>2 DEF Copying, CallAtStage, HoldsBuffer
    <2>4. driver = "in" => device_buffer # NULL
      BY DEF DeviceInv
    <2>5. ASSUME call[c].op = "read" PROVE loop[c].total + call[c].bytes <= READ_BUF_SIZE
      <3>1. /\ f_pos[c] = loop[c].from + loop[c].total
            /\ f_pos[c] + call[c].bytes <= BUFFER_SIZE
        BY <2>2, <2>5 DEF CallAtStage, LoopAtPosition
      <3> QED BY <2>1, <3>1
    <2>6. ASSUME call[c].op = "write" PROVE loop[c].total + call[c].bytes <= INPUT_BUF_SIZE
      <3>1. /\ loop[c].total + call[c].bytes <= loop[c].requested
            /\ loop[c].requested <= INPUT_BUF_SIZE
        BY <2>2, <2>6 DEF CallAtStage, LoopAtPosition
      <3> QED BY <2>1, <3>1
    <2> QED BY <2>3, <2>4, <2>5, <2>6
  <1> QED BY <1>1, DeviceInvariant, PTL

\* What was ever written is the beginning of the buffer, without a gap.
THEOREM WrittenIsPrefix == Spec => []NoHoles
  BY DeviceInvariant, PTL DEF DeviceInv

\* handle_write returns only when the driver has taken every byte.
THEOREM WritesComplete == Spec => WriteComplete
  <1>1. DeviceInv /\ [Next]_vars =>
           [\A c \in Files : at[c] = "writing" /\ at'[c] # "writing"
                                => f_pos'[c] = loop[c].from + loop[c].requested]_vars
    <2> SUFFICES ASSUME DeviceInv, Next, NEW c \in Files,
                        at[c] = "writing", at'[c] # "writing"
                 PROVE  f_pos'[c] = loop[c].from + loop[c].requested
      OBVIOUS
    <2>1. at \in [Files -> Stages]
      BY Types DEF DeviceInv
    <2>2. ~Module
      BY DEF Module, clientVars
    <2>3. PICK u \in Files : Client(u)
      BY <2>2 DEF Next
    <2>4. ~CallFails(c)
      <3> SUFFICES ASSUME Loops(c), Unfinished(c) PROVE ~(Asked(c) < 0)
        BY DEF CallFails
      <3>1. Asked(c) = loop[c].requested - loop[c].total
        BY AskedLeft
      <3>2. loop[c].total \in Nat /\ loop[c].requested \in Int
        BY Fields DEF DeviceInv
      <3> QED BY <3>1, <3>2 DEF Unfinished
    <2>5. Done(c)
      <3>1. CASE u # c
        BY <2>1, <2>3, <3>1
           DEF Client, Open, OpenFails, Exit, Command, ReadCommand, WriteCommand, SeekCommand,
               SeekFails, Starts, Work, Opened, Closed, Calls, CallFails, CallReturns, Done,
               Leaves, Goes,
               clientVars
      <3>2. CASE u = c
        BY <2>1, <2>3, <2>4, <3>2
           DEF Client, Open, OpenFails, Exit, Command, ReadCommand, WriteCommand, SeekCommand,
               SeekFails, Starts, Work, Opened, Closed, Calls, CallReturns, Breaks, Goes,
               clientVars
      <3> QED BY <3>1, <3>2
    <2>6. f_pos'[c] = f_pos[c] /\ ~(loop[c].total < loop[c].requested)
      BY <2>5 DEF Done, Unfinished, deviceVars
    <2>7. f_pos[c] = loop[c].from + loop[c].total /\ loop[c].total <= loop[c].requested
      BY DEF DeviceInv, ClientInv, LoopAtPosition
    <2>8. loop[c].total \in Nat /\ loop[c].requested \in Int
      BY Fields DEF DeviceInv
    <2> QED BY <2>6, <2>7, <2>8
  <1> QED BY <1>1, DeviceInvariant, PTL DEF Spec, WriteComplete
=============================================================================
