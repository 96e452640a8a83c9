---------------------------- MODULE DeviceClient ---------------------------
(***************************************************************************)
(* assignments/pa2/pa2test.c on the driver of CharDevice: each client is a *)
(* process that opens the device and then reads, writes or moves its file  *)
(* as its user asks, until its input ends or a call fails.  A read or a    *)
(* write is repeated until it has all its bytes.                           *)
(*                                                                         *)
(* Left out: the arguments of main, the prompts and what is printed.  A    *)
(* command that is not known, which is passed over, is no step.  The code  *)
(* after the loop of main is never reached: the file is closed by exit.    *)
(***************************************************************************)
EXTENDS CharDevice

CONSTANTS READ_BUF_SIZE, INPUT_BUF_SIZE,
          INT_MAX,
          Numbers       \* numbers that users type, as strtol returns them

ASSUME ClientAssumption ==
    /\ READ_BUF_SIZE \in Nat /\ INPUT_BUF_SIZE \in Nat \ {0, 1}
    /\ INPUT_BUF_SIZE <= BUFFER_SIZE /\ BUFFER_SIZE <= READ_BUF_SIZE    \* 80, 900, 4096
    /\ INT_MAX \in Nat /\ BUFFER_SIZE <= INT_MAX /\ INT_MAX <= LLONG_MAX
    /\ Numbers \subseteq -(LLONG_MAX + 1) .. LLONG_MAX

VARIABLES at,       \* where each client is
          loop      \* of handle_read or handle_write: bytes_requested and
                    \* total_bytes; "from", not in the code, is the position before

clientVars == <<at, loop>>
vars == <<deviceVars, clientVars>>

Rest == [requested |-> 0, total |-> 0, from |-> 0]

Init == DeviceInit /\ at = [c \in Files |-> "start"] /\ loop = [c \in Files |-> Rest]

Goes(c, from, to) == at[c] = from /\ at' = [at EXCEPT ![c] = to]

Leaves(c, to) == at' = [at EXCEPT ![c] = to] /\ loop' = [loop EXCEPT ![c] = Rest]
-----------------------------------------------------------------------------
(* open, exit *)

Holders == {c \in Files : at[c] \notin {"start", "gone"}}

Open(c) == /\ Goes(c, "start", "opening")
           /\ driver = "in" /\ registered
           /\ Begin(c, "open", 0)
           /\ UNCHANGED <<moduleVars, countVars, device_buffer, faults, f_pos, loop>>

\* "invalid filename"
OpenFails(c) == /\ Goes(c, "start", "gone")
                /\ ~ (driver = "in" /\ registered)
                /\ UNCHANGED <<deviceVars, loop>>

Opened(c) == /\ Goes(c, "opening", "prompt")
             /\ StoreOpen(c)
             /\ UNCHANGED loop

\* exit: on end of input, or if there is no memory for the buffers.
Exit(c) == /\ Goes(c, "prompt", "closing")
           /\ Begin(c, "release", 0)
           /\ UNCHANGED <<moduleVars, countVars, device_buffer, faults, f_pos, loop>>

Closed(c) == /\ Goes(c, "closing", "gone")
             /\ StoreClose(c)
             /\ UNCHANGED loop
-----------------------------------------------------------------------------
(* The commands of main *)

Starts(c, what, requested) ==
    /\ Goes(c, "prompt", what)
    /\ loop' = [loop EXCEPT ![c] = [requested |-> requested, total |-> 0, from |-> f_pos[c]]]
    /\ UNCHANGED deviceVars

ReadCommand(c) == \E number \in Numbers : Starts(c, "reading", number)

\* handle_null_terminate: the line, which fgets may have cut, and its end.
LineLengths == {chars + 1 : chars \in 0 .. INPUT_BUF_SIZE - 1}

WriteCommand(c) == \E length \in LineLengths : Starts(c, "writing", length)

\* handle_seek, when the driver answers -EINVAL.
SeekFails(c) == Exit(c)

\* A whence that the client rejects is no step.  It lets 3 pass, which the
\* driver does not know.
SeekCommand(c) ==
    /\ at[c] = "prompt"
    /\ \E offset \in Numbers, whence \in 0 .. 3 :
          \/ SeekReturns(c, offset, whence) /\ UNCHANGED clientVars
          \/ whence = 3 /\ SeekFails(c)
-----------------------------------------------------------------------------
(* handle_read, handle_write *)

Loops(c) == at[c] \in {"reading", "writing"} /\ call[c].op = "none"

\* Mutant of Unfinished: one more round.
UnfinishedLate(c) == loop[c].total <= loop[c].requested

Unfinished(c) == loop[c].total < loop[c].requested

\* bytes_to_read, bytes_to_write: an int, of a difference that is a long.
Asked(c) == Wrapped(loop[c].requested - loop[c].total, INT_MAX)

Calls(c) ==
    /\ Loops(c) /\ Unfinished(c) /\ Asked(c) >= 0
    /\ Begin(c, IF at[c] = "reading" THEN "read" ELSE "write",
             BytesToCopy(Asked(c), f_pos[c]))
    /\ UNCHANGED <<moduleVars, countVars, device_buffer, faults, f_pos, clientVars>>

\* As a size_t a negative number is more than the kernel lets pass to a driver: the
\* call returns -1, "error reading file", and the client exits.
CallFails(c) ==
    /\ Loops(c) /\ Unfinished(c) /\ Asked(c) < 0
    /\ Leaves(c, "closing")
    /\ Begin(c, "release", 0)
    /\ UNCHANGED <<moduleVars, countVars, device_buffer, faults, f_pos>>

\* Mutant of Breaks: a write ends like a read.
BreaksAny(c) == call[c].done = 0

\* handle_read takes 0 for the end of the file; handle_write tries again.
Breaks(c) == at[c] = "reading" /\ call[c].done = 0

CallReturns(c) ==
    /\ CopyReturns(c)
    /\ IF Breaks(c) THEN Leaves(c, "prompt")
       ELSE loop' = [loop EXCEPT ![c].total = @ + call[c].done] /\ UNCHANGED at

Done(c) == /\ Loops(c) /\ ~ Unfinished(c)
           /\ Leaves(c, "prompt")
           /\ UNCHANGED deviceVars
-----------------------------------------------------------------------------
Command(c) == ReadCommand(c) \/ WriteCommand(c) \/ SeekCommand(c)

Work(c) == \/ (Fetch(c) \/ CopyByte(c)) /\ UNCHANGED clientVars
           \/ Opened(c) \/ Closed(c)
           \/ Calls(c) \/ CallFails(c) \/ CallReturns(c) \/ Done(c)

Client(c) == \/ Open(c) \/ OpenFails(c) \/ Exit(c) \/ Command(c) \/ Work(c)
             \/ CutShort(c) /\ UNCHANGED clientVars

Module == (Allocate \/ Register \/ Unregister(Holders) \/ Free) /\ UNCHANGED clientVars

Next == Module \/ \E c \in Files : Client(c)

Spec == Init /\ [][Next]_vars

\* Every process that can run does; users and insmod need not do anything.
FairSpec == Spec /\ \A c \in Files : WF_vars(Work(c))
-----------------------------------------------------------------------------
(* Properties *)

\* Every variable has its type, so that a position is never behind the end
\* of the buffer.
ClientTypeOK ==
    /\ driver \in {"out", "allocated", "in", "unregistered"} /\ registered \in BOOLEAN
    /\ device_buffer \in {NULL} \cup [Bytes -> Files \cup {Junk}]
    /\ open_count \in 0 .. Cardinality(Files) /\ close_count \in 0 .. Cardinality(Files)
    /\ faults \in 0 .. FAULTS
    /\ f_pos \in [Files -> 0 .. BUFFER_SIZE]
    /\ call \in [Files -> [op    : {"none", "open", "opening", "release", "releasing",
                                    "read", "write"},
                           bytes : 0 .. BUFFER_SIZE,
                           done  : 0 .. BUFFER_SIZE + Cardinality(Files)]]
    /\ at \in [Files -> {"start", "opening", "prompt", "reading", "writing", "closing", "gone"}]
    /\ loop \in [Files -> [requested : Numbers \cup 0 .. INPUT_BUF_SIZE,
                           total : Nat, from : 0 .. BUFFER_SIZE]]

\* A copy stays within buffers that are there.  rmmod does not free the device's
\* under a client; and whatever number of bytes the user asks for (pa2test.c:151),
\* handle_read stays within read_buf and handle_write within the line: all calls
\* of a loop together, and what the one in progress is still going to copy.
CopiesInBounds ==
    \A c \in Files :
       /\ Copying(c) => device_buffer # NULL /\ driver = "in"
       /\ call[c].op = "read"  => loop[c].total + call[c].bytes <= READ_BUF_SIZE
       /\ call[c].op = "write" => loop[c].total + call[c].bytes <= INPUT_BUF_SIZE

\* Bytes that nobody wrote are behind those that were written, whatever writes
\* overlap, are cut short or come after a seek: a read that follows a write of as
\* many bytes returns none of them.
NoHoles ==
    device_buffer # NULL =>
       \A n, m \in Bytes : n < m /\ device_buffer[n] = Junk => device_buffer[m] = Junk

\* handle_write does not return before the driver has taken every byte: a short
\* write is not mistaken for a whole one, and one that does not fit before the
\* end of the file never returns (pa2test.c:44).
WriteComplete ==
    [][\A c \in Files : at[c] = "writing" /\ at'[c] # "writing"
                        => f_pos'[c] = loop[c].from + loop[c].requested]_vars

\* A loop that must come back.
Returning(c) == \/ at[c] = "reading" /\ loop[c].requested <= INT_MAX
                \/ at[c] = "writing" /\ loop[c].from + loop[c].requested <= BUFFER_SIZE

\* handle_read returns, be it at the end of the file, if it is asked for a number
\* that an int can hold (pa2test.c:66), and handle_write does if the bytes fit before
\* the end of the file.  For any other number handle_read returns or exits.
LoopsReturn ==
    \A c \in Files : /\ Returning(c) ~> at[c] = "prompt"
                     /\ at[c] = "reading" ~> at[c] \in {"prompt", "closing"}
=============================================================================
