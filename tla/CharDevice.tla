----------------------------- MODULE CharDevice ----------------------------
(***************************************************************************)
(* The character device driver assignments/pa3/pa3_char_device_driver.c: a *)
(* kernel module with one buffer, which every open file reads and writes   *)
(* from its first byte on; the position of the file says only how many     *)
(* bytes are left.                                                         *)
(*                                                                         *)
(* Calls for different files overlap: nothing is locked.  A copy goes byte *)
(* by byte and may be cut short (copy_to_user, copy_from_user), and a      *)
(* count is increased in two steps.  A byte is known by the file it came   *)
(* through.  Left out: the log.                                            *)
(***************************************************************************)
EXTENDS Integers, FiniteSets

CONSTANTS Files,        \* open files, one for each client
          BUFFER_SIZE,
          LLONG_MAX,    \* of loff_t
          FAULTS,       \* bound: how many copies are cut short
          Junk,         \* a byte of kmalloc, which nobody wrote
          NULL

ASSUME DeviceAssumption ==
    /\ BUFFER_SIZE \in Nat \ {0} /\ FAULTS \in Nat
    /\ LLONG_MAX \in Nat /\ BUFFER_SIZE <= LLONG_MAX
    /\ IsFiniteSet(Files) /\ Junk \notin Files
    /\ NULL \notin [0 .. BUFFER_SIZE - 1 -> Files \cup {Junk}]

VARIABLES driver,         \* the module: out, allocated, in, unregistered
          registered,     \* register_chrdev has succeeded
          device_buffer,
          open_count, close_count,
          faults,         \* copies cut short so far
          f_pos,          \* pfile->f_pos
          call            \* the call of the driver that a file is in

countVars == <<open_count, close_count>>
moduleVars == <<driver, registered>>
deviceVars == <<moduleVars, countVars, device_buffer, faults, f_pos, call>>

Bytes == 0 .. BUFFER_SIZE - 1

Idle == [op |-> "none", bytes |-> 0, done |-> 0]

DeviceInit == /\ driver = "out" /\ registered = FALSE
              /\ device_buffer = NULL
              /\ open_count = 0 /\ close_count = 0
              /\ faults = 0
              /\ f_pos = [f \in Files |-> 0]
              /\ call = [f \in Files |-> Idle]

\* Begin the call "op" of the driver, for so many bytes.
Begin(f, op, bytes) ==
    call' = [call EXCEPT ![f] = [op |-> op, bytes |-> bytes, done |-> 0]]

Returned(f) == call' = [call EXCEPT ![f] = Idle]
-----------------------------------------------------------------------------
(* pa3_char_driver_init and pa3_char_driver_exit *)

\* insmod.  If kmalloc fails, the module is not loaded.
Allocate == /\ driver = "out" /\ driver' = "allocated"
            /\ device_buffer' = [n \in Bytes |-> Junk]
            /\ open_count' = 0 /\ close_count' = 0
            /\ UNCHANGED <<registered, faults, f_pos, call>>

\* What register_chrdev returns is not looked at.
Register == /\ driver = "allocated" /\ driver' = "in"
            /\ registered' \in BOOLEAN
            /\ UNCHANGED <<countVars, device_buffer, faults, f_pos, call>>

\* .owner = THIS_MODULE: an open file holds the module.
MayUnload(holders) == holders = {}

\* rmmod; from now on the module cannot be opened.
Unregister(holders) ==
    /\ driver = "in" /\ MayUnload(holders)
    /\ driver' = "unregistered" /\ registered' = FALSE
    /\ UNCHANGED <<countVars, device_buffer, faults, f_pos, call>>

Free == /\ driver = "unregistered" /\ driver' = "out"
        /\ device_buffer' = NULL
        /\ UNCHANGED <<registered, countVars, faults, f_pos, call>>
-----------------------------------------------------------------------------
(* pa3_char_driver_open and _close: ++open_count, ++close_count *)

Fetch(f) == /\ call[f].op \in {"open", "release"}
            /\ call' = [call EXCEPT ![f] =
                           [op    |-> IF @.op = "open" THEN "opening" ELSE "releasing",
                            bytes |-> 0,
                            done  |-> IF @.op = "open" THEN open_count ELSE close_count]]
            /\ UNCHANGED <<moduleVars, countVars, device_buffer, faults, f_pos>>

StoreOpen(f) == /\ call[f].op = "opening"
                /\ open_count' = call[f].done + 1
                /\ Returned(f)
                /\ UNCHANGED <<moduleVars, close_count, device_buffer, faults, f_pos>>

StoreClose(f) == /\ call[f].op = "releasing"
                 /\ close_count' = call[f].done + 1
                 /\ Returned(f)
                 /\ UNCHANGED <<moduleVars, open_count, device_buffer, faults, f_pos>>
-----------------------------------------------------------------------------
(* pa3_char_driver_read and _write *)

Available(pos) == IF pos >= BUFFER_SIZE THEN 0 ELSE BUFFER_SIZE - pos

\* Mutant of BytesToCopy: the position is not looked at.
BytesToCopyAll(length, pos) == IF length < BUFFER_SIZE THEN length ELSE BUFFER_SIZE

BytesToCopy(length, pos) == IF length < Available(pos) THEN length ELSE Available(pos)

\* Mutant of Place: a file is written from its position on.
PlaceAtPosition(f) == f_pos[f] + call[f].done

\* The next byte that is copied.
Place(f) == call[f].done

Copying(f) == call[f].op \in {"read", "write"} /\ call[f].done < call[f].bytes

CopyByte(f) ==
    /\ Copying(f)
    /\ call' = [call EXCEPT ![f].done = @ + 1]
    /\ device_buffer' = IF call[f].op = "write"
                        THEN [device_buffer EXCEPT ![Place(f)] = f]
                        ELSE device_buffer
    /\ UNCHANGED <<moduleVars, countVars, faults, f_pos>>

\* uncopied_bytes: the rest of the copy is given up.
CutShort(f) ==
    /\ Copying(f) /\ faults < FAULTS
    /\ faults' = faults + 1
    /\ call' = [call EXCEPT ![f].bytes = call[f].done]
    /\ UNCHANGED <<moduleVars, countVars, device_buffer, f_pos>>

\* Mutant of Moved: the position stays where it is.
MovedNever(f) == f_pos[f]

Moved(f) == f_pos[f] + call[f].done

\* The return of a read or a write, which is of call[f].done bytes.
CopyReturns(f) ==
    /\ call[f].op \in {"read", "write"} /\ call[f].done = call[f].bytes
    /\ f_pos' = [f_pos EXCEPT ![f] = Moved(f)]
    /\ Returned(f)
    /\ UNCHANGED <<moduleVars, countVars, device_buffer, faults>>
-----------------------------------------------------------------------------
(* pa3_char_driver_seek *)

\* What a signed integer with the greatest value max keeps of n.
Wrapped(n, max) == ((n + max + 1) % (2 * (max + 1))) - (max + 1)

Clamped(pos) == IF pos < 0 THEN 0 ELSE IF pos > BUFFER_SIZE THEN BUFFER_SIZE ELSE pos

Origin(f, whence) == CASE whence = 0 -> 0
                       [] whence = 1 -> f_pos[f]
                       [] whence = 2 -> BUFFER_SIZE

\* The sum may pass the greatest loff_t.  Another whence is answered -EINVAL.
SeekReturns(f, offset, whence) ==
    /\ whence \in 0 .. 2
    /\ f_pos' = [f_pos EXCEPT ![f] = Clamped(Wrapped(offset + Origin(f, whence), LLONG_MAX))]
    /\ UNCHANGED <<moduleVars, countVars, device_buffer, faults, call>>
=============================================================================
