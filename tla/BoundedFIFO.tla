---------------------------- MODULE BoundedFIFO ----------------------------
(***************************************************************************)
(* What a caller of a "shared, circular FIFO array" may rely on: a put     *)
(* adds at the end while there is room, a get hands out the oldest value   *)
(* and removes it.  Blocking is a guard that is false.                     *)
(***************************************************************************)
EXTENDS Naturals, Sequences

CONSTANTS Capacity,     \* the most values stored at once
          Callers,      \* the threads that call put and get
          Values,       \* what can be stored
          Nothing       \* what a caller's buffer holds before its first get

VARIABLES queue,        \* the stored values, the oldest first
          received      \* the value each caller's last get handed out

fifoVars == <<queue, received>>

Init == /\ queue = << >>
        /\ received = [c \in Callers |-> Nothing]

Put(v) == /\ Len(queue) < Capacity
          /\ queue' = Append(queue, v)
          /\ UNCHANGED received

Get(c) == /\ queue # << >>
          /\ received' = [received EXCEPT ![c] = Head(queue)]
          /\ queue' = Tail(queue)

Next == \/ \E v \in Values : Put(v)
        \/ \E c \in Callers : Get(c)

Spec == Init /\ [][Next]_fifoVars
=============================================================================
