----------------------------- MODULE ThreadTest ----------------------------
(***************************************************************************)
(* recitation/threads/thread_test.c: main runs one demonstration after the *)
(* other and joins the threads of each.                                    *)
(*    one     threads increase a counter without a lock;                   *)
(*    two     the same with a mutex;                                       *)
(*    three   two threads fill one static buffer;                          *)
(*    four    each fills its own;                                          *)
(*    five    labels are cut to the size of the buffers they go to;        *)
(*    six     the queue of SemaphoreQueue.                                 *)
(* A character is known by the thread that wrote it, a label by its length.*)
(* Left out: what is printed, and the pauses.  A thread that is not yet    *)
(* created is one that has not yet run.  The model is of the build the     *)
(* file names (gcc -O0), where each access is a load or a store.           *)
(***************************************************************************)
EXTENDS SemaphoreQueue

CONSTANTS Threads, ITERATIONS,
          LENGTH        \* of the two strings of parts three and four

ASSUME ThreadAssumption == /\ IsFiniteSet(Threads) /\ ITERATIONS \in Nat \ {0}
                           /\ LENGTH \in Nat /\ NULL \notin Threads

VARIABLES part,
          counter, g_lock,
          inc,          \* where each thread of parts one and two is
          buf,          \* the static buffer and those of the callers
          filled,       \* characters each caller has written
          label         \* the length of the label typed in part five

incVars == <<counter, g_lock, inc>>
bufVars == <<buf, filled>>
vars == <<part, incVars, bufVars, label, queueVars>>

Writers == {"A", "B"}
Chars == 0 .. LENGTH        \* the last one ends the string

Begun(at) == [t \in Threads |-> [at |-> at, i |-> 0, tmp |-> 0]]

Init == /\ part = "one"
        /\ counter = 0 /\ g_lock = NULL /\ inc = Begun("load")
        /\ buf = [b \in Writers \cup {"static"} |-> [n \in Chars |-> "none"]]
        /\ filled = [w \in Writers |-> 0]
        /\ label = 0
        /\ QueueInit
-----------------------------------------------------------------------------
(* inc_no_lock, inc_with_lock *)

\* Where an iteration begins.
IncStart == IF part = "one" THEN "load" ELSE "lock"

Lock(t) == /\ part = "two" /\ inc[t].at = "lock" /\ g_lock = NULL
           /\ g_lock' = t
           /\ inc' = [inc EXCEPT ![t].at = "load"]
           /\ UNCHANGED <<part, counter, bufVars, label, queueVars>>

Load(t) == /\ inc[t].at = "load"
           /\ inc' = [inc EXCEPT ![t].at = "store", ![t].tmp = counter]
           /\ UNCHANGED <<part, counter, g_lock, bufVars, label, queueVars>>

\* Mutant of Store: the counter is loaded once, before the loop.
StoreAgain(t) == /\ inc[t].at = "store"
                 /\ counter' = inc[t].tmp + 1
                 /\ g_lock' = NULL
                 /\ inc' = [inc EXCEPT ![t].at = IF inc[t].i + 1 < ITERATIONS
                                                 THEN "store" ELSE "over",
                                       ![t].i  = @ + 1]
                 /\ UNCHANGED <<part, bufVars, label, queueVars>>

Store(t) == /\ inc[t].at = "store"
            /\ counter' = inc[t].tmp + 1
            /\ g_lock' = NULL
            /\ inc' = [inc EXCEPT ![t] = [at  |-> IF @.i + 1 < ITERATIONS
                                                  THEN IncStart ELSE "over",
                                          i   |-> @.i + 1, tmp |-> 0]]
            /\ UNCHANGED <<part, bufVars, label, queueVars>>

Increment(t) == Lock(t) \/ Load(t) \/ Store(t)
-----------------------------------------------------------------------------
(* upper_not_reentrant, upper_reentrant *)

\* Mutant of Buffer: part four uses the static buffer, too.
BufferStatic(w) == "static"

Buffer(w) == IF part = "three" THEN "static" ELSE w

Fill(w) == /\ part \in {"three", "four"} /\ filled[w] \in Chars
           /\ buf' = [buf EXCEPT ![Buffer(w)][filled[w]] = w]
           /\ filled' = [filled EXCEPT ![w] = @ + 1]
           /\ UNCHANGED <<part, incVars, label, queueVars>>
-----------------------------------------------------------------------------
(* main *)

Unwritten == filled' = [w \in Writers |-> 0]
Filled == \A w \in Writers : filled[w] \notin Chars

Counted == \A t \in Threads : inc[t].at = "over"

JoinOne == /\ part = "one" /\ part' = "two" /\ Counted
           /\ counter' = 0 /\ inc' = Begun("lock")
           /\ UNCHANGED <<g_lock, bufVars, label, queueVars>>

\* Part three begins with two calls of main itself.
JoinTwo == /\ part = "two" /\ part' = "three" /\ Counted
           /\ buf' = [buf EXCEPT !["static"] = [n \in Chars |-> "main"]]
           /\ UNCHANGED <<incVars, filled, label, queueVars>>

JoinThree == /\ part = "three" /\ part' = "four" /\ Filled
             /\ Unwritten
             /\ UNCHANGED <<incVars, buf, label, queueVars>>

JoinFour == /\ part = "four" /\ part' = "five" /\ Filled
            /\ UNCHANGED <<incVars, bufVars, label, queueVars>>

\* snprintf(dst, cap, ...) of a text that needs so many characters; the end of
\* the string takes one.
Printed(needed, cap) == IF needed < cap THEN needed ELSE cap - 1

\* read_label_bounded: label[16], with the rest of the line flushed; no input
\* is an empty label.
LabelLengths == 0 .. 15

Tag == Printed(4 + label, 20)           \* "TAG:%s" in tag[20]
Banner == Printed(1 + Tag + 1 + 2 + 1, 24)      \* "[%s:%s]" with T1 or T2 in local[24]

ReadLabel == /\ part = "five" /\ part' = "banners"
             /\ label' \in LabelLengths
             /\ UNCHANGED <<incVars, bufVars, queueVars>>

\* The label is of no use any more.
JoinFive == /\ part = "banners" /\ part' = "six" /\ label' = 0
            /\ UNCHANGED <<incVars, bufVars, queueVars>>

JoinSix == /\ part = "six" /\ part' = "end"
           /\ \A t \in Users : user[t] = "over"
           /\ UNCHANGED <<incVars, bufVars, label, queueVars>>

Main == JoinOne \/ JoinTwo \/ JoinThree \/ JoinFour \/ ReadLabel \/ JoinFive \/ JoinSix

InPartSix(A) == part = "six" /\ A /\ UNCHANGED <<part, incVars, bufVars, label>>

Next == \/ Main
        \/ \E t \in Threads : Increment(t)
        \/ \E w \in Writers : Fill(w)
        \/ \E t \in Users : InPartSix(Use(t) \/ Wake(t))

Spec == Init /\ [][Next]_vars

\* Every thread that can run does, main too.
FairSpec == /\ Spec /\ WF_vars(Main)
            /\ \A t \in Threads : WF_vars(Increment(t))
            /\ \A w \in Writers : WF_vars(Fill(w))
            /\ \A t \in Users : WF_vars(InPartSix(Use(t)))
-----------------------------------------------------------------------------
(* Properties *)

AllIncrements == Cardinality(Threads) * ITERATIONS

\* Every variable has its type.
ThreadTypeOK ==
    /\ QueueTypeOK
    /\ part \in {"one", "two", "three", "four", "five", "banners", "six", "end"}
    /\ counter \in 0 .. AllIncrements
    /\ g_lock \in Threads \cup {NULL}
    /\ inc \in [Threads -> [at : {"lock", "load", "store", "over"}, i : 0 .. ITERATIONS,
                            tmp : 0 .. AllIncrements]]
    /\ buf \in [Writers \cup {"static"} -> [Chars -> Writers \cup {"none", "main"}]]
    /\ filled \in [Writers -> 0 .. LENGTH + 1]
    /\ label \in 0 .. 15

\* Part one loses updates, but never all: "got" is at least 2 and at most what is
\* expected (278), if there are two threads or more with two iterations or more.
CounterBounds ==
    part = "one" /\ Counted /\ Cardinality(Threads) > 1 /\ ITERATIONS > 1 =>
       counter \in 2 .. AllIncrements

\* The other parts.  Two loses no update (288).  After three the static buffer holds
\* nothing of the calls before it; after four each caller has its own string,
\* whatever three has left (321).  In five the tag is never cut, and the banner of a
\* thread loses one character at most: the bracket, behind a label of 15.
Results == /\ part = "two" /\ Counted => counter = AllIncrements
           /\ part = "three" /\ Filled => \A n \in Chars : buf["static"][n] \in Writers
           /\ part = "five" => \A w \in Writers, n \in Chars : buf[w][n] = w
           /\ part = "banners" => /\ Tag = 4 + label
                                  /\ Banner = IF label = 15 THEN Tag + 4 ELSE Tag + 5

\* The program comes to its end: all threads of all parts do.
AllPartsEnd == <>(part = "end")
=============================================================================
