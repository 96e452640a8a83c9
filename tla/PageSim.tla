------------------------------ MODULE PageSim ------------------------------
(***************************************************************************)
(* assignments/pa7/simulator.c: a simulator of demand paging.  Each tick   *)
(* steps every loaded process once (allstep), ages every page in transit   *)
(* (allage), and calls the pager (callyou), which may ask for pageins and  *)
(* pageouts.  Here the pager asks for anything it likes; PagerBasic has    *)
(* the strategy of pager-basic.c.                                          *)
(*                                                                         *)
(* Left out: the clocks and the statistics (sysclock, compute, block), the *)
(* flags that only control logging (blocked, pageouts), and the tables of  *)
(* random numbers behind a branch: a branch may go either way.             *)
(***************************************************************************)
EXTENDS Integers, FiniteSets

CONSTANTS Procs,            \* processors: slots of the table "processes"
          QUEUESIZE,        \* processes to run
          MAXPROCPAGES, PAGESIZE, PAGEWAIT, PHYSICALPAGES,
          programs,         \* program \in 0 .. PROGRAMS - 1 of each kind
          PROGRAMS,
          NULL

ASSUME SizeAssumption ==
    /\ Procs \in Nat \ {0} /\ QUEUESIZE \in Nat \ {0} /\ PROGRAMS \in Nat \ {0}
    /\ MAXPROCPAGES \in Nat \ {0} /\ PAGESIZE \in Nat \ {0}
    /\ PAGEWAIT \in Nat \ {0} /\ PHYSICALPAGES \in Nat
ASSUME NullAssumption == NULL \notin Nat

Slots == 0 .. Procs - 1
Queue == 0 .. QUEUESIZE - 1
Pages == 0 .. MAXPROCPAGES - 1
Program(k) == programs[k % PROGRAMS]

\* A program counter runs on from line size - 1 to line size unless there is an
\* exit, as in all of programs.c: then that line needs a page too.
ASSUME ProgramsAssumption ==
    \A kind \in 0 .. PROGRAMS - 1 :
       LET program == programs[kind]
       IN  /\ program.size \in Nat \ {0}
           /\ (program.size - 1) \div PAGESIZE < MAXPROCPAGES
           /\ program.size - 1 \notin program.exits
               => program.size \div PAGESIZE < MAXPROCPAGES
           /\ \A b \in program.branches : b.whereto \in Nat

\* The ages of a page: free, on its way out, in, on its way in.
FREE == - PAGEWAIT - 1
Ages == FREE .. PAGEWAIT

VARIABLES processes,    \* the queue entry in each slot, or NULL
          queueend,     \* the first queue entry not yet loaded
          pc,           \* of each queue entry
          pages,        \* the age of each page of each queue entry
          pagesavail,   \* free frames
          phase,        \* "step", "age", "pager" or "done"
          cursor        \* the slot that allstep comes to next

procVars == <<processes, queueend, pc>>
pageVars == <<pages, pagesavail>>
loopVars == <<phase, cursor>>
vars == <<procVars, pageVars, loopVars>>

\* The process table is filled from the head of the queue.
Init == /\ queueend = IF Procs < QUEUESIZE THEN Procs ELSE QUEUESIZE
        /\ processes = [i \in Slots |-> IF i < QUEUESIZE THEN i ELSE NULL]
        /\ pc = [k \in Queue |-> 0]
        /\ pages = [k \in Queue |-> [page \in Pages |-> FREE]]
        /\ pagesavail = PHYSICALPAGES
        /\ phase = "step" /\ cursor = 0

\* A queue entry is active from the moment it is loaded into a slot until it
\* is unloaded, which takes it out of its slot.
Loaded == {k \in Queue : \E i \in Slots : processes[i] = k}

PageOf(line) == line \div PAGESIZE
Current(k)   == PageOf(pc[k])
Resident(k, page)  == pages[k][page] = 0
HasFrame(k, page)  == pages[k][page] # FREE
-----------------------------------------------------------------------------
(* allstep: one iteration per slot *)

\* allstep stops where alldone finds no process that is active.
StepPhase(i) == phase = "step" /\ cursor = i /\ (i = 0 => Loaded # {})

Advance(i) == IF i + 1 < Procs
              THEN cursor' = i + 1 /\ phase' = phase
              ELSE cursor' = 0     /\ phase' = "age"

\* Mutant of Reload: the end of the queue does not move.
ReloadSame(i) ==
    IF queueend < QUEUESIZE
    THEN /\ processes' = [processes EXCEPT ![i] = queueend]
         /\ UNCHANGED queueend
    ELSE /\ processes' = [processes EXCEPT ![i] = NULL]
         /\ UNCHANGED queueend

\* dequeue into slot i, which is empty otherwise.
Reload(i) ==
    IF queueend < QUEUESIZE
    THEN /\ processes' = [processes EXCEPT ![i] = queueend]
         /\ queueend' = queueend + 1
    ELSE /\ processes' = [processes EXCEPT ![i] = NULL]
         /\ UNCHANGED queueend

EmptySlot(i) == /\ StepPhase(i) /\ processes[i] = NULL
                /\ Reload(i)
                /\ Advance(i)
                /\ UNCHANGED <<pc, pageVars>>

\* A process whose current page is not in memory waits.
Blocked(i) == LET k == processes[i]
              IN  /\ StepPhase(i) /\ k # NULL /\ ~ Resident(k, Current(k))
                  /\ Advance(i)
                  /\ UNCHANGED <<procVars, pageVars>>

Runs(i) == /\ StepPhase(i) /\ processes[i] # NULL
           /\ Resident(processes[i], Current(processes[i]))

AtExit(k) == pc[k] \in Program(k).exits

\* Mutant of Unload: only the pages that are in or coming give a frame back.
UnloadLeak(i) ==
    LET k    == processes[i]
        held == {page \in Pages : pages[k][page] >= 0}
    IN  /\ Runs(i) /\ AtExit(k)
        /\ pages' = [pages EXCEPT ![k] = [page \in Pages |-> FREE]]
        /\ pagesavail' = pagesavail + Cardinality(held)
        /\ Reload(i)
        /\ Advance(i)
        /\ UNCHANGED pc

\* Mutant of Unload: the ages of the pages are not reset.
UnloadKeeps(i) ==
    LET k    == processes[i]
        held == {page \in Pages : pages[k][page] >= - PAGEWAIT}
    IN  /\ Runs(i) /\ AtExit(k)
        /\ pagesavail' = pagesavail + Cardinality(held)
        /\ Reload(i)
        /\ Advance(i)
        /\ UNCHANGED <<pc, pages>>

\* process_step comes to an exit: process_unload gives back every frame of
\* the process, those in transit included, and the slot is refilled.
Unload(i) ==
    LET k    == processes[i]
        held == {page \in Pages : pages[k][page] >= - PAGEWAIT}
    IN  /\ Runs(i) /\ AtExit(k)
        /\ pages' = [pages EXCEPT ![k] = [page \in Pages |-> FREE]]
        /\ pagesavail' = pagesavail + Cardinality(held)
        /\ Reload(i)
        /\ Advance(i)
        /\ UNCHANGED pc

\* A program without branches is searched at branches[0] all the same, a
\* zeroed entry: a branch from line 0 to line 0.
Branches(k) == IF Program(k).branches = {}
               THEN {[wherefrom |-> 0, whereto |-> 0, btype |-> "GOTO"]}
               ELSE Program(k).branches

BranchAt(k) == {b \in Branches(k) : b.wherefrom = pc[k]}

\* process_dobranch starts over at size, the default step one line later.
InRange(line, last) == IF line > last THEN 0 ELSE line

MoveTo(i, line) == /\ pc' = [pc EXCEPT ![processes[i]] = line]
                   /\ Advance(i)
                   /\ UNCHANGED <<processes, queueend, pageVars>>

TakeBranch(i) ==
    LET k == processes[i]
    IN  /\ Runs(i) /\ ~ AtExit(k)
        /\ \E b \in BranchAt(k) :
              MoveTo(i, InRange(b.whereto, Program(k).size - 1))

\* The phantom branch is taken once in two, a GOTO "forever": 2^31 - 1 times.
PassBranch(i) ==
    LET k == processes[i]
    IN  /\ Runs(i) /\ ~ AtExit(k) /\ BranchAt(k) # {}
        /\ MoveTo(i, InRange(pc[k] + 1, Program(k).size - 1))

\* Mutant of NextLine: the program counter is not checked.
NextLineNoCheck(i) ==
    LET k == processes[i]
    IN  /\ Runs(i) /\ ~ AtExit(k) /\ BranchAt(k) = {}
        /\ MoveTo(i, pc[k] + 1)

NextLine(i) ==
    LET k == processes[i]
    IN  /\ Runs(i) /\ ~ AtExit(k) /\ BranchAt(k) = {}
        /\ MoveTo(i, InRange(pc[k] + 1, Program(k).size))

\* Mutant of AllDone: one slot without a process is enough.
AllDoneEarly == /\ phase = "step" /\ cursor = 0
                /\ \E i \in Slots : processes[i] = NULL
                /\ phase' = "done"
                /\ UNCHANGED <<procVars, pageVars, cursor>>

AllDone == /\ phase = "step" /\ cursor = 0 /\ Loaded = {}
           /\ phase' = "done"
           /\ UNCHANGED <<procVars, pageVars, cursor>>
-----------------------------------------------------------------------------
(* allage *)

Aged(age) == IF age > 0 THEN age - 1
             ELSE IF age < 0 /\ age >= - PAGEWAIT THEN age - 1
             ELSE age

\* A page on its way in or out comes one tick closer; the frame of a page
\* that is out is free again.
Age == LET leaving == {x \in Loaded \X Pages : pages[x[1]][x[2]] = - PAGEWAIT}
       IN  /\ phase = "age"
           /\ pages' = [k \in Queue |-> IF k \in Loaded
                                        THEN [page \in Pages |-> Aged(pages[k][page])]
                                        ELSE pages[k]]
           /\ pagesavail' = pagesavail + Cardinality(leaving)
           /\ phase' = "pager"
           /\ UNCHANGED <<procVars, cursor>>
-----------------------------------------------------------------------------
(* pagein and pageout, the two routines a pager may call; the first says    *)
(* whether the call starts a transfer, the second what it returns.          *)

Valid(i, page) == i \in Slots /\ processes[i] # NULL /\ page \in Pages

\* "don't allow predictive pageins": only the current page may be asked for.
PageinStarts(i, page) ==
    LET k == processes[i]
    IN  /\ Valid(i, page) /\ Current(k) = page
        /\ pages[k][page] < - PAGEWAIT
        /\ pagesavail # 0

PageinReturns(i, page) ==
    LET k == processes[i]
    IN  /\ Valid(i, page) /\ Current(k) = page
        /\ pages[k][page] >= 0 \/ PageinStarts(i, page)

PageoutStarts(i, page) == Valid(i, page) /\ Resident(processes[i], page)

\* Mutant of StartPagein: no frame is taken.
StartPageinFree(i, page) ==
    /\ PageinStarts(i, page)
    /\ pages' = [pages EXCEPT ![processes[i]][page] = PAGEWAIT]
    /\ UNCHANGED pagesavail

StartPagein(i, page) ==
    /\ PageinStarts(i, page)
    /\ pages' = [pages EXCEPT ![processes[i]][page] = PAGEWAIT]
    /\ pagesavail' = pagesavail - 1

\* Mutant of StartPageout: a page that is coming is turned round.
StartPageoutAny(i, page) ==
    /\ Valid(i, page) /\ pages[processes[i]][page] >= 0
    /\ pages' = [pages EXCEPT ![processes[i]][page] = -1]
    /\ UNCHANGED pagesavail

StartPageout(i, page) ==
    /\ PageoutStarts(i, page)
    /\ pages' = [pages EXCEPT ![processes[i]][page] = -1]
    /\ UNCHANGED pagesavail

\* A call that starts nothing changes nothing; these are the others.
PagerCall == /\ phase = "pager"
             /\ \E i \in Slots, page \in Pages :
                   StartPagein(i, page) \/ StartPageout(i, page)
             /\ UNCHANGED <<procVars, loopVars>>

PagerReturn == /\ phase = "pager" /\ phase' = "step"
               /\ UNCHANGED <<procVars, pageVars, cursor>>
-----------------------------------------------------------------------------
ProcessStep(i) == \/ EmptySlot(i) \/ Blocked(i) \/ Unload(i)
                  \/ TakeBranch(i) \/ PassBranch(i) \/ NextLine(i)

Simulate == (\E i \in Slots : ProcessStep(i)) \/ AllDone \/ Age

Next == Simulate \/ PagerCall \/ PagerReturn

Spec == Init /\ [][Next]_vars
-----------------------------------------------------------------------------
(* Properties *)

\* Every variable has its type.
TypeOK == /\ processes \in [Slots -> Queue \cup {NULL}]
          /\ queueend \in 0 .. QUEUESIZE
          /\ pc \in [Queue -> Nat]
          /\ pages \in [Queue -> [Pages -> Ages]]
          /\ pagesavail \in 0 .. PHYSICALPAGES
          /\ phase \in {"step", "age", "pager", "done"}
          /\ cursor \in Slots

Held == {x \in Queue \X Pages : HasFrame(x[1], x[2])}

\* "keep track of physical page usage" (simulator.c:99): whatever the pager
\* asks for, and whatever is in transit when a process ends, the free frames
\* and the pages that hold one add up to PHYSICALPAGES.
FramesConserved == pagesavail + Cardinality(Held) = PHYSICALPAGES

\* A frame is never held for a process that is not in the process table: one
\* that ended has given up everything, and one still queued has nothing.
NoFrameLeaked == \A x \in Held : x[1] \in Loaded

\* Every queue entry is loaded once, in order: no entry sits in two slots,
\* none beyond queueend is loaded, none before it waits.
LoadedOnce == /\ \A i, j \in Slots : processes[i] # NULL /\ processes[i] = processes[j] => i = j
              /\ \A k \in Loaded : k < queueend
              /\ queueend < QUEUESIZE => \A i \in Slots : processes[i] # NULL

\* The page a process is on exists, wherever branches take it and although a
\* program without an exit on its last line runs on to the line behind it.
PagesInRange == \A k \in Queue : Current(k) \in Pages

\* When main leaves its loop every queue entry has come to one of its exits
\* and all frames are free.
AllReturned == phase = "done" => /\ \A k \in Queue : AtExit(k)
                                 /\ queueend = QUEUESIZE
                                 /\ pagesavail = PHYSICALPAGES

\* A page that is in transit can not be turned round: it comes in or goes out
\* tick by tick until it has arrived, unless its process ends.
TransitCompletes ==
    [][\A k \in Queue, page \in Pages :
          pages[k][page] \notin {FREE, 0} /\ pages'[k][page] # pages[k][page]
            => \/ pages'[k][page] = Aged(pages[k][page])
               \/ pages'[k][page] = FREE /\ k \in Loaded /\ k \notin Loaded']_vars
=============================================================================
