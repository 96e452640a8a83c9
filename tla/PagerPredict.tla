---------------------------- MODULE PagerPredict ---------------------------
(***************************************************************************)
(* assignments/pa8/pager-predict.c on top of the simulator and its branch  *)
(* engine.  One call of pageit runs through the stages                     *)
(*    wait     paging operations that should be over are forgotten, pages  *)
(*             in memory are counted;                                      *)
(*    evict    pages are paged out until FREEBUF frames are free;          *)
(*    learn    the transitions between pages are counted;                  *)
(*    window   pages referenced lately are asked for;                      *)
(*    current  the page each process is on is asked for, or else one of    *)
(*             the process's own pages is paged out;                       *)
(*    predict  the pages that should come next are asked for,              *)
(* most of them in a loop over the slots.                                  *)
(*                                                                         *)
(* The pager never asks the simulator how far a transfer has come: it      *)
(* keeps its own record, proc_wait, by its own clock.                      *)
(*                                                                         *)
(* Left out: workset, which nothing reads, and page_start.  The entry      *)
(* "waiting" is op # "none", the entry "pagein" is op = "in".              *)
(***************************************************************************)
EXTENDS BranchEngine

CONSTANTS FREEBUF, WINDOWSIZE, DECAY_INTERVAL

ASSUME PredictAssumption ==
    /\ FREEBUF \in 0 .. PHYSICALPAGES
    /\ WINDOWSIZE \in Nat \ {0} /\ DECAY_INTERVAL \in Nat \ {0}

VARIABLES tick,         \* artificial time
          timestamps,   \* when the page of a slot was last seen to be the current one
          transitions,  \* how often one page of a slot followed another
          pg_last,      \* the page each slot was on
          proc_wait,    \* the paging operations that should be under way
          q,            \* which pages were in memory when pageit was called
          need_free,    \* frames still to be freed
          stage, turn   \* where pageit is

trackVars == <<timestamps, transitions, pg_last>>
stageVars == <<stage, turn>>
pagerVars == <<tick, trackVars, proc_wait, q, need_free, stageVars>>
predictVars == <<allVars, pagerVars>>

NoOp == [op |-> "none", page_end |-> -1]

PredictInit ==
    /\ EngineInit
    /\ tick = 1
    /\ timestamps = [i \in Slots |-> [page \in Pages |-> 0]]
    /\ transitions = [i \in Slots |-> [from \in Pages |-> [to \in Pages |-> 0]]]
    \* The initialiser {-1} reaches the first element only.
    /\ pg_last = [i \in Slots |-> IF i = 0 THEN -1 ELSE 0]
    /\ proc_wait = [i \in Slots |-> [page \in Pages |-> NoOp]]
    /\ q = [i \in Slots |-> [page \in Pages |-> FALSE]]
    /\ need_free = 0
    /\ stage = "wait" /\ turn = 0

Active(i) == processes[i] # NULL
CurrentPage(i) == Current(processes[i])

At(s) == phase = "pager" /\ stage = s

\* The loop of a stage goes on to the next slot, and from the last one to the
\* next stage.
NextTurn(i, next) == IF i + 1 < Procs
                     THEN turn' = i + 1 /\ UNCHANGED stage
                     ELSE turn' = 0     /\ stage' = next
-----------------------------------------------------------------------------
(* What pageit does with the simulator *)

\* Mutant of SetPending: the operation is expected to be over too soon.
SetPendingShort(i, page, op) ==
    proc_wait' = [proc_wait EXCEPT ![i][page] =
                     [op |-> op, page_end |-> tick + PAGEWAIT - 1]]

SetPending(i, page, op) ==
    proc_wait' = [proc_wait EXCEPT ![i][page] = [op |-> op, page_end |-> tick + PAGEWAIT]]

\* Mutant of Fetch: a frame need not be free.
FetchAnyway(i, page) ==
    /\ SetPending(i, page, "in")
    /\ pages' = [pages EXCEPT ![processes[i]][page] = PAGEWAIT]
    /\ pagesavail' = pagesavail - 1

\* pagein, which also answers 1 for a page that is in or coming; a page for
\* which it answers 1 is recorded as coming.
Fetch(i, page) == /\ SetPending(i, page, "in")
                  /\ IF PageinStarts(i, page) THEN StartPagein(i, page) ELSE UNCHANGED pageVars

\* pageout answers 1 for a page that is out or going, too.
PageoutReturns(i, page) == Valid(i, page) /\ pages[processes[i]][page] <= 0

Evict(i, page) == /\ SetPending(i, page, "out")
                  /\ IF PageoutStarts(i, page) THEN StartPageout(i, page) ELSE UNCHANGED pageVars

\* pageit asks for the pages in "asked".  All pageins but that of the current
\* page are refused and change nothing.
FetchFrom(i, asked) ==
    \/ \E page \in asked : PageinReturns(i, page) /\ Fetch(i, page)
    \/ /\ ~ \E page \in asked : PageinReturns(i, page)
       /\ UNCHANGED <<proc_wait, pageVars>>

Evictable(i, page) == q[i][page] /\ proc_wait[i][page].op = "none"

Before(x, y) == x[1] < y[1] \/ (x[1] = y[1] /\ x[2] < y[2])

\* find_lru_page_local and find_lru_page_global: of the pages of the slots, the
\* first in the order of the tables that has the smallest timestamp.
IsLru(slots, i, page) ==
    /\ i \in slots /\ Evictable(i, page)
    /\ \A j \in slots, other \in Pages :
          Evictable(j, other) =>
             \/ timestamps[i][page] < timestamps[j][other]
             \/ /\ timestamps[i][page] = timestamps[j][other]
                /\ ~ Before(<<j, other>>, <<i, page>>)
-----------------------------------------------------------------------------
(* The stages *)

\* Pages in memory, and pages on their way in.
InMemCount(mem, wait) ==
    Cardinality({x \in Slots \X Pages : mem[x[1]][x[2]] \/ wait[x[1]][x[2]].op = "in"})

Shortage(count) == IF PHYSICALPAGES - count < FREEBUF
                   THEN FREEBUF - (PHYSICALPAGES - count) ELSE 0

Over(wait) == wait.page_end > 0 /\ wait.page_end <= tick

\* callyou copies the table, pageit updates its own and counts.
UpdateWaits ==
    /\ At("wait")
    /\ q' = [i \in Slots |-> [page \in Pages |-> Active(i) /\ Resident(processes[i], page)]]
    /\ proc_wait' = [i \in Slots |-> [page \in Pages |->
                        IF Over(proc_wait[i][page]) THEN NoOp ELSE proc_wait[i][page]]]
    /\ need_free' = Shortage(InMemCount(q', proc_wait'))
    /\ stage' = "evict"
    /\ UNCHANGED <<allVars, tick, trackVars, turn>>

\* A victim that can be paged out, or the end of the loop.
EvictGlobal ==
    /\ At("evict") /\ need_free > 0
    /\ \E i \in Slots, page \in Pages :
          IsLru(Slots, i, page) /\ PageoutReturns(i, page) /\ Evict(i, page)
    /\ need_free' = need_free - 1
    /\ UNCHANGED <<procVars, loopVars, engineVars, tick, trackVars, q, stageVars>>

EvictEnds ==
    /\ At("evict")
    /\ \/ need_free = 0
       \/ ~ \E i \in Slots, page \in Pages : IsLru(Slots, i, page) /\ PageoutReturns(i, page)
    /\ stage' = "learn" /\ need_free' = 0
    /\ UNCHANGED <<allVars, tick, trackVars, proc_wait, q, turn>>

\* (int) freq * ALPHA, with ALPHA = 0.8f.
Decay(freq) == (freq * 4) \div 5

\* Mutant of Moves: staying on a page counts too.
MovesAlways(i) == Active(i) /\ pg_last[i] # -1

Moves(i) == Active(i) /\ pg_last[i] # -1 /\ pg_last[i] # CurrentPage(i)

Learn(i) ==
    /\ At("learn") /\ turn = i
    /\ IF Moves(i)
       THEN LET counted == [transitions EXCEPT ![i][pg_last[i]][CurrentPage(i)] = @ + 1]
            IN  /\ pg_last' = [pg_last EXCEPT ![i] = CurrentPage(i)]
                /\ transitions' = IF tick % DECAY_INTERVAL = 0
                                  THEN [j \in Slots |-> [from \in Pages |-> [to \in Pages |->
                                           Decay(counted[j][from][to])]]]
                                  ELSE counted
       ELSE UNCHANGED <<pg_last, transitions>>
    /\ NextTurn(i, "window")
    /\ UNCHANGED <<allVars, tick, timestamps, proc_wait, q, need_free>>

\* update_working_set: every WINDOWSIZE ticks, pages referenced since.
Window(i) ==
    /\ At("window") /\ turn = i
    /\ FetchFrom(i, {page \in Pages : /\ tick % WINDOWSIZE = 0
                                      /\ tick - timestamps[i][page] < WINDOWSIZE
                                      /\ ~ q[i][page]})
    /\ NextTurn(i, "current")
    /\ UNCHANGED <<procVars, loopVars, engineVars, tick, trackVars, q, need_free>>

\* The current page of the process in slot i is in memory or asked for ...
FetchCurrent(i) ==
    /\ At("current") /\ turn = i /\ Active(i)
    /\ timestamps' = [timestamps EXCEPT ![i][CurrentPage(i)] = tick]
    /\ \/ q[i][CurrentPage(i)] /\ UNCHANGED <<proc_wait, pageVars>>
       \/ /\ ~ q[i][CurrentPage(i)] /\ PageinReturns(i, CurrentPage(i))
          /\ Fetch(i, CurrentPage(i))
    /\ NextTurn(i, "predict")
    /\ UNCHANGED <<procVars, loopVars, engineVars, tick, transitions, pg_last, q, need_free>>

Refused(i) == ~ q[i][CurrentPage(i)] /\ ~ PageinReturns(i, CurrentPage(i))

\* ... or refused.  If the process then has a page to give up, the loop ends and
\* the slots behind it are left out this time.
EvictLocal(i) ==
    /\ At("current") /\ turn = i /\ Active(i) /\ Refused(i)
    /\ timestamps' = [timestamps EXCEPT ![i][CurrentPage(i)] = tick]
    /\ \E page \in Pages :
          IsLru({i}, i, page) /\ PageoutReturns(i, page) /\ Evict(i, page)
    /\ stage' = "predict" /\ turn' = 0
    /\ UNCHANGED <<procVars, loopVars, engineVars, tick, transitions, pg_last, q, need_free>>

NothingToEvict(i) ==
    /\ At("current") /\ turn = i /\ Active(i) /\ Refused(i)
    /\ timestamps' = [timestamps EXCEPT ![i][CurrentPage(i)] = tick]
    /\ ~ \E page \in Pages : IsLru({i}, i, page) /\ PageoutReturns(i, page)
    /\ NextTurn(i, "predict")
    /\ UNCHANGED <<procVars, loopVars, engineVars, pageVars, tick, transitions, pg_last,
                   proc_wait, q, need_free>>

\* The head of the sorted list; qsort orders equal frequencies as it likes.
Likeliest(freq) == {page \in Pages : \A other \in Pages : freq[other] <= freq[page]}

\* Ahead: the two pages to come.  Back: the body of the loop.  A transition from
\* a page to itself is never counted, so the case of a branch does not arise.
Predicted(i, first, second) == IF first > CurrentPage(i) THEN {first, second}
                               ELSE first .. CurrentPage(i) - 1

Predict(i) ==
    /\ At("predict") /\ turn = i /\ Active(i)
    /\ LET seen == transitions[i]
       IN  \E first \in Likeliest(seen[CurrentPage(i)]) :
              \/ /\ seen[CurrentPage(i)][first] = 0
                 /\ UNCHANGED <<proc_wait, pageVars>>
              \/ /\ seen[CurrentPage(i)][first] > 0
                 /\ \E second \in Likeliest(seen[first]) :
                       FetchFrom(i, Predicted(i, first, second))
    /\ NextTurn(i, "return")
    /\ UNCHANGED <<procVars, loopVars, engineVars, tick, trackVars, q, need_free>>

\* The stages current and predict pass over a slot without a process.
Inactive(i) ==
    /\ turn = i /\ ~ Active(i)
    /\ \/ At("current") /\ NextTurn(i, "predict")
       \/ At("predict") /\ NextTurn(i, "return")
    /\ UNCHANGED <<allVars, tick, trackVars, proc_wait, q, need_free>>

\* Mutant of Return: time stands still.
ReturnTimeless ==
    /\ At("return") /\ stage' = "wait"
    /\ PagerReturn
    /\ UNCHANGED <<engineVars, tick, trackVars, proc_wait, q, need_free, turn>>

Return ==
    /\ At("return") /\ stage' = "wait" /\ tick' = tick + 1
    /\ PagerReturn
    /\ UNCHANGED <<engineVars, trackVars, proc_wait, q, need_free, turn>>

Turn(i) == \/ Learn(i) \/ Window(i)
           \/ FetchCurrent(i) \/ EvictLocal(i) \/ NothingToEvict(i)
           \/ Predict(i) \/ Inactive(i)

PredictNext == \/ EngineSimulate /\ UNCHANGED pagerVars
               \/ UpdateWaits \/ EvictGlobal \/ EvictEnds
               \/ \E i \in Slots : Turn(i)
               \/ Return

PredictSpec == PredictInit /\ [][PredictNext]_predictVars

\* One sequential program.
FairPredict == PredictSpec /\ WF_predictVars(PredictNext)
-----------------------------------------------------------------------------
(* Properties *)

\* Every variable has its type; no transition from a page to itself is counted.
PredictTypeOK ==
    /\ TypeOK
    /\ tick \in Nat \ {0}
    /\ timestamps \in [Slots -> [Pages -> 0 .. tick]]
    /\ transitions \in [Slots -> [Pages -> [Pages -> 0 .. tick]]]
    /\ \A i \in Slots, page \in Pages : transitions[i][page][page] = 0
    /\ pg_last \in [Slots -> Pages \cup {-1}]
    /\ proc_wait \in [Slots -> [Pages -> [op : {"none", "in", "out"},
                                        page_end : -1 .. tick + PAGEWAIT]]]
    /\ q \in [Slots -> [Pages -> BOOLEAN]]
    /\ need_free \in Nat
    /\ stage \in {"wait", "evict", "learn", "window", "current", "predict", "return"}
    /\ turn \in Slots

\* The number of the call at which the pages are as old as they are now.
Now == IF phase = "pager" THEN tick ELSE tick - 1

\* The pager's record by its own clock agrees with the simulator: a page that is
\* coming is recorded as coming and expected no sooner than it will be there, a
\* page that is going is recorded as going and expected exactly when it is out.
\* So what it may choose as a victim is in memory still, although it looks at a
\* copy: no page is paged out twice, and a pageout is never refused (303, 414).
TracksTransfers ==
    \A i \in Slots, page \in Pages :
       LET age  == pages[processes[i]][page]
           wait == proc_wait[i][page]
       IN  /\ Active(i) /\ age > 0 => wait.op = "in" /\ wait.page_end >= Now + age
           /\ Active(i) /\ age < 0 /\ age # FREE =>
                 wait.op = "out" /\ wait.page_end = Now + age - FREE
           /\ phase = "pager" /\ stage \in {"evict", "current"} /\ Evictable(i, page) =>
                 Active(i) /\ age = 0

\* The simulator with this pager is the simulator with some pager.
ImplementsPageSim == Spec

\* Every queued process comes to its exit.
PredictEnds == <>(phase = "done")
=============================================================================
