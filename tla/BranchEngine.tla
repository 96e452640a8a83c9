---------------------------- MODULE BranchEngine ---------------------------
(***************************************************************************)
(* The branch engine of assignments/pa7/simulator.c (bcontext_init,        *)
(* bcontext_clear, bcontext_decide) in the simulator of PageSim.  When a   *)
(* process is loaded, each of its branches draws a table "brings" of run   *)
(* lengths; the branch is then taken and passed by turns, for as many      *)
(* decisions as the table says.                                            *)
(*                                                                         *)
(* PageSim lets such a branch go either way at any time and PagerBasic     *)
(* assumes that it is passed in the end: here both come from the tables.   *)
(***************************************************************************)
EXTENDS PageSim

CONSTANTS MAXBRINGS,    \* entries of a table
          FOREVER,      \* the one entry of a GOTO's table
          IFRUN         \* bound: the longest run of equal outcomes of an IF

ASSUME EngineAssumption ==
    /\ MAXBRINGS \in Nat \ {0} /\ MAXBRINGS % 2 = 0      \* "must be EVEN!"
    /\ FOREVER \in Nat \ {0} /\ IFRUN \in Nat \ {0}
ASSUME LapsAssumption ==
    \A kind \in 0 .. PROGRAMS - 1 : \A b \in programs[kind].branches :
       b.btype \in {"FOR", "NFOR"} => b.min \in Nat \ {0} /\ b.max \in Nat

\* Of each branch of each queue entry; they need not differ in their lines.
Meetings == UNION {{k} \X Branches(k) : k \in Queue}

VARIABLES contexts,     \* bcontexts of each queue entry, by branch
          laps          \* not in the code: how often each branch was taken
                        \* since it was last passed

engineVars == <<contexts, laps>>
allVars == <<vars, engineVars>>
-----------------------------------------------------------------------------
(* bcontext_init *)

Context(value, brings) == [boffset |-> 0, bcount |-> 0, bvalue |-> value,
                           bsize |-> Cardinality(DOMAIN brings), brings |-> brings]

\* lrand48() % (max - min) + min: max itself is never drawn.
LapCounts(b) == IF b.max > b.min THEN b.min .. b.max - 1 ELSE {b.min}

Entries == 0 .. MAXBRINGS - 1

\* Runs that are drawn, each followed by one decision the other way.
LapTables(b) == {[n \in Entries |-> IF n % 2 = 0 THEN drawn[n \div 2] ELSE 1] :
                    drawn \in [0 .. MAXBRINGS \div 2 - 1 -> LapCounts(b)]}

Single(n) == [entry \in {0} |-> n]

\* The contexts a branch of program k may start with.  The phantom branch of a
\* program without branches has the context that process_clear left.  A first
\* entry 0 of an IF, which is one decision too, is not told from 1.
Drawn(k, b) ==
    CASE Program(k).branches = {} -> {Context(TRUE, Single(1))}
      [] Program(k).branches # {} /\ b.btype = "GOTO" -> {Context(TRUE, Single(FOREVER))}
      [] b.btype = "FOR"  -> {Context(TRUE, brings)  : brings \in LapTables(b)}
      [] b.btype = "NFOR" -> {Context(FALSE, brings) : brings \in LapTables(b)}
      [] b.btype = "IF"   -> {Context(value, brings) : value \in BOOLEAN,
                                                       brings \in [Entries -> 1 .. IFRUN]}

EngineInit == /\ Init
              /\ contexts \in {c \in [Meetings -> UNION {Drawn(x[1], x[2]) : x \in Meetings}] :
                                  \A x \in Meetings : c[x] \in Drawn(x[1], x[2])}
              /\ laps = [x \in Meetings |-> 0]
-----------------------------------------------------------------------------
(* bcontext_decide *)

\* Mutant of Decided: a run is one decision too long.
DecidedLate(c) ==
    IF c.bcount + 1 > c.brings[c.boffset]
    THEN [c EXCEPT !.boffset = (c.boffset + 1) % c.bsize, !.bcount = 0,
                   !.bvalue = ~ c.bvalue]
    ELSE [c EXCEPT !.bcount = c.bcount + 1]

\* The context after a decision, which was c.bvalue.
Decided(c) ==
    IF c.bcount + 1 >= c.brings[c.boffset]
    THEN [c EXCEPT !.boffset = (c.boffset + 1) % c.bsize, !.bcount = 0,
                   !.bvalue = ~ c.bvalue]
    ELSE [c EXCEPT !.bcount = c.bcount + 1]

\* process_dobranch for the process in slot i.
EngineBranch(i) ==
    LET k == processes[i]
    IN  /\ Runs(i) /\ ~ AtExit(k)
        /\ \E b \in BranchAt(k) :
              LET c == contexts[<<k, b>>]
              IN  /\ contexts' = [contexts EXCEPT ![<<k, b>>] = Decided(c)]
                  /\ laps' = [laps EXCEPT ![<<k, b>>] = IF c.bvalue THEN @ + 1 ELSE 0]
                  /\ MoveTo(i, InRange(IF c.bvalue THEN b.whereto ELSE pc[k] + 1,
                                       Program(k).size - 1))

EngineStep(i) == \/ EngineBranch(i)
                 \/ (EmptySlot(i) \/ Blocked(i) \/ Unload(i) \/ NextLine(i)) /\ UNCHANGED engineVars

EngineSimulate == \/ \E i \in Slots : EngineStep(i)
                  \/ (AllDone \/ Age) /\ UNCHANGED engineVars
-----------------------------------------------------------------------------
(* Properties, of a simulation with any pager *)

\* A FOR branch is taken at least min and fewer than max times before it is
\* passed (programs.c:13), each time its loop is entered again and also when the
\* table has been used up and begun again ("must be EVEN!", simulator.h:21).
LapsInRange ==
    [][\A x \in Meetings : /\ x[2].btype = "FOR"
                           /\ contexts'[x] # contexts[x] /\ ~ contexts[x].bvalue
                           => laps[x] \in LapCounts(x[2])]_allVars
=============================================================================
