----------------------------- MODULE PagerBasic ----------------------------
(***************************************************************************)
(* assignments/pa7/pager-basic.c on top of the simulator: pageit looks for *)
(* the first process whose current page is in memory or can be asked for,  *)
(* and stops there.                                                        *)
(*                                                                         *)
(* Its search for a victim never calls pageout: the condition tests        *)
(* q[proc].pages[page], the page whose absence led to the search, where it *)
(* means q[proc].pages[vic].                                               *)
(***************************************************************************)
EXTENDS PageSim

\* q is a copy, but nothing changes it before the first pagein that starts.
InMemory(i) == processes[i] # NULL /\ Resident(processes[i], Current(processes[i]))

\* pageit breaks at slot i.
StopsAt(i) == /\ processes[i] # NULL
              /\ InMemory(i) \/ PageinReturns(i, Current(processes[i]))

\* Mutant of FirstStop: "continue" for the "break" of a page in memory.
FirstStopSkips(i) == /\ StopsAt(i) /\ ~ InMemory(i)
                     /\ \A j \in Slots : j < i => ~ StopsAt(j) \/ InMemory(j)

FirstStop(i) == StopsAt(i) /\ \A j \in Slots : j < i => ~ StopsAt(j)

\* Mutant of Pageit: the page after the current one is asked for.
PageitAhead ==
    /\ phase = "pager" /\ phase' = "step"
    /\ UNCHANGED <<procVars, cursor>>
    /\ \/ \E i \in Slots : StartPagein(i, Current(processes[i]) + 1)
       \/ UNCHANGED pageVars

Pageit ==
    /\ phase = "pager" /\ phase' = "step"
    /\ UNCHANGED <<procVars, cursor>>
    /\ \/ \E i \in Slots : FirstStop(i) /\ StartPagein(i, Current(processes[i]))
       \/ /\ ~ \E i \in Slots : FirstStop(i) /\ PageinStarts(i, Current(processes[i]))
          /\ UNCHANGED pageVars

BasicNext == Simulate \/ Pageit

BasicSpec == Init /\ [][BasicNext]_vars

\* The runs of decisions behind a branch are finite, so a process that meets a
\* branch again and again does not take it for ever.  In PagerPredict they
\* come from the tables of BranchEngine, and nothing is assumed.
Lines == {0} \cup UNION {{b.wherefrom : b \in programs[kind].branches} :
                            kind \in 0 .. PROGRAMS - 1}

PassAt(i, line) == /\ processes[i] # NULL /\ pc[processes[i]] = line
                   /\ PassBranch(i)

BranchesPass == \A i \in Slots, line \in Lines : SF_vars(PassAt(i, line))

\* The simulator is one sequential program.
FairBasic == BasicSpec /\ WF_vars(BasicNext) /\ BranchesPass
-----------------------------------------------------------------------------
(* Properties *)

\* pager-basic.c:1 "only allows one process at a time": never do two processes
\* hold frames.
OneProcess == \A x, y \in Held : x[1] = y[1]

\* allblocked: every loaded process waits for a page that is free, and nothing
\* is under way.
AllBlocked == /\ Loaded # {}
              /\ \A k \in Loaded : pages[k][Current(k)] = FREE

\* Deadlock detection (simulator.c:606-632) never strikes: while a program fits
\* in memory, each call of the pager leaves some process able to run, or with
\* its page on the way.
NeverAllBlocked == [][phase = "pager" => ~ AllBlocked']_vars

\* Every process that was queued comes to its exit and the simulation ends.
SimulationEnds == <>(phase = "done")
=============================================================================
