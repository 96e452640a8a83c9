---------------------------- MODULE PagerProofs ----------------------------
(***************************************************************************)
(* Theorems about the two pagers, PagerBasic and PagerPredict, for every   *)
(* table size, queue, number of frames and transfer time.                  *)
(***************************************************************************)
EXTENDS PagerBasic, PagerPredict, PageSimProofs, WellFoundedInduction

\* Of any slots there is a first one.
LEMMA FirstSlot ==
    ASSUME NEW T, T \subseteq Slots, T # {}
    PROVE  \E i \in T : \A j \in T : ~ (j < i)
  <1>1. T \subseteq Nat
    BY DEF Slots
  <1>2. \E i \in T : \A j \in T : ~ (<<j, i>> \in OpToRel(<, Nat))
    BY <1>1, NatLessThanWellFounded, WFMin
  <1>3. PICK i \in T : \A j \in T : ~ (<<j, i>> \in OpToRel(<, Nat))
    BY <1>2
  <1>4. \A j \in T : j < i => <<j, i>> \in OpToRel(<, Nat)
    BY <1>1 DEF OpToRel
  <1> QED BY <1>3, <1>4

-----------------------------------------------------------------------------
(* PagerBasic *)

\* The basic pager never starts a pageout.
NothingLeaves == \A k \in Queue, page \in Pages : pages[k][page] = FREE \/ pages[k][page] >= 0

\* No process in a slot before i.
FirstActive(i) == Active(i) /\ \A j \in Slots : j < i => ~ Active(j)

\* Frames are held by the process in the first slot that has one.
FirstHolds == \A x \in Held : \E i \in Slots : FirstActive(i) /\ processes[i] = x[1]

\* The inductive invariant.  FirstHolds says why there is only one process: the
\* pager turns to a later slot only when it finds no frame for an earlier one,
\* and then there is none for the later one either.  It lasts because a slot
\* whose process ended stays empty only when the queue is empty (LoadedOnce).
BasicInv == PagingInv /\ NothingLeaves /\ FirstHolds

LEMMA BasicInit == Init => BasicInv
  <1> SUFFICES ASSUME Init PROVE BasicInv
    OBVIOUS
  <1>1. Held = {}
    BY DEF Init, Held, HasFrame
  <1>2. NothingLeaves
    BY DEF Init, NothingLeaves
  <1> QED BY <1>1, <1>2, InitPaging DEF BasicInv, FirstHolds

\* A process that runs is the one that holds the frames.
LEMMA RunnerFirst ==
    ASSUME BasicInv, NEW i \in Slots, Runs(i)
    PROVE  FirstActive(i)
  <1>1. processes[i] \in Queue /\ Active(i)
    BY DEF Runs, BasicInv, PagingInv, TypeOK, Active
  <1>2. Current(processes[i]) \in Pages
    BY <1>1, PageExists DEF BasicInv, PagingInv, LinesInRange, Current
  <1>3. <<processes[i], Current(processes[i])>> \in Held
    BY <1>1, <1>2, ConstantTypes DEF Runs, Resident, Held, HasFrame
  <1>4. PICK f \in Slots : FirstActive(f) /\ processes[f] = processes[i]
    BY <1>3 DEF BasicInv, FirstHolds
  <1>5. f = i
    BY <1>1, <1>4 DEF BasicInv, PagingInv, LoadedOnce, Active
  <1> QED BY <1>4, <1>5

\* Slots that have a process keep one, and empty ones stay empty, while the
\* table does not change.
LEMMA FirstSame ==
    ASSUME processes' = processes, NEW i \in Slots
    PROVE  FirstActive(i)' = FirstActive(i)
  BY DEF FirstActive, Active

\* In a step that takes no frame and leaves the table alone nothing changes hands.
LEMMA FrameKeeper ==
    ASSUME FirstHolds, processes' = processes, Held' \subseteq Held
    PROVE  FirstHolds'
  <1> SUFFICES ASSUME NEW x \in Held'
               PROVE  \E i \in Slots : FirstActive(i)' /\ processes'[i] = x[1]
    BY DEF FirstHolds
  <1>1. PICK i \in Slots : FirstActive(i) /\ processes[i] = x[1]
    BY DEF FirstHolds
  <1> QED BY <1>1, FirstSame

LEMMA BasicStep ==
    ASSUME BasicInv, NEW i \in Slots, ProcessStep(i)
    PROVE  BasicInv'
  <1>1. PagingInv'
    BY StepPaging DEF BasicInv
  <1>2. PagingInv /\ FirstHolds
    BY DEF BasicInv
  <1>3. CASE EmptySlot(i)
    <2>1. Held' = Held /\ pages' = pages
      BY <1>3 DEF EmptySlot, pageVars, Held, HasFrame
    <2>2. processes' = processes
      <3>1. processes[i] = NULL /\ ~ (queueend < QUEUESIZE)
        BY <1>2, <1>3 DEF EmptySlot, PagingInv, LoadedOnce
      <3>2. processes' = [processes EXCEPT ![i] = NULL]
        BY <1>3, <3>1 DEF EmptySlot, Reload
      <3> QED BY <1>2, <3>1, <3>2 DEF PagingInv, TypeOK
    <2> QED BY <1>1, <2>1, <2>2, FrameKeeper DEF BasicInv, NothingLeaves
  <1>4. CASE Unload(i)
    <2>1. FirstActive(i)
      BY <1>4, RunnerFirst DEF Unload
    <2>2. /\ processes[i] \in Queue
          /\ pages' = [pages EXCEPT ![processes[i]] = [page \in Pages |-> FREE]]
          /\ pages \in [Queue -> [Pages -> Ages]]
      BY <1>2, <1>4 DEF Unload, Runs, PagingInv, TypeOK
    <2>3. \A x \in Held : x[1] = processes[i]
      <3> SUFFICES ASSUME NEW x \in Held PROVE x[1] = processes[i]
        OBVIOUS
      <3>1. PICK f \in Slots : FirstActive(f) /\ processes[f] = x[1]
        BY <1>2 DEF FirstHolds
      <3>2. f = i
        BY <2>1, <3>1 DEF FirstActive, Slots
      <3> QED BY <3>1, <3>2
    <2>4. Held' = {}
      <3>1. \A x \in Queue \X Pages : x \notin Held'
        BY <2>2, <2>3 DEF Held, HasFrame
      <3> QED BY <3>1 DEF Held
    <2>5. NothingLeaves'
      BY <2>2, ConstantTypes DEF BasicInv, NothingLeaves
    <2> QED BY <1>1, <2>4, <2>5 DEF BasicInv, FirstHolds
  <1>5. CASE Blocked(i) \/ TakeBranch(i) \/ PassBranch(i) \/ NextLine(i)
    <2>1. processes' = processes /\ pages' = pages
      BY <1>5 DEF Blocked, TakeBranch, PassBranch, NextLine, MoveTo, procVars, pageVars
    <2>2. Held' = Held
      BY <2>1 DEF Held, HasFrame
    <2> QED BY <1>1, <2>1, <2>2, FrameKeeper DEF BasicInv, NothingLeaves
  <1> QED BY <1>3, <1>4, <1>5 DEF ProcessStep

LEMMA BasicAge == BasicInv /\ Age => BasicInv'
  <1> SUFFICES ASSUME BasicInv, Age PROVE BasicInv'
    OBVIOUS
  <1>1. PagingInv'
    BY AgePaging DEF BasicInv
  <1>2. processes' = processes
    BY DEF Age, procVars
  <1>3. \A k \in Queue, page \in Pages :
           pages'[k][page] = Aged(pages[k][page]) \/ pages'[k][page] = pages[k][page]
    BY DEF Age
  <1>4. NothingLeaves'
    <2> SUFFICES ASSUME NEW k \in Queue, NEW page \in Pages
                 PROVE  pages'[k][page] = FREE \/ pages'[k][page] >= 0
      BY DEF NothingLeaves
    <2>1. pages[k][page] \in Ages /\ (pages[k][page] = FREE \/ pages[k][page] >= 0)
      BY DEF BasicInv, NothingLeaves, PagingInv, TypeOK
    <2> QED BY <1>3, <2>1, ConstantTypes DEF Aged, Ages
  <1>5. Held' \subseteq Held
    <2> SUFFICES ASSUME NEW x \in Held' PROVE x \in Held
      OBVIOUS
    <2>1. x \in Queue \X Pages /\ x[1] \in Queue /\ x[2] \in Pages
      BY DEF Held
    <2>2. Aged(FREE) = FREE
      BY ConstantTypes DEF Aged
    <2> QED BY <1>3, <2>1, <2>2 DEF Held, HasFrame
  <1> QED BY <1>1, <1>2, <1>4, <1>5, FrameKeeper DEF BasicInv

\* A process in an earlier slot would have found the frame that is free.
LEMMA AskerFirst ==
    ASSUME BasicInv, NEW i \in Slots, FirstStop(i), pagesavail # 0
    PROVE  FirstActive(i)
  <1>1. Active(i)
    BY DEF FirstStop, StopsAt, Active
  <1>2. ASSUME NEW j \in Slots, j < i, Active(j) PROVE FALSE
    <2> DEFINE k   == processes[j]
               age == pages[k][Current(k)]
    <2>1. k \in Queue /\ Current(k) \in Pages
      <3>1. k \in Queue
        BY <1>2 DEF BasicInv, PagingInv, TypeOK, Active
      <3> QED BY <3>1, PageExists DEF BasicInv, PagingInv, LinesInRange, Current
    <2>2. Valid(j, Current(k))
      BY <1>2, <2>1 DEF Valid, Active
    <2>3. age = FREE \/ age >= 0
      BY <2>1 DEF BasicInv, NothingLeaves
    <2>4. PageinReturns(j, Current(k))
      BY <2>2, <2>3, ConstantTypes DEF PageinReturns, PageinStarts
    <2>5. StopsAt(j)
      BY <1>2, <2>4 DEF StopsAt, Active
    <2> QED BY <1>2, <2>5 DEF FirstStop
  <1> QED BY <1>1, <1>2 DEF FirstActive

LEMMA BasicPageit == BasicInv /\ Pageit => BasicInv'
  <1> SUFFICES ASSUME BasicInv, Pageit PROVE BasicInv'
    OBVIOUS
  <1>1. processes' = processes
    BY DEF Pageit, procVars
  <1>2. CASE UNCHANGED pageVars
    <2>1. Held' = Held /\ Loaded' = Loaded
      BY <1>1, <1>2 DEF pageVars, Held, HasFrame, Loaded
    <2>2. TypeOK' /\ DoneEmpty'
      BY <1>2 DEF BasicInv, PagingInv, TypeOK, DoneEmpty, Pageit, procVars, pageVars
    <2>3. PagingInv'
      BY <1>2, <2>1, <2>2
         DEF Pageit, procVars, pageVars, BasicInv, PagingInv, FramesConserved, NoFrameLeaked,
             LoadedOnce, LinesInRange, InProgram, Returned, AtExit
    <2>4. NothingLeaves'
      BY <1>2 DEF BasicInv, NothingLeaves, pageVars
    <2> QED BY <1>1, <2>1, <2>3, <2>4, FrameKeeper DEF BasicInv
  <1>3. ASSUME NEW i \in Slots, FirstStop(i), StartPagein(i, Current(processes[i]))
        PROVE  BasicInv'
    <2> DEFINE k    == processes[i]
               page == Current(k)
    <2>1. page \in Pages /\ pagesavail # 0
      BY <1>3 DEF StartPagein, PageinStarts, Valid
    <2>2. PagingInv'
      BY <1>3, <2>1, PageinPaging DEF BasicInv, Pageit
    <2>3. /\ pages' = [pages EXCEPT ![k][page] = PAGEWAIT]
          /\ pages \in [Queue -> [Pages -> Ages]]
      BY <1>3 DEF StartPagein, BasicInv, PagingInv, TypeOK
    <2>4. NothingLeaves'
      BY <2>3, ConstantTypes DEF BasicInv, NothingLeaves
    <2>5. \A x \in Held' : x \in Held \/ x[1] = k
      BY <2>3 DEF Held, HasFrame
    <2>6. FirstActive(i)
      BY <1>3, <2>1, AskerFirst
    <2>7. FirstHolds'
      <3> SUFFICES ASSUME NEW x \in Held'
                   PROVE  \E f \in Slots : FirstActive(f)' /\ processes'[f] = x[1]
        BY DEF FirstHolds
      <3>1. PICK f \in Slots : FirstActive(f) /\ processes[f] = x[1]
        BY <2>5, <2>6 DEF BasicInv, FirstHolds
      <3> QED BY <1>1, <3>1, FirstSame
    <2> QED BY <2>2, <2>4, <2>7 DEF BasicInv
  <1> QED BY <1>2, <1>3 DEF Pageit

LEMMA BasicNextHolds == BasicInv /\ [BasicNext]_vars => BasicInv'
  <1> SUFFICES ASSUME BasicInv, [BasicNext]_vars PROVE BasicInv'
    OBVIOUS
  <1>1. CASE \E i \in Slots : ProcessStep(i)
    BY <1>1, BasicStep
  <1>2. CASE AllDone
    <2>1. PagingInv'
      BY <1>2, AllDonePaging DEF BasicInv
    <2>2. processes' = processes /\ pages' = pages
      BY <1>2 DEF AllDone, procVars, pageVars
    <2>3. Held' = Held
      BY <2>2 DEF Held, HasFrame
    <2> QED BY <2>1, <2>2, <2>3, FrameKeeper DEF BasicInv, NothingLeaves
  <1>3. CASE Age
    BY <1>3, BasicAge
  <1>4. CASE Pageit
    BY <1>4, BasicPageit
  <1>5. CASE UNCHANGED vars
    <2>1. PagingInv'
      BY <1>5, NextPaging DEF BasicInv
    <2>2. processes' = processes /\ pages' = pages
      BY <1>5 DEF vars, procVars, pageVars
    <2>3. Held' = Held
      BY <2>2 DEF Held, HasFrame
    <2> QED BY <2>1, <2>2, <2>3, FrameKeeper DEF BasicInv, NothingLeaves
  <1> QED BY <1>1, <1>2, <1>3, <1>4, <1>5 DEF BasicNext, Simulate

\* What the basic pager keeps true, beside what any pager does.
THEOREM BasicInvariant == BasicSpec => []BasicInv
  <1> QED BY BasicInit, BasicNextHolds, PTL DEF BasicSpec

\* Two processes never hold frames at the same time (pager-basic.c:1), although
\* the pager looks at all of them.
THEOREM OneAtATime == BasicSpec => []OneProcess
  <1>1. BasicInv => OneProcess
    <2> SUFFICES ASSUME BasicInv, NEW x \in Held, NEW y \in Held PROVE x[1] = y[1]
      BY DEF OneProcess
    <2>1. PICK i \in Slots : FirstActive(i) /\ processes[i] = x[1]
      BY DEF BasicInv, FirstHolds
    <2>2. PICK j \in Slots : FirstActive(j) /\ processes[j] = y[1]
      BY DEF BasicInv, FirstHolds
    <2>3. i = j
      BY <2>1, <2>2 DEF FirstActive, Slots
    <2> QED BY <2>1, <2>2, <2>3
  <1> QED BY <1>1, BasicInvariant, PTL

\* While the page a process waits for is out, its other pages can not have
\* taken all the frames.
LEMMA FrameLeft ==
    ASSUME PagingInv, MAXPROCPAGES <= PHYSICALPAGES,
           NEW k \in Queue, NEW page \in Pages, pages[k][page] = FREE,
           \A x \in Held : x[1] = k
    PROVE  pagesavail # 0
  <1> DEFINE others == {k} \X (Pages \ {page})
  <1>1. IsFiniteSet(Pages) /\ Cardinality(Pages) = MAXPROCPAGES
    <2>1. 0 \in Int /\ MAXPROCPAGES - 1 \in Int /\ MAXPROCPAGES \in Nat \ {0}
      BY SizeAssumption
    <2>2. IsFiniteSet(0 .. MAXPROCPAGES - 1)
      BY <2>1, FS_Interval
    <2>3. Cardinality(0 .. MAXPROCPAGES - 1)
            = IF 0 > MAXPROCPAGES - 1 THEN 0 ELSE MAXPROCPAGES - 1 - 0 + 1
      BY <2>1, FS_Interval
    <2> QED BY <2>1, <2>2, <2>3 DEF Pages
  <1>2. /\ IsFiniteSet(Pages \ {page})
        /\ Cardinality(Pages \ {page}) = MAXPROCPAGES - 1
    BY <1>1, FS_RemoveElement
  <1>3. IsFiniteSet({k}) /\ Cardinality({k}) = 1
    BY FS_Singleton
  <1>4. /\ IsFiniteSet(others)
        /\ Cardinality(others) = Cardinality({k}) * Cardinality(Pages \ {page})
    BY <1>2, <1>3, FS_Product
  <1>5. Cardinality(others) = MAXPROCPAGES - 1
    BY <1>2, <1>3, <1>4, SizeAssumption
  <1>6. Held \subseteq others
    <2>1. \A x \in Queue \X Pages : x \in Held => x[1] = k /\ x[2] # page
      BY DEF Held, HasFrame
    <2>2. \A x \in Queue \X Pages : x[1] = k /\ x[2] # page => x \in others
      OBVIOUS
    <2> QED BY <2>1, <2>2 DEF Held
  <1>7. Cardinality(Held) <= Cardinality(others)
    BY <1>4, <1>6, FS_Subset
  <1>8. pagesavail + Cardinality(Held) = PHYSICALPAGES
    BY DEF PagingInv, FramesConserved
  <1> QED BY <1>5, <1>7, <1>8, FiniteHeld, SizeAssumption

\* What a call of the basic pager leaves behind: the process that comes first
\* has its page, or the page is on its way.
LEMMA PageitServes ==
    ASSUME BasicInv, Pageit, MAXPROCPAGES <= PHYSICALPAGES,
           NEW f \in Slots, FirstActive(f)
    PROVE  pages'[processes[f]][Current(processes[f])] # FREE
  <1> DEFINE k    == processes[f]
             page == Current(k)
  <1>1. k \in Queue /\ page \in Pages
    <2>1. k \in Queue
      BY DEF BasicInv, PagingInv, TypeOK, FirstActive, Active
    <2> QED BY <2>1, PageExists DEF BasicInv, PagingInv, LinesInRange, Current
  <1>2. pages \in [Queue -> [Pages -> Ages]]
    BY DEF BasicInv, PagingInv, TypeOK
  <1>3. CASE pages[k][page] # FREE
    <2>1. CASE UNCHANGED pageVars
      BY <1>3, <2>1 DEF pageVars
    <2>2. CASE \E i \in Slots : StartPagein(i, Current(processes[i]))
      BY <1>1, <1>2, <1>3, <2>2, ConstantTypes DEF StartPagein
    <2> QED BY <2>1, <2>2 DEF Pageit
  <1>4. CASE pages[k][page] = FREE
    <2>1. \A x \in Held : x[1] = k
      <3> SUFFICES ASSUME NEW x \in Held PROVE x[1] = k
        OBVIOUS
      <3>1. PICK i \in Slots : FirstActive(i) /\ processes[i] = x[1]
        BY DEF BasicInv, FirstHolds
      <3>2. i = f
        BY <3>1 DEF FirstActive, Slots
      <3> QED BY <3>1, <3>2
    <2>2. pagesavail # 0
      BY <1>1, <1>4, <2>1, FrameLeft DEF BasicInv
    <2>3. PageinStarts(f, page)
      BY <1>1, <1>4, <2>2, ConstantTypes DEF PageinStarts, Valid, FirstActive, Active
    <2>4. FirstStop(f)
      BY <2>3 DEF FirstStop, StopsAt, PageinReturns, PageinStarts, FirstActive, Active
    <2>5. PICK i \in Slots : FirstStop(i) /\ StartPagein(i, Current(processes[i]))
      BY <2>3, <2>4 DEF Pageit
    <2>6. i = f
      BY <2>4, <2>5 DEF FirstStop, Slots
    <2> QED BY <1>1, <1>2, <2>5, <2>6, ConstantTypes DEF StartPagein
  <1> QED BY <1>3, <1>4

\* Where every program fits into memory, deadlock detection (simulator.c:606)
\* has nothing to detect: after a call of the basic pager the process that comes
\* first can run, or its page is on its way.
THEOREM BasicNeverBlocks ==
    ASSUME MAXPROCPAGES <= PHYSICALPAGES
    PROVE  BasicSpec => NeverAllBlocked
  <1>1. BasicInv /\ [BasicNext]_vars => [phase = "pager" => ~ AllBlocked']_vars
    <2> SUFFICES ASSUME BasicInv, BasicNext, phase = "pager", AllBlocked' PROVE FALSE
      OBVIOUS
    <2>1. Pageit
      BY DEF BasicNext, Simulate, ProcessStep, EmptySlot, Blocked, Unload, TakeBranch,
             PassBranch, NextLine, Runs, StepPhase, AllDone, Age
    <2>2. processes' = processes /\ pc' = pc
      BY <2>1 DEF Pageit, procVars
    <2>3. {i \in Slots : Active(i)} # {}
      BY <2>2, ConstantTypes DEF AllBlocked, Loaded, Active
    <2>4. PICK f \in {i \in Slots : Active(i)} : \A j \in {i \in Slots : Active(i)} : ~ (j < f)
      BY <2>3, FirstSlot
    <2>5. f \in Slots /\ FirstActive(f)
      BY <2>4 DEF FirstActive
    <2>6. pages'[processes[f]][Current(processes[f])] # FREE
      BY <2>1, <2>5, PageitServes
    <2>7. processes[f] \in Loaded'
      BY <2>2, <2>5 DEF Loaded, FirstActive, Active, BasicInv, PagingInv, TypeOK
    <2> QED BY <2>2, <2>6, <2>7 DEF AllBlocked, Current
  <1> QED BY <1>1, BasicInvariant, PTL DEF BasicSpec, NeverAllBlocked

-----------------------------------------------------------------------------
(* PagerPredict is one of the pagers PageSim allows *)

\* A branch that its table decides is a branch that goes either way.
LEMMA EngineImplements ==
    ASSUME NEW i \in Slots, EngineStep(i)
    PROVE  ProcessStep(i)
  <1>1. CASE EngineBranch(i)
    <2> DEFINE k == processes[i]
    <2>1. PICK b \in BranchAt(k) :
             MoveTo(i, InRange(IF contexts[<<k, b>>].bvalue THEN b.whereto ELSE pc[k] + 1,
                               Program(k).size - 1))
      BY <1>1 DEF EngineBranch
    <2>2. Runs(i) /\ ~ AtExit(k)
      BY <1>1 DEF EngineBranch
    <2>3. TakeBranch(i) \/ PassBranch(i)
      BY <2>1, <2>2 DEF TakeBranch, PassBranch
    <2> QED BY <2>3 DEF ProcessStep
  <1>2. CASE EmptySlot(i) \/ Blocked(i) \/ Unload(i) \/ NextLine(i)
    BY <1>2 DEF ProcessStep
  <1> QED BY <1>1, <1>2 DEF EngineStep

\* pagein and pageout as the pager calls them.
LEMMA FetchImplements ==
    ASSUME NEW i \in Slots, NEW page, PageinReturns(i, page), Fetch(i, page),
           phase = "pager", UNCHANGED <<procVars, loopVars>>
    PROVE  [PagerCall]_vars
  BY DEF Fetch, PagerCall, PageinReturns, Valid, vars

LEMMA FetchFromImplements ==
    ASSUME NEW i \in Slots, NEW asked, FetchFrom(i, asked),
           phase = "pager", UNCHANGED <<procVars, loopVars>>
    PROVE  [PagerCall]_vars
  <1>1. CASE \E page \in asked : PageinReturns(i, page) /\ Fetch(i, page)
    BY <1>1, FetchImplements
  <1>2. CASE UNCHANGED pageVars
    BY <1>2 DEF vars
  <1> QED BY <1>1, <1>2 DEF FetchFrom

LEMMA EvictImplements ==
    ASSUME NEW i \in Slots, NEW page \in Pages, Evict(i, page),
           phase = "pager", UNCHANGED <<procVars, loopVars>>
    PROVE  [PagerCall]_vars
  BY DEF Evict, PagerCall, vars

LEMMA PredictImplements ==
    ASSUME [PredictNext]_predictVars
    PROVE  [Next]_vars
  <1>1. CASE EngineSimulate
    BY <1>1, EngineImplements DEF EngineSimulate, Next, Simulate
  <1>2. CASE UpdateWaits \/ EvictEnds \/ UNCHANGED predictVars
    BY <1>2 DEF UpdateWaits, EvictEnds, predictVars, allVars
  <1>3. CASE EvictGlobal
    <2>1. PICK i \in Slots, page \in Pages : Evict(i, page)
      BY <1>3 DEF EvictGlobal
    <2>2. phase = "pager" /\ UNCHANGED <<procVars, loopVars>>
      BY <1>3 DEF EvictGlobal, At
    <2> QED BY <2>1, <2>2, EvictImplements DEF Next
  <1>4. ASSUME NEW i \in Slots, Turn(i) PROVE [Next]_vars
    <2>1. CASE Learn(i)
      BY <2>1 DEF Learn, allVars
    <2>2. CASE Inactive(i)
      BY <2>2 DEF Inactive, allVars
    <2>3. CASE Window(i)
      BY <2>3, FetchFromImplements DEF Window, At, Next
    <2>4. CASE FetchCurrent(i)
      <3>1. phase = "pager" /\ UNCHANGED <<procVars, loopVars>>
        BY <2>4 DEF FetchCurrent, At
      <3>2. CASE UNCHANGED pageVars
        BY <3>1, <3>2 DEF vars
      <3>3. CASE PageinReturns(i, CurrentPage(i)) /\ Fetch(i, CurrentPage(i))
        BY <3>1, <3>3, FetchImplements DEF Next
      <3> QED BY <2>4, <3>2, <3>3 DEF FetchCurrent
    <2>5. CASE EvictLocal(i)
      <3>1. phase = "pager" /\ UNCHANGED <<procVars, loopVars>>
        BY <2>5 DEF EvictLocal, At
      <3>2. PICK page \in Pages : Evict(i, page)
        BY <2>5 DEF EvictLocal
      <3> QED BY <3>1, <3>2, EvictImplements DEF Next
    <2>6. CASE NothingToEvict(i)
      BY <2>6 DEF NothingToEvict, vars
    <2>7. CASE Predict(i)
      <3>1. phase = "pager" /\ UNCHANGED <<procVars, loopVars>>
        BY <2>7 DEF Predict, At
      <3>2. UNCHANGED pageVars \/ \E asked : FetchFrom(i, asked)
        BY <2>7 DEF Predict
      <3>3. CASE UNCHANGED pageVars
        BY <3>1, <3>3 DEF vars
      <3>4. CASE \E asked : FetchFrom(i, asked)
        BY <3>1, <3>4, FetchFromImplements DEF Next
      <3> QED BY <3>2, <3>3, <3>4
    <2> QED BY <1>4, <2>1, <2>2, <2>3, <2>4, <2>5, <2>6, <2>7 DEF Turn
  <1>5. CASE Return
    BY <1>5 DEF Return, Next
  <1> QED BY <1>1, <1>2, <1>3, <1>4, <1>5 DEF PredictNext

\* The simulator with the predictive pager and the branch engine behaves like the
\* simulator with some pager and branches that go either way: whatever holds for
\* PageSim holds for it.
THEOREM PredictRefines == PredictSpec => ImplementsPageSim
  <1>1. PredictInit => Init
    BY DEF PredictInit, EngineInit
  <1> QED BY <1>1, PredictImplements, PTL DEF PredictSpec, ImplementsPageSim, Spec

-----------------------------------------------------------------------------
(* What the predictive pager remembers *)

\* The transitions into the current page of slot i have been counted this time.
Learned(i) == \/ stage \in {"window", "current", "predict", "return"}
              \/ stage = "learn" /\ i < turn

\* One transition at most is counted per slot and call.
CountTypes ==
    /\ pg_last \in [Slots -> Pages \cup {-1}]
    /\ transitions \in [Slots -> [Pages -> [Pages -> 0 .. tick]]]
    /\ \A i \in Slots, page \in Pages : transitions[i][page][page] = 0
    /\ \A i \in Slots, from, to \in Pages : ~ Learned(i) => transitions[i][from][to] < tick

TimeTypes ==
    /\ tick \in Nat \ {0}
    /\ timestamps \in [Slots -> [Pages -> 0 .. tick]]

StageTypes ==
    /\ q \in [Slots -> [Pages -> BOOLEAN]]
    /\ need_free \in Nat
    /\ stage \in {"wait", "evict", "learn", "window", "current", "predict", "return"}
    /\ turn \in Slots
    /\ phase # "pager" => stage = "wait"

Waits(t) == [op : {"none", "in", "out"}, page_end : -1 .. t + PAGEWAIT]

WaitTypes == proc_wait \in [Slots -> [Pages -> Waits(tick)]]

\* The record of one page agrees with the simulator.
Recorded(i, page) ==
    LET age  == pages[processes[i]][page]
        wait == proc_wait[i][page]
    IN  /\ Active(i) /\ age > 0 => wait.op = "in" /\ wait.page_end >= Now + age
        /\ Active(i) /\ age < 0 /\ age # FREE =>
              wait.op = "out" /\ wait.page_end = Now + age - FREE

Records == \A i \in Slots, page \in Pages : Recorded(i, page)

\* A page that may be chosen as a victim is in memory.
Victims == \A i \in Slots, page \in Pages :
              Evictable(i, page) => Active(i) /\ pages[processes[i]][page] = 0

\* The inductive invariant.  Victims are good at every stage but the first, which
\* makes the copy; that needs Records, because the copy is not brought up to date
\* and only the record tells that a page has been turned out since.  Records in
\* turn need PagingInv: a page belongs to one slot, and a process that is loaded
\* into a slot has no page in transit that the record does not know of.
PredictInv == /\ PagingInv /\ CountTypes /\ TimeTypes /\ StageTypes /\ WaitTypes
              /\ Records
              /\ stage # "wait" => Victims

LEMMA PredictTypes ==
    /\ PredictInv => PredictTypeOK
    /\ PredictInv => TracksTransfers
  <1>1. ASSUME PredictInv PROVE PredictTypeOK
    BY <1>1 DEF PredictInv, PagingInv, CountTypes, TimeTypes, StageTypes, WaitTypes, Waits, PredictTypeOK
  <1>2. ASSUME PredictInv PROVE TracksTransfers
    BY <1>2 DEF PredictInv, Records, Recorded, Victims, TracksTransfers
  <1> QED BY <1>1, <1>2

LEMMA PredictConstants ==
    /\ FREEBUF \in Nat /\ DECAY_INTERVAL \in Nat \ {0}
    /\ -1 \notin Pages /\ Pages \subseteq Nat
  BY PredictAssumption, SizeAssumption DEF Pages

LEMMA PredictStart == PredictInit => PredictInv
  <1> SUFFICES ASSUME PredictInit PROVE PredictInv
    OBVIOUS
  <1> USE DEF PredictInit
  <1>1. PagingInv /\ Init
    BY InitPaging DEF EngineInit
  <1>2. 0 \in Slots /\ 0 \in Pages /\ phase = "step"
    BY <1>1, ConstantTypes, SizeAssumption DEF Slots, Pages, Init
  <1>3. CountTypes /\ TimeTypes
    BY <1>2 DEF CountTypes, TimeTypes
  <1>4. StageTypes
    BY <1>2 DEF StageTypes
  <1>5. WaitTypes
    BY ConstantTypes DEF WaitTypes, Waits, NoOp
  <1>6. Records
    <2> SUFFICES ASSUME NEW i \in Slots, NEW page \in Pages, Active(i)
                 PROVE  pages[processes[i]][page] = FREE
      BY ConstantTypes DEF Records, Recorded
    <2>1. processes[i] \in Queue
      BY <1>1 DEF Active, PagingInv, TypeOK
    <2> QED BY <1>1, <2>1 DEF Init
  <1> QED BY <1>1, <1>3, <1>4, <1>5, <1>6 DEF PredictInv

\* Processes of different slots are different.
LEMMA SlotsApart ==
    ASSUME PagingInv, NEW i \in Slots, Active(i)
    PROVE  /\ processes[i] \in Queue
           /\ \A j \in Slots : processes[j] = processes[i] => j = i
           /\ \A page \in Pages : pages[processes[i]][page] \in Ages
  BY DEF PagingInv, TypeOK, LoadedOnce, Active

\* One entry of the record is written.
LEMMA EntryWritten ==
    ASSUME WaitTypes, TimeTypes, NEW i \in Slots, NEW page \in Pages,
           NEW op \in {"in", "out"}, SetPending(i, page, op), tick' = tick
    PROVE  /\ WaitTypes'
           /\ \A j \in Slots, p \in Pages :
                 proc_wait'[j][p] = IF j = i /\ p = page
                                    THEN [op |-> op, page_end |-> tick + PAGEWAIT]
                                    ELSE proc_wait[j][p]
  <1> DEFINE entry == [op |-> op, page_end |-> tick + PAGEWAIT]
  <1>1. entry \in Waits(tick)
    BY ConstantTypes DEF Waits, TimeTypes
  <1>2. proc_wait' = [proc_wait EXCEPT ![i][page] = entry]
    BY DEF SetPending
  <1> HIDE DEF entry
  <1>3. proc_wait' \in [Slots -> [Pages -> Waits(tick)]]
    BY <1>1, <1>2 DEF WaitTypes
  <1>4. \A j \in Slots, p \in Pages :
           proc_wait'[j][p] = IF j = i /\ p = page THEN entry ELSE proc_wait[j][p]
    BY <1>2 DEF WaitTypes
  <1> QED BY <1>3, <1>4 DEF WaitTypes, entry

\* One page of one slot changes its age.
LEMMA PageChanged ==
    ASSUME PagingInv, NEW i \in Slots, NEW page \in Pages, Active(i), NEW age,
           pages' = [pages EXCEPT ![processes[i]][page] = age]
    PROVE  \A j \in Slots, p \in Pages : Active(j) =>
              pages'[processes[j]][p] = IF j = i /\ p = page THEN age
                                        ELSE pages[processes[j]][p]
  BY SlotsApart DEF PagingInv, TypeOK

\* A page that is asked for is recorded as coming, and expected when it will be
\* there or later.
LEMMA FetchRecords ==
    ASSUME PredictInv, phase = "pager", stage # "wait", NEW i \in Slots, NEW page,
           PageinReturns(i, page), Fetch(i, page), UNCHANGED <<processes, phase, tick, q>>
    PROVE  WaitTypes' /\ Records' /\ Victims'
  <1>1. page \in Pages /\ Active(i)
    BY DEF PageinReturns, Valid, Active
  <1>2. PagingInv /\ TimeTypes /\ WaitTypes /\ Records /\ Victims
    BY DEF PredictInv
  <1>3. /\ WaitTypes'
        /\ \A j \in Slots, p \in Pages :
              proc_wait'[j][p] = IF j = i /\ p = page
                                 THEN [op |-> "in", page_end |-> tick + PAGEWAIT]
                                 ELSE proc_wait[j][p]
    BY <1>1, <1>2, EntryWritten DEF Fetch
  <1>4. \A j \in Slots, p \in Pages : Active(j) =>
           pages'[processes[j]][p] = IF j = i /\ p = page /\ PageinStarts(i, page) THEN PAGEWAIT
                                     ELSE pages[processes[j]][p]
    <2>1. CASE PageinStarts(i, page)
      BY <1>1, <1>2, <2>1, PageChanged DEF Fetch, StartPagein
    <2>2. CASE ~ PageinStarts(i, page)
      BY <2>2 DEF Fetch, pageVars
    <2> QED BY <2>1, <2>2
  <1>5. ~ PageinStarts(i, page) => pages[processes[i]][page] >= 0
    BY DEF PageinReturns
  <1>6. pages[processes[i]][page] \in Ages /\ tick \in Nat
    BY <1>1, <1>2, SlotsApart DEF TimeTypes
  <1>7. Records'
    <2> SUFFICES ASSUME NEW j \in Slots, NEW p \in Pages PROVE Recorded(j, p)'
      BY DEF Records
    <2>1. CASE j = i /\ p = page
      BY <1>3, <1>4, <1>5, <1>6, <2>1, ConstantTypes DEF Recorded, Active, Now, Ages
    <2>2. CASE ~ (j = i /\ p = page)
      BY <1>2, <1>3, <1>4, <2>2 DEF Records, Recorded, Active, Now
    <2> QED BY <2>1, <2>2
  <1>8. Victims'
    BY <1>2, <1>3, <1>4 DEF Victims, Evictable, Active
  <1> QED BY <1>3, <1>7, <1>8

\* A victim is in memory, so that its pageout starts and the record says when it
\* will be out.
LEMMA EvictRecords ==
    ASSUME PredictInv, phase = "pager", stage # "wait", NEW i \in Slots, NEW page \in Pages,
           Evictable(i, page), Evict(i, page), UNCHANGED <<processes, phase, tick, q>>
    PROVE  WaitTypes' /\ Records' /\ Victims'
  <1>1. PagingInv /\ TimeTypes /\ WaitTypes /\ Records /\ Victims
    BY DEF PredictInv
  <1>2. Active(i) /\ pages[processes[i]][page] = 0
    BY <1>1 DEF Victims
  <1>3. /\ WaitTypes'
        /\ \A j \in Slots, p \in Pages :
              proc_wait'[j][p] = IF j = i /\ p = page
                                 THEN [op |-> "out", page_end |-> tick + PAGEWAIT]
                                 ELSE proc_wait[j][p]
    BY <1>1, EntryWritten DEF Evict
  <1>4. pages' = [pages EXCEPT ![processes[i]][page] = -1]
    BY <1>2 DEF Evict, PageoutStarts, StartPageout, Valid, Resident, Active
  <1>5. \A j \in Slots, p \in Pages : Active(j) =>
           pages'[processes[j]][p] = IF j = i /\ p = page THEN -1 ELSE pages[processes[j]][p]
    BY <1>1, <1>2, <1>4, SlotsApart DEF PagingInv, TypeOK
  <1>6. Records'
    <2> SUFFICES ASSUME NEW j \in Slots, NEW p \in Pages PROVE Recorded(j, p)'
      BY DEF Records
    <2>1. CASE j = i /\ p = page
      <3>1. /\ proc_wait'[j][p].op = "out" /\ proc_wait'[j][p].page_end = tick + PAGEWAIT
            /\ Active(j) => pages'[processes[j]][p] = -1
        BY <1>3, <1>5, <2>1
      <3>2. processes' = processes /\ Now' = tick /\ tick \in Nat
        BY <1>1 DEF Now, TimeTypes
      <3>3. tick + PAGEWAIT = tick + (-1) - FREE
        BY <3>2, ConstantTypes
      <3> QED BY <3>1, <3>2, <3>3 DEF Recorded, Active
    <2>2. CASE ~ (j = i /\ p = page)
      BY <1>1, <1>3, <1>5, <2>2 DEF Records, Recorded, Active, Now
    <2> QED BY <2>1, <2>2
  <1>7. Victims'
    BY <1>1, <1>3, <1>5 DEF Victims, Evictable, Active
  <1> QED BY <1>3, <1>6, <1>7

\* A process that is loaded has no pages; the others keep theirs.
LEMMA StepPages ==
    ASSUME PagingInv, NEW i \in Slots, ProcessStep(i), NEW j \in Slots, processes'[j] # NULL,
           NEW page \in Pages
    PROVE  \/ pages'[processes'[j]][page] = FREE
           \/ /\ processes'[j] = processes[j]
              /\ pages'[processes[j]][page] = pages[processes[j]][page]
  <1>1. /\ processes \in [Slots -> Queue \cup {NULL}]
        /\ pages \in [Queue -> [Pages -> Ages]]
        /\ \A k \in Queue : k \notin Loaded => pages[k][page] = FREE
    <2>1. ASSUME NEW k \in Queue, k \notin Loaded PROVE pages[k][page] = FREE
      <3>1. <<k, page>> \in Queue \X Pages /\ <<k, page>> \notin Held
        BY <2>1 DEF PagingInv, NoFrameLeaked
      <3> QED BY <3>1 DEF Held, HasFrame
    <2> QED BY <2>1 DEF PagingInv, TypeOK
  <1>2. queueend < QUEUESIZE => queueend \in Queue /\ queueend \notin Loaded
    BY ConstantTypes DEF PagingInv, TypeOK, LoadedOnce, Queue
  <1>3. Reload(i) => \/ processes'[j] = processes[j]
                     \/ j = i /\ processes'[j] = queueend /\ queueend < QUEUESIZE
    BY <1>1 DEF Reload
  <1>4. CASE EmptySlot(i)
    <2>1. pages' = pages /\ Reload(i)
      BY <1>4 DEF EmptySlot, pageVars
    <2>2. CASE processes'[j] = processes[j]
      BY <2>1, <2>2
    <2>3. CASE processes'[j] # processes[j]
      BY <1>1, <1>2, <1>3, <2>1, <2>3
    <2> QED BY <2>2, <2>3
  <1>5. CASE Unload(i)
    <2> DEFINE k == processes[i]
    <2>1. k \in Queue /\ k \in Loaded /\ Reload(i)
      BY <1>1, <1>5 DEF Unload, Runs, Loaded
    <2>2. pages' = [pages EXCEPT ![k] = [p \in Pages |-> FREE]]
      BY <1>5 DEF Unload
    <2>3. \A l \in Queue : pages'[l][page] = IF l = k THEN FREE ELSE pages[l][page]
      BY <1>1, <2>1, <2>2
    <2>4. processes'[j] \in Queue
      BY <1>1, <1>2, <1>3, <2>1
    <2> QED BY <1>1, <1>2, <1>3, <2>1, <2>3, <2>4
  <1>6. CASE Blocked(i) \/ TakeBranch(i) \/ PassBranch(i) \/ NextLine(i)
    BY <1>6 DEF Blocked, TakeBranch, PassBranch, NextLine, MoveTo, procVars, pageVars
  <1> QED BY <1>4, <1>5, <1>6 DEF ProcessStep

\* A record stays true while the simulator steps its processes ...
LEMMA StepRecords ==
    ASSUME PredictInv, NEW i \in Slots, ProcessStep(i), UNCHANGED pagerVars
    PROVE  Records' /\ phase # "pager" /\ phase' # "pager"
  <1>1. StepPhase(i) /\ Advance(i)
    BY DEF ProcessStep, EmptySlot, Blocked, Unload, TakeBranch, PassBranch, NextLine, Runs, MoveTo
  <1>2. phase = "step" /\ phase' \in {"step", "age"}
    BY <1>1 DEF StepPhase, Advance
  <1>3. Now' = Now
    BY <1>2 DEF Now, pagerVars
  <1>4. PagingInv /\ Records
    BY DEF PredictInv
  <1>5. Records'
    <2> SUFFICES ASSUME NEW j \in Slots, NEW page \in Pages PROVE Recorded(j, page)'
      BY DEF Records
    <2>1. CASE processes'[j] = NULL
      BY <2>1 DEF Recorded, Active
    <2>2. CASE processes'[j] # NULL
      <3>1. \/ pages'[processes'[j]][page] = FREE
            \/ /\ processes'[j] = processes[j]
               /\ pages'[processes[j]][page] = pages[processes[j]][page]
        BY <1>4, <2>2, StepPages
      <3>2. Recorded(j, page) /\ proc_wait' = proc_wait
        BY <1>4 DEF Records, pagerVars
      <3> QED BY <1>3, <2>2, <3>1, <3>2, ConstantTypes DEF Recorded, Active
    <2> QED BY <2>1, <2>2
  <1> QED BY <1>2, <1>5

\* ... and while it ages their pages: a tick is one tick for both.
LEMMA AgeRecords ==
    ASSUME PredictInv, Age, UNCHANGED pagerVars
    PROVE  Records' /\ phase # "pager"
  <1>1. /\ processes' = processes /\ phase = "age" /\ phase' = "pager"
        /\ tick' = tick /\ proc_wait' = proc_wait
    BY DEF Age, procVars, pagerVars
  <1>2. PagingInv /\ Records /\ TimeTypes
    BY DEF PredictInv
  <1>3. Now' = tick /\ Now = tick - 1 /\ tick \in Nat
    BY <1>1, <1>2 DEF Now, TimeTypes
  <1>4. Records'
    <2> SUFFICES ASSUME NEW j \in Slots, NEW page \in Pages, Active(j)
                 PROVE  Recorded(j, page)'
      BY <1>1 DEF Records, Recorded, Active
    <2> DEFINE age == pages[processes[j]][page]
    <2>1. processes[j] \in Queue /\ processes[j] \in Loaded /\ age \in Ages
      BY <1>2, SlotsApart DEF Loaded, Active
    <2>2. pages'[processes'[j]][page] = Aged(age)
      BY <1>1, <2>1 DEF Age
    <2>3. Recorded(j, page)
      BY <1>2 DEF Records
    <2>4. CASE age > 0
      <3>1. Aged(age) = age - 1
        BY <2>4 DEF Aged
      <3>2. proc_wait[j][page].op = "in" /\ proc_wait[j][page].page_end >= (tick - 1) + age
        BY <1>3, <2>3, <2>4 DEF Recorded
      <3>3. age - 1 >= 0 /\ (tick - 1) + age = tick + (age - 1)
        BY <1>3, <2>1, <2>4, ConstantTypes DEF Ages
      <3> DEFINE older == age - 1
      <3>4. pages'[processes'[j]][page] = older /\ older >= 0 /\ older \in Int
        BY <2>1, <2>2, <3>1, <3>3 DEF Ages
      <3>5. /\ proc_wait'[j][page].op = "in"
            /\ proc_wait'[j][page].page_end >= Now' + older
        BY <1>1, <1>3, <3>2, <3>3
      <3> HIDE DEF older
      <3> QED BY <3>4, <3>5 DEF Recorded
    <2>5. CASE age < 0 /\ age # FREE
      <3>1. age >= - PAGEWAIT /\ age \in Int
        BY <2>1, <2>5, ConstantTypes DEF Ages
      <3>2. Aged(age) = age - 1
        BY <2>5, <3>1, ConstantTypes DEF Aged
      <3>3. /\ proc_wait[j][page].op = "out"
            /\ proc_wait[j][page].page_end = (tick - 1) + age - FREE
        BY <1>3, <2>3, <2>5 DEF Recorded
      <3>4. (tick - 1) + age - FREE = tick + (age - 1) - FREE
        BY <1>3, <3>1, ConstantTypes
      <3>5. ~ (age - 1 > 0)
        BY <2>5, <3>1
      <3> DEFINE older == age - 1
      <3>6. pages'[processes'[j]][page] = older /\ older < 0 /\ older \in Int
        BY <2>2, <2>5, <3>1, <3>2
      <3>7. /\ proc_wait'[j][page].op = "out"
            /\ proc_wait'[j][page].page_end = Now' + older - FREE
        BY <1>1, <1>3, <3>3, <3>4
      <3> HIDE DEF older
      <3> QED BY <3>6, <3>7 DEF Recorded
    <2>6. CASE age = 0 \/ age = FREE
      <3>1. Aged(age) = age
        BY <2>6, ConstantTypes DEF Aged
      <3> QED BY <2>2, <2>6, <3>1, ConstantTypes DEF Recorded
    <2> QED BY <2>1, <2>4, <2>5, <2>6, ConstantTypes DEF Ages
  <1> QED BY <1>1, <1>4

\* The simulator leaves the pager's variables alone.
LEMMA SimulateKeeps ==
    ASSUME PredictInv, EngineSimulate, UNCHANGED pagerVars
    PROVE  PredictInv'
  <1>1. PagingInv'
    <2>1. Next
      BY EngineImplements DEF EngineSimulate, Next, Simulate
    <2> QED BY <2>1, NextPaging DEF PredictInv
  <1>2. Records' /\ phase # "pager"
    <2>1. CASE \E i \in Slots : EngineStep(i)
      <3>1. PICK i \in Slots : EngineStep(i)
        BY <2>1
      <3>2. ProcessStep(i)
        BY <3>1, EngineImplements
      <3> QED BY <3>2, StepRecords
    <2>2. CASE AllDone
      <3>1. /\ processes' = processes /\ pages' = pages
            /\ phase = "step" /\ phase' = "done"
        BY <2>2 DEF AllDone, procVars, pageVars
      <3> QED BY <3>1 DEF PredictInv, Records, Recorded, Active, Now, pagerVars
    <2>3. CASE Age
      BY <2>3, AgeRecords
    <2> QED BY <2>1, <2>2, <2>3 DEF EngineSimulate
  <1>3. stage = "wait" /\ UNCHANGED <<tick, trackVars, proc_wait, q, need_free, stage, turn>>
    BY <1>2 DEF PredictInv, StageTypes, pagerVars, stageVars
  <1> QED BY <1>1, <1>2, <1>3
          DEF PredictInv, CountTypes, Learned, TimeTypes, StageTypes, WaitTypes, trackVars

LEMMA PagingKept ==
    ASSUME PredictInv, [PredictNext]_predictVars
    PROVE  PagingInv'
  BY PredictImplements, NextPaging DEF PredictInv

\* Between one table and the next nothing is asked for.
LEMMA RecordsSame ==
    ASSUME Records, UNCHANGED <<processes, pages, phase, tick, proc_wait>>
    PROVE  Records'
  BY DEF Records, Recorded, Active, Now

LEMMA VictimsSame ==
    ASSUME Victims, UNCHANGED <<processes, pages, proc_wait, q>>
    PROVE  Victims'
  BY DEF Victims, Evictable, Active

LEMMA CountsSame ==
    ASSUME CountTypes, UNCHANGED <<tick, transitions, pg_last>>,
           \A i \in Slots : Learned(i) => Learned(i)'
    PROVE  CountTypes'
  BY DEF CountTypes

LEMMA TurnTypes ==
    ASSUME NEW i \in Slots, turn = i, turn \in Slots, NEW next, NextTurn(i, next)
    PROVE  turn' \in Slots /\ (stage' = stage \/ stage' = next)
  BY SizeAssumption DEF NextTurn, Slots

\* The copy is made, and what should be over is forgotten; nothing that is under
\* way is over.
LEMMA WaitsInv ==
    ASSUME PredictInv, UpdateWaits
    PROVE  PredictInv'
  <1>1. /\ UNCHANGED <<processes, pages, phase, tick, timestamps, transitions, pg_last, turn>>
        /\ phase = "pager" /\ stage = "wait" /\ stage' = "evict"
    BY DEF UpdateWaits, At, allVars, vars, procVars, pageVars, loopVars, trackVars
  <1>2. PagingInv /\ WaitTypes /\ TimeTypes /\ StageTypes /\ Records /\ CountTypes
    BY DEF PredictInv
  <1>3. \A i \in Slots, page \in Pages :
           /\ q'[i][page] = (Active(i) /\ Resident(processes[i], page))
           /\ proc_wait'[i][page] = IF Over(proc_wait[i][page]) THEN NoOp ELSE proc_wait[i][page]
    BY DEF UpdateWaits
  <1>4. q' \in [Slots -> [Pages -> BOOLEAN]]
    BY DEF UpdateWaits
  <1>5. WaitTypes'
    <2>1. NoOp \in Waits(tick)
      BY <1>2, ConstantTypes DEF NoOp, Waits, TimeTypes
    <2>2. proc_wait' = [i \in Slots |-> [page \in Pages |->
              IF Over(proc_wait[i][page]) THEN NoOp ELSE proc_wait[i][page]]]
      BY DEF UpdateWaits
    <2>3. proc_wait' \in [Slots -> [Pages -> Waits(tick)]]
      BY <1>2, <2>1, <2>2 DEF WaitTypes
    <2> QED BY <1>1, <2>3 DEF WaitTypes
  <1>6. need_free' \in Nat
    <2> DEFINE counted == {x \in Slots \X Pages : q'[x[1]][x[2]] \/ proc_wait'[x[1]][x[2]].op = "in"}
    <2>1. IsFiniteSet(Slots) /\ IsFiniteSet(Pages)
      BY FS_Interval, SizeAssumption DEF Slots, Pages
    <2>2. IsFiniteSet(Slots \X Pages)
      BY <2>1, FS_Product
    <2>3. counted \subseteq Slots \X Pages
      OBVIOUS
    <2>4. Cardinality(counted) \in Nat
      BY <2>2, <2>3, FS_Subset, FS_CardinalityType
    <2>5. need_free' = Shortage(Cardinality(counted))
      BY DEF UpdateWaits, InMemCount
    <2> HIDE DEF counted
    <2> QED BY <2>4, <2>5, PredictConstants, ConstantTypes DEF Shortage
  <1>7. Records'
    <2> SUFFICES ASSUME NEW i \in Slots, NEW page \in Pages, Active(i)
                 PROVE  Recorded(i, page)'
      BY <1>1 DEF Records, Recorded, Active
    <2> DEFINE age == pages[processes[i]][page]
    <2>1. age \in Ages /\ tick \in Nat /\ Now = tick /\ Now' = tick
      BY <1>1, <1>2, SlotsApart DEF Now, TimeTypes
    <2>2. Recorded(i, page)
      BY <1>2 DEF Records
    <2>3. age > 0 \/ (age < 0 /\ age # FREE) => ~ Over(proc_wait[i][page])
      <3>1. CASE age > 0
        <4>1. /\ age \in Int /\ proc_wait[i][page].page_end >= tick + age
              /\ proc_wait[i][page] \in Waits(tick)
          BY <1>2, <2>1, <2>2, <3>1, ConstantTypes DEF Recorded, Ages, WaitTypes
        <4>2. proc_wait[i][page].page_end \in Int
          BY <4>1, <2>1, ConstantTypes DEF Waits
        <4> HIDE DEF age
        <4> QED BY <2>1, <3>1, <4>1, <4>2 DEF Over
      <3>2. CASE age < 0 /\ age # FREE
        BY <2>1, <2>2, <3>2, ConstantTypes DEF Recorded, Over, Ages
      <3> QED BY <3>1, <3>2
    <2> QED BY <1>1, <1>3, <2>1, <2>2, <2>3 DEF Recorded, Active
  <1>8. Victims'
    BY <1>1, <1>3 DEF Victims, Evictable, Resident, Active
  <1>9. CountTypes' /\ TimeTypes' /\ StageTypes'
    BY <1>1, <1>2, <1>4, <1>6, CountsSame DEF TimeTypes, StageTypes, Learned
  <1>10. PagingInv'
    BY PagingKept DEF PredictNext
  <1> QED BY <1>5, <1>7, <1>8, <1>9, <1>10 DEF PredictInv

LEMMA EvictGlobalInv ==
    ASSUME PredictInv, EvictGlobal
    PROVE  PredictInv'
  <1>1. /\ UNCHANGED <<processes, phase, tick, timestamps, transitions, pg_last, q, stage, turn>>
        /\ phase = "pager" /\ stage = "evict"
        /\ need_free > 0 /\ need_free' = need_free - 1
    BY DEF EvictGlobal, At, procVars, loopVars, trackVars, stageVars
  <1>2. PICK i \in Slots, page \in Pages : IsLru(Slots, i, page) /\ Evict(i, page)
    BY DEF EvictGlobal
  <1>3. WaitTypes' /\ Records' /\ Victims'
    BY <1>1, <1>2, EvictRecords DEF IsLru
  <1>4. CountTypes' /\ TimeTypes' /\ StageTypes'
    BY <1>1, CountsSame DEF PredictInv, TimeTypes, StageTypes, Learned
  <1>5. PagingInv'
    BY PagingKept DEF PredictNext
  <1> QED BY <1>3, <1>4, <1>5 DEF PredictInv

LEMMA EvictEndsInv ==
    ASSUME PredictInv, EvictEnds
    PROVE  PredictInv'
  <1>1. /\ UNCHANGED <<processes, pages, phase, tick, timestamps, transitions, pg_last, q,
                       proc_wait, turn>>
        /\ phase = "pager" /\ stage = "evict" /\ stage' = "learn" /\ need_free' = 0
    BY DEF EvictEnds, At, allVars, vars, procVars, pageVars, loopVars, trackVars
  <1>2. WaitTypes' /\ Records' /\ Victims'
    BY <1>1, RecordsSame, VictimsSame DEF PredictInv, WaitTypes
  <1>3. CountTypes' /\ TimeTypes' /\ StageTypes'
    BY <1>1, CountsSame DEF PredictInv, TimeTypes, StageTypes, Learned
  <1>4. PagingInv'
    BY PagingKept DEF PredictNext
  <1> QED BY <1>2, <1>3, <1>4 DEF PredictInv

LEMMA DecayBelow ==
    ASSUME NEW freq \in Nat
    PROVE  Decay(freq) \in Nat /\ Decay(freq) <= freq /\ Decay(0) = 0
  BY DEF Decay

\* A count grows by one at most, and only while it is behind.
LEMMA LearnCounts ==
    ASSUME PredictInv, NEW i \in Slots, Learn(i)
    PROVE  CountTypes'
  <1>1. /\ CountTypes /\ PagingInv /\ tick \in Nat /\ tick' = tick /\ turn = i /\ stage = "learn"
        /\ turn \in Slots
    BY DEF PredictInv, TimeTypes, StageTypes, Learn, At
  <1>2. NextTurn(i, "window")
    BY DEF Learn
  <1>3. \A j \in Slots : j # i /\ Learned(j) => Learned(j)'
    BY <1>1, <1>2 DEF Learned, NextTurn, Slots
  <1>4. \A j \in Slots : j # i /\ ~ Learned(j)' => ~ Learned(j)
    BY <1>3
  <1>5. ~ Learned(i) /\ Learned(i)'
    BY <1>1, <1>2 DEF Learned, NextTurn, Slots
  <1>6. CASE ~ Moves(i)
    BY <1>1, <1>4, <1>5, <1>6 DEF Learn, CountTypes
  <1>7. CASE Moves(i)
    <2> DEFINE last    == pg_last[i]
               page    == CurrentPage(i)
               counted == [transitions EXCEPT ![i][last][page] = @ + 1]
    <2>1. page \in Pages /\ last \in Pages /\ last # page
      <3>1. processes[i] \in Queue
        BY <1>1, <1>7 DEF Moves, PagingInv, TypeOK, Active
      <3>2. page \in Pages
        BY <1>1, <3>1, PageExists DEF PagingInv, LinesInRange, CurrentPage, Current
      <3> QED BY <1>1, <1>7, <3>2 DEF Moves, CountTypes
    <2>2. \A j \in Slots, from, to \in Pages :
             counted[j][from][to] = IF j = i /\ from = last /\ to = page
                                    THEN transitions[j][from][to] + 1
                                    ELSE transitions[j][from][to]
      BY <1>1, <2>1 DEF CountTypes
    <2>3. counted \in [Slots -> [Pages -> [Pages -> 0 .. tick]]]
      <3>1. transitions[i][last][page] + 1 \in 0 .. tick
        BY <1>1, <1>5, <2>1 DEF CountTypes
      <3> QED BY <1>1, <2>1, <3>1 DEF CountTypes
    <2>4. \A j \in Slots, p \in Pages : counted[j][p][p] = 0
      BY <1>1, <2>1, <2>2 DEF CountTypes
    <2>5. \A j \in Slots, from, to \in Pages : ~ Learned(j)' => counted[j][from][to] < tick
      BY <1>1, <1>4, <1>5, <2>2 DEF CountTypes
    <2>6. /\ transitions' = IF tick % DECAY_INTERVAL = 0
                            THEN [j \in Slots |-> [from \in Pages |-> [to \in Pages |->
                                     Decay(counted[j][from][to])]]]
                            ELSE counted
          /\ pg_last' = [pg_last EXCEPT ![i] = page]
      BY <1>7 DEF Learn
    <2>7. pg_last' \in [Slots -> Pages \cup {-1}]
      BY <1>1, <2>1, <2>6 DEF CountTypes
    <2> HIDE DEF counted
    <2>8. CASE tick % DECAY_INTERVAL # 0
      BY <1>1, <2>3, <2>4, <2>5, <2>6, <2>7, <2>8 DEF CountTypes
    <2>9. CASE tick % DECAY_INTERVAL = 0
      <3>1. \A j \in Slots, from, to \in Pages :
               /\ counted[j][from][to] \in 0 .. tick
               /\ transitions'[j][from][to] = Decay(counted[j][from][to])
        BY <2>3, <2>6, <2>9
      <3>2. \A j \in Slots, from, to \in Pages :
               /\ transitions'[j][from][to] \in 0 .. tick
               /\ transitions'[j][from][to] <= counted[j][from][to]
        <4> TAKE j \in Slots, from \in Pages, to \in Pages
        <4>1. counted[j][from][to] \in Nat /\ counted[j][from][to] <= tick
          BY <1>1, <3>1
        <4> QED BY <1>1, <3>1, <4>1, DecayBelow
      <3>3. transitions' \in [Slots -> [Pages -> [Pages -> 0 .. tick]]]
        BY <2>6, <2>9, <3>1, <3>2
      <3>4. \A j \in Slots, p \in Pages : transitions'[j][p][p] = 0
        BY <2>4, <3>1, DecayBelow
      <3>5. \A j \in Slots, from, to \in Pages : ~ Learned(j)' => transitions'[j][from][to] < tick
        <4> TAKE j \in Slots, from \in Pages, to \in Pages
        <4>1. /\ counted[j][from][to] \in Int /\ transitions'[j][from][to] \in Int
              /\ transitions'[j][from][to] <= counted[j][from][to]
              /\ ~ Learned(j)' => counted[j][from][to] < tick
          BY <1>1, <2>5, <3>1, <3>2
        <4> QED BY <1>1, <4>1
      <3> QED BY <1>1, <2>7, <3>3, <3>4, <3>5 DEF CountTypes
    <2> QED BY <2>8, <2>9
  <1> QED BY <1>6, <1>7

LEMMA LearnInv ==
    ASSUME PredictInv, NEW i \in Slots, Learn(i)
    PROVE  PredictInv'
  <1>1. /\ UNCHANGED <<processes, pages, phase, tick, timestamps, q, proc_wait, need_free>>
        /\ phase = "pager" /\ stage = "learn" /\ turn = i
    BY DEF Learn, At, allVars, vars, procVars, pageVars, loopVars
  <1>2. turn' \in Slots /\ stage' \in {"learn", "window"}
    BY <1>1, TurnTypes DEF Learn
  <1>3. WaitTypes' /\ Records' /\ Victims'
    BY <1>1, RecordsSame, VictimsSame DEF PredictInv, WaitTypes
  <1>4. TimeTypes' /\ StageTypes'
    BY <1>1, <1>2 DEF PredictInv, TimeTypes, StageTypes
  <1>5. PagingInv'
    BY PagingKept DEF PredictNext, Turn
  <1> QED BY <1>3, <1>4, <1>5, LearnCounts DEF PredictInv

\* Of the pages asked for one is granted or none.
LEMMA FetchFromRecords ==
    ASSUME PredictInv, phase = "pager", stage # "wait", NEW i \in Slots, NEW asked,
           FetchFrom(i, asked), UNCHANGED <<processes, phase, tick, q>>
    PROVE  WaitTypes' /\ Records' /\ Victims'
  <1>1. CASE \E page \in asked : PageinReturns(i, page) /\ Fetch(i, page)
    BY <1>1, FetchRecords
  <1>2. CASE UNCHANGED <<proc_wait, pageVars>>
    BY <1>2, RecordsSame, VictimsSame DEF PredictInv, WaitTypes, pageVars
  <1> QED BY <1>1, <1>2 DEF FetchFrom

\* After the stage "learn" only the record and the timestamps change.
LEMMA AfterLearning ==
    ASSUME PredictInv, stage \in {"window", "current", "predict"},
           stage' \in {"window", "current", "predict", "return"}, turn' \in Slots,
           UNCHANGED <<phase, tick, transitions, pg_last, q, need_free>>,
           phase = "pager"
    PROVE  CountTypes' /\ StageTypes'
  <1>1. \A i \in Slots : Learned(i)'
    BY DEF Learned
  <1> QED BY <1>1, CountsSame DEF PredictInv, StageTypes

LEMMA WindowInv ==
    ASSUME PredictInv, NEW i \in Slots, Window(i)
    PROVE  PredictInv'
  <1>1. /\ UNCHANGED <<processes, phase, tick, timestamps, transitions, pg_last, q, need_free>>
        /\ phase = "pager" /\ stage = "window" /\ turn = i
    BY DEF Window, At, procVars, loopVars, trackVars
  <1>2. turn' \in Slots /\ stage' \in {"window", "current"}
    BY <1>1, TurnTypes DEF Window
  <1>3. WaitTypes' /\ Records' /\ Victims'
    BY <1>1, FetchFromRecords DEF Window
  <1>4. CountTypes' /\ StageTypes' /\ TimeTypes'
    BY <1>1, <1>2, AfterLearning DEF PredictInv, TimeTypes
  <1>5. PagingInv'
    BY PagingKept DEF PredictNext, Turn
  <1> QED BY <1>3, <1>4, <1>5 DEF PredictInv

LEMMA EntrySet ==
    ASSUME NEW X, NEW Y, NEW T, NEW f \in [X -> [Y -> T]], NEW x \in X, NEW y \in Y, NEW v \in T
    PROVE  [f EXCEPT ![x][y] = v] \in [X -> [Y -> T]]
  OBVIOUS

\* The time at which a page is seen.
LEMMA SeenNow ==
    ASSUME TimeTypes, PagingInv, NEW i \in Slots, Active(i), tick' = tick,
           timestamps' = [timestamps EXCEPT ![i][CurrentPage(i)] = tick]
    PROVE  TimeTypes'
  <1> DEFINE page  == CurrentPage(i)
             times == 0 .. tick
  <1>1. page \in Pages
    BY SlotsApart, PageExists DEF PagingInv, LinesInRange, CurrentPage, Current
  <1>2. timestamps \in [Slots -> [Pages -> times]] /\ tick \in times
    BY DEF TimeTypes
  <1> HIDE DEF page, times
  <1>3. timestamps' = [timestamps EXCEPT ![i][page] = tick]
    BY DEF page
  <1>4. timestamps' \in [Slots -> [Pages -> times]]
    <2>1. [timestamps EXCEPT ![i][page] = tick] \in [Slots -> [Pages -> times]]
      BY <1>1, <1>2, EntrySet
    <2> QED BY <1>3, <2>1
  <1> QED BY <1>2, <1>4 DEF TimeTypes, times

LEMMA CurrentInv ==
    ASSUME PredictInv, NEW i \in Slots,
           FetchCurrent(i) \/ EvictLocal(i) \/ NothingToEvict(i)
    PROVE  PredictInv'
  <1>1. /\ UNCHANGED <<processes, phase, tick, transitions, pg_last, q, need_free>>
        /\ phase = "pager" /\ stage = "current" /\ turn = i /\ Active(i)
        /\ timestamps' = [timestamps EXCEPT ![i][CurrentPage(i)] = tick]
    BY DEF FetchCurrent, EvictLocal, NothingToEvict, At, procVars, loopVars
  <1>2. turn' \in Slots /\ stage' \in {"current", "predict"}
    <2>1. 0 \in Slots
      BY SizeAssumption DEF Slots
    <2>2. NextTurn(i, "predict") \/ (turn' = 0 /\ stage' = "predict")
      BY DEF FetchCurrent, EvictLocal, NothingToEvict
    <2> QED BY <1>1, <2>1, <2>2, TurnTypes
  <1>3. WaitTypes' /\ Records' /\ Victims'
    <2>1. CASE FetchCurrent(i) \/ NothingToEvict(i)
      <3>1. CASE UNCHANGED <<proc_wait, pageVars>>
        BY <1>1, <3>1, RecordsSame, VictimsSame DEF PredictInv, WaitTypes, pageVars
      <3>2. CASE PageinReturns(i, CurrentPage(i)) /\ Fetch(i, CurrentPage(i))
        BY <1>1, <3>2, FetchRecords
      <3> QED BY <2>1, <3>1, <3>2 DEF FetchCurrent, NothingToEvict
    <2>2. CASE EvictLocal(i)
      <3>1. PICK page \in Pages : IsLru({i}, i, page) /\ Evict(i, page)
        BY <2>2 DEF EvictLocal
      <3> QED BY <1>1, <3>1, EvictRecords DEF IsLru
    <2> QED BY <2>1, <2>2
  <1>4. CountTypes' /\ StageTypes' /\ TimeTypes'
    BY <1>1, <1>2, AfterLearning, SeenNow DEF PredictInv
  <1>5. PagingInv'
    BY PagingKept DEF PredictNext, Turn
  <1> QED BY <1>3, <1>4, <1>5 DEF PredictInv

LEMMA GuessInv ==
    ASSUME PredictInv, NEW i \in Slots, Predict(i)
    PROVE  PredictInv'
  <1>1. /\ UNCHANGED <<processes, phase, tick, timestamps, transitions, pg_last, q, need_free>>
        /\ phase = "pager" /\ stage = "predict" /\ turn = i
    BY DEF Predict, At, procVars, loopVars, trackVars
  <1>2. turn' \in Slots /\ stage' \in {"predict", "return"}
    BY <1>1, TurnTypes DEF Predict
  <1>3. WaitTypes' /\ Records' /\ Victims'
    <2>1. UNCHANGED <<proc_wait, pageVars>> \/ \E asked : FetchFrom(i, asked)
      BY DEF Predict
    <2>2. CASE UNCHANGED <<proc_wait, pageVars>>
      BY <1>1, <2>2, RecordsSame, VictimsSame DEF PredictInv, WaitTypes, pageVars
    <2>3. CASE \E asked : FetchFrom(i, asked)
      BY <1>1, <2>3, FetchFromRecords
    <2> QED BY <2>1, <2>2, <2>3
  <1>4. CountTypes' /\ StageTypes' /\ TimeTypes'
    BY <1>1, <1>2, AfterLearning DEF PredictInv, TimeTypes
  <1>5. PagingInv'
    BY PagingKept DEF PredictNext, Turn
  <1> QED BY <1>3, <1>4, <1>5 DEF PredictInv

LEMMA InactiveInv ==
    ASSUME PredictInv, NEW i \in Slots, Inactive(i)
    PROVE  PredictInv'
  <1>1. /\ UNCHANGED <<processes, pages, phase, tick, timestamps, transitions, pg_last, q,
                       proc_wait, need_free>>
        /\ phase = "pager" /\ stage \in {"current", "predict"} /\ turn = i
    BY DEF Inactive, At, allVars, vars, procVars, pageVars, loopVars, trackVars
  <1>2. turn' \in Slots /\ stage' \in {"current", "predict", "return"}
    <2>1. NextTurn(i, "predict") \/ NextTurn(i, "return")
      BY DEF Inactive
    <2> QED BY <1>1, <2>1, TurnTypes
  <1>3. WaitTypes' /\ Records' /\ Victims'
    BY <1>1, RecordsSame, VictimsSame DEF PredictInv, WaitTypes
  <1>4. CountTypes' /\ StageTypes' /\ TimeTypes'
    BY <1>1, <1>2, AfterLearning DEF PredictInv, TimeTypes
  <1>5. PagingInv'
    BY PagingKept DEF PredictNext, Turn
  <1> QED BY <1>3, <1>4, <1>5 DEF PredictInv

\* The pager's clock goes on when the pager returns, so that a count that is up
\* to date is behind again.
LEMMA ReturnInv ==
    ASSUME PredictInv, Return
    PROVE  PredictInv'
  <1>1. /\ UNCHANGED <<processes, pages, timestamps, transitions, pg_last, q, proc_wait,
                       need_free, turn>>
        /\ phase = "pager" /\ phase' = "step" /\ stage' = "wait" /\ tick' = tick + 1
    BY DEF Return, PagerReturn, procVars, pageVars, trackVars
  <1>2. /\ CountTypes /\ TimeTypes /\ StageTypes /\ WaitTypes /\ Records
        /\ tick \in Nat \ {0} /\ tick + 1 \in Nat \ {0}
    BY DEF PredictInv, TimeTypes
  <1>3. 0 .. tick \subseteq 0 .. tick + 1 /\ Waits(tick) \subseteq Waits(tick + 1)
    BY <1>2, ConstantTypes DEF Waits
  <1>4. TimeTypes'
    <2>1. timestamps \in [Slots -> [Pages -> 0 .. tick + 1]]
      BY <1>2, <1>3 DEF TimeTypes
    <2> QED BY <1>1, <1>2, <2>1 DEF TimeTypes
  <1>5. CountTypes'
    <2>1. transitions \in [Slots -> [Pages -> [Pages -> 0 .. tick + 1]]]
      BY <1>2, <1>3 DEF CountTypes
    <2>2. \A i \in Slots, from, to \in Pages : transitions[i][from][to] < tick + 1
      BY <1>2 DEF CountTypes
    <2> QED BY <1>1, <1>2, <2>1, <2>2 DEF CountTypes
  <1>6. WaitTypes'
    <2>1. proc_wait \in [Slots -> [Pages -> Waits(tick + 1)]]
      BY <1>2, <1>3 DEF WaitTypes
    <2> QED BY <1>1, <2>1 DEF WaitTypes
  <1>7. Records'
    <2>1. Now' = Now
      BY <1>1, <1>2 DEF Now
    <2> QED BY <1>1, <1>2, <2>1 DEF Records, Recorded, Active
  <1>8. PagingInv'
    BY PagingKept DEF PredictNext
  <1> QED BY <1>1, <1>2, <1>4, <1>5, <1>6, <1>7, <1>8 DEF PredictInv, StageTypes

LEMMA PredictStep == PredictInv /\ [PredictNext]_predictVars => PredictInv'
  <1> SUFFICES ASSUME PredictInv, [PredictNext]_predictVars PROVE PredictInv'
    OBVIOUS
  <1>1. CASE EngineSimulate /\ UNCHANGED pagerVars
    BY <1>1, SimulateKeeps
  <1>2. CASE UpdateWaits \/ EvictGlobal \/ EvictEnds \/ Return
    BY <1>2, WaitsInv, EvictGlobalInv, EvictEndsInv, ReturnInv
  <1>3. ASSUME NEW i \in Slots, Turn(i) PROVE PredictInv'
    BY <1>3, LearnInv, WindowInv, CurrentInv, GuessInv, InactiveInv DEF Turn
  <1>4. CASE UNCHANGED predictVars
    <2>1. UNCHANGED <<processes, pages, phase, tick, timestamps, transitions, pg_last, q,
                      proc_wait, need_free, stage, turn>>
      BY <1>4 DEF predictVars, allVars, vars, procVars, pageVars, loopVars, pagerVars,
                  trackVars, stageVars
    <2>2. WaitTypes' /\ Records' /\ (stage' # "wait" => Victims')
      BY <2>1, RecordsSame, VictimsSame DEF PredictInv, WaitTypes
    <2>3. CountTypes' /\ StageTypes' /\ TimeTypes'
      BY <2>1, CountsSame DEF PredictInv, TimeTypes, StageTypes, Learned
    <2> QED BY <2>2, <2>3, PagingKept DEF PredictInv
  <1> QED BY <1>1, <1>2, <1>3, <1>4 DEF PredictNext

\* What the predictive pager keeps true.
THEOREM PredictInvariant == PredictSpec => []PredictInv
  <1> QED BY PredictStart, PredictStep, PTL DEF PredictSpec

\* Every variable of the pager has its type; a page never follows itself.
THEOREM PredictTyping == PredictSpec => []PredictTypeOK
  <1> QED BY PredictTypes, PredictInvariant, PTL

\* The pager's record of the transfers under way, by its own clock, agrees with
\* the simulator's, for every transfer time; no page is paged out that is not in
\* memory.
THEOREM PredictTracks == PredictSpec => []TracksTransfers
  <1> QED BY PredictTypes, PredictInvariant, PTL

-----------------------------------------------------------------------------
(* The branch engine *)

LoopContexts(b) == [boffset : Entries, bcount : Nat, bvalue : BOOLEAN,
                    bsize : {MAXBRINGS}, brings : LapTables(b)]

\* The table of a FOR branch has the laps at even places and one pass behind each:
\* while laps are run they are counted as the table counts them.
InLaps(c, lap, b) ==
    /\ c \in LoopContexts(b)
    /\ c.bvalue <=> c.boffset % 2 = 0
    /\ c.bvalue => lap = c.bcount /\ lap < c.brings[c.boffset]
    /\ ~ c.bvalue => c.bcount = 0 /\ lap \in LapCounts(b)

LapInv == /\ DOMAIN contexts = Meetings /\ DOMAIN laps = Meetings
          /\ \A x \in Meetings : x[2].btype = "FOR" => InLaps(contexts[x], laps[x], x[2])

\* Loops of programs.c.
LEMMA LoopBounds ==
    ASSUME NEW x \in Meetings, x[2].btype = "FOR"
    PROVE  /\ x[1] \in Queue /\ Program(x[1]).branches # {}
           /\ x[2].min \in Nat \ {0} /\ x[2].max \in Nat
  <1>1. PICK k \in Queue : x \in {k} \X Branches(k)
    BY DEF Meetings
  <1>2. x[1] = k /\ x[2] \in Branches(k)
    BY <1>1
  <1>3. Program(k).branches # {} /\ x[2] \in Program(k).branches
    BY <1>2 DEF Branches
  <1>4. k % PROGRAMS \in 0 .. PROGRAMS - 1
    BY SizeAssumption DEF Queue
  <1>5. x[2] \in programs[k % PROGRAMS].branches
    BY <1>3 DEF Program
  <1> QED BY <1>2, <1>3, <1>4, <1>5, LapsAssumption

LEMMA TableEntries ==
    ASSUME NEW b, b.min \in Nat \ {0}, b.max \in Nat, NEW brings \in LapTables(b),
           NEW n \in Entries
    PROVE  /\ brings[n] \in Nat /\ brings[n] > 0
           /\ n % 2 = 0 => brings[n] \in LapCounts(b)
           /\ n % 2 # 0 => brings[n] = 1
  <1>1. PICK drawn \in [0 .. MAXBRINGS \div 2 - 1 -> LapCounts(b)] :
           brings = [m \in Entries |-> IF m % 2 = 0 THEN drawn[m \div 2] ELSE 1]
    BY DEF LapTables
  <1>2. LapCounts(b) \subseteq Nat \ {0}
    BY DEF LapCounts
  <1>3. n % 2 = 0 => n \div 2 \in 0 .. MAXBRINGS \div 2 - 1
    BY EngineAssumption DEF Entries
  <1>4. brings[n] = IF n % 2 = 0 THEN drawn[n \div 2] ELSE 1
    BY <1>1
  <1>5. n % 2 = 0 => drawn[n \div 2] \in LapCounts(b)
    BY <1>1, <1>3
  <1> QED BY <1>2, <1>4, <1>5

\* A decision keeps the count: the run of a table's entry is as long as the entry
\* says, and an even number of entries brings laps to laps again.
LEMMA DecidedLaps ==
    ASSUME NEW b, b.min \in Nat \ {0}, b.max \in Nat, NEW c, NEW lap, InLaps(c, lap, b)
    PROVE  InLaps(Decided(c), IF c.bvalue THEN lap + 1 ELSE 0, b)
  <1> DEFINE off  == c.boffset
             next == (off + 1) % MAXBRINGS
             d    == Decided(c)
  <1>1. /\ c \in LoopContexts(b) /\ off \in Entries /\ c.brings \in LapTables(b)
        /\ c.bcount \in Nat /\ c.bsize = MAXBRINGS /\ c.bvalue \in BOOLEAN
    BY DEF InLaps, LoopContexts
  <1>2. /\ c.brings[off] \in Nat /\ c.brings[off] > 0
        /\ off % 2 = 0 => c.brings[off] \in LapCounts(b)
        /\ off % 2 # 0 => c.brings[off] = 1
    BY <1>1, TableEntries
  <1>3. /\ off \in Nat /\ off < MAXBRINGS
        /\ MAXBRINGS \in Nat \ {0} /\ MAXBRINGS % 2 = 0
    BY <1>1, EngineAssumption DEF Entries
  <1>4. next \in Entries /\ (next % 2 = 0 <=> off % 2 # 0)
    <2>1. CASE off + 1 < MAXBRINGS
      <3>1. next = off + 1
        BY <1>3, <2>1
      <3> QED BY <1>3, <2>1, <3>1 DEF Entries
    <2>2. CASE ~ (off + 1 < MAXBRINGS)
      <3>1. off + 1 = MAXBRINGS
        BY <1>3, <2>2
      <3>2. next = 0
        BY <1>3, <3>1
      <3>3. off % 2 # 0
        BY <1>3, <3>1
      <3> QED BY <1>3, <3>2, <3>3 DEF Entries
    <2> QED BY <2>1, <2>2
  <1>5. CASE c.bcount + 1 >= c.brings[off]
    <2>1. d = [c EXCEPT !.boffset = next, !.bcount = 0, !.bvalue = ~ c.bvalue]
      BY <1>1, <1>5 DEF Decided
    <2> HIDE DEF next, d
    <2>2. /\ d \in LoopContexts(b)
          /\ d.boffset = next /\ d.bcount = 0 /\ d.bvalue = ~ c.bvalue /\ d.brings = c.brings
      BY <1>1, <1>4, <2>1 DEF LoopContexts
    <2>3. CASE c.bvalue
      <3>1. lap = c.bcount /\ lap < c.brings[off] /\ off % 2 = 0
        BY <2>3 DEF InLaps
      <3>2. lap + 1 = c.brings[off]
        BY <1>1, <1>2, <1>5, <3>1
      <3>3. lap + 1 \in LapCounts(b)
        BY <1>2, <3>1, <3>2
      <3> QED BY <1>4, <2>2, <2>3, <3>1, <3>3 DEF InLaps, d
    <2>4. CASE ~ c.bvalue
      <3>1. off % 2 # 0
        BY <2>4 DEF InLaps
      <3>2. c.brings[next] \in Nat /\ c.brings[next] > 0
        BY <1>1, <1>4, TableEntries
      <3> QED BY <1>4, <2>2, <2>4, <3>1, <3>2 DEF InLaps, d
    <2> QED BY <2>3, <2>4
  <1>6. CASE ~ (c.bcount + 1 >= c.brings[off])
    <2>1. d = [c EXCEPT !.bcount = c.bcount + 1]
      BY <1>6 DEF Decided
    <2> HIDE DEF d
    <2>2. c.bvalue
      BY <1>1, <1>2, <1>6 DEF InLaps
    <2>3. lap = c.bcount /\ off % 2 = 0
      BY <2>2 DEF InLaps
    <2>4. /\ d \in LoopContexts(b)
          /\ d.boffset = off /\ d.bcount = c.bcount + 1 /\ d.bvalue = c.bvalue
          /\ d.brings = c.brings
      BY <1>1, <2>1 DEF LoopContexts
    <2> QED BY <1>1, <1>2, <1>6, <2>2, <2>3, <2>4 DEF InLaps, d
  <1> QED BY <1>5, <1>6

LEMMA LapStart == PredictInit => LapInv
  <1> SUFFICES ASSUME PredictInit PROVE LapInv
    OBVIOUS
  <1>1. /\ DOMAIN contexts = Meetings /\ DOMAIN laps = Meetings
        /\ \A x \in Meetings : contexts[x] \in Drawn(x[1], x[2]) /\ laps[x] = 0
    BY DEF PredictInit, EngineInit
  <1>2. ASSUME NEW x \in Meetings, x[2].btype = "FOR"
        PROVE  InLaps(contexts[x], laps[x], x[2])
    <2> DEFINE b == x[2]
    <2>1. Program(x[1]).branches # {} /\ b.min \in Nat \ {0} /\ b.max \in Nat
      BY <1>2, LoopBounds
    <2>2. PICK brings \in LapTables(b) : contexts[x] = Context(TRUE, brings)
      <3>1. contexts[x] \in Drawn(x[1], b)
        BY <1>1
      <3>2. Drawn(x[1], b) = {Context(TRUE, brings) : brings \in LapTables(b)}
        <4>1. b.btype = "FOR" /\ b.btype # "GOTO" /\ Program(x[1]).branches # {}
          BY <1>2, <2>1
        <4> HIDE DEF b
        <4> QED BY <4>1 DEF Drawn
      <3> QED BY <3>1, <3>2
    <2>3. DOMAIN brings = Entries
      BY DEF LapTables
    <2>4. Cardinality(Entries) = MAXBRINGS
      <3>1. 0 \in Int /\ MAXBRINGS - 1 \in Int /\ MAXBRINGS \in Nat \ {0}
        BY EngineAssumption
      <3>2. Cardinality(0 .. MAXBRINGS - 1)
              = IF 0 > MAXBRINGS - 1 THEN 0 ELSE MAXBRINGS - 1 - 0 + 1
        BY <3>1, FS_Interval
      <3> QED BY <3>1, <3>2 DEF Entries
    <2>5. 0 \in Entries
      BY EngineAssumption DEF Entries
    <2>6. brings[0] \in Nat /\ brings[0] > 0
      BY <2>1, <2>5, TableEntries
    <2>7. contexts[x] = [boffset |-> 0, bcount |-> 0, bvalue |-> TRUE,
                         bsize |-> MAXBRINGS, brings |-> brings]
      BY <2>2, <2>3, <2>4 DEF Context
    <2>8. contexts[x] \in LoopContexts(b)
      BY <2>5, <2>7 DEF LoopContexts
    <2> QED BY <1>1, <2>6, <2>7, <2>8 DEF InLaps
  <1> QED BY <1>1, <1>2 DEF LapInv

LEMMA LapStep == LapInv /\ [PredictNext]_predictVars => LapInv'
  <1> SUFFICES ASSUME LapInv, [PredictNext]_predictVars PROVE LapInv'
    OBVIOUS
  <1>1. CASE UNCHANGED engineVars
    BY <1>1 DEF LapInv, engineVars
  <1>2. ASSUME NEW i \in Slots, EngineBranch(i) PROVE LapInv'
    <2> DEFINE k == processes[i]
    <2>1. PICK b \in BranchAt(k) :
             /\ contexts' = [contexts EXCEPT ![<<k, b>>] = Decided(contexts[<<k, b>>])]
             /\ laps' = [laps EXCEPT ![<<k, b>>] = IF contexts[<<k, b>>].bvalue THEN @ + 1 ELSE 0]
      BY <1>2 DEF EngineBranch
    <2> DEFINE m == <<k, b>>
    <2>2. \A x \in Meetings :
             /\ contexts'[x] = IF x = m THEN Decided(contexts[m]) ELSE contexts[x]
             /\ laps'[x] = IF x = m THEN (IF contexts[m].bvalue THEN laps[m] + 1 ELSE 0)
                           ELSE laps[x]
      BY <2>1 DEF LapInv
    <2>3. DOMAIN contexts' = Meetings /\ DOMAIN laps' = Meetings
      BY <2>1 DEF LapInv
    <2> HIDE DEF m
    <2>4. ASSUME NEW x \in Meetings, x[2].btype = "FOR"
          PROVE  InLaps(contexts'[x], laps'[x], x[2])
      <3>1. InLaps(contexts[x], laps[x], x[2])
        BY <2>4 DEF LapInv
      <3>2. x[2].min \in Nat \ {0} /\ x[2].max \in Nat
        BY <2>4, LoopBounds
      <3>3. CASE x = m
        <4>1. InLaps(Decided(contexts[x]), IF contexts[x].bvalue THEN laps[x] + 1 ELSE 0, x[2])
          BY <3>1, <3>2, DecidedLaps
        <4> QED BY <2>2, <3>3, <4>1
      <3>4. CASE x # m
        BY <2>2, <3>1, <3>4
      <3> QED BY <3>3, <3>4
    <2> QED BY <2>3, <2>4 DEF LapInv
  <1>3. CASE EngineSimulate
    BY <1>1, <1>2, <1>3 DEF EngineSimulate, EngineStep
  <1>4. CASE ~ EngineSimulate
    <2>1. UNCHANGED engineVars
      BY <1>4 DEF PredictNext, UpdateWaits, EvictGlobal, EvictEnds, Turn, Learn, Window,
                  FetchCurrent, EvictLocal, NothingToEvict, Predict, Inactive, Return,
                  allVars, predictVars
    <2> QED BY <1>1, <2>1
  <1> QED BY <1>3, <1>4

\* A FOR branch is taken at least min and fewer than max times before it is
\* passed, however often its loop is entered and its table used up.
THEOREM LapsHold == PredictSpec => LapsInRange
  <1>1. PredictSpec => []LapInv
    BY LapStart, LapStep, PTL DEF PredictSpec
  <1>2. LapInv => [\A x \in Meetings : /\ x[2].btype = "FOR"
                                       /\ contexts'[x] # contexts[x] /\ ~ contexts[x].bvalue
                                       => laps[x] \in LapCounts(x[2])]_allVars
    BY DEF LapInv, InLaps
  <1> QED BY <1>1, <1>2, PTL DEF LapsInRange
=============================================================================
