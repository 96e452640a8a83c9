--------------------------- MODULE PageSimProofs ---------------------------
(***************************************************************************)
(* Theorems about PageSim: whatever the pager asks for, for every table    *)
(* size, queue, number of frames and transfer time, and for every set of   *)
(* programs that stay within their pages.                                  *)
(***************************************************************************)
EXTENDS PageSim, FiniteSetTheorems, TLAPS

\* A queue entry that has been loaded and is no longer there came to an exit.
Returned == \A k \in Queue : k < queueend /\ k \notin Loaded => AtExit(k)

\* main leaves its loop when no process is left.
DoneEmpty == phase = "done" => Loaded = {}

\* The lines a program counter may be on.
InProgram(k, line) ==
    /\ line \in 0 .. Program(k).size
    /\ line = Program(k).size => Program(k).size - 1 \notin Program(k).exits

LinesInRange == \A k \in Queue : InProgram(k, pc[k])

\* The inductive invariant.  FramesConserved needs NoFrameLeaked, because the
\* pages that allage turns over are only those of loaded processes; that one
\* needs the order of the queue, because a slot is refilled with an entry
\* that must not have run before.
PagingInv == /\ TypeOK /\ FramesConserved /\ NoFrameLeaked
             /\ LoadedOnce /\ LinesInRange /\ Returned /\ DoneEmpty

LEMMA ConstantTypes ==
    /\ Procs \in Nat /\ Procs > 0 /\ QUEUESIZE \in Nat /\ QUEUESIZE > 0
    /\ PAGEWAIT \in Nat /\ PAGEWAIT > 0 /\ PHYSICALPAGES \in Nat
    /\ NULL \notin Queue
    /\ FREE \in Int /\ FREE = - PAGEWAIT - 1
  BY SizeAssumption, NullAssumption DEF Queue, FREE

LEMMA FinitePages == IsFiniteSet(Queue \X Pages)
  <1>1. IsFiniteSet(Queue) /\ IsFiniteSet(Pages)
    BY FS_Interval, SizeAssumption DEF Queue, Pages
  <1> QED BY <1>1, FS_Product

LEMMA FiniteHeld == IsFiniteSet(Held) /\ Cardinality(Held) \in Nat
  BY FinitePages, FS_Subset, FS_CardinalityType DEF Held

\* Frames given back: the pages that held them are no longer held.
LEMMA GiveBack ==
    ASSUME PagingInv, NEW back, back \subseteq Held, Held' = Held \ back,
           pagesavail' = pagesavail + Cardinality(back)
    PROVE  FramesConserved' /\ pagesavail' \in 0 .. PHYSICALPAGES
  <1>1. IsFiniteSet(back) /\ Cardinality(back) \in Nat
    BY FiniteHeld, FS_Subset, FS_CardinalityType
  <1>2. /\ IsFiniteSet(Held \ back) /\ Cardinality(Held \ back) \in Nat
        /\ Cardinality(Held \ back) = Cardinality(Held) - Cardinality(Held \cap back)
    BY FiniteHeld, <1>1, FS_Difference, FS_CardinalityType
  <1>3. Held \cap back = back
    OBVIOUS
  <1>4. /\ pagesavail \in Nat
        /\ pagesavail + Cardinality(Held) = PHYSICALPAGES
    BY ConstantTypes DEF PagingInv, TypeOK, FramesConserved
  <1>5. Cardinality(Held') = Cardinality(Held) - Cardinality(back)
    BY <1>2, <1>3
  <1>6. pagesavail' + Cardinality(Held') = PHYSICALPAGES
    BY <1>1, <1>4, <1>5, FiniteHeld, ConstantTypes
  <1>7. pagesavail' \in Nat /\ Cardinality(Held') \in Nat
    BY <1>1, <1>2, <1>4
  <1> QED BY <1>6, <1>7, ConstantTypes DEF FramesConserved

LEMMA ProgramLines ==
    ASSUME NEW k \in Queue
    PROVE  /\ Program(k).size \in Nat \ {0}
           /\ \A b \in Branches(k) : b.whereto \in Nat
           /\ (Program(k).size - 1) \div PAGESIZE < MAXPROCPAGES
           /\ Program(k).size - 1 \notin Program(k).exits
                => Program(k).size \div PAGESIZE < MAXPROCPAGES
  <1>1. k % PROGRAMS \in 0 .. PROGRAMS - 1
    BY SizeAssumption DEF Queue
  <1> QED BY <1>1, ProgramsAssumption DEF Program, Branches

LEMMA InitPaging == Init => PagingInv
  <1> SUFFICES ASSUME Init PROVE PagingInv
    OBVIOUS
  <1> USE ConstantTypes DEF Init
  <1>1. Held = {}
    BY DEF Held, HasFrame
  <1>2. TypeOK
    BY DEF TypeOK, Queue, Slots, Pages, Ages
  <1>3. FramesConserved /\ NoFrameLeaked
    BY <1>1, FS_EmptySet DEF FramesConserved, NoFrameLeaked
  <1>4. LoadedOnce
    BY DEF LoadedOnce, Loaded, Slots, Queue
  <1>5. Returned /\ DoneEmpty
    <2>1. \A k \in Queue : k < queueend => k \in Slots /\ processes[k] = k
      BY DEF Slots, Queue
    <2> QED BY <2>1 DEF Returned, DoneEmpty, Loaded
  <1>6. LinesInRange
    BY ProgramLines DEF LinesInRange, InProgram
  <1> QED BY <1>2, <1>3, <1>4, <1>5, <1>6 DEF PagingInv

-----------------------------------------------------------------------------
(* allstep *)

\* A slot that is refilled loses its process, and no other slot does; the
\* entry that comes in is the only one that has not been loaded before.
LEMMA ReloadSlot ==
    ASSUME PagingInv, NEW i \in Slots, Reload(i)
    PROVE  /\ processes' \in [Slots -> Queue \cup {NULL}]
           /\ queueend' \in 0 .. QUEUESIZE
           /\ LoadedOnce'
           /\ \A k \in Loaded : k # processes[i] => k \in Loaded'
           /\ \A k \in Queue : k < queueend' /\ k \notin Loaded'
                 => k = processes[i] \/ (k < queueend /\ k \notin Loaded)
  <1>1. /\ processes \in [Slots -> Queue \cup {NULL}] /\ queueend \in 0 .. QUEUESIZE
        /\ NULL \notin Queue /\ Queue \subseteq Nat /\ queueend \in Nat
    BY ConstantTypes DEF PagingInv, TypeOK, Queue
  <1>2. /\ \A j, l \in Slots : processes[j] # NULL /\ processes[j] = processes[l] => j = l
        /\ \A j \in Slots : processes[j] # NULL => processes[j] \in Queue /\ processes[j] < queueend
        /\ queueend < QUEUESIZE => \A j \in Slots : processes[j] # NULL
    BY <1>1 DEF PagingInv, LoadedOnce, Loaded
  <1>3. CASE queueend < QUEUESIZE
    <2>1. queueend \in Queue /\ queueend' = queueend + 1 /\ queueend' \in 0 .. QUEUESIZE
      BY <1>1, <1>3, ConstantTypes DEF Reload, Queue
    <2>2. processes' = [processes EXCEPT ![i] = queueend]
      BY <1>3 DEF Reload
    <2>3. processes' \in [Slots -> Queue \cup {NULL}]
      BY <1>1, <2>1, <2>2
    <2>4. \A j \in Slots : processes'[j] = IF j = i THEN queueend ELSE processes[j]
      BY <1>1, <2>2
    <2>5. \A j, l \in Slots : processes'[j] # NULL /\ processes'[j] = processes'[l] => j = l
      <3>1. \A j \in Slots : processes[j] # queueend
        BY <1>1, <1>2, <2>1
      <3> QED BY <1>2, <2>4, <3>1
    <2>6. \A j \in Slots : processes'[j] # NULL /\ processes'[j] < queueend'
      <3>1. \A j \in Slots : processes[j] \in Nat /\ processes[j] < queueend + 1
        <4> TAKE j \in Slots
        <4>1. processes[j] \in Queue /\ processes[j] < queueend
          BY <1>2, <1>3
        <4>2. processes[j] \in Nat /\ queueend \in Nat
          BY <1>1, <4>1
        <4> QED BY <4>1, <4>2
      <3> QED BY <1>1, <1>2, <1>3, <2>1, <2>4, <3>1
    <2>7. LoadedOnce'
      BY <2>5, <2>6 DEF LoadedOnce, Loaded
    <2>8. \A k \in Loaded : k # processes[i] => k \in Loaded'
      BY <2>4 DEF Loaded
    <2>9. queueend \in Loaded'
      BY <2>1, <2>4 DEF Loaded
    <2>10. \A k \in Queue : k < queueend' /\ k # queueend => k < queueend
      BY <1>1, <2>1
    <2>11. \A k \in Queue : k < queueend' /\ k \notin Loaded'
              => k = processes[i] \/ (k < queueend /\ k \notin Loaded)
      BY <2>8, <2>9, <2>10
    <2> QED BY <2>1, <2>3, <2>7, <2>8, <2>11
  <1>4. CASE ~ (queueend < QUEUESIZE)
    <2>1. /\ processes' = [processes EXCEPT ![i] = NULL]
          /\ queueend' = queueend
      BY <1>4 DEF Reload
    <2>2. processes' \in [Slots -> Queue \cup {NULL}]
      BY <1>1, <2>1
    <2>3. \A j \in Slots : processes'[j] = IF j = i THEN NULL ELSE processes[j]
      BY <1>1, <2>1
    <2>4. LoadedOnce'
      BY <1>1, <1>2, <1>4, <2>1, <2>3 DEF LoadedOnce, Loaded
    <2>5. \A k \in Loaded : k # processes[i] => k \in Loaded'
      BY <2>3 DEF Loaded
    <2>6. \A k \in Queue : k < queueend' /\ k \notin Loaded'
              => k = processes[i] \/ (k < queueend /\ k \notin Loaded)
      BY <2>1, <2>5
    <2>7. queueend' \in 0 .. QUEUESIZE
      BY <1>1, <2>1
    <2> QED BY <2>2, <2>4, <2>5, <2>6, <2>7
  <1> QED BY <1>3, <1>4

LEMMA AdvanceLoop ==
    ASSUME PagingInv, NEW i \in Slots, StepPhase(i), Advance(i)
    PROVE  /\ phase' \in {"step", "age"}
           /\ cursor' \in Slots
  BY ConstantTypes DEF StepPhase, Advance, Slots

LEMMA EmptySlotPaging ==
    ASSUME PagingInv, NEW i \in Slots, EmptySlot(i)
    PROVE  PagingInv'
  <1> USE DEF EmptySlot, pageVars
  <1>1. Held' = Held
    BY DEF Held, HasFrame
  <1>2. TypeOK'
    BY ReloadSlot, AdvanceLoop DEF PagingInv, TypeOK
  <1>3. FramesConserved'
    BY <1>1 DEF PagingInv, FramesConserved
  <1>4. NoFrameLeaked'
    BY <1>1, ReloadSlot, ConstantTypes DEF PagingInv, NoFrameLeaked, Loaded
  <1>5. Returned'
    BY ReloadSlot, ConstantTypes DEF PagingInv, Returned, AtExit
  <1>6. LoadedOnce' /\ DoneEmpty'
    BY ReloadSlot, AdvanceLoop DEF DoneEmpty
  <1> QED BY <1>2, <1>3, <1>4, <1>5, <1>6 DEF PagingInv, LinesInRange, InProgram

LEMMA UnloadPaging ==
    ASSUME PagingInv, NEW i \in Slots, Unload(i)
    PROVE  PagingInv'
  <1> DEFINE k    == processes[i]
             held == {page \in Pages : pages[k][page] >= - PAGEWAIT}
             back == {k} \X held
  <1> USE DEF Unload
  <1>1. k \in Queue /\ k \in Loaded /\ AtExit(k)
    BY DEF PagingInv, TypeOK, Runs, Loaded
  <1>2. /\ pages' = [pages EXCEPT ![k] = [page \in Pages |-> FREE]]
        /\ pages' \in [Queue -> [Pages -> Ages]]
    BY <1>1, ConstantTypes DEF PagingInv, TypeOK, Ages
  <1>3. \A page \in Pages : page \in held <=> HasFrame(k, page)
    <2>1. \A page \in Pages : pages[k][page] \in Ages
      BY <1>1 DEF PagingInv, TypeOK
    <2> QED BY <2>1, ConstantTypes DEF Ages, HasFrame
  <1>4. back \subseteq Held /\ Held' = Held \ back
    <2>1. \A x \in Queue \X Pages : x \in back <=> x \in Held /\ x[1] = k
      BY <1>1, <1>3 DEF Held
    <2>2. \A x \in Queue \X Pages : x \in Held' <=> x \in Held /\ x[1] # k
      BY <1>2, ConstantTypes DEF Held, HasFrame, PagingInv, TypeOK
    <2>3. back \subseteq Queue \X Pages
      BY <1>1
    <2> QED BY <2>1, <2>2, <2>3 DEF Held
  <1>5. Cardinality(back) = Cardinality(held)
    <2>1. IsFiniteSet(Pages)
      BY FS_Interval, SizeAssumption DEF Pages
    <2>2. IsFiniteSet({k}) /\ Cardinality({k}) = 1
      BY FS_Singleton
    <2>3. IsFiniteSet(held) /\ Cardinality(held) \in Nat
      BY <2>1, FS_Subset, FS_CardinalityType
    <2>4. Cardinality(back) = Cardinality({k}) * Cardinality(held)
      BY <2>2, <2>3, FS_Product
    <2> QED BY <2>2, <2>3, <2>4
  <1>6. FramesConserved' /\ pagesavail' \in 0 .. PHYSICALPAGES
    <2>1. pagesavail' = pagesavail + Cardinality(back)
      BY <1>5
    <2> QED BY <1>4, <2>1, GiveBack
  <1>7. TypeOK'
    BY <1>2, <1>6, ReloadSlot, AdvanceLoop DEF PagingInv, TypeOK, Runs
  <1>8. NoFrameLeaked'
    <2> SUFFICES ASSUME NEW x \in Held' PROVE x[1] \in Loaded'
      BY DEF NoFrameLeaked
    <2>1. x \in Held /\ x[1] # k
      BY <1>4, <1>1, <1>3 DEF Held
    <2> QED BY <2>1, ReloadSlot DEF PagingInv, NoFrameLeaked
  <1>9. Returned'
    BY <1>1, ReloadSlot, ConstantTypes DEF PagingInv, Returned, AtExit
  <1>10. LoadedOnce' /\ DoneEmpty'
    BY ReloadSlot, AdvanceLoop DEF DoneEmpty, Runs
  <1> QED BY <1>6, <1>7, <1>8, <1>9, <1>10 DEF PagingInv, LinesInRange, InProgram

\* A process that waits changes nothing but the place of the loop.
LEMMA BlockedPaging ==
    ASSUME PagingInv, NEW i \in Slots, Blocked(i)
    PROVE  PagingInv'
  <1> USE DEF Blocked, procVars, pageVars
  <1>1. Held' = Held /\ Loaded' = Loaded
    BY DEF Held, HasFrame, Loaded
  <1>2. TypeOK' /\ DoneEmpty'
    BY AdvanceLoop DEF PagingInv, TypeOK, DoneEmpty
  <1> QED BY <1>1, <1>2
          DEF PagingInv, FramesConserved, NoFrameLeaked, LoadedOnce, LinesInRange, InProgram, Returned, AtExit

LEMMA MovePaging ==
    ASSUME PagingInv, NEW i \in Slots, Runs(i),
           NEW line, InProgram(processes[i], line), MoveTo(i, line)
    PROVE  PagingInv'
  <1> USE DEF Runs, MoveTo, pageVars
  <1>1. Held' = Held /\ Loaded' = Loaded
    BY DEF Held, HasFrame, Loaded
  <1>2. processes[i] \in Queue /\ processes[i] \in Loaded
    BY DEF PagingInv, TypeOK, Loaded
  <1>3. TypeOK' /\ DoneEmpty'
    <2>1. line \in Nat
      BY <1>2, ProgramLines DEF InProgram
    <2> QED BY <1>2, <2>1, AdvanceLoop DEF PagingInv, TypeOK, DoneEmpty
  <1>4. Returned'
    BY <1>1, <1>2 DEF PagingInv, TypeOK, Returned, AtExit
  <1>5. LinesInRange'
    BY <1>2 DEF PagingInv, TypeOK, LinesInRange, InProgram
  <1> QED BY <1>1, <1>3, <1>4, <1>5
          DEF PagingInv, FramesConserved, NoFrameLeaked, LoadedOnce

\* Wherever a step of process_step goes, it stays in the program.
LEMMA BranchInProgram ==
    ASSUME NEW k \in Queue, NEW line \in Nat
    PROVE  InProgram(k, InRange(line, Program(k).size - 1))
  BY ProgramLines DEF InProgram, InRange

LEMMA StepPaging ==
    ASSUME PagingInv, NEW i \in Slots, ProcessStep(i)
    PROVE  PagingInv'
  <1>1. CASE EmptySlot(i) BY <1>1, EmptySlotPaging
  <1>2. CASE Blocked(i)   BY <1>2, BlockedPaging
  <1>3. CASE Unload(i)    BY <1>3, UnloadPaging
  <1>4. ASSUME Runs(i)
        PROVE  /\ processes[i] \in Queue /\ pc[processes[i]] \in Nat
               /\ InProgram(processes[i], pc[processes[i]])
               /\ \A b \in BranchAt(processes[i]) : b.whereto \in Nat
    <2>1. processes[i] \in Queue /\ pc[processes[i]] \in Nat
      BY <1>4 DEF Runs, PagingInv, TypeOK
    <2> QED BY <2>1, ProgramLines DEF BranchAt, PagingInv, LinesInRange
  <1>5. CASE TakeBranch(i)
    <2>1. PICK b \in BranchAt(processes[i]) :
             MoveTo(i, InRange(b.whereto, Program(processes[i]).size - 1))
      BY <1>5 DEF TakeBranch
    <2>2. InProgram(processes[i], InRange(b.whereto, Program(processes[i]).size - 1))
      <3>1. Runs(i)
        BY <1>5 DEF TakeBranch
      <3> QED BY <1>4, <3>1, BranchInProgram
    <2> QED BY <1>5, <2>1, <2>2, MovePaging DEF TakeBranch
  <1>6. CASE PassBranch(i)
    <2>1. InProgram(processes[i], InRange(pc[processes[i]] + 1, Program(processes[i]).size - 1))
      <3>1. Runs(i)
        BY <1>6 DEF PassBranch
      <3>2. pc[processes[i]] + 1 \in Nat
        BY <1>4, <3>1
      <3> QED BY <1>4, <3>1, <3>2, BranchInProgram
    <2> QED BY <1>6, <2>1, MovePaging DEF PassBranch
  <1>7. CASE NextLine(i)
    <2> DEFINE k == processes[i]
    <2>1. InProgram(k, InRange(pc[k] + 1, Program(k).size))
      <3>1. k \in Queue /\ pc[k] \in Nat /\ pc[k] \notin Program(k).exits
        BY <1>4, <1>7 DEF NextLine, AtExit
      <3>2. Program(k).size \in Nat \ {0}
        BY <3>1, ProgramLines
      <3> HIDE DEF k
      <3>3. CASE pc[k] + 1 > Program(k).size
        BY <3>2, <3>3 DEF InProgram, InRange
      <3>4. CASE pc[k] + 1 <= Program(k).size
        <4>1. pc[k] + 1 = Program(k).size => pc[k] = Program(k).size - 1
          BY <3>1, <3>2
        <4> QED BY <3>1, <3>2, <3>4, <4>1 DEF InProgram, InRange
      <3> QED BY <3>1, <3>2, <3>3, <3>4
    <2> QED BY <1>7, <2>1, MovePaging DEF NextLine
  <1> QED BY <1>1, <1>2, <1>3, <1>5, <1>6, <1>7 DEF ProcessStep

LEMMA AllDonePaging == PagingInv /\ AllDone => PagingInv'
  <1> SUFFICES ASSUME PagingInv, AllDone PROVE PagingInv'
    OBVIOUS
  <1> USE DEF AllDone, procVars, pageVars
  <1>1. Held' = Held /\ Loaded' = Loaded
    BY DEF Held, HasFrame, Loaded
  <1>2. TypeOK' /\ DoneEmpty'
    BY <1>1 DEF PagingInv, TypeOK, DoneEmpty
  <1> QED BY <1>1, <1>2
          DEF PagingInv, FramesConserved, NoFrameLeaked, LoadedOnce, LinesInRange, InProgram, Returned, AtExit

-----------------------------------------------------------------------------
(* allage *)

LEMMA AgedRange ==
    ASSUME NEW age \in Ages
    PROVE  /\ Aged(age) \in Ages
           /\ Aged(age) = FREE <=> age \in {FREE, - PAGEWAIT}
  BY ConstantTypes DEF Ages, Aged

LEMMA AgePaging == PagingInv /\ Age => PagingInv'
  <1> SUFFICES ASSUME PagingInv, Age PROVE PagingInv'
    OBVIOUS
  <1> DEFINE leaving == {x \in Loaded \X Pages : pages[x[1]][x[2]] = - PAGEWAIT}
  <1> USE DEF Age, procVars
  <1>1. Loaded' = Loaded /\ Loaded \subseteq Queue
    BY DEF Loaded
  <1>2. \A k \in Queue, page \in Pages :
           /\ pages[k][page] \in Ages
           /\ pages'[k][page] = IF k \in Loaded THEN Aged(pages[k][page]) ELSE pages[k][page]
    BY DEF PagingInv, TypeOK
  <1>3. pages' \in [Queue -> [Pages -> Ages]]
    BY <1>2, AgedRange DEF PagingInv, TypeOK
  <1>4. leaving \subseteq Held /\ Held' = Held \ leaving
    <2>1. \A x \in Queue \X Pages : x \in leaving
             <=> x[1] \in Loaded /\ pages[x[1]][x[2]] = - PAGEWAIT
      BY <1>1
    <2>2. \A x \in leaving : x \in Held
      BY <1>1, ConstantTypes DEF Held, HasFrame
    <2>3. \A x \in Queue \X Pages : x \in Held' <=> x \in Held /\ x \notin leaving
      BY <1>2, <2>1, AgedRange, ConstantTypes DEF Held, HasFrame, PagingInv, NoFrameLeaked
    <2> QED BY <2>2, <2>3 DEF Held
  <1>5. FramesConserved' /\ pagesavail' \in 0 .. PHYSICALPAGES
    BY <1>4, GiveBack
  <1>6. TypeOK' /\ DoneEmpty'
    BY <1>3, <1>5 DEF PagingInv, TypeOK, DoneEmpty
  <1>7. NoFrameLeaked'
    BY <1>1, <1>4 DEF PagingInv, NoFrameLeaked
  <1> QED BY <1>1, <1>5, <1>6, <1>7 DEF PagingInv, LoadedOnce, LinesInRange, InProgram, Returned, AtExit

-----------------------------------------------------------------------------
(* pagein, pageout *)

LEMMA PageinPaging ==
    ASSUME PagingInv, NEW i \in Slots, NEW page \in Pages,
           StartPagein(i, page), UNCHANGED <<procVars, cursor>>,
           phase' \in {"pager", "step"}
    PROVE  PagingInv'
  <1> DEFINE k == processes[i]
  <1> USE DEF StartPagein, PageinStarts, Valid, procVars
  <1>1. k \in Queue /\ k \in Loaded /\ Loaded' = Loaded
    BY DEF PagingInv, TypeOK, Loaded
  <1>2. /\ pages[k][page] = FREE
        /\ pages' = [pages EXCEPT ![k][page] = PAGEWAIT]
        /\ pages' \in [Queue -> [Pages -> Ages]]
    <2>1. pages[k][page] \in Ages /\ PAGEWAIT \in Ages
      BY <1>1, ConstantTypes DEF PagingInv, TypeOK, Ages
    <2>2. pages[k][page] = FREE
      BY <2>1, ConstantTypes DEF Ages
    <2> QED BY <1>1, <2>1, <2>2 DEF PagingInv, TypeOK
  <1>3. <<k, page>> \notin Held /\ Held' = Held \cup {<<k, page>>}
    <2>1. <<k, page>> \in Queue \X Pages /\ <<k, page>> \notin Held
      BY <1>1, <1>2 DEF Held, HasFrame
    <2>2. \A x \in Queue \X Pages : x \in Held' <=> x \in Held \/ x = <<k, page>>
      BY <1>1, <1>2, ConstantTypes DEF Held, HasFrame, PagingInv, TypeOK
    <2> QED BY <2>1, <2>2 DEF Held
  <1>4. FramesConserved'
    <2>1. Cardinality(Held') = Cardinality(Held) + 1
      BY <1>3, FiniteHeld, FS_AddElement
    <2>2. /\ pagesavail \in Nat /\ pagesavail' = pagesavail - 1
          /\ pagesavail + Cardinality(Held) = PHYSICALPAGES
      BY ConstantTypes DEF PagingInv, TypeOK, FramesConserved
    <2> QED BY <2>1, <2>2, FiniteHeld, ConstantTypes DEF FramesConserved
  <1>5. TypeOK' /\ DoneEmpty'
    BY <1>1, <1>2, ConstantTypes DEF PagingInv, TypeOK, DoneEmpty
  <1>6. NoFrameLeaked'
    BY <1>1, <1>3 DEF PagingInv, NoFrameLeaked
  <1> QED BY <1>1, <1>4, <1>5, <1>6 DEF PagingInv, LoadedOnce, LinesInRange, InProgram, Returned, AtExit

LEMMA PageoutPaging ==
    ASSUME PagingInv, NEW i \in Slots, NEW page \in Pages,
           StartPageout(i, page), UNCHANGED <<procVars, phase, cursor>>
    PROVE  PagingInv'
  <1> DEFINE k == processes[i]
  <1> USE DEF StartPageout, PageoutStarts, Valid, procVars
  <1>1. k \in Queue /\ k \in Loaded /\ Loaded' = Loaded
    BY DEF PagingInv, TypeOK, Loaded
  <1>2. /\ pages[k][page] = 0
        /\ pages' = [pages EXCEPT ![k][page] = -1]
        /\ pages' \in [Queue -> [Pages -> Ages]]
    BY <1>1, ConstantTypes DEF PagingInv, TypeOK, Ages, Resident
  <1>3. Held' = Held
    <2>1. \A x \in Queue \X Pages : x \in Held' <=> x \in Held
      BY <1>1, <1>2, ConstantTypes DEF Held, HasFrame, PagingInv, TypeOK
    <2> QED BY <2>1 DEF Held
  <1>4. TypeOK' /\ DoneEmpty'
    BY <1>1, <1>2 DEF PagingInv, TypeOK, DoneEmpty
  <1> QED BY <1>1, <1>3, <1>4
          DEF PagingInv, FramesConserved, NoFrameLeaked, LoadedOnce, LinesInRange, InProgram, Returned, AtExit

-----------------------------------------------------------------------------
LEMMA NextPaging == PagingInv /\ [Next]_vars => PagingInv'
  <1> SUFFICES ASSUME PagingInv, [Next]_vars PROVE PagingInv'
    OBVIOUS
  <1>1. ASSUME NEW i \in Slots, ProcessStep(i) PROVE PagingInv'
    BY <1>1, StepPaging
  <1>2. CASE AllDone BY <1>2, AllDonePaging
  <1>3. CASE Age     BY <1>3, AgePaging
  <1>4. CASE PagerCall
    BY <1>4, PageinPaging, PageoutPaging DEF PagerCall, loopVars
  <1>5. CASE PagerReturn \/ UNCHANGED vars
    <2> USE <1>5 DEF PagerReturn, vars, procVars, pageVars, loopVars
    <2>1. Held' = Held /\ Loaded' = Loaded
      BY DEF Held, HasFrame, Loaded
    <2>2. TypeOK' /\ DoneEmpty'
      BY <2>1 DEF PagingInv, TypeOK, DoneEmpty
    <2> QED BY <2>1, <2>2
            DEF PagingInv, FramesConserved, NoFrameLeaked, LoadedOnce, LinesInRange, InProgram, Returned, AtExit
  <1> QED BY <1>1, <1>2, <1>3, <1>4, <1>5 DEF Next, Simulate

LEMMA PagingInvariant == Spec => []PagingInv
  <1> QED BY InitPaging, NextPaging, PTL DEF Spec

\* Type correctness: the number of free frames, to name one, never leaves
\* 0 .. PHYSICALPAGES, and no page is older than a transfer takes.
THEOREM PagingTypeCorrect == Spec => []TypeOK
  <1>1. PagingInv => TypeOK
    BY DEF PagingInv
  <1> QED BY <1>1, PagingInvariant, PTL

\* Free frames and held frames always add up to PHYSICALPAGES.
THEOREM Conservation == Spec => []FramesConserved
  <1>1. PagingInv => FramesConserved
    BY DEF PagingInv
  <1> QED BY <1>1, PagingInvariant, PTL

\* Only loaded processes hold frames.
THEOREM NoLeak == Spec => []NoFrameLeaked
  <1>1. PagingInv => NoFrameLeaked
    BY DEF PagingInv
  <1> QED BY <1>1, PagingInvariant, PTL

\* Every entry of the queue is loaded once and in order.
THEOREM QueueOrder == Spec => []LoadedOnce
  <1>1. PagingInv => LoadedOnce
    BY DEF PagingInv
  <1> QED BY <1>1, PagingInvariant, PTL

\* When main leaves its loop, every queue entry has come to an exit and every
\* frame is free again.
THEOREM AllCompleted == Spec => []AllReturned
  <1>1. PagingInv => AllReturned
    <2> SUFFICES ASSUME PagingInv, phase = "done" PROVE AllReturned
      BY DEF AllReturned
    <2>1. Loaded = {}
      BY DEF PagingInv, DoneEmpty
    <2>2. queueend = QUEUESIZE
      <3>1. 0 \in Slots /\ processes[0] = NULL
        BY <2>1, ConstantTypes DEF Slots, Loaded, PagingInv, TypeOK
      <3> QED BY <3>1, ConstantTypes DEF PagingInv, TypeOK, LoadedOnce
    <2>3. \A k \in Queue : AtExit(k)
      BY <2>1, <2>2, ConstantTypes DEF PagingInv, Returned, Queue
    <2>4. Held = {}
      BY <2>1 DEF PagingInv, NoFrameLeaked
    <2>5. pagesavail = PHYSICALPAGES
      BY <2>4, FS_EmptySet, ConstantTypes DEF PagingInv, TypeOK, FramesConserved
    <2> QED BY <2>2, <2>3, <2>5 DEF AllReturned
  <1> QED BY <1>1, PagingInvariant, PTL

-----------------------------------------------------------------------------
(* The page of a line *)

LEMMA DivRange ==
    ASSUME NEW a \in Nat, NEW p \in Nat \ {0}
    PROVE  /\ a \div p \in Nat
           /\ p * (a \div p) <= a
           /\ a < p * (a \div p) + p
  BY SMT

LEMMA TimesMonotone ==
    ASSUME NEW a \in Int, NEW b \in Int, NEW p \in Nat, a <= b
    PROVE  p * a <= p * b
  BY SMT

LEMMA DivMonotone ==
    ASSUME NEW a \in Nat, NEW b \in Nat, NEW p \in Nat \ {0}, a <= b
    PROVE  a \div p <= b \div p
  <1>1. a \div p \in Nat /\ b \div p \in Nat
    BY DivRange
  <1> SUFFICES ASSUME ~ (a \div p <= b \div p) PROVE FALSE
    OBVIOUS
  <1>2. (b \div p) + 1 <= a \div p
    BY <1>1
  <1>3. p * ((b \div p) + 1) <= p * (a \div p)
    BY <1>1, <1>2, TimesMonotone
  <1>4. p * ((b \div p) + 1) = p * (b \div p) + p
    BY <1>1
  <1> DEFINE low  == p * (b \div p)
             high == p * (a \div p)
  <1>5. /\ low \in Int /\ high \in Int
        /\ b < low + p /\ high <= a /\ low + p <= high
    BY <1>1, <1>3, <1>4, DivRange
  <1> HIDE DEF low, high
  <1> QED BY <1>5

LEMMA PageExists ==
    ASSUME NEW k \in Queue, NEW line, InProgram(k, line)
    PROVE  PageOf(line) \in Pages
  <1> DEFINE size == Program(k).size
  <1>1. /\ size \in Nat \ {0} /\ line \in 0 .. size
        /\ PAGESIZE \in Nat \ {0} /\ MAXPROCPAGES \in Nat
    BY ProgramLines, SizeAssumption DEF InProgram
  <1>2. /\ (size - 1) \div PAGESIZE < MAXPROCPAGES
        /\ line = size => size \div PAGESIZE < MAXPROCPAGES
    BY ProgramLines DEF InProgram
  <1> HIDE DEF size
  <1>3. line \div PAGESIZE \in Nat /\ line \div PAGESIZE < MAXPROCPAGES
    <2>1. CASE line = size
      BY <1>1, <1>2, <2>1, DivRange
    <2>2. CASE line # size
      <3>1. line <= size - 1 /\ size - 1 \in Nat /\ line \in Nat
        BY <1>1, <2>2
      <3>2. line \div PAGESIZE <= (size - 1) \div PAGESIZE
        BY <1>1, <3>1, DivMonotone
      <3>3. line \div PAGESIZE \in Nat /\ (size - 1) \div PAGESIZE \in Nat
        BY <1>1, <3>1, DivRange
      <3> QED BY <1>1, <1>2, <3>2, <3>3
    <2> QED BY <2>1, <2>2
  <1> QED BY <1>1, <1>3 DEF PageOf, Pages

\* The page of the current line is always one of the process's pages: the
\* simulator never reads beyond the table "pages" of a process.
THEOREM PagesExist == Spec => []PagesInRange
  <1>1. PagingInv => PagesInRange
    BY PageExists DEF PagingInv, LinesInRange, PagesInRange, Current
  <1> QED BY <1>1, PagingInvariant, PTL

-----------------------------------------------------------------------------
(* Transfers *)

\* The process that is unloaded is not loaded again.
LEMMA UnloadedLeaves ==
    ASSUME PagingInv, NEW i \in Slots, Unload(i)
    PROVE  processes[i] \in Loaded /\ processes[i] \notin Loaded'
  <1>1. /\ processes \in [Slots -> Queue \cup {NULL}]
        /\ processes[i] \in Queue /\ NULL \notin Queue
        /\ processes[i] \in Loaded
    BY ConstantTypes DEF PagingInv, TypeOK, Unload, Runs, Loaded
  <1>2. \A j \in Slots : j # i => processes'[j] # processes[i]
    BY <1>1 DEF PagingInv, LoadedOnce, Unload, Reload
  <1>3. processes'[i] # processes[i]
    <2>1. processes[i] < queueend /\ queueend \in Nat /\ processes[i] \in Nat
      BY <1>1, ConstantTypes DEF PagingInv, TypeOK, LoadedOnce, Queue
    <2> QED BY <1>1, <2>1 DEF Unload, Reload
  <1> QED BY <1>1, <1>2, <1>3 DEF Loaded

LEMMA TransitStep ==
    ASSUME PagingInv, Next, NEW k \in Queue, NEW page \in Pages,
           pages[k][page] \notin {FREE, 0}, pages'[k][page] # pages[k][page]
    PROVE  \/ pages'[k][page] = Aged(pages[k][page])
           \/ pages'[k][page] = FREE /\ k \in Loaded /\ k \notin Loaded'
  <1>1. pages \in [Queue -> [Pages -> Ages]] /\ pages[k][page] \in Ages
    BY DEF PagingInv, TypeOK
  <1>2. pages' # pages
    OBVIOUS
  <1>3. CASE \E i \in Slots : ProcessStep(i)
    <2>1. PICK i \in Slots : Unload(i)
      BY <1>2, <1>3 DEF ProcessStep, EmptySlot, Blocked, TakeBranch, PassBranch,
                        NextLine, MoveTo, pageVars
    <2>2. processes[i] = k /\ pages'[k][page] = FREE
      BY <1>1, <2>1 DEF Unload
    <2> QED BY <2>1, <2>2, UnloadedLeaves
  <1>4. CASE AllDone
    BY <1>2, <1>4 DEF AllDone, pageVars
  <1>5. CASE Age
    BY <1>1, <1>5 DEF Age
  <1>6. CASE PagerCall
    <2>1. PICK i \in Slots, p \in Pages : StartPagein(i, p) \/ StartPageout(i, p)
      BY <1>6 DEF PagerCall
    <2>2. CASE StartPagein(i, p)
      <3>1. pages[processes[i]][p] < - PAGEWAIT
        BY <2>2 DEF StartPagein, PageinStarts
      <3>2. ~ (pages[k][page] < - PAGEWAIT)
        BY <1>1, ConstantTypes DEF Ages
      <3> QED BY <1>1, <2>2, <3>1, <3>2 DEF StartPagein
    <2>3. CASE StartPageout(i, p)
      BY <1>1, <2>3 DEF StartPageout, PageoutStarts, Resident
    <2> QED BY <2>1, <2>2, <2>3
  <1>7. CASE PagerReturn
    BY <1>2, <1>7 DEF PagerReturn, pageVars
  <1> QED BY <1>3, <1>4, <1>5, <1>6, <1>7 DEF Next, Simulate

\* A page in transit goes on tick by tick, whatever the pager asks for.
THEOREM Transfers == Spec => TransitCompletes
  <1>1. PagingInv /\ [Next]_vars =>
          [\A k \in Queue, page \in Pages :
             pages[k][page] \notin {FREE, 0} /\ pages'[k][page] # pages[k][page]
               => \/ pages'[k][page] = Aged(pages[k][page])
                  \/ pages'[k][page] = FREE /\ k \in Loaded /\ k \notin Loaded']_vars
    BY TransitStep
  <1> QED BY <1>1, PagingInvariant, PTL DEF Spec, TransitCompletes
=============================================================================
