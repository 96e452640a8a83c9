----------------------------- MODULE MCPageSim -----------------------------
(***************************************************************************)
(* Small instances of PageSim.  The programs are those of programs.c in    *)
(* miniature: a loop with an IF inside, a straight line without branches,  *)
(* a GOTO, and one that runs beyond its last line.                         *)
(***************************************************************************)
EXTENDS PageSim

Loop == [size     |-> 4,
         branches |-> {[wherefrom |-> 0, whereto |-> 2, btype |-> "IF"],
                       [wherefrom |-> 2, whereto |-> 0, btype |-> "FOR"]},
         exits    |-> {3}]

Line == [size |-> 3, branches |-> {}, exits |-> {2}]

Jump == [size     |-> 4,
         branches |-> {[wherefrom |-> 1, whereto |-> 3, btype |-> "GOTO"]},
         exits    |-> {3}]

\* The default step leaves the last line, which is not an exit.
Over == [size     |-> 3,
         branches |-> {[wherefrom |-> 0, whereto |-> 2, btype |-> "IF"]},
         exits    |-> {1}]

TwoPrograms   == [kind \in 0 .. 1 |-> <<Loop, Line>>[kind + 1]]
ThreePrograms == [kind \in 0 .. 2 |-> <<Loop, Line, Jump>>[kind + 1]]
OverPrograms  == [kind \in 0 .. 2 |-> <<Loop, Over, Line>>[kind + 1]]
=============================================================================
