--------------------------- MODULE MCPagerPredict --------------------------
(***************************************************************************)
(* Small instances of PagerPredict.                                        *)
(***************************************************************************)
EXTENDS PagerPredict

\* Two pages back and forth, as programs[1].
Round == [size     |-> 6,
          branches |-> {[wherefrom |-> 4, whereto |-> 0, btype |-> "FOR", min |-> 1, max |-> 3]},
          exits    |-> {5}]

\* An IF over one page, and a loop, as programs[0] and programs[4].
Skip == [size     |-> 6,
         branches |-> {[wherefrom |-> 1, whereto |-> 4, btype |-> "IF"],
                       [wherefrom |-> 4, whereto |-> 1, btype |-> "NFOR", min |-> 1, max |-> 1]},
         exits    |-> {5}]

\* A straight line, as programs[3].
Line == [size |-> 5, branches |-> {}, exits |-> {4}]

Jump == [size     |-> 6,
         branches |-> {[wherefrom |-> 1, whereto |-> 4, btype |-> "GOTO"]},
         exits    |-> {5}]

PredictPrograms == [kind \in 0 .. 3 |-> <<Round, Skip, Line, Jump>>[kind + 1]]
=============================================================================
