---------------------------- MODULE MCSourceMapping ----------------------------
EXTENDS SourceMapping, SequencesExt

\* Two DIFiles of one path, as two compilation units may have, and one of another.
MCPathOf == [d1 |-> "p1", d2 |-> "p1", d3 |-> "p2"]

Function(linkage, file, code) ==
  [linkage |-> linkage, file |-> file, formals |-> 1, code |-> code]

Ins(line, declares, calls, operands) ==
  [line |-> line, declares |-> declares, calls |-> calls, operands |-> operands]

Constant(c) == << "constant", c >>

\* A variable is declared by a call of dbg.declare.
MCFunctions ==
  { Function("defined", "d1",
      << Ins(1, None, "nothing", << GlobalValue("g"), Constant("1") >>),
         Ins(None, "v", "function", << >>) >>),
    Function("defined", "d2",
      << Ins(2, "v", "function", << Constant("1") >>), Ins(None, None, "loader", << >>) >>),
    Function("defined", "d3",
      << Ins(3, None, "indirect", << >>), Ins(3, "w", "function", << >>) >>),
    Function("defined", None, << Ins(4, "w", "function", << >>) >>),
    Function("available_externally", "d3", << Ins(5, None, "nothing", << >>) >>),
    Function("declaration", "d2", << >>) }

MCModules ==
  {[globals |-> << "g" >>, functions |-> s] : s \in BoundedSeq(MCFunctions, 3)}

\* No list, one whose only name no function has, and one that leaves out the
\* function between two others.
MCFunctionLists == {{}, {0}, {1, 3}}
===============================================================================
