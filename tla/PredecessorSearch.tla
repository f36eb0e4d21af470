--------------------------- MODULE PredecessorSearch ---------------------------
(***************************************************************************)
(* transitivePredecessors (lib/Utils.cpp): the worklist search for the     *)
(* blocks from which a block can be reached.  llvm::predecessors lists a   *)
(* block once for each edge from it, so a sequence of predecessors may     *)
(* repeat a block, and a block may be its own predecessor.                 *)
(***************************************************************************)
EXTENDS Naturals, Sequences, FiniteSets, SequencesExt

CONSTANTS
  Blocks,  \* the blocks of the function
  Graphs   \* the predecessor lists it may have: functions on Blocks

ASSUME GraphsAssumption == Graphs \subseteq [Blocks -> Seq(Blocks)]

VARIABLES
  preds,   \* llvm::predecessors; never changes
  block,   \* the argument; never changes
  q,       \* the worklist
  blocks   \* the result so far

vars == << preds, block, q, blocks >>

Init ==
  /\ preds \in Graphs
  /\ block \in Blocks
  /\ q = preds[block]
  /\ blocks = {}

\* The head has been visited.
Continue ==
  /\ q # <<>>
  /\ Head(q) \in blocks
  /\ q' = Tail(q)
  /\ UNCHANGED << preds, block, blocks >>

\* Mutant: what a visit pushes replaces what was waiting.
VisitDroppingQueue ==
  /\ q # <<>>
  /\ Head(q) \notin blocks
  /\ blocks' = blocks \cup {Head(q)}
  /\ q' = preds[Head(q)]
  /\ UNCHANGED << preds, block >>

\* Mutant: the test for a visited block is left out.
VisitAgain ==
  /\ q # <<>>
  /\ blocks' = blocks \cup {Head(q)}
  /\ q' = Tail(q) \o preds[Head(q)]
  /\ UNCHANGED << preds, block >>

\* Mutant: the search starts from the block itself, not its predecessors.
VisitBlock ==
  /\ q # <<>>
  /\ Head(q) \notin blocks
  /\ blocks' = blocks \cup {Head(q), block}
  /\ q' = Tail(q) \o preds[Head(q)]
  /\ UNCHANGED << preds, block >>

\* Mutant: what is pushed is getSinglePredecessor(), null unless there is just one.
VisitSinglePredecessor ==
  /\ q # <<>>
  /\ Head(q) \notin blocks
  /\ blocks' = blocks \cup {Head(q)}
  /\ LET edges == preds[Head(q)]
     IN  q' = Append(Tail(q), IF Len(edges) = 1 THEN edges[1] ELSE "nullptr")
  /\ UNCHANGED << preds, block >>

Visit ==
  /\ q # <<>>
  /\ Head(q) \notin blocks
  /\ blocks' = blocks \cup {Head(q)}
  /\ q' = Tail(q) \o preds[Head(q)]
  /\ UNCHANGED << preds, block >>

Return == q = <<>> /\ UNCHANGED vars

Next == Continue \/ Visit \/ Return

\* The search is one thread that is never blocked.
Spec == Init /\ [][Next]_vars /\ WF_vars(Continue \/ Visit)

-------------------------------------------------------------------------------
TypeOK ==
  /\ preds \in Graphs
  /\ block \in Blocks
  /\ q \in Seq(Blocks)
  /\ blocks \subseteq Blocks

\* S holds the predecessors of b and, with a block, its predecessors.
HasPredecessors(S, b) == ToSet(preds[b]) \subseteq S

Closed(S) == HasPredecessors(S, block) /\ \A b \in S : HasPredecessors(S, b)

\* Nothing is found or waiting that is not a transitive predecessor.
OnlyPredecessors ==
  \A S \in SUBSET Blocks : Closed(S) => blocks \cup ToSet(q) \subseteq S

\* Nothing is forgotten: what the result lacks to be closed is waiting.
NothingForgotten ==
  \A b \in blocks \cup {block} : HasPredecessors(blocks \cup ToSet(q), b)

\* When the search returns, on any graph, with cycles, self-loops and repeated
\* edges, its result is the least closed set: the transitive predecessors, the
\* block itself included exactly when it is on a cycle.
ReturnsTransitivePredecessors ==
  q = <<>> =>
    /\ Closed(blocks)
    /\ \A S \in SUBSET Blocks : Closed(S) => blocks \subseteq S

EdgesInto(S) == UNION {{b} \X DOMAIN preds[b] : b \in S}

\* The worklist never holds more than one entry for each edge of the graph, with
\* those it began with, so its size is bounded on a cyclic graph too.  It follows
\* from EveryStepIsProgress below, which is what the run checks.
WorklistBounded == Len(q) <= Len(preds[block]) + Cardinality(EdgesInto(Blocks))

\* What waits, and what may still be pushed.
WorkLeft == Len(q) + Cardinality(EdgesInto(Blocks \ blocks))

\* Every step brings the search one step nearer its end, a visit that makes the
\* worklist longer too: its length is no measure of the work that is left.
EveryStepIsProgress == [][WorkLeft' = WorkLeft - 1]_vars

\* The search returns.
Returns == <>(q = <<>>)

-------------------------------------------------------------------------------
R == INSTANCE ReachingValues

\* The graph as a function in which each block is one jump.
AsFunction ==
  [entry  |-> block,
   layout |-> [b \in Blocks |-> <<b>>],
   code   |-> [b \in Blocks |->
     [R!Ins("br", "void", <<>>) EXCEPT
        !.to = SetToSeq({s \in Blocks : b \in ToSet(preds[s])})]]]

\* The search returns what ReachingValues, and through it the supermutator's
\* model, takes transitivePredecessors to return.
SameAsReachingValues ==
  q = <<>> => blocks = R!transitivePredecessors(AsFunction, block)
===============================================================================
