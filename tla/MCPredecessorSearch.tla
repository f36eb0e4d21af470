-------------------------- MODULE MCPredecessorSearch --------------------------
EXTENDS PredecessorSearch

\* Every graph of the given blocks in which a block has at most two incoming
\* edges, from the same block or from two.
MCGraphs == [Blocks -> BoundedSeq(Blocks, 2)]
===============================================================================
