--------------------------- MODULE MCControlFlow ---------------------------
(* Every graph with at most two successors for each block: the function    *)
(* starts at block 1, and the last block is inside the function, or the    *)
(* entry of a callee that is ignored or not.  The graphs of one block less *)
(* have successors that start no block.                                    *)
EXTENDS ControlFlow

CONSTANT NumBlocks

Pairs == {s \in SUBSET (1..NumBlocks) : Cardinality(s) <= 2}

Labelings(last) == {<<{1}, {}>>, <<{1, last}, {}>>, <<{1, last}, {last}>>}

GraphsOf(last) ==
  {[entry |-> 1, succ |-> s, labels |-> l[1], ignored |-> l[2]] :
     s \in [1..last -> Pairs], l \in Labelings(last)}

SmallGraphs == GraphsOf(NumBlocks) \cup GraphsOf(NumBlocks - 1)
=============================================================================
