------------------------------ MODULE Machine ------------------------------
(***************************************************************************)
(* What the body of a function model promises: the run of one function,    *)
(* one basic block at a time.                                              *)
(*                                                                         *)
(* A block of the function leaves for one of its successors, a jal for its *)
(* target; a block without successor (jalr) returns.  A callee is one step *)
(* that goes back to the address after the jal, or, when no jal linked,    *)
(* returns for the function (a tail call).  Home stands for the return     *)
(* address of the function, which is outside of it.                        *)
(***************************************************************************)
EXTENDS FlowGraph

Home     == 0
NoTarget == 0

VARIABLES
  graph,      \* a graph with the jal target of a block and the address after it
  pc,
  link        \* where the callee being called returns to

vars == <<graph, pc, link>>

Own(block) == block \in Blocks(graph) /\ ~ IsCallee(graph, block)

Returns(block) == graph.succ[block] = {}

Destinations(block) ==
  IF graph.target[block] = NoTarget THEN graph.succ[block] ELSE {graph.target[block]}

RunBlock ==
  /\ Own(pc)
  /\ IF Returns(pc) THEN pc' = Home ELSE pc' \in Destinations(pc)
  /\ link' = graph.after[pc]
  /\ UNCHANGED graph

RunCallee ==
  /\ IsCallee(graph, pc)
  /\ pc' = link
  /\ UNCHANGED <<graph, link>>

Next == RunBlock \/ RunCallee

Init == pc = graph.entry /\ link = Home

Spec == Init /\ [][Next]_vars

(* The machine does not stop before the function returns.                  *)
FairSpec == Spec /\ WF_vars(Next)
=============================================================================
