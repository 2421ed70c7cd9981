----------------------------- MODULE FlowGraph -----------------------------
(***************************************************************************)
(* The basic blocks as the translator walks them.  A graph gathers what    *)
(* the code reads of the block map: the successors of the last line of     *)
(* each block (DOMAIN succ are the keys of the map), which blocks start at *)
(* the entry of a function, and which of those functions are ignored.      *)
(* "entry" is the address of the function being translated.                *)
(***************************************************************************)
EXTENDS Integers, Sequences, FiniteSets

Blocks(graph) == DOMAIN graph.succ

IsGraph(graph) ==
  /\ Blocks(graph) \subseteq Nat /\ IsFiniteSet(Blocks(graph))
  /\ graph.succ \in [Blocks(graph) -> SUBSET Nat]
  /\ graph.labels \subseteq Blocks(graph)
  /\ graph.ignored \subseteq graph.labels
  /\ graph.entry \in graph.labels \ graph.ignored

(* Blocks that start at the entry of a function other than the translated  *)
(* one: the translator stops there, they belong to a callee.               *)
IsCallee(graph, block) == block \in graph.labels /\ block # graph.entry

(* The least set of blocks with the entry and the successors "next".       *)
Closure(graph, next(_)) ==
  LET closed == {S \in SUBSET Blocks(graph) :
                   graph.entry \in S /\ \A a \in S : next(a) \cap Blocks(graph) \subseteq S}
  IN  {b \in Blocks(graph) : \A S \in closed : b \in S}

(* The blocks reachable from the entry, those of the callees included.     *)
CfgBlocks(graph) ==
  LET next(b) == graph.succ[b] IN Closure(graph, next)

(* The blocks of the function and the entries of the functions it reaches. *)
FunctionBlocks(graph) ==
  LET next(b) == IF IsCallee(graph, b) THEN {} ELSE graph.succ[b]
  IN  Closure(graph, next)

(* Some of these blocks wait for each other: no order can follow the flow. *)
IsCyclic(graph) ==
  \E S \in SUBSET FunctionBlocks(graph) \ {{}} :
    \A b \in S : \E a \in S : ~ IsCallee(graph, a) /\ b \in graph.succ[a]

(***************************************************************************)
(* The order cfg_to_symbolic_blk emits its guarded calls in: no block      *)
(* occurs twice, the entry occurs, and every successor of a block of the   *)
(* function comes later than the block.                                    *)
(***************************************************************************)
IsFlowOrder(graph, order) ==
  /\ order \in Seq(Blocks(graph))
  /\ \A i, j \in 1..Len(order) : order[i] = order[j] => i = j
  /\ \E i \in 1..Len(order) : order[i] = graph.entry
  /\ \A i \in 1..Len(order) :
       ~ IsCallee(graph, order[i]) =>
         \A t \in graph.succ[order[i]] : \E j \in 1..Len(order) : i < j /\ order[j] = t
=============================================================================
