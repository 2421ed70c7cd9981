-------------------------- MODULE MCSymbolicBlock --------------------------
(* Every acyclic function of three blocks that calls up to two functions   *)
(* of its own, and every order that follows its flow.  A block returns,    *)
(* branches, falls through, calls or jumps.                                *)
EXTENDS SymbolicBlock, FiniteSets

OwnBlocks == {1, 2, 3}
Callees   == {4, 5}
AllBlocks == OwnBlocks \cup Callees

(* A block ends with its successors, the target of a jal and the address   *)
(* the jal links.                                                          *)
Ends(b) ==
  {[succ |-> {}, target |-> NoTarget, after |-> Home]}
    \cup {[succ |-> {t}, target |-> t, after |-> Home] : t \in AllBlocks \ {1, b}}
    \cup {[succ |-> {t, n}, target |-> NoTarget, after |-> Home] :
            t \in AllBlocks \ {1, b}, n \in AllBlocks \ {1, b}}
    \cup {[succ |-> {t, n}, target |-> t, after |-> n] :
            t \in Callees, n \in OwnBlocks \ {1, b}}

GraphOf(ends) ==
  [entry   |-> 1,
   succ    |-> [b \in AllBlocks |-> IF b \in OwnBlocks THEN ends[b].succ ELSE {}],
   target  |-> [b \in AllBlocks |-> IF b \in OwnBlocks THEN ends[b].target ELSE NoTarget],
   after   |-> [b \in AllBlocks |-> IF b \in OwnBlocks THEN ends[b].after ELSE Home],
   labels  |-> {1} \cup Callees,
   ignored |-> {}]

AllGraphs == {GraphOf(<<e, f, h>>) : e \in Ends(1), f \in Ends(2), h \in Ends(3)}

Orders(g) ==
  LET blocks == FunctionBlocks(g)
      n == Cardinality(blocks)
  IN  {o \in [1..n -> blocks] : IsFlowOrder(g, o)}

TranslationsOf(graphs) == UNION {{[graph |-> g, order |-> o] : o \in Orders(g)} : g \in graphs}

ByJal == TranslationsOf({g \in AllGraphs : CallsByJal(g)})
=============================================================================
