------------------------ MODULE SymbolicBlockProofs ------------------------
(***************************************************************************)
(* The straight line of guarded calls runs every path of the function to   *)
(* its return, for every graph and every order that follows its flow.      *)
(***************************************************************************)
EXTENDS SymbolicBlock, TLAPS

(* What is ahead: the statement that continues the run, and, while a       *)
(* callee runs, the one it returns to.                                     *)
First == IF part = "block" THEN i ELSE i + 1

AtCall ==
  /\ part = "call" /\ i <= Len(order)
  /\ Own(Current) /\ HasCall(Current)
  /\ pc = graph.target[Current] /\ link = graph.after[Current]

Position ==
  \/ pc = Home
  \/ ~ returned /\ Own(pc) /\ Ahead(pc, First)
  \/ ~ returned /\ AtCall

IInv ==
  /\ \E t \in Translations : graph = t.graph /\ order = t.order
  /\ TypeOK
  /\ CallsByJal(graph) /\ ~ done => Position
  /\ CallsByJal(graph) /\ done => pc = Home
  /\ done => i > Len(order)

USE DEF Home, M!Home, NoTarget, M!NoTarget

LEMMA OwnBlocks ==
  \A b : Own(b) <=> b \in Blocks(graph) /\ ~ IsCallee(graph, b)
  BY DEF Own, M!Own, M!Blocks, M!IsCallee, Blocks, IsCallee

LEMMA GraphFacts ==
  ASSUME \E t \in Translations : graph = t.graph /\ order = t.order
  PROVE  /\ IsTranslatable(graph) /\ IsFlowOrder(graph, order)
         /\ order \in Seq(Blocks(graph)) /\ Len(order) \in Nat
         /\ \A k \in 1..Len(order) : order[k] \in Blocks(graph)
         /\ Blocks(graph) \subseteq Nat \ {Home}
         /\ graph.entry \in Blocks(graph) /\ Own(graph.entry)
<1>1. IsTranslatable(graph) /\ IsFlowOrder(graph, order)
  BY TranslationsAssumption
<1>2. order \in Seq(Blocks(graph)) /\ Len(order) \in Nat
  BY <1>1 DEF IsFlowOrder
<1>3. graph.entry \in Blocks(graph) /\ Own(graph.entry)
  BY <1>1, OwnBlocks DEF IsTranslatable, IsGraph, IsCallee
<1> QED
  BY <1>1, <1>2, <1>3 DEF IsTranslatable, IsGraph

LEMMA InitIInv == Init => IInv
<1> SUFFICES ASSUME Init PROVE IInv
  OBVIOUS
<1>0. /\ IsFlowOrder(graph, order) /\ Len(order) \in Nat
      /\ graph.entry \in Blocks(graph) /\ Own(graph.entry)
  BY GraphFacts DEF Init
<1>1. PICK j \in 1..Len(order) : order[j] = graph.entry
  BY <1>0 DEF IsFlowOrder
<1>2. Position
  BY <1>0, <1>1 DEF Init, Position, Ahead, First
<1>3. TypeOK
  <2>1. returned \in BOOLEAN /\ done \in BOOLEAN
    BY Zenon DEF Init
  <2> QED
    BY <1>0, <2>1 DEF Init, TypeOK
<1> QED
  BY <1>2, <1>3 DEF Init, IInv

(***************************************************************************)
(* A block goes to blocks ahead or to the callee it jumps to, which is not *)
(* the function itself.                                                    *)
(***************************************************************************)
LEMMA Leaving ==
  ASSUME IInv, i <= Len(order), HasBlock(Current), ~ M!Returns(Current),
         NEW t \in M!Destinations(Current)
  PROVE  /\ Own(Current) /\ t \in Blocks(graph)
         /\ ~ IsCallee(graph, t) => Own(t) /\ Ahead(t, i + 1)
         /\ IsCallee(graph, t) /\ CallsByJal(graph) =>
              t = graph.target[Current] /\ HasCall(Current)
<1>1. /\ i \in 1..Len(order) /\ Current \in Blocks(graph) /\ Own(Current)
      /\ IsTranslatable(graph) /\ IsFlowOrder(graph, order) /\ Len(order) \in Nat
  BY GraphFacts, OwnBlocks DEF IInv, TypeOK, Current, HasBlock
<1>2. t \in graph.succ[Current] /\ t \in Blocks(graph)
  BY <1>1 DEF M!Destinations, IsTranslatable
<1>3. Ahead(t, i + 1)
  <2>1. PICK j \in 1..Len(order) : i < j /\ order[j] = t
    BY <1>1, <1>2 DEF IsFlowOrder, HasBlock, Current
  <2> QED
    BY <1>1, <2>1 DEF Ahead
<1>4. ASSUME IsCallee(graph, t), CallsByJal(graph)
      PROVE  t = graph.target[Current] /\ HasCall(Current)
  BY <1>1, <1>2, <1>4 DEF CallsByJal, HasCall, HasBlock, IsCallee
<1> QED
  BY <1>1, <1>2, <1>3, <1>4, OwnBlocks

(* A callee returns to a block ahead or for the function.                  *)
LEMMA Coming ==
  ASSUME IInv, AtCall
  PROVE  link = Home \/ (Own(link) /\ Ahead(link, i + 1))
<1>1. /\ i \in 1..Len(order) /\ Current \in Blocks(graph)
      /\ IsTranslatable(graph) /\ IsFlowOrder(graph, order) /\ Len(order) \in Nat
      /\ ~ IsCallee(graph, Current)
  BY GraphFacts DEF IInv, TypeOK, Current, AtCall, HasCall, HasBlock
<1>2. CASE graph.after[Current] # Home
  <2>1. link \in graph.succ[Current] /\ ~ IsCallee(graph, link) /\ link \in Blocks(graph)
    BY <1>1, <1>2 DEF IsTranslatable, AtCall
  <2>2. PICK j \in 1..Len(order) : i < j /\ order[j] = link
    BY <1>1, <2>1 DEF IsFlowOrder, Current
  <2> QED
    BY <1>1, <2>1, <2>2, OwnBlocks DEF Ahead
<1> QED
  BY <1>2 DEF AtCall

LEMMA NextIInv == IInv /\ [Next]_vars => IInv'
<1> SUFFICES ASSUME IInv, [Next]_vars PROVE IInv'
  OBVIOUS
<1> USE DEF IInv
<1>0. /\ IsTranslatable(graph) /\ IsFlowOrder(graph, order) /\ Len(order) \in Nat
      /\ Blocks(graph) \subseteq Nat \ {Home}
      /\ \A k \in 1..Len(order) : order[k] \in Blocks(graph)
  BY GraphFacts
<1>1. CASE RunBlock
  <2>1. /\ graph' = graph /\ order' = order /\ i' = i /\ done' = done /\ part' = "call"
        /\ i <= Len(order) /\ Guard(Current) /\ HasBlock(Current)
        /\ Current \in Blocks(graph) /\ Own(Current) /\ ~ returned /\ ~ done
    BY <1>0, <1>1, OwnBlocks DEF RunBlock, Current, TypeOK, HasBlock, Guard
  <2>2. link' = graph.after[Current] /\ link' \in Blocks(graph) \cup {Home}
    BY <1>0, <1>1, <2>1 DEF RunBlock, IsTranslatable
  <2>3. CASE M!Returns(Current)
    BY <1>1, <2>1, <2>2, <2>3 DEF RunBlock, TypeOK, Position, CallsByJal
  <2>4. CASE ~ M!Returns(Current)
    <3>1. pc' \in M!Destinations(Current) /\ returned' = returned
      BY <1>1, <2>4 DEF RunBlock
    <3>2. pc' \in Blocks(graph)
      BY <2>1, <2>4, <3>1, Leaving
    <3>3. TypeOK'
      BY <1>0, <2>1, <2>2, <3>1, <3>2 DEF TypeOK
    <3>4. ASSUME CallsByJal(graph), ~ done PROVE Position'
      <4>1. CASE IsCallee(graph, pc')
        <5>1. pc' = graph.target[Current] /\ HasCall(Current)
          BY <2>1, <2>4, <3>1, <3>4, <4>1, Leaving
        <5>2. AtCall'
          BY <2>1, <2>2, <5>1
          DEF AtCall, HasCall, HasBlock, Current, Own, M!Own, M!Blocks, M!IsCallee, IsCallee
        <5> QED
          BY <2>1, <3>1, <5>2 DEF Position
      <4>2. CASE ~ IsCallee(graph, pc')
        <5>1. Own(pc') /\ Ahead(pc', i + 1)
          BY <2>1, <2>4, <3>1, <4>2, Leaving
        <5>2. Own(pc)' /\ Ahead(pc, First)'
          BY <2>1, <5>1 DEF Own, M!Own, M!Blocks, M!IsCallee, Ahead, First
        <5> QED
          BY <2>1, <3>1, <5>2 DEF Position
      <4> QED
        BY <4>1, <4>2
    <3> QED
      BY <2>1, <3>3, <3>4, <1>1 DEF RunBlock, SetReturned
  <2> QED
    BY <2>3, <2>4
<1>2. CASE SkipBlock
  <2>1. /\ UNCHANGED <<graph, order, i, pc, link, returned, done>> /\ part' = "call"
        /\ part = "block" /\ i <= Len(order) /\ ~ (HasBlock(Current) /\ Guard(Current))
    BY <1>2 DEF SkipBlock
  <2>2. TypeOK'
    BY <1>0, <2>1 DEF TypeOK
  <2>3. ASSUME CallsByJal(graph), ~ done PROVE Position'
    <3>1. CASE pc = Home
      BY <2>1, <3>1 DEF Position
    <3>2. CASE ~ returned /\ Own(pc) /\ Ahead(pc, First)
      <4>1. pc # Current
        BY <2>1, <3>2, OwnBlocks DEF HasBlock, Guard
      <4>2. Ahead(pc, i + 1)
        BY <1>0, <2>1, <3>2, <4>1 DEF Ahead, First, Current, TypeOK
      <4>3. Own(pc)' /\ Ahead(pc, First)'
        BY <2>1, <3>2, <4>2 DEF Own, M!Own, M!Blocks, M!IsCallee, Ahead, First
      <4> QED
        BY <2>1, <3>2, <4>3 DEF Position
    <3> QED
      BY <2>1, <2>3, <3>1, <3>2 DEF Position, AtCall
  <2> QED
    BY <2>1, <2>2, <2>3
<1>3. CASE CallFunction
  <2>1. /\ UNCHANGED <<graph, order, link, done>> /\ part' = "block" /\ i' = i + 1
        /\ part = "call" /\ i <= Len(order) /\ pc' = link /\ returned' = FALSE
        /\ pc = graph.target[Current] /\ HasCall(Current) /\ ~ returned /\ ~ done
    BY <1>0, <1>3 DEF CallFunction, NextEntry, Guard, Reset, TypeOK
  <2>2. TypeOK'
    <3>1. returned' \in BOOLEAN /\ done' \in BOOLEAN
      BY <2>1, Zenon DEF TypeOK
    <3>2. /\ i' \in 1..Len(order) + 1 /\ part' \in {"block", "call"}
          /\ pc' \in Blocks(graph) \cup {Home} /\ link' \in Blocks(graph) \cup {Home}
      BY <1>0, <2>1 DEF TypeOK
    <3> QED
      BY <2>1, <3>1, <3>2 DEF TypeOK
  <2>3. ASSUME CallsByJal(graph), ~ done PROVE Position'
    <3>1. Current \in Blocks(graph) /\ IsCallee(graph, pc) /\ pc \in Blocks(graph)
      BY <1>0, <2>1 DEF IsTranslatable, Current, TypeOK, HasCall, IsCallee, IsGraph
    <3>2. AtCall
      BY <2>1, <2>3, <3>1, <1>0, OwnBlocks DEF Position
    <3>3. CASE link = Home
      BY <2>1, <3>3 DEF Position
    <3>4. CASE Own(link) /\ Ahead(link, i + 1)
      BY <2>1, <3>4 DEF Position, Own, M!Own, M!Blocks, M!IsCallee, Ahead, First
    <3> QED
      BY <3>2, <3>3, <3>4, Coming
  <2> QED
    BY <2>1, <2>2, <2>3
<1>4. CASE SkipCall
  <2>1. /\ UNCHANGED <<graph, order, pc, link, returned, done>> /\ part' = "block" /\ i' = i + 1
        /\ part = "call" /\ i <= Len(order)
        /\ ~ (HasCall(Current) /\ Guard(graph.target[Current])) /\ ~ done
    BY <1>0, <1>4 DEF SkipCall, NextEntry, TypeOK
  <2>2. TypeOK'
    BY <1>0, <2>1 DEF TypeOK
  <2>3. ASSUME CallsByJal(graph), ~ done PROVE Position'
    <3>1. ~ (~ returned /\ AtCall)
      BY <2>1 DEF AtCall, Guard
    <3>2. CASE pc = Home
      BY <2>1, <3>2 DEF Position
    <3>3. CASE ~ returned /\ Own(pc) /\ Ahead(pc, First)
      BY <2>1, <3>3 DEF Position, Own, M!Own, M!Blocks, M!IsCallee, Ahead, First
    <3> QED
      BY <2>3, <3>1, <3>2, <3>3 DEF Position
  <2> QED
    BY <2>1, <2>2, <2>3
<1>5. CASE SetReturned
  <2>1. /\ UNCHANGED <<graph, order, i, part, pc, link>> /\ returned' = TRUE /\ done' = TRUE
        /\ ~ done /\ i > Len(order)
    BY <1>5 DEF SetReturned
  <2>2. TypeOK'
    BY <2>1 DEF TypeOK
  <2>3. ASSUME CallsByJal(graph) PROVE pc = Home
    BY <1>0, <2>1, <2>3 DEF Position, AtCall, Ahead, First, TypeOK
  <2> QED
    BY <2>1, <2>2, <2>3
<1>6. CASE UNCHANGED vars
  BY <1>6 DEF vars, TypeOK, Position, AtCall, Ahead, First, Current, HasCall, HasBlock,
     Own, M!Own, M!Blocks, M!IsCallee
<1> QED
  BY <1>1, <1>2, <1>3, <1>4, <1>5, <1>6 DEF Next, Stopped

LEMMA Invariance == Spec => []IInv
  BY InitIInv, NextIInv, PTL DEF Spec

-----------------------------------------------------------------------------
(***************************************************************************)
(* Type correctness of the execution of a body.                            *)
(***************************************************************************)
THEOREM TypeCorrect == Spec => []TypeOK
  BY Invariance, PTL DEF IInv

(***************************************************************************)
(* For every function whose callees are entered by jal: when the body that *)
(* cfg_to_symbolic_blk emits ends, control has left the function, so no    *)
(* path of the function is cut short by the final returned := 1.           *)
(***************************************************************************)
THEOREM BodyRunsToReturn == Spec => []RunsToReturn
<1>1. IInv => RunsToReturn
  BY DEF IInv, RunsToReturn
<1> QED
  BY Invariance, <1>1, PTL

(***************************************************************************)
(* At every statement of the body, the statement that continues the run is *)
(* still to come.                                                          *)
(***************************************************************************)
THEOREM ControlIsAhead == Spec => []NeverLosesControl
<1>1. IInv => NeverLosesControl
  BY DEF IInv, NeverLosesControl, Position, AtCall, First
<1> QED
  BY Invariance, <1>1, PTL

(***************************************************************************)
(* Whatever the graph and the order: each statement of the body does one   *)
(* step of the machine, or nothing the machine sees.                       *)
(***************************************************************************)
THEOREM BodyImplementsMachine == Spec => M!Spec
<1>1. Init => M!Init
  BY DEF Init, M!Init
<1>2. ASSUME IInv, [Next]_vars PROVE [M!Next]_(M!vars)
  <2>0. /\ IsTranslatable(graph) /\ \A k \in 1..Len(order) : order[k] \in Blocks(graph)
    BY GraphFacts, <1>2 DEF IInv
  <2>1. CASE RunBlock
    <3>1. pc = Current /\ Own(Current)
      BY <2>0, <2>1, <1>2, OwnBlocks
      DEF IInv, TypeOK, RunBlock, Guard, HasBlock, Current
    <3> QED
      BY <2>1, <3>1 DEF RunBlock, M!Next, M!RunBlock, Own
  <2>2. CASE CallFunction
    <3>1. Current \in Blocks(graph)
      BY <2>0, <2>2, <1>2 DEF IInv, TypeOK, CallFunction, Current
    <3>2. M!IsCallee(graph, pc)
      BY <2>0, <2>2, <3>1
      DEF CallFunction, Guard, HasCall, IsTranslatable, IsGraph, M!IsCallee
    <3> QED
      BY <2>2, <3>2 DEF CallFunction, M!Next, M!RunCallee
  <2> QED
    BY <1>2, <2>1, <2>2
    DEF Next, vars, SkipBlock, SkipCall, SetReturned, Stopped, M!vars
<1> QED
  BY <1>1, <1>2, Invariance, PTL DEF Spec, M!Spec
=============================================================================
