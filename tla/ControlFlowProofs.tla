------------------------- MODULE ControlFlowProofs -------------------------
(***************************************************************************)
(* What the control flow graph and the topological sort promise, for every *)
(* graph.                                                                  *)
(*                                                                         *)
(* IInv is built along the phases.  The nodes and the addresses to visit   *)
(* are closed under successors; compute_deps has recorded an edge to every *)
(* successor of an expanded block, and every element of ts that starts no  *)
(* callee is expanded or will be; the popped elements have all their       *)
(* predecessors before them.  From it, SortedFollowsFlow.                  *)
(*                                                                         *)
(* WalkInv is the other half: what the walks reach is in every closed set, *)
(* hence in the least one.  From both, CfgIsReachable and SortedIsFunction.*)
(*                                                                         *)
(* FindInv is about find_cycle: the stack is a simple path, and the blocks *)
(* already left are in every progressive set.  From it CycleIsReal, and,   *)
(* the graph being finite, CycleIsFound.                                   *)
(***************************************************************************)
EXTENDS ControlFlow, FiniteSetTheorems, WellFoundedInduction, TLAPS

AfterBuild == {"deps", "sort", "extend", "done", "search", "cyclic", "notFound"}
AfterDeps  == AfterBuild \ {"deps"}

Sorts    == {sorted[i] : i \in 1..Len(sorted)}
Universe == waiting \cup level \cup Sorts

BuildInv ==
  phase = "build" =>
    /\ graph.entry \in nodes \cup todo
    /\ \A a \in nodes : graph.succ[a] \subseteq nodes \cup todo
    /\ processed = {} /\ deps = {} /\ waiting = {} /\ level = {} /\ sorted = <<>>

Closed ==
  phase \in AfterBuild =>
    /\ graph.entry \in nodes
    /\ \A a \in nodes : graph.succ[a] \subseteq nodes

DepsInv ==
  phase \in AfterBuild =>
    /\ todo \subseteq nodes
    /\ graph.entry \in processed \cup todo
    /\ processed \cup todo \subseteq Universe
    /\ \A b \in processed \cup todo : ~ IsCallee(graph, b)
    /\ \A b \in Universe : ~ IsCallee(graph, b) => b \in processed \cup todo
    /\ \A a \in processed : \A t \in graph.succ[a] : <<a, t>> \in deps /\ t \in Universe

Quiet ==
  /\ phase = "deps" => level = {} /\ sorted = <<>>
  /\ phase \in AfterDeps => todo = {}
  /\ phase \in {"sort", "done"} => level = {}
  /\ phase = "done" => waiting = {}

SortInv ==
  /\ \A i \in 1..Len(sorted) : \A a \in nodes :
       <<a, sorted[i]>> \in deps => \E j \in 1..Len(sorted) : j < i /\ sorted[j] = a
  /\ \A n \in level : \A a \in nodes : <<a, n>> \in deps => a \in Sorts
  /\ \A i, j \in 1..Len(sorted) : sorted[i] = sorted[j] => i = j
  /\ level \cap Sorts = {}
  /\ waiting \cap (level \cup Sorts) = {}

SearchInv == phase = "search" => Len(path) >= 1

IInv ==
  /\ TypeOK
  /\ graph \in Graphs
  /\ BuildInv
  /\ Closed
  /\ DepsInv
  /\ Quiet
  /\ SortInv
  /\ SearchInv

-----------------------------------------------------------------------------
LEMMA GraphFacts ==
  ASSUME graph \in Graphs
  PROVE  /\ Blocks(graph) \subseteq Nat
         /\ graph.succ \in [Blocks(graph) -> SUBSET Nat]
         /\ \A b \in Blocks(graph) : graph.succ[b] \subseteq Nat
         /\ graph.entry \in Nat /\ graph.entry \in graph.labels
         /\ graph.entry \notin graph.ignored
         /\ graph.ignored \subseteq graph.labels
  BY GraphsAssumption DEF IsGraph

LEMMA InitInv == Init => IInv
<1> SUFFICES ASSUME Init PROVE IInv
  OBVIOUS
<1>1. graph \in Graphs /\ graph.entry \in Nat
  BY GraphFacts DEF Init
<1>2. TypeOK
  BY <1>1 DEF Init, TypeOK
<1>3. BuildInv /\ Closed /\ DepsInv /\ Quiet /\ SearchInv
  BY <1>1 DEF Init, BuildInv, Closed, DepsInv, Quiet, SearchInv, AfterBuild, AfterDeps
<1>4. SortInv
  BY <1>1 DEF Init, SortInv
<1> QED
  BY <1>1, <1>2, <1>3, <1>4 DEF IInv

LEMMA CreateNodeInv ==
  ASSUME IInv, NEW addr, CreateNode(addr) PROVE IInv'
<1>1. /\ phase = "build" /\ addr \in todo /\ addr \in Blocks(graph)
      /\ graph.succ[addr] \subseteq Nat
      /\ nodes' = nodes \cup {addr}
      /\ todo' = (todo \cup graph.succ[addr]) \ (nodes \cup {addr})
      /\ UNCHANGED <<graph, phase, processed, deps, waiting, level, sorted,
                     path, untried, cycle>>
      /\ graph \in Graphs
  BY GraphFacts DEF IInv, CreateNode, StillToVisit, Followed
<1>2. TypeOK'
  <2>1. /\ sorted' \in Seq(nodes') /\ path' \in Seq(nodes')
        /\ untried' \in Seq(SUBSET nodes')
    <3>1. \A T : Seq(T) \subseteq Seq(T \cup {addr})
      OBVIOUS
    <3>2. \A s \in Seq(SUBSET nodes) : s \in Seq(SUBSET (nodes \cup {addr}))
      OBVIOUS
    <3> QED
      BY <1>1, <3>1, <3>2 DEF IInv, TypeOK
  <2> QED
    BY <1>1, <2>1 DEF IInv, TypeOK
<1>3. BuildInv'
  BY <1>1 DEF IInv, BuildInv
<1>4. SortInv'
  BY <1>1 DEF IInv, BuildInv, SortInv, Sorts
<1> QED
  BY <1>1, <1>2, <1>3, <1>4
     DEF IInv, Closed, DepsInv, Quiet, SearchInv, AfterBuild, AfterDeps

LEMMA StartDepsInv == ASSUME IInv, StartDeps PROVE IInv'
<1>1. /\ phase = "build" /\ todo = {} /\ phase' = "deps" /\ todo' = {graph.entry}
      /\ waiting' = {graph.entry}
      /\ UNCHANGED <<graph, nodes, processed, deps, level, sorted, path, untried, cycle>>
      /\ graph \in Graphs /\ graph.entry \in Nat /\ graph.entry \in nodes
      /\ processed = {} /\ deps = {} /\ level = {} /\ sorted = <<>>
  BY GraphFacts DEF IInv, StartDeps, BuildInv
<1>2. TypeOK'
  BY <1>1 DEF IInv, TypeOK
<1>3. Closed'
  BY <1>1 DEF IInv, BuildInv, Closed
<1>4. DepsInv'
  BY <1>1 DEF DepsInv, Universe, Sorts, IsCallee
<1>5. SortInv'
  BY <1>1 DEF SortInv, Sorts
<1> QED
  BY <1>1, <1>2, <1>3, <1>4, <1>5
     DEF IInv, BuildInv, Quiet, SearchInv, AfterBuild, AfterDeps

LEMMA ComputeDepsInv ==
  ASSUME IInv, NEW addr, ComputeDeps(addr) PROVE IInv'
<1> DEFINE targets == graph.succ[addr]
<1>1. /\ phase = "deps" /\ addr \in todo /\ addr \in nodes
      /\ ~ IsCallee(graph, addr) /\ addr \notin graph.ignored
      /\ graph \in Graphs /\ targets \subseteq nodes
      /\ level = {} /\ sorted = <<>>
  BY GraphFacts DEF IInv, ComputeDeps, TypeOK, DepsInv, Closed, Quiet, AfterBuild, IsCallee
<1>2. /\ deps' = deps \cup {<<addr, t>> : t \in targets}
      /\ waiting' = waiting \cup targets
      /\ todo' = (todo \cup (targets \ graph.labels)) \ (processed \cup {addr})
      /\ processed' = processed \cup {addr}
      /\ UNCHANGED <<graph, phase, nodes, level, sorted, path, untried, cycle>>
  BY <1>1 DEF ComputeDeps, Ignored, Expanded
<1>3. TypeOK'
  <2>1. {<<addr, t>> : t \in targets} \subseteq processed' \X nodes
    BY <1>1, <1>2
  <2>2. deps' \subseteq processed' \X nodes
    BY <1>2, <2>1 DEF IInv, TypeOK
  <2>3. todo' \subseteq Nat
    BY <1>1, <1>2, GraphFacts DEF IInv, TypeOK
  <2> QED
    BY <1>1, <1>2, <2>2, <2>3 DEF IInv, TypeOK
<1>4. Closed' /\ BuildInv' /\ Quiet' /\ SearchInv' /\ graph' \in Graphs
  BY <1>1, <1>2 DEF IInv, Closed, BuildInv, Quiet, SearchInv, AfterBuild, AfterDeps
<1>5. SortInv'
  BY <1>1, <1>2 DEF SortInv, Sorts
<1>6. DepsInv'
  <2>1. Universe = waiting /\ Universe' = waiting \cup targets
    BY <1>1, <1>2 DEF Universe, Sorts
  <2>2. processed' \cup todo' = processed \cup todo \cup (targets \ graph.labels)
    BY <1>1, <1>2
  <2>3. graph.entry \in processed \cup todo
    BY <1>1 DEF IInv, DepsInv, AfterBuild
  <2>4. \A b \in targets : ~ IsCallee(graph, b) => b \in processed' \cup todo'
    BY <2>2, <2>3 DEF IsCallee
  <2>5. \A b \in processed' \cup todo' : ~ IsCallee(graph, b)
    BY <1>1, <2>2 DEF IInv, DepsInv, AfterBuild, IsCallee
  <2>6. \A a \in processed' : \A t \in graph.succ[a] : <<a, t>> \in deps' /\ t \in Universe'
    BY <1>1, <1>2, <2>1 DEF IInv, DepsInv, AfterBuild
  <2> QED
    BY <1>1, <1>2, <2>1, <2>2, <2>3, <2>4, <2>5, <2>6
       DEF IInv, DepsInv, AfterBuild, IsCallee
<1> QED
  BY <1>3, <1>4, <1>5, <1>6 DEF IInv

LEMMA PopAllInv == ASSUME IInv, PopAll PROVE IInv'
<1>1. /\ phase = "sort" /\ phase' = "extend" /\ level = {}
      /\ level' = Ready /\ waiting' = waiting \ Ready /\ Ready \subseteq waiting
      /\ UNCHANGED <<graph, todo, nodes, processed, deps, sorted, path, untried, cycle>>
      /\ graph \in Graphs
  BY DEF IInv, PopAll, Ready, Quiet
<1>2. Universe' = Universe /\ Sorts' = Sorts
  BY <1>1 DEF Universe, Sorts
<1>3. TypeOK'
  BY <1>1 DEF IInv, TypeOK
<1>4. DepsInv' /\ Closed'
  BY <1>1, <1>2 DEF IInv, DepsInv, Closed, AfterBuild
<1>5. SortInv'
  <2>1. ASSUME NEW n \in Ready, NEW a \in nodes, <<a, n>> \in deps
        PROVE  a \in Sorts
    <3>1. a \in Universe
      BY <1>1, <2>1 DEF IInv, TypeOK, DepsInv, AfterBuild
    <3>2. a \notin waiting
      BY <2>1 DEF Ready
    <3> QED
      BY <1>1, <3>1, <3>2 DEF Universe
  <2> QED
    BY <1>1, <1>2, <2>1 DEF IInv, SortInv
<1> QED
  BY <1>1, <1>3, <1>4, <1>5
     DEF IInv, BuildInv, Quiet, SearchInv, AfterBuild, AfterDeps

LEMMA ExtendInv == ASSUME IInv, Extend PROVE IInv'
<1>1. PICK least \in level :
        /\ sorted' = Append(sorted, least)
        /\ level' = level \ {least}
  BY DEF Extend
<1>2. /\ phase = "extend" /\ phase' \in {"sort", "extend"}
      /\ phase' = "sort" => level' = {}
      /\ UNCHANGED <<graph, todo, nodes, processed, deps, waiting, path, untried, cycle>>
      /\ graph \in Graphs /\ least \in nodes
      /\ sorted \in Seq(nodes) /\ Len(sorted) \in Nat
  BY <1>1 DEF IInv, Extend, TypeOK
<1>3. /\ Len(sorted') = Len(sorted) + 1
      /\ \A i \in 1..Len(sorted) : sorted'[i] = sorted[i]
      /\ sorted'[Len(sorted')] = least
      /\ \A i \in 1..Len(sorted') : i \in 1..Len(sorted) \/ i = Len(sorted')
      /\ sorted' \in Seq(nodes)
  BY <1>1, <1>2
<1>4. Sorts' = Sorts \cup {least}
  BY <1>2, <1>3 DEF Sorts
<1>5. Universe' = Universe
  BY <1>1, <1>2, <1>4 DEF Universe
<1>6. TypeOK'
  BY <1>1, <1>2, <1>3 DEF IInv, TypeOK
<1>7. DepsInv' /\ Closed'
  BY <1>2, <1>5 DEF IInv, DepsInv, Closed, AfterBuild
<1>8. SortInv'
  <2>1. least \notin Sorts /\ least \notin waiting
    BY <1>1 DEF IInv, SortInv
  <2>2. ASSUME NEW i \in 1..Len(sorted'), NEW a \in nodes, <<a, sorted'[i]>> \in deps
        PROVE  \E j \in 1..Len(sorted') : j < i /\ sorted'[j] = a
    <3>1. CASE i \in 1..Len(sorted)
      <4>1. PICK j \in 1..Len(sorted) : j < i /\ sorted[j] = a
        BY <1>3, <2>2, <3>1 DEF IInv, SortInv
      <4> QED
        BY <1>2, <1>3, <4>1
    <3>2. CASE i = Len(sorted')
      <4>1. a \in Sorts
        BY <1>1, <1>3, <2>2, <3>2 DEF IInv, SortInv
      <4>2. PICK j \in 1..Len(sorted) : sorted[j] = a
        BY <4>1 DEF Sorts
      <4> QED
        BY <1>2, <1>3, <3>2, <4>2
    <3> QED
      BY <1>3, <3>1, <3>2
  <2>3. ASSUME NEW i \in 1..Len(sorted'), NEW j \in 1..Len(sorted'), sorted'[i] = sorted'[j]
        PROVE  i = j
    <3>1. \A k \in 1..Len(sorted) : sorted'[k] # least
      BY <1>3, <2>1 DEF Sorts
    <3> QED
      BY <1>3, <2>3, <3>1 DEF IInv, SortInv
  <2>4. \A n \in level' : \A a \in nodes : <<a, n>> \in deps => a \in Sorts'
    BY <1>1, <1>4 DEF IInv, SortInv
  <2>5. level' \cap Sorts' = {} /\ waiting \cap (level' \cup Sorts') = {}
    BY <1>1, <1>4, <2>1 DEF IInv, SortInv
  <2> QED
    BY <1>2, <2>2, <2>3, <2>4, <2>5 DEF SortInv
<1> QED
  BY <1>2, <1>6, <1>7, <1>8
     DEF IInv, BuildInv, Quiet, SearchInv, AfterBuild, AfterDeps

LEMMA SortStuckInv == ASSUME IInv, SortStuck PROVE IInv'
<1>1. /\ phase = "sort" /\ phase' = "search" /\ level = {}
      /\ path' = <<graph.entry>> /\ untried' = <<Tries(graph.entry)>>
      /\ UNCHANGED <<graph, todo, nodes, processed, deps, waiting, level, sorted, cycle>>
      /\ graph \in Graphs /\ graph.entry \in nodes /\ Tries(graph.entry) \subseteq nodes
  BY DEF IInv, SortStuck, Closed, AfterBuild, Quiet, Tries
<1>2. TypeOK'
  <2>1. path' \in Seq(nodes) /\ untried' \in Seq(SUBSET nodes) /\ Len(untried') = Len(path')
    BY <1>1
  <2> QED
    BY <1>1, <2>1 DEF IInv, TypeOK
<1>3. Universe' = Universe /\ Sorts' = Sorts
  BY <1>1 DEF Universe, Sorts
<1>4. Closed' /\ DepsInv' /\ Quiet' /\ SearchInv' /\ BuildInv'
  BY <1>1, <1>3
     DEF IInv, Closed, DepsInv, Quiet, SearchInv, BuildInv, AfterBuild, AfterDeps
<1>5. SortInv'
  BY <1>1, <1>3 DEF IInv, SortInv
<1> QED
  BY <1>1, <1>2, <1>4, <1>5 DEF IInv

(***************************************************************************)
(* The steps of find_cycle change only the path and how the search ends.   *)
(***************************************************************************)
LEMMA SearchStepInv ==
  ASSUME IInv, phase = "search", phase' \in {"search", "cyclic", "notFound"},
         path' \in Seq(nodes), untried' \in Seq(SUBSET nodes), Len(untried') = Len(path'),
         phase' = "search" => Len(path') >= 1,
         UNCHANGED <<graph, todo, nodes, processed, deps, waiting, level, sorted>>
  PROVE  IInv'
<1>1. TypeOK'
  BY DEF IInv, TypeOK, Final
<1>2. Universe' = Universe /\ Sorts' = Sorts
  BY DEF Universe, Sorts
<1>3. Closed' /\ DepsInv' /\ Quiet' /\ SearchInv' /\ BuildInv'
  BY <1>2 DEF IInv, Closed, DepsInv, Quiet, SearchInv, BuildInv, AfterBuild, AfterDeps
<1>4. SortInv'
  BY <1>2 DEF IInv, SortInv
<1> QED
  BY <1>1, <1>3, <1>4 DEF IInv

LEMMA SearchInvariance ==
  ASSUME IInv,
         \/ \E addr \in Blocks(graph) : Descend(addr) \/ CloseCycle(addr)
         \/ Backtrack
  PROVE  IInv'
<1>1. /\ phase = "search" /\ Depth \in Nat /\ Depth >= 1
      /\ path \in Seq(nodes) /\ untried \in Seq(SUBSET nodes) /\ Len(untried) = Depth
      /\ untried[Depth] \subseteq nodes
      /\ \A a \in nodes : Tries(a) \subseteq nodes
  <2>1. phase = "search"
    BY DEF Descend, CloseCycle, Backtrack
  <2>2. /\ path \in Seq(nodes) /\ untried \in Seq(SUBSET nodes)
        /\ Len(untried) = Depth /\ Depth \in Nat /\ Depth >= 1
    BY <2>1 DEF IInv, SearchInv, TypeOK, Depth
  <2>3. untried[Depth] \in SUBSET nodes
    BY <2>2
  <2>4. \A a \in nodes : Tries(a) \subseteq nodes
    BY <2>1 DEF IInv, Closed, AfterBuild, Tries
  <2> QED
    BY <2>1, <2>2, <2>3, <2>4
<1>2. ASSUME NEW addr, Descend(addr) PROVE IInv'
  <2>1. addr \in nodes /\ Tries(addr) \in SUBSET nodes
    BY <1>1, <1>2 DEF Descend
  <2>2. [untried EXCEPT ![Depth] = @ \ {addr}] \in Seq(SUBSET nodes)
    BY <1>1
  <2>3. path' \in Seq(nodes) /\ Len(path') = Depth + 1
    BY <1>1, <1>2, <2>1 DEF Descend, Depth
  <2>4. untried' \in Seq(SUBSET nodes) /\ Len(untried') = Depth + 1
    BY <1>1, <1>2, <2>1, <2>2 DEF Descend
  <2> QED
    BY <1>1, <1>2, <2>3, <2>4, SearchStepInv DEF Descend
<1>3. ASSUME NEW addr, CloseCycle(addr) PROVE IInv'
  BY <1>1, <1>3, SearchStepInv DEF CloseCycle, Depth
<1>4. ASSUME Backtrack PROVE IInv'
  <2>1. path' \in Seq(nodes) /\ Len(path') = Depth - 1
    BY <1>1, <1>4 DEF Backtrack, Depth
  <2>2. untried' \in Seq(SUBSET nodes) /\ Len(untried') = Depth - 1
    BY <1>1, <1>4 DEF Backtrack, Depth
  <2>3. phase' \in {"search", "notFound"} /\ (phase' = "search" => Depth > 1)
    BY <1>1, <1>4 DEF Backtrack
  <2> QED
    BY <1>1, <1>4, <2>1, <2>2, <2>3, SearchStepInv DEF Backtrack
<1> QED
  BY <1>2, <1>3, <1>4

(* The steps that only move on to the next phase.                          *)
LEMMA PhaseStepInv ==
  ASSUME IInv,
         UNCHANGED <<graph, todo, nodes, processed, deps, waiting, level, sorted, path, untried>>,
         \/ phase = "build" /\ phase' = "missing"
         \/ phase = "deps" /\ phase' = "sort" /\ todo = {}
         \/ phase = "sort" /\ phase' = "done" /\ waiting = {}
         \/ phase' = phase
  PROVE  IInv'
<1>1. TypeOK'
  BY DEF IInv, TypeOK, Final
<1>2. Universe' = Universe /\ Sorts' = Sorts
  BY DEF Universe, Sorts
<1>3. BuildInv' /\ Closed' /\ Quiet' /\ SearchInv'
  BY DEF IInv, BuildInv, Closed, Quiet, SearchInv, AfterBuild, AfterDeps
<1>4. DepsInv'
  BY <1>2 DEF IInv, DepsInv, AfterBuild
<1>5. SortInv'
  BY <1>2 DEF IInv, SortInv
<1> QED
  BY <1>1, <1>3, <1>4, <1>5 DEF IInv

LEMMA StepInv == IInv /\ [Next]_vars => IInv'
<1> SUFFICES ASSUME IInv, [Next]_vars PROVE IInv'
  OBVIOUS
<1>1. CASE \E addr \in todo : CreateNode(addr) \/ MissingBlock(addr) \/ ComputeDeps(addr)
  BY <1>1, CreateNodeInv, ComputeDepsInv, PhaseStepInv DEF MissingBlock
<1>2. CASE StartDeps
  BY <1>2, StartDepsInv
<1>3. CASE StartSort
  BY <1>3, PhaseStepInv DEF StartSort
<1>4. CASE PopAll
  BY <1>4, PopAllInv
<1>5. CASE Extend
  BY <1>5, ExtendInv
<1>6. CASE SortDone
  BY <1>6, PhaseStepInv DEF SortDone
<1>7. CASE SortStuck
  BY <1>7, SortStuckInv
<1>8. CASE \/ \E addr \in Blocks(graph) : Descend(addr) \/ CloseCycle(addr)
           \/ Backtrack
  BY <1>8, SearchInvariance
<1>9. CASE Stopped \/ UNCHANGED vars
  BY <1>9, PhaseStepInv DEF Stopped, vars
<1> QED
  BY <1>1, <1>2, <1>3, <1>4, <1>5, <1>6, <1>7, <1>8, <1>9 DEF Next

(* The invariant of the sort holds in every state, for every graph.        *)
THEOREM Invariance == Spec => []IInv
  BY InitInv, StepInv, PTL DEF Spec

(* The variables of the walks and of the sort keep their types.            *)
THEOREM TypeCorrect == Spec => []TypeOK
<1>1. IInv => TypeOK
  BY DEF IInv
<1> QED
  BY Invariance, <1>1, PTL

LEMMA DoneIsFlowOrder == IInv /\ phase = "done" => IsFlowOrder(graph, sorted)
<1> SUFFICES ASSUME IInv, phase = "done" PROVE IsFlowOrder(graph, sorted)
  OBVIOUS
<1>1. /\ Universe = Sorts /\ todo = {}
      /\ sorted \in Seq(nodes) /\ nodes \subseteq Blocks(graph) /\ graph \in Graphs
      /\ Len(sorted) \in Nat
  BY DEF IInv, Quiet, Universe, TypeOK, AfterDeps, AfterBuild
<1>2. sorted \in Seq(Blocks(graph))
  <2>2. \A i \in 1..Len(sorted) : sorted[i] \in nodes
    BY <1>1
  <2>3. \A i \in 1..Len(sorted) : sorted[i] \in Blocks(graph)
    BY <1>1, <2>2, Zenon
  <2> QED
    BY <1>1, <2>3
<1>3. \A i, j \in 1..Len(sorted) : sorted[i] = sorted[j] => i = j
  BY DEF IInv, SortInv
<1>4. \E i \in 1..Len(sorted) : sorted[i] = graph.entry
  BY <1>1 DEF IInv, DepsInv, AfterBuild, Sorts
<1>5. ASSUME NEW i \in 1..Len(sorted), ~ IsCallee(graph, sorted[i]),
             NEW t \in graph.succ[sorted[i]]
      PROVE  \E j \in 1..Len(sorted) : i < j /\ sorted[j] = t
  <2>1. sorted[i] \in processed /\ sorted[i] \in nodes
    BY <1>1, <1>5 DEF IInv, DepsInv, AfterBuild, Sorts
  <2>2. <<sorted[i], t>> \in deps /\ t \in Sorts
    BY <1>1, <2>1 DEF IInv, DepsInv, AfterBuild
  <2>3. PICK j \in 1..Len(sorted) : sorted[j] = t
    BY <2>2 DEF Sorts
  <2>4. PICK k \in 1..Len(sorted) : k < j /\ sorted[k] = sorted[i]
    BY <2>1, <2>2, <2>3 DEF IInv, SortInv
  <2>5. k = i
    BY <1>3, <2>4
  <2> QED
    BY <2>3, <2>4, <2>5
<1> QED
  BY <1>2, <1>3, <1>4, <1>5 DEF IsFlowOrder

(***************************************************************************)
(* For every graph: when the topological sort completes, every successor   *)
(* of a block of the function comes after the block, so that guarded calls *)
(* emitted in that order never have to jump back.                          *)
(***************************************************************************)
THEOREM SortIsFlowOrder == Spec => []SortedFollowsFlow
<1>1. IInv => SortedFollowsFlow
  BY DoneIsFlowOrder DEF SortedFollowsFlow
<1> QED
  BY Invariance, <1>1, PTL
-----------------------------------------------------------------------------
(***************************************************************************)
(* What the walks reach.  A set that contains the entry and is closed      *)
(* under successors contains every node that create_cfg makes, and one     *)
(* that is closed under the successors of the blocks of the function       *)
(* contains every element that compute_deps puts into ts.                  *)
(***************************************************************************)
ReachClosed(S) ==
  /\ S \in SUBSET Blocks(graph)
  /\ graph.entry \in S
  /\ \A a \in S : graph.succ[a] \cap Blocks(graph) \subseteq S

FuncClosed(S) ==
  /\ S \in SUBSET Blocks(graph)
  /\ graph.entry \in S
  /\ \A a \in S : ~ IsCallee(graph, a) => graph.succ[a] \cap Blocks(graph) \subseteq S

NodesReached ==
  \A S : ReachClosed(S) =>
    nodes \subseteq S /\ (phase = "build" => todo \cap Blocks(graph) \subseteq S)

UniverseReached ==
  phase \in AfterBuild => \A S : FuncClosed(S) => Universe \subseteq S

DepsAreEdges == \A a, t : <<a, t>> \in deps => t \in graph.succ[a]

(* What create_cfg has still to visit, it found in a node.                 *)
TodoFound ==
  phase = "build" => \A t \in todo : t = graph.entry \/ \E b \in nodes : t \in graph.succ[b]

WalkInv ==
  /\ NodesReached /\ TodoFound
  /\ phase = "missing" => MissesBlock
  /\ UniverseReached /\ DepsAreEdges

LEMMA CfgBlocksMinimal ==
  CfgBlocks(graph) = {b \in Blocks(graph) : \A S : ReachClosed(S) => b \in S}
  BY DEF CfgBlocks, Closure, ReachClosed

LEMMA FunctionBlocksMinimal ==
  FunctionBlocks(graph) = {b \in Blocks(graph) : \A S : FuncClosed(S) => b \in S}
  BY DEF FunctionBlocks, Closure, FuncClosed

LEMMA ClosedSame ==
  ASSUME UNCHANGED graph
  PROVE  /\ \A S : ReachClosed(S)' <=> ReachClosed(S)
         /\ \A S : FuncClosed(S)' <=> FuncClosed(S)
         /\ MissesBlock' <=> MissesBlock
<1>1. CfgBlocks(graph') = CfgBlocks(graph)
  OBVIOUS
<1> QED
  BY <1>1 DEF ReachClosed, FuncClosed, MissesBlock

LEMMA WalkInit == Init => WalkInv
  BY DEF Init, WalkInv, NodesReached, TodoFound, UniverseReached, DepsAreEdges, ReachClosed, AfterBuild

LEMMA WalkCreateNode ==
  ASSUME IInv, WalkInv, NEW addr, CreateNode(addr) PROVE WalkInv'
<1>1. /\ phase = "build" /\ phase' = "build" /\ addr \in todo /\ addr \in Blocks(graph)
      /\ nodes' = nodes \cup {addr}
      /\ todo' = (todo \cup graph.succ[addr]) \ (nodes \cup {addr})
      /\ UNCHANGED <<graph, deps>>
  BY DEF CreateNode, StillToVisit, Followed
<1>2. NodesReached'
  <2> SUFFICES ASSUME NEW S, ReachClosed(S)
               PROVE  nodes' \subseteq S /\ todo' \cap Blocks(graph) \subseteq S
    BY <1>1, ClosedSame DEF NodesReached
  <2>1. nodes \subseteq S /\ todo \cap Blocks(graph) \subseteq S
    BY <1>1 DEF WalkInv, NodesReached
  <2>2. addr \in S
    BY <1>1, <2>1
  <2>3. graph.succ[addr] \cap Blocks(graph) \subseteq S
    BY <2>2 DEF ReachClosed
  <2> QED
    BY <1>1, <2>1, <2>2, <2>3
<1>3. TodoFound'
  BY <1>1 DEF WalkInv, TodoFound
<1> QED
  BY <1>1, <1>2, <1>3 DEF WalkInv, UniverseReached, DepsAreEdges, AfterBuild

LEMMA WalkMissingBlock ==
  ASSUME IInv, WalkInv, NEW addr, MissingBlock(addr) PROVE WalkInv'
<1>1. /\ phase = "build" /\ phase' = "missing" /\ addr \in todo /\ addr \notin Blocks(graph)
      /\ UNCHANGED <<graph, nodes, deps>>
  BY DEF MissingBlock
<1>2. graph.entry \in Blocks(graph) /\ nodes \subseteq Blocks(graph)
  <2>1. graph \in Graphs /\ nodes \subseteq Blocks(graph)
    BY DEF IInv, TypeOK
  <2> QED
    BY <2>1, GraphsAssumption DEF IsGraph
<1>3. PICK b \in nodes : addr \in graph.succ[b]
  BY <1>1, <1>2 DEF WalkInv, TodoFound
<1>4. b \in CfgBlocks(graph)
  BY <1>2, CfgBlocksMinimal DEF WalkInv, NodesReached
<1>5. MissesBlock'
  BY <1>1, <1>3, <1>4, ClosedSame DEF MissesBlock
<1>6. NodesReached' /\ TodoFound' /\ UniverseReached' /\ DepsAreEdges'
  BY <1>1, ClosedSame DEF WalkInv, NodesReached, TodoFound, UniverseReached, DepsAreEdges, AfterBuild
<1> QED
  BY <1>5, <1>6 DEF WalkInv

LEMMA WalkStartDeps == ASSUME IInv, WalkInv, StartDeps PROVE WalkInv'
<1>1. /\ phase = "build" /\ phase' = "deps" /\ waiting' = {graph.entry}
      /\ UNCHANGED <<graph, nodes, deps, level, sorted>>
      /\ level = {} /\ sorted = <<>>
  BY DEF StartDeps, IInv, BuildInv
<1>2. Universe' = {graph.entry}
  BY <1>1 DEF Universe, Sorts
<1>3. \A S : FuncClosed(S) => graph.entry \in S
  BY DEF FuncClosed
<1> QED
  BY <1>1, <1>2, <1>3, ClosedSame DEF WalkInv, NodesReached, TodoFound, UniverseReached, DepsAreEdges

LEMMA WalkComputeDeps ==
  ASSUME IInv, WalkInv, NEW addr, ComputeDeps(addr) PROVE WalkInv'
<1> DEFINE targets == graph.succ[addr]
<1>1. /\ phase = "deps" /\ addr \in todo /\ addr \in nodes
      /\ ~ IsCallee(graph, addr) /\ addr \notin graph.ignored
      /\ graph \in Graphs /\ targets \subseteq nodes /\ nodes \subseteq Blocks(graph)
      /\ addr \in Universe
  BY GraphFacts DEF IInv, ComputeDeps, TypeOK, DepsInv, Closed, Quiet, AfterBuild, IsCallee
<1>2. /\ deps' = deps \cup {<<addr, t>> : t \in targets}
      /\ waiting' = waiting \cup targets
      /\ UNCHANGED <<graph, phase, nodes, level, sorted>>
  BY <1>1 DEF ComputeDeps, Ignored
<1>3. Universe' = Universe \cup targets
  BY <1>2 DEF Universe, Sorts
<1>4. UniverseReached'
  <2> SUFFICES ASSUME NEW S, FuncClosed(S) PROVE Universe' \subseteq S
    BY <1>1, <1>2, ClosedSame DEF UniverseReached
  <2>1. Universe \subseteq S
    BY <1>1 DEF WalkInv, UniverseReached, AfterBuild
  <2>2. targets \subseteq S
    BY <1>1, <2>1 DEF FuncClosed
  <2> QED
    BY <1>3, <2>1, <2>2
<1>5. DepsAreEdges'
  BY <1>2 DEF WalkInv, DepsAreEdges
<1>6. NodesReached' /\ TodoFound' /\ phase' # "missing"
  BY <1>1, <1>2, ClosedSame DEF WalkInv, NodesReached, TodoFound
<1> QED
  BY <1>4, <1>5, <1>6 DEF WalkInv

(* The steps after which the walks have reached what they had before.      *)
LEMMA WalkSame ==
  ASSUME IInv, WalkInv, UNCHANGED <<graph, nodes, deps>>,
         phase' = "build" => phase = "build" /\ UNCHANGED todo,
         phase' = "missing" => phase = "missing",
         phase' \in AfterBuild => phase \in AfterBuild /\ Universe' = Universe
  PROVE  WalkInv'
<1>1. NodesReached' /\ TodoFound' /\ UniverseReached'
  BY ClosedSame DEF WalkInv, NodesReached, TodoFound, UniverseReached
<1>2. phase' = "missing" => MissesBlock'
  BY ClosedSame DEF WalkInv
<1> QED
  BY <1>1, <1>2 DEF WalkInv, DepsAreEdges

LEMMA WalkStep == IInv /\ WalkInv /\ [Next]_vars => WalkInv'
<1> SUFFICES ASSUME IInv, WalkInv, [Next]_vars PROVE WalkInv'
  OBVIOUS
<1>1. ASSUME NEW addr \in todo, CreateNode(addr) \/ MissingBlock(addr) \/ ComputeDeps(addr)
      PROVE  WalkInv'
  BY <1>1, WalkCreateNode, WalkMissingBlock, WalkComputeDeps
<1>2. CASE PopAll
  <2>1. Universe' = Universe
    BY <1>2 DEF PopAll, Ready, Universe, Sorts, IInv, Quiet
  <2> QED
    BY <1>2, <2>1, WalkSame DEF PopAll, AfterBuild
<1>3. CASE Extend
  <2>1. PICK least \in level : sorted' = Append(sorted, least) /\ level' = level \ {least}
    BY <1>3 DEF Extend
  <2>2. sorted \in Seq(nodes) /\ Len(sorted) \in Nat /\ least \in nodes
    BY <2>1 DEF IInv, TypeOK
  <2>3. Sorts' = Sorts \cup {least}
    <3>1. /\ Len(sorted') = Len(sorted) + 1 /\ sorted'[Len(sorted) + 1] = least
          /\ \A i \in 1..Len(sorted) : sorted'[i] = sorted[i]
          /\ \A i \in 1..Len(sorted') : i \in 1..Len(sorted) \/ i = Len(sorted) + 1
          /\ \A i \in 1..Len(sorted) + 1 : i \in 1..Len(sorted')
      BY <2>1, <2>2
    <3> QED
      BY <2>2, <3>1 DEF Sorts
  <2>4. Universe' = Universe
    BY <1>3, <2>1, <2>3 DEF Extend, Universe
  <2> QED
    BY <1>3, <2>4, WalkSame DEF Extend, AfterBuild
<1>4. CASE StartSort \/ SortDone \/ SortStuck \/ Backtrack
  <2>1. Universe' = Universe
    BY <1>4 DEF StartSort, SortDone, SortStuck, Backtrack, Universe, Sorts
  <2> QED
    BY <1>4, <2>1, WalkSame DEF StartSort, SortDone, SortStuck, Backtrack, AfterBuild
<1>5. ASSUME NEW addr, Descend(addr) \/ CloseCycle(addr) PROVE WalkInv'
  <2>1. Universe' = Universe
    BY <1>5 DEF Descend, CloseCycle, Universe, Sorts
  <2> QED
    BY <1>5, <2>1, WalkSame DEF Descend, CloseCycle, AfterBuild
<1>6. CASE Stopped \/ UNCHANGED vars
  <2>1. UNCHANGED vars
    BY <1>6 DEF Stopped
  <2>2. Universe' = Universe
    BY <2>1 DEF vars, Universe, Sorts
  <2> QED
    BY <2>1, <2>2, WalkSame DEF vars
<1> QED
  BY <1>1, <1>2, <1>3, <1>4, <1>5, <1>6, WalkStartDeps DEF Next

(* The invariant of the walk that builds the graph holds in every state.   *)
THEOREM WalkInvariance == Spec => []WalkInv
  BY Invariance, WalkInit, WalkStep, PTL DEF Spec

(***************************************************************************)
(* For every graph: create_cfg (cfg.rs) fails exactly if a block reachable *)
(* from the entry has a successor without a block, and the CFG it builds   *)
(* otherwise holds exactly the blocks that are reachable.                  *)
(***************************************************************************)
THEOREM CfgHoldsReachable == Spec => []CfgIsReachable
<1>1. IInv /\ WalkInv => CfgIsReachable
  <2> SUFFICES ASSUME IInv, WalkInv, phase # "build", phase # "missing"
               PROVE  ~ MissesBlock /\ nodes = CfgBlocks(graph)
    BY DEF CfgIsReachable, WalkInv
  <2>1. phase \in AfterBuild /\ nodes \subseteq Blocks(graph)
    BY DEF IInv, TypeOK, Final, AfterBuild
  <2>2. ReachClosed(nodes)
    BY <2>1 DEF IInv, Closed, ReachClosed
  <2>3. \A S : ReachClosed(S) => nodes \subseteq S
    BY DEF WalkInv, NodesReached
  <2>4. nodes = CfgBlocks(graph)
    BY <2>1, <2>2, <2>3, CfgBlocksMinimal
  <2>5. \A a \in nodes : graph.succ[a] \subseteq Blocks(graph)
    BY <2>1 DEF IInv, Closed
  <2> QED
    BY <2>4, <2>5 DEF MissesBlock
<1> QED
  BY Invariance, WalkInvariance, <1>1, PTL

(***************************************************************************)
(* For every graph: a completed sort holds exactly the blocks of the       *)
(* function and the entries of the functions it reaches.                   *)
(***************************************************************************)
THEOREM SortHoldsFunction == Spec => []SortedIsFunction
<1>1. IInv /\ WalkInv => SortedIsFunction
  <2> SUFFICES ASSUME IInv, WalkInv, phase = "done"
               PROVE  Sorts = FunctionBlocks(graph)
    BY DEF SortedIsFunction, Sorts
  <2>1. /\ phase \in AfterBuild /\ nodes \subseteq Blocks(graph)
        /\ Universe = Sorts /\ todo = {}
    BY DEF IInv, TypeOK, Quiet, AfterDeps, AfterBuild, Universe
  <2>2. Sorts \subseteq nodes
    BY DEF IInv, TypeOK, Sorts
  <2>3. FuncClosed(Sorts)
    <3>1. graph.entry \in Sorts /\ Sorts \in SUBSET Blocks(graph)
      BY <2>1, <2>2 DEF IInv, DepsInv
    <3>2. ASSUME NEW a \in Sorts, ~ IsCallee(graph, a)
          PROVE  graph.succ[a] \subseteq Sorts
      BY <2>1, <3>2 DEF IInv, DepsInv
    <3> QED
      BY <3>1, <3>2 DEF FuncClosed
  <2>4. \A S : FuncClosed(S) => Sorts \subseteq S
    BY <2>1 DEF WalkInv, UniverseReached
  <2> QED
    BY <2>1, <2>2, <2>3, <2>4, FunctionBlocksMinimal
<1> QED
  BY Invariance, WalkInvariance, <1>1, PTL
-----------------------------------------------------------------------------
(***************************************************************************)
(* The search of find_cycle.  A set is progressive when it has every block *)
(* whose successors it has: a block that is left without a cycle having    *)
(* been found is in every such set.                                        *)
(***************************************************************************)
Progressive(S) ==
  /\ S \in SUBSET nodes
  /\ \A m \in nodes : Tries(m) \subseteq S => m \in S

PathInv ==
  phase = "search" =>
    /\ path[1] = graph.entry
    /\ \A i, j \in 1..Len(path) : path[i] = path[j] => i = j
    /\ \A i \in 1..Len(path) - 1 : path[i + 1] \in Tries(path[i])
    /\ \A i \in 1..Len(path) : untried[i] \subseteq Tries(path[i])

TriedInv ==
  phase = "search" =>
    \A S : Progressive(S) =>
      \A i \in 1..Len(path) : \A s \in Tries(path[i]) \ untried[i] :
        s \in S \/ (i < Len(path) /\ s = path[i + 1])

Stuck == waiting # {} /\ \A n \in waiting : \E m \in waiting : <<m, n>> \in deps

FailedInv ==
  /\ phase \in {"search", "notFound"} => Stuck
  /\ phase = "notFound" => \A S : Progressive(S) => graph.entry \in S

FindInv == PathInv /\ TriedInv /\ FailedInv /\ CycleIsReal

LEMMA ProgressiveSame ==
  ASSUME UNCHANGED <<graph, nodes>>
  PROVE  /\ \A m : Tries(m)' = Tries(m)
         /\ \A S : Progressive(S)' <=> Progressive(S)
  BY DEF Progressive, Tries, Ignored

(* The steps outside the search.                                           *)
LEMMA FindQuiet ==
  ASSUME FindInv, phase \notin {"search"}, phase' \notin {"search", "notFound", "cyclic"}
  PROVE  FindInv'
  BY DEF FindInv, PathInv, TriedInv, FailedInv, CycleIsReal

LEMMA FindStuck == ASSUME IInv, FindInv, SortStuck PROVE FindInv'
<1>1. /\ phase' = "search" /\ path' = <<graph.entry>> /\ untried' = <<Tries(graph.entry)>>
      /\ Ready = {} /\ waiting # {}
      /\ UNCHANGED <<graph, nodes, deps, waiting>>
  BY DEF SortStuck
<1>2. /\ Len(path') = 1 /\ path'[1] = graph.entry /\ untried'[1] = Tries(graph.entry)
      /\ \A i \in 1..Len(path') : i = 1
  BY <1>1
<1>3. \A m : Tries(m)' = Tries(m)
  BY <1>1, ProgressiveSame
<1>4. PathInv'
  <2>1. \A i \in 1..Len(path') : untried'[i] \subseteq Tries(path'[i])
    BY <1>1, <1>2, <1>3
  <2>2. 1..Len(path') - 1 = {}
    BY <1>2
  <2> QED
    BY <1>1, <1>2, <1>3, <2>1, <2>2 DEF PathInv
<1>5. TriedInv'
  <2>1. \A i \in 1..Len(path') : Tries(path'[i]) \ untried'[i] = {}
    BY <1>2, <1>3
  <2> QED
    BY <1>3, <2>1 DEF TriedInv
<1>6. FailedInv' /\ CycleIsReal'
  BY <1>1 DEF FailedInv, CycleIsReal, Stuck, Ready
<1> QED
  BY <1>4, <1>5, <1>6 DEF FindInv

(* What the steps of the search read.                                      *)
LEMMA SearchFacts ==
  ASSUME IInv, phase = "search"
  PROVE  /\ Depth \in Nat /\ Depth >= 1 /\ Depth = Len(path) /\ Len(untried) = Depth
         /\ path \in Seq(nodes) /\ untried \in Seq(SUBSET nodes)
         /\ \A a \in nodes : Tries(a) \subseteq nodes
         /\ Seen = {path[i] : i \in 1..Depth}
<1>1. /\ path \in Seq(nodes) /\ untried \in Seq(SUBSET nodes)
      /\ Len(untried) = Depth /\ Depth \in Nat /\ Depth >= 1
  BY DEF IInv, SearchInv, TypeOK, Depth
<1>2. \A a \in nodes : Tries(a) \subseteq nodes
  BY DEF IInv, Closed, AfterBuild, Tries
<1> QED
  BY <1>1, <1>2 DEF Depth, Seen

LEMMA FindDescend ==
  ASSUME IInv, FindInv, NEW addr, Descend(addr) PROVE FindInv'
<1>1. /\ phase = "search" /\ phase' = "search"
      /\ addr \in untried[Depth] /\ addr \notin Seen
      /\ path' = Append(path, addr)
      /\ untried' = Append([untried EXCEPT ![Depth] = @ \ {addr}], Tries(addr))
      /\ UNCHANGED <<graph, nodes, deps, waiting, cycle>>
  BY DEF Descend
<1>2. /\ Depth \in Nat /\ Depth >= 1 /\ Depth = Len(path) /\ Len(untried) = Depth
      /\ path \in Seq(nodes) /\ untried \in Seq(SUBSET nodes)
      /\ \A a \in nodes : Tries(a) \subseteq nodes
      /\ Seen = {path[i] : i \in 1..Depth}
  BY <1>1, SearchFacts
<1>3. /\ Len(path') = Depth + 1 /\ path'[Depth + 1] = addr
      /\ \A i \in 1..Depth : path'[i] = path[i]
  BY <1>1, <1>2
<1>4. /\ untried'[Depth + 1] = Tries(addr)
      /\ untried'[Depth] = untried[Depth] \ {addr}
      /\ \A i \in 1..Depth - 1 : untried'[i] = untried[i]
  <2> DEFINE rest == [untried EXCEPT ![Depth] = @ \ {addr}]
  <2>1. rest \in Seq(SUBSET nodes) /\ Len(rest) = Depth
    BY <1>2
  <2>2. rest[Depth] = untried[Depth] \ {addr} /\ \A i \in 1..Depth - 1 : rest[i] = untried[i]
    BY <1>2
  <2>3. \A i \in 1..Depth : untried'[i] = rest[i]
    BY <1>1, <2>1
  <2>4. untried'[Depth + 1] = Tries(addr)
    BY <1>1, <2>1
  <2>5. Depth \in 1..Depth /\ \A i \in 1..Depth - 1 : i \in 1..Depth
    BY <1>2
  <2> QED
    BY <2>2, <2>3, <2>4, <2>5
<1>5. /\ \A m : Tries(m)' = Tries(m)
      /\ \A S : Progressive(S)' <=> Progressive(S)
  BY <1>1, ProgressiveSame
<1>6. \A i \in 1..Len(path') : i \in 1..Depth - 1 \/ i = Depth \/ i = Depth + 1
  BY <1>2, <1>3
<1>7. /\ path[1] = graph.entry
      /\ \A i, j \in 1..Depth : path[i] = path[j] => i = j
      /\ \A i \in 1..Depth - 1 : path[i + 1] \in Tries(path[i])
      /\ \A i \in 1..Depth : untried[i] \subseteq Tries(path[i])
  BY <1>1, <1>2 DEF FindInv, PathInv
<1>8. Depth \in 1..Depth /\ 1 \in 1..Depth
      /\ \A i \in 1..Depth - 1 : i \in 1..Depth /\ i + 1 \in 1..Depth
  BY <1>2
<1>9. addr \in Tries(path[Depth]) /\ \A i \in 1..Depth : path[i] # addr
  BY <1>1, <1>2, <1>7, <1>8
<1>10. PathInv'
  <2>1. path'[1] = graph.entry
    BY <1>3, <1>7, <1>8
  <2>2. \A i, j \in 1..Len(path') : path'[i] = path'[j] => i = j
    BY <1>3, <1>6, <1>7, <1>8, <1>9
  <2>3. ASSUME NEW i \in 1..Len(path') - 1 PROVE path'[i + 1] \in Tries(path'[i])
    <3>1. CASE i \in 1..Depth - 1
      BY <1>3, <1>7, <1>8, <3>1
    <3>2. CASE i = Depth
      BY <1>3, <1>8, <1>9, <3>2
    <3>3. i \in 1..Depth - 1 \/ i = Depth
      BY <1>2, <1>3, <2>3
    <3> QED
      BY <3>1, <3>2, <3>3
  <2>4. ASSUME NEW i \in 1..Len(path') PROVE untried'[i] \subseteq Tries(path'[i])
    <3>1. CASE i \in 1..Depth - 1
      BY <1>3, <1>4, <1>7, <1>8, <3>1
    <3>2. CASE i = Depth
      BY <1>3, <1>4, <1>7, <1>8, <3>2
    <3>3. CASE i = Depth + 1
      BY <1>3, <1>4, <3>3
    <3> QED
      BY <1>6, <3>1, <3>2, <3>3
  <2> QED
    BY <1>1, <1>5, <2>1, <2>2, <2>3, <2>4 DEF PathInv
<1>11. TriedInv'
  <2> SUFFICES ASSUME NEW S, Progressive(S), NEW i \in 1..Len(path'),
                      NEW s \in Tries(path'[i]) \ untried'[i]
               PROVE  s \in S \/ (i < Len(path') /\ s = path'[i + 1])
    BY <1>1, <1>5 DEF TriedInv
  <2>1. \A j \in 1..Depth : \A t \in Tries(path[j]) \ untried[j] :
          t \in S \/ (j < Depth /\ t = path[j + 1])
    BY <1>1, <1>2 DEF FindInv, TriedInv
  <2>2. CASE i \in 1..Depth - 1
    <3>1. s \in Tries(path[i]) \ untried[i] /\ path'[i + 1] = path[i + 1] /\ i < Len(path')
      BY <1>2, <1>3, <1>4, <1>8, <2>2
    <3> QED
      BY <1>8, <2>1, <2>2, <3>1
  <2>3. CASE i = Depth
    <3>1. s = addr \/ s \in Tries(path[Depth]) \ untried[Depth]
      BY <1>3, <1>4, <1>8, <2>3
    <3>2. s \in Tries(path[Depth]) \ untried[Depth] => s \in S
      BY <1>2, <1>8, <2>1
    <3> QED
      BY <1>2, <1>3, <2>3, <3>1, <3>2
  <2>4. CASE i = Depth + 1
    BY <1>3, <1>4, <2>4
  <2> QED
    BY <1>6, <2>2, <2>3, <2>4
<1>12. FailedInv' /\ CycleIsReal'
  BY <1>1 DEF FindInv, FailedInv, CycleIsReal, Stuck
<1> QED
  BY <1>10, <1>11, <1>12 DEF FindInv

LEMMA FindBacktrack == ASSUME IInv, FindInv, Backtrack PROVE FindInv'
<1>1. /\ phase = "search" /\ untried[Depth] = {}
      /\ path' = SubSeq(path, 1, Depth - 1)
      /\ untried' = SubSeq(untried, 1, Depth - 1)
      /\ phase' = IF Depth = 1 THEN "notFound" ELSE "search"
      /\ UNCHANGED <<graph, nodes, deps, waiting, cycle>>
  BY DEF Backtrack
<1>2. /\ Depth \in Nat /\ Depth >= 1 /\ Depth = Len(path) /\ Len(untried) = Depth
      /\ path \in Seq(nodes) /\ untried \in Seq(SUBSET nodes)
  BY <1>1, SearchFacts
<1>3. /\ Len(path') = Depth - 1
      /\ \A i \in 1..Depth - 1 : path'[i] = path[i] /\ untried'[i] = untried[i]
  BY <1>1, <1>2
<1>4. /\ \A m : Tries(m)' = Tries(m)
      /\ \A S : Progressive(S)' <=> Progressive(S)
  BY <1>1, ProgressiveSame
<1>5. /\ path[1] = graph.entry
      /\ \A i, j \in 1..Depth : path[i] = path[j] => i = j
      /\ \A i \in 1..Depth - 1 : path[i + 1] \in Tries(path[i])
      /\ \A i \in 1..Depth : untried[i] \subseteq Tries(path[i])
  BY <1>1, <1>2 DEF FindInv, PathInv
<1>6. Depth \in 1..Depth /\ path[Depth] \in nodes
      /\ \A i \in 1..Depth - 1 : i \in 1..Depth /\ i + 1 \in 1..Depth
  BY <1>2
<1>7. ASSUME NEW S, Progressive(S)
      PROVE  /\ \A i \in 1..Depth : \A s \in Tries(path[i]) \ untried[i] :
                  s \in S \/ (i < Depth /\ s = path[i + 1])
             /\ path[Depth] \in S
  <2>1. \A i \in 1..Depth : \A s \in Tries(path[i]) \ untried[i] :
          s \in S \/ (i < Depth /\ s = path[i + 1])
    <3>1. TriedInv
      BY DEF FindInv
    <3> QED
      BY <1>1, <1>2, <1>7, <3>1 DEF TriedInv
  <2>2. Tries(path[Depth]) \subseteq S
    BY <1>1, <1>2, <1>6, <2>1
  <2> QED
    BY <1>6, <1>7, <2>1, <2>2 DEF Progressive
<1>8. PathInv'
  <2> SUFFICES ASSUME phase' = "search" PROVE PathInv'
    BY DEF PathInv
  <2>1. Depth > 1 /\ 1 \in 1..Depth - 1
    BY <1>1, <1>2
  <2>2. path'[1] = graph.entry
    BY <1>3, <1>5, <2>1
  <2>3. \A i, j \in 1..Len(path') : path'[i] = path'[j] => i = j
    BY <1>3, <1>5, <1>6
  <2>4. ASSUME NEW i \in 1..Len(path') - 1 PROVE path'[i + 1] \in Tries(path'[i])
    <3>1. i \in 1..Depth - 1 /\ i + 1 \in 1..Depth - 1
      BY <1>2, <1>3, <2>4
    <3> QED
      BY <1>3, <1>5, <3>1
  <2>5. \A i \in 1..Len(path') : untried'[i] \subseteq Tries(path'[i])
    BY <1>3, <1>5, <1>6
  <2> QED
    BY <1>1, <1>4, <2>2, <2>3, <2>4, <2>5 DEF PathInv
<1>9. TriedInv'
  <2> SUFFICES ASSUME NEW S, Progressive(S), NEW i \in 1..Len(path'),
                      NEW s \in Tries(path'[i]) \ untried'[i]
               PROVE  s \in S \/ (i < Len(path') /\ s = path'[i + 1])
    BY <1>4 DEF TriedInv
  <2>1. i \in 1..Depth - 1 /\ i \in 1..Depth /\ s \in Tries(path[i]) \ untried[i]
    BY <1>3, <1>6
  <2>2. s \in S \/ s = path[i + 1]
    BY <1>7, <2>1
  <2>3. CASE i = Depth - 1
    <3>1. i + 1 = Depth
      BY <1>2, <2>3
    <3> QED
      BY <1>7, <2>2, <3>1
  <2>4. CASE i # Depth - 1
    <3>1. i + 1 \in 1..Depth - 1 /\ i < Len(path')
      BY <1>2, <1>3, <2>1, <2>4
    <3> QED
      BY <1>3, <2>2, <3>1
  <2> QED
    BY <2>3, <2>4
<1>10. FailedInv'
  <2>1. Stuck'
    BY <1>1 DEF FindInv, FailedInv, Stuck
  <2>2. ASSUME phase' = "notFound", NEW S, Progressive(S) PROVE graph.entry \in S
    <3>1. Depth = 1
      BY <1>1, <2>2
    <3> QED
      BY <1>5, <1>7, <2>2, <3>1
  <2> QED
    BY <1>1, <1>4, <2>1, <2>2 DEF FailedInv
<1>11. CycleIsReal'
  BY <1>1 DEF CycleIsReal
<1> QED
  BY <1>8, <1>9, <1>10, <1>11 DEF FindInv

(* The part of the path from the block met again is a cycle.               *)
LEMMA LeastNumber ==
  ASSUME NEW T \in SUBSET Nat, T # {}
  PROVE  \E x \in T : \A y \in T : x <= y
<1>1. PICK x \in T : \A y \in T : ~ (<<y, x>> \in OpToRel(<, Nat))
  BY NatLessThanWellFounded, WFMin, Zenon
<1>2. ASSUME NEW y \in T PROVE x <= y
  <2>1. \A a, b \in Nat : a < b => <<a, b>> \in OpToRel(<, Nat)
    BY DEF OpToRel
  <2>2. x \in Nat /\ y \in Nat
    OBVIOUS
  <2>3. ~ (y < x)
    BY <1>1, <2>1, <2>2
  <2> QED
    BY <2>2, <2>3
<1> QED
  BY <1>2

(***************************************************************************)
(* A path that has not entered a callee stays among the blocks that        *)
(* compute_deps has expanded: the first block of it that is not would be a *)
(* successor of one that is.                                               *)
(***************************************************************************)
LEMMA PathIsExpanded ==
  ASSUME IInv, FindInv, phase = "search", \A i \in 1..Len(path) : ~ IsCallee(graph, path[i])
  PROVE  \A i \in 1..Len(path) : path[i] \in processed
<1>1. Depth \in Nat /\ Depth >= 1 /\ Depth = Len(path)
  BY SearchFacts
<1>2. /\ path[1] = graph.entry
      /\ \A i \in 1..Depth - 1 : path[i + 1] \in Tries(path[i])
  BY <1>1 DEF FindInv, PathInv
<1>3. /\ graph.entry \in processed
      /\ \A b \in Universe : ~ IsCallee(graph, b) => b \in processed
      /\ \A a \in processed : \A t \in graph.succ[a] : t \in Universe
  BY DEF IInv, DepsInv, Quiet, AfterBuild, AfterDeps
<1> DEFINE Outside == {i \in 1..Depth : path[i] \notin processed}
<1> SUFFICES ASSUME Outside # {} PROVE FALSE
  BY <1>1
<1>4. Outside \subseteq Nat
  BY <1>1
<1>5. PICK i \in Outside : \A j \in Outside : i <= j
  <2> HIDE DEF Outside
  <2> QED
    BY <1>4, LeastNumber
<1>6. i \in 1..Depth /\ path[i] \notin processed /\ i # 1
  BY <1>2, <1>3, <1>5
<1>7. i - 1 \in 1..Depth /\ i - 1 \in 1..Depth - 1 /\ (i - 1) + 1 = i /\ ~ (i <= i - 1)
  BY <1>1, <1>6
<1>8. path[i - 1] \in processed
  BY <1>5, <1>7
<1>9. path[i] \in graph.succ[path[i - 1]]
  BY <1>2, <1>7 DEF Tries
<1> QED
  BY <1>1, <1>3, <1>6, <1>8, <1>9

LEMMA FindClose ==
  ASSUME IInv, FindInv, NEW addr, CloseCycle(addr) PROVE FindInv'
<1>1. /\ phase = "search" /\ phase' = "cyclic"
      /\ addr \in untried[Depth] /\ addr \in Seen
      /\ cycle' = Unwind(addr)
      /\ UNCHANGED <<graph, deps, path>>
  BY DEF CloseCycle
<1>2. /\ Depth \in Nat /\ Depth >= 1 /\ Depth = Len(path)
      /\ path \in Seq(nodes) /\ Seen = {path[i] : i \in 1..Depth}
  BY <1>1, SearchFacts
<1>3. /\ \A i, j \in 1..Depth : path[i] = path[j] => i = j
      /\ \A i \in 1..Depth - 1 : path[i + 1] \in Tries(path[i])
      /\ \A i \in 1..Depth : untried[i] \subseteq Tries(path[i])
  BY <1>1, <1>2 DEF FindInv, PathInv
<1> DEFINE first == CHOOSE i \in 1..Depth : path[i] = addr
           back  == SubSeq(path, first, Depth)
           n     == Depth - first + 1
<1>4. first \in 1..Depth /\ path[first] = addr
  BY <1>1, <1>2
<1> HIDE DEF first
<1>5. n \in Nat /\ n >= 1 /\ first + n - 1 = Depth
  BY <1>2, <1>4
<1>6. back \in Seq(nodes) /\ Len(back) = n /\ \A i \in 1..n : back[i] = path[first + i - 1]
  BY <1>2, <1>4
<1>7. cycle' = Append(back, addr)
  BY <1>1 DEF Unwind, first
<1>8. /\ Len(cycle') = n + 1 /\ cycle'[n + 1] = addr
      /\ \A i \in 1..n : cycle'[i] = path[first + i - 1]
  <2>1. addr \in nodes
    BY <1>2, <1>4
  <2> QED
    BY <1>5, <1>6, <1>7, <2>1
<1> HIDE DEF back, n
<1>9. \A i \in 1..n : first + i - 1 \in 1..Depth
  BY <1>2, <1>4, <1>5
<1>10. cycle'[1] = addr
  <2>1. 1 \in 1..n /\ first + 1 - 1 = first
    BY <1>2, <1>4, <1>5
  <2> QED
    BY <1>4, <1>8, <2>1
<1>11. Len(cycle') > 1 /\ Len(cycle') - 1 = n
  BY <1>5, <1>8
<1>12. ASSUME NEW i \in 1..n PROVE cycle'[i + 1] \in Tries(cycle'[i])
  <2>1. CASE i = n
    <3>1. cycle'[i] = path[Depth]
      BY <1>5, <1>8, <1>12, <2>1
    <3>2. cycle'[i + 1] = addr /\ Depth \in 1..Depth
      BY <1>2, <1>8, <2>1
    <3> QED
      BY <1>1, <1>3, <3>1, <3>2
  <2>2. CASE i # n
    <3>1. /\ i + 1 \in 1..n /\ first + i - 1 \in 1..Depth - 1
          /\ first + (i + 1) - 1 = (first + i - 1) + 1
      BY <1>2, <1>4, <1>5, <1>12, <2>2
    <3>2. cycle'[i + 1] = path[(first + i - 1) + 1] /\ cycle'[i] = path[first + i - 1]
      BY <1>8, <1>12, <3>1
    <3> QED
      BY <1>3, <3>1, <3>2
  <2> QED
    BY <2>1, <2>2
<1>13. ASSUME NEW i \in 1..n, NEW j \in 1..n, cycle'[i] = cycle'[j] PROVE i = j
  <2>1. first + i - 1 = first + j - 1
    BY <1>3, <1>8, <1>9, <1>13
  <2> QED
    BY <1>4, <1>5, <2>1
<1>14. \/ \A i \in 1..n : <<cycle'[i], cycle'[i + 1]>> \in deps
       \/ \E i \in 1..Len(path) : IsCallee(graph, path[i])
  <2> SUFFICES ASSUME \A i \in 1..Len(path) : ~ IsCallee(graph, path[i]), NEW i \in 1..n
               PROVE  <<cycle'[i], cycle'[i + 1]>> \in deps
    OBVIOUS
  <2>1. cycle'[i] \in processed
    BY <1>1, <1>2, <1>8, <1>9, PathIsExpanded
  <2>2. cycle'[i + 1] \in graph.succ[cycle'[i]]
    BY <1>12 DEF Tries
  <2>3. \A a \in processed : \A t \in graph.succ[a] : <<a, t>> \in deps
    BY <1>1 DEF IInv, DepsInv, AfterBuild
  <2> QED
    BY <2>1, <2>2, <2>3
<1>15. CycleIsReal'
  <2>1. \A i \in 1..n : cycle'[i + 1] \in graph.succ[cycle'[i]] /\ cycle'[i + 1] \notin graph.ignored
    BY <1>12 DEF Tries, Ignored
  <2>2. \/ \A i \in 1..n : <<cycle'[i], cycle'[i + 1]>> \in deps'
        \/ \E i \in 1..Len(path') : IsCallee(graph', path'[i])
    BY <1>1, <1>14
  <2>3. cycle'[1] = cycle'[Len(cycle')]
    BY <1>8, <1>10
  <2> QED
    BY <1>1, <1>11, <1>13, <2>1, <2>2, <2>3 DEF CycleIsReal, IsCallee
<1> QED
  BY <1>1, <1>15 DEF FindInv, PathInv, TriedInv, FailedInv

LEMMA FindInit == Init => FindInv
  BY DEF Init, FindInv, PathInv, TriedInv, FailedInv, CycleIsReal

LEMMA FindStep == IInv /\ FindInv /\ [Next]_vars => FindInv'
<1> SUFFICES ASSUME IInv, FindInv, [Next]_vars PROVE FindInv'
  OBVIOUS
<1>1. ASSUME NEW addr \in todo, CreateNode(addr) \/ MissingBlock(addr) \/ ComputeDeps(addr)
      PROVE  FindInv'
  BY <1>1, FindQuiet DEF CreateNode, MissingBlock, ComputeDeps
<1>2. CASE StartDeps \/ StartSort \/ PopAll \/ Extend \/ SortDone
  BY <1>2, FindQuiet DEF StartDeps, StartSort, PopAll, Extend, SortDone
<1>3. ASSUME NEW addr, Descend(addr) \/ CloseCycle(addr) PROVE FindInv'
  BY <1>3, FindDescend, FindClose
<1>4. CASE Stopped \/ UNCHANGED vars
  <2>1. UNCHANGED vars
    BY <1>4 DEF Stopped
  <2>2. /\ \A m : Tries(m)' = Tries(m)
        /\ \A S : Progressive(S)' <=> Progressive(S)
    BY <2>1, ProgressiveSame DEF vars
  <2>3. PathInv' /\ CycleIsReal'
    BY <2>1, <2>2 DEF FindInv, PathInv, CycleIsReal, vars
  <2>4. TriedInv' /\ FailedInv'
    BY <2>1, <2>2 DEF FindInv, TriedInv, FailedInv, Stuck, vars
  <2> QED
    BY <2>3, <2>4 DEF FindInv
<1> QED
  BY <1>1, <1>2, <1>3, <1>4, FindStuck, FindBacktrack DEF Next

(* The path of find_cycle is a simple path of the CFG, and every block it  *)
(* has left is in every progressive set.                                   *)
THEOREM FindInvariance == Spec => []FindInv
  BY Invariance, FindInit, FindStep, PTL DEF Spec

(***************************************************************************)
(* For every graph: the list find_cycle returns is a simple cycle of edges *)
(* of the CFG that enter no ignored function; they are dependencies of the *)
(* sort unless the search has entered a callee.                            *)
(***************************************************************************)
THEOREM FoundCycleIsReal == Spec => []CycleIsReal
<1>1. FindInv => CycleIsReal
  BY DEF FindInv
<1> QED
  BY FindInvariance, <1>1, PTL

(***************************************************************************)
(* A finite set in which every element has a predecessor has a subset in   *)
(* which every element has a predecessor and a successor: a smallest one   *)
(* of those with predecessors has both.                                    *)
(***************************************************************************)
LEMMA LoopWithin ==
  ASSUME NEW W, IsFiniteSet(W), W # {}, NEW E,
         \A n \in W : \E m \in W : <<m, n>> \in E
  PROVE  \E B \in SUBSET W :
           /\ B # {}
           /\ \A m \in B : \E n \in B : <<m, n>> \in E
<1> DEFINE F == {B \in SUBSET W : B # {} /\ \A n \in B : \E m \in B : <<m, n>> \in E}
<1>1. W \in F /\ F \subseteq SUBSET W
  OBVIOUS
<1>2. IsWellFoundedOn(StrictSubsetOrdering(W), SUBSET W)
  BY FS_StrictSubsetOrderingWellFounded, FS_FiniteSubsetsOfFinite, Zenon
<1>3. PICK B \in F : \A C \in F : <<C, B>> \notin StrictSubsetOrdering(W)
  <2>1. F # {}
    BY <1>1
  <2> HIDE DEF F
  <2> QED
    BY <1>1, <1>2, <2>1, WFMin, Zenon
<1>4. \A C \in F : C \subseteq B => C = B
  BY <1>1, <1>3 DEF StrictSubsetOrdering
<1>5. ASSUME NEW m \in B PROVE \E n \in B : <<m, n>> \in E
  <2> SUFFICES ASSUME \A n \in B : <<m, n>> \notin E PROVE FALSE
    OBVIOUS
  <2>1. B \in SUBSET W /\ \A n \in B : \E k \in B : <<k, n>> \in E
    BY <1>3
  <2>2. \A n \in B \ {m} : \E k \in B \ {m} : <<k, n>> \in E
    BY <2>1
  <2>3. PICK k \in B : <<k, m>> \in E
    BY <1>5, <2>1
  <2>4. k \in B \ {m}
    BY <1>5, <2>3
  <2>5. B \ {m} \in F
    BY <2>1, <2>2, <2>4
  <2> QED
    BY <1>4, <1>5, <2>5
<1> QED
  BY <1>1, <1>3, <1>5

(***************************************************************************)
(* When the sort is stuck, some progressive set misses the entry: the      *)
(* search cannot have left the entry without meeting a cycle.  Good is the *)
(* least progressive set.  If it has the entry, it has all blocks of the   *)
(* function; the expanded blocks that wait are then in Good and form a     *)
(* loop, without which Good would still be progressive.                    *)
(***************************************************************************)
LEMMA StuckHasCycle ==
  ASSUME IInv, WalkInv, phase = "notFound", Stuck,
         \A S : Progressive(S) => graph.entry \in S
  PROVE  FALSE
<1> DEFINE Good == {m \in nodes : \A S : Progressive(S) => m \in S}
           Loop == waiting \cap processed
<1>1. /\ phase \in AfterBuild /\ todo = {} /\ graph \in Graphs
      /\ nodes \subseteq Blocks(graph) /\ processed \subseteq nodes
      /\ waiting \subseteq nodes /\ deps \subseteq processed \X nodes
      /\ \A a \in nodes : graph.succ[a] \subseteq nodes
      /\ graph.entry \in nodes /\ waiting \subseteq Universe
  BY DEF IInv, TypeOK, Closed, Quiet, AfterBuild, AfterDeps, Universe
<1>2. IsFiniteSet(Loop)
  <2>1. IsFiniteSet(Blocks(graph)) /\ Loop \in SUBSET Blocks(graph)
    BY <1>1, GraphsAssumption DEF IsGraph
  <2> QED
    BY <2>1, FS_Subset
<1>3. Progressive(Good)
  <2>1. ASSUME NEW m \in nodes, Tries(m) \subseteq Good, NEW S, Progressive(S)
        PROVE  m \in S
    <3>1. Tries(m) \subseteq S
      BY <2>1
    <3> QED
      BY <2>1, <3>1 DEF Progressive
  <2> QED
    BY <2>1 DEF Progressive
<1>4. ASSUME NEW m \in Good PROVE Tries(m) \subseteq Good
  <2> SUFFICES ASSUME ~ (Tries(m) \subseteq Good) PROVE FALSE
    OBVIOUS
  <2>1. Progressive(Good \ {m})
    BY <1>3 DEF Progressive
  <2> QED
    BY <1>4, <2>1
<1>5. graph.entry \in Good
  BY <1>1
<1> DEFINE Within == {b \in nodes : IsCallee(graph, b) \/ b \in Good}
<1>6. FuncClosed(Within)
  <2>1. graph.entry \in Within /\ Within \in SUBSET Blocks(graph)
    BY <1>1, <1>5
  <2>2. ASSUME NEW a \in Within, ~ IsCallee(graph, a), NEW t \in graph.succ[a]
        PROVE  t \in Within
    <3>1. a \in Good /\ t \in nodes
      BY <1>1, <2>2
    <3>2. CASE Ignored(t)
      BY <1>1, <3>1, <3>2, GraphFacts DEF Ignored, IsCallee
    <3>3. CASE ~ Ignored(t)
      <4>1. t \in Tries(a)
        BY <2>2, <3>3 DEF Tries
      <4> QED
        BY <1>4, <3>1, <4>1
    <3> QED
      BY <3>2, <3>3
  <2> QED
    BY <2>1, <2>2 DEF FuncClosed
<1>7. Loop \subseteq Good
  <2>1. Universe \subseteq Within
    BY <1>1, <1>6 DEF WalkInv, UniverseReached
  <2>2. \A b \in processed : ~ IsCallee(graph, b)
    BY <1>1 DEF IInv, DepsInv
  <2> QED
    BY <1>1, <2>1, <2>2
<1> DEFINE E == {e \in deps : e[2] \in Tries(e[1])}
<1>8. \A n \in waiting : \E m \in Loop : <<m, n>> \in deps
  BY <1>1 DEF Stuck
<1>9. \A n \in Loop : \E m \in Loop : <<m, n>> \in E
  <2> SUFFICES ASSUME NEW n \in Loop PROVE \E m \in Loop : <<m, n>> \in E
    OBVIOUS
  <2>1. PICK m \in Loop : <<m, n>> \in deps
    BY <1>8
  <2>2. n \in graph.succ[m]
    BY <2>1 DEF WalkInv, DepsAreEdges
  <2>3. ~ IsCallee(graph, n)
    BY <1>1 DEF IInv, DepsInv
  <2>4. ~ Ignored(n)
    BY <1>1, <2>3, GraphFacts DEF Ignored, IsCallee
  <2> QED
    BY <2>1, <2>2, <2>4 DEF Tries
<1>10. Loop # {}
  BY <1>8 DEF Stuck
<1>11. PICK B \in SUBSET Loop : B # {} /\ \A m \in B : \E n \in B : <<m, n>> \in E
  <2> HIDE DEF Loop, E
  <2> QED
    BY <1>2, <1>9, <1>10, LoopWithin
<1>12. \A m \in B : \E n \in B : n \in Tries(m)
  BY <1>11
<1>13. Progressive(Good \ B)
  BY <1>3, <1>12 DEF Progressive
<1> QED
  BY <1>7, <1>11, <1>13

(***************************************************************************)
(* For every graph: whenever the sort is stuck, find_cycle finds a cycle;  *)
(* the expect "Should have found a cycle." cannot fail.                    *)
(***************************************************************************)
THEOREM StuckSortFindsCycle == Spec => []CycleIsFound
<1>1. IInv /\ WalkInv /\ FindInv => CycleIsFound
  BY StuckHasCycle DEF CycleIsFound, FindInv, FailedInv
<1> QED
  BY Invariance, WalkInvariance, FindInvariance, <1>1, PTL
=============================================================================
