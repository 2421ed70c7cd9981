---------------------------- MODULE ControlFlow ----------------------------
(***************************************************************************)
(* From the block map to the order in which the blocks of a function are   *)
(* emitted: Cfg::new, Translator::compute_deps, Translator::topo_sort and  *)
(* Cfg::find_cycle.                                                        *)
(*                                                                         *)
(* create_cfg and compute_deps recurse on the successors and return at     *)
(* once at an address they have seen: what they compute does not depend on *)
(* the order of the walk, and the addresses still to visit are kept as a   *)
(* set.  find_cycle forgets an address when it backtracks, and keeps its   *)
(* path.  The TopologicalSort of the external crate is the set of elements *)
(* not popped yet and the set of all dependencies.                         *)
(***************************************************************************)
EXTENDS FlowGraph

CONSTANT Graphs

ASSUME GraphsAssumption == \A g \in Graphs : IsGraph(g)

VARIABLES
  graph,      \* the block map of the binary and the function to translate
  phase,      \* the function that runs, or how the program ended
  todo,       \* addresses create_cfg or compute_deps has still to visit
  nodes,      \* blocks of the CFG
  processed,  \* blocks compute_deps has expanded
  deps,       \* dependencies added to ts
  waiting,    \* elements of ts not popped yet
  level,      \* popped elements not yet moved to sorted
  sorted,
  path,       \* find_cycle: the blocks of the calls on the stack
  untried,    \* find_cycle: for each of them the successors left to try
  cycle       \* find_cycle: the cycle it returns

vars == <<graph, phase, todo, nodes, processed, deps, waiting, level, sorted,
          path, untried, cycle>>

Final == {"done", "missing", "cyclic", "notFound"}

Init ==
  /\ graph \in Graphs
  /\ phase = "build"
  /\ todo = {graph.entry}
  /\ nodes = {}
  /\ processed = {}
  /\ deps = {}
  /\ waiting = {}
  /\ level = {}
  /\ sorted = <<>>
  /\ path = <<>>
  /\ untried = <<>>
  /\ cycle = <<>>

-----------------------------------------------------------------------------
(* create_cfg.  A successor without a block fails the expect.              *)
(* A definition that repeats the name of the next one with a suffix is a   *)
(* mutated form of it; no action uses it.                                  *)
FollowedNoCallee(addr) == graph.succ[addr] \ graph.labels
Followed(addr) == graph.succ[addr]

StillToVisitAgain(addr) == (todo \ {addr}) \cup Followed(addr)
StillToVisit(addr) == (todo \cup Followed(addr)) \ (nodes \cup {addr})

CreateNode(addr) ==
  /\ phase = "build"
  /\ addr \in todo
  /\ addr \in Blocks(graph)
  /\ nodes' = nodes \cup {addr}
  /\ todo' = StillToVisit(addr)
  /\ UNCHANGED <<graph, phase, processed, deps, waiting, level, sorted,
                 path, untried, cycle>>

MissingBlock(addr) ==
  /\ phase = "build"
  /\ addr \in todo
  /\ addr \notin Blocks(graph)
  /\ phase' = "missing"
  /\ UNCHANGED <<graph, todo, nodes, processed, deps, waiting, level, sorted,
                 path, untried, cycle>>

(* topo_sort puts the entry into ts and starts compute_deps there.         *)
StartDeps ==
  /\ phase = "build"
  /\ todo = {}
  /\ phase' = "deps"
  /\ todo' = {graph.entry}
  /\ waiting' = {graph.entry}
  /\ UNCHANGED <<graph, nodes, processed, deps, level, sorted, path, untried, cycle>>

-----------------------------------------------------------------------------
(* compute_deps.  The targets that start a function are not expanded.      *)
Ignored(addr) == addr \in graph.ignored

ExpandedEveryTarget(targets) == targets
Expanded(targets) == targets \ graph.labels

ComputeDeps(addr) ==
  /\ phase = "deps"
  /\ addr \in todo
  /\ LET targets == IF Ignored(addr) THEN {} ELSE graph.succ[addr]
     IN  /\ deps' = deps \cup {<<addr, t>> : t \in targets}
         /\ waiting' = waiting \cup targets
         /\ todo' = (todo \cup Expanded(targets)) \ (processed \cup {addr})
  /\ processed' = processed \cup {addr}
  /\ UNCHANGED <<graph, phase, nodes, level, sorted, path, untried, cycle>>

StartSort ==
  /\ phase = "deps"
  /\ todo = {}
  /\ phase' = "sort"
  /\ UNCHANGED <<graph, todo, nodes, processed, deps, waiting, level, sorted,
                 path, untried, cycle>>

-----------------------------------------------------------------------------
(* topo_sort: pop_all returns the elements without a predecessor in ts;    *)
(* they are sorted by address and appended.                                *)
ReadyBySomePred == {n \in waiting : \E m \in waiting : <<m, n>> \notin deps}
Ready == {n \in waiting : \A m \in waiting : <<m, n>> \notin deps}

PopAll ==
  /\ phase = "sort"
  /\ Ready # {}
  /\ level' = Ready
  /\ waiting' = waiting \ Ready
  /\ phase' = "extend"
  /\ UNCHANGED <<graph, todo, nodes, processed, deps, sorted, path, untried, cycle>>

Extend ==
  /\ phase = "extend"
  /\ \E least \in level :
       /\ \A other \in level : least <= other
       /\ sorted' = Append(sorted, least)
       /\ level' = level \ {least}
  /\ phase' = IF level' = {} THEN "sort" ELSE "extend"
  /\ UNCHANGED <<graph, todo, nodes, processed, deps, waiting, path, untried, cycle>>

SortDone ==
  /\ phase = "sort"
  /\ waiting = {}
  /\ phase' = "done"
  /\ UNCHANGED <<graph, todo, nodes, processed, deps, waiting, level, sorted,
                 path, untried, cycle>>

Seen == {path[i] : i \in 1..Len(path)}

(* No element is ready and some are left: find_cycle starts at the entry.  *)
TriesUnseen(addr) == {s \in graph.succ[addr] : ~ Ignored(s) /\ s \notin Seen}
Tries(addr) == {s \in graph.succ[addr] : ~ Ignored(s)}

SortStuck ==
  /\ phase = "sort"
  /\ Ready = {} /\ waiting # {}
  /\ phase' = "search"
  /\ path' = <<graph.entry>>
  /\ untried' = <<Tries(graph.entry)>>
  /\ UNCHANGED <<graph, todo, nodes, processed, deps, waiting, level, sorted, cycle>>

-----------------------------------------------------------------------------
(* find_cycle                                                              *)
Depth == Len(path)

Descend(addr) ==
  /\ phase = "search"
  /\ addr \in untried[Depth]
  /\ addr \notin Seen
  /\ path' = Append(path, addr)
  /\ untried' = Append([untried EXCEPT ![Depth] = @ \ {addr}], Tries(addr))
  /\ UNCHANGED <<graph, phase, todo, nodes, processed, deps, waiting, level, sorted, cycle>>

Backtrack ==
  /\ phase = "search"
  /\ untried[Depth] = {}
  /\ path' = SubSeq(path, 1, Depth - 1)
  /\ untried' = SubSeq(untried, 1, Depth - 1)
  /\ phase' = IF Depth = 1 THEN "notFound" ELSE phase
  /\ UNCHANGED <<graph, todo, nodes, processed, deps, waiting, level, sorted, cycle>>

(* The calls on the stack push their block until the one that closes the   *)
(* cycle has done so; the panic message prints the list reversed.          *)
UnwindWholePath(addr) == Append(path, addr)
Unwind(addr) ==
  LET first == CHOOSE i \in 1..Depth : path[i] = addr
  IN  Append(SubSeq(path, first, Depth), addr)

CloseCycle(addr) ==
  /\ phase = "search"
  /\ addr \in untried[Depth]
  /\ addr \in Seen
  /\ cycle' = Unwind(addr)
  /\ phase' = "cyclic"
  /\ UNCHANGED <<graph, todo, nodes, processed, deps, waiting, level, sorted, path, untried>>

Stopped ==
  /\ phase \in Final
  /\ UNCHANGED vars

Next ==
  \/ \E addr \in todo : CreateNode(addr) \/ MissingBlock(addr) \/ ComputeDeps(addr)
  \/ StartDeps \/ StartSort \/ PopAll \/ Extend \/ SortDone \/ SortStuck
  \/ \E addr \in Blocks(graph) : Descend(addr) \/ CloseCycle(addr)
  \/ Backtrack
  \/ Stopped

Spec == Init /\ [][Next]_vars

(* The program is sequential: it takes a step as long as there is one.     *)
FairSpec == Spec /\ WF_vars(Next)

-----------------------------------------------------------------------------
TypeOK ==
  /\ phase \in Final \cup {"build", "deps", "sort", "extend", "search"}
  /\ todo \subseteq Nat
  /\ nodes \subseteq Blocks(graph)
  /\ processed \subseteq nodes
  /\ deps \subseteq processed \X nodes
  /\ waiting \subseteq nodes
  /\ level \subseteq nodes
  /\ sorted \in Seq(nodes)
  /\ path \in Seq(nodes)
  /\ untried \in Seq(SUBSET nodes)
  /\ Len(untried) = Len(path)

(* A block reachable from the entry has a successor at which there is no   *)
(* block.                                                                  *)
MissesBlock == \E b \in CfgBlocks(graph) : ~ (graph.succ[b] \subseteq Blocks(graph))

(***************************************************************************)
(* Once built, the CFG holds the blocks reachable from the entry, callees  *)
(* included, and nothing else, whatever cycles the graph has; and the      *)
(* expect of create_cfg fails exactly on a graph that misses a block, in   *)
(* whatever order the walk meets it.                                       *)
(***************************************************************************)
CfgIsReachable ==
  phase # "build" =>
    IF MissesBlock THEN phase = "missing" ELSE phase # "missing" /\ nodes = CfgBlocks(graph)

(***************************************************************************)
(* A sort that completes is an order that execution follows: each          *)
(* successor of a block of the function comes after it.                    *)
(***************************************************************************)
SortedFollowsFlow == phase = "done" => IsFlowOrder(graph, sorted)

(***************************************************************************)
(* A completed sort has the blocks of the function and the entries of the  *)
(* functions it reaches directly, and no block of a callee past its entry. *)
(***************************************************************************)
SortedIsFunction ==
  phase = "done" => {sorted[i] : i \in 1..Len(sorted)} = FunctionBlocks(graph)

(***************************************************************************)
(* The expect in topo_sort ("Should have found a cycle.") holds: whenever  *)
(* the sort is stuck, find_cycle returns a cycle.                          *)
(***************************************************************************)
CycleIsFound == phase # "notFound"

(***************************************************************************)
(* What the panic message prints is a simple cycle of the CFG through no   *)
(* ignored function.  It is made of dependencies of the sort, those that   *)
(* kept it from completing, unless the search went into a callee:          *)
(* find_cycle follows its blocks, compute_deps does not, and the cycle     *)
(* reported may then be one of the callee.                                 *)
(***************************************************************************)
CycleIsReal ==
  phase = "cyclic" =>
    /\ Len(cycle) > 1 /\ cycle[1] = cycle[Len(cycle)]
    /\ \A i \in 1..Len(cycle) - 1 :
         cycle[i + 1] \in graph.succ[cycle[i]] /\ cycle[i + 1] \notin graph.ignored
    /\ \A i, j \in 1..Len(cycle) - 1 : cycle[i] = cycle[j] => i = j
    /\ \/ \A i \in 1..Len(cycle) - 1 : <<cycle[i], cycle[i + 1]>> \in deps
       \/ \E i \in 1..Len(path) : IsCallee(graph, path[i])

(* On every graph, cyclic ones included, the recursions come to an end.    *)
Terminates == <>(phase \in Final)
=============================================================================
