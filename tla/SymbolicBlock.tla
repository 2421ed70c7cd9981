--------------------------- MODULE SymbolicBlock ---------------------------
(***************************************************************************)
(* The body that Translator::cfg_to_symbolic_blk gives a function model,   *)
(* as UCLID5 executes it: a straight line of guarded calls, one for each   *)
(* block of the function in the order of the sort, each followed by the    *)
(* guarded call of the callee when the block ends in a jal to one.         *)
(*                                                                         *)
(* The body has no loop: it is the order that makes it execute a path of   *)
(* the function from its entry to its return.                              *)
(***************************************************************************)
EXTENDS FlowGraph

CONSTANT Translations    \* records of a graph and an order of its blocks

VARIABLES
  graph,
  order,                 \* sorted_entries
  i,                     \* the entry whose statements come next
  part,                  \* "block" or "call": which of them
  pc,
  link,                  \* ra while a callee runs
  returned,
  done                   \* the body has been executed

vars == <<graph, order, i, part, pc, link, returned, done>>

M == INSTANCE Machine WITH graph <- graph, pc <- pc, link <- link

Home     == M!Home
NoTarget == M!NoTarget
Own(block) == M!Own(block)

(* Every successor starts a block (create_cfg), no function jumps to its   *)
(* own entry (such a loop stops the sort), and a call returns into the     *)
(* function that makes it.                                                 *)
IsTranslatable(g) ==
  /\ IsGraph(g)
  /\ Home \notin Blocks(g)
  /\ \A b \in Blocks(g) :
       /\ g.succ[b] \subseteq Blocks(g)
       /\ g.target[b] \in (g.succ[b] \cup {NoTarget}) \ {g.entry}
       /\ g.after[b] # Home => g.after[b] \in g.succ[b] /\ ~ IsCallee(g, g.after[b])

ASSUME TranslationsAssumption ==
  \A t \in Translations : IsTranslatable(t.graph) /\ IsFlowOrder(t.graph, t.order)

Init ==
  /\ \E t \in Translations : graph = t.graph /\ order = t.order
  /\ i = 1
  /\ part = "block"
  /\ pc = graph.entry
  /\ link = Home
  /\ returned = FALSE
  /\ done = FALSE

-----------------------------------------------------------------------------
(* A definition that repeats the name of the next one with a suffix is a   *)
(* mutated form of it; no action uses it.                                  *)
GuardAlwaysAt(addr) == ~ returned
Guard(addr) == pc = addr /\ ~ returned

(* The statement of a block calls its bb_ procedure.                       *)
HasBlock(entry) == ~ IsCallee(graph, entry)

(* The exit is a jal and its target is the entry of a function.            *)
HasCallLinked(entry) ==
  HasBlock(entry) /\ graph.target[entry] \in graph.labels /\ graph.after[entry] # Home
HasCall(entry) == HasBlock(entry) /\ graph.target[entry] \in graph.labels

Current == order[i]

RunBlock ==
  /\ i <= Len(order)
  /\ part = "block"
  /\ HasBlock(Current) /\ Guard(Current)
  /\ IF M!Returns(Current)
       THEN pc' = Home /\ returned' = TRUE
       ELSE pc' \in M!Destinations(Current) /\ UNCHANGED returned
  /\ link' = graph.after[Current]
  /\ part' = "call"
  /\ UNCHANGED <<graph, order, i, done>>

SkipBlock ==
  /\ i <= Len(order)
  /\ part = "block"
  /\ ~ (HasBlock(Current) /\ Guard(Current))
  /\ part' = "call"
  /\ UNCHANGED <<graph, order, i, pc, link, returned, done>>

NextEntry == i' = i + 1 /\ part' = "block"

ResetNever == TRUE
Reset == FALSE

(* The callee leaves returned set; the statement after the call resets it. *)
CallFunction ==
  /\ i <= Len(order)
  /\ part = "call"
  /\ HasCall(Current) /\ Guard(graph.target[Current])
  /\ pc' = link
  /\ returned' = Reset
  /\ NextEntry
  /\ UNCHANGED <<graph, order, link, done>>

SkipCall ==
  /\ i <= Len(order)
  /\ part = "call"
  /\ ~ (HasCall(Current) /\ Guard(graph.target[Current]))
  /\ NextEntry
  /\ UNCHANGED <<graph, order, pc, link, returned, done>>

(* The last statement of the body.                                         *)
SetReturned ==
  /\ i > Len(order)
  /\ ~ done
  /\ returned' = TRUE
  /\ done' = TRUE
  /\ UNCHANGED <<graph, order, i, part, pc, link>>

Stopped == done /\ UNCHANGED vars

Next == RunBlock \/ SkipBlock \/ CallFunction \/ SkipCall \/ SetReturned \/ Stopped

Spec == Init /\ [][Next]_vars

(* A verifier considers the whole body.                                    *)
FairSpec == Spec /\ WF_vars(Next)

-----------------------------------------------------------------------------
TypeOK ==
  /\ i \in 1..Len(order) + 1
  /\ part \in {"block", "call"}
  /\ i = Len(order) + 1 => part = "block"
  /\ pc \in Blocks(graph) \cup {Home}
  /\ link \in Blocks(graph) \cup {Home}
  /\ returned \in BOOLEAN
  /\ done \in BOOLEAN

(* Control passes to another function by a jal to its entry only.          *)
CallsByJal(g) ==
  \A b \in Blocks(g) : ~ IsCallee(g, b) =>
    \A t \in g.succ[b] : IsCallee(g, t) => t = g.target[b]

(***************************************************************************)
(* The statements to come always hold the one that continues the run: as   *)
(* long as the function has not returned, the pc is the guard of a later   *)
(* statement of the body.                                                  *)
(***************************************************************************)
Ahead(addr, first) == \E j \in first..Len(order) : order[j] = addr

NeverLosesControl ==
  CallsByJal(graph) /\ ~ done =>
    \/ pc = Home
    \/ ~ returned /\ Own(pc) /\ Ahead(pc, IF part = "block" THEN i ELSE i + 1)
    \/ ~ returned /\ part = "call" /\ HasCall(Current) /\ pc = graph.target[Current]

(***************************************************************************)
(* When the body ends, the function has returned: the model does not claim *)
(* a return in the middle of a path.                                       *)
(***************************************************************************)
RunsToReturn == CallsByJal(graph) /\ done => pc = Home

(***************************************************************************)
(* The body executes what the machine does, and all of it.                 *)
(***************************************************************************)
ImplementsMachine == M!FairSpec
=============================================================================
