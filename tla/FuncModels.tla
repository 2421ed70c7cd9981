----------------------------- MODULE FuncModels -----------------------------
(***************************************************************************)
(* Translator::gen_func_model: the function models of the requested        *)
(* functions and, recursively, of the functions they call.                 *)
(*                                                                         *)
(* The recursion is a stack of frames, one for each call of gen_func_model *)
(* that waits for its callees.  A program is the block map (succ, labels   *)
(* as in FlowGraph, every successor starts a block), the function whose    *)
(* lines a block holds ("owner", an entry address), the jal target of the  *)
(* blocks that end in one, the variables a block writes, the functions to  *)
(* ignore and the modifies specification of each function.  A function is  *)
(* named by its entry address: a name has one entry (OneEntryPerFunction). *)
(***************************************************************************)
EXTENDS FlowGraph

CONSTANTS Programs, Requests      \* Requests: sequences of functions of option -f

NoTarget == 0                     \* no jal ends the block

ASSUME ProgramsAssumption ==
  \A p \in Programs :
    /\ DOMAIN p.succ \subseteq Nat \ {NoTarget}
    /\ \A b \in DOMAIN p.succ : p.succ[b] \subseteq DOMAIN p.succ
    /\ p.labels \subseteq DOMAIN p.succ
    /\ \A b \in DOMAIN p.succ : p.target[b] \in p.succ[b] \cup {NoTarget}

(* A requested function that the binary does not have fails the expect of  *)
(* gen_func_model, "Unable to find ..'s entry address."                    *)
ASSUME RequestsAssumption ==
  \A p \in Programs, r \in Requests : r \in Seq(p.labels)

VARIABLES
  program,
  requests,     \* requested functions not translated yet
  stack,        \* frames [func, callees, modSet], the last one runs
  generated,
  modSetMap,    \* procedure name -> modifies set
  models,       \* procedure name -> [modSet, calls]; the func_models of the model
  phase         \* "translate", "print", "done", or "cyclic" after the panic

vars == <<program, requests, stack, generated, modSetMap, models, phase>>

Init ==
  /\ program \in Programs
  /\ requests \in Requests
  /\ stack = <<>>
  /\ generated = {}
  /\ modSetMap = <<>>
  /\ models = <<>>
  /\ phase = "translate"

Function(addr) == <<"fn", addr>>
BasicBlock(addr) == <<"bb", addr>>

(* The view cfg.rs and topo_sort have of the program from one function.    *)
View(f) == [entry |-> f, succ |-> program.succ, labels |-> program.labels,
            ignored |-> program.ignored \ {f}]

(* HashMap::insert for every pair of "new".                                *)
Extend(map, new) ==
  [k \in DOMAIN map \cup DOMAIN new |-> IF k \in DOMAIN new THEN new[k] ELSE map[k]]

(* Model::add_func_model keeps the first model of a name.                  *)
AddModels(new) == Extend(new, models)

-----------------------------------------------------------------------------
InferModSet(block) == {"pc", "returned"} \cup program.writes[block]

BlockModSets(blocks) ==
  [name \in {BasicBlock(b) : b \in blocks} |-> InferModSet(name[2])]

BlockModels(blocks) ==
  [name \in {BasicBlock(b) : b \in blocks} |-> [modSet |-> InferModSet(name[2]), calls |-> {}]]

(* get_callee_addrs, and the targets of it that get_func_at finds.  The    *)
(* lines of other functions are skipped.                                   *)
(* A definition that repeats the name of the next one with a suffix is a   *)
(* mutated form of it; no action uses it.                                  *)
CalleesOfEntry(f, nodes) == {program.target[f]} \cap program.labels
Callees(f, nodes) ==
  {program.target[b] : b \in {c \in nodes : program.owner[c] = f}} \cap program.labels

(* The procedures that the body made by cfg_to_symbolic_blk calls.         *)
CalledBlocks(f) == {b \in FunctionBlocks(View(f)) : ~ IsCallee(View(f), b)}
CalledFunctions(f) == {program.target[b] : b \in CalledBlocks(f)} \cap program.labels
Calls(f) == {BasicBlock(b) : b \in CalledBlocks(f)} \cup {Function(g) : g \in CalledFunctions(f)}

Stub(f) == [modSet |-> program.modifies[f], calls |-> {}]

(* The lines of all blocks of the CFG, callees included, are inferred from.*)
FrameModSetOwn(f, nodes) == UNION {InferModSet(b) : b \in CalledBlocks(f)}
FrameModSet(f, nodes) == UNION {InferModSet(b) : b \in nodes}

-----------------------------------------------------------------------------
(* A call gen_func_model(f), made with "below" as the rest of the stack:   *)
(* it returns at once, leaves a stub, or starts the translation of f.      *)
Return(f, below) ==
  /\ f \in generated
  /\ stack' = below
  /\ UNCHANGED <<generated, modSetMap, models>>

LeaveStub(f, below) ==
  /\ f \notin generated
  /\ f \in program.ignored
  /\ generated' = generated \cup {f}
  /\ models' = AddModels([name \in {Function(f)} |-> Stub(f)])
  /\ stack' = below
  /\ UNCHANGED modSetMap

StartLateMark(f, below) ==
  /\ f \notin generated
  /\ f \notin program.ignored
  /\ LET nodes == CfgBlocks(View(f))
     IN  /\ stack' = Append(below, [func |-> f, callees |-> Callees(f, nodes),
                                    modSet |-> FrameModSet(f, nodes)])
         /\ modSetMap' = Extend(modSetMap, BlockModSets(nodes))
         /\ models' = AddModels(BlockModels(nodes))
  /\ UNCHANGED generated

Start(f, below) ==
  /\ f \notin generated
  /\ f \notin program.ignored
  /\ generated' = generated \cup {f}
  /\ LET nodes == CfgBlocks(View(f))
     IN  /\ stack' = Append(below, [func |-> f, callees |-> Callees(f, nodes),
                                    modSet |-> FrameModSet(f, nodes)])
         /\ modSetMap' = Extend(modSetMap, BlockModSets(nodes))
         /\ models' = AddModels(BlockModels(nodes))

GenFuncModel(f, below) == Return(f, below) \/ LeaveStub(f, below) \/ Start(f, below)

(* process_commands: the loop over the functions of option -f.             *)
Request ==
  /\ phase = "translate"
  /\ stack = <<>>
  /\ requests # <<>>
  /\ requests' = Tail(requests)
  /\ GenFuncModel(Head(requests), <<>>)
  /\ UNCHANGED <<program, phase>>

Top == stack[Len(stack)]
Below == SubSeq(stack, 1, Len(stack) - 1)

(* The callees come from a HashMap, in any order.                          *)
AfterCalleeAgain(g) == stack
AfterCallee(g) == Append(Below, [Top EXCEPT !.callees = @ \ {g}])

Recurse ==
  /\ phase = "translate"
  /\ stack # <<>>
  /\ \E g \in Top.callees : GenFuncModel(g, AfterCallee(g))
  /\ UNCHANGED <<program, requests, phase>>

(* For an ignored callee the specification of the caller is consulted; the *)
(* callees that are not ignored add nothing.                               *)
ModSet(frame) ==
  frame.modSet \cup (IF Callees(frame.func, CfgBlocks(View(frame.func))) \cap program.ignored # {}
                     THEN program.modifies[frame.func] ELSE {})

Finish ==
  /\ phase = "translate"
  /\ stack # <<>>
  /\ Top.callees = {}
  /\ ~ IsCyclic(View(Top.func))
  /\ LET name == Function(Top.func)
     IN  /\ modSetMap' = Extend(modSetMap, [n \in {name} |-> ModSet(Top)])
         /\ models' = AddModels([n \in {name} |-> [modSet |-> ModSet(Top), calls |-> Calls(Top.func)]])
  /\ stack' = Below
  /\ UNCHANGED <<program, requests, generated, phase>>

(* topo_sort finds no order and stops the program.                         *)
PanicOnCycle ==
  /\ phase = "translate"
  /\ stack # <<>>
  /\ Top.callees = {}
  /\ IsCyclic(View(Top.func))
  /\ phase' = "cyclic"
  /\ UNCHANGED <<program, requests, stack, generated, modSetMap, models>>

(* print_model writes the model out as it is now.                          *)
PrintModel ==
  /\ phase = "translate"
  /\ stack = <<>> /\ requests = <<>>
  /\ phase' = "print"
  /\ UNCHANGED <<program, requests, stack, generated, modSetMap, models>>

(* The memoised CFGs and modifies sets survive.                            *)
Clear ==
  /\ phase = "print"
  /\ models' = <<>>
  /\ generated' = {}
  /\ phase' = "done"
  /\ UNCHANGED <<program, requests, stack, modSetMap>>

Stopped ==
  /\ phase \in {"done", "cyclic"}
  /\ UNCHANGED vars

Next == Request \/ Recurse \/ Finish \/ PanicOnCycle \/ PrintModel \/ Clear \/ Stopped

Spec == Init /\ [][Next]_vars

(* The program is sequential: it takes a step as long as there is one.     *)
FairSpec == Spec /\ WF_vars(Next)

-----------------------------------------------------------------------------
Functions == {f \in program.labels : Function(f) \in DOMAIN models}

(***************************************************************************)
(* A function that is marked as generated has its model already, or its    *)
(* translation is on the stack, once: mutual recursion does not make       *)
(* gen_func_model lose a function or translate one twice.                  *)
(***************************************************************************)
MarkedOrPending ==
  phase # "done" =>
    /\ \A f \in generated \ Functions : \E i \in DOMAIN stack : stack[i].func = f
    /\ \A i, j \in DOMAIN stack : stack[i].func = stack[j].func => i = j
    /\ \A i \in DOMAIN stack : stack[i].func \notin Functions

(* No block of the function at "f" is a block of another function that a   *)
(* branch or a fallthrough enters past its entry.                          *)
Confined(f) == \A b \in CalledBlocks(f) : program.owner[b] = f

(***************************************************************************)
(* The printed model is closed (gen_func_model, get_callee_addrs) when no  *)
(* function branches into the middle of another one.                       *)
(***************************************************************************)
CalleesDeclared ==
  phase = "print" /\ (\A f \in program.labels : Confined(f)) =>
    \A f \in Functions : models[Function(f)].calls \subseteq DOMAIN models

(***************************************************************************)
(* UCLID5 accepts a call only when the caller may modify what the callee   *)
(* may.  The modifies set of a function covers that of every procedure its *)
(* body calls, except for what the specification of the callee adds.       *)
(***************************************************************************)
Specified(name) == IF name[1] = "fn" THEN program.modifies[name[2]] ELSE {}

ModifiesCoverInferred ==
  \A f \in Functions : \A name \in models[Function(f)].calls \cap DOMAIN models :
    models[name].modSet \ Specified(name) \subseteq models[Function(f)].modSet

(***************************************************************************)
(* The comment "Add callee modifies set to this function's modifies set":  *)
(* the modifies set of a callee is part of that of its caller.             *)
(***************************************************************************)
CalleeModifiesAdded ==
  \A f \in Functions : \A name \in models[Function(f)].calls \cap DOMAIN models :
    models[name].modSet \subseteq models[Function(f)].modSet

(* Every request comes to an end, recursive programs included.             *)
Terminates == <>(phase \in {"done", "cyclic"})
=============================================================================
