-------------------------- MODULE FuncModelsProofs --------------------------
(***************************************************************************)
(* The recursion gen_func_model, for every program and every sequence of   *)
(* requests: no function is lost or translated twice, the model that is    *)
(* printed is closed, and the modifies set of a function covers what was   *)
(* inferred for the procedures it calls.                                   *)
(*                                                                         *)
(* A function that is generated and has no model is the function of one    *)
(* frame.  A frame has its blocks in the model, and its callees are those  *)
(* still to visit and generated ones.  A function with a model is a stub,  *)
(* or it has a body whose callees are generated and whose modifies set is  *)
(* that of the lines of all blocks of its CFG.                             *)
(***************************************************************************)
EXTENDS FuncModels, TLAPS

Cfg(f)        == CfgBlocks(View(f))
Inferred(f)   == FrameModSet(f, Cfg(f))
AllCallees(f) == Callees(f, Cfg(f))

Frame == [func    : program.labels,
          callees : SUBSET program.labels,
          modSet  : {Inferred(f) : f \in program.labels}]

BlocksModelled(f) == \A b \in Cfg(f) : BasicBlock(b) \in DOMAIN models

FramesInv(stk) ==
  /\ stk \in Seq(Frame)
  /\ \A i \in 1..Len(stk) :
       /\ stk[i].func \in generated \ Functions
       /\ stk[i].modSet = Inferred(stk[i].func)
       /\ BlocksModelled(stk[i].func)
  /\ \A i, j \in 1..Len(stk) : stk[i].func = stk[j].func => i = j
  /\ \A f \in generated \ Functions : \E i \in 1..Len(stk) : stk[i].func = f

CoveredBy(stk, gen) ==
  \A i \in 1..Len(stk) : AllCallees(stk[i].func) \subseteq stk[i].callees \cup gen

StubModel(f) ==
  /\ models[Function(f)].calls = {}
  /\ models[Function(f)].modSet = program.modifies[f]

BodyModel(f) ==
  /\ models[Function(f)].calls = Calls(f)
  /\ Inferred(f) \subseteq models[Function(f)].modSet
  /\ models[Function(f)].modSet \subseteq Inferred(f) \cup program.modifies[f]
  /\ AllCallees(f) \subseteq generated
  /\ BlocksModelled(f)

ModelsInv ==
  /\ generated \subseteq program.labels
  /\ Functions \subseteq generated
  /\ \A b : BasicBlock(b) \in DOMAIN models => models[BasicBlock(b)].modSet = InferModSet(b)
  /\ \A f \in Functions : StubModel(f) \/ BodyModel(f)

IInv ==
  /\ program \in Programs
  /\ requests \in Seq(program.labels)
  /\ phase \in {"translate", "print", "done", "cyclic"}
  /\ phase \in {"print", "done"} => stack = <<>>
  /\ FramesInv(stack)
  /\ CoveredBy(stack, generated)
  /\ ModelsInv

-----------------------------------------------------------------------------
(* The maps.                                                               *)
LEMMA AddModelsFacts ==
  ASSUME NEW new
  PROVE  /\ DOMAIN AddModels(new) = DOMAIN models \cup DOMAIN new
         /\ \A k \in DOMAIN models : AddModels(new)[k] = models[k]
         /\ \A k \in DOMAIN new : k \notin DOMAIN models => AddModels(new)[k] = new[k]
  BY DEF AddModels, Extend

LEMMA Names ==
  /\ \A f, g : Function(f) = Function(g) => f = g
  /\ \A a, b : BasicBlock(a) = BasicBlock(b) => a = b
  /\ \A f, b : Function(f) # BasicBlock(b)
  /\ \A f : Function(f)[1] = "fn" /\ Function(f)[2] = f
  /\ \A b : BasicBlock(b)[1] = "bb" /\ BasicBlock(b)[2] = b
  BY DEF Function, BasicBlock

(***************************************************************************)
(* The blocks of a function are in its CFG, and the CFG of a function has  *)
(* the CFG of every block that it has.                                     *)
(***************************************************************************)
LEMMA CfgFacts ==
  ASSUME NEW f
  PROVE  Cfg(f) = {b \in DOMAIN program.succ :
                     \A S \in SUBSET DOMAIN program.succ :
                       /\ f \in S
                       /\ \A a \in S : program.succ[a] \cap DOMAIN program.succ \subseteq S
                       => b \in S}
  BY DEF Cfg, CfgBlocks, Closure, Blocks, View

LEMMA CalledInCfg ==
  ASSUME NEW f
  PROVE  CalledBlocks(f) \subseteq Cfg(f)
<1> SUFFICES ASSUME NEW b \in FunctionBlocks(View(f)) PROVE b \in Cfg(f)
  BY DEF CalledBlocks
<1>1. /\ b \in DOMAIN program.succ
      /\ \A S \in SUBSET DOMAIN program.succ :
           /\ f \in S
           /\ \A a \in S : (IF IsCallee(View(f), a) THEN {} ELSE program.succ[a])
                             \cap DOMAIN program.succ \subseteq S
           => b \in S
  BY DEF FunctionBlocks, Closure, Blocks, View
<1>2. ASSUME NEW S \in SUBSET DOMAIN program.succ, f \in S,
             \A a \in S : program.succ[a] \cap DOMAIN program.succ \subseteq S
      PROVE  b \in S
  BY <1>1, <1>2
<1> QED
  BY <1>1, <1>2, CfgFacts

LEMMA CfgOfSuccessor ==
  ASSUME program \in Programs, NEW f, NEW b \in Cfg(f), NEW g \in program.succ[b]
  PROVE  Cfg(g) \subseteq Cfg(f)
<1>1. b \in DOMAIN program.succ /\ g \in DOMAIN program.succ
  BY CfgFacts, ProgramsAssumption
<1> SUFFICES ASSUME NEW c \in Cfg(g), NEW S \in SUBSET DOMAIN program.succ, f \in S,
                    \A a \in S : program.succ[a] \cap DOMAIN program.succ \subseteq S
             PROVE  c \in S
  BY CfgFacts
<1>2. b \in S
  BY CfgFacts
<1>3. g \in S
  BY <1>1, <1>2
<1> QED
  BY <1>3, CfgFacts

LEMMA SameProgram ==
  ASSUME UNCHANGED program
  PROVE  /\ \A f : Cfg(f)' = Cfg(f)
         /\ \A f : Inferred(f)' = Inferred(f)
         /\ \A f : AllCallees(f)' = AllCallees(f)
         /\ \A f : Calls(f)' = Calls(f)
         /\ \A b : InferModSet(b)' = InferModSet(b)
         /\ Frame' = Frame
<1>1. \A f : View(f)' = View(f)
  BY DEF View
<1>2. \A f : Cfg(f)' = Cfg(f)
  BY CfgFacts, <1>1 DEF Cfg
<1>3. \A b : InferModSet(b)' = InferModSet(b)
  BY DEF InferModSet
<1>4. \A f : Inferred(f)' = Inferred(f)
  BY <1>2, <1>3 DEF Inferred, FrameModSet
<1>5. \A f : AllCallees(f)' = AllCallees(f)
  BY <1>2 DEF AllCallees, Callees
<1>6. \A f : CalledBlocks(f)' = CalledBlocks(f)
  BY <1>1 DEF CalledBlocks
<1>7. \A f : Calls(f)' = Calls(f)
  BY <1>6 DEF Calls, CalledFunctions, Function, BasicBlock
<1> QED
  BY <1>2, <1>3, <1>4, <1>5, <1>7 DEF Frame

-----------------------------------------------------------------------------
(* The models that are there stay, and what is known of them too.          *)
LEMMA ModelsStay ==
  ASSUME ModelsInv, UNCHANGED program, generated \subseteq generated',
         NEW new, models' = AddModels(new)
  PROVE  /\ Functions \subseteq Functions'
         /\ \A f \in Functions : (StubModel(f) \/ BodyModel(f))'
         /\ \A f : BlocksModelled(f) => BlocksModelled(f)'
<1>1. /\ DOMAIN models \subseteq DOMAIN models'
      /\ \A k \in DOMAIN models : models'[k] = models[k]
  BY AddModelsFacts
<1>2. Functions \subseteq Functions'
  BY <1>1, Names DEF Functions, Function
<1>3. \A f : BlocksModelled(f) => BlocksModelled(f)'
  BY <1>1, SameProgram DEF BlocksModelled, BasicBlock
<1>4. ASSUME NEW f \in Functions PROVE (StubModel(f) \/ BodyModel(f))'
  <2>1. models'[Function(f)] = models[Function(f)] /\ Function(f)' = Function(f)
    BY <1>1 DEF Functions, Function
  <2>2. StubModel(f) => StubModel(f)'
    BY <2>1 DEF StubModel
  <2>3. BodyModel(f) => BodyModel(f)'
    BY <1>3, <2>1, SameProgram DEF BodyModel
  <2> QED
    BY <1>4, <2>2, <2>3 DEF ModelsInv
<1> QED
  BY <1>2, <1>3, <1>4

LEMMA InitInv == Init => IInv
<1> SUFFICES ASSUME Init PROVE IInv
  OBVIOUS
<1>1. /\ program \in Programs /\ requests \in Seq(program.labels)
      /\ stack = <<>> /\ generated = {} /\ models = <<>> /\ phase = "translate"
  BY RequestsAssumption DEF Init
<1>2. Functions = {} /\ \A b : BasicBlock(b) \notin DOMAIN models
  BY <1>1 DEF Functions
<1>3. FramesInv(stack) /\ CoveredBy(stack, generated)
  BY <1>1 DEF FramesInv, CoveredBy
<1>4. ModelsInv
  BY <1>1, <1>2 DEF ModelsInv
<1> QED
  BY <1>1, <1>3, <1>4 DEF IInv

(* A frame keeps what is known of it while the maps grow around it.        *)
LEMMA FramesStay ==
  ASSUME ModelsInv, UNCHANGED program, NEW new, models' = AddModels(new),
         NEW stk, FramesInv(stk), generated' \ Functions' = generated \ Functions,
         generated \subseteq generated'
  PROVE  FramesInv(stk)'
<1>1. \A f : BlocksModelled(f) => BlocksModelled(f)'
  BY ModelsStay
<1> QED
  BY <1>1, SameProgram DEF FramesInv

(***************************************************************************)
(* A call of gen_func_model on a function of the program.                  *)
(***************************************************************************)
LEMMA LeaveStubInv ==
  ASSUME program \in Programs, ModelsInv, UNCHANGED program,
         NEW f \in program.labels, NEW below, LeaveStub(f, below), FramesInv(below),
         CoveredBy(below, generated \cup {f})
  PROVE  FramesInv(stack)' /\ CoveredBy(stack, generated)' /\ ModelsInv'
<1> DEFINE new == [name \in {Function(f)} |-> Stub(f)]
<1>1. /\ f \notin generated /\ generated' = generated \cup {f}
      /\ models' = AddModels(new) /\ stack' = below
  BY DEF LeaveStub
<1>2. /\ DOMAIN models' = DOMAIN models \cup {Function(f)}
      /\ \A k \in DOMAIN models : models'[k] = models[k]
      /\ Function(f) \notin DOMAIN models => models'[Function(f)] = Stub(f)
  BY <1>1, AddModelsFacts
<1>3. Function(f) \notin DOMAIN models
  BY <1>1 DEF ModelsInv, Functions
<1>4. Functions' = Functions \cup {f}
  <2>1. \A g : Function(g)' = Function(g)
    BY DEF Function
  <2>2. \A g : Function(g) \in DOMAIN models' <=> Function(g) \in DOMAIN models \/ g = f
    BY <1>2, Names
  <2> QED
    BY <2>1, <2>2 DEF Functions
<1>5. FramesInv(stack)'
  <2>1. generated' \ Functions' = generated \ Functions
    BY <1>1, <1>4
  <2> HIDE DEF new
  <2>2. FramesInv(below)'
    BY <1>1, <2>1, FramesStay
  <2> QED
    BY <1>1, <2>2
<1>6. CoveredBy(stack, generated)'
  BY <1>1, SameProgram DEF CoveredBy
<1>7. ModelsInv'
  <2>1. \A g \in Functions : (StubModel(g) \/ BodyModel(g))'
    BY <1>1, ModelsStay
  <2>2. StubModel(f)'
    BY <1>2, <1>3 DEF StubModel, Stub, Function
  <2>3. \A b : BasicBlock(b) \in DOMAIN models' =>
               BasicBlock(b) \in DOMAIN models /\ models'[BasicBlock(b)] = models[BasicBlock(b)]
    BY <1>2, Names
  <2>4. \A b : (BasicBlock(b) \in DOMAIN models => models[BasicBlock(b)].modSet = InferModSet(b))'
    BY <2>3, SameProgram DEF ModelsInv, BasicBlock
  <2>5. generated' \subseteq program.labels /\ Functions' \subseteq generated'
    BY <1>1, <1>4 DEF ModelsInv
  <2> QED
    BY <1>4, <2>1, <2>2, <2>4, <2>5 DEF ModelsInv
<1> QED
  BY <1>5, <1>6, <1>7

LEMMA StartInv ==
  ASSUME program \in Programs, ModelsInv, UNCHANGED program,
         NEW f \in program.labels, NEW below, Start(f, below), FramesInv(below),
         CoveredBy(below, generated \cup {f})
  PROVE  FramesInv(stack)' /\ CoveredBy(stack, generated)' /\ ModelsInv'
<1> DEFINE new   == BlockModels(Cfg(f))
           frame == [func |-> f, callees |-> AllCallees(f), modSet |-> Inferred(f)]
<1>1. /\ f \notin generated /\ generated' = generated \cup {f}
      /\ models' = AddModels(new) /\ stack' = Append(below, frame)
  BY DEF Start, Cfg, AllCallees, Inferred
<1>2. /\ DOMAIN new = {BasicBlock(b) : b \in Cfg(f)}
      /\ \A b \in Cfg(f) : new[BasicBlock(b)].modSet = InferModSet(b)
  BY Names DEF BlockModels
<1> HIDE DEF new
<1>3. /\ DOMAIN models' = DOMAIN models \cup {BasicBlock(b) : b \in Cfg(f)}
      /\ \A k \in DOMAIN models : models'[k] = models[k]
      /\ \A b \in Cfg(f) : BasicBlock(b) \notin DOMAIN models =>
           models'[BasicBlock(b)].modSet = InferModSet(b)
  <2>1. DOMAIN models' = DOMAIN models \cup {BasicBlock(b) : b \in Cfg(f)}
    BY <1>1, <1>2, AddModelsFacts
  <2>2. \A k \in DOMAIN models : models'[k] = models[k]
    BY <1>1, AddModelsFacts
  <2>3. ASSUME NEW b \in Cfg(f), BasicBlock(b) \notin DOMAIN models
        PROVE  models'[BasicBlock(b)].modSet = InferModSet(b)
    <3>1. BasicBlock(b) \in DOMAIN new
      BY <1>2
    <3>2. models'[BasicBlock(b)] = new[BasicBlock(b)]
      BY <1>1, <2>3, <3>1, AddModelsFacts
    <3>3. new[BasicBlock(b)].modSet = InferModSet(b)
      BY <1>2
    <3> QED
      BY <3>2, <3>3
  <2> QED
    BY <2>1, <2>2, <2>3
<1>4. Functions' = Functions
  <2>1. \A g : Function(g)' = Function(g)
    BY DEF Function
  <2>2. \A g : Function(g) \in DOMAIN models' <=> Function(g) \in DOMAIN models
    BY <1>3, Names
  <2> QED
    BY <2>1, <2>2 DEF Functions
<1>5. f \notin Functions
  BY <1>1 DEF ModelsInv
<1>6. BlocksModelled(f)'
  BY <1>3, SameProgram DEF BlocksModelled, BasicBlock
<1>7. frame \in Frame
  <2>1. AllCallees(f) \in SUBSET program.labels
    BY DEF AllCallees, Callees
  <2> QED
    BY <2>1 DEF Frame
<1>8. /\ below \in Seq(Frame) /\ Len(below) \in Nat
      /\ \A i \in 1..Len(below) :
           /\ below[i].func \in generated \ Functions
           /\ below[i].modSet = Inferred(below[i].func)
           /\ BlocksModelled(below[i].func)
      /\ \A i, j \in 1..Len(below) : below[i].func = below[j].func => i = j
      /\ \A g \in generated \ Functions : \E i \in 1..Len(below) : below[i].func = g
  BY DEF FramesInv
<1> HIDE DEF frame
<1>9. /\ Len(stack') = Len(below) + 1 /\ stack'[Len(below) + 1] = frame
      /\ stack' \in Seq(Frame)
      /\ \A i \in 1..Len(below) : stack'[i] = below[i]
      /\ \A i \in 1..Len(stack') : i \in 1..Len(below) \/ i = Len(below) + 1
      /\ 1..Len(below) \subseteq 1..Len(stack') /\ Len(below) + 1 \in 1..Len(stack')
  BY <1>1, <1>7, <1>8
<1>10. frame.func = f /\ frame.modSet = Inferred(f) /\ frame.callees = AllCallees(f)
  BY DEF frame
<1>11. FramesInv(stack)'
  <2>1. stack' \in Seq(Frame')
    BY <1>9, SameProgram
  <2>2. ASSUME NEW i \in 1..Len(stack')
        PROVE  /\ stack'[i].func \in generated' \ Functions'
               /\ stack'[i].modSet = Inferred(stack'[i].func)
               /\ \A g : g = stack'[i].func => BlocksModelled(g)'
    <3>1. CASE i \in 1..Len(below)
      <4>1. \A g : BlocksModelled(g) => BlocksModelled(g)'
        BY <1>1, ModelsStay
      <4> QED
        BY <1>1, <1>4, <1>8, <1>9, <3>1, <4>1
    <3>2. CASE i = Len(below) + 1
      BY <1>1, <1>4, <1>5, <1>6, <1>9, <1>10, <3>2
    <3> QED
      BY <1>9, <3>1, <3>2
  <2>3. \A i \in 1..Len(below) : stack'[i].func # f
    BY <1>1, <1>8, <1>9
  <2>4. \A i, j \in 1..Len(stack') : stack'[i].func = stack'[j].func => i = j
    BY <1>8, <1>9, <1>10, <2>3
  <2>5. ASSUME NEW g \in generated' \ Functions'
        PROVE  \E i \in 1..Len(stack') : stack'[i].func = g
    <3>1. CASE g = f
      BY <1>9, <1>10, <3>1
    <3>2. CASE g # f
      <4>1. PICK i \in 1..Len(below) : below[i].func = g
        BY <1>1, <1>4, <1>8, <2>5, <3>2
      <4> QED
        BY <1>9, <4>1
    <3> QED
      BY <3>1, <3>2
  <2>6. \A g : Inferred(g)' = Inferred(g)
    BY SameProgram
  <2> QED
    BY <2>1, <2>2, <2>4, <2>5, <2>6 DEF FramesInv
<1>12. CoveredBy(stack, generated)'
  <2>1. ASSUME NEW i \in 1..Len(stack')
        PROVE  AllCallees(stack'[i].func) \subseteq stack'[i].callees \cup generated'
    BY <1>1, <1>9, <1>10 DEF CoveredBy
  <2> QED
    BY <2>1, SameProgram DEF CoveredBy
<1>13. ModelsInv'
  <2>1. \A g \in Functions : (StubModel(g) \/ BodyModel(g))'
    BY <1>1, ModelsStay
  <2>2. ASSUME NEW b, BasicBlock(b) \in DOMAIN models'
        PROVE  models'[BasicBlock(b)].modSet = InferModSet(b)
    <3>1. CASE BasicBlock(b) \in DOMAIN models
      BY <1>3, <3>1 DEF ModelsInv
    <3>2. CASE BasicBlock(b) \notin DOMAIN models
      <4>1. b \in Cfg(f)
        BY <1>3, <2>2, <3>2, Names
      <4> QED
        BY <1>3, <3>2, <4>1
    <3> QED
      BY <3>1, <3>2
  <2>3. generated' \subseteq program.labels /\ Functions' \subseteq generated'
    BY <1>1, <1>4 DEF ModelsInv
  <2>4. \A b : (BasicBlock(b) \in DOMAIN models => models[BasicBlock(b)].modSet = InferModSet(b))'
    BY <2>2, SameProgram DEF BasicBlock
  <2> QED
    BY <1>4, <2>1, <2>3, <2>4 DEF ModelsInv
<1> QED
  BY <1>11, <1>12, <1>13

LEMMA GenFuncModelInv ==
  ASSUME program \in Programs, ModelsInv, UNCHANGED program,
         NEW f \in program.labels, NEW below, GenFuncModel(f, below), FramesInv(below),
         CoveredBy(below, generated \cup {f})
  PROVE  FramesInv(stack)' /\ CoveredBy(stack, generated)' /\ ModelsInv'
<1>1. CASE Return(f, below)
  <2>1. /\ generated \cup {f} = generated /\ stack' = below
        /\ UNCHANGED <<generated, modSetMap, models>>
    BY <1>1 DEF Return
  <2>2. Functions' = Functions
    BY <2>1 DEF Functions, Function
  <2>3. \A f_1 : BlocksModelled(f_1)' <=> BlocksModelled(f_1)
    BY <2>1, SameProgram DEF BlocksModelled, BasicBlock
  <2>4. FramesInv(stack)'
    BY <2>1, <2>2, <2>3, SameProgram DEF FramesInv
  <2>5. CoveredBy(stack, generated)'
    BY <2>1, SameProgram DEF CoveredBy
  <2>6. ModelsInv'
    BY <2>1, <2>2, <2>3, SameProgram DEF ModelsInv, StubModel, BodyModel, Function, BasicBlock
  <2> QED
    BY <2>4, <2>5, <2>6
<1>2. CASE LeaveStub(f, below)
  BY <1>2, LeaveStubInv
<1>3. CASE Start(f, below)
  BY <1>3, StartInv
<1> QED
  BY <1>1, <1>2, <1>3 DEF GenFuncModel

-----------------------------------------------------------------------------
LEMMA TopFacts ==
  ASSUME IInv, stack # <<>>
  PROVE  /\ Len(stack) \in Nat /\ Len(stack) \in 1..Len(stack) /\ Top \in Frame
         /\ Top.func \in program.labels /\ Top.callees \subseteq program.labels
         /\ Below \in Seq(Frame) /\ Len(Below) = Len(stack) - 1
         /\ \A i \in 1..Len(Below) : i \in 1..Len(stack) /\ i # Len(stack) /\ Below[i] = stack[i]
<1>1. stack \in Seq(Frame) /\ Len(stack) \in Nat /\ Len(stack) # 0
  BY DEF IInv, FramesInv
<1>2. Len(stack) \in 1..Len(stack) /\ Top \in Frame
  BY <1>1 DEF Top
<1>3. Top.func \in program.labels /\ Top.callees \subseteq program.labels
  BY <1>2 DEF Frame
<1>4. Below \in Seq(Frame) /\ Len(Below) = Len(stack) - 1
      /\ \A i \in 1..Len(Below) : Below[i] = stack[i]
  <2>1. Len(stack) - 1 \in 0..Len(stack)
    BY <1>1
  <2> DEFINE last == Len(stack) - 1
  <2>2. \A i \in 1..last : stack[i] \in Frame
    BY <1>1
  <2>3. SubSeq(stack, 1, last) \in Seq(Frame) /\ Len(SubSeq(stack, 1, last)) = last
    <3>1. last \in Nat
      BY <2>1
    <3> HIDE DEF last
    <3>2. SubSeq(stack, 1, last) \in Seq(Frame)
      BY <2>2, <3>1
    <3>3. Len(SubSeq(stack, 1, last)) = last
      BY <3>1
    <3> QED
      BY <3>2, <3>3
  <2>4. \A i \in 1..last : SubSeq(stack, 1, last)[i] = stack[i]
    BY <1>1, <2>1
  <2> QED
    BY <2>3, <2>4 DEF Below
<1> QED
  BY <1>1, <1>2, <1>3, <1>4

(* The caller's frame with one callee less, before the callee is called.   *)
LEMMA AfterCalleeFrames ==
  ASSUME IInv, stack # <<>>, NEW g \in Top.callees
  PROVE  FramesInv(AfterCallee(g)) /\ CoveredBy(AfterCallee(g), generated \cup {g})
<1> DEFINE frame == [Top EXCEPT !.callees = @ \ {g}]
           stk   == AfterCallee(g)
<1>1. /\ Len(stack) \in Nat /\ Len(stack) \in 1..Len(stack) /\ Top \in Frame
      /\ Below \in Seq(Frame) /\ Len(Below) = Len(stack) - 1
      /\ \A i \in 1..Len(Below) : i \in 1..Len(stack) /\ i # Len(stack) /\ Below[i] = stack[i]
  BY TopFacts
<1>2. /\ frame \in Frame /\ frame.func = Top.func /\ frame.modSet = Top.modSet
      /\ frame.callees = Top.callees \ {g}
  BY <1>1 DEF Frame
<1> HIDE DEF frame
<1>3. stk = Append(Below, frame)
  BY DEF AfterCallee, frame
<1>4. /\ stk \in Seq(Frame) /\ Len(stk) = Len(stack) /\ stk[Len(stack)] = frame
      /\ \A i \in 1..Len(Below) : stk[i] = Below[i]
  BY <1>1, <1>2, <1>3
<1>5. \A i \in 1..Len(stack) : i \in 1..Len(Below) \/ i = Len(stack)
  BY <1>1
<1>6. \A i \in 1..Len(stack) :
        /\ stk[i].func = stack[i].func /\ stk[i].modSet = stack[i].modSet
        /\ stack[i].callees \subseteq stk[i].callees \cup {g}
  BY <1>1, <1>2, <1>4, <1>5 DEF Top
<1> HIDE DEF stk
<1>7. FramesInv(stk)
  <2>1. FramesInv(stack)
    BY DEF IInv
  <2> QED
    BY <1>4, <1>6, <2>1 DEF FramesInv
<1>8. CoveredBy(stk, generated \cup {g})
  BY <1>4, <1>6 DEF IInv, CoveredBy
<1> QED
  BY <1>7, <1>8 DEF stk

LEMMA RequestInv == ASSUME IInv, Request PROVE IInv'
<1>1. /\ phase = "translate" /\ stack = <<>> /\ requests # <<>>
      /\ requests' = Tail(requests) /\ GenFuncModel(Head(requests), <<>>)
      /\ UNCHANGED <<program, phase>>
  BY DEF Request
<1>2. /\ requests \in Seq(program.labels)
      /\ Head(requests) \in program.labels /\ Tail(requests) \in Seq(program.labels)
  BY <1>1 DEF IInv
<1>3. CoveredBy(<<>>, generated \cup {Head(requests)})
  BY DEF CoveredBy
<1>4. FramesInv(stack)' /\ CoveredBy(stack, generated)' /\ ModelsInv'
  BY <1>1, <1>2, <1>3, GenFuncModelInv DEF IInv
<1> QED
  BY <1>1, <1>2, <1>4 DEF IInv

LEMMA RecurseInv == ASSUME IInv, Recurse PROVE IInv'
<1>1. PICK g \in Top.callees : GenFuncModel(g, AfterCallee(g))
  BY DEF Recurse
<1>2. phase = "translate" /\ stack # <<>> /\ UNCHANGED <<program, requests, phase>>
  BY DEF Recurse
<1>3. g \in program.labels
  BY <1>1, <1>2, TopFacts
<1>4. FramesInv(AfterCallee(g)) /\ CoveredBy(AfterCallee(g), generated \cup {g})
  BY <1>1, <1>2, AfterCalleeFrames
<1>5. FramesInv(stack)' /\ CoveredBy(stack, generated)' /\ ModelsInv'
  BY <1>1, <1>2, <1>3, <1>4, GenFuncModelInv DEF IInv
<1> QED
  BY <1>2, <1>5 DEF IInv

(* The model of a function is added when all its callees are generated.    *)
LEMMA FinishInv == ASSUME IInv, Finish PROVE IInv'
<1>0. PICK f : f = Top.func
  OBVIOUS
<1> DEFINE model == [modSet |-> ModSet(Top), calls |-> Calls(f)]
           new   == [n \in {Function(f)} |-> model]
<1>1. /\ phase = "translate" /\ stack # <<>> /\ Top.callees = {}
      /\ models' = AddModels(new) /\ stack' = Below
      /\ UNCHANGED <<program, requests, generated, phase>>
  BY <1>0 DEF Finish
<1>2. /\ Len(stack) \in Nat /\ Len(stack) \in 1..Len(stack) /\ Top = stack[Len(stack)]
      /\ f \in program.labels
      /\ Below \in Seq(Frame) /\ Len(Below) = Len(stack) - 1
      /\ \A i \in 1..Len(Below) : i \in 1..Len(stack) /\ i # Len(stack) /\ Below[i] = stack[i]
      /\ \A i \in 1..Len(stack) : i # Len(stack) => i \in 1..Len(Below)
  BY <1>0, <1>1, TopFacts DEF Top
<1>3. /\ \A i \in 1..Len(stack) :
           /\ stack[i].func \in generated \ Functions
           /\ stack[i].modSet = Inferred(stack[i].func)
           /\ BlocksModelled(stack[i].func)
      /\ \A i, j \in 1..Len(stack) : stack[i].func = stack[j].func => i = j
      /\ \A g \in generated \ Functions : \E i \in 1..Len(stack) : stack[i].func = g
  BY DEF IInv, FramesInv
<1>4. /\ f \in generated \ Functions /\ Top.modSet = Inferred(f) /\ BlocksModelled(f)
      /\ AllCallees(f) \subseteq generated
  BY <1>0, <1>1, <1>2, <1>3 DEF IInv, CoveredBy
<1>5. /\ model.calls = Calls(f) /\ Inferred(f) \subseteq model.modSet
      /\ model.modSet \subseteq Inferred(f) \cup program.modifies[f]
  BY <1>0, <1>4 DEF ModSet
<1> HIDE DEF model
<1>6. /\ DOMAIN models' = DOMAIN models \cup {Function(f)}
      /\ \A k \in DOMAIN models : models'[k] = models[k]
      /\ Function(f) \notin DOMAIN models => models'[Function(f)] = model
  BY <1>1, AddModelsFacts
<1>7. Function(f) \notin DOMAIN models
  BY <1>2, <1>4 DEF Functions
<1>8. Functions' = Functions \cup {f}
  <2>1. \A g : Function(g)' = Function(g)
    BY DEF Function
  <2>2. \A g : Function(g) \in DOMAIN models' <=> Function(g) \in DOMAIN models \/ g = f
    BY <1>6, Names
  <2> QED
    BY <1>1, <1>2, <2>1, <2>2 DEF Functions
<1> HIDE DEF new
<1>9. FramesInv(stack)'
  <2>1. \A g : BlocksModelled(g) => BlocksModelled(g)'
    BY <1>1, ModelsStay DEF IInv
  <2>2. \A i \in 1..Len(Below) : Below[i].func # f
    BY <1>0, <1>2, <1>3
  <2>3. \A i \in 1..Len(stack') :
          /\ stack'[i].func \in generated' \ Functions'
          /\ stack'[i].modSet = Inferred(stack'[i].func)
          /\ \A g : g = stack'[i].func => BlocksModelled(g)'
    BY <1>1, <1>2, <1>3, <1>8, <2>1, <2>2
  <2>4. \A i, j \in 1..Len(stack') : stack'[i].func = stack'[j].func => i = j
    <3>1. \A i \in 1..Len(stack') : i \in 1..Len(stack) /\ stack'[i] = stack[i]
      BY <1>1, <1>2
    <3> QED
      BY <1>3, <3>1
  <2>5. ASSUME NEW g \in generated' \ Functions'
        PROVE  \E i \in 1..Len(stack') : stack'[i].func = g
    <3>1. PICK i \in 1..Len(stack) : stack[i].func = g
      BY <1>1, <1>3, <1>8, <2>5
    <3>2. i # Len(stack)
      BY <1>0, <1>2, <1>8, <2>5, <3>1
    <3> QED
      BY <1>1, <1>2, <3>1, <3>2
  <2>6. stack' \in Seq(Frame')
    BY <1>1, <1>2, SameProgram
  <2>7. \A g : Inferred(g)' = Inferred(g)
    BY <1>1, SameProgram
  <2> QED
    BY <2>3, <2>4, <2>5, <2>6, <2>7 DEF FramesInv
<1>10. CoveredBy(stack, generated)'
  <2>1. \A i \in 1..Len(stack') : AllCallees(stack'[i].func) \subseteq stack'[i].callees \cup generated'
    BY <1>1, <1>2 DEF IInv, CoveredBy
  <2> QED
    BY <1>1, <2>1, SameProgram DEF CoveredBy
<1>11. ModelsInv'
  <2>1. \A g \in Functions : (StubModel(g) \/ BodyModel(g))'
    BY <1>1, ModelsStay DEF IInv
  <2>2. BodyModel(f)'
    <3>1. BlocksModelled(f)'
      BY <1>1, <1>4, ModelsStay DEF IInv
    <3>2. models'[Function(f)] = model /\ Function(f)' = Function(f)
      BY <1>6, <1>7 DEF Function
    <3>3. /\ Inferred(f)' = Inferred(f) /\ Calls(f)' = Calls(f) /\ AllCallees(f)' = AllCallees(f)
      BY <1>1, SameProgram
    <3> QED
      BY <1>1, <1>4, <1>5, <3>1, <3>2, <3>3 DEF BodyModel
  <2>3. \A b : BasicBlock(b) \in DOMAIN models' =>
               BasicBlock(b) \in DOMAIN models /\ models'[BasicBlock(b)] = models[BasicBlock(b)]
    BY <1>6, Names
  <2>4. \A b : (BasicBlock(b) \in DOMAIN models => models[BasicBlock(b)].modSet = InferModSet(b))'
    BY <1>1, <2>3, SameProgram DEF IInv, ModelsInv, BasicBlock
  <2>5. generated' \subseteq program.labels /\ Functions' \subseteq generated'
    BY <1>1, <1>4, <1>8 DEF IInv, ModelsInv
  <2> QED
    BY <1>1, <1>8, <2>1, <2>2, <2>4, <2>5 DEF ModelsInv
<1> QED
  BY <1>1, <1>9, <1>10, <1>11 DEF IInv

LEMMA ClearInv == ASSUME IInv, Clear PROVE IInv'
<1>1. /\ phase = "print" /\ stack = <<>> /\ phase' = "done"
      /\ models' = <<>> /\ generated' = {}
      /\ UNCHANGED <<program, requests, stack>>
  BY DEF IInv, Clear
<1>2. Functions' = {} /\ \A b : (BasicBlock(b) \notin DOMAIN models)'
  BY <1>1 DEF Functions
<1>3. FramesInv(stack)' /\ CoveredBy(stack, generated)'
  BY <1>1 DEF FramesInv, CoveredBy
<1>4. ModelsInv'
  BY <1>1, <1>2 DEF ModelsInv
<1> QED
  BY <1>1, <1>3, <1>4 DEF IInv

LEMMA PhaseStepInv ==
  ASSUME IInv, UNCHANGED <<program, requests, stack, generated, models>>,
         \/ phase' = phase
         \/ phase' = "cyclic"
         \/ phase' = "print" /\ stack = <<>>
  PROVE  IInv'
<1>1. Functions' = Functions
  BY DEF Functions, Function
<1>2. \A f : BlocksModelled(f)' <=> BlocksModelled(f)
  BY SameProgram DEF BlocksModelled, BasicBlock
<1>3. FramesInv(stack)' /\ CoveredBy(stack, generated)'
  BY <1>1, <1>2, SameProgram DEF IInv, FramesInv, CoveredBy
<1>4. ModelsInv'
  BY <1>1, <1>2, SameProgram
     DEF IInv, ModelsInv, StubModel, BodyModel, Function, BasicBlock
<1> QED
  BY <1>3, <1>4 DEF IInv

LEMMA StepInv == IInv /\ [Next]_vars => IInv'
<1> SUFFICES ASSUME IInv, [Next]_vars PROVE IInv'
  OBVIOUS
<1>1. CASE PanicOnCycle
  BY <1>1, PhaseStepInv DEF PanicOnCycle
<1>2. CASE PrintModel
  BY <1>2, PhaseStepInv DEF PrintModel
<1>3. CASE Stopped \/ UNCHANGED vars
  BY <1>3, PhaseStepInv DEF Stopped, vars
<1> QED
  BY <1>1, <1>2, <1>3, RequestInv, RecurseInv, FinishInv, ClearInv DEF Next

(* Frames, models and the set of generated functions agree in every state. *)
THEOREM Invariance == Spec => []IInv
  BY InitInv, StepInv, PTL DEF Spec

(***************************************************************************)
(* For every program: a function marked as generated has its model or is   *)
(* on the stack once (gen_func_model marks it before it recurses).         *)
(***************************************************************************)
THEOREM NoFunctionLost == Spec => []MarkedOrPending
<1>1. IInv => MarkedOrPending
  <2> SUFFICES ASSUME IInv PROVE MarkedOrPending
    OBVIOUS
  <2>1. stack \in Seq(Frame) /\ DOMAIN stack = 1..Len(stack)
    BY DEF IInv, FramesInv
  <2> QED
    BY <2>1 DEF IInv, FramesInv, MarkedOrPending
<1> QED
  BY Invariance, <1>1, PTL

(* The procedures that a translated function calls.                        *)
LEMMA CallForms ==
  ASSUME NEW f, NEW name \in Calls(f)
  PROVE  \/ \E b \in CalledBlocks(f) : name = BasicBlock(b)
         \/ \E b \in CalledBlocks(f) :
              name = Function(program.target[b]) /\ program.target[b] \in program.labels
  BY DEF Calls, CalledFunctions

(***************************************************************************)
(* For every program in which no function branches into the middle of      *)
(* another one: the printed model declares every procedure it calls.       *)
(***************************************************************************)
THEOREM PrintedModelIsClosed == Spec => []CalleesDeclared
<1>1. IInv => CalleesDeclared
  <2> SUFFICES ASSUME IInv, phase = "print", \A g \in program.labels : Confined(g),
                      NEW f \in Functions, NEW name \in models[Function(f)].calls
               PROVE  name \in DOMAIN models
    BY DEF CalleesDeclared
  <2>1. stack = <<>> /\ f \in program.labels
    BY DEF IInv, Functions
  <2>2. generated \subseteq Functions
    BY <2>1 DEF IInv, FramesInv
  <2>3. BodyModel(f) /\ name \in Calls(f)
    BY DEF IInv, ModelsInv, StubModel, BodyModel
  <2>4. CASE \E b \in CalledBlocks(f) : name = BasicBlock(b)
    BY <2>3, <2>4, CalledInCfg DEF BodyModel, BlocksModelled
  <2>5. ASSUME NEW b \in CalledBlocks(f), name = Function(program.target[b]),
               program.target[b] \in program.labels
        PROVE  name \in DOMAIN models
    <3>1. program.owner[b] = f
      BY <2>1 DEF Confined
    <3>2. program.target[b] \in AllCallees(f)
      BY <2>5, <3>1, CalledInCfg DEF AllCallees, Callees
    <3> QED
      BY <2>2, <2>3, <2>5, <3>2 DEF BodyModel, Functions
  <2> QED
    BY <2>3, <2>4, <2>5, CallForms
<1> QED
  BY Invariance, <1>1, PTL

(***************************************************************************)
(* For every program: the modifies set of a function covers that of each   *)
(* procedure its body calls, the specified part of the callee excepted.    *)
(***************************************************************************)
THEOREM ModifiesCovered == Spec => []ModifiesCoverInferred
<1>1. IInv => ModifiesCoverInferred
  <2> SUFFICES ASSUME IInv, NEW f \in Functions,
                      NEW name \in models[Function(f)].calls \cap DOMAIN models
               PROVE  models[name].modSet \ Specified(name) \subseteq models[Function(f)].modSet
    BY DEF ModifiesCoverInferred
  <2>1. BodyModel(f) /\ name \in Calls(f)
    BY DEF IInv, ModelsInv, StubModel, BodyModel
  <2>2. Inferred(f) \subseteq models[Function(f)].modSet
    BY <2>1 DEF BodyModel
  <2>3. ASSUME NEW b \in CalledBlocks(f), name = BasicBlock(b)
        PROVE  models[name].modSet \subseteq Inferred(f)
    <3>1. models[name].modSet = InferModSet(b)
      BY <2>3 DEF IInv, ModelsInv
    <3>2. b \in Cfg(f)
      BY CalledInCfg
    <3> QED
      BY <3>1, <3>2 DEF Inferred, FrameModSet
  <2>4. ASSUME NEW b \in CalledBlocks(f), name = Function(program.target[b]),
               program.target[b] \in program.labels
        PROVE  models[name].modSet \ Specified(name) \subseteq Inferred(f)
    <3> DEFINE g == program.target[b]
    <3>1. g \in Functions
      BY <2>4 DEF Functions
    <3>2. StubModel(g) \/ BodyModel(g)
      BY <3>1 DEF IInv, ModelsInv
    <3>3. models[name].modSet \subseteq Inferred(g) \cup program.modifies[g]
      BY <2>4, <3>2 DEF StubModel, BodyModel
    <3>4. Specified(name) = program.modifies[g]
      BY <2>4, Names DEF Specified
    <3>5. b \in Cfg(f) /\ b \in DOMAIN program.succ
      BY CalledInCfg, CfgFacts
    <3>6. g \in program.succ[b]
      <4>1. g # NoTarget
        BY <2>4, ProgramsAssumption DEF IInv
      <4> QED
        BY <3>5, <4>1, ProgramsAssumption DEF IInv
    <3>7. Cfg(g) \subseteq Cfg(f)
      BY <3>5, <3>6, CfgOfSuccessor DEF IInv
    <3>8. Inferred(g) \subseteq Inferred(f)
      BY <3>7 DEF Inferred, FrameModSet
    <3> QED
      BY <3>3, <3>4, <3>8
  <2> QED
    BY <2>1, <2>2, <2>3, <2>4, CallForms
<1> QED
  BY Invariance, <1>1, PTL
=============================================================================
