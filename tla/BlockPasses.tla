---------------------------- MODULE BlockPasses -----------------------------
(***************************************************************************)
(* The passes that gen_func_model runs over the statements of a basic      *)
(* block before it is emitted: ConstantPropagator replaces the variables   *)
(* whose value is known in the block and folds the operators applied to    *)
(* literals, and DataMemoryAbstractor replaces a memory access at a        *)
(* literal address by a variable of its own.                               *)
(*                                                                         *)
(* The statements are taken one at a time.  Each is executed twice: as it  *)
(* was built, on the state `built`, and as the passes leave it, on the     *)
(* state `emitted`.  Both start alike; the variable that stands for a      *)
(* memory location starts with its content.                                *)
(*                                                                         *)
(* The literals of the translator are u64, of the width of a register: as  *)
(* in SystemModel the widths are in the proportion of those of RV64.       *)
(*                                                                         *)
(* A definition that repeats the name of the next one with a suffix is a   *)
(* mutated form of it; no action uses it.                                  *)
(***************************************************************************)
EXTENDS Integers, Sequences, SequencesExt, BitVectors

CONSTANTS
  XLen,          \* the width of a register and of a u64
  LuiShift,      \* the bits below an upper immediate
  InitRegs,      \* the registers there may be when the block starts
  Lines,         \* the instructions there may be
  MaxLines,      \* bound: the instructions of the block
  InitMem(_, _)  \* the content of a memory at an address when the block starts

ASSUME PassesAssumption ==
  /\ XLen \in Nat /\ XLen % 8 = 0 /\ XLen > 0
  /\ LuiShift \in 0 .. (XLen \div 2) - 1
  /\ \A regs \in InitRegs : \A r \in DOMAIN regs : regs[r] \in BitVector(XLen)
  /\ \A line \in Lines :
       /\ line.op \in {"addi", "add", "sll", "srl", "sra", "addiw", "lui", "slt",
                       "lw", "ld", "sw", "sd", "jalr"}
       /\ line.imm \in BitVector(XLen)
       /\ \A regs \in InitRegs : line.rd \in DOMAIN regs

VARIABLES
  checked,   \* a build with overflow checks
  panicked,
  todo,      \* the statements of the current instruction
  built,     \* registers and memory, executing the statements as built
  emitted,   \* the same, executing them as emitted
  ctx,       \* the constant propagation map
  accesses,  \* the memory accesses so far; abs_var_names is the direct ones
  lines      \* the instructions taken so far

vars == <<checked, panicked, todo, built, emitted, ctx, accesses, lines>>

Word == XLen \div 2

(* HashMap::insert                                                         *)
Insert(map, key, value) ==
  [k \in DOMAIN map \cup {key} |-> IF k = key THEN value ELSE map[k]]

Width(memory) == IF memory = "mem_w" THEN Word ELSE XLen

-----------------------------------------------------------------------------
(* Expressions: the nodes of one, operands before their operators.  The    *)
(* last operand of an operator is the node before it, and the first one is *)
(* `left` nodes before it; the index of an access is the node before it.   *)
Literal(value, w) == [kind |-> "lit", val |-> value, w |-> w]

Lit(value, w)    == <<Literal(value, w)>>
Var(reg)         == <<[kind |-> "var", name |-> reg]>>
App(op, x, y)    == x \o y \o <<[kind |-> "app", op |-> op, left |-> Len(y) + 1]>>
Slices(l, r, e)  == Append(e, [kind |-> "app", op |-> "slice", left |-> 1, l |-> l, r |-> r])
Index(memory, e) == Append(e, [kind |-> "index", mem |-> memory])

IsLit(node) == node.kind = "lit"

Content(state, memory, a) ==
  IF <<memory, a>> \in DOMAIN state.mem THEN state.mem[memory, a] ELSE InitMem(memory, a)

(* An access at a literal address is to the variable of that address, in   *)
(* the emitted statements: abs_access_name does not say in which memory.   *)
Abstracted(state, memory, a) ==
  IF a \in DOMAIN state.vars THEN state.vars[a] % 2^Width(memory) ELSE InitMem(memory, a)

Loaded(state, direct, memory, a) ==
  IF direct THEN Abstracted(state, memory, a) ELSE Content(state, memory, a)

(* The value of operator n.op applied to vectors x and y.                  *)
Apply(n, x, y) ==
  LET of(v, w) == [val |-> v, w |-> w]
  IN CASE n.op = "add"    -> of(Add(x.w, x.val, y.val), x.w)
       [] n.op = "and"    -> of(And(x.w, x.val, y.val), x.w)
       [] n.op = "shl"    -> of(LeftShift(x.w, x.val, y.val), x.w)
       [] n.op = "lshr"   -> of(RightShift(x.w, x.val, y.val), x.w)
       [] n.op = "ashr"   -> of(ARightShift(x.w, x.val, y.val), x.w)
       [] n.op = "sext"   -> of(SignExt(x.w, y.val, x.val), x.w + y.val)
       [] n.op = "zext"   -> of(ZeroExt(x.w, y.val, x.val), x.w + y.val)
       [] n.op = "concat" -> of(Concat(x.val, y.w, y.val), x.w + y.w)
       [] n.op = "slice"  -> of(Slice(x.w, n.l, n.r, x.val), n.l - n.r + 1)

(* The values of the nodes of an expression, with the accesses at literal  *)
(* addresses abstracted or not.                                            *)
Values(e, state, abstract) ==
  LET value[i \in 1..Len(e)] ==
        CASE e[i].kind = "lit"   -> [val |-> e[i].val % 2^e[i].w, w |-> e[i].w]
          [] e[i].kind = "var"   -> [val |-> state.regs[e[i].name], w |-> XLen]
          [] e[i].kind = "index" ->
               [val |-> Loaded(state, abstract /\ IsLit(e[i - 1]), e[i].mem, value[i - 1].val),
                w   |-> Width(e[i].mem)]
          [] OTHER               -> Apply(e[i], value[i - e[i].left], value[i - 1])
  IN value

Value(e, state, abstract) == Values(e, state, abstract)[Len(e)].val

-----------------------------------------------------------------------------
(* Constant folding, in the arithmetic of u64.                             *)
Wrap(n) == n % 2^XLen
Mask(l, r) == {i \in 0 .. XLen - 2 : r <= i /\ i <= l}

FoldedLit(n, x, y) ==
  CASE n.op = "add"   -> Literal(Wrap(x.val + y.val), x.w)
    [] n.op = "and"   -> Literal(And(XLen, x.val, y.val), x.w)
    [] n.op = "shl"   -> Literal(LeftShift(XLen, x.val, y.val), x.w)
    [] n.op = "lshr"  -> Literal(ARightShift(XLen, x.val, y.val), x.w)
    [] n.op = "ashr"  -> Literal(RightShift(XLen, x.val, y.val), x.w)
    [] n.op \in {"sext", "zext"} -> Literal(x.val, x.w + y.val)
    [] n.op = "slice" -> Literal(Number(Bits(XLen, x.val) \cap Mask(n.l, n.r)), n.l - n.r + 1)
    [] n.op = "concat" -> n

Folded(e) ==
  LET node[i \in 1..Len(e)] ==
        IF e[i].kind = "app" /\ IsLit(node[i - e[i].left]) /\ IsLit(node[i - 1])
          THEN FoldedLit(e[i], node[i - e[i].left], node[i - 1])
          ELSE e[i]
  IN node

(* Addition is the operator here that a checked build panics on.           *)
Overflows(e) ==
  LET folded == Folded(e)
  IN  \E i \in 1..Len(e) :
        /\ e[i].kind = "app" /\ e[i].op = "add"
        /\ LET x == folded[i - e[i].left]
               y == folded[i - 1]
           IN  IsLit(x) /\ IsLit(y) /\ x.val + y.val >= 2^XLen

Constified(e, map) ==
  [i \in 1..Len(e) |->
     IF e[i].kind = "var" /\ e[i].name \in DOMAIN map THEN Literal(map[e[i].name], XLen)
                                                      ELSE e[i]]

TryMakeConstant(e) == Folded(Constified(e, ctx))

-----------------------------------------------------------------------------
(* The statements of an instruction.                                       *)
Source(reg) == IF reg = "zero" THEN Lit(0, XLen) ELSE Var(reg)
Set(reg, e) == [kind |-> "assign", lhs |-> reg, rhs |-> e]
Store(memory, a, e) == [kind |-> "store", mem |-> memory, index |-> a, rhs |-> e]
Plus(x, y)  == App("add", x, y)
LowWord(e)  == Slices(Word - 1, 0, e)
FromWord(e) == App("sext", e, Lit(Word, XLen))
NextPc      == Set("pc", Plus(Var("pc"), Lit(4, XLen)))

Effect(line) ==
  LET x   == Source(line.rs1)
      y   == Source(line.rs2)
      imm == Lit(line.imm, XLen)
      amount == App("and", y, Lit(XLen - 1, XLen))
      upper  == App("zext", Slices(Word - LuiShift - 1, 0, imm), Lit(LuiShift, XLen))
  IN CASE line.op = "addi"  -> Set(line.rd, Plus(x, imm))
       [] line.op = "add"   -> Set(line.rd, Plus(x, y))
       [] line.op = "sll"   -> Set(line.rd, App("shl", x, amount))
       [] line.op = "srl"   -> Set(line.rd, App("lshr", x, amount))
       [] line.op = "sra"   -> Set(line.rd, App("ashr", x, amount))
       [] line.op = "addiw" -> Set(line.rd, FromWord(LowWord(Plus(LowWord(x), LowWord(imm)))))
       [] line.op = "lui"   -> Set(line.rd, FromWord(App("shl", upper, Lit(LuiShift, Word))))
       [] line.op = "slt"   -> [kind |-> "ite", lhs |-> line.rd, x |-> x, y |-> y]
       [] line.op = "lw"    -> Set(line.rd, FromWord(Index("mem_w", Plus(x, imm))))
       [] line.op = "ld"    -> Set(line.rd, Index("mem_d", Plus(x, imm)))
       [] line.op = "sw"    -> Store("mem_w", Plus(x, imm), LowWord(y))
       [] line.op = "sd"    -> Store("mem_d", Plus(x, imm), Slices(XLen - 1, 0, y))

JalrTarget(line) ==
  App("concat", Slices(XLen - 1, 1, Plus(Source(line.rs1), Lit(line.imm, XLen))), Lit(0, 1))

Statements(line) ==
  IF line.op = "jalr" THEN <<Set(line.rd, NextPc.rhs), Set("pc", JalrTarget(line))>>
                      ELSE <<Effect(line), NextPc>>

-----------------------------------------------------------------------------
Statement == Head(todo)

(* The empty function for mem and vars: nothing written yet.               *)
Init ==
  /\ checked \in BOOLEAN
  /\ panicked = FALSE
  /\ todo = <<>>
  /\ built \in {[regs |-> Insert(regs, "pc", 0), mem |-> <<>>, vars |-> <<>>] : regs \in InitRegs}
  /\ emitted = built
  /\ ctx = <<>>
  /\ accesses = {}
  /\ lines = <<>>

TakeLine ==
  /\ ~ panicked
  /\ todo = <<>>
  /\ Len(lines) < MaxLines
  /\ lines # <<>> => Last(lines).op # "jalr"
  /\ \E line \in Lines : lines' = Append(lines, line) /\ todo' = Statements(line)
  /\ UNCHANGED <<checked, panicked, built, emitted, ctx, accesses>>

(* HashMap::remove                                                         *)
Without(map, name) == [n \in DOMAIN map \ {name} |-> map[n]]

PropagatedKeep(name, root) == IF IsLit(root) THEN Insert(ctx, name, root.val) ELSE ctx
Propagated(name, root) ==
  IF IsLit(root) THEN Insert(ctx, name, root.val) ELSE Without(ctx, name)

AccessInMemory(memory, a, index) == [mem |-> memory, addr |-> a, direct |-> FALSE]
Access(memory, a, index) == [mem |-> memory, addr |-> a, direct |-> IsLit(index)]

Accesses(e) ==
  {Access(e[i].mem, Values(e, emitted, TRUE)[i - 1].val, e[i - 1]) :
     i \in {j \in 1..Len(e) : e[j].kind = "index"}}

Panics(e) == checked /\ Overflows(Constified(e, ctx))

(* rewrite_assign, when the left hand side is a variable.                  *)
RewriteAssign ==
  /\ ~ panicked
  /\ todo # <<>> /\ Statement.kind = "assign"
  /\ ~ Panics(Statement.rhs)
  /\ LET e == TryMakeConstant(Statement.rhs)
     IN /\ emitted' = [emitted EXCEPT !.regs[Statement.lhs] = Value(e, emitted, TRUE)]
        /\ ctx' = Propagated(Statement.lhs, Last(e))
        /\ accesses' = accesses \cup Accesses(e)
  /\ built' = [built EXCEPT !.regs[Statement.lhs] = Value(Statement.rhs, built, FALSE)]
  /\ todo' = Tail(todo)
  /\ UNCHANGED <<checked, panicked, lines>>

(* rewrite_assign, when it is an array index, and then rewrite_expr.       *)
RewriteStore ==
  /\ ~ panicked
  /\ todo # <<>> /\ Statement.kind = "store"
  /\ ~ Panics(Statement.index) /\ ~ Panics(Statement.rhs)
  /\ LET index == TryMakeConstant(Statement.index)
         value == Value(TryMakeConstant(Statement.rhs), emitted, TRUE)
         access == Access(Statement.mem, Value(index, emitted, TRUE), Last(index))
     IN /\ emitted' = IF access.direct
                         THEN [emitted EXCEPT !.vars = Insert(@, access.addr, value)]
                         ELSE [emitted EXCEPT !.mem = Insert(@, <<access.mem, access.addr>>, value)]
        /\ accesses' = accesses \cup {access}
  /\ LET cell == <<Statement.mem, Value(Statement.index, built, FALSE)>>
     IN built' = [built EXCEPT !.mem = Insert(@, cell, Value(Statement.rhs, built, FALSE))]
  /\ todo' = Tail(todo)
  /\ UNCHANGED <<checked, panicked, ctx, lines>>

Decided(state) ==
  IF Lt(XLen, Value(Statement.x, state, FALSE), Value(Statement.y, state, FALSE))
    THEN 1 ELSE 0

(* visit_stmt_ifthenelse leaves the statement alone and clears the map.    *)
VisitIfThenElse ==
  /\ ~ panicked
  /\ todo # <<>> /\ Statement.kind = "ite"
  /\ built' = [built EXCEPT !.regs[Statement.lhs] = Decided(built)]
  /\ emitted' = [emitted EXCEPT !.regs[Statement.lhs] = Decided(emitted)]
  /\ ctx' = <<>>
  /\ todo' = Tail(todo)
  /\ UNCHANGED <<checked, panicked, accesses, lines>>

Panic ==
  /\ ~ panicked
  /\ todo # <<>>
  /\ \/ Statement.kind = "assign" /\ Panics(Statement.rhs)
     \/ Statement.kind = "store" /\ (Panics(Statement.index) \/ Panics(Statement.rhs))
  /\ panicked' = TRUE
  /\ UNCHANGED <<checked, todo, built, emitted, ctx, accesses, lines>>

Stopped ==
  /\ panicked \/ todo = <<>>
  /\ panicked \/ Len(lines) = MaxLines \/ (lines # <<>> /\ Last(lines).op = "jalr")
  /\ UNCHANGED vars

Next == TakeLine \/ RewriteAssign \/ RewriteStore \/ VisitIfThenElse \/ Panic \/ Stopped

Spec == Init /\ [][Next]_vars

-----------------------------------------------------------------------------
(***************************************************************************)
(* The map of constants is never stale: a variable that is in it holds the *)
(* value it has there, after any sequence of assignments, loads and        *)
(* conditionals (ConstantPropagator).                                      *)
(***************************************************************************)
MapIsCurrent == \A r \in DOMAIN ctx : emitted.regs[r] = ctx[r]

(* The instructions whose operators constant_fold evaluates exactly.       *)
ExactOps == {"addi", "add", "sll", "slt", "lw", "ld", "sw"}

(* One address, one memory, and always or never a literal: the NOTE of     *)
(* DataMemoryAbstractor, for one block.                                    *)
NotAliased ==
  \A a, b \in accesses : a.addr = b.addr => a.mem = b.mem /\ a.direct = b.direct

EmittedContent(access) == Loaded(emitted, access.direct, access.mem, access.addr)

(***************************************************************************)
(* The passes preserve the block: after every statement the registers, the *)
(* pc and the memory locations accessed hold what they would without the   *)
(* passes, when the instructions are folded exactly and no location is     *)
(* accessed in two ways (ConstantPropagator, DataMemoryAbstractor).        *)
(***************************************************************************)
PassesPreserveBlock ==
  (\A i \in DOMAIN lines : lines[i].op \in ExactOps) /\ NotAliased =>
    /\ emitted.regs = built.regs
    /\ \A access \in accesses :
         EmittedContent(access) = Content(built, access.mem, access.addr)

(***************************************************************************)
(* constant_fold evaluates the expression: the right hand side of an       *)
(* assignment has the value it has with its variables replaced by their    *)
(* constants.                                                              *)
(***************************************************************************)
FoldEvaluates ==
  todo # <<>> /\ Statement.kind = "assign" =>
    Value(TryMakeConstant(Statement.rhs), emitted, FALSE)
      = Value(Constified(Statement.rhs, ctx), emitted, FALSE)
=============================================================================
