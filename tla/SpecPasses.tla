----------------------------- MODULE SpecPasses -----------------------------
(***************************************************************************)
(* process_specs: three passes over every clause of a specification, then  *)
(* its text.                                                               *)
(*                                                                         *)
(* A clause is taken in the order in which ASTRewriter visits it: a        *)
(* quantifier opens, a comparison of two value expressions is met, the     *)
(* quantifier closes.  The Boolean operators between them leave no trace   *)
(* in any pass and are left out.                                           *)
(***************************************************************************)
EXTENDS SpecLang, BitVectors, TLC

CONSTANTS
  Globals,        \* name -> type and address of the global variables
  Formals,        \* function -> names of its arguments
  Specs           \* sequences of blocks, each a function name and a clause

ASSUME GlobalsAssumption == \A g \in DOMAIN Globals : Globals[g].addr \in BitVector(XLen)

VARIABLES
  checked,        \* a build with overflow checks
  spec,           \* the blocks of the specification files
  block,          \* the block being rewritten, or the last one
  pass,           \* "types", "rename", "fold", then "print", "done" or "panic"
  pos,            \* the item that the pass visits
  typMap,         \* typ_map of the clause
  clause,         \* the clause being rewritten
  specsMap        \* function -> its rewritten clause

vars == <<checked, spec, block, pass, pos, typMap, clause, specsMap>>

(* The names that rewrite_vexpr_ident knows.                               *)
SystemVars == {"pc", "returned", "priv", "mem_b", "mem_h", "mem_w", "mem_d", "a0", "sp", "ra"}

Func == spec[block].func
Deref(e) == OpApp(Op("deref"), <<e>>, e.typ)

-----------------------------------------------------------------------------
(* A definition that repeats the name of the next one with a suffix is a   *)
(* mutated form of it; no action uses it.                                  *)

(* VExprTypeInference.                                                     *)
Dereferenced(e) == IF IsBv(e.typ) THEN Deref(e) ELSE e

(* What is not global has XLen bits, whatever it is declared with; a name  *)
(* that is not found is left alone.                                        *)
InferIdent(e, map) ==
  IF e.name \in SystemVars \cup Formals[Func] \cup DOMAIN map THEN Ident(e.name, Bv(XLen))
  ELSE IF e.name \in DOMAIN Globals THEN Dereferenced(Ident(e.name, Globals[e.name].typ))
  ELSE e

InferApp(op, args) ==
  IF Panics(args) \/ InferOp(op, args) = NoType THEN Panic
  ELSE LET typ == InferOp(op, args) IN
       CASE op.name = "field" ->
              Dereferenced(OpApp(op, <<args[1], Ident(args[2].name, typ)>>, typ))
         [] op.name = "index" -> Dereferenced(OpApp(op, args, typ))
         [] OTHER -> OpApp(op, args, typ)

(* The operands of a function are visited before it is rewritten, and once *)
(* more when it is.                                                        *)
RECURSIVE Infer(_, _)
Infer(e, map) ==
  CASE e.node = "ident" -> InferIdent(e, map)
    [] e.node = "op"    -> InferApp(e.op, [k \in DOMAIN e.args |-> Infer(e.args[k], map)])
    [] e.node = "fun"   ->
         LET args == [k \in DOMAIN e.args |-> Infer(Infer(e.args[k], map), map)] IN
           IF Panics(args) \/ InferFunc(e.fid, args) = NoType THEN Panic
           ELSE FuncApp(e.fid, args, InferFunc(e.fid, args))
    [] OTHER -> e

(* RenameGlobals: whatever has the name of a global is its address.        *)
RECURSIVE Rename(_)
Rename(e) ==
  CASE e.node = "ident" ->
         IF e.name \in DOMAIN Globals THEN BvLit(Globals[e.name].addr, e.typ) ELSE e
    [] e.node \in {"op", "fun"} -> [e EXCEPT !.args = [k \in DOMAIN @ |-> Rename(@[k])]]
    [] OTHER -> e

(* ConstantFolder, in u64.                                                 *)
U64 == BitVector(XLen)
Wrapped(n, typ) ==
  IF n \in U64 THEN BvLit(n, typ) ELSE IF checked THEN Panic ELSE BvLit(n % 2^XLen, typ)

ShiftedUnsigned(op, x, n, typ) ==
  IF n >= XLen /\ checked THEN Panic
  ELSE BvLit(IF op = "lshift" THEN LeftShift(XLen, x, n % XLen)
             ELSE RightShift(XLen, x, n % XLen), typ)

Shifted(op, x, n, typ) ==
  IF n >= XLen /\ checked THEN Panic
  ELSE BvLit(CASE op = "lshift"  -> LeftShift(XLen, x, n % XLen)
               [] op = "urshift" -> RightShift(XLen, x, n % XLen)
               [] op = "rshift"  -> ARightShift(XLen, x, n % XLen), typ)

FoldLits(op, args, typ) ==
  LET x == args[1].val % 2^XLen
      y == args[2].val % 2^XLen
      t == args[1].typ
  IN CASE op.name = "add" -> Wrapped(x + y, t)
       [] op.name = "sub" -> Wrapped(x - y, t)
       [] op.name = "mul" -> Wrapped(x * y, t)
       [] op.name = "div" -> IF y = 0 THEN Panic ELSE BvLit(x \div y, t)
       [] op.name = "xor" -> BvLit(Xor(XLen, x, y), t)
       [] op.name = "or"  -> BvLit(Or(XLen, x, y), t)
       [] op.name = "and" -> BvLit(And(XLen, x, y), t)
       [] op.name \in ShiftOps -> Shifted(op.name, x, y, t)
       [] op.name = "slice" -> Panic
       [] op.name = "index" ->
            IF OutSize(t) = -1 THEN Panic ELSE Wrapped(x + (OutSize(t) \div Byte) * y, t.out)
       [] op.name = "deref" -> Access(x, typ)
       [] OTHER -> OpApp(op, args, typ)

RECURSIVE Fold(_)
Fold(e) ==
  CASE e.node \in {"op", "fun"} ->
         LET args == [k \in DOMAIN e.args |-> Fold(e.args[k])] IN
           IF Panics(args) THEN Panic
           ELSE IF e.node = "op" /\ \A k \in DOMAIN args : IsLit(args[k])
             THEN FoldLits(e.op, args, e.typ)
           ELSE [e EXCEPT !.args = args]
    [] OTHER -> e

(* The expressions that vexpr_to_string has no text for.                   *)
RECURSIVE Unprintable(_)
Unprintable(e) ==
  CASE e.node = "bv" -> e.typ.k \notin {"bv", "array"}
    [] e.node = "fun" -> \E k \in DOMAIN e.args : Unprintable(e.args[k])
    [] e.node = "op" ->
         \/ \E k \in DOMAIN e.args : Unprintable(e.args[k])
         \/ e.op.name = "div"
         \/ e.op.name = "deref" /\
              ~ (IsBv(e.args[1].typ) /\ e.args[1].typ.w \div Byte \in {1, 2, 4, 8})
         \/ e.op.name = "index" /\ OutSize(e.args[1].typ) = -1
    [] OTHER -> FALSE

-----------------------------------------------------------------------------
Init ==
  /\ checked \in BOOLEAN
  /\ spec \in Specs
  /\ block = 1
  /\ pass = "types"
  /\ pos = 1
  /\ typMap = <<>>
  /\ clause = spec[1].clause
  /\ specsMap = <<>>

Rewriting == pass \in {"types", "rename", "fold"} /\ pos <= Len(clause)
Item == clause[pos]

(* Only the first pass does something at a quantifier, and none does at    *)
(* its end.                                                                *)
OpenQuantifier ==
  /\ Rewriting /\ Item.item = "open"
  /\ typMap' = IF pass = "types" THEN (Item.var :> Bv(Item.w)) @@ typMap ELSE typMap
  /\ pos' = pos + 1
  /\ UNCHANGED <<checked, spec, block, pass, clause, specsMap>>

Opened == clause[Max({i \in 1..pos : clause[i].item = "open"})].var
ClosedForgets(map) == [n \in DOMAIN map \ {Opened} |-> map[n]]
Closed(map) == map

CloseQuantifier ==
  /\ Rewriting /\ Item.item = "close"
  /\ typMap' = Closed(typMap)
  /\ pos' = pos + 1
  /\ UNCHANGED <<checked, spec, block, pass, clause, specsMap>>

Rewritten(e) ==
  CASE pass = "types"  -> Infer(e, typMap)
    [] pass = "rename" -> Rename(e)
    [] pass = "fold"   -> Fold(e)

VisitComparison ==
  /\ Rewriting /\ Item.item = "compare"
  /\ LET args == [k \in 1..2 |-> Rewritten(Item.args[k])] IN
       IF Panics(args)
         THEN pass' = "panic" /\ UNCHANGED <<pos, clause>>
         ELSE /\ clause' = [clause EXCEPT ![pos].args = args]
              /\ pos' = pos + 1
              /\ UNCHANGED pass
  /\ UNCHANGED <<checked, spec, block, typMap, specsMap>>

EndPass ==
  /\ pass \in {"types", "rename"} /\ pos > Len(clause)
  /\ pass' = IF pass = "types" THEN "rename" ELSE "fold"
  /\ pos' = 1
  /\ UNCHANGED <<checked, spec, block, typMap, clause, specsMap>>

(* The block of a function replaces the one before it, and the next clause *)
(* starts with a map of its own.                                           *)
TypMapKept == typMap
FreshTypMap == <<>>

EndBlock ==
  /\ pass = "fold" /\ pos > Len(clause)
  /\ specsMap' = (Func :> clause) @@ specsMap
  /\ IF block < Len(spec)
       THEN /\ block' = block + 1
            /\ clause' = spec[block + 1].clause
            /\ pass' = "types" /\ pos' = 1 /\ typMap' = FreshTypMap
       ELSE pass' = "print" /\ UNCHANGED <<block, clause, pos, typMap>>
  /\ UNCHANGED <<checked, spec>>

Comparisons(c) == {i \in 1..Len(c) : c[i].item = "compare"}

PrintSpecs ==
  /\ pass = "print"
  /\ pass' = IF \E f \in DOMAIN specsMap : \E i \in Comparisons(specsMap[f]), k \in 1..2 :
                  Unprintable(specsMap[f][i].args[k])
               THEN "panic" ELSE "done"
  /\ UNCHANGED <<checked, spec, block, pos, typMap, clause, specsMap>>

Stopped ==
  /\ pass \in {"done", "panic"}
  /\ UNCHANGED vars

Next ==
  \/ OpenQuantifier \/ CloseQuantifier \/ VisitComparison
  \/ EndPass \/ EndBlock \/ PrintSpecs \/ Stopped

Spec == Init /\ [][Next]_vars
=============================================================================
