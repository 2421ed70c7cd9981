----------------------------- MODULE SpecMeaning -----------------------------
(***************************************************************************)
(* What a clause says, before and after its passes.                        *)
(*                                                                         *)
(* The reference is the value of a comparison's operand in one state of    *)
(* the program: Meaning evaluates what the author wrote, by the scoping of *)
(* the language (a bound variable hides an argument, which hides a system  *)
(* variable, which hides a global variable), and Value evaluates the text  *)
(* that the passes leave, by the meaning of UCLID5.                        *)
(***************************************************************************)
EXTENDS SpecPasses

CONSTANTS
  Memory(_, _, _),       \* (in the old state?, width, address) -> contents
  StateValue(_, _),      \* (in the old state?, name) -> number
  ParamValue(_)          \* name -> number

Undefined == [w |-> -1, v |-> 0]
Vec(w, v) == [w |-> w, v |-> v % 2^w]
Word(v) == Vec(XLen, v)
Integer(v) == [w |-> 0, v |-> v]

(* A scope is the sequence of the quantifiers that are open, the last      *)
(* opened first; a bound variable has a value of its own at each depth.    *)
Named(scope, name) == {d \in DOMAIN scope : scope[d].var = name}
InnermostOf(depths) == CHOOSE d \in depths : \A o \in depths : d <= o
BoundValue(scope, d) == Vec(scope[d].w, 3 + 5 * (Len(scope) - d))

Load(old, w, addr) == IF addr.w = XLen THEN Vec(w, Memory(old, w, addr.v)) ELSE Undefined

(* The names that are not global, in both readings.                        *)
IsLocal(scope, name) ==
  Named(scope, name) # {} \/ name \in Formals[Func] \cup SystemVars
Local(scope, name, old) ==
  IF Named(scope, name) # {} THEN BoundValue(scope, InnermostOf(Named(scope, name)))
  ELSE IF name \in Formals[Func] THEN Word(ParamValue(name))
  ELSE IF name \in SystemVars THEN Word(StateValue(old, name))
  ELSE Undefined

(* Operators on values.  The amount of a shift is a number of any width.   *)
Arithmetic(name, w, x, y) ==
  CASE name = "add" -> Vec(w, x + y)
    [] name = "sub" -> Vec(w, x - y)
    [] name = "mul" -> Vec(w, x * y)
    [] name = "div" -> IF y = 0 THEN Undefined ELSE Vec(w, x \div y)
    [] name = "xor" -> Vec(w, Xor(w, x, y))
    [] name = "or"  -> Vec(w, Or(w, x, y))
    [] name = "and" -> Vec(w, And(w, x, y))
    [] name = "lshift"  -> Vec(w, LeftShift(w, x, y))
    [] name = "urshift" -> Vec(w, RightShift(w, x, y))
    [] name = "rshift"  -> Vec(w, ARightShift(w, x, y))

Applied(op, vals) ==
  LET x == vals[1]
      y == vals[2]
  IN IF \E k \in DOMAIN vals : vals[k].w <= 0 THEN Undefined
     ELSE CASE op.name = "slice" ->
                 IF op.lo <= op.hi /\ op.hi < x.w
                   THEN Vec(op.hi - op.lo + 1, x.v \div 2^op.lo) ELSE Undefined
            [] op.name = "concat" -> Vec(x.w + y.w, Concat(x.v, y.w, y.v))
            [] OTHER -> IF x.w = y.w THEN Arithmetic(op.name, x.w, x.v, y.v) ELSE Undefined

Extended(n, val) == IF val.w > 0 THEN Vec(val.w + n, SignExt(val.w, n, val.v)) ELSE Undefined
Plus(base, n) == IF base.w = XLen THEN Word(base.v + n) ELSE Undefined

-----------------------------------------------------------------------------
(* The type of an expression that names a place in memory.                 *)
RECURSIVE PlaceType(_)
PlaceType(e) ==
  CASE e.node = "ident" -> IF e.name \in DOMAIN Globals THEN Globals[e.name].typ ELSE NoType
    [] e.node = "op" /\ e.op.name = "index" ->
         IF PlaceType(e.args[1]).k = "array" THEN PlaceType(e.args[1]).out ELSE NoType
    [] e.node = "op" /\ e.op.name = "field" ->
         IF PlaceType(e.args[1]).k = "struct" THEN PlaceType(e.args[1]).fields[e.args[2].name].typ
         ELSE NoType
    [] OTHER -> NoType

RECURSIVE Meaning(_, _, _), PlaceOf(_, _, _)
(* The address of a place.                                                 *)
PlaceOf(e, scope, old) ==
  CASE e.node = "ident" -> Word(Globals[e.name].addr)
    [] e.op.name = "index" ->
         LET i == Meaning(e.args[2], scope, old) IN
           IF i.w \in {0, XLen}
             THEN Plus(PlaceOf(e.args[1], scope, old),
                       (OutSize(PlaceType(e.args[1])) \div Byte) * i.v)
             ELSE Undefined
    [] e.op.name = "field" ->
         Plus(PlaceOf(e.args[1], scope, old), PlaceType(e.args[1]).fields[e.args[2].name].loc)

(* A primitive place is read, any other stands for its address.            *)
IsPlace(e, scope) ==
  \/ e.node = "op" /\ e.op.name \in {"index", "field"}
  \/ e.node = "ident" /\ ~ IsLocal(scope, e.name) /\ e.name \in DOMAIN Globals

Meaning(e, scope, old) ==
  CASE e.node = "bv"  -> IF e.val < 2^e.typ.w THEN Vec(e.typ.w, e.val) ELSE Undefined
    [] e.node = "int" -> Integer(e.val)
    [] IsPlace(e, scope) ->
         LET addr == PlaceOf(e, scope, old)
             typ == PlaceType(e)
         IN IF IsBv(typ) THEN Load(old, typ.w, addr) ELSE addr
    [] e.node = "ident" -> Local(scope, e.name, old)
    [] e.node = "fun" /\ e.fid = "old" -> Meaning(e.args[1], scope, TRUE)
    [] e.node = "fun" /\ e.fid = "sext" -> Extended(e.args[1].val, Meaning(e.args[2], scope, old))
    [] e.node = "op" /\ e.op.name = "deref" ->
         Load(old, XLen, Meaning(e.args[1], scope, old))
    [] OTHER -> Applied(e.op, [k \in DOMAIN e.args |-> Meaning(e.args[k], scope, old)])

(* The text that vexpr_to_string prints for e: the macros of arrays,       *)
(* structures and memory are those of the model's header.                  *)
RECURSIVE Value(_, _, _)
Value(e, scope, old) ==
  CASE e.node = "bv" ->
         LET w == IF IsBv(e.typ) THEN e.typ.w ELSE e.typ.in.w IN
           IF e.val < 2^w THEN Vec(w, e.val) ELSE Undefined
    [] e.node = "int" -> Integer(e.val)
    [] e.node = "ident" -> Local(scope, e.name, old)
    [] e.node = "access" -> Vec(e.typ.w, Memory(old, e.typ.w, e.addr))
    [] e.node = "fun" /\ e.fid = "old" -> Value(e.args[1], scope, TRUE)
    [] e.node = "fun" /\ e.fid = "sext" -> Extended(e.args[1].val, Value(e.args[2], scope, old))
    [] e.node = "op" ->
         LET vals == [k \in DOMAIN e.args \ (IF e.op.name = "field" THEN {2} ELSE {}) |->
                        Value(e.args[k], scope, old)]
         IN CASE e.op.name = "deref" -> Load(old, e.args[1].typ.w, vals[1])
              [] e.op.name = "index" ->
                   IF vals[2].w = XLen
                     THEN Plus(vals[1], (OutSize(e.args[1].typ) \div Byte) * vals[2].v)
                     ELSE Undefined
              [] e.op.name = "field" ->
                   IF e.args[2].node = "ident"
                     THEN Plus(vals[1], e.args[1].typ.fields[e.args[2].name].loc) ELSE Undefined
              [] OTHER -> Applied(e.op, vals)

-----------------------------------------------------------------------------
(* The quantifiers that are open at an item of a clause, and the variables *)
(* that were bound before it.                                              *)
RECURSIVE ScopeAt(_, _)
ScopeAt(c, i) ==
  IF i = 1 THEN <<>>
  ELSE LET scope == ScopeAt(c, i - 1) IN
       CASE c[i - 1].item = "open"  -> <<c[i - 1]>> \o scope
         [] c[i - 1].item = "close" -> Tail(scope)
         [] OTHER -> scope

BoundBefore(c, i) == {c[j].var : j \in {j \in 1..(i - 1) : c[j].item = "open"}}

(* The names of e that are not fields.                                     *)
RECURSIVE NamesIn(_), AllLit(_)
NamesIn(e) ==
  CASE e.node = "ident" -> {e.name}
    [] e.node \in {"op", "fun"} ->
         UNION {NamesIn(e.args[k]) :
                  k \in DOMAIN e.args \ (IF e.node = "op" /\ e.op.name = "field" THEN {2} ELSE {})}
    [] OTHER -> {}

Foldable == (SameTypeOps \ {"deref"}) \cup ShiftOps
AllLit(e) ==
  \/ IsLit(e)
  \/ e.node = "op" /\ e.op.name \in Foldable /\ \A k \in DOMAIN e.args : AllLit(e.args[k])

(* The folder works in XLen bits: the result must be one of the width, the *)
(* sign of a narrow word is not seen, and no shift may reach XLen.         *)
Wraps(w) == w = XLen /\ ~ checked
InRange(name, x, y, w) ==
  CASE name = "add" -> x + y < 2^w \/ Wraps(w)
    [] name = "sub" -> x >= y \/ Wraps(w)
    [] name = "mul" -> x * y < 2^w \/ Wraps(w)
    [] name = "lshift"  -> y < XLen /\ (x * 2^y) % 2^XLen < 2^w
    [] name = "urshift" -> y < XLen
    [] name = "rshift"  -> y < XLen /\ (w = XLen \/ y = 0 \/ ~ IsNegative(w, x))
    [] OTHER -> TRUE

(* Some place of e is read when e is.                                      *)
RECURSIVE ReadsMemory(_, _)
ReadsMemory(e, scope) ==
  \/ IsPlace(e, scope) /\ IsBv(PlaceType(e))
  \/ e.node \in {"op", "fun"} /\ \E k \in DOMAIN e.args : ReadsMemory(e.args[k], scope)

(* The operations of e on literals alone keep within what the folder can   *)
(* do; IsFoldExact looks at the topmost only.                              *)
IsFoldExact(name, args) ==
  LET x == Fold(args[1])
      y == Fold(args[2])
  IN x # Panic /\ y # Panic /\ IsBv(x.typ) /\ InRange(name, x.val, y.val, x.typ.w)

RECURSIVE FoldsExactly(_)
FoldsExactly(e) ==
  e.node \in {"op", "fun"} =>
    /\ \A k \in DOMAIN e.args : FoldsExactly(e.args[k])
    /\ ~ IsLit(e) /\ AllLit(e) => IsFoldExact(e.op.name, e.args)

(* An operand of old or of an extension that is read through memory is     *)
(* dereferenced a second time.                                             *)
RECURSIVE ReadsInFunction(_, _)
ReadsInFunction(e, scope) ==
  \/ e.node = "fun" /\ \E k \in DOMAIN e.args : ReadsMemory(e.args[k], scope)
  \/ e.node \in {"op", "fun"} /\ \E k \in DOMAIN e.args : ReadsInFunction(e.args[k], scope)

(* A name of e hides a global variable at item i, or did earlier.          *)
HidesGlobal(f, c, i, e) ==
  NamesIn(e) \cap DOMAIN Globals \cap (Formals[f] \cup SystemVars \cup BoundBefore(c, i)) # {}

IsPlain(c, i, e) ==
  ~ HidesGlobal(Func, c, i, e) /\ ~ ReadsInFunction(e, ScopeAt(c, i)) /\ FoldsExactly(e)

(* What the passes and the printer surely take: terms of XLen bits over    *)
(* names that are known, no slice, no extension, no quotient, no operation *)
(* on literals alone but the address of an element, and a field only of an *)
(* element whose index is not a literal.                                   *)
Fits(e) ==
  IsLit(e.args[2]) =>
    Globals[e.args[1].name].addr + (OutSize(PlaceType(e.args[1])) \div Byte) * e.args[2].val \in U64

XLenType == Bv(XLen)
RECURSIVE IsCore(_)
IsCore(e) ==
  CASE e.node = "bv"    -> e.typ = XLenType
    [] e.node = "ident" -> e.name \in DOMAIN Globals => Globals[e.name].typ = XLenType
    [] e.node = "fun"   -> e.fid = "old" /\ IsCore(e.args[1])
    [] e.node = "op" /\ e.op.name = "index" ->
         /\ e.args[1].node = "ident" /\ PlaceType(e) = XLenType
         /\ IsCore(e.args[2]) \/ e.args[2].node = "int"
         /\ Fits(e)
    [] e.node = "op" /\ e.op.name = "field" ->
         /\ PlaceType(e) = XLenType
         /\ e.args[1].op.name = "index" /\ IsCore(e.args[1].args[2])
         /\ ~ IsLit(e.args[1].args[2])
    [] e.node = "op" /\ e.op.name \in Foldable \ {"div"} ->
         ~ AllLit(e) /\ \A k \in DOMAIN e.args : IsCore(e.args[k])
    [] OTHER -> FALSE

-----------------------------------------------------------------------------
ClauseDone == pass = "fold" /\ pos > Len(clause)
Operands(c) == {<<i, k>> : i \in Comparisons(c), k \in 1..2}

(* The text of a clause has the value that its author gave it, in every    *)
(* well-formed operand that is plain: no name hides a global variable      *)
(* there or did earlier in the clause, memory is not read inside old or an *)
(* extension, and the folder stays within the widths.  A variable bound in *)
(* one clause or block does not disturb the next.                          *)
ReadsAsWritten ==
  ClauseDone => LET c == spec[block].clause IN
    \A op \in Operands(c) :
      LET i == op[1]
          e == c[i].args[op[2]]
          text == clause[i].args[op[2]]
          scope == ScopeAt(c, i)
          written == Meaning(e, scope, FALSE)
      IN ~ Unprintable(text) /\ IsPlain(c, i, e) /\ written # Undefined
           => Value(text, scope, FALSE) = written

(* The folder may replace an operation on two literals by its result       *)
(* exactly when InRange says so: outside, the text has another value than  *)
(* the author's or none.  (A release build shifts by the amount modulo     *)
(* XLen, and may be right by chance.)                                      *)
FoldsInRange ==
  ClauseDone => LET c == spec[block].clause IN
    \A op \in Operands(c) :
      LET e == c[op[1]].args[op[2]]
          IsFold == /\ e.node = "op" /\ e.op.name \in Foldable
                    /\ \A k \in DOMAIN e.args : e.args[k].node = "bv"
                    /\ e.op.name \in ShiftOps => checked \/ e.args[2].val < XLen
          written == Meaning(e, <<>>, FALSE)
          Kept == Value(clause[op[1]].args[op[2]], <<>>, FALSE) = written
      IN IsFold /\ written # Undefined => (Kept <=> IsFoldExact(e.op.name, e.args))

(* A specification of core terms over names that are known and hide no     *)
(* global variable is rewritten and printed: no pass gives up on it, nor   *)
(* the printer, whatever its quantifiers, blocks and arrays.               *)
KnownNames(f, c) ==
  DOMAIN Globals \cup SystemVars \cup Formals[f] \cup BoundBefore(c, Len(c) + 1)

CoreIsAccepted ==
  pass = "panic" =>
    \E b \in DOMAIN spec : LET f == spec[b].func  c == spec[b].clause IN
      \E op \in Operands(c) :
        LET e == c[op[1]].args[op[2]] IN
          \/ ~ IsCore(e)
          \/ ~ NamesIn(e) \subseteq KnownNames(f, c)
          \/ HidesGlobal(f, c, op[1], e)

(* As the comment in rewrite_vexpr_ident has it: an argument hides the     *)
(* global variable of the same name.                                       *)
FormalsShadowGlobals ==
  ClauseDone => LET c == spec[block].clause IN
    \A op \in Operands(c) :
      LET e == c[op[1]].args[op[2]]
          scope == ScopeAt(c, op[1])
      IN e.node = "ident" /\ e.name \in Formals[Func]
           => Value(clause[op[1]].args[op[2]], scope, FALSE) = Meaning(e, scope, FALSE)
=============================================================================
