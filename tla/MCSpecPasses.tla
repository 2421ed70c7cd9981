---------------------------- MODULE MCSpecPasses ----------------------------
(***************************************************************************)
(* Specifications of one or two blocks over four global variables, one of  *)
(* them with the name of an argument.  XLen is 16, so a byte is two bits.  *)
(***************************************************************************)
EXTENDS SpecMeaning

MCElem ==
  StructOf([fx |-> [typ |-> Bv(XLen), loc |-> 0], fy |-> [typ |-> Bv(XLen \div 2), loc |-> 8]], 32)
MCGlobals ==
  [g   |-> [typ |-> Bv(XLen), addr |-> 16],
   h   |-> [typ |-> Bv(XLen \div 2), addr |-> 40],
   arr |-> [typ |-> ArrayOf(Bv(XLen), Bv(XLen)), addr |-> 72],
   st  |-> [typ |-> ArrayOf(Bv(XLen), MCElem), addr |-> 136]]
MCFormals == [f1 |-> {"p"}, f2 |-> {"p", "g"}]

MCMemory(old, w, addr) == 7 * addr + 3 * w + (IF old THEN 11 ELSE 0)
MCStateValue(old, name) ==
  (CASE name = "pc" -> 20 [] name = "a0" -> 9 [] OTHER -> 2) + (IF old THEN 64 ELSE 0)
MCParamValue(name) == IF name = "p" THEN 3 ELSE 6

Name(n) == Ident(n, Unknown)
App(op, args) == OpApp(Op(op), args, Unknown)
Call(f, args) == FuncApp(f, args, Unknown)

Names  == {Name(n) : n \in {"g", "h", "p", "x", "a0"}}
Lits   == {BvLit(6, Bv(XLen)), BvLit(45000, Bv(XLen)), BvLit(5, Bv(XLen \div 2))}
Leaves == Names \cup Lits \cup {IntLit(1)}
Places ==
  LET elems == {App("index", <<Name("arr"), i>>) : i \in Leaves}
      structs == {App("index", <<Name("st"), i>>) : i \in {Name("p"), Name("x"), IntLit(1)}}
  IN elems \cup {App("field", <<s, Name(f)>>) : s \in structs, f \in {"fx", "fy"}}
Simple == Leaves \cup Places
Reads  == Names \cup Places

Folds == {App(o, <<x, y>>) :
            o \in Foldable, x, y \in Lits \cup {BvLit(n, Bv(XLen)) : n \in {0, 3, 18}}
                                  \cup {BvLit(n, Bv(XLen \div 2)) : n \in {0, 200, 255}}}
Sums ==
  {App(o, <<x, y>>) : o \in {"add", "lshift"}, x \in Simple, y \in Leaves}
    \cup {App("concat", <<x, y>>) : x \in {Name("h"), BvLit(5, Bv(XLen \div 2))}, y \in Leaves}
Functions1 ==
  {Call("old", <<x>>) : x \in Simple} \cup {Call("sext", <<IntLit(8), x>>) : x \in Simple}
    \cup {App("deref", <<x>>) : x \in Names}
    \cup {OpApp(SliceOp(hi, 2), <<x>>, Unknown) : hi \in {2, 5, 15}, x \in Simple}
Deep ==
  {App("add", <<x, y>>) : x \in {Call("old", <<z>>) : z \in Reads}, y \in Simple}
    \cup {App("index", <<Name("arr"), App("add", <<x, y>>)>>) : x \in Leaves, y \in Leaves}
    \cup {App("mul", <<App("add", <<x, y>>), z>>) : x, y, z \in Lits}
Exprs == Simple \cup Folds \cup Sums \cup Functions1 \cup Deep

Compare(e) == [item |-> "compare", args |-> <<e, BvLit(6, Bv(XLen))>>]
Open(n, w) == [item |-> "open", var |-> n, w |-> w]
Close      == [item |-> "close"]
Binders    == {Open("x", 16), Open("x", 8), Open("g", 16)}

(* One comparison; one under a quantifier, with one that follows it; two   *)
(* nested quantifiers.                                                     *)
Clauses(exprs) ==
  {<<Compare(e)>> : e \in exprs}
    \cup {<<q, Compare(e), Close, Compare(r)>> : q \in Binders, e \in exprs, r \in Names}
    \cup {<<q, r, Compare(e), Close, Compare(d), Close>> :
             q, r \in Binders, e \in Names,
             d \in Names \cup {App("add", <<n, BvLit(6, Bv(XLen))>>) : n \in Names}}
Block(f, c) == [func |-> f, clause |-> c]
MCSpecs ==
  {<<Block(f, c)>> : f \in DOMAIN MCFormals, c \in Clauses(Exprs)}
    \cup {<<Block(f1, c), Block(f2, <<Compare(e)>>)>> :
             f1, f2 \in DOMAIN MCFormals,
             c \in {<<q, Compare(Name("x")), Close>> : q \in Binders}, e \in Simple}
=============================================================================
