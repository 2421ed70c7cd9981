------------------------------ MODULE SpecLang ------------------------------
(***************************************************************************)
(* The value expressions of the specification language (sl_ast): types,    *)
(* expressions, and the type of an operator applied to operands.           *)
(*                                                                         *)
(* Widths are in the proportion of those of RV64 with XLen bits for 64: a  *)
(* byte is XLen \div 8 bits.  The field of a structure carries its place,  *)
(* which the code keeps in the macro that the field is printed as.         *)
(***************************************************************************)
EXTENDS Integers, Sequences

CONSTANT XLen

ASSUME XLenAssumption == XLen \in Nat /\ XLen > 0 /\ XLen % 8 = 0

Byte == XLen \div 8

Unknown          == [k |-> "unknown"]
IntType          == [k |-> "int"]
Bv(w)            == [k |-> "bv", w |-> w]
ArrayOf(in, out) == [k |-> "array", in |-> in, out |-> out]
StructOf(fields, size) == [k |-> "struct", fields |-> fields, size |-> size]
NoType           == [k |-> "panic"]

BvLit(value, typ)      == [node |-> "bv", val |-> value, typ |-> typ]
IntLit(value)          == [node |-> "int", val |-> value, typ |-> IntType]
Ident(name, typ)       == [node |-> "ident", name |-> name, typ |-> typ]
OpApp(op, args, typ)   == [node |-> "op", op |-> op, args |-> args, typ |-> typ]
FuncApp(fid, args, typ) == [node |-> "fun", fid |-> fid, args |-> args, typ |-> typ]
Access(addr, typ)      == [node |-> "access", addr |-> addr, typ |-> typ]  \* mem_access_<addr>
Panic                  == [node |-> "panic", typ |-> Unknown]

Op(name)        == [name |-> name]
SliceOp(hi, lo) == [name |-> "slice", hi |-> hi, lo |-> lo]

IsLit(e)    == e.node \in {"bv", "int"}
IsBv(typ)   == typ.k = "bv"
Panics(args) == \E k \in DOMAIN args : args[k] = Panic

SameTypeOps == {"add", "sub", "div", "mul", "xor", "or", "and", "deref"}
ShiftOps    == {"rshift", "urshift", "lshift"}

-----------------------------------------------------------------------------
(* A definition that repeats the name of the next one with a suffix is a   *)
(* mutated form of it; no action uses it.                                  *)

(* infer_op_type: the shifts take the type of the amount, and a slice is   *)
(* one bit narrower than its bits.                                         *)
InferOp(op, args) ==
  LET t(k) == args[k].typ IN
  CASE op.name \in SameTypeOps ->
         IF \A k \in DOMAIN args : t(k) = t(1) THEN t(1) ELSE NoType
    [] op.name \in ShiftOps -> t(2)
    [] op.name = "slice"  -> Bv(op.hi - op.lo)
    [] op.name = "concat" ->
         IF IsBv(t(1)) /\ IsBv(t(2)) THEN Bv(t(1).w + t(2).w) ELSE NoType
    [] op.name = "index"  -> IF t(1).k = "array" THEN t(1).out ELSE NoType
    [] op.name = "field"  ->
         IF t(1).k = "struct" /\ args[2].node = "ident" /\ args[2].name \in DOMAIN t(1).fields
           THEN t(1).fields[args[2].name].typ ELSE NoType

(* infer_func_app_type                                                     *)
InferFunc(fid, args) ==
  CASE fid = "old" -> args[1].typ
    [] fid = "sext" ->
         IF IsLit(args[1]) /\ IsBv(args[2].typ) THEN Bv(args[2].typ.w + args[1].val) ELSE NoType

(* get_array_out_type_size: -1 for an array of arrays.                     *)
OutSize(typ) ==
  CASE typ.out.k = "bv" -> typ.out.w
    [] typ.out.k = "struct" -> typ.out.size
    [] OTHER -> -1
=============================================================================
