----------------------------- MODULE BitVectors -----------------------------
(***************************************************************************)
(* The bit-vector operators of the intermediate representation (BVOp and   *)
(* CompOp), with the meaning that UCLID5 gives to what each is printed as. *)
(* A bit vector of width w is a number in 0 .. 2^w - 1; the operators that *)
(* move bits work on the set of the positions of its ones.                 *)
(***************************************************************************)
EXTENDS Integers, FiniteSets, FiniteSetsExt

BitVector(w) == 0 .. 2^w - 1

Bits(w, x) == {i \in 0 .. w - 1 : (x \div 2^i) % 2 = 1}
Number(bits) == MapThenSumSet(LAMBDA i : 2^i, bits)

Add(w, x, y) == (x + y) % 2^w
Sub(w, x, y) == (x - y) % 2^w
Mul(w, x, y) == (x * y) % 2^w
And(w, x, y) == Number(Bits(w, x) \cap Bits(w, y))
Or(w, x, y)  == Number(Bits(w, x) \cup Bits(w, y))
Xor(w, x, y) == Number((Bits(w, x) \cup Bits(w, y)) \ (Bits(w, x) \cap Bits(w, y)))

IsNegative(w, x) == w - 1 \in Bits(w, x)
Slice(w, l, r, x) == Number({i - r : i \in Bits(w, x) \cap (r .. l)})
Concat(x, n, y)   == x * 2^n + y

(* Extensions of a vector of width w by n bits.                            *)
ZeroExt(w, n, x) == x
SignExt(w, n, x) ==
  Number(Bits(w, x) \cup (IF IsNegative(w, x) THEN w .. w + n - 1 ELSE {}))

(* bv_left_shift, bv_l_right_shift and bv_a_right_shift of x by n bits.    *)
LeftShift(w, x, n)  == Number({i + n : i \in Bits(w, x)} \cap (0 .. w - 1))
RightShift(w, x, n) == Number({i - n : i \in Bits(w, x)} \cap (0 .. w - 1))
ARightShift(w, x, n) ==
  Number(({i - n : i \in Bits(w, x)} \cap (0 .. w - 1))
           \cup (IF IsNegative(w, x) THEN {i \in 0 .. w - 1 : i + n >= w} ELSE {}))

(* Ltu compares the numbers; Lt compares two vectors of the same sign as   *)
(* Ltu does, and puts a negative one before one that is not.               *)
Ltu(x, y) == x < y
Lt(w, x, y) ==
  IF IsNegative(w, x) = IsNegative(w, y) THEN x < y ELSE IsNegative(w, x)
Geu(x, y) == ~ Ltu(x, y)
Ge(w, x, y) == ~ Lt(w, x, y)
=============================================================================
