--------------------------- MODULE MCUclidHeader ---------------------------
(* Small programs.  Nests: every nesting of up to MaxEntries entries, and  *)
(* two units.  Types: a unit with three types of every kind that refer to  *)
(* one another, a function that takes two of them, one that returns        *)
(* nothing, and a global variable.                                         *)
EXTENDS HeaderTypes, FiniteSetsExt

CONSTANTS MaxEntries

Entry(depth, tag, name, type, bytes, loc) ==
  [depth |-> depth, tag |-> tag, name |-> name, type |-> type, bytes |-> bytes, loc |-> loc]

Root == Entry(0, "unit", "u", None, None, None)

Nests(n) == {d \in [1..n -> 0..n - 1] :
               /\ d[1] = 0
               /\ \A i \in 2..n : d[i] > 0 /\ d[i] <= d[i - 1] + 1}

NestOf(d) == [i \in DOMAIN d |->
  IF i = 1 THEN Root ELSE Entry(d[i], "subprogram", IF d[i] = 1 THEN "f" ELSE "g", None, None, None)]

NestUnits(n) == {NestOf(d) : d \in UNION {Nests(m) : m \in 1..n}}

NestPrograms ==
  {<<u>> : u \in NestUnits(MaxEntries)} \cup {<<u, w>> : u, w \in NestUnits(3)} \cup {<<>>}

(* A shape is an entry and the numbers of the types it refers to; the      *)
(* types are numbered from 1, and the base types of 4 and of 8 bytes are   *)
(* the last two.                                                           *)
Shape(tag, refs) == [tag |-> tag, refs |-> refs]
Int4 == 4
Long == 5

Refs == 1..Int4

FreeShapes ==
  {Shape("const", <<>>)}
    \cup {Shape("pointer", <<r>>) : r \in Refs \cup {None}}
    \cup {Shape("typedef", <<r>>) : r \in Refs}
    \cup {Shape("array", <<r>>) : r \in Refs}
    \cup {Shape("struct", <<r, s>>) : r, s \in Refs}

LastShapes ==
  {Shape("const", <<>>), Shape("pointer", <<1>>), Shape("struct", <<1, 2>>),
   Shape("bitfields", <<Int4, Int4>>), Shape("local", <<>>)}

(* The entries of a shape, with the numbers of the types still to be       *)
(* replaced by their offsets.                                              *)
EntriesOf(shape, name) ==
  CASE shape.tag = "const"   -> <<Entry(1, "const", NoName, Int4, None, None)>>
    [] shape.tag = "pointer" -> <<Entry(1, "pointer", NoName, shape.refs[1], Xlen, None)>>
    [] shape.tag = "typedef" -> <<Entry(1, "typedef", name, shape.refs[1], None, None)>>
    [] shape.tag = "array"   -> <<Entry(1, "array", NoName, shape.refs[1], None, None),
                                  Entry(2, "subrange", NoName, Long, None, None)>>
    [] shape.tag = "struct"  -> <<Entry(1, "struct", name, None, 16, None),
                                  Entry(2, "member", "x", shape.refs[1], None, 0),
                                  Entry(2, "member", "y", shape.refs[2], None, 8)>>
    [] shape.tag = "bitfields" -> <<Entry(1, "struct", name, None, 4, None),
                                  Entry(2, "member", "x", shape.refs[1], None, None),
                                  Entry(2, "member", "y", shape.refs[2], None, 0)>>
    [] shape.tag = "local"   -> <<Entry(1, "block", NoName, None, None, None),
                                  Entry(2, "base", name, None, 2, None)>>

OffsetIn(shape) == IF shape.tag = "local" THEN 2 ELSE 1

UnitOf(shapes) ==
  LET blocks == <<EntriesOf(shapes[1], "A"), EntriesOf(shapes[2], "B"), EntriesOf(shapes[3], "C"),
                  <<Entry(1, "base", "int", None, 4, None)>>, <<Entry(1, "base", "long", None, 8, None)>>>>
      users  == <<Entry(1, "subprogram", "f", 3, None, None),
                  Entry(2, "formal", "p", 1, None, None), Entry(2, "formal", "q", 2, None, None),
                  Entry(1, "variable", "g", 2, None, 1000),
                  Entry(1, "subprogram", "h", None, None, None),
                  Entry(2, "formal", "p", Int4, None, None)>>
      start(k) == 1 + MapThenSumSet(LAMBDA j : Len(blocks[j]), 1..k - 1)
      offset(k) == start(k) + IF k <= 3 THEN OffsetIn(shapes[k]) ELSE 1
      place(e) == IF e.type = None THEN e ELSE [e EXCEPT !.type = offset(e.type)]
      flat == <<Root>> \o FlattenSeq(blocks) \o users
  IN  [i \in 1..Len(flat) |-> place(flat[i])]

TypePrograms ==
  {<<UnitOf(<<s, t, l>>)>> : s, t \in FreeShapes, l \in LastShapes}

(* A second unit that declares f again.                                    *)
OtherUnit == <<Root, Entry(1, "base", "int", None, 4, None), Entry(1, "subprogram", "f", 2, None, None),
               Entry(2, "formal", NoName, 2, None, None), Entry(2, "formal", "q", 2, None, None),
               Entry(1, "variable", "g", 2, None, None)>>

TwoUnits == {<<UnitOf(<<s, s, Shape("pointer", <<1>>)>>), OtherUnit>> : s \in FreeShapes}

(* The functions of the programs are f, g and h; the debugging information *)
(* does not describe "asm".                                                *)
Request(models, ignored, verify) == [models |-> models, ignored |-> ignored, verify |-> verify]

SmallRequests ==
  {Request({"f", "h", "asm"}, {}, {}), Request({"f", "h", "asm"}, {"h"}, {}),
   Request({"h", "asm"}, {"asm"}, {}), Request({"f", "g"}, {"f"}, {}),
   Request({"f"}, {"h"}, {}), Request({"f", "asm"}, {}, {"f"})}

SmallPrograms == NestPrograms \cup TypePrograms \cup TwoUnits
=============================================================================
