---------------------------- MODULE HeaderTypes ----------------------------
(***************************************************************************)
(* The macros that Uclid5Interface prints for a type, which index arrays   *)
(* and select fields, and what reading and printing must agree on.  A type *)
(* is a tree, and these operators walk it.                                 *)
(***************************************************************************)
EXTENDS UclidHeader

(* What a compiler writes: the root is the entry of the unit; a type       *)
(* attribute refers to the entry of a type; the indices of an array and    *)
(* the pointers have the width of an address; the parameters of a function *)
(* have different names.                                                   *)
ASSUME EntriesAssumption ==
  /\ Xlen \in Nat
  /\ \A program \in Programs : \A u \in 1..Len(program) :
       LET unit == program[u] IN
         \A i \in 1..Len(unit) :
           /\ unit[i].tag = "formal" => i # 1
           /\ unit[i].type # None =>
                unit[i].type \in 1..Len(unit) /\ unit[unit[i].type].tag \notin {"subprogram", "variable"}
           /\ unit[i].tag = "subrange" /\ unit[i].type # None =>
                LET index == unit[unit[i].type]
                IN  index.tag = "base" /\ index.depth = 1 /\ index.bytes = Xlen
           /\ unit[i].tag = "pointer" => unit[i].bytes \in {None, Xlen}
           /\ \A p, j \in 1..Len(unit) :
                unit[i].tag = "formal" /\ unit[j].tag = "formal" /\ unit[i].name = unit[j].name
                  /\ unit[i].name # NoName /\ Encloses(unit, p, i) /\ Encloses(unit, p, j) => i = j

-----------------------------------------------------------------------------
(* A definition that repeats the name of the next one with a suffix is a   *)
(* mutated form of it; no action uses it.                                  *)

NonZero(bytes) == {bytes} \ {0}

(* The types inside a type, each with what it is of the one around it.     *)
Part(as, typ) == [as |-> as, typ |-> typ]

Parts(typ) ==
  CASE typ.kind = "array"   -> {Part("in", typ.in), Part("out", typ.out)}
    [] typ.kind = "struct"  -> {Part("field", typ.fields[n].typ) : n \in DOMAIN typ.fields}
    [] typ.kind = "pointer" -> {Part("value", typ.value)}
    [] OTHER                -> {}

(* A type contains the types of entries that were read before it, so it is *)
(* nested no deeper than its unit has entries.                             *)
Depths == {0} \cup UNION {1..Len(units[u]) : u \in 1..Len(units)}

(* A walk over a type, through some of the parts only.                     *)
Inside(typ, through) ==
  LET level[n \in Nat] ==
        IF n = 0 THEN {Part("whole", typ)}
        ELSE {part \in UNION {Parts(p.typ) : p \in level[n - 1]} : part.as \in through}
  IN  UNION {level[n] : n \in Depths}

(* gen_array_defn: index_by_n for the sizes n found in a type.             *)
IndexMacrosFlat(typ) == NonZero(typ.bytes)
IndexMacros(typ) ==
  LET sized == {p \in Inside(typ, {"in", "out", "field", "value"}) :
                  p.typ.kind \in {"primitive", "struct"}}
  IN  UNION {NonZero(p.typ.bytes) : p \in sized}

FieldsOf(parts) ==
  UNION {{<<p.typ.id, n>> : n \in DOMAIN p.typ.fields} :
           p \in {q \in parts : q.typ.kind = "struct"}}

(* gen_struct_defn: id_field; nothing is looked for behind a pointer.      *)
FieldMacros(typ) == FieldsOf(Inside(typ, {"in", "out", "field"}))

(* What a specification can say of a global variable: it indexes its       *)
(* arrays, unless their elements are arrays, and selects the fields of its *)
(* structures; to from_dwarf_type a pointer is a number.                   *)
Specified(typ) == Inside(typ, {"out", "field"})

IndexUses(typ) ==
  UNION {NonZero(p.typ.bytes) :
           p \in {q \in Specified(typ) : q.as = "out" /\ q.typ.kind # "array"}}

FieldUses(typ) == FieldsOf(Specified(typ))

(***************************************************************************)
(* Every macro that the text of a specification can call on a global       *)
(* variable is defined in the model.                                       *)
(***************************************************************************)
MacrosAreDefined ==
  header.printed =>
    \A k \in 1..Len(globalVars) :
      /\ IndexUses(globalVars[k].typ) \subseteq UNION {IndexMacros(t) : t \in header.types}
      /\ FieldUses(globalVars[k].typ) \subseteq UNION {FieldMacros(t) : t \in header.types}

-----------------------------------------------------------------------------
(* The parts of every entry, and the entries that are read as types: those *)
(* at the first level that have what their kind needs.                     *)
Asked == [i \in 1..Len(units[U]) |-> Queries(i)]
Whole == {i \in FirstLevel(U) : Complete(i)}

(* The entries that cannot be read as a type: a member that cannot be read *)
(* is left out, but the error of any other part is one of the whole.       *)
Unreadable ==
  LET asked == Asked
      whole == Whole
      failing[n \in Nat] ==
        IF n = 0 THEN {}
        ELSE LET inner == failing[n - 1]
             IN  {i \in DOMAIN asked :
                    \/ i \notin whole
                    \/ ~ Filters(i) /\ \E k \in 1..Len(asked[i]) : asked[i][k] \in inner}
  IN  failing[Len(units[U])]

(* The types of the entries that are complete and made of such entries,    *)
(* but not of themselves: what fails or recurs leaves a stub in the memo,  *)
(* which a second use takes for a type.                                    *)
Declared ==
  LET asked == Asked
      whole == Whole
      known[n \in Nat] ==
        IF n = 0 THEN <<>>
        ELSE LET inner == known[n - 1]
             IN  [i \in {j \in whole : \A k \in 1..Len(asked[j]) : asked[j][k] \in DOMAIN inner} |->
                   TypeDefn(i, [k \in 1..Len(asked[i]) |-> inner[asked[i][k]]])]
  IN  known[Len(units[U])]

(***************************************************************************)
(* What the memo shares between the uses of a type is the type: every part *)
(* read of a function or a variable is the type that the entries declare,  *)
(* if none of them is recursive or unreadable; and it is an error exactly  *)
(* if the entries declare no readable type.                                *)
(***************************************************************************)
PartsAreDeclared ==
  AtOwner /\ Top.parts # <<>> =>
    LET part == Top.parts[Len(Top.parts)]
        t    == Queries(Top.die)[Len(Top.parts)]
        declared == Declared
    IN  /\ part = Err <=> t \in Unreadable
        /\ t \in DOMAIN declared => part = declared[t]

(* The formal parameters of a function, in order.                          *)
ParameterDies(u, i) == Tagged(u, i, "formal")

(***************************************************************************)
(* A procedure requires of its k-th formal parameter that it is register   *)
(* a(k - 1), if no parameter before it was dropped: one without a readable *)
(* type (void *, const) moves those after it to the register of another.   *)
(***************************************************************************)
ArgumentsAtTheirRegisters ==
  ReadingTypes /\ AtOwner /\ Die(Owner).tag = "subprogram" /\ ~ Asks =>
    LET ids == ParameterDies(U, Owner)
        unreadable == Unreadable
        ok(k) == Named(ids[k]) /\ Typed(ids[k]) /\ Die(ids[k]).type \notin unreadable
        before(k) == {j \in 1..k : ok(j)}
    IN  \A k \in 1..Len(ids) :
          (\E n \in 1..Len(Arguments) : n = k /\ Arguments[n].name = Die(ids[k]).name)
            <=> before(k) = 1..k
=============================================================================
