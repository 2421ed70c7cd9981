----------------------------- MODULE DwarfTypes ----------------------------
(***************************************************************************)
(* CDwarfInterface and DwarfReader::new: function signatures and global    *)
(* variables are read from the trees of the units, their types by the      *)
(* recursion _get_type.                                                    *)
(*                                                                         *)
(* A stack of frames stands for the recursion: at the bottom the function  *)
(* or variable being read (the owner), above it the types being read, each *)
(* with the results of its recursive calls so far.  The memo typ_map is    *)
(* new for every call of get_type and holds a stub of 0 bytes for a type   *)
(* that is being read, so that a cyclic type ends the recursion.           *)
(***************************************************************************)
EXTENDS DwarfTree, SequencesExt

CONSTANT Xlen          \* bytes of a pointer: the attribute pointer_size

VARIABLES
  owners,              \* the functions and variables of the trees
  at,                  \* how many of them have been read, or -1
  frames,              \* the recursion
  memo,                \* typ_map of the get_type call in progress
  funcSigs,            \* func_sigs, a map from names
  globalVars           \* global_vars

typeVars == <<owners, at, frames, memo, funcSigs, globalVars>>
vars == <<treeVars, typeVars>>

None   == -1           \* an attribute that an entry does not have
NoName == ""

Primitive(bytes)      == [kind |-> "primitive", bytes |-> bytes]
Pointer(value, bytes) == [kind |-> "pointer", value |-> value, bytes |-> bytes]
Array(in, out)        == [kind |-> "array", in |-> in, out |-> out, bytes |-> Xlen]
Struct(id, fields, bytes) ==
  [kind |-> "struct", id |-> id, fields |-> fields, bytes |-> bytes]

Stub   == Primitive(0)
Err    == [kind |-> "error"]

-----------------------------------------------------------------------------
(* A definition that repeats the name of the next one with a suffix is a   *)
(* mutated form of it; no action uses it.                                  *)

(* HashMap::insert                                                         *)
Insert(map, key, value) ==
  [k \in DOMAIN map \cup {key} |-> IF k = key THEN value ELSE map[k]]

Below(u, node) == {i \in 1..Len(units[u]) : trees[u].childOf[i] = node}
FirstLevel(u)  == Below(u, trees[u].root)

(* The offsets of a set in order, as the BTreeMap of child_tags lists them. *)
Place(S, i) == Cardinality({j \in S : j <= i})
InOrder(S)  == [k \in 1..Cardinality(S) |-> CHOOSE i \in S : Place(S, i) = k]

Tagged(u, node, tag) ==
  InOrder({i \in Below(u, node) : units[u][i].tag = tag})

(* All the functions of all units, then all the variables.                 *)
OwnersOf(tag) ==
  FlattenSeq([u \in 1..Len(units) |->
    LET ids == Tagged(u, trees[u].root, tag)
    IN  [k \in 1..Len(ids) |-> [unit |-> u, die |-> ids[k]]]])

ReadingTypes == at >= 0 /\ at < Len(owners)
U        == owners[at + 1].unit
Die(i)   == units[U][i]
Named(i) == Die(i).name # NoName
Typed(i) == Die(i).type # None
Sized(i) == Die(i).bytes # None

(* Formal arguments and members are skipped when they have no name or no   *)
(* type; this and any other error in them is filtered out.                 *)
Readable(node, tag) ==
  InOrder({i \in Below(U, node) : Die(i).tag = tag /\ Named(i) /\ Typed(i)})
Formals(i) == Readable(i, "formal")
Members(i) == Readable(i, "member")
TypesOf(ids) == [k \in 1..Len(ids) |-> Die(ids[k]).type]

Subrange(i) == Tagged(U, i, "subrange")

(* The types that an entry asks for, in order, as far as it gets.          *)
Queries(i) ==
  CASE Die(i).tag = "subprogram" -> <<Die(i).type>> \o TypesOf(Formals(i))
    [] Die(i).tag \in {"variable", "typedef", "pointer"} /\ Typed(i) -> <<Die(i).type>>
    [] Die(i).tag = "array" /\ Typed(i) ->
         <<Die(i).type>> \o
           (IF Subrange(i) # <<>> /\ Typed(Subrange(i)[1])
              THEN <<Die(Subrange(i)[1]).type>> ELSE <<>>)
    [] Die(i).tag = "struct" /\ Named(i) /\ Sized(i) -> TypesOf(Members(i))
    [] OTHER -> <<>>

(* The attributes that the entry of a type must have.                      *)
Complete(i) ==
  CASE Die(i).tag = "base"    -> Sized(i)
    [] Die(i).tag = "typedef" -> Typed(i)
    [] Die(i).tag = "pointer" -> Typed(i) /\ Sized(i)
    [] Die(i).tag = "array"   -> Len(Queries(i)) = 2
    [] Die(i).tag = "struct"  -> Named(i) /\ Sized(i)
    [] OTHER -> FALSE

Fields(i, parts) ==
  LET kept == {k \in 1..Len(parts) : parts[k] # Err /\ Die(Members(i)[k]).loc # None}
  IN  [n \in {Die(Members(i)[k]).name : k \in kept} |->
         LET k == CHOOSE j \in kept : Die(Members(i)[j]).name = n
         IN  [typ |-> parts[k], loc |-> Die(Members(i)[k]).loc]]

TypeDefn(i, parts) ==
  CASE Die(i).tag = "typedef" -> parts[1]
    [] Die(i).tag = "base"    -> Primitive(Die(i).bytes)
    [] Die(i).tag = "pointer" -> Pointer(parts[1], Die(i).bytes)
    [] Die(i).tag = "array"   -> Array(parts[2], parts[1])
    [] Die(i).tag = "struct"  -> Struct(Die(i).name, Fields(i, parts), Die(i).bytes)

-----------------------------------------------------------------------------
TypesInit ==
  /\ owners = <<>>
  /\ at = -1
  /\ frames = <<>>
  /\ memo = <<>>
  /\ funcSigs = <<>>
  /\ globalVars = <<>>

Init == TreeInit /\ TypesInit

ReadTree == TreeNext /\ UNCHANGED typeVars

(* All trees are read before the first type.                               *)
StartTypes ==
  /\ ~ Reading /\ at = -1
  /\ owners' = OwnersOf("subprogram") \o OwnersOf("variable")
  /\ at' = 0
  /\ UNCHANGED <<treeVars, frames, memo, funcSigs, globalVars>>

Owner == owners[at + 1].die

(* dobj_to_func_sig and dobj_to_var give up on an entry without a name or  *)
(* a type: a function that returns nothing has no signature.               *)
SkipOwner ==
  /\ ReadingTypes /\ frames = <<>>
  /\ ~ (Named(Owner) /\ Typed(Owner))
  /\ at' = at + 1
  /\ UNCHANGED <<treeVars, owners, frames, memo, funcSigs, globalVars>>

StartOwner ==
  /\ ReadingTypes /\ frames = <<>>
  /\ Named(Owner) /\ Typed(Owner)
  /\ frames' = <<[die |-> Owner, parts |-> <<>>]>>
  /\ UNCHANGED <<treeVars, owners, at, memo, funcSigs, globalVars>>

Top == frames[Len(frames)]
AtOwner == Len(frames) = 1
Rest == SubSeq(frames, 1, Len(frames) - 1)

Deliver(stk, result) == [stk EXCEPT ![Len(stk)].parts = Append(@, result)]

Filters(i) == Die(i).tag \in {"subprogram", "struct"}
Asks == Len(Top.parts) < Len(Queries(Top.die))
Failed ==
  \/ \E k \in 1..Len(Top.parts) : Top.parts[k] = Err /\ ~ Filters(Top.die)
  \/ ~ AtOwner /\ Top.die \notin FirstLevel(U)
  \/ ~ AtOwner /\ ~ Asks /\ ~ Complete(Top.die)

Query == Queries(Top.die)[Len(Top.parts) + 1]

Memo == IF AtOwner THEN <<>> ELSE memo

(* _get_type finds the type in the memo.                                   *)
Recall ==
  /\ ReadingTypes /\ frames # <<>>
  /\ ~ Failed /\ Asks
  /\ Query \in DOMAIN Memo
  /\ frames' = Deliver(frames, Memo[Query])
  /\ UNCHANGED <<treeVars, owners, at, memo, funcSigs, globalVars>>

(* Or it puts a stub there and reads it.                                   *)
StubbedNever(m) == m
Stubbed(m) == Insert(m, Query, Stub)

Enter ==
  /\ ReadingTypes /\ frames # <<>>
  /\ ~ Failed /\ Asks
  /\ Query \notin DOMAIN Memo
  /\ memo' = Stubbed(Memo)
  /\ frames' = Append(frames, [die |-> Query, parts |-> <<>>])
  /\ UNCHANGED <<treeVars, owners, at, funcSigs, globalVars>>

(* A missing attribute, an unknown tag, an entry that is not a child of    *)
(* the unit, or the error of a recursive call: the stub stays in the memo. *)
Fail ==
  /\ ReadingTypes /\ Len(frames) > 1
  /\ Failed
  /\ frames' = Deliver(Rest, Err)
  /\ UNCHANGED <<treeVars, owners, at, memo, funcSigs, globalVars>>

MemoStays(typ) == memo
MemoWith(typ) == Insert(memo, Top.die, typ)

FinishType ==
  /\ ReadingTypes /\ Len(frames) > 1
  /\ ~ Failed /\ ~ Asks
  /\ LET typ == TypeDefn(Top.die, Top.parts) IN
       /\ memo' = MemoWith(typ)
       /\ frames' = Deliver(Rest, typ)
  /\ UNCHANGED <<treeVars, owners, at, funcSigs, globalVars>>

ArgumentsByPreceding ==
  LET ids == Formals(Owner)
      read == InOrder({k \in 1..Len(ids) : Top.parts[k] # Err})
  IN  [j \in 1..Len(read) |->
        [name |-> Die(ids[read[j]]).name, typ |-> Top.parts[read[j] + 1]]]

(* The arguments whose type could be read, at the registers a0, a1, ..     *)
Arguments ==
  LET ids == Formals(Owner)
      read == InOrder({k \in 1..Len(ids) : Top.parts[k + 1] # Err})
  IN  [j \in 1..Len(read) |->
        [name |-> Die(ids[read[j]]).name, typ |-> Top.parts[read[j] + 1]]]

(* The signatures are collected in a map: the last one of a name stays.    *)
FinishFunction ==
  /\ ReadingTypes /\ AtOwner
  /\ Die(Owner).tag = "subprogram" /\ ~ Asks
  /\ LET sig == [args |-> Arguments, ret |-> Top.parts[1]] IN
       funcSigs' = Insert(funcSigs, Die(Owner).name, sig)
  /\ at' = at + 1 /\ frames' = <<>>
  /\ UNCHANGED <<treeVars, owners, memo, globalVars>>

(* A variable without address (extern) is dropped as well.                 *)
HasVariable == ~ Failed /\ Die(Owner).loc # None

FinishVariable ==
  /\ ReadingTypes /\ AtOwner
  /\ Die(Owner).tag = "variable" /\ (Failed \/ ~ Asks)
  /\ globalVars' =
       IF HasVariable
         THEN Append(globalVars, [name |-> Die(Owner).name, typ |-> Top.parts[1],
                                  addr |-> Die(Owner).loc])
         ELSE globalVars
  /\ at' = at + 1 /\ frames' = <<>>
  /\ UNCHANGED <<treeVars, owners, memo, funcSigs>>

TypesNext ==
  \/ StartTypes \/ SkipOwner \/ StartOwner
  \/ Recall \/ Enter \/ Fail \/ FinishType
  \/ FinishFunction \/ FinishVariable

ReadingDone == at = Len(owners)

ReadNext == ReadTree \/ TypesNext

ReadSpec == Init /\ [][ReadNext]_vars

-----------------------------------------------------------------------------
(***************************************************************************)
(* The stub in the memo ends the recursion on a cyclic type: no type is    *)
(* ever read inside itself, so _get_type is never deeper than the number   *)
(* of entries.                                                             *)
(***************************************************************************)
NoReentry ==
  \A j, k \in 2..Len(frames) : frames[j].die = frames[k].die => j = k
=============================================================================
