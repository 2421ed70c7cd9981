----------------------------- MODULE DwarfTree -----------------------------
(***************************************************************************)
(* process_dwarf_file_object and entries_to_dwarf_object: the flat walk    *)
(* over the debugging entries of each compilation unit is turned into a    *)
(* tree.                                                                   *)
(*                                                                         *)
(* A unit is the sequence of its entries in the order of the section; the  *)
(* offset of an entry is its place in that order.  gimli reports the depth *)
(* of an entry relative to the one before it.  The tree under construction *)
(* is in pieces: a node taken out of the children of its predecessor is    *)
(* owned by the stack or by the variable parent until it is put back.      *)
(***************************************************************************)
EXTENDS Integers, Sequences

CONSTANT Programs      \* sequences of units; an entry has at least a depth

VARIABLES
  units,               \* the compilation units of the binaries
  trees,               \* dwarf_objects: the trees of the units read so far
  pos,                 \* the last entry read
  parent,              \* the node that the entry was added to
  stack,               \* dwarf_object_stack
  childOf              \* the node whose child_tags hold an entry

treeVars == <<units, trees, pos, parent, stack, childOf>>

Dummy   == 0           \* the node above the root
Nowhere == -1          \* not read yet, or not in the children of any node

(* The root is alone at depth 0, and an entry is at most one level below   *)
(* the one before it.                                                      *)
IsUnit(unit) ==
  /\ Len(unit) \in Nat \ {0}
  /\ \A i \in 1..Len(unit) : unit[i].depth \in Nat
  /\ \A i \in 1..Len(unit) : unit[i].depth = 0 <=> i = 1
  /\ \A i \in 2..Len(unit) : unit[i].depth <= unit[i - 1].depth + 1

ASSUME ProgramsAssumption ==
  \A p \in Programs : Len(p) \in Nat /\ \A k \in 1..Len(p) : IsUnit(p[k])

Reading == Len(trees) < Len(units)
Unit    == units[Len(trees) + 1]
Offsets == 1..Len(Unit)
Delta(i) == Unit[i].depth - Unit[i - 1].depth

-----------------------------------------------------------------------------
(* A definition that repeats the name of the next one with a suffix is a   *)
(* mutated form of it; no action uses it.                                  *)

(* The root is read and added to the dummy.                                *)
StartUnit(unit) == [i \in 1..Len(unit) |-> IF i = 1 THEN Dummy ELSE Nowhere]

TreeInit ==
  /\ units \in Programs
  /\ trees = <<>>
  /\ pos = 1
  /\ parent = Dummy
  /\ stack = <<>>
  /\ childOf = IF units = <<>> THEN <<>> ELSE StartUnit(units[1])

Children(node) == {c \in Offsets : childOf[c] = node}

LastChild == CHOOSE c \in Children(parent) : \A d \in Children(parent) : d <= c

(* The nodes taken out of the tree, outermost first.                       *)
Chain == Append(stack, parent)

(* n predecessors are popped, each after the node below it is put back.    *)
RejoinedLast(n) ==
  [i \in Offsets |-> IF n > 0 /\ i = parent THEN stack[Len(stack)] ELSE childOf[i]]
Rejoined(n) ==
  [i \in Offsets |->
    IF \E j \in Len(stack) - n + 1..Len(stack) : Chain[j + 1] = i
      THEN stack[CHOOSE j \in Len(stack) - n + 1..Len(stack) : Chain[j + 1] = i]
      ELSE childOf[i]]

Popped(n) == SubSeq(stack, 1, Len(stack) - n)

(* The next entry is one level deeper: the last child becomes the parent.  *)
Descend ==
  /\ Reading /\ pos < Len(Unit)
  /\ Delta(pos + 1) > 0
  /\ Children(parent) # {}
  /\ parent' = LastChild
  /\ stack' = Append(stack, parent)
  /\ childOf' = [childOf EXCEPT ![LastChild] = Nowhere, ![pos + 1] = LastChild]
  /\ pos' = pos + 1
  /\ UNCHANGED <<units, trees>>

(* It is at the same level or above: its parent is popped from the stack.  *)
Ascend ==
  /\ Reading /\ pos < Len(Unit)
  /\ Delta(pos + 1) <= 0
  /\ LET n == - Delta(pos + 1) IN
       /\ n <= Len(stack)
       /\ parent' = Chain[Len(Chain) - n]
       /\ stack' = Popped(n)
       /\ childOf' = [Rejoined(n) EXCEPT ![pos + 1] = Chain[Len(Chain) - n]]
  /\ pos' = pos + 1
  /\ UNCHANGED <<units, trees>>

(* All is put back but the node on top of the dummy, which is the tree; of *)
(* a unit without entries below its root it is the dummy itself.           *)
Left == IF Len(stack) > 1 THEN Len(stack) - 1 ELSE 0

EndUnit ==
  /\ Reading /\ pos = Len(Unit)
  /\ trees' = Append(trees, [root |-> Chain[Len(Chain) - Left], childOf |-> Rejoined(Left)])
  /\ pos' = 1
  /\ parent' = Dummy
  /\ stack' = <<>>
  /\ childOf' = IF Len(trees') < Len(units) THEN StartUnit(units[Len(trees') + 1]) ELSE <<>>
  /\ UNCHANGED units

TreeNext == Descend \/ Ascend \/ EndUnit

TreeSpec == TreeInit /\ [][TreeNext]_treeVars

-----------------------------------------------------------------------------
(* The entry that encloses another one in the section.                     *)
Encloses(unit, p, i) ==
  /\ p \in 1..i - 1
  /\ unit[p].depth = unit[i].depth - 1
  /\ \A j \in p + 1..i - 1 : unit[j].depth >= unit[i].depth

(***************************************************************************)
(* Whatever the entries are nested like, every tree read has each of them  *)
(* among the children of the entry that encloses it: none is lost with a   *)
(* node that was taken out and not put back.                               *)
(***************************************************************************)
TreesAreUnits ==
  \A k \in 1..Len(trees) :
    /\ trees[k].root = IF Len(units[k]) = 1 THEN Dummy ELSE 1
    /\ \A i \in 2..Len(units[k]) : Encloses(units[k], trees[k].childOf[i], i)

(***************************************************************************)
(* Neither last_child nor the pop of the stack ever unwraps None.          *)
(***************************************************************************)
NeverUnwrapsNone ==
  Reading /\ pos < Len(Unit) =>
    IF Delta(pos + 1) > 0 THEN Children(parent) # {} ELSE - Delta(pos + 1) <= Len(stack)
=============================================================================
