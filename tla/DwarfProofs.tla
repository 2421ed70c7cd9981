----------------------------- MODULE DwarfProofs ----------------------------
(***************************************************************************)
(* The tree of a unit is its nesting, however deep the entries are nested  *)
(* and wherever the depth falls, and no node is missing when the walk      *)
(* takes one from the stack or from the children of its parent.            *)
(*                                                                         *)
(* Chain is the path from the dummy to the parent of the last entry: the   *)
(* node at place j has depth j - 2, and every entry after it is deeper.    *)
(* Its nodes are out of the tree; all the other entries read are among the *)
(* children of the entry that encloses them.                               *)
(*                                                                         *)
(* No type is read inside itself: the types on the stack of the recursion  *)
(* have an entry in the memo.                                              *)
(*                                                                         *)
(* What is read is what the entries declare, the arguments of a function   *)
(* are numbered as its parameters as long as none of them is dropped, and  *)
(* the types that are printed define the macros that specifications use.   *)
(***************************************************************************)
EXTENDS HeaderTypes, SequenceTheorems, FiniteSetTheorems, WellFoundedInduction, TLAPS

OnChain == {Chain[j] : j \in 2..Len(Chain)}

TreeOf(unit, tree) ==
  /\ tree.root = IF Len(unit) = 1 THEN Dummy ELSE 1
  /\ \A i \in 2..Len(unit) : Encloses(unit, tree.childOf[i], i)

TypesInv ==
  /\ units \in Programs
  /\ Len(units) \in Nat
  /\ \A k \in 1..Len(units) : IsUnit(units[k])
  /\ trees \in Seq([root : Int, childOf : UNION {[1..n -> Int] : n \in Nat}])
  /\ Len(trees) <= Len(units)

WalkTypes ==
  /\ pos \in Offsets
  /\ parent \in Nat
  /\ stack \in Seq(Nat)
  /\ childOf \in [Offsets -> Int]
  /\ Len(stack) = Unit[pos].depth

ChainInv ==
  /\ Chain[1] = Dummy
  /\ \A j \in 2..Len(Chain) :
       /\ Chain[j] \in 1..pos - 1
       /\ Unit[Chain[j]].depth = j - 2
       /\ \A i \in Chain[j] + 1..pos : Unit[i].depth >= j - 1

Attached(i) == IF i = 1 THEN childOf[i] = Dummy ELSE Encloses(Unit, childOf[i], i)

PieceInv ==
  /\ childOf[pos] = parent
  /\ \A i \in 1..pos : IF i \in OnChain THEN childOf[i] = Nowhere ELSE Attached(i)
  /\ \A i \in pos + 1..Len(Unit) : childOf[i] = Nowhere

IInv ==
  /\ TypesInv
  /\ \A k \in 1..Len(trees) : TreeOf(units[k], trees[k])
  /\ Reading => WalkTypes /\ ChainInv /\ PieceInv

-----------------------------------------------------------------------------
(* What the invariant says of the chain.                                   *)
LEMMA ChainIsStackAndParent ==
  ASSUME stack \in Seq(Nat), parent \in Nat
  PROVE  /\ Chain \in Seq(Nat)
         /\ Len(Chain) = Len(stack) + 1
         /\ Chain[Len(Chain)] = parent
         /\ \A j \in 1..Len(stack) : Chain[j] = stack[j]
BY DEF Chain

LEMMA UnitIsUnit ==
  ASSUME TypesInv, Reading
  PROVE  /\ IsUnit(Unit)
         /\ Len(trees) \in Nat /\ Len(trees) + 1 \in 1..Len(units)
         /\ Len(Unit) \in Nat \ {0}
<1>1. Len(trees) \in Nat /\ Len(trees) + 1 \in 1..Len(units)
  BY DEF TypesInv, Reading
<1>. QED  BY <1>1 DEF TypesInv, Unit, IsUnit

(* The nodes of the chain are different entries.                           *)
LEMMA ChainIsInjective ==
  ASSUME WalkTypes, ChainInv
  PROVE  \A j, k \in 2..Len(Chain) : Chain[j] = Chain[k] => j = k
<1>1. Len(Chain) \in Nat
  BY ChainIsStackAndParent DEF WalkTypes
<1>. SUFFICES ASSUME NEW j \in 2..Len(Chain), NEW k \in 2..Len(Chain), Chain[j] = Chain[k]
              PROVE  j = k
  OBVIOUS
<1>2. Unit[Chain[j]].depth = j - 2 /\ Unit[Chain[k]].depth = k - 2
  BY DEF ChainInv
<1>. QED  BY <1>1, <1>2

(* The last entry read is the last child of its parent.                    *)
LEMMA LastChildIsLastRead ==
  ASSUME TypesInv, Reading, WalkTypes, PieceInv
  PROVE  Children(parent) # {} /\ LastChild = pos
<1>1. pos \in Children(parent)
  BY DEF WalkTypes, PieceInv, Children
<1>2. ASSUME NEW c \in Children(parent)
      PROVE  c \in Int /\ c <= pos
  BY <1>2, UnitIsUnit DEF WalkTypes, PieceInv, Children, Nowhere, Offsets
<1>3. pos \in Int
  BY DEF WalkTypes, Offsets
<1>4. /\ LastChild \in Children(parent)
      /\ \A d \in Children(parent) : d <= LastChild
  BY <1>1, <1>2, Zenon DEF LastChild
<1>. QED  BY <1>1, <1>2, <1>3, <1>4

(* A unit whose root has just been read.                                   *)
LEMMA StartInv ==
  /\ TypesInv /\ Reading
  /\ pos = 1 /\ parent = Dummy /\ stack = <<>> /\ childOf = StartUnit(Unit)
  => WalkTypes /\ ChainInv /\ PieceInv
<1>. SUFFICES ASSUME TypesInv, Reading, pos = 1, parent = Dummy, stack = <<>>,
                     childOf = StartUnit(Unit)
              PROVE  WalkTypes /\ ChainInv /\ PieceInv
  OBVIOUS
<1>1. Len(Unit) \in Nat \ {0} /\ Unit[1].depth = 0
  BY UnitIsUnit DEF IsUnit
<1>2. WalkTypes
  BY <1>1 DEF WalkTypes, Offsets, Dummy, Nowhere, StartUnit
<1>3. Len(Chain) = 1 /\ Chain[1] = Dummy
  <2>1. Len(stack) = 0 /\ stack \in Seq(Nat) /\ parent \in Nat
    BY DEF Dummy
  <2>2. Len(Chain) = 1 /\ Chain[Len(Chain)] = parent
    BY <2>1, ChainIsStackAndParent
  <2>. QED  BY <2>2
<1>4. ChainInv
  BY <1>3 DEF ChainInv
<1>5. PieceInv
  BY <1>1, <1>3 DEF PieceInv, OnChain, Attached, StartUnit, Dummy, Nowhere
<1>. QED  BY <1>2, <1>4, <1>5

-----------------------------------------------------------------------------
LEMMA InitInv == TreeInit => IInv
<1>. SUFFICES ASSUME TreeInit PROVE IInv
  OBVIOUS
<1>1. TypesInv
  <2>1. Len(units) \in Nat /\ \A k \in 1..Len(units) : IsUnit(units[k])
    BY ProgramsAssumption DEF TreeInit
  <2>. QED  BY <2>1 DEF TreeInit, TypesInv
<1>2. ASSUME Reading PROVE childOf = StartUnit(Unit)
  BY <1>2 DEF TreeInit, Reading, Unit
<1>3. Reading => WalkTypes /\ ChainInv /\ PieceInv
  BY <1>1, <1>2, StartInv DEF TreeInit
<1>. QED  BY <1>1, <1>3 DEF TreeInit, IInv

LEMMA DescendInv == IInv /\ Descend => IInv'
<1>. SUFFICES ASSUME IInv, Descend PROVE IInv'
  OBVIOUS
<1>1. /\ TypesInv /\ Reading /\ WalkTypes /\ ChainInv /\ PieceInv
      /\ pos < Len(Unit) /\ pos \in 1..Len(Unit) /\ Len(Unit) \in Nat
  BY UnitIsUnit DEF IInv, Descend, WalkTypes, Offsets
<1>2. /\ parent' = pos /\ stack' = Append(stack, parent) /\ pos' = pos + 1
      /\ childOf' = [childOf EXCEPT ![pos] = Nowhere, ![pos + 1] = pos]
      /\ UNCHANGED <<units, trees>>
  BY <1>1, LastChildIsLastRead DEF Descend
<1>3. Unit' = Unit /\ Offsets' = Offsets /\ Reading' /\ TypesInv'
  BY <1>1, <1>2 DEF Unit, Offsets, Reading, TypesInv
<1>4. Unit[pos + 1].depth = Unit[pos].depth + 1 /\ Unit[pos].depth \in Nat
  <2>1. IsUnit(Unit) /\ Unit[pos + 1].depth - Unit[pos].depth > 0
    BY <1>1, UnitIsUnit DEF Descend, Delta
  <2>. QED  BY <1>1, <2>1 DEF IsUnit
<1>5. WalkTypes'
  <2>1. stack' \in Seq(Nat) /\ Len(stack') = Len(stack) + 1 /\ Len(stack) = Unit[pos].depth
    <3>1. stack \in Seq(Nat) /\ parent \in Nat /\ Len(stack) = Unit[pos].depth
      BY <1>1 DEF WalkTypes
    <3>. QED  BY <1>2, <3>1
  <2>2. childOf' \in [Offsets -> Int]
    <3>1. childOf \in [Offsets -> Int] /\ Nowhere \in Int /\ pos \in Int
      BY <1>1 DEF WalkTypes, Nowhere
    <3>. QED  BY <1>2, <3>1
  <2>3. pos' \in Offsets /\ parent' \in Nat
    BY <1>1, <1>2 DEF Offsets
  <2>. QED  BY <2>1, <2>2, <2>3, <1>2, <1>3, <1>4 DEF WalkTypes
<1>6. /\ Len(Chain) \in Nat /\ Len(Chain) = Unit[pos].depth + 1
      /\ Len(Chain') = Len(Chain) + 1
      /\ Chain'[Len(Chain) + 1] = pos
      /\ \A j \in 1..Len(Chain) : Chain'[j] = Chain[j]
  <2>1. Chain' = Append(Chain, pos)
    BY <1>2 DEF Chain
  <2>2. Chain \in Seq(Nat) /\ Len(Chain) = Unit[pos].depth + 1
    BY <1>1, ChainIsStackAndParent DEF WalkTypes
  <2>. QED  BY <2>1, <2>2, <1>1
<1>7. ChainInv'
  <2>1. Chain'[1] = Dummy
    <3>1. 1 \in 1..Len(Chain) /\ Chain[1] = Dummy
      BY <1>1, <1>4, <1>6 DEF ChainInv
    <3>. QED  BY <3>1, <1>6
  <2>2. ASSUME NEW j \in 2..Len(Chain)
        PROVE  /\ Chain'[j] \in 1..pos
               /\ Unit[Chain'[j]].depth = j - 2
               /\ \A i \in Chain'[j] + 1..pos + 1 : Unit[i].depth >= j - 1
    <3>1. j \in 1..Len(Chain) /\ Chain'[j] = Chain[j]
      BY <1>6
    <3>2. /\ Chain[j] \in 1..pos - 1 /\ Unit[Chain[j]].depth = j - 2
          /\ \A i \in Chain[j] + 1..pos : Unit[i].depth >= j - 1
      BY <1>1 DEF ChainInv
    <3>3. Unit[pos + 1].depth >= j - 1
      BY <1>4, <1>6
    <3>4. /\ Chain[j] \in 1..pos
          /\ \A i \in Chain[j] + 1..pos + 1 : i \in Chain[j] + 1..pos \/ i = pos + 1
      BY <3>2, <1>1
    <3>. QED  BY <3>1, <3>2, <3>3, <3>4
  <2>3. Unit[pos].depth = Len(Chain) - 1 /\ Unit[pos + 1].depth = Len(Chain)
    BY <1>4, <1>6
  <2>4. ASSUME NEW j \in 2..Len(Chain')
        PROVE  /\ Chain'[j] \in 1..pos
               /\ Unit[Chain'[j]].depth = j - 2
               /\ \A i \in Chain'[j] + 1..pos + 1 : Unit[i].depth >= j - 1
    <3>1. CASE j \in 2..Len(Chain)
      BY <3>1, <2>2
    <3>2. CASE j = Len(Chain) + 1
      <4>1. Chain'[j] = pos /\ \A i \in pos + 1..pos + 1 : i = pos + 1
        BY <3>2, <1>1, <1>6
      <4>. QED  BY <4>1, <3>2, <2>3, <1>1, <1>6
    <3>. QED  BY <3>1, <3>2, <1>6
  <2>. QED  BY <2>1, <2>4, <1>1, <1>2, <1>3 DEF ChainInv
<1>8. PieceInv'
  <2>0. OnChain' = OnChain \cup {pos}
    <3>0. Len(Chain) \in Nat \ {0} /\ Len(Chain') = Len(Chain) + 1
      BY <1>4, <1>6
    <3>1. 2..Len(Chain') = 2..Len(Chain) \cup {Len(Chain) + 1}
      BY <3>0
    <3>2. 2..Len(Chain) \subseteq 1..Len(Chain)
      BY <1>6
    <3>3. \A j \in 2..Len(Chain) : Chain'[j] = Chain[j]
      BY <3>2, <1>6
    <3>4. OnChain' = {Chain'[j] : j \in 2..Len(Chain')}
      BY DEF OnChain
    <3>5. ASSUME NEW x PROVE x \in OnChain' <=> x \in OnChain \/ x = pos
      BY <3>1, <3>3, <3>4, <1>6 DEF OnChain
    <3>. QED  BY <3>5
  <2>1. pos + 1 \notin OnChain' /\ pos \in OnChain' /\ pos \notin OnChain
    <3>1. \A x \in OnChain : x \in 1..pos - 1
      BY <1>1 DEF OnChain, ChainInv
    <3>. QED  BY <3>1, <2>0, <1>1
  <2>2. ASSUME NEW i \in 1..pos - 1 PROVE i \in OnChain' <=> i \in OnChain
    BY <2>0, <1>1
  <2>3. childOf'[pos] = Nowhere /\ childOf'[pos + 1] = pos
    BY <1>1, <1>2 DEF WalkTypes, Offsets
  <2>4. ASSUME NEW i \in Offsets, i # pos, i # pos + 1 PROVE childOf'[i] = childOf[i]
    BY <1>1, <1>2, <2>4 DEF WalkTypes
  <2>5. Encloses(Unit, pos, pos + 1)
    BY <1>1, <1>4 DEF Encloses
  <2>6. ASSUME NEW i \in 1..pos + 1
        PROVE  IF i \in OnChain' THEN childOf'[i] = Nowhere ELSE Attached(i)'
    <3>1. CASE i \in 1..pos - 1
      <4>1. IF i \in OnChain THEN childOf[i] = Nowhere ELSE Attached(i)
        BY <1>1, <3>1 DEF PieceInv
      <4>2. childOf'[i] = childOf[i]
        BY <1>1, <3>1, <2>4 DEF Offsets
      <4>. QED  BY <4>1, <4>2, <2>2, <3>1, <1>3 DEF Attached
    <3>2. CASE i = pos
      BY <3>2, <2>1, <2>3
    <3>3. CASE i = pos + 1
      BY <3>3, <2>1, <2>3, <2>5, <1>1, <1>3 DEF Attached
    <3>. QED  BY <3>1, <3>2, <3>3, <1>1
  <2>7. ASSUME NEW i \in pos + 2..Len(Unit) PROVE childOf'[i] = Nowhere
    BY <1>1, <2>4, <2>7 DEF PieceInv, Offsets
  <2>8. /\ childOf'[pos'] = parent' /\ pos' = pos + 1
        /\ pos' + 1 = pos + 2 /\ Len(Unit') = Len(Unit)
    BY <2>3, <1>1, <1>2, <1>3
  <2>. QED  BY <2>6, <2>7, <2>8 DEF PieceInv
<1>. QED  BY <1>2, <1>3, <1>5, <1>7, <1>8 DEF IInv

-----------------------------------------------------------------------------
(* n nodes of the chain are put back below the ones before them.           *)
LEMMA RejoinedPuts ==
  ASSUME TypesInv, Reading, WalkTypes, ChainInv, PieceInv,
         NEW n \in 0..Len(stack) - 1
  PROVE  /\ Rejoined(n) \in [Offsets -> Int]
         /\ \A i \in 1..pos :
              IF \E j \in 2..Len(Chain) - n : Chain[j] = i
                THEN Rejoined(n)[i] = Nowhere
                ELSE IF i = 1 THEN Rejoined(n)[i] = Dummy ELSE Encloses(Unit, Rejoined(n)[i], i)
         /\ \A i \in pos + 1..Len(Unit) : Rejoined(n)[i] = Nowhere
<1>. DEFINE Back(i) == {j \in Len(stack) - n + 1..Len(stack) : Chain[j + 1] = i}
<1>1. /\ Len(stack) \in Nat /\ Len(Chain) = Len(stack) + 1
      /\ \A j \in 1..Len(stack) : Chain[j] = stack[j] /\ Chain[j] \in Nat
      /\ pos \in 1..Len(Unit) /\ Len(Unit) \in Nat
  <2>1. stack \in Seq(Nat) /\ parent \in Nat /\ pos \in 1..Len(Unit) /\ Len(Unit) \in Nat
    BY UnitIsUnit DEF WalkTypes, Offsets
  <2>2. \A j \in 1..Len(stack) : stack[j] \in Nat
    BY <2>1
  <2>3. Len(Chain) = Len(stack) + 1 /\ \A j \in 1..Len(stack) : Chain[j] = stack[j]
    BY <2>1, ChainIsStackAndParent
  <2>4. Len(stack) \in Nat
    BY <2>1
  <2>. QED  BY <2>1, <2>2, <2>3, <2>4
<1>2. \A j \in Len(stack) - n + 1..Len(stack) :
        j \in 2..Len(stack) /\ j + 1 \in 2..Len(Chain) /\ Chain[j + 1] \in 1..pos - 1
  BY <1>1 DEF ChainInv
<1>3. ASSUME NEW j \in Len(stack) - n + 1..Len(stack)
      PROVE  Rejoined(n)[Chain[j + 1]] = Chain[j]
  <2>1. Chain[j + 1] \in Offsets
    BY <1>1, <1>2 DEF Offsets
  <2>2. \A k \in Len(stack) - n + 1..Len(stack) : Chain[k + 1] = Chain[j + 1] => k = j
    <3>1. ASSUME NEW k \in Len(stack) - n + 1..Len(stack), Chain[k + 1] = Chain[j + 1]
          PROVE  k + 1 = j + 1
      BY <3>1, <1>2, ChainIsInjective
    <3>. QED  BY <3>1, <1>1
  <2>3. (CHOOSE k \in Len(stack) - n + 1..Len(stack) : Chain[k + 1] = Chain[j + 1]) = j
    BY <2>2
  <2>4. stack[j] = Chain[j]
    BY <1>1, <1>2
  <2>. QED  BY <2>1, <2>3, <2>4 DEF Rejoined
<1>4. ASSUME NEW i \in Offsets, \A j \in Len(stack) - n + 1..Len(stack) : Chain[j + 1] # i
      PROVE  Rejoined(n)[i] = childOf[i]
  BY <1>4 DEF Rejoined
<1>5. Rejoined(n) \in [Offsets -> Int]
  <2>1. ASSUME NEW i \in Offsets PROVE Rejoined(n)[i] \in Int
    <3>1. CASE \A j \in Len(stack) - n + 1..Len(stack) : Chain[j + 1] # i
      BY <3>1, <1>4 DEF WalkTypes
    <3>2. CASE \E j \in Len(stack) - n + 1..Len(stack) : Chain[j + 1] = i
      BY <3>2, <1>1, <1>2, <1>3
    <3>. QED  BY <3>1, <3>2
  <2>. QED  BY <2>1 DEF Rejoined
<1>6. ASSUME NEW i \in 1..pos
      PROVE  IF \E j \in 2..Len(Chain) - n : Chain[j] = i
               THEN Rejoined(n)[i] = Nowhere
               ELSE IF i = 1 THEN Rejoined(n)[i] = Dummy ELSE Encloses(Unit, Rejoined(n)[i], i)
  <2>1. i \in Offsets
    BY <1>1 DEF Offsets
  <2>2. CASE \E j \in Len(stack) - n + 1..Len(stack) : Chain[j + 1] = i
    <3>1. PICK j \in Len(stack) - n + 1..Len(stack) : Chain[j + 1] = i
      BY <2>2
    <3>2. ~ \E k \in 2..Len(Chain) - n : Chain[k] = i
      <4>1. ASSUME NEW k \in 2..Len(Chain) - n, Chain[k] = i PROVE FALSE
        <5>1. k \in 2..Len(Chain) /\ k # j + 1
          BY <1>1
        <5>. QED  BY <5>1, <4>1, <3>1, <1>2, ChainIsInjective
      <4>. QED  BY <4>1
    <3>3. /\ Chain[j] \in 1..pos - 1 /\ Unit[Chain[j]].depth = j - 2
          /\ \A k \in Chain[j] + 1..pos : Unit[k].depth >= j - 1
      <4>1. j \in 2..Len(Chain)
        BY <1>1, <1>2
      <4>. QED  BY <4>1 DEF ChainInv
    <3>4. Unit[i].depth = j - 1 /\ i \in 1..pos - 1
      <4>1. j + 1 \in 2..Len(Chain) /\ j \in Int /\ (j + 1) - 2 = j - 1
        BY <1>1, <1>2
      <4>2. Chain[j + 1] \in 1..pos - 1 /\ Unit[Chain[j + 1]].depth = (j + 1) - 2
        BY <4>1 DEF ChainInv
      <4>. QED  BY <4>1, <4>2, <3>1
    <3>5. Chain[j] < i
      <4>1. CASE Chain[j] = i
        BY <4>1, <3>3, <3>4, <1>1
      <4>2. CASE Chain[j] > i
        <5>1. \A k \in i + 1..pos : Unit[k].depth >= (j + 1) - 1
          BY <1>2, <3>1 DEF ChainInv
        <5>2. Chain[j] \in i + 1..pos /\ j \in Int
          BY <4>2, <3>3, <3>4, <1>1
        <5>3. Unit[Chain[j]].depth >= (j + 1) - 1
          BY <5>1, <5>2
        <5>. QED  BY <5>2, <5>3, <3>3
      <4>. QED  BY <4>1, <4>2, <3>3, <3>4, <1>1
    <3>6. Encloses(Unit, Chain[j], i) /\ i # 1
      BY <3>3, <3>4, <3>5, <1>1 DEF Encloses
    <3>. QED  BY <3>1, <3>2, <3>6, <1>3
  <2>3. CASE \A j \in Len(stack) - n + 1..Len(stack) : Chain[j + 1] # i
    <3>1. i \in OnChain <=> \E j \in 2..Len(Chain) - n : Chain[j] = i
      <4>1. ASSUME NEW j \in 2..Len(Chain), Chain[j] = i PROVE j \in 2..Len(Chain) - n
        <5>1. CASE j > Len(Chain) - n
          <6>1. j - 1 \in Len(stack) - n + 1..Len(stack) /\ (j - 1) + 1 = j
            BY <5>1, <1>1
          <6>. QED  BY <6>1, <2>3, <4>1
        <5>. QED  BY <5>1, <1>1
      <4>2. 2..Len(Chain) - n \subseteq 2..Len(Chain)
        BY <1>1
      <4>. QED  BY <4>1, <4>2 DEF OnChain
    <3>2. IF i \in OnChain THEN childOf[i] = Nowhere ELSE Attached(i)
      BY DEF PieceInv
    <3>. QED  BY <3>1, <3>2, <2>1, <2>3, <1>4 DEF Attached
  <2>. QED  BY <2>2, <2>3
<1>7. ASSUME NEW i \in pos + 1..Len(Unit) PROVE Rejoined(n)[i] = Nowhere
  <2>1. i \in Offsets /\ \A j \in Len(stack) - n + 1..Len(stack) : Chain[j + 1] # i
    BY <1>1, <1>2 DEF Offsets
  <2>. QED  BY <2>1, <1>4 DEF PieceInv
<1>. QED  BY <1>5, <1>6, <1>7

LEMMA AppendAt ==
  ASSUME NEW s \in Seq(Nat), NEW x \in Nat, NEW k \in Nat, Len(s) = k
  PROVE  /\ Append(s, x)[k + 1] = x
         /\ \A i \in 1..k : Append(s, x)[i] = s[i]
OBVIOUS

(* What is left of the chain when n of its nodes are put back.             *)
LEMMA ShortenedChain ==
  ASSUME TypesInv, Reading, WalkTypes, ChainInv, NEW n \in 0..Len(stack) - 1
  PROVE  /\ Popped(n) \in Seq(Nat) /\ Len(Popped(n)) = Len(stack) - n
         /\ Chain[Len(Chain) - n] \in 1..pos - 1
         /\ \A j \in 1..Len(Chain) - n :
              Append(Popped(n), Chain[Len(Chain) - n])[j] = Chain[j]
<1>1. /\ Len(stack) \in Nat /\ Len(Chain) = Len(stack) + 1
      /\ \A j \in 1..Len(stack) : Chain[j] = stack[j]
      /\ stack \in Seq(Nat)
  BY ChainIsStackAndParent DEF WalkTypes
<1>2. Popped(n) = SubSeq(stack, 1, Len(stack) - n)
  BY DEF Popped
<1>3. /\ Popped(n) \in Seq(Nat) /\ Len(Popped(n)) = Len(stack) - n
      /\ \A j \in 1..Len(stack) - n : Popped(n)[j] = stack[j]
  <2>. DEFINE k == Len(stack) - n
  <2>1. k \in Nat /\ k >= 1 /\ \A j \in 1..k : stack[j] \in Nat
    BY <1>1
  <2>. HIDE DEF k
  <2>2. /\ SubSeq(stack, 1, k) \in Seq(Nat) /\ Len(SubSeq(stack, 1, k)) = k
        /\ \A j \in 1..k : SubSeq(stack, 1, k)[j] = stack[j]
    <3>1. /\ SubSeq(stack, 1, k) \in Seq(Nat)
          /\ Len(SubSeq(stack, 1, k)) = IF 1 <= k THEN k - 1 + 1 ELSE 0
          /\ \A j \in 1 .. k - 1 + 1 : SubSeq(stack, 1, k)[j] = stack[1 + j - 1]
      BY <2>1, SubSeqProperties
    <3>. QED  BY <2>1, <3>1
  <2>. QED  BY <1>2, <2>2 DEF k
<1>4. Len(Chain) - n \in 2..Len(Chain)
  BY <1>1
<1>5. Chain[Len(Chain) - n] \in 1..pos - 1
  BY <1>4 DEF ChainInv
<1>6. Chain[Len(Chain) - n] \in Nat
  BY <1>5 DEF WalkTypes, Offsets
<1>7. ASSUME NEW j \in 1..Len(Chain) - n
      PROVE  Append(Popped(n), Chain[Len(Chain) - n])[j] = Chain[j]
  <2>. DEFINE k == Len(stack) - n
              x == Chain[Len(Chain) - n]
  <2>1. k \in Nat /\ Len(Chain) - n = k + 1
    BY <1>1
  <2>. HIDE DEF k, x
  <2>2. CASE j = k + 1
    <3>0. Popped(n) \in Seq(Nat) /\ Len(Popped(n)) = k /\ x \in Nat
      BY <1>3, <1>6 DEF k, x
    <3>1. Append(Popped(n), x)[k + 1] = x
      BY <2>1, <3>0, AppendAt
    <3>. QED  BY <3>1, <2>1, <2>2 DEF x
  <2>3. CASE j \in 1..k
    <3>0. Popped(n) \in Seq(Nat) /\ Len(Popped(n)) = k /\ x \in Nat
      BY <1>3, <1>6 DEF k, x
    <3>1. Append(Popped(n), x)[j] = Popped(n)[j]
      BY <2>1, <2>3, <3>0, AppendAt
    <3>. QED  BY <3>1, <2>3, <1>1, <1>3 DEF k, x
  <2>4. j = k + 1 \/ j \in 1..k
    BY <2>1
  <2>. QED  BY <2>2, <2>3, <2>4
<1>. QED  BY <1>3, <1>5, <1>7

LEMMA AscendInv == IInv /\ Ascend => IInv'
<1>. SUFFICES ASSUME IInv, Ascend PROVE IInv'
  OBVIOUS
<1>. DEFINE n    == - Delta(pos + 1)
            top  == Chain[Len(Chain) - n]
            next == pos + 1
<1>1. /\ TypesInv /\ Reading /\ WalkTypes /\ ChainInv /\ PieceInv
      /\ pos < Len(Unit) /\ pos \in 1..Len(Unit) /\ Len(Unit) \in Nat
  BY UnitIsUnit DEF IInv, Ascend, WalkTypes, Offsets
<1>2. /\ parent' = top /\ stack' = Popped(n) /\ pos' = next
      /\ childOf' = [Rejoined(n) EXCEPT ![next] = top]
      /\ UNCHANGED <<units, trees>>
  BY DEF Ascend
<1>3. Unit' = Unit /\ Offsets' = Offsets /\ Reading' /\ TypesInv'
  BY <1>1, <1>2 DEF Unit, Offsets, Reading, TypesInv
<1>4. /\ Unit[next].depth = Len(stack) - n
      /\ Len(stack) \in Nat /\ n \in 0..Len(stack) - 1
  <2>1. IsUnit(Unit) /\ Delta(next) <= 0 /\ Delta(next) = Unit[next].depth - Unit[pos].depth
    BY <1>1, UnitIsUnit DEF Ascend, Delta
  <2>2. Unit[next].depth \in Nat /\ Unit[next].depth # 0 /\ Unit[pos].depth \in Nat
    BY <1>1, <2>1 DEF IsUnit
  <2>3. Unit[pos].depth = Len(stack)
    BY <1>1 DEF WalkTypes
  <2>4. n = Unit[pos].depth - Unit[next].depth
    BY <2>1, <2>2
  <2>. HIDE DEF n, next
  <2>. QED  BY <2>1, <2>2, <2>3, <2>4
<1>. HIDE DEF n
<1>5. /\ Popped(n) \in Seq(Nat) /\ Len(Popped(n)) = Len(stack) - n
      /\ top \in 1..pos - 1
      /\ \A j \in 1..Len(Chain) - n : Append(Popped(n), top)[j] = Chain[j]
  BY <1>1, <1>4, ShortenedChain
<1>6. /\ Rejoined(n) \in [Offsets -> Int]
      /\ \A i \in 1..pos :
           IF \E j \in 2..Len(Chain) - n : Chain[j] = i
             THEN Rejoined(n)[i] = Nowhere
             ELSE IF i = 1 THEN Rejoined(n)[i] = Dummy ELSE Encloses(Unit, Rejoined(n)[i], i)
      /\ \A i \in next..Len(Unit) : Rejoined(n)[i] = Nowhere
  BY <1>1, <1>4, RejoinedPuts
<1>7. /\ Len(Chain) = Len(stack) + 1 /\ Len(Chain) - n \in 2..Len(Chain)
      /\ Len(Chain') = Len(Chain) - n
      /\ \A j \in 1..Len(Chain) - n : Chain'[j] = Chain[j]
  <2>1. Chain' = Append(Popped(n), top)
    BY <1>2 DEF Chain
  <2>2. Len(Chain) = Len(stack) + 1
    BY <1>1, ChainIsStackAndParent DEF WalkTypes
  <2>3. Len(Chain) - n \in 2..Len(Chain)
    BY <2>2, <1>4
  <2>4. Len(Chain') = Len(Popped(n)) + 1
    <3>1. top \in Nat /\ Popped(n) \in Seq(Nat)
      BY <1>1, <1>5
    <3>. HIDE DEF top
    <3>. QED  BY <3>1, <2>1
  <2>5. \A j \in 1..Len(Chain) - n : Chain'[j] = Chain[j]
    BY <2>1, <1>5
  <2>. QED  BY <2>2, <2>3, <2>4, <2>5, <1>4, <1>5
<1>. HIDE DEF top
<1>8. WalkTypes'
  <2>1. childOf' \in [Offsets -> Int]
    BY <1>1, <1>2, <1>5, <1>6 DEF Offsets
  <2>. QED  BY <2>1, <1>1, <1>2, <1>3, <1>4, <1>5 DEF WalkTypes, Offsets
<1>9. ChainInv'
  <2>1. Chain'[1] = Dummy
    <3>1. 1 \in 1..Len(Chain) - n /\ Chain[1] = Dummy
      BY <1>1, <1>7 DEF ChainInv
    <3>. QED  BY <3>1, <1>7
  <2>2. ASSUME NEW j \in 2..Len(Chain')
        PROVE  /\ Chain'[j] \in 1..next - 1
               /\ Unit[Chain'[j]].depth = j - 2
               /\ \A i \in Chain'[j] + 1..next : Unit[i].depth >= j - 1
    <3>1. j \in 2..Len(Chain) /\ j <= Len(Chain) - n /\ Chain'[j] = Chain[j]
      BY <1>4, <1>7
    <3>2. /\ Chain[j] \in 1..pos - 1 /\ Unit[Chain[j]].depth = j - 2
          /\ \A i \in Chain[j] + 1..pos : Unit[i].depth >= j - 1
      BY <3>1, <1>1 DEF ChainInv
    <3>3. Unit[next].depth >= j - 1
      BY <1>4, <1>7, <3>1
    <3>4. \A i \in Chain[j] + 1..next : i \in Chain[j] + 1..pos \/ i = next
      BY <3>2, <1>1
    <3>5. Chain'[j] \in 1..next - 1
      BY <3>1, <3>2, <1>1
    <3>. QED  BY <3>1, <3>2, <3>3, <3>4, <3>5
  <2>. QED  BY <2>1, <2>2, <1>2, <1>3 DEF ChainInv
<1>10. PieceInv'
  <2>1. OnChain' = {Chain[j] : j \in 2..Len(Chain) - n}
    <3>1. OnChain' = {Chain'[j] : j \in 2..Len(Chain')}
      BY DEF OnChain
    <3>2. \A j \in 2..Len(Chain) - n : j \in 1..Len(Chain) - n
      BY <1>4, <1>7
    <3>. QED  BY <3>1, <3>2, <1>7
  <2>2. next \notin OnChain'
    <3>1. \A j \in 2..Len(Chain) - n : j \in 2..Len(Chain)
      BY <1>4, <1>7
    <3>2. \A j \in 2..Len(Chain) - n : Chain[j] \in 1..pos - 1
      BY <3>1, <1>1 DEF ChainInv
    <3>. QED  BY <2>1, <3>2, <1>1
  <2>3. childOf'[next] = top /\ \A i \in Offsets : i # next => childOf'[i] = Rejoined(n)[i]
    BY <1>1, <1>2, <1>6 DEF Offsets
  <2>4. Encloses(Unit, top, next)
    <3>1. /\ top = Chain[Len(Chain) - n]
          /\ Unit[top].depth = (Len(Chain) - n) - 2
          /\ \A i \in top + 1..pos : Unit[i].depth >= (Len(Chain) - n) - 1
      BY <1>1, <1>7 DEF ChainInv, top
    <3>2. Unit[next].depth = (Len(Chain) - n) - 1 /\ Len(Chain) - n \in Int
      BY <1>4, <1>7
    <3>3. Unit[top].depth = Unit[next].depth - 1
      BY <3>1, <3>2
    <3>4. top \in 1..next - 1 /\ next - 1 = pos
      BY <1>1, <1>5
    <3>5. \A i \in top + 1..next - 1 : Unit[i].depth >= Unit[next].depth
      BY <3>1, <3>2, <3>4
    <3>. QED  BY <3>3, <3>4, <3>5 DEF Encloses
  <2>5. ASSUME NEW i \in 1..next
        PROVE  IF i \in OnChain' THEN childOf'[i] = Nowhere ELSE Attached(i)'
    <3>1. CASE i = next
      BY <3>1, <2>2, <2>3, <2>4, <1>1, <1>3 DEF Attached
    <3>2. CASE i \in 1..pos
      <4>1. childOf'[i] = Rejoined(n)[i]
        BY <3>2, <2>3, <1>1 DEF Offsets
      <4>2. i \in OnChain' <=> \E j \in 2..Len(Chain) - n : Chain[j] = i
        BY <2>1
      <4>. QED  BY <4>1, <4>2, <3>2, <1>3, <1>6 DEF Attached
    <3>. QED  BY <3>1, <3>2, <1>1
  <2>6. ASSUME NEW i \in next + 1..Len(Unit) PROVE childOf'[i] = Nowhere
    BY <1>1, <1>6, <2>3, <2>6 DEF Offsets
  <2>7. childOf'[pos'] = parent' /\ pos' = next /\ Len(Unit') = Len(Unit)
    BY <2>3, <1>2, <1>3
  <2>. QED  BY <2>5, <2>6, <2>7 DEF PieceInv
<1>. QED  BY <1>2, <1>3, <1>8, <1>9, <1>10 DEF IInv

-----------------------------------------------------------------------------
(* The pieces left at the end of a unit are put together.                  *)
LEMMA LastTree ==
  ASSUME IInv, Reading, pos = Len(Unit)
  PROVE  /\ TreeOf(Unit, [root |-> Chain[Len(Chain) - Left], childOf |-> Rejoined(Left)])
         /\ Chain[Len(Chain) - Left] \in Int
         /\ Rejoined(Left) \in [Offsets -> Int]
<1>1. /\ TypesInv /\ WalkTypes /\ ChainInv /\ PieceInv
      /\ Len(Unit) \in Nat \ {0} /\ IsUnit(Unit)
      /\ Len(stack) \in Nat /\ Len(Chain) = Len(stack) + 1
  BY UnitIsUnit, ChainIsStackAndParent DEF IInv, WalkTypes
<1>2. CASE Len(stack) = 0
  <2>1. Left = 0 /\ Len(Unit) = 1 /\ Chain[Len(Chain) - Left] = Dummy
    <3>1. Left = 0
      BY <1>2 DEF Left
    <3>2. Unit[pos].depth = 0 /\ pos \in 1..Len(Unit)
      BY <1>1, <1>2 DEF WalkTypes, Offsets
    <3>. QED  BY <3>1, <3>2, <1>1, <1>2 DEF IsUnit, ChainInv
  <2>2. Rejoined(Left) \in [Offsets -> Int]
    <3>1. Rejoined(0) = childOf
      BY <1>1, <1>2 DEF Rejoined, WalkTypes
    <3>. QED  BY <3>1, <2>1, <1>1 DEF WalkTypes
  <2>. QED  BY <2>1, <2>2 DEF TreeOf, Dummy
<1>3. CASE Len(stack) > 0
  <2>1. Left = Len(stack) - 1 /\ Left \in 0..Len(stack) - 1 /\ Len(Chain) - Left = 2
    <3>1. PICK len \in Nat : Len(stack) = len
      BY <1>1
    <3>2. len > 0
      BY <3>1, <1>3
    <3>3. Left = len - 1
      BY <3>1, <3>2 DEF Left
    <3>. QED  BY <3>1, <3>2, <3>3, <1>1
  <2>2. Chain[2] = 1
    <3>1. 2 \in 2..Len(Chain)
      BY <1>1, <1>3
    <3>2. Chain[2] \in 1..pos - 1 /\ Unit[Chain[2]].depth = 0
      BY <3>1, <1>1 DEF ChainInv
    <3>3. Chain[2] \in 1..Len(Unit)
      BY <3>2, <1>1
    <3>. QED  BY <3>2, <3>3, <1>1 DEF IsUnit
  <2>3. Len(Unit) # 1
    BY <1>1, <1>3 DEF WalkTypes, IsUnit
  <2>4. /\ Rejoined(Left) \in [Offsets -> Int]
        /\ \A i \in 1..pos :
             IF \E j \in 2..Len(Chain) - Left : Chain[j] = i
               THEN Rejoined(Left)[i] = Nowhere
               ELSE IF i = 1 THEN Rejoined(Left)[i] = Dummy
                             ELSE Encloses(Unit, Rejoined(Left)[i], i)
    BY <2>1, <1>1, RejoinedPuts
  <2>5. ASSUME NEW i \in 2..Len(Unit) PROVE Encloses(Unit, Rejoined(Left)[i], i)
    <3>1. i \in 1..pos /\ i # 1 /\ ~ \E j \in 2..Len(Chain) - Left : Chain[j] = i
      BY <1>1, <2>1, <2>2
    <3>. QED  BY <3>1, <2>4
  <2>. QED  BY <2>1, <2>2, <2>3, <2>4, <2>5 DEF TreeOf
<1>. QED  BY <1>1, <1>2, <1>3

LEMMA EndUnitInv == IInv /\ EndUnit => IInv'
<1>. SUFFICES ASSUME IInv, EndUnit PROVE IInv'
  OBVIOUS
<1>. DEFINE tree == [root |-> Chain[Len(Chain) - Left], childOf |-> Rejoined(Left)]
<1>1. /\ TypesInv /\ Reading /\ pos = Len(Unit)
      /\ Len(trees) \in Nat /\ Len(trees) + 1 \in 1..Len(units) /\ Len(Unit) \in Nat
  BY UnitIsUnit DEF IInv, EndUnit
<1>2. /\ trees' = Append(trees, tree)
      /\ units' = units /\ pos' = 1 /\ parent' = Dummy /\ stack' = <<>>
      /\ childOf' = IF Len(trees') < Len(units) THEN StartUnit(units[Len(trees') + 1]) ELSE <<>>
  BY DEF EndUnit
<1>3. TreeOf(Unit, tree) /\ tree \in [root : Int, childOf : UNION {[1..n -> Int] : n \in Nat}]
  BY <1>1, LastTree DEF Offsets
<1>. HIDE DEF tree
<1>4. /\ trees' \in Seq([root : Int, childOf : UNION {[1..n -> Int] : n \in Nat}])
      /\ Len(trees') = Len(trees) + 1
      /\ trees'[Len(trees) + 1] = tree
      /\ \A k \in 1..Len(trees) : trees'[k] = trees[k]
  BY <1>1, <1>2, <1>3 DEF TypesInv
<1>5. TypesInv'
  BY <1>1, <1>2, <1>4 DEF TypesInv
<1>6. ASSUME NEW k \in 1..Len(trees') PROVE TreeOf(units'[k], trees'[k])
  <2>1. CASE k = Len(trees) + 1
    BY <2>1, <1>2, <1>3, <1>4 DEF Unit
  <2>2. CASE k \in 1..Len(trees)
    BY <2>2, <1>2, <1>4 DEF IInv
  <2>. QED  BY <2>1, <2>2, <1>1, <1>4
<1>7. Reading' => (WalkTypes /\ ChainInv /\ PieceInv)'
  <2>1. Reading' => childOf' = StartUnit(Unit')
    BY <1>2 DEF Reading, Unit
  <2>2. (/\ TypesInv /\ Reading
         /\ pos = 1 /\ parent = Dummy /\ stack = <<>> /\ childOf = StartUnit(Unit)
         => WalkTypes /\ ChainInv /\ PieceInv)'
    BY StartInv, PTL
  <2>. QED  BY <2>1, <2>2, <1>2, <1>5
<1>. QED  BY <1>5, <1>6, <1>7 DEF IInv

LEMMA UnchangedInv == IInv /\ UNCHANGED treeVars => IInv'
<1>. SUFFICES ASSUME IInv, UNCHANGED treeVars PROVE IInv'
  OBVIOUS
<1>1. UNCHANGED <<units, trees, pos, parent, stack, childOf>>
  BY DEF treeVars
<1>2. /\ Unit' = Unit /\ Offsets' = Offsets /\ Chain' = Chain /\ Reading' = Reading
      /\ TypesInv' = TypesInv
  BY <1>1 DEF Unit, Offsets, Chain, Reading, TypesInv
<1>3. OnChain' = OnChain /\ \A i : Attached(i)' = Attached(i)
  BY <1>1, <1>2 DEF OnChain, Attached
<1>4. WalkTypes => WalkTypes'
  BY <1>1, <1>2 DEF WalkTypes
<1>5. ChainInv => ChainInv'
  BY <1>1, <1>2 DEF ChainInv
<1>6. PieceInv => PieceInv'
  BY <1>1, <1>2, <1>3 DEF PieceInv
<1>. QED  BY <1>1, <1>2, <1>4, <1>5, <1>6 DEF IInv

LEMMA WalkInv == TreeSpec => []IInv
<1>1. IInv /\ [TreeNext]_treeVars => IInv'
  BY DescendInv, AscendInv, EndUnitInv, UnchangedInv DEF TreeNext
<1>. QED  BY <1>1, InitInv, PTL DEF TreeSpec

-----------------------------------------------------------------------------
(* Every tree read is the nesting of its unit: Descend, Ascend and EndUnit *)
(* put back every node that they take out.                                 *)
THEOREM TreeIsNesting == TreeSpec => []TreesAreUnits
<1>1. IInv => TreesAreUnits
  BY DEF IInv, TreeOf, TreesAreUnits
<1>. QED  BY <1>1, WalkInv, PTL

(* last_child and pop never unwrap None: the parent has the last entry as  *)
(* a child, and the depth never falls below the stack.                     *)
THEOREM WalkNeverPanics == TreeSpec => []NeverUnwrapsNone
<1>1. IInv => NeverUnwrapsNone
  <2>. SUFFICES ASSUME IInv, Reading, pos < Len(Unit)
                PROVE  IF Delta(pos + 1) > 0 THEN Children(parent) # {}
                       ELSE - Delta(pos + 1) <= Len(stack)
    BY DEF NeverUnwrapsNone
  <2>1. TypesInv /\ WalkTypes /\ PieceInv
    BY DEF IInv
  <2>2. /\ Unit[pos + 1].depth \in Nat /\ Unit[pos].depth \in Nat
        /\ Delta(pos + 1) = Unit[pos + 1].depth - Unit[pos].depth
    BY <2>1, UnitIsUnit DEF IsUnit, Delta, WalkTypes, Offsets
  <2>. QED  BY <2>1, <2>2, LastChildIsLastRead DEF WalkTypes
<1>. QED  BY <1>1, WalkInv, PTL

-----------------------------------------------------------------------------
(***************************************************************************)
(* The reading of the types.  The results of the recursive calls are types *)
(* of any depth: of a frame only the entry is of interest here.            *)
(***************************************************************************)
FramesInv ==
  /\ \E S : frames \in Seq(S)
  /\ \A i \in 1..Len(frames) : "die" \in DOMAIN frames[i]
  /\ \A i \in 2..Len(frames) : frames[i].die \in DOMAIN memo
  /\ NoReentry

(* The result of a call goes to the last frame, which keeps its entry.     *)
LEMMA DeliverKeepsEntries ==
  ASSUME NEW S, NEW stk \in Seq(S), Len(stk) > 0, NEW result,
         \A i \in 1..Len(stk) : "die" \in DOMAIN stk[i]
  PROVE  /\ \E T : Deliver(stk, result) \in Seq(T)
         /\ Len(Deliver(stk, result)) = Len(stk)
         /\ \A i \in 1..Len(stk) :
              /\ "die" \in DOMAIN Deliver(stk, result)[i]
              /\ Deliver(stk, result)[i].die = stk[i].die
<1> DEFINE n   == Len(stk)
           new == [stk[n] EXCEPT !.parts = Append(@, result)]
<1>1. n \in 1..n /\ n \in Nat
  OBVIOUS
<1>2. Deliver(stk, result) = [stk EXCEPT ![n] = new]
  BY DEF Deliver
<1>3. "die" \in DOMAIN new /\ new.die = stk[n].die
  BY <1>1
<1> HIDE DEF new
<1>4. stk \in Seq(S \cup {new})
  OBVIOUS
<1>5. /\ [stk EXCEPT ![n] = new] \in Seq(S \cup {new})
      /\ Len([stk EXCEPT ![n] = new]) = n
      /\ \A j \in 1..n : [stk EXCEPT ![n] = new][j] = IF j = n THEN new ELSE stk[j]
  BY <1>1, <1>4, ExceptSeq
<1> QED
  BY <1>2, <1>3, <1>5

(* Frames with the entries of the first n, and a memo that has grown.      *)
LEMMA FramesKept ==
  ASSUME FramesInv, NEW n \in 0..Len(frames),
         \E S : frames' \in Seq(S), Len(frames') = n,
         \A i \in 1..n : "die" \in DOMAIN frames'[i] /\ frames'[i].die = frames[i].die,
         n > 1 => DOMAIN memo \subseteq DOMAIN memo'
  PROVE  FramesInv'
<1>1. Len(frames) \in Nat
  BY DEF FramesInv
<1>2. \A i \in 2..n : i \in 1..n /\ i \in 2..Len(frames) /\ n > 1
  BY <1>1
<1>3. \A i \in 2..n : frames'[i].die \in DOMAIN memo'
  BY <1>2 DEF FramesInv
<1>4. NoReentry'
  BY <1>2 DEF FramesInv, NoReentry
<1> QED
  BY <1>3, <1>4 DEF FramesInv

LEMMA EnterInv == FramesInv /\ Enter => FramesInv'
<1> SUFFICES ASSUME FramesInv, Enter PROVE FramesInv'
  OBVIOUS
<1> DEFINE n == Len(frames)
<1>1. PICK q, S : q = Query /\ frames \in Seq(S)
  BY DEF FramesInv
<1> DEFINE new == [die |-> q, parts |-> <<>>]
<1>2. /\ frames # <<>> /\ q \notin DOMAIN Memo
      /\ memo' = Insert(Memo, q, Stub) /\ frames' = Append(frames, new)
  BY <1>1 DEF Enter, Stubbed
<1>3. n \in Nat /\ n > 0 /\ frames \in Seq(S \cup {new})
  BY <1>1, <1>2
<1>4. new.die = q /\ "die" \in DOMAIN new
  OBVIOUS
<1> HIDE DEF new
<1>5. /\ frames' \in Seq(S \cup {new}) /\ Len(frames') = n + 1
      /\ frames'[n + 1] = new /\ \A i \in 1..n : frames'[i] = frames[i]
  BY <1>2, <1>3
<1>6. \A i \in 1..n + 1 : i \in 1..n \/ i = n + 1
  BY <1>3
<1>7. DOMAIN memo' = DOMAIN Memo \cup {q}
  BY <1>2 DEF Insert
<1>8. \A i \in 2..n : frames[i].die \in DOMAIN Memo /\ frames[i].die # q
  <2>1. ASSUME NEW i \in 2..n PROVE Memo = memo
    <3>1. n \in Nat
      BY <1>3
    <3> HIDE DEF n
    <3>2. n # 1
      BY <2>1, <3>1
    <3> QED
      BY <3>2 DEF Memo, AtOwner, n
  <2> QED
    BY <1>2, <2>1 DEF FramesInv
<1>9. \A i \in 1..n + 1 : "die" \in DOMAIN frames'[i]
  BY <1>4, <1>5, <1>6 DEF FramesInv
<1>10. \A i \in 2..n + 1 : i \in 2..n \/ i = n + 1
  BY <1>3
<1>11. \A i \in 2..n : frames'[i] = frames[i]
  BY <1>5
<1>12. \A i \in 2..n + 1 : frames'[i].die \in DOMAIN memo'
  BY <1>4, <1>5, <1>7, <1>8, <1>10, <1>11
<1>13. \A j, k \in 2..n + 1 : frames'[j].die = frames'[k].die => j = k
  BY <1>4, <1>5, <1>8, <1>10, <1>11 DEF FramesInv, NoReentry
<1> QED
  BY <1>5, <1>9, <1>12, <1>13 DEF FramesInv, NoReentry

(* A call returns its result to the frame below.                           *)
LEMMA ReturnInv ==
  ASSUME FramesInv, Len(frames) > 1, NEW result, frames' = Deliver(Rest, result),
         DOMAIN memo \subseteq DOMAIN memo'
  PROVE  FramesInv'
<1> DEFINE n == Len(frames) - 1
<1>1. PICK S : frames \in Seq(S)
  BY DEF FramesInv
<1>2. n \in Nat /\ n > 0 /\ n \in 0..Len(frames)
  BY <1>1
<1>3. Rest \in Seq(S) /\ Len(Rest) = n /\ \A i \in 1..n : Rest[i] = frames[i]
  <2>1. Rest = SubSeq(frames, 1, n)
    BY DEF Rest
  <2>2. \A i \in 1..n : frames[i] \in S
    BY <1>1, <1>2
  <2> QED
    BY <1>2, <2>1, <2>2, SubSeqProperties
<1>4. \A i \in 1..n : i \in 1..Len(frames)
  BY <1>1
<1>5. \A i \in 1..n : "die" \in DOMAIN Rest[i]
  BY <1>3, <1>4 DEF FramesInv
<1> HIDE DEF n
<1>6. /\ \E T : frames' \in Seq(T)
      /\ Len(frames') = n
      /\ \A i \in 1..n : "die" \in DOMAIN frames'[i] /\ frames'[i].die = Rest[i].die
  BY <1>2, <1>3, <1>5, DeliverKeepsEntries
<1> QED
  BY <1>2, <1>3, <1>6, FramesKept

LEMMA FramesInit == Init => FramesInv
<1> SUFFICES ASSUME Init PROVE FramesInv
  OBVIOUS
<1>1. frames = <<>> /\ frames \in Seq({}) /\ Len(frames) = 0
  BY DEF Init, TypesInit
<1> QED
  BY <1>1 DEF FramesInv, NoReentry

LEMMA FramesStep == FramesInv /\ [ReadNext]_vars => FramesInv'
<1> SUFFICES ASSUME FramesInv, [ReadNext]_vars PROVE FramesInv'
  OBVIOUS
<1>1. CASE frames' = frames /\ memo' = memo
  BY <1>1 DEF FramesInv, NoReentry
<1>2. CASE ReadTree \/ StartTypes \/ SkipOwner \/ UNCHANGED vars
  BY <1>1, <1>2 DEF ReadTree, StartTypes, SkipOwner, vars, typeVars
<1>3. CASE StartOwner
  <2> DEFINE first == [die |-> Owner, parts |-> <<>>]
  <2>1. frames' = <<first>> /\ "die" \in DOMAIN first
    BY <1>3 DEF StartOwner
  <2> HIDE DEF first
  <2>2. frames' \in Seq({first}) /\ Len(frames') = 1 /\ frames'[1] = first
    BY <2>1
  <2>3. 2..Len(frames') = {} /\ \A i \in 1..Len(frames') : i = 1
    BY <2>2
  <2> QED
    BY <2>1, <2>2, <2>3 DEF FramesInv, NoReentry
<1>4. CASE Recall
  <2>1. PICK S : frames \in Seq(S)
    BY DEF FramesInv
  <2>2. Len(frames) \in Nat /\ Len(frames) > 0 /\ Len(frames) \in 0..Len(frames)
    BY <1>4, <2>1 DEF Recall
  <2>3. frames' = Deliver(frames, Memo[Query]) /\ memo' = memo
    BY <1>4 DEF Recall
  <2>4. \A i \in 1..Len(frames) : "die" \in DOMAIN frames[i]
    BY DEF FramesInv
  <2>5. /\ \E T : frames' \in Seq(T)
        /\ Len(frames') = Len(frames)
        /\ \A i \in 1..Len(frames) : "die" \in DOMAIN frames'[i] /\ frames'[i].die = frames[i].die
    BY <2>1, <2>2, <2>3, <2>4, DeliverKeepsEntries
  <2> QED
    BY <2>2, <2>3, <2>5, FramesKept
<1>5. CASE Enter
  BY <1>5, EnterInv
<1>6. CASE Fail
  BY <1>6, ReturnInv DEF Fail
<1>7. CASE FinishType
  <2>1. PICK typ : frames' = Deliver(Rest, typ) /\ memo' = MemoWith(typ)
    BY <1>7 DEF FinishType
  <2>2. DOMAIN memo \subseteq DOMAIN memo'
    BY <2>1 DEF MemoWith, Insert
  <2> QED
    BY <1>7, <2>1, <2>2, ReturnInv DEF FinishType
<1>8. CASE FinishFunction \/ FinishVariable
  <2>1. frames' = <<>>
    BY <1>8 DEF FinishFunction, FinishVariable
  <2>2. frames' \in Seq({}) /\ Len(frames') = 0
    BY <2>1
  <2> QED
    BY <2>2 DEF FramesInv, NoReentry
<1> QED
  BY <1>2, <1>3, <1>4, <1>5, <1>6, <1>7, <1>8 DEF ReadNext, TypesNext

(***************************************************************************)
(* For every program, with any cycles among its types: _get_type never     *)
(* reads a type within the reading of that type.                           *)
(***************************************************************************)
THEOREM TypesAreNotReentered == ReadSpec => []NoReentry
<1>1. FramesInv => NoReentry
  BY DEF FramesInv
<1> QED
  BY FramesInit, FramesStep, <1>1, PTL DEF ReadSpec

(***************************************************************************)
(* The reader with its types is a walk over the trees: what is shown of    *)
(* the walk holds while the types are read, and after.                     *)
(***************************************************************************)
THEOREM ReaderWalksTrees == ReadSpec => TreeSpec
<1>1. Init => TreeInit
  BY DEF Init
<1>2. [ReadNext]_vars => [TreeNext]_treeVars
  BY DEF ReadNext, ReadTree, TypesNext, StartTypes, SkipOwner, StartOwner, Recall, Enter,
         Fail, FinishType, FinishFunction, FinishVariable, vars
<1> QED
  BY <1>1, <1>2, PTL DEF ReadSpec, TreeSpec

-----------------------------------------------------------------------------
(***************************************************************************)
(* The functions to verify.  InOrder and FlattenSeq only arrange: what is  *)
(* in their results is what is in their arguments.                         *)
(***************************************************************************)
(* A set of numbers has a least one.                                       *)
LEMMA LeastOfNumbers ==
  ASSUME NEW T \in SUBSET Nat, T # {}
  PROVE  \E x \in T : \A y \in T : x <= y
<1>1. PICK x \in T : \A y \in T : ~ (<<y, x>> \in OpToRel(<, Nat))
  BY NatLessThanWellFounded, WFMin, Zenon
<1>2. ASSUME NEW y \in T PROVE x <= y
  <2>1. \A a, b \in Nat : a < b => <<a, b>> \in OpToRel(<, Nat)
    BY DEF OpToRel
  <2>2. x \in Nat /\ y \in Nat
    OBVIOUS
  <2>3. ~ (y < x)
    BY <1>1, <2>1, <2>2
  <2> QED
    BY <2>2, <2>3
<1> QED
  BY <1>2

(* Two members of a set of numbers are not at the same place, and there is *)
(* no place after the last.                                                *)
LEMMA PlaceIsInjective ==
  ASSUME NEW S \in SUBSET Nat, IsFiniteSet(S)
  PROVE  /\ Cardinality(S) \in Nat
         /\ \A i \in S : Place(S, i) \in 1..Cardinality(S)
         /\ \A i, j \in S : Place(S, i) = Place(S, j) => i = j
<1> DEFINE Upto(i) == {j \in S : j <= i}
<1>1. Cardinality(S) \in Nat
  BY FS_CardinalityType
<1>2. \A i \in S : /\ IsFiniteSet(Upto(i)) /\ Cardinality(Upto(i)) \in Nat
                   /\ Cardinality(Upto(i)) <= Cardinality(S)
  BY FS_Subset, FS_CardinalityType
<1>3. \A i \in S : i \in Upto(i)
  OBVIOUS
<1>4. \A i \in S : Cardinality(Upto(i)) # 0
  BY <1>2, <1>3, FS_EmptySet
<1>5. ASSUME NEW i \in S, NEW j \in S, i < j PROVE Cardinality(Upto(i)) # Cardinality(Upto(j))
  <2>1. \A k \in S : k <= i => k <= j
    BY <1>5
  <2>2. Upto(i) \in SUBSET Upto(j)
    BY <2>1
  <2>3. j \notin Upto(i) /\ j \in Upto(j)
    BY <1>5
  <2> HIDE DEF Upto
  <2> QED
    BY <1>2, <2>2, <2>3, FS_Subset
<1>6. \A i \in S : Place(S, i) = Cardinality(Upto(i))
  BY DEF Place
<1> HIDE DEF Upto
<1>7. \A i \in S : Place(S, i) \in 1..Cardinality(S)
  BY <1>1, <1>2, <1>4, <1>6
<1>8. \A i, j \in S : i < j \/ j < i \/ i = j
  OBVIOUS
<1> QED
  BY <1>1, <1>5, <1>6, <1>7, <1>8

(* InOrder lists the members of the set.                                   *)
LEMMA InOrderLists ==
  ASSUME NEW S \in SUBSET Nat, IsFiniteSet(S)
  PROVE  /\ InOrder(S) \in Seq(S)
         /\ \A i \in S : \E k \in 1..Len(InOrder(S)) : InOrder(S)[k] = i
<1> DEFINE n == Cardinality(S)
           place == [i \in S |-> Place(S, i)]
<1>1. /\ n \in Nat
      /\ \A i \in S : Place(S, i) \in 1..n
      /\ \A i, j \in S : Place(S, i) = Place(S, j) => i = j
  BY PlaceIsInjective
<1>2. place \in Injection(S, 1..n)
  BY <1>1 DEF Injection, IsInjective
<1>3. IsFiniteSet(1..n) /\ Cardinality(1..n) = n
  BY <1>1, FS_Interval
<1>4. place \in Surjection(S, 1..n)
  BY <1>2, <1>3, FS_Injection, Zenon DEF n
<1>5. \A k \in 1..n : \E i \in S : Place(S, i) = k
  BY <1>4 DEF Surjection
<1>6. InOrder(S) = [k \in 1..n |-> CHOOSE i \in S : Place(S, i) = k]
  BY DEF InOrder
<1> HIDE DEF n, place
<1>7. \A k \in 1..n : InOrder(S)[k] \in S /\ Place(S, InOrder(S)[k]) = k
  BY <1>5, <1>6
<1>8. InOrder(S) \in Seq(S) /\ Len(InOrder(S)) = n
  BY <1>1, <1>6, <1>7
<1> QED
  BY <1>1, <1>7, <1>8

(* The recursive function of FlattenSeq.                                   *)
IsFlatUpTo(seqs, n, f) ==
  f = [i \in 1..n |-> IF i = 1 THEN seqs[i] ELSE f[i - 1] \o seqs[i]]

Flat(seqs) == CHOOSE f : IsFlatUpTo(seqs, Len(seqs), f)

LEMMA FlattenIsFlat ==
  ASSUME NEW seqs
  PROVE  FlattenSeq(seqs) = IF Len(seqs) = 0 THEN seqs ELSE Flat(seqs)[Len(seqs)]
BY DEF FlattenSeq, Flat, IsFlatUpTo

LEMMA FlatExists ==
  ASSUME NEW seqs, Len(seqs) \in Nat
  PROVE  IsFlatUpTo(seqs, Len(seqs), Flat(seqs))
<1> DEFINE Missing == {n \in Nat : ~ \E f : IsFlatUpTo(seqs, n, f)}
<1>1. CASE Missing = {}
  <2>1. \E f : IsFlatUpTo(seqs, Len(seqs), f)
    BY <1>1
  <2> QED
    BY <2>1, Zenon DEF Flat
<1>2. CASE Missing # {}
  <2>1. PICK n \in Missing : \A m \in Missing : n <= m
    BY <1>2, LeastOfNumbers
  <2>2. n \in Nat /\ ~ \E f : IsFlatUpTo(seqs, n, f)
    OBVIOUS
  <2>3. CASE n = 0
    <3> DEFINE f == [i \in 1..0 |-> 0]
    <3>1. f = [i \in 1..0 |-> IF i = 1 THEN seqs[i] ELSE f[i - 1] \o seqs[i]]
      OBVIOUS
    <3>2. IsFlatUpTo(seqs, n, f)
      BY <2>3, <3>1 DEF IsFlatUpTo
    <3> QED
      BY <2>2, <3>2
  <2>4. CASE n # 0
    <3>1. n - 1 \in Nat /\ n - 1 \notin Missing
      BY <2>1, <2>2, <2>4
    <3>2. PICK g : IsFlatUpTo(seqs, n - 1, g)
      BY <3>1
    <3> DEFINE f == [i \in 1..n |-> IF i = n THEN (IF n = 1 THEN seqs[n] ELSE g[n - 1] \o seqs[n])
                                    ELSE g[i]]
    <3>3. \A i \in 1..n - 1 : g[i] = IF i = 1 THEN seqs[i] ELSE g[i - 1] \o seqs[i]
      BY <3>2, Zenon DEF IsFlatUpTo
    <3>4. ASSUME NEW i \in 1..n
          PROVE  f[i] = IF i = 1 THEN seqs[i] ELSE f[i - 1] \o seqs[i]
      <4>1. CASE i = n
        <5>1. n # 1 => f[n - 1] = g[n - 1]
          BY <2>2, <2>4
        <5> QED
          BY <4>1, <5>1
      <4>2. CASE i # n
        <5>1. i \in 1..n - 1 /\ f[i] = g[i]
          BY <2>2, <4>2
        <5>2. i # 1 => f[i - 1] = g[i - 1]
          BY <2>2, <4>2
        <5> QED
          BY <3>3, <5>1, <5>2
      <4> QED
        BY <4>1, <4>2
    <3>5. f = [i \in 1..n |-> f[i]]
      OBVIOUS
    <3> HIDE DEF f
    <3>6. IsFlatUpTo(seqs, n, f)
      BY <3>4, <3>5 DEF IsFlatUpTo
    <3> QED
      BY <2>2, <3>6
  <2> QED
    BY <2>3, <2>4
<1> QED
  BY <1>1, <1>2

(* What is in a sequence of the argument is in the result, and what is in  *)
(* the result is in one of them.                                           *)
Holds(s, x) == \E j \in 1..Len(s) : s[j] = x

LEMMA ConcatHolds ==
  ASSUME NEW X, NEW s \in Seq(X), NEW t \in Seq(X)
  PROVE  /\ s \o t \in Seq(X)
         /\ \A x : Holds(s, x) \/ Holds(t, x) => Holds(s \o t, x)
<1>1. /\ s \o t \in Seq(X)
      /\ Len(s) \in Nat /\ Len(t) \in Nat /\ Len(s \o t) = Len(s) + Len(t)
      /\ \A j \in 1..Len(s) : (s \o t)[j] = s[j]
      /\ \A j \in 1..Len(t) : (s \o t)[Len(s) + j] = t[j]
  OBVIOUS
<1>2. ASSUME NEW x, Holds(s, x) PROVE Holds(s \o t, x)
  <2>1. PICK j \in 1..Len(s) : s[j] = x
    BY <1>2 DEF Holds
  <2>2. j \in 1..Len(s \o t) /\ (s \o t)[j] = x
    BY <1>1, <2>1
  <2> QED
    BY <2>2 DEF Holds
<1>3. ASSUME NEW x, Holds(t, x) PROVE Holds(s \o t, x)
  <2>1. PICK j \in 1..Len(t) : t[j] = x
    BY <1>3 DEF Holds
  <2>2. Len(s) + j \in 1..Len(s \o t) /\ (s \o t)[Len(s) + j] = x
    BY <1>1, <2>1
  <2> QED
    BY <2>2 DEF Holds
<1> QED
  BY <1>1, <1>2, <1>3

LEMMA FlattenLists ==
  ASSUME NEW X, NEW seqs \in Seq(Seq(X))
  PROVE  /\ FlattenSeq(seqs) \in Seq(X)
         /\ \A i \in 1..Len(seqs) : \A x : Holds(seqs[i], x) => Holds(FlattenSeq(seqs), x)
<1> DEFINE n == Len(seqs)
           f == Flat(seqs)
           Good(m) == /\ f[m] \in Seq(X)
                      /\ \A i \in 1..m : \A x : Holds(seqs[i], x) => Holds(f[m], x)
           Bad == {m \in 1..n : ~ Good(m)}
<1>1. n \in Nat /\ \A i \in 1..n : seqs[i] \in Seq(X)
  OBVIOUS
<1>2. \A m \in 1..n : f[m] = IF m = 1 THEN seqs[m] ELSE f[m - 1] \o seqs[m]
  <2>1. IsFlatUpTo(seqs, n, f)
    BY <1>1, FlatExists
  <2> HIDE DEF f, n
  <2>2. f = [m \in 1..n |-> IF m = 1 THEN seqs[m] ELSE f[m - 1] \o seqs[m]]
    BY <2>1 DEF IsFlatUpTo
  <2> QED
    BY <2>2, Zenon
<1>3. Bad \in SUBSET Nat
  BY <1>1
<1>4. CASE Bad # {}
  <2>1. PICK m \in Bad : \A k \in Bad : m <= k
    BY <1>3, <1>4, LeastOfNumbers
  <2>2. m \in 1..n /\ ~ Good(m)
    OBVIOUS
  <2>3. CASE m = 1
    <3>1. f[m] = seqs[m] /\ seqs[m] \in Seq(X) /\ \A i \in 1..m : i = m
      BY <1>1, <1>2, <2>2, <2>3
    <3> QED
      BY <2>2, <3>1
  <2>4. CASE m # 1
    <3>1. m - 1 \in 1..n /\ m - 1 < m
      BY <1>1, <2>2, <2>4
    <3>2. m - 1 \notin Bad
      <4> HIDE DEF Bad
      <4>1. m \in Int /\ ~ (m <= m - 1)
        BY <1>1, <2>2
      <4> QED
        BY <2>1, <4>1
    <3>3. Good(m - 1)
      BY <3>1, <3>2
    <3>4. f[m] = f[m - 1] \o seqs[m] /\ seqs[m] \in Seq(X)
      BY <1>1, <1>2, <2>2, <2>4
    <3> HIDE DEF f
    <3>5. /\ f[m] \in Seq(X)
          /\ \A x : Holds(f[m - 1], x) \/ Holds(seqs[m], x) => Holds(f[m], x)
      BY <3>3, <3>4, ConcatHolds
    <3>6. \A i \in 1..m : i \in 1..m - 1 \/ i = m
      BY <1>1, <2>2
    <3> QED
      BY <2>2, <3>3, <3>5, <3>6
  <2> QED
    BY <2>3, <2>4
<1>5. CASE Bad = {}
  <2>1. CASE n = 0
    <3>1. FlattenSeq(seqs) = seqs /\ seqs \in Seq(X)
      BY <2>1, FlattenIsFlat
    <3> QED
      BY <2>1, <3>1
  <2>2. CASE n # 0
    <3>1. n \in 1..n
      BY <1>1, <2>2
    <3>2. Good(n)
      BY <1>5, <3>1
    <3>3. FlattenSeq(seqs) = f[n]
      BY <2>2, FlattenIsFlat
    <3> QED
      BY <3>2, <3>3
  <2> QED
    BY <2>1, <2>2
<1> QED
  BY <1>4, <1>5

(* The functions and variables to read are those at the first level of a   *)
(* unit.                                                                   *)
Ids(u, tag) == {i \in FirstLevel(u) : units[u][i].tag = tag}

OwnersAt(tag) == UNION {{[unit |-> u, die |-> i] : i \in Ids(u, tag)} : u \in 1..Len(units)}

OwnersIn(u, ids) == [k \in 1..Len(ids) |-> [unit |-> u, die |-> ids[k]]]

LEMMA OwnersOfUnit ==
  ASSUME TypesInv, NEW tag, NEW u \in 1..Len(units), NEW list, list = InOrder(Ids(u, tag))
  PROVE  /\ OwnersIn(u, list) \in Seq(OwnersAt(tag))
         /\ \A i \in Ids(u, tag) : Holds(OwnersIn(u, list), [unit |-> u, die |-> i])
<1> DEFINE S == Ids(u, tag)
<1>1. /\ list \in Seq(S)
      /\ \A i \in S : \E k \in 1..Len(list) : list[k] = i
  <2>1. Len(units[u]) \in Nat
    BY DEF TypesInv, IsUnit
  <2>2. S \in SUBSET (1..Len(units[u]))
    BY DEF Ids, FirstLevel, Below
  <2> HIDE DEF S
  <2>3. IsFiniteSet(1..Len(units[u])) /\ (1..Len(units[u])) \subseteq Nat
    <3>1. 1 \in Int /\ Len(units[u]) \in Int
      BY <2>1
    <3> QED
      BY <3>1, FS_Interval
  <2>4. IsFiniteSet(S) /\ S \in SUBSET Nat
    BY <2>2, <2>3, FS_Subset
  <2> QED
    BY <2>4, InOrderLists DEF S
<1>2. \A i \in S : [unit |-> u, die |-> i] \in OwnersAt(tag)
  BY DEF OwnersAt
<1> HIDE DEF S
<1>3. Len(list) \in Nat /\ \A k \in 1..Len(list) : list[k] \in S
  BY <1>1
<1>4. /\ Len(OwnersIn(u, list)) = Len(list) /\ OwnersIn(u, list) \in Seq(OwnersAt(tag))
      /\ \A k \in 1..Len(list) : OwnersIn(u, list)[k] = [unit |-> u, die |-> list[k]]
  BY <1>2, <1>3 DEF OwnersIn
<1>5. ASSUME NEW i \in S PROVE Holds(OwnersIn(u, list), [unit |-> u, die |-> i])
  <2>1. PICK k \in 1..Len(list) : list[k] = i
    BY <1>1
  <2>2. k \in 1..Len(OwnersIn(u, list)) /\ OwnersIn(u, list)[k] = [unit |-> u, die |-> i]
    BY <1>4, <2>1
  <2> QED
    BY <2>2 DEF Holds
<1> QED
  BY <1>4, <1>5 DEF S

LEMMA OwnersAreThere ==
  ASSUME TypesInv, NEW tag
  PROVE  /\ OwnersOf(tag) \in Seq(OwnersAt(tag))
         /\ \A x \in OwnersAt(tag) : Holds(OwnersOf(tag), x)
<1> DEFINE seqs == [u \in 1..Len(units) |-> OwnersIn(u, InOrder(Ids(u, tag)))]
<1>1. Len(units) \in Nat
  BY DEF TypesInv
<1>2. OwnersOf(tag) = FlattenSeq(seqs)
  BY DEF OwnersOf, Tagged, FirstLevel, Ids, OwnersIn
<1>3. ASSUME NEW u \in 1..Len(units)
      PROVE  /\ seqs[u] \in Seq(OwnersAt(tag))
             /\ \A i \in Ids(u, tag) : Holds(seqs[u], [unit |-> u, die |-> i])
  <2>1. PICK list : list = InOrder(Ids(u, tag))
    OBVIOUS
  <2>2. seqs[u] = OwnersIn(u, list)
    BY <2>1
  <2> QED
    BY <2>1, <2>2, OwnersOfUnit
<1>4. DOMAIN seqs = 1..Len(units) /\ seqs = [u \in 1..Len(units) |-> seqs[u]]
  OBVIOUS
<1> HIDE DEF seqs
<1>5. seqs \in Seq(Seq(OwnersAt(tag))) /\ Len(seqs) = Len(units)
  BY <1>1, <1>3, <1>4
<1>6. /\ FlattenSeq(seqs) \in Seq(OwnersAt(tag))
      /\ \A u \in 1..Len(seqs) : \A x : Holds(seqs[u], x) => Holds(FlattenSeq(seqs), x)
  BY <1>5, FlattenLists
<1>7. ASSUME NEW x \in OwnersAt(tag) PROVE Holds(FlattenSeq(seqs), x)
  <2>1. PICK u \in 1..Len(units) : \E i \in Ids(u, tag) : x = [unit |-> u, die |-> i]
    BY DEF OwnersAt
  <2>2. Holds(seqs[u], x)
    BY <1>3, <2>1
  <2> QED
    BY <1>5, <1>6, <2>2
<1> QED
  BY <1>2, <1>6, <1>7

(***************************************************************************)
(* What is known of the signatures while the functions are read: there is  *)
(* one for every function so far with a name and a return type.            *)
(***************************************************************************)
Signed(x) ==
  LET d == units[x.unit][x.die] IN d.tag = "subprogram" /\ d.name # NoName /\ d.type # None
NameOf(x) == units[x.unit][x.die].name

SignedUpTo(n) == {NameOf(owners[j]) : j \in {k \in 1..n : Signed(owners[k])}}

OwnersInv ==
  /\ at \in Int /\ at >= -1
  /\ Len(owners) \in Nat /\ at <= Len(owners)
  /\ at = -1 => owners = <<>> /\ funcSigs = <<>> /\ frames = <<>>
  /\ at >= 0 => /\ ~ Reading
                /\ owners = OwnersOf("subprogram") \o OwnersOf("variable")
                /\ DOMAIN funcSigs = SignedUpTo(at)
  /\ frames # <<>> => Named(Owner) /\ Typed(Owner)

HeaderInv ==
  \/ header = NotPrinted
  \/ /\ header.printed /\ ReadingDone
     /\ header.request \in Requests /\ header.verified = Verified(header.request)
     /\ header.types = ContextTypes

(* One more owner is read.                                                 *)
LEMMA SignedNext ==
  ASSUME NEW n \in Nat
  PROVE  SignedUpTo(n + 1) =
           SignedUpTo(n) \cup (IF Signed(owners[n + 1]) THEN {NameOf(owners[n + 1])} ELSE {})
<1>1. \A k : k \in 1..n + 1 <=> k \in 1..n \/ k = n + 1
  OBVIOUS
<1> QED
  BY <1>1, Zenon DEF SignedUpTo

LEMMA OwnersSame ==
  ASSUME UNCHANGED treeVars, NEW tag
  PROVE  OwnersOf(tag)' = OwnersOf(tag) /\ Reading' = Reading
BY DEF OwnersOf, Tagged, FirstLevel, Below, Reading, treeVars

LEMMA SignedSame ==
  ASSUME UNCHANGED <<treeVars, owners>>, NEW n
  PROVE  SignedUpTo(n)' = SignedUpTo(n)
BY DEF SignedUpTo, Signed, NameOf, treeVars

(* A step of the recursion.                                                *)
LEMMA SameOwner ==
  ASSUME OwnersInv, ReadingTypes, UNCHANGED <<treeVars, owners, at, funcSigs>>,
         Named(Owner) /\ Typed(Owner)
  PROVE  OwnersInv'
<1>1. /\ OwnersOf("subprogram")' = OwnersOf("subprogram")
      /\ OwnersOf("variable")' = OwnersOf("variable")
      /\ Reading' = Reading
      /\ SignedUpTo(at)' = SignedUpTo(at)
  BY OwnersSame, SignedSame
<1>2. (Named(Owner) /\ Typed(Owner))'
  BY DEF Named, Typed, Owner, Die, U, treeVars
<1>3. at >= 0
  BY DEF ReadingTypes
<1> QED
  BY <1>1, <1>2, <1>3 DEF OwnersInv

(* The next owner.                                                         *)
LEMMA NextOwner ==
  ASSUME OwnersInv, ReadingTypes, UNCHANGED <<treeVars, owners>>,
         at' = at + 1, frames' = <<>>,
         DOMAIN funcSigs' =
           DOMAIN funcSigs
             \cup (IF Signed(owners[at + 1]) THEN {NameOf(owners[at + 1])} ELSE {})
  PROVE  OwnersInv'
<1>1. PICK n : n = at + 1
  OBVIOUS
<1>2. /\ OwnersOf("subprogram")' = OwnersOf("subprogram")
      /\ OwnersOf("variable")' = OwnersOf("variable")
      /\ Reading' = Reading
      /\ SignedUpTo(n)' = SignedUpTo(n)
  BY OwnersSame, SignedSame
<1>3. at \in Nat /\ n \in Int /\ n >= 0 /\ n <= Len(owners)
  BY <1>1 DEF ReadingTypes, OwnersInv
<1>4. DOMAIN funcSigs = SignedUpTo(at)
  BY <1>3 DEF OwnersInv
<1>5. DOMAIN funcSigs' = SignedUpTo(n)
  BY <1>1, <1>3, <1>4, SignedNext
<1>6. SignedUpTo(at)' = SignedUpTo(n)' /\ at' = n
  BY <1>1
<1> QED
  BY <1>2, <1>3, <1>5, <1>6 DEF OwnersInv

LEMMA OwnersInit == Init => OwnersInv
<1> SUFFICES ASSUME Init PROVE OwnersInv
  OBVIOUS
<1>1. owners = <<>> /\ at = -1 /\ frames = <<>> /\ funcSigs = <<>>
  BY DEF Init, TypesInit
<1> QED
  BY <1>1 DEF OwnersInv

LEMMA StartOwners == IInv /\ OwnersInv /\ StartTypes => OwnersInv'
<1> SUFFICES ASSUME IInv, OwnersInv, StartTypes PROVE OwnersInv'
  OBVIOUS
<1>1. /\ ~ Reading /\ at = -1 /\ at' = 0 /\ UNCHANGED treeVars
      /\ owners' = OwnersOf("subprogram") \o OwnersOf("variable")
      /\ frames' = frames /\ funcSigs' = funcSigs
  BY DEF StartTypes
<1>2. funcSigs = <<>> /\ frames = <<>>
  BY <1>1 DEF OwnersInv
<1>3. /\ OwnersOf("subprogram") \in Seq(OwnersAt("subprogram"))
      /\ OwnersOf("variable") \in Seq(OwnersAt("variable"))
  BY OwnersAreThere DEF IInv
<1>4. Len(owners') \in Nat
  BY <1>1, <1>3
<1>5. DOMAIN funcSigs' = {} /\ SignedUpTo(0)' = {}
  BY <1>1, <1>2 DEF SignedUpTo
<1>6. /\ OwnersOf("subprogram")' = OwnersOf("subprogram")
      /\ OwnersOf("variable")' = OwnersOf("variable")
      /\ Reading' = Reading
  BY <1>1, OwnersSame
<1> QED
  BY <1>1, <1>2, <1>4, <1>5, <1>6 DEF OwnersInv

LEMMA OwnersStep == IInv /\ OwnersInv /\ [ReadNext]_vars => OwnersInv'
<1> SUFFICES ASSUME IInv, OwnersInv, [ReadNext]_vars PROVE OwnersInv'
  OBVIOUS
<1>1. CASE ReadTree
  <2>1. Reading /\ UNCHANGED typeVars
    BY <1>1 DEF ReadTree, TreeNext, Descend, Ascend, EndUnit
  <2>2. at = -1 /\ owners = <<>> /\ funcSigs = <<>> /\ frames = <<>>
    BY <2>1 DEF OwnersInv
  <2>3. at' = -1 /\ owners' = <<>> /\ funcSigs' = <<>> /\ frames' = <<>>
    BY <2>1, <2>2 DEF typeVars
  <2> QED
    BY <2>3 DEF OwnersInv
<1>2. CASE StartTypes
  BY <1>2, StartOwners
<1>3. CASE SkipOwner
  <2>1. ~ Signed(owners[at + 1])
    BY <1>3 DEF SkipOwner, Signed, Named, Typed, Owner, Die, U
  <2>2. /\ ReadingTypes /\ UNCHANGED <<treeVars, owners>>
        /\ at' = at + 1 /\ frames' = <<>> /\ funcSigs' = funcSigs
    BY <1>3 DEF SkipOwner
  <2> QED
    BY <2>1, <2>2, NextOwner
<1>4. CASE StartOwner
  BY <1>4, SameOwner DEF StartOwner
<1>5. CASE Recall \/ Enter \/ Fail \/ FinishType
  <2>1. ReadingTypes /\ UNCHANGED <<treeVars, owners, at, funcSigs>>
    BY <1>5 DEF Recall, Enter, Fail, FinishType
  <2>2. frames # <<>>
    BY <1>5 DEF Recall, Enter, Fail, FinishType
  <2> QED
    BY <2>1, <2>2, SameOwner DEF OwnersInv
<1>6. CASE FinishFunction
  <2>1. ReadingTypes /\ AtOwner /\ Die(Owner).tag = "subprogram"
    BY <1>6 DEF FinishFunction
  <2>2. frames # <<>>
    BY <2>1 DEF AtOwner
  <2>3. Named(Owner) /\ Typed(Owner)
    BY <2>2 DEF OwnersInv
  <2>4. Signed(owners[at + 1]) /\ Die(Owner).name = NameOf(owners[at + 1])
    BY <2>1, <2>3 DEF Signed, NameOf, Named, Typed, Owner, Die, U
  <2>5. PICK sig : funcSigs' = Insert(funcSigs, Die(Owner).name, sig)
    BY <1>6 DEF FinishFunction
  <2>6. DOMAIN funcSigs' = DOMAIN funcSigs \cup {NameOf(owners[at + 1])}
    BY <2>4, <2>5 DEF Insert
  <2>7. UNCHANGED <<treeVars, owners>> /\ at' = at + 1 /\ frames' = <<>>
    BY <1>6 DEF FinishFunction
  <2> QED
    BY <2>1, <2>4, <2>6, <2>7, NextOwner
<1>7. CASE FinishVariable
  <2>1. ReadingTypes /\ Die(Owner).tag = "variable"
    BY <1>7 DEF FinishVariable
  <2>2. ~ Signed(owners[at + 1])
    BY <2>1 DEF Signed, Owner, Die, U
  <2>3. /\ UNCHANGED <<treeVars, owners>> /\ at' = at + 1 /\ frames' = <<>>
        /\ funcSigs' = funcSigs
    BY <1>7 DEF FinishVariable
  <2> QED
    BY <2>1, <2>2, <2>3, NextOwner
<1>8. CASE UNCHANGED vars
  <2>1. UNCHANGED <<treeVars, owners, at, frames, funcSigs>>
    BY <1>8 DEF vars, typeVars
  <2>2. /\ OwnersOf("subprogram")' = OwnersOf("subprogram")
        /\ OwnersOf("variable")' = OwnersOf("variable")
        /\ Reading' = Reading
        /\ SignedUpTo(at)' = SignedUpTo(at)
    BY <2>1, OwnersSame, SignedSame
  <2>3. (Named(Owner) /\ Typed(Owner))' = (Named(Owner) /\ Typed(Owner))
    BY <2>1 DEF Named, Typed, Owner, Die, U, treeVars
  <2> QED
    BY <2>1, <2>2, <2>3 DEF OwnersInv
<1> QED
  BY <1>1, <1>2, <1>3, <1>4, <1>5, <1>6, <1>7, <1>8 DEF ReadNext, TypesNext

(* When all is read the owners are all the functions and variables, so the *)
(* functions with a signature are those declared with a return type.       *)
LEMMA SignedReturns ==
  ASSUME IInv, OwnersInv, ReadingDone, NEW f, f # NoName
  PROVE  f \in DOMAIN funcSigs <=> ReturnsValue(f)
<1> DEFINE X == OwnersAt("subprogram") \cup OwnersAt("variable")
<1>1. /\ at \in Nat /\ at = Len(owners)
      /\ owners = OwnersOf("subprogram") \o OwnersOf("variable")
      /\ DOMAIN funcSigs = SignedUpTo(at)
  BY DEF OwnersInv, ReadingDone
<1>2. /\ OwnersOf("subprogram") \in Seq(OwnersAt("subprogram"))
      /\ OwnersOf("variable") \in Seq(OwnersAt("variable"))
      /\ \A x \in OwnersAt("subprogram") : Holds(OwnersOf("subprogram"), x)
  BY OwnersAreThere DEF IInv
<1>3. OwnersOf("subprogram") \in Seq(X) /\ OwnersOf("variable") \in Seq(X)
  BY <1>2
<1>4. \A x \in X : \E u \in 1..Len(units) : \E i \in FirstLevel(u) : x = [unit |-> u, die |-> i]
  BY DEF OwnersAt, Ids
<1> HIDE DEF X
<1>5. owners \in Seq(X) /\ \A x \in OwnersAt("subprogram") : Holds(owners, x)
  BY <1>1, <1>2, <1>3, ConcatHolds
<1>6. ASSUME f \in DOMAIN funcSigs PROVE ReturnsValue(f)
  <2>1. PICK j \in 1..at : Signed(owners[j]) /\ f = NameOf(owners[j])
    BY <1>1, <1>6 DEF SignedUpTo
  <2>2. owners[j] \in X
    BY <1>1, <1>5
  <2>3. PICK u \in 1..Len(units) : \E i \in FirstLevel(u) : owners[j] = [unit |-> u, die |-> i]
    BY <1>4, <2>2
  <2>4. PICK i \in FirstLevel(u) : owners[j] = [unit |-> u, die |-> i]
    BY <2>3
  <2>5. owners[j].unit = u /\ owners[j].die = i
    BY <2>4
  <2>6. units[u][i].tag = "subprogram" /\ units[u][i].name = f /\ units[u][i].type # None
    BY <2>1, <2>5 DEF Signed, NameOf
  <2> QED
    BY <2>6 DEF ReturnsValue
<1>7. ASSUME ReturnsValue(f) PROVE f \in DOMAIN funcSigs
  <2>1. PICK u \in 1..Len(units) :
          \E i \in FirstLevel(u) :
            units[u][i].tag = "subprogram" /\ units[u][i].name = f /\ units[u][i].type # None
    BY <1>7 DEF ReturnsValue
  <2>2. PICK i \in FirstLevel(u) :
          units[u][i].tag = "subprogram" /\ units[u][i].name = f /\ units[u][i].type # None
    BY <2>1
  <2> DEFINE x == [unit |-> u, die |-> i]
  <2>3. x \in OwnersAt("subprogram")
    BY <2>2 DEF OwnersAt, Ids
  <2>4. Signed(x) /\ NameOf(x) = f
    BY <2>2 DEF Signed, NameOf
  <2> HIDE DEF x
  <2>5. PICK j \in 1..Len(owners) : owners[j] = x
    BY <1>5, <2>3 DEF Holds
  <2>6. j \in {k \in 1..at : Signed(owners[k])} /\ f = NameOf(owners[j])
    BY <1>1, <2>4, <2>5
  <2> QED
    BY <1>1, <2>6 DEF SignedUpTo
<1> QED
  BY <1>6, <1>7

LEMMA HeaderStep == IInv /\ OwnersInv /\ HeaderInv /\ [Next]_headerVars => HeaderInv'
<1> SUFFICES ASSUME IInv, OwnersInv, HeaderInv, [Next]_headerVars PROVE HeaderInv'
  OBVIOUS
<1>1. ASSUME UNCHANGED <<vars, header>> PROVE HeaderInv'
  <2>1. /\ at' = at /\ owners' = owners /\ units' = units /\ trees' = trees
        /\ funcSigs' = funcSigs /\ globalVars' = globalVars /\ header' = header
    BY <1>1 DEF vars, treeVars, typeVars
  <2>2. ContextTypes' = ContextTypes
    BY <2>1 DEF ContextTypes
  <2> QED
    BY <2>1, <2>2 DEF HeaderInv, ReadingDone, Verified, FirstLevel, Below
<1>2. CASE ReadNext /\ UNCHANGED header
  <2>1. CASE header = NotPrinted
    BY <1>2, <2>1 DEF HeaderInv, NotPrinted
  <2>2. CASE ReadingDone
    <3>1. at >= 0 /\ ~ Reading /\ ~ ReadingTypes
      BY <2>2 DEF OwnersInv, ReadingDone, ReadingTypes
    <3>2. ~ ReadTree
      BY <3>1 DEF ReadTree, TreeNext, Descend, Ascend, EndUnit
    <3>3. ~ TypesNext
      BY <3>1 DEF TypesNext, StartTypes, SkipOwner, StartOwner, Recall, Enter, Fail, FinishType,
                  FinishFunction, FinishVariable
    <3> QED
      BY <1>2, <3>2, <3>3 DEF ReadNext
  <2> QED
    BY <2>1, <2>2 DEF HeaderInv
<1>3. CASE ReadingDone /\ \E request \in Requests : PrintModel(request)
  <2>1. PICK request \in Requests : PrintModel(request)
    BY <1>3
  <2>2. /\ header'.printed /\ header'.verified = Verified(request)
        /\ header'.request = request /\ header'.types = ContextTypes
    BY <2>1 DEF PrintModel
  <2>3. /\ at' = at /\ owners' = owners /\ units' = units /\ trees' = trees
        /\ funcSigs' = funcSigs /\ globalVars' = globalVars
    BY <2>1 DEF PrintModel, vars, treeVars, typeVars
  <2>4. ReadingDone' /\ Verified(request)' = Verified(request)
    BY <1>3, <2>3 DEF ReadingDone, Verified, FirstLevel, Below
  <2>5. ContextTypes' = ContextTypes
    BY <2>3 DEF ContextTypes
  <2> QED
    BY <2>2, <2>4, <2>5 DEF HeaderInv
<1>4. CASE Stopped
  BY <1>1, <1>4 DEF Stopped, headerVars
<1>5. CASE UNCHANGED headerVars
  BY <1>1, <1>5 DEF headerVars
<1> QED
  BY <1>2, <1>3, <1>4, <1>5 DEF Next

(***************************************************************************)
(* For every program and every request: when control_blk is printed and    *)
(* the command line names no functions to verify, those verified are the   *)
(* functions with a model that are not ignored and that some unit declares *)
(* with a return type, and no other, specified or not.                     *)
(***************************************************************************)
THEOREM VerifiedReturn == Spec => []VerifiesWhatReturns
<1>1. HeaderInit => Init /\ OwnersInv /\ HeaderInv
  BY OwnersInit DEF HeaderInit, HeaderInv
<1>2. [Next]_headerVars => [ReadNext]_vars
  BY DEF Next, headerVars, PrintModel, Stopped
<1>3. Spec => ReadSpec
  BY <1>1, <1>2, PTL DEF Spec, ReadSpec
<1>4. IInv /\ OwnersInv /\ HeaderInv => VerifiesWhatReturns
  <2> SUFFICES ASSUME IInv, OwnersInv, HeaderInv, header.printed, header.request.verify = {}
               PROVE  header.verified =
                        {f \in header.request.models : ReturnsValue(f)} \ header.request.ignored
    BY DEF VerifiesWhatReturns
  <2>1. header # NotPrinted
    BY DEF NotPrinted
  <2>2. /\ ReadingDone /\ header.request \in Requests
        /\ header.verified = Verified(header.request)
    BY <2>1 DEF HeaderInv
  <2>3. ASSUME NEW f \in header.request.models PROVE f \in DOMAIN funcSigs <=> ReturnsValue(f)
    <3>1. f # NoName
      BY <2>2, RequestsAssumption
    <3> QED
      BY <2>2, <3>1, SignedReturns
  <2>4. header.verified = {f \in header.request.models : f \in DOMAIN funcSigs} \ header.request.ignored
    BY <2>2 DEF Verified
  <2> QED
    BY <2>3, <2>4
<1> QED
  BY <1>1, <1>2, <1>3, <1>4, OwnersStep, HeaderStep, ReaderWalksTrees, WalkInv, PTL DEF Spec

-----------------------------------------------------------------------------
(***************************************************************************)
(* The types.  Unreadable, Declared and the walk over a type iterate a     *)
(* step; the iterations exist, whichever the step.                         *)
(***************************************************************************)
FailingStep(inner) ==
  {i \in DOMAIN Asked :
     \/ i \notin Whole
     \/ ~ Filters(i) /\ \E k \in 1..Len(Asked[i]) : Asked[i][k] \in inner}

KnownStep(inner) ==
  [i \in {j \in Whole : \A k \in 1..Len(Asked[j]) : Asked[j][k] \in DOMAIN inner} |->
     TypeDefn(i, [k \in 1..Len(Asked[i]) |-> inner[Asked[i][k]]])]

LevelStep(through, parts) ==
  {part \in UNION {Parts(p.typ) : p \in parts} : part.as \in through}

Start(c) == CASE c.of = "failing" -> {} [] c.of = "known" -> <<>> [] OTHER -> {Part("whole", c.typ)}
Step(c, x) ==
  CASE c.of = "failing" -> FailingStep(x)
    [] c.of = "known"   -> KnownStep(x)
    [] OTHER            -> LevelStep(c.through, x)

NthIterate(c, f, n) == IF n = 0 THEN Start(c) ELSE Step(c, f[n - 1])
IteratesUpTo(c, f, n) == \A i \in 0..n : f[i] = NthIterate(c, f, i)
Iterates(c, f) == f = [n \in Nat |-> NthIterate(c, f, n)]

LEMMA IteratesAgree ==
  ASSUME NEW c, NEW f, NEW g, NEW m \in Nat, NEW n \in Nat,
         IteratesUpTo(c, f, m), IteratesUpTo(c, g, n)
  PROVE  \A i \in 0..m : i <= n => f[i] = g[i]
<1> DEFINE T == {i \in 0..m : i <= n /\ f[i] # g[i]}
<1>1. CASE T = {}
  BY <1>1
<1>2. CASE T # {}
  <2>1. T \in SUBSET Nat
    OBVIOUS
  <2>2. PICK i \in T : \A j \in T : i <= j
    BY <1>2, <2>1, LeastOfNumbers
  <2>3. i \in 0..m /\ i \in 0..n /\ f[i] # g[i] /\ i \in Nat
    OBVIOUS
  <2>4. i # 0
    BY <2>3 DEF IteratesUpTo, NthIterate
  <2>5. i - 1 \in 0..m /\ i - 1 <= n /\ i - 1 \notin T
    BY <2>2, <2>3, <2>4
  <2>6. f[i - 1] = g[i - 1]
    BY <2>5
  <2> HIDE DEF T
  <2>7. f[i] = NthIterate(c, f, i) /\ g[i] = NthIterate(c, g, i)
    BY <2>3 DEF IteratesUpTo
  <2> QED
    BY <2>3, <2>4, <2>6, <2>7 DEF NthIterate
<1> QED
  BY <1>1, <1>2

LEMMA IteratesReach ==
  ASSUME NEW c
  PROVE  \A n \in Nat : \E f : IteratesUpTo(c, f, n)
<1> DEFINE T == {n \in Nat : ~ \E f : IteratesUpTo(c, f, n)}
<1>1. CASE T = {}
  BY <1>1
<1>2. CASE T # {}
  <2>1. PICK n \in T : \A m \in T : n <= m
    BY <1>2, LeastOfNumbers
  <2>2. n \in Nat /\ ~ \E f : IteratesUpTo(c, f, n)
    OBVIOUS
  <2>3. CASE n = 0
    <3> DEFINE f == [i \in {0} |-> Start(c)]
    <3>1. f[0] = Start(c)
      OBVIOUS
    <3> HIDE DEF f
    <3>2. IteratesUpTo(c, f, n)
      BY <2>3, <3>1 DEF IteratesUpTo, NthIterate
    <3> QED
      BY <2>2, <3>2
  <2>4. CASE n # 0
    <3>1. n - 1 \in Nat /\ n - 1 \notin T
      BY <2>1, <2>2, <2>4
    <3>2. PICK g : IteratesUpTo(c, g, n - 1)
      BY <3>1
    <3> DEFINE f == [i \in 0..n |-> IF i = n THEN NthIterate(c, g, n) ELSE g[i]]
    <3>3. /\ \A i \in 0..n - 1 : f[i] = g[i]
          /\ f[n] = NthIterate(c, g, n)
      BY <2>2
    <3> HIDE DEF f, T
    <3>4. ASSUME NEW i \in 0..n PROVE f[i] = NthIterate(c, f, i)
      <4>1. NthIterate(c, f, i) = NthIterate(c, g, i)
        <5>1. i # 0 => i - 1 \in 0..n - 1
          BY <2>2
        <5>2. i # 0 => f[i - 1] = g[i - 1]
          BY <3>3, <5>1
        <5> QED
          BY <5>2 DEF NthIterate
      <4>2. CASE i = n
        BY <3>3, <4>1, <4>2
      <4>3. CASE i # n
        <5>1. i \in 0..n - 1
          BY <2>2, <4>3
        <5> QED
          BY <3>2, <3>3, <4>1, <5>1 DEF IteratesUpTo
      <4> QED
        BY <4>2, <4>3
    <3>5. IteratesUpTo(c, f, n)
      BY <3>4 DEF IteratesUpTo
    <3> QED
      BY <2>2, <3>5
  <2> QED
    BY <2>3, <2>4
<1> QED
  BY <1>1, <1>2

LEMMA IteratesExist ==
  ASSUME NEW c
  PROVE  \E f : Iterates(c, f)
<1> DEFINE upTo == [n \in Nat |-> CHOOSE f : IteratesUpTo(c, f, n)]
           f == [n \in Nat |-> upTo[n][n]]
<1>1. \A n \in Nat : IteratesUpTo(c, upTo[n], n)
  BY IteratesReach, Zenon
<1>2. \A n \in Nat : f[n] = upTo[n][n]
  OBVIOUS
<1>3. f = [n \in Nat |-> f[n]]
  OBVIOUS
<1> HIDE DEF upTo, f
<1>4. ASSUME NEW n \in Nat PROVE f[n] = NthIterate(c, f, n)
  <2>1. n \in 0..n
    OBVIOUS
  <2>2. f[n] = NthIterate(c, upTo[n], n)
    BY <1>1, <1>2, <2>1 DEF IteratesUpTo
  <2>3. CASE n = 0
    BY <2>2, <2>3 DEF NthIterate
  <2>4. CASE n # 0
    <3>1. n - 1 \in Nat /\ n - 1 \in 0..n - 1 /\ n - 1 <= n
      BY <2>4
    <3>2. upTo[n - 1][n - 1] = upTo[n][n - 1]
      BY <1>1, <3>1, IteratesAgree
    <3> QED
      BY <1>2, <2>2, <3>1, <3>2 DEF NthIterate
  <2> QED
    BY <2>3, <2>4
<1>5. f = [n \in Nat |-> NthIterate(c, f, n)]
  BY <1>3, <1>4
<1> QED
  BY <1>5 DEF Iterates

Failing == CHOOSE f : f = [n \in Nat |-> IF n = 0 THEN {} ELSE FailingStep(f[n - 1])]
Known   == CHOOSE f : f = [n \in Nat |-> IF n = 0 THEN <<>> ELSE KnownStep(f[n - 1])]
Level(typ, through) ==
  CHOOSE f : f = [n \in Nat |-> IF n = 0 THEN {Part("whole", typ)}
                                         ELSE LevelStep(through, f[n - 1])]

Entries == Len(units[U])

LEMMA UnreadableIs == Unreadable = Failing[Entries]
BY DEF Unreadable, Failing, FailingStep, Entries

LEMMA DeclaredIs == Declared = Known[Entries]
BY DEF Declared, Known, KnownStep, Entries

LEMMA InsideIs ==
  ASSUME NEW typ, NEW through
  PROVE  Inside(typ, through) = UNION {Level(typ, through)[n] : n \in Depths}
BY DEF Inside, Level, LevelStep

LEMMA FailingAt ==
  /\ Failing[0] = {}
  /\ \A n \in Nat : Failing[n + 1] = FailingStep(Failing[n])
<1> DEFINE Is(f) == f = [n \in Nat |-> IF n = 0 THEN {} ELSE FailingStep(f[n - 1])]
<1>1. PICK c : c = [of |-> "failing"]
  OBVIOUS
<1>2. PICK f : Iterates(c, f)
  BY IteratesExist
<1>3. \A g, n : NthIterate(c, g, n) = IF n = 0 THEN {} ELSE FailingStep(g[n - 1])
  BY <1>1 DEF NthIterate, Start, Step
<1>4. Is(f)
  BY <1>2, <1>3 DEF Iterates
<1>5. Is(Failing)
  BY <1>4, Zenon DEF Failing
<1>6. \A n \in Nat : Failing[n] = IF n = 0 THEN {} ELSE FailingStep(Failing[n - 1])
  BY <1>5, Zenon
<1>7. \A n \in Nat : n + 1 \in Nat /\ n + 1 # 0 /\ (n + 1) - 1 = n
  OBVIOUS
<1> QED
  BY <1>6, <1>7

LEMMA KnownAt ==
  /\ Known[0] = <<>>
  /\ \A n \in Nat : Known[n + 1] = KnownStep(Known[n])
<1> DEFINE Is(f) == f = [n \in Nat |-> IF n = 0 THEN <<>> ELSE KnownStep(f[n - 1])]
<1>1. PICK c : c = [of |-> "known"]
  OBVIOUS
<1>2. PICK f : Iterates(c, f)
  BY IteratesExist
<1>3. \A g, n : NthIterate(c, g, n) = IF n = 0 THEN <<>> ELSE KnownStep(g[n - 1])
  BY <1>1 DEF NthIterate, Start, Step
<1>4. Is(f)
  BY <1>2, <1>3 DEF Iterates
<1>5. Is(Known)
  BY <1>4, Zenon DEF Known
<1>6. \A n \in Nat : Known[n] = IF n = 0 THEN <<>> ELSE KnownStep(Known[n - 1])
  BY <1>5, Zenon
<1>7. \A n \in Nat : n + 1 \in Nat /\ n + 1 # 0 /\ (n + 1) - 1 = n
  OBVIOUS
<1> QED
  BY <1>6, <1>7

LEMMA LevelAt ==
  ASSUME NEW typ, NEW through
  PROVE  /\ Level(typ, through)[0] = {Part("whole", typ)}
         /\ \A n \in Nat : Level(typ, through)[n + 1] = LevelStep(through, Level(typ, through)[n])
<1> DEFINE Is(f) == f = [n \in Nat |-> IF n = 0 THEN {Part("whole", typ)}
                                         ELSE LevelStep(through, f[n - 1])]
<1>1. PICK c : c = [of |-> "level", typ |-> typ, through |-> through]
  OBVIOUS
<1>2. PICK f : Iterates(c, f)
  BY IteratesExist
<1>3. \A g, n : NthIterate(c, g, n) =
                  IF n = 0 THEN {Part("whole", typ)} ELSE LevelStep(through, g[n - 1])
  BY <1>1 DEF NthIterate, Start, Step
<1>4. Is(f)
  BY <1>2, <1>3 DEF Iterates
<1> DEFINE level == Level(typ, through)
<1>5. Is(level)
  BY <1>4, Zenon DEF Level
<1>6. \A n \in Nat : level[n] = IF n = 0 THEN {Part("whole", typ)} ELSE LevelStep(through, level[n - 1])
  BY <1>5, Zenon
<1> HIDE DEF level
<1>7. \A n \in Nat : n + 1 \in Nat /\ n + 1 # 0 /\ (n + 1) - 1 = n
  OBVIOUS
<1>8. level[0] = {Part("whole", typ)} /\ \A n \in Nat : level[n + 1] = LevelStep(through, level[n])
  BY <1>6, <1>7
<1> QED
  BY <1>8 DEF level

-----------------------------------------------------------------------------
(* An increasing sequence of sets of numbers up to n, which stays what it  *)
(* is once it does not change, does not change after n steps.              *)
Grows(f, n) ==
  /\ f[0] = {}
  /\ \A k \in Nat : f[k] \subseteq f[k + 1] /\ f[k] \subseteq 1..n
  /\ \A k \in Nat : f[k + 1] = f[k] => f[k + 2] = f[k + 1]

LEMMA GrowthStops ==
  ASSUME NEW n \in Nat, NEW f, Grows(f, n)
  PROVE  f[n + 1] = f[n]
<1> SUFFICES ASSUME f[n + 1] # f[n] PROVE FALSE
  OBVIOUS
<1>1. \A k \in Nat : /\ f[k] \subseteq f[k + 1] /\ f[k] \subseteq 1..n
                     /\ f[k + 1] = f[k] => f[k + 2] = f[k + 1]
  BY DEF Grows
<1>2. \A k \in 0..n : f[n - k] # f[n - k + 1]
  <2> DEFINE T == {k \in 0..n : f[n - k] = f[n - k + 1]}
  <2>1. CASE T = {}
    BY <2>1
  <2>2. CASE T # {}
    <3>1. T \in SUBSET Nat
      OBVIOUS
    <3>2. PICK k \in T : \A j \in T : k <= j
      BY <2>2, <3>1, LeastOfNumbers
    <3>3. k \in 0..n /\ f[n - k] = f[n - k + 1]
      OBVIOUS
    <3>4. k # 0
      BY <3>3
    <3>5. k - 1 \in 0..n /\ k - 1 \notin T /\ n - k \in Nat
      BY <3>2, <3>3, <3>4
    <3>6. n - (k - 1) = (n - k) + 1 /\ (n - (k - 1)) + 1 = (n - k) + 2
      BY <3>3
    <3> QED
      BY <1>1, <3>3, <3>5, <3>6
  <2> QED
    BY <2>1, <2>2
<1>3. \A k \in 0..n : f[k] # f[k + 1]
  <2> TAKE k \in 0..n
  <2>1. n - k \in 0..n /\ n - (n - k) = k
    OBVIOUS
  <2> QED
    BY <1>2, <2>1
<1>4. IsFiniteSet(1..n) /\ Cardinality(1..n) = n
  BY FS_Interval
<1>5. \A k \in Nat : IsFiniteSet(f[k]) /\ Cardinality(f[k]) \in Nat /\ Cardinality(f[k]) <= n
  BY <1>1, <1>4, FS_Subset, FS_CardinalityType
<1>6. \A k \in 0..n : Cardinality(f[k]) + 1 <= Cardinality(f[k + 1])
  <2> TAKE k \in 0..n
  <2>1. k \in Nat /\ k + 1 \in Nat
    OBVIOUS
  <2>2. f[k] \in SUBSET f[k + 1] /\ f[k] # f[k + 1] /\ IsFiniteSet(f[k + 1])
    BY <1>1, <1>3, <1>5, <2>1
  <2>3. Cardinality(f[k]) < Cardinality(f[k + 1])
    <3>1. Cardinality(f[k]) <= Cardinality(f[k + 1])
      BY <2>2, FS_Subset
    <3>2. Cardinality(f[k]) # Cardinality(f[k + 1])
      BY <2>2, FS_Subset
    <3> QED
      BY <1>5, <2>1, <3>1, <3>2
  <2> QED
    BY <1>5, <2>1, <2>3
<1>7. \A k \in 0..n + 1 : k <= Cardinality(f[k])
  <2> DEFINE T == {k \in 0..n + 1 : ~ (k <= Cardinality(f[k]))}
  <2>1. CASE T = {}
    BY <2>1
  <2>2. CASE T # {}
    <3>1. T \in SUBSET Nat
      OBVIOUS
    <3>2. PICK k \in T : \A j \in T : k <= j
      BY <2>2, <3>1, LeastOfNumbers
    <3>3. k \in 0..n + 1 /\ ~ (k <= Cardinality(f[k]))
      OBVIOUS
    <3>4. k # 0
      BY <1>5, <3>3
    <3>5. k - 1 \in 0..n /\ k - 1 \in 0..n + 1 /\ k - 1 \notin T
      BY <3>2, <3>3, <3>4
    <3>6. k - 1 <= Cardinality(f[k - 1])
      BY <3>5
    <3>7. Cardinality(f[k - 1]) + 1 <= Cardinality(f[(k - 1) + 1])
      BY <1>6, <3>5
    <3>8. (k - 1) + 1 = k /\ Cardinality(f[k - 1]) \in Nat /\ Cardinality(f[k]) \in Nat
      BY <1>5, <3>3, <3>5
    <3> HIDE DEF T
    <3> QED
      BY <3>3, <3>5, <3>6, <3>7, <3>8
  <2> QED
    BY <2>1, <2>2
<1>8. n + 1 \in 0..n + 1 /\ n + 1 \in Nat
  OBVIOUS
<1> QED
  BY <1>5, <1>7, <1>8

-----------------------------------------------------------------------------
(* The unit that is being read.                                            *)
IsTypeTag(i) == Die(i).tag \notin {"subprogram", "variable"}

UnitFacts ==
  /\ Entries \in Nat
  /\ FirstLevel(U) \subseteq 1..Entries
  /\ \A i \in 1..Entries : Die(i).depth = 1 => i \in FirstLevel(U)
  /\ \A i \in 1..Entries :
       /\ Typed(i) => Die(i).type \in 1..Entries /\ IsTypeTag(Die(i).type)
       /\ Die(i).tag = "subrange" /\ Typed(i) =>
            LET index == Die(i).type
            IN  Die(index).tag = "base" /\ Die(index).depth = 1 /\ Die(index).bytes = Xlen
       /\ Die(i).tag = "pointer" /\ Sized(i) => Die(i).bytes = Xlen

LEMMA BelowAreEntries ==
  ASSUME UnitFacts, NEW node, NEW S, S \subseteq Below(U, node)
  PROVE  /\ S \in SUBSET (1..Entries) /\ S \in SUBSET Nat /\ IsFiniteSet(S)
         /\ InOrder(S) \in Seq(S)
<1>1. Entries \in Nat
  BY DEF UnitFacts
<1>2. S \in SUBSET (1..Entries)
  BY DEF Below, Entries
<1>3. IsFiniteSet(1..Entries)
  BY <1>1, FS_Interval
<1>4. IsFiniteSet(S)
  BY <1>2, <1>3, FS_Subset
<1>5. S \in SUBSET Nat
  BY <1>1, <1>2
<1> QED
  BY <1>2, <1>4, <1>5, InOrderLists

(* The types that are asked for are entries of types of the unit.          *)
TypeEntries == {i \in 1..Entries : IsTypeTag(i)}

LEMMA TypesOfTyped ==
  ASSUME UnitFacts, NEW node, NEW tag
  PROVE  TypesOf(Readable(node, tag)) \in Seq(TypeEntries)
<1> DEFINE S == {i \in Below(U, node) : Die(i).tag = tag /\ Named(i) /\ Typed(i)}
<1>1. S \in SUBSET (1..Entries) /\ InOrder(S) \in Seq(S)
  <2>1. S \subseteq Below(U, node)
    OBVIOUS
  <2> HIDE DEF S
  <2> QED
    BY <2>1, BelowAreEntries
<1>2. \A i \in S : Die(i).type \in TypeEntries
  BY <1>1 DEF UnitFacts, TypeEntries
<1>3. PICK ids : ids = InOrder(S)
  OBVIOUS
<1>4. Readable(node, tag) = ids
  BY <1>3 DEF Readable
<1> HIDE DEF S
<1>5. ids \in Seq(S) /\ Len(ids) \in Nat /\ \A k \in 1..Len(ids) : ids[k] \in S
  BY <1>1, <1>3
<1>6. TypesOf(ids) \in [1..Len(ids) -> TypeEntries]
  BY <1>2, <1>5 DEF TypesOf
<1> QED
  BY <1>4, <1>5, <1>6

LEMMA QueriesAreTypes ==
  ASSUME UnitFacts, NEW i \in 1..Entries, Die(i).tag = "subprogram" => Typed(i)
  PROVE  Queries(i) \in Seq(TypeEntries)
<1>1. Typed(i) => Die(i).type \in TypeEntries
  BY DEF UnitFacts, TypeEntries
<1>2. Typed(i) => <<Die(i).type>> \in Seq(TypeEntries)
  BY <1>1
<1>3. TypesOf(Formals(i)) \in Seq(TypeEntries) /\ TypesOf(Members(i)) \in Seq(TypeEntries)
  BY TypesOfTyped DEF Formals, Members
<1>4. CASE Die(i).tag = "subprogram"
  <2>1. Queries(i) = <<Die(i).type>> \o TypesOf(Formals(i))
    BY <1>4 DEF Queries
  <2> QED
    BY <1>2, <1>3, <1>4, <2>1
<1>5. CASE Die(i).tag \in {"variable", "typedef", "pointer"} /\ Typed(i)
  BY <1>2, <1>5 DEF Queries
<1>6. CASE Die(i).tag = "array" /\ Typed(i)
  <2> DEFINE S == {j \in Below(U, i) : Die(j).tag = "subrange"}
             s == Subrange(i)
  <2>1. s # <<>> => s[1] \in 1..Entries
    <3>1. S \subseteq Below(U, i) /\ s = InOrder(S)
      BY DEF Subrange, Tagged, Die
    <3> HIDE DEF S, s
    <3>2. S \in SUBSET (1..Entries) /\ s \in Seq(S)
      BY <3>1, BelowAreEntries
    <3>3. s # <<>> => s[1] \in S
      BY <3>2
    <3> QED
      BY <3>2, <3>3
  <2>2. s # <<>> /\ Typed(s[1]) => <<Die(s[1]).type>> \in Seq(TypeEntries)
    <3> HIDE DEF s
    <3>1. s # <<>> /\ Typed(s[1]) => Die(s[1]).type \in TypeEntries
      BY <2>1 DEF UnitFacts, TypeEntries
    <3> QED
      BY <3>1
  <2> DEFINE t == IF s # <<>> /\ Typed(s[1]) THEN <<Die(s[1]).type>> ELSE <<>>
  <2>3. Queries(i) = <<Die(i).type>> \o t
    BY <1>6 DEF Queries
  <2>4. t \in Seq(TypeEntries)
    BY <2>2
  <2> HIDE DEF t, s
  <2> QED
    BY <1>2, <1>6, <2>3, <2>4
<1>7. CASE Die(i).tag = "struct" /\ Named(i) /\ Sized(i)
  BY <1>3, <1>7 DEF Queries
<1>8. CASE /\ ~ (Die(i).tag = "subprogram")
           /\ ~ (Die(i).tag \in {"variable", "typedef", "pointer"} /\ Typed(i))
           /\ ~ (Die(i).tag = "array" /\ Typed(i))
           /\ ~ (Die(i).tag = "struct" /\ Named(i) /\ Sized(i))
  <2>1. Queries(i) = <<>>
    BY <1>8, Zenon DEF Queries
  <2> QED
    BY <2>1
<1> QED
  BY <1>4, <1>5, <1>6, <1>7, <1>8, Zenon

LEMMA AskedIs ==
  /\ DOMAIN Asked = 1..Entries
  /\ \A i \in 1..Entries : Asked[i] = Queries(i)
BY DEF Asked, Entries

LEMMA WholeAreEntries ==
  ASSUME UnitFacts
  PROVE  Whole \subseteq TypeEntries
BY DEF UnitFacts, Whole, Complete, TypeEntries, IsTypeTag

-----------------------------------------------------------------------------
(* Unreadable entries.                                                     *)
LEMMA FailingSets ==
  \A n \in Nat : Failing[n] \subseteq 1..Entries /\ Failing[n] \subseteq Failing[n + 1]
<1>1. \A n \in Nat : Failing[n] \subseteq 1..Entries
  <2> TAKE n \in Nat
  <2>1. n = 0 \/ (n - 1 \in Nat /\ n = (n - 1) + 1)
    OBVIOUS
  <2>2. n # 0 => Failing[n] = FailingStep(Failing[n - 1])
    BY <2>1, FailingAt
  <2> QED
    BY <2>2, FailingAt, AskedIs DEF FailingStep
<1> DEFINE T == {n \in Nat : ~ (Failing[n] \subseteq Failing[n + 1])}
<1>2. CASE T = {}
  BY <1>1, <1>2
<1>3. CASE T # {}
  <2>1. PICK n \in T : \A m \in T : n <= m
    BY <1>3, LeastOfNumbers
  <2>2. n \in Nat /\ ~ (Failing[n] \subseteq Failing[n + 1])
    OBVIOUS
  <2>3. n # 0
    BY <2>2, FailingAt
  <2>4. n - 1 \in Nat /\ n - 1 \notin T /\ (n - 1) + 1 = n
    BY <2>1, <2>2, <2>3
  <2>5. Failing[n - 1] \subseteq Failing[n]
    BY <2>4
  <2>6. Failing[n] = FailingStep(Failing[n - 1]) /\ Failing[n + 1] = FailingStep(Failing[n])
    BY <2>2, <2>4, FailingAt
  <2> QED
    BY <2>2, <2>5, <2>6 DEF FailingStep
<1> QED
  BY <1>2, <1>3

LEMMA FailingGrows ==
  \A m, n \in Nat : m <= n => Failing[m] \subseteq Failing[n]
<1> SUFFICES ASSUME NEW m \in Nat PROVE \A n \in Nat : m <= n => Failing[m] \subseteq Failing[n]
  OBVIOUS
<1> DEFINE T == {n \in Nat : m <= n /\ ~ (Failing[m] \subseteq Failing[n])}
<1>1. CASE T = {}
  BY <1>1
<1>2. CASE T # {}
  <2>1. PICK n \in T : \A k \in T : n <= k
    BY <1>2, LeastOfNumbers
  <2>2. n \in Nat /\ m <= n /\ ~ (Failing[m] \subseteq Failing[n])
    OBVIOUS
  <2>3. n # m
    BY <2>2
  <2>4. n - 1 \in Nat /\ n - 1 \notin T /\ m <= n - 1 /\ (n - 1) + 1 = n
    BY <2>1, <2>2, <2>3
  <2> QED
    BY <2>2, <2>4, FailingSets
<1> QED
  BY <1>1, <1>2

(* What makes an entry unreadable, step by step and in the end.            *)
LEMMA FailingFrom ==
  ASSUME NEW n \in Nat, NEW i \in Failing[n], i \in Whole
  PROVE  /\ n # 0 /\ ~ Filters(i)
         /\ \E k \in 1..Len(Queries(i)) : Queries(i)[k] \in Failing[n - 1]
<1>1. n # 0
  BY FailingAt
<1>2. n - 1 \in Nat /\ (n - 1) + 1 = n
  BY <1>1
<1>3. Failing[n] = FailingStep(Failing[n - 1])
  BY <1>2, FailingAt
<1>4. i \in 1..Entries
  BY FailingSets
<1> QED
  BY <1>1, <1>3, <1>4, AskedIs DEF FailingStep

LEMMA UnreadableAre ==
  ASSUME UnitFacts, NEW i \in 1..Entries
  PROVE  i \in Unreadable <=>
           \/ i \notin Whole
           \/ ~ Filters(i) /\ \E k \in 1..Len(Queries(i)) : Queries(i)[k] \in Unreadable
<1>1. Entries \in Nat
  BY DEF UnitFacts
<1>2. Grows(Failing, Entries)
  <2>1. \A k \in Nat : Failing[k + 1] = Failing[k] => Failing[k + 2] = Failing[k + 1]
    <3> TAKE k \in Nat
    <3>1. k + 1 \in Nat /\ (k + 1) + 1 = k + 2
      OBVIOUS
    <3> QED
      BY <3>1, FailingAt
  <2> QED
    BY <2>1, FailingSets, FailingAt DEF Grows
<1>3. Failing[Entries + 1] = Failing[Entries]
  BY <1>1, <1>2, GrowthStops
<1>4. Unreadable = FailingStep(Unreadable)
  BY <1>1, <1>3, UnreadableIs, FailingAt
<1> QED
  BY <1>4, AskedIs DEF FailingStep

-----------------------------------------------------------------------------
(* The entries that declare a type.                                        *)
LEMMA KnownFrom ==
  ASSUME NEW n \in Nat, NEW i \in DOMAIN Known[n], UnitFacts
  PROVE  /\ n # 0 /\ i \in Whole
         /\ \A k \in 1..Len(Queries(i)) : Queries(i)[k] \in DOMAIN Known[n - 1]
         /\ Known[n][i] = TypeDefn(i, [k \in 1..Len(Queries(i)) |-> Known[n - 1][Queries(i)[k]]])
<1>1. n # 0
  BY KnownAt
<1>2. n - 1 \in Nat /\ (n - 1) + 1 = n
  BY <1>1
<1>3. Known[n] = KnownStep(Known[n - 1])
  BY <1>2, KnownAt
<1>4. i \in Whole
  BY <1>3 DEF KnownStep
<1>5. Asked[i] = Queries(i)
  BY <1>4, WholeAreEntries, AskedIs DEF TypeEntries
<1> QED
  BY <1>1, <1>3, <1>4, <1>5 DEF KnownStep

LEMMA KnownInto ==
  ASSUME NEW n \in Nat, NEW i \in Whole, UnitFacts,
         \A k \in 1..Len(Queries(i)) : Queries(i)[k] \in DOMAIN Known[n]
  PROVE  /\ i \in DOMAIN Known[n + 1]
         /\ Known[n + 1][i] = TypeDefn(i, [k \in 1..Len(Queries(i)) |-> Known[n][Queries(i)[k]]])
<1>1. Known[n + 1] = KnownStep(Known[n])
  BY KnownAt
<1>2. Asked[i] = Queries(i)
  BY WholeAreEntries, AskedIs DEF TypeEntries
<1> QED
  BY <1>1, <1>2 DEF KnownStep

KeepsKnown(m, n) ==
  \A i \in DOMAIN Known[m] : i \in DOMAIN Known[n] /\ Known[n][i] = Known[m][i]

LEMMA KnownStays ==
  ASSUME UnitFacts
  PROVE  \A n \in Nat : KeepsKnown(n, n + 1)
<1> DEFINE T == {n \in Nat : ~ KeepsKnown(n, n + 1)}
<1>1. CASE T = {}
  BY <1>1
<1>2. CASE T # {}
  <2>1. PICK n \in T : \A m \in T : n <= m
    BY <1>2, LeastOfNumbers
  <2>2. n \in Nat /\ ~ KeepsKnown(n, n + 1)
    OBVIOUS
  <2>3. PICK i \in DOMAIN Known[n] : ~ (i \in DOMAIN Known[n + 1] /\ Known[n + 1][i] = Known[n][i])
    BY <2>2 DEF KeepsKnown
  <2>4. /\ n # 0 /\ i \in Whole
        /\ \A k \in 1..Len(Queries(i)) : Queries(i)[k] \in DOMAIN Known[n - 1]
        /\ Known[n][i] = TypeDefn(i, [k \in 1..Len(Queries(i)) |-> Known[n - 1][Queries(i)[k]]])
    BY <2>2, <2>3, KnownFrom
  <2>5. n - 1 \in Nat /\ n - 1 \notin T /\ (n - 1) + 1 = n
    BY <2>1, <2>2, <2>4
  <2>6. KeepsKnown(n - 1, n)
    BY <2>5
  <2>7. \A k \in 1..Len(Queries(i)) : /\ Queries(i)[k] \in DOMAIN Known[n]
                                     /\ Known[n][Queries(i)[k]] = Known[n - 1][Queries(i)[k]]
    BY <2>4, <2>6 DEF KeepsKnown
  <2> HIDE DEF T
  <2>8. /\ i \in DOMAIN Known[n + 1]
        /\ Known[n + 1][i] = TypeDefn(i, [k \in 1..Len(Queries(i)) |-> Known[n][Queries(i)[k]]])
    BY <2>2, <2>4, <2>7, KnownInto
  <2>9. [k \in 1..Len(Queries(i)) |-> Known[n][Queries(i)[k]]]
          = [k \in 1..Len(Queries(i)) |-> Known[n - 1][Queries(i)[k]]]
    BY <2>7
  <2>10. Known[n + 1][i] = Known[n][i]
    BY <2>4, <2>8, <2>9, Zenon
  <2> QED
    BY <2>3, <2>8, <2>10
<1> QED
  BY <1>1, <1>2

LEMMA KnownGrows ==
  ASSUME UnitFacts
  PROVE  \A m, n \in Nat : m <= n => KeepsKnown(m, n)
<1> SUFFICES ASSUME NEW m \in Nat PROVE \A n \in Nat : m <= n => KeepsKnown(m, n)
  OBVIOUS
<1> DEFINE T == {n \in Nat : m <= n /\ ~ KeepsKnown(m, n)}
<1>1. CASE T = {}
  BY <1>1
<1>2. CASE T # {}
  <2>1. PICK n \in T : \A k \in T : n <= k
    BY <1>2, LeastOfNumbers
  <2>2. n \in Nat /\ m <= n /\ ~ KeepsKnown(m, n)
    OBVIOUS
  <2>3. n # m
    BY <2>2 DEF KeepsKnown
  <2>4. n - 1 \in Nat /\ n - 1 \notin T /\ m <= n - 1 /\ (n - 1) + 1 = n
    BY <2>1, <2>2, <2>3
  <2>5. KeepsKnown(m, n - 1) /\ KeepsKnown(n - 1, n)
    BY <2>4, KnownStays
  <2> QED
    BY <2>2, <2>5 DEF KeepsKnown
<1> QED
  BY <1>1, <1>2

(* What a declared type is made of.                                        *)
LEMMA DeclaredAre ==
  ASSUME UnitFacts, NEW i \in DOMAIN Declared
  PROVE  /\ i \in Whole
         /\ \A k \in 1..Len(Queries(i)) : Queries(i)[k] \in DOMAIN Declared
         /\ Declared[i] = TypeDefn(i, [k \in 1..Len(Queries(i)) |-> Declared[Queries(i)[k]]])
<1> DEFINE n == Entries
<1>1. n \in Nat /\ Declared = Known[n]
  BY DeclaredIs DEF UnitFacts
<1>2. /\ n # 0 /\ i \in Whole
      /\ \A k \in 1..Len(Queries(i)) : Queries(i)[k] \in DOMAIN Known[n - 1]
      /\ Known[n][i] = TypeDefn(i, [k \in 1..Len(Queries(i)) |-> Known[n - 1][Queries(i)[k]]])
  BY <1>1, KnownFrom
<1>3. n - 1 \in Nat /\ n - 1 <= n
  BY <1>1, <1>2
<1>4. KeepsKnown(n - 1, n)
  BY <1>1, <1>3, KnownGrows
<1> HIDE DEF n
<1>5. \A k \in 1..Len(Queries(i)) : /\ Queries(i)[k] \in DOMAIN Known[n]
                                   /\ Known[n][Queries(i)[k]] = Known[n - 1][Queries(i)[k]]
  BY <1>2, <1>4 DEF KeepsKnown
<1>6. [k \in 1..Len(Queries(i)) |-> Known[n][Queries(i)[k]]]
        = [k \in 1..Len(Queries(i)) |-> Known[n - 1][Queries(i)[k]]]
  BY <1>5
<1>7. Known[n][i] = TypeDefn(i, [k \in 1..Len(Queries(i)) |-> Known[n][Queries(i)[k]]])
  BY <1>2, <1>6, Zenon
<1> QED
  BY <1>1, <1>2, <1>5, <1>7, Zenon

-----------------------------------------------------------------------------
(* The unit does not change within the reading of an owner.                *)
SameUnit == UNCHANGED <<treeVars, owners, at>>

LEMMA SameEntries ==
  ASSUME SameUnit
  PROVE  /\ Entries' = Entries /\ Owner' = Owner
         /\ Whole' = Whole /\ TypeEntries' = TypeEntries
<1>1. U' = U /\ units' = units /\ trees' = trees
  BY DEF SameUnit, U, treeVars
<1>2. \A i : Die(i)' = Die(i)
  BY <1>1 DEF Die
<1>3. \A i : Complete(i)' = Complete(i)
  BY <1>1 DEF Complete, Die, Queries, Named, Sized, Typed, Members, Formals, Subrange, Readable,
              Tagged, TypesOf, Below
<1>4. Owner' = Owner
  BY DEF SameUnit, Owner
<1> QED
  BY <1>1, <1>2, <1>3, <1>4 DEF Entries, Whole, FirstLevel, Below, TypeEntries, IsTypeTag

LEMMA SameEntry ==
  ASSUME SameUnit, NEW i
  PROVE  /\ Queries(i)' = Queries(i) /\ Die(i)' = Die(i)
         /\ Filters(i)' = Filters(i) /\ Typed(i)' = Typed(i)
<1>1. U' = U /\ units' = units /\ trees' = trees
  BY DEF SameUnit, U, treeVars
<1> QED
  BY <1>1 DEF Die, Queries, Named, Sized, Typed, Members, Formals, Subrange, Readable, Tagged,
              TypesOf, Below, Filters

LEMMA SameAsked ==
  ASSUME SameUnit
  PROVE  Asked' = Asked
<1>1. U' = U /\ units' = units
  BY DEF SameUnit, U, treeVars
<1> QED
  BY <1>1, SameEntries, SameEntry DEF Asked, Entries

LEMMA SameFailing ==
  ASSUME SameUnit
  PROVE  Failing' = Failing /\ Unreadable' = Unreadable
<1>1. U' = U /\ units' = units
  BY DEF SameUnit, U, treeVars
<1>2. Asked' = Asked /\ Whole' = Whole
  BY SameEntries, SameAsked
<1>3. Failing' = Failing
  BY <1>1, <1>2 DEF Failing, FailingStep, Filters, Die
<1>4. Unreadable' = Unreadable
  BY <1>1, <1>2 DEF Unreadable, Filters, Die
<1> QED
  BY <1>3, <1>4

LEMMA SameDeclared ==
  ASSUME SameUnit
  PROVE  Declared' = Declared
<1>1. U' = U /\ units' = units /\ trees' = trees
  BY DEF SameUnit, U, treeVars
<1>2. Asked' = Asked /\ Whole' = Whole
  BY SameEntries, SameAsked
<1> QED
  BY <1>1, <1>2 DEF Declared, TypeDefn, Fields, Members, Readable, Below, Die, Named, Typed

-----------------------------------------------------------------------------
(* The types of entries are no errors.                                     *)
LEMMA TypeDefnIsType ==
  ASSUME NEW i, Complete(i), NEW parts, Die(i).tag = "typedef" => parts[1] # Err
  PROVE  TypeDefn(i, parts) # Err
<1>1. Die(i).tag \in {"base", "typedef", "pointer", "array", "struct"}
  BY DEF Complete
<1>2. CASE Die(i).tag = "base"
  BY <1>2 DEF TypeDefn, Primitive, Err
<1>3. CASE Die(i).tag = "typedef"
  BY <1>3 DEF TypeDefn
<1>4. CASE Die(i).tag = "pointer"
  <2>1. TypeDefn(i, parts) = Pointer(parts[1], Die(i).bytes)
    BY <1>4 DEF TypeDefn
  <2>2. TypeDefn(i, parts).kind = "pointer" /\ Err.kind = "error"
    BY <2>1 DEF Pointer, Err
  <2> QED
    BY <2>2
<1>5. CASE Die(i).tag = "array"
  <2>1. TypeDefn(i, parts) = Array(parts[2], parts[1])
    BY <1>5 DEF TypeDefn
  <2>2. TypeDefn(i, parts).kind = "array" /\ Err.kind = "error"
    BY <2>1 DEF Array, Err
  <2> QED
    BY <2>2
<1>6. CASE Die(i).tag = "struct"
  <2>1. TypeDefn(i, parts) = Struct(Die(i).name, Fields(i, parts), Die(i).bytes)
    BY <1>6 DEF TypeDefn
  <2>2. TypeDefn(i, parts).kind = "struct" /\ Err.kind = "error"
    BY <2>1 DEF Struct, Err
  <2> QED
    BY <2>2
<1> QED
  BY <1>1, <1>2, <1>3, <1>4, <1>5, <1>6

LEMMA AliasAsks ==
  ASSUME NEW i, Complete(i), Die(i).tag \in {"typedef", "pointer"}
  PROVE  Queries(i) = <<Die(i).type>>
<1>1. Typed(i)
  BY DEF Complete
<1> QED
  BY <1>1 DEF Queries

LEMMA KnownAreTypes ==
  ASSUME UnitFacts
  PROVE  \A n \in Nat : \A i \in DOMAIN Known[n] : Known[n][i] # Err
<1> DEFINE T == {n \in Nat : ~ \A i \in DOMAIN Known[n] : Known[n][i] # Err}
<1>1. CASE T = {}
  BY <1>1
<1>2. CASE T # {}
  <2>1. PICK n \in T : \A m \in T : n <= m
    BY <1>2, LeastOfNumbers
  <2>2. n \in Nat /\ ~ \A i \in DOMAIN Known[n] : Known[n][i] # Err
    OBVIOUS
  <2>3. PICK i \in DOMAIN Known[n] : Known[n][i] = Err
    BY <2>2
  <2>4. /\ n # 0 /\ i \in Whole
        /\ \A k \in 1..Len(Queries(i)) : Queries(i)[k] \in DOMAIN Known[n - 1]
        /\ Known[n][i] = TypeDefn(i, [k \in 1..Len(Queries(i)) |-> Known[n - 1][Queries(i)[k]]])
    BY <2>2, <2>3, KnownFrom
  <2>5. n - 1 \in Nat /\ n - 1 \notin T
    BY <2>1, <2>2, <2>4
  <2>6. \A j \in DOMAIN Known[n - 1] : Known[n - 1][j] # Err
    BY <2>5
  <2> HIDE DEF T
  <2>7. Complete(i)
    BY <2>4 DEF Whole
  <2> DEFINE parts == [k \in 1..Len(Queries(i)) |-> Known[n - 1][Queries(i)[k]]]
  <2>8. ASSUME Die(i).tag = "typedef" PROVE parts[1] # Err
    <3>1. 1 \in 1..Len(Queries(i))
      BY <2>7, <2>8, AliasAsks
    <3> QED
      BY <2>4, <2>6, <3>1
  <2> HIDE DEF parts
  <2>9. TypeDefn(i, parts) # Err
    BY <2>7, <2>8, TypeDefnIsType
  <2> QED
    BY <2>3, <2>4, <2>9 DEF parts
<1> QED
  BY <1>1, <1>2

LEMMA DeclaredAreTypes ==
  ASSUME UnitFacts
  PROVE  \A i \in DOMAIN Declared : Declared[i] # Err
BY KnownAreTypes, DeclaredIs DEF UnitFacts

LEMMA PairOf ==
  ASSUME NEW a, NEW b
  PROVE  /\ Len(<<a>> \o <<b>>) = 2
         /\ (<<a>> \o <<b>>)[1] = a /\ (<<a>> \o <<b>>)[2] = b
OBVIOUS

(* The type of the indices of an array is a base type of the unit.         *)
LEMMA ArrayAsks ==
  ASSUME UnitFacts, NEW i \in Whole, Die(i).tag = "array"
  PROVE  /\ Len(Queries(i)) = 2 /\ Queries(i)[1] = Die(i).type
         /\ Queries(i)[2] \in Whole /\ Queries(Queries(i)[2]) = <<>>
         /\ Die(Queries(i)[2]).tag = "base" /\ Die(Queries(i)[2]).bytes = Xlen
<1>1. Complete(i) /\ Len(Queries(i)) = 2
  BY DEF Whole, Complete
<1>2. Typed(i)
  BY <1>1 DEF Queries
<1> DEFINE S == {j \in Below(U, i) : Die(j).tag = "subrange"}
           s == Subrange(i)
<1>3. S \in SUBSET (1..Entries) /\ s \in Seq(S)
  <2>1. S \subseteq Below(U, i) /\ s = InOrder(S)
    BY DEF Subrange, Tagged, Die
  <2> HIDE DEF S, s
  <2> QED
    BY <2>1, BelowAreEntries
<1>4. s # <<>> => s[1] \in S
  <2> HIDE DEF S, s
  <2> QED
    BY <1>3
<1>5. Queries(i) = <<Die(i).type>> \o
                     (IF s # <<>> /\ Typed(s[1]) THEN <<Die(s[1]).type>> ELSE <<>>)
  BY <1>2 DEF Queries
<1>6. PICK t : t = s
  OBVIOUS
<1>7. t # <<>> /\ Typed(t[1])
  <2> HIDE DEF s
  <2>1. CASE ~ (t # <<>> /\ Typed(t[1]))
    <3>1. Queries(i) = <<Die(i).type>> \o <<>>
      BY <1>5, <1>6, <2>1
    <3> QED
      BY <1>1, <3>1
  <2> QED
    BY <2>1
<1>8. t[1] \in 1..Entries /\ Die(t[1]).tag = "subrange"
  BY <1>3, <1>4, <1>6, <1>7
<1>9. Queries(i)[1] = Die(i).type /\ Queries(i)[2] = Die(t[1]).type
  <2> HIDE DEF s
  <2>1. Queries(i) = <<Die(i).type>> \o <<Die(t[1]).type>>
    BY <1>5, <1>6, <1>7
  <2> QED
    BY <2>1, PairOf
<1> HIDE DEF S, s
<1>10. PICK x : x = Die(t[1]).type
  OBVIOUS
<1>11. x \in 1..Entries /\ Die(x).tag = "base" /\ Die(x).depth = 1 /\ Die(x).bytes = Xlen
  BY <1>7, <1>8, <1>10 DEF UnitFacts
<1>12. Queries(x) = <<>>
  BY <1>11 DEF Queries
<1>13. x \in FirstLevel(U)
  BY <1>11 DEF UnitFacts
<1>14. Xlen # None
  BY EntriesAssumption DEF None
<1>15. x \in Whole
  BY <1>11, <1>13, <1>14 DEF Whole, Complete, Sized
<1> QED
  BY <1>1, <1>9, <1>10, <1>11, <1>12, <1>15

-----------------------------------------------------------------------------
(***************************************************************************)
(* The stack.  A frame above the owner reads the type that the one below   *)
(* it asks for.                                                            *)
(***************************************************************************)
IsFrame(f) == f = [die |-> f.die, parts |-> f.parts] /\ \E S : f.parts \in Seq(S)

Links(stk) ==
  /\ \E S : stk \in Seq(S)
  /\ stk # <<>> /\ stk[1].die = Owner
  /\ \A m \in 1..Len(stk) :
       /\ IsFrame(stk[m]) /\ stk[m].die \in 1..Entries
       /\ Die(stk[m].die).tag = "subprogram" => Typed(stk[m].die)
       /\ Len(stk[m].parts) <= Len(Queries(stk[m].die))
  /\ \A m \in 1..Len(stk) - 1 :
       /\ Len(stk[m].parts) < Len(Queries(stk[m].die))
       /\ stk[m + 1].die = Queries(stk[m].die)[Len(stk[m].parts) + 1]

LEMMA FramesAre ==
  ASSUME UnitFacts, NEW stk, Links(stk)
  PROVE  /\ Len(stk) \in Nat /\ Len(stk) > 0
         /\ \A m \in 1..Len(stk) :
              /\ stk[m].die \in 1..Entries
              /\ Queries(stk[m].die) \in Seq(TypeEntries)
              /\ Len(Queries(stk[m].die)) \in Nat
              /\ Len(stk[m].parts) \in Nat
              /\ Len(stk[m].parts) <= Len(Queries(stk[m].die))
         /\ \A m \in 2..Len(stk) : stk[m].die \in TypeEntries
<1>1. PICK S : stk \in Seq(S)
  BY DEF Links
<1>2. Len(stk) \in Nat /\ Len(stk) > 0
  BY <1>1 DEF Links
<1>3. ASSUME NEW m \in 1..Len(stk)
      PROVE  /\ stk[m].die \in 1..Entries
             /\ Queries(stk[m].die) \in Seq(TypeEntries)
             /\ Len(Queries(stk[m].die)) \in Nat
             /\ Len(stk[m].parts) \in Nat
             /\ Len(stk[m].parts) <= Len(Queries(stk[m].die))
  <2>1. /\ stk[m].die \in 1..Entries
        /\ Die(stk[m].die).tag = "subprogram" => Typed(stk[m].die)
        /\ Len(stk[m].parts) <= Len(Queries(stk[m].die))
    BY DEF Links
  <2>2. Queries(stk[m].die) \in Seq(TypeEntries)
    BY <2>1, QueriesAreTypes
  <2>3. PICK T : stk[m].parts \in Seq(T)
    BY DEF Links, IsFrame
  <2> QED
    BY <2>1, <2>2, <2>3
<1>4. ASSUME NEW m \in 2..Len(stk) PROVE stk[m].die \in TypeEntries
  <2>1. m - 1 \in 1..Len(stk) - 1 /\ m - 1 \in 1..Len(stk) /\ (m - 1) + 1 = m
    BY <1>2
  <2>2. PICK n : n = m - 1
    OBVIOUS
  <2>3. /\ Len(stk[n].parts) < Len(Queries(stk[n].die))
        /\ stk[n + 1].die = Queries(stk[n].die)[Len(stk[n].parts) + 1]
    BY <2>1, <2>2 DEF Links
  <2>4. /\ Queries(stk[n].die) \in Seq(TypeEntries)
        /\ Len(stk[n].parts) + 1 \in 1..Len(Queries(stk[n].die))
    BY <1>3, <2>1, <2>2, <2>3
  <2> QED
    BY <2>1, <2>2, <2>3, <2>4
<1> QED
  BY <1>2, <1>3, <1>4

(* What the last frame asks for next.                                      *)
Next1(f) == Queries(f.die)[Len(f.parts) + 1]
Waits(stk) == Len(Last(stk).parts) < Len(Queries(Last(stk).die))

LEMMA NextIsType ==
  ASSUME UnitFacts, NEW stk, Links(stk), Waits(stk)
  PROVE  /\ Len(Last(stk).parts) + 1 \in 1..Len(Queries(Last(stk).die))
         /\ Next1(Last(stk)) \in TypeEntries
<1>1. Len(stk) \in 1..Len(stk)
  BY FramesAre
<1>2. /\ Queries(Last(stk).die) \in Seq(TypeEntries)
      /\ Len(Queries(Last(stk).die)) \in Nat /\ Len(Last(stk).parts) \in Nat
  BY <1>1, FramesAre DEF Last
<1>3. Len(Last(stk).parts) + 1 \in 1..Len(Queries(Last(stk).die))
  BY <1>2 DEF Waits
<1> QED
  BY <1>2, <1>3 DEF Next1

LEMMA ExceptFrame ==
  ASSUME NEW d, NEW p, NEW result
  PROVE  [[die |-> d, parts |-> p] EXCEPT !.parts = Append(@, result)]
           = [die |-> d, parts |-> Append(p, result)]
OBVIOUS

(* A stack with one more result, and with one more frame.                  *)
LEMMA DeliverIs ==
  ASSUME UnitFacts, NEW stk, Links(stk), NEW result
  PROVE  /\ \E S : Deliver(stk, result) \in Seq(S)
         /\ Len(Deliver(stk, result)) = Len(stk)
         /\ \A m \in 1..Len(stk) - 1 : Deliver(stk, result)[m] = stk[m]
         /\ Deliver(stk, result)[Len(stk)] =
              [die |-> Last(stk).die, parts |-> Append(Last(stk).parts, result)]
<1> DEFINE n   == Len(stk)
           new == [die |-> Last(stk).die, parts |-> Append(Last(stk).parts, result)]
<1>1. n \in Nat /\ n \in 1..n
  BY FramesAre
<1>2. PICK S : stk \in Seq(S)
  BY DEF Links
<1>3. stk[n] = [die |-> Last(stk).die, parts |-> Last(stk).parts]
  BY <1>1 DEF Links, IsFrame, Last
<1>4. [stk[n] EXCEPT !.parts = Append(@, result)] = new
  <2>1. PICK d, p : d = Last(stk).die /\ p = Last(stk).parts
    OBVIOUS
  <2>2. stk[n] = [die |-> d, parts |-> p] /\ new = [die |-> d, parts |-> Append(p, result)]
    BY <1>3, <2>1
  <2> QED
    BY <2>2, ExceptFrame
<1>5. Deliver(stk, result) = [stk EXCEPT ![n] = new]
  BY <1>4 DEF Deliver
<1>6. stk \in Seq(S \cup {new})
  BY <1>2
<1> HIDE DEF new
<1>7. /\ [stk EXCEPT ![n] = new] \in Seq(S \cup {new})
      /\ Len([stk EXCEPT ![n] = new]) = n
      /\ \A j \in 1..n : [stk EXCEPT ![n] = new][j] = IF j = n THEN new ELSE stk[j]
  <2> HIDE DEF n
  <2>1. new \in S \cup {new}
    OBVIOUS
  <2>2. stk \in Seq(S \cup {new}) /\ n \in 1..Len(stk) /\ Len(stk) = n
    BY <1>1, <1>6 DEF n
  <2> QED
    BY <2>1, <2>2, ExceptSeq
<1>8. \A m \in 1..n - 1 : m \in 1..n /\ m # n
  BY <1>1
<1> HIDE DEF n
<1>9. [stk EXCEPT ![n] = new][n] = new
  BY <1>1, <1>7
<1>10. \A m \in 1..n - 1 : [stk EXCEPT ![n] = new][m] = stk[m]
  BY <1>7, <1>8
<1> QED
  BY <1>5, <1>7, <1>9, <1>10 DEF new, n

LEMMA DeliverLinks ==
  ASSUME UnitFacts, NEW stk, Links(stk), Waits(stk), NEW result
  PROVE  Links(Deliver(stk, result))
<1>1. PICK n, new : n = Len(stk) /\ new = Deliver(stk, result)
  OBVIOUS
<1>2. n \in Nat /\ n > 0
  BY <1>1, FramesAre
<1>3. /\ \E S : new \in Seq(S)
      /\ Len(new) = n
      /\ \A m \in 1..n - 1 : new[m] = stk[m]
      /\ new[n] = [die |-> stk[n].die, parts |-> Append(stk[n].parts, result)]
  BY <1>1, DeliverIs DEF Last
<1>4. PICK S : stk[n].parts \in Seq(S)
  <2>1. n \in 1..Len(stk)
    BY <1>1, <1>2
  <2> QED
    BY <2>1 DEF Links, IsFrame
<1>5. /\ Append(stk[n].parts, result) \in Seq(S \cup {result})
      /\ Len(Append(stk[n].parts, result)) = Len(stk[n].parts) + 1
      /\ Len(stk[n].parts) \in Nat
  BY <1>4
<1>6. /\ new[n].die = stk[n].die
      /\ new[n].parts = Append(stk[n].parts, result)
  BY <1>3
<1>7. \A m \in 1..n : new[m].die = stk[m].die
  <2>1. \A m \in 1..n : m = n \/ m \in 1..n - 1
    BY <1>2
  <2> QED
    BY <1>3, <1>6, <2>1
<1>8. IsFrame(new[n]) /\ Len(new[n].parts) <= Len(Queries(new[n].die))
  <2>1. IsFrame(new[n])
    BY <1>3, <1>5, <1>6 DEF IsFrame
  <2>2. Len(Queries(stk[n].die)) \in Nat
    BY <1>1, <1>2, FramesAre
  <2>3. Len(stk[n].parts) < Len(Queries(stk[n].die))
    BY <1>1 DEF Waits, Last
  <2> QED
    BY <1>5, <1>6, <2>1, <2>2, <2>3
<1>9. ASSUME NEW m \in 1..n
      PROVE  /\ IsFrame(new[m]) /\ new[m].die \in 1..Entries
             /\ Die(new[m].die).tag = "subprogram" => Typed(new[m].die)
             /\ Len(new[m].parts) <= Len(Queries(new[m].die))
  <2>1. /\ stk[m].die \in 1..Entries
        /\ Die(stk[m].die).tag = "subprogram" => Typed(stk[m].die)
    BY <1>1 DEF Links
  <2>2. CASE m = n
    BY <1>7, <1>8, <2>1, <2>2
  <2>3. CASE m # n
    <3>1. m \in 1..n - 1
      BY <1>2, <2>3
    <3> QED
      BY <1>1, <1>3, <3>1 DEF Links
  <2> QED
    BY <2>2, <2>3
<1>10. ASSUME NEW m \in 1..n - 1
       PROVE  /\ Len(new[m].parts) < Len(Queries(new[m].die))
              /\ new[m + 1].die = Queries(new[m].die)[Len(new[m].parts) + 1]
  <2>1. new[m] = stk[m] /\ m + 1 \in 1..n
    BY <1>2, <1>3
  <2>2. new[m + 1].die = stk[m + 1].die
    BY <1>7, <2>1
  <2> QED
    BY <1>1, <2>1, <2>2 DEF Links
<1>11. new # <<>> /\ new[1].die = Owner
  BY <1>1, <1>2, <1>3, <1>7 DEF Links
<1> QED
  BY <1>1, <1>3, <1>9, <1>10, <1>11 DEF Links

Pushed(stk) == Append(stk, [die |-> Next1(Last(stk)), parts |-> <<>>])

LEMMA PushedIs ==
  ASSUME UnitFacts, NEW stk, Links(stk)
  PROVE  /\ \E S : Pushed(stk) \in Seq(S)
         /\ Len(Pushed(stk)) = Len(stk) + 1
         /\ \A m \in 1..Len(stk) : Pushed(stk)[m] = stk[m]
         /\ Pushed(stk)[Len(stk) + 1] = [die |-> Next1(Last(stk)), parts |-> <<>>]
<1>1. PICK S : stk \in Seq(S)
  BY DEF Links
<1>2. PICK f : f = [die |-> Next1(Last(stk)), parts |-> <<>>]
  OBVIOUS
<1>3. stk \in Seq(S \cup {f}) /\ f \in S \cup {f}
  BY <1>1
<1>4. Pushed(stk) = Append(stk, f)
  BY <1>2 DEF Pushed
<1> QED
  BY <1>2, <1>3, <1>4, AppendProperties

LEMMA PushedLinks ==
  ASSUME UnitFacts, NEW stk, Links(stk), Waits(stk)
  PROVE  Links(Pushed(stk))
<1>1. PICK n, new : n = Len(stk) /\ new = Pushed(stk)
  OBVIOUS
<1>2. n \in Nat /\ n > 0
  BY <1>1, FramesAre
<1>3. /\ \E S : new \in Seq(S)
      /\ Len(new) = n + 1
      /\ \A m \in 1..n : new[m] = stk[m]
      /\ new[n + 1] = [die |-> Next1(stk[n]), parts |-> <<>>]
  BY <1>1, PushedIs DEF Last
<1>4. /\ IsFrame(new[n + 1])
      /\ new[n + 1].die = Next1(stk[n]) /\ new[n + 1].parts = <<>>
  BY <1>3 DEF IsFrame
<1>5. Next1(stk[n]) \in TypeEntries
  BY <1>1, NextIsType DEF Last
<1>6. ASSUME NEW m \in 1..n + 1
      PROVE  /\ IsFrame(new[m]) /\ new[m].die \in 1..Entries
             /\ Die(new[m].die).tag = "subprogram" => Typed(new[m].die)
             /\ Len(new[m].parts) <= Len(Queries(new[m].die))
  <2>1. CASE m = n + 1
    <3>1. Next1(stk[n]) \in 1..Entries /\ Die(Next1(stk[n])).tag # "subprogram"
      BY <1>5 DEF TypeEntries, IsTypeTag
    <3>2. Queries(Next1(stk[n])) \in Seq(TypeEntries)
      BY <3>1, QueriesAreTypes
    <3>3. Len(Queries(Next1(stk[n]))) \in Nat /\ Len(<<>>) = 0
      BY <3>2
    <3> QED
      BY <1>4, <2>1, <3>1, <3>3
  <2>2. CASE m # n + 1
    <3>1. m \in 1..n
      BY <1>2, <2>2
    <3> QED
      BY <1>1, <1>3, <3>1 DEF Links
  <2> QED
    BY <2>1, <2>2
<1>7. ASSUME NEW m \in 1..n
      PROVE  /\ Len(new[m].parts) < Len(Queries(new[m].die))
             /\ new[m + 1].die = Queries(new[m].die)[Len(new[m].parts) + 1]
  <2>1. new[m] = stk[m]
    BY <1>3
  <2>2. CASE m = n
    BY <1>1, <1>4, <2>1, <2>2 DEF Waits, Last, Next1
  <2>3. CASE m # n
    <3>1. m \in 1..n - 1 /\ m + 1 \in 1..n
      BY <1>2, <2>3
    <3>2. new[m + 1] = stk[m + 1]
      BY <1>3, <3>1
    <3> QED
      BY <1>1, <2>1, <3>1, <3>2 DEF Links
  <2> QED
    BY <2>2, <2>3
<1>8. new # <<>> /\ new[1].die = Owner
  <2>1. new[1] = stk[1] /\ 1 \in 1..n
    BY <1>2, <1>3
  <2> QED
    BY <1>2, <1>3, <2>1 DEF Links
<1>9. Len(new) - 1 = n
  BY <1>2, <1>3
<1> QED
  BY <1>1, <1>3, <1>6, <1>7, <1>8, <1>9 DEF Links

(* A stack without its last frame, for which the frame below it waits.     *)
Without(stk) == SubSeq(stk, 1, Len(stk) - 1)

LEMMA WithoutIs ==
  ASSUME UnitFacts, NEW stk, Links(stk), Len(stk) > 1
  PROVE  /\ Len(Without(stk)) = Len(stk) - 1
         /\ \A m \in 1..Len(stk) - 1 : Without(stk)[m] = stk[m]
         /\ Links(Without(stk)) /\ Waits(Without(stk))
         /\ Next1(Last(Without(stk))) = Last(stk).die
<1>1. PICK S : stk \in Seq(S)
  BY DEF Links
<1>2. PICK n, new : n = Len(stk) - 1 /\ new = SubSeq(stk, 1, n)
  OBVIOUS
<1>3. n \in Nat /\ n > 0 /\ n + 1 = Len(stk) /\ Len(stk) \in Nat
  BY <1>2, FramesAre
<1>4. \A m \in 1..n : m \in 1..Len(stk) /\ stk[m] \in S
  BY <1>1, <1>3
<1>5. new \in Seq(S) /\ Len(new) = n /\ \A m \in 1..n : new[m] = stk[m]
  BY <1>1, <1>2, <1>3, <1>4, SubSeqProperties
<1>6. \A m \in 1..n - 1 : m \in 1..n /\ m \in 1..Len(stk) - 1 /\ m + 1 \in 1..n
  BY <1>3
<1>7. /\ new # <<>> /\ new[1] = stk[1] /\ new[n] = stk[n]
      /\ n \in 1..Len(stk) - 1
  BY <1>3, <1>5
<1>8. \A m \in 1..n :
        /\ IsFrame(new[m]) /\ new[m].die \in 1..Entries
        /\ Die(new[m].die).tag = "subprogram" => Typed(new[m].die)
        /\ Len(new[m].parts) <= Len(Queries(new[m].die))
  BY <1>4, <1>5 DEF Links
<1>9. ASSUME NEW m \in 1..n - 1
      PROVE  /\ Len(new[m].parts) < Len(Queries(new[m].die))
             /\ new[m + 1].die = Queries(new[m].die)[Len(new[m].parts) + 1]
  <2>1. new[m] = stk[m] /\ new[m + 1] = stk[m + 1]
    BY <1>5, <1>6
  <2> QED
    BY <1>6, <2>1 DEF Links
<1>10. Links(new)
  BY <1>5, <1>7, <1>8, <1>9 DEF Links
<1>11. Waits(new) /\ Next1(Last(new)) = Last(stk).die
  <2>1. /\ Len(stk[n].parts) < Len(Queries(stk[n].die))
        /\ stk[n + 1].die = Queries(stk[n].die)[Len(stk[n].parts) + 1]
    BY <1>7 DEF Links
  <2> QED
    BY <1>3, <1>5, <1>7, <2>1 DEF Waits, Last, Next1
<1> QED
  BY <1>2, <1>5, <1>10, <1>11 DEF Without

-----------------------------------------------------------------------------
(***************************************************************************)
(* What is read is what the entries declare.  A type that is declared is   *)
(* made of types of a lower rank, so it is never asked for while it is     *)
(* being read, and its stub is never taken for it.                         *)
(***************************************************************************)
Faithful(stk) ==
  \A m \in 1..Len(stk) : \A k \in 1..Len(stk[m].parts) :
    LET q == Queries(stk[m].die)[k]
    IN  /\ q \in DOMAIN Declared => stk[m].parts[k] = Declared[q]
        /\ stk[m].parts[k] = Err => q \in Unreadable

InProgress(stk) == {stk[m].die : m \in 2..Len(stk)}

Recalls(stk, j, typ) ==
  typ # Err /\ (j \in DOMAIN Declared => typ = Declared[j] \/ j \in InProgress(stk))

MemoFaithful(stk, map) == Len(stk) > 1 => \A j \in DOMAIN map : Recalls(stk, j, map[j])

LEMMA RankDescends ==
  ASSUME UnitFacts, NEW stk, Links(stk), NEW i \in 1..Len(stk)
  PROVE  \A j \in i + 1..Len(stk) : \A r \in Nat :
           stk[i].die \in DOMAIN Known[r] => r # 0 /\ stk[j].die \in DOMAIN Known[r - 1]
<1> DEFINE Low(j) == \A r \in Nat :
             stk[i].die \in DOMAIN Known[r] => r # 0 /\ stk[j].die \in DOMAIN Known[r - 1]
           T == {j \in i + 1..Len(stk) : ~ Low(j)}
<1>1. CASE T = {}
  BY <1>1
<1>2. CASE T # {}
  <2>1. Len(stk) \in Nat
    BY FramesAre
  <2>2. T \in SUBSET Nat
    BY <2>1
  <2>3. PICK j \in T : \A m \in T : j <= m
    BY <1>2, <2>2, LeastOfNumbers
  <2>4. j \in i + 1..Len(stk) /\ ~ Low(j)
    OBVIOUS
  <2>5. PICK r \in Nat :
          /\ stk[i].die \in DOMAIN Known[r]
          /\ ~ (r # 0 /\ stk[j].die \in DOMAIN Known[r - 1])
    BY <2>4
  <2>6. PICK p : p = j - 1
    OBVIOUS
  <2>7. p \in 1..Len(stk) - 1 /\ p + 1 = j /\ p \in 1..Len(stk) /\ (p = i \/ p \in i + 1..Len(stk))
    BY <2>1, <2>4, <2>6
  <2>8. /\ Len(stk[p].parts) + 1 \in 1..Len(Queries(stk[p].die))
        /\ stk[j].die = Queries(stk[p].die)[Len(stk[p].parts) + 1]
    <3>1. /\ Len(stk[p].parts) < Len(Queries(stk[p].die))
          /\ stk[p + 1].die = Queries(stk[p].die)[Len(stk[p].parts) + 1]
      BY <2>7 DEF Links
    <3>2. Len(stk[p].parts) \in Nat /\ Len(Queries(stk[p].die)) \in Nat
      BY <2>7, FramesAre
    <3> QED
      BY <2>7, <3>1, <3>2
  <2>9. CASE p = i
    BY <2>5, <2>8, <2>9, KnownFrom
  <2>10. CASE p # i
    <3>1. p \in i + 1..Len(stk) /\ p \notin T
      BY <2>3, <2>6, <2>7, <2>10
    <3>2. Low(p)
      BY <3>1
    <3>3. r # 0 /\ stk[p].die \in DOMAIN Known[r - 1]
      BY <2>5, <3>2
    <3>4. r - 1 \in Nat
      BY <3>3
    <3>5. r - 1 # 0 /\ stk[j].die \in DOMAIN Known[(r - 1) - 1]
      BY <2>8, <3>3, <3>4, KnownFrom
    <3>6. (r - 1) - 1 \in Nat /\ (r - 1) - 1 <= r - 1
      BY <3>4, <3>5
    <3>7. stk[j].die \in DOMAIN Known[r - 1]
      BY <3>4, <3>5, <3>6, KnownGrows DEF KeepsKnown
    <3> QED
      BY <2>5, <3>3, <3>7
  <2> QED
    BY <2>9, <2>10
<1> QED
  BY <1>1, <1>2

(* The least of the steps at which something holds.                        *)
LEMMA LeastStep ==
  ASSUME NEW P, P \in SUBSET Nat, P # {}
  PROVE  \E r \in P : \A s \in P : r <= s
BY LeastOfNumbers

LEMMA DeclaredNotInProgress ==
  ASSUME UnitFacts, NEW stk, Links(stk), Waits(stk), Next1(Last(stk)) \in DOMAIN Declared
  PROVE  Next1(Last(stk)) \notin InProgress(stk)
<1> SUFFICES ASSUME NEW m \in 2..Len(stk), stk[m].die = Next1(Last(stk)) PROVE FALSE
  BY DEF InProgress
<1>1. PICK n, q : n = Len(stk) /\ q = Next1(Last(stk))
  OBVIOUS
<1>2. n \in Nat /\ n \in 1..n /\ m \in 1..n /\ (m = n \/ n \in m + 1..n)
  BY <1>1, FramesAre
<1> DEFINE P == {r \in Nat : q \in DOMAIN Known[r]}
<1>3. Entries \in P
  BY <1>1, DeclaredIs DEF UnitFacts
<1>4. PICK r \in P : \A s \in P : r <= s
  BY <1>3, LeastOfNumbers
<1>5. r \in Nat /\ q \in DOMAIN Known[r] /\ \A s \in Nat : q \in DOMAIN Known[s] => r <= s
  BY <1>4
<1> HIDE DEF P
<1>6. stk[n].die \in DOMAIN Known[r]
  <2>1. CASE m = n
    BY <1>1, <1>5, <2>1
  <2>2. CASE n \in m + 1..n
    <3>1. r # 0 /\ stk[n].die \in DOMAIN Known[r - 1]
      BY <1>1, <1>2, <1>5, <2>2, RankDescends
    <3>2. r - 1 \in Nat /\ r - 1 <= r
      BY <1>5, <3>1
    <3> QED
      BY <1>5, <3>1, <3>2, KnownGrows DEF KeepsKnown
  <2> QED
    BY <1>2, <2>1, <2>2
<1>7. /\ Len(stk[n].parts) + 1 \in 1..Len(Queries(stk[n].die))
      /\ q = Queries(stk[n].die)[Len(stk[n].parts) + 1]
  BY <1>1, NextIsType DEF Last, Next1
<1>8. r # 0 /\ q \in DOMAIN Known[r - 1]
  BY <1>5, <1>6, <1>7, KnownFrom
<1>9. r - 1 \in Nat /\ ~ (r <= r - 1)
  BY <1>5, <1>8
<1> QED
  BY <1>5, <1>8, <1>9

(* A result that is right for what the last frame asks for.                *)
Right(q, result) ==
  /\ q \in DOMAIN Declared => result = Declared[q]
  /\ result = Err => q \in Unreadable

LEMMA DeliverFaithful ==
  ASSUME UnitFacts, NEW stk, Links(stk), Waits(stk), Faithful(stk), NEW result,
         Right(Next1(Last(stk)), result)
  PROVE  Faithful(Deliver(stk, result))
<1>1. PICK n, new : n = Len(stk) /\ new = Deliver(stk, result)
  OBVIOUS
<1>2. n \in Nat /\ n > 0 /\ n \in 1..Len(stk)
  BY <1>1, FramesAre
<1>3. /\ Len(new) = n
      /\ \A m \in 1..n - 1 : new[m] = stk[m]
      /\ new[n] = [die |-> stk[n].die, parts |-> Append(stk[n].parts, result)]
  BY <1>1, DeliverIs DEF Last
<1>4. PICK S : stk[n].parts \in Seq(S)
  BY <1>2 DEF Links, IsFrame
<1>5. PICK l : l = Len(stk[n].parts)
  OBVIOUS
<1>6. /\ l \in Nat
      /\ Len(Append(stk[n].parts, result)) = l + 1
      /\ Append(stk[n].parts, result)[l + 1] = result
      /\ \A k \in 1..l : Append(stk[n].parts, result)[k] = stk[n].parts[k]
  BY <1>4, <1>5
<1>7. /\ new[n].die = stk[n].die
      /\ Len(new[n].parts) = l + 1
      /\ new[n].parts[l + 1] = result
      /\ \A k \in 1..l : new[n].parts[k] = stk[n].parts[k]
  BY <1>3, <1>6
<1>8. Next1(Last(stk)) = Queries(stk[n].die)[l + 1]
  BY <1>1, <1>5 DEF Next1, Last
<1>9. ASSUME NEW m \in 1..n, NEW k \in 1..Len(new[m].parts)
      PROVE  /\ Queries(new[m].die)[k] \in DOMAIN Declared =>
                  new[m].parts[k] = Declared[Queries(new[m].die)[k]]
             /\ new[m].parts[k] = Err => Queries(new[m].die)[k] \in Unreadable
  <2>1. CASE m # n
    <3>1. new[m] = stk[m] /\ m \in 1..Len(stk)
      BY <1>1, <1>2, <1>3, <2>1
    <3> QED
      BY <3>1 DEF Faithful
  <2>2. CASE m = n /\ k = l + 1
    BY <1>7, <1>8, <2>2 DEF Right
  <2>3. CASE m = n /\ k # l + 1
    <3>1. k \in 1..l
      BY <1>6, <1>7, <2>3
    <3>2. /\ Queries(stk[n].die)[k] \in DOMAIN Declared =>
               stk[n].parts[k] = Declared[Queries(stk[n].die)[k]]
          /\ stk[n].parts[k] = Err => Queries(stk[n].die)[k] \in Unreadable
      BY <1>2, <1>5, <3>1 DEF Faithful
    <3> QED
      BY <1>7, <2>3, <3>1, <3>2
  <2> QED
    BY <2>1, <2>2, <2>3
<1> QED
  BY <1>1, <1>3, <1>9 DEF Faithful

LEMMA PushedFaithful ==
  ASSUME UnitFacts, NEW stk, Links(stk), Faithful(stk)
  PROVE  Faithful(Pushed(stk))
<1>1. PICK n, new : n = Len(stk) /\ new = Pushed(stk)
  OBVIOUS
<1>2. /\ n \in Nat /\ Len(new) = n + 1
      /\ \A m \in 1..n : new[m] = stk[m]
      /\ new[n + 1] = [die |-> Next1(Last(stk)), parts |-> <<>>]
  BY <1>1, PushedIs, FramesAre
<1>3. new[n + 1].parts = <<>> /\ 1..Len(<<>>) = {}
  BY <1>2
<1>4. \A m \in 1..n + 1 : m \in 1..n \/ m = n + 1
  BY <1>2
<1>5. \A m \in 1..n + 1 : m = n + 1 \/ (m \in 1..Len(stk) /\ new[m] = stk[m])
  BY <1>1, <1>2, <1>4
<1>6. Faithful(new)
  BY <1>2, <1>3, <1>5 DEF Faithful
<1> QED
  BY <1>1, <1>6

LEMMA WithoutFaithful ==
  ASSUME UnitFacts, NEW stk, Links(stk), Len(stk) > 1, Faithful(stk)
  PROVE  Faithful(Without(stk))
<1>1. PICK new : new = Without(stk)
  OBVIOUS
<1>2. Len(stk) \in Nat
  BY FramesAre
<1>3. Len(new) = Len(stk) - 1 /\ \A m \in 1..Len(stk) - 1 : new[m] = stk[m]
  BY <1>1, WithoutIs
<1>4. ASSUME NEW m \in 1..Len(new), NEW k \in 1..Len(new[m].parts)
      PROVE  /\ Queries(new[m].die)[k] \in DOMAIN Declared =>
                  new[m].parts[k] = Declared[Queries(new[m].die)[k]]
             /\ new[m].parts[k] = Err => Queries(new[m].die)[k] \in Unreadable
  <2>1. m \in 1..Len(stk) /\ new[m] = stk[m]
    BY <1>2, <1>3
  <2> QED
    BY <2>1 DEF Faithful
<1> QED
  BY <1>1, <1>4 DEF Faithful

-----------------------------------------------------------------------------
(* A type that fails is unreadable and not declared.                       *)
LEMMA FailedUnreadable ==
  ASSUME UnitFacts, Links(frames), Faithful(frames), Len(frames) > 1, Failed
  PROVE  Top.die \in Unreadable /\ Top.die \notin DOMAIN Declared
<1>1. PICK n : n = Len(frames)
  OBVIOUS
<1>2. n \in 1..Len(frames) /\ Top = frames[n]
  BY <1>1, FramesAre DEF Top
<1>3. Top.die \in 1..Entries
  BY <1>2, FramesAre
<1>4. /\ Len(Top.parts) \in Nat /\ Len(Queries(Top.die)) \in Nat
      /\ Len(Top.parts) <= Len(Queries(Top.die))
  BY <1>2, FramesAre
<1>5. CASE Top.die \notin Whole
  BY <1>3, <1>5, UnreadableAre, DeclaredAre
<1>6. CASE ~ Filters(Top.die) /\ \E k \in 1..Len(Top.parts) : Top.parts[k] = Err
  <2>1. PICK k \in 1..Len(Top.parts) : Top.parts[k] = Err
    BY <1>6
  <2>2. k \in 1..Len(Queries(Top.die))
    BY <1>4
  <2>3. PICK q : q = Queries(Top.die)[k]
    OBVIOUS
  <2>4. /\ q \in DOMAIN Declared => Top.parts[k] = Declared[q]
        /\ q \in Unreadable
    BY <1>2, <2>1, <2>3 DEF Faithful
  <2>5. Top.die \in Unreadable
    BY <1>3, <1>6, <2>2, <2>3, <2>4, UnreadableAre
  <2>6. Top.die \notin DOMAIN Declared
    BY <2>1, <2>2, <2>3, <2>4, DeclaredAre, DeclaredAreTypes
  <2> QED
    BY <2>5, <2>6
<1>7. Top.die \notin Whole \/ (~ Filters(Top.die) /\ \E k \in 1..Len(Top.parts) : Top.parts[k] = Err)
  BY DEF Failed, Whole
<1> QED
  BY <1>5, <1>6, <1>7

(* A type that has been read.                                              *)
LEMMA FinishedRight ==
  ASSUME UnitFacts, Links(frames), Faithful(frames), Len(frames) > 1, ~ Failed, ~ Asks
  PROVE  /\ Top.die \in Whole
         /\ ~ Filters(Top.die) => \A k \in 1..Len(Top.parts) : Top.parts[k] # Err
         /\ TypeDefn(Top.die, Top.parts) # Err
         /\ Top.die \in DOMAIN Declared => TypeDefn(Top.die, Top.parts) = Declared[Top.die]
<1>1. PICK n : n = Len(frames)
  OBVIOUS
<1>2. n \in 1..Len(frames) /\ Top = frames[n]
  BY <1>1, FramesAre DEF Top
<1>3. PICK i, p, S : i = Top.die /\ p = Top.parts /\ p \in Seq(S)
  BY <1>2 DEF Links, IsFrame
<1>4. Len(p) \in Nat /\ Len(p) = Len(Queries(i))
  <2>1. Len(p) \in Nat /\ Len(Queries(i)) \in Nat /\ Len(p) <= Len(Queries(i))
    BY <1>2, <1>3, FramesAre
  <2>2. ~ (Len(p) < Len(Queries(i)))
    BY <1>3 DEF Asks
  <2> QED
    BY <2>1, <2>2
<1>5. ~ AtOwner
  BY FramesAre DEF AtOwner
<1>6. i \in Whole /\ Complete(i)
  BY <1>3, <1>5 DEF Failed, Whole
<1>7. ~ Filters(i) => \A k \in 1..Len(p) : p[k] # Err
  BY <1>3 DEF Failed
<1>8. TypeDefn(i, p) # Err
  <2>1. ASSUME Die(i).tag = "typedef" PROVE p[1] # Err
    <3>1. Len(Queries(i)) = 1
      BY <1>6, <2>1, AliasAsks
    <3>2. ~ Filters(i)
      BY <2>1 DEF Filters
    <3> QED
      BY <1>4, <1>7, <3>1, <3>2
  <2> QED
    BY <1>6, <2>1, TypeDefnIsType
<1>9. ASSUME i \in DOMAIN Declared PROVE TypeDefn(i, p) = Declared[i]
  <2>1. /\ \A k \in 1..Len(Queries(i)) : Queries(i)[k] \in DOMAIN Declared
        /\ Declared[i] = TypeDefn(i, [k \in 1..Len(Queries(i)) |-> Declared[Queries(i)[k]]])
    BY <1>9, DeclaredAre
  <2>2. \A k \in 1..Len(p) : p[k] = Declared[Queries(i)[k]]
    BY <1>2, <1>3, <1>4, <2>1 DEF Faithful
  <2>3. p = [k \in 1..Len(p) |-> p[k]]
    BY <1>3
  <2>4. p = [k \in 1..Len(Queries(i)) |-> Declared[Queries(i)[k]]]
    BY <1>4, <2>2, <2>3
  <2> QED
    BY <2>1, <2>4
<1> QED
  BY <1>3, <1>6, <1>7, <1>8, <1>9

-----------------------------------------------------------------------------
(***************************************************************************)
(* An unreadable type never returns a result to the owner that is not an   *)
(* error.  It leads along the first types asked for, which are unreadable  *)
(* too and none of which the memo holds but as a stub that is not asked    *)
(* for, to one that fails; and then the failure comes all the way back.    *)
(***************************************************************************)
Doomed(f) ==
  \/ f.die \notin Whole
  \/ ~ Filters(f.die) /\ \E k \in 1..Len(f.parts) : f.parts[k] = Err

Doom(stk) ==
  \E s \in 2..Len(stk) : Doomed(stk[s]) /\ \A m \in 2..s - 1 : ~ Filters(stk[m].die)

FailsBelow(i, j) == \A n \in Nat : i \in Failing[n] => n # 0 /\ j \in Failing[n - 1]

Straight(stk, map) ==
  /\ \A m \in 2..Len(stk) :
       /\ stk[m].die \in Unreadable /\ stk[m].die \in Whole
       /\ ~ Filters(stk[m].die) /\ stk[m].parts = <<>>
  /\ DOMAIN map \subseteq InProgress(stk)
  /\ \A m \in 2..Len(stk) : \A l \in m + 1..Len(stk) : FailsBelow(stk[m].die, stk[l].die)

Spine(stk, map) ==
  Len(stk) > 1 /\ stk[2].die \in Unreadable => Doom(stk) \/ Straight(stk, map)

LEMMA AsksUnreadable ==
  ASSUME UnitFacts, NEW i \in 1..Entries, i \in Unreadable, i \in Whole
  PROVE  /\ ~ Filters(i) /\ 1 \in 1..Len(Queries(i))
         /\ Queries(i)[1] \in Unreadable
         /\ FailsBelow(i, Queries(i)[1])
<1>1. Complete(i)
  BY DEF Whole
<1>2. ~ Filters(i) /\ \E k \in 1..Len(Queries(i)) : Queries(i)[k] \in Unreadable
  BY UnreadableAre
<1>3. Die(i).tag \in {"base", "typedef", "pointer", "array"}
  BY <1>1, <1>2 DEF Complete, Filters
<1>4. \/ \A k \in 1..Len(Queries(i)) : k = 1
      \/ Len(Queries(i)) = 2 /\ \A n \in Nat : Queries(i)[2] \notin Failing[n]
  <2>1. CASE Die(i).tag = "base"
    <3>1. Queries(i) = <<>>
      BY <2>1 DEF Queries
    <3>2. 1..Len(Queries(i)) = {}
      BY <3>1
    <3> QED
      BY <3>2
  <2>2. CASE Die(i).tag \in {"typedef", "pointer"}
    <3>1. Len(Queries(i)) = 1
      BY <1>1, <2>2, AliasAsks
    <3> QED
      BY <3>1
  <2>3. CASE Die(i).tag = "array"
    <3>1. PICK x : x = Queries(i)[2]
      OBVIOUS
    <3>2. Len(Queries(i)) = 2 /\ x \in Whole /\ Queries(x) = <<>>
      BY <2>3, <3>1, ArrayAsks
    <3>3. 1..Len(Queries(x)) = {}
      BY <3>2
    <3>4. \A n \in Nat : x \notin Failing[n]
      BY <3>2, <3>3, FailingFrom
    <3> QED
      BY <3>1, <3>2, <3>4
  <2> QED
    BY <1>3, <2>1, <2>2, <2>3
<1>5. Entries \in Nat /\ Unreadable = Failing[Entries]
  BY UnreadableIs DEF UnitFacts
<1>6. 1 \in 1..Len(Queries(i)) /\ Queries(i)[1] \in Unreadable
  <2>1. PICK k \in 1..Len(Queries(i)) : Queries(i)[k] \in Unreadable
    BY <1>2
  <2>2. CASE \A j \in 1..Len(Queries(i)) : j = 1
    BY <2>1, <2>2
  <2>3. CASE Len(Queries(i)) = 2 /\ \A n \in Nat : Queries(i)[2] \notin Failing[n]
    <3>1. k # 2
      BY <1>5, <2>1, <2>3
    <3>2. k = 1
      BY <2>1, <2>3, <3>1
    <3> QED
      BY <2>1, <3>2
  <2> QED
    BY <1>4, <2>2, <2>3
<1>7. ASSUME NEW n \in Nat, i \in Failing[n]
      PROVE  n # 0 /\ Queries(i)[1] \in Failing[n - 1]
  <2>1. n # 0 /\ \E k \in 1..Len(Queries(i)) : Queries(i)[k] \in Failing[n - 1]
    BY <1>7, FailingFrom
  <2>2. PICK k \in 1..Len(Queries(i)) : Queries(i)[k] \in Failing[n - 1]
    BY <2>1
  <2>3. n - 1 \in Nat
    BY <2>1
  <2>4. CASE \A j \in 1..Len(Queries(i)) : j = 1
    BY <2>1, <2>2, <2>4
  <2>5. CASE Len(Queries(i)) = 2 /\ \A m \in Nat : Queries(i)[2] \notin Failing[m]
    <3>1. k # 2
      BY <2>2, <2>3, <2>5
    <3>2. k = 1
      BY <2>2, <2>5, <3>1
    <3> QED
      BY <2>1, <2>2, <3>2
  <2> QED
    BY <1>4, <2>4, <2>5
<1> QED
  BY <1>2, <1>6, <1>7 DEF FailsBelow

LEMMA BelowDescends ==
  ASSUME NEW i, NEW j, NEW k, FailsBelow(i, j), FailsBelow(j, k)
  PROVE  FailsBelow(i, k)
<1> SUFFICES ASSUME NEW n \in Nat, i \in Failing[n] PROVE n # 0 /\ k \in Failing[n - 1]
  BY DEF FailsBelow
<1>1. n # 0 /\ j \in Failing[n - 1] /\ n - 1 \in Nat
  BY DEF FailsBelow
<1>2. n - 1 # 0 /\ k \in Failing[(n - 1) - 1]
  BY <1>1 DEF FailsBelow
<1>3. (n - 1) - 1 \in Nat /\ (n - 1) - 1 <= n - 1
  BY <1>1, <1>2
<1> QED
  BY <1>1, <1>2, <1>3, FailingGrows

LEMMA BelowIsNotItself ==
  ASSUME UnitFacts, NEW i \in Unreadable
  PROVE  ~ FailsBelow(i, i)
<1> SUFFICES ASSUME FailsBelow(i, i) PROVE FALSE
  OBVIOUS
<1> DEFINE P == {r \in Nat : i \in Failing[r]}
<1>1. Entries \in P
  BY UnreadableIs DEF UnitFacts
<1>2. PICK r \in P : \A s \in P : r <= s
  BY <1>1, LeastOfNumbers
<1>3. r \in Nat /\ i \in Failing[r] /\ \A s \in Nat : i \in Failing[s] => r <= s
  BY <1>2
<1> HIDE DEF P
<1>4. r # 0 /\ i \in Failing[r - 1]
  BY <1>3 DEF FailsBelow
<1>5. r - 1 \in Nat /\ ~ (r <= r - 1)
  BY <1>3, <1>4
<1> QED
  BY <1>3, <1>4, <1>5

(* What the last of a straight stack asks for.                             *)
LEMMA StraightAsks ==
  ASSUME UnitFacts, NEW stk, NEW map, Links(stk), Len(stk) > 1, Straight(stk, map)
  PROVE  /\ Waits(stk) /\ Next1(Last(stk)) \in Unreadable
         /\ \A m \in 2..Len(stk) : FailsBelow(stk[m].die, Next1(Last(stk)))
         /\ Next1(Last(stk)) \notin InProgress(stk)
         /\ Last(stk).die \in Whole /\ ~ Filters(Last(stk).die) /\ Last(stk).parts = <<>>
<1>1. PICK n, i, q : n = Len(stk) /\ i = Last(stk).die /\ q = Next1(Last(stk))
  OBVIOUS
<1>2. n \in Nat /\ n \in 2..Len(stk) /\ n \in 1..Len(stk) /\ i = stk[n].die
  BY <1>1, FramesAre DEF Last
<1>3. i \in Unreadable /\ i \in Whole /\ ~ Filters(i) /\ stk[n].parts = <<>> /\ i \in 1..Entries
  BY <1>2, FramesAre DEF Straight
<1>4. Last(stk).parts = <<>> /\ Len(<<>>) = 0
  BY <1>1, <1>3 DEF Last
<1>5. /\ 1 \in 1..Len(Queries(i)) /\ Queries(i)[1] \in Unreadable
      /\ FailsBelow(i, Queries(i)[1])
  BY <1>3, AsksUnreadable
<1>6. q = Queries(i)[1]
  BY <1>1, <1>4 DEF Next1
<1>7. Len(Queries(i)) \in Nat
  BY <1>2, FramesAre
<1>8. Waits(stk)
  BY <1>1, <1>4, <1>5, <1>7 DEF Waits
<1>9. ASSUME NEW m \in 2..Len(stk) PROVE FailsBelow(stk[m].die, q)
  <2>1. m = n \/ n \in m + 1..Len(stk)
    BY <1>1, <1>2
  <2>2. CASE m = n
    BY <1>2, <1>5, <1>6, <2>2
  <2>3. CASE n \in m + 1..Len(stk)
    <3>1. FailsBelow(stk[m].die, i)
      BY <1>2, <2>3 DEF Straight
    <3> QED
      BY <1>5, <1>6, <3>1, BelowDescends
  <2> QED
    BY <2>1, <2>2, <2>3
<1>10. q \notin InProgress(stk)
  <2> SUFFICES ASSUME NEW m \in 2..Len(stk), q = stk[m].die PROVE FALSE
    BY DEF InProgress
  <2> QED
    BY <1>5, <1>6, <1>9, BelowIsNotItself
<1> QED
  BY <1>1, <1>3, <1>4, <1>5, <1>6, <1>8, <1>9, <1>10

-----------------------------------------------------------------------------
(* The steps of the recursion.                                             *)
LEMMA DoomDelivered ==
  ASSUME UnitFacts, NEW stk, NEW result, Links(stk), Doom(stk)
  PROVE  Doom(Deliver(stk, result))
<1>1. PICK n, new : n = Len(stk) /\ new = Deliver(stk, result)
  OBVIOUS
<1>2. n \in Nat /\ n \in 1..Len(stk)
  BY <1>1, FramesAre
<1>3. /\ Len(new) = n
      /\ \A m \in 1..n - 1 : new[m] = stk[m]
      /\ new[n] = [die |-> stk[n].die, parts |-> Append(stk[n].parts, result)]
  BY <1>1, DeliverIs DEF Last
<1>4. PICK s \in 2..n : Doomed(stk[s]) /\ \A m \in 2..s - 1 : ~ Filters(stk[m].die)
  BY <1>1 DEF Doom
<1>5. \A m \in 2..s - 1 : m \in 1..n - 1
  BY <1>2
<1>6. \A m \in 2..s - 1 : ~ Filters(new[m].die)
  BY <1>3, <1>4, <1>5
<1>7. Doomed(new[s])
  <2>1. CASE s # n
    <3>1. s \in 1..n - 1
      BY <1>2, <2>1
    <3> QED
      BY <1>3, <1>4, <3>1
  <2>2. CASE s = n
    <3>1. PICK S : stk[n].parts \in Seq(S)
      BY <1>2 DEF Links, IsFrame
    <3>2. \A k \in 1..Len(stk[n].parts) :
            /\ k \in 1..Len(Append(stk[n].parts, result))
            /\ Append(stk[n].parts, result)[k] = stk[n].parts[k]
      BY <3>1
    <3>3. new[n].die = stk[n].die /\ new[n].parts = Append(stk[n].parts, result)
      BY <1>3
    <3>4. Doomed(stk[n])
      BY <1>4, <2>2
    <3> QED
      BY <2>2, <3>2, <3>3, <3>4 DEF Doomed
  <2> QED
    BY <2>1, <2>2
<1> QED
  BY <1>1, <1>3, <1>4, <1>6, <1>7 DEF Doom

LEMMA DoomReturned ==
  ASSUME UnitFacts, NEW stk, Links(stk), Len(stk) > 1,
         \A m \in 2..Len(stk) : ~ Filters(stk[m].die)
  PROVE  Doom(Deliver(stk, Err))
<1>1. PICK n, new, err : n = Len(stk) /\ new = Deliver(stk, Err) /\ err = Err
  OBVIOUS
<1>2. n \in Nat /\ n \in 2..Len(stk) /\ n \in 1..Len(stk)
  BY <1>1, FramesAre
<1>3. /\ Len(new) = n
      /\ \A m \in 1..n - 1 : new[m] = stk[m]
      /\ new[n] = [die |-> stk[n].die, parts |-> Append(stk[n].parts, err)]
  BY <1>1, DeliverIs DEF Last
<1>4. PICK S : stk[n].parts \in Seq(S)
  BY <1>2 DEF Links, IsFrame
<1>5. PICK l : l = Len(stk[n].parts) + 1
  OBVIOUS
<1>6. /\ l \in 1..Len(Append(stk[n].parts, err))
      /\ Append(stk[n].parts, err)[l] = err
  BY <1>4, <1>5
<1>7. new[n].die = stk[n].die /\ new[n].parts = Append(stk[n].parts, err)
  BY <1>3
<1>8. ~ Filters(stk[n].die)
  BY <1>2
<1>9. Doomed(new[n])
  BY <1>1, <1>6, <1>7, <1>8 DEF Doomed
<1>10. \A m \in 2..n - 1 : m \in 2..Len(stk) /\ m \in 1..n - 1
  BY <1>1, <1>2
<1>11. \A m \in 2..n - 1 : ~ Filters(new[m].die)
  BY <1>3, <1>10
<1>12. n \in 2..Len(new)
  BY <1>1, <1>2, <1>3
<1> QED
  BY <1>1, <1>9, <1>11, <1>12 DEF Doom

LEMMA DoomWithout ==
  ASSUME UnitFacts, NEW stk, Links(stk), Len(stk) > 1, Doom(stk)
  PROVE  \/ Doom(Without(stk))
         \/ Doomed(Last(stk)) /\ \A m \in 2..Len(Without(stk)) : ~ Filters(Without(stk)[m].die)
<1>1. PICK n, new : n = Len(stk) - 1 /\ new = Without(stk)
  OBVIOUS
<1>2. n \in Nat /\ Len(stk) = n + 1 /\ Len(stk) \in Nat
  <2>1. Len(stk) \in Nat
    BY FramesAre
  <2> QED
    BY <1>1, <2>1
<1>3. Len(new) = n /\ \A m \in 1..n : new[m] = stk[m]
  BY <1>1, <1>2, WithoutIs
<1>4. PICK s \in 2..n + 1 : Doomed(stk[s]) /\ \A m \in 2..s - 1 : ~ Filters(stk[m].die)
  BY <1>2 DEF Doom
<1>5. CASE s = n + 1
  <2>1. Doomed(Last(stk))
    BY <1>2, <1>4, <1>5 DEF Last
  <2>2. \A m \in 2..n : m \in 1..n /\ m \in 2..s - 1
    BY <1>2, <1>5
  <2>3. \A m \in 2..n : ~ Filters(new[m].die)
    BY <1>3, <1>4, <2>2
  <2> QED
    BY <1>1, <1>3, <2>1, <2>3
<1>6. CASE s # n + 1
  <2>1. s \in 2..n /\ s \in 1..n /\ \A m \in 2..s - 1 : m \in 1..n
    BY <1>2, <1>6
  <2>2. Doomed(new[s]) /\ \A m \in 2..s - 1 : ~ Filters(new[m].die)
    BY <1>3, <1>4, <2>1
  <2> QED
    BY <1>1, <1>3, <2>1, <2>2 DEF Doom
<1> QED
  BY <1>5, <1>6

LEMMA DoomPushed ==
  ASSUME UnitFacts, NEW stk, Links(stk), Doom(stk)
  PROVE  Doom(Pushed(stk))
<1>1. PICK n, new : n = Len(stk) /\ new = Pushed(stk)
  OBVIOUS
<1>2. n \in Nat /\ Len(new) = n + 1 /\ \A m \in 1..n : new[m] = stk[m]
  BY <1>1, PushedIs, FramesAre
<1>3. PICK s \in 2..n : Doomed(stk[s]) /\ \A m \in 2..s - 1 : ~ Filters(stk[m].die)
  BY <1>1 DEF Doom
<1>4. s \in 1..n /\ s \in 2..n + 1 /\ \A m \in 2..s - 1 : m \in 1..n
  BY <1>2
<1>5. Doomed(new[s]) /\ \A m \in 2..s - 1 : ~ Filters(new[m].die)
  BY <1>2, <1>3, <1>4
<1> QED
  BY <1>1, <1>2, <1>4, <1>5 DEF Doom

LEMMA SpineFirst ==
  ASSUME UnitFacts, NEW stk, Links(stk), Waits(stk), Len(stk) = 1,
         NEW map, DOMAIN map = {Next1(Last(stk))}
  PROVE  Spine(Pushed(stk), map)
<1>1. PICK new, q : new = Pushed(stk) /\ q = Next1(Last(stk))
  OBVIOUS
<1>2. Len(new) = 2 /\ new[2] = [die |-> q, parts |-> <<>>]
  <2>1. /\ Len(new) = Len(stk) + 1
        /\ new[Len(stk) + 1] = [die |-> Next1(Last(stk)), parts |-> <<>>]
    BY <1>1, PushedIs
  <2>2. Len(stk) + 1 = 2
    OBVIOUS
  <2> QED
    BY <1>1, <2>1, <2>2
<1>3. q \in TypeEntries /\ q \in 1..Entries
  BY <1>1, NextIsType DEF TypeEntries
<1>4. new[2].die = q /\ new[2].parts = <<>>
  BY <1>2
<1>5. SUFFICES ASSUME q \in Unreadable PROVE Doom(new) \/ Straight(new, map)
  BY <1>1, <1>4 DEF Spine
<1>6. 2..Len(new) = {2} /\ 2..2 - 1 = {} /\ 2 + 1..Len(new) = {}
  BY <1>2
<1>7. CASE q \notin Whole
  <2>1. Doomed(new[2])
    BY <1>4, <1>7 DEF Doomed
  <2> QED
    BY <1>6, <2>1 DEF Doom
<1>8. CASE q \in Whole
  <2>1. ~ Filters(q)
    BY <1>3, <1>5, <1>8, AsksUnreadable
  <2>2. DOMAIN map \subseteq InProgress(new)
    BY <1>1, <1>4, <1>6 DEF InProgress
  <2> QED
    BY <1>4, <1>5, <1>6, <1>8, <2>1, <2>2 DEF Straight
<1> QED
  BY <1>7, <1>8

LEMMA SpinePushed ==
  ASSUME UnitFacts, NEW stk, Links(stk), Waits(stk), Len(stk) > 1,
         NEW map, Spine(stk, map), NEW map2, DOMAIN map2 = DOMAIN map \cup {Next1(Last(stk))}
  PROVE  Spine(Pushed(stk), map2)
<1>1. PICK n, new, q : n = Len(stk) /\ new = Pushed(stk) /\ q = Next1(Last(stk))
  OBVIOUS
<1>2. n \in Nat /\ 2 \in 1..n
  BY <1>1, FramesAre
<1>3. /\ Len(new) = n + 1
      /\ \A m \in 1..n : new[m] = stk[m]
      /\ new[n + 1].die = q /\ new[n + 1].parts = <<>>
  <2>1. /\ Len(new) = n + 1 /\ \A m \in 1..n : new[m] = stk[m]
        /\ new[n + 1] = [die |-> q, parts |-> <<>>]
    BY <1>1, PushedIs
  <2> QED
    BY <2>1
<1>4. q \in TypeEntries /\ q \in 1..Entries
  BY <1>1, NextIsType DEF TypeEntries
<1>5. SUFFICES ASSUME stk[2].die \in Unreadable PROVE Doom(new) \/ Straight(new, map2)
  BY <1>1, <1>2, <1>3 DEF Spine
<1>6. CASE Doom(stk)
  BY <1>1, <1>6, DoomPushed
<1>7. CASE Straight(stk, map)
  <2>1. /\ q \in Unreadable
        /\ \A m \in 2..n : FailsBelow(stk[m].die, q)
    BY <1>1, <1>7, StraightAsks
  <2>2. \A m \in 2..n : /\ stk[m].die \in Unreadable /\ stk[m].die \in Whole
                        /\ ~ Filters(stk[m].die) /\ stk[m].parts = <<>>
    BY <1>1, <1>7 DEF Straight
  <2>3. \A m \in 2..n + 1 : m \in 2..n \/ m = n + 1
    BY <1>2
  <2>4. \A m \in 2..n : m \in 1..n /\ new[m] = stk[m]
    BY <1>2, <1>3
  <2>5. CASE q \notin Whole
    <3>1. Doomed(new[n + 1])
      BY <1>3, <2>5 DEF Doomed
    <3>2. \A m \in 2..(n + 1) - 1 : m \in 2..n
      BY <1>2
    <3>3. \A m \in 2..(n + 1) - 1 : ~ Filters(new[m].die)
      BY <2>2, <2>4, <3>2
    <3>4. n + 1 \in 2..Len(new)
      BY <1>2, <1>3
    <3> QED
      BY <3>1, <3>3, <3>4 DEF Doom
  <2>6. CASE q \in Whole
    <3>1. ~ Filters(q)
      BY <1>4, <2>1, <2>6, AsksUnreadable
    <3>2. \A m \in 2..n + 1 : /\ new[m].die \in Unreadable /\ new[m].die \in Whole
                              /\ ~ Filters(new[m].die) /\ new[m].parts = <<>>
      <4> TAKE m \in 2..n + 1
      <4>1. CASE m \in 2..n
        BY <2>2, <2>4, <4>1
      <4>2. CASE m = n + 1
        BY <1>3, <2>1, <2>6, <3>1, <4>2
      <4> QED
        BY <2>3, <4>1, <4>2
    <3>3. DOMAIN map2 \subseteq InProgress(new)
      <4>1. ASSUME NEW j \in DOMAIN map2 PROVE \E m \in 2..n + 1 : new[m].die = j
        <5>1. CASE j = q
          <6>1. n + 1 \in 2..n + 1
            BY <1>2
          <6> QED
            BY <1>3, <5>1, <6>1
        <5>2. CASE j \in DOMAIN map
          <6>1. PICK m \in 2..n : j = stk[m].die
            BY <1>1, <1>7, <5>2 DEF Straight, InProgress
          <6>2. m \in 2..n + 1 /\ new[m] = stk[m]
            BY <1>2, <2>4
          <6> QED
            BY <6>1, <6>2
        <5> QED
          BY <1>1, <5>1, <5>2
      <4> QED
        BY <1>3, <4>1 DEF InProgress
    <3>4. ASSUME NEW m \in 2..n + 1, NEW l \in m + 1..n + 1
          PROVE  FailsBelow(new[m].die, new[l].die)
      <4>1. m \in 2..n /\ (l \in m + 1..n \/ l = n + 1)
        BY <1>2
      <4>2. CASE l = n + 1
        BY <1>3, <2>1, <2>4, <4>1, <4>2
      <4>3. CASE l \in m + 1..n
        <5>1. l \in 2..n
          BY <1>2, <4>1, <4>3
        <5>2. FailsBelow(stk[m].die, stk[l].die)
          BY <1>1, <1>7, <4>1, <4>3 DEF Straight
        <5> QED
          BY <2>4, <4>1, <5>1, <5>2
      <4> QED
        BY <4>1, <4>2, <4>3
    <3> QED
      BY <1>3, <3>2, <3>3, <3>4 DEF Straight
  <2> QED
    BY <2>5, <2>6
<1> QED
  BY <1>1, <1>2, <1>5, <1>6, <1>7 DEF Spine

(* The memo answers: the stack is not straight.                            *)
LEMMA SpineRecalled ==
  ASSUME UnitFacts, NEW stk, Links(stk), Waits(stk), Len(stk) > 1,
         NEW map, Spine(stk, map), Next1(Last(stk)) \in DOMAIN map, NEW result
  PROVE  Spine(Deliver(stk, result), map)
<1>1. PICK n, new : n = Len(stk) /\ new = Deliver(stk, result)
  OBVIOUS
<1>2. n \in Nat /\ 2 \in 1..n
  BY <1>1, FramesAre
<1>3. /\ Len(new) = n
      /\ \A m \in 1..n - 1 : new[m] = stk[m]
      /\ new[n] = [die |-> stk[n].die, parts |-> Append(stk[n].parts, result)]
  BY <1>1, DeliverIs DEF Last
<1>4. new[2].die = stk[2].die
  <2>1. 2 = n \/ 2 \in 1..n - 1
    BY <1>2
  <2> QED
    BY <1>3, <2>1
<1>5. ~ Straight(stk, map)
  BY StraightAsks DEF Straight
<1>6. Spine(stk, map) => (stk[2].die \in Unreadable => Doom(stk))
  BY <1>5 DEF Spine
<1> QED
  BY <1>1, <1>4, <1>6, DoomDelivered DEF Spine

(* A call returns: with an error if the type is doomed.                    *)
LEMMA SpineReturned ==
  ASSUME UnitFacts, NEW stk, Links(stk), Len(stk) > 1,
         NEW map, Spine(stk, map), ~ Straight(stk, map),
         NEW result, Doomed(Last(stk)) => result = Err, NEW map2
  PROVE  Spine(Deliver(Without(stk), result), map2)
<1>1. PICK n, w, new : n = Len(stk) - 1 /\ w = Without(stk) /\ new = Deliver(w, result)
  OBVIOUS
<1>2. n \in Nat /\ Len(stk) = n + 1 /\ Len(stk) \in Nat
  <2>1. Len(stk) \in Nat
    BY FramesAre
  <2> QED
    BY <1>1, <2>1
<1>3. /\ Len(w) = n /\ \A m \in 1..n : w[m] = stk[m]
      /\ Links(w) /\ Waits(w)
  BY <1>1, <1>2, WithoutIs
<1>4. /\ Len(new) = n
      /\ \A m \in 1..n - 1 : new[m] = w[m]
      /\ new[n] = [die |-> w[n].die, parts |-> Append(w[n].parts, result)]
  <2>1. /\ Len(new) = Len(w)
        /\ \A m \in 1..Len(w) - 1 : new[m] = w[m]
        /\ new[Len(w)] = [die |-> Last(w).die, parts |-> Append(Last(w).parts, result)]
    BY <1>1, <1>3, DeliverIs
  <2> QED
    BY <1>3, <2>1 DEF Last
<1>5. SUFFICES ASSUME n > 1, new[2].die \in Unreadable PROVE Doom(new)
  BY <1>1, <1>4 DEF Spine
<1>6. new[2].die = stk[2].die
  <2>1. 2 \in 1..n /\ (2 = n \/ 2 \in 1..n - 1)
    BY <1>2, <1>5
  <2> QED
    BY <1>3, <1>4, <2>1
<1>7. Doom(stk)
  BY <1>2, <1>5, <1>6 DEF Spine
<1>8. CASE Doom(w)
  BY <1>1, <1>3, <1>8, DoomDelivered
<1>9. CASE Doomed(Last(stk)) /\ \A m \in 2..Len(w) : ~ Filters(w[m].die)
  <2>1. result = Err
    BY <1>9
  <2> QED
    BY <1>1, <1>3, <1>5, <1>9, <2>1, DoomReturned
<1> QED
  BY <1>1, <1>7, <1>8, <1>9, DoomWithout

(* The owner's part of an unreadable type is an error.                     *)
OwnerFaithful(stk) ==
  \A k \in 1..Len(stk[1].parts) : Queries(Owner)[k] \in Unreadable => stk[1].parts[k] = Err

LEMMA OwnerReturned ==
  ASSUME UnitFacts, NEW stk, Links(stk), Len(stk) > 1, OwnerFaithful(stk),
         NEW map, Spine(stk, map), ~ Straight(stk, map),
         NEW result, Doomed(Last(stk)) => result = Err
  PROVE  OwnerFaithful(Deliver(Without(stk), result))
<1>1. PICK n, w, new : n = Len(stk) - 1 /\ w = Without(stk) /\ new = Deliver(w, result)
  OBVIOUS
<1>2. n \in Nat /\ n > 0 /\ Len(stk) = n + 1 /\ Len(stk) \in Nat
  <2>1. Len(stk) \in Nat
    BY FramesAre
  <2> QED
    BY <1>1, <2>1
<1>3. /\ Len(w) = n /\ \A m \in 1..n : w[m] = stk[m]
      /\ Links(w) /\ Waits(w) /\ Next1(Last(w)) = Last(stk).die
  BY <1>1, <1>2, WithoutIs
<1>4. /\ Len(new) = n
      /\ \A m \in 1..n - 1 : new[m] = w[m]
      /\ new[n] = [die |-> w[n].die, parts |-> Append(w[n].parts, result)]
  <2>1. /\ Len(new) = Len(w)
        /\ \A m \in 1..Len(w) - 1 : new[m] = w[m]
        /\ new[Len(w)] = [die |-> Last(w).die, parts |-> Append(Last(w).parts, result)]
    <3>1. Links(w) /\ new = Deliver(w, result)
      BY <1>1, <1>3
    <3> QED
      BY <3>1, DeliverIs
  <2> QED
    BY <1>3, <2>1 DEF Last
<1>5. CASE n > 1
  <2>1. 1 \in 1..n /\ 1 \in 1..n - 1
    BY <1>2, <1>5
  <2>2. new[1] = stk[1]
    BY <1>3, <1>4, <2>1
  <2> QED
    BY <1>1, <2>2 DEF OwnerFaithful
<1>6. CASE n = 1
  <2>1. w[1] = stk[1] /\ stk[1].die = Owner
    BY <1>3, <1>6 DEF Links
  <2>2. PICK p : p = stk[1].parts
    OBVIOUS
  <2>3. PICK S : p \in Seq(S)
    <3>1. 1 \in 1..Len(stk)
      BY <1>2
    <3> QED
      BY <2>2, <3>1 DEF Links, IsFrame
  <2>4. new[1].parts = Append(p, result)
    BY <1>4, <1>6, <2>1, <2>2
  <2>5. /\ Len(p) \in Nat /\ Len(Append(p, result)) = Len(p) + 1
        /\ Append(p, result)[Len(p) + 1] = result
        /\ \A k \in 1..Len(p) : Append(p, result)[k] = p[k]
    BY <2>3
  <2>6. Queries(Owner)[Len(p) + 1] = stk[2].die
    <3>1. Last(w) = stk[1] /\ Last(stk) = stk[2]
      BY <1>2, <1>3, <1>6, <2>1 DEF Last
    <3> QED
      BY <1>3, <2>1, <2>2, <3>1 DEF Next1
  <2>7. ASSUME stk[2].die \in Unreadable PROVE result = Err
    <3>1. Doom(stk)
      BY <2>7 DEF Spine
    <3>2. PICK s \in 2..Len(stk) : Doomed(stk[s])
      BY <3>1 DEF Doom
    <3>3. s = Len(stk)
      BY <1>2, <1>6
    <3> QED
      BY <3>2, <3>3 DEF Last
  <2>8. ASSUME NEW k \in 1..Len(new[1].parts), Queries(Owner)[k] \in Unreadable
        PROVE  new[1].parts[k] = Err
    <3>1. CASE k = Len(p) + 1
      BY <2>4, <2>5, <2>6, <2>7, <2>8, <3>1
    <3>2. CASE k # Len(p) + 1
      <4>1. k \in 1..Len(p)
        BY <2>4, <2>5, <3>2
      <4>2. p[k] = Err
        BY <2>2, <2>8, <4>1 DEF OwnerFaithful
      <4> QED
        BY <2>4, <2>5, <4>1, <4>2
    <3> QED
      BY <3>1, <3>2
  <2> QED
    BY <1>1, <2>8 DEF OwnerFaithful
<1> QED
  BY <1>2, <1>5, <1>6

Good(stk, map) ==
  /\ Links(stk) /\ Faithful(stk) /\ MemoFaithful(stk, map)
  /\ Spine(stk, map) /\ OwnerFaithful(stk)

LEMMA SameGood ==
  ASSUME SameUnit, NEW stk, NEW map
  PROVE  Good(stk, map)' <=> Good(stk, map)
<1>1. /\ Entries' = Entries /\ Owner' = Owner /\ Whole' = Whole
      /\ Failing' = Failing /\ Unreadable' = Unreadable /\ Declared' = Declared
  BY SameEntries, SameFailing, SameDeclared
<1>2. \A i : /\ Queries(i)' = Queries(i) /\ Die(i)' = Die(i)
             /\ Filters(i)' = Filters(i) /\ Typed(i)' = Typed(i)
  BY SameEntry
<1>3. Links(stk)' <=> Links(stk)
  BY <1>1, <1>2 DEF Links, IsFrame
<1>4. Faithful(stk)' <=> Faithful(stk)
  BY <1>1, <1>2 DEF Faithful
<1>5. MemoFaithful(stk, map)' <=> MemoFaithful(stk, map)
  BY <1>1, <1>2 DEF MemoFaithful, Recalls, InProgress
<1>6. Spine(stk, map)' <=> Spine(stk, map)
  <2>1. \A f : Doomed(f)' <=> Doomed(f)
    BY <1>1, <1>2 DEF Doomed
  <2>2. Doom(stk)' <=> Doom(stk)
    BY <1>2, <2>1 DEF Doom
  <2>3. \A i, j : FailsBelow(i, j)' <=> FailsBelow(i, j)
    BY <1>1 DEF FailsBelow
  <2>4. Straight(stk, map)' <=> Straight(stk, map)
    BY <1>1, <1>2, <2>3 DEF Straight, InProgress
  <2> QED
    BY <1>1, <2>2, <2>4 DEF Spine
<1>7. OwnerFaithful(stk)' <=> OwnerFaithful(stk)
  BY <1>1, <1>2 DEF OwnerFaithful
<1> QED
  BY <1>3, <1>4, <1>5, <1>6, <1>7 DEF Good

ReadInv == frames # <<>> => ReadingTypes /\ Good(frames, memo)

LEMMA ReadSame ==
  ASSUME SameUnit, ReadingTypes, Good(frames', memo')
  PROVE  ReadInv'
<1>1. ReadingTypes'
  BY DEF SameUnit, ReadingTypes
<1>2. Good(frames, memo)'
  BY SameGood
<1> QED
  BY <1>1, <1>2 DEF ReadInv

LEMMA OwnerIs ==
  ASSUME IInv, OwnersInv, ReadingTypes
  PROVE  /\ U \in 1..Len(units) /\ Owner \in FirstLevel(U)
         /\ Die(Owner).tag \in {"subprogram", "variable"}
<1> DEFINE X == OwnersAt("subprogram") \cup OwnersAt("variable")
<1>1. /\ at + 1 \in 1..Len(owners)
      /\ owners = OwnersOf("subprogram") \o OwnersOf("variable")
  BY DEF OwnersInv, ReadingTypes
<1>2. /\ OwnersOf("subprogram") \in Seq(OwnersAt("subprogram"))
      /\ OwnersOf("variable") \in Seq(OwnersAt("variable"))
  BY OwnersAreThere DEF IInv
<1>3. OwnersOf("subprogram") \in Seq(X) /\ OwnersOf("variable") \in Seq(X)
  BY <1>2
<1>4. \A x \in X : \E u \in 1..Len(units) : \E i \in FirstLevel(u) :
        x = [unit |-> u, die |-> i] /\ units[u][i].tag \in {"subprogram", "variable"}
  BY DEF OwnersAt, Ids
<1> HIDE DEF X
<1>5. owners \in Seq(X)
  BY <1>1, <1>3
<1>6. PICK x : x = owners[at + 1]
  OBVIOUS
<1>7. x \in X
  BY <1>1, <1>5, <1>6
<1>8. PICK u, i : /\ u \in 1..Len(units) /\ i \in FirstLevel(u) /\ x = [unit |-> u, die |-> i]
                  /\ units[u][i].tag \in {"subprogram", "variable"}
  BY <1>4, <1>7
<1>9. x.unit = u /\ x.die = i
  BY <1>8
<1>10. U = u /\ Owner = i
  BY <1>6, <1>9 DEF U, Owner
<1> QED
  BY <1>8, <1>10 DEF Die

(* What EntriesAssumption says of the unit that is being read.             *)
LEMMA UnitIs ==
  ASSUME IInv, OwnersInv, ReadingTypes
  PROVE  UnitFacts /\ Owner \in 1..Entries
<1>1. U \in 1..Len(units) /\ Owner \in FirstLevel(U)
  BY OwnerIs
<1>2. ~ Reading
  BY DEF OwnersInv, ReadingTypes
<1>3. TypesInv /\ units \in Programs /\ IsUnit(units[U]) /\ TreeOf(units[U], trees[U])
  <2>1. Len(trees) \in Nat /\ Len(units) \in Nat /\ Len(trees) = Len(units)
    BY <1>2 DEF IInv, TypesInv, Reading
  <2> QED
    BY <1>1, <2>1 DEF IInv, TypesInv
<1>4. PICK unit : unit = units[U]
  OBVIOUS
<1>5. Entries = Len(unit) /\ Entries \in Nat \ {0} /\ \A i : Die(i) = unit[i]
  BY <1>3, <1>4 DEF Entries, IsUnit, Die
<1>6. FirstLevel(U) \subseteq 1..Entries
  BY <1>4, <1>5 DEF FirstLevel, Below
<1>7. ASSUME NEW i \in 1..Entries, Die(i).depth = 1 PROVE i \in FirstLevel(U)
  <2>1. i # 1
    BY <1>3, <1>4, <1>5, <1>7 DEF IsUnit
  <2>2. i \in 2..Len(unit) /\ Len(unit) # 1
    BY <1>5, <2>1
  <2>3. Encloses(unit, trees[U].childOf[i], i) /\ trees[U].root = 1
    BY <1>3, <1>4, <2>2 DEF TreeOf
  <2>4. PICK p : p = trees[U].childOf[i]
    OBVIOUS
  <2>5. p \in 1..i - 1 /\ unit[p].depth = unit[i].depth - 1
    BY <2>3, <2>4 DEF Encloses
  <2>6. p \in 1..Len(unit) /\ unit[p].depth = 0
    BY <1>5, <1>7, <2>5
  <2>7. p = 1
    BY <1>3, <1>4, <2>6 DEF IsUnit
  <2>8. trees[U].childOf[i] = trees[U].root /\ i \in 1..Len(units[U])
    BY <1>4, <1>5, <2>3, <2>4, <2>7
  <2> QED
    BY <2>8 DEF FirstLevel, Below
<1>8. \A i \in 1..Entries :
        /\ Typed(i) => Die(i).type \in 1..Entries /\ IsTypeTag(Die(i).type)
        /\ Die(i).tag = "subrange" /\ Typed(i) =>
             LET index == Die(i).type
             IN  Die(index).tag = "base" /\ Die(index).depth = 1 /\ Die(index).bytes = Xlen
        /\ Die(i).tag = "pointer" /\ Sized(i) => Die(i).bytes = Xlen
  <2> TAKE i \in 1..Entries
  <2>1. i \in 1..Len(unit) /\ unit = units[U] /\ units \in Programs
    BY <1>3, <1>4, <1>5
  <2>2. /\ unit[i].type # None =>
             unit[i].type \in 1..Len(unit) /\ unit[unit[i].type].tag \notin {"subprogram", "variable"}
        /\ unit[i].tag = "subrange" /\ unit[i].type # None =>
             /\ unit[unit[i].type].tag = "base" /\ unit[unit[i].type].depth = 1
             /\ unit[unit[i].type].bytes = Xlen
        /\ unit[i].tag = "pointer" => unit[i].bytes \in {None, Xlen}
    BY <1>1, <2>1, EntriesAssumption
  <2> QED
    BY <1>5, <2>2 DEF Typed, Sized, IsTypeTag
<1> QED
  BY <1>1, <1>5, <1>6, <1>7, <1>8 DEF UnitFacts

-----------------------------------------------------------------------------
(* The steps.                                                              *)
LEMMA ReadStart ==
  ASSUME IInv, OwnersInv, StartOwner
  PROVE  ReadInv'
<1>1. /\ ReadingTypes /\ frames = <<>> /\ Named(Owner) /\ Typed(Owner)
      /\ frames' = <<[die |-> Owner, parts |-> <<>>]>> /\ SameUnit
  BY DEF StartOwner, SameUnit
<1>2. PICK f, stk, map : f = [die |-> Owner, parts |-> <<>>] /\ stk = <<f>> /\ map = memo'
  OBVIOUS
<1>3. UnitFacts /\ Owner \in 1..Entries
  BY <1>1, UnitIs
<1>4. Len(stk) = 1 /\ stk[1] = f /\ stk \in Seq({f}) /\ stk # <<>>
  BY <1>2
<1>5. f.die = Owner /\ f.parts = <<>> /\ IsFrame(f) /\ Len(<<>>) = 0 /\ 1..Len(<<>>) = {}
  <2>1. <<>> \in Seq({})
    OBVIOUS
  <2> QED
    BY <1>2, <2>1 DEF IsFrame
<1>6. Len(Queries(Owner)) \in Nat
  <2>1. Queries(Owner) \in Seq(TypeEntries)
    BY <1>1, <1>3, QueriesAreTypes
  <2> QED
    BY <2>1
<1>7. \A m \in 1..Len(stk) : m = 1
  BY <1>4
<1>8. 1..Len(stk) - 1 = {}
  BY <1>4
<1>9. Links(stk)
  <2>1. \A m \in 1..Len(stk) :
          /\ IsFrame(stk[m]) /\ stk[m].die \in 1..Entries
          /\ Die(stk[m].die).tag = "subprogram" => Typed(stk[m].die)
          /\ Len(stk[m].parts) <= Len(Queries(stk[m].die))
    BY <1>1, <1>3, <1>4, <1>5, <1>6, <1>7
  <2> QED
    BY <1>4, <1>5, <1>8, <2>1 DEF Links
<1>10. Faithful(stk) /\ OwnerFaithful(stk)
  BY <1>4, <1>5, <1>7 DEF Faithful, OwnerFaithful
<1>11. MemoFaithful(stk, map) /\ Spine(stk, map)
  BY <1>4 DEF MemoFaithful, Spine
<1>12. Good(frames', memo')
  BY <1>1, <1>2, <1>9, <1>10, <1>11 DEF Good
<1> QED
  BY <1>1, <1>12, ReadSame

LEMMA ReadRecall ==
  ASSUME IInv, OwnersInv, ReadInv, Recall
  PROVE  ReadInv'
<1>1. /\ ReadingTypes /\ frames # <<>> /\ Asks /\ Query \in DOMAIN Memo
      /\ frames' = Deliver(frames, Memo[Query]) /\ memo' = memo /\ SameUnit
  BY DEF Recall, SameUnit
<1>2. UnitFacts
  BY <1>1, UnitIs
<1>3. /\ Links(frames) /\ Faithful(frames) /\ MemoFaithful(frames, memo)
      /\ Spine(frames, memo) /\ OwnerFaithful(frames)
  BY <1>1 DEF ReadInv, Good
<1>4. Len(frames) \in Nat /\ Len(frames) > 0
  BY <1>2, <1>3, FramesAre
<1>5. Len(frames) > 1 /\ Memo = memo
  BY <1>1, <1>4 DEF Memo, AtOwner
<1>6. Waits(frames) /\ Next1(Last(frames)) = Query
  BY <1>1 DEF Waits, Asks, Last, Top, Next1, Query
<1>7. PICK q, r, new : q = Query /\ r = memo[q] /\ new = Deliver(frames, r)
  OBVIOUS
<1>8. q \in DOMAIN memo /\ Recalls(frames, q, r)
  BY <1>1, <1>3, <1>5, <1>7 DEF MemoFaithful
<1>9. Right(q, r)
  <2>1. q \in DOMAIN Declared => q \notin InProgress(frames)
    BY <1>2, <1>3, <1>6, <1>7, DeclaredNotInProgress
  <2> QED
    BY <1>8, <2>1 DEF Recalls, Right
<1>10. Links(new) /\ Faithful(new)
  BY <1>2, <1>3, <1>6, <1>7, <1>9, DeliverLinks, DeliverFaithful
<1>11. Spine(new, memo)
  BY <1>2, <1>3, <1>5, <1>6, <1>7, <1>8, SpineRecalled
<1>12. /\ Len(new) = Len(frames) /\ \A m \in 1..Len(frames) - 1 : new[m] = frames[m]
       /\ new[Len(frames)].die = Last(frames).die
  <2>1. /\ Len(new) = Len(frames) /\ \A m \in 1..Len(frames) - 1 : new[m] = frames[m]
        /\ new[Len(frames)] = [die |-> Last(frames).die, parts |-> Append(Last(frames).parts, r)]
    BY <1>2, <1>3, <1>7, DeliverIs
  <2> QED
    BY <2>1
<1>13. InProgress(new) = InProgress(frames)
  <2>1. \A m \in 2..Len(frames) : new[m].die = frames[m].die
    <3> TAKE m \in 2..Len(frames)
    <3>1. m \in 1..Len(frames) - 1 \/ m = Len(frames)
      BY <1>4
    <3> QED
      BY <1>12, <3>1 DEF Last
  <2> QED
    BY <1>12, <2>1 DEF InProgress
<1>14. MemoFaithful(new, memo)
  BY <1>3, <1>5, <1>13 DEF MemoFaithful, Recalls
<1>15. OwnerFaithful(new)
  <2>1. 1 \in 1..Len(frames) - 1
    BY <1>4, <1>5
  <2>2. new[1] = frames[1]
    BY <1>12, <2>1
  <2> QED
    BY <1>3, <2>2 DEF OwnerFaithful
<1>16. Good(frames', memo')
  BY <1>1, <1>5, <1>7, <1>10, <1>11, <1>14, <1>15 DEF Good
<1> QED
  BY <1>1, <1>16, ReadSame

LEMMA ReadEnter ==
  ASSUME IInv, OwnersInv, ReadInv, Enter
  PROVE  ReadInv'
<1>1. /\ ReadingTypes /\ frames # <<>> /\ Asks /\ Query \notin DOMAIN Memo
      /\ memo' = Insert(Memo, Query, Stub)
      /\ frames' = Append(frames, [die |-> Query, parts |-> <<>>]) /\ SameUnit
  BY DEF Enter, SameUnit, Stubbed
<1>2. UnitFacts
  BY <1>1, UnitIs
<1>3. /\ Links(frames) /\ Faithful(frames) /\ MemoFaithful(frames, memo)
      /\ Spine(frames, memo) /\ OwnerFaithful(frames)
  BY <1>1 DEF ReadInv, Good
<1>4. Len(frames) \in Nat /\ Len(frames) > 0
  BY <1>2, <1>3, FramesAre
<1>5. Waits(frames) /\ Next1(Last(frames)) = Query
  BY <1>1 DEF Waits, Asks, Last, Top, Next1, Query
<1>6. PICK q, new, map : q = Query /\ new = Pushed(frames) /\ map = Insert(Memo, q, Stub)
  OBVIOUS
<1>7. frames' = new /\ memo' = map
  BY <1>1, <1>5, <1>6 DEF Pushed
<1>8. /\ DOMAIN map = DOMAIN Memo \cup {q} /\ map[q] = Stub
      /\ \A j \in DOMAIN Memo : j # q => map[j] = Memo[j]
  BY <1>6 DEF Insert
<1>9. Links(new) /\ Faithful(new)
  BY <1>2, <1>3, <1>5, <1>6, PushedLinks, PushedFaithful
<1>10. /\ Len(new) = Len(frames) + 1
       /\ \A m \in 1..Len(frames) : new[m] = frames[m]
       /\ new[Len(frames) + 1].die = q
  <2>1. /\ Len(new) = Len(frames) + 1 /\ \A m \in 1..Len(frames) : new[m] = frames[m]
        /\ new[Len(frames) + 1] = [die |-> q, parts |-> <<>>]
    BY <1>2, <1>3, <1>5, <1>6, PushedIs
  <2> QED
    BY <2>1
<1>11. q \in InProgress(new) /\ InProgress(frames) \subseteq InProgress(new)
  <2>1. Len(frames) + 1 \in 2..Len(new) /\ \A m \in 2..Len(frames) : m \in 2..Len(new) /\ m \in 1..Len(frames)
    BY <1>4, <1>10
  <2> QED
    BY <1>10, <2>1 DEF InProgress
<1>12. ASSUME Len(frames) = 1 PROVE MemoFaithful(new, map) /\ Spine(new, map)
  <2>1. Memo = <<>> /\ DOMAIN <<>> = {}
    BY <1>12 DEF Memo, AtOwner
  <2>2. DOMAIN map = {q}
    BY <1>8, <2>1
  <2>3. Spine(new, map)
    BY <1>2, <1>3, <1>5, <1>6, <1>12, <2>2, SpineFirst
  <2>4. MemoFaithful(new, map)
    BY <1>8, <1>11, <2>2 DEF MemoFaithful, Recalls, Stub, Primitive, Err
  <2> QED
    BY <2>3, <2>4
<1>13. ASSUME Len(frames) > 1 PROVE MemoFaithful(new, map) /\ Spine(new, map)
  <2>1. Memo = memo
    BY <1>4, <1>13 DEF Memo, AtOwner
  <2>2. Spine(new, map)
    BY <1>2, <1>3, <1>5, <1>6, <1>8, <1>13, <2>1, SpinePushed
  <2>3. ASSUME NEW j \in DOMAIN map PROVE Recalls(new, j, map[j])
    <3>1. CASE j = q
      BY <1>8, <1>11, <3>1 DEF Recalls, Stub, Primitive, Err
    <3>2. CASE j # q
      <4>1. j \in DOMAIN memo /\ map[j] = memo[j]
        BY <1>8, <2>1, <3>2
      <4>2. Recalls(frames, j, memo[j])
        BY <1>3, <1>13, <4>1 DEF MemoFaithful
      <4> QED
        BY <1>11, <4>1, <4>2 DEF Recalls
    <3> QED
      BY <3>1, <3>2
  <2> QED
    BY <2>2, <2>3 DEF MemoFaithful
<1>14. OwnerFaithful(new)
  <2>1. new[1] = frames[1]
    BY <1>4, <1>10
  <2> QED
    BY <1>3, <2>1 DEF OwnerFaithful
<1>15. MemoFaithful(new, map) /\ Spine(new, map)
  <2>1. Len(frames) = 1 \/ Len(frames) > 1
    <3>1. PICK n \in Nat : n = Len(frames) /\ n > 0
      BY <1>4
    <3>2. n = 1 \/ n > 1
      BY <3>1
    <3> QED
      BY <3>1, <3>2
  <2> QED
    BY <1>12, <1>13, <2>1, Zenon
<1>16. Good(frames', memo')
  BY <1>7, <1>9, <1>14, <1>15 DEF Good
<1> QED
  BY <1>1, <1>16, ReadSame

LEMMA RestIs ==
  ASSUME IInv, OwnersInv, ReadInv, ReadingTypes, Len(frames) > 1
  PROVE  /\ UnitFacts /\ frames # <<>> /\ Good(frames, memo)
         /\ Rest = Without(frames) /\ Top = Last(frames) /\ Asks = Waits(frames)
         /\ Links(Rest) /\ Faithful(Rest) /\ Waits(Rest) /\ Next1(Last(Rest)) = Top.die
         /\ Len(Rest) = Len(frames) - 1 /\ \A m \in 1..Len(Rest) : Rest[m] = frames[m]
         /\ Len(Rest) \in Nat /\ Len(Rest) > 0
<1>1. UnitFacts
  BY UnitIs
<1>2. frames # <<>>
  OBVIOUS
<1>3. Links(frames) /\ Faithful(frames) /\ Good(frames, memo)
  BY <1>2 DEF ReadInv, Good
<1>4. Rest = Without(frames) /\ Top = Last(frames) /\ Asks = Waits(frames)
  BY DEF Rest, Without, Top, Last, Asks, Waits
<1>5. /\ Links(Without(frames)) /\ Waits(Without(frames))
      /\ Next1(Last(Without(frames))) = Last(frames).die
      /\ Len(Without(frames)) = Len(frames) - 1
      /\ \A m \in 1..Len(frames) - 1 : Without(frames)[m] = frames[m]
      /\ Faithful(Without(frames))
  BY <1>1, <1>3, WithoutIs, WithoutFaithful
<1>6. Len(frames) \in Nat
  BY <1>1, <1>3, FramesAre
<1>7. /\ Links(Rest) /\ Faithful(Rest) /\ Waits(Rest) /\ Next1(Last(Rest)) = Top.die
      /\ Len(Rest) = Len(frames) - 1 /\ \A m \in 1..Len(Rest) : Rest[m] = frames[m]
  BY <1>4, <1>5
<1>8. Len(Rest) \in Nat /\ Len(Rest) > 0
  BY <1>6, <1>7
<1> QED
  BY <1>1, <1>2, <1>3, <1>4, <1>7, <1>8

(* The types in progress but the one that returns.                         *)
LEMMA StillInProgress ==
  ASSUME UnitFacts, NEW stk, Links(stk), Len(stk) > 1, NEW result
  PROVE  \A j \in InProgress(stk) :
           j # Last(stk).die => j \in InProgress(Deliver(Without(stk), result))
<1> SUFFICES ASSUME NEW m \in 2..Len(stk), stk[m].die # Last(stk).die
             PROVE  stk[m].die \in InProgress(Deliver(Without(stk), result))
  BY DEF InProgress
<1>1. PICK n, w, new : n = Len(stk) - 1 /\ w = Without(stk) /\ new = Deliver(w, result)
  OBVIOUS
<1>2. n \in Nat /\ n > 0 /\ Len(stk) = n + 1 /\ Len(stk) \in Nat
  <2>1. Len(stk) \in Nat
    BY FramesAre
  <2> QED
    BY <1>1, <2>1
<1>3. Len(w) = n /\ Links(w) /\ \A l \in 1..n : w[l] = stk[l]
  BY <1>1, <1>2, WithoutIs
<1>4. /\ Len(new) = n
      /\ \A l \in 1..n - 1 : new[l] = w[l]
      /\ new[n].die = w[n].die
  <2>1. /\ Len(new) = Len(w)
        /\ \A l \in 1..Len(w) - 1 : new[l] = w[l]
        /\ new[Len(w)] = [die |-> Last(w).die, parts |-> Append(Last(w).parts, result)]
    <3>1. new = Deliver(w, result) /\ Links(w)
      BY <1>1, <1>3
    <3> QED
      BY <3>1, DeliverIs, Zenon
  <2>2. new[n].die = Last(w).die
    BY <1>3, <2>1
  <2> QED
    BY <1>3, <2>1, <2>2 DEF Last
<1>5. m # n + 1
  BY <1>2 DEF Last
<1>6. m \in 1..n /\ m \in 2..n /\ (m = n \/ m \in 1..n - 1)
  BY <1>2, <1>5
<1>7. new[m].die = stk[m].die
  BY <1>3, <1>4, <1>6
<1> QED
  BY <1>1, <1>4, <1>6, <1>7 DEF InProgress

LEMMA ReadFail ==
  ASSUME IInv, OwnersInv, ReadInv, Fail
  PROVE  ReadInv'
<1>1. /\ ReadingTypes /\ Len(frames) > 1 /\ Failed
      /\ frames' = Deliver(Rest, Err) /\ memo' = memo /\ SameUnit
  BY DEF Fail, SameUnit
<1>2. /\ UnitFacts /\ frames # <<>> /\ Good(frames, memo)
      /\ Rest = Without(frames) /\ Top = Last(frames)
      /\ Links(Rest) /\ Faithful(Rest) /\ Waits(Rest) /\ Next1(Last(Rest)) = Top.die
  BY <1>1, RestIs
<1>3. /\ Links(frames) /\ Faithful(frames) /\ MemoFaithful(frames, memo)
      /\ Spine(frames, memo) /\ OwnerFaithful(frames)
  BY <1>2 DEF Good
<1>4. PICK new, err : new = Deliver(Rest, err) /\ err = Err
  OBVIOUS
<1>5. Top.die \in Unreadable /\ Top.die \notin DOMAIN Declared
  BY <1>1, <1>2, <1>3, FailedUnreadable
<1>6. Right(Top.die, err)
  BY <1>5 DEF Right
<1>7. Links(new) /\ Faithful(new)
  BY <1>2, <1>4, <1>6, DeliverLinks, DeliverFaithful
<1>8. ~ Straight(frames, memo)
  <2> SUFFICES ASSUME Straight(frames, memo) PROVE FALSE
    OBVIOUS
  <2>1. Top.die \in Whole /\ Waits(frames) /\ Top.parts = <<>>
    BY <1>1, <1>2, <1>3, StraightAsks
  <2>2. 1..Len(<<>>) = {}
    OBVIOUS
  <2>3. ~ \E k \in 1..Len(Top.parts) : Top.parts[k] = Err
    BY <2>1, <2>2
  <2> QED
    BY <1>1, <2>1, <2>3 DEF Failed, Whole
<1>9. Spine(new, memo) /\ OwnerFaithful(new)
  BY <1>1, <1>2, <1>3, <1>4, <1>8, SpineReturned, OwnerReturned
<1>10. MemoFaithful(new, memo)
  <2>1. ASSUME NEW j \in DOMAIN memo PROVE Recalls(new, j, memo[j])
    <3>1. Recalls(frames, j, memo[j])
      BY <1>1, <1>3 DEF MemoFaithful
    <3>2. j \in DOMAIN Declared => j # Last(frames).die
      BY <1>2, <1>5
    <3>3. j \in InProgress(frames) /\ j # Last(frames).die => j \in InProgress(new)
      BY <1>1, <1>2, <1>3, <1>4, StillInProgress
    <3> QED
      BY <3>1, <3>2, <3>3 DEF Recalls
  <2> QED
    BY <2>1 DEF MemoFaithful
<1>11. Good(frames', memo')
  BY <1>1, <1>4, <1>7, <1>9, <1>10 DEF Good
<1> QED
  BY <1>1, <1>11, ReadSame

LEMMA ReadFinish ==
  ASSUME IInv, OwnersInv, ReadInv, FinishType
  PROVE  ReadInv'
<1>1. PICK typ : /\ typ = TypeDefn(Top.die, Top.parts)
                 /\ memo' = Insert(memo, Top.die, typ) /\ frames' = Deliver(Rest, typ)
  BY DEF FinishType, MemoWith
<1>2. ReadingTypes /\ Len(frames) > 1 /\ ~ Failed /\ ~ Asks /\ SameUnit
  BY DEF FinishType, SameUnit
<1>3. /\ UnitFacts /\ frames # <<>> /\ Good(frames, memo)
      /\ Rest = Without(frames) /\ Top = Last(frames) /\ Asks = Waits(frames)
      /\ Links(Rest) /\ Faithful(Rest) /\ Waits(Rest) /\ Next1(Last(Rest)) = Top.die
  BY <1>2, RestIs
<1>4. /\ Links(frames) /\ Faithful(frames) /\ MemoFaithful(frames, memo)
      /\ Spine(frames, memo) /\ OwnerFaithful(frames)
  BY <1>3 DEF Good
<1>5. PICK new, map : new = Deliver(Rest, typ) /\ map = Insert(memo, Top.die, typ)
  OBVIOUS
<1>6. /\ Top.die \in Whole
      /\ ~ Filters(Top.die) => \A k \in 1..Len(Top.parts) : Top.parts[k] # Err
      /\ typ # Err
      /\ Top.die \in DOMAIN Declared => typ = Declared[Top.die]
  BY <1>1, <1>2, <1>3, <1>4, FinishedRight
<1>7. Right(Top.die, typ)
  BY <1>6 DEF Right
<1>8. Links(new) /\ Faithful(new)
  BY <1>3, <1>5, <1>7, DeliverLinks, DeliverFaithful
<1>9. ~ Straight(frames, memo)
  BY <1>2, <1>3, <1>4, StraightAsks
<1>10. ~ Doomed(Last(frames))
  BY <1>3, <1>6 DEF Doomed
<1>11. Spine(new, map) /\ OwnerFaithful(new)
  BY <1>2, <1>3, <1>4, <1>5, <1>9, <1>10, SpineReturned, OwnerReturned
<1>12. MemoFaithful(new, map)
  <2>1. /\ DOMAIN map = DOMAIN memo \cup {Top.die} /\ map[Top.die] = typ
        /\ \A j \in DOMAIN memo : j # Top.die => map[j] = memo[j]
    BY <1>5 DEF Insert
  <2>2. ASSUME NEW j \in DOMAIN map PROVE Recalls(new, j, map[j])
    <3>1. CASE j = Top.die
      BY <1>6, <2>1, <3>1 DEF Recalls
    <3>2. CASE j # Top.die
      <4>1. j \in DOMAIN memo /\ map[j] = memo[j]
        BY <2>1, <3>2
      <4>2. Recalls(frames, j, memo[j])
        BY <1>2, <1>4, <4>1 DEF MemoFaithful
      <4>3. j \in InProgress(frames) => j \in InProgress(new)
        BY <1>2, <1>3, <1>4, <1>5, <3>2, StillInProgress
      <4> QED
        BY <4>1, <4>2, <4>3 DEF Recalls
    <3> QED
      BY <3>1, <3>2
  <2> QED
    BY <2>2 DEF MemoFaithful
<1>13. Good(frames', memo')
  BY <1>1, <1>5, <1>8, <1>11, <1>12 DEF Good
<1> QED
  BY <1>2, <1>13, ReadSame

LEMMA ReadStep == IInv /\ OwnersInv /\ ReadInv /\ [ReadNext]_vars => ReadInv'
<1> SUFFICES ASSUME IInv, OwnersInv, ReadInv, [ReadNext]_vars PROVE ReadInv'
  OBVIOUS
<1>1. CASE ReadTree
  <2>1. Reading /\ frames' = frames
    BY <1>1 DEF ReadTree, TreeNext, Descend, Ascend, EndUnit, typeVars
  <2>2. frames = <<>>
    BY <2>1 DEF OwnersInv, ReadInv, ReadingTypes
  <2> QED
    BY <2>1, <2>2 DEF ReadInv
<1>2. CASE StartTypes
  BY <1>2 DEF StartTypes, OwnersInv, ReadInv
<1>3. CASE SkipOwner
  BY <1>3 DEF SkipOwner, ReadInv
<1>4. CASE StartOwner
  BY <1>4, ReadStart
<1>5. CASE Recall
  BY <1>5, ReadRecall
<1>6. CASE Enter
  BY <1>6, ReadEnter
<1>7. CASE Fail
  BY <1>7, ReadFail
<1>8. CASE FinishType
  BY <1>8, ReadFinish
<1>9. CASE FinishFunction \/ FinishVariable
  BY <1>9 DEF FinishFunction, FinishVariable, ReadInv
<1>10. CASE UNCHANGED vars
  <2>1. SameUnit /\ frames' = frames /\ memo' = memo
    BY <1>10 DEF SameUnit, vars, typeVars
  <2>2. CASE frames = <<>>
    BY <2>1, <2>2 DEF ReadInv
  <2>3. CASE frames # <<>>
    BY <2>1, <2>3, ReadSame DEF ReadInv
  <2> QED
    BY <2>2, <2>3
<1> QED
  BY <1>1, <1>2, <1>3, <1>4, <1>5, <1>6, <1>7, <1>8, <1>9, <1>10 DEF ReadNext, TypesNext

LEMMA ReadInit == Init => ReadInv
BY DEF Init, TypesInit, ReadInv

LEMMA ReadIsInvariant == Spec => [](IInv /\ OwnersInv /\ ReadInv)
<1>1. HeaderInit => Init
  BY DEF HeaderInit
<1>2. [Next]_headerVars => [ReadNext]_vars
  BY DEF Next, headerVars, PrintModel, Stopped
<1>3. Spec => ReadSpec
  BY <1>1, <1>2, PTL DEF Spec, ReadSpec
<1> QED
  BY <1>3, OwnersInit, OwnersStep, ReadInit, ReadStep, ReaderWalksTrees, WalkInv, PTL DEF ReadSpec

(***************************************************************************)
(* For every program, with any cycles among its types: what is read as the *)
(* type of a function, a formal parameter or a variable is the type that   *)
(* the entries declare, whatever the memo has been used for in between,    *)
(* and it is an error exactly if they declare no readable type.            *)
(***************************************************************************)
THEOREM PartsDeclared == Spec => []PartsAreDeclared
<1>1. IInv /\ OwnersInv /\ ReadInv => PartsAreDeclared
  <2> SUFFICES ASSUME IInv, OwnersInv, ReadInv, AtOwner, Top.parts # <<>>
               PROVE  LET part == Top.parts[Len(Top.parts)]
                          t    == Queries(Top.die)[Len(Top.parts)]
                      IN  /\ part = Err <=> t \in Unreadable
                          /\ t \in DOMAIN Declared => part = Declared[t]
    BY DEF PartsAreDeclared
  <2>1. frames # <<>> /\ Len(frames) = 1 /\ Top = frames[1]
    BY DEF AtOwner, Top
  <2>2. ReadingTypes /\ Links(frames) /\ Faithful(frames) /\ OwnerFaithful(frames)
    BY <2>1 DEF ReadInv, Good
  <2>3. Top.die = Owner
    BY <2>1, <2>2 DEF Links
  <2>4. PICK S : Top.parts \in Seq(S)
    BY <2>1, <2>2 DEF Links, IsFrame
  <2>5. Len(Top.parts) \in 1..Len(Top.parts)
    BY <2>4
  <2>6. PICK k \in 1..Len(Top.parts) : k = Len(Top.parts)
    BY <2>5
  <2>7. /\ Queries(Top.die)[k] \in DOMAIN Declared => Top.parts[k] = Declared[Queries(Top.die)[k]]
        /\ Top.parts[k] = Err => Queries(Top.die)[k] \in Unreadable
    BY <2>1, <2>2 DEF Faithful
  <2>8. Queries(Owner)[k] \in Unreadable => Top.parts[k] = Err
    BY <2>1, <2>2 DEF OwnerFaithful
  <2> QED
    BY <2>3, <2>6, <2>7, <2>8
<1> QED
  BY <1>1, ReadIsInvariant, PTL

LEMMA InOrderPlaces ==
  ASSUME NEW S \in SUBSET Nat, IsFiniteSet(S)
  PROVE  /\ InOrder(S) \in Seq(S) /\ Len(InOrder(S)) = Cardinality(S)
         /\ Cardinality(S) \in Nat
         /\ \A k \in 1..Len(InOrder(S)) : Place(S, InOrder(S)[k]) = k
<1> DEFINE n == Cardinality(S)
           place == [i \in S |-> Place(S, i)]
<1>1. /\ n \in Nat
      /\ \A i \in S : Place(S, i) \in 1..n
      /\ \A i, j \in S : Place(S, i) = Place(S, j) => i = j
  BY PlaceIsInjective
<1>2. place \in Injection(S, 1..n)
  BY <1>1 DEF Injection, IsInjective
<1>3. IsFiniteSet(1..n) /\ Cardinality(1..n) = n
  BY <1>1, FS_Interval
<1>4. place \in Surjection(S, 1..n)
  BY <1>2, <1>3, FS_Injection, Zenon DEF n
<1>5. \A k \in 1..n : \E i \in S : Place(S, i) = k
  BY <1>4 DEF Surjection
<1>6. InOrder(S) = [k \in 1..n |-> CHOOSE i \in S : Place(S, i) = k]
  BY DEF InOrder
<1> HIDE DEF n, place
<1>7. \A k \in 1..n : InOrder(S)[k] \in S /\ Place(S, InOrder(S)[k]) = k
  BY <1>5, <1>6
<1>8. InOrder(S) \in Seq(S) /\ Len(InOrder(S)) = n
  BY <1>1, <1>6, <1>7
<1> QED
  BY <1>1, <1>7, <1>8 DEF n

(* The members up to one of them are those at the places up to its own.    *)
LEMMA PlacesAscend ==
  ASSUME NEW S \in SUBSET Nat, IsFiniteSet(S), NEW i \in S, NEW j \in S
  PROVE  i <= j <=> Place(S, i) <= Place(S, j)
<1> DEFINE Upto(k) == {m \in S : m <= k}
<1>1. \A k \in S : /\ IsFiniteSet(Upto(k)) /\ Cardinality(Upto(k)) \in Nat
                   /\ Place(S, k) = Cardinality(Upto(k))
  BY FS_Subset, FS_CardinalityType DEF Place
<1>2. ASSUME NEW x \in S, NEW y \in S, x <= y PROVE Place(S, x) <= Place(S, y)
  <2>1. \A m \in S : m <= x => m <= y
    BY <1>2
  <2>2. Upto(x) \in SUBSET Upto(y)
    BY <2>1
  <2> HIDE DEF Upto
  <2> QED
    BY <1>1, <2>2, FS_Subset
<1>3. \A x, y \in S : Place(S, x) = Place(S, y) => x = y
  BY PlaceIsInjective
<1>4. Place(S, i) \in Nat /\ Place(S, j) \in Nat
  BY <1>1
<1>5. i <= j \/ (j <= i /\ i # j)
  OBVIOUS
<1> HIDE DEF Upto
<1> QED
  BY <1>2, <1>3, <1>4, <1>5

(* The members of an ordered list that are at the places of a set, in the  *)
(* order of their places, are in order.                                    *)
LEMMA SubsetInOrder ==
  ASSUME NEW R \in SUBSET Nat, IsFiniteSet(R), NEW G \in SUBSET R,
         NEW fs, fs = InOrder(R), NEW D, D = {k \in 1..Len(fs) : fs[k] \in G}
  PROVE  /\ IsFiniteSet(D) /\ D \in SUBSET Nat
         /\ Len(InOrder(D)) = Cardinality(G)
         /\ \A j \in 1..Len(InOrder(D)) :
              fs[InOrder(D)[j]] \in G /\ Place(G, fs[InOrder(D)[j]]) = j
<1>1. /\ fs \in Seq(R) /\ Len(fs) \in Nat /\ \A k \in 1..Len(fs) : Place(R, fs[k]) = k
  BY InOrderPlaces
<1>2. \A k, m \in 1..Len(fs) : fs[k] <= fs[m] <=> k <= m
  <2> TAKE k, m \in 1..Len(fs)
  <2>1. fs[k] \in R /\ fs[m] \in R /\ Place(R, fs[k]) = k /\ Place(R, fs[m]) = m
    BY <1>1
  <2>2. fs[k] <= fs[m] <=> Place(R, fs[k]) <= Place(R, fs[m])
    BY <2>1, PlacesAscend
  <2> QED
    BY <2>1, <2>2
<1>3. \A i \in R : \E k \in 1..Len(fs) : fs[k] = i
  BY InOrderLists
<1>4. IsFiniteSet(D) /\ D \in SUBSET Nat /\ IsFiniteSet(G) /\ G \in SUBSET Nat
  <2>1. IsFiniteSet(1..Len(fs)) /\ D \in SUBSET (1..Len(fs))
    BY <1>1, FS_Interval
  <2>2. D \in SUBSET Nat /\ G \in SUBSET Nat
    OBVIOUS
  <2>3. IsFiniteSet(D)
    BY <2>1, FS_Subset
  <2>4. IsFiniteSet(G)
    BY FS_Subset
  <2> QED
    BY <2>2, <2>3, <2>4
<1>5. \A k, m \in 1..Len(fs) : fs[k] = fs[m] => k = m
  BY <1>1
<1>6. ASSUME NEW C \in SUBSET D PROVE Cardinality({fs[k] : k \in C}) = Cardinality(C)
  <2> DEFINE f == [k \in C |-> fs[k]]
             B == {fs[k] : k \in C}
  <2>1. f \in Bijection(C, B)
    BY <1>5 DEF Bijection, Injection, IsInjective, Surjection
  <2>2. IsFiniteSet(C)
    BY <1>4, FS_Subset
  <2> HIDE DEF f, B
  <2>3. ExistsBijection(C, B)
    BY <2>1 DEF ExistsBijection
  <2>4. Cardinality(C) = Cardinality(B)
    BY <2>2, <2>3, FS_Bijection
  <2> QED
    BY <2>4 DEF B
<1>7. {fs[k] : k \in D} = G
  BY <1>3
<1>8. Cardinality(D) = Cardinality(G)
  BY <1>6, <1>7
<1>9. ASSUME NEW m \in D PROVE Place(G, fs[m]) = Place(D, m)
  <2> DEFINE C == {k \in D : k <= m}
             B == {i \in G : i <= fs[m]}
  <2>1. {fs[k] : k \in C} = B
    BY <1>2, <1>7
  <2>2. C \in SUBSET D /\ Place(D, m) = Cardinality(C) /\ Place(G, fs[m]) = Cardinality(B)
    BY DEF Place
  <2> HIDE DEF C, B
  <2> QED
    BY <1>6, <2>1, <2>2
<1>10. /\ InOrder(D) \in Seq(D) /\ Len(InOrder(D)) = Cardinality(D)
       /\ \A j \in 1..Len(InOrder(D)) : Place(D, InOrder(D)[j]) = j
  BY <1>4, InOrderPlaces
<1>11. \A j \in 1..Len(InOrder(D)) : InOrder(D)[j] \in D
  BY <1>10
<1> QED
  BY <1>4, <1>8, <1>9, <1>10, <1>11

(* The list of a set and that of a part of it agree up to a place exactly  *)
(* if nothing before that place is missing in the part.                    *)
LEMMA PrefixInPart ==
  ASSUME NEW P \in SUBSET Nat, IsFiniteSet(P), NEW G \in SUBSET P,
         NEW ids, ids = InOrder(P), NEW k \in 1..Len(ids)
  PROVE  /\ (\A j \in 1..k : ids[j] \in G) => ids[k] \in G /\ Place(G, ids[k]) = k
         /\ ids[k] \in G /\ Place(G, ids[k]) = k => \A j \in 1..k : ids[j] \in G
<1>1. /\ ids \in Seq(P) /\ Len(ids) \in Nat /\ \A j \in 1..Len(ids) : Place(P, ids[j]) = j
  BY InOrderPlaces
<1>2. \A j \in 1..Len(ids) : ids[j] <= ids[k] <=> j <= k
  <2> TAKE j \in 1..Len(ids)
  <2>1. ids[k] \in P /\ ids[j] \in P /\ Place(P, ids[k]) = k /\ Place(P, ids[j]) = j
    BY <1>1
  <2>2. ids[j] <= ids[k] <=> Place(P, ids[j]) <= Place(P, ids[k])
    BY <2>1, PlacesAscend
  <2> QED
    BY <2>1, <2>2
<1>3. \A i \in P : \E j \in 1..Len(ids) : ids[j] = i
  BY InOrderLists
<1> DEFINE A == {i \in P : i <= ids[k]}
           B == {i \in G : i <= ids[k]}
<1>4. Place(P, ids[k]) = Cardinality(A) /\ Place(G, ids[k]) = Cardinality(B)
  BY DEF Place
<1>5. B \in SUBSET A /\ IsFiniteSet(A)
  BY FS_Subset
<1>6. ASSUME \A j \in 1..k : ids[j] \in G PROVE A = B
  <2>1. ASSUME NEW i \in A PROVE i \in B
    <3>1. PICK j \in 1..Len(ids) : ids[j] = i
      BY <1>3
    <3>2. j \in 1..k
      BY <1>1, <1>2, <3>1
    <3> QED
      BY <1>6, <3>1, <3>2
  <2> QED
    BY <1>5, <2>1
<1>7. ASSUME A = B PROVE \A j \in 1..k : ids[j] \in G
  <2> TAKE j \in 1..k
  <2>1. j \in 1..Len(ids) /\ ids[j] <= ids[k]
    BY <1>1, <1>2
  <2>2. ids[j] \in A
    BY <1>1, <2>1
  <2> QED
    BY <1>7, <2>2
<1> HIDE DEF A, B
<1>8. Cardinality(B) = Cardinality(A) => A = B
  BY <1>5, FS_Subset
<1>9. Place(P, ids[k]) = k /\ k \in 1..k
  BY <1>1
<1> QED
  BY <1>4, <1>6, <1>7, <1>8, <1>9

Parameters == {i \in Below(U, Owner) : Die(i).tag = "formal"}
Kept       == {i \in Parameters : Named(i) /\ Typed(i)}
Delivered  == {i \in Kept : Die(i).type \notin Unreadable}

(* The parameters of a function have different names.                      *)
LEMMA ParametersDiffer ==
  ASSUME IInv, OwnersInv, ReadingTypes, NEW i \in Parameters, NEW j \in Parameters,
         Die(i).name = Die(j).name, Named(i)
  PROVE  i = j
<1>1. U \in 1..Len(units)
  BY OwnerIs
<1>2. ~ Reading
  BY DEF OwnersInv, ReadingTypes
<1>3. units \in Programs /\ TreeOf(units[U], trees[U])
  <2>1. Len(trees) \in Nat /\ Len(units) \in Nat /\ Len(trees) = Len(units)
    BY <1>2 DEF IInv, TypesInv, Reading
  <2> QED
    BY <1>1, <2>1 DEF IInv, TypesInv
<1>4. PICK unit, p, program : unit = units[U] /\ p = Owner /\ program = units
  OBVIOUS
<1>5. unit = program[U] /\ program \in Programs /\ U \in 1..Len(program)
  BY <1>1, <1>3, <1>4
<1>6. ASSUME NEW m \in Parameters
      PROVE  m \in 1..Len(unit) /\ unit[m].tag = "formal" /\ Encloses(unit, p, m)
  <2>1. m \in 1..Len(unit) /\ trees[U].childOf[m] = p /\ unit[m].tag = "formal"
    BY <1>4 DEF Parameters, Below, Die
  <2>2. m # 1
    BY <1>5, <2>1, EntriesAssumption
  <2>3. m \in 2..Len(unit)
    BY <2>1, <2>2
  <2> QED
    BY <1>3, <1>4, <2>1, <2>3 DEF TreeOf
<1>7. Encloses(unit, p, i) /\ Encloses(unit, p, j)
  BY <1>6
<1>8. p \in 1..Len(unit)
  <2>1. p \in 1..i - 1 /\ i \in 1..Len(unit)
    BY <1>6, <1>7 DEF Encloses
  <2> QED
    BY <2>1
<1>9. unit[i].name = unit[j].name /\ unit[i].name # NoName
  BY <1>4 DEF Die, Named
<1>10. \A q, m \in 1..Len(unit) :
         unit[i].tag = "formal" /\ unit[m].tag = "formal" /\ unit[i].name = unit[m].name
           /\ unit[i].name # NoName /\ Encloses(unit, q, i) /\ Encloses(unit, q, m) => i = m
  <2>1. i \in 1..Len(unit)
    BY <1>6
  <2> QED
    BY <1>5, <2>1, EntriesAssumption
<1> QED
  BY <1>6, <1>7, <1>8, <1>9, <1>10

(* The results of the types of the parameters.                             *)
LEMMA ParameterParts ==
  ASSUME IInv, OwnersInv, ReadInv, ReadingTypes, AtOwner, Die(Owner).tag = "subprogram", ~ Asks
  PROVE  \A k \in 1..Len(Formals(Owner)) :
           Top.parts[k + 1] = Err <=> Die(Formals(Owner)[k]).type \in Unreadable
<1>1. UnitFacts /\ Owner \in 1..Entries
  BY UnitIs
<1>2. frames # <<>> /\ Len(frames) = 1 /\ Top = frames[1]
  BY DEF AtOwner, Top
<1>3. Links(frames) /\ Faithful(frames) /\ OwnerFaithful(frames) /\ Typed(Owner)
  BY <1>2 DEF ReadInv, Good, OwnersInv
<1>4. Top.die = Owner
  BY <1>2, <1>3 DEF Links
<1>5. PICK fs : fs = Formals(Owner)
  OBVIOUS
<1>6. Len(fs) \in Nat /\ TypesOf(fs) \in Seq(TypeEntries)
  <2>1. TypesOf(fs) \in Seq(TypeEntries)
    BY <1>1, <1>5, TypesOfTyped DEF Formals
  <2>2. fs \in Seq(Below(U, Owner))
    <3> DEFINE S == {i \in Below(U, Owner) : Die(i).tag = "formal" /\ Named(i) /\ Typed(i)}
    <3>1. S \subseteq Below(U, Owner) /\ fs = InOrder(S)
      BY <1>5 DEF Formals, Readable
    <3> HIDE DEF S
    <3>2. fs \in Seq(S)
      BY <1>1, <3>1, BelowAreEntries
    <3> QED
      BY <3>1, <3>2
  <2> QED
    BY <2>1, <2>2
<1>7. Queries(Owner) = <<Die(Owner).type>> \o TypesOf(fs)
  BY <1>5 DEF Queries
<1>8. /\ Len(TypesOf(fs)) = Len(fs)
      /\ \A k \in 1..Len(fs) : TypesOf(fs)[k] = Die(fs[k]).type
  BY <1>6 DEF TypesOf
<1>9. PICK ts, t : ts = TypesOf(fs) /\ t = Die(Owner).type
  OBVIOUS
<1>10. /\ Len(<<t>> \o ts) = Len(fs) + 1
       /\ \A k \in 1..Len(fs) : (<<t>> \o ts)[k + 1] = ts[k]
  BY <1>6, <1>8, <1>9
<1>11. /\ Len(Queries(Owner)) = Len(fs) + 1
       /\ \A k \in 1..Len(fs) : Queries(Owner)[k + 1] = Die(fs[k]).type
  BY <1>7, <1>8, <1>9, <1>10
<1>12. Len(Top.parts) = Len(fs) + 1
  <2>1. Len(Top.parts) \in Nat /\ Len(Top.parts) <= Len(Queries(Owner))
    BY <1>1, <1>2, <1>3, <1>4, FramesAre
  <2>2. ~ (Len(Top.parts) < Len(Queries(Owner)))
    BY <1>4 DEF Asks
  <2> QED
    BY <1>6, <1>11, <2>1, <2>2
<1>13. ASSUME NEW k \in 1..Len(fs)
       PROVE  Top.parts[k + 1] = Err <=> Die(fs[k]).type \in Unreadable
  <2>1. PICK n : n = k + 1
    OBVIOUS
  <2>2. n \in 1..Len(Top.parts) /\ Queries(Owner)[n] = Die(fs[k]).type
    BY <1>6, <1>11, <1>12, <2>1
  <2>3. Top.parts[n] = Err => Queries(Owner)[n] \in Unreadable
    BY <1>2, <1>3, <1>4, <2>2 DEF Faithful
  <2>4. Queries(Owner)[n] \in Unreadable => Top.parts[n] = Err
    BY <1>2, <1>3, <2>2 DEF OwnerFaithful
  <2> QED
    BY <2>1, <2>2, <2>3, <2>4
<1> QED
  BY <1>5, <1>13

(* The arguments are the parameters with a readable type, in order.        *)
LEMMA ArgumentsAre ==
  ASSUME IInv, OwnersInv, ReadInv, ReadingTypes, AtOwner, Die(Owner).tag = "subprogram", ~ Asks
  PROVE  /\ Len(Arguments) = Cardinality(Delivered)
         /\ \A n \in 1..Len(Arguments) : \E g \in Delivered :
              Place(Delivered, g) = n /\ Arguments[n].name = Die(g).name
<1>1. UnitFacts
  BY UnitIs
<1>2. PICK R, G : R = Kept /\ G = Delivered
  OBVIOUS
<1>3. R \in SUBSET Nat /\ IsFiniteSet(R) /\ G \in SUBSET R
  <2>1. R \subseteq Below(U, Owner)
    BY <1>2 DEF Kept, Parameters
  <2> QED
    BY <1>1, <1>2, <2>1, BelowAreEntries DEF Delivered
<1>4. PICK fs : fs = Formals(Owner)
  OBVIOUS
<1>5. fs = InOrder(R)
  <2>1. {i \in Below(U, Owner) : Die(i).tag = "formal" /\ Named(i) /\ Typed(i)} = Kept
    BY DEF Kept, Parameters
  <2> QED
    BY <1>2, <1>4, <2>1 DEF Formals, Readable
<1>6. fs \in Seq(R)
  BY <1>3, <1>5, InOrderPlaces
<1>7. PICK D : D = {k \in 1..Len(fs) : Top.parts[k + 1] # Err}
  OBVIOUS
<1>8. D = {k \in 1..Len(fs) : fs[k] \in G}
  <2>1. \A k \in 1..Len(fs) : Top.parts[k + 1] = Err <=> Die(fs[k]).type \in Unreadable
    BY <1>4, ParameterParts
  <2>2. \A k \in 1..Len(fs) : fs[k] \in Kept
    BY <1>2, <1>6
  <2> QED
    BY <1>2, <1>7, <2>1, <2>2 DEF Delivered
<1>9. PICK read : read = InOrder(D)
  OBVIOUS
<1>10. /\ IsFiniteSet(D) /\ D \in SUBSET Nat
       /\ Len(read) = Cardinality(G)
       /\ \A j \in 1..Len(read) : fs[read[j]] \in G /\ Place(G, fs[read[j]]) = j
  BY <1>3, <1>5, <1>8, <1>9, SubsetInOrder
<1>11. Len(read) \in Nat
  BY <1>9, <1>10, InOrderPlaces
<1>12. Arguments = [j \in 1..Len(read) |->
                      [name |-> Die(fs[read[j]]).name, typ |-> Top.parts[read[j] + 1]]]
  BY <1>4, <1>7, <1>9 DEF Arguments
<1>13. Len(Arguments) = Len(read) /\ \A j \in 1..Len(read) : Arguments[j].name = Die(fs[read[j]]).name
  BY <1>11, <1>12
<1> QED
  BY <1>2, <1>10, <1>13

(***************************************************************************)
(* For every program: a procedure requires of its k-th formal parameter    *)
(* that it is register a(k - 1) exactly if neither it nor any parameter    *)
(* before it lacks a name, a type or a readable type.                      *)
(***************************************************************************)
THEOREM ArgumentsKeepRegisters == Spec => []ArgumentsAtTheirRegisters
<1>1. IInv /\ OwnersInv /\ ReadInv => ArgumentsAtTheirRegisters
  <2> SUFFICES ASSUME IInv, OwnersInv, ReadInv, ReadingTypes, AtOwner,
                      Die(Owner).tag = "subprogram", ~ Asks
               PROVE  ArgumentsAtTheirRegisters
    BY DEF ArgumentsAtTheirRegisters
  <2>1. UnitFacts
    BY UnitIs
  <2>2. PICK P, G, ids, unreadable :
          P = Parameters /\ G = Delivered /\ ids = ParameterDies(U, Owner) /\ unreadable = Unreadable
    OBVIOUS
  <2>3. ids = InOrder(P)
    BY <2>2 DEF ParameterDies, Tagged, Parameters, Die
  <2>4. P \in SUBSET Nat /\ IsFiniteSet(P) /\ G \in SUBSET P /\ G \in SUBSET Nat /\ IsFiniteSet(G)
    <3>1. P \subseteq Below(U, Owner) /\ G \subseteq Below(U, Owner) /\ G \subseteq P
      BY <2>2 DEF Delivered, Kept, Parameters
    <3> QED
      BY <2>1, <3>1, BelowAreEntries
  <2>5. ids \in Seq(P)
    BY <2>3, <2>4, InOrderPlaces
  <2> DEFINE ok(k) == Named(ids[k]) /\ Typed(ids[k]) /\ Die(ids[k]).type \notin unreadable
             before(k) == {j \in 1..k : ok(j)}
             argument(k) == \E n \in 1..Len(Arguments) : n = k /\ Arguments[n].name = Die(ids[k]).name
  <2>6. ASSUME NEW k \in 1..Len(ids) PROVE argument(k) <=> before(k) = 1..k
    <3>1. \A j \in 1..k : j \in 1..Len(ids) /\ ids[j] \in P
      BY <2>5
    <3>2. \A j \in 1..k : ok(j) <=> ids[j] \in G
      BY <2>2, <3>1 DEF Delivered, Kept
    <3>3. before(k) = 1..k <=> \A j \in 1..k : ids[j] \in G
      BY <3>2
    <3>4. /\ (\A j \in 1..k : ids[j] \in G) => ids[k] \in G /\ Place(G, ids[k]) = k
          /\ ids[k] \in G /\ Place(G, ids[k]) = k => \A j \in 1..k : ids[j] \in G
      BY <2>3, <2>4, PrefixInPart
    <3> HIDE DEF ok, before
    <3>5. /\ Len(Arguments) = Cardinality(G)
          /\ \A n \in 1..Len(Arguments) : \E g \in G :
               Place(G, g) = n /\ Arguments[n].name = Die(g).name
      BY <2>2, ArgumentsAre
    <3>6. ASSUME argument(k) PROVE ids[k] \in G /\ Place(G, ids[k]) = k
      <4>1. k \in 1..Len(Arguments) /\ Arguments[k].name = Die(ids[k]).name
        BY <3>6
      <4>2. PICK g \in G : Place(G, g) = k /\ Arguments[k].name = Die(g).name
        BY <3>5, <4>1
      <4>3. g \in Parameters /\ Named(g)
        BY <2>2 DEF Delivered, Kept
      <4>4. ids[k] \in Parameters
        BY <2>2, <2>5
      <4>5. g = ids[k]
        BY <4>1, <4>2, <4>3, <4>4, ParametersDiffer
      <4> QED
        BY <4>2, <4>5
    <3>7. ASSUME ids[k] \in G, Place(G, ids[k]) = k PROVE argument(k)
      <4>1. /\ k \in 1..Cardinality(G)
            /\ \A i, j \in G : Place(G, i) = Place(G, j) => i = j
        <5>1. /\ \A i \in G : Place(G, i) \in 1..Cardinality(G)
              /\ \A i, j \in G : Place(G, i) = Place(G, j) => i = j
          BY <2>4, PlaceIsInjective
        <5>2. Place(G, ids[k]) \in 1..Cardinality(G)
          BY <3>7, <5>1
        <5> QED
          BY <3>7, <5>1, <5>2
      <4>2. PICK g \in G : Place(G, g) = k /\ Arguments[k].name = Die(g).name
        BY <3>5, <4>1
      <4>3. g = ids[k]
        BY <3>7, <4>1, <4>2
      <4> QED
        BY <3>5, <4>1, <4>2, <4>3
    <3> QED
      BY <3>3, <3>4, <3>6, <3>7
  <2> QED
    BY <2>2, <2>6 DEF ArgumentsAtTheirRegisters
<1> QED
  BY <1>1, ReadIsInvariant, PTL

(***************************************************************************)
(* The types that are read are made of types, every pointer in them has    *)
(* the width of an address, and so have the indices of every array.        *)
(***************************************************************************)
WellSized(t) ==
  /\ t.kind \in {"primitive", "struct", "pointer", "array"}
  /\ t.kind = "pointer" => t.bytes = Xlen
  /\ t.kind = "array" => t.in = Primitive(Xlen)

Closed(W) == \A t \in W : WellSized(t) /\ \A p \in Parts(t) : p.typ \in W

PartsIn(stk, X) == \A m \in 1..Len(stk) : \A k \in 1..Len(stk[m].parts) : stk[m].parts[k] \in X

Within(W, stk, map) ==
  /\ PartsIn(stk, W \cup {Err})
  /\ Len(stk) > 1 => \A j \in DOMAIN map : map[j] \in W

SizedInv ==
  /\ \E S : globalVars \in Seq(S)
  /\ \E W : /\ Closed(W) /\ Within(W, frames, memo)
            /\ \A k \in 1..Len(globalVars) : globalVars[k].typ \in W

LEMMA ClosedWith ==
  ASSUME NEW W, Closed(W), NEW t, WellSized(t), \A p \in Parts(t) : p.typ \in W
  PROVE  Closed(W \cup {t})
BY DEF Closed

LEMMA DeclaredIndex ==
  ASSUME UnitFacts, NEW i \in Whole, Die(i).tag = "array"
  PROVE  /\ Queries(i)[2] \in DOMAIN Declared
         /\ Declared[Queries(i)[2]] = Primitive(Xlen)
<1>1. PICK x : x = Queries(i)[2]
  OBVIOUS
<1>2. x \in Whole /\ Queries(x) = <<>> /\ Die(x).tag = "base" /\ Die(x).bytes = Xlen
  BY <1>1, ArrayAsks
<1>3. 1..Len(Queries(x)) = {}
  BY <1>2
<1>4. x \in 1..Entries /\ Entries \in Nat
  BY <1>2, WholeAreEntries DEF TypeEntries, UnitFacts
<1>5. 1 \in Nat /\ 1 <= Entries /\ 0 + 1 = 1 /\ 0 \in Nat
  BY <1>4
<1>6. PICK z \in Nat : z = 0
  OBVIOUS
<1>7. /\ x \in DOMAIN Known[z + 1]
      /\ Known[z + 1][x] = TypeDefn(x, [k \in 1..Len(Queries(x)) |-> Known[z][Queries(x)[k]]])
  BY <1>2, <1>3, KnownInto
<1>8. z + 1 = 1
  BY <1>6
<1>9. Known[z + 1][x] = Primitive(Xlen)
  BY <1>2, <1>7 DEF TypeDefn
<1>10. x \in DOMAIN Known[1] /\ Known[1][x] = Primitive(Xlen)
  BY <1>7, <1>8, <1>9
<1>11. KeepsKnown(1, Entries)
  BY <1>4, <1>5, KnownGrows
<1> QED
  BY <1>1, <1>10, <1>11, DeclaredIs DEF KeepsKnown

(* A type made of such types is one.                                       *)
LEMMA FinishedSized ==
  ASSUME UnitFacts, Links(frames), Faithful(frames), Len(frames) > 1, ~ Failed, ~ Asks,
         NEW W, \A k \in 1..Len(Top.parts) : Top.parts[k] \in W \cup {Err},
         Closed(W)
  PROVE  \/ TypeDefn(Top.die, Top.parts) \in W
         \/ /\ WellSized(TypeDefn(Top.die, Top.parts))
            /\ \A p \in Parts(TypeDefn(Top.die, Top.parts)) : p.typ \in W
<1>1. PICK n : n = Len(frames)
  OBVIOUS
<1>2. n \in 1..Len(frames) /\ Top = frames[n]
  BY <1>1, FramesAre DEF Top
<1>3. PICK i, parts, t : i = Top.die /\ parts = Top.parts /\ t = TypeDefn(i, parts)
  OBVIOUS
<1>4. Len(parts) \in Nat /\ Len(parts) = Len(Queries(i)) /\ i \in 1..Entries
  <2>1. /\ Len(parts) \in Nat /\ Len(Queries(i)) \in Nat /\ Len(parts) <= Len(Queries(i))
        /\ i \in 1..Entries
    BY <1>2, <1>3, FramesAre
  <2>2. ~ (Len(parts) < Len(Queries(i)))
    BY <1>3 DEF Asks
  <2> QED
    BY <2>1, <2>2
<1>5. /\ i \in Whole /\ Complete(i)
      /\ ~ Filters(i) => \A k \in 1..Len(parts) : parts[k] # Err
  BY <1>3, FinishedRight DEF Whole
<1>6. ~ Filters(i) => \A k \in 1..Len(parts) : parts[k] \in W
  BY <1>3, <1>5
<1>7. Die(i).tag \in {"base", "typedef", "pointer", "array", "struct"}
  BY <1>5 DEF Complete
<1>8. CASE Die(i).tag = "base"
  <2>1. t = Primitive(Die(i).bytes)
    BY <1>3, <1>8 DEF TypeDefn
  <2>2. t.kind = "primitive"
    BY <2>1 DEF Primitive
  <2>3. Parts(t) = {}
    BY <2>2 DEF Parts
  <2> QED
    BY <1>3, <2>2, <2>3 DEF WellSized
<1>9. CASE Die(i).tag = "typedef"
  <2>1. t = parts[1] /\ ~ Filters(i)
    BY <1>3, <1>9 DEF TypeDefn, Filters
  <2>2. 1 \in 1..Len(parts)
    BY <1>4, <1>5, <1>9, AliasAsks
  <2> QED
    BY <1>3, <1>6, <2>1, <2>2
<1>10. CASE Die(i).tag = "pointer"
  <2>1. t = Pointer(parts[1], Die(i).bytes) /\ ~ Filters(i)
    BY <1>3, <1>10 DEF TypeDefn, Filters
  <2>2. 1 \in 1..Len(parts)
    BY <1>4, <1>5, <1>10, AliasAsks
  <2>3. Die(i).bytes = Xlen
    BY <1>4, <1>5, <1>10 DEF Complete, UnitFacts
  <2>4. t.kind = "pointer" /\ t.value = parts[1] /\ t.bytes = Xlen
    BY <2>1, <2>3 DEF Pointer
  <2>5. Parts(t) = {Part("value", parts[1])}
    BY <2>4 DEF Parts
  <2>6. \A p \in Parts(t) : p.typ = parts[1]
    BY <2>5 DEF Part
  <2> QED
    BY <1>3, <1>6, <2>1, <2>2, <2>4, <2>6 DEF WellSized
<1>11. CASE Die(i).tag = "array"
  <2>1. t = Array(parts[2], parts[1]) /\ ~ Filters(i)
    BY <1>3, <1>11 DEF TypeDefn, Filters
  <2>2. 1 \in 1..Len(parts) /\ 2 \in 1..Len(parts)
    <3>1. Len(Queries(i)) = 2
      BY <1>5, <1>11, ArrayAsks
    <3> QED
      BY <1>4, <3>1
  <2>3. parts[2] = Primitive(Xlen)
    <3>1. /\ Queries(i)[2] \in DOMAIN Declared
          /\ Declared[Queries(i)[2]] = Primitive(Xlen)
      BY <1>5, <1>11, DeclaredIndex
    <3> QED
      BY <1>2, <1>3, <2>2, <3>1 DEF Faithful
  <2>4. t.kind = "array" /\ t.in = parts[2] /\ t.out = parts[1]
    BY <2>1 DEF Array
  <2>5. Parts(t) = {Part("in", parts[2]), Part("out", parts[1])}
    BY <2>4 DEF Parts
  <2>6. \A p \in Parts(t) : p.typ = parts[1] \/ p.typ = parts[2]
    BY <2>5 DEF Part
  <2> QED
    BY <1>3, <1>6, <2>1, <2>2, <2>3, <2>4, <2>6 DEF WellSized
<1>12. CASE Die(i).tag = "struct"
  <2>1. t = Struct(Die(i).name, Fields(i, parts), Die(i).bytes)
    BY <1>3, <1>12 DEF TypeDefn
  <2>2. PICK fields : fields = Fields(i, parts)
    OBVIOUS
  <2>3. t.kind = "struct" /\ t.fields = fields
    BY <2>1, <2>2 DEF Struct
  <2>4. Parts(t) = {Part("field", fields[name].typ) : name \in DOMAIN fields}
    BY <2>3 DEF Parts
  <2>5. \A p \in Parts(t) : \E name \in DOMAIN fields : p.typ = fields[name].typ
    BY <2>4 DEF Part
  <2>6. ASSUME NEW name \in DOMAIN fields PROVE fields[name].typ \in W
    <3> DEFINE kept == {k \in 1..Len(parts) : parts[k] # Err /\ Die(Members(i)[k]).loc # None}
               chosen == CHOOSE j \in kept : Die(Members(i)[j]).name = name
    <3>1. fields = [m \in {Die(Members(i)[k]).name : k \in kept} |->
                      LET k == CHOOSE j \in kept : Die(Members(i)[j]).name = m
                      IN  [typ |-> parts[k], loc |-> Die(Members(i)[k]).loc]]
      BY <2>2, Zenon DEF Fields
    <3>2. \E j \in kept : Die(Members(i)[j]).name = name
      BY <2>6, <3>1
    <3>3. chosen \in kept
      BY <3>2, Zenon
    <3>4. parts[chosen] \in W
      BY <1>3, <3>3
    <3>5. fields[name].typ = parts[chosen]
      BY <2>6, <3>1
    <3> QED
      BY <3>4, <3>5
  <2> QED
    BY <1>3, <2>3, <2>5, <2>6 DEF WellSized
<1> QED
  BY <1>7, <1>8, <1>9, <1>10, <1>11, <1>12

LEMMA WithinGrows ==
  ASSUME NEW W, NEW V, NEW stk, NEW map, Within(W, stk, map), W \subseteq V
  PROVE  Within(V, stk, map)
BY DEF Within, PartsIn

LEMMA WithinDelivered ==
  ASSUME UnitFacts, NEW stk, Links(stk), NEW X, PartsIn(stk, X), NEW result \in X
  PROVE  PartsIn(Deliver(stk, result), X)
<1>1. PICK n, new : n = Len(stk) /\ new = Deliver(stk, result)
  OBVIOUS
<1>2. n \in Nat /\ n \in 1..Len(stk)
  BY <1>1, FramesAre
<1>3. /\ Len(new) = n
      /\ \A m \in 1..n - 1 : new[m] = stk[m]
      /\ new[n] = [die |-> stk[n].die, parts |-> Append(stk[n].parts, result)]
  BY <1>1, DeliverIs DEF Last
<1>4. PICK S : stk[n].parts \in Seq(S)
  BY <1>2 DEF Links, IsFrame
<1>5. new[n].parts = Append(stk[n].parts, result)
  BY <1>3
<1>6. \A k \in 1..Len(Append(stk[n].parts, result)) :
        Append(stk[n].parts, result)[k] = result
          \/ (k \in 1..Len(stk[n].parts) /\ Append(stk[n].parts, result)[k] = stk[n].parts[k])
  BY <1>4
<1>7. \A k \in 1..Len(new[n].parts) : new[n].parts[k] \in X
  BY <1>1, <1>2, <1>5, <1>6 DEF PartsIn
<1>8. \A m \in 1..n : m = n \/ (m \in 1..n - 1 /\ m \in 1..Len(stk))
  BY <1>1, <1>2
<1>9. ASSUME NEW m \in 1..n, NEW k \in 1..Len(new[m].parts) PROVE new[m].parts[k] \in X
  <2>1. CASE m = n
    BY <1>7, <2>1
  <2>2. CASE m # n
    <3>1. new[m] = stk[m] /\ m \in 1..Len(stk)
      BY <1>3, <1>8, <2>2
    <3> QED
      BY <1>1, <3>1 DEF PartsIn
  <2> QED
    BY <2>1, <2>2
<1>10. PartsIn(new, X)
  BY <1>3, <1>9 DEF PartsIn
<1> QED
  BY <1>1, <1>10

(* The invariant, once there is a set of types for the new stack.          *)
LEMMA SizedBy ==
  ASSUME SizedInv, UNCHANGED globalVars, NEW W, NEW V, W \subseteq V, Closed(V),
         \A k \in 1..Len(globalVars) : globalVars[k].typ \in W,
         Within(V, frames', memo')
  PROVE  SizedInv'
<1>1. PICK S : globalVars \in Seq(S)
  BY DEF SizedInv
<1>2. Closed(V)'
  BY DEF Closed, WellSized, Parts, Part, Primitive
<1>3. Within(V, frames, memo)'
  BY DEF Within, PartsIn
<1> QED
  BY <1>1, <1>2, <1>3 DEF SizedInv

LEMMA SizedRecall ==
  ASSUME IInv, OwnersInv, ReadInv, SizedInv, Recall
  PROVE  SizedInv'
<1>1. PICK W : /\ Closed(W) /\ Within(W, frames, memo)
               /\ \A k \in 1..Len(globalVars) : globalVars[k].typ \in W
  BY DEF SizedInv
<1>2. /\ ReadingTypes /\ frames # <<>> /\ Asks /\ Query \in DOMAIN Memo
      /\ frames' = Deliver(frames, Memo[Query]) /\ memo' = memo /\ globalVars' = globalVars
  BY DEF Recall
<1>3. UnitFacts /\ Links(frames)
  BY <1>2, UnitIs DEF ReadInv, Good
<1>4. Len(frames) \in Nat /\ Len(frames) > 0
  BY <1>3, FramesAre
<1>5. Len(frames) > 1 /\ Memo = memo
  <2>1. ~ AtOwner
    <3>1. AtOwner => DOMAIN Memo = {}
      BY DEF Memo
    <3> QED
      BY <1>2, <3>1
  <2>2. Len(frames) # 1
    BY <2>1 DEF AtOwner
  <2>3. Len(frames) > 1
    BY <1>4, <2>2
  <2>4. Memo = memo
    BY <2>1 DEF Memo
  <2> QED
    BY <2>3, <2>4
<1>6. PICK r, new : r = memo[Query] /\ new = Deliver(frames, r)
  OBVIOUS
<1>7. r \in W
  BY <1>1, <1>2, <1>5, <1>6 DEF Within, PartsIn
<1>8. Within(W, new, memo)
  <2>1. PICK X : X = W \cup {Err}
    OBVIOUS
  <2>2. PartsIn(new, X)
    <3>1. PartsIn(frames, X) /\ r \in X
      BY <1>1, <1>7, <2>1 DEF Within, PartsIn
    <3> QED
      BY <1>3, <1>6, <3>1, WithinDelivered
  <2>3. \A j \in DOMAIN memo : memo[j] \in W
    BY <1>1, <1>5 DEF Within, PartsIn
  <2> QED
    BY <2>1, <2>2, <2>3 DEF Within, PartsIn
<1>9. Within(W, frames', memo')
  BY <1>2, <1>5, <1>6, <1>8
<1> QED
  BY <1>1, <1>2, <1>9, SizedBy

LEMMA SizedEnter ==
  ASSUME IInv, OwnersInv, ReadInv, SizedInv, Enter
  PROVE  SizedInv'
<1>1. PICK W : /\ Closed(W) /\ Within(W, frames, memo)
               /\ \A k \in 1..Len(globalVars) : globalVars[k].typ \in W
  BY DEF SizedInv
<1>2. /\ ReadingTypes /\ frames # <<>> /\ Asks
      /\ memo' = Insert(Memo, Query, Stub)
      /\ frames' = Append(frames, [die |-> Query, parts |-> <<>>]) /\ globalVars' = globalVars
  BY DEF Enter, Stubbed
<1>3. UnitFacts /\ Links(frames)
  BY <1>2, UnitIs DEF ReadInv, Good
<1>4. Len(frames) \in Nat /\ Len(frames) > 0
  BY <1>3, FramesAre
<1>5. Next1(Last(frames)) = Query
  BY DEF Last, Top, Next1, Query
<1>6. PICK V, q, new, map : /\ V = W \cup {Stub} /\ q = Query
                            /\ new = Pushed(frames) /\ map = Insert(Memo, q, Stub)
  OBVIOUS
<1>7. frames' = new /\ memo' = map
  BY <1>2, <1>5, <1>6 DEF Pushed
<1>8. Closed(V)
  <2>1. Stub.kind = "primitive"
    BY DEF Stub, Primitive
  <2>2. WellSized(Stub) /\ Parts(Stub) = {}
    BY <2>1 DEF WellSized, Parts
  <2> QED
    BY <1>1, <1>6, <2>2, ClosedWith
<1>9. /\ Len(new) = Len(frames) + 1
      /\ \A m \in 1..Len(frames) : new[m] = frames[m]
      /\ new[Len(frames) + 1].parts = <<>>
  <2>1. /\ Len(new) = Len(frames) + 1 /\ \A m \in 1..Len(frames) : new[m] = frames[m]
        /\ new[Len(frames) + 1] = [die |-> q, parts |-> <<>>]
    BY <1>3, <1>5, <1>6, PushedIs
  <2> QED
    BY <2>1
<1>10. \A m \in 1..Len(new) : \A k \in 1..Len(new[m].parts) : new[m].parts[k] \in V \cup {Err}
  <2> TAKE m \in 1..Len(new)
  <2>1. m \in 1..Len(frames) \/ m = Len(frames) + 1
    BY <1>4, <1>9
  <2>2. CASE m \in 1..Len(frames)
    BY <1>1, <1>6, <1>9, <2>2 DEF Within, PartsIn
  <2>3. CASE m = Len(frames) + 1
    <3>1. new[m].parts = <<>> /\ 1..Len(<<>>) = {}
      BY <1>9, <2>3
    <3> QED
      BY <3>1
  <2> QED
    BY <2>1, <2>2, <2>3
<1>11. \A j \in DOMAIN map : map[j] \in V
  <2>1. \A j \in DOMAIN Memo : Memo[j] \in W
    <3>1. CASE AtOwner
      <4>1. Memo = <<>> /\ DOMAIN <<>> = {}
        BY <3>1 DEF Memo
      <4> QED
        BY <4>1
    <3>2. CASE ~ AtOwner
      <4>1. Memo = memo /\ Len(frames) > 1
        BY <1>4, <3>2 DEF Memo, AtOwner
      <4> QED
        BY <1>1, <4>1 DEF Within, PartsIn
    <3> QED
      BY <3>1, <3>2
  <2> QED
    BY <1>6, <2>1 DEF Insert
<1>12. Within(V, frames', memo')
  BY <1>7, <1>10, <1>11 DEF Within, PartsIn
<1>13. W \subseteq V
  BY <1>6
<1> QED
  BY <1>1, <1>2, <1>8, <1>12, <1>13, SizedBy

LEMMA SizedReturn ==
  ASSUME IInv, OwnersInv, ReadInv, SizedInv, ReadingTypes, Len(frames) > 1, NEW W, NEW V,
         Within(W, frames, memo), Closed(V), W \subseteq V,
         \A k \in 1..Len(globalVars) : globalVars[k].typ \in W,
         UNCHANGED globalVars, NEW result, result \in V \cup {Err}, frames' = Deliver(Rest, result),
         \A j \in DOMAIN memo' : (j \in DOMAIN memo /\ memo'[j] = memo[j]) \/ memo'[j] \in V
  PROVE  SizedInv'
<1>1. /\ UnitFacts /\ Links(Rest)
      /\ Len(Rest) = Len(frames) - 1 /\ \A m \in 1..Len(Rest) : Rest[m] = frames[m]
      /\ Len(Rest) \in Nat /\ Len(Rest) > 0
  BY RestIs
<1>2. PICK X, stk, new : X = V \cup {Err} /\ stk = Rest /\ new = Deliver(stk, result)
  OBVIOUS
<1>3. PartsIn(stk, X)
  <2>1. PartsIn(frames, X)
    BY <1>2 DEF Within, PartsIn
  <2>2. \A m \in 1..Len(stk) : m \in 1..Len(frames) /\ stk[m] = frames[m]
    BY <1>1, <1>2
  <2> QED
    BY <2>1, <2>2 DEF PartsIn
<1>4. PartsIn(new, X)
  <2>1. Links(stk) /\ result \in X
    BY <1>1, <1>2
  <2> QED
    BY <1>1, <1>2, <1>3, <2>1, WithinDelivered
<1>5. \A j \in DOMAIN memo : memo[j] \in V
  BY DEF Within, PartsIn
<1>6. \A j \in DOMAIN memo' : memo'[j] \in V
  BY <1>5
<1>7. Within(V, frames', memo')
  BY <1>2, <1>4, <1>6 DEF Within, PartsIn
<1> QED
  BY <1>7, SizedBy

LEMMA SizedVariable ==
  ASSUME IInv, OwnersInv, ReadInv, SizedInv, FinishVariable
  PROVE  SizedInv'
<1>1. PICK W : /\ Closed(W) /\ Within(W, frames, memo)
               /\ \A k \in 1..Len(globalVars) : globalVars[k].typ \in W
  BY DEF SizedInv
<1>2. PICK S : globalVars \in Seq(S)
  BY DEF SizedInv
<1>3. /\ ReadingTypes /\ AtOwner /\ Die(Owner).tag = "variable" /\ (Failed \/ ~ Asks)
      /\ frames' = <<>>
      /\ globalVars' = IF HasVariable
                         THEN Append(globalVars, [name |-> Die(Owner).name, typ |-> Top.parts[1],
                                                  addr |-> Die(Owner).loc])
                         ELSE globalVars
  BY DEF FinishVariable
<1>4. Closed(W)' /\ Within(W, frames, memo)'
  <2>1. Closed(W)'
    BY <1>1 DEF Closed, WellSized, Parts, Part, Primitive
  <2>2. Len(<<>>) = 0 /\ 1..Len(<<>>) = {}
    OBVIOUS
  <2> QED
    BY <1>3, <2>1, <2>2 DEF Within, PartsIn
<1>5. CASE ~ HasVariable
  BY <1>1, <1>2, <1>3, <1>4, <1>5 DEF SizedInv
<1>6. CASE HasVariable
  <2>1. ~ Failed /\ ~ Asks
    BY <1>3, <1>6 DEF HasVariable
  <2>2. frames # <<>> /\ Len(frames) = 1 /\ Top = frames[1]
    BY <1>3 DEF AtOwner, Top
  <2>3. UnitFacts /\ Links(frames) /\ Typed(Owner)
    BY <1>3, <2>2, UnitIs DEF ReadInv, Good, OwnersInv
  <2>4. Top.die = Owner
    BY <2>2, <2>3 DEF Links
  <2>5. Queries(Owner) = <<Die(Owner).type>>
    BY <1>3, <2>3 DEF Queries
  <2>6. 1 \in 1..Len(Top.parts)
    <3>1. Len(Top.parts) \in Nat
      BY <2>2, <2>3, FramesAre
    <3>2. Len(Queries(Owner)) = 1
      BY <2>5
    <3> QED
      BY <2>1, <2>4, <3>1, <3>2 DEF Asks
  <2>7. Top.parts[1] # Err
    BY <1>3, <2>1, <2>4, <2>6 DEF Failed, Filters
  <2>8. Top.parts[1] \in W
    BY <1>1, <2>2, <2>6, <2>7 DEF Within, PartsIn
  <2>9. PICK v : v = [name |-> Die(Owner).name, typ |-> Top.parts[1], addr |-> Die(Owner).loc]
    OBVIOUS
  <2>10. v.typ \in W /\ globalVars' = Append(globalVars, v)
    BY <1>3, <1>6, <2>8, <2>9
  <2>11. /\ globalVars' \in Seq(S \cup {v})
         /\ \A k \in 1..Len(globalVars') :
              globalVars'[k] = v \/ (k \in 1..Len(globalVars) /\ globalVars'[k] = globalVars[k])
    BY <1>2, <2>10
  <2>12. \A k \in 1..Len(globalVars') : globalVars'[k].typ \in W
    BY <1>1, <2>10, <2>11
  <2> QED
    BY <1>4, <2>11, <2>12 DEF SizedInv
<1> QED
  BY <1>5, <1>6

LEMMA SizedSame ==
  ASSUME SizedInv, UNCHANGED globalVars, frames' = <<>> \/ UNCHANGED <<frames, memo>>
  PROVE  SizedInv'
<1>1. PICK W : /\ Closed(W) /\ Within(W, frames, memo)
               /\ \A k \in 1..Len(globalVars) : globalVars[k].typ \in W
  BY DEF SizedInv
<1>2. Len(<<>>) = 0 /\ 1..Len(<<>>) = {}
  OBVIOUS
<1>3. Within(W, <<>>, memo')
  BY <1>2 DEF Within, PartsIn
<1>4. Within(W, frames', memo')
  BY <1>1, <1>3
<1> QED
  BY <1>1, <1>4, SizedBy

LEMMA SizedStep == IInv /\ OwnersInv /\ ReadInv /\ SizedInv /\ [ReadNext]_vars => SizedInv'
<1> SUFFICES ASSUME IInv, OwnersInv, ReadInv, SizedInv, [ReadNext]_vars PROVE SizedInv'
  OBVIOUS
<1>1. CASE ReadTree \/ StartTypes \/ SkipOwner \/ FinishFunction \/ UNCHANGED vars
  <2>1. UNCHANGED globalVars /\ (frames' = <<>> \/ UNCHANGED <<frames, memo>>)
    BY <1>1 DEF ReadTree, StartTypes, SkipOwner, FinishFunction, vars, typeVars
  <2> QED
    BY <2>1, SizedSame
<1>2. CASE StartOwner
  <2>1. PICK W : /\ Closed(W) /\ Within(W, frames, memo)
                 /\ \A k \in 1..Len(globalVars) : globalVars[k].typ \in W
    BY DEF SizedInv
  <2>2. PICK f, stk : f = [die |-> Owner, parts |-> <<>>] /\ stk = <<f>>
    OBVIOUS
  <2>3. f.parts = <<>> /\ Len(stk) = 1 /\ stk[1] = f /\ 1..Len(<<>>) = {}
    BY <2>2
  <2>4. \A m \in 1..Len(stk) : m = 1
    BY <2>3
  <2>5. Within(W, stk, memo')
    BY <2>3, <2>4 DEF Within, PartsIn
  <2>6. frames' = stk /\ globalVars' = globalVars
    BY <1>2, <2>2 DEF StartOwner
  <2> QED
    BY <2>1, <2>5, <2>6, SizedBy
<1>3. CASE Recall
  BY <1>3, SizedRecall
<1>4. CASE Enter
  BY <1>4, SizedEnter
<1>5. CASE Fail
  <2>1. PICK W : /\ Closed(W) /\ Within(W, frames, memo)
                 /\ \A k \in 1..Len(globalVars) : globalVars[k].typ \in W
    BY DEF SizedInv
  <2>2. /\ ReadingTypes /\ Len(frames) > 1 /\ frames' = Deliver(Rest, Err)
        /\ memo' = memo /\ globalVars' = globalVars
    BY <1>5 DEF Fail
  <2>3. PICK err : err = Err
    OBVIOUS
  <2>4. err \in W \cup {Err} /\ frames' = Deliver(Rest, err)
    BY <2>2, <2>3
  <2> QED
    BY <2>1, <2>2, <2>4, SizedReturn
<1>6. CASE FinishType
  <2>1. PICK W : /\ Closed(W) /\ Within(W, frames, memo)
                 /\ \A k \in 1..Len(globalVars) : globalVars[k].typ \in W
    BY DEF SizedInv
  <2>2. PICK typ : /\ typ = TypeDefn(Top.die, Top.parts)
                   /\ memo' = Insert(memo, Top.die, typ) /\ frames' = Deliver(Rest, typ)
    BY <1>6 DEF FinishType, MemoWith
  <2>3. ReadingTypes /\ Len(frames) > 1 /\ ~ Failed /\ ~ Asks /\ globalVars' = globalVars
    BY <1>6 DEF FinishType
  <2>4. /\ UnitFacts /\ Links(frames) /\ Faithful(frames) /\ Top = Last(frames)
        /\ Len(frames) \in 1..Len(frames)
    <3>1. UnitFacts /\ frames # <<>> /\ Good(frames, memo) /\ Top = Last(frames)
      BY <2>3, RestIs
    <3> QED
      BY <3>1, FramesAre DEF Good
  <2>5. \A k \in 1..Len(Top.parts) : Top.parts[k] \in W \cup {Err}
    BY <2>1, <2>4 DEF Within, PartsIn, Last
  <2>6. \/ typ \in W
        \/ WellSized(typ) /\ \A p \in Parts(typ) : p.typ \in W
    BY <2>1, <2>2, <2>3, <2>4, <2>5, FinishedSized
  <2>7. PICK V : V = W \cup {typ}
    OBVIOUS
  <2>8. Closed(V)
    <3>1. CASE typ \in W
      <4>1. V = W
        BY <2>7, <3>1
      <4> QED
        BY <2>1, <4>1
    <3>2. CASE WellSized(typ) /\ \A p \in Parts(typ) : p.typ \in W
      BY <2>1, <2>7, <3>2, ClosedWith
    <3> QED
      BY <2>6, <3>1, <3>2
  <2>9. \A j \in DOMAIN memo' : (j \in DOMAIN memo /\ memo'[j] = memo[j]) \/ memo'[j] \in V
    BY <2>2, <2>7 DEF Insert
  <2>10. W \subseteq V /\ typ \in V \cup {Err}
    BY <2>7
  <2> QED
    BY <2>1, <2>2, <2>3, <2>8, <2>9, <2>10, SizedReturn
<1>7. CASE FinishVariable
  BY <1>7, SizedVariable
<1> QED
  BY <1>1, <1>2, <1>3, <1>4, <1>5, <1>6, <1>7 DEF ReadNext, TypesNext

LEMMA SizedInit == Init => SizedInv
<1> SUFFICES ASSUME Init PROVE SizedInv
  OBVIOUS
<1>1. frames = <<>> /\ globalVars = <<>> /\ <<>> \in Seq({}) /\ Len(<<>>) = 0 /\ 1..Len(<<>>) = {}
  BY DEF Init, TypesInit
<1>2. Closed({}) /\ Within({}, frames, memo)
  BY <1>1 DEF Closed, Within, PartsIn
<1> QED
  BY <1>1, <1>2 DEF SizedInv

LEMMA SizedIsInvariant == Spec => [](IInv /\ OwnersInv /\ SizedInv)
<1>1. HeaderInit => Init
  BY DEF HeaderInit
<1>2. [Next]_headerVars => [ReadNext]_vars
  BY DEF Next, headerVars, PrintModel, Stopped
<1>3. Spec => ReadSpec
  BY <1>1, <1>2, PTL DEF Spec, ReadSpec
<1> QED
  BY <1>1, <1>2, <1>3, ReadIsInvariant, SizedInit, SizedStep, PTL DEF Spec

(* A part of a part, on a walk that goes through it.                       *)
LEMMA LevelNext ==
  ASSUME NEW typ, NEW through, NEW n \in Nat
  PROVE  /\ Level(typ, through)[0] = {Part("whole", typ)}
         /\ \A q \in Level(typ, through)[n] : \A part \in Parts(q.typ) :
              part.as \in through => part \in Level(typ, through)[n + 1]
         /\ \A part \in Level(typ, through)[n + 1] :
              part.as \in through /\ \E q \in Level(typ, through)[n] : part \in Parts(q.typ)
<1>1. PICK level : level = Level(typ, through)
  OBVIOUS
<1>2. level[0] = {Part("whole", typ)} /\ level[n + 1] = LevelStep(through, level[n])
  BY <1>1, LevelAt
<1>3. LevelStep(through, level[n]) =
        {part \in UNION {Parts(p.typ) : p \in level[n]} : part.as \in through}
  BY DEF LevelStep
<1>4. \A q \in level[n] : \A part \in Parts(q.typ) :
         part.as \in through => part \in level[n + 1]
  BY <1>2, <1>3
<1>5. \A part \in level[n + 1] :
         part.as \in through /\ \E q \in level[n] : part \in Parts(q.typ)
  BY <1>2, <1>3
<1> QED
  BY <1>1, <1>2, <1>4, <1>5

(* What holds at the top of a walk, and of the parts of what it holds of.  *)
LEMMA WalkWider ==
  ASSUME NEW typ, NEW through, NEW wider, through \subseteq wider
  PROVE  \A n \in Nat : Level(typ, through)[n] \subseteq Level(typ, wider)[n]
<1> DEFINE T == {n \in Nat : ~ (Level(typ, through)[n] \subseteq Level(typ, wider)[n])}
<1>1. CASE T = {}
  BY <1>1
<1>2. CASE T # {}
  <2>1. T \in SUBSET Nat
    OBVIOUS
  <2>2. PICK n \in T : \A m \in T : n <= m
    BY <1>2, <2>1, LeastOfNumbers
  <2>3. n \in Nat /\ ~ (Level(typ, through)[n] \subseteq Level(typ, wider)[n])
    OBVIOUS
  <2>4. n # 0
    <3>1. PICK z \in Nat : z = 0
      OBVIOUS
    <3>2. Level(typ, through)[0] = Level(typ, wider)[0]
      BY <3>1, LevelNext
    <3> QED
      BY <2>3, <3>2
  <2>5. PICK m \in Nat : n = m + 1
    <3>1. n - 1 \in Nat /\ n = (n - 1) + 1
      BY <2>3, <2>4
    <3> QED
      BY <3>1
  <2>6. m \notin T
    BY <2>2, <2>5
  <2>7. Level(typ, through)[m] \subseteq Level(typ, wider)[m]
    BY <2>6
  <2> HIDE DEF T
  <2>8. Level(typ, through)[m + 1] \subseteq Level(typ, wider)[m + 1]
    <3> SUFFICES ASSUME NEW part \in Level(typ, through)[m + 1]
                 PROVE  part \in Level(typ, wider)[m + 1]
      OBVIOUS
    <3>1. part.as \in through
      BY LevelNext
    <3>2. PICK q \in Level(typ, through)[m] : part \in Parts(q.typ)
      BY LevelNext
    <3>3. q \in Level(typ, wider)[m] /\ part.as \in wider
      BY <2>7, <3>1, <3>2
    <3> QED
      BY <3>2, <3>3, LevelNext
  <2> QED
    BY <2>3, <2>5, <2>8
<1> QED
  BY <1>1, <1>2

LEMMA WalkIsClosed ==
  ASSUME NEW W, Closed(W), NEW typ \in W, NEW through
  PROVE  \A n \in Nat : \A p \in Level(typ, through)[n] : p.typ \in W
<1> DEFINE T == {n \in Nat : \E p \in Level(typ, through)[n] : p.typ \notin W}
<1>1. CASE T = {}
  BY <1>1
<1>2. CASE T # {}
  <2>1. T \in SUBSET Nat
    OBVIOUS
  <2>2. PICK n \in T : \A m \in T : n <= m
    BY <1>2, <2>1, LeastOfNumbers
  <2>3. n \in Nat /\ \E p \in Level(typ, through)[n] : p.typ \notin W
    OBVIOUS
  <2>4. n # 0
    <3>1. PICK z \in Nat : z = 0
      OBVIOUS
    <3>2. Level(typ, through)[0] = {Part("whole", typ)}
      BY <3>1, LevelNext
    <3>3. Part("whole", typ).typ = typ
      BY DEF Part
    <3>4. \A p \in Level(typ, through)[0] : p.typ = typ
      BY <3>2, <3>3
    <3> QED
      BY <2>3, <3>4
  <2>5. PICK m \in Nat : n = m + 1
    <3>1. n - 1 \in Nat /\ n = (n - 1) + 1
      BY <2>3, <2>4
    <3> QED
      BY <3>1
  <2>6. m \notin T
    BY <2>2, <2>5
  <2>7. \A q \in Level(typ, through)[m] : q.typ \in W
    BY <2>6
  <2> HIDE DEF T
  <2>8. ASSUME NEW p \in Level(typ, through)[m + 1] PROVE p.typ \in W
    <3>1. PICK q \in Level(typ, through)[m] : p \in Parts(q.typ)
      BY LevelNext
    <3> QED
      BY <2>7, <3>1 DEF Closed
  <2> QED
    BY <2>3, <2>5, <2>8
<1> QED
  BY <1>1, <1>2

LEMMA DepthsAreNumbers == Depths \subseteq Nat
BY DEF Depths

LEMMA InsideWider ==
  ASSUME NEW typ, NEW through, NEW wider, through \subseteq wider
  PROVE  Inside(typ, through) \subseteq Inside(typ, wider)
<1> SUFFICES ASSUME NEW p \in Inside(typ, through) PROVE p \in Inside(typ, wider)
  OBVIOUS
<1>1. PICK n \in Depths : p \in Level(typ, through)[n]
  BY InsideIs
<1>2. n \in Nat
  BY DepthsAreNumbers
<1>3. p \in Level(typ, wider)[n]
  BY <1>1, <1>2, WalkWider
<1> QED
  BY <1>3, InsideIs

LEMMA FieldsDefined ==
  ASSUME NEW typ
  PROVE  FieldUses(typ) \subseteq FieldMacros(typ)
<1>1. {"out", "field"} \subseteq {"in", "out", "field"}
  OBVIOUS
<1>2. Specified(typ) \subseteq Inside(typ, {"in", "out", "field"})
  BY <1>1, InsideWider DEF Specified
<1>3. PICK few, all : few = Specified(typ) /\ all = Inside(typ, {"in", "out", "field"})
  OBVIOUS
<1>4. FieldsOf(few) \subseteq FieldsOf(all)
  BY <1>2, <1>3 DEF FieldsOf
<1> QED
  BY <1>3, <1>4 DEF FieldUses, FieldMacros

(* The type of the elements of an array is looked for behind a pointer too,*)
(* but the pointer itself is not: its width is that of the indices.        *)
LEMMA IndicesDefined ==
  ASSUME NEW W, Closed(W), NEW typ \in W
  PROVE  IndexUses(typ) \subseteq IndexMacros(typ)
<1> DEFINE said  == {"out", "field"}
           every == {"in", "out", "field", "value"}
<1>1. SUFFICES ASSUME NEW p \in Specified(typ), p.as = "out", p.typ.kind # "array"
               PROVE  NonZero(p.typ.bytes) \subseteq IndexMacros(typ)
  <2>1. PICK those : those = {q \in Specified(typ) : q.as = "out" /\ q.typ.kind # "array"}
    OBVIOUS
  <2>2. IndexUses(typ) = UNION {NonZero(q.typ.bytes) : q \in those}
    BY <2>1 DEF IndexUses
  <2>3. \A q \in those : NonZero(q.typ.bytes) \subseteq IndexMacros(typ)
    BY <1>1, <2>1
  <2> QED
    BY <2>2, <2>3
<1>2. said \subseteq every
  OBVIOUS
<1>3. PICK n \in Depths : p \in Level(typ, said)[n]
  BY <1>1, InsideIs DEF Specified
<1>4. n \in Nat
  BY DepthsAreNumbers
<1>5. p \in Level(typ, every)[n] /\ p.typ \in W
  BY <1>2, <1>3, <1>4, WalkWider, WalkIsClosed
<1>6. WellSized(p.typ)
  BY <1>5 DEF Closed
<1>7. ASSUME NEW q, q \in Inside(typ, every), q.typ.kind \in {"primitive", "struct"}
      PROVE  NonZero(q.typ.bytes) \subseteq IndexMacros(typ)
  <2>1. PICK sized : sized = {r \in Inside(typ, every) : r.typ.kind \in {"primitive", "struct"}}
    OBVIOUS
  <2>2. IndexMacros(typ) = UNION {NonZero(r.typ.bytes) : r \in sized}
    BY <2>1 DEF IndexMacros
  <2>3. q \in sized
    BY <1>7, <2>1
  <2> QED
    BY <2>2, <2>3
<1>8. CASE p.typ.kind \in {"primitive", "struct"}
  <2>1. p \in Inside(typ, every)
    BY <1>3, <1>5, InsideIs
  <2> QED
    BY <1>7, <1>8, <2>1
<1>9. CASE p.typ.kind = "pointer"
  <2>1. p.typ.bytes = Xlen
    BY <1>6, <1>9 DEF WellSized
  <2>2. n # 0
    <3>1. PICK z \in Nat : z = 0
      OBVIOUS
    <3>2. Level(typ, said)[0] = {Part("whole", typ)}
      BY <3>1, LevelNext
    <3>3. Part("whole", typ).as = "whole"
      BY DEF Part
    <3> QED
      BY <1>1, <1>3, <3>2, <3>3
  <2>3. PICK m \in Nat : n = m + 1
    <3>1. n - 1 \in Nat /\ n = (n - 1) + 1
      BY <1>4, <2>2
    <3> QED
      BY <3>1
  <2>4. PICK q \in Level(typ, said)[m] : p \in Parts(q.typ)
    BY <1>3, <2>3, LevelNext
  <2>5. q \in Level(typ, every)[m] /\ q.typ \in W
    BY <1>2, WalkWider, WalkIsClosed
  <2>6. WellSized(q.typ)
    BY <2>5 DEF Closed
  <2>7. q.typ.kind = "array"
    <3>1. CASE q.typ.kind = "primitive"
      BY <2>4, <3>1 DEF Parts
    <3>2. CASE q.typ.kind = "struct"
      <4>1. Parts(q.typ) = {Part("field", q.typ.fields[name].typ) : name \in DOMAIN q.typ.fields}
        BY <3>2 DEF Parts
      <4>2. p.as = "field"
        BY <2>4, <4>1 DEF Part
      <4> QED
        BY <1>1, <4>2
    <3>3. CASE q.typ.kind = "pointer"
      <4>1. Parts(q.typ) = {Part("value", q.typ.value)}
        BY <3>3 DEF Parts
      <4>2. p.as = "value"
        BY <2>4, <4>1 DEF Part
      <4> QED
        BY <1>1, <4>2
    <3> QED
      BY <2>6, <3>1, <3>2, <3>3 DEF WellSized
  <2>8. q.typ.in = Primitive(Xlen)
    BY <2>6, <2>7 DEF WellSized
  <2>9. PICK index : index = Part("in", Primitive(Xlen))
    OBVIOUS
  <2>10. index.as = "in" /\ index.typ.kind = "primitive" /\ index.typ.bytes = Xlen
    BY <2>9 DEF Part, Primitive
  <2>11. Parts(q.typ) = {Part("in", q.typ.in), Part("out", q.typ.out)}
    BY <2>7 DEF Parts
  <2>12. index \in Parts(q.typ)
    BY <2>8, <2>9, <2>11
  <2>13. index.as \in every
    BY <2>10
  <2> HIDE DEF every
  <2>14. index \in Level(typ, every)[m + 1]
    BY <2>5, <2>12, <2>13, LevelNext
  <2>15. index \in Inside(typ, every)
    BY <2>3, <2>14, InsideIs
  <2> QED
    BY <1>7, <2>1, <2>10, <2>15
<1> QED
  BY <1>1, <1>6, <1>8, <1>9 DEF WellSized

(***************************************************************************)
(* For every program: when the model is printed, every index_by_n and every*)
(* id_field that a specification can use on a global variable is among the *)
(* macros printed with it, however its arrays, structures and pointers are *)
(* nested.                                                                 *)
(***************************************************************************)
THEOREM MacrosDefined == Spec => []MacrosAreDefined
<1>1. HeaderInit => HeaderInv
  BY DEF HeaderInit, HeaderInv
<1>2. SizedInv /\ HeaderInv => MacrosAreDefined
  <2> SUFFICES ASSUME SizedInv, HeaderInv, header.printed, NEW k \in 1..Len(globalVars)
               PROVE  /\ IndexUses(globalVars[k].typ) \subseteq UNION {IndexMacros(t) : t \in header.types}
                      /\ FieldUses(globalVars[k].typ) \subseteq UNION {FieldMacros(t) : t \in header.types}
    BY DEF MacrosAreDefined
  <2>1. header # NotPrinted
    BY DEF NotPrinted
  <2>2. header.types = ContextTypes
    BY <2>1 DEF HeaderInv
  <2>3. PICK typ : typ = globalVars[k].typ
    OBVIOUS
  <2>4. typ \in header.types
    BY <2>2, <2>3 DEF ContextTypes
  <2>5. PICK W : Closed(W) /\ \A j \in 1..Len(globalVars) : globalVars[j].typ \in W
    BY DEF SizedInv
  <2>6. IndexUses(typ) \subseteq IndexMacros(typ)
    BY <2>3, <2>5, IndicesDefined
  <2>7. FieldUses(typ) \subseteq FieldMacros(typ)
    BY FieldsDefined
  <2>8. PICK index, field : /\ index = UNION {IndexMacros(t) : t \in header.types}
                            /\ field = UNION {FieldMacros(t) : t \in header.types}
    OBVIOUS
  <2>9. IndexMacros(typ) \subseteq index /\ FieldMacros(typ) \subseteq field
    BY <2>4, <2>8
  <2> QED
    BY <2>3, <2>6, <2>7, <2>8, <2>9
<1> QED
  BY <1>1, <1>2, SizedIsInvariant, HeaderStep, PTL DEF Spec
=============================================================================
