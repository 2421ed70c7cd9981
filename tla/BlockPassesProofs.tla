------------------------- MODULE BlockPassesProofs --------------------------
(***************************************************************************)
(* Whatever a block does, the map of the constants is the state that the   *)
(* emitted statements are in; and a block that is folded exactly and       *)
(* accesses no location in two ways does what it did before the passes.    *)
(*                                                                         *)
(* An expression is a sequence of nodes, so what holds of every node holds *)
(* of the expression: a node at which it fails first would have operands   *)
(* at which it holds.                                                      *)
(***************************************************************************)
EXTENDS BlockPasses, BitVectorProofs

-----------------------------------------------------------------------------
(* The recursive functions.  Operands come before their operator.          *)
Kinds == {"lit", "var", "index", "app"}

Shaped(e) ==
  /\ Len(e) \in Nat
  /\ \A i \in 1..Len(e) :
       /\ e[i].kind \in Kinds
       /\ e[i].kind = "index" => i > 1
       /\ e[i].kind = "app" => e[i].left \in 1..i - 1

NodeValue(e, state, abstract, f, i) ==
  CASE e[i].kind = "lit"   -> [val |-> e[i].val % 2^e[i].w, w |-> e[i].w]
    [] e[i].kind = "var"   -> [val |-> state.regs[e[i].name], w |-> XLen]
    [] e[i].kind = "index" ->
         [val |-> Loaded(state, abstract /\ IsLit(e[i - 1]), e[i].mem, f[i - 1].val),
          w   |-> Width(e[i].mem)]
    [] OTHER               -> Apply(e[i], f[i - e[i].left], f[i - 1])

NodeFolded(e, f, i) ==
  IF e[i].kind = "app" /\ IsLit(f[i - e[i].left]) /\ IsLit(f[i - 1])
    THEN FoldedLit(e[i], f[i - e[i].left], f[i - 1]) ELSE e[i]

AreValues(e, state, abstract, n, f) == f = [i \in 1..n |-> NodeValue(e, state, abstract, f, i)]
AreFolded(e, n, f) == f = [i \in 1..n |-> NodeFolded(e, f, i)]

LEMMA ValuesAreChosen ==
  ASSUME NEW e, NEW state, NEW abstract
  PROVE  Values(e, state, abstract) = CHOOSE f : AreValues(e, state, abstract, Len(e), f)
BY DEF Values, AreValues, NodeValue

LEMMA FoldedAreChosen ==
  ASSUME NEW e
  PROVE  Folded(e) = CHOOSE f : AreFolded(e, Len(e), f)
BY DEF Folded, AreFolded, NodeFolded

(* A node depends on those before it only.                                 *)
LEMMA NodesAgree ==
  ASSUME NEW e, Shaped(e), NEW state, NEW abstract, NEW i \in 1..Len(e), NEW f, NEW g,
         \A j \in 1..i - 1 : f[j] = g[j]
  PROVE  /\ NodeValue(e, state, abstract, f, i) = NodeValue(e, state, abstract, g, i)
         /\ NodeFolded(e, f, i) = NodeFolded(e, g, i)
<1>1. Len(e) \in Nat /\ e[i].kind \in Kinds
  BY DEF Shaped
<1>2. CASE e[i].kind = "app"
  <2>1. e[i].left \in 1..i - 1
    BY <1>2 DEF Shaped
  <2>2. i - 1 \in 1..i - 1 /\ i - e[i].left \in 1..i - 1
    BY <1>1, <2>1
  <2>3. f[i - 1] = g[i - 1] /\ f[i - e[i].left] = g[i - e[i].left]
    BY <2>2
  <2> QED
    BY <1>2, <2>3, Zenon DEF NodeValue, NodeFolded
<1>3. CASE e[i].kind = "index"
  <2>1. i > 1
    BY <1>3 DEF Shaped
  <2>2. i - 1 \in 1..i - 1
    BY <1>1, <2>1
  <2>3. f[i - 1] = g[i - 1]
    BY <2>2
  <2> QED
    BY <1>3, <2>3 DEF NodeValue, NodeFolded
<1>4. CASE e[i].kind \in {"lit", "var"}
  BY <1>4 DEF NodeValue, NodeFolded
<1> QED
  BY <1>1, <1>2, <1>3, <1>4 DEF Kinds

LEMMA ValuesExist ==
  ASSUME NEW e, Shaped(e), NEW state, NEW abstract
  PROVE  AreValues(e, state, abstract, Len(e), Values(e, state, abstract))
<1> DEFINE Exists(n) == \E f : AreValues(e, state, abstract, n, f)
           Missing == {n \in 0..Len(e) : ~ Exists(n)}
<1>1. Len(e) \in Nat
  BY DEF Shaped
<1>2. CASE Missing = {}
  <2>1. Exists(Len(e))
    BY <1>1, <1>2
  <2> QED
    BY <2>1, ValuesAreChosen, Zenon
<1>3. CASE Missing # {}
  <2>1. PICK n \in Missing : \A m \in Missing : n <= m
    <3>1. Missing \in SUBSET Nat
      BY <1>1
    <3> HIDE DEF Missing
    <3> QED
      BY <1>3, <3>1, LeastNumber
  <2>2. n \in 0..Len(e) /\ ~ Exists(n)
    OBVIOUS
  <2>3. CASE n = 0
    <3> DEFINE f == [i \in 1..0 |-> 0]
    <3>1. f = [i \in 1..0 |-> NodeValue(e, state, abstract, f, i)]
      OBVIOUS
    <3>2. AreValues(e, state, abstract, n, f)
      BY <2>3, <3>1 DEF AreValues
    <3> QED
      BY <2>2, <3>2
  <2>4. CASE n # 0
    <3>1. n - 1 \in 0..Len(e) /\ ~ (n <= n - 1)
      BY <1>1, <2>2, <2>4
    <3> HIDE DEF Missing
    <3>2. n - 1 \notin Missing
      BY <2>1, <3>1
    <3> USE DEF Missing
    <3>3. PICK g : AreValues(e, state, abstract, n - 1, g)
      BY <3>1, <3>2
    <3> DEFINE f == [i \in 1..n |-> IF i = n THEN NodeValue(e, state, abstract, g, n) ELSE g[i]]
    <3>4. \A i \in 1..n - 1 : g[i] = NodeValue(e, state, abstract, g, i)
      BY <3>3, Zenon DEF AreValues
    <3>5. \A i \in 1..n - 1 : i \in 1..n /\ i # n /\ i \in 1..Len(e)
      BY <1>1, <2>2
    <3>6. \A i \in 1..n - 1 : f[i] = g[i]
      BY <3>5
    <3>7. n \in 1..n /\ n \in 1..Len(e) /\ f[n] = NodeValue(e, state, abstract, g, n)
      BY <1>1, <2>2, <2>4
    <3>8. f = [i \in 1..n |-> f[i]]
      OBVIOUS
    <3> HIDE DEF f, Exists
    <3>9. ASSUME NEW i \in 1..n PROVE f[i] = NodeValue(e, state, abstract, f, i)
      <4>1. i \in 1..Len(e) /\ \A j \in 1..i - 1 : j \in 1..n - 1
        BY <1>1, <2>2
      <4>2. \A j \in 1..i - 1 : g[j] = f[j]
        BY <3>6, <4>1
      <4>3. NodeValue(e, state, abstract, g, i) = NodeValue(e, state, abstract, f, i)
        BY <4>1, <4>2, NodesAgree
      <4>4. f[i] = NodeValue(e, state, abstract, g, i)
        <5>1. CASE i = n
          BY <3>7, <5>1
        <5>2. CASE i # n
          <6>1. i \in 1..n - 1
            BY <1>1, <2>2, <5>2
          <6> QED
            BY <3>4, <3>6, <6>1
        <5> QED
          BY <5>1, <5>2
      <4> QED
        BY <4>3, <4>4
    <3>10. AreValues(e, state, abstract, n, f)
      BY <3>8, <3>9, Zenon DEF AreValues
    <3> QED
      BY <2>2, <3>10 DEF Exists
  <2> QED
    BY <2>3, <2>4
<1> QED
  BY <1>2, <1>3

LEMMA FoldedExist ==
  ASSUME NEW e, Shaped(e)
  PROVE  AreFolded(e, Len(e), Folded(e))
<1> DEFINE Exists(n) == \E f : AreFolded(e, n, f)
           Missing == {n \in 0..Len(e) : ~ Exists(n)}
<1>1. Len(e) \in Nat
  BY DEF Shaped
<1>2. CASE Missing = {}
  <2>1. Exists(Len(e))
    BY <1>1, <1>2
  <2> QED
    BY <2>1, FoldedAreChosen, Zenon
<1>3. CASE Missing # {}
  <2>1. PICK n \in Missing : \A m \in Missing : n <= m
    <3>1. Missing \in SUBSET Nat
      BY <1>1
    <3> HIDE DEF Missing
    <3> QED
      BY <1>3, <3>1, LeastNumber
  <2>2. n \in 0..Len(e) /\ ~ Exists(n)
    OBVIOUS
  <2>3. CASE n = 0
    <3> DEFINE f == [i \in 1..0 |-> 0]
    <3>1. f = [i \in 1..0 |-> NodeFolded(e, f, i)]
      OBVIOUS
    <3>2. AreFolded(e, n, f)
      BY <2>3, <3>1 DEF AreFolded
    <3> QED
      BY <2>2, <3>2
  <2>4. CASE n # 0
    <3>1. n - 1 \in 0..Len(e) /\ ~ (n <= n - 1)
      BY <1>1, <2>2, <2>4
    <3> HIDE DEF Missing
    <3>2. n - 1 \notin Missing
      BY <2>1, <3>1
    <3> USE DEF Missing
    <3>3. PICK g : AreFolded(e, n - 1, g)
      BY <3>1, <3>2
    <3> DEFINE f == [i \in 1..n |-> IF i = n THEN NodeFolded(e, g, n) ELSE g[i]]
    <3>4. \A i \in 1..n - 1 : g[i] = NodeFolded(e, g, i)
      BY <3>3, Zenon DEF AreFolded
    <3>5. \A i \in 1..n - 1 : i \in 1..n /\ i # n /\ i \in 1..Len(e)
      BY <1>1, <2>2
    <3>6. \A i \in 1..n - 1 : f[i] = g[i]
      BY <3>5
    <3>7. n \in 1..n /\ n \in 1..Len(e) /\ f[n] = NodeFolded(e, g, n)
      BY <1>1, <2>2, <2>4
    <3>8. f = [i \in 1..n |-> f[i]]
      OBVIOUS
    <3> HIDE DEF f, Exists
    <3>9. ASSUME NEW i \in 1..n PROVE f[i] = NodeFolded(e, f, i)
      <4>1. i \in 1..Len(e) /\ \A j \in 1..i - 1 : j \in 1..n - 1
        BY <1>1, <2>2
      <4>2. \A j \in 1..i - 1 : g[j] = f[j]
        BY <3>6, <4>1
      <4>3. NodeFolded(e, g, i) = NodeFolded(e, f, i)
        BY <4>1, <4>2, NodesAgree
      <4>4. f[i] = NodeFolded(e, g, i)
        <5>1. CASE i = n
          BY <3>7, <5>1
        <5>2. CASE i # n
          <6>1. i \in 1..n - 1
            BY <1>1, <2>2, <5>2
          <6> QED
            BY <3>4, <3>6, <6>1
        <5> QED
          BY <5>1, <5>2
      <4> QED
        BY <4>3, <4>4
    <3>10. AreFolded(e, n, f)
      BY <3>8, <3>9, Zenon DEF AreFolded
    <3> QED
      BY <2>2, <3>10 DEF Exists
  <2> QED
    BY <2>3, <2>4
<1> QED
  BY <1>2, <1>3

LEMMA ValueOfNode ==
  ASSUME NEW e, Shaped(e), NEW state, NEW abstract, NEW i \in 1..Len(e)
  PROVE  Values(e, state, abstract)[i] = NodeValue(e, state, abstract, Values(e, state, abstract), i)
<1> DEFINE f == Values(e, state, abstract)
<1>1. AreValues(e, state, abstract, Len(e), f)
  BY ValuesExist
<1> HIDE DEF f
<1> QED
  BY <1>1, Zenon DEF AreValues, f

LEMMA FoldedNode ==
  ASSUME NEW e, Shaped(e)
  PROVE  /\ \E S : Folded(e) \in Seq(S)
         /\ Len(Folded(e)) = Len(e)
         /\ \A i \in 1..Len(e) : Folded(e)[i] = NodeFolded(e, Folded(e), i)
<1> DEFINE f == Folded(e)
           n == Len(e)
           S == {f[i] : i \in 1..n}
<1>1. AreFolded(e, n, f) /\ n \in Nat
  BY FoldedExist DEF Shaped
<1> HIDE DEF f, n
<1>2. f = [i \in 1..n |-> NodeFolded(e, f, i)]
  BY <1>1 DEF AreFolded
<1>3. \A i \in 1..n : f[i] = NodeFolded(e, f, i)
  BY <1>2, Zenon
<1>4. DOMAIN f = 1..n /\ f = [i \in 1..n |-> f[i]]
  BY <1>2, <1>3, Zenon
<1>5. f \in Seq(S) /\ Len(f) = n
  BY <1>1, <1>4
<1> QED
  BY <1>3, <1>5 DEF f, n

-----------------------------------------------------------------------------
(* The widths of the nodes.                                                *)
Memories == {"mem_w", "mem_d"}

NodeOk(e, ws, i) ==
  LET n == e[i] IN
    /\ n.kind \in Kinds
    /\ n.kind = "lit"   => n.val \in BitVector(XLen) /\ ws[i] = n.w
    /\ n.kind = "var"   => ws[i] = XLen
    /\ n.kind = "index" => i > 1 /\ n.mem \in Memories /\ ws[i] = Width(n.mem)
    /\ n.kind = "app"   =>
         /\ n.left \in 1..i - 1
         /\ \/ n.op \in {"add", "and", "shl", "lshr", "ashr"} /\ ws[i] = ws[i - n.left]
            \/ /\ n.op \in {"sext", "zext"}
               /\ e[i - 1].kind = "lit" /\ ws[i] = ws[i - n.left] + e[i - 1].val
               /\ e[i - 1].val \in BitVector(e[i - 1].w)
            \/ n.op = "slice" /\ ws[i] = (n.l - n.r) + 1
            \/ n.op = "concat"

(* The nodes that the folder evaluates exactly.                            *)
NodeExact(e, ws, i) ==
  LET n == e[i] IN
    n.kind = "app" =>
      \/ n.op \in {"add", "and", "shl"} /\ ws[i - n.left] = XLen /\ ws[i - 1] = XLen
      \/ n.op = "sext" /\ e[i - n.left].kind = "index"
      \/ n.op = "slice" /\ n.left = 1 /\ n.l = Word - 1 /\ n.r = 0 /\ ws[i - 1] = XLen

TypedBy(e, ws, exact) ==
  /\ \E S : e \in Seq(S)
  /\ Len(e) > 0
  /\ ws \in [1..Len(e) -> Nat]
  /\ \A i \in 1..Len(e) : NodeOk(e, ws, i) /\ (exact => NodeExact(e, ws, i))

Expression(e, w, exact) == \E ws : TypedBy(e, ws, exact) /\ ws[Len(e)] = w

(* A node whose operands are the same nodes, at another place.             *)
LEMMA NodeMoves ==
  ASSUME NEW e, NEW ws, NEW z, NEW zs, NEW i \in Nat \ {0}, NEW k \in Nat,
         \A j \in 1..i : z[k + j] = e[j] /\ zs[k + j] = ws[j],
         NodeOk(e, ws, i)
  PROVE  NodeOk(z, zs, k + i) /\ (NodeExact(e, ws, i) => NodeExact(z, zs, k + i))
<1>1. z[k + i] = e[i] /\ zs[k + i] = ws[i]
  OBVIOUS
<1>2. i > 1 => /\ z[k + i - 1] = e[i - 1] /\ zs[k + i - 1] = ws[i - 1]
  <2>1. i > 1 => i - 1 \in 1..i /\ k + (i - 1) = k + i - 1
    OBVIOUS
  <2> QED
    BY <2>1
<1>3. ASSUME NEW d \in 1..i - 1
      PROVE  /\ z[k + i - d] = e[i - d] /\ zs[k + i - d] = ws[i - d] /\ i > 1
             /\ d \in 1..k + i - 1
  <2>1. i - d \in 1..i /\ k + (i - d) = k + i - d
    OBVIOUS
  <2> QED
    BY <2>1
<1>4. e[i].kind = "app" => e[i].left \in 1..i - 1
  BY DEF NodeOk
<1>5. e[i].kind = "index" => i > 1
  BY DEF NodeOk
<1>6. NodeOk(z, zs, k + i)
  <2>1. CASE e[i].kind = "app"
    BY <1>1, <1>2, <1>3, <1>4, <2>1 DEF NodeOk
  <2>2. CASE e[i].kind # "app"
    <3>1. i > 1 => k + i > 1
      OBVIOUS
    <3> QED
      BY <1>1, <1>5, <2>2, <3>1 DEF NodeOk
  <2> QED
    BY <2>1, <2>2
<1>7. NodeExact(e, ws, i) => NodeExact(z, zs, k + i)
  <2>1. CASE e[i].kind = "app"
    BY <1>1, <1>2, <1>3, <1>4, <2>1 DEF NodeExact
  <2>2. CASE e[i].kind # "app"
    BY <1>1, <2>2 DEF NodeExact
  <2> QED
    BY <2>1, <2>2
<1> QED
  BY <1>6, <1>7

LEMMA TypedIntro ==
  ASSUME NEW e, NEW ws, NEW exact, NEW n \in Nat \ {0}, Len(e) = n, \E S : e \in Seq(S),
         ws \in [1..n -> Nat],
         \A i \in 1..n : NodeOk(e, ws, i) /\ (exact => NodeExact(e, ws, i))
  PROVE  TypedBy(e, ws, exact)
<1>1. Len(e) > 0
  OBVIOUS
<1> QED
  BY <1>1, Zenon DEF TypedBy

(* An operator over two expressions, and over one.                         *)
LEMMA TypedNodes ==
  ASSUME NEW x, NEW wx, NEW exact, TypedBy(x, wx, exact)
  PROVE  /\ Len(x) \in Nat \ {0} /\ Len(x) \in 1..Len(x)
         /\ wx[Len(x)] \in Nat
BY DEF TypedBy

Widths2(wx, m, wy, n, w) ==
  [i \in 1..m + n + 1 |-> IF i <= m THEN wx[i] ELSE IF i <= m + n THEN wy[i - m] ELSE w]

AreJoined(x, wx, y, wy, exact, node, w, m, n, i, z, zs) ==
  /\ TypedBy(x, wx, exact) /\ TypedBy(y, wy, exact) /\ w \in Nat
  /\ m = Len(x) /\ n = Len(y) /\ i = m + n + 1
  /\ z = x \o y \o <<node>> /\ zs = Widths2(wx, m, wy, n, w)

LEMMA Joined ==
  ASSUME NEW x, NEW wx, NEW y, NEW wy, NEW exact,
         NEW node, NEW w, NEW m, NEW n, NEW at, NEW z, NEW zs,
         AreJoined(x, wx, y, wy, exact, node, w, m, n, at, z, zs),
         NodeOk(z, zs, at), exact => NodeExact(z, zs, at)
  PROVE  Expression(z, w, exact)
<1> USE DEF AreJoined
<1>1. m \in Nat \ {0} /\ n \in Nat \ {0}
  BY TypedNodes
<1>2. /\ \E S : z \in Seq(S)
      /\ Len(z) = m + n + 1
      /\ \A i \in 1..m : z[i] = x[i]
      /\ \A i \in 1..n : z[m + i] = y[i]
  <2>1. PICK S : x \in Seq(S)
    BY DEF TypedBy
  <2>2. PICK T : y \in Seq(T)
    BY DEF TypedBy
  <2> DEFINE X == S \cup T \cup {node}
  <2>3. x \in Seq(X) /\ y \in Seq(X) /\ <<node>> \in Seq(X)
    BY <2>1, <2>2
  <2> HIDE DEF X
  <2>4. /\ x \o y \in Seq(X) /\ Len(x \o y) = m + n
        /\ \A i \in 1..m : (x \o y)[i] = x[i]
        /\ \A i \in 1..n : (x \o y)[m + i] = y[i]
    BY <2>3
  <2> DEFINE xy == x \o y
  <2> HIDE DEF xy
  <2>5. /\ xy \o <<node>> \in Seq(X) /\ Len(xy \o <<node>>) = m + n + 1
        /\ \A i \in 1..m + n : (xy \o <<node>>)[i] = xy[i]
    BY <2>3, <2>4 DEF xy
  <2>6. \A i \in 1..m : i \in 1..m + n
    BY <1>1
  <2>7. \A i \in 1..n : m + i \in 1..m + n
    BY <1>1
  <2> QED
    BY <2>4, <2>5, <2>6, <2>7 DEF xy
<1>3. /\ zs \in [1..m + n + 1 -> Nat] /\ zs[m + n + 1] = w
      /\ \A i \in 1..m : zs[i] = wx[i]
      /\ \A i \in 1..n : zs[m + i] = wy[i]
  <2>1. wx \in [1..m -> Nat] /\ wy \in [1..n -> Nat]
    BY DEF TypedBy
  <2>2. \A i \in 1..m + n + 1 : ~ (i <= m) /\ i <= m + n => i - m \in 1..n
    BY <1>1
  <2>3. zs \in [1..m + n + 1 -> Nat]
    BY <1>1, <2>1, <2>2 DEF Widths2
  <2>4. \A i \in 1..m : zs[i] = wx[i]
    BY <1>1 DEF Widths2
  <2>5. ASSUME NEW i \in 1..n PROVE zs[m + i] = wy[i]
    <3>1. /\ m + i \in 1..m + n + 1 /\ ~ (m + i <= m) /\ m + i <= m + n
          /\ (m + i) - m = i
      BY <1>1
    <3> QED
      BY <3>1 DEF Widths2
  <2>6. zs[m + n + 1] = w
    BY <1>1 DEF Widths2
  <2> QED
    BY <2>3, <2>4, <2>5, <2>6
<1>4. ASSUME NEW i \in 1..m
      PROVE  NodeOk(z, zs, i) /\ (exact => NodeExact(z, zs, i))
  <2>1. i \in Nat \ {0} /\ \A j \in 1..i : j \in 1..m
    BY <1>1
  <2>2. \A j \in 1..i : z[0 + j] = x[j] /\ zs[0 + j] = wx[j]
    BY <1>2, <1>3, <2>1
  <2>3. NodeOk(x, wx, i) /\ (exact => NodeExact(x, wx, i))
    BY DEF TypedBy
  <2>4. NodeOk(z, zs, 0 + i) /\ (exact => NodeExact(z, zs, 0 + i))
    BY <2>1, <2>2, <2>3, NodeMoves
  <2> QED
    BY <2>1, <2>4
<1>5. ASSUME NEW i \in 1..n
      PROVE  NodeOk(z, zs, m + i) /\ (exact => NodeExact(z, zs, m + i))
  <2>1. i \in Nat \ {0} /\ \A j \in 1..i : j \in 1..n
    BY <1>1
  <2>2. \A j \in 1..i : z[m + j] = y[j] /\ zs[m + j] = wy[j]
    BY <1>2, <1>3, <2>1
  <2>3. NodeOk(y, wy, i) /\ (exact => NodeExact(y, wy, i))
    BY DEF TypedBy
  <2> QED
    BY <1>1, <2>1, <2>2, <2>3, NodeMoves
<1>6. ASSUME NEW i \in 1..m + n + 1
      PROVE  NodeOk(z, zs, i) /\ (exact => NodeExact(z, zs, i))
  <2>1. CASE i \in 1..m
    BY <1>4, <2>1
  <2>2. CASE i \notin 1..m /\ i # m + n + 1
    <3>1. i - m \in 1..n /\ m + (i - m) = i
      BY <1>1, <2>2
    <3>2. PICK k \in 1..n : m + k = i
      BY <3>1
    <3> QED
      BY <1>5, <3>2
  <2>3. CASE i = m + n + 1
    BY <2>3
  <2> QED
    BY <2>1, <2>2, <2>3
<1>7. TypedBy(z, zs, exact) /\ zs[Len(z)] = w
  <2>1. m + n + 1 \in Nat \ {0}
    BY <1>1
  <2> QED
    BY <1>2, <1>3, <1>6, <2>1, TypedIntro
<1> QED
  BY <1>7 DEF Expression

(* The last nodes of the operands in the result.                           *)
OperandsAt(i, x, wx, y, wy, node, w, m, n, z, zs) ==
  /\ n + 1 \in 1..i - 1
  /\ z[i] = node /\ zs[i] = w
  /\ z[i - 1] = y[n] /\ zs[i - 1] = wy[n]
  /\ z[i - (n + 1)] = x[m] /\ zs[i - (n + 1)] = wx[m]

LEMMA JoinedOperands ==
  ASSUME NEW x, NEW wx, NEW y, NEW wy, NEW exact,
         NEW node, NEW w, NEW m, NEW n, NEW i, NEW z, NEW zs,
         AreJoined(x, wx, y, wy, exact, node, w, m, n, i, z, zs)
  PROVE  OperandsAt(i, x, wx, y, wy, node, w, m, n, z, zs)
<1> USE DEF AreJoined
<1>1. m \in Nat \ {0} /\ n \in Nat \ {0}
  BY TypedNodes
<1>2. PICK S : x \in Seq(S)
  BY DEF TypedBy
<1>3. PICK T : y \in Seq(T)
  BY DEF TypedBy
<1> DEFINE X == S \cup T \cup {node}
<1>4. x \in Seq(X) /\ y \in Seq(X) /\ <<node>> \in Seq(X)
  BY <1>2, <1>3
<1> HIDE DEF X
<1>5. /\ x \o y \in Seq(X) /\ Len(x \o y) = m + n
      /\ (x \o y)[m] = x[m] /\ (x \o y)[m + n] = y[n]
  BY <1>1, <1>4
<1> DEFINE xy == x \o y
<1> HIDE DEF xy
<1>6. /\ \A j \in 1..m + n : (xy \o <<node>>)[j] = xy[j]
      /\ (xy \o <<node>>)[m + n + 1] = node
  BY <1>4, <1>5 DEF xy
<1>7. m \in 1..m + n /\ m + n \in 1..m + n /\ i - 1 = m + n /\ i - (n + 1) = m
  BY <1>1
<1>8. z[i] = node /\ z[i - 1] = y[n] /\ z[i - (n + 1)] = x[m]
  BY <1>5, <1>6, <1>7 DEF xy
<1>9. zs[i] = w /\ zs[i - 1] = wy[n] /\ zs[i - (n + 1)] = wx[m]
  <2>1. m \in 1..m + n + 1 /\ m + n \in 1..m + n + 1 /\ m + n + 1 \in 1..m + n + 1
    BY <1>1
  <2>2. m <= m /\ ~ (m + n <= m) /\ m + n <= m + n /\ (m + n) - m = n /\ ~ (m + n + 1 <= m + n)
    BY <1>1
  <2>3. zs[m] = wx[m] /\ zs[m + n] = wy[n] /\ zs[m + n + 1] = w
    BY <1>1, <2>1, <2>2 DEF Widths2
  <2> QED
    BY <1>7, <2>3
<1>10. n + 1 \in 1..i - 1
  BY <1>1
<1> QED
  BY <1>8, <1>9, <1>10 DEF OperandsAt

(* What the model builds.                                                  *)
LEMMA OneNodeTyped ==
  ASSUME NEW node, NEW w \in Nat, NEW exact, node.kind \in {"lit", "var"},
         node.kind = "lit" => node.val \in BitVector(XLen) /\ w = node.w,
         node.kind = "var" => w = XLen
  PROVE  Expression(<<node>>, w, exact)
<1> DEFINE ws == [i \in 1..1 |-> w]
<1>1. /\ <<node>> \in Seq({node}) /\ Len(<<node>>) = 1 /\ <<node>>[1] = node
      /\ \A i \in 1..1 : i = 1
  OBVIOUS
<1>2. NodeOk(<<node>>, ws, 1) /\ NodeExact(<<node>>, ws, 1)
  BY <1>1 DEF NodeOk, NodeExact, Kinds
<1>3. ws \in [1..1 -> Nat] /\ ws[1] = w
  OBVIOUS
<1> HIDE DEF ws
<1>4. TypedBy(<<node>>, ws, exact) /\ ws[Len(<<node>>)] = w
  <2>1. \A i \in 1..1 : NodeOk(<<node>>, ws, i) /\ (exact => NodeExact(<<node>>, ws, i))
    BY <1>1, <1>2
  <2>2. \E S : <<node>> \in Seq(S)
    BY <1>1, Zenon
  <2> DEFINE one == 1
  <2>3. /\ one \in Nat \ {0} /\ Len(<<node>>) = one /\ ws \in [1..one -> Nat]
        /\ \A i \in 1..one : NodeOk(<<node>>, ws, i) /\ (exact => NodeExact(<<node>>, ws, i))
    BY <1>1, <1>3, <2>1, <2>2
  <2> HIDE DEF one
  <2>4. TypedBy(<<node>>, ws, exact)
    BY <2>2, <2>3, TypedIntro
  <2> QED
    BY <1>1, <1>3, <2>4
<1> QED
  BY <1>4 DEF Expression

LEMMA LitTyped ==
  ASSUME NEW v \in BitVector(XLen), NEW w \in Nat, NEW exact
  PROVE  Expression(Lit(v, w), w, exact)
<1>1. Literal(v, w).kind = "lit" /\ Literal(v, w).val = v /\ Literal(v, w).w = w
  BY DEF Literal
<1> QED
  BY <1>1, OneNodeTyped DEF Lit

LEMMA VarTyped ==
  ASSUME NEW reg, NEW exact, XLen \in Nat
  PROVE  Expression(Var(reg), XLen, exact)
<1> DEFINE node == [kind |-> "var", name |-> reg]
<1>1. node.kind = "var"
  OBVIOUS
<1> HIDE DEF node
<1>2. Expression(<<node>>, XLen, exact)
  BY <1>1, OneNodeTyped
<1> QED
  BY <1>2 DEF Var, node

LEMMA AppTyped ==
  ASSUME NEW x, NEW wx, NEW y, NEW wy, NEW exact, Expression(x, wx, exact), Expression(y, wy, exact),
         NEW op \in {"add", "and", "shl", "lshr", "ashr", "concat"},
         NEW w \in Nat, op # "concat" => w = wx,
         exact => op \in {"add", "and", "shl"} /\ wx = XLen /\ wy = XLen
  PROVE  Expression(App(op, x, y), w, exact)
<1> DEFINE m == Len(x)
           n == Len(y)
           node == [kind |-> "app", op |-> op, left |-> n + 1]
<1>1. PICK xs : TypedBy(x, xs, exact) /\ xs[m] = wx
  BY DEF Expression
<1>2. PICK ys : TypedBy(y, ys, exact) /\ ys[n] = wy
  BY DEF Expression
<1>3. node.kind = "app" /\ node.op = op /\ node.left = n + 1
  OBVIOUS
<1>4. App(op, x, y) = x \o y \o <<node>>
  BY DEF App
<1>5. wx \in Nat
  BY <1>1, TypedNodes
<1>6. PICK z, zs, i : /\ z = x \o y \o <<node>> /\ zs = Widths2(xs, m, ys, n, w)
                      /\ i = m + n + 1
  OBVIOUS
<1>7. AreJoined(x, xs, y, ys, exact, node, w, m, n, i, z, zs)
  BY <1>1, <1>2, <1>5, <1>6 DEF AreJoined
<1> HIDE DEF node, m, n
<1>8. /\ n + 1 \in 1..i - 1 /\ z[i] = node /\ zs[i] = w
      /\ zs[i - 1] = wy /\ zs[i - (n + 1)] = wx
  <2>1. OperandsAt(i, x, xs, y, ys, node, w, m, n, z, zs)
    BY <1>7, JoinedOperands, Zenon
  <2> QED
    BY <1>1, <1>2, <2>1 DEF OperandsAt, m, n
<1>9. NodeOk(z, zs, i)
  BY <1>3, <1>8 DEF NodeOk, Kinds
<1>10. exact => NodeExact(z, zs, i)
  BY <1>3, <1>8 DEF NodeExact
<1>11. Expression(z, w, exact)
  BY <1>9, <1>10, <1>7, Joined, Zenon
<1> QED
  BY <1>4, <1>11, <1>6

LEMMA ExtendTyped ==
  ASSUME NEW x, NEW wx, NEW c, NEW wc \in Nat, NEW exact, Expression(x, wx, exact),
         c \in BitVector(XLen), c \in BitVector(wc), c \in Nat,
         NEW op \in {"sext", "zext"},
         exact => op = "sext" /\ x[Len(x)].kind = "index"
  PROVE  Expression(App(op, x, Lit(c, wc)), wx + c, exact)
<1> DEFINE y == Lit(c, wc)
           m == Len(x)
           n == Len(y)
           w == wx + c
           node == [kind |-> "app", op |-> op, left |-> n + 1]
<1>1. PICK xs : TypedBy(x, xs, exact) /\ xs[m] = wx
  BY DEF Expression
<1>2. PICK ys : TypedBy(y, ys, exact) /\ ys[n] = wc
  BY LitTyped DEF Expression
<1>3. node.kind = "app" /\ node.op = op /\ node.left = n + 1
  OBVIOUS
<1>4. App(op, x, y) = x \o y \o <<node>>
  BY DEF App
<1>5. wx \in Nat /\ w \in Nat
  BY <1>1, TypedNodes
<1>6. y[n].kind = "lit" /\ y[n].val = c /\ y[n].w = wc
  <2> DEFINE lit == Literal(c, wc)
  <2>1. y = <<lit>> /\ lit.kind = "lit" /\ lit.val = c /\ lit.w = wc
    BY DEF Lit, Literal
  <2> HIDE DEF lit, y
  <2>2. Len(y) = 1 /\ y[1] = lit
    BY <2>1
  <2> QED
    BY <2>1, <2>2
<1>7. PICK z, zs, i : /\ z = x \o y \o <<node>> /\ zs = Widths2(xs, m, ys, n, w)
                      /\ i = m + n + 1
  OBVIOUS
<1>8. AreJoined(x, xs, y, ys, exact, node, w, m, n, i, z, zs)
  BY <1>1, <1>2, <1>5, <1>7 DEF AreJoined
<1> HIDE DEF node, m, n, y, w
<1>9. /\ n + 1 \in 1..i - 1 /\ z[i] = node /\ zs[i] = w
      /\ z[i - 1] = y[n] /\ zs[i - (n + 1)] = wx /\ z[i - (n + 1)] = x[m]
  <2>1. OperandsAt(i, x, xs, y, ys, node, w, m, n, z, zs)
    BY <1>8, JoinedOperands, Zenon
  <2> QED
    BY <1>1, <2>1 DEF OperandsAt, m
<1>10. NodeOk(z, zs, i)
  <2>1. z[i - 1].kind = "lit" /\ z[i - 1].val = c /\ z[i - 1].w = wc
    BY <1>6, <1>9
  <2>2. zs[i] = zs[i - (n + 1)] + z[i - 1].val /\ z[i - 1].val \in BitVector(z[i - 1].w)
    BY <1>9, <2>1 DEF w
  <2> QED
    BY <1>3, <1>9, <2>1, <2>2 DEF NodeOk, Kinds
<1>11. exact => NodeExact(z, zs, i)
  BY <1>3, <1>9 DEF NodeExact, m
<1>12. Expression(z, w, exact)
  BY <1>10, <1>11, <1>8, Joined, Zenon
<1> QED
  BY <1>4, <1>12, <1>7 DEF w, y

(* An operator over one expression.                                        *)
AreAppended(x, wx, exact, node, w, n, i, z, zs) ==
  /\ TypedBy(x, wx, exact) /\ w \in Nat
  /\ n = Len(x) /\ i = n + 1
  /\ z = Append(x, node) /\ zs = [j \in 1..i |-> IF j <= n THEN wx[j] ELSE w]

AppendedAt(i, x, wx, node, w, n, z, zs) ==
  /\ n \in Nat \ {0} /\ i = n + 1 /\ i > 1 /\ i - 1 = n
  /\ \E S : z \in Seq(S)
  /\ Len(z) = i /\ zs \in [1..i -> Nat]
  /\ z[i] = node /\ zs[i] = w
  /\ \A j \in 1..n : z[j] = x[j] /\ zs[j] = wx[j]
  /\ z[n] = x[n] /\ zs[n] = wx[n]

LEMMA AppendedNodes ==
  ASSUME NEW x, NEW wx, NEW exact, NEW node, NEW w, NEW n, NEW i, NEW z, NEW zs,
         AreAppended(x, wx, exact, node, w, n, i, z, zs)
  PROVE  AppendedAt(i, x, wx, node, w, n, z, zs)
<1> USE DEF AreAppended
<1>1. n \in Nat \ {0} /\ i = n + 1 /\ i > 1 /\ i - 1 = n /\ n \in 1..n
  BY TypedNodes
<1>2. PICK S : x \in Seq(S)
  BY DEF TypedBy
<1> DEFINE X == S \cup {node}
<1>3. x \in Seq(X) /\ node \in X
  BY <1>2
<1> HIDE DEF X
<1>4. z \in Seq(X) /\ Len(z) = i /\ z[i] = node /\ \A j \in 1..n : z[j] = x[j]
  BY <1>1, <1>3
<1>5. wx \in [1..n -> Nat]
  BY DEF TypedBy
<1>6. \A j \in 1..n : j \in 1..i /\ j <= n
  BY <1>1
<1>7. zs \in [1..i -> Nat]
  <2>1. \A j \in 1..i : j <= n => j \in 1..n
    BY <1>1
  <2> QED
    BY <1>5, <2>1
<1>8. i \in 1..i /\ ~ (i <= n)
  BY <1>1
<1>9. zs[i] = w /\ \A j \in 1..n : zs[j] = wx[j]
  BY <1>6, <1>8
<1>10. \E T : z \in Seq(T)
  BY <1>4
<1> HIDE DEF AreAppended
<1> QED
  BY <1>1, <1>4, <1>7, <1>9, <1>10 DEF AppendedAt

LEMMA Appended ==
  ASSUME NEW x, NEW wx, NEW exact, NEW node, NEW w, NEW n, NEW at, NEW z, NEW zs,
         AreAppended(x, wx, exact, node, w, n, at, z, zs),
         NodeOk(z, zs, at), exact => NodeExact(z, zs, at)
  PROVE  Expression(z, w, exact)
<1>1. /\ n \in Nat \ {0} /\ at = n + 1 /\ Len(z) = at /\ zs \in [1..at -> Nat]
      /\ zs[at] = w /\ \A j \in 1..n : z[j] = x[j] /\ zs[j] = wx[j]
      /\ \E S : z \in Seq(S)
  <2>1. AppendedAt(at, x, wx, node, w, n, z, zs)
    BY AppendedNodes, Zenon
  <2> QED
    BY <2>1 DEF AppendedAt
<1>2. \E S : z \in Seq(S)
  BY <1>1
<1>3. n = Len(x) /\ TypedBy(x, wx, exact)
  BY DEF AreAppended
<1>4. ASSUME NEW i \in 1..n
      PROVE  NodeOk(z, zs, i) /\ (exact => NodeExact(z, zs, i))
  <2>1. i \in Nat \ {0} /\ \A j \in 1..i : j \in 1..n
    BY <1>1
  <2>2. \A j \in 1..i : z[0 + j] = x[j] /\ zs[0 + j] = wx[j]
    BY <1>1, <2>1
  <2>3. NodeOk(x, wx, i) /\ (exact => NodeExact(x, wx, i))
    BY <1>3 DEF TypedBy
  <2>4. NodeOk(z, zs, 0 + i) /\ (exact => NodeExact(z, zs, 0 + i))
    BY <2>1, <2>2, <2>3, NodeMoves
  <2> QED
    BY <2>1, <2>4
<1>5. ASSUME NEW i \in 1..at
      PROVE  NodeOk(z, zs, i) /\ (exact => NodeExact(z, zs, i))
  <2>1. i \in 1..n \/ i = at
    BY <1>1
  <2> QED
    BY <1>4, <2>1
<1>6. at \in Nat \ {0}
  BY <1>1
<1>7. TypedBy(z, zs, exact)
  BY <1>1, <1>2, <1>5, <1>6, TypedIntro
<1> QED
  BY <1>1, <1>7 DEF Expression

LEMMA SliceTyped ==
  ASSUME NEW x, NEW wx, NEW exact, Expression(x, wx, exact),
         NEW l \in Nat, NEW r \in Nat, r <= l,
         exact => l = Word - 1 /\ r = 0 /\ wx = XLen
  PROVE  Expression(Slices(l, r, x), (l - r) + 1, exact)
<1> DEFINE n == Len(x)
           w == (l - r) + 1
           node == [kind |-> "app", op |-> "slice", left |-> 1, l |-> l, r |-> r]
<1>1. PICK xs : TypedBy(x, xs, exact) /\ xs[n] = wx
  BY DEF Expression
<1>2. /\ node.kind = "app" /\ node.op = "slice" /\ node.left = 1
      /\ node.l = l /\ node.r = r /\ w \in Nat /\ w = (l - r) + 1
  OBVIOUS
<1>3. Slices(l, r, x) = Append(x, node)
  BY DEF Slices
<1>4. PICK z, zs, i : /\ z = Append(x, node) /\ i = n + 1
                      /\ zs = [j \in 1..n + 1 |-> IF j <= n THEN xs[j] ELSE w]
  OBVIOUS
<1>5. AreAppended(x, xs, exact, node, w, n, i, z, zs)
  BY <1>1, <1>2, <1>4 DEF AreAppended
<1> HIDE DEF node, n, w
<1>6. /\ n \in Nat \ {0} /\ i > 1 /\ i - 1 = n /\ z[i] = node /\ zs[i] = w /\ zs[n] = xs[n]
  <2>1. AppendedAt(i, x, xs, node, w, n, z, zs)
    BY <1>5, AppendedNodes, Zenon
  <2> QED
    BY <2>1 DEF AppendedAt
<1>7. NodeOk(z, zs, i)
  <2>1. node.left \in 1..i - 1
    BY <1>2, <1>6
  <2> QED
    BY <1>2, <1>6, <2>1 DEF NodeOk, Kinds
<1>8. exact => NodeExact(z, zs, i)
  BY <1>1, <1>2, <1>6 DEF NodeExact
<1>9. Expression(z, w, exact)
  BY <1>5, <1>7, <1>8, Appended, Zenon
<1> QED
  BY <1>3, <1>4, <1>9 DEF w

LEMMA IndexTyped ==
  ASSUME NEW x, NEW wx, NEW exact, Expression(x, wx, exact), NEW memory \in Memories,
         Width(memory) \in Nat
  PROVE  Expression(Index(memory, x), Width(memory), exact)
<1> DEFINE n == Len(x)
           w == Width(memory)
           node == [kind |-> "index", mem |-> memory]
<1>1. PICK xs : TypedBy(x, xs, exact) /\ xs[n] = wx
  BY DEF Expression
<1>2. node.kind = "index" /\ node.mem = memory
  OBVIOUS
<1>3. Index(memory, x) = Append(x, node)
  BY DEF Index
<1>4. PICK z, zs, i : /\ z = Append(x, node) /\ i = n + 1
                      /\ zs = [j \in 1..n + 1 |-> IF j <= n THEN xs[j] ELSE w]
  OBVIOUS
<1>5. AreAppended(x, xs, exact, node, w, n, i, z, zs)
  BY <1>1, <1>4 DEF AreAppended
<1> HIDE DEF node, n
<1>6. i > 1 /\ z[i] = node /\ zs[i] = w
  <2>1. AppendedAt(i, x, xs, node, w, n, z, zs)
    BY <1>5, AppendedNodes, Zenon
  <2> QED
    BY <2>1 DEF AppendedAt
<1>7. NodeOk(z, zs, i)
  BY <1>2, <1>6 DEF NodeOk, Kinds
<1>8. NodeExact(z, zs, i)
  BY <1>2, <1>6 DEF NodeExact
<1>9. Expression(z, w, exact)
  BY <1>5, <1>7, <1>8, Appended, Zenon
<1> QED
  BY <1>3, <1>4, <1>9

-----------------------------------------------------------------------------
(* The literals of the translator fit in a u64.                            *)
LEMMA PowerExceeds ==
  ASSUME NEW n \in Nat
  PROVE  n < 2^n
<1> DEFINE T == {k \in Nat : ~ (k < 2^k)}
<1>1. SUFFICES ASSUME T # {} PROVE FALSE
  OBVIOUS
<1>2. PICK k \in T : \A j \in T : k <= j
  BY <1>1, LeastNumber
<1>3. k \in Nat /\ ~ (k < 2^k)
  OBVIOUS
<1>4. ASSUME k = 0 PROVE FALSE
  <2>1. 2^k = 1
    BY <1>4, PowerZero, Zenon
  <2> QED
    BY <1>3, <1>4, <2>1
<1>5. PICK j \in Nat : k = j + 1
  <2>1. k - 1 \in Nat /\ k = (k - 1) + 1
    BY <1>3, <1>4
  <2> QED
    BY <2>1
<1> HIDE DEF T
<1>6. j \notin T
  BY <1>2, <1>5
<1>7. j < 2^j /\ 2^j \in Nat
  BY <1>6, PowerNat DEF T
<1>8. 2^k = 2 * 2^j
  BY <1>5, PowerDouble
<1> QED
  BY <1>3, <1>5, <1>7, <1>8

LEMMA Sizes ==
  /\ XLen \in Nat /\ XLen >= 8 /\ Word \in Nat /\ XLen = Word + Word /\ Word >= 4
  /\ LuiShift \in Nat /\ LuiShift < Word
  /\ {0, 4, Word, LuiShift, XLen - 1} \subseteq BitVector(XLen)
<1>1. XLen \in Nat /\ XLen % 8 = 0 /\ XLen > 0 /\ LuiShift \in 0 .. (XLen \div 2) - 1
  BY PassesAssumption
<1>2. XLen >= 8 /\ Word \in Nat /\ XLen = Word + Word /\ Word >= 4
  BY <1>1 DEF Word
<1>3. LuiShift \in Nat /\ LuiShift < Word
  BY <1>1, <1>2 DEF Word
<1>4. XLen < 2^XLen /\ 2^XLen \in Nat
  BY <1>1, PowerExceeds, PowerNat
<1>5. {0, 4, Word, LuiShift, XLen - 1} \subseteq 0 .. 2^XLen - 1
  BY <1>1, <1>2, <1>3, <1>4
<1> QED
  BY <1>1, <1>2, <1>3, <1>5 DEF BitVector

-----------------------------------------------------------------------------
(* Folding keeps the nodes, and the widths.                                *)
LEMMA TypedIsShaped ==
  ASSUME NEW e, NEW ws, NEW exact, TypedBy(e, ws, exact)
  PROVE  Shaped(e)
<1>1. Len(e) \in Nat
  BY TypedNodes
<1>2. ASSUME NEW i \in 1..Len(e)
      PROVE  /\ e[i].kind \in Kinds
             /\ e[i].kind = "index" => i > 1
             /\ e[i].kind = "app" => e[i].left \in 1..i - 1
  <2>1. NodeOk(e, ws, i)
    BY DEF TypedBy
  <2> QED
    BY <2>1 DEF NodeOk
<1> QED
  BY <1>1, <1>2 DEF Shaped

Operators == {"add", "and", "shl", "lshr", "ashr", "sext", "zext", "slice"}

FoldedWidth(n, x, y) ==
  IF n.op = "slice" THEN (n.l - n.r) + 1
  ELSE IF n.op \in {"sext", "zext"} THEN x.w + y.val
  ELSE x.w

LEMMA FoldedLitFits ==
  ASSUME NEW n, n.op \in Operators, NEW x, NEW y,
         x.val \in BitVector(XLen), y.val \in BitVector(XLen)
  PROVE  \E v \in BitVector(XLen) : FoldedLit(n, x, y) = Literal(v, FoldedWidth(n, x, y))
<1>1. XLen \in Nat /\ 2^XLen \in Nat \ {0}
  BY Sizes, PowerPos
<1>2. x.val \in Nat /\ y.val \in Nat
  BY <1>1 DEF BitVector
<1>3. CASE n.op = "add"
  <2>1. (x.val + y.val) % 2^XLen \in BitVector(XLen)
    <3>1. x.val + y.val \in Int
      BY <1>2
    <3>2. (x.val + y.val) % 2^XLen \in Nat /\ (x.val + y.val) % 2^XLen < 2^XLen
      BY <1>1, <3>1, DivMod
    <3> QED
      BY <1>1, <3>2 DEF BitVector
  <2> QED
    BY <1>3, <2>1 DEF FoldedLit, FoldedWidth, Wrap
<1>4. CASE n.op = "and"
  <2>1. Bits(XLen, x.val) \cap Bits(XLen, y.val) \subseteq 0 .. XLen - 1
    BY <1>1, BitsBelow
  <2>2. And(XLen, x.val, y.val) \in BitVector(XLen)
    BY <1>1, <2>1, NumberBelow DEF And
  <2> QED
    BY <1>4, <2>2 DEF FoldedLit, FoldedWidth
<1>5. CASE n.op = "shl"
  <2>1. LeftShift(XLen, x.val, y.val) \in BitVector(XLen)
    BY <1>1, NumberBelow DEF LeftShift
  <2> QED
    BY <1>5, <2>1 DEF FoldedLit, FoldedWidth
<1>6. CASE n.op = "lshr"
  <2>1. ARightShift(XLen, x.val, y.val) \in BitVector(XLen)
    <3> DEFINE high == IF IsNegative(XLen, x.val)
                         THEN {i \in 0 .. XLen - 1 : i + y.val >= XLen} ELSE {}
               low == {i - y.val : i \in Bits(XLen, x.val)} \cap (0 .. XLen - 1)
    <3>1. low \cup high \subseteq 0 .. XLen - 1
      OBVIOUS
    <3>2. ARightShift(XLen, x.val, y.val) = Number(low \cup high)
      BY DEF ARightShift
    <3> HIDE DEF low, high
    <3> QED
      BY <1>1, <3>1, <3>2, NumberBelow
  <2> QED
    BY <1>6, <2>1 DEF FoldedLit, FoldedWidth
<1>7. CASE n.op = "ashr"
  <2>1. RightShift(XLen, x.val, y.val) \in BitVector(XLen)
    BY <1>1, NumberBelow DEF RightShift
  <2> QED
    BY <1>7, <2>1 DEF FoldedLit, FoldedWidth
<1>8. CASE n.op \in {"sext", "zext"}
  BY <1>8 DEF FoldedLit, FoldedWidth
<1>9. CASE n.op = "slice"
  <2>1. Bits(XLen, x.val) \cap Mask(n.l, n.r) \subseteq 0 .. XLen - 1
    BY <1>1, BitsBelow
  <2>2. Number(Bits(XLen, x.val) \cap Mask(n.l, n.r)) \in BitVector(XLen)
    BY <1>1, <2>1, NumberBelow
  <2> QED
    BY <1>9, <2>2 DEF FoldedLit, FoldedWidth
<1> QED
  BY <1>3, <1>4, <1>5, <1>6, <1>7, <1>8, <1>9 DEF Operators

IsLiteral(node, w) == node.kind = "lit" /\ node.val \in BitVector(XLen) /\ node.w = w

FoldedAt(e, ws, f, i) ==
  \/ f[i] = e[i]
  \/ e[i].kind = "app" /\ e[i].op \in Operators /\ IsLiteral(f[i], ws[i])

LEMMA FoldedIsLiteral ==
  ASSUME NEW e, NEW ws, NEW f, NEW i, NodeOk(e, ws, i), FoldedAt(e, ws, f, i), f[i].kind = "lit"
  PROVE  IsLiteral(f[i], ws[i])
BY DEF NodeOk, FoldedAt, IsLiteral

LEMMA FoldedStep ==
  ASSUME NEW e, NEW ws, NEW exact, TypedBy(e, ws, exact), NEW i \in 1..Len(e),
         \A j \in 1..i - 1 : FoldedAt(e, ws, Folded(e), j)
  PROVE  FoldedAt(e, ws, Folded(e), i)
<1> DEFINE f == Folded(e)
<1>1. Shaped(e) /\ Len(e) \in Nat
  BY TypedIsShaped, TypedNodes
<1>2. f[i] = NodeFolded(e, f, i)
  BY <1>1, FoldedNode
<1>3. \A j \in 1..Len(e) : NodeOk(e, ws, j)
  BY DEF TypedBy
<1> HIDE DEF f
<1>4. CASE e[i].kind = "app" /\ IsLit(f[i - e[i].left]) /\ IsLit(f[i - 1])
  <2>1. NodeOk(e, ws, i)
    BY <1>3
  <2>2. e[i].left \in 1..i - 1
    BY <1>4, <2>1 DEF NodeOk
  <2>3. PICK x, y : x = i - e[i].left /\ y = i - 1
    OBVIOUS
  <2>4. x \in 1..i - 1 /\ y \in 1..i - 1 /\ x \in 1..Len(e) /\ y \in 1..Len(e)
    BY <1>1, <2>2, <2>3
  <2>5. FoldedAt(e, ws, f, x) /\ FoldedAt(e, ws, f, y)
    BY <2>4 DEF f
  <2>6. f[x].kind = "lit" /\ f[y].kind = "lit"
    BY <1>4, <2>3 DEF IsLit
  <2>7. NodeOk(e, ws, x) /\ NodeOk(e, ws, y)
    BY <1>3, <2>4
  <2>8. IsLiteral(f[x], ws[x]) /\ IsLiteral(f[y], ws[y])
    BY <2>5, <2>6, <2>7, FoldedIsLiteral
  <2>9. f[i] = FoldedLit(e[i], f[x], f[y])
    BY <1>2, <1>4, <2>3 DEF NodeFolded
  <2>10. CASE e[i].op = "concat"
    BY <2>9, <2>10 DEF FoldedLit, FoldedAt, f
  <2>11. CASE e[i].op # "concat"
    <3>1. e[i].op \in Operators
      BY <1>4, <2>1, <2>11 DEF NodeOk, Operators
    <3>2. FoldedWidth(e[i], f[x], f[y]) = ws[i]
      <4>1. CASE e[i].op \in {"sext", "zext"}
        <5>1. e[y].kind = "lit" /\ ws[i] = ws[x] + e[y].val
          BY <1>4, <2>1, <2>3, <4>1 DEF NodeOk
        <5>2. f[y] = e[y]
          BY <2>5, <5>1 DEF FoldedAt
        <5> QED
          BY <2>8, <4>1, <5>1, <5>2 DEF FoldedWidth, IsLiteral
      <4>2. CASE e[i].op = "slice"
        BY <1>4, <2>1, <4>2 DEF NodeOk, FoldedWidth
      <4>3. CASE e[i].op \in {"add", "and", "shl", "lshr", "ashr"}
        <5>1. ws[i] = ws[x]
          BY <1>4, <2>1, <2>3, <4>3 DEF NodeOk
        <5> QED
          BY <2>8, <4>3, <5>1 DEF FoldedWidth, IsLiteral
      <4> QED
        BY <3>1, <4>1, <4>2, <4>3 DEF Operators
    <3>3. PICK v \in BitVector(XLen) : f[i] = Literal(v, ws[i])
      <4>1. f[x].val \in BitVector(XLen) /\ f[y].val \in BitVector(XLen)
        BY <2>8 DEF IsLiteral
      <4> QED
        BY <2>9, <3>1, <3>2, <4>1, FoldedLitFits
    <3> QED
      BY <1>4, <3>1, <3>3 DEF FoldedAt, IsLiteral, Literal, f
  <2> QED
    BY <2>10, <2>11 DEF f
<1>5. CASE ~ (e[i].kind = "app" /\ IsLit(f[i - e[i].left]) /\ IsLit(f[i - 1]))
  BY <1>2, <1>5 DEF NodeFolded, FoldedAt, f
<1> QED
  BY <1>4, <1>5

LEMMA FoldedNodes ==
  ASSUME NEW e, NEW ws, NEW exact, TypedBy(e, ws, exact), NEW i \in 1..Len(e)
  PROVE  FoldedAt(e, ws, Folded(e), i)
<1> DEFINE Bad == {j \in 1..Len(e) : ~ FoldedAt(e, ws, Folded(e), j)}
<1>1. SUFFICES ASSUME Bad # {} PROVE FALSE
  OBVIOUS
<1>2. Len(e) \in Nat
  BY TypedNodes
<1>3. Bad \in SUBSET Nat
  BY <1>2
<1>4. PICK k \in Bad : \A j \in Bad : k <= j
  <2> HIDE DEF Bad
  <2> QED
    BY <1>1, <1>3, LeastNumber
<1>5. k \in 1..Len(e) /\ ~ FoldedAt(e, ws, Folded(e), k)
  OBVIOUS
<1>6. \A j \in 1..k - 1 : j \in 1..Len(e) /\ ~ (k <= j)
  BY <1>2, <1>5
<1> HIDE DEF Bad
<1>7. \A j \in 1..k - 1 : j \notin Bad
  BY <1>4, <1>6
<1>8. \A j \in 1..k - 1 : FoldedAt(e, ws, Folded(e), j)
  BY <1>6, <1>7 DEF Bad
<1> QED
  BY <1>5, <1>8, FoldedStep

LEMMA FoldedShaped ==
  ASSUME NEW e, NEW ws, NEW exact, TypedBy(e, ws, exact)
  PROVE  Shaped(Folded(e)) /\ Len(Folded(e)) = Len(e)
<1> DEFINE f == Folded(e)
           n == Len(e)
<1>1. Shaped(e) /\ Len(f) = n /\ n \in Nat
  BY TypedIsShaped, FoldedNode, TypedNodes
<1>2. \A i \in 1..n : FoldedAt(e, ws, f, i)
  BY FoldedNodes
<1> HIDE DEF f
<1>3. ASSUME NEW i \in 1..n
      PROVE  /\ f[i].kind \in Kinds
             /\ f[i].kind = "index" => i > 1
             /\ f[i].kind = "app" => f[i].left \in 1..i - 1
  <2>1. /\ e[i].kind \in Kinds
        /\ e[i].kind = "index" => i > 1
        /\ e[i].kind = "app" => e[i].left \in 1..i - 1
    BY <1>1 DEF Shaped
  <2> QED
    BY <1>2, <2>1 DEF FoldedAt, IsLiteral, Kinds
<1>4. Shaped(f)
  BY <1>1, <1>3 DEF Shaped
<1> QED
  BY <1>1, <1>4 DEF f

(* The value of a literal is its number.                                   *)
LEMMA RootIsValue ==
  ASSUME NEW e, NEW exact, Expression(e, XLen, exact), NEW state, NEW abstract,
         IsLit(Last(Folded(e)))
  PROVE  /\ Last(Folded(e)).val \in BitVector(XLen)
         /\ Value(Folded(e), state, abstract) = Last(Folded(e)).val
<1> DEFINE f == Folded(e)
           n == Len(e)
<1>1. PICK ws : TypedBy(e, ws, exact) /\ ws[n] = XLen
  BY DEF Expression
<1>2. n \in Nat \ {0} /\ n \in 1..n
  BY <1>1, TypedNodes
<1>3. Shaped(e) /\ Len(f) = n
  BY <1>1, TypedIsShaped, FoldedNode
<1>4. FoldedAt(e, ws, f, n) /\ NodeOk(e, ws, n)
  BY <1>1, <1>2, FoldedNodes DEF TypedBy
<1>5. Last(f) = f[n]
  BY <1>3, Zenon DEF Last
<1> HIDE DEF f, n
<1>6. IsLiteral(f[n], XLen)
  BY <1>1, <1>4, <1>5, FoldedIsLiteral DEF IsLit, f
<1>7. Shaped(f)
  BY <1>1, FoldedShaped DEF f
<1>8. Values(f, state, abstract)[n] = NodeValue(f, state, abstract, Values(f, state, abstract), n)
  BY <1>2, <1>3, <1>7, ValueOfNode, Zenon
<1>9. Values(f, state, abstract)[n].val = f[n].val % 2^XLen
  BY <1>6, <1>8 DEF NodeValue, IsLiteral
<1>10. f[n].val % 2^XLen = f[n].val
  <2>1. 2^XLen \in Nat \ {0} /\ f[n].val \in 0..2^XLen - 1
    BY <1>6, Sizes, PowerPos DEF IsLiteral, BitVector
  <2> QED
    BY <2>1
<1> QED
  BY <1>3, <1>5, <1>6, <1>9, <1>10 DEF Value, IsLiteral, f

-----------------------------------------------------------------------------
(* What the translator builds has the widths it should have, and so has    *)
(* what the folder leaves.                                                 *)
Known(map) == \A r \in DOMAIN map : map[r] \in BitVector(XLen)

LEMMA ConstifiedTyped ==
  ASSUME NEW e, NEW ws, NEW exact, TypedBy(e, ws, exact), NEW map, Known(map)
  PROVE  TypedBy(Constified(e, map), ws, exact) /\ Len(Constified(e, map)) = Len(e)
<1> DEFINE n == Len(e)
           node(i) == IF e[i].kind = "var" /\ e[i].name \in DOMAIN map
                        THEN Literal(map[e[i].name], XLen) ELSE e[i]
           c == [i \in 1..n |-> node(i)]
           S == {c[i] : i \in 1..n}
<1>1. n \in Nat \ {0} /\ ws \in [1..n -> Nat]
  BY TypedNodes DEF TypedBy
<1>2. c = Constified(e, map)
  BY DEF Constified
<1>3. \A i \in 1..n : c[i] = node(i)
  OBVIOUS
<1>4. c \in Seq(S) /\ Len(c) = n
  <2>1. c \in [1..n -> S]
    OBVIOUS
  <2> HIDE DEF c, S
  <2> QED
    BY <1>1, <2>1
<1> HIDE DEF c
<1>5. ASSUME NEW i \in 1..n, e[i].kind = "lit" \/ e[i].kind = "index" \/ e[i].kind = "app"
      PROVE  c[i] = e[i]
  BY <1>3, <1>5
<1> HIDE DEF node, S
<1>6. ASSUME NEW i \in 1..n PROVE NodeOk(c, ws, i) /\ (exact => NodeExact(c, ws, i))
  <2>1. NodeOk(e, ws, i) /\ (exact => NodeExact(e, ws, i))
    BY DEF TypedBy, n
  <2>2. CASE e[i].kind = "lit"
    BY <1>5, <2>1, <2>2 DEF NodeOk, NodeExact
  <2>3. CASE e[i].kind = "index"
    BY <1>5, <2>1, <2>3 DEF NodeOk, NodeExact
  <2>4. CASE e[i].kind = "var"
    <3>1. CASE e[i].name \in DOMAIN map
      <4>1. c[i] = Literal(map[e[i].name], XLen) /\ map[e[i].name] \in BitVector(XLen)
        BY <1>3, <2>4, <3>1 DEF node, Known
      <4>2. c[i].kind = "lit" /\ c[i].val \in BitVector(XLen) /\ c[i].w = XLen
        BY <4>1 DEF Literal
      <4>3. ws[i] = XLen
        BY <2>1, <2>4 DEF NodeOk
      <4> QED
        BY <4>2, <4>3 DEF NodeOk, NodeExact, Kinds
    <3>2. CASE e[i].name \notin DOMAIN map
      <4>1. c[i] = e[i]
        BY <1>3, <3>2 DEF node
      <4> QED
        BY <2>1, <2>4, <4>1 DEF NodeOk, NodeExact
    <3> QED
      BY <3>1, <3>2
  <2>5. CASE e[i].kind = "app"
    <3>1. e[i].left \in 1..i - 1
      BY <2>1, <2>5 DEF NodeOk
    <3>2. i - 1 \in 1..n /\ i - e[i].left \in 1..n
      BY <1>1, <3>1
    <3>3. c[i] = e[i]
      BY <1>5, <2>5
    <3>4. e[i - 1].kind = "lit" => c[i - 1] = e[i - 1]
      BY <1>5, <3>2
    <3>5. e[i - e[i].left].kind = "index" => c[i - e[i].left] = e[i - e[i].left]
      BY <1>5, <3>2
    <3>6. NodeOk(c, ws, i)
      BY <2>1, <2>5, <3>3, <3>4 DEF NodeOk
    <3>7. exact => NodeExact(c, ws, i)
      BY <2>1, <2>5, <3>3, <3>5 DEF NodeExact
    <3> QED
      BY <3>6, <3>7
  <2> QED
    BY <2>1, <2>2, <2>3, <2>4, <2>5 DEF NodeOk, Kinds
<1>7. \E T : c \in Seq(T)
  BY <1>4
<1> HIDE DEF n
<1>8. TypedBy(c, ws, exact)
  BY <1>1, <1>4, <1>6, <1>7, TypedIntro
<1> QED
  BY <1>2, <1>4, <1>8 DEF n

(* An expression that reads no memory; the value of a store is the low     *)
(* bits of a register.                                                     *)
Pure(e) == \A i \in 1..Len(e) : e[i].kind # "index"
IsSlice(node) == node.kind = "app" /\ node.op = "slice"

StatementOk(s, names, exact) ==
  \/ s.kind = "assign" /\ s.lhs \in names /\ Expression(s.rhs, XLen, exact)
  \/ /\ s.kind = "store" /\ s.mem \in Memories
     /\ Expression(s.index, XLen, exact) /\ Expression(s.rhs, Width(s.mem), exact)
     /\ Pure(s.index) /\ Pure(s.rhs) /\ IsSlice(s.rhs[Len(s.rhs)])
  \/ /\ s.kind = "ite" /\ s.lhs \in names
     /\ \E reg : s.x = Source(reg)
     /\ \E reg : s.y = Source(reg)

LEMMA SourceTyped ==
  ASSUME NEW reg, NEW exact
  PROVE  Expression(Source(reg), XLen, exact)
<1>1. XLen \in Nat
  BY Sizes
<1> DEFINE zero == 0
<1>2. zero \in BitVector(XLen)
  BY Sizes
<1>3. Source(reg) = IF reg = "zero" THEN Lit(zero, XLen) ELSE Var(reg)
  BY DEF Source
<1> HIDE DEF zero
<1> QED
  BY <1>1, <1>2, <1>3, LitTyped, VarTyped

LEMMA PlusTyped ==
  ASSUME NEW x, NEW y, NEW w, NEW exact, Expression(x, w, exact), Expression(y, w, exact),
         w \in Nat, exact => w = XLen
  PROVE  Expression(Plus(x, y), w, exact)
<1>1. PICK op : op = "add"
  OBVIOUS
<1>2. op \in {"add", "and", "shl", "lshr", "ashr", "concat"} /\ op # "concat"
  BY <1>1
<1>3. Expression(App(op, x, y), w, exact)
  BY <1>1, <1>2, AppTyped
<1> QED
  BY <1>1, <1>3 DEF Plus

LEMMA LowWordTyped ==
  ASSUME NEW x, NEW w, NEW exact, Expression(x, w, exact), exact => w = XLen
  PROVE  Expression(LowWord(x), Word, exact)
<1>1. PICK l, r : l = Word - 1 /\ r = 0
  OBVIOUS
<1>2. l \in Nat /\ r \in Nat /\ r <= l /\ (l - r) + 1 = Word
  BY <1>1, Sizes
<1>3. Expression(Slices(l, r, x), (l - r) + 1, exact)
  BY <1>1, <1>2, SliceTyped
<1> QED
  BY <1>1, <1>2, <1>3 DEF LowWord

LEMMA FromWordTyped ==
  ASSUME NEW x, NEW exact, Expression(x, Word, exact), exact => x[Len(x)].kind = "index"
  PROVE  Expression(FromWord(x), XLen, exact)
<1>1. PICK op, c, w : op = "sext" /\ c = Word /\ w = XLen
  OBVIOUS
<1>2. c \in BitVector(XLen) /\ c \in BitVector(w) /\ c \in Nat /\ w \in Nat /\ Word + c = XLen
  BY <1>1, Sizes
<1>3. op \in {"sext", "zext"}
  BY <1>1
<1>4. Expression(App(op, x, Lit(c, w)), Word + c, exact)
  BY <1>1, <1>2, <1>3, ExtendTyped
<1> QED
  BY <1>1, <1>2, <1>4 DEF FromWord

LEMMA AccessTyped ==
  ASSUME NEW x, NEW w, NEW exact, Expression(x, w, exact), NEW memory \in Memories
  PROVE  /\ Expression(Index(memory, x), Width(memory), exact)
         /\ Index(memory, x)[Len(Index(memory, x))].kind = "index"
<1>1. Width(memory) \in Nat
  BY Sizes DEF Width
<1>2. PICK xs : TypedBy(x, xs, exact)
  BY DEF Expression
<1>3. PICK S : x \in Seq(S)
  BY <1>2 DEF TypedBy
<1> DEFINE node == [kind |-> "index", mem |-> memory]
           T == S \cup {node}
<1>4. x \in Seq(T) /\ node \in T /\ node.kind = "index"
  BY <1>3
<1>5. Index(memory, x) = Append(x, node)
  BY DEF Index
<1> HIDE DEF node, T
<1>6. Append(x, node)[Len(Append(x, node))] = node
  BY <1>4
<1> QED
  BY <1>1, <1>4, <1>5, <1>6, IndexTyped

(* The operand of a shift, and the immediate of lui.                       *)
LEMMA ShiftTyped ==
  ASSUME NEW x, NEW y, NEW exact, Expression(x, XLen, exact), Expression(y, XLen, exact),
         NEW op \in {"shl", "lshr", "ashr"}, exact => op = "shl"
  PROVE  Expression(App(op, x, App("and", y, Lit(XLen - 1, XLen))), XLen, exact)
<1>1. PICK and, c : and = "and" /\ c = XLen - 1
  OBVIOUS
<1>2. c \in BitVector(XLen) /\ XLen \in Nat
  BY <1>1, Sizes
<1>3. Expression(Lit(c, XLen), XLen, exact)
  BY <1>2, LitTyped
<1>4. and \in {"add", "and", "shl", "lshr", "ashr", "concat"} /\ and # "concat"
  BY <1>1
<1>5. exact => and \in {"add", "and", "shl"} /\ XLen = XLen
  BY <1>1
<1>6. Expression(App(and, y, Lit(c, XLen)), XLen, exact)
  BY <1>2, <1>3, <1>4, <1>5, AppTyped
<1>7. op \in {"add", "and", "shl", "lshr", "ashr", "concat"} /\ op # "concat"
  OBVIOUS
<1>8. exact => op \in {"add", "and", "shl"} /\ XLen = XLen
  OBVIOUS
<1>9. Expression(App(op, x, App(and, y, Lit(c, XLen))), XLen, exact)
  BY <1>2, <1>6, <1>7, <1>8, AppTyped
<1> QED
  BY <1>1, <1>9

LEMMA UpperTyped ==
  ASSUME NEW imm, NEW exact, Expression(imm, XLen, exact), ~ exact
  PROVE  Expression(FromWord(App("shl", App("zext", Slices(Word - LuiShift - 1, 0, imm),
                                            Lit(LuiShift, XLen)), Lit(LuiShift, Word))),
                    XLen, exact)
<1>1. PICK l, r, zext, shl, c, w :
        /\ l = Word - LuiShift - 1 /\ r = 0 /\ zext = "zext" /\ shl = "shl"
        /\ c = LuiShift /\ w = (l - r) + 1
  OBVIOUS
<1>2. /\ l \in Nat /\ r \in Nat /\ r <= l /\ c \in Nat /\ c \in BitVector(XLen)
      /\ w + c = Word /\ XLen \in Nat /\ Word \in Nat
  BY <1>1, Sizes
<1>3. Expression(Slices(l, r, imm), w, exact)
  BY <1>1, <1>2, SliceTyped
<1>4. zext \in {"sext", "zext"}
  BY <1>1
<1> DEFINE upper == App(zext, Slices(l, r, imm), Lit(c, XLen))
<1>5. Expression(upper, w + c, exact)
  BY <1>2, <1>3, <1>4, ExtendTyped
<1>6. Expression(upper, Word, exact)
  BY <1>2, <1>5
<1>7. Expression(Lit(c, Word), Word, exact)
  BY <1>2, LitTyped
<1>8. shl \in {"add", "and", "shl", "lshr", "ashr", "concat"} /\ shl # "concat"
  BY <1>1
<1> HIDE DEF upper
<1>9. Expression(App(shl, upper, Lit(c, Word)), Word, exact)
  BY <1>2, <1>6, <1>7, <1>8, AppTyped
<1>10. Expression(FromWord(App(shl, upper, Lit(c, Word))), XLen, exact)
  BY <1>9, FromWordTyped
<1> QED
  BY <1>1, <1>10 DEF upper

LEMMA TargetTyped ==
  ASSUME NEW line \in Lines, NEW exact, ~ exact
  PROVE  Expression(JalrTarget(line), XLen, exact)
<1>1. PICK l, r, zero, concat : l = XLen - 1 /\ r = 1 /\ zero = 0 /\ concat = "concat"
  OBVIOUS
<1>2. l \in Nat /\ r \in Nat /\ r <= l /\ zero \in BitVector(XLen) /\ XLen \in Nat
  BY <1>1, Sizes
<1>3. Expression(Source(line.rs1), XLen, exact)
  BY SourceTyped
<1>4. Expression(Lit(line.imm, XLen), XLen, exact)
  BY <1>2, LitTyped, PassesAssumption
<1> DEFINE x == Plus(Source(line.rs1), Lit(line.imm, XLen))
<1>5. Expression(x, XLen, exact)
  BY <1>2, <1>3, <1>4, PlusTyped
<1> HIDE DEF x
<1>6. Expression(Slices(l, r, x), (l - r) + 1, exact)
  BY <1>2, <1>5, SliceTyped
<1>7. Expression(Lit(zero, r), r, exact)
  BY <1>2, LitTyped
<1>8. concat \in {"add", "and", "shl", "lshr", "ashr", "concat"} /\ concat = "concat"
  BY <1>1
<1>9. Expression(App(concat, Slices(l, r, x), Lit(zero, r)), XLen, exact)
  BY <1>2, <1>6, <1>7, <1>8, AppTyped
<1> QED
  BY <1>1, <1>9 DEF JalrTarget, x

LEMMA NextPcTyped ==
  ASSUME NEW exact
  PROVE  Expression(Plus(Var("pc"), Lit(4, XLen)), XLen, exact)
<1>1. PICK four, pc : four = 4 /\ pc = "pc"
  OBVIOUS
<1>2. four \in BitVector(XLen) /\ XLen \in Nat
  BY <1>1, Sizes
<1>3. Expression(Var(pc), XLen, exact) /\ Expression(Lit(four, XLen), XLen, exact)
  BY <1>2, VarTyped, LitTyped
<1>4. Expression(Plus(Var(pc), Lit(four, XLen)), XLen, exact)
  BY <1>2, <1>3, PlusTyped
<1> QED
  BY <1>1, <1>4

LEMMA AssignOk ==
  ASSUME NEW s, NEW reg, NEW e, NEW names, NEW exact, s = Set(reg, e), reg \in names,
         Expression(e, XLen, exact)
  PROVE  StatementOk(s, names, exact)
BY DEF StatementOk, Set

LEMMA StoreOk ==
  ASSUME NEW s, NEW memory \in Memories, NEW a, NEW e, NEW names, NEW exact,
         s = Store(memory, a, e), Pure(a), Pure(e), IsSlice(e[Len(e)]),
         Expression(a, XLen, exact), Expression(e, Width(memory), exact)
  PROVE  StatementOk(s, names, exact)
BY DEF StatementOk, Store

LEMMA SourcePure ==
  ASSUME NEW reg, NEW v, NEW w
  PROVE  Pure(Source(reg)) /\ Pure(Lit(v, w))
<1>1. ASSUME NEW node, node.kind # "index" PROVE Pure(<<node>>)
  <2>1. \A i \in 1..Len(<<node>>) : <<node>>[i] = node
    OBVIOUS
  <2> QED
    BY <1>1, <2>1 DEF Pure
<1>2. \A a, n : Literal(a, n).kind # "index"
  BY DEF Literal
<1>3. \A a, n : Pure(Lit(a, n))
  BY <1>1, <1>2 DEF Lit
<1>4. Pure(Var(reg))
  BY <1>1 DEF Var
<1> QED
  BY <1>3, <1>4 DEF Source

LEMMA PlusPure ==
  ASSUME NEW x, NEW y, Pure(x), Pure(y), NEW wx, NEW wy, NEW exact,
         Expression(x, wx, exact), Expression(y, wy, exact)
  PROVE  Pure(Plus(x, y))
<1> DEFINE node == [kind |-> "app", op |-> "add", left |-> Len(y) + 1]
<1>1. PICK S, T : x \in Seq(S) /\ y \in Seq(T)
  BY DEF Expression, TypedBy
<1> DEFINE X == S \cup T \cup {node}
<1>2. x \in Seq(X) /\ y \in Seq(X) /\ <<node>> \in Seq(X) /\ node.kind # "index"
  BY <1>1
<1>3. Plus(x, y) = x \o y \o <<node>>
  BY DEF Plus, App
<1> HIDE DEF node, X
<1>4. PICK m, n : m = Len(x) /\ n = Len(y) /\ m \in Nat /\ n \in Nat
  BY <1>2
<1>5. /\ x \o y \in Seq(X) /\ Len(x \o y) = m + n
      /\ \A i \in 1..m : (x \o y)[i] = x[i]
      /\ \A i \in 1..m + n : i \notin 1..m => i - m \in 1..n /\ (x \o y)[i] = y[i - m]
  BY <1>2, <1>4
<1>6. \A i \in 1..m + n : (x \o y)[i].kind # "index"
  BY <1>4, <1>5 DEF Pure
<1> DEFINE xy == x \o y
<1> HIDE DEF xy
<1>7. /\ Len(xy \o <<node>>) = m + n + 1
      /\ \A i \in 1..m + n + 1 :
           (xy \o <<node>>)[i] = IF i \in 1..m + n THEN xy[i] ELSE node
  BY <1>2, <1>4, <1>5 DEF xy
<1> QED
  BY <1>2, <1>3, <1>6, <1>7 DEF Pure, xy

LEMMA SlicePure ==
  ASSUME NEW x, Pure(x), NEW w, NEW exact, Expression(x, w, exact), NEW l, NEW r, NEW e,
         e = Slices(l, r, x)
  PROVE  Pure(e) /\ IsSlice(e[Len(e)])
<1> DEFINE node == [kind |-> "app", op |-> "slice", left |-> 1, l |-> l, r |-> r]
<1>1. PICK S : x \in Seq(S)
  BY DEF Expression, TypedBy
<1> DEFINE X == S \cup {node}
<1>2. x \in Seq(X) /\ node \in X /\ node.kind = "app" /\ node.op = "slice"
  BY <1>1
<1>3. e = Append(x, node)
  BY DEF Slices
<1> HIDE DEF node, X
<1>4. /\ Len(e) = Len(x) + 1 /\ Len(x) \in Nat /\ e[Len(e)] = node
      /\ \A i \in 1..Len(e) : e[i] = IF i \in 1..Len(x) THEN x[i] ELSE node
  BY <1>2, <1>3
<1> QED
  BY <1>2, <1>4 DEF Pure, IsSlice

LEMMA EffectOk ==
  ASSUME NEW line \in Lines, line.op # "jalr", NEW exact, exact => line.op \in ExactOps
  PROVE  StatementOk(Effect(line), {line.rd, "pc"}, exact)
<1> DEFINE s == Effect(line)
           x == Source(line.rs1)
           y == Source(line.rs2)
           imm == Lit(line.imm, XLen)
           names == {line.rd, "pc"}
           a == Plus(x, imm)
<1>1. Expression(x, XLen, exact) /\ Expression(y, XLen, exact)
  BY SourceTyped
<1>2. XLen \in Nat /\ Word \in Nat
  BY Sizes
<1>3. Expression(imm, XLen, exact)
  BY <1>2, LitTyped, PassesAssumption
<1>4. Expression(a, XLen, exact)
  BY <1>1, <1>2, <1>3, PlusTyped
<1>5. line.rd \in names
  OBVIOUS
<1>6. Pure(y) /\ Pure(a)
  <2>1. Pure(x) /\ Pure(y) /\ Pure(imm)
    BY SourcePure
  <2> HIDE DEF x, y, imm
  <2> QED
    BY <1>1, <1>3, <2>1, PlusPure
<1>7. CASE line.op = "addi"
  <2>1. s = Set(line.rd, a)
    BY <1>7 DEF Effect
  <2> HIDE DEF s, a, names
  <2> QED
    BY <1>4, <1>5, <2>1, AssignOk DEF s, names
<1>8. CASE line.op = "add"
  <2>1. s = Set(line.rd, Plus(x, y))
    BY <1>8 DEF Effect
  <2>2. Expression(Plus(x, y), XLen, exact)
    BY <1>1, <1>2, PlusTyped
  <2> HIDE DEF s, names, x, y
  <2> QED
    BY <1>5, <2>1, <2>2, AssignOk DEF s, names
<1>9. CASE line.op \in {"sll", "srl", "sra"}
  <2>1. PICK op : op = IF line.op = "sll" THEN "shl" ELSE IF line.op = "srl" THEN "lshr" ELSE "ashr"
    OBVIOUS
  <2> DEFINE e == App(op, x, App("and", y, Lit(XLen - 1, XLen)))
  <2>2. s = Set(line.rd, e)
    BY <1>9, <2>1 DEF Effect
  <2>3. op \in {"shl", "lshr", "ashr"} /\ (exact => op = "shl")
    BY <1>9, <2>1 DEF ExactOps
  <2>4. Expression(e, XLen, exact)
    <3> HIDE DEF x, y
    <3> QED
      BY <1>1, <2>3, ShiftTyped
  <2> HIDE DEF s, names, e
  <2> QED
    BY <1>5, <2>2, <2>4, AssignOk DEF s, names
<1>10. CASE line.op = "addiw"
  <2>1. s = Set(line.rd, FromWord(LowWord(Plus(LowWord(x), LowWord(imm)))))
    BY <1>10 DEF Effect
  <2>2. ~ exact
    BY <1>10 DEF ExactOps
  <2> HIDE DEF s, x, imm
  <2>3. Expression(LowWord(x), Word, exact) /\ Expression(LowWord(imm), Word, exact)
    BY <1>1, <1>3, <2>2, LowWordTyped
  <2>4. Expression(Plus(LowWord(x), LowWord(imm)), Word, exact)
    BY <1>2, <2>2, <2>3, PlusTyped
  <2> DEFINE sum == Plus(LowWord(x), LowWord(imm))
  <2> HIDE DEF sum, names
  <2>5. Expression(LowWord(sum), Word, exact)
    BY <2>2, <2>4, LowWordTyped DEF sum
  <2>6. Expression(FromWord(LowWord(sum)), XLen, exact)
    BY <2>2, <2>5, FromWordTyped
  <2>7. s = Set(line.rd, FromWord(LowWord(sum)))
    BY <2>1 DEF sum
  <2> QED
    BY <1>5, <2>6, <2>7, AssignOk DEF s, names
<1>11. CASE line.op = "lui"
  <2> DEFINE e == FromWord(App("shl", App("zext", Slices(Word - LuiShift - 1, 0, imm),
                                          Lit(LuiShift, XLen)), Lit(LuiShift, Word)))
  <2>1. s = Set(line.rd, e)
    BY <1>11 DEF Effect
  <2>2. ~ exact
    BY <1>11 DEF ExactOps
  <2> HIDE DEF imm
  <2>3. Expression(e, XLen, exact)
    BY <1>3, <2>2, UpperTyped
  <2> HIDE DEF s, names, e
  <2> QED
    BY <1>5, <2>1, <2>3, AssignOk DEF s, names
<1>12. CASE line.op = "slt"
  <2>1. s = [kind |-> "ite", lhs |-> line.rd, x |-> Source(line.rs1), y |-> Source(line.rs2)]
    BY <1>12 DEF Effect
  <2> HIDE DEF s
  <2> QED
    BY <2>1 DEF StatementOk, s
<1>13. CASE line.op \in {"lw", "ld"}
  <2>1. PICK memory : memory = IF line.op = "lw" THEN "mem_w" ELSE "mem_d"
    OBVIOUS
  <2>2. memory \in Memories
    BY <2>1 DEF Memories
  <2> DEFINE index == Index(memory, a)
  <2> HIDE DEF a
  <2>3. Expression(index, Width(memory), exact) /\ index[Len(index)].kind = "index"
    BY <1>4, <2>2, AccessTyped
  <2>4. CASE line.op = "lw"
    <3>1. s = Set(line.rd, FromWord(index))
      BY <2>1, <2>4 DEF Effect, a
    <3>2. Width(memory) = Word
      BY <2>1, <2>4 DEF Width
    <3> HIDE DEF s, names, index
    <3>3. Expression(FromWord(index), XLen, exact)
      BY <2>3, <3>2, FromWordTyped
    <3> QED
      BY <1>5, <3>1, <3>3, AssignOk DEF s, names
  <2>5. CASE line.op = "ld"
    <3>1. s = Set(line.rd, index)
      BY <2>1, <2>5 DEF Effect, a
    <3>2. Width(memory) = XLen
      BY <2>1, <2>5 DEF Width
    <3> HIDE DEF s, names, index
    <3> QED
      BY <1>5, <2>3, <3>1, <3>2, AssignOk DEF s, names
  <2> QED
    BY <1>13, <2>4, <2>5
<1>14. CASE line.op = "sw"
  <2>1. PICK memory : memory = "mem_w"
    OBVIOUS
  <2>2. memory \in Memories /\ Width(memory) = Word
    BY <2>1 DEF Memories, Width
  <2>3. s = Store(memory, a, LowWord(y))
    BY <1>14, <2>1 DEF Effect
  <2> HIDE DEF s, names, y, a
  <2>4. Expression(LowWord(y), Word, exact)
    BY <1>1, LowWordTyped
  <2>5. Expression(LowWord(y), Width(memory), exact)
    BY <2>2, <2>4
  <2> DEFINE e == LowWord(y)
  <2>6. Pure(e) /\ IsSlice(e[Len(e)])
    BY <1>1, <1>6, SlicePure DEF LowWord
  <2> HIDE DEF e
  <2>7. s = Store(memory, a, e) /\ Expression(e, Width(memory), exact)
    BY <2>3, <2>5 DEF e
  <2> QED
    BY <1>4, <1>6, <2>2, <2>6, <2>7, StoreOk DEF s, names
<1>15. CASE line.op = "sd"
  <2>1. PICK memory, l, r : memory = "mem_d" /\ l = XLen - 1 /\ r = 0
    OBVIOUS
  <2>2. memory \in Memories /\ Width(memory) = XLen
    BY <2>1 DEF Memories, Width
  <2>3. s = Store(memory, a, Slices(l, r, y))
    BY <1>15, <2>1 DEF Effect
  <2>4. l \in Nat /\ r \in Nat /\ r <= l /\ (l - r) + 1 = XLen
    BY <2>1, Sizes
  <2>5. ~ exact
    BY <1>15 DEF ExactOps
  <2> HIDE DEF s, names, y, a
  <2>6. Expression(Slices(l, r, y), (l - r) + 1, exact)
    BY <1>1, <2>4, <2>5, SliceTyped
  <2>7. Expression(Slices(l, r, y), Width(memory), exact)
    BY <2>2, <2>4, <2>6
  <2> DEFINE e == Slices(l, r, y)
  <2>8. Pure(e) /\ IsSlice(e[Len(e)])
    BY <1>1, <1>6, SlicePure
  <2> HIDE DEF e
  <2>9. s = Store(memory, a, e) /\ Expression(e, Width(memory), exact)
    BY <2>3, <2>7 DEF e
  <2> QED
    BY <1>4, <1>6, <2>2, <2>8, <2>9, StoreOk DEF s, names
<1> HIDE DEF s, names, x, y, imm, a
<1>16. StatementOk(s, names, exact)
  <2>1. line.op \in {"addi", "add", "sll", "srl", "sra", "addiw", "lui", "slt",
                     "lw", "ld", "sw", "sd", "jalr"}
    BY PassesAssumption
  <2> QED
    BY <2>1, <1>7, <1>8, <1>9, <1>10, <1>11, <1>12, <1>13, <1>14, <1>15 DEF s, names
<1> QED
  BY <1>16 DEF s, names

LEMMA StatementsOk ==
  ASSUME NEW line \in Lines, NEW exact, exact => line.op \in ExactOps
  PROVE  /\ StatementOk(Statements(line)[1], {line.rd, "pc"}, exact)
         /\ StatementOk(Statements(line)[2], {line.rd, "pc"}, exact)
         /\ \E s, t : Statements(line) = <<s, t>>
<1> DEFINE names == {line.rd, "pc"}
           next == Plus(Var("pc"), Lit(4, XLen))
<1>1. PICK pc : pc = "pc"
  OBVIOUS
<1>2. pc \in names /\ line.rd \in names
  BY <1>1
<1>3. Expression(next, XLen, exact)
  BY NextPcTyped
<1>4. NextPc = Set(pc, next) /\ NextPc.rhs = next
  BY <1>1 DEF NextPc, Set
<1>5. CASE line.op = "jalr"
  <2>1. Statements(line) = <<Set(line.rd, next), Set(pc, JalrTarget(line))>>
    BY <1>1, <1>4, <1>5 DEF Statements
  <2>2. Expression(JalrTarget(line), XLen, exact)
    BY <1>5, TargetTyped DEF ExactOps
  <2> HIDE DEF names, next
  <2>3. /\ StatementOk(Set(line.rd, next), names, exact)
        /\ StatementOk(Set(pc, JalrTarget(line)), names, exact)
    BY <1>2, <1>3, <2>2, AssignOk
  <2> QED
    BY <2>1, <2>3 DEF names
<1>6. CASE line.op # "jalr"
  <2>1. Statements(line) = <<Effect(line), NextPc>>
    BY <1>6 DEF Statements
  <2>2. StatementOk(Effect(line), names, exact)
    BY <1>6, EffectOk
  <2> HIDE DEF names, next
  <2>3. StatementOk(NextPc, names, exact)
    BY <1>2, <1>3, <1>4, AssignOk
  <2> QED
    BY <2>1, <2>2, <2>3 DEF names
<1> QED
  BY <1>5, <1>6

-----------------------------------------------------------------------------
(* What holds of every block.                                              *)
IsState(state) == state = [regs |-> state.regs, mem |-> state.mem, vars |-> state.vars]

TodoOk ==
  /\ lines \in Seq(Lines)
  /\ \/ todo = <<>>
     \/ /\ lines # <<>>
        /\ \/ todo = Statements(Last(lines))
           \/ todo = <<Statements(Last(lines))[2]>>

StatesOk ==
  /\ IsState(built) /\ IsState(emitted)
  /\ \E regs \in InitRegs : DOMAIN emitted.regs = DOMAIN regs \cup {"pc"}
  /\ DOMAIN built.regs = DOMAIN emitted.regs
  /\ emitted.regs = [r \in DOMAIN emitted.regs |-> emitted.regs[r]]
  /\ built.regs = [r \in DOMAIN built.regs |-> built.regs[r]]

MapOk ==
  /\ DOMAIN ctx \subseteq DOMAIN emitted.regs
  /\ Known(ctx)
  /\ MapIsCurrent

BlockInv == TodoOk /\ StatesOk /\ MapOk

LEMMA TodoAdvances ==
  ASSUME TodoOk, todo # <<>>
  PROVE  /\ Last(lines) \in Lines
         /\ \E k \in {1, 2} : Statement = Statements(Last(lines))[k]
         /\ (todo' = Tail(todo) /\ UNCHANGED lines) => TodoOk'
<1> DEFINE line == Last(lines)
<1>1. lines \in Seq(Lines) /\ lines # <<>>
  BY DEF TodoOk
<1>2. line \in Lines
  <2>1. Len(lines) \in Nat \ {0} /\ Len(lines) \in 1..Len(lines)
    BY <1>1
  <2> QED
    BY <1>1, <2>1 DEF Last
<1>3. PICK s, t : Statements(line) = <<s, t>>
  <2>1. PICK exact : ~ exact
    OBVIOUS
  <2> HIDE DEF line
  <2> QED
    BY <1>2, <2>1, StatementsOk
<1>4. todo = <<s, t>> \/ todo = <<t>>
  BY <1>3 DEF TodoOk
<1>5. \E k \in {1, 2} : Statement = Statements(line)[k]
  BY <1>3, <1>4 DEF Statement
<1>6. ASSUME todo' = Tail(todo), UNCHANGED lines PROVE TodoOk'
  <2>1. todo' = <<t>> \/ todo' = <<>>
    <3>1. Tail(<<s, t>>) = <<t>> /\ Tail(<<t>>) = <<>>
      OBVIOUS
    <3> QED
      BY <1>4, <1>6, <3>1
  <2>2. Last(lines)' = line /\ Statements(line)[2] = t
    BY <1>3, <1>6
  <2>3. (Statements(Last(lines))[2])' = t
    BY <2>2
  <2> QED
    BY <1>1, <1>6, <2>1, <2>3 DEF TodoOk
<1> QED
  BY <1>2, <1>5, <1>6

LEMMA StatementIsOk ==
  ASSUME TodoOk, StatesOk, todo # <<>>, NEW exact, exact => Last(lines).op \in ExactOps
  PROVE  StatementOk(Statement, DOMAIN emitted.regs, exact)
<1>1. PICK line \in Lines : line = Last(lines)
  BY TodoAdvances
<1>2. PICK k \in {1, 2} : Statement = Statements(line)[k]
  BY <1>1, TodoAdvances
<1>3. StatementOk(Statement, {line.rd, "pc"}, exact)
  BY <1>1, <1>2, StatementsOk
<1>4. line.rd \in DOMAIN emitted.regs /\ "pc" \in DOMAIN emitted.regs
  BY PassesAssumption DEF StatesOk
<1> QED
  BY <1>3, <1>4 DEF StatementOk

IsUpdated(new, state, reg, v) ==
  /\ IsState(new) /\ new.mem = state.mem /\ new.vars = state.vars
  /\ DOMAIN new.regs = DOMAIN state.regs
  /\ new.regs = [state.regs EXCEPT ![reg] = v]
  /\ new.regs[reg] = v
  /\ \A r \in DOMAIN state.regs : r # reg => new.regs[r] = state.regs[r]
  /\ new.regs = [r \in DOMAIN new.regs |-> new.regs[r]]

LEMMA RegsUpdated ==
  ASSUME NEW state, IsState(state), NEW reg, NEW v, NEW new,
         new = [state EXCEPT !.regs[reg] = v],
         state.regs = [r \in DOMAIN state.regs |-> state.regs[r]],
         reg \in DOMAIN state.regs
  PROVE  IsUpdated(new, state, reg, v)
<1> DEFINE regs == [state.regs EXCEPT ![reg] = v]
<1>1. new = [regs |-> regs, mem |-> state.mem, vars |-> state.vars]
  BY DEF IsState
<1> HIDE DEF regs
<1>2. new.regs = regs /\ new.mem = state.mem /\ new.vars = state.vars
  BY <1>1
<1>3. /\ DOMAIN regs = DOMAIN state.regs /\ regs[reg] = v
      /\ \A r \in DOMAIN state.regs : r # reg => regs[r] = state.regs[r]
      /\ regs = [r \in DOMAIN regs |-> regs[r]]
  BY DEF regs
<1> QED
  BY <1>1, <1>2, <1>3 DEF IsState, IsUpdated, regs

IsInserted(new, map, key, value) ==
  /\ DOMAIN new = DOMAIN map \cup {key}
  /\ new[key] = value
  /\ \A k \in DOMAIN map : k # key => new[k] = map[k]

LEMMA Inserted ==
  ASSUME NEW map, NEW key, NEW value, NEW new, new = Insert(map, key, value)
  PROVE  IsInserted(new, map, key, value)
BY DEF Insert, IsInserted

LEMMA BlockStarts == Init => BlockInv
<1> SUFFICES ASSUME Init PROVE BlockInv
  OBVIOUS
<1>1. TodoOk
  BY DEF Init, TodoOk
<1>2. PICK regs \in InitRegs :
        built = [regs |-> Insert(regs, "pc", 0), mem |-> <<>>, vars |-> <<>>]
  BY DEF Init
<1>3. emitted = built /\ ctx = <<>>
  BY DEF Init
<1>4. /\ DOMAIN Insert(regs, "pc", 0) = DOMAIN regs \cup {"pc"}
      /\ Insert(regs, "pc", 0) = [r \in DOMAIN Insert(regs, "pc", 0) |-> Insert(regs, "pc", 0)[r]]
  BY DEF Insert
<1>5. StatesOk
  BY <1>2, <1>3, <1>4 DEF StatesOk, IsState
<1>6. MapOk
  BY <1>3 DEF MapOk, Known, MapIsCurrent
<1> QED
  BY <1>1, <1>5, <1>6 DEF BlockInv

LEMMA LineTaken ==
  ASSUME BlockInv, TakeLine
  PROVE  BlockInv'
<1> USE DEF BlockInv
<1>1. PICK line \in Lines : lines' = Append(lines, line) /\ todo' = Statements(line)
  BY DEF TakeLine
<1>2. UNCHANGED <<built, emitted, ctx>>
  BY DEF TakeLine
<1>3. lines \in Seq(Lines)
  BY DEF TodoOk
<1>4. lines' \in Seq(Lines) /\ lines' # <<>> /\ Last(lines') = line
  BY <1>1, <1>3 DEF Last
<1>5. TodoOk'
  <2>1. Statements(Last(lines))' = Statements(line)
    BY <1>4
  <2> QED
    BY <1>1, <1>4, <2>1 DEF TodoOk
<1>6. StatesOk' /\ MapOk'
  BY <1>2 DEF StatesOk, MapOk, MapIsCurrent
<1> QED
  BY <1>5, <1>6

LEMMA AssignRewritten ==
  ASSUME BlockInv, RewriteAssign
  PROVE  BlockInv'
<1> USE DEF BlockInv
<1>1. todo # <<>> /\ Statement.kind = "assign" /\ todo' = Tail(todo) /\ UNCHANGED lines
  BY DEF RewriteAssign
<1>2. TodoOk'
  BY <1>1, TodoAdvances
<1>3. PICK reg, rhs, e, v, w :
        /\ reg = Statement.lhs /\ rhs = Statement.rhs /\ e = Constified(rhs, ctx)
        /\ v = Value(Folded(e), emitted, TRUE) /\ w = Value(rhs, built, FALSE)
  OBVIOUS
<1>4. PICK exact : ~ exact
  OBVIOUS
<1>5. reg \in DOMAIN emitted.regs /\ Expression(rhs, XLen, exact)
  BY <1>1, <1>3, <1>4, StatementIsOk DEF StatementOk
<1>6. Expression(e, XLen, exact)
  BY <1>3, <1>5, ConstifiedTyped DEF Expression, MapOk
<1>7. /\ emitted' = [emitted EXCEPT !.regs[reg] = v]
      /\ built' = [built EXCEPT !.regs[reg] = w]
      /\ ctx' = Propagated(reg, Last(Folded(e)))
  BY <1>3 DEF RewriteAssign, TryMakeConstant
<1>8. /\ IsState(emitted') /\ DOMAIN emitted'.regs = DOMAIN emitted.regs
      /\ emitted'.regs[reg] = v
      /\ \A r \in DOMAIN emitted.regs : r # reg => emitted'.regs[r] = emitted.regs[r]
      /\ emitted'.regs = [r \in DOMAIN emitted'.regs |-> emitted'.regs[r]]
  <2>1. IsState(emitted) /\ emitted.regs = [r \in DOMAIN emitted.regs |-> emitted.regs[r]]
    BY DEF StatesOk
  <2>2. IsUpdated(emitted', emitted, reg, v)
    BY <1>5, <1>7, <2>1, RegsUpdated, Zenon
  <2> QED
    BY <2>2 DEF IsUpdated
<1>9. /\ IsState(built') /\ DOMAIN built'.regs = DOMAIN built.regs
      /\ built'.regs = [r \in DOMAIN built'.regs |-> built'.regs[r]]
  <2>1. IsState(built) /\ built.regs = [r \in DOMAIN built.regs |-> built.regs[r]]
        /\ reg \in DOMAIN built.regs
    BY <1>5 DEF StatesOk
  <2>2. IsUpdated(built', built, reg, w)
    BY <1>7, <2>1, RegsUpdated, Zenon
  <2> QED
    BY <2>2 DEF IsUpdated
<1>10. StatesOk'
  BY <1>8, <1>9 DEF StatesOk
<1>11. MapOk'
  <2>1. /\ DOMAIN ctx \subseteq DOMAIN emitted.regs
        /\ \A r \in DOMAIN ctx : ctx[r] \in BitVector(XLen) /\ emitted.regs[r] = ctx[r]
    BY DEF MapOk, Known, MapIsCurrent
  <2>2. CASE IsLit(Last(Folded(e)))
    <3>1. PICK c \in BitVector(XLen) : c = Last(Folded(e)).val /\ c = v
      <4>1. PICK abstract : abstract = TRUE
        OBVIOUS
      <4>2. /\ Last(Folded(e)).val \in BitVector(XLen)
            /\ Value(Folded(e), emitted, abstract) = Last(Folded(e)).val
        BY <1>6, <2>2, RootIsValue
      <4> QED
        BY <1>3, <4>1, <4>2
    <3>2. ctx' = Insert(ctx, reg, c)
      BY <1>7, <2>2, <3>1 DEF Propagated
    <3>3. /\ DOMAIN ctx' = DOMAIN ctx \cup {reg} /\ ctx'[reg] = c
          /\ \A k \in DOMAIN ctx : k # reg => ctx'[k] = ctx[k]
      <4>1. IsInserted(ctx', ctx, reg, c)
        BY <3>2, Inserted, Zenon
      <4> QED
        BY <4>1 DEF IsInserted
    <3>4. \A r \in DOMAIN ctx' : ctx'[r] \in BitVector(XLen) /\ emitted'.regs[r] = ctx'[r]
      BY <1>8, <2>1, <3>1, <3>3
    <3> QED
      BY <1>5, <1>8, <2>1, <3>3, <3>4 DEF MapOk, Known, MapIsCurrent
  <2>3. CASE ~ IsLit(Last(Folded(e)))
    <3>1. ctx' = [n \in DOMAIN ctx \ {reg} |-> ctx[n]]
      BY <1>7, <2>3 DEF Propagated, Without
    <3>2. DOMAIN ctx' = DOMAIN ctx \ {reg} /\ \A k \in DOMAIN ctx' : ctx'[k] = ctx[k]
      BY <3>1
    <3>3. \A r \in DOMAIN ctx' : ctx'[r] \in BitVector(XLen) /\ emitted'.regs[r] = ctx'[r]
      BY <1>8, <2>1, <3>2
    <3> QED
      BY <1>8, <2>1, <3>2, <3>3 DEF MapOk, Known, MapIsCurrent
  <2> QED
    BY <2>2, <2>3
<1> QED
  BY <1>2, <1>10, <1>11

LEMMA StoreRewritten ==
  ASSUME BlockInv, RewriteStore
  PROVE  BlockInv'
<1> USE DEF BlockInv
<1>1. todo # <<>> /\ todo' = Tail(todo) /\ UNCHANGED <<lines, ctx>>
  BY DEF RewriteStore
<1>2. TodoOk'
  BY <1>1, TodoAdvances
<1>3. IsState(emitted) /\ IsState(built)
  BY DEF StatesOk
<1>4. IsState(emitted') /\ emitted'.regs = emitted.regs
  <2>1. \E m : \/ emitted' = [emitted EXCEPT !.vars = m]
               \/ emitted' = [emitted EXCEPT !.mem = m]
    BY DEF RewriteStore
  <2> QED
    BY <1>3, <2>1 DEF IsState
<1>5. IsState(built') /\ built'.regs = built.regs
  <2>1. \E m : built' = [built EXCEPT !.mem = m]
    BY DEF RewriteStore
  <2> QED
    BY <1>3, <2>1 DEF IsState
<1>6. StatesOk' /\ MapOk'
  BY <1>1, <1>4, <1>5 DEF StatesOk, MapOk, MapIsCurrent
<1> QED
  BY <1>2, <1>6

LEMMA ConditionalVisited ==
  ASSUME BlockInv, VisitIfThenElse
  PROVE  BlockInv'
<1> USE DEF BlockInv
<1>1. /\ todo # <<>> /\ todo' = Tail(todo) /\ UNCHANGED lines
      /\ Statement.kind = "ite" /\ ctx' = <<>>
  BY DEF VisitIfThenElse
<1>2. TodoOk'
  BY <1>1, TodoAdvances
<1>3. PICK reg, v, w : /\ reg = Statement.lhs
                       /\ emitted' = [emitted EXCEPT !.regs[reg] = v]
                       /\ built' = [built EXCEPT !.regs[reg] = w]
  BY DEF VisitIfThenElse
<1>4. PICK exact : ~ exact
  OBVIOUS
<1>5. reg \in DOMAIN emitted.regs
  BY <1>1, <1>3, <1>4, StatementIsOk DEF StatementOk
<1>6. /\ IsState(emitted') /\ DOMAIN emitted'.regs = DOMAIN emitted.regs
      /\ emitted'.regs = [r \in DOMAIN emitted'.regs |-> emitted'.regs[r]]
  <2>1. IsState(emitted) /\ emitted.regs = [r \in DOMAIN emitted.regs |-> emitted.regs[r]]
    BY DEF StatesOk
  <2>2. IsUpdated(emitted', emitted, reg, v)
    BY <1>3, <1>5, <2>1, RegsUpdated, Zenon
  <2> QED
    BY <2>2 DEF IsUpdated
<1>7. /\ IsState(built') /\ DOMAIN built'.regs = DOMAIN built.regs
      /\ built'.regs = [r \in DOMAIN built'.regs |-> built'.regs[r]]
  <2>1. IsState(built) /\ built.regs = [r \in DOMAIN built.regs |-> built.regs[r]]
        /\ reg \in DOMAIN built.regs
    BY <1>5 DEF StatesOk
  <2>2. IsUpdated(built', built, reg, w)
    BY <1>3, <2>1, RegsUpdated, Zenon
  <2> QED
    BY <2>2 DEF IsUpdated
<1>8. StatesOk'
  BY <1>6, <1>7 DEF StatesOk
<1>9. MapOk'
  BY <1>1 DEF MapOk, Known, MapIsCurrent
<1> QED
  BY <1>2, <1>8, <1>9

LEMMA BlockInvStutters ==
  ASSUME BlockInv, UNCHANGED <<todo, built, emitted, ctx, lines>>
  PROVE  BlockInv'
BY DEF BlockInv, TodoOk, StatesOk, MapOk, MapIsCurrent

LEMMA BlockInvStep == BlockInv /\ [Next]_vars => BlockInv'
<1> SUFFICES ASSUME BlockInv, [Next]_vars PROVE BlockInv'
  OBVIOUS
<1>1. CASE TakeLine
  BY <1>1, LineTaken
<1>2. CASE RewriteAssign
  BY <1>2, AssignRewritten
<1>3. CASE RewriteStore
  BY <1>3, StoreRewritten
<1>4. CASE VisitIfThenElse
  BY <1>4, ConditionalVisited
<1>5. CASE Panic
  BY <1>5, BlockInvStutters DEF Panic
<1>6. CASE UNCHANGED vars
  BY <1>6, BlockInvStutters DEF vars
<1> QED
  BY <1>1, <1>2, <1>3, <1>4, <1>5, <1>6 DEF Next, Stopped

(* The map of the constants is never stale, whatever the instructions of   *)
(* the block, its registers and its memory (ConstantPropagator).           *)
THEOREM PropagatedIsCurrent == Spec => []MapIsCurrent
<1>1. BlockInv => MapIsCurrent
  BY DEF BlockInv, MapOk
<1> QED
  BY <1>1, BlockStarts, BlockInvStep, PTL DEF Spec

-----------------------------------------------------------------------------
(* An expression that is folded exactly.  F are the values of what the     *)
(* folder leaves of c, which is e with its constants, in the state se; and *)
(* B are the values of e in the state sb.                                  *)
IsConstified(c, e, map, i) ==
  c[i] = IF e[i].kind = "var" /\ e[i].name \in DOMAIN map THEN Literal(map[e[i].name], XLen)
                                                           ELSE e[i]

ReadsAgree(f, F, se, sb, i) ==
  f[i].kind = "index" =>
    Loaded(se, IsLit(f[i - 1]), f[i].mem, F[i - 1].val) = Content(sb, f[i].mem, F[i - 1].val)

NodeSetting(e, ws, c, f, map, se, sb, F, B, i) ==
  /\ NodeOk(e, ws, i) /\ NodeExact(e, ws, i) /\ NodeOk(c, ws, i)
  /\ IsConstified(c, e, map, i)
  /\ FoldedAt(c, ws, f, i)
  /\ f[i] = NodeFolded(c, f, i)
  /\ F[i] = NodeValue(f, se, TRUE, F, i)
  /\ B[i] = NodeValue(e, sb, FALSE, B, i)
  /\ ReadsAgree(f, F, se, sb, i)

Setting(e, ws, c, f, map, se, sb, F, B) ==
  /\ Known(map) /\ \A r \in DOMAIN map : se.regs[r] = map[r]
  /\ se.regs = sb.regs
  /\ Len(e) \in Nat /\ ws \in [1..Len(e) -> Nat]
  /\ \A i \in 1..Len(e) : NodeSetting(e, ws, c, f, map, se, sb, F, B, i)

NodeAgrees(ws, F, B, i) == F[i] = B[i] /\ B[i].w = ws[i]

LEMMA VectorMod ==
  ASSUME NEW w \in Nat, NEW v \in BitVector(w)
  PROVE  v % 2^w = v
<1>1. 2^w \in Nat \ {0} /\ v \in 0..2^w - 1
  BY PowerPos DEF BitVector
<1> QED
  BY <1>1

(* A literal of the folder, of the width of a register.                    *)
IsValue(v) == v = [val |-> v.val, w |-> v.w]

LiteralHas(f, F, w, i) ==
  /\ IsValue(F[i]) /\ F[i].val = f[i].val % 2^w /\ F[i].w = w
  /\ w = XLen => F[i].val = f[i].val

LEMMA LiteralValue ==
  ASSUME NEW f, NEW F, NEW se, NEW w, NEW i, IsLiteral(f[i], w), NEW abstract,
         F[i] = NodeValue(f, se, abstract, F, i)
  PROVE  LiteralHas(f, F, w, i)
<1>1. f[i].kind = "lit" /\ f[i].w = w /\ f[i].val \in BitVector(XLen)
  BY DEF IsLiteral
<1>2. F[i] = [val |-> f[i].val % 2^w, w |-> w]
  BY <1>1, Zenon DEF NodeValue
<1>3. ASSUME w = XLen PROVE F[i].val = f[i].val
  <2>1. XLen \in Nat
    BY Sizes
  <2>2. f[i].val % 2^XLen = f[i].val
    BY <1>1, <2>1, VectorMod
  <2> QED
    BY <1>2, <1>3, <2>2
<1>4. IsValue(F[i]) /\ F[i].val = f[i].val % 2^w /\ F[i].w = w
  BY <1>2 DEF IsValue
<1> QED
  BY <1>3, <1>4 DEF LiteralHas

LEMMA OperandAgrees ==
  ASSUME NEW e, NEW ws, NEW c, NEW f, NEW map, NEW se, NEW sb, NEW F, NEW B,
         Setting(e, ws, c, f, map, se, sb, F, B), NEW i \in 1..Len(e), e[i].kind # "app"
  PROVE  (\A j \in 1..i - 1 : NodeAgrees(ws, F, B, j)) => NodeAgrees(ws, F, B, i)
<1> SUFFICES ASSUME \A j \in 1..i - 1 : NodeAgrees(ws, F, B, j)
             PROVE  NodeAgrees(ws, F, B, i)
  OBVIOUS
<1>1. NodeSetting(e, ws, c, f, map, se, sb, F, B, i) /\ Len(e) \in Nat
  BY DEF Setting
<1>2. IsConstified(c, e, map, i) /\ FoldedAt(c, ws, f, i) /\ NodeOk(e, ws, i) /\ NodeOk(c, ws, i)
  BY <1>1 DEF NodeSetting
<1>3. F[i] = NodeValue(f, se, TRUE, F, i) /\ B[i] = NodeValue(e, sb, FALSE, B, i)
  BY <1>1, Zenon DEF NodeSetting
<1>4. f[i] = c[i]
  BY <1>2 DEF IsConstified, FoldedAt, Literal
<1>5. CASE e[i].kind = "lit"
  <2>1. f[i] = e[i]
    BY <1>2, <1>4, <1>5 DEF IsConstified
  <2>2. F[i] = [val |-> e[i].val % 2^e[i].w, w |-> e[i].w] /\ B[i] = F[i]
    BY <1>3, <1>5, <2>1, Zenon DEF NodeValue
  <2>3. ws[i] = e[i].w
    BY <1>2, <1>5 DEF NodeOk
  <2> QED
    BY <2>2, <2>3 DEF NodeAgrees
<1>6. CASE e[i].kind = "var"
  <2>1. B[i] = [val |-> sb.regs[e[i].name], w |-> XLen] /\ ws[i] = XLen
    BY <1>2, <1>3, <1>6 DEF NodeValue, NodeOk
  <2>2. CASE e[i].name \in DOMAIN map
    <3>1. f[i] = Literal(map[e[i].name], XLen) /\ map[e[i].name] \in BitVector(XLen)
      BY <1>2, <1>4, <1>6, <2>2 DEF IsConstified, Setting, Known
    <3>2. IsLiteral(f[i], XLen) /\ f[i].val = map[e[i].name]
      BY <3>1 DEF IsLiteral, Literal
    <3>3. PICK abstract : F[i] = NodeValue(f, se, abstract, F, i)
      BY <1>3
    <3>4. IsValue(F[i]) /\ F[i].w = XLen /\ F[i].val = f[i].val
      <4>1. LiteralHas(f, F, XLen, i)
        BY <3>2, <3>3, LiteralValue, Zenon
      <4> QED
        BY <4>1 DEF LiteralHas
    <3>5. F[i] = [val |-> map[e[i].name], w |-> XLen]
      BY <3>2, <3>4 DEF IsValue
    <3>6. map[e[i].name] = sb.regs[e[i].name]
      BY <2>2 DEF Setting
    <3> QED
      BY <2>1, <3>5, <3>6 DEF NodeAgrees
  <2>3. CASE e[i].name \notin DOMAIN map
    <3>1. f[i] = e[i]
      BY <1>2, <1>4, <2>3 DEF IsConstified
    <3>2. F[i] = [val |-> se.regs[e[i].name], w |-> XLen] /\ se.regs = sb.regs
      BY <1>3, <1>6, <3>1 DEF NodeValue, Setting
    <3> QED
      BY <2>1, <3>2 DEF NodeAgrees
  <2> QED
    BY <2>2, <2>3
<1>7. CASE e[i].kind = "index"
  <2>1. f[i] = e[i]
    BY <1>2, <1>4, <1>7 DEF IsConstified
  <2>2. i - 1 \in 1..i - 1 /\ ws[i] = Width(e[i].mem)
    BY <1>1, <1>2, <1>7 DEF NodeOk
  <2>3. F[i - 1] = B[i - 1]
    BY <2>2 DEF NodeAgrees
  <2>4. F[i] = [val |-> Loaded(se, TRUE /\ IsLit(f[i - 1]), e[i].mem, F[i - 1].val),
                w   |-> Width(e[i].mem)]
    BY <1>3, <1>7, <2>1 DEF NodeValue
  <2>5. B[i] = [val |-> Content(sb, e[i].mem, B[i - 1].val), w |-> Width(e[i].mem)]
    BY <1>3, <1>7 DEF NodeValue, Loaded
  <2>6. Loaded(se, IsLit(f[i - 1]), e[i].mem, F[i - 1].val) = Content(sb, e[i].mem, F[i - 1].val)
    BY <1>1, <1>7, <2>1 DEF NodeSetting, ReadsAgree
  <2>7. F[i].val = B[i].val
    <3>1. Loaded(se, TRUE /\ IsLit(f[i - 1]), e[i].mem, F[i - 1].val)
            = Loaded(se, IsLit(f[i - 1]), e[i].mem, F[i - 1].val)
      BY DEF Loaded
    <3> QED
      BY <2>3, <2>4, <2>5, <2>6, <3>1
  <2> QED
    BY <2>2, <2>4, <2>5, <2>7 DEF NodeAgrees
<1> QED
  BY <1>2, <1>5, <1>6, <1>7 DEF NodeOk, Kinds

LEMMA Agreeing ==
  ASSUME NEW ws, NEW F, NEW B, NEW i, IsValue(F[i]), IsValue(B[i]),
         F[i].val = B[i].val, F[i].w = ws[i], B[i].w = ws[i]
  PROVE  NodeAgrees(ws, F, B, i)
BY DEF NodeAgrees, IsValue

IsApplied(b, n, x, y) ==
  /\ n.op \in {"add", "and", "shl", "sext", "slice"} => IsValue(b)
  /\ n.op \in {"add", "and", "shl"} => b.w = x.w
  /\ n.op = "add" => b.val = Add(x.w, x.val, y.val)
  /\ n.op = "and" => b.val = And(x.w, x.val, y.val)
  /\ n.op = "shl" => b.val = LeftShift(x.w, x.val, y.val)
  /\ n.op = "sext" => b.w = x.w + y.val
  /\ n.op = "slice" => b.val = Slice(x.w, n.l, n.r, x.val) /\ b.w = n.l - n.r + 1

LEMMA Applied ==
  ASSUME NEW b, NEW n, NEW x, NEW y, b = Apply(n, x, y)
  PROVE  IsApplied(b, n, x, y)
<1>1. \A v, w : b = [val |-> v, w |-> w] => IsValue(b) /\ b.val = v /\ b.w = w
  BY DEF IsValue
<1>2. n.op = "add" => b = [val |-> Add(x.w, x.val, y.val), w |-> x.w]
  BY DEF Apply
<1>3. n.op = "and" => b = [val |-> And(x.w, x.val, y.val), w |-> x.w]
  BY DEF Apply
<1>4. n.op = "shl" => b = [val |-> LeftShift(x.w, x.val, y.val), w |-> x.w]
  BY DEF Apply
<1>5. n.op = "sext" => b = [val |-> SignExt(x.w, y.val, x.val), w |-> x.w + y.val]
  BY DEF Apply
<1>6. n.op = "slice" => b = [val |-> Slice(x.w, n.l, n.r, x.val), w |-> n.l - n.r + 1]
  BY DEF Apply
<1>7. n.op = "add" => IsValue(b) /\ b.val = Add(x.w, x.val, y.val) /\ b.w = x.w
  BY <1>1, <1>2, Zenon
<1>8. n.op = "and" => IsValue(b) /\ b.val = And(x.w, x.val, y.val) /\ b.w = x.w
  BY <1>1, <1>3, Zenon
<1>9. n.op = "shl" => IsValue(b) /\ b.val = LeftShift(x.w, x.val, y.val) /\ b.w = x.w
  BY <1>1, <1>4, Zenon
<1>10. n.op = "sext" => IsValue(b) /\ b.w = x.w + y.val
  BY <1>1, <1>5, Zenon
<1>11. n.op = "slice" =>
         IsValue(b) /\ b.val = Slice(x.w, n.l, n.r, x.val) /\ b.w = n.l - n.r + 1
  BY <1>1, <1>6, Zenon
<1> QED
  BY <1>7, <1>8, <1>9, <1>10, <1>11 DEF IsApplied

(* An operator that stays.                                                 *)
LEMMA KeptAgrees ==
  ASSUME NEW e, NEW ws, NEW f, NEW se, NEW sb, NEW F, NEW B, NEW i \in Nat,
         NodeOk(e, ws, i), NodeExact(e, ws, i), e[i].kind = "app", f[i] = e[i],
         F[i] = NodeValue(f, se, TRUE, F, i), B[i] = NodeValue(e, sb, FALSE, B, i),
         \A j \in 1..i - 1 : NodeAgrees(ws, F, B, j),
         e[i - 1].kind = "lit" =>
           e[i - 1].w \in Nat /\ B[i - 1] = NodeValue(e, sb, FALSE, B, i - 1)
  PROVE  NodeAgrees(ws, F, B, i)
<1>1. PICK x, y : x = i - e[i].left /\ y = i - 1
  OBVIOUS
<1>2. x \in 1..i - 1 /\ y \in 1..i - 1
  BY <1>1 DEF NodeOk
<1>3. F[x] = B[x] /\ F[y] = B[y] /\ B[x].w = ws[x]
  BY <1>2 DEF NodeAgrees
<1>4. F[i] = Apply(e[i], F[x], F[y]) /\ B[i] = Apply(e[i], B[x], B[y])
  BY <1>1, Zenon DEF NodeValue
<1>5. F[i] = B[i]
  BY <1>3, <1>4
<1>6. CASE e[i].op \in {"add", "and", "shl"}
  <2>1. ws[i] = ws[x]
    BY <1>1, <1>6 DEF NodeOk
  <2>2. B[i].w = B[x].w
    <3>1. IsApplied(B[i], e[i], B[x], B[y])
      BY <1>4, Applied, Zenon
    <3> QED
      BY <1>6, <3>1 DEF IsApplied
  <2> QED
    BY <1>3, <1>5, <2>1, <2>2 DEF NodeAgrees
<1>7. CASE e[i].op = "sext"
  <2>1. e[y].kind = "lit" /\ ws[i] = ws[x] + e[y].val
    BY <1>1, <1>7 DEF NodeOk
  <2>2. B[y].val = e[y].val % 2^e[y].w
    BY <1>1, <2>1 DEF NodeValue
  <2>3. B[y].val = e[y].val
    <3>1. e[y].val \in BitVector(e[y].w) /\ e[y].w \in Nat
      BY <1>1, <1>7, <2>1 DEF NodeOk
    <3> QED
      BY <2>2, <3>1, VectorMod
  <2>4. B[i].w = B[x].w + B[y].val
    <3>1. IsApplied(B[i], e[i], B[x], B[y])
      BY <1>4, Applied, Zenon
    <3> QED
      BY <1>7, <3>1 DEF IsApplied
  <2> QED
    BY <1>3, <1>5, <2>1, <2>3, <2>4 DEF NodeAgrees
<1>8. CASE e[i].op = "slice"
  <2>1. ws[i] = (e[i].l - e[i].r) + 1
    BY <1>8 DEF NodeOk
  <2>2. B[i].w = e[i].l - e[i].r + 1
    <3>1. IsApplied(B[i], e[i], B[x], B[y])
      BY <1>4, Applied, Zenon
    <3> QED
      BY <1>8, <3>1 DEF IsApplied
  <2> QED
    BY <1>5, <2>1, <2>2 DEF NodeAgrees
<1> QED
  BY <1>6, <1>7, <1>8 DEF NodeExact

(* The low word of a number, as the folder takes it.                       *)
LEMMA FoldedSlice ==
  ASSUME NEW v
  PROVE  /\ Slice(XLen, Word - 1, 0, v) = Number(Bits(XLen, v) \cap Mask(Word - 1, 0))
         /\ Slice(XLen, Word - 1, 0, v) \in BitVector(Word)
<1> DEFINE B == Bits(XLen, v)
<1>1. Word \in Nat /\ XLen = Word + Word /\ Word >= 4
  BY Sizes
<1>2. B \subseteq 0..XLen - 1
  BY <1>1, BitsBelow
<1> HIDE DEF B
<1>3. Mask(Word - 1, 0) = 0..Word - 1
  BY <1>1 DEF Mask
<1>4. {i - 0 : i \in B \cap (0..Word - 1)} = B \cap (0..Word - 1)
  OBVIOUS
<1>5. Slice(XLen, Word - 1, 0, v) = Number(B \cap (0..Word - 1))
  BY <1>4, Zenon DEF Slice, B
<1>6. Number(B \cap (0..Word - 1)) \in BitVector(Word)
  <2>1. B \cap (0..Word - 1) \subseteq 0..Word - 1
    OBVIOUS
  <2> QED
    BY <1>1, <2>1, NumberBelow
<1> QED
  BY <1>3, <1>5, <1>6 DEF B

(* An operator that is folded.                                             *)
LEMMA FoldedAgrees ==
  ASSUME NEW e, NEW ws, NEW c, NEW f, NEW se, NEW sb, NEW F, NEW B, NEW i \in Nat,
         NodeOk(e, ws, i), NodeExact(e, ws, i), e[i].kind = "app",
         NEW x, NEW y, x = i - e[i].left, y = i - 1,
         f[i] = FoldedLit(e[i], f[x], f[y]), e[x].kind # "index",
         LiteralHas(f, F, ws[i], i), LiteralHas(f, F, ws[x], x), LiteralHas(f, F, ws[y], y),
         B[i] = NodeValue(e, sb, FALSE, B, i), f[i].val \in BitVector(XLen),
         NodeAgrees(ws, F, B, x), NodeAgrees(ws, F, B, y)
  PROVE  NodeAgrees(ws, F, B, i)
<1>1. B[i] = Apply(e[i], B[x], B[y])
  BY Zenon DEF NodeValue
<1>2. F[x] = B[x] /\ F[y] = B[y] /\ B[x].w = ws[x] /\ B[y].w = ws[y]
  BY DEF NodeAgrees
<1>3. IsValue(F[i]) /\ F[i].w = ws[i] /\ F[i].val = f[i].val % 2^ws[i]
  BY DEF LiteralHas
<1>4. IsApplied(B[i], e[i], B[x], B[y])
  BY <1>1, Applied, Zenon
<1>5. CASE e[i].op \in {"add", "and", "shl"}
  <2>1. ws[x] = XLen /\ ws[y] = XLen /\ ws[i] = XLen
    BY <1>5 DEF NodeExact, NodeOk
  <2>2. B[x].val = f[x].val /\ B[y].val = f[y].val /\ B[x].w = XLen
    BY <1>2, <2>1 DEF LiteralHas
  <2>3. F[i].val = f[i].val
    BY <2>1 DEF LiteralHas
  <2>4. IsValue(B[i]) /\ B[i].w = ws[i]
    BY <1>4, <1>5, <2>1, <2>2 DEF IsApplied
  <2>5. f[i].val = B[i].val
    <3>1. CASE e[i].op = "add"
      <4>1. f[i].val = Add(XLen, f[x].val, f[y].val)
        BY <3>1 DEF FoldedLit, Literal, Wrap, Add
      <4>2. B[i].val = Add(B[x].w, B[x].val, B[y].val)
        BY <1>4, <3>1 DEF IsApplied
      <4> QED
        BY <2>2, <4>1, <4>2
    <3>2. CASE e[i].op = "and"
      <4>1. f[i].val = And(XLen, f[x].val, f[y].val)
        BY <3>2 DEF FoldedLit, Literal
      <4>2. B[i].val = And(B[x].w, B[x].val, B[y].val)
        BY <1>4, <3>2 DEF IsApplied
      <4> QED
        BY <2>2, <4>1, <4>2
    <3>3. CASE e[i].op = "shl"
      <4>1. f[i].val = LeftShift(XLen, f[x].val, f[y].val)
        BY <3>3 DEF FoldedLit, Literal
      <4>2. B[i].val = LeftShift(B[x].w, B[x].val, B[y].val)
        BY <1>4, <3>3 DEF IsApplied
      <4> QED
        BY <2>2, <4>1, <4>2
    <3> QED
      BY <1>5, <3>1, <3>2, <3>3
  <2>6. F[i].val = B[i].val
    BY <2>3, <2>5
  <2> QED
    BY <1>3, <2>4, <2>6, Agreeing
<1>6. CASE e[i].op = "slice"
  <2>1. x = y /\ e[i].l = Word - 1 /\ e[i].r = 0 /\ ws[y] = XLen
    BY <1>6 DEF NodeExact
  <2>2. ws[i] = Word
    BY <1>6, <2>1, Sizes DEF NodeOk
  <2>3. B[x].val = f[x].val /\ B[x].w = XLen
    BY <1>2, <2>1 DEF LiteralHas
  <2> DEFINE v == f[x].val
             s == Slice(XLen, Word - 1, 0, v)
  <2>4. IsValue(B[i]) /\ B[i].w = Word - 1 - 0 + 1 /\ B[i].val = s
    BY <1>4, <1>6, <2>1, <2>3 DEF IsApplied
  <2>5. B[i].w = ws[i]
    <3>1. Word - 1 - 0 + 1 = Word
      BY Sizes
    <3> HIDE DEF s
    <3> QED
      BY <2>2, <2>4, <3>1
  <2>6. f[i].val = Number(Bits(XLen, v) \cap Mask(Word - 1, 0))
    BY <1>6, <2>1 DEF FoldedLit, Literal
  <2> HIDE DEF s, v
  <2>7. f[i].val = s /\ s \in BitVector(Word)
    BY <2>6, FoldedSlice DEF s
  <2>8. f[i].val % 2^Word = s
    BY <2>7, VectorMod, Sizes
  <2>9. F[i].val = B[i].val
    BY <1>3, <2>2, <2>4, <2>8
  <2> QED
    BY <1>3, <2>4, <2>5, <2>9, Agreeing
<1>7. CASE e[i].op = "sext"
  BY <1>7 DEF NodeExact
<1> QED
  BY <1>5, <1>6, <1>7 DEF NodeExact

LEMMA OperatorAgrees ==
  ASSUME NEW e, NEW ws, NEW c, NEW f, NEW map, NEW se, NEW sb, NEW F, NEW B,
         Setting(e, ws, c, f, map, se, sb, F, B), NEW i \in 1..Len(e), e[i].kind = "app"
  PROVE  (\A j \in 1..i - 1 : NodeAgrees(ws, F, B, j)) => NodeAgrees(ws, F, B, i)
<1> SUFFICES ASSUME \A j \in 1..i - 1 : NodeAgrees(ws, F, B, j)
             PROVE  NodeAgrees(ws, F, B, i)
  OBVIOUS
<1>1. \A j \in 1..Len(e) : NodeSetting(e, ws, c, f, map, se, sb, F, B, j)
  BY DEF Setting
<1>2. /\ IsConstified(c, e, map, i) /\ f[i] = NodeFolded(c, f, i)
      /\ NodeOk(e, ws, i) /\ NodeExact(e, ws, i) /\ FoldedAt(c, ws, f, i)
  BY <1>1 DEF NodeSetting
<1>3. F[i] = NodeValue(f, se, TRUE, F, i) /\ B[i] = NodeValue(e, sb, FALSE, B, i)
  BY <1>1, Zenon DEF NodeSetting
<1>4. c[i] = e[i] /\ e[i].left \in 1..i - 1
  BY <1>2 DEF IsConstified, NodeOk
<1>5. PICK x, y : x = i - e[i].left /\ y = i - 1
  OBVIOUS
<1>6. /\ x \in 1..i - 1 /\ y \in 1..i - 1 /\ x \in 1..Len(e) /\ y \in 1..Len(e)
      /\ i \in Nat
  BY <1>4, <1>5 DEF Setting
<1>7. CASE IsLit(f[x]) /\ IsLit(f[y])
  <2>1. f[i] = FoldedLit(e[i], f[x], f[y])
    BY <1>2, <1>4, <1>5, <1>7 DEF NodeFolded
  <2>2. /\ FoldedAt(c, ws, f, x) /\ NodeOk(c, ws, x) /\ IsConstified(c, e, map, x)
        /\ FoldedAt(c, ws, f, y) /\ NodeOk(c, ws, y)
    BY <1>1, <1>6 DEF NodeSetting
  <2>3. f[x].kind = "lit" /\ f[y].kind = "lit"
    BY <1>7 DEF IsLit
  <2>4. IsLiteral(f[x], ws[x]) /\ IsLiteral(f[y], ws[y])
    BY <2>2, <2>3, FoldedIsLiteral
  <2>5. e[x].kind # "index"
    BY <2>2, <2>3 DEF IsConstified, FoldedAt
  <2>6. e[i].op \in {"add", "and", "shl", "sext", "slice"} /\ e[i].op \in Operators
    BY <1>2 DEF NodeExact, Operators
  <2>7. IsLiteral(f[i], ws[i])
    <3>1. f[x].val \in BitVector(XLen) /\ f[y].val \in BitVector(XLen)
      BY <2>4 DEF IsLiteral
    <3>2. f[i].kind = "lit"
      BY <2>1, <2>6, <3>1, FoldedLitFits DEF Literal
    <3>3. f[i] = e[i] => f[i].kind # "lit"
      OBVIOUS
    <3> QED
      BY <1>2, <1>4, <3>2, <3>3 DEF FoldedAt
  <2>8. PICK abstract : abstract = TRUE
    OBVIOUS
  <2>9. \A j \in 1..Len(e) : F[j] = NodeValue(f, se, abstract, F, j)
    BY <1>1, <2>8 DEF NodeSetting
  <2>10. LiteralHas(f, F, ws[i], i)
    BY <2>7, <2>9, LiteralValue, Zenon
  <2>11. LiteralHas(f, F, ws[x], x)
    BY <1>6, <2>4, <2>9, LiteralValue, Zenon
  <2>12. LiteralHas(f, F, ws[y], y)
    BY <1>6, <2>4, <2>9, LiteralValue, Zenon
  <2>13. NodeAgrees(ws, F, B, x) /\ NodeAgrees(ws, F, B, y)
    BY <1>6
  <2>14. f[i].val \in BitVector(XLen)
    BY <2>7 DEF IsLiteral
  <2> QED
    BY <1>2, <1>3, <1>5, <1>6, <2>1, <2>5, <2>10, <2>11, <2>12, <2>13, <2>14, FoldedAgrees, Zenon
<1>8. CASE ~ (IsLit(f[x]) /\ IsLit(f[y]))
  <2>1. f[i] = e[i]
    BY <1>2, <1>4, <1>5, <1>8 DEF NodeFolded
  <2>2. e[i - 1].kind = "lit" => e[i - 1].w \in Nat /\ B[i - 1] = NodeValue(e, sb, FALSE, B, i - 1)
    <3>1. NodeOk(e, ws, y) /\ B[y] = NodeValue(e, sb, FALSE, B, y)
      BY <1>1, <1>6, Zenon DEF NodeSetting
    <3>2. ws[y] \in Nat
      BY <1>6 DEF Setting
    <3>3. e[y].kind = "lit" => e[y].w \in Nat
      BY <3>1, <3>2 DEF NodeOk
    <3> QED
      BY <1>5, <3>1, <3>3
  <2> QED
    BY <1>2, <1>3, <1>6, <2>1, <2>2, KeptAgrees, Zenon
<1> QED
  BY <1>7, <1>8

LEMMA AllAgree ==
  ASSUME NEW e, NEW ws, NEW c, NEW f, NEW map, NEW se, NEW sb, NEW F, NEW B,
         Setting(e, ws, c, f, map, se, sb, F, B), NEW i \in 1..Len(e)
  PROVE  F[i] = B[i]
<1> DEFINE Bad == {j \in 1..Len(e) : ~ NodeAgrees(ws, F, B, j)}
<1>1. SUFFICES ASSUME Bad # {} PROVE FALSE
  BY DEF NodeAgrees
<1>2. Len(e) \in Nat
  BY DEF Setting
<1>3. Bad \in SUBSET Nat
  BY <1>2
<1>4. PICK k \in Bad : \A j \in Bad : k <= j
  <2> HIDE DEF Bad
  <2> QED
    BY <1>1, <1>3, LeastNumber
<1>5. k \in 1..Len(e) /\ ~ NodeAgrees(ws, F, B, k)
  OBVIOUS
<1>6. \A j \in 1..k - 1 : j \in 1..Len(e) /\ ~ (k <= j)
  BY <1>2, <1>5
<1> HIDE DEF Bad
<1>7. \A j \in 1..k - 1 : j \notin Bad
  BY <1>4, <1>6
<1>8. \A j \in 1..k - 1 : NodeAgrees(ws, F, B, j)
  BY <1>6, <1>7 DEF Bad
<1>9. CASE e[k].kind = "app"
  BY <1>5, <1>8, <1>9, OperatorAgrees
<1>10. CASE e[k].kind # "app"
  BY <1>5, <1>8, <1>10, OperandAgrees
<1> QED
  BY <1>9, <1>10

MapHolds(map, state) == Known(map) /\ \A r \in DOMAIN map : state.regs[r] = map[r]

AllReadsAgree(f, F, se, sb) == \A i \in 1..Len(f) : ReadsAgree(f, F, se, sb, i)

Folding(e, map, se, sb, f) ==
  /\ \E w, exact : exact /\ Expression(e, w, exact)
  /\ MapHolds(map, se) /\ se.regs = sb.regs
  /\ f = Folded(Constified(e, map))
  /\ AllReadsAgree(f, Values(f, se, TRUE), se, sb)

SameValue(e, se, sb, f) == Value(f, se, TRUE) = Value(e, sb, FALSE)

LEMMA FoldIsExact ==
  ASSUME NEW e, NEW map, NEW se, NEW sb, NEW f, Folding(e, map, se, sb, f)
  PROVE  SameValue(e, se, sb, f)
<1> USE DEF Folding
<1> DEFINE c == Constified(e, map)
           F == Values(f, se, TRUE)
           B == Values(e, sb, FALSE)
           n == Len(e)
<1>1. PICK exact, ws : exact /\ TypedBy(e, ws, exact)
  BY DEF Expression
<1>2. TypedBy(c, ws, exact) /\ Len(c) = n
  BY <1>1, ConstifiedTyped DEF MapHolds
<1>3. /\ n \in Nat \ {0} /\ n \in 1..n /\ ws \in [1..n -> Nat]
  BY <1>1, TypedNodes DEF TypedBy
<1> HIDE DEF c
<1>4. Shaped(f) /\ Len(f) = n
  BY <1>2, FoldedShaped DEF c
<1>5. Shaped(e) /\ Shaped(c)
  BY <1>1, <1>2, TypedIsShaped
<1>6. PICK yes, no : yes = TRUE /\ no = FALSE
  OBVIOUS
<1>7. ASSUME NEW i \in 1..n PROVE NodeSetting(e, ws, c, f, map, se, sb, F, B, i)
  <2>1. NodeOk(e, ws, i) /\ NodeExact(e, ws, i) /\ NodeOk(c, ws, i)
    BY <1>1, <1>2 DEF TypedBy
  <2>2. IsConstified(c, e, map, i)
    BY DEF c, Constified, IsConstified
  <2>3. FoldedAt(c, ws, f, i)
    BY <1>2, FoldedNodes DEF c
  <2>4. f[i] = NodeFolded(c, f, i)
    <3>1. Folded(c)[i] = NodeFolded(c, Folded(c), i)
      BY <1>2, <1>5, FoldedNode
    <3> QED
      BY <3>1, Zenon DEF c
  <2>5. F[i] = NodeValue(f, se, TRUE, F, i)
    <3>1. Values(f, se, yes)[i] = NodeValue(f, se, yes, Values(f, se, yes), i)
      BY <1>4, ValueOfNode, Zenon
    <3> QED
      BY <1>6, <3>1, Zenon
  <2>6. B[i] = NodeValue(e, sb, FALSE, B, i)
    <3>1. Values(e, sb, no)[i] = NodeValue(e, sb, no, Values(e, sb, no), i)
      BY <1>5, ValueOfNode, Zenon
    <3> QED
      BY <1>6, <3>1, Zenon
  <2>7. ReadsAgree(f, F, se, sb, i)
    BY <1>4 DEF AllReadsAgree
  <2> HIDE DEF F, B, n
  <2> QED
    BY <2>1, <2>2, <2>3, <2>4, <2>5, <2>6, <2>7 DEF NodeSetting
<1> HIDE DEF F, B
<1>8. Setting(e, ws, c, f, map, se, sb, F, B)
  BY <1>3, <1>7 DEF Setting, MapHolds
<1>9. F[n] = B[n]
  <2>1. PICK k \in 1..Len(e) : k = n
    BY <1>3
  <2>2. F[k] = B[k]
    BY <1>8, AllAgree
  <2> QED
    BY <2>1, <2>2
<1> QED
  BY <1>4, <1>9 DEF SameValue, Value, F, B

(* An expression that reads no memory, and the value of a store.           *)
LEMMA PureReads ==
  ASSUME NEW e, NEW w, NEW exact, Expression(e, w, exact), Pure(e), NEW map, Known(map),
         NEW f, f = Folded(Constified(e, map)), NEW F, NEW se, NEW sb
  PROVE  AllReadsAgree(f, F, se, sb)
<1> DEFINE c == Constified(e, map)
<1>1. PICK ws : TypedBy(e, ws, exact)
  BY DEF Expression
<1>2. TypedBy(c, ws, exact) /\ Len(c) = Len(e)
  BY <1>1, ConstifiedTyped
<1> HIDE DEF c
<1>3. Len(f) = Len(e)
  BY <1>2, FoldedShaped DEF c
<1>4. ASSUME NEW i \in 1..Len(f), f[i].kind = "index" PROVE FALSE
  <2>1. FoldedAt(c, ws, f, i)
    BY <1>2, <1>3, FoldedNodes DEF c
  <2>2. f[i] = c[i]
    BY <1>4, <2>1 DEF FoldedAt, IsLiteral
  <2>3. IsConstified(c, e, map, i)
    BY <1>3 DEF c, Constified, IsConstified
  <2>4. e[i].kind = "index"
    BY <1>4, <2>2, <2>3 DEF IsConstified, Literal
  <2> QED
    BY <1>3, <2>4 DEF Pure
<1> QED
  BY <1>4 DEF AllReadsAgree, ReadsAgree

IsWord(e, w, state) == w = Word /\ Value(e, state, FALSE) \in BitVector(Word)

LEMMA StoredFits ==
  ASSUME NEW e, NEW w, NEW exact, exact, Expression(e, w, exact), IsSlice(e[Len(e)]),
         NEW state
  PROVE  IsWord(e, w, state)
<1> DEFINE n == Len(e)
           node == e[n]
           B == Values(e, state, FALSE)
<1>1. PICK ws : TypedBy(e, ws, exact) /\ ws[n] = w
  BY DEF Expression
<1>2. n \in Nat \ {0} /\ n \in 1..n /\ Shaped(e)
  BY <1>1, TypedNodes, TypedIsShaped
<1>3. NodeOk(e, ws, n) /\ NodeExact(e, ws, n)
  BY <1>1, <1>2 DEF TypedBy
<1>4. node.kind = "app" /\ node.op = "slice"
  BY DEF IsSlice
<1>5. node.l = Word - 1 /\ node.r = 0 /\ w = (node.l - node.r) + 1
  BY <1>1, <1>3, <1>4 DEF NodeOk, NodeExact
<1>6. PICK no : no = FALSE
  OBVIOUS
<1>7. B[n] = NodeValue(e, state, FALSE, B, n)
  <2>1. Values(e, state, no)[n] = NodeValue(e, state, no, Values(e, state, no), n)
    BY <1>2, ValueOfNode, Zenon
  <2> QED
    BY <1>6, <2>1, Zenon
<1> HIDE DEF B
<1>8. PICK x, y : B[n] = Apply(node, x, y)
  BY <1>4, <1>7 DEF NodeValue
<1>9. IsApplied(B[n], node, x, y)
  BY <1>8, Applied, Zenon
<1>10. B[n].val = Slice(x.w, Word - 1, 0, x.val)
  BY <1>4, <1>5, <1>9 DEF IsApplied
<1>11. Slice(x.w, Word - 1, 0, x.val) \in BitVector(Word)
  <2>1. {i - 0 : i \in Bits(x.w, x.val) \cap (0..Word - 1)} \subseteq 0..Word - 1
    OBVIOUS
  <2> QED
    BY <2>1, NumberBelow, Sizes DEF Slice
<1>12. w = Word
  BY <1>5, Sizes
<1> QED
  BY <1>10, <1>11, <1>12 DEF IsWord, Value, B

-----------------------------------------------------------------------------
(* The two executions agree: in the registers, and at the locations that   *)
(* were accessed; and nothing else was written.                            *)
Records(all) == \A a \in all : a = [mem |-> a.mem, addr |-> a.addr, direct |-> a.direct]

Separate(all) == \A a, b \in all : a.addr = b.addr => a.mem = b.mem /\ a.direct = b.direct

Agrees(em, bu, all) ==
  /\ em.regs = bu.regs
  /\ \A a \in all : Loaded(em, a.direct, a.mem, a.addr) = Content(bu, a.mem, a.addr)
  /\ \A k \in DOMAIN em.vars : \E a \in all : k = a.addr
  /\ \A k \in DOMAIN em.mem : \E a \in all : k = <<a.mem, a.addr>>
  /\ \A k \in DOMAIN bu.mem : \E a \in all : k = <<a.mem, a.addr>>

LEMMA OneAccess ==
  ASSUME NEW all, Records(all), Separate(all), NEW a \in all, NEW b \in all, a.addr = b.addr
  PROVE  a = b
<1>1. a.mem = b.mem /\ a.direct = b.direct
  BY DEF Separate
<1>2. a = [mem |-> a.mem, addr |-> a.addr, direct |-> a.direct]
  BY DEF Records
<1>3. b = [mem |-> b.mem, addr |-> b.addr, direct |-> b.direct]
  BY DEF Records
<1> QED
  BY <1>1, <1>2, <1>3, Zenon

(* A location that is accessed for the first time was not written.         *)
LEMMA AccessAgrees ==
  ASSUME NEW em, NEW bu, NEW old, Agrees(em, bu, old), NEW all, old \subseteq all,
         Records(all), Separate(all), NEW a \in all
  PROVE  Loaded(em, a.direct, a.mem, a.addr) = Content(bu, a.mem, a.addr)
<1>1. CASE a \in old
  BY <1>1 DEF Agrees
<1>2. CASE a \notin old
  <2>1. \A b \in old : b.addr # a.addr
    BY <1>2, OneAccess
  <2>2. a.addr \notin DOMAIN em.vars
    BY <2>1 DEF Agrees
  <2>3. <<a.mem, a.addr>> \notin DOMAIN em.mem
    BY <2>1 DEF Agrees
  <2>4. <<a.mem, a.addr>> \notin DOMAIN bu.mem
    BY <2>1 DEF Agrees
  <2> QED
    BY <2>2, <2>3, <2>4 DEF Loaded, Abstracted, Content
<1> QED
  BY <1>1, <1>2

LEMMA AgreesAssigned ==
  ASSUME NEW em, NEW bu, NEW old, Agrees(em, bu, old), NEW all, old \subseteq all,
         Records(all), Separate(all), NEW em2, NEW bu2, em2.regs = bu2.regs,
         em2.mem = em.mem, em2.vars = em.vars, bu2.mem = bu.mem
  PROVE  Agrees(em2, bu2, all)
<1>1. ASSUME NEW a \in all
      PROVE  Loaded(em2, a.direct, a.mem, a.addr) = Content(bu2, a.mem, a.addr)
  <2>1. Loaded(em, a.direct, a.mem, a.addr) = Content(bu, a.mem, a.addr)
    BY AccessAgrees
  <2> QED
    BY <2>1 DEF Loaded, Abstracted, Content
<1>2. /\ \A k \in DOMAIN em2.vars : \E a \in all : k = a.addr
      /\ \A k \in DOMAIN em2.mem : \E a \in all : k = <<a.mem, a.addr>>
      /\ \A k \in DOMAIN bu2.mem : \E a \in all : k = <<a.mem, a.addr>>
  BY DEF Agrees
<1> QED
  BY <1>1, <1>2 DEF Agrees

(* Writing one location.                                                   *)
LEMMA ContentWritten ==
  ASSUME NEW state, NEW new, NEW cell, NEW v, NEW memory, NEW a,
         IsInserted(new.mem, state.mem, cell, v)
  PROVE  /\ cell = <<memory, a>> => Content(new, memory, a) = v
         /\ cell # <<memory, a>> => Content(new, memory, a) = Content(state, memory, a)
BY DEF IsInserted, Content

LEMMA VariableWritten ==
  ASSUME NEW state, NEW new, NEW v, NEW memory, NEW a,
         IsInserted(new.vars, state.vars, a, v), Width(memory) \in Nat,
         v \in BitVector(Width(memory))
  PROVE  Abstracted(new, memory, a) = v
<1>1. v % 2^Width(memory) = v
  BY VectorMod
<1>2. a \in DOMAIN new.vars /\ new.vars[a] = v
  BY DEF IsInserted
<1>3. Abstracted(new, memory, a) = v % 2^Width(memory)
  BY <1>2, Zenon DEF Abstracted
<1> QED
  BY <1>1, <1>3

LEMMA AgreesStored ==
  ASSUME NEW em, NEW bu, NEW old, Agrees(em, bu, old), NEW a, NEW all, all = old \cup {a},
         Records(all), Separate(all), NEW em2, NEW bu2, NEW v, NEW cell,
         cell = <<a.mem, a.addr>>,
         Width(a.mem) \in Nat, v \in BitVector(Width(a.mem)),
         em2.regs = em.regs, bu2.regs = bu.regs,
         a.direct => em2.mem = em.mem /\ IsInserted(em2.vars, em.vars, a.addr, v),
         ~ a.direct => em2.vars = em.vars /\ IsInserted(em2.mem, em.mem, cell, v),
         IsInserted(bu2.mem, bu.mem, cell, v)
  PROVE  Agrees(em2, bu2, all)
<1>1. Content(bu2, a.mem, a.addr) = v
  BY ContentWritten
<1>2. Loaded(em2, a.direct, a.mem, a.addr) = v
  <2>1. CASE a.direct
    <3>1. Abstracted(em2, a.mem, a.addr) = v
      <4>1. IsInserted(em2.vars, em.vars, a.addr, v)
        BY <2>1
      <4> QED
        BY <4>1, VariableWritten
    <3> QED
      BY <2>1, <3>1 DEF Loaded
  <2>2. CASE ~ a.direct
    <3>1. Content(em2, a.mem, a.addr) = v
      BY <2>2, ContentWritten
    <3> QED
      BY <2>2, <3>1 DEF Loaded
  <2> QED
    BY <2>1, <2>2
<1>3. ASSUME NEW b \in old, b # a
      PROVE  Loaded(em2, b.direct, b.mem, b.addr) = Content(bu2, b.mem, b.addr)
  <2>1. b.addr # a.addr
    BY <1>3, OneAccess
  <2>2. cell # <<b.mem, b.addr>>
    BY <2>1
  <2>3. Content(bu2, b.mem, b.addr) = Content(bu, b.mem, b.addr)
    BY <2>2, ContentWritten
  <2>4. Content(em2, b.mem, b.addr) = Content(em, b.mem, b.addr)
    <3>1. CASE a.direct
      BY <3>1 DEF Content
    <3>2. CASE ~ a.direct
      BY <2>2, <3>2, ContentWritten
    <3> QED
      BY <3>1, <3>2
  <2>5. Abstracted(em2, b.mem, b.addr) = Abstracted(em, b.mem, b.addr)
    <3>1. CASE a.direct
      <4>1. b.addr \in DOMAIN em2.vars <=> b.addr \in DOMAIN em.vars
        BY <2>1, <3>1 DEF IsInserted
      <4>2. b.addr \in DOMAIN em.vars => em2.vars[b.addr] = em.vars[b.addr]
        BY <2>1, <3>1 DEF IsInserted
      <4> QED
        BY <4>1, <4>2, Zenon DEF Abstracted
    <3>2. CASE ~ a.direct
      BY <3>2 DEF Abstracted
    <3> QED
      BY <3>1, <3>2
  <2>6. Loaded(em, b.direct, b.mem, b.addr) = Content(bu, b.mem, b.addr)
    BY DEF Agrees
  <2>7. Loaded(em2, b.direct, b.mem, b.addr) = Loaded(em, b.direct, b.mem, b.addr)
    BY <2>4, <2>5, Zenon DEF Loaded
  <2> QED
    BY <2>3, <2>6, <2>7
<1>4. \A b \in all : Loaded(em2, b.direct, b.mem, b.addr) = Content(bu2, b.mem, b.addr)
  BY <1>1, <1>2, <1>3
<1>5. \A k \in DOMAIN em2.vars : \E b \in all : k = b.addr
  <2>1. DOMAIN em2.vars \subseteq DOMAIN em.vars \cup {a.addr}
    BY DEF IsInserted
  <2> QED
    BY <2>1 DEF Agrees
<1>6. \A k \in DOMAIN em2.mem : \E b \in all : k = <<b.mem, b.addr>>
  <2>1. DOMAIN em2.mem \subseteq DOMAIN em.mem \cup {cell}
    BY DEF IsInserted
  <2> QED
    BY <2>1 DEF Agrees
<1>7. \A k \in DOMAIN bu2.mem : \E b \in all : k = <<b.mem, b.addr>>
  <2>1. DOMAIN bu2.mem = DOMAIN bu.mem \cup {cell}
    BY DEF IsInserted
  <2> QED
    BY <2>1 DEF Agrees
<1>8. em2.regs = bu2.regs
  BY DEF Agrees
<1> QED
  BY <1>4, <1>5, <1>6, <1>7, <1>8 DEF Agrees

-----------------------------------------------------------------------------
(* The step of each statement.                                             *)
AllExact == \A i \in DOMAIN lines : lines[i].op \in ExactOps

BlockAgrees ==
  /\ Records(accesses)
  /\ AllExact /\ NotAliased => Agrees(emitted, built, accesses)

AgreeInv == BlockInv /\ BlockAgrees

LEMMA SeparateIs == NotAliased <=> Separate(accesses)
BY DEF NotAliased, Separate

LEMMA LastIsExact ==
  ASSUME TodoOk, AllExact, lines # <<>>
  PROVE  Last(lines).op \in ExactOps
<1>1. lines \in Seq(Lines)
  BY DEF TodoOk
<1>2. Len(lines) \in DOMAIN lines
  BY <1>1
<1> QED
  BY <1>2 DEF AllExact, Last

LEMMA MapHoldsNow ==
  ASSUME MapOk
  PROVE  MapHolds(ctx, emitted)
BY DEF MapOk, MapHolds, MapIsCurrent

LEMMA AssignAgrees ==
  ASSUME AgreeInv, RewriteAssign
  PROVE  BlockAgrees'
<1> USE DEF AgreeInv, BlockInv, BlockAgrees
<1>1. todo # <<>> /\ Statement.kind = "assign" /\ UNCHANGED lines
  BY DEF RewriteAssign
<1>2. PICK reg, rhs, f, v, w, F :
        /\ reg = Statement.lhs /\ rhs = Statement.rhs /\ f = Folded(Constified(rhs, ctx))
        /\ v = Value(f, emitted, TRUE) /\ w = Value(rhs, built, FALSE)
        /\ F = Values(f, emitted, TRUE)
  OBVIOUS
<1>3. /\ emitted' = [emitted EXCEPT !.regs[reg] = v]
      /\ built' = [built EXCEPT !.regs[reg] = w]
      /\ accesses' = accesses \cup Accesses(f)
  BY <1>2 DEF RewriteAssign, TryMakeConstant
<1>4. Accesses(f) = {Access(f[i].mem, F[i - 1].val, f[i - 1]) :
                       i \in {j \in 1..Len(f) : f[j].kind = "index"}}
  BY <1>2 DEF Accesses
<1>5. Records(accesses')
  BY <1>3, <1>4 DEF Records, Access
<1>6. ASSUME AllExact', NotAliased' PROVE Agrees(emitted, built, accesses)'
  <2>1. AllExact /\ Separate(accesses')
    BY <1>1, <1>6 DEF AllExact, NotAliased, Separate
  <2>2. Separate(accesses) /\ accesses \subseteq accesses'
    BY <1>3, <2>1 DEF Separate
  <2>3. Agrees(emitted, built, accesses)
    BY <2>1, <2>2, SeparateIs
  <2>4. PICK exact : exact
    <3>1. PICK exact : exact = TRUE
      OBVIOUS
    <3> QED
      BY <3>1
  <2>5. Last(lines).op \in ExactOps
    BY <1>1, <2>1, LastIsExact DEF TodoOk
  <2>6. reg \in DOMAIN emitted.regs /\ Expression(rhs, XLen, exact)
    BY <1>1, <1>2, <2>5, StatementIsOk DEF StatementOk
  <2>7. AllReadsAgree(f, F, emitted, built)
    <3>1. ASSUME NEW i \in 1..Len(f), f[i].kind = "index"
          PROVE  Loaded(emitted, IsLit(f[i - 1]), f[i].mem, F[i - 1].val)
                   = Content(built, f[i].mem, F[i - 1].val)
      <4>1. PICK a \in accesses' : a = Access(f[i].mem, F[i - 1].val, f[i - 1])
        BY <1>3, <1>4, <3>1
      <4>2. a.mem = f[i].mem /\ a.addr = F[i - 1].val /\ a.direct = IsLit(f[i - 1])
        BY <4>1 DEF Access
      <4>3. Loaded(emitted, a.direct, a.mem, a.addr) = Content(built, a.mem, a.addr)
        BY <1>5, <2>1, <2>2, <2>3, AccessAgrees
      <4> QED
        BY <4>2, <4>3
    <3> QED
      BY <3>1 DEF AllReadsAgree, ReadsAgree
  <2>8. v = w
    <3>1. emitted.regs = built.regs
      BY <2>3 DEF Agrees
    <3>2. MapHolds(ctx, emitted)
      BY MapHoldsNow
    <3>3. f = Folded(Constified(rhs, ctx)) /\ AllReadsAgree(f, Values(f, emitted, TRUE), emitted, built)
      BY <1>2, <2>7, Zenon
    <3>4. Folding(rhs, ctx, emitted, built, f)
      BY <2>4, <2>6, <3>1, <3>2, <3>3 DEF Folding
    <3>5. SameValue(rhs, emitted, built, f)
      BY <3>4, FoldIsExact, Zenon
    <3> QED
      BY <1>2, <3>5, Zenon DEF SameValue
  <2>9. IsUpdated(emitted', emitted, reg, v) /\ IsUpdated(built', built, reg, w)
    <3>1. /\ IsState(emitted) /\ emitted.regs = [r \in DOMAIN emitted.regs |-> emitted.regs[r]]
          /\ IsState(built) /\ built.regs = [r \in DOMAIN built.regs |-> built.regs[r]]
          /\ reg \in DOMAIN built.regs
      BY <2>6 DEF StatesOk
    <3> QED
      BY <1>3, <2>6, <3>1, RegsUpdated, Zenon
  <2>10. /\ emitted'.regs = built'.regs /\ emitted'.mem = emitted.mem
         /\ emitted'.vars = emitted.vars /\ built'.mem = built.mem
    BY <2>3, <2>8, <2>9 DEF IsUpdated, Agrees
  <2>11. Agrees(emitted', built', accesses')
    BY <1>5, <2>1, <2>2, <2>3, <2>10, AgreesAssigned
  <2> QED
    BY <2>11
<1> QED
  BY <1>5, <1>6

LEMMA StoreAgrees ==
  ASSUME AgreeInv, RewriteStore
  PROVE  BlockAgrees'
<1> USE DEF AgreeInv, BlockInv, BlockAgrees
<1>1. todo # <<>> /\ Statement.kind = "store" /\ UNCHANGED lines
  BY DEF RewriteStore
<1>2. PICK memory, index, rhs, f, g, addr, v, a :
        /\ memory = Statement.mem /\ index = Statement.index /\ rhs = Statement.rhs
        /\ f = Folded(Constified(index, ctx)) /\ g = Folded(Constified(rhs, ctx))
        /\ addr = Value(f, emitted, TRUE) /\ v = Value(g, emitted, TRUE)
        /\ a = Access(memory, addr, Last(f))
  OBVIOUS
<1>3. PICK cell, w : cell = <<memory, Value(index, built, FALSE)>> /\ w = Value(rhs, built, FALSE)
  OBVIOUS
<1>4. a.mem = memory /\ a.addr = addr /\ a = [mem |-> a.mem, addr |-> a.addr, direct |-> a.direct]
  BY <1>2 DEF Access
<1>5. /\ emitted' = IF a.direct THEN [emitted EXCEPT !.vars = Insert(@, a.addr, v)]
                              ELSE [emitted EXCEPT !.mem = Insert(@, <<a.mem, a.addr>>, v)]
      /\ accesses' = accesses \cup {a}
  BY <1>2, Zenon DEF RewriteStore, TryMakeConstant
<1>6. built' = [built EXCEPT !.mem = Insert(@, cell, w)]
  BY <1>2, <1>3, Zenon DEF RewriteStore
<1>7. Records(accesses')
  BY <1>4, <1>5 DEF Records
<1>8. ASSUME AllExact', NotAliased' PROVE Agrees(emitted, built, accesses)'
  <2>1. AllExact /\ Separate(accesses')
    BY <1>1, <1>8 DEF AllExact, NotAliased, Separate
  <2>2. Separate(accesses)
    BY <1>5, <2>1 DEF Separate
  <2>3. Agrees(emitted, built, accesses)
    BY <2>1, <2>2, SeparateIs
  <2>4. emitted.regs = built.regs /\ MapHolds(ctx, emitted) /\ Known(ctx)
    BY <2>3, MapHoldsNow DEF Agrees, MapHolds
  <2>5. PICK exact : exact
    <3>1. PICK exact : exact = TRUE
      OBVIOUS
    <3> QED
      BY <3>1
  <2>6. Last(lines).op \in ExactOps
    BY <1>1, <2>1, LastIsExact DEF TodoOk
  <2>7. StatementOk(Statement, DOMAIN emitted.regs, exact)
    BY <1>1, <2>6, StatementIsOk
  <2>8. /\ Expression(index, XLen, exact) /\ Expression(rhs, Width(memory), exact)
        /\ Pure(index) /\ Pure(rhs) /\ IsSlice(rhs[Len(rhs)])
    BY <1>1, <1>2, <2>7 DEF StatementOk
  <2>9. addr = Value(index, built, FALSE)
    <3>1. AllReadsAgree(f, Values(f, emitted, TRUE), emitted, built)
      BY <1>2, <2>4, <2>8, PureReads
    <3>2. Folding(index, ctx, emitted, built, f)
      BY <1>2, <2>4, <2>5, <2>8, <3>1 DEF Folding
    <3>3. SameValue(index, emitted, built, f)
      BY <3>2, FoldIsExact, Zenon
    <3> QED
      BY <1>2, <3>3, Zenon DEF SameValue
  <2>10. v = w
    <3>1. AllReadsAgree(g, Values(g, emitted, TRUE), emitted, built)
      BY <1>2, <2>4, <2>8, PureReads
    <3>2. Folding(rhs, ctx, emitted, built, g)
      BY <1>2, <2>4, <2>5, <2>8, <3>1 DEF Folding
    <3>3. SameValue(rhs, emitted, built, g)
      BY <3>2, FoldIsExact, Zenon
    <3> QED
      BY <1>2, <1>3, <3>3, Zenon DEF SameValue
  <2>11. Width(a.mem) \in Nat /\ v \in BitVector(Width(a.mem))
    <3>1. Width(memory) = Word /\ w \in BitVector(Word)
      <4>1. IsWord(rhs, Width(memory), built)
        BY <2>5, <2>8, StoredFits
      <4> QED
        BY <1>3, <4>1 DEF IsWord
    <3> QED
      BY <1>4, <2>10, <3>1, Sizes
  <2>12. cell = <<a.mem, a.addr>>
    BY <1>3, <1>4, <2>9
  <2>13. IsState(emitted) /\ IsState(built)
    BY DEF StatesOk
  <2>14. built'.regs = built.regs /\ IsInserted(built'.mem, built.mem, cell, v)
    <3>1. built' = [regs |-> built.regs, mem |-> Insert(built.mem, cell, v), vars |-> built.vars]
      BY <1>6, <2>10, <2>13 DEF IsState
    <3>2. built'.regs = built.regs /\ built'.mem = Insert(built.mem, cell, v)
      BY <3>1
    <3> QED
      BY <3>2, Inserted, Zenon
  <2>15. /\ emitted'.regs = emitted.regs
         /\ a.direct => emitted'.mem = emitted.mem /\ IsInserted(emitted'.vars, emitted.vars, a.addr, v)
         /\ ~ a.direct => emitted'.vars = emitted.vars /\ IsInserted(emitted'.mem, emitted.mem, cell, v)
    <3>1. CASE a.direct
      <4>1. emitted' = [regs |-> emitted.regs, mem |-> emitted.mem,
                        vars |-> Insert(emitted.vars, a.addr, v)]
        BY <1>5, <2>13, <3>1 DEF IsState
      <4>2. /\ emitted'.regs = emitted.regs /\ emitted'.mem = emitted.mem
            /\ emitted'.vars = Insert(emitted.vars, a.addr, v)
        BY <4>1
      <4>3. IsInserted(emitted'.vars, emitted.vars, a.addr, v)
        BY <4>2, Inserted, Zenon
      <4> QED
        BY <3>1, <4>2, <4>3
    <3>2. CASE ~ a.direct
      <4>1. emitted' = [regs |-> emitted.regs, mem |-> Insert(emitted.mem, cell, v),
                        vars |-> emitted.vars]
        BY <1>5, <2>12, <2>13, <3>2 DEF IsState
      <4>2. /\ emitted'.regs = emitted.regs /\ emitted'.vars = emitted.vars
            /\ emitted'.mem = Insert(emitted.mem, cell, v)
        BY <4>1
      <4>3. IsInserted(emitted'.mem, emitted.mem, cell, v)
        BY <4>2, Inserted, Zenon
      <4> QED
        BY <3>2, <4>2, <4>3
    <3> QED
      BY <3>1, <3>2
  <2>16. Agrees(emitted', built', accesses')
    BY <1>5, <1>7, <2>1, <2>3, <2>11, <2>12, <2>14, <2>15, AgreesStored
  <2> QED
    BY <2>16
<1> QED
  BY <1>7, <1>8

LEMMA SourceValue ==
  ASSUME NEW reg, NEW s, NEW t, s.regs = t.regs
  PROVE  Value(Source(reg), s, FALSE) = Value(Source(reg), t, FALSE)
<1>1. PICK node, no : /\ Source(reg) = <<node>> /\ node.kind \in {"lit", "var"} /\ no = FALSE
  <2> DEFINE node == IF reg = "zero" THEN Literal(0, XLen) ELSE [kind |-> "var", name |-> reg]
  <2>1. Source(reg) = <<node>>
    BY DEF Source, Lit, Var
  <2>2. node.kind \in {"lit", "var"}
    BY DEF Literal
  <2> HIDE DEF node
  <2> QED
    BY <2>1, <2>2
<1>2. Len(<<node>>) = 1 /\ <<node>>[1] = node /\ 1 \in 1..Len(<<node>>)
  OBVIOUS
<1>3. Shaped(<<node>>)
  <2>1. \A i \in 1..1 : i = 1
    OBVIOUS
  <2> QED
    BY <1>1, <1>2, <2>1 DEF Shaped, Kinds
<1>4. PICK one, e : one = 1 /\ e = <<node>>
  OBVIOUS
<1>5. one \in 1..Len(e) /\ Shaped(e) /\ e[one] = node /\ Len(e) = one
  BY <1>2, <1>3, <1>4
<1>6. /\ Values(e, s, no)[one] = NodeValue(e, s, no, Values(e, s, no), one)
      /\ Values(e, t, no)[one] = NodeValue(e, t, no, Values(e, t, no), one)
  BY <1>5, ValueOfNode, Zenon
<1>7. Values(e, s, no)[one] = Values(e, t, no)[one]
  BY <1>1, <1>5, <1>6 DEF NodeValue
<1> QED
  BY <1>1, <1>4, <1>5, <1>7 DEF Value

LEMMA ConditionalAgrees ==
  ASSUME AgreeInv, VisitIfThenElse
  PROVE  BlockAgrees'
<1> USE DEF AgreeInv, BlockInv, BlockAgrees
<1>1. todo # <<>> /\ Statement.kind = "ite" /\ UNCHANGED <<lines, accesses>>
  BY DEF VisitIfThenElse
<1>2. PICK reg, v, w : /\ reg = Statement.lhs /\ v = Decided(emitted) /\ w = Decided(built)
                       /\ emitted' = [emitted EXCEPT !.regs[reg] = v]
                       /\ built' = [built EXCEPT !.regs[reg] = w]
  BY DEF VisitIfThenElse
<1>3. Records(accesses')
  BY <1>1
<1>4. ASSUME AllExact', NotAliased' PROVE Agrees(emitted, built, accesses)'
  <2>1. AllExact /\ NotAliased
    BY <1>1, <1>4 DEF AllExact, NotAliased
  <2>2. Agrees(emitted, built, accesses) /\ Separate(accesses)
    BY <2>1, SeparateIs
  <2>3. PICK exact : ~ exact
    OBVIOUS
  <2>4. StatementOk(Statement, DOMAIN emitted.regs, exact)
    BY <1>1, <2>3, StatementIsOk
  <2>5. /\ reg \in DOMAIN emitted.regs
        /\ \E r : Statement.x = Source(r)
        /\ \E r : Statement.y = Source(r)
    BY <1>1, <1>2, <2>4 DEF StatementOk
  <2>6. v = w
    <3>1. emitted.regs = built.regs
      BY <2>2 DEF Agrees
    <3>2. Value(Statement.x, emitted, FALSE) = Value(Statement.x, built, FALSE)
      BY <2>5, <3>1, SourceValue
    <3>3. Value(Statement.y, emitted, FALSE) = Value(Statement.y, built, FALSE)
      BY <2>5, <3>1, SourceValue
    <3> QED
      BY <1>2, <3>2, <3>3, Zenon DEF Decided
  <2>7. IsUpdated(emitted', emitted, reg, v) /\ IsUpdated(built', built, reg, w)
    <3>1. /\ IsState(emitted) /\ emitted.regs = [r \in DOMAIN emitted.regs |-> emitted.regs[r]]
          /\ IsState(built) /\ built.regs = [r \in DOMAIN built.regs |-> built.regs[r]]
          /\ reg \in DOMAIN built.regs
      BY <2>5 DEF StatesOk
    <3> QED
      BY <1>2, <2>5, <3>1, RegsUpdated, Zenon
  <2>8. /\ emitted'.regs = built'.regs /\ emitted'.mem = emitted.mem
        /\ emitted'.vars = emitted.vars /\ built'.mem = built.mem
    BY <2>2, <2>6, <2>7 DEF IsUpdated, Agrees
  <2>9. Agrees(emitted', built', accesses)
    BY <2>2, <2>8, AgreesAssigned
  <2> QED
    BY <1>1, <2>9
<1> QED
  BY <1>3, <1>4

LEMMA AgreeStarts == Init => AgreeInv
<1> SUFFICES ASSUME Init PROVE AgreeInv
  OBVIOUS
<1>1. BlockInv
  BY BlockStarts
<1>2. accesses = {} /\ emitted = built
  BY DEF Init
<1>3. PICK regs : built = [regs |-> regs, mem |-> <<>>, vars |-> <<>>]
  BY DEF Init
<1>4. /\ emitted.regs = built.regs /\ emitted.vars = <<>>
      /\ emitted.mem = <<>> /\ built.mem = <<>>
  BY <1>2, <1>3
<1>5. DOMAIN <<>> = {}
  OBVIOUS
<1>6. Records(accesses)
  BY <1>2 DEF Records
<1>7. Agrees(emitted, built, accesses)
  BY <1>2, <1>4, <1>5 DEF Agrees
<1> QED
  BY <1>1, <1>6, <1>7 DEF AgreeInv, BlockAgrees

LEMMA AgreeInvStutters ==
  ASSUME BlockAgrees, UNCHANGED <<built, emitted, accesses, lines>>
  PROVE  BlockAgrees'
BY DEF BlockAgrees, AllExact, NotAliased

LEMMA LineAgrees ==
  ASSUME AgreeInv, TakeLine
  PROVE  BlockAgrees'
<1>1. PICK line \in Lines : lines' = Append(lines, line)
  BY DEF TakeLine
<1>2. UNCHANGED <<built, emitted, accesses>>
  BY DEF TakeLine
<1>3. lines \in Seq(Lines)
  BY DEF AgreeInv, BlockInv, TodoOk
<1>4. AllExact' => AllExact
  <2>1. \A i \in DOMAIN lines : i \in DOMAIN lines' /\ lines'[i] = lines[i]
    BY <1>1, <1>3
  <2> QED
    BY <2>1 DEF AllExact
<1> QED
  BY <1>2, <1>4 DEF AgreeInv, BlockAgrees, NotAliased

LEMMA AgreeInvStep == AgreeInv /\ [Next]_vars => AgreeInv'
<1> SUFFICES ASSUME AgreeInv, [Next]_vars PROVE AgreeInv'
  OBVIOUS
<1>1. BlockInv'
  BY BlockInvStep DEF AgreeInv
<1>2. CASE TakeLine
  BY <1>1, <1>2, LineAgrees DEF AgreeInv
<1>3. CASE RewriteAssign
  BY <1>1, <1>3, AssignAgrees DEF AgreeInv
<1>4. CASE RewriteStore
  BY <1>1, <1>4, StoreAgrees DEF AgreeInv
<1>5. CASE VisitIfThenElse
  BY <1>1, <1>5, ConditionalAgrees DEF AgreeInv
<1>6. CASE Panic
  BY <1>1, <1>6, AgreeInvStutters DEF AgreeInv, Panic
<1>7. CASE UNCHANGED vars
  BY <1>1, <1>7, AgreeInvStutters DEF AgreeInv, vars
<1> QED
  BY <1>2, <1>3, <1>4, <1>5, <1>6, <1>7 DEF Next, Stopped

(* The passes preserve the block: with registers and memory of any width   *)
(* and content, after each statement of any sequence of the instructions   *)
(* that are folded exactly, the registers and the locations accessed hold  *)
(* what they would without the passes, unless an address was accessed in   *)
(* two memories, or both as a literal and not                              *)
(* (ConstantPropagator, DataMemoryAbstractor).                             *)
THEOREM PassesPreserve == Spec => []PassesPreserveBlock
<1>1. AgreeInv => PassesPreserveBlock
  <2> SUFFICES ASSUME AgreeInv PROVE PassesPreserveBlock
    OBVIOUS
  <2>1. AllExact /\ NotAliased => Agrees(emitted, built, accesses)
    BY DEF AgreeInv, BlockAgrees
  <2> QED
    BY <2>1 DEF PassesPreserveBlock, AllExact, Agrees, EmittedContent
<1> QED
  BY <1>1, AgreeStarts, AgreeInvStep, PTL DEF Spec

=============================================================================
