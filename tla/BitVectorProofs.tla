-------------------------- MODULE BitVectorProofs --------------------------
(***************************************************************************)
(* The operators on bits compute what they are named for, in the           *)
(* arithmetic of the integers and for every width.                         *)
(*                                                                         *)
(* A number is the sum of the powers of two at its bits.  The sum is a     *)
(* fold: it is well defined, any element may be taken first, and so the    *)
(* sum over the bits of x below a width is x modulo the power of the width.*)
(***************************************************************************)
EXTENDS BitVectors, FiniteSetTheorems, WellFoundedInduction, TLAPS

-----------------------------------------------------------------------------
(* The two induction principles, as minimal elements.                      *)
LEMMA LeastNumber ==
  ASSUME NEW T \in SUBSET Nat, T # {}
  PROVE  \E x \in T : \A y \in T : x <= y
<1>1. PICK x \in T : \A y \in T : ~ (<<y, x>> \in OpToRel(<, Nat))
  BY NatLessThanWellFounded, WFMin, Zenon
<1>2. ASSUME NEW y \in T PROVE x <= y
  <2>1. \A a, b \in Nat : a < b => <<a, b>> \in OpToRel(<, Nat)
    BY DEF OpToRel
  <2>2. x \in Nat /\ y \in Nat
    OBVIOUS
  <2>3. ~ (y < x)
    BY <1>1, <2>1, <2>2
  <2> QED
    BY <2>2, <2>3
<1> QED
  BY <1>2

IsSmallest(T, F) == \A S \in F : S \subseteq T => S = T

LEMMA SmallestSet ==
  ASSUME NEW W, IsFiniteSet(W), NEW F, F \subseteq SUBSET W, F # {}
  PROVE  \E T \in F : IsSmallest(T, F)
<1>1. IsWellFoundedOn(StrictSubsetOrdering(W), SUBSET W)
  BY FS_StrictSubsetOrderingWellFounded, FS_FiniteSubsetsOfFinite, Zenon
<1>2. PICK T \in F : \A S \in F : <<S, T>> \notin StrictSubsetOrdering(W)
  BY <1>1, WFMin, Zenon
<1> QED
  BY <1>2 DEF StrictSubsetOrdering, IsSmallest

-----------------------------------------------------------------------------
(* Powers of two, counted as the subsets of an interval.                   *)
LEMMA PowerIsCount ==
  ASSUME NEW n \in Nat
  PROVE  Cardinality(SUBSET (1..n)) = 2^n /\ IsFiniteSet(SUBSET (1..n))
<1>1. IsFiniteSet(1..n) /\ Cardinality(1..n) = n
  <2>1. IsFiniteSet(1..n) /\ Cardinality(1..n) = IF 1 > n THEN 0 ELSE n - 1 + 1
    BY FS_Interval
  <2> QED
    BY <2>1
<1> QED
  BY <1>1, FS_SUBSET

LEMMA PowerNat ==
  ASSUME NEW n \in Nat
  PROVE  2^n \in Nat
  BY PowerIsCount, FS_CardinalityType

LEMMA PowerZero == 2^0 = 1
<1>1. SUBSET (1..0) = {{}}
  OBVIOUS
<1> QED
  BY <1>1, PowerIsCount, FS_Singleton

LEMMA PowerDouble ==
  ASSUME NEW n \in Nat
  PROVE  2^(n + 1) = 2 * 2^n
<1> DEFINE Old == SUBSET (1..n)
           New == {A \cup {n + 1} : A \in Old}
           f == [A \in Old |-> A \cup {n + 1}]
<1>1. IsFiniteSet(Old) /\ Cardinality(Old) = 2^n /\ 2^n \in Nat
  BY PowerIsCount, PowerNat
<1>2. ExistsBijection(Old, New)
  <2>1. f \in [Old -> New]
    OBVIOUS
  <2>2. ASSUME NEW A \in Old, NEW B \in Old, f[A] = f[B] PROVE A = B
    <3>1. A \cup {n + 1} = B \cup {n + 1}
      BY <2>2
    <3>2. n + 1 \notin A /\ n + 1 \notin B
      OBVIOUS
    <3> QED
      BY <3>1, <3>2
  <2>3. \A C \in New : \E A \in Old : f[A] = C
    OBVIOUS
  <2> HIDE DEF f, Old, New
  <2>4. f \in Bijection(Old, New)
    BY <2>1, <2>2, <2>3 DEF Bijection, Injection, Surjection, IsInjective
  <2> QED
    BY <2>4 DEF ExistsBijection
<1>3. IsFiniteSet(New) /\ Cardinality(New) = 2^n
  <2> HIDE DEF Old, New
  <2> QED
    BY <1>1, <1>2, FS_Bijection
<1>4. Old \cap New = {}
  OBVIOUS
<1>5. SUBSET (1..n + 1) = Old \cup New
  <2>1. ASSUME NEW C \in SUBSET (1..n + 1) PROVE C \in Old \cup New
    <3>1. CASE n + 1 \in C
      <4>1. C \ {n + 1} \in Old /\ C = (C \ {n + 1}) \cup {n + 1}
        BY <3>1
      <4> QED
        BY <4>1
    <3>2. CASE n + 1 \notin C
      BY <3>2
    <3> QED
      BY <3>1, <3>2
  <2>2. ASSUME NEW C \in Old \cup New PROVE C \in SUBSET (1..n + 1)
    OBVIOUS
  <2> QED
    BY <2>1, <2>2
<1>6. Cardinality(Old \cup New) = Cardinality(Old) + Cardinality(New) - Cardinality(Old \cap New)
  <2> HIDE DEF Old, New
  <2> QED
    BY <1>1, <1>3, FS_Union
<1>7. Cardinality(Old \cap New) = 0
  BY <1>4, FS_EmptySet
<1>8. Cardinality(SUBSET (1..n + 1)) = 2^(n + 1)
  BY PowerIsCount
<1> DEFINE c == Cardinality(SUBSET (1..n + 1))
           o == 2^n
<1>9. c = o + o - 0 /\ o \in Nat
  <2> HIDE DEF Old, New
  <2> QED
    BY <1>1, <1>3, <1>5, <1>6, <1>7
<1>10. c = 2 * o
  <2> HIDE DEF c, o
  <2> QED
    BY <1>9
<1> QED
  BY <1>8, <1>10

LEMMA PowerPos ==
  ASSUME NEW n \in Nat
  PROVE  2^n \in Nat \ {0}
<1> DEFINE T == {m \in Nat : 2^m = 0}
<1>1. SUFFICES T = {}
  BY PowerNat
<1>2. SUFFICES ASSUME T # {} PROVE FALSE
  OBVIOUS
<1>3. PICK m \in T : \A k \in T : m <= k
  BY <1>2, LeastNumber
<1>4. m # 0
  <2>1. 2^m = 0
    BY <1>3
  <2> SUFFICES ASSUME m = 0 PROVE FALSE
    OBVIOUS
  <2>2. 2^0 = 0
    BY <2>1, Zenon
  <2> QED
    BY <2>2, PowerZero
<1>5. m - 1 \in Nat /\ m = (m - 1) + 1
  BY <1>4
<1>6. 2^m = 2 * 2^(m - 1) /\ 2^(m - 1) \in Nat
  BY <1>5, PowerDouble, PowerNat
<1>7. m - 1 \in T
  BY <1>5, <1>6
<1> QED
  BY <1>3, <1>5, <1>7

LEMMA PowerSum ==
  ASSUME NEW i \in Nat, NEW j \in Nat
  PROVE  2^(i + j) = 2^i * 2^j
<1> DEFINE T == {m \in Nat : 2^(i + m) # 2^i * 2^m}
<1>1. SUFFICES ASSUME T # {} PROVE FALSE
  OBVIOUS
<1>2. PICK m \in T : \A k \in T : m <= k
  BY <1>1, LeastNumber
<1>3. CASE m = 0
  <2>1. 2^(i + m) = 2^i /\ 2^m = 1 /\ 2^i \in Nat
    BY <1>3, PowerZero, PowerNat
  <2> QED
    BY <2>1
<1>4. CASE m # 0
  <2>1. m - 1 \in Nat /\ m = (m - 1) + 1 /\ i + m = (i + (m - 1)) + 1 /\ i + (m - 1) \in Nat
    BY <1>4
  <2>2. m - 1 \notin T
    BY <1>2, <2>1
  <2>3. 2^(i + (m - 1)) = 2^i * 2^(m - 1)
    BY <2>1, <2>2
  <2>4. 2^m = 2 * 2^(m - 1)
    BY <2>1, PowerDouble
  <2>5. 2^(i + m) = 2 * 2^(i + (m - 1))
    BY <2>1, PowerDouble
  <2>6. 2^i \in Nat /\ 2^(m - 1) \in Nat
    BY <2>1, PowerNat
  <2> DEFINE a == 2^i
             b == 2^(m - 1)
             c == 2^m
             d == 2^(i + m)
  <2>7. d = 2 * (a * b) /\ c = 2 * b /\ a \in Nat /\ b \in Nat
    BY <2>3, <2>4, <2>5, <2>6
  <2> HIDE DEF a, b, c, d
  <2>8. d = a * c
    BY <2>7
  <2> QED
    BY <2>8 DEF a, c, d
<1> QED
  BY <1>3, <1>4

LEMMA PowerMonotonic ==
  ASSUME NEW i \in Nat, NEW j \in Nat, i <= j
  PROVE  2^i <= 2^j
<1>1. j - i \in Nat /\ j = i + (j - i)
  OBVIOUS
<1>2. 2^j = 2^i * 2^(j - i)
  BY <1>1, PowerSum
<1>3. 2^i \in Nat \ {0} /\ 2^(j - i) \in Nat \ {0}
  BY <1>1, PowerPos
<1> DEFINE a == 2^i
           b == 2^(j - i)
<1>4. a \in Nat \ {0} /\ b \in Nat \ {0}
  BY <1>3
<1> HIDE DEF a, b
<1>5. a <= a * b
  BY <1>4
<1> QED
  BY <1>2, <1>5 DEF a, b

-----------------------------------------------------------------------------
(* The sum of the powers at the elements of a finite set of positions.     *)
Least(s) == CHOOSE x \in s : TRUE

IsSum(f, S) ==
  f = [s \in SUBSET S |-> IF s = {} THEN 0 ELSE 2^Least(s) + f[s \ {Least(s)}]]

Sum(S) == CHOOSE f : IsSum(f, S)

LEMMA NumberIsSum ==
  ASSUME NEW S
  PROVE  Number(S) = Sum(S)[S]
  BY DEF Number, MapThenSumSet, MapThenFoldSet, Sum, IsSum, Least

LEMMA LeastIn ==
  ASSUME NEW s, s # {}
  PROVE  Least(s) \in s
  BY DEF Least

LEMMA SumAt ==
  ASSUME NEW S, NEW f, IsSum(f, S), NEW s \in SUBSET S
  PROVE  f[s] = IF s = {} THEN 0 ELSE 2^Least(s) + f[s \ {Least(s)}]
<1> DEFINE rhs(t) == IF t = {} THEN 0 ELSE 2^Least(t) + f[t \ {Least(t)}]
<1>1. f = [t \in SUBSET S |-> rhs(t)]
  BY DEF IsSum
<1> HIDE DEF rhs
<1>2. f[s] = rhs(s)
  BY <1>1
<1> QED
  BY <1>2 DEF rhs

LEMMA SumUnique ==
  ASSUME NEW S, IsFiniteSet(S), NEW f, IsSum(f, S), NEW T \in SUBSET S, NEW g, IsSum(g, T)
  PROVE  \A s \in SUBSET T : f[s] = g[s]
<1> DEFINE F == {s \in SUBSET T : f[s] # g[s]}
<1>1. SUFFICES ASSUME F # {} PROVE FALSE
  OBVIOUS
<1>2. PICK s \in F : \A t \in F : t \subseteq s => t = s
  <2>1. IsFiniteSet(T)
    BY FS_Subset
  <2>2. F \subseteq SUBSET T
    OBVIOUS
  <2> HIDE DEF F
  <2> QED
    BY <1>1, <2>1, <2>2, SmallestSet DEF IsSmallest
<1>3. s \in SUBSET S /\ s \in SUBSET T
  OBVIOUS
<1>4. /\ f[s] = IF s = {} THEN 0 ELSE 2^Least(s) + f[s \ {Least(s)}]
      /\ g[s] = IF s = {} THEN 0 ELSE 2^Least(s) + g[s \ {Least(s)}]
  <2>1. f[s] = IF s = {} THEN 0 ELSE 2^Least(s) + f[s \ {Least(s)}]
    BY <1>3, SumAt
  <2>2. g[s] = IF s = {} THEN 0 ELSE 2^Least(s) + g[s \ {Least(s)}]
    BY <1>3, SumAt
  <2> QED
    BY <2>1, <2>2
<1>5. s # {}
  BY <1>4
<1>6. Least(s) \in s
  BY <1>5, LeastIn
<1>7. s \ {Least(s)} \notin F
  BY <1>2, <1>6
<1>8. f[s \ {Least(s)}] = g[s \ {Least(s)}]
  BY <1>3, <1>7
<1> QED
  BY <1>4, <1>5, <1>8

LEMMA SumExists ==
  ASSUME NEW S, IsFiniteSet(S)
  PROVE  IsSum(Sum(S), S)
<1> DEFINE F == {T \in SUBSET S : ~ IsSum(Sum(T), T)}
<1>1. SUFFICES ASSUME F # {} PROVE FALSE
  OBVIOUS
<1>2. PICK T \in F : \A U \in F : U \subseteq T => U = T
  <2>1. F \subseteq SUBSET S
    OBVIOUS
  <2> HIDE DEF F
  <2> QED
    BY <1>1, <2>1, SmallestSet DEF IsSmallest
<1> DEFINE f == [s \in SUBSET T |-> IF s = {} THEN 0
                                   ELSE 2^Least(s) + Sum(s \ {Least(s)})[s \ {Least(s)}]]
<1>3. ASSUME NEW s \in SUBSET T, s # {}
      PROVE  f[s \ {Least(s)}] = Sum(s \ {Least(s)})[s \ {Least(s)}]
  <2> DEFINE u == s \ {Least(s)}
             h == Sum(u)
  <2>1. Least(s) \in s
    BY <1>3, LeastIn
  <2>2. u \in SUBSET T /\ u # T /\ u \in SUBSET S
    BY <2>1
  <2>3. IsSum(h, u)
    BY <1>2, <2>2
  <2>4. IsFiniteSet(u)
    BY <2>2, FS_Subset
  <2>5. f[u] = IF u = {} THEN 0 ELSE 2^Least(u) + Sum(u \ {Least(u)})[u \ {Least(u)}]
    BY <2>2
  <2> HIDE DEF f, u
  <2>6. h[u] = IF u = {} THEN 0 ELSE 2^Least(u) + h[u \ {Least(u)}]
    <3>1. u \in SUBSET u
      OBVIOUS
    <3> HIDE DEF h
    <3> QED
      BY <2>3, <3>1, SumAt
  <2>7. CASE u = {}
    <3>1. f[u] = 0
      BY <2>5, <2>7
    <3>2. h[u] = 0
      BY <2>6, <2>7
    <3> QED
      BY <3>1, <3>2 DEF u
  <2>8. CASE u # {}
    <3> DEFINE v == u \ {Least(u)}
    <3>1. Least(u) \in u
      BY <2>8, LeastIn
    <3>2. v \in SUBSET u /\ v \in SUBSET S /\ v \subseteq T /\ v # T
      BY <2>2, <3>1
    <3>3. IsSum(Sum(v), v)
      BY <1>2, <3>2
    <3>4. Sum(v)[v] = h[v]
      BY <2>3, <2>4, <3>2, <3>3, SumUnique
    <3>5. h[u] = 2^Least(u) + h[v]
      BY <2>6, <2>8
    <3>6. f[u] = 2^Least(u) + Sum(v)[v]
      BY <2>5, <2>8
    <3> QED
      BY <3>4, <3>5, <3>6 DEF u, v
  <2> QED
    BY <2>7, <2>8
<1>4. IsSum(f, T)
  <2>1. \A s \in SUBSET T :
          f[s] = IF s = {} THEN 0 ELSE 2^Least(s) + f[s \ {Least(s)}]
    BY <1>3
  <2>2. f = [s \in SUBSET T |-> f[s]]
    OBVIOUS
  <2> HIDE DEF f
  <2> QED
    BY <2>1, <2>2 DEF IsSum
<1> HIDE DEF f
<1>5. IsSum(Sum(T), T)
  BY <1>4 DEF Sum
<1> QED
  BY <1>2, <1>5

LEMMA NumberEmpty == Number({}) = 0
<1>1. IsSum(Sum({}), {})
  BY SumExists, FS_EmptySet
<1> QED
  BY <1>1, SumAt, NumberIsSum

LEMMA NumberLeast ==
  ASSUME NEW S, IsFiniteSet(S), S # {}
  PROVE  Least(S) \in S /\ Number(S) = 2^Least(S) + Number(S \ {Least(S)})
<1> DEFINE f == Sum(S)
           u == S \ {Least(S)}
<1>1. IsSum(f, S)
  BY SumExists
<1>2. IsSum(Sum(u), u)
  BY SumExists, FS_RemoveElement
<1>3. Least(S) \in S
  BY LeastIn
<1>4. f[S] = 2^Least(S) + f[u]
  <2>1. S \in SUBSET S
    OBVIOUS
  <2> HIDE DEF f
  <2> QED
    BY <1>1, <2>1, SumAt
<1>5. f[u] = Sum(u)[u]
  <2>1. u \in SUBSET S
    OBVIOUS
  <2> HIDE DEF f, u
  <2> QED
    BY <1>1, <1>2, <2>1, SumUnique
<1> QED
  BY <1>3, <1>4, <1>5, NumberIsSum

(* The sum of a finite set of positions is a number.                       *)
LEMMA NumberNat ==
  ASSUME NEW S, S \subseteq Nat, IsFiniteSet(S)
  PROVE  Number(S) \in Nat
<1> DEFINE F == {T \in SUBSET S : Number(T) \notin Nat}
<1>1. SUFFICES ASSUME F # {} PROVE FALSE
  OBVIOUS
<1>2. PICK T \in F : \A U \in F : U \subseteq T => U = T
  <2>1. F \subseteq SUBSET S
    OBVIOUS
  <2> HIDE DEF F
  <2>2. \E T \in F : IsSmallest(T, F)
    BY <1>1, <2>1, SmallestSet, Zenon
  <2> QED
    BY <2>2, Zenon DEF IsSmallest
<1>3. T # {}
  <2>1. Number(T) \notin Nat
    OBVIOUS
  <2> SUFFICES ASSUME T = {} PROVE FALSE
    OBVIOUS
  <2> QED
    BY <2>1, NumberEmpty
<1>4. IsFiniteSet(T) /\ T \subseteq S
  BY FS_Subset
<1>5. Least(T) \in T /\ Number(T) = 2^Least(T) + Number(T \ {Least(T)})
  BY <1>3, <1>4, NumberLeast
<1>6. T \ {Least(T)} \notin F
  BY <1>2, <1>5
<1>7. Number(T \ {Least(T)}) \in Nat
  BY <1>4, <1>6
<1>8. 2^Least(T) \in Nat
  BY <1>4, <1>5, PowerNat
<1> QED
  BY <1>5, <1>7, <1>8

(* Any element may be taken first.                                         *)
LEMMA NumberTake ==
  ASSUME NEW S, S \subseteq Nat, IsFiniteSet(S), NEW x \in S
  PROVE  Number(S) = 2^x + Number(S \ {x})
<1> DEFINE F == {T \in SUBSET S : \E y \in T : Number(T) # 2^y + Number(T \ {y})}
<1>1. SUFFICES ASSUME F # {} PROVE FALSE
  OBVIOUS
<1>2. PICK T \in F : \A U \in F : U \subseteq T => U = T
  <2>1. F \subseteq SUBSET S
    OBVIOUS
  <2> HIDE DEF F
  <2>2. \E T \in F : IsSmallest(T, F)
    BY <1>1, <2>1, SmallestSet, Zenon
  <2> QED
    BY <2>2, Zenon DEF IsSmallest
<1>3. PICK y \in T : Number(T) # 2^y + Number(T \ {y})
  OBVIOUS
<1>4. IsFiniteSet(T) /\ T \subseteq S
  BY FS_Subset
<1> DEFINE l == Least(T)
<1>5. l \in T /\ Number(T) = 2^l + Number(T \ {l})
  BY <1>3, <1>4, NumberLeast
<1> HIDE DEF l
<1>6. y # l
  BY <1>3, <1>5
<1>7. ASSUME NEW z \in T, NEW t \in T, z # t
      PROVE  Number(T \ {z}) = 2^t + Number((T \ {z}) \ {t})
  <2>1. T \ {z} \subseteq T /\ T \ {z} # T /\ T \ {z} \in SUBSET S
    BY <1>4
  <2>2. T \ {z} \notin F
    BY <1>2, <2>1
  <2> QED
    BY <1>7, <2>1, <2>2
<1>8. /\ Number(T \ {l}) = 2^y + Number((T \ {l}) \ {y})
      /\ Number(T \ {y}) = 2^l + Number((T \ {y}) \ {l})
      /\ (T \ {l}) \ {y} = (T \ {y}) \ {l}
  BY <1>5, <1>6, <1>7
<1>9. 2^l \in Nat /\ 2^y \in Nat /\ Number((T \ {y}) \ {l}) \in Nat
  <2>1. (T \ {y}) \ {l} \in SUBSET Nat /\ IsFiniteSet((T \ {y}) \ {l})
    BY <1>4, FS_Subset
  <2> QED
    BY <1>4, <1>5, <2>1, PowerNat, NumberNat
<1> DEFINE r == Number((T \ {y}) \ {l})
           n == Number(T)
           ny == Number(T \ {y})
           p == 2^l
           q == 2^y
<1>10. n = p + (q + r) /\ ny = p + r /\ p \in Nat /\ q \in Nat /\ r \in Nat
  BY <1>5, <1>8, <1>9
<1>11. n # q + ny
  BY <1>3
<1> HIDE DEF n, ny, p, q, r
<1> QED
  BY <1>10, <1>11

LEMMA NumberAdd ==
  ASSUME NEW S, S \subseteq Nat, IsFiniteSet(S), NEW x \in Nat, x \notin S
  PROVE  Number(S \cup {x}) = 2^x + Number(S)
<1>1. IsFiniteSet(S \cup {x}) /\ S \cup {x} \in SUBSET Nat /\ (S \cup {x}) \ {x} = S
  BY FS_AddElement
<1>2. Number(S \cup {x}) = 2^x + Number((S \cup {x}) \ {x})
  BY <1>1, NumberTake
<1> QED
  BY <1>1, <1>2

(* The sums of disjoint sets add up.                                       *)
LEMMA NumberUnion ==
  ASSUME NEW A, A \subseteq Nat, IsFiniteSet(A), NEW B, B \subseteq Nat, IsFiniteSet(B),
         A \cap B = {}
  PROVE  Number(A \cup B) = Number(A) + Number(B)
<1> DEFINE F == {T \in SUBSET B : Number(A \cup T) # Number(A) + Number(T)}
<1>1. SUFFICES ASSUME F # {} PROVE FALSE
  OBVIOUS
<1>2. PICK T \in F : \A U \in F : U \subseteq T => U = T
  <2>1. F \subseteq SUBSET B
    OBVIOUS
  <2> HIDE DEF F
  <2>2. \E T \in F : IsSmallest(T, F)
    BY <1>1, <2>1, SmallestSet, Zenon
  <2> QED
    BY <2>2, Zenon DEF IsSmallest
<1>3. T \subseteq B /\ Number(A \cup T) # Number(A) + Number(T)
  OBVIOUS
<1>4. Number(A) \in Nat
  BY NumberNat
<1>5. T # {}
  <2> SUFFICES ASSUME T = {} PROVE FALSE
    OBVIOUS
  <2>1. A \cup T = A /\ Number(T) = 0
    BY NumberEmpty
  <2> QED
    BY <1>3, <1>4, <2>1
<1>6. PICK x : x \in T
  BY <1>5
<1> DEFINE V == T \ {x}
<1>7. V \notin F /\ V \subseteq B /\ x \notin V /\ x \in Nat /\ x \notin A /\ T = V \cup {x}
  BY <1>2, <1>3, <1>6
<1>8. Number(A \cup V) = Number(A) + Number(V)
  BY <1>7
<1>9. IsFiniteSet(V) /\ V \in SUBSET Nat
  BY <1>7, FS_Subset
<1> HIDE DEF V, F
<1>10. Number(T) = 2^x + Number(V)
  BY <1>7, <1>9, NumberAdd
<1>11. Number(A \cup T) = 2^x + Number(A \cup V)
  <2>1. IsFiniteSet(A \cup V) /\ A \cup V \in SUBSET Nat /\ x \notin A \cup V
    BY <1>7, <1>9, FS_Union
  <2>2. A \cup T = (A \cup V) \cup {x}
    BY <1>7
  <2> QED
    BY <1>7, <2>1, <2>2, NumberAdd
<1>12. 2^x \in Nat /\ Number(V) \in Nat
  BY <1>7, <1>9, PowerNat, NumberNat
<1> QED
  BY <1>3, <1>4, <1>8, <1>10, <1>11, <1>12

-----------------------------------------------------------------------------
(* Quotients and remainders by numbers that are not literals.              *)
LEMMA DivMod ==
  ASSUME NEW M \in Nat \ {0}, NEW x \in Int
  PROVE  /\ x = M * (x \div M) + (x % M)
         /\ x \div M \in Int /\ x % M \in Nat /\ x % M < M
  OBVIOUS

LEMMA Multiples ==
  ASSUME NEW M \in Nat \ {0}, NEW x \in Int
  PROVE  (x >= 1 => M * x >= M) /\ (x <= -1 => M * x <= -M)
  OBVIOUS

LEMMA DivModIs ==
  ASSUME NEW M \in Nat \ {0}, NEW q \in Int, NEW r \in Nat, r < M
  PROVE  (M * q + r) \div M = q /\ (M * q + r) % M = r
<1> DEFINE x == M * q + r
           p == x \div M
           s == x % M
           d == p - q
<1>1. x \in Int /\ x = M * q + r
  OBVIOUS
<1> HIDE DEF x
<1>2. x = M * p + s /\ p \in Int /\ s \in Nat /\ s < M
  BY <1>1, DivMod
<1> HIDE DEF p, s
<1>3. M * d = r - s /\ d \in Int
  BY <1>1, <1>2
<1>4. (d >= 1 => M * d >= M) /\ (d <= -1 => M * d <= -M)
  BY <1>3, Multiples
<1>5. ~ (d >= 1) /\ ~ (d <= -1)
  <2> HIDE DEF d
  <2> QED
    BY <1>2, <1>3, <1>4
<1>6. d = 0
  <2> HIDE DEF d
  <2> QED
    BY <1>3, <1>5
<1>7. p = q
  BY <1>2, <1>6
<1>8. s = r
  BY <1>1, <1>2, <1>7
<1> QED
  BY <1>7, <1>8 DEF p, s, x

LEMMA DivModEq ==
  ASSUME NEW M \in Nat \ {0}, NEW q \in Int, NEW r \in Nat, r < M, NEW x, x = M * q + r
  PROVE  x \div M = q /\ x % M = r
  BY DivModIs

(* The digits of x in the base A, above its last B * A.                    *)
LEMMA Digits ==
  ASSUME NEW A \in Nat \ {0}, NEW B \in Nat \ {0}, NEW x \in Int
  PROVE  /\ A * B \in Nat \ {0}
         /\ x \div (A * B) = (x \div A) \div B
         /\ x % (A * B) = A * ((x \div A) % B) + (x % A)
<1> DEFINE y == x \div A
           r == x % A
           q == y \div B
           s == y % B
           C == A * B
<1>1. x = A * y + r /\ y \in Int /\ r \in Nat /\ r < A
  BY DivMod
<1> HIDE DEF y, r
<1>2. y = B * q + s /\ q \in Int /\ s \in Nat /\ s < B
  BY <1>1, DivMod
<1> HIDE DEF q, s
<1>3. C \in Nat \ {0}
  OBVIOUS
<1>4. x = C * q + (A * s + r)
  <2>1. A * y = A * (B * q) + A * s
    BY <1>1, <1>2
  <2>2. A * (B * q) = C * q
    BY <1>2
  <2> QED
    BY <1>1, <1>2, <2>1, <2>2
<1>5. A * s + r \in Nat /\ A * s + r < C
  <2>1. B - 1 - s \in Nat /\ B = (s + 1) + (B - 1 - s)
    BY <1>2
  <2>2. C = A * (s + 1) + A * (B - 1 - s)
    BY <1>2, <2>1
  <2>3. A * (B - 1 - s) \in Nat
    BY <2>1
  <2>4. A * (s + 1) = A * s + A
    BY <1>2
  <2>5. A * s \in Nat
    BY <1>2
  <2> HIDE DEF C
  <2> DEFINE t == A * s
             u == A * (B - 1 - s)
  <2>6. C = (t + A) + u /\ t \in Nat /\ u \in Nat
    BY <2>2, <2>3, <2>4, <2>5
  <2> HIDE DEF t, u
  <2>7. t + r \in Nat /\ t + r < C
    BY <1>1, <2>6
  <2> QED
    BY <2>7 DEF t
<1> DEFINE m == A * s + r
<1>6. m \in Nat /\ m < C
  BY <1>5
<1> HIDE DEF m, C
<1>7. (C * q + m) \div C = q /\ (C * q + m) % C = m
  BY <1>2, <1>3, <1>6, DivModIs
<1> QED
  BY <1>3, <1>4, <1>7 DEF m, C, q, s, y, r

(* A multiple of the modulus may be added or dropped.                      *)
LEMMA ModShift ==
  ASSUME NEW M \in Nat \ {0}, NEW x \in Int, NEW k \in Int
  PROVE  (x + M * k) % M = x % M
<1> DEFINE q == x \div M
           r == x % M
<1>1. x = M * q + r /\ q \in Int /\ r \in Nat /\ r < M
  BY DivMod
<1> HIDE DEF q, r
<1>2. x + M * k = M * (q + k) + r /\ q + k \in Int
  BY <1>1
<1>3. (M * (q + k) + r) % M = r
  BY <1>1, <1>2, DivModIs
<1> QED
  BY <1>2, <1>3 DEF r

LEMMA ModOfMod ==
  ASSUME NEW A \in Nat \ {0}, NEW B \in Nat \ {0}, NEW x \in Int
  PROVE  (x % (A * B)) % A = x % A
<1> DEFINE r == x % A
           s == (x \div A) % B
<1>1. x % (A * B) = A * s + r
  BY Digits
<1>2. r \in Nat /\ r < A /\ x \div A \in Int
  BY DivMod
<1>3. s \in Nat
  BY <1>2, DivMod
<1> HIDE DEF r, s
<1>4. (A * s + r) % A = r
  BY <1>2, <1>3, DivModIs
<1> QED
  BY <1>1, <1>4 DEF r

-----------------------------------------------------------------------------
(* The bits of x below a width are the positions of x modulo its power.    *)
LEMMA BitsBelow ==
  ASSUME NEW w \in Nat, NEW x
  PROVE  Bits(w, x) \subseteq 0 .. w - 1 /\ Bits(w, x) \subseteq Nat /\ IsFiniteSet(Bits(w, x))
<1>1. Bits(w, x) \subseteq 0 .. w - 1
  BY DEF Bits
<1>2. IsFiniteSet(0 .. w - 1)
  BY FS_Interval
<1>3. IsFiniteSet(Bits(w, x))
  BY <1>1, <1>2, FS_Subset
<1> QED
  BY <1>1, <1>3

(* The bits of x below w are the number x modulo 2^w.                      *)
THEOREM NumberBits ==
  ASSUME NEW w \in Nat, NEW x \in Int
  PROVE  Number(Bits(w, x)) = x % 2^w
<1> DEFINE F == {n \in Nat : Number(Bits(n, x)) # x % 2^n}
<1>1. SUFFICES ASSUME F # {} PROVE FALSE
  OBVIOUS
<1>2. PICK n \in F : \A k \in F : n <= k
  BY <1>1, LeastNumber
<1>3. n \in Nat /\ Number(Bits(n, x)) # x % 2^n
  OBVIOUS
<1>4. n # 0
  <2> SUFFICES ASSUME n = 0 PROVE FALSE
    OBVIOUS
  <2>1. Bits(0, x) = {}
    BY DEF Bits
  <2>2. Number(Bits(0, x)) = 0
    BY <2>1, NumberEmpty
  <2>3. x % 1 = 0
    OBVIOUS
  <2>4. x % 2^0 = 0
    BY <2>3, PowerZero
  <2>5. Number(Bits(0, x)) # x % 2^0
    BY <1>3, Zenon
  <2> QED
    BY <2>2, <2>4, <2>5
<1> DEFINE v == n - 1
           A == 2^v
           b == (x \div A) % 2
<1>5. v \in Nat /\ v + 1 = n /\ v \notin F
  BY <1>2, <1>3, <1>4
<1>6. Number(Bits(v, x)) = x % A
  BY <1>5
<1> HIDE DEF v, F
<1>7. A \in Nat \ {0}
  BY <1>5, PowerPos
<1>8. 2^n = 2 * A
  BY <1>5, PowerDouble
<1>9. x % (A * 2) = A * b + (x % A)
  <2> DEFINE B == 2
  <2>1. B \in Nat \ {0}
    OBVIOUS
  <2> HIDE DEF A, B
  <2>2. x % (A * B) = A * ((x \div A) % B) + (x % A)
    BY <1>7, <2>1, Digits
  <2> QED
    BY <2>2 DEF B
<1>10. b \in {0, 1}
  <2>1. x \div A \in Int
    BY <1>7, DivMod
  <2> HIDE DEF A
  <2> QED
    BY <2>1
<1>11. x % 2^n = A * b + (x % A)
  <2>1. A * 2 = 2 * A
    BY <1>7
  <2> QED
    BY <1>8, <1>9, <2>1
<1>12. \A i \in Nat : i \in Bits(v, x) <=> i < v /\ (x \div 2^i) % 2 = 1
  BY <1>5 DEF Bits
<1>13. \A i \in Nat : i \in Bits(n, x) <=> i < n /\ (x \div 2^i) % 2 = 1
  BY <1>3 DEF Bits
<1>14. /\ Bits(v, x) \subseteq 0 .. v - 1 /\ Bits(v, x) \subseteq Nat
       /\ Bits(n, x) \subseteq Nat /\ IsFiniteSet(Bits(v, x))
  BY <1>3, <1>5, BitsBelow
<1>15. CASE b = 1
  <2>1. v \in Bits(n, x)
    BY <1>5, <1>13, <1>15
  <2>2. Bits(n, x) = Bits(v, x) \cup {v}
    <3>1. \A i \in Nat : i \in Bits(n, x) <=> i \in Bits(v, x) \/ i = v
      <4>1. ASSUME NEW i \in Nat PROVE i < n <=> i < v \/ i = v
        BY <1>5
      <4> QED
        BY <1>12, <1>13, <2>1, <4>1
    <3> QED
      BY <1>5, <1>14, <3>1
  <2>3. v \notin Bits(v, x)
    BY <1>5, <1>14
  <2>4. Number(Bits(n, x)) = A + Number(Bits(v, x))
    BY <1>5, <1>14, <2>2, <2>3, NumberAdd
  <2>5. A * b = A
    BY <1>7, <1>15
  <2> QED
    BY <1>3, <1>6, <1>11, <2>4, <2>5
<1>16. CASE b = 0
  <2>1. v \notin Bits(n, x)
    BY <1>5, <1>13, <1>16
  <2>2. Bits(n, x) = Bits(v, x)
    <3>1. \A i \in Nat : i \in Bits(n, x) <=> i \in Bits(v, x)
      <4>1. ASSUME NEW i \in Nat PROVE i < n <=> i < v \/ i = v
        BY <1>5
      <4>2. \A i \in Nat : i \in Bits(n, x) => i # v
        BY <2>1
      <4>3. \A i \in Nat : i \in Bits(v, x) => i < n
        BY <1>12, <4>1
      <4> QED
        BY <1>12, <1>13, <4>1, <4>2, <4>3
    <3> QED
      BY <1>14, <3>1
  <2>3. x % A \in Int
    BY <1>7, DivMod
  <2>4. A * b + (x % A) = x % A
    BY <1>7, <1>16, <2>3
  <2> QED
    BY <1>3, <1>6, <1>11, <2>2, <2>4
<1> QED
  BY <1>10, <1>15, <1>16

LEMMA NumberInterval ==
  ASSUME NEW a \in Nat, NEW b \in Nat, a <= b
  PROVE  Number(a .. b - 1) = 2^b - 2^a
<1> DEFINE F == {n \in Nat : Number(a .. (a + n) - 1) # 2^(a + n) - 2^a}
<1>1. SUFFICES F = {}
  <2>1. b - a \in Nat /\ a + (b - a) = b
    OBVIOUS
  <2>2. b - a \notin F
    BY <1>1
  <2> HIDE DEF F
  <2>3. Number(a .. (a + (b - a)) - 1) = 2^(a + (b - a)) - 2^a
    BY <2>1, <2>2 DEF F
  <2> QED
    BY <2>1, <2>3
<1>2. SUFFICES ASSUME F # {} PROVE FALSE
  OBVIOUS
<1>3. PICK n \in F : \A k \in F : n <= k
  BY <1>2, LeastNumber
<1>4. n \in Nat /\ Number(a .. (a + n) - 1) # 2^(a + n) - 2^a
  OBVIOUS
<1>5. 2^a \in Nat
  BY PowerNat
<1>6. n # 0
  <2> SUFFICES ASSUME n = 0 PROVE FALSE
    OBVIOUS
  <2>1. a .. (a + n) - 1 = {} /\ a + n = a
    OBVIOUS
  <2>2. 2^(a + n) = 2^a
    BY <2>1, Zenon
  <2> QED
    BY <1>4, <1>5, <2>1, <2>2, NumberEmpty
<1> DEFINE v == (a + n) - 1
<1>7. n - 1 \in Nat /\ n - 1 \notin F /\ v \in Nat /\ v + 1 = a + n /\ v = a + (n - 1)
  <2>1. n - 1 \in Nat /\ ~ (n <= n - 1)
    BY <1>4, <1>6
  <2>2. n - 1 \notin F
    <3> HIDE DEF F
    <3> QED
      BY <1>3, <2>1
  <2>3. v \in Nat /\ v + 1 = a + n /\ v = a + (n - 1)
    BY <1>4, <2>1
  <2> HIDE DEF F
  <2> QED
    BY <2>1, <2>2, <2>3
<1>8. Number(a .. v - 1) = 2^v - 2^a
  <2>1. Number(a .. (a + (n - 1)) - 1) = 2^(a + (n - 1)) - 2^a
    BY <1>7
  <2> HIDE DEF v
  <2> QED
    BY <1>7, <2>1
<1> HIDE DEF F
<1>9. a .. v = (a .. v - 1) \cup {v} /\ v \notin a .. v - 1 /\ a .. v - 1 \subseteq Nat
  <2>1. v >= a
    BY <1>7
  <2> HIDE DEF v
  <2> QED
    BY <1>7, <2>1
<1>10. IsFiniteSet(a .. v - 1)
  BY <1>7, FS_Interval
<1>11. Number((a .. v - 1) \cup {v}) = 2^v + Number(a .. v - 1)
  <2> HIDE DEF v
  <2> QED
    BY <1>7, <1>9, <1>10, NumberAdd
<1>12. 2^(a + n) = 2 * 2^v /\ 2^v \in Nat
  <2> HIDE DEF v
  <2> QED
    BY <1>7, PowerDouble, PowerNat
<1> DEFINE p == 2^v
           q == 2^a
           r == 2^(a + n)
           m == Number(a .. v)
<1>13. m = p + (p - q) /\ r = 2 * p /\ p \in Nat /\ q \in Nat
  BY <1>5, <1>8, <1>9, <1>11, <1>12
<1>14. m # r - q
  BY <1>4
<1> HIDE DEF m, p, q, r
<1> QED
  BY <1>13, <1>14

(* A sum of positions below a width is a vector of that width.             *)
LEMMA NumberBelow ==
  ASSUME NEW w \in Nat, NEW S, S \subseteq 0 .. w - 1
  PROVE  Number(S) \in BitVector(w)
<1> DEFINE C == (0 .. w - 1) \ S
<1>1. S \subseteq Nat /\ C \subseteq Nat /\ S \cap C = {} /\ S \cup C = 0 .. w - 1
  <2>1. S \subseteq Nat /\ C \subseteq Nat
    OBVIOUS
  <2> DEFINE I == 0 .. w - 1
  <2>2. S \subseteq I /\ C = I \ S
    OBVIOUS
  <2> HIDE DEF I, C
  <2>3. S \cap C = {} /\ S \cup C = I
    BY <2>2
  <2> QED
    BY <2>1, <2>3 DEF I
<1>2. IsFiniteSet(0 .. w - 1)
  BY FS_Interval
<1>3. IsFiniteSet(S) /\ IsFiniteSet(C)
  BY <1>2, FS_Subset
<1> HIDE DEF C
<1>4. Number(0 .. w - 1) = Number(S) + Number(C)
  BY <1>1, <1>3, NumberUnion
<1>5. Number(0 .. w - 1) = 2^w - 1
  <2>1. Number(0 .. w - 1) = 2^w - 2^0
    <3>1. 0 \in Nat /\ 0 <= w
      OBVIOUS
    <3> QED
      BY <3>1, NumberInterval
  <2> QED
    BY <2>1, PowerZero
<1>6. Number(S) \in Nat /\ Number(C) \in Nat /\ 2^w \in Nat
  BY <1>1, <1>3, NumberNat, PowerNat
<1> DEFINE s == Number(S)
           c == Number(C)
           p == 2^w
<1>7. p - 1 = s + c /\ s \in Nat /\ c \in Nat /\ p \in Nat
  BY <1>4, <1>5, <1>6
<1> HIDE DEF s, c, p
<1>8. s \in 0 .. p - 1
  BY <1>7
<1> QED
  BY <1>8 DEF BitVector, s, p

(* Moving every position up by n multiplies by 2^n.                        *)
LEMMA NumberUp ==
  ASSUME NEW S, S \subseteq Nat, IsFiniteSet(S), NEW n \in Nat
  PROVE  Number({i + n : i \in S}) = 2^n * Number(S)
<1> DEFINE up(T) == {i + n : i \in T}
           F == {T \in SUBSET S : Number(up(T)) # 2^n * Number(T)}
<1>1. SUFFICES ASSUME F # {} PROVE FALSE
  OBVIOUS
<1>2. PICK T \in F : \A U \in F : U \subseteq T => U = T
  <2>1. F \subseteq SUBSET S
    OBVIOUS
  <2> HIDE DEF F
  <2>2. \E T \in F : IsSmallest(T, F)
    BY <1>1, <2>1, SmallestSet, Zenon
  <2> QED
    BY <2>2, Zenon DEF IsSmallest
<1>3. T \subseteq S /\ Number(up(T)) # 2^n * Number(T)
  OBVIOUS
<1>4. 2^n \in Nat
  BY PowerNat
<1>5. T # {}
  <2> SUFFICES ASSUME T = {} PROVE FALSE
    OBVIOUS
  <2>1. up(T) = {}
    OBVIOUS
  <2>2. Number(T) = 0 /\ Number(up(T)) = 0
    BY <2>1, NumberEmpty
  <2> QED
    BY <1>3, <1>4, <2>2
<1>6. PICK x : x \in T
  BY <1>5
<1> DEFINE V == T \ {x}
<1>7. V \notin F /\ V \subseteq S /\ x \notin V /\ x \in Nat /\ T = V \cup {x}
  BY <1>2, <1>3, <1>6
<1>8. Number(up(V)) = 2^n * Number(V)
  BY <1>7
<1> HIDE DEF V, F
<1>9. V \subseteq Nat /\ IsFiniteSet(V)
  BY <1>7, FS_Subset
<1>10. up(T) = up(V) \cup {x + n} /\ x + n \notin up(V) /\ up(V) \subseteq Nat
  BY <1>7, <1>9
<1>11. IsFiniteSet(up(V))
  <2> DEFINE f == [i \in V |-> i + n]
  <2>1. f \in [V -> up(V)] /\ \A t \in up(V) : \E i \in V : f[i] = t
    OBVIOUS
  <2> HIDE DEF f, up
  <2>2. f \in Surjection(V, up(V))
    BY <2>1 DEF Surjection
  <2> QED
    BY <1>9, <2>2, FS_Surjection
<1>12. Number(T) = 2^x + Number(V)
  BY <1>7, <1>9, NumberAdd
<1>13. Number(up(T)) = 2^(x + n) + Number(up(V))
  <2>1. x + n \in Nat
    BY <1>7
  <2> HIDE DEF up
  <2> QED
    BY <1>10, <1>11, <2>1, NumberAdd
<1>14. 2^(x + n) = 2^x * 2^n /\ 2^x \in Nat /\ Number(V) \in Nat
  BY <1>7, <1>9, PowerSum, PowerNat, NumberNat
<1> DEFINE p == 2^x
           q == 2^n
           v == Number(V)
           t == Number(T)
           u == Number(up(T))
<1>15. t = p + v /\ u = p * q + q * v /\ p \in Nat /\ q \in Nat /\ v \in Nat
  BY <1>4, <1>8, <1>12, <1>13, <1>14
<1>16. u # q * t
  BY <1>3
<1> HIDE DEF p, q, v, t, u, up
<1>17. q * t = q * p + q * v /\ q * p = p * q
  BY <1>15
<1> QED
  BY <1>15, <1>16, <1>17

-----------------------------------------------------------------------------
(* The low bits of a vector: slices and masks.                             *)
LEMMA SliceLow ==
  ASSUME NEW w \in Nat, NEW l \in Nat, l < w, NEW x \in Int
  PROVE  Slice(w, l, 0, x) = x % 2^(l + 1)
<1>1. {i - 0 : i \in Bits(w, x) \cap (0 .. l)} = Bits(l + 1, x)
  <2>1. ASSUME NEW i \in Bits(w, x) \cap (0 .. l) PROVE i - 0 \in Bits(l + 1, x)
    BY DEF Bits
  <2>2. ASSUME NEW i \in Bits(l + 1, x)
        PROVE  i \in Bits(w, x) \cap (0 .. l) /\ i = i - 0
    BY DEF Bits
  <2> QED
    BY <2>1, <2>2
<1>2. Number(Bits(l + 1, x)) = x % 2^(l + 1)
  BY NumberBits
<1> QED
  BY <1>1, <1>2 DEF Slice

LEMMA MaskBits ==
  ASSUME NEW k \in Nat, NEW i \in Nat
  PROVE  ((2^k - 1) \div 2^i) % 2 = 1 <=> i < k
<1> DEFINE A == 2^i
           K == 2^k
<1>1. A \in Nat \ {0} /\ K \in Nat \ {0}
  BY PowerPos
<1>2. CASE i < k
  <2> DEFINE B == 2^(k - i - 1)
  <2>1. k - i - 1 \in Nat /\ k = i + ((k - i - 1) + 1) /\ (k - i - 1) + 1 \in Nat
    BY <1>2
  <2>2. B \in Nat \ {0}
    BY <2>1, PowerPos
  <2>3. 2^((k - i - 1) + 1) = 2 * B
    BY <2>1, PowerDouble
  <2>4. 2^(i + ((k - i - 1) + 1)) = A * 2^((k - i - 1) + 1)
    BY <2>1, PowerSum
  <2>5. K = A * (2 * B)
    BY <2>1, <2>3, <2>4
  <2> HIDE DEF A, B, K
  <2>6. K - 1 = A * (2 * B - 1) + (A - 1)
    BY <1>1, <2>2, <2>5
  <2>7. 2 * B - 1 \in Int /\ A - 1 \in Nat /\ A - 1 < A
    BY <1>1, <2>2
  <2>8. (K - 1) \div A = 2 * B - 1
    BY <1>1, <2>6, <2>7, DivModIs
  <2>9. (2 * B - 1) % 2 = 1
    BY <2>2
  <2> QED
    BY <1>2, <2>8, <2>9 DEF A, K
<1>3. CASE ~ (i < k)
  <2>1. K <= A
    BY <1>3, PowerMonotonic
  <2> HIDE DEF A, K
  <2>2. K - 1 = A * 0 + (K - 1) /\ K - 1 \in Nat /\ K - 1 < A
    BY <1>1, <2>1
  <2>3. (K - 1) \div A = 0
    BY <1>1, <2>2, DivModIs
  <2>4. ((K - 1) \div A) % 2 = 0
    BY <2>3
  <2> QED
    BY <1>3, <2>4 DEF A, K
<1> QED
  BY <1>2, <1>3

LEMMA AndMask ==
  ASSUME NEW w \in Nat, NEW k \in Nat, k <= w, NEW y \in Int
  PROVE  And(w, y, 2^k - 1) = y % 2^k
<1>1. ASSUME NEW i PROVE i \in Bits(w, 2^k - 1) <=> i \in 0 .. k - 1
  <2>1. i \in Bits(w, 2^k - 1) <=> i \in 0 .. w - 1 /\ ((2^k - 1) \div 2^i) % 2 = 1
    BY DEF Bits
  <2>2. CASE i \in 0 .. w - 1
    <3>1. i \in Nat /\ i < w
      BY <2>2
    <3>2. ((2^k - 1) \div 2^i) % 2 = 1 <=> i < k
      BY <3>1, MaskBits
    <3> QED
      BY <2>1, <2>2, <3>1, <3>2
  <2>3. CASE i \notin 0 .. w - 1
    <3>1. i \notin 0 .. k - 1
      BY <2>3
    <3> QED
      BY <2>1, <2>3, <3>1
  <2> QED
    BY <2>2, <2>3
<1>2. Bits(w, y) \cap Bits(w, 2^k - 1) = Bits(k, y)
  <2>1. Bits(w, 2^k - 1) = 0 .. k - 1
    BY <1>1
  <2>2. Bits(w, y) \cap (0 .. k - 1) = Bits(k, y)
    BY DEF Bits
  <2> QED
    BY <2>1, <2>2
<1> QED
  BY <1>2, NumberBits DEF And

-----------------------------------------------------------------------------
(* A vector as a signed number.                                            *)
TwosComplement(w, x) == IF 2 * x < 2^w THEN x ELSE x - 2^w

LEMMA VectorInPower ==
  ASSUME NEW w \in Nat, NEW x \in BitVector(w)
  PROVE  x \in Nat /\ x < 2^w /\ x % 2^w = x
<1> DEFINE M == 2^w
<1>1. M \in Nat \ {0} /\ x \in 0 .. M - 1
  BY PowerPos DEF BitVector
<1> HIDE DEF M
<1>2. x \in Nat /\ x < M /\ x % M = x
  BY <1>1
<1> QED
  BY <1>2 DEF M

LEMMA NegativeIff ==
  ASSUME NEW w \in Nat \ {0}, NEW x \in BitVector(w)
  PROVE  IsNegative(w, x) <=> ~ (2 * x < 2^w)
<1> DEFINE H == 2^(w - 1)
           q == x \div H
           r == x % H
<1>1. w - 1 \in Nat /\ (w - 1) + 1 = w /\ w - 1 \in 0 .. w - 1
  OBVIOUS
<1>2. 2^w = 2 * H /\ H \in Nat \ {0}
  BY <1>1, PowerDouble, PowerPos
<1>3. x \in Nat /\ x < 2 * H
  BY <1>2, VectorInPower
<1>4. IsNegative(w, x) <=> q % 2 = 1
  BY <1>1 DEF IsNegative, Bits
<1> HIDE DEF H
<1>5. x = H * q + r /\ q \in Int /\ r \in Nat /\ r < H
  BY <1>2, <1>3, DivMod
<1> HIDE DEF q, r
<1>6. CASE x < H
  <2>1. q = 0
    <3>1. H * 0 + x = x
      BY <1>2, <1>3
    <3>2. x \div H = 0
      BY <1>2, <1>3, <1>6, <3>1, DivModIs
    <3> QED
      BY <3>2 DEF q
  <2>2. 2 * x < 2 * H
    BY <1>2, <1>3, <1>6
  <2>3. q % 2 = 0
    BY <2>1
  <2> QED
    BY <1>2, <1>4, <2>2, <2>3
<1>7. CASE ~ (x < H)
  <2>1. q = 1
    <3> DEFINE one == 1
               s == x - H
    <3>1. x = H * one + s /\ one \in Int /\ s \in Nat /\ s < H
      BY <1>2, <1>3, <1>7
    <3> HIDE DEF one, s
    <3>2. x \div H = one
      BY <1>2, <3>1, DivModEq
    <3> QED
      BY <3>2 DEF q, one
  <2>2. ~ (2 * x < 2 * H)
    BY <1>2, <1>3, <1>7
  <2>3. q % 2 = 1
    BY <2>1
  <2> QED
    BY <1>2, <1>4, <2>2, <2>3
<1> QED
  BY <1>6, <1>7

LEMMA TwosComplementInt ==
  ASSUME NEW w \in Nat, NEW x \in BitVector(w)
  PROVE  TwosComplement(w, x) \in Int
<1>1. x \in Nat /\ 2^w \in Nat
  BY VectorInPower, PowerNat
<1> QED
  BY <1>1 DEF TwosComplement

(* The comparison of the IR is that of the signed numbers, for all vectors. *)
THEOREM LtIsSigned ==
  ASSUME NEW w \in Nat \ {0}, NEW x \in BitVector(w), NEW y \in BitVector(w)
  PROVE  Lt(w, x, y) <=> TwosComplement(w, x) < TwosComplement(w, y)
<1> DEFINE M == 2^w
           nx == IsNegative(w, x)
           ny == IsNegative(w, y)
<1>1. M \in Nat /\ x \in Nat /\ y \in Nat /\ x < M /\ y < M
  BY VectorInPower, PowerNat
<1>2. (nx <=> ~ (2 * x < M)) /\ (ny <=> ~ (2 * y < M))
  BY NegativeIff
<1>3. /\ nx \in BOOLEAN /\ ny \in BOOLEAN
  BY DEF IsNegative
<1>4. Lt(w, x, y) <=> \/ (nx <=> ny) /\ x < y
                      \/ ~ (nx <=> ny) /\ nx
  <2>1. Lt(w, x, y) = IF nx = ny THEN x < y ELSE nx
    BY DEF Lt
  <2> HIDE DEF nx, ny
  <2> QED
    BY <1>3, <2>1
<1> HIDE DEF M, nx, ny
<1>5. CASE 2 * x < M /\ 2 * y < M
  BY <1>1, <1>2, <1>4, <1>5 DEF TwosComplement, M
<1>6. CASE 2 * x < M /\ ~ (2 * y < M)
  <2>1. ~ (x < y - M)
    BY <1>1
  <2> QED
    BY <1>2, <1>4, <1>6, <2>1 DEF TwosComplement, M
<1>7. CASE ~ (2 * x < M) /\ 2 * y < M
  <2>1. x - M < y
    BY <1>1
  <2> QED
    BY <1>2, <1>4, <1>7, <2>1 DEF TwosComplement, M
<1>8. CASE ~ (2 * x < M) /\ ~ (2 * y < M)
  <2>1. x - M < y - M <=> x < y
    BY <1>1
  <2> QED
    BY <1>2, <1>4, <1>8, <2>1 DEF TwosComplement, M
<1> QED
  BY <1>5, <1>6, <1>7, <1>8

(* The sign extension of the IR keeps the signed number, for every width.  *)
THEOREM SignExtIs ==
  ASSUME NEW w \in Nat \ {0}, NEW n \in Nat, NEW x \in BitVector(w)
  PROVE  SignExt(w, n, x) = TwosComplement(w, x) % 2^(w + n)
<1> DEFINE M == 2^w
           L == 2^(w + n)
<1>1. M \in Nat \ {0} /\ L \in Nat \ {0} /\ M <= L
  BY PowerPos, PowerMonotonic
<1>2. x \in Nat /\ x < M /\ Number(Bits(w, x)) = x
  BY VectorInPower, NumberBits
<1>3. CASE 2 * x < M
  <2>1. ~ IsNegative(w, x)
    BY <1>3, NegativeIff
  <2>2. Bits(w, x) \cup {} = Bits(w, x)
    OBVIOUS
  <2>3. SignExt(w, n, x) = x
    BY <1>2, <2>1, <2>2 DEF SignExt
  <2>4. TwosComplement(w, x) = x
    BY <1>3 DEF TwosComplement
  <2> HIDE DEF M, L
  <2>5. x % L = x
    BY <1>1, <1>2
  <2> QED
    BY <2>3, <2>4, <2>5 DEF L
<1>4. CASE ~ (2 * x < M)
  <2>1. IsNegative(w, x)
    BY <1>4, NegativeIff
  <2>2. SignExt(w, n, x) = Number(Bits(w, x) \cup (w .. w + n - 1))
    BY <2>1 DEF SignExt
  <2>3. /\ Bits(w, x) \subseteq Nat /\ IsFiniteSet(Bits(w, x))
        /\ Bits(w, x) \subseteq 0 .. w - 1
    BY BitsBelow
  <2>4. w .. w + n - 1 \subseteq Nat /\ IsFiniteSet(w .. w + n - 1)
    BY FS_Interval
  <2>5. Bits(w, x) \cap (w .. w + n - 1) = {}
    BY <2>3
  <2>6. SignExt(w, n, x) = x + Number(w .. w + n - 1)
    BY <1>2, <2>2, <2>3, <2>4, <2>5, NumberUnion
  <2>7. Number(w .. w + n - 1) = L - M
    <3>1. w + n \in Nat /\ w <= w + n
      OBVIOUS
    <3> QED
      BY <3>1, NumberInterval
  <2>8. TwosComplement(w, x) = x - M
    BY <1>4 DEF TwosComplement
  <2> HIDE DEF M, L
  <2>9. (x - M) % L = x + (L - M)
    <3> DEFINE s == x + (L - M)
               k == 0 - 1
               y == x - M
    <3>1. y = L * k + s /\ k \in Int /\ s \in Nat /\ s < L
      BY <1>1, <1>2
    <3> HIDE DEF k, s, y
    <3>2. y % L = s
      BY <1>1, <3>1, DivModEq
    <3> QED
      BY <3>2 DEF s, y
  <2> QED
    BY <2>6, <2>7, <2>8, <2>9 DEF L
<1> QED
  BY <1>3, <1>4

-----------------------------------------------------------------------------
(* A shift to the left multiplies by a power of two, modulo 2^w.           *)
THEOREM LeftShiftIs ==
  ASSUME NEW w \in Nat, NEW n \in Nat, n <= w, NEW x \in Int
  PROVE  LeftShift(w, x, n) = (x * 2^n) % 2^w
<1> DEFINE v == w - n
           A == 2^n
           B == 2^v
<1>1. v \in Nat /\ n + v = w
  OBVIOUS
<1>2. A \in Nat \ {0} /\ B \in Nat \ {0} /\ 2^w = A * B
  <2>1. 2^(n + v) = A * B
    BY <1>1, PowerSum
  <2> QED
    BY <1>1, <2>1, PowerPos
<1>3. {i + n : i \in Bits(w, x)} \cap (0 .. w - 1) = {i + n : i \in Bits(v, x)}
  <2>1. ASSUME NEW i \in Bits(w, x), i + n \in 0 .. w - 1 PROVE i \in Bits(v, x)
    BY <1>1, <2>1 DEF Bits
  <2>2. ASSUME NEW i \in Bits(v, x) PROVE i \in Bits(w, x) /\ i + n \in 0 .. w - 1
    BY <1>1 DEF Bits
  <2> QED
    BY <2>1, <2>2
<1> HIDE DEF v
<1>4. Number({i + n : i \in Bits(v, x)}) = A * Number(Bits(v, x))
  <2>1. Bits(v, x) \subseteq Nat /\ IsFiniteSet(Bits(v, x))
    BY <1>1, BitsBelow
  <2> QED
    BY <2>1, NumberUp
<1>5. Number(Bits(v, x)) = x % B
  BY <1>1, NumberBits
<1>6. LeftShift(w, x, n) = A * (x % B)
  BY <1>3, <1>4, <1>5 DEF LeftShift
<1> HIDE DEF A, B
<1> DEFINE y == x * A
           z == 0
<1>7. y = A * x + z /\ z \in Nat /\ z < A /\ y \in Int
  BY <1>2
<1>8. y \div A = x /\ y % A = z
  <2> HIDE DEF y, z
  <2> QED
    BY <1>2, <1>7, DivModEq
<1>9. y % (A * B) = A * ((y \div A) % B) + (y % A)
  <2> HIDE DEF y
  <2> QED
    BY <1>2, <1>7, Digits
<1>10. y % (A * B) = A * (x % B)
  <2>1. x % B \in Int
    BY <1>2, DivMod
  <2> HIDE DEF y
  <2>2. y % (A * B) = A * (x % B) + 0
    BY <1>8, <1>9
  <2> QED
    BY <1>2, <2>1, <2>2
<1> QED
  BY <1>2, <1>6, <1>10 DEF A

(* The bits of a vector from n on are those of its quotient by 2^n.        *)
LEMMA BitsDown ==
  ASSUME NEW w \in Nat, NEW n \in Nat, n <= w, NEW x \in Int
  PROVE  {i - n : i \in Bits(w, x)} \cap (0 .. w - 1) = Bits(w - n, x \div 2^n)
<1> DEFINE v == w - n
           A == 2^n
<1>1. v \in Nat /\ n + v = w
  OBVIOUS
<1>2. A \in Nat \ {0}
  BY PowerPos
<1>3. ASSUME NEW j \in Nat
      PROVE  (x \div A) \div 2^j = x \div 2^(n + j)
  <2> DEFINE J == 2^j
  <2>1. J \in Nat \ {0} /\ 2^(n + j) = A * J
    BY PowerPos, PowerSum
  <2> HIDE DEF A, J
  <2>2. x \div (A * J) = (x \div A) \div J
    BY <1>2, <2>1, Digits
  <2> QED
    BY <2>1, <2>2 DEF J
<1> HIDE DEF A
<1>4. ASSUME NEW j \in Nat
      PROVE  j \in Bits(v, x \div A) <=> n + j \in Bits(w, x)
  <2>1. j \in 0 .. v - 1 <=> n + j \in 0 .. w - 1
    BY <1>1
  <2> HIDE DEF v
  <2> QED
    BY <1>3, <2>1 DEF Bits
<1>5. ASSUME NEW i \in Bits(w, x), i - n \in 0 .. w - 1 PROVE i - n \in Bits(v, x \div A)
  <2>1. i - n \in Nat /\ n + (i - n) = i
    BY <1>5 DEF Bits
  <2> QED
    BY <1>4, <2>1
<1>6. ASSUME NEW j \in Bits(v, x \div A)
      PROVE  j \in 0 .. w - 1 /\ n + j \in Bits(w, x) /\ j = (n + j) - n
  <2>1. j \in Nat /\ j < v
    BY <1>1 DEF Bits
  <2>2. n + j \in Bits(w, x)
    BY <1>4, <2>1
  <2> QED
    BY <1>1, <2>1, <2>2
<1> QED
  BY <1>5, <1>6 DEF A

LEMMA QuotientBelow ==
  ASSUME NEW w \in Nat, NEW n \in Nat, n <= w, NEW x \in BitVector(w)
  PROVE  x \div 2^n \in Nat /\ x \div 2^n < 2^(w - n) /\ 2^w = 2^n * 2^(w - n)
<1> DEFINE A == 2^n
           B == 2^(w - n)
           q == x \div A
           r == x % A
<1>1. w - n \in Nat /\ n + (w - n) = w
  OBVIOUS
<1>2. A \in Nat \ {0} /\ B \in Nat \ {0} /\ 2^w = A * B
  <2>1. 2^(n + (w - n)) = A * B
    BY <1>1, PowerSum
  <2> QED
    BY <1>1, <2>1, PowerPos
<1>3. x \in Nat /\ x < A * B
  BY <1>2, VectorInPower
<1> HIDE DEF A, B
<1>4. x = A * q + r /\ q \in Int /\ r \in Nat /\ r < A
  BY <1>2, <1>3, DivMod
<1> HIDE DEF q, r
<1>5. q >= 0
  <2>1. q <= -1 => A * q <= -A
    BY <1>2, <1>4, Multiples
  <2> QED
    BY <1>2, <1>3, <1>4, <2>1
<1>6. q < B
  <2> DEFINE d == q - B
  <2>1. d \in Int /\ (~ (q < B) => d >= 0)
    BY <1>2, <1>4
  <2>2. A * q = A * B + A * d
    BY <1>2, <1>4
  <2>3. d >= 0 => A * d >= 0
    BY <1>2, <2>1
  <2> HIDE DEF d
  <2> QED
    BY <1>2, <1>3, <1>4, <2>1, <2>2, <2>3
<1> QED
  BY <1>2, <1>4, <1>5, <1>6 DEF q, A, B

(* A shift to the right divides, rounding down.                            *)
THEOREM RightShiftIs ==
  ASSUME NEW w \in Nat, NEW n \in Nat, n <= w, NEW x \in BitVector(w)
  PROVE  RightShift(w, x, n) = x \div 2^n
<1>1. x \in Int
  BY VectorInPower
<1>2. x \div 2^n \in Nat /\ x \div 2^n < 2^(w - n) /\ w - n \in Nat /\ 2^(w - n) \in Nat
  BY QuotientBelow, PowerNat
<1>3. RightShift(w, x, n) = Number(Bits(w - n, x \div 2^n))
  BY <1>1, BitsDown DEF RightShift
<1>4. Number(Bits(w - n, x \div 2^n)) = (x \div 2^n) % 2^(w - n)
  BY <1>2, NumberBits
<1> DEFINE q == x \div 2^n
           B == 2^(w - n)
<1>5. q \in Nat /\ q < B /\ B \in Nat
  BY <1>2
<1> HIDE DEF q, B
<1>6. q % B = q
  BY <1>5
<1> QED
  BY <1>3, <1>4, <1>6 DEF q, B

(* An arithmetic shift to the right divides the signed number, rounding    *)
(* down.                                                                   *)
THEOREM ARightShiftIs ==
  ASSUME NEW w \in Nat \ {0}, NEW n \in Nat, n <= w, NEW x \in BitVector(w)
  PROVE  ARightShift(w, x, n) = (TwosComplement(w, x) \div 2^n) % 2^w
<1> DEFINE A == 2^n
           B == 2^(w - n)
           M == 2^w
           q == x \div A
           r == x % A
           bits == Bits(w - n, q)
<1>1. /\ x \in Nat /\ x < M /\ M \in Nat \ {0} /\ A \in Nat \ {0} /\ B \in Nat \ {0}
      /\ w - n \in Nat
  BY VectorInPower, PowerPos
<1>2. q \in Nat /\ q < B /\ M = A * B
  BY QuotientBelow
<1>3. B <= M
  BY <1>1, PowerMonotonic
<1>4. {i - n : i \in Bits(w, x)} \cap (0 .. w - 1) = bits
  BY <1>1, BitsDown
<1>5. Number(bits) = q
  <2>1. Number(bits) = q % B
    BY <1>1, <1>2, NumberBits
  <2> HIDE DEF q, B, bits
  <2> QED
    BY <1>1, <1>2, <2>1
<1>6. CASE 2 * x < M
  <2>1. ~ IsNegative(w, x)
    BY <1>6, NegativeIff
  <2>2. bits \cup {} = bits
    OBVIOUS
  <2>3. ARightShift(w, x, n) = q
    BY <1>4, <1>5, <2>1, <2>2 DEF ARightShift
  <2>4. TwosComplement(w, x) = x
    BY <1>6 DEF TwosComplement
  <2>5. q % M = q
    <3> HIDE DEF q, M, B
    <3> QED
      BY <1>1, <1>2, <1>3
  <2> QED
    BY <2>3, <2>4, <2>5
<1>7. CASE ~ (2 * x < M)
  <2> DEFINE high == {i \in 0 .. w - 1 : i + n >= w}
  <2>1. IsNegative(w, x)
    BY <1>7, NegativeIff
  <2>2. ARightShift(w, x, n) = Number(bits \cup high)
    BY <1>4, <2>1 DEF ARightShift
  <2>3. high = w - n .. w - 1
    BY <1>1
  <2>4. bits \subseteq 0 .. (w - n) - 1 /\ bits \subseteq Nat /\ IsFiniteSet(bits)
    BY <1>1, BitsBelow
  <2>5. high \subseteq Nat /\ IsFiniteSet(high)
    <3>1. high \subseteq 0 .. w - 1 /\ high \subseteq Nat
      OBVIOUS
    <3>2. IsFiniteSet(0 .. w - 1)
      BY FS_Interval
    <3> HIDE DEF high
    <3> QED
      BY <3>1, <3>2, FS_Subset
  <2>6. bits \cap high = {}
    <3> HIDE DEF bits, high
    <3> QED
      BY <1>1, <2>3, <2>4
  <2>7. Number(bits \cup high) = q + Number(high)
    <3> HIDE DEF bits, high, q
    <3> QED
      BY <1>5, <2>4, <2>5, <2>6, NumberUnion
  <2>8. Number(high) = M - B
    <3>1. w - n <= w
      OBVIOUS
    <3>2. Number(w - n .. w - 1) = 2^w - 2^(w - n)
      BY <1>1, <3>1, NumberInterval
    <3> QED
      BY <2>3, <3>2
  <2>9. TwosComplement(w, x) = x - M
    BY <1>7 DEF TwosComplement
  <2>10. x = A * q + r /\ r \in Nat /\ r < A
    <3> HIDE DEF A
    <3> QED
      BY <1>1, DivMod
  <2> HIDE DEF A, B, M, q, r, bits, high
  <2> DEFINE y == x - M
             p == q - B
             s == q + (M - B)
             k == 0 - 1
  <2>11. y = A * p + r /\ p \in Int /\ y \in Int
    <3>1. A * p = A * q - A * B
      BY <1>1, <1>2
    <3> QED
      BY <1>1, <1>2, <2>10, <3>1
  <2>12. p = M * k + s /\ k \in Int /\ s \in Nat /\ s < M
    BY <1>1, <1>2, <1>3
  <2> HIDE DEF y, p, s, k
  <2>13. y \div A = p
    BY <1>1, <2>10, <2>11, DivModEq
  <2>14. p % M = s
    BY <1>1, <2>12, DivModEq
  <2> QED
    BY <2>2, <2>7, <2>8, <2>9, <2>13, <2>14 DEF y, s, A, M
<1> QED
  BY <1>6, <1>7

-----------------------------------------------------------------------------
(* Moduli of sums and products, of signed numbers and of their quotients.  *)
LEMMA NumberBelowPower ==
  ASSUME NEW n \in Nat
  PROVE  n < 2^n
<1> DEFINE T == {m \in Nat : ~ (m < 2^m)}
<1>1. SUFFICES ASSUME T # {} PROVE FALSE
  OBVIOUS
<1>2. PICK m \in T : \A k \in T : m <= k
  BY <1>1, LeastNumber
<1>3. m \in Nat /\ ~ (m < 2^m)
  OBVIOUS
<1>4. m # 0
  <2> SUFFICES ASSUME m = 0 PROVE FALSE
    OBVIOUS
  <2>1. ~ (0 < 2^0)
    BY <1>3, Zenon
  <2> QED
    BY <2>1, PowerZero
<1>5. m - 1 \in Nat /\ (m - 1) + 1 = m /\ ~ (m <= m - 1)
  BY <1>3, <1>4
<1>6. m - 1 \notin T
  <2> HIDE DEF T
  <2> QED
    BY <1>2, <1>5
<1>7. m - 1 < 2^(m - 1)
  BY <1>5, <1>6
<1>8. 2^m = 2 * 2^(m - 1) /\ 2^(m - 1) \in Nat
  BY <1>5, PowerDouble, PowerNat
<1> DEFINE p == 2^(m - 1)
           q == 2^m
<1>9. m - 1 < p /\ q = 2 * p /\ p \in Nat /\ ~ (m < q)
  BY <1>3, <1>7, <1>8
<1> HIDE DEF p, q, T
<1> QED
  BY <1>3, <1>4, <1>9

(* Arguments may be reduced before they are added or multiplied.           *)
LEMMA ModAdd ==
  ASSUME NEW M \in Nat \ {0}, NEW x \in Int, NEW y \in Int
  PROVE  ((x % M) + (y % M)) % M = (x + y) % M
<1> DEFINE p == x \div M
           r == x % M
           q == y \div M
           s == y % M
<1>1. x = M * p + r /\ y = M * q + s /\ p \in Int /\ q \in Int /\ r \in Nat /\ s \in Nat
  BY DivMod
<1> HIDE DEF p, q, r, s
<1>2. x + y = (r + s) + M * (p + q) /\ p + q \in Int /\ r + s \in Int
  BY <1>1
<1>3. ((r + s) + M * (p + q)) % M = (r + s) % M
  BY <1>2, ModShift
<1> QED
  BY <1>2, <1>3 DEF r, s

LEMMA ModScale ==
  ASSUME NEW M \in Nat \ {0}, NEW x \in Int, NEW c \in Int
  PROVE  ((x % M) * c) % M = (x * c) % M
<1> DEFINE p == x \div M
           r == x % M
<1>1. x = M * p + r /\ p \in Int /\ r \in Nat
  BY DivMod
<1> HIDE DEF p, r
<1>2. x * c = r * c + M * (p * c) /\ p * c \in Int /\ r * c \in Int
  BY <1>1
<1> DEFINE y == r * c
           k == p * c
<1>3. (y + M * k) % M = y % M
  <2> HIDE DEF y, k
  <2>1. y \in Int /\ k \in Int
    BY <1>2 DEF y, k
  <2> QED
    BY <2>1, ModShift
<1> QED
  BY <1>2, <1>3 DEF r

(* The product of two vectors has the low bits of the signed product.      *)
LEMMA ModMul ==
  ASSUME NEW w \in Nat, NEW x \in BitVector(w), NEW y \in BitVector(w)
  PROVE  (TwosComplement(w, x) * TwosComplement(w, y)) % 2^w = (x * y) % 2^w
<1> DEFINE M == 2^w
<1>1. M \in Nat \ {0} /\ x \in Nat /\ y \in Nat
  BY PowerPos, VectorInPower
<1>2. PICK a \in {0, 1} : TwosComplement(w, x) = x - M * a
  <2>1. TwosComplement(w, x) = IF 2 * x < M THEN x ELSE x - M
    BY DEF TwosComplement
  <2> HIDE DEF M
  <2>2. x - M * 0 = x /\ x - M * 1 = x - M
    BY <1>1
  <2> QED
    BY <2>1, <2>2
<1>3. PICK b \in {0, 1} : TwosComplement(w, y) = y - M * b
  <2>1. TwosComplement(w, y) = IF 2 * y < M THEN y ELSE y - M
    BY DEF TwosComplement
  <2> HIDE DEF M
  <2>2. y - M * 0 = y /\ y - M * 1 = y - M
    BY <1>1
  <2> QED
    BY <2>1, <2>2
<1> HIDE DEF M
<1> DEFINE k == M * (a * b) - (a * y) - (b * x)
           p == x * y
<1>4. (x - M * a) * (y - M * b) = p + M * k
  <2>1. CASE a = 0 /\ b = 0
    BY <1>1, <2>1
  <2>2. CASE a = 0 /\ b = 1
    BY <1>1, <2>2
  <2>3. CASE a = 1 /\ b = 0
    BY <1>1, <2>3
  <2>4. CASE a = 1 /\ b = 1
    BY <1>1, <2>4
  <2> QED
    BY <2>1, <2>2, <2>3, <2>4
<1>5. k \in Int /\ p \in Int
  BY <1>1
<1>6. (p + M * k) % M = p % M
  <2> HIDE DEF k, p
  <2> QED
    BY <1>1, <1>5, ModShift
<1> QED
  BY <1>2, <1>3, <1>4, <1>6 DEF M

(* A number in the signed range of a width is the one its vector stands    *)
(* for, and so is its quotient.                                            *)
LEMMA SignedRange ==
  ASSUME NEW w \in Nat, NEW x \in BitVector(w)
  PROVE  LET t == TwosComplement(w, x) IN t \in Int /\ 2 * t < 2^w /\ -(2^w) <= 2 * t
<1> DEFINE M == 2^w
<1>1. M \in Nat /\ x \in Nat /\ x < M
  BY PowerNat, VectorInPower
<1>2. TwosComplement(w, x) = IF 2 * x < M THEN x ELSE x - M
  BY DEF TwosComplement
<1> HIDE DEF M
<1>3. LET t == TwosComplement(w, x) IN t \in Int /\ 2 * t < M /\ -M <= 2 * t
  BY <1>1, <1>2
<1> QED
  BY <1>3 DEF M

LEMMA QuotientRange ==
  ASSUME NEW A \in Nat \ {0}, NEW M \in Nat, NEW z \in Int, 2 * z < M, -M <= 2 * z
  PROVE  z \div A \in Int /\ 2 * (z \div A) < M /\ -M <= 2 * (z \div A)
<1> DEFINE q == z \div A
           r == z % A
<1>1. z = A * q + r /\ q \in Int /\ r \in Nat /\ r < A
  BY DivMod
<1> HIDE DEF q, r
<1>2. z >= 0 => 0 <= q /\ q <= z
  <2>1. q <= -1 => A * q <= -A
    BY <1>1, Multiples
  <2>2. q >= 0 => q <= A * q
    BY <1>1
  <2> QED
    BY <1>1, <2>1, <2>2
<1>3. z < 0 => z <= q /\ q <= -1
  <2>1. q >= 0 => A * q >= 0
    BY <1>1
  <2>2. q < z => A * (z - q) >= z - q
    BY <1>1
  <2>3. A * (z - q) = A * z - A * q
    BY <1>1
  <2>4. z < 0 => A * z <= z
    BY <1>1
  <2>5. q < z /\ z < 0 => A * z >= A * q + 1
    BY <1>1, <2>2, <2>3
  <2> QED
    BY <1>1, <2>1, <2>4, <2>5
<1>4. 2 * q < M /\ -M <= 2 * q
  BY <1>1, <1>2, <1>3
<1> QED
  BY <1>1, <1>4 DEF q

LEMMA RoundTrip ==
  ASSUME NEW w \in Nat, NEW t \in Int, 2 * t < 2^w, -(2^w) <= 2 * t
  PROVE  t % 2^w \in BitVector(w) /\ TwosComplement(w, t % 2^w) = t
<1> DEFINE M == 2^w
           x == t % M
<1>1. M \in Nat \ {0} /\ 2 * t < M /\ -M <= 2 * t
  BY PowerPos
<1>2. x = IF t >= 0 THEN t ELSE t + M
  <2> HIDE DEF M
  <2>1. CASE t >= 0
    BY <1>1, <2>1
  <2>2. CASE t < 0
    <3> DEFINE s == t + M
               k == 0 - 1
    <3>1. t = M * k + s /\ k \in Int /\ s \in Nat /\ s < M
      BY <1>1, <2>2
    <3> HIDE DEF s, k
    <3>2. t % M = s
      BY <1>1, <3>1, DivModEq
    <3> QED
      BY <2>2, <3>2 DEF s
  <2> QED
    BY <1>1, <2>1, <2>2
<1> HIDE DEF x, M
<1>3. x \in 0 .. M - 1 /\ (IF 2 * x < M THEN x ELSE x - M) = t
  BY <1>1, <1>2
<1> QED
  BY <1>3 DEF BitVector, TwosComplement, x, M
=============================================================================
