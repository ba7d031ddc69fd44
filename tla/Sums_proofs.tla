---------------------------- MODULE Sums_proofs ----------------------------
(***************************************************************************)
(* The laws of sums by counting.                                           *)
(***************************************************************************)
EXTENDS Sums, FiniteSetTheorems, TLAPS

\* The units of some of the elements.
UnitsOf(f, S) == UNION {{x} \X (1..f[x]) : x \in S}

(* The units of an element are as many as its value.                       *)
LEMMA UnitsOfOne ==
  ASSUME NEW x, NEW n \in Nat
  PROVE  IsFiniteSet({x} \X (1..n)) /\ Cardinality({x} \X (1..n)) = n
<1>1. IsFiniteSet(1..n) /\ Cardinality(1..n) = n
  BY FS_Interval
<1>2. IsFiniteSet({x}) /\ Cardinality({x}) = 1
  BY FS_Singleton
<1>3. Cardinality({x} \X (1..n)) = 1 * n /\ IsFiniteSet({x} \X (1..n))
  BY <1>1, <1>2, FS_Product
<1> QED
  BY <1>3

(* A finite set has finitely many units.                                   *)
LEMMA UnitsFinite ==
  ASSUME NEW S, IsFiniteSet(S), NEW f, \A x \in S : f[x] \in Nat
  PROVE  IsFiniteSet(UnitsOf(f, S))
<1> DEFINE T == {{x} \X (1..f[x]) : x \in S}
           h == [x \in S |-> {x} \X (1..f[x])]
<1>1. h \in Surjection(S, T)
  BY DEF Surjection
<1>2. IsFiniteSet(T)
  BY <1>1, FS_Surjection
<1>3. ASSUME NEW U \in T PROVE IsFiniteSet(U)
  <2>1. PICK x \in S : U = {x} \X (1..f[x])
    OBVIOUS
  <2>2. PICK n \in Nat : n = f[x]
    OBVIOUS
  <2>3. IsFiniteSet({x} \X (1..n))
    BY UnitsOfOne
  <2> QED
    BY <2>1, <2>2, <2>3
<1> QED
  BY <1>2, <1>3, FS_UNION DEF UnitsOf

(* One element can be counted apart from the others.                       *)
LEMMA SumSplit ==
  ASSUME NEW S, IsFiniteSet(S), NEW f \in [S -> Nat], NEW x \in S
  PROVE  /\ IsFiniteSet(UnitsOf(f, S \ {x}))
         /\ Cardinality(UnitsOf(f, S \ {x})) \in Nat
         /\ SumOf(f) = Cardinality(UnitsOf(f, S \ {x})) + f[x]
<1> DEFINE rest == UnitsOf(f, S \ {x})
           own  == {x} \X (1..f[x])
<1>1. IsFiniteSet(rest)
  BY FS_RemoveElement, UnitsFinite
<1>2. IsFiniteSet(own) /\ Cardinality(own) = f[x]
  BY UnitsOfOne
<1>3. Units(f) = rest \cup own
  BY DEF Units, UnitsOf
<1>4. rest \cap own = {}
  BY DEF UnitsOf
<1>5. Cardinality(rest \cap own) = 0
  BY <1>4, FS_EmptySet
<1>6. Cardinality(rest) \in Nat
  BY <1>1, FS_CardinalityType
<1> HIDE DEF rest, own
<1>7. Cardinality(rest \cup own)
        = Cardinality(rest) + Cardinality(own) - Cardinality(rest \cap own)
  BY <1>1, <1>2, FS_Union
<1>8. Cardinality(rest \cup own) = Cardinality(rest) + f[x]
  BY <1>2, <1>5, <1>6, <1>7
<1> QED
  BY <1>1, <1>3, <1>6, <1>8 DEF SumOf, rest

(* A sum is a natural number.                                              *)
LEMMA SumNat ==
  ASSUME NEW S, IsFiniteSet(S), NEW f \in [S -> Nat]
  PROVE  SumOf(f) \in Nat
<1>1. Units(f) = UnitsOf(f, S)
  BY DEF Units, UnitsOf
<1>2. IsFiniteSet(UnitsOf(f, S))
  BY UnitsFinite
<1> QED
  BY <1>1, <1>2, FS_CardinalityType DEF SumOf

(* When one value changes, the sum changes by as much.                     *)
LEMMA SumChanged ==
  ASSUME NEW S, IsFiniteSet(S), NEW f \in [S -> Nat], NEW g \in [S -> Nat],
         NEW x \in S, \A y \in S \ {x} : g[y] = f[y]
  PROVE  SumOf(g) + f[x] = SumOf(f) + g[x]
<1>1. UnitsOf(g, S \ {x}) = UnitsOf(f, S \ {x})
  BY DEF UnitsOf
<1>2. /\ Cardinality(UnitsOf(f, S \ {x})) \in Nat
      /\ SumOf(f) = Cardinality(UnitsOf(f, S \ {x})) + f[x]
  BY SumSplit
<1>3. SumOf(g) = Cardinality(UnitsOf(g, S \ {x})) + g[x]
  BY SumSplit
<1>4. f[x] \in Nat /\ g[x] \in Nat
  OBVIOUS
<1> QED
  BY <1>1, <1>2, <1>3, <1>4

(* No value exceeds the sum.                                               *)
LEMMA SumAtLeast ==
  ASSUME NEW S, IsFiniteSet(S), NEW f \in [S -> Nat], NEW x \in S
  PROVE  f[x] <= SumOf(f)
<1>1. /\ Cardinality(UnitsOf(f, S \ {x})) \in Nat
      /\ SumOf(f) = Cardinality(UnitsOf(f, S \ {x})) + f[x]
  BY SumSplit
<1>2. PICK rest \in Nat : SumOf(f) = rest + f[x]
  BY <1>1
<1>3. PICK n \in Nat : n = f[x]
  OBVIOUS
<1> QED
  BY <1>2, <1>3

(* Zeros sum up to zero.                                                   *)
LEMMA SumZero ==
  ASSUME NEW S, NEW f \in [S -> Nat], \A x \in S : f[x] = 0
  PROVE  SumOf(f) = 0
<1>1. \A x \in S : 1..f[x] = {}
  OBVIOUS
<1>2. Units(f) = {}
  BY <1>1 DEF Units
<1> QED
  BY <1>2, FS_EmptySet DEF SumOf

(* A new element adds its value.                                           *)
LEMMA SumAdded ==
  ASSUME NEW S, NEW T, NEW x \in T, IsFiniteSet(S), x \notin S,
         \A y : y \in T <=> y \in S \/ y = x,
         NEW f \in [S -> Nat], NEW g \in [T -> Nat], \A y \in S : g[y] = f[y]
  PROVE  SumOf(g) = SumOf(f) + g[x]
<1>1. T = S \cup {x} /\ T \ {x} = S
  OBVIOUS
<1>2. IsFiniteSet(T)
  BY <1>1, FS_AddElement
<1>3. SumOf(g) = Cardinality(UnitsOf(g, T \ {x})) + g[x]
  BY <1>2, SumSplit
<1>4. UnitsOf(g, S) = Units(f)
  BY DEF UnitsOf, Units
<1> QED
  BY <1>1, <1>3, <1>4 DEF SumOf

\* h maps S one to one to T, where the values of g are as large as those of f.
Fits(S, T, h, f, g) ==
  /\ h \in [S -> T]
  /\ \A x, y \in S : h[x] = h[y] => x = y
  /\ \A x \in S : f[x] <= g[h[x]]

(* What is mapped one to one to larger values has a smaller sum.           *)
LEMMA SumInjected ==
  ASSUME NEW S, NEW T, IsFiniteSet(T), NEW f \in [S -> Nat], NEW g \in [T -> Nat],
         NEW h, Fits(S, T, h, f, g)
  PROVE  SumOf(f) <= SumOf(g)
<1> USE DEF Fits
<1> DEFINE m == [u \in Units(f) |-> <<h[u[1]], u[2]>>]
<1>1. ASSUME NEW u \in Units(f)
      PROVE  /\ u = <<u[1], u[2]>> /\ u[1] \in S
             /\ u[2] \in 1..f[u[1]] /\ m[u] \in Units(g)
  <2>1. PICK x \in S : u \in {x} \X (1..f[x])
    BY DEF Units
  <2>2. u = <<u[1], u[2]>> /\ u[1] = x /\ u[2] \in 1..f[x]
    BY <2>1
  <2>3. h[x] \in T /\ f[x] \in Nat /\ g[h[x]] \in Nat /\ f[x] <= g[h[x]]
    OBVIOUS
  <2>4. u[2] \in 1..g[h[x]]
    BY <2>2, <2>3
  <2>5. <<h[x], u[2]>> \in Units(g)
    BY <2>3, <2>4 DEF Units
  <2> QED
    BY <2>2, <2>5
<1>2. ASSUME NEW u \in Units(f), NEW v \in Units(f), m[u] = m[v]
      PROVE  u = v
  <2>1. h[u[1]] = h[v[1]] /\ u[2] = v[2]
    BY <1>2
  <2> QED
    BY <1>1, <2>1
<1>3. m \in Injection(Units(f), Units(g))
  <2>1. m \in [Units(f) -> Units(g)]
    BY <1>1
  <2>2. \A u, v \in DOMAIN m : m[u] = m[v] => u = v
    BY <1>2
  <2> HIDE DEF m
  <2> QED
    BY <2>1, <2>2 DEF Injection, IsInjective
<1>4. UnitsOf(g, T) = Units(g)
  BY DEF UnitsOf, Units
<1>5. IsFiniteSet(Units(g))
  BY <1>4, UnitsFinite
<1> QED
  BY <1>3, <1>5, FS_Injection DEF SumOf

(* One element taken out of the sum.                                       *)
LEMMA SumWithout ==
  ASSUME NEW S, IsFiniteSet(S), NEW f \in [S -> Nat], NEW x \in S
  PROVE  LET rest == [y \in S \ {x} |-> f[y]] IN
         /\ IsFiniteSet(S \ {x}) /\ rest \in [S \ {x} -> Nat]
         /\ SumOf(rest) \in Nat /\ SumOf(f) = SumOf(rest) + f[x]
<1> DEFINE R == S \ {x}
           rest == [y \in R |-> f[y]]
<1>1. IsFiniteSet(R)
  BY FS_RemoveElement
<1>2. x \notin R /\ \A y : y \in S <=> y \in R \/ y = x
  OBVIOUS
<1>3. rest \in [R -> Nat] /\ \A y \in R : f[y] = rest[y]
  OBVIOUS
<1> HIDE DEF R, rest
<1>4. SumOf(f) = SumOf(rest) + f[x]
  BY <1>1, <1>2, <1>3, SumAdded
<1>5. SumOf(rest) \in Nat
  BY <1>1, <1>3, SumNat
<1> QED
  BY <1>1, <1>3, <1>4, <1>5 DEF R, rest

(* Two functions that agree but for a zero of one of them.                 *)
LEMMA SumSkipped ==
  ASSUME NEW D, IsFiniteSet(D), NEW E, IsFiniteSet(E), NEW i \in D,
         NEW f \in [D -> Nat], f[i] = 0, NEW g \in [E -> Nat],
         NEW up, Fits(E, D, up, g, f), NEW down, Fits(D \ {i}, E, down, f, g)
  PROVE  SumOf(g) = SumOf(f)
<1> DEFINE S == D \ {i}
           rest == [x \in S |-> f[x]]
<1>1. /\ IsFiniteSet(S) /\ rest \in [S -> Nat]
      /\ SumOf(rest) \in Nat /\ SumOf(f) = SumOf(rest) + f[i]
  BY SumWithout
<1>2. Fits(S, E, down, rest, g)
  BY DEF Fits
<1> HIDE DEF S, rest
<1>3. SumOf(g) <= SumOf(f)
  BY SumInjected
<1>4. SumOf(rest) <= SumOf(g)
  BY <1>1, <1>2, SumInjected
<1>5. SumOf(f) \in Nat /\ SumOf(g) \in Nat
  BY SumNat
<1> QED
  BY <1>1, <1>3, <1>4, <1>5

(* A zero can be left out of a list.                                       *)
LEMMA SumDropped ==
  ASSUME NEW n \in Nat, NEW i \in 1..n, NEW f \in [1..n -> Nat], f[i] = 0,
         NEW g \in [1..(n - 1) -> Nat],
         \A j \in 1..(n - 1) : g[j] = f[IF j < i THEN j ELSE j + 1]
  PROVE  SumOf(g) = SumOf(f)
<1> DEFINE D == 1..n
           E == 1..(n - 1)
           up   == [j \in E |-> IF j < i THEN j ELSE j + 1]
           down == [j \in D \ {i} |-> IF j < i THEN j ELSE j - 1]
<1>1. IsFiniteSet(D) /\ IsFiniteSet(E)
  BY FS_Interval
<1>2. Fits(E, D, up, g, f)
  <2>1. up \in [E -> D] /\ \A x, y \in E : up[x] = up[y] => x = y
    OBVIOUS
  <2>2. \A j \in E : g[j] = f[up[j]] /\ g[j] \in Nat
    OBVIOUS
  <2>3. \A j \in E : g[j] <= f[up[j]]
    BY <2>2
  <2> QED
    BY <2>1, <2>3 DEF Fits
<1>3. Fits(D \ {i}, E, down, f, g)
  <2>1. down \in [D \ {i} -> E] /\ \A x, y \in D \ {i} : down[x] = down[y] => x = y
    OBVIOUS
  <2>2. ASSUME NEW j \in D \ {i}
        PROVE  f[j] <= g[down[j]]
    <3>1. j \in Nat /\ f[j] \in Nat /\ (j < i \/ j > i)
      OBVIOUS
    <3>2. CASE j < i
      <4>1. down[j] = j /\ j \in E
        BY <3>2
      <4>2. g[j] = f[j]
        BY <3>2, <4>1
      <4> QED
        BY <3>1, <4>1, <4>2
    <3>3. CASE j > i
      <4>1. down[j] = j - 1 /\ j - 1 \in E /\ ~(j - 1 < i)
        BY <3>3
      <4>2. g[j - 1] = f[(j - 1) + 1]
        BY <4>1
      <4>3. (j - 1) + 1 = j
        OBVIOUS
      <4> QED
        BY <3>1, <4>1, <4>2, <4>3
    <3> QED
      BY <3>1, <3>2, <3>3
  <2> QED
    BY <2>1, <2>2 DEF Fits
<1>4. i \in D /\ f \in [D -> Nat] /\ g \in [E -> Nat] /\ f[i] = 0
  OBVIOUS
<1> HIDE DEF D, E, up, down
<1> QED
  BY <1>1, <1>2, <1>3, <1>4, SumSkipped


(* The sum of the sums of two functions.                                   *)
LEMMA SumPlus ==
  ASSUME NEW S, IsFiniteSet(S), NEW f \in [S -> Nat], NEW g \in [S -> Nat],
         NEW h \in [S -> Nat], \A x \in S : h[x] = f[x] + g[x]
  PROVE  SumOf(h) = SumOf(f) + SumOf(g)
<1> DEFINE up == [u \in Units(g) |-> <<u[1], f[u[1]] + u[2]>>]
           rest == Units(h) \ Units(f)
<1>1. \A x, k : <<x, k>> \in Units(f) <=> x \in S /\ k \in 1..f[x]
  BY DEF Units
<1>2. \A x, k : <<x, k>> \in Units(g) <=> x \in S /\ k \in 1..g[x]
  BY DEF Units
<1>3. \A x, k : <<x, k>> \in Units(h) <=> x \in S /\ k \in 1..h[x]
  BY DEF Units
<1>4. /\ \A u \in Units(f) : u = <<u[1], u[2]>>
      /\ \A u \in Units(g) : u = <<u[1], u[2]>>
      /\ \A u \in Units(h) : u = <<u[1], u[2]>>
  BY DEF Units
<1>5. \A x \in S : f[x] \in Nat /\ g[x] \in Nat /\ h[x] \in Nat
  OBVIOUS
<1>6. IsFiniteSet(Units(f)) /\ IsFiniteSet(Units(g)) /\ IsFiniteSet(Units(h))
  <2>1. UnitsOf(f, S) = Units(f) /\ UnitsOf(g, S) = Units(g) /\ UnitsOf(h, S) = Units(h)
    BY DEF UnitsOf, Units
  <2> QED
    BY <2>1, UnitsFinite
<1>7. ASSUME NEW u \in Units(g)
      PROVE  u[1] \in S /\ u[2] \in 1..g[u[1]] /\ up[u] \in rest
  <2> DEFINE x == u[1]
             k == u[2]
  <2>1. x \in S /\ k \in 1..g[x]
    BY <1>2, <1>4
  <2>2. f[x] + k \in 1..h[x] /\ f[x] + k \notin 1..f[x]
    BY <1>5, <2>1
  <2>3. up[u] = <<x, f[x] + k>>
    OBVIOUS
  <2> HIDE DEF x, k, up
  <2>4. up[u] \in rest
    BY <1>1, <1>3, <2>1, <2>2, <2>3
  <2> QED
    BY <2>1, <2>4 DEF x, k
<1>8. ASSUME NEW u \in Units(g), NEW v \in Units(g), up[u] = up[v]
      PROVE  u = v
  <2>1. u[1] = v[1] /\ f[u[1]] + u[2] = f[v[1]] + v[2]
    BY <1>8
  <2>2. u[2] = v[2]
    <3>1. /\ u[1] \in S /\ u[2] \in 1..g[u[1]]
          /\ v[1] \in S /\ v[2] \in 1..g[v[1]]
      BY <1>7
    <3>2. f[u[1]] \in Nat /\ u[2] \in Nat /\ v[2] \in Nat
      BY <1>5, <3>1
    <3>3. f[u[1]] = f[v[1]]
      BY <2>1
    <3> QED
      BY <2>1, <3>2, <3>3
  <2>3. u = <<u[1], u[2]>> /\ v = <<v[1], v[2]>>
    BY <1>4
  <2> HIDE DEF up
  <2> QED
    BY <2>1, <2>2, <2>3
<1>9. ASSUME NEW w \in rest PROVE \E u \in Units(g) : up[u] = w
  <2> DEFINE x == w[1]
             k == w[2]
  <2>1. w = <<x, k>> /\ x \in S /\ k \in 1..h[x] /\ k \notin 1..f[x]
    BY <1>1, <1>3, <1>4
  <2>2. k - f[x] \in 1..g[x] /\ f[x] + (k - f[x]) = k
    BY <1>5, <2>1
  <2>3. <<x, k - f[x]>> \in Units(g)
    BY <1>2, <2>1, <2>2
  <2>4. up[<<x, k - f[x]>>] = <<x, f[x] + (k - f[x])>>
    BY <2>3
  <2> QED
    BY <2>1, <2>2, <2>3, <2>4
<1>10. up \in Bijection(Units(g), rest)
  <2>1. up \in [Units(g) -> rest]
    BY <1>7
  <2>2. \A u, v \in Units(g) : up[u] = up[v] => u = v
    BY <1>8
  <2>3. \A w \in rest : \E u \in Units(g) : up[u] = w
    BY <1>9
  <2>4. DOMAIN up = Units(g)
    OBVIOUS
  <2> HIDE DEF up, rest
  <2> QED
    BY <2>1, <2>2, <2>3, <2>4 DEF Bijection, Injection, Surjection, IsInjective
<1>11. Cardinality(rest) = SumOf(g) /\ IsFiniteSet(rest)
  <2>1. ExistsBijection(Units(g), rest)
    BY <1>10 DEF ExistsBijection
  <2> HIDE DEF rest
  <2> QED
    BY <1>6, <2>1, FS_Bijection DEF SumOf
<1>12. Units(h) = Units(f) \cup rest /\ Units(f) \cap rest = {}
  <2>1. ASSUME NEW u \in Units(f) PROVE u \in Units(h)
    <3>1. u[1] \in S /\ u[2] \in 1..f[u[1]]
      BY <1>1, <1>4
    <3>2. u[2] \in 1..h[u[1]]
      BY <1>5, <3>1
    <3> QED
      BY <1>3, <1>4, <3>1, <3>2
  <2> QED
    BY <2>1
<1> HIDE DEF rest
<1>13. Cardinality(Units(f) \cup rest)
         = Cardinality(Units(f)) + Cardinality(rest) - Cardinality(Units(f) \cap rest)
  BY <1>6, <1>11, FS_Union
<1>14. Cardinality({}) = 0 /\ Cardinality(Units(f)) \in Nat /\ Cardinality(rest) \in Nat
  BY <1>6, <1>11, FS_CardinalityType, FS_EmptySet
<1>15. Cardinality(Units(h)) = Cardinality(Units(f)) + Cardinality(rest)
  BY <1>12, <1>13, <1>14
<1> QED
  BY <1>11, <1>15 DEF SumOf


(* Where a function is zero it can be left out.                            *)
LEMMA SumSupported ==
  ASSUME NEW S, NEW T \in SUBSET S, NEW f \in [S -> Nat], NEW g \in [T -> Nat],
         \A x \in T : g[x] = f[x], \A x \in S \ T : f[x] = 0
  PROVE  SumOf(g) = SumOf(f)
<1>1. ASSUME NEW x \in S, x \notin T PROVE {x} \X (1..f[x]) = {}
  BY <1>1
<1>2. Units(g) = Units(f)
  BY <1>1 DEF Units
<1> QED
  BY <1>2 DEF SumOf
=============================================================================
