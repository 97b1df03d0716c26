------------------------- MODULE BasicToken_proofs -------------------------
(***************************************************************************)
(* What Total obeys - it is a natural number, and changing one value of the *)
(* function changes it by the difference - and what a transfer does to the  *)
(* balances that it adds up.                                               *)
(***************************************************************************)
EXTENDS BasicToken, Sums, FiniteSetTheorems, FunctionTheorems, TLAPS

(* The units that a function hands out to others than a.                   *)
OtherUnits(f, a) == UNION {{b} \X (1 .. f[b]) : b \in DOMAIN f \ {a}}

(* The units of one argument are as many as its value.                     *)
LEMMA OneUnits ==
  ASSUME NEW a, NEW n \in Nat
  PROVE  IsFiniteSet({a} \X (1 .. n)) /\ Cardinality({a} \X (1 .. n)) = n
<1>1. IsFiniteSet({a}) /\ Cardinality({a}) = 1
  BY FS_Singleton
<1>2. IsFiniteSet(1 .. n) /\ Cardinality(1 .. n) = n
  <2>1. 1 \in Int /\ n \in Int
    OBVIOUS
  <2>2. IsFiniteSet(1 .. n) /\ Cardinality(1 .. n) = IF 1 > n THEN 0 ELSE n - 1 + 1
    BY <2>1, FS_Interval
  <2> QED
    BY <2>2
<1>3. /\ IsFiniteSet({a} \X (1 .. n))
      /\ Cardinality({a} \X (1 .. n)) = Cardinality({a}) * Cardinality(1 .. n)
  BY <1>1, <1>2, FS_Product, Zenon
<1>4. Cardinality({a}) * Cardinality(1 .. n) = n
  BY <1>1, <1>2
<1> QED
  BY <1>3, <1>4, Zenon

(* Finitely many arguments hand out finitely many units.                   *)
LEMMA OtherUnitsFinite ==
  ASSUME NEW S, IsFiniteSet(S), NEW f \in [S -> Nat], NEW a
  PROVE  IsFiniteSet(OtherUnits(f, a))
<1> DEFINE R == S \ {a}
           T == {{b} \X (1 .. f[b]) : b \in R}
           g == [b \in R |-> {b} \X (1 .. f[b])]
<1>1. IsFiniteSet(R)
  BY FS_Subset
<1>2. g \in Surjection(R, T)
  BY Fun_IsSurj
<1>3. IsFiniteSet(T)
  BY <1>1, <1>2, FS_Surjection
<1>4. \A U \in T : IsFiniteSet(U)
  <2>1. SUFFICES ASSUME NEW b \in R PROVE IsFiniteSet({b} \X (1 .. f[b]))
    OBVIOUS
  <2> QED
    BY OneUnits
<1>5. IsFiniteSet(UNION T)
  BY <1>3, <1>4, FS_UNION
<1> QED
  BY <1>5 DEF OtherUnits

(* The sum is the value at any one argument plus the units of the others.  *)
LEMMA TotalSplit ==
  ASSUME NEW S, IsFiniteSet(S), NEW f \in [S -> Nat], NEW a \in S
  PROVE  /\ Cardinality(OtherUnits(f, a)) \in Nat
         /\ Total(f) = f[a] + Cardinality(OtherUnits(f, a))
<1> DEFINE mine == {a} \X (1 .. f[a])
<1>1. IsFiniteSet(mine) /\ Cardinality(mine) = f[a]
  <2>1. f[a] \in Nat
    OBVIOUS
  <2> QED
    BY <2>1, OneUnits, Zenon
<1>2. IsFiniteSet(OtherUnits(f, a)) /\ Cardinality(OtherUnits(f, a)) \in Nat
  BY OtherUnitsFinite, FS_CardinalityType
<1>3. Units(f) = mine \cup OtherUnits(f, a)
  BY DEF Units, OtherUnits
<1>4. mine \cap OtherUnits(f, a) = {}
  BY DEF OtherUnits
<1>5. Cardinality(mine \cap OtherUnits(f, a)) = 0
  BY <1>4, FS_EmptySet
<1> HIDE DEF mine
<1>6. Cardinality(mine \cup OtherUnits(f, a)) = f[a] + Cardinality(OtherUnits(f, a)) - 0
  <2>1. Cardinality(mine \cup OtherUnits(f, a)) =
          Cardinality(mine) + Cardinality(OtherUnits(f, a)) - Cardinality(mine \cap OtherUnits(f, a))
    BY <1>1, <1>2, FS_Union, Zenon
  <2> QED
    BY <2>1, <1>1, <1>5
<1> QED
  BY <1>2, <1>3, <1>6 DEF Total

LEMMA TotalType ==
  ASSUME NEW S, IsFiniteSet(S), NEW f \in [S -> Nat]
  PROVE  Total(f) \in Nat
<1>1. CASE S = {}
  <2>1. Units(f) = {}
    BY <1>1 DEF Units
  <2> QED
    BY <2>1, FS_EmptySet DEF Total
<1>2. CASE S # {}
  <2>1. PICK a \in S : TRUE
    BY <1>2
  <2> QED
    BY <2>1, TotalSplit
<1> QED
  BY <1>1, <1>2

(* No value exceeds the sum.                                               *)
LEMMA TotalBound ==
  ASSUME NEW S, IsFiniteSet(S), NEW f \in [S -> Nat], NEW a \in S
  PROVE  f[a] <= Total(f)
BY TotalSplit

(* Functions that differ only at a have sums that differ as their values   *)
(* at a do.                                                                *)
LEMMA TotalChange ==
  ASSUME NEW S, IsFiniteSet(S), NEW f \in [S -> Nat], NEW g \in [S -> Nat],
         NEW a \in S, \A b \in S \ {a} : g[b] = f[b]
  PROVE  Total(g) + f[a] = Total(f) + g[a]
<1>1. OtherUnits(g, a) = OtherUnits(f, a)
  BY DEF OtherUnits
<1>2. Total(f) = f[a] + Cardinality(OtherUnits(f, a)) /\ Cardinality(OtherUnits(f, a)) \in Nat
  BY TotalSplit
<1>3. Total(g) = g[a] + Cardinality(OtherUnits(g, a))
  BY TotalSplit
<1> QED
  BY <1>1, <1>2, <1>3

LEMMA TotalZero ==
  ASSUME NEW S
  PROVE  Total([a \in S |-> 0]) = 0
<1>1. Units([a \in S |-> 0]) = {}
  BY DEF Units
<1> QED
  BY <1>1, FS_EmptySet DEF Total

LEMMA UnitsFinite ==
  ASSUME NEW S, IsFiniteSet(S), NEW f \in [S -> Nat]
  PROVE  IsFiniteSet(Units(f)) /\ Cardinality(Units(f)) = Total(f) /\ Total(f) \in Nat
<1>1. CASE S = {}
  <2>1. Units(f) = {}
    BY <1>1 DEF Units
  <2> QED
    BY <2>1, FS_EmptySet DEF Total
<1>2. CASE S # {}
  <2>1. PICK a \in S : TRUE
    BY <1>2
  <2>2. IsFiniteSet({a} \X (1 .. f[a])) /\ IsFiniteSet(OtherUnits(f, a))
    <3>1. f[a] \in Nat
      OBVIOUS
    <3> QED
      BY <3>1, OneUnits, OtherUnitsFinite
  <2>3. Units(f) = ({a} \X (1 .. f[a])) \cup OtherUnits(f, a)
    BY DEF Units, OtherUnits
  <2>4. IsFiniteSet(({a} \X (1 .. f[a])) \cup OtherUnits(f, a))
    BY <2>2, FS_Union, Zenon
  <2> QED
    BY <2>3, <2>4, TotalType DEF Total
<1> QED
  BY <1>1, <1>2

(* A unit is an argument and a number up to its value.                     *)
LEMMA UnitOf ==
  ASSUME NEW S, NEW f \in [S -> Nat], NEW a, NEW n
  PROVE  <<a, n>> \in Units(f) <=> a \in S /\ n \in 1 .. f[a]
BY DEF Units

LEMMA UnitsArePairs ==
  ASSUME NEW S, NEW f \in [S -> Nat], NEW x \in Units(f)
  PROVE  x = <<x[1], x[2]>> /\ x[1] \in S /\ x[2] \in 1 .. f[x[1]]
BY DEF Units

LEMMA TotalMonotone ==
  ASSUME NEW S, IsFiniteSet(S), NEW f \in [S -> Nat], NEW g \in [S -> Nat],
         \A a \in S : f[a] <= g[a]
  PROVE  Total(f) <= Total(g)
<1>1. Units(f) \subseteq Units(g)
  <2>1. SUFFICES ASSUME NEW x \in Units(f) PROVE x \in Units(g)
    OBVIOUS
  <2>2. x = <<x[1], x[2]>> /\ x[1] \in S /\ x[2] \in 1 .. f[x[1]]
    BY UnitsArePairs
  <2>3. x[2] \in 1 .. g[x[1]]
    BY <2>2
  <2> QED
    BY <2>2, <2>3, UnitOf
<1> QED
  BY <1>1, UnitsFinite, FS_Subset

(* A sum of products with one factor.  Each unit of f becomes k units.      *)
LEMMA BlocksOfUnits ==
  ASSUME NEW k \in Nat, NEW m \in Nat, NEW x \in 1 .. k * m
  PROVE  \E j \in 1 .. k, n \in 1 .. m : x = k * (n - 1) + j
<1>1. k # 0
  OBVIOUS
<1> DEFINE q == (x - 1) \div k
           r == (x - 1) % k
<1>2. q \in Nat /\ r \in 0 .. (k - 1) /\ x - 1 = k * q + r
  BY <1>1
<1> HIDE DEF q, r
<1>3. q < m
  <2>1. SUFFICES ASSUME q >= m PROVE FALSE
    BY <1>2
  <2>2. q - m \in Nat /\ k * q = k * m + k * (q - m)
    BY <1>2, <2>1
  <2>3. k * (q - m) \in Nat
    BY <2>2
  <2> QED
    BY <1>2, <2>2, <2>3
<1>4. x = k * ((q + 1) - 1) + (r + 1) /\ q + 1 \in 1 .. m /\ r + 1 \in 1 .. k
  BY <1>2, <1>3
<1> QED
  BY <1>4

LEMMA BlockIn ==
  ASSUME NEW k \in Nat, NEW m \in Nat, NEW j \in 1 .. k, NEW n \in 1 .. m
  PROVE  k * (n - 1) + j \in 1 .. k * m
<1>1. m - n \in Nat /\ k * m = k * (n - 1) + k + k * (m - n)
  OBVIOUS
<1>2. k * (m - n) \in Nat /\ k * (n - 1) \in Nat
  BY <1>1
<1> QED
  BY <1>1, <1>2

LEMMA BlocksDisjoint ==
  ASSUME NEW k \in Nat, NEW i \in 1 .. k, NEW j \in 1 .. k, NEW m \in Nat, NEW n \in Nat,
         k * m + i = k * n + j
  PROVE  m = n /\ i = j
<1>1. ASSUME NEW x \in Nat, NEW y \in Nat, x < y PROVE k * x + k <= k * y
  <2>1. y - x - 1 \in Nat /\ k * y = k * x + k + k * (y - x - 1)
    BY <1>1
  <2>2. k * (y - x - 1) \in Nat /\ k * x \in Nat
    BY <2>1
  <2> QED
    BY <2>1, <2>2
<1>2. k * m \in Nat /\ k * n \in Nat
  OBVIOUS
<1>3. ~(m < n)
  <2>1. SUFFICES ASSUME m < n PROVE FALSE
    OBVIOUS
  <2>2. k * m + k <= k * n
    BY <1>1, <2>1
  <2> QED
    BY <1>2, <2>2
<1>4. ~(n < m)
  <2>1. SUFFICES ASSUME n < m PROVE FALSE
    OBVIOUS
  <2>2. k * n + k <= k * m
    BY <1>1, <2>1
  <2> QED
    BY <1>2, <2>2
<1>5. m = n
  BY <1>3, <1>4
<1> QED
  BY <1>2, <1>5

LEMMA TotalScaled ==
  ASSUME NEW S, IsFiniteSet(S), NEW f \in [S -> Nat], NEW h \in [S -> Nat], NEW k \in Nat,
         \A a \in S : h[a] = k * f[a]
  PROVE  Total(h) = k * Total(f)
<1> DEFINE P == (1 .. k) \X Units(f)
           b == [x \in P |-> <<x[2][1], k * (x[2][2] - 1) + x[1]>>]
<1>1. \A x \in P : /\ x = <<x[1], <<x[2][1], x[2][2]>>>> /\ x[1] \in 1 .. k
                    /\ x[2][1] \in S /\ x[2][2] \in 1 .. f[x[2][1]]
  <2>1. SUFFICES ASSUME NEW x \in P
                 PROVE  /\ x = <<x[1], <<x[2][1], x[2][2]>>>> /\ x[1] \in 1 .. k
                        /\ x[2][1] \in S /\ x[2][2] \in 1 .. f[x[2][1]]
    OBVIOUS
  <2>2. x = <<x[1], x[2]>> /\ x[1] \in 1 .. k /\ x[2] \in Units(f)
    OBVIOUS
  <2>3. x[2] = <<x[2][1], x[2][2]>> /\ x[2][1] \in S /\ x[2][2] \in 1 .. f[x[2][1]]
    BY <2>2, UnitsArePairs
  <2> QED
    BY <2>2, <2>3
<1>2. b \in [P -> Units(h)]
  <2>1. SUFFICES ASSUME NEW x \in P PROVE b[x] \in Units(h)
    OBVIOUS
  <2>2. k * (x[2][2] - 1) + x[1] \in 1 .. k * f[x[2][1]]
    <3>1. f[x[2][1]] \in Nat
      BY <1>1
    <3> QED
      BY <1>1, <3>1, BlockIn
  <2>3. k * (x[2][2] - 1) + x[1] \in 1 .. h[x[2][1]]
    BY <1>1, <2>2
  <2> QED
    BY <1>1, <2>3, UnitOf
<1>3. ASSUME NEW x \in P, NEW y \in P, b[x] = b[y] PROVE x = y
  <2>1. x[2][1] = y[2][1] /\ k * (x[2][2] - 1) + x[1] = k * (y[2][2] - 1) + y[1]
    BY <1>3
  <2>2. x[2][2] - 1 \in Nat /\ y[2][2] - 1 \in Nat /\ x[2][2] \in Nat /\ y[2][2] \in Nat
    <3>1. f[x[2][1]] \in Nat /\ f[y[2][1]] \in Nat
      BY <1>1
    <3> QED
      BY <1>1, <3>1
  <2>3. x[1] \in 1 .. k /\ y[1] \in 1 .. k
    BY <1>1
  <2>4. x[2][2] - 1 = y[2][2] - 1 /\ x[1] = y[1]
    <3> DEFINE m == x[2][2] - 1
               n == y[2][2] - 1
               i == x[1]
               j == y[1]
    <3>1. i \in 1 .. k /\ j \in 1 .. k /\ m \in Nat /\ n \in Nat /\ k * m + i = k * n + j
      BY <2>1, <2>2, <2>3
    <3> HIDE DEF m, n, i, j, P, b
    <3>2. m = n /\ i = j
      BY <3>1, BlocksDisjoint
    <3> QED
      BY <3>2 DEF m, n, i, j
  <2>5. x[2][2] = y[2][2]
    BY <2>2, <2>4
  <2>6. x = <<x[1], <<x[2][1], x[2][2]>>>> /\ y = <<y[1], <<y[2][1], y[2][2]>>>>
    BY <1>1
  <2> QED
    BY <2>1, <2>4, <2>5, <2>6
<1>4. ASSUME NEW z \in Units(h) PROVE \E x \in P : b[x] = z
  <2>1. z = <<z[1], z[2]>> /\ z[1] \in S /\ z[2] \in 1 .. h[z[1]]
    BY UnitsArePairs
  <2>2. f[z[1]] \in Nat /\ z[2] \in 1 .. k * f[z[1]]
    BY <2>1
  <2>3. PICK j \in 1 .. k, n \in 1 .. f[z[1]] : z[2] = k * (n - 1) + j
    BY <2>2, BlocksOfUnits
  <2>4. <<z[1], n>> \in Units(f)
    BY <2>1, <2>3, UnitOf
  <2>5. <<j, <<z[1], n>>>> \in P /\ b[<<j, <<z[1], n>>>>] = <<z[1], k * (n - 1) + j>>
    BY <2>3, <2>4
  <2> QED
    BY <2>1, <2>3, <2>5
<1> HIDE DEF b
<1>5. b \in Bijection(P, Units(h))
  BY <1>2, <1>3, <1>4, Fun_IsBij
<1>6. IsFiniteSet(P) /\ Cardinality(P) = k * Total(f)
  <2>1. IsFiniteSet(1 .. k) /\ Cardinality(1 .. k) = k
    <3>1. 1 \in Int /\ k \in Int
      OBVIOUS
    <3>2. IsFiniteSet(1 .. k) /\ Cardinality(1 .. k) = IF 1 > k THEN 0 ELSE k - 1 + 1
      BY <3>1, FS_Interval
    <3> QED
      BY <3>2
  <2>2. IsFiniteSet(Units(f)) /\ Cardinality(Units(f)) = Total(f)
    BY UnitsFinite
  <2>3. IsFiniteSet(P) /\ Cardinality(P) = Cardinality(1 .. k) * Cardinality(Units(f))
    BY <2>1, <2>2, FS_Product, Zenon
  <2> QED
    BY <2>1, <2>2, <2>3
<1> HIDE DEF P
<1>7. Cardinality(Units(h)) = Cardinality(P)
  <2>1. ExistsBijection(P, Units(h))
    BY <1>5 DEF ExistsBijection
  <2> QED
    BY <2>1, <1>6, FS_Bijection
<1> QED
  BY <1>6, <1>7 DEF Total

LEMMA TotalPlus ==
  ASSUME NEW S, IsFiniteSet(S), NEW f \in [S -> Nat], NEW g \in [S -> Nat], NEW h \in [S -> Nat],
         \A a \in S : h[a] = f[a] + g[a]
  PROVE  Total(h) = Total(f) + Total(g)
<1> DEFINE shifted == Units(h) \ Units(f)
           b == [x \in Units(g) |-> <<x[1], f[x[1]] + x[2]>>]
<1>1. Units(f) \subseteq Units(h)
  <2>1. SUFFICES ASSUME NEW x \in Units(f) PROVE x \in Units(h)
    OBVIOUS
  <2>2. x = <<x[1], x[2]>> /\ x[1] \in S /\ x[2] \in 1 .. f[x[1]]
    BY UnitsArePairs
  <2>3. x[2] \in 1 .. h[x[1]]
    BY <2>2
  <2> QED
    BY <2>2, <2>3, UnitOf
<1>2. b \in [Units(g) -> shifted]
  <2>1. SUFFICES ASSUME NEW x \in Units(g) PROVE b[x] \in shifted
    OBVIOUS
  <2>2. x[1] \in S /\ x[2] \in 1 .. g[x[1]]
    BY UnitsArePairs
  <2>3. f[x[1]] + x[2] \in 1 .. h[x[1]] /\ f[x[1]] + x[2] \notin 1 .. f[x[1]]
    BY <2>2
  <2> QED
    BY <2>2, <2>3, UnitOf
<1>3. ASSUME NEW x \in Units(g), NEW y \in Units(g), b[x] = b[y] PROVE x = y
  <2>1. x[1] = y[1] /\ f[x[1]] + x[2] = f[y[1]] + y[2]
    BY <1>3
  <2>2. x = <<x[1], x[2]>> /\ y = <<y[1], y[2]>> /\ x[1] \in S /\ y[1] \in S
        /\ x[2] \in 1 .. g[x[1]] /\ y[2] \in 1 .. g[y[1]]
    BY UnitsArePairs
  <2>3. x[2] = y[2]
    BY <2>1, <2>2
  <2> QED
    BY <2>1, <2>2, <2>3
<1>4. ASSUME NEW z \in shifted PROVE \E x \in Units(g) : b[x] = z
  <2>1. z = <<z[1], z[2]>> /\ z[1] \in S /\ z[2] \in 1 .. h[z[1]]
    BY UnitsArePairs
  <2>2. z[2] \notin 1 .. f[z[1]]
    BY <2>1, UnitOf
  <2>3. z[2] - f[z[1]] \in 1 .. g[z[1]]
    BY <2>1, <2>2
  <2>4. <<z[1], z[2] - f[z[1]]>> \in Units(g)
    BY <2>1, <2>3, UnitOf
  <2>5. b[<<z[1], z[2] - f[z[1]]>>] = <<z[1], f[z[1]] + (z[2] - f[z[1]])>>
    BY <2>4
  <2>6. f[z[1]] + (z[2] - f[z[1]]) = z[2]
    BY <2>1
  <2> QED
    BY <2>1, <2>4, <2>5, <2>6
<1> HIDE DEF b
<1>5. ExistsBijection(Units(g), shifted)
  <2>1. b \in Bijection(Units(g), shifted)
    BY <1>2, <1>3, <1>4, Fun_IsBij
  <2> QED
    BY <2>1 DEF ExistsBijection
<1> HIDE DEF shifted
<1>6. IsFiniteSet(shifted) /\ Cardinality(shifted) = Total(g)
  BY <1>5, UnitsFinite, FS_Bijection
<1>7. shifted \cap Units(f) = {} /\ Units(h) = Units(f) \cup shifted
  BY <1>1 DEF shifted
<1>8. Cardinality(Units(f) \cup shifted) = Cardinality(Units(f)) + Cardinality(shifted) - Cardinality(Units(f) \cap shifted)
  BY <1>6, UnitsFinite, FS_Union, Zenon
<1>9. Cardinality(Units(f) \cap shifted) = 0
  BY <1>7, FS_EmptySet
<1> QED
  <2>1. Cardinality(Units(f)) = Total(f) /\ Total(f) \in Nat /\ Total(g) \in Nat
    BY UnitsFinite
  <2>2. Cardinality(Units(h)) = Total(f) + Total(g) - 0
    BY <1>6, <1>7, <1>8, <1>9, <2>1, Zenon
  <2> QED
    BY <2>1, <2>2 DEF Total

(* One for each member of T.                                               *)
LEMMA TotalOnes ==
  ASSUME NEW S, IsFiniteSet(S), NEW T \in SUBSET S
  PROVE  Total([a \in S |-> IF a \in T THEN 1 ELSE 0]) = Cardinality(T)
<1> DEFINE f == [a \in S |-> IF a \in T THEN 1 ELSE 0]
           b == [a \in T |-> <<a, 1>>]
<1>1. f \in [S -> Nat]
  OBVIOUS
<1>2. \A a \in T : <<a, 1>> \in Units(f)
  <2>1. SUFFICES ASSUME NEW a \in T PROVE <<a, 1>> \in Units(f)
    OBVIOUS
  <2>2. a \in S /\ 1 \in 1 .. f[a]
    OBVIOUS
  <2> QED
    BY <1>1, <2>2, UnitOf
<1>3. \A z \in Units(f) : z[1] \in T /\ z = <<z[1], 1>>
  <2>1. SUFFICES ASSUME NEW z \in Units(f) PROVE z[1] \in T /\ z = <<z[1], 1>>
    OBVIOUS
  <2>2. z = <<z[1], z[2]>> /\ z[1] \in S /\ z[2] \in 1 .. f[z[1]]
    BY <1>1, UnitsArePairs
  <2>3. z[1] \in T /\ z[2] = 1
    BY <2>2
  <2> QED
    BY <2>2, <2>3
<1>4. b \in Bijection(T, Units(f))
  <2>1. b \in [T -> Units(f)] /\ \A x, y \in T : b[x] = b[y] => x = y
    BY <1>2
  <2>2. \A z \in Units(f) : \E a \in T : b[a] = z
    BY <1>3
  <2> HIDE DEF b
  <2> QED
    BY <2>1, <2>2, Fun_IsBij
<1>5. IsFiniteSet(T)
  BY FS_Subset
<1> HIDE DEF f
<1>6. ExistsBijection(T, Units(f))
  BY <1>4 DEF ExistsBijection
<1> QED
  BY <1>5, <1>6, FS_Bijection DEF Total, f

(* One value, and nothing for anybody else.                                 *)
LEMMA TotalOne ==
  ASSUME NEW S, IsFiniteSet(S), NEW b \in S, NEW f \in [S -> Nat], \A a \in S \ {b} : f[a] = 0
  PROVE  Total(f) = f[b]
<1> DEFINE z == [a \in S |-> 0]
<1>1. Total(f) + z[b] = Total(z) + f[b]
  <2>1. z \in [S -> Nat] /\ \A a \in S \ {b} : f[a] = z[a]
    OBVIOUS
  <2> HIDE DEF z
  <2> QED
    BY <2>1, TotalChange
<1>2. Total(z) = 0 /\ z[b] = 0
  BY TotalZero
<1>3. Total(f) \in Nat
  BY TotalType
<1> HIDE DEF z
<1> QED
  BY <1>1, <1>2, <1>3

-----------------------------------------------------------------------------
(* The arithmetic of a transfer.                                            *)
LEMMA AddModType ==
  ASSUME NEW m \in Nat \ {0}, NEW x \in Uint(m), NEW y \in Uint(m)
  PROVE  /\ AddMod(x, y, m) \in Uint(m)
         /\ AddMod(x, y, m) >= x => AddMod(x, y, m) = x + y
BY DEF AddMod, Uint

LEMMA SubModType ==
  ASSUME NEW m \in Nat \ {0}, NEW x \in Uint(m), NEW y \in Uint(m)
  PROVE  /\ SubMod(x, y, m) \in Uint(m)
         /\ x >= y => SubMod(x, y, m) = x - y
BY DEF SubMod, Uint

(* The balances after a permitted transfer, without modular arithmetic.     *)
LEMMA MovedExact ==
  ASSUME Word \in Nat \ {0},
         NEW A, NEW bal \in [A -> Uint(Word)], NEW from \in A, NEW to \in A,
         NEW v \in Uint(Word), CanTransfer(bal, from, to, v)
  PROVE  /\ Moved(bal, from, to, v) \in [A -> Uint(Word)]
         /\ from = to => Moved(bal, from, to, v) = bal
         /\ from # to => /\ Moved(bal, from, to, v)[from] = bal[from] - v
                         /\ Moved(bal, from, to, v)[to] = bal[to] + v
         /\ \A c \in A \ {from, to} : Moved(bal, from, to, v)[c] = bal[c]
<1> DEFINE paid == [bal EXCEPT ![from] = SubMod(@, v, Word)]
           done == [paid EXCEPT ![to] = AddMod(@, v, Word)]
<1>1. Moved(bal, from, to, v) = done
  BY DEF Moved
<1>2. bal[from] >= v /\ bal[from] \in Uint(Word) /\ bal[to] \in Uint(Word)
  BY DEF CanTransfer
<1>3. SubMod(bal[from], v, Word) = bal[from] - v /\ bal[from] - v \in Uint(Word)
  BY <1>2, SubModType
<1>4. AddMod(bal[to], v, Word) = bal[to] + v /\ bal[to] + v \in Uint(Word)
  BY <1>2, AddModType DEF CanTransfer
<1>5. paid \in [A -> Uint(Word)] /\ paid = [bal EXCEPT ![from] = bal[from] - v]
  BY <1>3
<1>6. CASE from = to
  <2>1. AddMod(bal[from] - v, v, Word) = bal[from]
    BY <1>2 DEF AddMod, Uint
  <2>2. done = bal
    BY <1>5, <1>6, <2>1
  <2> QED
    BY <1>1, <1>6, <2>2
<1>7. CASE from # to
  <2>1. done = [paid EXCEPT ![to] = bal[to] + v]
    BY <1>4, <1>5, <1>7
  <2> QED
    BY <1>1, <1>4, <1>5, <1>7, <2>1
<1> QED
  BY <1>6, <1>7

(* A permitted transfer creates and destroys nothing.                      *)
LEMMA MovedTotal ==
  ASSUME Word \in Nat \ {0},
         NEW A, IsFiniteSet(A),
         NEW bal \in [A -> Uint(Word)], NEW from \in A, NEW to \in A,
         NEW v \in Uint(Word), CanTransfer(bal, from, to, v)
  PROVE  Total(Moved(bal, from, to, v)) = Total(bal)
<1> DEFINE done == Moved(bal, from, to, v)
<1>1. /\ done \in [A -> Uint(Word)]
      /\ from = to => done = bal
      /\ from # to => done[from] = bal[from] - v /\ done[to] = bal[to] + v
      /\ \A c \in A \ {from, to} : done[c] = bal[c]
  BY MovedExact
<1> HIDE DEF done
<1>2. CASE from = to
  BY <1>1, <1>2 DEF done
<1>3. CASE from # to
  <2> DEFINE half == [bal EXCEPT ![from] = bal[from] - v]
  <2>1. bal \in [A -> Nat] /\ done \in [A -> Nat] /\ bal[from] - v \in Nat /\ v \in Nat
    BY <1>1 DEF Uint, CanTransfer
  <2>2. half \in [A -> Nat] /\ half[from] = bal[from] - v /\ half[to] = bal[to]
    BY <1>3, <2>1
  <2>3. \A c \in A \ {from} : half[c] = bal[c]
    OBVIOUS
  <2>4. \A c \in A \ {to} : done[c] = half[c]
    BY <1>1, <1>3
  <2> HIDE DEF half
  <2>5. Total(half) + bal[from] = Total(bal) + half[from]
    BY <2>1, <2>2, <2>3, TotalChange
  <2>6. Total(done) + half[to] = Total(half) + done[to]
    BY <2>1, <2>2, <2>4, TotalChange
  <2>7. Total(bal) \in Nat /\ Total(half) \in Nat /\ Total(done) \in Nat
    BY <2>1, <2>2, TotalType
  <2> QED
    BY <1>1, <1>3, <2>1, <2>2, <2>5, <2>6, <2>7 DEF done
<1> QED
  BY <1>2, <1>3
=============================================================================
