------------------------- MODULE NestedIota_proofs -------------------------
(***************************************************************************)
(* Proofs about the construction of nested containers, for any traits, any *)
(* ranges and boxes of any number of dimensions, and any nested_max_size.  *)
(*                                                                         *)
(* Most of it is arithmetic: which outer range nested_calc_outer_inds and  *)
(* nested_calc_outer_range give, that the inner ranges then divide the     *)
(* range without overlap and in its order, and within which limits no      *)
(* assert of theirs fails.  The invariant only ties the containers that    *)
(* are filled to that calculation.                                         *)
(*                                                                         *)
(* The induction theorems of the library take an operator as a parameter,  *)
(* so an induction is over a set: Upwards.                                 *)
(***************************************************************************)
EXTENDS NestedIota, SequenceTheorems, WellFoundedInduction, TLAPS

IRange == [imin : Int, imax : Int, istep : Nat \ {0}]

-----------------------------------------------------------------------------
(* Arithmetic *)

\* Multiplication of natural numbers is monotonic.
LEMMA MulMono ==
  ASSUME NEW x \in Nat, NEW y \in Nat, NEW u \in Nat, NEW v \in Nat, x <= u, y <= v
  PROVE  x * y <= u * v
<1>1. u * v = x * y + x * (v - y) + (u - x) * v
  OBVIOUS
<1>2. x * (v - y) >= 0 /\ (u - x) * v >= 0
  OBVIOUS
<1>3. QED
  BY <1>1, <1>2

LEMMA MulPositive ==
  ASSUME NEW x \in Nat \ {0}, NEW y \in Nat \ {0}
  PROVE  x * y > 0
OBVIOUS

\* Multiples of a positive number are in the order of their factors.
LEMMA Cancel ==
  ASSUME NEW x \in Int, NEW y \in Int, NEW s \in Nat \ {0}
  PROVE  x < y <=> x * s < y * s
<1>1. (y - x) * s = y * s - x * s
  OBVIOUS
<1>2. y - x >= 1 => (y - x) * s >= 1
  OBVIOUS
<1>3. y - x <= 0 => (y - x) * s <= 0
  OBVIOUS
<1>4. x * s \in Int /\ y * s \in Int
  OBVIOUS
<1>5. QED
  BY <1>1, <1>2, <1>3, <1>4

\* Two products of natural numbers, multiplied.
LEMMA MulCover ==
  ASSUME NEW x \in Nat, NEW y \in Nat, NEW z \in Nat, NEW u \in Nat, NEW v \in Nat,
         NEW w \in Nat, z <= x * y, w <= u * v
  PROVE  z * w <= (x * u) * (y * v)
<1>1. PICK m \in Nat : m = x * y
  OBVIOUS
<1>2. PICK n \in Nat : n = u * v
  OBVIOUS
<1>3. z * w <= m * n
  BY <1>1, <1>2, MulMono
<1>4. (x * y) * (u * v) = (x * u) * (y * v)
  OBVIOUS
<1>5. QED
  BY <1>1, <1>2, <1>3, <1>4

\* Multiplication of positive numbers is strictly monotonic.
LEMMA MulStrict ==
  ASSUME NEW x \in Nat \ {0}, NEW y \in Nat \ {0}, NEW u \in Nat, NEW v \in Nat,
         x <= u, y <= v, x < u \/ y < v
  PROVE  x * y < u * v
<1>1. PICK k \in Nat : u = x + k
  <2>1. u - x \in Nat /\ u = x + (u - x)
    OBVIOUS
  <2>2. QED
    BY <2>1
<1>2. PICK l \in Nat : v = y + l
  <2>1. v - y \in Nat /\ v = y + (v - y)
    OBVIOUS
  <2>2. QED
    BY <2>1
<1>3. u * v = x * y + (x * l + k * v)
  BY <1>1, <1>2
<1>4. x * l \in Nat /\ k * v \in Nat
  OBVIOUS
<1>5. l > 0 => x * l > 0
  OBVIOUS
<1>6. k > 0 /\ v > 0 => k * v > 0
  OBVIOUS
<1>7. (k > 0 \/ l > 0) /\ v > 0
  BY <1>1, <1>2
<1>8. x * l + k * v > 0
  BY <1>4, <1>5, <1>6, <1>7
<1>9. x * y \in Nat
  OBVIOUS
<1>10. QED
  BY <1>3, <1>4, <1>8, <1>9

\* div_ceil is the quotient rounded up.
LEMMA DivCeil ==
  ASSUME NEW x \in Int, NEW y \in Nat \ {0}
  PROVE  /\ div_ceil(x, y) \in Int
         /\ (div_ceil(x, y) - 1) * y < x
         /\ x <= div_ceil(x, y) * y
<1> DEFINE q == (-x) \div y
<1>1. q \in Int /\ q * y <= -x /\ -x < q * y + y
  OBVIOUS
<1>2. QED
  BY <1>1 DEF div_ceil

\* The numbers below the quotient are those whose multiples are below x.
LEMMA BelowDivCeil ==
  ASSUME NEW x \in Int, NEW y \in Nat \ {0}, NEW k \in Int
  PROVE  k < div_ceil(x, y) <=> k * y < x
<1> DEFINE q == div_ceil(x, y)
<1>1. q \in Int /\ (q - 1) * y < x /\ x <= q * y
  BY DivCeil
<1> HIDE DEF q
<1>2. CASE k < q
  <2>1. ~ (q - 1 < k)
    BY <1>1, <1>2
  <2>2. ~ ((q - 1) * y < k * y)
    BY <1>1, <2>1, Cancel
  <2>3. (q - 1) * y \in Int /\ k * y \in Int
    BY <1>1
  <2>4. QED
    BY <1>1, <1>2, <2>2, <2>3 DEF q
<1>3. CASE ~ (k < q)
  <2>1. ~ (k * y < q * y)
    BY <1>1, <1>3, Cancel
  <2>2. q * y \in Int /\ k * y \in Int
    BY <1>1
  <2>3. QED
    BY <1>1, <1>3, <2>1, <2>2 DEF q
<1>4. QED
  BY <1>2, <1>3

-----------------------------------------------------------------------------
(* Ranges *)

\* The shape of a range counts the indices below its end.
LEMMA Shape ==
  ASSUME NEW r \in IRange
  PROVE  /\ shape(r) \in Nat
         /\ \A k \in Nat : at(r, k) \in Int /\ (k < shape(r) <=> at(r, k) < r.imax)
<1> DEFINE q == div_ceil(r.imax - r.imin, r.istep)
<1>1. r.imin \in Int /\ r.imax \in Int /\ r.istep \in Nat \ {0}
  BY DEF IRange
<1>2. r.imax - r.imin \in Int /\ q \in Int
  <2>1. r.imax - r.imin \in Int
    BY <1>1
  <2>2. QED
    BY <1>1, <2>1, DivCeil
<1>3. shape(r) = IF q < 0 THEN 0 ELSE q
  BY DEF shape
<1>4. shape(r) \in Nat
  BY <1>2, <1>3
<1>5. ASSUME NEW k \in Nat PROVE at(r, k) \in Int /\ (k < shape(r) <=> at(r, k) < r.imax)
  <2>1. k < q <=> k * r.istep < r.imax - r.imin
    BY <1>1, BelowDivCeil
  <2>2. k * r.istep \in Int
    BY <1>1
  <2>3. k < shape(r) <=> k < q
    BY <1>2, <1>3
  <2>4. QED
    BY <1>1, <2>1, <2>2, <2>3 DEF at
<1>6. QED
  BY <1>4, <1>5

\* It is the only number that does.
LEMMA ShapeIs ==
  ASSUME NEW r \in IRange, NEW n \in Nat,
         \A k \in Nat : k < n <=> at(r, k) < r.imax
  PROVE  shape(r) = n
<1>1. shape(r) \in Nat /\ \A k \in Nat : k < n <=> k < shape(r)
  BY Shape
<1>2. ~ (n < n) /\ ~ (shape(r) < shape(r))
  BY <1>1
<1>3. ~ (n < shape(r)) /\ ~ (shape(r) < n)
  BY <1>1, <1>2
<1>4. QED
  BY <1>1, <1>3

\* The indices of a range are the multiples of its step from its lower bound
\* to its upper bound.
LEMMA Members ==
  ASSUME NEW r \in IRange, NEW x
  PROVE  x \in Range(Indices(r)) <=> \E k \in Nat : x = at(r, k) /\ at(r, k) < r.imax
<1>1. shape(r) \in Nat
  BY Shape
<1>2. x \in Range(Indices(r)) <=> \E i \in 1 .. shape(r) : x = at(r, i - 1)
  BY DEF Range, Indices
<1>3. ASSUME NEW i \in 1 .. shape(r), x = at(r, i - 1)
      PROVE  \E k \in Nat : x = at(r, k) /\ at(r, k) < r.imax
  <2>1. i - 1 \in Nat /\ i - 1 < shape(r)
    BY <1>1
  <2>2. QED
    BY <1>3, <2>1, Shape
<1>4. ASSUME NEW k \in Nat, x = at(r, k), at(r, k) < r.imax
      PROVE  \E i \in 1 .. shape(r) : x = at(r, i - 1)
  <2>1. k < shape(r)
    BY <1>4, Shape
  <2>2. k + 1 \in 1 .. shape(r) /\ (k + 1) - 1 = k
    BY <1>1, <2>1
  <2>3. QED
    BY <1>4, <2>2
<1>5. QED
  BY <1>2, <1>3, <1>4

\* The same, for the range with the bounds lo and hi and the step s.
LEMMA Multiples ==
  ASSUME NEW lo \in Int, NEW hi \in Int, NEW s \in Nat \ {0}, NEW x
  PROVE  x \in Range(Indices(irange(lo, hi, s))) <=> \E k \in Nat : x = lo + k * s /\ x < hi
<1> DEFINE r == irange(lo, hi, s)
<1>1. r \in IRange /\ r.imin = lo /\ r.imax = hi /\ r.istep = s
  BY DEF IRange, irange
<1>2. x \in Range(Indices(r)) <=> \E k \in Nat : x = at(r, k) /\ at(r, k) < r.imax
  BY <1>1, Members
<1>3. \A k \in Nat : at(r, k) = lo + k * s
  BY <1>1 DEF at
<1>4. QED
  BY <1>1, <1>2, <1>3

\* Indices are integers from the lower bound on and below the upper bound.
LEMMA Between ==
  ASSUME NEW r \in IRange, NEW x \in Range(Indices(r))
  PROVE  x \in Int /\ r.imin <= x /\ x < r.imax
<1>1. PICK k \in Nat : x = at(r, k) /\ at(r, k) < r.imax
  BY Members
<1>2. r.imin \in Int /\ r.imax \in Int /\ r.istep \in Nat
  BY DEF IRange
<1>3. k * r.istep \in Nat
  BY <1>2
<1>4. QED
  BY <1>1, <1>2, <1>3 DEF at

-----------------------------------------------------------------------------
(* A range that is divided *)

\* The part of the range from lo to hi with the step s that begins at i,
\* when every part is t wide.
Part(i, hi, s, t) == irange(i, lesser(i + t, hi), s)

\* A part is a range from its outer index, that ends with the part or the range.
LEMMA PartType ==
  ASSUME NEW i \in Int, NEW hi \in Int, NEW s \in Nat \ {0}, NEW t \in Nat \ {0}
  PROVE  /\ Part(i, hi, s, t) \in IRange
         /\ Part(i, hi, s, t).imin = i /\ Part(i, hi, s, t).istep = s
         /\ \A x \in Int : x < Part(i, hi, s, t).imax <=> x < i + t /\ x < hi
BY DEF Part, IRange, irange, lesser

\* An index between two starts of parts belongs to one part at most.
LEMMA PartsDisjoint ==
  ASSUME NEW lo \in Int, NEW hi \in Int, NEW s \in Nat \ {0}, NEW t \in Nat \ {0},
         NEW i \in Range(Indices(irange(lo, hi, t))),
         NEW j \in Range(Indices(irange(lo, hi, t))),
         NEW x, x \in Range(Indices(Part(i, hi, s, t))), x \in Range(Indices(Part(j, hi, s, t)))
  PROVE  i = j
<1>0. /\ i \in Range(Indices(irange(lo, hi, t))) <=> \E k \in Nat : i = lo + k * t /\ i < hi
      /\ j \in Range(Indices(irange(lo, hi, t))) <=> \E k \in Nat : j = lo + k * t /\ j < hi
  BY Multiples
<1>1. PICK k \in Nat : i = lo + k * t
  BY <1>0
<1>2. PICK l \in Nat : j = lo + l * t
  BY <1>0
<1>3. i \in Int /\ j \in Int
  BY <1>1, <1>2
<1>4. x \in Int /\ i <= x /\ x < i + t /\ j <= x /\ x < j + t
  BY <1>3, PartType, Between
<1>5. k * t \in Int /\ l * t \in Int /\ (k + 1) * t = k * t + t /\ (l + 1) * t = l * t + t
  OBVIOUS
<1>6. k * t < (l + 1) * t /\ l * t < (k + 1) * t
  BY <1>1, <1>2, <1>4, <1>5
<1>7. k < l + 1 /\ l < k + 1
  BY <1>6, Cancel
<1>8. QED
  BY <1>1, <1>2, <1>7

\* The indices of a part.
LEMMA PartMultiples ==
  ASSUME NEW i \in Int, NEW hi \in Int, NEW s \in Nat \ {0}, NEW t \in Nat \ {0}, NEW x
  PROVE  x \in Range(Indices(Part(i, hi, s, t))) <=>
           \E k \in Nat : x = i + k * s /\ x < hi /\ x < i + t
<1> DEFINE e == lesser(i + t, hi)
<1>1. e \in Int /\ \A y \in Int : y < e <=> y < hi /\ y < i + t
  BY DEF lesser
<1>2. \A k \in Nat : i + k * s \in Int
  OBVIOUS
<1> HIDE DEF e
<1>3. x \in Range(Indices(irange(i, e, s))) <=> \E k \in Nat : x = i + k * s /\ x < e
  BY <1>1, Multiples
<1>4. QED
  BY <1>1, <1>2, <1>3 DEF Part, e

\* Division with remainder.
LEMMA DivMod ==
  ASSUME NEW k \in Nat, NEW m \in Nat \ {0}
  PROVE  \E j \in Nat, l \in Nat : k = j * m + l /\ l < m
<1>1. k % m \in 0 .. m - 1 /\ k = m * (k \div m) + (k % m) /\ k \div m \in Int
  OBVIOUS
<1>2. k \div m >= 0
  <2>1. CASE k \div m < 0
    <3>1. m * (k \div m) <= m * (-1)
      BY <1>1, <2>1
    <3>2. QED
      BY <1>1, <3>1
  <2>2. QED
    BY <1>1, <2>1
<1>3. k % m \in Nat /\ k % m < m
  BY <1>1
<1>4. k = (k \div m) * m + (k % m)
  BY <1>1
<1>5. k \div m \in Nat
  BY <1>1, <1>2
<1>6. QED
  BY <1>3, <1>4, <1>5

\* Together the parts are the range, if they begin at indices of the range
\* or there is but one.
LEMMA PartsCover ==
  ASSUME NEW lo \in Int, NEW hi \in Int, NEW s \in Nat \ {0}, NEW t \in Nat \ {0},
         (\E m \in Nat \ {0} : t = m * s) \/ hi - lo <= t, NEW x
  PROVE  x \in Range(Indices(irange(lo, hi, s))) <=>
           \E i \in Range(Indices(irange(lo, hi, t))) : x \in Range(Indices(Part(i, hi, s, t)))
<1> DEFINE R == Range(Indices(irange(lo, hi, s)))
<1> DEFINE O == Range(Indices(irange(lo, hi, t)))
<1> DEFINE I(i) == Range(Indices(Part(i, hi, s, t)))
<1>1. CASE \E m \in Nat \ {0} : t = m * s
  <2>1. PICK m \in Nat \ {0} : t = m * s
    BY <1>1
  <2>2. ASSUME x \in R PROVE \E i \in O : x \in I(i)
    <3>1. PICK k \in Nat : x = lo + k * s /\ x < hi
      BY <2>2, Multiples
    <3>2. PICK j \in Nat, l \in Nat : k = j * m + l /\ l < m
      BY DivMod
    <3>3. k * s = j * t + l * s /\ j * t \in Int /\ l * s \in Nat
      BY <2>1, <3>2
    <3>4. l * s < t
      BY <2>1, <3>2, Cancel
    <3>5. PICK i \in Int : i = lo + j * t
      BY <3>3
    <3>6. x = i + l * s /\ i <= x /\ x < i + t /\ i < hi
      BY <3>1, <3>3, <3>4, <3>5
    <3>7. i \in O
      BY <3>5, <3>6, Multiples
    <3>8. x \in I(i)
      BY <3>1, <3>6, PartMultiples
    <3>9. QED
      BY <3>7, <3>8
  <2>3. ASSUME NEW i \in O, x \in I(i) PROVE x \in R
    <3>0. /\ i \in O <=> \E k \in Nat : i = lo + k * t /\ i < hi
          /\ x \in I(i)
      BY <2>3, Multiples
    <3>1. PICK j \in Nat : i = lo + j * t
      BY <3>0
    <3>2. i \in Int
      BY <3>1
    <3>a. x \in I(i) <=> \E k \in Nat : x = i + k * s /\ x < hi /\ x < i + t
      BY <3>2, PartMultiples
    <3>3. PICK l \in Nat : x = i + l * s /\ x < hi
      BY <3>0, <3>a
    <3>4. j * m + l \in Nat /\ x = lo + (j * m + l) * s
      BY <2>1, <3>1, <3>3
    <3>5. QED
      BY <3>3, <3>4, Multiples
  <2>4. QED
    BY <2>2, <2>3
<1>2. CASE hi - lo <= t
  <2>1. ASSUME NEW i \in O PROVE i = lo
    <3>1. PICK j \in Nat : i = lo + j * t /\ i < hi
      BY Multiples
    <3>2. j * t \in Int /\ j * t < 1 * t
      BY <1>2, <3>1
    <3>3. j < 1
      BY <3>2, Cancel
    <3>4. QED
      BY <3>1, <3>3
  <2>2. lo < hi => lo \in O
    <3>1. lo = lo + 0 * t
      OBVIOUS
    <3>2. QED
      BY <3>1, Multiples
  <2>3. Part(lo, hi, s, t) = irange(lo, hi, s)
    BY <1>2 DEF Part, lesser
  <2>4. x \in R => lo < hi
    <3>1. \A k \in Nat : k * s \in Nat
      OBVIOUS
    <3>2. QED
      BY <3>1, Multiples
  <2>5. QED
    BY <2>1, <2>2, <2>3, <2>4
<1>3. QED
  BY <1>1, <1>2
-----------------------------------------------------------------------------
(* Products *)

\* Induction: a set that contains 0 and with a number the next one, up to n,
\* contains all numbers up to n.
LEMMA Upwards ==
  ASSUME NEW n \in Nat, NEW S, 0 \in S, \A i \in 1 .. n : i - 1 \in S => i \in S
  PROVE  0 .. n \subseteq S
<1> DEFINE LessThan == {ss \in Nat \X Nat : ss[1] < ss[2]}
<1> DEFINE Bad == (0 .. n) \ S
<1>1. SUFFICES ASSUME Bad # {} PROVE FALSE
  OBVIOUS
<1>2. IsWellFoundedOn(LessThan, Nat)
  BY NatLessThanWellFounded DEF OpToRel
<1>3. Bad \subseteq Nat
  OBVIOUS
<1>4. PICK x \in Bad : \A y \in Bad : <<y, x>> \notin LessThan
  <2> HIDE DEF LessThan, Bad
  <2>1. QED
    BY <1>1, <1>2, <1>3, WFMin
<1>5. x \in 1 .. n /\ x \notin S /\ x - 1 \in 0 .. n
  OBVIOUS
<1>6. x - 1 \in Bad
  BY <1>5
<1>7. <<x - 1, x>> \in LessThan
  <2>1. <<x - 1, x>> \in Nat \X Nat /\ <<x - 1, x>>[1] = x - 1 /\ <<x - 1, x>>[2] = x
    BY <1>5
  <2>2. x - 1 < x
    BY <1>5
  <2>3. QED
    BY <2>1, <2>2, Zenon DEF LessThan
<1>8. QED
  BY <1>4, <1>6, <1>7

\* f holds the products of the first elements of xs.
Products(f, xs) ==
  /\ f \in [0 .. Len(xs) -> Nat]
  /\ f[0] = 1
  /\ \A i \in 1 .. Len(xs) : f[i] = f[i - 1] * xs[i]

\* prod multiplies one element after the other.
LEMMA ProdIs ==
  ASSUME NEW xs \in Seq(Nat)
  PROVE  \E f : Products(f, xs) /\ prod(xs) = f[Len(xs)]
<1> DEFINE N == Len(xs)
<1> DEFINE Upto(g, n) == g = [i \in 0 .. n |-> IF i = 0 THEN 1 ELSE g[i - 1] * xs[i]]
<1> DEFINE Done == {n \in 0 .. N : \E g \in [0 .. n -> Nat] : Upto(g, n)}
<1>1. N \in Nat /\ \A i \in 1 .. N : xs[i] \in Nat
  OBVIOUS
<1>2. 0 \in Done
  <2> DEFINE g == [i \in 0 .. 0 |-> 1]
  <2>1. g \in [0 .. 0 -> Nat] /\ Upto(g, 0)
    OBVIOUS
  <2> HIDE DEF g
  <2>2. QED
    BY <1>1, <2>1
<1>3. ASSUME NEW n \in 1 .. N, n - 1 \in Done PROVE n \in Done
  <2>1. PICK g \in [0 .. n - 1 -> Nat] : Upto(g, n - 1)
    BY <1>3
  <2> DEFINE h == [i \in 0 .. n |-> IF i = n THEN g[n - 1] * xs[n] ELSE g[i]]
  <2>2. \A i \in 0 .. n - 1 : g[i] = IF i = 0 THEN 1 ELSE g[i - 1] * xs[i]
    BY <2>1
  <2>3. \A i \in 0 .. n : h[i] = IF i = n THEN g[n - 1] * xs[n] ELSE g[i]
    OBVIOUS
  <2>4. h \in [0 .. n -> Nat]
    <3>1. g[n - 1] \in Nat /\ xs[n] \in Nat
      BY <1>1
    <3>2. g[n - 1] * xs[n] \in Nat
      BY <3>1
    <3>3. \A i \in 0 .. n : i = n \/ i \in 0 .. n - 1
      OBVIOUS
    <3>4. QED
      BY <3>2, <3>3
  <2> HIDE DEF h
  <2>5. ASSUME NEW i \in 0 .. n PROVE h[i] = IF i = 0 THEN 1 ELSE h[i - 1] * xs[i]
    <3>1. CASE i = n
      <4>1. n - 1 \in 0 .. n /\ n - 1 # n
        OBVIOUS
      <4>2. QED
        BY <2>3, <3>1, <4>1
    <3>2. CASE i \in 0 .. n - 1
      <4>1. i # n /\ (i # 0 => i - 1 \in 0 .. n /\ i - 1 # n)
        BY <3>2
      <4>2. QED
        BY <2>2, <2>3, <3>2, <4>1
    <3>3. QED
      BY <3>1, <3>2
  <2>6. Upto(h, n)
    BY <2>4, <2>5
  <2>7. n \in 0 .. N
    BY <1>1
  <2> HIDE DEF Upto
  <2>8. QED
    BY <2>4, <2>6, <2>7
<1>4. N \in Done
  <2>1. 0 .. N \subseteq Done
    <3> HIDE DEF Done
    <3>1. QED
      BY <1>1, <1>2, <1>3, Upwards
  <2>2. N \in 0 .. N
    BY <1>1
  <2>3. QED
    BY <2>1, <2>2
<1> DEFINE G == CHOOSE g : Upto(g, N)
<1>5. Upto(G, N)
  BY <1>4
<1>6. prod(xs) = G[N]
  BY DEF prod
<1> HIDE DEF G
<1>7. \A i \in 0 .. N : G[i] = IF i = 0 THEN 1 ELSE G[i - 1] * xs[i]
  BY <1>5
<1>8. \A i \in 0 .. N : G[i] \in Nat
  <2> DEFINE S == {i \in 0 .. N : G[i] \in Nat}
  <2>1. 0 \in S
    BY <1>1, <1>7
  <2>2. ASSUME NEW i \in 1 .. N, i - 1 \in S PROVE i \in S
    <3>1. G[i] = G[i - 1] * xs[i] /\ G[i - 1] \in Nat /\ xs[i] \in Nat
      BY <1>1, <1>7, <2>2
    <3>2. G[i] \in Nat
      BY <3>1
    <3>3. QED
      BY <3>2
  <2>3. 0 .. N \subseteq S
    <3> HIDE DEF S
    <3>1. QED
      BY <1>1, <2>1, <2>2, Upwards
  <2>4. QED
    BY <2>3
<1>9. G \in [0 .. N -> Nat]
  <2>1. DOMAIN G = 0 .. N /\ G = [i \in 0 .. N |-> G[i]]
    BY <1>5
  <2>2. QED
    BY <1>8, <2>1
<1>10. Products(G, xs)
  BY <1>1, <1>7, <1>9 DEF Products
<1>11. QED
  BY <1>6, <1>10

\* A product of factors that are as large, one by one, is as large.
LEMMA ProdMono ==
  ASSUME NEW xs \in Seq(Nat), NEW ys \in Seq(Nat), Len(xs) = Len(ys),
         \A i \in 1 .. Len(xs) : xs[i] <= ys[i]
  PROVE  prod(xs) <= prod(ys)
<1> DEFINE N == Len(xs)
<1>1. N \in Nat /\ \A i \in 1 .. N : xs[i] \in Nat /\ ys[i] \in Nat
  OBVIOUS
<1>2. PICK f : Products(f, xs) /\ prod(xs) = f[N]
  BY ProdIs
<1>3. PICK g : Products(g, ys) /\ prod(ys) = g[N]
  BY ProdIs
<1>4. \A i \in 0 .. N : f[i] \in Nat /\ g[i] \in Nat
  BY <1>2, <1>3 DEF Products
<1> DEFINE S == {i \in 0 .. N : f[i] <= g[i]}
<1>5. 0 \in S
  BY <1>1, <1>2, <1>3 DEF Products
<1>6. ASSUME NEW i \in 1 .. N, i - 1 \in S PROVE i \in S
  <2>1. f[i] = f[i - 1] * xs[i] /\ g[i] = g[i - 1] * ys[i]
    BY <1>2, <1>3 DEF Products
  <2>2. i - 1 \in 0 .. N /\ f[i - 1] <= g[i - 1] /\ xs[i] <= ys[i]
    BY <1>6
  <2>3. f[i - 1] * xs[i] <= g[i - 1] * ys[i]
    BY <1>1, <1>4, <2>2, MulMono
  <2>4. QED
    BY <2>1, <2>3
<1>7. 0 .. N \subseteq S
  <2> HIDE DEF S
  <2>1. QED
    BY <1>1, <1>5, <1>6, Upwards
<1>8. N \in S
  BY <1>1, <1>7
<1>9. QED
  BY <1>2, <1>3, <1>8

\* The product of two products that cover ys, factor by factor, covers it.
LEMMA ProdMul ==
  ASSUME NEW xs \in Seq(Nat), NEW ys \in Seq(Nat), NEW zs \in Seq(Nat),
         Len(xs) = Len(zs), Len(ys) = Len(zs),
         \A i \in 1 .. Len(zs) : zs[i] <= xs[i] * ys[i]
  PROVE  prod(zs) <= prod(xs) * prod(ys)
<1> DEFINE N == Len(zs)
<1>1. N \in Nat /\ \A i \in 1 .. N : xs[i] \in Nat /\ ys[i] \in Nat /\ zs[i] \in Nat
  OBVIOUS
<1>2. PICK f : Products(f, xs) /\ prod(xs) = f[N]
  BY ProdIs
<1>3. PICK g : Products(g, ys) /\ prod(ys) = g[N]
  BY ProdIs
<1>4. PICK h : Products(h, zs) /\ prod(zs) = h[N]
  BY ProdIs
<1>5. \A i \in 0 .. N : f[i] \in Nat /\ g[i] \in Nat /\ h[i] \in Nat
  BY <1>2, <1>3, <1>4 DEF Products
<1> DEFINE S == {i \in 0 .. N : h[i] <= f[i] * g[i]}
<1>6. 0 \in S
  <2>1. f[0] = 1 /\ g[0] = 1 /\ h[0] = 1
    BY <1>2, <1>3, <1>4 DEF Products
  <2>2. QED
    BY <1>1, <2>1
<1>7. ASSUME NEW i \in 1 .. N, i - 1 \in S PROVE i \in S
  <2>1. f[i] = f[i - 1] * xs[i] /\ g[i] = g[i - 1] * ys[i] /\ h[i] = h[i - 1] * zs[i]
    BY <1>2, <1>3, <1>4 DEF Products
  <2>2. i - 1 \in 0 .. N /\ h[i - 1] <= f[i - 1] * g[i - 1] /\ zs[i] <= xs[i] * ys[i]
    BY <1>7
  <2>3. /\ f[i - 1] \in Nat /\ g[i - 1] \in Nat /\ h[i - 1] \in Nat
        /\ xs[i] \in Nat /\ ys[i] \in Nat /\ zs[i] \in Nat
    BY <1>1, <1>5, <2>2
  <2>4. h[i - 1] * zs[i] <= (f[i - 1] * xs[i]) * (g[i - 1] * ys[i])
    BY <2>2, <2>3, MulCover
  <2>5. h[i] <= f[i] * g[i]
    BY <2>1, <2>4
  <2>6. QED
    BY <2>5
<1>8. 0 .. N \subseteq S
  <2> HIDE DEF S
  <2>1. QED
    BY <1>1, <1>6, <1>7, Upwards
<1>9. N \in S
  BY <1>1, <1>8
<1>10. QED
  BY <1>2, <1>3, <1>4, <1>9

\* A product is a natural number, and positive if its factors are.
LEMMA ProdNat ==
  ASSUME NEW xs \in Seq(Nat)
  PROVE  /\ prod(xs) \in Nat
         /\ (\A i \in 1 .. Len(xs) : xs[i] > 0) <=> prod(xs) > 0
<1> DEFINE N == Len(xs)
<1>1. N \in Nat /\ \A i \in 1 .. N : xs[i] \in Nat
  OBVIOUS
<1>2. PICK f : Products(f, xs) /\ prod(xs) = f[N]
  BY ProdIs
<1>3. \A i \in 0 .. N : f[i] \in Nat
  BY <1>2 DEF Products
<1>4. prod(xs) \in Nat
  BY <1>1, <1>2, <1>3
<1>5. ASSUME \A i \in 1 .. N : xs[i] > 0 PROVE prod(xs) > 0
  <2> DEFINE S == {i \in 0 .. N : f[i] > 0}
  <2>1. 0 \in S
    BY <1>1, <1>2 DEF Products
  <2>2. ASSUME NEW i \in 1 .. N, i - 1 \in S PROVE i \in S
    <3>1. f[i] = f[i - 1] * xs[i]
      BY <1>2 DEF Products
    <3>2. f[i - 1] \in Nat \ {0} /\ xs[i] \in Nat \ {0}
      BY <1>1, <1>3, <1>5, <2>2
    <3>3. f[i - 1] * xs[i] > 0
      BY <3>2
    <3>4. QED
      BY <3>1, <3>3
  <2>3. 0 .. N \subseteq S
    <3> HIDE DEF S
    <3>1. QED
      BY <1>1, <2>1, <2>2, Upwards
  <2>4. N \in S
    BY <1>1, <2>3
  <2>5. QED
    BY <1>2, <2>4
<1>6. ASSUME NEW d \in 1 .. N, ~ (xs[d] > 0) PROVE ~ (prod(xs) > 0)
  <2> DEFINE S == {i \in 0 .. N : i >= d => f[i] = 0}
  <2>1. 0 \in S
    BY <1>1
  <2>2. ASSUME NEW i \in 1 .. N, i - 1 \in S PROVE i \in S
    <3>1. f[i] = f[i - 1] * xs[i] /\ f[i - 1] \in Nat /\ xs[i] \in Nat
      BY <1>1, <1>2, <1>3 DEF Products
    <3>2. ASSUME i >= d PROVE f[i - 1] = 0 \/ xs[i] = 0
      BY <1>1, <1>6, <2>2, <3>2
    <3>3. i >= d => f[i] = 0
      BY <3>1, <3>2
    <3>4. QED
      BY <3>3
  <2>3. 0 .. N \subseteq S
    <3> HIDE DEF S
    <3>1. QED
      BY <1>1, <2>1, <2>2, Upwards
  <2>4. N \in S /\ N >= d
    BY <1>1, <2>3
  <2>5. QED
    BY <1>2, <2>4
<1>7. QED
  BY <1>4, <1>5, <1>6

\* A product grows with one of its factors, if the others are positive.
LEMMA ProdStrict ==
  ASSUME NEW xs \in Seq(Nat), NEW ys \in Seq(Nat), Len(xs) = Len(ys),
         \A i \in 1 .. Len(xs) : xs[i] > 0 /\ xs[i] <= ys[i],
         NEW d \in 1 .. Len(xs), xs[d] < ys[d]
  PROVE  prod(xs) < prod(ys)
<1> DEFINE N == Len(xs)
<1>1. N \in Nat /\ \A i \in 1 .. N : xs[i] \in Nat \ {0} /\ ys[i] \in Nat \ {0}
  <2>1. N \in Nat
    OBVIOUS
  <2>2. ASSUME NEW i \in 1 .. N PROVE xs[i] \in Nat \ {0} /\ ys[i] \in Nat \ {0}
    <3>1. xs[i] \in Nat /\ ys[i] \in Nat
      OBVIOUS
    <3>2. xs[i] > 0 /\ xs[i] <= ys[i]
      OBVIOUS
    <3>3. QED
      BY <3>1, <3>2
  <2>3. QED
    BY <2>1, <2>2
<1>2. PICK f : Products(f, xs) /\ prod(xs) = f[N]
  BY ProdIs
<1>3. PICK g : Products(g, ys) /\ prod(ys) = g[N]
  BY ProdIs
<1>4. \A i \in 0 .. N : f[i] \in Nat /\ g[i] \in Nat
  BY <1>2, <1>3 DEF Products
<1> DEFINE S == {i \in 0 .. N : f[i] > 0 /\ f[i] <= g[i] /\ (i >= d => f[i] < g[i])}
<1>5. 0 \in S
  BY <1>1, <1>2, <1>3 DEF Products
<1>6. ASSUME NEW i \in 1 .. N, i - 1 \in S PROVE i \in S
  <2>1. f[i] = f[i - 1] * xs[i] /\ g[i] = g[i - 1] * ys[i]
    BY <1>2, <1>3 DEF Products
  <2>2. i - 1 \in 0 .. N /\ f[i - 1] <= g[i - 1] /\ xs[i] <= ys[i]
    BY <1>6
  <2>3. f[i - 1] \in Nat \ {0} /\ g[i - 1] \in Nat
    <3>1. f[i - 1] > 0
      BY <1>6
    <3>2. f[i - 1] \in Nat /\ g[i - 1] \in Nat
      BY <1>4, <2>2
    <3>3. QED
      BY <3>1, <3>2
  <2>4. xs[i] \in Nat \ {0} /\ ys[i] \in Nat
    BY <1>1
  <2>5. f[i - 1] * xs[i] <= g[i - 1] * ys[i] /\ f[i - 1] * xs[i] > 0
    <3>1. f[i - 1] * xs[i] <= g[i - 1] * ys[i]
      BY <2>2, <2>3, <2>4, MulMono
    <3>2. f[i - 1] * xs[i] > 0
      BY <2>3, <2>4, MulPositive
    <3>3. QED
      BY <3>1, <3>2
  <2>6. ASSUME i >= d PROVE f[i - 1] * xs[i] < g[i - 1] * ys[i]
    <3>1. f[i - 1] < g[i - 1] \/ xs[i] < ys[i]
      <4>1. CASE i = d
        BY <4>1
      <4>2. CASE i # d
        BY <1>6, <2>6, <4>2
      <4>3. QED
        BY <4>1, <4>2
    <3>2. QED
      BY <2>2, <2>3, <2>4, <3>1, MulStrict
  <2>7. f[i] > 0 /\ f[i] <= g[i] /\ (i >= d => f[i] < g[i])
    BY <2>1, <2>5, <2>6
  <2>8. QED
    BY <2>7
<1>7. 0 .. N \subseteq S
  <2> HIDE DEF S
  <2>1. QED
    BY <1>1, <1>5, <1>6, Upwards
<1>8. N \in S /\ N >= d
  BY <1>1, <1>7
<1>9. QED
  BY <1>2, <1>3, <1>8

-----------------------------------------------------------------------------
(* One dimension: iotaMap *)

Traits == [min : Nat, max : {unlimited} \cup (Nat \ {0})]

\* The cap of a type is a size that its limit allows.
LEMMA CappedType ==
  ASSUME NEW t \in Traits
  PROVE  /\ capped(t) \in 1 .. nested_max_size
         /\ t.max # unlimited => t.max \in Nat \ {0} /\ capped(t) <= t.max
BY NestedSizeAssumption DEF Traits, capped, lesser, unlimited

\* There is always an inner container, so that the outer range ends where
\* the range does.
LEMMA OuterPositive ==
  ASSUME NEW tp \in Traits, NEW ta \in Traits, NEW r \in IRange
  PROVE  /\ nested_calc_outer_size(tp, ta, r) \in Nat \ {0}
         /\ nested_calc_outer_inds(tp, ta, r) =
              irange(r.imin, r.imax,
                     IF ta.max = unlimited THEN r.imax - r.imin ELSE r.istep * ta.max)
<1>1. shape(r) \in Nat
  BY Shape
<1>2. capped(tp) \in Nat \ {0} /\ capped(ta) \in Nat \ {0}
  BY CappedType, NestedSizeAssumption
<1>3. shape(r) # 0 => 0 < div_ceil(shape(r), capped(ta))
  <2>1. 0 < div_ceil(shape(r), capped(ta)) <=> 0 * capped(ta) < shape(r)
    BY <1>1, <1>2, BelowDivCeil
  <2>2. 0 * capped(ta) = 0
    BY <1>2
  <2>3. QED
    BY <1>1, <2>1, <2>2
<1>4. div_ceil(shape(r), capped(ta)) \in Int
  BY <1>1, <1>2, DivCeil
<1>5. nested_calc_outer_size(tp, ta, r) \in Nat \ {0}
  BY <1>1, <1>2, <1>3, <1>4 DEF nested_calc_outer_size, inner_outer_size
<1>6. QED
  BY <1>5 DEF nested_calc_outer_inds

\* An outer range that passes the asserts divides its range into parts.
LEMMA OuterInds ==
  ASSUME NEW tp \in Traits, NEW ta \in Traits, NEW r \in IRange, outer_inds_ok(tp, ta, r)
  PROVE  \E t \in Nat \ {0} :
           /\ nested_calc_outer_inds(tp, ta, r) = irange(r.imin, r.imax, t)
           /\ \/ r.imax - r.imin <= t
              \/ \E m \in Nat \ {0} : t = m * r.istep
<1> DEFINE t == IF ta.max = unlimited THEN r.imax - r.imin ELSE r.istep * ta.max
<1>1. r.imin \in Int /\ r.imax \in Int /\ r.istep \in Nat \ {0}
  BY DEF IRange
<1>2. nested_calc_outer_inds(tp, ta, r) = irange(r.imin, r.imax, t)
  BY OuterPositive
<1>3. t > 0
  BY <1>2 DEF outer_inds_ok, valid, irange
<1>4. CASE ta.max = unlimited
  <2>1. t = r.imax - r.imin /\ t \in Nat \ {0}
    BY <1>1, <1>3, <1>4
  <2>2. QED
    BY <1>1, <1>2, <2>1
<1>5. CASE ta.max # unlimited
  <2>1. ta.max \in Nat \ {0}
    BY <1>5, CappedType
  <2>2. t = ta.max * r.istep /\ t \in Nat \ {0}
    BY <1>1, <1>5, <2>1
  <2>3. QED
    BY <1>2, <2>1, <2>2
<1>6. QED
  BY <1>4, <1>5

\* The inner range of an outer index is the part that begins there.
LEMMA InnerInds ==
  ASSUME NEW r \in IRange, NEW o, NEW t, NEW i, o = irange(r.imin, r.imax, t)
  PROVE  nested_calc_inner_inds(r, o, i) = Part(i, r.imax, r.istep, t)
BY DEF nested_calc_inner_inds, Part, irange

\* A function on the first n numbers is a sequence.
LEMMA FunctionIsSeq ==
  ASSUME NEW S, NEW n \in Nat, NEW f \in [1 .. n -> S]
  PROVE  f \in Seq(S) /\ Len(f) = n
<1>1. f \in Seq(S)
  BY SeqDef
<1>2. Len(f) \in Nat /\ DOMAIN f = 1 .. Len(f)
  BY <1>1, LenProperties
<1>3. 1 .. Len(f) = 1 .. n
  BY <1>2
<1>4. Len(f) = n
  BY <1>2, <1>3
<1>5. QED
  BY <1>1, <1>4

\* The first n elements of T; those after the first u up to v.
Prefix(T, n) == [k \in 1 .. n |-> T[k]]
Piece(T, u, v) == [k \in 1 .. v - u |-> T[u + k]]

\* A prefix and the piece that follows it, put together, are a prefix.
LEMMA Glue ==
  ASSUME NEW T, NEW u \in Nat, NEW v \in Nat, u <= v
  PROVE  Prefix(T, u) \o Piece(T, u, v) = Prefix(T, v)
<1> DEFINE X == {T[k] : k \in 1 .. v}
<1> DEFINE f == [k \in 1 .. u |-> T[k]]
<1> DEFINE g == [k \in 1 .. v - u |-> T[u + k]]
<1> DEFINE h == [k \in 1 .. v |-> T[k]]
<1>1. f \in [1 .. u -> X] /\ g \in [1 .. v - u -> X] /\ h \in [1 .. v -> X]
  <2>1. \A k \in 1 .. u : k \in 1 .. v
    OBVIOUS
  <2>2. \A k \in 1 .. v - u : u + k \in 1 .. v
    OBVIOUS
  <2>3. QED
    BY <2>1, <2>2
<1>2. \A k \in 1 .. u : f[k] = T[k]
  OBVIOUS
<1>3. \A k \in 1 .. v - u : g[k] = T[u + k]
  OBVIOUS
<1>4. \A k \in 1 .. v : h[k] = T[k]
  OBVIOUS
<1> HIDE DEF X, f, g, h
<1>5. v - u \in Nat
  OBVIOUS
<1>6. /\ f \in Seq(X) /\ Len(f) = u
      /\ g \in Seq(X) /\ Len(g) = v - u
      /\ h \in Seq(X) /\ Len(h) = v
  <2>1. f \in Seq(X) /\ Len(f) = u
    BY <1>1, FunctionIsSeq
  <2>2. g \in Seq(X) /\ Len(g) = v - u
    BY <1>1, <1>5, FunctionIsSeq
  <2>3. h \in Seq(X) /\ Len(h) = v
    BY <1>1, FunctionIsSeq
  <2>4. QED
    BY <2>1, <2>2, <2>3
<1>7. /\ f \o g \in Seq(X)
      /\ Len(f \o g) = v
      /\ \A k \in 1 .. v : (f \o g)[k] = IF k <= u THEN f[k] ELSE g[k - u]
  <2>1. /\ f \o g \in Seq(X)
        /\ Len(f \o g) = u + (v - u)
        /\ \A k \in 1 .. u + (v - u) : (f \o g)[k] = IF k <= u THEN f[k] ELSE g[k - u]
    BY <1>6, ConcatProperties
  <2>2. u + (v - u) = v
    OBVIOUS
  <2>3. QED
    BY <2>1, <2>2
<1>8. ASSUME NEW k \in 1 .. v PROVE (f \o g)[k] = h[k]
  <2>1. CASE k <= u
    BY <1>2, <1>4, <1>7, <2>1
  <2>2. CASE ~ (k <= u)
    <3>1. k - u \in 1 .. v - u /\ u + (k - u) = k
      BY <2>2
    <3>2. g[k - u] = T[k]
      BY <1>3, <3>1
    <3>3. QED
      BY <1>4, <1>7, <2>2, <3>2
  <2>3. QED
    BY <2>1, <2>2
<1>9. f \o g = h
  BY <1>6, <1>7, <1>8, SeqEqual
<1>10. QED
  BY <1>9 DEF f, g, h, Prefix, Piece

\* The n sequences of ss are consecutive pieces of T; cut says where each ends.
Pieces(T, ss, n, cut) ==
  /\ n \in Nat \ {0}
  /\ cut \in [0 .. n -> Nat]
  /\ T = Prefix(T, cut[n])
  /\ ss = [j \in 1 .. n |-> ss[j]]
  /\ cut[0] = 0
  /\ \A j \in 1 .. n : cut[j - 1] <= cut[j] /\ ss[j] = Piece(T, cut[j - 1], cut[j])

\* Consecutive pieces of a sequence, put together, are the sequence.
LEMMA Flatten ==
  ASSUME NEW T, NEW ss, NEW n, NEW cut, Pieces(T, ss, n, cut)
  PROVE  FlattenSeq(ss) = T
<1> USE DEF Pieces
<1> DEFINE Fl(g, m) == g = [j \in 1 .. m |-> IF j = 1 THEN ss[j] ELSE g[j - 1] \o ss[j]]
<1> DEFINE Upto(j) == Prefix(T, cut[j])
<1>1. Len(ss) = n
  OBVIOUS
<1>2. ASSUME NEW j \in 1 .. n
      PROVE  Upto(j - 1) \o ss[j] = Upto(j)
  <2>1. cut[j - 1] \in Nat /\ cut[j] \in Nat /\ cut[j - 1] <= cut[j]
    OBVIOUS
  <2>2. ss[j] = Piece(T, cut[j - 1], cut[j])
    OBVIOUS
  <2>3. Prefix(T, cut[j - 1]) \o Piece(T, cut[j - 1], cut[j]) = Prefix(T, cut[j])
    BY <2>1, Glue, Zenon
  <2>4. QED
    BY <2>2, <2>3
<1>3. Upto(1) = ss[1]
  <2>1. 1 \in 1 .. n /\ cut[0] = 0 /\ 1 - 1 = 0
    OBVIOUS
  <2>2. ss[1] = [k \in 1 .. cut[1] - cut[0] |-> T[cut[0] + k]]
    BY <2>1 DEF Piece
  <2>3. cut[1] \in Nat /\ cut[1] - cut[0] = cut[1] /\ \A k \in 1 .. cut[1] : cut[0] + k = k
    BY <2>1
  <2>4. QED
    BY <2>2, <2>3 DEF Prefix
<1> DEFINE g0 == [j \in 1 .. n |-> Upto(j)]
<1>4. Fl(g0, n)
  <2>1. ASSUME NEW j \in 1 .. n
        PROVE  g0[j] = IF j = 1 THEN ss[j] ELSE g0[j - 1] \o ss[j]
    <3> HIDE DEF Upto
    <3>1. j # 1 => j - 1 \in 1 .. n
      OBVIOUS
    <3>2. QED
      BY <1>2, <1>3, <3>1
  <2>2. QED
    BY <2>1
<1> DEFINE G == CHOOSE g : Fl(g, n)
<1>5. Fl(G, n)
  <2> HIDE DEF Fl, g0
  <2>1. QED
    BY <1>4
<1>6. FlattenSeq(ss) = G[n]
  BY <1>1 DEF FlattenSeq
<1>7. \A j \in 1 .. n : G[j] = IF j = 1 THEN ss[j] ELSE G[j - 1] \o ss[j]
  <2> HIDE DEF G
  <2>1. QED
    BY <1>5
<1> DEFINE S == {j \in 0 .. n : j # 0 => G[j] = Upto(j)}
<1> HIDE DEF G, Upto
<1>8. 0 \in S
  OBVIOUS
<1>9. ASSUME NEW j \in 1 .. n, j - 1 \in S PROVE j \in S
  <2>1. CASE j = 1
    BY <1>3, <1>7, <2>1
  <2>2. CASE j # 1
    <3>1. j - 1 # 0 /\ G[j - 1] = Upto(j - 1)
      BY <1>9, <2>2
    <3>2. G[j] = Upto(j - 1) \o ss[j]
      BY <1>7, <2>2, <3>1
    <3>3. G[j] = Upto(j)
      BY <1>2, <3>2
    <3>4. QED
      BY <3>3
  <2>3. QED
    BY <2>1, <2>2
<1>10. 0 .. n \subseteq S
  <2> HIDE DEF S
  <2>1. QED
    BY <1>8, <1>9, Upwards
<1>11. G[n] = Upto(n)
  BY <1>10
<1>12. QED
  BY <1>6, <1>11 DEF Upto

\* The sequence of a range, and a piece of it.
LEMMA IndicesPiece ==
  ASSUME NEW r \in IRange, NEW q \in IRange, NEW u \in Nat, NEW v \in Nat,
         u + v <= shape(r), shape(q) = v,
         q.imin = r.imin + u * r.istep, q.istep = r.istep
  PROVE  Indices(q) = Piece(Indices(r), u, u + v)
<1>1. r.imin \in Int /\ r.istep \in Nat /\ shape(r) \in Nat
  BY Shape DEF IRange
<1>2. (u + v) - u = v
  OBVIOUS
<1>3. ASSUME NEW k \in 1 .. v PROVE at(q, k - 1) = Indices(r)[u + k]
  <2>1. u + k \in 1 .. shape(r)
    BY <1>1
  <2>2. Indices(r)[u + k] = r.imin + (u + k - 1) * r.istep
    BY <2>1 DEF Indices, at
  <2>3. at(q, k - 1) = (r.imin + u * r.istep) + (k - 1) * r.istep
    BY DEF at
  <2>4. (u + k - 1) * r.istep = u * r.istep + (k - 1) * r.istep
    BY <1>1
  <2>5. u * r.istep \in Int /\ (k - 1) * r.istep \in Int
    BY <1>1
  <2>6. QED
    BY <1>1, <2>2, <2>3, <2>4, <2>5
<1>4. Indices(q) = [k \in 1 .. v |-> at(q, k - 1)]
  BY DEF Indices
<1>5. QED
  BY <1>2, <1>3, <1>4 DEF Piece

\* The size of an inner range, when the parts are m indices wide.
LEMMA PartShape ==
  ASSUME NEW r \in IRange, NEW m \in Nat \ {0}, NEW t \in Nat \ {0}, t = m * r.istep,
         NEW j \in Nat, NEW i \in Int, i = r.imin + j * t, i < r.imax
  PROVE  /\ j * m < shape(r)
         /\ shape(Part(i, r.imax, r.istep, t)) = lesser(m, shape(r) - j * m)
<1> DEFINE q == Part(i, r.imax, r.istep, t)
<1>1. r.imin \in Int /\ r.imax \in Int /\ r.istep \in Nat \ {0} /\ shape(r) \in Nat
  BY Shape DEF IRange
<1>2. /\ q \in IRange /\ q.imin = i /\ q.istep = r.istep
      /\ \A x \in Int : x < q.imax <=> x < i + t /\ x < r.imax
  BY <1>1 DEF Part, IRange, irange, lesser
<1>3. j * m \in Nat
  OBVIOUS
<1>4. \A k \in Nat : at(r, j * m + k) = i + k * r.istep /\ at(q, k) = i + k * r.istep
  <2>1. TAKE k \in Nat
  <2>2. (j * m + k) * r.istep = j * t + k * r.istep
    BY <1>1
  <2>3. j * t \in Int /\ k * r.istep \in Int
    BY <1>1
  <2>4. at(r, j * m + k) = r.imin + (j * m + k) * r.istep
    BY DEF at
  <2>5. at(q, k) = i + k * r.istep
    BY <1>2 DEF at
  <2>6. QED
    BY <1>1, <2>2, <2>3, <2>4, <2>5
<1> HIDE DEF q
<1>5. \A k \in Nat : j * m + k < shape(r) <=> i + k * r.istep < r.imax
  <2>1. TAKE k \in Nat
  <2>2. j * m + k \in Nat
    BY <1>3
  <2>3. QED
    BY <1>4, <2>2, Shape
<1>6. j * m < shape(r)
  <2>1. i + 0 * r.istep = i /\ j * m + 0 = j * m
    BY <1>1, <1>3
  <2>2. QED
    BY <1>5, <2>1
<1> DEFINE n == lesser(m, shape(r) - j * m)
<1>7. n \in Nat /\ \A k \in Nat : k < n <=> k < m /\ j * m + k < shape(r)
  BY <1>1, <1>3, <1>6 DEF lesser
<1> HIDE DEF n
<1>8. ASSUME NEW k \in Nat PROVE k < n <=> at(q, k) < q.imax
  <2>1. i + k * r.istep \in Int
    BY <1>1
  <2>2. at(q, k) < q.imax <=> i + k * r.istep < i + t /\ i + k * r.istep < r.imax
    BY <1>2, <1>4, <2>1
  <2>3. i + k * r.istep < i + t <=> k * r.istep < m * r.istep
    <3>1. k * r.istep \in Int /\ m * r.istep \in Int
      BY <1>1
    <3>2. QED
      BY <3>1
  <2>4. k * r.istep < m * r.istep <=> k < m
    BY <1>1, Cancel
  <2>5. QED
    BY <1>5, <1>7, <2>2, <2>3, <2>4
<1>9. shape(q) = n
  BY <1>2, <1>7, <1>8, ShapeIs
<1>10. QED
  BY <1>6, <1>9 DEF q, n

\* The inner containers, from the first outer index to the last, give the
\* range in its order.
LEMMA PartsInOrder ==
  ASSUME NEW r \in IRange, NEW t \in Nat \ {0}, NEW o, o = irange(r.imin, r.imax, t),
         r.imax - r.imin <= t \/ \E m \in Nat \ {0} : t = m * r.istep,
         NEW f, \A i \in Range(Indices(o)) : f[i] = Indices(Part(i, r.imax, r.istep, t))
  PROVE  FlattenSeq([j \in 1 .. shape(o) |-> f[at(o, j - 1)]]) = Indices(r)
<1> DEFINE n == shape(o)
<1> DEFINE N == shape(r)
<1> DEFINE T == Indices(r)
<1> DEFINE ss == [j \in 1 .. n |-> f[at(o, j - 1)]]
<1>1. r.imin \in Int /\ r.imax \in Int /\ r.istep \in Nat \ {0} /\ N \in Nat
  BY Shape DEF IRange
<1>2. o \in IRange /\ o.imin = r.imin /\ o.imax = r.imax /\ o.istep = t
  BY <1>1 DEF IRange, irange
<1>3. n \in Nat
  BY <1>2, Shape
<1>4. \A k \in Nat : at(o, k) = r.imin + k * t /\ at(o, k) \in Int /\ (k < n <=> at(o, k) < r.imax)
  BY <1>2, Shape DEF at
<1>5. T = Prefix(T, N)
  <2>1. \A j \in 1 .. N : T[j] = at(r, j - 1)
    BY DEF Indices
  <2>2. QED
    BY <2>1 DEF Prefix, Indices
<1>6. ASSUME NEW j \in 1 .. n
      PROVE  /\ at(o, j - 1) \in Int /\ at(o, j - 1) < r.imax
             /\ at(o, j - 1) = r.imin + (j - 1) * t
             /\ ss[j] = Indices(Part(at(o, j - 1), r.imax, r.istep, t))
  <2>1. j - 1 \in Nat /\ j - 1 < n
    BY <1>3
  <2>2. /\ at(o, j - 1) \in Int /\ at(o, j - 1) < r.imax
        /\ at(o, j - 1) = r.imin + (j - 1) * t
    BY <1>4, <2>1
  <2>3. at(o, j - 1) \in Range(Indices(o))
    BY <1>2, <2>1, <2>2, Members
  <2>4. QED
    BY <2>2, <2>3
<1>7. r.imin < r.imax <=> n > 0
  <2>1. 0 < n <=> at(o, 0) < r.imax
    BY <1>4
  <2>2. at(o, 0) = r.imin
    BY <1>1, <1>4
  <2>3. QED
    BY <1>3, <2>1, <2>2
<1>8. r.imin < r.imax <=> N > 0
  <2>1. 0 < N <=> at(r, 0) < r.imax
    BY Shape
  <2>2. at(r, 0) = r.imin
    BY <1>1 DEF at
  <2>3. QED
    BY <1>1, <2>1, <2>2
<1>9. CASE n = 0
  <2>1. N = 0
    BY <1>1, <1>7, <1>8, <1>9
  <2>2. ss = << >> /\ T = << >>
    BY <1>9, <2>1 DEF Indices
  <2>3. FlattenSeq(ss) = ss
    BY <2>2 DEF FlattenSeq
  <2>4. QED
    BY <2>2, <2>3
<1>10. CASE n # 0 /\ r.imax - r.imin <= t
  <2>1. n = 1
    <3>1. ~ (1 < n)
      <4>1. at(o, 1) = r.imin + t
        BY <1>4
      <4>2. QED
        BY <1>1, <1>4, <1>10, <4>1
    <3>2. QED
      BY <1>3, <1>10, <3>1
  <2>2. at(o, 0) = r.imin
    BY <1>1, <1>4
  <2>3. Part(r.imin, r.imax, r.istep, t) = irange(r.imin, r.imax, r.istep)
    BY <1>1, <1>10 DEF Part, lesser
  <2>4. r = irange(r.imin, r.imax, r.istep)
    BY DEF IRange, irange
  <2>5. ss[1] = T
    BY <1>6, <2>1, <2>2, <2>3, <2>4
  <2> DEFINE cut == [j \in 0 .. n |-> IF j = 0 THEN 0 ELSE N]
  <2>6. cut \in [0 .. n -> 0 .. N] /\ cut[0] = 0 /\ cut[n] = N /\ cut[1] = N
    BY <1>1, <2>1
  <2>7. T = Piece(T, 0, N)
    <3>1. Piece(T, 0, N) = Prefix(T, N)
      BY <1>1 DEF Piece, Prefix
    <3>2. QED
      BY <1>5, <3>1
  <2>8. \A j \in 1 .. n : j = 1 /\ j - 1 = 0
    BY <2>1
  <2>9. ss = [j \in 1 .. n |-> ss[j]]
    OBVIOUS
  <2> HIDE DEF ss, T, cut, N, n
  <2>10. \A j \in 1 .. n : cut[j - 1] <= cut[j] /\ ss[j] = Piece(T, cut[j - 1], cut[j])
    BY <1>1, <2>5, <2>6, <2>7, <2>8
  <2>11. n \in Nat \ {0}
    BY <1>3, <1>10
  <2>12. FlattenSeq(ss) = T
    <3>1. Pieces(T, ss, n, cut)
      BY <1>1, <1>5, <2>6, <2>9, <2>10, <2>11 DEF Pieces
    <3>2. QED
      BY <3>1, Flatten
  <2>13. QED
    BY <2>12 DEF ss, T, n
<1>11. CASE n # 0 /\ \E m \in Nat \ {0} : t = m * r.istep
  <2>1. PICK m \in Nat \ {0} : t = m * r.istep
    BY <1>11
  <2> DEFINE cut == [j \in 0 .. n |-> lesser(j * m, N)]
  <2>2. \A j \in 0 .. n : cut[j] = lesser(j * m, N) /\ j * m \in Nat
    BY <1>3
  <2>3. cut \in [0 .. n -> 0 .. N]
    BY <1>1, <2>2 DEF lesser
  <2>4. ASSUME NEW j \in 1 .. n
        PROVE  /\ (j - 1) * m < N
               /\ shape(Part(at(o, j - 1), r.imax, r.istep, t)) = lesser(m, N - (j - 1) * m)
    <3>1. j - 1 \in Nat
      OBVIOUS
    <3>2. PICK l \in Nat : l = j - 1
      BY <3>1
    <3>3. PICK i \in Int : i = at(o, l) /\ i < r.imax /\ i = r.imin + l * t
      BY <1>6, <3>2
    <3>4. l * m < shape(r) /\ shape(Part(i, r.imax, r.istep, t)) = lesser(m, shape(r) - l * m)
      BY <2>1, <3>3, PartShape
    <3>5. QED
      BY <3>2, <3>3, <3>4
  <2>5. cut[0] = 0
    <3>1. 0 * m = 0 /\ 0 \in 0 .. n
      BY <1>3
    <3>2. QED
      BY <1>1, <2>2, <3>1 DEF lesser
  <2>6. cut[n] = N
    <3>1. ~ (n < n)
      BY <1>3
    <3>2. at(o, n) >= r.imax /\ at(o, n) = r.imin + n * t
      BY <1>1, <1>3, <1>4, <3>1
    <3>3. n * m \in Nat /\ at(r, n * m) = r.imin + (n * m) * r.istep
      BY <1>3 DEF at
    <3>4. (n * m) * r.istep = n * t
      BY <1>1, <1>3, <2>1
    <3>5. ~ (at(r, n * m) < r.imax)
      BY <1>1, <1>3, <1>4, <3>2, <3>3, <3>4
    <3>6. ~ (n * m < N)
      BY <3>3, <3>5, Shape
    <3>7. n \in 0 .. n
      BY <1>3
    <3>8. QED
      BY <1>1, <2>2, <3>3, <3>6, <3>7 DEF lesser
  <2> HIDE DEF cut
  <2>7. ASSUME NEW j \in 1 .. n
        PROVE  cut[j - 1] <= cut[j] /\ ss[j] = Piece(T, cut[j - 1], cut[j])
    <3>1. PICK u \in Nat : u = (j - 1) * m
      OBVIOUS
    <3>2. u < N
      BY <2>4, <3>1
    <3>3. j - 1 \in 0 .. n /\ j \in 0 .. n
      BY <1>3
    <3>4. cut[j - 1] = u
      BY <1>1, <2>2, <3>1, <3>2, <3>3 DEF lesser
    <3>5. j * m = u + m
      BY <3>1
    <3>6. PICK v \in Nat : v = lesser(m, N - u)
      BY <1>1, <3>2 DEF lesser
    <3>7. cut[j] = u + v /\ u + v <= N
      BY <1>1, <2>2, <3>2, <3>3, <3>5, <3>6 DEF lesser
    <3>8. PICK q : q = Part(at(o, j - 1), r.imax, r.istep, t)
      OBVIOUS
    <3>9. q \in IRange /\ q.imin = at(o, j - 1) /\ q.istep = r.istep
      <4>1. at(o, j - 1) \in Int
        BY <1>6
      <4>2. QED
        BY <1>1, <3>8, <4>1 DEF Part, IRange, irange, lesser
    <3>10. q.imin = r.imin + u * r.istep
      <4>1. (j - 1) * t = u * r.istep
        BY <1>1, <2>1, <3>1
      <4>2. QED
        BY <1>6, <3>9, <4>1
    <3>11. shape(q) = v
      BY <2>4, <3>1, <3>6, <3>8
    <3>12. Indices(q) = Piece(T, u, u + v)
      BY <3>7, <3>9, <3>10, <3>11, IndicesPiece
    <3>13. ss[j] = Indices(q)
      BY <1>6, <3>8
    <3>14. QED
      BY <3>4, <3>7, <3>12, <3>13
  <2>8. ss = [j \in 1 .. n |-> ss[j]]
    OBVIOUS
  <2>9. n \in Nat \ {0}
    BY <1>3, <1>11
  <2> HIDE DEF ss, T, N, n
  <2>10. FlattenSeq(ss) = T
    <3>1. Pieces(T, ss, n, cut)
      BY <1>1, <1>5, <2>3, <2>5, <2>6, <2>7, <2>8, <2>9 DEF Pieces
    <3>2. QED
      BY <3>1, Flatten
  <2>11. QED
    BY <2>10 DEF ss, T, n
<1>12. QED
  BY <1>9, <1>10, <1>11

\* An outer range whose step is as long as the range has one index.
LEMMA OneOuter ==
  ASSUME NEW lo \in Int, NEW hi \in Int, NEW t \in Nat \ {0}, lo < hi, hi - lo <= t
  PROVE  shape(irange(lo, hi, t)) = 1
<1> DEFINE o == irange(lo, hi, t)
<1>1. o \in IRange /\ o.imin = lo /\ o.imax = hi /\ o.istep = t
  BY DEF IRange, irange
<1>2. \A k \in Nat : at(o, k) = lo + k * t /\ k * t \in Nat
  BY <1>1 DEF at
<1>3. \A k \in Nat : k < 1 <=> lo + k * t < hi
  <2>1. TAKE k \in Nat
  <2>2. k * t < 1 * t <=> k < 1
    BY Cancel
  <2>3. k = 0 => k * t = 0
    OBVIOUS
  <2>4. QED
    BY <1>2, <2>2, <2>3
<1>4. QED
  BY <1>1, <1>2, <1>3, ShapeIs

\* One whose step is m indices has as many as it takes to hold them all.
LEMMA ManyOuter ==
  ASSUME NEW r \in IRange, NEW m \in Nat \ {0}, NEW t \in Nat \ {0}, t = m * r.istep
  PROVE  shape(irange(r.imin, r.imax, t)) = div_ceil(shape(r), m)
<1> DEFINE o == irange(r.imin, r.imax, t)
<1> DEFINE c == div_ceil(shape(r), m)
<1>1. r.imin \in Int /\ r.imax \in Int /\ r.istep \in Nat \ {0} /\ shape(r) \in Nat
  BY Shape DEF IRange
<1>2. o \in IRange /\ o.imin = r.imin /\ o.imax = r.imax /\ o.istep = t
  BY <1>1 DEF IRange, irange
<1>3. c \in Nat
  <2>1. c \in Int /\ (-1 < c <=> (-1) * m < shape(r))
    BY <1>1, DivCeil, BelowDivCeil
  <2>2. QED
    BY <1>1, <2>1
<1>4. ASSUME NEW k \in Nat PROVE k < c <=> at(o, k) < o.imax
  <2>1. k < c <=> k * m < shape(r)
    BY <1>1, BelowDivCeil
  <2>2. k * m \in Nat
    OBVIOUS
  <2>3. k * m < shape(r) <=> at(r, k * m) < r.imax
    BY <2>2, Shape
  <2>4. (k * m) * r.istep = k * t
    BY <1>1
  <2>5. at(r, k * m) = at(o, k)
    BY <1>2, <2>4 DEF at
  <2>6. QED
    BY <1>2, <2>1, <2>3, <2>5
<1>5. QED
  BY <1>2, <1>3, <1>4, ShapeIs

\* When iotaMap is served: see Served.
Serves(tp, ta, r) ==
  /\ tp.min <= 1 /\ ta.min <= 1 /\ shape(r) > 0
  /\ \/ shape(r) <= capped(ta)
     \/ ta.max \in 1 .. nested_max_size /\ shape(r) <= ta.max * capped(tp)

\* Either one inner container holds the range or the inner containers are
\* filled up to their limit.
LEMMA ServesHow ==
  ASSUME NEW tp \in Traits, NEW ta \in Traits, NEW r \in IRange, Serves(tp, ta, r)
  PROVE  \E t \in Nat \ {0} :
           /\ nested_calc_outer_inds(tp, ta, r) = irange(r.imin, r.imax, t)
           /\ r.imin < r.imax
           /\ \/ shape(r) <= capped(ta) /\ r.imax - r.imin <= t
              \/ /\ shape(r) > capped(ta) /\ ta.max = capped(ta) /\ ta.max # unlimited
                 /\ t = ta.max * r.istep /\ shape(r) <= ta.max * capped(tp)
<1> DEFINE t == IF ta.max = unlimited THEN r.imax - r.imin ELSE r.istep * ta.max
<1>1. r.imin \in Int /\ r.imax \in Int /\ r.istep \in Nat \ {0} /\ shape(r) \in Nat
  BY Shape DEF IRange
<1>2. nested_calc_outer_inds(tp, ta, r) = irange(r.imin, r.imax, t)
  BY OuterPositive
<1>3. r.imin < r.imax
  <2>1. 0 < shape(r) /\ at(r, 0) = r.imin
    BY <1>1 DEF Serves, at
  <2>2. QED
    BY <2>1, Shape
<1>4. capped(ta) \in Nat \ {0} /\ capped(tp) \in Nat \ {0}
  BY CappedType, NestedSizeAssumption
<1>5. CASE ta.max = unlimited
  <2>1. t \in Nat \ {0} /\ t = r.imax - r.imin
    BY <1>1, <1>3, <1>5
  <2>2. shape(r) <= capped(ta)
    BY <1>5 DEF Serves, unlimited
  <2>3. QED
    BY <1>1, <1>2, <1>3, <2>1, <2>2
<1>6. CASE ta.max # unlimited
  <2>1. ta.max \in Nat \ {0} /\ capped(ta) <= ta.max
    BY <1>6, CappedType
  <2>2. t = ta.max * r.istep /\ t \in Nat \ {0}
    BY <1>1, <1>6, <2>1
  <2>3. CASE shape(r) <= capped(ta)
    <3>1. ~ (ta.max < shape(r))
      BY <1>1, <1>4, <2>1, <2>3
    <3>2. at(r, ta.max) >= r.imax
      BY <1>1, <2>1, <3>1, Shape
    <3>3. r.imax - r.imin <= t
      <4>1. at(r, ta.max) = r.imin + t
        BY <2>2 DEF at
      <4>2. QED
        BY <1>1, <2>2, <3>2, <4>1
    <3>4. QED
      BY <1>2, <1>3, <2>2, <2>3, <3>3
  <2>4. CASE ~ (shape(r) <= capped(ta))
    <3>1. ta.max \in 1 .. nested_max_size /\ shape(r) <= ta.max * capped(tp)
      BY <2>4 DEF Serves
    <3>2. capped(ta) = ta.max
      BY <1>6, <3>1, NestedSizeAssumption DEF capped, lesser
    <3>3. shape(r) > capped(ta)
      BY <1>1, <1>4, <2>4
    <3>4. QED
      BY <1>2, <1>3, <1>6, <2>2, <3>1, <3>2, <3>3
  <2>5. QED
    BY <2>3, <2>4
<1>7. QED
  BY <1>5, <1>6

\* Then no assert about the outer range fails.
LEMMA OuterServed ==
  ASSUME NEW tp \in Traits, NEW ta \in Traits, NEW r \in IRange, Serves(tp, ta, r)
  PROVE  outer_inds_ok(tp, ta, r)
<1> DEFINE N == shape(r)
<1> DEFINE osize == nested_calc_outer_size(tp, ta, r)
<1>1. r.imin \in Int /\ r.imax \in Int /\ r.istep \in Nat \ {0} /\ N \in Nat \ {0}
  BY Shape DEF IRange, Serves
<1>2. capped(ta) \in Nat \ {0} /\ capped(tp) \in Nat \ {0}
  BY CappedType, NestedSizeAssumption
<1>3. /\ tp.min \in Nat /\ ta.min \in Nat /\ tp.min <= 1 /\ ta.min <= 1
      /\ (tp.max # unlimited => tp.max \in Nat /\ capped(tp) <= tp.max)
  <2>1. tp.min \in Nat /\ ta.min \in Nat /\ tp.min <= 1 /\ ta.min <= 1
    BY DEF Traits, Serves
  <2>2. tp.max # unlimited => tp.max \in Nat /\ capped(tp) <= tp.max
    BY CappedType
  <2>3. QED
    BY <2>1, <2>2
<1>4. PICK t \in Nat \ {0} :
           /\ nested_calc_outer_inds(tp, ta, r) = irange(r.imin, r.imax, t)
           /\ r.imin < r.imax
           /\ \/ shape(r) <= capped(ta) /\ r.imax - r.imin <= t
              \/ /\ shape(r) > capped(ta) /\ ta.max = capped(ta) /\ ta.max # unlimited
                 /\ t = ta.max * r.istep /\ shape(r) <= ta.max * capped(tp)
  BY ServesHow
<1> DEFINE o == irange(r.imin, r.imax, t)
<1>5. valid(o)
  BY DEF valid, irange
<1>6. CASE N <= capped(ta) /\ r.imax - r.imin <= t
  <2>1. inner_outer_size(tp, ta, r) = [isize |-> N, osize |-> 1]
    BY <1>1, <1>6 DEF inner_outer_size
  <2>2. osize = 1
    BY <2>1 DEF nested_calc_outer_size
  <2>3. shape(o) = 1
    BY <1>1, <1>4, <1>6, OneOuter
  <2>4. N * 1 >= N /\ N * (1 - 1) < N
    BY <1>1
  <2>5. outer_size_ok(tp, ta, r)
    BY <1>1, <1>2, <1>3, <1>6, <2>1, <2>4 DEF outer_size_ok
  <2>6. QED
    BY <1>2, <1>3, <1>4, <1>5, <2>2, <2>3, <2>5 DEF outer_inds_ok
<1>7. CASE N > capped(ta) /\ ta.max = capped(ta) /\ t = ta.max * r.istep /\ N <= ta.max * capped(tp)
  <2>1. PICK m \in Nat \ {0} : m = capped(ta)
    BY <1>2
  <2>2. PICK c : c = div_ceil(N, m)
    OBVIOUS
  <2>3. c \in Int /\ (c - 1) * m < N /\ N <= c * m
    BY <1>1, <2>1, <2>2, DivCeil
  <2>4. inner_outer_size(tp, ta, r) = [isize |-> m, osize |-> c]
    BY <1>1, <1>2, <1>7, <2>1, <2>2 DEF inner_outer_size
  <2>5. osize = c
    BY <2>4 DEF nested_calc_outer_size
  <2>6. c \in Nat \ {0}
    BY <2>5, OuterPositive
  <2>7. c <= capped(tp)
    <3>1. ~ (capped(tp) * m < N)
      <4>1. capped(tp) * m = m * capped(tp) /\ m * capped(tp) \in Nat
        BY <1>2
      <4>2. QED
        BY <1>1, <1>7, <2>1, <4>1
    <3>2. ~ (capped(tp) < c)
      BY <1>1, <1>2, <2>1, <2>2, <3>1, BelowDivCeil
    <3>3. QED
      BY <1>2, <2>6, <3>2
  <2>8. shape(o) = c
    BY <1>7, <2>1, <2>2, ManyOuter
  <2>9. m * c >= N /\ m * (c - 1) < N
    BY <2>1, <2>3, <2>6
  <2>10. m \in ta.min .. capped(ta) /\ c \in tp.min .. capped(tp)
    BY <1>2, <1>3, <2>1, <2>6, <2>7
  <2>11. outer_size_ok(tp, ta, r)
    BY <2>1, <2>4, <2>6, <2>9, <2>10 DEF outer_size_ok
  <2>12. QED
    BY <1>2, <1>3, <1>4, <1>5, <2>5, <2>6, <2>7, <2>8, <2>11 DEF outer_inds_ok
<1>8. QED
  BY <1>4, <1>6, <1>7

\* Nor one about an inner range.
LEMMA InnerServed ==
  ASSUME NEW tp \in Traits, NEW ta \in Traits, NEW r \in IRange, Serves(tp, ta, r),
         NEW o, o = nested_calc_outer_inds(tp, ta, r), NEW i \in Range(Indices(o))
  PROVE  inner_inds_ok(tp, ta, nested_calc_inner_inds(r, o, i))
<1> DEFINE N == shape(r)
<1>1. r.imin \in Int /\ r.imax \in Int /\ r.istep \in Nat \ {0} /\ N \in Nat \ {0}
  BY Shape DEF IRange, Serves
<1>2. capped(ta) \in Nat \ {0} /\ capped(tp) \in Nat \ {0}
  BY CappedType, NestedSizeAssumption
<1>3. ta.min \in Nat /\ ta.min <= 1 /\ (ta.max # unlimited => ta.max \in Nat \ {0} /\ capped(ta) <= ta.max)
  BY CappedType DEF Traits, Serves
<1>4. PICK t \in Nat \ {0} :
           /\ o = irange(r.imin, r.imax, t)
           /\ r.imin < r.imax
           /\ \/ shape(r) <= capped(ta) /\ r.imax - r.imin <= t
              \/ /\ shape(r) > capped(ta) /\ ta.max = capped(ta) /\ ta.max # unlimited
                 /\ t = ta.max * r.istep /\ shape(r) <= ta.max * capped(tp)
  BY ServesHow
<1>5. /\ i \in Range(Indices(irange(r.imin, r.imax, t)))
      /\ i \in Range(Indices(irange(r.imin, r.imax, t))) <=>
           \E k \in Nat : i = r.imin + k * t /\ i < r.imax
  BY <1>1, <1>4, Multiples
<1>6. PICK j \in Nat : i = r.imin + j * t /\ i < r.imax
  BY <1>5
<1>7. i \in Int
  BY <1>1, <1>6
<1>8. nested_calc_inner_inds(r, o, i) = Part(i, r.imax, r.istep, t)
  BY <1>4, InnerInds
<1> DEFINE q == Part(i, r.imax, r.istep, t)
<1>9. ~ empty(q)
  BY <1>1, <1>6, <1>7 DEF Part, irange, lesser, empty
<1>10. CASE N <= capped(ta) /\ r.imax - r.imin <= t
  <2>1. j = 0
    <3>1. j * t \in Int /\ j * t < 1 * t
      BY <1>1, <1>6, <1>10
    <3>2. j < 1
      BY <3>1, Cancel
    <3>3. QED
      BY <3>2
  <2>2. i = r.imin
    BY <1>1, <1>6, <2>1
  <2>3. q = irange(r.imin, r.imax, r.istep)
    BY <1>1, <1>10, <2>2 DEF Part, lesser
  <2>4. shape(q) = N
    BY <2>3 DEF shape, irange
  <2>5. QED
    BY <1>1, <1>2, <1>3, <1>8, <1>9, <1>10, <2>4 DEF inner_inds_ok
<1>11. CASE ta.max = capped(ta) /\ t = ta.max * r.istep
  <2>1. PICK m \in Nat \ {0} : m = ta.max
    BY <1>2, <1>11
  <2>2. j * m < N /\ shape(q) = lesser(m, N - j * m)
    BY <1>6, <1>7, <1>11, <2>1, PartShape
  <2>3. j * m \in Nat
    OBVIOUS
  <2>4. shape(q) \in 1 .. m
    BY <1>1, <2>2, <2>3 DEF lesser
  <2>5. QED
    BY <1>3, <1>8, <1>9, <2>1, <2>4 DEF inner_inds_ok
<1>12. QED
  BY <1>4, <1>10, <1>11

-----------------------------------------------------------------------------
(* Several dimensions: iotaMapMulti *)

Box ==
  {b \in [imin : Seq(Int), imax : Seq(Int), istep : Seq(Nat \ {0})] :
     Len(b.imin) > 0 /\ Len(b.imin) = Len(b.imax) /\ Len(b.imin) = Len(b.istep)}

\* The bounds of a box are sequences of the same length.
LEMMA BoxType ==
  ASSUME NEW b \in Box
  PROVE  /\ Len(b.imin) \in Nat \ {0}
         /\ DOMAIN b.imin = 1 .. Len(b.imin)
         /\ \A d \in 1 .. Len(b.imin) :
              /\ b.imin[d] \in Int /\ b.imax[d] \in Int /\ b.istep[d] \in Nat \ {0}
              /\ strip(b, d) \in IRange
              /\ strip(b, d) = irange(b.imin[d], b.imax[d], b.istep[d])
         /\ multi_shape(b) \in Seq(Nat) /\ Len(multi_shape(b)) = Len(b.imin)
         /\ \A d \in 1 .. Len(b.imin) : multi_shape(b)[d] = shape(strip(b, d))
<1> DEFINE D == Len(b.imin)
<1>1. b.imin \in Seq(Int) /\ b.imax \in Seq(Int) /\ b.istep \in Seq(Nat \ {0})
  BY DEF Box
<1>2. D \in Nat \ {0} /\ D = Len(b.imax) /\ D = Len(b.istep)
  BY <1>1 DEF Box
<1>3. DOMAIN b.imin = 1 .. D
  BY <1>1
<1>4. ASSUME NEW d \in 1 .. D
      PROVE  /\ b.imin[d] \in Int /\ b.imax[d] \in Int /\ b.istep[d] \in Nat \ {0}
             /\ strip(b, d) \in IRange
             /\ strip(b, d) = irange(b.imin[d], b.imax[d], b.istep[d])
  <2>1. b.imin[d] \in Int /\ b.imax[d] \in Int /\ b.istep[d] \in Nat \ {0}
    <3>1. d \in 1 .. Len(b.imin) /\ d \in 1 .. Len(b.imax) /\ d \in 1 .. Len(b.istep)
      BY <1>2
    <3>2. b.imin[d] \in Int
      BY <1>1, <3>1, ElementOfSeq
    <3>3. b.imax[d] \in Int
      BY <1>1, <3>1, ElementOfSeq
    <3>4. b.istep[d] \in Nat \ {0}
      BY <1>1, <3>1, ElementOfSeq
    <3>5. QED
      BY <3>2, <3>3, <3>4
  <2>2. QED
    BY <2>1 DEF strip, irange, IRange
<1>5. \A d \in 1 .. D : shape(strip(b, d)) \in Nat
  BY <1>4, Shape
<1>6. multi_shape(b) = [d \in 1 .. D |-> shape(strip(b, d))]
  BY <1>3 DEF multi_shape
<1>7. multi_shape(b) \in [1 .. D -> Nat]
  BY <1>5, <1>6
<1>8. multi_shape(b) \in Seq(Nat) /\ Len(multi_shape(b)) = D
  BY <1>2, <1>7, FunctionIsSeq
<1>9. QED
  BY <1>2, <1>3, <1>4, <1>6, <1>8

\* The indices of a box have an index of its range in every direction.
LEMMA MultiMembers ==
  ASSUME NEW b, NEW D, DOMAIN b.imin = 1 .. D, NEW x
  PROVE  x \in MultiIndices(b) <=>
           /\ x = [d \in 1 .. D |-> x[d]]
           /\ \A d \in 1 .. D : x[d] \in Range(Indices(strip(b, d)))
<1> DEFINE Side(d) == Range(Indices(strip(b, d)))
<1> DEFINE U == UNION {Side(d) : d \in 1 .. D}
<1>1. MultiIndices(b) = {i \in [1 .. D -> U] : \A d \in 1 .. D : i[d] \in Side(d)}
  BY DEF MultiIndices
<1>2. ASSUME x \in MultiIndices(b)
      PROVE  /\ x = [d \in 1 .. D |-> x[d]]
             /\ \A d \in 1 .. D : x[d] \in Side(d)
  BY <1>1, <1>2
<1>3. ASSUME x = [d \in 1 .. D |-> x[d]], \A d \in 1 .. D : x[d] \in Side(d)
      PROVE  x \in MultiIndices(b)
  <2>1. \A d \in 1 .. D : x[d] \in U
    BY <1>3
  <2> HIDE DEF Side, U
  <2>2. x \in [1 .. D -> U]
    BY <1>3, <2>1
  <2>3. QED
    BY <1>1, <1>3, <2>2
<1>4. QED
  BY <1>2, <1>3

\* The largest edge of an inner box is positive, and a box of that edge fits
\* into the inner container.
LEMMA Power ==
  ASSUME NEW x \in Nat \ {0}, NEW n \in Nat \ {0}
  PROVE  /\ [i \in 1 .. n |-> x] \in Seq(Nat) /\ Len([i \in 1 .. n |-> x]) = n
         /\ ipow(x, n) \in Nat /\ ipow(x, n) >= x
         /\ (x = 1 => ipow(x, n) = 1)
<1> DEFINE xs == [i \in 1 .. n |-> x]
<1>1. xs \in Seq(Nat) /\ Len(xs) = n
  <2>1. xs \in [1 .. n -> Nat]
    OBVIOUS
  <2> HIDE DEF xs
  <2>2. QED
    BY <2>1, FunctionIsSeq
<1>2. \A i \in 1 .. n : xs[i] = x
  OBVIOUS
<1>3. ipow(x, n) = prod(xs)
  BY DEF ipow
<1> HIDE DEF xs
<1>4. PICK f : Products(f, xs) /\ prod(xs) = f[n]
  BY <1>1, ProdIs
<1>5. \A i \in 0 .. n : f[i] \in Nat
  BY <1>1, <1>4 DEF Products
<1> DEFINE S == {i \in 0 .. n : f[i] >= 1 /\ (i > 0 => f[i] >= x) /\ (x = 1 => f[i] = 1)}
<1>6. 0 \in S
  BY <1>1, <1>4 DEF Products
<1>7. ASSUME NEW i \in 1 .. n, i - 1 \in S PROVE i \in S
  <2>1. f[i] = f[i - 1] * x
    BY <1>1, <1>2, <1>4 DEF Products
  <2>2. f[i - 1] \in Nat /\ f[i - 1] >= 1 /\ (x = 1 => f[i - 1] = 1)
    BY <1>5, <1>7
  <2>3. 1 * x <= f[i - 1] * x
    BY <2>2, MulMono
  <2>4. QED
    BY <2>1, <2>2, <2>3
<1>8. 0 .. n \subseteq S
  <2> HIDE DEF S
  <2>1. QED
    BY <1>6, <1>7, Upwards
<1>9. n \in S
  BY <1>8
<1>10. QED
  BY <1>1, <1>3, <1>4, <1>5, <1>9 DEF xs

\* The edge that is calculated has a power within the limit.
LEMMA InnerEdge ==
  ASSUME NEW M \in Nat \ {0}, NEW D \in Nat \ {0}
  PROVE  inner_edge(M, D) \in 1 .. M /\ ipow(inner_edge(M, D), D) <= M
<1>1. \E n \in 1 .. M : ipow(n, D) <= M /\ ipow(n + 1, D) > M
  <2>1. SUFFICES ASSUME \A n \in 1 .. M : ipow(n, D) <= M => ~ (ipow(n + 1, D) > M)
                 PROVE  FALSE
    OBVIOUS
  <2>2. \A n \in 1 .. M + 1 : ipow(n, D) \in Nat /\ ipow(n, D) >= n /\ (n = 1 => ipow(n, D) = 1)
    <3>1. \A n \in 1 .. M + 1 : n \in Nat \ {0}
      OBVIOUS
    <3>2. QED
      BY <3>1, Power
  <2> DEFINE S == {n \in 0 .. M : ipow(n + 1, D) <= M}
  <2>3. 0 \in S
    <3>1. 0 + 1 = 1 /\ 1 \in 1 .. M + 1
      OBVIOUS
    <3>2. QED
      BY <2>2, <3>1
  <2>4. ASSUME NEW n \in 1 .. M, n - 1 \in S PROVE n \in S
    <3>1. (n - 1) + 1 = n /\ n \in 1 .. M + 1 /\ n + 1 \in 1 .. M + 1
      OBVIOUS
    <3>2. ipow(n, D) <= M
      BY <2>4, <3>1
    <3>3. ~ (ipow(n + 1, D) > M)
      BY <2>1, <3>2
    <3>4. QED
      BY <2>2, <3>1, <3>3
  <2>5. 0 .. M \subseteq S
    <3> HIDE DEF S
    <3>1. QED
      BY <2>3, <2>4, Upwards
  <2>6. ipow(M + 1, D) <= M
    BY <2>5
  <2>7. QED
    BY <2>2, <2>6
<1>2. QED
  BY <1>1 DEF inner_edge

\* The shapes of the inner boxes and of the outer box, in every direction.
LEMMA Shapes ==
  ASSUME NEW tp \in Traits, NEW ta \in Traits, NEW b \in Box, multi_size(b) > 0
  PROVE  LET D == Len(b.imin)
             shapes == nested_calc_shapes(tp, ta, b)
         IN  /\ shapes.ishape \in Seq(Nat) /\ Len(shapes.ishape) = D
             /\ shapes.oshape \in Seq(Nat) /\ Len(shapes.oshape) = D
             /\ \A d \in 1 .. D :
                  /\ shapes.ishape[d] \in 1 .. multi_shape(b)[d]
                  /\ shapes.oshape[d] = div_ceil(multi_shape(b)[d], shapes.ishape[d])
                  /\ shapes.oshape[d] \in Nat \ {0}
             /\ ta.max # unlimited => prod(shapes.ishape) <= ta.max
<1> DEFINE D == Len(b.imin)
<1> DEFINE s == multi_shape(b)
<1> DEFINE shapes == nested_calc_shapes(tp, ta, b)
<1>1. /\ D \in Nat \ {0} /\ s \in Seq(Nat) /\ Len(s) = D
  BY BoxType
<1>2. \A d \in 1 .. D : s[d] \in Nat
  BY <1>1, ElementOfSeq
<1>3. multi_size(b) = prod(s) /\ prod(s) \in Nat
  BY <1>1, ProdNat DEF multi_size
<1>4. \A d \in 1 .. D : s[d] > 0
  BY <1>1, <1>3, ProdNat
<1>5. multi_size(b) # 0
  BY <1>3
<1>6. CASE ta.max = unlimited \/ multi_size(b) <= ta.max
  <2> DEFINE ones == [d \in 1 .. D |-> 1]
  <2>1. shapes = [ishape |-> s, oshape |-> ones]
    BY <1>5, <1>6 DEF nested_calc_shapes
  <2>2. ones \in Seq(Nat) /\ Len(ones) = D
    BY <1>1, Power
  <2>3. \A d \in 1 .. D : ones[d] = 1
    OBVIOUS
  <2> HIDE DEF ones
  <2>4. ASSUME NEW d \in 1 .. D PROVE div_ceil(s[d], s[d]) = 1
    <3>1. PICK n \in Nat \ {0} : n = s[d]
      BY <1>2, <1>4
    <3>2. PICK c \in Int : c = div_ceil(n, n)
      <4>1. n \in Int /\ n \in Nat \ {0}
        OBVIOUS
      <4>2. div_ceil(n, n) \in Int
        BY <4>1, DivCeil
      <4>3. QED
        BY <4>2
    <3>3. (0 < c <=> 0 * n < n) /\ (1 < c <=> 1 * n < n)
      BY <3>1, <3>2, BelowDivCeil
    <3>4. QED
      BY <3>1, <3>2, <3>3
  <2>5. \A d \in 1 .. D : s[d] \in 1 .. s[d]
    BY <1>2, <1>4
  <2>6. ta.max # unlimited => prod(s) <= ta.max
    BY <1>3, <1>6
  <2> HIDE DEF s, D
  <2>7. QED
    BY <1>1, <2>1, <2>2, <2>3, <2>4, <2>5, <2>6 DEF D, s
<1>7. CASE ~ (ta.max = unlimited \/ multi_size(b) <= ta.max)
  <2>1. ta.max \in Nat \ {0}
    BY <1>7, CappedType
  <2>2. PICK e \in Nat \ {0} : e = inner_edge(ta.max, D) /\ ipow(e, D) <= ta.max
    <3>1. inner_edge(ta.max, D) \in 1 .. ta.max /\ ipow(inner_edge(ta.max, D), D) <= ta.max
      BY <1>1, <2>1, InnerEdge
    <3>2. 1 .. ta.max \subseteq Nat \ {0}
      BY <2>1
    <3>3. QED
      BY <3>1, <3>2
  <2> DEFINE ishape == [d \in 1 .. D |-> lesser(s[d], e)]
  <2> DEFINE oshape == [d \in 1 .. D |-> div_ceil(s[d], ishape[d])]
  <2>3. shapes = [ishape |-> ishape, oshape |-> oshape]
    BY <1>5, <1>7, <2>2 DEF nested_calc_shapes
  <2>4. \A d \in 1 .. D : ishape[d] = lesser(s[d], e) /\ oshape[d] = div_ceil(s[d], ishape[d])
    OBVIOUS
  <2>5. \A d \in 1 .. D : ishape[d] \in 1 .. s[d] /\ ishape[d] <= e
    BY <1>2, <1>4, <2>4 DEF lesser
  <2>a. \A d \in 1 .. D : s[d] \in Nat \ {0} /\ ishape[d] \in Nat \ {0}
    BY <1>2, <1>4, <2>2, <2>4 DEF lesser
  <2>6. ASSUME NEW d \in 1 .. D PROVE oshape[d] \in Nat \ {0}
    <3>1. PICK n \in Nat \ {0}, m \in Nat \ {0} : n = s[d] /\ m = ishape[d]
      <4> HIDE DEF s, ishape
      <4>1. QED
        BY <2>a
    <3>2. PICK c \in Int : c = div_ceil(n, m)
      <4>1. n \in Int
        OBVIOUS
      <4>2. div_ceil(n, m) \in Int
        BY <4>1, DivCeil
      <4>3. QED
        BY <4>2
    <3>3. 0 < c <=> 0 * m < n
      BY <3>1, <3>2, BelowDivCeil
    <3>4. QED
      BY <2>4, <3>1, <3>2, <3>3
  <2>7. ishape \in [1 .. D -> Nat]
    <3>1. \A d \in 1 .. D : lesser(s[d], e) \in Nat
      BY <2>a, <2>4
    <3>2. QED
      BY <3>1
  <2>8. oshape \in [1 .. D -> Nat]
    BY <2>6
  <2> DEFINE edges == [d \in 1 .. D |-> e]
  <2>9. edges \in Seq(Nat) /\ Len(edges) = D /\ ipow(e, D) = prod(edges)
    BY <1>1, Power DEF ipow
  <2>10. \A d \in 1 .. D : edges[d] = e
    OBVIOUS
  <2> HIDE DEF ishape, oshape, edges
  <2>11. ishape \in Seq(Nat) /\ Len(ishape) = D /\ oshape \in Seq(Nat) /\ Len(oshape) = D
    BY <1>1, <2>7, <2>8, FunctionIsSeq
  <2>12. prod(ishape) <= prod(edges)
    BY <1>1, <2>5, <2>9, <2>10, <2>11, ProdMono
  <2>13. prod(ishape) \in Nat /\ prod(edges) \in Nat
    BY <2>9, <2>11, ProdNat
  <2>14. prod(ishape) <= ta.max
    BY <2>1, <2>2, <2>9, <2>12, <2>13
  <2> HIDE DEF s, D
  <2>15. QED
    BY <1>1, <2>3, <2>4, <2>5, <2>6, <2>11, <2>14 DEF D, s
<1>8. QED
  BY <1>6, <1>7

\* One direction of a box: the outer range has as many indices as inner
\* boxes are needed, and none of these is larger than planned.
LEMMA DirCount ==
  ASSUME NEW r \in IRange, NEW e \in 1 .. shape(r), NEW c \in Nat \ {0},
         c = div_ceil(shape(r), e)
  PROVE  LET t == div_ceil(r.imax - r.imin, c)
         IN  /\ t \in Nat \ {0}
             /\ shape(r) <= e * c
             /\ shape(irange(r.imin, r.imax, t)) = c
             /\ \A i \in Range(Indices(irange(r.imin, r.imax, t))) :
                  shape(Part(i, r.imax, r.istep, t)) \in 1 .. e
<1>1. r.imin \in Int /\ r.imax \in Int /\ r.istep \in Nat \ {0} /\ shape(r) \in Nat
  BY Shape DEF IRange
<1>2. PICK lo \in Int, hi \in Int, s \in Nat \ {0}, n \in Nat :
         lo = r.imin /\ hi = r.imax /\ s = r.istep /\ n = shape(r)
  BY <1>1
<1>3. e \in Nat \ {0} /\ e <= n
  BY <1>2
<1>4. (c - 1) * e < n /\ n <= c * e
  BY <1>2, <1>3, DivCeil
<1>5. \A k \in Nat : k < n <=> lo + k * s < hi
  BY <1>2, Shape DEF at
<1>6. PICK t \in Int : t = div_ceil(hi - lo, c)
  <2>1. hi - lo \in Int
    OBVIOUS
  <2>2. QED
    BY <2>1, DivCeil
<1>7. (t - 1) * c < hi - lo /\ hi - lo <= t * c
  <2>1. hi - lo \in Int
    OBVIOUS
  <2>2. QED
    BY <1>6, <2>1, DivCeil
<1>8. lo < hi
  <2>1. 0 < n /\ lo + 0 * s = lo
    BY <1>3
  <2>2. QED
    BY <1>5, <2>1
<1>9. t \in Nat \ {0}
  <2>1. 0 * c < t * c
    <3>1. t * c \in Int /\ 0 * c = 0
      OBVIOUS
    <3>2. QED
      BY <1>7, <1>8, <3>1
  <2>2. 0 < t
    BY <2>1, Cancel
  <2>3. QED
    BY <2>2
<1>10. PICK es \in Nat \ {0} : es = e * s
  <2>1. e * s \in Nat \ {0}
    BY <1>3
  <2>2. QED
    BY <2>1
<1>11. t <= es
  <2>1. ~ (n < n)
    OBVIOUS
  <2>2. hi - lo <= n * s
    <3>1. n * s \in Int
      OBVIOUS
    <3>2. QED
      BY <1>5, <2>1, <3>1
  <2>3. n * s <= (c * e) * s
    <3>1. c * e \in Nat
      BY <1>3
    <3>2. QED
      BY <1>4, <3>1, MulMono
  <2>4. (c * e) * s = es * c
    BY <1>3, <1>10
  <2>5. (t - 1) * c < es * c
    <3>1. (t - 1) * c \in Int /\ n * s \in Int /\ es * c \in Int
      OBVIOUS
    <3>2. QED
      BY <1>7, <2>2, <2>3, <2>4, <3>1
  <2>6. t - 1 < es
    BY <2>5, Cancel
  <2>7. QED
    BY <2>6
<1> DEFINE o == irange(lo, hi, t)
<1>12. o \in IRange /\ o.imax = hi /\ \A k : at(o, k) = lo + k * t
  BY <1>9 DEF IRange, irange, at
<1>13. shape(o) = c
  <2>1. ASSUME NEW k \in Nat PROVE k < c <=> at(o, k) < hi
    <3>1. k * t \in Nat /\ at(o, k) = lo + k * t
      BY <1>9, <1>12
    <3>2. CASE k < c
      <4>1. PICK l \in Nat : l = c - 1
        OBVIOUS
      <4>2. k * t <= l * es
        BY <1>9, <1>11, <3>2, <4>1, MulMono
      <4>3. l * es = (l * e) * s
        BY <1>3, <1>10
      <4>4. l * e \in Nat /\ l * e < n
        BY <1>3, <1>4, <4>1
      <4>5. lo + (l * e) * s < hi
        BY <1>5, <4>4
      <4>6. (l * e) * s \in Int
        BY <4>4
      <4>7. QED
        BY <3>1, <3>2, <4>2, <4>3, <4>5, <4>6
    <3>3. CASE ~ (k < c)
      <4>1. t * c <= t * k
        BY <1>9, <3>3, MulMono
      <4>2. t * k = k * t /\ t * c \in Int
        BY <1>9
      <4>3. QED
        BY <1>7, <3>1, <3>3, <4>1, <4>2
    <3>4. QED
      BY <3>2, <3>3
  <2>2. QED
    BY <1>12, <2>1, ShapeIs
<1>14. ASSUME NEW i \in Range(Indices(o)) PROVE shape(Part(i, hi, s, t)) \in 1 .. e
  <2>1. i \in Int /\ i < hi
    BY <1>12, Between
  <2> DEFINE q == Part(i, hi, s, t)
  <2>2. q \in IRange /\ q.imin = i /\ q.istep = s /\ \A x \in Int : x < q.imax <=> x < i + t /\ x < hi
    <3>1. hi \in Int /\ s \in Nat \ {0} /\ t \in Nat \ {0}
      BY <1>9
    <3>2. q \in IRange /\ q.imin = i /\ q.istep = s
      BY <2>1, <3>1, PartType
    <3>3. \A x \in Int : x < q.imax <=> x < i + t /\ x < hi
      BY <2>1, <3>1, PartType
    <3>4. QED
      BY <3>2, <3>3
  <2>3. shape(q) \in Nat
    BY <2>2, Shape
  <2>4. 0 < shape(q)
    <3>1. at(q, 0) = i
      BY <2>1, <2>2 DEF at
    <3>2. i < q.imax
      BY <1>9, <2>1, <2>2
    <3>3. QED
      BY <2>2, <3>1, <3>2, Shape
  <2>5. ~ (e < shape(q))
    <3>1. at(q, e) = i + es
      BY <1>10, <2>2 DEF at
    <3>2. i + es \in Int /\ ~ (i + es < i + t)
      BY <1>9, <1>11, <2>1
    <3>3. ~ (at(q, e) < q.imax)
      BY <2>2, <3>1, <3>2
    <3>4. QED
      BY <1>3, <2>2, <3>3, Shape
  <2>6. QED
    BY <1>3, <2>3, <2>4, <2>5
<1>15. shape(r) <= e * c
  <2>1. e * c = c * e
    BY <1>3
  <2>2. QED
    BY <1>2, <1>4, <2>1
<1>16. QED
  BY <1>2, <1>6, <1>9, <1>13, <1>14, <1>15

\* An outer box that passes the asserts ends where its box does, and has a
\* positive step in every direction.
Divides(b, o) ==
  /\ o.imin = b.imin /\ o.imax = b.imax
  /\ \A d \in 1 .. Len(b.imin) : o.istep[d] \in Nat \ {0}

\* When the asserts hold, the outer box has the bounds of the box.
LEMMA OuterRange ==
  ASSUME NEW tp \in Traits, NEW ta \in Traits, NEW b \in Box, outer_range_ok(tp, ta, b)
  PROVE  Divides(b, nested_calc_outer_range(tp, ta, b))
<1> DEFINE D == Len(b.imin)
<1> DEFINE oshape == nested_calc_outer_shape(tp, ta, b)
<1> DEFINE o == nested_calc_outer_range(tp, ta, b)
<1>1. D \in Nat \ {0} /\ DOMAIN b.imin = 1 .. D /\ \A d \in 1 .. D : b.imin[d] \in Int /\ b.imax[d] \in Int
  BY BoxType
<1>2. multi_size(b) \in Nat
  BY BoxType, ProdNat DEF multi_size
<1>3. oshape \in Seq(Nat) /\ Len(oshape) = D /\ \A d \in 1 .. D : oshape[d] \in Nat \ {0}
  <2>1. CASE multi_size(b) = 0
    <3> DEFINE zeros == [d \in 1 .. D |-> 0]
    <3> DEFINE ones == [d \in 1 .. D |-> 1]
    <3>1. oshape = zeros \/ oshape = ones
      BY <2>1 DEF nested_calc_outer_shape, nested_calc_shapes
    <3>2. \A d \in DOMAIN oshape : oshape[d] # 0
      BY DEF outer_range_ok
    <3>3. oshape # zeros
      <4>1. 1 \in DOMAIN zeros /\ zeros[1] = 0
        BY <1>1
      <4> HIDE DEF zeros, oshape
      <4>2. QED
        BY <3>2, <4>1
    <3>4. ones \in Seq(Nat) /\ Len(ones) = D
      BY <1>1, Power
    <3>5. \A d \in 1 .. D : ones[d] \in Nat \ {0}
      OBVIOUS
    <3> HIDE DEF zeros, ones, oshape
    <3>6. QED
      BY <3>1, <3>3, <3>4, <3>5
  <2>2. CASE multi_size(b) # 0
    <3>1. multi_size(b) > 0
      BY <1>2, <2>2
    <3>2. QED
      BY <3>1, Shapes DEF nested_calc_outer_shape
  <2>3. QED
    BY <2>1, <2>2
<1>4. prod(oshape) # 0
  BY <1>3, ProdNat
<1>5. o = [imin |-> b.imin, imax |-> b.imax,
           istep |-> [d \in DOMAIN oshape |-> div_ceil(b.imax[d] - b.imin[d], oshape[d])]]
  BY <1>4 DEF nested_calc_outer_range
<1>6. o.imin = b.imin /\ o.imax = b.imax
  BY <1>5
<1>7. DOMAIN oshape = 1 .. D
  BY <1>3
<1>8. ASSUME NEW d \in 1 .. D PROVE o.istep[d] \in Nat \ {0}
  <2>1. o.istep[d] = div_ceil(b.imax[d] - b.imin[d], oshape[d])
    BY <1>5, <1>7
  <2>2. b.imax[d] - b.imin[d] \in Int /\ oshape[d] \in Nat \ {0}
    BY <1>1, <1>3
  <2>3. o.istep[d] \in Int
    BY <2>1, <2>2, DivCeil
  <2>4. o.istep[d] > 0
    BY <1>1, <1>6 DEF outer_range_ok, multi_valid
  <2>5. QED
    BY <2>3, <2>4
<1>9. QED
  BY <1>6, <1>8 DEF Divides

\* The ranges of the outer box and of an inner box, in every direction.
LEMMA Strips ==
  ASSUME NEW b \in Box, NEW o, Divides(b, o), NEW i \in MultiIndices(o)
  PROVE  LET D == Len(b.imin)
             q == nested_calc_inner_range(b, o, i)
         IN  /\ DOMAIN o.imin = 1 .. D /\ DOMAIN q.imin = 1 .. D
             /\ i = [d \in 1 .. D |-> i[d]]
             /\ \A d \in 1 .. D :
                  /\ strip(o, d) = irange(b.imin[d], b.imax[d], o.istep[d])
                  /\ i[d] \in Range(Indices(irange(b.imin[d], b.imax[d], o.istep[d])))
                  /\ i[d] \in Int /\ i[d] < b.imax[d]
                  /\ strip(q, d) = Part(i[d], b.imax[d], b.istep[d], o.istep[d])
                  /\ strip(q, d) \in IRange
<1> DEFINE D == Len(b.imin)
<1> DEFINE q == nested_calc_inner_range(b, o, i)
<1>1. /\ DOMAIN b.imin = 1 .. D
      /\ \A d \in 1 .. D : b.imin[d] \in Int /\ b.imax[d] \in Int /\ b.istep[d] \in Nat \ {0}
  BY BoxType
<1>2. o.imin = b.imin /\ o.imax = b.imax /\ \A d \in 1 .. D : o.istep[d] \in Nat \ {0}
  BY DEF Divides
<1>3. DOMAIN o.imin = 1 .. D
  BY <1>1, <1>2
<1>4. \A d : strip(o, d) = irange(b.imin[d], b.imax[d], o.istep[d])
  BY <1>2 DEF strip
<1>5. i = [d \in 1 .. D |-> i[d]] /\ \A d \in 1 .. D : i[d] \in Range(Indices(strip(o, d)))
  BY <1>3, MultiMembers
<1>6. DOMAIN i = 1 .. D
  BY <1>5
<1>7. q.imin = i /\ q.istep = b.istep /\ \A d \in 1 .. D : q.imax[d] = lesser(i[d] + o.istep[d], b.imax[d])
  BY <1>6 DEF nested_calc_inner_range
<1> HIDE DEF q, D
<1>8. ASSUME NEW d \in 1 .. D
      PROVE  /\ i[d] \in Range(Indices(irange(b.imin[d], b.imax[d], o.istep[d])))
             /\ i[d] \in Int /\ i[d] < b.imax[d]
             /\ strip(q, d) = Part(i[d], b.imax[d], b.istep[d], o.istep[d])
             /\ strip(q, d) \in IRange
  <2>1. PICK lo \in Int, hi \in Int, s \in Nat \ {0}, t \in Nat \ {0} :
          lo = b.imin[d] /\ hi = b.imax[d] /\ s = b.istep[d] /\ t = o.istep[d]
    BY <1>1, <1>2
  <2>2. i[d] \in Range(Indices(irange(lo, hi, t)))
    BY <1>4, <1>5, <2>1
  <2>3. irange(lo, hi, t) \in IRange /\ irange(lo, hi, t).imax = hi
    BY DEF IRange, irange
  <2>4. i[d] \in Int /\ i[d] < hi
    BY <2>2, <2>3, Between
  <2>5. strip(q, d) = Part(i[d], hi, s, t)
    BY <1>7, <2>1 DEF strip, Part
  <2>6. Part(i[d], hi, s, t) \in IRange
    BY <2>4, PartType
  <2>7. QED
    BY <2>1, <2>2, <2>4, <2>5, <2>6
<1>9. QED
  BY <1>3, <1>4, <1>5, <1>6, <1>7, <1>8 DEF q, D

\* The inner boxes do not overlap, ...
LEMMA BoxesDisjoint ==
  ASSUME NEW b \in Box, NEW o, Divides(b, o),
         NEW i \in MultiIndices(o), NEW j \in MultiIndices(o), NEW x,
         x \in MultiIndices(nested_calc_inner_range(b, o, i)),
         x \in MultiIndices(nested_calc_inner_range(b, o, j))
  PROVE  i = j
<1> DEFINE D == Len(b.imin)
<1>1. ASSUME NEW d \in 1 .. D PROVE i[d] = j[d]
  <2>1. PICK lo \in Int, hi \in Int, s \in Nat \ {0}, t \in Nat \ {0} :
          lo = b.imin[d] /\ hi = b.imax[d] /\ s = b.istep[d] /\ t = o.istep[d]
    BY BoxType DEF Divides
  <2>2. x[d] \in Range(Indices(strip(nested_calc_inner_range(b, o, i), d)))
    BY Strips, MultiMembers
  <2>3. x[d] \in Range(Indices(strip(nested_calc_inner_range(b, o, j), d)))
    BY Strips, MultiMembers
  <2>4. /\ strip(nested_calc_inner_range(b, o, i), d) = Part(i[d], hi, s, t)
        /\ i[d] \in Range(Indices(irange(lo, hi, t)))
    BY <2>1, Strips
  <2>5. /\ strip(nested_calc_inner_range(b, o, j), d) = Part(j[d], hi, s, t)
        /\ j[d] \in Range(Indices(irange(lo, hi, t)))
    BY <2>1, Strips
  <2>6. QED
    BY <2>2, <2>3, <2>4, <2>5, PartsDisjoint
<1>2. i = [d \in 1 .. D |-> i[d]] /\ j = [d \in 1 .. D |-> j[d]]
  BY Strips
<1>3. QED
  BY <1>1, <1>2

\* ... and for a unit stride they make up the box.
LEMMA BoxesCover ==
  ASSUME NEW b \in Box, NEW o, Divides(b, o),
         \A d \in 1 .. Len(b.imin) : b.istep[d] = 1, NEW x
  PROVE  x \in MultiIndices(b) <=>
           \E i \in MultiIndices(o) : x \in MultiIndices(nested_calc_inner_range(b, o, i))
<1> DEFINE D == Len(b.imin)
<1> DEFINE inner(i) == nested_calc_inner_range(b, o, i)
<1>1. DOMAIN b.imin = 1 .. D /\ DOMAIN o.imin = 1 .. D
  BY BoxType DEF Divides
<1>2. ASSUME NEW d \in 1 .. D
      PROVE  /\ \A y : y \in Range(Indices(strip(b, d))) <=>
                  \E k \in Range(Indices(strip(o, d))) :
                    y \in Range(Indices(Part(k, b.imax[d], b.istep[d], o.istep[d])))
  <2>1. PICK lo \in Int, hi \in Int, t \in Nat \ {0} :
          lo = b.imin[d] /\ hi = b.imax[d] /\ 1 = b.istep[d] /\ t = o.istep[d]
    BY BoxType DEF Divides
  <2>2. PICK m \in Nat \ {0}, s \in Nat \ {0} : s = 1 /\ t = m * s
    <3>1. t = t * 1
      OBVIOUS
    <3>2. QED
      BY <3>1
  <2>3. ASSUME NEW y
        PROVE  y \in Range(Indices(irange(lo, hi, s))) <=>
                 \E k \in Range(Indices(irange(lo, hi, t))) : y \in Range(Indices(Part(k, hi, s, t)))
    <3>1. (\E n \in Nat \ {0} : t = n * s) \/ hi - lo <= t
      BY <2>2
    <3>2. QED
      BY <3>1, PartsCover, Zenon
  <2>4. strip(b, d) = irange(lo, hi, s) /\ strip(o, d) = irange(lo, hi, t)
    BY <2>1, <2>2 DEF strip, Divides
  <2>5. QED
    BY <2>1, <2>2, <2>3, <2>4
<1>3. ASSUME x \in MultiIndices(b) PROVE \E i \in MultiIndices(o) : x \in MultiIndices(inner(i))
  <2>1. x = [d \in 1 .. D |-> x[d]] /\ \A d \in 1 .. D : x[d] \in Range(Indices(strip(b, d)))
    BY <1>1, <1>3, MultiMembers
  <2> DEFINE i == [d \in 1 .. D |->
                     CHOOSE k \in Range(Indices(strip(o, d))) :
                       x[d] \in Range(Indices(Part(k, b.imax[d], b.istep[d], o.istep[d])))]
  <2>2. ASSUME NEW d \in 1 .. D
        PROVE  /\ i[d] \in Range(Indices(strip(o, d)))
               /\ x[d] \in Range(Indices(Part(i[d], b.imax[d], b.istep[d], o.istep[d])))
    BY <1>2, <2>1
  <2>3. i = [d \in 1 .. D |-> i[d]]
    OBVIOUS
  <2> HIDE DEF i
  <2>4. i \in MultiIndices(o)
    BY <1>1, <2>2, <2>3, MultiMembers
  <2>5. DOMAIN inner(i).imin = 1 .. D /\ \A d \in 1 .. D : x[d] \in Range(Indices(strip(inner(i), d)))
    BY <2>2, <2>4, Strips
  <2>6. x \in MultiIndices(inner(i))
    BY <2>1, <2>5, MultiMembers
  <2>7. QED
    BY <2>4, <2>6
<1>4. ASSUME NEW i \in MultiIndices(o), x \in MultiIndices(inner(i)) PROVE x \in MultiIndices(b)
  <2>1. DOMAIN inner(i).imin = 1 .. D
    BY Strips
  <2>2. x = [d \in 1 .. D |-> x[d]] /\ \A d \in 1 .. D : x[d] \in Range(Indices(strip(inner(i), d)))
    BY <1>4, <2>1, MultiMembers
  <2>3. ASSUME NEW d \in 1 .. D PROVE x[d] \in Range(Indices(strip(b, d)))
    <3>1. strip(inner(i), d) = Part(i[d], b.imax[d], b.istep[d], o.istep[d])
      BY Strips
    <3>2. i[d] \in Range(Indices(strip(o, d)))
      BY Strips
    <3>3. QED
      BY <1>2, <2>2, <3>1, <3>2
  <2>4. QED
    BY <1>1, <2>2, <2>3, MultiMembers
<1>5. QED
  BY <1>3, <1>4

\* When iotaMapMulti is served: see Served.
ServesBox(tp, ta, b) ==
  /\ tp.min <= 1 /\ ta.min <= 1 /\ multi_size(b) > 0
  /\ ta.max = unlimited \/ multi_size(b) <= ta.max \/ tp.max = unlimited

\* Then the outer box has as many indices as it should, in every direction,
\* and an inner box is no larger than it should be.
LEMMA BoxCount ==
  ASSUME NEW tp \in Traits, NEW ta \in Traits, NEW b \in Box, multi_size(b) > 0
  PROVE  LET shapes == nested_calc_shapes(tp, ta, b)
             o == nested_calc_outer_range(tp, ta, b)
         IN  /\ Divides(b, o)
             /\ multi_shape(o) = shapes.oshape
             /\ \A d \in 1 .. Len(b.imin) :
                  /\ multi_shape(b)[d] <= shapes.ishape[d] * shapes.oshape[d]
                  /\ \A i \in Range(Indices(strip(o, d))) :
                       shape(Part(i, b.imax[d], b.istep[d], o.istep[d])) \in 1 .. shapes.ishape[d]
<1> DEFINE D == Len(b.imin)
<1> DEFINE shapes == nested_calc_shapes(tp, ta, b)
<1> DEFINE ishape == shapes.ishape
<1> DEFINE oshape == shapes.oshape
<1> DEFINE o == nested_calc_outer_range(tp, ta, b)
<1>1. D \in Nat \ {0} /\ DOMAIN b.imin = 1 .. D
  BY BoxType
<1>2. /\ ishape \in Seq(Nat) /\ Len(ishape) = D /\ oshape \in Seq(Nat) /\ Len(oshape) = D
      /\ \A d \in 1 .. D : /\ ishape[d] \in 1 .. multi_shape(b)[d]
                           /\ oshape[d] = div_ceil(multi_shape(b)[d], ishape[d])
                           /\ oshape[d] \in Nat \ {0}
  BY Shapes
<1>3. nested_calc_outer_shape(tp, ta, b) = oshape
  BY DEF nested_calc_outer_shape
<1> HIDE DEF shapes
<1>4. prod(oshape) # 0
  <2>1. prod(oshape) > 0
    BY <1>2, ProdNat
  <2>2. QED
    BY <2>1
<1>5. o = [imin |-> b.imin, imax |-> b.imax,
           istep |-> [d \in DOMAIN oshape |-> div_ceil(b.imax[d] - b.imin[d], oshape[d])]]
  BY <1>3, <1>4 DEF nested_calc_outer_range
<1>6. DOMAIN oshape = 1 .. D
  BY <1>2
<1>7. o.imin = b.imin /\ o.imax = b.imax
  BY <1>5
<1>8. ASSUME NEW d \in 1 .. D
      PROVE  /\ o.istep[d] \in Nat \ {0}
             /\ shape(strip(o, d)) = oshape[d]
             /\ multi_shape(b)[d] <= ishape[d] * oshape[d]
             /\ \A i \in Range(Indices(strip(o, d))) :
                  shape(Part(i, b.imax[d], b.istep[d], o.istep[d])) \in 1 .. ishape[d]
  <2>1. PICK r \in IRange : r = strip(b, d)
    BY BoxType
  <2>2. r.imin = b.imin[d] /\ r.imax = b.imax[d] /\ r.istep = b.istep[d]
    BY <2>1 DEF strip, irange
  <2>3. multi_shape(b)[d] = shape(r)
    BY <2>1, BoxType
  <2>4. PICK e \in 1 .. shape(r), c \in Nat \ {0} :
          e = ishape[d] /\ c = oshape[d] /\ c = div_ceil(shape(r), e)
    BY <1>2, <2>3
  <2>5. PICK t : t = div_ceil(r.imax - r.imin, c)
    OBVIOUS
  <2>6. o.istep[d] = t
    <3>1. o.istep = [k \in 1 .. D |-> div_ceil(b.imax[k] - b.imin[k], oshape[k])]
      BY <1>5, <1>6
    <3>2. o.istep[d] = div_ceil(b.imax[d] - b.imin[d], oshape[d])
      BY <3>1
    <3>3. QED
      BY <2>2, <2>4, <2>5, <3>2
  <2>7. strip(o, d) = irange(r.imin, r.imax, t)
    BY <1>7, <2>2, <2>6 DEF strip
  <2>8. /\ t \in Nat \ {0}
        /\ shape(r) <= e * c
        /\ shape(irange(r.imin, r.imax, t)) = c
        /\ \A i \in Range(Indices(irange(r.imin, r.imax, t))) :
             shape(Part(i, r.imax, r.istep, t)) \in 1 .. e
    BY <2>4, <2>5, DirCount
  <2>9. QED
    BY <2>2, <2>3, <2>4, <2>6, <2>7, <2>8
<1>9. multi_shape(o) = [d \in 1 .. D |-> shape(strip(o, d))]
  BY <1>1, <1>7 DEF multi_shape
<1>10. multi_shape(o) = oshape
  <2>1. oshape = [d \in 1 .. D |-> oshape[d]]
    BY <1>2, <1>6
  <2>2. QED
    BY <1>8, <1>9, <2>1
<1>11. Divides(b, o)
  BY <1>7, <1>8 DEF Divides
<1>12. QED
  BY <1>8, <1>10, <1>11 DEF shapes

\* No assert about the outer box fails.
LEMMA OuterBoxServed ==
  ASSUME NEW tp \in Traits, NEW ta \in Traits, NEW b \in Box, ServesBox(tp, ta, b)
  PROVE  outer_range_ok(tp, ta, b)
<1> DEFINE D == Len(b.imin)
<1> DEFINE shapes == nested_calc_shapes(tp, ta, b)
<1> DEFINE o == nested_calc_outer_range(tp, ta, b)
<1>1. D \in Nat \ {0} /\ multi_shape(b) \in Seq(Nat) /\ Len(multi_shape(b)) = D /\ DOMAIN b.imin = 1 .. D
  BY BoxType
<1>2. PICK size \in Nat \ {0} : size = multi_size(b) /\ size = prod(multi_shape(b))
  <2>1. multi_size(b) \in Nat /\ multi_size(b) > 0
    BY <1>1, ProdNat DEF multi_size, ServesBox
  <2>2. QED
    BY <2>1 DEF multi_size
<1>3. PICK ishape, oshape :
        /\ ishape = shapes.ishape /\ oshape = shapes.oshape
        /\ oshape = nested_calc_outer_shape(tp, ta, b)
  BY DEF nested_calc_outer_shape
<1>4. /\ ishape \in Seq(Nat) /\ Len(ishape) = D /\ oshape \in Seq(Nat) /\ Len(oshape) = D
      /\ \A d \in 1 .. D : /\ ishape[d] \in 1 .. multi_shape(b)[d]
                           /\ oshape[d] \in Nat \ {0}
      /\ ta.max # unlimited => prod(ishape) <= ta.max
  <2>1. multi_size(b) > 0
    BY <1>2
  <2>2. /\ shapes.ishape \in Seq(Nat) /\ Len(shapes.ishape) = D
        /\ shapes.oshape \in Seq(Nat) /\ Len(shapes.oshape) = D
        /\ \A d \in 1 .. D :
             /\ shapes.ishape[d] \in 1 .. multi_shape(b)[d]
             /\ shapes.oshape[d] = div_ceil(multi_shape(b)[d], shapes.ishape[d])
             /\ shapes.oshape[d] \in Nat \ {0}
        /\ ta.max # unlimited => prod(shapes.ishape) <= ta.max
    BY <2>1, Shapes, Zenon
  <2>3. QED
    BY <1>3, <2>2
<1>5. /\ Divides(b, o)
      /\ multi_shape(o) = oshape
      /\ \A d \in 1 .. D : multi_shape(b)[d] <= ishape[d] * oshape[d]
  <2>1. multi_size(b) > 0
    BY <1>2
  <2>2. /\ Divides(b, o)
        /\ multi_shape(o) = shapes.oshape
        /\ \A d \in 1 .. D : multi_shape(b)[d] <= shapes.ishape[d] * shapes.oshape[d]
    BY <2>1, BoxCount
  <2>3. QED
    BY <1>3, <2>2
<1> HIDE DEF shapes, D
<1>6. \A d \in 1 .. D : ishape[d] > 0 /\ oshape[d] > 0
  BY <1>4
<1>7. PICK isize \in Nat \ {0}, osize \in Nat \ {0} : isize = prod(ishape) /\ osize = prod(oshape)
  <2>1. prod(ishape) \in Nat /\ prod(ishape) > 0
    BY <1>4, <1>6, ProdNat
  <2>2. prod(oshape) \in Nat /\ prod(oshape) > 0
    BY <1>4, <1>6, ProdNat
  <2>3. QED
    BY <2>1, <2>2
<1>8. size <= isize * osize
  BY <1>1, <1>2, <1>4, <1>5, <1>7, ProdMul
<1>9. DOMAIN oshape = 1 .. D
  BY <1>4
<1>10. ASSUME NEW d \in 1 .. D
       PROVE  isize * prod([oshape EXCEPT ![d] = @ + 1]) > size
  <2> DEFINE more == [oshape EXCEPT ![d] = @ + 1]
  <2>1. \A k \in 1 .. D : more[k] = IF k = d THEN oshape[k] + 1 ELSE oshape[k]
    BY <1>9
  <2>2. more \in [1 .. D -> Nat]
    <3>1. \A k \in 1 .. D : more[k] \in Nat
      BY <1>4, <2>1
    <3>2. more = [k \in 1 .. D |-> more[k]]
      BY <1>9
    <3>3. QED
      BY <3>1, <3>2
  <2> HIDE DEF more
  <2>3. more \in Seq(Nat) /\ Len(more) = D
    BY <1>1, <2>2, FunctionIsSeq
  <2>4. \A k \in 1 .. D : oshape[k] > 0 /\ oshape[k] <= more[k]
    <3>1. ASSUME NEW k \in 1 .. D PROVE oshape[k] <= more[k]
      <4>1. oshape[k] \in Nat
        BY <1>4
      <4>2. more[k] = oshape[k] \/ more[k] = oshape[k] + 1
        BY <2>1
      <4>3. QED
        BY <4>1, <4>2
    <3>2. QED
      BY <1>6, <3>1
  <2>5. oshape[d] < more[d]
    BY <1>4, <2>1
  <2>6. prod(oshape) < prod(more)
    BY <1>4, <2>3, <2>4, <2>5, ProdStrict
  <2>7. PICK m \in Nat : m = prod(more)
    BY <2>3, ProdNat
  <2>8. isize * osize < isize * m
    BY <1>7, <2>6, <2>7, MulStrict
  <2>9. isize * osize \in Nat /\ isize * m \in Nat
    OBVIOUS
  <2>10. QED
    BY <1>8, <2>7, <2>8, <2>9 DEF more
<1>11. /\ tp.min \in Nat /\ ta.min \in Nat /\ tp.min <= 1 /\ ta.min <= 1
       /\ ta.max = unlimited \/ multi_size(b) <= ta.max \/ tp.max = unlimited
  BY DEF Traits, ServesBox
<1>12. (ta.max = unlimited \/ isize <= ta.max)
  BY <1>4, <1>7
<1>13. (tp.max = unlimited \/ osize <= tp.max)
  <2>1. CASE tp.max = unlimited
    BY <2>1
  <2>2. CASE tp.max # unlimited
    <3>1. tp.max \in Nat \ {0}
      BY <2>2, CappedType
    <3>2. shapes.oshape = [d \in 1 .. D |-> 1]
      <4>1. multi_size(b) # 0 /\ (ta.max = unlimited \/ multi_size(b) <= ta.max)
        BY <1>2, <1>11, <2>2
      <4>2. QED
        BY <4>1 DEF nested_calc_shapes, shapes, D
    <3>3. osize = ipow(1, D)
      BY <1>3, <1>7, <3>2 DEF ipow
    <3>4. osize = 1
      BY <1>1, <3>3, Power
    <3>5. QED
      BY <3>1, <3>4
  <2>3. QED
    BY <2>1, <2>2
<1>14. outer_shape_ok(tp, ta, b)
  <2>1. isize * osize >= size
    BY <1>8
  <2>2. isize # 0 /\ osize # 0 /\ isize >= ta.min /\ osize >= tp.min
    BY <1>11
  <2>3. shapes.ishape = ishape
    BY <1>3
  <2>4. QED
    BY <1>2, <1>3, <1>7, <1>9, <1>10, <1>12, <1>13, <2>1, <2>2, <2>3 DEF outer_shape_ok, shapes
<1>15. multi_size(o) = osize
  BY <1>5, <1>7 DEF multi_size
<1>16. multi_valid(o)
  BY <1>1, <1>5 DEF Divides, multi_valid, D
<1>17. \A d \in DOMAIN oshape : oshape[d] # 0
  BY <1>4, <1>9
<1>18. osize >= tp.min
  BY <1>11
<1>19. QED
  BY <1>3, <1>7, <1>13, <1>14, <1>15, <1>16, <1>17, <1>18 DEF outer_range_ok

\* Nor one about an inner box.
LEMMA InnerBoxServed ==
  ASSUME NEW tp \in Traits, NEW ta \in Traits, NEW b \in Box, ServesBox(tp, ta, b),
         NEW o, o = nested_calc_outer_range(tp, ta, b), NEW i \in MultiIndices(o)
  PROVE  inner_range_ok(tp, ta, nested_calc_inner_range(b, o, i))
<1> DEFINE D == Len(b.imin)
<1> DEFINE shapes == nested_calc_shapes(tp, ta, b)
<1> DEFINE q == nested_calc_inner_range(b, o, i)
<1> DEFINE s == multi_shape(q)
<1>1. D \in Nat \ {0} /\ \A d \in 1 .. D : b.imax[d] \in Int
  BY BoxType
<1>2. multi_size(b) > 0
  BY DEF ServesBox
<1>3. PICK ishape : ishape = shapes.ishape
  OBVIOUS
<1>4. /\ ishape \in Seq(Nat) /\ Len(ishape) = D
      /\ ta.max # unlimited => prod(ishape) <= ta.max
  BY <1>2, <1>3, Shapes
<1>5. /\ Divides(b, o)
      /\ \A d \in 1 .. D : \A k \in Range(Indices(strip(o, d))) :
           shape(Part(k, b.imax[d], b.istep[d], o.istep[d])) \in 1 .. ishape[d]
  BY <1>2, <1>3, BoxCount
<1>6. /\ DOMAIN q.imin = 1 .. D
      /\ \A d \in 1 .. D :
           /\ i[d] \in Range(Indices(strip(o, d)))
           /\ i[d] \in Int /\ i[d] < b.imax[d]
           /\ strip(q, d) = Part(i[d], b.imax[d], b.istep[d], o.istep[d])
  BY <1>5, Strips
<1>7. \A d \in 1 .. D : shape(strip(q, d)) \in 1 .. ishape[d]
  BY <1>5, <1>6
<1>8. s = [d \in 1 .. D |-> shape(strip(q, d))]
  BY <1>6 DEF multi_shape
<1>9. s \in [1 .. D -> Nat]
  BY <1>7, <1>8
<1>10. \A d \in 1 .. D : s[d] \in 1 .. ishape[d]
  BY <1>7, <1>8
<1> HIDE DEF s, D
<1>11. s \in Seq(Nat) /\ Len(s) = D
  BY <1>1, <1>9, FunctionIsSeq
<1>12. \A d \in 1 .. D : s[d] \in Nat /\ s[d] > 0 /\ s[d] <= ishape[d]
  BY <1>9, <1>10
<1>13. prod(s) \in Nat /\ prod(s) > 0
  BY <1>11, <1>12, ProdNat
<1>14. prod(s) <= prod(ishape)
  BY <1>4, <1>11, <1>12, ProdMono
<1>15. prod(ishape) \in Nat
  BY <1>4, ProdNat
<1>16. ta.min \in Nat /\ ta.min <= 1 /\ (ta.max # unlimited => ta.max \in Nat)
  <2>1. ta.max # unlimited => ta.max \in Nat
    BY CappedType
  <2>2. QED
    BY <2>1 DEF Traits, ServesBox
<1>17. (ta.max = unlimited \/ prod(s) <= ta.max)
  BY <1>4, <1>13, <1>14, <1>15, <1>16
<1>18. multi_size(q) = prod(s)
  BY DEF multi_size, s
<1>19. ~ multi_empty(q)
  <2>1. ASSUME NEW d \in 1 .. D PROVE ~ (q.imax[d] <= q.imin[d])
    <3>1. o.istep[d] \in Nat \ {0}
      BY <1>5 DEF Divides, D
    <3>2. DOMAIN i = 1 .. D
      BY <1>6 DEF nested_calc_inner_range
    <3>3. q.imax[d] = lesser(i[d] + o.istep[d], b.imax[d]) /\ q.imin[d] = i[d]
      BY <3>2 DEF nested_calc_inner_range
    <3>4. QED
      BY <1>1, <1>6, <3>1, <3>3 DEF lesser, D
  <2>2. QED
    BY <1>6, <2>1 DEF multi_empty
<1>20. QED
  BY <1>13, <1>16, <1>17, <1>18, <1>19 DEF inner_range_ok

-----------------------------------------------------------------------------
(* The construction, step by step *)

\* What is constructed, and from what.
Given ==
  /\ p \in Outer /\ a \in Inner
  /\ \/ dim = 0 /\ inds \in Ranges
     \/ inds \in Boxes /\ dim = Len(inds.imin)
  /\ stage \in {"outer", "inner", "done", "abort"}

\* The outer range is the one that was calculated, and passed the asserts.
OuterCalculated ==
  IF dim = 0
    THEN outer_inds_ok(p, a, inds) /\ oinds = nested_calc_outer_inds(p, a, inds)
    ELSE outer_range_ok(p, a, inds) /\ oinds = nested_calc_outer_range(p, a, inds)

InnerPart(i) ==
  IF dim = 0
    THEN Indices(nested_calc_inner_inds(inds, oinds, i))
    ELSE MultiIndices(nested_calc_inner_range(inds, oinds, i))

\* The outer indices are pending or have their part, which is the one
\* calculated for them, even if an assert about another one has failed.
Filling ==
  /\ stage = "outer" => DOMAIN parts = {}
  /\ stage \in {"inner", "done"} \/ DOMAIN parts # {} => OuterCalculated
  /\ stage \in {"inner", "done"} =>
       pending \subseteq OuterIndices(oinds) /\ DOMAIN parts = OuterIndices(oinds) \ pending
  /\ stage = "inner" => pending # {}
  /\ stage = "done" => pending = {}
  /\ \A i \in DOMAIN parts : i \in OuterIndices(oinds) /\ parts[i] = InnerPart(i)

IInv == Given /\ Filling

\* The assumptions, in the terms of the lemmas.
LEMMA GivenTypes ==
  ASSUME Given
  PROVE  /\ p \in Traits /\ a \in Traits
         /\ dim = 0 => inds \in IRange
         /\ dim # 0 => inds \in Box /\ dim = Len(inds.imin)
<1>1. p \in Traits /\ a \in Traits
  BY TraitsAssumption DEF Given, Traits
<1>2. \A r \in Ranges : r \in IRange
  BY RangesAssumption DEF IRange
<1>3. \A b \in Boxes : b \in Box /\ Len(b.imin) # 0
  BY RangesAssumption DEF Box
<1>4. QED
  BY <1>1, <1>2, <1>3 DEF Given

\* The invariant is inductive: it holds initially,
LEMMA InitInv == Init => IInv
<1> SUFFICES ASSUME Init PROVE IInv
  OBVIOUS
<1>1. Given
  BY DEF Init, Given
<1>2. DOMAIN parts = {} /\ stage = "outer"
  BY DEF Init
<1>3. QED
  BY <1>1, <1>2 DEF IInv, Filling

\* An assert that fails leaves what was done before.
LEMMA AbortStep ==
  ASSUME IInv, Abort, UNCHANGED <<p, a, dim, inds>>
  PROVE  IInv'
<1>1. /\ stage' = "abort"
      /\ p' = p /\ a' = a /\ dim' = dim /\ inds' = inds
      /\ oinds' = oinds /\ pending' = pending /\ parts' = parts
  BY DEF Abort
<1>2. Given'
  BY <1>1 DEF IInv, Given
<1>3. OuterCalculated' = OuterCalculated
  BY <1>1 DEF OuterCalculated
<1>4. \A i : InnerPart(i)' = InnerPart(i)
  BY <1>1 DEF InnerPart
<1>5. OuterIndices(oinds)' = OuterIndices(oinds)
  BY <1>1 DEF OuterIndices
<1>6. Filling'
  BY <1>1, <1>3, <1>4, <1>5 DEF IInv, Filling
<1>7. QED
  BY <1>2, <1>6 DEF IInv

\* The outer range is calculated.
LEMMA DivideStep ==
  ASSUME IInv, iotaMap \/ iotaMapMulti
  PROVE  IInv'
<1>1. PICK r :
        \/ Abort /\ UNCHANGED <<p, a, dim, inds>>
        \/ /\ Divide(r) /\ UNCHANGED <<p, a, dim, inds>>
           /\ IF dim = 0
                THEN outer_inds_ok(p, a, inds) /\ r = nested_calc_outer_inds(p, a, inds)
                ELSE outer_range_ok(p, a, inds) /\ r = nested_calc_outer_range(p, a, inds)
  <2>1. CASE iotaMap
    BY <2>1 DEF iotaMap
  <2>2. CASE iotaMapMulti
    <3>1. dim # 0
      BY <2>2, GivenTypes DEF iotaMapMulti, IInv, Given
    <3>2. QED
      BY <2>2, <3>1 DEF iotaMapMulti
  <2>3. QED
    BY <2>1, <2>2
<1>2. CASE Abort /\ UNCHANGED <<p, a, dim, inds>>
  BY <1>2, AbortStep
<1>3. CASE /\ Divide(r) /\ UNCHANGED <<p, a, dim, inds>>
           /\ IF dim = 0
                THEN outer_inds_ok(p, a, inds) /\ r = nested_calc_outer_inds(p, a, inds)
                ELSE outer_range_ok(p, a, inds) /\ r = nested_calc_outer_range(p, a, inds)
  <2>1. /\ oinds' = r /\ pending' = OuterIndices(r) /\ parts' = << >>
        /\ stage' = IF OuterIndices(r) = {} THEN "done" ELSE "inner"
        /\ p' = p /\ a' = a /\ dim' = dim /\ inds' = inds
    BY <1>3 DEF Divide
  <2>2. Given'
    BY <2>1 DEF IInv, Given
  <2>3. OuterCalculated'
    BY <1>3, <2>1 DEF OuterCalculated
  <2>4. OuterIndices(oinds)' = OuterIndices(r)
    BY <2>1 DEF OuterIndices
  <2>5. DOMAIN parts' = {}
    BY <2>1
  <2>6. Filling'
    BY <2>1, <2>3, <2>4, <2>5 DEF Filling
  <2>7. QED
    BY <2>2, <2>6 DEF IInv
<1>4. QED
  BY <1>1, <1>2, <1>3

\* An inner container is filled.
LEMMA FillStep ==
  ASSUME IInv, NEW i \in pending, nested_iotaMap(i) \/ nested_iotaMapMulti(i)
  PROVE  IInv'
<1>1. \/ Abort /\ UNCHANGED <<p, a, dim, inds>>
      \/ stage = "inner" /\ Fill(i, InnerPart(i)) /\ UNCHANGED <<p, a, dim, inds>>
  <2>1. CASE nested_iotaMap(i)
    BY <2>1 DEF nested_iotaMap, InnerPart
  <2>2. CASE nested_iotaMapMulti(i)
    <3>1. dim # 0
      BY <2>2, GivenTypes DEF nested_iotaMapMulti, IInv, Given
    <3>2. QED
      BY <2>2, <3>1 DEF nested_iotaMapMulti, InnerPart
  <2>3. QED
    BY <2>1, <2>2
<1>2. CASE Abort /\ UNCHANGED <<p, a, dim, inds>>
  BY <1>2, AbortStep
<1>3. CASE stage = "inner" /\ Fill(i, InnerPart(i)) /\ UNCHANGED <<p, a, dim, inds>>
  <2>1. /\ p' = p /\ a' = a /\ dim' = dim /\ inds' = inds /\ oinds' = oinds
        /\ parts' = [j \in DOMAIN parts \cup {i} |-> IF j = i THEN InnerPart(i) ELSE parts[j]]
        /\ pending' = pending \ {i}
        /\ stage' = IF pending = {i} THEN "done" ELSE "inner"
    BY <1>3 DEF Fill
  <2>2. Given'
    BY <2>1 DEF IInv, Given
  <2>3. OuterCalculated'
    BY <1>3, <2>1 DEF OuterCalculated, IInv, Filling
  <2>4. OuterIndices(oinds)' = OuterIndices(oinds)
    BY <2>1 DEF OuterIndices
  <2>5. \A j : InnerPart(j)' = InnerPart(j)
    BY <2>1 DEF InnerPart
  <2>6. i \in OuterIndices(oinds)
    BY <1>3 DEF IInv, Filling
  <2>7. DOMAIN parts' = DOMAIN parts \cup {i}
    BY <2>1
  <2>8. \A j \in DOMAIN parts' : (j \in OuterIndices(oinds))' /\ parts'[j] = InnerPart(j)'
    BY <2>1, <2>4, <2>5, <2>6 DEF IInv, Filling
  <2>9. /\ (pending \subseteq OuterIndices(oinds))'
        /\ (DOMAIN parts = OuterIndices(oinds) \ pending)'
    BY <1>3, <2>1, <2>4, <2>6, <2>7 DEF IInv, Filling
  <2>10. (stage' = "inner" => pending' # {}) /\ (stage' = "done" => pending' = {})
    BY <2>1
  <2>11. stage' # "outer"
    BY <2>1
  <2>12. Filling'
    BY <2>3, <2>8, <2>9, <2>10, <2>11 DEF Filling
  <2>13. QED
    BY <2>2, <2>12 DEF IInv
<1>4. QED
  BY <1>1, <1>2, <1>3

\* every step preserves it,
LEMMA NextInv == IInv /\ [Next]_vars => IInv'
<1> SUFFICES ASSUME IInv, [Next]_vars PROVE IInv'
  OBVIOUS
<1>1. CASE iotaMap \/ iotaMapMulti
  BY <1>1, DivideStep
<1>2. CASE \E i \in pending : nested_iotaMap(i) \/ nested_iotaMapMulti(i)
  BY <1>2, FillStep
<1>3. CASE UNCHANGED vars
  <2>1. /\ p' = p /\ a' = a /\ dim' = dim /\ inds' = inds /\ oinds' = oinds
        /\ pending' = pending /\ parts' = parts /\ stage' = stage
    BY <1>3 DEF vars
  <2>2. Given'
    BY <2>1 DEF IInv, Given
  <2>3. Filling'
    BY <2>1 DEF IInv, Filling, OuterCalculated, OuterIndices, InnerPart
  <2>4. QED
    BY <2>2, <2>3 DEF IInv
<1>4. QED
  BY <1>1, <1>2, <1>3 DEF Next

\* and so it always holds.
LEMMA Inductive == Spec => []IInv
BY InitInv, NextInv, PTL DEF Spec

-----------------------------------------------------------------------------
(* What the invariant says *)

\* Property TypeOK.  The state has its type, and a container is finished only
\* when every call of nested_iotaMap has filled its inner container.
THEOREM TypeCorrect == Spec => []TypeOK
<1>1. IInv => TypeOK
  <2> SUFFICES ASSUME IInv PROVE TypeOK
    OBVIOUS
  <2>1. /\ p \in Outer /\ a \in Inner
        /\ stage \in {"outer", "inner", "done", "abort"}
    BY DEF IInv, Given
  <2>2. inds \in IF dim = 0 THEN Ranges ELSE Boxes
    <3>1. dim = 0 => inds \in Ranges
      BY RangesAssumption DEF IInv, Given
    <3>2. dim # 0 => inds \in Boxes
      BY DEF IInv, Given
    <3>3. QED
      BY <3>1, <3>2
  <2>3. /\ stage = "inner" => pending # {}
        /\ stage = "done" => pending = {} /\ DOMAIN parts = OuterIndices(oinds)
    BY DEF IInv, Filling
  <2>4. QED
    BY <2>1, <2>2, <2>3 DEF TypeOK
<1>2. QED
  BY <1>1, Inductive, PTL

\* In one dimension the parts are those of the lemmas.
LEMMA LineParts ==
  ASSUME IInv, dim = 0, OuterCalculated
  PROVE  \E t \in Nat \ {0} :
           /\ oinds = irange(inds.imin, inds.imax, t)
           /\ \/ inds.imax - inds.imin <= t
              \/ \E m \in Nat \ {0} : t = m * inds.istep
           /\ \A i : InnerPart(i) = Indices(Part(i, inds.imax, inds.istep, t))
<1>1. p \in Traits /\ a \in Traits /\ inds \in IRange
  BY GivenTypes DEF IInv
<1>2. outer_inds_ok(p, a, inds) /\ oinds = nested_calc_outer_inds(p, a, inds)
  BY DEF OuterCalculated
<1>3. PICK t \in Nat \ {0} :
        /\ oinds = irange(inds.imin, inds.imax, t)
        /\ \/ inds.imax - inds.imin <= t
           \/ \E m \in Nat \ {0} : t = m * inds.istep
  BY <1>1, <1>2, OuterInds
<1>4. \A i : InnerPart(i) = Indices(Part(i, inds.imax, inds.istep, t))
  BY <1>1, <1>3, InnerInds DEF InnerPart
<1>5. QED
  BY <1>3, <1>4

\* Parts of different outer indices have no index in common, and together
\* they have all of them.
LEMMA PartedInv == IInv => Parted
<1> SUFFICES ASSUME IInv, dim = 0 \/ (\A d \in 1 .. dim : inds.istep[d] = 1)
             PROVE  /\ \A i, j \in DOMAIN parts : i # j => Elements(parts[i]) \cap Elements(parts[j]) = {}
                    /\ stage = "done" =>
                         UNION {Elements(parts[i]) : i \in DOMAIN parts} = OuterIndices(inds)
  BY DEF Parted
<1>1. \A i \in DOMAIN parts : i \in OuterIndices(oinds) /\ parts[i] = InnerPart(i)
  BY DEF IInv, Filling
<1>2. stage = "done" => OuterCalculated /\ DOMAIN parts = OuterIndices(oinds)
  BY DEF IInv, Filling
<1>3. DOMAIN parts # {} => OuterCalculated
  BY DEF IInv, Filling
<1> DEFINE E(i) == Elements(InnerPart(i))
<1>4. CASE dim = 0
  <2>1. ASSUME OuterCalculated
        PROVE  /\ \A i, j \in OuterIndices(oinds) : i # j => E(i) \cap E(j) = {}
               /\ UNION {E(i) : i \in OuterIndices(oinds)} = OuterIndices(inds)
    <3>1. inds \in IRange
      BY <1>4, GivenTypes DEF IInv
    <3>2. PICK t \in Nat \ {0} :
            /\ oinds = irange(inds.imin, inds.imax, t)
            /\ \/ inds.imax - inds.imin <= t
               \/ \E m \in Nat \ {0} : t = m * inds.istep
            /\ \A i : InnerPart(i) = Indices(Part(i, inds.imax, inds.istep, t))
      BY <1>4, <2>1, LineParts
    <3>3. PICK lo \in Int, hi \in Int, s \in Nat \ {0} :
            lo = inds.imin /\ hi = inds.imax /\ s = inds.istep /\ inds = irange(lo, hi, s)
      BY <3>1 DEF IRange, irange
    <3>4. \A i : E(i) = Range(Indices(Part(i, hi, s, t)))
      BY <1>4, <3>2, <3>3 DEF Elements
    <3>5. OuterIndices(oinds) = Range(Indices(irange(lo, hi, t))) /\ OuterIndices(inds) = Range(Indices(irange(lo, hi, s)))
      BY <1>4, <3>2, <3>3 DEF OuterIndices
    <3>6. \A i, j \in OuterIndices(oinds) : \A x : x \in E(i) /\ x \in E(j) => i = j
      BY <3>4, <3>5, PartsDisjoint
    <3>7. (\E m \in Nat \ {0} : t = m * s) \/ hi - lo <= t
      BY <3>2, <3>3
    <3>8. \A x : x \in Range(Indices(irange(lo, hi, s))) <=>
             \E i \in Range(Indices(irange(lo, hi, t))) : x \in Range(Indices(Part(i, hi, s, t)))
      <4>1. CASE \E m \in Nat \ {0} : t = m * s
        <5>1. PICK m \in Nat \ {0} : t = m * s
          BY <4>1
        <5>2. QED
          BY <5>1, PartsCover
      <4>2. CASE hi - lo <= t
        BY <4>2, PartsCover
      <4>3. QED
        BY <3>7, <4>1, <4>2
    <3>9. \A x : x \in OuterIndices(inds) <=> \E i \in OuterIndices(oinds) : x \in E(i)
      BY <3>4, <3>5, <3>8
    <3> HIDE DEF E
    <3>10. QED
      BY <3>6, <3>9
  <2>2. \A i \in DOMAIN parts : Elements(parts[i]) = E(i)
    BY <1>1
  <2> HIDE DEF E
  <2>3. QED
    BY <1>1, <1>2, <1>3, <2>1, <2>2
<1>5. CASE dim # 0
  <2>1. ASSUME OuterCalculated
        PROVE  /\ \A i, j \in OuterIndices(oinds) : i # j => E(i) \cap E(j) = {}
               /\ UNION {E(i) : i \in OuterIndices(oinds)} = OuterIndices(inds)
    <3>1. p \in Traits /\ a \in Traits /\ inds \in Box /\ dim = Len(inds.imin)
      BY <1>5, GivenTypes DEF IInv
    <3>2. Divides(inds, oinds)
      BY <1>5, <2>1, <3>1, OuterRange DEF OuterCalculated
    <3>3. \A i : E(i) = MultiIndices(nested_calc_inner_range(inds, oinds, i))
      BY <1>5 DEF Elements, InnerPart
    <3>4. OuterIndices(oinds) = MultiIndices(oinds) /\ OuterIndices(inds) = MultiIndices(inds)
      BY <1>5 DEF OuterIndices
    <3>5. \A i, j \in OuterIndices(oinds) : \A x : x \in E(i) /\ x \in E(j) => i = j
      BY <3>1, <3>2, <3>3, <3>4, BoxesDisjoint
    <3>6. \A d \in 1 .. Len(inds.imin) : inds.istep[d] = 1
      BY <1>5, <3>1
    <3>7. \A x : x \in OuterIndices(inds) <=> \E i \in OuterIndices(oinds) : x \in E(i)
      BY <3>1, <3>2, <3>3, <3>4, <3>6, BoxesCover
    <3> HIDE DEF E
    <3>8. QED
      BY <3>5, <3>7
  <2>2. \A i \in DOMAIN parts : Elements(parts[i]) = E(i)
    BY <1>1
  <2> HIDE DEF E
  <2>3. QED
    BY <1>1, <1>2, <1>3, <2>1, <2>2
<1>6. QED
  BY <1>4, <1>5

\* In one dimension the parts follow each other in the order of the range.
LEMMA InOrderInv == IInv => InOrder
<1> SUFFICES ASSUME IInv, dim = 0, stage = "done"
             PROVE  FlattenSeq([i \in 1 .. shape(oinds) |-> parts[at(oinds, i - 1)]]) = Indices(inds)
  BY DEF InOrder
<1>1. OuterCalculated /\ DOMAIN parts = OuterIndices(oinds)
  BY DEF IInv, Filling
<1>2. inds \in IRange
  BY GivenTypes DEF IInv
<1>3. PICK t \in Nat \ {0} :
        /\ oinds = irange(inds.imin, inds.imax, t)
        /\ \/ inds.imax - inds.imin <= t
           \/ \E m \in Nat \ {0} : t = m * inds.istep
        /\ \A i : InnerPart(i) = Indices(Part(i, inds.imax, inds.istep, t))
  BY <1>1, LineParts
<1>4. \A i \in Range(Indices(oinds)) : parts[i] = Indices(Part(i, inds.imax, inds.istep, t))
  BY <1>1, <1>3 DEF IInv, Filling, OuterIndices
<1>5. QED
  BY <1>2, <1>3, <1>4, PartsInOrder

\* Property Divided.  Whatever the order in which the inner containers are
\* filled, every index of the range is in one of them, and read from the
\* first to the last they give the range in its order.
THEOREM DividesInOrder == Spec => []Divided
<1>1. IInv => Divided
  BY PartedInv, InOrderInv DEF Divided
<1>2. QED
  BY <1>1, Inductive, PTL

\* Property Served.  Within the limits that it states none of the asserts of
\* iotaMap and iotaMapMulti, nor of the inner containers' own, fails.
THEOREM ServedWithinLimits == Spec => []Served
<1> DEFINE Within ==
      IF dim = 0 THEN Serves(p, a, inds) ELSE ServesBox(p, a, inds)
<1> DEFINE NoFail == Within => stage # "abort"
<1>1. IInv /\ NoFail => Served
  <2> SUFFICES ASSUME IInv, NoFail,
                      p.min <= 1, a.min <= 1, Size > 0,
                      \/ dim = 0 /\ Size <= capped(a)
                      \/ dim = 0 /\ a.max \in 1 .. nested_max_size /\ Size <= a.max * capped(p)
                      \/ dim > 0 /\ (a.max = unlimited \/ Size <= a.max \/ p.max = unlimited)
               PROVE  stage # "abort"
    BY DEF Served
  <2>1. CASE dim = 0
    <3>1. Serves(p, a, inds)
      BY <2>1 DEF Serves, Size
    <3>2. QED
      BY <2>1, <3>1
  <2>2. CASE dim # 0
    <3>1. ServesBox(p, a, inds)
      BY <2>2 DEF ServesBox, Size
    <3>2. QED
      BY <2>2, <3>1
  <2>3. QED
    BY <2>1, <2>2
<1>2. Init => NoFail
  BY DEF Init
<1>3. IInv /\ NoFail /\ [Next]_vars => NoFail'
  <2> SUFFICES ASSUME IInv, NoFail, [Next]_vars, Within' PROVE stage' # "abort"
    OBVIOUS
  <2>1. UNCHANGED <<p, a, dim, inds>>
    BY DEF Next, vars, iotaMap, iotaMapMulti, nested_iotaMap, nested_iotaMapMulti
  <2>2. Within
    BY <2>1
  <2>3. stage # "abort"
    BY <2>2
  <2>4. /\ p \in Traits /\ a \in Traits
        /\ dim = 0 => inds \in IRange
        /\ dim # 0 => inds \in Box /\ dim = Len(inds.imin)
    BY GivenTypes DEF IInv
  <2>5. CASE iotaMap
    <3>1. outer_inds_ok(p, a, inds)
      BY <2>2, <2>4, <2>5, OuterServed DEF iotaMap
    <3>2. QED
      BY <2>5, <3>1 DEF iotaMap, Divide
  <2>6. CASE iotaMapMulti
    <3>1. dim # 0
      BY <2>6 DEF iotaMapMulti, IInv, Given
    <3>2. outer_range_ok(p, a, inds)
      BY <2>2, <2>4, <3>1, OuterBoxServed
    <3>3. QED
      BY <2>6, <3>2 DEF iotaMapMulti, Divide
  <2>7. ASSUME NEW i \in pending, nested_iotaMap(i) PROVE stage' # "abort"
    <3>1. dim = 0 /\ stage = "inner"
      BY <2>7 DEF nested_iotaMap
    <3>2. oinds = nested_calc_outer_inds(p, a, inds) /\ i \in Range(Indices(oinds))
      BY <3>1 DEF IInv, Filling, OuterCalculated, OuterIndices
    <3>3. inner_inds_ok(p, a, nested_calc_inner_inds(inds, oinds, i))
      BY <2>2, <2>4, <3>1, <3>2, InnerServed
    <3>4. QED
      BY <2>7, <3>3 DEF nested_iotaMap, Fill
  <2>8. ASSUME NEW i \in pending, nested_iotaMapMulti(i) PROVE stage' # "abort"
    <3>1. dim # 0 /\ stage = "inner"
      BY <2>8 DEF nested_iotaMapMulti, IInv, Given
    <3>2. oinds = nested_calc_outer_range(p, a, inds) /\ i \in MultiIndices(oinds)
      BY <3>1 DEF IInv, Filling, OuterCalculated, OuterIndices
    <3>3. inner_range_ok(p, a, nested_calc_inner_range(inds, oinds, i))
      BY <2>2, <2>4, <3>1, <3>2, InnerBoxServed
    <3>4. QED
      BY <2>8, <3>3 DEF nested_iotaMapMulti, Fill
  <2>9. CASE UNCHANGED vars
    BY <2>3, <2>9 DEF vars
  <2>10. QED
    BY <2>5, <2>6, <2>7, <2>8, <2>9 DEF Next
<1> HIDE DEF NoFail
<1>4. QED
  BY <1>1, <1>2, <1>3, Inductive, PTL DEF Spec
=============================================================================
