---------------------------- MODULE Grid_proofs ----------------------------
(***************************************************************************)
(* Proofs about the grids of adt/grid_impl.hpp, for any boxes of any       *)
(* number of dimensions: no two positions of a grid share a place in its   *)
(* data, also when it is a boundary of a boundary, and the program with a  *)
(* grid implements that with a field.                                      *)
(*                                                                         *)
(* The positions of a grid depend on its shape only: they are the indices  *)
(* below it, whatever the loop that enumerates them.  The place of a       *)
(* position is a sum, one dimension after the other, of what the offset    *)
(* and the strides say.  In a new grid that sum is the number of the       *)
(* position in the loop; a boundary gives its positions the places that    *)
(* they have in the grid.                                                  *)
(***************************************************************************)
EXTENDS Grid, SequenceTheorems, FiniteSetTheorems, WellFoundedInduction, TLAPS

-----------------------------------------------------------------------------
(* Numbers and recursion *)

\* Induction: a set that contains 0 and with a number the next one, up to n,
\* contains all numbers up to n.
LEMMA Upwards ==
  ASSUME NEW n \in Nat, NEW S, 0 \in S, \A i \in 1 .. n : i - 1 \in S => i \in S
  PROVE  0 .. n \subseteq S
<1> DEFINE LessThan == {ss \in Nat \X Nat : ss[1] < ss[2]}
<1> DEFINE Bad == (0 .. n) \ S
<1>1. SUFFICES ASSUME Bad # {} PROVE FALSE
  OBVIOUS
<1>2. IsWellFoundedOn(LessThan, Nat)
  BY NatLessThanWellFounded DEF OpToRel
<1>3. Bad \subseteq Nat
  OBVIOUS
<1>4. PICK x \in Bad : \A y \in Bad : <<y, x>> \notin LessThan
  <2> HIDE DEF LessThan, Bad
  <2>1. QED
    BY <1>1, <1>2, <1>3, WFMin
<1>5. x \in 1 .. n /\ x \notin S /\ x - 1 \in 0 .. n
  OBVIOUS
<1>6. x - 1 \in Bad
  BY <1>5
<1>7. <<x - 1, x>> \in LessThan
  <2>1. <<x - 1, x>> \in Nat \X Nat /\ <<x - 1, x>>[1] = x - 1 /\ <<x - 1, x>>[2] = x
    BY <1>5
  <2>2. x - 1 < x
    BY <1>5
  <2>3. QED
    BY <2>1, <2>2, Zenon DEF LessThan
<1>8. QED
  BY <1>4, <1>6, <1>7

\* g starts with t and goes on with the steps of F.
Unfolds(g, N, T, t, F) ==
  /\ g \in [0 .. N -> T]
  /\ g[0] = t
  /\ \A n \in 1 .. N : g[n] = F[n][g[n - 1]]

\* There is such a function.
LEMMA Recursion ==
  ASSUME NEW N \in Nat, NEW T, NEW t \in T, NEW F \in [1 .. N -> [T -> T]]
  PROVE  \E g : Unfolds(g, N, T, t, F)
<1> DEFINE Upto(g, n) == g[0] = t /\ \A i \in 1 .. n : g[i] = F[i][g[i - 1]]
<1> DEFINE Done == {n \in 0 .. N : \E g \in [0 .. n -> T] : Upto(g, n)}
<1>1. 0 \in Done
  <2> DEFINE g == [i \in 0 .. 0 |-> t]
  <2>1. g \in [0 .. 0 -> T] /\ Upto(g, 0)
    OBVIOUS
  <2> HIDE DEF g
  <2>2. QED
    BY <2>1
<1>2. ASSUME NEW n \in 1 .. N, n - 1 \in Done PROVE n \in Done
  <2>1. PICK g \in [0 .. n - 1 -> T] : Upto(g, n - 1)
    BY <1>2
  <2> DEFINE h == [i \in 0 .. n |-> IF i = n THEN F[n][g[n - 1]] ELSE g[i]]
  <2>2. h \in [0 .. n -> T]
    <3>1. F[n][g[n - 1]] \in T
      OBVIOUS
    <3>2. \A i \in 0 .. n : i = n \/ i \in 0 .. n - 1
      OBVIOUS
    <3>3. QED
      BY <3>1, <3>2
  <2>3. \A i \in 0 .. n : h[i] = IF i = n THEN F[n][g[n - 1]] ELSE g[i]
    OBVIOUS
  <2> HIDE DEF h
  <2>4. ASSUME NEW i \in 1 .. n PROVE h[i] = F[i][h[i - 1]]
    <3>1. h[i - 1] = g[i - 1]
      BY <2>3
    <3>2. QED
      BY <2>1, <2>3, <3>1
  <2>5. h[0] = t
    BY <2>1, <2>3
  <2>6. QED
    BY <2>2, <2>4, <2>5
<1>3. 0 .. N \subseteq Done
  <2> HIDE DEF Done
  <2>1. QED
    BY <1>1, <1>2, Upwards
<1>4. N \in Done
  BY <1>3
<1>5. QED
  BY <1>4 DEF Unfolds

\* From 0 to N the functions start alike and go on alike.
Alike(g, h, N) ==
  g[0] = h[0] /\ \A n \in 1 .. N : g[n - 1] = h[n - 1] => g[n] = h[n]

LEMMA Unique ==
  ASSUME NEW N \in Nat, NEW g, NEW h, Alike(g, h, N)
  PROVE  \A n \in 0 .. N : g[n] = h[n]
<1> DEFINE S == {n \in 0 .. N : g[n] = h[n]}
<1>1. 0 \in S /\ \A n \in 1 .. N : n - 1 \in S => n \in S
  BY DEF Alike
<1>2. 0 .. N \subseteq S
  <2> HIDE DEF S
  <2>1. QED
    BY <1>1, Upwards
<1>3. QED
  BY <1>2

\* f holds the products of the first elements of s.
Products(f, s) ==
  /\ f \in [0 .. Len(s) -> Nat]
  /\ f[0] = 1
  /\ \A i \in 1 .. Len(s) : f[i] = f[i - 1] * s[i]

\* prod multiplies one element after the other.
LEMMA ProdIs ==
  ASSUME NEW s \in Seq(Nat)
  PROVE  \E f : Products(f, s) /\ prod(s) = f[Len(s)]
<1> DEFINE N == Len(s)
<1> DEFINE Step(g) == [n \in 0 .. N |-> IF n = 0 THEN 1 ELSE g[n - 1] * s[n]]
<1> DEFINE F == [n \in 1 .. N |-> [x \in Nat |-> x * s[n]]]
<1>1. N \in Nat /\ \A i \in 1 .. N : s[i] \in Nat
  OBVIOUS
<1>2. F \in [1 .. N -> [Nat -> Nat]]
  <2>1. \A n \in 1 .. N : \A x \in Nat : x * s[n] \in Nat
    BY <1>1
  <2>2. QED
    BY <2>1
<1>3. \A n \in 1 .. N : \A x \in Nat : F[n][x] = x * s[n]
  OBVIOUS
<1>4. PICK g \in [0 .. N -> Nat] : g[0] = 1 /\ \A n \in 1 .. N : g[n] = F[n][g[n - 1]]
  <2>1. N \in Nat /\ 1 \in Nat
    BY <1>1
  <2> HIDE DEF F, N
  <2>2. \E h : Unfolds(h, N, Nat, 1, F)
    BY <1>2, <2>1, Recursion
  <2>3. QED
    BY <2>2 DEF Unfolds
<1>5. \A n \in 1 .. N : g[n] = g[n - 1] * s[n]
  <2>1. \A n \in 1 .. N : g[n - 1] \in Nat
    BY <1>1
  <2> HIDE DEF F
  <2>2. QED
    BY <1>3, <1>4, <2>1
<1> HIDE DEF F
<1>6. g = Step(g)
  BY <1>4, <1>5
<1> DEFINE G == CHOOSE G : G = Step(G)
<1>7. G = Step(G)
  BY <1>6
<1>8. prod(s) = G[N]
  BY DEF prod
<1> HIDE DEF G
<1>9. \A n \in 0 .. N : G[n] = IF n = 0 THEN 1 ELSE G[n - 1] * s[n]
  BY <1>7
<1>10. \A n \in 0 .. N : G[n] = g[n]
  <2>1. Alike(G, g, N)
    BY <1>1, <1>4, <1>5, <1>9 DEF Alike
  <2>2. N \in Nat
    BY <1>1
  <2> HIDE DEF N
  <2>3. QED
    BY <2>1, <2>2, Unique
<1>11. Products(g, s) /\ prod(s) = g[N]
  BY <1>1, <1>4, <1>5, <1>8, <1>10 DEF Products
<1>12. QED
  BY <1>11

\* The product of a first part of a sequence.
LEMMA FirstPart ==
  ASSUME NEW s \in Seq(Nat), NEW f, Products(f, s), NEW k \in 0 .. Len(s),
         NEW u \in Seq(Nat), Len(u) = k, \A i \in 1 .. k : u[i] = s[i]
  PROVE  prod(u) = f[k]
<1>1. PICK g : Products(g, u) /\ prod(u) = g[k]
  BY ProdIs
<1>2. k \in Nat /\ Len(s) \in Nat /\ k <= Len(s)
  OBVIOUS
<1>3. g[0] = f[0]
  BY <1>1 DEF Products
<1>4. \A i \in 1 .. k : g[i - 1] = f[i - 1] => g[i] = f[i]
  <2>1. SUFFICES ASSUME NEW i \in 1 .. k, g[i - 1] = f[i - 1] PROVE g[i] = f[i]
    OBVIOUS
  <2>2. i \in 1 .. Len(s) /\ i \in 1 .. Len(u) /\ u[i] = s[i]
    BY <1>2
  <2>3. g[i] = g[i - 1] * u[i] /\ f[i] = f[i - 1] * s[i]
    BY <1>1, <2>2 DEF Products
  <2>4. QED
    BY <2>1, <2>2, <2>3
<1>5. \A n \in 0 .. k : g[n] = f[n]
  <2>1. k \in Nat /\ Alike(g, f, k)
    BY <1>2, <1>3, <1>4 DEF Alike
  <2>2. QED
    BY <2>1, Unique
<1>6. g[k] = f[k]
  BY <1>2, <1>5
<1>7. QED
  BY <1>1, <1>6

LEMMA FirstProducts ==
  ASSUME NEW s \in Seq(Nat), NEW f, Products(f, s), NEW k \in 0 .. Len(s)
  PROVE  prod(SubSeq(s, 1, k)) = f[k]
<1>1. /\ SubSeq(s, 1, k) \in Seq(Nat) /\ Len(SubSeq(s, 1, k)) = k
      /\ \A i \in 1 .. k : SubSeq(s, 1, k)[i] = s[i]
  OBVIOUS
<1>2. QED
  BY <1>1, FirstPart

\* No factor of a product is zero unless the product is.
LEMMA Factors ==
  ASSUME NEW s \in Seq(Nat), NEW f, Products(f, s)
  PROVE  /\ f[Len(s)] > 0 => \A k \in 0 .. Len(s) : f[k] > 0
         /\ f[Len(s)] > 0 <=> \A k \in 1 .. Len(s) : s[k] > 0
<1> DEFINE N == Len(s)
<1>1. N \in Nat /\ \A k \in 1 .. N : s[k] \in Nat
  OBVIOUS
<1>2. \A k \in 0 .. N : f[k] \in Nat
  BY DEF Products
<1>3. \A k \in 1 .. N : f[k] = f[k - 1] * s[k]
  BY DEF Products
<1>4. ASSUME NEW k \in 1 .. N PROVE f[k] > 0 <=> f[k - 1] > 0 /\ s[k] > 0
  <2>1. PICK x \in Nat, y \in Nat : x = f[k - 1] /\ y = s[k] /\ f[k] = x * y
    <3>1. f[k - 1] \in Nat /\ s[k] \in Nat /\ f[k] = f[k - 1] * s[k]
      BY <1>1, <1>2, <1>3
    <3>2. QED
      BY <3>1
  <2>2. x = 0 \/ y = 0 => x * y = 0
    OBVIOUS
  <2>3. x > 0 /\ y > 0 => x * y > 0
    OBVIOUS
  <2>4. QED
    BY <2>1, <2>2, <2>3
<1>5. ASSUME f[N] > 0 PROVE \A k \in 0 .. N : f[k] > 0
  <2> DEFINE S == {j \in 0 .. N : f[N - j] > 0}
  <2>1. 0 \in S
    BY <1>1, <1>5
  <2>2. ASSUME NEW j \in 1 .. N, j - 1 \in S PROVE j \in S
    <3>1. N - j + 1 \in 1 .. N /\ N - (j - 1) = N - j + 1 /\ (N - j + 1) - 1 = N - j
      BY <1>1
    <3>2. f[N - j + 1] > 0
      BY <2>2, <3>1
    <3>3. f[N - j] > 0
      BY <1>4, <3>1, <3>2
    <3>4. QED
      BY <3>3
  <2>3. 0 .. N \subseteq S
    <3> HIDE DEF S
    <3>1. QED
      BY <1>1, <2>1, <2>2, Upwards
  <2>4. ASSUME NEW k \in 0 .. N PROVE f[k] > 0
    <3>1. N - k \in 0 .. N /\ N - (N - k) = k
      BY <1>1
    <3>2. QED
      BY <2>3, <3>1
  <2>5. QED
    BY <2>4
<1>6. ASSUME \A k \in 1 .. N : s[k] > 0 PROVE f[N] > 0
  <2> DEFINE S == {j \in 0 .. N : f[j] > 0}
  <2>1. 0 \in S
    BY <1>1 DEF Products
  <2>2. ASSUME NEW j \in 1 .. N, j - 1 \in S PROVE j \in S
    BY <1>4, <1>6, <2>2
  <2>3. 0 .. N \subseteq S
    <3> HIDE DEF S
    <3>1. QED
      BY <1>1, <2>1, <2>2, Upwards
  <2>4. QED
    BY <1>1, <2>3
<1>7. f[N] > 0 => \A k \in 1 .. N : s[k] > 0
  BY <1>4, <1>5
<1>8. QED
  BY <1>5, <1>6, <1>7

-----------------------------------------------------------------------------
(* Division *)

\* Multiplication with a natural number is monotonic.
LEMMA Times ==
  ASSUME NEW a \in Int, NEW b \in Int, NEW n \in Nat, a <= b
  PROVE  a * n <= b * n
<1>1. b * n = a * n + (b - a) * n /\ (b - a) * n >= 0 /\ a * n \in Int
  OBVIOUS
<1>2. QED
  BY <1>1

\* What quotient and remainder are.
LEMMA Quotient ==
  ASSUME NEW x \in Nat, NEW n \in Nat \ {0}
  PROVE  x \div n \in Nat /\ (x \div n) * n <= x /\ x < (x \div n + 1) * n
<1>1. x % n \in 0 .. n - 1 /\ x = n * (x \div n) + (x % n) /\ x \div n \in Int
  OBVIOUS
<1>2. PICK d \in Int, e \in 0 .. n - 1 : d = x \div n /\ e = x % n /\ x = n * d + e
  BY <1>1
<1>3. d * n = n * d /\ (d + 1) * n = n * d + n /\ n * d \in Int
  OBVIOUS
<1>4. d * n <= x /\ x < (d + 1) * n
  BY <1>2, <1>3
<1>5. d >= 0
  <2>1. CASE d + 1 <= 0
    <3>1. (d + 1) * n <= 0 * n
      BY <2>1, Times
    <3>2. QED
      BY <1>4, <3>1
  <2>2. QED
    BY <2>1
<1>6. QED
  BY <1>2, <1>4, <1>5

\* Only the quotient lies so.
LEMMA QuotientIs ==
  ASSUME NEW x \in Nat, NEW n \in Nat \ {0}, NEW d \in Nat, d * n <= x, x < (d + 1) * n
  PROVE  x \div n = d
<1>1. PICK e \in Nat : e = x \div n /\ e * n <= x /\ x < (e + 1) * n
  BY Quotient
<1>2. d * n \in Int /\ e * n \in Int /\ (d + 1) * n \in Int /\ (e + 1) * n \in Int
  OBVIOUS
<1>3. ~ (d + 1 <= e)
  <2>1. SUFFICES ASSUME d + 1 <= e PROVE FALSE
    OBVIOUS
  <2>2. (d + 1) * n <= e * n
    BY <2>1, Times
  <2>3. QED
    BY <1>1, <1>2, <2>2
<1>4. ~ (e + 1 <= d)
  <2>1. SUFFICES ASSUME e + 1 <= d PROVE FALSE
    OBVIOUS
  <2>2. (e + 1) * n <= d * n
    BY <2>1, Times
  <2>3. QED
    BY <1>1, <1>2, <2>2
<1>5. QED
  BY <1>1, <1>3, <1>4

\* The quotient and the remainder of a sum of multiples and a rest.
Composed(x, n, d, e) == x = e + n * d
Splits(x, n, d, e) == x \div n = d /\ (x % n) = e

LEMMA RemainderIs ==
  ASSUME NEW x, NEW d \in Nat, NEW n \in Nat \ {0}, NEW e \in 0 .. n - 1, Composed(x, n, d, e)
  PROVE  Splits(x, n, d, e)
<1>0. x = e + n * d
  BY DEF Composed
<1>1. PICK y \in Nat : y = n * d /\ d * n = y /\ (d + 1) * n = y + n
  <2>1. n * d \in Nat /\ d * n = n * d /\ (d + 1) * n = n * d + n
    OBVIOUS
  <2>2. QED
    BY <2>1
<1>2. e + y \in Nat /\ d * n <= e + y /\ e + y < (d + 1) * n
  BY <1>1
<1>3. (e + y) \div n = d
  BY <1>2, QuotientIs
<1>4. e + y = n * ((e + y) \div n) + ((e + y) % n) /\ (e + y) % n \in Int
  BY <1>2
<1>5. e + y = n * d + ((e + y) % n)
  BY <1>3, <1>4
<1>6. (e + y) % n = e
  BY <1>1, <1>4, <1>5
<1>7. QED
  BY <1>0, <1>1, <1>3, <1>6 DEF Splits

\* A quotient, divided once more.
LEMMA NestedQuotient ==
  ASSUME NEW w \in Nat, NEW a \in Nat \ {0}, NEW b \in Nat \ {0}
  PROVE  w \div a = b * (w \div (a * b)) + ((w \div a) % b)
<1>1. PICK q \in Nat : q = w \div a /\ q * a <= w /\ w < (q + 1) * a
  BY Quotient
<1>2. PICK u \in Nat : u = q \div b /\ u * b <= q /\ q < (u + 1) * b
  BY Quotient
<1>3. PICK n \in Nat \ {0} : n = a * b
  <2>1. a * b \in Nat /\ a * b # 0
    BY SMT
  <2>2. QED
    BY <2>1
<1>4. q = b * u + (q % b)
  BY <1>2
<1>5. w \div n = u
  <2>1. u * n <= w
    <3>1. (u * b) * a <= q * a
      <4>1. u * b \in Int /\ q \in Int /\ a \in Nat
        OBVIOUS
      <4>2. QED
        BY <1>2, <4>1, Times
    <3>2. (u * b) * a = u * n /\ u * n \in Int /\ q * a \in Int
      BY <1>3
    <3>3. QED
      BY <1>1, <3>1, <3>2
  <2>2. w < (u + 1) * n
    <3>1. (q + 1) * a <= ((u + 1) * b) * a
      <4>1. (u + 1) * b \in Int /\ q + 1 \in Int /\ a \in Nat /\ q + 1 <= (u + 1) * b
        BY <1>2
      <4>2. QED
        BY <4>1, Times
    <3>2. ((u + 1) * b) * a = (u + 1) * n /\ (u + 1) * n \in Int /\ (q + 1) * a \in Int
      BY <1>3
    <3>3. QED
      BY <1>1, <3>1, <3>2
  <2>3. QED
    BY <2>1, <2>2, QuotientIs
<1>6. QED
  BY <1>1, <1>2, <1>3, <1>4, <1>5

\* A digit x below v, put before a number a below b.
LEMMA DigitBelow ==
  ASSUME NEW a \in Nat, NEW b \in Nat, NEW x \in Nat, NEW v \in Nat, a < b, x < v
  PROVE  a + x * b < b * v
<1>1. (x + 1) * b <= v * b
  <2>1. x + 1 \in Int /\ v \in Int /\ x + 1 <= v
    OBVIOUS
  <2>2. QED
    BY <2>1, Times
<1>2. (x + 1) * b = x * b + b /\ v * b = b * v /\ b * v \in Nat /\ x * b \in Nat
  OBVIOUS
<1>3. QED
  BY <1>1, <1>2

\* A multiple of b * v after a digit x is a multiple of b.
Shifts(a, b, x, v, m) ==
  \E w \in Nat : w = x + v * m /\ (a + x * b) + (b * v) * m = a + b * w

LEMMA DigitShift ==
  ASSUME NEW a \in Nat, NEW b \in Nat, NEW x \in Nat, NEW v \in Nat, NEW m \in Nat
  PROVE  Shifts(a, b, x, v, m)
<1>1. PICK w \in Nat : w = v * m
  OBVIOUS
<1>2. (b * v) * m = b * w
  BY <1>1
<1>3. b * (x + w) = x * b + b * w /\ x * b \in Nat /\ b * w \in Nat
  OBVIOUS
<1>4. x + v * m \in Nat /\ (a + x * b) + (b * v) * m = a + b * (x + v * m)
  BY <1>1, <1>2, <1>3
<1>5. QED
  BY <1>4, Zenon DEF Shifts

-----------------------------------------------------------------------------
(* Positions and places *)

\* The indices below a shape.
Box(s) == {i \in Seq(Nat) : Len(i) = Len(s) /\ \A k \in 1 .. Len(s) : i[k] < s[k]}

Space ==
  {is \in [shape : Seq(Nat), offset : Nat, stride0 : Nat, stride : Seq(Nat), allocated : Nat] :
     Len(is.stride) = Len(is.shape)}

\* The sums that make the place of an index, dimension by dimension.
Places(L, is, i) ==
  /\ L \in [0 .. Len(i) -> Nat]
  /\ L[0] = is.offset
  /\ \A k \in 1 .. Len(i) : L[k] = L[k - 1] + i[k] * stride(is, k - 1)

LEMMA StrideType ==
  ASSUME NEW is \in Space, NEW k \in 1 .. Len(is.shape)
  PROVE  stride(is, k - 1) \in Nat
<1>1. is.stride \in Seq(Nat) /\ is.stride0 \in Nat /\ Len(is.stride) = Len(is.shape)
  BY DEF Space
<1>2. Len(is.shape) \in Nat
  BY DEF Space
<1>3. CASE k = 1
  <2>1. is.stride[1] \in Nat /\ stride(is, k - 1) = Least(is.stride0, is.stride[1])
    BY <1>1, <1>2, <1>3 DEF stride, rank
  <2>2. QED
    BY <1>1, <2>1 DEF Least
<1>4. CASE k # 1
  <2>1. k - 1 > 0 /\ k - 1 \in 1 .. Len(is.stride)
    BY <1>1, <1>2, <1>4
  <2>2. stride(is, k - 1) = is.stride[k - 1]
    BY <2>1 DEF stride
  <2>3. QED
    BY <1>1, <2>1, <2>2
<1>5. QED
  BY <1>3, <1>4

\* linear adds one dimension after the other.
LEMMA LinearIs ==
  ASSUME NEW is \in Space, NEW i \in Seq(Nat), Len(i) = Len(is.shape)
  PROVE  \E L : Places(L, is, i) /\ linear(is, i) = L[Len(i)]
<1> DEFINE N == Len(i)
<1> DEFINE Step(g) == [d \in 0 .. N |->
                         IF d = 0 THEN is.offset ELSE g[d - 1] + i[d] * stride(is, d - 1)]
<1> DEFINE F == [d \in 1 .. N |-> [x \in Nat |-> x + i[d] * stride(is, d - 1)]]
<1>1. N \in Nat /\ is.offset \in Nat
  BY DEF Space
<1>2. \A d \in 1 .. N : i[d] * stride(is, d - 1) \in Nat
  <2>1. ASSUME NEW d \in 1 .. N PROVE i[d] * stride(is, d - 1) \in Nat
    <3>1. i[d] \in Nat /\ stride(is, d - 1) \in Nat
      BY StrideType
    <3>2. QED
      BY <3>1
  <2>2. QED
    BY <2>1
<1>3. F \in [1 .. N -> [Nat -> Nat]]
  <2>1. \A d \in 1 .. N : \A x \in Nat : x + i[d] * stride(is, d - 1) \in Nat
    BY <1>2
  <2>2. QED
    BY <2>1
<1>4. \A d \in 1 .. N : \A x \in Nat : F[d][x] = x + i[d] * stride(is, d - 1)
  OBVIOUS
<1>5. PICK g : Unfolds(g, N, Nat, is.offset, F)
  <2> HIDE DEF F, N
  <2>1. QED
    BY <1>1, <1>3, Recursion
<1>6. Places(g, is, i)
  <2>1. \A d \in 1 .. N : g[d - 1] \in Nat
    BY <1>1, <1>5 DEF Unfolds
  <2> HIDE DEF F
  <2>2. QED
    BY <1>4, <1>5, <2>1 DEF Unfolds, Places
<1>7. g = Step(g)
  <2> HIDE DEF F
  <2>1. g \in [0 .. N -> Nat] /\ g[0] = is.offset
        /\ \A d \in 1 .. N : g[d] = g[d - 1] + i[d] * stride(is, d - 1)
    BY <1>6 DEF Places
  <2>2. QED
    BY <2>1
<1> HIDE DEF F
<1> DEFINE G == CHOOSE G : G = Step(G)
<1>8. G = Step(G)
  BY <1>7
<1>9. linear(is, i) = G[N]
  BY DEF linear
<1> HIDE DEF G
<1>10. \A d \in 0 .. N : G[d] = IF d = 0 THEN is.offset ELSE G[d - 1] + i[d] * stride(is, d - 1)
  BY <1>8
<1>11. Alike(G, g, N)
  BY <1>1, <1>6, <1>10 DEF Alike, Places
<1>12. G[N] = g[N]
  <2>1. \A d \in 0 .. N : G[d] = g[d]
    <3> HIDE DEF N
    <3>1. QED
      BY <1>1, <1>11, Unique
  <2>2. QED
    BY <1>1, <2>1
<1>13. QED
  BY <1>6, <1>9, <1>12

\* loop in terms of the products of the shape.
LEMMA LoopIs ==
  ASSUME NEW is \in Space, NEW f, Products(f, is.shape)
  PROVE  /\ size(is) = f[Len(is.shape)]
         /\ loop(is) = [n \in 1 .. f[Len(is.shape)] |->
                          [k \in 1 .. Len(is.shape) |->
                             (((n - 1) \div f[k - 1]) % is.shape[k])]]
<1>1. is.shape \in Seq(Nat) /\ Len(is.shape) \in Nat /\ DOMAIN is.shape = 1 .. Len(is.shape)
  BY DEF Space
<1>2. \A k \in 0 .. Len(is.shape) : prod(SubSeq(is.shape, 1, k)) = f[k]
  BY <1>1, FirstProducts
<1>3. prod(is.shape) = f[Len(is.shape)]
  <2>1. prod(SubSeq(is.shape, 1, Len(is.shape))) = f[Len(is.shape)]
    BY <1>1, <1>2
  <2>2. SubSeq(is.shape, 1, Len(is.shape)) = is.shape
    BY <1>1, SubSeqFull
  <2>3. QED
    BY <2>1, <2>2
<1>4. \A k \in 1 .. Len(is.shape) : prod(SubSeq(is.shape, 1, k - 1)) = f[k - 1]
  <2>1. \A k \in 1 .. Len(is.shape) : k - 1 \in 0 .. Len(is.shape)
    BY <1>1
  <2>2. QED
    BY <1>2, <2>1
<1>5. QED
  BY <1>1, <1>3, <1>4 DEF loop, size

\* An index is made of the digits of the sum of its multiples of products.
LEMMA Digits ==
  ASSUME NEW s \in Seq(Nat), NEW f, Products(f, s), NEW i \in Box(s),
         NEW L \in [0 .. Len(s) -> Nat], L[0] = 0,
         \A k \in 1 .. Len(s) : L[k] = L[k - 1] + i[k] * f[k - 1]
  PROVE  /\ L[Len(s)] < f[Len(s)]
         /\ \A k \in 1 .. Len(s) : ((L[Len(s)] \div f[k - 1]) % s[k]) = i[k]
<1> DEFINE N == Len(s)
<1>1. N \in Nat /\ \A k \in 1 .. N : s[k] \in Nat /\ i[k] \in Nat /\ i[k] < s[k]
  BY DEF Box
<1>2. \A k \in 0 .. N : f[k] \in Nat /\ f[k] > 0 /\ L[k] \in Nat
  <2>1. \A k \in 1 .. N : s[k] > 0
    BY <1>1
  <2>2. QED
    BY <2>1, Factors DEF Products
<1>3. ASSUME NEW k \in 1 .. N
      PROVE  /\ k - 1 \in 0 .. N /\ L[k - 1] \in Nat /\ f[k - 1] \in Nat /\ f[k - 1] > 0
             /\ i[k] \in Nat /\ s[k] \in Nat /\ i[k] < s[k]
             /\ L[k] = L[k - 1] + i[k] * f[k - 1] /\ f[k] = f[k - 1] * s[k]
  <2>1. k - 1 \in 0 .. N
    BY <1>1
  <2>2. L[k - 1] \in Nat /\ f[k - 1] \in Nat /\ f[k - 1] > 0
    BY <1>2, <2>1
  <2>3. i[k] \in Nat /\ s[k] \in Nat /\ i[k] < s[k]
    BY <1>1
  <2>4. L[k] = L[k - 1] + i[k] * f[k - 1] /\ f[k] = f[k - 1] * s[k]
    BY DEF Products
  <2>5. QED
    BY <2>1, <2>2, <2>3, <2>4
<1>4. \A k \in 0 .. N : L[k] < f[k]
  <2> DEFINE S == {k \in 0 .. N : L[k] < f[k]}
  <2>1. 0 \in S
    BY <1>1 DEF Products
  <2>2. ASSUME NEW k \in 1 .. N, k - 1 \in S PROVE k \in S
    <3>1. L[k - 1] < f[k - 1]
      BY <2>2
    <3>2. L[k - 1] + i[k] * f[k - 1] < f[k - 1] * s[k]
      BY <1>3, <3>1, DigitBelow
    <3>3. QED
      BY <1>3, <3>2
  <2>3. 0 .. N \subseteq S
    <3> HIDE DEF S
    <3>1. QED
      BY <1>1, <2>1, <2>2, Upwards
  <2>4. QED
    BY <2>3
<1>5. \A k \in 0 .. N : \E m \in Nat : L[N] = L[k] + f[k] * m
  <2> DEFINE S == {j \in 0 .. N : \E m \in Nat : L[N] = L[N - j] + f[N - j] * m}
  <2>1. 0 \in S
    <3>1. N - 0 = N /\ L[N] \in Nat /\ f[N] \in Nat
      BY <1>1, <1>2
    <3>2. f[N] * 0 = 0
      BY <3>1
    <3>3. QED
      BY <1>1, <3>1, <3>2
  <2>2. ASSUME NEW j \in 1 .. N, j - 1 \in S PROVE j \in S
    <3>1. N - j + 1 \in 1 .. N /\ N - (j - 1) = N - j + 1 /\ (N - j + 1) - 1 = N - j
      BY <1>1
    <3>2. PICK k : k \in 1 .. N /\ N - (j - 1) = k /\ k - 1 = N - j
      BY <3>1
    <3>3. PICK m \in Nat : L[N] = L[k] + f[k] * m
      BY <2>2, <3>2
    <3>4. PICK w \in Nat : (L[k - 1] + i[k] * f[k - 1]) + (f[k - 1] * s[k]) * m = L[k - 1] + f[k - 1] * w
      <4>1. L[k - 1] \in Nat /\ f[k - 1] \in Nat /\ i[k] \in Nat /\ s[k] \in Nat
        BY <1>3, <3>2
      <4>2. Shifts(L[k - 1], f[k - 1], i[k], s[k], m)
        BY <3>3, <4>1, DigitShift
      <4>3. QED
        BY <4>2 DEF Shifts
    <3>5. L[N] = L[N - j] + f[N - j] * w
      BY <1>3, <3>2, <3>3, <3>4
    <3>6. QED
      BY <3>5
  <2>3. 0 .. N \subseteq S
    <3> HIDE DEF S
    <3>1. QED
      BY <1>1, <2>1, <2>2, Upwards
  <2>4. ASSUME NEW k \in 0 .. N PROVE \E m \in Nat : L[N] = L[k] + f[k] * m
    <3>1. N - k \in 0 .. N /\ N - (N - k) = k
      BY <1>1
    <3>2. N - k \in S
      BY <2>3, <3>1
    <3>3. QED
      BY <3>1, <3>2
  <2>5. QED
    BY <2>4
<1>6. ASSUME NEW k \in 1 .. N PROVE ((L[N] \div f[k - 1]) % s[k]) = i[k]
  <2>1. k \in 0 .. N
    OBVIOUS
  <2>2. PICK m \in Nat : L[N] = L[k] + f[k] * m
    BY <1>5, <2>1
  <2>3. PICK w \in Nat :
           /\ w = i[k] + s[k] * m
           /\ (L[k - 1] + i[k] * f[k - 1]) + (f[k - 1] * s[k]) * m = L[k - 1] + f[k - 1] * w
    <3>1. L[k - 1] \in Nat /\ f[k - 1] \in Nat /\ i[k] \in Nat /\ s[k] \in Nat
      BY <1>3
    <3>2. Shifts(L[k - 1], f[k - 1], i[k], s[k], m)
      BY <2>2, <3>1, DigitShift
    <3>3. QED
      BY <3>2 DEF Shifts
  <2>4. L[N] = L[k - 1] + f[k - 1] * w
    BY <1>3, <2>2, <2>3
  <2>5. f[k - 1] \in Nat \ {0} /\ L[k - 1] \in 0 .. f[k - 1] - 1
    <3>1. L[k - 1] < f[k - 1] /\ L[k - 1] \in Nat /\ f[k - 1] \in Nat /\ f[k - 1] > 0
      BY <1>3, <1>4
    <3>2. QED
      BY <3>1
  <2>6. L[N] \div f[k - 1] = w
    <3>1. Composed(L[N], f[k - 1], w, L[k - 1])
      BY <2>4 DEF Composed
    <3>2. Splits(L[N], f[k - 1], w, L[k - 1])
      BY <2>5, <3>1, RemainderIs
    <3>3. QED
      BY <3>2 DEF Splits
  <2>7. s[k] \in Nat \ {0} /\ i[k] \in 0 .. s[k] - 1
    BY <1>3
  <2>8. (w % s[k]) = i[k]
    <3>1. Composed(w, s[k], m, i[k])
      BY <2>3 DEF Composed
    <3>2. Splits(w, s[k], m, i[k])
      BY <2>7, <3>1, RemainderIs
    <3>3. QED
      BY <3>2 DEF Splits
  <2>9. QED
    BY <2>6, <2>8
<1>7. QED
  BY <1>1, <1>4, <1>6

\* A new grid has a space of its own.
LEMMA NewSpace ==
  ASSUME NEW s \in Seq(Nat), NEW f, Products(f, s)
  PROVE  /\ index_space(s) \in Space
         /\ index_space(s).shape = s /\ index_space(s).offset = 0 /\ index_space(s).stride0 = 1
         /\ \A k \in 1 .. Len(s) : index_space(s).stride[k] = f[k]
         /\ index_space(s).allocated = f[Len(s)]
<1>1. Len(s) \in Nat /\ DOMAIN s = 1 .. Len(s)
  OBVIOUS
<1>2. \A k \in 0 .. Len(s) : prod(SubSeq(s, 1, k)) = f[k]
  BY FirstProducts
<1>3. make_stride(s) = [k \in 1 .. Len(s) |-> f[k]]
  BY <1>1, <1>2 DEF make_stride
<1>4. \A k \in 0 .. Len(s) : f[k] \in Nat
  BY DEF Products
<1>5. make_stride(s) \in Seq(Nat) /\ Len(make_stride(s)) = Len(s)
  BY <1>1, <1>3, <1>4
<1>6. prod(s) = f[Len(s)]
  <2>1. prod(SubSeq(s, 1, Len(s))) = f[Len(s)]
    BY <1>1, <1>2
  <2>2. SubSeq(s, 1, Len(s)) = s
    BY SubSeqFull
  <2>3. QED
    BY <2>1, <2>2
<1>7. prod(s) \in Nat
  BY <1>1, <1>4, <1>6
<1>8. QED
  BY <1>3, <1>5, <1>6, <1>7 DEF index_space, Space

\* The strides of a new grid, from the innermost dimension on.
LEMMA NewStrides ==
  ASSUME NEW s \in Seq(Nat), NEW f, Products(f, s), \A k \in 1 .. Len(s) : s[k] > 0,
         NEW k \in 1 .. Len(s)
  PROVE  stride(index_space(s), k - 1) = f[k - 1]
<1> DEFINE is == index_space(s)
<1>1. Len(s) \in Nat /\ k - 1 \in 0 .. Len(s) /\ (k # 1 => k - 1 \in 1 .. Len(s) /\ k - 1 > 0)
  OBVIOUS
<1>2. is.shape = s /\ is.stride0 = 1 /\ \A j \in 1 .. Len(s) : is.stride[j] = f[j]
  BY NewSpace
<1>3. \A j \in 0 .. Len(s) : f[j] \in Nat /\ f[j] > 0
  BY Factors DEF Products
<1> HIDE DEF is
<1>4. CASE k = 1
  <2>1. stride(is, k - 1) = Least(1, f[1])
    BY <1>1, <1>2, <1>4 DEF stride, rank
  <2>2. f[1] \in Nat /\ f[1] > 0
    BY <1>3, <1>4
  <2>3. f[k - 1] = 1
    BY <1>4 DEF Products
  <2>4. QED
    BY <2>1, <2>2, <2>3 DEF Least, is
<1>5. CASE k # 1
  <2>1. stride(is, k - 1) = is.stride[k - 1]
    BY <1>1, <1>5 DEF stride
  <2>2. QED
    BY <1>1, <1>2, <1>5, <2>1 DEF is
<1>6. QED
  BY <1>4, <1>5

\* In a new grid the place of a position is its number in the loop, and every
\* position has a number.
LEMMA NewPlaces ==
  ASSUME NEW s \in Seq(Nat), NEW i \in Box(s), NEW is \in Space, is.shape = s
  PROVE  /\ linear(index_space(s), i) \in 0 .. size(is) - 1
         /\ loop(is)[linear(index_space(s), i) + 1] = i
<1>1. PICK f : Products(f, s)
  BY ProdIs
<1>2. /\ Len(s) \in Nat /\ i \in Seq(Nat) /\ Len(i) = Len(s)
      /\ \A k \in 1 .. Len(s) : i[k] \in Nat /\ s[k] \in Nat /\ i[k] < s[k]
  <2>1. i \in Seq(Nat) /\ Len(i) = Len(s) /\ \A k \in 1 .. Len(s) : i[k] < s[k]
    BY DEF Box
  <2>2. \A k \in 1 .. Len(s) : i[k] \in Nat /\ s[k] \in Nat
    BY <2>1
  <2>3. QED
    BY <2>1, <2>2
<1>3. \A k \in 1 .. Len(s) : s[k] > 0
  BY <1>2
<1>4. index_space(s) \in Space /\ index_space(s).shape = s /\ index_space(s).offset = 0
  BY <1>1, NewSpace
<1>5. PICK L : Places(L, index_space(s), i) /\ linear(index_space(s), i) = L[Len(s)]
  BY <1>2, <1>4, LinearIs
<1>6. L \in [0 .. Len(s) -> Nat] /\ L[0] = 0
  BY <1>2, <1>4, <1>5 DEF Places
<1>7. \A k \in 1 .. Len(s) : L[k] = L[k - 1] + i[k] * f[k - 1]
  <2>1. ASSUME NEW k \in 1 .. Len(s) PROVE L[k] = L[k - 1] + i[k] * f[k - 1]
    <3>1. stride(index_space(s), k - 1) = f[k - 1]
      BY <1>1, <1>3, NewStrides
    <3>2. L[k] = L[k - 1] + i[k] * stride(index_space(s), k - 1)
      BY <1>2, <1>5 DEF Places
    <3>3. QED
      BY <3>1, <3>2
  <2>2. QED
    BY <2>1
<1>8. /\ L[Len(s)] < f[Len(s)]
      /\ \A k \in 1 .. Len(s) : ((L[Len(s)] \div f[k - 1]) % s[k]) = i[k]
  BY <1>1, <1>6, <1>7, Digits
<1>9. PICK m \in Nat : m = L[Len(s)]
  BY <1>2, <1>6
<1>10. f[Len(s)] \in Nat
  BY <1>1, <1>2 DEF Products
<1>11. /\ size(is) = f[Len(s)]
       /\ loop(is) = [n \in 1 .. f[Len(s)] |->
                        [k \in 1 .. Len(s) |-> (((n - 1) \div f[k - 1]) % s[k])]]
  BY <1>1, LoopIs
<1>12. m + 1 \in 1 .. f[Len(s)] /\ (m + 1) - 1 = m
  BY <1>8, <1>9, <1>10
<1>13. loop(is)[m + 1] = [k \in 1 .. Len(s) |-> ((m \div f[k - 1]) % s[k])]
  BY <1>11, <1>12
<1>14. loop(is)[m + 1] = [k \in 1 .. Len(s) |-> i[k]]
  BY <1>8, <1>9, <1>13
<1>15. i = [k \in 1 .. Len(s) |-> i[k]]
  BY <1>2
<1>16. m \in 0 .. size(is) - 1
  BY <1>8, <1>9, <1>10, <1>11
<1>17. QED
  BY <1>5, <1>9, <1>14, <1>15, <1>16

\* What the loop enumerates are the indices below the shape.
LEMMA PositionsAre ==
  ASSUME NEW is \in Space
  PROVE  /\ size(is) \in Nat /\ DOMAIN loop(is) = 1 .. size(is)
         /\ Range(loop(is)) = Box(is.shape)
<1> DEFINE s == is.shape
<1>1. s \in Seq(Nat) /\ Len(s) \in Nat
  BY DEF Space
<1> HIDE DEF s
<1>2. PICK f : Products(f, s)
  BY <1>1, ProdIs
<1>3. /\ size(is) = f[Len(s)]
      /\ loop(is) = [n \in 1 .. f[Len(s)] |->
                       [k \in 1 .. Len(s) |-> (((n - 1) \div f[k - 1]) % s[k])]]
  BY <1>2, LoopIs DEF s
<1>4. f[Len(s)] \in Nat
  BY <1>1, <1>2 DEF Products
<1>5. DOMAIN loop(is) = 1 .. size(is)
  BY <1>3
<1>6. ASSUME NEW n \in 1 .. size(is) PROVE loop(is)[n] \in Box(s)
  <2>1. f[Len(s)] > 0
    BY <1>3, <1>4, <1>6
  <2>2. \A k \in 0 .. Len(s) : f[k] \in Nat /\ f[k] > 0
    BY <1>1, <1>2, <2>1, Factors DEF Products
  <2>3. \A k \in 1 .. Len(s) : s[k] \in Nat /\ s[k] > 0
    BY <1>1, <1>2, <2>1, Factors
  <2>4. ASSUME NEW k \in 1 .. Len(s)
        PROVE  (((n - 1) \div f[k - 1]) % s[k]) \in Nat /\ (((n - 1) \div f[k - 1]) % s[k]) < s[k]
    <3>1. f[k - 1] \in Nat \ {0} /\ s[k] \in Nat \ {0}
      BY <1>1, <2>2, <2>3
    <3>2. PICK b \in Nat \ {0}, v \in Nat \ {0}, x \in Int : b = f[k - 1] /\ v = s[k] /\ x = n - 1
      BY <1>3, <1>4, <3>1
    <3>3. x \div b \in Int
      BY <3>2
    <3>4. (x \div b) % v \in 0 .. v - 1
      BY <3>2, <3>3
    <3>5. QED
      BY <3>2, <3>4
  <2>5. loop(is)[n] = [k \in 1 .. Len(s) |-> (((n - 1) \div f[k - 1]) % s[k])]
    BY <1>3
  <2>6. loop(is)[n] \in [1 .. Len(s) -> Nat] /\ \A k \in 1 .. Len(s) : loop(is)[n][k] < s[k]
    BY <2>4, <2>5
  <2>7. loop(is)[n] \in Seq(Nat) /\ Len(loop(is)[n]) = Len(s)
    BY <1>1, <2>6
  <2>8. QED
    BY <2>6, <2>7 DEF Box
<1>7. ASSUME NEW i \in Box(s) PROVE i \in Range(loop(is))
  <2>1. /\ linear(index_space(s), i) \in 0 .. size(is) - 1
        /\ loop(is)[linear(index_space(s), i) + 1] = i
    BY <1>1, NewPlaces DEF s
  <2>2. linear(index_space(s), i) + 1 \in DOMAIN loop(is)
    BY <1>3, <1>4, <1>5, <2>1
  <2>3. QED
    BY <2>1, <2>2 DEF Range
<1>8. Range(loop(is)) = Box(s)
  BY <1>5, <1>6, <1>7 DEF Range
<1>9. QED
  BY <1>3, <1>4, <1>5, <1>8 DEF s

-----------------------------------------------------------------------------
(* Grids *)

\* The field of the grid xs.
Field(xs) == [i \in Box(xs.indexing.shape) |-> getIndex(xs, i)]

\* The data of a vector of size n.
IsArray(data, n) == data = [m \in 1 .. n |-> data[m]]

\* An outer dimension has the larger strides.
Rising(is) ==
  \A k \in 1 .. Len(is.shape) :
    is.stride0 <= is.stride[k] /\ \A j \in 1 .. k : is.stride[j] <= is.stride[k]

\* A whole grid or a view of one: its strides rise, and its positions lie in
\* the data, each at a place of its own.
Sound(xs) ==
  LET is == xs.indexing
      positions == Box(is.shape)
  IN  /\ is \in Space
      /\ IsArray(xs.data, is.allocated)
      /\ positions # {} => Rising(is)
      /\ \A i \in positions : linear(is, i) \in 0 .. is.allocated - 1
      /\ \A i, j \in positions : linear(is, i) = linear(is, j) => i = j

\* The space of a new grid keeps its positions apart.
LEMMA NewSound ==
  ASSUME NEW s \in Seq(Nat), NEW data, IsArray(data, prod(s))
  PROVE  Sound(grid(index_space(s), data))
<1> DEFINE is == index_space(s)
<1>1. PICK f : Products(f, s)
  BY ProdIs
<1>2. /\ is \in Space /\ is.shape = s /\ is.stride0 = 1 /\ is.allocated = prod(s)
      /\ \A k \in 1 .. Len(s) : is.stride[k] = f[k]
  BY <1>1, NewSpace DEF index_space
<1>3. size(is) = is.allocated
  BY <1>2 DEF size
<1>4. Len(s) \in Nat /\ \A k \in 1 .. Len(s) : s[k] \in Nat
  OBVIOUS
<1> HIDE DEF is
<1>5. \A i \in Box(s) : linear(is, i) \in 0 .. is.allocated - 1 /\ loop(is)[linear(is, i) + 1] = i
  BY <1>2, <1>3, NewPlaces DEF is
<1>6. ASSUME Box(s) # {}, NEW k \in 1 .. Len(s)
      PROVE  is.stride0 <= is.stride[k] /\ \A j \in 1 .. k : is.stride[j] <= is.stride[k]
  <2>1. \A j \in 1 .. Len(s) : s[j] > 0
    <3>1. PICK i : i \in Seq(Nat) /\ Len(i) = Len(s) /\ \A j \in 1 .. Len(s) : i[j] < s[j]
      BY <1>6 DEF Box
    <3>2. ASSUME NEW j \in 1 .. Len(s) PROVE s[j] > 0
      <4>1. i[j] \in Nat /\ i[j] < s[j] /\ s[j] \in Nat
        BY <1>4, <3>1
      <4>2. QED
        BY <4>1
    <3>3. QED
      BY <3>2
  <2>2. \A j \in 0 .. Len(s) : f[j] \in Nat /\ f[j] > 0
    BY <1>1, <2>1, Factors DEF Products
  <2>3. ASSUME NEW j \in 1 .. Len(s) PROVE f[j - 1] <= f[j]
    <3>1. j - 1 \in 0 .. Len(s) /\ f[j - 1] \in Nat /\ f[j] = f[j - 1] * s[j] /\ s[j] \in Nat /\ s[j] > 0
      BY <1>1, <1>4, <2>1, <2>2 DEF Products
    <3>2. PICK a \in Nat, b \in Nat : a = f[j - 1] /\ b = s[j] /\ b > 0
      BY <3>1
    <3>3. 1 * a <= b * a /\ b * a = a * b /\ a * b \in Nat
      <4>1. 1 \in Int /\ b \in Int /\ 1 <= b
        BY <3>2
      <4>2. 1 * a <= b * a
        BY <4>1, Times
      <4>3. QED
        BY <4>2
    <3>4. QED
      BY <3>1, <3>2, <3>3
  <2>4. ASSUME NEW j \in 1 .. k PROVE f[j] <= f[k]
    <3> DEFINE S == {d \in 0 .. k - j : f[j] <= f[j + d]}
    <3>1. j \in Nat /\ k \in Nat /\ k - j \in Nat /\ k <= Len(s) /\ j + (k - j) = k /\ j + 0 = j
      BY <1>4
    <3>2. 0 \in S
      BY <2>2, <3>1
    <3>3. ASSUME NEW d \in 1 .. k - j, d - 1 \in S PROVE d \in S
      <4>1. j + d \in 1 .. Len(s) /\ (j + d) - 1 = j + (d - 1)
        BY <1>4, <3>1
      <4>2. f[j + (d - 1)] <= f[j + d]
        BY <2>3, <4>1
      <4>3. f[j] \in Nat /\ f[j + d] \in Nat /\ f[j + (d - 1)] \in Nat
        BY <1>4, <2>2, <3>1, <4>1
      <4>4. QED
        BY <3>3, <4>2, <4>3
    <3>4. 0 .. k - j \subseteq S
      <4> HIDE DEF S
      <4>1. QED
        BY <3>1, <3>2, <3>3, Upwards
    <3>5. k - j \in S
      <4> HIDE DEF S
      <4>1. k - j \in 0 .. k - j
        BY <3>1
      <4>2. QED
        BY <3>4, <4>1
    <3>6. f[j] <= f[j + (k - j)]
      BY <3>5
    <3>7. QED
      BY <3>1, <3>6
  <2>5. f[k] >= 1
    BY <1>4, <2>2
  <2>6. QED
    BY <1>2, <1>4, <2>4, <2>5
<1>7. \A i, j \in Box(s) : linear(is, i) = linear(is, j) => i = j
  BY <1>5
<1>8. QED
  BY <1>2, <1>5, <1>6, <1>7 DEF Sound, Rising, grid, is

\* A grid made by calls of f has at every position what f returns there.
LEMMA Made ==
  ASSUME NEW s \in Seq(Nat), NEW f
  PROVE  /\ Sound(make(s, f)) /\ make(s, f).indexing.shape = s
         /\ Field(make(s, f)) = [i \in Box(s) |-> f[i]]
<1> DEFINE is == index_space(s)
           N == size(is)
           calls == loop(is)
           place(n) == linear(is, calls[n]) + 1
           T == [1 .. N -> {unset} \cup {f[i] : i \in Box(s)}]
           start == [m \in 1 .. N |-> unset]
           Step(g) == [n \in 0 .. N |->
                         IF n = 0 THEN start ELSE [g[n - 1] EXCEPT ![place(n)] = f[calls[n]]]]
           F == [n \in 1 .. N |-> [d \in T |-> [d EXCEPT ![place(n)] = f[calls[n]]]]]
<1>1. is \in Space /\ is.shape = s /\ is.allocated = N
  <2>1. PICK p : Products(p, s)
    BY ProdIs
  <2>2. QED
    BY <2>1, NewSpace DEF index_space, size
<1>2. N \in Nat /\ \A n \in 1 .. N : calls[n] \in Box(s)
  BY <1>1, PositionsAre DEF Range
<1>3. \A i \in Box(s) : linear(is, i) \in 0 .. N - 1 /\ calls[linear(is, i) + 1] = i
  BY <1>1, NewPlaces
<1>4. make(s, f) = grid(is, (CHOOSE g : g = Step(g))[N])
  BY DEF make
<1> HIDE DEF is, N, calls
<1>5. \A n \in 1 .. N : place(n) \in 1 .. N
  BY <1>2, <1>3
<1>6. start \in T
  OBVIOUS
<1>7. \A n \in 1 .. N : \A d \in T : [d EXCEPT ![place(n)] = f[calls[n]]] \in T
  <2>1. \A n \in 1 .. N : f[calls[n]] \in {f[i] : i \in Box(s)}
    BY <1>2
  <2> HIDE DEF place
  <2>2. QED
    BY <2>1
<1>8. F \in [1 .. N -> [T -> T]]
  <2> HIDE DEF T, place
  <2>1. QED
    BY <1>7
<1>9. \A n \in 1 .. N : \A d \in T : F[n][d] = [d EXCEPT ![place(n)] = f[calls[n]]]
  <2> HIDE DEF T, place
  <2>1. QED
    OBVIOUS
<1> HIDE DEF place, T, start, F
<1>10. PICK h : Unfolds(h, N, T, start, F)
  BY <1>2, <1>6, <1>8, Recursion
<1>11. h \in [0 .. N -> T] /\ h[0] = start
  BY <1>10 DEF Unfolds
<1>12. \A n \in 1 .. N : h[n] = [h[n - 1] EXCEPT ![place(n)] = f[calls[n]]]
  <2>1. ASSUME NEW n \in 1 .. N PROVE h[n] = [h[n - 1] EXCEPT ![place(n)] = f[calls[n]]]
    <3>1. h[n - 1] \in T
      BY <1>2, <1>11
    <3>2. h[n] = F[n][h[n - 1]]
      BY <1>10 DEF Unfolds
    <3>3. QED
      BY <1>9, <3>1, <3>2
  <2>2. QED
    BY <2>1
<1>13. h = Step(h)
  <2>1. \A n \in 0 .. N : h[n] = IF n = 0 THEN start ELSE [h[n - 1] EXCEPT ![place(n)] = f[calls[n]]]
    <3>1. \A n \in 0 .. N : n = 0 \/ n \in 1 .. N
      BY <1>2
    <3>2. QED
      BY <1>11, <1>12, <3>1
  <2>2. h = [n \in 0 .. N |-> h[n]]
    BY <1>11
  <2>3. QED
    BY <2>1, <2>2, Zenon
<1> DEFINE G == CHOOSE g : g = Step(g)
<1>14. G = Step(G)
  BY <1>13
<1> HIDE DEF G
<1>15. \A n \in 0 .. N : G[n] = IF n = 0 THEN start ELSE [G[n - 1] EXCEPT ![place(n)] = f[calls[n]]]
  BY <1>14
<1>16. Alike(G, h, N)
  BY <1>2, <1>11, <1>12, <1>15 DEF Alike
<1>17. G[N] = h[N]
  <2>1. \A n \in 0 .. N : G[n] = h[n]
    BY <1>2, <1>16, Unique
  <2>2. QED
    BY <1>2, <2>1
<1>18. make(s, f) = grid(is, h[N])
  BY <1>4, <1>17 DEF G
<1>19. \A m \in 1 .. N : h[N][place(m)] = f[calls[m]]
  <2> DEFINE S == {n \in 0 .. N : \A m \in 1 .. n : h[n][place(m)] = f[calls[m]]}
  <2>1. 0 \in S
    BY <1>2
  <2>2. ASSUME NEW n \in 1 .. N, n - 1 \in S PROVE n \in S
    <3>1. h[n - 1] \in T
      BY <1>2, <1>11
    <3>2. DOMAIN h[n - 1] = 1 .. N
      BY <3>1 DEF T
    <3>3. h[n] = [h[n - 1] EXCEPT ![place(n)] = f[calls[n]]]
      BY <1>12
    <3>4. ASSUME NEW m \in 1 .. n PROVE h[n][place(m)] = f[calls[m]]
      <4>1. m \in 1 .. N
        BY <1>2
      <4>2. place(m) \in 1 .. N /\ place(n) \in 1 .. N
        BY <1>5, <4>1
      <4>3. CASE place(m) = place(n)
        <5>1. linear(is, calls[m]) \in 0 .. N - 1 /\ linear(is, calls[n]) \in 0 .. N - 1
          BY <1>2, <1>3, <4>1
        <5>2. linear(is, calls[m]) = linear(is, calls[n])
          BY <4>3, <5>1 DEF place
        <5>3. calls[m] = calls[linear(is, calls[m]) + 1] /\ calls[n] = calls[linear(is, calls[n]) + 1]
          BY <1>2, <1>3, <4>1
        <5>4. calls[m] = calls[n]
          BY <5>2, <5>3
        <5>5. h[n][place(n)] = f[calls[n]]
          BY <3>2, <3>3, <4>2
        <5>6. QED
          BY <4>3, <5>4, <5>5
      <4>4. CASE place(m) # place(n)
        <5>1. h[n][place(m)] = h[n - 1][place(m)]
          BY <3>2, <3>3, <4>2, <4>4
        <5>2. m # n
          BY <4>4
        <5>3. m \in 1 .. n - 1
          BY <1>2, <5>2
        <5>4. QED
          BY <2>2, <5>1, <5>3
      <4>5. QED
        BY <4>3, <4>4
    <3>5. QED
      BY <3>4
  <2>3. 0 .. N \subseteq S
    <3> HIDE DEF S
    <3>1. QED
      BY <1>2, <2>1, <2>2, Upwards
  <2>4. N \in S
    BY <1>2, <2>3
  <2>5. QED
    BY <2>4
<1>20. \A i \in Box(s) : h[N][linear(is, i) + 1] = f[i]
  <2>1. ASSUME NEW i \in Box(s) PROVE h[N][linear(is, i) + 1] = f[i]
    <3>1. PICK m \in 1 .. N : m = linear(is, i) + 1 /\ calls[m] = i
      BY <1>2, <1>3
    <3>2. place(m) = m
      BY <3>1 DEF place
    <3>3. QED
      BY <1>19, <3>1, <3>2
  <2>2. QED
    BY <2>1
<1>21. Sound(make(s, f))
  <2>1. h[N] \in T
    BY <1>2, <1>11
  <2>2. IsArray(h[N], prod(s))
    BY <1>1, <2>1 DEF T, N, size, IsArray
  <2>3. QED
    BY <1>18, <2>2, NewSound DEF is
<1>22. QED
  BY <1>1, <1>18, <1>20, <1>21 DEF Field, getIndex, grid

-----------------------------------------------------------------------------
(* Boundaries *)

LEMMA Removed ==
  ASSUME NEW T, NEW s \in Seq(T), NEW i \in 1 .. Len(s)
  PROVE  /\ RemoveAt(s, i) \in Seq(T) /\ Len(RemoveAt(s, i)) = Len(s) - 1
         /\ \A k \in 1 .. Len(s) - 1 : RemoveAt(s, i)[k] = IF k < i THEN s[k] ELSE s[k + 1]
<1> DEFINE u == SubSeq(s, 1, i - 1)
           v == SubSeq(s, i + 1, Len(s))
<1>1. Len(s) \in Nat
  OBVIOUS
<1>2. u \in Seq(T) /\ Len(u) = i - 1 /\ \A k \in 1 .. i - 1 : u[k] = s[k]
  BY <1>1
<1>3. v \in Seq(T) /\ Len(v) = Len(s) - i /\ \A k \in 1 .. Len(s) - i : v[k] = s[i + k]
  BY <1>1
<1>4. RemoveAt(s, i) = u \o v
  BY DEF RemoveAt
<1> HIDE DEF u, v
<1>5. /\ u \o v \in Seq(T) /\ Len(u \o v) = Len(u) + Len(v)
      /\ \A k \in 1 .. Len(u) + Len(v) : (u \o v)[k] = IF k <= Len(u) THEN u[k] ELSE v[k - Len(u)]
  BY <1>2, <1>3, ConcatProperties
<1>6. ASSUME NEW k \in 1 .. Len(s) - 1
      PROVE  RemoveAt(s, i)[k] = IF k < i THEN s[k] ELSE s[k + 1]
  <2>1. k \in 1 .. Len(u) + Len(v)
    BY <1>1, <1>2, <1>3
  <2>2. CASE k < i
    BY <1>1, <1>2, <1>4, <1>5, <2>1, <2>2
  <2>3. CASE ~ (k < i)
    <3>1. k - Len(u) \in 1 .. Len(s) - i /\ i + (k - Len(u)) = k + 1 /\ ~ (k <= Len(u))
      BY <1>1, <1>2, <2>3
    <3>2. v[k - Len(u)] = s[i + (k - Len(u))]
      BY <1>3, <3>1
    <3>3. QED
      BY <1>4, <1>5, <2>1, <2>3, <3>1, <3>2
  <2>4. QED
    BY <2>2, <2>3
<1>7. QED
  BY <1>1, <1>2, <1>3, <1>4, <1>5, <1>6

\* A direction is a dimension and one of its ends.
LEMMA Direction ==
  ASSUME NEW N \in Nat, NEW i \in 0 .. 2 * N - 1
  PROVE  i \div 2 \in 0 .. N - 1 /\ i % 2 \in 0 .. 1
OBVIOUS

\* A function on 1 .. n is a sequence.
LEMMA Numbers ==
  ASSUME NEW n \in Nat, NEW p \in [1 .. n -> Nat]
  PROVE  p \in Seq(Nat) /\ Len(p) = n
OBVIOUS

\* The corner at one end of dimension d and at the lower ends of the others.
corner(is, d, f) ==
  [k \in DOMAIN is.shape |-> IF k = d + 1 /\ f # 0 THEN is.shape[k] - 1 ELSE 0]

\* The space of a boundary lacks a dimension and its stride.
IsView(b, is, i) ==
  /\ b \in Space
  /\ b.shape = rmdir(is.shape, i \div 2)
  /\ b.offset = linear(is, corner(is, i \div 2, i % 2))
  /\ b.allocated = is.allocated
  /\ Rising(b)
  /\ \A k \in 1 .. Len(is.shape) - 1 :
       stride(b, k - 1) = stride(is, IF k <= i \div 2 THEN k - 1 ELSE k)

LEMMA SideSpace ==
  ASSUME NEW is \in Space, Rising(is), NEW i \in 0 .. 2 * Len(is.shape) - 1,
         linear(is, corner(is, i \div 2, i % 2)) \in Nat
  PROVE  IsView(side(is, i), is, i)
<1> DEFINE N == Len(is.shape)
           b == side(is, i)
<1>1. /\ is.shape \in Seq(Nat) /\ is.stride \in Seq(Nat) /\ is.stride0 \in Nat
      /\ is.allocated \in Nat /\ Len(is.stride) = N /\ N \in Nat
  BY DEF Space
<1>2. PICK d \in 0 .. N - 1 : d = i \div 2
  BY <1>1, Direction
<1>3. N > 0 /\ d + 1 \in 1 .. N
  BY <1>1
<1>4. /\ b.shape = RemoveAt(is.shape, d + 1)
      /\ b.offset = linear(is, corner(is, i \div 2, i % 2))
      /\ b.stride0 = IF d = 0 THEN is.stride[1] ELSE is.stride0
      /\ b.stride = RemoveAt(is.stride, IF d = 0 THEN 1 ELSE d)
      /\ b.allocated = is.allocated
      /\ b = [shape |-> b.shape, offset |-> b.offset, stride0 |-> b.stride0,
              stride |-> b.stride, allocated |-> b.allocated]
  BY <1>2 DEF side, rmdir, corner
<1> HIDE DEF b
<1>5. /\ b.shape \in Seq(Nat) /\ Len(b.shape) = N - 1
  <2>1. is.shape \in Seq(Nat) /\ d + 1 \in 1 .. Len(is.shape)
    BY <1>1, <1>3
  <2>2. RemoveAt(is.shape, d + 1) \in Seq(Nat) /\ Len(RemoveAt(is.shape, d + 1)) = Len(is.shape) - 1
    BY <2>1, Removed
  <2>3. QED
    BY <1>4, <2>2
<1>6. PICK r \in 1 .. N : r = IF d = 0 THEN 1 ELSE d
  BY <1>3
<1>7. /\ b.stride \in Seq(Nat) /\ Len(b.stride) = N - 1
      /\ \A k \in 1 .. N - 1 : b.stride[k] = IF k < r THEN is.stride[k] ELSE is.stride[k + 1]
  <2>1. is.stride \in Seq(Nat) /\ r \in 1 .. Len(is.stride)
    BY <1>1, <1>6
  <2>2. /\ RemoveAt(is.stride, r) \in Seq(Nat) /\ Len(RemoveAt(is.stride, r)) = Len(is.stride) - 1
        /\ \A k \in 1 .. Len(is.stride) - 1 :
             RemoveAt(is.stride, r)[k] = IF k < r THEN is.stride[k] ELSE is.stride[k + 1]
    BY <2>1, Removed
  <2>3. QED
    BY <1>1, <1>4, <1>6, <2>2
<1>8. \A k \in 1 .. N : is.stride[k] \in Nat
  <2>1. ASSUME NEW k \in 1 .. N PROVE is.stride[k] \in Nat
    <3>1. is.stride \in Seq(Nat) /\ k \in 1 .. Len(is.stride)
      BY <1>1
    <3>2. QED
      BY <3>1, ElementOfSeq
  <2>2. QED
    BY <2>1
<1>9. b.stride0 \in Nat
  BY <1>1, <1>3, <1>4, <1>8
<1>10. b \in Space
  BY <1>1, <1>4, <1>5, <1>7, <1>9 DEF Space
<1>11. \A k \in 1 .. N : is.stride0 <= is.stride[k] /\ \A j \in 1 .. k : is.stride[j] <= is.stride[k]
  BY DEF Rising
<1>12. Rising(b)
  <2>1. ASSUME NEW k \in 1 .. N - 1 PROVE b.stride0 <= b.stride[k]
    <3>1. k \in 1 .. N /\ k + 1 \in 1 .. N /\ 1 \in 1 .. k + 1
      BY <1>1
    <3>2. d = 0 => r = 1 /\ ~ (k < r)
      BY <1>1, <1>6
    <3>3. b.stride[k] = IF k < r THEN is.stride[k] ELSE is.stride[k + 1]
      BY <1>7
    <3>4. QED
      BY <1>4, <1>11, <3>1, <3>2, <3>3
  <2>2. ASSUME NEW k \in 1 .. N - 1, NEW j \in 1 .. k PROVE b.stride[j] <= b.stride[k]
    <3>1. j \in 1 .. N - 1 /\ k \in 1 .. N /\ k + 1 \in 1 .. N
          /\ j \in 1 .. k + 1 /\ j + 1 \in 1 .. k + 1
      <4>1. k \in Nat /\ j \in Nat /\ 1 <= j /\ j <= k /\ k <= N - 1 /\ N \in Nat
        BY <1>1
      <4>2. QED
        BY <4>1
    <3>2. /\ b.stride[k] = IF k < r THEN is.stride[k] ELSE is.stride[k + 1]
          /\ b.stride[j] = IF j < r THEN is.stride[j] ELSE is.stride[j + 1]
      BY <1>7, <3>1
    <3>3. k < r => j < r
      BY <1>1
    <3>4. QED
      BY <1>11, <3>1, <3>2, <3>3
  <2>3. QED
    BY <1>5, <2>1, <2>2 DEF Rising
<1>13. ASSUME NEW k \in 1 .. N - 1
       PROVE  stride(b, k - 1) = stride(is, IF k <= d THEN k - 1 ELSE k)
  <2>1. k \in 1 .. N /\ k + 1 \in 1 .. N /\ k - 1 \in Nat /\ k - 1 + 1 = k
        /\ b.stride[k] \in Nat
    <3>1. k \in Nat /\ 1 <= k /\ k <= N - 1 /\ N \in Nat
      BY <1>1
    <3>2. b.stride \in Seq(Nat) /\ k \in 1 .. Len(b.stride)
      BY <1>7
    <3>3. b.stride[k] \in Nat
      BY <3>2, ElementOfSeq
    <3>4. QED
      <4> HIDE DEF N
      <4>1. k \in 1 .. N /\ k + 1 \in 1 .. N /\ k - 1 \in Nat /\ k - 1 + 1 = k
        BY <3>1
      <4>2. QED
        BY <3>3, <4>1
  <2>2. CASE k = 1
    <3>1. stride(b, k - 1) = b.stride0
      <4>1. stride(b, k - 1) = Least(b.stride0, b.stride[1])
        <5>1. Len(b.shape) # 0 /\ ~ (k - 1 > 0) /\ k - 1 = 0
          <6>1. k \in 1 .. N - 1 /\ N \in Nat
            BY <1>1
          <6>2. N - 1 # 0
            <7> HIDE DEF N
            <7>1. QED
              BY <2>2, <6>1
          <6>3. ~ (k - 1 > 0) /\ k - 1 = 0
            BY <2>2
          <6>4. QED
            BY <1>5, <6>2, <6>3
        <5>2. QED
          BY <5>1 DEF stride, rank
      <4>2. b.stride0 <= b.stride[1]
        BY <1>5, <1>12, <2>2 DEF Rising
      <4>3. QED
        BY <1>9, <2>1, <2>2, <4>1, <4>2 DEF Least
    <3>2. CASE d = 0
      <4>1. stride(is, 1) = is.stride[1]
        BY DEF stride
      <4>2. QED
        BY <1>4, <2>2, <3>1, <3>2, <4>1
    <3>3. CASE d # 0
      <4>1. k <= d
        BY <1>1, <2>2, <3>3
      <4>2. stride(is, 0) = Least(is.stride0, is.stride[1])
        BY <1>3 DEF stride, rank
      <4>3. is.stride0 <= is.stride[1] /\ is.stride[1] \in Nat
        BY <1>3, <1>8, <1>11
      <4>4. QED
        <5>1. Least(is.stride0, is.stride[1]) = is.stride0
          <6>1. \A x, y \in Nat : x <= y => Least(x, y) = x
            BY DEF Least
          <6>2. is.stride0 \in Nat /\ is.stride[1] \in Nat /\ is.stride0 <= is.stride[1]
            BY <1>1, <4>3
          <6>3. QED
            BY <6>1, <6>2
        <5>2. QED
          BY <1>4, <2>2, <3>1, <3>3, <4>1, <4>2, <5>1
    <3>4. QED
      BY <3>2, <3>3
  <2>3. CASE k # 1
    <3>1. k - 1 \in 1 .. N - 1 /\ k - 1 > 0 /\ k > 0
      BY <1>1, <2>3
    <3>2. stride(b, k - 1) = b.stride[k - 1] /\ stride(is, k - 1) = is.stride[k - 1]
          /\ stride(is, k) = is.stride[k]
      BY <3>1 DEF stride
    <3>3. b.stride[k - 1] = IF k - 1 < r THEN is.stride[k - 1] ELSE is.stride[k]
      BY <1>7, <2>1, <3>1
    <3>4. k - 1 < r <=> k <= d
      BY <1>1, <1>6, <2>3
    <3>5. QED
      BY <3>2, <3>3, <3>4
  <2>4. QED
    BY <2>2, <2>3
<1>14. QED
  BY <1>2, <1>4, <1>10, <1>12, <1>13 DEF b, rmdir, IsView

\* The index q with another dimension put after the first d, where it is e.
inserted(q, d, e) ==
  [k \in 1 .. Len(q) + 1 |-> IF k <= d THEN q[k] ELSE IF k = d + 1 THEN e ELSE q[k - 1]]

LEMMA BoxIs ==
  ASSUME NEW s \in Seq(Nat), NEW i \in Box(s)
  PROVE  /\ Len(s) \in Nat /\ i \in Seq(Nat) /\ Len(i) = Len(s)
         /\ \A k \in 1 .. Len(s) : i[k] \in Nat /\ s[k] \in Nat /\ i[k] < s[k]
<1>1. i \in Seq(Nat) /\ Len(i) = Len(s) /\ \A k \in 1 .. Len(s) : i[k] < s[k]
  BY DEF Box
<1>2. \A k \in 1 .. Len(s) : i[k] \in Nat /\ s[k] \in Nat
  BY <1>1
<1>3. QED
  BY <1>1, <1>2

\* The indices at some place of a dimension are those without it.
LEMMA Insertion ==
  ASSUME NEW s \in Seq(Nat), NEW d \in 0 .. Len(s) - 1, NEW e \in Nat, e < s[d + 1],
         NEW q \in Box(RemoveAt(s, d + 1))
  PROVE  /\ inserted(q, d, e) \in Box(s) /\ inserted(q, d, e)[d + 1] = e
         /\ RemoveAt(inserted(q, d, e), d + 1) = q
<1> DEFINE N == Len(s)
           u == RemoveAt(s, d + 1)
           p == inserted(q, d, e)
<1>1. N \in Nat /\ d + 1 \in 1 .. N
  OBVIOUS
<1>2. /\ u \in Seq(Nat) /\ Len(u) = N - 1
      /\ \A k \in 1 .. N - 1 : u[k] = IF k < d + 1 THEN s[k] ELSE s[k + 1]
  BY <1>1, Removed
<1> HIDE DEF N, u
<1>3. /\ q \in Seq(Nat) /\ Len(q) = N - 1
      /\ \A k \in 1 .. N - 1 : q[k] \in Nat /\ q[k] < u[k]
  BY <1>2, BoxIs DEF u
<1>4. p = [k \in 1 .. N |-> IF k <= d THEN q[k] ELSE IF k = d + 1 THEN e ELSE q[k - 1]]
  <2>1. Len(q) + 1 = N
    BY <1>1, <1>3
  <2>2. QED
    BY <2>1 DEF inserted
<1> HIDE DEF p
<1>5. ASSUME NEW k \in 1 .. N PROVE p[k] \in Nat /\ p[k] < s[k]
  <2>1. d \in Nat /\ N \in Nat /\ d < N
    BY <1>1 DEF N
  <2>2. CASE k <= d
    <3>1. k \in 1 .. N - 1 /\ k < d + 1
      BY <2>1, <2>2
    <3>2. QED
      BY <1>2, <1>3, <1>4, <2>2, <3>1
  <2>3. CASE k = d + 1
    BY <1>4, <2>1, <2>3
  <2>4. CASE k > d + 1
    <3>1. k - 1 \in 1 .. N - 1 /\ ~ (k - 1 < d + 1) /\ k - 1 + 1 = k /\ ~ (k <= d) /\ k # d + 1
      BY <2>1, <2>4
    <3>2. QED
      BY <1>2, <1>3, <1>4, <3>1
  <2>5. QED
    BY <2>1, <2>2, <2>3, <2>4
<1>6. p \in Seq(Nat) /\ Len(p) = N
  <2>1. p \in [1 .. N -> Nat]
    <3>1. DOMAIN p = 1 .. N /\ p = [k \in 1 .. N |-> p[k]]
      BY <1>4
    <3>2. QED
      BY <1>5, <3>1
  <2>2. QED
    BY <1>1, <2>1
<1>7. p \in Box(s)
  BY <1>5, <1>6 DEF Box, N
<1>8. p[d + 1] = e
  <2>1. d \in Nat /\ ~ (d + 1 <= d)
    BY <1>1
  <2>2. QED
    BY <1>1, <1>4, <2>1
<1>9. RemoveAt(p, d + 1) = q
  <2>1. /\ RemoveAt(p, d + 1) \in Seq(Nat) /\ Len(RemoveAt(p, d + 1)) = N - 1
        /\ \A k \in 1 .. N - 1 : RemoveAt(p, d + 1)[k] = IF k < d + 1 THEN p[k] ELSE p[k + 1]
    BY <1>1, <1>6, Removed
  <2>2. ASSUME NEW k \in 1 .. N - 1 PROVE RemoveAt(p, d + 1)[k] = q[k]
    <3>1. d \in Nat /\ k \in 1 .. N /\ k + 1 \in 1 .. N /\ k + 1 - 1 = k
      BY <1>1
    <3>2. CASE k < d + 1
      <4>1. k <= d
        BY <3>1, <3>2
      <4>2. QED
        BY <1>4, <2>1, <3>1, <3>2, <4>1
    <3>3. CASE ~ (k < d + 1)
      <4>1. ~ (k + 1 <= d) /\ k + 1 # d + 1
        BY <3>1, <3>3
      <4>2. p[k + 1] = q[k]
        BY <1>4, <3>1, <4>1
      <4>3. QED
        BY <2>1, <3>3, <4>2
    <3>4. QED
      BY <3>2, <3>3
  <2>3. QED
    BY <1>3, <2>1, <2>2, SeqEqual
<1>10. QED
  BY <1>7, <1>8, <1>9 DEF p

LEMMA Deletion ==
  ASSUME NEW s \in Seq(Nat), NEW d \in 0 .. Len(s) - 1, NEW p \in Box(s)
  PROVE  /\ RemoveAt(p, d + 1) \in Box(RemoveAt(s, d + 1))
         /\ inserted(RemoveAt(p, d + 1), d, p[d + 1]) = p
<1> DEFINE N == Len(s)
           u == RemoveAt(s, d + 1)
           q == RemoveAt(p, d + 1)
<1>1. N \in Nat /\ d \in Nat /\ d + 1 \in 1 .. N
  OBVIOUS
<1>2. /\ u \in Seq(Nat) /\ Len(u) = N - 1
      /\ \A k \in 1 .. N - 1 : u[k] = IF k < d + 1 THEN s[k] ELSE s[k + 1]
  BY <1>1, Removed
<1>3. /\ p \in Seq(Nat) /\ Len(p) = N
      /\ \A k \in 1 .. N : p[k] \in Nat /\ s[k] \in Nat /\ p[k] < s[k]
  BY BoxIs
<1>4. /\ q \in Seq(Nat) /\ Len(q) = N - 1
      /\ \A k \in 1 .. N - 1 : q[k] = IF k < d + 1 THEN p[k] ELSE p[k + 1]
  BY <1>1, <1>3, Removed
<1> HIDE DEF N, u, q
<1>5. ASSUME NEW k \in 1 .. N - 1 PROVE q[k] < u[k]
  <2>1. k \in 1 .. N /\ k + 1 \in 1 .. N
    BY <1>1
  <2>2. QED
    BY <1>2, <1>3, <1>4, <2>1
<1>6. q \in Box(u)
  BY <1>2, <1>4, <1>5 DEF Box
<1>7. inserted(q, d, p[d + 1]) = p
  <2>1. Len(q) + 1 = N
    BY <1>1, <1>4
  <2>2. ASSUME NEW k \in 1 .. N
        PROVE  p[k] = IF k <= d THEN q[k] ELSE IF k = d + 1 THEN p[d + 1] ELSE q[k - 1]
    <3>1. CASE k <= d
      <4>1. k \in 1 .. N - 1 /\ k < d + 1
        BY <1>1, <3>1
      <4>2. QED
        BY <1>4, <3>1, <4>1
    <3>2. CASE k = d + 1
      BY <1>1, <3>2
    <3>3. CASE k > d + 1
      <4>1. k - 1 \in 1 .. N - 1 /\ ~ (k - 1 < d + 1) /\ k - 1 + 1 = k /\ ~ (k <= d) /\ k # d + 1
        BY <1>1, <3>3
      <4>2. QED
        BY <1>4, <4>1
    <3>4. QED
      BY <1>1, <3>1, <3>2, <3>3
  <2>3. p = [k \in 1 .. N |-> p[k]]
    BY <1>3
  <2>4. QED
    BY <2>1, <2>2, <2>3 DEF inserted
<1>8. QED
  BY <1>6, <1>7 DEF u, q

LEMMA CornerInBox ==
  ASSUME NEW is \in Space, Box(is.shape) # {}, NEW d \in 0 .. Len(is.shape) - 1, NEW f
  PROVE  corner(is, d, f) \in Box(is.shape)
<1> DEFINE s == is.shape
           p == corner(is, d, f)
<1>1. s \in Seq(Nat) /\ Len(s) \in Nat /\ DOMAIN s = 1 .. Len(s)
  BY DEF Space
<1>2. ASSUME NEW k \in 1 .. Len(s) PROVE s[k] \in Nat /\ s[k] > 0
  <2>1. PICK i \in Box(s) : TRUE
    OBVIOUS
  <2>2. i[k] \in Nat /\ s[k] \in Nat /\ i[k] < s[k]
    BY <1>1, <2>1, BoxIs
  <2>3. QED
    BY <2>2
<1>3. p = [k \in 1 .. Len(s) |-> IF k = d + 1 /\ f # 0 THEN s[k] - 1 ELSE 0]
  BY <1>1 DEF corner
<1> HIDE DEF p, s
<1>4. ASSUME NEW k \in 1 .. Len(s) PROVE p[k] \in Nat /\ p[k] < s[k]
  <2>1. s[k] \in Nat /\ s[k] > 0
    BY <1>2
  <2>2. p[k] = s[k] - 1 \/ p[k] = 0
    BY <1>3
  <2>3. QED
    BY <2>1, <2>2
<1>5. p \in [1 .. Len(s) -> Nat]
  <2>1. p = [k \in 1 .. Len(s) |-> p[k]]
    BY <1>3
  <2>2. QED
    BY <1>4, <2>1
<1>6. p \in Seq(Nat) /\ Len(p) = Len(s)
  BY <1>1, <1>5, Numbers
<1>7. QED
  BY <1>4, <1>6 DEF Box, p, s

\* The place of a corner.
LEMMA CornerPlace ==
  ASSUME NEW is \in Space, Box(is.shape) # {}, NEW d \in 0 .. Len(is.shape) - 1, NEW f
  PROVE  /\ corner(is, d, f)[d + 1] \in Nat
         /\ corner(is, d, f)[d + 1] * stride(is, d) \in Nat
         /\ linear(is, corner(is, d, f)) = is.offset + corner(is, d, f)[d + 1] * stride(is, d)
         /\ linear(is, corner(is, d, f)) \in Nat
<1> DEFINE p == corner(is, d, f)
           N == Len(is.shape)
           t == p[d + 1] * stride(is, d)
<1>1. is.shape \in Seq(Nat) /\ N \in Nat /\ is.offset \in Nat
  BY DEF Space
<1>2. p \in Box(is.shape)
  BY CornerInBox
<1>3. d + 1 \in 1 .. N /\ d + 1 - 1 = d
  BY <1>1
<1>4. p \in Seq(Nat) /\ Len(p) = N /\ p[d + 1] \in Nat
  BY <1>1, <1>2, <1>3, BoxIs
<1>5. \A k \in 1 .. N : k # d + 1 => p[k] = 0
  BY <1>1 DEF corner
<1>6. PICK L : Places(L, is, p) /\ linear(is, p) = L[N]
  BY <1>4, LinearIs
<1>7. L \in [0 .. N -> Nat] /\ L[0] = is.offset /\ \A k \in 1 .. N : L[k] = L[k - 1] + p[k] * stride(is, k - 1)
  BY <1>4, <1>6 DEF Places
<1>8. \A k \in 1 .. N : stride(is, k - 1) \in Nat
  BY StrideType
<1> HIDE DEF p, N
<1>9. t \in Nat
  <2>1. stride(is, d) \in Nat
    BY <1>3, <1>8
  <2>2. QED
    BY <1>4, <2>1
<1>10. L[d + 1] = L[d] + t
  <2>1. L[d + 1] = L[d + 1 - 1] + p[d + 1] * stride(is, d + 1 - 1)
    BY <1>3, <1>7
  <2>2. QED
    BY <1>3, <2>1
<1>11. \A k \in 1 .. N : k # d + 1 => L[k] = L[k - 1]
  <2>1. ASSUME NEW k \in 1 .. N, k # d + 1 PROVE L[k] = L[k - 1]
    <3>1. p[k] = 0 /\ stride(is, k - 1) \in Nat /\ L[k - 1] \in Nat
      BY <1>1, <1>5, <1>7, <1>8, <2>1
    <3>2. p[k] * stride(is, k - 1) = 0
      BY <3>1
    <3>3. QED
      BY <1>7, <3>1, <3>2
  <2>2. QED
    BY <2>1
<1> HIDE DEF t
<1>12. L[N] = is.offset + t
  <2> DEFINE S == {k \in 0 .. N : L[k] = IF k <= d THEN is.offset ELSE is.offset + t}
  <2>1. d \in Nat /\ d < N
    BY <1>1, <1>3
  <2>2. 0 \in S
    BY <1>1, <1>7, <2>1
  <2>3. ASSUME NEW k \in 1 .. N, k - 1 \in S PROVE k \in S
    <3>1. CASE k = d + 1
      <4>1. k - 1 = d /\ ~ (k <= d)
        BY <2>1, <3>1
      <4>2. L[d] = is.offset
        BY <2>1, <2>3, <4>1
      <4>3. QED
        BY <1>10, <3>1, <4>1, <4>2
    <3>2. CASE k # d + 1
      <4>1. L[k] = L[k - 1]
        BY <1>11, <3>2
      <4>2. k <= d <=> k - 1 <= d
        BY <2>1, <3>2
      <4>3. L[k - 1] = IF k - 1 <= d THEN is.offset ELSE is.offset + t
        BY <2>3
      <4>4. QED
        BY <4>1, <4>2, <4>3
    <3>3. QED
      BY <3>1, <3>2
  <2>4. 0 .. N \subseteq S
    <3> HIDE DEF S
    <3>1. QED
      BY <1>1, <2>2, <2>3, Upwards
  <2>5. N \in S /\ ~ (N <= d)
    BY <1>1, <2>1, <2>4
  <2>6. QED
    BY <2>5
<1>13. QED
  BY <1>1, <1>4, <1>6, <1>9, <1>12 DEF p, t

\* A boundary gives its positions the places that they have in the grid.
LEMMA SidePlaces ==
  ASSUME NEW is \in Space, Rising(is), Box(is.shape) # {},
         NEW i \in 0 .. 2 * Len(is.shape) - 1, NEW d \in 0 .. Len(is.shape) - 1, d = i \div 2,
         NEW q \in Box(RemoveAt(is.shape, d + 1)), NEW e, e = corner(is, d, i % 2)[d + 1],
         inserted(q, d, e) \in Box(is.shape)
  PROVE  linear(side(is, i), q) = linear(is, inserted(q, d, e))
<1> DEFINE N == Len(is.shape)
           b == side(is, i)
           p == inserted(q, d, e)
           t == e * stride(is, d)
<1>1. is.shape \in Seq(Nat) /\ N \in Nat /\ is.offset \in Nat /\ d + 1 \in 1 .. N
  BY DEF Space
<1>2. /\ e \in Nat /\ t \in Nat /\ linear(is, corner(is, d, i % 2)) \in Nat
      /\ linear(is, corner(is, d, i % 2)) = is.offset + t
  BY CornerPlace
<1>3. /\ b \in Space /\ b.shape = RemoveAt(is.shape, d + 1)
      /\ b.offset = is.offset + t
      /\ \A k \in 1 .. N - 1 : stride(b, k - 1) = stride(is, IF k <= d THEN k - 1 ELSE k)
  <2>1. linear(is, corner(is, i \div 2, i % 2)) \in Nat
    BY <1>2
  <2>2. IsView(side(is, i), is, i)
    BY <2>1, SideSpace
  <2>3. b \in Space /\ b.shape = RemoveAt(is.shape, d + 1)
    BY <2>2 DEF rmdir, IsView
  <2>4. b.offset = is.offset + t
    <3> HIDE DEF t
    <3>1. QED
      BY <1>2, <2>2 DEF IsView
  <2>5. ASSUME NEW k \in 1 .. N - 1
        PROVE  stride(b, k - 1) = stride(is, IF k <= d THEN k - 1 ELSE k)
    BY <2>2 DEF IsView
  <2>6. QED
    BY <2>3, <2>4, <2>5
<1>4. b.shape \in Seq(Nat) /\ Len(b.shape) = N - 1
  <2>1. PICK s : s = is.shape /\ s \in Seq(Nat) /\ d + 1 \in 1 .. Len(s)
    BY <1>1
  <2>2. RemoveAt(s, d + 1) \in Seq(Nat) /\ Len(RemoveAt(s, d + 1)) = Len(s) - 1
    BY <2>1, Removed, Zenon
  <2>3. QED
    BY <1>3, <2>1, <2>2, Zenon
<1>5. q \in Seq(Nat) /\ Len(q) = N - 1
  BY <1>3, <1>4, BoxIs
<1>6. p \in Seq(Nat) /\ Len(p) = N /\ \A k \in 1 .. N : p[k] \in Nat
  BY <1>1, BoxIs
<1>7. \A k \in 1 .. N : p[k] = IF k <= d THEN q[k] ELSE IF k = d + 1 THEN e ELSE q[k - 1]
  BY <1>1, <1>5 DEF inserted
<1>8. \A k \in 1 .. N : stride(is, k - 1) \in Nat
  BY StrideType
<1>9. PICK L : Places(L, is, p) /\ linear(is, p) = L[N]
  BY <1>6, LinearIs
<1>10. PICK M : Places(M, b, q) /\ linear(b, q) = M[N - 1]
  BY <1>3, <1>4, <1>5, LinearIs
<1>11. /\ L \in [0 .. N -> Nat] /\ L[0] = is.offset
       /\ \A k \in 1 .. N : L[k] = L[k - 1] + p[k] * stride(is, k - 1)
  BY <1>6, <1>9 DEF Places
<1>12. /\ M \in [0 .. N - 1 -> Nat] /\ M[0] = is.offset + t
       /\ \A k \in 1 .. N - 1 : M[k] = M[k - 1] + q[k] * stride(b, k - 1)
  BY <1>3, <1>5, <1>10 DEF Places
<1> HIDE DEF N, b, p
<1>13. N \in Nat /\ d \in Nat /\ d < N /\ t \in Nat
  BY <1>1, <1>2
<1>14. L[d + 1] = L[d] + t
  <2>1. d + 1 - 1 = d /\ ~ (d + 1 <= d)
    BY <1>13
  <2>2. L[d + 1] = L[d + 1 - 1] + p[d + 1] * stride(is, d + 1 - 1)
    BY <1>1, <1>11
  <2>3. p[d + 1] = e
    BY <1>1, <1>7, <2>1
  <2>4. QED
    BY <2>1, <2>2, <2>3
<1> HIDE DEF t
<1>15. ASSUME NEW k \in 1 .. N - 1
       PROVE  IF k <= d THEN L[k] = L[k - 1] + q[k] * stride(b, k - 1)
                        ELSE L[k + 1] = L[k] + q[k] * stride(b, k - 1)
  <2>1. k \in 1 .. N /\ k + 1 \in 1 .. N /\ k + 1 - 1 = k
    BY <1>13
  <2>2. CASE k <= d
    <3>1. p[k] = q[k] /\ stride(b, k - 1) = stride(is, k - 1)
      BY <1>3, <1>7, <2>1, <2>2
    <3>2. QED
      BY <1>11, <2>1, <2>2, <3>1
  <2>3. CASE ~ (k <= d)
    <3>1. ~ (k + 1 <= d) /\ k + 1 # d + 1
      BY <1>13, <2>3
    <3>2. p[k + 1] = q[k] /\ stride(b, k - 1) = stride(is, k + 1 - 1)
      BY <1>3, <1>7, <2>1, <2>3, <3>1
    <3>3. L[k + 1] = L[k + 1 - 1] + p[k + 1] * stride(is, k + 1 - 1)
      BY <1>11, <2>1
    <3>4. QED
      BY <2>1, <2>3, <3>2, <3>3
  <2>4. QED
    BY <2>2, <2>3
<1>16. M[N - 1] = L[N]
  <2> DEFINE S == {k \in 0 .. N - 1 : M[k] = IF k <= d THEN L[k] + t ELSE L[k + 1]}
  <2>1. 0 \in S
    <3>1. 0 \in 0 .. N - 1 /\ 0 <= d
      BY <1>13
    <3>2. QED
      BY <1>11, <1>12, <3>1
  <2>2. ASSUME NEW k \in 1 .. N - 1, k - 1 \in S PROVE k \in S
    <3>1. M[k - 1] = IF k - 1 <= d THEN L[k - 1] + t ELSE L[k - 1 + 1]
      BY <2>2
    <3>2. M[k] = M[k - 1] + q[k] * stride(b, k - 1)
      BY <1>12
    <3>3. PICK x \in Nat : x = q[k] * stride(b, k - 1)
      <4>1. k \in 1 .. N /\ k + 1 \in 1 .. N /\ k + 1 - 1 = k
        BY <1>13
      <4>2. q[k] \in Nat
        BY <1>5
      <4>3. stride(is, k - 1) \in Nat /\ stride(is, k + 1 - 1) \in Nat
        BY <1>8, <4>1
      <4>4. stride(b, k - 1) \in Nat
        BY <1>3, <4>1, <4>3
      <4>5. QED
        BY <4>2, <4>4
    <3>4. L[k] \in Nat /\ L[k - 1] \in Nat /\ L[k + 1] \in Nat /\ t \in Nat /\ k - 1 + 1 = k
      <4>1. k \in 0 .. N /\ k - 1 \in 0 .. N /\ k + 1 \in 0 .. N
        BY <1>13
      <4>2. QED
        BY <1>11, <1>13, <4>1
    <3>5. CASE k <= d
      <4>1. k - 1 <= d
        BY <1>13, <3>5
      <4>2. L[k] = L[k - 1] + x
        BY <1>15, <3>3, <3>5
      <4>3. M[k] = L[k] + t
        BY <3>1, <3>2, <3>3, <3>4, <4>1, <4>2
      <4>4. QED
        BY <3>5, <4>3
    <3>6. CASE ~ (k <= d)
      <4>1. L[k + 1] = L[k] + x
        BY <1>15, <3>3, <3>6
      <4>2. M[k - 1] = L[k]
        <5>1. CASE k = d + 1
          <6>1. k - 1 = d /\ k - 1 <= d
            BY <1>13, <5>1
          <6>2. QED
            BY <1>14, <3>1, <5>1, <6>1
        <5>2. CASE k # d + 1
          <6>1. ~ (k - 1 <= d)
            BY <1>13, <3>6, <5>2
          <6>2. QED
            BY <3>1, <3>4, <6>1
        <5>3. QED
          BY <5>1, <5>2
      <4>3. QED
        BY <3>2, <3>3, <3>6, <4>1, <4>2
    <3>7. QED
      BY <3>5, <3>6
  <2>3. 0 .. N - 1 \subseteq S
    <3>1. N - 1 \in Nat
      BY <1>13
    <3> HIDE DEF S
    <3>2. QED
      BY <2>1, <2>2, <3>1, Upwards
  <2>4. N - 1 \in S /\ N - 1 + 1 = N
    BY <1>13, <2>3
  <2>5. CASE d = N - 1
    BY <1>13, <1>14, <2>4, <2>5
  <2>6. CASE d # N - 1
    <3>1. ~ (N - 1 <= d)
      BY <1>13, <2>6
    <3>2. QED
      BY <2>4, <3>1
  <2>7. QED
    BY <2>5, <2>6
<1>17. QED
  BY <1>9, <1>10, <1>16 DEF b, p

\* The elements of b are those of xs where dimension d is e.
IsSide(b, xs, d, e) ==
  LET s == xs.indexing.shape
  IN  /\ b.indexing.shape = RemoveAt(s, d + 1)
      /\ \A q \in Box(RemoveAt(s, d + 1)) :
           /\ inserted(q, d, e) \in Box(s)
           /\ inserted(q, d, e)[d + 1] = e
           /\ RemoveAt(inserted(q, d, e), d + 1) = q
           /\ getIndex(b, q) = getIndex(xs, inserted(q, d, e))

\* A boundary is the grid at one end, without the dimension.
LEMMA SideSound ==
  ASSUME NEW xs, Sound(xs), Box(xs.indexing.shape) # {},
         NEW i \in 0 .. 2 * Len(xs.indexing.shape) - 1,
         NEW d \in 0 .. Len(xs.indexing.shape) - 1, d = i \div 2,
         NEW e, e = corner(xs.indexing, d, i % 2)[d + 1]
  PROVE  Sound(boundary(xs, i)) /\ IsSide(boundary(xs, i), xs, d, e)
<1> DEFINE is == xs.indexing
           s == is.shape
           u == RemoveAt(s, d + 1)
           b == side(is, i)
<1>1. is \in Space /\ Rising(is) /\ IsArray(xs.data, is.allocated)
  BY DEF Sound
<1>2. /\ \A p \in Box(s) : linear(is, p) \in 0 .. is.allocated - 1
      /\ \A p, r \in Box(s) : linear(is, p) = linear(is, r) => p = r
  BY DEF Sound
<1>3. s \in Seq(Nat)
  BY <1>1 DEF Space
<1>4. e \in Nat /\ e < s[d + 1] /\ linear(is, corner(is, d, i % 2)) \in Nat
  <2>1. corner(is, d, i % 2) \in Box(s)
    BY <1>1, CornerInBox
  <2>2. d + 1 \in 1 .. Len(s)
    BY <1>3
  <2>3. e \in Nat /\ e < s[d + 1]
    BY <1>3, <2>1, <2>2, BoxIs
  <2>4. linear(is, corner(is, d, i % 2)) \in Nat
    BY <1>1, CornerPlace
  <2>5. QED
    BY <2>3, <2>4
<1>5. /\ b \in Space /\ b.shape = u /\ b.allocated = is.allocated /\ Rising(b)
  <2>1. linear(is, corner(is, i \div 2, i % 2)) \in Nat
    BY <1>4
  <2>2. IsView(b, is, i)
    BY <1>1, <2>1, SideSpace
  <2>3. QED
    BY <2>2 DEF rmdir, IsView
<1>6. boundary(xs, i) = [indexing |-> b, data |-> xs.data]
  BY DEF boundary, grid
<1>7. ASSUME NEW q \in Box(u)
      PROVE  /\ inserted(q, d, e) \in Box(s)
             /\ inserted(q, d, e)[d + 1] = e
             /\ RemoveAt(inserted(q, d, e), d + 1) = q
  BY <1>3, <1>4, Insertion
<1>8. ASSUME NEW q \in Box(u) PROVE linear(b, q) = linear(is, inserted(q, d, e))
  <2>1. inserted(q, d, e) \in Box(is.shape)
    BY <1>7
  <2>2. Box(is.shape) # {} /\ i \in 0 .. 2 * Len(is.shape) - 1 /\ d \in 0 .. Len(is.shape) - 1
    OBVIOUS
  <2>3. q \in Box(RemoveAt(is.shape, d + 1)) /\ e = corner(is, d, i % 2)[d + 1]
    OBVIOUS
  <2> HIDE DEF is, b
  <2>4. linear(side(is, i), q) = linear(is, inserted(q, d, e))
    BY <1>1, <2>1, <2>2, <2>3, SidePlaces
  <2>5. QED
    BY <2>4 DEF b
<1>9. \A q \in Box(u) : getIndex(boundary(xs, i), q) = getIndex(xs, inserted(q, d, e))
  BY <1>6, <1>8 DEF getIndex
<1>10. \A q \in Box(u) : linear(b, q) \in 0 .. is.allocated - 1
  BY <1>2, <1>7, <1>8
<1>11. ASSUME NEW q \in Box(u), NEW r \in Box(u), linear(b, q) = linear(b, r) PROVE q = r
  <2>1. linear(is, inserted(q, d, e)) = linear(is, inserted(r, d, e))
    BY <1>8, <1>11
  <2>2. inserted(q, d, e) = inserted(r, d, e)
    BY <1>2, <1>7, <2>1
  <2>3. QED
    BY <1>7, <2>2
<1> HIDE DEF b, u
<1>12. Sound(boundary(xs, i))
  BY <1>1, <1>5, <1>6, <1>10, <1>11 DEF Sound
<1>13. QED
  BY <1>5, <1>6, <1>7, <1>9, <1>12 DEF u, IsSide

\* No position is beyond p in dimension k.
Extreme(s, p, k, f) ==
  \A q \in Box(s) : IF f = 0 THEN p[k] <= q[k] ELSE p[k] >= q[k]

\* The points at the ends of a dimension are those with the index of the
\* corner.
LEMMA EndIs ==
  ASSUME NEW is \in Space, Box(is.shape) # {}, NEW d \in 0 .. Len(is.shape) - 1, NEW f \in 0 .. 1,
         NEW p \in Box(is.shape)
  PROVE  Extreme(is.shape, p, d + 1, f) <=> p[d + 1] = corner(is, d, f)[d + 1]
<1> DEFINE s == is.shape
           z == corner(is, d, f)
           e == z[d + 1]
<1>1. s \in Seq(Nat) /\ Len(s) \in Nat
  BY DEF Space
<1>2. d + 1 \in 1 .. Len(s) /\ DOMAIN s = 1 .. Len(s)
  BY <1>1
<1>3. z \in Box(s)
  BY CornerInBox
<1>4. e = IF f # 0 THEN s[d + 1] - 1 ELSE 0
  BY <1>2 DEF corner
<1> HIDE DEF s, z, e
<1>5. ASSUME NEW q \in Box(s) PROVE q[d + 1] \in Nat /\ s[d + 1] \in Nat /\ q[d + 1] < s[d + 1]
  BY <1>1, <1>2, BoxIs
<1>6. /\ p[d + 1] \in Nat /\ z[d + 1] \in Nat /\ s[d + 1] \in Nat
      /\ p[d + 1] < s[d + 1] /\ z[d + 1] < s[d + 1]
  BY <1>3, <1>5 DEF s
<1>7. z[d + 1] = e
  BY DEF e
<1>8. ASSUME p[d + 1] = e, NEW q \in Box(s)
      PROVE  IF f = 0 THEN p[d + 1] <= q[d + 1] ELSE p[d + 1] >= q[d + 1]
  <2>1. q[d + 1] \in Nat /\ s[d + 1] \in Nat /\ q[d + 1] < s[d + 1]
    BY <1>5
  <2>2. QED
    BY <1>4, <1>8, <2>1
<1>9. ASSUME \A q \in Box(s) : IF f = 0 THEN p[d + 1] <= q[d + 1] ELSE p[d + 1] >= q[d + 1]
      PROVE  p[d + 1] = e
  <2>1. IF f = 0 THEN p[d + 1] <= z[d + 1] ELSE p[d + 1] >= z[d + 1]
    BY <1>3, <1>9
  <2>2. QED
    BY <1>4, <1>6, <1>7, <2>1
<1>10. QED
  BY <1>8, <1>9 DEF s, z, e, Extreme

-----------------------------------------------------------------------------
(* The program with a field *)

AC == INSTANCE Contents WITH list <- <<>>, traits <- V!traits

LEMMA SameRanges ==
  /\ \A inds : AC!shape(inds) = shape(inds)
  /\ \A inds : AC!Indices(inds) = Indices(inds)
  /\ \A inds, k : AC!at(inds, k) = at(inds, k)
  /\ \A inds : AC!MultiIndices(inds) = MultiIndices(inds)
<1>1. \A inds : AC!shape(inds) = shape(inds)
  BY DEF AC!shape, shape, AC!div_ceil, div_ceil
<1>2. \A inds, k : AC!at(inds, k) = at(inds, k)
  BY DEF AC!at, at
<1>3. \A inds : AC!Indices(inds) = Indices(inds)
  BY <1>1, <1>2 DEF AC!Indices, Indices
<1>4. \A inds, d : AC!strip(inds, d) = strip(inds, d)
  BY DEF AC!strip, strip, AC!irange, irange
<1>5. \A f : AC!Range(f) = Range(f)
  BY DEF AC!Range, Range
<1>6. \A inds : AC!MultiIndices(inds) = MultiIndices(inds)
  BY <1>3, <1>4, <1>5 DEF AC!MultiIndices, MultiIndices
<1>7. QED
  BY <1>1, <1>2, <1>3, <1>6

\* How many indices a range has.
LEMMA ShapeType ==
  ASSUME NEW inds \in Ranges
  PROVE  /\ shape(inds) \in Nat
         /\ \A k \in 0 .. shape(inds) - 1 : at(inds, k) \in Element
<1>1. inds.imin \in Int /\ inds.imax \in Int /\ inds.istep \in Nat \ {0}
  BY CallsAssumption
<1>2. PICK x \in Int : x = - (inds.imax - inds.imin)
  BY <1>1
<1>3. PICK y \in Nat \ {0} : y = inds.istep
  BY <1>1
<1>4. x \div y \in Int
  BY SMT
<1>5. shape(inds) = IF - (x \div y) < 0 THEN 0 ELSE - (x \div y)
  BY <1>1, <1>2, <1>3 DEF shape, div_ceil
<1>6. shape(inds) \in Nat
  BY <1>4, <1>5
<1>7. ASSUME NEW k \in 0 .. shape(inds) - 1 PROVE at(inds, k) \in Element
  <2>1. k + 1 \in 1 .. shape(inds) /\ k + 1 - 1 = k
    BY <1>6
  <2>2. Indices(inds)[k + 1] = at(inds, k) /\ k + 1 \in DOMAIN Indices(inds)
    BY <2>1 DEF Indices
  <2>3. at(inds, k) \in Range(Indices(inds))
    BY <2>2 DEF Range
  <2>4. QED
    BY <2>3, CallsAssumption
<1>8. QED
  BY <1>6, <1>7

\* The indices of a box that begins at zero and has no gaps.
LEMMA WholeBox ==
  ASSUME NEW box \in Boxes, Whole(box)
  PROVE  multi_shape(box) \in Seq(Nat) /\ MultiIndices(box) = Box(multi_shape(box))
<1> DEFINE N == Len(box.imin)
           s == multi_shape(box)
           Line(d) == Range(Indices(strip(box, d)))
<1>1. /\ box \in [imin : Seq(Int), imax : Seq(Int), istep : Seq(Nat \ {0})]
      /\ Len(box.imax) = N /\ Len(box.istep) = N /\ N \in Nat
      /\ DOMAIN box.imin = 1 .. N /\ DOMAIN box.istep = 1 .. N
  BY CallsAssumption
<1>2. \A d \in 1 .. N : box.imin[d] = 0 /\ box.istep[d] = 1
  <2>1. /\ box.imin = [d \in DOMAIN box.imin |-> 0]
        /\ box.istep = [d \in DOMAIN box.istep |-> 1]
    BY <1>1 DEF Whole
  <2>2. QED
    BY <1>1, <2>1
<1>3. ASSUME NEW d \in 1 .. N
      PROVE  /\ s[d] = shape(strip(box, d)) /\ s[d] \in Nat
             /\ Line(d) = 0 .. s[d] - 1
  <2>1. box.imax[d] \in Int
    BY <1>1
  <2>2. PICK m \in Int : m = box.imax[d]
    BY <2>1
  <2>3. strip(box, d) = [imin |-> 0, imax |-> m, istep |-> 1]
    BY <1>2, <2>2 DEF strip, irange
  <2>4. shape(strip(box, d)) = IF m < 0 THEN 0 ELSE m
    <3>1. - ((- (m - 0)) \div 1) = m
      BY SMT
    <3>2. QED
      BY <2>3, <3>1 DEF shape, div_ceil
  <2>5. s[d] = shape(strip(box, d)) /\ s[d] \in Nat
    BY <1>1, <2>4 DEF multi_shape
  <2>6. Indices(strip(box, d)) = [k \in 1 .. s[d] |-> 0 + (k - 1) * 1]
    BY <2>3, <2>5 DEF Indices, at
  <2> HIDE DEF s
  <2>7. Line(d) = 0 .. s[d] - 1
    <3>1. ASSUME NEW x \in Line(d) PROVE x \in 0 .. s[d] - 1
      <4>1. PICK k \in 1 .. s[d] : x = 0 + (k - 1) * 1
        BY <2>6 DEF Range
      <4>2. QED
        BY <2>5, <4>1
    <3>2. ASSUME NEW x \in 0 .. s[d] - 1 PROVE x \in Line(d)
      <4>1. x + 1 \in 1 .. s[d] /\ 0 + (x + 1 - 1) * 1 = x
        BY <2>5
      <4>2. QED
        BY <2>6, <4>1 DEF Range
    <3>3. QED
      BY <3>1, <3>2
  <2>8. QED
    BY <2>5, <2>7
<1>4. s \in Seq(Nat) /\ Len(s) = N
  <2>1. s = [d \in 1 .. N |-> s[d]]
    BY <1>1 DEF multi_shape
  <2>2. s \in [1 .. N -> Nat]
    <3> HIDE DEF s
    <3>1. QED
      BY <1>3, <2>1
  <2>3. N \in Nat
    BY <1>1
  <2> HIDE DEF s, N
  <2>4. QED
    BY <2>2, <2>3
<1>5. MultiIndices(box) =
        {i \in [1 .. N -> UNION {Line(d) : d \in 1 .. N}] : \A d \in 1 .. N : i[d] \in Line(d)}
  BY <1>1 DEF MultiIndices
<1> HIDE DEF s, Line, N
<1>6. ASSUME NEW i \in MultiIndices(box) PROVE i \in Box(s)
  <2>1. i = [d \in 1 .. N |-> i[d]] /\ \A d \in 1 .. N : i[d] \in Line(d)
    BY <1>5
  <2>2. \A d \in 1 .. N : i[d] \in Nat /\ i[d] < s[d]
    BY <1>3, <2>1
  <2>3. i \in [1 .. N -> Nat]
    BY <2>1, <2>2
  <2>4. i \in Seq(Nat) /\ Len(i) = N
    BY <1>1, <2>3
  <2>5. QED
    BY <1>4, <2>2, <2>4 DEF Box
<1>7. ASSUME NEW i \in Box(s) PROVE i \in MultiIndices(box)
  <2>1. i \in Seq(Nat) /\ Len(i) = N /\ \A d \in 1 .. N : i[d] < s[d]
    BY <1>4 DEF Box
  <2>2. i = [d \in 1 .. N |-> i[d]] /\ \A d \in 1 .. N : i[d] \in Nat
    BY <2>1
  <2>3. \A d \in 1 .. N : i[d] \in Line(d)
    BY <1>3, <2>1, <2>2
  <2>4. i \in [1 .. N -> UNION {Line(d) : d \in 1 .. N}]
    BY <2>2, <2>3
  <2>5. QED
    BY <1>5, <2>3, <2>4
<1>8. QED
  BY <1>4, <1>6, <1>7 DEF s

\* The grid that iotaMapMulti builds on such a box.
LEMMA BuiltIs ==
  ASSUME NEW box \in Boxes, Whole(box)
  PROVE  Sound(Built(box)) /\ Field(Built(box)) = [p \in AC!MultiIndices(box) |-> Number(p)]
<1> DEFINE s == multi_shape(box)
           f == [p \in MultiIndices(box) |-> Number(p)]
<1>1. s \in Seq(Nat) /\ MultiIndices(box) = Box(s)
  BY WholeBox
<1>2. Built(box) = make(s, f)
  BY DEF Built, iotaMapMulti
<1> HIDE DEF s, f
<1>3. Sound(make(s, f)) /\ Field(make(s, f)) = [p \in Box(s) |-> f[p]]
  BY <1>1, Made
<1>4. [p \in Box(s) |-> f[p]] = [p \in MultiIndices(box) |-> Number(p)]
  BY <1>1 DEF f
<1>5. QED
  BY <1>2, <1>3, <1>4, SameRanges

\* The positions and the places of grids with one dimension.
LEMMA Line ==
  ASSUME NEW n \in Nat
  PROVE  /\ Box(<<n>>) = {<<k>> : k \in 0 .. n - 1}
         /\ prod(<<n>>) = n
         /\ \A k \in 0 .. n - 1 : linear(index_space(<<n>>), <<k>>) = k
<1> DEFINE s == <<n>>
           is == index_space(s)
<1>1. s \in Seq(Nat) /\ Len(s) = 1 /\ s[1] = n /\ DOMAIN s = {1}
  OBVIOUS
<1>2. \A k \in Nat : <<k>> \in Seq(Nat) /\ Len(<<k>>) = 1 /\ <<k>>[1] = k
  OBVIOUS
<1> HIDE DEF s
<1>3. Box(s) = {<<k>> : k \in 0 .. n - 1}
  <2>1. ASSUME NEW i \in Box(s) PROVE i \in {<<k>> : k \in 0 .. n - 1}
    <3>1. i \in Seq(Nat) /\ Len(i) = 1 /\ i[1] < n
      BY <1>1 DEF Box
    <3>2. PICK k \in Nat : k = i[1]
      BY <3>1
    <3>3. i = [j \in 1 .. 1 |-> i[j]]
      BY <3>1
    <3>4. [j \in 1 .. 1 |-> i[j]] = [j \in 1 .. 1 |-> k]
      BY <3>2
    <3>5. [j \in 1 .. 1 |-> k] = <<k>>
      OBVIOUS
    <3>6. k \in 0 .. n - 1
      BY <3>1, <3>2
    <3>7. QED
      BY <3>3, <3>4, <3>5, <3>6
  <2>2. ASSUME NEW k \in 0 .. n - 1 PROVE <<k>> \in Box(s)
    BY <1>1, <1>2 DEF Box
  <2>3. QED
    BY <2>1, <2>2
<1>4. PICK f : Products(f, s) /\ prod(s) = f[Len(s)]
  BY <1>1, ProdIs
<1>5. f[0] = 1 /\ f[1] = n /\ prod(s) = n
  <2>1. f[0] = 1 /\ f[1] = f[0] * s[1]
    BY <1>1, <1>4 DEF Products
  <2>2. QED
    BY <1>1, <1>4, <2>1
<1>6. ASSUME NEW k \in 0 .. n - 1 PROVE linear(is, <<k>>) = k
  <2>1. is \in Space /\ is.shape = s /\ is.offset = 0
    BY <1>1, <1>4, NewSpace
  <2>2. PICK i : i = <<k>>
    OBVIOUS
  <2>3. i \in Seq(Nat) /\ Len(i) = 1 /\ i[1] = k
    BY <2>2
  <2>4. 1 \in 1 .. Len(s) /\ 1 - 1 = 0 /\ \A j \in 1 .. Len(s) : s[j] > 0
    BY <1>1
  <2>5. stride(is, 1 - 1) = f[1 - 1]
    BY <1>1, <1>4, <2>4, NewStrides
  <2> HIDE DEF is
  <2>6. PICK L : Places(L, is, i) /\ linear(is, i) = L[Len(i)]
    BY <1>1, <2>1, <2>3, LinearIs
  <2>7. L[0] = 0 /\ L[1] = L[1 - 1] + i[1] * stride(is, 1 - 1)
    BY <2>1, <2>3, <2>6 DEF Places
  <2>8. QED
    BY <1>5, <2>2, <2>3, <2>4, <2>5, <2>6, <2>7
<1>7. QED
  BY <1>3, <1>5, <1>6 DEF s

\* The grid of a range holds its elements.
LEMMA IotaIs ==
  ASSUME NEW inds \in Ranges
  PROVE  /\ Sound(iotaMap1(inds))
         /\ Field(iotaMap1(inds)) = [p \in {<<k>> : k \in 0 .. shape(inds) - 1} |-> at(inds, p[1])]
<1> DEFINE n == shape(inds)
           data == V!iotaMap(inds)
           is == index_space(<<n>>)
<1>1. n \in Nat
  BY ShapeType
<1>2. data = [i \in 1 .. n |-> at(inds, i - 1)]
  BY DEF V!iotaMap, V!Indices, V!shape, shape, V!div_ceil, div_ceil, V!at, at
<1>3. iotaMap1(inds) = grid(is, data)
  BY DEF iotaMap1
<1> HIDE DEF n, data
<1>4. IsArray(data, prod(<<n>>))
  BY <1>1, <1>2, Line DEF IsArray
<1>5. <<n>> \in Seq(Nat) /\ is.shape = <<n>>
  BY <1>1 DEF index_space
<1>6. Sound(grid(is, data))
  BY <1>4, <1>5, NewSound
<1> HIDE DEF is
<1>7. Field(grid(is, data)) = [p \in {<<k>> : k \in 0 .. n - 1} |-> at(inds, p[1])]
  <2>1. Field(grid(is, data)) =
          [p \in {<<k>> : k \in 0 .. n - 1} |-> data[linear(is, p) + 1]]
    BY <1>1, <1>5, Line DEF Field, getIndex, grid
  <2>2. ASSUME NEW p \in {<<k>> : k \in 0 .. n - 1} PROVE data[linear(is, p) + 1] = at(inds, p[1])
    <3>1. PICK k \in 0 .. n - 1 : p = <<k>>
      OBVIOUS
    <3>2. linear(is, p) = k /\ p[1] = k
      BY <1>1, <3>1, Line DEF is
    <3>3. k + 1 \in 1 .. n /\ k + 1 - 1 = k
      BY <1>1
    <3>4. QED
      BY <1>2, <3>2, <3>3
  <2>3. QED
    BY <2>1, <2>2
<1>8. QED
  BY <1>3, <1>6, <1>7 DEF n

\* A grid of ones in some number of dimensions has one position.
LEMMA One ==
  ASSUME NEW n \in Nat, NEW x
  PROVE  /\ Sound(munit(n, x))
         /\ Field(munit(n, x)) = [p \in {[d \in 1 .. n |-> 0]} |-> x]
<1> DEFINE s == [k \in 1 .. n |-> 1]
           z == [d \in 1 .. n |-> 0]
           is == index_space(s)
           data == V!munit(x)
<1>1. s \in Seq(Nat) /\ Len(s) = n /\ \A k \in 1 .. n : s[k] = 1
  <2>1. s \in [1 .. n -> Nat]
    OBVIOUS
  <2>2. QED
    BY <2>1
<1>2. z \in Seq(Nat) /\ Len(z) = n /\ \A k \in 1 .. n : z[k] = 0
  <2>1. z \in [1 .. n -> Nat]
    OBVIOUS
  <2>2. QED
    BY <2>1
<1>3. data = <<x>>
  BY DEF V!munit
<1>4. munit(n, x) = grid(is, data)
  BY DEF munit
<1>5. z = [d \in 1 .. n |-> 0]
  OBVIOUS
<1> HIDE DEF s, z, data
<1>6. Box(s) = {z}
  <2>1. z \in Box(s)
    BY <1>1, <1>2 DEF Box
  <2>2. ASSUME NEW p \in Box(s) PROVE p = z
    <3>1. p \in Seq(Nat) /\ Len(p) = n /\ \A k \in 1 .. n : p[k] < 1
      BY <1>1 DEF Box
    <3>2. p = [k \in 1 .. n |-> p[k]] /\ \A k \in 1 .. n : p[k] = 0
      BY <3>1
    <3>3. QED
      BY <1>5, <3>2
  <2>3. QED
    BY <2>1, <2>2
<1>7. prod(s) = 1
  <2>1. PICK f : Products(f, s) /\ prod(s) = f[Len(s)]
    BY <1>1, ProdIs
  <2> DEFINE S == {k \in 0 .. n : f[k] = 1}
  <2>2. 0 \in S
    BY <2>1 DEF Products
  <2>3. ASSUME NEW k \in 1 .. n, k - 1 \in S PROVE k \in S
    <3>1. f[k] = f[k - 1] * s[k]
      BY <1>1, <2>1 DEF Products
    <3>2. QED
      BY <1>1, <2>3, <3>1
  <2>4. 0 .. n \subseteq S
    <3> HIDE DEF S
    <3>1. QED
      BY <2>2, <2>3, Upwards
  <2>5. QED
    BY <1>1, <2>1, <2>4
<1>8. is.shape = s
  BY DEF index_space
<1>9. Sound(grid(is, data))
  <2>1. IsArray(data, prod(s))
    BY <1>3, <1>7 DEF IsArray
  <2>2. QED
    BY <1>1, <2>1, NewSound
<1>10. linear(is, z) = 0
  <2>1. linear(is, z) \in 0 .. is.allocated - 1
    BY <1>6, <1>8, <1>9 DEF Sound, grid
  <2>2. is.allocated = 1
    BY <1>7 DEF index_space
  <2>3. QED
    BY <2>1, <2>2
<1> HIDE DEF is
<1>11. Field(grid(is, data)) = [p \in {z} |-> x]
  BY <1>3, <1>6, <1>8, <1>10 DEF Field, getIndex, grid
<1>12. QED
  BY <1>4, <1>9, <1>11 DEF z

\* A grid without positions.
LEMMA None ==
  ASSUME NEW n \in Nat \ {0}
  PROVE  Sound(mzero(n)) /\ Box(mzero(n).indexing.shape) = {}
<1> DEFINE s == [k \in 1 .. n |-> 0]
           is == index_space(s)
           data == [k \in 1 .. IF n = 0 THEN 1 ELSE 0 |-> unset]
<1>1. s \in Seq(Nat) /\ Len(s) = n /\ \A k \in 1 .. n : s[k] = 0
  <2>1. s \in [1 .. n -> Nat]
    OBVIOUS
  <2>2. QED
    BY <2>1
<1>2. mzero(n) = grid(is, data) /\ is.shape = s
  BY DEF mzero, index_space
<1>3. IsArray(data, 0)
  BY DEF IsArray
<1> HIDE DEF s, data
<1>4. n \in 1 .. n /\ n - 1 \in 0 .. n
  OBVIOUS
<1>5. Box(s) = {}
  <2>1. ASSUME NEW p \in Box(s) PROVE FALSE
    <3>1. p[n] \in Nat /\ p[n] < s[n]
      BY <1>1, <1>4, BoxIs
    <3>2. QED
      BY <1>1, <1>4, <3>1
  <2>2. QED
    BY <2>1
<1>6. prod(s) = 0
  <2>1. PICK f : Products(f, s) /\ prod(s) = f[Len(s)]
    BY <1>1, ProdIs
  <2>2. f[n - 1] \in Nat /\ f[n] = f[n - 1] * s[n]
    BY <1>1, <1>4, <2>1 DEF Products
  <2>3. QED
    BY <1>1, <1>4, <2>1, <2>2
<1>7. Sound(grid(is, data))
  BY <1>1, <1>3, <1>6, NewSound
<1>8. QED
  BY <1>2, <1>5, <1>7 DEF grid

\* fmap calls f with the elements of the field.
LEMMA MapIs ==
  ASSUME NEW xs, Sound(xs)
  PROVE  /\ Sound(fmap(Twist, xs))
         /\ Field(fmap(Twist, xs)) = [p \in Box(xs.indexing.shape) |-> Twist[getIndex(xs, p)]]
<1> DEFINE s == xs.indexing.shape
           f == [p \in Positions(xs) |-> Twist[getIndex(xs, p)]]
<1>1. xs.indexing \in Space /\ s \in Seq(Nat)
  BY DEF Sound, Space
<1>2. Positions(xs) = Box(s)
  BY <1>1, PositionsAre DEF Positions
<1>3. fmap(Twist, xs) = make(s, f)
  BY DEF fmap, shape_of
<1>4. \A p \in Box(s) : f[p] = Twist[getIndex(xs, p)]
  BY <1>2
<1> HIDE DEF s, f
<1>5. Sound(make(s, f)) /\ Field(make(s, f)) = [p \in Box(s) |-> f[p]]
  BY <1>1, Made
<1>6. QED
  BY <1>3, <1>4, <1>5 DEF s

\* The assertions of a boundary hold if there is a position.
LEMMA SideOk ==
  ASSUME NEW is \in Space, NEW i, side_ok(is, i)
  PROVE  /\ i \in 0 .. 2 * Len(is.shape) - 1
         /\ corner(is, i \div 2, i % 2) \in Box(is.shape)
<1> DEFINE N == Len(is.shape)
           z == corner(is, i \div 2, i % 2)
<1>1. is.shape \in Seq(Nat) /\ N \in Nat /\ DOMAIN is.shape = 1 .. N
  BY DEF Space
<1>2. i \in 0 .. 2 * N - 1 /\ linear_ok(is, z)
  BY DEF side_ok, corner, rank
<1>3. z = [k \in 1 .. N |-> IF k = i \div 2 + 1 /\ i % 2 # 0 THEN is.shape[k] - 1 ELSE 0]
  BY <1>1 DEF corner
<1> HIDE DEF z, N
<1>4. \A k \in 1 .. N : z[k] \in Int /\ z[k] >= 0 /\ z[k] < is.shape[k]
  <2>1. DOMAIN z = 1 .. N
    BY <1>3
  <2>2. \A k \in 1 .. N : z[k] \in Int
    BY <1>1, <1>3 DEF N
  <2>3. QED
    BY <1>2, <2>1, <2>2 DEF linear_ok
<1>5. z \in [1 .. N -> Nat]
  <2>1. z = [k \in 1 .. N |-> z[k]]
    BY <1>3
  <2>2. QED
    BY <1>4, <2>1
<1>6. z \in Seq(Nat) /\ Len(z) = N
  BY <1>1, <1>5
<1>7. z \in Box(is.shape)
  BY <1>4, <1>6 DEF Box, N
<1>8. QED
  BY <1>2, <1>7 DEF z, N

\* The field h is that of g at one of its ends, without the dimension.
EndParts(E1, S1, h, g, k, f) ==
  /\ E1 = {q \in DOMAIN g :
             \A r \in DOMAIN g : IF f = 0 THEN q[k] <= r[k] ELSE q[k] >= r[k]}
  /\ S1 = [q \in E1 |-> RemoveAt(q, k)]
  /\ h = [r \in Range(S1) |-> g[CHOOSE q \in E1 : S1[q] = r]]

IsEnd(h, g) ==
  \E p \in DOMAIN g : \E k \in DOMAIN p, f \in 0 .. 1 : \E E1, S1 :
    EndParts(E1, S1, h, g, k, f)

LEMMA SideIs ==
  ASSUME NEW xs, Sound(xs), NEW i, side_ok(xs.indexing, i), NEW g, g = Field(xs)
  PROVE  Sound(boundary(xs, i)) /\ IsEnd(Field(boundary(xs, i)), g)
<1> DEFINE is == xs.indexing
           s == is.shape
<1>1. is \in Space /\ s \in Seq(Nat) /\ Len(s) \in Nat
  BY DEF Sound, Space
<1>2. i \in 0 .. 2 * Len(s) - 1 /\ corner(is, i \div 2, i % 2) \in Box(s)
  BY <1>1, SideOk
<1>3. PICK d \in 0 .. Len(s) - 1, f \in 0 .. 1 : d = i \div 2 /\ f = i % 2
  BY <1>1, <1>2, Direction
<1>4. PICK p \in Box(s) : p = corner(is, d, f)
  BY <1>2, <1>3
<1>5. Box(s) # {}
  BY <1>4
<1>6. PICK e : e = corner(is, d, f)[d + 1]
  OBVIOUS
<1>7. PICK k : k = d + 1 /\ k \in 1 .. Len(s) /\ k \in DOMAIN p
  <2>1. d + 1 \in 1 .. Len(s)
    BY <1>1
  <2>2. Len(p) = Len(s) /\ p \in Seq(Nat)
    BY <1>1, BoxIs
  <2>3. QED
    BY <2>1, <2>2
<1> DEFINE End == {q \in Box(s) : \A r \in Box(s) : IF f = 0 THEN q[k] <= r[k] ELSE q[k] >= r[k]}
           Side1 == [q \in End |-> RemoveAt(q, k)]
           u == RemoveAt(s, k)
<1>8. DOMAIN g = Box(s) /\ \A q \in Box(s) : g[q] = getIndex(xs, q)
  BY DEF Field
<1>9. /\ Sound(boundary(xs, i)) /\ boundary(xs, i).indexing.shape = u
      /\ \A r \in Box(u) : /\ inserted(r, d, e) \in Box(s)
                           /\ inserted(r, d, e)[k] = e
                           /\ RemoveAt(inserted(r, d, e), k) = r
                           /\ getIndex(boundary(xs, i), r) = getIndex(xs, inserted(r, d, e))
  <2>1. /\ i \in 0 .. 2 * Len(xs.indexing.shape) - 1
        /\ d \in 0 .. Len(xs.indexing.shape) - 1 /\ d = i \div 2
        /\ e = corner(xs.indexing, d, i % 2)[d + 1] /\ Box(xs.indexing.shape) # {}
    BY <1>2, <1>3, <1>5, <1>6
  <2>2. Sound(boundary(xs, i)) /\ IsSide(boundary(xs, i), xs, d, e)
    <3> HIDE DEF is
    <3>1. QED
      BY <2>1, SideSound
  <2>3. QED
    BY <1>7, <2>2 DEF IsSide
<1>10. ASSUME NEW q \in Box(s) PROVE q \in End <=> q[k] = e
  <2>1. Extreme(s, q, d + 1, f) <=> q[d + 1] = e
    <3>1. /\ is \in Space /\ Box(is.shape) # {} /\ d \in 0 .. Len(is.shape) - 1 /\ f \in 0 .. 1
          /\ q \in Box(is.shape)
      BY <1>1, <1>3, <1>5
    <3>2. Extreme(is.shape, q, d + 1, f) <=> q[d + 1] = corner(is, d, f)[d + 1]
      <4> HIDE DEF is
      <4>1. QED
        BY <3>1, EndIs
    <3>3. QED
      BY <1>6, <3>2
  <2>2. QED
    BY <1>7, <2>1 DEF Extreme
<1>11. ASSUME NEW q \in End PROVE RemoveAt(q, k) \in Box(u) /\ inserted(RemoveAt(q, k), d, e) = q
  <2>1. q \in Box(s) /\ q[k] = e
    BY <1>10
  <2>2. QED
    BY <1>1, <1>7, <2>1, Deletion
<1> HIDE DEF End, u
<1>12. End \subseteq Box(s)
  BY DEF End
<1>13. ASSUME NEW r \in Box(u)
       PROVE  inserted(r, d, e) \in End /\ RemoveAt(inserted(r, d, e), k) = r
  BY <1>9, <1>10
<1>14. Range(Side1) = Box(u)
  <2>1. ASSUME NEW r \in Range(Side1) PROVE r \in Box(u)
    <3>1. PICK q \in End : r = RemoveAt(q, k)
      BY DEF Range
    <3>2. QED
      BY <1>11, <3>1
  <2>2. ASSUME NEW r \in Box(u) PROVE r \in Range(Side1)
    BY <1>13 DEF Range
  <2>3. QED
    BY <2>1, <2>2
<1>15. ASSUME NEW r \in Box(u)
       PROVE  g[CHOOSE q \in End : Side1[q] = r] = getIndex(boundary(xs, i), r)
  <2>1. PICK q : q = CHOOSE v \in End : Side1[v] = r
    OBVIOUS
  <2>2. q \in End /\ RemoveAt(q, k) = r
    BY <1>13, <2>1
  <2>3. q = inserted(r, d, e)
    BY <1>11, <2>2
  <2>4. QED
    BY <1>8, <1>9, <1>12, <2>1, <2>2, <2>3
<1>16. Field(boundary(xs, i)) = [r \in Box(u) |-> getIndex(boundary(xs, i), r)]
  BY <1>9 DEF Field
<1> DEFINE at_end(r) == CHOOSE q \in End : Side1[q] = r
<1>17. Field(boundary(xs, i)) = [r \in Range(Side1) |-> g[at_end(r)]]
  <2>1. \A r \in Box(u) : g[at_end(r)] = getIndex(boundary(xs, i), r)
    BY <1>15
  <2> HIDE DEF at_end, Side1
  <2>2. QED
    BY <1>14, <1>16, <2>1
<1>18. p \in DOMAIN g
  BY <1>8
<1>19. End = {q \in DOMAIN g :
                \A r \in DOMAIN g : IF f = 0 THEN q[k] <= r[k] ELSE q[k] >= r[k]}
  BY <1>8 DEF End
<1>20. IsEnd(Field(boundary(xs, i)), g)
  <2>1. k \in DOMAIN p /\ f \in 0 .. 1
    BY <1>3, <1>7
  <2>2. PICK E1, S1, h : E1 = End /\ S1 = Side1 /\ h = Field(boundary(xs, i))
    OBVIOUS
  <2>3. /\ E1 = {q \in DOMAIN g :
                   \A r \in DOMAIN g : IF f = 0 THEN q[k] <= r[k] ELSE q[k] >= r[k]}
        /\ S1 = [q \in E1 |-> RemoveAt(q, k)]
    BY <1>19, <2>2
  <2>4. h = [r \in Range(S1) |-> g[CHOOSE q \in E1 : S1[q] = r]]
    <3> HIDE DEF Side1
    <3>1. QED
      BY <1>17, <2>2
  <2>5. EndParts(E1, S1, h, g, k, f)
    BY <2>3, <2>4 DEF EndParts
  <2>6. IsEnd(h, g)
    BY <1>18, <2>1, <2>5 DEF IsEnd
  <2>7. QED
    BY <2>2, <2>6
<1>21. QED
  BY <1>9, <1>20

-----------------------------------------------------------------------------
(* The size *)

\* The loop enumerates every position once.
LEMMA LoopOnce ==
  ASSUME NEW is \in Space, NEW m \in 1 .. size(is), NEW n \in 1 .. size(is),
         loop(is)[m] = loop(is)[n]
  PROVE  m = n
<1> DEFINE s == is.shape
<1>1. s \in Seq(Nat) /\ Len(s) \in Nat
  BY DEF Space
<1>2. PICK f : Products(f, s)
  BY <1>1, ProdIs
<1>3. PICK N \in Nat : N = Len(s)
  BY <1>1
<1>4. /\ size(is) = f[N]
      /\ loop(is) = [j \in 1 .. f[N] |-> [k \in 1 .. N |-> (((j - 1) \div f[k - 1]) % s[k])]]
  BY <1>2, <1>3, LoopIs
<1>5. f \in [0 .. N -> Nat] /\ f[0] = 1 /\ \A k \in 1 .. N : f[k] = f[k - 1] * s[k]
  BY <1>2, <1>3 DEF Products
<1>6. PICK x \in Nat, y \in Nat : x = m - 1 /\ y = n - 1 /\ x < f[N] /\ y < f[N]
  <2>1. f[N] \in Nat
    BY <1>5
  <2>2. QED
    BY <1>4, <2>1
<1>7. \A k \in 1 .. N : ((x \div f[k - 1]) % s[k]) = ((y \div f[k - 1]) % s[k])
  BY <1>4, <1>6
<1>8. \A k \in 1 .. N : s[k] \in Nat
  BY <1>1, <1>3
<1> HIDE DEF s
<1>9. \A k \in 1 .. N : f[k - 1] \in Nat \ {0} /\ s[k] \in Nat \ {0} /\ f[k] \in Nat \ {0}
  <2> DEFINE S == {d \in 0 .. N : f[N - d] \in Nat \ {0}}
  <2>1. 0 \in S
    <3>1. f[N] \in Nat /\ N - 0 = N
      BY <1>5
    <3>2. QED
      BY <1>6, <3>1
  <2>2. ASSUME NEW k \in 1 .. N, f[k] # 0 PROVE f[k - 1] \in Nat \ {0} /\ s[k] \in Nat \ {0}
    <3>1. k - 1 \in 0 .. N
      OBVIOUS
    <3>2. PICK a \in Nat, b \in Nat : a = f[k - 1] /\ b = s[k]
      BY <1>5, <1>8, <3>1
    <3>3. f[k] = a * b
      BY <1>5, <3>2
    <3>4. a # 0 /\ b # 0
      BY <2>2, <3>3
    <3>5. QED
      BY <3>2, <3>4
  <2>3. ASSUME NEW d \in 1 .. N, d - 1 \in S PROVE d \in S
    <3>1. N - (d - 1) \in 1 .. N /\ N - (d - 1) - 1 = N - d
      OBVIOUS
    <3>2. f[N - (d - 1)] # 0
      BY <2>3
    <3>3. QED
      BY <2>2, <3>1, <3>2
  <2>4. 0 .. N \subseteq S
    <3> HIDE DEF S
    <3>1. QED
      BY <2>1, <2>3, Upwards
  <2>5. ASSUME NEW k \in 1 .. N PROVE f[k] \in Nat \ {0}
    <3>1. N - k \in 0 .. N /\ N - (N - k) = k
      OBVIOUS
    <3>2. QED
      BY <2>4, <3>1
  <2>6. QED
    BY <2>2, <2>5
<1> DEFINE Same == {d \in 0 .. N : x \div f[N - d] = y \div f[N - d]}
<1>10. 0 \in Same
  <2>1. PICK b \in Nat : b = f[N]
    BY <1>5
  <2>2. x < b /\ y < b /\ b \in Nat \ {0} /\ N - 0 = N
    BY <1>6, <2>1
  <2>3. x \div b = 0
    <3>1. 0 \in Nat /\ 0 * b <= x /\ x < (0 + 1) * b
      BY <2>2
    <3>2. QED
      BY <2>2, <3>1, QuotientIs
  <2>4. y \div b = 0
    <3>1. 0 \in Nat /\ 0 * b <= y /\ y < (0 + 1) * b
      BY <2>2
    <3>2. QED
      BY <2>2, <3>1, QuotientIs
  <2>5. QED
    BY <2>1, <2>2, <2>3, <2>4
<1>11. ASSUME NEW d \in 1 .. N, d - 1 \in Same PROVE d \in Same
  <2>1. PICK k \in 1 .. N : k = N - (d - 1) /\ k - 1 = N - d
    OBVIOUS
  <2>2. PICK a \in Nat \ {0}, b \in Nat \ {0} : a = f[k - 1] /\ b = s[k] /\ f[k] = a * b
    BY <1>5, <1>9
  <2>3. ASSUME NEW w \in Nat PROVE w \div a = b * (w \div (a * b)) + ((w \div a) % b)
    BY NestedQuotient
  <2>4. x \div (a * b) = y \div (a * b) /\ ((x \div a) % b) = ((y \div a) % b)
    BY <1>7, <1>11, <2>1, <2>2
  <2>5. x \div a = y \div a
    BY <2>3, <2>4
  <2>6. QED
    BY <2>1, <2>2, <2>5
<1>12. 0 .. N \subseteq Same
  <2> HIDE DEF Same
  <2>1. QED
    BY <1>10, <1>11, Upwards
<1>13. x \div 1 = y \div 1
  <2>1. N \in Same /\ N - N = 0
    BY <1>12
  <2>2. QED
    BY <1>5, <2>1
<1>14. x \div 1 = x /\ y \div 1 = y
  BY SMT
<1>15. QED
  BY <1>6, <1>13, <1>14

\* There are as many positions as size says.
LEMMA HowMany ==
  ASSUME NEW is \in Space
  PROVE  Cardinality(Range(loop(is))) = size(is)
<1>1. size(is) \in Nat /\ DOMAIN loop(is) = 1 .. size(is)
  BY PositionsAre
<1> DEFINE S == 1 .. size(is)
           T == Range(loop(is))
<1>2. loop(is) \in [S -> T] /\ \A x \in S : loop(is)[x] \in T
  <2>1. loop(is) = [n \in S |-> loop(is)[n]]
    BY DEF loop
  <2>2. QED
    BY <1>1, <2>1 DEF Range
<1>3. \A m, n \in S : loop(is)[m] = loop(is)[n] => m = n
  BY LoopOnce
<1>4. \A t \in T : \E n \in S : loop(is)[n] = t
  BY <1>1 DEF Range
<1> HIDE DEF S, T
<1>5. loop(is) \in Bijection(S, T)
  BY <1>2, <1>3, <1>4 DEF Bijection, Injection, Surjection, IsInjective
<1>6. IsFiniteSet(S) /\ Cardinality(S) = size(is)
  BY <1>1, FS_Interval DEF S
<1>7. Cardinality(T) = Cardinality(S)
  BY <1>5, <1>6, FS_Bijection DEF ExistsBijection
<1>8. QED
  BY <1>6, <1>7 DEF T

-----------------------------------------------------------------------------
(* The theorems *)

\* The places of a sound grid.
LEMMA SoundApart == ASSUME Sound(c) PROVE Apart
<1> DEFINE is == c.indexing
           s == is.shape
<1>1. is \in Space /\ s \in Seq(Nat) /\ Len(s) \in Nat /\ is.allocated \in Nat
  BY DEF Sound, Space
<1>2. Positions(c) = Box(s)
  BY <1>1, PositionsAre DEF Positions
<1>3. is.allocated = V!msize(c.data)
  <2>1. PICK n \in Nat : n = is.allocated
    BY <1>1
  <2>2. PICK data : data = c.data /\ data = [m \in 1 .. n |-> data[m]]
    BY <2>1 DEF Sound, IsArray
  <2>3. data \in Seq(Range(data)) /\ Len(data) = n
    <3>1. data \in [1 .. n -> Range(data)]
      <4>1. DOMAIN data = 1 .. n
        BY <2>2
      <4>2. \A m \in 1 .. n : data[m] \in Range(data)
        BY <4>1 DEF Range
      <4>3. QED
        BY <2>2, <4>2
    <3>2. QED
      BY <3>1
  <2>4. QED
    BY <2>1, <2>2, <2>3 DEF V!msize
<1>4. Cardinality(Positions(c)) = size(is)
  BY <1>1, HowMany DEF Positions
<1>5. ASSUME NEW i \in Box(s) PROVE linear_ok(is, i)
  <2>1. linear(is, i) \in 0 .. is.allocated - 1
    BY DEF Sound
  <2>2. i \in Seq(Nat) /\ Len(i) = Len(s) /\ \A k \in 1 .. Len(s) : i[k] \in Nat /\ i[k] < s[k]
    BY <1>1, BoxIs
  <2>3. DOMAIN i = 1 .. Len(s)
    BY <2>2
  <2>4. linear(is, i) < is.allocated
    BY <1>1, <2>1
  <2>5. \A k \in DOMAIN i : i[k] >= 0 /\ i[k] < is.shape[k]
    BY <2>2, <2>3
  <2>6. QED
    BY <2>4, <2>5 DEF linear_ok
<1>6. \A i, j \in Box(s) : linear(is, i) = linear(is, j) => i = j
  BY DEF Sound
<1>7. ASSUME NEW d \in DOMAIN s, NEW f \in 0 .. 1, ~ mempty(c) PROVE side_ok(is, 2 * d - 2 + f)
  <2>1. d \in 1 .. Len(s) /\ d \in Nat
    BY <1>1
  <2>2. Box(s) # {}
    <3>1. size(is) \in Nat \ {0} /\ DOMAIN loop(is) = 1 .. size(is) /\ Range(loop(is)) = Box(s)
      BY <1>1, <1>7, PositionsAre DEF mempty
    <3>2. loop(is)[1] \in Range(loop(is))
      BY <3>1 DEF Range
    <3>3. QED
      BY <3>1, <3>2
  <2>3. PICK i : i = 2 * d - 2 + f
    OBVIOUS
  <2>4. i \in 0 .. 2 * Len(s) - 1 /\ i \div 2 = d - 1 /\ i % 2 = f
    <3>1. PICK N \in Nat : N = Len(s) /\ d \in 1 .. N
      BY <1>1, <2>1
    <3> HIDE DEF s
    <3>2. PICK x \in Nat : x = d - 1 /\ i = f + 2 * x
      BY <2>3, <3>1
    <3>3. i \div 2 = d - 1 /\ i % 2 = f
      <4>1. 2 \in Nat \ {0} /\ f \in 0 .. 2 - 1 /\ Composed(i, 2, x, f)
        BY <3>2 DEF Composed
      <4>2. i \div 2 = x /\ (i % 2) = f
        BY <4>1, RemainderIs DEF Splits
      <4>3. QED
        BY <3>2, <4>2
    <3>4. i \in 0 .. 2 * N - 1
      BY <2>3, <3>1
    <3>5. QED
      BY <3>1, <3>3, <3>4
  <2>5. d - 1 \in 0 .. Len(s) - 1
    BY <1>1, <2>1
  <2>6. corner(is, d - 1, f) \in Box(s)
    <3> HIDE DEF is
    <3>1. QED
      BY <1>1, <2>2, <2>5, CornerInBox
  <2>7. linear_ok(is, corner(is, d - 1, f))
    BY <1>5, <2>6
  <2>8. QED
    BY <2>3, <2>4, <2>7 DEF side_ok, corner, rank
<1>8. QED
  BY <1>2, <1>3, <1>4, <1>5, <1>6, <1>7 DEF Apart

LEMMA FieldIs == ASSUME Sound(c) PROVE field = Field(c)
  BY PositionsAre DEF field, Field, Positions, Sound

LEMMA Starts == ASSUME Init PROVE Sound(c) /\ AC!FieldInit
<1>1. PICK box \in Boxes : Whole(box) /\ c = Built(box)
  BY DEF Init
<1>2. Sound(c) /\ Field(c) = [p \in AC!MultiIndices(box) |-> Number(p)]
  BY <1>1, BuiltIs
<1>3. QED
  BY <1>2, FieldIs DEF AC!FieldInit

\* Every step keeps the grid sound and is a step of the field.
LEMMA Steps ==
  ASSUME Sound(c), [Next]_c
  PROVE  Sound(c)' /\ [AC!FieldNext]_field
<1>1. PICK g : g = field /\ g = Field(c)
  BY FieldIs
<1>2. ASSUME Sound(c') PROVE field' = Field(c')
  <2>1. Positions(c') = Box(c'.indexing.shape)
    BY <1>2, PositionsAre DEF Positions, Sound
  <2>2. QED
    BY <2>1 DEF field, Field
<1>3. CASE UNCHANGED c
  BY <1>3 DEF Sound, field
<1>4. CASE Build
  <2>1. PICK box \in Boxes : Whole(box) /\ c' = Built(box)
    BY <1>4 DEF Build
  <2>2. Sound(c') /\ Field(c') = [p \in AC!MultiIndices(box) |-> Number(p)]
    BY <2>1, BuiltIs
  <2>3. AC!FieldBuild
    BY <1>2, <2>2 DEF AC!FieldBuild
  <2>4. QED
    BY <2>2, <2>3 DEF AC!FieldNext
<1>5. CASE Iota
  <2>1. CASE \E inds \in Ranges : c' = iotaMap1(inds)
    <3>1. PICK inds \in Ranges : c' = iotaMap1(inds)
      BY <2>1
    <3>2. Sound(c') /\ field' = [p \in {<<k>> : k \in 0 .. shape(inds) - 1} |-> at(inds, p[1])]
      BY <1>2, <3>1, IotaIs
    <3>3. AC!FieldIota
      BY <3>2, SameRanges DEF AC!FieldIota
    <3>4. QED
      BY <3>2, <3>3 DEF AC!FieldNext
  <2>2. CASE \E inds \in Ranges : shape(inds) = 1 /\ c' = iotaMap0(inds)
    <3>1. PICK inds \in Ranges : shape(inds) = 1 /\ c' = iotaMap0(inds)
      BY <2>2
    <3>2. PICK x \in Element : x = at(inds, 0)
      BY <3>1, ShapeType
    <3>3. c' = munit(0, x)
      BY <3>1, <3>2 DEF iotaMap0, munit, V!iotaMap, V!munit, V!Indices, V!shape, shape,
                        V!div_ceil, div_ceil, V!at, at
    <3>4. Sound(c') /\ field' = [p \in {[d \in 1 .. 0 |-> 0]} |-> x]
      BY <1>2, <3>3, One
    <3>5. AC!FieldIota
      BY <3>4 DEF AC!FieldIota
    <3>6. QED
      BY <3>4, <3>5 DEF AC!FieldNext
  <2>3. QED
    BY <1>5, <2>1, <2>2 DEF Iota
<1>6. CASE Unit
  <2>1. PICK n \in 0 .. 2, inds \in Ranges : shape(inds) = 1 /\ c' = munit(n, at(inds, 0))
    BY <1>6 DEF Unit
  <2>2. PICK x \in Element : x = at(inds, 0)
    BY <2>1, ShapeType
  <2>3. n \in Nat /\ c' = munit(n, x)
    BY <2>1, <2>2
  <2>4. Sound(munit(n, x)) /\ Field(munit(n, x)) = [p \in {[d \in 1 .. n |-> 0]} |-> x]
    BY <2>3, One
  <2>5. Sound(c') /\ field' = [p \in {[d \in 1 .. n |-> 0]} |-> x]
    BY <1>2, <2>3, <2>4
  <2>6. AC!FieldIota
    BY <2>5 DEF AC!FieldIota
  <2>7. QED
    BY <2>5, <2>6 DEF AC!FieldNext
<1>7. CASE Zero
  <2>1. PICK n \in 1 .. 2 : c' = mzero(n)
    BY <1>7 DEF Zero
  <2>2. Sound(c') /\ Box(c'.indexing.shape) = {}
    BY <2>1, None
  <2>3. PICK inds \in Ranges : shape(inds) = 0
    BY CallsAssumption
  <2>4. {<<k>> : k \in 0 .. shape(inds) - 1} = {}
    BY <2>3
  <2>5. field' = [p \in {<<k>> : k \in 0 .. shape(inds) - 1} |-> at(inds, p[1])]
    BY <1>2, <2>2, <2>4 DEF Field
  <2>6. AC!FieldIota
    BY <2>5, SameRanges DEF AC!FieldIota
  <2>7. QED
    BY <2>2, <2>6 DEF AC!FieldNext
<1>8. CASE Map
  <2>1. c' = fmap(Twist, c)
    BY <1>8 DEF Map
  <2>2. Sound(c') /\ field' = [p \in Box(c.indexing.shape) |-> Twist[getIndex(c, p)]]
    BY <1>2, <2>1, MapIs
  <2>3. DOMAIN g = Box(c.indexing.shape) /\ \A p \in DOMAIN g : g[p] = getIndex(c, p)
    BY <1>1 DEF Field
  <2>4. field' = [p \in DOMAIN g |-> Twist[g[p]]]
    BY <2>2, <2>3
  <2>5. AC!FieldMap
    BY <1>1, <2>4 DEF AC!FieldMap, AC!Points
  <2>6. QED
    BY <2>2, <2>5 DEF AC!FieldNext
<1>9. CASE Side
  <2>1. PICK i : side_ok(c.indexing, i) /\ c' = boundary(c, i)
    BY <1>9 DEF Side
  <2>2. Sound(c')
    BY <1>1, <2>1, SideIs
  <2>3. PICK h : h = Field(boundary(c, i)) /\ field' = h
    BY <1>2, <2>1, <2>2
  <2>4. IsEnd(h, g)
    BY <1>1, <2>1, <2>3, SideIs
  <2>5. AC!FieldEnd
    <3>1. \A q, k : AC!RemoveAt(q, k) = RemoveAt(q, k)
      BY DEF AC!RemoveAt, RemoveAt
    <3>2. \A f : AC!Range(f) = Range(f)
      BY DEF AC!Range, Range
    <3>3. PICK p \in DOMAIN g : \E k \in DOMAIN p, f \in 0 .. 1 : \E E1, S1 :
            EndParts(E1, S1, h, g, k, f)
      BY <2>4 DEF IsEnd
    <3>4. PICK k \in DOMAIN p, f \in 0 .. 1 : \E E1, S1 : EndParts(E1, S1, h, g, k, f)
      BY <3>3
    <3>5. PICK E1, S1 : EndParts(E1, S1, h, g, k, f)
      BY <3>4
    <3>6. AC!End(k, f) = E1
      BY <1>1, <3>5 DEF EndParts, AC!End, AC!Points
    <3> DEFINE Side2 == [q \in AC!End(k, f) |-> AC!RemoveAt(q, k)]
               at_end(r) == CHOOSE q \in AC!End(k, f) : Side2[q] = r
    <3>7. S1 = Side2
      BY <3>1, <3>5, <3>6 DEF EndParts
    <3>8. h = [r \in Range(Side2) |-> g[at_end(r)]]
      <4>1. h = [r \in Range(S1) |-> g[CHOOSE q \in E1 : S1[q] = r]]
        BY <3>5 DEF EndParts
      <4>2. \A r : (CHOOSE q \in E1 : S1[q] = r) = at_end(r)
        <5> HIDE DEF Side2
        <5>1. QED
          BY <3>6, <3>7
      <4> HIDE DEF Side2, at_end
      <4>3. QED
        BY <3>7, <4>1, <4>2
    <3>9. field' = [r \in AC!Range(Side2) |-> field[at_end(r)]]
      <4>1. \A x : g[x] = field[x]
        BY <1>1
      <4> HIDE DEF Side2, at_end
      <4>2. QED
        BY <2>3, <3>2, <3>8, <4>1
    <3>10. p \in AC!Points
      BY <1>1 DEF AC!Points
    <3>11. QED
      BY <3>9, <3>10 DEF AC!FieldEnd
  <2>6. QED
    BY <2>2, <2>5 DEF AC!FieldNext
<1>10. QED
  BY <1>3, <1>4, <1>5, <1>6, <1>7, <1>8, <1>9 DEF Next

LEMMA AlwaysSound == Init /\ [][Next]_c => []Sound(c)
<1>1. Init => Sound(c)
  BY Starts
<1>2. Sound(c) /\ [Next]_c => Sound(c)'
  BY Steps
<1>3. QED
  BY <1>1, <1>2, PTL

\* Every position of a grid, in any number of dimensions and also of a
\* boundary of a boundary, is in the data, at a place of its own: what linear
\* asserts.  There are as many positions as size says, and a grid that is not
\* empty has its boundaries.
THEOREM PlacesApart == Init /\ [][Next]_c => []Apart
<1>1. Sound(c) => Apart
  BY SoundApart
<1>2. QED
  BY <1>1, AlwaysSound, PTL

\* The program with a grid implements that with a field: a boundary, which
\* shares the data, is the field at that end.
THEOREM GridsAreFields == Init /\ [][Next]_c => AC!FieldInit /\ [][AC!FieldNext]_field
<1>1. Init => AC!FieldInit
  BY Starts
<1>2. Sound(c) /\ [Next]_c => [AC!FieldNext]_field
  BY Steps
<1>3. QED
  BY <1>1, <1>2, AlwaysSound, PTL
=============================================================================
