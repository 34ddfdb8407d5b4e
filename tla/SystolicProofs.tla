--------------------------- MODULE SystolicProofs ---------------------------
(***************************************************************************)
(* Proofs about Systolic: for any size of the grid and of the matrices,    *)
(* what the grid emits are the elements of the tile's product, and C is    *)
(* the product of the operands when done_ is raised.                       *)
(***************************************************************************)
EXTENDS Systolic, SeqLemmas

-----------------------------------------------------------------------------
(* Arithmetic.                                                             *)

LEMMA ProductMonotone ==
  ASSUME NEW a \in Int, NEW b \in Int, NEW d \in Nat, a <= b
  PROVE  a * d <= b * d
<1>1. PICK e \in Nat : b = a + e
  BY SMT
<1>2. e * d >= 0
  BY SMT
<1>3. (a + e) * d = a * d + e * d
  BY SMT
<1> QED BY <1>1, <1>2, <1>3, SMT

\* Quotient and remainder are unique.
LEMMA Euclid ==
  ASSUME NEW d \in Nat \ {0}, NEW q \in Int, NEW r \in Nat, r < d
  PROVE  (q * d + r) \div d = q /\ (q * d + r) % d = r
<1>1. PICK n \in Int : n = q * d + r
  BY SMT
<1>2. PICK p \in Int, s \in Nat : n = p * d + s /\ s < d /\ p = n \div d /\ s = n % d
  BY SMT
<1>3. ~ (p < q)
  <2> SUFFICES ASSUME p < q PROVE FALSE
    OBVIOUS
  <2>1. (p + 1) * d <= q * d
    BY ProductMonotone, SMT
  <2>2. (p + 1) * d = p * d + d
    BY SMT
  <2> QED BY <1>1, <1>2, <2>1, <2>2, SMT
<1>4. ~ (q < p)
  <2> SUFFICES ASSUME q < p PROVE FALSE
    OBVIOUS
  <2>1. (q + 1) * d <= p * d
    BY ProductMonotone, SMT
  <2>2. (q + 1) * d = q * d + d
    BY SMT
  <2> QED BY <1>1, <1>2, <2>1, <2>2, SMT
<1>5. p = q
  BY <1>3, <1>4, SMT
<1>6. s = r
  BY <1>1, <1>2, <1>5, SMT
<1> QED BY <1>1, <1>2, <1>5, <1>6, SMT

LEMMA Distribute ==
  ASSUME NEW a \in Int, NEW b \in Int, NEW d \in Int
  PROVE  (a + b) * d = a * d + b * d
BY SMT

LEMMA Division ==
  ASSUME NEW d \in Nat \ {0}, NEW n \in Int
  PROVE  \E q \in Int, r \in Nat : n = q * d + r /\ r < d /\ q = n \div d /\ r = n % d
BY SMT

\* Sums may be reduced before they are added.
LEMMA ModAdd ==
  ASSUME NEW d \in Nat \ {0}, NEW a \in Int, NEW b \in Int
  PROVE  ((a % d) + b) % d = (a + b) % d /\ ((a % d) + (b % d)) % d = (a + b) % d
<1>1. PICK p \in Int, s \in Nat : a = p * d + s /\ s < d /\ s = a % d
  BY Division
<1>2. PICK q \in Int, u \in Nat : b = q * d + u /\ u < d /\ u = b % d
  BY Division
<1>3. PICK w \in Int : w = s + u
  BY SMT
<1>4. PICK e \in Int, v \in Nat : w = e * d + v /\ v < d /\ v = w % d
  BY Division
<1>5. PICK k \in Int : k = q + e
  BY SMT
<1>6. s + b = k * d + v
  <2>1. (q + e) * d = q * d + e * d
    BY Distribute
  <2>2. b = q * d + u /\ s + u = e * d + v
    BY <1>2, <1>3, <1>4, Zenon
  <2> QED BY <1>5, <2>1, <2>2, SMT
<1>7. (k * d + v) % d = v
  BY <1>4, Euclid
<1>8. PICK m \in Int : m = p + k
  BY SMT
<1>9. a + b = m * d + v
  <2>1. (p + k) * d = p * d + k * d
    BY Distribute
  <2> QED BY <1>1, <1>6, <1>8, <2>1, SMT
<1>10. (m * d + v) % d = v
  BY <1>4, Euclid
<1> QED BY <1>1, <1>2, <1>3, <1>4, <1>6, <1>7, <1>9, <1>10, Zenon

-----------------------------------------------------------------------------
(* Sums.                                                                   *)

\* f[k] is the sum of the first k numbers of F, for k up to n.
IsSum(f, n, F) == f = [k \in 0 .. n |-> IF k = 0 THEN 0 ELSE f[k - 1] + F[k - 1]]

LEMMA SumExists ==
  ASSUME NEW n \in Nat, NEW F
  PROVE  \E f : IsSum(f, n, F)
<1> DEFINE T == {m \in Nat : \E f : IsSum(f, m, F)}
<1>1. 0 \in T
  <2> DEFINE e == [k \in 0 .. 0 |-> 0]
  <2>1. \A k \in 0 .. 0 : k = 0
    OBVIOUS
  <2>2. e = [k \in 0 .. 0 |-> IF k = 0 THEN 0 ELSE e[k - 1] + F[k - 1]]
    BY <2>1
  <2> HIDE DEF e
  <2>3. IsSum(e, 0, F)
    BY <2>2, Zenon DEF IsSum
  <2> QED BY <2>3
<1>2. ASSUME NEW m \in Nat, m \in T PROVE m + 1 \in T
  <2>1. PICK f : IsSum(f, m, F)
    BY <1>2
  <2>2. f = [k \in 0 .. m |-> IF k = 0 THEN 0 ELSE f[k - 1] + F[k - 1]]
    BY <2>1 DEF IsSum
  <2> DEFINE g == [k \in 0 .. m + 1 |-> IF k = m + 1 THEN f[m] + F[m] ELSE f[k]]
  <2>3. ASSUME NEW k \in 0 .. m + 1
        PROVE  g[k] = IF k = 0 THEN 0 ELSE g[k - 1] + F[k - 1]
    <3>1. CASE k = m + 1
      <4>1. k - 1 = m /\ k # 0 /\ m \in 0 .. m + 1 /\ m # m + 1
        BY <3>1
      <4>2. g[m] = f[m] /\ g[k] = f[m] + F[m]
        BY <3>1, <4>1
      <4> HIDE DEF g
      <4> QED BY <4>1, <4>2, Zenon
    <3>2. CASE k # m + 1
      <4>1. k \in 0 .. m
        BY <3>2
      <4>2. g[k] = f[k]
        BY <3>2
      <4>3. f[k] = IF k = 0 THEN 0 ELSE f[k - 1] + F[k - 1]
        <5> DEFINE h == [x \in 0 .. m |-> IF x = 0 THEN 0 ELSE f[x - 1] + F[x - 1]]
        <5>1. h[k] = IF k = 0 THEN 0 ELSE f[k - 1] + F[k - 1]
          BY <4>1, Zenon
        <5>2. f = h
          BY <2>2
        <5> HIDE DEF h
        <5> QED BY <5>1, <5>2, Zenon
      <4>4. k # 0 => k - 1 \in 0 .. m + 1 /\ k - 1 # m + 1
        OBVIOUS
      <4>5. k # 0 => g[k - 1] = f[k - 1]
        BY <4>4, Zenon
      <4> HIDE DEF g
      <4> QED BY <4>2, <4>3, <4>5, Zenon
    <3> QED BY <3>1, <3>2
  <2>4. g = [k \in 0 .. m + 1 |-> g[k]]
    OBVIOUS
  <2> HIDE DEF g
  <2>5. IsSum(g, m + 1, F)
    BY <2>3, <2>4, Zenon DEF IsSum
  <2> QED BY <2>5
<1>3. n \in T
  <2> HIDE DEF T
  <2> QED BY <1>1, <1>2, SetInduction
<1> QED BY <1>3

\* Sums of the same numbers are the same.
LEMMA SumAgree ==
  ASSUME NEW m \in Nat, NEW n \in Nat, m <= n, NEW F, NEW G, NEW f, NEW g,
         IsSum(f, m, F), IsSum(g, n, G), \A k \in 0 .. m - 1 : F[k] = G[k]
  PROVE  \A k \in 0 .. m : f[k] = g[k]
<1> DEFINE T == {k \in Nat : k <= m => f[k] = g[k]}
<1>f. \A k \in 0 .. m : f[k] = IF k = 0 THEN 0 ELSE f[k - 1] + F[k - 1]
  BY Zenon DEF IsSum
<1>g. \A k \in 0 .. n : g[k] = IF k = 0 THEN 0 ELSE g[k - 1] + G[k - 1]
  BY Zenon DEF IsSum
<1>1. 0 \in T
  BY <1>f, <1>g
<1>2. ASSUME NEW k \in Nat, k \in T PROVE k + 1 \in T
  <2> SUFFICES ASSUME k + 1 <= m PROVE f[k + 1] = g[k + 1]
    OBVIOUS
  <2>1. k + 1 \in 0 .. m /\ k + 1 \in 0 .. n /\ k + 1 # 0 /\ (k + 1) - 1 = k /\ k \in 0 .. m - 1
    OBVIOUS
  <2>2. f[k] = g[k] /\ F[k] = G[k]
    BY <1>2, <2>1
  <2>3. f[k + 1] = f[k] + F[k]
    BY <1>f, <2>1, Zenon
  <2>4. g[k + 1] = g[k] + G[k]
    BY <1>g, <2>1, Zenon
  <2> QED BY <2>2, <2>3, <2>4, Zenon
<1>3. Nat \subseteq T
  <2> HIDE DEF T
  <2> QED BY <1>1, <1>2, SetInduction
<1> QED BY <1>3

LEMMA SumIs ==
  ASSUME NEW n \in Nat, NEW F
  PROVE  \E f : IsSum(f, n, F) /\ SumTo(n, F) = f[n]
<1> DEFINE f == CHOOSE h : h = [k \in 0 .. n |-> IF k = 0 THEN 0 ELSE h[k - 1] + F[k - 1]]
<1>1. SumTo(n, F) = f[n]
  BY Zenon DEF SumTo
<1>2. PICK h : IsSum(h, n, F)
  BY SumExists
<1>3. IsSum(f, n, F)
  BY <1>2, Zenon DEF IsSum
<1> HIDE DEF f
<1> QED BY <1>1, <1>3, Zenon

LEMMA SumCong ==
  ASSUME NEW n \in Nat, NEW F, NEW G, \A k \in 0 .. n - 1 : F[k] = G[k]
  PROVE  SumTo(n, F) = SumTo(n, G)
<1>1. PICK f : IsSum(f, n, F) /\ SumTo(n, F) = f[n]
  BY SumIs
<1>2. PICK g : IsSum(g, n, G) /\ SumTo(n, G) = g[n]
  BY SumIs
<1>3. n <= n /\ n \in 0 .. n
  OBVIOUS
<1>4. \A k \in 0 .. n : f[k] = g[k]
  BY <1>1, <1>2, <1>3, SumAgree
<1> QED BY <1>1, <1>2, <1>3, <1>4, Zenon

LEMMA SumZero ==
  ASSUME NEW F
  PROVE  SumTo(0, F) = 0
<1>1. PICK f : IsSum(f, 0, F) /\ SumTo(0, F) = f[0]
  BY SumIs
<1>2. 0 \in 0 .. 0
  OBVIOUS
<1>3. f[0] = 0
  BY <1>1, <1>2, Zenon DEF IsSum
<1> QED BY <1>1, <1>3

LEMMA SumSucc ==
  ASSUME NEW n \in Nat, NEW F
  PROVE  SumTo(n + 1, F) = SumTo(n, F) + F[n]
<1>0. n + 1 \in Nat /\ n <= n + 1 /\ n \in 0 .. n /\ n + 1 \in 0 .. n + 1 /\ n + 1 # 0 /\ (n + 1) - 1 = n
  OBVIOUS
<1>1. PICK f : IsSum(f, n, F) /\ SumTo(n, F) = f[n]
  BY SumIs
<1>2. PICK g : IsSum(g, n + 1, F) /\ SumTo(n + 1, F) = g[n + 1]
  BY <1>0, SumIs
<1>3. f[n] = g[n]
  BY <1>0, <1>1, <1>2, SumAgree
<1>4. \A k \in 0 .. n + 1 : g[k] = IF k = 0 THEN 0 ELSE g[k - 1] + F[k - 1]
  BY <1>2, Zenon DEF IsSum
<1>5. g[n + 1] = g[n] + F[n]
  BY <1>0, <1>4, Zenon
<1> QED BY <1>1, <1>2, <1>3, <1>5, Zenon

LEMMA SumType ==
  ASSUME NEW n \in Nat, NEW F, \A k \in 0 .. n - 1 : F[k] \in Int
  PROVE  SumTo(n, F) \in Int
<1> DEFINE T == {k \in Nat : k <= n => SumTo(k, F) \in Int}
<1>1. 0 \in T
  BY SumZero
<1>2. ASSUME NEW k \in Nat, k \in T PROVE k + 1 \in T
  <2> SUFFICES ASSUME k + 1 <= n PROVE SumTo(k + 1, F) \in Int
    OBVIOUS
  <2>1. k <= n /\ k \in 0 .. n - 1
    OBVIOUS
  <2>2. SumTo(k, F) \in Int /\ F[k] \in Int
    BY <1>2, <2>1, Zenon
  <2>3. SumTo(k + 1, F) = SumTo(k, F) + F[k]
    BY SumSucc
  <2> QED BY <2>2, <2>3
<1>3. n \in T
  <2> HIDE DEF T
  <2> QED BY <1>1, <1>2, SetInduction
<1> QED BY <1>3

\* G is the part of F from a to a + b, padded with zeros.
IsPart(a, b, n, F, G) ==
  /\ \A k \in 0 .. a + b - 1 : F[k] \in Int
  /\ \A k \in 0 .. b - 1 : G[k] = F[a + k]
  /\ \A k \in b .. n - 1 : G[k] = 0
  /\ b <= n

\* A sum in two parts, the second one padded with zeros.
LEMMA SumSplit ==
  ASSUME NEW a \in Nat, NEW b \in Nat, NEW n \in Nat, NEW F, NEW G, IsPart(a, b, n, F, G)
  PROVE  SumTo(a + b, F) = SumTo(a, F) + SumTo(n, G)
<1> USE DEF IsPart
<1> DEFINE T == {k \in Nat : k <= b => SumTo(a + k, F) = SumTo(a, F) + SumTo(k, G)}
           Z == {k \in Nat : b + k <= n => SumTo(b + k, G) = SumTo(b, G)}
<1>a. SumTo(a, F) \in Int
  <2>1. \A k \in 0 .. a - 1 : F[k] \in Int
    <3>1. \A k \in 0 .. a - 1 : k \in 0 .. a + b - 1
      OBVIOUS
    <3> QED BY <3>1, Zenon
  <2> QED BY <2>1, SumType
<1>g. ASSUME NEW k \in Nat, k <= b PROVE SumTo(k, G) \in Int
  <2>1. \A i \in 0 .. k - 1 : i \in 0 .. b - 1 /\ a + i \in 0 .. a + b - 1
    BY <1>g
  <2>2. \A i \in 0 .. k - 1 : G[i] \in Int
    BY <2>1, Zenon
  <2> QED BY <2>2, SumType
<1>1. 0 \in T
  <2>1. SumTo(0, G) = 0 /\ a + 0 = a
    BY SumZero
  <2>2. SumTo(a, F) = SumTo(a, F) + 0
    BY <1>a
  <2> QED BY <2>1, <2>2
<1>2. ASSUME NEW k \in Nat, k \in T PROVE k + 1 \in T
  <2> SUFFICES ASSUME k + 1 <= b PROVE SumTo(a + (k + 1), F) = SumTo(a, F) + SumTo(k + 1, G)
    OBVIOUS
  <2>1. k <= b /\ k \in 0 .. b - 1 /\ a + k \in 0 .. a + b - 1 /\ a + k \in Nat /\ a + (k + 1) = (a + k) + 1
    OBVIOUS
  <2>2. SumTo(a + (k + 1), F) = SumTo(a + k, F) + F[a + k]
    <3>1. SumTo((a + k) + 1, F) = SumTo(a + k, F) + F[a + k]
      BY <2>1, SumSucc
    <3> QED BY <2>1, <3>1, Zenon
  <2>3. SumTo(k + 1, G) = SumTo(k, G) + G[k]
    BY SumSucc
  <2>4. G[k] = F[a + k] /\ F[a + k] \in Int
    BY <2>1, Zenon
  <2>5. SumTo(a + k, F) = SumTo(a, F) + SumTo(k, G)
    BY <1>2, <2>1, Zenon
  <2>6. SumTo(k, G) \in Int
    BY <1>g, <2>1
  <2>7. (SumTo(a, F) + SumTo(k, G)) + F[a + k] = SumTo(a, F) + (SumTo(k, G) + F[a + k])
    BY <1>a, <2>4, <2>6
  <2> QED BY <2>2, <2>3, <2>4, <2>5, <2>7, Zenon
<1>3. b \in T
  <2> HIDE DEF T
  <2> QED BY <1>1, <1>2, SetInduction
<1>4. 0 \in Z
  <2>1. b + 0 = b
    OBVIOUS
  <2> QED BY <2>1
<1>5. ASSUME NEW k \in Nat, k \in Z PROVE k + 1 \in Z
  <2> SUFFICES ASSUME b + (k + 1) <= n PROVE SumTo(b + (k + 1), G) = SumTo(b, G)
    OBVIOUS
  <2>1. b + k <= n /\ b + k \in b .. n - 1 /\ b + k \in Nat /\ b + (k + 1) = (b + k) + 1
    OBVIOUS
  <2>2. SumTo((b + k) + 1, G) = SumTo(b + k, G) + G[b + k]
    BY <2>1, SumSucc
  <2>3. G[b + k] = 0
    BY <2>1, Zenon
  <2>4. SumTo(b + k, G) = SumTo(b, G)
    BY <1>5, <2>1, Zenon
  <2>5. SumTo(b, G) \in Int
    BY <1>g
  <2>6. SumTo(b, G) + 0 = SumTo(b, G)
    BY <2>5
  <2> QED BY <2>1, <2>2, <2>3, <2>4, <2>6, Zenon
<1>6. n - b \in Z
  <2>1. n - b \in Nat
    OBVIOUS
  <2> HIDE DEF Z
  <2> QED BY <1>4, <1>5, <2>1, SetInduction
<1>7. SumTo(n, G) = SumTo(b, G)
  <2>1. b + (n - b) = n /\ n <= n
    OBVIOUS
  <2> QED BY <1>6, <2>1, Zenon
<1>8. b <= b
  OBVIOUS
<1> QED BY <1>3, <1>7, <1>8, Zenon

-----------------------------------------------------------------------------
(* The grid.                                                               *)

Valid8(d)  == [valid |-> TRUE, data |-> d]
Valid16(s) == [valid |-> TRUE, sum |-> s]

Reg8  == [valid : BOOLEAN, data : Int]
Sum16 == [valid : BOOLEAN, sum : Int]
PE    == [weightReg : Reg8, inReg : Reg8, fwdIn : Reg8, psumReg : Sum16, fwdPsum : Sum16]

\* The products that make up element (i, j) of the tile's product.
Terms(i, j) == [k \in Idx |-> A_Tile[i][k] * B_Tile[k][j]]

GridType ==
  /\ cycle \in 0 .. FlushEnd
  /\ A_Tile \in [Idx -> [Idx -> Int]] /\ B_Tile \in [Idx -> [Idx -> Int]]
  /\ pe \in [Idx -> [Idx -> PE]]
  /\ Result \in [Idx -> [Idx -> Int]]

\* The weights move down while they are loaded, and stay from then on.
Weights == \A i, j \in Idx :
  /\ cycle <= SASIZE /\ i < cycle
       => pe[i][j].weightReg = Valid8(B_Tile[SASIZE - cycle + i][j])
  /\ cycle >= SASIZE
       => pe[i][j].weightReg = Valid8(B_Tile[i][j])

\* Column j holds what the first column was fed j events ago, unless that was
\* in the flush.
Inputs == \A i, j \in Idx :
  cycle - SASIZE - 1 - j <= 2 * SASIZE - 2
    => pe[i][j].fwdIn = Inject(cycle - SASIZE - 1 - j, i)

\* The sum above the bottom row is the one its input belongs to.
Sums == \A i, j, r \in Idx :
  i # SASIZE - 1 /\ r = (cycle - SASIZE - 1 - j) - i
    => pe[i][j].fwdPsum = Valid16(SumTo(i + 1, Terms(r, j)) % Modulus)

\* How many sums have left column j after c events.
Emitted(c, j) ==
  IF c < 2 * SASIZE + j THEN 0
  ELSE IF c > 3 * SASIZE + j - 1 THEN SASIZE ELSE c - 2 * SASIZE + 1 - j

Emits == emitRow = [j \in Idx |-> Emitted(cycle, j)]

Products == \A j \in Idx : \A i \in 0 .. emitRow[j] - 1 : Result[i][j] = TileProduct(i, j)

CopiedOut == cycle = FlushEnd => Tile_Result = Result

GridInv == GridType /\ Weights /\ Inputs /\ Sums /\ Emits /\ Products /\ CopiedOut

LEMMA Valid8Is ==
  ASSUME NEW x, NEW d, x = Valid8(d)
  PROVE  x.valid = TRUE /\ x.data = d
BY DEF Valid8

LEMMA Valid16Is ==
  ASSUME NEW x, NEW s, x = Valid16(s)
  PROVE  x.valid = TRUE /\ x.sum = s
BY DEF Valid16

LEMMA InjectIs ==
  ASSUME NEW c \in Int, NEW i \in Idx
  PROVE  /\ c - i \in Idx => Inject(c, i) = Valid8(A_Tile[c - i][i])
         /\ c - i \notin Idx => Inject(c, i) = Invalid
BY DEF Inject, Valid8

LEMMA InjectType ==
  ASSUME GridType, NEW c \in Int, NEW i \in Idx
  PROVE  Inject(c, i) \in Reg8
<1>1. CASE c - i \in Idx
  <2>1. A_Tile[c - i][i] \in Int
    BY <1>1 DEF GridType
  <2>2. Valid8(A_Tile[c - i][i]) \in Reg8
    BY <2>1 DEF Reg8, Valid8
  <2> QED BY <1>1, <2>2, InjectIs, Zenon
<1>2. CASE c - i \notin Idx
  <2>1. Invalid \in Reg8
    BY DEF Reg8, Invalid
  <2> QED BY <1>2, <2>1, InjectIs, Zenon
<1> QED BY <1>1, <1>2

LEMMA TileConst ==
  ASSUME A_Tile' = A_Tile, B_Tile' = B_Tile
  PROVE  /\ \A n, i, j : SumTo(n, Terms(i, j))' = SumTo(n, Terms(i, j))
         /\ \A i, j : TileProduct(i, j)' = TileProduct(i, j)
<1>1. \A i, j : Terms(i, j)' = Terms(i, j)
  BY Zenon DEF Terms, Idx
<1>2. \A n, i, j : SumTo(n, Terms(i, j))' = SumTo(n, Terms(i, j))
  BY <1>1, Zenon DEF SumTo
<1>3. \A i, j : TileProduct(i, j) = SumTo(SASIZE, Terms(i, j)) % Modulus
  BY Zenon DEF TileProduct, Terms
<1>4. \A i, j : TileProduct(i, j)' = (SumTo(SASIZE, Terms(i, j)) % Modulus)'
  BY Zenon DEF TileProduct, Terms
<1> QED BY <1>2, <1>3, <1>4, Zenon

LEMMA TermsType ==
  ASSUME GridType, NEW i \in Idx, NEW j \in Idx, NEW n \in 0 .. SASIZE
  PROVE  SumTo(n, Terms(i, j)) \in Int
<1>0. SASIZE \in Nat
  BY SystolicAssumption
<1>1. \A k \in Idx : A_Tile[i][k] \in Int /\ B_Tile[k][j] \in Int
  BY DEF GridType
<1>2. \A k \in 0 .. n - 1 : k \in Idx
  BY <1>0 DEF Idx
<1>3. \A k \in Idx : Terms(i, j)[k] = A_Tile[i][k] * B_Tile[k][j]
  BY DEF Terms
<1>4. \A k \in 0 .. n - 1 : Terms(i, j)[k] \in Int
  <2> TAKE k \in 0 .. n - 1
  <2>1. k \in Idx
    BY <1>2
  <2>2. PICK a \in Int, b \in Int : a = A_Tile[i][k] /\ b = B_Tile[k][j]
    BY <1>1, <2>1
  <2>3. a * b \in Int
    OBVIOUS
  <2> QED BY <1>3, <2>1, <2>2, <2>3, Zenon
<1>5. n \in Nat
  OBVIOUS
<1> QED BY <1>4, <1>5, SumType

\* One multiplication more makes the next partial sum.
LEMMA SumStep ==
  ASSUME GridType, NEW r \in Idx, NEW i \in Idx, NEW j \in Idx
  PROVE  ((SumTo(i, Terms(r, j)) % Modulus) + A_Tile[r][i] * B_Tile[i][j]) % Modulus
           = SumTo(i + 1, Terms(r, j)) % Modulus
<1>0. SASIZE \in Nat /\ Modulus \in Nat \ {0}
  BY SystolicAssumption
<1>1. i \in Nat /\ i \in 0 .. SASIZE
  BY <1>0 DEF Idx
<1>2. PICK a \in Int, b \in Int : a = A_Tile[r][i] /\ b = B_Tile[i][j]
  BY DEF GridType
<1>3. PICK p \in Int : p = a * b
  OBVIOUS
<1>4. Terms(r, j)[i] = p
  BY <1>2, <1>3, Zenon DEF Terms
<1>5. PICK s \in Int : s = SumTo(i, Terms(r, j))
  BY <1>1, TermsType
<1>6. SumTo(i + 1, Terms(r, j)) = s + p
  BY <1>1, <1>4, <1>5, SumSucc, Zenon
<1>7. ((s % Modulus) + p) % Modulus = (s + p) % Modulus
  BY <1>0, ModAdd
<1> QED BY <1>2, <1>3, <1>5, <1>6, <1>7, Zenon

-----------------------------------------------------------------------------
(* The multiply-accumulate.                                                *)

\* The partial sum that comes from above.
Above(i, j) == IF i > 0 /\ pe[i - 1][j].fwdPsum.valid THEN pe[i - 1][j].fwdPsum.sum ELSE 0

LEMMA MacValid ==
  ASSUME NEW i, NEW j, NEW w, NEW d,
         pe[i][j].weightReg = Valid8(w)
  PROVE  Mac(i, j, Valid8(d))
           = Valid16((Above(i, j) + d * w) % Modulus)
<1>1. pe[i][j].weightReg.valid = TRUE /\ pe[i][j].weightReg.data = w
  BY Valid8Is
<1>2. Valid8(d).valid = TRUE /\ Valid8(d).data = d
  BY Valid8Is
<1> QED BY <1>1, <1>2, Zenon DEF Mac, Above, Valid16

LEMMA MacInvalid ==
  ASSUME NEW i, NEW j, pe[i][j] \in PE
  PROVE  Mac(i, j, Invalid).valid = FALSE
<1>1. Invalid.valid = FALSE
  BY DEF Invalid
<1>2. pe[i][j].psumReg \in Sum16
  BY DEF PE
<1>3. [pe[i][j].psumReg EXCEPT !.valid = FALSE].valid = FALSE
  BY <1>2 DEF Sum16
<1>4. Mac(i, j, Invalid) = [pe[i][j].psumReg EXCEPT !.valid = FALSE]
  BY <1>1, Zenon DEF Mac
<1> QED BY <1>3, <1>4, Zenon

LEMMA MacType ==
  ASSUME GridType, NEW i \in Idx, NEW j \in Idx, NEW x \in Reg8
  PROVE  Mac(i, j, x) \in Sum16
<1>0. SASIZE \in Nat /\ Modulus \in Nat \ {0}
  BY SystolicAssumption
<1>1. pe[i][j] \in PE
  BY DEF GridType
<1>2. pe[i][j].psumReg \in Sum16 /\ pe[i][j].weightReg \in Reg8
  BY <1>1 DEF PE
<1>3. [pe[i][j].psumReg EXCEPT !.valid = FALSE] \in Sum16
  BY <1>2 DEF Sum16
<1>4. Above(i, j) \in Int
  <2>1. CASE i > 0
    <3>1. i - 1 \in Idx
      BY <1>0, <2>1 DEF Idx
    <3>2. pe[i - 1][j] \in PE
      BY <3>1 DEF GridType
    <3>3. pe[i - 1][j].fwdPsum \in Sum16
      BY <3>2 DEF PE
    <3>4. pe[i - 1][j].fwdPsum.sum \in Int /\ 0 \in Int
      BY <3>3 DEF Sum16
    <3> QED BY <3>4, Zenon DEF Above
  <2>2. CASE ~ (i > 0)
    <3>1. 0 \in Int
      OBVIOUS
    <3> QED BY <2>2, <3>1, Zenon DEF Above
  <2> QED BY <2>1, <2>2
<1>5. PICK a \in Int, d \in Int, w \in Int :
        a = Above(i, j) /\ d = x.data /\ w = pe[i][j].weightReg.data
  BY <1>2, <1>4 DEF Reg8
<1>6. PICK s \in Int : s = (a + d * w) % Modulus
  BY <1>0
<1>7. Valid16(s) \in Sum16
  BY DEF Sum16, Valid16
<1>8. \/ Mac(i, j, x) = Valid16((a + d * w) % Modulus)
      \/ Mac(i, j, x) = [pe[i][j].psumReg EXCEPT !.valid = FALSE]
  BY <1>5, Zenon DEF Mac, Above, Valid16
<1> QED BY <1>3, <1>6, <1>7, <1>8, Zenon

\* What the PE at (i, j) computes in the event in which it gets its element
\* of row r.
LEMMA MacIs ==
  ASSUME GridType, Weights, Sums, SASIZE <= cycle,
         NEW i \in Idx, NEW j \in Idx, NEW r \in Idx, r = cycle - SASIZE - j - i
  PROVE  Mac(i, j, Valid8(A_Tile[r][i]))
           = Valid16(SumTo(i + 1, Terms(r, j)) % Modulus)
<1>0. SASIZE \in Nat /\ Modulus \in Nat \ {0}
  BY SystolicAssumption
<1>1. pe[i][j].weightReg = Valid8(B_Tile[i][j])
  <2>1. cycle >= SASIZE
    BY <1>0 DEF GridType
  <2> QED BY <2>1, Zenon DEF Weights
<1>2. Above(i, j) = SumTo(i, Terms(r, j)) % Modulus
  <2>1. CASE i = 0
    <3>1. ~ (i > 0)
      BY <2>1
    <3>2. SumTo(i, Terms(r, j)) = 0
      BY <2>1, SumZero
    <3>3. 0 % Modulus = 0
      BY <1>0
    <3> QED BY <3>1, <3>2, <3>3, Zenon DEF Above
  <2>2. CASE i # 0
    <3>c. cycle \in Int
      BY <1>0 DEF GridType, FlushEnd, PropagateEnd, PreloadEnd
    <3>1. /\ i > 0 /\ i - 1 \in Idx /\ i - 1 # SASIZE - 1 /\ (i - 1) + 1 = i
          /\ (cycle - SASIZE - 1 - j) - (i - 1) = r
      BY <1>0, <2>2, <3>c DEF Idx
    <3>2. pe[i - 1][j].fwdPsum = Valid16(SumTo(i, Terms(r, j)) % Modulus)
      <4>1. PICK h \in Idx : h = i - 1
        BY <3>1
      <4>2. h # SASIZE - 1 /\ r = (cycle - SASIZE - 1 - j) - h
        BY <3>1, <4>1, Zenon
      <4>3. pe[h][j].fwdPsum = Valid16(SumTo(h + 1, Terms(r, j)) % Modulus)
        BY <4>2, Zenon DEF Sums
      <4> QED BY <3>1, <4>1, <4>3, Zenon
    <3>3. /\ pe[i - 1][j].fwdPsum.valid = TRUE
          /\ pe[i - 1][j].fwdPsum.sum = SumTo(i, Terms(r, j)) % Modulus
      BY <3>2, Valid16Is
    <3> QED BY <3>1, <3>3, Zenon DEF Above
  <2> QED BY <2>1, <2>2
<1>3. Mac(i, j, Valid8(A_Tile[r][i]))
        = Valid16((Above(i, j) + A_Tile[r][i] * B_Tile[i][j]) % Modulus)
  <2>1. PICK w, d : w = B_Tile[i][j] /\ d = A_Tile[r][i]
    OBVIOUS
  <2>2. Mac(i, j, Valid8(d)) = Valid16((Above(i, j) + d * w) % Modulus)
    BY <1>1, <2>1, MacValid
  <2> QED BY <2>1, <2>2, Zenon
<1>4. ((SumTo(i, Terms(r, j)) % Modulus) + A_Tile[r][i] * B_Tile[i][j]) % Modulus
        = SumTo(i + 1, Terms(r, j)) % Modulus
  BY SumStep
<1> QED BY <1>2, <1>3, <1>4, Zenon

-----------------------------------------------------------------------------
(* A propagation or a flush.                                               *)

Emit(in, j) == Mac(SASIZE - 1, j, in[SASIZE - 1][j]).valid /\ emitRow[j] < SASIZE

Psum(in, i, j) ==
  IF i = SASIZE - 1 /\ Emit(in, j) THEN [Mac(i, j, in[i][j]) EXCEPT !.valid = FALSE]
  ELSE Mac(i, j, in[i][j])

LEMMA MacForwardEmitIs ==
  ASSUME NEW in, MacForwardEmit(in)
  PROVE  /\ pe' = [i \in Idx |-> [j \in Idx |->
                    [weightReg |-> pe[i][j].weightReg, inReg |-> in[i][j], fwdIn |-> in[i][j],
                     psumReg |-> Psum(in, i, j), fwdPsum |-> Psum(in, i, j)]]]
         /\ Result' = [i \in Idx |-> [j \in Idx |->
                        IF Emit(in, j) /\ emitRow[j] = i
                        THEN Mac(SASIZE - 1, j, in[SASIZE - 1][j]).sum ELSE Result[i][j]]]
         /\ emitRow' = [j \in Idx |-> IF Emit(in, j) THEN emitRow[j] + 1 ELSE emitRow[j]]
BY Zenon DEF MacForwardEmit, Grid, Emit, Psum

\* The inputs in of the next event: those of the left neighbours.
Fed(in) ==
  /\ \A i, j \in Idx : in[i][j] \in Reg8
  /\ \A i, j \in Idx : cycle - SASIZE - j <= 2 * SASIZE - 2
       => in[i][j] = Inject(cycle - SASIZE - j, i)

MacStep(in) ==
  /\ GridInv /\ SASIZE <= cycle /\ cycle < FlushEnd
  /\ Fed(in) /\ MacForwardEmit(in)
  /\ cycle' = cycle + 1 /\ A_Tile' = A_Tile /\ B_Tile' = B_Tile
  /\ cycle' = FlushEnd => Tile_Result' = Result'

LEMMA CycleInt ==
  ASSUME GridType
  PROVE  /\ SASIZE \in Nat \ {0} /\ cycle \in Int /\ 0 <= cycle /\ cycle <= FlushEnd
         /\ FlushEnd = 4 * SASIZE - 1 /\ PropagateEnd = 3 * SASIZE - 1 /\ PreloadEnd = SASIZE
         /\ SASIZE - 1 \in Idx /\ 0 \in Idx
<1>1. SASIZE \in Nat \ {0}
  BY SystolicAssumption
<1>2. FlushEnd = 4 * SASIZE - 1 /\ PropagateEnd = 3 * SASIZE - 1 /\ PreloadEnd = SASIZE
  BY <1>1 DEF FlushEnd, PropagateEnd, PreloadEnd
<1>3. SASIZE - 1 \in Idx /\ 0 \in Idx
  BY <1>1 DEF Idx
<1> QED BY <1>1, <1>2, <1>3 DEF GridType

\* Column j emits exactly while it has a finished row at its bottom.
LEMMA EmitIs ==
  ASSUME NEW in, MacStep(in), NEW j \in Idx
  PROVE  /\ cycle < 2 * SASIZE + j - 1 => Emit(in, j) = FALSE /\ emitRow[j] = 0
         /\ cycle > 3 * SASIZE + j - 2 => Emit(in, j) = FALSE /\ emitRow[j] = SASIZE
         /\ \A v \in Idx : v = cycle - 2 * SASIZE + 1 - j =>
              /\ Emit(in, j) = TRUE /\ emitRow[j] = v
              /\ Mac(SASIZE - 1, j, in[SASIZE - 1][j]).sum = TileProduct(v, j)
<1>0. GridType /\ Weights /\ Sums /\ Emits /\ SASIZE <= cycle /\ Fed(in)
  BY DEF MacStep, GridInv
<1>c. /\ SASIZE \in Nat \ {0} /\ cycle \in Int /\ 0 <= cycle /\ SASIZE - 1 \in Idx
  BY <1>0, CycleInt
<1>j. j \in Nat /\ j < SASIZE
  BY <1>c DEF Idx
<1>e. emitRow[j] = Emitted(cycle, j)
  BY <1>0, Zenon DEF Emits
<1> DEFINE x == in[SASIZE - 1][j]
           l == SASIZE - 1
<1>1. ASSUME cycle < 2 * SASIZE + j - 1 PROVE Emit(in, j) = FALSE /\ emitRow[j] = 0
  <2>1. cycle - SASIZE - j <= 2 * SASIZE - 2 /\ cycle - SASIZE - j \in Int
    BY <1>1, <1>c, <1>j
  <2>2. (cycle - SASIZE - j) - (SASIZE - 1) \notin Idx
    BY <1>1, <1>c, <1>j DEF Idx
  <2>3. x = Invalid
    <3>1. x = Inject(cycle - SASIZE - j, SASIZE - 1)
      BY <1>0, <1>c, <2>1, Zenon DEF Fed
    <3> QED BY <1>c, <2>1, <2>2, <3>1, InjectIs, Zenon
  <2>4. pe[SASIZE - 1][j] \in PE
    BY <1>0, <1>c, Zenon DEF GridType
  <2>5. Mac(SASIZE - 1, j, Invalid).valid = FALSE
    BY <2>4, MacInvalid
  <2>6. Emitted(cycle, j) = 0
    BY <1>1, <1>c, <1>j DEF Emitted
  <2> QED BY <1>e, <2>3, <2>5, <2>6, Zenon DEF Emit
<1>2. ASSUME cycle > 3 * SASIZE + j - 2 PROVE Emit(in, j) = FALSE /\ emitRow[j] = SASIZE
  <2>1. Emitted(cycle, j) = SASIZE /\ ~ (SASIZE < SASIZE)
    BY <1>2, <1>c, <1>j DEF Emitted
  <2> QED BY <1>e, <2>1, Zenon DEF Emit
<1>3. ASSUME NEW v \in Idx, v = cycle - 2 * SASIZE + 1 - j
      PROVE  /\ Emit(in, j) = TRUE /\ emitRow[j] = v
             /\ Mac(SASIZE - 1, j, in[SASIZE - 1][j]).sum = TileProduct(v, j)
  <2>v. v \in Nat /\ v < SASIZE
    BY <1>c DEF Idx
  <2>1. cycle - SASIZE - j <= 2 * SASIZE - 2 /\ cycle - SASIZE - j \in Int
    BY <1>3, <2>v, <1>c, <1>j
  <2>2. (cycle - SASIZE - j) - (SASIZE - 1) = v /\ v = cycle - SASIZE - j - (SASIZE - 1)
    BY <1>3, <2>v, <1>c, <1>j
  <2>3. x = Valid8(A_Tile[v][SASIZE - 1])
    <3>1. x = Inject(cycle - SASIZE - j, SASIZE - 1)
      BY <1>0, <1>c, <2>1, Zenon DEF Fed
    <3> QED BY <1>c, <2>1, <2>2, <3>1, InjectIs, Zenon
  <2>4. (SASIZE - 1) + 1 = SASIZE
    BY <1>c
  <2>5. Mac(SASIZE - 1, j, x) = Valid16(SumTo(SASIZE, Terms(v, j)) % Modulus)
    BY <1>0, <1>c, <2>2, <2>3, <2>4, MacIs, Zenon
  <2>6. /\ Mac(SASIZE - 1, j, x).valid = TRUE
        /\ Mac(SASIZE - 1, j, x).sum = SumTo(SASIZE, Terms(v, j)) % Modulus
    BY <2>5, Valid16Is
  <2>7. Emitted(cycle, j) = v
    BY <1>3, <2>v, <1>c, <1>j DEF Emitted
  <2> QED BY <1>e, <2>v, <2>6, <2>7, Zenon DEF Emit, TileProduct, Terms
<1> QED BY <1>1, <1>2, <1>3, Zenon

\* The three cases of EmitIs are all there are.
LEMMA EmitCases ==
  ASSUME GridType, NEW j \in Idx
  PROVE  \/ cycle < 2 * SASIZE + j - 1
         \/ cycle > 3 * SASIZE + j - 2
         \/ \E v \in Idx : v = cycle - 2 * SASIZE + 1 - j
<1>1. SASIZE \in Nat \ {0} /\ cycle \in Int
  BY CycleInt
<1>2. j \in Nat /\ j < SASIZE
  BY <1>1 DEF Idx
<1> QED BY <1>1, <1>2 DEF Idx

LEMMA StepType ==
  ASSUME NEW in, MacStep(in)
  PROVE  GridType'
<1>0. /\ GridType /\ Fed(in) /\ cycle < FlushEnd
      /\ cycle' = cycle + 1 /\ A_Tile' = A_Tile /\ B_Tile' = B_Tile
      /\ MacForwardEmit(in)
  BY DEF MacStep, GridInv
<1>c. SASIZE \in Nat \ {0} /\ cycle \in Int /\ 0 <= cycle /\ SASIZE - 1 \in Idx /\ FlushEnd \in Int
  BY <1>0, CycleInt
<1>1. (cycle \in 0 .. FlushEnd)'
  <2>1. cycle' \in 0 .. FlushEnd
    BY <1>0, <1>c
  <2> QED BY <2>1 DEF FlushEnd, PropagateEnd, PreloadEnd
<1>m. \A i, j \in Idx : Mac(i, j, in[i][j]) \in Sum16
  BY <1>0, MacType DEF Fed
<1>2. pe' \in [Idx -> [Idx -> PE]]
  <2>1. ASSUME NEW i \in Idx, NEW j \in Idx
        PROVE  [weightReg |-> pe[i][j].weightReg, inReg |-> in[i][j], fwdIn |-> in[i][j],
                psumReg |-> Psum(in, i, j), fwdPsum |-> Psum(in, i, j)] \in PE
    <3>1. in[i][j] \in Reg8
      BY <1>0 DEF Fed
    <3>2. pe[i][j] \in PE
      BY <1>0 DEF GridType
    <3>3. pe[i][j].weightReg \in Reg8
      BY <3>2 DEF PE
    <3>4. PICK m : m = Mac(i, j, in[i][j]) /\ m \in Sum16
      BY <1>m
    <3>5. [m EXCEPT !.valid = FALSE] \in Sum16
      BY <3>4 DEF Sum16
    <3>6. Psum(in, i, j) \in Sum16
      BY <3>4, <3>5, Zenon DEF Psum
    <3> QED BY <3>1, <3>3, <3>6 DEF PE
  <2> QED BY <1>0, <2>1, MacForwardEmitIs
<1>3. Result' \in [Idx -> [Idx -> Int]]
  <2>1. ASSUME NEW i \in Idx, NEW j \in Idx
        PROVE  (IF Emit(in, j) /\ emitRow[j] = i
                THEN Mac(SASIZE - 1, j, in[SASIZE - 1][j]).sum ELSE Result[i][j]) \in Int
    <3>1. Mac(SASIZE - 1, j, in[SASIZE - 1][j]) \in Sum16
      BY <1>m, <1>c
    <3>2. Mac(SASIZE - 1, j, in[SASIZE - 1][j]).sum \in Int
      BY <3>1 DEF Sum16
    <3>3. Result[i][j] \in Int
      BY <1>0 DEF GridType
    <3> QED BY <3>2, <3>3, Zenon
  <2>2. Result' = [i \in Idx |-> [j \in Idx |->
                        IF Emit(in, j) /\ emitRow[j] = i
                        THEN Mac(SASIZE - 1, j, in[SASIZE - 1][j]).sum ELSE Result[i][j]]]
    BY <1>0, MacForwardEmitIs, Zenon
  <2> QED BY <2>1, <2>2, Zenon
<1> QED BY <1>0, <1>1, <1>2, <1>3 DEF GridType, Idx

LEMMA PeAfter ==
  ASSUME NEW in, MacStep(in), NEW i \in Idx, NEW j \in Idx
  PROVE  /\ pe'[i][j].weightReg = pe[i][j].weightReg
         /\ pe'[i][j].fwdIn = in[i][j]
         /\ pe'[i][j].fwdPsum = Psum(in, i, j)
<1>1. MacForwardEmit(in)
  BY DEF MacStep
<1>2. pe'[i][j] = [weightReg |-> pe[i][j].weightReg, inReg |-> in[i][j], fwdIn |-> in[i][j],
                   psumReg |-> Psum(in, i, j), fwdPsum |-> Psum(in, i, j)]
  <2> DEFINE P(a, b) ==
               [weightReg |-> pe[a][b].weightReg, inReg |-> in[a][b], fwdIn |-> in[a][b],
                psumReg |-> Psum(in, a, b), fwdPsum |-> Psum(in, a, b)]
  <2>1. pe' = [a \in Idx |-> [b \in Idx |-> P(a, b)]]
    BY <1>1, MacForwardEmitIs, Zenon
  <2> HIDE DEF P
  <2>2. pe'[i][j] = P(i, j)
    BY <2>1
  <2> QED BY <2>2 DEF P
<1> QED BY <1>2

LEMMA StepWeights ==
  ASSUME NEW in, MacStep(in)
  PROVE  Weights'
<1>0. /\ GridType /\ Weights /\ SASIZE <= cycle /\ cycle' = cycle + 1 /\ B_Tile' = B_Tile
  BY DEF MacStep, GridInv
<1>c. SASIZE \in Nat \ {0} /\ cycle \in Int
  BY <1>0, CycleInt
<1>1. cycle >= SASIZE /\ cycle' >= SASIZE /\ ~ (cycle' <= SASIZE)
  BY <1>0, <1>c
<1>2. \A i, j \in Idx : pe'[i][j].weightReg = Valid8(B_Tile'[i][j])
  <2> TAKE i, j \in Idx
  <2>1. pe[i][j].weightReg = Valid8(B_Tile[i][j])
    BY <1>0, <1>1, Zenon DEF Weights
  <2> QED BY <1>0, <2>1, PeAfter, Zenon
<1> QED BY <1>1, <1>2, Zenon DEF Weights, Idx, Valid8

LEMMA StepInputs ==
  ASSUME NEW in, MacStep(in)
  PROVE  Inputs'
<1>0. GridType /\ Fed(in) /\ cycle' = cycle + 1 /\ A_Tile' = A_Tile
  BY DEF MacStep, GridInv
<1>c. SASIZE \in Nat \ {0} /\ cycle \in Int
  BY <1>0, CycleInt
<1>1. ASSUME NEW i \in Idx, NEW j \in Idx, cycle' - SASIZE - 1 - j <= 2 * SASIZE - 2
      PROVE  pe'[i][j].fwdIn = Inject(cycle - SASIZE - 1 - j, i)'
  <2>1. cycle' - SASIZE - 1 - j = cycle - SASIZE - j
    BY <1>0, <1>c DEF Idx
  <2>2. in[i][j] = Inject(cycle - SASIZE - j, i)
    BY <1>0, <1>1, <2>1, Zenon DEF Fed
  <2>3. Inject(cycle - SASIZE - 1 - j, i)' = Inject(cycle - SASIZE - j, i)
    BY <1>0, <2>1, Zenon DEF Inject, Idx, Invalid
  <2> QED BY <2>2, <2>3, PeAfter, Zenon
<1> QED BY <1>1, Zenon DEF Inputs, Idx

LEMMA StepSums ==
  ASSUME NEW in, MacStep(in)
  PROVE  Sums'
<1>0. /\ GridType /\ Weights /\ Sums /\ Fed(in) /\ SASIZE <= cycle
      /\ cycle' = cycle + 1 /\ A_Tile' = A_Tile /\ B_Tile' = B_Tile
  BY DEF MacStep, GridInv
<1>c. SASIZE \in Nat \ {0} /\ cycle \in Int
  BY <1>0, CycleInt
<1>1. ASSUME NEW i \in Idx, NEW j \in Idx, i # SASIZE - 1, NEW r \in Idx,
             r = (cycle' - SASIZE - 1 - j) - i
      PROVE  pe'[i][j].fwdPsum = Valid16(SumTo(i + 1, Terms(r, j)) % Modulus)
  <2>i. i \in Nat /\ j \in Nat /\ i < SASIZE /\ r \in Nat /\ r < SASIZE
    BY <1>c DEF Idx
  <2>1. /\ r = cycle - SASIZE - j - i /\ (cycle - SASIZE - j) - i = r
        /\ cycle - SASIZE - j <= 2 * SASIZE - 2 /\ cycle - SASIZE - j \in Int
    BY <1>0, <1>1, <1>c, <2>i
  <2>2. in[i][j] = Valid8(A_Tile[r][i])
    <3>1. in[i][j] = Inject(cycle - SASIZE - j, i)
      BY <1>0, <2>1, Zenon DEF Fed
    <3> QED BY <2>1, <3>1, InjectIs, Zenon
  <2>3. Mac(i, j, in[i][j]) = Valid16(SumTo(i + 1, Terms(r, j)) % Modulus)
    BY <1>0, <2>1, <2>2, MacIs, Zenon
  <2>4. Psum(in, i, j) = Mac(i, j, in[i][j])
    BY <1>1, Zenon DEF Psum
  <2> QED BY <2>3, <2>4, PeAfter, Zenon
<1>2. \A n, r, j : SumTo(n, Terms(r, j))' = SumTo(n, Terms(r, j))
  BY <1>0, TileConst
<1>3. ASSUME NEW i \in Idx, NEW j \in Idx, NEW r \in Idx,
             i # SASIZE - 1 /\ r = (cycle' - SASIZE - 1 - j) - i
      PROVE  pe'[i][j].fwdPsum = Valid16(SumTo(i + 1, Terms(r, j))' % Modulus)
  <2>1. pe'[i][j].fwdPsum = Valid16(SumTo(i + 1, Terms(r, j)) % Modulus)
    BY <1>1, <1>3
  <2>2. SumTo(i + 1, Terms(r, j))' = SumTo(i + 1, Terms(r, j))
    BY <1>2, Zenon
  <2> QED BY <2>1, <2>2, Zenon
<1> QED BY <1>3 DEF Sums, Idx, Valid16

LEMMA StepEmits ==
  ASSUME NEW in, MacStep(in)
  PROVE  Emits'
<1>0. GridType /\ Emits /\ MacForwardEmit(in) /\ cycle' = cycle + 1
  BY DEF MacStep, GridInv
<1>c. SASIZE \in Nat \ {0} /\ cycle \in Int
  BY <1>0, CycleInt
<1>1. ASSUME NEW j \in Idx
      PROVE  (IF Emit(in, j) THEN emitRow[j] + 1 ELSE emitRow[j]) = Emitted(cycle + 1, j)
  <2>j. j \in Nat /\ j < SASIZE
    BY <1>c DEF Idx
  <2>1. CASE cycle < 2 * SASIZE + j - 1
    <3>1. Emit(in, j) = FALSE /\ emitRow[j] = 0
      BY <2>1, EmitIs
    <3>2. Emitted(cycle + 1, j) = 0
      BY <1>c, <2>j, <2>1 DEF Emitted
    <3> QED BY <3>1, <3>2, Zenon
  <2>2. CASE cycle > 3 * SASIZE + j - 2
    <3>1. Emit(in, j) = FALSE /\ emitRow[j] = SASIZE
      BY <2>2, EmitIs
    <3>2. Emitted(cycle + 1, j) = SASIZE
      BY <1>c, <2>j, <2>2 DEF Emitted
    <3> QED BY <3>1, <3>2, Zenon
  <2>3. ASSUME NEW v \in Idx, v = cycle - 2 * SASIZE + 1 - j
        PROVE  (IF Emit(in, j) THEN emitRow[j] + 1 ELSE emitRow[j]) = Emitted(cycle + 1, j)
    <3>1. Emit(in, j) = TRUE /\ emitRow[j] = v
      BY <2>3, EmitIs
    <3>v. v \in Nat /\ v < SASIZE
      BY <1>c DEF Idx
    <3>2. Emitted(cycle + 1, j) = v + 1
      BY <1>c, <2>j, <2>3, <3>v DEF Emitted
    <3> QED BY <3>1, <3>2, Zenon
  <2> QED BY <1>0, <2>1, <2>2, <2>3, EmitCases
<1>2. emitRow' = [j \in Idx |-> IF Emit(in, j) THEN emitRow[j] + 1 ELSE emitRow[j]]
  BY <1>0, MacForwardEmitIs, Zenon
<1>3. emitRow' = [j \in Idx |-> Emitted(cycle', j)]
  BY <1>0, <1>1, <1>2, Zenon
<1> QED BY <1>3, Zenon DEF Emits, Emitted, Idx

LEMMA StepProducts ==
  ASSUME NEW in, MacStep(in)
  PROVE  Products'
<1>0. /\ GridType /\ Emits /\ Products /\ MacForwardEmit(in)
      /\ A_Tile' = A_Tile /\ B_Tile' = B_Tile
  BY DEF MacStep, GridInv
<1>c. SASIZE \in Nat \ {0} /\ cycle \in Int
  BY <1>0, CycleInt
<1>t. \A i, j : TileProduct(i, j)' = TileProduct(i, j)
  BY <1>0, TileConst
<1>e. \A j \in Idx : emitRow'[j] = IF Emit(in, j) THEN emitRow[j] + 1 ELSE emitRow[j]
  <2>1. emitRow' = [j \in Idx |-> IF Emit(in, j) THEN emitRow[j] + 1 ELSE emitRow[j]]
    BY <1>0, MacForwardEmitIs, Zenon
  <2> QED BY <2>1, Zenon
<1>r. \A i, j \in Idx : Result'[i][j] = IF Emit(in, j) /\ emitRow[j] = i
                                       THEN Mac(SASIZE - 1, j, in[SASIZE - 1][j]).sum
                                       ELSE Result[i][j]
  <2> DEFINE R(i, j) == IF Emit(in, j) /\ emitRow[j] = i
                        THEN Mac(SASIZE - 1, j, in[SASIZE - 1][j]).sum ELSE Result[i][j]
  <2>1. Result' = [i \in Idx |-> [j \in Idx |-> R(i, j)]]
    BY <1>0, MacForwardEmitIs, Zenon
  <2> HIDE DEF R
  <2>2. \A i, j \in Idx : Result'[i][j] = R(i, j)
    BY <2>1
  <2> QED BY <2>2 DEF R
<1>1. ASSUME NEW j \in Idx, NEW i \in 0 .. emitRow'[j] - 1
      PROVE  Result'[i][j] = TileProduct(i, j)
  <2>1. CASE Emit(in, j) = FALSE
    <3>1. emitRow'[j] = emitRow[j]
      BY <1>e, <2>1, Zenon
    <3>2. i \in 0 .. emitRow[j] - 1
      BY <3>1, Zenon
    <3>3. Result[i][j] = TileProduct(i, j)
      BY <1>0, <3>2, Zenon DEF Products
    <3>4. i \in Idx
      <4>1. emitRow[j] = Emitted(cycle, j)
        BY <1>0, Zenon DEF Emits
      <4>2. Emitted(cycle, j) <= SASIZE /\ Emitted(cycle, j) \in Int
        BY <1>c DEF Emitted, Idx
      <4> QED BY <1>c, <3>2, <4>1, <4>2 DEF Idx
    <3> QED BY <1>r, <2>1, <3>3, <3>4, Zenon
  <2>2. ASSUME NEW v \in Idx, v = cycle - 2 * SASIZE + 1 - j
        PROVE  Result'[i][j] = TileProduct(i, j)
    <3>1. /\ Emit(in, j) = TRUE /\ emitRow[j] = v
          /\ Mac(SASIZE - 1, j, in[SASIZE - 1][j]).sum = TileProduct(v, j)
      BY <2>2, EmitIs
    <3>v. v \in Nat /\ v < SASIZE
      BY <1>c DEF Idx
    <3>2. emitRow'[j] = v + 1
      BY <1>e, <3>1, Zenon
    <3>3. i \in Idx /\ (i = v \/ i \in 0 .. v - 1)
      BY <3>2, <3>v, <1>c DEF Idx
    <3>4. CASE i = v
      BY <1>r, <3>1, <3>3, <3>4, Zenon
    <3>5. CASE i \in 0 .. v - 1
      <4>1. i # v
        BY <3>5, <3>v
      <4>2. Result[i][j] = TileProduct(i, j)
        BY <1>0, <3>1, <3>5, Zenon DEF Products
      <4> QED BY <1>r, <3>1, <3>3, <4>1, <4>2, Zenon
    <3> QED BY <3>3, <3>4, <3>5
  <2> QED BY <1>0, <2>1, <2>2, EmitCases, EmitIs
<1> QED BY <1>1, <1>t, Zenon DEF Products, Idx

LEMMA MacStepInv ==
  ASSUME NEW in, MacStep(in)
  PROVE  GridInv'
<1>1. CopiedOut'
  BY DEF MacStep, CopiedOut, FlushEnd, PropagateEnd, PreloadEnd
<1> QED BY <1>1, StepType, StepWeights, StepInputs, StepSums, StepEmits, StepProducts DEF GridInv

\* Shifting the inputs keeps them in step, whatever enters the first column
\* once everything has been fed.
LEMMA ShiftIsFed ==
  ASSUME GridInv, NEW first, NEW in,
         in = [i \in Idx |-> [j \in Idx |-> IF j = 0 THEN first[i] ELSE pe[i][j - 1].fwdIn]],
         \A i \in Idx : first[i] \in Reg8,
         cycle - SASIZE <= 2 * SASIZE - 2 => \A i \in Idx : first[i] = Inject(cycle - SASIZE, i)
  PROVE  Fed(in)
<1>0. GridType /\ Inputs
  BY DEF GridInv
<1>c. SASIZE \in Nat \ {0} /\ cycle \in Int
  BY <1>0, CycleInt
<1>1. \A i, j \in Idx : in[i][j] = IF j = 0 THEN first[i] ELSE pe[i][j - 1].fwdIn
  OBVIOUS
<1>2. ASSUME NEW i \in Idx, NEW j \in Idx
      PROVE  in[i][j] \in Reg8
  <2>1. CASE j = 0
    BY <1>1, <2>1, Zenon
  <2>2. CASE j # 0
    <3>1. j - 1 \in Idx
      BY <1>c, <2>2 DEF Idx
    <3>2. pe[i][j - 1] \in PE
      BY <1>0, <3>1 DEF GridType
    <3>3. pe[i][j - 1].fwdIn \in Reg8
      BY <3>2 DEF PE
    <3> QED BY <1>1, <2>2, <3>3, Zenon
  <2> QED BY <2>1, <2>2
<1>3. ASSUME NEW i \in Idx, NEW j \in Idx, cycle - SASIZE - j <= 2 * SASIZE - 2
      PROVE  in[i][j] = Inject(cycle - SASIZE - j, i)
  <2>1. CASE j = 0
    <3>1. cycle - SASIZE - j = cycle - SASIZE
      BY <1>c, <2>1
    <3> QED BY <1>1, <1>3, <2>1, <3>1, Zenon
  <2>2. CASE j # 0
    <3>1. PICK h \in Idx : h = j - 1
      BY <1>c, <2>2 DEF Idx
    <3>2. cycle - SASIZE - 1 - h = cycle - SASIZE - j
      BY <1>c, <3>1 DEF Idx
    <3>3. pe[i][h].fwdIn = Inject(cycle - SASIZE - j, i)
      BY <1>0, <1>3, <3>2, Zenon DEF Inputs
    <3> QED BY <1>1, <2>2, <3>1, <3>3, Zenon
  <2> QED BY <2>1, <2>2
<1> QED BY <1>2, <1>3 DEF Fed

LEMMA PropagateInv ==
  ASSUME GridInv, PropagateA_And_MAC
  PROVE  GridInv'
<1>0. GridType
  BY DEF GridInv
<1>c. /\ SASIZE \in Nat \ {0} /\ cycle \in Int
      /\ PropagateEnd = 3 * SASIZE - 1 /\ PreloadEnd = SASIZE /\ FlushEnd = 4 * SASIZE - 1
  BY <1>0, CycleInt
<1>1. /\ PreloadEnd <= cycle /\ cycle < PropagateEnd /\ cycle' = cycle + 1
      /\ A_Tile' = A_Tile /\ B_Tile' = B_Tile
  BY DEF PropagateA_And_MAC, tile
<1>2. SASIZE <= cycle /\ cycle < FlushEnd /\ cycle' # FlushEnd
  BY <1>c, <1>1
<1>3. PICK first : first = [i \in Idx |-> Inject(cycle - PreloadEnd, i)]
  OBVIOUS
<1>4. PICK in : in = [i \in Idx |-> [j \in Idx |-> IF j = 0 THEN first[i] ELSE pe[i][j - 1].fwdIn]]
  OBVIOUS
<1>5. MacForwardEmit(in)
  <2>1. MacForwardEmit(Grid(LAMBDA i, j :
          IF j = 0 THEN Inject(cycle - PreloadEnd, i) ELSE pe[i][j - 1].fwdIn))
    BY DEF PropagateA_And_MAC
  <2>2. in = Grid(LAMBDA i, j : IF j = 0 THEN Inject(cycle - PreloadEnd, i) ELSE pe[i][j - 1].fwdIn)
    <3>1. \A i \in Idx : first[i] = Inject(cycle - PreloadEnd, i)
      BY <1>3, Zenon
    <3> QED BY <1>4, <3>1, Zenon DEF Grid
  <2> QED BY <2>1, <2>2, Zenon
<1>6. \A i \in Idx : first[i] = Inject(cycle - SASIZE, i) /\ first[i] \in Reg8
  <2>1. cycle - SASIZE \in Int
    BY <1>c
  <2> QED BY <1>0, <1>3, <1>c, <2>1, InjectType, Zenon
<1>7. Fed(in)
  BY <1>4, <1>6, ShiftIsFed
<1>8. MacStep(in)
  BY <1>1, <1>2, <1>5, <1>7, Zenon DEF MacStep
<1> QED BY <1>8, MacStepInv

LEMMA FlushInv ==
  ASSUME GridInv, FlushAndEmit
  PROVE  GridInv'
<1>0. GridType
  BY DEF GridInv
<1>c. /\ SASIZE \in Nat \ {0} /\ cycle \in Int
      /\ PropagateEnd = 3 * SASIZE - 1 /\ PreloadEnd = SASIZE /\ FlushEnd = 4 * SASIZE - 1
  BY <1>0, CycleInt
<1>1. /\ PropagateEnd <= cycle /\ cycle < FlushEnd /\ cycle' = cycle + 1
      /\ A_Tile' = A_Tile /\ B_Tile' = B_Tile
      /\ Tile_Result' = IF cycle = FlushEnd - 1 THEN Result' ELSE Tile_Result
  BY DEF FlushAndEmit, tile
<1>2. SASIZE <= cycle /\ ~ (cycle - SASIZE <= 2 * SASIZE - 2)
  BY <1>c, <1>1
<1>3. cycle' = FlushEnd => Tile_Result' = Result'
  <2>1. cycle' = FlushEnd => cycle = FlushEnd - 1
    BY <1>c, <1>1
  <2> QED BY <1>1, <2>1, Zenon
<1>4. PICK g \in [Idx -> Garbage] :
        MacForwardEmit(Grid(LAMBDA i, j : IF j = 0 THEN g[i] ELSE pe[i][j - 1].fwdIn))
  BY DEF FlushAndEmit
<1>5. PICK in : in = [i \in Idx |-> [j \in Idx |-> IF j = 0 THEN g[i] ELSE pe[i][j - 1].fwdIn]]
  OBVIOUS
<1>6. MacForwardEmit(in)
  BY <1>4, <1>5, Zenon DEF Grid
<1>7. \A i \in Idx : g[i] \in Reg8
  <2> TAKE i \in Idx
  <2>1. g[i] \in [valid : BOOLEAN, data : 0 .. 255]
    BY SystolicAssumption
  <2> QED BY <2>1 DEF Reg8
<1>8. Fed(in)
  BY <1>2, <1>5, <1>7, ShiftIsFed
<1>9. MacStep(in)
  BY <1>1, <1>2, <1>3, <1>6, <1>8, Zenon DEF MacStep
<1> QED BY <1>9, MacStepInv

LEMMA PreloadInv ==
  ASSUME GridInv, Preload_Weight
  PROVE  GridInv'
<1>0. GridType /\ Weights /\ Inputs /\ Sums /\ Emits /\ Products
  BY DEF GridInv
<1>c. /\ SASIZE \in Nat \ {0} /\ cycle \in Int /\ 0 <= cycle
      /\ PreloadEnd = SASIZE /\ FlushEnd = 4 * SASIZE - 1
  BY <1>0, CycleInt
<1>1. /\ cycle < SASIZE /\ cycle' = cycle + 1
      /\ A_Tile' = A_Tile /\ B_Tile' = B_Tile /\ emitRow' = emitRow /\ Result' = Result
  BY <1>c DEF Preload_Weight, tile
<1>2. cycle' \in Int /\ 0 < cycle' /\ cycle' <= SASIZE /\ cycle' < FlushEnd
  BY <1>c, <1>1
<1> DEFINE W(i, j) == IF i > 0 THEN pe[i - 1][j].weightReg
                      ELSE [valid |-> TRUE, data |-> B_Tile[SASIZE - 1 - cycle][j]]
<1>3. pe' = [i \in Idx |-> [j \in Idx |-> [pe[i][j] EXCEPT !.weightReg = W(i, j)]]]
  BY Zenon DEF Preload_Weight, Grid
<1>w. ASSUME NEW i \in Idx, NEW j \in Idx
      PROVE  W(i, j) \in Reg8
  <2>1. CASE i > 0
    <3>1. i - 1 \in Idx
      BY <1>c, <2>1 DEF Idx
    <3>2. pe[i - 1][j] \in PE
      BY <1>0, <3>1 DEF GridType
    <3>3. pe[i - 1][j].weightReg \in Reg8
      BY <3>2 DEF PE
    <3> QED BY <2>1, <3>3, Zenon
  <2>2. CASE ~ (i > 0)
    <3>1. SASIZE - 1 - cycle \in Idx
      BY <1>c, <1>1 DEF Idx
    <3>2. B_Tile[SASIZE - 1 - cycle][j] \in Int
      BY <1>0, <3>1 DEF GridType
    <3>3. [valid |-> TRUE, data |-> B_Tile[SASIZE - 1 - cycle][j]] \in Reg8
      BY <3>2 DEF Reg8
    <3> QED BY <2>2, <3>3, Zenon
  <2> QED BY <2>1, <2>2
<1>v. ASSUME NEW i \in Idx, NEW j \in Idx, i < cycle'
      PROVE  W(i, j) = Valid8(B_Tile[SASIZE - cycle' + i][j])
  <2>1. CASE i > 0
    <3>1. PICK h \in Idx : h = i - 1
      BY <1>c, <2>1 DEF Idx
    <3>2. cycle <= SASIZE /\ h < cycle /\ SASIZE - cycle + h = SASIZE - cycle' + i
      BY <1>c, <1>1, <1>v, <3>1 DEF Idx
    <3>3. pe[h][j].weightReg = Valid8(B_Tile[SASIZE - cycle + h][j])
      BY <1>0, <3>2, Zenon DEF Weights
    <3> QED BY <2>1, <3>1, <3>2, <3>3, Zenon
  <2>2. CASE ~ (i > 0)
    <3>1. SASIZE - 1 - cycle = SASIZE - cycle' + i
      BY <1>c, <1>1, <2>2 DEF Idx
    <3> QED BY <2>2, <3>1, Zenon DEF Valid8
  <2> QED BY <2>1, <2>2
<1> HIDE DEF W
<1>4. ASSUME NEW i \in Idx, NEW j \in Idx
      PROVE  /\ pe'[i][j] \in PE
             /\ pe'[i][j].weightReg = W(i, j)
             /\ pe'[i][j].fwdIn = pe[i][j].fwdIn
  <2>1. pe'[i][j] = [pe[i][j] EXCEPT !.weightReg = W(i, j)]
    BY <1>3
  <2>2. pe[i][j] \in PE
    BY <1>0 DEF GridType
  <2>3. W(i, j) \in Reg8
    BY <1>w
  <2> QED BY <2>1, <2>2, <2>3 DEF PE
<1>5. GridType'
  <2>1. pe' \in [Idx -> [Idx -> PE]]
    <3> DEFINE P(i, j) == [pe[i][j] EXCEPT !.weightReg = W(i, j)]
    <3>1. pe' = [i \in Idx |-> [j \in Idx |-> P(i, j)]]
      BY <1>3
    <3> HIDE DEF P
    <3>2. \A i, j \in Idx : P(i, j) \in PE
      BY <1>4, <3>1
    <3> QED BY <3>1, <3>2
  <2>2. cycle' \in 0 .. FlushEnd
    BY <1>c, <1>2
  <2> QED BY <1>0, <1>1, <2>1, <2>2 DEF GridType, Idx, FlushEnd, PropagateEnd, PreloadEnd
<1>6. Weights'
  <2>1. ASSUME NEW i \in Idx, NEW j \in Idx, i < cycle'
        PROVE  pe'[i][j].weightReg = Valid8(B_Tile'[SASIZE - cycle' + i][j])
    BY <1>1, <1>4, <1>v, <2>1, Zenon
  <2>2. ASSUME NEW i \in Idx, NEW j \in Idx, cycle' >= SASIZE
        PROVE  pe'[i][j].weightReg = Valid8(B_Tile'[i][j])
    <3>1. i < cycle' /\ SASIZE - cycle' + i = i
      BY <1>c, <1>1, <2>2 DEF Idx
    <3> QED BY <2>1, <3>1, Zenon
  <2> QED BY <2>1, <2>2, Zenon DEF Weights, Idx, Valid8
<1>7. Inputs'
  <2>1. ASSUME NEW i \in Idx, NEW j \in Idx
        PROVE  pe'[i][j].fwdIn = Inject(cycle - SASIZE - 1 - j, i)'
    <3>1. /\ cycle - SASIZE - 1 - j \in Int /\ cycle - SASIZE - 1 - j <= 2 * SASIZE - 2
          /\ (cycle - SASIZE - 1 - j) - i \notin Idx
          /\ (cycle' - SASIZE - 1 - j) - i \notin Idx
      BY <1>c, <1>1 DEF Idx
    <3>2. pe[i][j].fwdIn = Inject(cycle - SASIZE - 1 - j, i)
      BY <1>0, <3>1, Zenon DEF Inputs
    <3>3. pe[i][j].fwdIn = Invalid
      BY <3>1, <3>2, InjectIs, Zenon
    <3>4. Inject(cycle - SASIZE - 1 - j, i)' = Invalid
      BY <3>1, Zenon DEF Inject, Idx, Invalid
    <3> QED BY <1>4, <3>3, <3>4, Zenon
  <2> QED BY <2>1, Zenon DEF Inputs, Idx
<1>8. Sums'
  <2>1. \A i, j, r \in Idx : r # (cycle' - SASIZE - 1 - j) - i
    BY <1>c, <1>1 DEF Idx
  <2> QED BY <2>1, Zenon DEF Sums, Idx
<1>9. Emits'
  <2>1. \A j \in Idx : Emitted(cycle, j) = 0 /\ Emitted(cycle', j) = 0
    BY <1>c, <1>1, <1>2 DEF Emitted, Idx
  <2>2. emitRow' = [j \in Idx |-> Emitted(cycle', j)]
    BY <1>0, <1>1, <2>1, Zenon DEF Emits
  <2> QED BY <2>2, Zenon DEF Emits, Emitted, Idx
<1>10. Products'
  <2>1. \A i, j : TileProduct(i, j)' = TileProduct(i, j)
    BY <1>1, TileConst
  <2> QED BY <1>0, <1>1, <2>1, Zenon DEF Products, Idx
<1>11. CopiedOut'
  <2>1. cycle' # FlushEnd
    BY <1>c, <1>2
  <2> QED BY <2>1, Zenon DEF CopiedOut, FlushEnd, PropagateEnd, PreloadEnd
<1> QED BY <1>5, <1>6, <1>7, <1>8, <1>9, <1>10, <1>11 DEF GridInv

\* A tile starts with an idle grid.
LEMMA LaunchInv ==
  ASSUME NEW q, NEW A, NEW B, q # <<>>, launchNextTile(q, A, B),
         LoadATile(A, Head(q)) \in [Idx -> [Idx -> Int]],
         LoadBTile(B, Head(q)) \in [Idx -> [Idx -> Int]]
  PROVE  GridInv'
<1>c. /\ SASIZE \in Nat \ {0}
      /\ FlushEnd = 4 * SASIZE - 1
  BY SystolicAssumption DEF FlushEnd, PropagateEnd, PreloadEnd
<1>1. /\ A_Tile' \in [Idx -> [Idx -> Int]] /\ B_Tile' \in [Idx -> [Idx -> Int]]
      /\ cycle' = 0
      /\ pe' = [i \in Idx |-> [j \in Idx |-> IdlePE]]
      /\ emitRow' = [j \in Idx |-> 0]
      /\ Result' = [i \in Idx |-> [j \in Idx |-> 0]]
  BY DEF launchNextTile, Grid
<1>2. IdlePE \in PE /\ IdlePE.fwdIn = Invalid
  BY DEF IdlePE, PE, Reg8, Sum16, Invalid, NoSum
<1>3. GridType'
  <2>1. cycle' \in 0 .. FlushEnd
    BY <1>c, <1>1
  <2>2. pe' \in [Idx -> [Idx -> PE]] /\ Result' \in [Idx -> [Idx -> Int]]
    BY <1>1, <1>2
  <2> QED BY <1>1, <2>1, <2>2 DEF GridType, Idx, FlushEnd, PropagateEnd, PreloadEnd
<1>4. Weights'
  <2>1. \A i \in Idx : ~ (i < cycle')
    BY <1>c, <1>1 DEF Idx
  <2>2. ~ (cycle' >= SASIZE)
    BY <1>c, <1>1
  <2> QED BY <2>1, <2>2, Zenon DEF Weights, Idx
<1>5. Inputs'
  <2>1. ASSUME NEW i \in Idx, NEW j \in Idx
        PROVE  pe'[i][j].fwdIn = Inject(cycle - SASIZE - 1 - j, i)'
    <3>1. (cycle' - SASIZE - 1 - j) - i \notin Idx
      BY <1>c, <1>1 DEF Idx
    <3>2. Inject(cycle - SASIZE - 1 - j, i)' = Invalid
      BY <3>1, Zenon DEF Inject, Idx, Invalid
    <3>3. pe'[i][j] = IdlePE
      BY <1>1, Zenon
    <3> QED BY <1>2, <3>2, <3>3, Zenon
  <2> QED BY <2>1, Zenon DEF Inputs, Idx
<1>6. Sums'
  <2>1. \A i, j, r \in Idx : r # (cycle' - SASIZE - 1 - j) - i
    BY <1>c, <1>1 DEF Idx
  <2> QED BY <2>1, Zenon DEF Sums, Idx
<1>7. Emits'
  <2>1. \A j \in Idx : Emitted(cycle', j) = 0
    BY <1>c, <1>1 DEF Emitted, Idx
  <2>2. emitRow' = [j \in Idx |-> Emitted(cycle', j)]
    BY <1>1, <2>1, Zenon
  <2> QED BY <2>2, Zenon DEF Emits, Emitted, Idx
<1>8. Products'
  <2>1. \A j \in Idx : 0 .. emitRow'[j] - 1 = {}
    <3> TAKE j \in Idx
    <3>1. emitRow'[j] = 0
      BY <1>1
    <3> QED BY <3>1
  <2> QED BY <2>1, Zenon DEF Products, Idx
<1>9. CopiedOut'
  <2>1. cycle' # FlushEnd
    BY <1>c, <1>1
  <2> QED BY <2>1, Zenon DEF CopiedOut, FlushEnd, PropagateEnd, PreloadEnd
<1> QED BY <1>3, <1>4, <1>5, <1>6, <1>7, <1>8, <1>9 DEF GridInv

-----------------------------------------------------------------------------
(* The order of the tasks.                                                 *)

\* A block starts inside the matrix exactly when it is one of its blocks.
LEMMA BlocksIs ==
  ASSUME NEW n \in Nat
  PROVE  Blocks(n) \in Nat /\ \A w \in Nat : w * SASIZE < n <=> w < Blocks(n)
<1>0. SASIZE \in Nat \ {0} /\ SASIZE \in Nat /\ n + SASIZE - 1 \in Int
  BY SystolicAssumption
<1>1. PICK q \in Int, s \in Nat :
        n + SASIZE - 1 = q * SASIZE + s /\ s < SASIZE /\ q = (n + SASIZE - 1) \div SASIZE
  BY <1>0, Division
<1>2. Blocks(n) = q
  BY <1>1 DEF Blocks
<1>3. n + SASIZE - 1 = q * SASIZE + s /\ s < SASIZE
  BY <1>1
<1>4. PICK p \in Int : p = q * SASIZE
  BY <1>0
<1>5. n <= p /\ p < n + SASIZE
  BY <1>0, <1>3, <1>4
<1>6. q \in Nat
  <2> SUFFICES ASSUME q <= -1 PROVE FALSE
    OBVIOUS
  <2>1. q * SASIZE <= (-1) * SASIZE
    BY <1>0, ProductMonotone, SMT
  <2> QED BY <1>0, <1>4, <1>5, <2>1, SMT
<1>7. ASSUME NEW w \in Nat PROVE w * SASIZE < n <=> w < q
  <2>1. ASSUME w < q PROVE w * SASIZE < n
    <3>1. w + 1 \in Int /\ w + 1 <= q
      BY <2>1
    <3>2. (w + 1) * SASIZE <= q * SASIZE
      BY <1>0, <3>1, ProductMonotone
    <3>3. (w + 1) * SASIZE = w * SASIZE + SASIZE
      BY <1>0, SMT
    <3>4. PICK u \in Int : u = w * SASIZE
      BY <1>0
    <3> QED BY <1>0, <1>4, <1>5, <3>2, <3>3, <3>4
  <2>2. ASSUME ~ (w < q) PROVE ~ (w * SASIZE < n)
    <3>1. q <= w
      BY <2>2
    <3>2. q * SASIZE <= w * SASIZE
      BY <1>0, <3>1, ProductMonotone
    <3>4. PICK u \in Int : u = w * SASIZE
      BY <1>0
    <3> QED BY <1>4, <1>5, <3>2, <3>4
  <2> QED BY <2>1, <2>2
<1> QED BY <1>2, <1>6, <1>7

\* Task n, counted from 0, is the one of block row x, block column y and
\* slice z, of a by b by b blocks.
Place(a, b, n, x, y, z) ==
  /\ n = (x * b + y) * b + z
  /\ x \in Nat /\ x < a /\ y \in Nat /\ y < b /\ z \in Nat /\ z < b

\* How many tasks there are.
Count(a, b) == (a * b) * b

LEMMA Associate ==
  ASSUME NEW a \in Int, NEW b \in Int, NEW c \in Int
  PROVE  (a * b) * c = a * (b * c)
BY SMT

LEMMA PlaceDigits ==
  ASSUME NEW a \in Nat, NEW b \in Nat, NEW n, NEW x, NEW y, NEW z, Place(a, b, n, x, y, z)
  PROVE  /\ n \in Nat /\ n < (a * b) * b
         /\ n \div (b * b) = x /\ (n \div b) % b = y /\ n % b = z
<1>1. /\ n = (x * b + y) * b + z /\ b \in Nat \ {0}
      /\ x \in Nat /\ x < a /\ y \in Nat /\ y < b /\ z \in Nat /\ z < b
  BY DEF Place
<1> HIDE DEF Place
<1>2. PICK p \in Nat : p = x * b
  BY <1>1
<1>3. PICK u \in Nat : u = p + y
  BY <1>1
<1>4. n = u * b + z
  BY <1>1, <1>2, <1>3, Zenon
<1>5. n \div b = u /\ n % b = z
  <2>1. b \in Nat \ {0} /\ z \in Nat /\ z < b /\ u \in Int
    BY <1>1
  <2>2. (u * b + z) \div b = u /\ (u * b + z) % b = z
    BY <2>1, Euclid, Zenon
  <2> QED BY <1>4, <2>2, Zenon
<1>6. u % b = y
  <2>1. b \in Nat \ {0} /\ y \in Nat /\ y < b /\ x \in Int
    BY <1>1
  <2>2. (x * b + y) % b = y
    BY <2>1, Euclid
  <2> QED BY <1>2, <1>3, <2>2, Zenon
<1>7. PICK c \in Nat : c = b * b
  OBVIOUS
<1>8. PICK e \in Nat : e = y * b
  BY <1>1
<1>9. e + b <= c
  <2>1. y + 1 <= b /\ y + 1 \in Int
    BY <1>1
  <2>2. (y + 1) * b <= b * b
    BY <2>1, ProductMonotone
  <2>3. (y + 1) * b = y * b + 1 * b
    BY <1>1, Distribute
  <2> QED BY <1>7, <1>8, <2>2, <2>3
<1>10. PICK f \in Nat : f = e + z
  BY <1>1
<1>11. f < c /\ c \in Nat \ {0}
  BY <1>1, <1>9, <1>10
<1>12. n = x * c + f
  <2>1. u * b = p * b + y * b
    BY <1>1, <1>2, <1>3, Distribute
  <2>2. p * b = x * c
    BY <1>1, <1>2, <1>7, Associate
  <2>3. PICK g \in Int : g = x * c
    BY <1>1
  <2> QED BY <1>1, <1>4, <1>8, <1>10, <2>1, <2>2, <2>3
<1>13. n \div c = x
  <2>1. x \in Int
    BY <1>1
  <2>2. (x * c + f) \div c = x
    BY <1>11, <2>1, Euclid
  <2> QED BY <1>12, <2>2, Zenon
<1>14. n \in Nat /\ n < (a * b) * b
  <2>1. PICK g \in Nat : g = u * b
    OBVIOUS
  <2>2. (x + 1) * b <= a * b
    <3>1. x + 1 <= a /\ x + 1 \in Int
      BY <1>1
    <3> QED BY <3>1, ProductMonotone
  <2>3. (x + 1) * b = x * b + 1 * b
    BY <1>1, Distribute
  <2>4. PICK h \in Nat : h = a * b
    OBVIOUS
  <2>5. u + 1 <= h
    BY <1>1, <1>2, <1>3, <2>2, <2>3, <2>4
  <2>6. (u + 1) * b <= h * b
    BY <2>5, ProductMonotone
  <2>7. (u + 1) * b = u * b + 1 * b
    BY Distribute
  <2>8. PICK k \in Int : k = h * b
    OBVIOUS
  <2>9. n \in Nat /\ n < k
    BY <1>1, <1>4, <2>1, <2>6, <2>7, <2>8
  <2> QED BY <2>4, <2>8, <2>9, Zenon
<1> QED BY <1>5, <1>6, <1>7, <1>13, <1>14, Zenon

LEMMA FirstPlace ==
  ASSUME NEW a \in Nat, NEW b \in Nat
  PROVE  (a * b) * b # 0 => Place(a, b, 0, 0, 0, 0)
<1>1. a = 0 => a * b = 0
  OBVIOUS
<1>2. PICK p \in Nat : p = a * b
  OBVIOUS
<1>3. b = 0 => p * b = 0
  OBVIOUS
<1>4. p = 0 => p * b = 0
  OBVIOUS
<1>5. (0 * b + 0) * b + 0 = 0
  OBVIOUS
<1>6. ASSUME a # 0, b # 0 PROVE Place(a, b, 0, 0, 0, 0)
  BY <1>5, <1>6 DEF Place
<1> QED BY <1>1, <1>2, <1>3, <1>4, <1>6, Zenon

\* The loops over k, c and r, from the inside out.
LEMMA NextPlace ==
  ASSUME NEW a \in Nat, NEW b \in Nat, NEW n, NEW x, NEW y, NEW z, Place(a, b, n, x, y, z)
  PROVE  /\ z + 1 < b => Place(a, b, n + 1, x, y, z + 1)
         /\ z + 1 = b /\ y + 1 < b => Place(a, b, n + 1, x, y + 1, 0)
         /\ z + 1 = b /\ y + 1 = b /\ x + 1 < a => Place(a, b, n + 1, x + 1, 0, 0)
         /\ z + 1 = b /\ y + 1 = b /\ x + 1 = a => n + 1 = Count(a, b)
<1>1. /\ n = (x * b + y) * b + z /\ b \in Nat \ {0}
      /\ x \in Nat /\ x < a /\ y \in Nat /\ y < b /\ z \in Nat /\ z < b
  BY DEF Place
<1>2. PICK p \in Nat : p = x * b
  BY <1>1
<1>3. PICK u \in Nat : u = p + y
  BY <1>1
<1>4. PICK v \in Nat : v = u * b
  OBVIOUS
<1>5. n = v + z
  BY <1>1, <1>2, <1>3, <1>4, Zenon
<1>6. (u + 1) * b = v + b
  <2>1. (u + 1) * b = u * b + 1 * b
    BY Distribute
  <2> QED BY <1>4, <2>1
<1>7. (x + 1) * b = p + b
  <2>1. (x + 1) * b = x * b + 1 * b
    BY <1>1, Distribute
  <2> QED BY <1>2, <2>1
<1>8. ASSUME z + 1 < b PROVE Place(a, b, n + 1, x, y, z + 1)
  <2>1. n + 1 = v + (z + 1)
    BY <1>1, <1>5
  <2>2. n + 1 = (x * b + y) * b + (z + 1)
    BY <1>2, <1>3, <1>4, <2>1, Zenon
  <2>3. z + 1 \in Nat
    BY <1>1
  <2> QED BY <1>1, <1>8, <2>2, <2>3, Zenon DEF Place
<1>9. ASSUME z + 1 = b, y + 1 < b PROVE Place(a, b, n + 1, x, y + 1, 0)
  <2>1. n + 1 = (u + 1) * b + 0 /\ p + (y + 1) = u + 1
    BY <1>1, <1>3, <1>5, <1>6, <1>9
  <2>2. n + 1 = (x * b + (y + 1)) * b + 0
    BY <1>2, <2>1, Zenon
  <2>3. y + 1 \in Nat /\ 0 \in Nat /\ 0 < b
    BY <1>1
  <2> QED BY <1>1, <1>9, <2>2, <2>3, Zenon DEF Place
<1>10. ASSUME z + 1 = b, y + 1 = b PROVE n + 1 = ((x + 1) * b + 0) * b + 0
  <2>1. n + 1 = (u + 1) * b + 0 /\ u + 1 = (x + 1) * b + 0
    BY <1>1, <1>3, <1>5, <1>6, <1>7, <1>10
  <2> QED BY <2>1, Zenon
<1>11. ASSUME z + 1 = b, y + 1 = b, x + 1 < a PROVE Place(a, b, n + 1, x + 1, 0, 0)
  <2>1. x + 1 \in Nat /\ 0 \in Nat /\ 0 < b
    BY <1>1
  <2> QED BY <1>10, <1>11, <2>1, Zenon DEF Place
<1>12. ASSUME z + 1 = b, y + 1 = b, x + 1 = a PROVE n + 1 = Count(a, b)
  <2>1. n + 1 = (a * b + 0) * b + 0
    BY <1>10, <1>12, Zenon
  <2>2. PICK h \in Nat : h = a * b
    OBVIOUS
  <2>3. PICK k \in Nat : k = h * b
    OBVIOUS
  <2>4. h + 0 = h /\ k + 0 = k
    OBVIOUS
  <2> QED BY <2>1, <2>2, <2>3, <2>4, Zenon DEF Count
<1> QED BY <1>8, <1>9, <1>11, <1>12, Zenon

LEMMA PlaceExists ==
  ASSUME NEW a \in Nat, NEW b \in Nat, NEW n \in Nat, n < (a * b) * b
  PROVE  \E x, y, z \in Nat : Place(a, b, n, x, y, z)
<1>1. b # 0
  <2>1. PICK h \in Nat : h = a * b
    OBVIOUS
  <2>2. b = 0 => h * b = 0
    OBVIOUS
  <2>3. ~ (n < 0)
    OBVIOUS
  <2> QED BY <2>1, <2>2, <2>3, Zenon
<1>b. b \in Nat \ {0} /\ b \in Int /\ a \in Int
  BY <1>1
<1>n. n \in Int
  OBVIOUS
<1>2. PICK u \in Int, z \in Nat : n = u * b + z /\ z < b
  BY <1>b, <1>n, Division
<1>3. PICK x \in Int, y \in Nat : u = x * b + y /\ y < b
  BY <1>b, Division
<1>4. PICK h \in Int : h = a * b
  OBVIOUS
<1>5. u < h
  <2> SUFFICES ASSUME h <= u PROVE FALSE
    BY SMT
  <2>1. h * b <= u * b
    BY ProductMonotone
  <2>2. PICK p \in Int, q \in Int : p = h * b /\ q = u * b
    OBVIOUS
  <2>3. n < p
    BY <1>4, <2>2, Zenon
  <2>4. n = q + z
    BY <1>2, <2>2, Zenon
  <2>5. p <= q
    BY <2>1, <2>2, Zenon
  <2> QED BY <2>3, <2>4, <2>5, SMT
<1>6. 0 <= u
  <2> SUFFICES ASSUME u + 1 <= 0 PROVE FALSE
    BY SMT
  <2>1. (u + 1) * b <= 0 * b
    BY ProductMonotone, SMT
  <2>2. (u + 1) * b = u * b + 1 * b
    BY <1>b, Distribute
  <2>3. PICK q \in Int : q = u * b
    OBVIOUS
  <2>4. n = q + z
    BY <1>2, <2>3, Zenon
  <2>5. q + b <= 0
    BY <2>1, <2>2, <2>3
  <2> QED BY <1>2, <2>4, <2>5, SMT
<1>7. x < a
  <2> SUFFICES ASSUME a <= x PROVE FALSE
    BY SMT
  <2>1. a * b <= x * b
    BY ProductMonotone, SMT
  <2>2. PICK q \in Int : q = x * b
    OBVIOUS
  <2>3. u = q + y /\ h <= q
    BY <1>3, <1>4, <2>1, <2>2, Zenon
  <2> QED BY <1>5, <2>3, SMT
<1>8. x \in Nat
  <2> SUFFICES ASSUME x + 1 <= 0 PROVE FALSE
    BY SMT
  <2>1. (x + 1) * b <= 0 * b
    BY ProductMonotone, SMT
  <2>2. (x + 1) * b = x * b + 1 * b
    BY <1>b, Distribute
  <2>3. PICK q \in Int : q = x * b
    OBVIOUS
  <2>4. u = q + y
    BY <1>3, <2>3, Zenon
  <2>5. q + b <= 0
    BY <2>1, <2>2, <2>3
  <2> QED BY <1>3, <1>6, <2>4, <2>5, SMT
<1>9. Place(a, b, n, x, y, z)
  <2>1. n = (x * b + y) * b + z
    BY <1>2, <1>3, Zenon
  <2> QED BY <1>2, <1>3, <1>7, <1>8, <2>1, Zenon DEF Place
<1> QED BY <1>8, <1>9, Zenon

-----------------------------------------------------------------------------
(* Tasks, and what one leaves for the next.                                *)

\* A task of a product of sa by sb and sb by sb elements.
IsTask(sa, sb, t) ==
  /\ t.rowBlk \in Nat /\ t.rowBlk < sa
  /\ t.colBlk \in Nat /\ t.colBlk < sb
  /\ t.kBlk \in Nat /\ t.kBlk < sb
  /\ t.tileRows = MinOf(SASIZE, sa - t.rowBlk)
  /\ t.tileCols = MinOf(SASIZE, sb - t.colBlk)
  /\ t.kCols = MinOf(SASIZE, sb - t.kBlk)

FirstTask(t) == t.rowBlk = 0 /\ t.colBlk = 0 /\ t.kBlk = 0

\* Task u is the one behind t in the loops over r, c and k.
Follows(sb, t, u) ==
  \/ /\ t.kBlk + SASIZE < sb
     /\ u.rowBlk = t.rowBlk /\ u.colBlk = t.colBlk /\ u.kBlk = t.kBlk + SASIZE
  \/ /\ sb <= t.kBlk + SASIZE /\ t.colBlk + SASIZE < sb
     /\ u.rowBlk = t.rowBlk /\ u.colBlk = t.colBlk + SASIZE /\ u.kBlk = 0
  \/ /\ sb <= t.kBlk + SASIZE /\ sb <= t.colBlk + SASIZE
     /\ u.rowBlk = t.rowBlk + SASIZE /\ u.colBlk = 0 /\ u.kBlk = 0

LastTask(sa, sb, t) ==
  sb <= t.kBlk + SASIZE /\ sb <= t.colBlk + SASIZE /\ sa <= t.rowBlk + SASIZE

\* All the tasks that are left to do in s.
Chain(sa, sb, s) ==
  /\ IsSeq(s)
  /\ \A m \in 1 .. Len(s) : IsTask(sa, sb, s[m])
  /\ \A m \in 1 .. Len(s) - 1 : Follows(sb, s[m], s[m + 1])
  /\ s # <<>> => LastTask(sa, sb, s[Len(s)])

\* The task at a place.
TaskOf(sa, sb, x, y, z) ==
  [rowBlk |-> x * SASIZE, colBlk |-> y * SASIZE, kBlk |-> z * SASIZE,
   tileRows |-> MinOf(SASIZE, sa - x * SASIZE),
   tileCols |-> MinOf(SASIZE, sb - y * SASIZE),
   kCols    |-> MinOf(SASIZE, sb - z * SASIZE)]

LEMMA TaskOfIs ==
  ASSUME NEW sa, NEW sb, NEW x, NEW y, NEW z, NEW t, t = TaskOf(sa, sb, x, y, z)
  PROVE  /\ t.rowBlk = x * SASIZE /\ t.colBlk = y * SASIZE /\ t.kBlk = z * SASIZE
         /\ t.tileRows = MinOf(SASIZE, sa - x * SASIZE)
         /\ t.tileCols = MinOf(SASIZE, sb - y * SASIZE)
         /\ t.kCols = MinOf(SASIZE, sb - z * SASIZE)
BY DEF TaskOf

LEMMA PlaceIsTask ==
  ASSUME NEW sa \in Nat, NEW sb \in Nat, NEW n, NEW x, NEW y, NEW z,
         Place(Blocks(sa), Blocks(sb), n, x, y, z)
  PROVE  IsTask(sa, sb, TaskOf(sa, sb, x, y, z))
<1>t. PICK t : t = TaskOf(sa, sb, x, y, z)
  OBVIOUS
<1>0. SASIZE \in Nat
  BY SystolicAssumption
<1>1. x \in Nat /\ x < Blocks(sa) /\ y \in Nat /\ y < Blocks(sb) /\ z \in Nat /\ z < Blocks(sb)
  BY DEF Place
<1>2. x * SASIZE < sa /\ y * SASIZE < sb /\ z * SASIZE < sb
  BY <1>1, BlocksIs, Zenon
<1>3. x * SASIZE \in Nat /\ y * SASIZE \in Nat /\ z * SASIZE \in Nat
  BY <1>0, <1>1
<1>4. /\ t.rowBlk = x * SASIZE /\ t.colBlk = y * SASIZE /\ t.kBlk = z * SASIZE
      /\ t.tileRows = MinOf(SASIZE, sa - x * SASIZE)
      /\ t.tileCols = MinOf(SASIZE, sb - y * SASIZE)
      /\ t.kCols = MinOf(SASIZE, sb - z * SASIZE)
  BY <1>t, TaskOfIs
<1>5. IsTask(sa, sb, t)
  BY <1>2, <1>3, <1>4, Zenon DEF IsTask
<1> QED BY <1>t, <1>5, Zenon

\* The end of a block, and of the blocks.
LEMMA BlockEnd ==
  ASSUME NEW n \in Nat, NEW w \in Nat, w < Blocks(n)
  PROVE  /\ w + 1 < Blocks(n) => w * SASIZE + SASIZE < n
         /\ w + 1 = Blocks(n) => n <= w * SASIZE + SASIZE
         /\ (w + 1) * SASIZE = w * SASIZE + SASIZE
         /\ w + 1 < Blocks(n) \/ w + 1 = Blocks(n)
<1>0. SASIZE \in Nat /\ w + 1 \in Nat
  BY SystolicAssumption
<1>1. Blocks(n) \in Nat
  BY BlocksIs
<1>2. (w + 1) * SASIZE = w * SASIZE + SASIZE
  <2>1. (w + 1) * SASIZE = w * SASIZE + 1 * SASIZE
    BY <1>0, Distribute
  <2> QED BY <1>0, <2>1
<1>3. (w + 1) * SASIZE < n <=> w + 1 < Blocks(n)
  BY <1>0, BlocksIs, Zenon
<1>4. PICK e \in Nat : e = w * SASIZE
  BY <1>0
<1>5. w + 1 = Blocks(n) => ~ (w + 1 < Blocks(n))
  BY <1>1
<1>6. w + 1 = Blocks(n) => n <= e + SASIZE
  BY <1>0, <1>2, <1>3, <1>4, <1>5
<1>7. w + 1 < Blocks(n) \/ w + 1 = Blocks(n)
  BY <1>1
<1> QED BY <1>2, <1>3, <1>4, <1>6, <1>7, Zenon

LEMMA PlaceFollows ==
  ASSUME NEW sa \in Nat, NEW sb \in Nat, NEW n, NEW x, NEW y, NEW z,
         Place(Blocks(sa), Blocks(sb), n, x, y, z), NEW t, t = TaskOf(sa, sb, x, y, z)
  PROVE  \/ /\ n + 1 = Count(Blocks(sa), Blocks(sb))
            /\ LastTask(sa, sb, t)
         \/ \E i, j, k, u : /\ Place(Blocks(sa), Blocks(sb), n + 1, i, j, k)
                            /\ u = TaskOf(sa, sb, i, j, k) /\ Follows(sb, t, u)
<1>0. SASIZE \in Nat /\ 0 * SASIZE = 0
  BY SystolicAssumption
<1>1. PICK a \in Nat, b \in Nat : a = Blocks(sa) /\ b = Blocks(sb)
  BY BlocksIs
<1>2. x \in Nat /\ x < a /\ y \in Nat /\ y < b /\ z \in Nat /\ z < b
  BY <1>1 DEF Place
<1>p. Place(a, b, n, x, y, z)
  BY <1>1, Zenon
<1>3. t.rowBlk = x * SASIZE /\ t.colBlk = y * SASIZE /\ t.kBlk = z * SASIZE
  BY TaskOfIs
<1>x. /\ x + 1 < a \/ x + 1 = a
      /\ x + 1 = a => sa <= x * SASIZE + SASIZE
      /\ (x + 1) * SASIZE = x * SASIZE + SASIZE
  BY <1>1, <1>2, BlockEnd, Zenon
<1>y. /\ y + 1 < b \/ y + 1 = b
      /\ y + 1 < b => y * SASIZE + SASIZE < sb
      /\ y + 1 = b => sb <= y * SASIZE + SASIZE
      /\ (y + 1) * SASIZE = y * SASIZE + SASIZE
  BY <1>1, <1>2, BlockEnd, Zenon
<1>z. /\ z + 1 < b \/ z + 1 = b
      /\ z + 1 < b => z * SASIZE + SASIZE < sb
      /\ z + 1 = b => sb <= z * SASIZE + SASIZE
      /\ (z + 1) * SASIZE = z * SASIZE + SASIZE
  BY <1>1, <1>2, BlockEnd, Zenon
<1>4. CASE z + 1 < b
  <2>1. Place(a, b, n + 1, x, y, z + 1)
    BY <1>p, <1>4, NextPlace
  <2>2. PICK u : u = TaskOf(sa, sb, x, y, z + 1)
    OBVIOUS
  <2>3. u.rowBlk = x * SASIZE /\ u.colBlk = y * SASIZE /\ u.kBlk = (z + 1) * SASIZE
    BY <2>2, TaskOfIs
  <2>4. Follows(sb, t, u)
    BY <1>3, <1>z, <1>4, <2>3, Zenon DEF Follows
  <2> QED BY <1>1, <2>1, <2>2, <2>4, Zenon
<1>5. CASE z + 1 = b /\ y + 1 < b
  <2>1. Place(a, b, n + 1, x, y + 1, 0)
    BY <1>p, <1>5, NextPlace
  <2>2. PICK u : u = TaskOf(sa, sb, x, y + 1, 0)
    OBVIOUS
  <2>3. u.rowBlk = x * SASIZE /\ u.colBlk = (y + 1) * SASIZE /\ u.kBlk = 0
    BY <1>0, <2>2, TaskOfIs
  <2>4. Follows(sb, t, u)
    BY <1>3, <1>y, <1>z, <1>5, <2>3, Zenon DEF Follows
  <2> QED BY <1>1, <2>1, <2>2, <2>4, Zenon
<1>6. CASE z + 1 = b /\ y + 1 = b /\ x + 1 < a
  <2>1. Place(a, b, n + 1, x + 1, 0, 0)
    BY <1>p, <1>6, NextPlace
  <2>2. PICK u : u = TaskOf(sa, sb, x + 1, 0, 0)
    OBVIOUS
  <2>3. u.rowBlk = (x + 1) * SASIZE /\ u.colBlk = 0 /\ u.kBlk = 0
    BY <1>0, <2>2, TaskOfIs
  <2>4. Follows(sb, t, u)
    BY <1>3, <1>x, <1>y, <1>z, <1>6, <2>3, Zenon DEF Follows
  <2> QED BY <1>1, <2>1, <2>2, <2>4, Zenon
<1>7. CASE z + 1 = b /\ y + 1 = b /\ x + 1 = a
  <2>1. n + 1 = Count(a, b)
    BY <1>p, <1>7, NextPlace
  <2>2. LastTask(sa, sb, t)
    BY <1>3, <1>x, <1>y, <1>z, <1>7, Zenon DEF LastTask
  <2> QED BY <1>1, <2>1, <2>2, Zenon
<1> QED BY <1>x, <1>y, <1>z, <1>4, <1>5, <1>6, <1>7, Zenon

LEMMA TasksAre ==
  ASSUME strideA_ \in Nat, strideB_ \in Nat
  PROVE  /\ IsSeq(TileTasks)
         /\ Len(TileTasks) = (Blocks(strideA_) * Blocks(strideB_)) * Blocks(strideB_)
         /\ \A n, x, y, z : Place(Blocks(strideA_), Blocks(strideB_), n, x, y, z)
              => TileTasks[n + 1] = TaskOf(strideA_, strideB_, x, y, z)
<1> DEFINE a == Blocks(strideA_)
           b == Blocks(strideB_)
           N == (a * b) * b
           T(n) == TaskOf(strideA_, strideB_, n \div (b * b), (n \div b) % b, n % b)
<1>1. TileTasks = [n \in 1 .. N |-> T(n - 1)]
  BY Zenon DEF TileTasks, TaskOf
<1>2. a \in Nat /\ b \in Nat
  BY BlocksIs
<1> HIDE DEF a, b
<1>3. N \in Nat
  BY <1>2
<1> HIDE DEF N, T
<1> DEFINE W == {T(n - 1) : n \in 1 .. N}
<1>w. \A n \in 1 .. N : T(n - 1) \in W
  OBVIOUS
<1> HIDE DEF W
<1>4. TileTasks \in Seq(W) /\ Len(TileTasks) = N
  <2>1. [n \in 1 .. N |-> T(n - 1)] \in Seq(W) /\ Len([n \in 1 .. N |-> T(n - 1)]) = N
    BY <1>3, <1>w
  <2> QED BY <1>1, <2>1, Zenon
<1>5. IsSeq(TileTasks)
  BY <1>4, SeqIsSeq
<1>6. ASSUME NEW n, NEW x, NEW y, NEW z, Place(a, b, n, x, y, z)
      PROVE  TileTasks[n + 1] = TaskOf(strideA_, strideB_, x, y, z)
  <2>1. /\ n \in Nat /\ n < N
        /\ n \div (b * b) = x /\ (n \div b) % b = y /\ n % b = z
    BY <1>2, <1>6, PlaceDigits DEF N
  <2>2. n + 1 \in 1 .. N /\ (n + 1) - 1 = n
    BY <1>3, <2>1
  <2>3. TileTasks[n + 1] = T(n)
    BY <1>1, <2>2, Zenon
  <2> QED BY <2>1, <2>3, Zenon DEF T
<1> QED BY <1>4, <1>5, <1>6 DEF a, b, N

\* ComputeMatrix makes all the tasks, in the order of its loops.
LEMMA TasksChain ==
  ASSUME strideA_ \in Nat, strideB_ \in Nat
  PROVE  /\ Chain(strideA_, strideB_, TileTasks)
         /\ TileTasks # <<>> => FirstTask(TileTasks[1])
         /\ TileTasks = <<>> => strideA_ = 0 \/ strideB_ = 0
<1>1. PICK a \in Nat, b \in Nat : a = Blocks(strideA_) /\ b = Blocks(strideB_)
  BY BlocksIs
<1>2. PICK N \in Nat : N = (a * b) * b
  OBVIOUS
<1>3. /\ IsSeq(TileTasks) /\ Len(TileTasks) = N
      /\ \A n, x, y, z : Place(a, b, n, x, y, z)
              => TileTasks[n + 1] = TaskOf(strideA_, strideB_, x, y, z)
  BY <1>1, <1>2, TasksAre, Zenon
<1>4. ASSUME NEW m \in 1 .. N
      PROVE  /\ IsTask(strideA_, strideB_, TileTasks[m])
             /\ m = N => LastTask(strideA_, strideB_, TileTasks[m])
             /\ m # N => Follows(strideB_, TileTasks[m], TileTasks[m + 1])
  <2>1. PICK n \in Nat : n + 1 = m /\ n < N
    <3>1. m - 1 \in Nat /\ (m - 1) + 1 = m /\ m - 1 < N
      OBVIOUS
    <3> QED BY <3>1, Zenon
  <2>2. PICK x, y, z \in Nat : Place(a, b, n, x, y, z)
    BY <1>2, <2>1, PlaceExists
  <2>3. TileTasks[m] = TaskOf(strideA_, strideB_, x, y, z)
    BY <1>3, <2>1, <2>2, Zenon
  <2>4. IsTask(strideA_, strideB_, TileTasks[m])
    BY <1>1, <2>2, <2>3, PlaceIsTask, Zenon
  <2>5. PICK t : t = TileTasks[m]
    OBVIOUS
  <2>6. \/ m = N /\ LastTask(strideA_, strideB_, t)
        \/ \E i, j, k, u : /\ Place(a, b, m, i, j, k)
                           /\ u = TaskOf(strideA_, strideB_, i, j, k) /\ Follows(strideB_, t, u)
    <3>1. Place(Blocks(strideA_), Blocks(strideB_), n, x, y, z)
      BY <1>1, <2>2, Zenon
    <3>2. t = TaskOf(strideA_, strideB_, x, y, z)
      BY <2>3, <2>5, Zenon
    <3>3. \/ /\ n + 1 = Count(Blocks(strideA_), Blocks(strideB_))
             /\ LastTask(strideA_, strideB_, t)
          \/ \E i, j, k, u : /\ Place(Blocks(strideA_), Blocks(strideB_), n + 1, i, j, k)
                             /\ u = TaskOf(strideA_, strideB_, i, j, k) /\ Follows(strideB_, t, u)
      BY <3>1, <3>2, PlaceFollows
    <3> QED BY <1>1, <1>2, <2>1, <3>3, Zenon DEF Count
  <2>7. ASSUME NEW i, NEW j, NEW k, NEW u, Place(a, b, m, i, j, k),
               u = TaskOf(strideA_, strideB_, i, j, k), Follows(strideB_, t, u)
        PROVE  m # N /\ Follows(strideB_, TileTasks[m], TileTasks[m + 1])
    <3>1. TileTasks[m + 1] = u
      BY <1>3, <2>7, Zenon
    <3>2. m < (a * b) * b
      BY <2>7, PlaceDigits
    <3>3. m < N
      BY <1>2, <3>2, Zenon
    <3>4. m # N
      BY <3>3
    <3> QED BY <2>5, <2>7, <3>1, <3>4, Zenon
  <2>8. CASE m = N /\ LastTask(strideA_, strideB_, t)
    BY <2>4, <2>5, <2>8, Zenon
  <2>9. CASE \E i, j, k, u : /\ Place(a, b, m, i, j, k)
                             /\ u = TaskOf(strideA_, strideB_, i, j, k) /\ Follows(strideB_, t, u)
    BY <2>4, <2>7, <2>9, Zenon
  <2> QED BY <2>6, <2>8, <2>9, Zenon
<1>5. Chain(strideA_, strideB_, TileTasks)
  <2>1. \A m \in 1 .. N - 1 : m \in 1 .. N /\ m # N
    OBVIOUS
  <2>2. TileTasks # <<>> => N \in 1 .. N
    <3>1. TileTasks = <<>> <=> N = 0
      BY <1>3, LenIsNat
    <3> QED BY <3>1
  <2> QED BY <1>3, <1>4, <2>1, <2>2, Zenon DEF Chain
<1>6. ASSUME strideA_ # 0, strideB_ # 0
      PROVE  TileTasks # <<>>
  <2>0. SASIZE \in Nat /\ 0 * SASIZE < strideA_ /\ 0 * SASIZE < strideB_ /\ 0 \in Nat
    BY <1>6, SystolicAssumption
  <2>1. 0 < Blocks(strideA_) /\ 0 < Blocks(strideB_)
    BY <2>0, BlocksIs, Zenon
  <2>2. (0 * b + 0) * b + 0 = 0
    OBVIOUS
  <2>3. Place(a, b, 0, 0, 0, 0)
    BY <1>1, <2>0, <2>1, <2>2, Zenon DEF Place
  <2>4. 0 < (a * b) * b
    BY <2>3, PlaceDigits
  <2>5. N # 0
    BY <1>2, <2>4
  <2> QED BY <1>3, <2>5, LenIsNat
<1>7. ASSUME TileTasks # <<>>
      PROVE  FirstTask(TileTasks[1])
  <2>1. N # 0
    BY <1>3, <1>7, LenIsNat
  <2>2. Place(a, b, 0, 0, 0, 0)
    BY <1>2, <2>1, FirstPlace
  <2>3. 0 + 1 = 1 /\ SASIZE \in Nat /\ 0 * SASIZE = 0
    BY SystolicAssumption
  <2>4. PICK t : t = TaskOf(strideA_, strideB_, 0, 0, 0)
    OBVIOUS
  <2>5. TileTasks[1] = t
    <3>1. TileTasks[0 + 1] = TaskOf(strideA_, strideB_, 0, 0, 0)
      BY <1>3, <2>2, Zenon
    <3> QED BY <2>3, <2>4, <3>1, Zenon
  <2>6. t.rowBlk = 0 * SASIZE /\ t.colBlk = 0 * SASIZE /\ t.kBlk = 0 * SASIZE
    BY <2>4, TaskOfIs
  <2> QED BY <2>3, <2>5, <2>6, Zenon DEF FirstTask
<1> QED BY <1>5, <1>6, <1>7, Zenon

-----------------------------------------------------------------------------
(* The elements of C.                                                      *)

\* The products that make up element (r, c), and the sum of the first k.
Factors(A, B, sb, r, c) == [k \in 0 .. sb - 1 |-> A[r][k] * B[k][c]]
Partial(A, B, sb, r, c, k) == SumTo(MinOf(k, sb), Factors(A, B, sb, r, c)) % Modulus

\* Element (r, c) when block (rb, cb) has been summed up to slice kb, the
\* blocks before it are complete and the ones behind it untouched.
Cell(A, B, sb, r, c, rb, cb, kb) ==
  IF r < rb \/ (r < rb + SASIZE /\ c < cb) THEN Partial(A, B, sb, r, c, sb)
  ELSE IF r < rb + SASIZE /\ c < cb + SASIZE THEN Partial(A, B, sb, r, c, kb) ELSE 0

Filled(A, B, C, sa, sb, rb, cb, kb) ==
  \A r \in 0 .. sa - 1, c \in 0 .. sb - 1 : C[r][c] = Cell(A, B, sb, r, c, rb, cb, kb)

Complete(A, B, C, sa, sb) ==
  \A r \in 0 .. sa - 1, c \in 0 .. sb - 1 : C[r][c] = Partial(A, B, sb, r, c, sb)

LEMMA PartialZero ==
  ASSUME NEW A, NEW B, NEW sb \in Nat, NEW r, NEW c
  PROVE  Partial(A, B, sb, r, c, 0) = 0
<1>0. Modulus \in Nat \ {0}
  BY SystolicAssumption
<1>1. MinOf(0, sb) = 0 /\ 0 % Modulus = 0
  BY <1>0 DEF MinOf
<1>2. SumTo(0, Factors(A, B, sb, r, c)) = 0
  BY SumZero
<1> QED BY <1>1, <1>2, Zenon DEF Partial

LEMMA PartialFull ==
  ASSUME NEW A, NEW B, NEW sb \in Nat, NEW r, NEW c, NEW k \in Nat, sb <= k
  PROVE  Partial(A, B, sb, r, c, k) = Partial(A, B, sb, r, c, sb)
<1>1. MinOf(k, sb) = sb /\ MinOf(sb, sb) = sb
  BY DEF MinOf
<1> QED BY <1>1, Zenon DEF Partial

LEMMA FilledFirst ==
  ASSUME NEW A, NEW B, NEW C, NEW sa \in Nat, NEW sb \in Nat, NEW t, FirstTask(t),
         \A r \in 0 .. sa - 1, c \in 0 .. sb - 1 : C[r][c] = 0
  PROVE  Filled(A, B, C, sa, sb, t.rowBlk, t.colBlk, t.kBlk)
<1>0. SASIZE \in Nat
  BY SystolicAssumption
<1>1. ASSUME NEW r \in 0 .. sa - 1, NEW c \in 0 .. sb - 1
      PROVE  Cell(A, B, sb, r, c, 0, 0, 0) = 0
  <2>1. ~ (r < 0) /\ ~ (c < 0)
    OBVIOUS
  <2>2. Partial(A, B, sb, r, c, 0) = 0
    BY PartialZero
  <2> QED BY <2>1, <2>2, Zenon DEF Cell
<1> QED BY <1>1, Zenon DEF Filled, FirstTask

LEMMA FilledNext ==
  ASSUME NEW A, NEW B, NEW C, NEW sa \in Nat, NEW sb \in Nat, NEW t, NEW u,
         IsTask(sa, sb, t), Follows(sb, t, u),
         Filled(A, B, C, sa, sb, t.rowBlk, t.colBlk, t.kBlk + SASIZE)
  PROVE  Filled(A, B, C, sa, sb, u.rowBlk, u.colBlk, u.kBlk)
<1>0. SASIZE \in Nat \ {0}
  BY SystolicAssumption
<1>1. PICK rb \in Nat, cb \in Nat, kb \in Nat : rb = t.rowBlk /\ cb = t.colBlk /\ kb = t.kBlk
  BY DEF IsTask
<1>2. PICK rn, cn, kn : rn = u.rowBlk /\ cn = u.colBlk /\ kn = u.kBlk
  OBVIOUS
<1>3. \/ kb + SASIZE < sb /\ rn = rb /\ cn = cb /\ kn = kb + SASIZE
      \/ sb <= kb + SASIZE /\ cb + SASIZE < sb /\ rn = rb /\ cn = cb + SASIZE /\ kn = 0
      \/ sb <= kb + SASIZE /\ sb <= cb + SASIZE /\ rn = rb + SASIZE /\ cn = 0 /\ kn = 0
  BY <1>1, <1>2, Zenon DEF Follows
<1>4. ASSUME NEW r \in 0 .. sa - 1, NEW c \in 0 .. sb - 1
      PROVE  Cell(A, B, sb, r, c, rb, cb, kb + SASIZE) = Cell(A, B, sb, r, c, rn, cn, kn)
  <2>1. CASE kb + SASIZE < sb /\ rn = rb /\ cn = cb /\ kn = kb + SASIZE
    BY <2>1, Zenon
  <2> DEFINE full == Partial(A, B, sb, r, c, sb)
             zero == Partial(A, B, sb, r, c, 0)
             part == Partial(A, B, sb, r, c, kb + SASIZE)
  <2>z. zero = 0
    BY PartialZero
  <2>p. sb <= kb + SASIZE => part = full
    <3>1. kb + SASIZE \in Nat
      BY <1>0
    <3> QED BY <3>1, PartialFull
  <2>c. /\ Cell(A, B, sb, r, c, rb, cb, kb + SASIZE)
             = IF r < rb \/ (r < rb + SASIZE /\ c < cb) THEN full
               ELSE IF r < rb + SASIZE /\ c < cb + SASIZE THEN part ELSE 0
        /\ Cell(A, B, sb, r, c, rn, cn, 0)
             = IF r < rn \/ (r < rn + SASIZE /\ c < cn) THEN full
               ELSE IF r < rn + SASIZE /\ c < cn + SASIZE THEN zero ELSE 0
    BY Zenon DEF Cell
  <2> HIDE DEF full, zero, part
  <2>2. CASE sb <= kb + SASIZE /\ cb + SASIZE < sb /\ rn = rb /\ cn = cb + SASIZE /\ kn = 0
    <3>1. (c < cb => c < cb + SASIZE) /\ (r < rb => r < rb + SASIZE)
      BY <1>0
    <3>2. Cell(A, B, sb, r, c, rn, cn, 0)
            = IF r < rb \/ (r < rb + SASIZE /\ c < cb + SASIZE) THEN full ELSE 0
      BY <2>2, <2>c, <2>z, Zenon
    <3>3. Cell(A, B, sb, r, c, rb, cb, kb + SASIZE)
            = IF r < rb \/ (r < rb + SASIZE /\ c < cb + SASIZE) THEN full ELSE 0
      BY <2>2, <2>c, <2>p, <3>1, Zenon
    <3> QED BY <2>2, <3>2, <3>3, Zenon
  <2>3. CASE sb <= kb + SASIZE /\ sb <= cb + SASIZE /\ rn = rb + SASIZE /\ cn = 0 /\ kn = 0
    <3>1. c < cb + SASIZE /\ ~ (c < 0) /\ (r < rb => r < rb + SASIZE)
      BY <1>0, <2>3
    <3>2. Cell(A, B, sb, r, c, rn, cn, 0) = IF r < rb + SASIZE THEN full ELSE 0
      BY <2>3, <2>c, <2>z, <3>1, Zenon
    <3>3. Cell(A, B, sb, r, c, rb, cb, kb + SASIZE) = IF r < rb + SASIZE THEN full ELSE 0
      BY <2>3, <2>c, <2>p, <3>1, Zenon
    <3> QED BY <2>3, <3>2, <3>3, Zenon
  <2> QED BY <1>3, <2>1, <2>2, <2>3, Zenon
<1>5. Filled(A, B, C, sa, sb, rb, cb, kb + SASIZE)
  BY <1>1, Zenon
<1>6. Filled(A, B, C, sa, sb, rn, cn, kn)
  BY <1>4, <1>5, Zenon DEF Filled
<1> QED BY <1>2, <1>6, Zenon

LEMMA FilledLast ==
  ASSUME NEW A, NEW B, NEW C, NEW sa \in Nat, NEW sb \in Nat, NEW t,
         IsTask(sa, sb, t), LastTask(sa, sb, t),
         Filled(A, B, C, sa, sb, t.rowBlk, t.colBlk, t.kBlk + SASIZE)
  PROVE  Complete(A, B, C, sa, sb)
<1>0. SASIZE \in Nat \ {0}
  BY SystolicAssumption
<1>1. PICK rb \in Nat, cb \in Nat, kb \in Nat : rb = t.rowBlk /\ cb = t.colBlk /\ kb = t.kBlk
  BY DEF IsTask
<1>2. sb <= kb + SASIZE /\ sb <= cb + SASIZE /\ sa <= rb + SASIZE
  BY <1>1, Zenon DEF LastTask
<1>3. ASSUME NEW r \in 0 .. sa - 1, NEW c \in 0 .. sb - 1
      PROVE  Cell(A, B, sb, r, c, rb, cb, kb + SASIZE) = Partial(A, B, sb, r, c, sb)
  <2>1. r < rb + SASIZE /\ c < cb + SASIZE /\ kb + SASIZE \in Nat
    BY <1>0, <1>2
  <2>2. Partial(A, B, sb, r, c, kb + SASIZE) = Partial(A, B, sb, r, c, sb)
    BY <1>2, <2>1, PartialFull
  <2> QED BY <2>1, <2>2, Zenon DEF Cell
<1>4. Filled(A, B, C, sa, sb, rb, cb, kb + SASIZE)
  BY <1>1, Zenon
<1> QED BY <1>3, <1>4, Zenon DEF Filled, Complete

LEMMA MatrixElement ==
  ASSUME NEW M \in Matrix, NEW r \in 0 .. MatrixDim - 1, NEW c \in 0 .. MatrixDim - 1
  PROVE  M[r][c] \in Int
<1> DEFINE I == 0 .. MatrixDim - 1
           V == 0 .. 255
<1>1. M \in [I -> [I -> V]] /\ r \in I /\ c \in I
  BY DEF Matrix
<1>2. \A v \in V : v \in Int
  OBVIOUS
<1> HIDE DEF I, V
<1>3. M[r][c] \in V
  BY <1>1, Zenon
<1> QED BY <1>2, <1>3, Zenon

\* The products that make up an element of a task's tile.
TileTerms(A, B, t, i, j) == [k \in Idx |-> LoadATile(A, t)[i][k] * LoadBTile(B, t)[k][j]]

\* The tile of a task is the task's part of the product.
LEMMA TileSum ==
  ASSUME NEW A \in Matrix, NEW B \in Matrix,
         NEW sa \in 0 .. MatrixDim, NEW sb \in 0 .. MatrixDim, NEW t, IsTask(sa, sb, t),
         NEW r \in 0 .. sa - 1, NEW c \in 0 .. sb - 1, NEW i \in Idx, NEW j \in Idx,
         r = t.rowBlk + i, c = t.colBlk + j
  PROVE  (Partial(A, B, sb, r, c, t.kBlk) + (SumTo(SASIZE, TileTerms(A, B, t, i, j)) % Modulus)) % Modulus
           = Partial(A, B, sb, r, c, t.kBlk + SASIZE)
<1>g. PICK G : G = TileTerms(A, B, t, i, j)
  OBVIOUS
<1>0. SASIZE \in Nat \ {0} /\ Modulus \in Nat \ {0} /\ MatrixDim \in Nat
  BY SystolicAssumption
<1>1. PICK rb \in Nat, cb \in Nat, kb \in Nat :
        /\ rb = t.rowBlk /\ cb = t.colBlk /\ kb = t.kBlk
        /\ rb < sa /\ cb < sb /\ kb < sb
  BY DEF IsTask
<1>2. PICK nr \in Nat, nc \in Nat, nk \in Nat :
        /\ nr = t.tileRows /\ nc = t.tileCols /\ nk = t.kCols
        /\ nr = MinOf(SASIZE, sa - rb) /\ nc = MinOf(SASIZE, sb - cb) /\ nk = MinOf(SASIZE, sb - kb)
  <2>1. /\ MinOf(SASIZE, sa - rb) \in Nat /\ MinOf(SASIZE, sb - cb) \in Nat
        /\ MinOf(SASIZE, sb - kb) \in Nat
    BY <1>0, <1>1 DEF MinOf
  <2> QED BY <1>1, <2>1, Zenon DEF IsTask
<1>i. i \in Nat /\ i < SASIZE /\ j \in Nat /\ j < SASIZE
  BY <1>0 DEF Idx
<1>s. sa \in Nat /\ sb \in Nat /\ sa <= MatrixDim /\ sb <= MatrixDim /\ r < sa /\ c < sb
  BY <1>0
<1>b. rb < sa /\ cb < sb /\ kb < sb /\ r = rb + i /\ c = cb + j
  BY <1>1, Zenon
<1>m. nr = MinOf(SASIZE, sa - rb) /\ nc = MinOf(SASIZE, sb - cb) /\ nk = MinOf(SASIZE, sb - kb)
  BY <1>2, Zenon
<1>3. i < nr /\ j < nc /\ r = rb + i /\ c = cb + j
  BY <1>0, <1>i, <1>s, <1>b, <1>m DEF MinOf
<1>4. /\ nk <= SASIZE /\ kb + nk <= sb /\ MinOf(kb, sb) = kb /\ MinOf(kb + SASIZE, sb) = kb + nk
  BY <1>0, <1>s, <1>b, <1>m DEF MinOf
<1>k. nk <= SASIZE /\ kb + nk <= sb
  BY <1>4, Zenon
<1> DEFINE F == Factors(A, B, sb, r, c)
<1>5. ASSUME NEW k \in 0 .. sb - 1
      PROVE  /\ F[k] = A[r][k] * B[k][c] /\ F[k] \in Int
             /\ A[r][k] \in Int /\ B[k][c] \in Int
  <2>1. k \in 0 .. MatrixDim - 1 /\ r \in 0 .. MatrixDim - 1 /\ c \in 0 .. MatrixDim - 1
    BY <1>0, <1>s
  <2>2. PICK p \in Int, q \in Int : p = A[r][k] /\ q = B[k][c]
    <3>1. A[r][k] \in Int /\ B[k][c] \in Int
      BY <2>1, MatrixElement
    <3> QED BY <3>1, Zenon
  <2>3. F[k] = A[r][k] * B[k][c]
    BY Zenon DEF Factors
  <2>4. p * q \in Int
    OBVIOUS
  <2> QED BY <2>2, <2>3, <2>4, Zenon
<1>6. ASSUME NEW k \in Idx
      PROVE  /\ k < nk => G[k] = F[kb + k]
             /\ ~ (k < nk) => G[k] = 0
  <2>1. LoadATile(A, t)[i][k] = IF i < nr /\ k < nk THEN A[rb + i][kb + k] ELSE 0
    BY <1>1, <1>2, Zenon DEF LoadATile, Grid
  <2>2. LoadBTile(B, t)[k][j] = IF k < nk /\ j < nc THEN B[kb + k][cb + j] ELSE 0
    BY <1>1, <1>2, Zenon DEF LoadBTile, Grid
  <2>3. G[k] = LoadATile(A, t)[i][k] * LoadBTile(B, t)[k][j]
    BY <1>g, Zenon DEF TileTerms
  <2>4. ASSUME k < nk PROVE G[k] = F[kb + k]
    <3>1. kb + k \in 0 .. sb - 1
      BY <1>0, <1>s, <1>k, <2>4 DEF Idx
    <3> QED BY <1>3, <1>5, <2>1, <2>2, <2>3, <2>4, <3>1, Zenon
  <2>5. ASSUME ~ (k < nk) PROVE G[k] = 0
    <3>1. 0 * 0 = 0
      OBVIOUS
    <3> QED BY <2>1, <2>2, <2>3, <2>5, <3>1, Zenon
  <2> QED BY <2>4, <2>5
<1> HIDE DEF F
<1>7. SumTo(kb + nk, F) = SumTo(kb, F) + SumTo(SASIZE, G)
  <2>1. \A k \in 0 .. kb + nk - 1 : F[k] \in Int
    <3>1. \A k \in 0 .. kb + nk - 1 : k \in 0 .. sb - 1
      BY <1>0, <1>s, <1>k
    <3> QED BY <1>5, <3>1, Zenon
  <2>2. \A k \in 0 .. nk - 1 : G[k] = F[kb + k]
    <3>1. \A k \in 0 .. nk - 1 : k \in Idx /\ k < nk
      BY <1>0, <1>k DEF Idx
    <3> QED BY <1>6, <3>1, Zenon
  <2>3. \A k \in nk .. SASIZE - 1 : G[k] = 0
    <3>1. \A k \in nk .. SASIZE - 1 : k \in Idx /\ ~ (k < nk)
      BY <1>0 DEF Idx
    <3> QED BY <1>6, <3>1, Zenon
  <2>4. SASIZE \in Nat /\ nk <= SASIZE
    BY <1>0, <1>k
  <2>5. IsPart(kb, nk, SASIZE, F, G)
    BY <2>1, <2>2, <2>3, <2>4, Zenon DEF IsPart
  <2> QED BY <2>4, <2>5, SumSplit
<1>8. SumTo(kb, F) \in Int
  <2>1. \A k \in 0 .. kb - 1 : k \in 0 .. sb - 1
    BY <1>1
  <2>2. \A k \in 0 .. kb - 1 : F[k] \in Int
    BY <1>5, <2>1, Zenon
  <2> QED BY <2>2, SumType
<1>9. SumTo(SASIZE, G) \in Int
  <2>1. \A k \in 0 .. SASIZE - 1 : G[k] \in Int
    <3> TAKE k \in 0 .. SASIZE - 1
    <3>1. k \in Idx /\ 0 \in Int
      BY DEF Idx
    <3>2. CASE k < nk
      <4>1. kb + k \in 0 .. sb - 1
        BY <1>0, <1>s, <1>k, <3>2
      <4> QED BY <1>5, <1>6, <3>1, <3>2, <4>1, Zenon
    <3>3. CASE ~ (k < nk)
      BY <1>6, <3>1, <3>3, Zenon
    <3> QED BY <3>2, <3>3
  <2>2. SASIZE \in Nat
    BY <1>0
  <2> QED BY <2>1, <2>2, SumType
<1>10. PICK p \in Int, q \in Int : p = SumTo(kb, F) /\ q = SumTo(SASIZE, G)
  BY <1>8, <1>9
<1>11. ((p % Modulus) + (q % Modulus)) % Modulus = (p + q) % Modulus
  BY <1>0, ModAdd
<1>12. /\ Partial(A, B, sb, r, c, kb) = p % Modulus
       /\ Partial(A, B, sb, r, c, kb + SASIZE) = (p + q) % Modulus
  BY <1>4, <1>7, <1>10, Zenon DEF Partial, F
<1> QED BY <1>1, <1>g, <1>10, <1>11, <1>12, Zenon

\* R is the tile of task t, and D is C with it added.
IsTile(A, B, t, R) ==
  \A i, j \in Idx : R[i][j] = SumTo(SASIZE, TileTerms(A, B, t, i, j)) % Modulus

IsDeposit(C, D, R, t) ==
  \A r \in 0 .. MatrixDim - 1, c \in 0 .. MatrixDim - 1 : D[r][c] =
    IF r - t.rowBlk \in 0 .. t.tileRows - 1 /\ c - t.colBlk \in 0 .. t.tileCols - 1
    THEN (C[r][c] + R[r - t.rowBlk][c - t.colBlk]) % Modulus ELSE C[r][c]

\* Adding the tile of a task to C carries the task's block to its next slice.
LEMMA FilledDeposit ==
  ASSUME NEW A \in Matrix, NEW B \in Matrix, NEW C, NEW D, NEW R,
         NEW sa \in 0 .. MatrixDim, NEW sb \in 0 .. MatrixDim, NEW t, IsTask(sa, sb, t),
         Filled(A, B, C, sa, sb, t.rowBlk, t.colBlk, t.kBlk),
         IsTile(A, B, t, R), IsDeposit(C, D, R, t)
  PROVE  Filled(A, B, D, sa, sb, t.rowBlk, t.colBlk, t.kBlk + SASIZE)
<1>0. SASIZE \in Nat \ {0} /\ MatrixDim \in Nat
  BY SystolicAssumption
<1>1. PICK rb \in Nat, cb \in Nat : rb = t.rowBlk /\ cb = t.colBlk
  BY DEF IsTask
<1>s. sa \in Nat /\ sb \in Nat /\ sa <= MatrixDim /\ sb <= MatrixDim
  BY <1>0
<1>2. t.tileRows = MinOf(SASIZE, sa - rb) /\ t.tileCols = MinOf(SASIZE, sb - cb)
  BY <1>1, Zenon DEF IsTask
<1>3. ASSUME NEW r \in 0 .. sa - 1, NEW c \in 0 .. sb - 1
      PROVE  D[r][c] = Cell(A, B, sb, r, c, rb, cb, t.kBlk + SASIZE)
  <2>1. r \in 0 .. MatrixDim - 1 /\ c \in 0 .. MatrixDim - 1
    BY <1>0, <1>s
  <2>2. PICK i \in Int, j \in Int : i = r - rb /\ j = c - cb /\ r = rb + i /\ c = cb + j
    <3>1. r - rb \in Int /\ c - cb \in Int /\ r = rb + (r - rb) /\ c = cb + (c - cb)
      OBVIOUS
    <3> QED BY <3>1, Zenon
  <2>i. i = r - rb /\ j = c - cb
    BY <2>2, Zenon
  <2> DEFINE in == i \in Idx /\ j \in Idx
  <2>3. in <=> /\ i \in 0 .. MinOf(SASIZE, sa - rb) - 1
               /\ j \in 0 .. MinOf(SASIZE, sb - cb) - 1
    BY <1>0, <1>s, <2>i DEF Idx, MinOf
  <2>4. D[r][c] = IF in THEN (C[r][c] + R[i][j]) % Modulus ELSE C[r][c]
    <3>1. in <=> i \in 0 .. t.tileRows - 1 /\ j \in 0 .. t.tileCols - 1
      BY <1>2, <2>3, Zenon
    <3> HIDE DEF in
    <3> QED BY <1>1, <2>1, <2>2, <3>1, Zenon DEF IsDeposit
  <2>5. C[r][c] = Cell(A, B, sb, r, c, rb, cb, t.kBlk)
    BY <1>1, Zenon DEF Filled
  <2>6. CASE in
    <3>1. ~ (r < rb) /\ ~ (c < cb) /\ r < rb + SASIZE /\ c < cb + SASIZE
      BY <1>0, <2>6, <2>i DEF Idx
    <3>2. C[r][c] = Partial(A, B, sb, r, c, t.kBlk)
      BY <2>5, <3>1, Zenon DEF Cell
    <3>3. Cell(A, B, sb, r, c, rb, cb, t.kBlk + SASIZE) = Partial(A, B, sb, r, c, t.kBlk + SASIZE)
      BY <3>1, Zenon DEF Cell
    <3>4. i \in Idx /\ j \in Idx
      BY <2>6
    <3>5. R[i][j] = SumTo(SASIZE, TileTerms(A, B, t, i, j)) % Modulus
      BY <3>4, Zenon DEF IsTile
    <3>6. r = t.rowBlk + i /\ c = t.colBlk + j
      BY <1>1, <2>2, Zenon
    <3>7. (Partial(A, B, sb, r, c, t.kBlk) + (SumTo(SASIZE, TileTerms(A, B, t, i, j)) % Modulus)) % Modulus
            = Partial(A, B, sb, r, c, t.kBlk + SASIZE)
      BY <3>4, <3>6, TileSum
    <3> QED BY <2>4, <2>6, <3>2, <3>3, <3>5, <3>7, Zenon
  <2>7. CASE ~ in
    <3>1. (r < rb \/ (r < rb + SASIZE /\ c < cb)) \/ ~ (r < rb + SASIZE /\ c < cb + SASIZE)
      BY <1>0, <2>7, <2>i DEF Idx
    <3>2. Cell(A, B, sb, r, c, rb, cb, t.kBlk + SASIZE) = Cell(A, B, sb, r, c, rb, cb, t.kBlk)
      BY <3>1, Zenon DEF Cell
    <3> QED BY <2>4, <2>5, <2>7, <3>2, Zenon
  <2> QED BY <2>6, <2>7, Zenon
<1> QED BY <1>1, <1>3, Zenon DEF Filled

\* The tiles of a task are made of the elements of the matrices.
LEMMA LoadType ==
  ASSUME NEW A \in Matrix, NEW B \in Matrix,
         NEW sa \in 0 .. MatrixDim, NEW sb \in 0 .. MatrixDim, NEW t, IsTask(sa, sb, t)
  PROVE  LoadATile(A, t) \in [Idx -> [Idx -> Int]] /\ LoadBTile(B, t) \in [Idx -> [Idx -> Int]]
<1>0. SASIZE \in Nat \ {0} /\ MatrixDim \in Nat
  BY SystolicAssumption
<1>1. PICK rb \in Nat, cb \in Nat, kb \in Nat : rb = t.rowBlk /\ cb = t.colBlk /\ kb = t.kBlk
  BY DEF IsTask
<1>s. sa \in Nat /\ sb \in Nat /\ sa <= MatrixDim /\ sb <= MatrixDim
  BY <1>0
<1>2. /\ t.tileRows = MinOf(SASIZE, sa - rb) /\ t.tileCols = MinOf(SASIZE, sb - cb)
      /\ t.kCols = MinOf(SASIZE, sb - kb)
  BY <1>1, Zenon DEF IsTask
<1> DEFINE X(i, j) == IF i < t.tileRows /\ j < t.kCols THEN A[t.rowBlk + i][t.kBlk + j] ELSE 0
           Y(i, j) == IF i < t.kCols /\ j < t.tileCols THEN B[t.kBlk + i][t.colBlk + j] ELSE 0
<1>3. ASSUME NEW i \in Idx, NEW j \in Idx PROVE X(i, j) \in Int
  <2>1. 0 \in Int
    OBVIOUS
  <2>2. ASSUME i < MinOf(SASIZE, sa - rb), j < MinOf(SASIZE, sb - kb)
        PROVE  A[rb + i][kb + j] \in Int
    <3>1. rb + i \in 0 .. MatrixDim - 1 /\ kb + j \in 0 .. MatrixDim - 1
      BY <1>0, <1>s, <2>2 DEF Idx, MinOf
    <3> QED BY <3>1, MatrixElement
  <2> QED BY <1>1, <1>2, <2>1, <2>2, Zenon
<1>4. ASSUME NEW i \in Idx, NEW j \in Idx PROVE Y(i, j) \in Int
  <2>1. 0 \in Int
    OBVIOUS
  <2>2. ASSUME i < MinOf(SASIZE, sb - kb), j < MinOf(SASIZE, sb - cb)
        PROVE  B[kb + i][cb + j] \in Int
    <3>1. kb + i \in 0 .. MatrixDim - 1 /\ cb + j \in 0 .. MatrixDim - 1
      BY <1>0, <1>s, <2>2 DEF Idx, MinOf
    <3> QED BY <3>1, MatrixElement
  <2> QED BY <1>1, <1>2, <2>1, <2>2, Zenon
<1>5. /\ LoadATile(A, t) = [i \in Idx |-> [j \in Idx |-> X(i, j)]]
      /\ LoadBTile(B, t) = [i \in Idx |-> [j \in Idx |-> Y(i, j)]]
  BY Zenon DEF LoadATile, LoadBTile, Grid
<1> HIDE DEF X, Y
<1> QED BY <1>3, <1>4, <1>5

-----------------------------------------------------------------------------
(* The core.                                                               *)

\* A matrix member: rows and columns.
IsSquare(C) ==
  /\ DOMAIN C = 0 .. MatrixDim - 1
  /\ \A r \in 0 .. MatrixDim - 1 : DOMAIN C[r] = 0 .. MatrixDim - 1

\* Task t is being done, and the tasks of q are those behind it.
Work(sa, sb, A, B, C, t, q) ==
  /\ IsTask(sa, sb, t) /\ Chain(sa, sb, q)
  /\ q = <<>> => LastTask(sa, sb, t)
  /\ q # <<>> => Follows(sb, t, q[1])
  /\ Filled(A, B, C, sa, sb, t.rowBlk, t.colBlk, t.kBlk)

Busy ==
  /\ done_ = FALSE
  /\ A_matrix \in Matrix /\ B_matrix \in Matrix /\ IsSquare(C_matrix)
  /\ A_Tile = LoadATile(A_matrix, current_tile) /\ B_Tile = LoadBTile(B_matrix, current_tile)
  /\ Work(strideA_, strideB_, A_matrix, B_matrix, C_matrix, current_tile, tileQ)
  /\ GridInv

CoreInv ==
  /\ strideA_ \in 0 .. MatrixDim /\ strideB_ \in 0 .. MatrixDim
  /\ cycle = NoEvents => tileQ = <<>>
  /\ cycle # NoEvents => Busy
  /\ done_ \in BOOLEAN
  /\ done_ = TRUE => Complete(A_matrix, B_matrix, C_matrix, strideA_, strideB_)

LEMMA ChainHead ==
  ASSUME NEW sa, NEW sb, NEW q, Chain(sa, sb, q), q # <<>>
  PROVE  /\ Head(q) = q[1] /\ IsTask(sa, sb, q[1]) /\ Chain(sa, sb, Tail(q))
         /\ Tail(q) = <<>> => LastTask(sa, sb, q[1])
         /\ Tail(q) # <<>> => Follows(sb, q[1], Tail(q)[1])
<1>1. IsSeq(q)
  BY DEF Chain
<1>2. PICK n \in Nat : n = Len(q)
  BY <1>1, LenIsNat
<1>3. PICK w : w = Tail(q)
  OBVIOUS
<1>4. IsSeq(w) /\ Len(w) = n - 1 /\ n > 0 /\ Head(q) = q[1]
  BY <1>1, <1>2, <1>3, TailIsSeq, Zenon
<1>5. \A k \in 1 .. n - 1 : w[k] = q[k + 1]
  BY <1>1, <1>2, <1>3, TailIsSeq, Zenon
<1>6. PICK m \in Nat : m = Len(w) /\ m = n - 1
  BY <1>4, LenIsNat, Zenon
<1>7. w = <<>> <=> m = 0
  BY <1>4, <1>6, LenIsNat, Zenon
<1>q. /\ \A k \in 1 .. n : IsTask(sa, sb, q[k])
      /\ \A k \in 1 .. n - 1 : Follows(sb, q[k], q[k + 1])
      /\ LastTask(sa, sb, q[n])
  BY <1>2, Zenon DEF Chain
<1>8. IsTask(sa, sb, q[1])
  <2>1. 1 \in 1 .. n
    BY <1>4
  <2> QED BY <1>q, <2>1, Zenon
<1>9. \A k \in 1 .. m : IsTask(sa, sb, w[k])
  <2> TAKE k \in 1 .. m
  <2>1. k \in 1 .. n - 1 /\ k + 1 \in 1 .. n
    BY <1>6
  <2> QED BY <1>5, <1>q, <2>1, Zenon
<1>10. \A k \in 1 .. m - 1 : Follows(sb, w[k], w[k + 1])
  <2> TAKE k \in 1 .. m - 1
  <2>1. k \in 1 .. n - 1 /\ k + 1 \in 1 .. n - 1
    BY <1>6
  <2> QED BY <1>5, <1>q, <2>1, Zenon
<1>11. w # <<>> => LastTask(sa, sb, w[m]) /\ Follows(sb, q[1], w[1])
  <2> HAVE w # <<>>
  <2>1. m \in 1 .. n - 1 /\ m + 1 = n /\ 1 \in 1 .. n - 1 /\ 1 + 1 = 2
    BY <1>6, <1>7
  <2>2. w[m] = q[n] /\ w[1] = q[1 + 1]
    BY <1>5, <2>1, Zenon
  <2>3. Follows(sb, q[1], q[1 + 1])
    BY <1>q, <2>1, Zenon
  <2> QED BY <1>q, <2>2, <2>3, Zenon
<1>12. w = <<>> => LastTask(sa, sb, q[1])
  <2>1. w = <<>> => n = 1
    BY <1>6, <1>7
  <2> QED BY <1>q, <2>1, Zenon
<1>13. Chain(sa, sb, w)
  BY <1>4, <1>6, <1>9, <1>10, <1>11, Zenon DEF Chain
<1> QED BY <1>3, <1>4, <1>8, <1>11, <1>12, <1>13, Zenon

\* launchNextTile with something left to do.
LEMMA LaunchBusy ==
  ASSUME NEW q, NEW A \in Matrix, NEW B \in Matrix,
         strideA_ \in 0 .. MatrixDim, strideB_ \in 0 .. MatrixDim,
         strideA_' = strideA_, strideB_' = strideB_, A_matrix' = A, B_matrix' = B,
         IsSquare(C_matrix'), done_ = FALSE, Chain(strideA_, strideB_, q), q # <<>>,
         Filled(A, B, C_matrix', strideA_, strideB_, q[1].rowBlk, q[1].colBlk, q[1].kBlk),
         launchNextTile(q, A, B)
  PROVE  CoreInv'
<1>1. PICK t, w : t = Head(q) /\ w = Tail(q)
  OBVIOUS
<1>2. /\ t = q[1] /\ IsTask(strideA_, strideB_, t) /\ Chain(strideA_, strideB_, w)
      /\ w = <<>> => LastTask(strideA_, strideB_, t)
      /\ w # <<>> => Follows(strideB_, t, w[1])
  BY <1>1, ChainHead, Zenon
<1>3. /\ current_tile' = t /\ tileQ' = w /\ cycle' = 0 /\ done_' = FALSE
      /\ A_Tile' = LoadATile(A, t) /\ B_Tile' = LoadBTile(B, t)
  BY <1>1, Zenon DEF launchNextTile
<1>4. GridInv'
  <2>1. LoadATile(A, t) \in [Idx -> [Idx -> Int]] /\ LoadBTile(B, t) \in [Idx -> [Idx -> Int]]
    BY <1>2, LoadType
  <2> QED BY <1>1, <2>1, LaunchInv
<1>5. Work(strideA_, strideB_, A, B, C_matrix', t, w)
  BY <1>2, Zenon DEF Work
<1>6. cycle' # NoEvents
  BY <1>3 DEF NoEvents
<1>7. (A_Tile = LoadATile(A_matrix, current_tile) /\ B_Tile = LoadBTile(B_matrix, current_tile))'
  BY <1>3, Zenon DEF LoadATile, LoadBTile, Grid, Idx
<1>8. Work(strideA_, strideB_, A_matrix, B_matrix, C_matrix, current_tile, tileQ)'
  BY <1>3, <1>5, Zenon
<1>9. Busy'
  BY <1>3, <1>4, <1>7, <1>8, Zenon DEF Busy, Matrix, IsSquare
<1> QED BY <1>3, <1>6, <1>9, Zenon DEF CoreInv, NoEvents

\* launchNextTile with nothing left to do.
LEMMA LaunchDone ==
  ASSUME NEW A, NEW B, strideA_ \in 0 .. MatrixDim, strideB_ \in 0 .. MatrixDim,
         strideA_' = strideA_, strideB_' = strideB_, A_matrix' = A, B_matrix' = B,
         tileQ = <<>>, Complete(A, B, C_matrix', strideA_, strideB_),
         launchNextTile(<<>>, A, B)
  PROVE  CoreInv'
<1>1. done_' = TRUE /\ cycle' = NoEvents /\ tileQ' = <<>>
  BY Zenon DEF launchNextTile, tile
<1>2. Complete(A_matrix, B_matrix, C_matrix, strideA_, strideB_)'
  BY Zenon
<1>3. TRUE \in BOOLEAN
  OBVIOUS
<1> QED BY <1>1, <1>2, <1>3, Zenon DEF CoreInv, NoEvents

LEMMA StartInv ==
  ASSUME CoreInv, Start
  PROVE  CoreInv'
<1>0. MatrixDim \in Nat
  BY SystolicAssumption
<1>1. /\ strideA_ \in 0 .. MatrixDim /\ strideB_ \in 0 .. MatrixDim /\ tileQ = <<>>
      /\ done_ \in BOOLEAN
  BY DEF CoreInv, Start, Running
<1>2. PICK A \in Matrix, B \in Matrix : A = A_matrix' /\ B = B_matrix'
  BY DEF Start
<1>3. /\ strideA_' = strideA_ /\ strideB_' = strideB_ /\ done_ = FALSE
      /\ C_matrix' = C_matrix /\ C_matrix = ZeroMatrix
  BY <1>1, Zenon DEF Start
<1>4. PICK q : q = tileQ \o TileTasks
  OBVIOUS
<1>5. launchNextTile(q, A, B)
  BY <1>2, <1>4, Zenon DEF Start, ComputeMatrix
<1>6. strideA_ \in Nat /\ strideB_ \in Nat /\ strideA_ <= MatrixDim /\ strideB_ <= MatrixDim
  BY <1>0, <1>1
<1>7. /\ Chain(strideA_, strideB_, TileTasks)
      /\ TileTasks # <<>> => FirstTask(TileTasks[1])
      /\ TileTasks = <<>> => strideA_ = 0 \/ strideB_ = 0
  BY <1>6, TasksChain
<1>8. q = TileTasks
  <2>1. IsSeq(TileTasks)
    BY <1>7 DEF Chain
  <2>2. <<>> \o TileTasks = TileTasks
    BY <2>1 DEF IsSeq
  <2> QED BY <1>1, <1>4, <2>2, Zenon
<1>z. IsSquare(ZeroMatrix)
      /\ \A r \in 0 .. strideA_ - 1, c \in 0 .. strideB_ - 1 : ZeroMatrix[r][c] = 0
  <2>1. \A r \in 0 .. strideA_ - 1 : r \in 0 .. MatrixDim - 1
    BY <1>0, <1>6
  <2>2. \A c \in 0 .. strideB_ - 1 : c \in 0 .. MatrixDim - 1
    BY <1>0, <1>6
  <2>3. \A r, c \in 0 .. MatrixDim - 1 : ZeroMatrix[r][c] = 0
    BY Zenon DEF ZeroMatrix
  <2>4. IsSquare(ZeroMatrix)
    BY Zenon DEF ZeroMatrix, IsSquare
  <2> QED BY <2>1, <2>2, <2>3, <2>4, Zenon
<1>9. CASE q # <<>>
  <2>1. FirstTask(q[1])
    BY <1>7, <1>8, <1>9, Zenon
  <2>2. \A r \in 0 .. strideA_ - 1, c \in 0 .. strideB_ - 1 : C_matrix'[r][c] = 0
    BY <1>3, <1>z, Zenon
  <2>3. PICK C : C = C_matrix'
    OBVIOUS
  <2>4. Filled(A, B, C, strideA_, strideB_, q[1].rowBlk, q[1].colBlk, q[1].kBlk)
    BY <1>6, <2>1, <2>2, <2>3, FilledFirst
  <2>5. IsSquare(C_matrix')
    BY <1>3, <1>z, Zenon
  <2>6. Chain(strideA_, strideB_, q)
    BY <1>7, <1>8, Zenon
  <2> QED BY <1>1, <1>2, <1>3, <1>5, <1>9, <2>3, <2>4, <2>5, <2>6, LaunchBusy
<1>10. CASE q = <<>>
  <2>1. strideA_ = 0 \/ strideB_ = 0
    BY <1>7, <1>8, <1>10, Zenon
  <2>2. 0 .. strideA_ - 1 = {} \/ 0 .. strideB_ - 1 = {}
    BY <2>1
  <2>3. Complete(A, B, C_matrix', strideA_, strideB_)
    BY <2>2, Zenon DEF Complete
  <2> QED BY <1>1, <1>2, <1>3, <1>5, <1>10, <2>3, LaunchDone
<1> QED BY <1>9, <1>10

LEMMA ResultIs ==
  ASSUME GridInv, cycle = FlushEnd
  PROVE  Tile_Result = Grid(TileProduct)
<1>0. GridType /\ Emits /\ Products /\ Tile_Result = Result
  BY Zenon DEF GridInv, CopiedOut
<1>c. SASIZE \in Nat \ {0} /\ cycle \in Int /\ FlushEnd = 4 * SASIZE - 1
  BY <1>0, CycleInt
<1>1. ASSUME NEW i \in Idx, NEW j \in Idx
      PROVE  Result[i][j] = TileProduct(i, j)
  <2>1. Emitted(cycle, j) = SASIZE
    BY <1>c DEF Emitted, Idx
  <2>2. emitRow[j] = SASIZE
    BY <1>0, <2>1, Zenon DEF Emits
  <2>3. i \in 0 .. emitRow[j] - 1
    BY <2>2 DEF Idx
  <2> QED BY <1>0, <2>3, Zenon DEF Products
<1>2. Result = [i \in Idx |-> [j \in Idx |-> Result[i][j]]]
  BY <1>0 DEF GridType
<1>3. Result = [i \in Idx |-> [j \in Idx |-> TileProduct(i, j)]]
  BY <1>1, <1>2, Zenon
<1> QED BY <1>0, <1>3, Zenon DEF Grid

LEMMA DepositInv ==
  ASSUME CoreInv, Deposit
  PROVE  CoreInv'
<1>1. /\ strideA_ \in 0 .. MatrixDim /\ strideB_ \in 0 .. MatrixDim
      /\ Busy /\ cycle = FlushEnd
  BY Zenon DEF CoreInv, Deposit, Running
<1>0. MatrixDim \in Nat /\ strideA_ \in Nat /\ strideB_ \in Nat
  BY <1>1, SystolicAssumption
<1>a. PICK A \in Matrix, B \in Matrix : A = A_matrix /\ B = B_matrix
  BY <1>1, Zenon DEF Busy
<1>b. PICK C, t, q : C = C_matrix /\ t = current_tile /\ q = tileQ
  BY Zenon
<1>2. A = A_matrix /\ B = B_matrix /\ C = C_matrix /\ t = current_tile /\ q = tileQ
  BY <1>a, <1>b
<1>3. /\ done_ = FALSE /\ IsSquare(C) /\ Work(strideA_, strideB_, A, B, C, t, q)
      /\ A_Tile = LoadATile(A, t) /\ B_Tile = LoadBTile(B, t) /\ GridInv
  BY <1>1, <1>2, Zenon DEF Busy
<1>4. /\ strideA_' = strideA_ /\ strideB_' = strideB_ /\ A_matrix' = A /\ B_matrix' = B
      /\ launchNextTile(q, A, B)
  BY <1>2, Zenon DEF Deposit, operands
<1> DEFINE I == 0 .. MatrixDim - 1
           In(r, c) == /\ r - t.rowBlk \in 0 .. t.tileRows - 1
                       /\ c - t.colBlk \in 0 .. t.tileCols - 1
           X(r, c) == IF In(r, c)
                      THEN (C[r][c] + Tile_Result[r - t.rowBlk][c - t.colBlk]) % Modulus
                      ELSE C[r][c]
<1>5. C_matrix' = [r \in I |-> [c \in I |-> X(r, c)]]
  <2>1. C_matrix' = [r \in DOMAIN C |-> [c \in DOMAIN C[r] |-> X(r, c)]]
    BY <1>2, Zenon DEF Deposit
  <2>2. DOMAIN C = I /\ \A r \in I : DOMAIN C[r] = I
    BY <1>3, Zenon DEF IsSquare
  <2> HIDE DEF X, I
  <2> QED BY <2>1, <2>2, Zenon
<1>6. PICK D : D = C_matrix'
  OBVIOUS
<1>7. /\ IsSquare(D)
      /\ \A r, c \in I : D[r][c] = X(r, c)
  <2> HIDE DEF X
  <2>1. DOMAIN D = I /\ \A r \in I : DOMAIN D[r] = I
    BY <1>5, <1>6
  <2>2. \A r, c \in I : D[r][c] = X(r, c)
    BY <1>5, <1>6
  <2> QED BY <2>1, <2>2, Zenon DEF IsSquare
<1>8. \A i, j \in Idx : Tile_Result[i][j] = SumTo(SASIZE, TileTerms(A, B, t, i, j)) % Modulus
  <2>1. \A i, j \in Idx : Tile_Result[i][j] = TileProduct(i, j)
    <3>1. Tile_Result = Grid(TileProduct)
      BY <1>1, <1>3, ResultIs, Zenon
    <3>2. Tile_Result = [i \in Idx |-> [j \in Idx |-> TileProduct(i, j)]]
      BY <3>1, Zenon DEF Grid
    <3> QED BY <3>2, Zenon
  <2>2. \A i, j \in Idx : TileProduct(i, j) = SumTo(SASIZE, TileTerms(A, B, t, i, j)) % Modulus
    BY <1>3, Zenon DEF TileProduct, TileTerms
  <2> QED BY <2>1, <2>2, Zenon
<1>9. /\ IsTask(strideA_, strideB_, t) /\ Chain(strideA_, strideB_, q)
      /\ q = <<>> => LastTask(strideA_, strideB_, t)
      /\ q # <<>> => Follows(strideB_, t, q[1])
      /\ Filled(A, B, C, strideA_, strideB_, t.rowBlk, t.colBlk, t.kBlk)
  BY <1>3, Zenon DEF Work
<1>c. PICK sa \in 0 .. MatrixDim, sb \in 0 .. MatrixDim : sa = strideA_ /\ sb = strideB_
  BY <1>1, Zenon
<1>d. PICK R : R = Tile_Result
  OBVIOUS
<1>10. sa = strideA_ /\ sb = strideB_ /\ R = Tile_Result
  BY <1>c, <1>d
<1>11. Filled(A, B, D, sa, sb, t.rowBlk, t.colBlk, t.kBlk + SASIZE)
  <2>1. IsDeposit(C, D, R, t)
    BY <1>7, <1>10, Zenon DEF IsDeposit
  <2>2. IsTile(A, B, t, R)
    BY <1>8, <1>10, Zenon DEF IsTile
  <2>3. IsTask(sa, sb, t) /\ Filled(A, B, C, sa, sb, t.rowBlk, t.colBlk, t.kBlk)
    BY <1>9, <1>10, Zenon
  <2> HIDE DEF I, X, In
  <2> QED BY <2>1, <2>2, <2>3, FilledDeposit
<1> HIDE DEF I, X, In
<1>12. CASE q # <<>>
  <2>1. Follows(sb, t, q[1]) /\ IsTask(sa, sb, t) /\ sa \in Nat /\ sb \in Nat
    BY <1>0, <1>9, <1>10, <1>12, Zenon
  <2>2. PICK u : u = q[1]
    OBVIOUS
  <2>3. Filled(A, B, D, sa, sb, u.rowBlk, u.colBlk, u.kBlk)
    BY <1>11, <2>1, <2>2, FilledNext
  <2>4. Filled(A, B, C_matrix', strideA_, strideB_, q[1].rowBlk, q[1].colBlk, q[1].kBlk)
    BY <1>6, <1>10, <2>2, <2>3, Zenon
  <2>5. IsSquare(C_matrix')
    BY <1>6, <1>7, Zenon
  <2> QED BY <1>1, <1>3, <1>4, <1>9, <1>12, <2>4, <2>5, LaunchBusy
<1>13. CASE q = <<>>
  <2>1. LastTask(sa, sb, t) /\ IsTask(sa, sb, t) /\ sa \in Nat /\ sb \in Nat
    BY <1>0, <1>9, <1>10, <1>13, Zenon
  <2>2. Complete(A, B, D, sa, sb)
    BY <1>11, <2>1, FilledLast
  <2>3. Complete(A, B, C_matrix', strideA_, strideB_)
    BY <1>6, <1>10, <2>2, Zenon
  <2>4. tileQ = <<>> /\ launchNextTile(<<>>, A, B)
    BY <1>2, <1>4, <1>13, Zenon
  <2> QED BY <1>1, <1>4, <2>3, <2>4, LaunchDone
<1> QED BY <1>12, <1>13

LEMMA SameGrid ==
  ASSUME GridInv, cycle' = cycle, A_Tile' = A_Tile, B_Tile' = B_Tile,
         pe' = pe, emitRow' = emitRow, Result' = Result, Tile_Result' = Tile_Result
  PROVE  GridInv'
<1>0. GridType /\ Weights /\ Inputs /\ Sums /\ Emits /\ Products /\ CopiedOut
  BY DEF GridInv
<1>1. GridType'
  BY <1>0, Zenon DEF GridType, Idx, FlushEnd, PropagateEnd, PreloadEnd, PE, Reg8, Sum16
<1>2. Weights'
  BY <1>0, Zenon DEF Weights, Idx, Valid8
<1>3. Inputs'
  BY <1>0, Zenon DEF Inputs, Idx, Inject, Invalid
<1>4. Sums'
  <2>1. \A n, r, j : SumTo(n, Terms(r, j))' = SumTo(n, Terms(r, j))
    BY TileConst
  <2>2. ASSUME NEW i \in Idx, NEW j \in Idx, NEW r \in Idx,
               i # SASIZE - 1 /\ r = (cycle' - SASIZE - 1 - j) - i
        PROVE  pe'[i][j].fwdPsum = Valid16(SumTo(i + 1, Terms(r, j))' % Modulus)
    <3>1. pe[i][j].fwdPsum = Valid16(SumTo(i + 1, Terms(r, j)) % Modulus)
      BY <1>0, <2>2, Zenon DEF Sums
    <3>2. SumTo(i + 1, Terms(r, j))' = SumTo(i + 1, Terms(r, j))
      BY <2>1, Zenon
    <3> QED BY <3>1, <3>2, Zenon
  <2> QED BY <2>2 DEF Sums, Idx, Valid16
<1>5. Emits'
  BY <1>0, Zenon DEF Emits, Emitted, Idx
<1>6. Products'
  <2>1. \A i, j : TileProduct(i, j)' = TileProduct(i, j)
    BY TileConst
  <2> QED BY <1>0, <2>1, Zenon DEF Products, Idx
<1>7. CopiedOut'
  BY <1>0, Zenon DEF CopiedOut, FlushEnd, PropagateEnd, PreloadEnd
<1> QED BY <1>1, <1>2, <1>3, <1>4, <1>5, <1>6, <1>7 DEF GridInv

\* Preload, propagation and flush leave everything but the grid alone.
LEMMA EventInv ==
  ASSUME CoreInv, Preload_Weight \/ PropagateA_And_MAC \/ FlushAndEmit
  PROVE  CoreInv'
<1>1. /\ strideA_ \in 0 .. MatrixDim /\ strideB_ \in 0 .. MatrixDim /\ Busy
      /\ cycle # NoEvents
  BY Zenon DEF CoreInv, Preload_Weight, PropagateA_And_MAC, FlushAndEmit, Running
<1>2. GridInv /\ done_ = FALSE
  BY <1>1, Zenon DEF Busy
<1>3. /\ strideA_' = strideA_ /\ strideB_' = strideB_ /\ A_matrix' = A_matrix
      /\ B_matrix' = B_matrix /\ C_matrix' = C_matrix /\ done_' = done_
      /\ tileQ' = tileQ /\ current_tile' = current_tile /\ A_Tile' = A_Tile /\ B_Tile' = B_Tile
      /\ cycle' = cycle + 1
  BY Zenon DEF Preload_Weight, PropagateA_And_MAC, FlushAndEmit, operands, tile
<1>4. GridInv'
  BY <1>2, PreloadInv, PropagateInv, FlushInv
<1>5. cycle' # NoEvents
  <2>1. cycle \in Int /\ 0 <= cycle
    BY <1>2, CycleInt DEF GridInv
  <2> QED BY <1>3, <2>1 DEF NoEvents
<1>6. (A_Tile = LoadATile(A_matrix, current_tile) /\ B_Tile = LoadBTile(B_matrix, current_tile))'
  BY <1>1, <1>3, Zenon DEF Busy, LoadATile, LoadBTile, Grid, Idx
<1>7. Work(strideA_, strideB_, A_matrix, B_matrix, C_matrix, current_tile, tileQ)'
  BY <1>1, <1>3, Zenon DEF Busy
<1>8. Busy'
  BY <1>1, <1>3, <1>4, <1>6, <1>7, Zenon DEF Busy, Matrix, IsSquare
<1> QED BY <1>1, <1>2, <1>3, <1>5, <1>8, Zenon DEF CoreInv, NoEvents

LEMMA ControlInv ==
  ASSUME CoreInv, SetStrides \/ Acknowledge \/ Clear
  PROVE  CoreInv'
<1>b. TRUE \in BOOLEAN /\ FALSE \in BOOLEAN
  OBVIOUS
<1>1. CASE SetStrides
  <2>1. /\ strideA_' \in 0 .. MatrixDim /\ strideB_' \in 0 .. MatrixDim
        /\ cycle = NoEvents /\ cycle' = cycle /\ tileQ' = tileQ /\ done_' = done_ /\ ~ done_
    BY <1>1, Zenon DEF SetStrides, Running, grid, tile
  <2> QED BY <2>1, Zenon DEF CoreInv, NoEvents
<1>2. CASE Acknowledge
  <2>1. /\ done_' = FALSE /\ strideA_' = strideA_ /\ strideB_' = strideB_
        /\ A_matrix' = A_matrix /\ B_matrix' = B_matrix /\ C_matrix' = C_matrix
        /\ tileQ' = tileQ /\ current_tile' = current_tile /\ A_Tile' = A_Tile /\ B_Tile' = B_Tile
        /\ pe' = pe /\ emitRow' = emitRow /\ Result' = Result /\ Tile_Result' = Tile_Result
        /\ cycle' = cycle
    BY <1>2, Zenon DEF Acknowledge, operands, grid, tile
  <2>2. GridInv => GridInv'
    BY <2>1, SameGrid
  <2>3. Busy => Busy'
    <3> HAVE Busy
    <3>1. (A_Tile = LoadATile(A_matrix, current_tile) /\ B_Tile = LoadBTile(B_matrix, current_tile))'
      BY <2>1, Zenon DEF Busy, LoadATile, LoadBTile, Grid, Idx
    <3>2. Work(strideA_, strideB_, A_matrix, B_matrix, C_matrix, current_tile, tileQ)'
      BY <2>1, Zenon DEF Busy
    <3> QED BY <2>1, <2>2, <3>1, <3>2, Zenon DEF Busy, Matrix, IsSquare
  <2> QED BY <1>b, <2>1, <2>3, Zenon DEF CoreInv, NoEvents
<1>3. CASE Clear
  <2>1. /\ strideA_' = strideA_ /\ strideB_' = strideB_
        /\ cycle = NoEvents /\ cycle' = cycle /\ tileQ' = tileQ /\ done_' = FALSE
    BY <1>3, Zenon DEF Clear, Running, grid, tile
  <2> QED BY <1>b, <2>1, Zenon DEF CoreInv, NoEvents
<1> QED BY <1>1, <1>2, <1>3

LEMMA StutterInv ==
  ASSUME CoreInv, UNCHANGED core
  PROVE  CoreInv'
<1>1. /\ done_' = done_ /\ strideA_' = strideA_ /\ strideB_' = strideB_
      /\ A_matrix' = A_matrix /\ B_matrix' = B_matrix /\ C_matrix' = C_matrix
      /\ tileQ' = tileQ /\ current_tile' = current_tile /\ A_Tile' = A_Tile /\ B_Tile' = B_Tile
      /\ pe' = pe /\ emitRow' = emitRow /\ Result' = Result /\ Tile_Result' = Tile_Result
      /\ cycle' = cycle
  BY Zenon DEF core, operands, grid, tile
<1>2. GridInv => GridInv'
  BY <1>1, SameGrid
<1>3. Busy => Busy'
  <2> HAVE Busy
  <2>1. (A_Tile = LoadATile(A_matrix, current_tile) /\ B_Tile = LoadBTile(B_matrix, current_tile))'
    BY <1>1, Zenon DEF Busy, LoadATile, LoadBTile, Grid, Idx
  <2>2. Work(strideA_, strideB_, A_matrix, B_matrix, C_matrix, current_tile, tileQ)'
    BY <1>1, Zenon DEF Busy
  <2> QED BY <1>1, <1>2, <2>1, <2>2, Zenon DEF Busy, Matrix, IsSquare
<1>4. done_ = TRUE => Complete(A_matrix, B_matrix, C_matrix, strideA_, strideB_)'
  BY <1>1, Zenon DEF CoreInv
<1> QED BY <1>1, <1>3, <1>4, Zenon DEF CoreInv, NoEvents

LEMMA CoreInitInv ==
  ASSUME CoreInit
  PROVE  CoreInv
<1>1. /\ strideA_ \in 0 .. MatrixDim /\ strideB_ \in 0 .. MatrixDim /\ FALSE \in BOOLEAN
      /\ FALSE # TRUE
  BY SystolicAssumption DEF CoreInit
<1> QED BY <1>1, Zenon DEF CoreInit, CoreInv

\* The core keeps to its invariant: the grid is in step with its events, the
\* tasks that are left are those behind the current one, and C holds the sums
\* of the tasks before it (SystolicArray.cc, ComputeMatrix to the deposit).
THEOREM CoreInvariant == CoreSpec => []CoreInv
<1>1. CoreInit => CoreInv
  BY CoreInitInv
<1>2. CoreInv /\ [CoreNext]_core => CoreInv'
  <2> SUFFICES ASSUME CoreInv, [CoreNext]_core PROVE CoreInv'
    OBVIOUS
  <2>1. CASE TileEvent
    BY <2>1, EventInv, DepositInv DEF TileEvent
  <2>2. CASE SetStrides \/ Acknowledge \/ Clear
    BY <2>2, ControlInv
  <2>3. CASE Start
    BY <2>3, StartInv
  <2>4. CASE UNCHANGED core
    BY <2>4, StutterInv
  <2> QED BY <2>1, <2>2, <2>3, <2>4 DEF CoreNext
<1> QED BY <1>1, <1>2, PTL DEF CoreSpec

\* Whatever leaves the bottom row of the grid is a finished element of the
\* tile's product, in its place, for any size of the grid and whatever lies
\* in front of its rows (SystolicArray.cc, PropagateA_And_MAC, FlushAndEmit).
THEOREM EmittedCorrect == CoreSpec => []EmittedIsProduct
<1>1. CoreInv => EmittedIsProduct
  BY Zenon DEF CoreInv, Busy, GridInv, Products, EmittedIsProduct, Running
<1> QED BY <1>1, CoreInvariant, PTL

\* The result is complete when it is added to C (SystolicArray.cc, ComputeTile).
THEOREM DepositCorrect == CoreSpec => []DepositIsProduct
<1>1. CoreInv => DepositIsProduct
  <2> SUFFICES ASSUME CoreInv, Running, cycle = FlushEnd PROVE Tile_Result = Grid(TileProduct)
    BY Zenon DEF DepositIsProduct
  <2>1. GridInv
    BY Zenon DEF CoreInv, Busy, Running
  <2> QED BY <2>1, ResultIs
<1> QED BY <1>1, CoreInvariant, PTL

\* When done_ is raised, and for as long as it stands, C is the product of
\* the operands, for any size of the matrices and of the grid
\* (SystolicArray.cc, launchNextTile).
THEOREM DoneCorrect == CoreSpec => []DoneMeansProduct
<1>1. CoreInv => DoneMeansProduct
  <2> SUFFICES ASSUME CoreInv, done_ = TRUE, NEW r \in 0 .. strideA_ - 1, NEW c \in 0 .. strideB_ - 1
               PROVE  C_matrix[r][c] = Product(r, c)
    BY Zenon DEF DoneMeansProduct, CoreInv
  <2>1. C_matrix[r][c] = Partial(A_matrix, B_matrix, strideB_, r, c, strideB_)
    BY Zenon DEF CoreInv, Complete
  <2>2. strideB_ \in Int
    BY SystolicAssumption DEF CoreInv
  <2>3. MinOf(strideB_, strideB_) = strideB_
    BY <2>2 DEF MinOf
  <2> QED BY <2>1, <2>3, Zenon DEF Partial, Product, Factors
<1> QED BY <1>1, CoreInvariant, PTL
=============================================================================
