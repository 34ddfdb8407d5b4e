----------------------------- MODULE SeqLemmas -----------------------------
(***************************************************************************)
(* Facts that the proofs of the components share: induction over the       *)
(* naturals, stated for a set instead of a predicate, recursive functions  *)
(* that walk over an interval, sequences of anything, the ports of         *)
(* PipePort, and numbers of positions in a sequence.                       *)
(***************************************************************************)
EXTENDS PipePort, Integers, WellFoundedInduction, FunctionTheorems, FiniteSetTheorems, TLAPS

\* Induction, with a set in place of a predicate.
LEMMA SetInduction ==
  ASSUME NEW T, 0 \in T, \A k \in Nat : k \in T => k + 1 \in T
  PROVE  Nat \subseteq T
<1> SUFFICES ASSUME Nat \ T # {} PROVE FALSE
  OBVIOUS
<1> DEFINE R == OpToRel(<, Nat)
<1>1. \E x \in Nat \ T : \A y \in Nat \ T : ~ (<<y, x>> \in R)
  <2> HIDE DEF R
  <2> Nat \ T \subseteq Nat
    OBVIOUS
  <2>1. IsWellFoundedOn(R, Nat)
    BY NatLessThanWellFounded DEF R
  <2> QED BY <2>1, WFMin, Zenon
<1>2. PICK x \in Nat \ T : \A y \in Nat \ T : ~ (<<y, x>> \in R)
  BY <1>1
<1>3. x # 0 /\ x - 1 \in Nat /\ (x - 1) + 1 = x
  OBVIOUS
<1>4. x - 1 \notin T
  BY <1>3
<1>5. <<x - 1, x>> \in R
  BY <1>3 DEF OpToRel
<1> HIDE DEF R
<1> QED BY <1>2, <1>3, <1>4, <1>5

\* A sequence of one element.
LEMMA SingletonSeq ==
  ASSUME NEW W, NEW a \in W
  PROVE  <<a>> \in Seq(W) /\ Len(<<a>>) = 1
OBVIOUS

\* A sequence with one more element in front.
LEMMA PrependSeq ==
  ASSUME NEW W, NEW a \in W, NEW s \in Seq(W)
  PROVE  <<a>> \o s \in Seq(W) /\ <<a>> \o s # <<>>
OBVIOUS

\* f walks up 0 .. n in steps C and collects the elements B it meets.
IsWalk(f, n, B, C) ==
  f = [o \in 0 .. n |-> IF o = n THEN <<>> ELSE <<B[o]>> \o f[o + C[o]]]

\* Such a function exists.
LEMMA WalkExists ==
  ASSUME NEW n \in Nat, NEW W, NEW B, NEW C,
         \A o \in 0 .. n - 1 : B[o] \in W /\ C[o] \in 1 .. n - o
  PROVE  \E f : IsWalk(f, n, B, C)
<1> DEFINE Walk(f, m) ==
             /\ f \in [n - m .. n -> Seq(W)]
             /\ \A o \in n - m .. n : f[o] = IF o = n THEN <<>> ELSE <<B[o]>> \o f[o + C[o]]
           T == {m \in Nat : m <= n => \E f : Walk(f, m)}
<1>1. 0 \in T
  <2> DEFINE e == [o \in n - 0 .. n |-> <<>>]
  <2>1. e \in [n - 0 .. n -> Seq(W)]
    OBVIOUS
  <2>2. \A o \in n - 0 .. n : o = n /\ e[o] = <<>>
    OBVIOUS
  <2> HIDE DEF e
  <2>3. Walk(e, 0)
    BY <2>1, <2>2
  <2> QED BY <2>3
<1>2. ASSUME NEW k \in Nat, k \in T PROVE k + 1 \in T
  <2>k. k + 1 \in Nat /\ (k + 1 <= n => k <= n)
    OBVIOUS
  <2> SUFFICES ASSUME k + 1 <= n PROVE \E f : Walk(f, k + 1)
    <3> HIDE DEF Walk
    <3> QED BY <2>k
  <2>1. PICK f : Walk(f, k)
    <3> HIDE DEF Walk
    <3> QED BY <1>2, <2>k
  <2> DEFINE m == n - (k + 1)
             v == <<B[m]>> \o f[m + C[m]]
             g == [o \in m .. n |-> IF o = m THEN v ELSE f[o]]
  <2>0. m \in 0 .. n - 1 /\ m # n /\ n - k = m + 1
    OBVIOUS
  <2>2. m + C[m] \in n - k .. n /\ B[m] \in W /\ C[m] \in Int
    BY <2>0
  <2>w. f \in [n - k .. n -> Seq(W)]
    BY <2>1
  <2>3. v \in Seq(W)
    <3>1. <<B[m]>> \in Seq(W) /\ f[m + C[m]] \in Seq(W)
      BY <2>2, <2>w
    <3> QED BY <3>1
  <2> HIDE DEF m, v
  <2>4. g \in [m .. n -> Seq(W)]
    BY <2>0, <2>3, <2>w
  <2>5. ASSUME NEW o \in m .. n
        PROVE g[o] = IF o = n THEN <<>> ELSE <<B[o]>> \o g[o + C[o]]
    <3>1. CASE o = m
      <4>1. g[o] = v
        BY <3>1
      <4>2. g[m + C[m]] = f[m + C[m]]
        BY <2>0, <2>2
      <4> QED BY <3>1, <4>1, <4>2, <2>0 DEF v
    <3>2. CASE o # m
      <4>1. o \in n - k .. n /\ g[o] = f[o]
        BY <3>2, <2>0
      <4>2. f[o] = IF o = n THEN <<>> ELSE <<B[o]>> \o f[o + C[o]]
        BY <4>1, <2>1
      <4>3. CASE o # n
        <5>1. o \in 0 .. n - 1
          BY <4>3, <2>0
        <5>2. C[o] \in 1 .. n - o
          BY <5>1
        <5>3. o + C[o] \in m .. n /\ o + C[o] # m
          BY <5>2, <2>0
        <5>4. g[o + C[o]] = f[o + C[o]]
          BY <5>3
        <5> QED BY <4>1, <4>2, <4>3, <5>4
      <4>4. CASE o = n
        BY <4>1, <4>2, <4>4
      <4> QED BY <4>3, <4>4
    <3> QED BY <3>1, <3>2
  <2>6. Walk(g, k + 1)
    BY <2>4, <2>5 DEF m
  <2> QED BY <2>6
<1>3. n \in T
  <2> HIDE DEF T
  <2> QED BY <1>1, <1>2, SetInduction
<1>4. PICK f : Walk(f, n)
  BY <1>3
<1>5. /\ f \in [0 .. n -> Seq(W)]
      /\ \A o \in 0 .. n : f[o] = IF o = n THEN <<>> ELSE <<B[o]>> \o f[o + C[o]]
  <2>1. n - n = 0
    OBVIOUS
  <2>2. Walk(f, n) <=> /\ f \in [n - n .. n -> Seq(W)]
                       /\ \A o \in n - n .. n : f[o] = IF o = n THEN <<>> ELSE <<B[o]>> \o f[o + C[o]]
    OBVIOUS
  <2> HIDE DEF Walk
  <2> QED BY <1>4, <2>1, <2>2
<1>6. IsWalk(f, n, B, C)
  BY <1>5 DEF IsWalk
<1> QED BY <1>6

\* Every such function collects elements of W.
LEMMA WalkType ==
  ASSUME NEW n \in Nat, NEW W, NEW B, NEW C, NEW f,
         \A o \in 0 .. n - 1 : B[o] \in W /\ C[o] \in 1 .. n - o,
         IsWalk(f, n, B, C)
  PROVE  f \in [0 .. n -> Seq(W)]
<1>f. f = [o \in 0 .. n |-> IF o = n THEN <<>> ELSE <<B[o]>> \o f[o + C[o]]]
  BY DEF IsWalk
<1> DEFINE T == {m \in Nat : \A o \in 0 .. n : n - o <= m => f[o] \in Seq(W)}
<1>1. 0 \in T
  <2>1. \A o \in 0 .. n : n - o <= 0 => o = n
    OBVIOUS
  <2>2. f[n] = <<>>
    BY <1>f
  <2>3. <<>> \in Seq(W)
    OBVIOUS
  <2> QED BY <2>1, <2>2, <2>3
<1>2. ASSUME NEW k \in Nat, k \in T PROVE k + 1 \in T
  <2> SUFFICES ASSUME NEW o \in 0 .. n, n - o <= k + 1, o # n PROVE f[o] \in Seq(W)
    <3>1. f[n] \in Seq(W)
      BY <1>1
    <3> QED BY <3>1
  <2>1. o \in 0 .. n - 1
    OBVIOUS
  <2>2. B[o] \in W /\ C[o] \in 1 .. n - o
    BY <2>1
  <2>3. o + C[o] \in 0 .. n /\ n - (o + C[o]) <= k
    BY <2>2
  <2>4. f[o + C[o]] \in Seq(W)
    BY <2>3, <1>2
  <2>5. f[o] = <<B[o]>> \o f[o + C[o]]
    BY <2>1, <1>f
  <2>6. <<B[o]>> \o f[o + C[o]] \in Seq(W)
    BY <2>2, <2>4, PrependSeq
  <2> QED BY <2>5, <2>6
<1>3. n \in T
  <2> HIDE DEF T
  <2> QED BY <1>1, <1>2, SetInduction
<1>4. \A o \in 0 .. n : n - o <= n
  OBVIOUS
<1>5. \A o \in 0 .. n : f[o] \in Seq(W)
  BY <1>3, <1>4
<1> DEFINE g == [o \in 0 .. n |-> IF o = n THEN <<>> ELSE <<B[o]>> \o f[o + C[o]]]
<1>6. f = g /\ g = [o \in 0 .. n |-> g[o]]
  BY <1>f
<1> HIDE DEF g
<1>7. f = [o \in 0 .. n |-> f[o]]
  BY <1>6
<1> QED BY <1>5, <1>7

\* The places o <= y[1] < y[2] < ... < n at which a walk from o collects the
\* elements of s; its steps cover o .. n - 1.
Stations(s, o, n, B, C, y) ==
  /\ y \in [1 .. Len(s) -> o .. n - 1]
  /\ \A k \in 1 .. Len(s) : s[k] = B[y[k]]
  /\ \A j, k \in 1 .. Len(s) : j < k => y[j] < y[k]
  /\ \A x \in o .. n - 1 : \E k \in 1 .. Len(s) : y[k] <= x /\ x < y[k] + C[y[k]]

LEMMA WalkOrder ==
  ASSUME NEW n \in Nat, NEW W, NEW B, NEW C, NEW f,
         \A o \in 0 .. n - 1 : B[o] \in W /\ C[o] \in 1 .. n - o,
         IsWalk(f, n, B, C)
  PROVE  \E y : Stations(f[0], 0, n, B, C, y)
<1>f. f = [o \in 0 .. n |-> IF o = n THEN <<>> ELSE <<B[o]>> \o f[o + C[o]]]
  BY DEF IsWalk
<1>t. f \in [0 .. n -> Seq(W)]
  BY WalkType
<1> DEFINE T == {m \in Nat : \A o \in 0 .. n : n - o <= m => \E y : Stations(f[o], o, n, B, C, y)}
<1>1. ASSUME NEW o \in 0 .. n, o = n PROVE \E y : Stations(f[o], o, n, B, C, y)
  <2>1. f[o] = <<>> /\ Len(<<>>) = 0
    BY <1>1, <1>f
  <2> DEFINE y == [k \in 1 .. 0 |-> k]
  <2>2. 1 .. Len(f[o]) = {} /\ o .. n - 1 = {}
    BY <1>1, <2>1
  <2>3. y \in [{} -> {}]
    OBVIOUS
  <2> HIDE DEF y
  <2>4. Stations(f[o], o, n, B, C, y)
    BY <2>2, <2>3 DEF Stations
  <2> QED BY <2>4
<1>2. 0 \in T
  <2>1. \A o \in 0 .. n : n - o <= 0 => o = n
    OBVIOUS
  <2> QED BY <2>1, <1>1
<1>3. ASSUME NEW i \in Nat, i \in T PROVE i + 1 \in T
  <2> SUFFICES ASSUME NEW o \in 0 .. n, n - o <= i + 1, o # n
               PROVE  \E y : Stations(f[o], o, n, B, C, y)
    BY <1>1
  <2>1. o \in 0 .. n - 1
    OBVIOUS
  <2>2. PICK c \in 1 .. n - o : c = C[o]
    BY <2>1
  <2>3. PICK p : p = o + c
    OBVIOUS
  <2>4. p \in 0 .. n /\ n - p <= i /\ o < p
    BY <2>3
  <2>5. PICK z : Stations(f[p], p, n, B, C, z)
    BY <2>4, <1>3
  <2>6. PICK s \in Seq(W) : s = f[p]
    BY <2>4, <1>t
  <2>7. f[o] = <<B[o]>> \o s /\ B[o] \in W
    BY <2>1, <2>2, <2>3, <2>6, <1>f
  <2>8. PICK l \in Nat : l = Len(s)
    BY <2>6
  <2>9. Len(f[o]) = l + 1 /\ f[o][1] = B[o] /\ \A k \in 1 .. l : f[o][k + 1] = s[k]
    BY <2>7, <2>8
  <2>10. /\ z \in [1 .. l -> p .. n - 1]
         /\ \A k \in 1 .. l : s[k] = B[z[k]]
         /\ \A j, k \in 1 .. l : j < k => z[j] < z[k]
         /\ \A x \in p .. n - 1 : \E k \in 1 .. l : z[k] <= x /\ x < z[k] + C[z[k]]
    BY <2>5, <2>6, <2>8 DEF Stations
  <2> DEFINE y == [k \in 1 .. l + 1 |-> IF k = 1 THEN o ELSE z[k - 1]]
  <2>11. y[1] = o /\ \A k \in 1 .. l : y[k + 1] = z[k]
    <3>1. \A k \in 1 .. l : k + 1 \in 1 .. l + 1 /\ k + 1 # 1 /\ (k + 1) - 1 = k
      OBVIOUS
    <3> QED BY <3>1
  <2>12. \A k \in 1 .. l + 1 : k = 1 \/ (k - 1 \in 1 .. l /\ (k - 1) + 1 = k)
    OBVIOUS
  <2>13. y \in [1 .. l + 1 -> o .. n - 1]
    <3>1. \A k \in 1 .. l : z[k] \in o .. n - 1
      BY <2>4, <2>10
    <3> QED BY <3>1, <2>1, <2>12
  <2> HIDE DEF y
  <2>14. ASSUME NEW k \in 1 .. l + 1 PROVE f[o][k] = B[y[k]]
    <3>1. CASE k = 1
      BY <3>1, <2>9, <2>11
    <3>2. CASE k - 1 \in 1 .. l /\ (k - 1) + 1 = k
      <4>1. f[o][k] = s[k - 1] /\ y[k] = z[k - 1]
        BY <3>2, <2>9, <2>11
      <4> QED BY <4>1, <3>2, <2>10
    <3> QED BY <3>1, <3>2, <2>12
  <2>15. ASSUME NEW j \in 1 .. l + 1, NEW k \in 1 .. l + 1, j < k PROVE y[j] < y[k]
    <3>1. k - 1 \in 1 .. l /\ y[k] = z[k - 1]
      <4>1. k - 1 \in 1 .. l /\ (k - 1) + 1 = k
        BY <2>15
      <4> QED BY <4>1, <2>11
    <3>2. CASE j = 1
      <4>1. z[k - 1] \in p .. n - 1
        BY <3>1, <2>10
      <4> QED BY <4>1, <3>1, <3>2, <2>4, <2>11
    <3>3. CASE j - 1 \in 1 .. l /\ (j - 1) + 1 = j
      <4>1. y[j] = z[j - 1]
        BY <3>3, <2>11
      <4>2. j - 1 < k - 1
        BY <2>15
      <4> QED BY <4>1, <4>2, <3>1, <3>3, <2>10
    <3> QED BY <3>2, <3>3, <2>12
  <2>16. ASSUME NEW x \in o .. n - 1
         PROVE  \E k \in 1 .. l + 1 : y[k] <= x /\ x < y[k] + C[y[k]]
    <3>1. CASE x < p
      <4>1. 1 \in 1 .. l + 1 /\ y[1] <= x /\ x < y[1] + C[y[1]]
        BY <3>1, <2>2, <2>3, <2>11
      <4> QED BY <4>1
    <3>2. CASE p <= x
      <4>0. x \in p .. n - 1
        BY <3>2, <2>4
      <4>1. PICK k \in 1 .. l : z[k] <= x /\ x < z[k] + C[z[k]]
        BY <4>0, <2>10, Zenon
      <4>2. k + 1 \in 1 .. l + 1 /\ y[k + 1] = z[k]
        BY <2>11
      <4> QED BY <4>1, <4>2, Zenon
    <3> QED BY <3>1, <3>2, <2>4
  <2>17. Stations(f[o], o, n, B, C, y)
    BY <2>9, <2>13, <2>14, <2>15, <2>16 DEF Stations
  <2> QED BY <2>17
<1>4. n \in T
  <2> HIDE DEF T
  <2> QED BY <1>2, <1>3, SetInduction
<1>5. 0 \in 0 .. n /\ n - 0 <= n
  OBVIOUS
<1> QED BY <1>4, <1>5

-----------------------------------------------------------------------------
(* Sequences, whatever their elements are.                                 *)

IsSeq(s) == s \in Seq({s[k] : k \in DOMAIN s})

\* Any sequence is one of its own elements.
LEMMA SeqIsSeq ==
  ASSUME NEW S, NEW s \in Seq(S)
  PROVE  IsSeq(s)
BY DEF IsSeq

LEMMA EmptyIsSeq == IsSeq(<<>>) /\ Len(<<>>) = 0
<1> <<>> \in Seq({}) /\ Len(<<>>) = 0
  OBVIOUS
<1> QED BY SeqIsSeq

LEMMA OneIsSeq ==
  ASSUME NEW x
  PROVE  IsSeq(<<x>>) /\ Len(<<x>>) = 1 /\ <<x>>[1] = x
<1> <<x>> \in Seq({x}) /\ Len(<<x>>) = 1 /\ <<x>>[1] = x
  OBVIOUS
<1> QED BY SeqIsSeq

LEMMA LenIsNat ==
  ASSUME NEW s, IsSeq(s)
  PROVE  Len(s) \in Nat /\ DOMAIN s = 1 .. Len(s) /\ (s = <<>> <=> Len(s) = 0)
BY DEF IsSeq

LEMMA AppendIsSeq ==
  ASSUME NEW s, IsSeq(s), NEW x
  PROVE  /\ IsSeq(Append(s, x))
         /\ Len(Append(s, x)) = Len(s) + 1
         /\ \A k \in 1 .. Len(s) : Append(s, x)[k] = s[k]
         /\ Append(s, x)[Len(s) + 1] = x
<1> DEFINE S == {s[k] : k \in DOMAIN s} \cup {x}
<1>1. s \in Seq(S) /\ x \in S
  BY DEF IsSeq
<1> HIDE DEF S
<1>2. Append(s, x) \in Seq(S)
  BY <1>1
<1>3. IsSeq(Append(s, x))
  BY <1>2, SeqIsSeq
<1> QED BY <1>1, <1>3

LEMMA TailIsSeq ==
  ASSUME NEW s, IsSeq(s), s # <<>>
  PROVE  /\ IsSeq(Tail(s))
         /\ Len(Tail(s)) = Len(s) - 1 /\ Len(s) > 0
         /\ \A k \in 1 .. Len(s) - 1 : Tail(s)[k] = s[k + 1]
         /\ Head(s) = s[1]
<1> DEFINE S == {s[k] : k \in DOMAIN s}
<1>1. s \in Seq(S)
  BY DEF IsSeq
<1> HIDE DEF S
<1>2. Tail(s) \in Seq(S)
  BY <1>1
<1>3. IsSeq(Tail(s))
  BY <1>2, SeqIsSeq
<1> QED BY <1>1, <1>3

LEMMA ConcatIsSeq ==
  ASSUME NEW s, IsSeq(s), NEW w, IsSeq(w)
  PROVE  /\ IsSeq(s \o w)
         /\ Len(s \o w) = Len(s) + Len(w)
         /\ \A k \in 1 .. Len(s) : (s \o w)[k] = s[k]
         /\ \A k \in 1 .. Len(w) : (s \o w)[Len(s) + k] = w[k]
<1> DEFINE S == {s[k] : k \in DOMAIN s} \cup {w[k] : k \in DOMAIN w}
<1>1. s \in Seq(S) /\ w \in Seq(S)
  BY DEF IsSeq
<1> HIDE DEF S
<1>2. s \o w \in Seq(S)
  BY <1>1
<1>3. IsSeq(s \o w)
  BY <1>2, SeqIsSeq
<1> QED BY <1>1, <1>3

-----------------------------------------------------------------------------
(* Ports.                                                                  *)

IsPort(p) ==
  /\ p = [reg |-> p.reg, q |-> p.q]
  /\ IsSeq(p.reg) /\ IsSeq(p.q)
  /\ Len(p.reg) <= 1

\* The packets in a port.
Held(p) == {p.q[k] : k \in 1 .. Len(p.q)} \cup {p.reg[k] : k \in 1 .. Len(p.reg)}

LEMMA EmptyIsPort == IsPort(EmptyPort) /\ Held(EmptyPort) = {}
BY EmptyIsSeq DEF IsPort, Held, EmptyPort

LEMMA EnqueueIsPort ==
  ASSUME NEW p, IsPort(p), NEW x
  PROVE  IsPort(Enqueue(p, x)) /\ Held(Enqueue(p, x)) = Held(p) \cup {x}
<1>1. IsPort(Enqueue(p, x))
  BY AppendIsSeq DEF IsPort, Enqueue
<1> DEFINE s == Append(p.q, x)
<1>2. Len(p.q) \in Nat /\ Len(s) = Len(p.q) + 1
      /\ (\A k \in 1 .. Len(p.q) : s[k] = p.q[k]) /\ s[Len(p.q) + 1] = x
  BY AppendIsSeq, LenIsNat DEF IsPort
<1> HIDE DEF s
<1>3. {s[k] : k \in 1 .. Len(s)} = {p.q[k] : k \in 1 .. Len(p.q)} \cup {x}
  <2>1. ASSUME NEW k \in 1 .. Len(s) PROVE s[k] \in {p.q[j] : j \in 1 .. Len(p.q)} \cup {x}
    <3>1. CASE k \in 1 .. Len(p.q)
      BY <3>1, <1>2
    <3>2. CASE k = Len(p.q) + 1
      BY <3>2, <1>2
    <3> QED BY <3>1, <3>2, <1>2
  <2>2. ASSUME NEW k \in 1 .. Len(p.q) PROVE p.q[k] \in {s[j] : j \in 1 .. Len(s)}
    BY <1>2
  <2>3. x \in {s[k] : k \in 1 .. Len(s)}
    BY <1>2
  <2> QED BY <2>1, <2>2, <2>3
<1>4. Enqueue(p, x).q = s /\ Enqueue(p, x).reg = p.reg
  BY DEF Enqueue, s
<1>5. Held(Enqueue(p, x)) = {s[k] : k \in 1 .. Len(s)} \cup {p.reg[k] : k \in 1 .. Len(p.reg)}
  BY <1>4 DEF Held
<1>6. Held(Enqueue(p, x)) = Held(p) \cup {x}
  BY <1>3, <1>5 DEF Held
<1> QED BY <1>1, <1>6

LEMMA ForwardIsPort ==
  ASSUME NEW p, IsPort(p)
  PROVE  IsPort(Forward(p)) /\ Held(Forward(p)) \subseteq Held(p)
BY EmptyIsSeq DEF IsPort, Held, Forward

LEMMA SendIsPort ==
  ASSUME NEW p, IsPort(p)
  PROVE  IsPort(trySendPacket(p)) /\ Held(trySendPacket(p)) = Held(p)
<1>1. CASE p.q # <<>> /\ p.reg = <<>>
  <2> DEFINE n == trySendPacket(p)
  <2>1. n.reg = <<Head(p.q)>> /\ n.q = Tail(p.q) /\ n = [reg |-> n.reg, q |-> n.q]
    BY <1>1 DEF trySendPacket
  <2>2. /\ IsSeq(p.q) /\ Len(p.q) \in Nat /\ Len(p.q) > 0
        /\ IsSeq(Tail(p.q)) /\ Len(Tail(p.q)) = Len(p.q) - 1
        /\ (\A k \in 1 .. Len(p.q) - 1 : Tail(p.q)[k] = p.q[k + 1])
        /\ Head(p.q) = p.q[1]
    BY <1>1, TailIsSeq, LenIsNat DEF IsPort
  <2>3. IsSeq(n.reg) /\ Len(n.reg) = 1 /\ n.reg[1] = p.q[1]
    BY <2>1, <2>2, OneIsSeq
  <2> HIDE DEF n
  <2>4. IsPort(n)
    BY <2>1, <2>2, <2>3 DEF IsPort
  <2>5. Len(p.reg) = 0
    BY <1>1, EmptyIsSeq
  <2>6. {p.q[k] : k \in 1 .. Len(p.q)} = {n.q[k] : k \in 1 .. Len(n.q)} \cup {p.q[1]}
    <3>1. ASSUME NEW k \in 1 .. Len(p.q) PROVE p.q[k] \in {n.q[j] : j \in 1 .. Len(n.q)} \cup {p.q[1]}
      <4>1. CASE k = 1
        BY <4>1
      <4>2. CASE k # 1
        <5>1. k - 1 \in 1 .. Len(n.q) /\ n.q[k - 1] = p.q[k - 1 + 1] /\ k - 1 + 1 = k
          BY <4>2, <2>1, <2>2
        <5> QED BY <5>1
      <4> QED BY <4>1, <4>2
    <3>2. ASSUME NEW k \in 1 .. Len(n.q) PROVE n.q[k] \in {p.q[j] : j \in 1 .. Len(p.q)}
      <4>1. k + 1 \in 1 .. Len(p.q) /\ n.q[k] = p.q[k + 1]
        BY <2>1, <2>2
      <4> QED BY <4>1
    <3>3. p.q[1] \in {p.q[j] : j \in 1 .. Len(p.q)}
      BY <2>2
    <3> QED BY <3>1, <3>2, <3>3
  <2>7. {n.reg[k] : k \in 1 .. Len(n.reg)} = {p.q[1]}
    BY <2>3
  <2>8. {p.reg[k] : k \in 1 .. Len(p.reg)} = {}
    BY <2>5
  <2> QED BY <2>4, <2>6, <2>7, <2>8 DEF Held, n
<1>2. CASE ~ (p.q # <<>> /\ p.reg = <<>>)
  BY <1>2 DEF trySendPacket
<1> QED BY <1>1, <1>2

\* Transaction ids tell the packets of a port apart.
Distinct(p) ==
  /\ \A i, j \in 1 .. Len(p.q) : p.q[i].tid = p.q[j].tid => i = j
  /\ \A i \in 1 .. Len(p.q) : \A j \in 1 .. Len(p.reg) : p.q[i].tid # p.reg[j].tid

LEMMA EmptyDistinct == Distinct(EmptyPort)
BY EmptyIsSeq DEF Distinct, EmptyPort

LEMMA SendDistinct ==
  ASSUME NEW p, IsPort(p), Distinct(p)
  PROVE  Distinct(trySendPacket(p))
<1>1. CASE p.q # <<>> /\ p.reg = <<>>
  <2>0. PICK l \in Nat : l = Len(p.q)
    BY LenIsNat DEF IsPort
  <2>1. PICK s : s = p.q
    OBVIOUS
  <2>2. PICK b, u : b = <<Head(s)>> /\ u = Tail(s)
    OBVIOUS
  <2>3. trySendPacket(p).reg = b /\ trySendPacket(p).q = u
    BY <1>1, <2>1, <2>2 DEF trySendPacket
  <2>4. /\ l > 0 /\ Len(u) = l - 1 /\ Len(b) = 1 /\ b[1] = s[1]
        /\ \A k \in 1 .. l - 1 : u[k] = s[k + 1]
    BY <1>1, <2>0, <2>1, <2>2, TailIsSeq, OneIsSeq DEF IsPort
  <2>5. \A i, j \in 1 .. l : s[i].tid = s[j].tid => i = j
    BY <2>0, <2>1 DEF Distinct
  <2>6. \A i, j \in 1 .. Len(u) : u[i].tid = u[j].tid => i = j
    <3> SUFFICES ASSUME NEW i \in 1 .. l - 1, NEW j \in 1 .. l - 1, u[i].tid = u[j].tid PROVE i = j
      BY <2>4
    <3>1. i + 1 \in 1 .. l /\ j + 1 \in 1 .. l /\ u[i] = s[i + 1] /\ u[j] = s[j + 1]
      BY <2>4
    <3>2. i + 1 = j + 1
      BY <3>1, <2>5
    <3> QED BY <3>2
  <2>7. \A i \in 1 .. Len(u) : \A j \in 1 .. Len(b) : u[i].tid # b[j].tid
    <3> SUFFICES ASSUME NEW i \in 1 .. l - 1, u[i].tid = s[1].tid PROVE FALSE
      BY <2>4
    <3>1. i + 1 \in 1 .. l /\ 1 \in 1 .. l /\ u[i] = s[i + 1]
      BY <2>4
    <3>2. i + 1 = 1
      BY <3>1, <2>5
    <3> QED BY <3>2
  <2> QED BY <2>3, <2>6, <2>7 DEF Distinct
<1>2. CASE ~ (p.q # <<>> /\ p.reg = <<>>)
  BY <1>2 DEF trySendPacket
<1> QED BY <1>1, <1>2

\* The crossbar takes the only packet with its transaction id.
LEMMA ForwardDistinct ==
  ASSUME NEW p, IsPort(p), Distinct(p), p.reg # <<>>
  PROVE  /\ Distinct(Forward(p))
         /\ Held(p) = Held(Forward(p)) \cup {p.reg[1]}
         /\ \A x \in Held(Forward(p)) : x.tid # p.reg[1].tid
<1>1. Len(p.reg) = 1
  <2>1. PICK l : l = Len(p.reg)
    OBVIOUS
  <2>2. l \in Nat /\ l # 0 /\ l <= 1
    BY <2>1, LenIsNat DEF IsPort
  <2>3. l = 1
    BY <2>2
  <2> QED BY <2>1, <2>3
<1>2. Forward(p).q = p.q /\ Forward(p).reg = <<>> /\ Len(<<>>) = 0
  BY EmptyIsSeq DEF Forward
<1>3. Held(Forward(p)) = {p.q[k] : k \in 1 .. Len(p.q)}
  BY <1>2 DEF Held
<1>4. Held(p) = {p.q[k] : k \in 1 .. Len(p.q)} \cup {p.reg[1]}
  BY <1>1 DEF Held
<1>5. Distinct(Forward(p))
  BY <1>2 DEF Distinct
<1>6. \A k \in 1 .. Len(p.q) : p.q[k].tid # p.reg[1].tid
  BY <1>1 DEF Distinct
<1> QED BY <1>3, <1>4, <1>5, <1>6

\* New packets are queued behind the others.
LEMMA QueueDistinct ==
  ASSUME NEW p, IsPort(p), Distinct(p), NEW w, IsSeq(w),
         \A i, j \in 1 .. Len(w) : w[i].tid = w[j].tid => i = j,
         \A i \in 1 .. Len(w) : \A x \in Held(p) : w[i].tid # x.tid,
         NEW s, IsSeq(s), Len(s) = Len(p.q) + Len(w),
         \A k \in 1 .. Len(p.q) : s[k] = p.q[k],
         \A k \in 1 .. Len(w) : s[Len(p.q) + k] = w[k]
  PROVE  Distinct([reg |-> p.reg, q |-> s])
<1>0. PICK l \in Nat, m \in Nat : l = Len(p.q) /\ m = Len(w)
  BY LenIsNat DEF IsPort
<1>1. PICK u, r : u = p.q /\ r = p.reg
  OBVIOUS
<1>2. /\ Len(s) = l + m
      /\ \A k \in 1 .. l : s[k] = u[k]
      /\ \A k \in 1 .. m : s[l + k] = w[k]
      /\ \A i, j \in 1 .. l : u[i].tid = u[j].tid => i = j
      /\ \A i, j \in 1 .. m : w[i].tid = w[j].tid => i = j
      /\ \A i \in 1 .. l : \A j \in 1 .. Len(r) : u[i].tid # r[j].tid
  BY <1>0, <1>1 DEF Distinct
<1>3. \A i \in 1 .. m : \A j \in 1 .. l : w[i].tid # u[j].tid
  BY <1>0, <1>1 DEF Held
<1>4. \A i \in 1 .. m : \A j \in 1 .. Len(r) : w[i].tid # r[j].tid
  BY <1>0, <1>1 DEF Held
<1>5. ASSUME NEW i \in 1 .. l + m
      PROVE  \/ i \in 1 .. l /\ s[i] = u[i]
             \/ i - l \in 1 .. m /\ s[i] = w[i - l]
  <2>1. CASE i <= l
    BY <2>1, <1>2
  <2>2. CASE i > l
    <3>1. i - l \in 1 .. m /\ l + (i - l) = i
      BY <2>2
    <3> QED BY <3>1, <1>2
  <2> QED BY <2>1, <2>2
<1>6. ASSUME NEW i \in 1 .. l + m, NEW j \in 1 .. l + m, s[i].tid = s[j].tid PROVE i = j
  <2>1. CASE i \in 1 .. l /\ s[i] = u[i] /\ j \in 1 .. l /\ s[j] = u[j]
    BY <2>1, <1>6, <1>2
  <2>2. CASE i - l \in 1 .. m /\ s[i] = w[i - l] /\ j - l \in 1 .. m /\ s[j] = w[j - l]
    <3>1. i - l = j - l
      BY <2>2, <1>6, <1>2
    <3> QED BY <3>1
  <2>3. CASE i \in 1 .. l /\ s[i] = u[i] /\ j - l \in 1 .. m /\ s[j] = w[j - l]
    BY <2>3, <1>6, <1>3
  <2>4. CASE i - l \in 1 .. m /\ s[i] = w[i - l] /\ j \in 1 .. l /\ s[j] = u[j]
    BY <2>4, <1>6, <1>3
  <2> QED BY <2>1, <2>2, <2>3, <2>4, <1>5
<1>7. ASSUME NEW i \in 1 .. l + m, NEW j \in 1 .. Len(r) PROVE s[i].tid # r[j].tid
  <2>1. CASE i \in 1 .. l /\ s[i] = u[i]
    BY <2>1, <1>2
  <2>2. CASE i - l \in 1 .. m /\ s[i] = w[i - l]
    BY <2>2, <1>4
  <2> QED BY <2>1, <2>2, <1>5
<1>8. Distinct([reg |-> r, q |-> s])
  BY <1>2, <1>6, <1>7 DEF Distinct
<1> QED BY <1>8, <1>1

LEMMA EnqueueDistinct ==
  ASSUME NEW p, IsPort(p), Distinct(p), NEW x, \A y \in Held(p) : x.tid # y.tid
  PROVE  Distinct(Enqueue(p, x))
<1>1. PICK w : w = <<x>>
  OBVIOUS
<1>2. IsSeq(w) /\ Len(w) = 1 /\ w[1] = x
  BY <1>1, OneIsSeq
<1>3. IsSeq(p.q)
  BY DEF IsPort
<1>0. PICK n \in Nat : n = Len(p.q)
  BY <1>3, LenIsNat
<1>4. PICK s : s = Append(p.q, x)
  OBVIOUS
<1>5. /\ IsSeq(s) /\ Len(s) = n + 1
      /\ \A k \in 1 .. n : s[k] = p.q[k]
      /\ s[n + 1] = x
  BY <1>0, <1>3, <1>4, AppendIsSeq
<1>6. \A k \in 1 .. Len(w) : s[n + k] = w[k]
  BY <1>2, <1>5
<1>7. Distinct([reg |-> p.reg, q |-> s])
  <2>1. Len(s) = Len(p.q) + Len(w)
    BY <1>2, <1>0, <1>5
  <2>2. \A k \in 1 .. Len(p.q) : s[k] = p.q[k]
    BY <1>0, <1>5
  <2>3. \A k \in 1 .. Len(w) : s[Len(p.q) + k] = w[k]
    BY <1>0, <1>6
  <2>4. \A i, j \in 1 .. Len(w) : w[i].tid = w[j].tid => i = j
    BY <1>2
  <2>5. \A i \in 1 .. Len(w) : \A y \in Held(p) : w[i].tid # y.tid
    BY <1>2
  <2> QED BY <1>2, <1>5, <2>1, <2>2, <2>3, <2>4, <2>5, QueueDistinct
<1> QED BY <1>4, <1>7 DEF Enqueue

\* A packet put into the free register.
LEMMA RegisterDistinct ==
  ASSUME NEW p, IsPort(p), Distinct(p), p.reg = <<>>, NEW x, \A y \in Held(p) : x.tid # y.tid
  PROVE  /\ IsPort([reg |-> <<x>>, q |-> p.q])
         /\ Distinct([reg |-> <<x>>, q |-> p.q])
         /\ Held([reg |-> <<x>>, q |-> p.q]) = Held(p) \cup {x}
<1>1. PICK w, u : w = <<x>> /\ u = p.q
  OBVIOUS
<1>2. IsSeq(w) /\ Len(w) = 1 /\ w[1] = x
  BY <1>1, OneIsSeq
<1>3. IsSeq(u) /\ (\A i, j \in 1 .. Len(u) : u[i].tid = u[j].tid => i = j)
  BY <1>1 DEF IsPort, Distinct
<1>4. Held(p) = {u[k] : k \in 1 .. Len(u)}
  BY <1>1, EmptyIsSeq DEF Held
<1>0. PICK n : n = [reg |-> w, q |-> u]
  OBVIOUS
<1>5. n.reg = w /\ n.q = u /\ n = [reg |-> n.reg, q |-> n.q]
  BY <1>0
<1>6. IsPort(n)
  <2>1. Len(w) <= 1
    BY <1>2
  <2> QED BY <2>1, <1>2, <1>3, <1>5, Zenon DEF IsPort
<1>7. Held(n) = Held(p) \cup {x}
  <2>1. {w[k] : k \in 1 .. Len(w)} = {x}
    BY <1>2
  <2>2. Held(n) = {u[k] : k \in 1 .. Len(u)} \cup {w[k] : k \in 1 .. Len(w)}
    BY <1>5, Zenon DEF Held
  <2> QED BY <2>1, <2>2, <1>4
<1>8. Distinct(n)
  <2>1. \A i \in 1 .. Len(u) : u[i] \in Held(p)
    BY <1>4
  <2>2. \A i \in 1 .. Len(u) : u[i].tid # x.tid
    BY <2>1
  <2>3. \A i \in 1 .. Len(u) : \A j \in 1 .. Len(w) : u[i].tid # w[j].tid
    BY <2>2, <1>2
  <2> QED BY <2>3, <1>3, <1>5, Zenon DEF Distinct
<1> QED BY <1>0, <1>6, <1>7, <1>8, <1>1, Zenon

\* Packets with new transaction ids that are pushed one after the other.
LEMMA PushOrQueueDistinct ==
  ASSUME NEW p, IsPort(p), Distinct(p), NEW x, \A y \in Held(p) : x.tid # y.tid
  PROVE  Distinct(PushOrQueue(p, x))
<1>1. CASE p.reg = <<>>
  BY <1>1, RegisterDistinct DEF PushOrQueue
<1>2. CASE p.reg # <<>>
  BY <1>2, EnqueueDistinct DEF PushOrQueue, Enqueue
<1> QED BY <1>1, <1>2

LEMMA PushAllDistinct ==
  ASSUME NEW p, IsPort(p), Distinct(p), NEW w, IsSeq(w), w # <<>>,
         \A i, j \in 1 .. Len(w) : w[i].tid = w[j].tid => i = j,
         \A i \in 1 .. Len(w) : \A x \in Held(p) : w[i].tid # x.tid
  PROVE  Distinct(PushAll(p, w))
<1>0. IsSeq(p.q)
  BY DEF IsPort
<1>1. CASE p.reg # <<>>
  <2>1. PICK s : s = p.q \o w
    OBVIOUS
  <2>2. /\ IsSeq(s) /\ Len(s) = Len(p.q) + Len(w)
        /\ \A k \in 1 .. Len(p.q) : s[k] = p.q[k]
        /\ \A k \in 1 .. Len(w) : s[Len(p.q) + k] = w[k]
    BY <1>0, <2>1, ConcatIsSeq
  <2>3. Distinct([reg |-> p.reg, q |-> s])
    BY <2>2, QueueDistinct
  <2> QED BY <1>1, <2>1, <2>3 DEF PushAll
<1>2. CASE p.reg = <<>>
  <2>1. PICK t, x : t = Tail(w) /\ x = Head(w)
    OBVIOUS
  <2>2. PICK m \in Nat : m = Len(w)
    BY LenIsNat
  <2>3. /\ IsSeq(t) /\ Len(t) = m - 1 /\ m > 0 /\ x = w[1]
        /\ \A k \in 1 .. m - 1 : t[k] = w[k + 1]
    BY <2>1, <2>2, TailIsSeq
  <2>4. \A y \in Held(p) : x.tid # y.tid
    BY <2>2, <2>3
  <2>5. PICK r : r = [reg |-> <<x>>, q |-> p.q]
    OBVIOUS
  <2>6. IsPort(r) /\ Distinct(r) /\ Held(r) = Held(p) \cup {x}
    BY <1>2, <2>4, <2>5, RegisterDistinct
  <2>7. r.q = p.q /\ r.reg = <<x>>
    BY <2>5
  <2>8. \A i, j \in 1 .. Len(t) : t[i].tid = t[j].tid => i = j
    <3> SUFFICES ASSUME NEW i \in 1 .. m - 1, NEW j \in 1 .. m - 1, t[i].tid = t[j].tid PROVE i = j
      BY <2>3
    <3>1. i + 1 \in 1 .. m /\ j + 1 \in 1 .. m /\ t[i] = w[i + 1] /\ t[j] = w[j + 1]
      BY <2>3
    <3>2. i + 1 = j + 1
      BY <3>1, <2>2
    <3> QED BY <3>2
  <2>9. \A i \in 1 .. Len(t) : \A y \in Held(r) : t[i].tid # y.tid
    <3> SUFFICES ASSUME NEW i \in 1 .. m - 1, NEW y \in Held(r), t[i].tid = y.tid PROVE FALSE
      BY <2>3
    <3>1. i + 1 \in 1 .. m /\ 1 \in 1 .. m /\ t[i] = w[i + 1] /\ i + 1 # 1
      BY <2>3
    <3>2. y # x
      BY <3>1, <2>2, <2>3
    <3>3. y \in Held(p)
      BY <3>2, <2>6
    <3> QED BY <3>1, <3>3, <2>2
  <2>10. PICK s : s = p.q \o t
    OBVIOUS
  <2>11. /\ IsSeq(s) /\ Len(s) = Len(r.q) + Len(t)
         /\ \A k \in 1 .. Len(r.q) : s[k] = r.q[k]
         /\ \A k \in 1 .. Len(t) : s[Len(r.q) + k] = t[k]
    <3>1. /\ IsSeq(p.q \o t) /\ Len(p.q \o t) = Len(p.q) + Len(t)
          /\ \A k \in 1 .. Len(p.q) : (p.q \o t)[k] = p.q[k]
          /\ \A k \in 1 .. Len(t) : (p.q \o t)[Len(p.q) + k] = t[k]
      <4>1. IsSeq(t)
        BY <2>3
      <4> QED BY <1>0, <4>1, ConcatIsSeq
    <3> QED BY <3>1, <2>7, <2>10, Zenon
  <2>12. Distinct([reg |-> r.reg, q |-> s])
    BY <2>3, <2>6, <2>8, <2>9, <2>11, QueueDistinct
  <2> QED BY <1>2, <2>1, <2>7, <2>10, <2>12 DEF PushAll
<1> QED BY <1>1, <1>2

-----------------------------------------------------------------------------
(* Counting positions of a sequence.                                       *)

LEMMA CountIsNat ==
  ASSUME NEW n \in Nat, NEW A \in SUBSET (1 .. n)
  PROVE  IsFiniteSet(A) /\ Cardinality(A) \in Nat
<1>1. IsFiniteSet(1 .. n)
  BY FS_Interval
<1>2. IsFiniteSet(A)
  BY <1>1, FS_Subset
<1> QED BY <1>2, FS_CardinalityType

\* One position more at the end ...
LEMMA CountAppend ==
  ASSUME NEW n \in Nat, NEW A \in SUBSET (1 .. n), NEW B \in SUBSET (1 .. n + 1),
         \A k \in 1 .. n : k \in A <=> k \in B
  PROVE  Cardinality(B) = Cardinality(A) + (IF n + 1 \in B THEN 1 ELSE 0)
<1>1. IsFiniteSet(A) /\ Cardinality(A) \in Nat
  BY CountIsNat
<1>2. n + 1 \notin A /\ \A k \in B : k = n + 1 \/ k \in A
  OBVIOUS
<1>3. CASE n + 1 \in B
  <2>1. B = A \cup {n + 1}
    BY <1>2, <1>3
  <2> QED BY <1>1, <1>2, <1>3, <2>1, FS_AddElement
<1>4. CASE n + 1 \notin B
  <2>1. B = A
    BY <1>2, <1>4
  <2> QED BY <1>1, <1>4, <2>1
<1> QED BY <1>3, <1>4

\* ... and one less at the front.
LEMMA CountTail ==
  ASSUME NEW n \in Nat \ {0}, NEW A \in SUBSET (1 .. n), NEW B \in SUBSET (1 .. n - 1),
         \A k \in 1 .. n - 1 : k \in B <=> k + 1 \in A
  PROVE  Cardinality(A) = Cardinality(B) + (IF 1 \in A THEN 1 ELSE 0)
<1>1. /\ IsFiniteSet(A) /\ Cardinality(A) \in Nat
      /\ n - 1 \in Nat /\ IsFiniteSet(B) /\ Cardinality(B) \in Nat
  <2>1. n \in Nat /\ n - 1 \in Nat
    OBVIOUS
  <2>2. IsFiniteSet(A) /\ Cardinality(A) \in Nat
    BY <2>1, CountIsNat
  <2>3. \E m \in Nat : B \in SUBSET (1 .. m)
    BY <2>1
  <2>4. IsFiniteSet(B) /\ Cardinality(B) \in Nat
    BY <2>3, CountIsNat
  <2> QED BY <2>1, <2>2, <2>4
<1> DEFINE C == A \ {1}
           g == [k \in B |-> k + 1]
<1>2. g \in [B -> C]
  OBVIOUS
<1>3. \A j, k \in B : g[j] = g[k] => j = k
  OBVIOUS
<1>4. ASSUME NEW c \in C PROVE \E k \in B : g[k] = c
  <2>1. c - 1 \in 1 .. n - 1 /\ (c - 1) + 1 = c
    OBVIOUS
  <2>2. c - 1 \in B
    BY <2>1
  <2> QED BY <2>1, <2>2
<1> HIDE DEF C, g
<1>5. g \in Bijection(B, C)
  BY <1>2, <1>3, <1>4 DEF Bijection, Injection, Surjection, IsInjective
<1>6. ExistsBijection(B, C)
  BY <1>5 DEF ExistsBijection
<1>7. Cardinality(C) = Cardinality(B)
  BY <1>1, <1>6, FS_Bijection
<1>8. Cardinality(C) = IF 1 \in A THEN Cardinality(A) - 1 ELSE Cardinality(A)
  BY <1>1, FS_RemoveElement DEF C
<1> QED BY <1>1, <1>7, <1>8

=============================================================================
