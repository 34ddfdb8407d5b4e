----------------------------- MODULE CpuProofs -----------------------------
(***************************************************************************)
(* Proofs about the CPU and its CFU at the width of the code: lanes of     *)
(* eight bits, words of 32.  The first half is about get_result and any of *)
(* the 2^64 pairs of operands; the second shows that the CPU runs one      *)
(* instruction at a time, whatever the order of events and responses.      *)
(***************************************************************************)
EXTENDS MCCfu, Emulator, SeqLemmas

\* The width of CFU.cc: int8_t lanes, int16_t double lanes.
RealWidth == LaneBits = 8

\* Lane i, or double lane i, of x before it is read as a signed number.
Lane(x, i) ==
  CASE i = 0 -> x % 256
    [] i = 1 -> (x \div 256) % 256
    [] i = 2 -> (x \div 65536) % 256
    [] i = 3 -> (x \div 16777216) % 256

DoubleLane(x, i) ==
  CASE i = 0 -> x % 65536
    [] i = 1 -> (x \div 65536) % 65536

\* Four bytes, or two halves, shifted to their places.
Bytes(a, b, c, d) == a + b * 256 + c * 65536 + d * 16777216
Halves(a, b)      == a + b * 65536

Sign8(v)  == IF v >= 128 THEN v - 256 ELSE v
Sign16(v) == IF v >= 32768 THEN v - 65536 ELSE v

-----------------------------------------------------------------------------
(* The definitions at this width.                                          *)

LEMMA Powers ==
  ASSUME RealWidth
  PROVE  /\ 2^LaneBits = 256 /\ 2^(LaneBits - 1) = 128
         /\ 2^(2 * LaneBits) = 65536 /\ 2^(2 * LaneBits - 1) = 32768
         /\ 2^(3 * LaneBits) = 16777216 /\ 2^Width = 4294967296
         /\ 2^(0 * LaneBits) = 1 /\ 2^(1 * LaneBits) = 256
         /\ 2^(0 * (2 * LaneBits)) = 1 /\ 2^(1 * (2 * LaneBits)) = 65536
<1>1. 2^0 = 1 /\ 2^7 = 128 /\ 2^8 = 256 /\ 2^15 = 32768 /\ 2^16 = 65536 /\ 2^24 = 16777216
      /\ 2^32 = 4294967296
  BY SMT
<1>2. LaneBits = 8 /\ LaneBits - 1 = 7 /\ 2 * LaneBits = 16 /\ 2 * LaneBits - 1 = 15 /\ 3 * LaneBits = 24
      /\ 0 * LaneBits = 0 /\ 1 * LaneBits = 8 /\ 0 * (2 * LaneBits) = 0 /\ 1 * (2 * LaneBits) = 16
      /\ Width = 32
  BY SMT DEF RealWidth, Width
<1> QED BY <1>1, <1>2, SMT

LEMMA Words == ASSUME RealWidth, NEW x \in Word PROVE x \in Nat /\ x < 4294967296
BY Powers, SMT DEF Word

LEMMA Signs ==
  ASSUME RealWidth, NEW v \in Int
  PROVE  /\ Signed(v, LaneBits) = Sign8(v) /\ Signed(v, 2 * LaneBits) = Sign16(v)
         /\ Unsigned(v, LaneBits) = v % 256 /\ Unsigned(v, 2 * LaneBits) = v % 65536
<1>1. Signed(v, LaneBits) = IF v >= 2^(LaneBits - 1) THEN v - 2^LaneBits ELSE v
  BY SMT DEF Signed
<1>2. Signed(v, LaneBits) = Sign8(v)
  BY <1>1, Powers, SMT DEF Sign8
<1>3. Signed(v, 2 * LaneBits) = IF v >= 2^(2 * LaneBits - 1) THEN v - 2^(2 * LaneBits) ELSE v
  BY SMT DEF Signed
<1>4. Signed(v, 2 * LaneBits) = Sign16(v)
  BY <1>3, Powers, SMT DEF Sign16
<1>5. Unsigned(v, LaneBits) = v % 256 /\ Unsigned(v, 2 * LaneBits) = v % 65536
  BY Powers, SMT DEF Unsigned
<1> QED BY <1>2, <1>4, <1>5, SMT

LEMMA Parts ==
  ASSUME RealWidth, NEW x \in Nat
  PROVE  /\ \A i \in 0 .. 3 : Part(x, i, LaneBits) = Sign8(Lane(x, i))
         /\ \A i \in 0 .. 1 : Part(x, i, 2 * LaneBits) = Sign16(DoubleLane(x, i))
<1>1. ASSUME NEW i \in 0 .. 3 PROVE Part(x, i, LaneBits) = Sign8(Lane(x, i))
  <2>1. PICK u \in Int : u = (x \div 2^(i * LaneBits)) % 2^LaneBits /\ u = Lane(x, i)
    <3>1. CASE i = 0
      BY <3>1, Powers, SMT DEF Lane
    <3>2. CASE i = 1
      BY <3>2, Powers, SMT DEF Lane
    <3>3. CASE i = 2
      BY <3>3, Powers, SMT DEF Lane
    <3>4. CASE i = 3
      BY <3>4, Powers, SMT DEF Lane
    <3> QED BY <3>1, <3>2, <3>3, <3>4, SMT
  <2>2. Part(x, i, LaneBits) = Signed(u, LaneBits)
    BY <2>1, SMT DEF Part
  <2> QED BY <2>1, <2>2, Signs, SMT
<1>2. ASSUME NEW i \in 0 .. 1 PROVE Part(x, i, 2 * LaneBits) = Sign16(DoubleLane(x, i))
  <2>1. PICK u \in Int :
          u = (x \div 2^(i * (2 * LaneBits))) % 2^(2 * LaneBits) /\ u = DoubleLane(x, i)
    <3>1. CASE i = 0
      BY <3>1, Powers, SMT DEF DoubleLane
    <3>2. CASE i = 1
      BY <3>2, Powers, SMT DEF DoubleLane
    <3> QED BY <3>1, <3>2, SMT
  <2>2. Part(x, i, 2 * LaneBits) = Signed(u, 2 * LaneBits)
    BY <2>1, SMT DEF Part
  <2> QED BY <2>1, <2>2, Signs, SMT
<1> QED BY <1>1, <1>2, SMT

LEMMA Packed ==
  ASSUME RealWidth
  PROVE  /\ \A r \in [0 .. 3 -> Int] : Lanes(r) = r[0] + r[1] * 256 + r[2] * 65536 + r[3] * 16777216
         /\ \A r \in [0 .. 1 -> Int] : DoubleLanes(r) = r[0] + r[1] * 65536
<1>1. ASSUME NEW r \in [0 .. 3 -> Int]
      PROVE  Lanes(r) = r[0] + r[1] * 256 + r[2] * 65536 + r[3] * 16777216
  BY Powers, SMT DEF Lanes
<1>2. ASSUME NEW r \in [0 .. 1 -> Int] PROVE DoubleLanes(r) = r[0] + r[1] * 65536
  BY Powers, SMT DEF DoubleLanes
<1> QED BY <1>1, <1>2, SMT

-----------------------------------------------------------------------------
(* Lanes and words.                                                        *)

\* Bytes shifted to their places are the lanes there.
LEMMA LanesOfBytes ==
  ASSUME NEW a \in Nat, a < 256, NEW b \in Nat, b < 256,
         NEW c \in Nat, c < 256, NEW d \in Nat, d < 256
  PROVE  /\ Lane(Bytes(a, b, c, d), 0) = a /\ Lane(Bytes(a, b, c, d), 1) = b
         /\ Lane(Bytes(a, b, c, d), 2) = c /\ Lane(Bytes(a, b, c, d), 3) = d
<1>1. PICK x \in Nat : x = a + b * 256 + c * 65536 + d * 16777216
  BY SMT
<1> USE <1>1
<1>2. x % 256 = a /\ x \div 256 = b + c * 256 + d * 65536
  BY SMT
<1>3. PICK y \in Nat : y = b + c * 256 + d * 65536
  BY SMT
<1>4. y % 256 = b /\ y \div 256 = c + d * 256
  BY <1>3, SMT
<1>5. PICK z \in Nat : z = c + d * 256
  BY SMT
<1>6. z % 256 = c /\ z \div 256 = d
  BY <1>5, SMT
<1>7. x \div 65536 = z
  BY <1>5, SMT
<1>8. x \div 16777216 = d /\ d % 256 = d
  BY SMT
<1>9. Lane(x, 0) = a /\ Lane(x, 1) = b /\ Lane(x, 2) = c /\ Lane(x, 3) = d
  BY <1>2, <1>3, <1>4, <1>5, <1>6, <1>7, <1>8, SMT DEF Lane
<1> QED BY <1>9, SMT DEF Bytes

LEMMA LanesOfHalves ==
  ASSUME NEW a \in Nat, a < 65536, NEW b \in Nat, b < 65536
  PROVE  DoubleLane(Halves(a, b), 0) = a /\ DoubleLane(Halves(a, b), 1) = b
<1>1. PICK x \in Nat : x = a + b * 65536
  BY SMT
<1> USE <1>1
<1>2. x % 65536 = a
  BY SMT
<1>3. x \div 65536 = b
  BY SMT
<1>4. b % 65536 = b
  BY SMT
<1>5. DoubleLane(x, 0) = a /\ DoubleLane(x, 1) = b
  BY <1>2, <1>3, <1>4, SMT DEF DoubleLane
<1> QED BY <1>5, SMT DEF Halves

\* A word is its lanes, shifted to their places.
LEMMA Reassembled ==
  ASSUME NEW x \in Nat, x < 4294967296
  PROVE  /\ Lane(x, 0) \in Nat /\ Lane(x, 0) < 256 /\ Lane(x, 1) \in Nat /\ Lane(x, 1) < 256
         /\ Lane(x, 2) \in Nat /\ Lane(x, 2) < 256 /\ Lane(x, 3) \in Nat /\ Lane(x, 3) < 256
         /\ x = Lane(x, 0) + Lane(x, 1) * 256 + Lane(x, 2) * 65536 + Lane(x, 3) * 16777216
<1>1. PICK y \in Nat : y = x \div 256
  BY SMT
<1>2. PICK z \in Nat : z = y \div 256
  BY SMT
<1>3. PICK w \in Nat : w = z \div 256
  BY SMT
<1>4. x = (x % 256) + y * 256 /\ y = (y % 256) + z * 256 /\ z = (z % 256) + w * 256
  BY <1>1, <1>2, <1>3, SMT
<1>5. z = x \div 65536 /\ w = x \div 16777216
  BY <1>4, SMT
<1>6. w % 256 = w
  BY <1>3, <1>4, SMT
<1>7. Lane(x, 0) = x % 256 /\ Lane(x, 1) = y % 256 /\ Lane(x, 2) = z % 256 /\ Lane(x, 3) = w
  BY <1>1, <1>5, <1>6, SMT DEF Lane
<1>8. w < 256
  BY <1>6, SMT
<1>9. PICK p \in Nat, q \in Nat, r \in Nat :
        p = x % 256 /\ q = y % 256 /\ r = z % 256 /\ p < 256 /\ q < 256 /\ r < 256
  BY SMT
<1>10. x = p + q * 256 + r * 65536 + w * 16777216
  <2>1. x = p + y * 256 /\ y = q + z * 256 /\ z = r + w * 256
    BY <1>4, <1>9, SMT
  <2> QED BY <2>1, SMT
<1>11. Lane(x, 0) = p /\ Lane(x, 1) = q /\ Lane(x, 2) = r /\ Lane(x, 3) = w
  BY <1>7, <1>9, SMT
<1> QED BY <1>8, <1>9, <1>10, <1>11, SMT

LEMMA ReassembledHalves ==
  ASSUME NEW x \in Nat, x < 4294967296
  PROVE  /\ DoubleLane(x, 0) \in Nat /\ DoubleLane(x, 0) < 65536
         /\ DoubleLane(x, 1) \in Nat /\ DoubleLane(x, 1) < 65536
         /\ x = DoubleLane(x, 0) + DoubleLane(x, 1) * 65536
<1>1. PICK z \in Nat : z = x \div 65536
  BY SMT
<1>2. z < 65536
  BY <1>1, SMT
<1>3. z % 65536 = z
  BY <1>2, SMT
<1>4. DoubleLane(x, 0) = x % 65536
  BY SMT DEF DoubleLane
<1>5. DoubleLane(x, 1) = z
  BY <1>1, <1>3, SMT DEF DoubleLane
<1>6. x = (x % 65536) + z * 65536
  BY <1>1, SMT
<1>7. x % 65536 \in Nat /\ x % 65536 < 65536
  BY <1>1, <1>6, SMT
<1> QED BY <1>2, <1>4, <1>5, <1>6, <1>7, SMT

\* Signed and unsigned numbers of a lane correspond.
LEMMA SignOfByte ==
  ASSUME NEW u \in Nat, u < 256
  PROVE  Sign8(u) \in Int /\ Sign8(u) >= -128 /\ Sign8(u) < 128 /\ Sign8(u) % 256 = u
BY SMT DEF Sign8

LEMMA SignOfHalf ==
  ASSUME NEW u \in Nat, u < 65536
  PROVE  Sign16(u) \in Int /\ Sign16(u) >= -32768 /\ Sign16(u) < 32768 /\ Sign16(u) % 65536 = u
<1>1. CASE u >= 32768
  <2>1. Sign16(u) = u - 65536
    BY <1>1, SMT DEF Sign16
  <2>2. (u - 65536) % 65536 = u
    BY SMT
  <2> QED BY <1>1, <2>1, <2>2, SMT
<1>2. CASE u < 32768
  <2>1. Sign16(u) = u
    BY <1>2, SMT DEF Sign16
  <2>2. u % 65536 = u
    BY SMT
  <2> QED BY <1>2, <2>1, <2>2, SMT
<1> QED BY <1>1, <1>2, SMT

LEMMA ByteOfSign ==
  ASSUME NEW v \in Int, v >= -128, v < 128
  PROVE  v % 256 \in Nat /\ v % 256 < 256 /\ Sign8(v % 256) = v
BY SMT DEF Sign8

LEMMA HalfOfSign ==
  ASSUME NEW v \in Int, v >= -32768, v < 32768
  PROVE  v % 65536 \in Nat /\ v % 65536 < 65536 /\ Sign16(v % 65536) = v
<1>1. CASE v >= 0
  <2>1. v % 65536 = v
    BY <1>1, SMT
  <2> QED BY <1>1, <2>1, SMT DEF Sign16
<1>2. CASE v < 0
  <2>1. v % 65536 = v + 65536
    BY <1>2, SMT
  <2> QED BY <1>2, <2>1, SMT DEF Sign16
<1> QED BY <1>1, <1>2, SMT

-----------------------------------------------------------------------------
(* What the casts of the operands and of the results come to.              *)

\* A lane of an operand is an int8_t, a double lane an int16_t.
LEMMA OperandLane ==
  ASSUME RealWidth, NEW x \in Word, NEW i \in 0 .. 3
  PROVE  /\ Part(x, i, LaneBits) \in Int
         /\ Part(x, i, LaneBits) >= -128 /\ Part(x, i, LaneBits) < 128
         /\ Part(x, i, LaneBits) % 256 = Lane(x, i)
<1>1. x \in Nat /\ x < 4294967296
  BY Words, SMT
<1>2. Lane(x, i) \in Nat /\ Lane(x, i) < 256
  <2>1. i = 0 \/ i = 1 \/ i = 2 \/ i = 3
    BY SMT
  <2>2. /\ Lane(x, 0) \in Nat /\ Lane(x, 0) < 256 /\ Lane(x, 1) \in Nat /\ Lane(x, 1) < 256
        /\ Lane(x, 2) \in Nat /\ Lane(x, 2) < 256 /\ Lane(x, 3) \in Nat /\ Lane(x, 3) < 256
    BY <1>1, Reassembled, SMT
  <2> QED BY <2>1, <2>2, SMT
<1>3. Part(x, i, LaneBits) = Sign8(Lane(x, i))
  BY <1>1, Parts, SMT
<1> QED BY <1>2, <1>3, SignOfByte, SMT

LEMMA OperandDoubleLane ==
  ASSUME RealWidth, NEW x \in Word, NEW i \in 0 .. 1
  PROVE  /\ Part(x, i, 2 * LaneBits) \in Int
         /\ Part(x, i, 2 * LaneBits) >= -32768 /\ Part(x, i, 2 * LaneBits) < 32768
         /\ Part(x, i, 2 * LaneBits) % 65536 = DoubleLane(x, i)
<1>1. x \in Nat /\ x < 4294967296
  BY Words, SMT
<1>2. DoubleLane(x, i) \in Nat /\ DoubleLane(x, i) < 65536
  <2>1. i = 0 \/ i = 1
    BY SMT
  <2>2. /\ DoubleLane(x, 0) \in Nat /\ DoubleLane(x, 0) < 65536
        /\ DoubleLane(x, 1) \in Nat /\ DoubleLane(x, 1) < 65536
    BY <1>1, ReassembledHalves, SMT
  <2> QED BY <2>1, <2>2, SMT
<1>3. Part(x, i, 2 * LaneBits) = Sign16(DoubleLane(x, i))
  BY <1>1, Parts, SMT
<1> QED BY <1>2, <1>3, SignOfHalf, SMT

\* The results put in their places are read back from there.
LEMMA ResultLane ==
  ASSUME RealWidth, NEW r \in [0 .. 3 -> Nat], \A k \in 0 .. 3 : r[k] < 256
  PROVE  /\ Lanes(r) \in Word
         /\ \A i \in 0 .. 3 : Lane(Lanes(r), i) = r[i] /\ Part(Lanes(r), i, LaneBits) = Sign8(r[i])
<1>1. PICK a \in Nat, b \in Nat, c \in Nat, d \in Nat :
        /\ a = r[0] /\ b = r[1] /\ c = r[2] /\ d = r[3]
        /\ a < 256 /\ b < 256 /\ c < 256 /\ d < 256
  BY SMT
<1>2. r \in [0 .. 3 -> Int]
  BY SMT
<1>3. PICK x \in Nat : x = a + b * 256 + c * 65536 + d * 16777216
  BY SMT
<1>4. Lanes(r) = x
  BY <1>1, <1>2, <1>3, Packed, SMT
<1>5. x < 4294967296
  BY <1>1, <1>3, SMT
<1>6. x \in Word
  BY <1>5, Powers, SMT DEF Word
<1>7. Lane(x, 0) = a /\ Lane(x, 1) = b /\ Lane(x, 2) = c /\ Lane(x, 3) = d
  <2>1. a < 256 /\ b < 256 /\ c < 256 /\ d < 256
    BY <1>1, SMT
  <2>2. x = Bytes(a, b, c, d)
    BY <1>3, SMT DEF Bytes
  <2> QED BY <2>1, <2>2, LanesOfBytes, SMT
<1>8. ASSUME NEW i \in 0 .. 3 PROVE Lane(x, i) = r[i] /\ Part(x, i, LaneBits) = Sign8(r[i])
  <2>1. i = 0 \/ i = 1 \/ i = 2 \/ i = 3
    BY SMT
  <2>2. Lane(x, i) = r[i]
    BY <1>1, <1>7, <2>1, SMT
  <2>3. Part(x, i, LaneBits) = Sign8(Lane(x, i))
    BY Parts, SMT
  <2> QED BY <2>2, <2>3, SMT
<1> QED BY <1>4, <1>6, <1>8, SMT

LEMMA ResultDoubleLane ==
  ASSUME RealWidth, NEW r \in [0 .. 1 -> Nat], \A k \in 0 .. 1 : r[k] < 65536
  PROVE  /\ DoubleLanes(r) \in Word
         /\ \A i \in 0 .. 1 : /\ DoubleLane(DoubleLanes(r), i) = r[i]
                              /\ Part(DoubleLanes(r), i, 2 * LaneBits) = Sign16(r[i])
<1>1. PICK a \in Nat, b \in Nat : a = r[0] /\ b = r[1] /\ a < 65536 /\ b < 65536
  BY SMT
<1>2. r \in [0 .. 1 -> Int]
  BY SMT
<1>3. PICK x \in Nat : x = a + b * 65536
  BY SMT
<1>4. DoubleLanes(r) = x
  BY <1>1, <1>2, <1>3, Packed, SMT
<1>5. x < 4294967296
  BY <1>1, <1>3, SMT
<1>6. x \in Word
  BY <1>5, Powers, SMT DEF Word
<1>7. DoubleLane(x, 0) = a /\ DoubleLane(x, 1) = b
  <2>1. a < 65536 /\ b < 65536
    BY <1>1, SMT
  <2>2. x = Halves(a, b)
    BY <1>3, SMT DEF Halves
  <2> QED BY <2>1, <2>2, LanesOfHalves, SMT
<1>8. ASSUME NEW i \in 0 .. 1
      PROVE  DoubleLane(x, i) = r[i] /\ Part(x, i, 2 * LaneBits) = Sign16(r[i])
  <2>1. i = 0 \/ i = 1
    BY SMT
  <2>2. DoubleLane(x, i) = r[i]
    BY <1>1, <1>7, <2>1, SMT
  <2>3. Part(x, i, 2 * LaneBits) = Sign16(DoubleLane(x, i))
    BY Parts, SMT
  <2> QED BY <2>2, <2>3, SMT
<1> QED BY <1>4, <1>6, <1>8, SMT

-----------------------------------------------------------------------------
(* The multiplications.                                                    *)

\* The product of two lanes fits the int16_t it is put in.
LEMMA Product ==
  ASSUME NEW a \in Int, a >= -128, a < 128, NEW b \in Int, b >= -128, b < 128
  PROVE  a * b \in Int /\ a * b >= -32768 /\ a * b < 32768
BY SMT

\* A product is its high byte, with the sign, over its low byte.
LEMMA ProductBytes ==
  ASSUME NEW m \in Int, m >= -32768, m < 32768
  PROVE  /\ m \div 256 \in Int /\ m \div 256 >= -128 /\ m \div 256 < 128
         /\ (m \div 256) * 256 + (m % 256) = m
         /\ m % 256 \in Nat /\ m % 256 < 256
<1>1. PICK h \in Int, k \in Nat : h = m \div 256 /\ k = m % 256 /\ k < 256
  BY SMT
<1>2. m = h * 256 + k
  BY <1>1, SMT
<1>3. h >= -128 /\ h < 128
  BY <1>1, <1>2, SMT
<1> QED BY <1>1, <1>2, <1>3, SMT

LEMMA LaneProduct ==
  ASSUME RealWidth, NEW x \in Word, NEW y \in Word, NEW i \in 0 .. 3
  PROVE  \E m \in Int : /\ m = Part(x, i, LaneBits) * Part(y, i, LaneBits)
                        /\ m >= -32768 /\ m < 32768
<1>1. PICK a \in Int : a = Part(x, i, LaneBits) /\ a >= -128 /\ a < 128
  BY OperandLane, SMT
<1>2. PICK b \in Int : b = Part(y, i, LaneBits) /\ b >= -128 /\ b < 128
  BY OperandLane, SMT
<1>3. a * b \in Int /\ a * b >= -32768 /\ a * b < 32768
  <2>1. a >= -128 /\ a < 128 /\ b >= -128 /\ b < 128
    BY <1>1, <1>2, SMT
  <2> HIDE <1>1, <1>2
  <2> QED BY <2>1, Product, SMT
<1> QED BY <1>1, <1>2, <1>3, SMT

\* What PMUL leaves in a double lane: the product, read as an int16_t.
LEMMA PmulLane ==
  ASSUME RealWidth, NEW x \in Word, NEW y \in Word, NEW i \in 0 .. 3
  PROVE  Part(get_result(IF i < 2 THEN "S_PMULI8I16S_VV_L" ELSE "S_PMULI8I16S_VV_H", x, y),
              i % 2, 2 * LaneBits)
           = Part(x, i, LaneBits) * Part(y, i, LaneBits)
<1> DEFINE mul(k) == Part(x, k, LaneBits) * Part(y, k, LaneBits)
           rl == [k \in 0 .. 1 |-> Unsigned(mul(k), 2 * LaneBits)]
           rh == [k \in 0 .. 1 |-> Unsigned(mul(k + 2), 2 * LaneBits)]
<1>1. get_result("S_PMULI8I16S_VV_L", x, y) = DoubleLanes(rl)
  BY DEF get_result, AddSubOps, Mul, LaneMul, HighHalf
<1>2. get_result("S_PMULI8I16S_VV_H", x, y) = DoubleLanes(rh)
  BY DEF get_result, AddSubOps, Mul, LaneMul, HighHalf
<1>3. ASSUME NEW k \in 0 .. 3
      PROVE  /\ Unsigned(mul(k), 2 * LaneBits) \in Nat /\ Unsigned(mul(k), 2 * LaneBits) < 65536
             /\ Sign16(Unsigned(mul(k), 2 * LaneBits)) = mul(k)
  <2>1. PICK m \in Int : m = mul(k) /\ m >= -32768 /\ m < 32768
    BY LaneProduct, SMT
  <2>2. Unsigned(m, 2 * LaneBits) = m % 65536
    BY Signs, SMT
  <2>3. m % 65536 \in Nat /\ m % 65536 < 65536 /\ Sign16(m % 65536) = m
    BY <2>1, HalfOfSign, SMT
  <2> HIDE DEF mul
  <2> QED BY <2>1, <2>2, <2>3, SMT
<1>4. 0 \in 0 .. 3 /\ 1 \in 0 .. 3 /\ 0 + 2 \in 0 .. 3 /\ 1 + 2 \in 0 .. 3
  BY SMT
<1> HIDE DEF mul
<1>5. rl \in [0 .. 1 -> Nat] /\ \A k \in 0 .. 1 : rl[k] < 65536 /\ Sign16(rl[k]) = mul(k)
  BY <1>3, SMT
<1>6. rh \in [0 .. 1 -> Nat] /\ \A k \in 0 .. 1 : rh[k] < 65536 /\ Sign16(rh[k]) = mul(k + 2)
  BY <1>3, SMT
<1> HIDE DEF rl, rh
<1>7. \A k \in 0 .. 1 : /\ Part(DoubleLanes(rl), k, 2 * LaneBits) = mul(k)
                        /\ Part(DoubleLanes(rh), k, 2 * LaneBits) = mul(k + 2)
  BY <1>5, <1>6, ResultDoubleLane, SMT
<1>8. CASE i < 2
  <2>1. i % 2 = i /\ i \in 0 .. 1
    BY <1>8, SMT
  <2> QED BY <1>1, <1>7, <1>8, <2>1, SMT DEF mul
<1>9. CASE ~ (i < 2)
  <2>1. PICK k \in 0 .. 1 : i % 2 = k /\ k + 2 = i
    BY <1>9, SMT
  <2> QED BY <1>2, <1>7, <1>9, <2>1, SMT DEF mul
<1> QED BY <1>8, <1>9, Zenon

\* What the narrowing multiplications leave in a lane: the two bytes of the
\* product.
LEMMA AmulLane ==
  ASSUME RealWidth, NEW x \in Word, NEW y \in Word, NEW i \in 0 .. 3
  PROVE  Part(get_result("S_AMULI8I8S_VV_NQ", x, y), i, LaneBits) * 2^LaneBits
           + Unsigned(Part(get_result("S_AMULI8I8S_VV_L", x, y), i, LaneBits), LaneBits)
           = Part(x, i, LaneBits) * Part(y, i, LaneBits)
<1> DEFINE mul(k) == Part(x, k, LaneBits) * Part(y, k, LaneBits)
           rh == [k \in 0 .. 3 |-> Unsigned(mul(k) \div 2^LaneBits, LaneBits)]
           rl == [k \in 0 .. 3 |-> Unsigned(mul(k), LaneBits)]
<1>1. get_result("S_AMULI8I8S_VV_NQ", x, y) = Lanes(rh)
  BY DEF get_result, AddSubOps, Mul, LaneMul, HighHalf
<1>2. get_result("S_AMULI8I8S_VV_L", x, y) = Lanes(rl)
  BY DEF get_result, AddSubOps, Mul, LaneMul, HighHalf
<1>3. ASSUME NEW k \in 0 .. 3
      PROVE  \E m \in Int :
               /\ m = mul(k) /\ m >= -32768 /\ m < 32768
               /\ Unsigned(mul(k), LaneBits) = m % 256
               /\ Unsigned(mul(k) \div 2^LaneBits, LaneBits) = (m \div 256) % 256
  <2>1. PICK m \in Int : m = mul(k) /\ m >= -32768 /\ m < 32768
    BY LaneProduct, SMT
  <2>2. m \div 256 \in Int
    BY SMT
  <2>3. Unsigned(m, LaneBits) = m % 256 /\ Unsigned(m \div 2^LaneBits, LaneBits) = (m \div 256) % 256
    BY <2>2, Powers, Signs, SMT
  <2> HIDE DEF mul
  <2> QED BY <2>1, <2>3, SMT
<1> HIDE DEF mul
<1>4. ASSUME NEW k \in 0 .. 3
      PROVE  \E m \in Int : /\ m = mul(k) /\ m >= -32768 /\ m < 32768
                            /\ rl[k] = m % 256 /\ rh[k] = (m \div 256) % 256
                            /\ rl[k] \in Nat /\ rl[k] < 256 /\ rh[k] \in Nat /\ rh[k] < 256
  <2>1. PICK m \in Int : /\ m = mul(k) /\ m >= -32768 /\ m < 32768
                         /\ Unsigned(mul(k), LaneBits) = m % 256
                         /\ Unsigned(mul(k) \div 2^LaneBits, LaneBits) = (m \div 256) % 256
    BY <1>3
  <2>2. rl[k] = m % 256 /\ rh[k] = (m \div 256) % 256
    BY <2>1, SMT
  <2>3. m % 256 \in Nat /\ m % 256 < 256
    BY SMT
  <2>4. m \div 256 \in Int
    BY SMT
  <2>5. (m \div 256) % 256 \in Nat /\ (m \div 256) % 256 < 256
    BY <2>4, SMT
  <2> QED BY <2>1, <2>2, <2>3, <2>5, SMT
<1>5. rl \in [0 .. 3 -> Nat] /\ \A k \in 0 .. 3 : rl[k] < 256
  <2>1. DOMAIN rl = 0 .. 3 /\ rl = [k \in 0 .. 3 |-> rl[k]]
    OBVIOUS
  <2>2. \A k \in 0 .. 3 : rl[k] \in Nat /\ rl[k] < 256
    BY <1>4, SMT
  <2> HIDE DEF rl
  <2> QED BY <2>1, <2>2, SMT
<1>6. rh \in [0 .. 3 -> Nat] /\ \A k \in 0 .. 3 : rh[k] < 256
  <2>1. DOMAIN rh = 0 .. 3 /\ rh = [k \in 0 .. 3 |-> rh[k]]
    OBVIOUS
  <2>2. \A k \in 0 .. 3 : rh[k] \in Nat /\ rh[k] < 256
    BY <1>4, SMT
  <2> HIDE DEF rh
  <2> QED BY <2>1, <2>2, SMT
<1> HIDE DEF rl, rh
<1>7. Part(Lanes(rh), i, LaneBits) = Sign8(rh[i]) /\ Part(Lanes(rl), i, LaneBits) = Sign8(rl[i])
  BY <1>5, <1>6, ResultLane, SMT
<1>8. PICK m \in Int : /\ m = mul(i) /\ m >= -32768 /\ m < 32768
                       /\ rl[i] = m % 256 /\ rh[i] = (m \div 256) % 256
  BY <1>4
<1>9. PICK h \in Int, u \in Nat : /\ h = m \div 256 /\ h >= -128 /\ h < 128
                                  /\ u = m % 256 /\ u < 256 /\ h * 256 + u = m
  <2>1. m >= -32768 /\ m < 32768
    BY <1>8, SMT
  <2> QED BY <2>1, ProductBytes, SMT
<1>10. Sign8(rh[i]) = h
  BY <1>8, <1>9, ByteOfSign, SMT
<1>11. PICK v \in Int : v = Sign8(u) /\ v % 256 = u
  BY <1>9, SignOfByte, SMT
<1>12. Unsigned(Sign8(rl[i]), LaneBits) = u
  BY <1>8, <1>9, <1>11, Signs, SMT
<1>13. h * 2^LaneBits + u = mul(i)
  BY <1>8, <1>9, Powers, SMT
<1> QED BY <1>1, <1>2, <1>7, <1>10, <1>12, <1>13, SMT DEF mul

-----------------------------------------------------------------------------
(* Addition and subtraction.                                               *)

\* The sum or difference of two lanes, cut to its lowest bits and read as a
\* signed number again, has come back into the range of the lane.
LEMMA Wraps256 ==
  ASSUME RealWidth, NEW v \in Int, v >= -256, v < 256
  PROVE  v % 256 \in Nat /\ v % 256 < 256 /\ Sign8(v % 256) = Wrapped(v, LaneBits)
<1>1. Wrapped(v, LaneBits) = IF v >= 128 THEN v - 256 ELSE IF v < -128 THEN v + 256 ELSE v
  <2>1. CASE v >= 128
    BY <2>1, Powers, SMT DEF Wrapped
  <2>2. CASE v < -128
    BY <2>2, Powers, SMT DEF Wrapped
  <2>3. CASE v >= -128 /\ v < 128
    BY <2>3, Powers, SMT DEF Wrapped
  <2> QED BY <2>1, <2>2, <2>3, SMT
<1>2. v % 256 = IF v < 0 THEN v + 256 ELSE v
  BY SMT
<1> QED BY <1>1, <1>2, SMT DEF Sign8

LEMMA Wraps65536 ==
  ASSUME RealWidth, NEW v \in Int, v >= -65536, v < 65536
  PROVE  v % 65536 \in Nat /\ v % 65536 < 65536 /\ Sign16(v % 65536) = Wrapped(v, 2 * LaneBits)
<1>1. Wrapped(v, 2 * LaneBits) = IF v >= 32768 THEN v - 65536 ELSE IF v < -32768 THEN v + 65536 ELSE v
  <2>1. CASE v >= 32768
    BY <2>1, Powers, SMT DEF Wrapped
  <2>2. CASE v < -32768
    BY <2>2, Powers, SMT DEF Wrapped
  <2>3. CASE v >= -32768 /\ v < 32768
    BY <2>3, Powers, SMT DEF Wrapped
  <2> QED BY <2>1, <2>2, <2>3, SMT
<1>2. v % 65536 = IF v < 0 THEN v + 65536 ELSE v
  BY SMT
<1> QED BY <1>1, <1>2, SMT DEF Sign16

\* Results that leave the range of their lanes by less than the range, cast and
\* packed, are read back as their wrapped values, each in its own lane.
LEMMA WrappedLanes ==
  ASSUME RealWidth, NEW v \in [0 .. 3 -> Int], \A k \in 0 .. 3 : v[k] >= -256 /\ v[k] < 256,
         NEW i \in 0 .. 3
  PROVE  Part(Lanes([k \in 0 .. 3 |-> Unsigned(v[k], LaneBits)]), i, LaneBits) = Wrapped(v[i], LaneBits)
<1> DEFINE r == [k \in 0 .. 3 |-> Unsigned(v[k], LaneBits)]
<1>1. ASSUME NEW k \in 0 .. 3
      PROVE  r[k] \in Nat /\ r[k] < 256 /\ Sign8(r[k]) = Wrapped(v[k], LaneBits)
  <2>1. PICK c \in Int : c = v[k] /\ c >= -256 /\ c < 256
    BY SMT
  <2>2. Unsigned(c, LaneBits) = c % 256
    BY Signs, SMT
  <2>3. c % 256 \in Nat /\ c % 256 < 256 /\ Sign8(c % 256) = Wrapped(c, LaneBits)
    BY <2>1, Wraps256, SMT
  <2>4. r[k] = c % 256
    BY <2>1, <2>2, SMT
  <2> HIDE DEF r
  <2> QED BY <2>1, <2>3, <2>4, SMT
<1>2. DOMAIN r = 0 .. 3 /\ r = [k \in 0 .. 3 |-> r[k]]
  OBVIOUS
<1> HIDE DEF r
<1>3. r \in [0 .. 3 -> Nat] /\ \A k \in 0 .. 3 : r[k] < 256
  BY <1>1, <1>2, SMT
<1>4. Part(Lanes(r), i, LaneBits) = Sign8(r[i])
  BY <1>3, ResultLane, SMT
<1> QED BY <1>1, <1>4, Zenon DEF r

LEMMA WrappedDoubleLanes ==
  ASSUME RealWidth, NEW v \in [0 .. 1 -> Int], \A k \in 0 .. 1 : v[k] >= -65536 /\ v[k] < 65536,
         NEW i \in 0 .. 1
  PROVE  Part(DoubleLanes([k \in 0 .. 1 |-> Unsigned(v[k], 2 * LaneBits)]), i, 2 * LaneBits)
           = Wrapped(v[i], 2 * LaneBits)
<1> DEFINE r == [k \in 0 .. 1 |-> Unsigned(v[k], 2 * LaneBits)]
<1>1. ASSUME NEW k \in 0 .. 1
      PROVE  r[k] \in Nat /\ r[k] < 65536 /\ Sign16(r[k]) = Wrapped(v[k], 2 * LaneBits)
  <2>1. PICK c \in Int : c = v[k] /\ c >= -65536 /\ c < 65536
    BY SMT
  <2>2. Unsigned(c, 2 * LaneBits) = c % 65536
    BY Signs, SMT
  <2>3. c % 65536 \in Nat /\ c % 65536 < 65536 /\ Sign16(c % 65536) = Wrapped(c, 2 * LaneBits)
    BY <2>1, Wraps65536, SMT
  <2>4. r[k] = c % 65536
    BY <2>1, <2>2, SMT
  <2> HIDE DEF r
  <2> QED BY <2>1, <2>3, <2>4, SMT
<1>2. DOMAIN r = 0 .. 1 /\ r = [k \in 0 .. 1 |-> r[k]]
  OBVIOUS
<1> HIDE DEF r
<1>3. r \in [0 .. 1 -> Nat] /\ \A k \in 0 .. 1 : r[k] < 65536
  BY <1>1, <1>2, SMT
<1>4. Part(DoubleLanes(r), i, 2 * LaneBits) = Sign16(r[i])
  BY <1>3, ResultDoubleLane, SMT
<1>5. Part(DoubleLanes(r), i, 2 * LaneBits) = Wrapped(v[i], 2 * LaneBits)
  BY <1>1, <1>4, SMT
<1> QED BY <1>5, SMT DEF r

\* What addition and subtraction leave in a lane ...
LEMMA SumLane ==
  ASSUME RealWidth, NEW x \in Word, NEW y \in Word, NEW i \in 0 .. 3
  PROVE  /\ Part(get_result("S_ADDI8I8S_VV", x, y), i, LaneBits)
              = Wrapped(Part(x, i, LaneBits) + Part(y, i, LaneBits), LaneBits)
         /\ Part(get_result("S_SUBI8I8S_VV", x, y), i, LaneBits)
              = Wrapped(Part(x, i, LaneBits) - Part(y, i, LaneBits), LaneBits)
<1> DEFINE A(k) == Part(x, k, LaneBits)
           B(k) == Part(y, k, LaneBits)
           s == [k \in 0 .. 3 |-> A(k) + B(k)]
           d == [k \in 0 .. 3 |-> A(k) - B(k)]
<1>1. /\ get_result("S_ADDI8I8S_VV", x, y) = Lanes([k \in 0 .. 3 |-> Unsigned(A(k) + B(k), LaneBits)])
      /\ get_result("S_SUBI8I8S_VV", x, y) = Lanes([k \in 0 .. 3 |-> Unsigned(A(k) - B(k), LaneBits)])
  BY DEF get_result, AddSubOps, AddSub
<1>2. \A k \in 0 .. 3 : /\ A(k) \in Int /\ A(k) >= -128 /\ A(k) < 128
                        /\ B(k) \in Int /\ B(k) >= -128 /\ B(k) < 128
  BY OperandLane, SMT
<1> HIDE DEF A, B
<1>3. s \in [0 .. 3 -> Int] /\ \A k \in 0 .. 3 : s[k] >= -256 /\ s[k] < 256 /\ s[k] = A(k) + B(k)
  BY <1>2, SMT
<1>4. d \in [0 .. 3 -> Int] /\ \A k \in 0 .. 3 : d[k] >= -256 /\ d[k] < 256 /\ d[k] = A(k) - B(k)
  BY <1>2, SMT
<1>5. /\ get_result("S_ADDI8I8S_VV", x, y) = Lanes([k \in 0 .. 3 |-> Unsigned(s[k], LaneBits)])
      /\ get_result("S_SUBI8I8S_VV", x, y) = Lanes([k \in 0 .. 3 |-> Unsigned(d[k], LaneBits)])
  BY <1>1
<1> HIDE DEF s, d
<1>6. /\ Part(Lanes([k \in 0 .. 3 |-> Unsigned(s[k], LaneBits)]), i, LaneBits) = Wrapped(s[i], LaneBits)
      /\ Part(Lanes([k \in 0 .. 3 |-> Unsigned(d[k], LaneBits)]), i, LaneBits) = Wrapped(d[i], LaneBits)
  BY <1>3, <1>4, WrappedLanes
<1>7. s[i] = A(i) + B(i) /\ d[i] = A(i) - B(i)
  BY <1>3, <1>4
<1> QED BY <1>5, <1>6, <1>7, Zenon DEF A, B

\* ... and in a double lane.
LEMMA SumDoubleLane ==
  ASSUME RealWidth, NEW x \in Word, NEW y \in Word, NEW i \in 0 .. 1
  PROVE  /\ Part(get_result("S_ADDI16I16S_VV", x, y), i, 2 * LaneBits)
              = Wrapped(Part(x, i, 2 * LaneBits) + Part(y, i, 2 * LaneBits), 2 * LaneBits)
         /\ Part(get_result("S_SUBI16I16S_VV", x, y), i, 2 * LaneBits)
              = Wrapped(Part(x, i, 2 * LaneBits) - Part(y, i, 2 * LaneBits), 2 * LaneBits)
<1> DEFINE n == 2 * LaneBits
           A(k) == Part(x, k, 2 * LaneBits)
           B(k) == Part(y, k, 2 * LaneBits)
           s == [k \in 0 .. 1 |-> A(k) + B(k)]
           d == [k \in 0 .. 1 |-> A(k) - B(k)]
<1>1. /\ get_result("S_ADDI16I16S_VV", x, y) = DoubleLanes([k \in 0 .. 1 |-> Unsigned(A(k) + B(k), n)])
      /\ get_result("S_SUBI16I16S_VV", x, y) = DoubleLanes([k \in 0 .. 1 |-> Unsigned(A(k) - B(k), n)])
  BY DEF get_result, AddSubOps, AddSub
<1>2. \A k \in 0 .. 1 : /\ A(k) \in Int /\ A(k) >= -32768 /\ A(k) < 32768
                        /\ B(k) \in Int /\ B(k) >= -32768 /\ B(k) < 32768
  BY OperandDoubleLane, SMT
<1> HIDE DEF A, B
<1>3. s \in [0 .. 1 -> Int] /\ \A k \in 0 .. 1 : s[k] >= -65536 /\ s[k] < 65536 /\ s[k] = A(k) + B(k)
  BY <1>2, SMT
<1>4. d \in [0 .. 1 -> Int] /\ \A k \in 0 .. 1 : d[k] >= -65536 /\ d[k] < 65536 /\ d[k] = A(k) - B(k)
  BY <1>2, SMT
<1>5. /\ get_result("S_ADDI16I16S_VV", x, y) = DoubleLanes([k \in 0 .. 1 |-> Unsigned(s[k], n)])
      /\ get_result("S_SUBI16I16S_VV", x, y) = DoubleLanes([k \in 0 .. 1 |-> Unsigned(d[k], n)])
  BY <1>1
<1> HIDE DEF s, d
<1>6. /\ Part(DoubleLanes([k \in 0 .. 1 |-> Unsigned(s[k], n)]), i, n) = Wrapped(s[i], n)
      /\ Part(DoubleLanes([k \in 0 .. 1 |-> Unsigned(d[k], n)]), i, n) = Wrapped(d[i], n)
  BY <1>3, <1>4, WrappedDoubleLanes
<1>7. s[i] = A(i) + B(i) /\ d[i] = A(i) - B(i)
  BY <1>3, <1>4
<1> QED BY <1>5, <1>6, <1>7, Zenon DEF A, B

-----------------------------------------------------------------------------
(* The theorems: every pair of operands of 32 bits.                        *)

Operands == rs1 \in Word /\ rs2 \in Word

\* The operands of a request are words, before and after they are exchanged.
LEMMA OperandsInvariant == CfuSpec => []Operands
<1>1. CfuInit => Operands
  BY DEF CfuInit, Operands
<1>2. Operands /\ [CfuNext]_<<rs1, rs2>> => Operands'
  BY DEF Operands, CfuNext
<1> QED BY <1>1, <1>2, PTL DEF CfuSpec

\* The two PMUL instructions of MulUnit compute the exact signed product of
\* every lane, for any two words (CFU.cc:103-122).
THEOREM Products == ASSUME RealWidth PROVE CfuSpec => []ProductsExact
<1>1. Operands => ProductsExact
  BY PmulLane DEF Operands, ProductsExact, Pmul
<1> QED BY <1>1, OperandsInvariant, PTL

\* The high bytes of AMUL.NQ over the low bytes of AMUL.L are the double lanes
\* that PMUL computes, for any two words.
THEOREM Split == ASSUME RealWidth PROVE CfuSpec => []AmulSplitsPmul
<1>1. Operands => AmulSplitsPmul
  <2> SUFFICES ASSUME Operands, NEW i \in 0 .. 3
               PROVE  Part(get_result("S_AMULI8I8S_VV_NQ", rs1, rs2), i, LaneBits) * 2^LaneBits
                        + Unsigned(Part(get_result("S_AMULI8I8S_VV_L", rs1, rs2), i, LaneBits), LaneBits)
                        = Part(Pmul(i), i % 2, 2 * LaneBits)
    BY DEF AmulSplitsPmul
  <2>1. Part(Pmul(i), i % 2, 2 * LaneBits) = Part(rs1, i, LaneBits) * Part(rs2, i, LaneBits)
    BY PmulLane DEF Operands, Pmul
  <2>2. Part(get_result("S_AMULI8I8S_VV_NQ", rs1, rs2), i, LaneBits) * 2^LaneBits
          + Unsigned(Part(get_result("S_AMULI8I8S_VV_L", rs1, rs2), i, LaneBits), LaneBits)
          = Part(rs1, i, LaneBits) * Part(rs2, i, LaneBits)
    BY AmulLane DEF Operands
  <2> QED BY <2>1, <2>2, Zenon
<1> QED BY <1>1, OperandsInvariant, PTL

\* Addition and subtraction in AddSubActivationUnit (CFU.cc:55-97) work lane by
\* lane, in lanes of eight and of sixteen bits and for any two words: each lane
\* of the result is the wrapped sum or difference of that lane alone.
THEOREM Sums == ASSUME RealWidth PROVE CfuSpec => []LanewiseSums
<1>1. Operands => LanewiseSums
  BY SumLane, SumDoubleLane DEF Operands, LanewiseSums
<1> QED BY <1>1, OperandsInvariant, PTL

-----------------------------------------------------------------------------
(* The CPU: its values.                                                    *)

LEMMA PowersOfTwo ==
  ASSUME NEW n \in 0 .. 32
  PROVE  2^n \in Nat \ {0}
<1>1. /\ 2^0 = 1 /\ 2^1 = 2 /\ 2^2 = 4 /\ 2^3 = 8 /\ 2^4 = 16 /\ 2^5 = 32
      /\ 2^6 = 64 /\ 2^7 = 128 /\ 2^8 = 256 /\ 2^9 = 512 /\ 2^10 = 1024 /\ 2^11 = 2048
      /\ 2^12 = 4096 /\ 2^13 = 8192 /\ 2^14 = 16384 /\ 2^15 = 32768 /\ 2^16 = 65536 /\ 2^17 = 131072
      /\ 2^18 = 262144 /\ 2^19 = 524288 /\ 2^20 = 1048576 /\ 2^21 = 2097152 /\ 2^22 = 4194304 /\ 2^23 = 8388608
      /\ 2^24 = 16777216 /\ 2^25 = 33554432 /\ 2^26 = 67108864 /\ 2^27 = 134217728 /\ 2^28 = 268435456 /\ 2^29 = 536870912
      /\ 2^30 = 1073741824 /\ 2^31 = 2147483648 /\ 2^32 = 4294967296
  BY SMT
<1>2. \/ n = 0 \/ n = 1 \/ n = 2 \/ n = 3 \/ n = 4 \/ n = 5 \/ n = 6 \/ n = 7 \/ n = 8 \/ n = 9 \/ n = 10
      \/ n = 11 \/ n = 12 \/ n = 13 \/ n = 14 \/ n = 15 \/ n = 16 \/ n = 17 \/ n = 18 \/ n = 19 \/ n = 20 \/ n = 21
      \/ n = 22 \/ n = 23 \/ n = 24 \/ n = 25 \/ n = 26 \/ n = 27 \/ n = 28 \/ n = 29 \/ n = 30 \/ n = 31 \/ n = 32
  BY SMT
<1>3. /\ 2^0 \in Nat \ {0} /\ 2^1 \in Nat \ {0} /\ 2^2 \in Nat \ {0} /\ 2^3 \in Nat \ {0} /\ 2^4 \in Nat \ {0} /\ 2^5 \in Nat \ {0}
      /\ 2^6 \in Nat \ {0} /\ 2^7 \in Nat \ {0} /\ 2^8 \in Nat \ {0} /\ 2^9 \in Nat \ {0} /\ 2^10 \in Nat \ {0} /\ 2^11 \in Nat \ {0}
      /\ 2^12 \in Nat \ {0} /\ 2^13 \in Nat \ {0} /\ 2^14 \in Nat \ {0} /\ 2^15 \in Nat \ {0} /\ 2^16 \in Nat \ {0} /\ 2^17 \in Nat \ {0}
      /\ 2^18 \in Nat \ {0} /\ 2^19 \in Nat \ {0} /\ 2^20 \in Nat \ {0} /\ 2^21 \in Nat \ {0} /\ 2^22 \in Nat \ {0} /\ 2^23 \in Nat \ {0}
      /\ 2^24 \in Nat \ {0} /\ 2^25 \in Nat \ {0} /\ 2^26 \in Nat \ {0} /\ 2^27 \in Nat \ {0} /\ 2^28 \in Nat \ {0} /\ 2^29 \in Nat \ {0}
      /\ 2^30 \in Nat \ {0} /\ 2^31 \in Nat \ {0} /\ 2^32 \in Nat \ {0}
  BY <1>1, SMT
<1> QED BY <1>2, <1>3, Zenon

\* Reduced to a word, a number is one that is not negative.
LEMMA UnsignedIsWord ==
  ASSUME RealWidth, NEW x \in Int
  PROVE  Unsigned(x, Width) \in Word /\ Unsigned(x, Width) \in Nat
<1>1. 2^Width = 4294967296
  BY Powers
<1>2. x % 4294967296 \in Nat /\ x % 4294967296 < 4294967296
  BY SMT
<1> QED BY <1>1, <1>2, SMT DEF Unsigned, Word

\* f is the sum of the bits of a table from bit l of x and y on.
IsBits(f, l, table, x, y) ==
  f = [n \in l .. Width |->
         IF n = Width THEN 0
         ELSE table[(x \div 2^n) % 2][(y \div 2^n) % 2] * 2^n + f[n + 1]]

LEMMA BitsExist ==
  ASSUME RealWidth, NEW table, NEW x, NEW y
  PROVE  \E f : IsBits(f, 0, table, x, y)
<1>0. Width = 32
  BY DEF RealWidth, Width
<1> DEFINE b(n) == table[(x \div 2^n) % 2][(y \div 2^n) % 2] * 2^n
           T == {m \in Nat : m <= 32 => \E f : IsBits(f, 32 - m, table, x, y)}
<1>b. \A f, l : IsBits(f, l, table, x, y) <=>
        f = [n \in l .. 32 |-> IF n = 32 THEN 0 ELSE b(n) + f[n + 1]]
  BY <1>0, Zenon DEF IsBits
<1> HIDE DEF b
<1>1. 0 \in T
  <2> DEFINE e == [n \in 32 .. 32 |-> 0]
  <2>1. \A n \in 32 .. 32 : n = 32
    OBVIOUS
  <2>2. e = [n \in 32 .. 32 |-> IF n = 32 THEN 0 ELSE b(n) + e[n + 1]]
    BY <2>1
  <2> HIDE DEF e
  <2>3. IsBits(e, 32, table, x, y)
    BY <1>b, <2>2, Zenon
  <2>4. 32 - 0 = 32
    OBVIOUS
  <2> QED BY <2>3, <2>4
<1>2. ASSUME NEW m \in Nat, m \in T PROVE m + 1 \in T
  <2> SUFFICES ASSUME m + 1 <= 32 PROVE \E f : IsBits(f, 32 - (m + 1), table, x, y)
    OBVIOUS
  <2>1. PICK l \in 1 .. 32 : l = 32 - m
    OBVIOUS
  <2>2. PICK f : f = [n \in l .. 32 |-> IF n = 32 THEN 0 ELSE b(n) + f[n + 1]]
    BY <1>2, <1>b, <2>1
  <2> DEFINE g == [n \in l - 1 .. 32 |-> IF n = l - 1 THEN b(n) + f[l] ELSE f[n]]
  <2>3. ASSUME NEW n \in l - 1 .. 32
        PROVE  g[n] = IF n = 32 THEN 0 ELSE b(n) + g[n + 1]
    <3>1. CASE n = l - 1
      <4>1. n + 1 = l /\ n # 32 /\ l \in l - 1 .. 32 /\ l # l - 1
        BY <3>1
      <4>2. g[l] = f[l] /\ g[n] = b(n) + f[l]
        BY <3>1, <4>1, Zenon
      <4> HIDE DEF g
      <4> QED BY <4>1, <4>2, Zenon
    <3>2. CASE n # l - 1
      <4>1. n \in l .. 32
        BY <3>2
      <4>2. g[n] = f[n]
        BY <3>2, Zenon
      <4>3. f[n] = IF n = 32 THEN 0 ELSE b(n) + f[n + 1]
        <5> DEFINE h == [k \in l .. 32 |-> IF k = 32 THEN 0 ELSE b(k) + f[k + 1]]
        <5>1. h[n] = IF n = 32 THEN 0 ELSE b(n) + f[n + 1]
          BY <4>1, Zenon
        <5>2. f = h
          BY <2>2
        <5> HIDE DEF h
        <5> QED BY <5>1, <5>2, Zenon
      <4>4. n # 32 => n + 1 \in l - 1 .. 32 /\ n + 1 # l - 1
        BY <4>1
      <4>5. n # 32 => g[n + 1] = f[n + 1]
        BY <4>4, Zenon
      <4> HIDE DEF g
      <4> QED BY <4>2, <4>3, <4>5, Zenon
    <3> QED BY <3>1, <3>2
  <2>4. g = [n \in l - 1 .. 32 |-> g[n]]
    OBVIOUS
  <2> HIDE DEF g
  <2>5. g = [n \in l - 1 .. 32 |-> IF n = 32 THEN 0 ELSE b(n) + g[n + 1]]
    BY <2>3, <2>4, Zenon
  <2>6. IsBits(g, l - 1, table, x, y)
    BY <1>b, <2>5, Zenon
  <2>7. l - 1 = 32 - (m + 1)
    BY <2>1
  <2> QED BY <2>6, <2>7
<1>3. 32 \in T
  <2> HIDE DEF T
  <2> QED BY <1>1, <1>2, SetInduction
<1>4. 32 - 32 = 0
  OBVIOUS
<1> QED BY <1>3, <1>4

LEMMA BitByBitIsNat ==
  ASSUME RealWidth, NEW table \in [0 .. 1 -> [0 .. 1 -> Nat]], NEW x \in Nat, NEW y \in Nat
  PROVE  BitByBit(table, x, y) \in Nat
<1>0. Width = 32
  BY DEF RealWidth, Width
<1> DEFINE f == CHOOSE h : h = [n \in 0 .. Width |->
                  IF n = Width THEN 0
                  ELSE table[(x \div 2^n) % 2][(y \div 2^n) % 2] * 2^n + h[n + 1]]
<1>1. BitByBit(table, x, y) = f[0]
  BY Zenon DEF BitByBit
<1>p. PICK h : IsBits(h, 0, table, x, y)
  BY BitsExist
<1>2. IsBits(f, 0, table, x, y)
  BY <1>p, Zenon DEF IsBits
<1> HIDE DEF f
<1>3. \A n \in 0 .. Width : f[n] =
        IF n = Width THEN 0 ELSE table[(x \div 2^n) % 2][(y \div 2^n) % 2] * 2^n + f[n + 1]
  BY <1>2, Zenon DEF IsBits
<1> DEFINE T == {m \in Nat : m <= 32 => f[32 - m] \in Nat}
<1>4. 0 \in T
  <2>1. 32 \in 0 .. Width /\ 32 = Width /\ 32 - 0 = 32
    BY <1>0
  <2>2. f[32] = 0
    BY <1>3, <2>1, Zenon
  <2> QED BY <2>1, <2>2
<1>5. ASSUME NEW m \in Nat, m \in T PROVE m + 1 \in T
  <2> SUFFICES ASSUME m + 1 <= 32 PROVE f[32 - (m + 1)] \in Nat
    OBVIOUS
  <2>1. PICK n \in 0 .. 31 : n = 32 - (m + 1)
    OBVIOUS
  <2>2. n \in 0 .. 32 /\ n \in 0 .. Width /\ n # Width /\ n + 1 = 32 - m
    BY <1>0, <2>1
  <2>3. f[n + 1] \in Nat
    BY <1>5, <2>2
  <2>4. 2^n \in Nat \ {0}
    BY <2>2, PowersOfTwo
  <2>5. PICK p \in Nat \ {0} : p = 2^n
    BY <2>4
  <2>6. (x \div p) % 2 \in 0 .. 1 /\ (y \div p) % 2 \in 0 .. 1
    OBVIOUS
  <2>7. table[(x \div p) % 2][(y \div p) % 2] \in Nat
    BY <2>6
  <2>8. f[n] = table[(x \div p) % 2][(y \div p) % 2] * p + f[n + 1]
    BY <1>3, <2>2, <2>5, Zenon
  <2>9. \A a \in Nat, c \in Nat : a * p + c \in Nat
    OBVIOUS
  <2>10. f[n] \in Nat
    BY <2>3, <2>7, <2>8, <2>9, Zenon
  <2> QED BY <2>1, <2>10
<1>6. 32 \in T
  <2> HIDE DEF T
  <2> QED BY <1>4, <1>5, SetInduction
<1>7. 32 - 32 = 0
  OBVIOUS
<1> QED BY <1>1, <1>6, <1>7

LEMMA AluIsNat ==
  ASSUME RealWidth, NEW op \in RegOps \cup {"SLTIU"}, NEW x \in Nat, NEW y \in Nat,
         NEW v \in Alu(op, x, y)
  PROVE  v \in Nat
<1>0. Width = 32
  BY DEF RealWidth, Width
<1>s. \A a, b : Bool(a < b) \in Nat
  BY DEF Bool
<1> DEFINE by == IF y < Width THEN {y} ELSE {y % Width, Width}
<1>1. ASSUME NEW n \in by PROVE 2^n \in Nat \ {0}
  <2>1. n \in 0 .. 32
    BY <1>0
  <2> QED BY <2>1, PowersOfTwo
<1> HIDE DEF by
<1>2. CASE op \in {"ADD", "SLTU"}
  <2>1. v = Unsigned(x + y, Width)
    BY <1>2 DEF Alu
  <2> QED BY <2>1, UnsignedIsWord
<1>3. CASE op = "SUB"
  <2>1. v = Unsigned(x - y, Width)
    BY <1>3 DEF Alu
  <2> QED BY <2>1, UnsignedIsWord
<1>4. CASE op = "MUL"
  <2>1. v = Unsigned(x * y, Width)
    BY <1>4 DEF Alu
  <2>2. x * y \in Int
    OBVIOUS
  <2> QED BY <2>1, <2>2, UnsignedIsWord
<1>5. CASE op = "SLT"
  <2>1. v = Bool(AsSigned(x) < AsSigned(y))
    BY <1>5 DEF Alu
  <2> QED BY <1>s, <2>1, Zenon
<1>6. CASE op = "SLTIU"
  <2>1. v = Bool(x < y)
    BY <1>6 DEF Alu
  <2> QED BY <1>s, <2>1, Zenon
<1>7. CASE op = "AND"
  <2>1. v = BitByBit([a \in 0 .. 1 |-> [b \in 0 .. 1 |-> a * b]], x, y)
    BY <1>7 DEF Alu
  <2>2. [a \in 0 .. 1 |-> [b \in 0 .. 1 |-> a * b]] \in [0 .. 1 -> [0 .. 1 -> Nat]]
    OBVIOUS
  <2> QED BY <2>1, <2>2, BitByBitIsNat
<1>8. CASE op = "OR"
  <2>1. v = BitByBit([a \in 0 .. 1 |-> [b \in 0 .. 1 |-> a + b - a * b]], x, y)
    BY <1>8 DEF Alu
  <2>2. \A a, b \in 0 .. 1 : a + b - a * b \in Nat
    <3> SUFFICES ASSUME NEW a \in 0 .. 1, NEW b \in 0 .. 1 PROVE a + b - a * b \in Nat
      OBVIOUS
    <3>1. a = 0 \/ a = 1
      OBVIOUS
    <3> QED BY <3>1
  <2>3. [a \in 0 .. 1 |-> [b \in 0 .. 1 |-> a + b - a * b]] \in [0 .. 1 -> [0 .. 1 -> Nat]]
    BY <2>2
  <2> QED BY <2>1, <2>3, BitByBitIsNat
<1>9. CASE op = "XOR"
  <2>1. v = BitByBit([a \in 0 .. 1 |-> [b \in 0 .. 1 |-> (a + b) % 2]], x, y)
    BY <1>9 DEF Alu
  <2>2. [a \in 0 .. 1 |-> [b \in 0 .. 1 |-> (a + b) % 2]] \in [0 .. 1 -> [0 .. 1 -> Nat]]
    OBVIOUS
  <2> QED BY <2>1, <2>2, BitByBitIsNat
<1>10. CASE op = "SLL"
  <2>1. v \in {Unsigned(x * 2^n, Width) : n \in by}
    BY <1>10 DEF Alu, by
  <2>2. PICK n \in by : v = Unsigned(x * 2^n, Width)
    BY <2>1
  <2>3. x * 2^n \in Int
    <3>1. PICK p \in Nat : p = 2^n
      BY <1>1
    <3>2. x * p \in Int
      OBVIOUS
    <3> QED BY <3>1, <3>2, Zenon
  <2> QED BY <2>2, <2>3, UnsignedIsWord
<1>11. CASE op = "SRL"
  <2>1. v \in {x \div 2^n : n \in by}
    BY <1>11 DEF Alu, by
  <2>2. PICK n \in by : v = x \div 2^n
    BY <2>1
  <2>3. PICK p \in Nat \ {0} : p = 2^n
    BY <1>1
  <2>4. x \div p \in Nat
    OBVIOUS
  <2> QED BY <2>2, <2>3, <2>4, Zenon
<1>12. CASE op = "SRA"
  <2>1. v \in {Unsigned(AsSigned(x) \div 2^n, Width) : n \in by}
    BY <1>12 DEF Alu, by
  <2>2. PICK n \in by : v = Unsigned(AsSigned(x) \div 2^n, Width)
    BY <2>1
  <2>3. PICK p \in Nat \ {0} : p = 2^n
    BY <1>1
  <2>4. AsSigned(x) \in Int
    <3>1. 2^32 \in Int /\ 2^(32 - 1) \in Int
      OBVIOUS
    <3> QED BY <1>0, <3>1 DEF AsSigned, Signed
  <2>5. AsSigned(x) \div p \in Int
    BY <2>4
  <2> QED BY <2>2, <2>3, <2>5, UnsignedIsWord
<1> QED BY <1>2, <1>3, <1>4, <1>5, <1>6, <1>7, <1>8, <1>9, <1>10, <1>11, <1>12 DEF RegOps

\* The lanes of a number, and the numbers made of lanes.
LEMMA PartIsInt ==
  ASSUME RealWidth, NEW x \in Nat
  PROVE  /\ \A i \in 0 .. 3 : Part(x, i, LaneBits) \in Int
         /\ \A i \in 0 .. 1 : Part(x, i, 2 * LaneBits) \in Int
<1>1. ASSUME NEW i \in 0 .. 3 PROVE Sign8(Lane(x, i)) \in Int
  <2>1. i = 0 \/ i = 1 \/ i = 2 \/ i = 3
    BY SMT
  <2>2. /\ Lane(x, 0) \in Int /\ Lane(x, 1) \in Int
        /\ Lane(x, 2) \in Int /\ Lane(x, 3) \in Int
    BY SMT DEF Lane
  <2>3. Lane(x, i) \in Int
    BY <2>1, <2>2, SMT
  <2> QED BY <2>3, SMT DEF Sign8
<1>2. ASSUME NEW i \in 0 .. 1 PROVE Sign16(DoubleLane(x, i)) \in Int
  <2>1. i = 0 \/ i = 1
    BY SMT
  <2>2. DoubleLane(x, 0) \in Int /\ DoubleLane(x, 1) \in Int
    BY SMT DEF DoubleLane
  <2>3. DoubleLane(x, i) \in Int
    BY <2>1, <2>2, SMT
  <2> QED BY <2>3, SMT DEF Sign16
<1> QED BY <1>1, <1>2, Parts, SMT

LEMMA LanesAreNat ==
  ASSUME RealWidth
  PROVE  /\ \A f \in [0 .. 3 -> Int] :
              Lanes([i \in 0 .. 3 |-> Unsigned(f[i], LaneBits)]) \in Nat
         /\ \A f \in [0 .. 1 -> Int] :
              DoubleLanes([i \in 0 .. 1 |-> Unsigned(f[i], 2 * LaneBits)]) \in Nat
<1>1. ASSUME NEW f \in [0 .. 3 -> Int]
      PROVE  Lanes([i \in 0 .. 3 |-> Unsigned(f[i], LaneBits)]) \in Nat
  <2>1. \A i \in 0 .. 3 : Unsigned(f[i], LaneBits) \in Nat
    BY Signs, SMT
  <2> DEFINE r == [i \in 0 .. 3 |-> Unsigned(f[i], LaneBits)]
  <2>2. r \in [0 .. 3 -> Nat]
    BY <2>1, SMT
  <2> HIDE DEF r
  <2>3. r \in [0 .. 3 -> Int] /\ r[0] \in Nat /\ r[1] \in Nat /\ r[2] \in Nat /\ r[3] \in Nat
    BY <2>2, SMT
  <2>4. Lanes(r) = r[0] + r[1] * 256 + r[2] * 65536 + r[3] * 16777216
    BY <2>3, Packed, SMT
  <2>5. Lanes(r) \in Nat
    BY <2>3, <2>4, SMT
  <2> QED BY <2>5, Zenon DEF r
<1>2. ASSUME NEW f \in [0 .. 1 -> Int]
      PROVE  DoubleLanes([i \in 0 .. 1 |-> Unsigned(f[i], 2 * LaneBits)]) \in Nat
  <2>1. \A i \in 0 .. 1 : Unsigned(f[i], 2 * LaneBits) \in Nat
    BY Signs, SMT
  <2> DEFINE r == [i \in 0 .. 1 |-> Unsigned(f[i], 2 * LaneBits)]
  <2>2. r \in [0 .. 1 -> Nat]
    BY <2>1, SMT
  <2> HIDE DEF r
  <2>3. r \in [0 .. 1 -> Int] /\ r[0] \in Nat /\ r[1] \in Nat
    BY <2>2, SMT
  <2>4. DoubleLanes(r) = r[0] + r[1] * 65536
    BY <2>3, Packed, SMT
  <2>5. DoubleLanes(r) \in Nat
    BY <2>3, <2>4, SMT
  <2> QED BY <2>5, Zenon DEF r
<1> QED BY <1>1, <1>2, SMT

LEMMA CfuIsNat ==
  ASSUME RealWidth, NEW op \in CfuOps, NEW x \in Nat, NEW y \in Nat
  PROVE  get_result(op, x, y) \in Nat
<1> DEFINE B(z, i) == Part(z, i, LaneBits)
           H(z, i) == Part(z, i, 2 * LaneBits)
<1>1. \A i \in 0 .. 3 : B(x, i) \in Int /\ B(y, i) \in Int
  BY PartIsInt, Zenon
<1>2. \A i \in 0 .. 1 : H(x, i) \in Int /\ H(y, i) \in Int
  BY PartIsInt, Zenon
<1>p. 2^LaneBits = 256
  BY Powers, SMT
<1>a. op \in AddSubOps => get_result(op, x, y) = AddSub(op, x, y)
  BY DEF get_result
<1>m. op \in MulOps => get_result(op, x, y) = Mul(op, x, y)
  BY DEF get_result, AddSubOps, MulOps
<1> HIDE DEF B, H
<1>3. CASE op = "S_ADDI8I8S_VV"
  <2> DEFINE f == [i \in 0 .. 3 |-> B(x, i) + B(y, i)]
  <2>1. f \in [0 .. 3 -> Int]
    BY <1>1, SMT
  <2>2. [i \in 0 .. 3 |-> Unsigned(B(x, i) + B(y, i), LaneBits)]
          = [i \in 0 .. 3 |-> Unsigned(f[i], LaneBits)]
    BY <2>1, Zenon
  <2>3. AddSub(op, x, y) = Lanes([i \in 0 .. 3 |-> Unsigned(B(x, i) + B(y, i), LaneBits)])
    BY <1>3 DEF AddSub, B
  <2> HIDE DEF f
  <2>4. get_result(op, x, y) = AddSub(op, x, y)
    BY <1>3, <1>a DEF AddSubOps
  <2> QED BY <2>1, <2>2, <2>3, <2>4, LanesAreNat, Zenon
<1>4. CASE op = "S_SUBI8I8S_VV"
  <2> DEFINE f == [i \in 0 .. 3 |-> B(x, i) - B(y, i)]
  <2>1. f \in [0 .. 3 -> Int]
    BY <1>1, SMT
  <2>2. [i \in 0 .. 3 |-> Unsigned(B(x, i) - B(y, i), LaneBits)]
          = [i \in 0 .. 3 |-> Unsigned(f[i], LaneBits)]
    BY <2>1, Zenon
  <2>3. AddSub(op, x, y) = Lanes([i \in 0 .. 3 |-> Unsigned(B(x, i) - B(y, i), LaneBits)])
    BY <1>4 DEF AddSub, B
  <2> HIDE DEF f
  <2>4. get_result(op, x, y) = AddSub(op, x, y)
    BY <1>4, <1>a DEF AddSubOps
  <2> QED BY <2>1, <2>2, <2>3, <2>4, LanesAreNat, Zenon
<1>5. CASE op = "S_ADDI16I16S_VV"
  <2> DEFINE f == [i \in 0 .. 1 |-> H(x, i) + H(y, i)]
  <2>1. f \in [0 .. 1 -> Int]
    BY <1>2, SMT
  <2>2. [i \in 0 .. 1 |-> Unsigned(H(x, i) + H(y, i), 2 * LaneBits)]
          = [i \in 0 .. 1 |-> Unsigned(f[i], 2 * LaneBits)]
    BY <2>1, Zenon
  <2>3. AddSub(op, x, y) = DoubleLanes([i \in 0 .. 1 |-> Unsigned(H(x, i) + H(y, i), 2 * LaneBits)])
    BY <1>5 DEF AddSub, H
  <2> HIDE DEF f
  <2>4. get_result(op, x, y) = AddSub(op, x, y)
    BY <1>5, <1>a DEF AddSubOps
  <2> QED BY <2>1, <2>2, <2>3, <2>4, LanesAreNat, Zenon
<1>6. CASE op = "S_SUBI16I16S_VV"
  <2> DEFINE f == [i \in 0 .. 1 |-> H(x, i) - H(y, i)]
  <2>1. f \in [0 .. 1 -> Int]
    BY <1>2, SMT
  <2>2. [i \in 0 .. 1 |-> Unsigned(H(x, i) - H(y, i), 2 * LaneBits)]
          = [i \in 0 .. 1 |-> Unsigned(f[i], 2 * LaneBits)]
    BY <2>1, Zenon
  <2>3. AddSub(op, x, y) = DoubleLanes([i \in 0 .. 1 |-> Unsigned(H(x, i) - H(y, i), 2 * LaneBits)])
    BY <1>6 DEF AddSub, H
  <2> HIDE DEF f
  <2>4. get_result(op, x, y) = AddSub(op, x, y)
    BY <1>6, <1>a DEF AddSubOps
  <2> QED BY <2>1, <2>2, <2>3, <2>4, LanesAreNat, Zenon
<1> DEFINE M(i) == B(x, i) * B(y, i)
<1>7. \A i \in 0 .. 3 : M(i) \in Int
  BY <1>1, SMT
<1>8. \A i \in 0 .. 3 : M(i) \div 256 \in Int
  BY <1>7, SMT
<1> HIDE DEF M
<1>9. CASE op = "S_PMULI8I16S_VV_L"
  <2> DEFINE f == [i \in 0 .. 1 |-> M(i)]
  <2>1. f \in [0 .. 1 -> Int]
    BY <1>7, SMT
  <2>2. [i \in 0 .. 1 |-> Unsigned(M(i), 2 * LaneBits)] = [i \in 0 .. 1 |-> Unsigned(f[i], 2 * LaneBits)]
    BY <2>1, Zenon
  <2>3. Mul(op, x, y) = DoubleLanes([i \in 0 .. 1 |-> Unsigned(M(i), 2 * LaneBits)])
    BY <1>9 DEF Mul, LaneMul, HighHalf, M, B
  <2> HIDE DEF f
  <2>4. get_result(op, x, y) = Mul(op, x, y)
    BY <1>9, <1>m DEF MulOps
  <2> QED BY <2>1, <2>2, <2>3, <2>4, LanesAreNat, Zenon
<1>10. CASE op = "S_PMULI8I16S_VV_H"
  <2> DEFINE f == [i \in 0 .. 1 |-> M(i + 2)]
  <2>1. f \in [0 .. 1 -> Int]
    BY <1>7, SMT
  <2>2. [i \in 0 .. 1 |-> Unsigned(M(i + 2), 2 * LaneBits)]
          = [i \in 0 .. 1 |-> Unsigned(f[i], 2 * LaneBits)]
    BY <2>1, Zenon
  <2>3. Mul(op, x, y) = DoubleLanes([i \in 0 .. 1 |-> Unsigned(M(i + 2), 2 * LaneBits)])
    BY <1>10 DEF Mul, LaneMul, HighHalf, M, B
  <2> HIDE DEF f
  <2>4. get_result(op, x, y) = Mul(op, x, y)
    BY <1>10, <1>m DEF MulOps
  <2> QED BY <2>1, <2>2, <2>3, <2>4, LanesAreNat, Zenon
<1>11. CASE op = "S_AMULI8I8S_VV_NQ"
  <2> DEFINE f == [i \in 0 .. 3 |-> M(i) \div 256]
  <2>1. f \in [0 .. 3 -> Int]
    BY <1>8, SMT
  <2>2. [i \in 0 .. 3 |-> Unsigned(M(i) \div 2^LaneBits, LaneBits)]
          = [i \in 0 .. 3 |-> Unsigned(f[i], LaneBits)]
    BY <1>p, <2>1, Zenon
  <2>3. Mul(op, x, y) = Lanes([i \in 0 .. 3 |-> Unsigned(M(i) \div 2^LaneBits, LaneBits)])
    BY <1>11 DEF Mul, LaneMul, HighHalf, M, B
  <2> HIDE DEF f
  <2>4. get_result(op, x, y) = Mul(op, x, y)
    BY <1>11, <1>m DEF MulOps
  <2> QED BY <2>1, <2>2, <2>3, <2>4, LanesAreNat, Zenon
<1>12. CASE op = "S_AMULI8I8S_VV_L"
  <2> DEFINE f == [i \in 0 .. 3 |-> M(i)]
  <2>1. f \in [0 .. 3 -> Int]
    BY <1>7, SMT
  <2>2. [i \in 0 .. 3 |-> Unsigned(M(i), LaneBits)] = [i \in 0 .. 3 |-> Unsigned(f[i], LaneBits)]
    BY <2>1, Zenon
  <2>3. Mul(op, x, y) = Lanes([i \in 0 .. 3 |-> Unsigned(M(i), LaneBits)])
    BY <1>12 DEF Mul, LaneMul, HighHalf, M, B
  <2> HIDE DEF f
  <2>4. get_result(op, x, y) = Mul(op, x, y)
    BY <1>12, <1>m DEF MulOps
  <2> QED BY <2>1, <2>2, <2>3, <2>4, LanesAreNat, Zenon
<1> QED
  BY <1>3, <1>4, <1>5, <1>6, <1>9, <1>10, <1>11, <1>12 DEF CfuOps, AddSubOps, MulOps

-----------------------------------------------------------------------------
(* The CPU: its types.                                                     *)

\* Memory has a cell at every address.
WholeMemory == Addr = Word

Request  == [kind : {"rd"}, i : Instr, addr : Word] \cup
            [kind : {"wr"}, i : Instr, addr : Word, data : Nat]
CfuInstr == {i \in Instr : i.op \in CfuOps}
Response == [kind : {"rd", "wr"}, i : Instr, data : Nat]

CpuType ==
  /\ imem \in Seq(Instr) /\ pc \in Nat /\ rf \in [Regs -> Nat] /\ mem \in [Addr -> Nat]
  /\ execEvents \in Nat
  /\ port \in [reg : Seq(Request), q : Seq(Request)] /\ Len(port.reg) <= 1
  /\ retry \in BOOLEAN
  /\ cfuReq \in Seq([i : CfuInstr, rs1 : Nat, rs2 : Nat]) /\ cfuResp \in Seq([i : Instr, rd : Nat])
  /\ bus \in Seq(Request) /\ busResp \in Seq(Response)

\* The assumption on the crossbar, as masterPortRetry uses it: it calls back only
\* for a request it has refused, which is then in the queue.
RetryFindsRequest == retry => port.q # <<>>

LEMMA InstrIs ==
  ASSUME NEW i \in Instr
  PROVE  /\ i.op \in Mnemonics /\ i.a1 \in Nat /\ i.a2 \in Nat /\ i.a3 \in Nat
         /\ i.op \in RegOps \cup CfuOps => i.a2 \in Regs /\ i.a3 \in Regs
         /\ i.op \in ImmOps \cup Loads \cup {"JALR"} => i.a2 \in Regs
         /\ i.op \in Stores => i.a1 \in Regs /\ i.a2 \in Regs
<1>1. i \in [op : Mnemonics, a1 : Nat, a2 : Nat, a3 : Nat, orig_line : Int]
  BY Zenon DEF Instr
<1>2. i.op \in Mnemonics /\ i.a1 \in Nat /\ i.a2 \in Nat /\ i.a3 \in Nat
  BY <1>1
<1>3. /\ i.op \in RegOps \cup CfuOps => i.a2 \in Regs /\ i.a3 \in Regs
      /\ i.op \in ImmOps \cup Loads \cup {"JALR"} => i.a2 \in Regs
      /\ i.op \in Stores => i.a1 \in Regs /\ i.a2 \in Regs
  BY Zenon DEF Instr
<1> QED BY <1>2, <1>3

\* What fetchInstr returns beyond the program is an instruction, too.
LEMMA CurrentIs ==
  ASSUME CpuType
  PROVE  current \in Instr
<1>1. UNIMPL \in Instr
  <2>1. UNIMPL \in [op : Mnemonics, a1 : Nat, a2 : Nat, a3 : Nat, orig_line : Int]
    <3>1. 0 \in Nat /\ -1 \in Int
      OBVIOUS
    <3>2. "UNIMPL" \in Mnemonics
      BY DEF Mnemonics
    <3> QED BY <3>1, <3>2, Zenon DEF UNIMPL
  <2>2. UNIMPL.op = "UNIMPL"
    BY DEF UNIMPL
  <2>3. UNIMPL.op \notin RegOps \cup CfuOps \cup ImmOps \cup Loads \cup {"JALR"} \cup Stores
    BY <2>2 DEF RegOps, CfuOps, AddSubOps, MulOps, ImmOps, RegOf, Loads, Stores
  <2> QED BY <2>1, <2>3, Zenon DEF Instr
<1>2. imem \in Seq(Instr) /\ pc \in Nat
  BY DEF CpuType
<1>3. CASE pc \div 4 < Len(imem)
  <2>1. current = imem[pc \div 4 + 1]
    BY <1>3 DEF current, fetchInstr
  <2>2. pc \div 4 + 1 \in 1 .. Len(imem)
    BY <1>2, <1>3
  <2> QED BY <1>2, <2>1, <2>2
<1>4. CASE ~ (pc \div 4 < Len(imem))
  BY <1>1, <1>4, Zenon DEF current, fetchInstr
<1> QED BY <1>3, <1>4

LEMMA ImmediateOps == DOMAIN RegOf \subseteq ImmOps /\ \A op \in DOMAIN RegOf : RegOf[op] \in RegOps
<1>1. DOMAIN RegOf = {"ADDI", "SLTI", "ANDI", "ORI", "XORI", "SLLI", "SRLI", "SRAI"}
  BY DEF RegOf
<1>2. /\ RegOf["ADDI"] = "ADD" /\ RegOf["SLTI"] = "SLT" /\ RegOf["ANDI"] = "AND"
      /\ RegOf["ORI"] = "OR" /\ RegOf["XORI"] = "XOR" /\ RegOf["SLLI"] = "SLL"
      /\ RegOf["SRLI"] = "SRL" /\ RegOf["SRAI"] = "SRA"
  BY DEF RegOf
<1>3. DOMAIN RegOf \subseteq ImmOps
  BY Zenon DEF ImmOps
<1> QED BY <1>1, <1>2, <1>3 DEF RegOps

\* The instructions that commit at once leave numbers in the registers.
LEMMA RegistersAfterType ==
  ASSUME RealWidth, CpuType, NEW regs \in RegistersAfter(current)
  PROVE  regs \in [Regs -> Nat]
<1>0. pc \in Nat /\ rf \in [Regs -> Nat]
  BY DEF CpuType
<1>1. PICK i \in Instr : i = current
  BY CurrentIs
<1>2. /\ i.a1 \in Nat /\ i.a2 \in Nat /\ i.a3 \in Nat
      /\ i.op \in RegOps => i.a2 \in Regs /\ i.a3 \in Regs
      /\ i.op \in ImmOps => i.a2 \in Regs
  BY InstrIs, Zenon
<1>3. \A v \in Nat : [rf EXCEPT ![i.a1] = v] \in [Regs -> Nat]
  BY <1>0
<1> DEFINE Set(values) == {[rf EXCEPT ![i.a1] = v] : v \in values}
<1>4. ASSUME NEW values, regs \in Set(values), values \subseteq Nat PROVE regs \in [Regs -> Nat]
  BY <1>3, <1>4
<1>5. CASE i.op \in RegOps
  <2>0. i.op \notin DOMAIN RegOf /\ i.op \notin {"SLTIU", "JAL", "JALR", "AUIPC", "LUI"}
    BY <1>5 DEF RegOf, RegOps
  <2>1. regs \in Set(Alu(i.op, rf[i.a2], rf[i.a3]))
    BY <1>1, <1>5, <2>0, Zenon DEF RegistersAfter
  <2>2. rf[i.a2] \in Nat /\ rf[i.a3] \in Nat
    BY <1>0, <1>2, <1>5
  <2>3. Alu(i.op, rf[i.a2], rf[i.a3]) \subseteq Nat
    BY <1>5, <2>2, AluIsNat
  <2> HIDE DEF Set
  <2> QED BY <1>4, <2>1, <2>3, Zenon
<1>6. CASE i.op \in DOMAIN RegOf
  <2>0. i.op \notin RegOps /\ i.op \notin {"SLTIU", "JAL", "JALR", "AUIPC", "LUI"}
    BY <1>6 DEF RegOf, RegOps
  <2>1. regs \in Set(Alu(RegOf[i.op], rf[i.a2], i.a3))
    BY <1>1, <1>6, <2>0, Zenon DEF RegistersAfter
  <2>2. rf[i.a2] \in Nat
    <3>1. i.a2 \in Regs
      BY <1>2, <1>6, ImmediateOps, Zenon
    <3> QED BY <1>0, <3>1
  <2>3. RegOf[i.op] \in RegOps
    BY <1>6, ImmediateOps, Zenon
  <2>4. Alu(RegOf[i.op], rf[i.a2], i.a3) \subseteq Nat
    BY <1>2, <2>2, <2>3, AluIsNat
  <2> HIDE DEF Set
  <2> QED BY <1>4, <2>1, <2>4, Zenon
<1>7. CASE i.op = "SLTIU"
  <2>0. i.op \notin RegOps /\ i.op \notin DOMAIN RegOf
    BY <1>7 DEF RegOf, RegOps
  <2>1. regs \in Set(Alu("SLTIU", rf[i.a2], i.a3))
    BY <1>1, <1>7, <2>0, Zenon DEF RegistersAfter
  <2>2. rf[i.a2] \in Nat
    <3>1. i.a2 \in Regs
      BY <1>2, <1>7, Zenon DEF ImmOps
    <3> QED BY <1>0, <3>1
  <2>3. Alu("SLTIU", rf[i.a2], i.a3) \subseteq Nat
    BY <1>2, <2>2, AluIsNat
  <2> HIDE DEF Set
  <2> QED BY <1>4, <2>1, <2>3, Zenon
<1> DEFINE Calc == RegOps \cup DOMAIN RegOf \cup {"SLTIU"}
<1>n. ASSUME i.op \in {"JAL", "JALR", "AUIPC", "LUI"} PROVE i.op \notin Calc
  BY <1>n DEF RegOf, RegOps
<1>8. CASE i.op \in {"JAL", "JALR"}
  <2>1. regs \in Set({pc + 4})
    BY <1>1, <1>8, <1>n, Zenon DEF RegistersAfter
  <2>2. {pc + 4} \subseteq Nat
    BY <1>0
  <2> HIDE DEF Set
  <2> QED BY <1>4, <2>1, <2>2, Zenon
<1>9. CASE i.op = "AUIPC"
  <2>1. regs \in Set({Unsigned(pc + i.a2 * 2^12, Width)})
    BY <1>1, <1>9, <1>n, Zenon DEF RegistersAfter
  <2>2. pc + i.a2 * 2^12 \in Int
    BY <1>0, <1>2
  <2>3. {Unsigned(pc + i.a2 * 2^12, Width)} \subseteq Nat
    BY <2>2, UnsignedIsWord
  <2> HIDE DEF Set
  <2> QED BY <1>4, <2>1, <2>3, Zenon
<1>10. CASE i.op = "LUI"
  <2>1. regs \in Set({Unsigned(i.a2 * 2^12, Width)})
    BY <1>1, <1>10, <1>n, Zenon DEF RegistersAfter
  <2>2. i.a2 * 2^12 \in Int
    BY <1>2
  <2>3. {Unsigned(i.a2 * 2^12, Width)} \subseteq Nat
    BY <2>2, UnsignedIsWord
  <2> HIDE DEF Set
  <2> QED BY <1>4, <2>1, <2>3, Zenon
<1>11. CASE i.op \notin Calc \cup {"JAL", "JALR", "AUIPC", "LUI"}
  <2>1. regs = rf
    BY <1>1, <1>11, Zenon DEF RegistersAfter
  <2> QED BY <1>0, <2>1
<1> QED BY <1>5, <1>6, <1>7, <1>8, <1>9, <1>10, <1>11, Zenon

LEMMA PcNextType ==
  ASSUME RealWidth, CpuType, NEW regs \in [Regs -> Nat]
  PROVE  PcNext(current, regs) \in Nat
<1>0. pc \in Nat
  BY DEF CpuType
<1>1. PICK i \in Instr : i = current
  BY CurrentIs
<1>2. i.a2 \in Nat /\ i.a3 \in Nat /\ (i.op = "JALR" => i.a2 \in Regs)
  BY InstrIs, Zenon
<1> DEFINE t == i.op \in Branches /\ BranchTaken(i.op, rf[i.a1], rf[i.a2])
<1>3. PcNext(i, regs) =
        CASE t -> i.a3 [] i.op = "JAL" -> i.a2
          [] i.op = "JALR" -> Unsigned(regs[i.a2] + i.a3, Width) [] OTHER -> pc + 4
  BY Zenon DEF PcNext
<1> HIDE DEF t
<1>4. ASSUME i.op = "JALR" PROVE Unsigned(regs[i.a2] + i.a3, Width) \in Nat
  <2>1. regs[i.a2] + i.a3 \in Int
    BY <1>2, <1>4
  <2> QED BY <2>1, UnsignedIsWord
<1>5. pc + 4 \in Nat
  BY <1>0
<1>6. t => i.op \notin {"JAL", "JALR"}
  BY DEF t, Branches
<1> QED BY <1>1, <1>2, <1>3, <1>4, <1>5, <1>6, Zenon

LEMMA AddressIsWord ==
  ASSUME RealWidth, CpuType, current.op \in Loads \cup Stores
  PROVE  Address \in Word
<1>1. current.a2 \in Regs /\ current.a3 \in Nat /\ rf \in [Regs -> Nat]
  BY CurrentIs, InstrIs, Zenon DEF CpuType
<1>2. rf[current.a2] + current.a3 \in Int
  BY <1>1
<1> QED BY <1>2, UnsignedIsWord DEF Address

\* A port of requests takes another one, or gives one away.
LEMMA PushType ==
  ASSUME NEW p \in [reg : Seq(Request), q : Seq(Request)], Len(p.reg) <= 1, NEW r \in Request
  PROVE  /\ PushOrQueue(p, r) \in [reg : Seq(Request), q : Seq(Request)]
         /\ Len(PushOrQueue(p, r).reg) <= 1
<1> USE DEF PushOrQueue
<1> HIDE DEF Request
<1>1. CASE p.reg = <<>>
  <2>1. PushOrQueue(p, r) = [reg |-> <<r>>, q |-> p.q]
    BY <1>1
  <2>2. <<r>> \in Seq(Request) /\ Len(<<r>>) = 1 /\ p.q \in Seq(Request)
    OBVIOUS
  <2> QED BY <2>1, <2>2
<1>2. CASE p.reg # <<>>
  <2>1. PushOrQueue(p, r) = [reg |-> p.reg, q |-> Append(p.q, r)]
    BY <1>2
  <2>2. Append(p.q, r) \in Seq(Request) /\ p.reg \in Seq(Request)
    OBVIOUS
  <2> QED BY <2>1, <2>2
<1> QED BY <1>1, <1>2

\* A response writes a number into a register, or nowhere.
LEMMA RespondType ==
  ASSUME CpuType, NEW i, NEW data \in Nat, Respond(i, data)
  PROVE  rf' \in [Regs -> Nat] /\ execEvents' \in Nat /\ pc' \in Nat
<1>1. rf \in [Regs -> Nat] /\ execEvents \in Nat /\ pc \in Nat
  BY DEF CpuType
<1>2. execEvents + 1 \in Nat /\ pc + 4 \in Nat
  BY <1>1
<1>3. [rf EXCEPT ![i.a1] = data] \in [Regs -> Nat]
  BY <1>1
<1> QED BY <1>2, <1>3, Zenon DEF Respond

LEMMA ExecuteType ==
  ASSUME RealWidth, CpuType, Execute
  PROVE  CpuType'
<1>0. /\ imem \in Seq(Instr) /\ pc \in Nat /\ rf \in [Regs -> Nat] /\ mem \in [Addr -> Nat]
      /\ execEvents \in Nat
      /\ port \in [reg : Seq(Request), q : Seq(Request)] /\ Len(port.reg) <= 1
      /\ retry \in BOOLEAN
      /\ cfuReq \in Seq([i : CfuInstr, rs1 : Nat, rs2 : Nat])
      /\ cfuResp \in Seq([i : Instr, rd : Nat])
      /\ bus \in Seq(Request) /\ busResp \in Seq(Response)
  BY DEF CpuType
<1>i. current \in Instr
  BY CurrentIs
<1>e. Exec => execEvents - 1 \in Nat
  BY <1>0 DEF Exec
<1>p. pc + 4 \in Nat
  BY <1>0
<1>1. CASE ExecOwn
  <2>1. rf' \in [Regs -> Nat]
    BY <1>1, RegistersAfterType DEF ExecOwn
  <2>2. pc' \in Nat
    BY <1>1, <2>1, PcNextType DEF ExecOwn
  <2>3. execEvents' \in Nat
    BY <1>0, <1>1, <1>e, Zenon DEF ExecOwn
  <2> QED BY <1>0, <1>1, <2>1, <2>2, <2>3, Zenon DEF ExecOwn, CpuType, outside
<1>2. CASE BusMemRead
  <2> DEFINE r == [kind |-> "rd", i |-> current, addr |-> Address]
  <2>1. Address \in Word
    BY <1>2, AddressIsWord, Zenon DEF BusMemRead
  <2>2. r \in Request
    <3>1. r \in [kind : {"rd"}, i : Instr, addr : Word]
      BY <1>i, <2>1
    <3> QED BY <3>1, Zenon DEF Request
  <2>3. port' = PushOrQueue(port, r)
    BY <1>2, Zenon DEF BusMemRead
  <2> HIDE DEF r
  <2>4. port' \in [reg : Seq(Request), q : Seq(Request)] /\ Len(port'.reg) <= 1
    BY <1>0, <2>2, <2>3, PushType, Zenon
  <2>5. retry' \in BOOLEAN /\ execEvents' \in Nat
    BY <1>2, <1>e, Zenon DEF BusMemRead
  <2> QED BY <1>0, <1>2, <2>4, <2>5, Zenon DEF BusMemRead, CpuType, outside
<1>3. CASE BusmemWrite
  <2> DEFINE r == [kind |-> "wr", i |-> current, addr |-> Address, data |-> rf[current.a1]]
  <2>1. Address \in Word
    BY <1>3, AddressIsWord, Zenon DEF BusmemWrite
  <2>a. rf[current.a1] \in Nat
    <3>1. current.a1 \in Regs
      BY <1>3, <1>i, InstrIs, Zenon DEF BusmemWrite
    <3> QED BY <1>0, <3>1
  <2>2. r \in Request
    <3>1. r \in [kind : {"wr"}, i : Instr, addr : Word, data : Nat]
      BY <1>i, <2>1, <2>a
    <3> QED BY <3>1, Zenon DEF Request
  <2>3. port' = PushOrQueue(port, r)
    BY <1>3, Zenon DEF BusmemWrite
  <2> HIDE DEF r
  <2>4. port' \in [reg : Seq(Request), q : Seq(Request)] /\ Len(port'.reg) <= 1
    BY <1>0, <2>2, <2>3, PushType, Zenon
  <2>5. retry' \in BOOLEAN /\ execEvents' \in Nat /\ pc' \in Nat
    BY <1>0, <1>3, <1>e, <1>p, Zenon DEF BusmemWrite
  <2> QED BY <1>0, <1>3, <2>4, <2>5, Zenon DEF BusmemWrite, CpuType, outside
<1>4. CASE CFUReq
  <2> DEFINE r == [i |-> current, rs1 |-> rf[current.a2], rs2 |-> rf[current.a3]]
             R3 == [i : CfuInstr, rs1 : Nat, rs2 : Nat]
  <2>1. current.a2 \in Regs /\ current.a3 \in Regs /\ current \in CfuInstr
    BY <1>4, <1>i, InstrIs, Zenon DEF CFUReq, CfuInstr
  <2>2. r \in R3
    BY <1>0, <2>1
  <2>3. cfuReq' = Append(cfuReq, r)
    BY <1>4, Zenon DEF CFUReq
  <2>4. cfuReq \in Seq(R3)
    BY <1>0
  <2>5. cfuReq' \in Seq(R3)
    <3> HIDE DEF r, R3
    <3> QED BY <2>2, <2>3, <2>4
  <2> QED BY <1>0, <1>4, <1>e, <2>5, Zenon DEF CFUReq, CpuType, outside
<1> QED BY <1>1, <1>2, <1>3, <1>4, Zenon DEF Execute

LEMMA HandlersType ==
  ASSUME CpuType, RetryFindsRequest, Handlers
  PROVE  CpuType'
<1>0. /\ imem \in Seq(Instr) /\ pc \in Nat /\ rf \in [Regs -> Nat] /\ mem \in [Addr -> Nat]
      /\ execEvents \in Nat
      /\ port \in [reg : Seq(Request), q : Seq(Request)] /\ Len(port.reg) <= 1
      /\ retry \in BOOLEAN
      /\ cfuReq \in Seq([i : CfuInstr, rs1 : Nat, rs2 : Nat])
      /\ cfuResp \in Seq([i : Instr, rd : Nat])
      /\ bus \in Seq(Request) /\ busResp \in Seq(Response)
  BY DEF CpuType
<1>1. CASE masterPortRetry
  <2>1. port.q \in Seq(Request) /\ port.q # <<>> /\ port.reg = <<>>
    BY <1>0, <1>1 DEF masterPortRetry, RetryFindsRequest
  <2>2. PICK r \in Request : r = Head(port.q)
    BY <2>1
  <2>3. Tail(port.q) \in Seq(Request) /\ <<r>> \in Seq(Request) /\ Len(<<r>>) <= 1
    BY <2>1
  <2>4. port' = [reg |-> <<r>>, q |-> Tail(port.q)] \/ port' = [reg |-> <<r>>, q |-> port.q]
    BY <1>1, <2>1, <2>2, Zenon DEF masterPortRetry, trySendPacket
  <2>5. port' \in [reg : Seq(Request), q : Seq(Request)] /\ Len(port'.reg) <= 1
    <3>1. PICK w \in Seq(Request) : port' = [reg |-> <<r>>, q |-> w]
      BY <2>1, <2>3, <2>4, Zenon
    <3>2. PICK v \in Seq(Request) : v = <<r>> /\ Len(v) <= 1
      BY <2>3, Zenon
    <3>3. port' = [reg |-> v, q |-> w]
      BY <3>1, <3>2, Zenon
    <3> HIDE DEF Request
    <3> QED BY <3>2, <3>3
  <2>6. pc + 4 \in Nat /\ execEvents + 1 \in Nat
    BY <1>0
  <2>7. retry' \in BOOLEAN /\ pc' \in Nat /\ execEvents' \in Nat
    BY <1>0, <1>1, <2>6, Zenon DEF masterPortRetry
  <2> QED BY <1>0, <1>1, <2>5, <2>7, Zenon DEF masterPortRetry, CpuType, outside
<1>2. CASE memReadXBarRespHandler
  <2>1. busResp # <<>> /\ busResp' = Tail(busResp)
    BY <1>2 DEF memReadXBarRespHandler
  <2>2. Head(busResp) \in Response /\ busResp' \in Seq(Response)
    <3> HIDE DEF Response
    <3> QED BY <1>0, <2>1
  <2>3. Head(busResp).data \in Nat
    BY <2>2 DEF Response
  <2>4. rf' \in [Regs -> Nat] /\ execEvents' \in Nat /\ pc' \in Nat
    BY <1>2, <2>3, RespondType DEF memReadXBarRespHandler
  <2> QED BY <1>0, <1>2, <2>2, <2>4, Zenon DEF memReadXBarRespHandler, CpuType
<1>3. CASE memWriteXBarRespHandler
  <2>1. busResp' \in Seq(Response)
    <3> HIDE DEF Response
    <3> QED BY <1>0, <1>3 DEF memWriteXBarRespHandler
  <2> QED BY <1>0, <1>3, <2>1, Zenon DEF memWriteXBarRespHandler, CpuType, cpu
<1>4. CASE CFURespHandler
  <2>1. cfuResp # <<>> /\ cfuResp' = Tail(cfuResp)
    BY <1>4 DEF CFURespHandler
  <2> DEFINE R2 == [i : Instr, rd : Nat]
  <2>2. Head(cfuResp) \in R2 /\ cfuResp' \in Seq(R2)
    <3>1. cfuResp \in Seq(R2)
      BY <1>0
    <3> HIDE DEF R2
    <3> QED BY <2>1, <3>1
  <2>3. Head(cfuResp).rd \in Nat
    BY <2>2
  <2>4. rf' \in [Regs -> Nat] /\ execEvents' \in Nat /\ pc' \in Nat
    BY <1>4, <2>3, RespondType DEF CFURespHandler
  <2> QED BY <1>0, <1>4, <2>2, <2>4, Zenon DEF CFURespHandler, CpuType, outside
<1> QED BY <1>1, <1>2, <1>3, <1>4, Zenon DEF Handlers

LEMMA EnvironmentType ==
  ASSUME RealWidth, WholeMemory, CpuType, Environment
  PROVE  CpuType'
<1>0. /\ imem \in Seq(Instr) /\ pc \in Nat /\ rf \in [Regs -> Nat] /\ mem \in [Addr -> Nat]
      /\ execEvents \in Nat
      /\ port \in [reg : Seq(Request), q : Seq(Request)] /\ Len(port.reg) <= 1
      /\ retry \in BOOLEAN
      /\ cfuReq \in Seq([i : CfuInstr, rs1 : Nat, rs2 : Nat])
      /\ cfuResp \in Seq([i : Instr, rd : Nat])
      /\ bus \in Seq(Request) /\ busResp \in Seq(Response)
  BY DEF CpuType
<1>1. CASE packet_handler
  <2> DEFINE R3 == [i : CfuInstr, rs1 : Nat, rs2 : Nat]
             R2 == [i : Instr, rd : Nat]
  <2>1. cfuReq # <<>> /\ cfuReq' = Tail(cfuReq)
    BY <1>1 DEF packet_handler
  <2>2. cfuReq \in Seq(R3) /\ cfuResp \in Seq(R2)
    BY <1>0
  <2>3. Head(cfuReq) \in R3 /\ cfuReq' \in Seq(R3)
    <3> HIDE DEF R3
    <3> QED BY <2>1, <2>2
  <2>4. PICK h \in R3 : h = Head(cfuReq)
    BY <2>3
  <2>5. h.i \in CfuInstr /\ h.rs1 \in Nat /\ h.rs2 \in Nat
    BY <2>4
  <2>6. h.i \in Instr /\ h.i.op \in CfuOps
    BY <2>5, Zenon DEF CfuInstr
  <2>7. get_result(h.i.op, h.rs1, h.rs2) \in Nat
    BY <2>5, <2>6, CfuIsNat
  <2> DEFINE d == [i |-> h.i, rd |-> get_result(h.i.op, h.rs1, h.rs2)]
  <2>8. d \in R2
    BY <2>6, <2>7
  <2>9. cfuResp' = Append(cfuResp, d)
    BY <1>1, <2>4, Zenon DEF packet_handler
  <2>10. cfuResp' \in Seq(R2)
    <3> HIDE DEF d, R2
    <3> QED BY <2>2, <2>8, <2>9
  <2> QED BY <1>0, <1>1, <2>3, <2>10, Zenon DEF packet_handler, CpuType, cpu, outside
<1>2. CASE BusAccept
  <2>1. port.reg \in Seq(Request) /\ port.q \in Seq(Request) /\ port.reg # <<>>
    BY <1>0, <1>2 DEF BusAccept
  <2>2. port.reg[1] \in Request
    <3> HIDE DEF Request
    <3> QED BY <2>1
  <2>3. bus' \in Seq(Request)
    <3> HIDE DEF Request
    <3> QED BY <1>0, <1>2, <2>2 DEF BusAccept
  <2>4. port' = [reg |-> <<>>, q |-> port.q] /\ <<>> \in Seq(Request) /\ Len(<<>>) = 0
    BY <1>2 DEF BusAccept, Forward
  <2>5. port' \in [reg : Seq(Request), q : Seq(Request)] /\ Len(port'.reg) <= 1
    BY <2>1, <2>4
  <2> QED BY <1>0, <1>2, <2>3, <2>5, Zenon DEF BusAccept, CpuType, cpu
<1>3. CASE MemServe
  <2>1. bus # <<>> /\ bus' = Tail(bus)
    BY <1>3 DEF MemServe
  <2>2. Head(bus) \in Request /\ bus' \in Seq(Request)
    <3> HIDE DEF Request
    <3> QED BY <1>0, <2>1
  <2>3. PICK r \in Request : r = Head(bus)
    BY <2>2
  <2>4. r.i \in Instr /\ r.addr \in Word /\ r.kind \in {"rd", "wr"} /\ (r.kind # "rd" => r.data \in Nat)
    BY <2>3 DEF Request
  <2>5. mem[r.addr] \in Nat
    BY <1>0, <2>4 DEF WholeMemory
  <2>6. CASE r.kind = "rd"
    <3> DEFINE d == [kind |-> "rd", i |-> r.i, data |-> mem[r.addr]]
    <3>1. busResp' = Append(busResp, d) /\ mem' = mem
      BY <1>3, <2>3, <2>6, Zenon DEF MemServe
    <3>2. d \in Response
      BY <2>4, <2>5 DEF Response
    <3>3. busResp' \in Seq(Response)
      <4> HIDE DEF d, Response
      <4> QED BY <1>0, <3>1, <3>2
    <3> QED BY <1>0, <1>3, <2>2, <3>1, <3>3, Zenon DEF MemServe, CpuType, cpu
  <2>7. CASE r.kind # "rd"
    <3> DEFINE d == [kind |-> "wr", i |-> r.i, data |-> 0]
    <3>1. busResp' = Append(busResp, d) /\ mem' = [mem EXCEPT ![r.addr] = r.data]
      BY <1>3, <2>3, <2>7, Zenon DEF MemServe
    <3>2. d \in Response
      BY <2>4 DEF Response
    <3>3. busResp' \in Seq(Response)
      <4> HIDE DEF d, Response
      <4> QED BY <1>0, <3>1, <3>2
    <3>4. mem' \in [Addr -> Nat]
      BY <1>0, <2>4, <2>7, <3>1
    <3> QED BY <1>0, <1>3, <2>2, <3>3, <3>4, Zenon DEF MemServe, CpuType, cpu
  <2> QED BY <2>6, <2>7
<1> QED BY <1>1, <1>2, <1>3, Zenon DEF Environment

-----------------------------------------------------------------------------
(* The CPU: one instruction at a time.                                     *)

IsLoad(r) == IF r.kind = "rd" THEN 1 ELSE 0

LEMMA LoadsIsNat ==
  ASSUME NEW s, IsSeq(s)
  PROVE  LoadsIn(s) \in Nat
<1> DEFINE A == {k \in 1 .. Len(s) : s[k].kind = "rd"}
<1>1. PICK n \in Nat : n = Len(s)
  BY LenIsNat
<1>2. A \in SUBSET (1 .. n)
  BY <1>1
<1> HIDE DEF A
<1>3. Cardinality(A) \in Nat
  BY <1>2, CountIsNat
<1> QED BY <1>3, Zenon DEF LoadsIn, A

LEMMA LoadsAppend ==
  ASSUME NEW s, IsSeq(s), NEW r
  PROVE  LoadsIn(Append(s, r)) = LoadsIn(s) + IsLoad(r)
<1> DEFINE t == Append(s, r)
           A == {k \in 1 .. Len(s) : s[k].kind = "rd"}
           B == {k \in 1 .. Len(t) : t[k].kind = "rd"}
<1>1. PICK n \in Nat : n = Len(s)
  BY LenIsNat
<1>2. Len(t) = n + 1 /\ t[n + 1] = r /\ \A k \in 1 .. n : t[k] = s[k]
  BY <1>1, AppendIsSeq
<1> HIDE DEF t
<1>3. A \in SUBSET (1 .. n) /\ B \in SUBSET (1 .. n + 1)
  BY <1>1, <1>2
<1>4. \A k \in 1 .. n : k \in A <=> k \in B
  BY <1>1, <1>2
<1>5. n + 1 \in B <=> r.kind = "rd"
  BY <1>2
<1>6. LoadsIn(s) = Cardinality(A) /\ LoadsIn(t) = Cardinality(B)
  BY Zenon DEF LoadsIn
<1> HIDE DEF A, B
<1>7. Cardinality(B) = Cardinality(A) + (IF n + 1 \in B THEN 1 ELSE 0)
  BY <1>3, <1>4, CountAppend
<1> QED BY <1>5, <1>6, <1>7, Zenon DEF t, IsLoad

LEMMA LoadsTail ==
  ASSUME NEW s, IsSeq(s), s # <<>>
  PROVE  LoadsIn(s) = LoadsIn(Tail(s)) + IsLoad(Head(s))
<1> DEFINE t == Tail(s)
           A == {k \in 1 .. Len(s) : s[k].kind = "rd"}
           B == {k \in 1 .. Len(t) : t[k].kind = "rd"}
<1>1. PICK n \in Nat \ {0} : n = Len(s)
  BY LenIsNat, TailIsSeq
<1>2. Len(t) = n - 1 /\ Head(s) = s[1] /\ \A k \in 1 .. n - 1 : t[k] = s[k + 1]
  BY <1>1, TailIsSeq
<1> HIDE DEF t
<1>3. A \in SUBSET (1 .. n) /\ B \in SUBSET (1 .. n - 1)
  BY <1>1, <1>2
<1>4. \A k \in 1 .. n - 1 : k \in B <=> k + 1 \in A
  BY <1>1, <1>2
<1>5. 1 \in A <=> Head(s).kind = "rd"
  BY <1>1, <1>2
<1>6. LoadsIn(s) = Cardinality(A) /\ LoadsIn(t) = Cardinality(B)
  BY Zenon DEF LoadsIn
<1> HIDE DEF A, B
<1>7. Cardinality(A) = Cardinality(B) + (IF 1 \in A THEN 1 ELSE 0)
  BY <1>3, <1>4, CountTail
<1> QED BY <1>5, <1>6, <1>7, Zenon DEF t, IsLoad

LEMMA LoadsEmpty == LoadsIn(<<>>) = 0
<1>1. {k \in 1 .. Len(<<>>) : <<>>[k].kind = "rd"} = {}
  OBVIOUS
<1> QED BY <1>1, FS_EmptySet, Zenon DEF LoadsIn

LEMMA LoadsOne ==
  ASSUME NEW r
  PROVE  LoadsIn(<<r>>) = IsLoad(r)
<1>1. IsSeq(<<>>) /\ Append(<<>>, r) = <<r>>
  BY EmptyIsSeq
<1>2. LoadsIn(<<r>>) = LoadsIn(<<>>) + IsLoad(r)
  BY <1>1, LoadsAppend, Zenon
<1>3. 0 + IsLoad(r) = IsLoad(r)
  BY DEF IsLoad
<1> QED BY <1>2, <1>3, LoadsEmpty, Zenon

\* What a sequence of one packet at most adds.
LEMMA LoadsRegister ==
  ASSUME NEW s, IsSeq(s), Len(s) <= 1, s # <<>>
  PROVE  LoadsIn(s) = IsLoad(s[1])
<1>1. LoadsIn(s) = LoadsIn(Tail(s)) + IsLoad(Head(s))
  BY LoadsTail
<1>a. IsSeq(Tail(s)) /\ Len(Tail(s)) = Len(s) - 1 /\ Len(s) > 0 /\ Head(s) = s[1]
  BY TailIsSeq, Zenon
<1>b. Len(s) \in Nat
  BY LenIsNat, Zenon
<1>2. IsSeq(Tail(s)) /\ Len(Tail(s)) = 0 /\ Head(s) = s[1]
  BY <1>a, <1>b
<1>3. Tail(s) = <<>>
  BY <1>2, LenIsNat
<1>4. 0 + IsLoad(s[1]) = IsLoad(s[1])
  BY DEF IsLoad
<1> QED BY <1>1, <1>2, <1>3, <1>4, LoadsEmpty, Zenon

\* Where the loads and the requests of the CFU are.
Queues ==
  /\ IsSeq(cfuReq) /\ IsSeq(cfuResp) /\ IsSeq(bus) /\ IsSeq(busResp)
  /\ IsSeq(port.reg) /\ IsSeq(port.q) /\ Len(port.reg) <= 1

LEMMA TypeQueues ==
  ASSUME CpuType
  PROVE  Queues
<1>1. port.reg \in Seq(Request) /\ port.q \in Seq(Request) /\ Len(port.reg) <= 1
  BY DEF CpuType
<1>2. /\ cfuReq \in Seq([i : CfuInstr, rs1 : Nat, rs2 : Nat])
      /\ cfuResp \in Seq([i : Instr, rd : Nat])
      /\ bus \in Seq(Request) /\ busResp \in Seq(Response)
  BY DEF CpuType
<1> QED BY <1>1, <1>2, SeqIsSeq, Zenon DEF Queues

LEMMA CountsAreNat ==
  ASSUME Queues
  PROVE  /\ Len(cfuReq) \in Nat /\ Len(cfuResp) \in Nat
         /\ LoadsIn(port.reg) \in Nat /\ LoadsIn(port.q) \in Nat
         /\ LoadsIn(bus) \in Nat /\ LoadsIn(busResp) \in Nat
BY LenIsNat, LoadsIsNat, Zenon DEF Queues

\* What OneInstruction says of a CPU whose stores were all accepted.
Progress == Activity = 1 \/ (Activity = 0 /\ AtHcf)

\* The inductive invariant: the types, a request for the retry that is owed
\* (masterPortRetry takes the front of the queue), and the program goes on in
\* one place until its HCF.
CpuInv ==
  /\ CpuType
  /\ RetryFindsRequest
  /\ StoreRefused \/ Progress

LEMMA PushLoads ==
  ASSUME NEW p, IsSeq(p.reg), IsSeq(p.q), NEW r
  PROVE  LoadsIn(PushOrQueue(p, r).reg) + LoadsIn(PushOrQueue(p, r).q)
           = LoadsIn(p.reg) + LoadsIn(p.q) + IsLoad(r)
<1>0. LoadsIn(p.reg) \in Nat /\ LoadsIn(p.q) \in Nat /\ IsLoad(r) \in Nat
  <2>1. IsLoad(r) \in Nat
    BY DEF IsLoad
  <2> QED BY <2>1, LoadsIsNat, Zenon
<1>1. CASE p.reg = <<>>
  <2>1. PushOrQueue(p, r).reg = <<r>> /\ PushOrQueue(p, r).q = p.q
    BY <1>1 DEF PushOrQueue
  <2>2. LoadsIn(<<r>>) = IsLoad(r) /\ LoadsIn(p.reg) = 0
    BY <1>1, LoadsOne, LoadsEmpty, Zenon
  <2> QED BY <1>0, <2>1, <2>2
<1>2. CASE p.reg # <<>>
  <2>1. PushOrQueue(p, r).reg = p.reg /\ PushOrQueue(p, r).q = Append(p.q, r)
    BY <1>2 DEF PushOrQueue
  <2>2. LoadsIn(Append(p.q, r)) = LoadsIn(p.q) + IsLoad(r)
    BY LoadsAppend, Zenon
  <2> QED BY <1>0, <2>1, <2>2
<1> QED BY <1>1, <1>2

\* What a step does to the queue of requests.
Kept     == port'.q = port.q /\ (retry' => retry)
Queued   == \E r : port'.q = Append(port.q, r)
ReadSent == port.q # <<>> /\ Head(port.q).kind = "rd" /\ port'.q = Tail(port.q) /\ retry' = FALSE

LEMMA QueueSteps ==
  ASSUME CpuType, RetryFindsRequest, Next
  PROVE  Kept \/ Queued \/ ReadSent
<1>1. ASSUME port' = port, retry' = retry PROVE Kept
  BY <1>1 DEF Kept
<1>2. ASSUME NEW r, port' = PushOrQueue(port, r), port.reg = <<>> PROVE port'.q = port.q
  BY <1>2 DEF PushOrQueue
<1>3. ASSUME NEW r, port' = PushOrQueue(port, r), port.reg # <<>> PROVE Queued
  <2>1. port'.q = Append(port.q, r)
    BY <1>3 DEF PushOrQueue
  <2> QED BY <2>1, Zenon DEF Queued
<1>4. CASE Execute
  <2>1. CASE ExecOwn \/ CFUReq
    BY <1>1, <2>1, Zenon DEF ExecOwn, CFUReq
  <2>2. CASE BusMemRead
    <3>1. CASE port.reg = <<>>
      <4>1. port'.q = port.q
        BY <1>2, <2>2, <3>1, Zenon DEF BusMemRead
      <4>2. retry' => retry
        BY <2>2, <3>1, Zenon DEF BusMemRead
      <4> QED BY <4>1, <4>2, Zenon DEF Kept
    <3>2. CASE port.reg # <<>>
      BY <1>3, <2>2, <3>2, Zenon DEF BusMemRead
    <3> QED BY <3>1, <3>2
  <2>3. CASE BusmemWrite
    <3>1. CASE port.reg = <<>>
      <4>1. port'.q = port.q
        BY <1>2, <2>3, <3>1, Zenon DEF BusmemWrite
      <4>2. retry' => retry
        BY <2>3, <3>1, Zenon DEF BusmemWrite
      <4> QED BY <4>1, <4>2, Zenon DEF Kept
    <3>2. CASE port.reg # <<>>
      BY <1>3, <2>3, <3>2, Zenon DEF BusmemWrite
    <3> QED BY <3>1, <3>2
  <2> QED BY <1>4, <2>1, <2>2, <2>3, Zenon DEF Execute
<1>5. CASE Handlers
  <2>1. CASE masterPortRetry
    <3>0. port.q # <<>> /\ port.reg = <<>> /\ retry' = FALSE
      BY <2>1, Zenon DEF masterPortRetry, RetryFindsRequest
    <3>1. CASE Head(port.q).kind = "rd"
      <4>1. port' = [reg |-> <<Head(port.q)>>, q |-> Tail(port.q)]
        BY <2>1, <3>0, <3>1, Zenon DEF masterPortRetry, trySendPacket
      <4>2. port'.q = Tail(port.q)
        BY <4>1
      <4> QED BY <3>0, <3>1, <4>2, Zenon DEF ReadSent
    <3>2. CASE Head(port.q).kind # "rd"
      <4>1. port' = [reg |-> <<Head(port.q)>>, q |-> port.q]
        BY <2>1, <3>2, Zenon DEF masterPortRetry
      <4>2. port'.q = port.q
        BY <4>1
      <4> QED BY <3>0, <4>2, Zenon DEF Kept
    <3> QED BY <3>1, <3>2
  <2>2. CASE memReadXBarRespHandler \/ memWriteXBarRespHandler \/ CFURespHandler
    BY <1>1, <2>2, Zenon DEF memReadXBarRespHandler, memWriteXBarRespHandler, CFURespHandler
  <2> QED BY <1>5, <2>1, <2>2, Zenon DEF Handlers
<1>6. CASE Environment
  <2>1. CASE BusAccept
    <3>1. port' = [reg |-> <<>>, q |-> port.q] /\ retry' = retry
      BY <2>1, Zenon DEF BusAccept, Forward
    <3>2. port'.q = port.q
      BY <3>1
    <3> QED BY <3>1, <3>2, Zenon DEF Kept
  <2>2. CASE packet_handler \/ MemServe
    BY <1>1, <2>2, Zenon DEF packet_handler, MemServe
  <2> QED BY <1>6, <2>1, <2>2, Zenon DEF Environment
<1> QED BY <1>4, <1>5, <1>6, Zenon DEF Next

\* A retry that is owed finds a request, and a store in the queue stays.
LEMMA QueueKept ==
  ASSUME CpuType, RetryFindsRequest, Next
  PROVE  RetryFindsRequest' /\ (StoreRefused => StoreRefused')
<1>0. PICK n \in Nat : IsSeq(port.q) /\ n = Len(port.q)
  BY TypeQueues, LenIsNat DEF Queues
<1>1. CASE Kept
  BY <1>1, Zenon DEF Kept, StoreRefused, RetryFindsRequest
<1>2. CASE Queued
  <2>1. PICK r : port'.q = Append(port.q, r)
    BY <1>2 DEF Queued
  <2>2. PICK s : s = Append(port.q, r)
    OBVIOUS
  <2>3. Len(s) = n + 1 /\ \A k \in 1 .. n : s[k] = port.q[k]
    BY <1>0, <2>2, AppendIsSeq
  <2>4. s # <<>>
    BY <2>3
  <2>5. ASSUME NEW k \in 1 .. n, port.q[k].kind = "wr"
        PROVE  k \in 1 .. Len(s) /\ s[k].kind = "wr"
    BY <2>3, <2>5
  <2> QED BY <1>0, <2>1, <2>2, <2>4, <2>5, Zenon DEF StoreRefused, RetryFindsRequest
<1>3. CASE ReadSent
  <2>1. PICK s : s = Tail(port.q) /\ port'.q = s
    BY <1>3 DEF ReadSent
  <2>2. port.q # <<>> /\ Head(port.q).kind = "rd" /\ retry' = FALSE
    BY <1>3, Zenon DEF ReadSent
  <2>3. /\ Len(s) = n - 1 /\ n > 0 /\ Head(port.q) = port.q[1]
        /\ \A k \in 1 .. n - 1 : s[k] = port.q[k + 1]
    BY <1>0, <2>1, <2>2, TailIsSeq
  <2>4. ASSUME NEW k \in 1 .. n, port.q[k].kind = "wr"
        PROVE  k - 1 \in 1 .. Len(s) /\ s[k - 1].kind = "wr"
    <3>1. k # 1
      BY <2>2, <2>3, <2>4
    <3>2. k - 1 \in 1 .. n - 1 /\ (k - 1) + 1 = k
      BY <3>1
    <3> QED BY <2>3, <2>4, <3>2
  <2> QED BY <1>0, <2>1, <2>2, <2>4, Zenon DEF StoreRefused, RetryFindsRequest
<1> QED BY <1>1, <1>2, <1>3, QueueSteps

-----------------------------------------------------------------------------
(* The steps and what keeps the program going.                             *)

LEMMA Steady ==
  ASSUME Progress, Activity' = Activity, pc' = pc, imem' = imem
  PROVE  Progress'
<1>1. AtHcf' = AtHcf
  BY Zenon DEF AtHcf, fetchInstr
<1> QED BY <1>1, Zenon DEF Progress

LEMMA Going ==
  ASSUME Queues, Progress, execEvents \in Nat, execEvents > 0
  PROVE  Activity = 1
BY CountsAreNat DEF Progress, Activity

LEMMA ExecOwnProgress ==
  ASSUME CpuType, Queues, Progress, ExecOwn
  PROVE  Progress'
<1>0. execEvents \in Nat /\ pc \in Nat /\ execEvents > 0
  BY DEF CpuType, ExecOwn, Exec
<1>1. Activity = 1
  BY <1>0, Going
<1>2. /\ imem' = imem /\ port' = port /\ cfuReq' = cfuReq /\ cfuResp' = cfuResp
      /\ bus' = bus /\ busResp' = busResp
  BY Zenon DEF ExecOwn, outside
<1>c. /\ Len(cfuReq)' = Len(cfuReq) /\ Len(cfuResp)' = Len(cfuResp)
      /\ LoadsIn(port.reg)' = LoadsIn(port.reg) /\ LoadsIn(port.q)' = LoadsIn(port.q)
      /\ LoadsIn(bus)' = LoadsIn(bus) /\ LoadsIn(busResp)' = LoadsIn(busResp)
  BY <1>2, Zenon DEF LoadsIn
<1>3. CASE current.op = "HCF"
  <2>1. execEvents' = execEvents - 1
    BY <1>3 DEF ExecOwn
  <2>2. Activity' = 0
    BY <1>0, <1>1, <1>c, <2>1, CountsAreNat DEF Activity
  <2>3. pc' = pc + 4
    <3>1. current.op \notin Branches /\ current.op # "JAL" /\ current.op # "JALR"
      BY <1>3 DEF Branches
    <3>2. PcNext(current, rf') = pc + 4
      BY <3>1, Zenon DEF PcNext
    <3> QED BY <3>2, Zenon DEF ExecOwn
  <2>4. pc' >= 4 /\ pc' - 4 = pc
    BY <1>0, <2>3
  <2>5. AtHcf'
    <3>1. fetchInstr(pc - 4)' = fetchInstr(pc)
      BY <1>2, <2>4, Zenon DEF fetchInstr
    <3> QED BY <1>3, <2>4, <3>1, Zenon DEF AtHcf, current
  <2> QED BY <2>2, <2>5, Zenon DEF Progress
<1>4. CASE current.op # "HCF"
  <2>1. execEvents' = execEvents
    BY <1>4 DEF ExecOwn
  <2>2. Activity' = Activity
    BY <1>c, <2>1, Zenon DEF Activity
  <2> QED BY <1>1, <2>2, Zenon DEF Progress
<1> QED BY <1>3, <1>4

LEMMA ReadProgress ==
  ASSUME CpuType, Queues, Progress, BusMemRead
  PROVE  Progress'
<1>0. execEvents \in Nat /\ execEvents > 0
  BY DEF CpuType, BusMemRead, Exec
<1>1. Activity = 1
  BY <1>0, Going
<1> DEFINE r == [kind |-> "rd", i |-> current, addr |-> Address]
<1>2. port' = PushOrQueue(port, r) /\ execEvents' = execEvents - 1
  BY Zenon DEF BusMemRead
<1>3. IsLoad(r) = 1
  BY DEF IsLoad
<1> HIDE DEF r
<1>4. LoadsIn(port'.reg) + LoadsIn(port'.q) = LoadsIn(port.reg) + LoadsIn(port.q) + IsLoad(r)
  BY <1>2, PushLoads, Zenon DEF Queues
<1>5. cfuReq' = cfuReq /\ cfuResp' = cfuResp /\ bus' = bus /\ busResp' = busResp
  BY Zenon DEF BusMemRead, outside
<1>6. IsSeq(port'.reg) /\ IsSeq(port'.q)
  <2>1. CASE port.reg = <<>>
    <3>1. port'.reg = <<r>> /\ port'.q = port.q
      BY <1>2, <2>1 DEF PushOrQueue
    <3> QED BY <3>1, OneIsSeq, Zenon DEF Queues
  <2>2. CASE port.reg # <<>>
    <3>1. port'.reg = port.reg /\ port'.q = Append(port.q, r)
      BY <1>2, <2>2 DEF PushOrQueue
    <3>2. IsSeq(port.reg) /\ IsSeq(port.q)
      BY Zenon DEF Queues
    <3>3. IsSeq(Append(port.q, r))
      BY <3>2, AppendIsSeq
    <3> QED BY <3>1, <3>2, <3>3, Zenon
  <2> QED BY <2>1, <2>2
<1>7. LoadsIn(port'.reg) \in Nat /\ LoadsIn(port'.q) \in Nat
  BY <1>6, LoadsIsNat, Zenon
<1>8. Activity' = execEvents' + Len(cfuReq) + Len(cfuResp)
            + LoadsIn(port'.reg) + LoadsIn(port'.q) + LoadsIn(bus) + LoadsIn(busResp)
  BY <1>5, Zenon DEF Activity, LoadsIn
<1>9. 1 = execEvents + Len(cfuReq) + Len(cfuResp)
            + LoadsIn(port.reg) + LoadsIn(port.q) + LoadsIn(bus) + LoadsIn(busResp)
  BY <1>1, Zenon DEF Activity
<1>10. execEvents' = execEvents - 1
  BY <1>2
<1>n. PICK a \in Nat, b \in Nat : a = LoadsIn(port'.reg) /\ b = LoadsIn(port'.q)
  BY <1>7
<1>m. PICK c \in Nat, d \in Nat : c = LoadsIn(port.reg) /\ d = LoadsIn(port.q)
  BY CountsAreNat
<1>s. a + b = c + d + 1
  BY <1>3, <1>4, <1>n, <1>m, Zenon
<1>t. /\ Activity' = (execEvents - 1) + Len(cfuReq) + Len(cfuResp) + a + b + LoadsIn(bus) + LoadsIn(busResp)
      /\ 1 = execEvents + Len(cfuReq) + Len(cfuResp) + c + d + LoadsIn(bus) + LoadsIn(busResp)
  BY <1>8, <1>9, <1>10, <1>n, <1>m, Zenon
<1>11. Activity' = 1
  BY <1>0, <1>s, <1>t, CountsAreNat
<1> QED BY <1>11, Zenon DEF Progress

LEMMA WriteProgress ==
  ASSUME CpuType, Queues, Progress, BusmemWrite
  PROVE  StoreRefused' \/ Progress'
<1>0. execEvents \in Nat /\ execEvents > 0
  BY DEF CpuType, BusmemWrite, Exec
<1>1. Activity = 1
  BY <1>0, Going
<1> DEFINE r == [kind |-> "wr", i |-> current, addr |-> Address, data |-> rf[current.a1]]
<1>2. port' = PushOrQueue(port, r)
  BY Zenon DEF BusmemWrite
<1>3. IsLoad(r) = 0 /\ r.kind = "wr"
  BY DEF IsLoad
<1> HIDE DEF r
<1>4. CASE port.reg = <<>>
  <2>1. port'.reg = <<r>> /\ port'.q = port.q
    BY <1>2, <1>4 DEF PushOrQueue
  <2>2. LoadsIn(port'.reg) = 0 /\ LoadsIn(port.reg) = 0
    BY <1>3, <1>4, <2>1, LoadsOne, LoadsEmpty, Zenon
  <2>3. /\ cfuReq' = cfuReq /\ cfuResp' = cfuResp /\ bus' = bus /\ busResp' = busResp
        /\ execEvents' = execEvents
    BY <1>4, Zenon DEF BusmemWrite, outside
  <2>4. Activity' = execEvents + Len(cfuReq) + Len(cfuResp)
            + LoadsIn(port'.reg) + LoadsIn(port.q) + LoadsIn(bus) + LoadsIn(busResp)
    BY <2>1, <2>3, Zenon DEF Activity, LoadsIn
  <2>5. Activity' = Activity
    BY <2>2, <2>4, Zenon DEF Activity
  <2> QED BY <1>1, <2>5, Zenon DEF Progress
<1>5. CASE port.reg # <<>>
  <2>1. PICK s : s = Append(port.q, r) /\ port'.q = s
    BY <1>2, <1>5 DEF PushOrQueue
  <2>2. PICK n \in Nat : n = Len(port.q) /\ IsSeq(port.q)
    BY LenIsNat DEF Queues
  <2>3. Len(s) = n + 1 /\ s[n + 1] = r
    BY <2>1, <2>2, AppendIsSeq
  <2>4. n + 1 \in 1 .. Len(s) /\ s[n + 1].kind = "wr"
    BY <1>3, <2>3
  <2>5. StoreRefused'
    BY <2>1, <2>4, Zenon DEF StoreRefused
  <2> QED BY <2>5
<1> QED BY <1>4, <1>5

LEMMA RequestProgress ==
  ASSUME CpuType, Queues, Progress, CFUReq
  PROVE  Progress'
<1>0. execEvents \in Nat /\ execEvents > 0
  BY DEF CpuType, CFUReq, Exec
<1>1. Activity = 1
  BY <1>0, Going
<1>2. PICK r : cfuReq' = Append(cfuReq, r)
  BY Zenon DEF CFUReq
<1>3. Len(cfuReq') = Len(cfuReq) + 1
  BY <1>2, AppendIsSeq, Zenon DEF Queues
<1>4. /\ execEvents' = execEvents - 1 /\ port' = port /\ cfuResp' = cfuResp
      /\ bus' = bus /\ busResp' = busResp
  BY Zenon DEF CFUReq, outside
<1>5. Activity' = execEvents' + Len(cfuReq') + Len(cfuResp)
            + LoadsIn(port.reg) + LoadsIn(port.q) + LoadsIn(bus) + LoadsIn(busResp)
  BY <1>4, Zenon DEF Activity, LoadsIn
<1>6. Activity' = 1
  BY <1>0, <1>1, <1>3, <1>4, <1>5, CountsAreNat DEF Activity
<1> QED BY <1>6, Zenon DEF Progress

LEMMA RetryProgress ==
  ASSUME Queues, execEvents \in Nat, Progress, ~ StoreRefused, RetryFindsRequest,
         \A k \in 1 .. Len(port.q) : port.q[k].kind \in {"rd", "wr"}, masterPortRetry
  PROVE  Progress'
<1>0. port.q # <<>> /\ port.reg = <<>> /\ IsSeq(port.q)
  BY Zenon DEF masterPortRetry, Queues, RetryFindsRequest
<1>1. PICK n \in Nat \ {0} : n = Len(port.q) /\ Head(port.q) = port.q[1]
  BY <1>0, TailIsSeq, LenIsNat
<1>2. 1 \in 1 .. Len(port.q)
  BY <1>1
<1>3. Head(port.q).kind = "rd"
  BY <1>1, <1>2, Zenon DEF StoreRefused
<1>4. port' = [reg |-> <<Head(port.q)>>, q |-> Tail(port.q)]
  BY <1>0, <1>3, Zenon DEF masterPortRetry, trySendPacket
<1>5. port'.reg = <<Head(port.q)>> /\ port'.q = Tail(port.q)
  BY <1>4
<1>6. /\ cfuReq' = cfuReq /\ cfuResp' = cfuResp /\ bus' = bus /\ busResp' = busResp
      /\ execEvents' = execEvents /\ pc' = pc /\ imem' = imem
  BY <1>3, Zenon DEF masterPortRetry, outside
<1>7. LoadsIn(port.q) = LoadsIn(Tail(port.q)) + IsLoad(Head(port.q))
  BY <1>0, LoadsTail
<1>8. LoadsIn(<<Head(port.q)>>) = IsLoad(Head(port.q)) /\ LoadsIn(port.reg) = 0
  BY <1>0, LoadsOne, LoadsEmpty, Zenon
<1>9. PICK a \in Nat, b \in Nat : a = LoadsIn(Tail(port.q)) /\ b = IsLoad(Head(port.q))
  <2>1. IsSeq(Tail(port.q))
    BY <1>0, TailIsSeq
  <2>2. LoadsIn(Tail(port.q)) \in Nat
    BY <2>1, LoadsIsNat
  <2>3. IsLoad(Head(port.q)) \in Nat
    BY DEF IsLoad
  <2> QED BY <2>2, <2>3
<1>10. PICK e \in Nat : e = execEvents + Len(cfuReq) + Len(cfuResp)
  BY CountsAreNat
<1>11. /\ Activity = e + 0 + (a + b) + LoadsIn(bus) + LoadsIn(busResp)
       /\ Activity' = e + b + a + LoadsIn(bus) + LoadsIn(busResp)
  BY <1>5, <1>6, <1>7, <1>8, <1>9, <1>10, Zenon DEF Activity, LoadsIn
<1>12. Activity' = Activity
  BY <1>11, CountsAreNat
<1> QED BY <1>6, <1>12, Steady

LEMMA ReadResponseProgress ==
  ASSUME Queues, execEvents \in Nat, Progress, memReadXBarRespHandler
  PROVE  Progress'
<1>0. busResp # <<>> /\ IsSeq(busResp) /\ IsLoad(Head(busResp)) = 1
  BY DEF memReadXBarRespHandler, Queues, IsLoad
<1>1. LoadsIn(busResp) = LoadsIn(Tail(busResp)) + IsLoad(Head(busResp))
  BY <1>0, LoadsTail
<1>2. PICK a \in Nat : a = LoadsIn(Tail(busResp))
  BY <1>0, TailIsSeq, LoadsIsNat
<1>3. /\ execEvents' = execEvents + 1 /\ busResp' = Tail(busResp)
      /\ port' = port /\ cfuReq' = cfuReq /\ cfuResp' = cfuResp /\ bus' = bus
  BY Zenon DEF memReadXBarRespHandler, Respond
<1>4. /\ Activity = execEvents + Len(cfuReq) + Len(cfuResp)
                      + LoadsIn(port.reg) + LoadsIn(port.q) + LoadsIn(bus) + (a + 1)
      /\ Activity' = execEvents + 1 + Len(cfuReq) + Len(cfuResp)
                      + LoadsIn(port.reg) + LoadsIn(port.q) + LoadsIn(bus) + a
  <2>1. LoadsIn(busResp) = a + 1 /\ LoadsIn(busResp') = a
    BY <1>0, <1>1, <1>2, <1>3, Zenon
  <2> QED BY <1>3, <2>1, Zenon DEF Activity, LoadsIn
<1>5. PICK c \in Nat, d \in Nat : c = Len(cfuReq) /\ d = Len(cfuResp)
  BY CountsAreNat
<1>6. PICK x \in Nat, y \in Nat, z \in Nat :
        x = LoadsIn(port.reg) /\ y = LoadsIn(port.q) /\ z = LoadsIn(bus)
  BY CountsAreNat
<1>7. /\ Activity = execEvents + c + d + x + y + z + (a + 1)
      /\ Activity' = execEvents + 1 + c + d + x + y + z + a
  BY <1>4, <1>5, <1>6, Zenon
<1>8. Activity' = Activity /\ Activity # 0
  BY <1>7
<1> QED BY <1>8, Zenon DEF Progress

LEMMA CfuResponseProgress ==
  ASSUME Queues, execEvents \in Nat, Progress, CFURespHandler
  PROVE  Progress'
<1>0. cfuResp # <<>> /\ IsSeq(cfuResp)
  BY DEF CFURespHandler, Queues
<1>1. Len(Tail(cfuResp)) = Len(cfuResp) - 1 /\ Len(cfuResp) > 0
  BY <1>0, TailIsSeq
<1>2. /\ execEvents' = execEvents + 1 /\ cfuResp' = Tail(cfuResp)
      /\ port' = port /\ cfuReq' = cfuReq /\ bus' = bus /\ busResp' = busResp
  BY Zenon DEF CFURespHandler, Respond, outside
<1>3. Activity' = execEvents + 1 + Len(cfuReq) + (Len(cfuResp) - 1)
                      + LoadsIn(port.reg) + LoadsIn(port.q) + LoadsIn(bus) + LoadsIn(busResp)
  BY <1>1, <1>2, Zenon DEF Activity, LoadsIn
<1>4. Activity = execEvents + Len(cfuReq) + Len(cfuResp)
                      + LoadsIn(port.reg) + LoadsIn(port.q) + LoadsIn(bus) + LoadsIn(busResp)
  BY Zenon DEF Activity
<1>5. Activity' = Activity /\ Activity # 0
  BY <1>1, <1>3, <1>4, CountsAreNat
<1> QED BY <1>5, Zenon DEF Progress

LEMMA WriteResponseProgress ==
  ASSUME Queues, execEvents \in Nat, Progress, memWriteXBarRespHandler
  PROVE  Progress'
<1>0. busResp # <<>> /\ IsSeq(busResp) /\ IsLoad(Head(busResp)) = 0
  BY DEF memWriteXBarRespHandler, Queues, IsLoad
<1>1. LoadsIn(busResp) = LoadsIn(Tail(busResp)) + IsLoad(Head(busResp))
  BY <1>0, LoadsTail
<1>2. PICK a \in Nat : a = LoadsIn(Tail(busResp))
  BY <1>0, TailIsSeq, LoadsIsNat
<1>3. /\ execEvents' = execEvents /\ busResp' = Tail(busResp) /\ pc' = pc /\ imem' = imem
      /\ port' = port /\ cfuReq' = cfuReq /\ cfuResp' = cfuResp /\ bus' = bus
  BY Zenon DEF memWriteXBarRespHandler, cpu
<1>4. a + 0 = a
  OBVIOUS
<1>5. LoadsIn(busResp)' = LoadsIn(busResp)
  BY <1>0, <1>1, <1>2, <1>3, <1>4, Zenon DEF LoadsIn
<1>6. Activity' = Activity
  BY <1>3, <1>5, Zenon DEF Activity, LoadsIn
<1> QED BY <1>3, <1>6, Steady

LEMMA CfuProgress ==
  ASSUME Queues, execEvents \in Nat, Progress, packet_handler
  PROVE  Progress'
<1>0. cfuReq # <<>> /\ IsSeq(cfuReq) /\ IsSeq(cfuResp)
  BY DEF packet_handler, Queues
<1>1. Len(Tail(cfuReq)) = Len(cfuReq) - 1 /\ Len(cfuReq) > 0
  BY <1>0, TailIsSeq
<1>2. PICK r : cfuResp' = Append(cfuResp, r)
  BY Zenon DEF packet_handler
<1>3. Len(cfuResp') = Len(cfuResp) + 1
  BY <1>0, <1>2, AppendIsSeq, Zenon
<1>4. /\ execEvents' = execEvents /\ cfuReq' = Tail(cfuReq) /\ pc' = pc /\ imem' = imem
      /\ port' = port /\ bus' = bus /\ busResp' = busResp
  BY Zenon DEF packet_handler, cpu, outside
<1>5. Activity' = execEvents + (Len(cfuReq) - 1) + (Len(cfuResp) + 1)
                      + LoadsIn(port.reg) + LoadsIn(port.q) + LoadsIn(bus) + LoadsIn(busResp)
  BY <1>1, <1>3, <1>4, Zenon DEF Activity, LoadsIn
<1>6. Activity = execEvents + Len(cfuReq) + Len(cfuResp)
                      + LoadsIn(port.reg) + LoadsIn(port.q) + LoadsIn(bus) + LoadsIn(busResp)
  BY Zenon DEF Activity
<1>7. Activity' = Activity
  BY <1>5, <1>6, CountsAreNat
<1> QED BY <1>4, <1>7, Steady

LEMMA AcceptProgress ==
  ASSUME Queues, execEvents \in Nat, Progress, BusAccept
  PROVE  Progress'
<1>0. port.reg # <<>> /\ IsSeq(port.reg) /\ Len(port.reg) <= 1 /\ IsSeq(bus)
  BY Zenon DEF BusAccept, Queues
<1>1. LoadsIn(port.reg) = IsLoad(port.reg[1])
  BY <1>0, LoadsRegister
<1>2. port' = [reg |-> <<>>, q |-> port.q] /\ bus' = Append(bus, port.reg[1])
  BY Zenon DEF BusAccept, Forward
<1>3. port'.reg = <<>> /\ port'.q = port.q
  BY <1>2
<1>4. LoadsIn(Append(bus, port.reg[1])) = LoadsIn(bus) + IsLoad(port.reg[1])
  BY <1>0, LoadsAppend
<1>5. /\ execEvents' = execEvents /\ pc' = pc /\ imem' = imem
      /\ cfuReq' = cfuReq /\ cfuResp' = cfuResp /\ busResp' = busResp
  BY Zenon DEF BusAccept, cpu
<1>6. LoadsIn(port'.reg) = 0 /\ LoadsIn(port'.q) = LoadsIn(port.q)
  BY <1>3, LoadsEmpty, Zenon
<1>7. LoadsIn(bus') = LoadsIn(bus) + LoadsIn(port.reg)
  BY <1>1, <1>2, <1>4, Zenon
<1>8. Activity' = execEvents + Len(cfuReq) + Len(cfuResp)
                      + 0 + LoadsIn(port.q) + (LoadsIn(bus) + LoadsIn(port.reg)) + LoadsIn(busResp)
  BY <1>5, <1>6, <1>7, Zenon DEF Activity, LoadsIn
<1>9. Activity = execEvents + Len(cfuReq) + Len(cfuResp)
                      + LoadsIn(port.reg) + LoadsIn(port.q) + LoadsIn(bus) + LoadsIn(busResp)
  BY Zenon DEF Activity
<1>10. Activity' = Activity
  BY <1>8, <1>9, CountsAreNat
<1> QED BY <1>5, <1>10, Steady

LEMMA ServeProgress ==
  ASSUME Queues, execEvents \in Nat, Progress, MemServe
  PROVE  Progress'
<1>0. bus # <<>> /\ IsSeq(bus) /\ IsSeq(busResp) /\ bus' = Tail(bus)
  BY DEF MemServe, Queues
<1>1. LoadsIn(bus) = LoadsIn(Tail(bus)) + IsLoad(Head(bus))
  BY <1>0, LoadsTail
<1>2. PICK d : busResp' = Append(busResp, d) /\ IsLoad(d) = IsLoad(Head(bus))
  <2>1. CASE Head(bus).kind = "rd"
    <3> DEFINE r == [kind |-> "rd", i |-> Head(bus).i, data |-> mem[Head(bus).addr]]
    <3>1. busResp' = Append(busResp, r)
      BY <2>1, Zenon DEF MemServe
    <3>2. IsLoad(r) = IsLoad(Head(bus))
      BY <2>1 DEF IsLoad
    <3> HIDE DEF r
    <3> QED BY <3>1, <3>2
  <2>2. CASE Head(bus).kind # "rd"
    <3> DEFINE r == [kind |-> "wr", i |-> Head(bus).i, data |-> 0]
    <3>1. busResp' = Append(busResp, r)
      BY <2>2, Zenon DEF MemServe
    <3>2. IsLoad(r) = IsLoad(Head(bus))
      BY <2>2 DEF IsLoad
    <3> HIDE DEF r
    <3> QED BY <3>1, <3>2
  <2> QED BY <2>1, <2>2
<1>3. LoadsIn(Append(busResp, d)) = LoadsIn(busResp) + IsLoad(d)
  BY <1>0, LoadsAppend
<1>4. PICK a \in Nat, b \in Nat : a = LoadsIn(Tail(bus)) /\ b = IsLoad(Head(bus))
  <2>1. IsLoad(Head(bus)) \in Nat
    BY DEF IsLoad
  <2>2. LoadsIn(Tail(bus)) \in Nat
    BY <1>0, TailIsSeq, LoadsIsNat
  <2> QED BY <2>1, <2>2
<1>5. /\ execEvents' = execEvents /\ pc' = pc /\ imem' = imem
      /\ cfuReq' = cfuReq /\ cfuResp' = cfuResp /\ port' = port
  BY Zenon DEF MemServe, cpu
<1>6. LoadsIn(bus) = a + b /\ LoadsIn(bus') = a /\ LoadsIn(busResp') = LoadsIn(busResp) + b
  BY <1>0, <1>1, <1>2, <1>3, <1>4, Zenon
<1>7. Activity' = execEvents + Len(cfuReq) + Len(cfuResp)
                      + LoadsIn(port.reg) + LoadsIn(port.q) + a + (LoadsIn(busResp) + b)
  BY <1>5, <1>6, Zenon DEF Activity, LoadsIn
<1>8. Activity = execEvents + Len(cfuReq) + Len(cfuResp)
                      + LoadsIn(port.reg) + LoadsIn(port.q) + (a + b) + LoadsIn(busResp)
  BY <1>6, Zenon DEF Activity
<1>9. Activity' = Activity
  BY <1>7, <1>8, CountsAreNat
<1> QED BY <1>5, <1>9, Steady

\* Unless a store is refused, every step leaves one thing that keeps the
\* program going, or leaves none at HCF.
LEMMA ProgressNext ==
  ASSUME CpuInv, Next
  PROVE  StoreRefused' \/ Progress'
<1>0. CpuType /\ Queues /\ execEvents \in Nat /\ RetryFindsRequest
  <2>1. CpuType /\ RetryFindsRequest
    BY Zenon DEF CpuInv
  <2>2. execEvents \in Nat
    BY <2>1 DEF CpuType
  <2> QED BY <2>1, <2>2, TypeQueues
<1>1. CASE StoreRefused
  BY <1>0, <1>1, QueueKept
<1>2. CASE ~ StoreRefused
  <2>0. Progress
    BY <1>2, Zenon DEF CpuInv
  <2>1. CASE Execute
    BY <1>0, <2>0, <2>1, ExecOwnProgress, ReadProgress, WriteProgress, RequestProgress, Zenon DEF Execute
  <2>2. CASE Handlers
    <3>1. \A k \in 1 .. Len(port.q) : port.q[k].kind \in {"rd", "wr"}
      <4>1. port.q \in Seq(Request)
        BY <1>0 DEF CpuType
      <4>2. \A k \in 1 .. Len(port.q) : port.q[k] \in Request
        BY <4>1
      <4>3. \A r \in Request : r.kind \in {"rd", "wr"}
        BY DEF Request
      <4> QED BY <4>2, <4>3, Zenon
    <3> QED BY <1>0, <1>2, <2>0, <2>2, <3>1, RetryProgress, ReadResponseProgress,
               CfuResponseProgress, WriteResponseProgress, Zenon DEF Handlers
  <2>3. CASE Environment
    BY <1>0, <2>0, <2>3, CfuProgress, AcceptProgress, ServeProgress, Zenon DEF Environment
  <2> QED BY <2>1, <2>2, <2>3, Zenon DEF Next
<1> QED BY <1>1, <1>2

LEMMA CpuInit ==
  ASSUME WellFormed, SocInit
  PROVE  CpuInv
<1>1. /\ pc = 0 /\ execEvents = 1 /\ port = EmptyPort /\ retry = FALSE
      /\ cfuReq = <<>> /\ cfuResp = <<>> /\ bus = <<>> /\ busResp = <<>>
  BY Zenon DEF SocInit, Init
<1>2. imem \in Seq(Instr) /\ mem \in [Addr -> Nat]
  BY Zenon DEF SocInit, postSimInitSetup, WellFormed
<1>3. rf \in [Regs -> Nat]
  BY DEF SocInit, Init, Regs
<1>4. port.reg = <<>> /\ port.q = <<>>
  BY <1>1 DEF EmptyPort
<1>5. CpuType
  <2>1. port \in [reg : Seq(Request), q : Seq(Request)] /\ Len(port.reg) <= 1
    <3> HIDE DEF Request
    <3> QED BY <1>1 DEF EmptyPort
  <2>2. /\ cfuReq \in Seq([i : CfuInstr, rs1 : Nat, rs2 : Nat]) /\ cfuResp \in Seq([i : Instr, rd : Nat])
        /\ bus \in Seq(Request) /\ busResp \in Seq(Response)
    BY <1>1
  <2>3. pc \in Nat /\ execEvents \in Nat /\ retry \in BOOLEAN
    BY <1>1
  <2> QED BY <1>2, <1>3, <2>1, <2>2, <2>3, Zenon DEF CpuType
<1>6. Activity = 1
  <2>1. Activity = 1 + 0 + 0 + 0 + 0 + 0 + 0
    BY <1>1, <1>4, EmptyIsSeq, LoadsEmpty, Zenon DEF Activity
  <2> QED BY <2>1
<1> QED BY <1>1, <1>5, <1>6, Zenon DEF CpuInv, Progress, RetryFindsRequest

LEMMA CpuNext ==
  ASSUME RealWidth, WholeMemory, CpuInv, [SocNext]_socVars
  PROVE  CpuInv'
<1>1. CASE SocNext
  <2>0. Next
    BY <1>1, Zenon DEF SocNext, Runs
  <2>1. CpuType /\ RetryFindsRequest
    BY Zenon DEF CpuInv
  <2>2. CpuType'
    BY <2>0, <2>1, ExecuteType, HandlersType, EnvironmentType, Zenon DEF Next
  <2>3. RetryFindsRequest'
    BY <2>0, <2>1, QueueKept
  <2>4. StoreRefused' \/ Progress'
    BY <2>0, ProgressNext
  <2> QED BY <2>2, <2>3, <2>4, Zenon DEF CpuInv
<1>2. CASE UNCHANGED socVars
  <2>1. /\ imem' = imem /\ pc' = pc /\ rf' = rf /\ execEvents' = execEvents /\ port' = port
        /\ retry' = retry /\ cfuReq' = cfuReq /\ cfuResp' = cfuResp
        /\ bus' = bus /\ busResp' = busResp /\ mem' = mem
    BY <1>2, Zenon DEF socVars, vars, cpu, outside
  <2>2. CpuType' = CpuType
    BY <2>1, Zenon DEF CpuType
  <2>3. StoreRefused' = StoreRefused
    BY <2>1, Zenon DEF StoreRefused
  <2>4. Progress' = Progress
    BY <2>1, Zenon DEF Progress, Activity, AtHcf, LoadsIn, fetchInstr
  <2> QED BY <2>1, <2>2, <2>3, <2>4, Zenon DEF CpuInv, RetryFindsRequest
<1> QED BY <1>1, <1>2

\* Of every program whose instructions name registers that exist, for every
\* interleaving of events, responses and retries: all state keeps its type, and
\* unless a store was refused one event or one awaited response keeps the
\* program going until its HCF.
THEOREM CpuInvariant ==
  ASSUME RealWidth, WholeMemory, WellFormed
  PROVE  SocSpec => []CpuInv
<1>1. SocInit => CpuInv
  BY CpuInit
<1>2. CpuInv /\ [SocNext]_socVars => CpuInv'
  BY CpuNext
<1> QED BY <1>1, <1>2, PTL DEF SocSpec

\* execOneInstr and the response handlers (CPU.cc:150, :190-260) start every
\* instruction once: at no time are two under way, and none is lost.
THEOREM OneAtATime ==
  ASSUME RealWidth, WholeMemory, WellFormed
  PROVE  SocSpec => []OneInstruction
<1>1. CpuInv => OneInstruction
  BY Zenon DEF CpuInv, Progress, OneInstruction
<1> QED BY <1>1, CpuInvariant, PTL

=============================================================================
