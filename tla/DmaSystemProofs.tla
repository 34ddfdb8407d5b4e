-------------------------- MODULE DmaSystemProofs --------------------------
(***************************************************************************)
(* Proofs about DmaSystem, for every memory, latency, buffer capacity and  *)
(* any number of transfers that WellPlaced admits: the controller with the *)
(* memory implements Dma, every write carries the word its destination is  *)
(* to receive, and what a driver that has seen DONE finds, once the last   *)
(* responses are in, is the copy.                                          *)
(***************************************************************************)
EXTENDS DmaSystem, DmaProofs, DataMemoryProofs

-----------------------------------------------------------------------------
(* Words.                                                                  *)

Cells == 0 .. MemSize - 1

Total(t)   == Decode(t.cfg).totalWords
SrcW(t, w) == WordAddr(Decode(t.cfg), t.src, Decode(t.cfg).Source_stride, w)
DstW(t, w) == WordAddr(Decode(t.cfg), t.dst, Decode(t.cfg).Dest_stride, w)

InitWord(a) == <<InitMem[a], InitMem[a + 1], InitMem[a + 2], InitMem[a + 3]>>

-----------------------------------------------------------------------------
(* The inductive invariant, besides those of the controller and the memory *)
(* alone.                                                                  *)

\* Transaction ids tell the bursts apart, in each port and all those in flight.
Tids ==
  /\ Distinct(req) /\ Distinct(mresp)
  /\ \A p \in InFlight : p.tid < nextTid
  /\ \A p \in outstanding : \A b \in Requests : p.tid # b.tid
  /\ \A p, b \in outstanding : p.tid = b.tid => p = b

\* The response beats to the read burst p: operands echoed, and the words
\* that the program was loaded with.
Echo(p, beats) ==
  \A k \in 1 .. Len(beats) : /\ beats[k].imm = p.beats[k].imm
                             /\ beats[k].data = InitWord(p.beats[k].addr)

\* What the memory knows of an accepted burst.
Link ==
  /\ \A t \in InUse : \E p \in outstanding : p.tid = t
  /\ \A p \in outstanding : \A e \in beatEvents :
       e.tid = p.tid => e.kind = p.kind /\ e.i \in 1 .. Len(p.beats) /\ e.beat = p.beats[e.i]
  /\ \A p \in outstanding :
       p.tid \in DOMAIN pending_ =>
         /\ pending_[p.tid].expected = Len(p.beats)
         /\ p.kind = "rd" => Echo(p, pending_[p.tid].rbeats)
  /\ \A p \in outstanding : \A r \in Held(mresp) :
       r.tid = p.tid =>
         /\ r.kind = p.kind /\ IsSeq(r.beats) /\ Len(r.beats) = Len(p.beats)
         /\ p.kind = "rd" => Echo(p, r.beats)

\* The registers as far as the driver has come, the geometry of its transfer.
RegisterWrite(r, d) == [kind |-> "wr", reg |-> r, data |-> d]

Programmed ==
  /\ drv.pc # "idle" => drv.started > 0
  /\ \A i \in 1 .. Len(mport) :
       /\ drv.pc = "dst"    => mport[i] = RegisterWrite("SOURCE_INFO", drv.job.src)
       /\ drv.pc = "cfg"    => mport[i] = RegisterWrite("DEST_INFO", drv.job.dst)
       /\ drv.pc = "enable" => mport[i] = RegisterWrite("DMA_SIZE_CFG", drv.job.cfg)
       /\ drv.pc \in {"src", "idle", "clear"} => mport[i].reg = "DONE"
  /\ \/ drv.pc \in {"cfg", "enable", "poll", "wait"}
     \/ drv.pc = "dst" /\ mport = <<>>
     \/ SawDone
     => srcAddr = drv.job.src
  /\ \/ drv.pc \in {"enable", "poll", "wait"}
     \/ drv.pc = "cfg" /\ mport = <<>>
     \/ SawDone
     => dstAddr = drv.job.dst
  /\ \/ drv.pc \in {"poll", "wait"}
     \/ drv.pc = "enable" /\ mport = <<>>
     => dmaSizeCfg = drv.job.cfg
  /\ ~ Programming \/ SawDone => geo = Decode(drv.job.cfg)

\* The sources are as they were loaded, in memory and in the copy.
Sources ==
  /\ mem = [a \in Cells |-> mem[a]] /\ gold = [a \in Cells |-> gold[a]]
  /\ \A t \in Transfers : \A w \in 0 .. Total(t) - 1 : \A i \in 0 .. 3 :
       /\ mem[SrcW(t, w) + i] = InitMem[SrcW(t, w) + i]
       /\ gold[SrcW(t, w) + i] = InitMem[SrcW(t, w) + i]

\* Word w of t is where it belongs in the copy.
InCopy(t, w) == \A i \in 0 .. 3 : gold[DstW(t, w) + i] = InitMem[SrcW(t, w) + i]

\* Every write beat carries a word of some transfer.
Carrying(b) ==
  \E t \in Transfers : \E w \in 0 .. Total(t) - 1 :
    b.op = "SW" /\ b.addr = DstW(t, w) /\ b.data = InitWord(SrcW(t, w)) /\ InCopy(t, w)

Carry == \A p \in Writes : \A k \in 1 .. Len(p.beats) : Carrying(p.beats[k])

Current == drv.started > 0 => \A w \in 0 .. Total(drv.job) - 1 : InCopy(drv.job, w)

\* The buffer holds the words between those written and those read.
Buffered ==
  ~ Programming /\ ~ st.done /\ cnt.wordsToBuffer = cnt.wordsTransferred + cnt.bufferIndex =>
    \A i \in 0 .. cnt.bufferIndex - 1 :
      bufferMemory[i] = InitWord(SrcW(drv.job, cnt.wordsTransferred + i))

\* The first word of the driver's transfer for which no write was issued.
Unissued == IF Programming /\ drv.pc \notin {"idle", "clear"} THEN 0 ELSE cnt.wordsTransferred

\* Memory is the copy but for writes under way and words to be written.
Awaited(a) ==
  \/ \E p \in Requests : p.kind = "wr" /\ \E k \in 1 .. Len(p.beats) :
       a \in p.beats[k].addr .. p.beats[k].addr + 3
  \/ \E e \in beatEvents : e.kind = "wr" /\ a \in e.beat.addr .. e.beat.addr + 3
  \/ drv.started > 0 /\ \E w \in Unissued .. Total(drv.job) - 1 :
       a \in DstW(drv.job, w) .. DstW(drv.job, w) + 3

Settling == \A a \in Cells : mem[a] = gold[a] \/ Awaited(a)

BusInv  == IInv /\ MemInv /\ Tids /\ Link /\ Programmed
CopyInv == Sources /\ Carry /\ Current /\ Buffered /\ Settling
SysInv  == BusInv /\ CopyInv

-----------------------------------------------------------------------------
(* Words and bytes of a transfer.                                          *)

LEMMA DivMod ==
  ASSUME NEW n \in Nat \ {0}, NEW w \in Nat
  PROVE  /\ w \div n \in Nat /\ w % n \in 0 .. n - 1
         /\ w = n * (w \div n) + (w % n)
<1>1. w \div n \in Nat
  OBVIOUS
<1>2. w % n \in Nat /\ w % n < n
  OBVIOUS
<1>3. w % n \in 0 .. n - 1
  BY <1>2
<1>4. w = n * (w \div n) + (w % n)
  OBVIOUS
<1> QED BY <1>1, <1>3, <1>4

\* Quotient and remainder are unique.
LEMMA DivModIs ==
  ASSUME NEW n \in Nat \ {0}, NEW r \in Nat, NEW c \in 0 .. n - 1
  PROVE  (n * r + c) \div n = r /\ (n * r + c) % n = c
<1> DEFINE w == n * r + c
           q == w \div n
           d == w % n
<1>1. n * r \in Nat
  OBVIOUS
<1>2. w \in Nat
  BY <1>1
<1>3. q \in Nat /\ d \in 0 .. n - 1 /\ w = n * q + d
  BY <1>2, DivMod
<1>4. n * r + c = n * q + d
  BY <1>3
<1> HIDE DEF w, q, d
<1>5. n * (r - q) = d - c
  BY <1>1, <1>3, <1>4
<1>6. -n < n * (r - q) /\ n * (r - q) < n
  BY <1>3, <1>5
<1>7. r = q
  BY <1>3, <1>6
<1>8. c = d
  BY <1>4, <1>7, <1>3, <1>1
<1> QED BY <1>7, <1>8 DEF w, q, d

LEMMA Layout ==
  ASSUME WellPlaced, NEW t \in Transfers
  PROVE  /\ WordsPerRow(Decode(t.cfg)) \in Nat \ {0}
         /\ Decode(t.cfg).true_height \in Nat \ {0}
         /\ Decode(t.cfg).true_width = 4 * WordsPerRow(Decode(t.cfg))
         /\ Total(t) = WordsPerRow(Decode(t.cfg)) * Decode(t.cfg).true_height
         /\ Total(t) \in Nat \ {0}
         /\ t.src \in Nat /\ t.dst \in Nat /\ t.cfg \in Nat
         /\ Decode(t.cfg).Source_stride \in Nat /\ Decode(t.cfg).Dest_stride \in Nat
<1>1. t.src \in Nat /\ t.dst \in Nat /\ t.cfg \in Nat
  BY TransfersAssumption
<1>2. Decode(t.cfg) \in Geometry
  BY <1>1, DecodeType
<1> DEFINE g == Decode(t.cfg)
           width == ((t.cfg \div 256) % 256) + 1
<1>3. width \in Nat \ {0} /\ g.true_width = width
  BY <1>1 DEF Decode
<1>4. g.totalWords = ((width \div 4) + (IF width % 4 # 0 THEN 1 ELSE 0)) * g.true_height
  BY DEF Decode
<1>5. width % 4 = 0
  BY <1>3 DEF WellPlaced
<1> HIDE DEF width, g
<1>6. (width + 3) \div 4 = width \div 4 /\ width = 4 * (width \div 4) /\ width \div 4 \in Nat \ {0}
  BY <1>3, <1>5
<1>7. WordsPerRow(g) = width \div 4
  BY <1>3, <1>6 DEF WordsPerRow
<1>8. g.totalWords = (width \div 4) * g.true_height
  BY <1>4, <1>5, <1>6
<1> QED BY <1>1, <1>2, <1>3, <1>6, <1>7, <1>8 DEF g, Geometry, Total

\* Byte i of word w.
LEMMA WordBytes ==
  ASSUME WellPlaced, NEW t \in Transfers, NEW w \in 0 .. Total(t) - 1, NEW i \in 0 .. 3
  PROVE  LET n == WordsPerRow(Decode(t.cfg))
             r == w \div n
             b == (w % n) * 4 + i
         IN  /\ r \in Rows(t) /\ b \in Bytes(t)
             /\ SrcW(t, w) + i = SrcByte(t, r, b) /\ DstW(t, w) + i = DstByte(t, r, b)
             /\ b % 4 = i /\ w = n * r + b \div 4
             /\ SrcW(t, w) \in Nat /\ DstW(t, w) \in Nat
<1>1. PICK n \in Nat \ {0}, h \in Nat \ {0} :
        n = WordsPerRow(Decode(t.cfg)) /\ h = Decode(t.cfg).true_height
  BY Layout
<1>2. Decode(t.cfg).true_width = 4 * n /\ Total(t) = n * h
  BY <1>1, Layout
<1>3. PICK r \in Nat, d \in 0 .. n - 1 : r = w \div n /\ d = w % n /\ w = n * r + d
  <2>1. w \in Nat
    BY <1>1, <1>2, Layout
  <2>2. w \div n \in Nat /\ w % n \in 0 .. n - 1 /\ w = n * (w \div n) + (w % n)
    BY <2>1, DivMod
  <2> QED BY <2>2, Zenon
<1>4. r \in 0 .. h - 1
  <2>1. n * r + d < n * h /\ n * r \in Nat /\ n * h \in Nat
    BY <1>2, <1>3
  <2>2. n * r < n * h
    BY <2>1, <1>3
  <2>3. ASSUME NEW x \in Nat, NEW y \in Nat, NEW z \in Nat, x * y < x * z
        PROVE  y < z
    <3>1. CASE y >= z
      <4>1. y - z \in Nat
        BY <3>1
      <4>2. x * (y - z) \in Nat /\ x * z \in Nat
        BY <4>1, NatProduct
      <4>3. x * y = x * z + x * (y - z)
        OBVIOUS
      <4> QED BY <4>2, <4>3, <2>3
    <3> QED BY <3>1
  <2>4. r < h
    BY <2>2, <2>3, <1>3, <1>1
  <2>5. r \in Nat /\ h \in Nat
    OBVIOUS
  <2> QED BY <2>4, <2>5
<1>5. PICK b \in 0 .. 4 * n - 1 : b = d * 4 + i
  BY <1>3
<1>6. b % 4 = i /\ b \div 4 = d
  BY <1>5, <1>3
<1>7. PICK s \in Nat, e \in Nat : s = t.src /\ e = t.dst
  BY Layout
<1>8. PICK ss \in Nat, ds \in Nat : ss = Decode(t.cfg).Source_stride /\ ds = Decode(t.cfg).Dest_stride
  BY Layout
<1>9. SrcW(t, w) = s + r * ss + d * 4 /\ DstW(t, w) = e + r * ds + d * 4
  BY <1>1, <1>3, <1>7, <1>8 DEF SrcW, DstW, WordAddr
<1>10. SrcByte(t, r, b) = s + r * ss + b /\ DstByte(t, r, b) = e + r * ds + b
  BY <1>7, <1>8 DEF SrcByte, DstByte
<1>11. r * ss \in Nat /\ r * ds \in Nat
  BY <1>3, <1>8, NatProduct
<1>12. /\ s + r * ss + d * 4 + i = s + r * ss + b /\ e + r * ds + d * 4 + i = e + r * ds + b
       /\ s + r * ss + d * 4 \in Nat /\ e + r * ds + d * 4 \in Nat
  BY <1>3, <1>5, <1>7, <1>11
<1>13. r \in Rows(t) /\ b \in Bytes(t)
  BY <1>1, <1>2, <1>4, <1>5 DEF Rows, Bytes
<1>14. SrcW(t, w) + i = SrcByte(t, r, b) /\ DstW(t, w) + i = DstByte(t, r, b)
       /\ SrcW(t, w) \in Nat /\ DstW(t, w) \in Nat
  BY <1>9, <1>10, <1>12
<1>15. w = n * r + b \div 4
  BY <1>3, <1>6
<1> QED BY <1>1, <1>3, <1>5, <1>6, <1>13, <1>14, <1>15, Zenon

LEMMA ByteWords ==
  ASSUME WellPlaced, NEW t \in Transfers, NEW r \in Rows(t), NEW b \in Bytes(t)
  PROVE  \E w \in 0 .. Total(t) - 1 : \E i \in 0 .. 3 :
           SrcByte(t, r, b) = SrcW(t, w) + i /\ DstByte(t, r, b) = DstW(t, w) + i
<1>1. PICK n \in Nat \ {0}, h \in Nat \ {0} :
        n = WordsPerRow(Decode(t.cfg)) /\ h = Decode(t.cfg).true_height
  BY Layout
<1>2. Decode(t.cfg).true_width = 4 * n /\ Total(t) = n * h
  BY <1>1, Layout
<1>3. r \in 0 .. h - 1 /\ b \in 0 .. 4 * n - 1
  BY <1>1, <1>2 DEF Rows, Bytes
<1>4. PICK c \in 0 .. n - 1, i \in 0 .. 3 : c = b \div 4 /\ i = b % 4 /\ b = c * 4 + i
  BY <1>3
<1>5. PICK w : w = n * r + c
  OBVIOUS
<1>6. w \in 0 .. Total(t) - 1
  <2>1. n * r \in Nat /\ n * r + n <= n * h /\ n * h \in Nat
    BY <1>1, <1>3
  <2>2. w \in Nat /\ w < n * h
    BY <2>1, <1>4, <1>5
  <2> QED BY <2>1, <2>2, <1>2
<1>7. w \div n = r /\ w % n = c
  <2>1. n \in Nat \ {0} /\ r \in Nat /\ c \in 0 .. n - 1
    BY <1>1, <1>3, <1>4
  <2>2. (n * r + c) \div n = r /\ (n * r + c) % n = c
    BY <2>1, DivModIs
  <2> QED BY <2>2, <1>5, Zenon
<1>8. (w % n) * 4 + i = b
  BY <1>4, <1>7
<1>9. SrcW(t, w) + i = SrcByte(t, r, b) /\ DstW(t, w) + i = DstByte(t, r, b)
  <2>1. LET m == WordsPerRow(Decode(t.cfg))
             q == w \div m
             d == (w % m) * 4 + i
         IN  SrcW(t, w) + i = SrcByte(t, q, d) /\ DstW(t, w) + i = DstByte(t, q, d)
    BY <1>6, WordBytes
  <2> QED BY <2>1, <1>1, <1>7, <1>8, Zenon
<1> QED BY <1>6, <1>9, Zenon

\* What WellPlaced says of words: they lie in the memory, ...
LEMMA WordsInside ==
  ASSUME WellPlaced, NEW t \in Transfers, NEW w \in 0 .. Total(t) - 1, NEW i \in 0 .. 3
  PROVE  /\ SrcW(t, w) \in Nat /\ DstW(t, w) \in Nat
         /\ SrcW(t, w) + i \in Cells /\ DstW(t, w) + i \in Cells
<1>1. PICK r \in Rows(t), b \in Bytes(t) :
        SrcW(t, w) + i = SrcByte(t, r, b) /\ DstW(t, w) + i = DstByte(t, r, b)
        /\ SrcW(t, w) \in Nat /\ DstW(t, w) \in Nat
  BY WordBytes, Zenon
<1>2. SrcByte(t, r, b) \in Source(t) /\ DstByte(t, r, b) \in Target(t)
  BY DEF Source, Target
<1> QED BY <1>1, <1>2 DEF WellPlaced, Cells

\* ... sources and targets are apart, ...
LEMMA WordsApart ==
  ASSUME WellPlaced, NEW t \in Transfers, NEW w \in 0 .. Total(t) - 1, NEW i \in 0 .. 3,
         NEW u \in Transfers, NEW v \in 0 .. Total(u) - 1, NEW j \in 0 .. 3
  PROVE  SrcW(t, w) + i # DstW(u, v) + j
<1>1. PICK r \in Rows(t), b \in Bytes(t) : SrcW(t, w) + i = SrcByte(t, r, b)
  BY WordBytes, Zenon
<1>2. PICK q \in Rows(u), c \in Bytes(u) : DstW(u, v) + j = DstByte(u, q, c)
  BY WordBytes, Zenon
<1>3. SrcByte(t, r, b) \in Source(t) /\ DstByte(u, q, c) \in Target(u)
  BY DEF Source, Target
<1> QED BY <1>1, <1>2, <1>3 DEF WellPlaced

\* ... and no two words have a target byte in common.
LEMMA TargetsApart ==
  ASSUME WellPlaced, NEW t \in Transfers, NEW w \in 0 .. Total(t) - 1, NEW i \in 0 .. 3,
         NEW u \in Transfers, NEW v \in 0 .. Total(u) - 1, NEW j \in 0 .. 3,
         DstW(t, w) + i = DstW(u, v) + j
  PROVE  t = u /\ w = v /\ i = j
<1>1. PICK n : n = WordsPerRow(Decode(t.cfg))
  OBVIOUS
<1>2. PICK r \in Rows(t), b \in Bytes(t) :
        DstW(t, w) + i = DstByte(t, r, b) /\ b % 4 = i /\ w = n * r + b \div 4
  BY <1>1, WordBytes, Zenon
<1>3. PICK q \in Rows(u), c \in Bytes(u) :
        DstW(u, v) + j = DstByte(u, q, c) /\ c % 4 = j
        /\ v = WordsPerRow(Decode(u.cfg)) * q + c \div 4
  BY WordBytes, Zenon
<1>4. DstByte(t, r, b) \in Target(t) /\ DstByte(u, q, c) \in Target(u)
  BY DEF Target
<1>5. t = u
  BY <1>2, <1>3, <1>4 DEF WellPlaced
<1>6. r = q /\ b = c
  BY <1>2, <1>3, <1>5 DEF WellPlaced
<1> QED BY <1>1, <1>2, <1>3, <1>5, <1>6

LEMMA SourceWords ==
  ASSUME WellPlaced, NEW t \in Transfers, NEW w \in 0 .. Total(t) - 1
  PROVE  InitWord(SrcW(t, w)) \in Word
<1>1. PICK r \in Rows(t), b \in Bytes(t) :
        SrcW(t, w) + 0 = SrcByte(t, r, b) /\ b % 4 = 0 /\ SrcW(t, w) \in Nat
  <2>1. 0 \in 0 .. 3
    OBVIOUS
  <2> QED BY <2>1, WordBytes, Zenon
<1>2. SrcW(t, w) = SrcByte(t, r, b)
  BY <1>1
<1>3. SourceWord(t, r, b) = InitWord(SrcW(t, w))
  BY <1>2, Zenon DEF SourceWord, InitWord
<1> QED BY <1>1, <1>3 DEF WellPlaced

\* What a copy does to words.
LEMMA CopyWords ==
  ASSUME WellPlaced, NEW t \in Transfers, NEW m, DOMAIN m = Cells
  PROVE  /\ CopyOf(m, t) = [a \in Cells |-> CopyOf(m, t)[a]]
         /\ \A w \in 0 .. Total(t) - 1 : \A i \in 0 .. 3 :
              CopyOf(m, t)[DstW(t, w) + i] = m[SrcW(t, w) + i]
         /\ \A a \in Cells :
              \/ CopyOf(m, t)[a] = m[a]
              \/ \E w \in 0 .. Total(t) - 1 : \E i \in 0 .. 3 : a = DstW(t, w) + i
<1> DEFINE Pair(a) == CHOOSE x \in Rows(t) \X Bytes(t) : DstByte(t, x[1], x[2]) = a
           At(a) == IF a \in Target(t) THEN m[SrcByte(t, Pair(a)[1], Pair(a)[2])] ELSE m[a]
<1>1. CopyOf(m, t) = [a \in Cells |-> At(a)]
  BY DEF CopyOf
<1>2. ASSUME NEW a, NEW r \in Rows(t), NEW b \in Bytes(t), DstByte(t, r, b) = a
      PROVE  Pair(a)[1] = r /\ Pair(a)[2] = b
  <2>1. <<r, b>> \in Rows(t) \X Bytes(t) /\ DstByte(t, <<r, b>>[1], <<r, b>>[2]) = a
    BY <1>2
  <2>2. Pair(a) \in Rows(t) \X Bytes(t) /\ DstByte(t, Pair(a)[1], Pair(a)[2]) = a
    BY <2>1, Zenon
  <2> HIDE DEF Pair
  <2>3. Pair(a)[1] \in Rows(t) /\ Pair(a)[2] \in Bytes(t)
    BY <2>2
  <2> QED BY <1>2, <2>2, <2>3 DEF WellPlaced
<1> HIDE DEF Pair
<1>3. ASSUME NEW w \in 0 .. Total(t) - 1, NEW i \in 0 .. 3
      PROVE  CopyOf(m, t)[DstW(t, w) + i] = m[SrcW(t, w) + i]
  <2>1. PICK r \in Rows(t), b \in Bytes(t) :
          SrcW(t, w) + i = SrcByte(t, r, b) /\ DstW(t, w) + i = DstByte(t, r, b)
    BY WordBytes, Zenon
  <2>2. PICK a : a = DstW(t, w) + i
    OBVIOUS
  <2>3. a \in Cells /\ a \in Target(t)
    BY <2>1, <2>2, WordsInside DEF Target
  <2>4. Pair(a)[1] = r /\ Pair(a)[2] = b
    BY <2>1, <2>2, <1>2
  <2>5. CopyOf(m, t)[a] = At(a)
    BY <2>3, <1>1
  <2>6. At(a) = m[SrcByte(t, r, b)]
    BY <2>3, <2>4
  <2> QED BY <2>1, <2>2, <2>5, <2>6, Zenon
<1>4. ASSUME NEW a \in Cells
      PROVE  \/ CopyOf(m, t)[a] = m[a]
             \/ \E w \in 0 .. Total(t) - 1 : \E i \in 0 .. 3 : a = DstW(t, w) + i
  <2>1. CASE a \in Target(t)
    <3>1. PICK r \in Rows(t), b \in Bytes(t) : a = DstByte(t, r, b)
      BY <2>1 DEF Target
    <3>2. PICK w \in 0 .. Total(t) - 1, i \in 0 .. 3 : DstByte(t, r, b) = DstW(t, w) + i
      BY ByteWords, Zenon
    <3> QED BY <3>1, <3>2, Zenon
  <2>2. CASE a \notin Target(t)
    BY <2>2, <1>1
  <2> QED BY <2>1, <2>2
<1>5. CopyOf(m, t) = [a \in Cells |-> CopyOf(m, t)[a]]
  <2> HIDE DEF At
  <2> QED BY <1>1
<1> QED BY <1>3, <1>4, <1>5

-----------------------------------------------------------------------------
(* The bursts that drain the buffer.                                       *)

\* The write request of the word at place x of the buffer.
WordBeat(g, c, x) ==
  [op |-> "SW", addr |-> WordAddr(g, dstAddr, g.Dest_stride, c.wordsTransferred + x),
   data |-> bufferMemory[x]]

LEMMA OneMore ==
  ASSUME NEW W, NEW s \in Seq(W), NEW x \in W, NEW n \in Nat, Len(s) = n
  PROVE  /\ s \o <<x>> \in Seq(W) /\ Len(s \o <<x>>) = n + 1
         /\ (s \o <<x>>)[n + 1] = x /\ \A i \in 1 .. n : (s \o <<x>>)[i] = s[i]
         /\ s \o <<>> = s
OBVIOUS

LEMMA Concat4 ==
  ASSUME NEW a, NEW b, NEW c, NEW d
  PROVE  /\ <<a>> \o <<>> \o <<>> \o <<>> = <<a>>
         /\ \A s : s = <<a>> \o <<b>> \o <<>> \o <<>> =>
              Len(s) = 2 /\ s[1] = a /\ s[2] = b
         /\ \A s : s = <<a>> \o <<b>> \o <<c>> \o <<d>> =>
              Len(s) = 4 /\ s[1] = a /\ s[2] = b /\ s[3] = c /\ s[4] = d
<1>1. PICK W : a \in W /\ b \in W /\ c \in W /\ d \in W
  <2>1. a \in {a, b, c, d} /\ b \in {a, b, c, d} /\ c \in {a, b, c, d} /\ d \in {a, b, c, d}
    OBVIOUS
  <2> QED BY <2>1, Zenon
<1>2. PICK s : s = <<a>>
  OBVIOUS
<1>3. s \in Seq(W) /\ Len(s) = 1 /\ s[1] = a
  BY <1>1, <1>2
<1>4. PICK t : t = s \o <<b>>
  OBVIOUS
<1>5. /\ t \in Seq(W) /\ Len(t) = 1 + 1 /\ t[1 + 1] = b /\ (\A i \in 1 .. 1 : t[i] = s[i])
      /\ s \o <<>> = s
  BY <1>1, <1>3, <1>4, OneMore
<1>6. Len(t) = 2 /\ t[1] = a /\ t[2] = b
  BY <1>3, <1>5
<1>7. PICK u : u = t \o <<c>>
  OBVIOUS
<1>8. /\ u \in Seq(W) /\ Len(u) = 2 + 1 /\ u[2 + 1] = c /\ (\A i \in 1 .. 2 : u[i] = t[i])
      /\ t \o <<>> = t
  BY <1>1, <1>5, <1>6, <1>7, OneMore
<1>9. Len(u) = 3 /\ u[1] = a /\ u[2] = b /\ u[3] = c
  BY <1>6, <1>8
<1>10. PICK v : v = u \o <<d>>
  OBVIOUS
<1>11. Len(v) = 3 + 1 /\ v[3 + 1] = d /\ (\A i \in 1 .. 3 : v[i] = u[i])
  BY <1>1, <1>8, <1>9, <1>10, OneMore
<1>12. Len(v) = 4 /\ v[1] = a /\ v[2] = b /\ v[3] = c /\ v[4] = d
  BY <1>9, <1>11
<1> QED BY <1>2, <1>4, <1>5, <1>6, <1>7, <1>8, <1>10, <1>12, Zenon

LEMMA ChunkBeats ==
  ASSUME NEW g \in Geometry, NEW c \in Tracking, NEW o \in Nat, NEW chunk \in {1, 2, 4},
         0 <= c.wordsTransferred
  PROVE  /\ Len(createWriteRequestsForChunk(g, c, o, chunk)) = chunk
         /\ \A k \in 0 .. chunk - 1 :
              createWriteRequestsForChunk(g, c, o, chunk)[k + 1] = WordBeat(g, c, o + k)
<1> DEFINE w(i)  == c.wordsTransferred + o + i
           Of(i) == IF i >= chunk THEN <<>>
                    ELSE WriteRequests(g, w(i), WordAddr(g, dstAddr, g.Dest_stride, w(i)),
                                       bufferMemory[o + i])
<1>1. createWriteRequestsForChunk(g, c, o, chunk) = Of(0) \o Of(1) \o Of(2) \o Of(3)
  BY DEF createWriteRequestsForChunk
<1>2. c.wordsTransferred \in Nat
  BY DEF Tracking
<1>3. ASSUME NEW i \in 0 .. 3, i < chunk PROVE Of(i) = <<WordBeat(g, c, o + i)>>
  <2>1. w(i) \in Nat /\ w(i) = c.wordsTransferred + (o + i) /\ ~ (i >= chunk)
    BY <1>2, <1>3
  <2>2. ~ IsPartial(g, w(i))
    BY <2>1, NotPartial
  <2>3. Of(i) = <<[op |-> "SW", addr |-> WordAddr(g, dstAddr, g.Dest_stride, w(i)),
                   data |-> bufferMemory[o + i]]>>
    BY <2>1, <2>2 DEF WriteRequests
  <2> QED BY <2>1, <2>3, Zenon DEF WordBeat
<1>4. ASSUME NEW i \in 0 .. 3, ~ (i < chunk) PROVE Of(i) = <<>>
  <2>1. i >= chunk
    BY <1>4
  <2> QED BY <2>1
<1> DEFINE b(i) == WordBeat(g, c, o + i)
<1>5. PICK s : s = createWriteRequestsForChunk(g, c, o, chunk)
  OBVIOUS
<1> HIDE DEF Of
<1> SUFFICES Len(s) = chunk /\ \A k \in 0 .. chunk - 1 : s[k + 1] = b(k)
  BY <1>5, Zenon
<1>6. CASE chunk = 1
  <2>1. Of(0) = <<b(0)>> /\ Of(1) = <<>> /\ Of(2) = <<>> /\ Of(3) = <<>>
    BY <1>3, <1>4, <1>6
  <2> HIDE DEF b
  <2>2. s = <<b(0)>>
    BY <1>1, <1>5, <2>1, Concat4, Zenon
  <2>3. Len(s) = 1 /\ s[0 + 1] = b(0)
    BY <2>2
  <2>4. \A k \in 0 .. chunk - 1 : k = 0
    BY <1>6
  <2> QED BY <2>3, <2>4, <1>6, Zenon
<1>7. CASE chunk = 2
  <2>1. Of(0) = <<b(0)>> /\ Of(1) = <<b(1)>> /\ Of(2) = <<>> /\ Of(3) = <<>>
    BY <1>3, <1>4, <1>7
  <2> HIDE DEF b
  <2>2. s = <<b(0)>> \o <<b(1)>> \o <<>> \o <<>>
    BY <1>1, <1>5, <2>1, Zenon
  <2>x. Len(s) = 2 /\ s[1] = b(0) /\ s[2] = b(1)
    BY <2>2, Concat4
  <2>3. Len(s) = 2 /\ s[0 + 1] = b(0) /\ s[1 + 1] = b(1)
    BY <2>x
  <2>4. \A k \in 0 .. chunk - 1 : k = 0 \/ k = 1
    BY <1>7
  <2> QED BY <2>3, <2>4, <1>7, Zenon
<1>8. CASE chunk = 4
  <2>1. Of(0) = <<b(0)>> /\ Of(1) = <<b(1)>> /\ Of(2) = <<b(2)>> /\ Of(3) = <<b(3)>>
    BY <1>3, <1>8
  <2> HIDE DEF b
  <2>2. s = <<b(0)>> \o <<b(1)>> \o <<b(2)>> \o <<b(3)>>
    BY <1>1, <1>5, <2>1, Zenon
  <2>x. Len(s) = 4 /\ s[1] = b(0) /\ s[2] = b(1) /\ s[3] = b(2) /\ s[4] = b(3)
    BY <2>2, Concat4
  <2>3. Len(s) = 4 /\ s[0 + 1] = b(0) /\ s[1 + 1] = b(1) /\ s[2 + 1] = b(2) /\ s[3 + 1] = b(3)
    BY <2>x
  <2>4. \A k \in 0 .. chunk - 1 : k = 0 \/ k = 1 \/ k = 2 \/ k = 3
    BY <1>8
  <2> QED BY <2>3, <2>4, <1>8, Zenon
<1> QED BY <1>6, <1>7, <1>8

\* Write bursts with transaction ids from those below m on, that carry each
\* of the n words in the buffer and nothing else.
Drains(ws, g, c, n, m) ==
  /\ ws \in Seq(LegalWrite) /\ ws # <<>>
  /\ \A i, j \in 1 .. Len(ws) : ws[i].tid = ws[j].tid => i = j
  /\ \A i \in 1 .. Len(ws) : nextTid <= ws[i].tid /\ ws[i].tid < m
  /\ \A i \in 1 .. Len(ws) : \A k \in 1 .. Len(ws[i].beats) :
       \E x \in 0 .. n - 1 : ws[i].beats[k] = WordBeat(g, c, x)
  /\ \A x \in 0 .. n - 1 :
       \E i \in 1 .. Len(ws) : \E k \in 1 .. Len(ws[i].beats) : ws[i].beats[k] = WordBeat(g, c, x)

LEMMA WriteBurstsDrain ==
  ASSUME NEW g \in Geometry, NEW c \in Tracking, 0 <= c.wordsTransferred,
         dstAddr \in Nat, bufferMemory \in [0 .. BufferCapacity - 1 -> Word], nextTid \in Nat,
         0 < c.bufferIndex, c.bufferIndex <= BufferCapacity
  PROVE  Drains(WriteBursts(g, c), g, c, c.bufferIndex, nextTid + c.bufferIndex)
<1>1. PICK n \in Nat \ {0} : n = c.bufferIndex
  BY DEF Tracking
<1>2. PICK B, C, h : DrainWalk(g, c, n, B, C, h)
  BY <1>1, WriteBurstsWalk
<1>3. /\ IsWalk(h, n, B, C) /\ WriteBursts(g, c) = h[0]
      /\ \A o \in 0 .. n - 1 : B[o] \in LegalWrite /\ C[o] \in 1 .. n - o
  BY <1>2, Zenon DEF DrainWalk
<1>4. PICK y : Stations(h[0], 0, n, B, C, y)
  BY <1>3, WalkOrder
<1>5. PICK s : s = h[0]
  OBVIOUS
<1>6. s \in Seq(LegalWrite) /\ s # <<>>
  BY <1>3, <1>5, WriteBurstsType
<1>7. PICK l \in Nat : l = Len(s)
  BY <1>6
<1>8. /\ y \in [1 .. l -> 0 .. n - 1]
      /\ \A k \in 1 .. l : s[k] = B[y[k]]
      /\ \A j, k \in 1 .. l : j < k => y[j] < y[k]
      /\ \A x \in 0 .. n - 1 : \E k \in 1 .. l : y[k] <= x /\ x < y[k] + C[y[k]]
  BY <1>4, <1>5, <1>7 DEF Stations
<1>9. PICK t \in Nat : t = nextTid
  OBVIOUS
<1>10. ASSUME NEW o \in 0 .. n - 1
       PROVE  /\ B[o].tid = t + o
              /\ Len(B[o].beats) = C[o] /\ C[o] \in 1 .. n - o
              /\ \A k \in 0 .. C[o] - 1 : B[o].beats[k + 1] = WordBeat(g, c, o + k)
  <2>1. /\ C[o] \in {1, 2, 4} /\ C[o] \in 1 .. n - o /\ o \in Nat
        /\ B[o] = [tid |-> nextTid + o, kind |-> "wr", caller |-> "dma",
                   beats |-> createWriteRequestsForChunk(g, c, o, C[o])]
    BY <1>2 DEF DrainWalk
  <2>2. B[o].tid = nextTid + o /\ B[o].beats = createWriteRequestsForChunk(g, c, o, C[o])
    BY <2>1
  <2>3. /\ Len(createWriteRequestsForChunk(g, c, o, C[o])) = C[o]
        /\ \A k \in 0 .. C[o] - 1 :
             createWriteRequestsForChunk(g, c, o, C[o])[k + 1] = WordBeat(g, c, o + k)
    BY <2>1, ChunkBeats
  <2> QED BY <2>1, <2>2, <2>3, <1>9, Zenon
<1>11. ASSUME NEW i \in 1 .. l PROVE y[i] \in 0 .. n - 1 /\ s[i].tid = t + y[i]
  BY <1>8, <1>10
<1>12. ASSUME NEW i \in 1 .. l, NEW j \in 1 .. l, s[i].tid = s[j].tid PROVE i = j
  <2>1. y[i] = y[j] /\ y[i] \in Int
    BY <1>11, <1>12
  <2>2. (i < j => y[i] < y[j]) /\ (j < i => y[j] < y[i])
    BY <1>8
  <2>3. ~ (i < j) /\ ~ (j < i)
    BY <2>1, <2>2
  <2> QED BY <2>3
<1>13. ASSUME NEW i \in 1 .. l PROVE t <= s[i].tid /\ s[i].tid < t + n
  BY <1>11
<1>14. ASSUME NEW i \in 1 .. l, NEW k \in 1 .. Len(s[i].beats)
       PROVE  \E x \in 0 .. n - 1 : s[i].beats[k] = WordBeat(g, c, x)
  <2>1. PICK o \in 0 .. n - 1 : o = y[i]
    BY <1>11
  <2>2. s[i] = B[o]
    BY <2>1, <1>8
  <2>3. k \in 1 .. C[o] /\ C[o] \in 1 .. n - o
    BY <2>2, <1>10
  <2>4. k - 1 \in 0 .. C[o] - 1 /\ (k - 1) + 1 = k /\ o + (k - 1) \in 0 .. n - 1
    BY <2>3
  <2>5. B[o].beats[k] = WordBeat(g, c, o + (k - 1))
    BY <2>4, <1>10
  <2> QED BY <2>2, <2>4, <2>5, Zenon
<1>15. ASSUME NEW x \in 0 .. n - 1
       PROVE  \E i \in 1 .. l : \E k \in 1 .. Len(s[i].beats) : s[i].beats[k] = WordBeat(g, c, x)
  <2>1. PICK i \in 1 .. l : y[i] <= x /\ x < y[i] + C[y[i]]
    BY <1>8
  <2>2. PICK o \in 0 .. n - 1 : o = y[i]
    BY <1>11
  <2>3. s[i] = B[o] /\ o <= x /\ x < o + C[o] /\ C[o] \in 1 .. n - o
    BY <2>1, <2>2, <1>8, <1>10
  <2>4. x - o \in 0 .. C[o] - 1 /\ o + (x - o) = x /\ (x - o) + 1 \in 1 .. C[o]
    BY <2>3
  <2>5. PICK k \in 0 .. C[o] - 1 : o + k = x /\ k + 1 \in 1 .. C[o]
    BY <2>4, Zenon
  <2>6. Len(B[o].beats) = C[o] /\ B[o].beats[k + 1] = WordBeat(g, c, o + k)
    BY <1>10, Zenon
  <2> QED BY <2>3, <2>5, <2>6, Zenon
<1>16. Drains(s, g, c, n, t + n)
  BY <1>6, <1>7, <1>9, <1>12, <1>13, <1>14, <1>15, Zenon DEF Drains
<1> QED BY <1>16, <1>1, <1>3, <1>5, <1>9, Zenon

-----------------------------------------------------------------------------
(* The requests.                                                           *)

LEMMA PortsIsPort ==
  ASSUME NEW S, NEW p \in Ports(S)
  PROVE  IsPort(p) /\ Held(p) = Packets(p)
<1>1. p.q \in Seq(S) /\ p.reg \in Seq(S) /\ Len(p.reg) <= 1
  BY PortFields
<1>2. p = [reg |-> p.reg, q |-> p.q]
  BY DEF Ports
<1>3. IsPort(p)
  BY <1>1, <1>2, SeqIsSeq DEF IsPort
<1>4. Held(p) = Packets(p)
  BY DEF Held, Packets, Elements
<1> QED BY <1>3, <1>4

\* The types of the requests, from the invariant of the controller.
LEMMA RequestTypes ==
  ASSUME IInv
  PROVE  /\ req \in Ports(Burst) /\ IsPort(req) /\ outstanding \subseteq Burst
         /\ Held(req) = Requests /\ Packets(req) = Requests
         /\ nextTid \in Nat /\ \A p \in InFlight : p \in Burst /\ p.tid \in Nat
<1>1. RequestsTyped /\ TransferTyped
  BY TypeSplit DEF IInv
<1>2. req \in Ports(Burst) /\ outstanding \subseteq Burst /\ nextTid \in Nat
  BY <1>1 DEF RequestsTyped, TransferTyped
<1>3. IsPort(req) /\ Held(req) = Packets(req)
  BY <1>2, PortsIsPort
<1>4. Packets(req) = Requests
  BY DEF Packets, Requests
<1>5. \A p \in Packets(req) : p \in Burst
  <2>1. req.q \in Seq(Burst) /\ req.reg \in Seq(Burst)
    BY <1>2, PortFields
  <2> QED BY <2>1 DEF Packets, Elements
<1>6. \A p \in Burst : p.tid \in Nat
  BY DEF Burst, ReadBursts, WrtBursts
<1> QED BY <1>2, <1>3, <1>4, <1>5, <1>6 DEF InFlight

\* Requests after a step.
LEMMA RequestsNext == Requests' = Packets(req')
BY DEF Packets, Requests, Elements

\* New bursts have new transaction ids.
LEMMA NewTids ==
  ASSUME IInv, Tids, Distinct(req'), Distinct(mresp'), nextTid' \in Nat, nextTid <= nextTid',
         outstanding' \subseteq outstanding,
         \A p \in Requests' : p \in Requests \/ (p.tid \in Nat /\ nextTid <= p.tid /\ p.tid < nextTid')
  PROVE  Tids'
<1>1. Distinct(req)' /\ Distinct(mresp)'
  BY DEF Distinct
<1>2. \A p \in InFlight : p.tid \in Nat /\ p.tid < nextTid
  BY RequestTypes DEF Tids
<1>3. nextTid \in Nat
  BY RequestTypes
<1>4. \A p \in InFlight' : p.tid < nextTid'
  <2> SUFFICES ASSUME NEW p \in InFlight' PROVE p.tid < nextTid'
    OBVIOUS
  <2>1. CASE p \in InFlight
    BY <2>1, <1>2, <1>3
  <2>2. CASE p \in Requests' /\ p \notin Requests
    BY <2>2
  <2> QED BY <2>1, <2>2 DEF InFlight
<1>5. \A p \in outstanding' : \A b \in Requests' : p.tid # b.tid
  <2> SUFFICES ASSUME NEW p \in outstanding', NEW b \in Requests', p.tid = b.tid PROVE FALSE
    OBVIOUS
  <2>0. p \in outstanding /\ p \in InFlight
    BY DEF InFlight
  <2>1. CASE b \in Requests
    BY <2>0, <2>1 DEF Tids
  <2>2. CASE b.tid \in Nat /\ nextTid <= b.tid
    BY <2>0, <2>2, <1>2, <1>3
  <2> QED BY <2>1, <2>2
<1>6. \A p, b \in outstanding' : p.tid = b.tid => p = b
  BY DEF Tids
<1> QED BY <1>1, <1>4, <1>5, <1>6 DEF Tids

\* A step that issues nothing ...
LEMMA MovedTids ==
  ASSUME IInv, Tids, req' = req \/ req' = trySendPacket(req), nextTid' = nextTid,
         outstanding' \subseteq outstanding, Distinct(mresp')
  PROVE  Tids' /\ Requests' = Requests
<1>1. Distinct(req) /\ IsPort(req) /\ req \in Ports(Burst) /\ nextTid \in Nat
  BY RequestTypes DEF Tids
<1>2. Distinct(req')
  BY <1>1, SendDistinct
<1>3. Packets(req') = Packets(req)
  BY <1>1, TrySendPort
<1>4. Requests' = Requests
  BY <1>3, RequestsNext, RequestTypes
<1>5. nextTid' \in Nat /\ nextTid <= nextTid'
  BY <1>1
<1> QED BY <1>2, <1>4, <1>5, NewTids

\* The port that a step issues requests to: after sending what was queued, or not.
LEMMA IssuePort ==
  ASSUME IInv, Tids, NEW port, port = req \/ port = trySendPacket(req)
  PROVE  /\ port \in Ports(Burst) /\ IsPort(port) /\ Distinct(port)
         /\ Packets(port) = Requests /\ Held(port) = Requests
         /\ NoReadIn(req) => NoReadIn(port)
<1>1. Distinct(req) /\ IsPort(req) /\ req \in Ports(Burst) /\ Packets(req) = Requests
  BY RequestTypes DEF Tids
<1>2. Distinct(port)
  BY <1>1, SendDistinct
<1>3. port \in Ports(Burst) /\ Packets(port) = Requests /\ (NoReadIn(req) => NoReadIn(port))
  BY <1>1, TrySendPort
<1>4. IsPort(port) /\ Held(port) = Packets(port)
  BY <1>3, PortsIsPort
<1> QED BY <1>2, <1>3, <1>4

\* ... one that issues a read burst ...
LEMMA ReadTids ==
  ASSUME IInv, Tids, NEW port, port = req \/ port = trySendPacket(req), NoReadIn(req),
         NEW g \in Geometry, NEW c, NEW s, Balanced(g, c), IssueRead(port, g, c, s),
         c.bufferIndex < BufferCapacity, c.wordsToBuffer < g.totalWords,
         outstanding' \subseteq outstanding, Distinct(mresp')
  PROVE  /\ Tids' /\ \E b \in ReadBursts : Requests' = Requests \cup {b}
         /\ cnt' = [c EXCEPT !.pendingBusReadResponses = 1] /\ st' = s
<1>1. /\ port \in Ports(Burst) /\ IsPort(port) /\ Distinct(port) /\ NoReadIn(port)
      /\ Packets(port) = Requests /\ Held(port) = Requests
  BY IssuePort
<1>2. nextTid \in Nat /\ srcAddr \in Nat
  BY TypeSplit DEF IInv, TransferTyped
<1>3. PICK b : b = ReadBurst(g, c)
  OBVIOUS
<1>4. b \in ReadBursts /\ b.tid = nextTid
  BY <1>2, <1>3, ReadBurstFits DEF ReadBurst
<1>5. /\ req' = PushOrQueue(port, b) /\ nextTid' = nextTid + 1 /\ st' = s
      /\ cnt' = [c EXCEPT !.pendingBusReadResponses = 1]
  BY <1>3 DEF IssueRead
<1>6. Packets(req') = Packets(port) \cup {b}
  BY <1>1, <1>4, <1>5, PushRead
<1>7. Requests' = Requests \cup {b}
  BY <1>1, <1>6, RequestsNext
<1>8. \A y \in Held(port) : b.tid # y.tid
  <2>1. \A y \in Requests : y.tid \in Nat /\ y.tid < nextTid
    BY RequestTypes DEF Tids, InFlight
  <2> QED BY <2>1, <1>1, <1>2, <1>4
<1>9. Distinct(req')
  BY <1>1, <1>5, <1>8, PushOrQueueDistinct
<1>10. nextTid' \in Nat /\ nextTid <= nextTid' /\ b.tid \in Nat /\ nextTid <= b.tid /\ b.tid < nextTid'
  BY <1>2, <1>4, <1>5
<1>11. Tids'
  BY <1>7, <1>9, <1>10, NewTids
<1> QED BY <1>4, <1>5, <1>7, <1>11

\* ... and one that drains the buffer.
LEMMA WriteTids ==
  ASSUME IInv, Tids, NEW port, port = req \/ port = trySendPacket(req), NoReadIn(req),
         NEW g \in Geometry, NEW c, NEW s, Balanced(g, c), IssueWrites(port, g, c, s),
         0 < c.bufferIndex, outstanding' \subseteq outstanding, Distinct(mresp')
  PROVE  /\ Tids'
         /\ \E ws : /\ Drains(ws, g, c, c.bufferIndex, nextTid + c.bufferIndex)
                    /\ Requests' = Requests \cup Elements(ws)
<1>1. /\ port \in Ports(Burst) /\ IsPort(port) /\ Distinct(port) /\ NoReadIn(port)
      /\ Packets(port) = Requests /\ Held(port) = Requests
  BY IssuePort
<1>2. nextTid \in Nat /\ dstAddr \in Nat /\ bufferMemory \in [0 .. BufferCapacity - 1 -> Word]
  BY TypeSplit DEF IInv, TransferTyped
<1>3. c \in Tracking /\ 0 <= c.wordsTransferred /\ c.bufferIndex <= BufferCapacity
  BY DEF Balanced
<1>4. PICK ws : ws = WriteBursts(g, c)
  OBVIOUS
<1>5. PICK n \in Nat : n = c.bufferIndex
  BY <1>3 DEF Tracking
<1>6. Drains(ws, g, c, n, nextTid + n)
  BY <1>2, <1>3, <1>4, <1>5, WriteBurstsDrain
<1>7. req' = PushAll(port, ws) /\ nextTid' = nextTid + n
  BY <1>4, <1>5 DEF IssueWrites
<1>8. ws \in Seq(LegalWrite) /\ ws # <<>>
  BY <1>6 DEF Drains
<1>9. ws \in Seq(WrtBursts) /\ IsSeq(ws)
  BY <1>8, SeqIsSeq DEF LegalWrite
<1>10. Packets(req') = Packets(port) \cup Elements(ws)
  BY <1>1, <1>7, <1>8, <1>9, PushWrites
<1>11. Requests' = Requests \cup Elements(ws)
  BY <1>1, <1>10, RequestsNext
<1>12. \A i \in 1 .. Len(ws) : ws[i].tid \in Nat /\ nextTid <= ws[i].tid /\ ws[i].tid < nextTid + n
  <2>0. \A b \in WrtBursts : b.tid \in Nat
    BY DEF WrtBursts
  <2>1. \A i \in 1 .. Len(ws) : ws[i] \in WrtBursts
    BY <1>9
  <2>2. \A i \in 1 .. Len(ws) : ws[i].tid \in Nat
    BY <2>0, <2>1, Zenon
  <2> QED BY <2>2, <1>6, Zenon DEF Drains
<1>13. Distinct(req')
  <2>1. \A y \in Requests : y.tid \in Nat /\ y.tid < nextTid
    BY RequestTypes DEF Tids, InFlight
  <2>2. \A i \in 1 .. Len(ws) : \A y \in Held(port) : ws[i].tid # y.tid
    BY <2>1, <1>1, <1>2, <1>12
  <2>3. \A i, j \in 1 .. Len(ws) : ws[i].tid = ws[j].tid => i = j
    BY <1>6 DEF Drains
  <2> QED BY <2>2, <2>3, <1>1, <1>7, <1>8, <1>9, PushAllDistinct
<1>14. nextTid' \in Nat /\ nextTid <= nextTid'
  BY <1>2, <1>7
<1>15. \A p \in Requests' : p \in Requests \/ (p.tid \in Nat /\ nextTid <= p.tid /\ p.tid < nextTid')
  BY <1>7, <1>11, <1>12 DEF Elements
<1>16. Tids'
  BY <1>13, <1>14, <1>15, NewTids
<1> QED BY <1>5, <1>6, <1>11, <1>16

-----------------------------------------------------------------------------
(* Steps of the driver and the controller that issue no write.             *)

\* Nothing that Link is about has changed.
LEMMA LinkKept ==
  ASSUME Link, UNCHANGED <<outstanding, pending_, beatEvents>>, Held(mresp)' = Held(mresp)
  PROVE  Link'
<1>1. InUse' = InUse
  BY DEF InUse
<1> QED BY <1>1, SMTT(60) DEF Link, Echo, InitWord

\* Nothing that Programmed is about has changed.
LEMMA ProgrammedKept ==
  ASSUME Programmed, UNCHANGED <<drv, mport, srcAddr, dstAddr, dmaSizeCfg, geo>>
  PROVE  Programmed'
BY DEF Programmed, Programming, SawDone

LEMMA SourcesKept ==
  ASSUME Sources, UNCHANGED <<mem, gold>>
  PROVE  Sources'
BY DEF Sources

LEMMA CarryKept ==
  ASSUME Carry, Writes' \subseteq Writes, gold' = gold
  PROVE  Carry'
BY DEF Carry, Carrying, InCopy

LEMMA CurrentKept ==
  ASSUME Current, drv'.job = drv.job, drv'.started = drv.started, gold' = gold
  PROVE  Current'
BY DEF Current, InCopy

LEMMA BufferedKept ==
  ASSUME Buffered, drv'.job = drv.job, Programming => Programming', UNCHANGED <<cnt, bufferMemory>>,
         st'.done = st.done
  PROVE  Buffered'
BY DEF Buffered

\* A byte that is awaited stays so while the writes stay under way.
LEMMA AwaitedKept ==
  ASSUME drv'.job = drv.job, drv'.started = drv.started, Unissued' = Unissued,
         \A p \in Requests : p.kind = "wr" => p \in Requests',
         \A e \in beatEvents : e.kind = "wr" =>
           \E f \in beatEvents' : f.kind = "wr" /\ f.beat = e.beat,
         NEW a, Awaited(a)
  PROVE  Awaited(a)'
<1>1. CASE \E p \in Requests : p.kind = "wr" /\ \E k \in 1 .. Len(p.beats) :
             a \in p.beats[k].addr .. p.beats[k].addr + 3
  BY <1>1 DEF Awaited
<1>2. CASE \E e \in beatEvents : e.kind = "wr" /\ a \in e.beat.addr .. e.beat.addr + 3
  BY <1>2 DEF Awaited
<1>3. CASE drv.started > 0 /\ \E w \in Unissued .. Total(drv.job) - 1 :
             a \in DstW(drv.job, w) .. DstW(drv.job, w) + 3
  <2>1. (drv.started > 0 /\ \E w \in Unissued .. Total(drv.job) - 1 :
             a \in DstW(drv.job, w) .. DstW(drv.job, w) + 3)'
    BY <1>3
  <2> QED BY <2>1 DEF Awaited
<1> QED BY <1>1, <1>2, <1>3 DEF Awaited

LEMMA SettlingKept ==
  ASSUME Settling, UNCHANGED <<mem, gold>>, \A a \in Cells : Awaited(a) => Awaited(a)'
  PROVE  Settling'
BY DEF Settling, Cells

\* The memory and the transfers issued stay as they are.
Untouched ==
  /\ UNCHANGED <<outstanding, memvars, gold>>
  /\ drv'.job = drv.job /\ drv'.started = drv.started
  /\ Requests \subseteq Requests' /\ \A p \in Requests' : p \in Requests \/ p.kind = "rd"
  /\ Unissued' = Unissued

LEMMA UntouchedStep ==
  ASSUME SysInv, Untouched, IInv', Tids', Programmed', Buffered'
  PROVE  SysInv'
<1>1. MemInv' /\ UNCHANGED <<mem, gold, outstanding, pending_, beatEvents>> /\ Held(mresp)' = Held(mresp)
  BY UnchangedMemInv DEF SysInv, BusInv, Untouched, memvars, Held
<1>2. Link'
  BY <1>1, LinkKept DEF SysInv, BusInv
<1>3. Sources'
  BY <1>1, SourcesKept DEF SysInv, CopyInv
<1>4. Writes' \subseteq Writes
  BY DEF Writes, InFlight, Untouched
<1>5. Carry'
  BY <1>1, <1>4, CarryKept DEF SysInv, CopyInv
<1>6. Current'
  BY <1>1, CurrentKept DEF SysInv, CopyInv, Untouched
<1>7. Settling'
  <2>1. \A a \in Cells : Awaited(a) => Awaited(a)'
    BY <1>1, AwaitedKept DEF Untouched
  <2> QED BY <2>1, <1>1, SettlingKept DEF SysInv, CopyInv
<1> QED BY <1>1, <1>2, <1>3, <1>5, <1>6, <1>7 DEF SysInv, BusInv, CopyInv

LEMMA SameTids ==
  ASSUME SysInv, req' = req \/ req' = trySendPacket(req),
         UNCHANGED <<nextTid, outstanding, memvars>>
  PROVE  Tids' /\ Requests' = Requests
<1>1. mresp' = mresp
  BY DEF memvars
<1>2. Distinct(mresp') /\ IInv /\ Tids
  BY <1>1 DEF SysInv, BusInv, Tids
<1> QED BY <1>2, MovedTids

LEMMA TrySendSys == ASSUME SysInv, TrySend, UNCHANGED <<memvars, gold>> PROVE SysInv'
<1>1. /\ req' = trySendPacket(req)
      /\ UNCHANGED <<st, srcAddr, dstAddr, dmaSizeCfg, geo, cnt, bufferMemory, nextTid>>
      /\ UNCHANGED <<outstanding, drv, mport>>
  BY DEF TrySend, regs, transfer, driver
<1>2. Tids' /\ Requests' = Requests
  BY <1>1, SameTids
<1>3. Programmed'
  BY <1>1, ProgrammedKept DEF SysInv, BusInv
<1>4. Programming' = Programming /\ Unissued' = Unissued
  BY <1>1 DEF Programming, Unissued
<1>5. Buffered'
  BY <1>1, <1>4, BufferedKept DEF SysInv, CopyInv
<1>6. Untouched
  BY <1>1, <1>2, <1>4 DEF Untouched
<1>7. IInv'
  BY TrySendStep DEF SysInv, BusInv
<1> QED BY <1>2, <1>3, <1>5, <1>6, <1>7, UntouchedStep

LEMMA ReadMmioSys == ASSUME SysInv, readMMIO, UNCHANGED <<memvars, gold>> PROVE SysInv'
<1>1. /\ UNCHANGED <<req, st, srcAddr, dstAddr, dmaSizeCfg, geo, cnt, bufferMemory, nextTid>>
      /\ UNCHANGED <<outstanding, drv, mport>>
  BY DEF readMMIO, regs, transfer, driver
<1>2. Tids' /\ Requests' = Requests
  BY <1>1, SameTids
<1>3. Programmed'
  BY <1>1, ProgrammedKept DEF SysInv, BusInv
<1>4. Programming' = Programming /\ Unissued' = Unissued
  BY <1>1 DEF Programming, Unissued
<1>5. Buffered'
  BY <1>1, <1>4, BufferedKept DEF SysInv, CopyInv
<1>6. Untouched
  BY <1>1, <1>2, <1>4 DEF Untouched
<1>7. IInv'
  BY ReadMmioStep DEF SysInv, BusInv
<1> QED BY <1>2, <1>3, <1>5, <1>6, <1>7, UntouchedStep

\* The driver and its request at the slave port.
LEMMA DriverTypes ==
  ASSUME IInv
  PROVE  /\ drv \in [pc : DriverPc, job : Transfers, started : 0 .. MaxTransfers]
         /\ drv.pc \in DriverPc /\ drv.job \in Transfers /\ drv.started \in Nat
         /\ mport \in Seq(MmioRequest) /\ Len(mport) \in Nat /\ Len(mport) <= 1
         /\ mport # <<>> => /\ Len(mport) = 1 /\ 1 \in 1 .. Len(mport) /\ mport[1] \in MmioRequest
                            /\ \A i \in 1 .. Len(mport) : i = 1
         /\ mport = <<>> => 1 .. Len(mport) = {}
<1>1. DriverTyped
  BY TypeSplit DEF IInv
<1>2. drv \in [pc : DriverPc, job : Transfers, started : 0 .. MaxTransfers] /\ MaxTransfers \in Nat
  BY <1>1, MaxTransfersAssumption DEF DriverTyped
<1>3. mport \in Seq(MmioRequest) /\ Len(mport) <= 1 /\ Len(mport) \in Nat
  BY <1>1 DEF DriverTyped
<1>4. mport = <<>> => 1 .. Len(mport) = {}
  OBVIOUS
<1> QED BY <1>1, <1>2, <1>3, <1>4, PortRequest

\* Once a request has been taken, the port is empty.
LEMMA EmptyMport ==
  ASSUME mport' = <<>>
  PROVE  (1 .. Len(mport))' = {}
OBVIOUS

LEMMA StepMmioReadSys == ASSUME SysInv, StepMmioRead, UNCHANGED <<memvars, gold>> PROVE SysInv'
<1>1. /\ req' = trySendPacket(req) /\ mport # <<>> /\ mport[1].kind = "rd" /\ mport' = <<>>
      /\ UNCHANGED <<st, srcAddr, dstAddr, dmaSizeCfg, geo, cnt, bufferMemory, nextTid>>
      /\ UNCHANGED <<outstanding, drv>>
  BY DEF StepMmioRead, regs, transfer
<1>2. Tids' /\ Requests' = Requests
  BY <1>1, SameTids
<1>3. 1 \in 1 .. Len(mport) /\ (\A i \in 1 .. Len(mport) : i = 1) /\ (1 .. Len(mport))' = {}
  BY <1>1, DriverTypes, EmptyMport DEF SysInv, BusInv
<1>4. drv.pc = "wait"
  BY <1>1, <1>3 DEF SysInv, BusInv, IInv, Poll
<1>5. ~ Programming /\ ~ Programming'
  BY <1>1, <1>3, <1>4 DEF Programming
<1>6. Unissued' = Unissued
  BY <1>1, <1>5 DEF Unissued
<1>7. Programmed'
  BY <1>1, <1>3, <1>4, <1>5 DEF SysInv, BusInv, Programmed, SawDone
<1>8. Buffered'
  BY <1>1, <1>5, BufferedKept DEF SysInv, CopyInv
<1>9. Untouched
  BY <1>1, <1>2, <1>6 DEF Untouched
<1>10. IInv'
  BY StepMmioReadStep DEF SysInv, BusInv
<1> QED BY <1>2, <1>7, <1>8, <1>9, <1>10, UntouchedStep

LEMMA ReadsEventSys == ASSUME SysInv, ReadsEvent, UNCHANGED <<memvars, gold>> PROVE SysInv'
<1>1. /\ events # <<>> /\ Head(events) = "scheduleReadsForBuffer"
      /\ scheduleReadsForBuffer(req, geo, cnt, st)
      /\ UNCHANGED <<srcAddr, dstAddr, dmaSizeCfg, geo, bufferMemory, outstanding, drv, mport>>
  BY DEF ReadsEvent, regs, driver
<1>2. ~ Programming /\ ReadScheduled
  <2>1. Phase /\ Head(<<"scheduleWritesFromBuffer">>) = "scheduleWritesFromBuffer"
    BY DEF SysInv, BusInv, IInv
  <2> QED BY <1>1, <2>1 DEF Phase, Idle, Busy, Reading, WriteScheduled, Draining
<1>3. IInv /\ Tids /\ geo \in Geometry /\ cnt \in Tracking /\ BufferCapacity \in Nat
  BY TypeSplit, CapacityAssumption DEF SysInv, BusInv, IInv, TransferTyped
<1>4. Balanced(geo, cnt) /\ cnt.bufferIndex < BufferCapacity /\ cnt.wordsToBuffer < geo.totalWords
      /\ NoReadIn(req)
  BY <1>2, <1>3 DEF ReadScheduled, Counters, Balanced, NoRead
<1>5. IssueRead(req, geo, cnt, st)
  <2>1. cnt.bufferIndex \in Int /\ cnt.wordsToBuffer \in Int /\ geo.totalWords \in Int
    BY <1>3 DEF Tracking, Geometry
  <2>2. MinOf(BufferCapacity - cnt.bufferIndex, geo.totalWords - cnt.wordsToBuffer) # 0
    BY <1>3, <1>4, <2>1 DEF MinOf
  <2> QED BY <1>1, <2>2 DEF scheduleReadsForBuffer
<1>6. mresp' = mresp
  BY DEF memvars
<1>7. Distinct(mresp') /\ outstanding' \subseteq outstanding
  BY <1>1, <1>3, <1>6 DEF Tids
<1>8. /\ Tids' /\ (\E b \in ReadBursts : Requests' = Requests \cup {b})
      /\ cnt' = [cnt EXCEPT !.pendingBusReadResponses = 1] /\ st' = st
  BY <1>3, <1>4, <1>5, <1>7, ReadTids
<1>9. Requests \subseteq Requests' /\ \A p \in Requests' : p \in Requests \/ p.kind = "rd"
  BY <1>8 DEF ReadBursts
<1>10. /\ cnt'.bufferIndex = cnt.bufferIndex /\ cnt'.wordsTransferred = cnt.wordsTransferred
       /\ cnt'.wordsToBuffer = cnt.wordsToBuffer
  BY <1>3, <1>8 DEF Tracking
<1>11. Programmed'
  BY <1>1, ProgrammedKept DEF SysInv, BusInv
<1>12. Programming' = Programming /\ Unissued' = Unissued
  BY <1>1, <1>10 DEF Programming, Unissued
<1>13. Buffered'
  BY <1>1, <1>8, <1>10, <1>12 DEF SysInv, CopyInv, Buffered
<1>14. Untouched
  BY <1>1, <1>9, <1>12 DEF Untouched
<1>15. IInv'
  BY ReadsEventStep DEF SysInv, BusInv
<1> QED BY <1>8, <1>11, <1>13, <1>14, <1>15, UntouchedStep

\* The driver's requests.
LEMMA DriverWriteSys == ASSUME SysInv, DriverWrite, UNCHANGED <<memvars, gold>> PROVE SysInv'
<1>1. /\ UNCHANGED <<req, st, srcAddr, dstAddr, dmaSizeCfg, geo, cnt, bufferMemory, nextTid, outstanding>>
      /\ drv.pc \in DOMAIN AfterWrite /\ mport = <<>>
      /\ drv' = [drv EXCEPT !.pc = AfterWrite[@]]
  BY DEF DriverWrite, regs, transfer
<1>2. PICK r : /\ mport' = <<r>>
               /\ r = [kind |-> "wr",
                       reg  |-> CASE drv.pc = "enable" -> "ENABLE"
                                  [] drv.pc = "clear"  -> "DONE"
                                  [] OTHER             -> DriverProgram[drv.pc],
                       data |-> CASE drv.pc = "enable" -> 1
                                  [] drv.pc = "clear"  -> 0
                                  [] OTHER             -> drv.job[drv.pc]]
  BY DEF DriverWrite
<1>3. (1 .. Len(mport))' = {1} /\ (mport[1] = r)'
  BY <1>2
<1>4. /\ drv.pc \in {"src", "dst", "cfg", "enable", "clear"}
      /\ drv \in [pc : DriverPc, job : Transfers, started : 0 .. MaxTransfers]
      /\ 1 .. Len(mport) = {}
  BY <1>1, DriverTypes DEF AfterWrite, SysInv, BusInv
<1>5. drv'.job = drv.job /\ drv'.started = drv.started /\ drv'.pc = AfterWrite[drv.pc]
  BY <1>1, <1>4
<1>6. /\ drv.pc = "src" => drv'.pc = "dst" /\ r = RegisterWrite("SOURCE_INFO", drv.job.src)
      /\ drv.pc = "dst" => drv'.pc = "cfg" /\ r = RegisterWrite("DEST_INFO", drv.job.dst)
      /\ drv.pc = "cfg" => drv'.pc = "enable" /\ r = RegisterWrite("DMA_SIZE_CFG", drv.job.cfg)
      /\ drv.pc = "enable" => drv'.pc = "poll"
      /\ drv.pc = "clear" => drv'.pc = "idle" /\ r.reg = "DONE"
      /\ r.kind = "wr"
  BY <1>2, <1>5 DEF AfterWrite, RegisterWrite, DriverProgram
<1>7. Programming /\ Programming'
  BY <1>3, <1>4, <1>6 DEF Programming
<1>8. Unissued' = Unissued
  BY <1>1, <1>4, <1>6, <1>7 DEF Unissued
<1>9. Programmed /\ (SawDone' => SawDone)
  BY <1>4, <1>5, <1>6 DEF SysInv, BusInv, SawDone
<1>10. Programmed'
  <2>1. (drv.pc # "idle" => drv.started > 0)'
    BY <1>4, <1>5, <1>9 DEF Programmed
  <2>2. (\A i \in 1 .. Len(mport) :
           /\ drv.pc = "dst"    => mport[i] = RegisterWrite("SOURCE_INFO", drv.job.src)
           /\ drv.pc = "cfg"    => mport[i] = RegisterWrite("DEST_INFO", drv.job.dst)
           /\ drv.pc = "enable" => mport[i] = RegisterWrite("DMA_SIZE_CFG", drv.job.cfg)
           /\ drv.pc \in {"src", "idle", "clear"} => mport[i].reg = "DONE")'
    BY <1>3, <1>4, <1>5, <1>6
  <2>3. (mport # <<>>)'
    BY <1>2
  <2>4. (\/ drv.pc \in {"cfg", "enable", "poll", "wait"}
         \/ drv.pc = "dst" /\ mport = <<>>
         \/ SawDone)'
        => srcAddr' = drv'.job.src
    BY <1>1, <1>4, <1>5, <1>6, <1>9, <2>3 DEF Programmed
  <2>5. (\/ drv.pc \in {"enable", "poll", "wait"}
         \/ drv.pc = "cfg" /\ mport = <<>>
         \/ SawDone)'
        => dstAddr' = drv'.job.dst
    BY <1>1, <1>4, <1>5, <1>6, <1>9, <2>3 DEF Programmed
  <2>6. (\/ drv.pc \in {"poll", "wait"}
         \/ drv.pc = "enable" /\ mport = <<>>)'
        => dmaSizeCfg' = drv'.job.cfg
    BY <1>1, <1>4, <1>5, <1>6, <1>9, <2>3 DEF Programmed
  <2>7. (~ Programming \/ SawDone)' => geo' = Decode(drv.job.cfg)'
    BY <1>1, <1>5, <1>7, <1>9 DEF Programmed
  <2> QED BY <2>1, <2>2, <2>4, <2>5, <2>6, <2>7 DEF Programmed
<1>11. Buffered'
  BY <1>7 DEF Buffered
<1>12. Tids' /\ Requests' = Requests
  BY <1>1, SameTids
<1>13. Untouched
  BY <1>1, <1>5, <1>8, <1>12 DEF Untouched
<1>14. IInv'
  BY DriverWriteStep DEF SysInv, BusInv
<1> QED BY <1>10, <1>11, <1>12, <1>13, <1>14, UntouchedStep

LEMMA DriverPollSys == ASSUME SysInv, DriverPoll, UNCHANGED <<memvars, gold>> PROVE SysInv'
<1>1. /\ UNCHANGED <<req, st, srcAddr, dstAddr, dmaSizeCfg, geo, cnt, bufferMemory, nextTid, outstanding>>
      /\ drv.pc = "poll" /\ mport = <<>>
      /\ drv' = [drv EXCEPT !.pc = "wait"]
  BY DEF DriverPoll, regs, transfer
<1>2. PICK r : mport' = <<r>> /\ r = [kind |-> "rd", reg |-> "DONE", data |-> 0]
  BY DEF DriverPoll
<1>3. (1 .. Len(mport))' = {1} /\ (mport[1] = r)' /\ r.kind = "rd"
  BY <1>2
<1>4. /\ drv \in [pc : DriverPc, job : Transfers, started : 0 .. MaxTransfers]
      /\ 1 .. Len(mport) = {}
  BY <1>1, DriverTypes DEF SysInv, BusInv
<1>5. drv'.job = drv.job /\ drv'.started = drv.started /\ drv'.pc = "wait"
  BY <1>1, <1>4
<1>7. ~ Programming /\ ~ Programming'
  BY <1>1, <1>3, <1>4, <1>5 DEF Programming
<1>8. Unissued' = Unissued
  BY <1>1, <1>7 DEF Unissued
<1>10. Programmed'
  BY <1>1, <1>5, <1>7 DEF Programmed, SysInv, BusInv, SawDone
<1>11. Buffered'
  BY <1>1, <1>5, <1>7, BufferedKept DEF SysInv, CopyInv
<1>12. Tids' /\ Requests' = Requests
  BY <1>1, SameTids
<1>13. Untouched
  BY <1>1, <1>5, <1>8, <1>12 DEF Untouched
<1>14. IInv'
  BY DriverPollStep DEF SysInv, BusInv
<1> QED BY <1>10, <1>11, <1>12, <1>13, <1>14, UntouchedStep

LEMMA DriverReceiveSys == ASSUME SysInv, DriverReceive, UNCHANGED <<memvars, gold>> PROVE SysInv'
<1>1. /\ UNCHANGED <<req, st, srcAddr, dstAddr, dmaSizeCfg, geo, cnt, bufferMemory, nextTid, outstanding>>
      /\ UNCHANGED mport /\ resp.reg # <<>>
  BY DEF DriverReceive, regs, transfer
<1>2. Tids' /\ Requests' = Requests
  BY <1>1, SameTids
<1>3. IInv'
  BY DriverReceiveStep DEF SysInv, BusInv
<1>4. CASE UNCHANGED drv
  <2>1. Programmed'
    BY <1>1, <1>4, ProgrammedKept DEF SysInv, BusInv
  <2>2. Programming' = Programming /\ Unissued' = Unissued
    BY <1>1, <1>4 DEF Programming, Unissued
  <2>3. Buffered'
    BY <1>1, <1>4, <2>2, BufferedKept DEF SysInv, CopyInv
  <2>4. Untouched
    BY <1>1, <1>2, <1>4, <2>2 DEF Untouched
  <2> QED BY <1>2, <1>3, <2>1, <2>3, <2>4, UntouchedStep
<1>5. CASE ~ UNCHANGED drv
  <2>0. /\ DriverTyped /\ Poll /\ resp \in Ports(MmioResponse)
        /\ drv \in [pc : DriverPc, job : Transfers, started : 0 .. MaxTransfers]
    BY TypeSplit DEF SysInv, BusInv, IInv, DriverTyped
  <2>1. PICK next \in {"idle", "clear", "poll"} : drv' = [drv EXCEPT !.pc = next]
    BY <1>5 DEF DriverReceive
  <2>2. drv'.job = drv.job /\ drv'.started = drv.started /\ drv'.pc \in {"idle", "clear", "poll"}
    BY <2>0, <2>1
  <2>3. resp.reg[1].kind = "rd"
    <3>1. resp.reg[1] \in MmioResponse
      BY <1>1, <2>0, ForwardPort
    <3>2. resp.reg[1].kind # "wr"
      BY <1>5 DEF DriverReceive
    <3> QED BY <3>1, <3>2 DEF MmioResponse
  <2>4. drv.pc = "wait" /\ mport = <<>>
    <3>1. ~ NoReadIn(resp)
      BY <1>1, <2>0, <2>3, ForwardPort
    <3> QED BY <3>1, <2>0 DEF Poll
  <2>5. 1 .. Len(mport) = {} /\ (1 .. Len(mport))' = {}
    BY <1>1, <2>4
  <2>6. ~ Programming
    BY <2>4, <2>5 DEF Programming
  <2>7. Programming' <=> drv'.pc \in {"idle", "clear"}
    BY <2>2, <2>5 DEF Programming
  <2>8. Unissued' = Unissued
    BY <1>1, <2>2, <2>6, <2>7 DEF Unissued
  <2>9. Programmed'
    BY <1>1, <2>2, <2>4, <2>5, <2>6 DEF SysInv, BusInv, Programmed, SawDone
  <2>10. Buffered'
    BY <1>1, <2>2, <2>6, BufferedKept DEF SysInv, CopyInv
  <2>11. Untouched
    BY <1>1, <1>2, <2>2, <2>8 DEF Untouched
  <2> QED BY <1>2, <1>3, <2>9, <2>10, <2>11, UntouchedStep
<1> QED BY <1>4, <1>5

\* The controller carries out a register write, or starts the transfer.
LEMMA StepMmioWriteSys == ASSUME SysInv, StepMmioWrite, UNCHANGED <<memvars, gold>> PROVE SysInv'
<1>1. /\ mport # <<>> /\ mport[1].kind = "wr" /\ mport' = <<>> /\ UNCHANGED <<drv, outstanding>>
      /\ mport[1] \in MmioRequest /\ Idle
      /\ mport[1].reg = "ENABLE" => drv.pc = "poll" /\ mport[1].data = 1
      /\ mport[1].reg # "ENABLE" => drv.pc \notin {"poll", "wait"}
  <2>1. IInv
    BY DEF SysInv, BusInv
  <2> QED BY <2>1, WriteAcknowledged DEF StepMmioWrite
<1>2. /\ 1 \in 1 .. Len(mport) /\ (\A i \in 1 .. Len(mport) : i = 1) /\ (1 .. Len(mport))' = {}
      /\ drv.pc \in DriverPc
  BY <1>1, DriverTypes, EmptyMport DEF SysInv, BusInv
<1>3. IInv /\ Tids /\ Programmed /\ TransferTyped /\ BufferCapacity \in Nat \ {0} /\ NoReadIn(req)
  BY <1>1, TypeSplit, CapacityAssumption DEF SysInv, BusInv, IInv, Idle, NoRead
<1>4. IInv'
  BY StepMmioWriteStep DEF SysInv, BusInv
<1> DEFINE port == trySendPacket(req)
<1>5. CASE mport[1].reg = "ENABLE"
  <2>0. drv.pc = "poll" /\ mport[1].data % 2 = 1
    BY <1>1, <1>5
  <2>a. PICK g : g = Decode(dmaSizeCfg)
    OBVIOUS
  <2>b. PICK c : c = [cnt EXCEPT !.wordsToBuffer = 0, !.wordsTransferred = 0, !.bufferIndex = 0]
    OBVIOUS
  <2>c. PICK s : s = [enabled |-> TRUE, done |-> FALSE, currentState |-> "READING"]
    OBVIOUS
  <2>1. /\ geo' = g /\ scheduleReadsForBuffer(port, g, c, s)
        /\ UNCHANGED <<srcAddr, dstAddr, dmaSizeCfg, bufferMemory>>
    BY <1>5, <2>0, <2>a, <2>b, <2>c DEF StepMmioWrite, WriteEnable, regs
  <2>2. g \in Geometry /\ cnt \in Tracking
    BY <1>3, <2>a, DecodeType DEF TransferTyped
  <2>3. c \in Tracking /\ c.wordsToBuffer = 0 /\ c.wordsTransferred = 0 /\ c.bufferIndex = 0
    <3> DEFINE d == [cnt EXCEPT !.wordsToBuffer = 0]
               e == [d EXCEPT !.wordsTransferred = 0]
    <3>1. cnt \in Tracking /\ c = [e EXCEPT !.bufferIndex = 0]
      BY <2>2, <2>b
    <3>2. d \in Tracking /\ d.wordsToBuffer = 0
      BY <3>1 DEF Tracking
    <3> HIDE DEF d
    <3>3. e \in Tracking /\ e.wordsToBuffer = 0 /\ e.wordsTransferred = 0
      BY <3>2 DEF Tracking
    <3> HIDE DEF e
    <3> QED BY <3>1, <3>3 DEF Tracking
  <2>4. g.totalWords \in Nat \ {0}
    BY <2>2 DEF Geometry
  <2>5. Balanced(g, c) /\ c.bufferIndex < BufferCapacity /\ c.wordsToBuffer < g.totalWords
    BY <1>3, <2>3, <2>4 DEF Balanced
  <2>6. MinOf(BufferCapacity - c.bufferIndex, g.totalWords - c.wordsToBuffer) # 0
    BY <1>3, <2>3, <2>4 DEF MinOf
  <2>7. IssueRead(port, g, c, s)
    BY <2>1, <2>6 DEF scheduleReadsForBuffer
  <2>8. Distinct(mresp') /\ outstanding' \subseteq outstanding
    BY <1>1, <1>3 DEF Tids, memvars
  <2>9. /\ Tids' /\ (\E b \in ReadBursts : Requests' = Requests \cup {b})
        /\ cnt' = [c EXCEPT !.pendingBusReadResponses = 1] /\ st' = s
    BY <1>3, <2>2, <2>5, <2>7, <2>8, ReadTids
  <2>10. Requests \subseteq Requests' /\ \A p \in Requests' : p \in Requests \/ p.kind = "rd"
    BY <2>9 DEF ReadBursts
  <2>11. cnt'.bufferIndex = 0 /\ cnt'.wordsTransferred = 0
    BY <2>3, <2>9 DEF Tracking
  <2>12. Programming /\ ~ Programming'
    BY <1>1, <1>2, <2>0 DEF Programming
  <2>13. Unissued = 0 /\ Unissued' = 0
    BY <2>0, <2>11, <2>12 DEF Unissued
  <2>14. Buffered'
    <3>1. \A i \in 0 .. cnt'.bufferIndex - 1 : FALSE
      BY <2>11
    <3> QED BY <3>1 DEF Buffered
  <2>15. Programmed'
    <3>1. srcAddr = drv.job.src /\ dstAddr = drv.job.dst /\ dmaSizeCfg = drv.job.cfg /\ drv.started > 0
      BY <1>3, <2>0 DEF Programmed
    <3> QED BY <1>1, <1>2, <2>0, <2>1, <2>a, <3>1 DEF Programmed, SawDone
  <2>16. Untouched
    BY <1>1, <2>10, <2>13 DEF Untouched
  <2> QED BY <1>4, <2>9, <2>14, <2>15, <2>16, UntouchedStep
<1>6. CASE mport[1].reg # "ENABLE"
  <2>1. WriteRegister(port, mport[1])
    BY <1>6 DEF StepMmioWrite
  <2>2. /\ req' = port /\ UNCHANGED <<geo, cnt, bufferMemory, nextTid>>
        /\ srcAddr' = IF mport[1].reg = "SOURCE_INFO" THEN mport[1].data ELSE srcAddr
        /\ dstAddr' = IF mport[1].reg = "DEST_INFO" THEN mport[1].data ELSE dstAddr
        /\ dmaSizeCfg' = IF mport[1].reg = "DMA_SIZE_CFG" THEN mport[1].data ELSE dmaSizeCfg
    BY <2>1 DEF WriteRegister, transfer
  <2>3. Tids' /\ Requests' = Requests
    BY <1>1, <2>2, SameTids
  <2>4. Programming /\ Programming'
    BY <1>1, <1>6 DEF Programming
  <2>5. Unissued' = Unissued
    BY <1>1, <2>2, <2>4 DEF Unissued
  <2>6. Buffered'
    BY <2>4 DEF Buffered
  <2>7. Programmed'
    <3>0. (SawDone' <=> SawDone) /\ drv.pc \notin {"poll", "wait"} /\ Programmed
      BY <1>1, <1>3, <1>6 DEF SawDone
    <3>1. CASE drv.pc = "dst"
      <4>1. mport[1] = RegisterWrite("SOURCE_INFO", drv.job.src)
        BY <1>2, <1>3, <3>1 DEF Programmed
      <4>2. srcAddr' = drv.job.src
        BY <2>2, <4>1 DEF RegisterWrite
      <4> QED BY <1>1, <1>2, <2>4, <3>0, <3>1, <4>2 DEF Programmed, SawDone
    <3>2. CASE drv.pc = "cfg"
      <4>1. mport[1] = RegisterWrite("DEST_INFO", drv.job.dst)
        BY <1>2, <1>3, <3>2 DEF Programmed
      <4>2. dstAddr' = drv.job.dst /\ srcAddr' = srcAddr
        BY <2>2, <4>1 DEF RegisterWrite
      <4> QED BY <1>1, <1>2, <2>4, <3>0, <3>2, <4>2 DEF Programmed, SawDone
    <3>3. CASE drv.pc = "enable"
      <4>1. mport[1] = RegisterWrite("DMA_SIZE_CFG", drv.job.cfg)
        BY <1>2, <1>3, <3>3 DEF Programmed
      <4>2. dmaSizeCfg' = drv.job.cfg /\ srcAddr' = srcAddr /\ dstAddr' = dstAddr
        BY <2>2, <4>1 DEF RegisterWrite
      <4> QED BY <1>1, <1>2, <2>4, <3>0, <3>3, <4>2 DEF Programmed, SawDone
    <3>4. CASE drv.pc \in {"src", "idle", "clear"}
      <4>1. mport[1].reg = "DONE"
        BY <1>2, <1>3, <3>4 DEF Programmed
      <4>2. dmaSizeCfg' = dmaSizeCfg /\ srcAddr' = srcAddr /\ dstAddr' = dstAddr
        BY <2>2, <4>1
      <4> QED BY <1>1, <1>2, <2>2, <2>4, <3>0, <3>4, <4>2 DEF Programmed
    <3> QED BY <1>2, <3>0, <3>1, <3>2, <3>3, <3>4 DEF DriverPc
  <2>8. Untouched
    BY <1>1, <2>3, <2>5 DEF Untouched
  <2> QED BY <1>4, <2>3, <2>6, <2>7, <2>8, UntouchedStep
<1> QED BY <1>5, <1>6

-----------------------------------------------------------------------------
(* The driver starts a transfer: the copy changes.                         *)

LEMMA DriverStartSys ==
  ASSUME WellPlaced, SysInv, DriverStart, gold' = CopyOf(gold, drv'.job), UNCHANGED memvars
  PROVE  SysInv'
<1>1. /\ UNCHANGED <<req, st, srcAddr, dstAddr, dmaSizeCfg, geo, cnt, nextTid, outstanding, mport>>
      /\ UNCHANGED <<mem, pending_, beatEvents, mresp>>
      /\ drv.pc = "idle"
  BY DEF DriverStart, regs, transfer, memvars
<1>2. PICK t \in Transfers : drv' = [pc |-> "src", job |-> t, started |-> drv.started + 1]
  BY DEF DriverStart
<1>3. drv.started \in Nat /\ drv.job \in Transfers
  BY DriverTypes DEF SysInv, BusInv
<1>4. drv'.pc = "src" /\ drv'.job = t /\ drv'.started > 0
  BY <1>2, <1>3
<1>5. gold' = CopyOf(gold, t)
  BY <1>4
<1>6. DOMAIN gold = Cells /\ gold = [a \in Cells |-> gold[a]] /\ mem = [a \in Cells |-> mem[a]]
  BY DEF SysInv, CopyInv, Sources
<1>7. /\ gold' = [a \in Cells |-> gold'[a]]
      /\ \A w \in 0 .. Total(t) - 1 : \A i \in 0 .. 3 : gold'[DstW(t, w) + i] = gold[SrcW(t, w) + i]
      /\ \A a \in Cells :
           \/ gold'[a] = gold[a]
           \/ \E w \in 0 .. Total(t) - 1 : \E i \in 0 .. 3 : a = DstW(t, w) + i
  BY <1>5, <1>6, CopyWords
<1>8. \A u \in Transfers : \A w \in 0 .. Total(u) - 1 : \A i \in 0 .. 3 :
        gold[SrcW(u, w) + i] = InitMem[SrcW(u, w) + i] /\ mem[SrcW(u, w) + i] = InitMem[SrcW(u, w) + i]
  BY DEF SysInv, CopyInv, Sources
<1>9. Sources'
  <2>1. ASSUME NEW u \in Transfers, NEW w \in 0 .. Total(u) - 1, NEW i \in 0 .. 3
        PROVE  gold'[SrcW(u, w) + i] = InitMem[SrcW(u, w) + i]
    <3>1. PICK a \in Cells : a = SrcW(u, w) + i
      BY WordsInside
    <3>2. \A v \in 0 .. Total(t) - 1 : \A j \in 0 .. 3 : a # DstW(t, v) + j
      BY <3>1, WordsApart
    <3>3. gold'[a] = gold[a]
      BY <1>7, <3>2
    <3> QED BY <1>8, <3>1, <3>3
  <2> QED BY <1>1, <1>6, <1>7, <1>8, <2>1 DEF Sources
<1>10. ASSUME NEW u \in Transfers, NEW w \in 0 .. Total(u) - 1, InCopy(u, w) \/ u = t
       PROVE  InCopy(u, w)'
  <2> SUFFICES ASSUME NEW i \in 0 .. 3 PROVE gold'[DstW(u, w) + i] = InitMem[SrcW(u, w) + i]
    BY DEF InCopy
  <2>1. CASE u = t
    BY <1>7, <1>8, <2>1
  <2>2. CASE u # t
    <3>1. PICK a \in Cells : a = DstW(u, w) + i
      BY WordsInside
    <3>2. \A v \in 0 .. Total(t) - 1 : \A j \in 0 .. 3 : a # DstW(t, v) + j
      BY <2>2, <3>1, TargetsApart
    <3>3. gold'[a] = gold[a]
      BY <1>7, <3>2
    <3> QED BY <1>10, <2>2, <3>1, <3>3 DEF InCopy
  <2> QED BY <2>1, <2>2
<1>11. Tids' /\ Requests' = Requests
  BY <1>1, SameTids
<1>12. Carry'
  <2>1. Writes' = Writes
    BY <1>1, <1>11 DEF Writes, InFlight
  <2>2. ASSUME NEW b, Carrying(b) PROVE Carrying(b)'
    BY <1>10, <2>2 DEF Carrying
  <2>3. \A p \in Writes : \A k \in 1 .. Len(p.beats) : Carrying(p.beats[k])'
    BY <2>2 DEF SysInv, CopyInv, Carry
  <2> QED BY <2>1, <2>3 DEF Carry
<1>13. Current'
  BY <1>4, <1>10 DEF Current
<1>14. Programming' /\ ~ SawDone' /\ Unissued' = 0
  BY <1>4 DEF Programming, SawDone, Unissued
<1>15. Buffered'
  BY <1>14 DEF Buffered
<1>16. Programmed'
  <2>1. \A i \in 1 .. Len(mport) : mport[i].reg = "DONE"
    BY <1>1 DEF SysInv, BusInv, Programmed
  <2> QED BY <1>1, <1>4, <1>14, <2>1 DEF Programmed
<1>17. Settling'
  <2>1. ASSUME NEW a \in Cells, gold'[a] # gold[a] PROVE Awaited(a)'
    <3>1. PICK w \in 0 .. Total(t) - 1, i \in 0 .. 3 : a = DstW(t, w) + i
      BY <1>7, <2>1
    <3>2. DstW(t, w) \in Nat
      BY WordsInside
    <3>3. a \in DstW(t, w) .. DstW(t, w) + 3
      BY <3>1, <3>2
    <3>4. (drv.started > 0 /\ \E v \in Unissued .. Total(drv.job) - 1 :
             a \in DstW(drv.job, v) .. DstW(drv.job, v) + 3)'
      BY <1>4, <1>14, <3>3
    <3> QED BY <3>4 DEF Awaited
  <2>2. ASSUME NEW a \in Cells, Awaited(a) PROVE Awaited(a)'
    <3>1. CASE drv.started > 0
      <4>1. SawDone
        BY <1>1, <3>1 DEF SawDone
      <4>2. Transferred /\ geo = Decode(drv.job.cfg)
        BY <4>1 DEF SysInv, BusInv, IInv, Phase, Programmed
      <4>3. Unissued = Total(drv.job)
        BY <1>1, <4>2 DEF Unissued, Transferred, Total
      <4>4. Total(drv.job) \in Nat
        BY <1>3, Layout
      <4>5. Unissued .. Total(drv.job) - 1 = {}
        BY <4>3, <4>4
      <4> QED BY <1>1, <1>11, <2>2, <4>5 DEF Awaited
    <3>2. CASE ~ drv.started > 0
      BY <1>1, <1>11, <2>2, <3>2 DEF Awaited
    <3> QED BY <3>1, <3>2
  <2>3. \A a \in Cells : mem[a] = gold[a] \/ Awaited(a)
    BY DEF SysInv, CopyInv, Settling
  <2>4. \A a \in Cells : mem'[a] = gold'[a] \/ Awaited(a)'
    BY <1>1, <2>1, <2>2, <2>3
  <2> QED BY <2>4 DEF Settling, Cells
<1>18. MemInv' /\ Held(mresp)' = Held(mresp)
  BY <1>1, UnchangedMemInv DEF SysInv, BusInv, Held
<1>19. Link'
  BY <1>1, <1>18, LinkKept DEF SysInv, BusInv
<1>20. IInv'
  BY DriverStartStep DEF SysInv, BusInv
<1> QED BY <1>9, <1>11, <1>12, <1>13, <1>15, <1>16, <1>17, <1>18, <1>19, <1>20 DEF SysInv, BusInv, CopyInv

-----------------------------------------------------------------------------
(* The controller issues the writes of a full buffer.                      *)

\* The words in a buffer that is to be written.
LEMMA BufferedWords ==
  ASSUME WellPlaced, SysInv, ~ Programming, WriteScheduled, NEW x \in 0 .. cnt.bufferIndex - 1
  PROVE  /\ cnt.wordsTransferred + x \in 0 .. Total(drv.job) - 1
         /\ WordBeat(geo, cnt, x) = [op |-> "SW", addr |-> DstW(drv.job, cnt.wordsTransferred + x),
                                     data |-> InitWord(SrcW(drv.job, cnt.wordsTransferred + x))]
         /\ Carrying(WordBeat(geo, cnt, x))
<1>1. ~ st.done
  BY DEF SysInv, BusInv, IInv, Phase, Idle, WriteScheduled
<1>2. PICK n \in Int, m \in Int, r \in Int :
        n = cnt.bufferIndex /\ m = cnt.wordsTransferred /\ r = cnt.wordsToBuffer
  BY TypeSplit DEF SysInv, BusInv, IInv, TransferTyped, Tracking
<1>3. drv.pc \in {"poll", "wait"}
  BY DEF Programming
<1>4. /\ drv.job \in Transfers /\ Total(drv.job) \in Nat /\ drv.started > 0
      /\ geo = Decode(drv.job.cfg) /\ dstAddr = drv.job.dst
  BY <1>3, DriverTypes, Layout DEF SysInv, BusInv, Programmed
<1>5. 0 <= m /\ r = m + n /\ r <= Total(drv.job)
  BY <1>2, <1>4 DEF WriteScheduled, Counters, Total
<1>6. m + x \in 0 .. Total(drv.job) - 1
  BY <1>2, <1>4, <1>5
<1>7. bufferMemory[x] = InitWord(SrcW(drv.job, m + x))
  <2>1. Buffered /\ cnt.wordsToBuffer = cnt.wordsTransferred + cnt.bufferIndex
    BY DEF SysInv, CopyInv, WriteScheduled
  <2> QED BY <1>1, <1>2, <2>1 DEF Buffered
<1>8. WordBeat(geo, cnt, x) = [op |-> "SW", addr |-> DstW(drv.job, m + x),
                               data |-> InitWord(SrcW(drv.job, m + x))]
  BY <1>2, <1>4, <1>7 DEF WordBeat, DstW
<1>9. InCopy(drv.job, m + x)
  BY <1>4, <1>6 DEF SysInv, CopyInv, Current
<1>10. Carrying(WordBeat(geo, cnt, x))
  BY <1>4, <1>6, <1>8, <1>9 DEF Carrying
<1> QED BY <1>2, <1>6, <1>8, <1>10

LEMMA WritesEventSys ==
  ASSUME WellPlaced, SysInv, WritesEvent, UNCHANGED <<memvars, gold>>
  PROVE  SysInv'
<1>1. /\ events # <<>> /\ Head(events) = "scheduleWritesFromBuffer"
      /\ scheduleWritesFromBuffer(req, geo, cnt, st)
      /\ UNCHANGED <<srcAddr, dstAddr, dmaSizeCfg, geo, bufferMemory, outstanding, drv, mport>>
      /\ UNCHANGED <<mem, pending_, beatEvents, mresp>>
  BY DEF WritesEvent, regs, driver, memvars
<1>2. ~ Programming /\ WriteScheduled
  <2>1. Phase /\ Head(<<"scheduleReadsForBuffer">>) = "scheduleReadsForBuffer"
    BY DEF SysInv, BusInv, IInv
  <2> QED BY <1>1, <2>1 DEF Phase, Idle, Busy, Reading, ReadScheduled, Draining
<1>3. IInv /\ Tids /\ geo \in Geometry /\ cnt \in Tracking
  BY TypeSplit DEF SysInv, BusInv, IInv, TransferTyped
<1>4. PICK n \in Nat \ {0}, m \in Nat, r \in Int :
        n = cnt.bufferIndex /\ m = cnt.wordsTransferred /\ r = cnt.wordsToBuffer
  BY <1>2, <1>3 DEF WriteScheduled, Counters, Tracking
<1>5. Balanced(geo, cnt) /\ NoReadIn(req) /\ r = m + n
  BY <1>2, <1>3, <1>4 DEF WriteScheduled, Counters, Balanced, NoRead
<1>6. IssueWrites(req, geo, cnt, st)
  BY <1>1, <1>4 DEF scheduleWritesFromBuffer
<1>7. Distinct(mresp') /\ outstanding' \subseteq outstanding /\ 0 < cnt.bufferIndex
  BY <1>1, <1>3, <1>4 DEF Tids
<1>8. /\ Tids'
      /\ \E ws : /\ Drains(ws, geo, cnt, cnt.bufferIndex, nextTid + cnt.bufferIndex)
                 /\ Requests' = Requests \cup Elements(ws)
  BY <1>3, <1>5, <1>6, <1>7, WriteTids
<1>9. PICK ws : /\ Drains(ws, geo, cnt, n, nextTid + n)
                /\ Requests' = Requests \cup Elements(ws)
  BY <1>4, <1>8, Zenon
<1>10. /\ ws \in Seq(LegalWrite)
       /\ \A i \in 1 .. Len(ws) : \A k \in 1 .. Len(ws[i].beats) :
            \E x \in 0 .. n - 1 : ws[i].beats[k] = WordBeat(geo, cnt, x)
       /\ \A x \in 0 .. n - 1 :
            \E i \in 1 .. Len(ws) : \E k \in 1 .. Len(ws[i].beats) : ws[i].beats[k] = WordBeat(geo, cnt, x)
  BY <1>9 DEF Drains
<1>11. \A i \in 1 .. Len(ws) : ws[i].kind = "wr"
  <2>1. \A b \in LegalWrite : b.kind = "wr"
    BY DEF LegalWrite, WrtBursts
  <2> QED BY <1>10, <2>1
<1>12. cnt'.bufferIndex = n /\ cnt'.wordsTransferred = m + n /\ cnt'.wordsToBuffer = r
  <2>1. PICK l : cnt' = [cnt EXCEPT !.wordsTransferred = @ + cnt.bufferIndex,
                                   !.pendingBusWriteResponses = l]
    BY <1>6 DEF IssueWrites
  <2> QED BY <1>3, <1>4, <2>1 DEF Tracking
<1>13. \A x \in 0 .. n - 1 :
         /\ m + x \in 0 .. Total(drv.job) - 1
         /\ WordBeat(geo, cnt, x).addr = DstW(drv.job, m + x)
         /\ Carrying(WordBeat(geo, cnt, x))
  BY <1>2, <1>4, BufferedWords
<1>14. Programming' = Programming /\ Unissued = m /\ Unissued' = m + n
  BY <1>1, <1>2, <1>4, <1>12 DEF Programming, Unissued
<1>15. Carry'
  <2>1. ASSUME NEW b, Carrying(b) PROVE Carrying(b)'
    BY <2>1 DEF Carrying, InCopy
  <2>2. ASSUME NEW p \in Writes', NEW k \in 1 .. Len(p.beats) PROVE Carrying(p.beats[k])'
    <3>1. CASE p \in Writes
      BY <2>1, <3>1 DEF SysInv, CopyInv, Carry
    <3>2. CASE p \in Elements(ws)
      <4>1. PICK i \in 1 .. Len(ws) : p = ws[i]
        BY <3>2 DEF Elements
      <4>2. PICK x \in 0 .. n - 1 : p.beats[k] = WordBeat(geo, cnt, x)
        BY <1>10, <4>1
      <4> QED BY <1>13, <2>1, <4>2
    <3> QED BY <1>1, <1>9, <3>1, <3>2 DEF Writes, InFlight
  <2> QED BY <2>2 DEF Carry
<1>16. Buffered'
  <2>1. cnt'.wordsToBuffer # cnt'.wordsTransferred + cnt'.bufferIndex
    BY <1>5, <1>12
  <2> QED BY <2>1 DEF Buffered
<1>17. Settling'
  <2>1. ASSUME NEW a \in Cells, Awaited(a) PROVE Awaited(a)'
    <3>1. CASE \E p \in Requests : p.kind = "wr" /\ \E k \in 1 .. Len(p.beats) :
                 a \in p.beats[k].addr .. p.beats[k].addr + 3
      BY <1>9, <3>1 DEF Awaited
    <3>2. CASE \E e \in beatEvents : e.kind = "wr" /\ a \in e.beat.addr .. e.beat.addr + 3
      BY <1>1, <3>2 DEF Awaited
    <3>3. CASE drv.started > 0 /\ \E w \in Unissued .. Total(drv.job) - 1 :
                 a \in DstW(drv.job, w) .. DstW(drv.job, w) + 3
      <4>0. Total(drv.job) \in Nat
        BY DriverTypes, Layout DEF SysInv, BusInv
      <4>1. PICK w \in m .. Total(drv.job) - 1 : a \in DstW(drv.job, w) .. DstW(drv.job, w) + 3
        BY <1>14, <3>3
      <4>2. CASE w < m + n
        <5>1. PICK x \in 0 .. n - 1 : w = m + x
          <6>1. w - m \in 0 .. n - 1 /\ w = m + (w - m)
            BY <4>0, <4>1, <4>2
          <6> QED BY <6>1, Zenon
        <5>i. PICK i \in 1 .. Len(ws) :
                \E k \in 1 .. Len(ws[i].beats) : ws[i].beats[k] = WordBeat(geo, cnt, x)
          BY <1>10
        <5>2. PICK k \in 1 .. Len(ws[i].beats) : ws[i].beats[k] = WordBeat(geo, cnt, x)
          BY <5>i
        <5>3. a \in ws[i].beats[k].addr .. ws[i].beats[k].addr + 3
          BY <1>13, <4>1, <5>1, <5>2
        <5>4. ws[i] \in Requests' /\ ws[i].kind = "wr"
          BY <1>9, <1>11 DEF Elements
        <5> QED BY <5>3, <5>4 DEF Awaited
      <4>3. CASE ~ (w < m + n)
        <5>1. w \in m + n .. Total(drv.job) - 1
          BY <4>0, <4>1, <4>3
        <5>2. (drv.started > 0 /\ \E v \in Unissued .. Total(drv.job) - 1 :
                a \in DstW(drv.job, v) .. DstW(drv.job, v) + 3)'
          BY <1>1, <1>14, <3>3, <4>1, <5>1
        <5> QED BY <5>2 DEF Awaited
      <4> QED BY <4>2, <4>3
    <3> QED BY <2>1, <3>1, <3>2, <3>3 DEF Awaited
  <2> QED BY <1>1, <2>1, SettlingKept DEF SysInv, CopyInv
<1>18. MemInv' /\ Held(mresp)' = Held(mresp)
  BY <1>1, UnchangedMemInv DEF SysInv, BusInv, Held
<1>19. Link'
  BY <1>1, <1>18, LinkKept DEF SysInv, BusInv
<1>20. Programmed'
  BY <1>1, ProgrammedKept DEF SysInv, BusInv
<1>21. Sources' /\ Current'
  BY <1>1, SourcesKept, CurrentKept DEF SysInv, CopyInv
<1>22. IInv'
  BY WritesEventStep DEF SysInv, BusInv
<1> QED BY <1>8, <1>15, <1>16, <1>17, <1>18, <1>19, <1>20, <1>21, <1>22 DEF SysInv, BusInv, CopyInv

-----------------------------------------------------------------------------
(* The memory takes a burst.                                               *)

\* A burst in flight is one that the memory can take.
LEMMA InFlightBurst ==
  ASSUME IInv, NEW p \in InFlight
  PROVE  IsBurst(p) /\ p.kind \in {"rd", "wr"} /\ Len(p.beats) \in {1, 2, 4} /\ IsSeq(p.beats)
<1>1. p \in Burst /\ Len(p.beats) \in {1, 2, 4}
  BY RequestTypes DEF IInv, LegalBursts
<1>2. p.kind \in {"rd", "wr"} /\ IsSeq(p.beats)
  BY <1>1, SeqIsSeq DEF Burst, ReadBursts, WrtBursts
<1>3. p.beats # <<>>
  BY <1>1, EmptyIsSeq
<1> QED BY <1>1, <1>2, <1>3 DEF IsBurst

LEMMA MemAcceptSys == ASSUME SysInv, MemAccept PROVE SysInv'
<1>0. BusAccept /\ IInv /\ Tids /\ Link /\ MemInv
  BY DEF MemAccept, SysInv, BusInv
<1>1. PICK b : b = req.reg[1]
  OBVIOUS
<1>2. /\ req.reg # <<>> /\ req' = Forward(req) /\ outstanding' = outstanding \cup {b}
      /\ MemPop(b)
      /\ UNCHANGED <<st, srcAddr, dstAddr, dmaSizeCfg, geo, cnt, bufferMemory, nextTid, drv, mport>>
      /\ UNCHANGED <<mem, gold>> /\ mresp' = trySendPacket(mresp)
  BY <1>1 DEF MemAccept, BusAccept, regs, transfer, driver, MemPop
<1>3. IInv'
  BY <1>0, BusAcceptStep
<1>4. IsPort(req) /\ Distinct(req) /\ Held(req) = Requests
  BY <1>0, RequestTypes DEF Tids
<1>5. /\ Distinct(req') /\ Requests = Held(req') \cup {b}
      /\ \A x \in Held(req') : x.tid # b.tid
  BY <1>1, <1>2, <1>4, ForwardDistinct
<1>6. Held(req') = Requests'
  BY DEF Held, Requests, Elements
<1>7. b \in Requests /\ b \in InFlight
  BY <1>5 DEF InFlight
<1>8. IsBurst(b) /\ b.kind \in {"rd", "wr"} /\ IsSeq(b.beats)
  BY <1>0, <1>7, InFlightBurst
<1>9. \A p \in outstanding : p.tid # b.tid
  BY <1>0, <1>7 DEF Tids
<1>10. b.tid \notin InUse
  BY <1>0, <1>9 DEF Link
<1>11. /\ MemInv' /\ InUse' = InUse \cup {b.tid} /\ Held(mresp)' = Held(mresp)
       /\ beatEvents' = beatEvents \cup BeatEvents(b)
       /\ DOMAIN pending_' = DOMAIN pending_ \cup {b.tid}
       /\ \A t \in DOMAIN pending_ : pending_'[t] = pending_[t]
       /\ pending_'[b.tid] = [expected |-> Len(b.beats), rbeats |-> <<>>, wbeats |-> <<>>]
  BY <1>0, <1>2, <1>8, <1>10, PopKeepsMemInv
<1>12. /\ \A e \in BeatEvents(b) : /\ e.tid = b.tid /\ e.kind = b.kind
                                   /\ e.i \in 1 .. Len(b.beats) /\ e.beat = b.beats[e.i]
       /\ \A k \in 1 .. Len(b.beats) : \E e \in BeatEvents(b) : e.i = k
  BY <1>8, BurstEvents
<1>13. InFlight' = InFlight
  BY <1>2, <1>5, <1>6 DEF InFlight
<1>14. Tids'
  <2>1. Distinct(mresp')
    BY <1>0, <1>2, SendDistinct DEF Tids, MemInv, Typed
  <2>2. Distinct(req)' /\ Distinct(mresp)'
    BY <1>5, <2>1 DEF Distinct
  <2>3. \A p \in InFlight' : p.tid < nextTid'
    BY <1>0, <1>2, <1>13 DEF Tids
  <2>4. \A p \in outstanding' : \A x \in Requests' : p.tid # x.tid
    BY <1>0, <1>2, <1>5, <1>6 DEF Tids
  <2>5. \A p, x \in outstanding' : p.tid = x.tid => p = x
    BY <1>0, <1>2, <1>9 DEF Tids
  <2> QED BY <2>2, <2>3, <2>4, <2>5 DEF Tids
<1>15. Link'
  <2>1. \A t \in InUse' : \E p \in outstanding' : p.tid = t
    BY <1>0, <1>2, <1>11 DEF Link
  <2>2. \A p \in outstanding' : \A e \in beatEvents' :
          e.tid = p.tid => e.kind = p.kind /\ e.i \in 1 .. Len(p.beats) /\ e.beat = p.beats[e.i]
    <3> SUFFICES ASSUME NEW p \in outstanding', NEW e \in beatEvents', e.tid = p.tid
                 PROVE  e.kind = p.kind /\ e.i \in 1 .. Len(p.beats) /\ e.beat = p.beats[e.i]
      OBVIOUS
    <3>1. e \in beatEvents => e.tid \in InUse
      BY <1>0 DEF MemInv, Scheduled, InUse
    <3>2. CASE e \in beatEvents
      BY <1>0, <1>2, <1>10, <3>1, <3>2 DEF Link
    <3>3. CASE e \in BeatEvents(b)
      BY <1>2, <1>9, <1>12, <3>3
    <3> QED BY <1>11, <3>2, <3>3
  <2>3. ASSUME NEW p \in outstanding', p.tid \in DOMAIN pending_'
        PROVE  /\ pending_'[p.tid].expected = Len(p.beats)
               /\ p.kind = "rd" => Echo(p, pending_'[p.tid].rbeats)
    <3>1. CASE p = b
      <4>1. pending_'[p.tid].expected = Len(p.beats) /\ pending_'[p.tid].rbeats = <<>>
        BY <1>11, <3>1
      <4>2. 1 .. Len(<<>>) = {}
        OBVIOUS
      <4> QED BY <4>1, <4>2 DEF Echo
    <3>2. CASE p # b
      <4>1. p \in outstanding /\ p.tid # b.tid
        BY <1>2, <1>9, <3>2
      <4>2. p.tid \in DOMAIN pending_ /\ pending_'[p.tid] = pending_[p.tid]
        BY <1>11, <2>3, <4>1
      <4> QED BY <1>0, <4>1, <4>2 DEF Link
    <3> QED BY <3>1, <3>2
  <2>4. ASSUME NEW p \in outstanding', NEW r \in Held(mresp)', r.tid = p.tid
        PROVE  /\ r.kind = p.kind /\ IsSeq(r.beats) /\ Len(r.beats) = Len(p.beats)
               /\ p.kind = "rd" => Echo(p, r.beats)
    <3>1. r \in Held(mresp) /\ r.tid \in InUse
      BY <1>11 DEF InUse
    <3>2. p \in outstanding
      BY <1>2, <1>10, <2>4, <3>1
    <3> QED BY <1>0, <2>4, <3>1, <3>2 DEF Link
  <2> QED BY <2>1, <2>2, <2>3, <2>4 DEF Link, Echo
<1>16. Programmed'
  BY <1>2, ProgrammedKept DEF SysInv, BusInv
<1>17. Sources' /\ Current'
  BY <1>2, SourcesKept, CurrentKept DEF SysInv, CopyInv
<1>18. Programming' = Programming /\ Unissued' = Unissued
  BY <1>2 DEF Programming, Unissued
<1>19. Buffered'
  BY <1>2, <1>18, BufferedKept DEF SysInv, CopyInv
<1>20. Carry'
  BY <1>2, <1>13, CarryKept DEF Writes, SysInv, CopyInv
<1>21. Settling'
  <2>1. ASSUME NEW a \in Cells, Awaited(a) PROVE Awaited(a)'
    <3>1. CASE \E p \in Requests : p.kind = "wr" /\ \E k \in 1 .. Len(p.beats) :
                 a \in p.beats[k].addr .. p.beats[k].addr + 3
      <4>1. PICK p \in Requests : p.kind = "wr" /\ \E k \in 1 .. Len(p.beats) :
                 a \in p.beats[k].addr .. p.beats[k].addr + 3
        BY <3>1
      <4>2. CASE p \in Requests'
        BY <4>1, <4>2 DEF Awaited
      <4>3. CASE p = b
        <5>1. PICK k \in 1 .. Len(b.beats) : a \in b.beats[k].addr .. b.beats[k].addr + 3
          BY <4>1, <4>3
        <5>2. PICK e \in BeatEvents(b) : e.i = k
          BY <1>12
        <5>3. e \in beatEvents' /\ e.kind = "wr" /\ e.beat = b.beats[k]
          BY <1>11, <1>12, <4>1, <4>3, <5>2
        <5> QED BY <5>1, <5>3 DEF Awaited
      <4> QED BY <1>5, <1>6, <4>2, <4>3
    <3>2. CASE \E e \in beatEvents : e.kind = "wr" /\ a \in e.beat.addr .. e.beat.addr + 3
      BY <1>11, <3>2 DEF Awaited
    <3>3. CASE drv.started > 0 /\ \E w \in Unissued .. Total(drv.job) - 1 :
                 a \in DstW(drv.job, w) .. DstW(drv.job, w) + 3
      <4>1. (drv.started > 0 /\ \E v \in Unissued .. Total(drv.job) - 1 :
                a \in DstW(drv.job, v) .. DstW(drv.job, v) + 3)'
        BY <1>2, <1>18, <3>3
      <4> QED BY <4>1 DEF Awaited
    <3> QED BY <2>1, <3>1, <3>2, <3>3 DEF Awaited
  <2> QED BY <1>2, <2>1, SettlingKept DEF SysInv, CopyInv
<1> QED BY <1>3, <1>11, <1>14, <1>15, <1>16, <1>17, <1>19, <1>20, <1>21 DEF SysInv, BusInv, CopyInv

-----------------------------------------------------------------------------
(* Steps of the memory alone.                                              *)

LEMMA InternalStep ==
  ASSUME SysInv, UNCHANGED <<vars, gold>>, MemInv', Distinct(mresp'), Link', Sources', Settling'
  PROVE  SysInv'
<1>1. /\ UNCHANGED <<req, st, srcAddr, dstAddr, dmaSizeCfg, geo, cnt, bufferMemory, nextTid>>
      /\ UNCHANGED <<outstanding, drv, mport>>
  BY DEF vars, regs, transfer, driver
<1>2. IInv'
  BY StutterStep DEF SysInv, BusInv
<1>3. Tids' /\ Requests' = Requests
  <2>1. IInv /\ Tids /\ outstanding' \subseteq outstanding
    BY <1>1 DEF SysInv, BusInv
  <2> QED BY <1>1, <2>1, MovedTids
<1>4. Programmed'
  BY <1>1, ProgrammedKept DEF SysInv, BusInv
<1>5. Programming' = Programming
  BY <1>1 DEF Programming
<1>6. Buffered'
  BY <1>1, <1>5, BufferedKept DEF SysInv, CopyInv
<1>7. Writes' \subseteq Writes
  BY <1>1, <1>3 DEF Writes, InFlight
<1>8. Carry' /\ Current'
  BY <1>1, <1>7, CarryKept, CurrentKept DEF SysInv, CopyInv
<1> QED BY <1>2, <1>3, <1>4, <1>6, <1>8 DEF SysInv, BusInv, CopyInv

\* With the driver and the controller at rest only the events matter.
LEMMA InternalAwaited ==
  ASSUME UNCHANGED vars, NEW a, Awaited(a),
         \A e \in beatEvents : e.kind = "wr" /\ a \in e.beat.addr .. e.beat.addr + 3 =>
           \E f \in beatEvents' : f.kind = "wr" /\ f.beat = e.beat
  PROVE  Awaited(a)'
<1>1. /\ UNCHANGED <<req, cnt, drv, mport>>
  BY DEF vars, transfer, driver
<1>2. Requests' = Requests /\ Unissued' = Unissued
  BY <1>1 DEF Requests, Unissued, Programming
<1>3. CASE \E e \in beatEvents : e.kind = "wr" /\ a \in e.beat.addr .. e.beat.addr + 3
  <2>1. \E f \in beatEvents' : f.kind = "wr" /\ a \in f.beat.addr .. f.beat.addr + 3
    BY <1>3
  <2> QED BY <2>1 DEF Awaited
<1>4. CASE \E p \in Requests : p.kind = "wr" /\ \E k \in 1 .. Len(p.beats) :
             a \in p.beats[k].addr .. p.beats[k].addr + 3
  BY <1>2, <1>4 DEF Awaited
<1>5. CASE drv.started > 0 /\ \E w \in Unissued .. Total(drv.job) - 1 :
             a \in DstW(drv.job, w) .. DstW(drv.job, w) + 3
  <2>1. (drv.started > 0 /\ \E w \in Unissued .. Total(drv.job) - 1 :
             a \in DstW(drv.job, w) .. DstW(drv.job, w) + 3)'
    BY <1>1, <1>2, <1>5
  <2> QED BY <2>1 DEF Awaited
<1> QED BY <1>3, <1>4, <1>5 DEF Awaited

LEMMA TrySendResponseSys == ASSUME SysInv, trySendResponse, UNCHANGED <<vars, gold>> PROVE SysInv'
<1>1. /\ mresp' = trySendPacket(mresp)
      /\ UNCHANGED <<mem, pending_, beatEvents, outstanding>>
  BY DEF trySendResponse, vars
<1>2. MemInv' /\ Held(mresp)' = Held(mresp)
  BY SendKeepsMemInv DEF SysInv, BusInv
<1>3. Distinct(mresp')
  BY <1>1, SendDistinct DEF SysInv, BusInv, Tids, MemInv, Typed
<1>4. Link'
  BY <1>1, <1>2, LinkKept DEF SysInv, BusInv
<1>5. Sources'
  BY <1>1, SourcesKept DEF SysInv, CopyInv
<1>6. Settling'
  <2>1. \A a \in Cells : Awaited(a) => Awaited(a)'
    BY <1>1, InternalAwaited
  <2> QED BY <1>1, <2>1, SettlingKept DEF SysInv, CopyInv
<1> QED BY <1>2, <1>3, <1>4, <1>5, <1>6, InternalStep

LEMMA TickSys == ASSUME SysInv, Tick, UNCHANGED <<vars, gold>> PROVE SysInv'
<1>1. UNCHANGED <<mem, pending_, mresp, outstanding>>
  BY DEF Tick, vars
<1>2. /\ MemInv' /\ InUse' = InUse
      /\ \A e \in beatEvents : [e EXCEPT !.due = @ - 1] \in beatEvents'
      /\ \A f \in beatEvents' :
           \E e \in beatEvents :
             /\ f.tid = e.tid /\ f.kind = e.kind /\ f.caller = e.caller
             /\ f.i = e.i /\ f.due = e.due - 1 /\ f.beat = e.beat
  BY TickKeepsMemInv DEF SysInv, BusInv
<1>3. Distinct(mresp')
  BY <1>1 DEF SysInv, BusInv, Tids
<1>4. Link'
  <2>1. Link /\ Held(mresp)' = Held(mresp)
    BY <1>1 DEF SysInv, BusInv, Held
  <2>2. \A p \in outstanding' : \A e \in beatEvents' :
          e.tid = p.tid => e.kind = p.kind /\ e.i \in 1 .. Len(p.beats) /\ e.beat = p.beats[e.i]
    <3> SUFFICES ASSUME NEW p \in outstanding', NEW f \in beatEvents', f.tid = p.tid
                 PROVE  f.kind = p.kind /\ f.i \in 1 .. Len(p.beats) /\ f.beat = p.beats[f.i]
      OBVIOUS
    <3>1. PICK e \in beatEvents : f.tid = e.tid /\ f.kind = e.kind /\ f.i = e.i /\ f.beat = e.beat
      BY <1>2
    <3>2. p \in outstanding /\ e.tid = p.tid
      BY <1>1, <3>1
    <3>3. e.kind = p.kind /\ e.i \in 1 .. Len(p.beats) /\ e.beat = p.beats[e.i]
      BY <2>1, <3>2 DEF Link
    <3> QED BY <3>1, <3>3, Zenon
  <2>3. \A t \in InUse' : \E p \in outstanding' : p.tid = t
    BY <1>1, <1>2, <2>1 DEF Link
  <2>4. /\ \A p \in outstanding' :
             p.tid \in DOMAIN pending_' =>
               /\ pending_'[p.tid].expected = Len(p.beats)
               /\ p.kind = "rd" => Echo(p, pending_'[p.tid].rbeats)
        /\ \A p \in outstanding' : \A r \in Held(mresp)' :
             r.tid = p.tid =>
               /\ r.kind = p.kind /\ IsSeq(r.beats) /\ Len(r.beats) = Len(p.beats)
               /\ p.kind = "rd" => Echo(p, r.beats)
    BY <1>1, <2>1 DEF Link
  <2> QED BY <2>2, <2>3, <2>4 DEF Link, Echo
<1>5. Sources'
  BY <1>1, SourcesKept DEF SysInv, CopyInv
<1>6. Settling'
  <2>1. ASSUME NEW e \in beatEvents PROVE \E f \in beatEvents' : f.kind = e.kind /\ f.beat = e.beat
    <3>1. IsEvent(e)
      BY DEF SysInv, BusInv, MemInv, Typed
    <3>2. PICK f \in beatEvents' : f = [e EXCEPT !.due = @ - 1]
      BY <1>2
    <3>3. f.kind = e.kind /\ f.beat = e.beat
      BY <3>1, <3>2 DEF IsEvent
    <3> QED BY <3>3
  <2>2. \A a \in Cells : Awaited(a) => Awaited(a)'
    BY <2>1, InternalAwaited
  <2> QED BY <1>1, <2>2, SettlingKept DEF SysInv, CopyInv
<1> QED BY <1>2, <1>3, <1>4, <1>5, <1>6, InternalStep

\* The event e has been carried out with the beats collected so far.
LEMMA CarriedLink ==
  ASSUME SysInv, NEW e, NEW beats, Carried(e, beats), MemInv', InUse' = InUse, UNCHANGED outstanding,
         IsSeq(beats), Len(beats) = e.i,
         e.kind = "rd" => \A p \in outstanding : p.tid = e.tid => Echo(p, beats)
  PROVE  Link' /\ Distinct(mresp')
<1>0. Link /\ Distinct(mresp) /\ IsPort(mresp) /\ Settled
  BY DEF SysInv, BusInv, Tids, MemInv, Typed
<1>1. e \in beatEvents /\ beatEvents' = beatEvents \ {e} /\ e.tid \in DOMAIN pending_
  BY DEF Carried
<1>2. \A t \in InUse' : \E p \in outstanding' : p.tid = t
  BY <1>0 DEF Link
<1>3. \A p \in outstanding' : \A f \in beatEvents' :
        f.tid = p.tid => f.kind = p.kind /\ f.i \in 1 .. Len(p.beats) /\ f.beat = p.beats[f.i]
  BY <1>0, <1>1 DEF Link
<1>4. ASSUME NEW p \in outstanding', p.tid = e.tid
      PROVE  p \in outstanding /\ e.kind = p.kind /\ pending_[e.tid].expected = Len(p.beats)
  BY <1>0, <1>1, <1>4 DEF Link
<1>5. CASE e.i < pending_[e.tid].expected
  <2>1. ~ (e.i = pending_[e.tid].expected)
    <3>1. IsTracker(pending_[e.tid]) /\ IsEvent(e)
      BY <1>1 DEF SysInv, BusInv, MemInv, Typed
    <3> QED BY <1>5, <3>1 DEF IsTracker, IsEvent
  <2>2. /\ UNCHANGED mresp /\ DOMAIN pending_' = DOMAIN pending_
        /\ \A t \in DOMAIN pending_ \ {e.tid} : pending_'[t] = pending_[t]
        /\ pending_'[e.tid].expected = pending_[e.tid].expected
        /\ pending_'[e.tid].rbeats = IF e.kind = "rd" THEN beats ELSE <<>>
    BY <2>1 DEF Carried
  <2>3. Distinct(mresp') /\ Held(mresp)' = Held(mresp)
    BY <1>0, <2>2 DEF Held
  <2>4. ASSUME NEW p \in outstanding', p.tid \in DOMAIN pending_'
        PROVE  /\ pending_'[p.tid].expected = Len(p.beats)
               /\ p.kind = "rd" => Echo(p, pending_'[p.tid].rbeats)
    <3>1. CASE p.tid = e.tid
      <4>1. p.kind = "rd" => pending_'[p.tid].rbeats = beats /\ Echo(p, beats)
        BY <1>4, <2>2, <3>1
      <4> QED BY <1>4, <2>2, <3>1, <4>1
    <3>2. CASE p.tid # e.tid
      BY <1>0, <2>2, <2>4, <3>2 DEF Link
    <3> QED BY <3>1, <3>2
  <2>5. \A p \in outstanding' : \A r \in Held(mresp)' :
          r.tid = p.tid =>
            /\ r.kind = p.kind /\ IsSeq(r.beats) /\ Len(r.beats) = Len(p.beats)
            /\ p.kind = "rd" => Echo(p, r.beats)
    BY <1>0, <2>3 DEF Link
  <2> QED BY <1>2, <1>3, <2>3, <2>4, <2>5 DEF Link, Echo
<1>6. CASE ~ (e.i < pending_[e.tid].expected)
  <2>1. PICK r : r = [tid |-> e.tid, kind |-> e.kind, caller |-> e.caller, beats |-> beats]
    OBVIOUS
  <2>2. /\ e.i = pending_[e.tid].expected
        /\ DOMAIN pending_' = DOMAIN pending_ \ {e.tid}
        /\ \A t \in DOMAIN pending_' : pending_'[t] = pending_[t]
        /\ mresp' = Enqueue(mresp, r)
    BY <1>6, <2>1 DEF Carried
  <2>3. r.tid = e.tid /\ r.kind = e.kind /\ r.beats = beats
    BY <2>1
  <2>4. \A y \in Held(mresp) : r.tid # y.tid
    BY <1>0, <1>1, <2>3 DEF Settled
  <2>5. Distinct(mresp') /\ Held(mresp') = Held(mresp) \cup {r}
    BY <1>0, <2>2, <2>4, EnqueueDistinct, EnqueueIsPort
  <2>6. Held(mresp)' = Held(mresp) \cup {r}
    BY <2>5 DEF Held
  <2>7. ASSUME NEW p \in outstanding', p.tid \in DOMAIN pending_'
        PROVE  /\ pending_'[p.tid].expected = Len(p.beats)
               /\ p.kind = "rd" => Echo(p, pending_'[p.tid].rbeats)
    BY <1>0, <2>2, <2>7 DEF Link
  <2>8. ASSUME NEW p \in outstanding', NEW x \in Held(mresp)', x.tid = p.tid
        PROVE  /\ x.kind = p.kind /\ IsSeq(x.beats) /\ Len(x.beats) = Len(p.beats)
               /\ p.kind = "rd" => Echo(p, x.beats)
    <3>1. CASE x = r
      BY <1>4, <2>2, <2>3, <2>8, <3>1
    <3>2. CASE x \in Held(mresp)
      BY <1>0, <2>8, <3>2 DEF Link
    <3> QED BY <2>6, <3>1, <3>2
  <2> QED BY <1>2, <1>3, <2>5, <2>7, <2>8 DEF Link, Echo
<1> QED BY <1>5, <1>6

\* The beats of a read burst in flight are words of the driver's transfer.
LEMMA ReadBeats ==
  ASSUME WellPlaced, SysInv, NEW p \in InFlight, p.kind = "rd"
  PROVE  /\ ~ Programming /\ Reading /\ ~ st.done
         /\ drv.job \in Transfers /\ Total(drv.job) \in Nat
         /\ \A k \in 1 .. Len(p.beats) :
              /\ p.beats[k].op = "LW"
              /\ p.beats[k].imm = cnt.bufferIndex + k - 1
              /\ cnt.wordsTransferred + p.beats[k].imm \in 0 .. Total(drv.job) - 1
              /\ p.beats[k].addr = SrcW(drv.job, cnt.wordsTransferred + p.beats[k].imm)
<1>1. p \in Reads /\ p \in Burst /\ req \in Ports(Burst)
  BY RequestTypes DEF Reads, SysInv, BusInv
<1>2. ~ NoRead
  BY <1>1, NoReadReads
<1>3. ~ Programming /\ Reading /\ ~ st.done
  BY <1>2 DEF SysInv, BusInv, IInv, Phase, Idle, Busy, ReadScheduled, WriteScheduled, Draining
<1>4. drv.pc \in {"poll", "wait"}
  BY <1>3 DEF Programming
<1>5. /\ drv.job \in Transfers /\ Total(drv.job) \in Nat
      /\ geo = Decode(drv.job.cfg) /\ srcAddr = drv.job.src
  BY <1>3, <1>4, DriverTypes, Layout DEF SysInv, BusInv, Programmed
<1>6. PICK n \in Int, m \in Int, r \in Int :
        n = cnt.bufferIndex /\ m = cnt.wordsTransferred /\ r = cnt.wordsToBuffer
  BY TypeSplit DEF SysInv, BusInv, IInv, TransferTyped, Tracking
<1>7. /\ r = m + n /\ 0 <= m /\ 0 <= n /\ r + Len(p.beats) <= Total(drv.job)
      /\ \A k \in 1 .. Len(p.beats) :
           /\ p.beats[k].imm = n + k - 1
           /\ p.beats[k].addr = WordAddr(geo, srcAddr, geo.Source_stride, m + p.beats[k].imm)
  BY <1>1, <1>3, <1>5, <1>6 DEF Reading, ReadFits, Counters, Total
<1>8. p \in ReadBursts
  BY <1>1 DEF Burst, WrtBursts
<1>9. \A k \in 1 .. Len(p.beats) : p.beats[k].op = "LW"
  <2>1. p.beats \in Seq(ReadBeat)
    BY <1>8 DEF ReadBursts
  <2>2. \A k \in 1 .. Len(p.beats) : p.beats[k] \in ReadBeat
    BY <2>1
  <2>3. \A b \in ReadBeat : b.op = "LW"
    BY DEF ReadBeat
  <2> QED BY <2>2, <2>3
<1>10. PICK l \in Nat, q \in Nat : l = Len(p.beats) /\ q = Total(drv.job)
  BY <1>5, <1>8 DEF ReadBursts
<1>r. r + l <= q
  BY <1>7, <1>10
<1>11. ASSUME NEW k \in 1 .. Len(p.beats)
       PROVE  /\ p.beats[k].imm = n + k - 1
              /\ m + p.beats[k].imm \in 0 .. Total(drv.job) - 1
              /\ p.beats[k].addr = SrcW(drv.job, m + p.beats[k].imm)
  <2>1. p.beats[k].imm = n + k - 1
    BY <1>7
  <2>2. k \in 1 .. l
    BY <1>10
  <2>3. m + (n + k - 1) \in 0 .. q - 1
    BY <1>7, <1>r, <2>2
  <2>4. p.beats[k].addr = SrcW(drv.job, m + p.beats[k].imm)
    BY <1>5, <1>7, Zenon DEF SrcW
  <2> QED BY <1>10, <2>1, <2>3, <2>4
<1> QED BY <1>3, <1>5, <1>6, <1>9, <1>11

\* Memory answers a read of a source with what it was loaded with.
LEMMA LoadSource ==
  ASSUME WellPlaced, Sources, NEW t \in Transfers, NEW w \in 0 .. Total(t) - 1, NEW a, a = SrcW(t, w)
  PROVE  Load("LW", a) = InitWord(a)
<1>1. a \in Nat
  BY WordsInside
<1>2. \A i \in 0 .. 3 : mem[a + i] = InitMem[a + i]
  BY DEF Sources
<1>3. mem[a + 0] = InitMem[a + 0] /\ mem[a + 1] = InitMem[a + 1]
      /\ mem[a + 2] = InitMem[a + 2] /\ mem[a + 3] = InitMem[a + 3]
  BY <1>2
<1>4. a + 0 = a
  BY <1>1
<1> QED BY <1>3, <1>4 DEF Load, WordAt, InitWord

LEMMA MemReadSys ==
  ASSUME WellPlaced, SysInv, memReadReqHandler, UNCHANGED <<vars, gold>>
  PROVE  SysInv'
<1>1. MemInv' /\ InUse' = InUse /\ UNCHANGED <<mem, outstanding>>
  BY ReadKeepsMemInv DEF SysInv, BusInv, vars
<1>2. PICK e \in beatEvents :
        /\ e.kind = "rd"
        /\ Carried(e, Append(pending_[e.tid].rbeats,
                             [imm |-> e.beat.imm, data |-> Load(e.beat.op, e.beat.addr)]))
  BY ReadKeepsMemInv DEF SysInv, BusInv
<1>3. PICK x : x = [imm |-> e.beat.imm, data |-> Load(e.beat.op, e.beat.addr)]
  OBVIOUS
<1>4. PICK s : s = pending_[e.tid].rbeats
  OBVIOUS
<1>5. PICK beats : beats = Append(s, x)
  OBVIOUS
<1>6. Carried(e, beats)
  BY <1>2, <1>3, <1>4, <1>5
<1>7. e.tid \in DOMAIN pending_ /\ e.i = Collected(pending_[e.tid]) + 1 /\ beatEvents' = beatEvents \ {e}
  BY <1>6 DEF Carried
<1>8. IsTracker(pending_[e.tid]) /\ pending_[e.tid].wbeats = <<>>
  BY <1>2, <1>7 DEF SysInv, BusInv, MemInv, Typed, Sorted
<1>9. IsSeq(s)
  BY <1>4, <1>8 DEF IsTracker
<1>10. PICK n \in Nat : n = Len(s)
  BY <1>9, LenIsNat
<1>11. e.i = n + 1
  <2>1. Collected(pending_[e.tid]) = n + 0
    BY <1>4, <1>8, <1>10, EmptyIsSeq DEF Collected
  <2> QED BY <1>7, <1>10, <2>1
<1>12. /\ IsSeq(beats) /\ Len(beats) = n + 1 /\ beats[n + 1] = x
       /\ \A k \in 1 .. n : beats[k] = s[k]
  BY <1>5, <1>9, <1>10, AppendIsSeq
<1>13. ASSUME NEW p \in outstanding, p.tid = e.tid PROVE Echo(p, beats)
  <2>1. p.kind = "rd" /\ e.i \in 1 .. Len(p.beats) /\ e.beat = p.beats[e.i] /\ Echo(p, s)
    BY <1>2, <1>4, <1>7, <1>13 DEF SysInv, BusInv, Link
  <2>2. p \in InFlight
    BY DEF InFlight
  <2>3. drv.job \in Transfers /\ p.beats[e.i].op = "LW"
        /\ \E w \in 0 .. Total(drv.job) - 1 : p.beats[e.i].addr = SrcW(drv.job, w)
    BY <2>1, <2>2, ReadBeats
  <2>4. PICK a : a = e.beat.addr
    OBVIOUS
  <2>5. Load("LW", a) = InitWord(a)
    <3>1. Sources
      BY DEF SysInv, CopyInv
    <3> QED BY <2>1, <2>3, <2>4, <3>1, LoadSource
  <2>6. x.imm = p.beats[n + 1].imm /\ x.data = InitWord(p.beats[n + 1].addr)
    BY <1>3, <1>11, <2>1, <2>3, <2>4, <2>5
  <2>7. ASSUME NEW k \in 1 .. n + 1
        PROVE  beats[k].imm = p.beats[k].imm /\ beats[k].data = InitWord(p.beats[k].addr)
    <3>1. k \in 1 .. n \/ k = n + 1
      OBVIOUS
    <3>2. CASE k \in 1 .. n
      BY <1>10, <1>12, <2>1, <3>2 DEF Echo
    <3>3. CASE k = n + 1
      BY <1>12, <2>6, <3>3
    <3> QED BY <3>1, <3>2, <3>3
  <2> QED BY <1>12, <2>7 DEF Echo
<1>14. Link' /\ Distinct(mresp')
  BY <1>1, <1>6, <1>11, <1>12, <1>13, CarriedLink
<1>15. Sources'
  BY <1>1, SourcesKept DEF SysInv, CopyInv
<1>16. Settling'
  <2>1. \A f \in beatEvents : f.kind = "wr" => f \in beatEvents'
    BY <1>2, <1>7
  <2>2. \A a \in Cells : Awaited(a) => Awaited(a)'
    BY <2>1, InternalAwaited
  <2> QED BY <1>1, <2>2, SettlingKept DEF SysInv, CopyInv
<1> QED BY <1>1, <1>14, <1>15, <1>16, InternalStep

LEMMA MemWriteSys ==
  ASSUME WellPlaced, SysInv, memWriteReqHandler, UNCHANGED <<vars, gold>>
  PROVE  SysInv'
<1>1. MemInv' /\ InUse' = InUse /\ UNCHANGED outstanding
  BY WriteKeepsMemInv DEF SysInv, BusInv, vars
<1>2. PICK e \in beatEvents :
        /\ e.kind = "wr"
        /\ mem' = Store(e.beat.op, e.beat.addr, e.beat.data)
        /\ Carried(e, Append(pending_[e.tid].wbeats, e.i))
  BY WriteKeepsMemInv DEF SysInv, BusInv
<1>3. PICK s : s = pending_[e.tid].wbeats
  OBVIOUS
<1>4. PICK beats : beats = Append(s, e.i)
  OBVIOUS
<1>5. Carried(e, beats)
  BY <1>2, <1>3, <1>4
<1>6. e.tid \in DOMAIN pending_ /\ e.i = Collected(pending_[e.tid]) + 1 /\ beatEvents' = beatEvents \ {e}
  BY <1>5 DEF Carried
<1>7. IsTracker(pending_[e.tid]) /\ pending_[e.tid].rbeats = <<>>
  BY <1>2, <1>6 DEF SysInv, BusInv, MemInv, Typed, Sorted
<1>8. IsSeq(s)
  BY <1>3, <1>7 DEF IsTracker
<1>9. PICK n \in Nat : n = Len(s)
  BY <1>8, LenIsNat
<1>10. e.i = n + 1
  <2>1. Collected(pending_[e.tid]) = 0 + n
    BY <1>3, <1>7, <1>9, EmptyIsSeq DEF Collected
  <2> QED BY <1>6, <1>9, <2>1
<1>11. IsSeq(beats) /\ Len(beats) = n + 1
  BY <1>4, <1>8, <1>9, AppendIsSeq
<1>12. Link' /\ Distinct(mresp')
  BY <1>1, <1>2, <1>5, <1>10, <1>11, CarriedLink
<1>13. PICK p \in outstanding : p.tid = e.tid
  BY <1>6 DEF SysInv, BusInv, Link, InUse
<1>14. p.kind = "wr" /\ e.i \in 1 .. Len(p.beats) /\ e.beat = p.beats[e.i]
  BY <1>2, <1>13 DEF SysInv, BusInv, Link
<1>15. Carrying(e.beat)
  BY <1>14 DEF SysInv, CopyInv, Carry, Writes, InFlight
<1>16. PICK t \in Transfers : \E w \in 0 .. Total(t) - 1 :
         /\ e.beat.op = "SW" /\ e.beat.addr = DstW(t, w) /\ e.beat.data = InitWord(SrcW(t, w))
         /\ InCopy(t, w)
  BY <1>15 DEF Carrying
<1>17. PICK w \in 0 .. Total(t) - 1 :
         /\ e.beat.op = "SW" /\ e.beat.addr = DstW(t, w) /\ e.beat.data = InitWord(SrcW(t, w))
         /\ InCopy(t, w)
  BY <1>16
<1>18. PICK a \in Nat : a = DstW(t, w)
  BY WordsInside
<1>19. PICK d : d = InitWord(SrcW(t, w))
  OBVIOUS
<1>20. Sources /\ mem = [c \in Cells |-> mem[c]] /\ gold = [c \in Cells |-> gold[c]]
  BY DEF SysInv, CopyInv, Sources
<1>21. PICK m : m = mem'
  OBVIOUS
<1>22. m = Store("SW", a, d)
  BY <1>2, <1>17, <1>18, <1>19, <1>21, Zenon
<1>23. /\ m = [c \in Cells |-> m[c]]
       /\ \A c \in Cells : c \notin a .. a + 3 => m[c] = mem[c]
       /\ \A c \in Cells : \A i \in 0 .. 3 : c = a + i => m[c] = d[i + 1]
  <2>1. DOMAIN mem = Cells
    BY <1>20
  <2>2. m = [c \in Cells |-> IF c \in a .. a + 3 THEN d[c - a + 1] ELSE mem[c]]
    BY <1>22, <2>1 DEF Store
  <2>3. ASSUME NEW c \in Cells, NEW i \in 0 .. 3, c = a + i PROVE m[c] = d[i + 1]
    <3>1. c \in a .. a + 3 /\ c - a + 1 = i + 1
      BY <2>3
    <3> QED BY <2>2, <3>1
  <2> QED BY <2>2, <2>3
<1>24. ASSUME NEW c \in Cells, c \in a .. a + 3 PROVE m[c] = gold[c]
  <2>1. PICK i \in 0 .. 3 : c = a + i
    <3>1. c - a \in 0 .. 3 /\ c = a + (c - a)
      BY <1>24
    <3> QED BY <3>1, Zenon
  <2>2. m[c] = d[i + 1]
    BY <1>23, <2>1
  <2>3. gold[a + i] = InitMem[SrcW(t, w) + i]
    BY <1>17, <1>18 DEF InCopy
  <2>4. d[i + 1] = InitMem[SrcW(t, w) + i]
    <3>1. PICK b \in Nat : b = SrcW(t, w)
      BY WordsInside
    <3>2. d = <<InitMem[b], InitMem[b + 1], InitMem[b + 2], InitMem[b + 3]>>
      BY <1>19, <3>1 DEF InitWord
    <3>3. d[0 + 1] = InitMem[b + 0] /\ d[1 + 1] = InitMem[b + 1] /\ d[2 + 1] = InitMem[b + 2]
          /\ d[3 + 1] = InitMem[b + 3]
      BY <3>2
    <3>4. i = 0 \/ i = 1 \/ i = 2 \/ i = 3
      OBVIOUS
    <3> QED BY <3>1, <3>3, <3>4, Zenon
  <2> QED BY <2>1, <2>2, <2>3, <2>4, Zenon
<1>25. Sources'
  <2>1. ASSUME NEW u \in Transfers, NEW v \in 0 .. Total(u) - 1, NEW i \in 0 .. 3
        PROVE  m[SrcW(u, v) + i] = InitMem[SrcW(u, v) + i]
               /\ gold[SrcW(u, v) + i] = InitMem[SrcW(u, v) + i]
    <3>1. PICK c \in Cells : c = SrcW(u, v) + i
      BY WordsInside
    <3>2. c \notin a .. a + 3
      <4> SUFFICES ASSUME c \in a .. a + 3 PROVE FALSE
        OBVIOUS
      <4>1. PICK j \in 0 .. 3 : c = a + j
        <5>1. c - a \in 0 .. 3 /\ c = a + (c - a)
          OBVIOUS
        <5> QED BY <5>1, Zenon
      <4> QED BY <1>18, <3>1, <4>1, WordsApart
    <3>3. m[c] = mem[c]
      BY <1>23, <3>2
    <3> QED BY <1>20, <3>1, <3>3 DEF Sources
  <2> QED BY <1>20, <1>21, <1>23, <2>1 DEF Sources
<1>26. Settling'
  <2>1. ASSUME NEW c \in Cells, Awaited(c), c \notin a .. a + 3 PROVE Awaited(c)'
    <3>1. \A f \in beatEvents : f.kind = "wr" /\ c \in f.beat.addr .. f.beat.addr + 3 => f \in beatEvents'
      BY <1>6, <1>17, <1>18, <2>1
    <3> QED BY <2>1, <3>1, InternalAwaited
  <2>2. ASSUME NEW c \in Cells PROVE mem'[c] = gold'[c] \/ Awaited(c)'
    <3>1. CASE c \in a .. a + 3
      BY <1>21, <1>24, <3>1
    <3>2. CASE c \notin a .. a + 3
      <4>1. mem'[c] = mem[c]
        BY <1>21, <1>23, <3>2
      <4>2. mem[c] = gold[c] \/ Awaited(c)
        BY DEF SysInv, CopyInv, Settling
      <4> QED BY <2>1, <3>2, <4>1, <4>2
    <3> QED BY <3>1, <3>2
  <2> QED BY <2>2 DEF Settling, Cells
<1> QED BY <1>1, <1>12, <1>25, <1>26, InternalStep

-----------------------------------------------------------------------------
(* The controller takes a response.                                        *)

\* The burst p that the response r answers.
Answers(r, p) ==
  /\ p \in outstanding /\ outstanding' = outstanding \ {p}
  /\ r = mresp.reg[1] /\ r.kind = p.kind /\ Len(r.beats) = Len(p.beats)
  /\ p.kind = "rd" => Echo(p, r.beats)

LEMMA DeliverAnswers ==
  ASSUME SysInv, Deliver
  PROVE  /\ MemInv' /\ Link' /\ Distinct(mresp')
         /\ UNCHANGED <<mem, beatEvents, gold>>
         /\ \E r, p : Answers(r, p)
<1>0. Link /\ Tids /\ Distinct(mresp) /\ IsPort(mresp) /\ Settled
  BY DEF SysInv, BusInv, Tids, MemInv, Typed
<1>1. PICK r : r = mresp.reg[1]
  OBVIOUS
<1>2. /\ mresp.reg # <<>> /\ mresp' = Forward(mresp)
      /\ outstanding' = {p \in outstanding : p.tid # r.tid}
      /\ UNCHANGED <<mem, pending_, beatEvents, stepped, gold>>
  BY <1>1 DEF Deliver
<1>3. MemInv' /\ InUse' \subseteq InUse
  BY <1>2, TakeKeepsMemInv DEF SysInv, BusInv
<1>4. /\ Distinct(mresp') /\ Held(mresp) = Held(mresp') \cup {r}
      /\ \A x \in Held(mresp') : x.tid # r.tid
  BY <1>0, <1>1, <1>2, ForwardDistinct
<1>5. Held(mresp)' = Held(mresp')
  BY DEF Held
<1>6. r.tid \in InUse /\ r.tid \notin DOMAIN pending_
  BY <1>0, <1>4 DEF InUse, Settled
<1>7. r.tid \notin InUse'
  BY <1>2, <1>4, <1>5, <1>6 DEF InUse
<1>8. PICK p \in outstanding : p.tid = r.tid
  BY <1>0, <1>6 DEF Link
<1>9. outstanding' = outstanding \ {p}
  BY <1>0, <1>2, <1>8 DEF Tids
<1>10. Answers(r, p)
  BY <1>0, <1>1, <1>4, <1>8, <1>9 DEF Link, Answers
<1>11. Link'
  <2>1. ASSUME NEW t \in InUse' PROVE \E x \in outstanding' : x.tid = t
    <3>1. PICK x \in outstanding : x.tid = t
      BY <1>0, <1>3 DEF Link
    <3>2. x.tid # r.tid
      BY <1>7, <3>1
    <3> QED BY <1>2, <3>1, <3>2
  <2>2. \A x \in outstanding' : \A e \in beatEvents' :
          e.tid = x.tid => e.kind = x.kind /\ e.i \in 1 .. Len(x.beats) /\ e.beat = x.beats[e.i]
    BY <1>0, <1>2 DEF Link
  <2>3. \A x \in outstanding' :
          x.tid \in DOMAIN pending_' =>
            /\ pending_'[x.tid].expected = Len(x.beats)
            /\ x.kind = "rd" => Echo(x, pending_'[x.tid].rbeats)
    BY <1>0, <1>2 DEF Link
  <2>4. \A x \in outstanding' : \A y \in Held(mresp)' :
          y.tid = x.tid =>
            /\ y.kind = x.kind /\ IsSeq(y.beats) /\ Len(y.beats) = Len(x.beats)
            /\ x.kind = "rd" => Echo(x, y.beats)
    <3>1. outstanding' \subseteq outstanding /\ Held(mresp)' \subseteq Held(mresp)
      BY <1>2, <1>4, <1>5
    <3> QED BY <1>0, <3>1 DEF Link
  <2> QED BY <2>1, <2>2, <2>3, <2>4 DEF Link, Echo
<1> QED BY <1>2, <1>3, <1>4, <1>10, <1>11

\* Like UntouchedStep, for a step that takes a response.
LEMMA DeliveredStep ==
  ASSUME SysInv, MemInv', Link', IInv', Tids', Programmed', Buffered',
         UNCHANGED <<mem, beatEvents, gold, drv>>, outstanding' \subseteq outstanding,
         Requests \subseteq Requests', \A p \in Requests' : p \in Requests \/ p.kind = "rd",
         Unissued' = Unissued
  PROVE  SysInv'
<1>1. Sources'
  BY SourcesKept DEF SysInv, CopyInv
<1>2. Writes' \subseteq Writes
  BY DEF Writes, InFlight
<1>3. Carry'
  BY <1>2, CarryKept DEF SysInv, CopyInv
<1>4. Current'
  BY CurrentKept DEF SysInv, CopyInv
<1>5. Settling'
  <2>1. \A a \in Cells : Awaited(a) => Awaited(a)'
    BY AwaitedKept
  <2> QED BY <2>1, SettlingKept DEF SysInv, CopyInv
<1> QED BY <1>1, <1>3, <1>4, <1>5 DEF SysInv, BusInv, CopyInv

\* A write response is one of an arbitrary memory system.
LEMMA DeliverWriteIsBus == ASSUME SysInv, DeliverWrite PROVE BusWriteResponse
<1>1. PICK r, p : Answers(r, p)
  BY DeliverAnswers DEF DeliverWrite
<1>2. StepWriteResponse(r)
  BY <1>1 DEF DeliverWrite, Answers
<1>3. StepWriteResponse(p)
  BY <1>1, <1>2 DEF StepWriteResponse, Answers
<1> QED BY <1>1, <1>3 DEF BusWriteResponse, Answers

LEMMA DeliverWriteSys == ASSUME WellPlaced, SysInv, DeliverWrite PROVE SysInv'
<1>0. /\ MemInv' /\ Link' /\ Distinct(mresp') /\ UNCHANGED <<mem, beatEvents, gold>>
  BY DeliverAnswers DEF DeliverWrite
<1>1. PICK r, p : Answers(r, p)
  BY DeliverAnswers DEF DeliverWrite
<1>2. p \in outstanding /\ outstanding' = outstanding \ {p} /\ p.kind = "wr" /\ StepWriteResponse(r)
  BY <1>1 DEF DeliverWrite, Answers, StepWriteResponse
<1>3. IInv'
  BY DeliverWriteIsBus, BusWriteResponseStep DEF SysInv, BusInv
<1> DEFINE port == trySendPacket(req)
<1>c. PICK c : c = [cnt EXCEPT !.pendingBusWriteResponses = @ - 1]
  OBVIOUS
<1>e. PICK e : e = [c EXCEPT !.bufferIndex = 0]
  OBVIOUS
<1>s. PICK s : s = [st EXCEPT !.currentState = "READING"]
  OBVIOUS
<1>4. UNCHANGED <<srcAddr, dstAddr, dmaSizeCfg, geo, drv, mport>>
  BY <1>2 DEF StepWriteResponse, handleWriteCompletion, regs, driver
<1>5. IF c.pendingBusWriteResponses # 0
      THEN /\ cnt' = c /\ req' = port
           /\ UNCHANGED <<st, bufferMemory, nextTid>>
      ELSE IF c.wordsTransferred >= geo.totalWords
           THEN Finish(port, e, st)
           ELSE scheduleReadsForBuffer(port, geo, e, s)
  BY <1>2, <1>c, <1>e, <1>s DEF StepWriteResponse, handleWriteCompletion
<1>6. /\ IInv /\ Tids /\ cnt \in Tracking /\ st \in Status /\ geo \in Geometry
      /\ BufferCapacity \in Nat \ {0} /\ geo.totalWords \in Nat \ {0}
  BY TypeSplit, CapacityAssumption DEF SysInv, BusInv, IInv, TransferTyped, Geometry
<1>7. /\ c \in Tracking /\ c.bufferIndex = cnt.bufferIndex /\ c.wordsToBuffer = cnt.wordsToBuffer
      /\ c.wordsTransferred = cnt.wordsTransferred
      /\ c.pendingBusWriteResponses = cnt.pendingBusWriteResponses - 1
  <2>1. cnt \in Tracking
    BY <1>6
  <2> QED BY <1>c, <2>1 DEF Tracking
<1>8. /\ e \in Tracking /\ e.bufferIndex = 0 /\ e.wordsToBuffer = cnt.wordsToBuffer
      /\ e.wordsTransferred = cnt.wordsTransferred
  <2>1. c \in Tracking
    BY <1>7
  <2> QED BY <1>7, <1>e, <2>1 DEF Tracking
<1>9. Programmed'
  BY <1>4, ProgrammedKept DEF SysInv, BusInv
<1>10. Programming' = Programming /\ outstanding' \subseteq outstanding
  BY <1>2, <1>4 DEF Programming
<1>11. cnt'.wordsTransferred = cnt.wordsTransferred => Unissued' = Unissued
  BY <1>4, <1>10 DEF Unissued
<1>12. CASE c.pendingBusWriteResponses # 0
  <2>1. cnt' = c /\ req' = port /\ UNCHANGED <<st, bufferMemory, nextTid>>
    BY <1>5, <1>12
  <2>2. Tids' /\ Requests' = Requests
    BY <1>0, <1>6, <1>10, <2>1, MovedTids
  <2>3. Buffered'
    BY <1>4, <1>7, <1>10, <2>1 DEF SysInv, CopyInv, Buffered
  <2> QED BY <1>0, <1>3, <1>4, <1>7, <1>9, <1>10, <1>11, <2>1, <2>2, <2>3, DeliveredStep
<1>13. CASE c.pendingBusWriteResponses = 0
  <2>1. p \in Writes /\ cnt.pendingBusWriteResponses = 1
    <3>1. cnt.pendingBusWriteResponses \in Int
      BY <1>6 DEF Tracking
    <3> QED BY <1>2, <1>7, <1>13, <3>1 DEF Writes, InFlight
  <2>2. ~ NoCountedWrite
    BY <2>1 DEF NoCountedWrite
  <2>3. ~ Programming /\ ~ st.done /\ Draining
    BY <2>2 DEF SysInv, BusInv, IInv, Phase, Idle, Busy, Reading, ReadScheduled, WriteScheduled
  <2>4. CASE c.wordsTransferred >= geo.totalWords
    <3>1. req' = port /\ cnt' = e /\ nextTid' = nextTid /\ st' = Complete(st)
      BY <1>5, <1>13, <2>4 DEF Finish
    <3>2. st'.done
      <4>1. st \in Status
        BY <1>6
      <4> QED BY <3>1, <4>1 DEF Complete, Status
    <3>3. Tids' /\ Requests' = Requests
      BY <1>0, <1>6, <1>10, <3>1, MovedTids
    <3>4. Buffered'
      BY <3>2 DEF Buffered
    <3> QED BY <1>0, <1>3, <1>4, <1>8, <1>9, <1>10, <1>11, <3>1, <3>3, <3>4, DeliveredStep
  <2>5. CASE ~ (c.wordsTransferred >= geo.totalWords)
    <3>1. scheduleReadsForBuffer(port, geo, e, s)
      BY <1>5, <1>13, <2>5
    <3>2. cnt.wordsTransferred \in Int /\ cnt.wordsToBuffer = cnt.wordsTransferred /\ NoReadIn(req)
      BY <1>6, <2>3 DEF Draining, NoRead, Tracking
    <3>3. e.wordsToBuffer < geo.totalWords /\ e.wordsToBuffer \in Int
      BY <1>6, <1>7, <1>8, <2>5, <3>2
    <3>4. Balanced(geo, e) /\ e.bufferIndex < BufferCapacity
      BY <1>6, <1>8, <2>3, <3>2, <3>3 DEF Balanced, Draining, Counters
    <3>5. MinOf(BufferCapacity - e.bufferIndex, geo.totalWords - e.wordsToBuffer) # 0
      BY <1>6, <1>8, <3>3 DEF MinOf
    <3>6. IssueRead(port, geo, e, s)
      BY <3>1, <3>5 DEF scheduleReadsForBuffer
    <3>7. /\ Tids' /\ (\E b \in ReadBursts : Requests' = Requests \cup {b})
          /\ cnt' = [e EXCEPT !.pendingBusReadResponses = 1] /\ st' = s
      BY <1>0, <1>6, <1>10, <3>2, <3>3, <3>4, <3>6, ReadTids
    <3>8. Requests \subseteq Requests' /\ \A b \in Requests' : b \in Requests \/ b.kind = "rd"
      BY <3>7 DEF ReadBursts
    <3>9. cnt'.bufferIndex = 0 /\ cnt'.wordsTransferred = cnt.wordsTransferred
      BY <1>8, <3>7 DEF Tracking
    <3>10. Buffered'
      <4>1. \A i \in 0 .. cnt'.bufferIndex - 1 : FALSE
        BY <3>9
      <4> QED BY <4>1 DEF Buffered
    <3> QED BY <1>0, <1>3, <1>4, <1>9, <1>10, <1>11, <3>7, <3>8, <3>9, <3>10, DeliveredStep
  <2> QED BY <2>4, <2>5
<1> QED BY <1>12, <1>13

\* Beats whose operands count up from o name each place of the buffer once.
LEMMA FilledPlace ==
  ASSUME NEW b, NEW n \in Nat, NEW o \in Int, \A k \in 1 .. n : b[k].imm = o + k - 1,
         NEW i, NEW j \in 1 .. n, b[j].imm = i
  PROVE  (CHOOSE k \in 1 .. n : b[k].imm = i) = j
<1>1. PICK c : c = CHOOSE k \in 1 .. n : b[k].imm = i
  OBVIOUS
<1>2. c \in 1 .. n /\ b[c].imm = i
  BY <1>1, Zenon
<1>3. o + c - 1 = o + j - 1
  BY <1>2
<1>4. c = j
  BY <1>2, <1>3
<1> QED BY <1>1, <1>4

\* What a response brings: beat k is for place o + k - 1 of the buffer.
Brought(r, p, n, o, data) ==
  /\ p \in InFlight /\ p \in outstanding /\ outstanding' = outstanding \ {p} /\ p.kind = "rd"
  /\ n = Len(p.beats) /\ n = Len(r.beats) /\ o = cnt.bufferIndex
  /\ data = [k \in 1 .. n |-> r.beats[k].data]
  /\ \A k \in 1 .. n : p.beats[k].imm = o + k - 1 /\ r.beats[k].imm = o + k - 1
  /\ \A k \in 1 .. n :
       \E w \in 0 .. Total(drv.job) - 1 :
         w = cnt.wordsTransferred + (o + k - 1) /\ data[k] = InitWord(SrcW(drv.job, w))
  /\ StepReadResponse(r, data)

LEMMA DeliverBrings ==
  ASSUME WellPlaced, SysInv, DeliverRead
  PROVE  \E r, p : \E n, o \in Int : \E data : n \in Nat /\ Brought(r, p, n, o, data)
<1>1. PICK r, p : Answers(r, p)
  BY DeliverAnswers DEF DeliverRead
<1>2. StepReadResponse(r, [k \in 1 .. Len(r.beats) |-> r.beats[k].data])
  BY <1>1 DEF DeliverRead, Answers
<1>3. /\ p \in outstanding /\ outstanding' = outstanding \ {p} /\ p.kind = "rd"
      /\ Len(r.beats) = Len(p.beats) /\ Echo(p, r.beats)
  BY <1>1, <1>2 DEF Answers, StepReadResponse
<1>4. p \in InFlight
  BY <1>3 DEF InFlight
<1>5. PICK n \in Nat : n = Len(p.beats)
  <2>1. p \in Burst
    BY <1>3, RequestTypes DEF SysInv, BusInv
  <2> QED BY <2>1 DEF Burst, ReadBursts, WrtBursts
<1>6. PICK o \in Int, m \in Int : o = cnt.bufferIndex /\ m = cnt.wordsTransferred
  BY TypeSplit DEF SysInv, BusInv, IInv, TransferTyped, Tracking
<1>7. PICK data : data = [k \in 1 .. n |-> r.beats[k].data]
  OBVIOUS
<1>8. \A k \in 1 .. n :
        /\ p.beats[k].imm = o + k - 1
        /\ m + p.beats[k].imm \in 0 .. Total(drv.job) - 1
        /\ p.beats[k].addr = SrcW(drv.job, m + p.beats[k].imm)
  <2>1. \A k \in 1 .. Len(p.beats) :
          /\ p.beats[k].imm = cnt.bufferIndex + k - 1
          /\ cnt.wordsTransferred + p.beats[k].imm \in 0 .. Total(drv.job) - 1
          /\ p.beats[k].addr = SrcW(drv.job, cnt.wordsTransferred + p.beats[k].imm)
    BY <1>3, <1>4, ReadBeats
  <2> QED BY <1>5, <1>6, <2>1, Zenon
<1>9. \A k \in 1 .. n : r.beats[k].imm = p.beats[k].imm /\ r.beats[k].data = InitWord(p.beats[k].addr)
  BY <1>3, <1>5, Zenon DEF Echo
<1>10. ASSUME NEW k \in 1 .. n
       PROVE  \E w \in 0 .. Total(drv.job) - 1 :
                w = m + (o + k - 1) /\ data[k] = InitWord(SrcW(drv.job, w))
  <2>1. PICK w \in 0 .. Total(drv.job) - 1 : w = m + p.beats[k].imm
    BY <1>8
  <2>2. w = m + (o + k - 1)
    BY <1>8, <2>1
  <2>3. data[k] = InitWord(SrcW(drv.job, w))
    <3>1. data[k] = r.beats[k].data
      BY <1>7
    <3> QED BY <1>8, <1>9, <2>1, <3>1, Zenon
  <2> QED BY <2>2, <2>3
<1>11. StepReadResponse(r, data)
  BY <1>2, <1>3, <1>5, <1>7
<1>12. \A k \in 1 .. n : p.beats[k].imm = o + k - 1 /\ r.beats[k].imm = o + k - 1
  BY <1>8, <1>9
<1>13. Brought(r, p, n, o, data)
  BY <1>3, <1>4, <1>5, <1>6, <1>7, <1>10, <1>11, <1>12 DEF Brought
<1> QED BY <1>13

\* A read response is one of an arbitrary memory system.
LEMMA DeliverReadIsBus == ASSUME WellPlaced, SysInv, DeliverRead PROVE BusReadResponse
<1>1. PICK r, p : \E n, o \in Int : \E data : n \in Nat /\ Brought(r, p, n, o, data)
  BY DeliverBrings
<1>2. PICK n \in Int, o \in Int : \E data : n \in Nat /\ Brought(r, p, n, o, data)
  BY <1>1
<1>3. PICK data : n \in Nat /\ Brought(r, p, n, o, data)
  BY <1>2
<1>4. data \in [1 .. n -> Word]
  <2>1. ASSUME NEW k \in 1 .. n PROVE data[k] \in Word
    <3>1. PICK w \in 0 .. Total(drv.job) - 1 : data[k] = InitWord(SrcW(drv.job, w))
      BY <1>3 DEF Brought
    <3>2. drv.job \in Transfers
      BY <1>3, ReadBeats DEF Brought
    <3> QED BY <3>1, <3>2, SourceWords
  <2> QED BY <1>3, <2>1 DEF Brought
<1> DEFINE At(b, m, i) == IF \E k \in 1 .. m : b[k].imm = i
                          THEN data[CHOOSE k \in 1 .. m : b[k].imm = i]
                          ELSE bufferMemory[i]
<1>5. ASSUME NEW i PROVE At(r.beats, n, i) = At(p.beats, n, i)
  <2>1. \A k \in 1 .. n : p.beats[k].imm = r.beats[k].imm
    BY <1>3, Zenon DEF Brought
  <2>2. CASE \E k \in 1 .. n : p.beats[k].imm = i
    <3>1. PICK j \in 1 .. n : p.beats[j].imm = i /\ r.beats[j].imm = i
      BY <2>1, <2>2
    <3>2. n \in Nat /\ o \in Int
      BY <1>3
    <3>3. \A k \in 1 .. n : p.beats[k].imm = o + k - 1
      BY <1>3 DEF Brought
    <3>4. \A k \in 1 .. n : r.beats[k].imm = o + k - 1
      BY <1>3 DEF Brought
    <3>5. (CHOOSE k \in 1 .. n : p.beats[k].imm = i) = j
      BY <3>1, <3>2, <3>3, FilledPlace
    <3>6. (CHOOSE k \in 1 .. n : r.beats[k].imm = i) = j
      BY <3>1, <3>2, <3>4, FilledPlace
    <3> QED BY <3>1, <3>5, <3>6, Zenon
  <2>3. CASE ~ \E k \in 1 .. n : p.beats[k].imm = i
    BY <2>1, <2>3
  <2> QED BY <2>2, <2>3
<1>6. /\ handleReadResponse(r.beats, data)
      /\ Len(r.beats) = n /\ Len(p.beats) = n /\ p.kind = "rd"
      /\ req' = trySendPacket(req) /\ resp' = trySendPacket(resp)
      /\ UNCHANGED <<regs, mmioReads, driver>>
  BY <1>3 DEF Brought, StepReadResponse
<1>7. bufferMemory' = [i \in DOMAIN bufferMemory |-> At(r.beats, Len(r.beats), i)]
  BY <1>6 DEF handleReadResponse
<1>8. bufferMemory' = [i \in DOMAIN bufferMemory |-> At(p.beats, Len(p.beats), i)]
  <2> HIDE DEF At
  <2>1. \A i : At(r.beats, Len(r.beats), i) = At(p.beats, Len(p.beats), i)
    BY <1>5, <1>6, Zenon
  <2> QED BY <1>7, <2>1
<1>9. handleReadResponse(p.beats, data)
  <2> DEFINE more(c) == BufferCapacity - c.bufferIndex > 0 /\ geo.totalWords - c.wordsToBuffer > 0
  <2>1. PICK c : c = [cnt EXCEPT !.bufferIndex = @ + n, !.wordsToBuffer = @ + n,
                                 !.pendingBusReadResponses = @ - 1]
    OBVIOUS
  <2>2. /\ cnt' = c
        /\ events' = Append(events, IF more(c) THEN "scheduleReadsForBuffer"
                                               ELSE "scheduleWritesFromBuffer")
        /\ st' = IF more(c) THEN st ELSE [st EXCEPT !.currentState = "WRITING"]
        /\ UNCHANGED <<geo, nextTid>>
    BY <1>6, <2>1, Zenon DEF handleReadResponse
  <2> QED BY <1>6, <1>8, <2>1, <2>2, Zenon DEF handleReadResponse
<1>10. StepReadResponse(p, data)
  BY <1>6, <1>9 DEF StepReadResponse
<1> QED BY <1>3, <1>4, <1>6, <1>10 DEF BusReadResponse, Brought

LEMMA DeliverReadSys == ASSUME WellPlaced, SysInv, DeliverRead PROVE SysInv'
<1>0. /\ MemInv' /\ Link' /\ Distinct(mresp') /\ UNCHANGED <<mem, beatEvents, gold>>
  BY DeliverAnswers DEF DeliverRead
<1>1. IInv'
  BY DeliverReadIsBus, BusReadResponseStep DEF SysInv, BusInv
<1>2. PICK r, p : \E n, o \in Int : \E data : n \in Nat /\ Brought(r, p, n, o, data)
  BY DeliverBrings
<1>3. PICK n \in Int, o \in Int : \E data : n \in Nat /\ Brought(r, p, n, o, data)
  BY <1>2
<1>4. PICK data : n \in Nat /\ Brought(r, p, n, o, data)
  BY <1>3
<1>5. PICK m \in Int, t \in Int : m = cnt.wordsTransferred /\ t = cnt.wordsToBuffer
  BY TypeSplit DEF SysInv, BusInv, IInv, TransferTyped, Tracking
<1> DEFINE At(b, l, i) == IF \E k \in 1 .. l : b[k].imm = i
                          THEN data[CHOOSE k \in 1 .. l : b[k].imm = i]
                          ELSE bufferMemory[i]
           more(c) == BufferCapacity - c.bufferIndex > 0 /\ geo.totalWords - c.wordsToBuffer > 0
<1>6. /\ handleReadResponse(r.beats, data) /\ Len(r.beats) = n
      /\ req' = trySendPacket(req)
      /\ UNCHANGED <<srcAddr, dstAddr, dmaSizeCfg, geo, nextTid, drv, mport>>
  BY <1>4 DEF Brought, StepReadResponse, handleReadResponse, regs, driver
<1>7. bufferMemory' = [i \in DOMAIN bufferMemory |-> At(r.beats, Len(r.beats), i)]
  BY <1>6 DEF handleReadResponse
<1>8. /\ cnt' = [cnt EXCEPT !.bufferIndex = @ + n, !.wordsToBuffer = @ + n,
                            !.pendingBusReadResponses = @ - 1]
      /\ st' = IF more(cnt') THEN st ELSE [st EXCEPT !.currentState = "WRITING"]
  BY <1>6, Zenon DEF handleReadResponse
<1>9. cnt \in Tracking /\ st \in Status /\ n \in Int
  BY <1>4, TypeSplit DEF SysInv, BusInv, IInv, TransferTyped
<1>10. cnt'.bufferIndex = o + n /\ cnt'.wordsTransferred = m
  <2>1. PICK d : d = [cnt EXCEPT !.bufferIndex = @ + n]
    OBVIOUS
  <2>2. PICK e : e = [d EXCEPT !.wordsToBuffer = @ + n]
    OBVIOUS
  <2>3. cnt' = [e EXCEPT !.pendingBusReadResponses = @ - 1]
    BY <1>8, <2>1, <2>2
  <2>4. d \in Tracking /\ d.bufferIndex = cnt.bufferIndex + n /\ d.wordsTransferred = cnt.wordsTransferred
    BY <1>9, <2>1 DEF Tracking
  <2>5. e \in Tracking /\ e.bufferIndex = d.bufferIndex /\ e.wordsTransferred = d.wordsTransferred
    BY <1>9, <2>2, <2>4 DEF Tracking
  <2>6. cnt'.bufferIndex = e.bufferIndex /\ cnt'.wordsTransferred = e.wordsTransferred
    BY <2>3, <2>5 DEF Tracking
  <2>7. o = cnt.bufferIndex
    BY <1>4 DEF Brought
  <2> QED BY <1>5, <2>4, <2>5, <2>6, <2>7, Zenon
<1>11. /\ Programmed' /\ (Programming' <=> Programming) /\ Unissued' = Unissued
       /\ outstanding' \subseteq outstanding
  <2>1. Programmed'
    BY <1>6, ProgrammedKept DEF SysInv, BusInv
  <2>2. (Programming' <=> Programming)
    BY <1>6 DEF Programming
  <2>3. Unissued' = Unissued
    BY <1>5, <1>6, <1>10, <2>2 DEF Unissued
  <2> QED BY <1>4, <2>1, <2>2, <2>3 DEF Brought
<1>12. Tids' /\ Requests' = Requests
  <2>1. IInv /\ Tids
    BY DEF SysInv, BusInv
  <2> QED BY <1>0, <1>6, <1>11, <2>1, MovedTids
<1>13. /\ ~ Programming /\ ~ st.done /\ Reading /\ o = cnt.bufferIndex /\ p \in Reads
       /\ n = Len(p.beats)
  <2>1. p \in InFlight /\ p.kind = "rd" /\ o = cnt.bufferIndex /\ n = Len(p.beats)
    BY <1>4 DEF Brought
  <2> QED BY <2>1, ReadBeats DEF Reads
<1>14. t = m + o /\ o + n <= BufferCapacity /\ 0 <= o
  BY <1>5, <1>13 DEF Reading, ReadFits, Counters
<1>15. Buffered'
  <2>1. ASSUME NEW i \in 0 .. o + n - 1 PROVE bufferMemory'[i] = InitWord(SrcW(drv.job, m + i))
    <3>1. i \in 0 .. BufferCapacity - 1
      BY <1>9, <1>14, CapacityAssumption
    <3>2. DOMAIN bufferMemory = 0 .. BufferCapacity - 1
      BY TypeSplit DEF SysInv, BusInv, IInv, TransferTyped
    <3>3. bufferMemory'[i] = At(r.beats, Len(r.beats), i)
      <4> HIDE DEF At
      <4> QED BY <1>7, <3>1, <3>2
    <3>4. bufferMemory'[i] = At(r.beats, n, i)
      <4> HIDE DEF At
      <4> QED BY <1>6, <3>3, Zenon
    <3>5. \A k \in 1 .. n : r.beats[k].imm = o + k - 1
      BY <1>4 DEF Brought
    <3>6. CASE i < o
      <4>1. \A k \in 1 .. n : r.beats[k].imm # i
        BY <1>9, <3>5, <3>6
      <4>2. bufferMemory'[i] = bufferMemory[i]
        BY <3>4, <4>1, Zenon
      <4>3. i \in 0 .. cnt.bufferIndex - 1
        BY <1>13, <3>6
      <4>4. bufferMemory[i] = InitWord(SrcW(drv.job, cnt.wordsTransferred + i))
        BY <1>5, <1>13, <1>14, <4>3 DEF SysInv, CopyInv, Buffered
      <4> QED BY <1>5, <4>2, <4>4, Zenon
    <3>7. CASE o <= i
      <4>1. PICK j \in 1 .. n : i = o + j - 1
        <5>1. i - o + 1 \in 1 .. n /\ i = o + (i - o + 1) - 1
          BY <1>9, <3>7
        <5> QED BY <5>1, Zenon
      <4>2. r.beats[j].imm = i
        BY <3>5, <4>1
      <4>3. n \in Nat
        BY <1>4
      <4>4. (CHOOSE k \in 1 .. n : r.beats[k].imm = i) = j
        BY <3>5, <4>2, <4>3, FilledPlace
      <4>5. bufferMemory'[i] = data[j]
        BY <3>4, <4>2, <4>4, Zenon
      <4>6. PICK w : w = m + (o + j - 1) /\ data[j] = InitWord(SrcW(drv.job, w))
        BY <1>4, <1>5 DEF Brought
      <4>7. w = m + i
        BY <4>1, <4>6, Zenon
      <4> QED BY <4>5, <4>6, <4>7, Zenon
    <3> QED BY <1>9, <3>6, <3>7
  <2>2. drv' = drv
    BY <1>6
  <2> QED BY <1>10, <2>1, <2>2 DEF Buffered
<1> QED BY <1>0, <1>1, <1>6, <1>11, <1>12, <1>15, DeliveredStep

-----------------------------------------------------------------------------
(* The system.                                                             *)

LEMMA StutterSys == ASSUME SysInv, UNCHANGED sysvars PROVE SysInv'
<1>1. /\ UNCHANGED <<st, srcAddr, dstAddr, dmaSizeCfg, geo, cnt, bufferMemory, nextTid, req>>
      /\ UNCHANGED <<outstanding, drv, mport, memvars, gold>> /\ UNCHANGED vars
  BY DEF sysvars, vars, regs, transfer, driver
<1>2. Tids' /\ Requests' = Requests
  BY <1>1, SameTids
<1>3. Programmed'
  BY <1>1, ProgrammedKept DEF SysInv, BusInv
<1>4. Programming' = Programming /\ Unissued' = Unissued
  BY <1>1 DEF Programming, Unissued
<1>5. Buffered'
  BY <1>1, <1>4, BufferedKept DEF SysInv, CopyInv
<1>6. Untouched
  BY <1>1, <1>2, <1>4 DEF Untouched
<1>7. IInv'
  BY <1>1, StutterStep DEF SysInv, BusInv
<1> QED BY <1>2, <1>3, <1>5, <1>6, <1>7, UntouchedStep

LEMMA InitSys == ASSUME WellPlaced, SysInit PROVE SysInv
<1>1. Init /\ MemInit /\ gold = InitMem
  BY DEF SysInit
<1>2. /\ req = EmptyPort /\ mport = <<>> /\ outstanding = {} /\ nextTid = 0
      /\ drv.pc = "idle" /\ drv.started = 0
  BY <1>1 DEF Init
<1>3. /\ mem = InitMem /\ beatEvents = {} /\ mresp = EmptyPort
      /\ MemInv /\ InUse = {}
  BY <1>1, InitMemInv DEF MemInit
<1>4. IInv
  BY <1>1, InitInvariant
<1>5. Requests = {} /\ InFlight = {}
  BY <1>2, EmptyIsSeq DEF Requests, InFlight, Elements, EmptyPort
<1>6. Tids
  BY <1>2, <1>3, <1>5, EmptyDistinct DEF Tids
<1>7. Link
  BY <1>2, <1>3 DEF Link
<1>8. Len(mport) = 0 /\ ~ SawDone /\ Programming
  BY <1>2 DEF SawDone, Programming
<1>9. Programmed
  BY <1>2, <1>8 DEF Programmed
<1>10. Sources
  <2>1. InitMem = [a \in Cells |-> InitMem[a]]
    BY InitMemAssumption DEF Cells
  <2> QED BY <1>1, <1>3, <2>1 DEF Sources
<1>11. Carry /\ Current /\ Buffered /\ Settling
  <2>1. Carry
    BY <1>5 DEF Carry, Writes
  <2>2. Current /\ Buffered
    BY <1>2, <1>8 DEF Current, Buffered
  <2>3. Settling
    BY <1>1, <1>3 DEF Settling
  <2> QED BY <2>1, <2>2, <2>3
<1> QED BY <1>3, <1>4, <1>6, <1>7, <1>9, <1>10, <1>11 DEF SysInv, BusInv, CopyInv

LEMMA StepSys == ASSUME WellPlaced, SysInv, [SysNext]_sysvars PROVE SysInv'
<1>1. CASE SysDriver
  BY <1>1, DriverStartSys, DriverWriteSys, DriverPollSys, DriverReceiveSys DEF SysDriver
<1>2. CASE SysController
  BY <1>2, TrySendSys, StepMmioReadSys, StepMmioWriteSys, ReadMmioSys, ReadsEventSys, WritesEventSys
     DEF SysController, Controller
<1>3. CASE MemAccept
  BY <1>3, MemAcceptSys
<1>4. CASE DeliverRead
  BY <1>4, DeliverReadSys
<1>5. CASE DeliverWrite
  BY <1>5, DeliverWriteSys
<1>6. CASE SysMemory
  BY <1>6, MemReadSys, MemWriteSys, TrySendResponseSys, TickSys DEF SysMemory, MemInternal
<1>7. CASE UNCHANGED sysvars
  BY <1>7, StutterSys
<1> QED BY <1>1, <1>2, <1>3, <1>4, <1>5, <1>6, <1>7 DEF SysNext

\* A step of the system is a step of the controller in its open surroundings.
LEMMA SimulatedStep == ASSUME WellPlaced, SysInv, [SysNext]_sysvars PROVE [Next]_vars
<1>1. CASE SysDriver
  BY <1>1 DEF SysDriver, Next, Driver
<1>2. CASE SysController
  BY <1>2 DEF SysController, Next
<1>3. CASE MemAccept
  BY <1>3 DEF MemAccept, Next, Bus
<1>4. CASE DeliverRead
  BY <1>4, DeliverReadIsBus DEF Next, Bus
<1>5. CASE DeliverWrite
  BY <1>5, DeliverWriteIsBus DEF Next, Bus
<1>6. CASE SysMemory
  BY <1>6 DEF SysMemory
<1>7. CASE UNCHANGED sysvars
  BY <1>7 DEF sysvars
<1> QED BY <1>1, <1>2, <1>3, <1>4, <1>5, <1>6, <1>7 DEF SysNext

\* The inductive invariant of the controller with the memory, for transfers
\* that are well placed.
THEOREM SysInvariance == ASSUME WellPlaced PROVE SysSpec => []SysInv
<1>1. SysInit => SysInv
  BY InitSys
<1>2. SysInv /\ [SysNext]_sysvars => SysInv'
  BY StepSys
<1> QED BY <1>1, <1>2, PTL DEF SysSpec

\* DMA.cc with DataMemory.cc behind the crossbar implements DMA.cc with an
\* arbitrary memory: SingleFetch, ReadFits, DoneMeansIssued and the others
\* that are proved of Dma hold of it.
THEOREM Implementation == ASSUME WellPlaced PROVE SysSpec => ImplementsDma
<1>1. SysInit => Init
  BY DEF SysInit
<1>2. SysInv /\ [SysNext]_sysvars => [Next]_vars
  BY SimulatedStep
<1> QED BY <1>1, <1>2, SysInvariance, PTL DEF SysSpec, ImplementsDma, Spec

\* Every write beat of DMA.cc in flight carries the word that its destination
\* is to receive: buffer indices, addresses and the data the memory answered
\* with belong together in every interleaving.
THEOREM CarrySource == ASSUME WellPlaced PROVE SysSpec => []WritesCarrySource
<1>1. SysInv => WritesCarrySource
  <2> SUFFICES ASSUME SysInv, NEW p \in Writes, NEW k \in 1 .. Len(p.beats), NEW i \in 1 .. 4
               PROVE  p.beats[k].data[i] = gold[p.beats[k].addr + i - 1]
    BY DEF WritesCarrySource
  <2>1. Carrying(p.beats[k])
    BY DEF SysInv, CopyInv, Carry
  <2>2. PICK t \in Transfers : \E w \in 0 .. Total(t) - 1 :
          /\ p.beats[k].addr = DstW(t, w) /\ p.beats[k].data = InitWord(SrcW(t, w))
          /\ InCopy(t, w)
    BY <2>1 DEF Carrying
  <2>3. PICK w \in 0 .. Total(t) - 1 :
          /\ p.beats[k].addr = DstW(t, w) /\ p.beats[k].data = InitWord(SrcW(t, w))
          /\ InCopy(t, w)
    BY <2>2
  <2>4. PICK a \in Nat, b \in Nat : a = DstW(t, w) /\ b = SrcW(t, w)
    BY WordsInside
  <2>5. PICK j \in 0 .. 3 : j = i - 1 /\ i = j + 1
    OBVIOUS
  <2>6. gold[a + j] = InitMem[b + j]
    BY <2>3, <2>4 DEF InCopy
  <2>7. PICK d : d = InitWord(b)
    OBVIOUS
  <2>8. d[j + 1] = InitMem[b + j]
    <3>1. d = <<InitMem[b], InitMem[b + 1], InitMem[b + 2], InitMem[b + 3]>>
      BY <2>7 DEF InitWord
    <3>2. d[0 + 1] = InitMem[b + 0] /\ d[1 + 1] = InitMem[b + 1] /\ d[2 + 1] = InitMem[b + 2]
          /\ d[3 + 1] = InitMem[b + 3]
      BY <3>1
    <3>3. j = 0 \/ j = 1 \/ j = 2 \/ j = 3
      OBVIOUS
    <3> QED BY <3>2, <3>3, Zenon
  <2>9. a + i - 1 = a + j
    BY <2>5
  <2>10. p.beats[k].data = d /\ p.beats[k].addr = a
    BY <2>3, <2>4, <2>7, Zenon
  <2> QED BY <2>5, <2>6, <2>8, <2>9, <2>10, Zenon
<1> QED BY <1>1, SysInvariance, PTL

\* Once a driver has read DONE = 1 and no burst is in flight, the bytes of
\* DataMemory are those that copying the transfers would have left.
THEOREM Copied == ASSUME WellPlaced PROVE SysSpec => []CopiedWhenQuiet
<1>1. SysInv => CopiedWhenQuiet
  <2> SUFFICES ASSUME SysInv, SawDone, Quiet PROVE mem = gold
    BY DEF CopiedWhenQuiet
  <2>1. Requests = {} /\ outstanding = {}
    BY DEF Quiet, InFlight
  <2>2. beatEvents = {}
    <3>1. InUse = {}
      BY <2>1 DEF SysInv, BusInv, Link
    <3> QED BY <3>1 DEF SysInv, BusInv, MemInv, Scheduled, InUse
  <2>3. Unissued = cnt.wordsTransferred
    BY DEF SawDone, Unissued
  <2>4. cnt.wordsTransferred = Total(drv.job)
    BY DEF SysInv, BusInv, IInv, Phase, Transferred, Programmed, Total
  <2>5. Total(drv.job) \in Int
    BY DriverTypes, Layout DEF SysInv, BusInv
  <2>6. Unissued .. Total(drv.job) - 1 = {}
    BY <2>3, <2>4, <2>5
  <2>7. \A a \in Cells : ~ Awaited(a)
    BY <2>1, <2>2, <2>6 DEF Awaited
  <2>8. \A a \in Cells : mem[a] = gold[a]
    BY <2>7 DEF SysInv, CopyInv, Settling
  <2>9. mem = [a \in Cells |-> mem[a]] /\ gold = [a \in Cells |-> gold[a]]
    BY DEF SysInv, CopyInv, Sources
  <2> QED BY <2>8, <2>9
<1> QED BY <1>1, SysInvariance, PTL
=============================================================================
