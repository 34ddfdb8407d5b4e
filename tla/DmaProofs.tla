----------------------------- MODULE DmaProofs -----------------------------
(***************************************************************************)
(* Proofs about Dma, for every buffer capacity, every set of transfers and *)
(* every behaviour of the memory system: type correctness and the safety   *)
(* invariants SingleFetch, ReadFits and DoneMeansIssued.                   *)
(***************************************************************************)
EXTENDS Dma, SeqLemmas

-----------------------------------------------------------------------------
(* The inductive invariant.                                                *)

\* Where read bursts are: positions in the queue and the pipe register of a
\* request port, and the accepted ones.
ReadsAt(s)   == {i \in 1 .. Len(s) : s[i].kind = "rd"}
ReadsQ(port) == ReadsAt(port.q)
ReadsR(port) == ReadsAt(port.reg)
ReadsO       == {p \in outstanding : p.kind = "rd"}

NoReadIn(port) == ReadsQ(port) = {} /\ ReadsR(port) = {}
NoRead         == NoReadIn(req) /\ ReadsO = {}

\* At most one of these places holds a read burst, and it holds one only.
OneReadIn(port) ==
  /\ \A i, j \in ReadsQ(port) : i = j
  /\ ReadsQ(port) = {} \/ ReadsR(port) = {}

OneRead ==
  /\ OneReadIn(req)
  /\ \A p, q \in ReadsO : p = q
  /\ NoReadIn(req) \/ ReadsO = {}

\* Every write response that can still come in finds the count at zero or below.
NoCountedWrite ==
  \/ cnt.pendingBusWriteResponses <= 0
  \/ Writes = {}

Counters ==
  /\ 0 <= cnt.wordsTransferred
  /\ 0 <= cnt.bufferIndex /\ cnt.bufferIndex <= BufferCapacity
  /\ cnt.wordsToBuffer <= geo.totalWords

\* The phases of a transfer.
Reading ==
  /\ OneRead /\ ~ NoRead /\ events = <<>>
  /\ cnt.wordsToBuffer = cnt.wordsTransferred + cnt.bufferIndex
  /\ ReadFits /\ Counters /\ NoCountedWrite

ReadScheduled ==
  /\ NoRead /\ events = <<"scheduleReadsForBuffer">>
  /\ cnt.wordsToBuffer = cnt.wordsTransferred + cnt.bufferIndex
  /\ cnt.bufferIndex < BufferCapacity /\ cnt.wordsToBuffer < geo.totalWords
  /\ Counters /\ NoCountedWrite

WriteScheduled ==
  /\ NoRead /\ events = <<"scheduleWritesFromBuffer">>
  /\ cnt.wordsToBuffer = cnt.wordsTransferred + cnt.bufferIndex
  /\ 0 < cnt.bufferIndex
  /\ Counters /\ NoCountedWrite

Draining ==
  /\ NoRead /\ events = <<>>
  /\ cnt.wordsToBuffer = cnt.wordsTransferred
  /\ Counters

Idle == NoRead /\ events = <<>> /\ NoCountedWrite

Transferred ==
  /\ cnt.wordsTransferred = geo.totalWords
  /\ cnt.wordsToBuffer = geo.totalWords
  /\ ~ st.enabled

\* The driver is programming the controller: it knows of no transfer under
\* way, or its ENABLE has not reached the controller yet.
Programming ==
  \/ drv.pc \notin {"poll", "wait"}
  \/ \E i \in 1 .. Len(mport) : mport[i].kind = "wr"

Busy == Reading \/ ReadScheduled \/ WriteScheduled \/ Draining

Phase ==
  /\ Programming => Idle
  /\ ~ Programming =>
       \/ st.done /\ Idle /\ Transferred
       \/ ~ st.done /\ Busy
  /\ SawDone => Transferred

\* A port of packets from S, and the packets in it.
Ports(S) == {p \in [reg : Seq(S), q : Seq(S)] : Len(p.reg) <= 1}

Packets(port) == Elements(port.reg) \cup Elements(port.q)

\* The driver's poll: at most one read request or response of DONE exists,
\* none unless it waits, and DONE is still up when the answer 1 is on its way.
EnableRequest == [kind |-> "wr", reg |-> "ENABLE", data |-> 1]

Poll ==
  /\ drv.pc = "poll" => \A i \in 1 .. Len(mport) : mport[i] = EnableRequest
  /\ drv.pc = "wait" => \A i \in 1 .. Len(mport) : mport[i].kind = "rd"
  /\ drv.pc # "poll" => \A i \in 1 .. Len(mport) : mport[i].reg # "ENABLE"
  /\ \A i \in 1 .. Len(mport) : mport[i].kind = "rd" => mport[i].reg = "DONE"
  /\ \A i \in 1 .. Len(mmioReads) : mmioReads[i].reg = "DONE"
  /\ drv.pc # "wait" =>
       /\ \A i \in 1 .. Len(mport) : mport[i].kind # "rd"
       /\ mmioReads = <<>> /\ NoReadIn(resp)
  /\ Len(mmioReads) <= 1
  /\ mport = <<>> \/ (mmioReads = <<>> /\ NoReadIn(resp))
  /\ mmioReads = <<>> \/ NoReadIn(resp)
  /\ OneReadIn(resp)
  /\ \A p \in Packets(resp) : p.kind = "rd" /\ p.data = 1 => st.done

IInv == TypeOK /\ LegalBursts /\ Phase /\ Poll

-----------------------------------------------------------------------------
(* Sequences of packets.                                                   *)

\* The empty queue holds nothing.
LEMMA EmptySeq == Elements(<<>>) = {} /\ ReadsAt(<<>>) = {}
BY DEF Elements, ReadsAt

\* The length of a queue is a natural number.
LEMMA LenSeq ==
  ASSUME NEW S, NEW s \in Seq(S)
  PROVE  Len(s) \in Nat /\ (s # <<>> => Len(s) > 0)
OBVIOUS

\* A queue of one packet holds just that packet.
LEMMA OneSeq ==
  ASSUME NEW b
  PROVE  /\ Elements(<<b>>) = {b}
         /\ b.kind = "rd" => ReadsAt(<<b>>) = {1}
         /\ b.kind # "rd" => ReadsAt(<<b>>) = {}
<1>1. Len(<<b>>) = 1 /\ <<b>>[1] = b /\ 1 .. 1 = {1}
  OBVIOUS
<1> QED BY <1>1 DEF Elements, ReadsAt

\* Popping a queue leaves the other packets.
LEMMA TailSeq ==
  ASSUME NEW S, NEW s \in Seq(S), s # <<>>
  PROVE  /\ Head(s) \in S /\ Tail(s) \in Seq(S)
         /\ Elements(s) = {Head(s)} \cup Elements(Tail(s))
         /\ Head(s).kind = "rd" => 1 \in ReadsAt(s)
         /\ ReadsAt(s) = {} => ReadsAt(Tail(s)) = {}
         /\ \A i \in ReadsAt(Tail(s)) : i + 1 \in ReadsAt(s)
         /\ Head(s).kind # "rd" /\ ReadsAt(s) # {} => ReadsAt(Tail(s)) # {}
         /\ (\A i, j \in ReadsAt(s) : i = j) => \A i, j \in ReadsAt(Tail(s)) : i = j
         /\ (\A i, j \in ReadsAt(s) : i = j) /\ Head(s).kind = "rd" => ReadsAt(Tail(s)) = {}
<1> DEFINE n == Len(s)
           t == Tail(s)
<1>1. /\ n \in Nat /\ n > 0 /\ Len(t) = n - 1 /\ t \in Seq(S)
      /\ Head(s) = s[1] /\ s[1] \in S
      /\ \A i \in 1 .. n - 1 : t[i] = s[i + 1]
  OBVIOUS
<1>2. /\ Elements(s) = {s[i] : i \in 1 .. n}
      /\ Elements(t) = {t[i] : i \in 1 .. n - 1}
      /\ ReadsAt(s) = {i \in 1 .. n : s[i].kind = "rd"}
      /\ ReadsAt(t) = {i \in 1 .. n - 1 : t[i].kind = "rd"}
  BY <1>1 DEF Elements, ReadsAt
<1> HIDE DEF n, t
<1>3. Elements(s) = {Head(s)} \cup Elements(t)
  <2>1. ASSUME NEW i \in 1 .. n PROVE s[i] \in {Head(s)} \cup Elements(t)
    <3>1. CASE i = 1
      BY <3>1, <1>1
    <3>2. CASE i # 1
      <4>1. i - 1 \in 1 .. n - 1 /\ t[i - 1] = s[i]
        BY <1>1, <3>2
      <4> QED BY <4>1, <1>2
    <3> QED BY <3>1, <3>2
  <2>2. ASSUME NEW i \in 1 .. n - 1 PROVE t[i] \in Elements(s)
    <3>1. i + 1 \in 1 .. n /\ t[i] = s[i + 1]
      BY <1>1
    <3> QED BY <3>1, <1>2
  <2>3. Head(s) \in Elements(s)
    <3>1. 1 \in 1 .. n /\ Head(s) = s[1]
      BY <1>1
    <3> QED BY <3>1, <1>2
  <2> QED BY <2>1, <2>2, <2>3, <1>2
<1>4. Head(s).kind = "rd" => 1 \in ReadsAt(s)
  BY <1>1, <1>2
<1>5. \A i \in ReadsAt(t) : i + 1 \in ReadsAt(s)
  BY <1>1, <1>2
<1>6. Head(s).kind # "rd" /\ ReadsAt(s) # {} => ReadsAt(t) # {}
  <2> SUFFICES ASSUME Head(s).kind # "rd", NEW i \in ReadsAt(s) PROVE ReadsAt(t) # {}
    OBVIOUS
  <2>1. i \in 1 .. n /\ s[i].kind = "rd" /\ i # 1
    BY <1>1, <1>2
  <2>2. i - 1 \in 1 .. n - 1 /\ t[i - 1] = s[i]
    BY <2>1, <1>1
  <2>3. i - 1 \in ReadsAt(t)
    BY <2>1, <2>2, <1>2
  <2> QED BY <2>3
<1>n. ReadsAt(t) \subseteq Int
  BY <1>2
<1>7. (\A i, j \in ReadsAt(s) : i = j) => \A i, j \in ReadsAt(t) : i = j
  <2> SUFFICES ASSUME \A i, j \in ReadsAt(s) : i = j, NEW i \in ReadsAt(t), NEW j \in ReadsAt(t)
               PROVE  i = j
    OBVIOUS
  <2>1. i + 1 = j + 1 /\ i \in Int /\ j \in Int
    BY <1>5, <1>n
  <2> QED BY <2>1
<1>8. (\A i, j \in ReadsAt(s) : i = j) /\ Head(s).kind = "rd" => ReadsAt(t) = {}
  <2> SUFFICES ASSUME \A i, j \in ReadsAt(s) : i = j, Head(s).kind = "rd", NEW i \in ReadsAt(t)
               PROVE  FALSE
    OBVIOUS
  <2>1. i + 1 = 1 /\ i \in 1 .. n - 1
    BY <1>2, <1>4, <1>5
  <2> QED BY <2>1, <1>1
<1> QED BY <1>1, <1>3, <1>4, <1>5, <1>6, <1>7, <1>8 DEF t

\* Pushing to a queue adds the one packet at its end.
LEMMA AppendSeq ==
  ASSUME NEW S, NEW s \in Seq(S), NEW b \in S
  PROVE  /\ Append(s, b) \in Seq(S)
         /\ Append(s, b) # <<>>
         /\ Elements(Append(s, b)) = Elements(s) \cup {b}
         /\ b.kind = "rd" /\ ReadsAt(s) = {} => ReadsAt(Append(s, b)) = {Len(s) + 1}
         /\ b.kind # "rd" => ReadsAt(Append(s, b)) = ReadsAt(s)
<1> DEFINE n == Len(s)
           t == Append(s, b)
<1>1. /\ n \in Nat /\ Len(t) = n + 1 /\ t \in Seq(S) /\ t # <<>>
      /\ t[n + 1] = b
      /\ \A i \in 1 .. n : t[i] = s[i]
  OBVIOUS
<1>2. /\ Elements(s) = {s[i] : i \in 1 .. n}
      /\ Elements(t) = {t[i] : i \in 1 .. n + 1}
      /\ ReadsAt(s) = {i \in 1 .. n : s[i].kind = "rd"}
      /\ ReadsAt(t) = {i \in 1 .. n + 1 : t[i].kind = "rd"}
  BY <1>1 DEF Elements, ReadsAt
<1>3. 1 .. n + 1 = (1 .. n) \cup {n + 1}
  BY <1>1
<1> HIDE DEF n, t
<1>4. Elements(t) = Elements(s) \cup {b}
  BY <1>1, <1>2, <1>3
<1>5. b.kind = "rd" /\ ReadsAt(s) = {} => ReadsAt(t) = {n + 1}
  BY <1>1, <1>2, <1>3
<1>6. b.kind # "rd" => ReadsAt(t) = ReadsAt(s)
  BY <1>1, <1>2, <1>3
<1> QED BY <1>1, <1>4, <1>5, <1>6 DEF t, n

\* Pushing several packets adds them all at the end.
LEMMA ConcatSeq ==
  ASSUME NEW S, NEW s \in Seq(S), NEW w \in Seq(S)
  PROVE  /\ s \o w \in Seq(S)
         /\ Elements(s \o w) = Elements(s) \cup Elements(w)
         /\ ReadsAt(w) = {} => ReadsAt(s \o w) = ReadsAt(s)
<1> DEFINE n == Len(s)
           m == Len(w)
           t == s \o w
<1>1. /\ n \in Nat /\ m \in Nat /\ Len(t) = n + m /\ t \in Seq(S)
      /\ \A i \in 1 .. n : t[i] = s[i]
      /\ \A i \in 1 .. m : t[n + i] = w[i]
  OBVIOUS
<1>2. /\ Elements(s) = {s[i] : i \in 1 .. n}
      /\ Elements(w) = {w[i] : i \in 1 .. m}
      /\ Elements(t) = {t[i] : i \in 1 .. n + m}
      /\ ReadsAt(s) = {i \in 1 .. n : s[i].kind = "rd"}
      /\ ReadsAt(w) = {i \in 1 .. m : w[i].kind = "rd"}
      /\ ReadsAt(t) = {i \in 1 .. n + m : t[i].kind = "rd"}
  BY <1>1 DEF Elements, ReadsAt
<1> HIDE DEF n, m, t
<1>3. ASSUME NEW i \in 1 .. n + m
      PROVE  \/ i \in 1 .. n /\ t[i] = s[i]
             \/ i - n \in 1 .. m /\ t[i] = w[i - n]
  <2>1. CASE i <= n
    BY <2>1, <1>1
  <2>2. CASE i > n
    <3>1. i - n \in 1 .. m /\ n + (i - n) = i
      BY <2>2, <1>1
    <3> QED BY <3>1, <1>1
  <2> QED BY <2>1, <2>2, <1>1
<1>4. Elements(t) = Elements(s) \cup Elements(w)
  <2>1. ASSUME NEW i \in 1 .. n + m PROVE t[i] \in Elements(s) \cup Elements(w)
    BY <1>3, <1>2
  <2>2. ASSUME NEW i \in 1 .. n PROVE s[i] \in Elements(t)
    <3>1. i \in 1 .. n + m /\ t[i] = s[i]
      BY <1>1
    <3> QED BY <3>1, <1>2
  <2>3. ASSUME NEW i \in 1 .. m PROVE w[i] \in Elements(t)
    <3>1. n + i \in 1 .. n + m /\ t[n + i] = w[i]
      BY <1>1
    <3> QED BY <3>1, <1>2
  <2> QED BY <2>1, <2>2, <2>3, <1>2
<1>5. ReadsAt(w) = {} => ReadsAt(t) = ReadsAt(s)
  <2> SUFFICES ASSUME ReadsAt(w) = {} PROVE ReadsAt(t) = ReadsAt(s)
    OBVIOUS
  <2>1. ASSUME NEW i \in ReadsAt(t) PROVE i \in ReadsAt(s)
    BY <1>3, <1>2
  <2>2. ASSUME NEW i \in ReadsAt(s) PROVE i \in ReadsAt(t)
    BY <1>1, <1>2
  <2> QED BY <2>1, <2>2
<1> QED BY <1>1, <1>4, <1>5 DEF t

-----------------------------------------------------------------------------
(* Ports.                                                                  *)

\* The fields of a port built by PipePort.
LEMMA PortFields ==
  ASSUME NEW S, NEW port \in Ports(S)
  PROVE  port.q \in Seq(S) /\ port.reg \in Seq(S) /\ Len(port.reg) <= 1
BY DEF Ports

\* A record of two typed queues is a port.
LEMMA PortOf ==
  ASSUME NEW S, NEW r \in Seq(S), NEW s \in Seq(S), Len(r) <= 1
  PROVE  [reg |-> r, q |-> s] \in Ports(S)
<1>1. [reg |-> r, q |-> s] \in [reg : Seq(S), q : Seq(S)]
  OBVIOUS
<1>2. [reg |-> r, q |-> s].reg = r
  OBVIOUS
<1> QED BY <1>1, <1>2, Zenon DEF Ports

\* A full register holds one packet.
LEMMA RegFull ==
  ASSUME NEW S, NEW port \in Ports(S), port.reg # <<>>
  PROVE  port.reg = <<port.reg[1]>> /\ port.reg[1] \in S
<1>1. port.reg \in Seq(S) /\ Len(port.reg) \in Nat /\ Len(port.reg) > 0 /\ Len(port.reg) <= 1
  BY PortFields, LenSeq
<1> QED BY <1>1

\* trySendPacket loses, duplicates and invents no packet.
LEMMA TrySendPort ==
  ASSUME NEW S, NEW port \in Ports(S)
  PROVE  /\ trySendPacket(port) \in Ports(S)
         /\ Packets(trySendPacket(port)) = Packets(port)
         /\ NoReadIn(port) <=> NoReadIn(trySendPacket(port))
         /\ OneReadIn(port) => OneReadIn(trySendPacket(port))
<1> DEFINE t == trySendPacket(port)
           r == <<Head(port.q)>>
           s == Tail(port.q)
<1>1. CASE ~ (port.q # <<>> /\ port.reg = <<>>)
  BY <1>1 DEF trySendPacket
<1>2. CASE port.q # <<>> /\ port.reg = <<>>
  <2>1. t = [reg |-> r, q |-> s] /\ t.reg = r /\ t.q = s
    BY <1>2 DEF trySendPacket
  <2>2. /\ port.q \in Seq(S) /\ Head(port.q) \in S /\ s \in Seq(S)
        /\ r \in Seq(S) /\ Len(r) <= 1
    BY <1>2, PortFields, TailSeq
  <2>3. t \in Ports(S)
    <3> HIDE DEF t, r, s
    <3> QED BY <2>1, <2>2, PortOf
  <2>4. Packets(t) = Packets(port)
    <3>1. /\ Elements(port.reg) = {} /\ Elements(r) = {Head(port.q)}
          /\ Elements(port.q) = {Head(port.q)} \cup Elements(s)
      BY <1>2, <2>2, EmptySeq, OneSeq, TailSeq
    <3> QED BY <2>1, <3>1 DEF Packets
  <2>5. ReadsR(port) = {} /\ ReadsQ(port) = ReadsAt(port.q)
        /\ ReadsR(t) = ReadsAt(r) /\ ReadsQ(t) = ReadsAt(s)
    BY <1>2, <2>1, EmptySeq DEF ReadsR, ReadsQ
  <2>6. /\ Head(port.q).kind = "rd" => ReadsAt(r) = {1}
        /\ Head(port.q).kind # "rd" => ReadsAt(r) = {}
    BY OneSeq
  <2>t. /\ Head(port.q).kind = "rd" => 1 \in ReadsAt(port.q)
        /\ ReadsAt(port.q) = {} => ReadsAt(s) = {}
        /\ Head(port.q).kind # "rd" /\ ReadsAt(port.q) # {} => ReadsAt(s) # {}
        /\ (\A i, j \in ReadsAt(port.q) : i = j) => \A i, j \in ReadsAt(s) : i = j
        /\ (\A i, j \in ReadsAt(port.q) : i = j) /\ Head(port.q).kind = "rd" => ReadsAt(s) = {}
    BY <1>2, <2>2, TailSeq
  <2> HIDE DEF t, r, s
  <2>7. NoReadIn(port) <=> NoReadIn(t)
    BY <2>5, <2>6, <2>t DEF NoReadIn
  <2>8. OneReadIn(port) => OneReadIn(t)
    BY <2>5, <2>6, <2>t DEF OneReadIn
  <2> QED BY <2>3, <2>4, <2>7, <2>8 DEF t
<1> QED BY <1>1, <1>2

\* Queueing a packet behind the register.
LEMMA EnqueuePort ==
  ASSUME NEW S, NEW port \in Ports(S), NEW b \in S
  PROVE  /\ Enqueue(port, b) \in Ports(S)
         /\ Packets(Enqueue(port, b)) = Packets(port) \cup {b}
         /\ b.kind = "rd" /\ NoReadIn(port) => OneReadIn(Enqueue(port, b))
         /\ b.kind # "rd" /\ OneReadIn(port) => OneReadIn(Enqueue(port, b))
         /\ b.kind # "rd" => (NoReadIn(Enqueue(port, b)) <=> NoReadIn(port))
<1> DEFINE t == Enqueue(port, b)
           s == Append(port.q, b)
<1>1. t = [reg |-> port.reg, q |-> s] /\ t.reg = port.reg /\ t.q = s
  BY DEF Enqueue
<1>2. port.q \in Seq(S) /\ port.reg \in Seq(S) /\ Len(port.reg) <= 1
  BY PortFields
<1>3. /\ s \in Seq(S) /\ Elements(s) = Elements(port.q) \cup {b}
      /\ b.kind = "rd" /\ ReadsAt(port.q) = {} => ReadsAt(s) = {Len(port.q) + 1}
      /\ b.kind # "rd" => ReadsAt(s) = ReadsAt(port.q)
  BY <1>2, AppendSeq
<1> HIDE DEF t, s
<1>4. t \in Ports(S)
  BY <1>1, <1>2, <1>3, PortOf
<1>5. Packets(t) = Packets(port) \cup {b}
  BY <1>1, <1>3 DEF Packets
<1>6. ReadsQ(t) = ReadsAt(s) /\ ReadsR(t) = ReadsR(port) /\ ReadsQ(port) = ReadsAt(port.q)
  BY <1>1 DEF ReadsQ, ReadsR
<1>7. b.kind # "rd" => /\ OneReadIn(port) => OneReadIn(t)
                       /\ NoReadIn(t) <=> NoReadIn(port)
  BY <1>3, <1>6 DEF OneReadIn, NoReadIn
<1>8. b.kind = "rd" /\ NoReadIn(port) => OneReadIn(t)
  BY <1>3, <1>6 DEF OneReadIn, NoReadIn
<1> QED BY <1>4, <1>5, <1>7, <1>8 DEF t

\* The crossbar taking the packet in the register.
LEMMA ForwardPort ==
  ASSUME NEW S, NEW port \in Ports(S), port.reg # <<>>
  PROVE  /\ Forward(port) \in Ports(S) /\ port.reg[1] \in S
         /\ Packets(port) = Packets(Forward(port)) \cup {port.reg[1]}
         /\ OneReadIn(port) => OneReadIn(Forward(port))
         /\ port.reg[1].kind = "rd" => ~ NoReadIn(port) /\ (OneReadIn(port) => NoReadIn(Forward(port)))
         /\ port.reg[1].kind # "rd" => (NoReadIn(Forward(port)) <=> NoReadIn(port))
<1> DEFINE t == Forward(port)
           b == port.reg[1]
<1>1. t = [reg |-> <<>>, q |-> port.q] /\ t.reg = <<>> /\ t.q = port.q
  BY DEF Forward
<1>2. port.q \in Seq(S) /\ <<>> \in Seq(S) /\ Len(<<>>) <= 1
  BY PortFields
<1>3. port.reg = <<b>> /\ b \in S
  BY RegFull
<1> HIDE DEF t, b
<1>4. t \in Ports(S)
  BY <1>1, <1>2, PortOf
<1>5. Elements(port.reg) = {b} /\ Elements(t.reg) = {}
  BY <1>1, <1>3, OneSeq, EmptySeq
<1>6. Packets(port) = Packets(t) \cup {b}
  BY <1>1, <1>5 DEF Packets
<1>7. /\ ReadsQ(t) = ReadsQ(port) /\ ReadsR(t) = {}
      /\ b.kind = "rd" => ReadsR(port) = {1}
      /\ b.kind # "rd" => ReadsR(port) = {}
  BY <1>1, <1>3, OneSeq, EmptySeq DEF ReadsQ, ReadsR
<1>8. OneReadIn(port) => OneReadIn(t)
  BY <1>7 DEF OneReadIn
<1>9. b.kind = "rd" => ~ NoReadIn(port) /\ (OneReadIn(port) => NoReadIn(t))
  BY <1>7 DEF OneReadIn, NoReadIn
<1>10. b.kind # "rd" => (NoReadIn(t) <=> NoReadIn(port))
  BY <1>7 DEF NoReadIn
<1> QED BY <1>3, <1>4, <1>6, <1>8, <1>9, <1>10 DEF t, b

\* Pushing the only read burst.
LEMMA PushRead ==
  ASSUME NEW port \in Ports(Burst), NoReadIn(port), NEW b \in ReadBursts
  PROVE  /\ PushOrQueue(port, b) \in Ports(Burst)
         /\ Packets(PushOrQueue(port, b)) = Packets(port) \cup {b}
         /\ OneReadIn(PushOrQueue(port, b))
         /\ ~ NoReadIn(PushOrQueue(port, b))
<1> DEFINE t == PushOrQueue(port, b)
<1>0. b \in Burst /\ b.kind = "rd"
  BY DEF Burst, ReadBursts
<1>n. ReadsAt(port.q) = {} /\ ReadsAt(port.reg) = {}
  BY DEF NoReadIn, ReadsQ, ReadsR
<1>p. port.q \in Seq(Burst) /\ port.reg \in Seq(Burst) /\ Len(port.reg) <= 1
  BY PortFields
<1>1. CASE port.reg = <<>>
  <2>1. t = [reg |-> <<b>>, q |-> port.q] /\ t.reg = <<b>> /\ t.q = port.q
    BY <1>1 DEF PushOrQueue
  <2>2. <<b>> \in Seq(Burst) /\ Len(<<b>>) <= 1
    BY <1>0
  <2>3. t \in Ports(Burst)
    <3> HIDE DEF t
    <3>1. [reg |-> <<b>>, q |-> port.q] \in Ports(Burst)
      BY <2>2, <1>p, PortOf
    <3> QED BY <2>1, <3>1
  <2>4. Packets(t) = Packets(port) \cup {b}
    BY <2>1, <1>1, EmptySeq, OneSeq DEF Packets
  <2>5. ReadsQ(t) = {} /\ ReadsR(t) = {1}
    BY <2>1, <1>0, <1>n, OneSeq DEF ReadsQ, ReadsR
  <2> QED BY <2>3, <2>4, <2>5 DEF OneReadIn, NoReadIn
<1>2. CASE port.reg # <<>>
  <2> DEFINE s == Append(port.q, b)
  <2>1. t = [reg |-> port.reg, q |-> s] /\ t.reg = port.reg /\ t.q = s
    BY <1>2 DEF PushOrQueue
  <2>2. /\ s \in Seq(Burst)
        /\ Elements(s) = Elements(port.q) \cup {b}
        /\ ReadsAt(s) = {Len(port.q) + 1}
    BY <1>0, <1>p, <1>n, AppendSeq
  <2>3. t \in Ports(Burst)
    BY <2>1, <2>2, <1>p, PortOf
  <2>4. Packets(t) = Packets(port) \cup {b}
    BY <2>1, <2>2 DEF Packets
  <2>5. ReadsQ(t) = {Len(port.q) + 1} /\ ReadsR(t) = {}
    BY <2>1, <2>2, <1>n DEF ReadsQ, ReadsR
  <2> QED BY <2>3, <2>4, <2>5 DEF OneReadIn, NoReadIn
<1> QED BY <1>1, <1>2


\* A port holds no read burst iff no packet in it is one.
LEMMA NoReadPackets ==
  ASSUME NEW S, NEW port \in Ports(S)
  PROVE  NoReadIn(port) <=> \A p \in Packets(port) : p.kind # "rd"
BY DEF NoReadIn, ReadsQ, ReadsR, ReadsAt, Packets, Elements

\* Pushing a non-empty sequence of write bursts.
LEMMA PushWrites ==
  ASSUME NEW port \in Ports(Burst), NoReadIn(port), NEW ws \in Seq(WrtBursts), ws # <<>>
  PROVE  /\ PushAll(port, ws) \in Ports(Burst)
         /\ Packets(PushAll(port, ws)) = Packets(port) \cup Elements(ws)
         /\ NoReadIn(PushAll(port, ws))
<1> DEFINE t == PushAll(port, ws)
<1>p. port.q \in Seq(Burst) /\ port.reg \in Seq(Burst) /\ Len(port.reg) <= 1
  BY PortFields
<1>w. ws \in Seq(Burst)
  BY DEF Burst
<1>k. \A p \in Elements(ws) : p.kind # "rd"
  <2>1. \A i \in 1 .. Len(ws) : ws[i] \in WrtBursts
    OBVIOUS
  <2>2. \A p \in WrtBursts : p.kind = "wr"
    BY DEF WrtBursts
  <2> QED BY <2>1, <2>2 DEF Elements
<1>1. t \in Ports(Burst) /\ Packets(t) = Packets(port) \cup Elements(ws)
  <2>1. CASE port.reg = <<>>
    <3> DEFINE r == <<Head(ws)>>
               s == port.q \o Tail(ws)
    <3>1. t = [reg |-> r, q |-> s] /\ t.reg = r /\ t.q = s
      BY <2>1 DEF PushAll
    <3>2. /\ Head(ws) \in Burst /\ Tail(ws) \in Seq(Burst)
          /\ Elements(ws) = {Head(ws)} \cup Elements(Tail(ws))
      BY <1>w, TailSeq
    <3>3. s \in Seq(Burst) /\ Elements(s) = Elements(port.q) \cup Elements(Tail(ws))
      <4>1. port.q \in Seq(Burst) /\ Tail(ws) \in Seq(Burst)
        BY <1>p, <3>2
      <4> QED BY <4>1, ConcatSeq
    <3>4. r \in Seq(Burst) /\ Len(r) <= 1 /\ Elements(r) = {Head(ws)}
      BY <3>2, OneSeq
    <3>5. Elements(port.reg) = {}
      BY <2>1, EmptySeq
    <3> HIDE DEF t, r, s
    <3>6. t \in Ports(Burst)
      BY <3>1, <3>3, <3>4, PortOf
    <3> QED BY <3>1, <3>2, <3>3, <3>4, <3>5, <3>6 DEF Packets
  <2>2. CASE port.reg # <<>>
    <3> DEFINE s == port.q \o ws
    <3>1. t = [reg |-> port.reg, q |-> s] /\ t.reg = port.reg /\ t.q = s
      BY <2>2 DEF PushAll
    <3>3. s \in Seq(Burst) /\ Elements(s) = Elements(port.q) \cup Elements(ws)
      BY <1>p, <1>w, ConcatSeq
    <3> HIDE DEF t, s
    <3>6. t \in Ports(Burst)
      BY <3>1, <3>3, <1>p, PortOf
    <3> QED BY <3>1, <3>3, <3>6 DEF Packets
  <2> QED BY <2>1, <2>2
<1>2. NoReadIn(t)
  <2>1. \A p \in Packets(port) : p.kind # "rd"
    BY NoReadPackets
  <2> HIDE DEF t
  <2>2. \A p \in Packets(t) : p.kind # "rd"
    BY <2>1, <1>1, <1>k
  <2> QED BY <1>1, <2>2, NoReadPackets
<1> QED BY <1>1, <1>2

-----------------------------------------------------------------------------
(* Geometry and bursts.                                                    *)

\* The product of positive numbers is positive.
LEMMA PosProduct ==
  ASSUME NEW a \in Nat \ {0}, NEW b \in Nat \ {0}
  PROVE  a * b \in Nat \ {0}
OBVIOUS

\* The product of natural numbers is a natural number.
LEMMA NatProduct ==
  ASSUME NEW a \in Nat, NEW b \in Nat
  PROVE  a * b \in Nat
OBVIOUS

\* DMA_SIZE_CFG always decodes to a geometry with at least one word.
LEMMA DecodeType ==
  ASSUME NEW cfg \in Nat
  PROVE  Decode(cfg) \in Geometry
<1> DEFINE width  == ((cfg \div 256) % 256) + 1
           height == (cfg % 256) + 1
           words  == (width \div 4) + (IF width % 4 # 0 THEN 1 ELSE 0)
           ss     == (cfg \div 16777216) % 256
           ds     == (cfg \div 65536) % 256
<1>1. width \in Nat \ {0} /\ height \in Nat \ {0} /\ ss \in Nat /\ ds \in Nat
  OBVIOUS
<1> HIDE DEF width, height, ss, ds
<1>2. words \in Nat \ {0}
  BY <1>1
<1> HIDE DEF words
<1>3. words * height \in Nat \ {0}
  BY <1>1, <1>2, PosProduct
<1>4. Decode(cfg) = [true_width |-> width, true_height |-> height, Source_stride |-> ss,
                     Dest_stride |-> ds, totalWords |-> words * height]
  BY DEF Decode, width, height, words, ss, ds
<1> QED BY <1>1, <1>3, <1>4 DEF Geometry

\* A row takes at least one word.
LEMMA RowWords ==
  ASSUME NEW g \in Geometry
  PROVE  WordsPerRow(g) \in Nat \ {0}
BY DEF Geometry, WordsPerRow

\* The test for a partial word never succeeds: a remainder is not its divisor.
LEMMA NotPartial ==
  ASSUME NEW g \in Geometry, NEW w \in Nat
  PROVE  ~ IsPartial(g, w)
<1>1. WordsPerRow(g) \in Nat \ {0}
  BY RowWords
<1> DEFINE n == WordsPerRow(g)
<1> HIDE DEF n
<1>2. n \in Nat \ {0} => w % n # n
  OBVIOUS
<1> QED BY <1>1, <1>2 DEF IsPartial, n

\* Word addresses are natural numbers.
LEMMA WordAddrType ==
  ASSUME NEW g \in Geometry, NEW base \in Nat, NEW stride \in Nat, NEW w \in Nat
  PROVE  WordAddr(g, base, stride, w) \in Nat
<1> DEFINE n == WordsPerRow(g)
<1>1. n \in Nat \ {0}
  BY RowWords
<1> HIDE DEF n
<1>2. w \div n \in Nat /\ w % n \in Nat
  BY <1>1
<1>3. (w \div n) * stride \in Nat /\ (w % n) * 4 \in Nat
  BY <1>2, NatProduct
<1> QED BY <1>3 DEF WordAddr, n

\* A chunk is one, two or four words, and not more than are left.
LEMMA ChunkBound ==
  ASSUME NEW g \in Geometry, NEW w \in Nat, NEW left \in Nat \ {0}
  PROVE  /\ writeChunkCalculation(g, w, left) \in {1, 2, 4}
         /\ writeChunkCalculation(g, w, left) <= left
<1> DEFINE n     == MinOf(left, max_burst_words)
           valid == {i \in 1 .. n : SubpacketCount(g, w, i) \in {1, 2, 4}}
<1>1. n \in 1 .. 4 /\ n <= left
  BY DEF MinOf, max_burst_words
<1>2. /\ Subpackets(g, w) = 1 /\ Subpackets(g, w + 1) = 1
      /\ Subpackets(g, w + 2) = 1 /\ Subpackets(g, w + 3) = 1
  BY NotPartial DEF Subpackets
<1> HIDE DEF n
<1>3. valid = {i \in 1 .. n : i \in {1, 2, 4}}
  BY <1>1, <1>2 DEF SubpacketCount
<1>4. writeChunkCalculation(g, w, left) =
        IF valid = {} THEN 1 ELSE CHOOSE i \in valid : \A j \in valid : j <= i
  BY DEF writeChunkCalculation, n
<1> HIDE DEF valid
<1>5. \E i \in valid : \A j \in valid : j <= i
  <2>1. CASE n = 4
    BY <2>1, <1>3
  <2>2. CASE n \in {2, 3}
    BY <2>2, <1>3
  <2>3. CASE n = 1
    BY <2>3, <1>3
  <2> QED BY <2>1, <2>2, <2>3, <1>1
<1>6. writeChunkCalculation(g, w, left) \in valid
  BY <1>4, <1>5
<1> QED BY <1>6, <1>3, <1>1

\* What the scheduling functions are called with.
Status == [enabled : BOOLEAN, done : BOOLEAN, currentState : {"IDLE", "READING", "WRITING"}]

\* The requests of a chunk: one SW per word, since no word is partial.
LEMMA ChunkRequests ==
  ASSUME NEW g \in Geometry, NEW c \in Tracking, NEW o \in Nat, NEW chunk \in {1, 2, 4},
         dstAddr \in Nat, bufferMemory \in [0 .. BufferCapacity - 1 -> Word], 0 <= c.wordsTransferred, o + chunk <= BufferCapacity
  PROVE  /\ createWriteRequestsForChunk(g, c, o, chunk) \in Seq(WriteBeat)
         /\ Len(createWriteRequestsForChunk(g, c, o, chunk)) = chunk
<1> DEFINE w(i)    == c.wordsTransferred + o + i
           beat(i) == [op |-> "SW", addr |-> WordAddr(g, dstAddr, g.Dest_stride, w(i)),
                       data |-> bufferMemory[o + i]]
           Of(i)   == IF i >= chunk THEN <<>>
                      ELSE WriteRequests(g, w(i), WordAddr(g, dstAddr, g.Dest_stride, w(i)),
                                         bufferMemory[o + i])
<1>1. createWriteRequestsForChunk(g, c, o, chunk) = Of(0) \o Of(1) \o Of(2) \o Of(3)
  BY DEF createWriteRequestsForChunk
<1>2. /\ c.wordsTransferred \in Nat /\ BufferCapacity \in Nat /\ dstAddr \in Nat
      /\ g.Dest_stride \in Nat
      /\ bufferMemory \in [0 .. BufferCapacity - 1 -> Word]
  BY CapacityAssumption DEF Tracking, Geometry
<1>3. ASSUME NEW i \in 0 .. 3, i < chunk
      PROVE  Of(i) = <<beat(i)>> /\ beat(i) \in WriteBeat
  <2>1. w(i) \in Nat /\ o + i \in 0 .. BufferCapacity - 1
    BY <1>2, <1>3
  <2>2. WordAddr(g, dstAddr, g.Dest_stride, w(i)) \in Nat
    BY <1>2, <2>1, WordAddrType
  <2>3. bufferMemory[o + i] \in Word
    BY <1>2, <2>1
  <2>4. ~ IsPartial(g, w(i))
    BY <2>1, NotPartial
  <2>5. ~ (i >= chunk)
    BY <1>3
  <2>6. Of(i) = WriteRequests(g, w(i), WordAddr(g, dstAddr, g.Dest_stride, w(i)), bufferMemory[o + i])
    BY <2>5
  <2>7. Of(i) = <<beat(i)>>
    BY <2>4, <2>6 DEF WriteRequests
  <2>8. beat(i) \in WriteBeat
    <3> HIDE DEF w
    <3> QED BY <2>2, <2>3 DEF WriteBeat
  <2> QED BY <2>7, <2>8
<1>4. ASSUME NEW i \in 0 .. 3, ~ (i < chunk) PROVE Of(i) = <<>>
  <2>1. i >= chunk
    BY <1>4
  <2> QED BY <2>1
<1> HIDE DEF Of, beat
<1>5. ASSUME NEW i \in 0 .. 3
      PROVE  Of(i) \in Seq(WriteBeat) /\ Len(Of(i)) = IF i < chunk THEN 1 ELSE 0
  <2>1. CASE i < chunk
    <3>1. Of(i) = <<beat(i)>> /\ beat(i) \in WriteBeat
      BY <1>3, <2>1
    <3>2. <<beat(i)>> \in Seq(WriteBeat) /\ Len(<<beat(i)>>) = 1
      BY <3>1, SingletonSeq
    <3> QED BY <3>1, <3>2, <2>1
  <2>2. CASE ~ (i < chunk)
    <3>1. Of(i) = <<>>
      BY <1>4, <2>2
    <3>2. <<>> \in Seq(WriteBeat) /\ Len(<<>>) = 0
      OBVIOUS
    <3> QED BY <3>1, <3>2, <2>2
  <2> QED BY <2>1, <2>2
<1>6. /\ Of(0) \o Of(1) \in Seq(WriteBeat)
      /\ Len(Of(0) \o Of(1)) = Len(Of(0)) + Len(Of(1))
  BY <1>5
<1>7. /\ Of(0) \o Of(1) \o Of(2) \in Seq(WriteBeat)
      /\ Len(Of(0) \o Of(1) \o Of(2)) = Len(Of(0)) + Len(Of(1)) + Len(Of(2))
  BY <1>5, <1>6
<1>8. /\ Of(0) \o Of(1) \o Of(2) \o Of(3) \in Seq(WriteBeat)
      /\ Len(Of(0) \o Of(1) \o Of(2) \o Of(3)) = Len(Of(0)) + Len(Of(1)) + Len(Of(2)) + Len(Of(3))
  BY <1>5, <1>7
<1>9. Len(Of(0)) + Len(Of(1)) + Len(Of(2)) + Len(Of(3)) = chunk
  <2>2. chunk \in {1, 2, 4}
    OBVIOUS
  <2>3. CASE chunk = 1
    <3>1. /\ Len(Of(0)) = 1 /\ Len(Of(1)) = 0
          /\ Len(Of(2)) = 0 /\ Len(Of(3)) = 0
      BY <1>5, <2>3
    <3>2. 1 + 0 + 0 + 0 = chunk
      BY <2>3
    <3> QED BY <3>1, <3>2, Zenon
  <2>4. CASE chunk = 2
    <3>1. /\ Len(Of(0)) = 1 /\ Len(Of(1)) = 1
          /\ Len(Of(2)) = 0 /\ Len(Of(3)) = 0
      BY <1>5, <2>4
    <3>2. 1 + 1 + 0 + 0 = chunk
      BY <2>4
    <3> QED BY <3>1, <3>2, Zenon
  <2>5. CASE chunk = 4
    <3>1. /\ Len(Of(0)) = 1 /\ Len(Of(1)) = 1
          /\ Len(Of(2)) = 1 /\ Len(Of(3)) = 1
      BY <1>5, <2>5
    <3>2. 1 + 1 + 1 + 1 = chunk
      BY <2>5
    <3> QED BY <3>1, <3>2, Zenon
  <2> QED BY <2>2, <2>3, <2>4, <2>5
<1> QED BY <1>1, <1>8, <1>9

\* A write burst of one of the lengths the bus supports.
LegalWrite == {p \in WrtBursts : Len(p.beats) \in {1, 2, 4}}

\* A walk h over n buffered words in chunks C that collects their bursts B.
DrainWalk(g, c, n, B, C, h) ==
  /\ IsWalk(h, n, B, C) /\ WriteBursts(g, c) = h[0]
  /\ \A o \in 0 .. n - 1 :
       /\ B[o] = [tid |-> nextTid + o, kind |-> "wr", caller |-> "dma",
                  beats |-> createWriteRequestsForChunk(g, c, o, C[o])]
       /\ B[o] \in LegalWrite
       /\ C[o] \in {1, 2, 4} /\ C[o] \in 1 .. n - o

\* The buffer is drained by such a walk.
LEMMA WriteBurstsWalk ==
  ASSUME NEW g \in Geometry, NEW c \in Tracking, 0 <= c.wordsTransferred,
         dstAddr \in Nat, bufferMemory \in [0 .. BufferCapacity - 1 -> Word], nextTid \in Nat,
         0 < c.bufferIndex, c.bufferIndex <= BufferCapacity
  PROVE  \E B, C, h : DrainWalk(g, c, c.bufferIndex, B, C, h)
<1> DEFINE n == c.bufferIndex
           Chunk(o) == writeChunkCalculation(g, c.wordsTransferred + o, n - o)
           Bst(o) == [tid |-> nextTid + o, kind |-> "wr", caller |-> "dma",
                      beats |-> createWriteRequestsForChunk(g, c, o, Chunk(o))]
           C == [o \in 0 .. n - 1 |-> Chunk(o)]
           B == [o \in 0 .. n - 1 |-> Bst(o)]
           Eq(f) == f = [o \in 0 .. n |-> IF o = n THEN <<>> ELSE <<Bst(o)>> \o f[o + Chunk(o)]]
<1>1. n \in Nat \ {0} /\ c.wordsTransferred \in Nat /\ nextTid \in Nat /\ BufferCapacity \in Nat
  BY CapacityAssumption DEF Tracking
<1>2. ASSUME NEW o \in 0 .. n - 1
      PROVE  Bst(o) \in LegalWrite /\ Chunk(o) \in 1 .. n - o /\ Chunk(o) \in {1, 2, 4}
  <2>1. Chunk(o) \in {1, 2, 4} /\ Chunk(o) <= n - o
    <3>1. c.wordsTransferred + o \in Nat /\ n - o \in Nat \ {0}
      BY <1>1
    <3> QED BY <3>1, ChunkBound
  <2> DEFINE k == Chunk(o)
             beats == createWriteRequestsForChunk(g, c, o, k)
  <2> HIDE DEF k, n
  <2>2. o \in Nat /\ o + k <= BufferCapacity /\ nextTid + o \in Nat
    BY <2>1, <1>1 DEF n, k
  <2>3. beats \in Seq(WriteBeat) /\ Len(beats) = k /\ k \in {1, 2, 4}
    BY <2>1, <2>2, ChunkRequests DEF k
  <2> HIDE DEF beats
  <2>4. Bst(o) = [tid |-> nextTid + o, kind |-> "wr", caller |-> "dma", beats |-> beats]
    BY DEF beats, k
  <2> HIDE DEF Bst
  <2>5. Bst(o) \in WrtBursts /\ Bst(o).beats = beats
    BY <2>2, <2>3, <2>4 DEF WrtBursts
  <2>6. Bst(o) \in LegalWrite
    BY <2>3, <2>5 DEF LegalWrite
  <2> QED BY <2>1, <2>6, <1>1 DEF n
<1>3. WriteBursts(g, c) = (CHOOSE f : Eq(f))[0]
  BY DEF WriteBursts
<1> HIDE DEF Bst, Chunk
<1>4. \A o \in 0 .. n - 1 : B[o] = Bst(o) /\ C[o] = Chunk(o) /\ B[o] \in LegalWrite /\ C[o] \in 1 .. n - o
                             /\ C[o] \in {1, 2, 4}
  BY <1>2
<1>b. \A o \in 0 .. n - 1 :
        Bst(o) = [tid |-> nextTid + o, kind |-> "wr", caller |-> "dma",
                  beats |-> createWriteRequestsForChunk(g, c, o, Chunk(o))]
  BY DEF Bst
<1> HIDE DEF n, B, C
<1>5. \E f : IsWalk(f, n, B, C)
  <2>1. n \in Nat /\ \A o \in 0 .. n - 1 : B[o] \in LegalWrite /\ C[o] \in 1 .. n - o
    BY <1>1, <1>4
  <2> QED BY <2>1, WalkExists
<1>6. ASSUME NEW f
      PROVE  Eq(f) <=> IsWalk(f, n, B, C)
  <2>1. ASSUME NEW o \in 0 .. n
        PROVE  (IF o = n THEN <<>> ELSE <<Bst(o)>> \o f[o + Chunk(o)])
             = (IF o = n THEN <<>> ELSE <<B[o]>> \o f[o + C[o]])
    <3>1. CASE o = n
      BY <3>1
    <3>2. CASE o # n
      <4>1. o \in 0 .. n - 1
        BY <3>2, <1>1
      <4> QED BY <4>1, <1>4
    <3> QED BY <3>1, <3>2
  <2> QED BY <2>1, Zenon DEF IsWalk
<1> DEFINE h == CHOOSE f : Eq(f)
<1>7. Eq(h)
  <2> HIDE DEF Eq
  <2> QED BY <1>5, <1>6
<1> HIDE DEF h
<1>8. IsWalk(h, n, B, C) /\ WriteBursts(g, c) = h[0]
  BY <1>3, <1>6, <1>7 DEF h
<1>9. \A o \in 0 .. n - 1 :
        /\ B[o] = [tid |-> nextTid + o, kind |-> "wr", caller |-> "dma",
                   beats |-> createWriteRequestsForChunk(g, c, o, C[o])]
        /\ B[o] \in LegalWrite
        /\ C[o] \in {1, 2, 4} /\ C[o] \in 1 .. n - o
  BY <1>4, <1>b
<1>10. DrainWalk(g, c, n, B, C, h)
  BY <1>8, <1>9, Zenon DEF DrainWalk
<1> QED BY <1>10, Zenon DEF n

\* Draining a non-empty buffer gives at least one burst, each of a legal length.
LEMMA WriteBurstsType ==
  ASSUME NEW g \in Geometry, NEW c \in Tracking, 0 <= c.wordsTransferred,
         dstAddr \in Nat, bufferMemory \in [0 .. BufferCapacity - 1 -> Word], nextTid \in Nat,
         0 < c.bufferIndex, c.bufferIndex <= BufferCapacity
  PROVE  WriteBursts(g, c) \in Seq(LegalWrite) /\ WriteBursts(g, c) # <<>>
<1>1. PICK n \in Nat \ {0} : n = c.bufferIndex
  BY DEF Tracking
<1>0. PICK B, C, h : DrainWalk(g, c, n, B, C, h)
  BY <1>1, WriteBurstsWalk
<1>2. /\ IsWalk(h, n, B, C) /\ WriteBursts(g, c) = h[0]
      /\ \A o \in 0 .. n - 1 : B[o] \in LegalWrite /\ C[o] \in 1 .. n - o
  BY <1>0, Zenon DEF DrainWalk
<1>3. h \in [0 .. n -> Seq(LegalWrite)]
  BY <1>2, WalkType
<1>4. 0 \in 0 .. n - 1 /\ 0 \in 0 .. n /\ 0 # n
  BY <1>1
<1>5. B[0] \in LegalWrite /\ 0 + C[0] \in 0 .. n
  BY <1>2, <1>4
<1>6. h[0] = <<B[0]>> \o h[0 + C[0]]
  BY <1>2, <1>4 DEF IsWalk
<1>7. h[0] \in Seq(LegalWrite) /\ h[0 + C[0]] \in Seq(LegalWrite)
  BY <1>3, <1>4, <1>5
<1>8. h[0] # <<>>
  BY <1>5, <1>6, <1>7, PrependSeq
<1> QED BY <1>2, <1>7, <1>8

\* The body of ReadFits for one burst, geometry g, counters c and source src.
Fits(p, g, c, src) ==
  /\ Len(p.beats) >= 1
  /\ c.bufferIndex + Len(p.beats) <= BufferCapacity
  /\ c.wordsToBuffer + Len(p.beats) <= g.totalWords
  /\ \A k \in 1 .. Len(p.beats) :
       /\ p.beats[k].imm = c.bufferIndex + k - 1
       /\ p.beats[k].addr = WordAddr(g, src, g.Source_stride, c.wordsTransferred + p.beats[k].imm)

\* A counter record in the middle of a transfer whose words read are those
\* written plus those in the buffer.
Balanced(g, c) ==
  /\ c \in Tracking
  /\ 0 <= c.wordsTransferred
  /\ 0 <= c.bufferIndex /\ c.bufferIndex <= BufferCapacity
  /\ c.wordsToBuffer <= g.totalWords
  /\ c.wordsToBuffer = c.wordsTransferred + c.bufferIndex

\* The burst scheduleReadsForBuffer builds has a legal length and fits the buffer.
LEMMA ReadBurstFits ==
  ASSUME NEW g \in Geometry, NEW c, Balanced(g, c), nextTid \in Nat, srcAddr \in Nat,
         c.bufferIndex < BufferCapacity, c.wordsToBuffer < g.totalWords
  PROVE  /\ ReadBurst(g, c) \in ReadBursts
         /\ Len(ReadBurst(g, c).beats) \in {1, 2, 4}
         /\ Fits(ReadBurst(g, c), g, c, srcAddr)
<1> DEFINE n     == ReadChunk(g, c)
           w(i)  == c.wordsTransferred + c.bufferIndex + i - 1
           beat(i) == [op |-> "LW", addr |-> WordAddr(g, srcAddr, g.Source_stride, w(i)),
                       imm |-> c.bufferIndex + i - 1]
           beats == [i \in 1 .. n |-> beat(i)]
           b     == ReadBurst(g, c)
<1>1. /\ c.bufferIndex \in Nat /\ c.wordsTransferred \in Nat /\ c.wordsToBuffer \in Int
      /\ BufferCapacity \in Nat /\ g.totalWords \in Nat /\ g.Source_stride \in Nat
  BY CapacityAssumption DEF Balanced, Tracking, Geometry
<1>2. /\ n \in {1, 2, 4}
      /\ c.bufferIndex + n <= BufferCapacity
      /\ c.wordsToBuffer + n <= g.totalWords
  BY <1>1 DEF ReadChunk, MinOf, max_burst_words
<1>3. b = [tid |-> nextTid, kind |-> "rd", caller |-> "dma", beats |-> beats] /\ b.beats = beats
  BY DEF ReadBurst
<1> HIDE DEF n, b
<1>4. ASSUME NEW i \in 1 .. n PROVE beat(i) \in ReadBeat
  <2>1. w(i) \in Nat /\ c.bufferIndex + i - 1 \in Nat
    BY <1>1, <1>2
  <2> HIDE DEF w
  <2>2. WordAddr(g, srcAddr, g.Source_stride, w(i)) \in Nat
    BY <1>1, <2>1, WordAddrType
  <2> QED BY <2>1, <2>2 DEF ReadBeat
<1>5. ASSUME NEW i \in 1 .. n
      PROVE  /\ beats[i].imm = c.bufferIndex + i - 1
             /\ beats[i].addr = WordAddr(g, srcAddr, g.Source_stride, c.wordsTransferred + beats[i].imm)
  <2>1. beats[i] = beat(i) /\ beat(i).imm = c.bufferIndex + i - 1
        /\ beat(i).addr = WordAddr(g, srcAddr, g.Source_stride, w(i))
    OBVIOUS
  <2>2. c.wordsTransferred + (c.bufferIndex + i - 1) = w(i)
    BY <1>1, <1>2
  <2> QED BY <2>1, <2>2
<1>6. beats \in Seq(ReadBeat) /\ Len(beats) = n
  <2> HIDE DEF beat
  <2>1. n \in Nat
    BY <1>2
  <2> QED BY <1>4, <2>1
<1> HIDE DEF beats, beat, w
<1>7. b \in ReadBursts
  BY <1>3, <1>6 DEF ReadBursts
<1>8. Fits(b, g, c, srcAddr)
  BY <1>2, <1>3, <1>5, <1>6 DEF Fits
<1> QED BY <1>2, <1>3, <1>6, <1>7, <1>8 DEF b

\* scheduleReadsForBuffer issuing a read.
LEMMA IssueReadStep ==
  ASSUME NEW port \in Ports(Burst), NoReadIn(port), NEW g \in Geometry, NEW c, NEW s,
         Balanced(g, c), nextTid \in Nat, srcAddr \in Nat,
         c.bufferIndex < BufferCapacity, c.wordsToBuffer < g.totalWords,
         IssueRead(port, g, c, s)
  PROVE  /\ req' \in Ports(Burst) /\ OneReadIn(req') /\ ~ NoReadIn(req')
         /\ \E b \in ReadBursts : /\ Packets(req') = Packets(port) \cup {b}
                                  /\ Len(b.beats) \in {1, 2, 4}
                                  /\ Fits(b, g, cnt', srcAddr)
         /\ Balanced(g, cnt')
         /\ cnt'.pendingBusWriteResponses = c.pendingBusWriteResponses
         /\ nextTid' \in Nat /\ st' = s
<1> DEFINE b == ReadBurst(g, c)
<1>1. b \in ReadBursts /\ Len(b.beats) \in {1, 2, 4} /\ Fits(b, g, c, srcAddr)
  BY ReadBurstFits
<1>2. /\ req' = PushOrQueue(port, b) /\ nextTid' = nextTid + 1 /\ st' = s
      /\ cnt' = [c EXCEPT !.pendingBusReadResponses = 1]
  BY DEF IssueRead
<1> HIDE DEF b
<1>3. /\ req' \in Ports(Burst) /\ OneReadIn(req') /\ ~ NoReadIn(req')
      /\ Packets(req') = Packets(port) \cup {b}
  BY <1>1, <1>2, PushRead
<1>4. /\ cnt' \in Tracking
      /\ cnt'.bufferIndex = c.bufferIndex /\ cnt'.wordsToBuffer = c.wordsToBuffer
      /\ cnt'.wordsTransferred = c.wordsTransferred
      /\ cnt'.pendingBusWriteResponses = c.pendingBusWriteResponses
  BY <1>2 DEF Balanced, Tracking
<1>5. Fits(b, g, cnt', srcAddr) /\ Balanced(g, cnt')
  BY <1>1, <1>4 DEF Fits, Balanced
<1>6. nextTid' \in Nat
  BY <1>2
<1> QED BY <1>1, <1>2, <1>3, <1>4, <1>5, <1>6

\* scheduleWritesFromBuffer issuing writes.
LEMMA IssueWritesStep ==
  ASSUME NEW port \in Ports(Burst), NoReadIn(port), NEW g \in Geometry, NEW c, NEW s,
         Balanced(g, c), nextTid \in Nat, dstAddr \in Nat,
         bufferMemory \in [0 .. BufferCapacity - 1 -> Word],
         0 < c.bufferIndex, IssueWrites(port, g, c, s)
  PROVE  /\ req' \in Ports(Burst) /\ NoReadIn(req')
         /\ \A p \in Packets(req') : p \in Packets(port) \/ Len(p.beats) \in {1, 2, 4}
         /\ cnt' \in Tracking
         /\ cnt'.bufferIndex = c.bufferIndex
         /\ cnt'.wordsToBuffer = c.wordsToBuffer
         /\ cnt'.wordsTransferred = c.wordsToBuffer
         /\ nextTid' \in Nat /\ st' = s
<1> DEFINE ws == WriteBursts(g, c)
           pw == IF port.reg = <<>> THEN Len(ws) - 1 ELSE Len(ws)
<1>1. /\ c \in Tracking /\ 0 <= c.wordsTransferred /\ c.bufferIndex <= BufferCapacity
      /\ c.wordsToBuffer = c.wordsTransferred + c.bufferIndex
  BY DEF Balanced
<1>2. ws \in Seq(LegalWrite) /\ ws # <<>>
  BY <1>1, WriteBurstsType
<1>3. /\ req' = PushAll(port, ws) /\ nextTid' = nextTid + c.bufferIndex /\ st' = s
      /\ cnt' = [c EXCEPT !.wordsTransferred = @ + c.bufferIndex,
                          !.pendingBusWriteResponses = pw]
  BY DEF IssueWrites
<1> HIDE DEF ws
<1>4. ws \in Seq(WrtBursts)
  BY <1>2 DEF LegalWrite
<1>5. /\ req' \in Ports(Burst) /\ NoReadIn(req')
      /\ Packets(req') = Packets(port) \cup Elements(ws)
  BY <1>2, <1>3, <1>4, PushWrites
<1>6. \A p \in Elements(ws) : Len(p.beats) \in {1, 2, 4}
  <2>1. \A i \in 1 .. Len(ws) : ws[i] \in LegalWrite
    BY <1>2
  <2> QED BY <2>1 DEF Elements, LegalWrite
<1>7. pw \in Int
  BY <1>2
<1> HIDE DEF pw
<1>8. /\ cnt' \in Tracking
      /\ cnt'.bufferIndex = c.bufferIndex
      /\ cnt'.wordsToBuffer = c.wordsToBuffer
      /\ cnt'.wordsTransferred = c.wordsTransferred + c.bufferIndex
  BY <1>1, <1>3, <1>7 DEF Tracking
<1>9. nextTid' \in Nat
  BY <1>1, <1>3 DEF Tracking
<1> QED BY <1>1, <1>3, <1>5, <1>6, <1>8, <1>9

-----------------------------------------------------------------------------
(* Phases.                                                                 *)

RequestsTyped == req \in Ports(Burst) /\ outstanding \subseteq Burst

TransferTyped ==
  /\ st \in Status
  /\ srcAddr \in Nat /\ dstAddr \in Nat /\ dmaSizeCfg \in Nat
  /\ geo \in Geometry /\ cnt \in Tracking
  /\ bufferMemory \in [0 .. BufferCapacity - 1 -> Word]
  /\ events \in Seq(EventName) /\ nextTid \in Nat

DriverTyped ==
  /\ resp \in Ports(MmioResponse)
  /\ mmioReads \in Seq(MmioRequest)
  /\ drv \in [pc : DriverPc, job : Transfers, started : 0 .. MaxTransfers]
  /\ mport \in Seq(MmioRequest) /\ Len(mport) <= 1

\* TypeOK in three parts, for the request side, the transfer and the driver.
LEMMA TypeSplit == TypeOK <=> RequestsTyped /\ TransferTyped /\ DriverTyped
BY Zenon DEF TypeOK, RequestsTyped, TransferTyped, DriverTyped, Status, Ports

\* The same after a step.
LEMMA TypeSplitNext == RequestsTyped' /\ TransferTyped' /\ DriverTyped' => TypeOK'
BY Zenon DEF TypeOK, RequestsTyped, TransferTyped, DriverTyped, Status, Ports

\* The bursts in flight, by where they are.
LEMMA InFlightPackets ==
  /\ InFlight = Packets(req) \cup outstanding
  /\ InFlight' = Packets(req') \cup outstanding'
BY DEF InFlight, Requests, Packets, Elements

\* Counting read bursts by place finds none exactly when none is in flight.
LEMMA NoReadReads ==
  ASSUME req \in Ports(Burst)
  PROVE  NoRead <=> Reads = {}
BY NoReadPackets, InFlightPackets DEF NoRead, Reads, ReadsO

\* With one place for a read burst there is at most one read burst.
LEMMA OneReadOnly ==
  ASSUME req \in Ports(Burst), OneRead, NEW p \in Reads, NEW q \in Reads
  PROVE  p = q
<1>1. ASSUME NEW r \in Reads
      PROVE  \/ r \in ReadsO
             \/ \E i \in ReadsR(req) : r = req.reg[i]
             \/ \E i \in ReadsQ(req) : r = req.q[i]
  BY InFlightPackets DEF Reads, ReadsO, ReadsR, ReadsQ, ReadsAt, Packets, Elements
<1>2. \A i \in ReadsR(req) : i = 1
  <2>1. req.reg \in Seq(Burst) /\ Len(req.reg) \in Nat /\ Len(req.reg) <= 1
    BY PortFields, LenSeq
  <2> QED BY <2>1 DEF ReadsR, ReadsAt
<1>3. CASE NoReadIn(req)
  BY <1>1, <1>3 DEF NoReadIn, OneRead
<1>4. CASE ~ NoReadIn(req) /\ ReadsO = {} /\ ReadsQ(req) = {}
  BY <1>1, <1>2, <1>4
<1>5. CASE ~ NoReadIn(req) /\ ReadsO = {} /\ ReadsR(req) = {}
  BY <1>1, <1>5 DEF OneRead, OneReadIn
<1> QED BY <1>3, <1>4, <1>5 DEF OneRead, OneReadIn

\* A step that adds no burst, answers no read and leaves the transfer's
\* counters alone (a write response may go down as long as it does not go up
\* past zero) keeps the phase.
LEMMA LessTraffic ==
  ASSUME InFlight' \subseteq InFlight, NoRead' <=> NoRead, OneRead => OneRead',
         UNCHANGED <<geo, events>>,
         cnt'.wordsToBuffer = cnt.wordsToBuffer, cnt'.bufferIndex = cnt.bufferIndex,
         cnt'.wordsTransferred = cnt.wordsTransferred,
         cnt.pendingBusWriteResponses <= 0 => cnt'.pendingBusWriteResponses <= 0
  PROVE  /\ Reading /\ srcAddr' = srcAddr => Reading'
         /\ ReadScheduled => ReadScheduled'
         /\ WriteScheduled => WriteScheduled'
         /\ Draining => Draining'
         /\ Idle => Idle'
         /\ LegalBursts => LegalBursts'
<1>1. Reads' \subseteq Reads /\ Writes' \subseteq Writes
  BY DEF Reads, Writes
<1>2. NoCountedWrite => NoCountedWrite'
  BY <1>1 DEF NoCountedWrite
<1>3. Counters => Counters'
  BY DEF Counters
<1>4. ReadFits /\ srcAddr' = srcAddr => ReadFits'
  BY <1>1 DEF ReadFits
<1>5. Reading /\ srcAddr' = srcAddr => Reading'
  BY <1>2, <1>3, <1>4 DEF Reading
<1>6. (ReadScheduled => ReadScheduled') /\ (WriteScheduled => WriteScheduled')
  BY <1>2, <1>3 DEF ReadScheduled, WriteScheduled
<1>7. (Draining => Draining') /\ (Idle => Idle')
  BY <1>2, <1>3 DEF Draining, Idle
<1>8. LegalBursts => LegalBursts'
  BY DEF LegalBursts
<1> QED BY <1>5, <1>6, <1>7, <1>8

\* In particular a step that only moves bursts.
LEMMA SameTraffic ==
  ASSUME InFlight' = InFlight, NoRead' <=> NoRead, OneRead => OneRead',
         UNCHANGED <<geo, cnt, events>>
  PROVE  /\ Reading /\ srcAddr' = srcAddr => Reading'
         /\ ReadScheduled => ReadScheduled'
         /\ WriteScheduled => WriteScheduled'
         /\ Draining => Draining'
         /\ Idle => Idle'
         /\ LegalBursts => LegalBursts'
BY LessTraffic

\* trySendPacket moves a packet and loses none.
LEMMA SendKeeps ==
  ASSUME req \in Ports(Burst), req' = req \/ req' = trySendPacket(req), outstanding' = outstanding
  PROVE  /\ req' \in Ports(Burst)
         /\ InFlight' = InFlight
         /\ NoRead' <=> NoRead
         /\ OneRead => OneRead'
<1>1. /\ req' \in Ports(Burst)
      /\ Packets(req') = Packets(req)
      /\ NoReadIn(req') <=> NoReadIn(req)
      /\ OneReadIn(req) => OneReadIn(req')
  BY TrySendPort
<1>2. Packets(req)' = Packets(req') /\ NoReadIn(req)' = NoReadIn(req') /\ OneReadIn(req)' = OneReadIn(req')
  BY DEF Packets, NoReadIn, OneReadIn, ReadsQ, ReadsR, ReadsAt, Elements
<1>3. ReadsO' = ReadsO
  BY DEF ReadsO
<1>5. InFlight' = InFlight
  BY <1>1, InFlightPackets
<1> QED BY <1>1, <1>2, <1>3, <1>5 DEF NoRead, OneRead

\* The read burst in flight is the one IssueRead makes.
LEMMA StartReading ==
  ASSUME req \in Ports(Burst), NEW port \in Ports(Burst), Packets(port) = Packets(req),
         NoReadIn(port), NEW g \in Geometry, NEW c, NEW s,
         Balanced(g, c), nextTid \in Nat, srcAddr \in Nat,
         c.bufferIndex < BufferCapacity, c.wordsToBuffer < g.totalWords,
         IssueRead(port, g, c, s),
         ReadsO = {}, outstanding' \subseteq outstanding, events' = <<>>,
         geo' = g, srcAddr' = srcAddr,
         c.pendingBusWriteResponses <= 0 \/ Writes = {}, LegalBursts
  PROVE  /\ Reading' /\ LegalBursts' /\ req' \in Ports(Burst) /\ cnt' \in Tracking
         /\ nextTid' \in Nat /\ st' = s
<1>1. /\ req' \in Ports(Burst) /\ OneReadIn(req') /\ ~ NoReadIn(req')
      /\ Balanced(g, cnt')
      /\ cnt'.pendingBusWriteResponses = c.pendingBusWriteResponses
      /\ nextTid' \in Nat /\ st' = s
  BY IssueReadStep
<1>2. PICK b \in ReadBursts : /\ Packets(req') = Packets(port) \cup {b}
                              /\ Len(b.beats) \in {1, 2, 4}
                              /\ Fits(b, g, cnt', srcAddr)
  BY IssueReadStep
<1>3. Packets(req)' = Packets(req') /\ NoReadIn(req)' = NoReadIn(req') /\ OneReadIn(req)' = OneReadIn(req')
  BY DEF Packets, NoReadIn, OneReadIn, ReadsQ, ReadsR, ReadsAt, Elements
<1>4. InFlight' = Packets(req') \cup outstanding'
  BY InFlightPackets
<1>5. InFlight' \subseteq InFlight \cup {b} /\ b.kind = "rd"
  BY <1>2, <1>4, InFlightPackets DEF ReadBursts
<1>6. \A p \in InFlight : p.kind # "rd"
  BY NoReadPackets, InFlightPackets DEF ReadsO
<1>7. \A p \in Reads' : p = b
  BY <1>5, <1>6 DEF Reads
<1>8. Writes' \subseteq Writes
  BY <1>5 DEF Writes
<1>9. ReadsO' = {}
  BY DEF ReadsO
<1>10. OneRead' /\ ~ NoRead'
  BY <1>1, <1>3, <1>9 DEF OneRead, NoRead
<1>11. ReadFits'
  BY <1>2, <1>7 DEF ReadFits, Fits
<1>12. Counters' /\ (cnt.wordsToBuffer = cnt.wordsTransferred + cnt.bufferIndex)' /\ cnt' \in Tracking
  BY <1>1 DEF Balanced, Counters
<1>13. NoCountedWrite'
  BY <1>1, <1>8 DEF NoCountedWrite
<1>14. LegalBursts'
  BY <1>2, <1>5 DEF LegalBursts
<1> QED BY <1>1, <1>10, <1>11, <1>12, <1>13, <1>14 DEF Reading

\* The write bursts in flight are those of IssueWrites and older ones.
LEMMA StartDraining ==
  ASSUME req \in Ports(Burst), NEW port \in Ports(Burst), Packets(port) = Packets(req),
         NoReadIn(port), NEW g \in Geometry, NEW c, NEW s,
         Balanced(g, c), nextTid \in Nat, dstAddr \in Nat,
         bufferMemory \in [0 .. BufferCapacity - 1 -> Word],
         0 < c.bufferIndex, IssueWrites(port, g, c, s),
         ReadsO = {}, outstanding' \subseteq outstanding, events' = <<>>,
         geo' = g, LegalBursts
  PROVE  /\ Draining' /\ LegalBursts' /\ req' \in Ports(Burst) /\ cnt' \in Tracking
         /\ nextTid' \in Nat /\ st' = s
<1>1. /\ req' \in Ports(Burst) /\ NoReadIn(req')
      /\ \A p \in Packets(req') : p \in Packets(port) \/ Len(p.beats) \in {1, 2, 4}
      /\ cnt' \in Tracking
      /\ cnt'.bufferIndex = c.bufferIndex
      /\ cnt'.wordsToBuffer = c.wordsToBuffer
      /\ cnt'.wordsTransferred = c.wordsToBuffer
      /\ nextTid' \in Nat /\ st' = s
  BY IssueWritesStep
<1>3. Packets(req)' = Packets(req') /\ NoReadIn(req)' = NoReadIn(req')
  BY DEF Packets, NoReadIn, ReadsQ, ReadsR, ReadsAt, Elements
<1>4. InFlight' = Packets(req') \cup outstanding'
  BY InFlightPackets
<1>5. LegalBursts'
  BY <1>1, <1>4, InFlightPackets DEF LegalBursts
<1>6. NoRead'
  BY <1>1, <1>3 DEF NoRead, ReadsO
<1>7. Counters' /\ (cnt.wordsToBuffer = cnt.wordsTransferred)'
  BY <1>1 DEF Balanced, Counters, Tracking
<1> QED BY <1>1, <1>5, <1>6, <1>7 DEF Draining

\* Steps that leave the transfer and the driver alone keep the whole Phase.
LEMMA PhaseKept ==
  ASSUME Phase, RequestsTyped,
         InFlight' = InFlight, NoRead' <=> NoRead, OneRead => OneRead',
         UNCHANGED <<st, srcAddr, geo, cnt, events>>,
         Programming' <=> Programming, SawDone' => SawDone
  PROVE  Phase'
<1>1. (Busy => Busy') /\ (Idle => Idle')
  BY SameTraffic DEF Busy
<1>2. (Transferred' <=> Transferred) /\ st'.done = st.done
  BY DEF Transferred
<1> QED BY <1>1, <1>2 DEF Phase

\* Steps that at most send a response keep Poll as long as DONE does not drop.
LEMMA PollKept ==
  ASSUME Poll, resp \in Ports(MmioResponse), resp' = resp \/ resp' = trySendPacket(resp),
         st.done => st'.done, UNCHANGED <<mmioReads, drv, mport>>
  PROVE  Poll' /\ resp' \in Ports(MmioResponse)
<1>1. /\ resp' \in Ports(MmioResponse)
      /\ Packets(resp') = Packets(resp)
      /\ NoReadIn(resp') <=> NoReadIn(resp)
      /\ OneReadIn(resp) => OneReadIn(resp')
  BY TrySendPort
<1>2. /\ Packets(resp)' = Packets(resp')
      /\ NoReadIn(resp)' = NoReadIn(resp')
      /\ OneReadIn(resp)' = OneReadIn(resp')
  BY DEF Packets, NoReadIn, OneReadIn, ReadsQ, ReadsR, ReadsAt, Elements
<1>3. \A p \in Packets(resp)' : p.kind = "rd" /\ p.data = 1 => st'.done
  BY <1>1, <1>2 DEF Poll
<1> QED BY <1>1, <1>2, <1>3 DEF Poll

\* The request at the slave port, if there is one.
LEMMA PortRequest ==
  ASSUME DriverTyped, mport # <<>>
  PROVE  Len(mport) = 1 /\ 1 \in 1 .. Len(mport) /\ mport[1] \in MmioRequest
         /\ \A i \in 1 .. Len(mport) : i = 1
<1>1. mport \in Seq(MmioRequest) /\ Len(mport) \in Nat /\ Len(mport) > 0 /\ Len(mport) <= 1
  BY LenSeq DEF DriverTyped
<1>2. Len(mport) = 1
  BY <1>1
<1>3. 1 \in 1 .. Len(mport) /\ \A i \in 1 .. Len(mport) : i = 1
  BY <1>2
<1> QED BY <1>1, <1>2, <1>3

-----------------------------------------------------------------------------
(* The actions.                                                            *)

\* TrySend preserves the invariant.
LEMMA TrySendStep == IInv /\ TrySend => IInv'
<1> SUFFICES ASSUME IInv, TrySend PROVE IInv'
  OBVIOUS
<1>1. RequestsTyped /\ TransferTyped /\ DriverTyped /\ Phase /\ Poll /\ LegalBursts
  BY TypeSplit DEF IInv
<1>2. /\ req' = trySendPacket(req) /\ resp' = trySendPacket(resp)
      /\ UNCHANGED <<st, srcAddr, dstAddr, dmaSizeCfg, geo, cnt, bufferMemory, events, nextTid,
                     mmioReads, outstanding, drv, mport>>
  BY DEF TrySend, regs, transfer, driver
<1>3. /\ req' \in Ports(Burst) /\ InFlight' = InFlight
      /\ NoRead' <=> NoRead
      /\ OneRead => OneRead'
  BY <1>1, <1>2, SendKeeps DEF RequestsTyped
<1>4. Poll' /\ resp' \in Ports(MmioResponse)
  BY <1>1, <1>2, PollKept DEF DriverTyped
<1>5. Phase' /\ LegalBursts'
  <2>1. (Programming' <=> Programming) /\ (SawDone' <=> SawDone)
    BY <1>2 DEF Programming, SawDone
  <2> QED BY <1>1, <1>2, <1>3, <2>1, PhaseKept, SameTraffic
<1>6. RequestsTyped' /\ TransferTyped' /\ DriverTyped'
  BY <1>1, <1>2, <1>3, <1>4 DEF RequestsTyped, TransferTyped, DriverTyped
<1> QED BY <1>4, <1>5, <1>6, TypeSplitNext DEF IInv

\* StepMmioRead preserves the invariant.
LEMMA StepMmioReadStep == IInv /\ StepMmioRead => IInv'
<1> SUFFICES ASSUME IInv, StepMmioRead PROVE IInv'
  OBVIOUS
<1>1. RequestsTyped /\ TransferTyped /\ DriverTyped /\ Phase /\ Poll /\ LegalBursts
  BY TypeSplit DEF IInv
<1>2. /\ req' = trySendPacket(req) /\ resp' = trySendPacket(resp)
      /\ UNCHANGED <<st, srcAddr, dstAddr, dmaSizeCfg, geo, cnt, bufferMemory, events, nextTid,
                     outstanding, drv>>
      /\ mport # <<>> /\ mport[1].kind = "rd" /\ mport' = <<>>
      /\ mmioReads' = Append(mmioReads, mport[1])
  BY DEF StepMmioRead, regs, transfer, driver
<1>3. /\ req' \in Ports(Burst) /\ InFlight' = InFlight
      /\ NoRead' <=> NoRead
      /\ OneRead => OneRead'
  BY <1>1, <1>2, SendKeeps DEF RequestsTyped
<1>p. /\ Len(mport) = 1 /\ 1 \in 1 .. Len(mport) /\ mport[1] \in MmioRequest
      /\ \A i \in 1 .. Len(mport) : i = 1
  BY <1>1, <1>2, PortRequest
<1>q. mmioReads = <<>> /\ NoReadIn(resp) /\ drv.pc = "wait" /\ mport[1].reg = "DONE"
  BY <1>1, <1>2, <1>p DEF Poll
<1>m. /\ mmioReads' = <<mport[1]>> /\ mmioReads' \in Seq(MmioRequest) /\ Len(mmioReads') = 1
      /\ mmioReads'[1].reg = "DONE"
  BY <1>2, <1>p, <1>q
<1>4. Poll' /\ resp' \in Ports(MmioResponse)
  <2>1. /\ resp' \in Ports(MmioResponse)
        /\ Packets(resp') = Packets(resp)
        /\ NoReadIn(resp') <=> NoReadIn(resp)
        /\ OneReadIn(resp) => OneReadIn(resp')
    BY <1>1, <1>2, TrySendPort DEF DriverTyped
  <2>2. /\ Packets(resp)' = Packets(resp')
        /\ NoReadIn(resp)' = NoReadIn(resp')
        /\ OneReadIn(resp)' = OneReadIn(resp')
    BY DEF Packets, NoReadIn, OneReadIn, ReadsQ, ReadsR, ReadsAt, Elements
  <2>3. \A p \in Packets(resp)' : p.kind = "rd" /\ p.data = 1 => st'.done
    BY <1>1, <1>2, <2>1, <2>2 DEF Poll
  <2>4. OneReadIn(resp)' /\ NoReadIn(resp)'
    BY <1>1, <1>q, <2>1, <2>2 DEF Poll
  <2>5. drv'.pc = "wait" /\ 1 .. Len(mport') = {}
    BY <1>2, <1>q
  <2>6. \A i \in 1 .. Len(mmioReads') : mmioReads'[i].reg = "DONE"
    BY <1>m
  <2> QED BY <1>2, <1>m, <2>1, <2>3, <2>4, <2>5, <2>6 DEF Poll
<1>5. Phase' /\ LegalBursts'
  <2>1. ~ Programming /\ ~ Programming' /\ (SawDone' <=> SawDone)
    BY <1>2, <1>p, <1>q DEF Programming, SawDone
  <2> QED BY <1>1, <1>2, <1>3, <2>1, PhaseKept, SameTraffic
<1>6. RequestsTyped' /\ TransferTyped'
  BY <1>1, <1>2, <1>3 DEF RequestsTyped, TransferTyped
<1>7. DriverTyped'
  <2>1. <<>> \in Seq(MmioRequest) /\ Len(<<>>) <= 1
    OBVIOUS
  <2> QED BY <1>1, <1>2, <1>4, <1>m, <2>1 DEF DriverTyped
<1> QED BY <1>4, <1>5, <1>6, <1>7, TypeSplitNext DEF IInv

\* The predicates on ports, primed, are those of the ports after the step.
LEMMA PrimedPorts ==
  /\ Packets(resp)' = Packets(resp')
  /\ NoReadIn(resp)' = NoReadIn(resp')
  /\ OneReadIn(resp)' = OneReadIn(resp')
  /\ NoReadIn(req)' = NoReadIn(req')
  /\ OneReadIn(req)' = OneReadIn(req')
BY DEF Packets, NoReadIn, OneReadIn, ReadsQ, ReadsR, ReadsAt, Elements

\* readMMIO preserves the invariant.
LEMMA ReadMmioStep == IInv /\ readMMIO => IInv'
<1> SUFFICES ASSUME IInv, readMMIO PROVE IInv'
  OBVIOUS
<1>1. RequestsTyped /\ TransferTyped /\ DriverTyped /\ Phase /\ Poll /\ LegalBursts
  BY TypeSplit DEF IInv
<1> DEFINE b == [kind |-> "rd", data |-> IF st.done THEN 1 ELSE 0]
<1>2. /\ UNCHANGED <<st, srcAddr, dstAddr, dmaSizeCfg, geo, cnt, bufferMemory, events, nextTid,
                     req, outstanding, drv, mport>>
      /\ mmioReads # <<>> /\ mmioReads' = Tail(mmioReads)
  BY DEF readMMIO, regs, transfer, driver
<1>m. Len(mmioReads) = 1 /\ Head(mmioReads).reg = "DONE" /\ mmioReads' = <<>>
  <2>1. mmioReads \in Seq(MmioRequest) /\ Len(mmioReads) \in Nat /\ Len(mmioReads) > 0
        /\ Len(mmioReads) <= 1
    <3>1. mmioReads \in Seq(MmioRequest) /\ Len(mmioReads) <= 1
      BY <1>1 DEF DriverTyped, Poll
    <3> QED BY <1>2, <3>1, LenSeq
  <2>l. Len(mmioReads) = 1
    BY <2>1
  <2>2. Len(mmioReads) = 1 /\ 1 \in 1 .. Len(mmioReads)
    BY <2>l
  <2>r. \A i \in 1 .. Len(mmioReads) : mmioReads[i].reg = "DONE"
    BY <1>1 DEF Poll
  <2>3. mmioReads[1].reg = "DONE"
    BY <2>2, <2>r
  <2> QED BY <1>2, <2>1, <2>2, <2>3
<1>r. resp' = Enqueue(resp, b)
  BY <1>m DEF readMMIO
<1>q. NoReadIn(resp) /\ mport = <<>> /\ drv.pc = "wait"
  BY <1>1, <1>2 DEF Poll
<1>b. b \in MmioResponse /\ b.kind = "rd" /\ (b.data = 1 => st.done)
  BY DEF MmioResponse
<1> HIDE DEF b
<1>e. /\ resp' \in Ports(MmioResponse) /\ OneReadIn(resp')
      /\ Packets(resp') = Packets(resp) \cup {b}
  BY <1>1, <1>r, <1>q, <1>b, EnqueuePort DEF DriverTyped
<1>4. Poll'
  <2>3. \A p \in Packets(resp)' : p.kind = "rd" /\ p.data = 1 => st'.done
    <3>1. \A p \in Packets(resp) : p.kind = "rd" /\ p.data = 1 => st.done
      BY <1>1 DEF Poll
    <3>2. Packets(resp)' = Packets(resp) \cup {b} /\ st' = st
      BY <1>2, <1>e, PrimedPorts
    <3> QED BY <1>b, <3>1, <3>2
  <2>4. OneReadIn(resp)'
    BY <1>e, PrimedPorts
  <2>1. 1 .. Len(<<>>) = {} /\ Len(<<>>) <= 1
    OBVIOUS
  <2>5. drv'.pc = "wait" /\ mport' = <<>> /\ 1 .. Len(mport') = {} /\ 1 .. Len(mmioReads') = {}
        /\ Len(mmioReads') <= 1
    BY <1>2, <1>q, <1>m, <2>1, Zenon
  <2> QED BY <1>m, <2>3, <2>4, <2>5 DEF Poll
<1>5. Phase' /\ LegalBursts'
  <2>1. (Programming' <=> Programming) /\ (SawDone' <=> SawDone)
    BY <1>2 DEF Programming, SawDone
  <2>2. /\ InFlight' = InFlight
        /\ NoRead' <=> NoRead
        /\ OneRead => OneRead'
    BY <1>1, <1>2, SendKeeps DEF RequestsTyped
  <2> QED BY <1>1, <1>2, <2>1, <2>2, PhaseKept, SameTraffic
<1>6. RequestsTyped' /\ TransferTyped'
  BY <1>1, <1>2 DEF RequestsTyped, TransferTyped
<1>7. DriverTyped'
  <2>1. <<>> \in Seq(MmioRequest)
    OBVIOUS
  <2> QED BY <1>1, <1>2, <1>e, <1>m, <2>1 DEF DriverTyped
<1> QED BY <1>4, <1>5, <1>6, <1>7, TypeSplitNext DEF IInv

\* What both kinds of MMIO write do to the driver's side.
LEMMA WriteAcknowledged ==
  ASSUME IInv, StepMmioWrite
  PROVE  /\ DriverTyped' /\ Poll'
         /\ Programming /\ Idle
         /\ mport[1] \in MmioRequest
         /\ mport[1].reg = "ENABLE" => drv.pc = "poll" /\ mport[1].data = 1
         /\ mport[1].reg # "ENABLE" => drv.pc \notin {"poll", "wait"}
         /\ mport' = <<>> /\ UNCHANGED <<drv, outstanding>>
<1>1. RequestsTyped /\ TransferTyped /\ DriverTyped /\ Phase /\ Poll
  BY TypeSplit DEF IInv
<1> DEFINE b == [kind |-> "wr", data |-> 0]
<1>2. /\ mport # <<>> /\ mport[1].kind = "wr" /\ mport' = <<>>
      /\ UNCHANGED <<mmioReads, outstanding, drv>>
      /\ resp' = Enqueue(trySendPacket(resp), b)
  BY DEF StepMmioWrite
<1>p. /\ Len(mport) = 1 /\ 1 \in 1 .. Len(mport) /\ mport[1] \in MmioRequest
      /\ \A i \in 1 .. Len(mport) : i = 1
  BY <1>1, <1>2, PortRequest
<1>3. mmioReads = <<>> /\ NoReadIn(resp) /\ OneReadIn(resp)
  BY <1>1, <1>2 DEF Poll
<1>4. Programming /\ Idle
  BY <1>1, <1>2, <1>p DEF Programming, Phase
<1>5. drv.pc = "poll" => mport[1].reg = "ENABLE" /\ mport[1].data = 1
  BY <1>1, <1>p DEF Poll, EnableRequest
<1>6. /\ mport[1].reg = "ENABLE" => drv.pc = "poll"
      /\ drv.pc # "wait"
  BY <1>1, <1>2, <1>p DEF Poll
<1>7. b \in MmioResponse /\ b.kind # "rd"
  BY DEF MmioResponse
<1> HIDE DEF b
<1>8. trySendPacket(resp) \in Ports(MmioResponse) /\ NoReadIn(trySendPacket(resp))
      /\ OneReadIn(trySendPacket(resp))
  BY <1>1, <1>3, TrySendPort DEF DriverTyped
<1>9. resp' \in Ports(MmioResponse) /\ NoReadIn(resp') /\ OneReadIn(resp')
  BY <1>2, <1>7, <1>8, EnqueuePort
<1>10. Poll'
  <2>1. \A p \in Packets(resp') : p.kind # "rd"
    BY <1>9, NoReadPackets
  <2>2. \A p \in Packets(resp)' : p.kind # "rd"
    BY <2>1, PrimedPorts
  <2>3. NoReadIn(resp)' /\ OneReadIn(resp)'
    BY <1>9, PrimedPorts
  <2>4. 1 .. Len(mport') = {} /\ mmioReads' = <<>> /\ 1 .. Len(mmioReads') = {} /\ Len(mmioReads') <= 1
    BY <1>2, <1>3
  <2> QED BY <1>2, <2>2, <2>3, <2>4 DEF Poll
<1>11. DriverTyped'
  <2>1. <<>> \in Seq(MmioRequest) /\ Len(<<>>) <= 1
    OBVIOUS
  <2> QED BY <1>1, <1>2, <1>9, <2>1 DEF DriverTyped
<1> QED BY <1>2, <1>p, <1>4, <1>5, <1>6, <1>10, <1>11

\* StepMmioWrite preserves the invariant.
LEMMA StepMmioWriteStep == IInv /\ StepMmioWrite => IInv'
<1> SUFFICES ASSUME IInv, StepMmioWrite PROVE IInv'
  OBVIOUS
<1>1. RequestsTyped /\ TransferTyped /\ Phase /\ LegalBursts /\ req \in Ports(Burst)
  BY TypeSplit DEF IInv, RequestsTyped
<1>2. /\ DriverTyped' /\ Poll' /\ Programming /\ Idle /\ mport[1] \in MmioRequest
      /\ mport[1].reg = "ENABLE" => drv.pc = "poll" /\ mport[1].data = 1
      /\ mport[1].reg # "ENABLE" => drv.pc \notin {"poll", "wait"}
      /\ mport' = <<>> /\ UNCHANGED <<drv, outstanding>>
  BY WriteAcknowledged
<1> DEFINE port == trySendPacket(req)
<1>3. /\ port \in Ports(Burst) /\ Packets(port) = Packets(req)
      /\ NoReadIn(port) <=> NoReadIn(req)
  BY <1>1, TrySendPort
<1>4. NoRead /\ NoReadIn(port) /\ ReadsO = {} /\ NoCountedWrite /\ events = <<>>
  BY <1>2, <1>3 DEF Idle, NoRead
<1>5. CASE mport[1].reg = "ENABLE" /\ mport[1].data % 2 = 1
  <2> DEFINE g == Decode(dmaSizeCfg)
             c == [cnt EXCEPT !.wordsToBuffer = 0, !.wordsTransferred = 0, !.bufferIndex = 0]
             s == [enabled |-> TRUE, done |-> FALSE, currentState |-> "READING"]
  <2>1. /\ geo' = g /\ scheduleReadsForBuffer(port, g, c, s)
        /\ UNCHANGED <<srcAddr, dstAddr, dmaSizeCfg, bufferMemory, events>>
    BY <1>5 DEF StepMmioWrite, WriteEnable, regs
  <2> HIDE DEF port
  <2>2. /\ nextTid \in Nat /\ srcAddr \in Nat /\ g \in Geometry /\ cnt \in Tracking
    <3>1. nextTid \in Nat /\ srcAddr \in Nat /\ dmaSizeCfg \in Nat /\ cnt \in Tracking
      BY <1>1 DEF TransferTyped
    <3> QED BY <3>1, DecodeType
  <2>3. /\ c \in Tracking /\ c.wordsToBuffer = 0 /\ c.wordsTransferred = 0 /\ c.bufferIndex = 0
        /\ c.pendingBusWriteResponses = cnt.pendingBusWriteResponses
    <3> DEFINE d == [cnt EXCEPT !.wordsToBuffer = 0]
               e == [d EXCEPT !.wordsTransferred = 0]
    <3>1. cnt \in Tracking /\ c = [e EXCEPT !.bufferIndex = 0]
      BY <2>2
    <3>2. d \in Tracking /\ d.wordsToBuffer = 0
          /\ d.pendingBusWriteResponses = cnt.pendingBusWriteResponses
      BY <3>1 DEF Tracking
    <3> HIDE DEF d, c
    <3>3. e \in Tracking /\ e.wordsToBuffer = 0 /\ e.wordsTransferred = 0
          /\ e.pendingBusWriteResponses = cnt.pendingBusWriteResponses
      BY <3>2 DEF Tracking
    <3> HIDE DEF e
    <3> QED BY <3>1, <3>3 DEF Tracking
  <2>4. BufferCapacity \in Nat \ {0} /\ g.totalWords \in Nat \ {0}
    BY <2>2, CapacityAssumption DEF Geometry
  <2> HIDE DEF g, c, s
  <2>5. Balanced(g, c) /\ c.bufferIndex < BufferCapacity /\ c.wordsToBuffer < g.totalWords
    BY <2>3, <2>4 DEF Balanced
  <2>6. MinOf(BufferCapacity - c.bufferIndex, g.totalWords - c.wordsToBuffer) # 0
    BY <2>3, <2>4 DEF MinOf
  <2>7. IssueRead(port, g, c, s)
    BY <2>1, <2>6 DEF scheduleReadsForBuffer
  <2>8. c.pendingBusWriteResponses <= 0 \/ Writes = {}
    BY <1>4, <2>3 DEF NoCountedWrite
  <2>9. /\ Reading' /\ LegalBursts' /\ req' \in Ports(Burst) /\ cnt' \in Tracking
        /\ nextTid' \in Nat /\ st' = s
    BY <1>1, <1>2, <1>3, <1>4, <2>1, <2>2, <2>5, <2>7, <2>8, StartReading
  <2>10. s \in Status /\ s.done = FALSE
    BY DEF s, Status
  <2>11. ~ Programming' /\ ~ SawDone'
    <3>1. drv'.pc = "poll" /\ 1 .. Len(mport') = {}
      BY <1>2, <1>5
    <3> QED BY <3>1 DEF Programming, SawDone
  <2>12. Phase'
    BY <2>9, <2>10, <2>11 DEF Phase, Busy
  <2>13. RequestsTyped'
    BY <1>1, <1>2, <2>9 DEF RequestsTyped
  <2>14. TransferTyped'
    BY <1>1, <2>1, <2>2, <2>9, <2>10 DEF TransferTyped
  <2> QED BY <1>2, <2>9, <2>12, <2>13, <2>14, TypeSplitNext DEF IInv
<1>6. CASE ~ (mport[1].reg = "ENABLE" /\ mport[1].data % 2 = 1)
  <2>1. WriteRegister(port, mport[1])
    BY <1>6 DEF StepMmioWrite
  <2>2. mport[1].reg # "ENABLE"
    BY <1>2, <1>6
  <2>3. /\ req' = port /\ UNCHANGED <<geo, cnt, bufferMemory, events, nextTid>>
        /\ st' = [st EXCEPT !.done = IF mport[1].reg = "DONE" THEN FALSE ELSE @]
    BY <2>1 DEF WriteRegister, transfer
  <2>4. srcAddr' \in Nat /\ dstAddr' \in Nat /\ dmaSizeCfg' \in Nat
    <3>1. srcAddr \in Nat /\ dstAddr \in Nat /\ dmaSizeCfg \in Nat /\ mport[1].data \in Nat
      BY <1>1, <1>2 DEF TransferTyped, MmioRequest
    <3> QED BY <2>1, <3>1 DEF WriteRegister
  <2>5. st' \in Status /\ st'.enabled = st.enabled
    <3>1. st \in Status
      BY <1>1 DEF TransferTyped
    <3> QED BY <2>3, <3>1 DEF Status
  <2>6. /\ req' \in Ports(Burst) /\ InFlight' = InFlight
        /\ NoRead' <=> NoRead
        /\ OneRead => OneRead'
    BY <1>1, <1>2, <2>3, SendKeeps
  <2>7. Idle' /\ LegalBursts'
    BY <1>1, <1>2, <2>3, <2>6, SameTraffic
  <2>8. Programming' /\ (SawDone' <=> SawDone)
    BY <1>2, <2>2 DEF Programming, SawDone
  <2>9. Transferred => Transferred'
    BY <2>3, <2>5 DEF Transferred
  <2>10. Phase'
    BY <1>1, <2>7, <2>8, <2>9 DEF Phase
  <2>11. RequestsTyped' /\ TransferTyped'
    BY <1>1, <1>2, <2>3, <2>4, <2>5, <2>6 DEF RequestsTyped, TransferTyped
  <2> QED BY <1>2, <2>7, <2>10, <2>11, TypeSplitNext DEF IInv
<1> QED BY <1>5, <1>6

\* The event for the next read burst finds the transfer in ReadScheduled.
LEMMA ReadsEventStep == IInv /\ ReadsEvent => IInv'
<1> SUFFICES ASSUME IInv, ReadsEvent PROVE IInv'
  OBVIOUS
<1>1. RequestsTyped /\ TransferTyped /\ DriverTyped /\ Phase /\ Poll /\ LegalBursts
      /\ req \in Ports(Burst)
  BY TypeSplit DEF IInv, RequestsTyped
<1>2. /\ events # <<>> /\ Head(events) = "scheduleReadsForBuffer" /\ events' = Tail(events)
      /\ scheduleReadsForBuffer(req, geo, cnt, st)
      /\ UNCHANGED <<srcAddr, dstAddr, dmaSizeCfg, geo, bufferMemory, resp, mmioReads,
                     outstanding, drv, mport>>
  BY DEF ReadsEvent, regs, driver
<1>3. ~ Programming /\ ~ SawDone /\ ~ st.done /\ ReadScheduled
  <2>1. events # <<"scheduleWritesFromBuffer">>
    BY <1>2
  <2>2. ~ Programming
    BY <1>1, <1>2 DEF Phase, Idle
  <2>3. ~ SawDone
    BY <2>2 DEF Programming, SawDone
  <2>4. ~ st.done /\ Busy
    BY <1>1, <1>2, <2>2 DEF Phase, Idle
  <2> QED BY <1>2, <2>1, <2>2, <2>3, <2>4 DEF Busy, Reading, WriteScheduled, Draining
<1>4. /\ cnt \in Tracking /\ nextTid \in Nat /\ srcAddr \in Nat /\ geo \in Geometry
      /\ BufferCapacity \in Nat /\ geo.totalWords \in Nat
      /\ cnt.bufferIndex \in Int /\ cnt.wordsToBuffer \in Int
  BY <1>1, CapacityAssumption DEF TransferTyped, Tracking, Geometry
<1>5. Balanced(geo, cnt) /\ cnt.bufferIndex < BufferCapacity /\ cnt.wordsToBuffer < geo.totalWords
  BY <1>3, <1>4 DEF ReadScheduled, Counters, Balanced
<1>6. MinOf(BufferCapacity - cnt.bufferIndex, geo.totalWords - cnt.wordsToBuffer) # 0
  BY <1>4, <1>5 DEF MinOf
<1>7. IssueRead(req, geo, cnt, st)
  BY <1>2, <1>6 DEF scheduleReadsForBuffer
<1>8. NoReadIn(req) /\ ReadsO = {} /\ (cnt.pendingBusWriteResponses <= 0 \/ Writes = {})
      /\ events = <<"scheduleReadsForBuffer">>
  BY <1>3 DEF ReadScheduled, NoRead, NoCountedWrite
<1>e. events' = <<>>
  BY <1>2, <1>8
<1>9. /\ Reading' /\ LegalBursts' /\ req' \in Ports(Burst) /\ cnt' \in Tracking
      /\ nextTid' \in Nat /\ st' = st
  BY <1>1, <1>2, <1>4, <1>5, <1>7, <1>8, <1>e, StartReading
<1>10. ~ Programming' /\ ~ SawDone'
  BY <1>2, <1>3 DEF Programming, SawDone
<1>11. Phase'
  BY <1>3, <1>9, <1>10 DEF Phase, Busy
<1>12. Poll'
  BY <1>1, <1>2, <1>9, PollKept DEF DriverTyped
<1>13. RequestsTyped' /\ DriverTyped'
  BY <1>1, <1>2, <1>9 DEF RequestsTyped, DriverTyped
<1>14. TransferTyped'
  <2>1. <<>> \in Seq(EventName)
    OBVIOUS
  <2> QED BY <1>1, <1>2, <1>9, <1>e, <2>1 DEF TransferTyped
<1> QED BY <1>9, <1>11, <1>12, <1>13, <1>14, TypeSplitNext DEF IInv

\* The event for the write phase finds a non-empty buffer.
LEMMA WritesEventStep == IInv /\ WritesEvent => IInv'
<1> SUFFICES ASSUME IInv, WritesEvent PROVE IInv'
  OBVIOUS
<1>1. RequestsTyped /\ TransferTyped /\ DriverTyped /\ Phase /\ Poll /\ LegalBursts
      /\ req \in Ports(Burst)
  BY TypeSplit DEF IInv, RequestsTyped
<1>2. /\ events # <<>> /\ Head(events) = "scheduleWritesFromBuffer" /\ events' = Tail(events)
      /\ scheduleWritesFromBuffer(req, geo, cnt, st)
      /\ UNCHANGED <<srcAddr, dstAddr, dmaSizeCfg, geo, bufferMemory, resp, mmioReads,
                     outstanding, drv, mport>>
  BY DEF WritesEvent, regs, driver
<1>3. ~ Programming /\ ~ SawDone /\ ~ st.done /\ WriteScheduled
  <2>1. events # <<"scheduleReadsForBuffer">>
    BY <1>2
  <2>2. ~ Programming
    BY <1>1, <1>2 DEF Phase, Idle
  <2>3. ~ SawDone
    BY <2>2 DEF Programming, SawDone
  <2>4. ~ st.done /\ Busy
    BY <1>1, <1>2, <2>2 DEF Phase, Idle
  <2> QED BY <1>2, <2>1, <2>2, <2>3, <2>4 DEF Busy, Reading, ReadScheduled, Draining
<1>4. /\ cnt \in Tracking /\ nextTid \in Nat /\ dstAddr \in Nat /\ geo \in Geometry
      /\ bufferMemory \in [0 .. BufferCapacity - 1 -> Word] /\ cnt.bufferIndex \in Int
  BY <1>1 DEF TransferTyped, Tracking
<1>5. Balanced(geo, cnt) /\ 0 < cnt.bufferIndex /\ cnt.bufferIndex # 0
  BY <1>3, <1>4 DEF WriteScheduled, Counters, Balanced
<1>7. IssueWrites(req, geo, cnt, st)
  BY <1>2, <1>5 DEF scheduleWritesFromBuffer
<1>8. NoReadIn(req) /\ ReadsO = {} /\ events = <<"scheduleWritesFromBuffer">>
  BY <1>3 DEF WriteScheduled, NoRead
<1>e. events' = <<>>
  BY <1>2, <1>8
<1>9. /\ Draining' /\ LegalBursts' /\ req' \in Ports(Burst) /\ cnt' \in Tracking
      /\ nextTid' \in Nat /\ st' = st
  BY <1>1, <1>2, <1>4, <1>5, <1>7, <1>8, <1>e, StartDraining
<1>10. ~ Programming' /\ ~ SawDone'
  BY <1>2, <1>3 DEF Programming, SawDone
<1>11. Phase'
  BY <1>3, <1>9, <1>10 DEF Phase, Busy
<1>12. Poll'
  BY <1>1, <1>2, <1>9, PollKept DEF DriverTyped
<1>13. RequestsTyped' /\ DriverTyped'
  BY <1>1, <1>2, <1>9 DEF RequestsTyped, DriverTyped
<1>14. TransferTyped'
  <2>1. <<>> \in Seq(EventName)
    OBVIOUS
  <2> QED BY <1>1, <1>2, <1>9, <1>e, <2>1 DEF TransferTyped
<1> QED BY <1>9, <1>11, <1>12, <1>13, <1>14, TypeSplitNext DEF IInv

\* The crossbar taking a burst moves it from the register to outstanding.
LEMMA BusAcceptStep == IInv /\ BusAccept => IInv'
<1> SUFFICES ASSUME IInv, BusAccept PROVE IInv'
  OBVIOUS
<1>1. RequestsTyped /\ TransferTyped /\ DriverTyped /\ Phase /\ Poll /\ LegalBursts
      /\ req \in Ports(Burst) /\ outstanding \subseteq Burst
  BY TypeSplit DEF IInv, RequestsTyped
<1> DEFINE b == req.reg[1]
<1>2. /\ req.reg # <<>> /\ req' = Forward(req) /\ outstanding' = outstanding \cup {b}
      /\ UNCHANGED <<st, srcAddr, dstAddr, dmaSizeCfg, geo, cnt, bufferMemory, events, nextTid,
                     resp, mmioReads, drv, mport>>
  BY DEF BusAccept, regs, transfer, driver
<1>3. /\ req' \in Ports(Burst) /\ b \in Burst
      /\ Packets(req) = Packets(req') \cup {b}
      /\ OneReadIn(req) => OneReadIn(req')
      /\ b.kind = "rd" => ~ NoReadIn(req) /\ (OneReadIn(req) => NoReadIn(req'))
      /\ b.kind # "rd" => (NoReadIn(req') <=> NoReadIn(req))
  BY <1>1, <1>2, ForwardPort
<1> HIDE DEF b
<1>4. InFlight' = InFlight
  BY <1>2, <1>3, InFlightPackets
<1>5. ReadsO' = ReadsO \cup (IF b.kind = "rd" THEN {b} ELSE {})
  BY <1>2 DEF ReadsO
<1>6. NoRead' <=> NoRead
  BY <1>3, <1>5, PrimedPorts DEF NoRead
<1>7. OneRead => OneRead'
  <2>1. CASE b.kind = "rd"
    <3>1. OneRead => ReadsO' = {b} /\ NoReadIn(req)' /\ OneReadIn(req)'
      BY <1>3, <1>5, <2>1, PrimedPorts DEF OneRead
    <3> QED BY <3>1 DEF OneRead
  <2>2. CASE b.kind # "rd"
    BY <1>3, <1>5, <2>2, PrimedPorts DEF OneRead
  <2> QED BY <2>1, <2>2
<1>8. (Programming' <=> Programming) /\ (SawDone' <=> SawDone)
  BY <1>2 DEF Programming, SawDone
<1>9. Phase' /\ LegalBursts'
  BY <1>1, <1>2, <1>4, <1>6, <1>7, <1>8, PhaseKept, SameTraffic
<1>10. Poll'
  BY <1>1, <1>2, PollKept DEF DriverTyped
<1>11. RequestsTyped' /\ TransferTyped' /\ DriverTyped'
  BY <1>1, <1>2, <1>3 DEF RequestsTyped, TransferTyped, DriverTyped
<1> QED BY <1>9, <1>10, <1>11, TypeSplitNext DEF IInv

\* A read response finds the transfer in Reading and schedules one event.
LEMMA BusReadResponseStep == IInv /\ BusReadResponse => IInv'
<1> SUFFICES ASSUME IInv, NEW p \in outstanding, outstanding' = outstanding \ {p},
                    NEW data \in [1 .. Len(p.beats) -> Word], StepReadResponse(p, data)
             PROVE  IInv'
  BY DEF BusReadResponse
<1>1. RequestsTyped /\ TransferTyped /\ DriverTyped /\ Phase /\ Poll /\ LegalBursts
      /\ req \in Ports(Burst) /\ outstanding \subseteq Burst
  BY TypeSplit DEF IInv, RequestsTyped
<1> DEFINE chunk == Len(p.beats)
           c     == [cnt EXCEPT !.bufferIndex = @ + chunk, !.wordsToBuffer = @ + chunk,
                                !.pendingBusReadResponses = @ - 1]
           more  == BufferCapacity - c.bufferIndex > 0 /\ geo.totalWords - c.wordsToBuffer > 0
<1>2. /\ p.kind = "rd" /\ req' = trySendPacket(req) /\ resp' = trySendPacket(resp)
      /\ UNCHANGED <<srcAddr, dstAddr, dmaSizeCfg, geo, nextTid, mmioReads, drv, mport>>
      /\ cnt' = c
      /\ events' = Append(events, IF more THEN "scheduleReadsForBuffer"
                                          ELSE "scheduleWritesFromBuffer")
      /\ st' = IF more THEN st ELSE [st EXCEPT !.currentState = "WRITING"]
      /\ bufferMemory' = [i \in DOMAIN bufferMemory |->
                            IF \E k \in 1 .. chunk : p.beats[k].imm = i
                            THEN data[CHOOSE k \in 1 .. chunk : p.beats[k].imm = i]
                            ELSE bufferMemory[i]]
  BY DEF StepReadResponse, handleReadResponse, regs, driver
<1>3. p \in ReadsO /\ ~ NoRead
  BY <1>2 DEF ReadsO, NoRead
<1>4. ~ Programming /\ ~ SawDone /\ ~ st.done /\ Reading
  <2>1. ~ Programming
    BY <1>1, <1>3 DEF Phase, Idle
  <2>2. ~ SawDone
    BY <2>1 DEF Programming, SawDone
  <2>3. ~ st.done /\ Busy
    BY <1>1, <1>3, <2>1 DEF Phase, Idle
  <2> QED BY <1>3, <2>1, <2>2, <2>3 DEF Busy, ReadScheduled, WriteScheduled, Draining
<1>5. /\ ReadsO = {p} /\ NoReadIn(req) /\ events = <<>> /\ Counters /\ NoCountedWrite /\ ReadFits
      /\ cnt.wordsToBuffer = cnt.wordsTransferred + cnt.bufferIndex
  BY <1>3, <1>4 DEF Reading, OneRead
<1>6. /\ chunk >= 1 /\ chunk \in {1, 2, 4}
      /\ cnt.bufferIndex + chunk <= BufferCapacity
      /\ cnt.wordsToBuffer + chunk <= geo.totalWords
  <2>1. p \in InFlight /\ p \in Reads
    BY <1>2, InFlightPackets DEF Reads
  <2> QED BY <1>1, <1>5, <2>1 DEF ReadFits, LegalBursts
<1> HIDE DEF chunk
<1>7. /\ c \in Tracking /\ c.bufferIndex = cnt.bufferIndex + chunk
      /\ c.wordsToBuffer = cnt.wordsToBuffer + chunk
      /\ c.wordsTransferred = cnt.wordsTransferred
      /\ c.pendingBusWriteResponses = cnt.pendingBusWriteResponses
  <2> DEFINE d == [cnt EXCEPT !.bufferIndex = @ + chunk]
             e == [d EXCEPT !.wordsToBuffer = @ + chunk]
  <2>1. cnt \in Tracking /\ c = [e EXCEPT !.pendingBusReadResponses = @ - 1] /\ chunk \in Int
    BY <1>1, <1>6 DEF TransferTyped
  <2>2. d \in Tracking /\ d.bufferIndex = cnt.bufferIndex + chunk
        /\ d.wordsToBuffer = cnt.wordsToBuffer
        /\ d.wordsTransferred = cnt.wordsTransferred
        /\ d.pendingBusWriteResponses = cnt.pendingBusWriteResponses
    BY <2>1 DEF Tracking
  <2> HIDE DEF d, c
  <2>3. e \in Tracking /\ e.bufferIndex = cnt.bufferIndex + chunk
        /\ e.wordsToBuffer = cnt.wordsToBuffer + chunk
        /\ e.wordsTransferred = cnt.wordsTransferred
        /\ e.pendingBusWriteResponses = cnt.pendingBusWriteResponses
    <3>1. d \in Tracking /\ chunk \in Int
      BY <2>1, <2>2
    <3>2. e \in Tracking /\ e.wordsToBuffer = d.wordsToBuffer + chunk
          /\ e.bufferIndex = d.bufferIndex /\ e.wordsTransferred = d.wordsTransferred
          /\ e.pendingBusWriteResponses = d.pendingBusWriteResponses
      BY <3>1 DEF Tracking
    <3> HIDE DEF e
    <3> QED BY <2>2, <3>2
  <2> HIDE DEF e
  <2>4. e \in Tracking /\ c = [e EXCEPT !.pendingBusReadResponses = @ - 1]
    BY <2>1, <2>3
  <2>5. c \in Tracking /\ c.wordsToBuffer = e.wordsToBuffer
        /\ c.bufferIndex = e.bufferIndex /\ c.wordsTransferred = e.wordsTransferred
        /\ c.pendingBusWriteResponses = e.pendingBusWriteResponses
    BY <2>4 DEF Tracking
  <2> QED BY <2>3, <2>5
<1> HIDE DEF c
<1>8. /\ cnt.bufferIndex \in Int /\ cnt.wordsToBuffer \in Int /\ cnt.wordsTransferred \in Int
      /\ BufferCapacity \in Nat /\ geo.totalWords \in Nat /\ chunk \in Nat
  BY <1>1, <1>6, CapacityAssumption DEF TransferTyped, Tracking, Geometry
<1>9. /\ req' \in Ports(Burst) /\ Packets(req') = Packets(req) /\ NoReadIn(req')
  BY <1>1, <1>2, <1>5, TrySendPort
<1>10. NoRead' /\ InFlight' \subseteq InFlight
  <2>1. ReadsO' = {}
    BY <1>5 DEF ReadsO
  <2>2. InFlight' \subseteq InFlight
    BY <1>9, InFlightPackets
  <2> QED BY <1>9, <2>1, <2>2, PrimedPorts DEF NoRead
<1>11. LegalBursts' /\ Writes' \subseteq Writes
  BY <1>1, <1>10 DEF LegalBursts, Writes
<1>12. NoCountedWrite' /\ Counters'
  BY <1>2, <1>5, <1>6, <1>7, <1>8, <1>11 DEF NoCountedWrite, Counters
<1>13. cnt'.wordsToBuffer = cnt'.wordsTransferred + cnt'.bufferIndex /\ 0 < cnt'.bufferIndex
  BY <1>2, <1>5, <1>6, <1>7, <1>8 DEF Counters
<1>14. Busy' /\ events' \in Seq(EventName)
  <2>1. CASE more
    <3>1. events' = <<"scheduleReadsForBuffer">>
      BY <1>2, <1>5, <2>1
    <3>2. cnt'.bufferIndex < BufferCapacity /\ cnt'.wordsToBuffer < geo'.totalWords
      BY <1>2, <1>7, <1>8, <2>1
    <3> QED BY <1>10, <1>12, <1>13, <3>1, <3>2 DEF ReadScheduled, Busy, EventName
  <2>2. CASE ~ more
    <3>1. events' = <<"scheduleWritesFromBuffer">>
      BY <1>2, <1>5, <2>2
    <3> QED BY <1>10, <1>12, <1>13, <3>1 DEF WriteScheduled, Busy, EventName
  <2> QED BY <2>1, <2>2
<1>15. st' \in Status /\ st'.done = st.done
  <2>1. st \in Status
    BY <1>1 DEF TransferTyped
  <2> QED BY <1>2, <2>1 DEF Status
<1>16. ~ Programming' /\ ~ SawDone'
  BY <1>2, <1>4 DEF Programming, SawDone
<1>17. Phase'
  BY <1>4, <1>14, <1>15, <1>16 DEF Phase
<1>18. Poll' /\ resp' \in Ports(MmioResponse)
  BY <1>1, <1>2, <1>15, PollKept DEF DriverTyped
<1>19. bufferMemory' \in [0 .. BufferCapacity - 1 -> Word]
  <2>1. bufferMemory \in [0 .. BufferCapacity - 1 -> Word]
    BY <1>1 DEF TransferTyped
  <2>2. ASSUME NEW i \in 0 .. BufferCapacity - 1, \E k \in 1 .. chunk : p.beats[k].imm = i
        PROVE  data[CHOOSE k \in 1 .. chunk : p.beats[k].imm = i] \in Word
    BY <2>2 DEF chunk
  <2> QED BY <1>2, <2>1, <2>2
<1>20. RequestsTyped' /\ DriverTyped'
  BY <1>1, <1>2, <1>9, <1>18 DEF RequestsTyped, DriverTyped
<1>21. TransferTyped'
  BY <1>1, <1>2, <1>7, <1>14, <1>15, <1>19 DEF TransferTyped
<1> QED BY <1>11, <1>17, <1>18, <1>20, <1>21, TypeSplitNext DEF IInv

\* A write response either only lowers the count, or, in Draining, brings it
\* to zero and completes the transfer or starts the next read.
LEMMA BusWriteResponseStep == IInv /\ BusWriteResponse => IInv'
<1> SUFFICES ASSUME IInv, NEW p \in outstanding, outstanding' = outstanding \ {p},
                    StepWriteResponse(p)
             PROVE  IInv'
  BY DEF BusWriteResponse
<1>1. RequestsTyped /\ TransferTyped /\ DriverTyped /\ Phase /\ Poll /\ LegalBursts
      /\ req \in Ports(Burst) /\ outstanding \subseteq Burst
  BY TypeSplit DEF IInv, RequestsTyped
<1> DEFINE port == trySendPacket(req)
           c    == [cnt EXCEPT !.pendingBusWriteResponses = @ - 1]
           e    == [c EXCEPT !.bufferIndex = 0]
<1>2. /\ p.kind = "wr" /\ handleWriteCompletion(port) /\ resp' = trySendPacket(resp)
      /\ UNCHANGED <<srcAddr, dstAddr, dmaSizeCfg, mmioReads, drv, mport>>
  BY DEF StepWriteResponse, regs, driver
<1>3. /\ geo' = geo /\ events' = events
      /\ IF c.pendingBusWriteResponses # 0
         THEN /\ cnt' = c /\ req' = port
              /\ UNCHANGED <<st, bufferMemory, nextTid>>
         ELSE /\ bufferMemory' = [i \in DOMAIN bufferMemory |->
                                    IF i < c.bufferIndex THEN ZeroWord ELSE bufferMemory[i]]
              /\ IF c.wordsTransferred >= geo.totalWords
                 THEN Finish(port, e, st)
                 ELSE scheduleReadsForBuffer(port, geo, e, [st EXCEPT !.currentState = "READING"])
  BY <1>2 DEF handleWriteCompletion
<1>4. /\ port \in Ports(Burst) /\ Packets(port) = Packets(req)
      /\ NoReadIn(port) <=> NoReadIn(req)
      /\ OneReadIn(req) => OneReadIn(port)
  BY <1>1, TrySendPort
<1> HIDE DEF port
<1>5. /\ cnt \in Tracking /\ st \in Status /\ geo \in Geometry /\ nextTid \in Nat /\ srcAddr \in Nat
      /\ bufferMemory \in [0 .. BufferCapacity - 1 -> Word]
      /\ BufferCapacity \in Nat \ {0} /\ geo.totalWords \in Nat \ {0}
  BY <1>1, CapacityAssumption DEF TransferTyped, Geometry
<1>6. /\ c \in Tracking /\ c.bufferIndex = cnt.bufferIndex
      /\ c.wordsToBuffer = cnt.wordsToBuffer
      /\ c.wordsTransferred = cnt.wordsTransferred
      /\ c.pendingBusWriteResponses = cnt.pendingBusWriteResponses - 1
  <2>1. cnt \in Tracking
    BY <1>5
  <2> QED BY <2>1 DEF Tracking
<1>i. /\ cnt.pendingBusWriteResponses \in Int /\ cnt.wordsTransferred \in Int
      /\ cnt.wordsToBuffer \in Int
  BY <1>5 DEF Tracking
<1> HIDE DEF c
<1>7. p \in Writes /\ ReadsO' = ReadsO
  BY <1>2, InFlightPackets DEF Writes, ReadsO
<1>8. (Programming' <=> Programming) /\ (SawDone' <=> SawDone)
  BY <1>2 DEF Programming, SawDone
<1>9. CASE c.pendingBusWriteResponses # 0
  <2>1. cnt' = c /\ req' = port /\ UNCHANGED <<st, bufferMemory, nextTid>>
    BY <1>3, <1>9
  <2>2. InFlight' \subseteq InFlight
    BY <1>4, <2>1, InFlightPackets
  <2>3. (NoRead' <=> NoRead) /\ (OneRead => OneRead')
    BY <1>4, <1>7, <2>1, PrimedPorts DEF NoRead, OneRead
  <2>4. cnt.pendingBusWriteResponses <= 0 => cnt'.pendingBusWriteResponses <= 0
    BY <1>6, <1>i, <2>1
  <2>5. /\ cnt'.wordsToBuffer = cnt.wordsToBuffer /\ cnt'.bufferIndex = cnt.bufferIndex
        /\ cnt'.wordsTransferred = cnt.wordsTransferred
    BY <1>6, <2>1
  <2>6. /\ Reading => Reading'
        /\ ReadScheduled => ReadScheduled'
        /\ WriteScheduled => WriteScheduled'
        /\ Draining => Draining'
        /\ Idle => Idle'
        /\ LegalBursts'
    BY <1>1, <1>2, <1>3, <2>2, <2>3, <2>4, <2>5, LessTraffic
  <2>7. Transferred' <=> Transferred
    BY <1>3, <2>1, <2>5 DEF Transferred
  <2>8. Phase'
    BY <1>1, <1>8, <2>1, <2>6, <2>7 DEF Phase, Busy
  <2>9. Poll' /\ resp' \in Ports(MmioResponse)
    BY <1>1, <1>2, <2>1, PollKept DEF DriverTyped
  <2>10. RequestsTyped' /\ DriverTyped'
    BY <1>1, <1>2, <1>4, <2>1, <2>9 DEF RequestsTyped, DriverTyped
  <2>11. TransferTyped'
    BY <1>1, <1>2, <1>3, <1>6, <2>1 DEF TransferTyped
  <2> QED BY <2>6, <2>8, <2>9, <2>10, <2>11, TypeSplitNext DEF IInv
<1>10. CASE c.pendingBusWriteResponses = 0
  <2>1. ~ NoCountedWrite
    BY <1>6, <1>7, <1>10, <1>i DEF NoCountedWrite
  <2>2. ~ Programming /\ ~ SawDone /\ ~ st.done /\ Draining
    <3>1. ~ Programming
      BY <1>1, <2>1 DEF Phase, Idle
    <3>2. ~ SawDone
      BY <3>1 DEF Programming, SawDone
    <3>3. ~ st.done /\ Busy
      BY <1>1, <2>1, <3>1 DEF Phase, Idle
    <3> QED BY <2>1, <3>1, <3>2, <3>3 DEF Busy, Reading, ReadScheduled, WriteScheduled
  <2>3. /\ NoReadIn(port) /\ ReadsO = {} /\ events = <<>> /\ Counters
        /\ cnt.wordsToBuffer = cnt.wordsTransferred
    BY <1>4, <2>2 DEF Draining, NoRead
  <2>4. /\ e \in Tracking /\ e.bufferIndex = 0 /\ e.wordsToBuffer = c.wordsToBuffer
        /\ e.wordsTransferred = c.wordsTransferred
        /\ e.pendingBusWriteResponses = c.pendingBusWriteResponses
    BY <1>6 DEF Tracking
  <2> HIDE DEF e
  <2>5. bufferMemory' \in [0 .. BufferCapacity - 1 -> Word]
    <3>1. bufferMemory' = [i \in DOMAIN bufferMemory |->
                             IF i < c.bufferIndex THEN ZeroWord ELSE bufferMemory[i]]
      BY <1>3, <1>10
    <3> QED BY <1>5, <3>1, WordAssumption
  <2>6. ~ Programming' /\ ~ SawDone'
    BY <1>8, <2>2
  <2>7. CASE c.wordsTransferred >= geo.totalWords
    <3>1. Finish(port, e, st)
      BY <1>3, <1>10, <2>7
    <3>2. req' = port /\ cnt' = e /\ nextTid' = nextTid /\ st' = Complete(st)
      BY <3>1 DEF Finish
    <3>3. st' \in Status /\ st'.done = TRUE /\ st'.enabled = FALSE
      <4>1. st \in Status
        BY <1>5
      <4> QED BY <3>2, <4>1 DEF Complete, Status
    <3>4. InFlight' \subseteq InFlight
      BY <1>4, <3>2, InFlightPackets
    <3>5. LegalBursts'
      BY <1>1, <3>4 DEF LegalBursts
    <3>6. Idle'
      <4>1. NoRead'
        BY <1>4, <1>7, <2>3, <3>2, PrimedPorts DEF NoRead
      <4>2. NoCountedWrite'
        BY <1>10, <2>4, <3>2 DEF NoCountedWrite
      <4> QED BY <1>3, <2>3, <4>1, <4>2 DEF Idle
    <3>7. Transferred'
      <4>1. cnt'.wordsTransferred = geo.totalWords /\ cnt'.wordsToBuffer = geo.totalWords
        BY <1>5, <1>6, <1>i, <2>3, <2>4, <2>7, <3>2 DEF Counters
      <4> QED BY <1>3, <3>3, <4>1 DEF Transferred
    <3>8. Phase'
      BY <2>6, <3>3, <3>6, <3>7 DEF Phase
    <3>9. Poll' /\ resp' \in Ports(MmioResponse)
      BY <1>1, <1>2, <3>3, PollKept DEF DriverTyped
    <3>10. RequestsTyped' /\ DriverTyped'
      BY <1>1, <1>2, <1>4, <3>2, <3>9 DEF RequestsTyped, DriverTyped
    <3>11. TransferTyped'
      BY <1>1, <1>2, <1>3, <2>4, <2>5, <3>2, <3>3 DEF TransferTyped
    <3> QED BY <3>5, <3>8, <3>9, <3>10, <3>11, TypeSplitNext DEF IInv
  <2>8. CASE ~ (c.wordsTransferred >= geo.totalWords)
    <3> DEFINE s == [st EXCEPT !.currentState = "READING"]
    <3>1. scheduleReadsForBuffer(port, geo, e, s)
      BY <1>3, <1>10, <2>8
    <3>2. s \in Status /\ s.done = st.done
      <4>1. st \in Status
        BY <1>5
      <4> QED BY <4>1 DEF Status
    <3> HIDE DEF s
    <3>3. e.wordsToBuffer < geo.totalWords /\ e.wordsToBuffer \in Int
      BY <1>5, <1>6, <1>i, <2>3, <2>4, <2>8
    <3>4. Balanced(geo, e) /\ e.bufferIndex < BufferCapacity
      BY <1>5, <1>6, <1>i, <2>3, <2>4, <3>3 DEF Balanced, Counters
    <3>5. MinOf(BufferCapacity - e.bufferIndex, geo.totalWords - e.wordsToBuffer) # 0
      BY <1>5, <2>4, <3>3 DEF MinOf
    <3>6. IssueRead(port, geo, e, s)
      BY <3>1, <3>5 DEF scheduleReadsForBuffer
    <3>7. e.pendingBusWriteResponses <= 0 /\ outstanding' \subseteq outstanding /\ events' = <<>>
      BY <1>3, <1>10, <2>3, <2>4
    <3>8. /\ Reading' /\ LegalBursts' /\ req' \in Ports(Burst) /\ cnt' \in Tracking
          /\ nextTid' \in Nat /\ st' = s
      BY <1>1, <1>2, <1>3, <1>4, <1>5, <2>3, <3>3, <3>4, <3>6, <3>7, StartReading
    <3>9. Phase'
      BY <2>2, <2>6, <3>2, <3>8 DEF Phase, Busy
    <3>10. Poll' /\ resp' \in Ports(MmioResponse)
      BY <1>1, <1>2, <3>2, <3>8, PollKept DEF DriverTyped
    <3>11. RequestsTyped' /\ DriverTyped'
      BY <1>1, <1>2, <3>8, <3>10 DEF RequestsTyped, DriverTyped
    <3>12. TransferTyped'
      BY <1>1, <1>2, <1>3, <2>5, <3>2, <3>8 DEF TransferTyped
    <3> QED BY <3>8, <3>9, <3>10, <3>11, <3>12, TypeSplitNext DEF IInv
  <2> QED BY <2>7, <2>8
<1> QED BY <1>9, <1>10

\* The driver's steps touch neither the transfer nor the bursts.
LEMMA DriverFrame ==
  ASSUME IInv,
         UNCHANGED <<st, srcAddr, dstAddr, dmaSizeCfg, geo, cnt, bufferMemory, events, nextTid,
                     req, outstanding>>
  PROVE  /\ RequestsTyped' /\ TransferTyped' /\ LegalBursts'
         /\ Busy => Busy'
         /\ Idle => Idle'
         /\ Transferred => Transferred'
<1>1. RequestsTyped /\ TransferTyped /\ LegalBursts
  BY TypeSplit DEF IInv
<1>2. /\ InFlight' = InFlight
      /\ NoRead' <=> NoRead
      /\ OneRead => OneRead'
  BY <1>1, SendKeeps DEF RequestsTyped
<1>3. (Busy => Busy') /\ (Idle => Idle') /\ LegalBursts'
  BY <1>1, <1>2, SameTraffic DEF Busy
<1>4. Transferred => Transferred'
  BY DEF Transferred
<1>5. RequestsTyped' /\ TransferTyped'
  BY <1>1 DEF RequestsTyped, TransferTyped
<1> QED BY <1>3, <1>4, <1>5

\* DriverStart preserves the invariant.
LEMMA DriverStartStep == IInv /\ DriverStart => IInv'
<1> SUFFICES ASSUME IInv, DriverStart PROVE IInv'
  OBVIOUS
<1>1. DriverTyped /\ Phase /\ Poll
  BY TypeSplit DEF IInv
<1>2. PICK t \in Transfers : drv' = [pc |-> "src", job |-> t, started |-> drv.started + 1]
  BY DEF DriverStart
<1>3. /\ drv.pc = "idle" /\ drv.started < MaxTransfers
      /\ UNCHANGED <<st, srcAddr, dstAddr, dmaSizeCfg, geo, cnt, bufferMemory, events, nextTid,
                     req, outstanding, resp, mmioReads, mport>>
  BY DEF DriverStart, regs, transfer
<1>4. /\ RequestsTyped' /\ TransferTyped' /\ LegalBursts'
      /\ Idle => Idle'
  BY <1>3, DriverFrame
<1>5. drv'.pc = "src" /\ drv.pc # "poll" /\ drv.pc # "wait"
  BY <1>2, <1>3
<1>6. Programming /\ Programming' /\ ~ SawDone'
  BY <1>5 DEF Programming, SawDone
<1>7. Phase'
  BY <1>1, <1>4, <1>6 DEF Phase
<1>8. Poll'
  BY <1>1, <1>3, <1>5, PrimedPorts DEF Poll
<1>9. DriverTyped'
  <2>1. drv.started \in 0 .. MaxTransfers
    BY <1>1 DEF DriverTyped
  <2>2. drv.started + 1 \in 0 .. MaxTransfers
    BY <1>3, <2>1, MaxTransfersAssumption
  <2>3. drv' \in [pc : DriverPc, job : Transfers, started : 0 .. MaxTransfers]
    BY <1>2, <2>2 DEF DriverPc
  <2> QED BY <1>1, <1>3, <2>3 DEF DriverTyped
<1> QED BY <1>4, <1>7, <1>8, <1>9, TypeSplitNext DEF IInv

\* What the driver writes to the controller, and where it goes from there.
LEMMA DriverRequest ==
  ASSUME DriverTyped, DriverWrite
  PROVE  \E r \in MmioRequest :
           /\ mport' = <<r>> /\ r.kind = "wr"
           /\ \/ drv.pc = "enable" /\ drv'.pc = "poll" /\ r = EnableRequest
              \/ drv.pc = "clear" /\ drv'.pc = "idle" /\ r.reg # "ENABLE"
              \/ /\ drv.pc \in {"src", "dst", "cfg"} /\ drv'.pc \in {"dst", "cfg", "enable"}
                 /\ r.reg # "ENABLE"
<1> DEFINE reg  == CASE drv.pc = "enable" -> "ENABLE"
                     [] drv.pc = "clear"  -> "DONE"
                     [] OTHER             -> DriverProgram[drv.pc]
           data == CASE drv.pc = "enable" -> 1
                     [] drv.pc = "clear"  -> 0
                     [] OTHER             -> drv.job[drv.pc]
           r == [kind |-> "wr", reg |-> reg, data |-> data]
<1>1. /\ drv.pc \in {"src", "dst", "cfg", "enable", "clear"}
      /\ mport' = <<r>>
      /\ drv' = [drv EXCEPT !.pc = AfterWrite[@]]
  BY DEF DriverWrite, AfterWrite
<1>2. /\ drv \in [pc : DriverPc, job : Transfers, started : 0 .. MaxTransfers]
      /\ drv.job \in [src : Nat, dst : Nat, cfg : Nat]
  BY TransfersAssumption DEF DriverTyped
<1>3. drv'.pc = AfterWrite[drv.pc]
  BY <1>1, <1>2
<1>4. CASE drv.pc = "enable"
  <2>1. r = EnableRequest /\ r \in MmioRequest /\ drv'.pc = "poll"
    BY <1>3, <1>4 DEF EnableRequest, MmioRequest, MmioRegister, AfterWrite
  <2> QED BY <1>1, <1>4, <2>1 DEF EnableRequest
<1>5. CASE drv.pc = "clear"
  <2>1. reg = "DONE" /\ data = 0 /\ drv'.pc = "idle"
    BY <1>3, <1>5 DEF AfterWrite
  <2> HIDE DEF reg, data
  <2>2. r \in MmioRequest /\ r.kind = "wr" /\ r.reg # "ENABLE"
    BY <2>1 DEF MmioRequest, MmioRegister
  <2> QED BY <1>1, <1>5, <2>1, <2>2
<1>6. CASE drv.pc \in {"src", "dst", "cfg"}
  <2>1. /\ reg \in {"SOURCE_INFO", "DEST_INFO", "DMA_SIZE_CFG"}
        /\ drv'.pc \in {"dst", "cfg", "enable"}
    BY <1>3, <1>6 DEF AfterWrite, DriverProgram
  <2>2. data \in Nat
    BY <1>2, <1>6
  <2> HIDE DEF reg, data
  <2>3. r \in MmioRequest /\ r.kind = "wr" /\ r.reg # "ENABLE"
    BY <2>1, <2>2 DEF MmioRequest, MmioRegister
  <2> QED BY <1>1, <1>6, <2>1, <2>3
<1> QED BY <1>1, <1>4, <1>5, <1>6

\* DriverWrite preserves the invariant.
LEMMA DriverWriteStep == IInv /\ DriverWrite => IInv'
<1> SUFFICES ASSUME IInv, DriverWrite PROVE IInv'
  OBVIOUS
<1>1. DriverTyped /\ Phase /\ Poll
  BY TypeSplit DEF IInv
<1>2. PICK r \in MmioRequest :
        /\ mport' = <<r>> /\ r.kind = "wr"
        /\ \/ drv.pc = "enable" /\ drv'.pc = "poll" /\ r = EnableRequest
           \/ drv.pc = "clear" /\ drv'.pc = "idle" /\ r.reg # "ENABLE"
           \/ /\ drv.pc \in {"src", "dst", "cfg"} /\ drv'.pc \in {"dst", "cfg", "enable"}
              /\ r.reg # "ENABLE"
  BY <1>1, DriverRequest
<1>3. /\ UNCHANGED <<st, srcAddr, dstAddr, dmaSizeCfg, geo, cnt, bufferMemory, events, nextTid,
                     req, outstanding, resp, mmioReads>>
      /\ drv' = [drv EXCEPT !.pc = AfterWrite[@]]
  BY DEF DriverWrite, regs, transfer
<1>4. /\ RequestsTyped' /\ TransferTyped' /\ LegalBursts'
      /\ Idle => Idle'
      /\ Transferred => Transferred'
  BY <1>3, DriverFrame
<1>5. /\ Len(mport') = 1 /\ mport'[1] = r /\ mport' \in Seq(MmioRequest)
      /\ 1 \in 1 .. Len(mport') /\ \A i \in 1 .. Len(mport') : i = 1
  BY <1>2
<1>d. /\ drv' \in [pc : DriverPc, job : Transfers, started : 0 .. MaxTransfers]
      /\ drv'.started = drv.started
  <2>1. drv \in [pc : DriverPc, job : Transfers, started : 0 .. MaxTransfers]
    BY <1>1 DEF DriverTyped
  <2>2. drv'.pc = AfterWrite[drv.pc] /\ drv'.job = drv.job /\ drv'.started = drv.started
    BY <1>3, <2>1
  <2>3. drv'.pc \in DriverPc
    BY <1>2 DEF DriverPc
  <2> QED BY <1>3, <2>1, <2>2, <2>3
<1>6. Programming /\ Programming' /\ (SawDone' => SawDone)
  <2>1. drv.pc # "poll" /\ drv.pc # "wait"
    BY <1>2
  <2>2. Programming'
    BY <1>2, <1>5 DEF Programming
  <2>3. SawDone' => SawDone
    BY <1>2, <1>d DEF SawDone
  <2> QED BY <2>1, <2>2, <2>3 DEF Programming
<1>7. Phase'
  BY <1>1, <1>4, <1>6 DEF Phase
<1>8. Poll'
  <2>1. drv.pc # "wait" /\ drv'.pc # "wait" /\ (drv'.pc = "poll" <=> r.reg = "ENABLE")
        /\ (drv'.pc = "poll" => r = EnableRequest)
    BY <1>2 DEF EnableRequest
  <2>2. mmioReads = <<>> /\ NoReadIn(resp)
    BY <1>1, <2>1 DEF Poll
  <2>3. NoReadIn(resp)'
    BY <1>3, <2>2, PrimedPorts
  <2>4. \A i \in 1 .. Len(mport') : mport'[i] = r
    BY <1>5
  <2> QED BY <1>1, <1>2, <1>3, <2>1, <2>2, <2>3, <2>4, PrimedPorts DEF Poll
<1>9. DriverTyped'
  BY <1>1, <1>3, <1>5, <1>d DEF DriverTyped
<1> QED BY <1>4, <1>7, <1>8, <1>9, TypeSplitNext DEF IInv

\* DriverPoll preserves the invariant.
LEMMA DriverPollStep == IInv /\ DriverPoll => IInv'
<1> SUFFICES ASSUME IInv, DriverPoll PROVE IInv'
  OBVIOUS
<1>1. DriverTyped /\ Phase /\ Poll
  BY TypeSplit DEF IInv
<1> DEFINE r == [kind |-> "rd", reg |-> "DONE", data |-> 0]
<1>2. r \in MmioRequest /\ r.kind = "rd" /\ r.reg = "DONE"
  BY DEF MmioRequest, MmioRegister
<1>3. /\ UNCHANGED <<st, srcAddr, dstAddr, dmaSizeCfg, geo, cnt, bufferMemory, events, nextTid,
                     req, outstanding, resp, mmioReads>>
      /\ drv.pc = "poll" /\ mport = <<>> /\ mport' = <<r>>
      /\ drv' = [drv EXCEPT !.pc = "wait"]
  BY DEF DriverPoll, regs, transfer
<1> HIDE DEF r
<1>4. /\ RequestsTyped' /\ TransferTyped' /\ LegalBursts'
      /\ Busy => Busy'
      /\ Idle => Idle'
      /\ Transferred => Transferred'
  BY <1>3, DriverFrame
<1>5. /\ Len(mport') = 1 /\ mport'[1] = r /\ mport' \in Seq(MmioRequest)
      /\ 1 \in 1 .. Len(mport') /\ \A i \in 1 .. Len(mport') : i = 1
  BY <1>2, <1>3
<1>d. /\ drv' \in [pc : DriverPc, job : Transfers, started : 0 .. MaxTransfers]
      /\ drv'.pc = "wait"
  <2>1. drv \in [pc : DriverPc, job : Transfers, started : 0 .. MaxTransfers]
    BY <1>1 DEF DriverTyped
  <2> QED BY <1>3, <2>1 DEF DriverPc
<1>6. ~ Programming /\ ~ Programming' /\ ~ SawDone'
  <2>1. 1 .. Len(mport) = {}
    BY <1>3
  <2>2. \A i \in 1 .. Len(mport') : mport'[i].kind # "wr"
    BY <1>2, <1>5
  <2> QED BY <1>3, <1>d, <2>1, <2>2 DEF Programming, SawDone
<1>7. Phase'
  BY <1>1, <1>3, <1>4, <1>6 DEF Phase
<1>8. Poll'
  <2>2. mmioReads = <<>> /\ NoReadIn(resp)
    BY <1>1, <1>3 DEF Poll
  <2>3. NoReadIn(resp)'
    BY <1>3, <2>2, PrimedPorts
  <2>4. \A i \in 1 .. Len(mport') : mport'[i] = r
    BY <1>5
  <2> QED BY <1>1, <1>2, <1>3, <1>d, <2>2, <2>3, <2>4, PrimedPorts DEF Poll
<1>9. DriverTyped'
  BY <1>1, <1>3, <1>5, <1>d DEF DriverTyped
<1> QED BY <1>4, <1>7, <1>8, <1>9, TypeSplitNext DEF IInv

\* The driver taking a response: a write acknowledgement, DONE up, or DONE
\* still down.
LEMMA DriverReceiveStep == IInv /\ DriverReceive => IInv'
<1> SUFFICES ASSUME IInv, DriverReceive PROVE IInv'
  OBVIOUS
<1>1. DriverTyped /\ Phase /\ Poll /\ resp \in Ports(MmioResponse)
  BY TypeSplit DEF IInv, DriverTyped
<1> DEFINE b == resp.reg[1]
<1>2. /\ UNCHANGED <<st, srcAddr, dstAddr, dmaSizeCfg, geo, cnt, bufferMemory, events, nextTid,
                     req, outstanding, mmioReads, mport>>
      /\ resp.reg # <<>> /\ resp' = Forward(resp)
  BY DEF DriverReceive, regs, transfer
<1>3. /\ resp' \in Ports(MmioResponse) /\ b \in MmioResponse
      /\ Packets(resp) = Packets(resp') \cup {b}
      /\ OneReadIn(resp) => OneReadIn(resp')
      /\ b.kind = "rd" => ~ NoReadIn(resp) /\ (OneReadIn(resp) => NoReadIn(resp'))
      /\ b.kind # "rd" => (NoReadIn(resp') <=> NoReadIn(resp))
  BY <1>1, <1>2, ForwardPort
<1>4. /\ RequestsTyped' /\ TransferTyped' /\ LegalBursts'
      /\ Busy => Busy'
      /\ Idle => Idle'
      /\ Transferred => Transferred'
  BY <1>2, DriverFrame
<1>5. /\ OneReadIn(resp)'
      /\ \A p \in Packets(resp)' : p.kind = "rd" /\ p.data = 1 => st'.done
  <2>1. /\ OneReadIn(resp)
        /\ \A p \in Packets(resp) : p.kind = "rd" /\ p.data = 1 => st.done
    BY <1>1 DEF Poll
  <2> QED BY <1>2, <1>3, <2>1, PrimedPorts
<1>t. drv \in [pc : DriverPc, job : Transfers, started : 0 .. MaxTransfers]
  BY <1>1 DEF DriverTyped
<1>6. CASE b.kind = "wr"
  <2>1. drv' = drv
    BY <1>6 DEF DriverReceive
  <2>2. (Programming' <=> Programming) /\ (SawDone' <=> SawDone)
    BY <1>2, <2>1 DEF Programming, SawDone
  <2>3. Phase'
    BY <1>1, <1>2, <1>4, <2>2 DEF Phase
  <2>4. NoReadIn(resp)' <=> NoReadIn(resp)
    BY <1>3, <1>6, PrimedPorts
  <2>5. Poll'
    BY <1>1, <1>2, <1>5, <2>1, <2>4 DEF Poll
  <2>6. DriverTyped'
    BY <1>1, <1>2, <1>3, <2>1 DEF DriverTyped
  <2> QED BY <1>4, <2>3, <2>5, <2>6, TypeSplitNext DEF IInv
<1>7. CASE b.kind = "rd"
  <2>1. drv.pc = "wait" /\ mport = <<>> /\ mmioReads = <<>> /\ OneReadIn(resp) /\ ~ NoReadIn(resp)
    BY <1>1, <1>3, <1>7 DEF Poll
  <2>2. NoReadIn(resp)'
    BY <1>3, <1>7, <2>1, PrimedPorts
  <2>3. 1 .. Len(<<>>) = {} /\ Len(<<>>) <= 1
    OBVIOUS
  <2>4. ~ Programming
    <3>1. 1 .. Len(mport) = {}
      BY <2>1, <2>3
    <3> QED BY <2>1, <3>1 DEF Programming
  <2>5. mport' = <<>> /\ mmioReads' = <<>> /\ 1 .. Len(mport') = {} /\ 1 .. Len(mmioReads') = {}
        /\ Len(mmioReads') <= 1
    BY <1>2, <2>1, <2>3, Zenon
  <2>6. Poll'
    BY <1>5, <2>2, <2>5 DEF Poll
  <2>7. CASE b.data = 1
    <3>1. PICK next \in {"idle", "clear"} : drv' = [drv EXCEPT !.pc = next]
      BY <1>7, <2>7 DEF DriverReceive
    <3>2. /\ drv' \in [pc : DriverPc, job : Transfers, started : 0 .. MaxTransfers]
          /\ drv'.pc \in {"idle", "clear"}
      BY <1>t, <3>1 DEF DriverPc
    <3>3. st.done
      BY <1>1, <1>3, <1>7, <2>7 DEF Poll
    <3>4. Idle' /\ Transferred'
      BY <1>1, <1>4, <2>4, <3>3 DEF Phase
    <3>5. Programming'
      BY <3>2 DEF Programming
    <3>6. Phase'
      BY <3>4, <3>5 DEF Phase
    <3>7. DriverTyped'
      BY <1>1, <1>2, <1>3, <3>2 DEF DriverTyped
    <3> QED BY <1>4, <2>6, <3>6, <3>7, TypeSplitNext DEF IInv
  <2>8. CASE b.data # 1
    <3>1. drv' = [drv EXCEPT !.pc = "poll"]
      BY <1>7, <2>8 DEF DriverReceive
    <3>2. /\ drv' \in [pc : DriverPc, job : Transfers, started : 0 .. MaxTransfers]
          /\ drv'.pc = "poll"
      BY <1>t, <3>1 DEF DriverPc
    <3>3. ~ Programming' /\ ~ SawDone'
      BY <2>5, <3>2 DEF Programming, SawDone
    <3>4. Phase'
      BY <1>1, <1>2, <1>4, <2>4, <3>3 DEF Phase
    <3>7. DriverTyped'
      BY <1>1, <1>2, <1>3, <3>2 DEF DriverTyped
    <3> QED BY <1>4, <2>6, <3>4, <3>7, TypeSplitNext DEF IInv
  <2> QED BY <2>7, <2>8
<1> QED BY <1>3, <1>6, <1>7 DEF MmioResponse

-----------------------------------------------------------------------------
(* The theorems.                                                           *)

\* The invariant holds initially, whatever the uninitialised members hold.
LEMMA InitInvariant == Init => IInv
<1> SUFFICES ASSUME Init PROVE IInv
  OBVIOUS
<1>1. /\ req = EmptyPort /\ resp = EmptyPort /\ events = <<>> /\ mmioReads = <<>>
      /\ mport = <<>> /\ outstanding = {} /\ nextTid = 0
      /\ drv = [pc |-> "idle", job |-> CHOOSE t \in Transfers : TRUE, started |-> 0]
      /\ srcAddr = 0 /\ dstAddr = 0 /\ dmaSizeCfg = 0 /\ geo = Decode(0)
      /\ st \in Status
      /\ bufferMemory = [i \in 0 .. BufferCapacity - 1 |-> ZeroWord]
  BY DEF Init, Status
<1>2. cnt \in Tracking
  <2>1. PICK n \in Garbage :
          cnt = [wordsToBuffer |-> n, wordsTransferred |-> n, bufferIndex |-> n,
                 pendingBusReadResponses |-> n, pendingBusWriteResponses |-> n]
    BY DEF Init
  <2>2. n \in Int
    BY GarbageAssumption
  <2> QED BY <2>1, <2>2 DEF Tracking
<1>3. /\ EmptyPort \in Ports(Burst) /\ EmptyPort \in Ports(MmioResponse)
      /\ Packets(EmptyPort) = {} /\ NoReadIn(EmptyPort) /\ OneReadIn(EmptyPort)
  <2>1. EmptyPort.reg = <<>> /\ EmptyPort.q = <<>>
    BY DEF EmptyPort
  <2>2. EmptyPort \in Ports(Burst) /\ EmptyPort \in Ports(MmioResponse)
    <3>1. /\ <<>> \in Seq(Burst) /\ <<>> \in Seq(MmioResponse) /\ Len(<<>>) <= 1
      OBVIOUS
    <3> QED BY <3>1, PortOf DEF EmptyPort
  <2>3. ReadsQ(EmptyPort) = {} /\ ReadsR(EmptyPort) = {}
    BY <2>1, EmptySeq DEF ReadsQ, ReadsR
  <2> QED BY <2>1, <2>2, <2>3, EmptySeq DEF Packets, NoReadIn, OneReadIn
<1>4. RequestsTyped
  BY <1>1, <1>3 DEF RequestsTyped
<1>5. TransferTyped
  <2>1. Decode(0) \in Geometry
    BY DecodeType
  <2>2. <<>> \in Seq(EventName)
    OBVIOUS
  <2>3. bufferMemory \in [0 .. BufferCapacity - 1 -> Word]
    BY <1>1, WordAssumption
  <2> QED BY <1>1, <1>2, <2>1, <2>2, <2>3 DEF TransferTyped
<1>6. DriverTyped
  <2>1. <<>> \in Seq(MmioRequest) /\ Len(<<>>) <= 1
    OBVIOUS
  <2>2. (CHOOSE t \in Transfers : TRUE) \in Transfers
    BY TransfersAssumption
  <2>3. drv \in [pc : DriverPc, job : Transfers, started : 0 .. MaxTransfers]
    BY <1>1, <2>2, MaxTransfersAssumption DEF DriverPc
  <2> QED BY <1>1, <1>3, <2>1, <2>3 DEF DriverTyped
<1>7. InFlight = {}
  BY <1>1, <1>3, InFlightPackets
<1>8. LegalBursts /\ Writes = {}
  BY <1>7 DEF LegalBursts, Writes
<1>9. Idle
  BY <1>1, <1>3, <1>8 DEF Idle, NoRead, ReadsO, NoCountedWrite
<1>10. Phase
  <2>1. drv.pc = "idle" /\ drv.started = 0
    BY <1>1
  <2>2. Programming /\ ~ SawDone
    BY <2>1 DEF Programming, SawDone
  <2> QED BY <1>9, <2>2 DEF Phase
<1>11. Poll
  <2>1. 1 .. Len(<<>>) = {} /\ Len(<<>>) <= 1
    OBVIOUS
  <2>2. 1 .. Len(mport) = {} /\ 1 .. Len(mmioReads) = {} /\ Len(mmioReads) <= 1
    BY <1>1, <2>1
  <2> QED BY <1>1, <1>3, <2>2 DEF Poll
<1> QED BY <1>4, <1>5, <1>6, <1>8, <1>10, <1>11, TypeSplit DEF IInv

\* Stuttering preserves the invariant.
LEMMA StutterStep == IInv /\ UNCHANGED vars => IInv'
<1> SUFFICES ASSUME IInv, UNCHANGED vars PROVE IInv'
  OBVIOUS
<1>1. DriverTyped /\ Phase /\ Poll
  BY TypeSplit DEF IInv
<1>2. UNCHANGED <<st, srcAddr, dstAddr, dmaSizeCfg, geo, cnt, bufferMemory, events, nextTid,
                  req, outstanding, resp, mmioReads, drv, mport>>
  BY DEF vars, regs, transfer, driver
<1>3. /\ RequestsTyped' /\ TransferTyped' /\ LegalBursts'
      /\ Busy => Busy'
      /\ Idle => Idle'
      /\ Transferred => Transferred'
  BY <1>2, DriverFrame
<1>4. (Programming' <=> Programming) /\ (SawDone' <=> SawDone)
  BY <1>2 DEF Programming, SawDone
<1>5. Phase'
  BY <1>1, <1>2, <1>3, <1>4 DEF Phase
<1>6. Poll'
  BY <1>1, <1>2, PollKept DEF DriverTyped
<1>7. DriverTyped'
  BY <1>1, <1>2 DEF DriverTyped
<1> QED BY <1>3, <1>5, <1>6, <1>7, TypeSplitNext DEF IInv

\* The inductive invariant holds in every reachable state of the controller,
\* whatever the transfers, the buffer capacity and the order of responses.
THEOREM Invariance == Spec => []IInv
<1>1. Init => IInv
  BY InitInvariant
<1>2. IInv /\ [Next]_vars => IInv'
  <2> SUFFICES ASSUME IInv, [Next]_vars PROVE IInv'
    OBVIOUS
  <2>1. CASE Driver
    BY <2>1, DriverStartStep, DriverWriteStep, DriverPollStep, DriverReceiveStep DEF Driver
  <2>2. CASE Controller
    BY <2>2, TrySendStep, StepMmioReadStep, StepMmioWriteStep, ReadMmioStep, ReadsEventStep,
       WritesEventStep DEF Controller
  <2>3. CASE Bus
    BY <2>3, BusAcceptStep, BusReadResponseStep, BusWriteResponseStep DEF Bus
  <2>4. CASE UNCHANGED vars
    BY <2>4, StutterStep
  <2> QED BY <2>1, <2>2, <2>3, <2>4 DEF Next
<1> QED BY <1>1, <1>2, PTL DEF Spec

\* Type correctness: the fields, counters and queues of DMA.hh hold what the
\* handlers expect, and each pipe register at most one packet.
THEOREM TypeCorrect == Spec => []TypeOK
<1>1. IInv => TypeOK
  BY DEF IInv
<1> QED BY <1>1, Invariance, PTL

\* Every burst DMA.cc sends has a length of 1, 2 or 4 beats.
THEOREM BurstsLegal == Spec => []LegalBursts
<1>1. IInv => LegalBursts
  BY DEF IInv
<1> QED BY <1>1, Invariance, PTL

\* DMA.cc never has two read bursts or events in flight, nor one of each.
THEOREM OneFetch == Spec => []SingleFetch
<1>1. IInv => SingleFetch
  <2> SUFFICES ASSUME IInv PROVE SingleFetch
    OBVIOUS
  <2>1. RequestsTyped /\ Phase /\ req \in Ports(Burst)
    BY TypeSplit DEF IInv, RequestsTyped
  <2>2. Idle \/ Busy
    BY <2>1 DEF Phase
  <2>3. Len(<<>>) <= 1 /\ Len(<<"scheduleReadsForBuffer">>) <= 1
        /\ Len(<<"scheduleWritesFromBuffer">>) <= 1
    OBVIOUS
  <2>4. CASE NoRead
    <3>1. Reads = {}
      BY <2>1, <2>4, NoReadReads
    <3>2. Len(events) <= 1
      BY <2>2, <2>3 DEF Busy, Idle, Reading, ReadScheduled, WriteScheduled, Draining
    <3> QED BY <3>1, <3>2 DEF SingleFetch
  <2>5. CASE ~ NoRead
    <3>1. Reading
      BY <2>2, <2>5 DEF Busy, Idle, ReadScheduled, WriteScheduled, Draining
    <3>2. OneRead /\ events = <<>>
      BY <3>1 DEF Reading
    <3>3. ASSUME NEW p \in Reads, NEW q \in Reads PROVE p = q
      BY <2>1, <3>2, OneReadOnly
    <3> QED BY <2>3, <3>2, <3>3 DEF SingleFetch
  <2> QED BY <2>4, <2>5
<1> QED BY <1>1, Invariance, PTL

\* The answer of the read burst in flight fits the buffer and the transfer,
\* and brings the words that belong there.
THEOREM ReadsFit == Spec => []ReadFits
<1>1. IInv => ReadFits
  <2> SUFFICES ASSUME IInv PROVE ReadFits
    OBVIOUS
  <2>1. RequestsTyped /\ Phase /\ req \in Ports(Burst)
    BY TypeSplit DEF IInv, RequestsTyped
  <2>2. Idle \/ Busy
    BY <2>1 DEF Phase
  <2>3. CASE NoRead
    <3>1. Reads = {}
      BY <2>1, <2>3, NoReadReads
    <3> QED BY <3>1 DEF ReadFits
  <2>4. CASE ~ NoRead
    BY <2>2, <2>4 DEF Busy, Idle, Reading, ReadScheduled, WriteScheduled, Draining
  <2> QED BY <2>3, <2>4
<1> QED BY <1>1, Invariance, PTL

\* When a poll of DONE returns 1 the transfer has been read completely and
\* handed to the bus, and the controller is at rest.
THEOREM DoneIssued == Spec => []DoneMeansIssued
<1>1. IInv => DoneMeansIssued
  <2> SUFFICES ASSUME IInv, SawDone PROVE DoneMeansIssued
    BY DEF DoneMeansIssued
  <2>1. RequestsTyped /\ Phase /\ req \in Ports(Burst)
    BY TypeSplit DEF IInv, RequestsTyped
  <2>2. Programming
    BY DEF SawDone, Programming
  <2>3. Idle /\ Transferred
    BY <2>1, <2>2 DEF Phase
  <2>4. Reads = {}
    BY <2>1, <2>3, NoReadReads DEF Idle
  <2> QED BY <2>3, <2>4 DEF DoneMeansIssued, Idle, Transferred
<1> QED BY <1>1, Invariance, PTL

=============================================================================
