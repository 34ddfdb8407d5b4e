--------------------------- MODULE PipelineProofs ---------------------------
(***************************************************************************)
(* Proofs about Pipeline, for any streams, any number of packet objects    *)
(* and any memory access time: WB takes the instructions in order, no push *)
(* fails, and without memory accesses ID keeps dependent instructions      *)
(* apart, whatever the pictures of the stages have become.                 *)
(***************************************************************************)
EXTENDS Pipeline, SequenceTheorems, TLAPS

-----------------------------------------------------------------------------
(* The inductive invariant.                                                *)

RegNames == {"IF2ID", "ID2EXE", "EXE2MEM", "MEM2WB"}

Pointers == Objects \cup {nullptr}

Typed ==
  /\ stream \in Streams /\ issued \in Nat
  /\ pendingInstPacket \in Pointers
  /\ packet \in [Objects -> Instructions]
  /\ free \subseteq Objects
  /\ port \in [m : Seq(Objects), s : Seq(Objects)] /\ Len(port.m) <= 1 /\ Len(port.s) <= 1
  /\ reg \in [RegNames -> Seq(Objects)]
  /\ retired \in Seq(Instructions)

\* What moves on in a tick stays within the two sides of a register.
Bounded == \A r \in RegNames : Len(reg[r]) <= 2

\* The place in the stream that the packets of each register, and of each
\* side of the port, follow: retired, MEM2WB, EXE2MEM, ID2EXE, IF2ID, port.
P1 == Len(retired)
P2 == P1 + Len(reg["MEM2WB"])
P3 == P2 + Len(reg["EXE2MEM"])
P4 == P3 + Len(reg["ID2EXE"])
P5 == P4 + Len(reg["IF2ID"])
P6 == P5 + Len(port.s)
P7 == P6 + Len(port.m)

\* The packets of s are those of the instructions b + 1, b + 2, ...
At(s, g, b) == \A k \in 1 .. Len(s) : s[k] = g[b + k]

\* g gives the packet of each instruction that was executed and not retired:
\* none is shared, none is free, all still hold their instruction.
Carries(g) ==
  /\ \A n \in P1 + 1 .. issued : /\ g[n] \in Objects /\ g[n] \notin free
                                 /\ packet[g[n]] = stream[n]
  /\ \A m, n \in P1 + 1 .. issued : g[m] = g[n] => m = n

\* They stand in line, the oldest in front of WB.
Line(g) ==
  /\ At(reg["MEM2WB"], g, P1) /\ At(reg["EXE2MEM"], g, P2) /\ At(reg["ID2EXE"], g, P3)
  /\ At(reg["IF2ID"], g, P4) /\ At(port.s, g, P5) /\ At(port.m, g, P6)
  /\ pendingInstPacket # nullptr => pendingInstPacket = g[P7 + 1]
  /\ issued = P7 + (IF pendingInstPacket = nullptr THEN 0 ELSE 1)

InLine == \E g \in [Nat -> Pointers] : Carries(g) /\ Line(g)

\* The CPU goes on only when its last packet was accepted and was not HCF.
Control ==
  /\ issued <= Len(stream)
  /\ event => pendingInstPacket = nullptr /\ issued < Len(stream)

IInv == Typed /\ Bounded /\ InLine /\ Control /\ InOrder

-----------------------------------------------------------------------------
(* Sequences.                                                              *)

\* A register from which x packets were taken and to which y were added.
Flows(s, n, g, b, x, y, p) ==
  /\ s \in Seq(Objects) /\ b \in Nat /\ At(s, g, b)
  /\ x \in {0, 1} /\ y \in {0, 1}
  /\ x = 1 => s # <<>>
  /\ y = 1 => p \in Objects /\ p = g[b + Len(s) + 1]
  /\ n = (IF x = 1 THEN Tail(s) ELSE s) \o (IF y = 1 THEN <<p>> ELSE <<>>)

LEMMA Flow ==
  ASSUME NEW s, NEW n, NEW g, NEW b, NEW x, NEW y, NEW p, Flows(s, n, g, b, x, y, p)
  PROVE  /\ n \in Seq(Objects)
         /\ Len(n) = Len(s) - x + y
         /\ At(n, g, b + x)
<1>0. /\ s \in Seq(Objects) /\ b \in Nat /\ At(s, g, b)
      /\ x \in {0, 1} /\ y \in {0, 1} /\ (x = 1 => s # <<>>)
  BY DEF Flows
<1> DEFINE t == IF x = 1 THEN Tail(s) ELSE s
<1>1. Len(s) \in Nat
  BY <1>0
<1>2. /\ t \in Seq(Objects) /\ Len(t) = Len(s) - x /\ Len(t) \in Nat
      /\ \A k \in 1 .. Len(t) : t[k] = s[k + x]
  <2>1. CASE x = 1
    BY <2>1, <1>0
  <2>2. CASE x = 0
    BY <2>2, <1>0
  <2> QED BY <2>1, <2>2, <1>0
<1> HIDE DEF t
<1>3. ASSUME NEW k \in 1 .. Len(t) PROVE t[k] = g[b + x + k]
  <2>1. k + x \in 1 .. Len(s) /\ b + (k + x) = b + x + k
    BY <1>0, <1>1, <1>2
  <2>2. t[k] = g[b + (k + x)]
    BY <1>0, <1>2, <2>1 DEF At
  <2> QED BY <2>1, <2>2
<1>4. CASE y = 0
  <2>1. n = t
    BY <1>2, <1>4 DEF t, Flows
  <2>2. Len(n) = Len(s) - x + y
    BY <2>1, <1>0, <1>1, <1>2, <1>4
  <2> QED BY <2>1, <2>2, <1>2, <1>3 DEF At
<1>5. CASE y = 1
  <2>1. n = t \o <<p>>
    BY <1>5 DEF t, Flows
  <2>2. /\ n \in Seq(Objects) /\ Len(n) = Len(t) + 1 /\ n[Len(t) + 1] = p
        /\ \A k \in 1 .. Len(t) : n[k] = t[k]
    <3>1. p \in Objects
      BY <1>5 DEF Flows
    <3>2. n = Append(t, p)
      BY <2>1, <3>1, <1>2, AppendIsConcat
    <3>3. /\ Append(t, p) \in Seq(Objects) /\ Len(Append(t, p)) = Len(t) + 1
          /\ Append(t, p)[Len(t) + 1] = p
          /\ \A k \in 1 .. Len(t) : Append(t, p)[k] = t[k]
      BY <3>1, <1>2, AppendProperties
    <3> QED BY <3>2, <3>3, Zenon
  <2>3. b + Len(s) + 1 = b + x + (Len(t) + 1)
    BY <1>0, <1>1, <1>2
  <2>4. ASSUME NEW k \in 1 .. Len(n) PROVE n[k] = g[b + x + k]
    <3>1. CASE k = Len(t) + 1
      BY <3>1, <2>2, <2>3, <1>5 DEF Flows
    <3>2. CASE k \in 1 .. Len(t)
      BY <3>2, <2>2, <1>3
    <3>3. k = Len(t) + 1 \/ k \in 1 .. Len(t)
      <4> DEFINE m == Len(t)
      <4>1. m \in Nat /\ k \in 1 .. m + 1
        BY <2>2, <1>2
      <4> HIDE DEF m
      <4>2. k = m + 1 \/ k \in 1 .. m
        BY <4>1
      <4> QED BY <4>2 DEF m
    <3> QED BY <3>1, <3>2, <3>3
  <2>5. Len(n) = Len(s) - x + y
    BY <2>2, <1>0, <1>1, <1>2, <1>5
  <2> QED BY <2>2, <2>4, <2>5 DEF At
<1> QED BY <1>0, <1>4, <1>5

\* The next instruction makes a longer prefix.
LEMMA Prefix ==
  ASSUME NEW s \in Seq(Instructions), NEW r, NEW n \in Nat, n < Len(s),
         r = SubSeq(s, 1, n)
  PROVE  Append(r, s[n + 1]) = SubSeq(s, 1, n + 1)
<1> DEFINE a == Append(r, s[n + 1])
           b == SubSeq(s, 1, n + 1)
<1>1. r \in Seq(Instructions) /\ Len(r) = n /\ \A k \in 1 .. n : r[k] = s[k]
  OBVIOUS
<1>2. a \in Seq(Instructions) /\ Len(a) = n + 1 /\ \A k \in 1 .. n + 1 : a[k] = s[k]
  BY <1>1
<1>3. b \in Seq(Instructions) /\ Len(b) = n + 1 /\ \A k \in 1 .. n + 1 : b[k] = s[k]
  OBVIOUS
<1> HIDE DEF a, b
<1>4. a = b
  BY <1>2, <1>3
<1> QED BY <1>4 DEF a, b

\* The packet a stage looks at.
LEMMA FirstOf ==
  ASSUME NEW s \in Seq(Objects)
  PROVE  /\ First(s) # nullptr <=> s # <<>>
         /\ First(s) \in Pointers
         /\ s # <<>> => First(s) = s[1] /\ First(s) \in Objects /\ Len(s) \in Nat /\ Len(s) >= 1
<1>1. nullptr \notin Objects
  BY PipelineAssumption DEF nullptr
<1>2. s # <<>> => Head(s) = s[1] /\ s[1] \in Objects /\ Len(s) \in Nat /\ Len(s) >= 1
  OBVIOUS
<1> QED BY <1>1, <1>2 DEF First, Pointers

LEMMA Places ==
  ASSUME Typed
  PROVE  /\ P1 \in Nat /\ P2 \in Nat /\ P3 \in Nat /\ P4 \in Nat /\ P5 \in Nat /\ P6 \in Nat /\ P7 \in Nat
         /\ P1 <= P2 /\ P2 <= P3 /\ P3 <= P4 /\ P4 <= P5 /\ P5 <= P6 /\ P6 <= P7
         /\ P2 = P1 + Len(reg["MEM2WB"]) /\ P3 = P2 + Len(reg["EXE2MEM"])
         /\ P4 = P3 + Len(reg["ID2EXE"]) /\ P5 = P4 + Len(reg["IF2ID"])
         /\ P6 = P5 + Len(port.s) /\ P7 = P6 + Len(port.m)
         /\ \A r \in RegNames : reg[r] \in Seq(Objects) /\ Len(reg[r]) \in Nat
         /\ port.s \in Seq(Objects) /\ port.m \in Seq(Objects)
         /\ Len(port.s) \in Nat /\ Len(port.m) \in Nat
<1>1. \A r \in RegNames : reg[r] \in Seq(Objects) /\ Len(reg[r]) \in Nat
  BY DEF Typed
<1>2. /\ port.s \in Seq(Objects) /\ port.m \in Seq(Objects)
      /\ Len(port.s) \in Nat /\ Len(port.m) \in Nat /\ Len(retired) \in Nat
  BY DEF Typed
<1>3. /\ Len(reg["MEM2WB"]) \in Nat /\ Len(reg["EXE2MEM"]) \in Nat
      /\ Len(reg["ID2EXE"]) \in Nat /\ Len(reg["IF2ID"]) \in Nat
  BY <1>1 DEF RegNames
<1>4. P1 \in Nat
  BY <1>2 DEF P1
<1>5. P2 \in Nat /\ P1 <= P2
  BY <1>4, <1>3 DEF P2
<1>6. P3 \in Nat /\ P2 <= P3
  BY <1>5, <1>3 DEF P3
<1>7. P4 \in Nat /\ P3 <= P4
  BY <1>6, <1>3 DEF P4
<1>8. P5 \in Nat /\ P4 <= P5
  BY <1>7, <1>3 DEF P5
<1>9. P6 \in Nat /\ P5 <= P6
  BY <1>8, <1>2 DEF P6
<1>10. P7 \in Nat /\ P6 <= P7
  BY <1>9, <1>2 DEF P7
<1> QED
  BY <1>1, <1>2, <1>4, <1>5, <1>6, <1>7, <1>8, <1>9, <1>10 DEF P2, P3, P4, P5, P6, P7

\* The instructions behind the last one do not matter to what is in line.
LEMMA AtExcept ==
  ASSUME NEW s \in Seq(Objects), NEW g \in [Nat -> Pointers], NEW b \in Nat, NEW n \in Nat,
         At(s, g, b), NEW e \in Nat, e = b + Len(s), e <= n, NEW p
  PROVE  At(s, [g EXCEPT ![n + 1] = p], b)
<1> DEFINE h == [g EXCEPT ![n + 1] = p]
<1> SUFFICES ASSUME NEW k \in 1 .. Len(s) PROVE s[k] = h[b + k]
  BY DEF At
<1>1. Len(s) \in Nat
  OBVIOUS
<1>2. b + k \in Nat /\ b + k # n + 1
  BY <1>1
<1> QED BY <1>2 DEF At

-----------------------------------------------------------------------------
(* The CPU and its port.                                                   *)

\* The last instruction is the only HCF.
LEMMA HcfIsLast ==
  ASSUME Typed, NEW n \in 1 .. Len(stream), stream[n].op # "HCF"
  PROVE  n < Len(stream)
<1>1. stream \in Streams /\ stream \in Seq(Instructions)
  BY PipelineAssumption DEF Typed
<1>2. n # Len(stream)
  BY <1>1, PipelineAssumption
<1>3. Len(stream) \in Nat
  BY <1>1
<1> QED BY <1>2, <1>3

LEMMA ExecKeepsInv ==
  ASSUME IInv, execOneInstr
  PROVE  IInv'
<1>0. PICK i \in Nat : i = issued + 1
  BY DEF IInv, Typed
<1>1. /\ event /\ issued' = i
      /\ UNCHANGED <<stream, reg, stages, retired>>
  BY <1>0 DEF execOneInstr
<1>2. PICK p \in acquire :
        /\ packet' = [packet EXCEPT ![p] = stream[i]]
        /\ free' = free \ {p}
        /\ commitInstr(p, stream[i].op)
  BY <1>0 DEF execOneInstr
<1>3. Typed /\ Control /\ InLine /\ Bounded /\ InOrder
  BY DEF IInv
<1>4. p \in free /\ p \in Objects /\ p # nullptr
  BY <1>3, PipelineAssumption DEF acquire, Typed, nullptr
<1>5. pendingInstPacket = nullptr /\ issued \in Nat /\ issued < Len(stream)
  BY <1>1, <1>3 DEF Control, Typed
<1>6. stream \in Seq(Instructions) /\ Len(stream) \in Nat
  BY <1>3, PipelineAssumption DEF Typed
<1>7. i \in 1 .. Len(stream) /\ stream[i] \in Instructions
  BY <1>0, <1>5, <1>6
<1>8. packet' \in [Objects -> Instructions] /\ packet'[p] = stream[i]
      /\ \A q \in Objects \ {p} : packet'[q] = packet[q]
  BY <1>2, <1>3, <1>4, <1>7 DEF Typed
<1>9. PICK g \in [Nat -> Pointers] : Carries(g) /\ Line(g)
  BY <1>3 DEF InLine
<1>10. PICK h \in [Nat -> Pointers] :
         h = [g EXCEPT ![i] = p] /\ h[i] = p /\ \A n \in Nat : n # i => h[n] = g[n]
  <2> DEFINE H == [g EXCEPT ![i] = p]
  <2>1. H \in [Nat -> Pointers] /\ H[i] = p /\ \A n \in Nat : n # i => H[n] = g[n]
    BY <1>4 DEF Pointers
  <2> QED BY <2>1
<1>11. /\ P1 \in Nat /\ P1 <= issued /\ issued = P7
       /\ UNCHANGED <<P1, P2, P3, P4, P5>>
  <2>1. issued = P7
    BY <1>5, <1>9, <1>3, Places DEF Line
  <2>2. P1 \in Nat /\ P1 <= P7
    BY <1>3, Places
  <2>3. UNCHANGED <<P1, P2, P3, P4, P5>>
    BY <1>1 DEF P1, P2, P3, P4, P5
  <2> QED BY <2>1, <2>2, <2>3
<1>12. Carries(h)'
  <2>1. ASSUME NEW n \in P1 + 1 .. i
        PROVE  h[n] \in Objects /\ h[n] \notin free' /\ packet'[h[n]] = stream[n]
    <3>1. CASE n = i
      BY <3>1, <1>2, <1>4, <1>8, <1>10
    <3>2. CASE n # i
      <4>1. n \in P1 + 1 .. issued /\ n \in Nat
        BY <3>2, <1>0, <1>5, <1>11
      <4>2. g[n] \in Objects /\ g[n] \notin free /\ packet[g[n]] = stream[n]
        BY <4>1, <1>9 DEF Carries
      <4> QED BY <3>2, <4>1, <4>2, <1>2, <1>4, <1>8, <1>10
    <3> QED BY <3>1, <3>2
  <2>2. ASSUME NEW m \in P1 + 1 .. i, NEW n \in P1 + 1 .. i, h[m] = h[n]
        PROVE  m = n
    <3>1. ASSUME NEW k \in P1 + 1 .. i, k # i
          PROVE  k \in P1 + 1 .. issued /\ h[k] = g[k] /\ g[k] # p
      <4>1. k \in P1 + 1 .. issued /\ k \in Nat
        BY <3>1, <1>0, <1>5, <1>11
      <4> QED BY <3>1, <4>1, <1>4, <1>9, <1>10 DEF Carries
    <3>2. \A j, k \in P1 + 1 .. issued : g[j] = g[k] => j = k
      BY <1>9 DEF Carries
    <3> QED BY <2>2, <3>1, <3>2, <1>10
  <2> QED BY <2>1, <2>2, <1>1, <1>11 DEF Carries
<1>13. /\ At(reg["MEM2WB"], h, P1) /\ At(reg["EXE2MEM"], h, P2) /\ At(reg["ID2EXE"], h, P3)
       /\ At(reg["IF2ID"], h, P4) /\ At(port.s, h, P5) /\ At(port.m, h, P6)
  <2>1. /\ At(reg["MEM2WB"], g, P1) /\ At(reg["EXE2MEM"], g, P2) /\ At(reg["ID2EXE"], g, P3)
        /\ At(reg["IF2ID"], g, P4) /\ At(port.s, g, P5) /\ At(port.m, g, P6)
    BY <1>9 DEF Line
  <2>2. \A r \in RegNames : reg[r] \in Seq(Objects)
    BY <1>3, Places
  <2>3. /\ P2 <= issued /\ P3 <= issued /\ P4 <= issued /\ P5 <= issued /\ P6 <= issued /\ P7 <= issued
        /\ P1 \in Nat /\ P2 \in Nat /\ P3 \in Nat /\ P4 \in Nat /\ P5 \in Nat /\ P6 \in Nat /\ P7 \in Nat
    <3>1. /\ P1 \in Nat /\ P2 \in Nat /\ P3 \in Nat /\ P4 \in Nat /\ P5 \in Nat /\ P6 \in Nat /\ P7 \in Nat
          /\ P2 <= P3 /\ P3 <= P4 /\ P4 <= P5 /\ P5 <= P6 /\ P6 <= P7
      BY <1>3, Places
    <3> QED BY <3>1, <1>5, <1>11
  <2> QED BY <2>1, <2>2, <2>3, <1>0, <1>3, <1>5, <1>10, Places, AtExcept DEF RegNames
<1>14. CASE port.m = <<>>
  <2>1. /\ port' = [port EXCEPT !.m = <<p>>] /\ pendingInstPacket' = nullptr
        /\ event' = (stream[i].op # "HCF")
    BY <1>2, <1>14 DEF commitInstr, Sent
  <2>2. port'.m = <<p>> /\ port'.s = port.s /\ port' \in [m : Seq(Objects), s : Seq(Objects)]
    <3> DEFINE one == <<p>>
    <3>1. one \in Seq(Objects) /\ Len(one) = 1
      BY <1>4
    <3>2. port \in [m : Seq(Objects), s : Seq(Objects)] /\ port' = [port EXCEPT !.m = one]
      BY <2>1, <1>3 DEF Typed
    <3> HIDE DEF one
    <3>3. port'.m = one /\ port'.s = port.s /\ port' \in [m : Seq(Objects), s : Seq(Objects)]
      BY <3>1, <3>2
    <3> QED BY <3>3 DEF one
  <2>3. Typed'
    BY <2>1, <2>2, <1>1, <1>2, <1>3, <1>5, <1>8 DEF Typed, Pointers
  <2>4. UNCHANGED P6 /\ P7' = i /\ P6 = issued
    <3>1. P6 = issued
      BY <1>3, <1>11, <1>14, Places
    <3>2. UNCHANGED P6
      BY <2>2, <1>11 DEF P6
    <3>3. P7' = issued + 1
      BY <3>1, <3>2, <2>2, <1>5 DEF P7
    <3> QED BY <3>1, <3>2, <3>3, <1>0
  <2>5. Line(h)'
    <3>1. At(<<p>>, h, issued)
      BY <1>0, <1>10 DEF At
    <3>2. /\ At(reg["MEM2WB"], h, P1)' /\ At(reg["EXE2MEM"], h, P2)' /\ At(reg["ID2EXE"], h, P3)'
          /\ At(reg["IF2ID"], h, P4)' /\ At(port.s, h, P5)' /\ At(port.m, h, P6)'
      BY <3>1, <2>2, <2>4, <1>1, <1>11, <1>13 DEF At
    <3> QED BY <3>2, <2>1, <2>4, <1>1, <1>5 DEF Line
  <2>6. Control'
    <3>1. event' => i < Len(stream)
      BY <2>1, <1>3, <1>7, HcfIsLast
    <3>2. i <= Len(stream)
      BY <1>6, <1>7
    <3> QED BY <3>1, <3>2, <2>1, <1>1 DEF Control
  <2>7. InLine'
    BY <2>5, <1>10, <1>12 DEF InLine
  <2> QED BY <2>3, <2>6, <2>7, <1>1, <1>3 DEF IInv, Bounded, InOrder
<1>15. CASE port.m # <<>>
  <2>1. UNCHANGED port /\ pendingInstPacket' = p /\ event' = FALSE
    BY <1>2, <1>15 DEF commitInstr, Refused
  <2>2. Typed'
    BY <2>1, <1>1, <1>2, <1>3, <1>4, <1>5, <1>8 DEF Typed, Pointers
  <2>3. UNCHANGED <<P6, P7>>
    BY <2>1, <1>11 DEF P6, P7
  <2>4. Line(h)'
    <3>1. /\ At(reg["MEM2WB"], h, P1)' /\ At(reg["EXE2MEM"], h, P2)' /\ At(reg["ID2EXE"], h, P3)'
          /\ At(reg["IF2ID"], h, P4)' /\ At(port.s, h, P5)' /\ At(port.m, h, P6)'
      BY <2>1, <2>3, <1>1, <1>11, <1>13 DEF At
    <3> QED BY <3>1, <2>1, <2>3, <1>0, <1>1, <1>4, <1>5, <1>10, <1>11 DEF Line
  <2>5. Control'
    BY <2>1, <1>1, <1>5, <1>7 DEF Control
  <2>6. InLine'
    BY <2>4, <1>10, <1>12 DEF InLine
  <2> QED BY <2>2, <2>5, <2>6, <1>1, <1>3 DEF IInv, Bounded, InOrder
<1> QED BY <1>14, <1>15

LEMMA RetryKeepsInv ==
  ASSUME IInv, retrySendInstPacket
  PROVE  IInv'
<1>1. PICK p : p = pendingInstPacket
  OBVIOUS
<1>2. /\ p # nullptr /\ port.m = <<>> /\ port' = [port EXCEPT !.m = <<p>>]
      /\ pendingInstPacket' = nullptr /\ event' = (packet[p].op # "HCF")
      /\ UNCHANGED <<stream, issued, packet, free, reg, stages, retired>>
  BY <1>1 DEF retrySendInstPacket, Sent
<1>3. Typed /\ Control /\ InLine /\ Bounded /\ InOrder
  BY DEF IInv
<1>4. p \in Objects
  BY <1>1, <1>2, <1>3 DEF Typed, Pointers
<1>5. PICK g \in [Nat -> Pointers] : Carries(g) /\ Line(g)
  BY <1>3 DEF InLine
<1>6. port'.m = <<p>> /\ port'.s = port.s /\ port' \in [m : Seq(Objects), s : Seq(Objects)]
  <2> DEFINE one == <<p>>
  <2>1. one \in Seq(Objects) /\ Len(one) = 1
    BY <1>4
  <2>2. port \in [m : Seq(Objects), s : Seq(Objects)] /\ port' = [port EXCEPT !.m = one]
    BY <1>2, <1>3 DEF Typed
  <2> HIDE DEF one
  <2>3. port'.m = one /\ port'.s = port.s /\ port' \in [m : Seq(Objects), s : Seq(Objects)]
    BY <2>1, <2>2
  <2> QED BY <2>3 DEF one
<1>7. Typed'
  BY <1>2, <1>3, <1>6 DEF Typed, Pointers
<1>8. UNCHANGED <<P1, P2, P3, P4, P5, P6>>
  BY <1>2, <1>6 DEF P1, P2, P3, P4, P5, P6
<1>9. /\ P7 = P6 /\ P6 \in Nat /\ P7' = P6 + 1 /\ issued = P6 + 1 /\ p = g[P6 + 1]
      /\ P1 \in Nat /\ P1 <= P6
  <2>1. P7 = P6 /\ P6 \in Nat /\ P1 \in Nat /\ P1 <= P6
    BY <1>2, <1>3, Places
  <2>2. P7' = P6 + 1
    BY <1>6, <1>8 DEF P7
  <2>3. issued = P7 + 1 /\ p = g[P7 + 1]
    BY <1>1, <1>2, <1>5 DEF Line
  <2> QED BY <2>1, <2>2, <2>3
<1>10. Carries(g)'
  BY <1>2, <1>5, <1>8 DEF Carries
<1>11. Line(g)'
  <2>1. At(<<p>>, g, P6)
    BY <1>9 DEF At
  <2>2. /\ At(reg["MEM2WB"], g, P1) /\ At(reg["EXE2MEM"], g, P2) /\ At(reg["ID2EXE"], g, P3)
        /\ At(reg["IF2ID"], g, P4) /\ At(port.s, g, P5)
    BY <1>5 DEF Line
  <2>3. /\ At(reg["MEM2WB"], g, P1)' /\ At(reg["EXE2MEM"], g, P2)' /\ At(reg["ID2EXE"], g, P3)'
        /\ At(reg["IF2ID"], g, P4)' /\ At(port.s, g, P5)' /\ At(port.m, g, P6)'
    BY <2>1, <2>2, <1>2, <1>6, <1>8 DEF At
  <2>4. issued' = P7' + 0
    BY <1>2, <1>9
  <2> QED BY <2>3, <2>4, <1>2 DEF Line
<1>12. Control'
  <2>1. issued \in P1 + 1 .. issued /\ issued \in 1 .. Len(stream)
    BY <1>3, <1>9 DEF Control
  <2>2. packet[p] = stream[issued]
    BY <2>1, <1>5, <1>9 DEF Carries
  <2>3. event' => issued < Len(stream)
    BY <2>1, <2>2, <1>2, <1>3, HcfIsLast
  <2> QED BY <2>3, <1>2, <1>3 DEF Control
<1>13. InLine'
  BY <1>10, <1>11 DEF InLine
<1> QED BY <1>2, <1>3, <1>7, <1>12, <1>13 DEF IInv, Bounded, InOrder

LEMMA ForwardKeepsInv ==
  ASSUME IInv, PortForward
  PROVE  IInv'
<1>1. /\ port.s = <<>> /\ port'.m = <<>> /\ port'.s = port.m
      /\ port' = [m |-> <<>>, s |-> port.m]
      /\ UNCHANGED <<stream, issued, event, pendingInstPacket, packet, free, reg, retired>>
  BY DEF PortForward, cpu
<1>2. Typed /\ Control /\ InLine /\ Bounded /\ InOrder
  BY DEF IInv
<1>3. PICK g \in [Nat -> Pointers] : Carries(g) /\ Line(g)
  BY <1>2 DEF InLine
<1>4. Typed'
  <2>1. port.m \in Seq(Objects) /\ Len(port.m) <= 1
    BY <1>2 DEF Typed
  <2>2. port' \in [m : Seq(Objects), s : Seq(Objects)] /\ Len(port'.m) <= 1 /\ Len(port'.s) <= 1
    BY <1>1, <2>1
  <2> QED BY <2>2, <1>1, <1>2 DEF Typed
<1>5. UNCHANGED <<P1, P2, P3, P4, P5>>
  BY <1>1 DEF P1, P2, P3, P4, P5
<1>6. P6 = P5 /\ P5 \in Nat /\ P6' = P7 /\ P7' = P7
  <2>1. P6 = P5 /\ P5 \in Nat /\ P6 \in Nat /\ P7 = P6 + Len(port.m) /\ P7 \in Nat
    BY <1>1, <1>2, Places
  <2>2. P6' = P5 + Len(port.m)
    BY <1>1, <1>5 DEF P6
  <2>3. P7' = P6' + 0
    BY <1>1 DEF P7
  <2> QED BY <2>1, <2>2, <2>3
<1>7. Carries(g)'
  BY <1>1, <1>3, <1>5 DEF Carries
<1>8. Line(g)'
  <2>1. /\ At(reg["MEM2WB"], g, P1) /\ At(reg["EXE2MEM"], g, P2) /\ At(reg["ID2EXE"], g, P3)
        /\ At(reg["IF2ID"], g, P4) /\ At(port.m, g, P5)
        /\ pendingInstPacket # nullptr => pendingInstPacket = g[P7 + 1]
        /\ issued = P7 + (IF pendingInstPacket = nullptr THEN 0 ELSE 1)
    BY <1>3, <1>6 DEF Line
  <2>2. /\ At(reg["MEM2WB"], g, P1)' /\ At(reg["EXE2MEM"], g, P2)' /\ At(reg["ID2EXE"], g, P3)'
        /\ At(reg["IF2ID"], g, P4)' /\ At(port.s, g, P5)' /\ At(port.m, g, P6)'
    BY <2>1, <1>1, <1>5 DEF At
  <2> QED BY <2>1, <2>2, <1>1, <1>6 DEF Line
<1>9. InLine'
  BY <1>7, <1>8 DEF InLine
<1> QED BY <1>1, <1>2, <1>4, <1>9 DEF IInv, Bounded, InOrder, Control

-----------------------------------------------------------------------------
(* A tick: up to five packets move on at once.                             *)

\* The packets that move in a tick, x1 from MEM2WB to WB, x2 from EXE2MEM ...
Moves(S, x1, x2, x3, x4, x5) ==
  /\ S \in SUBSET RegNames /\ isStalled(S)
  /\ IFStep(S) /\ IDStep(S) /\ EXEStep(S) /\ MEMStep /\ WBStep
  /\ x1 \in {0, 1} /\ x2 \in {0, 1} /\ x3 \in {0, 1} /\ x4 \in {0, 1} /\ x5 \in {0, 1}
  /\ x1 = 1 <=> InWB # nullptr
  /\ x2 = 1 <=> MEMPops(S)
  /\ x3 = 1 <=> EXEPops(S)
  /\ x4 = 1 <=> IDPops(S)
  /\ x5 = 1 <=> IFPops(S)
  /\ reg'["MEM2WB"] = (IF x1 = 1 THEN Tail(reg["MEM2WB"]) ELSE reg["MEM2WB"])
                        \o (IF x2 = 1 THEN <<InMEM>> ELSE <<>>)
  /\ reg'["EXE2MEM"] = (IF x2 = 1 THEN Tail(reg["EXE2MEM"]) ELSE reg["EXE2MEM"])
                         \o (IF x3 = 1 THEN <<InEXE>> ELSE <<>>)
  /\ reg'["ID2EXE"] = (IF x3 = 1 THEN Tail(reg["ID2EXE"]) ELSE reg["ID2EXE"])
                        \o (IF x4 = 1 THEN <<InID>> ELSE <<>>)
  /\ reg'["IF2ID"] = (IF x4 = 1 THEN Tail(reg["IF2ID"]) ELSE reg["IF2ID"])
                       \o (IF x5 = 1 THEN <<InIF>> ELSE <<>>)
  /\ DOMAIN reg' = RegNames /\ reg' = [r \in RegNames |-> reg'[r]]
  /\ port' = IF x5 = 1 THEN [port EXCEPT !.s = <<>>] ELSE port
  /\ UNCHANGED <<stream, issued, event, pendingInstPacket, packet>>

LEMMA TickMoves ==
  ASSUME Typed, Tick
  PROVE  \E S, x1, x2, x3, x4, x5 : Moves(S, x1, x2, x3, x4, x5)
<1>1. DOMAIN reg = RegNames
  BY DEF Typed
<1>2. PICK S \in SUBSET RegNames :
       /\ isStalled(S)
       /\ IFStep(S) /\ IDStep(S) /\ EXEStep(S) /\ MEMStep /\ WBStep
       /\ port' = IF IFPops(S) THEN [port EXCEPT !.s = <<>>] ELSE port
       /\ reg' = [IF2ID   |-> Through("IF2ID",   S, IFPops(S),  InIF),
                  ID2EXE  |-> Through("ID2EXE",  S, IDPops(S),  InID),
                  EXE2MEM |-> Through("EXE2MEM", S, EXEPops(S), InEXE),
                  MEM2WB  |-> Through("MEM2WB",  S, MEMPops(S), InMEM)]
  BY <1>1 DEF Tick
<1>3. /\ reg'["IF2ID"]   = Through("IF2ID",   S, IFPops(S),  InIF)
      /\ reg'["ID2EXE"]  = Through("ID2EXE",  S, IDPops(S),  InID)
      /\ reg'["EXE2MEM"] = Through("EXE2MEM", S, EXEPops(S), InEXE)
      /\ reg'["MEM2WB"]  = Through("MEM2WB",  S, MEMPops(S), InMEM)
      /\ DOMAIN reg' = RegNames /\ reg' = [r \in RegNames |-> reg'[r]]
  BY <1>2 DEF RegNames
<1>4. /\ Popped(S)["IF2ID"] = IDPops(S) /\ Popped(S)["ID2EXE"] = EXEPops(S)
      /\ Popped(S)["EXE2MEM"] = MEMPops(S) /\ Popped(S)["MEM2WB"] = (InWB # nullptr)
  BY Zenon DEF Popped
<1>5. PICK x1 \in {0, 1} : x1 = 1 <=> InWB # nullptr
  OBVIOUS
<1>6. PICK x2 \in {0, 1} : x2 = 1 <=> MEMPops(S)
  OBVIOUS
<1>7. PICK x3 \in {0, 1} : x3 = 1 <=> EXEPops(S)
  OBVIOUS
<1>8. PICK x4 \in {0, 1} : x4 = 1 <=> IDPops(S)
  OBVIOUS
<1>9. PICK x5 \in {0, 1} : x5 = 1 <=> IFPops(S)
  OBVIOUS
<1>10. reg'["MEM2WB"] = (IF x1 = 1 THEN Tail(reg["MEM2WB"]) ELSE reg["MEM2WB"])
                          \o (IF x2 = 1 THEN <<InMEM>> ELSE <<>>)
  BY <1>3, <1>4, <1>5, <1>6, Zenon DEF Through
<1>11. reg'["EXE2MEM"] = (IF x2 = 1 THEN Tail(reg["EXE2MEM"]) ELSE reg["EXE2MEM"])
                           \o (IF x3 = 1 THEN <<InEXE>> ELSE <<>>)
  BY <1>3, <1>4, <1>6, <1>7, Zenon DEF Through
<1>12. reg'["ID2EXE"] = (IF x3 = 1 THEN Tail(reg["ID2EXE"]) ELSE reg["ID2EXE"])
                          \o (IF x4 = 1 THEN <<InID>> ELSE <<>>)
  BY <1>3, <1>4, <1>7, <1>8, Zenon DEF Through
<1>13. reg'["IF2ID"] = (IF x4 = 1 THEN Tail(reg["IF2ID"]) ELSE reg["IF2ID"])
                         \o (IF x5 = 1 THEN <<InIF>> ELSE <<>>)
  BY <1>3, <1>4, <1>8, <1>9, Zenon DEF Through
<1>14. port' = IF x5 = 1 THEN [port EXCEPT !.s = <<>>] ELSE port
  BY <1>2, <1>9
<1>15. UNCHANGED <<stream, issued, event, pendingInstPacket, packet>>
  BY DEF Tick, cpu
<1>16. Moves(S, x1, x2, x3, x4, x5)
  BY <1>2, <1>3, <1>5, <1>6, <1>7, <1>8, <1>9, <1>10, <1>11, <1>12, <1>13, <1>14, <1>15 DEF Moves
<1> QED BY <1>16

\* What each packet that moves is, and that there is room for it.
LEMMA MovesFit ==
  ASSUME Typed, Bounded, NEW g, Line(g),
         NEW S, NEW x1, NEW x2, NEW x3, NEW x4, NEW x5, Moves(S, x1, x2, x3, x4, x5)
  PROVE  /\ x1 = 1 => reg["MEM2WB"] # <<>> /\ InWB = g[P1 + 1] /\ InWB \in Objects
         /\ x1 = 0 => reg["MEM2WB"] = <<>>
         /\ x2 = 1 => /\ reg["EXE2MEM"] # <<>> /\ InMEM = g[P2 + 1] /\ InMEM \in Objects
                      /\ Len(reg["MEM2WB"]) <= 1
         /\ x3 = 1 => /\ reg["ID2EXE"] # <<>> /\ InEXE = g[P3 + 1] /\ InEXE \in Objects
                      /\ Len(reg["EXE2MEM"]) <= 1
         /\ x4 = 1 => /\ reg["IF2ID"] # <<>> /\ InID = g[P4 + 1] /\ InID \in Objects
                      /\ Len(reg["ID2EXE"]) <= 1
         /\ x5 = 1 => /\ port.s # <<>> /\ InIF = g[P5 + 1] /\ InIF \in Objects
                      /\ Len(reg["IF2ID"]) <= 1
<1>1. \A r \in RegNames : reg[r] \in Seq(Objects) /\ Len(reg[r]) \in Nat /\ Len(reg[r]) <= 2
  BY Places DEF Bounded
<1>2. \A r \in RegNames : r \notin S => Len(reg[r]) <= 1
  <2> SUFFICES ASSUME NEW r \in RegNames, r \notin S PROVE Len(reg[r]) <= 1
    OBVIOUS
  <2>1. r \in DOMAIN reg
    BY DEF Typed
  <2>2. Len(reg[r]) # 2
    BY <2>1 DEF Moves, isStalled
  <2>3. PICK n \in Nat : n = Len(reg[r])
    BY <1>1
  <2>4. n <= 2 /\ n # 2
    BY <2>2, <2>3, <1>1
  <2>5. n <= 1
    BY <2>4
  <2> QED BY <2>3, <2>5, Zenon
<1>3. ASSUME NEW s \in Seq(Objects), NEW b \in Nat, At(s, g, b), First(s) # nullptr
      PROVE  s # <<>> /\ First(s) = g[b + 1] /\ First(s) \in Objects
  <2>1. s # <<>> /\ First(s) = s[1] /\ First(s) \in Objects /\ Len(s) \in Nat /\ Len(s) >= 1
    BY <1>3, FirstOf
  <2>2. 1 \in 1 .. Len(s)
    BY <2>1
  <2> QED BY <2>1, <2>2, <1>3 DEF At
<1>4. /\ P1 \in Nat /\ P2 \in Nat /\ P3 \in Nat /\ P4 \in Nat /\ P5 \in Nat
      /\ port.s \in Seq(Objects)
  BY Places
<1>5. /\ x1 = 1 <=> InWB # nullptr
      /\ x1 \in {0, 1}
      /\ x2 = 1 => InMEM # nullptr /\ "MEM2WB" \notin S
      /\ x3 = 1 => InEXE # nullptr /\ "EXE2MEM" \notin S
      /\ x4 = 1 => InID # nullptr /\ "ID2EXE" \notin S
      /\ x5 = 1 => InIF # nullptr /\ "IF2ID" \notin S
  BY DEF Moves, MEMPops, EXEPops, IDPops, IFPops
<1>6. x1 = 0 => reg["MEM2WB"] = <<>>
  <2>1. reg["MEM2WB"] \in Seq(Objects)
    BY <1>1 DEF RegNames
  <2> QED BY <2>1, <1>5, FirstOf DEF InWB
<1>7. x1 = 1 => reg["MEM2WB"] # <<>> /\ InWB = g[P1 + 1] /\ InWB \in Objects
  BY <1>1, <1>3, <1>4, <1>5 DEF InWB, Line, RegNames
<1>8. x2 = 1 => reg["EXE2MEM"] # <<>> /\ InMEM = g[P2 + 1] /\ InMEM \in Objects
  BY <1>1, <1>3, <1>4, <1>5 DEF InMEM, Line, RegNames
<1>9. x3 = 1 => reg["ID2EXE"] # <<>> /\ InEXE = g[P3 + 1] /\ InEXE \in Objects
  BY <1>1, <1>3, <1>4, <1>5 DEF InEXE, Line, RegNames
<1>10. x4 = 1 => reg["IF2ID"] # <<>> /\ InID = g[P4 + 1] /\ InID \in Objects
  BY <1>1, <1>3, <1>4, <1>5 DEF InID, Line, RegNames
<1>11. x5 = 1 => port.s # <<>> /\ InIF = g[P5 + 1] /\ InIF \in Objects
  BY <1>3, <1>4, <1>5 DEF InIF, Line
<1> QED BY <1>2, <1>5, <1>6, <1>7, <1>8, <1>9, <1>10, <1>11 DEF RegNames

LEMMA TickKeepsInv ==
  ASSUME IInv, Tick
  PROVE  IInv'
<1>1. Typed /\ Control /\ InLine /\ Bounded /\ InOrder
  BY DEF IInv
<1>2. PICK S, x1, x2, x3, x4, x5 : Moves(S, x1, x2, x3, x4, x5)
  BY <1>1, TickMoves
<1>3. PICK g \in [Nat -> Pointers] : Carries(g) /\ Line(g)
  BY <1>1 DEF InLine
<1>4. /\ x1 \in {0, 1} /\ x2 \in {0, 1} /\ x3 \in {0, 1} /\ x4 \in {0, 1} /\ x5 \in {0, 1}
      /\ UNCHANGED <<stream, issued, event, pendingInstPacket, packet>>
      /\ reg' = [r \in RegNames |-> reg'[r]] /\ WBStep
  BY <1>2 DEF Moves
<1>5. /\ x1 = 1 => reg["MEM2WB"] # <<>> /\ InWB = g[P1 + 1] /\ InWB \in Objects
      /\ x1 = 0 => reg["MEM2WB"] = <<>>
      /\ x2 = 1 => /\ reg["EXE2MEM"] # <<>> /\ InMEM = g[P2 + 1] /\ InMEM \in Objects
                   /\ Len(reg["MEM2WB"]) <= 1
      /\ x3 = 1 => /\ reg["ID2EXE"] # <<>> /\ InEXE = g[P3 + 1] /\ InEXE \in Objects
                   /\ Len(reg["EXE2MEM"]) <= 1
      /\ x4 = 1 => /\ reg["IF2ID"] # <<>> /\ InID = g[P4 + 1] /\ InID \in Objects
                   /\ Len(reg["ID2EXE"]) <= 1
      /\ x5 = 1 => /\ port.s # <<>> /\ InIF = g[P5 + 1] /\ InIF \in Objects
                   /\ Len(reg["IF2ID"]) <= 1
  BY <1>1, <1>2, <1>3, MovesFit
<1>6. /\ P1 \in Nat /\ P2 \in Nat /\ P3 \in Nat /\ P4 \in Nat /\ P5 \in Nat /\ P6 \in Nat /\ P7 \in Nat
      /\ P1 <= P2 /\ P2 <= P3 /\ P3 <= P4 /\ P4 <= P5 /\ P5 <= P6 /\ P6 <= P7
  BY <1>1, Places
<1>7. /\ reg["MEM2WB"] \in Seq(Objects) /\ reg["EXE2MEM"] \in Seq(Objects)
      /\ reg["ID2EXE"] \in Seq(Objects) /\ reg["IF2ID"] \in Seq(Objects)
      /\ P2 = P1 + Len(reg["MEM2WB"]) /\ P3 = P2 + Len(reg["EXE2MEM"])
      /\ P4 = P3 + Len(reg["ID2EXE"]) /\ P5 = P4 + Len(reg["IF2ID"])
      /\ P6 = P5 + Len(port.s) /\ P7 = P6 + Len(port.m)
  BY <1>1, Places DEF RegNames
<1>8. /\ reg'["MEM2WB"] \in Seq(Objects) /\ Len(reg'["MEM2WB"]) = Len(reg["MEM2WB"]) - x1 + x2
      /\ At(reg'["MEM2WB"], g, P1 + x1)
  <2>1. PICK s, n, b, p : s = reg["MEM2WB"] /\ n = reg'["MEM2WB"] /\ b = P1 /\ p = InMEM
    OBVIOUS
  <2>2. s \in Seq(Objects) /\ b \in Nat /\ At(s, g, b) /\ (x1 = 1 => s # <<>>)
    BY <2>1, <1>3, <1>5, <1>6, <1>7 DEF Line
  <2>3. x2 = 1 => p \in Objects /\ p = g[b + Len(s) + 1]
    BY <2>1, <1>5, <1>7
  <2>4. n = (IF x1 = 1 THEN Tail(s) ELSE s) \o (IF x2 = 1 THEN <<p>> ELSE <<>>)
    BY <2>1, <1>2, Zenon DEF Moves
  <2>5. n \in Seq(Objects) /\ Len(n) = Len(s) - x1 + x2 /\ At(n, g, b + x1)
    <3>1. Flows(s, n, g, b, x1, x2, p)
      BY <2>2, <2>3, <2>4, <1>4, Zenon DEF Flows
    <3> QED BY <3>1, Flow
  <2> QED BY <2>1, <2>5, Zenon
<1>9. /\ reg'["EXE2MEM"] \in Seq(Objects) /\ Len(reg'["EXE2MEM"]) = Len(reg["EXE2MEM"]) - x2 + x3
      /\ At(reg'["EXE2MEM"], g, P2 + x2)
  <2>1. PICK s, n, b, p : s = reg["EXE2MEM"] /\ n = reg'["EXE2MEM"] /\ b = P2 /\ p = InEXE
    OBVIOUS
  <2>2. s \in Seq(Objects) /\ b \in Nat /\ At(s, g, b) /\ (x2 = 1 => s # <<>>)
    BY <2>1, <1>3, <1>5, <1>6, <1>7 DEF Line
  <2>3. x3 = 1 => p \in Objects /\ p = g[b + Len(s) + 1]
    BY <2>1, <1>5, <1>7
  <2>4. n = (IF x2 = 1 THEN Tail(s) ELSE s) \o (IF x3 = 1 THEN <<p>> ELSE <<>>)
    BY <2>1, <1>2, Zenon DEF Moves
  <2>5. n \in Seq(Objects) /\ Len(n) = Len(s) - x2 + x3 /\ At(n, g, b + x2)
    <3>1. Flows(s, n, g, b, x2, x3, p)
      BY <2>2, <2>3, <2>4, <1>4, Zenon DEF Flows
    <3> QED BY <3>1, Flow
  <2> QED BY <2>1, <2>5, Zenon
<1>10. /\ reg'["ID2EXE"] \in Seq(Objects) /\ Len(reg'["ID2EXE"]) = Len(reg["ID2EXE"]) - x3 + x4
       /\ At(reg'["ID2EXE"], g, P3 + x3)
  <2>1. PICK s, n, b, p : s = reg["ID2EXE"] /\ n = reg'["ID2EXE"] /\ b = P3 /\ p = InID
    OBVIOUS
  <2>2. s \in Seq(Objects) /\ b \in Nat /\ At(s, g, b) /\ (x3 = 1 => s # <<>>)
    BY <2>1, <1>3, <1>5, <1>6, <1>7 DEF Line
  <2>3. x4 = 1 => p \in Objects /\ p = g[b + Len(s) + 1]
    BY <2>1, <1>5, <1>7
  <2>4. n = (IF x3 = 1 THEN Tail(s) ELSE s) \o (IF x4 = 1 THEN <<p>> ELSE <<>>)
    BY <2>1, <1>2, Zenon DEF Moves
  <2>5. n \in Seq(Objects) /\ Len(n) = Len(s) - x3 + x4 /\ At(n, g, b + x3)
    <3>1. Flows(s, n, g, b, x3, x4, p)
      BY <2>2, <2>3, <2>4, <1>4, Zenon DEF Flows
    <3> QED BY <3>1, Flow
  <2> QED BY <2>1, <2>5, Zenon
<1>11. /\ reg'["IF2ID"] \in Seq(Objects) /\ Len(reg'["IF2ID"]) = Len(reg["IF2ID"]) - x4 + x5
       /\ At(reg'["IF2ID"], g, P4 + x4)
  <2>1. PICK s, n, b, p : s = reg["IF2ID"] /\ n = reg'["IF2ID"] /\ b = P4 /\ p = InIF
    OBVIOUS
  <2>2. s \in Seq(Objects) /\ b \in Nat /\ At(s, g, b) /\ (x4 = 1 => s # <<>>)
    BY <2>1, <1>3, <1>5, <1>6, <1>7 DEF Line
  <2>3. x5 = 1 => p \in Objects /\ p = g[b + Len(s) + 1]
    BY <2>1, <1>5, <1>7
  <2>4. n = (IF x4 = 1 THEN Tail(s) ELSE s) \o (IF x5 = 1 THEN <<p>> ELSE <<>>)
    BY <2>1, <1>2, Zenon DEF Moves
  <2>5. n \in Seq(Objects) /\ Len(n) = Len(s) - x4 + x5 /\ At(n, g, b + x4)
    <3>1. Flows(s, n, g, b, x4, x5, p)
      BY <2>2, <2>3, <2>4, <1>4, Zenon DEF Flows
    <3> QED BY <3>1, Flow
  <2> QED BY <2>1, <2>5, Zenon
<1>12. /\ port' \in [m : Seq(Objects), s : Seq(Objects)] /\ Len(port'.m) <= 1 /\ Len(port'.s) <= 1
       /\ port'.m = port.m /\ Len(port'.s) = Len(port.s) - x5
       /\ At(port'.s, g, P5 + x5)
  <2>1. /\ port \in [m : Seq(Objects), s : Seq(Objects)] /\ Len(port.m) <= 1 /\ Len(port.s) <= 1
        /\ port' = IF x5 = 1 THEN [port EXCEPT !.s = <<>>] ELSE port
    BY <1>1, <1>2 DEF Typed, Moves
  <2>2. Len(port.s) \in Nat /\ At(port.s, g, P5)
    BY <2>1, <1>3 DEF Line
  <2>3. CASE x5 = 1
    <3>1. /\ port'.s = <<>> /\ port'.m = port.m
          /\ port' \in [m : Seq(Objects), s : Seq(Objects)]
      <4> DEFINE none == <<>>
      <4>1. none \in Seq(Objects) /\ port' = [port EXCEPT !.s = none]
        BY <2>1, <2>3
      <4> HIDE DEF none
      <4>2. port'.s = none /\ port'.m = port.m /\ port' \in [m : Seq(Objects), s : Seq(Objects)]
        BY <2>1, <4>1
      <4> QED BY <4>2 DEF none
    <3>2. Len(port.s) = 1
      <4>1. port.s \in Seq(Objects) /\ port.s # <<>>
        BY <2>1, <2>3, <1>5
      <4>2. PICK n \in Nat : n = Len(port.s)
        BY <2>2
      <4>3. n >= 1 /\ n <= 1
        BY <2>1, <4>1, <4>2, FirstOf
      <4>4. n = 1
        BY <4>3
      <4> QED BY <4>2, <4>4, Zenon
    <3> QED BY <2>1, <2>3, <3>1, <3>2 DEF At
  <2>4. CASE x5 = 0
    BY <2>1, <2>2, <2>4, <1>6
  <2> QED BY <2>3, <2>4, <1>4
<1>13. /\ retired' = IF x1 = 1 THEN Append(retired, packet[InWB]) ELSE retired
       /\ free' = IF x1 = 1 THEN free \cup {InWB} ELSE free
  BY <1>2 DEF Moves, WBStep
<1>14. x1 = 1 => P1 + 1 \in P1 + 1 .. issued /\ P1 + 1 \in 1 .. Len(stream)
  <2> SUFFICES ASSUME x1 = 1 PROVE P1 + 1 <= issued /\ P1 + 1 <= Len(stream)
    BY <1>1, <1>6 DEF Typed
  <2>1. PICK n \in Nat : n = Len(reg["MEM2WB"]) /\ n >= 1
    BY <1>5, <1>7, FirstOf
  <2>2. P1 + 1 <= P7
    <3>1. P2 = P1 + n /\ P1 \in Nat
      BY <2>1, <1>6, <1>7
    <3>2. P2 <= P7 /\ P2 \in Nat /\ P7 \in Nat
      BY <1>6
    <3> QED BY <3>1, <3>2, <2>1
  <2>3. P7 <= issued /\ issued \in Nat
    <3>1. issued \in Nat /\ issued = P7 + (IF pendingInstPacket = nullptr THEN 0 ELSE 1) /\ P7 \in Nat
      BY <1>1, <1>3, <1>6 DEF Line, Typed
    <3> QED BY <3>1
  <2>4. issued <= Len(stream) /\ Len(stream) \in Nat
    BY <1>1, PipelineAssumption DEF Control, Typed
  <2>5. P1 + 1 <= issued
    BY <2>2, <2>3, <1>6
  <2>6. PICK m \in Nat : m = Len(stream)
    BY <2>4
  <2>7. P1 + 1 <= m
    BY <2>3, <2>4, <2>5, <2>6, <1>6
  <2> QED BY <2>5, <2>6, <2>7, Zenon
<1>15. x1 = 1 => packet[InWB] = stream[P1 + 1] /\ stream[P1 + 1] \in Instructions
  <2> SUFFICES ASSUME x1 = 1 PROVE packet[InWB] = stream[P1 + 1] /\ stream[P1 + 1] \in Instructions
    OBVIOUS
  <2>1. packet[InWB] = stream[P1 + 1]
    BY <1>3, <1>5, <1>14 DEF Carries
  <2>2. stream \in Seq(Instructions)
    BY <1>1, PipelineAssumption DEF Typed
  <2> QED BY <2>1, <2>2, <1>14
<1>16. P1' = P1 + x1 /\ retired' \in Seq(Instructions) /\ InOrder'
  <2>1. retired \in Seq(Instructions) /\ P1 = Len(retired) /\ retired = SubSeq(stream, 1, P1)
    BY <1>1 DEF Typed, P1, InOrder
  <2>2. CASE x1 = 1
    <3>1. retired' = Append(retired, stream[P1 + 1])
      BY <2>2, <1>13, <1>15
    <3>2. retired' \in Seq(Instructions) /\ Len(retired') = P1 + 1
      BY <2>1, <2>2, <3>1, <1>15
    <3>3. stream \in Seq(Instructions) /\ P1 < Len(stream)
      BY <2>2, <1>1, <1>6, <1>14, PipelineAssumption DEF Typed
    <3>4. retired' = SubSeq(stream, 1, P1 + 1)
      BY <2>1, <3>1, <3>3, <1>6, Prefix
    <3> QED BY <2>2, <3>2, <3>4, <1>4 DEF P1, InOrder
  <2>3. CASE x1 = 0
    BY <2>1, <2>3, <1>1, <1>4, <1>6, <1>13 DEF P1, InOrder
  <2> QED BY <2>2, <2>3, <1>4
<1>17. P2' = P2 + x2 /\ P3' = P3 + x3 /\ P4' = P4 + x4 /\ P5' = P5 + x5 /\ P6' = P6 /\ P7' = P7
  <2>2. /\ Len(reg["MEM2WB"]) \in Nat /\ Len(reg["EXE2MEM"]) \in Nat
        /\ Len(reg["ID2EXE"]) \in Nat /\ Len(reg["IF2ID"]) \in Nat /\ Len(port.s) \in Nat
    BY <1>1, Places DEF RegNames
  <2>3. P2' = P2 + x2
    <3>1. PICK n \in Nat : n = Len(reg["MEM2WB"])
      BY <2>2
    <3>2. P2' = P1 + x1 + (n - x1 + x2)
      BY <3>1, <1>8, <1>16 DEF P2
    <3>3. P2 = P1 + n
      BY <3>1, <1>7
    <3> QED BY <3>2, <3>3, <1>4, <1>6
  <2>4. P3' = P3 + x3
    <3>1. PICK n \in Nat : n = Len(reg["EXE2MEM"])
      BY <2>2
    <3>2. P3' = P2 + x2 + (n - x2 + x3)
      BY <3>1, <2>3, <1>9 DEF P3
    <3>3. P3 = P2 + n
      BY <3>1, <1>7
    <3> QED BY <3>2, <3>3, <1>4, <1>6
  <2>5. P4' = P4 + x4
    <3>1. PICK n \in Nat : n = Len(reg["ID2EXE"])
      BY <2>2
    <3>2. P4' = P3 + x3 + (n - x3 + x4)
      BY <3>1, <2>4, <1>10 DEF P4
    <3>3. P4 = P3 + n
      BY <3>1, <1>7
    <3> QED BY <3>2, <3>3, <1>4, <1>6
  <2>6. P5' = P5 + x5
    <3>1. PICK n \in Nat : n = Len(reg["IF2ID"])
      BY <2>2
    <3>2. P5' = P4 + x4 + (n - x4 + x5)
      BY <3>1, <2>5, <1>11 DEF P5
    <3>3. P5 = P4 + n
      BY <3>1, <1>7
    <3> QED BY <3>2, <3>3, <1>4, <1>6
  <2>7. P6' = P6
    <3>1. PICK n \in Nat : n = Len(port.s)
      BY <2>2
    <3>2. P6' = P5 + x5 + (n - x5)
      BY <3>1, <2>6, <1>12 DEF P6
    <3>3. P6 = P5 + n
      BY <3>1, <1>7
    <3> QED BY <3>2, <3>3, <1>4, <1>6
  <2>8. P7' = P7
    BY <2>7, <1>12 DEF P7
  <2> QED BY <2>3, <2>4, <2>5, <2>6, <2>7, <2>8
<1>18. Typed'
  <2>1. reg' \in [RegNames -> Seq(Objects)]
    BY <1>4, <1>8, <1>9, <1>10, <1>11 DEF RegNames
  <2>2. free' \subseteq Objects
    BY <1>1, <1>5, <1>13 DEF Typed
  <2> QED BY <2>1, <2>2, <1>1, <1>4, <1>12, <1>16 DEF Typed
<1>19. Bounded'
  <2>1. ASSUME NEW r \in RegNames, NEW n \in Nat, n = Len(reg[r]), NEW x \in {0, 1}, NEW y \in {0, 1},
               y = 1 => Len(reg[r]) <= 1, x = 1 => reg[r] # <<>>, Len(reg'[r]) = Len(reg[r]) - x + y
        PROVE  Len(reg'[r]) <= 2
    <3>1. n <= 2
      BY <2>1, <1>1 DEF Bounded
    <3> QED BY <2>1, <3>1
  <2>2. \A r \in RegNames : Len(reg[r]) \in Nat
    BY <1>1, Places
  <2>3. Len(reg'["MEM2WB"]) <= 2 /\ Len(reg'["EXE2MEM"]) <= 2
    BY <2>1, <2>2, <1>4, <1>5, <1>8, <1>9 DEF RegNames
  <2>4. Len(reg'["ID2EXE"]) <= 2 /\ Len(reg'["IF2ID"]) <= 2
    BY <2>1, <2>2, <1>4, <1>5, <1>10, <1>11 DEF RegNames
  <2> QED BY <2>3, <2>4 DEF Bounded, RegNames
<1>20. Carries(g)'
  <2>1. P1' + 1 .. issued \subseteq P1 + 1 .. issued
    <3>1. P1' = P1 + x1 /\ P1 \in Nat /\ x1 \in {0, 1} /\ issued \in Nat
      BY <1>1, <1>4, <1>6, <1>16 DEF Typed
    <3> QED BY <3>1
  <2>2. ASSUME NEW n \in P1' + 1 .. issued PROVE g[n] \notin free'
    <3>1. n \in P1 + 1 .. issued
      BY <2>1
    <3>2. g[n] \notin free
      BY <3>1, <1>3 DEF Carries
    <3>3. CASE x1 = 1
      <4>1. n # P1 + 1
        BY <3>3, <1>1, <1>6, <1>16 DEF Typed
      <4>2. g[n] # g[P1 + 1]
        BY <3>1, <3>3, <4>1, <1>3, <1>14 DEF Carries
      <4> QED BY <3>2, <3>3, <4>2, <1>5, <1>13
    <3>4. CASE x1 = 0
      BY <3>2, <3>4, <1>13
    <3> QED BY <3>3, <3>4, <1>4
  <2> QED BY <2>1, <2>2, <1>3, <1>4 DEF Carries
<1>21. Line(g)'
  <2>1. /\ At(reg["MEM2WB"], g, P1)' /\ At(reg["EXE2MEM"], g, P2)' /\ At(reg["ID2EXE"], g, P3)'
        /\ At(reg["IF2ID"], g, P4)' /\ At(port.s, g, P5)'
    BY <1>8, <1>9, <1>10, <1>11, <1>12, <1>16, <1>17 DEF At
  <2>2. At(port.m, g, P6)'
    BY <1>3, <1>12, <1>17 DEF Line, At
  <2> QED BY <2>1, <2>2, <1>3, <1>4, <1>17 DEF Line
<1>22. InLine'
  BY <1>20, <1>21 DEF InLine
<1>23. Control'
  BY <1>1, <1>4 DEF Control
<1> QED BY <1>16, <1>18, <1>19, <1>22, <1>23 DEF IInv

-----------------------------------------------------------------------------
(* The invariant, and the two theorems that follow from it.                *)

LEMMA InitInv == Init => IInv
<1> SUFFICES ASSUME Init PROVE IInv
  OBVIOUS
<1>1. /\ stream \in Streams /\ issued = 0 /\ pendingInstPacket = nullptr
      /\ free = Objects /\ retired = <<>>
      /\ port.m = <<>> /\ port.s = <<>> /\ port \in [m : Seq(Objects), s : Seq(Objects)]
      /\ reg \in [RegNames -> Seq(Objects)] /\ \A r \in RegNames : reg[r] = <<>>
  BY DEF Init, RegNames
<1>2. packet \in [Objects -> Instructions]
  <2> DEFINE u == [op |-> "UNIMPL", a1 |-> 0, a2 |-> 0, a3 |-> 0, pc |-> 0, isTakenBranch |-> FALSE]
  <2>1. u \in Instructions
    <3>1. PICK b \in BOOLEAN : b = FALSE
      OBVIOUS
    <3>2. [op |-> "UNIMPL", a1 |-> 0, a2 |-> 0, a3 |-> 0, pc |-> 0, isTakenBranch |-> b] \in Instructions
      BY DEF Instructions, instr_type
    <3> QED BY <3>1, <3>2, Zenon
  <2>2. packet = [p \in Objects |-> u]
    BY Zenon DEF Init
  <2> HIDE DEF u
  <2> QED BY <2>1, <2>2
<1>3. Typed
  BY <1>1, <1>2 DEF Typed, Pointers
<1>4. Bounded
  BY <1>1 DEF Bounded
<1>5. /\ P1 = 0 /\ reg["MEM2WB"] = <<>> /\ reg["EXE2MEM"] = <<>> /\ reg["ID2EXE"] = <<>>
      /\ reg["IF2ID"] = <<>>
  BY <1>1 DEF P1, RegNames
<1>6. P7 = 0
  BY <1>1, <1>5 DEF P2, P3, P4, P5, P6, P7
<1>7. InLine
  <2> DEFINE g == [n \in Nat |-> nullptr]
  <2>1. g \in [Nat -> Pointers]
    BY DEF Pointers
  <2>2. Carries(g)
    BY <1>1, <1>5 DEF Carries
  <2> HIDE DEF g
  <2>3. Line(g)
    BY <1>1, <1>5, <1>6 DEF Line, At
  <2> QED BY <2>1, <2>2, <2>3 DEF InLine
<1>8. Control
  <2>1. stream \in Seq(Instructions) /\ stream # <<>>
    BY <1>1, PipelineAssumption
  <2>2. PICK n \in Nat : n = Len(stream) /\ n > 0
    BY <2>1
  <2> QED BY <2>2, <1>1 DEF Control
<1>9. InOrder
  <2>1. stream \in Seq(Instructions)
    BY <1>1, PipelineAssumption
  <2>2. SubSeq(stream, 1, 0) = <<>>
    BY <2>1, SubSeqEmpty
  <2> QED BY <2>2, <1>1 DEF InOrder
<1> QED BY <1>3, <1>4, <1>7, <1>8, <1>9 DEF IInv

LEMMA InvStep == IInv /\ [Next]_vars => IInv'
<1> SUFFICES ASSUME IInv, [Next]_vars PROVE IInv'
  OBVIOUS
<1>1. CASE execOneInstr
  BY <1>1, ExecKeepsInv
<1>2. CASE retrySendInstPacket
  BY <1>2, RetryKeepsInv
<1>3. CASE PortForward
  BY <1>3, ForwardKeepsInv
<1>4. CASE Tick
  BY <1>4, TickKeepsInv
<1>5. CASE UNCHANGED vars
  <2>1. UNCHANGED <<stream, issued, event, pendingInstPacket, packet, free, port, reg, retired>>
    BY <1>5 DEF vars, cpu
  <2>2. Typed' /\ Bounded' /\ Control' /\ InOrder'
    BY <2>1 DEF IInv, Typed, Bounded, Control, InOrder
  <2>3. UNCHANGED <<P1, P2, P3, P4, P5, P6, P7>>
    BY <2>1 DEF P1, P2, P3, P4, P5, P6, P7
  <2>4. PICK g \in [Nat -> Pointers] : Carries(g) /\ Line(g)
    BY DEF IInv, InLine
  <2>5. Carries(g)' /\ Line(g)'
    BY <2>1, <2>3, <2>4 DEF Carries, Line, At
  <2> QED BY <2>2, <2>5 DEF IInv, InLine
<1> QED BY <1>1, <1>2, <1>3, <1>4, <1>5 DEF Next

\* The inductive invariant holds in every state of Pipeline.
THEOREM Invariance == Spec => []IInv
BY InitInv, InvStep, PTL DEF Spec

\* WB takes the instructions in the order of the stream, each once, for every
\* stream and whatever the pictures of the stages make them do
\* (CPU::commitInstr, retrySendInstPacket, the stages' instPacketHandler).
THEOREM RetiredInOrder == Spec => []InOrder
<1>1. IInv => InOrder
  BY DEF IInv
<1> QED BY <1>1, Invariance, PTL

\* No register ever gets a third packet: the push of a stage that asked
\* isStalled in the same tick cannot fail (instPacketHandler of the stages).
THEOREM NoPushFails == Spec => []PushesSucceed
<1>1. IInv => PushesSucceed
  BY DEF IInv, Bounded, Typed, PushesSucceed
<1> QED BY <1>1, Invariance, PTL

-----------------------------------------------------------------------------
(* Without loads and stores no stage behind ID waits: a packet that ID has *)
(* released is gone before it drops out of ID's picture.                   *)

Pictures ==
  /\ \A p \in Objects : packet[p].op \notin Loads \cup Stores
  /\ sID \in [EXE : Pointers, MEM : Pointers, WB : Pointers, last_pc : Int, count : Int]
  /\ sEXE \in [MEM : Pointers, last_pc : Int, count : Int]
  /\ Len(reg["ID2EXE"]) <= 1 /\ Len(reg["EXE2MEM"]) <= 1 /\ Len(reg["MEM2WB"]) <= 1
  /\ \A k \in 1 .. Len(reg["ID2EXE"])  : reg["ID2EXE"][k] = sID.EXE
  /\ \A k \in 1 .. Len(reg["EXE2MEM"]) : reg["EXE2MEM"][k] \in {sID.EXE, sID.MEM}
  /\ \A k \in 1 .. Len(reg["MEM2WB"])  : reg["MEM2WB"][k] \in {sID.EXE, sID.MEM, sID.WB}

PictureInv == MemoryFree => Pictures


\* A register with at most one packet, which is taken if it is there.
LEMMA OneOut ==
  ASSUME NEW s \in Seq(Objects), Len(s) <= 1, NEW x \in {0, 1}, x = 1 <=> s # <<>>, NEW q
  PROVE  (IF x = 1 THEN Tail(s) ELSE s) \o <<>> = <<>>
         /\ (IF x = 1 THEN Tail(s) ELSE s) \o <<q>> = <<q>>
<1>1. (IF x = 1 THEN Tail(s) ELSE s) = <<>>
  <2>1. CASE s = <<>>
    BY <2>1
  <2>2. CASE s # <<>>
    <3>1. Tail(s) \in Seq(Objects) /\ Len(Tail(s)) = Len(s) - 1 /\ Len(s) \in Nat /\ Len(s) # 0
      BY <2>2, HeadTailProperties
    <3>2. Len(s) - 1 = 0
      BY <3>1
    <3>3. Tail(s) = <<>>
      BY <3>1, <3>2
    <3> QED BY <2>2, <3>3
  <2> QED BY <2>1, <2>2
<1>2. <<>> \o <<>> = <<>> /\ <<>> \o <<q>> = <<q>>
  <2>1. <<q>> \in Seq({q}) /\ <<>> \in Seq({q})
    OBVIOUS
  <2> QED BY <2>1, ConcatEmptySeq
<1> QED BY <1>1, <1>2, Zenon

\* A tick without memory accesses: the packets behind ID all move on.
LEMMA FreeMoves ==
  ASSUME IInv, Pictures,
         NEW S, NEW x1, NEW x2, NEW x3, NEW x4, NEW x5, Moves(S, x1, x2, x3, x4, x5)
  PROVE  /\ reg'["MEM2WB"]  = IF x2 = 1 THEN <<InMEM>> ELSE <<>>
         /\ reg'["EXE2MEM"] = IF x3 = 1 THEN <<InEXE>> ELSE <<>>
         /\ reg'["ID2EXE"]  = IF x4 = 1 THEN <<InID>>  ELSE <<>>
         /\ x2 = 1 => reg["EXE2MEM"] # <<>> /\ InMEM = reg["EXE2MEM"][1]
         /\ x3 = 1 => reg["ID2EXE"] # <<>> /\ InEXE = reg["ID2EXE"][1]
         /\ x4 = 1 => InID # nullptr /\ ~ IDHazard /\ InID \in Objects
         /\ sID' = IF InID = nullptr THEN sID ELSE IDShift(IF x4 = 1 THEN InID ELSE nullptr)
         /\ sEXE' = IF x3 = 1 THEN [sEXE EXCEPT !.MEM = InEXE] ELSE sEXE
         /\ InEXE \in Pointers
<1>1. Typed
  BY DEF IInv
<1>2. /\ reg["MEM2WB"] \in Seq(Objects) /\ reg["EXE2MEM"] \in Seq(Objects)
      /\ reg["ID2EXE"] \in Seq(Objects) /\ reg["IF2ID"] \in Seq(Objects)
      /\ DOMAIN reg = RegNames
  BY <1>1 DEF Typed, RegNames
<1>3. /\ x1 \in {0, 1} /\ x2 \in {0, 1} /\ x3 \in {0, 1} /\ x4 \in {0, 1}
      /\ x1 = 1 <=> InWB # nullptr
      /\ x2 = 1 <=> MEMPops(S)
      /\ x3 = 1 <=> EXEPops(S)
      /\ x4 = 1 <=> IDPops(S)
      /\ isStalled(S) /\ IDStep(S) /\ EXEStep(S)
  BY DEF Moves
<1>4. /\ Popped(S)["ID2EXE"] = EXEPops(S)
      /\ Popped(S)["EXE2MEM"] = MEMPops(S) /\ Popped(S)["MEM2WB"] = (InWB # nullptr)
  BY Zenon DEF Popped
<1>5. ASSUME NEW k, NEW p \in Pointers PROVE ~ stall_ma(k, p)
  BY DEF stall_ma, is_MemPacket, Pictures, Pointers
<1>6. /\ sID.MEM \in Pointers /\ sEXE.MEM \in Pointers
      /\ sID \in [EXE : Pointers, MEM : Pointers, WB : Pointers, last_pc : Int, count : Int]
  BY DEF Pictures
<1>7. /\ InWB \in Pointers /\ InMEM \in Pointers /\ InEXE \in Pointers /\ InID \in Pointers
      /\ InWB # nullptr <=> reg["MEM2WB"] # <<>>
      /\ InMEM # nullptr <=> reg["EXE2MEM"] # <<>>
      /\ InEXE # nullptr <=> reg["ID2EXE"] # <<>>
      /\ reg["EXE2MEM"] # <<>> => InMEM = reg["EXE2MEM"][1]
      /\ reg["ID2EXE"] # <<>> => InEXE = reg["ID2EXE"][1]
      /\ InID # nullptr => InID \in Objects
  BY <1>2, FirstOf DEF InWB, InMEM, InEXE, InID, Pointers
<1>8. ASSUME NEW r \in RegNames, Len(reg[r]) <= 1, reg[r] # <<>> => Popped(S)[r]
      PROVE  r \notin S
  <2> SUFFICES ASSUME r \in S PROVE FALSE
    OBVIOUS
  <2>1. Len(reg[r]) = 2 \/ (Len(reg[r]) = 1 /\ ~ Popped(S)[r])
    BY <1>2, <1>3, Zenon DEF isStalled
  <2>2. Len(reg[r]) # 2
    BY <1>8
  <2>3. reg[r] # <<>>
    BY <2>1, <2>2
  <2> QED BY <2>1, <2>2, <2>3, <1>8
<1>9. /\ Len(reg["ID2EXE"]) <= 1 /\ Len(reg["EXE2MEM"]) <= 1 /\ Len(reg["MEM2WB"]) <= 1
      /\ "ID2EXE" \in RegNames /\ "EXE2MEM" \in RegNames /\ "MEM2WB" \in RegNames
  BY DEF Pictures, RegNames
<1>10. "MEM2WB" \notin S
  BY <1>4, <1>7, <1>8, <1>9
<1>11. x2 = 1 <=> reg["EXE2MEM"] # <<>>
  BY <1>3, <1>5, <1>7, <1>10 DEF MEMPops
<1>12. "EXE2MEM" \notin S
  BY <1>3, <1>4, <1>8, <1>9, <1>11
<1>13. x3 = 1 <=> reg["ID2EXE"] # <<>>
  BY <1>3, <1>5, <1>6, <1>7, <1>12 DEF EXEPops
<1>14. "ID2EXE" \notin S
  BY <1>3, <1>4, <1>8, <1>9, <1>13
<1>15. reg'["MEM2WB"] = IF x2 = 1 THEN <<InMEM>> ELSE <<>>
  <2>1. reg'["MEM2WB"] = (IF x1 = 1 THEN Tail(reg["MEM2WB"]) ELSE reg["MEM2WB"])
                           \o (IF x2 = 1 THEN <<InMEM>> ELSE <<>>)
    BY DEF Moves
  <2>2. /\ (IF x1 = 1 THEN Tail(reg["MEM2WB"]) ELSE reg["MEM2WB"]) \o <<>> = <<>>
        /\ (IF x1 = 1 THEN Tail(reg["MEM2WB"]) ELSE reg["MEM2WB"]) \o <<InMEM>> = <<InMEM>>
    BY <1>2, <1>3, <1>7, <1>9, OneOut
  <2> QED BY <2>1, <2>2, Zenon
<1>16. reg'["EXE2MEM"] = IF x3 = 1 THEN <<InEXE>> ELSE <<>>
  <2>1. reg'["EXE2MEM"] = (IF x2 = 1 THEN Tail(reg["EXE2MEM"]) ELSE reg["EXE2MEM"])
                            \o (IF x3 = 1 THEN <<InEXE>> ELSE <<>>)
    BY DEF Moves
  <2>2. /\ (IF x2 = 1 THEN Tail(reg["EXE2MEM"]) ELSE reg["EXE2MEM"]) \o <<>> = <<>>
        /\ (IF x2 = 1 THEN Tail(reg["EXE2MEM"]) ELSE reg["EXE2MEM"]) \o <<InEXE>> = <<InEXE>>
    BY <1>2, <1>3, <1>9, <1>11, OneOut
  <2> QED BY <2>1, <2>2, Zenon
<1>17. reg'["ID2EXE"] = IF x4 = 1 THEN <<InID>> ELSE <<>>
  <2>1. reg'["ID2EXE"] = (IF x3 = 1 THEN Tail(reg["ID2EXE"]) ELSE reg["ID2EXE"])
                           \o (IF x4 = 1 THEN <<InID>> ELSE <<>>)
    BY DEF Moves
  <2>2. /\ (IF x3 = 1 THEN Tail(reg["ID2EXE"]) ELSE reg["ID2EXE"]) \o <<>> = <<>>
        /\ (IF x3 = 1 THEN Tail(reg["ID2EXE"]) ELSE reg["ID2EXE"]) \o <<InID>> = <<InID>>
    BY <1>2, <1>3, <1>9, <1>13, OneOut
  <2> QED BY <2>1, <2>2, Zenon
<1>18. sID' = IF InID = nullptr THEN sID ELSE IDShift(IF x4 = 1 THEN InID ELSE nullptr)
  <2>1. ~ stall_ma(sID, sID.MEM)
    BY <1>5, <1>6
  <2>2. CASE InID = nullptr
    BY <2>1, <2>2, <1>3, <1>14 DEF IDStep, IDPops
  <2>3. CASE InID # nullptr /\ x4 = 1
    BY <2>1, <2>3, <1>3, <1>14 DEF IDStep
  <2>4. CASE InID # nullptr /\ x4 # 1
    BY <2>1, <2>4, <1>3, <1>14 DEF IDStep
  <2> QED BY <2>2, <2>3, <2>4
<1>19. sEXE' = IF x3 = 1 THEN [sEXE EXCEPT !.MEM = InEXE] ELSE sEXE
  <2>1. ~ stall_ma(sEXE, sEXE.MEM)
    BY <1>5, <1>6
  <2>2. CASE x3 = 1
    BY <2>2, <1>3 DEF EXEStep, EXEPops
  <2>3. CASE x3 # 1
    <3>1. InEXE = nullptr
      BY <2>3, <1>7, <1>13
    <3> QED BY <2>3, <3>1, <1>3 DEF EXEStep
  <2> QED BY <2>2, <2>3
<1>20. x4 = 1 => InID # nullptr /\ ~ IDHazard /\ InID \in Objects
  BY <1>3, <1>7 DEF IDPops
<1> QED BY <1>7, <1>11, <1>13, <1>15, <1>16, <1>17, <1>18, <1>19, <1>20

LEMMA TickPictures ==
  ASSUME IInv, Pictures, Tick
  PROVE  Pictures'
<1>1. Typed
  BY DEF IInv
<1>2. PICK S, x1, x2, x3, x4, x5 : Moves(S, x1, x2, x3, x4, x5)
  BY <1>1, TickMoves
<1>3. /\ reg'["MEM2WB"]  = IF x2 = 1 THEN <<InMEM>> ELSE <<>>
      /\ reg'["EXE2MEM"] = IF x3 = 1 THEN <<InEXE>> ELSE <<>>
      /\ reg'["ID2EXE"]  = IF x4 = 1 THEN <<InID>>  ELSE <<>>
      /\ x2 = 1 => reg["EXE2MEM"] # <<>> /\ InMEM = reg["EXE2MEM"][1]
      /\ x3 = 1 => reg["ID2EXE"] # <<>> /\ InEXE = reg["ID2EXE"][1]
      /\ x4 = 1 => InID # nullptr /\ ~ IDHazard /\ InID \in Objects
      /\ sID' = IF InID = nullptr THEN sID ELSE IDShift(IF x4 = 1 THEN InID ELSE nullptr)
      /\ sEXE' = IF x3 = 1 THEN [sEXE EXCEPT !.MEM = InEXE] ELSE sEXE
      /\ InEXE \in Pointers
  BY <1>2, FreeMoves
<1>4. PICK a, b, c : a = InMEM /\ b = InEXE /\ c = InID
  OBVIOUS
<1>5. /\ reg["EXE2MEM"] \in Seq(Objects) /\ reg["ID2EXE"] \in Seq(Objects)
  BY <1>1 DEF Typed, RegNames
<1>6. x2 = 1 => a \in {sID.EXE, sID.MEM}
  BY <1>3, <1>4, <1>5 DEF Pictures
<1>7. x3 = 1 => b = sID.EXE
  BY <1>3, <1>4, <1>5 DEF Pictures
<1>8. nullptr \in Pointers /\ (x4 = 1 => c \in Pointers)
  BY <1>3, <1>4 DEF Pointers
<1>9. /\ sID' \in [EXE : Pointers, MEM : Pointers, WB : Pointers, last_pc : Int, count : Int]
      /\ InID # nullptr => sID'.WB = sID.MEM /\ sID'.MEM = sID.EXE
      /\ InID = nullptr => sID' = sID
      /\ x4 = 1 => sID'.EXE = c
  BY <1>3, <1>4, <1>8 DEF Pictures, IDShift
<1>10. sEXE' \in [MEM : Pointers, last_pc : Int, count : Int]
  BY <1>3 DEF Pictures
<1>11. packet' = packet
  BY <1>2 DEF Moves
<1>12. ASSUME NEW s, NEW q, NEW x, s = IF x = 1 THEN <<q>> ELSE <<>>
       PROVE  Len(s) <= 1 /\ \A k \in 1 .. Len(s) : s[k] = q /\ x = 1
  BY <1>12
<1>13. /\ Len(reg'["MEM2WB"]) <= 1
       /\ \A k \in 1 .. Len(reg'["MEM2WB"]) : reg'["MEM2WB"][k] = a /\ x2 = 1
  <2>1. PICK s : s = reg'["MEM2WB"]
    OBVIOUS
  <2>2. s = IF x2 = 1 THEN <<a>> ELSE <<>>
    BY <2>1, <1>3, <1>4
  <2>3. Len(s) <= 1 /\ \A k \in 1 .. Len(s) : s[k] = a /\ x2 = 1
    BY <2>2, <1>12
  <2> QED BY <2>1, <2>3, Zenon
<1>14. /\ Len(reg'["EXE2MEM"]) <= 1
       /\ \A k \in 1 .. Len(reg'["EXE2MEM"]) : reg'["EXE2MEM"][k] = b /\ x3 = 1
  <2>1. PICK s : s = reg'["EXE2MEM"]
    OBVIOUS
  <2>2. s = IF x3 = 1 THEN <<b>> ELSE <<>>
    BY <2>1, <1>3, <1>4
  <2>3. Len(s) <= 1 /\ \A k \in 1 .. Len(s) : s[k] = b /\ x3 = 1
    BY <2>2, <1>12
  <2> QED BY <2>1, <2>3, Zenon
<1>15. /\ Len(reg'["ID2EXE"]) <= 1
       /\ \A k \in 1 .. Len(reg'["ID2EXE"]) : reg'["ID2EXE"][k] = c /\ x4 = 1
  <2>1. PICK s : s = reg'["ID2EXE"]
    OBVIOUS
  <2>2. s = IF x4 = 1 THEN <<c>> ELSE <<>>
    BY <2>1, <1>3, <1>4
  <2>3. Len(s) <= 1 /\ \A k \in 1 .. Len(s) : s[k] = c /\ x4 = 1
    BY <2>2, <1>12
  <2> QED BY <2>1, <2>3, Zenon
<1>16. x3 = 1 => b \in {sID'.EXE, sID'.MEM}
  BY <1>7, <1>9
<1>17. x2 = 1 => a \in {sID'.EXE, sID'.MEM, sID'.WB}
  BY <1>6, <1>9
<1>18. \A p \in Objects : packet'[p].op \notin Loads \cup Stores
  BY <1>11 DEF Pictures
<1> QED BY <1>9, <1>10, <1>13, <1>14, <1>15, <1>16, <1>17, <1>18 DEF Pictures

LEMMA PictureStep ==
  ASSUME IInv, PictureInv, [Next]_vars
  PROVE  PictureInv'
<1>0. Typed /\ Control
  BY DEF IInv
<1>1. stream' = stream
  BY DEF Next, execOneInstr, retrySendInstPacket, PortForward, Tick, vars, cpu
<1> SUFFICES ASSUME MemoryFree PROVE Pictures'
  BY <1>1 DEF PictureInv, MemoryFree
<1>2. Pictures
  BY DEF PictureInv
<1>3. ASSUME UNCHANGED <<packet, reg, sID, sEXE>> PROVE Pictures'
  BY <1>2, <1>3 DEF Pictures
<1>4. CASE execOneInstr
  <2>1. UNCHANGED <<reg, sID, sEXE>>
    BY <1>4 DEF execOneInstr, stages
  <2>2. PICK p \in acquire : packet' = [packet EXCEPT ![p] = stream[issued + 1]]
    BY <1>4 DEF execOneInstr
  <2>3. issued + 1 \in 1 .. Len(stream)
    <3>1. stream \in Seq(Instructions)
      BY <1>0, PipelineAssumption DEF Typed
    <3>2. Len(stream) \in Nat /\ issued \in Nat /\ issued < Len(stream)
      BY <3>1, <1>0, <1>4 DEF Typed, Control, execOneInstr
    <3> QED BY <3>2
  <2>4. stream[issued + 1].op \notin Loads \cup Stores
    BY <2>3 DEF MemoryFree
  <2>5. ASSUME NEW q \in Objects PROVE packet'[q].op \notin Loads \cup Stores
    <3>1. packet \in [Objects -> Instructions]
      BY <1>0 DEF Typed
    <3>2. packet[q].op \notin Loads \cup Stores
      BY <1>2 DEF Pictures
    <3>3. packet'[q] = IF q = p THEN stream[issued + 1] ELSE packet[q]
      BY <2>2, <3>1
    <3> QED BY <2>4, <3>2, <3>3
  <2> QED BY <1>2, <2>1, <2>5 DEF Pictures
<1>5. CASE retrySendInstPacket
  BY <1>3, <1>5 DEF retrySendInstPacket, stages
<1>6. CASE PortForward
  BY <1>3, <1>6 DEF PortForward, stages, cpu
<1>7. CASE Tick
  BY <1>2, <1>7, TickPictures
<1>8. CASE UNCHANGED vars
  BY <1>3, <1>8 DEF vars, stages, cpu
<1> QED BY <1>4, <1>5, <1>6, <1>7, <1>8 DEF Next

LEMMA InConcat ==
  ASSUME NEW s \in Seq(Objects), NEW t \in Seq(Objects), NEW k \in DOMAIN (s \o t)
  PROVE  \/ \E i \in 1 .. Len(s) : (s \o t)[k] = s[i]
         \/ \E i \in 1 .. Len(t) : (s \o t)[k] = t[i]
<1>1. PICK m \in Nat, n \in Nat : m = Len(s) /\ n = Len(t)
  OBVIOUS
<1>2. /\ s \o t \in Seq(Objects) /\ Len(s \o t) = m + n
      /\ \A i \in 1 .. m + n : (s \o t)[i] = IF i <= m THEN s[i] ELSE t[i - m]
  BY <1>1, ConcatProperties
<1>3. k \in 1 .. m + n
  BY <1>2
<1>4. CASE k <= m
  <2>1. k \in 1 .. m /\ (s \o t)[k] = s[k]
    BY <1>2, <1>3, <1>4
  <2> QED BY <2>1, <1>1, Zenon
<1>5. CASE ~ (k <= m)
  <2>1. k - m \in 1 .. n /\ (s \o t)[k] = t[k - m]
    BY <1>2, <1>3, <1>5
  <2> QED BY <2>1, <1>1, Zenon
<1> QED BY <1>4, <1>5

\* What is in flight behind ID is in ID's picture.
LEMMA FlightPictured ==
  ASSUME Typed, Pictures, NEW k \in DOMAIN InFlight
  PROVE  InFlight[k] \in {sID.EXE, sID.MEM, sID.WB} \ {nullptr}
<1>1. PICK s, t, u : s = reg["MEM2WB"] /\ t = reg["EXE2MEM"] /\ u = reg["ID2EXE"]
  OBVIOUS
<1>2. s \in Seq(Objects) /\ t \in Seq(Objects) /\ u \in Seq(Objects)
  BY <1>1 DEF Typed, RegNames
<1>3. s \o t \in Seq(Objects)
  BY <1>2, ConcatProperties
<1>4. InFlight = (s \o t) \o u
  BY <1>1 DEF InFlight
<1>5. PICK q : q = InFlight[k]
  OBVIOUS
<1>6. \/ \E i \in 1 .. Len(s \o t) : q = (s \o t)[i]
      \/ \E i \in 1 .. Len(u) : q = u[i]
  BY <1>2, <1>3, <1>4, <1>5, InConcat
<1>7. \/ \E i \in 1 .. Len(s) : q = s[i]
      \/ \E i \in 1 .. Len(t) : q = t[i]
      \/ \E i \in 1 .. Len(u) : q = u[i]
  <2>1. CASE \E i \in 1 .. Len(u) : q = u[i]
    BY <2>1
  <2>2. CASE \E i \in 1 .. Len(s \o t) : q = (s \o t)[i]
    <3>1. PICK i \in 1 .. Len(s \o t) : q = (s \o t)[i]
      BY <2>2
    <3>2. i \in DOMAIN (s \o t)
      BY <1>3, <3>1
    <3> QED BY <1>2, <3>1, <3>2, InConcat
  <2> QED BY <1>6, <2>1, <2>2
<1>8. /\ \A i \in 1 .. Len(u) : u[i] = sID.EXE
      /\ \A i \in 1 .. Len(t) : t[i] \in {sID.EXE, sID.MEM}
      /\ \A i \in 1 .. Len(s) : s[i] \in {sID.EXE, sID.MEM, sID.WB}
  BY <1>1, Zenon DEF Pictures
<1>9. q \in Objects
  BY <1>2, <1>7
<1>10. q # nullptr
  BY <1>9, PipelineAssumption DEF nullptr
<1> QED BY <1>5, <1>7, <1>8, <1>10

\* What ID has in front of it is not yet behind it.
LEMMA NotBoth ==
  ASSUME IInv, NEW j \in DOMAIN reg["ID2EXE"], InID # nullptr
  PROVE  reg["ID2EXE"][j] # InID
<1>1. PICK g \in [Nat -> Pointers] : Carries(g) /\ Line(g)
  BY DEF IInv, InLine
<1>2. Typed
  BY DEF IInv
<1>3. PICK s, t : s = reg["ID2EXE"] /\ t = reg["IF2ID"]
  OBVIOUS
<1>4. s \in Seq(Objects) /\ t \in Seq(Objects)
  BY <1>2, <1>3 DEF Typed, RegNames
<1>5. t # <<>> /\ InID = t[1]
  BY <1>3, <1>4 DEF InID, First, nullptr
<1>6. PICK m \in Nat, n \in Nat : m = Len(s) /\ n = Len(t) /\ n >= 1 /\ j \in 1 .. m
  BY <1>3, <1>4, <1>5
<1>7. PICK p1, p3, p4 : p1 = P1 /\ p3 = P3 /\ p4 = P4
  OBVIOUS
<1>8. P1 \in Nat /\ P3 \in Nat /\ P3 >= P1 /\ P4 \in Nat /\ P5 <= issued /\ P5 \in Nat /\ issued \in Nat
  <2>1. /\ P1 \in Nat /\ P2 \in Nat /\ P3 \in Nat /\ P4 \in Nat /\ P5 \in Nat /\ P6 \in Nat /\ P7 \in Nat
        /\ P1 <= P2 /\ P2 <= P3 /\ P3 <= P4 /\ P4 <= P5 /\ P5 <= P6 /\ P6 <= P7
    BY <1>2, Places
  <2>2. issued = P7 + (IF pendingInstPacket = nullptr THEN 0 ELSE 1)
    BY <1>1 DEF Line
  <2> QED BY <2>1, <2>2
<1>9. p4 = p3 + m /\ P5 = p4 + n
  BY <1>3, <1>6, <1>7 DEF P4, P5
<1>10. s[j] = g[p3 + j] /\ t[1] = g[p4 + 1]
  <2>1. At(s, g, p3) /\ At(t, g, p4)
    BY <1>1, <1>3, <1>7, Zenon DEF Line
  <2>2. 1 \in 1 .. Len(t) /\ j \in 1 .. Len(s)
    BY <1>6
  <2> QED BY <2>1, <2>2 DEF At
<1>11. PICK i, e : i = issued /\ e = P5
  OBVIOUS
<1>12. p3 + j \in p1 + 1 .. i /\ p4 + 1 \in p1 + 1 .. i /\ p3 + j # p4 + 1
  BY <1>6, <1>7, <1>8, <1>9, <1>11
<1>13. g[p3 + j] # g[p4 + 1]
  BY <1>1, <1>7, <1>11, <1>12 DEF Carries
<1> QED BY <1>3, <1>5, <1>10, <1>13

\* A packet that enters ID2EXE passed ID's hazard check in that step.
LEMMA Release ==
  ASSUME IInv, Pictures, [Next]_vars, InID # nullptr,
         NEW j \in DOMAIN reg'["ID2EXE"], reg'["ID2EXE"][j] = InID
  PROVE  ~ IDHazard
<1>1. CASE reg' = reg
  BY <1>1, NotBoth
<1>2. CASE Tick
  <2>1. PICK S, x1, x2, x3, x4, x5 : Moves(S, x1, x2, x3, x4, x5)
    BY <1>2, TickMoves DEF IInv
  <2>2. /\ reg'["ID2EXE"]  = IF x4 = 1 THEN <<InID>>  ELSE <<>>
        /\ x4 = 1 => InID # nullptr /\ ~ IDHazard
    BY <2>1, FreeMoves
  <2>3. x4 = 1
    BY <2>2
  <2> QED BY <2>2, <2>3
<1>3. Tick \/ reg' = reg
  BY DEF Next, execOneInstr, retrySendInstPacket, PortForward, vars
<1> QED BY <1>1, <1>2, <1>3

\* ID keeps an instruction apart from those it depends on, for every stream
\* without memory accesses, whichever objects acquire returned and although
\* the picture moves on only while ID has a packet (IDStage::step,
\* hazard_check, checkRAW).
THEOREM RawKept == Spec => RawSeparated
<1>1. Init => PictureInv
  <2> SUFFICES ASSUME Init PROVE Pictures
    BY DEF PictureInv
  <2>1. /\ \A p \in Objects : packet[p].op = "UNIMPL"
        /\ reg["ID2EXE"] = <<>> /\ reg["EXE2MEM"] = <<>> /\ reg["MEM2WB"] = <<>>
    BY DEF Init
  <2>2. /\ sID \in [EXE : Pointers, MEM : Pointers, WB : Pointers, last_pc : Int, count : Int]
        /\ sEXE \in [MEM : Pointers, last_pc : Int, count : Int]
    BY DEF Init, Pointers
  <2>3. "UNIMPL" \notin Loads \cup Stores
    BY DEF Loads, Stores
  <2> QED BY <2>1, <2>2, <2>3 DEF Pictures
<1>2. IInv /\ PictureInv /\ [Next]_vars => PictureInv'
  BY PictureStep
<1>3. IInv /\ PictureInv /\ [Next]_vars =>
        [ LET released == InID # nullptr /\ \E k \in DOMAIN reg'["ID2EXE"] : reg'["ID2EXE"][k] = InID
          IN  MemoryFree /\ released =>
                \A k \in DOMAIN InFlight : ~ checkRAW(getDestReg(packet[InFlight[k]]), packet[InID]) ]_vars
  <2> SUFFICES ASSUME IInv, PictureInv, [Next]_vars, MemoryFree, InID # nullptr,
                      NEW j \in DOMAIN reg'["ID2EXE"], reg'["ID2EXE"][j] = InID,
                      NEW k \in DOMAIN InFlight
               PROVE  ~ checkRAW(getDestReg(packet[InFlight[k]]), packet[InID])
    OBVIOUS
  <2>1. Typed /\ Pictures
    BY DEF IInv, PictureInv
  <2>2. ~ IDHazard
    BY <2>1, Release
  <2>3. InFlight[k] \in {sID.EXE, sID.MEM, sID.WB} \ {nullptr}
    BY <2>1, FlightPictured
  <2> QED BY <2>2, <2>3 DEF IDHazard, hazard_check
<1> QED BY <1>1, <1>2, <1>3, Invariance, PTL DEF Spec, RawSeparated
============================================================================
