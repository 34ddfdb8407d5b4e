------------------------ MODULE MemoryClientsProofs ------------------------
(***************************************************************************)
(* Proofs about MemoryClients, for any clients, latency, memory and number *)
(* of bursts: the memory's trackers account for every beat, responses      *)
(* are overtaken by strictly shorter bursts only, and a load never returns *)
(* less than what was acknowledged before it, and a response that waits    *)
(* for a free register always has someone to send it.                      *)
(***************************************************************************)
EXTENDS MemoryClients, DataMemoryProofs

-----------------------------------------------------------------------------
(* The inductive invariant.                                                *)

Slots ==
  /\ issued \in [Clients -> Nat]
  /\ slot = [c \in Clients |-> slot[c]]
  /\ \A c \in Clients :
       slot[c] # <<>> => /\ IsBurst(slot[c][1])
                         /\ issued[c] > 0 /\ slot[c][1].tid = Tid(c, issued[c] - 1)

\* t is a transaction id that was given to a burst which is no longer in the slot.
Popped(t) ==
  \E c \in Clients :
    \E n \in 0 .. issued[c] - 1 : t = Tid(c, n) /\ (slot[c] # <<>> => n < issued[c] - 1)

\* The pop positions.
Logged ==
  /\ IsFiniteSet(DOMAIN meta)
  /\ \A t \in DOMAIN meta :
       /\ Popped(t)
       /\ meta[t].pos \in Nat /\ meta[t].pos < Cardinality(DOMAIN meta)
       /\ meta[t].len \in Nat
  /\ InUse \subseteq DOMAIN meta
  /\ \A t \in DOMAIN pending_ : pending_[t].expected = meta[t].len

\* Bursts are popped in different ticks, the later one later; an event's
\* distance from its beat number tells when its burst was popped.
PopOrder ==
  /\ \A e, f \in beatEvents :
       meta[e.tid].pos < meta[f.tid].pos => e.due - e.i < f.due - f.i
  /\ \A e \in beatEvents :
       /\ e.due - e.i <= Latency - 1
       /\ ~ stepped => e.due - e.i < Latency - 1

\* The log of answers.
AnswerLog ==
  /\ IsSeq(answers)
  /\ DOMAIN meta = Answered \cup DOMAIN pending_
  /\ Answered \cap DOMAIN pending_ = {}

ClientInv == Slots /\ Logged /\ PopOrder /\ AnswerLog /\ OnlyShorterOvertakes

IInv == MemInv /\ ClientInv

-----------------------------------------------------------------------------
(* Issuing a burst.                                                        *)

\* A function on 1 .. n is a sequence.
LEMMA FunctionIsSeq ==
  ASSUME NEW n \in Nat \ {0}, NEW f, f = [i \in 1 .. n |-> f[i]]
  PROVE  IsSeq(f) /\ Len(f) = n /\ f # <<>>
<1>1. f \in Seq({f[k] : k \in 1 .. n}) /\ Len(f) = n
  OBVIOUS
<1> QED BY <1>1, SeqIsSeq, EmptyIsSeq

\* A client that fills its slot disturbs nothing else.
LEMMA IssueKeepsInv ==
  ASSUME IInv, NEW c \in Clients, slot[c] = <<>>, NEW pkt, IsBurst(pkt),
         pkt.tid = Tid(c, issued[c]),
         issued' = [issued EXCEPT ![c] = @ + 1], slot' = [slot EXCEPT ![c] = <<pkt>>],
         UNCHANGED <<meta, answers, memvars>>
  PROVE  IInv'
<1>1. issued \in [Clients -> Nat] /\ slot = [d \in Clients |-> slot[d]]
  BY DEF IInv, ClientInv, Slots
<1>2. /\ issued' \in [Clients -> Nat] /\ issued'[c] = issued[c] + 1
      /\ \A d \in Clients \ {c} : issued'[d] = issued[d] /\ slot'[d] = slot[d]
      /\ slot' = [d \in Clients |-> slot'[d]] /\ slot'[c] = <<pkt>> /\ slot'[c] # <<>>
      /\ slot'[c][1] = pkt
  <2>1. /\ issued' \in [Clients -> Nat] /\ issued'[c] = issued[c] + 1
        /\ \A d \in Clients \ {c} : issued'[d] = issued[d]
    BY <1>1
  <2> DEFINE one == <<pkt>>
  <2>2. one # <<>> /\ one[1] = pkt
    BY OneIsSeq, EmptyIsSeq
  <2>3. slot' = [slot EXCEPT ![c] = one]
    OBVIOUS
  <2> HIDE DEF one
  <2>4. /\ slot'[c] = one /\ slot' = [d \in Clients |-> slot'[d]]
        /\ \A d \in Clients \ {c} : slot'[d] = slot[d]
    BY <1>1, <2>3
  <2> QED BY <2>1, <2>2, <2>4 DEF one
<1>3. MemInv' /\ InUse' = InUse
  BY UnchangedMemInv DEF IInv
<1>4. Slots'
  <2> SUFFICES ASSUME NEW d \in Clients, slot'[d] # <<>>
               PROVE  /\ IsBurst(slot'[d][1]) /\ issued'[d] > 0
                      /\ slot'[d][1].tid = Tid(d, issued'[d] - 1)
    BY <1>2 DEF Slots
  <2>1. CASE d = c
    BY <2>1, <1>1, <1>2
  <2>2. CASE d # c
    BY <2>2, <1>2 DEF IInv, ClientInv, Slots
  <2> QED BY <2>1, <2>2
<1>5. ASSUME NEW t, Popped(t) PROVE Popped(t)'
  <2>1. PICK d \in Clients :
          \E n \in 0 .. issued[d] - 1 : t = Tid(d, n) /\ (slot[d] # <<>> => n < issued[d] - 1)
    BY <1>5 DEF Popped
  <2>2. PICK n \in 0 .. issued[d] - 1 : t = Tid(d, n) /\ (slot[d] # <<>> => n < issued[d] - 1)
    BY <2>1
  <2>3. n \in 0 .. issued'[d] - 1 /\ t = Tid(d, n) /\ (slot'[d] # <<>> => n < issued'[d] - 1)
    <3>1. CASE d = c
      BY <3>1, <2>2, <1>1, <1>2
    <3>2. CASE d # c
      BY <3>2, <2>2, <1>2
    <3> QED BY <3>1, <3>2
  <2> QED BY <2>3 DEF Popped, Tid
<1>6. Logged'
  BY <1>3, <1>5 DEF IInv, ClientInv, Logged, memvars
<1>7. PopOrder' /\ AnswerLog' /\ OnlyShorterOvertakes'
  BY DEF IInv, ClientInv, PopOrder, AnswerLog, Answered, OnlyShorterOvertakes, memvars
<1> QED BY <1>3, <1>4, <1>6, <1>7 DEF IInv, ClientInv

LEMMA IssueWriteKeepsInv ==
  ASSUME IInv, NEW c \in Writers, IssueWrite(c)
  PROVE  IInv'
<1>1. c \in Clients
  BY ClientsAssumption
<1> DEFINE v == version[c] + 1
           beats == [i \in 1 .. 4 |-> [op |-> "SW", addr |-> Base[c] + 4 * (i - 1),
                                       data |-> <<v, v, v, v>>]]
           pkt == [tid |-> Tid(c, issued[c]), kind |-> "wr", caller |-> c, beats |-> beats]
<1>2. slot' = [slot EXCEPT ![c] = <<pkt>>]
  BY Zenon DEF IssueWrite
<1>3. issued' = [issued EXCEPT ![c] = @ + 1] /\ slot[c] = <<>> /\ UNCHANGED <<meta, answers, memvars>>
  BY DEF IssueWrite
<1>4. \E n \in Nat \ {0} : beats = [i \in 1 .. n |-> beats[i]]
  <2>1. beats = [i \in 1 .. 4 |-> beats[i]] /\ 4 \in Nat \ {0}
    OBVIOUS
  <2> HIDE DEF beats
  <2> QED BY <2>1
<1> HIDE DEF beats
<1>5. IsSeq(beats) /\ beats # <<>>
  BY <1>4, FunctionIsSeq
<1>6. IsBurst(pkt) /\ pkt.tid = Tid(c, issued[c])
  BY <1>5 DEF IsBurst
<1> HIDE DEF pkt
<1> QED BY <1>1, <1>2, <1>3, <1>6, IssueKeepsInv

LEMMA IssueReadKeepsInv ==
  ASSUME IInv, NEW c \in Clients, IssueRead(c)
  PROVE  IInv'
<1>1. PICK d \in Writers, s \in ReadShapes :
       slot' = [slot EXCEPT ![c] = <<
         [tid |-> Tid(c, issued[c]), kind |-> "rd", caller |-> c,
          beats |-> [i \in 1 .. s[2] |-> [op |-> "LW", addr |-> Base[d] + 4 * (s[1] + i - 1),
                                          imm |-> d]]]>>]
  BY DEF IssueRead
<1> DEFINE beats == [i \in 1 .. s[2] |-> [op |-> "LW", addr |-> Base[d] + 4 * (s[1] + i - 1),
                                          imm |-> d]]
           pkt == [tid |-> Tid(c, issued[c]), kind |-> "rd", caller |-> c, beats |-> beats]
<1>2. slot' = [slot EXCEPT ![c] = <<pkt>>] /\ issued' = [issued EXCEPT ![c] = @ + 1]
      /\ slot[c] = <<>> /\ UNCHANGED <<meta, answers, memvars>>
  BY <1>1 DEF IssueRead
<1>3. beats = [i \in 1 .. s[2] |-> beats[i]] /\ s[2] \in Nat \ {0}
  BY ClientsAssumption
<1> HIDE DEF beats
<1>4. IsSeq(beats) /\ beats # <<>>
  BY <1>3, FunctionIsSeq
<1>5. IsBurst(pkt) /\ pkt.tid = Tid(c, issued[c])
  BY <1>4 DEF IsBurst
<1> HIDE DEF pkt
<1> QED BY <1>2, <1>5, IssueKeepsInv

-----------------------------------------------------------------------------
(* The crossbar hands a burst over.                                        *)

\* A burst in a slot has a transaction id of its own.
LEMMA AcceptIsFresh ==
  ASSUME IInv, NEW c \in Clients, slot[c] # <<>>
  PROVE  slot[c][1].tid \notin DOMAIN meta
<1> DEFINE t == slot[c][1].tid
<1>1. issued \in [Clients -> Nat] /\ issued[c] > 0 /\ t = Tid(c, issued[c] - 1)
  BY DEF IInv, ClientInv, Slots
<1> SUFFICES ASSUME t \in DOMAIN meta PROVE FALSE
  OBVIOUS
<1>2. PICK d \in Clients :
        \E n \in 0 .. issued[d] - 1 : t = Tid(d, n) /\ (slot[d] # <<>> => n < issued[d] - 1)
  BY DEF IInv, ClientInv, Logged, Popped
<1>3. PICK n \in 0 .. issued[d] - 1 : t = Tid(d, n) /\ (slot[d] # <<>> => n < issued[d] - 1)
  BY <1>2
<1>4. d = c /\ n = issued[c] - 1
  BY <1>1, <1>3 DEF Tid
<1> QED BY <1>1, <1>3, <1>4

LEMMA AcceptKeepsInv ==
  ASSUME IInv, NEW c \in Clients, Accept(c)
  PROVE  IInv'
<1> DEFINE pkt == slot[c][1]
           t == pkt.tid
           N == Cardinality(DOMAIN meta)
           new == [pos |-> N, len |-> Len(pkt.beats), acked |-> acked]
<1>1. /\ slot[c] # <<>> /\ MemPop(pkt) /\ slot' = [slot EXCEPT ![c] = <<>>]
      /\ meta' = [u \in DOMAIN meta \cup {t} |-> IF u = t THEN new ELSE meta[u]]
      /\ UNCHANGED <<issued, answers>>
  BY DEF Accept
<1>2. /\ issued \in [Clients -> Nat] /\ slot = [d \in Clients |-> slot[d]]
      /\ IsBurst(pkt) /\ issued[c] > 0 /\ t = Tid(c, issued[c] - 1)
  BY <1>1 DEF IInv, ClientInv, Slots
<1>3. t \notin DOMAIN meta
  BY <1>1, AcceptIsFresh
<1>4. t \notin InUse
  BY <1>3 DEF IInv, ClientInv, Logged
<1>5. /\ MemInv' /\ InUse' = InUse \cup {t}
      /\ beatEvents' = beatEvents \cup BeatEvents(pkt)
      /\ DOMAIN pending_' = DOMAIN pending_ \cup {t}
      /\ \A u \in DOMAIN pending_ : pending_'[u] = pending_[u]
      /\ pending_'[t] = [expected |-> Len(pkt.beats), rbeats |-> <<>>, wbeats |-> <<>>]
  BY <1>1, <1>2, <1>4, PopKeepsMemInv DEF IInv
<1>6. ~ stepped /\ stepped' = TRUE
  BY <1>1 DEF MemPop
<1>7. /\ \A e \in BeatEvents(pkt) : e.tid = t /\ IsEvent(e) /\ e.due = Latency + e.i - 1
      /\ Len(pkt.beats) \in Nat
  BY <1>2, BurstEvents, LenIsNat DEF IsBurst
<1>8. pending_'[t].expected = Len(pkt.beats)
  BY <1>5
<1>9. /\ DOMAIN meta' = DOMAIN meta \cup {t}
      /\ \A u \in DOMAIN meta : meta'[u] = meta[u]
      /\ meta'[t].pos = N /\ meta'[t].len = Len(pkt.beats)
  BY <1>1, <1>3
<1>10. /\ slot' = [d \in Clients |-> slot'[d]] /\ slot'[c] = <<>>
       /\ \A d \in Clients \ {c} : slot'[d] = slot[d]
  BY <1>1, <1>2
<1>11. IsFiniteSet(DOMAIN meta) /\ N \in Nat
  BY FS_CardinalityType DEF IInv, ClientInv, Logged
<1>12. IsFiniteSet(DOMAIN meta') /\ Cardinality(DOMAIN meta') = N + 1
  BY <1>3, <1>9, <1>11, FS_AddElement
<1> HIDE DEF pkt, t, N, new
<1>13. Slots'
  BY <1>1, <1>2, <1>10 DEF IInv, ClientInv, Slots
<1>14. Logged'
  <2>1. ASSUME NEW u \in DOMAIN meta' PROVE Popped(u)'
    <3>1. CASE u = t
      <4>1. issued[c] - 1 \in 0 .. issued'[c] - 1 /\ u = Tid(c, issued[c] - 1) /\ slot'[c] = <<>>
        BY <3>1, <1>1, <1>2, <1>10
      <4> QED BY <4>1 DEF Popped, Tid
    <3>2. CASE u \in DOMAIN meta
      <4>1. PICK d \in Clients :
              \E n \in 0 .. issued[d] - 1 : u = Tid(d, n) /\ (slot[d] # <<>> => n < issued[d] - 1)
        BY <3>2 DEF IInv, ClientInv, Logged, Popped
      <4>2. PICK n \in 0 .. issued[d] - 1 : u = Tid(d, n) /\ (slot[d] # <<>> => n < issued[d] - 1)
        BY <4>1
      <4>3. n \in 0 .. issued'[d] - 1 /\ u = Tid(d, n) /\ (slot'[d] # <<>> => n < issued'[d] - 1)
        BY <4>2, <1>1, <1>10
      <4> QED BY <4>3 DEF Popped, Tid
    <3> QED BY <3>1, <3>2, <1>9
  <2>2. ASSUME NEW u \in DOMAIN meta'
        PROVE  /\ meta'[u].pos \in Nat /\ meta'[u].pos < Cardinality(DOMAIN meta')
               /\ meta'[u].len \in Nat
    <3>1. CASE u = t
      BY <3>1, <1>7, <1>9, <1>11, <1>12
    <3>2. CASE u \in DOMAIN meta
      <4>1. meta[u].pos \in Nat /\ meta[u].pos < N /\ meta[u].len \in Nat
        BY <3>2 DEF IInv, ClientInv, Logged, N
      <4> QED BY <3>2, <4>1, <1>9, <1>11, <1>12
    <3> QED BY <3>1, <3>2, <1>9
  <2>3. InUse' \subseteq DOMAIN meta'
    BY <1>5, <1>9 DEF IInv, ClientInv, Logged
  <2>4. ASSUME NEW u \in DOMAIN pending_' PROVE pending_'[u].expected = meta'[u].len
    <3>1. CASE u = t
      BY <3>1, <1>8, <1>9
    <3>2. CASE u \in DOMAIN pending_
      <4>1. u \in DOMAIN meta
        BY <3>2 DEF IInv, ClientInv, Logged, InUse
      <4> QED BY <3>2, <4>1, <1>5, <1>9 DEF IInv, ClientInv, Logged
    <3> QED BY <3>1, <3>2, <1>5
  <2> QED BY <1>12, <2>1, <2>2, <2>3, <2>4 DEF Logged
<1>15. \A e \in beatEvents : e.tid \in DOMAIN meta /\ e.tid # t
  BY <1>3 DEF IInv, MemInv, Scheduled, ClientInv, Logged, InUse
<1>16. ASSUME NEW e \in BeatEvents(pkt) PROVE e.due - e.i = Latency - 1
  <2>1. e.i \in Nat /\ e.due = Latency + e.i - 1
    BY <1>7 DEF IsEvent
  <2> QED BY <2>1, LatencyAssumption
<1>17. PopOrder'
  <2>1. ASSUME NEW e \in beatEvents', NEW f \in beatEvents',
               meta'[e.tid].pos < meta'[f.tid].pos
        PROVE  e.due - e.i < f.due - f.i
    <3>1. CASE e \in beatEvents /\ f \in beatEvents
      BY <2>1, <3>1, <1>9, <1>15 DEF IInv, ClientInv, PopOrder
    <3>2. CASE e \in beatEvents /\ f \in BeatEvents(pkt)
      BY <3>2, <1>6, <1>16 DEF IInv, ClientInv, PopOrder
    <3>3. CASE e \in BeatEvents(pkt)
      <4>1. meta'[e.tid].pos = N /\ f.tid \in DOMAIN meta'
        BY <3>3, <1>5, <1>7, <1>9, <1>15
      <4>2. meta'[f.tid].pos \in Nat /\ meta'[f.tid].pos < N + 1
        BY <4>1, <1>12, <1>14 DEF Logged
      <4> QED BY <2>1, <4>1, <4>2, <1>11
    <3> QED BY <3>1, <3>2, <3>3, <1>5
  <2>2. ASSUME NEW e \in beatEvents' PROVE e.due - e.i <= Latency - 1
    <3>1. CASE e \in beatEvents
      BY <3>1 DEF IInv, ClientInv, PopOrder
    <3>2. CASE e \in BeatEvents(pkt)
      BY <3>2, <1>16, LatencyAssumption
    <3> QED BY <3>1, <3>2, <1>5
  <2> QED BY <2>1, <2>2, <1>6 DEF PopOrder
<1>18. Answered' = Answered
  BY <1>1 DEF Answered
<1>19. AnswerLog'
  BY <1>1, <1>3, <1>5, <1>9, <1>18 DEF IInv, ClientInv, AnswerLog
<1>20. OnlyShorterOvertakes'
  <2>0. answers' = answers
    BY <1>1
  <2> SUFFICES \A i \in 1 .. Len(answers) :
                 \A u \in DOMAIN meta' \ {answers[j] : j \in 1 .. i} :
                   meta'[u].pos < meta'[answers[i]].pos => meta'[answers[i]].len < meta'[u].len
    BY <2>0, Zenon DEF OnlyShorterOvertakes
  <2> TAKE i \in 1 .. Len(answers)
  <2> TAKE u \in DOMAIN meta' \ {answers[j] : j \in 1 .. i}
  <2> HAVE meta'[u].pos < meta'[answers[i]].pos
  <2>1. answers[i] \in DOMAIN meta
    BY DEF IInv, ClientInv, AnswerLog, Answered
  <2>2. meta[answers[i]].pos \in Nat /\ meta[answers[i]].pos < N
    BY <2>1 DEF IInv, ClientInv, Logged, N
  <2>3. u # t
    BY <2>1, <2>2, <1>9, <1>11
  <2>4. u \in DOMAIN meta
    BY <2>3, <1>9
  <2> QED BY <2>1, <2>4, <1>9 DEF IInv, ClientInv, OnlyShorterOvertakes
<1> QED BY <1>5, <1>13, <1>14, <1>17, <1>19, <1>20 DEF IInv, ClientInv

-----------------------------------------------------------------------------
(* Beats.                                                                  *)

\* A beat of e; the client variables but the log stay as they are.
LEMMA CarriedKeepsInv ==
  ASSUME IInv, MemInv', InUse' = InUse, NEW e \in beatEvents, NEW beats, Carried(e, beats),
         answers' = IF Len(mresp'.q) > Len(mresp.q)
                    THEN Append(answers, mresp'.q[Len(mresp'.q)].tid) ELSE answers,
         UNCHANGED <<slot, issued, meta>>
  PROVE  IInv'
<1> DEFINE t == e.tid
<1>1. /\ beatEvents' = beatEvents \ {e} /\ e.due = 0 /\ stepped' = stepped
      /\ t \in DOMAIN pending_
  BY DEF Carried
<1>2. Slots'
  BY DEF IInv, ClientInv, Slots
<1>3. /\ DOMAIN pending_' \subseteq DOMAIN pending_
      /\ \A u \in DOMAIN pending_' : pending_'[u].expected = pending_[u].expected
  BY DEF Carried
<1>4. Logged'
  BY <1>3 DEF IInv, ClientInv, Logged, Popped
<1>5. PopOrder'
  BY <1>1 DEF IInv, ClientInv, PopOrder
<1>6. IsPort(mresp) /\ IsSeq(answers) /\ Len(answers) \in Nat
  BY LenIsNat DEF IInv, MemInv, Typed, ClientInv, AnswerLog
<1>7. Len(mresp.q) \in Nat /\ IsSeq(mresp.q)
  BY <1>6, LenIsNat DEF IsPort
<1>8. CASE UNCHANGED mresp /\ DOMAIN pending_' = DOMAIN pending_
  <2>1. answers' = answers
    BY <1>7, <1>8
  <2>2. AnswerLog' /\ OnlyShorterOvertakes'
    BY <1>8, <2>1 DEF IInv, ClientInv, AnswerLog, Answered, OnlyShorterOvertakes
  <2> QED BY <2>2, <1>2, <1>4, <1>5 DEF IInv, ClientInv
<1>9. CASE /\ e.i = pending_[t].expected
           /\ DOMAIN pending_' = DOMAIN pending_ \ {t}
           /\ mresp' = Enqueue(mresp, [tid    |-> e.tid,    kind  |-> e.kind,
                                       caller |-> e.caller, beats |-> beats])
  <2> DEFINE r == [tid |-> e.tid, kind |-> e.kind, caller |-> e.caller, beats |-> beats]
             n == Len(answers)
  <2>1. r.tid = t /\ mresp'.q = Append(mresp.q, r)
    BY <1>9 DEF Enqueue
  <2> HIDE DEF r
  <2>2. Len(mresp'.q) = Len(mresp.q) + 1 /\ mresp'.q[Len(mresp.q) + 1] = r
    BY <2>1, <1>7, AppendIsSeq
  <2>3. answers' = Append(answers, t)
    BY <2>1, <2>2, <1>7
  <2>4. /\ IsSeq(answers') /\ Len(answers') = n + 1 /\ answers'[n + 1] = t
        /\ \A i \in 1 .. n : answers'[i] = answers[i]
    BY <2>3, <1>6, AppendIsSeq
  <2> HIDE DEF n, t
  <2>5. n \in Nat
    BY <1>6 DEF n
  <2>6. Answered' = Answered \cup {t}
    <3>1. Answered' = {answers'[i] : i \in 1 .. n + 1} /\ Answered = {answers[i] : i \in 1 .. n}
      BY <2>4 DEF Answered, n
    <3>2. ASSUME NEW i \in 1 .. n + 1 PROVE answers'[i] \in {answers[j] : j \in 1 .. n} \cup {t}
      <4>1. CASE i \in 1 .. n
        BY <4>1, <2>4
      <4>2. CASE i = n + 1
        BY <4>2, <2>4
      <4>3. i \in 1 .. n \/ i = n + 1
        BY <2>5
      <4> QED BY <4>1, <4>2, <4>3
    <3>3. ASSUME NEW i \in 1 .. n PROVE answers[i] \in {answers'[j] : j \in 1 .. n + 1}
      BY <2>4, <2>5
    <3>4. t \in {answers'[j] : j \in 1 .. n + 1}
      BY <2>4, <2>5
    <3> QED BY <3>1, <3>2, <3>3, <3>4
  <2>7. AnswerLog'
    BY <2>4, <2>6, <1>1, <1>9 DEF IInv, ClientInv, AnswerLog, t
  <2>8. ASSUME NEW u \in DOMAIN pending_, meta[u].pos < meta[t].pos
        PROVE  meta[t].len < meta[u].len
    <3> DEFINE l == pending_[u].expected
               k == pending_[t].expected
    <3>1. IsTracker(pending_[u]) /\ IsTracker(pending_[t])
      BY <1>1 DEF IInv, MemInv, Typed, t
    <3>2. l \in Nat /\ k \in Nat /\ Collected(pending_[u]) \in Nat /\ Collected(pending_[u]) < l
      BY <3>1, CollectedIsNat DEF IInv, MemInv, Scheduled
    <3>3. l \in Collected(pending_[u]) + 1 .. pending_[u].expected
      BY <3>2
    <3>4. PICK f \in beatEvents : f.tid = u /\ f.i = l
      BY <3>3 DEF IInv, MemInv, Scheduled
    <3>5. f.due - f.i < e.due - e.i
      BY <2>8, <3>4 DEF IInv, ClientInv, PopOrder, t
    <3>6. f.due \in Nat /\ e.due = 0 /\ e.i = k
      BY <1>1, <1>9 DEF IInv, MemInv, Typed, IsEvent, t
    <3>7. l = meta[u].len /\ k = meta[t].len
      BY <1>1 DEF IInv, ClientInv, Logged, t
    <3> HIDE DEF l, k
    <3> QED BY <3>2, <3>4, <3>5, <3>6, <3>7
  <2>9. OnlyShorterOvertakes'
    <3> SUFFICES ASSUME NEW i \in 1 .. n + 1,
                        NEW u \in DOMAIN meta \ {answers'[j] : j \in 1 .. i},
                        meta[u].pos < meta[answers'[i]].pos
                 PROVE  meta[answers'[i]].len < meta[u].len
      BY <2>4 DEF OnlyShorterOvertakes
    <3>1. CASE i \in 1 .. n
      <4>1. answers'[i] = answers[i] /\ \A j \in 1 .. i : answers'[j] = answers[j]
        BY <3>1, <2>4, <2>5
      <4>2. u \in DOMAIN meta \ {answers[j] : j \in 1 .. i}
        BY <4>1
      <4> QED BY <3>1, <4>1, <4>2 DEF IInv, ClientInv, OnlyShorterOvertakes, n
    <3>2. CASE i = n + 1
      <4>1. u \notin Answered'
        BY <3>2, <2>4 DEF Answered
      <4>2. u \in DOMAIN pending_
        BY <4>1, <2>6 DEF IInv, ClientInv, AnswerLog
      <4> QED BY <3>2, <4>2, <2>4, <2>8
    <3>3. i \in 1 .. n \/ i = n + 1
      BY <2>5
    <3> QED BY <3>1, <3>2, <3>3
  <2> QED BY <2>7, <2>9, <1>2, <1>4, <1>5 DEF IInv, ClientInv
<1> QED BY <1>8, <1>9 DEF Carried

LEMMA BeatKeepsInv ==
  ASSUME IInv, Beat
  PROVE  IInv'
<1>1. /\ answers' = IF Len(mresp'.q) > Len(mresp.q)
                    THEN Append(answers, mresp'.q[Len(mresp'.q)].tid) ELSE answers
      /\ UNCHANGED <<slot, issued, meta>>
  BY DEF Beat
<1>2. CASE memReadReqHandler
  BY <1>1, <1>2, ReadKeepsMemInv, CarriedKeepsInv DEF IInv
<1>3. CASE memWriteReqHandler
  BY <1>1, <1>3, WriteKeepsMemInv, CarriedKeepsInv DEF IInv
<1> QED BY <1>2, <1>3 DEF Beat

-----------------------------------------------------------------------------
(* The remaining actions.                                                  *)

\* What a step keeps that leaves the clients, their log and the trackers alone.
LEMMA IdleKeepsLogs ==
  ASSUME ClientInv, UNCHANGED <<pending_, slot, issued, meta, answers>>, InUse' \subseteq InUse
  PROVE  Slots' /\ Logged' /\ AnswerLog' /\ OnlyShorterOvertakes'
<1>1. Slots'
  BY DEF ClientInv, Slots
<1>2. ASSUME NEW t, Popped(t) PROVE Popped(t)'
  BY <1>2 DEF Popped, Tid
<1>3. Logged'
  BY <1>2 DEF ClientInv, Logged
<1>4. AnswerLog' /\ OnlyShorterOvertakes'
  BY DEF ClientInv, AnswerLog, Answered, OnlyShorterOvertakes
<1> QED BY <1>1, <1>3, <1>4

LEMMA ReceiveKeepsInv ==
  ASSUME IInv, Receive
  PROVE  IInv'
<1>1. /\ mresp' = Forward(mresp)
      /\ UNCHANGED <<pending_, beatEvents, stepped, slot, issued, meta, answers>>
  BY DEF Receive
<1>2. MemInv' /\ InUse' \subseteq InUse
  BY <1>1, TakeKeepsMemInv DEF IInv
<1>3. PopOrder'
  BY <1>1 DEF IInv, ClientInv, PopOrder
<1>4. ClientInv'
  BY <1>1, <1>2, <1>3, IdleKeepsLogs DEF IInv, ClientInv
<1> QED BY <1>2, <1>4 DEF IInv

LEMMA SendKeepsInv ==
  ASSUME IInv, trySendResponse, UNCHANGED clientvars
  PROVE  IInv'
<1>1. MemInv' /\ InUse' = InUse
  BY SendKeepsMemInv DEF IInv
<1>2. UNCHANGED <<pending_, beatEvents, stepped, slot, issued, meta, answers>>
  BY DEF trySendResponse, clientvars
<1>3. PopOrder'
  BY <1>2 DEF IInv, ClientInv, PopOrder
<1>4. ClientInv'
  BY <1>1, <1>2, <1>3, IdleKeepsLogs DEF IInv, ClientInv
<1> QED BY <1>1, <1>4 DEF IInv

\* A tick makes room for another pop: every burst is older by one.
LEMMA TickKeepsInv ==
  ASSUME IInv, Tick, UNCHANGED clientvars
  PROVE  IInv'
<1>1. /\ MemInv' /\ InUse' = InUse
      /\ \A f \in beatEvents' :
           \E e \in beatEvents : f.tid = e.tid /\ f.i = e.i /\ f.due = e.due - 1
  BY TickKeepsMemInv DEF IInv
<1>2. \A e \in beatEvents : e.due \in Int /\ e.i \in Int
  BY DEF IInv, MemInv, Typed, IsEvent
<1>3. stepped' = FALSE /\ UNCHANGED <<pending_, mresp, slot, issued, meta, answers>>
  BY DEF Tick, clientvars
<1>4. Slots' /\ Logged' /\ AnswerLog' /\ OnlyShorterOvertakes'
  BY <1>1, <1>3, IdleKeepsLogs DEF IInv
<1>5. PopOrder'
  <2>1. ASSUME NEW f \in beatEvents', NEW g \in beatEvents', meta'[f.tid].pos < meta'[g.tid].pos
        PROVE  f.due - f.i < g.due - g.i
    <3>1. PICK d \in beatEvents : f.tid = d.tid /\ f.i = d.i /\ f.due = d.due - 1
      BY <1>1
    <3>2. PICK e \in beatEvents : g.tid = e.tid /\ g.i = e.i /\ g.due = e.due - 1
      BY <1>1
    <3>3. d.due - d.i < e.due - e.i
      BY <2>1, <3>1, <3>2, <1>3 DEF IInv, ClientInv, PopOrder
    <3> QED BY <3>1, <3>2, <3>3, <1>2
  <2>2. ASSUME NEW f \in beatEvents' PROVE f.due - f.i < Latency - 1
    <3>1. PICK d \in beatEvents : f.tid = d.tid /\ f.i = d.i /\ f.due = d.due - 1
      BY <1>1
    <3>2. d.due - d.i <= Latency - 1
      BY DEF IInv, ClientInv, PopOrder
    <3> QED BY <3>1, <3>2, <1>2, LatencyAssumption
  <2>3. ASSUME NEW f \in beatEvents' PROVE f.due - f.i <= Latency - 1
    <3>1. f.due \in Int /\ f.i \in Int
      BY <1>1 DEF MemInv, Typed, IsEvent
    <3> QED BY <3>1, <2>2, LatencyAssumption
  <2> QED BY <2>1, <2>2, <2>3 DEF PopOrder
<1> QED BY <1>1, <1>4, <1>5 DEF IInv, ClientInv

-----------------------------------------------------------------------------
(* The theorems.                                                           *)

LEMMA InitInv == Init => IInv
<1> SUFFICES ASSUME Init PROVE IInv
  OBVIOUS
<1>1. MemInv /\ InUse = {} /\ beatEvents = {}
  BY InitMemInv DEF Init, MemInit
<1>2. /\ slot = [c \in Clients |-> <<>>] /\ issued = [c \in Clients |-> 0]
      /\ DOMAIN meta = {} /\ answers = <<>> /\ DOMAIN pending_ = {}
  BY DEF Init, MemInit
<1>3. Slots
  BY <1>2 DEF Slots
<1>4. Logged
  BY <1>1, <1>2, FS_EmptySet DEF Logged
<1>5. PopOrder
  BY <1>1 DEF PopOrder
<1>6. AnswerLog /\ OnlyShorterOvertakes
  BY <1>2, EmptyIsSeq DEF AnswerLog, Answered, OnlyShorterOvertakes
<1> QED BY <1>1, <1>3, <1>4, <1>5, <1>6 DEF IInv, ClientInv

LEMMA StutterKeepsInv ==
  ASSUME IInv, UNCHANGED <<memvars, clientvars>>
  PROVE  IInv'
<1>1. MemInv' /\ InUse' = InUse
  BY UnchangedMemInv DEF IInv
<1>2. UNCHANGED <<pending_, beatEvents, stepped, slot, issued, meta, answers>>
  BY DEF memvars, clientvars
<1>3. PopOrder'
  BY <1>2 DEF IInv, ClientInv, PopOrder
<1>4. ClientInv'
  BY <1>1, <1>2, <1>3, IdleKeepsLogs DEF IInv, ClientInv
<1> QED BY <1>1, <1>4 DEF IInv

\* To the memory and the clients, the ways to send a response are one.
LEMMA Sending ==
  /\ SendEvent \/ masterPortRetry =>
       /\ trySendResponse \/ UNCHANGED memvars
       /\ UNCHANGED clientvars
  /\ Clock => (Tick \/ UNCHANGED memvars) /\ UNCHANGED clientvars
BY DEF SendEvent, masterPortRetry, Send, Clock

LEMMA InvStep == IInv /\ [Next]_vars => IInv'
<1> SUFFICES ASSUME IInv, [Next]_vars PROVE IInv'
  OBVIOUS
<1>1. ASSUME NEW c \in Writers, IssueWrite(c) PROVE IInv'
  BY <1>1, IssueWriteKeepsInv
<1>2. ASSUME NEW c \in Readers, IssueRead(c) PROVE IInv'
  BY <1>2, ClientsAssumption, IssueReadKeepsInv
<1>3. ASSUME NEW c \in Clients, Accept(c) PROVE IInv'
  BY <1>3, AcceptKeepsInv
<1>4. CASE Receive
  BY <1>4, ReceiveKeepsInv
<1>5. CASE Beat
  BY <1>5, BeatKeepsInv
<1>6. CASE trySendResponse /\ UNCHANGED clientvars
  BY <1>6, SendKeepsInv
<1>7. CASE Tick /\ UNCHANGED clientvars
  BY <1>7, TickKeepsInv
<1>8. CASE UNCHANGED <<memvars, clientvars>>
  BY <1>8, StutterKeepsInv
<1> QED BY <1>1, <1>2, <1>3, <1>4, <1>5, <1>6, <1>7, <1>8, Sending DEF Next, vars

\* The inductive invariant holds in every state of MemoryClients.
THEOREM Invariance == Spec => []IInv
BY InitInv, InvStep, PTL DEF Spec

\* No burst is forgotten, answered twice or answered before its last beat
\* (DataMemory::memReadReqHandler, memWriteReqHandler, pending_).
THEOREM Accounted == Spec => []TrackersAccounted
<1>1. IInv => TrackersAccounted
  BY MemInvAccounts DEF IInv
<1> QED BY <1>1, Invariance, PTL

\* A response is overtaken by the response to a strictly shorter burst only,
\* for every latency and however the clients' bursts overlap (the beat events
\* scheduled by DataMemory::step).
THEOREM Overtaking == Spec => []OnlyShorterOvertakes
<1>1. IInv => OnlyShorterOvertakes
  BY DEF IInv, ClientInv
<1> QED BY <1>1, Invariance, PTL

-----------------------------------------------------------------------------
(* What is in memory: the second part of the inductive invariant.          *)

\* Word j of the region of d: all its bytes are the version, the first is read.
Cell(d, j) == mem[Base[d] + 4 * (j - 1)]

Ver(e) == e.beat.data[1]

\* Write responses to d that it has not received.
WritesAt(s, d) == {k \in 1 .. Len(s) : s[k].kind = "wr" /\ s[k].caller = d}
Unread(p, d)   == Cardinality(WritesAt(p.q, d)) + Cardinality(WritesAt(p.reg, d))

IsReadBeat(b) ==
  /\ b.op = "LW" /\ b.imm \in Writers
  /\ \E j \in 1 .. 4 : b.addr = Base[b.imm] + 4 * (j - 1)

WriteBeat(c, i, v) == [op |-> "SW", addr |-> Base[c] + 4 * (i - 1), data |-> <<v, v, v, v>>]

\* A read beat shows a version of its writer, from lo up to hi.
Visible(lo, hi, b) ==
  /\ b.imm \in Writers /\ b.data[1] \in Nat
  /\ lo[b.imm] <= b.data[1] /\ b.data[1] <= hi[b.imm]

\* A word has at least the version of every write that was answered.
Cells ==
  /\ version \in [Writers -> Nat] /\ acked \in [Writers -> Nat]
  /\ mem = [a \in 0 .. MemSize - 1 |-> mem[a]]
  /\ \A d \in Writers, j \in 1 .. 4 :
       /\ Cell(d, j) \in Nat
       /\ Cell(d, j) <= version[d]
       /\ acked[d] + Unread(mresp, d) <= Cell(d, j)

SlotData ==
  \A c \in Clients :
    slot[c] # <<>> =>
      LET pkt == slot[c][1]
      IN  /\ pkt.caller = c
          /\ pkt.kind = "rd" => \A k \in 1 .. Len(pkt.beats) : IsReadBeat(pkt.beats[k])
          /\ pkt.kind = "wr" =>
               /\ c \in Writers /\ Len(pkt.beats) = 4
               /\ \A k \in 1 .. 4 : pkt.beats[k] = WriteBeat(c, k, version[c])
               /\ \A e \in beatEvents : e.kind = "wr" /\ e.caller = c => Ver(e) < version[c]
               /\ \A j \in 1 .. 4 : Cell(c, j) < version[c]

\* A write beat that is scheduled is newer than its word, and as new as the
\* words its burst has written; a burst has one version, a later burst of the
\* same writer a later one.
EventData ==
  /\ \A e \in beatEvents :
       /\ e.kind = "rd" => IsReadBeat(e.beat)
       /\ e.kind = "wr" =>
            /\ e.caller \in Writers /\ pending_[e.tid].expected = 4
            /\ Ver(e) \in Nat /\ e.beat = WriteBeat(e.caller, e.i, Ver(e))
            /\ Ver(e) <= version[e.caller]
            /\ Cell(e.caller, e.i) < Ver(e)
            /\ \A j \in 1 .. Collected(pending_[e.tid]) : Ver(e) <= Cell(e.caller, j)
  /\ \A e, f \in beatEvents :
       e.kind = "wr" /\ f.kind = "wr" =>
         /\ e.tid = f.tid => e.caller = f.caller /\ Ver(e) = Ver(f)
         /\ e.caller = f.caller /\ Ver(e) <= Ver(f) =>
              e.tid = f.tid \/ meta[e.tid].pos < meta[f.tid].pos

ReadData ==
  /\ \A t \in DOMAIN meta :
       meta[t].acked \in [Writers -> Nat] /\ \A d \in Writers : meta[t].acked[d] <= acked[d]
  /\ \A t \in DOMAIN pending_ :
       \A k \in 1 .. Len(pending_[t].rbeats) : Visible(meta[t].acked, version, pending_[t].rbeats[k])
  /\ \A r \in Held(mresp) :
       /\ r.kind = "wr" => r.caller \in Writers
       /\ r.kind = "rd" => \A k \in 1 .. Len(r.beats) : Visible(meta[r.tid].acked, version, r.beats[k])

DataInv == Cells /\ SlotData /\ EventData /\ ReadData

\* Counting the write responses in a port.
LEMMA UnreadIsNat ==
  ASSUME NEW p, IsPort(p), NEW d
  PROVE  /\ Unread(p, d) \in Nat
         /\ Cardinality(WritesAt(p.q, d)) \in Nat /\ Cardinality(WritesAt(p.reg, d)) \in Nat
<1>1. Len(p.q) \in Nat /\ Len(p.reg) \in Nat
  BY LenIsNat DEF IsPort
<1>2. WritesAt(p.q, d) \in SUBSET (1 .. Len(p.q)) /\ WritesAt(p.reg, d) \in SUBSET (1 .. Len(p.reg))
  BY DEF WritesAt
<1>3. Cardinality(WritesAt(p.q, d)) \in Nat /\ Cardinality(WritesAt(p.reg, d)) \in Nat
  BY <1>1, <1>2, CountIsNat
<1> QED BY <1>3 DEF Unread

LEMMA WritesOfOne ==
  ASSUME NEW x, NEW d
  PROVE  Cardinality(WritesAt(<<x>>, d)) = IF x.kind = "wr" /\ x.caller = d THEN 1 ELSE 0
<1>1. Len(<<x>>) = 1 /\ <<x>>[1] = x /\ 1 .. 1 = {1}
  BY OneIsSeq
<1>2. WritesAt(<<x>>, d) = IF x.kind = "wr" /\ x.caller = d THEN {1} ELSE {}
  BY <1>1 DEF WritesAt
<1> QED BY <1>2, FS_Singleton, FS_EmptySet

LEMMA WritesOfNone == \A d : Cardinality(WritesAt(<<>>, d)) = 0
<1>1. \A d : WritesAt(<<>>, d) = {}
  BY EmptyIsSeq DEF WritesAt
<1> QED BY <1>1, FS_EmptySet

LEMMA UnreadEnqueue ==
  ASSUME NEW p, IsPort(p), NEW x, NEW d
  PROVE  Unread(Enqueue(p, x), d) = Unread(p, d) + (IF x.kind = "wr" /\ x.caller = d THEN 1 ELSE 0)
<1> DEFINE s == Append(p.q, x)
           n == Len(p.q)
           A == WritesAt(p.q, d)
           B == WritesAt(s, d)
<1>1. /\ n \in Nat /\ Len(s) = n + 1 /\ s[n + 1] = x
      /\ \A k \in 1 .. n : s[k] = p.q[k]
  BY AppendIsSeq, LenIsNat DEF IsPort
<1>2. A \in SUBSET (1 .. n) /\ B \in SUBSET (1 .. n + 1)
  BY <1>1 DEF WritesAt
<1>3. \A k \in 1 .. n : k \in A <=> k \in B
  BY <1>1 DEF WritesAt
<1>4. n + 1 \in B <=> x.kind = "wr" /\ x.caller = d
  BY <1>1 DEF WritesAt
<1>5. Enqueue(p, x).q = s /\ Enqueue(p, x).reg = p.reg
  BY DEF Enqueue
<1> HIDE DEF s, n, A, B
<1>6. Cardinality(B) = Cardinality(A) + (IF n + 1 \in B THEN 1 ELSE 0)
  BY <1>1, <1>2, <1>3, CountAppend
<1>7. Cardinality(A) \in Nat /\ Cardinality(WritesAt(p.reg, d)) \in Nat
  BY UnreadIsNat DEF A
<1>8. Unread(p, d) = Cardinality(A) + Cardinality(WritesAt(p.reg, d))
      /\ Unread(Enqueue(p, x), d) = Cardinality(B) + Cardinality(WritesAt(p.reg, d))
  BY <1>5 DEF Unread, A, B
<1> QED BY <1>4, <1>6, <1>7, <1>8

LEMMA UnreadSend ==
  ASSUME NEW p, IsPort(p), NEW d
  PROVE  Unread(trySendPacket(p), d) = Unread(p, d)
<1>1. CASE p.q # <<>> /\ p.reg = <<>>
  <2> DEFINE s == Tail(p.q)
             n == Len(p.q)
             A == WritesAt(p.q, d)
             B == WritesAt(s, d)
             h == p.q[1]
  <2>1. /\ n \in Nat \ {0} /\ Len(s) = n - 1 /\ Head(p.q) = h
        /\ \A k \in 1 .. n - 1 : s[k] = p.q[k + 1]
    BY <1>1, TailIsSeq, LenIsNat DEF IsPort
  <2>2. A \in SUBSET (1 .. n) /\ B \in SUBSET (1 .. n - 1)
    BY <2>1 DEF WritesAt
  <2>3. \A k \in 1 .. n - 1 : k \in B <=> k + 1 \in A
    BY <2>1 DEF WritesAt
  <2>4. 1 \in A <=> h.kind = "wr" /\ h.caller = d
    BY <2>1 DEF WritesAt
  <2>5. trySendPacket(p).q = s /\ trySendPacket(p).reg = <<h>>
    BY <1>1, <2>1 DEF trySendPacket
  <2> HIDE DEF s, n, A, B, h
  <2>6. Cardinality(A) = Cardinality(B) + (IF 1 \in A THEN 1 ELSE 0)
    BY <2>1, <2>2, <2>3, CountTail
  <2>7. IsPort(trySendPacket(p))
    BY SendIsPort
  <2>8. Cardinality(A) \in Nat /\ Cardinality(B) \in Nat
    <3>1. Cardinality(A) \in Nat
      BY UnreadIsNat DEF A
    <3>2. Cardinality(B) \in Nat
      BY <2>5, <2>7, UnreadIsNat DEF B
    <3> QED BY <3>1, <3>2
  <2>9. /\ Unread(p, d) = Cardinality(A) + 0
        /\ Unread(trySendPacket(p), d) = Cardinality(B) + (IF h.kind = "wr" /\ h.caller = d THEN 1 ELSE 0)
    BY <1>1, <2>5, WritesOfNone, WritesOfOne DEF Unread, A, B
  <2> QED BY <2>4, <2>6, <2>8, <2>9
<1>2. CASE ~ (p.q # <<>> /\ p.reg = <<>>)
  BY <1>2 DEF trySendPacket
<1> QED BY <1>1, <1>2

LEMMA UnreadForward ==
  ASSUME NEW p, IsPort(p), p.reg # <<>>, NEW d
  PROVE  /\ Unread(p, d) = Unread(Forward(p), d)
                             + (IF p.reg[1].kind = "wr" /\ p.reg[1].caller = d THEN 1 ELSE 0)
         /\ p.reg[1] \in Held(p)
<1> DEFINE r == p.reg[1]
<1>1. Len(p.reg) = 1 /\ 1 .. 1 = {1}
  BY LenIsNat DEF IsPort
<1>2. WritesAt(p.reg, d) = IF r.kind = "wr" /\ r.caller = d THEN {1} ELSE {}
  BY <1>1 DEF WritesAt
<1>3. Cardinality(WritesAt(p.reg, d)) = IF r.kind = "wr" /\ r.caller = d THEN 1 ELSE 0
  BY <1>2, FS_Singleton, FS_EmptySet
<1>4. Cardinality(WritesAt(p.q, d)) \in Nat
  BY UnreadIsNat
<1>5. Forward(p).q = p.q /\ Forward(p).reg = <<>>
  BY DEF Forward
<1>6. Unread(Forward(p), d) = Cardinality(WritesAt(p.q, d)) + 0
  BY <1>5, WritesOfNone DEF Unread
<1>7. r \in Held(p)
  BY <1>1 DEF Held
<1> HIDE DEF r
<1> QED BY <1>3, <1>4, <1>6, <1>7 DEF Unread, r

-----------------------------------------------------------------------------
(* Steps that leave the memory, the events and the responses alone.        *)

\* A client that fills its slot; a write takes the next version.
LEMMA IssueKeepsData ==
  ASSUME IInv, DataInv, NEW c \in Clients, NEW pkt, slot' = [slot EXCEPT ![c] = <<pkt>>],
         version' \in [Writers -> Nat],
         \A d \in Writers : version[d] <= version'[d] /\ (d # c => version'[d] = version[d]),
         slot[c] = <<>>, pkt.caller = c,
         pkt.kind = "rd" => \A k \in 1 .. Len(pkt.beats) : IsReadBeat(pkt.beats[k]),
         pkt.kind = "wr" => /\ c \in Writers /\ Len(pkt.beats) = 4
                            /\ version'[c] = version[c] + 1
                            /\ \A k \in 1 .. 4 : pkt.beats[k] = WriteBeat(c, k, version'[c]),
         UNCHANGED <<acked, meta, memvars>>
  PROVE  DataInv'
<1>1. /\ UNCHANGED <<mem, pending_, beatEvents, mresp>>
      /\ version \in [Writers -> Nat] /\ acked \in [Writers -> Nat]
  BY DEF memvars, DataInv, Cells
<1>2. \A d \in Writers, j \in 1 .. 4 : Cell(d, j)' = Cell(d, j)
  BY <1>1 DEF Cell
<1>3. Cells'
  <2>1. ASSUME NEW d \in Writers, NEW j \in 1 .. 4
        PROVE  /\ Cell(d, j)' \in Nat /\ Cell(d, j)' <= version'[d]
               /\ acked'[d] + Unread(mresp', d) <= Cell(d, j)'
    <3>1. /\ Cell(d, j) \in Nat /\ Cell(d, j) <= version[d]
          /\ acked[d] + Unread(mresp, d) <= Cell(d, j)
      BY DEF DataInv, Cells
    <3>2. version[d] \in Nat /\ version'[d] \in Nat /\ version[d] <= version'[d]
      BY <1>1
    <3> QED BY <3>1, <3>2, <1>1, <1>2
  <2> QED BY <2>1, <1>1 DEF DataInv, Cells
<1>4. ASSUME NEW e \in beatEvents, e.kind = "wr"
      PROVE  Ver(e) \in Nat /\ Ver(e) <= version[e.caller] /\ Ver(e) <= version'[e.caller]
  <2>1. Ver(e) \in Nat /\ Ver(e) <= version[e.caller] /\ e.caller \in Writers
    BY <1>4 DEF DataInv, EventData
  <2>2. version[e.caller] \in Nat /\ version'[e.caller] \in Nat
        /\ version[e.caller] <= version'[e.caller]
    BY <1>1, <2>1
  <2> QED BY <2>1, <2>2
<1>5. SlotData'
  <2> SUFFICES ASSUME NEW d \in Clients, slot'[d] # <<>>
               PROVE  LET q == slot'[d][1]
                      IN  /\ q.caller = d
                          /\ q.kind = "rd" => \A k \in 1 .. Len(q.beats) : IsReadBeat(q.beats[k])
                          /\ q.kind = "wr" =>
                               /\ d \in Writers /\ Len(q.beats) = 4
                               /\ \A k \in 1 .. 4 : q.beats[k] = WriteBeat(d, k, version'[d])
                               /\ \A e \in beatEvents' : e.kind = "wr" /\ e.caller = d => Ver(e) < version'[d]
                               /\ \A j \in 1 .. 4 : Cell(d, j)' < version'[d]
    BY DEF SlotData, Ver, IsReadBeat, WriteBeat
  <2>1. CASE d = c
    <3>1. slot'[d][1] = pkt
      <4> DEFINE one == <<pkt>>
      <4>1. one[1] = pkt /\ slot' = [slot EXCEPT ![c] = one]
        BY OneIsSeq
      <4> HIDE DEF one
      <4>2. slot'[c] = one
        BY <4>1 DEF IInv, ClientInv, Slots
      <4> QED BY <4>1, <4>2, <2>1
    <3>2. ASSUME pkt.kind = "wr"
          PROVE  /\ \A e \in beatEvents' : e.kind = "wr" /\ e.caller = c => Ver(e) < version'[c]
                 /\ \A j \in 1 .. 4 : Cell(c, j)' < version'[c]
      <4>1. c \in Writers /\ version[c] \in Nat /\ version'[c] = version[c] + 1
        BY <3>2, <1>1
      <4>2. \A j \in 1 .. 4 : Cell(c, j) \in Nat /\ Cell(c, j) <= version[c]
        BY <4>1 DEF DataInv, Cells
      <4> QED BY <4>1, <4>2, <1>1, <1>2, <1>4
    <3> QED BY <2>1, <3>1, <3>2
  <2>2. CASE d # c
    <3>1. slot'[d] = slot[d]
      BY <2>2 DEF IInv, ClientInv, Slots
    <3>2. d \in Writers => version'[d] = version[d]
      BY <2>2
    <3> QED BY <3>1, <3>2, <1>1, <1>2 DEF DataInv, SlotData
  <2> QED BY <2>1, <2>2
<1>6. EventData'
  <2>1. ASSUME NEW e \in beatEvents
        PROVE  /\ e.kind = "rd" => IsReadBeat(e.beat)
               /\ e.kind = "wr" =>
                    /\ e.caller \in Writers /\ pending_[e.tid].expected = 4
                    /\ Ver(e) \in Nat /\ e.beat = WriteBeat(e.caller, e.i, Ver(e))
                    /\ Ver(e) <= version'[e.caller]
                    /\ Cell(e.caller, e.i)' < Ver(e)
                    /\ \A j \in 1 .. Collected(pending_[e.tid]) : Ver(e) <= Cell(e.caller, j)'
    <3>1. Cell(e.caller, e.i)' = Cell(e.caller, e.i) /\ \A j : Cell(e.caller, j)' = Cell(e.caller, j)
      BY <1>1 DEF Cell
    <3> QED BY <3>1, <1>4 DEF DataInv, EventData
  <2>2. \A e, f \in beatEvents :
          e.kind = "wr" /\ f.kind = "wr" =>
            /\ e.tid = f.tid => e.caller = f.caller /\ Ver(e) = Ver(f)
            /\ e.caller = f.caller /\ Ver(e) <= Ver(f) =>
                 e.tid = f.tid \/ meta[e.tid].pos < meta[f.tid].pos
    BY DEF DataInv, EventData
  <2> QED BY <2>1, <2>2, <1>1 DEF EventData, Ver, IsReadBeat, WriteBeat
<1>7. ReadData'
  <2>1. ASSUME NEW lo, NEW b, Visible(lo, version, b) PROVE Visible(lo, version', b)
    <3>1. b.imm \in Writers /\ b.data[1] \in Nat /\ lo[b.imm] <= b.data[1] /\ b.data[1] <= version[b.imm]
      BY <2>1 DEF Visible
    <3>2. version[b.imm] \in Nat /\ version'[b.imm] \in Nat /\ version[b.imm] <= version'[b.imm]
      BY <3>1, <1>1
    <3>3. b.data[1] <= version'[b.imm]
      BY <3>1, <3>2
    <3> QED BY <3>1, <3>3 DEF Visible
  <2> HIDE DEF Visible
  <2> QED BY <2>1, <1>1 DEF DataInv, ReadData
<1> QED BY <1>3, <1>5, <1>6, <1>7 DEF DataInv

LEMMA IssueWriteKeepsData ==
  ASSUME IInv, DataInv, NEW c \in Writers, IssueWrite(c)
  PROVE  DataInv'
<1>1. c \in Clients
  BY ClientsAssumption
<1> DEFINE v == version[c] + 1
           beats == [i \in 1 .. 4 |-> [op |-> "SW", addr |-> Base[c] + 4 * (i - 1),
                                       data |-> <<v, v, v, v>>]]
           pkt == [tid |-> Tid(c, issued[c]), kind |-> "wr", caller |-> c, beats |-> beats]
<1>2. slot' = [slot EXCEPT ![c] = <<pkt>>]
  BY Zenon DEF IssueWrite
<1>3. /\ version' = [version EXCEPT ![c] = @ + 1] /\ slot[c] = <<>>
      /\ UNCHANGED <<acked, meta, memvars>>
  BY DEF IssueWrite
<1>4. Len(beats) = 4
  OBVIOUS
<1>5. \A k \in 1 .. 4 : beats[k] = WriteBeat(c, k, v)
  BY DEF WriteBeat
<1> HIDE DEF beats
<1>6. pkt.kind = "wr" /\ pkt.caller = c /\ pkt.beats = beats
  OBVIOUS
<1> HIDE DEF pkt
<1>7. version \in [Writers -> Nat]
  BY DEF DataInv, Cells
<1>8. /\ version' \in [Writers -> Nat] /\ version'[c] = v
      /\ \A d \in Writers : version[d] <= version'[d] /\ (d # c => version'[d] = version[d])
  BY <1>3, <1>7
<1> QED BY <1>1, <1>2, <1>3, <1>4, <1>5, <1>6, <1>8, IssueKeepsData

LEMMA IssueReadKeepsData ==
  ASSUME IInv, DataInv, NEW c \in Clients, IssueRead(c)
  PROVE  DataInv'
<1>1. PICK d \in Writers, s \in ReadShapes :
       slot' = [slot EXCEPT ![c] = <<
         [tid |-> Tid(c, issued[c]), kind |-> "rd", caller |-> c,
          beats |-> [i \in 1 .. s[2] |-> [op |-> "LW", addr |-> Base[d] + 4 * (s[1] + i - 1),
                                          imm |-> d]]]>>]
  BY DEF IssueRead
<1> DEFINE beats == [i \in 1 .. s[2] |-> [op |-> "LW", addr |-> Base[d] + 4 * (s[1] + i - 1),
                                          imm |-> d]]
           pkt == [tid |-> Tid(c, issued[c]), kind |-> "rd", caller |-> c, beats |-> beats]
<1>2. slot' = [slot EXCEPT ![c] = <<pkt>>] /\ slot[c] = <<>> /\ UNCHANGED <<version, acked, meta, memvars>>
  BY <1>1 DEF IssueRead
<1>3. s[1] \in Nat /\ s[2] \in Nat \ {0} /\ s[1] + s[2] <= 4 /\ beats = [i \in 1 .. s[2] |-> beats[i]]
  BY ClientsAssumption
<1>4. ASSUME NEW k \in 1 .. s[2] PROVE IsReadBeat(beats[k])
  <2>1. beats[k] = [op |-> "LW", addr |-> Base[d] + 4 * (s[1] + k - 1), imm |-> d]
    OBVIOUS
  <2> HIDE DEF beats
  <2>2. s[1] + k \in 1 .. 4
    BY <1>3
  <2>3. beats[k].op = "LW" /\ beats[k].imm = d /\ beats[k].addr = Base[d] + 4 * (s[1] + k - 1)
    BY <2>1
  <2>4. \E j \in 1 .. 4 : beats[k].addr = Base[d] + 4 * (j - 1)
    <3> DEFINE m == s[1] + k
    <3>1. m \in 1 .. 4 /\ beats[k].addr = Base[d] + 4 * (m - 1)
      <4>1. s[1] + k - 1 = m - 1
        BY <1>3
      <4> QED BY <2>2, <2>3, <4>1
    <3> HIDE DEF m
    <3> QED BY <3>1
  <2> QED BY <2>3, <2>4 DEF IsReadBeat
<1> HIDE DEF beats
<1>5. Len(beats) = s[2]
  BY <1>3, FunctionIsSeq
<1>6. pkt.kind = "rd" /\ pkt.caller = c /\ pkt.beats = beats
  OBVIOUS
<1> HIDE DEF pkt
<1>7. version \in [Writers -> Nat]
  BY DEF DataInv, Cells
<1>8. /\ version' \in [Writers -> Nat]
      /\ \A w \in Writers : version[w] <= version'[w] /\ (w # c => version'[w] = version[w])
  BY <1>2, <1>7
<1> QED BY <1>2, <1>4, <1>5, <1>6, <1>8, IssueKeepsData

-----------------------------------------------------------------------------
(* The other steps.                                                        *)

LEMMA AcceptKeepsData ==
  ASSUME IInv, DataInv, NEW c \in Clients, Accept(c)
  PROVE  DataInv'
<1> DEFINE pkt == slot[c][1]
           t == pkt.tid
           N == Cardinality(DOMAIN meta)
           new == [pos |-> N, len |-> Len(pkt.beats), acked |-> acked]
<1>1. /\ slot[c] # <<>> /\ MemPop(pkt) /\ slot' = [slot EXCEPT ![c] = <<>>]
      /\ meta' = [u \in DOMAIN meta \cup {t} |-> IF u = t THEN new ELSE meta[u]]
      /\ UNCHANGED <<version, acked>>
  BY DEF Accept
<1>2. IsBurst(pkt) /\ slot = [d \in Clients |-> slot[d]]
  BY <1>1 DEF IInv, ClientInv, Slots
<1>3. t \notin DOMAIN meta
  BY <1>1, AcceptIsFresh
<1>4. t \notin InUse
  BY <1>3 DEF IInv, ClientInv, Logged
<1>5. /\ Held(mresp)' = Held(mresp)
      /\ beatEvents' = beatEvents \cup BeatEvents(pkt)
      /\ DOMAIN pending_' = DOMAIN pending_ \cup {t}
      /\ \A u \in DOMAIN pending_ : pending_'[u] = pending_[u]
      /\ pending_'[t] = [expected |-> Len(pkt.beats), rbeats |-> <<>>, wbeats |-> <<>>]
  BY <1>1, <1>2, <1>4, PopKeepsMemInv DEF IInv
<1>6. mem' = mem /\ mresp' = trySendPacket(mresp)
  BY <1>1 DEF MemPop
<1>7. /\ \A e \in BeatEvents(pkt) :
           /\ e.tid = t /\ e.kind = pkt.kind /\ e.caller = pkt.caller
           /\ e.i \in 1 .. Len(pkt.beats) /\ e.beat = pkt.beats[e.i]
      /\ Len(pkt.beats) \in Nat
  BY <1>2, BurstEvents, LenIsNat DEF IsBurst
<1>8. /\ pending_'[t].expected = Len(pkt.beats) /\ pending_'[t].rbeats = <<>>
      /\ Collected(pending_'[t]) = 0
  BY <1>5, EmptyIsSeq DEF Collected
<1>9. /\ DOMAIN meta' = DOMAIN meta \cup {t}
      /\ \A u \in DOMAIN meta : meta'[u] = meta[u]
      /\ meta'[t].pos = N /\ meta'[t].acked = acked
  BY <1>1, <1>3
<1>10. /\ pkt.caller = c
       /\ pkt.kind = "rd" => \A k \in 1 .. Len(pkt.beats) : IsReadBeat(pkt.beats[k])
       /\ pkt.kind = "wr" =>
            /\ c \in Writers /\ Len(pkt.beats) = 4
            /\ \A k \in 1 .. 4 : pkt.beats[k] = WriteBeat(c, k, version[c])
            /\ \A e \in beatEvents : e.kind = "wr" /\ e.caller = c => Ver(e) < version[c]
            /\ \A j \in 1 .. 4 : Cell(c, j) < version[c]
  BY <1>1 DEF DataInv, SlotData
<1> HIDE DEF pkt, t, N, new
<1>11. \A d, j : Cell(d, j)' = Cell(d, j)
  BY <1>6 DEF Cell
<1>12. Cells'
  <2>1. \A d : Unread(mresp', d) = Unread(mresp, d)
    BY <1>6, UnreadSend DEF IInv, MemInv, Typed
  <2> QED BY <2>1, <1>1, <1>6, <1>11 DEF DataInv, Cells
<1>13. SlotData'
  <2> SUFFICES ASSUME NEW d \in Clients, slot'[d] # <<>>
               PROVE  LET q == slot'[d][1]
                      IN  /\ q.caller = d
                          /\ q.kind = "rd" => \A k \in 1 .. Len(q.beats) : IsReadBeat(q.beats[k])
                          /\ q.kind = "wr" =>
                               /\ d \in Writers /\ Len(q.beats) = 4
                               /\ \A k \in 1 .. 4 : q.beats[k] = WriteBeat(d, k, version'[d])
                               /\ \A e \in beatEvents' : e.kind = "wr" /\ e.caller = d => Ver(e) < version'[d]
                               /\ \A j \in 1 .. 4 : Cell(d, j)' < version'[d]
    BY DEF SlotData, Ver, IsReadBeat, WriteBeat
  <2>1. slot'[d] = slot[d] /\ d # c
    BY <1>1, <1>2
  <2>2. \A e \in BeatEvents(pkt) : e.caller # d
    BY <2>1, <1>7, <1>10
  <2> QED BY <2>1, <2>2, <1>1, <1>5, <1>11 DEF DataInv, SlotData
<1>14. ASSUME NEW e \in BeatEvents(pkt), e.kind = "wr"
       PROVE  /\ e.caller = c /\ c \in Writers /\ e.i \in 1 .. 4 /\ Ver(e) = version[c]
              /\ e.beat = WriteBeat(c, e.i, version[c]) /\ version[c] \in Nat
  <2>1. /\ e.caller = c /\ c \in Writers /\ e.i \in 1 .. 4
        /\ e.beat = WriteBeat(c, e.i, version[c])
    BY <1>7, <1>10, <1>14
  <2>2. WriteBeat(c, e.i, version[c]).data[1] = version[c]
    BY DEF WriteBeat
  <2> QED BY <2>1, <2>2 DEF Ver, DataInv, Cells
<1>15. \A e \in beatEvents : e.tid \in DOMAIN pending_ /\ e.tid \in DOMAIN meta
  BY DEF IInv, MemInv, Scheduled, ClientInv, Logged, InUse
<1>16. EventData'
  <2>1. ASSUME NEW e \in beatEvents'
        PROVE  /\ e.kind = "rd" => IsReadBeat(e.beat)
               /\ e.kind = "wr" =>
                    /\ e.caller \in Writers /\ pending_'[e.tid].expected = 4
                    /\ Ver(e) \in Nat /\ e.beat = WriteBeat(e.caller, e.i, Ver(e))
                    /\ Ver(e) <= version'[e.caller]
                    /\ Cell(e.caller, e.i)' < Ver(e)
                    /\ \A j \in 1 .. Collected(pending_'[e.tid]) : Ver(e) <= Cell(e.caller, j)'
    <3>1. CASE e \in beatEvents
      BY <3>1, <1>1, <1>5, <1>11, <1>15 DEF DataInv, EventData
    <3>2. CASE e \in BeatEvents(pkt) /\ e.kind = "wr"
      <4>1. /\ e.tid = t /\ e.caller = c /\ c \in Writers /\ e.i \in 1 .. 4
            /\ Ver(e) = version[c] /\ version[c] \in Nat
            /\ e.beat = WriteBeat(c, e.i, version[c])
        BY <3>2, <1>7, <1>14
      <4>2. pending_'[e.tid].expected = 4 /\ Collected(pending_'[e.tid]) = 0
        BY <3>2, <4>1, <1>7, <1>8, <1>10
      <4>3. Cell(c, e.i) < version[c]
        BY <3>2, <4>1, <1>7, <1>10
      <4>4. \A j \in 1 .. Collected(pending_'[e.tid]) : Ver(e) <= Cell(e.caller, j)'
        <5>1. 1 .. Collected(pending_'[e.tid]) = {}
          BY <4>2
        <5> QED BY <5>1
      <4> QED BY <3>2, <4>1, <4>2, <4>3, <4>4, <1>1, <1>11
    <3>3. CASE e \in BeatEvents(pkt) /\ e.kind = "rd"
      BY <3>3, <1>7, <1>10
    <3> QED BY <3>1, <3>2, <3>3, <1>5
  <2>2. ASSUME NEW e \in beatEvents', NEW f \in beatEvents', e.kind = "wr", f.kind = "wr"
        PROVE  /\ e.tid = f.tid => e.caller = f.caller /\ Ver(e) = Ver(f)
               /\ e.caller = f.caller /\ Ver(e) <= Ver(f) =>
                    e.tid = f.tid \/ meta'[e.tid].pos < meta'[f.tid].pos
    <3>1. CASE e \in beatEvents /\ f \in beatEvents
      BY <2>2, <3>1, <1>9, <1>15 DEF DataInv, EventData
    <3>2. CASE e \in BeatEvents(pkt) /\ f \in BeatEvents(pkt)
      BY <2>2, <3>2, <1>7, <1>14
    <3>3. CASE e \in beatEvents /\ f \in BeatEvents(pkt)
      <4>1. e.tid # f.tid
        BY <3>3, <1>3, <1>7, <1>15
      <4>2. meta'[e.tid].pos < meta'[f.tid].pos
        BY <3>3, <1>7, <1>9, <1>15 DEF IInv, ClientInv, Logged, N
      <4> QED BY <4>1, <4>2
    <3>4. CASE e \in BeatEvents(pkt) /\ f \in beatEvents
      <4>1. e.tid # f.tid
        BY <3>4, <1>3, <1>7, <1>15
      <4>2. ASSUME e.caller = f.caller PROVE ~ (Ver(e) <= Ver(f))
        <5>1. Ver(f) < version[c] /\ Ver(e) = version[c] /\ version[c] \in Nat
          BY <2>2, <3>4, <4>2, <1>7, <1>10, <1>14
        <5>2. Ver(f) \in Nat
          BY <2>2, <3>4 DEF DataInv, EventData
        <5> QED BY <5>1, <5>2
      <4> QED BY <4>1, <4>2
    <3> QED BY <3>1, <3>2, <3>3, <3>4, <1>5
  <2> QED BY <2>1, <2>2 DEF EventData, Ver, IsReadBeat, WriteBeat
<1>17. ReadData'
  <2>1. ASSUME NEW u \in DOMAIN meta'
        PROVE  /\ meta'[u].acked \in [Writers -> Nat]
               /\ \A d \in Writers : meta'[u].acked[d] <= acked'[d]
    <3>1. CASE u = t
      BY <3>1, <1>1, <1>9 DEF DataInv, Cells
    <3>2. CASE u \in DOMAIN meta
      BY <3>2, <1>1, <1>9 DEF DataInv, ReadData
    <3> QED BY <3>1, <3>2, <1>9
  <2>2. ASSUME NEW u \in DOMAIN pending_', NEW k \in 1 .. Len(pending_'[u].rbeats)
        PROVE  Visible(meta'[u].acked, version', pending_'[u].rbeats[k])
    <3>1. CASE u = t
      BY <3>1, <1>8, EmptyIsSeq
    <3>2. CASE u \in DOMAIN pending_
      <4>1. u \in DOMAIN meta
        BY <3>2 DEF IInv, ClientInv, Logged, InUse
      <4> QED BY <3>2, <4>1, <1>1, <1>5, <1>9 DEF DataInv, ReadData
    <3> QED BY <3>1, <3>2, <1>5
  <2>3. ASSUME NEW r \in Held(mresp)'
        PROVE  /\ r.kind = "wr" => r.caller \in Writers
               /\ r.kind = "rd" =>
                    \A k \in 1 .. Len(r.beats) : Visible(meta'[r.tid].acked, version', r.beats[k])
    <3>1. r \in Held(mresp) /\ r.tid \in DOMAIN meta
      BY <1>5 DEF IInv, ClientInv, Logged, InUse
    <3> QED BY <3>1, <1>1, <1>9 DEF DataInv, ReadData
  <2> QED BY <2>1, <2>2, <2>3 DEF ReadData
<1> QED BY <1>12, <1>13, <1>16, <1>17 DEF DataInv

-----------------------------------------------------------------------------
(* Beats: loads and stores.                                                *)

\* A stored beat changes one word of one region.
LEMMA StoreCells ==
  ASSUME Cells, NEW d \in Writers, NEW i \in 1 .. 4, NEW v,
         mem' = Store("SW", Base[d] + 4 * (i - 1), <<v, v, v, v>>)
  PROVE  /\ mem' = [a \in 0 .. MemSize - 1 |-> mem'[a]]
         /\ Cell(d, i)' = v
         /\ \A g \in Writers, j \in 1 .. 4 : g # d \/ j # i => Cell(g, j)' = Cell(g, j)
<1> DEFINE w == <<v, v, v, v>>
           b == Base[d] + 4 * (i - 1)
<1>1. mem' = [a \in DOMAIN mem |-> IF a \in b .. b + 3 THEN w[a - b + 1] ELSE mem[a]]
  BY DEF Store
<1>2. w[1] = v
  OBVIOUS
<1> HIDE DEF w
<1>3. DOMAIN mem = 0 .. MemSize - 1
  BY DEF Cells
<1>4. Base[d] \in Nat /\ Base[d] + 16 <= MemSize /\ MemSize \in Nat
  BY ClientsAssumption, RegionsAssumption, MemSizeAssumption
<1>5. b \in 0 .. MemSize - 1 /\ b \in b .. b + 3 /\ b - b + 1 = 1
  BY <1>4
<1>6. Cell(d, i)' = v
  <2>1. Cell(d, i)' = mem'[b]
    BY DEF Cell
  <2> QED BY <2>1, <1>1, <1>2, <1>3, <1>5
<1>7. ASSUME NEW g \in Writers, NEW j \in 1 .. 4, g # d \/ j # i
      PROVE  Cell(g, j)' = Cell(g, j)
  <2> DEFINE a == Base[g] + 4 * (j - 1)
  <2>1. Base[g] \in Nat /\ Base[g] + 16 <= MemSize
    BY ClientsAssumption, RegionsAssumption
  <2>2. a \in 0 .. MemSize - 1
    BY <2>1, <1>4
  <2>3. a \notin b .. b + 3
    <3>1. CASE g = d
      BY <3>1, <1>4, <1>7
    <3>2. CASE g # d
      <4>1. Base[g] + 16 <= Base[d] \/ Base[d] + 16 <= Base[g]
        BY <3>2, RegionsAssumption
      <4> QED BY <4>1, <2>1, <1>4
    <3> QED BY <3>1, <3>2
  <2>4. Cell(g, j)' = mem'[a] /\ Cell(g, j) = mem[a]
    BY DEF Cell
  <2> HIDE DEF a, b
  <2> QED BY <2>2, <2>3, <2>4, <1>1, <1>3
<1>8. mem' = [a \in 0 .. MemSize - 1 |-> mem'[a]]
  BY <1>1, <1>3
<1> QED BY <1>6, <1>7, <1>8

\* What a step that carries out e leaves alone.
LEMMA CarriedFrame ==
  ASSUME MemInv, MemInv', NEW e, NEW beats, Carried(e, beats)
  PROVE  /\ \A f \in beatEvents' :
              /\ f \in beatEvents /\ f # e /\ f.tid \in DOMAIN pending_'
              /\ f.tid # e.tid => pending_'[f.tid] = pending_[f.tid]
              /\ f.tid = e.tid => /\ pending_'[f.tid].expected = pending_[f.tid].expected
                                  /\ Collected(pending_'[f.tid]) = e.i
         /\ DOMAIN pending_' \subseteq DOMAIN pending_
         /\ \A t \in DOMAIN pending_' : t # e.tid => pending_'[t] = pending_[t]
         /\ e.tid \in DOMAIN pending_' =>
              pending_'[e.tid].rbeats = IF e.kind = "rd" THEN beats ELSE <<>>
         /\ \/ mresp' = mresp
            \/ /\ e.i = pending_[e.tid].expected
               /\ mresp' = Enqueue(mresp, [tid    |-> e.tid,    kind  |-> e.kind,
                                           caller |-> e.caller, beats |-> beats])
<1>1. /\ \A f \in beatEvents' : f \in beatEvents /\ f # e
      /\ DOMAIN pending_' \subseteq DOMAIN pending_
      /\ \A t \in DOMAIN pending_' : t # e.tid => pending_'[t] = pending_[t]
  BY DEF Carried
<1>2. \A f \in beatEvents' : f.tid \in DOMAIN pending_'
  BY DEF MemInv, Scheduled
<1>3. ASSUME NEW f \in beatEvents', f.tid = e.tid
      PROVE  /\ pending_'[f.tid].expected = pending_[f.tid].expected
             /\ Collected(pending_'[f.tid]) = e.i
  BY <1>3 DEF Carried
<1>4. e.tid \in DOMAIN pending_' =>
        pending_'[e.tid].rbeats = IF e.kind = "rd" THEN beats ELSE <<>>
  BY DEF Carried
<1>5. \/ mresp' = mresp
      \/ /\ e.i = pending_[e.tid].expected
         /\ mresp' = Enqueue(mresp, [tid    |-> e.tid,    kind  |-> e.kind,
                                     caller |-> e.caller, beats |-> beats])
  BY DEF Carried
<1> QED BY <1>1, <1>2, <1>3, <1>4, <1>5

\* A load sees its word, which is no older than any answered write.
LEMMA ReadBeatKeepsData ==
  ASSUME IInv, IInv', DataInv, NEW e \in beatEvents, e.kind = "rd",
         Carried(e, Append(pending_[e.tid].rbeats,
                           [imm |-> e.beat.imm, data |-> Load(e.beat.op, e.beat.addr)])),
         UNCHANGED <<mem, slot, version, acked, meta>>
  PROVE  DataInv'
<1> DEFINE t == e.tid
           b == [imm |-> e.beat.imm, data |-> Load(e.beat.op, e.beat.addr)]
           old == pending_[t].rbeats
           beats == Append(old, b)
           resp == [tid |-> e.tid, kind |-> e.kind, caller |-> e.caller, beats |-> beats]
<1>1. MemInv /\ MemInv'
  BY DEF IInv
<1>2. /\ \A f \in beatEvents' :
           /\ f \in beatEvents /\ f # e /\ f.tid \in DOMAIN pending_'
           /\ f.tid # t => pending_'[f.tid] = pending_[f.tid]
      /\ DOMAIN pending_' \subseteq DOMAIN pending_
      /\ \A u \in DOMAIN pending_' : u # t => pending_'[u] = pending_[u]
      /\ t \in DOMAIN pending_' => pending_'[t].rbeats = beats
      /\ mresp' = mresp \/ mresp' = Enqueue(mresp, resp)
  BY <1>1, CarriedFrame
<1>3. t \in DOMAIN pending_ /\ t \in DOMAIN meta /\ IsTracker(pending_[t])
  BY <1>1 DEF MemInv, Scheduled, Typed, IInv, ClientInv, Logged, InUse
<1>4. Visible(meta[t].acked, version, b)
  <2>1. e.beat.op = "LW" /\ e.beat.imm \in Writers
        /\ \E j \in 1 .. 4 : e.beat.addr = Base[e.beat.imm] + 4 * (j - 1)
    BY DEF DataInv, EventData, IsReadBeat
  <2>2. PICK j \in 1 .. 4 : e.beat.addr = Base[e.beat.imm] + 4 * (j - 1)
    BY <2>1
  <2> DEFINE d == e.beat.imm
  <2>3. b.imm = d /\ b.data[1] = Cell(d, j)
    <3>1. Load("LW", e.beat.addr) = WordAt(e.beat.addr)
      BY DEF Load
    <3>2. WordAt(e.beat.addr)[1] = mem[e.beat.addr]
      BY DEF WordAt
    <3> QED BY <2>1, <2>2, <3>1, <3>2 DEF Cell
  <2> HIDE DEF b
  <2>4. /\ Cell(d, j) \in Nat /\ Cell(d, j) <= version[d]
        /\ acked[d] + Unread(mresp, d) <= Cell(d, j) /\ acked[d] \in Nat
    BY <2>1 DEF DataInv, Cells
  <2>5. meta[t].acked[d] \in Nat /\ meta[t].acked[d] <= acked[d]
    BY <2>1, <1>3 DEF DataInv, ReadData
  <2>6. Unread(mresp, d) \in Nat
    BY <1>1, UnreadIsNat DEF MemInv, Typed
  <2>7. meta[t].acked[d] <= Cell(d, j)
    BY <2>4, <2>5, <2>6
  <2> QED BY <2>1, <2>3, <2>4, <2>7 DEF Visible
<1>5. \A k \in 1 .. Len(beats) : Visible(meta[t].acked, version, beats[k])
  <2> DEFINE n == Len(old)
  <2>1. /\ n \in Nat /\ Len(beats) = n + 1 /\ beats[n + 1] = b
        /\ \A k \in 1 .. n : beats[k] = old[k]
    BY <1>3, AppendIsSeq, LenIsNat DEF IsTracker
  <2>2. \A k \in 1 .. n : Visible(meta[t].acked, version, old[k])
    BY <1>3 DEF DataInv, ReadData
  <2> HIDE DEF n, beats, b, old
  <2> SUFFICES ASSUME NEW k \in 1 .. n + 1 PROVE Visible(meta[t].acked, version, beats[k])
    BY <2>1
  <2>3. CASE k \in 1 .. n
    BY <2>1, <2>2, <2>3
  <2>4. CASE k = n + 1
    BY <2>1, <2>4, <1>4
  <2>5. k \in 1 .. n \/ k = n + 1
    BY <2>1
  <2> QED BY <2>3, <2>4, <2>5
<1>6. resp.tid = t /\ resp.kind = "rd" /\ resp.beats = beats
  OBVIOUS
<1> HIDE DEF resp, beats, b, old
<1>7. IsPort(mresp) /\ Held(mresp)' \subseteq Held(mresp) \cup {resp}
  <2>1. IsPort(mresp)
    BY <1>1 DEF MemInv, Typed
  <2> QED BY <2>1, <1>2, EnqueueIsPort
<1>8. \A d : Unread(mresp', d) = Unread(mresp, d)
  <2> SUFFICES ASSUME NEW d PROVE Unread(mresp', d) = Unread(mresp, d)
    OBVIOUS
  <2>1. Unread(Enqueue(mresp, resp), d) = Unread(mresp, d) + 0
    BY <1>6, <1>7, UnreadEnqueue
  <2>2. Unread(mresp, d) \in Nat
    BY <1>7, UnreadIsNat
  <2> QED BY <2>1, <2>2, <1>2
<1>9. \A d, j : Cell(d, j)' = Cell(d, j)
  BY DEF Cell
<1>10. Cells'
  BY <1>8, <1>9 DEF DataInv, Cells
<1>11. SlotData'
  <2> SUFFICES ASSUME NEW d \in Clients, slot'[d] # <<>>
               PROVE  LET q == slot'[d][1]
                      IN  /\ q.caller = d
                          /\ q.kind = "rd" => \A k \in 1 .. Len(q.beats) : IsReadBeat(q.beats[k])
                          /\ q.kind = "wr" =>
                               /\ d \in Writers /\ Len(q.beats) = 4
                               /\ \A k \in 1 .. 4 : q.beats[k] = WriteBeat(d, k, version'[d])
                               /\ \A f \in beatEvents' : f.kind = "wr" /\ f.caller = d => Ver(f) < version'[d]
                               /\ \A j \in 1 .. 4 : Cell(d, j)' < version'[d]
    BY DEF SlotData, Ver, IsReadBeat, WriteBeat
  <2> QED BY <1>2, <1>9 DEF DataInv, SlotData
<1>12. EventData'
  <2>1. ASSUME NEW f \in beatEvents'
        PROVE  /\ f.kind = "rd" => IsReadBeat(f.beat)
               /\ f.kind = "wr" =>
                    /\ f.caller \in Writers /\ pending_'[f.tid].expected = 4
                    /\ Ver(f) \in Nat /\ f.beat = WriteBeat(f.caller, f.i, Ver(f))
                    /\ Ver(f) <= version'[f.caller]
                    /\ Cell(f.caller, f.i)' < Ver(f)
                    /\ \A j \in 1 .. Collected(pending_'[f.tid]) : Ver(f) <= Cell(f.caller, j)'
    <3>1. f.kind = "wr" => f.tid # t
      BY <1>1, <1>2 DEF MemInv, Paced
    <3> QED BY <3>1, <1>2, <1>9 DEF DataInv, EventData
  <2>2. \A f, g \in beatEvents' :
          f.kind = "wr" /\ g.kind = "wr" =>
            /\ f.tid = g.tid => f.caller = g.caller /\ Ver(f) = Ver(g)
            /\ f.caller = g.caller /\ Ver(f) <= Ver(g) =>
                 f.tid = g.tid \/ meta'[f.tid].pos < meta'[g.tid].pos
    BY <1>2 DEF DataInv, EventData
  <2> QED BY <2>1, <2>2 DEF EventData, Ver, IsReadBeat, WriteBeat
<1>13. ReadData'
  <2>1. ASSUME NEW u \in DOMAIN pending_', NEW k \in 1 .. Len(pending_'[u].rbeats)
        PROVE  Visible(meta[u].acked, version, pending_'[u].rbeats[k])
    <3>1. CASE u = t
      BY <3>1, <1>2, <1>5
    <3>2. CASE u # t
      BY <3>2, <1>2 DEF DataInv, ReadData
    <3> QED BY <3>1, <3>2
  <2>2. ASSUME NEW r \in Held(mresp)'
        PROVE  /\ r.kind = "wr" => r.caller \in Writers
               /\ r.kind = "rd" =>
                    \A k \in 1 .. Len(r.beats) : Visible(meta[r.tid].acked, version, r.beats[k])
    <3>1. CASE r = resp
      BY <3>1, <1>5, <1>6
    <3>2. CASE r \in Held(mresp)
      BY <3>2 DEF DataInv, ReadData
    <3> QED BY <3>1, <3>2, <1>7
  <2>3. \A u \in DOMAIN meta :
          meta[u].acked \in [Writers -> Nat] /\ \A d \in Writers : meta[u].acked[d] <= acked[d]
    BY DEF DataInv, ReadData
  <2> QED BY <2>1, <2>2, <2>3 DEF ReadData
<1> QED BY <1>10, <1>11, <1>12, <1>13 DEF DataInv

\* A store makes its word newer, and older than the other stores scheduled
\* for it; the store that completes a burst is the last of its four words.
LEMMA WriteBeatKeepsData ==
  ASSUME IInv, IInv', DataInv, NEW e \in beatEvents, e.kind = "wr", NEW beats, Carried(e, beats),
         mem' = Store(e.beat.op, e.beat.addr, e.beat.data),
         UNCHANGED <<slot, version, acked, meta>>
  PROVE  DataInv'
<1> DEFINE t == e.tid
           d == e.caller
           v == Ver(e)
           resp == [tid |-> e.tid, kind |-> e.kind, caller |-> e.caller, beats |-> beats]
<1>1. MemInv /\ MemInv'
  BY DEF IInv
<1>2. /\ \A f \in beatEvents' :
           /\ f \in beatEvents /\ f # e /\ f.tid \in DOMAIN pending_'
           /\ f.tid # t => pending_'[f.tid] = pending_[f.tid]
           /\ f.tid = t => /\ pending_'[f.tid].expected = pending_[f.tid].expected
                           /\ Collected(pending_'[f.tid]) = e.i
      /\ DOMAIN pending_' \subseteq DOMAIN pending_
      /\ \A u \in DOMAIN pending_' : u # t => pending_'[u] = pending_[u]
      /\ t \in DOMAIN pending_' => pending_'[t].rbeats = <<>>
      /\ mresp' = mresp \/ (e.i = pending_[t].expected /\ mresp' = Enqueue(mresp, resp))
  BY <1>1, CarriedFrame
<1>3. /\ d \in Writers /\ pending_[t].expected = 4 /\ v \in Nat
      /\ e.beat = WriteBeat(d, e.i, v) /\ v <= version[d] /\ Cell(d, e.i) < v
      /\ \A j \in 1 .. Collected(pending_[t]) : v <= Cell(d, j)
  BY DEF DataInv, EventData
<1>4. e.i = Collected(pending_[t]) + 1 /\ e.i \in 1 .. 4 /\ e.due = 0
  <2>1. e.i = Collected(pending_[t]) + 1 /\ e.due = 0
    BY DEF Carried
  <2>2. e.i \in Nat \ {0} /\ e.i <= pending_[t].expected
    BY <1>1 DEF MemInv, Typed, IsEvent, Scheduled
  <2> QED BY <2>1, <2>2, <1>3
<1>5. /\ version \in [Writers -> Nat] /\ acked \in [Writers -> Nat]
      /\ \A g \in Writers, j \in 1 .. 4 :
           /\ Cell(g, j) \in Nat /\ Cell(g, j) <= version[g]
           /\ acked[g] + Unread(mresp, g) <= Cell(g, j)
  BY DEF DataInv, Cells
<1>6. /\ mem' = [a \in 0 .. MemSize - 1 |-> mem'[a]]
      /\ Cell(d, e.i)' = v
      /\ \A g \in Writers, j \in 1 .. 4 : g # d \/ j # e.i => Cell(g, j)' = Cell(g, j)
  <2>1. Cells
    BY DEF DataInv
  <2>2. mem' = Store("SW", Base[d] + 4 * (e.i - 1), <<v, v, v, v>>)
    BY <1>3 DEF WriteBeat
  <2> HIDE DEF v, d
  <2> QED BY <2>1, <2>2, <1>3, <1>4, StoreCells
<1>7. resp.tid = t /\ resp.kind = "wr" /\ resp.caller = d
  OBVIOUS
<1> HIDE DEF resp, v
<1>8. \A g \in Writers, j \in 1 .. 4 :
        Cell(g, j)' \in Nat /\ Cell(g, j)' <= version[g] /\ Cell(g, j) <= Cell(g, j)'
  <2> SUFFICES ASSUME NEW g \in Writers, NEW j \in 1 .. 4
               PROVE  Cell(g, j)' \in Nat /\ Cell(g, j)' <= version[g] /\ Cell(g, j) <= Cell(g, j)'
    OBVIOUS
  <2>1. CASE g # d \/ j # e.i
    BY <2>1, <1>5, <1>6
  <2>2. CASE g = d /\ j = e.i
    BY <2>2, <1>3, <1>5, <1>6
  <2> QED BY <2>1, <2>2
<1>9. IsPort(mresp) /\ Held(mresp)' \subseteq Held(mresp) \cup {resp}
  <2>1. IsPort(mresp)
    BY <1>1 DEF MemInv, Typed
  <2> QED BY <2>1, <1>2, EnqueueIsPort
<1>10. Cells'
  <2> SUFFICES ASSUME NEW g \in Writers, NEW j \in 1 .. 4
               PROVE  acked[g] + Unread(mresp', g) <= Cell(g, j)'
    BY <1>5, <1>6, <1>8 DEF Cells
  <2>1. Unread(mresp, g) \in Nat /\ acked[g] \in Nat
    BY <1>5, <1>9, UnreadIsNat
  <2>2. /\ Cell(g, j) \in Nat /\ Cell(g, j)' \in Nat /\ Cell(g, j) <= Cell(g, j)'
        /\ acked[g] + Unread(mresp, g) <= Cell(g, j)
    BY <1>5, <1>8
  <2>3. CASE mresp' = mresp \/ g # d
    <3>1. Unread(mresp', g) = Unread(mresp, g)
      <4>1. CASE mresp' = mresp
        BY <4>1
      <4>2. CASE mresp' = Enqueue(mresp, resp) /\ g # d
        <5>1. Unread(mresp', g) = Unread(mresp, g) + 0
          BY <4>2, <1>7, <1>9, UnreadEnqueue
        <5> QED BY <5>1, <2>1
      <4> QED BY <4>1, <4>2, <2>3, <1>2
    <3> QED BY <3>1, <2>1, <2>2
  <2>4. CASE mresp' # mresp /\ g = d
    <3>1. mresp' = Enqueue(mresp, resp) /\ e.i = 4
      BY <2>4, <1>2, <1>3
    <3>2. Unread(mresp', d) = Unread(mresp, d) + 1
      BY <3>1, <1>7, <1>9, UnreadEnqueue
    <3>3. Cell(d, 4) \in Nat /\ Cell(d, 4) < v /\ acked[d] + Unread(mresp, d) <= Cell(d, 4)
      BY <3>1, <1>3, <1>5
    <3>4. v <= Cell(d, j)'
      <4>1. CASE j = 4
        BY <4>1, <3>1, <1>3, <1>6
      <4>2. CASE j # 4
        <5>1. j \in 1 .. Collected(pending_[t])
          <6>1. Collected(pending_[t]) \in Nat
            BY <1>1, CollectedIsNat DEF MemInv, Typed, Scheduled
          <6> QED BY <6>1, <4>2, <3>1, <1>4
        <5> QED BY <5>1, <4>2, <3>1, <1>3, <1>6
      <4> QED BY <4>1, <4>2
    <3> QED BY <3>2, <3>3, <3>4, <2>1, <2>2, <2>4, <1>3
  <2> QED BY <2>3, <2>4
<1>11. SlotData'
  <2> SUFFICES ASSUME NEW c \in Clients, slot'[c] # <<>>
               PROVE  LET q == slot'[c][1]
                      IN  /\ q.caller = c
                          /\ q.kind = "rd" => \A k \in 1 .. Len(q.beats) : IsReadBeat(q.beats[k])
                          /\ q.kind = "wr" =>
                               /\ c \in Writers /\ Len(q.beats) = 4
                               /\ \A k \in 1 .. 4 : q.beats[k] = WriteBeat(c, k, version'[c])
                               /\ \A f \in beatEvents' : f.kind = "wr" /\ f.caller = c => Ver(f) < version'[c]
                               /\ \A j \in 1 .. 4 : Cell(c, j)' < version'[c]
    BY DEF SlotData, Ver, IsReadBeat, WriteBeat
  <2>1. ASSUME slot[c][1].kind = "wr", NEW j \in 1 .. 4 PROVE Cell(c, j)' < version[c]
    <3>1. c \in Writers /\ Cell(c, j) < version[c] /\ (d = c => v < version[c])
      BY <2>1 DEF DataInv, SlotData, v
    <3>2. CASE c # d \/ j # e.i
      BY <3>1, <3>2, <1>6
    <3>3. CASE c = d /\ j = e.i
      BY <3>1, <3>3, <1>6
    <3> QED BY <3>2, <3>3
  <2> QED BY <2>1, <1>2 DEF DataInv, SlotData
<1>12. EventData'
  <2>1. ASSUME NEW f \in beatEvents'
        PROVE  /\ f.kind = "rd" => IsReadBeat(f.beat)
               /\ f.kind = "wr" =>
                    /\ f.caller \in Writers /\ pending_'[f.tid].expected = 4
                    /\ Ver(f) \in Nat /\ f.beat = WriteBeat(f.caller, f.i, Ver(f))
                    /\ Ver(f) <= version'[f.caller]
                    /\ Cell(f.caller, f.i)' < Ver(f)
                    /\ \A j \in 1 .. Collected(pending_'[f.tid]) : Ver(f) <= Cell(f.caller, j)'
    <3>1. f \in beatEvents /\ f # e
      BY <1>2
    <3>2. f.kind = "rd" => IsReadBeat(f.beat)
      BY <3>1 DEF DataInv, EventData
    <3> SUFFICES ASSUME f.kind = "wr"
                 PROVE  /\ f.caller \in Writers /\ pending_'[f.tid].expected = 4
                        /\ Ver(f) \in Nat /\ f.beat = WriteBeat(f.caller, f.i, Ver(f))
                        /\ Ver(f) <= version[f.caller]
                        /\ Cell(f.caller, f.i)' < Ver(f)
                        /\ \A j \in 1 .. Collected(pending_'[f.tid]) : Ver(f) <= Cell(f.caller, j)'
      BY <3>2
    <3>3. /\ f.caller \in Writers /\ pending_[f.tid].expected = 4
          /\ Ver(f) \in Nat /\ f.beat = WriteBeat(f.caller, f.i, Ver(f))
          /\ Ver(f) <= version[f.caller]
          /\ Cell(f.caller, f.i) < Ver(f)
          /\ \A j \in 1 .. Collected(pending_[f.tid]) : Ver(f) <= Cell(f.caller, j)
      BY <3>1 DEF DataInv, EventData
    <3>4. /\ f.i \in 1 .. 4 /\ f.due \in Nat
          /\ Collected(pending_[f.tid]) < 4 /\ Collected(pending_[f.tid]) \in Nat
      <4>1. /\ f.i \in Nat \ {0} /\ f.due \in Nat /\ f.i <= pending_[f.tid].expected
            /\ Collected(pending_[f.tid]) < pending_[f.tid].expected
            /\ IsTracker(pending_[f.tid])
        BY <3>1, <1>1 DEF MemInv, Typed, IsEvent, Scheduled
      <4>2. Collected(pending_[f.tid]) \in Nat
        BY <4>1, CollectedIsNat
      <4> QED BY <4>1, <4>2, <3>3
    <3>5. pending_'[f.tid].expected = 4
      BY <3>3, <1>2
    <3>6. Cell(f.caller, f.i)' < Ver(f)
      <4>1. CASE f.caller # d \/ f.i # e.i
        BY <4>1, <3>3, <3>4, <1>6
      <4>2. CASE f.caller = d /\ f.i = e.i
        <5>1. f.tid # t
          BY <4>2, <3>1, <1>1 DEF MemInv, Paced
        <5>2. ASSUME Ver(f) <= v PROVE FALSE
          <6>1. meta[f.tid].pos < meta[t].pos
            BY <5>1, <5>2, <4>2, <3>1 DEF DataInv, EventData, v
          <6>2. f.due - f.i < e.due - e.i
            BY <6>1, <3>1 DEF IInv, ClientInv, PopOrder
          <6> QED BY <6>2, <4>2, <3>4, <1>4
        <5> QED BY <5>2, <4>2, <3>3, <1>3, <1>6
      <4> QED BY <4>1, <4>2
    <3>7. ASSUME NEW j \in 1 .. Collected(pending_'[f.tid]) PROVE Ver(f) <= Cell(f.caller, j)'
      <4>1. CASE f.tid # t
        <5>1. j \in 1 .. Collected(pending_[f.tid])
          BY <4>1, <1>2
        <5>2. j \in 1 .. 4 /\ Ver(f) <= Cell(f.caller, j)
          BY <5>1, <3>3, <3>4
        <5>3. /\ Cell(f.caller, j) \in Nat /\ Cell(f.caller, j)' \in Nat
              /\ Cell(f.caller, j) <= Cell(f.caller, j)'
          BY <5>2, <3>3, <1>5, <1>8
        <5> QED BY <5>2, <5>3, <3>3
      <4>2. CASE f.tid = t
        <5>1. f.caller = d /\ Ver(f) = v /\ j \in 1 .. e.i
          <6>1. f.caller = d /\ Ver(f) = v
            BY <4>2, <3>1 DEF DataInv, EventData, v
          <6>2. Collected(pending_'[f.tid]) = e.i
            BY <4>2, <1>2
          <6> QED BY <6>1, <6>2
        <5>2. CASE j = e.i
          BY <5>1, <5>2, <1>3, <1>6
        <5>3. CASE j # e.i
          <6>1. j \in 1 .. Collected(pending_[t]) /\ j \in 1 .. 4
            BY <5>1, <5>3, <4>2, <3>4, <1>4
          <6> QED BY <6>1, <5>1, <5>3, <1>3, <1>6
        <5> QED BY <5>2, <5>3
      <4> QED BY <4>1, <4>2
    <3> QED BY <3>3, <3>5, <3>6, <3>7
  <2>2. \A f, g \in beatEvents' :
          f.kind = "wr" /\ g.kind = "wr" =>
            /\ f.tid = g.tid => f.caller = g.caller /\ Ver(f) = Ver(g)
            /\ f.caller = g.caller /\ Ver(f) <= Ver(g) =>
                 f.tid = g.tid \/ meta'[f.tid].pos < meta'[g.tid].pos
    BY <1>2 DEF DataInv, EventData
  <2> QED BY <2>1, <2>2 DEF EventData, Ver, IsReadBeat, WriteBeat
<1>13. ReadData'
  <2>1. ASSUME NEW u \in DOMAIN pending_', NEW k \in 1 .. Len(pending_'[u].rbeats)
        PROVE  Visible(meta[u].acked, version, pending_'[u].rbeats[k])
    <3>1. u # t
      BY <1>2, EmptyIsSeq
    <3> QED BY <3>1, <1>2 DEF DataInv, ReadData
  <2>2. ASSUME NEW r \in Held(mresp)'
        PROVE  /\ r.kind = "wr" => r.caller \in Writers
               /\ r.kind = "rd" =>
                    \A k \in 1 .. Len(r.beats) : Visible(meta[r.tid].acked, version, r.beats[k])
    <3>1. CASE r = resp
      BY <3>1, <1>3, <1>7
    <3>2. CASE r \in Held(mresp)
      BY <3>2 DEF DataInv, ReadData
    <3> QED BY <3>1, <3>2, <1>9
  <2>3. \A u \in DOMAIN meta :
          meta[u].acked \in [Writers -> Nat] /\ \A g \in Writers : meta[u].acked[g] <= acked[g]
    BY DEF DataInv, ReadData
  <2> QED BY <2>1, <2>2, <2>3 DEF ReadData
<1> QED BY <1>10, <1>11, <1>12, <1>13 DEF DataInv

LEMMA BeatKeepsData ==
  ASSUME IInv, IInv', DataInv, Beat
  PROVE  DataInv'
<1>1. UNCHANGED <<slot, version, acked, meta>>
  BY DEF Beat
<1>2. CASE memReadReqHandler
  BY <1>1, <1>2, ReadKeepsMemInv, ReadBeatKeepsData DEF IInv
<1>3. CASE memWriteReqHandler
  BY <1>1, <1>3, WriteKeepsMemInv, WriteBeatKeepsData DEF IInv
<1> QED BY <1>2, <1>3 DEF Beat

-----------------------------------------------------------------------------
(* The responses on their way, and the clock.                              *)

\* Steps that touch neither the memory nor the slots: what is scheduled stays
\* what it was, and responses are only taken.
LEMMA IdleKeepsData ==
  ASSUME IInv, DataInv, UNCHANGED <<mem, pending_, slot, version, meta>>,
         \A f \in beatEvents' :
           \E e \in beatEvents : /\ f.tid = e.tid /\ f.kind = e.kind /\ f.caller = e.caller
                                 /\ f.i = e.i /\ f.beat = e.beat,
         Held(mresp)' \subseteq Held(mresp),
         acked' \in [Writers -> Nat],
         \A d \in Writers : /\ acked[d] <= acked'[d]
                            /\ acked'[d] + Unread(mresp', d) = acked[d] + Unread(mresp, d)
  PROVE  DataInv'
<1>1. \A d, j : Cell(d, j)' = Cell(d, j)
  BY DEF Cell
<1>2. Cells'
  BY <1>1 DEF DataInv, Cells
<1>3. \A f \in beatEvents' :
        \E e \in beatEvents : /\ f.tid = e.tid /\ f.kind = e.kind /\ f.caller = e.caller
                              /\ f.i = e.i /\ f.beat = e.beat /\ Ver(f) = Ver(e)
  BY DEF Ver
<1>4. SlotData'
  <2> SUFFICES ASSUME NEW d \in Clients, slot'[d] # <<>>
               PROVE  LET q == slot'[d][1]
                      IN  /\ q.caller = d
                          /\ q.kind = "rd" => \A k \in 1 .. Len(q.beats) : IsReadBeat(q.beats[k])
                          /\ q.kind = "wr" =>
                               /\ d \in Writers /\ Len(q.beats) = 4
                               /\ \A k \in 1 .. 4 : q.beats[k] = WriteBeat(d, k, version'[d])
                               /\ \A f \in beatEvents' : f.kind = "wr" /\ f.caller = d => Ver(f) < version'[d]
                               /\ \A j \in 1 .. 4 : Cell(d, j)' < version'[d]
    BY DEF SlotData, Ver, IsReadBeat, WriteBeat
  <2> QED BY <1>1, <1>3 DEF DataInv, SlotData
<1>5. EventData'
  <2>1. ASSUME NEW f \in beatEvents'
        PROVE  /\ f.kind = "rd" => IsReadBeat(f.beat)
               /\ f.kind = "wr" =>
                    /\ f.caller \in Writers /\ pending_'[f.tid].expected = 4
                    /\ Ver(f) \in Nat /\ f.beat = WriteBeat(f.caller, f.i, Ver(f))
                    /\ Ver(f) <= version'[f.caller]
                    /\ Cell(f.caller, f.i)' < Ver(f)
                    /\ \A j \in 1 .. Collected(pending_'[f.tid]) : Ver(f) <= Cell(f.caller, j)'
    <3>1. PICK e \in beatEvents : /\ f.tid = e.tid /\ f.kind = e.kind /\ f.caller = e.caller
                                  /\ f.i = e.i /\ f.beat = e.beat /\ Ver(f) = Ver(e)
      BY <1>3
    <3> QED BY <3>1, <1>1 DEF DataInv, EventData
  <2>2. ASSUME NEW f \in beatEvents', NEW g \in beatEvents', f.kind = "wr", g.kind = "wr"
        PROVE  /\ f.tid = g.tid => f.caller = g.caller /\ Ver(f) = Ver(g)
               /\ f.caller = g.caller /\ Ver(f) <= Ver(g) =>
                    f.tid = g.tid \/ meta'[f.tid].pos < meta'[g.tid].pos
    <3>1. PICK e \in beatEvents : /\ f.tid = e.tid /\ f.kind = e.kind /\ f.caller = e.caller
                                  /\ Ver(f) = Ver(e)
      BY <1>3
    <3>2. PICK h \in beatEvents : /\ g.tid = h.tid /\ g.kind = h.kind /\ g.caller = h.caller
                                  /\ Ver(g) = Ver(h)
      BY <1>3
    <3> QED BY <2>2, <3>1, <3>2 DEF DataInv, EventData
  <2> QED BY <2>1, <2>2 DEF EventData, Ver, IsReadBeat, WriteBeat
<1>6. ReadData'
  <2>1. ASSUME NEW u \in DOMAIN meta
        PROVE  /\ meta[u].acked \in [Writers -> Nat]
               /\ \A d \in Writers : meta[u].acked[d] <= acked'[d]
    <3>1. /\ meta[u].acked \in [Writers -> Nat]
          /\ \A d \in Writers : meta[u].acked[d] <= acked[d]
      BY DEF DataInv, ReadData
    <3>2. acked \in [Writers -> Nat]
      BY DEF DataInv, Cells
    <3>3. ASSUME NEW d \in Writers PROVE meta[u].acked[d] <= acked'[d]
      <4>1. meta[u].acked[d] \in Nat /\ acked[d] \in Nat /\ acked'[d] \in Nat
        BY <3>1, <3>2
      <4> QED BY <4>1, <3>1
    <3> QED BY <3>1, <3>3
  <2> QED BY <2>1 DEF DataInv, ReadData, Visible
<1> QED BY <1>2, <1>4, <1>5, <1>6 DEF DataInv

LEMMA ReceiveKeepsData ==
  ASSUME IInv, DataInv, Receive
  PROVE  DataInv'
<1> DEFINE r == mresp.reg[1]
<1>1. /\ mresp.reg # <<>> /\ mresp' = Forward(mresp)
      /\ acked' = IF r.kind = "wr" THEN [acked EXCEPT ![r.caller] = @ + 1] ELSE acked
      /\ UNCHANGED <<mem, pending_, beatEvents, slot, version, meta>>
  BY DEF Receive
<1>2. IsPort(mresp) /\ Held(mresp)' \subseteq Held(mresp) /\ IsPort(mresp')
  BY <1>1, ForwardIsPort DEF IInv, MemInv, Typed
<1>3. r \in Held(mresp)
  BY <1>1, <1>2, UnreadForward
<1>4. r.kind = "wr" => r.caller \in Writers
  BY <1>3 DEF DataInv, ReadData
<1>5. acked \in [Writers -> Nat]
  BY DEF DataInv, Cells
<1>6. /\ acked' \in [Writers -> Nat]
      /\ \A d \in Writers : acked'[d] = acked[d] + (IF r.kind = "wr" /\ r.caller = d THEN 1 ELSE 0)
  BY <1>1, <1>4, <1>5
<1>7. ASSUME NEW d \in Writers
      PROVE  /\ acked[d] <= acked'[d]
             /\ acked'[d] + Unread(mresp', d) = acked[d] + Unread(mresp, d)
  <2>1. Unread(mresp, d) = Unread(mresp', d) + (IF r.kind = "wr" /\ r.caller = d THEN 1 ELSE 0)
    BY <1>1, <1>2, UnreadForward
  <2>2. Unread(mresp', d) \in Nat /\ acked[d] \in Nat
    BY <1>2, <1>5, UnreadIsNat
  <2> HIDE DEF r
  <2> QED BY <2>1, <2>2, <1>6
<1>8. \A f \in beatEvents' :
        \E e \in beatEvents : /\ f.tid = e.tid /\ f.kind = e.kind /\ f.caller = e.caller
                              /\ f.i = e.i /\ f.beat = e.beat
  BY <1>1
<1> QED BY <1>1, <1>2, <1>6, <1>7, <1>8, IdleKeepsData

LEMMA SendKeepsData ==
  ASSUME IInv, DataInv, trySendResponse, UNCHANGED clientvars
  PROVE  DataInv'
<1>1. /\ mresp' = trySendPacket(mresp)
      /\ UNCHANGED <<mem, pending_, beatEvents, slot, version, acked, meta>>
  BY DEF trySendResponse, clientvars
<1>2. IsPort(mresp) /\ Held(mresp)' = Held(mresp)
  BY <1>1, SendIsPort DEF IInv, MemInv, Typed
<1>3. \A d : Unread(mresp', d) = Unread(mresp, d)
  BY <1>1, <1>2, UnreadSend
<1>4. acked \in [Writers -> Nat] /\ \A d \in Writers : acked[d] <= acked[d]
  BY DEF DataInv, Cells
<1>5. \A f \in beatEvents' :
        \E e \in beatEvents : /\ f.tid = e.tid /\ f.kind = e.kind /\ f.caller = e.caller
                              /\ f.i = e.i /\ f.beat = e.beat
  BY <1>1
<1> QED BY <1>1, <1>2, <1>3, <1>4, <1>5, IdleKeepsData

LEMMA TickKeepsData ==
  ASSUME IInv, DataInv, Tick, UNCHANGED clientvars
  PROVE  DataInv'
<1>1. UNCHANGED <<mem, pending_, mresp, slot, version, acked, meta>>
  BY DEF Tick, clientvars
<1>2. \A f \in beatEvents' :
        \E e \in beatEvents : /\ f.tid = e.tid /\ f.kind = e.kind /\ f.caller = e.caller
                              /\ f.i = e.i /\ f.beat = e.beat
  BY TickKeepsMemInv DEF IInv
<1>3. acked \in [Writers -> Nat] /\ \A d \in Writers : acked[d] <= acked[d]
  BY DEF DataInv, Cells
<1>4. Held(mresp)' \subseteq Held(mresp)
  BY <1>1
<1> QED BY <1>1, <1>2, <1>3, <1>4, IdleKeepsData

LEMMA StutterKeepsData ==
  ASSUME IInv, DataInv, UNCHANGED <<memvars, clientvars>>
  PROVE  DataInv'
<1>1. UNCHANGED <<mem, pending_, beatEvents, mresp, slot, version, acked, meta>>
  BY DEF memvars, clientvars
<1>2. \A f \in beatEvents' :
        \E e \in beatEvents : /\ f.tid = e.tid /\ f.kind = e.kind /\ f.caller = e.caller
                              /\ f.i = e.i /\ f.beat = e.beat
  BY <1>1
<1>3. acked \in [Writers -> Nat] /\ \A d \in Writers : acked[d] <= acked[d]
  BY DEF DataInv, Cells
<1>4. Held(mresp)' \subseteq Held(mresp)
  BY <1>1
<1> QED BY <1>1, <1>2, <1>3, <1>4, IdleKeepsData

LEMMA InitData == Init => DataInv
<1> SUFFICES ASSUME Init PROVE DataInv
  OBVIOUS
<1>1. /\ mem = InitMem /\ beatEvents = {} /\ mresp = EmptyPort
      /\ pending_ = [t \in {} |-> 0] /\ meta = [t \in {} |-> 0]
      /\ slot = [c \in Clients |-> <<>>]
      /\ version = [c \in Writers |-> 0] /\ acked = [c \in Writers |-> 0]
  BY DEF Init, MemInit
<1>2. \A d \in Writers, j \in 1 .. 4 : Cell(d, j) = 0
  BY <1>1, RegionsAssumption DEF Cell
<1>3. \A d : Unread(mresp, d) = 0
  BY <1>1, WritesOfNone DEF Unread, EmptyPort
<1>4. mem = [a \in 0 .. MemSize - 1 |-> mem[a]]
  BY <1>1, InitMemAssumption
<1>5. Cells
  BY <1>1, <1>2, <1>3, <1>4 DEF Cells
<1>6. SlotData /\ EventData
  BY <1>1 DEF SlotData, EventData
<1>7. ReadData
  BY <1>1, EmptyIsPort DEF ReadData
<1> QED BY <1>5, <1>6, <1>7 DEF DataInv

\* A load returns no version older than the last one its owner had seen
\* acknowledged when the load was popped, and none that was not issued, for
\* any number of clients, bursts and any latency: the write response follows
\* the last store (DataMemory::memWriteReqHandler), and beats of later bursts
\* to the same word run later (DataMemory::step).
THEOREM Visibility == Spec => []AcknowledgedWritesVisible
<1>1. Init => IInv /\ DataInv
  BY InitInv, InitData
<1>2. IInv /\ [Next]_vars => IInv'
  BY InvStep
<1>3. IInv /\ IInv' /\ DataInv /\ [Next]_vars => DataInv'
  <2> SUFFICES ASSUME IInv, IInv', DataInv, [Next]_vars PROVE DataInv'
    OBVIOUS
  <2>1. ASSUME NEW c \in Writers, IssueWrite(c) PROVE DataInv'
    BY <2>1, IssueWriteKeepsData
  <2>2. ASSUME NEW c \in Readers, IssueRead(c) PROVE DataInv'
    BY <2>2, ClientsAssumption, IssueReadKeepsData
  <2>3. ASSUME NEW c \in Clients, Accept(c) PROVE DataInv'
    BY <2>3, AcceptKeepsData
  <2>4. CASE Receive
    BY <2>4, ReceiveKeepsData
  <2>5. CASE Beat
    BY <2>5, BeatKeepsData
  <2>6. CASE trySendResponse /\ UNCHANGED clientvars
    BY <2>6, SendKeepsData
  <2>7. CASE Tick /\ UNCHANGED clientvars
    BY <2>7, TickKeepsData
  <2>8. CASE UNCHANGED <<memvars, clientvars>>
    BY <2>8, StutterKeepsData
  <2> QED BY <2>1, <2>2, <2>3, <2>4, <2>5, <2>6, <2>7, <2>8, Sending DEF Next, vars
<1>4. DataInv => AcknowledgedWritesVisible
  <2> SUFFICES ASSUME DataInv, NEW r \in Held(mresp), r.kind = "rd", NEW k \in 1 .. Len(r.beats)
               PROVE  /\ meta[r.tid].acked[r.beats[k].imm] <= r.beats[k].data[1]
                      /\ r.beats[k].data[1] <= version[r.beats[k].imm]
    BY DEF AcknowledgedWritesVisible, Held
  <2>1. Visible(meta[r.tid].acked, version, r.beats[k])
    BY DEF DataInv, ReadData
  <2> QED BY <2>1 DEF Visible
<1> QED BY <1>1, <1>2, <1>3, <1>4, PTL DEF Spec

-----------------------------------------------------------------------------
(* Who sends a response that waits.                                        *)

\* The trySendResponse event of a burst comes behind its last beat; a response
\* that waits for a free register still has its own event, unless the crossbar
\* owes a callback.
SendInv ==
  /\ \A e \in beatEvents : e.tid \in DOMAIN sends /\ sends[e.tid] > e.due
  /\ \A t \in DOMAIN sends : sends[t] \in Nat
  /\ mresp.reg = <<>> /\ ~ retry => \A k \in 1 .. Len(mresp.q) : mresp.q[k].tid \in DOMAIN sends

\* What trySendPacket leaves: no response waits for a free register.
LEMMA SendTakesRegister ==
  ASSUME NEW p, IsPort(p), trySendPacket(p).reg = <<>>
  PROVE  trySendPacket(p) = p /\ p.q = <<>> /\ Len(p.q) = 0
<1>1. CASE p.q # <<>> /\ p.reg = <<>>
  <2>1. trySendPacket(p).reg = <<Head(p.q)>>
    BY <1>1 DEF trySendPacket
  <2>2. <<Head(p.q)>> # <<>>
    OBVIOUS
  <2> QED BY <2>1, <2>2, Zenon
<1>2. CASE ~ (p.q # <<>> /\ p.reg = <<>>)
  <2>1. trySendPacket(p) = p
    BY <1>2 DEF trySendPacket
  <2>2. p.q = <<>>
    BY <1>2, <2>1
  <2> QED BY <2>1, <2>2
<1> QED BY <1>1, <1>2

LEMMA AcceptKeepsSends ==
  ASSUME IInv, SendInv, NEW c \in Clients, Accept(c)
  PROVE  SendInv'
<1> DEFINE pkt == slot[c][1]
           t == pkt.tid
<1>1. /\ slot[c] # <<>> /\ MemPop(pkt) /\ UNCHANGED retry
      /\ sends' = [u \in DOMAIN sends \cup {t} |-> IF u = t THEN SendDue(pkt) ELSE sends[u]]
  BY DEF Accept
<1>2. IsBurst(pkt) /\ t \notin DOMAIN meta
  BY <1>1, AcceptIsFresh DEF IInv, ClientInv, Slots
<1>3. t \notin DOMAIN pending_
  BY <1>2 DEF IInv, ClientInv, Logged, InUse
<1>4. /\ beatEvents' = beatEvents \cup BeatEvents(pkt)
      /\ mresp' = trySendPacket(mresp)
  BY <1>1 DEF MemPop
<1>5. Len(pkt.beats) \in Nat /\ SendDue(pkt) \in Nat
  BY <1>2, LatencyAssumption DEF IsBurst, IsSeq, SendDue
<1>6. /\ DOMAIN sends' = DOMAIN sends \cup {t} /\ sends'[t] = SendDue(pkt)
      /\ \A u \in DOMAIN sends : u # t => sends'[u] = sends[u]
  BY <1>1
<1> HIDE DEF pkt, t
<1>7. ASSUME NEW e \in beatEvents' PROVE e.tid \in DOMAIN sends' /\ sends'[e.tid] > e.due
  <2>1. CASE e \in beatEvents
    <3>1. e.tid \in DOMAIN pending_
      BY <2>1 DEF IInv, MemInv, Scheduled
    <3>2. e.tid # t
      BY <3>1, <1>3
    <3> QED BY <2>1, <3>2, <1>6 DEF SendInv
  <2>2. CASE e \in BeatEvents(pkt)
    <3>1. PICK i \in 1 .. Len(pkt.beats) : e.tid = t /\ e.due = Latency + i - 1
      BY <2>2 DEF BeatEvents, t
    <3> QED BY <3>1, <1>5, <1>6, LatencyAssumption DEF SendDue
  <2> QED BY <2>1, <2>2, <1>4
<1>8. \A u \in DOMAIN sends' : sends'[u] \in Nat
  BY <1>5, <1>6 DEF SendInv
<1>9. mresp'.reg = <<>> => Len(mresp'.q) = 0
  BY <1>4, SendTakesRegister DEF IInv, MemInv, Typed
<1> QED BY <1>7, <1>8, <1>9 DEF SendInv

LEMMA BeatKeepsSends ==
  ASSUME IInv, SendInv, Beat
  PROVE  SendInv'
<1>1. UNCHANGED <<sends, retry>>
  BY DEF Beat, sendvars
<1>2. PICK e \in beatEvents :
        /\ beatEvents' = beatEvents \ {e}
        /\ \/ UNCHANGED mresp
           \/ \E b : mresp' = Enqueue(mresp, [tid    |-> e.tid,    kind  |-> e.kind,
                                             caller |-> e.caller, beats |-> b])
  BY DEF Beat, memReadReqHandler, memWriteReqHandler, Collect
<1>3. e.tid \in DOMAIN sends
  BY DEF SendInv
<1>4. IsPort(mresp)
  BY DEF IInv, MemInv, Typed
<1>5. CASE UNCHANGED mresp
  BY <1>1, <1>2, <1>5 DEF SendInv
<1>6. ASSUME NEW x, x.tid = e.tid, mresp' = Enqueue(mresp, x) PROVE SendInv'
  <2>1. mresp'.reg = mresp.reg /\ mresp'.q = Append(mresp.q, x)
    BY <1>6 DEF Enqueue
  <2>2. /\ Len(mresp.q) \in Nat /\ Len(mresp'.q) = Len(mresp.q) + 1
        /\ mresp'.q[Len(mresp.q) + 1] = x
        /\ \A k \in 1 .. Len(mresp.q) : mresp'.q[k] = mresp.q[k]
    BY <1>4, <2>1, AppendIsSeq DEF IsPort, IsSeq
  <2>3. ASSUME mresp'.reg = <<>>, ~ retry', NEW k \in 1 .. Len(mresp'.q)
        PROVE  mresp'.q[k].tid \in DOMAIN sends'
    <3>1. CASE k = Len(mresp.q) + 1
      BY <3>1, <2>2, <1>3, <1>1, <1>6
    <3>2. CASE k \in 1 .. Len(mresp.q)
      BY <3>2, <2>1, <2>2, <2>3, <1>1 DEF SendInv
    <3> QED BY <3>1, <3>2, <2>2
  <2> QED BY <2>3, <1>1, <1>2 DEF SendInv
<1> QED BY <1>2, <1>5, <1>6

LEMMA ReceiveKeepsSends ==
  ASSUME IInv, SendInv, Receive
  PROVE  SendInv'
<1>1. /\ mresp' = Forward(mresp) /\ retry' = (retry \/ mresp.q # <<>>)
      /\ UNCHANGED <<beatEvents, sends>>
  BY DEF Receive
<1>2. mresp'.q = mresp.q
  BY <1>1 DEF Forward
<1>3. ~ retry' => mresp'.q = <<>>
  BY <1>1, <1>2, Zenon
<1>4. ~ retry' => Len(mresp'.q) = 0
  BY <1>3, EmptyIsSeq
<1> QED BY <1>1, <1>2, <1>4 DEF SendInv

\* A call of trySendResponse with fewer events or without the callback.
LEMMA SendKeepsSends ==
  ASSUME IInv, SendInv, Send, DOMAIN sends' \subseteq DOMAIN sends,
         \A t \in DOMAIN sends' : sends'[t] = sends[t],
         \A e \in beatEvents : e.tid \in DOMAIN sends'
  PROVE  SendInv'
<1>1. mresp' = trySendPacket(mresp) /\ beatEvents' = beatEvents
  BY DEF Send, trySendResponse, memvars
<1>2. mresp'.reg = <<>> => Len(mresp'.q) = 0
  BY <1>1, SendTakesRegister DEF IInv, MemInv, Typed
<1> QED BY <1>1, <1>2 DEF SendInv

LEMMA SendEventKeepsSends ==
  ASSUME IInv, SendInv, SendEvent
  PROVE  SendInv'
<1>1. PICK t \in DOMAIN sends : sends[t] = 0 /\ sends' = [u \in DOMAIN sends \ {t} |-> sends[u]]
  BY DEF SendEvent
<1>2. ASSUME NEW e \in beatEvents PROVE e.tid # t
  <2>1. e.due \in Nat
    BY DEF IInv, MemInv, Typed, IsEvent
  <2> QED BY <2>1, <1>1 DEF SendInv
<1> QED BY <1>1, <1>2, SendKeepsSends DEF SendEvent, SendInv

LEMMA ClockKeepsSends ==
  ASSUME IInv, SendInv, Clock
  PROVE  SendInv'
<1>1. /\ \A t \in DOMAIN sends : sends[t] > 0
      /\ sends' = [t \in DOMAIN sends |-> sends[t] - 1]
      /\ retry' = retry
  BY DEF Clock
<1>2. mresp' = mresp
  BY DEF Clock, Tick, memvars
<1>3. ASSUME NEW f \in beatEvents' PROVE f.tid \in DOMAIN sends /\ sends[f.tid] - 1 > f.due
  <2>1. CASE Tick
    <3>1. PICK e \in beatEvents : f.tid = e.tid /\ f.due = e.due - 1
      BY <2>1, TickKeepsMemInv DEF IInv
    <3>2. e.due \in Nat
      BY DEF IInv, MemInv, Typed, IsEvent
    <3> QED BY <3>1, <3>2 DEF SendInv
  <2>2. CASE beatEvents = {} /\ UNCHANGED memvars
    BY <2>2 DEF memvars
  <2> QED BY <2>1, <2>2 DEF Clock
<1> QED BY <1>1, <1>2, <1>3 DEF SendInv

\* A response that could be sent is never left to chance, for any number of
\* clients and bursts and any latency: step() schedules a trySendResponse behind
\* the last beat of each burst (DataMemory.hh:110), and a register that was
\* taken calls masterPortRetry when it is free (DataMemory.cc:133).
THEOREM Served == Spec => []WaitingIsServed
<1>1. Init => IInv /\ SendInv
  <2> SUFFICES ASSUME Init PROVE SendInv
    BY InitInv
  <2>1. beatEvents = {} /\ DOMAIN sends = {} /\ mresp = EmptyPort
    BY DEF Init, MemInit
  <2> QED BY <2>1 DEF SendInv, EmptyPort
<1>2. IInv /\ [Next]_vars => IInv'
  BY InvStep
<1>3. IInv /\ SendInv /\ [Next]_vars => SendInv'
  <2> SUFFICES ASSUME IInv, SendInv, [Next]_vars PROVE SendInv'
    OBVIOUS
  <2>1. CASE UNCHANGED <<memvars, sendvars>>
    BY <2>1 DEF SendInv, memvars, sendvars
  <2>2. ASSUME NEW c \in Writers, IssueWrite(c) PROVE UNCHANGED <<memvars, sendvars>>
    BY <2>2 DEF IssueWrite
  <2>3. ASSUME NEW c \in Readers, IssueRead(c) PROVE UNCHANGED <<memvars, sendvars>>
    BY <2>3 DEF IssueRead
  <2>4. ASSUME NEW c \in Clients, Accept(c) PROVE SendInv'
    BY <2>4, AcceptKeepsSends
  <2>5. CASE masterPortRetry
    BY <2>5, SendKeepsSends DEF masterPortRetry, SendInv
  <2>6. CASE trySendResponse /\ UNCHANGED sendvars
    BY <2>6, SendKeepsSends DEF Send, sendvars, SendInv
  <2> QED BY <2>1, <2>2, <2>3, <2>4, <2>5, <2>6, ReceiveKeepsSends, BeatKeepsSends,
             SendEventKeepsSends, ClockKeepsSends DEF Next, vars
<1>4. IInv /\ SendInv => WaitingIsServed
  <2> SUFFICES ASSUME IInv, SendInv, mresp.q # <<>>, mresp.reg = <<>>, ~ retry
               PROVE  DOMAIN sends # {}
    BY DEF WaitingIsServed
  <2>1. Len(mresp.q) \in Nat /\ Len(mresp.q) # 0
    BY DEF IInv, MemInv, Typed, IsPort, IsSeq
  <2>2. mresp.q[1].tid \in DOMAIN sends
    BY <2>1 DEF SendInv
  <2> QED BY <2>2
<1> QED BY <1>1, <1>2, <1>3, <1>4, PTL DEF Spec

=============================================================================
