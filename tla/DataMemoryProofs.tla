-------------------------- MODULE DataMemoryProofs --------------------------
(***************************************************************************)
(* What DataMemory keeps, whoever its clients are: an invariant of its own *)
(* variables that every action of the memory preserves, given that a burst *)
(* it pops has at least one beat and a transaction id that is not in use.  *)
(***************************************************************************)
EXTENDS DataMemory, SeqLemmas

-----------------------------------------------------------------------------
(* The invariant.                                                          *)

IsEvent(e) ==
  /\ e = [tid |-> e.tid, kind |-> e.kind, caller |-> e.caller,
          i |-> e.i, due |-> e.due, beat |-> e.beat]
  /\ e.kind \in {"rd", "wr"}
  /\ e.i \in Nat \ {0}
  /\ e.due \in Nat

IsTracker(tk) ==
  /\ tk = [expected |-> tk.expected, rbeats |-> tk.rbeats, wbeats |-> tk.wbeats]
  /\ tk.expected \in Nat
  /\ IsSeq(tk.rbeats) /\ IsSeq(tk.wbeats)

\* The beats a tracker has collected.
Collected(tk) == Len(tk.rbeats) + Len(tk.wbeats)

Typed ==
  /\ \A e \in beatEvents : IsEvent(e)
  /\ pending_ = [t \in DOMAIN pending_ |-> pending_[t]]
  /\ \A t \in DOMAIN pending_ : IsTracker(pending_[t])
  /\ IsPort(mresp)
  /\ stepped \in BOOLEAN

\* The events of a burst are the beats its tracker has not collected ...
Scheduled ==
  /\ \A e \in beatEvents :
       /\ e.tid \in DOMAIN pending_
       /\ Collected(pending_[e.tid]) < e.i /\ e.i <= pending_[e.tid].expected
  /\ \A t \in DOMAIN pending_ :
       /\ Collected(pending_[t]) < pending_[t].expected
       /\ \A k \in Collected(pending_[t]) + 1 .. pending_[t].expected :
            \E e \in beatEvents : e.tid = t /\ e.i = k

\* ... one tick apart, of one kind, and one event for each beat.
Paced ==
  \A e, f \in beatEvents :
    e.tid = f.tid => /\ e.due - e.i = f.due - f.i
                     /\ e.kind = f.kind
                     /\ e.i = f.i => e = f

\* Beats are collected in the vector of their kind.
Sorted ==
  \A e \in beatEvents :
    /\ e.kind = "rd" => pending_[e.tid].wbeats = <<>>
    /\ e.kind = "wr" => pending_[e.tid].rbeats = <<>>

\* A burst that was answered is no longer tracked.
Settled == \A r \in Held(mresp) : r.tid \notin DOMAIN pending_

MemInv == Typed /\ Scheduled /\ Paced /\ Sorted /\ Settled

\* The transaction ids the memory knows of.
InUse == DOMAIN pending_ \cup {r.tid : r \in Held(mresp)}

-----------------------------------------------------------------------------
(* The accounts of TrackersAccounted follow: the events of a burst and the *)
(* numbers of its missing beats correspond one to one.                     *)

LEMMA CollectedIsNat ==
  ASSUME NEW tk, IsTracker(tk)
  PROVE  /\ Collected(tk) \in Nat /\ tk.expected \in Nat
         /\ Len(tk.rbeats) \in Nat /\ Len(tk.wbeats) \in Nat
         /\ Collected(tk) = Len(tk.rbeats) + Len(tk.wbeats)
<1> DEFINE a == Len(tk.rbeats)
           b == Len(tk.wbeats)
<1>1. a \in Nat /\ b \in Nat /\ tk.expected \in Nat
  BY LenIsNat DEF IsTracker
<1>2. Collected(tk) = a + b
  BY DEF Collected
<1> HIDE DEF a, b
<1>3. Collected(tk) \in Nat
  BY <1>1, <1>2
<1> QED BY <1>1, <1>2, <1>3 DEF a, b

LEMMA EventsCounted ==
  ASSUME MemInv, NEW t \in DOMAIN pending_
  PROVE  LET left == {e \in beatEvents : e.tid = t}
         IN  /\ left # {}
             /\ IsFiniteSet(left)
             /\ Cardinality(left) = pending_[t].expected - Collected(pending_[t])
<1> DEFINE left == {e \in beatEvents : e.tid = t}
           n == Collected(pending_[t])
           m == pending_[t].expected
           K == n + 1 .. m
<1>1. n \in Nat /\ m \in Nat /\ n < m
  <2>1. IsTracker(pending_[t]) /\ n < m
    BY DEF MemInv, Typed, Scheduled
  <2> QED BY <2>1, CollectedIsNat
<1>2. \A k \in K : \E e \in left : e.i = k
  BY DEF MemInv, Scheduled
<1>3. \A e \in left : e.i \in K
  BY <1>1 DEF MemInv, Scheduled, Typed, IsEvent
<1>4. \A e, f \in left : e.i = f.i => e = f
  BY DEF MemInv, Paced
<1> HIDE DEF n, m
<1>5. left # {}
  <2>1. n + 1 \in K
    BY <1>1
  <2> QED BY <2>1, <1>2
<1> HIDE DEF left
<1>6. ExistsBijection(left, K)
  <2> DEFINE g == [e \in left |-> e.i]
  <2>1. g \in [left -> K]
    BY <1>3
  <2>2. \A e, f \in left : g[e] = g[f] => e = f
    BY <1>4
  <2>3. \A k \in K : \E e \in left : g[e] = k
    BY <1>2
  <2> HIDE DEF g
  <2>4. g \in Bijection(left, K)
    BY <2>1, <2>2, <2>3 DEF Bijection, Injection, Surjection, IsInjective
  <2> QED BY <2>4 DEF ExistsBijection
<1>7. IsFiniteSet(K) /\ Cardinality(K) = m - n
  BY <1>1, FS_Interval
<1>8. ExistsBijection(K, left)
  BY <1>6, Fun_ExistsBijSymmetric
<1>9. IsFiniteSet(left) /\ Cardinality(left) = m - n
  BY <1>7, <1>8, FS_Bijection
<1> QED BY <1>5, <1>9 DEF left, m, n

LEMMA MemInvAccounts == MemInv => TrackersAccounted
<1> SUFFICES ASSUME MemInv PROVE TrackersAccounted
  OBVIOUS
<1>1. \A e \in beatEvents : e.tid \in DOMAIN pending_
  BY DEF MemInv, Scheduled
<1>2. ASSUME NEW t \in DOMAIN pending_
      PROVE  LET left == {e \in beatEvents : e.tid = t}
             IN  /\ left # {}
                 /\ pending_[t].expected = Cardinality(left) + Len(pending_[t].rbeats)
                                             + Len(pending_[t].wbeats)
  <2> DEFINE left == {e \in beatEvents : e.tid = t}
             a == Len(pending_[t].rbeats)
             b == Len(pending_[t].wbeats)
  <2>1. left # {} /\ Cardinality(left) = pending_[t].expected - Collected(pending_[t])
    BY EventsCounted
  <2>2. IsTracker(pending_[t])
    BY DEF MemInv, Typed
  <2>3. a \in Nat /\ b \in Nat /\ Collected(pending_[t]) = a + b /\ pending_[t].expected \in Nat
    BY <2>2, CollectedIsNat
  <2> HIDE DEF left, a, b
  <2>4. pending_[t].expected = Cardinality(left) + a + b
    BY <2>1, <2>3
  <2> QED BY <2>1, <2>4 DEF left, a, b
<1>3. \A i \in 1 .. Len(mresp.q) : mresp.q[i].tid \notin DOMAIN pending_
  BY DEF MemInv, Settled, Held
<1> QED BY <1>1, <1>2, <1>3 DEF TrackersAccounted

-----------------------------------------------------------------------------
(* Popping a burst.                                                        *)

IsBurst(pkt) == pkt.kind \in {"rd", "wr"} /\ IsSeq(pkt.beats) /\ pkt.beats # <<>>

LEMMA BurstEvents ==
  ASSUME NEW pkt, IsBurst(pkt)
  PROVE  /\ \A e \in BeatEvents(pkt) :
              /\ IsEvent(e)
              /\ e.tid = pkt.tid /\ e.kind = pkt.kind /\ e.caller = pkt.caller
              /\ e.i \in 1 .. Len(pkt.beats) /\ e.due = Latency + e.i - 1
              /\ e.beat = pkt.beats[e.i]
         /\ \A e, f \in BeatEvents(pkt) : e.i = f.i => e = f
         /\ \A k \in 1 .. Len(pkt.beats) : \E e \in BeatEvents(pkt) : e.i = k
<1> DEFINE Ev(k) == [tid |-> pkt.tid, kind |-> pkt.kind, caller |-> pkt.caller,
                     i |-> k, due |-> Latency + k - 1, beat |-> pkt.beats[k]]
<1>1. BeatEvents(pkt) = {Ev(k) : k \in 1 .. Len(pkt.beats)}
  BY DEF BeatEvents
<1>2. Len(pkt.beats) \in Nat
  BY LenIsNat DEF IsBurst
<1>3. ASSUME NEW k \in 1 .. Len(pkt.beats)
      PROVE  /\ IsEvent(Ev(k))
             /\ Ev(k).tid = pkt.tid /\ Ev(k).kind = pkt.kind /\ Ev(k).caller = pkt.caller
             /\ Ev(k).i = k /\ Ev(k).due = Latency + k - 1
             /\ Ev(k).beat = pkt.beats[k]
  <2>1. k \in Nat \ {0} /\ Latency + k - 1 \in Nat
    BY <1>2, LatencyAssumption
  <2> QED BY <2>1 DEF IsEvent, IsBurst
<1> HIDE DEF Ev
<1>4. ASSUME NEW e \in BeatEvents(pkt)
      PROVE  /\ IsEvent(e)
             /\ e.tid = pkt.tid /\ e.kind = pkt.kind /\ e.caller = pkt.caller
             /\ e.i \in 1 .. Len(pkt.beats) /\ e.due = Latency + e.i - 1
             /\ e.beat = pkt.beats[e.i] /\ e = Ev(e.i)
  <2>1. PICK k \in 1 .. Len(pkt.beats) : e = Ev(k)
    BY <1>1
  <2> QED BY <2>1, <1>3
<1>5. \A e, f \in BeatEvents(pkt) : e.i = f.i => e = f
  BY <1>4
<1>6. \A k \in 1 .. Len(pkt.beats) : \E e \in BeatEvents(pkt) : e.i = k
  BY <1>1, <1>3
<1> QED BY <1>4, <1>5, <1>6

\* Popping a burst with a fresh transaction id keeps the invariant.
LEMMA PopKeepsMemInv ==
  ASSUME MemInv, NEW pkt, IsBurst(pkt), pkt.tid \notin InUse, MemPop(pkt)
  PROVE  /\ MemInv'
         /\ InUse' = InUse \cup {pkt.tid}
         /\ Held(mresp)' = Held(mresp)
         /\ beatEvents' = beatEvents \cup BeatEvents(pkt)
         /\ DOMAIN pending_' = DOMAIN pending_ \cup {pkt.tid}
         /\ \A t \in DOMAIN pending_ : pending_'[t] = pending_[t]
         /\ pending_'[pkt.tid] = [expected |-> Len(pkt.beats), rbeats |-> <<>>, wbeats |-> <<>>]
<1> DEFINE new == [expected |-> Len(pkt.beats), rbeats |-> <<>>, wbeats |-> <<>>]
           n   == Len(pkt.beats)
<1>1. /\ pending_' = Track(pkt.tid, n)
      /\ beatEvents' = beatEvents \cup BeatEvents(pkt)
      /\ mresp' = trySendPacket(mresp) /\ stepped' = TRUE
  BY DEF MemPop
<1>2. pkt.tid \notin DOMAIN pending_ /\ \A r \in Held(mresp) : r.tid # pkt.tid
  BY DEF InUse
<1>3. /\ DOMAIN pending_' = DOMAIN pending_ \cup {pkt.tid}
      /\ \A t \in DOMAIN pending_ : pending_'[t] = pending_[t]
      /\ pending_'[pkt.tid] = new
      /\ pending_' = [t \in DOMAIN pending_' |-> pending_'[t]]
  BY <1>1, <1>2 DEF Track
<1>4. n \in Nat /\ n > 0
  BY LenIsNat DEF IsBurst
<1>5. /\ IsTracker(new) /\ new.expected = n
      /\ new.rbeats = <<>> /\ new.wbeats = <<>>
      /\ Collected(new) = 0
  BY <1>4, EmptyIsSeq DEF IsTracker, Collected
<1>6. IsPort(mresp') /\ Held(mresp)' = Held(mresp)
  BY <1>1, SendIsPort DEF MemInv, Typed
<1> HIDE DEF new, n
<1>7. /\ \A e \in BeatEvents(pkt) :
           /\ IsEvent(e)
           /\ e.tid = pkt.tid /\ e.kind = pkt.kind
           /\ e.i \in 1 .. n /\ e.due = Latency + e.i - 1
      /\ \A e, f \in BeatEvents(pkt) : e.i = f.i => e = f
      /\ \A k \in 1 .. n : \E e \in BeatEvents(pkt) : e.i = k
  BY BurstEvents DEF n
<1>8. \A e \in beatEvents : e.tid \in DOMAIN pending_ /\ e.tid # pkt.tid
  BY <1>2 DEF MemInv, Scheduled
<1>9. Typed'
  <2>1. \A e \in beatEvents' : IsEvent(e)
    BY <1>1, <1>7 DEF MemInv, Typed
  <2>2. \A t \in DOMAIN pending_' : IsTracker(pending_'[t])
    BY <1>3, <1>5 DEF MemInv, Typed
  <2> QED BY <2>1, <2>2, <1>1, <1>3, <1>6 DEF Typed
<1>10. Scheduled'
  <2>1. ASSUME NEW e \in beatEvents'
        PROVE  /\ e.tid \in DOMAIN pending_'
               /\ Collected(pending_'[e.tid]) < e.i /\ e.i <= pending_'[e.tid].expected
    <3>1. CASE e \in beatEvents
      BY <3>1, <1>3, <1>8 DEF MemInv, Scheduled
    <3>2. CASE e \in BeatEvents(pkt)
      BY <3>2, <1>3, <1>4, <1>5, <1>7
    <3> QED BY <3>1, <3>2, <1>1
  <2>2. ASSUME NEW t \in DOMAIN pending_'
        PROVE  /\ Collected(pending_'[t]) < pending_'[t].expected
               /\ \A k \in Collected(pending_'[t]) + 1 .. pending_'[t].expected :
                    \E e \in beatEvents' : e.tid = t /\ e.i = k
    <3>1. CASE t \in DOMAIN pending_
      BY <3>1, <1>1, <1>3 DEF MemInv, Scheduled
    <3>2. CASE t = pkt.tid
      <4>1. pending_'[t] = new
        BY <3>2, <1>3
      <4>2. \A k \in 1 .. n : \E e \in beatEvents' : e.tid = t /\ e.i = k
        BY <3>2, <1>1, <1>7
      <4> QED BY <4>1, <4>2, <1>4, <1>5
    <3> QED BY <3>1, <3>2, <1>3
  <2> QED BY <2>1, <2>2 DEF Scheduled
<1>11. Paced'
  <2> SUFFICES ASSUME NEW e \in beatEvents', NEW f \in beatEvents', e.tid = f.tid
               PROVE  e.due - e.i = f.due - f.i /\ e.kind = f.kind /\ (e.i = f.i => e = f)
    BY DEF Paced
  <2>1. CASE e \in beatEvents /\ f \in beatEvents
    BY <2>1 DEF MemInv, Paced
  <2>2. CASE e \in BeatEvents(pkt) /\ f \in BeatEvents(pkt)
    <3>1. e.i \in Int /\ f.i \in Int /\ Latency \in Int
      BY <2>2, <1>4, <1>7, LatencyAssumption
    <3>2. e.due - e.i = Latency - 1 /\ f.due - f.i = Latency - 1
      BY <2>2, <3>1, <1>7
    <3> QED BY <2>2, <3>2, <1>7
  <2> QED BY <2>1, <2>2, <1>1, <1>7, <1>8
<1>12. Sorted'
  <2> SUFFICES ASSUME NEW e \in beatEvents'
               PROVE  /\ e.kind = "rd" => pending_'[e.tid].wbeats = <<>>
                      /\ e.kind = "wr" => pending_'[e.tid].rbeats = <<>>
    BY DEF Sorted
  <2>1. CASE e \in beatEvents
    BY <2>1, <1>3, <1>8 DEF MemInv, Sorted
  <2>2. CASE e \in BeatEvents(pkt)
    BY <2>2, <1>3, <1>5, <1>7
  <2> QED BY <2>1, <2>2, <1>1
<1>13. Settled'
  BY <1>2, <1>3, <1>6 DEF MemInv, Settled
<1>14. InUse' = InUse \cup {pkt.tid}
  BY <1>3, <1>6 DEF InUse
<1> QED BY <1>1, <1>3, <1>6, <1>9, <1>10, <1>11, <1>12, <1>13, <1>14 DEF MemInv, new, n

-----------------------------------------------------------------------------
(* Beats.                                                                  *)

\* An event that is due is the next beat its tracker misses, the last beat
\* is the last event, and what is scheduled behind it belongs to others.
LEMMA DueIsNext ==
  ASSUME MemInv, NEW e \in beatEvents, e.due = 0
  PROVE  /\ IsTracker(pending_[e.tid])
         /\ e.i = Collected(pending_[e.tid]) + 1
         /\ \A f \in beatEvents : f.tid = e.tid /\ f # e => f.i > e.i
<1> DEFINE n == Collected(pending_[e.tid])
           m == pending_[e.tid].expected
<1>1. e.tid \in DOMAIN pending_ /\ IsTracker(pending_[e.tid]) /\ IsEvent(e)
  BY DEF MemInv, Scheduled, Typed
<1>2. n \in Nat /\ m \in Nat
  BY <1>1, CollectedIsNat
<1>3. n < e.i /\ e.i <= m /\ e.i \in Nat
  BY <1>1 DEF MemInv, Scheduled, IsEvent
<1>4. \A k \in n + 1 .. m : \E f \in beatEvents : f.tid = e.tid /\ f.i = k
  BY <1>1 DEF MemInv, Scheduled
<1> HIDE DEF n, m
<1>5. PICK f \in beatEvents : f.tid = e.tid /\ f.i = n + 1
  BY <1>2, <1>3, <1>4
<1>6. ASSUME NEW g \in beatEvents, g.tid = e.tid
      PROVE  g.i \in Nat /\ g.i >= e.i /\ (g.i = e.i => g = e)
  <2>1. g.due \in Nat /\ g.i \in Nat
    BY DEF MemInv, Typed, IsEvent
  <2>2. g.due - g.i = e.due - e.i /\ (g.i = e.i => g = e)
    BY <1>6 DEF MemInv, Paced
  <2> QED BY <2>1, <2>2, <1>3
<1>7. e.i = n + 1
  BY <1>2, <1>3, <1>5, <1>6
<1>8. \A g \in beatEvents : g.tid = e.tid /\ g # e => g.i > e.i
  BY <1>3, <1>6
<1> QED BY <1>1, <1>7, <1>8 DEF n

\* A beat added to a tracker.
LEMMA AddReadBeat ==
  ASSUME NEW old, IsTracker(old), old.wbeats = <<>>, NEW x
  PROVE  LET tk == [old EXCEPT !.rbeats = Append(@, x)]
         IN  /\ IsTracker(tk) /\ tk.expected = old.expected /\ tk.wbeats = <<>>
             /\ tk.rbeats = Append(old.rbeats, x)
             /\ Collected(tk) = Collected(old) + 1
             /\ Len(tk.rbeats) = Collected(tk)
<1> DEFINE tk == [old EXCEPT !.rbeats = Append(@, x)]
           a == Len(old.rbeats)
<1>1. tk = [expected |-> old.expected, rbeats |-> Append(old.rbeats, x), wbeats |-> old.wbeats]
  BY DEF IsTracker
<1> HIDE DEF tk
<1>2. tk.expected = old.expected /\ tk.rbeats = Append(old.rbeats, x) /\ tk.wbeats = <<>>
  BY <1>1
<1>3. IsSeq(tk.rbeats) /\ Len(tk.rbeats) = a + 1 /\ a \in Nat
  BY <1>2, AppendIsSeq, LenIsNat DEF IsTracker
<1>4. IsTracker(tk)
  BY <1>1, <1>2, <1>3, EmptyIsSeq DEF IsTracker
<1>5. Collected(old) = a + 0 /\ Collected(tk) = Len(tk.rbeats) + 0
  BY <1>2, EmptyIsSeq DEF Collected
<1> HIDE DEF a
<1>6. Collected(tk) = Collected(old) + 1 /\ Len(tk.rbeats) = Collected(tk)
  BY <1>3, <1>5
<1> QED BY <1>2, <1>4, <1>6 DEF tk

LEMMA AddWriteBeat ==
  ASSUME NEW old, IsTracker(old), old.rbeats = <<>>, NEW x
  PROVE  LET tk == [old EXCEPT !.wbeats = Append(@, x)]
         IN  /\ IsTracker(tk) /\ tk.expected = old.expected /\ tk.rbeats = <<>>
             /\ tk.wbeats = Append(old.wbeats, x)
             /\ Collected(tk) = Collected(old) + 1
             /\ Len(tk.wbeats) = Collected(tk)
<1> DEFINE tk == [old EXCEPT !.wbeats = Append(@, x)]
           a == Len(old.wbeats)
<1>1. tk = [expected |-> old.expected, rbeats |-> old.rbeats, wbeats |-> Append(old.wbeats, x)]
  BY DEF IsTracker
<1> HIDE DEF tk
<1>2. tk.expected = old.expected /\ tk.wbeats = Append(old.wbeats, x) /\ tk.rbeats = <<>>
  BY <1>1
<1>3. IsSeq(tk.wbeats) /\ Len(tk.wbeats) = a + 1 /\ a \in Nat
  BY <1>2, AppendIsSeq, LenIsNat DEF IsTracker
<1>4. IsTracker(tk)
  BY <1>1, <1>2, <1>3, EmptyIsSeq DEF IsTracker
<1>5. Collected(old) = 0 + a /\ Collected(tk) = 0 + Len(tk.wbeats)
  BY <1>2, EmptyIsSeq DEF Collected
<1> HIDE DEF a
<1>6. Collected(tk) = Collected(old) + 1 /\ Len(tk.wbeats) = Collected(tk)
  BY <1>3, <1>5
<1> QED BY <1>2, <1>4, <1>6 DEF tk

\* Carrying out a beat keeps the invariant, whether it completes its burst or
\* not: a burst is answered with its last beat and with no other.
LEMMA CollectKeepsMemInv ==
  ASSUME MemInv, NEW e \in beatEvents, e.due = 0, beatEvents' = beatEvents \ {e},
         NEW tk, IsTracker(tk), tk.expected = pending_[e.tid].expected,
         Collected(tk) = Collected(pending_[e.tid]) + 1,
         e.kind = "rd" => tk.wbeats = <<>>, e.kind = "wr" => tk.rbeats = <<>>,
         NEW beats, Len(beats) = Collected(tk), Collect(e, tk, beats), UNCHANGED stepped
  PROVE  /\ MemInv' /\ InUse' = InUse
         /\ \/ /\ e.i < pending_[e.tid].expected
               /\ UNCHANGED mresp
               /\ pending_' = [pending_ EXCEPT ![e.tid] = tk]
            \/ /\ e.i = pending_[e.tid].expected
               /\ {f \in beatEvents' : f.tid = e.tid} = {}
               /\ DOMAIN pending_' = DOMAIN pending_ \ {e.tid}
               /\ \A t \in DOMAIN pending_' : pending_'[t] = pending_[t]
               /\ mresp' = Enqueue(mresp, [tid    |-> e.tid,    kind  |-> e.kind,
                                           caller |-> e.caller, beats |-> beats])
<1> DEFINE n == Collected(pending_[e.tid])
           m == pending_[e.tid].expected
           r == [tid |-> e.tid, kind |-> e.kind, caller |-> e.caller, beats |-> beats]
<1>1. /\ IsTracker(pending_[e.tid]) /\ e.tid \in DOMAIN pending_ /\ IsEvent(e)
      /\ e.i = n + 1
      /\ \A f \in beatEvents : f.tid = e.tid /\ f # e => f.i > e.i
  BY DueIsNext DEF MemInv, Scheduled, Typed
<1>2. n \in Nat /\ m \in Nat /\ Collected(tk) = n + 1 /\ tk.expected = m
  BY <1>1, CollectedIsNat
<1>3. n < m
  BY <1>1 DEF MemInv, Scheduled
<1>4. /\ \A f \in beatEvents : IsEvent(f) /\ f.tid \in DOMAIN pending_
      /\ pending_ = [t \in DOMAIN pending_ |-> pending_[t]]
      /\ IsPort(mresp) /\ stepped \in BOOLEAN
  BY DEF MemInv, Scheduled, Typed
<1>5. \A f \in beatEvents : f.tid = e.tid => f.i <= m /\ f.i \in Nat
  BY DEF MemInv, Scheduled, Typed, IsEvent
<1> HIDE DEF n, m
<1>6. CASE n + 1 = m
  <2>1. /\ pending_' = [t \in DOMAIN pending_ \ {e.tid} |-> pending_[t]]
        /\ mresp' = Enqueue(mresp, r)
    BY <1>2, <1>6 DEF Collect
  <2>2. /\ DOMAIN pending_' = DOMAIN pending_ \ {e.tid}
        /\ \A t \in DOMAIN pending_' : pending_'[t] = pending_[t]
        /\ pending_' = [t \in DOMAIN pending_' |-> pending_'[t]]
    BY <2>1
  <2>3. IsPort(mresp') /\ Held(mresp)' = Held(mresp) \cup {r} /\ r.tid = e.tid
    BY <2>1, <1>4, EnqueueIsPort
  <2> HIDE DEF r
  <2>4. \A f \in beatEvents' : f \in beatEvents /\ f.tid # e.tid
    BY <1>1, <1>2, <1>5, <1>6
  <2>5. Typed'
    BY <1>4, <2>2, <2>3, <2>4 DEF MemInv, Typed
  <2>6. Scheduled'
    <3>1. ASSUME NEW f \in beatEvents'
          PROVE  /\ f.tid \in DOMAIN pending_'
                 /\ Collected(pending_'[f.tid]) < f.i /\ f.i <= pending_'[f.tid].expected
      BY <1>4, <2>2, <2>4 DEF MemInv, Scheduled
    <3>2. ASSUME NEW t \in DOMAIN pending_'
          PROVE  /\ Collected(pending_'[t]) < pending_'[t].expected
                 /\ \A k \in Collected(pending_'[t]) + 1 .. pending_'[t].expected :
                      \E f \in beatEvents' : f.tid = t /\ f.i = k
      BY <2>2 DEF MemInv, Scheduled
    <3> QED BY <3>1, <3>2 DEF Scheduled
  <2>7. Paced'
    BY <2>4 DEF MemInv, Paced
  <2>8. Sorted'
    BY <1>4, <2>2, <2>4 DEF MemInv, Sorted
  <2>9. Settled'
    BY <2>2, <2>3 DEF MemInv, Settled
  <2>10. InUse' = InUse
    BY <1>1, <2>2, <2>3 DEF InUse
  <2>11. {f \in beatEvents' : f.tid = e.tid} = {} /\ e.i = m
    BY <2>4, <1>1, <1>6
  <2> QED BY <2>1, <2>2, <2>5, <2>6, <2>7, <2>8, <2>9, <2>10, <2>11 DEF MemInv, r, m
<1>7. CASE n + 1 # m
  <2>1. pending_' = [pending_ EXCEPT ![e.tid] = tk] /\ UNCHANGED mresp
    BY <1>2, <1>7 DEF Collect
  <2>2. /\ DOMAIN pending_' = DOMAIN pending_
        /\ pending_'[e.tid] = tk
        /\ \A t \in DOMAIN pending_ \ {e.tid} : pending_'[t] = pending_[t]
        /\ pending_' = [t \in DOMAIN pending_' |-> pending_'[t]]
    BY <2>1, <1>1, <1>4
  <2>3. \A f \in beatEvents' : f \in beatEvents /\ f # e
    OBVIOUS
  <2>4. Typed'
    BY <1>4, <2>1, <2>2, <2>3 DEF MemInv, Typed
  <2>5. Scheduled'
    <3>1. ASSUME NEW f \in beatEvents'
          PROVE  /\ f.tid \in DOMAIN pending_'
                 /\ Collected(pending_'[f.tid]) < f.i /\ f.i <= pending_'[f.tid].expected
      <4>1. CASE f.tid = e.tid
        BY <4>1, <1>1, <1>2, <1>5, <2>2, <2>3
      <4>2. CASE f.tid # e.tid
        BY <4>2, <1>4, <2>2, <2>3 DEF MemInv, Scheduled
      <4> QED BY <4>1, <4>2
    <3>2. ASSUME NEW t \in DOMAIN pending_'
          PROVE  /\ Collected(pending_'[t]) < pending_'[t].expected
                 /\ \A k \in Collected(pending_'[t]) + 1 .. pending_'[t].expected :
                      \E f \in beatEvents' : f.tid = t /\ f.i = k
      <4>1. CASE t = e.tid
        <5>1. pending_'[t] = tk
          BY <4>1, <2>2
        <5>2. ASSUME NEW k \in n + 2 .. m PROVE \E f \in beatEvents' : f.tid = t /\ f.i = k
          <6>1. k \in Collected(pending_[t]) + 1 .. pending_[t].expected
            BY <4>1, <1>2 DEF n, m
          <6>2. PICK f \in beatEvents : f.tid = t /\ f.i = k
            BY <6>1, <2>2 DEF MemInv, Scheduled
          <6>3. f # e
            BY <6>2, <1>1, <1>2
          <6> QED BY <6>2, <6>3
        <5> QED BY <5>1, <5>2, <1>2, <1>3, <1>7
      <4>2. CASE t # e.tid
        <5>1. pending_'[t] = pending_[t] /\ t \in DOMAIN pending_
          BY <4>2, <2>2
        <5> QED BY <4>2, <5>1 DEF MemInv, Scheduled
      <4> QED BY <4>1, <4>2
    <3> QED BY <3>1, <3>2 DEF Scheduled
  <2>6. Paced'
    BY <2>3 DEF MemInv, Paced
  <2>7. Sorted'
    <3> SUFFICES ASSUME NEW f \in beatEvents'
                 PROVE  /\ f.kind = "rd" => pending_'[f.tid].wbeats = <<>>
                        /\ f.kind = "wr" => pending_'[f.tid].rbeats = <<>>
      BY DEF Sorted
    <3>1. CASE f.tid = e.tid
      BY <3>1, <2>2, <2>3 DEF MemInv, Paced
    <3>2. CASE f.tid # e.tid
      BY <3>2, <1>4, <2>2, <2>3 DEF MemInv, Sorted
    <3> QED BY <3>1, <3>2
  <2>8. Settled'
    BY <2>1, <2>2 DEF MemInv, Settled
  <2>9. InUse' = InUse
    BY <2>1, <2>2 DEF InUse
  <2>10. e.i < m
    BY <1>1, <1>2, <1>3, <1>7
  <2> QED BY <2>1, <2>4, <2>5, <2>6, <2>7, <2>8, <2>9, <2>10 DEF MemInv, m
<1> QED BY <1>6, <1>7

\* The step that the event e is carried out: it leaves the collected beats
\* in its tracker, or in the response if they are complete.
Carried(e, beats) ==
  /\ e \in beatEvents /\ e.due = 0
  /\ beatEvents' = beatEvents \ {e}
  /\ e.tid \in DOMAIN pending_
  /\ e.i = Collected(pending_[e.tid]) + 1
  /\ UNCHANGED stepped
  /\ \/ /\ e.i < pending_[e.tid].expected
        /\ UNCHANGED mresp
        /\ DOMAIN pending_' = DOMAIN pending_
        /\ \A t \in DOMAIN pending_ \ {e.tid} : pending_'[t] = pending_[t]
        /\ pending_'[e.tid].expected = pending_[e.tid].expected
        /\ Collected(pending_'[e.tid]) = e.i
        /\ pending_'[e.tid].rbeats = IF e.kind = "rd" THEN beats ELSE <<>>
     \/ /\ e.i = pending_[e.tid].expected
        /\ {f \in beatEvents' : f.tid = e.tid} = {}
        /\ DOMAIN pending_' = DOMAIN pending_ \ {e.tid}
        /\ \A t \in DOMAIN pending_' : pending_'[t] = pending_[t]
        /\ mresp' = Enqueue(mresp, [tid    |-> e.tid,    kind  |-> e.kind,
                                    caller |-> e.caller, beats |-> beats])

\* A read beat keeps the invariant.
LEMMA ReadKeepsMemInv ==
  ASSUME MemInv, memReadReqHandler
  PROVE  /\ MemInv' /\ InUse' = InUse /\ UNCHANGED mem
         /\ \E e \in beatEvents :
              /\ e.kind = "rd"
              /\ Carried(e, Append(pending_[e.tid].rbeats,
                                   [imm |-> e.beat.imm, data |-> Load(e.beat.op, e.beat.addr)]))
<1>1. PICK e \in beatEvents :
        /\ e.due = 0 /\ e.kind = "rd"
        /\ beatEvents' = beatEvents \ {e}
        /\ LET tk == [pending_[e.tid] EXCEPT
                        !.rbeats = Append(@, [imm  |-> e.beat.imm,
                                              data |-> Load(e.beat.op, e.beat.addr)])]
           IN  Collect(e, tk, tk.rbeats)
        /\ UNCHANGED <<mem, stepped>>
  BY DEF memReadReqHandler
<1>2. IsTracker(pending_[e.tid]) /\ pending_[e.tid].wbeats = <<>>
  BY <1>1, DueIsNext DEF MemInv, Sorted
<1> DEFINE x  == [imm |-> e.beat.imm, data |-> Load(e.beat.op, e.beat.addr)]
           tk == [pending_[e.tid] EXCEPT !.rbeats = Append(@, x)]
<1>3. Collect(e, tk, tk.rbeats)
  BY <1>1
<1> HIDE DEF x
<1>4. /\ IsTracker(tk) /\ tk.expected = pending_[e.tid].expected /\ tk.wbeats = <<>>
      /\ Collected(tk) = Collected(pending_[e.tid]) + 1
      /\ Len(tk.rbeats) = Collected(tk) /\ tk.rbeats = Append(pending_[e.tid].rbeats, x)
  BY <1>2, AddReadBeat
<1> HIDE DEF tk
<1>5. /\ MemInv' /\ InUse' = InUse
      /\ \/ /\ e.i < pending_[e.tid].expected
            /\ UNCHANGED mresp
            /\ pending_' = [pending_ EXCEPT ![e.tid] = tk]
         \/ /\ e.i = pending_[e.tid].expected
            /\ {f \in beatEvents' : f.tid = e.tid} = {}
            /\ DOMAIN pending_' = DOMAIN pending_ \ {e.tid}
            /\ \A t \in DOMAIN pending_' : pending_'[t] = pending_[t]
            /\ mresp' = Enqueue(mresp, [tid    |-> e.tid,    kind  |-> e.kind,
                                        caller |-> e.caller, beats |-> tk.rbeats])
  BY <1>1, <1>3, <1>4, CollectKeepsMemInv
<1>6. e.tid \in DOMAIN pending_ /\ e.i = Collected(pending_[e.tid]) + 1
  BY <1>1, DueIsNext DEF MemInv, Scheduled
<1>7. Carried(e, tk.rbeats)
  <2>1. e.i < pending_[e.tid].expected /\ pending_' = [pending_ EXCEPT ![e.tid] = tk] => 
           /\ DOMAIN pending_' = DOMAIN pending_ /\ pending_'[e.tid] = tk
           /\ \A t \in DOMAIN pending_ \ {e.tid} : pending_'[t] = pending_[t]
    BY <1>6 DEF MemInv, Typed
  <2> QED BY <2>1, <1>1, <1>4, <1>5, <1>6 DEF Carried
<1> QED BY <1>1, <1>4, <1>5, <1>7 DEF x

\* A write beat keeps the invariant.
LEMMA WriteKeepsMemInv ==
  ASSUME MemInv, memWriteReqHandler
  PROVE  /\ MemInv' /\ InUse' = InUse
         /\ \E e \in beatEvents :
              /\ e.kind = "wr"
              /\ mem' = Store(e.beat.op, e.beat.addr, e.beat.data)
              /\ Carried(e, Append(pending_[e.tid].wbeats, e.i))
<1>1. PICK e \in beatEvents :
        /\ e.due = 0 /\ e.kind = "wr"
        /\ beatEvents' = beatEvents \ {e}
        /\ mem' = Store(e.beat.op, e.beat.addr, e.beat.data)
        /\ LET tk == [pending_[e.tid] EXCEPT !.wbeats = Append(@, e.i)]
           IN  Collect(e, tk, tk.wbeats)
        /\ UNCHANGED stepped
  BY DEF memWriteReqHandler
<1>2. IsTracker(pending_[e.tid]) /\ pending_[e.tid].rbeats = <<>>
  BY <1>1, DueIsNext DEF MemInv, Sorted
<1> DEFINE tk == [pending_[e.tid] EXCEPT !.wbeats = Append(@, e.i)]
<1>3. Collect(e, tk, tk.wbeats)
  BY <1>1
<1>4. /\ IsTracker(tk) /\ tk.expected = pending_[e.tid].expected /\ tk.rbeats = <<>>
      /\ Collected(tk) = Collected(pending_[e.tid]) + 1
      /\ Len(tk.wbeats) = Collected(tk) /\ tk.wbeats = Append(pending_[e.tid].wbeats, e.i)
  BY <1>2, AddWriteBeat
<1> HIDE DEF tk
<1>5. /\ MemInv' /\ InUse' = InUse
      /\ \/ /\ e.i < pending_[e.tid].expected
            /\ UNCHANGED mresp
            /\ pending_' = [pending_ EXCEPT ![e.tid] = tk]
         \/ /\ e.i = pending_[e.tid].expected
            /\ {f \in beatEvents' : f.tid = e.tid} = {}
            /\ DOMAIN pending_' = DOMAIN pending_ \ {e.tid}
            /\ \A t \in DOMAIN pending_' : pending_'[t] = pending_[t]
            /\ mresp' = Enqueue(mresp, [tid    |-> e.tid,    kind  |-> e.kind,
                                        caller |-> e.caller, beats |-> tk.wbeats])
  BY <1>1, <1>3, <1>4, CollectKeepsMemInv
<1>6. e.tid \in DOMAIN pending_ /\ e.i = Collected(pending_[e.tid]) + 1
  BY <1>1, DueIsNext DEF MemInv, Scheduled
<1>7. Carried(e, tk.wbeats)
  <2>1. e.i < pending_[e.tid].expected /\ pending_' = [pending_ EXCEPT ![e.tid] = tk] => 
           /\ DOMAIN pending_' = DOMAIN pending_ /\ pending_'[e.tid] = tk
           /\ \A t \in DOMAIN pending_ \ {e.tid} : pending_'[t] = pending_[t]
    BY <1>6 DEF MemInv, Typed
  <2> QED BY <2>1, <1>1, <1>4, <1>5, <1>6 DEF Carried
<1> QED BY <1>1, <1>4, <1>5, <1>7

-----------------------------------------------------------------------------
(* The clock and the response port.                                        *)

\* A tick moves all events on by the same amount.
LEMMA TickKeepsMemInv ==
  ASSUME MemInv, Tick
  PROVE  /\ MemInv' /\ InUse' = InUse
         /\ \A e \in beatEvents : [e EXCEPT !.due = @ - 1] \in beatEvents'
         /\ \A f \in beatEvents' :
              \E e \in beatEvents :
                /\ f.tid = e.tid /\ f.kind = e.kind /\ f.caller = e.caller
                /\ f.i = e.i /\ f.due = e.due - 1 /\ f.beat = e.beat
<1> DEFINE D(e) == [e EXCEPT !.due = @ - 1]
<1>1. /\ beatEvents' = {D(e) : e \in beatEvents}
      /\ \A e \in beatEvents : e.due > 0
      /\ stepped' = FALSE /\ pending_' = pending_ /\ mresp' = mresp
  BY DEF Tick
<1>2. ASSUME NEW e \in beatEvents
      PROVE  /\ IsEvent(D(e))
             /\ D(e).tid = e.tid /\ D(e).kind = e.kind /\ D(e).caller = e.caller
             /\ D(e).i = e.i /\ D(e).due = e.due - 1 /\ D(e).beat = e.beat
  <2>1. IsEvent(e) /\ e.due > 0
    BY <1>1 DEF MemInv, Typed
  <2>2. /\ D(e) = [tid |-> e.tid, kind |-> e.kind, caller |-> e.caller,
                   i |-> e.i, due |-> e.due - 1, beat |-> e.beat]
        /\ e.due - 1 \in Nat
    BY <2>1 DEF IsEvent
  <2> HIDE DEF D
  <2>3. /\ D(e).tid = e.tid /\ D(e).kind = e.kind /\ D(e).caller = e.caller
        /\ D(e).i = e.i /\ D(e).due = e.due - 1 /\ D(e).beat = e.beat
    BY <2>2
  <2> QED BY <2>1, <2>2, <2>3 DEF IsEvent
<1> HIDE DEF D
<1>3. \A f \in beatEvents' : \E e \in beatEvents : f = D(e)
  BY <1>1
<1>4. Typed'
  BY <1>1, <1>2, <1>3 DEF MemInv, Typed
<1>5. Scheduled'
  <2>1. ASSUME NEW f \in beatEvents'
        PROVE  /\ f.tid \in DOMAIN pending_'
               /\ Collected(pending_'[f.tid]) < f.i /\ f.i <= pending_'[f.tid].expected
    <3>1. PICK e \in beatEvents : f = D(e)
      BY <1>3
    <3> QED BY <3>1, <1>1, <1>2 DEF MemInv, Scheduled
  <2>2. ASSUME NEW t \in DOMAIN pending_'
        PROVE  /\ Collected(pending_'[t]) < pending_'[t].expected
               /\ \A k \in Collected(pending_'[t]) + 1 .. pending_'[t].expected :
                    \E f \in beatEvents' : f.tid = t /\ f.i = k
    <3>1. ASSUME NEW k \in Collected(pending_[t]) + 1 .. pending_[t].expected
          PROVE  \E f \in beatEvents' : f.tid = t /\ f.i = k
      <4>1. PICK e \in beatEvents : e.tid = t /\ e.i = k
        BY <1>1 DEF MemInv, Scheduled
      <4>2. D(e) \in beatEvents'
        BY <1>1
      <4> QED BY <4>1, <4>2, <1>2
    <3> QED BY <3>1, <1>1 DEF MemInv, Scheduled
  <2> QED BY <2>1, <2>2 DEF Scheduled
<1>6. Paced'
  <2> SUFFICES ASSUME NEW f \in beatEvents', NEW g \in beatEvents', f.tid = g.tid
               PROVE  f.due - f.i = g.due - g.i /\ f.kind = g.kind /\ (f.i = g.i => f = g)
    BY DEF Paced
  <2>1. PICK d \in beatEvents : f = D(d)
    BY <1>3
  <2>2. PICK e \in beatEvents : g = D(e)
    BY <1>3
  <2>3. d.due - d.i = e.due - e.i /\ d.kind = e.kind /\ (d.i = e.i => d = e)
    BY <2>1, <2>2, <1>2 DEF MemInv, Paced
  <2>4. d.due \in Int /\ d.i \in Int /\ e.due \in Int /\ e.i \in Int
    BY DEF MemInv, Typed, IsEvent
  <2>5. f.due - f.i = g.due - g.i
    <3>1. f.due = d.due - 1 /\ g.due = e.due - 1 /\ f.i = d.i /\ g.i = e.i
      BY <2>1, <2>2, <1>2
    <3> QED BY <3>1, <2>3, <2>4
  <2> QED BY <2>1, <2>2, <2>3, <2>5, <1>2
<1>7. Sorted'
  BY <1>1, <1>2, <1>3 DEF MemInv, Sorted
<1>8. Settled' /\ InUse' = InUse
  BY <1>1 DEF MemInv, Settled, InUse
<1>9. \A e \in beatEvents : [e EXCEPT !.due = @ - 1] \in beatEvents'
  BY <1>1 DEF D
<1>10. \A f \in beatEvents' :
         \E e \in beatEvents :
           /\ f.tid = e.tid /\ f.kind = e.kind /\ f.caller = e.caller
           /\ f.i = e.i /\ f.due = e.due - 1 /\ f.beat = e.beat
  BY <1>2, <1>3
<1> QED BY <1>4, <1>5, <1>6, <1>7, <1>8, <1>9, <1>10 DEF MemInv

\* Sending a response that waits keeps the invariant ...
LEMMA SendKeepsMemInv ==
  ASSUME MemInv, trySendResponse
  PROVE  MemInv' /\ InUse' = InUse /\ Held(mresp)' = Held(mresp)
<1>1. IsPort(mresp') /\ Held(mresp)' = Held(mresp)
  BY SendIsPort DEF MemInv, Typed, trySendResponse
<1>2. Typed' /\ Scheduled' /\ Paced' /\ Sorted'
  BY <1>1 DEF MemInv, Typed, Scheduled, Paced, Sorted, trySendResponse
<1>3. Settled' /\ InUse' = InUse
  BY <1>1 DEF MemInv, Settled, InUse, trySendResponse
<1> QED BY <1>1, <1>2, <1>3 DEF MemInv

\* ... and so does a client that takes one.
LEMMA TakeKeepsMemInv ==
  ASSUME MemInv, mresp' = Forward(mresp), UNCHANGED <<pending_, beatEvents, stepped>>
  PROVE  MemInv' /\ InUse' \subseteq InUse /\ Held(mresp)' \subseteq Held(mresp)
<1>1. IsPort(mresp') /\ Held(mresp)' \subseteq Held(mresp)
  BY ForwardIsPort DEF MemInv, Typed
<1>2. Typed' /\ Scheduled' /\ Paced' /\ Sorted'
  BY <1>1 DEF MemInv, Typed, Scheduled, Paced, Sorted
<1>3. Settled' /\ InUse' \subseteq InUse
  BY <1>1 DEF MemInv, Settled, InUse
<1> QED BY <1>1, <1>2, <1>3 DEF MemInv

LEMMA InitMemInv == MemInit => MemInv /\ InUse = {}
<1> SUFFICES ASSUME MemInit PROVE MemInv /\ InUse = {}
  OBVIOUS
<1>1. DOMAIN pending_ = {} /\ beatEvents = {} /\ Held(mresp) = {} /\ IsPort(mresp)
  BY EmptyIsPort DEF MemInit
<1>2. pending_ = [t \in DOMAIN pending_ |-> pending_[t]] /\ stepped \in BOOLEAN
  BY DEF MemInit
<1> QED BY <1>1, <1>2 DEF MemInv, Typed, Scheduled, Paced, Sorted, Settled, InUse

LEMMA UnchangedMemInv == MemInv /\ UNCHANGED memvars => MemInv' /\ InUse' = InUse
BY DEF MemInv, Typed, Scheduled, Paced, Sorted, Settled, InUse, memvars

=============================================================================
