----------------------------- MODULE DataMemory -----------------------------
(***************************************************************************)
(* The data memory of the SoC (soc/include/DataMemory.hh,                  *)
(* soc/libs/DataMemory.cc, soc/libs/BaseMemory.cc).                        *)
(*                                                                         *)
(* A request burst popped from the bus is split into beats.  Beat i is     *)
(* carried out by an event of its own, latency + i ticks later, and put    *)
(* into the burst's tracker; the beat that completes the tracker sends the *)
(* response.  Bursts popped on consecutive ticks therefore overlap.        *)
(***************************************************************************)
EXTENDS PipePort, Integers, FiniteSets

CONSTANTS
  MemSize,      \* bytes
  InitMem,      \* the bytes the program is loaded with
  Latency       \* memory_read_latency, used for reads and for writes

ASSUME MemSizeAssumption == MemSize \in Nat \ {0}
ASSUME InitMemAssumption == InitMem \in [0 .. MemSize - 1 -> 0 .. 255]
ASSUME LatencyAssumption == Latency \in Nat

VARIABLES
  mem,          \* the bytes
  pending_,     \* transaction id -> BurstTracker
  beatEvents,   \* the scheduled beat events
  mresp,        \* respQ_ and the pipe register m_reg it feeds
  stepped       \* step() has popped a packet in this tick

memvars == <<mem, pending_, beatEvents, mresp, stepped>>

Byte == 0 .. 255

\* A word is the tuple of its bytes, lowest address first.
WordAt(a) == <<mem[a], mem[a + 1], mem[a + 2], mem[a + 3]>>
SignOf(b) == IF b >= 128 THEN 255 ELSE 0

\* memReadReqHandler: the value a load returns
Load(op, a) ==
  CASE op = "LW"  -> WordAt(a)
    [] op = "LH"  -> <<mem[a], mem[a + 1], SignOf(mem[a + 1]), SignOf(mem[a + 1])>>
    [] op = "LHU" -> <<mem[a], mem[a + 1], 0, 0>>
    [] op = "LB"  -> <<mem[a], SignOf(mem[a]), SignOf(mem[a]), SignOf(mem[a])>>
    [] op = "LBU" -> <<mem[a], 0, 0, 0>>

\* (mutant) SW stores its low half.
Store_HalfWord(op, a, d) ==
  CASE op \in {"SW", "SH"} ->
         [b \in DOMAIN mem |-> IF b \in a .. a + 1 THEN d[b - a + 1] ELSE mem[b]]
    [] op = "SB"  -> [mem EXCEPT ![a] = d[1]]
    [] op = "SB3" -> [mem EXCEPT ![a] = d[3]]

\* memWriteReqHandler: the memory after a store (SB3: SB of the third byte)
Store(op, a, d) ==
  CASE op = "SW"  -> [b \in DOMAIN mem |-> IF b \in a .. a + 3 THEN d[b - a + 1] ELSE mem[b]]
    [] op = "SH"  -> [b \in DOMAIN mem |-> IF b \in a .. a + 1 THEN d[b - a + 1] ELSE mem[b]]
    [] op = "SB"  -> [mem EXCEPT ![a] = d[1]]
    [] op = "SB3" -> [mem EXCEPT ![a] = d[3]]

-----------------------------------------------------------------------------
\* The beat events of a burst, the first one a latency away.
BeatEvents(pkt) ==
  {[tid |-> pkt.tid, kind |-> pkt.kind, caller |-> pkt.caller,
    i |-> i, due |-> Latency + i - 1, beat |-> pkt.beats[i]] : i \in 1 .. Len(pkt.beats)}

\* pending_[tid] = a new tracker.
Track(tid, expected) ==
  [t \in DOMAIN pending_ \cup {tid} |->
     IF t = tid THEN [expected |-> expected, rbeats |-> <<>>, wbeats |-> <<>>]
     ELSE pending_[t]]

\* (mutant) One beat too many is expected.
MemPop_OneMore(pkt) ==
  /\ ~ stepped
  /\ stepped' = TRUE
  /\ mresp' = trySendPacket(mresp)
  /\ pending_' = Track(pkt.tid, Len(pkt.beats) + 1)
  /\ beatEvents' = beatEvents \cup BeatEvents(pkt)
  /\ UNCHANGED mem

\* (mutant) The latency is added to writes only.
MemPop_FastReads(pkt) ==
  /\ ~ stepped
  /\ stepped' = TRUE
  /\ mresp' = trySendPacket(mresp)
  /\ pending_' = Track(pkt.tid, Len(pkt.beats))
  /\ beatEvents' = beatEvents \cup
       {[e EXCEPT !.due = IF pkt.kind = "rd" THEN e.i - 1 ELSE @] : e \in BeatEvents(pkt)}
  /\ UNCHANGED mem

\* step(): send a response that waits, pop a burst, schedule its beats.
MemPop(pkt) ==
  /\ ~ stepped
  /\ stepped' = TRUE
  /\ mresp' = trySendPacket(mresp)
  /\ pending_' = Track(pkt.tid, Len(pkt.beats))
  /\ beatEvents' = beatEvents \cup BeatEvents(pkt)
  /\ UNCHANGED mem

\* The tracker tk of event e after e's beat: complete trackers answer.
Collect(e, tk, beats) ==
  IF Len(beats) = tk.expected
  THEN /\ pending_' = [t \in DOMAIN pending_ \ {e.tid} |-> pending_[t]]
       /\ mresp' = Enqueue(mresp, [tid    |-> e.tid,    kind  |-> e.kind,
                                   caller |-> e.caller, beats |-> beats])
  ELSE /\ pending_' = [pending_ EXCEPT ![e.tid] = tk]
       /\ UNCHANGED mresp

\* (mutant) The operand is not passed on.
memReadReqHandler_NoOperand ==
  \E e \in beatEvents :
    /\ e.due = 0 /\ e.kind = "rd"
    /\ beatEvents' = beatEvents \ {e}
    /\ LET tk == [pending_[e.tid] EXCEPT
                    !.rbeats = Append(@, [imm  |-> 0,
                                          data |-> Load(e.beat.op, e.beat.addr)])]
       IN  Collect(e, tk, tk.rbeats)
    /\ UNCHANGED <<mem, stepped>>

\* A read beat: load, and collect the response beat with its operand.
memReadReqHandler ==
  \E e \in beatEvents :
    /\ e.due = 0 /\ e.kind = "rd"
    /\ beatEvents' = beatEvents \ {e}
    /\ LET tk == [pending_[e.tid] EXCEPT
                    !.rbeats = Append(@, [imm  |-> e.beat.imm,
                                          data |-> Load(e.beat.op, e.beat.addr)])]
       IN  Collect(e, tk, tk.rbeats)
    /\ UNCHANGED <<mem, stepped>>

\* (mutant) The last beat of a long burst is answered but not stored.
memWriteReqHandler_SkipsLast ==
  \E e \in beatEvents :
    /\ e.due = 0 /\ e.kind = "wr"
    /\ beatEvents' = beatEvents \ {e}
    /\ mem' = IF e.i = 4 THEN mem ELSE Store(e.beat.op, e.beat.addr, e.beat.data)
    /\ LET tk == [pending_[e.tid] EXCEPT !.wbeats = Append(@, e.i)]
       IN  Collect(e, tk, tk.wbeats)
    /\ UNCHANGED stepped

\* A write beat: store, and collect the acknowledgement.
memWriteReqHandler ==
  \E e \in beatEvents :
    /\ e.due = 0 /\ e.kind = "wr"
    /\ beatEvents' = beatEvents \ {e}
    /\ mem' = Store(e.beat.op, e.beat.addr, e.beat.data)
    /\ LET tk == [pending_[e.tid] EXCEPT !.wbeats = Append(@, e.i)]
       IN  Collect(e, tk, tk.wbeats)
    /\ UNCHANGED stepped

\* The trySendResponse event, step() without a packet, and masterPortRetry.
trySendResponse ==
  /\ trySendPacket(mresp) # mresp
  /\ mresp' = trySendPacket(mresp)
  /\ UNCHANGED <<mem, pending_, beatEvents, stepped>>

\* The simulator's clock: events due now run before it advances.
Tick ==
  /\ stepped \/ beatEvents # {}
  /\ \A e \in beatEvents : e.due > 0
  /\ beatEvents' = {[e EXCEPT !.due = @ - 1] : e \in beatEvents}
  /\ stepped' = FALSE
  /\ UNCHANGED <<mem, pending_, mresp>>

MemInit ==
  /\ mem = InitMem
  /\ pending_ = [t \in {} |-> 0]
  /\ beatEvents = {}
  /\ mresp = EmptyPort
  /\ stepped = FALSE

MemInternal == memReadReqHandler \/ memWriteReqHandler \/ trySendResponse \/ Tick

-----------------------------------------------------------------------------
\* Every tracker waits for exactly the beats that are still scheduled: no
\* burst is forgotten, answered twice or answered before its last beat
\* (pending_ in DataMemory.hh:150).
TrackersAccounted ==
  /\ \A e \in beatEvents : e.tid \in DOMAIN pending_
  /\ \A t \in DOMAIN pending_ :
       LET left == {e \in beatEvents : e.tid = t}
       IN  /\ left # {}
           /\ pending_[t].expected = Cardinality(left) + Len(pending_[t].rbeats)
                                       + Len(pending_[t].wbeats)
  /\ \A i \in 1 .. Len(mresp.q) : mresp.q[i].tid \notin DOMAIN pending_

=============================================================================
