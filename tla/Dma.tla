-------------------------------- MODULE Dma --------------------------------
(***************************************************************************)
(* The DMA controller of the SoC (soc/include/DMA.hh, soc/libs/DMA.cc).    *)
(*                                                                         *)
(* The controller is programmed through MMIO registers, reads bursts of    *)
(* the source into bufferMemory, writes the buffer out as bursts to the    *)
(* destination, and raises DONE.  Every handler of the C++ class is one    *)
(* action: it runs to completion within one simulator event.               *)
(*                                                                         *)
(* The controller's surroundings are open: a driver (the CPU program or    *)
(* the systolic array) that programs one transfer at a time and polls      *)
(* DONE, and a memory system that takes request bursts from the request    *)
(* pipe register and may answer those it holds in any order, with any      *)
(* data.  DmaSystem replaces the latter by the actual DataMemory.          *)
(***************************************************************************)
EXTENDS PipePort, Integers, FiniteSets

CONSTANTS
  BufferCapacity,   \* BUFFER_CAPACITY: words in bufferMemory (256 in the code)
  Word,             \* values of a 32-bit memory word
  ZeroWord,         \* the word written when the buffer is cleared
  Garbage,          \* values an uninitialised int member may hold
  Transfers,        \* [src, dst, cfg] triples the driver may program
  MaxTransfers      \* bound: how many transfers the driver starts

ASSUME CapacityAssumption == BufferCapacity \in Nat \ {0}
ASSUME WordAssumption == ZeroWord \in Word
ASSUME GarbageAssumption == Garbage \subseteq Int
ASSUME TransfersAssumption ==
  Transfers # {} /\ Transfers \subseteq [src : Nat, dst : Nat, cfg : Nat]
ASSUME MaxTransfersAssumption == MaxTransfers \in Nat

VARIABLES
  st,             \* enabled, done, currentState
  srcAddr, dstAddr, dmaSizeCfg,      \* MMIO registers, read during the transfer
  geo,            \* geometry decoded from dmaSizeCfg at ENABLE
  cnt,            \* wordsToBuffer, wordsTransferred, bufferIndex,
                  \* pendingBusReadResponses, pendingBusWriteResponses
  bufferMemory,
  req,            \* req_Q and the pipe register m_req it feeds
  resp,           \* resp_Q and the pipe register m_resp it feeds
  events,         \* LambdaEvents scheduled one tick ahead, in order
  mmioReads,      \* readMMIO events scheduled a memory latency ahead, in order
  nextTid,        \* auto-incremented transaction id
  outstanding,    \* bursts the memory system has accepted and not answered
  drv, mport      \* the driver, and its MMIO request at the slave port

regs     == <<srcAddr, dstAddr, dmaSizeCfg>>
transfer == <<geo, cnt, bufferMemory, events, nextTid>>
driver   == <<drv, mport>>
vars     == <<st, regs, transfer, req, resp, mmioReads, outstanding, driver>>

-----------------------------------------------------------------------------
(* Packets.                                                                *)

ReadBeat   == [op : {"LW"}, addr : Nat, imm : Nat]
WriteBeat  == [op : {"SW", "SH", "SB", "SB3"}, addr : Nat, data : Word]
ReadBursts == [tid : Nat, kind : {"rd"}, caller : {"dma"}, beats : Seq(ReadBeat)]
WrtBursts  == [tid : Nat, kind : {"wr"}, caller : {"dma"}, beats : Seq(WriteBeat)]
Burst      == ReadBursts \cup WrtBursts

-----------------------------------------------------------------------------
(* Geometry.                                                               *)

MinOf(a, b) == IF a <= b THEN a ELSE b

max_burst_words == 4        \* 2 ^ max_burst_len

\* initialized_transaction: decode DMA_SIZE_CFG
Decode(cfg) ==
  LET width  == ((cfg \div 256) % 256) + 1
      height == (cfg % 256) + 1
  IN  [true_width    |-> width,
       true_height   |-> height,
       Source_stride |-> (cfg \div 16777216) % 256,
       Dest_stride   |-> (cfg \div 65536) % 256,
       totalWords    |-> ((width \div 4) + (IF width % 4 # 0 THEN 1 ELSE 0)) * height]

WordsPerRow(g) == (g.true_width + 3) \div 4

\* Address of word number w of a region laid out in rows of the given stride.
WordAddr(g, base, stride, w) ==
  base + (w \div WordsPerRow(g)) * stride + (w % WordsPerRow(g)) * 4

\* The test the code uses to find the partial word at the end of a row.
IsPartial(g, w) ==
  /\ w % WordsPerRow(g) = WordsPerRow(g)
  /\ g.true_width % 4 # 0

\* How many sub-packets (SW, SH or SB requests) word number w needs.
Subpackets(g, w) == IF IsPartial(g, w) /\ g.true_width % 4 = 3 THEN 2 ELSE 1

\* Sub-packets of the first i <= 4 words from word number w on.
SubpacketCount(g, w, i) ==
  (IF i >= 1 THEN Subpackets(g, w)     ELSE 0) +
  (IF i >= 2 THEN Subpackets(g, w + 1) ELSE 0) +
  (IF i >= 3 THEN Subpackets(g, w + 2) ELSE 0) +
  (IF i >= 4 THEN Subpackets(g, w + 3) ELSE 0)

\* writeChunkCalculation: the longest run of words, of the `left' ones from
\* word number w on, whose sub-packets number 1, 2 or 4; 1 if there is none.
\* Every word needs a sub-packet, so no run is longer than a burst.
writeChunkCalculation(g, w, left) ==
  LET valid == {i \in 1 .. MinOf(left, max_burst_words) :
                  SubpacketCount(g, w, i) \in {1, 2, 4}}
  IN  IF valid = {} THEN 1 ELSE CHOOSE i \in valid : \A j \in valid : j <= i

\* makeFullWritePacket / makePartialWritePackets: the requests of one word.
\* SH and SB store its low bytes, SB3 is the SB of its third byte.
WriteRequests(g, w, addr, data) ==
  IF ~ IsPartial(g, w) THEN <<[op |-> "SW", addr |-> addr, data |-> data]>>
  ELSE CASE g.true_width % 4 = 3 -> <<[op |-> "SH", addr |-> addr, data |-> data],
                                      [op |-> "SB3", addr |-> addr + 2, data |-> data]>>
         [] g.true_width % 4 = 2 -> <<[op |-> "SH", addr |-> addr, data |-> data]>>
         [] OTHER                -> <<[op |-> "SB", addr |-> addr, data |-> data]>>

-----------------------------------------------------------------------------
(* Bursts.                                                                 *)

\* (mutant) Bursts of three words.
ReadChunk_Three(g, c) ==
  MinOf(max_burst_words,
        MinOf(BufferCapacity - c.bufferIndex, g.totalWords - c.wordsToBuffer))

\* The words a read burst asks for: what fits the buffer and is left of the
\* transfer, at most four, and two instead of three.
ReadChunk(g, c) ==
  LET n == MinOf(max_burst_words,
                 MinOf(BufferCapacity - c.bufferIndex, g.totalWords - c.wordsToBuffer))
  IN  IF n = 3 THEN 2 ELSE n

\* (mutant) The operand forgets the words already in the buffer.
ReadBurst_NoOffset(g, c) ==
  [tid    |-> nextTid,
   kind   |-> "rd",
   caller |-> "dma",
   beats  |-> [i \in 1 .. ReadChunk(g, c) |->
                [op   |-> "LW",
                 addr |-> WordAddr(g, srcAddr, g.Source_stride,
                                   c.wordsTransferred + c.bufferIndex + i - 1),
                 imm  |-> i - 1]]]

\* The read burst of scheduleReadsForBuffer: beat i asks for the next word but
\* i - 1 and carries, as operand, the place in the buffer it is meant for.
ReadBurst(g, c) ==
  [tid    |-> nextTid,
   kind   |-> "rd",
   caller |-> "dma",
   beats  |-> [i \in 1 .. ReadChunk(g, c) |->
                [op   |-> "LW",
                 addr |-> WordAddr(g, srcAddr, g.Source_stride,
                                   c.wordsTransferred + c.bufferIndex + i - 1),
                 imm  |-> c.bufferIndex + i - 1]]]

\* (mutant) Every chunk is taken from the start of the buffer.
createWriteRequestsForChunk_FromStart(g, c, o, chunk) ==
  LET Of(i) ==
        IF i >= chunk THEN <<>>
        ELSE LET w == c.wordsTransferred + o + i
             IN  WriteRequests(g, w, WordAddr(g, dstAddr, g.Dest_stride, w), bufferMemory[i])
  IN  Of(0) \o Of(1) \o Of(2) \o Of(3)

\* createWriteRequestsForChunk: the requests of the `chunk' words that start
\* at buffer offset o.
createWriteRequestsForChunk(g, c, o, chunk) ==
  LET Of(i) ==
        IF i >= chunk THEN <<>>
        ELSE LET w == c.wordsTransferred + o + i
             IN  WriteRequests(g, w, WordAddr(g, dstAddr, g.Dest_stride, w),
                               bufferMemory[o + i])
  IN  Of(0) \o Of(1) \o Of(2) \o Of(3)

\* The loop of scheduleWritesFromBuffer: one burst per chunk of the buffer.
\* (Transaction ids only have to differ, so the burst at offset o takes the
\* o-th id from nextTid on.)
WriteBursts(g, c) ==
  LET n == c.bufferIndex
      Chunk(o) == writeChunkCalculation(g, c.wordsTransferred + o, n - o)
      from[o \in 0 .. n] ==
        IF o = n THEN <<>>
        ELSE <<[tid    |-> nextTid + o,
                kind   |-> "wr",
                caller |-> "dma",
                beats  |-> createWriteRequestsForChunk(g, c, o, Chunk(o))]>>
             \o from[o + Chunk(o)]
  IN  from[0]

-----------------------------------------------------------------------------
(* The scheduling functions.  They run inside the handlers below, which    *)
(* pass them the values current at the call: the request port, geometry,   *)
(* counters and status.                                                    *)

\* (mutant) The DONE flag is forgotten.
Complete_NoDone(s) == [s EXCEPT !.currentState = "IDLE", !.enabled = FALSE]

\* transaction_complete
Complete(s) == [s EXCEPT !.currentState = "IDLE", !.done = TRUE, !.enabled = FALSE]

\* scheduleReadsForBuffer with something to read
IssueRead(port, g, c, s) ==
  /\ req' = PushOrQueue(port, ReadBurst(g, c))
  /\ cnt' = [c EXCEPT !.pendingBusReadResponses = 1]
  /\ nextTid' = nextTid + 1
  /\ st' = s

\* scheduleWritesFromBuffer with something to write.  A burst the register
\* accepts is not counted in pendingBusWriteResponses; a queued one is.
IssueWrites(port, g, c, s) ==
  \E ws \in {WriteBursts(g, c)} :
    /\ req' = PushAll(port, ws)
    /\ cnt' = [c EXCEPT !.wordsTransferred = @ + c.bufferIndex,
                        !.pendingBusWriteResponses =
                          IF port.reg = <<>> THEN Len(ws) - 1 ELSE Len(ws)]
    /\ nextTid' = nextTid + c.bufferIndex
    /\ st' = s

Finish(port, c, s) ==
  /\ st' = Complete(s)
  /\ req' = port
  /\ cnt' = c
  /\ UNCHANGED nextTid

scheduleReadsForBuffer(port, g, c, s) ==
  IF MinOf(BufferCapacity - c.bufferIndex, g.totalWords - c.wordsToBuffer) # 0
  THEN IssueRead(port, g, c, s)
  ELSE IF c.wordsToBuffer >= g.totalWords
       THEN Finish(port, c, s)
       ELSE IssueWrites(port, g, c, [s EXCEPT !.currentState = "WRITING"])

scheduleWritesFromBuffer(port, g, c, s) ==
  IF c.bufferIndex # 0
  THEN IssueWrites(port, g, c, s)
  ELSE IF c.wordsTransferred >= g.totalWords
       THEN Finish(port, c, s)
       ELSE scheduleReadsForBuffer(port, g, c, [s EXCEPT !.currentState = "READING"])

-----------------------------------------------------------------------------
(* The controller's step(): send what is queued, then handle one packet    *)
(* popped from the slave port.                                             *)

\* step() with nothing to pop, the trySendPacket events and masterPortRetry.
TrySend ==
  /\ <<trySendPacket(req), trySendPacket(resp)>> # <<req, resp>>
  /\ req' = trySendPacket(req)
  /\ resp' = trySendPacket(resp)
  /\ UNCHANGED <<st, regs, transfer, mmioReads, outstanding, driver>>

\* A popped MMIO read is answered by a readMMIO event a memory latency later.
StepMmioRead ==
  /\ mport # <<>> /\ mport[1].kind = "rd"
  /\ mport' = <<>>
  /\ mmioReads' = Append(mmioReads, mport[1])
  /\ req' = trySendPacket(req)
  /\ resp' = trySendPacket(resp)
  /\ UNCHANGED <<st, regs, transfer, outstanding, drv>>

\* The readMMIO event.
readMMIO ==
  /\ mmioReads # <<>>
  /\ mmioReads' = Tail(mmioReads)
  /\ LET data == CASE Head(mmioReads).reg = "ENABLE"       -> IF st.enabled THEN 1 ELSE 0
                   [] Head(mmioReads).reg = "SOURCE_INFO"  -> srcAddr
                   [] Head(mmioReads).reg = "DEST_INFO"    -> dstAddr
                   [] Head(mmioReads).reg = "DMA_SIZE_CFG" -> dmaSizeCfg
                   [] Head(mmioReads).reg = "DONE"         -> IF st.done THEN 1 ELSE 0
     IN  resp' = Enqueue(resp, [kind |-> "rd", data |-> data])
  /\ UNCHANGED <<st, regs, transfer, req, outstanding, driver>>

\* writeMMIO to ENABLE with bit 0 set: initialized_transaction, startTransfer.
WriteEnable(port) ==
  LET g == Decode(dmaSizeCfg)
      c == [cnt EXCEPT !.wordsToBuffer = 0, !.wordsTransferred = 0, !.bufferIndex = 0]
  IN  /\ geo' = g
      /\ scheduleReadsForBuffer(port, g, c,
           [enabled |-> TRUE, done |-> FALSE, currentState |-> "READING"])
      /\ UNCHANGED <<regs, bufferMemory, events>>

WriteRegister(port, r) ==
  /\ srcAddr'    = IF r.reg = "SOURCE_INFO"  THEN r.data ELSE srcAddr
  /\ dstAddr'    = IF r.reg = "DEST_INFO"    THEN r.data ELSE dstAddr
  /\ dmaSizeCfg' = IF r.reg = "DMA_SIZE_CFG" THEN r.data ELSE dmaSizeCfg
  /\ st' = [st EXCEPT !.done = IF r.reg = "DONE" THEN FALSE ELSE @]
  /\ req' = port
  /\ UNCHANGED transfer

\* A popped MMIO write is carried out at once and acknowledged through resp_Q.
StepMmioWrite ==
  /\ mport # <<>> /\ mport[1].kind = "wr"
  /\ mport' = <<>>
  /\ IF mport[1].reg = "ENABLE" /\ mport[1].data % 2 = 1
     THEN WriteEnable(trySendPacket(req))
     ELSE WriteRegister(trySendPacket(req), mport[1])
  /\ resp' = Enqueue(trySendPacket(resp), [kind |-> "wr", data |-> 0])
  /\ UNCHANGED <<mmioReads, outstanding, drv>>

\* handleReadResponse for the burst with the given read beats: store the
\* data, then schedule the next read burst or the write phase one tick ahead.
handleReadResponse(beats, data) ==
  LET chunk == Len(beats)
      c     == [cnt EXCEPT !.bufferIndex = @ + chunk, !.wordsToBuffer = @ + chunk,
                           !.pendingBusReadResponses = @ - 1]
      more  == BufferCapacity - c.bufferIndex > 0 /\ geo.totalWords - c.wordsToBuffer > 0
  IN  /\ bufferMemory' =
           [i \in DOMAIN bufferMemory |->
              IF \E k \in 1 .. chunk : beats[k].imm = i
              THEN data[CHOOSE k \in 1 .. chunk : beats[k].imm = i]
              ELSE bufferMemory[i]]
      /\ cnt' = c
      /\ events' = Append(events, IF more THEN "scheduleReadsForBuffer"
                                          ELSE "scheduleWritesFromBuffer")
      /\ st' = IF more THEN st ELSE [st EXCEPT !.currentState = "WRITING"]
      /\ UNCHANGED <<geo, nextTid>>

StepReadResponse(p, data) ==
  /\ p.kind = "rd"
  /\ handleReadResponse(p.beats, data)
  /\ req' = trySendPacket(req)
  /\ resp' = trySendPacket(resp)
  /\ UNCHANGED <<regs, mmioReads, driver>>

\* (mutant) Responses that the count has not waited for end the fill again.
handleWriteCompletion_Again(port) ==
  LET c == [cnt EXCEPT !.pendingBusWriteResponses = @ - 1]
      e == [c EXCEPT !.bufferIndex = 0]
  IN  /\ IF c.pendingBusWriteResponses > 0
         THEN /\ cnt' = c
              /\ req' = port
              /\ UNCHANGED <<st, bufferMemory, nextTid>>
         ELSE /\ UNCHANGED bufferMemory
              /\ IF c.wordsTransferred >= geo.totalWords
                 THEN Finish(port, e, st)
                 ELSE scheduleReadsForBuffer(port, geo, e, [st EXCEPT !.currentState = "READING"])
      /\ UNCHANGED <<geo, events>>

\* (mutant) The transfer completes with the first buffer.
handleWriteCompletion_OneFill(port) ==
  LET c == [cnt EXCEPT !.pendingBusWriteResponses = @ - 1]
  IN  /\ IF c.pendingBusWriteResponses # 0
         THEN /\ cnt' = c
              /\ req' = port
              /\ UNCHANGED <<st, nextTid>>
         ELSE Finish(port, [c EXCEPT !.bufferIndex = 0], st)
      /\ UNCHANGED <<geo, events, bufferMemory>>

\* handleWriteCompletion: one response less to wait for; at zero the buffer is
\* cleared and the transfer completes or goes back to reading.
handleWriteCompletion(port) ==
  LET c == [cnt EXCEPT !.pendingBusWriteResponses = @ - 1]
      e == [c EXCEPT !.bufferIndex = 0]
  IN  /\ IF c.pendingBusWriteResponses # 0
         THEN /\ cnt' = c
              /\ req' = port
              /\ UNCHANGED <<st, bufferMemory, nextTid>>
         ELSE /\ bufferMemory' = [i \in DOMAIN bufferMemory |->
                                    IF i < c.bufferIndex THEN ZeroWord ELSE bufferMemory[i]]
              /\ IF c.wordsTransferred >= geo.totalWords
                 THEN Finish(port, e, st)
                 ELSE scheduleReadsForBuffer(port, geo, e, [st EXCEPT !.currentState = "READING"])
      /\ UNCHANGED <<geo, events>>

StepWriteResponse(p) ==
  /\ p.kind = "wr"
  /\ handleWriteCompletion(trySendPacket(req))
  /\ resp' = trySendPacket(resp)
  /\ UNCHANGED <<regs, mmioReads, driver>>

\* The two events handleReadResponse schedules.
ReadsEvent ==
  /\ events # <<>> /\ Head(events) = "scheduleReadsForBuffer"
  /\ events' = Tail(events)
  /\ scheduleReadsForBuffer(req, geo, cnt, st)
  /\ UNCHANGED <<regs, geo, bufferMemory, resp, mmioReads, outstanding, driver>>

WritesEvent ==
  /\ events # <<>> /\ Head(events) = "scheduleWritesFromBuffer"
  /\ events' = Tail(events)
  /\ scheduleWritesFromBuffer(req, geo, cnt, st)
  /\ UNCHANGED <<regs, geo, bufferMemory, resp, mmioReads, outstanding, driver>>

-----------------------------------------------------------------------------
(* The driver: how the programs under soc/asm and SystolicArray program    *)
(* the controller.  It writes the three registers and ENABLE, polls DONE,  *)
(* and then may clear DONE before it goes on.                              *)

DriverProgram == [src |-> "SOURCE_INFO", dst |-> "DEST_INFO", cfg |-> "DMA_SIZE_CFG"]

\* What the driver does after the MMIO write it has just issued.
AfterWrite == [src |-> "dst", dst |-> "cfg", cfg |-> "enable",
               enable |-> "poll", clear |-> "idle"]

DriverStart ==
  /\ drv.pc = "idle"
  /\ drv.started < MaxTransfers
  /\ \E t \in Transfers :
       drv' = [pc |-> "src", job |-> t, started |-> drv.started + 1]
  /\ UNCHANGED <<st, regs, transfer, req, resp, mmioReads, outstanding, mport>>

DriverWrite ==
  /\ drv.pc \in DOMAIN AfterWrite
  /\ mport = <<>>
  /\ mport' = << [kind |-> "wr",
                  reg  |-> CASE drv.pc = "enable" -> "ENABLE"
                             [] drv.pc = "clear"  -> "DONE"
                             [] OTHER             -> DriverProgram[drv.pc],
                  data |-> CASE drv.pc = "enable" -> 1
                             [] drv.pc = "clear"  -> 0
                             [] OTHER             -> drv.job[drv.pc]] >>
  /\ drv' = [drv EXCEPT !.pc = AfterWrite[@]]
  /\ UNCHANGED <<st, regs, transfer, req, resp, mmioReads, outstanding>>

DriverPoll ==
  /\ drv.pc = "poll"
  /\ mport = <<>>
  /\ mport' = << [kind |-> "rd", reg |-> "DONE", data |-> 0] >>
  /\ drv' = [drv EXCEPT !.pc = "wait"]
  /\ UNCHANGED <<st, regs, transfer, req, resp, mmioReads, outstanding>>

\* The driver takes a response; write acknowledgements are dropped.
DriverReceive ==
  /\ resp.reg # <<>>
  /\ resp' = Forward(resp)
  /\ CASE resp.reg[1].kind = "wr" -> UNCHANGED drv
       [] resp.reg[1].kind = "rd" /\ resp.reg[1].data = 1 ->
            \E next \in {"idle", "clear"} : drv' = [drv EXCEPT !.pc = next]
       [] OTHER -> drv' = [drv EXCEPT !.pc = "poll"]
  /\ UNCHANGED <<st, regs, transfer, req, mmioReads, outstanding, mport>>

-----------------------------------------------------------------------------
(* The memory system.                                                      *)

\* The crossbar takes the burst in the request register.
BusAccept ==
  /\ req.reg # <<>>
  /\ req' = Forward(req)
  /\ outstanding' = outstanding \cup {req.reg[1]}
  /\ UNCHANGED <<st, regs, transfer, resp, mmioReads, driver>>

\* An outstanding burst is answered and the response popped by step().
BusReadResponse ==
  \E p \in outstanding :
    /\ outstanding' = outstanding \ {p}
    /\ \E data \in [1 .. Len(p.beats) -> Word] : StepReadResponse(p, data)

BusWriteResponse ==
  \E p \in outstanding :
    /\ outstanding' = outstanding \ {p}
    /\ StepWriteResponse(p)

-----------------------------------------------------------------------------
\* The constructor initialises nothing but the queues.  The flags and the
\* counters, which handlers read, hold anything; the registers, the geometry
\* and the buffer, which every transfer writes before it reads them, start at
\* zero.
Init ==
  /\ st \in [enabled : BOOLEAN, done : BOOLEAN,
             currentState : {"IDLE", "READING", "WRITING"}]
  /\ srcAddr = 0 /\ dstAddr = 0 /\ dmaSizeCfg = 0
  /\ geo = Decode(0)
  /\ \E n \in Garbage :
       cnt = [wordsToBuffer |-> n, wordsTransferred |-> n, bufferIndex |-> n,
              pendingBusReadResponses |-> n, pendingBusWriteResponses |-> n]
  /\ bufferMemory = [i \in 0 .. BufferCapacity - 1 |-> ZeroWord]
  /\ req = EmptyPort
  /\ resp = EmptyPort
  /\ events = <<>>
  /\ mmioReads = <<>>
  /\ nextTid = 0
  /\ outstanding = {}
  /\ drv = [pc |-> "idle", job |-> CHOOSE t \in Transfers : TRUE, started |-> 0]
  /\ mport = <<>>

Driver == DriverStart \/ DriverWrite \/ DriverPoll \/ DriverReceive

Controller == TrySend \/ StepMmioRead \/ StepMmioWrite \/ readMMIO \/ ReadsEvent \/ WritesEvent

Bus == BusAccept \/ BusReadResponse \/ BusWriteResponse

Next == Driver \/ Controller \/ Bus

\* The simulator runs every scheduled event and calls every component's step
\* (or its retry callback) while it has work; the crossbar forwards every
\* packet and the memory answers every burst.  Fairness is asked of three
\* groups only: the polling loop of the driver goes through the controller's
\* step(), which sends from req_Q each time, so it cannot hold the rest up.
Fairness ==
  /\ WF_vars(ReadsEvent \/ WritesEvent)
  /\ WF_vars(Bus)
  /\ WF_vars(DriverWrite \/ DriverPoll \/ DriverReceive
             \/ TrySend \/ StepMmioRead \/ StepMmioWrite \/ readMMIO)

Spec == Init /\ [][Next]_vars

FairSpec == Spec /\ Fairness

-----------------------------------------------------------------------------
(* Properties.                                                             *)

Elements(q) == {q[i] : i \in 1 .. Len(q)}

\* Bursts on their way to the memory system or in it.
Requests == Elements(req.reg) \cup Elements(req.q)
InFlight == Requests \cup outstanding
Reads    == {p \in InFlight : p.kind = "rd"}
Writes   == {p \in InFlight : p.kind = "wr"}

MmioRegister == {"ENABLE", "SOURCE_INFO", "DEST_INFO", "DMA_SIZE_CFG", "DONE"}
MmioRequest  == [kind : {"rd", "wr"}, reg : MmioRegister, data : Nat]
MmioResponse == [kind : {"rd", "wr"}, data : Nat]
EventName    == {"scheduleReadsForBuffer", "scheduleWritesFromBuffer"}
DriverPc     == {"idle", "src", "dst", "cfg", "enable", "poll", "wait", "clear"}
Geometry     == [true_width : Nat \ {0}, true_height : Nat \ {0}, Source_stride : Nat,
                 Dest_stride : Nat, totalWords : Nat \ {0}]
Tracking     == [wordsToBuffer : Int, wordsTransferred : Int, bufferIndex : Int,
                 pendingBusReadResponses : Int, pendingBusWriteResponses : Int]

\* Every variable keeps its type; in particular each pipe register holds at
\* most one packet, and packets are the bursts DMA.cc builds.
TypeOK ==
  /\ st \in [enabled : BOOLEAN, done : BOOLEAN,
             currentState : {"IDLE", "READING", "WRITING"}]
  /\ srcAddr \in Nat /\ dstAddr \in Nat /\ dmaSizeCfg \in Nat
  /\ geo \in Geometry
  /\ cnt \in Tracking
  /\ bufferMemory \in [0 .. BufferCapacity - 1 -> Word]
  /\ req \in [reg : Seq(Burst), q : Seq(Burst)] /\ Len(req.reg) <= 1
  /\ resp \in [reg : Seq(MmioResponse), q : Seq(MmioResponse)] /\ Len(resp.reg) <= 1
  /\ events \in Seq(EventName)
  /\ mmioReads \in Seq(MmioRequest)
  /\ nextTid \in Nat
  /\ outstanding \subseteq Burst
  /\ drv \in [pc : DriverPc, job : Transfers, started : 0 .. MaxTransfers]
  /\ mport \in Seq(MmioRequest) /\ Len(mport) <= 1

\* The controller fetches one thing at a time: there is never more than one
\* read burst in flight or event scheduled (DMA.cc:225 says "usually 1"), and
\* never a read burst together with a scheduled event.  A second one would
\* overwrite the buffer or drain it twice.
SingleFetch ==
  /\ \A p, q \in Reads : p = q
  /\ Len(events) <= 1
  /\ Reads # {} => events = <<>>

\* A read burst in flight still fits what its answer will meet: it fills the
\* buffer exactly from bufferIndex on, inside bufferMemory (the error of
\* DMA.cc:243 is never reported) and inside the transfer, and each beat holds
\* the source address of the word it will become.
ReadFits ==
  \A p \in Reads :
    /\ Len(p.beats) >= 1
    /\ cnt.bufferIndex + Len(p.beats) <= BufferCapacity
    /\ cnt.wordsToBuffer + Len(p.beats) <= geo.totalWords
    /\ \A k \in 1 .. Len(p.beats) :
         /\ p.beats[k].imm = cnt.bufferIndex + k - 1
         /\ p.beats[k].addr = WordAddr(geo, srcAddr, geo.Source_stride,
                                       cnt.wordsTransferred + p.beats[k].imm)

\* Every burst has one of the lengths the bus supports (DMA.cc:207, and the
\* switch of Construct_MemWritepkt_burst that otherwise yields burst -1).
LegalBursts == \A p \in InFlight : Len(p.beats) \in {1, 2, 4}

\* The driver has been told DONE for the transfer it started last.
SawDone == drv.started > 0 /\ drv.pc \in {"idle", "clear"}

\* When the driver learns DONE, the whole transfer has been read and handed
\* to the bus, and the controller is at rest: nothing is left that could
\* touch the buffer or read the registers the driver is about to rewrite.
DoneMeansIssued ==
  SawDone =>
    /\ cnt.wordsTransferred = geo.totalWords
    /\ cnt.wordsToBuffer = geo.totalWords
    /\ Reads = {} /\ events = <<>>
    /\ ~ st.enabled

\* The words of the transfer left for its last buffer fill.
LastFill(t) ==
  LET n == Decode(t.cfg).totalWords
  IN  IF n % BufferCapacity = 0 THEN BufferCapacity ELSE n % BufferCapacity

\* A polling driver learns that its transfer is done, provided the last fill
\* of the buffer takes more than one write burst (the other case is
\* DoneEventually below).
DoneUnlessSingleBurst ==
  (drv.pc = "poll" /\ LastFill(drv.job) \notin {1, 2, 4}) ~> SawDone

\* src/README.md:128: "Sets the `DONE` flag when the entire transfer completes",
\* for every transfer.
DoneEventually == drv.pc = "poll" ~> SawDone

=============================================================================
