--------------------------- MODULE SystolicSystem ---------------------------
(***************************************************************************)
(* The systolic array of the SoC at work: the control of                   *)
(* soc/libs/SystolicArray.cc around the compute core of Systolic, the DMA  *)
(* controller of Dma that it programs, its SRAM as target of the copies,   *)
(* and a CPU program in the manner of soc/asm/program_systolic_array.s.    *)
(*                                                                         *)
(* ENABLE makes the array program the DMA to fetch matrix A from data      *)
(* memory into the SRAM, poll its DONE, do the same for B, load both       *)
(* matrices from the SRAM and multiply.  The SRAM handles bursts as        *)
(* DataMemory does, "same idea" in the words of SystolicArray.hh:128, so   *)
(* that module is instantiated for it; its response port is the array's.   *)
(***************************************************************************)
EXTENDS Systolic, PipePort, TLC

CONSTANTS
  BufferCapacity,   \* words in the DMA's buffer
  Latency,          \* memory_read_latency
  SramSize,         \* bytes of SRAM (32000 in the code)
  Jobs,             \* the CPU program: for each multiplication its bus accesses up to ENABLE
  Images            \* contents data memory may have: functions from addresses to bytes

VARIABLES
  phase_, reg,      \* the phase, and the MMIO registers but for strideA_ and strideB_
  sreq,             \* req_Q_ and the pipe register m_req_ it feeds
  pokes,            \* the poll events of PokeDMAReady: the ticks until they are due
  mmio,             \* the readMMIO and writeMMIO events: accesses and the ticks until due
  sram, pending_, beatEvents, mresp, stepped,    \* as in DataMemory
  st, srcAddr, dstAddr, dmaSizeCfg, geo, cnt, bufferMemory, req, resp,   \* as in Dma
  events, mmioReads, nextTid, outstanding, drv, mport,
  cpu,              \* [job, pc, at]: the CPU's access and where it is
  dm                \* data memory, only read here: its bytes, and the ticks until it
                    \* may answer the burst it holds

\* The array is the DMA's driver, so Dma's own driver stays idle.
NoJob == [src |-> 0, dst |-> 0, cfg |-> 0]

D == INSTANCE Dma
       WITH Transfers <- {NoJob}, MaxTransfers <- 0, Garbage <- {0},
            Word <- [1 .. 4 -> 0 .. 255], ZeroWord <- <<0, 0, 0, 0>>
S == INSTANCE DataMemory
       WITH mem <- sram, MemSize <- SramSize, InitMem <- [a \in 0 .. SramSize - 1 |-> 0]

control  == <<phase_, reg>>
queues   == <<sreq, pokes, mmio>>
sramvars == <<sram, pending_, beatEvents, mresp, stepped>>
dmacore  == <<st, srcAddr, dstAddr, dmaSizeCfg, geo, cnt, bufferMemory, events, nextTid, drv>>
dmavars  == <<dmacore, req, resp, mmioReads, outstanding, mport>>
sysvars  == <<core, control, queues, sramvars, dmavars, cpu, dm>>

SA_MEMORY_BASE == 131072

-----------------------------------------------------------------------------
(* Programming the DMA.                                                    *)

DmaWrite(r, data) == [kind |-> "wr", reg |-> r, data |-> data]

\* (mutant) A first poll is queued ahead of the writes.
AskDMA_PollFirst(port, src, dst, cfg) ==
  [port EXCEPT !.q = @ \o << [kind |-> "rd", reg |-> "DONE", data |-> 0],
                             DmaWrite("SOURCE_INFO", src),
                             DmaWrite("DEST_INFO", dst + SA_MEMORY_BASE),
                             DmaWrite("DMA_SIZE_CFG", cfg),
                             DmaWrite("ENABLE", 1) >>]

\* The four register writes queued by both AskDMAtoWrite functions.
AskDMA(port, src, dst, cfg) ==
  [port EXCEPT !.q = @ \o << DmaWrite("SOURCE_INFO", src),
                             DmaWrite("DEST_INFO", dst + SA_MEMORY_BASE),
                             DmaWrite("DMA_SIZE_CFG", cfg),
                             DmaWrite("ENABLE", 1) >>]

\* A's width and height are cut to a byte each, B's are not; B is fetched
\* with the width and height of A.
AskDMAtoWrite_matA(port) ==
  AskDMA(port, reg.A_addr_dm_, reg.A_addr_,
         (strideA_ * 257) * 2^16 + ((reg.K_ - 1) % 256) * 2^8 + ((reg.M_ - 1) % 256))

\* (mutant) B is fetched to the place of A.
AskDMAtoWrite_matB_OverA(port) ==
  AskDMA(port, reg.B_addr_dm_, reg.A_addr_,
         (strideB_ * 257) * 2^16 + (reg.K_ - 1) * 2^8 + (reg.M_ - 1))

AskDMAtoWrite_matB(port) ==
  AskDMA(port, reg.B_addr_dm_, reg.B_addr_,
         (strideB_ * 257) * 2^16 + (reg.K_ - 1) * 2^8 + (reg.M_ - 1))

\* PokeDMAReady schedules a poll event, which queues a read of DONE.
PokeDMAReady == pokes' = Append(pokes, Latency)

PollEvent ==
  /\ pokes # <<>> /\ Head(pokes) = 0
  /\ pokes' = Tail(pokes)
  /\ sreq' = Enqueue(sreq, [kind |-> "rd", reg |-> "DONE", data |-> 0])
  /\ UNCHANGED <<core, control, mmio, sramvars, dmavars, cpu, dm>>

-----------------------------------------------------------------------------
(* MMIO.                                                                   *)

\* The answer to the CPU's access (it has one at a time), with its data.
Answer(e, data) ==
  Enqueue(mresp, [tid |-> -1, kind |-> e.kind, caller |-> "cpu", beats |-> <<data>>])

\* (mutant) The results of the multiplication before are kept.
initialized_transaction_KeepsC ==
  /\ done_' = FALSE
  /\ reg' = [reg EXCEPT !.enabled_ = TRUE]
  /\ phase_' = "READ_MAT_A"
  /\ A_matrix' = ZeroMatrix /\ B_matrix' = ZeroMatrix
  /\ C_matrix' = IF C_matrix = <<>> THEN ZeroMatrix ELSE C_matrix
  /\ sreq' = AskDMAtoWrite_matA(sreq)
  /\ PokeDMAReady
  /\ UNCHANGED <<strideA_, strideB_, grid>>

\* initialized_transaction: clear the matrices and ask for A.
initialized_transaction ==
  /\ done_' = FALSE
  /\ reg' = [reg EXCEPT !.enabled_ = TRUE]
  /\ phase_' = "READ_MAT_A"
  /\ A_matrix' = ZeroMatrix /\ B_matrix' = ZeroMatrix /\ C_matrix' = ZeroMatrix
  /\ sreq' = AskDMAtoWrite_matA(sreq)
  /\ PokeDMAReady
  /\ UNCHANGED <<strideA_, strideB_, grid>>

\* The other registers.  The sizes share M_, K_ and N_.
WriteRegister(r, data) ==
  LET high == ((data \div 2^16) % 4096) + 1
      low  == (data % 4096) + 1
  IN  /\ reg' = CASE r = "MATA_SIZE" -> [reg EXCEPT !.M_ = high, !.K_ = low]
                  [] r = "MATB_SIZE" -> [reg EXCEPT !.K_ = high, !.N_ = low]
                  [] r = "MATC_SIZE" -> [reg EXCEPT !.M_ = high, !.N_ = low]
                  [] r = "STRIDE"    -> [reg EXCEPT !.strideC_ = (data \div 2^16) % 256]
                  [] r \in DOMAIN reg -> [reg EXCEPT ![r] = data]
                  [] OTHER           -> reg
      /\ strideA_' = IF r = "STRIDE" THEN data % 256 ELSE strideA_
      /\ strideB_' = IF r = "STRIDE" THEN (data \div 256) % 256 ELSE strideB_
      /\ done_' = IF r = "STATUS" THEN FALSE ELSE done_
      /\ UNCHANGED <<A_matrix, B_matrix, C_matrix, grid, phase_, sreq, pokes>>

writeMMIO ==
  /\ mmio # <<>> /\ Head(mmio).due = 0 /\ Head(mmio).kind = "wr"
  /\ mmio' = Tail(mmio)
  /\ IF Head(mmio).reg = "ENABLE" /\ Head(mmio).data % 2 = 1
     THEN initialized_transaction
     ELSE WriteRegister(Head(mmio).reg, Head(mmio).data)
  /\ mresp' = Answer(Head(mmio), 0)
  /\ UNCHANGED <<sram, pending_, beatEvents, stepped, dmavars, cpu, dm>>

readMMIO ==
  /\ mmio # <<>> /\ Head(mmio).due = 0 /\ Head(mmio).kind = "rd"
  /\ mmio' = Tail(mmio)
  /\ LET r == Head(mmio).reg
     IN  mresp' = Answer(Head(mmio),
           CASE r = "ENABLE"    -> IF reg.enabled_ THEN 1 ELSE 0
             [] r = "STATUS"    -> IF done_ THEN 1 ELSE 0
             [] r = "MATA_SIZE" -> reg.M_ * 2^16 + reg.K_
             [] r = "MATB_SIZE" -> reg.K_ * 2^16 + reg.N_
             [] r = "MATC_SIZE" -> reg.M_ * 2^16 + reg.N_
             [] r = "STRIDE"    -> strideA_ + strideB_ * 2^8 + reg.strideC_ * 2^16
             [] r \in {"A_addr_", "B_addr_", "C_addr_"} -> reg[r])    \* others are errors
  /\ UNCHANGED <<core, control, sreq, pokes, sram, pending_, beatEvents, stepped,
                 dmavars, cpu, dm>>

-----------------------------------------------------------------------------
(* The array's step(): send what waits, then handle one packet.  Trackers  *)
(* are made for MMIO accesses too, and never looked at again: they are     *)
(* left out.                                                               *)

Step ==
  /\ ~ stepped
  /\ stepped' = TRUE
  /\ mresp' = trySendPacket(mresp)

\* step() without a packet, and masterPortRetry.
TrySend ==
  /\ <<trySendPacket(sreq), trySendPacket(mresp)>> # <<sreq, mresp>>
  /\ sreq' = trySendPacket(sreq)
  /\ mresp' = trySendPacket(mresp)
  /\ UNCHANGED <<core, control, pokes, mmio, sram, pending_, beatEvents, stepped,
                 dmavars, cpu, dm>>

\* The CPU's access, an MMIO register or a word of the SRAM.
Access ==
  LET program == Jobs[cpu.job]
  IN  IF cpu.pc <= Len(program) THEN program[cpu.pc]
      ELSE IF cpu.pc = Len(program) + 1
           THEN [kind |-> "rd", reg |-> "STATUS", data |-> 0]
           ELSE [kind |-> "wr", reg |-> "STATUS", data |-> 0]

StepMmio ==
  /\ cpu.at = "bus" /\ Access.reg # "SRAM"
  /\ Step
  /\ mmio' = Append(mmio, [due |-> Latency] @@ Access)
  /\ sreq' = trySendPacket(sreq)
  /\ cpu' = [cpu EXCEPT !.at = "wait"]
  /\ UNCHANGED <<core, control, pokes, sram, pending_, beatEvents, dmavars, dm>>

StepSramRead ==
  /\ cpu.at = "bus" /\ Access.reg = "SRAM"
  /\ S!MemPop([tid |-> -1, kind |-> "rd", caller |-> "cpu",
               beats |-> <<[op |-> "LW", addr |-> Access.data, imm |-> 0]>>])
  /\ sreq' = trySendPacket(sreq)
  /\ cpu' = [cpu EXCEPT !.at = "wait"]
  /\ UNCHANGED <<core, control, pokes, mmio, dmavars, dm>>

\* A write burst of the DMA, whose destination is in the SRAM.
StepSramWrite ==
  /\ req.reg # <<>> /\ req.reg[1].kind = "wr"
  /\ D!BusAccept
  /\ S!MemPop([req.reg[1] EXCEPT !.beats =
                 [k \in DOMAIN @ |-> [@[k] EXCEPT !.addr = @ - SA_MEMORY_BASE]]])
  /\ sreq' = trySendPacket(sreq)
  /\ UNCHANGED <<core, control, pokes, mmio, cpu, dm>>

\* The matrix that handleReadResponse reads from the SRAM, four bytes a word,
\* rows of whole words; M is what the member holds.
LoadMatrix(M, base, stride) ==
  [i \in DOMAIN M |-> [j \in DOMAIN M[i] |->
     IF i < stride /\ j < stride
     THEN sram[(base \div 4 + i * ((stride + 3) \div 4) + j \div 4) * 4 + (j % 4)]
     ELSE M[i][j]]]

\* (mutant) A poll that finds DONE clear is not repeated.
handleReadResponse_PollsOnce(data, port) ==
  CASE data = 1 /\ phase_ = "READ_MAT_A" ->
         /\ phase_' = "READ_MAT_B"
         /\ sreq' = AskDMAtoWrite_matB(port)
         /\ PokeDMAReady
         /\ UNCHANGED core
    [] data = 1 /\ phase_ = "READ_MAT_B" ->
         /\ A_matrix' = LoadMatrix(A_matrix, reg.A_addr_, strideA_)
         /\ B_matrix' = LoadMatrix(B_matrix, reg.B_addr_, strideB_)
         /\ phase_' = "COMPUTE"
         /\ ComputeMatrix(A_matrix', B_matrix')
         /\ sreq' = port
         /\ UNCHANGED <<strideA_, strideB_, C_matrix, pokes>>
    [] OTHER -> sreq' = port /\ UNCHANGED <<core, phase_, pokes>>

\* handleReadResponse: the answer to a poll.  The next phase, or poll again.
handleReadResponse(data, port) ==
  CASE data = 1 /\ phase_ = "READ_MAT_A" ->
         /\ phase_' = "READ_MAT_B"
         /\ sreq' = AskDMAtoWrite_matB(port)
         /\ PokeDMAReady
         /\ UNCHANGED core
    [] data = 1 /\ phase_ = "READ_MAT_B" ->
         /\ A_matrix' = LoadMatrix(A_matrix, reg.A_addr_, strideA_)
         /\ B_matrix' = LoadMatrix(B_matrix, reg.B_addr_, strideB_)
         /\ phase_' = "COMPUTE"
         /\ ComputeMatrix(A_matrix', B_matrix')
         /\ sreq' = port
         /\ UNCHANGED <<strideA_, strideB_, C_matrix, pokes>>
    [] data = 1 /\ phase_ = "COMPUTE" -> sreq' = port /\ UNCHANGED <<core, phase_, pokes>>
    [] data # 1 -> sreq' = port /\ PokeDMAReady /\ UNCHANGED <<core, phase_>>

\* A response of the DMA; handleWriteCompletion drops acknowledgements.
StepResponse ==
  /\ resp.reg # <<>>
  /\ resp' = Forward(resp)
  /\ Step
  /\ IF resp.reg[1].kind = "rd"
     THEN handleReadResponse(resp.reg[1].data, trySendPacket(sreq))
     ELSE sreq' = trySendPacket(sreq) /\ UNCHANGED <<core, phase_, pokes>>
  /\ UNCHANGED <<reg, mmio, sram, pending_, beatEvents, cpu, dm,
                 dmacore, req, mmioReads, outstanding, mport>>

\* The events of a beat.
SRAMReadReqHandler  == S!memReadReqHandler  /\ UNCHANGED <<core, control, queues, dmavars, cpu, dm>>
SRAMWriteReqHandler == S!memWriteReqHandler /\ UNCHANGED <<core, control, queues, dmavars, cpu, dm>>

\* A packet for the array's slave port.
Arrived == cpu.at = "bus" \/ resp.reg # <<>> \/ (req.reg # <<>> /\ req.reg[1].kind = "wr")

\* The simulator's clock, when all that is due has run, the step() functions
\* have sent what they can and popped what the crossbar has for them, and the
\* responses are delivered.  A tile has one event per tick.
Tick ==
  /\ \A e \in beatEvents : e.due > 0
  /\ \A i \in DOMAIN mmio : mmio[i].due > 0
  /\ \A i \in DOMAIN pokes : pokes[i] > 0
  /\ \A port \in {sreq, mresp, req, resp} : trySendPacket(port) = port
  /\ mport = <<>> /\ sreq.reg = <<>> /\ mresp.reg = <<>> /\ events = <<>>
  /\ stepped \/ ~ Arrived
  /\ beatEvents' = {[e EXCEPT !.due = @ - 1] : e \in beatEvents}
  /\ mmio' = [i \in DOMAIN mmio |-> [mmio[i] EXCEPT !.due = @ - 1]]
  /\ pokes' = [i \in DOMAIN pokes |-> pokes[i] - 1]
  /\ dm' = [dm EXCEPT !.due = IF @ = 0 THEN 0 ELSE @ - 1]
  /\ stepped' = FALSE
  /\ IF Running THEN TileEvent ELSE UNCHANGED core
  /\ UNCHANGED <<control, sreq, sram, pending_, mresp, dmavars, cpu>>

-----------------------------------------------------------------------------
(* The surroundings.                                                       *)

DmaStep ==
  /\ D!TrySend \/ D!StepMmioRead \/ D!StepMmioWrite \/ D!readMMIO
  /\ UNCHANGED <<core, control, queues, sramvars, cpu, dm>>

DmaEvent ==
  /\ D!ReadsEvent \/ D!WritesEvent
  /\ UNCHANGED <<core, control, queues, sramvars, cpu, dm>>

\* The crossbar carries the array's request to the DMA's slave port.
ToDma ==
  /\ sreq.reg # <<>> /\ mport = <<>>
  /\ mport' = sreq.reg
  /\ sreq' = Forward(sreq)
  /\ UNCHANGED <<core, control, pokes, mmio, sramvars, cpu, dm,
                 dmacore, req, resp, mmioReads, outstanding>>

\* Data memory takes a read burst of the DMA and answers it, a latency later
\* or after any longer time.
ToMemory ==
  /\ req.reg # <<>> /\ req.reg[1].kind = "rd"
  /\ D!BusAccept
  /\ dm' = [dm EXCEPT !.due = Latency]
  /\ UNCHANGED <<core, control, queues, sramvars, cpu>>

FromMemory ==
  /\ dm.due = 0
  /\ \E p \in outstanding :
       /\ outstanding' = outstanding \ {p}
       /\ D!StepReadResponse(p,
            [k \in DOMAIN p.beats |-> [i \in 1 .. 4 |-> dm.bytes[p.beats[k].addr + i - 1]]])
  /\ UNCHANGED <<core, control, queues, sramvars, cpu, dm>>

\* A response of the array reaches the DMA.
ToDmaResponse ==
  /\ mresp.reg # <<>> /\ mresp.reg[1].caller = "dma"
  /\ mresp' = Forward(mresp)
  /\ outstanding' = {p \in outstanding : p.tid # mresp.reg[1].tid}
  /\ D!StepWriteResponse(mresp.reg[1])
  /\ UNCHANGED <<core, control, queues, sram, pending_, beatEvents, stepped, cpu, dm>>

\* The CPU: the program's accesses up to ENABLE, then a poll of STATUS until
\* it is set, then STATUS is cleared.  It waits for every answer.
CpuIssue ==
  /\ cpu.at = "run" /\ cpu.job <= Len(Jobs)
  /\ cpu' = [cpu EXCEPT !.at = "bus"]
  /\ UNCHANGED <<core, control, queues, sramvars, dmavars, dm>>

CpuReceive ==
  /\ mresp.reg # <<>> /\ mresp.reg[1].caller = "cpu"
  /\ mresp' = Forward(mresp)
  /\ cpu' = CASE cpu.pc <= Len(Jobs[cpu.job]) -> [cpu EXCEPT !.at = "run", !.pc = @ + 1]
              [] cpu.pc = Len(Jobs[cpu.job]) + 1 ->
                   [cpu EXCEPT !.at = "run", !.pc = @ + mresp.reg[1].beats[1]]
              [] OTHER -> [job |-> cpu.job + 1, pc |-> 1, at |-> "run"]
  /\ UNCHANGED <<core, control, queues, sram, pending_, beatEvents, stepped, dmavars, dm>>

-----------------------------------------------------------------------------
\* The members have initialisers; the DMA starts as Dma!Init says.
SysInit ==
  /\ CoreInit
  /\ phase_ = "READ_MAT_A"
  /\ reg = [enabled_ |-> FALSE, M_ |-> 0, K_ |-> 0, N_ |-> 0, strideC_ |-> 0,
            A_addr_ |-> 0, B_addr_ |-> 0, C_addr_ |-> 0,
            A_addr_dm_ |-> 0, B_addr_dm_ |-> 0, C_addr_dm_ |-> 0]
  /\ sreq = EmptyPort /\ pokes = <<>> /\ mmio = <<>>
  /\ S!MemInit
  /\ D!Init
  /\ cpu = [job |-> 1, pc |-> 1, at |-> "run"]
  /\ dm \in [bytes : Images, due : {0}]

Array == StepMmio \/ StepSramRead \/ StepSramWrite \/ StepResponse

SysNext ==
  \/ PollEvent \/ writeMMIO \/ readMMIO \/ TrySend \/ Array
  \/ SRAMReadReqHandler \/ SRAMWriteReqHandler \/ Tick
  \/ DmaStep \/ DmaEvent \/ ToDma \/ ToMemory \/ FromMemory \/ ToDmaResponse
  \/ CpuIssue \/ CpuReceive

\* The simulator runs every scheduled event, calls step() and the retry
\* callbacks while there is work, and advances its clock; the crossbar's
\* arbiters serve every sender (strong fairness: the CPU's polls may take the
\* array's slave port again and again, but not for ever).
SysFairness ==
  /\ WF_sysvars(PollEvent) /\ WF_sysvars(writeMMIO \/ readMMIO) /\ WF_sysvars(TrySend)
  /\ WF_sysvars(SRAMReadReqHandler \/ SRAMWriteReqHandler) /\ WF_sysvars(Tick)
  /\ WF_sysvars(DmaStep) /\ WF_sysvars(DmaEvent)
  /\ WF_sysvars(ToDma) /\ WF_sysvars(ToMemory \/ FromMemory) /\ WF_sysvars(ToDmaResponse)
  /\ WF_sysvars(CpuIssue) /\ WF_sysvars(CpuReceive)
  /\ SF_sysvars(StepMmio \/ StepSramRead) /\ SF_sysvars(StepSramWrite) /\ SF_sysvars(StepResponse)

SysSpec == SysInit /\ [][SysNext]_sysvars /\ SysFairness

-----------------------------------------------------------------------------
(* Properties.                                                             *)

\* Bytes of the SRAM, as addresses of the array, that write bursts of the DMA
\* in flight are still to write.
Unwritten ==
  LET burst(p) == {p.beats[k].addr - SA_MEMORY_BASE : k \in DOMAIN p.beats}
      words    == UNION {burst(p) : p \in {q \in D!InFlight : q.kind = "wr"}}
  IN  {w + i : w \in words, i \in 0 .. 3}

\* The element of a matrix in data memory, zero beyond its M_ rows.
Source(base, stride, i, j) == IF i < reg.M_ THEN dm.bytes[base + i * stride + j] ELSE 0

\* The control keeps to what the core asks of it: a multiplication is started
\* once per ENABLE, on cleared results, and nothing that it works on changes
\* until the CPU has acknowledged it (SystolicArray.cc:326,366), so that what
\* is shown of the core alone holds in the system.
ImplementsCore == CoreSpec

\* What the array multiplies is what lies in data memory.  DONE, which it
\* polls, comes one response early (DMA.cc:495): so at most one burst is still
\* on its way when the matrices are loaded (SystolicArray.cc:366), it is one
\* of B, and every byte outside it is right, all of A included.
LoadsOperands ==
  [][phase_' = "COMPUTE" /\ phase_ # "COMPUTE" =>
       /\ Cardinality({p \in D!InFlight : p.kind = "wr"}) <= 1
       /\ \A i \in 0 .. strideA_ - 1, j \in 0 .. strideA_ - 1 :
            A_matrix'[i][j] = Source(reg.A_addr_dm_, strideA_, i, j)
       /\ \A i \in 0 .. strideB_ - 1, j \in 0 .. strideB_ - 1 :
            \/ B_matrix'[i][j] = Source(reg.B_addr_dm_, strideB_, i, j)
            \/ reg.B_addr_ + i * strideB_ + j \in Unwritten]_sysvars

\* A phase ends on the DONE of its own transfer, never on an older one that
\* is still set: at that moment the DMA's registers describe this phase's
\* matrix, all of it has been fetched and issued, and the DMA is at rest, so
\* that the registers may be rewritten (SystolicArray.cc:357).
PhaseFollowsTransfer ==
  [][phase_' # phase_ /\ phase_' # "READ_MAT_A" =>
       /\ srcAddr = IF phase_ = "READ_MAT_A" THEN reg.A_addr_dm_ ELSE reg.B_addr_dm_
       /\ cnt.wordsTransferred = reg.M_ * ((reg.K_ + 3) \div 4)
       /\ D!Reads = {} /\ events = <<>>
       /\ ~ st.enabled]_sysvars

\* The CPU program gets through all its multiplications: every wait for
\* STATUS ends, though it goes through two polling loops, two controllers and
\* a shared response queue.
AllJobsFinish == <>(cpu.job > Len(Jobs))

=============================================================================
