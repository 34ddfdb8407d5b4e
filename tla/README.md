# Formal models of the SoC simulator

TLA+ models of the hardware/software co-simulation of an SoC in `src/soc` (the
assembler, the single-cycle RISC-V CPU with its custom function unit (CFU), the
DMA controller, the data memory and the systolic array, on the crossbar of the
ACALSim framework), of the five-stage pipeline simulator in `src/src/riscv` and
of the pipelined core in Chisel in `src/chisel_impl`. TLC checks the models on
small instances; TLAPS proves the safety properties of the DMA controller, of
the data memory with its clients, of the two together, of the five-stage
pipeline and of the compute core of the systolic array for every value of the
constants, those of the CFU for every pair of operands, and that the CPU runs
one instruction at a time for every program.
`PROJECT.json` lists the runs, the source lines each definition stands for, the
findings and the hazards.

    tlc -config MCDma.cfg MCDma        # a run: configuration, module
    tlapm DmaProofs.tla                # the proofs

## 1. The system

The simulator is discrete-event: in a tick, every component's `step()` runs,
and events that components scheduled for the tick run to completion one after
the other. A component sends a packet by pushing it into a one-packet pipe
register; the crossbar empties the register, routes the packet by address and
delivers it at the slave port of its destination, where `step()` pops it. A
push to a full register is refused; the component then keeps the packet in a
queue and sends it from a later `step()`, an event, or the crossbar's
`masterPortRetry` callback.

| Component | State | Operations | Talks to |
|---|---|---|---|
| CPU (`soc/libs/CPU.cc`) | `pc`, `rf`, `imem`, `request_queue` | execute one instruction per event; loads and CFU instructions commit in response handlers, stores when the bus takes them; retry callback | memory and MMIO devices over the crossbar, CFU over a channel |
| CFU (`CFU.cc`) | none | packed 8/16-bit add, subtract, multiply | CPU |
| DMA controller (`DMA.cc`, `DMA.hh`) | MMIO registers, geometry, word counters, `bufferMemory`, `req_Q`, `resp_Q`, pending-response counters | MMIO read/write, start, schedule reads, schedule writes, handle read response, handle write response, complete | programmed by the CPU or the systolic array; reads and writes memory in bursts |
| Data memory (`DataMemory.cc`, `BaseMemory.cc`) | bytes, `pending_` burst trackers, `respQ_` | pop a burst, one event per beat, answer when the last beat is collected, retry | every master |
| Systolic array (`SystolicArray.cc`) | MMIO registers, SRAM, matrices, tile queue, grid of PEs | MMIO, programming the DMA and polling it, loading matrices, tile loop, preload / propagate / flush of the grid | CPU, DMA |
| Crossbar, simulator core | registers, queues, event calendar | external (ACALSim, a submodule that is absent) | all |
| Assembler (`Emulator.cc`) | labels, offset, instruction and data memory | directives, data, instructions, pseudo-instructions, labels; it gives up on errors | fills the memories before the CPU starts |
| Five-stage pipeline (`src/src/riscv`) | one simulator per stage, each with its own copies of the later stages' instructions | the CPU executes and sends a packet, every stage passes it on or stalls, write back recycles it | a port from the CPU to IF, registers between the stages |
| Chisel CPU (`src/chisel_impl`) | stage registers, register file, state machine of the data memory | one clock edge: every register from the combinational signals | its instruction and data memory |

What is hard in this code:

* responses are told apart by counting or not at all, and the memory may
  answer a short burst before a long one that arrived earlier;
* every handler leaves something for a later event, a retry or a response, and
  anything else may run in between;
* a request refused by a full register takes another path through the code
  (queues, retries, counters) than one that is accepted, and which of the two
  happens depends on timing;
* lengths of transfers, bursts, rows and tiles meet limits (buffer full
  exactly, one to three words left, a partial word, an incomplete tile);
* members are not initialised, and one array index is out of bounds;
* pipeline stages decide by their own pictures of one another, which point to
  packets that may have been recycled;
* in the Chisel core a register may be told to stall and to flush in the same
  cycle;
* the systolic array waits for one DONE bit in two phases, while the CPU waits
  for the array, both through the same ports.

What makes each component correct:

* DMA: one fetch at a time, bursts the bus supports and that fit buffer and
  transfer, DONE exactly when the transfer is complete, DONE in the end, the
  destination holds the source, nothing else is written;
* memory: every burst answered once, when all its beats are done; acknowledged
  writes visible; responses out of order only as far as masters can bear;
* CPU: one instruction at a time, each as the architecture says, loads see
  the stores before them, the program comes to its end;
* CFU: exact lane arithmetic;
* assembler: li and la load what they name, jumps go to the line behind their
  label, everything that cannot be encoded is refused;
* systolic array: it loads the matrices it was given, each phase on the DONE of
  its own transfer; what it emits is their product, whatever the tiling; the
  program that waits for it goes on;
* Chisel core: the effects of the program, in program order, all of them
  before it halts;
* pipeline: instructions retire in order, all of them, and none passes ID
  before those it depends on have left WB.

## 2. Modules

| Module | Models |
|---|---|
| `PipePort` | a queue and the pipe register behind it: push-or-queue, `trySendPacket` |
| `Dma` | the DMA controller with a polling driver and an arbitrary memory system |
| `DataMemory` | the data memory |
| `MemoryClients` | bus masters with overlapping bursts on `DataMemory` |
| `DmaSystem` | `Dma` and `DataMemory` composed; refines `Dma` |
| `Isa` | abstract: the architecture, one whole instruction per step |
| `Cfu` | the arithmetic of the CFU |
| `Cpu` | the CPU, its bus port, the CFU channel, an in-order memory; implements `Isa` |
| `Emulator` | the assembler, and the SoC started on its result; extends `Cpu` |
| `Systolic` | tile loop and grid of the systolic array; `CoreSpec` is the two with any control around them |
| `SystolicSystem` | the control of the systolic array, composed with `Systolic`, `Dma`, its SRAM (an instance of `DataMemory`) and a CPU program; refines `CoreSpec` |
| `Pipeline` | the five-stage pipeline simulator |
| `ChiselCpu` | the Chisel core and its data memory, with the effects `Isa` gives a program as reference |
| `DmaProofs`, `DataMemoryProofs`, `MemoryClientsProofs`, `DmaSystemProofs`, `PipelineProofs`, `SystolicProofs`, `CpuProofs` | theorems about the module in the name; those about `Cfu` are in `CpuProofs` |
| `SeqLemmas` | lemmas the proofs share: induction, recursive functions over an interval, sequences, ports |
| `MC...` | instances for TLC |

Definitions whose comment begins with "(mutant)" are not part of the models:
each is a variant of the definition below it with a plausible bug, and every
property is checked to fail for one of them.

**Dma.** `st`, `cnt` and `geo` group the members of `DMAController` (flags and
state; word and response counters; the geometry decoded from `DMA_SIZE_CFG`).
`req` and `resp` are its two queues with their registers, `events` and
`mmioReads` the lambda events it schedules. An action is a whole handler as
`step()` runs it: pop, `trySendPacket`, handle. So `StepMmioWrite` to ENABLE
includes `initialized_transaction`, `startTransfer` and the first
`scheduleReadsForBuffer`, and `StepWriteResponse` includes, when the counter
reaches zero, clearing the buffer and either `transaction_complete` or the
next fill. The scheduling functions call one another in the source; here each
takes the values current at the call. Transaction ids only have to be
different, so a write burst takes its id from its offset in the buffer. The
driver is the loop of the programs in `soc/asm` and of `SystolicArray`: write
the three registers and ENABLE, poll DONE, then clear DONE or not, and start
the next transfer. It does not wait for the acknowledgements of its writes.
The memory system takes bursts from the register and answers those it holds in
any order with any data: this covers any crossbar and memory. `Init` leaves
the flags and counters arbitrary, as the constructor does.

**DataMemory.** `MemPop` is `step()` with a packet: one event per beat, beat i
due after the latency plus i ticks. `memReadReqHandler` and
`memWriteReqHandler` are the beat events with the tracker update and the
response they may complete. `Tick` advances the clock when nothing is due;
events due in the same tick run in any order. At most one burst is popped per
tick, since `step()` pops one packet. Memory is a function from addresses to
bytes and a word a tuple of four bytes, so sizes, sign extension and
overlapping stores are modelled by what they do.

**MemoryClients.** Masters that issue write bursts of a region and read bursts
of it, each through its own register (`Writers`, `Readers`). It also has the way
of a response out of the memory: `sends` are the `trySendResponse` events that
`step()` schedules, one for each burst, behind its last beat (`SendDue`,
`SendEvent`); `retry` says that the crossbar owes `masterPortRetry`, which "the
framework calls when the pipe un-stalls" (`DataMemory.cc:133`), here after it
took a response while others wait. A `step()` without a packet may send, too.
`answers` logs when responses enter `respQ_`, `received` which ones the masters
have taken.

**DmaSystem.** Extends both; the bursts the controller's register releases
reach `MemPop` in order, the memory's responses are popped by the
controller's `step()`. The history variable `gold` is the memory that copying
each enabled transfer row by row, byte by byte, would produce.

**Cpu.** An `ExecOneInstrEvent` is `ExecOwn` (instructions that commit at
once), `BusMemRead`, `BusmemWrite` or `CFUReq`; the handlers are the retry
callback and the three response handlers. `execEvents` counts scheduled
events: committing schedules one. Words have `4 * LaneBits` bits; all
operators take that width. A memory cell stands for the bytes an access
touches (the sizes are in `DataMemory`). A shift by the width or more is
undefined in C++ and has both results a processor gives. `retry` says that the
crossbar owes a callback, which it does after it refused a push.
`CPU::masterPortRetry` takes the front of the queue without a test
(`CPU.cc:222`): that the crossbar calls it only while the refused request is
queued is an assumption about ACALSim and not a result. Reaching
beyond `ImemWords` ends the run.

**Cfu.** `get_result` for each of the eight operations, with the width of a
lane as a parameter; products are truncated and sign-extended as the C++
casts do.

**Emulator.** `parse` folds `ParseLine` over the lines of a source; a line has
its label, its mnemonic or directive and its operands as tokens, not yet looked
at. `Statement` is what `parse` does behind a label or without one,
`parse_instr` and `parse_pseudoinstructions` yield the entries written to
`imem`, `normalize_labels` replaces the labels in them. A token without a number
is refused as an immediate, but is 0 as a datum or as the constant of li
(`strtol`). Every `exit` and
`ERROR` leads to the status "exit", in which nothing runs. The range check of
JAL reads `a3.imm`, which nothing has set (`Emulator.cc:610`): the assembler may
give up on any program that has one (`MayGiveUp`). In
`SocSpec`, `postSimInitSetup` chooses a source and `Cpu` runs what comes out.
The words are narrower than 32 bits but wider than the twelve of an immediate,
so that a constant has two parts.

**Systolic.** One action per event of a tile: weight preload, propagation,
flush, and the event that adds the tile to C and launches the next.
`FlushAndEmit` takes the value read through `pe[i][-1]` from the set
`Garbage`: an out-of-bounds read yields anything. `CoreSpec` adds what the
control may do to the core, as `initialized_transaction`, `writeMMIO` and
`handleReadResponse` do it: set the strides, acknowledge, clear the matrices,
and load two operands and start, once the results are cleared; none of it while
a multiplication runs.

**SystolicSystem.** `writeMMIO` and `readMMIO` are the events behind an MMIO
access; a write to ENABLE includes `initialized_transaction`, which clears the
matrices and queues the four register writes of `AskDMAtoWrite_matA` and the
first poll. `StepMmio`, `StepSramRead`, `StepSramWrite` and `StepResponse` are
`step()` with each kind of packet, its `trySendPacket` included;
`handleReadResponse` is the answer to a poll: poll again, fetch B, or load both
matrices from the SRAM and start `ComputeMatrix`. The bursts the DMA writes are
carried out by `DataMemory`'s beat events on `sram`; their responses share
`mresp` with the answers to the CPU. The actions of `Dma` are used as they are,
with its own driver left idle. Ticks are counted, because the order of a poll
and the writes in front of it depends on `memory_read_latency`: `Tick` waits
until all that is due has run. The data memory is only read; it answers a read
burst a latency later or after any longer time. As in the code, B is fetched
with the width and height of A, and loads and tiles go by the strides: the
matrices are square, in rows of a multiple of four bytes. (The test at
`SystolicArray.cc:35` takes only the first 8000 of the SRAM's 32000 bytes for
SRAM; matrices that reach beyond them, which its assertion on `payload.size()`
stops, are not modelled.)

**ChiselCpu.** Signals are operators on the registers, with their Chisel names,
and `Clock` assigns every register at once. `log` collects what the core does
to registers and memory, `arch` what the program does when run one instruction
at a time by the definitions of `Isa`. Instructions are decoded records; memory
consists of bytes, four to a word. `MemLatency >= 3` is assumed (the code has 5):
with 1 or 2 `DataMem` is valid before it has read, and returns old data.

**Pipeline.** What instructions compute is the business of `Cpu` (the two CPUs
share that code); here a stream is the sequence of instructions an execution
goes through, with their registers, pcs and whether they jumped. `execOneInstr`
is the CPU's event up to the push into the port or `pendingInstPacket`,
`retrySendInstPacket` the callback. `Tick` runs the `step()` of all five
stages on the registers as the last tick left them: `IFStep` ... `WBStep` are
the stages with their `instPacketHandler`. `sIF`, `sID`, `sEXE` and `sMEM` hold
the stages' pictures (`IDInstPacket` ... `WBInstPacket`, those that are used
and not only printed) and their memory counters. Pictures point to objects,
`packet` maps objects to contents, and `acquire` may return an object that a
picture still points to. The registers and the port are ACALSim's: between two
ticks the CPU and the port may do as much or as little as they like, and a
register whose reader keeps its packet may report a stall or take one packet
more. `flush_flag` of IF is never set and is left out.

## 3. Runs

Bounds are named constants. A buffer of eight words is two full bursts, as the
real 256 words are 64, so that a fill takes more than one burst and transfers
can end exactly at its end, before it or behind it. Latency 1 lets beats of
bursts that are popped in successive ticks overlap.

| Run | Shows |
|---|---|
| `dma` | 153,518 states. Two transfers, each of 3, 8 or 11 words or of rows of five bytes, in all interleavings with driver, retries and answers in any order. `TypeOK`; `SingleFetch`: never two reads or scheduled phases at once; `ReadFits`: a read in flight fits the buffer and the transfer when its answer comes, at the right addresses; `LegalBursts`: 1, 2 or 4 beats; `DoneMeansIssued`: when the driver has seen DONE, everything is issued and the controller at rest; `DoneUnlessSingleBurst`: DONE is seen in the end if the last fill takes more than one write burst |
| `dma_done_lost` (violation) | a transfer whose last fill is one burst never raises DONE |
| `dma_system` | two transfers on real bytes. `CopiedWhenQuiet`: once the responses are in, memory is the copy and nothing else changed; `WritesCarrySource`: every write beat in flight carries its final value; `ImplementsDma`: the composition refines `Dma`, so all that is proved of `Dma` holds of it |
| `dma_rows` (violation) | rows of five bytes: the whole-word write of the partial word corrupts the next row |
| `memory` | 149,449 states. One master writes a region of four words, another reads all of it or its last word; two bursts each. `TrackersAccounted`: each tracker waits for exactly the beats still scheduled; `OnlyShorterOvertakes`: responses leave in order but for strictly shorter bursts; `AcknowledgedWritesVisible`; `WaitingIsServed`: when the register is free and responses wait, a callback is owed or a `trySendResponse` event scheduled; `EveryBurstAnswered`: the master of every burst popped has its response in the end |
| `cpu` | 22,959 states. All 625 programs of four instructions out of five (store, loads, add, CFU), longer sources with loops, calls, labels in both directions, data, CFU code and every integer instruction, and six sources to be refused; words of 16 bits; as long as no store meets a busy register. `OneInstruction`: exactly one event or awaited response keeps the program going; `FollowsIsa`: each change of `pc`, registers and memory (accepted stores included) is one instruction of `Isa`, except that SLTU may write any value; `Finishes`: every assembled program comes to its HCF; `LoadsConstant`: li and la give their register the constant or the address of the data behind the label, with the sign bit of the lower part set or not; `JumpsLandOnLabels`: jumps and taken branches go to the first instruction behind their label in the source |
| `cpu_retry` (violation) | a refused store stays in the request queue after its retry |
| `pipeline` | 306,705 states. Four streams: a load and its uses, the same load in a loop, a jump to a store and a load, and a chain of dependences at every distance over taken jumps; memory takes two ticks, so that a stall has a first and a further tick. Eight objects, as many as the longest stream has instructions, and every choice among those that matter. `InOrder`: WB takes the executed instructions in order, each once; `PushesSucceed`: no stage pushes into a full register, which would lose the instruction it has popped; `RawSeparated`: without memory accesses, ID never releases an instruction while one it depends on is in EXE, MEM or WB; `Drains`: everything up to HCF retires |
| `cfu` | all pairs of 8-bit operands (lanes of two bits). `ProductsExact`, `AmulSplitsPmul`: products are exact where they fit, and the two ways of multiplying agree; `LanewiseSums`: each lane of a sum or difference is that of the operands' lanes at its place, wrapped, so no carry crosses a lane |
| `systolic` | 67,693 states. A CPU program has the array multiply two 3x3 matrices in rows of four bytes, then reads the SRAM and has them multiplied the other way round. The grid is 3x3 (2x2 in the code), so that rows of four bytes give incomplete tiles; three words are two bursts, the least for which DONE comes. Dense operands whose sums exceed the modulus, and a unit matrix; the value in front of a row is a valid one. `EmittedIsProduct`, `DepositIsProduct`, `DoneMeansProduct`: each tile and the sum of the tiles; `ImplementsCore`: the control does to the core only what `CoreSpec` lets it; `LoadsOperands`: what is loaded is what lies in data memory, but for at most one burst of B still in flight; `PhaseFollowsTransfer`: a phase ends when its own transfer is issued whole and the DMA at rest; `AllJobsFinish`: the program gets its second product |
| `chisel` | 86,038 states. Every halting program of four instructions out of nine (dependent arithmetic, load, store, branches and jumps forwards, backwards and to the next instruction), two with the other operations and one with loads and stores of every size; none with a linking jump directly behind an access, nor an LBU or LHU elsewhere than at the beginning of a word (section 4). `InOrderEffects`: what the core does is a prefix of what the program does; `HaltsComplete`: at the halt it is all of it; `Halts` |
| `chisel_link` (violation) | the link of a JAL directly behind a store is lost |

`CHECK_DEADLOCK FALSE` is set because the systems end: the driver stops after
`MaxTransfers`, the clients after `MaxBursts`, programs at HCF.

**Fairness.** Weak but for one place. The simulator runs every scheduled event
and calls
`step()` or the retry callback of a component with work; the crossbar forwards
and the memory answers: `EveryBurstAnswered` shows the latter from the events
of the beats and of `trySendResponse`, the passing of time, a crossbar that
forwards both ways and its callback, and assumes nothing of a `step()` that
finds no packet. In `Dma`, the driver's polling
and the controller's `step()` form one group: each poll passes through
`step()`, which sends from `req_Q`, so a stronger assumption is not needed. The
memory's and the CPU's specifications have one condition per kind of event.
In `SystolicSystem` the CPU's polls of STATUS and the DMA's answers to the array
meet at one slave port: that the crossbar's arbiter serves both in the end is
strong fairness of the three kinds of packets; with weak fairness alone the
CPU's polls may win for ever. In `ChiselCpu` the clock ticks.
In `Pipeline` the simulator ticks as long as a stage has a packet: a stalled
stage asks for it with `forceStepInNextIteration`, or is held by a register
whose reader does.

## 4. Findings

* **DONE is lost** (`dma_done_lost`, `DMA.cc:320`). Of the write bursts of a
  fill, `pendingBusWriteResponses` counts the queued ones and not the one the
  register accepts. A fill of one burst leaves the counter at 0, its response
  makes it -1, and the test for zero never succeeds.
* **Partial words are never written as such** (`dma_rows`, `DMA.cc:418`). The
  test `col == words per row` on a remainder is never true. Whole words are
  written behind the ends of rows; with dense rows, and the memory finishing
  the next row's short burst first, they stay on top of the next row.
* **A retried store is not dequeued** (`cpu_retry`, `CPU.cc:226`), unlike a
  retried load; `cleanup` asserts an empty queue.
* **A link is lost** (`chisel_link`, `Reg_EXE.scala:35`). `Reg_EXE` obeys a
  flush before a memory stall. A JAL or JALR that reaches EXE directly behind a
  load or store flushes itself while MEM is held; the jump happens, its link
  register is not written.

Divergences seen while modelling that no run is about:

* DONE is early (`DMA.cc:495`): for the same reason as the first finding, a
  fill of several bursts is over one response early. `CopiedWhenQuiet` shows
  that the last bytes do arrive, `LoadsOperands` what it means for the systolic
  array: at most one burst of B can be missing when the matrices are loaded.
  In the simulator the poll takes longer than the burst, by no more than the
  time packets need.
* x0 is writable (`CPU.cc:107`), and the assembler's `j` and `ret` write it.
  `FollowsIsa` is stated for x1 and up, and its programs do not read x0 behind
  such a jump.
* SLTU is computed as a sum (`CPU.cc:69`), and not as the comparison it is in
  RISC-V. `FollowsIsa` has an alternative, `SltuStep`, that lets SLTU write any
  value to its register; without it the run fails at the SLTU of its program.
  No program in `soc/asm` uses SLTU.
* LBU and LHU of the Chisel core read at the beginning of the word whatever
  their address: the table at `DataMem.scala:52` has no entry for them and its
  default is the word's (`alignedAddr`). `InOrderEffects` fails for a program
  with an LBU behind the first byte.
* `parse_reg` accepts `x32` (`Emulator.cc:60`); li or la at the last word in
  front of `data_offset` writes one entry behind `imem` (`Emulator.cc:154`).

Not a finding, since it depends on ACALSim: with loads and stores in the
stream, `RawSeparated` without its condition fails when registers take a
second packet (IF, ID, EXE and MEM count the ticks of an access each for
itself, and ID's picture can run ahead of EXE), and holds of the streams
tried when a register with one packet always reports a stall.

`DoneUnlessSingleBurst`, and the `StoreRefused` alternatives in the CPU's
properties, say what holds in spite of the first and the third.

## 5. Proofs

All that is assumed are the named `ASSUME`s of the modules, which TLC evaluates
in the runs, and these hypotheses of single theorems: `WellPlaced` for
`DmaSystem`; `RealWidth`, a lane of 8 bits, for `Cfu` and `Cpu`; `WholeMemory`
and `WellFormed` for `Cpu` (below). No other constant is bounded: what TLC shows
for a buffer of eight words or two clients is shown here for any.

| Module | Theorem | States |
|---|---|---|
| `DmaProofs` | `Invariance` | `Spec => []IInv` |
| | `TypeCorrect` | `Spec => []TypeOK` |
| | `BurstsLegal` | `Spec => []LegalBursts` |
| | `OneFetch` | `Spec => []SingleFetch` |
| | `ReadsFit` | `Spec => []ReadFits` |
| | `DoneIssued` | `Spec => []DoneMeansIssued` |
| `MemoryClientsProofs` | `Invariance` | `Spec => []IInv` |
| | `Accounted` | `Spec => []TrackersAccounted` |
| | `Overtaking` | `Spec => []OnlyShorterOvertakes` |
| | `Visibility` | `Spec => []AcknowledgedWritesVisible` |
| | `Served` | `Spec => []WaitingIsServed` |
| `DmaSystemProofs` | `SysInvariance` | `SysSpec => []SysInv`, if `WellPlaced` |
| | `Implementation` | `SysSpec => ImplementsDma`, if `WellPlaced` |
| | `CarrySource` | `SysSpec => []WritesCarrySource`, if `WellPlaced` |
| | `Copied` | `SysSpec => []CopiedWhenQuiet`, if `WellPlaced` |
| `PipelineProofs` | `Invariance` | `Spec => []IInv` |
| | `RetiredInOrder` | `Spec => []InOrder` |
| | `NoPushFails` | `Spec => []PushesSucceed` |
| | `RawKept` | `Spec => RawSeparated` |
| `SystolicProofs` | `CoreInvariant` | `CoreSpec => []CoreInv` |
| | `EmittedCorrect` | `CoreSpec => []EmittedIsProduct` |
| | `DepositCorrect` | `CoreSpec => []DepositIsProduct` |
| | `DoneCorrect` | `CoreSpec => []DoneMeansProduct` |
| `CpuProofs` | `Products` | `CfuSpec => []ProductsExact`, if `RealWidth` |
| | `Split` | `CfuSpec => []AmulSplitsPmul`, if `RealWidth` |
| | `Sums` | `CfuSpec => []LanewiseSums`, if `RealWidth` |
| | `CpuInvariant` | `SocSpec => []CpuInv`, if `RealWidth`, `WholeMemory` and `WellFormed` |
| | `OneAtATime` | `SocSpec => []OneInstruction`, under the same hypotheses |

Every proof of an invariant has a lemma per action. The lemmas they share are in `SeqLemmas`:
what each push, send and forward does to the packets of a port, and that a
recursive function with steps of varying length, as `WriteBursts` is, is well
defined and yields a sequence of the right elements (by induction on a set of
naturals; the prover has no induction over predicates).

**Dma**, for every `BufferCapacity > 0`, set of transfers, `MaxTransfers`, set
of words and initial garbage. `IInv == TypeOK /\ LegalBursts /\ Phase /\ Poll`.
None of the properties is inductive alone. `Phase` says that the controller is
in exactly one of these situations: idle; one read in flight; one event
scheduled; a fill's writes in flight, with the counters that go with each. It
also ties the situation to the driver: while it programs the registers the
controller is idle, and while it polls the controller is either busy or done
with everything transferred. That needs `Poll`: at most one read of DONE exists
among port, event queue and response path, only when the driver waits for it,
and DONE is still up when the answer 1 is under way, so that an old answer is
never taken for a new one. What `Phase` says of the counter of write responses
is `NoCountedWrite`: except while a fill drains, a write response that is still
to come finds the counter at zero or below, takes it further down, and so
cannot end a fill it does not belong to. While a fill drains nothing is known
of the counter: it misses one burst, or counts a response left over from the
fill before, and the theorems hold all the same.

**DataMemory.** `DataMemoryProofs` has no specification to speak of, the memory
being open: `MemInv` is kept by each of its actions, given that a burst it pops
has a beat and a transaction id not in use. `Scheduled` says that the events of
a burst are the beats its tracker has not collected, `Paced` that they are one
tick apart; with it the beats are collected in order. `TrackersAccounted`
follows by counting. `MemoryClients` and `DmaSystem` both rest on it.

**MemoryClients**, for any clients, latency, memory size, shapes of bursts and
number of bursts; the regions of the writers are disjoint and begin with
version 0 (`RegionsAssumption`). `OnlyShorterOvertakes` needs `PopOrder`: since
`step()` pops one burst a tick, due time minus beat number orders the events as
their bursts were popped. `AcknowledgedWritesVisible` needs to know what is in
memory (`DataInv`): a word has at least the version of every write whose
response was sent, received or not (`Cells` counts those under way); a scheduled
write beat is newer than its word; and of two bursts of a writer the one with
the later version was popped later (`EventData`), so that a store never undoes
a newer one. Versions are numbers here, not limited to a byte. `WaitingIsServed`
needs `SendInv`: the `trySendResponse` event of a burst comes later than all its
beats, so it is still scheduled when its response enters `respQ_`, and while the
register is free and no callback is owed, that is so for every response that
waits.

**DmaSystem**, for any memory, latency and buffer and any transfers that are
`WellPlaced`: rows of whole words, inside the memory, no transfer reading what
one writes and no byte the target of two. Without it the theorems are false:
`dma_rows` is a counterexample for rows of five bytes. `MCDmaSystem` has TLC
check that the transfers of its run are. `SysInv` adds to the invariants of the
two components:

* `Tids`, `Link`: bursts in flight have different ids; the memory's events,
  tracker and response for an id agree with the controller's burst, operands
  are echoed, and data read is that of the source. So every response is one
  that the open memory of `Dma` can give, and each step of the system is one of
  `Dma` or leaves it alone (`SimulatedStep`): that is `Implementation`.
* `Programmed`: the registers and the geometry are those of the driver's
  transfer as far as it has come.
* `Sources`, `Current`: sources are as loaded, in memory and in `gold`;
  `gold` has the driver's transfer in place.
* `Buffered`, `Carry`: place i of the buffer has word
  `wordsTransferred + i` of the source; every write beat has a word of some
  transfer, at its place.
* `Settling`: a byte of memory differs from `gold` only if a write to it is
  requested or scheduled, or it belongs to a word not yet issued. With nothing
  in flight and everything issued (`DoneMeansIssued`) it is `CopiedWhenQuiet`.

The arithmetic is in `WordBytes` and `ByteWords` (words of a transfer and the
bytes of its rows correspond), `ChunkBeats` and `WriteBurstsDrain` (the write
bursts of a fill are the words of the buffer, in order).

**Pipeline**, for any streams, packet objects and memory access time. `InOrder`
and `PushesSucceed` do not depend on the pictures at all. `InLine` says that
there is an assignment of packets to the instructions that were executed and
not retired, with no object used twice or free, and that registers and port
hold them in line; a tick moves the boundaries (`P1` ... `P7`) and not the
assignment. `RawSeparated` does depend on ID's picture, which stands still
while ID is empty and may point to recycled packets. `PictureInv` says what is
needed: without memory accesses, what is in the register behind ID is the
picture's EXE, in the next one its EXE or MEM, in the last its EXE, MEM or WB.
Stale entries only make ID wait longer.

**Systolic**, for any size of the grid and of the matrices, any strides up to
the matrix size, any modulus and any garbage (`SystolicAssumption`). The
theorems are about `CoreSpec`; the run `systolic` shows that the system with its
control, the DMA and the SRAM refines it on the instance checked
(`ImplementsCore`), and that refinement is not proved. `CoreInv` has two halves:

* `GridInv`, in the events of a tile. `Weights`, `Inputs` and `Sums` say for
  every PE which element of B it holds, which of A it passes on and the first
  so many terms of which product it has summed up, each as a function of
  `cycle` and its place. `Emits` counts the rows that have left each column,
  and `Products` says they are right. In the flush the value read in front of a
  row moves one column an event, behind the last input: it reaches a PE of the
  bottom row only after that column has emitted everything.
* `Work`, between tiles. The queue is the rest of the chain of tasks in the
  order of the three nested loops (`Chain`, `Follows`, `LastTask`), and `Filled`
  says of every element of C which of the blocks of its sum are in it already.
  A tile adds the next block to each of its elements and to no other, incomplete
  tiles included; behind the last task `Filled` is `Complete`, which is
  `DoneMeansProduct`.

Sums are recursive functions; that a sum splits at any place and that the task
list holds every block once is shown by induction on sets of naturals
(`SetInduction`).

**Cpu**, for every set of sources, number of registers and program length, in
words of 32 bits (`RealWidth`), if memory has a cell at every address
(`WholeMemory`) and the assembler's result is `WellFormed`: instructions name
registers that exist, except for a destination, their immediates are not
negative as words, and so are the data. The assembler makes nothing else unless
a source names `x32` (section 4), and `MCCpu` has TLC check it of the sources of
its run. `OneInstruction` is not inductive: whether the program is at its HCF is
read off `pc`, so `pc` must be a number, and with JALR so must every register,
every word of memory and every response on its way. That is `CpuType`, and with
it `AluIsNat`, `BitByBitIsNat` and `CfuIsNat`, for all the operations of the
CPU and the CFU. The other conjuncts of `CpuInv` are `RetryFindsRequest`, which carries the
assumption about the crossbar (section 2) from the refusal to the callback and
without which nothing is known of what the retry sends, and
`StoreRefused \/ Progress`.
`Progress` counts events, CFU requests and responses, and the loads among the
packets of queue, register, bus and response path; each action moves one of them
on (`PushLoads`, `LoadsAppend`, `LoadsTail`). A refused store stays in the queue
for ever (`QueueKept`), so the alternative is stable.

**Cfu**, at the width of the code (`RealWidth`: lanes of 8 bits), for any two
words: the run has all pairs of 8-bit words, the theorems all 2^64 pairs. The
argument is that shifting into place and taking out again are inverse
(`LanesOfBytes`, `Reassembled` and the same for halves), that the casts between
`int8_t` and `uint8_t` are (`SignOfByte`, `ByteOfSign`), and that the product of
two lanes fits an `int16_t` (`Product`). The width is fixed since the provers
evaluate a power of two only when the exponent is a number.

Only model-checked:

* Liveness (`DoneUnlessSingleBurst`, `EveryBurstAnswered`, `Finishes`, `Drains`,
  `AllJobsFinish`, `Halts`), which is outside the prover's reach.
* `LoadsConstant` and `JumpsLandOnLabels`: what the assembler makes of a source
  is a fold over its lines, and its result for every source an induction over
  data.
* `FollowsIsa`, `InOrderEffects` and `HaltsComplete` compare a CPU with `Isa`,
  whose bitwise operators are functions of two arguments, which the prover does
  not read; `FollowsIsa` also needs memory after the stores under way, a
  recursion over the bus, and `arch` is a recursion over the program's run.
* `ImplementsCore`, `LoadsOperands`, `PhaseFollowsTransfer`: the control of the
  systolic array with `Dma`, whose invariant would have to be shown again with
  the array as its driver.
* `QueueEmptyAtCleanup` and the other properties of the runs that expect a
  violation are false.

## 6. What is not modelled

* ACALSim (crossbar, registers, calendar), whose source is not here: modelled
  by its use and marked external in the map. In `DmaSystem` and `Cpu` one
  master reaches one memory in order.
* Assembler: cutting lines into tokens, lengths of lines and names, copies of
  the source for printing. The pipeline simulator has a second copy of it,
  without the CFU instructions.
* Systolic array: the trackers of MMIO accesses, which nothing reads; ENABLE
  during a multiplication and a CPU that uses the DMA while the array does:
  no program in `soc/asm` does either, and the code has no answer to it.
* Chisel: bit fields, the instruction memory's interface.
* Wiring (`SOC.cc`, `main.cc`), code generator, scripts, traces, printing and
  memory dumps: no behaviour of the system.
* Out-of-range addresses, which the memory reports, do not occur in the runs.

## 7. Plan

All modules of section 2 are written and checked, and the proofs of section 5
done. What would extend them, in this order:

1. Proofs: what `SystolicSystem` keeps of its phases, from the invariant of
   `Dma` with the array as its driver; `InOrderEffects`, with `Isa` in a form the
   prover reads.
2. CPU, DMA and memory on a crossbar with a queue per slave: a store to memory
   against the ENABLE that follows it.
