-------------------------------- MODULE Cpu --------------------------------
(***************************************************************************)
(* The CPU of the SoC (soc/include/CPU.hh, soc/libs/CPU.cc) with the CFU   *)
(* behind its channel and the memory behind the crossbar.                  *)
(*                                                                         *)
(* An ExecOneInstrEvent executes the instruction at pc.  Loads and CFU     *)
(* instructions commit in the handlers of their responses, a store when    *)
(* the bus accepts it.  Committing schedules the next event.               *)
(***************************************************************************)
EXTENDS PipePort, Cfu

CONSTANTS
  NRegs,        \* registers (32 in the code)
  Addr,         \* addresses of memory cells
  ImemWords     \* bound: instructions in imem

ASSUME CpuAssumption ==
  /\ NRegs \in Nat \ {0}
  /\ ImemWords \in Nat
  /\ Addr \subseteq Word

VARIABLES
  imem,         \* the program: a sequence of [op, a1, a2, a3, orig_line]
  pc, rf,
  port,         \* request_queue and the pipe register m_reg
  retry,        \* the crossbar has refused a request and owes a masterPortRetry
  execEvents,   \* ExecOneInstrEvents scheduled
  cfuReq, cfuResp,   \* the channels to and from the CFU
  bus,          \* requests the crossbar has taken, in order
  busResp,      \* responses on their way to the slave port, in order
  mem           \* memory cells

cpu     == <<pc, rf, execEvents>>
outside == <<bus, busResp, mem>>
vars    == <<imem, cpu, port, retry, cfuReq, cfuResp, outside>>

-----------------------------------------------------------------------------
Loads  == {"LB", "LBU", "LH", "LHU", "LW"}
Stores == {"SB", "SH", "SW"}

RegOf == [ADDI |-> "ADD", SLTI |-> "SLT", ANDI |-> "AND", ORI |-> "OR",
          XORI |-> "XOR", SLLI |-> "SLL", SRLI |-> "SRL", SRAI |-> "SRA"]

AsSigned(x) == Signed(x, Width)
Bool(b)     == IF b THEN 1 ELSE 0

\* The bitwise operators: the table of one bit, from the lowest bit on.
BitByBit(table, x, y) ==
  LET bits[n \in 0 .. Width] ==
        IF n = Width THEN 0
        ELSE table[(x \div 2^n) % 2][(y \div 2^n) % 2] * 2^n + bits[n + 1]
  IN  bits[0]

\* The values the expressions of processInstr may have.  A shift by the width
\* or more is undefined in C++: the processor shifts by the low bits of the
\* amount or shifts everything out.
Alu(op, x, y) ==
  LET by == IF y < Width THEN {y} ELSE {y % Width, Width}
  IN  CASE op = "ADD"   -> {Unsigned(x + y, Width)}
        [] op = "SUB"   -> {Unsigned(x - y, Width)}
        [] op = "MUL"   -> {Unsigned(x * y, Width)}
        [] op = "SLT"   -> {Bool(AsSigned(x) < AsSigned(y))}
        [] op = "SLTU"  -> {Unsigned(x + y, Width)}
        [] op = "SLTIU" -> {Bool(x < y)}
        [] op = "AND"   -> {BitByBit([a \in 0 .. 1 |-> [b \in 0 .. 1 |-> a * b]], x, y)}
        [] op = "OR"    -> {BitByBit([a \in 0 .. 1 |-> [b \in 0 .. 1 |-> a + b - a * b]], x, y)}
        [] op = "XOR"   -> {BitByBit([a \in 0 .. 1 |-> [b \in 0 .. 1 |-> (a + b) % 2]], x, y)}
        [] op = "SLL"   -> {Unsigned(x * 2^n, Width) : n \in by}
        [] op = "SRL"   -> {x \div 2^n : n \in by}
        [] op = "SRA"   -> {Unsigned(AsSigned(x) \div 2^n, Width) : n \in by}

RegOps   == {"ADD", "SUB", "MUL", "SLT", "SLTU", "AND", "OR", "XOR", "SLL", "SRL", "SRA"}
ImmOps   == DOMAIN RegOf \cup {"SLTIU"}
Branches == {"BEQ", "BNE", "BLT", "BGE", "BLTU", "BGEU"}

BranchTaken(op, x, y) ==
  CASE op = "BEQ"  -> x = y
    [] op = "BNE"  -> x # y
    [] op = "BLT"  -> AsSigned(x) < AsSigned(y)
    [] op = "BGE"  -> AsSigned(x) >= AsSigned(y)
    [] op = "BLTU" -> x < y
    [] op = "BGEU" -> x >= y

\* The register files after the switch of processInstr, for an instruction
\* that neither uses the bus nor the CFU.
RegistersAfter(i) ==
  LET Set(values) == {[rf EXCEPT ![i.a1] = v] : v \in values}
  IN  CASE i.op \in RegOps          -> Set(Alu(i.op, rf[i.a2], rf[i.a3]))
        [] i.op \in DOMAIN RegOf    -> Set(Alu(RegOf[i.op], rf[i.a2], i.a3))
        [] i.op = "SLTIU"           -> Set(Alu("SLTIU", rf[i.a2], i.a3))
        [] i.op \in {"JAL", "JALR"} -> Set({pc + 4})
        [] i.op = "AUIPC"           -> Set({Unsigned(pc + i.a2 * 2^12, Width)})
        [] i.op = "LUI"             -> Set({Unsigned(i.a2 * 2^12, Width)})
        [] OTHER                    -> {rf}

\* pc_next, given the registers after the switch: JALR reads its base from
\* them, after the link register is written.
PcNext(i, regs) ==
  CASE i.op \in Branches /\ BranchTaken(i.op, rf[i.a1], rf[i.a2]) -> i.a3
    [] i.op = "JAL"  -> i.a2
    [] i.op = "JALR" -> Unsigned(regs[i.a2] + i.a3, Width)
    [] OTHER         -> pc + 4

UNIMPL == [op |-> "UNIMPL", a1 |-> 0, a2 |-> 0, a3 |-> 0, orig_line |-> -1]

fetchInstr(p) == IF p \div 4 < Len(imem) THEN imem[p \div 4 + 1] ELSE UNIMPL

current == fetchInstr(pc)

-----------------------------------------------------------------------------
(* ExecOneInstrEvent: execOneInstr, processInstr.                          *)

Exec == execEvents > 0 /\ pc \div 4 < ImemWords

\* An instruction that commits at once; HCF schedules no further event.
ExecOwn ==
  /\ Exec
  /\ current.op \notin Loads \cup Stores \cup CfuOps
  /\ rf' \in RegistersAfter(current)
  /\ pc' = PcNext(current, rf')
  /\ execEvents' = IF current.op = "HCF" THEN execEvents - 1 ELSE execEvents
  /\ UNCHANGED <<imem, port, retry, cfuReq, cfuResp, outside>>

Address == Unsigned(rf[current.a2] + current.a3, Width)

\* (mutant) A load that finds the register busy is dropped.
BusMemRead_Drops ==
  /\ Exec /\ current.op \in Loads
  /\ port' = IF port.reg # <<>> THEN port
             ELSE PushOrQueue(port, [kind |-> "rd", i |-> current, addr |-> Address])
  /\ execEvents' = execEvents - 1
  /\ UNCHANGED <<imem, pc, rf, retry, cfuReq, cfuResp, outside>>

\* BusMemRead: the load waits for its response.
BusMemRead ==
  /\ Exec /\ current.op \in Loads
  /\ port' = PushOrQueue(port, [kind |-> "rd", i |-> current, addr |-> Address])
  /\ retry' = (retry \/ port.reg # <<>>)
  /\ execEvents' = execEvents - 1
  /\ UNCHANGED <<imem, pc, rf, cfuReq, cfuResp, outside>>

\* BusmemWrite: a store the register accepts commits, a queued one waits.
BusmemWrite ==
  /\ Exec /\ current.op \in Stores
  /\ port' = PushOrQueue(port, [kind |-> "wr", i |-> current, addr |-> Address,
                                data |-> rf[current.a1]])
  /\ IF port.reg = <<>>
     THEN pc' = pc + 4 /\ UNCHANGED <<execEvents, retry>>
     ELSE retry' = TRUE /\ execEvents' = execEvents - 1 /\ UNCHANGED pc
  /\ UNCHANGED <<imem, rf, cfuReq, cfuResp, outside>>

CFUReq ==
  /\ Exec /\ current.op \in CfuOps
  /\ cfuReq' = Append(cfuReq, [i |-> current, rs1 |-> rf[current.a2], rs2 |-> rf[current.a3]])
  /\ execEvents' = execEvents - 1
  /\ UNCHANGED <<imem, pc, rf, port, retry, cfuResp, outside>>

-----------------------------------------------------------------------------
(* Handlers.                                                               *)

\* A response sets its destination register, commits and moves pc on.
Respond(i, data) ==
  /\ rf' = [rf EXCEPT ![i.a1] = data]
  /\ execEvents' = execEvents + 1
  /\ pc' = pc + 4

\* (mutant) A retried read stays in the queue, as a write does.
masterPortRetry_KeepsRead ==
  /\ retry /\ port.reg = <<>>
  /\ retry' = FALSE
  /\ port' = [reg |-> <<Head(port.q)>>, q |-> port.q]
  /\ IF Head(port.q).kind = "rd"
     THEN UNCHANGED <<pc, execEvents>>
     ELSE pc' = pc + 4 /\ execEvents' = execEvents + 1
  /\ UNCHANGED <<imem, rf, cfuReq, cfuResp, outside>>

\* The register is free again after a request was queued.  A read leaves the
\* queue; a write is sent and committed, and stays in the queue.  The handler
\* has no guard: it takes the front of the queue whenever the register is free
\* (CPU.cc:222).  That ACALSim's crossbar calls it only after a refusal, once
\* for each time the register is taken, is an assumption about the crossbar.
masterPortRetry ==
  /\ retry /\ port.reg = <<>>
  /\ retry' = FALSE
  /\ IF Head(port.q).kind = "rd"
     THEN port' = trySendPacket(port) /\ UNCHANGED <<pc, execEvents>>
     ELSE /\ port' = [reg |-> <<Head(port.q)>>, q |-> port.q]
          /\ pc' = pc + 4
          /\ execEvents' = execEvents + 1
  /\ UNCHANGED <<imem, rf, cfuReq, cfuResp, outside>>

\* step() with a read response: memReadXBarRespHandler, memReadRespHandler.
memReadXBarRespHandler ==
  /\ busResp # <<>> /\ Head(busResp).kind = "rd"
  /\ busResp' = Tail(busResp)
  /\ Respond(Head(busResp).i, Head(busResp).data)
  /\ UNCHANGED <<imem, port, retry, cfuReq, cfuResp, bus, mem>>

\* (mutant) The response commits the store a second time.
memWriteXBarRespHandler_Commits ==
  /\ busResp # <<>> /\ Head(busResp).kind = "wr"
  /\ busResp' = Tail(busResp)
  /\ execEvents' = execEvents + 1
  /\ pc' = pc + 4
  /\ UNCHANGED <<imem, rf, port, retry, cfuReq, cfuResp, bus, mem>>

\* step() with a write response: it is dropped.
memWriteXBarRespHandler ==
  /\ busResp # <<>> /\ Head(busResp).kind = "wr"
  /\ busResp' = Tail(busResp)
  /\ UNCHANGED <<imem, cpu, port, retry, cfuReq, cfuResp, bus, mem>>

CFURespHandler ==
  /\ cfuResp # <<>>
  /\ cfuResp' = Tail(cfuResp)
  /\ Respond(Head(cfuResp).i, Head(cfuResp).rd)
  /\ UNCHANGED <<imem, port, retry, cfuReq, outside>>

-----------------------------------------------------------------------------
(* The CFU, the crossbar and the memory.                                   *)

\* CFU::step, CFU::packet_handler.
packet_handler ==
  /\ cfuReq # <<>>
  /\ cfuReq' = Tail(cfuReq)
  /\ cfuResp' = Append(cfuResp,
       [i  |-> Head(cfuReq).i,
        rd |-> get_result(Head(cfuReq).i.op, Head(cfuReq).rs1, Head(cfuReq).rs2)])
  /\ UNCHANGED <<imem, cpu, port, retry, outside>>

BusAccept ==
  /\ port.reg # <<>>
  /\ bus' = Append(bus, port.reg[1])
  /\ port' = Forward(port)
  /\ UNCHANGED <<imem, cpu, retry, cfuReq, cfuResp, busResp, mem>>

\* DataMemory serves the CPU's one-beat requests in the order they arrive
\* (OnlyShorterOvertakes in MemoryClients).  A cell stands for the bytes an
\* access of any size touches; DataMemory has the sizes.
MemServe ==
  /\ bus # <<>>
  /\ bus' = Tail(bus)
  /\ LET r == Head(bus)
     IN  IF r.kind = "rd"
         THEN /\ busResp' = Append(busResp, [kind |-> "rd", i |-> r.i, data |-> mem[r.addr]])
              /\ UNCHANGED mem
         ELSE /\ busResp' = Append(busResp, [kind |-> "wr", i |-> r.i, data |-> 0])
              /\ mem' = [mem EXCEPT ![r.addr] = r.data]
  /\ UNCHANGED <<imem, cpu, port, retry, cfuReq, cfuResp>>

-----------------------------------------------------------------------------
\* CPU::init; the assembler fills imem and mem.
Init ==
  /\ pc = 0
  /\ rf = [r \in 0 .. NRegs - 1 |-> 0]
  /\ execEvents = 1
  /\ port = EmptyPort
  /\ retry = FALSE
  /\ cfuReq = <<>> /\ cfuResp = <<>>
  /\ bus = <<>> /\ busResp = <<>>

Execute == ExecOwn \/ BusMemRead \/ BusmemWrite \/ CFUReq

Handlers == masterPortRetry \/ memReadXBarRespHandler \/ memWriteXBarRespHandler \/ CFURespHandler

Environment == packet_handler \/ BusAccept \/ MemServe

Next == Execute \/ Handlers \/ Environment

-----------------------------------------------------------------------------
(* Properties.                                                             *)

\* A store has been refused by a busy register.  It never leaves the queue.
StoreRefused == \E k \in 1 .. Len(port.q) : port.q[k].kind = "wr"

LoadsIn(s) == Cardinality({k \in 1 .. Len(s) : s[k].kind = "rd"})

\* What keeps the program going: an event, or a response that is awaited.
Activity == execEvents + Len(cfuReq) + Len(cfuResp)
            + LoadsIn(port.reg) + LoadsIn(port.q) + LoadsIn(bus) + LoadsIn(busResp)

\* The program has run into its HCF.
AtHcf == pc >= 4 /\ fetchInstr(pc - 4).op = "HCF"

\* One instruction at a time: unless a store was refused, exactly one event
\* or awaited response keeps the program going until HCF, which leaves none.
\* The handlers never start the next instruction twice, or not at all.
OneInstruction ==
  ~ StoreRefused =>
    \/ Activity = 1
    \/ Activity = 0 /\ AtHcf

\* Memory once the accepted stores have reached it.
MemAfterStores ==
  LET stores == SelectSeq(bus \o port.reg, LAMBDA r : r.kind = "wr")
      after[n \in 0 .. Len(stores)] ==
        IF n = 0 THEN mem ELSE [after[n - 1] EXCEPT ![stores[n].addr] = stores[n].data]
  IN  after[Len(stores)]

\* The registers but x0, which reads as zero in the architecture.
Named == [r \in 1 .. NRegs - 1 |-> rf[r]]

I == INSTANCE Isa WITH prog <- imem, rf <- Named, mem <- MemAfterStores

\* An SLTU, which the CPU computes as a sum (CPU.cc:69): it takes its turn and
\* writes its destination only.
SltuStep ==
  /\ current.op = "SLTU"
  /\ pc' = pc + 4
  /\ \A r \in 1 .. NRegs - 1 : r # current.a1 => rf'[r] = rf[r]
  /\ UNCHANGED MemAfterStores

\* src/README.md:76, "Executes standard RISC-V integer, branch, and load/store
\* instructions", with two exceptions (see the README): as long as no
\* store was refused, every change of pc, the registers but x0, and memory
\* (accepted stores included) is one whole instruction of the architecture, at
\* pc: in order, once each, and with every load seeing the stores before it.
\* Of SLTU only the value it writes is excepted.
FollowsIsa == [][StoreRefused' \/ SltuStep \/ I!Next]_<<pc, Named, MemAfterStores>>

\* Nothing is left to run: the simulation ends and cleanup() is called.
Stopped == Activity = 0 /\ ~ retry /\ port.reg = <<>> /\ bus = <<>> /\ busResp = <<>>

\* CPU.cc:394: "The request queue should be empty" at cleanup.
QueueEmptyAtCleanup == Stopped => port.q = <<>>

=============================================================================
