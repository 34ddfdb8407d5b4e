----------------------------- MODULE ChiselCpu -----------------------------
(***************************************************************************)
(* The five-stage RISC-V core in Chisel (chisel_impl/.../acal_lab09) with  *)
(* its data memory.  It is synchronous hardware: every stage register, the *)
(* register file and the memory's state machine change together at a clock *)
(* edge, from the values the combinational logic has in the cycle.  The    *)
(* signals are operators on the registers and keep their Chisel names;     *)
(* Clock is the edge.                                                      *)
(*                                                                         *)
(* Instructions are decoded records, without the bit positions of the      *)
(* fields; a word has four bytes, of XLEN / 4 bits.                        *)
(***************************************************************************)
EXTENDS Integers, Sequences, SequencesExt

CONSTANTS
  XLEN,         \* bits of a register (32 in the code)
  AddrBits,     \* memAddrWidth: bits of an address and of a pc (15 in the code)
  MemLatency,   \* memLatency of DataMem (5 in the code)
  NRegs,        \* registers
  Fuel,         \* bound: instructions a program executes before it halts
  Programs      \* the programs, as sequences of instructions

ASSUME ChiselAssumption ==
  /\ XLEN \in Nat \ {0} /\ XLEN % 4 = 0
  /\ AddrBits \in 2 .. XLEN
  /\ MemLatency \in Nat /\ MemLatency >= 3
  /\ NRegs \in Nat \ {0} /\ Fuel \in Nat

VARIABLES
  imem,                   \* the program
  IF_pc, ID, EXE, MEM, WB,   \* the stage registers
  regs,                   \* the register file
  dm,                     \* the state machine of DataMem
  memory,                 \* its bytes
  over,                   \* the test bench has seen Hcf and stopped the clock
  log,                    \* history: the effects the core has had
  arch                    \* history: the effects the program should have

vars == <<imem, IF_pc, ID, EXE, MEM, WB, regs, dm, memory, over, log, arch>>

Address == 0 .. 2^AddrBits - 1

-----------------------------------------------------------------------------
(* Instructions: [op, rd, rs1, rs2, imm].                                  *)

I == INSTANCE Isa WITH LaneBits <- XLEN \div 4, prog <- <<>>, pc <- 0, rf <- <<>>, mem <- <<>>

\* What a flushed or bubbled register holds, and memory behind the program:
\* the instruction 0, which has no opcode of opcode_map.
Bubble == [op |-> "NONE", rd |-> 0, rs1 |-> 0, rs2 |-> 0, imm |-> 0]

opcode(i) ==
  CASE i.op \in I!Loads                     -> "LOAD"
    [] i.op \in I!Stores                    -> "STORE"
    [] i.op \in I!Branches                  -> "BRANCH"
    [] i.op \in DOMAIN I!ImmOp              -> "OP_IMM"
    [] i.op \in I!RegOps                    -> "OP"
    [] OTHER                                -> i.op     \* JAL, JALR, AUIPC, LUI, HCF, NONE

InstMem(p, a) == IF a \div 4 < Len(p) THEN p[a \div 4 + 1] ELSE Bubble

\* ImmGen with D_ImmSel: R_type has no immediate.
ImmGen(i) == IF opcode(i) \in {"OP", "HCF", "NONE"} THEN 0 ELSE i.imm % 2^XLEN

-----------------------------------------------------------------------------
(* Bytes, halves and words in memory.                                      *)

ByteBits == XLEN \div 4

\* The lengths Byte and UByte, Half and UHalf, Word.
Bytes(op) ==
  CASE op \in {"LB", "LBU", "SB"} -> 1
    [] op \in {"LH", "LHU", "SH"} -> 2
    [] op \in {"LW", "SW"}        -> 4

\* The lowest n bytes from a on, the first one lowest.
Cat(m, a, n) ==
  LET up[k \in 0 .. n] == IF k = n THEN 0 ELSE m[a + k] + 2^ByteBits * up[k + 1] IN up[0]

\* What a load makes of the bytes at a: LB and LH extend the sign.
readData(m, op, a) ==
  LET bits == ByteBits * Bytes(op)
      v    == Cat(m, a, Bytes(op))
  IN  IF op \in {"LB", "LH"} /\ v >= 2^(bits - 1) THEN v + 2^XLEN - 2^bits ELSE v

\* The memory m with the lowest bytes of v written at a.
Written(m, op, a, v) ==
  [x \in Address |-> IF x \in a .. a + Bytes(op) - 1 THEN (v \div 2^(ByteBits * (x - a))) % 2^ByteBits
                     ELSE m[x]]

\* Where an access begins.  UByte and UHalf are not in the table: their
\* addresses are those of the word, as its default has it.
alignedAddr(op, a) ==
  CASE op \in {"LB", "SB"} -> a
    [] op \in {"LH", "SH"} -> a - (a % 2)
    [] OTHER               -> a - (a % 4)

-----------------------------------------------------------------------------
(* EXE: branch comparator, ALU, target.                                    *)

AsSInt(x) == IF x >= 2^(XLEN - 1) THEN x - 2^XLEN ELSE x
Bool(b)   == IF b THEN 1 ELSE 0
PerBit(f, x, y) == I!FromBits([n \in 0 .. XLEN - 1 |-> f[I!Bit(x, n), I!Bit(y, n)]])

ALU(sel, x, y) ==
  LET by == y % XLEN
  IN  CASE sel = "ADD"  -> (x + y) % 2^XLEN
        [] sel = "SLL"  -> (x * 2^by) % 2^XLEN
        [] sel = "SLT"  -> Bool(AsSInt(x) < AsSInt(y))
        [] sel = "SLTU" -> Bool(x < y)
        [] sel = "XOR"  -> PerBit([a, b \in 0 .. 1 |-> (a + b) % 2], x, y)
        [] sel = "SRL"  -> x \div 2^by
        [] sel = "OR"   -> PerBit([a, b \in 0 .. 1 |-> a + b - a * b], x, y)
        [] sel = "AND"  -> PerBit([a, b \in 0 .. 1 |-> a * b], x, y)
        [] sel = "SUB"  -> (x - y) % 2^XLEN
        [] sel = "SRA"  -> (AsSInt(x) \div 2^by) % 2^XLEN
        [] OTHER        -> 0

E_ALUSel == CASE opcode(EXE.inst) = "OP_IMM" -> I!ImmOp[EXE.inst.op]
              [] opcode(EXE.inst) = "OP"     -> EXE.inst.op
              [] OTHER                       -> "ADD"

alu_src1 == CASE opcode(EXE.inst) \in {"BRANCH", "JAL", "AUIPC"} -> EXE.pc
              [] opcode(EXE.inst) \in {"LUI", "HCF"}             -> 0
              [] OTHER                                           -> EXE.rs1
alu_src2 == IF opcode(EXE.inst) \in {"OP", "HCF", "NONE"} THEN EXE.rs2 ELSE EXE.imm

EXE_alu_out   == ALU(E_ALUSel, alu_src1, alu_src2)
EXE_target_pc == EXE_alu_out % 2^AddrBits

\* BranchComp
E_BrUn == EXE.inst.op \in {"BLTU", "BGEU"}
E_BrEq == EXE.rs1 = EXE.rs2
E_BrLT == IF E_BrUn THEN EXE.rs1 < EXE.rs2 ELSE AsSInt(EXE.rs1) < AsSInt(EXE.rs2)

E_Branch_taken ==
  \/ EXE.inst.op = "BEQ" /\ E_BrEq
  \/ EXE.inst.op = "BNE" /\ ~ E_BrEq
  \/ EXE.inst.op \in {"BLT", "BLTU"} /\ E_BrLT
  \/ EXE.inst.op \in {"BGE", "BGEU"} /\ ~ E_BrLT
  \/ EXE.inst.op \in {"JAL", "JALR"}

\* The instruction behind a taken branch, in ID, is not the one at its target.
Predict_Miss == E_Branch_taken /\ ID.pc # EXE_target_pc

-----------------------------------------------------------------------------
(* Stalls.                                                                 *)

WritesRd == {"LOAD", "JALR", "JAL", "OP_IMM", "OP", "AUIPC", "LUI"}

\* The instruction in ID reads the register that i, further down, will write.
Overlap(i) ==
  /\ opcode(i) \in WritesRd /\ i.rd # 0
  /\ \/ opcode(ID.inst) \in {"LOAD", "STORE", "BRANCH", "JALR", "OP_IMM", "OP"} /\ ID.inst.rs1 = i.rd
     \/ opcode(ID.inst) \in {"STORE", "BRANCH", "OP"} /\ ID.inst.rs2 = i.rd

\* (mutant) The register file is taken to pass on what is written.
Stall_DH_NoWB == Overlap(EXE.inst) \/ Overlap(MEM.inst)

\* Stall_EXE_ID_DH, Stall_MEM_ID_DH or Stall_WB_ID_DH
Stall_DH == Overlap(EXE.inst) \/ Overlap(MEM.inst) \/ Overlap(WB.inst)

DM_Mem_R == opcode(MEM.inst) = "LOAD"
DM_Mem_W == opcode(MEM.inst) = "STORE"

\* In every state of DataMem.
DM_Valid == dm.counter = MemLatency - 1

Stall_MA == (DM_Mem_R \/ DM_Mem_W) /\ ~ DM_Valid

\* (mutant) The halt is taken where the instruction is executed.
Hcf_Execute == opcode(EXE.inst) = "HCF"

Hcf == opcode(WB.inst) = "HCF"

-----------------------------------------------------------------------------
(* The stage registers after the edge.                                     *)

next_pc == IF Predict_Miss THEN EXE_target_pc ELSE (IF_pc + 4) % 2^AddrBits

FrontStall == (Hcf \/ Stall_DH \/ Stall_MA) /\ ~ Predict_Miss

Reg_IF == IF FrontStall THEN IF_pc ELSE next_pc

Reg_ID ==
  CASE Predict_Miss -> [pc |-> 0, inst |-> Bubble]
    [] FrontStall   -> ID
    [] OTHER        -> [pc |-> IF_pc, inst |-> InstMem(imem, IF_pc)]

EmptyEXE == [pc |-> 0, inst |-> Bubble, rs1 |-> 0, rs2 |-> 0, imm |-> 0]

\* A flush comes before a memory stall: the jump itself leaves the stage then,
\* although MEM does not take it.
Reg_EXE ==
  CASE Predict_Miss          -> EmptyEXE
    [] Stall_MA              -> EXE
    [] Hcf \/ Stall_DH       -> EmptyEXE
    [] OTHER -> [pc |-> ID.pc, inst |-> ID.inst, rs1 |-> regs[ID.inst.rs1],
                 rs2 |-> regs[ID.inst.rs2], imm |-> ImmGen(ID.inst)]

Reg_MEM ==
  IF Hcf \/ Stall_MA THEN MEM
  ELSE [pc |-> EXE.pc, inst |-> EXE.inst, alu_out |-> EXE_alu_out, wdata |-> EXE.rs2]

EmptyWB == [pc_plus4 |-> 0, inst |-> Bubble, alu_out |-> 0, ld_data |-> 0]

Reg_WB ==
  CASE Hcf      -> WB
    [] Stall_MA -> EmptyWB
    [] OTHER    -> [pc_plus4 |-> (MEM.pc + 4) % 2^AddrBits, inst |-> MEM.inst,
                    alu_out |-> MEM.alu_out, ld_data |-> dm.dataReg]

\* Path_WB
WB_wdata == CASE opcode(WB.inst) = "LOAD"            -> WB.ld_data
              [] opcode(WB.inst) \in {"JAL", "JALR"} -> WB.pc_plus4
              [] OTHER                               -> WB.alu_out

W_RegWEn == opcode(WB.inst) \in WritesRd

RegFile ==
  [r \in 0 .. NRegs - 1 |->
     CASE r = 0                        -> 0
       [] W_RegWEn /\ r = WB.inst.rd   -> WB_wdata
       [] OTHER                        -> regs[r]]

-----------------------------------------------------------------------------
(* DataMem.                                                                *)

\* The length of the access is that of the instruction in MEM.
DM_Length == MEM.inst.op

DM_Read == readData(memory, dm.length, alignedAddr(dm.length, dm.addr))

\* (mutant) The cycles of an access are not counted.
DataMem_NoCount ==
  LET addr == MEM.alu_out % 2^AddrBits
  IN  CASE dm.state = "sIdle" /\ DM_Mem_R -> [dm EXCEPT !.state = "sRead", !.counter = 1,
                                                        !.addr = addr, !.length = DM_Length]
        [] dm.state = "sIdle" /\ DM_Mem_W -> [dm EXCEPT !.state = "sWrite", !.counter = 1, !.addr = addr,
                                                        !.length = DM_Length, !.wdata = MEM.wdata]
        [] dm.state = "sIdle"  -> [dm EXCEPT !.counter = 0]
        [] dm.state = "sRead"  -> [dm EXCEPT !.state = "sWait", !.dataReg = DM_Read]
        [] OTHER               -> [dm EXCEPT !.state = "sWait"]

\* The state machine after the edge: a request is latched, carried out in the
\* next cycle, and Valid when the counter has come to the latency.
DataMem ==
  LET addr == MEM.alu_out % 2^AddrBits
      Count(s) == IF DM_Valid THEN [s EXCEPT !.state = "sIdle", !.counter = 0]
                              ELSE [s EXCEPT !.state = "sWait", !.counter = @ + 1]
  IN  CASE dm.state = "sIdle" /\ DM_Mem_R ->
             [dm EXCEPT !.state = "sRead", !.counter = 1, !.addr = addr, !.length = DM_Length]
        [] dm.state = "sIdle" /\ DM_Mem_W ->
             [dm EXCEPT !.state = "sWrite", !.counter = 1, !.addr = addr, !.length = DM_Length,
                        !.wdata = MEM.wdata]
        [] dm.state = "sIdle"  -> [dm EXCEPT !.counter = 0]
        [] dm.state = "sRead"  -> Count([dm EXCEPT !.dataReg = DM_Read])
        [] OTHER               -> Count(dm)

MemoryAfter ==
  IF dm.state = "sWrite"
  THEN Written(memory, dm.length, alignedAddr(dm.length, dm.addr), dm.wdata) ELSE memory

-----------------------------------------------------------------------------
\* The effects of a cycle: a register written back, a load or a store that the
\* memory carries out.
RegEffect(r, v) == IF r = 0 THEN <<>> ELSE <<[kind |-> "reg", at |-> r, value |-> v]>>
MemEffect(k, op, a, v) == <<[kind |-> k, at |-> a, value |-> v % 2^(ByteBits * Bytes(op))]>>

Effects ==
  (IF W_RegWEn THEN RegEffect(WB.inst.rd, WB_wdata) ELSE <<>>)
  \o LET a == alignedAddr(dm.length, dm.addr)
     IN  CASE dm.state = "sRead"  -> MemEffect("load", dm.length, a, DM_Read)
           [] dm.state = "sWrite" -> MemEffect("store", dm.length, a, dm.wdata)
           [] OTHER               -> <<>>

\* One clock edge.  The test bench steps until it sees Hcf, and once more.
Clock ==
  /\ ~ over
  /\ IF_pc' = Reg_IF /\ ID' = Reg_ID /\ EXE' = Reg_EXE /\ MEM' = Reg_MEM /\ WB' = Reg_WB
  /\ regs' = RegFile
  /\ dm' = DataMem
  /\ memory' = MemoryAfter
  /\ over' = Hcf
  /\ log' = log \o Effects
  /\ UNCHANGED <<imem, arch>>

-----------------------------------------------------------------------------
(* What the program should do: one instruction after the other, as the     *)
(* architecture (Isa) has it.                                              *)

ArchInit == [pc |-> 0, rf |-> [r \in 0 .. NRegs - 1 |-> 0],
             mem |-> [a \in Address |-> 0], out |-> <<>>, halted |-> FALSE]

ArchStep(p, s) ==
  LET i == InstMem(p, s.pc)
      x == s.rf[i.rs1]
      y == s.rf[i.rs2]
      m == i.imm % 2^XLEN
      next == (s.pc + 4) % 2^AddrBits
      target == (s.pc + i.imm) % 2^AddrBits
      to == ((x + m) % 2^XLEN) % 2^AddrBits
      addr == to - (to % Bytes(i.op))          \* naturally aligned
      loaded == readData(s.mem, i.op, addr)
      Write(v, pc, before) ==
        [s EXCEPT !.pc = pc, !.rf = IF i.rd = 0 THEN @ ELSE [@ EXCEPT ![i.rd] = v],
                  !.out = @ \o before \o RegEffect(i.rd, v)]
  IN  CASE i.op = "HCF"            -> [s EXCEPT !.halted = TRUE]
        [] i.op \in I!RegOps       -> Write(I!Integer(i.op, x, y), next, <<>>)
        [] i.op \in DOMAIN I!ImmOp -> Write(I!Integer(I!ImmOp[i.op], x, m), next, <<>>)
        [] i.op = "LUI"            -> Write(m, next, <<>>)
        [] i.op = "AUIPC"          -> Write((s.pc + m) % 2^XLEN, next, <<>>)
        [] i.op = "JAL"            -> Write(next, target, <<>>)
        [] i.op = "JALR"           -> Write(next, ((x + m) % 2^XLEN) % 2^AddrBits, <<>>)
        [] i.op \in I!Loads        -> Write(loaded, next, MemEffect("load", i.op, addr, loaded))
        [] i.op \in I!Stores       -> [s EXCEPT !.pc = next, !.mem = Written(@, i.op, addr, y),
                                                !.out = @ \o MemEffect("store", i.op, addr, y)]
        [] i.op \in I!Branches     -> [s EXCEPT !.pc = IF I!Taken(i.op, x, y) THEN target ELSE next]
        [] OTHER                   -> [s EXCEPT !.pc = next]

\* The architecture after Fuel instructions, or at HCF.
ArchRun(p) ==
  LET run[n \in 0 .. Fuel] ==
        IF n = 0 THEN ArchInit
        ELSE LET s == run[n - 1] IN IF s.halted THEN s ELSE ArchStep(p, s)
  IN  run[Fuel]

-----------------------------------------------------------------------------
Init ==
  /\ imem \in Programs
  /\ IF_pc = 0
  /\ ID = [pc |-> 0, inst |-> Bubble]
  /\ EXE = EmptyEXE
  /\ MEM = [pc |-> 0, inst |-> Bubble, alu_out |-> 0, wdata |-> 0]
  /\ WB = EmptyWB
  /\ regs = [r \in 0 .. NRegs - 1 |-> 0]
  /\ dm = [state |-> "sIdle", counter |-> 0, dataReg |-> 0, addr |-> 0, wdata |-> 0, length |-> "NONE"]
  /\ memory = [a \in Address |-> 0]
  /\ over = FALSE
  /\ log = <<>>
  /\ arch = ArchRun(imem).out

\* The clock keeps ticking.
Spec == Init /\ [][Clock]_vars /\ WF_vars(Clock)

-----------------------------------------------------------------------------
(* Properties.                                                             *)

\* The registers written back and the accesses carried out by the memory are
\* those of the program run one instruction at a time, with the same values
\* and in the same order: no instruction on a wrong path, behind a taken
\* branch, has an effect, none is repeated or lost in a stall, and none reads
\* a register or a byte before its last write (Controller.scala:343-365).  It
\* does not hold of every program: a linking jump behind an access loses its
\* link, and LBU and LHU are read from the beginning of the word (see the README).
InOrderEffects == IsPrefix(log, arch)

\* When the core halts, every effect of the program has happened: nothing that
\* precedes HCF is left in the pipeline or was dropped on the way.
HaltsComplete == over => log = arch

\* The core comes to HCF: no combination of stalls and flushes holds all
\* stages back for ever.
Halts == <>over

=============================================================================
