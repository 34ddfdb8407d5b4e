------------------------------ MODULE Pipeline ------------------------------
(***************************************************************************)
(* The five-stage pipeline simulator (src/riscv).                          *)
(*                                                                         *)
(* The CPU executes an instruction in one tick and hands it, as a packet   *)
(* with its pc and whether it jumped, to a timing model: one simulator per *)
(* stage, with a pipe register between each two.  The stages share         *)
(* nothing.  IF, ID and EXE each keep a picture of the stages behind them, *)
(* pointers to the packets they believe to be there, move it on by rules   *)
(* of their own, and stall by what they see in it.  WB recycles the packet *)
(* objects, to which pictures may still point when they are used again.    *)
(*                                                                         *)
(* The values that instructions compute are left to Cpu: a stream is the   *)
(* sequence of instructions some execution goes through.                   *)
(***************************************************************************)
EXTENDS Integers, Sequences

CONSTANTS
  Streams,              \* the instruction streams, each ending with its only HCF
  Objects,              \* bound: the InstPacket objects ever allocated
  memory_access_time    \* how long a load or store waits in MEM, in ticks

VARIABLES
  stream,               \* the instructions to execute
  issued,               \* how many of them have been executed
  event,                \* an ExecOneInstrEvent is scheduled
  pendingInstPacket,    \* a packet that the port to IF refused
  packet,               \* the contents of the InstPacket objects
  free,                 \* the objects that acquire may return
  port,                 \* the port to IF: the packets at its master and slave side
  reg,                  \* the packets in each pipe register, one on each side at most
  sIF, sID, sEXE, sMEM, \* each stage's picture and memory counters
  retired               \* the instructions that WB has taken

cpu    == <<stream, issued, event, pendingInstPacket, packet>>
stages == <<sIF, sID, sEXE, sMEM>>
vars   == <<cpu, free, port, reg, stages, retired>>

nullptr == 0

First(s) == IF s = <<>> THEN nullptr ELSE Head(s)

-----------------------------------------------------------------------------
(* PipelineUtils.                                                          *)

Regs     == {"ADD", "SUB", "AND", "OR", "XOR", "SLT", "SLTU", "SLL", "SRL", "SRA"}
Imms     == {"ADDI", "ANDI", "ORI", "XORI", "SLTI", "SLTIU", "SLLI", "SRLI", "SRAI"}
Loads    == {"LB", "LH", "LW", "LBU", "LHU"}
Stores   == {"SB", "SH", "SW"}
Branches == {"BEQ", "BNE", "BLT", "BGE", "BLTU", "BGEU"}

instr_type ==
  Regs \cup Imms \cup Loads \cup Stores \cup Branches
    \cup {"UNIMPL", "LUI", "AUIPC", "JAL", "JALR", "HCF"}

\* What an InstPacket holds.
Instructions ==
  [op : instr_type, a1 : Int, a2 : Int, a3 : Int, pc : Int, isTakenBranch : BOOLEAN]

ASSUME PipelineAssumption ==
  /\ Objects \subseteq Nat \ {0}
  /\ memory_access_time \in Nat
  /\ Streams \subseteq Seq(Instructions) \ {<<>>}
  /\ \A s \in Streams : \A k \in 1 .. Len(s) : (s[k].op = "HCF") <=> (k = Len(s))

getDestReg(i) ==
  IF i.op \in Regs \cup Imms \cup Loads \cup {"LUI", "AUIPC", "JAL", "JALR"} THEN i.a1 ELSE 0

\* The registers that isRs1Used, isRs2Used and checkRAW look at.
Sources(i) ==
  CASE i.op \in Regs                          -> {i.a2, i.a3}
    [] i.op \in Imms \cup Loads \cup {"JALR"} -> {i.a2}
    [] i.op \in Stores \cup Branches          -> {i.a1, i.a2}
    [] OTHER                                  -> {}

checkRAW(rd, i) == rd # 0 /\ rd \in Sources(i)

\* (mutant) An instruction in WB is not looked at.
hazard_check_NoWB(ID, EXE, MEM, WB) ==
  ID # nullptr /\ \E p \in {EXE, MEM} \ {nullptr} : checkRAW(getDestReg(packet[p]), packet[ID])

\* All three results of hazard_check are the same.
hazard_check(ID, EXE, MEM, WB) ==
  ID # nullptr /\ \E p \in {EXE, MEM, WB} \ {nullptr} : checkRAW(getDestReg(packet[p]), packet[ID])

is_MemPacket(p) == p # nullptr /\ packet[p].op \in Loads \cup Stores

\* stall_ma of a stage with memory counters k and p in its MEM, and what
\* computing it makes of the counters.
stall_ma(k, p) ==
  is_MemPacket(p) /\ (k.last_pc # packet[p].pc \/ k.count < memory_access_time)

Counted(k, p) ==
  CASE ~ stall_ma(k, p)                          -> k
    [] stall_ma(k, p) /\ k.last_pc # packet[p].pc ->
         [k EXCEPT !.last_pc = packet[p].pc, !.count = 1]
    [] OTHER                                     -> [k EXCEPT !.count = @ + 1]

-----------------------------------------------------------------------------
(* The CPU.                                                                *)

Pictured == {sIF.ID, sIF.EXE, sIF.MEM, sIF.WB, sID.EXE, sID.MEM, sID.WB, sEXE.MEM}

\* acquire returns any recycled object.  The ones no stage points to cannot
\* be told apart: the least stands for all of them.
acquire == {p \in free : p \in Pictured \/ \A q \in free \ Pictured : p <= q}

\* The port accepts p: the next instruction is scheduled, unless this is HCF.
Sent(p, op) ==
  /\ port' = [port EXCEPT !.m = <<p>>]
  /\ pendingInstPacket' = nullptr
  /\ event' = (op # "HCF")

\* The port refuses p.
Refused(p) ==
  /\ pendingInstPacket' = p
  /\ event' = FALSE
  /\ UNCHANGED port

\* (mutant) The next instruction is scheduled in either case.
commitInstr_Always(p, op) ==
  IF port.m = <<>> THEN Sent(p, op)
  ELSE pendingInstPacket' = p /\ event' = (op # "HCF") /\ UNCHANGED port

commitInstr(p, op) == IF port.m = <<>> THEN Sent(p, op) ELSE Refused(p)

\* execOneInstr and processInstr.
execOneInstr ==
  /\ event
  /\ issued' = issued + 1
  /\ \E p \in acquire :
       /\ packet' = [packet EXCEPT ![p] = stream[issued + 1]]
       /\ free' = free \ {p}
       /\ commitInstr(p, stream[issued + 1].op)
  /\ UNCHANGED <<stream, reg, stages, retired>>

\* masterPortRetry, when the master side of the port is empty again.
retrySendInstPacket ==
  /\ pendingInstPacket # nullptr
  /\ port.m = <<>>
  /\ Sent(pendingInstPacket, packet[pendingInstPacket].op)
  /\ UNCHANGED <<stream, issued, packet, free, reg, stages, retired>>

\* The port moves its packet to the slave side, which holds one.
PortForward ==
  /\ port.m # <<>> /\ port.s = <<>>
  /\ port' = [m |-> <<>>, s |-> port.m]
  /\ UNCHANGED <<cpu, free, reg, stages, retired>>

-----------------------------------------------------------------------------
(* The stages.  In a tick the step of every stage runs; each sees the      *)
(* registers as the last tick left them.  S is the set of registers that   *)
(* answer isStalled with true.                                             *)

InIF  == First(port.s)
InID  == First(reg["IF2ID"])
InEXE == First(reg["ID2EXE"])
InMEM == First(reg["EXE2MEM"])
InWB  == First(reg["MEM2WB"])

\* hazard || control_hazard of IF, hazard of ID.
IFHazard ==
  \/ hazard_check(sIF.ID, sIF.EXE, sIF.MEM, sIF.WB)
  \/ sIF.EXE # nullptr /\ packet[sIF.EXE].isTakenBranch

IDHazard == hazard_check(InID, sID.EXE, sID.MEM, sID.WB)

\* (mutant) IF does not ask the register.
IFPops_Anyway(S) == InIF # nullptr /\ ~ IFHazard /\ ~ stall_ma(sIF, sIF.MEM)

\* The stages that pop their packet and push it into the next register.
IFPops(S)  == InIF  # nullptr /\ "IF2ID"   \notin S /\ ~ IFHazard /\ ~ stall_ma(sIF, sIF.MEM)
IDPops(S)  == InID  # nullptr /\ "ID2EXE"  \notin S /\ ~ IDHazard /\ ~ stall_ma(sID, sID.MEM)
EXEPops(S) == InEXE # nullptr /\ "EXE2MEM" \notin S /\ ~ stall_ma(sEXE, sEXE.MEM)
MEMPops(S) == InMEM # nullptr /\ "MEM2WB"  \notin S /\ ~ stall_ma(sMEM, InMEM)

\* (mutant) The picture stands still while IF is held.
IFBubble_Frozen == sIF

\* The picture of IF, and of ID, when the packet p moves on, and when it is
\* held for a hazard and only what is behind it moves on.
IFShift(p)  == [sIF EXCEPT !.WB = sIF.MEM, !.MEM = sIF.EXE, !.EXE = sIF.ID, !.ID = p]
IFBubble    == [sIF EXCEPT !.WB = sIF.MEM, !.MEM = sIF.EXE, !.EXE = nullptr]
IDShift(p)  == [sID EXCEPT !.WB = sID.MEM, !.MEM = sID.EXE, !.EXE = p]

IFStep(S) ==
  sIF' = CASE InIF = nullptr -> sIF
           [] InIF # nullptr /\ (stall_ma(sIF, sIF.MEM) \/ "IF2ID" \in S) -> Counted(sIF, sIF.MEM)
           [] IFPops(S)      -> IFShift(InIF)
           [] OTHER          -> IFBubble

IDStep(S) ==
  sID' = CASE InID = nullptr -> sID
           [] InID # nullptr /\ (stall_ma(sID, sID.MEM) \/ "ID2EXE" \in S) -> Counted(sID, sID.MEM)
           [] IDPops(S)      -> IDShift(InID)
           [] OTHER          -> IDShift(nullptr)

EXEStep(S) ==
  sEXE' = CASE InEXE = nullptr -> sEXE
            [] EXEPops(S)      -> [sEXE EXCEPT !.MEM = InEXE]
            [] OTHER           -> Counted(sEXE, sEXE.MEM)

MEMStep == sMEM' = IF InMEM = nullptr THEN sMEM ELSE Counted(sMEM, InMEM)

\* WB takes what is there and recycles it.
WBStep ==
  /\ free' = free \cup ({InWB} \ {nullptr})
  /\ retired' = IF InWB = nullptr THEN retired ELSE Append(retired, packet[InWB])

\* Whether the reader of each register pops its packet.
Popped(S) ==
  [IF2ID |-> IDPops(S), ID2EXE |-> EXEPops(S), EXE2MEM |-> MEMPops(S), MEM2WB |-> InWB # nullptr]

\* A register after its packet was popped, or not, and p pushed, or not.
Through(r, S, pushed, p) ==
  (IF Popped(S)[r] THEN Tail(reg[r]) ELSE reg[r]) \o (IF pushed THEN <<p>> ELSE <<>>)

\* A register with a packet on both sides is stalled.  One that holds one
\* may be, if its reader keeps the packet in this tick.
isStalled(S) ==
  \A r \in DOMAIN reg :
    /\ Len(reg[r]) = 2 => r \in S
    /\ r \in S => Len(reg[r]) = 2 \/ (Len(reg[r]) = 1 /\ ~ Popped(S)[r])

Tick ==
  /\ InIF # nullptr \/ \E r \in DOMAIN reg : reg[r] # <<>>
  /\ \E S \in SUBSET DOMAIN reg :
       /\ isStalled(S)
       /\ IFStep(S) /\ IDStep(S) /\ EXEStep(S) /\ MEMStep /\ WBStep
       /\ port' = IF IFPops(S) THEN [port EXCEPT !.s = <<>>] ELSE port
       /\ reg' = [IF2ID   |-> Through("IF2ID",   S, IFPops(S),  InIF),
                  ID2EXE  |-> Through("ID2EXE",  S, IDPops(S),  InID),
                  EXE2MEM |-> Through("EXE2MEM", S, EXEPops(S), InEXE),
                  MEM2WB  |-> Through("MEM2WB",  S, MEMPops(S), InMEM)]
  /\ UNCHANGED cpu

-----------------------------------------------------------------------------
Init ==
  /\ stream \in Streams
  /\ issued = 0
  /\ event = TRUE
  /\ pendingInstPacket = nullptr
  /\ packet = [p \in Objects |->
               [op |-> "UNIMPL", a1 |-> 0, a2 |-> 0, a3 |-> 0, pc |-> 0, isTakenBranch |-> FALSE]]
  /\ free = Objects
  /\ port = [m |-> <<>>, s |-> <<>>]
  /\ reg = [r \in {"IF2ID", "ID2EXE", "EXE2MEM", "MEM2WB"} |-> <<>>]
  /\ sIF  = [ID |-> nullptr, EXE |-> nullptr, MEM |-> nullptr, WB |-> nullptr,
             last_pc |-> -1, count |-> 0]
  /\ sID  = [EXE |-> nullptr, MEM |-> nullptr, WB |-> nullptr, last_pc |-> -1, count |-> 0]
  /\ sEXE = [MEM |-> nullptr, last_pc |-> -1, count |-> 0]
  /\ sMEM = [last_pc |-> -1, count |-> 0]
  /\ retired = <<>>

Next == execOneInstr \/ retrySendInstPacket \/ PortForward \/ Tick

Spec == Init /\ [][Next]_vars

\* The simulator goes on ticking while a stage has a packet, processes
\* scheduled events, and calls back for a port that was full.
FairSpec ==
  /\ Spec
  /\ WF_vars(execOneInstr) /\ WF_vars(retrySendInstPacket) /\ WF_vars(PortForward) /\ WF_vars(Tick)

-----------------------------------------------------------------------------
(* Properties.                                                             *)

\* The stream has no loads and stores.
MemoryFree == \A k \in 1 .. Len(stream) : stream[k].op \notin Loads \cup Stores

\* The packets in the registers behind ID, the oldest first.
InFlight == reg["MEM2WB"] \o reg["EXE2MEM"] \o reg["ID2EXE"]

\* ID releases an instruction only when no instruction it reads a register
\* from is in EXE, MEM or WB, although it decides by a picture that moves
\* only while ID has an instruction, and whose packets may have been recycled
\* and filled anew; as long as no memory access makes the stages wait, each
\* by its own count (IDStage::step, hazard_check).
RawSeparated ==
  [][ LET released == InID # nullptr /\ \E k \in DOMAIN reg'["ID2EXE"] : reg'["ID2EXE"][k] = InID
      IN  MemoryFree /\ released =>
            \A k \in DOMAIN InFlight : ~ checkRAW(getDestReg(packet[InFlight[k]]), packet[InID]) ]_vars

\* WB takes the instructions in the order in which the CPU executed them, each
\* once and none left out, though a refused packet waits in
\* pendingInstPacket and its object is used again after WB
\* (CPU::commitInstr, retrySendInstPacket, WBStage::instPacketHandler).
InOrder == retired = SubSeq(stream, 1, Len(retired))

\* No stage pushes a packet into a register that is full on both sides: the
\* push that instPacketHandler reports as failed, and whose packet is lost,
\* does not happen.
PushesSucceed == \A r \in DOMAIN reg : Len(reg[r]) <= 2

\* Every instruction, up to HCF, reaches WB: no picture, however far it is
\* from what the other stages do, makes its stage stall for ever.
Drains == <>(retired = stream)
=============================================================================
