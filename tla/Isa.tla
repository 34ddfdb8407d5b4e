-------------------------------- MODULE Isa --------------------------------
(***************************************************************************)
(* What the CPU promises (src/README.md:76: "Executes standard RISC-V      *)
(* integer, branch, and load/store instructions"; src/README.md:99: "Fetch *)
(* -> Execute -> Commit"): instructions take effect whole, once each and   *)
(* in program order.  The integer instructions are those of RV32IM, on     *)
(* words of Width bits, with x0 hardwired; the custom ones are the CFU's.  *)
(***************************************************************************)
EXTENDS Cfu, Sequences

VARIABLES prog,   \* the program, one instruction per element
          pc, rf, mem

\* An instruction is a record [op, a1, a2, a3] of an operation and operands.
RegOps   == {"ADD", "SUB", "MUL", "SLT", "SLTU", "AND", "OR", "XOR", "SLL", "SRL", "SRA"}
ImmOp    == [ADDI |-> "ADD", SLTI |-> "SLT", SLTIU |-> "SLTU", ANDI |-> "AND", ORI |-> "OR",
             XORI |-> "XOR", SLLI |-> "SLL", SRLI |-> "SRL", SRAI |-> "SRA"]
Branches == {"BEQ", "BNE", "BLT", "BGE", "BLTU", "BGEU"}
Loads    == {"LB", "LBU", "LH", "LHU", "LW"}
Stores   == {"SB", "SH", "SW"}

Bit(x, i) == (x \div 2^i) % 2

\* The word with the given bits.
FromBits(b) ==
  LET sum[i \in 0 .. Width] == IF i = Width THEN 0 ELSE b[i] + 2 * sum[i + 1] IN sum[0]

\* x moved n places to the left, or to the right filling up with bit `fill'.
Left(x, n)        == FromBits([i \in 0 .. Width - 1 |-> IF i < n THEN 0 ELSE Bit(x, i - n)])
Right(x, n, fill) ==
  FromBits([i \in 0 .. Width - 1 |-> IF i + n < Width THEN Bit(x, i + n) ELSE fill])

\* x < y on signed words: different signs decide, else the words compare.
Less(x, y) ==
  LET sx == Bit(x, Width - 1)
      sy == Bit(y, Width - 1)
  IN  IF sx = sy THEN x < y ELSE sx = 1

Truth(b) == IF b THEN 1 ELSE 0

\* The result of an integer operation of the architecture.
Integer(op, x, y) ==
  CASE op = "ADD"  -> (x + y) % 2^Width
    [] op = "SUB"  -> (x + (2^Width - y)) % 2^Width
    [] op = "MUL"  -> (x * y) % 2^Width
    [] op = "SLT"  -> Truth(Less(x, y))
    [] op = "SLTU" -> Truth(x < y)
    [] op = "AND"  -> FromBits([i \in 0 .. Width - 1 |-> Bit(x, i) * Bit(y, i)])
    [] op = "OR"   -> FromBits([i \in 0 .. Width - 1 |-> Truth(Bit(x, i) + Bit(y, i) > 0)])
    [] op = "XOR"  -> FromBits([i \in 0 .. Width - 1 |-> (Bit(x, i) + Bit(y, i)) % 2])
    [] op = "SLL"  -> Left(x, y % Width)
    [] op = "SRL"  -> Right(x, y % Width, 0)
    [] op = "SRA"  -> Right(x, y % Width, Bit(x, Width - 1))

Taken(op, x, y) ==
  CASE op = "BEQ"  -> x = y
    [] op = "BNE"  -> x # y
    [] op = "BLT"  -> Less(x, y)
    [] op = "BGE"  -> ~ Less(x, y)
    [] op = "BLTU" -> x < y
    [] op = "BGEU" -> ~ (x < y)

instr == prog[pc \div 4 + 1]
Reg(n) == IF n = 0 THEN 0 ELSE rf[n]
Write(v) == rf' = IF instr.a1 = 0 THEN rf ELSE [rf EXCEPT ![instr.a1] = v]
Advance == pc' = pc + 4
Address == (Reg(instr.a2) + instr.a3) % 2^Width

\* One instruction of each class.
Compute ==
  /\ \/ instr.op \in RegOps       /\ Write(Integer(instr.op, Reg(instr.a2), Reg(instr.a3)))
     \/ instr.op \in DOMAIN ImmOp /\ Write(Integer(ImmOp[instr.op], Reg(instr.a2), instr.a3))
     \/ instr.op \in CfuOps       /\ Write(get_result(instr.op, Reg(instr.a2), Reg(instr.a3)))
     \/ instr.op = "LUI"          /\ Write((instr.a2 * 2^12) % 2^Width)
     \/ instr.op = "AUIPC"        /\ Write((pc + instr.a2 * 2^12) % 2^Width)
  /\ Advance
  /\ UNCHANGED mem

Jump ==
  /\ \/ instr.op = "JAL"  /\ pc' = instr.a2 /\ Write(pc + 4)
     \/ instr.op = "JALR" /\ pc' = (Reg(instr.a2) + instr.a3) % 2^Width /\ Write(pc + 4)
     \/ instr.op \in Branches /\ UNCHANGED rf
          /\ pc' = IF Taken(instr.op, Reg(instr.a1), Reg(instr.a2)) THEN instr.a3 ELSE pc + 4
  /\ UNCHANGED mem

Load  == instr.op \in Loads /\ Write(mem[Address]) /\ Advance /\ UNCHANGED mem
Store == instr.op \in Stores /\ mem' = [mem EXCEPT ![Address] = Reg(instr.a1)] /\ Advance /\ UNCHANGED rf
Halt  == instr.op = "HCF" /\ Advance /\ UNCHANGED <<rf, mem>>

Next ==
  /\ pc \div 4 < Len(prog)
  /\ Compute \/ Jump \/ Load \/ Store \/ Halt
  /\ UNCHANGED prog

=============================================================================
