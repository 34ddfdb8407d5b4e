---------------------------- MODULE MCChiselCpu ----------------------------
(***************************************************************************)
(* ChiselCpu on every program of a few instructions that halts, with words *)
(* of eight bits, addresses of six, and three registers.                  *)
(***************************************************************************)
EXTENDS ChiselCpu

Ins(op, rd, rs1, rs2, imm) == [op |-> op, rd |-> rd, rs1 |-> rs1, rs2 |-> rs2, imm |-> imm]

\* Producers and consumers of x1 and x2, loads and stores with and without
\* dependences, branches and jumps forwards, backwards and to the next
\* instruction.
Alphabet ==
  { Ins("ADDI", 1, 0, 0, 12), Ins("SUB", 2, 1, 2, 0), Ins("LW", 1, 0, 0, 4),
    Ins("SW", 0, 2, 1, 4), Ins("BNE", 0, 1, 2, 8), Ins("BGE", 0, 1, 0, 4),
    Ins("BLT", 0, 2, 1, -4), Ins("JAL", 2, 0, 0, 8), Ins("JALR", 1, 1, 0, 4) }

HCF == Ins("HCF", 0, 0, 0, 0)

Short == {p \o <<HCF, HCF>> : p \in [1 .. 4 -> Alphabet]}

\* The other operations, on operands of both signs.
AllOps ==
  << Ins("ADDI", 1, 0, 0, -99), Ins("SRAI", 2, 1, 0, 2), Ins("SLTU", 2, 1, 2, 0),
     Ins("SLT", 2, 2, 1, 0), Ins("XORI", 2, 1, 0, 15), Ins("AND", 1, 1, 2, 0), HCF >>
MoreOps ==
  << Ins("AUIPC", 1, 0, 0, 16), Ins("LUI", 2, 0, 0, 64), Ins("OR", 2, 1, 2, 0),
     Ins("SLL", 1, 2, 1, 0), Ins("SRLI", 1, 2, 0, 3), Ins("BLTU", 0, 2, 1, 8),
     Ins("BGEU", 0, 2, 1, -8), HCF >>

\* Bytes, halves and words of the same memory.  LBU and LHU are where a word
\* begins: elsewhere DataMem reads them from the wrong address.
ByteOps ==
  << Ins("ADDI", 1, 0, 0, -99), Ins("SW", 0, 0, 1, 4), Ins("LB", 2, 0, 0, 5), Ins("SB", 0, 0, 2, 12),
     Ins("LBU", 1, 0, 0, 12), Ins("LH", 2, 0, 0, 6), Ins("SH", 0, 0, 2, 8), Ins("LHU", 1, 0, 0, 8),
     Ins("SB", 0, 0, 1, 9), Ins("LW", 1, 0, 0, 8), HCF >>

Halting(ps) == {p \in ps : ArchRun(p).halted}

Links(i)    == i.op \in {"JAL", "JALR"} /\ i.rd # 0
Accesses(i) == opcode(i) \in {"LOAD", "STORE"}

\* A jump that links, directly behind a load or a store.
LinkBehindAccess(p) == \E k \in 1 .. Len(p) - 1 : Accesses(p[k]) /\ Links(p[k + 1])

MCPrograms == {p \in Halting(Short \cup {AllOps, MoreOps, ByteOps}) : ~ LinkBehindAccess(p)}

\* sw; jal x2; the link used behind it.
LinkPrograms ==
  { << Ins("SW", 0, 0, 0, 4), Ins("JAL", 2, 0, 0, 8), HCF, Ins("ADDI", 1, 2, 0, 0), HCF >> }

=============================================================================
