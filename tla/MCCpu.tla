------------------------------- MODULE MCCpu -------------------------------
(***************************************************************************)
(* Emulator and Cpu on short sources, with words of 16 bits, five          *)
(* registers and two memory cells at a data offset whose lower twelve bits *)
(* have their highest bit set.                                             *)
(***************************************************************************)
EXTENDS Emulator

Line(tok, o)         == [label |-> <<>>, tok |-> tok, o |-> o]
Label(l, tok, o)     == [label |-> <<l>>, tok |-> tok, o |-> o]
RRR(op, a, b, c)     == Line(op, <<R(a), R(b), R(c)>>)
RRI(op, a, b, v)     == Line(op, <<R(a), R(b), Num(v)>>)
RM(op, a, off, b)    == Line(op, <<R(a), At(off, b)>>)
Branch(op, a, b, l)  == Line(op, <<R(a), R(b), Name(l)>>)

HCF == Line("HCF", <<>>)

\* The cells, and x4 pointing to the first.
Cells(v, w) == << Line(".data", <<>>), Label("cells", ".word", <<Num(v), Num(w)>>), Line(".text", <<>>) >>
Base        == << Line("la", <<R(4), Name("cells")>>) >>

\* Stores with loads of the same cells behind and between them.
StoresAndLoads ==
  Cells(9, -2) \o Base \o
  << RM("LW", 1, 4, 4), RM("SW", 1, 0, 4), RM("LW", 2, 0, 4), RM("SW", 2, 4, 4),
     RRI("ADDI", 1, 1, 1), RM("SW", 1, 0, 4), RM("LB", 3, 4, 4), RM("LW", 2, 0, 4), HCF >>

\* A counting loop that stores in its body; labels on lines of their own and
\* in front of code, in both directions, over pairs; the data come last, with
\* an element that is no number.
Loop ==
  << Line("la", <<R(4), Name("buf")>>), Line("li", <<R(1), Num(2)>>), Label("loop", "", <<>>),
     RM("SB", 1, 0, 4), Line("beqz", <<R(1), Name("end")>>), RRI("ADDI", 1, 1, -1),
     Line("li", <<R(3), Num(2048)>>), Line("bnez", <<R(1), Name("loop")>>),
     Label("end", "LHU", <<R(2), At(0, 4)>>), HCF,
     Line(".data", <<>>), Line(".half", <<Num(7), Name("none")>>), Label("buf", ".word", <<Num(5)>>) >>

\* A call and its return, over the upper-immediate instructions.
Call ==
  Cells(0, 0) \o
  << Line("JAL", <<Name("f")>>), RRI("SRAI", 3, 2, 1), Line("j", <<Name("out")>>),
     Label("f", "la", <<R(4), Name("cells")>>), RRI("ADDI", 2, 3, 200), RM("SW", 2, 4, 4),
     Line("LUI", <<R(3), Num(3)>>), Line("AUIPC", <<R(3), Num(1)>>), Line("mv", <<R(2), R(3)>>),
     Line("ret", <<>>), Label("out", "HCF", <<>>) >>

\* CFU instructions between memory accesses.
Custom ==
  Cells(1, 0) \o Base \o
  << Line("li", <<R(1), Num(39772)>>), RM("SH", 1, 0, 4), RRR("S_AMULI8I8S_VV_L", 2, 1, 1),
     RRR("S_ADDI16I16S_VV", 3, 2, 1), RM("LW", 1, 0, 4), RRR("S_PMULI8I16S_VV_H", 1, 1, 2), HCF >>

\* Every integer operation and branch on operands of both signs.
Integers16 ==
  LET Each(op) == RRR(op, 3, 1, 2)
  IN  << Line("li", <<R(1), Num(-25339)>>), RRI("ADDI", 2, 0, 3),
         Each("ADD"), Each("SUB"), Each("MUL"), Each("SLT"), Each("SLTU"), Each("AND"),
         Each("OR"), Each("XOR"), Each("SLL"), Each("SRL"), Each("SRA"), RRI("SLTI", 3, 2, -99),
         RRI("SLTIU", 3, 2, -99), RRI("ANDI", 3, 1, 4095), RRI("ORI", 3, 1, 98),
         RRI("XORI", 3, 1, -1), RRI("SLLI", 3, 1, 2), RRI("SRLI", 3, 1, 7),
         Branch("BLT", 2, 1, "end"), Branch("BGE", 1, 2, "end"), Branch("BLTU", 1, 2, "end"),
         Branch("BGEU", 2, 1, "end"), Branch("BEQ", 1, 2, "end"), Branch("BNE", 1, 2, "end"),
         RRI("ADDI", 3, 0, 1), Label("end", "HCF", <<>>) >>

\* Sources the assembler refuses: an immediate that is too large, a register
\* that does not exist, an undefined label, a wrong number of operands, a
\* datum that is too large, tokens behind .text.
Refused ==
  { <<RRI("ADDI", 1, 0, 4096), HCF>>, <<RM("LW", 9, 0, 1), HCF>>, <<Line("j", <<Name("no")>>), HCF>>,
    <<Line("mv", <<R(1)>>), HCF>>, <<Line(".data", <<>>), Line(".byte", <<Num(16)>>)>>,
    <<Line(".text", <<Num(0)>>), HCF>> }

\* Every program of four of these instructions.
Alphabet == { RM("SW", 1, 0, 4), RM("LW", 1, 4, 4), RM("LW", 2, 0, 4), RRI("ADDI", 1, 2, 3),
              RRR("S_SUBI8I8S_VV", 2, 1, 2) }
AllShort == {Cells(0, 0) \o Base \o p \o <<HCF>> : p \in [1 .. 4 -> Alphabet]}

MCSources == {StoresAndLoads, Loop, Call, Custom, Integers16} \cup Refused \cup AllShort

\* These are sources of which CpuProofs speaks.
ASSUME MCWellFormed == WellFormed

=============================================================================
