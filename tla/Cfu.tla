-------------------------------- MODULE Cfu --------------------------------
(***************************************************************************)
(* The custom function unit of the SoC (soc/libs/CFU.cc): packed signed    *)
(* arithmetic on the four lanes, or the two double lanes, of a word.       *)
(* The unit keeps nothing between two requests that it does not overwrite, *)
(* so it is a function of the instruction and the two operands.            *)
(***************************************************************************)
EXTENDS Integers, FiniteSets

CONSTANT LaneBits     \* bits of a lane (8 in the code, so words have 32)

ASSUME LaneBitsAssumption == LaneBits \in Nat \ {0}

Width   == 4 * LaneBits
Word    == 0 .. 2^Width - 1

\* Two's complement: v read as a signed number of n bits, and back.
Signed(v, n)   == IF v >= 2^(n - 1) THEN v - 2^n ELSE v
Unsigned(v, n) == v % 2^n

\* Part i of n bits of x as a signed number: `(x >> (i * n)) & mask'.
Part(x, i, n) == Signed((x \div 2^(i * n)) % 2^n, n)

AddSubOps == {"S_ADDI8I8S_VV", "S_ADDI16I16S_VV", "S_SUBI8I8S_VV", "S_SUBI16I16S_VV"}
MulOps    == {"S_PMULI8I16S_VV_L", "S_PMULI8I16S_VV_H", "S_AMULI8I8S_VV_NQ", "S_AMULI8I8S_VV_L"}
CfuOps    == AddSubOps \cup MulOps

\* The results of the lanes, or of the double lanes, shifted into their places.
Lanes(r)       == r[0] + r[1] * 2^LaneBits + r[2] * 2^(2 * LaneBits) + r[3] * 2^(3 * LaneBits)
DoubleLanes(r) == r[0] + r[1] * 2^(2 * LaneBits)

\* (mutant) The words are added as one number, with carries between the lanes.
AddSub_WholeWord(op, rs1, rs2) ==
  Unsigned(IF op \in {"S_ADDI8I8S_VV", "S_ADDI16I16S_VV"} THEN rs1 + rs2 ELSE rs1 - rs2, Width)

\* AddSubActivationUnit::computation
AddSub(op, rs1, rs2) ==
  LET B(x, i) == Part(x, i, LaneBits)
      H(x, i) == Part(x, i, 2 * LaneBits)
  IN  CASE op = "S_ADDI8I8S_VV" ->
             Lanes([i \in 0 .. 3 |-> Unsigned(B(rs1, i) + B(rs2, i), LaneBits)])
        [] op = "S_SUBI8I8S_VV" ->
             Lanes([i \in 0 .. 3 |-> Unsigned(B(rs1, i) - B(rs2, i), LaneBits)])
        [] op = "S_ADDI16I16S_VV" ->
             DoubleLanes([i \in 0 .. 1 |-> Unsigned(H(rs1, i) + H(rs2, i), 2 * LaneBits)])
        [] op = "S_SUBI16I16S_VV" ->
             DoubleLanes([i \in 0 .. 1 |-> Unsigned(H(rs1, i) - H(rs2, i), 2 * LaneBits)])

\* (mutant) The operands are read as unsigned bytes.
LaneMul_Unsigned(rs1, rs2, i) ==
  Unsigned(rs1 \div 2^(i * LaneBits), LaneBits) * Unsigned(rs2 \div 2^(i * LaneBits), LaneBits)

\* `mul', an int16_t, which holds every product.
LaneMul(rs1, rs2, i) == Part(rs1, i, LaneBits) * Part(rs2, i, LaneBits)

\* (mutant) A division, which rounds toward zero.
HighHalf_Divides(m) ==
  Unsigned(IF m < 0 THEN - ((-m) \div 2^LaneBits) ELSE m \div 2^LaneBits, LaneBits)

\* `msb', an arithmetic shift.
HighHalf(m) == Unsigned(m \div 2^LaneBits, LaneBits)

\* MulUnit::computation
Mul(op, rs1, rs2) ==
  LET mul(i) == LaneMul(rs1, rs2, i)
  IN  CASE op = "S_PMULI8I16S_VV_L" ->
             DoubleLanes([i \in 0 .. 1 |-> Unsigned(mul(i), 2 * LaneBits)])
        [] op = "S_PMULI8I16S_VV_H" ->
             DoubleLanes([i \in 0 .. 1 |-> Unsigned(mul(i + 2), 2 * LaneBits)])
        [] op = "S_AMULI8I8S_VV_NQ" ->
             Lanes([i \in 0 .. 3 |-> HighHalf(mul(i))])
        [] op = "S_AMULI8I8S_VV_L" ->
             Lanes([i \in 0 .. 3 |-> Unsigned(mul(i), LaneBits)])

\* CFU::get_result: both units compute and outputSel takes one of the results.
get_result(op, rs1, rs2) ==
  IF op \in AddSubOps THEN AddSub(op, rs1, rs2) ELSE Mul(op, rs1, rs2)

=============================================================================
