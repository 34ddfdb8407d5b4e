------------------------------- MODULE MCCfu -------------------------------
(***************************************************************************)
(* Cfu on every pair of operands, with lanes of two bits (words of eight): *)
(* the smallest lanes whose products need both halves and have a carry.    *)
(***************************************************************************)
EXTENDS Cfu

VARIABLES rs1, rs2

CfuInit == rs1 \in Word /\ rs2 \in Word

\* Another request: the operands exchanged.
CfuNext == rs1' = rs2 /\ rs2' = rs1

CfuSpec == CfuInit /\ [][CfuNext]_<<rs1, rs2>>

Pmul(i) == get_result(IF i < 2 THEN "S_PMULI8I16S_VV_L" ELSE "S_PMULI8I16S_VV_H", rs1, rs2)

\* The two PMUL instructions together give the exact signed product of every
\* lane, the square of the least lane included (MulUnit, CFU.cc:103-122).
ProductsExact ==
  \A i \in 0 .. 3 : Part(Pmul(i), i % 2, 2 * LaneBits) =
                      Part(rs1, i, LaneBits) * Part(rs2, i, LaneBits)

\* The narrowing multiplications lose nothing between them: the high lanes of
\* AMUL.NQ over the low lanes of AMUL.L are the double lanes of PMUL.
AmulSplitsPmul ==
  \A i \in 0 .. 3 :
    LET hi == get_result("S_AMULI8I8S_VV_NQ", rs1, rs2)
        lo == get_result("S_AMULI8I8S_VV_L", rs1, rs2)
    IN  Part(hi, i, LaneBits) * 2^LaneBits + Unsigned(Part(lo, i, LaneBits), LaneBits)
          = Part(Pmul(i), i % 2, 2 * LaneBits)

\* A signed number that left the range of n bits by less than the range comes
\* back into it at the other end.
Wrapped(v, n) ==
  CASE v >= 2^(n - 1)   -> v - 2^n
    [] v < -(2^(n - 1)) -> v + 2^n
    [] OTHER            -> v

\* Addition and subtraction work lane by lane: each lane of the result is the
\* sum or difference of the lanes of the operands, wrapped within the lane; no
\* carry, borrow or sign of one reaches another (AddSubActivationUnit,
\* CFU.cc:55-97).
LanewiseSums ==
  /\ \A i \in 0 .. 3 :
       LET a == Part(rs1, i, LaneBits)
           b == Part(rs2, i, LaneBits)
       IN  /\ Part(get_result("S_ADDI8I8S_VV", rs1, rs2), i, LaneBits) = Wrapped(a + b, LaneBits)
           /\ Part(get_result("S_SUBI8I8S_VV", rs1, rs2), i, LaneBits) = Wrapped(a - b, LaneBits)
  /\ \A i \in 0 .. 1 :
       LET a == Part(rs1, i, 2 * LaneBits)
           b == Part(rs2, i, 2 * LaneBits)
       IN  /\ Part(get_result("S_ADDI16I16S_VV", rs1, rs2), i, 2 * LaneBits) = Wrapped(a + b, 2 * LaneBits)
           /\ Part(get_result("S_SUBI16I16S_VV", rs1, rs2), i, 2 * LaneBits) = Wrapped(a - b, 2 * LaneBits)

=============================================================================
