----------------------------- MODULE MCPipeline -----------------------------
(***************************************************************************)
(* Pipeline on four short streams, with a memory that takes two ticks.     *)
(***************************************************************************)
EXTENDS Pipeline

Op(op, a1, a2, a3, pc, t) ==
  [op |-> op, a1 |-> a1, a2 |-> a2, a3 |-> a3, pc |-> pc, isTakenBranch |-> t]

HCF(pc) == Op("HCF", 0, 0, 0, pc, FALSE)

\* A load, an instruction that uses it and a store that uses both.
LoadUse ==
  << Op("LW", 1, 0, 0, 0, FALSE), Op("ADD", 2, 1, 1, 4, FALSE), Op("SW", 2, 1, 0, 8, FALSE),
     HCF(12) >>

\* The same load in a loop that runs three times.
Pass(t) == << Op("LW", 1, 0, 0, 0, FALSE), Op("BNE", 1, 0, 0, 4, t) >>
Loop    == Pass(TRUE) \o Pass(TRUE) \o Pass(FALSE) \o << HCF(8) >>

\* A jump to a store and a load.
Jump ==
  << Op("ADDI", 1, 0, 0, 0, FALSE), Op("JAL", 2, 12, 0, 4, TRUE), Op("SW", 1, 2, 0, 12, FALSE),
     Op("LW", 1, 2, 0, 16, FALSE), HCF(20) >>

\* Dependences at every distance, over taken jumps, without memory accesses.
Chain ==
  << Op("ADDI", 1, 0, 0, 0, FALSE), Op("ADD", 2, 1, 1, 4, FALSE), Op("JALR", 3, 2, 0, 8, TRUE),
     Op("BNE", 3, 1, 0, 20, TRUE), Op("ADDI", 1, 1, 0, 4, FALSE), Op("ADDI", 4, 0, 0, 8, FALSE),
     Op("SLT", 2, 1, 1, 12, FALSE), HCF(16) >>

MCStreams == {LoadUse, Loop, Jump, Chain}

=============================================================================
