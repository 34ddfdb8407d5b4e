-------------------------- MODULE MCSystolicSystem --------------------------
(***************************************************************************)
(* SystolicSystem: a product of three by three matrices in rows of four    *)
(* bytes, and then the product of the same matrices the other way round.   *)
(* The array works on whole rows, four by four elements, which the grid of *)
(* three by three (two by two in the code) cuts into incomplete blocks.    *)
(***************************************************************************)
EXTENDS SystolicSystem

N == 3            \* rows and columns of the matrices
Pitch == 4        \* bytes of a row

A_dm == 0
B_dm == N * Pitch

Write(r, d) == [kind |-> "wr", reg |-> r, data |-> d]

\* The register writes of program_systolic_array.s.
Multiply(a, b) ==
  << Write("A_addr_", 0), Write("B_addr_", 16), Write("C_addr_", 32),
     Write("MATA_SIZE", (N - 1) * 65537), Write("MATB_SIZE", (N - 1) * 65537),
     Write("MATC_SIZE", (N - 1) * 65537), Write("STRIDE", Pitch * 65793),
     Write("A_addr_dm_", a), Write("B_addr_dm_", b), Write("C_addr_dm_", 0),
     Write("ENABLE", 1) >>

\* The second product only needs the two addresses; before it, the CPU reads
\* a word of the SRAM.
MCJobs ==
  << Multiply(A_dm, B_dm),
     << [kind |-> "rd", reg |-> "SRAM", data |-> 20],
        Write("A_addr_dm_", B_dm), Write("B_addr_dm_", A_dm), Write("ENABLE", 1) >> >>

\* A value per position, so that elements mixed up do not cancel; large
\* values, so that sums exceed the modulus.  Padding bytes are not zero either.
Dense(d) == [i \in 0 .. N - 1 |-> [j \in 0 .. Pitch - 1 |-> (d + 37 * i + 101 * j * j) % 256]]
Unit(k)  == [i \in 0 .. N - 1 |-> [j \in 0 .. Pitch - 1 |-> IF i * Pitch + j = k THEN 1 ELSE 0]]

Image(A, B) ==
  [a \in 0 .. 2 * N * Pitch - 1 |->
     (IF a < B_dm THEN A ELSE B)[(a % B_dm) \div Pitch][a % Pitch]]

MCImages == {Image(Dense(1), Dense(250)), Image(Dense(250), Unit(6))}

\* A value that takes part in the sums it reaches; an invalid one leaves them alone.
MCGarbage == {[valid |-> TRUE, data |-> 1]}
=============================================================================
