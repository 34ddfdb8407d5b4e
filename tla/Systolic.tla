------------------------------ MODULE Systolic ------------------------------
(***************************************************************************)
(* The compute core of the systolic array (soc/libs/SystolicArray.cc).     *)
(*                                                                         *)
(* ComputeMatrix cuts the product into tile tasks.  For each task,         *)
(* launchNextTile loads the padded operand tiles and ComputeTile schedules *)
(* the events of a grid of processing elements: one per tick, first the    *)
(* weight preloads, then the skewed propagation, then the flushes, and     *)
(* last the event that adds the tile to C and launches the next one.       *)
(***************************************************************************)
EXTENDS Integers, Sequences, FiniteSets

CONSTANTS
  SASIZE,       \* rows and columns of the grid
  MatrixDim,    \* rows and columns of the matrix members (64 in the code)
  Garbage,      \* what may lie in front of a row of the grid: Valid8 records
  Modulus       \* results are kept modulo this (2^16 in the code)

ASSUME SystolicAssumption ==
  /\ SASIZE \in Nat \ {0}
  /\ MatrixDim \in Nat
  /\ Modulus \in Nat \ {0}
  /\ Garbage \subseteq [valid : BOOLEAN, data : 0 .. 255]

VARIABLES
  strideA_, strideB_,    \* rows of A; columns of A and rows and columns of B
  A_matrix, B_matrix, C_matrix,
  tileQ, current_tile, A_Tile, B_Tile, Tile_Result,
  pe, emitRow, Result,   \* the grid and its output, made anew for each tile
  cycle,                 \* events of this tile that have run, NoEvents if none is scheduled
  done_

operands == <<strideA_, strideB_, A_matrix, B_matrix>>
tile     == <<tileQ, current_tile, A_Tile, B_Tile>>
grid     == <<tile, Tile_Result, pe, emitRow, Result, cycle>>
core     == <<operands, C_matrix, grid, done_>>

NoEvents == -1

Idx == 0 .. SASIZE - 1
Grid(F(_, _)) == [i \in Idx |-> [j \in Idx |-> F(i, j)]]

Invalid == [valid |-> FALSE, data |-> 0]
NoSum   == [valid |-> FALSE, sum |-> 0]

\* Construct_PE
IdlePE == [weightReg |-> Invalid, inReg |-> Invalid, fwdIn |-> Invalid,
           psumReg |-> NoSum, fwdPsum |-> NoSum]

-----------------------------------------------------------------------------
(* Tiles.                                                                  *)

MinOf(a, b) == IF a <= b THEN a ELSE b

\* (mutant) A last, incomplete block is left out.
Blocks_Whole(n) == n \div SASIZE

\* How many blocks n rows or columns are cut into.
Blocks(n) == (n + SASIZE - 1) \div SASIZE

\* ComputeMatrix: the tasks in the order of the loops over r, c and k.
TileTasks ==
  LET nc == Blocks(strideB_)
      nk == Blocks(strideB_)
      Task(n) ==
        LET r == (n \div (nc * nk)) * SASIZE
            c == ((n \div nk) % nc) * SASIZE
            k == (n % nk) * SASIZE
        IN  [rowBlk |-> r, colBlk |-> c, kBlk |-> k,
             tileRows |-> MinOf(SASIZE, strideA_ - r),
             tileCols |-> MinOf(SASIZE, strideB_ - c),
             kCols    |-> MinOf(SASIZE, strideB_ - k)]
  IN  [n \in 1 .. Blocks(strideA_) * nc * nk |-> Task(n - 1)]

\* LoadATile, LoadBTile: the block of a matrix, padded with zeros.
LoadATile(A, t) ==
  Grid(LAMBDA i, j : IF i < t.tileRows /\ j < t.kCols THEN A[t.rowBlk + i][t.kBlk + j] ELSE 0)
LoadBTile(B, t) ==
  Grid(LAMBDA i, j : IF i < t.kCols /\ j < t.tileCols THEN B[t.kBlk + i][t.colBlk + j] ELSE 0)

\* launchNextTile: the next task of q on the matrices A and B, or done.
\* ComputeTile takes a new grid and schedules the tile's events.
launchNextTile(q, A, B) ==
  IF q = <<>>
  THEN /\ done_' = TRUE
       /\ cycle' = NoEvents
       /\ UNCHANGED <<tile, Tile_Result, pe, emitRow, Result>>
  ELSE /\ current_tile' = Head(q)
       /\ tileQ' = Tail(q)
       /\ A_Tile' = LoadATile(A, Head(q))
       /\ B_Tile' = LoadBTile(B, Head(q))
       /\ Tile_Result' = Grid(LAMBDA i, j : 0)
       /\ pe' = Grid(LAMBDA i, j : IdlePE)
       /\ emitRow' = [j \in Idx |-> 0]
       /\ Result' = Grid(LAMBDA i, j : 0)
       /\ cycle' = 0
       /\ UNCHANGED done_

-----------------------------------------------------------------------------
(* The events of a tile.                                                   *)

PreloadEnd == SASIZE

\* (mutant) One propagation too few.
PropagateEnd_Short == PreloadEnd + 2 * SASIZE - 2

\* ComputeTile: the events that have run at the end of each phase.
PropagateEnd == PreloadEnd + 2 * SASIZE - 1
FlushEnd     == PropagateEnd + SASIZE

Running == cycle # NoEvents

Preload_Weight ==
  /\ Running /\ cycle < PreloadEnd
  /\ pe' = Grid(LAMBDA i, j :
       [pe[i][j] EXCEPT !.weightReg =
          IF i > 0 THEN pe[i - 1][j].weightReg
          ELSE [valid |-> TRUE, data |-> B_Tile[SASIZE - 1 - cycle][j]]])
  /\ cycle' = cycle + 1
  /\ UNCHANGED <<operands, C_matrix, tile, Tile_Result, emitRow, Result, done_>>

\* The new partial sum of PE (i, j) on input x.
Mac(i, j, x) ==
  LET P    == pe[i][j]
      prev == IF i > 0 /\ pe[i - 1][j].fwdPsum.valid THEN pe[i - 1][j].fwdPsum.sum ELSE 0
  IN  IF P.weightReg.valid /\ x.valid
      THEN [valid |-> TRUE, sum |-> (prev + x.data * P.weightReg.data) % Modulus]
      ELSE [P.psumReg EXCEPT !.valid = FALSE]

\* MAC, forward and emit, common to propagation and flush, on the inputs in.
\* A sum emitted from the bottom row leaves a bubble behind.
MacForwardEmit(in) ==
  LET emits(j) == Mac(SASIZE - 1, j, in[SASIZE - 1][j]).valid /\ emitRow[j] < SASIZE
      psum(i, j) == IF i = SASIZE - 1 /\ emits(j)
                    THEN [Mac(i, j, in[i][j]) EXCEPT !.valid = FALSE]
                    ELSE Mac(i, j, in[i][j])
  IN  /\ pe' = Grid(LAMBDA i, j :
           [weightReg |-> pe[i][j].weightReg, inReg |-> in[i][j], fwdIn |-> in[i][j],
            psumReg |-> psum(i, j), fwdPsum |-> psum(i, j)])
      /\ Result' = Grid(LAMBDA i, j :
           IF emits(j) /\ emitRow[j] = i THEN Mac(SASIZE - 1, j, in[SASIZE - 1][j]).sum
           ELSE Result[i][j])
      /\ emitRow' = [j \in Idx |-> IF emits(j) THEN emitRow[j] + 1 ELSE emitRow[j]]

\* (mutant) All rows are fed at once.
Inject_NoSkew(c, i) ==
  IF c \in Idx THEN [valid |-> TRUE, data |-> A_Tile[c][i]] ELSE Invalid

\* Row i of the grid is fed column i of the A tile, i cycles late.
Inject(c, i) ==
  LET aCol == c - i
  IN  IF aCol \in Idx THEN [valid |-> TRUE, data |-> A_Tile[aCol][i]] ELSE Invalid

PropagateA_And_MAC ==
  /\ Running /\ PreloadEnd <= cycle /\ cycle < PropagateEnd
  /\ MacForwardEmit(Grid(LAMBDA i, j :
       IF j = 0 THEN Inject(cycle - PreloadEnd, i) ELSE pe[i][j - 1].fwdIn))
  /\ cycle' = cycle + 1
  /\ UNCHANGED <<operands, C_matrix, tile, Tile_Result, done_>>

\* The flush shifts every column, the first one too, whose left neighbour
\* pe[i][-1] is whatever lies in front of the row in memory.  The last flush
\* copies the result out.
FlushAndEmit ==
  /\ Running /\ PropagateEnd <= cycle /\ cycle < FlushEnd
  /\ \E g \in [Idx -> Garbage] :
       MacForwardEmit(Grid(LAMBDA i, j : IF j = 0 THEN g[i] ELSE pe[i][j - 1].fwdIn))
  /\ Tile_Result' = IF cycle = FlushEnd - 1 THEN Result' ELSE Tile_Result
  /\ cycle' = cycle + 1
  /\ UNCHANGED <<operands, C_matrix, tile, done_>>

\* The event behind the last flush: add the tile to C, launch the next one.
Deposit ==
  /\ Running /\ cycle = FlushEnd
  /\ C_matrix' = [r \in DOMAIN C_matrix |-> [c \in DOMAIN C_matrix[r] |->
       LET i == r - current_tile.rowBlk
           j == c - current_tile.colBlk
       IN  IF i \in 0 .. current_tile.tileRows - 1 /\ j \in 0 .. current_tile.tileCols - 1
           THEN (C_matrix[r][c] + Tile_Result[i][j]) % Modulus
           ELSE C_matrix[r][c]]]
  /\ launchNextTile(tileQ, A_matrix, B_matrix)
  /\ UNCHANGED operands

\* ComputeMatrix, called on the matrices just loaded.
ComputeMatrix(A, B) == launchNextTile(tileQ \o TileTasks, A, B)

TileEvent == Preload_Weight \/ PropagateA_And_MAC \/ FlushAndEmit \/ Deposit

CoreInit ==
  /\ strideA_ = 0 /\ strideB_ = 0
  /\ A_matrix = <<>> /\ B_matrix = <<>> /\ C_matrix = <<>>
  /\ tileQ = <<>> /\ current_tile = <<>> /\ A_Tile = <<>> /\ B_Tile = <<>>
  /\ Tile_Result = <<>> /\ pe = <<>> /\ emitRow = <<>> /\ Result = <<>>
  /\ cycle = NoEvents
  /\ done_ = FALSE

-----------------------------------------------------------------------------
(* The core by itself, and what it asks of the control around it: the      *)
(* strides and matrices stay as they are from the start of a               *)
(* multiplication until its result is acknowledged.                        *)

Matrix     == [0 .. MatrixDim - 1 -> [0 .. MatrixDim - 1 -> 0 .. 255]]
ZeroMatrix == [r \in 0 .. MatrixDim - 1 |-> [c \in 0 .. MatrixDim - 1 |-> 0]]

\* STRIDE is written.
SetStrides ==
  /\ ~ Running /\ ~ done_
  /\ strideA_' \in 0 .. MatrixDim /\ strideB_' \in 0 .. MatrixDim
  /\ UNCHANGED <<A_matrix, B_matrix, C_matrix, grid, done_>>

\* STATUS is cleared.
Acknowledge == done_' = FALSE /\ UNCHANGED <<operands, C_matrix, grid>>

\* ENABLE is written.
Clear ==
  /\ ~ Running
  /\ A_matrix' = ZeroMatrix /\ B_matrix' = ZeroMatrix /\ C_matrix' = ZeroMatrix
  /\ done_' = FALSE
  /\ UNCHANGED <<strideA_, strideB_, grid>>

\* The operands have arrived, and are loaded and multiplied.
Start ==
  /\ ~ Running /\ ~ done_ /\ C_matrix = ZeroMatrix
  /\ A_matrix' \in Matrix /\ B_matrix' \in Matrix
  /\ ComputeMatrix(A_matrix', B_matrix')
  /\ UNCHANGED <<strideA_, strideB_, C_matrix>>

CoreNext == TileEvent \/ SetStrides \/ Acknowledge \/ Clear \/ Start

CoreSpec == CoreInit /\ [][CoreNext]_core

-----------------------------------------------------------------------------
(* Properties.                                                             *)

\* The sum of F[k] over k in 0 .. n - 1.
SumTo(n, F) ==
  LET sum[k \in 0 .. n] == IF k = 0 THEN 0 ELSE sum[k - 1] + F[k - 1] IN sum[n]

TileProduct(i, j) == SumTo(SASIZE, [k \in Idx |-> A_Tile[i][k] * B_Tile[k][j]]) % Modulus

\* Whatever leaves the bottom row of the grid is a finished element of the
\* tile's product, in its place: the skew of the inputs, the partial sums and
\* the emit counters stay in step, and what the flush reads in front of the
\* first column never reaches a sum that is emitted (SystolicArray.cc:577).
EmittedIsProduct ==
  Running => \A j \in Idx : \A i \in 0 .. emitRow[j] - 1 : Result[i][j] = TileProduct(i, j)

\* The result is complete when it is added to C: the flushes are as many as
\* the slowest column needs.
DepositIsProduct ==
  Running /\ cycle = FlushEnd => Tile_Result = Grid(TileProduct)

Product(r, c) ==
  SumTo(strideB_, [k \in 0 .. strideB_ - 1 |-> A_matrix[r][k] * B_matrix[k][c]]) % Modulus

\* When done_ is raised, C is the product of the operands: the tiles cover
\* every row, column and slice of K once, padding included.
DoneMeansProduct ==
  done_ => \A r \in 0 .. strideA_ - 1, c \in 0 .. strideB_ - 1 :
             C_matrix[r][c] = Product(r, c)

=============================================================================
