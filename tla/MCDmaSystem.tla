---------------------------- MODULE MCDmaSystem ----------------------------
(***************************************************************************)
(* DmaSystem on a memory of 110 bytes, each with a value of its own,       *)
(* and a buffer of eight words.                                            *)
(***************************************************************************)
EXTENDS DmaSystem

SizeCfg(ss, ds, width, height) ==
  ss * 2^24 + ds * 2^16 + (width - 1) * 2^8 + (height - 1)

MCInitMem == [a \in 0 .. MemSize - 1 |-> (a + 1) % 256]

\* The words that can occur: those of the source, and the cleared word.
MCZeroWord == <<0, 0, 0, 0>>
MCWord == {<<a + 1, a + 2, a + 3, a + 4>> : a \in {4 * n : n \in 0 .. 11}} \cup {MCZeroWord}

\* 3 words from padded to dense rows; 11 words (two fills).
MCTransfers ==
  { [src |-> 0, dst |-> 96, cfg |-> SizeCfg(8, 4, 4, 3)],
    [src |-> 0, dst |-> 52, cfg |-> SizeCfg(44, 44, 44, 1)] }

\* These are transfers of which DmaSystemProofs speaks.
ASSUME MCWellPlaced == Transfers = MCTransfers => WellPlaced

\* One transfer of 5-byte rows.
MCPartialTransfers == { [src |-> 0, dst |-> 52, cfg |-> SizeCfg(8, 8, 5, 2)],
                        [src |-> 0, dst |-> 52, cfg |-> SizeCfg(8, 5, 5, 3)] }

=============================================================================
