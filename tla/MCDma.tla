------------------------------- MODULE MCDma -------------------------------
(***************************************************************************)
(* TLC instances of Dma: transfers of a few words against a buffer of      *)
(* eight words (two full bursts, as 256 is 64 of them).                    *)
(***************************************************************************)
EXTENDS Dma

SizeCfg(ss, ds, width, height) ==
  ss * 2^24 + ds * 2^16 + (width - 1) * 2^8 + (height - 1)

\* 3 words (bursts 2 and 1); 8 words (one exact fill); 11 words (two fills, the
\* second of three words); rows of 5 bytes (two words each).
MCTransfers ==
  { [src |-> 0,   dst |-> 200, cfg |-> SizeCfg(4, 4, 4, 3)],
    [src |-> 100, dst |-> 300, cfg |-> SizeCfg(16, 8, 8, 4)],
    [src |-> 0,   dst |-> 300, cfg |-> SizeCfg(44, 44, 44, 1)],
    [src |-> 0,   dst |-> 200, cfg |-> SizeCfg(8, 12, 5, 3)] }

\* As above, with last fills of one, two and four words.
MCSmallTransfers ==
  { [src |-> 0, dst |-> 200, cfg |-> SizeCfg(4, 4, 4, 1)],
    [src |-> 0, dst |-> 200, cfg |-> SizeCfg(4, 4, 2, 2)],
    [src |-> 0, dst |-> 200, cfg |-> SizeCfg(48, 48, 48, 1)] }

MCGarbage == {-1, 5}
=============================================================================
