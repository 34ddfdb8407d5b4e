-------------------------- MODULE MCMemoryClients --------------------------
(* Two masters, one of which writes a region of four words that both read: *)
(* its last word alone, or all of it.                                      *)
EXTENDS MemoryClients

MCBase == [c \in Writers |-> 0]
MCReadShapes == {<<3, 1>>, <<0, 4>>}
MCInitMem == [a \in 0 .. MemSize - 1 |-> 0]
=============================================================================
