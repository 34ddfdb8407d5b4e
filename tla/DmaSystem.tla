----------------------------- MODULE DmaSystem -----------------------------
(***************************************************************************)
(* The DMA controller at work on the data memory: Dma with its open memory *)
(* side replaced by DataMemory.  The crossbar carries packets between the  *)
(* pipe registers and the slave ports, one at a time and in order.         *)
(***************************************************************************)
EXTENDS Dma, DataMemory

VARIABLE gold     \* what the bytes would be had every started transfer been copied

sysvars == <<vars, memvars, gold>>

\* The bytes a transfer covers: row r, byte b of the row.
Rows(t)  == 0 .. Decode(t.cfg).true_height - 1
Bytes(t) == 0 .. Decode(t.cfg).true_width - 1
SrcByte(t, r, b) == t.src + r * Decode(t.cfg).Source_stride + b
DstByte(t, r, b) == t.dst + r * Decode(t.cfg).Dest_stride + b
Target(t) == {DstByte(t, r, b) : r \in Rows(t), b \in Bytes(t)}

\* What src/README.md says a transfer does: row by row, byte by byte.
CopyOf(m, t) ==
  [a \in DOMAIN m |->
     IF a \in Target(t)
     THEN LET rb == CHOOSE x \in Rows(t) \X Bytes(t) : DstByte(t, x[1], x[2]) = a
          IN  m[SrcByte(t, rb[1], rb[2])]
     ELSE m[a]]

SysDriver ==
  \/ DriverStart /\ gold' = CopyOf(gold, drv'.job) /\ UNCHANGED memvars
  \/ (DriverWrite \/ DriverPoll \/ DriverReceive) /\ UNCHANGED <<memvars, gold>>

SysController == Controller /\ UNCHANGED <<memvars, gold>>

\* The burst in the request register reaches the memory's slave port.
MemAccept == BusAccept /\ MemPop(req.reg[1]) /\ UNCHANGED gold

\* The response in the memory's register reaches the controller's slave port.
\* The controller uses the operand echoed by the memory as the buffer index.
Deliver ==
  /\ mresp.reg # <<>>
  /\ mresp' = Forward(mresp)
  /\ outstanding' = {p \in outstanding : p.tid # mresp.reg[1].tid}
  /\ UNCHANGED <<mem, pending_, beatEvents, stepped, gold>>

DeliverRead ==
  /\ Deliver
  /\ LET r == mresp.reg[1]
     IN  StepReadResponse(r, [k \in 1 .. Len(r.beats) |-> r.beats[k].data])

DeliverWrite == Deliver /\ StepWriteResponse(mresp.reg[1])

SysMemory == MemInternal /\ UNCHANGED <<vars, gold>>

SysInit == Init /\ MemInit /\ gold = InitMem

SysNext == SysDriver \/ SysController \/ MemAccept \/ DeliverRead \/ DeliverWrite \/ SysMemory

SysSpec == SysInit /\ [][SysNext]_sysvars

-----------------------------------------------------------------------------
(* What a program has to see to for its transfers to be copies: rows of    *)
(* whole words, inside the memory; no transfer writes where one reads; and *)
(* no byte is the target of two.                                           *)

Source(t) == {SrcByte(t, r, b) : r \in Rows(t), b \in Bytes(t)}

SourceWord(t, r, b) == <<InitMem[SrcByte(t, r, b)],     InitMem[SrcByte(t, r, b) + 1],
                         InitMem[SrcByte(t, r, b) + 2], InitMem[SrcByte(t, r, b) + 3]>>

WellPlaced ==
  \A t \in Transfers :
    /\ Decode(t.cfg).true_width % 4 = 0
    /\ Source(t) \cup Target(t) \subseteq 0 .. MemSize - 1
    /\ \A r \in Rows(t), b \in Bytes(t) : b % 4 = 0 => SourceWord(t, r, b) \in Word
    /\ \A u \in Transfers : Source(t) \cap Target(u) = {}
    /\ \A u \in Transfers \ {t} : Target(t) \cap Target(u) = {}
    /\ \A r, q \in Rows(t), b, c \in Bytes(t) :
         DstByte(t, r, b) = DstByte(t, q, c) => r = q /\ b = c

-----------------------------------------------------------------------------
\* All requests of the controller have been carried out and answered.
Quiet == InFlight = {} /\ events = <<>>

\* Once a driver has seen DONE and the last responses have come in, memory is
\* what copying the transfers one after the other would have made it, in
\* every byte: each word of the source arrived at its place, exactly the
\* right number of words was copied, and nothing else was written.
CopiedWhenQuiet == SawDone /\ Quiet => mem = gold

\* Every write beat in flight carries the word that its destination is to
\* receive.
WritesCarrySource ==
  \A p \in Writes : \A k \in 1 .. Len(p.beats) :
    \A i \in 1 .. 4 : p.beats[k].data[i] = gold[p.beats[k].addr + i - 1]

\* The controller together with this memory is an instance of the controller
\* with an arbitrary memory system: what is shown of Dma holds here.  (The
\* responses echo the buffer indices of the requests, every response answers
\* one accepted burst, and the driver is the same.)
ImplementsDma == Spec

\* src/README.md:127: "Supports partial-word transfers (SB, SH) for
\* non-4-byte-aligned widths"; so once all is quiet every byte of every row
\* holds its source byte.
RowsCopied == SawDone /\ Quiet => \A a \in Target(drv.job) : mem[a] = gold[a]

=============================================================================
