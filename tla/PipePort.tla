------------------------------ MODULE PipePort ------------------------------
(***************************************************************************)
(* How a component of the SoC sends packets: a queue of its own, and the   *)
(* one-packet pipe register of the crossbar behind it.  The register is    *)
(* ACALSim's SimPipeRegister: a push to a register that still holds a      *)
(* packet is refused, and the crossbar empties the register when it        *)
(* forwards the packet.                                                    *)
(***************************************************************************)
EXTENDS Naturals, Sequences

\* A sending port: a queue in the controller and the one-packet pipe
\* register behind it.  A register that holds a packet is stalled.
EmptyPort == [reg |-> <<>>, q |-> <<>>]

\* `if (!m->isStalled() && m->push(pkt)) {} else Q.push(pkt)'
PushOrQueue(port, pkt) ==
  IF port.reg = <<>> THEN [reg |-> <<pkt>>,  q |-> port.q]
                     ELSE [reg |-> port.reg, q |-> Append(port.q, pkt)]

\* The same for the packets of a non-empty sequence, one after the other: the
\* first may find the register free, the others are queued.
PushAll(port, pkts) ==
  IF port.reg = <<>> THEN [reg |-> <<Head(pkts)>>, q |-> port.q \o Tail(pkts)]
                     ELSE [reg |-> port.reg,       q |-> port.q \o pkts]

\* `Q.push(pkt)' whatever the state of the register.
Enqueue(port, pkt) == [reg |-> port.reg, q |-> Append(port.q, pkt)]

\* The crossbar forwards the packet in the register.
Forward(port) == [reg |-> <<>>, q |-> port.q]

\* (mutant) A push that does not look whether the register is free.
trySendPacket_Overrun(port) ==
  IF port.q # <<>>
  THEN [reg |-> Append(port.reg, Head(port.q)), q |-> Tail(port.q)]
  ELSE port

\* One half of trySendPacket: move the front of the queue if the register is free.
trySendPacket(port) ==
  IF port.q # <<>> /\ port.reg = <<>>
  THEN [reg |-> <<Head(port.q)>>, q |-> Tail(port.q)]
  ELSE port

=============================================================================
