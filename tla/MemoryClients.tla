--------------------------- MODULE MemoryClients ---------------------------
(***************************************************************************)
(* DataMemory under load: bus masters with overlapping bursts.             *)
(*                                                                         *)
(* Some clients own a region of four words that they alone write, always   *)
(* as one four-beat burst with a new version number in every byte.  Some   *)
(* read any region, with bursts of one, two or four words.  Clients        *)
(* do not wait for responses before they issue the next burst, as the DMA  *)
(* controller's writes and the CPU's stores do not.                        *)
(***************************************************************************)
EXTENDS DataMemory

CONSTANTS
  Clients,       \* callers of the memory
  Writers,       \* those that own a region
  Readers,       \* those that read
  Base,          \* Base[c]: address of the region of writer c
  ReadShapes,    \* <<first word, words>> of the read bursts
  MaxBursts      \* bound: bursts per client

ASSUME ClientsAssumption ==
  /\ MaxBursts \in Nat
  /\ Writers \subseteq Clients /\ Readers \subseteq Clients /\ Base \in [Writers -> Nat]
  /\ \A s \in ReadShapes : s[1] \in Nat /\ s[2] \in {1, 2, 4} /\ s[1] + s[2] <= 4

\* The regions lie in the memory, do not overlap, and start as version 0.
ASSUME RegionsAssumption ==
  /\ \A c \in Writers : Base[c] + 16 <= MemSize
  /\ \A c, d \in Writers : c # d => Base[c] + 16 <= Base[d] \/ Base[d] + 16 <= Base[c]
  /\ \A c \in Writers : \A j \in 1 .. 4 : InitMem[Base[c] + 4 * (j - 1)] = 0

VARIABLES
  slot,       \* the request pipe register of each client
  issued,     \* bursts issued by each client
  version,    \* last version written by each client
  acked,      \* last version whose write each client has seen answered
  meta,       \* tid -> pop position, length, and the acked versions at the pop
  answers,    \* tids in the order their responses entered respQ_
  received,   \* tids whose response its client has taken
  sends,      \* tid -> ticks until its trySendResponse event
  retry       \* the crossbar owes a masterPortRetry

clientvars == <<slot, issued, version, acked, meta, answers>>
sendvars == <<received, sends, retry>>
vars == <<memvars, clientvars, sendvars>>

Tid(c, n) == <<c, n>>

IssueWrite(c) ==
  /\ slot[c] = <<>> /\ issued[c] < MaxBursts
  /\ issued' = [issued EXCEPT ![c] = @ + 1]
  /\ version' = [version EXCEPT ![c] = @ + 1]
  /\ LET v == version[c] + 1
     IN  slot' = [slot EXCEPT ![c] = <<
           [tid |-> Tid(c, issued[c]), kind |-> "wr", caller |-> c,
            beats |-> [i \in 1 .. 4 |-> [op |-> "SW", addr |-> Base[c] + 4 * (i - 1),
                                         data |-> <<v, v, v, v>>]]]>>]
  /\ UNCHANGED <<acked, meta, answers, memvars, sendvars>>

IssueRead(c) ==
  /\ slot[c] = <<>> /\ issued[c] < MaxBursts
  /\ issued' = [issued EXCEPT ![c] = @ + 1]
  /\ \E d \in Writers, s \in ReadShapes :
       slot' = [slot EXCEPT ![c] = <<
         [tid |-> Tid(c, issued[c]), kind |-> "rd", caller |-> c,
          beats |-> [i \in 1 .. s[2] |-> [op |-> "LW", addr |-> Base[d] + 4 * (s[1] + i - 1),
                                          imm |-> d]]]>>]
  /\ UNCHANGED <<version, acked, meta, answers, memvars, sendvars>>

\* (mutant) The length of the burst is forgotten.
SendDue_NoBurst(pkt) == Latency + 1

\* step(): `expect to get the response at', two ticks behind the last beat
SendDue(pkt) == Latency + Len(pkt.beats) + 1

\* The crossbar hands the burst to the memory's slave port.  step() schedules
\* one trySendResponse for it.
Accept(c) ==
  /\ slot[c] # <<>>
  /\ MemPop(slot[c][1])
  /\ slot' = [slot EXCEPT ![c] = <<>>]
  /\ LET t == slot[c][1].tid
     IN  /\ meta' = [u \in DOMAIN meta \cup {t} |->
                       IF u = t THEN [pos |-> Cardinality(DOMAIN meta),
                                      len |-> Len(slot[c][1].beats), acked |-> acked]
                       ELSE meta[u]]
         /\ sends' = [u \in DOMAIN sends \cup {t} |->
                        IF u = t THEN SendDue(slot[c][1]) ELSE sends[u]]
  /\ UNCHANGED <<issued, version, acked, answers, received, retry>>

\* A client takes its response from the memory's pipe register.  The crossbar
\* will tell the memory that the register is free, if a response waits for it.
Receive ==
  /\ mresp.reg # <<>>
  /\ mresp' = Forward(mresp)
  /\ LET r == mresp.reg[1]
     IN  /\ acked' = IF r.kind = "wr" THEN [acked EXCEPT ![r.caller] = @ + 1] ELSE acked
         /\ received' = received \cup {r.tid}
  /\ retry' = (retry \/ mresp.q # <<>>)
  /\ UNCHANGED <<mem, pending_, beatEvents, stepped, slot, issued, version, meta, answers, sends>>

\* A beat, with the response it may complete logged.
Beat ==
  /\ memReadReqHandler \/ memWriteReqHandler
  /\ answers' = IF Len(mresp'.q) > Len(mresp.q)
                THEN Append(answers, mresp'.q[Len(mresp'.q)].tid) ELSE answers
  /\ UNCHANGED <<slot, issued, version, acked, meta, sendvars>>

\* A call of trySendResponse: it does nothing unless a response waits and the
\* register is free.
Send ==
  \/ trySendResponse
  \/ trySendPacket(mresp) = mresp /\ UNCHANGED memvars

\* The trySendResponse event of a burst.
SendEvent ==
  /\ \E t \in DOMAIN sends :
       sends[t] = 0 /\ sends' = [u \in DOMAIN sends \ {t} |-> sends[u]]
  /\ Send
  /\ UNCHANGED <<clientvars, received, retry>>

\* (mutant) The callback leaves the response to other events.
masterPortRetry_Idle ==
  /\ retry
  /\ retry' = FALSE
  /\ UNCHANGED <<memvars, clientvars, received, sends>>

\* The callback of the crossbar, some time after the register became free.
masterPortRetry ==
  /\ retry
  /\ retry' = FALSE
  /\ Send
  /\ UNCHANGED <<clientvars, received, sends>>

\* The clock, which also waits for these events.
Clock ==
  /\ \A t \in DOMAIN sends : sends[t] > 0
  /\ \/ Tick
     \/ ~ stepped /\ beatEvents = {} /\ DOMAIN sends # {} /\ UNCHANGED memvars
  /\ sends' = [t \in DOMAIN sends |-> sends[t] - 1]
  /\ UNCHANGED <<clientvars, received, retry>>

Init ==
  /\ MemInit
  /\ slot = [c \in Clients |-> <<>>]
  /\ issued = [c \in Clients |-> 0]
  /\ version = [c \in Writers |-> 0]
  /\ acked = [c \in Writers |-> 0]
  /\ meta = [t \in {} |-> 0]
  /\ answers = <<>>
  /\ received = {} /\ sends = [t \in {} |-> 0] /\ retry = FALSE

Next ==
  \/ \E c \in Writers : IssueWrite(c)
  \/ \E c \in Readers : IssueRead(c)
  \/ \E c \in Clients : Accept(c)
  \/ Receive
  \/ Beat
  \/ SendEvent
  \/ masterPortRetry
  \/ Clock
  \/ trySendResponse /\ UNCHANGED <<clientvars, sendvars>>

Spec == Init /\ [][Next]_vars

\* Scheduled events run and time passes, the crossbar forwards requests and
\* responses, and it calls back.  A step() that finds no packet may send a
\* response, but nothing is assumed of it.
FairSpec ==
  /\ Spec
  /\ WF_vars(Beat) /\ WF_vars(SendEvent) /\ WF_vars(Clock)
  /\ WF_vars(Receive) /\ WF_vars(masterPortRetry)
  /\ \A c \in Clients : WF_vars(Accept(c))

-----------------------------------------------------------------------------
Answered == {answers[i] : i \in 1 .. Len(answers)}

\* Responses enter respQ_, and so leave the memory, in pop order, except that
\* a strictly shorter burst may overtake a longer one popped before it (the
\* beats of a burst run one tick apart, DataMemory.hh:88).  A master that counts
\* responses, as DMAController::handleWriteCompletion does, relies on no more.
OnlyShorterOvertakes ==
  \A i \in 1 .. Len(answers) :
    \A t \in DOMAIN meta \ {answers[j] : j \in 1 .. i} :
      meta[t].pos < meta[answers[i]].pos => meta[answers[i]].len < meta[t].len

\* A load returns no version older than the last one whose write response its
\* owner had received when the load was popped, and none that was not issued:
\* a write response is only sent when every beat of the write is in memory.
AcknowledgedWritesVisible ==
  \A r \in {mresp.q[i] : i \in 1 .. Len(mresp.q)} \cup {mresp.reg[i] : i \in 1 .. Len(mresp.reg)} :
    r.kind = "rd" =>
      \A k \in 1 .. Len(r.beats) :
        LET owner == r.beats[k].imm
            v     == r.beats[k].data[1]
        IN  meta[r.tid].acked[owner] <= v /\ v <= version[owner]

\* A response that could be sent is never left to chance: while the register
\* is free and responses wait, the crossbar owes a masterPortRetry or a
\* trySendResponse event is still scheduled (DataMemory.hh:110,
\* DataMemory.cc:123): no event runs before the response it was scheduled for
\* is there, and none that found the register taken was the last hope.
WaitingIsServed ==
  mresp.q # <<>> /\ mresp.reg = <<>> => retry \/ DOMAIN sends # {}

\* The client of every burst that was popped receives its response.  One that
\* finds the register taken waits in respQ_ (DataMemory.cc:123), and its own
\* trySendResponse event may have sent another one or none: the events of the
\* other bursts and masterPortRetry must bring it out.
EveryBurstAnswered ==
  \A c \in Clients : \A n \in 0 .. MaxBursts - 1 :
    (Tid(c, n) \in DOMAIN meta) ~> (Tid(c, n) \in received)

=============================================================================
