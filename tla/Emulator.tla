------------------------------ MODULE Emulator ------------------------------
(***************************************************************************)
(* The SoC as it is started: the assembler (soc/libs/Emulator.cc) fills    *)
(* the CPU's instruction memory and the data memory from a source file     *)
(* (SOC::postSimInitSetup, soc/include/SOC.hh), and the CPU runs.          *)
(*                                                                         *)
(* A source is a sequence of lines [label, tok, o]: at most one label, a   *)
(* directive or mnemonic ("" when the label stands alone) and operands,    *)
(* which are cut into tokens but not yet looked at: a register, a number,  *)
(* a name, or number(register).  A mnemonic is the instr_type it names.    *)
(* Comments, the copies of the source text made by append_source, and the  *)
(* limits on the lengths of lines and names are left out.                  *)
(***************************************************************************)
EXTENDS Cpu

CONSTANTS
  Sources,          \* the source files
  text_offset, data_offset,   \* where the sections start
  max_label_count   \* labels the table holds

ASSUME EmulatorAssumption ==
  /\ text_offset \in Nat /\ data_offset \in Nat
  /\ text_offset % 4 = 0 /\ data_offset % 4 = 0
  /\ max_label_count \in Nat

VARIABLES
  src,      \* the source file
  status    \* "run", or "exit" when the assembler has given up

socVars == <<vars, src, status>>

LowBits == 12     \* bits of the immediate of ADDI, below those of LUI

-----------------------------------------------------------------------------
(* Operands.                                                               *)

R(n)      == [k |-> "reg", v |-> n, r |-> 0]
Num(v)    == [k |-> "num", v |-> v, r |-> 0]
Name(l)   == [k |-> "name", v |-> l, r |-> 0]
At(v, n)  == [k |-> "mem", v |-> v, r |-> n]

\* strtol: the number a token begins with, 0 where it begins with none.
strtol(o) == IF o.k \in {"num", "mem"} THEN o.v ELSE 0

\* parse_reg lets one register too many pass.
parse_reg(n) == n \in 0 .. NRegs

\* parse_imm: numbers are accepted signed or unsigned; the caller refuses a
\* token that does not begin with one.
parse_imm(v, bits) == -(2^(bits - 1)) <= v /\ v <= 2^bits - 1

signextend(x, bits) ==
  IF (x \div 2^(bits - 1)) % 2 = 1 THEN 2^Width - 2^bits + (x % 2^bits) ELSE x

\* The token o can stand where `what' is expected; a label may be anything, and
\* so may the constant of li, which is read with strtol alone.
Parses(what, o) ==
  CASE what = "reg"   -> o.k = "reg" /\ parse_reg(o.v)
    [] what = "imm12" -> o.k \in {"num", "mem"} /\ parse_imm(strtol(o), 12)
    [] what = "imm20" -> o.k \in {"num", "mem"} /\ parse_imm(strtol(o), 20)
    [] what = "mem"   -> o.k = "mem" /\ parse_imm(o.v, 12) /\ parse_reg(o.r)
    [] what = "word"  -> parse_imm(strtol(o), Width)
    [] what = "label" -> TRUE

-----------------------------------------------------------------------------
(* Instructions.                                                           *)

\* An entry of imem; `from' names the operand that is still a label.
Entry(op, a1, a2, a3, from, label) ==
  [op |-> op, a1 |-> a1, a2 |-> a2, a3 |-> a3, from |-> from, label |-> label]
Plain(op, a1, a2, a3) == Entry(op, a1, a2, a3, "", "")

\* The instr_type of a mnemonic.
parse_mnemonic(tok) ==
  IF tok \in RegOps \cup ImmOps \cup Branches \cup Loads \cup Stores \cup CfuOps
             \cup {"JAL", "JALR", "LUI", "AUIPC", "HCF"}
  THEN tok ELSE "UNIMPL"

\* The operands an instruction takes; HCF and unknown ones take any.
Format(op, o) ==
  CASE op \in RegOps \cup CfuOps            -> <<"reg", "reg", "reg">>
    [] op \in ImmOps                        -> <<"reg", "reg", "imm12">>
    [] op \in Branches                      -> <<"reg", "reg", "label">>
    [] op \in Loads \cup Stores \cup {"JALR"} -> <<"reg", "mem">>
    [] op \in {"LUI", "AUIPC"}              -> <<"reg", "imm20">>
    [] op = "JAL" /\ Len(o) >= 2            -> <<"reg", "label">>
    [] op = "JAL"                           -> <<"label">>
    [] op \in {"li", "la", "mv", "bnez", "beqz"} ->
         <<"reg", CASE op = "li" -> "word" [] op = "mv" -> "reg" [] OTHER -> "label">>
    [] op = "ret"                           -> <<>>
    [] op = "j"                             -> <<"label">>

Accepts(op, o) ==
  \/ op \in {"HCF", "UNIMPL"}
  \/ LET f == Format(op, o)
     IN  Len(o) = Len(f) /\ \A k \in DOMAIN f : Parses(f[k], o[k])

\* parse_instr
parse_instr(op, o) ==
  CASE op \in RegOps \cup CfuOps -> Plain(op, o[1].v, o[2].v, o[3].v)
    [] op \in ImmOps   -> Plain(op, o[1].v, o[2].v, signextend(Unsigned(strtol(o[3]), Width), 12))
    [] op \in Branches -> Entry(op, o[1].v, o[2].v, 0, "a3", o[3].v)
    [] op \in Loads \cup Stores \cup {"JALR"} ->
         Plain(op, o[1].v, o[2].r, Unsigned(o[2].v, Width))
    [] op \in {"LUI", "AUIPC"} -> Plain(op, o[1].v, Unsigned(strtol(o[2]), Width), 0)
    [] op = "JAL" /\ Len(o) = 2 -> Entry(op, o[1].v, 0, 0, "a2", o[2].v)
    [] op = "JAL"      -> Entry(op, 1, 0, 0, "a2", o[1].v)
    [] OTHER           -> Plain(op, 0, 0, 0)

Pseudo == {"li", "la", "ret", "j", "mv", "bnez", "beqz"}

\* (mutant) The lower part is sign-extended, as the immediate of an ADDI is.
LowPart_Extended(x) == signextend(x % 2^LowBits, LowBits)

\* What a pair of LUI and ADDI adds to the upper part.
LowPart(x) == x % 2^LowBits

parse_pseudoinstructions(tok, o) ==
  LET hv == Unsigned(strtol(o[2]), Width)
  IN  CASE tok = "li"   -> << Plain("LUI", o[1].v, hv \div 2^LowBits, 0),
                              Plain("ADDI", o[1].v, o[1].v, LowPart(hv)) >>
        [] tok = "la"   -> << Entry("LUI", o[1].v, 0, 0, "a2", o[2].v),
                              Entry("ADDI", o[1].v, o[1].v, 0, "a3", o[2].v) >>
        [] tok = "ret"  -> << Plain("JALR", 0, 1, 0) >>
        [] tok = "j"    -> << Entry("JAL", 0, 0, 0, "a2", o[1].v) >>
        [] tok = "mv"   -> << Plain("ADDI", o[1].v, o[2].v, 0) >>
        [] tok = "bnez" -> << Entry("BNE", o[1].v, 0, 0, "a3", o[2].v) >>
        [] tok = "beqz" -> << Entry("BEQ", o[1].v, 0, 0, "a3", o[2].v) >>

-----------------------------------------------------------------------------
(* Lines.  The assembler's state s is [memoff, imem, mem, labels, ok];     *)
(* imem and mem hold what was written to them.                             *)

\* f with g written over it.
Over(f, g) == [x \in DOMAIN f \cup DOMAIN g |-> IF x \in DOMAIN g THEN g[x] ELSE f[x]]

Fail(s) == [s EXCEPT !.ok = FALSE]

Size == [x \in {".byte", ".half", ".word"} |->
           CASE x = ".byte" -> 1 [] x = ".half" -> 2 [] x = ".word" -> 4]

\* A value may not be too large for its size; it may be too small.
parse_data_element(s, size, o) ==
  LET bits == size * LaneBits
      at   == {s.memoff + size * (k - 1) : k \in DOMAIN o}
      Value(a) == strtol(o[(a - s.memoff) \div size + 1])
  IN  IF \E k \in DOMAIN o : strtol(o[k]) \div 2^bits > 0 THEN Fail(s)
      ELSE [s EXCEPT !.mem = Over(@, [a \in at |-> Unsigned(Value(a), bits)]),
                     !.memoff = @ + size * Len(o)]

Sections == {".text", ".data"}

parse_assembler_directive(s, tok, o) ==
  CASE tok = ".text" /\ o # <<>> -> Fail(s)
    [] tok = ".text"             -> [s EXCEPT !.memoff = text_offset]
    [] tok = ".data"             -> [s EXCEPT !.memoff = data_offset]
    [] tok \in DOMAIN Size       -> parse_data_element(s, Size[tok], o)
    [] OTHER                     -> Fail(s)

\* The entries es of line n, and their filling in the data memory.
Assemble(s, n, es) ==
  LET first == s.memoff \div 4
      line(e) == [op |-> e.op, a1 |-> e.a1, a2 |-> e.a2, a3 |-> e.a3, from |-> e.from,
                  label |-> e.label, orig_line |-> n]
      fill  == {s.memoff + 4 * (k - 1) : k \in DOMAIN es}
  IN  [s EXCEPT !.imem = Over(@, [i \in first .. first + Len(es) - 1 |-> line(es[i - first + 1])]),
                !.mem = Over(@, [a \in fill |-> (12 * (2^Width - 1)) \div 15]),    \* 0xcccccccc
                !.memoff = @ + 4 * Len(es)]

\* A directive or an instruction; the place of its first word is looked at.
Statement(s, n, tok, o) ==
  CASE tok = ""                             -> s
    [] tok \in Sections \cup DOMAIN Size    -> parse_assembler_directive(s, tok, o)
    [] s.memoff + 4 > data_offset           -> Fail(s)
    [] tok \in Pseudo                       ->
         IF Accepts(tok, o) THEN Assemble(s, n, parse_pseudoinstructions(tok, o)) ELSE Fail(s)
    [] OTHER                                ->
         LET op == parse_mnemonic(tok)
         IN  IF Accepts(op, o) THEN Assemble(s, n, <<parse_instr(op, o)>>) ELSE Fail(s)

ParseLine(s, n, line) ==
  CASE ~ s.ok                             -> s
    [] line.label = <<>>                  -> Statement(s, n, line.tok, line.o)
    [] Len(s.labels) >= max_label_count   -> Fail(s)
    [] OTHER -> Statement([s EXCEPT !.labels = Append(@, [label |-> line.label[1], loc |-> s.memoff])],
                          n, line.tok, line.o)

parse(f) ==
  LET after[n \in 0 .. Len(f)] ==
        IF n = 0
        THEN [memoff |-> 0, imem |-> <<>>, mem |-> <<>>, labels |-> <<>>, ok |-> TRUE]
        ELSE LET s == after[n - 1] IN ParseLine(s, n, f[n])
  IN  after[Len(f)]

-----------------------------------------------------------------------------
(* Labels.                                                                 *)

Defined(label, labels) == \E k \in DOMAIN labels : labels[k].label = label

\* The first label of that name.
label_addr(label, labels) ==
  LET k == CHOOSE k \in DOMAIN labels :
             /\ labels[k].label = label
             /\ \A j \in 1 .. k - 1 : labels[j].label # label
  IN  labels[k].loc

Distance(a, b) == IF a < b THEN b - a ELSE a - b

\* (mutant) The distance from the instruction, as in its binary form.
JumpTarget_Relative(addr, i) == Unsigned(addr - 4 * i, Width)

\* The operand of a branch or a JAL at index i of imem, which the CPU takes
\* for its next pc.
JumpTarget(addr, i) == addr

\* Entry e, at index i of imem, with its label replaced.
Normalized(e, i, labels) ==
  LET addr == label_addr(e.label, labels)
      a2   == CASE e.from # "a2" -> e.a2
                [] e.op = "LUI"  -> addr \div 2^LowBits
                [] OTHER         -> JumpTarget(addr, i)
      a3   == CASE e.from # "a3" -> e.a3
                [] e.op = "ADDI" -> LowPart(addr)
                [] OTHER         -> JumpTarget(addr, i)
  IN  [op |-> e.op, a1 |-> e.a1, a2 |-> a2, a3 |-> a3, orig_line |-> e.orig_line]

Resolves(e, i, labels) ==
  e.from # "" => /\ Defined(e.label, labels)
                 /\ e.op \in Branches => Distance(4 * i, label_addr(e.label, labels)) < 2^13

Indices(f) == IF DOMAIN f = {} THEN {} ELSE 0 .. CHOOSE i \in DOMAIN f : \A j \in DOMAIN f : j <= i

\* normalize_labels: the program, with UNIMPL where nothing was written.
normalize_labels(s) ==
  LET ok == s.ok /\ \A i \in DOMAIN s.imem : Resolves(s.imem[i], i, s.labels)
  IN  [ok   |-> ok,
       imem |-> IF ~ ok THEN <<>>
                ELSE [k \in 1 .. Cardinality(Indices(s.imem)) |->
                        IF k - 1 \in DOMAIN s.imem THEN Normalized(s.imem[k - 1], k - 1, s.labels)
                        ELSE UNIMPL],
       mem  |-> [a \in Addr |-> IF a \in DOMAIN s.mem THEN s.mem[a] ELSE 0]]

Loaded == [f \in Sources |-> normalize_labels(parse(f))]

-----------------------------------------------------------------------------
\* The distance of a JAL is computed from a3.imm, which nothing has set: the
\* assembler may give up on any program that has one.
MayGiveUp(f) == \E k \in DOMAIN Loaded[f].imem : Loaded[f].imem[k].op = "JAL"

postSimInitSetup ==
  /\ src \in Sources
  /\ imem = Loaded[src].imem
  /\ mem = Loaded[src].mem
  /\ \/ status = "run" /\ Loaded[src].ok
     \/ status = "exit" /\ (Loaded[src].ok => MayGiveUp(src))

SocInit == postSimInitSetup /\ Init

Runs(A) == status = "run" /\ A /\ UNCHANGED <<src, status>>

SocNext == Runs(Next)

SocSpec == SocInit /\ [][SocNext]_socVars

\* Scheduled events run, packets are delivered and the memory answers.
SocFairSpec ==
  /\ SocSpec
  /\ WF_socVars(Runs(Execute)) /\ WF_socVars(Runs(masterPortRetry)) /\ WF_socVars(Runs(CFURespHandler))
  /\ WF_socVars(Runs(memReadXBarRespHandler \/ memWriteXBarRespHandler))
  /\ WF_socVars(Runs(packet_handler)) /\ WF_socVars(Runs(BusAccept)) /\ WF_socVars(Runs(MemServe))

-----------------------------------------------------------------------------
(* What the assembler yields.                                              *)

Regs == 0 .. NRegs - 1

Mnemonics ==
  RegOps \cup ImmOps \cup Branches \cup Loads \cup Stores \cup CfuOps
    \cup {"JAL", "JALR", "LUI", "AUIPC", "HCF", "UNIMPL"}

\* An instruction whose registers exist and whose numbers are not negative.
Instr ==
  {i \in [op : Mnemonics, a1 : Nat, a2 : Nat, a3 : Nat, orig_line : Int] :
     /\ i.op \in RegOps \cup CfuOps => i.a2 \in Regs /\ i.a3 \in Regs
     /\ i.op \in ImmOps \cup Loads \cup {"JALR"} => i.a2 \in Regs
     /\ i.op \in Stores => i.a1 \in Regs /\ i.a2 \in Regs}

\* What CpuProofs assumes of the sources.  The assembler makes such instructions
\* of every source it accepts that does not name the register parse_reg lets
\* pass, and numbers that are not negative of the data.
WellFormed ==
  \A f \in Sources : Loaded[f].imem \in Seq(Instr) /\ Loaded[f].mem \in [Addr -> Nat]

-----------------------------------------------------------------------------
(* Properties.                                                             *)

\* Every terminating program that was assembled comes to its HCF unless a
\* store is refused: no response or retry is lost that the CPU waits for, and
\* no label sends it elsewhere.
Finishes == status = "run" => <>((Stopped /\ AtHcf) \/ StoreRefused)

LineAt(p) == src[fetchInstr(p).orig_line]

\* The instruction at p is the last one of its line.
EndsLine(p) == p \div 4 + 1 = Len(imem) \/ fetchInstr(p + 4).orig_line # fetchInstr(p).orig_line

LabelLine(label) == CHOOSE n \in DOMAIN src : src[n].label = <<label>>

\* Where the data behind line n begins: the elements in front of it, from the
\* last .data on.
DataAddress(n) ==
  LET at[m \in 1 .. n] ==
        CASE src[m].tok = ".data" -> data_offset
          [] src[m].tok \in DOMAIN Size /\ m < n -> at[m - 1] + Size[src[m].tok] * Len(src[m].o)
          [] OTHER -> at[m - 1]
  IN  at[n]

\* li and la give their register the whole constant, or the address of the
\* data behind the label: the assembler's split into LUI and ADDI and the way
\* the CPU puts the parts together agree, also where the lower part has its
\* sign bit set (Emulator.cc:360, CPU.cc:79).
LoadsConstant ==
  [][LET line == LineAt(pc)
     IN  pc' # pc /\ current.op = "ADDI" /\ line.tok \in {"li", "la"} /\ EndsLine(pc) =>
           rf'[line.o[1].v] = IF line.tok = "li" THEN Unsigned(strtol(line.o[2]), Width)
                              ELSE DataAddress(LabelLine(line.o[2].v))]_<<pc, rf>>

\* The first line from n on that is an instruction.
InstructionFrom(n) ==
  CHOOSE m \in n .. Len(src) :
    /\ src[m].tok \notin {""} \cup Sections \cup DOMAIN Size
    /\ \A k \in n .. m - 1 : src[k].tok \in {""} \cup Sections \cup DOMAIN Size

JumpLabel(line) ==
  CASE line.tok \in Branches                -> <<line.o[3].v>>
    [] line.tok \in {"j", "JAL"}            -> <<line.o[Len(line.o)].v>>
    [] line.tok \in {"bnez", "beqz"}        -> <<line.o[2].v>>
    [] OTHER                                -> <<>>

\* A jump or a taken branch goes to the first instruction of the line that
\* follows its label in the source, wherever the label stands, in front of
\* the jump or behind it, with instructions of one or two words in between
\* (Emulator.cc:553, :659).
JumpsLandOnLabels ==
  [][LET label == JumpLabel(LineAt(pc))
     IN  pc' # pc /\ current.orig_line > 0 /\ label # <<>> /\ (pc' # pc + 4 \/ LineAt(pc).tok \in {"j", "JAL"}) =>
           /\ fetchInstr(pc').orig_line = InstructionFrom(LabelLine(label[1]))
           /\ pc' = 0 \/ EndsLine(pc' - 4)]_<<pc, rf>>

=============================================================================
