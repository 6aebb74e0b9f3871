------------------------------ MODULE DataBus -------------------------------
(***************************************************************************)
(* The internal data bus of the execute stage: what fetch_data_ and        *)
(* write_data_ (pilot-cpu/cpu_execute.c) find and change behind each       *)
(* data_bus_specifier, in the registers of Pilot_cpu_regs (cpu_regs.h) and *)
(* the stage's own latches.                                                *)
(*                                                                         *)
(* A register is reached as a byte, a word or a pointer, by name or by     *)
(* three bits of an instruction word.  The specifiers that take their size *)
(* from the machine take it from mucode_decoded_buffer, whichever word     *)
(* runs.  fetch_data_ is called for both operands of a word; write_data_   *)
(* has no caller yet, and WriteBack is the call its control word asks for. *)
(* rm2_offset, repi and repr are assigned by no code and stay 0.           *)
(***************************************************************************)
EXTENDS Instruction, Bits

CONSTANTS
  Instructions,  \* Those handed over: their words and their core_op.
  MucodeWords,   \* The words the microcode ROM presents.
  Results        \* What alu_output_latch may hold.

\* Specifiers beside those that decoding and microcode select.
OtherLocs == {"REG__F", "REG__W", "REG_WF", "REPI", "REPR", "MEM_ADDR",
              "IMM_2", "RM_2"}
BusLocs == Locs \cup {Loc(kind) : kind \in OtherLocs}

\* The part of a control word the bus looks at.
BusWords ==
  [src0 : BusLocs, src1 : BusLocs, dest : BusLocs, size0 : Sizes,
   size1 : Sizes, sign1 : BOOLEAN]
IdleBusWord ==
  [src0 |-> Loc("ZERO"), src1 |-> Loc("ZERO"), dest |-> Loc("ZERO"),
   size0 |-> 0, size1 |-> 0, sign1 |-> FALSE]

ASSUME BusAssumption ==
  /\ Instructions \subseteq [imm : [0 .. 4 -> Words(16)], core : BusWords]
  /\ MucodeWords \subseteq BusWords
  /\ Results \subseteq Words(24)

VARIABLES
  regs, wf, pgc, mem_addr, mem_data, alu_input_latches,
  imm_words, core_op, mucode_decoded_buffer,
  control                 \* Which of the two words runs.

registers == <<regs, wf, pgc>>
memoryLatches == <<mem_addr, mem_data>>
instruction == <<imm_words, core_op>>
vars == <<registers, memoryLatches, alu_input_latches, instruction,
          mucode_decoded_buffer, control>>

Init ==
  /\ regs = [r \in 0 .. 7 |-> {}] /\ wf = {} /\ pgc = {}
  /\ mem_addr = {} /\ mem_data = {} /\ alu_input_latches = << {}, {} >>
  /\ imm_words = [i \in 0 .. 4 |-> {}]
  /\ core_op = IdleBusWord /\ mucode_decoded_buffer = IdleBusWord
  /\ control = "core"

Control == IF control = "core" THEN core_op ELSE mucode_decoded_buffer

-----------------------------------------------------------------------------
\* The bits of a register a named view shows: 8-bit views 4 to 7 are the
\* middle bytes M0 to M3 of registers 0 to 3.
IsView(loc) == loc[1] \in {"REG_L", "REG_W", "REG_P"}
ViewReg(loc) == IF loc[1] = "REG_L" THEN loc[2] % 4 ELSE loc[2]
ViewLow(loc) == IF loc[1] = "REG_L" /\ loc[2] > 3 THEN 8 ELSE 0
ViewWidth(loc) ==
  CASE loc[1] = "REG_L" -> 8 [] loc[1] = "REG_W" -> 16 [] loc[1] = "REG_P" -> 24

ReadView(loc) ==
  Down(regs[ViewReg(loc)], ViewLow(loc)) \cap Below(ViewWidth(loc))

\* Word with its width bits from low on replaced by those of x.
Insert(word, low, width, x) ==
  (word \ (low .. low + width - 1)) \cup Up(x \cap Below(width), low)

\* The number three bits of a word spell.
Bit(word, i) == IF i \in word THEN 1 ELSE 0
Field(word, low) ==
  Bit(word, low) + 2 * Bit(word, low + 1) + 4 * Bit(word, low + 2)

\* Mutant: the high byte is not cut.
ThreeByte_Unmasked(high, word) == Up(high, 16) \cup word

\* READ_IMM_LATCH_ and the three-byte immediates.
ThreeByte(high, word) == Up(high \cap Below(8), 16) \cup word
Immediate(i, size) ==
  IF size = 2 THEN ThreeByte(imm_words[i], imm_words[i + 1]) ELSE imm_words[i]
BufferSize == mucode_decoded_buffer.size0

\* The specifiers that name a register by bits of an instruction word, in
\* the order of write_data_'s cases, and the register each names.
ByField == <<"REG_IMM_0_8", "REG_IMM_1_8", "REG_IMM_1_2", "REG_RM_1_8",
             "REG_RM_1_2">>
FieldReg(kind) ==
  CASE kind \in {"REG_IMM_0_8", "REG_RM_1_8"} -> Field(imm_words[0], 8)
    [] kind = "REG_IMM_1_8"                   -> Field(imm_words[1], 8)
    [] kind = "REG_IMM_1_2"                   -> Field(imm_words[1], 2)
    [] kind = "REG_RM_1_2"                    -> Field(imm_words[0], 2)
IsField(loc) == \E i \in DOMAIN ByField : ByField[i] = loc[1]

\* ACCESS_REG_BITS_.
Banked(r, byte) == IF byte THEN <<"REG_L", r>> ELSE <<"REG_P", r>>

\* The word an index register is taken from; a size of 3 in it is no opcode,
\* and 0 is fetched.
IsIndex(loc) == loc[1] \in {"REG_IMM_2_8", "REG_RM_2_8"}
IndexWord(loc) == imm_words[IF loc[1] = "REG_IMM_2_8" THEN 2 ELSE 1]
InvalidIndex(word) == {14, 15} \subseteq word

\* DATA_SIZE; a byte counts as two on the stack.
SizeOperand ==
  CASE BufferSize = 0 ->
         IF <<"REG_P", 7>> \in {mucode_decoded_buffer.src0,
                                mucode_decoded_buffer.src1} THEN {1} ELSE {0}
    [] BufferSize = 1 -> {1}
    [] BufferSize = 2 -> {2}

FetchLatch(kind) ==
  CASE kind \in {"ZERO", "REPI", "REPR"} -> {}
    [] kind = "SIZE"       -> SizeOperand
    [] kind = "REG_PGC"    -> pgc
    [] kind = "REG__F"     -> wf \cap Below(8)
    [] kind = "REG__W"     -> Down(wf, 8)
    [] kind = "REG_WF"     -> wf
    [] kind = "MEM_ADDR"   -> mem_addr
    [] kind = "MEM_DATA"   -> mem_data
    [] kind \in {"IMM_0", "RM_1"} -> Immediate(0, BufferSize)
    [] kind \in {"IMM_1", "RM_2"} -> Immediate(1, BufferSize)
    [] kind = "IMM_2"      -> Immediate(2, BufferSize)
    [] kind = "IMM_HML"    -> ThreeByte(imm_words[0], imm_words[1])
    [] kind = "IMM_HML_RM" -> ThreeByte(imm_words[2], imm_words[1])
    [] kind = "RM_HML"     -> ThreeByte(imm_words[1], imm_words[0])
    [] kind = "SFI_1"      -> Down(imm_words[0], 2) \cap Below(4)
    [] kind = "SFI_2"      -> Down(imm_words[0], 8) \cap Below(4)

\* fetch_data_: the value it returns.
Fetch(loc) ==
  CASE IsView(loc)  -> ReadView(loc)
    [] IsField(loc) -> ReadView(Banked(FieldReg(loc[1]), BufferSize = 0))
    [] IsIndex(loc) ->
         LET word == IndexWord(loc)
         IN  IF InvalidIndex(word) THEN {}
             ELSE ReadView(Banked(Field(word, 8), word \cap {14, 15} = {}))
    [] OTHER        -> FetchLatch(loc[1])

\* fetch_data_: what it leaves in mucode_decoded_buffer.srcs[1].sign_extend.
SignAfter(loc, sign) ==
  IF IsIndex(loc) /\ ~ InvalidIndex(IndexWord(loc))
    THEN 11 \in IndexWord(loc) ELSE sign

-----------------------------------------------------------------------------
\* Mutant: the middle byte is written where the low one is.
WriteView_LowByte(loc, x) ==
  [regs EXCEPT ![ViewReg(loc)] = Insert(@, 0, ViewWidth(loc), x)]

\* write_data_: a register by name.
WriteView(loc, x) ==
  [regs EXCEPT ![ViewReg(loc)] = Insert(@, ViewLow(loc), ViewWidth(loc), x)]

\* A specifier that names its register by a field has no return: the cases
\* below it write theirs too, all of them the whole register, unmasked,
\* whatever the size.
FieldsFrom(kind) ==
  {FieldReg(ByField[j]) :
     j \in {j \in DOMAIN ByField : \E i \in 1 .. j : ByField[i] = kind}}
WriteFields(kind, x) ==
  [r \in 0 .. 7 |-> IF r \in FieldsFrom(kind) THEN x ELSE regs[r]]

RegsAfter(loc, x) ==
  CASE IsView(loc)  -> WriteView(loc, x)
    [] IsField(loc) -> WriteFields(loc[1], x)
    [] OTHER        -> regs

\* write_data_, flags, counter and memory latches; bit 0 of the counter
\* cannot be set, and mem_data has 16 bits.
WfAfter(kind, x) ==
  CASE kind = "REG__F" -> Insert(wf, 0, 8, x)
    [] kind = "REG__W" -> Insert(wf, 8, 8, x)
    [] kind = "REG_WF" -> x \cap Below(16)
    [] OTHER           -> wf
PgcAfter(kind, x) == IF kind = "REG_PGC" THEN x \cap 1 .. 23 ELSE pgc
MemAddrAfter(kind, x) == IF kind = "MEM_ADDR" THEN x ELSE mem_addr
MemDataAfter(kind, x) ==
  IF kind = "MEM_DATA" THEN x \cap Below(16) ELSE mem_data

-----------------------------------------------------------------------------
\* The sequencer latches an instruction and presents core_op, or presents a
\* word of microcode, or core_op after it.
LatchInst ==
  /\ \E inst \in Instructions :
       imm_words' = inst.imm /\ core_op' = inst.core
  /\ control' = "core"
  /\ UNCHANGED <<registers, memoryLatches, alu_input_latches,
                 mucode_decoded_buffer>>

PresentMucode ==
  /\ mucode_decoded_buffer' \in MucodeWords
  /\ control' = "buffer"
  /\ UNCHANGED <<registers, memoryLatches, alu_input_latches, instruction>>

PresentCore ==
  /\ control' = "core"
  /\ UNCHANGED <<registers, memoryLatches, alu_input_latches, instruction,
                 mucode_decoded_buffer>>

\* The operand latch of pilot_execute_half1.
OperandLatch ==
  /\ alu_input_latches' = <<Fetch(Control.src0), Fetch(Control.src1)>>
  /\ mucode_decoded_buffer' =
       [mucode_decoded_buffer EXCEPT
          !.sign1 = SignAfter(Control.src1, SignAfter(Control.src0, @))]
  /\ UNCHANGED <<registers, memoryLatches, instruction, control>>

\* write_data_(state, control->dest, &x).
WriteBack(x) ==
  /\ regs' = RegsAfter(Control.dest, x)
  /\ wf' = WfAfter(Control.dest[1], x)
  /\ pgc' = PgcAfter(Control.dest[1], x)
  /\ mem_addr' = MemAddrAfter(Control.dest[1], x)
  /\ mem_data' = MemDataAfter(Control.dest[1], x)
  /\ UNCHANGED <<alu_input_latches, instruction, mucode_decoded_buffer, control>>

Next ==
  \/ LatchInst \/ PresentMucode \/ PresentCore \/ OperandLatch
  \/ \E x \in Results : WriteBack(x)

Spec == Init /\ [][Next]_vars

-----------------------------------------------------------------------------
\* Registers and address latch have 24 bits, status and data 16, the counter
\* is even and both operands have 24 bits; although write_data_ masks neither
\* what it stores by a field nor in mem_addr, and fetch_data_ puts words
\* together.
DataBusTypeOK ==
  /\ regs \in [0 .. 7 -> Words(24)]
  /\ wf \in Words(16) /\ pgc \in SUBSET (1 .. 23)
  /\ mem_addr \in Words(24) /\ mem_data \in Words(16)
  /\ alu_input_latches \in Words(24) \X Words(24)
  /\ imm_words \in [0 .. 4 -> Words(16)]
  /\ core_op \in BusWords /\ mucode_decoded_buffer \in BusWords
  /\ control \in {"core", "buffer"}

\* The width of what a destination holds, by the size of its word.
DestWidth(loc) ==
  CASE IsView(loc) -> ViewWidth(loc)
    [] IsField(loc) -> IF BufferSize = 0 THEN 8 ELSE 24
    [] loc[1] \in {"REG__F", "REG__W"} -> 8
    [] loc[1] \in {"REG_WF", "MEM_DATA"} -> 16
    [] OTHER -> 24

\* The destinations that hold what they are given; the others are ignored,
\* the counter drops a bit, and a byte register of 4 to 7 named by a field
\* is read from the middle bytes M0 to M3 and written to the whole of
\* registers 4 to 7.
Holds(loc) ==
  \/ IsView(loc)
  \/ IsField(loc) /\ (BufferSize = 0 => FieldReg(loc[1]) < 4)
  \/ loc[1] \in {"REG__F", "REG__W", "REG_WF", "MEM_ADDR", "MEM_DATA"}

ReadsBack ==
  \A x \in Results : WriteBack(x) /\ Holds(Control.dest) =>
    Fetch(Control.dest)' = x \cap Below(DestWidth(Control.dest))

\* What was written to such a destination is what the same specifier reads
\* next: the masks and shifts of the two switches belong together.
WrittenIsReadBack == [][ReadsBack]_vars
=============================================================================
