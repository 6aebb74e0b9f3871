-------------------------- MODULE DecodeInstProofs --------------------------
(***************************************************************************)
(* What decoding returns, for every opcode and every instruction left in   *)
(* work_regs: a decoded instruction.                                       *)
(***************************************************************************)
EXTENDS DecodeInst, TLAPS

\* Opcodes are the numbers of 16 bits.
LEMMA OpcodeRange == \A op \in Opcode : op \in Nat /\ op < 65536
<1>. DEFINE top == 65535
<1>1. top \in Nat /\ Opcode = 0 .. top
  BY DEF Opcode
<1>2. top < 65536
  BY SMT
<1>. HIDE DEF top
<1>3. \A op \in Opcode : op \in Nat /\ op <= top
  BY <1>1
<1>. QED BY <1>1, <1>2, <1>3, SMT

\* The kinds of an operand that is not in a register bank.
LEMMA SimpleLocs == \A kind \in LocKinds : Loc(kind) \in Locs
BY DEF Loc, Locs

\* The register field of a specifier has three bits.
LEMMA RegFieldRange ==
  ASSUME NEW rm \in Nat PROVE RegField(rm) \in 0 .. 7
BY DEF RegField

\* Every addressing mode of decode_rm_specifier gives a location.
LEMMA SourceLocationType ==
  ASSUME NEW rm \in Nat, NEW ops, NEW size, NEW old \in Locs
  PROVE  SourceLocation(rm, ops, size, old) \in Locs
<1>1. \A kind \in {"SFI_1", "SFI_2", "IMM_1", "RM_1", "MEM_DATA"} :
        Loc(kind) \in Locs
  BY SimpleLocs DEF LocKinds
<1>2. <<IF size = 0 THEN "REG_L" ELSE "REG_P", RegField(rm)>> \in Locs
  BY RegFieldRange DEF Locs, LocKinds
<1>. QED BY <1>1, <1>2 DEF SourceLocation, MemData

\* Programming an operand leaves a microcode specification.
LEMMA ProgramOperandType ==
  ASSUME NEW spec \in Specs, NEW rm \in Nat
  PROVE  ProgramOperand(spec, rm) \in Specs
<1>1. EntryIdx(rm, spec.idx) \in MucodeIdx
  BY DEF EntryIdx, Specs, MucodeIdx
<1>2. RegSelect(rm, spec.sel) \in 0 .. 31
  <2>1. RegField(rm) \in 0 .. 31
    BY RegFieldRange
  <2>2. spec.sel \in 0 .. 31
    BY DEF Specs
  <2>3. RegSelect(rm, spec.sel) \in {0, 8, RegField(rm), spec.sel}
    BY Zenon DEF RegSelect
  <2>. QED BY <2>1, <2>2, <2>3
<1>3. EntrySize(rm, spec.size) \in Sizes
  BY DEF EntrySize, Specs, Sizes
<1>. QED BY <1>1, <1>2, <1>3 DEF ProgramOperand, Specs

\* Marking an operand as the second one leaves a specification.
LEMMA MarkSecondType ==
  ASSUME NEW spec \in Specs PROVE MarkSecond(spec) \in Specs
BY DEF MarkSecond, Specs

\* An operand leaves core_op a control word.
LEMMA OperandCoreType ==
  ASSUME NEW word \in ControlWords, NEW rm \in Nat, NEW is_dest \in BOOLEAN,
         NEW src_is_left \in BOOLEAN, NEW ops, NEW size
  PROVE  OperandCore(word, rm, is_dest, src_is_left, ops, size)
           \in ControlWords
<1>. DEFINE loc0 == SourceLocation(rm, ops, size, word.src0)
            loc1 == SourceLocation(rm, ops, size, word.src1)
<1>1. word.src0 \in Locs /\ word.src1 \in Locs
  BY DEF ControlWords
<1>2. loc0 \in Locs /\ loc1 \in Locs
  BY <1>1, SourceLocationType
<1>3. MemData \in Locs
  BY SimpleLocs DEF MemData, LocKinds
<1>. HIDE DEF loc0, loc1
<1>4. OperandCore(word, rm, is_dest, src_is_left, ops, size) \in
        {[word EXCEPT !.src0 = loc0, !.dest = MemData,
                      !.latch = "HALF2_MAR", !.write = "FROM_DEST"],
         [word EXCEPT !.src0 = loc0], [word EXCEPT !.src1 = loc1], word}
  BY DEF OperandCore, loc0, loc1
<1>. QED BY <1>2, <1>3, <1>4 DEF ControlWords, LatchCtls, WriteCtls

\* The specification run_mucode designates stays one.
LEMMA OperandSpecType ==
  ASSUME NEW spec \in Specs, NEW rm \in Nat, NEW is_dest \in BOOLEAN, NEW ops
  PROVE  OperandSpec(spec, rm, is_dest, ops) \in Specs
<1>. DEFINE programmed == ProgramOperand(spec, rm)
            new == [programmed EXCEPT !.wr = is_dest]
<1>1. programmed \in Specs
  BY ProgramOperandType
<1>. HIDE DEF programmed
<1>2. new \in Specs
  BY <1>1 DEF Specs
<1>. HIDE DEF new
<1>3. MarkSecond(new) \in Specs
  BY <1>2, MarkSecondType
<1>4. OperandSpec(spec, rm, is_dest, ops)
        = IF ops = 2 THEN MarkSecond(new) ELSE new
  BY DEF OperandSpec, new, programmed
<1>. QED BY <1>2, <1>3, <1>4

\* Assigning one part of an instruction leaves an instruction.
LEMMA InstUpdate ==
  ASSUME NEW inst \in Insts
  PROVE  /\ inst.before \in Specs /\ inst.after \in Specs
         /\ inst.core \in ControlWords
         /\ \A spec \in Specs : [inst EXCEPT !.before = spec] \in Insts
         /\ \A spec \in Specs : [inst EXCEPT !.after = spec] \in Insts
         /\ \A word \in ControlWords : [inst EXCEPT !.core = word] \in Insts
         /\ \A op \in Opcode : [inst EXCEPT !.word0 = op] \in Insts
<1>1. /\ inst.before \in Specs /\ inst.after \in Specs
      /\ inst.core \in ControlWords
  BY DEF Insts
<1>2. ASSUME NEW spec \in Specs PROVE [inst EXCEPT !.before = spec] \in Insts
  BY DEF Insts
<1>3. ASSUME NEW spec \in Specs PROVE [inst EXCEPT !.after = spec] \in Insts
  BY DEF Insts
<1>4. ASSUME NEW word \in ControlWords
      PROVE  [inst EXCEPT !.core = word] \in Insts
  BY DEF Insts
<1>5. ASSUME NEW op \in Opcode PROVE [inst EXCEPT !.word0 = op] \in Insts
  BY DEF Insts
<1>. QED BY <1>1, <1>2, <1>3, <1>4, <1>5

\* An operand changes work_regs into another decoded instruction, whether
\* or not run_mucode was ever assigned.
LEMMA DecodeOperandType ==
  ASSUME NEW inst \in Insts, NEW rm \in Nat, NEW is_dest \in BOOLEAN,
         NEW src_is_left \in BOOLEAN, NEW ops, NEW size
  PROVE  DecodeOperand(inst, rm, is_dest, src_is_left, ops, size)
           \subseteq Insts
<1>. DEFINE word == OperandCore(inst.core, rm, is_dest, src_is_left, ops, size)
            sourced == [inst EXCEPT !.core = word]
            Update(spec) == OperandSpec(spec, rm, is_dest, ops)
<1>1. word \in ControlWords
  BY InstUpdate, OperandCoreType
<1>2. DecodeOperand(inst, rm, is_dest, src_is_left, ops, size) \subseteq
        {sourced, [sourced EXCEPT !.after = Update(sourced.after)],
         [sourced EXCEPT !.before = Update(sourced.before)],
         [sourced EXCEPT !.before = MarkSecond(sourced.before)],
         [sourced EXCEPT !.after = MarkSecond(sourced.after)]}
  BY ZenonT(60) DEF DecodeOperand
<1>. HIDE DEF word
<1>3. sourced \in Insts
  BY <1>1, InstUpdate
<1>. HIDE DEF sourced
<1>4. sourced.before \in Specs /\ sourced.after \in Specs
  BY <1>3, InstUpdate
<1>5. /\ Update(sourced.before) \in Specs /\ Update(sourced.after) \in Specs
      /\ MarkSecond(sourced.before) \in Specs
      /\ MarkSecond(sourced.after) \in Specs
  BY <1>4, OperandSpecType, MarkSecondType
<1>. HIDE DEF Update
<1>6. /\ [sourced EXCEPT !.after = Update(sourced.after)] \in Insts
      /\ [sourced EXCEPT !.before = Update(sourced.before)] \in Insts
      /\ [sourced EXCEPT !.before = MarkSecond(sourced.before)] \in Insts
      /\ [sourced EXCEPT !.after = MarkSecond(sourced.after)] \in Insts
  BY <1>3, <1>5, InstUpdate
<1>. QED BY <1>2, <1>3, <1>6

\* decode_rm_specifier leaves a decoding in progress.
LEMMA DecodeRMType ==
  ASSUME NEW d \in Decodings, NEW rm \in Nat, NEW is_dest \in BOOLEAN,
         NEW src_is_left \in BOOLEAN, NEW size
  PROVE  DecodeRM(d, rm, is_dest, src_is_left, size) \subseteq Decodings
<1>1. DecodeOperand(d.inst, rm, is_dest, src_is_left, d.rm_ops + 1, size)
        \subseteq Insts
  BY DecodeOperandType DEF Decodings
<1>2. ExtraReads(rm) \in Nat
  BY DEF ExtraReads
<1>3. /\ d.rm_ops + 1 \in Nat /\ d.reads + ExtraReads(rm) \in Nat
  BY <1>2 DEF Decodings
<1>. QED BY <1>1, <1>3 DEF DecodeRM, Decodings

\* Assigning a control word to core_op leaves a decoding in progress.
LEMMA SetCoreType ==
  ASSUME NEW d \in Decodings, NEW word \in ControlWords
  PROVE  SetCore(d, word) \in Decodings
<1>1. [d.inst EXCEPT !.core = word] \in Insts
  BY InstUpdate DEF Decodings
<1>. QED BY <1>1 DEF SetCore, Decodings

\* Assigning to fields of core_op leaves a control word.
LEMMA WordUpdate ==
  ASSUME NEW word \in ControlWords
  PROVE  /\ \A op \in AluOps : [word EXCEPT !.op = op] \in ControlWords
         /\ \A loc \in Locs : [word EXCEPT !.src0 = loc] \in ControlWords
         /\ \A loc, loc2 \in Locs :
              [word EXCEPT !.src1 = loc, !.dest = loc2] \in ControlWords
         /\ \A op \in AluOps, loc \in Locs :
              [word EXCEPT !.src0 = loc, !.op = op] \in ControlWords
         /\ \A op \in AluOps, loc, loc2 \in Locs :
              [word EXCEPT !.src0 = loc, !.op = op, !.dest = loc2]
                \in ControlWords
         /\ \A op \in AluOps, loc, loc2, loc3 \in Locs :
              [word EXCEPT !.src0 = loc, !.op = op, !.dest = loc2,
                           !.src1 = loc3] \in ControlWords
         /\ word.dest \in Locs
<1>1. ASSUME NEW op \in AluOps
      PROVE  [word EXCEPT !.op = op] \in ControlWords
  BY DEF ControlWords
<1>2. ASSUME NEW loc \in Locs
      PROVE  [word EXCEPT !.src0 = loc] \in ControlWords
  BY DEF ControlWords
<1>3. ASSUME NEW loc \in Locs, NEW loc2 \in Locs
      PROVE  [word EXCEPT !.src1 = loc, !.dest = loc2] \in ControlWords
  BY DEF ControlWords
<1>4. ASSUME NEW op \in AluOps, NEW loc \in Locs
      PROVE  [word EXCEPT !.src0 = loc, !.op = op] \in ControlWords
  BY DEF ControlWords
<1>5. ASSUME NEW op \in AluOps, NEW loc \in Locs, NEW loc2 \in Locs
      PROVE  [word EXCEPT !.src0 = loc, !.op = op, !.dest = loc2]
               \in ControlWords
  BY DEF ControlWords
<1>6. ASSUME NEW op \in AluOps, NEW loc \in Locs, NEW loc2 \in Locs,
             NEW loc3 \in Locs
      PROVE  [word EXCEPT !.src0 = loc, !.op = op, !.dest = loc2,
                          !.src1 = loc3] \in ControlWords
  BY DEF ControlWords
<1>7. word.dest \in Locs
  BY DEF ControlWords
<1>. QED BY <1>1, <1>2, <1>3, <1>4, <1>5, <1>6, <1>7

\* The fields of an opcode are in range: the operation of an arithmetic
\* instruction is always one of the ALU's.
LEMMA OpcodeFields ==
  ASSUME NEW opcode \in Opcode
  PROVE  /\ SrcRM(opcode) \in Nat /\ DestRM(opcode) \in Nat
         /\ ArithOp(Operation(opcode) % 8) \in AluOps
         /\ ArithOp(ImmOperation(opcode)) \in AluOps
<1>1. opcode \in Nat
  BY OpcodeRange
<1>2. SrcRM(opcode) \in Nat /\ DestRM(opcode) \in Nat
  BY <1>1 DEF SrcRM, DestRM
<1>3. Operation(opcode) \in Nat
  BY <1>1 DEF Operation
<1>4. ImmOperation(opcode) \in 0 .. 7
  BY <1>1 DEF ImmOperation
<1>5. Operation(opcode) % 8 \in 0 .. 7
  BY <1>3
<1>6. ASSUME NEW n \in 0 .. 7 PROVE ArithOp(n) \in AluOps
  <2>1. n \in {0, 1, 2, 3, 4, 5, 6, 7}
    OBVIOUS
  <2>. QED BY <2>1 DEF ArithOp, AluOps
<1>. QED BY <1>2, <1>4, <1>5, <1>6

\* The fields every decoding starts from.
LEMMA StartType ==
  ASSUME NEW inst \in Insts, NEW opcode \in Opcode
  PROVE  [inst |-> [inst EXCEPT !.word0 = opcode], rm_ops |-> 0,
          reads |-> 0] \in Decodings
<1>1. [inst EXCEPT !.word0 = opcode] \in Insts
  BY InstUpdate
<1>. QED BY <1>1 DEF Decodings

\* The locations the groups assign.
LEMMA SomeLocs ==
  /\ Loc("ZERO") \in Locs /\ Loc("REG_IMM_0_8") \in Locs
  /\ Loc("IMM_HML") \in Locs /\ Loc("IMM_0") \in Locs
  /\ Loc("IMM_1") \in Locs
BY SimpleLocs DEF LocKinds

\* decode_inst_ld_other_ leaves a decoding in progress.
LEMMA LdOtherType ==
  ASSUME NEW d \in Decodings, NEW opcode PROVE LdOther(d, opcode) \in Decodings
<1>. DEFINE loc == Loc(IF (opcode \div 2048) % 2 = 0 THEN "IMM_HML" ELSE "IMM_0")
            word == [d.inst.core EXCEPT
                       !.src0 = Loc("ZERO"), !.op = "OR",
                       !.dest = Loc("REG_IMM_0_8"), !.src1 = loc]
<1>1. loc \in Locs
  BY SomeLocs
<1>. HIDE DEF loc
<1>2. d.inst.core \in ControlWords
  BY InstUpdate DEF Decodings
<1>3. "OR" \in AluOps
  BY DEF AluOps
<1>4. word \in ControlWords
  BY <1>1, <1>2, <1>3, SomeLocs, WordUpdate
<1>. HIDE DEF word
<1>5. LdOther(d, opcode) = SetCore(d, word)
  BY DEF LdOther, word, loc
<1>. QED BY <1>4, <1>5, SetCoreType

\* decode_inst_arithlogic_, register form.
LEMMA ArithRegisterType ==
  ASSUME NEW d \in Decodings, NEW opcode \in Opcode
  PROVE  ArithRegister(d, opcode) \subseteq Decodings
<1>. DEFINE op == ArithOp(Operation(opcode) % 8)
            start == SetCore(d, [d.inst.core EXCEPT !.op = op])
            rm == SrcRM(opcode)
            size == Size(opcode)
            After(r) == SetCore(r, [r.inst.core EXCEPT
                                      !.src0 = Loc("REG_IMM_0_8")])
<1>1. op \in AluOps /\ rm \in Nat
  BY OpcodeFields
<1>. HIDE DEF op
<1>2. start \in Decodings
  BY <1>1, InstUpdate, WordUpdate, SetCoreType DEF Decodings
<1>. HIDE DEF start, rm, size
<1>3. DecodeRM(start, rm, FALSE, FALSE, size) \subseteq Decodings
  BY <1>1, <1>2, DecodeRMType
<1>4. ASSUME NEW r \in Decodings PROVE After(r) \in Decodings
  BY InstUpdate, WordUpdate, SomeLocs, SetCoreType DEF Decodings
<1>. HIDE DEF After
<1>5. ArithRegister(d, opcode)
        = {After(r) : r \in DecodeRM(start, rm, FALSE, FALSE, size)}
  BY DEF ArithRegister, After, start, op, rm, size
<1>. QED BY <1>3, <1>4, <1>5

\* decode_inst_arithlogic_, immediate form.
LEMMA ArithImmediateType ==
  ASSUME NEW d \in Decodings, NEW opcode \in Opcode
  PROVE  ArithImmediate(d, opcode) \subseteq Decodings
<1>. DEFINE op == ArithOp(ImmOperation(opcode))
            start == SetCore(d, [d.inst.core EXCEPT !.op = op])
            rm == SrcRM(opcode)
            size == Size(opcode)
            compare == ImmOperation(opcode) = 7
            After(r) ==
              SetCore(r, [r.inst.core EXCEPT
                !.src1 = Loc("IMM_1"),
                !.dest = IF compare THEN Loc("ZERO") ELSE @])
<1>1. op \in AluOps /\ rm \in Nat
  BY OpcodeFields
<1>. HIDE DEF op
<1>3. start \in Decodings
  <2>1. [d.inst.core EXCEPT !.op = op] \in ControlWords
    BY <1>1, InstUpdate, WordUpdate DEF Decodings
  <2>. QED BY <2>1, SetCoreType
<1>. HIDE DEF start, rm, size, compare
<1>4. DecodeRM(start, rm, TRUE, TRUE, size) \subseteq Decodings
  BY <1>1, <1>3, DecodeRMType
<1>5. ASSUME NEW r \in Decodings PROVE After(r) \in Decodings
  <2>1. r.inst.core \in ControlWords
    BY InstUpdate DEF Decodings
  <2>2. (IF compare THEN Loc("ZERO") ELSE r.inst.core.dest) \in Locs
    BY <2>1, WordUpdate, SomeLocs
  <2>3. [r.inst.core EXCEPT
           !.src1 = Loc("IMM_1"),
           !.dest = IF compare THEN Loc("ZERO") ELSE @] \in ControlWords
    BY <2>1, <2>2, WordUpdate, SomeLocs
  <2>. QED BY <2>3, SetCoreType
<1>. HIDE DEF After
<1>6. ArithImmediate(d, opcode)
        = {After(r) : r \in DecodeRM(start, rm, TRUE, TRUE, size)}
  BY DEF ArithImmediate, After, start, op, rm, size, compare
<1>. QED BY <1>4, <1>5, <1>6

\* decode_inst_ld_group_, one RM operand and a register.
LEMMA LdOneRMType ==
  ASSUME NEW d \in Decodings, NEW opcode \in Opcode
  PROVE  LdOneRM(d, opcode) \subseteq Decodings
<1>. DEFINE word == [d.inst.core EXCEPT
                       !.src0 = Loc("ZERO"), !.op = "OR",
                       !.dest = Loc("REG_IMM_0_8")]
            start == SetCore(d, word)
            rm == SrcRM(opcode)
            size == Size(opcode)
            lea == opcode \div 2048 = 19
            dummy == IF lea
                       THEN DecodeRM(start, 0, TRUE, FALSE, size) ELSE {start}
<1>1. rm \in Nat /\ "OR" \in AluOps
  BY OpcodeFields DEF AluOps
<1>2. word \in ControlWords
  BY <1>1, InstUpdate, WordUpdate, SomeLocs DEF Decodings
<1>. HIDE DEF word
<1>3. start \in Decodings
  BY <1>2, SetCoreType
<1>. HIDE DEF start, rm, size, lea
<1>4. dummy \subseteq Decodings
  <2>1. DecodeRM(start, 0, TRUE, FALSE, size) \subseteq Decodings
    BY <1>3, DecodeRMType
  <2>. QED BY <1>3, <2>1
<1>. HIDE DEF dummy
<1>5. ASSUME NEW r \in Decodings
      PROVE  DecodeRM(r, rm, FALSE, FALSE, size) \subseteq Decodings
  BY <1>1, DecodeRMType
<1>6. LdOneRM(d, opcode)
        = UNION {DecodeRM(r, rm, FALSE, FALSE, size) : r \in dummy}
  BY DEF LdOneRM, dummy, lea, start, word, rm, size
<1>. QED BY <1>4, <1>5, <1>6

\* decode_inst_ld_group_, two RM operands.
LEMMA LdTwoRMType ==
  ASSUME NEW d \in Decodings, NEW opcode \in Opcode
  PROVE  LdTwoRM(d, opcode) \subseteq Decodings
<1>. DEFINE word == [d.inst.core EXCEPT !.src0 = Loc("ZERO"), !.op = "OR"]
            start == SetCore(d, word)
            src == SrcRM(opcode)
            dest == DestRM(opcode)
            size == Size(opcode)
<1>1. src \in Nat /\ dest \in Nat /\ "OR" \in AluOps
  BY OpcodeFields DEF AluOps
<1>2. word \in ControlWords
  BY <1>1, InstUpdate, WordUpdate, SomeLocs DEF Decodings
<1>. HIDE DEF word
<1>3. start \in Decodings
  BY <1>2, SetCoreType
<1>. HIDE DEF start, src, dest, size
<1>4. DecodeRM(start, src, FALSE, FALSE, size) \subseteq Decodings
  BY <1>1, <1>3, DecodeRMType
<1>5. ASSUME NEW r \in Decodings
      PROVE  DecodeRM(r, dest, TRUE, FALSE, size) \subseteq Decodings
  BY <1>1, DecodeRMType
<1>6. LdTwoRM(d, opcode)
        = UNION {DecodeRM(r, dest, TRUE, FALSE, size) :
                   r \in DecodeRM(start, src, FALSE, FALSE, size)}
  BY DEF LdTwoRM, start, word, src, dest, size
<1>. QED BY <1>4, <1>5, <1>6

\* decode_inst_'s tests leave no opcode without a group, and no opcode of
\* the branch, bit and placeholder groups in two.
LEMMA GroupsCover ==
  ASSUME NEW opcode \in Opcode
  PROVE  \/ IsLdOther(opcode) \/ IsArithLogic(opcode) \/ IsLdGroup(opcode)
         \/ IsBranch(opcode) \/ IsBit(opcode) \/ IsOther(opcode)
<1>1. opcode \in Nat /\ opcode < 65536
  BY OpcodeRange
<1>. QED BY <1>1, SMT DEF IsLdOther, IsArithLogic, IsLdGroup, IsBranch, IsBit,
                          IsOther

\* decode_inst_ turns every 16-bit word into a decoded instruction, whatever
\* work_regs held before: it has no opcode without a group, no operation
\* the ALU lacks and no operand outside the data bus specifiers.
THEOREM DecodeOpcodeType ==
  ASSUME NEW inst \in Insts, NEW opcode \in Opcode
  PROVE  DecodeOpcode(inst, opcode) \subseteq Decodings
<1>. DEFINE d == [inst |-> [inst EXCEPT !.word0 = opcode], rm_ops |-> 0,
                  reads |-> 0]
<1>1. d \in Decodings
  BY StartType
<1>. HIDE DEF d
<1>2. /\ {LdOther(d, opcode)} \subseteq Decodings
      /\ ArithImmediate(d, opcode) \subseteq Decodings
      /\ ArithRegister(d, opcode) \subseteq Decodings
      /\ LdOneRM(d, opcode) \subseteq Decodings
      /\ LdTwoRM(d, opcode) \subseteq Decodings
  BY <1>1, LdOtherType, ArithImmediateType, ArithRegisterType, LdOneRMType,
     LdTwoRMType
<1>3. LdGroup(d, opcode) \subseteq Decodings
  BY <1>2 DEF LdGroup
<1>4. ImmForm(opcode) => IsArithLogic(opcode)
  BY DEF ImmForm
<1>5. DecodeOpcode(inst, opcode)
        = CASE IsLdOther(opcode)    -> {LdOther(d, opcode)}
            [] ImmForm(opcode)      -> ArithImmediate(d, opcode)
            [] IsArithLogic(opcode) /\ ~ ImmForm(opcode) ->
                 ArithRegister(d, opcode)
            [] IsLdGroup(opcode)    -> LdGroup(d, opcode)
            [] IsBranch(opcode) \/ IsBit(opcode) \/ IsOther(opcode) -> {d}
  BY DEF DecodeOpcode, d
<1>. QED BY <1>1, <1>2, <1>3, <1>5, GroupsCover
=============================================================================
