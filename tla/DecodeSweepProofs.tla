------------------------- MODULE DecodeSweepProofs --------------------------
(***************************************************************************)
(* Which operands an instruction reads from memory, stores and writes      *)
(* back, proved from the masks of decode_rm_specifier and the K-map of     *)
(* rm_requires_mem_fetch_ for every opcode.                                *)
(***************************************************************************)
EXTENDS DecodeSweep, DecodeInstProofs

-----------------------------------------------------------------------------
(***************************************************************************)
(* Specifiers.                                                             *)
(***************************************************************************)

\* The fields of a six-bit specifier.
LEMMA SpecifierFields ==
  ASSUME NEW rm \in RM
  PROVE  /\ HighBit(rm) \in {0, 1} /\ LowBits(rm) \in {0, 1, 2, 3}
         /\ RegField(rm) \in {0, 1, 2, 3, 4, 5, 6, 7}
         /\ rm % 2 = 0 <=> LowBits(rm) \in {0, 2}
BY DEF RM, HighBit, LowBits, RegField

\* The mode of a specifier, by its two upper fields.
LEMMA ModeTable ==
  ASSUME NEW rm \in RM
  PROVE  /\ LowBits(rm) = 3 => Mode(rm) = "short immediate"
         /\ LowBits(rm) = 2 =>
              Mode(rm) = IF HighBit(rm) = 1 THEN "pre-decrement"
                                            ELSE "indirect"
         /\ LowBits(rm) = 0 =>
              Mode(rm) = IF HighBit(rm) = 1 THEN "post-increment"
                                            ELSE "direct"
         /\ LowBits(rm) = 1 /\ HighBit(rm) = 0 => Mode(rm) = "relative"
         /\ LowBits(rm) = 1 /\ HighBit(rm) = 1 /\ RegField(rm) > 1 =>
              Mode(rm) \in {"indexed", "PGC relative", "absolute"}
         /\ LowBits(rm) = 1 /\ HighBit(rm) = 1 /\ RegField(rm) <= 1 =>
              Mode(rm) = "immediate"
<1>1. CASE LowBits(rm) = 3
  BY <1>1 DEF Mode
<1>4. CASE LowBits(rm) = 2
  BY <1>4 DEF Mode
<1>5. CASE LowBits(rm) = 0
  BY <1>5, SpecifierFields DEF Mode
<1>2. CASE LowBits(rm) = 1 /\ HighBit(rm) = 0
  BY <1>2 DEF Mode
<1>3. CASE LowBits(rm) = 1 /\ HighBit(rm) = 1
  BY <1>3, SpecifierFields DEF Mode
<1>. QED BY <1>1, <1>2, <1>3, <1>4, <1>5, SpecifierFields

\* The K-map of rm_requires_mem_fetch_ and the branches of
\* decode_rm_specifier agree on which specifiers are operands in memory, and
\* the specifiers left are of three modes.
LEMMA FetchAgreesWithMode ==
  ASSUME NEW rm \in RM
  PROVE  /\ RequiresMemFetch(rm) <=> InMemory(rm)
         /\ ~ InMemory(rm) =>
              Mode(rm) \in {"short immediate", "immediate", "direct"}
<1>1. CASE LowBits(rm) = 3
  BY <1>1, SpecifierFields, ModeTable
     DEF InMemory, MemoryModes, RequiresMemFetch
<1>2. CASE LowBits(rm) = 2
  BY <1>2, SpecifierFields, ModeTable
     DEF InMemory, MemoryModes, RequiresMemFetch
<1>3. CASE LowBits(rm) = 1
  <2>1. /\ HighBit(rm) = 0 => RequiresMemFetch(rm) /\ InMemory(rm)
        /\ HighBit(rm) = 1 /\ RegField(rm) > 1 =>
             RequiresMemFetch(rm) /\ InMemory(rm)
    BY <1>3, ModeTable DEF InMemory, MemoryModes, RequiresMemFetch
  <2>2. HighBit(rm) = 1 /\ RegField(rm) <= 1 =>
          ~ RequiresMemFetch(rm) /\ Mode(rm) = "immediate"
    BY <1>3, ModeTable, SpecifierFields DEF RequiresMemFetch
  <2>3. Mode(rm) = "immediate" => ~ InMemory(rm)
    BY DEF InMemory, MemoryModes
  <2>4. \/ HighBit(rm) = 0
        \/ HighBit(rm) = 1 /\ RegField(rm) > 1
        \/ HighBit(rm) = 1 /\ RegField(rm) <= 1
    BY SpecifierFields
  <2>. QED BY Zenon, <2>1, <2>2, <2>3, <2>4
<1>4. CASE LowBits(rm) = 0
  BY <1>4, SpecifierFields, ModeTable
     DEF InMemory, MemoryModes, RequiresMemFetch
<1>. QED BY <1>1, <1>2, <1>3, <1>4, SpecifierFields

\* A source operand comes from MEM_DATA exactly when it is in memory.
LEMMA MemDataWhenInMemory ==
  ASSUME NEW rm \in RM, NEW ops, NEW size, NEW old
  PROVE  SourceLocation(rm, ops, size, old) = MemData <=> InMemory(rm)
<1>1. CASE InMemory(rm)
  BY <1>1, FetchAgreesWithMode
     DEF SourceLocation, InMemory, MemoryModes
<1>2. CASE ~ InMemory(rm)
  BY <1>2, FetchAgreesWithMode DEF SourceLocation, MemData, Loc
<1>. QED BY <1>1, <1>2

\* Every mode of memory but the absolute one has an entry of its own.
LEMMA EntryOfMode ==
  ASSUME NEW rm, NEW old, NEW other
  PROVE  InMemory(rm) /\ Mode(rm) # "absolute"
           => EntryIdx(rm, old) # "NONE" /\ EntryIdx(rm, old) = EntryIdx(rm, other)
BY DEF EntryIdx, InMemory, MemoryModes

-----------------------------------------------------------------------------
(***************************************************************************)
(* Operands.                                                               *)
(***************************************************************************)

\* The fields of a programmed operand: reg_select is marked if and only if
\* the operand is the second one.
LEMMA OperandSpecFields ==
  ASSUME NEW spec \in Specs, NEW rm \in RM, NEW is_dest \in BOOLEAN,
         NEW ops \in Nat
  PROVE  LET new == OperandSpec(spec, rm, is_dest, ops)
         IN  /\ new.idx = EntryIdx(rm, spec.idx)
             /\ new.wr = is_dest
             /\ ops = 2 => new.sel \div 16 = 1
<1>. DEFINE programmed == ProgramOperand(spec, rm)
            new == [programmed EXCEPT !.wr = is_dest]
<1>1. programmed \in Specs /\ programmed.idx = EntryIdx(rm, spec.idx)
  <2>1. rm \in Nat
    BY DEF RM
  <2>. QED BY <2>1, ProgramOperandType DEF ProgramOperand
<1>. HIDE DEF programmed
<1>2. new \in Specs /\ new.wr = is_dest /\ new.idx = programmed.idx
  BY <1>1 DEF Specs
<1>. HIDE DEF new
<1>3. MarkSecond(new).idx = new.idx /\ MarkSecond(new).wr = new.wr
  BY <1>2 DEF MarkSecond, Specs
<1>4. MarkSecond(new).sel \div 16 = 1
  <2>1. new.sel \in 0 .. 31
    BY <1>2 DEF Specs
  <2>2. MarkSecond(new).sel = (new.sel % 16) + 16
    BY <1>2 DEF MarkSecond, Specs
  <2>. QED BY <2>1, <2>2
<1>5. OperandSpec(spec, rm, is_dest, ops)
        = IF ops = 2 THEN MarkSecond(new) ELSE new
  BY DEF OperandSpec, new, programmed
<1>. QED BY <1>1, <1>2, <1>3, <1>4, <1>5

\* What decode_rm_specifier does to core_op and to the two specifications of
\* operands: it programs the one of its operand if that is in memory, and
\* otherwise marks either or none, which changes neither entry nor direction.
LEMMA DecodeOperandEffect ==
  ASSUME NEW inst \in Insts, NEW rm \in RM, NEW is_dest \in BOOLEAN,
         NEW src_is_left \in BOOLEAN, NEW ops \in Nat, NEW size,
         NEW i \in DecodeOperand(inst, rm, is_dest, src_is_left, ops, size)
  PROVE  /\ i \in Insts
         /\ i.core = OperandCore(inst.core, rm, is_dest, src_is_left, ops, size)
         /\ InMemory(rm) /\ is_dest /\ ~ src_is_left =>
              /\ i.after = OperandSpec(inst.after, rm, is_dest, ops)
              /\ i.before = inst.before
         /\ InMemory(rm) /\ ~ (is_dest /\ ~ src_is_left) =>
              /\ i.before = OperandSpec(inst.before, rm, is_dest, ops)
              /\ i.after = inst.after
         /\ ~ InMemory(rm) =>
              /\ i.before.idx = inst.before.idx /\ i.before.wr = inst.before.wr
              /\ i.after.idx = inst.after.idx /\ i.after.wr = inst.after.wr
<1>. DEFINE word == OperandCore(inst.core, rm, is_dest, src_is_left, ops, size)
            sourced == [inst EXCEPT !.core = word]
<1>1. word \in ControlWords /\ i \in Insts
  <2>1. rm \in Nat /\ inst.core \in ControlWords
    BY InstUpdate DEF RM
  <2>2. word \in ControlWords
    BY <2>1, OperandCoreType
  <2>3. i \in Insts
    BY <2>1, DecodeOperandType
  <2>. QED BY <2>2, <2>3
<1>. HIDE DEF word
<1>2. /\ sourced \in Insts /\ sourced.core = word
      /\ sourced.before = inst.before /\ sourced.after = inst.after
      /\ inst.before \in Specs /\ inst.after \in Specs
  BY <1>1, InstUpdate DEF Insts
<1>3. DecodeOperand(inst, rm, is_dest, src_is_left, ops, size) =
        IF RequiresMemFetch(rm)
          THEN IF is_dest /\ ~ src_is_left
                 THEN {[sourced EXCEPT !.after =
                          OperandSpec(@, rm, is_dest, ops)]}
                 ELSE {[sourced EXCEPT !.before =
                          OperandSpec(@, rm, is_dest, ops)]}
        ELSE IF ops = 2
          THEN {sourced, [sourced EXCEPT !.before = MarkSecond(@)],
                [sourced EXCEPT !.after = MarkSecond(@)]}
        ELSE {sourced}
  BY Zenon DEF DecodeOperand, sourced, word
<1>. HIDE DEF sourced
<1>4. CASE InMemory(rm) /\ is_dest /\ ~ src_is_left
  <2>1. i = [sourced EXCEPT !.after = OperandSpec(@, rm, is_dest, ops)]
    BY <1>3, <1>4, FetchAgreesWithMode
  <2>2. /\ i.core = sourced.core /\ i.before = sourced.before
        /\ i.after = OperandSpec(sourced.after, rm, is_dest, ops)
    BY <1>2, <2>1 DEF Insts
  <2>. QED BY <1>1, <1>2, <1>4, <2>2 DEF word
<1>5. CASE InMemory(rm) /\ ~ (is_dest /\ ~ src_is_left)
  <2>1. i = [sourced EXCEPT !.before = OperandSpec(@, rm, is_dest, ops)]
    BY <1>3, <1>5, FetchAgreesWithMode
  <2>2. /\ i.core = sourced.core /\ i.after = sourced.after
        /\ i.before = OperandSpec(sourced.before, rm, is_dest, ops)
    BY <1>2, <2>1 DEF Insts
  <2>. QED BY <1>1, <1>2, <1>5, <2>2 DEF word
<1>6. CASE ~ InMemory(rm)
  <2>1. i \in {sourced, [sourced EXCEPT !.before = MarkSecond(@)],
               [sourced EXCEPT !.after = MarkSecond(@)]}
    BY <1>3, <1>6, FetchAgreesWithMode
  <2>2. /\ MarkSecond(sourced.before).idx = sourced.before.idx
        /\ MarkSecond(sourced.before).wr = sourced.before.wr
        /\ MarkSecond(sourced.after).idx = sourced.after.idx
        /\ MarkSecond(sourced.after).wr = sourced.after.wr
    BY <1>2 DEF MarkSecond, Specs
  <2>3. /\ i.core = sourced.core
        /\ i.before \in {sourced.before, MarkSecond(sourced.before)}
        /\ i.after \in {sourced.after, MarkSecond(sourced.after)}
    BY <1>2, <2>1 DEF Insts
  <2>. QED BY <1>1, <1>2, <1>6, <2>2, <2>3 DEF word
<1>. QED BY <1>4, <1>5, <1>6

\* What a right operand, a stored operand and an instruction without
\* write-back leave in an instruction.
Fetches(i, rm) ==
  /\ i.core.src1 = MemData <=> InMemory(rm)
  /\ InMemory(rm) /\ Mode(rm) # "absolute"
       => i.before.idx # "NONE" /\ i.before.wr = FALSE
  /\ ~ InMemory(rm) => i.before.idx = "NONE"

Stores(i, rm) ==
  /\ InMemory(rm) =>
       /\ i.after.wr = TRUE /\ i.after.sel \div 16 = 1
       /\ Mode(rm) # "absolute" =>
            i.after.idx = ProgramOperand(NoSpec, rm).idx
  /\ ~ InMemory(rm) => i.after.idx = "NONE"

WritesNothingBack(i) == i.core.latch = "NO_LATCH" /\ i.core.dest # MemData

\* The decoding every opcode starts from.
Cleared(op) == [inst |-> [ZeroInst EXCEPT !.word0 = op], rm_ops |-> 0,
                reads |-> 0]

\* work_regs before anything is decoded.
LEMMA ZeroInstType == ZeroInst \in Insts
<1>1. NoSpec \in Specs
  BY DEF NoSpec, Specs, MucodeIdx, Sizes
<1>2. IdleWord \in ControlWords
  BY SomeLocs DEF IdleWord, ControlWords, AluOps, LatchCtls, WriteCtls
<1>. QED BY <1>1, <1>2 DEF ZeroInst, Insts, Opcode

\* What decode_inst_ clears before it looks at the groups.
LEMMA ClearedFields ==
  ASSUME NEW op \in Opcode
  PROVE  /\ Cleared(op) \in Decodings /\ Cleared(op).rm_ops = 0
         /\ Cleared(op).inst.core = IdleWord
         /\ Cleared(op).inst.before = NoSpec /\ Cleared(op).inst.after = NoSpec
<1>4. Cleared(op) \in Decodings
  BY ZeroInstType, StartType DEF Cleared
<1>5. Cleared(op).inst = [ZeroInst EXCEPT !.word0 = op] /\ Cleared(op).rm_ops = 0
  BY DEF Cleared
<1>6. /\ [ZeroInst EXCEPT !.word0 = op].core = IdleWord
      /\ [ZeroInst EXCEPT !.word0 = op].before = NoSpec
      /\ [ZeroInst EXCEPT !.word0 = op].after = NoSpec
  BY DEF ZeroInst
<1>. QED BY <1>4, <1>5, <1>6

\* Assigning core_op touches nothing else.
LEMMA SetCoreFields ==
  ASSUME NEW d \in Decodings, NEW word \in ControlWords
  PROVE  LET set == SetCore(d, word)
         IN  /\ set \in Decodings /\ set.rm_ops = d.rm_ops
             /\ set.inst.core = word
             /\ set.inst.before = d.inst.before /\ set.inst.after = d.inst.after
<1>1. SetCore(d, word) \in Decodings
  BY SetCoreType
<1>2. d.inst \in Insts
  BY DEF Decodings
<1>3. /\ SetCore(d, word).inst = [d.inst EXCEPT !.core = word]
      /\ SetCore(d, word).rm_ops = d.rm_ops
  BY DEF SetCore
<1>. QED BY <1>1, <1>2, <1>3 DEF Insts

\* decode_rm_specifier counts its operand and decodes it.
LEMMA DecodeRMSteps ==
  ASSUME NEW d \in Decodings, NEW rm \in RM, NEW is_dest \in BOOLEAN,
         NEW src_is_left \in BOOLEAN, NEW size,
         NEW r \in DecodeRM(d, rm, is_dest, src_is_left, size)
  PROVE  /\ r \in Decodings /\ r.rm_ops = d.rm_ops + 1
         /\ r.inst \in DecodeOperand(d.inst, rm, is_dest, src_is_left,
                                     d.rm_ops + 1, size)
         /\ d.inst \in Insts /\ d.rm_ops + 1 \in Nat
<1>1. rm \in Nat
  BY DEF RM
<1>2. r \in Decodings
  BY <1>1, DecodeRMType
<1>3. d.inst \in Insts /\ d.rm_ops + 1 \in Nat
  BY DEF Decodings
<1>. QED BY <1>2, <1>3 DEF DecodeRM

\* A right operand: MEM_DATA is its source, and run_before fetches it, if it
\* is in memory; the rest of core_op and run_after's entry stay.
LEMMA RightOperand ==
  ASSUME NEW d \in Decodings, d.inst.before.idx = "NONE",
         NEW rm \in RM, NEW size,
         NEW r \in DecodeRM(d, rm, FALSE, FALSE, size)
  PROVE  /\ r \in Decodings /\ r.rm_ops = d.rm_ops + 1
         /\ Fetches(r.inst, rm)
         /\ r.inst.core.latch = d.inst.core.latch
         /\ r.inst.core.dest = d.inst.core.dest
         /\ r.inst.after.idx = d.inst.after.idx
<1>. DEFINE ops == d.rm_ops + 1
            loc == SourceLocation(rm, ops, size, d.inst.core.src1)
<1>1. /\ r \in Decodings /\ r.rm_ops = d.rm_ops + 1
      /\ r.inst \in DecodeOperand(d.inst, rm, FALSE, FALSE, ops, size)
      /\ d.inst \in Insts /\ ops \in Nat
  BY DecodeRMSteps
<1>. HIDE DEF ops
<1>2. /\ r.inst.core = OperandCore(d.inst.core, rm, FALSE, FALSE, ops, size)
      /\ InMemory(rm) => /\ r.inst.before
                              = OperandSpec(d.inst.before, rm, FALSE, ops)
                         /\ r.inst.after = d.inst.after
      /\ ~ InMemory(rm) => /\ r.inst.before.idx = d.inst.before.idx
                           /\ r.inst.after.idx = d.inst.after.idx
  <2>. DEFINE no == FALSE
  <2>1. no \in BOOLEAN /\ r.inst \in DecodeOperand(d.inst, rm, no, no, ops, size)
    BY <1>1
  <2>. HIDE DEF no
  <2>2. /\ r.inst.core = OperandCore(d.inst.core, rm, no, no, ops, size)
        /\ InMemory(rm) /\ ~ (no /\ ~ no) =>
             /\ r.inst.before = OperandSpec(d.inst.before, rm, no, ops)
             /\ r.inst.after = d.inst.after
        /\ ~ InMemory(rm) => /\ r.inst.before.idx = d.inst.before.idx
                             /\ r.inst.after.idx = d.inst.after.idx
    BY <1>1, <2>1, DecodeOperandEffect
  <2>. QED BY <2>2 DEF no
<1>3. d.inst.core \in ControlWords /\ d.inst.before \in Specs
  BY <1>1, InstUpdate
<1>4. r.inst.core = [d.inst.core EXCEPT !.src1 = loc]
  BY <1>2 DEF OperandCore
<1>5. loc = MemData <=> InMemory(rm)
  BY MemDataWhenInMemory
<1>. HIDE DEF loc
<1>6. /\ r.inst.core.src1 = MemData <=> InMemory(rm)
      /\ r.inst.core.latch = d.inst.core.latch
      /\ r.inst.core.dest = d.inst.core.dest
  BY <1>3, <1>4, <1>5 DEF ControlWords
<1>7. InMemory(rm) =>
        r.inst.before.idx = EntryIdx(rm, "NONE") /\ r.inst.before.wr = FALSE
  <2>1. /\ OperandSpec(d.inst.before, rm, FALSE, ops).idx
             = EntryIdx(rm, d.inst.before.idx)
        /\ OperandSpec(d.inst.before, rm, FALSE, ops).wr = FALSE
    BY <1>1, <1>3, OperandSpecFields
  <2>. QED BY <1>2, <2>1
<1>8. InMemory(rm) /\ Mode(rm) # "absolute" => EntryIdx(rm, "NONE") # "NONE"
  BY EntryOfMode
<1>9. Fetches(r.inst, rm)
  BY <1>2, <1>6, <1>7, <1>8 DEF Fetches
<1>. QED BY <1>1, <1>2, <1>6, <1>9

\* A destination that is not also a source: run_after stores it if it is in
\* memory; core_op and what run_before does stay.
LEMMA DestinationOperand ==
  ASSUME NEW d \in Decodings, d.inst.after.idx = "NONE",
         NEW rm \in RM, NEW size,
         NEW r \in DecodeRM(d, rm, TRUE, FALSE, size)
  PROVE  /\ r \in Decodings /\ r.rm_ops = d.rm_ops + 1
         /\ d.rm_ops = 1 => Stores(r.inst, rm)
         /\ ~ InMemory(rm) => r.inst.after.idx = "NONE"
         /\ r.inst.core = d.inst.core
         /\ r.inst.before.idx = d.inst.before.idx
         /\ r.inst.before.wr = d.inst.before.wr
<1>. DEFINE ops == d.rm_ops + 1
            yes == TRUE
            no == FALSE
            i == r.inst
<1>1. /\ r \in Decodings /\ r.rm_ops = d.rm_ops + 1
      /\ i \in DecodeOperand(d.inst, rm, yes, no, ops, size)
      /\ d.inst \in Insts /\ ops \in Nat /\ yes \in BOOLEAN /\ no \in BOOLEAN
  BY DecodeRMSteps
<1>. HIDE DEF ops, yes, no, i
<1>2. /\ i.core = OperandCore(d.inst.core, rm, yes, no, ops, size)
      /\ InMemory(rm) /\ yes /\ ~ no =>
           /\ i.after = OperandSpec(d.inst.after, rm, yes, ops)
           /\ i.before = d.inst.before
      /\ ~ InMemory(rm) =>
           /\ i.before.idx = d.inst.before.idx /\ i.before.wr = d.inst.before.wr
           /\ i.after.idx = d.inst.after.idx
  BY <1>1, DecodeOperandEffect
<1>3. i.core = d.inst.core
  BY <1>2 DEF OperandCore, yes, no
<1>4. /\ InMemory(rm) => /\ i.after = OperandSpec(d.inst.after, rm, yes, ops)
                         /\ i.before = d.inst.before
  BY <1>2 DEF yes, no
<1>5. d.inst.after \in Specs
  BY <1>1, InstUpdate
<1>6. /\ OperandSpec(d.inst.after, rm, yes, ops).idx
           = EntryIdx(rm, d.inst.after.idx)
      /\ OperandSpec(d.inst.after, rm, yes, ops).wr = yes
      /\ ops = 2 => OperandSpec(d.inst.after, rm, yes, ops).sel \div 16 = 1
  BY <1>1, <1>5, OperandSpecFields
<1>7. ProgramOperand(NoSpec, rm).idx = EntryIdx(rm, "NONE")
  BY DEF ProgramOperand, NoSpec
<1>8. d.rm_ops = 1 => ops = 2
  BY DEF ops
<1>9. ~ InMemory(rm) => i.after.idx = "NONE"
  BY <1>2
<1>10. d.rm_ops = 1 => Stores(i, rm)
  BY <1>4, <1>6, <1>7, <1>8, <1>9 DEF Stores, yes
<1>. QED BY <1>1, <1>2, <1>3, <1>4, <1>9, <1>10 DEF i

\* An operand that is left source and destination: the write-back is set up
\* exactly when it is in memory.
LEMMA LeftOperand ==
  ASSUME NEW d \in Decodings, NEW rm \in RM, NEW size,
         WritesNothingBack(d.inst),
         NEW r \in DecodeRM(d, rm, TRUE, TRUE, size)
  PROVE  /\ r \in Decodings
         /\ InMemory(rm) =>
              /\ r.inst.core.latch = "HALF2_MAR" /\ r.inst.core.src0 = MemData
              /\ r.inst.core.write = "FROM_DEST"
         /\ ~ InMemory(rm) => WritesNothingBack(r.inst)
         /\ d.inst.after.idx = "NONE" => r.inst.after.idx = "NONE"
<1>. DEFINE ops == d.rm_ops + 1
            yes == TRUE
            i == r.inst
            loc == SourceLocation(rm, ops, size, d.inst.core.src0)
<1>1. /\ r \in Decodings
      /\ i \in DecodeOperand(d.inst, rm, yes, yes, ops, size)
      /\ d.inst \in Insts /\ ops \in Nat /\ yes \in BOOLEAN
  BY DecodeRMSteps
<1>2. loc = MemData <=> InMemory(rm)
  BY MemDataWhenInMemory
<1>3. d.inst.core \in ControlWords
  BY <1>1, InstUpdate
<1>. HIDE DEF ops, yes, i
<1>4. /\ i.core = OperandCore(d.inst.core, rm, yes, yes, ops, size)
      /\ InMemory(rm) /\ ~ (yes /\ ~ yes) => i.after = d.inst.after
      /\ ~ InMemory(rm) => i.after.idx = d.inst.after.idx
  BY <1>1, DecodeOperandEffect
<1>5. InMemory(rm) =>
        i.core = [d.inst.core EXCEPT !.src0 = loc, !.dest = MemData,
                    !.latch = "HALF2_MAR", !.write = "FROM_DEST"]
  BY <1>4, FetchAgreesWithMode DEF OperandCore, yes
<1>6. ~ InMemory(rm) => i.core = [d.inst.core EXCEPT !.src0 = loc]
  BY <1>4, FetchAgreesWithMode DEF OperandCore, yes
<1>. HIDE DEF loc
<1>7. InMemory(rm) => /\ i.core.latch = "HALF2_MAR" /\ i.core.src0 = MemData
                      /\ i.core.write = "FROM_DEST"
  BY <1>2, <1>3, <1>5 DEF ControlWords
<1>8. ~ InMemory(rm) => WritesNothingBack(i)
  BY <1>3, <1>6 DEF ControlWords, WritesNothingBack
<1>9. d.inst.after.idx = "NONE" => i.after.idx = "NONE"
  BY <1>4 DEF yes
<1>. QED BY <1>1, <1>7, <1>8, <1>9 DEF i

-----------------------------------------------------------------------------
(***************************************************************************)
(* Instruction groups, each from cleared work_regs.                        *)
(***************************************************************************)

\* Specifiers have six bits.
LEMMA OperandSpecifiers ==
  ASSUME NEW op \in Opcode
  PROVE  SrcRM(op) \in RM /\ DestRM(op) \in RM /\ 0 \in RM /\ ~ InMemory(0)
<1>1. 0 \in RM
  BY DEF RM
<1>2. ~ RequiresMemFetch(0)
  BY DEF RequiresMemFetch, HighBit, LowBits
<1>3. SrcRM(op) \in RM /\ DestRM(op) \in RM
  <2>1. op \in Nat /\ op \div 64 \in Nat
    BY OpcodeRange, SMT
  <2>2. op % 64 \in 0 .. 63 /\ (op \div 64) % 64 \in 0 .. 63
    BY <2>1
  <2>. QED BY <2>2 DEF SrcRM, DestRM, RM
<1>. QED BY <1>1, <1>2, <1>3, FetchAgreesWithMode

\* A group that only assigns fields of core_op starts its operands from
\* cleared specifications.
LEMMA StartOfGroup ==
  ASSUME NEW op \in Opcode, NEW word \in ControlWords,
         word.latch = "NO_LATCH", word.dest # MemData
  PROVE  LET start == SetCore(Cleared(op), word)
         IN  /\ start \in Decodings /\ start.rm_ops = 0
             /\ start.inst.core = word /\ WritesNothingBack(start.inst)
             /\ start.inst.before.idx = "NONE" /\ start.inst.before.wr = FALSE
             /\ start.inst.after.idx = "NONE"
BY ClearedFields, SetCoreFields DEF WritesNothingBack, NoSpec

\* The control words the groups start from.
LEMMA StartWords ==
  /\ \A alu \in AluOps : [IdleWord EXCEPT !.op = alu] \in ControlWords
  /\ \A alu \in AluOps : LET word == [IdleWord EXCEPT !.op = alu]
                         IN  word.latch = "NO_LATCH" /\ word.dest # MemData
  /\ LET word == [IdleWord EXCEPT !.src0 = Loc("ZERO"), !.op = "OR"]
     IN  /\ word \in ControlWords
         /\ word.latch = "NO_LATCH" /\ word.dest # MemData
  /\ LET word == [IdleWord EXCEPT !.src0 = Loc("ZERO"), !.op = "OR",
                                  !.dest = Loc("REG_IMM_0_8")]
     IN  /\ word \in ControlWords
         /\ word.latch = "NO_LATCH" /\ word.dest # MemData
<1>1. IdleWord \in ControlWords
  BY SomeLocs DEF IdleWord, ControlWords, AluOps, LatchCtls, WriteCtls
<1>2. "OR" \in AluOps
  BY DEF AluOps
<1>3. /\ \A alu \in AluOps : [IdleWord EXCEPT !.op = alu] \in ControlWords
      /\ [IdleWord EXCEPT !.src0 = Loc("ZERO"), !.op = "OR"] \in ControlWords
      /\ [IdleWord EXCEPT !.src0 = Loc("ZERO"), !.op = "OR",
                          !.dest = Loc("REG_IMM_0_8")] \in ControlWords
  BY <1>1, <1>2, WordUpdate, SomeLocs
<1>. QED BY <1>3 DEF IdleWord, Loc, MemData

\* decode_inst_arithlogic_, register form: the RM operand is fetched.
LEMMA ArithRegisterDecodes ==
  ASSUME NEW op \in Opcode, NEW r \in ArithRegister(Cleared(op), op)
  PROVE  /\ Fetches(r.inst, SrcRM(op)) /\ WritesNothingBack(r.inst)
         /\ r.inst.after.idx = "NONE"
<1>. DEFINE rm == SrcRM(op)
            word == [IdleWord EXCEPT !.op = ArithOp(Operation(op) % 8)]
            start == SetCore(Cleared(op), word)
            Finish(q) == SetCore(q, [q.inst.core EXCEPT
                                       !.src0 = Loc("REG_IMM_0_8")])
<1>2. PICK q \in DecodeRM(start, rm, FALSE, FALSE, Size(op)) : r = Finish(q)
  BY ClearedFields DEF ArithRegister
<1>7. /\ word \in ControlWords
      /\ word.latch = "NO_LATCH" /\ word.dest # MemData
  <2>1. ArithOp(Operation(op) % 8) \in AluOps
    BY OpcodeFields
  <2>. QED BY <2>1, StartWords
<1>. HIDE DEF word
<1>1. /\ start \in Decodings /\ WritesNothingBack(start.inst)
      /\ start.inst.before.idx = "NONE" /\ start.inst.after.idx = "NONE"
  BY <1>7, StartOfGroup
<1>8. rm \in RM
  BY OperandSpecifiers
<1>. HIDE DEF start, rm
<1>3. /\ q \in Decodings /\ Fetches(q.inst, rm) /\ WritesNothingBack(q.inst)
      /\ q.inst.after.idx = "NONE"
  BY <1>1, <1>8, RightOperand DEF WritesNothingBack
<1>4. q.inst.core \in ControlWords
  BY <1>3, InstUpdate DEF Decodings
<1>. DEFINE final == [q.inst.core EXCEPT !.src0 = Loc("REG_IMM_0_8")]
<1>5. /\ final \in ControlWords /\ final.src1 = q.inst.core.src1
      /\ final.latch = q.inst.core.latch /\ final.dest = q.inst.core.dest
  BY <1>4, SomeLocs, WordUpdate DEF ControlWords
<1>. HIDE DEF final
<1>6. /\ r.inst.core = final /\ r.inst.before = q.inst.before
      /\ r.inst.after = q.inst.after
  BY <1>2, <1>3, <1>5, SetCoreFields DEF final
<1>. QED BY <1>3, <1>5, <1>6 DEF Fetches, WritesNothingBack, rm

\* decode_inst_arithlogic_, immediate form: the RM operand is written back
\* if it is in memory.
LEMMA ArithImmediateDecodes ==
  ASSUME NEW op \in Opcode, NEW r \in ArithImmediate(Cleared(op), op)
  PROVE  /\ InMemory(SrcRM(op)) =>
              /\ r.inst.core.latch = "HALF2_MAR"
              /\ r.inst.core.src0 = MemData
              /\ r.inst.core.write = "FROM_DEST"
         /\ ~ InMemory(SrcRM(op)) => WritesNothingBack(r.inst)
         /\ r.inst.after.idx = "NONE"
<1>. DEFINE rm == SrcRM(op)
            compare == ImmOperation(op) = 7
            word == [IdleWord EXCEPT !.op = ArithOp(ImmOperation(op))]
            start == SetCore(Cleared(op), word)
            Final(q) == [q.inst.core EXCEPT
                           !.src1 = Loc("IMM_1"),
                           !.dest = IF compare THEN Loc("ZERO") ELSE @]
<1>9. /\ word \in ControlWords
      /\ word.latch = "NO_LATCH" /\ word.dest # MemData
  <2>1. ArithOp(ImmOperation(op)) \in AluOps
    BY OpcodeFields
  <2>. QED BY <2>1, StartWords
<1>1. /\ start \in Decodings /\ WritesNothingBack(start.inst)
      /\ start.inst.after.idx = "NONE"
  <2>. HIDE DEF word
  <2>. QED BY <1>9, StartOfGroup
<1>2. PICK q \in DecodeRM(start, rm, TRUE, TRUE, Size(op)) :
        r = SetCore(q, Final(q))
  BY ClearedFields DEF ArithImmediate
<1>. HIDE DEF start
<1>3. /\ q \in Decodings
      /\ InMemory(rm) => /\ q.inst.core.latch = "HALF2_MAR"
                         /\ q.inst.core.src0 = MemData
                         /\ q.inst.core.write = "FROM_DEST"
      /\ ~ InMemory(rm) => WritesNothingBack(q.inst)
      /\ q.inst.after.idx = "NONE"
  BY <1>1, LeftOperand, OperandSpecifiers, ZenonT(30)
<1>4. q.inst.core \in ControlWords
  BY <1>3, InstUpdate DEF Decodings
<1>. DEFINE dest == IF compare THEN Loc("ZERO") ELSE q.inst.core.dest
<1>5. dest \in Locs /\ (q.inst.core.dest # MemData => dest # MemData)
  <2>1. q.inst.core.dest \in Locs
    BY <1>4, WordUpdate
  <2>. QED BY <2>1, SomeLocs DEF Loc, MemData
<1>6. Final(q) = [q.inst.core EXCEPT !.src1 = Loc("IMM_1"), !.dest = dest]
  OBVIOUS
<1>. HIDE DEF dest, compare, Final
<1>7. /\ Final(q) \in ControlWords /\ Final(q).dest = dest
      /\ Final(q).latch = q.inst.core.latch /\ Final(q).src0 = q.inst.core.src0
      /\ Final(q).write = q.inst.core.write
  <2>1. Final(q) \in ControlWords
    <3>1. [q.inst.core EXCEPT !.src1 = Loc("IMM_1"), !.dest = dest]
            \in ControlWords
      BY <1>4, <1>5, SomeLocs, WordUpdate
    <3>. QED BY <1>6, <3>1
  <2>. QED BY <1>4, <1>5, <1>6, <2>1 DEF ControlWords
<1>8. r.inst.core = Final(q) /\ r.inst.after = q.inst.after
  BY <1>2, <1>3, <1>7, SetCoreFields
<1>. QED BY <1>3, <1>5, <1>7, <1>8 DEF WritesNothingBack

\* decode_inst_ld_group_, one RM operand: it is fetched, as the first operand
\* or, after the dummy specifier of LEA, as the second.
LEMMA LdOneRMDecodes ==
  ASSUME NEW op \in Opcode, NEW r \in LdOneRM(Cleared(op), op)
  PROVE  /\ Fetches(r.inst, SrcRM(op)) /\ WritesNothingBack(r.inst)
         /\ r.inst.after.idx = "NONE"
<1>. DEFINE rm == SrcRM(op)
            size == Size(op)
            blank == Cleared(op).inst.core
            word == [blank EXCEPT !.src0 = Loc("ZERO"), !.op = "OR",
                                  !.dest = Loc("REG_IMM_0_8")]
            start == SetCore(Cleared(op), word)
            dummy == IF op \div 2048 = 19
                       THEN DecodeRM(start, 0, TRUE, FALSE, size)
                       ELSE {start}
<1>1. PICK q \in dummy : r \in DecodeRM(q, rm, FALSE, FALSE, size)
  <2>1. LdOneRM(Cleared(op), op)
          = UNION {DecodeRM(d, rm, FALSE, FALSE, size) : d \in dummy}
    BY DEF LdOneRM
  <2>. HIDE DEF dummy
  <2>. QED BY <2>1
<1>6. q = start \/ q \in DecodeRM(start, 0, TRUE, FALSE, size)
  <2>. DEFINE lea == op \div 2048 = 19
              first == DecodeRM(start, 0, TRUE, FALSE, size)
  <2>1. dummy = (IF lea THEN first ELSE {start}) /\ q \in dummy
    BY <1>1
  <2>. HIDE DEF start, size, dummy, lea, first
  <2>2. CASE lea
    <3>1. dummy = first
      BY <2>1, <2>2
    <3>. QED BY <2>1, <3>1 DEF first
  <2>3. CASE ~ lea
    <3>1. dummy = {start}
      BY <2>1, <2>3
    <3>. QED BY <2>1, <3>1
  <2>. QED BY <2>2, <2>3
<1>. HIDE DEF dummy
<1>2. /\ start \in Decodings /\ WritesNothingBack(start.inst)
      /\ start.inst.before.idx = "NONE" /\ start.inst.after.idx = "NONE"
  <2>1. /\ word \in ControlWords
        /\ word.latch = "NO_LATCH" /\ word.dest # MemData
    <3>1. blank = IdleWord
      BY ClearedFields
    <3>. HIDE DEF blank
    <3>. QED BY <3>1, StartWords
  <2>. HIDE DEF word
  <2>. QED BY <2>1, StartOfGroup
<1>3. rm \in RM /\ 0 \in RM /\ ~ InMemory(0)
  BY OperandSpecifiers
<1>. HIDE DEF start, rm, size
<1>4. /\ q \in Decodings /\ WritesNothingBack(q.inst)
      /\ q.inst.before.idx = "NONE" /\ q.inst.after.idx = "NONE"
  <2>1. CASE q = start
    BY <1>2, <2>1
  <2>2. CASE q \in DecodeRM(start, 0, TRUE, FALSE, size)
    <3>1. /\ q \in Decodings /\ q.inst.core = start.inst.core
          /\ q.inst.before.idx = start.inst.before.idx
          /\ q.inst.after.idx = "NONE"
      <4>1. /\ start \in Decodings /\ start.inst.after.idx = "NONE"
            /\ 0 \in RM /\ ~ InMemory(0)
        BY <1>2, <1>3
      <4>. QED BY <2>2, <4>1, DestinationOperand, ZenonT(30)
    <3>. QED BY <1>2, <3>1 DEF WritesNothingBack
  <2>. QED BY <1>6, <2>1, <2>2
<1>5. /\ Fetches(r.inst, rm) /\ r.inst.core.latch = q.inst.core.latch
      /\ r.inst.core.dest = q.inst.core.dest
      /\ r.inst.after.idx = q.inst.after.idx
  BY <1>1, <1>3, <1>4, RightOperand, ZenonT(30)
<1>. QED BY <1>4, <1>5 DEF WritesNothingBack, rm

\* decode_inst_ld_group_, two RM operands: the first is fetched, the second
\* stored, whether or not run_mucode was assigned for either.
LEMMA LdTwoRMDecodes ==
  ASSUME NEW op \in Opcode, NEW r \in LdTwoRM(Cleared(op), op)
  PROVE  /\ Fetches(r.inst, SrcRM(op)) /\ WritesNothingBack(r.inst)
         /\ Stores(r.inst, DestRM(op))
<1>. DEFINE src == SrcRM(op)
            dest == DestRM(op)
            size == Size(op)
            word == [IdleWord EXCEPT !.src0 = Loc("ZERO"), !.op = "OR"]
            start == SetCore(Cleared(op), word)
<1>1. PICK q \in DecodeRM(start, src, FALSE, FALSE, size) :
        r \in DecodeRM(q, dest, TRUE, FALSE, size)
  BY ClearedFields DEF LdTwoRM
<1>2. /\ start \in Decodings /\ start.rm_ops = 0
      /\ WritesNothingBack(start.inst)
      /\ start.inst.before.idx = "NONE" /\ start.inst.after.idx = "NONE"
  <2>1. /\ word \in ControlWords
        /\ word.latch = "NO_LATCH" /\ word.dest # MemData
    BY StartWords
  <2>. HIDE DEF word
  <2>. QED BY <2>1, StartOfGroup
<1>3. src \in RM /\ dest \in RM
  BY OperandSpecifiers
<1>. HIDE DEF start, src, dest, size
<1>4. /\ q \in Decodings /\ q.rm_ops = 1 /\ Fetches(q.inst, src)
      /\ q.inst.core.latch = start.inst.core.latch
      /\ q.inst.core.dest = start.inst.core.dest
      /\ q.inst.after.idx = "NONE"
  <2>1. /\ q \in Decodings /\ q.rm_ops = start.rm_ops + 1 /\ Fetches(q.inst, src)
        /\ q.inst.core.latch = start.inst.core.latch
        /\ q.inst.core.dest = start.inst.core.dest
        /\ q.inst.after.idx = start.inst.after.idx
    BY <1>1, <1>2, <1>3, RightOperand, ZenonT(30)
  <2>. QED BY <1>2, <2>1
<1>5. /\ Stores(r.inst, dest) /\ r.inst.core = q.inst.core
      /\ r.inst.before.idx = q.inst.before.idx
      /\ r.inst.before.wr = q.inst.before.wr
  <2>1. q \in Decodings /\ q.inst.after.idx = "NONE" /\ q.rm_ops = 1 /\ dest \in RM
    BY <1>3, <1>4
  <2>. QED BY <1>1, <2>1, DestinationOperand, ZenonT(30)
<1>6. Fetches(r.inst, src)
  BY <1>4, <1>5 DEF Fetches
<1>. QED BY <1>2, <1>4, <1>5, <1>6 DEF WritesNothingBack, src, dest

\* decode_inst_ld_other_ and the placeholders.
LEMMA LdOtherDecodes ==
  ASSUME NEW op \in Opcode
  PROVE  \A d \in {LdOther(Cleared(op), op), Cleared(op)} :
           WritesNothingBack(d.inst) /\ d.inst.after.idx = "NONE"
<1>. DEFINE loc == Loc(IF (op \div 2048) % 2 = 0 THEN "IMM_HML" ELSE "IMM_0")
            blank == Cleared(op).inst.core
            word == [blank EXCEPT
                       !.src0 = Loc("ZERO"), !.op = "OR",
                       !.dest = Loc("REG_IMM_0_8"), !.src1 = loc]
<1>1. LdOther(Cleared(op), op) = SetCore(Cleared(op), word)
  BY DEF LdOther
<1>7. blank = IdleWord
  BY ClearedFields
<1>. HIDE DEF blank
<1>2. loc \in Locs /\ IdleWord \in ControlWords /\ "OR" \in AluOps
  BY SomeLocs DEF AluOps, IdleWord, ControlWords, LatchCtls, WriteCtls
<1>. HIDE DEF loc
<1>3. word \in ControlWords
  BY <1>2, <1>7, SomeLocs, WordUpdate
<1>4. word.latch = "NO_LATCH" /\ word.dest # MemData
  BY <1>7 DEF IdleWord, MemData, Loc
<1>. HIDE DEF word
<1>5. LET d == SetCore(Cleared(op), word)
      IN  WritesNothingBack(d.inst) /\ d.inst.after.idx = "NONE"
  BY <1>3, <1>4, StartOfGroup
<1>6. WritesNothingBack(Cleared(op).inst) /\ Cleared(op).inst.after.idx = "NONE"
  BY ClearedFields DEF WritesNothingBack, IdleWord, NoSpec, MemData, Loc
<1>. QED BY <1>1, <1>5, <1>6

\* The groups exclude each other where decode_inst_ tests them in turn.
LEMMA GroupsExclude ==
  ASSUME NEW op \in Opcode
  PROVE  /\ IsLdOther(op) => ~ IsArithLogic(op) /\ ~ IsLdGroup(op)
         /\ IsArithLogic(op) => ~ IsLdGroup(op)
         /\ IsBranch(op) \/ IsBit(op) \/ IsOther(op)
              => ~ IsArithLogic(op) /\ ~ IsLdGroup(op)
<1>1. op \in Nat
  BY OpcodeRange
<1>2. /\ (op \div 4096) % 4 = 1 => (op \div 8192) % 2 = 0
      /\ (op \div 4096) % 4 = 0 => (op \div 8192) % 2 = 0
  BY <1>1
<1>3. op \div 4096 >= 12 => ~ (op < 49152)
  BY <1>1
<1>. QED BY <1>1, <1>2, <1>3 DEF IsLdOther, IsArithLogic, IsLdGroup, IsBranch,
                                 IsBit, IsOther

-----------------------------------------------------------------------------
(***************************************************************************)
(* The sweep.                                                              *)
(***************************************************************************)

\* The inductive invariant: what is seen is a decoding of the opcode.
SweepInv ==
  opcode \in 0 .. LastOpcode /\ decoding \in DecodeOpcode(ZeroInst, opcode)

\* Only 16-bit words are swept.
LEMMA SweptOpcodes == \A n \in 0 .. LastOpcode : n \in Opcode
<1>. DEFINE top == 65535
<1>1. top \in Nat /\ Opcode = 0 .. top
  BY DEF Opcode
<1>. HIDE DEF top
<1>2. LastOpcode \in Nat /\ LastOpcode <= top
  BY <1>1, LastOpcodeAssumption
<1>. QED BY <1>1, <1>2

\* Every opcode decoded satisfies the invariant.
LEMMA SweepInvariant == Spec => []SweepInv
<1>1. LastOpcode \in Nat
  BY LastOpcodeAssumption, OpcodeRange
<1>2. Init => SweepInv
  BY <1>1 DEF Init, SweepInv
<1>3. SweepInv /\ [DecodeNext]_vars => SweepInv'
  BY <1>1 DEF SweepInv, DecodeNext, vars
<1>. QED BY <1>2, <1>3, PTL DEF Spec

\* What is seen, by group.
LEMMA SeenByGroup ==
  ASSUME SweepInv
  PROVE  /\ opcode \in Opcode
         /\ ImmForm(opcode) =>
              /\ IsArithLogic(opcode)
              /\ decoding \in ArithImmediate(Cleared(opcode), opcode)
         /\ IsArithLogic(opcode) /\ ~ ImmForm(opcode) =>
              decoding \in ArithRegister(Cleared(opcode), opcode)
         /\ IsLdGroup(opcode) =>
              /\ ~ IsArithLogic(opcode)
              /\ IF (opcode \div 64) % 4 = 3
                   THEN decoding \in LdOneRM(Cleared(opcode), opcode)
                   ELSE decoding \in LdTwoRM(Cleared(opcode), opcode)
         /\ ~ IsArithLogic(opcode) /\ ~ IsLdGroup(opcode) =>
              decoding \in {LdOther(Cleared(opcode), opcode), Cleared(opcode)}
<1>1. opcode \in Opcode
  <2>1. opcode \in 0 .. LastOpcode
    BY DEF SweepInv
  <2>. QED BY <2>1, SweptOpcodes
<1>2. decoding \in
        CASE IsLdOther(opcode)    -> {LdOther(Cleared(opcode), opcode)}
          [] ImmForm(opcode)      -> ArithImmediate(Cleared(opcode), opcode)
          [] IsArithLogic(opcode) /\ ~ ImmForm(opcode) ->
               ArithRegister(Cleared(opcode), opcode)
          [] IsLdGroup(opcode)    -> LdGroup(Cleared(opcode), opcode)
          [] IsBranch(opcode) \/ IsBit(opcode) \/ IsOther(opcode) ->
               {Cleared(opcode)}
  BY DEF SweepInv, DecodeOpcode, Cleared
<1>3. ImmForm(opcode) => IsArithLogic(opcode)
  BY DEF ImmForm
<1>4. LdGroup(Cleared(opcode), opcode) =
        IF (opcode \div 64) % 4 = 3 THEN LdOneRM(Cleared(opcode), opcode)
                                    ELSE LdTwoRM(Cleared(opcode), opcode)
  BY DEF LdGroup
<1>. QED BY Zenon, <1>1, <1>2, <1>3, <1>4, GroupsCover, GroupsExclude

\* The decoder gives every opcode a decoded instruction.
THEOREM SweepTypeCorrect == Spec => []TypeOK
<1>1. SweepInv => TypeOK
  <2>. SUFFICES ASSUME SweepInv PROVE TypeOK
    OBVIOUS
  <2>1. ZeroInst \in Insts
    BY ZeroInstType
  <2>2. DecodeOpcode(ZeroInst, opcode) \subseteq Decodings
    BY <2>1, SeenByGroup, DecodeOpcodeType
  <2>. QED BY <2>2 DEF SweepInv, TypeOK
<1>. QED BY <1>1, SweepInvariant, PTL

\* An instruction reads MEM_DATA as its right operand exactly when the mode
\* of its specifier is one of memory, and then run_before has an entry that
\* reads (absolute mode has none).
THEOREM SourcesFetched == Spec => []SourceFetchedWhenInMemory
<1>1. SweepInv => SourceFetchedWhenInMemory
  <2>. SUFFICES ASSUME SweepInv, OneSource
                PROVE  Fetches(decoding.inst, SrcRM(opcode))
    BY DEF SourceFetchedWhenInMemory, Fetches, core, before
  <2>1. CASE IsLdGroup(opcode)
    BY <2>1, SeenByGroup, LdOneRMDecodes, LdTwoRMDecodes
  <2>2. CASE IsArithLogic(opcode) /\ ~ ImmForm(opcode)
    BY <2>2, SeenByGroup, ArithRegisterDecodes
  <2>. QED BY <2>1, <2>2 DEF OneSource
<1>. QED BY <1>1, SweepInvariant, PTL

\* run_after stores the second operand of LD exactly when it is in memory,
\* by the entry of its mode, marked as the second.
THEOREM DestinationsStored == Spec => []DestinationStoredWhenInMemory
<1>1. SweepInv => DestinationStoredWhenInMemory
  <2>. SUFFICES ASSUME SweepInv PROVE DestinationStoredWhenInMemory
    OBVIOUS
  <2>1. CASE TwoOperands
    <3>1. Stores(decoding.inst, DestRM(opcode))
      BY <2>1, SeenByGroup, LdTwoRMDecodes DEF TwoOperands
    <3>. QED BY <2>1, <3>1 DEF DestinationStoredWhenInMemory, Stores, after
  <2>2. CASE ~ TwoOperands
    <3>1. decoding.inst.after.idx = "NONE"
      BY <2>2, SeenByGroup, ArithImmediateDecodes, ArithRegisterDecodes,
         LdOneRMDecodes, LdOtherDecodes DEF TwoOperands
    <3>. QED BY <2>2, <3>1 DEF DestinationStoredWhenInMemory, after
  <2>. QED BY <2>1, <2>2
<1>. QED BY <1>1, SweepInvariant, PTL

\* core_op writes memory only for the immediate form with its operand in
\* memory, and MEM_DATA is a destination nowhere else.
THEOREM OnlyImmediateWritesBack == Spec => []WriteBackOnlyForImmediateForm
<1>1. SweepInv => WriteBackOnlyForImmediateForm
  <2>. SUFFICES ASSUME SweepInv PROVE WriteBackOnlyForImmediateForm
    OBVIOUS
  <2>1. CASE ImmForm(opcode) /\ InMemory(SrcRM(opcode))
    <3>1. /\ decoding.inst.core.latch = "HALF2_MAR"
          /\ decoding.inst.core.src0 = MemData
          /\ decoding.inst.core.write = "FROM_DEST"
      BY <2>1, SeenByGroup, ArithImmediateDecodes
    <3>. QED BY <2>1, <3>1 DEF WriteBackOnlyForImmediateForm, core
  <2>2. CASE ~ (ImmForm(opcode) /\ InMemory(SrcRM(opcode)))
    <3>1. WritesNothingBack(decoding.inst)
      BY <2>2, SeenByGroup, ArithImmediateDecodes, ArithRegisterDecodes,
         LdOneRMDecodes, LdTwoRMDecodes, LdOtherDecodes
    <3>. QED BY <2>2, <3>1
             DEF WriteBackOnlyForImmediateForm, WritesNothingBack, core
  <2>. QED BY <2>1, <2>2
<1>. QED BY <1>1, SweepInvariant, PTL
=============================================================================
