----------------------------- MODULE AluProofs ------------------------------
(***************************************************************************)
(* Theorems about the ALU, for every control word the decoder or the       *)
(* microcode ROM makes, every shift, every operand of 24 bits and all      *)
(* flags.                                                                  *)
(***************************************************************************)
EXTENDS AluSweep, DecodeInstProofs

-----------------------------------------------------------------------------
(***************************************************************************)
(* Control words.                                                          *)
(***************************************************************************)

\* What the proofs need to know of a control word: which fields nothing
\* sets, that no operand is both negated and sign-extended and none whose sum
\* writes flags is, which flags those are, and that only operands of one size
\* are shifted.  The two sizes may differ in every other word.
Shape(c) ==
  /\ c \in AluControls
  /\ c.sign0 = FALSE /\ c.add1 = FALSE /\ c.invert = FALSE
  /\ c.negate = TRUE => c.sign1 = FALSE
  /\ c.mask # {} =>
       /\ c.sign1 = FALSE /\ ResultFlags \subseteq c.mask
       /\ c.shifter = "NONE" => c.vmode = "NORMAL"
  /\ c.shifter # "NONE" =>
       /\ c.op = "OR" /\ c.mask # {} /\ c.vmode = "SHIFTER_CARRY"
       /\ c.negate = FALSE /\ c.add_carry = FALSE /\ c.size1 = c.size0

\* The masks that are used.
LEMMA MaskWords ==
  /\ ResultFlags \in Words(8) /\ ResultFlags \cup {F_EXTEND} \in Words(8)
  /\ {} \in Words(8) /\ ResultFlags # {}
BY DEF ResultFlags, Words, Below, F_NEG, F_ZERO, F_OVERFLOW, F_CARRY, F_EXTEND

\* The word the others are made from.
IsPlain(c, op, size) ==
  /\ c \in AluControls /\ c.op = op /\ c.size0 = size /\ c.size1 = size
  /\ c.sign0 = FALSE /\ c.sign1 = FALSE /\ c.add1 = FALSE
  /\ c.add_carry = FALSE /\ c.negate = FALSE /\ c.invert = FALSE
  /\ c.shifter = "NONE" /\ c.vmode = "NORMAL" /\ c.mask = {}

\* The fields of that word.
LEMMA PlainFields ==
  ASSUME NEW op \in AluOps, NEW size \in Sizes
  PROVE  IsPlain(PlainControl(op, size), op, size)
BY MaskWords DEF IsPlain, PlainControl, AluControls, ShifterModes, FlagVModes

\* A source has a size.
LEMMA SourceSizeType ==
  ASSUME NEW rm, NEW size \in Sizes PROVE SourceSize(rm, size) \in Sizes
BY DEF SourceSize, Sizes

\* The operations of the arithmetic group.
LEMMA ArithShape ==
  ASSUME NEW opcode \in Opcode, IsArithLogic(opcode)
  PROVE  Shape(ArithControl(opcode))
<1>. DEFINE operation == IF ImmForm(opcode) THEN ImmOperation(opcode)
                                            ELSE Operation(opcode) % 8
            op == ArithOp(operation)
            size == Size(opcode)
            source == SourceSize(SrcRM(opcode), size)
            size0 == IF ImmForm(opcode) THEN source ELSE size
            size1 == IF ImmForm(opcode) THEN size ELSE source
            base == PlainControl(op, size)
            mask == IF operation \in 0 .. 3
                      THEN ResultFlags \cup {F_EXTEND} ELSE ResultFlags
            carry == operation \in {1, 3}
            negate == operation \in {2, 3, 7}
            c == [base EXCEPT !.size0 = size0, !.size1 = size1,
                              !.add_carry = carry, !.negate = negate,
                              !.mask = mask]
<1>1. size \in Sizes
  BY OpcodeRange, SMT DEF IsArithLogic, Size, Sizes
<1>2. operation \in {0, 1, 2, 3, 4, 5, 6, 7}
  BY OpcodeRange, SMT DEF ImmOperation, Operation
<1>3. op \in AluOps
  <2>. HIDE DEF operation
  <2>. QED BY <1>2 DEF ArithOp, AluOps
<1>4. size0 \in Sizes /\ size1 \in Sizes
  <2>1. source \in Sizes
    BY <1>1, SourceSizeType
  <2>. HIDE DEF source, size
  <2>. QED BY <1>1, <2>1
<1>5. IsPlain(base, op, size)
  <2>. HIDE DEF op, size
  <2>. QED BY <1>1, <1>3, PlainFields
<1>6. ArithControl(opcode) = c
  <2>1. base.size0 = size /\ base.size1 = size
    BY DEF PlainControl
  <2>2. ArithControl(opcode)
          = [base EXCEPT !.size0 = IF ImmForm(opcode) THEN source ELSE @,
                         !.size1 = IF ImmForm(opcode) THEN @ ELSE source,
                         !.add_carry = carry, !.negate = negate,
                         !.mask = mask]
    BY DEF ArithControl
  <2>. HIDE DEF base, source, size, carry, negate, mask
  <2>. QED BY <2>1, <2>2
<1>7. /\ mask \in Words(8) /\ ResultFlags \subseteq mask
      /\ carry \in BOOLEAN /\ negate \in BOOLEAN
  BY MaskWords
<1>. HIDE DEF base, mask, carry, negate, op, size, size0, size1
<1>8. Shape(c)
  BY <1>4, <1>5, <1>7 DEF IsPlain, Shape, AluControls
<1>. QED BY <1>6, <1>8

\* A word that writes no flag and does not shift: loads and the entries of
\* the ROM.
LEMMA PlainShape ==
  ASSUME NEW c \in AluControls, NEW op \in AluOps, NEW size \in Sizes,
         NEW base, IsPlain(base, op, size),
         c.sign0 = base.sign0, c.add1 = base.add1, c.invert = base.invert,
         c.shifter = base.shifter, c.vmode = base.vmode, c.mask = base.mask,
         c.negate = TRUE => c.sign1 = FALSE
  PROVE  Shape(c)
BY DEF Shape, IsPlain

\* The shifts.
LEMMA ShiftShape ==
  ASSUME NEW c \in ShiftControls PROVE Shape(c)
<1>1. PICK size \in Sizes, m \in ShiftsLeft \cup ShiftsRight :
        c = ShiftControl(size, m)
  BY DEF ShiftControls
<1>2. m \in ShifterModes /\ m # "NONE"
  BY <1>1 DEF ShifterModes, ShiftsLeft, ShiftsRight
<1>. DEFINE or == "OR"
            base == PlainControl(or, size)
<1>3. or \in AluOps
  BY DEF AluOps
<1>4. c = [base EXCEPT !.shifter = m, !.vmode = "SHIFTER_CARRY",
                       !.mask = ResultFlags]
  BY <1>1 DEF ShiftControl
<1>. HIDE DEF or
<1>7. IsPlain(base, or, size)
  BY <1>3, PlainFields
<1>. HIDE DEF base
<1>6. /\ base \in AluControls /\ base.size1 = base.size0 /\ base.op = or
      /\ base.sign0 = FALSE /\ base.sign1 = FALSE /\ base.add1 = FALSE
      /\ base.invert = FALSE /\ base.negate = FALSE /\ base.add_carry = FALSE
  BY <1>7 DEF IsPlain
<1>5. c \in AluControls
  BY <1>2, <1>6, <1>4, MaskWords DEF AluControls, FlagVModes
<1>. QED BY <1>2, <1>4, <1>5, <1>6, MaskWords DEF Shape, AluControls, or

\* The loads.
LEMMA LdShape ==
  ASSUME NEW opcode \in Opcode, IsLdGroup(opcode), NEW c \in LdControls(opcode)
  PROVE  Shape(c)
<1>. DEFINE or == "OR"
            size == Size(opcode)
            source == SourceSize(SrcRM(opcode), size)
            base == PlainControl(or, size)
            wide == IF (opcode \div 64) % 4 = 3 THEN 2 ELSE size
<1>1. size \in Sizes
  BY OpcodeRange, SMT DEF IsLdGroup, Size, Sizes
<1>2. wide \in Sizes /\ source \in Sizes
  <2>. HIDE DEF size
  <2>. QED BY <1>1, SourceSizeType DEF Sizes
<1>3. PICK extend \in BOOLEAN : c = LdControl(opcode, extend)
  BY DEF LdControls
<1>. DEFINE sign == SourceSign(SrcRM(opcode), extend)
<1>4. sign \in BOOLEAN
  BY DEF SourceSign, ShortForm
<1>5. c = [base EXCEPT !.size0 = wide, !.size1 = source, !.sign1 = sign]
  BY <1>3 DEF LdControl, PlainControl
<1>6. or \in AluOps
  BY DEF AluOps
<1>. HIDE DEF or, size, source, sign
<1>7. IsPlain(base, or, size)
  BY <1>1, <1>6, PlainFields
<1>. HIDE DEF base, wide
<1>8. c \in AluControls
  BY <1>2, <1>4, <1>5, <1>7 DEF IsPlain, AluControls
<1>. QED BY <1>5, <1>7, <1>8 DEF IsPlain, Shape, AluControls

\* LD.P and LDQ.
LEMMA LdOtherShape ==
  ASSUME NEW opcode \in Opcode PROVE Shape(LdOtherControl(opcode))
<1>. DEFINE or == "OR"
            base == PlainControl(or, 2)
            c == [base EXCEPT !.size1 = 0, !.sign1 = TRUE]
<1>1. LdOtherControl(opcode) \in {base, c}
  BY DEF LdOtherControl
<1>2. or \in AluOps /\ 2 \in Sizes /\ 0 \in Sizes
  BY DEF AluOps, Sizes
<1>. HIDE DEF or
<1>3. IsPlain(base, or, 2)
  BY <1>2, PlainFields
<1>. HIDE DEF base
<1>4. c \in AluControls
  BY <1>2, <1>3 DEF IsPlain, AluControls
<1>5. Shape(c)
  BY <1>3, <1>4 DEF IsPlain, Shape, AluControls
<1>6. Shape(base)
  BY <1>3 DEF IsPlain, Shape
<1>. QED BY <1>1, <1>5, <1>6

\* What the entries of the ROM have in common.
EntryShape(c) ==
  /\ c \in AluControls
  /\ c.sign0 = FALSE /\ c.add1 = FALSE /\ c.invert = FALSE
  /\ c.negate = TRUE => c.sign1 = FALSE
  /\ c.shifter = "NONE" /\ c.mask = {}

\* The words of the two-cycle entries.
LEMMA SourceShape ==
  ASSUME NEW spec \in Specs PROVE EntryShape(SourceControl(spec))
<1>. DEFINE add == "ADD"
            off == "OFF"
            size == spec.size
            plain == PlainControl(add, size)
            base == [plain EXCEPT !.size0 = 2]
            bits == (spec.sel \div 8) % 2 = 1
            wide == spec.size = 1
<1>1. /\ add \in AluOps /\ off \in AluOps /\ size \in Sizes
      /\ bits \in BOOLEAN /\ wide \in BOOLEAN
      /\ 0 \in Sizes /\ 1 \in Sizes /\ 2 \in Sizes
  BY DEF AluOps, Sizes, Specs
<1>2. SourceControl(spec) \in
        {[base EXCEPT !.size0 = size, !.negate = TRUE],
         [base EXCEPT !.size0 = size, !.size1 = 2],
         [base EXCEPT !.size0 = size, !.size1 = 1, !.sign1 = TRUE],
         [base EXCEPT !.sign1 = bits],
         [base EXCEPT !.size1 = 0, !.sign1 = TRUE],
         [base EXCEPT !.sign1 = wide],
         [base EXCEPT !.size1 = 2],
         [base EXCEPT !.op = off, !.size0 = 0],
         [base EXCEPT !.op = off, !.size0 = size],
         [base EXCEPT !.op = off]}
  BY DEF SourceControl
<1>. HIDE DEF add, off, size, bits, wide
<1>3. IsPlain(plain, add, size)
  BY <1>1, PlainFields
<1>. HIDE DEF plain
<1>4. /\ base \in AluControls /\ base.size1 = size /\ base.sign0 = FALSE
      /\ base.sign1 = FALSE /\ base.add1 = FALSE /\ base.negate = FALSE
      /\ base.invert = FALSE /\ base.shifter = "NONE" /\ base.mask = {}
  BY <1>1, <1>3 DEF IsPlain, AluControls
<1>. HIDE DEF base
<1>5. ASSUME NEW x \in Sizes, NEW y \in BOOLEAN
      PROVE  /\ EntryShape([base EXCEPT !.size1 = x])
             /\ EntryShape([base EXCEPT !.sign1 = y])
             /\ EntryShape([base EXCEPT !.size1 = x, !.sign1 = y])
             /\ EntryShape([base EXCEPT !.size0 = size, !.size1 = x,
                                        !.sign1 = y])
             /\ EntryShape([base EXCEPT !.size0 = size, !.size1 = x])
  <2>1. EntryShape([base EXCEPT !.size1 = x])
    BY <1>4, <1>5 DEF EntryShape, AluControls
  <2>2. EntryShape([base EXCEPT !.sign1 = y])
    BY <1>4, <1>5 DEF EntryShape, AluControls
  <2>3. EntryShape([base EXCEPT !.size1 = x, !.sign1 = y])
    BY <1>4, <1>5 DEF EntryShape, AluControls
  <2>4. EntryShape([base EXCEPT !.size0 = size, !.size1 = x, !.sign1 = y])
    BY <1>1, <1>4, <1>5 DEF EntryShape, AluControls
  <2>5. EntryShape([base EXCEPT !.size0 = size, !.size1 = x])
    BY <1>1, <1>4, <1>5 DEF EntryShape, AluControls
  <2>. QED BY <2>1, <2>2, <2>3, <2>4, <2>5
<1>6. \A x \in Sizes :
        /\ EntryShape([base EXCEPT !.op = off])
        /\ EntryShape([base EXCEPT !.op = off, !.size0 = x])
  BY <1>1, <1>4 DEF EntryShape, AluControls
<1>7. EntryShape([base EXCEPT !.size0 = size, !.negate = TRUE])
  BY <1>1, <1>4 DEF EntryShape, AluControls
<1>. QED BY <1>1, <1>2, <1>5, <1>6, <1>7

\* The entries of the ROM.
LEMMA RomShape ==
  ASSUME NEW spec \in Specs, NEW c \in EntryControls(spec) PROVE Shape(c)
<1>. DEFINE s == SourceControl(spec)
<1>1. EntryShape(s)
  BY SourceShape
<1>2. PICK carry \in BOOLEAN : c = [s EXCEPT !.add_carry = carry]
  BY DEF EntryControls
<1>. HIDE DEF s
<1>3. c \in AluControls
  BY <1>1, <1>2 DEF EntryShape, AluControls
<1>. QED BY <1>1, <1>2, <1>3 DEF EntryShape, Shape, AluControls

\* Every control word there is.
LEMMA ControlShape ==
  ASSUME NEW c \in Controls PROVE Shape(c)
<1>1. CASE c \in ShiftControls
  BY <1>1, ShiftShape
<1>2. CASE \E spec \in Specs : c \in EntryControls(spec)
  BY <1>2, RomShape
<1>3. ASSUME NEW opcode \in Opcode, c \in CoreControls(opcode)
      PROVE  Shape(c)
  <2>1. \/ c = LdOtherControl(opcode)
        \/ IsArithLogic(opcode) /\ c = ArithControl(opcode)
        \/ IsLdGroup(opcode) /\ c \in LdControls(opcode)
    BY <1>3 DEF CoreControls
  <2>2. CASE c = LdOtherControl(opcode)
    BY <2>2, LdOtherShape
  <2>3. CASE IsArithLogic(opcode) /\ c = ArithControl(opcode)
    BY <2>3, ArithShape
  <2>4. CASE IsLdGroup(opcode) /\ c \in LdControls(opcode)
    BY <2>4, LdShape
  <2>. QED BY <2>1, <2>2, <2>3, <2>4
<1>4. \/ c \in ShiftControls
      \/ \E opcode \in Opcode : c \in CoreControls(opcode)
      \/ \E spec \in Specs : c \in EntryControls(spec)
  <2>1. c \in DecodedControls \/ c \in ShiftControls
    BY SweepAssumption
  <2>. DEFINE cores == {CoreControls(opcode) : opcode \in Opcode}
              entries == {EntryControls(spec) : spec \in Specs}
  <2>2. c \in UNION cores \/ c \in UNION entries \/ c \in ShiftControls
    BY <2>1 DEF DecodedControls
  <2>3. ASSUME NEW s \in cores, c \in s
        PROVE  \E opcode \in Opcode : c \in CoreControls(opcode)
    BY <2>3
  <2>4. ASSUME NEW s \in entries, c \in s
        PROVE  \E spec \in Specs : c \in EntryControls(spec)
    BY <2>4
  <2>. HIDE DEF cores, entries
  <2>. QED BY <2>2, <2>3, <2>4
<1>. QED BY <1>1, <1>2, <1>3, <1>4

-----------------------------------------------------------------------------
\* A sum of words of k bits has at most k + 1.
LEMMA PlusBound ==
  ASSUME NEW k \in 1 .. 31, NEW a \in Words(k), NEW b \in Words(k)
  PROVE  Plus(a, b) \in Words(k + 1)
<1>1. ASSUME NEW i \in Carries(a, b) PROVE i \in Below(k + 1)
  <2>1. PICK j \in 0 .. i - 1 :
          j \in a \cap b /\ (j + 1) .. (i - 1) \subseteq a \cup b
    BY <1>1 DEF Carries
  <2>2. i \in 1 .. 31
    BY <1>1 DEF Carries
  <2>3. CASE i = j + 1
    BY <2>1, <2>2, <2>3 DEF Words, Below
  <2>4. CASE i # j + 1
    <3>1. i - 1 \in (j + 1) .. (i - 1)
      BY <2>1, <2>2, <2>4
    <3>2. i - 1 \in 0 .. k - 1
      BY <2>1, <3>1 DEF Words, Below
    <3>. QED BY <2>2, <3>2 DEF Below
  <2>. QED BY <2>3, <2>4
<1>2. Carries(a, b) \subseteq Below(k + 1)
  BY <1>1
<1>3. Below(k) \subseteq Below(k + 1)
  BY DEF Below
<1>. QED BY <1>2, <1>3 DEF Plus, Xor, Words

\* No sum has more than 32 bits, as uint32_t.
LEMMA PlusType ==
  ASSUME NEW a \in Words(32), NEW b \in Words(32)
  PROVE  Plus(a, b) \in Words(32)
<1>1. Carries(a, b) \subseteq Below(32)
  BY DEF Carries, Below
<1>. QED BY <1>1 DEF Plus, Xor, Words

\* A word of k bits is one of m bits when m is no less.
LEMMA MoreBits ==
  ASSUME NEW k \in 0 .. 32, NEW m \in 0 .. 32, k <= m, NEW a \in Words(k)
  PROVE  a \in Words(m)
BY DEF Words, Below

-----------------------------------------------------------------------------
\* The left operand has the bits of its size.
LEMMA OperandType ==
  ASSUME NEW latch \in Words(24), NEW size \in Sizes
  PROVE  Operand(latch, size, FALSE) \in Words(Width(size))
<1>1. Operand(latch, size, FALSE) = latch \cap Below(Width(size))
  BY DEF Operand
<1>. QED BY <1>1 DEF Words

\* The widths there are.
LEMMA WidthType ==
  ASSUME NEW size \in Sizes
  PROVE  /\ Width(size) \in {8, 16, 24} /\ TopBit(size) \in {7, 15, 23}
         /\ size = 0 => Width(size) = 8
BY DEF Width, TopBit, Sizes

\* The shifter takes 16 bits and returns 16, whatever the mode and size.
LEMMA ShiftType ==
  ASSUME NEW c \in AluControls, NEW operand \in Words(16),
         NEW carry \in BOOLEAN
  PROVE  Shift(c, operand, carry) \in Words(16)
<1>1. c.shifter \in ShifterModes
  BY DEF AluControls
<1>2. CASE c.shifter = "NONE"
  BY <1>2 DEF Shift, ShiftsLeft, ShiftsRight
<1>3. CASE c.shifter \in ShiftsLeft
  <2>1. Shift(c, operand, carry)
          = (Up(operand, 1) \cap Below(16))
              \cup BitIf(ShiftIn(c, operand, carry), 0)
    BY <1>3 DEF Shift, ShiftsLeft, ShiftsRight
  <2>2. BitIf(ShiftIn(c, operand, carry), 0) \subseteq Below(16)
    BY DEF BitIf, Below
  <2>. QED BY <2>1, <2>2 DEF Words
<1>4. CASE c.shifter \in ShiftsRight
  <2>1. Shift(c, operand, carry)
          = (Down(operand, 1) \cup BitIf(ShiftIn(c, operand, carry),
                                        TopBit(c.size1))) \cap Below(16)
    BY <1>4 DEF Shift, ShiftsLeft, ShiftsRight
  <2>. QED BY <2>1 DEF Words
<1>. QED BY <1>1, <1>2, <1>3, <1>4 DEF ShifterModes

\* The two operands as they meet in the ALU.
Left24(c, latch0) == Operand(latch0, c.size0, c.sign0)
Right16(c, latch1, carry) ==
  Shift(c, RightOperand(c, latch1, carry) \cap Below(16), carry)

\* What meets in the ALU: a left operand of the size, a right one of 16 bits.
LEMMA OperandsMeet ==
  ASSUME NEW c \in AluControls, ~ c.sign0, NEW latch0 \in Words(24),
         NEW latch1, NEW carry \in BOOLEAN
  PROVE  /\ Left24(c, latch0) \in Words(24)
         /\ c.size0 = 0 => Left24(c, latch0) \in Words(8)
         /\ Right16(c, latch1, carry) \in Words(16)
<1>1. c.size0 \in Sizes /\ c.sign0 = FALSE
  BY DEF AluControls
<1>2. Left24(c, latch0) \in Words(Width(c.size0))
  BY <1>1, OperandType DEF Left24
<1>3. RightOperand(c, latch1, carry) \cap Below(16) \in Words(16)
  BY DEF Words
<1>. QED BY <1>1, <1>2, <1>3, WidthType, MoreBits, ShiftType DEF Right16

\* What an operation leaves fits 24 bits, and 17 if it was on bytes.
LEMMA OperateType ==
  ASSUME NEW op \in AluOps, NEW a \in Words(24), NEW b \in Words(16),
         NEW old \in Words(24)
  PROVE  /\ Operate(op, a, b, old) \in Words(24)
         /\ op = "ADD" /\ a \in Words(8) => Operate(op, a, b, old) \in Words(17)
<1>1. b \in Words(24)
  BY MoreBits
<1>2. CASE op = "ADD"
  <2>1. Operate(op, a, b, old) = Plus(a, b) \cap Below(24)
    BY <1>2 DEF Operate
  <2>2. ASSUME a \in Words(8) PROVE Plus(a, b) \in Words(17)
    <3>1. a \in Words(16)
      BY <2>2, MoreBits
    <3>. QED BY <3>1, PlusBound
  <2>. QED BY <2>1, <2>2 DEF Words
<1>3. CASE op # "ADD"
  BY <1>1, <1>3 DEF Operate, Words, Xor, AluOps
<1>. QED BY <1>2, <1>3

\* Adjusting a byte stays far below 24 bits; any other word may carry out.
LEMMA AdjustedType ==
  ASSUME NEW out
  PROVE  /\ out \in Words(17) => Adjusted(out) \in Words(24)
         /\ out \in Words(24) => Adjusted(out) \in Words(32)
<1>1. {4} \in Words(17) /\ {4} \in Words(32)
  BY DEF Words, Below
<1>2. ASSUME out \in Words(17) PROVE Plus(out, {4}) \in Words(24)
  <2>1. Plus(out, {4}) \in Words(18)
    BY <1>1, <1>2, PlusBound
  <2>. QED BY <2>1, MoreBits
<1>3. ASSUME out \in Words(24) PROVE Plus(out, {4}) \in Words(32)
  <2>1. out \in Words(32)
    BY <1>3, MoreBits
  <2>. QED BY <1>1, <2>1, PlusType
<1>. QED BY <1>2, <1>3 DEF Adjusted

\* The flags stay a byte.
LEMMA FlagsType ==
  ASSUME NEW c \in AluControls, NEW old \in Words(8), NEW a, NEW b, NEW out,
         NEW entered, NEW shifted
  PROVE  ModifyFlags(c, old, a, b, out, entered, shifted) \in Words(8)
<1>1. c.mask \in Words(8)
  BY DEF AluControls
<1>. QED BY <1>1 DEF ModifyFlags, Words

-----------------------------------------------------------------------------
\* What a result of execute_half2_result_latch_ is, case by case.
LEMMA ResultOf ==
  ASSUME NEW c \in AluControls, ~ c.sign0, NEW latch0 \in Words(24),
         NEW latch1, NEW byte \in Words(8), NEW old \in Words(24),
         NEW r \in Results(c, latch0, latch1, byte, old)
  PROVE  /\ r.out \in Words(32) /\ r.flags \in Words(8)
         /\ c.op # "OFF" \/ F_DECIMAL \notin byte => r.out \in Words(24)
<1>. DEFINE carry == F_CARRY \in byte
            a == Left24(c, latch0)
            b == Right16(c, latch1, carry)
            sum == Operate(c.op, a, b, old)
<1>1. c.op \in AluOps /\ c.size0 \in Sizes
  BY DEF AluControls
<1>2. a \in Words(24) /\ b \in Words(16) /\ (c.size0 = 0 => a \in Words(8))
  <2>1. carry \in BOOLEAN
    OBVIOUS
  <2>. HIDE DEF carry
  <2>. QED BY <2>1, OperandsMeet
<1>3. PICK carries \in CarryWords(c.op, a, b, sum) :
        \E entered, shifted :
          r = [out   |-> IF Adjusts(c, byte, carries) THEN Adjusted(sum)
                                                     ELSE sum,
               flags |-> IF c.op = "OFF" THEN byte
                         ELSE ModifyFlags(c, byte, a, b,
                                IF Adjusts(c, byte, carries)
                                  THEN Adjusted(sum) ELSE sum,
                                entered, shifted)]
  BY DEF Results, Left24, Right16
<1>. HIDE DEF a, b, sum, carry
<1>4. sum \in Words(24) /\ (c.op = "ADD" /\ c.size0 = 0 => sum \in Words(17))
  BY <1>1, <1>2, OperateType DEF sum
<1>5. sum \in Words(32)
  BY <1>4, MoreBits
<1>6. r.flags \in Words(8)
  BY <1>3, FlagsType
<1>7. CASE ~ Adjusts(c, byte, carries)
  BY <1>3, <1>4, <1>5, <1>6, <1>7
<1>8. CASE Adjusts(c, byte, carries)
  <2>1. c.size0 = 0 /\ F_DECIMAL \in byte /\ 3 \in carries
    BY <1>8 DEF Adjusts
  <2>2. r.out = Adjusted(sum)
    BY <1>3, <1>8
  <2>3. c.op # "OFF" => c.op = "ADD"
    BY <1>3, <2>1 DEF CarryWords
  <2>. QED BY <1>4, <1>6, <2>1, <2>2, <2>3, AdjustedType
<1>. QED BY <1>7, <1>8

\* The registers of the ALU keep the width the code declares them with.
ControlInv ==
  /\ TypeOK
  /\ ~ Done => alu_output_latch \in Words(24)

\* The invariant behind the two types holds at first.
LEMMA InvInit == Init => ControlInv /\ OutputFits
<1>. SUFFICES ASSUME Init PROVE ControlInv /\ OutputFits
  OBVIOUS
<1>1. execution_phase = "HALF2_RESULT_LATCH" /\ ~ Done
  BY DEF Init, Done
<1>2. {} \in Operands /\ Operands \subseteq Words(24) /\ FlagBytes \subseteq Words(8)
  BY SweepAssumption
<1>3. Lefts(control) \subseteq Operands /\ Rights(control) \subseteq Operands
      /\ Olds(control) \subseteq Operands
  BY <1>2 DEF Lefts, Rights, Olds
<1>4. alu_output_latch \in Words(24) /\ flags \in Words(8) /\ f \in FlagBytes
      /\ control \in Controls /\ alu_input_latches \in Operands \X Operands
  BY <1>2, <1>3 DEF Init
<1>5. alu_output_latch \in Words(32)
  BY <1>4, MoreBits
<1>. QED BY <1>1, <1>4, <1>5 DEF ControlInv, TypeOK, OutputFits

\* And the step keeps it.
LEMMA InvStep ==
  ASSUME ControlInv, OutputFits, [ResultLatch]_vars
  PROVE  ControlInv' /\ OutputFits'
<1>1. CASE UNCHANGED vars
  BY <1>1 DEF vars, inputs, ControlInv, TypeOK, OutputFits, Done
<1>2. CASE ResultLatch
  <2>1. PICK r \in Results(control, alu_input_latches[1],
                           alu_input_latches[2], f, alu_output_latch) :
          alu_output_latch' = r.out /\ flags' = r.flags
    BY <1>2 DEF ResultLatch
  <2>2. /\ execution_phase = "HALF2_RESULT_LATCH"
        /\ execution_phase' = "HALF2_MEM_PREPARE" /\ Done'
        /\ control' = control /\ f' = f
        /\ alu_input_latches' = alu_input_latches
    BY <1>2 DEF ResultLatch, inputs, Done
  <2>3. control \in AluControls /\ ~ control.sign0
    BY ControlShape DEF ControlInv, TypeOK, Shape
  <2>4. /\ alu_input_latches[1] \in Words(24) /\ f \in Words(8)
        /\ alu_output_latch \in Words(24)
    BY <2>2, SweepAssumption DEF ControlInv, TypeOK, Done
  <2>5. /\ alu_output_latch' \in Words(32) /\ flags' \in Words(8)
        /\ control.op # "OFF" \/ F_DECIMAL \notin f
             => alu_output_latch' \in Words(24)
    BY <2>1, <2>3, <2>4, ResultOf
  <2>. QED BY <2>2, <2>5 DEF ControlInv, TypeOK, OutputFits
<1>. QED BY <1>1, <1>2

\* The output latch holds 32 bits at most and the flags 8, for every control
\* word, uninitialised carries included.
THEOREM AluTypeCorrect == Spec => []TypeOK
<1>1. Init => ControlInv /\ OutputFits
  BY InvInit
<1>2. ControlInv /\ OutputFits /\ [ResultLatch]_vars => (ControlInv /\ OutputFits)'
  BY InvStep
<1>3. ControlInv => TypeOK
  BY DEF ControlInv
<1>. QED BY <1>1, <1>2, <1>3, PTL DEF Spec

\* The output latch, which is not masked when it becomes an address or a
\* register, has 24 bits, unless the ALU is off in decimal mode.
THEOREM OutputHas24Bits == Spec => []OutputFits
<1>1. Init => ControlInv /\ OutputFits
  BY InvInit
<1>2. ControlInv /\ OutputFits /\ [ResultLatch]_vars => (ControlInv /\ OutputFits)'
  BY InvStep
<1>. QED BY <1>1, <1>2, PTL DEF Spec

-----------------------------------------------------------------------------
(***************************************************************************)
(* Words as numbers.                                                       *)
(***************************************************************************)

\* A bit is a number.
LEMMA BitType == \A word, i : Bit(word, i) \in {0, 1}
BY DEF Bit

\* A byte is one of 256 numbers.
LEMMA ByteType ==
  ASSUME NEW word, NEW i \in Nat PROVE Byte(word, i) \in 0 .. 255
<1>. DEFINE n(k) == Bit(word, i + k)
<1>1. \A k : n(k) \in {0, 1}
  BY BitType
<1>2. Bit(word, i) \in {0, 1}
  BY BitType
<1>. HIDE DEF n
<1>3. Bit(word, i) + 2 * n(1) + 4 * n(2) + 8 * n(3) + 16 * n(4) + 32 * n(5)
        + 64 * n(6) + 128 * n(7) \in 0 .. 255
  BY <1>1, <1>2
<1>. QED BY <1>3 DEF Byte, n

\* Where a carry goes: the rule of a full adder.
LEMMA CarryStep ==
  ASSUME NEW a, NEW b, NEW i \in 0 .. 30
  PROVE  i + 1 \in Carries(a, b)
           <=> (i \in a /\ i \in b)
               \/ ((i \in a \/ i \in b) /\ i \in Carries(a, b))
<1>1. i + 1 \in 1 .. 31
  OBVIOUS
<1>2. ASSUME i + 1 \in Carries(a, b), ~ (i \in a /\ i \in b)
      PROVE  (i \in a \/ i \in b) /\ i \in Carries(a, b)
  <2>1. PICK j \in 0 .. i : j \in a \cap b /\ (j + 1) .. i \subseteq a \cup b
    BY <1>2 DEF Carries
  <2>2. j < i /\ i \in (j + 1) .. i
    BY <1>2, <2>1
  <2>3. i \in 1 .. 31 /\ j \in 0 .. i - 1
    BY <2>1, <2>2
  <2>4. (j + 1) .. (i - 1) \subseteq (j + 1) .. i
    BY <2>3
  <2>5. i \in Carries(a, b)
    BY <2>1, <2>3, <2>4 DEF Carries
  <2>. QED BY <2>1, <2>2, <2>5
<1>3. ASSUME i \in a, i \in b PROVE i + 1 \in Carries(a, b)
  <2>1. i \in 0 .. (i + 1) - 1 /\ (i + 1) .. ((i + 1) - 1) = {}
    OBVIOUS
  <2>. QED BY <1>1, <1>3, <2>1 DEF Carries
<1>4. ASSUME i \in a \/ i \in b, i \in Carries(a, b)
      PROVE  i + 1 \in Carries(a, b)
  <2>1. PICK j \in 0 .. i - 1 :
          j \in a \cap b /\ (j + 1) .. (i - 1) \subseteq a \cup b
    BY <1>4 DEF Carries
  <2>2. ASSUME NEW k \in (j + 1) .. ((i + 1) - 1) PROVE k \in a \cup b
    <3>1. k = i \/ k \in (j + 1) .. (i - 1)
      BY <2>1, <2>2
    <3>. QED BY <1>4, <2>1, <3>1
  <2>3. j \in 0 .. (i + 1) - 1
    BY <2>1
  <2>. QED BY <1>1, <2>1, <2>2, <2>3 DEF Carries
<1>. QED BY <1>2, <1>3, <1>4

\* One position of a sum.
LEMMA BitSum ==
  ASSUME NEW a, NEW b, NEW i \in 0 .. 30
  PROVE  Bit(a, i) + Bit(b, i) + Bit(Carries(a, b), i)
           = Bit(Plus(a, b), i) + 2 * Bit(Carries(a, b), i + 1)
<1>. DEFINE carries == Carries(a, b)
<1>1. i + 1 \in carries
        <=> (i \in a /\ i \in b) \/ ((i \in a \/ i \in b) /\ i \in carries)
  BY CarryStep
<1>2. i \in Plus(a, b) <=> ((i \in a) # (i \in b)) # (i \in carries)
  BY DEF Plus, Xor
<1>. HIDE DEF carries
<1>3. Bit(a, i) + Bit(b, i) + Bit(carries, i)
        = Bit(Plus(a, b), i) + 2 * Bit(carries, i + 1)
  BY <1>1, <1>2 DEF Bit
<1>. QED BY <1>3 DEF carries

\* Eight positions.
LEMMA ByteSum ==
  ASSUME NEW a, NEW b, NEW i \in 0 .. 16
  PROVE  Byte(a, i) + Byte(b, i) + Bit(Carries(a, b), i)
           = Byte(Plus(a, b), i) + 256 * Bit(Carries(a, b), i + 8)
<1>. DEFINE A(k) == Bit(a, k)  B(k) == Bit(b, k)
            C(k) == Bit(Carries(a, b), k)  S(k) == Bit(Plus(a, b), k)
<1>1. \A k \in 0 .. 30 : A(k) + B(k) + C(k) = S(k) + 2 * C(k + 1)
  BY BitSum
<1>2. \A k : A(k) \in Int /\ B(k) \in Int /\ C(k) \in Int /\ S(k) \in Int
  BY BitType
<1>. HIDE DEF A, B, C, S
<1>3. /\ A(i) + B(i) + C(i) = S(i) + 2 * C(i + 1)
      /\ A(i + 1) + B(i + 1) + C(i + 1) = S(i + 1) + 2 * C(i + 2)
      /\ A(i + 2) + B(i + 2) + C(i + 2) = S(i + 2) + 2 * C(i + 3)
      /\ A(i + 3) + B(i + 3) + C(i + 3) = S(i + 3) + 2 * C(i + 4)
      /\ A(i + 4) + B(i + 4) + C(i + 4) = S(i + 4) + 2 * C(i + 5)
      /\ A(i + 5) + B(i + 5) + C(i + 5) = S(i + 5) + 2 * C(i + 6)
      /\ A(i + 6) + B(i + 6) + C(i + 6) = S(i + 6) + 2 * C(i + 7)
      /\ A(i + 7) + B(i + 7) + C(i + 7) = S(i + 7) + 2 * C(i + 8)
  BY <1>1
<1>. DEFINE four(s0, s1, s2, s3) == s0 + 2 * s1 + 4 * s2 + 8 * s3
            A0 == four(A(i), A(i + 1), A(i + 2), A(i + 3))
            A4 == four(A(i + 4), A(i + 5), A(i + 6), A(i + 7))
            B0 == four(B(i), B(i + 1), B(i + 2), B(i + 3))
            B4 == four(B(i + 4), B(i + 5), B(i + 6), B(i + 7))
            S0 == four(S(i), S(i + 1), S(i + 2), S(i + 3))
            S4 == four(S(i + 4), S(i + 5), S(i + 6), S(i + 7))
<1>4. A0 + B0 + C(i) = S0 + 16 * C(i + 4)
  BY <1>2, <1>3
<1>5. A4 + B4 + C(i + 4) = S4 + 16 * C(i + 8)
  BY <1>2, <1>3
<1>6. /\ A0 \in Int /\ B0 \in Int /\ S0 \in Int
      /\ A4 \in Int /\ B4 \in Int /\ S4 \in Int
  BY <1>2
<1>7. /\ Byte(a, i) = A0 + 16 * A4 /\ Byte(b, i) = B0 + 16 * B4
      /\ Byte(Plus(a, b), i) = S0 + 16 * S4
  <2>1. Byte(a, i) = A0 + 16 * A4
    <3>1. A(i) + 2 * A(i + 1) + 4 * A(i + 2) + 8 * A(i + 3) + 16 * A(i + 4)
            + 32 * A(i + 5) + 64 * A(i + 6) + 128 * A(i + 7) = A0 + 16 * A4
      BY <1>2
    <3>. QED BY <3>1 DEF Byte, A
  <2>2. Byte(b, i) = B0 + 16 * B4
    <3>1. B(i) + 2 * B(i + 1) + 4 * B(i + 2) + 8 * B(i + 3) + 16 * B(i + 4)
            + 32 * B(i + 5) + 64 * B(i + 6) + 128 * B(i + 7) = B0 + 16 * B4
      BY <1>2
    <3>. QED BY <3>1 DEF Byte, B
  <2>3. Byte(Plus(a, b), i) = S0 + 16 * S4
    <3>1. S(i) + 2 * S(i + 1) + 4 * S(i + 2) + 8 * S(i + 3) + 16 * S(i + 4)
            + 32 * S(i + 5) + 64 * S(i + 6) + 128 * S(i + 7) = S0 + 16 * S4
      BY <1>2
    <3>. QED BY <3>1 DEF Byte, S
  <2>. QED BY <2>1, <2>2, <2>3
<1>. HIDE DEF A0, A4, B0, B4, S0, S4
<1>8. A0 + 16 * A4 + (B0 + 16 * B4) + C(i) = S0 + 16 * S4 + 256 * C(i + 8)
  BY <1>2, <1>4, <1>5, <1>6
<1>. QED BY <1>7, <1>8 DEF C

\* The whole word: 24 bits and what left them.
LEMMA NumberSum ==
  ASSUME NEW a, NEW b
  PROVE  Number(a) + Number(b)
           = Number(Plus(a, b)) + 16777216 * Bit(Carries(a, b), 24)
<1>. DEFINE p == Plus(a, b)  C(k) == Bit(Carries(a, b), k)
<1>1. /\ Byte(a, 0) + Byte(b, 0) + C(0) = Byte(p, 0) + 256 * C(8)
      /\ Byte(a, 8) + Byte(b, 8) + C(8) = Byte(p, 8) + 256 * C(16)
      /\ Byte(a, 16) + Byte(b, 16) + C(16) = Byte(p, 16) + 256 * C(24)
  BY ByteSum
<1>2. C(0) = 0 /\ C(8) \in {0, 1} /\ C(16) \in {0, 1} /\ C(24) \in {0, 1}
  BY BitType DEF Carries, Bit
<1>3. \A w : Byte(w, 0) \in Int /\ Byte(w, 8) \in Int /\ Byte(w, 16) \in Int
  BY ByteType
<1>. HIDE DEF p, C
<1>4. Number(a) + Number(b) = Number(p) + 16777216 * C(24)
  BY <1>1, <1>2, <1>3, SMT DEF Number
<1>. QED BY <1>4 DEF p, C

\* A byte of a word that was cut.
LEMMA ByteCut ==
  ASSUME NEW word, NEW n \in Nat, NEW i \in Nat
  PROVE  /\ i + 7 < n => Byte(word \cap Below(n), i) = Byte(word, i)
         /\ n <= i => Byte(word \cap Below(n), i) = 0
<1>. DEFINE cut == word \cap Below(n)
<1>1. \A k \in Nat : n <= k => Bit(cut, k) = 0
  BY DEF Bit, Below
<1>4. \A k \in Nat : k < n => Bit(cut, k) = Bit(word, k)
  BY DEF Bit, Below
<1>. HIDE DEF cut
<1>2. ASSUME i + 7 < n PROVE Byte(cut, i) = Byte(word, i)
  <2>1. ASSUME NEW k \in 0 .. 7 PROVE Bit(cut, i + k) = Bit(word, i + k)
    <3>1. i + k \in Nat /\ i + k < n
      BY <1>2
    <3>. QED BY <1>4, <3>1
  <2>2. /\ Bit(cut, i + 1) = Bit(word, i + 1) /\ Bit(cut, i + 2) = Bit(word, i + 2)
        /\ Bit(cut, i + 3) = Bit(word, i + 3) /\ Bit(cut, i + 4) = Bit(word, i + 4)
        /\ Bit(cut, i + 5) = Bit(word, i + 5) /\ Bit(cut, i + 6) = Bit(word, i + 6)
        /\ Bit(cut, i + 7) = Bit(word, i + 7)
    BY <2>1
  <2>3. Bit(cut, i) = Bit(word, i)
    <3>1. i < n
      BY <1>2
    <3>. QED BY <1>4, <3>1
  <2>. QED BY <2>2, <2>3 DEF Byte
<1>3. ASSUME n <= i PROVE Byte(cut, i) = 0
  <2>1. /\ Bit(cut, i) = 0 /\ Bit(cut, i + 1) = 0 /\ Bit(cut, i + 2) = 0
        /\ Bit(cut, i + 3) = 0 /\ Bit(cut, i + 4) = 0 /\ Bit(cut, i + 5) = 0
        /\ Bit(cut, i + 6) = 0 /\ Bit(cut, i + 7) = 0
    BY <1>1, <1>3
  <2>. QED BY <2>1 DEF Byte
<1>. QED BY <1>2, <1>3 DEF cut

Bytes(word) ==
  /\ Byte(word, 0) \in 0 .. 255 /\ Byte(word, 8) \in 0 .. 255
  /\ Byte(word, 16) \in 0 .. 255

\* The three bytes of a word are.
LEMMA BytesType == \A word : Bytes(word)
BY ByteType DEF Bytes

\* The number a size sees.
LEMMA UnsignedBytes ==
  ASSUME NEW word
  PROVE  /\ Unsigned(word, 0) = Byte(word, 0)
         /\ Unsigned(word, 1) = Byte(word, 0) + 256 * Byte(word, 8)
         /\ Unsigned(word, 2) = Number(word)
         /\ Number(word) = Byte(word, 0) + 256 * Byte(word, 8)
                             + 65536 * Byte(word, 16)
<1>1. /\ Width(0) = 8 /\ Width(1) = 16 /\ Width(2) = 24
  BY DEF Width
<1>2. Bytes(word)
  BY BytesType
<1>3. Unsigned(word, 0) = Byte(word, 0)
  <2>. DEFINE cut == word \cap Below(8)
  <2>1. Unsigned(word, 0) = Number(cut)
    BY <1>1 DEF Unsigned
  <2>2. Byte(cut, 0) = Byte(word, 0) /\ Byte(cut, 8) = 0
        /\ Byte(cut, 16) = 0
    BY ByteCut
  <2>. HIDE DEF cut
  <2>. QED BY <1>2, <2>1, <2>2, SMT DEF Number, Bytes
<1>4. Unsigned(word, 1) = Byte(word, 0) + 256 * Byte(word, 8)
  <2>. DEFINE cut == word \cap Below(16)
  <2>1. Unsigned(word, 1) = Number(cut)
    BY <1>1 DEF Unsigned
  <2>2. Byte(cut, 0) = Byte(word, 0) /\ Byte(cut, 8) = Byte(word, 8)
        /\ Byte(cut, 16) = 0
    BY ByteCut
  <2>3. Number(cut) = Byte(word, 0) + 256 * Byte(word, 8) + 65536 * 0
    BY <2>2 DEF Number
  <2>. DEFINE b0 == Byte(word, 0)  b1 == Byte(word, 8)
  <2>4. b0 \in Int /\ b1 \in Int
    BY <1>2 DEF Bytes
  <2>. HIDE DEF cut, b0, b1
  <2>5. b0 + 256 * b1 + 65536 * 0 = b0 + 256 * b1
    BY <2>4, SMT
  <2>. QED BY <2>1, <2>3, <2>5 DEF b0, b1
<1>5. Unsigned(word, 2) = Number(word)
  <2>. DEFINE cut == word \cap Below(24)
  <2>1. Unsigned(word, 2) = Number(cut)
    BY <1>1 DEF Unsigned
  <2>2. Byte(cut, 0) = Byte(word, 0) /\ Byte(cut, 8) = Byte(word, 8)
        /\ Byte(cut, 16) = Byte(word, 16)
    BY ByteCut
  <2>. HIDE DEF cut
  <2>. QED BY <2>1, <2>2 DEF Number
<1>. QED BY <1>3, <1>4, <1>5 DEF Number

\* It is what the word stands for modulo the size, its upper half is the
\* words with the top bit.
LEMMA UnsignedRange ==
  ASSUME NEW word, NEW size \in Sizes
  PROVE  /\ Unsigned(word, size) \in Nat /\ Unsigned(word, size) < Full(size)
         /\ Unsigned(word, size) = Number(word) % Full(size)
         /\ Number(word) \in Nat /\ Number(word) < 16777216
<1>. DEFINE b0 == Byte(word, 0)  b1 == Byte(word, 8)  b2 == Byte(word, 16)
            n == Number(word)
<1>1. b0 \in 0 .. 255 /\ b1 \in 0 .. 255 /\ b2 \in 0 .. 255
  BY BytesType DEF Bytes
<1>2. /\ Unsigned(word, 0) = b0 /\ Unsigned(word, 1) = b0 + 256 * b1
      /\ Unsigned(word, 2) = n /\ n = b0 + 256 * b1 + 65536 * b2
  BY UnsignedBytes
<1>. HIDE DEF b0, b1, b2, n
<1>3. n \in Nat /\ n < 16777216
  BY <1>1, <1>2, SMT
<1>4. b0 = n % 256 /\ b0 < 256 /\ b0 \in Nat
  BY <1>1, <1>2, SMT
<1>5. b0 + 256 * b1 = n % 65536 /\ b0 + 256 * b1 < 65536
      /\ b0 + 256 * b1 \in Nat
  BY <1>1, <1>2, SMT
<1>6. n = n % 16777216
  BY <1>3, SMT
<1>7. size = 0 \/ size = 1 \/ size = 2
  BY DEF Sizes
<1>8. Full(0) = 256 /\ Full(1) = 65536 /\ Full(2) = 16777216
  BY DEF Full
<1>9. n \in Nat /\ n < 16777216
      /\ Unsigned(word, size) \in Nat /\ Unsigned(word, size) < Full(size)
      /\ Unsigned(word, size) = n % Full(size)
  BY <1>2, <1>3, <1>4, <1>5, <1>6, <1>7, <1>8, SMT
<1>. QED BY <1>9 DEF n

\* Its upper bit is that of the byte, and it is zero when all bits are.
LEMMA ByteBits ==
  ASSUME NEW word, NEW i \in Nat
  PROVE  /\ i + 7 \in word <=> Byte(word, i) >= 128
         /\ Byte(word, i) = 0 <=> \A k \in 0 .. 7 : i + k \notin word
<1>. DEFINE n(k) == Bit(word, i + k)
<1>1. \A k : n(k) \in {0, 1}
  BY BitType
<1>2. \A k : n(k) = 1 <=> i + k \in word
  BY DEF Bit
<1>3. n(0) = Bit(word, i)
  OBVIOUS
<1>. HIDE DEF n
<1>. DEFINE rest == n(0) + 2 * n(1) + 4 * n(2) + 8 * n(3) + 16 * n(4)
                      + 32 * n(5) + 64 * n(6)
<1>4. rest \in 0 .. 127
  BY <1>1
<1>5. rest = 0 <=> /\ n(0) = 0 /\ n(1) = 0 /\ n(2) = 0 /\ n(3) = 0
                   /\ n(4) = 0 /\ n(5) = 0 /\ n(6) = 0
  BY <1>1
<1>6. Byte(word, i) = rest + 128 * n(7)
  BY <1>3 DEF Byte, n
<1>7. \A k \in 0 .. 7 : k \in {0, 1, 2, 3, 4, 5, 6, 7}
  OBVIOUS
<1>. HIDE DEF rest
<1>8. n(7) = 1 <=> Byte(word, i) >= 128
  BY <1>1, <1>4, <1>6
<1>9. Byte(word, i) = 0 <=> rest = 0 /\ n(7) = 0
  BY <1>1, <1>4, <1>6
<1>10. (\A k \in 0 .. 7 : n(k) = 0)
         <=> /\ n(0) = 0 /\ n(1) = 0 /\ n(2) = 0 /\ n(3) = 0
             /\ n(4) = 0 /\ n(5) = 0 /\ n(6) = 0 /\ n(7) = 0
  BY <1>7
<1>11. \A k : n(k) = 0 <=> i + k \notin word
  BY <1>1, <1>2
<1>. QED BY <1>2, <1>5, <1>8, <1>9, <1>10, <1>11

\* The numbers of the three sizes.
LEMMA SizeNumbers ==
  /\ Full(0) = 256 /\ Full(1) = 65536 /\ Full(2) = 16777216
  /\ Half(0) = 128 /\ Half(1) = 32768 /\ Half(2) = 8388608
  /\ Width(0) = 8 /\ Width(1) = 16 /\ Width(2) = 24
  /\ TopBit(0) = 7 /\ TopBit(1) = 15 /\ TopBit(2) = 23
BY SMT DEF Full, Half, Width, TopBit

\* Sign and nullity of a word of a size, on its bits and on its number.
LEMMA SizedBits ==
  ASSUME NEW word, NEW size \in Sizes
  PROVE  /\ TopBit(size) \in word <=> Unsigned(word, size) >= Half(size)
         /\ word \cap Below(Width(size)) = {} <=> Unsigned(word, size) = 0
<1>. DEFINE b0 == Byte(word, 0)  b1 == Byte(word, 8)  b2 == Byte(word, 16)
            none(i) == \A k \in 0 .. 7 : i + k \notin word
<1>1. b0 \in 0 .. 255 /\ b1 \in 0 .. 255 /\ b2 \in 0 .. 255
  BY BytesType DEF Bytes
<1>2. /\ Unsigned(word, 0) = b0 /\ Unsigned(word, 1) = b0 + 256 * b1
      /\ Unsigned(word, 2) = b0 + 256 * b1 + 65536 * b2
  BY UnsignedBytes
<1>3. /\ 7 \in word <=> b0 >= 128
      /\ 15 \in word <=> b1 >= 128
      /\ 23 \in word <=> b2 >= 128
  <2>1. 0 + 7 = 7 /\ 8 + 7 = 15 /\ 16 + 7 = 23
    OBVIOUS
  <2>. QED BY <2>1, ByteBits
<1>4. /\ b0 = 0 <=> none(0)
      /\ b1 = 0 <=> none(8)
      /\ b2 = 0 <=> none(16)
  BY ByteBits
<1>5. \A i : i \in Below(8) <=> \E k \in 0 .. 7 : i = 0 + k
  BY DEF Below
<1>6. \A i : i \in Below(16) <=> \E k \in 0 .. 7 : i = 0 + k \/ i = 8 + k
  <2>1. \A i \in 0 .. 15 : IF i < 8 THEN i \in 0 .. 7 /\ i = 0 + i
                           ELSE i - 8 \in 0 .. 7 /\ i = 8 + (i - 8)
    OBVIOUS
  <2>2. \A k \in 0 .. 7 : 0 + k \in 0 .. 15 /\ 8 + k \in 0 .. 15
    OBVIOUS
  <2>3. Below(16) = 0 .. 15
    BY DEF Below
  <2>. QED BY <2>1, <2>2, <2>3
<1>7. \A i : i \in Below(24)
         <=> \E k \in 0 .. 7 : i = 0 + k \/ i = 8 + k \/ i = 16 + k
  <2>1. \A i \in 0 .. 23 : IF i < 8 THEN i \in 0 .. 7 /\ i = 0 + i
                           ELSE IF i < 16
                             THEN i - 8 \in 0 .. 7 /\ i = 8 + (i - 8)
                             ELSE i - 16 \in 0 .. 7 /\ i = 16 + (i - 16)
    OBVIOUS
  <2>2. \A k \in 0 .. 7 : 0 + k \in 0 .. 23 /\ 8 + k \in 0 .. 23
                          /\ 16 + k \in 0 .. 23
    OBVIOUS
  <2>3. Below(24) = 0 .. 23
    BY DEF Below
  <2>. QED BY <2>1, <2>2, <2>3
<1>8. /\ word \cap Below(8) = {} <=> none(0)
      /\ word \cap Below(16) = {} <=> none(0) /\ none(8)
      /\ word \cap Below(24) = {} <=> none(0) /\ none(8) /\ none(16)
  <2>1. word \cap Below(8) = {} <=> none(0)
    BY <1>5
  <2>2. word \cap Below(16) = {} <=> none(0) /\ none(8)
    BY <1>6
  <2>3. word \cap Below(24) = {} <=> none(0) /\ none(8) /\ none(16)
    BY <1>7
  <2>. QED BY <2>1, <2>2, <2>3
<1>. HIDE DEF b0, b1, b2, none
<1>9. CASE size = 0
  <2>1. word \cap Below(8) = {} <=> b0 = 0
    BY <1>4, <1>8
  <2>. QED BY <1>2, <1>3, <1>9, <2>1, SizeNumbers, SMT
<1>10. CASE size = 1
  <2>1. word \cap Below(16) = {} <=> b0 = 0 /\ b1 = 0
    BY <1>4, <1>8
  <2>2. /\ b0 = 0 /\ b1 = 0 <=> b0 + 256 * b1 = 0
        /\ b1 >= 128 <=> b0 + 256 * b1 >= 32768
    BY <1>1, SMT
  <2>. QED BY <1>2, <1>3, <1>10, <2>1, <2>2, SizeNumbers, SMT
<1>11. CASE size = 2
  <2>1. word \cap Below(24) = {} <=> b0 = 0 /\ b1 = 0 /\ b2 = 0
    BY <1>4, <1>8
  <2>2. /\ b0 = 0 /\ b1 = 0 /\ b2 = 0 <=> b0 + 256 * b1 + 65536 * b2 = 0
        /\ b2 >= 128 <=> b0 + 256 * b1 + 65536 * b2 >= 8388608
    BY <1>1, SMT
  <2>. QED BY <1>2, <1>3, <1>11, <2>1, <2>2, SizeNumbers, SMT
<1>. QED BY <1>9, <1>10, <1>11 DEF Sizes

\* The sum of two words of a size, and the carry out of it.
LEMMA SizedSum ==
  ASSUME NEW a, NEW b, NEW size \in Sizes
  PROVE  \E out \in {0, 1} :
           Unsigned(a, size) + Unsigned(b, size)
             = Unsigned(Plus(a, b), size) + Full(size) * out
<1>. DEFINE p == Plus(a, b)  C(k) == Bit(Carries(a, b), k)
            a0 == Byte(a, 0)  a1 == Byte(a, 8)  a2 == Byte(a, 16)
            b0 == Byte(b, 0)  b1 == Byte(b, 8)  b2 == Byte(b, 16)
            p0 == Byte(p, 0)  p1 == Byte(p, 8)  p2 == Byte(p, 16)
<1>1. a0 + b0 + C(0) = p0 + 256 * C(8) /\ a1 + b1 + C(8) = p1 + 256 * C(16)
  BY ByteSum
<1>2. C(0) = 0 /\ C(8) \in {0, 1} /\ C(16) \in {0, 1} /\ C(24) \in {0, 1}
  BY BitType DEF Carries, Bit
<1>3. Number(a) + Number(b) = Number(p) + 16777216 * C(24)
  BY NumberSum
<1>4. /\ Unsigned(a, 0) = a0 /\ Unsigned(a, 1) = a0 + 256 * a1
      /\ Unsigned(b, 0) = b0 /\ Unsigned(b, 1) = b0 + 256 * b1
      /\ Unsigned(p, 0) = p0 /\ Unsigned(p, 1) = p0 + 256 * p1
      /\ Unsigned(a, 2) = Number(a) /\ Unsigned(b, 2) = Number(b)
      /\ Unsigned(p, 2) = Number(p)
  BY UnsignedBytes
<1>5. /\ a0 \in Int /\ a1 \in Int /\ b0 \in Int /\ b1 \in Int
      /\ p0 \in Int /\ p1 \in Int
  BY BytesType DEF Bytes
<1>. HIDE DEF p, C, a0, a1, b0, b1, p0, p1
<1>6. a0 + b0 = p0 + 256 * C(8)
  BY <1>1, <1>2, <1>5
<1>7. (a0 + 256 * a1) + (b0 + 256 * b1) = (p0 + 256 * p1) + 65536 * C(16)
  BY <1>1, <1>2, <1>5, SMT
<1>8. size = 0 \/ size = 1 \/ size = 2
  BY DEF Sizes
<1>9. \E out \in {0, 1} :
        Unsigned(a, size) + Unsigned(b, size)
          = Unsigned(p, size) + Full(size) * out
  BY <1>2, <1>3, <1>4, <1>6, <1>7, <1>8, SizeNumbers, SMT
<1>. QED BY <1>9 DEF p

\* Bytes whose bits agree, and bytes of ones.
LEMMA ByteEqual ==
  ASSUME NEW v, NEW w, NEW i \in Nat,
         \A k \in 0 .. 7 : i + k \in v <=> i + k \in w
  PROVE  Byte(v, i) = Byte(w, i)
<1>1. \A k \in 0 .. 7 : Bit(v, i + k) = Bit(w, i + k)
  BY DEF Bit
<1>2. /\ Bit(v, i + 1) = Bit(w, i + 1) /\ Bit(v, i + 2) = Bit(w, i + 2)
      /\ Bit(v, i + 3) = Bit(w, i + 3) /\ Bit(v, i + 4) = Bit(w, i + 4)
      /\ Bit(v, i + 5) = Bit(w, i + 5) /\ Bit(v, i + 6) = Bit(w, i + 6)
      /\ Bit(v, i + 7) = Bit(w, i + 7)
  BY <1>1
<1>3. Bit(v, i) = Bit(w, i)
  <2>1. Bit(v, i + 0) = Bit(w, i + 0) /\ i + 0 = i
    BY <1>1
  <2>. QED BY <2>1
<1>. QED BY <1>2, <1>3 DEF Byte

\* A byte of ones.
LEMMA ByteOnes ==
  ASSUME NEW w, NEW i \in Nat, \A k \in 0 .. 7 : i + k \in w
  PROVE  Byte(w, i) = 255
<1>1. \A k \in 0 .. 7 : Bit(w, i + k) = 1
  BY DEF Bit
<1>2. /\ Bit(w, i + 1) = 1 /\ Bit(w, i + 2) = 1 /\ Bit(w, i + 3) = 1
      /\ Bit(w, i + 4) = 1 /\ Bit(w, i + 5) = 1 /\ Bit(w, i + 6) = 1
      /\ Bit(w, i + 7) = 1
  BY <1>1
<1>3. Bit(w, i) = 1
  <2>1. Bit(w, i + 0) = 1 /\ i + 0 = i
    BY <1>1
  <2>. QED BY <2>1
<1>. QED BY <1>2, <1>3 DEF Byte

\* The complement of a byte.
LEMMA ByteComplement ==
  ASSUME NEW w, NEW i \in 0 .. 16
  PROVE  Byte(Below(32) \ w, i) = 255 - Byte(w, i)
<1>. DEFINE v == Below(32) \ w  V(k) == Bit(v, i + k)  W(k) == Bit(w, i + k)
<1>1. \A k \in 0 .. 7 : V(k) = 1 - W(k) /\ W(k) \in Int
  BY DEF Bit, Below
<1>2. Bit(v, i) = V(0) /\ Bit(w, i) = W(0)
  OBVIOUS
<1>3. /\ Byte(v, i) = V(0) + 2 * V(1) + 4 * V(2) + 8 * V(3) + 16 * V(4)
                       + 32 * V(5) + 64 * V(6) + 128 * V(7)
      /\ Byte(w, i) = W(0) + 2 * W(1) + 4 * W(2) + 8 * W(3) + 16 * W(4)
                       + 32 * W(5) + 64 * W(6) + 128 * W(7)
  BY <1>2 DEF Byte
<1>. HIDE DEF v, V, W
<1>4. /\ V(0) = 1 - W(0) /\ V(1) = 1 - W(1) /\ V(2) = 1 - W(2)
      /\ V(3) = 1 - W(3) /\ V(4) = 1 - W(4) /\ V(5) = 1 - W(5)
      /\ V(6) = 1 - W(6) /\ V(7) = 1 - W(7)
      /\ W(0) \in Int /\ W(1) \in Int /\ W(2) \in Int /\ W(3) \in Int
      /\ W(4) \in Int /\ W(5) \in Int /\ W(6) \in Int /\ W(7) \in Int
  BY <1>1
<1>5. Byte(v, i) = 255 - Byte(w, i)
  BY <1>3, <1>4
<1>. QED BY <1>5 DEF v

\* The negation: modulo 2^24.
LEMMA MinusNumber ==
  ASSUME NEW w
  PROVE  \E k \in {0, 1} : Number(Minus(w)) = 16777216 * k - Number(w)
<1>. DEFINE v == Below(32) \ w  one == {0}
            v0 == Byte(v, 0)  v1 == Byte(v, 8)  v2 == Byte(v, 16)
            w0 == Byte(w, 0)  w1 == Byte(w, 8)  w2 == Byte(w, 16)
            out == Bit(Carries(v, one), 24)
<1>1. v0 = 255 - w0 /\ v1 = 255 - w1 /\ v2 = 255 - w2
  BY ByteComplement
<1>2. /\ Number(v) = v0 + 256 * v1 + 65536 * v2
      /\ Number(w) = w0 + 256 * w1 + 65536 * w2
  BY UnsignedBytes
<1>3. w0 \in Int /\ w1 \in Int /\ w2 \in Int
  BY BytesType DEF Bytes
<1>4. Number(one) = 1
  <2>1. \A k : Bit(one, k) = IF k = 0 THEN 1 ELSE 0
    BY DEF Bit
  <2>. HIDE DEF one
  <2>2. Byte(one, 0) = 1
    BY <2>1 DEF Byte
  <2>3. Byte(one, 8) = 0 /\ Byte(one, 16) = 0
    BY <2>1 DEF Byte
  <2>. QED BY <2>2, <2>3, SMT DEF Number
<1>5. Number(v) + Number(one) = Number(Plus(v, one)) + 16777216 * out
  BY NumberSum, SMT
<1>6. out \in {0, 1}
  BY BitType
<1>7. Minus(w) = Plus(v, one)
  BY DEF Minus
<1>8. Number(Plus(v, one)) \in Nat
  <2>1. 0 \in Sizes
    BY DEF Sizes
  <2>. QED BY <2>1, UnsignedRange
<1>. HIDE DEF v, one, v0, v1, v2, w0, w1, w2, out
<1>9. Number(Plus(v, one)) = 16777216 * (1 - out) - Number(w)
  BY <1>1, <1>2, <1>3, <1>4, <1>5, <1>6, <1>8, SMT
<1>10. 1 - out \in {0, 1}
  BY <1>6
<1>. QED BY <1>7, <1>9, <1>10, SMT

\* The number of an operand with or without its sign, modulo 2^24.
LEMMA OperandNumber ==
  ASSUME NEW latch, NEW size \in Sizes, NEW sign \in BOOLEAN
  PROVE  LET number == IF sign THEN Signed(latch, size)
                               ELSE Unsigned(latch, size)
         IN  Number(Operand(latch, size, sign)) \in {number, number + 16777216}
<1>. DEFINE w == Operand(latch, size, sign)
            cut == latch \cap Below(Width(size))
            u == Unsigned(latch, size)
            negative == TopBit(size) \in latch
            number == IF sign THEN Signed(latch, size) ELSE Unsigned(latch, size)
<1>1. Number(cut) = u
  BY DEF Unsigned
<1>2. u \in Nat
  BY UnsignedRange
<1>3. Full(size) \in Nat
  BY SizeNumbers DEF Sizes
<1>4. Signed(latch, size) = u - (IF negative THEN Full(size) ELSE 0)
  BY DEF Signed
<1>5. TopBit(size) \in cut <=> negative
  BY SizeNumbers DEF Sizes, Below
<1>6. w = IF sign /\ size # 2 /\ negative THEN cut \cup Width(size) .. 31 ELSE cut
  BY <1>5 DEF Operand
<1>9. number = IF sign /\ negative THEN u - Full(size) ELSE u
  BY <1>2, <1>3, <1>4
<1>. SUFFICES Number(w) \in {number, number + 16777216}
  OBVIOUS
<1>. HIDE DEF u, negative, number
<1>7. CASE ~ (sign /\ size # 2 /\ negative)
  <2>1. Number(w) = u
    BY <1>1, <1>6, <1>7
  <2>. HIDE DEF w
  <2>2. sign /\ negative => Full(size) = 16777216
    BY <1>7, SizeNumbers, SMT
  <2>. QED BY <1>2, <1>9, <2>1, <2>2, SMT
<1>8. CASE sign /\ size # 2 /\ negative
  <2>1. w = cut \cup Width(size) .. 31
    BY <1>6, <1>8
  <2>. DEFINE w0 == Byte(w, 0)  w1 == Byte(w, 8)  w2 == Byte(w, 16)
              c0 == Byte(cut, 0)  c1 == Byte(cut, 8)  c2 == Byte(cut, 16)
  <2>2. /\ Number(w) = w0 + 256 * w1 + 65536 * w2
        /\ Number(cut) = c0 + 256 * c1 + 65536 * c2
    BY UnsignedBytes
  <2>3. c0 \in Int /\ c1 \in Int /\ c2 \in Int
    BY BytesType DEF Bytes
  <2>4. CASE size = 0
    <3>1. w = cut \cup 8 .. 31 /\ cut = latch \cap Below(8)
      BY <2>1, <2>4, SizeNumbers
    <3>2. w0 = c0
      <4>. HIDE DEF w, cut
      <4>. QED BY <3>1, ByteEqual
    <3>3. w1 = 255 /\ w2 = 255
      <4>. HIDE DEF w, cut
      <4>1. \A k \in 0 .. 7 : 8 + k \in w /\ 16 + k \in w
        BY <3>1
      <4>. QED BY <4>1, ByteOnes
    <3>4. c1 = 0 /\ c2 = 0
      <4>. HIDE DEF w, cut
      <4>1. Byte(latch \cap Below(8), 8) = 0 /\ Byte(latch \cap Below(8), 16) = 0
        BY ByteCut
      <4>. QED BY <3>1, <4>1
    <3>. HIDE DEF w, cut, w0, w1, w2, c0, c1, c2
    <3>6. Full(size) = 256
      BY <2>4, SizeNumbers
    <3>5. Number(w) = u - 256 + 16777216
      BY <1>1, <2>2, <2>3, <3>2, <3>3, <3>4, SMT
    <3>. QED BY <1>2, <1>8, <1>9, <2>4, <3>5, <3>6, SMT
  <2>5. CASE size = 1
    <3>1. w = cut \cup 16 .. 31 /\ cut = latch \cap Below(16)
      BY <2>1, <2>5, SizeNumbers
    <3>2. w0 = c0 /\ w1 = c1
      <4>. HIDE DEF w, cut
      <4>1. /\ \A k \in 0 .. 7 : 0 + k \in w <=> 0 + k \in cut
            /\ \A k \in 0 .. 7 : 8 + k \in w <=> 8 + k \in cut
        BY <3>1
      <4>. QED BY <4>1, ByteEqual
    <3>3. w2 = 255
      <4>. HIDE DEF w, cut
      <4>1. \A k \in 0 .. 7 : 16 + k \in w
        BY <3>1
      <4>. QED BY <4>1, ByteOnes
    <3>4. c2 = 0
      <4>. HIDE DEF w, cut
      <4>1. Byte(latch \cap Below(16), 16) = 0
        BY ByteCut
      <4>. QED BY <3>1, <4>1
    <3>. HIDE DEF w, cut, w0, w1, w2, c0, c1, c2
    <3>6. Full(size) = 65536
      BY <2>5, SizeNumbers
    <3>5. Number(w) = u - 65536 + 16777216
      BY <1>1, <2>2, <2>3, <3>2, <3>3, <3>4, SMT
    <3>. QED BY <1>2, <1>8, <1>9, <2>5, <3>5, <3>6, SMT
  <2>6. size = 0 \/ size = 1
    BY <1>8 DEF Sizes
  <2>. HIDE DEF w, cut
  <2>. QED BY <2>4, <2>5, <2>6, SMT
<1>. QED BY <1>7, <1>8, SMT

\* Bits above a size do not show in its number.
LEMMA UnsignedCut ==
  ASSUME NEW word, NEW size \in Sizes, NEW n \in Int, Width(size) <= n
  PROVE  Unsigned(word \cap Below(n), size) = Unsigned(word, size)
<1>1. Width(size) \in Int
  BY SizeNumbers DEF Sizes
<1>2. (word \cap Below(n)) \cap Below(Width(size)) = word \cap Below(Width(size))
  BY <1>1 DEF Below
<1>. QED BY <1>2 DEF Unsigned

\* Equality modulo 2^24, and so modulo each size.
Modulo24(n, x) == \E k \in Int : n = x + 16777216 * k

LEMMA SizeModulo ==
  ASSUME NEW size \in Sizes, NEW x \in Int, NEW n, Modulo24(n, x)
  PROVE  n % Full(size) = x % Full(size)
<1>1. PICK k \in Int : n = x + 16777216 * k
  BY SMT DEF Modulo24
<1>2. n % 256 = x % 256
  BY <1>1, SMT
<1>3. n % 65536 = x % 65536
  BY <1>1, SMT
<1>4. n % 16777216 = x % 16777216
  BY <1>1, SMT
<1>5. size = 0 \/ size = 1 \/ size = 2
  BY DEF Sizes
<1>. QED BY <1>2, <1>3, <1>4, <1>5, SizeNumbers, SMT

\* The right operand and what is to be added, as AluSweep's Right and
\* Addend define them.
RightOf(c, latch, carry) ==
  (IF c.sign1 THEN Signed(latch, c.size1) ELSE Unsigned(latch, c.size1))
    + (IF c.add_carry /\ carry THEN 1 ELSE 0)
AddendOf(c, latch, carry) ==
  IF c.negate THEN - RightOf(c, latch, carry) ELSE RightOf(c, latch, carry)

\* What a latch stands for is an integer.
LEMMA SignedType ==
  ASSUME NEW latch, NEW size \in Sizes
  PROVE  Signed(latch, size) \in Int /\ Unsigned(latch, size) \in Int
<1>1. Unsigned(latch, size) \in Int
  BY UnsignedRange
<1>2. Full(size) \in Int
  BY SizeNumbers, SMT DEF Sizes
<1>. QED BY <1>1, <1>2 DEF Signed

\* The right operand is what is to be added modulo any size, or when it was
\* negated any up to its own, before the shifter cuts it to 16 bits.
LEMMA RightNumber ==
  ASSUME NEW c, Shape(c), NEW latch, NEW carry \in BOOLEAN, NEW size \in Sizes,
         c.negate = TRUE => size <= c.size1
  PROVE  /\ AddendOf(c, latch, carry) \in Int
         /\ Unsigned(RightOperand(c, latch, carry), size)
              = AddendOf(c, latch, carry) % Full(size)
<1>. DEFINE cut == Operand(latch, c.size1, c.sign1)
            number == IF c.sign1 THEN Signed(latch, c.size1)
                                 ELSE Unsigned(latch, c.size1)
            adds == c.add_carry /\ carry
            one == {0}
            added == IF adds THEN Plus(cut, one) ELSE cut
            word == IF c.negate THEN Minus(added) ELSE added
            right == RightOf(c, latch, carry)
            addend == AddendOf(c, latch, carry)
            operand == RightOperand(c, latch, carry)
<1>1. /\ c.size1 \in Sizes /\ c.sign1 \in BOOLEAN
      /\ c.negate \in BOOLEAN /\ c.add_carry \in BOOLEAN /\ c.add1 = FALSE
      /\ c.negate = TRUE => c.sign1 = FALSE
  BY DEF Shape, AluControls
<1>2. number \in Int
  BY <1>1, SignedType
<1>3. Number(cut) \in {number, number + 16777216}
  BY <1>1, OperandNumber, SMT
<1>4. right = number + (IF adds THEN 1 ELSE 0)
  BY DEF RightOf
<1>5. addend = IF c.negate THEN - right ELSE right
  BY DEF AddendOf
<1>6. operand = IF c.negate THEN word \cap Below(Width(c.size1)) ELSE word
  BY <1>1 DEF RightOperand
<1>7. Number(one) = 1
  <2>1. \A k : Bit(one, k) = IF k = 0 THEN 1 ELSE 0
    BY DEF Bit
  <2>. HIDE DEF one
  <2>2. Byte(one, 0) = 1
    BY <2>1 DEF Byte
  <2>3. Byte(one, 8) = 0 /\ Byte(one, 16) = 0
    BY <2>1 DEF Byte
  <2>. QED BY <2>2, <2>3, SMT DEF Number
<1>8. PICK out \in {0, 1} :
        Number(cut) + Number(one) = Number(Plus(cut, one)) + 16777216 * out
  <2>1. Bit(Carries(cut, one), 24) \in {0, 1}
    BY BitType
  <2>. QED BY <2>1, NumberSum, SMT
<1>9. PICK k \in {0, 1} : Number(Minus(added)) = 16777216 * k - Number(added)
  BY MinusNumber, SMT
<1>10. \A w : Number(w) \in Int
  <2>1. 0 \in Sizes
    BY DEF Sizes
  <2>. QED BY <2>1, UnsignedRange
<1>11. added = IF adds THEN Plus(cut, one) ELSE cut
  OBVIOUS
<1>12. word = IF c.negate THEN Minus(added) ELSE added
  OBVIOUS
<1>13. right \in Int /\ addend \in Int
  <2>. HIDE DEF number, right, addend
  <2>1. right \in Int
    BY <1>2, <1>4
  <2>. QED BY <2>1, <1>1, <1>5
<1>. HIDE DEF cut, number, adds, one, added, word, right, addend, operand
<1>14. PICK m \in Int : Number(added) = right + 16777216 * m
  <2>1. Number(added) = right \/ Number(added) = right + 16777216
        \/ Number(added) = right - 16777216
    BY <1>2, <1>3, <1>4, <1>7, <1>8, <1>10, <1>11, SMT
  <2>2. \/ Number(added) = right + 16777216 * 0
        \/ Number(added) = right + 16777216 * 1
        \/ Number(added) = right + 16777216 * (-1)
    BY <2>1, <1>13, SMT
  <2>. QED BY <2>2, SMT
<1>15. PICK j \in Int : Number(word) = addend + 16777216 * j
  <2>1. CASE c.negate
    <3>. DEFINE nw == Number(word)  na == Number(added)
    <3>2. nw = 16777216 * k - na
      BY <2>1, <1>9, <1>12, SMT
    <3>3. na = right + 16777216 * m /\ addend = - right
      BY <2>1, <1>5, <1>14, SMT
    <3>. HIDE DEF nw, na
    <3>. DEFINE j == k - m
    <3>4. j \in Int /\ nw = addend + 16777216 * j
      BY <3>2, <3>3, <1>9, <1>13, <1>14, SMT
    <3>. HIDE DEF j
    <3>. QED BY <3>4, SMT DEF nw
  <2>2. CASE ~ c.negate
    BY <2>2, <1>5, <1>12, <1>14, SMT
  <2>. QED BY <2>1, <2>2, SMT
<1>16. Unsigned(operand, size) = Unsigned(word, size)
  <2>1. CASE c.negate
    <3>1. Width(size) <= Width(c.size1) /\ Width(c.size1) \in Int
      BY <1>1, <2>1, SizeNumbers DEF Sizes
    <3>. QED BY <1>6, <2>1, <3>1, UnsignedCut
  <2>2. CASE ~ c.negate
    BY <1>6, <2>2
  <2>. QED BY <2>1, <2>2
<1>17. Unsigned(word, size) = Number(word) % Full(size)
  BY UnsignedRange, SMT
<1>18. Number(word) % Full(size) = addend % Full(size)
  <2>1. Modulo24(Number(word), addend)
    BY <1>15, SMT DEF Modulo24
  <2>. QED BY <1>13, <2>1, SizeModulo, Zenon
<1>. QED BY <1>13, <1>16, <1>17, <1>18 DEF addend, operand

-----------------------------------------------------------------------------
(***************************************************************************)
(* What a result is made of.                                               *)
(***************************************************************************)

\* The right operand before the shifter.
Wide(c, latch1, carry) == RightOperand(c, latch1, carry) \cap Below(16)

\* An operation that is not adjusted leaves what Operate gives and the flags
\* of that.
LEMMA ResultParts ==
  ASSUME NEW c, Shape(c), NEW latch0, NEW latch1, NEW byte, NEW old,
         NEW r \in Results(c, latch0, latch1, byte, old),
         c.op # "OFF", ~ (c.op = "ADD" /\ c.size0 = 0 /\ F_DECIMAL \in byte)
  PROVE  LET carry == F_CARRY \in byte
             a == Left24(c, latch0)
             b == Right16(c, latch1, carry)
         IN  /\ r.out = Operate(c.op, a, b, old)
             /\ \E entered :
                  r.flags = ModifyFlags(c, byte, a, b, r.out, entered,
                              ShiftOut(c, Wide(c, latch1, carry)))
<1>. DEFINE carry == F_CARRY \in byte
            a == Left24(c, latch0)
            b == Right16(c, latch1, carry)
            sum == Operate(c.op, a, b, old)
            shifted == ShiftOut(c, Wide(c, latch1, carry))
<1>1. PICK carries \in CarryWords(c.op, a, b, sum) :
        \E entered :
          r = [out   |-> IF Adjusts(c, byte, carries) THEN Adjusted(sum)
                                                     ELSE sum,
               flags |-> IF c.op = "OFF" THEN byte
                         ELSE ModifyFlags(c, byte, a, b,
                                IF Adjusts(c, byte, carries)
                                  THEN Adjusted(sum) ELSE sum,
                                entered, shifted)]
  BY DEF Results, Left24, Right16, Wide
<1>. HIDE DEF a, b, sum, carry, shifted
<1>2. c.op # "ADD" => carries = {}
  BY <1>1 DEF CarryWords
<1>3. ~ Adjusts(c, byte, carries)
  BY <1>2 DEF Adjusts
<1>4. r.out = sum /\ \E entered : r.flags = ModifyFlags(c, byte, a, b, sum,
                                                      entered, shifted)
  BY <1>1, <1>3
<1>. QED BY <1>4 DEF a, b, sum, carry, shifted

\* The flags of an operation that writes flags.  After a logic operation
\* the parity word also lands on N and Z.
LEMMA FlagBits ==
  ASSUME NEW c, Shape(c), c.mask # {}, NEW byte, NEW a, NEW b, NEW out,
         NEW entered, NEW shifted, NEW new,
         new = ModifyFlags(c, byte, a, b, out, entered, shifted)
  PROVE  /\ c.op = "ADD" => (F_NEG \in new <=> TopBit(c.size0) \in out)
         /\ c.op = "ADD" /\ out \in Words(24)
              => (F_ZERO \in new <=> out \cap Below(Width(c.size0)) = {})
         /\ F_OVERFLOW \in new <=> F_OVERFLOW \in VSource(c, a, b, out, shifted)
<1>1. /\ F_NEG = 7 /\ F_ZERO = 6 /\ F_OVERFLOW = 2
      /\ 7 \in c.mask /\ 6 \in c.mask /\ 2 \in c.mask
  BY DEF Shape, ResultFlags, F_NEG, F_ZERO, F_OVERFLOW
<1>. DEFINE source == FlagSource(c, a, b, out, entered, shifted)
            v == VSource(c, a, b, out, shifted)
            n == TopBit(c.size0) \in out
            z == IF c.size0 = 2 THEN out = {}
                                ELSE out \cap Below(Width(c.size0)) = {}
            cy == (TopBit(c.size0) \in entered) # c.invert
<1>2. \A i \in c.mask : i \in new <=> i \in source
  BY DEF ModifyFlags
<1>3. c.op = "ADD" => 7 \notin v /\ 6 \notin v
  <2>1. c.op = "ADD" => c.vmode \in {"NORMAL", "SHIFTER_CARRY"}
                        /\ c.shifter = "NONE"
    BY DEF Shape, AluControls
  <2>2. c.op = "ADD" => c.vmode = "NORMAL"
    BY <2>1 DEF Shape
  <2>3. c.op = "ADD" => v = BitIf(Overflow(c.size0, a, b, out), 2)
    BY <2>2, Zenon DEF VSource
  <2>. HIDE DEF v
  <2>. QED BY <2>3 DEF BitIf
<1>4. source = BitIf(n, F_NEG) \cup BitIf(z, F_ZERO) \cup v
                 \cup (IF cy THEN {0, 1} ELSE {})
  BY DEF FlagSource
<1>. HIDE DEF source, v, n, z, cy
<1>5. 7 \in source <=> n \/ 7 \in v
  BY <1>1, <1>4 DEF BitIf
<1>6. 6 \in source <=> z \/ 6 \in v
  BY <1>1, <1>4 DEF BitIf
<1>7. 2 \in source <=> 2 \in v
  BY <1>1, <1>4 DEF BitIf
<1>8. out \in Words(24) => (z <=> out \cap Below(Width(c.size0)) = {})
  <2>1. c.size0 = 2 /\ out \in Words(24) => out = out \cap Below(Width(c.size0))
    BY SizeNumbers DEF Words
  <2>. QED BY <2>1 DEF z
<1>. QED BY <1>1, <1>2, <1>3, <1>5, <1>6, <1>7, <1>8 DEF n, v

-----------------------------------------------------------------------------
(***************************************************************************)
(* Sums and loads.                                                         *)
(***************************************************************************)

\* A sum modulo the size.
LEMMA ModuloStep ==
  ASSUME NEW size \in Sizes, NEW left \in Nat, NEW addend \in Int,
         left < Full(size), NEW r, r = addend % Full(size)
  PROVE  /\ r \in Nat /\ r < Full(size)
         /\ left + r < Full(size) => (left + addend) % Full(size) = left + r
         /\ left + r >= Full(size)
              => (left + addend) % Full(size) = left + r - Full(size)
<1>1. CASE size = 0
  <2>1. left < 256 /\ (left + addend) % Full(size) = (left + addend) % 256
        /\ r = addend % 256
    BY <1>1, SizeNumbers, SMT
  <2>2. r \in Nat /\ r < 256
    BY <2>1, SMT
  <2>4. (left + addend) % 256 = (left + r) % 256
    BY <2>1, SMT
  <2>3. (left + r) % 256 = IF left + r < 256 THEN left + r
                                      ELSE left + r - 256
    BY <2>1, <2>2, SMT
  <2>. QED BY <1>1, <2>1, <2>2, <2>3, <2>4, SizeNumbers, SMT
<1>2. CASE size = 1
  <2>1. left < 65536 /\ (left + addend) % Full(size) = (left + addend) % 65536
        /\ r = addend % 65536
    BY <1>2, SizeNumbers, SMT
  <2>2. r \in Nat /\ r < 65536
    BY <2>1, SMT
  <2>4. (left + addend) % 65536 = (left + r) % 65536
    BY <2>1, SMT
  <2>3. (left + r) % 65536 = IF left + r < 65536 THEN left + r
                                      ELSE left + r - 65536
    BY <2>1, <2>2, SMT
  <2>. QED BY <1>2, <2>1, <2>2, <2>3, <2>4, SizeNumbers, SMT
<1>3. CASE size = 2
  <2>1. left < 16777216 /\ (left + addend) % Full(size) = (left + addend) % 16777216
        /\ r = addend % 16777216
    BY <1>3, SizeNumbers, SMT
  <2>2. r \in Nat /\ r < 16777216
    BY <2>1, SMT
  <2>4. (left + addend) % 16777216 = (left + r) % 16777216
    BY <2>1, SMT
  <2>3. (left + r) % 16777216 = IF left + r < 16777216 THEN left + r
                                      ELSE left + r - 16777216
    BY <2>1, <2>2, SMT
  <2>. QED BY <1>3, <2>1, <2>2, <2>3, <2>4, SizeNumbers, SMT
<1>. QED BY <1>1, <1>2, <1>3 DEF Sizes

\* Adding the right number modulo the size, and only that, gives the right
\* sum.
LEMMA SumModulo ==
  ASSUME NEW size \in Sizes, NEW left \in Nat, NEW right \in Nat,
         NEW sum \in Nat, NEW addend \in Int, NEW out \in {0, 1},
         left < Full(size), right < Full(size), sum < Full(size),
         left + right = sum + Full(size) * out
  PROVE  sum = (left + addend) % Full(size) <=> right = addend % Full(size)
<1>. DEFINE r == addend % Full(size)
            full_ == Full(size)
<1>5. r = addend % Full(size)
  OBVIOUS
<1>. HIDE DEF r
<1>1. /\ r \in Nat /\ r < full_
      /\ left + r < full_ => (left + addend) % full_ = left + r
      /\ left + r >= full_ => (left + addend) % full_ = left + r - full_
  BY <1>5, ModuloStep
<1>2. full_ \in Nat
  BY SizeNumbers, SMT DEF Sizes
<1>3. left + right = sum \/ left + right = sum + full_
  <2>. HIDE DEF full_
  <2>1. left + right = sum + full_ * out
    BY DEF full_
  <2>2. out = 0 \/ out = 1
    OBVIOUS
  <2>. QED BY <1>2, <2>1, <2>2
<1>. HIDE DEF r, full_
<1>4. sum = (left + addend) % full_ <=> right = r
  <2>1. left < full_ /\ right < full_ /\ sum < full_
    BY DEF full_
  <2>. QED BY <1>1, <1>2, <1>3, <2>1
<1>. QED BY <1>4 DEF r, full_

\* What the right operand is cut to on its way, as AluSweep's Room.
RoomOf(c) == IF c.negate /\ c.size1 = 0 THEN Full(0) ELSE Full(1)

\* Cut to a smaller size, a number stays what it is in a larger one if it is
\* one of the smaller.
LEMMA CutModulo ==
  ASSUME NEW x \in Int
  PROVE  /\ x % 256 = x % 65536 <=> x % 65536 < 256
         /\ x % 256 = x % 16777216 <=> x % 16777216 < 256
         /\ x % 65536 = x % 16777216 <=> x % 16777216 < 65536
<1>1. x % 256 = x % 65536 <=> x % 65536 < 256
  BY SMT
<1>2. x % 256 = x % 16777216 <=> x % 16777216 < 256
  BY SMT
<1>3. x % 65536 = x % 16777216 <=> x % 16777216 < 65536
  BY SMT
<1>. QED BY <1>1, <1>2, <1>3

\* What its size, when it is negated, and the shifter, which is off, leave of
\* the right operand.
LEMMA RightCut ==
  ASSUME NEW c, Shape(c), c.shifter = "NONE", NEW latch, NEW carry \in BOOLEAN
  PROVE  LET addend == AddendOf(c, latch, carry) % Full(c.size0)
             right == Unsigned(Right16(c, latch, carry), c.size0)
         IN  /\ right = addend <=> addend < RoomOf(c)
             /\ AddendOf(c, latch, carry) \in Int
<1>. DEFINE operand == RightOperand(c, latch, carry)
            cut == operand \cap Below(16)
            x == AddendOf(c, latch, carry)
            addend == x % Full(c.size0)
            right == Unsigned(Right16(c, latch, carry), c.size0)
            goal == right = addend <=> addend < RoomOf(c)
<1>1. Right16(c, latch, carry) = cut
  BY DEF Right16, Shift, ShiftsLeft, ShiftsRight
<1>2. c.size0 \in Sizes /\ c.size1 \in Sizes /\ c.negate \in BOOLEAN
      /\ (c.negate = TRUE => c.sign1 = FALSE)
  BY DEF Shape, AluControls
<1>3. x \in Int
  <2>1. 0 \in Sizes /\ 0 <= c.size1
    BY <1>2 DEF Sizes
  <2>. QED BY <2>1, RightNumber
<1>4. ASSUME c.size0 # 2, c.negate = TRUE => c.size0 <= c.size1
      PROVE  goal
  <2>1. Unsigned(operand, c.size0) = addend
    BY <1>2, <1>4, RightNumber
  <2>2. Width(c.size0) <= 16
    BY <1>2, <1>4, SizeNumbers DEF Sizes
  <2>3. Unsigned(cut, c.size0) = Unsigned(operand, c.size0)
    <3>. HIDE DEF operand
    <3>. QED BY <1>2, <2>2, UnsignedCut
  <2>4. addend < RoomOf(c)
    <3>1. Unsigned(operand, c.size0) \in Int
          /\ Unsigned(operand, c.size0) < Full(c.size0)
      BY <1>2, UnsignedRange
    <3>. HIDE DEF operand, addend
    <3>2. CASE c.negate = TRUE /\ c.size1 = 0
      <4>1. c.size0 = 0
        BY <1>2, <1>4, <3>2 DEF Sizes
      <4>. QED BY <2>1, <3>1, <3>2, <4>1 DEF RoomOf
    <3>3. CASE ~ (c.negate = TRUE /\ c.size1 = 0)
      <4>1. RoomOf(c) = 65536
        BY <1>2, <3>3, SizeNumbers DEF RoomOf
      <4>2. Full(c.size0) <= 65536 /\ Full(c.size0) \in Int
        BY <1>2, <1>4, SizeNumbers DEF Sizes
      <4>. QED BY <2>1, <3>1, <4>1, <4>2
    <3>. QED BY <3>2, <3>3
  <2>5. right = addend
    BY <1>1, <2>1, <2>3
  <2>. QED BY <2>4, <2>5
<1>5. ASSUME c.size0 = 2, c.negate = TRUE => c.size0 <= c.size1
      PROVE  goal
  <2>. DEFINE r0 == Byte(operand, 0)  r1 == Byte(operand, 8)
              r2 == Byte(operand, 16)
              c0 == Byte(cut, 0)  c1 == Byte(cut, 8)  c2 == Byte(cut, 16)
  <2>1. /\ Unsigned(cut, 2) = c0 + 256 * c1 + 65536 * c2
        /\ Unsigned(operand, 2) = r0 + 256 * r1 + 65536 * r2
    BY UnsignedBytes
  <2>2. c0 = r0 /\ c1 = r1 /\ c2 = 0
    <3>. HIDE DEF operand
    <3>. QED BY ByteCut
  <2>3. r0 \in 0 .. 255 /\ r1 \in 0 .. 255 /\ r2 \in 0 .. 255
    BY BytesType DEF Bytes
  <2>4. Unsigned(operand, 2) = addend
    <3>1. Unsigned(operand, c.size0) = addend
      BY <1>2, <1>5, RightNumber
    <3>. QED BY <1>5, <3>1
  <2>5. RoomOf(c) = 65536
    BY <1>2, <1>5, SizeNumbers, SMT DEF RoomOf, Sizes
  <2>7. right = Unsigned(cut, 2)
    BY <1>1, <1>5
  <2>. HIDE DEF operand, cut, addend, right, r0, r1, r2, c0, c1, c2
  <2>6. Unsigned(cut, 2) = addend <=> addend < 65536
    BY <2>1, <2>2, <2>3, <2>4, SMT
  <2>. QED BY <2>5, <2>6, <2>7 DEF goal
<1>6. ASSUME c.negate = TRUE, c.size1 < c.size0
      PROVE  goal
  <2>1. c.size1 \in {0, 1} /\ c.size1 <= c.size1
    BY <1>2, <1>6 DEF Sizes
  <2>2. operand \cap Below(Width(c.size1)) = operand
    BY <1>2, <1>6 DEF RightOperand
  <2>3. cut = operand
    <3>1. Width(c.size1) \in Int /\ Width(c.size1) <= 16
      BY <2>1, SizeNumbers
    <3>2. Below(Width(c.size1)) \subseteq Below(16)
      BY <3>1 DEF Below
    <3>. HIDE DEF operand
    <3>. QED BY <2>2, <3>2
  <2>4. Unsigned(operand, c.size1) = x % Full(c.size1)
    BY <1>2, <2>1, RightNumber
  <2>5. Unsigned(operand, c.size0) = Unsigned(operand, c.size1)
    <3>1. Width(c.size1) <= Width(c.size0) /\ Width(c.size0) \in Int
          /\ Width(c.size1) \in Int
      BY <1>2, <1>6, SizeNumbers DEF Sizes
    <3>2. Below(Width(c.size1)) \subseteq Below(Width(c.size0))
      BY <3>1 DEF Below
    <3>. HIDE DEF operand
    <3>3. operand \cap Below(Width(c.size0))
            = operand \cap Below(Width(c.size1))
      BY <2>2, <3>2
    <3>. QED BY <3>3 DEF Unsigned
  <2>6. right = x % Full(c.size1)
    BY <1>1, <2>3, <2>4, <2>5
  <2>7. RoomOf(c) = Full(c.size1)
    BY <1>6, <2>1, SMT DEF RoomOf
  <2>. HIDE DEF operand, cut, x, right
  <2>8. x % Full(c.size1) = addend <=> addend < Full(c.size1)
    <3>1. CASE c.size1 = 0 /\ c.size0 = 1
      BY <1>3, <3>1, CutModulo, SizeNumbers
    <3>2. CASE c.size1 = 0 /\ c.size0 = 2
      BY <1>3, <3>2, CutModulo, SizeNumbers
    <3>3. CASE c.size1 = 1 /\ c.size0 = 2
      BY <1>3, <3>3, CutModulo, SizeNumbers
    <3>. QED BY <1>2, <1>6, <3>1, <3>2, <3>3 DEF Sizes
  <2>. QED BY <2>6, <2>7, <2>8 DEF goal
<1>7. goal
  <2>1. (c.negate = TRUE => c.size0 <= c.size1)
        \/ (c.negate = TRUE /\ c.size1 < c.size0)
    BY <1>2 DEF Sizes
  <2>. HIDE DEF goal
  <2>. QED BY <1>4, <1>5, <1>6, <2>1
<1>. QED BY <1>3, <1>7

\* The operations that are sums: additions, and loads, whose left operand
\* is zero.
IsSum(c, latch0) ==
  c.op = "ADD" \/ (c.op = "OR" /\ c.mask = {} /\ latch0 = {})

\* The number such an operation leaves is the sum of its operands.
LEMMA SumParts ==
  ASSUME NEW c, Shape(c), NEW latch0, IsSum(c, latch0), NEW b, NEW old
  PROVE  /\ c.shifter = "NONE"
         /\ \E out \in {0, 1} :
              Unsigned(latch0, c.size0) + Unsigned(b, c.size0)
                = Unsigned(Operate(c.op, Left24(c, latch0), b, old), c.size0)
                    + Full(c.size0) * out
<1>. DEFINE a == Left24(c, latch0)
            o == Operate(c.op, a, b, old)
            size == c.size0
<1>1. c.size0 \in Sizes /\ c.shifter = "NONE"
  BY DEF Shape, AluControls, IsSum
<1>2. a = latch0 \cap Below(Width(size))
  BY DEF Shape, Left24, Operand
<1>3. Unsigned(a, size) = Unsigned(latch0, size)
  <2>1. Width(size) <= Width(size) /\ Width(size) \in Int
    BY <1>1, SizeNumbers DEF Sizes
  <2>. HIDE DEF a, size
  <2>. QED BY <1>1, <1>2, <2>1, UnsignedCut DEF size
<1>4. CASE c.op = "ADD"
  <2>1. o = Plus(a, b) \cap Below(24)
    BY <1>4, Zenon DEF Operate
  <2>2. Unsigned(o, size) = Unsigned(Plus(a, b), size)
    <3>1. Width(size) <= 24
      BY <1>1, SizeNumbers DEF Sizes
    <3>. HIDE DEF o, a
    <3>. QED BY <1>1, <2>1, <3>1, UnsignedCut
  <2>. HIDE DEF a, o
  <2>3. PICK out \in {0, 1} :
          Unsigned(a, size) + Unsigned(b, size)
            = Unsigned(Plus(a, b), size) + Full(size) * out
    BY <1>1, SizedSum
  <2>. QED BY <1>1, <1>3, <2>2, <2>3 DEF o, a
<1>5. CASE c.op = "OR" /\ latch0 = {}
  <2>1. a = {}
    BY <1>2, <1>5
  <2>2. o = a \cup b
    BY <1>5, Zenon DEF Operate
  <2>3. o = b
    BY <2>1, <2>2
  <2>4. Unsigned(latch0, size) = 0
    <3>1. latch0 \cap Below(Width(size)) = {}
      BY <1>5
    <3>. QED BY <1>1, <3>1, SizedBits
  <2>5. Unsigned(b, size) \in Nat /\ Full(size) \in Nat
    BY <1>1, UnsignedRange, SizeNumbers, SMT DEF Sizes
  <2>. HIDE DEF o, size
  <2>6. Unsigned(latch0, size) + Unsigned(b, size)
          = Unsigned(o, size) + Full(size) * 0
    BY <2>3, <2>4, <2>5
  <2>. QED BY <1>1, <2>6 DEF o, size
<1>. QED BY <1>4, <1>5 DEF IsSum

\* It is the true sum modulo the size exactly when the right operand fits
\* into what it is cut to.
LEMMA SumOf ==
  ASSUME NEW c, Shape(c), NEW latch0, IsSum(c, latch0), NEW latch1,
         NEW carry \in BOOLEAN, NEW old
  PROVE  LET o == Operate(c.op, Left24(c, latch0),
                          Right16(c, latch1, carry), old)
             addend == AddendOf(c, latch1, carry)
             size == c.size0
         IN  Unsigned(o, size) = (Unsigned(latch0, size) + addend) % Full(size)
               <=> addend % Full(size) < RoomOf(c)
<1>. DEFINE b == Right16(c, latch1, carry)
            o == Operate(c.op, Left24(c, latch0), b, old)
            addend == AddendOf(c, latch1, carry)
            size == c.size0
<1>2. c.shifter = "NONE"
  BY DEF Shape, IsSum
<1>1. size \in Sizes /\ addend \in Int
  <2>1. c.size0 \in Sizes
    BY DEF Shape, AluControls
  <2>. QED BY <1>2, <2>1, RightCut
<1>3. Unsigned(b, size) = addend % Full(size)
        <=> addend % Full(size) < RoomOf(c)
  <2>1. Unsigned(Right16(c, latch1, carry), c.size0)
            = AddendOf(c, latch1, carry) % Full(c.size0)
          <=> AddendOf(c, latch1, carry) % Full(c.size0) < RoomOf(c)
    BY <1>2, RightCut
  <2>. QED BY <2>1
<1>4. PICK out \in {0, 1} :
        Unsigned(latch0, size) + Unsigned(b, size)
          = Unsigned(o, size) + Full(size) * out
  <2>. HIDE DEF b
  <2>. QED BY SumParts
<1>. HIDE DEF b, o, addend, size
<1>5. /\ Unsigned(latch0, size) \in Nat /\ Unsigned(latch0, size) < Full(size)
      /\ Unsigned(b, size) \in Nat /\ Unsigned(b, size) < Full(size)
      /\ Unsigned(o, size) \in Nat /\ Unsigned(o, size) < Full(size)
  BY <1>1, UnsignedRange
<1>6. Unsigned(o, size) = (Unsigned(latch0, size) + addend) % Full(size)
        <=> Unsigned(b, size) = addend % Full(size)
  <2>. DEFINE l == Unsigned(latch0, size)  r == Unsigned(b, size)
              sum == Unsigned(o, size)
  <2>1. /\ l \in Nat /\ l < Full(size) /\ r \in Nat /\ r < Full(size)
        /\ sum \in Nat /\ sum < Full(size)
        /\ l + r = sum + Full(size) * out
    BY <1>4, <1>5
  <2>. HIDE DEF l, r, sum
  <2>2. sum = (l + addend) % Full(size) <=> r = addend % Full(size)
    BY <1>1, <2>1, SumModulo
  <2>. QED BY <2>2 DEF l, r, sum
<1>7. Unsigned(o, size) = (Unsigned(latch0, size) + addend) % Full(size)
        <=> addend % Full(size) < RoomOf(c)
  BY <1>3, <1>6
<1>. QED BY <1>7 DEF b, o, addend, size

-----------------------------------------------------------------------------
(***************************************************************************)
(* The invariant that says where the output and the flags come from.       *)
(***************************************************************************)

Latch0 == alu_input_latches[1]
Latch1 == alu_input_latches[2]
CarryIn == F_CARRY \in f

\* The latches hold what the control word reads, and after the step the
\* output and the flags are a result of theirs.
ResultInv ==
  /\ control \in Controls
  /\ alu_input_latches \in Lefts(control) \X Rights(control)
  /\ ~ Done => alu_output_latch \in Operands
  /\ Done => \E old \in Operands :
               \E r \in Results(control, Latch0, Latch1, f, old) :
                 alu_output_latch = r.out /\ flags = r.flags

\* The step of the ALU keeps it.
LEMMA ResultInvariant == Spec => []ResultInv
<1>1. Init => ResultInv
  <2>. SUFFICES ASSUME Init PROVE ResultInv
    OBVIOUS
  <2>1. ~ Done
    BY DEF Init, Done
  <2>2. Olds(control) \subseteq Operands
    BY SweepAssumption DEF Olds
  <2>. QED BY <2>1, <2>2 DEF Init, ResultInv
<1>2. ResultInv /\ [ResultLatch]_vars => ResultInv'
  <2>. SUFFICES ASSUME ResultInv, [ResultLatch]_vars PROVE ResultInv'
    OBVIOUS
  <2>1. CASE UNCHANGED vars
    BY <2>1 DEF vars, inputs, ResultInv, Done, Latch0, Latch1
  <2>2. CASE ResultLatch
    <3>1. /\ ~ Done /\ Done' /\ control' = control /\ f' = f
          /\ alu_input_latches' = alu_input_latches
      BY <2>2 DEF ResultLatch, inputs, Done
    <3>2. \E r \in Results(control, Latch0, Latch1, f, alu_output_latch) :
            alu_output_latch' = r.out /\ flags' = r.flags
      BY <2>2 DEF ResultLatch, Latch0, Latch1
    <3>3. alu_output_latch \in Operands
      BY <3>1 DEF ResultInv
    <3>4. Latch0' = Latch0 /\ Latch1' = Latch1
      BY <3>1 DEF Latch0, Latch1
    <3>. QED BY <3>1, <3>2, <3>3, <3>4 DEF ResultInv
  <2>. QED BY <2>1, <2>2
<1>. QED BY <1>1, <1>2, PTL DEF Spec

\* After a step whose result is not adjusted: what the properties speak of.
LEMMA AfterStep ==
  ASSUME ResultInv, Done, control.op # "OFF",
         ~ (control.op = "ADD" /\ IsByte /\ F_DECIMAL \in f)
  PROVE  LET b == Right16(control, Latch1, CarryIn)
         IN  /\ Shape(control)
             /\ \E old : alu_output_latch
                           = Operate(control.op, Left24(control, Latch0), b, old)
             /\ \E entered :
                  flags = ModifyFlags(control, f, Left24(control, Latch0), b,
                            alu_output_latch, entered,
                            ShiftOut(control, Wide(control, Latch1, CarryIn)))
<1>1. Shape(control)
  BY ControlShape DEF ResultInv
<1>5. PICK old \in Operands :
        \E r \in Results(control, Latch0, Latch1, f, old) :
          alu_output_latch = r.out /\ flags = r.flags
  BY DEF ResultInv
<1>2. PICK r \in Results(control, Latch0, Latch1, f, old) :
        alu_output_latch = r.out /\ flags = r.flags
  BY <1>5
<1>3. ~ (control.op = "ADD" /\ control.size0 = 0 /\ F_DECIMAL \in f)
  BY DEF IsByte
<1>4. /\ r.out = Operate(control.op, Left24(control, Latch0),
                         Right16(control, Latch1, CarryIn), old)
      /\ \E entered :
           r.flags = ModifyFlags(control, f, Left24(control, Latch0),
                       Right16(control, Latch1, CarryIn), r.out, entered,
                       ShiftOut(control, Wide(control, Latch1, CarryIn)))
  BY <1>1, <1>2, <1>3, ResultParts DEF CarryIn
<1>. QED BY <1>1, <1>2, <1>4

\* The numbers of AluSweep, as the lemmas speak of them.
LEMMA StateNumbers ==
  /\ Left = Unsigned(Latch0, control.size0)
  /\ Addend = AddendOf(control, Latch1, CarryIn)
  /\ Number(low) = Unsigned(alu_output_latch, control.size0)
  /\ full = Full(control.size0) /\ half = Half(control.size0)
  /\ Room = RoomOf(control)
  /\ CarryIn \in BOOLEAN
<1>1. /\ Left = Unsigned(Latch0, control.size0)
      /\ Number(low) = Unsigned(alu_output_latch, control.size0)
      /\ full = Full(control.size0) /\ half = Half(control.size0)
      /\ CarryIn \in BOOLEAN
  BY DEF Left, Latch0, low, Unsigned, full, half, CarryIn
<1>2. (IF control.add_carry THEN Carry ELSE 0)
        = IF control.add_carry /\ CarryIn THEN 1 ELSE 0
  BY DEF Carry, CarryIn
<1>3. Right = RightOf(control, Latch1, CarryIn)
  BY <1>2 DEF Right, RightOf, Latch1
<1>. QED BY <1>1, <1>3 DEF Addend, AddendOf, Room, RoomOf

\* Additions and loads, read off the result.
LEMMA SumHolds == ASSUME ResultInv PROVE SumExact
<1>. SUFFICES ASSUME Adds \/ Loads
              PROVE  Number(low) = (Left + Addend) % full <=> Fits
  BY DEF SumExact
<1>. DEFINE b == Right16(control, Latch1, CarryIn)
<1>1. Done /\ control.op # "OFF"
      /\ ~ (control.op = "ADD" /\ IsByte /\ F_DECIMAL \in f)
  BY DEF Adds, Loads
<1>2. Shape(control) /\ \E old : alu_output_latch
                           = Operate(control.op, Left24(control, Latch0), b, old)
  BY <1>1, AfterStep
<1>3. IsSum(control, Latch0)
  <2>1. Loads => Lefts(control) = {{}}
    BY DEF Loads, WritesFlags, Lefts
  <2>2. Loads => Latch0 = {}
    BY <2>1 DEF ResultInv, Latch0
  <2>. QED BY <2>2 DEF IsSum, Adds, Loads, WritesFlags
<1>4. CarryIn \in BOOLEAN
  BY DEF CarryIn
<1>5. Unsigned(alu_output_latch, control.size0)
          = (Unsigned(Latch0, control.size0)
               + AddendOf(control, Latch1, CarryIn)) % Full(control.size0)
        <=> AddendOf(control, Latch1, CarryIn) % Full(control.size0)
              < RoomOf(control)
  BY <1>2, <1>3, <1>4, SumOf
<1>. QED BY <1>5, StateNumbers DEF Fits

\* An addition, subtraction or address computation leaves the sum modulo the
\* size of its left operand, and a load what it loads, for all control words,
\* operands and flags, exactly when the right operand fits into the 16 bits of
\* the shifter and, negated, into its own size.
THEOREM SumsExact == Spec => []SumExact
BY ResultInvariant, SumHolds, PTL

-----------------------------------------------------------------------------
(***************************************************************************)
(* The flags of sums.                                                      *)
(***************************************************************************)

\* What an addition that writes flags has in common.
LEMMA FlaggedSum ==
  ASSUME ResultInv, Adds, WritesFlags, Fits
  PROVE  LET a == Left24(control, Latch0)
             b == Right16(control, Latch1, CarryIn)
             size == control.size0
         IN  /\ Shape(control) /\ control.mask # {} /\ size \in Sizes
             /\ alu_output_latch = Plus(a, b) \cap Below(24)
             /\ Unsigned(alu_output_latch, size) = (Left + Addend) % full
             /\ F_NEG \in flags <=> TopBit(size) \in alu_output_latch
             /\ F_ZERO \in flags
                  <=> alu_output_latch \cap Below(Width(size)) = {}
             /\ F_OVERFLOW \in flags <=> Overflow(size, a, b, alu_output_latch)
<1>. DEFINE a == Left24(control, Latch0)
            b == Right16(control, Latch1, CarryIn)
            size == control.size0
            shifted == ShiftOut(control, Wide(control, Latch1, CarryIn))
<1>1. Done /\ control.op = "ADD" /\ ~ (IsByte /\ F_DECIMAL \in f)
      /\ control.mask # {}
  BY DEF Adds, WritesFlags
<1>2. /\ Shape(control)
      /\ \E old : alu_output_latch = Operate(control.op, a, b, old)
      /\ \E entered : flags = ModifyFlags(control, f, a, b, alu_output_latch,
                                         entered, shifted)
  BY <1>1, AfterStep
<1>3. size \in Sizes
  BY <1>2 DEF Shape, AluControls
<1>4. alu_output_latch = Plus(a, b) \cap Below(24)
  BY <1>1, <1>2, Zenon DEF Operate
<1>5. Unsigned(alu_output_latch, size) = (Left + Addend) % full
  <2>1. Number(low) = (Left + Addend) % full
    BY SumHolds DEF SumExact
  <2>. QED BY <2>1, StateNumbers
<1>6. PICK entered : flags = ModifyFlags(control, f, a, b, alu_output_latch,
                                         entered, shifted)
  BY <1>2
<1>. HIDE DEF a, b, shifted
<1>7. /\ F_NEG \in flags <=> TopBit(size) \in alu_output_latch
      /\ F_ZERO \in flags <=> alu_output_latch \cap Below(Width(size)) = {}
      /\ F_OVERFLOW \in flags
          <=> F_OVERFLOW \in VSource(control, a, b, alu_output_latch, shifted)
  <2>1. alu_output_latch \in Words(24)
    BY <1>4 DEF Words
  <2>. QED BY <1>1, <1>2, <1>6, <2>1, FlagBits
<1>8. F_OVERFLOW \in VSource(control, a, b, alu_output_latch, shifted)
        <=> Overflow(size, a, b, alu_output_latch)
  <2>1. control.vmode = "NORMAL"
    BY <1>1, <1>2 DEF Shape
  <2>2. VSource(control, a, b, alu_output_latch, shifted)
          = BitIf(Overflow(size, a, b, alu_output_latch), 2)
    BY <1>1, <2>1, Zenon DEF VSource
  <2>3. F_OVERFLOW = 2
    BY DEF F_OVERFLOW
  <2>. QED BY <2>2, <2>3 DEF BitIf
<1>. QED BY <1>1, <1>2, <1>3, <1>4, <1>5, <1>7, <1>8 DEF a, b

\* S and Z, read off the result.
LEMMA SignHolds == ASSUME ResultInv PROVE SignAndZero
<1>. SUFFICES ASSUME Adds, WritesFlags, Fits
              PROVE  /\ F_ZERO \in flags <=> (Left + Addend) % full = 0
                     /\ F_NEG \in flags <=> (Left + Addend) % full >= half
  BY DEF SignAndZero
<1>. DEFINE size == control.size0
<1>1. /\ size \in Sizes
      /\ Unsigned(alu_output_latch, size) = (Left + Addend) % full
      /\ F_NEG \in flags <=> TopBit(size) \in alu_output_latch
      /\ F_ZERO \in flags <=> alu_output_latch \cap Below(Width(size)) = {}
  BY FlaggedSum
<1>. HIDE DEF size
<1>2. /\ TopBit(size) \in alu_output_latch
           <=> Unsigned(alu_output_latch, size) >= Half(size)
      /\ alu_output_latch \cap Below(Width(size)) = {}
           <=> Unsigned(alu_output_latch, size) = 0
  BY <1>1, SizedBits
<1>3. half = Half(size)
  BY DEF half, size
<1>. QED BY <1>1, <1>2, <1>3

\* S and Z of an addition, subtraction or comparison whose right operand fits
\* are those of the true sum modulo the size of the left one.
THEOREM SignAndZeroOfSum == Spec => []SignAndZero
BY ResultInvariant, SignHolds, PTL

\* The rule of overflow on numbers: H is half of a size, left and right the
\* operands, sum what is left of their sum, addend the signed number that
\* the right one stands for modulo the size, which may be H itself.
LEMMA OverflowRule ==
  ASSUME NEW H \in Nat, H > 0,
         NEW left \in Nat, NEW right \in Nat, NEW sum \in Nat,
         left < H + H, right < H + H, sum < H + H,
         left + right = sum \/ left + right = sum + H + H,
         NEW addend \in Int, - H <= addend, addend <= H,
         right = IF addend < 0 THEN addend + H + H ELSE addend,
         NEW signed, signed = IF left >= H THEN left - H - H ELSE left,
         NEW a \in BOOLEAN, NEW b \in BOOLEAN, NEW s \in BOOLEAN,
         a <=> left >= H, b <=> right >= H, s <=> sum >= H
  PROVE  ((b # s) /\ (a # s)
            <=> ~ (- H <= signed + addend /\ signed + addend < H))
           <=> (- H <= addend /\ addend < H)
OBVIOUS

\* A whole number of times a size away is the same modulo the size.
LEMMA TimesModulo ==
  ASSUME NEW size \in Sizes, NEW x \in Int, NEW k \in Int
  PROVE  (x + Full(size) * k) % Full(size) = x % Full(size)
<1>1. CASE size = 0
  <2>1. Full(size) = 256
    BY <1>1, SizeNumbers
  <2>2. (x + 256 * k) % 256 = x % 256
    BY SMT
  <2>. QED BY <2>1, <2>2
<1>2. CASE size = 1
  <2>1. Full(size) = 65536
    BY <1>2, SizeNumbers
  <2>2. (x + 65536 * k) % 65536 = x % 65536
    BY SMT
  <2>. QED BY <2>1, <2>2
<1>3. CASE size = 2
  <2>1. Full(size) = 16777216
    BY <1>3, SizeNumbers
  <2>2. (x + 16777216 * k) % 16777216 = x % 16777216
    BY SMT
  <2>. QED BY <2>1, <2>2
<1>. QED BY <1>1, <1>2, <1>3 DEF Sizes

\* The signed addend and the unsigned one are the same modulo the size of the
\* left operand.
LEMMA AddendModulo ==
  ASSUME NEW size0 \in Sizes, NEW size1 \in Sizes,
         NEW u \in Nat, u < Full(size1),
         NEW cy \in {0, 1}, NEW negated \in BOOLEAN,
         NEW s, s = IF size1 < size0 THEN u
                    ELSE IF u >= Half(size1) THEN u - Full(size1) ELSE u,
         NEW signed, signed = IF negated THEN - (s + cy) ELSE s + cy,
         NEW addend, addend = IF negated THEN - (u + cy) ELSE u + cy
  PROVE  /\ signed \in Int /\ addend \in Int
         /\ addend % Full(size0) = signed % Full(size0)
         /\ size0 = size1
              => - Half(size0) <= signed /\ signed <= Half(size0)
<1>1. /\ size1 = 0 => s \in {u, u - 256}
      /\ size1 = 1 => s \in {u, u - 65536}
      /\ size1 = 2 => s \in {u, u - 16777216}
  BY SizeNumbers, SMT
<1>2. s \in Int
  BY <1>1, SMT DEF Sizes
<1>3. signed \in Int /\ addend \in Int
  BY <1>2
<1>4. addend % Full(size0) = signed % Full(size0)
  <2>1. CASE size1 < size0
    <3>1. s = u
      BY <2>1
    <3>. QED BY <3>1
  <2>2. CASE ~ (size1 < size0)
    <3>1. \E k \in Int : s = u + Full(size0) * k
      <4>1. CASE s = u
        <5>1. s = u + Full(size0) * 0
          BY <4>1, SizeNumbers, SMT DEF Sizes
        <5>. QED BY <5>1
      <4>2. CASE s # u
        <5>1. s = u - Full(size1)
          BY <2>2, <4>2
        <5>2. \E m \in Int : Full(size1) = Full(size0) * m
          <6>1. /\ Full(0) = Full(0) * 1 /\ Full(1) = Full(0) * 256
                /\ Full(2) = Full(0) * 65536 /\ Full(1) = Full(1) * 1
                /\ Full(2) = Full(1) * 256 /\ Full(2) = Full(2) * 1
            BY SizeNumbers, SMT
          <6>2. \/ size0 = 0 /\ size1 = 0
                \/ size0 = 0 /\ size1 = 1
                \/ size0 = 0 /\ size1 = 2
                \/ size0 = 1 /\ size1 = 1
                \/ size0 = 1 /\ size1 = 2
                \/ size0 = 2 /\ size1 = 2
            BY <2>2 DEF Sizes
          <6>. QED BY <6>1, <6>2
        <5>3. PICK m \in Int : Full(size1) = Full(size0) * m
          BY <5>2
        <5>4. Full(size0) \in Int
          BY SizeNumbers, SMT DEF Sizes
        <5>5. s = u + Full(size0) * (- m)
          BY <5>1, <5>3, <5>4
        <5>6. - m \in Int
          OBVIOUS
        <5>. QED BY <5>5, <5>6
      <4>. QED BY <4>1, <4>2
    <3>2. PICK k \in Int : s = u + Full(size0) * k
      BY <3>1
    <3>3. Full(size0) \in Int
      BY SizeNumbers, SMT DEF Sizes
    <3>4. CASE negated = TRUE
      <4>1. addend = signed + Full(size0) * k
        BY <1>2, <3>2, <3>3, <3>4
      <4>2. (signed + Full(size0) * k) % Full(size0) = signed % Full(size0)
        BY <1>3, TimesModulo
      <4>. QED BY <4>1, <4>2
    <3>5. CASE negated = FALSE
      <4>1. addend = signed + Full(size0) * (- k)
        BY <1>2, <3>2, <3>3, <3>5
      <4>2. - k \in Int
        OBVIOUS
      <4>3. (signed + Full(size0) * (- k)) % Full(size0)
              = signed % Full(size0)
        BY <1>3, <4>2, TimesModulo
      <4>. QED BY <4>1, <4>3
    <3>. QED BY <3>4, <3>5
  <2>. QED BY <2>1, <2>2
<1>5. ASSUME size0 = size1
      PROVE  - Half(size0) <= signed /\ signed <= Half(size0)
  <2>1. s = IF u >= Half(size0) THEN u - Full(size0) ELSE u
    BY <1>5 DEF Sizes
  <2>2. Half(size0) \in Nat /\ Full(size0) = Half(size0) + Half(size0)
    BY SizeNumbers, SMT DEF Sizes
  <2>3. - Half(size0) <= s /\ s < Half(size0)
    BY <1>5, <2>1, <2>2
  <2>. QED BY <1>2, <2>2, <2>3
<1>. QED BY <1>3, <1>4, <1>5

\* A number at most half a size from zero, modulo the size.
LEMMA SignedModulo ==
  ASSUME NEW size \in Sizes, NEW x \in Int, - Half(size) <= x, x <= Half(size)
  PROVE  x % Full(size) = IF x < 0 THEN x + Full(size) ELSE x
<1>1. CASE size = 0
  <2>1. -128 <= x /\ x <= 128
    BY <1>1, SizeNumbers
  <2>2. x % 256 = IF x < 0 THEN x + 256 ELSE x
    BY <2>1, SMT
  <2>. QED BY <1>1, <2>2, SizeNumbers
<1>2. CASE size = 1
  <2>1. -32768 <= x /\ x <= 32768
    BY <1>2, SizeNumbers, SMT
  <2>2. x % 65536 = IF x < 0 THEN x + 65536 ELSE x
    BY <2>1, SMT
  <2>. QED BY <1>2, <2>2, SizeNumbers
<1>3. CASE size = 2
  <2>1. -8388608 <= x /\ x <= 8388608
    BY <1>3, SizeNumbers, SMT
  <2>2. x % 16777216 = IF x < 0 THEN x + 16777216 ELSE x
    BY <2>1, SMT
  <2>. QED BY <1>3, <2>2, SizeNumbers
<1>. QED BY <1>1, <1>2, <1>3 DEF Sizes

\* V, read off the result.
LEMMA OverflowHolds == ASSUME ResultInv PROVE OverflowExact
<1>. DEFINE signed == Signed(alu_input_latches[1], control.size0)
            exact == F_OVERFLOW \in flags <=> ~ InRange(signed + SignedAddend)
<1>. SUFFICES ASSUME Adds, WritesFlags, Fits
              PROVE  /\ InRange(SignedAddend) => exact
                     /\ control.size0 = control.size1 /\ exact
                          => InRange(SignedAddend)
  BY DEF OverflowExact
<1>. DEFINE a == Left24(control, Latch0)
            b == Right16(control, Latch1, CarryIn)
            size == control.size0
            size1 == control.size1
            H == Half(size)
            left == Unsigned(Latch0, size)
            right == Unsigned(b, size)
            sum == Unsigned(alu_output_latch, size)
            u == Unsigned(Latch1, size1)
            cy == IF control.add_carry /\ CarryIn THEN 1 ELSE 0
            s == IF size1 < size THEN u ELSE Signed(Latch1, size1)
            addend == AddendOf(control, Latch1, CarryIn)
            x == SignedAddend
<1>1. /\ Shape(control) /\ control.mask # {} /\ size \in Sizes
      /\ alu_output_latch = Plus(a, b) \cap Below(24)
      /\ F_OVERFLOW \in flags <=> Overflow(size, a, b, alu_output_latch)
  BY FlaggedSum
<1>2. /\ size1 \in Sizes /\ control.sign1 = FALSE
      /\ control.negate \in BOOLEAN /\ control.op = "ADD"
      /\ control.shifter = "NONE"
  BY <1>1 DEF Shape, AluControls, Adds
<1>3. /\ H \in Nat /\ H > 0 /\ Full(size) = H + H
  BY <1>1, SizeNumbers, SMT DEF Sizes
<1>4. /\ left \in Nat /\ left < Full(size) /\ right \in Nat /\ right < Full(size)
      /\ sum \in Nat /\ sum < Full(size) /\ u \in Nat /\ u < Full(size1)
  <2>. HIDE DEF size, size1, b
  <2>. QED BY <1>1, <1>2, UnsignedRange
<1>5. left + right = sum \/ left + right = sum + H + H
  <2>1. \E out \in {0, 1} :
          left + right = Unsigned(Operate(control.op, a, b, {}), size)
                           + Full(size) * out
    <3>1. IsSum(control, Latch0)
      BY <1>2 DEF IsSum
    <3>. HIDE DEF b
    <3>. QED BY <1>1, <3>1, SumParts
  <2>2. Operate(control.op, a, b, {}) = alu_output_latch
    BY <1>1, <1>2, Zenon DEF Operate
  <2>3. PICK out \in {0, 1} : left + right = sum + Full(size) * out
    BY <2>1, <2>2
  <2>4. out = 0 \/ out = 1
    OBVIOUS
  <2>. HIDE DEF left, right, sum, size, H
  <2>. QED BY <1>3, <1>4, <2>3, <2>4
<1>6. right = addend % Full(size)
  <2>1. addend % Full(size) < RoomOf(control)
    BY StateNumbers DEF Fits
  <2>2. CarryIn \in BOOLEAN
    BY DEF CarryIn
  <2>. QED BY <1>1, <1>2, <2>1, <2>2, RightCut
<1>7. cy \in {0, 1}
  OBVIOUS
<1>8. s = IF size1 < size THEN u
          ELSE IF u >= Half(size1) THEN u - Full(size1) ELSE u
  <2>1. TopBit(size1) \in Latch1 <=> u >= Half(size1)
    BY <1>2, SizedBits
  <2>2. Signed(Latch1, size1)
          = u - (IF TopBit(size1) \in Latch1 THEN Full(size1) ELSE 0)
    BY DEF Signed
  <2>3. Full(size1) \in Nat
    BY <1>2, SizeNumbers, SMT DEF Sizes
  <2>. HIDE DEF u, size, size1
  <2>. QED BY <1>4, <2>1, <2>2, <2>3
<1>9. x = IF control.negate THEN - (s + cy) ELSE s + cy
  <2>1. (IF control.add_carry THEN Carry ELSE 0) = cy
    BY DEF Carry, CarryIn
  <2>2. SignedRight = s + cy
    BY <2>1 DEF SignedRight, Latch1
  <2>. QED BY <2>2 DEF SignedAddend
<1>10. addend = IF control.negate THEN - (u + cy) ELSE u + cy
  BY <1>2 DEF AddendOf, RightOf
<1>11. signed = IF left >= H THEN left - H - H ELSE left
  <2>1. TopBit(size) \in Latch0 <=> left >= H
    BY <1>1, SizedBits
  <2>2. signed = left - (IF TopBit(size) \in Latch0 THEN Full(size) ELSE 0)
    BY DEF Signed, Latch0
  <2>. HIDE DEF signed, left, size, H
  <2>. QED BY <1>3, <1>4, <2>1, <2>2
<1>12. /\ TopBit(size) \in a <=> left >= H
       /\ TopBit(size) \in b <=> right >= H
       /\ TopBit(size) \in alu_output_latch <=> sum >= H
  <2>1. a = Latch0 \cap Below(Width(size))
    BY <1>1 DEF Shape, Left24, Operand
  <2>2. TopBit(size) \in Below(Width(size))
    BY <1>1, SizeNumbers DEF Below, Sizes
  <2>3. TopBit(size) \in a <=> TopBit(size) \in Latch0
    BY <2>1, <2>2
  <2>. HIDE DEF a, b, size
  <2>. QED BY <1>1, <2>3, SizedBits
<1>13. F_OVERFLOW \in flags
         <=> ((TopBit(size) \in b) # (TopBit(size) \in alu_output_latch))
             /\ ((TopBit(size) \in a) # (TopBit(size) \in alu_output_latch))
  <2>. HIDE DEF a, b, size
  <2>. QED BY <1>1 DEF Overflow, Xor
<1>14. \A y : InRange(y) <=> - H <= y /\ y < H
  BY DEF InRange, half
<1>. HIDE DEF signed, a, b, size, size1, left, right, sum, u, cy, s, addend, x
<1>15. /\ x \in Int /\ addend % Full(size) = x % Full(size)
       /\ size = size1 => - H <= x /\ x <= H
  BY <1>1, <1>2, <1>4, <1>7, <1>8, <1>9, <1>10, AddendModulo, SMTT(30) DEF H
<1>. DEFINE ta == TopBit(size) \in a  tb == TopBit(size) \in b
            ts == TopBit(size) \in alu_output_latch
<1>16. /\ ta \in BOOLEAN /\ tb \in BOOLEAN /\ ts \in BOOLEAN
       /\ ta <=> left >= H
       /\ tb <=> right >= H
       /\ ts <=> sum >= H
       /\ F_OVERFLOW \in flags <=> (tb # ts) /\ (ta # ts)
  BY <1>12, <1>13
<1>17. left < H + H /\ right < H + H /\ sum < H + H
  BY <1>3, <1>4
<1>. HIDE DEF ta, tb, ts
<1>18. ASSUME - H <= x, x <= H
       PROVE  (F_OVERFLOW \in flags <=> ~ (- H <= signed + x /\ signed + x < H))
                <=> (- H <= x /\ x < H)
  <2>1. x % Full(size) = IF x < 0 THEN x + Full(size) ELSE x
    BY <1>1, <1>15, <1>18, SignedModulo DEF H
  <2>2. right = IF x < 0 THEN x + H + H ELSE x
    BY <1>3, <1>6, <1>15, <2>1
  <2>3. ((tb # ts) /\ (ta # ts) <=> ~ (- H <= signed + x /\ signed + x < H))
          <=> (- H <= x /\ x < H)
    BY <1>3, <1>4, <1>5, <1>11, <1>15, <1>16, <1>17, <1>18, <2>2, OverflowRule
  <2>. QED BY <1>16, <2>3
<1>19. exact <=> (F_OVERFLOW \in flags
                    <=> ~ (- H <= signed + x /\ signed + x < H))
  BY <1>14 DEF x
<1>20. InRange(x) <=> - H <= x /\ x < H
  BY <1>14
<1>. HIDE DEF exact
<1>21. InRange(x) => exact
  <2>1. InRange(x) => - H <= x /\ x <= H
    BY <1>3, <1>15, <1>20
  <2>. QED BY <1>18, <1>19, <1>20, <2>1
<1>22. size = size1 /\ exact => InRange(x)
  BY <1>15, <1>18, <1>19, <1>20
<1>. QED BY <1>21, <1>22 DEF x, size, size1, exact, signed

\* V of an addition or subtraction whose right operand fits is the signed
\* overflow when that operand, with its carry and its sign, is a number of the
\* left one's size; of operands of one size only then.
THEOREM OverflowOfSum == Spec => []OverflowExact
BY ResultInvariant, OverflowHolds, PTL

-----------------------------------------------------------------------------
(***************************************************************************)
(* The parity.                                                             *)
(***************************************************************************)

\* A bit of a difference of words.
LEMMA XorBit ==
  ASSUME NEW a, NEW b, NEW k
  PROVE  k \in Xor(a, b) <=> ~ (k \in a <=> k \in b)
BY DEF Xor

\* A word folded onto itself.
Fold(a, n) == Xor(a, Down(a, n))

\* A bit of a word moved down.
LEMMA DownBit ==
  ASSUME NEW a \in SUBSET Nat, NEW n \in Nat
  PROVE  /\ Down(a, n) \in SUBSET Nat
         /\ \A k \in Nat : k \in Down(a, n) <=> k + n \in a
<1>1. Down(a, n) \in SUBSET Nat
  BY DEF Down
<1>2. ASSUME NEW k \in Nat PROVE k \in Down(a, n) <=> k + n \in a
  <2>1. ASSUME k + n \in a PROVE k \in Down(a, n)
    <3>1. k + n \in {j \in a : j >= n} /\ k = (k + n) - n
      BY <2>1
    <3>. QED BY <3>1 DEF Down
  <2>2. ASSUME k \in Down(a, n) PROVE k + n \in a
    <3>1. PICK j \in a : k = j - n
      BY <2>2 DEF Down
    <3>2. k + n = j
      BY <3>1
    <3>. QED BY <3>2
  <2>. QED BY <2>1, <2>2
<1>. QED BY <1>1, <1>2

\* A bit of a folded word.
LEMMA FoldBit ==
  ASSUME NEW a \in SUBSET Nat, NEW n \in Nat
  PROVE  /\ Fold(a, n) \in SUBSET Nat
         /\ \A k \in Nat : k \in Fold(a, n) <=> ~ (k \in a <=> k + n \in a)
<1>1. Down(a, n) \in SUBSET Nat
  BY DownBit
<1>2. Fold(a, n) \in SUBSET Nat
  BY <1>1 DEF Fold, Xor
<1>3. ASSUME NEW k \in Nat
      PROVE  k \in Fold(a, n) <=> ~ (k \in a <=> k + n \in a)
  <2>1. k \in Down(a, n) <=> k + n \in a
    BY DownBit
  <2>. QED BY <2>1, XorBit DEF Fold
<1>. QED BY <1>2, <1>3

\* The number of ones of a sum of two numbers, modulo 2.
LEMMA OddSum ==
  ASSUME NEW m \in Nat, NEW n \in Nat
  PROVE  (m + n) % 2 = 1 <=> (m % 2 = 1) # (n % 2 = 1)
OBVIOUS

\* A byte's parity, in the order the folds combine its bits.
LEMMA OddOnes ==
  ASSUME NEW word, NEW i \in Nat
  PROVE  /\ OnesOf(word, i) \in Nat
         /\ OnesOf(word, i) % 2 = 1
              <=> (((i \in word) # (i + 4 \in word))
                     # ((i + 2 \in word) # (i + 6 \in word)))
                  # (((i + 1 \in word) # (i + 5 \in word))
                     # ((i + 3 \in word) # (i + 7 \in word)))
<1>. DEFINE n(k) == Bit(word, k)
<1>1. \A k : n(k) \in Nat /\ (n(k) % 2 = 1 <=> k \in word)
  BY DEF Bit
<1>. HIDE DEF n
<1>2. /\ n(i) + n(i + 4) \in Nat /\ n(i + 2) + n(i + 6) \in Nat
      /\ n(i + 1) + n(i + 5) \in Nat /\ n(i + 3) + n(i + 7) \in Nat
      /\ (n(i) + n(i + 4)) % 2 = 1 <=> (i \in word) # (i + 4 \in word)
      /\ (n(i + 2) + n(i + 6)) % 2 = 1 <=> (i + 2 \in word) # (i + 6 \in word)
      /\ (n(i + 1) + n(i + 5)) % 2 = 1 <=> (i + 1 \in word) # (i + 5 \in word)
      /\ (n(i + 3) + n(i + 7)) % 2 = 1 <=> (i + 3 \in word) # (i + 7 \in word)
  BY <1>1, OddSum
<1>. DEFINE A == n(i) + n(i + 4)  B == n(i + 2) + n(i + 6)
            C == n(i + 1) + n(i + 5)  D == n(i + 3) + n(i + 7)
<1>3. OnesOf(word, i) = (A + B) + (C + D)
  <2>1. n(i) + n(i + 1) + n(i + 2) + n(i + 3) + n(i + 4) + n(i + 5) + n(i + 6)
          + n(i + 7) = (A + B) + (C + D)
    BY <1>1
  <2>. QED BY <2>1 DEF OnesOf, n
<1>4. A \in Nat /\ B \in Nat /\ C \in Nat /\ D \in Nat
  BY <1>2
<1>. HIDE DEF A, B, C, D
<1>5. A + B \in Nat /\ C + D \in Nat
  BY <1>4
<1>6. /\ (A + B) % 2 = 1 <=> (A % 2 = 1) # (B % 2 = 1)
      /\ (C + D) % 2 = 1 <=> (C % 2 = 1) # (D % 2 = 1)
      /\ ((A + B) + (C + D)) % 2 = 1 <=> ((A + B) % 2 = 1) # ((C + D) % 2 = 1)
  BY <1>4, <1>5, OddSum
<1>7. (A + B) + (C + D) \in Nat
  BY <1>5
<1>. QED BY <1>2, <1>3, <1>6, <1>7 DEF A, B, C, D

\* The three folds of alu_parity bring the parity of each byte to its lowest
\* bit.
LEMMA FoldByte ==
  ASSUME NEW out \in SUBSET Nat, NEW p4, NEW p2, NEW p1, NEW k \in Nat,
         p4 = Fold(out, 4), p2 = Fold(p4, 2), p1 = Fold(p2, 1)
  PROVE  p1 \in SUBSET Nat /\ (k \in p1 <=> OnesOf(out, k) % 2 = 1)
<1>1. p4 \in SUBSET Nat
      /\ \A i \in Nat : i \in p4 <=> ~ (i \in out <=> i + 4 \in out)
  <2>1. 4 \in Nat
    OBVIOUS
  <2>2. /\ Fold(out, 4) \in SUBSET Nat
        /\ \A i \in Nat : i \in Fold(out, 4) <=> ~ (i \in out <=> i + 4 \in out)
    BY <2>1, FoldBit, ZenonT(30)
  <2>. QED BY <2>2, Zenon
<1>2. p2 \in SUBSET Nat
      /\ \A i \in Nat : i \in p2 <=> ~ (i \in p4 <=> i + 2 \in p4)
  <2>1. 2 \in Nat /\ p4 \in SUBSET Nat
    BY <1>1
  <2>2. /\ Fold(p4, 2) \in SUBSET Nat
        /\ \A i \in Nat : i \in Fold(p4, 2) <=> ~ (i \in p4 <=> i + 2 \in p4)
    BY <2>1, FoldBit, Zenon
  <2>. QED BY <2>2, Zenon
<1>3. p1 \in SUBSET Nat
      /\ \A i \in Nat : i \in p1 <=> ~ (i \in p2 <=> i + 1 \in p2)
  <2>1. 1 \in Nat /\ p2 \in SUBSET Nat
    BY <1>2
  <2>2. /\ Fold(p2, 1) \in SUBSET Nat
        /\ \A i \in Nat : i \in Fold(p2, 1) <=> ~ (i \in p2 <=> i + 1 \in p2)
    BY <2>1, FoldBit, ZenonT(30)
  <2>. QED BY <2>2, Zenon
<1>4. \A i \in Nat : i \in p2 <=> ((i \in out) # (i + 4 \in out))
                                # ((i + 2 \in out) # (i + 6 \in out))
  <2>1. ASSUME NEW i \in Nat
        PROVE  i + 2 \in p4 <=> ~ (i + 2 \in out <=> i + 6 \in out)
    <3>1. i + 2 \in Nat /\ (i + 2) + 4 = i + 6
      OBVIOUS
    <3>. QED BY <1>1, <3>1
  <2>. QED BY <1>1, <1>2, <2>1
<1>5. k + 1 \in p2 <=> ((k + 1 \in out) # (k + 5 \in out))
                       # ((k + 3 \in out) # (k + 7 \in out))
  <2>1. /\ k + 1 \in Nat /\ (k + 1) + 4 = k + 5 /\ (k + 1) + 2 = k + 3
        /\ (k + 1) + 6 = k + 7
    OBVIOUS
  <2>. QED BY <1>4, <2>1
<1>6. k \in p1 <=> ~ (k \in p2 <=> k + 1 \in p2)
  BY <1>3
<1>7. k \in p2 <=> ((k \in out) # (k + 4 \in out))
                   # ((k + 2 \in out) # (k + 6 \in out))
  BY <1>4
<1>. DEFINE even == ((k \in out) # (k + 4 \in out))
                     # ((k + 2 \in out) # (k + 6 \in out))
            odd == ((k + 1 \in out) # (k + 5 \in out))
                     # ((k + 3 \in out) # (k + 7 \in out))
<1>8. OnesOf(out, k) % 2 = 1 <=> (even # odd)
  BY OddOnes
<1>9. even \in BOOLEAN /\ odd \in BOOLEAN
  OBVIOUS
<1>10. (k \in p2 <=> even) /\ (k + 1 \in p2 <=> odd)
  BY <1>5, <1>7
<1>. HIDE DEF even, odd
<1>11. k \in p1 <=> OnesOf(out, k) % 2 = 1
  BY <1>6, <1>8, <1>9, <1>10
<1>. QED BY <1>3, <1>11

\* The ones of a word that was cut.
LEMMA OnesCut ==
  ASSUME NEW word, NEW n \in Nat, NEW i \in Nat
  PROVE  /\ i + 7 < n => OnesOf(word \cap Below(n), i) = OnesOf(word, i)
         /\ n <= i => OnesOf(word \cap Below(n), i) = 0
<1>. DEFINE cut == word \cap Below(n)
<1>1. ASSUME NEW k \in 0 .. 7, i + 7 < n PROVE Bit(cut, i + k) = Bit(word, i + k)
  <2>1. i + k \in Below(n)
    BY <1>1 DEF Below
  <2>. QED BY <2>1 DEF Bit
<1>2. ASSUME NEW k \in 0 .. 7, n <= i PROVE Bit(cut, i + k) = 0
  <2>1. i + k \notin Below(n)
    BY <1>2 DEF Below
  <2>. QED BY <2>1 DEF Bit
<1>. HIDE DEF cut
<1>3. i + 0 = i
  OBVIOUS
<1>4. ASSUME i + 7 < n PROVE OnesOf(cut, i) = OnesOf(word, i)
  <2>1. /\ Bit(cut, i + 0) = Bit(word, i + 0) /\ Bit(cut, i + 1) = Bit(word, i + 1)
        /\ Bit(cut, i + 2) = Bit(word, i + 2) /\ Bit(cut, i + 3) = Bit(word, i + 3)
        /\ Bit(cut, i + 4) = Bit(word, i + 4) /\ Bit(cut, i + 5) = Bit(word, i + 5)
        /\ Bit(cut, i + 6) = Bit(word, i + 6) /\ Bit(cut, i + 7) = Bit(word, i + 7)
    BY <1>1, <1>4
  <2>. QED BY <1>3, <2>1 DEF OnesOf
<1>5. ASSUME n <= i PROVE OnesOf(cut, i) = 0
  <2>1. /\ Bit(cut, i + 0) = 0 /\ Bit(cut, i + 1) = 0 /\ Bit(cut, i + 2) = 0
        /\ Bit(cut, i + 3) = 0 /\ Bit(cut, i + 4) = 0 /\ Bit(cut, i + 5) = 0
        /\ Bit(cut, i + 6) = 0 /\ Bit(cut, i + 7) = 0
    BY <1>2, <1>5
  <2>. QED BY <1>3, <2>1 DEF OnesOf
<1>. QED BY <1>4, <1>5 DEF cut

\* The parity of a size: bit 0 of the parity word.
LEMMA ParityBit ==
  ASSUME NEW size \in Sizes, NEW out \in SUBSET Nat
  PROVE  /\ Parity(size, out) \subseteq Nat
         /\ 0 \in Parity(size, out)
              <=> Ones(out \cap Below(Width(size))) % 2 = 1
<1>. DEFINE p4 == Fold(out, 4)  p2 == Fold(p4, 2)  p1 == Fold(p2, 1)
            n0 == OnesOf(out, 0)  n1 == OnesOf(out, 8)  n2 == OnesOf(out, 16)
            cut == out \cap Below(Width(size))
<1>1. /\ size = 0 => Parity(size, out) = p1
      /\ size = 1 => Parity(size, out) = Xor(p1, Down(p1, 8))
      /\ size = 2 => Parity(size, out) = Xor(p1, Xor(Down(p1, 8), Down(p1, 16)))
  BY DEF Parity, Fold
<1>2. /\ p1 \in SUBSET Nat /\ (0 \in p1 <=> n0 % 2 = 1)
      /\ 8 \in p1 <=> n1 % 2 = 1
      /\ 16 \in p1 <=> n2 % 2 = 1
  <2>1. \A k \in Nat : p1 \in SUBSET Nat /\ (k \in p1 <=> OnesOf(out, k) % 2 = 1)
    BY FoldByte
  <2>. QED BY <2>1
<1>. HIDE DEF p1
<1>3. /\ Down(p1, 8) \in SUBSET Nat /\ Down(p1, 16) \in SUBSET Nat
      /\ 0 \in Down(p1, 8) <=> 8 \in p1
      /\ 0 \in Down(p1, 16) <=> 16 \in p1
  <2>1. 0 + 8 = 8 /\ 0 + 16 = 16
    OBVIOUS
  <2>. QED BY <1>2, <2>1, DownBit
<1>4. n0 \in Nat /\ n1 \in Nat /\ n2 \in Nat
  BY OddOnes
<1>. HIDE DEF n0, n1, n2
<1>5. /\ (n0 + n1) % 2 = 1 <=> (n0 % 2 = 1) # (n1 % 2 = 1)
      /\ ((n0 + n1) + n2) % 2 = 1 <=> ((n0 + n1) % 2 = 1) # (n2 % 2 = 1)
  BY <1>4, OddSum
<1>6. Ones(cut) = OnesOf(cut, 0) + OnesOf(cut, 8) + OnesOf(cut, 16)
  BY DEF Ones
<1>7. CASE size = 0
  <2>1. Width(size) = 8
    BY <1>7, SizeNumbers
  <2>2. OnesOf(cut, 0) = n0 /\ OnesOf(cut, 8) = 0 /\ OnesOf(cut, 16) = 0
    BY <2>1, OnesCut DEF n0
  <2>. HIDE DEF cut
  <2>3. Ones(cut) = n0
    BY <1>4, <1>6, <2>2
  <2>. QED BY <1>1, <1>2, <1>7, <2>3 DEF cut
<1>8. CASE size = 1
  <2>1. Width(size) = 16
    BY <1>8, SizeNumbers
  <2>2. OnesOf(cut, 0) = n0 /\ OnesOf(cut, 8) = n1 /\ OnesOf(cut, 16) = 0
    BY <2>1, OnesCut DEF n0, n1
  <2>. HIDE DEF cut
  <2>3. Ones(cut) = n0 + n1
    BY <1>4, <1>6, <2>2
  <2>. QED BY <1>1, <1>2, <1>3, <1>5, <1>8, <2>3 DEF cut, Xor
<1>9. CASE size = 2
  <2>1. Width(size) = 24
    BY <1>9, SizeNumbers
  <2>2. OnesOf(cut, 0) = n0 /\ OnesOf(cut, 8) = n1 /\ OnesOf(cut, 16) = n2
    BY <2>1, OnesCut DEF n0, n1, n2
  <2>. HIDE DEF cut
  <2>3. Ones(cut) = (n0 + n1) + n2
    BY <1>4, <1>6, <2>2
  <2>. QED BY <1>1, <1>2, <1>3, <1>5, <1>9, <2>3 DEF cut, Xor
<1>. QED BY <1>7, <1>8, <1>9 DEF Sizes

\* A logic operation's V, read off the result.
LEMMA ParityHolds == ASSUME ResultInv, TypeOK PROVE ParityOdd
<1>. SUFFICES ASSUME Done, WritesFlags, control.op \in {"AND", "OR", "XOR"},
                     control.vmode = "NORMAL"
              PROVE  F_OVERFLOW \in flags <=> Ones(low) % 2 = 1
  BY DEF ParityOdd
<1>. DEFINE a == Left24(control, Latch0)
            b == Right16(control, Latch1, CarryIn)
            size == control.size0
            out == alu_output_latch
            shifted == ShiftOut(control, Wide(control, Latch1, CarryIn))
<1>1. control.op # "OFF" /\ control.op # "ADD" /\ control.mask # {}
  BY DEF WritesFlags
<1>2. /\ Shape(control)
      /\ \E entered : flags = ModifyFlags(control, f, a, b, out, entered,
                                         shifted)
  BY <1>1, AfterStep
<1>3. PICK entered : flags = ModifyFlags(control, f, a, b, out, entered,
                                         shifted)
  BY <1>2
<1>4. size \in Sizes
  BY <1>2 DEF Shape, AluControls
<1>5. out \in SUBSET Nat
  BY DEF TypeOK, Words, Below
<1>. HIDE DEF a, b, shifted
<1>6. F_OVERFLOW \in flags
        <=> F_OVERFLOW \in VSource(control, a, b, out, shifted)
  BY <1>1, <1>2, <1>3, FlagBits
<1>7. VSource(control, a, b, out, shifted)
        = Up(Parity(size, out), 2) \cap Below(8)
  BY <1>1, Zenon DEF VSource
<1>8. Parity(size, out) \subseteq Nat
      /\ (0 \in Parity(size, out)
            <=> Ones(out \cap Below(Width(size))) % 2 = 1)
  BY <1>4, <1>5, ParityBit
<1>9. 2 \in Up(Parity(size, out), 2) \cap Below(8) <=> 0 \in Parity(size, out)
  <2>. DEFINE p == Parity(size, out)
  <2>. HIDE DEF p
  <2>1. p \subseteq Nat
    BY <1>8 DEF p
  <2>2. 2 \in Below(8)
    BY DEF Below
  <2>3. ASSUME 2 \in Up(p, 2) PROVE 0 \in p
    <3>1. PICK k \in p : 2 = k + 2
      BY <2>3 DEF Up
    <3>2. k = 0
      BY <2>1, <3>1
    <3>. QED BY <3>2
  <2>4. ASSUME 0 \in p PROVE 2 \in Up(p, 2)
    <3>1. 2 = 0 + 2
      OBVIOUS
    <3>. QED BY <2>4, <3>1 DEF Up
  <2>. QED BY <2>2, <2>3, <2>4 DEF p
<1>10. F_OVERFLOW = 2
  BY DEF F_OVERFLOW
<1>. QED BY <1>6, <1>7, <1>8, <1>9, <1>10 DEF low

\* V of a logic operation is set for an odd number of ones in the result,
\* whatever the size.
THEOREM ParityOfLogic == Spec => []ParityOdd
BY ResultInvariant, AluTypeCorrect, ParityHolds, PTL

-----------------------------------------------------------------------------
(***************************************************************************)
(* The shifter.                                                            *)
(***************************************************************************)

\* A byte whose bits moved up by one position.
LEMMA ByteUp ==
  ASSUME NEW word, NEW new, NEW i \in Nat, NEW in \in {0, 1},
         Bit(new, i) = in, \A k \in 0 .. 6 : Bit(new, i + k + 1) = Bit(word, i + k)
  PROVE  Byte(new, i) + 256 * Bit(word, i + 7) = 2 * Byte(word, i) + in
<1>. DEFINE n(k) == Bit(word, i + k)
<1>1. \A k : n(k) \in {0, 1}
  BY BitType
<1>2. n(0) = Bit(word, i)
  OBVIOUS
<1>3. /\ Bit(new, i + 1) = n(0) /\ Bit(new, i + 2) = n(1)
      /\ Bit(new, i + 3) = n(2) /\ Bit(new, i + 4) = n(3)
      /\ Bit(new, i + 5) = n(4) /\ Bit(new, i + 6) = n(5)
      /\ Bit(new, i + 7) = n(6)
  <2>1. /\ i + 0 + 1 = i + 1 /\ i + 1 + 1 = i + 2 /\ i + 2 + 1 = i + 3
        /\ i + 3 + 1 = i + 4 /\ i + 4 + 1 = i + 5 /\ i + 5 + 1 = i + 6
        /\ i + 6 + 1 = i + 7
    OBVIOUS
  <2>2. /\ 0 \in 0 .. 6 /\ 1 \in 0 .. 6 /\ 2 \in 0 .. 6 /\ 3 \in 0 .. 6
        /\ 4 \in 0 .. 6 /\ 5 \in 0 .. 6 /\ 6 \in 0 .. 6
    OBVIOUS
  <2>3. /\ Bit(new, i + 0 + 1) = n(0) /\ Bit(new, i + 1 + 1) = n(1)
        /\ Bit(new, i + 2 + 1) = n(2) /\ Bit(new, i + 3 + 1) = n(3)
        /\ Bit(new, i + 4 + 1) = n(4) /\ Bit(new, i + 5 + 1) = n(5)
        /\ Bit(new, i + 6 + 1) = n(6)
    BY <2>2
  <2>. QED BY <2>1, <2>3
<1>4. Byte(new, i) = in + 2 * n(0) + 4 * n(1) + 8 * n(2) + 16 * n(3)
                       + 32 * n(4) + 64 * n(5) + 128 * n(6)
  BY <1>3 DEF Byte
<1>5. Byte(word, i) = n(0) + 2 * n(1) + 4 * n(2) + 8 * n(3) + 16 * n(4)
                        + 32 * n(5) + 64 * n(6) + 128 * n(7)
  BY <1>2 DEF Byte
<1>6. Bit(word, i + 7) = n(7)
  OBVIOUS
<1>. HIDE DEF n
<1>. QED BY <1>1, <1>4, <1>5, <1>6

\* A byte whose bits moved down.
LEMMA ByteDown ==
  ASSUME NEW word, NEW new, NEW i \in Nat, NEW in \in {0, 1},
         Bit(new, i + 7) = in, \A k \in 0 .. 6 : Bit(new, i + k) = Bit(word, i + k + 1)
  PROVE  2 * Byte(new, i) + Bit(word, i) = Byte(word, i) + 256 * in
<1>. DEFINE n(k) == Bit(word, i + k)
<1>1. \A k : n(k) \in {0, 1}
  BY BitType
<1>2. n(0) = Bit(word, i)
  OBVIOUS
<1>3. /\ Bit(new, i) = n(1) /\ Bit(new, i + 1) = n(2)
      /\ Bit(new, i + 2) = n(3) /\ Bit(new, i + 3) = n(4)
      /\ Bit(new, i + 4) = n(5) /\ Bit(new, i + 5) = n(6)
      /\ Bit(new, i + 6) = n(7)
  <2>1. /\ i + 0 + 1 = i + 1 /\ i + 1 + 1 = i + 2 /\ i + 2 + 1 = i + 3
        /\ i + 3 + 1 = i + 4 /\ i + 4 + 1 = i + 5 /\ i + 5 + 1 = i + 6
        /\ i + 6 + 1 = i + 7 /\ i + 0 = i
    OBVIOUS
  <2>2. /\ 0 \in 0 .. 6 /\ 1 \in 0 .. 6 /\ 2 \in 0 .. 6 /\ 3 \in 0 .. 6
        /\ 4 \in 0 .. 6 /\ 5 \in 0 .. 6 /\ 6 \in 0 .. 6
    OBVIOUS
  <2>3. /\ Bit(new, i + 0) = Bit(word, i + 0 + 1)
        /\ Bit(new, i + 1) = Bit(word, i + 1 + 1)
        /\ Bit(new, i + 2) = Bit(word, i + 2 + 1)
        /\ Bit(new, i + 3) = Bit(word, i + 3 + 1)
        /\ Bit(new, i + 4) = Bit(word, i + 4 + 1)
        /\ Bit(new, i + 5) = Bit(word, i + 5 + 1)
        /\ Bit(new, i + 6) = Bit(word, i + 6 + 1)
    BY <2>2
  <2>. QED BY <2>1, <2>3
<1>4. Byte(new, i) = n(1) + 2 * n(2) + 4 * n(3) + 8 * n(4) + 16 * n(5)
                       + 32 * n(6) + 64 * n(7) + 128 * in
  BY <1>3 DEF Byte
<1>5. Byte(word, i) = n(0) + 2 * n(1) + 4 * n(2) + 8 * n(3) + 16 * n(4)
                        + 32 * n(5) + 64 * n(6) + 128 * n(7)
  BY <1>2 DEF Byte
<1>. HIDE DEF n
<1>. QED BY <1>1, <1>2, <1>4, <1>5

\* The bits of a word moved up, where a bit enters below.
LEMMA UpBits ==
  ASSUME NEW word \in SUBSET Nat, NEW in \in BOOLEAN, NEW new,
         new = (Up(word, 1) \cap Below(16)) \cup BitIf(in, 0)
  PROVE  /\ Bit(new, 0) = IF in THEN 1 ELSE 0
         /\ \A k \in 0 .. 14 : Bit(new, k + 1) = Bit(word, k)
<1>1. \A k : k \in Up(word, 1) <=> \E j \in word : k = j + 1
  BY DEF Up
<1>2. 0 \in new <=> in
  <2>1. 0 \notin Up(word, 1)
    BY <1>1
  <2>. QED BY <2>1 DEF BitIf
<1>3. ASSUME NEW k \in 0 .. 14 PROVE k + 1 \in new <=> k \in word
  <2>1. k + 1 \in Below(16) /\ k + 1 # 0
    BY DEF Below
  <2>2. k + 1 \in Up(word, 1) <=> k \in word
    <3>1. ASSUME k + 1 \in Up(word, 1) PROVE k \in word
      <4>1. PICK j \in word : k + 1 = j + 1
        BY <1>1, <3>1
      <4>2. k = j
        BY <4>1
      <4>. QED BY <4>2
    <3>. QED BY <1>1, <3>1
  <2>. QED BY <2>1, <2>2 DEF BitIf
<1>. QED BY <1>2, <1>3 DEF Bit

\* The same of a word moved down, where a bit enters at its top.
LEMMA DownBits ==
  ASSUME NEW word \in SUBSET Nat, NEW in \in BOOLEAN, NEW new, NEW top \in Nat,
         new = (Down(word, 1) \cup BitIf(in, top)) \cap Below(16),
         top <= 15, top + 1 \notin word
  PROVE  /\ Bit(new, top) = IF in THEN 1 ELSE 0
         /\ \A k \in 0 .. top - 1 : Bit(new, k) = Bit(word, k + 1)
<1>1. \A k \in Nat : k \in Down(word, 1) <=> k + 1 \in word
  <2>1. 1 \in Nat
    OBVIOUS
  <2>. QED BY <2>1, DownBit, Zenon
<1>2. top \in new <=> in
  <2>1. top \in Below(16) /\ top \notin Down(word, 1)
    BY <1>1 DEF Below
  <2>. QED BY <2>1 DEF BitIf
<1>3. ASSUME NEW k \in 0 .. top - 1 PROVE k \in new <=> k + 1 \in word
  <2>1. k \in Nat /\ k \in Below(16) /\ k # top
    BY DEF Below
  <2>2. k \in Down(word, 1) <=> k + 1 \in word
    BY <1>1, <2>1
  <2>. QED BY <2>1, <2>2 DEF BitIf
<1>. QED BY <1>2, <1>3 DEF Bit

\* The number of a word moved up.
LEMMA UpNumber ==
  ASSUME NEW word \in SUBSET Nat, NEW in \in BOOLEAN, NEW new,
         NEW size \in {0, 1},
         new = (Up(word, 1) \cap Below(16)) \cup BitIf(in, 0)
  PROVE  Unsigned(new, size) + Full(size) * Bit(word, TopBit(size))
           = 2 * Unsigned(word, size) + (IF in THEN 1 ELSE 0)
<1>. DEFINE inject == IF in THEN 1 ELSE 0
            n0 == Byte(new, 0)  n1 == Byte(new, 8)
            w0 == Byte(word, 0)  w1 == Byte(word, 8)
            b7 == Bit(word, 7)  b15 == Bit(word, 15)
<1>1. Bit(new, 0) = inject
      /\ \A k \in 0 .. 14 : Bit(new, k + 1) = Bit(word, k)
  BY UpBits
<1>2. inject \in {0, 1} /\ b7 \in {0, 1} /\ b15 \in {0, 1}
  BY BitType
<1>3. n0 + 256 * b7 = 2 * w0 + inject
  <2>1. \A k \in 0 .. 6 : Bit(new, 0 + k + 1) = Bit(word, 0 + k)
    <3>1. \A k \in 0 .. 6 : k \in 0 .. 14 /\ 0 + k + 1 = k + 1 /\ 0 + k = k
      OBVIOUS
    <3>. QED BY <1>1, <3>1
  <2>2. 0 \in Nat /\ 0 + 7 = 7
    OBVIOUS
  <2>. HIDE DEF inject
  <2>3. Byte(new, 0) + 256 * Bit(word, 0 + 7) = 2 * Byte(word, 0) + inject
    BY <1>1, <1>2, <2>1, <2>2, ByteUp
  <2>. QED BY <2>2, <2>3
<1>4. n1 + 256 * b15 = 2 * w1 + b7
  <2>1. \A k \in 0 .. 6 : Bit(new, 8 + k + 1) = Bit(word, 8 + k)
    <3>1. \A k \in 0 .. 6 : 8 + k \in 0 .. 14
      OBVIOUS
    <3>. QED BY <1>1, <3>1
  <2>2. 8 \in Nat /\ 8 + 7 = 15
    OBVIOUS
  <2>3. Bit(new, 8) = Bit(word, 7)
    <3>1. 7 \in 0 .. 14 /\ 7 + 1 = 8
      OBVIOUS
    <3>. QED BY <1>1, <3>1
  <2>4. Byte(new, 8) + 256 * Bit(word, 8 + 7) = 2 * Byte(word, 8) + b7
    BY <1>2, <2>1, <2>2, <2>3, ByteUp
  <2>. QED BY <2>2, <2>4
<1>5. /\ n0 \in 0 .. 255 /\ n1 \in 0 .. 255 /\ w0 \in 0 .. 255
      /\ w1 \in 0 .. 255
  BY BytesType DEF Bytes
<1>6. /\ Unsigned(new, 0) = n0 /\ Unsigned(new, 1) = n0 + 256 * n1
      /\ Unsigned(word, 0) = w0 /\ Unsigned(word, 1) = w0 + 256 * w1
  BY UnsignedBytes
<1>7. Bit(word, TopBit(0)) = b7 /\ Bit(word, TopBit(1)) = b15
  BY SizeNumbers, SMT
<1>. HIDE DEF inject, n0, n1, w0, w1, b7, b15
<1>8. n0 + 256 * n1 + 65536 * b15 = 2 * (w0 + 256 * w1) + inject
  BY <1>2, <1>3, <1>4, <1>5, SMT
<1>9. CASE size = 0
  BY <1>3, <1>6, <1>7, <1>9, SizeNumbers, SMT DEF inject
<1>10. CASE size = 1
  BY <1>6, <1>7, <1>8, <1>10, SizeNumbers, SMT DEF inject
<1>. QED BY <1>9, <1>10

\* The number of a word moved down.
LEMMA DownNumber ==
  ASSUME NEW word \in SUBSET Nat, NEW in \in BOOLEAN, NEW new,
         NEW size \in {0, 1}, word \subseteq Below(Width(size)),
         new = (Down(word, 1) \cup BitIf(in, TopBit(size))) \cap Below(16)
  PROVE  2 * Unsigned(new, size) + Bit(word, 0)
           = Unsigned(word, size) + Full(size) * (IF in THEN 1 ELSE 0)
<1>. DEFINE inject == IF in THEN 1 ELSE 0
            n0 == Byte(new, 0)  n1 == Byte(new, 8)
            w0 == Byte(word, 0)  w1 == Byte(word, 8)
            b0 == Bit(word, 0)  b8 == Bit(word, 8)
            top == TopBit(size)
<1>1. top \in Nat /\ top <= 15 /\ top + 1 \notin word
  BY SizeNumbers, SMT DEF Below
<1>. HIDE DEF top
<1>2. /\ Bit(new, top) = inject
      /\ \A k \in 0 .. top - 1 : Bit(new, k) = Bit(word, k + 1)
  BY <1>1, DownBits DEF top
<1>3. inject \in {0, 1} /\ b0 \in {0, 1} /\ b8 \in {0, 1}
  BY BitType
<1>4. /\ n0 \in 0 .. 255 /\ n1 \in 0 .. 255 /\ w0 \in 0 .. 255
      /\ w1 \in 0 .. 255
  BY BytesType DEF Bytes
<1>5. /\ Unsigned(new, 0) = n0 /\ Unsigned(new, 1) = n0 + 256 * n1
      /\ Unsigned(word, 0) = w0 /\ Unsigned(word, 1) = w0 + 256 * w1
  BY UnsignedBytes
<1>6. 0 \in Nat /\ 8 \in Nat /\ 0 + 7 = 7 /\ 8 + 7 = 15
  OBVIOUS
<1>7. CASE size = 0
  <2>1. top = 7
    BY <1>7, SizeNumbers, SMT DEF top
  <2>2. \A k \in 0 .. 6 : Bit(new, 0 + k) = Bit(word, 0 + k + 1)
    <3>1. \A k \in 0 .. 6 : k \in 0 .. 7 - 1 /\ 0 + k + 1 = k + 1 /\ 0 + k = k
      OBVIOUS
    <3>. QED BY <1>2, <2>1, <3>1
  <2>3. Bit(new, 0 + 7) = inject
    BY <1>2, <1>6, <2>1
  <2>. HIDE DEF inject
  <2>4. 2 * n0 + b0 = w0 + 256 * inject
    BY <1>3, <1>6, <2>2, <2>3, ByteDown
  <2>. HIDE DEF n0, w0, b0
  <2>. QED BY <1>5, <1>7, <2>4, SizeNumbers, SMT DEF inject, b0
<1>8. CASE size = 1
  <2>1. top = 15
    BY <1>8, SizeNumbers, SMT DEF top
  <2>2. \A k \in 0 .. 6 : Bit(new, 0 + k) = Bit(word, 0 + k + 1)
    <3>1. \A k \in 0 .. 6 : k \in 0 .. 15 - 1 /\ 0 + k + 1 = k + 1 /\ 0 + k = k
      OBVIOUS
    <3>. QED BY <1>2, <2>1, <3>1
  <2>3. \A k \in 0 .. 6 : Bit(new, 8 + k) = Bit(word, 8 + k + 1)
    <3>1. \A k \in 0 .. 6 : 8 + k \in 0 .. 15 - 1
      OBVIOUS
    <3>. QED BY <1>2, <2>1, <3>1
  <2>4. Bit(new, 0 + 7) = b8
    <3>1. 7 \in 0 .. 15 - 1 /\ 7 + 1 = 8
      OBVIOUS
    <3>. QED BY <1>2, <1>6, <2>1, <3>1
  <2>5. Bit(new, 8 + 7) = inject
    BY <1>2, <1>6, <2>1
  <2>. HIDE DEF inject
  <2>6. 2 * n0 + b0 = w0 + 256 * b8
    BY <1>3, <1>6, <2>2, <2>4, ByteDown
  <2>7. 2 * n1 + b8 = w1 + 256 * inject
    BY <1>3, <1>6, <2>3, <2>5, ByteDown
  <2>. HIDE DEF n0, w0, b0, n1, w1, b8
  <2>8. 2 * (n0 + 256 * n1) + b0 = w0 + 256 * w1 + 65536 * inject
    BY <1>3, <1>4, <2>6, <2>7, SMT
  <2>. QED BY <1>5, <1>8, <2>8, SizeNumbers, SMT DEF inject, b0
<1>. QED BY <1>7, <1>8

\* Where half a size and a bit meet: the top bit is x \div half, the lowest
\* one x % 2.
LEMMA EndBits ==
  ASSUME NEW word, NEW size \in {0, 1}
  PROVE  /\ Unsigned(word, size) \div Half(size) = Bit(word, TopBit(size))
         /\ Unsigned(word, size) % 2 = Bit(word, 0)
         /\ Unsigned(word, size) >= Half(size) <=> TopBit(size) \in word
<1>. DEFINE x == Unsigned(word, size)
<1>1. size \in Sizes
  BY DEF Sizes
<1>2. x \in Nat /\ x < Full(size)
  BY <1>1, UnsignedRange
<1>3. TopBit(size) \in word <=> x >= Half(size)
  BY <1>1, SizedBits
<1>4. x \div Half(size) = IF x >= Half(size) THEN 1 ELSE 0
  <2>. HIDE DEF x
  <2>1. CASE size = 0
    BY <1>2, <2>1, SizeNumbers, SMT
  <2>2. CASE size = 1
    BY <1>2, <2>2, SizeNumbers, SMT
  <2>. QED BY <2>1, <2>2
<1>5. x % 2 = Bit(word, 0)
  <2>. DEFINE n(k) == Bit(word, k)
              w0 == Byte(word, 0)  w1 == Byte(word, 8)
              m == n(1) + 2 * n(2) + 4 * n(3) + 8 * n(4) + 16 * n(5)
                     + 32 * n(6) + 64 * n(7)
  <2>1. \A k : n(k) \in {0, 1}
    BY BitType
  <2>2. /\ 0 + 1 = 1 /\ 0 + 2 = 2 /\ 0 + 3 = 3 /\ 0 + 4 = 4 /\ 0 + 5 = 5
        /\ 0 + 6 = 6 /\ 0 + 7 = 7
    OBVIOUS
  <2>3. w0 = n(0) + 2 * n(1) + 4 * n(2) + 8 * n(3) + 16 * n(4) + 32 * n(5)
               + 64 * n(6) + 128 * n(7)
    BY <2>2 DEF Byte
  <2>4. w1 \in 0 .. 255
    BY BytesType DEF Bytes
  <2>5. /\ Unsigned(word, 0) = w0 /\ Unsigned(word, 1) = w0 + 256 * w1
    BY UnsignedBytes
  <2>. HIDE DEF n, w0, w1
  <2>6. m \in Nat /\ w0 = n(0) + 2 * m
    BY <2>1, <2>3
  <2>. HIDE DEF m
  <2>7. n(0) \in {0, 1}
    BY <2>1
  <2>8. w0 % 2 = n(0) /\ (w0 + 256 * w1) % 2 = n(0)
    BY <2>4, <2>6, <2>7, SMT
  <2>9. x = w0 \/ x = w0 + 256 * w1
    BY <2>5
  <2>. QED BY <2>8, <2>9 DEF n
<1>. QED BY <1>3, <1>4, <1>5 DEF Bit

\* The bit that enters, mode by mode, is what the reference adds.
LEMMA ShiftedNumber ==
  ASSUME control.shifter \in ShiftsLeft \cup ShiftsRight,
         NEW word, NEW x \in Nat, NEW top \in Nat,
         x \div top = Bit(word, TopBit(control.size1)), x % 2 = Bit(word, 0)
  PROVE  LET in == IF ShiftIn(control, word, CarryIn) THEN 1 ELSE 0
         IN  /\ ShiftIn(control, word, CarryIn) \in BOOLEAN
             /\ control.shifter \in ShiftsLeft => Shifted(x, top) = 2 * x + in
             /\ control.shifter \in ShiftsRight
                  => Shifted(x, top) = x \div 2 + top * in
<1>. DEFINE enters == ShiftIn(control, word, CarryIn)
            in == IF enters THEN 1 ELSE 0
            mode == control.shifter
            t == Bit(word, TopBit(control.size1))
            z == Bit(word, 0)
<1>1. /\ Carry = (IF CarryIn THEN 1 ELSE 0) /\ CarryIn \in BOOLEAN
      /\ t = (IF TopBit(control.size1) \in word THEN 1 ELSE 0)
      /\ z = (IF 0 \in word THEN 1 ELSE 0)
  BY DEF Carry, CarryIn, Bit
<1>2. x \div 2 \in Nat /\ top * 0 = 0 /\ top * 1 = top /\ 2 * x \in Nat
  BY SMT
<1>3. CASE mode = "LEFT"
  <2>1. enters = FALSE
    BY <1>3, Zenon DEF ShiftIn
  <2>2. Shifted(x, top) = 2 * x
    BY <1>3, Zenon DEF Shifted
  <2>3. Shifted(x, top) = 2 * x + in
    BY <1>2, <2>1, <2>2
  <2>. QED BY <1>3, <2>1, <2>3 DEF ShiftsRight
<1>4. CASE mode = "LEFT_CARRY"
  <2>1. enters = CarryIn
    BY <1>4, Zenon DEF ShiftIn
  <2>2. Shifted(x, top) = 2 * x + Carry
    BY <1>4, Zenon DEF Shifted
  <2>3. Shifted(x, top) = 2 * x + in
    BY <1>1, <2>1, <2>2, Zenon
  <2>. QED BY <1>1, <1>4, <2>1, <2>3 DEF ShiftsRight
<1>5. CASE mode = "LEFT_BARREL"
  <2>1. enters = (TopBit(control.size1) \in word)
    BY <1>5, Zenon DEF ShiftIn
  <2>2. Shifted(x, top) = 2 * x + x \div top
    BY <1>5, Zenon DEF Shifted
  <2>3. Shifted(x, top) = 2 * x + in
    BY <1>1, <2>1, <2>2, Zenon
  <2>. QED BY <1>5, <2>1, <2>3 DEF ShiftsRight
<1>6. CASE mode = "RIGHT_LOGICAL"
  <2>1. enters = FALSE
    BY <1>6, Zenon DEF ShiftIn
  <2>2. Shifted(x, top) = x \div 2
    BY <1>6, Zenon DEF Shifted
  <2>3. Shifted(x, top) = x \div 2 + top * in
    BY <1>2, <2>1, <2>2
  <2>. QED BY <1>6, <2>1, <2>3 DEF ShiftsLeft
<1>7. CASE mode = "RIGHT_ARITH"
  <2>1. enters = (TopBit(control.size1) \in word)
    BY <1>7, Zenon DEF ShiftIn
  <2>2. Shifted(x, top) = x \div 2 + top * (x \div top)
    BY <1>7, Zenon DEF Shifted
  <2>3. Shifted(x, top) = x \div 2 + top * in
    BY <1>1, <2>1, <2>2, Zenon
  <2>. QED BY <1>7, <2>1, <2>3 DEF ShiftsLeft
<1>8. CASE mode = "RIGHT_CARRY"
  <2>1. enters = CarryIn
    BY <1>8, Zenon DEF ShiftIn
  <2>2. Shifted(x, top) = x \div 2 + top * Carry
    BY <1>8, Zenon DEF Shifted
  <2>3. Shifted(x, top) = x \div 2 + top * in
    BY <1>1, <2>1, <2>2, Zenon
  <2>. QED BY <1>1, <1>8, <2>1, <2>3 DEF ShiftsLeft
<1>9. CASE mode = "RIGHT_BARREL"
  <2>1. enters = (0 \in word)
    BY <1>9, Zenon DEF ShiftIn
  <2>2. Shifted(x, top) = x \div 2 + top * (x % 2)
    BY <1>9, Zenon DEF Shifted
  <2>3. Shifted(x, top) = x \div 2 + top * in
    BY <1>1, <2>1, <2>2, Zenon
  <2>. QED BY <1>9, <2>1, <2>3 DEF ShiftsLeft
<1>. QED BY <1>3, <1>4, <1>5, <1>6, <1>7, <1>8, <1>9 DEF ShiftsLeft, ShiftsRight

\* What a shift leaves in the output and in V, on bits.
LEMMA ShiftParts ==
  ASSUME ResultInv, Done, control.shifter # "NONE", control.size0 # 2
  PROVE  LET size == control.size0
             word == Latch1 \cap Below(Width(size))
             in == ShiftIn(control, word, CarryIn)
         IN  /\ size \in {0, 1} /\ control.size1 = size
             /\ control.shifter \in ShiftsLeft \cup ShiftsRight
             /\ word \in SUBSET Nat
             /\ control.shifter \in ShiftsLeft
                  => /\ alu_output_latch
                          = (Up(word, 1) \cap Below(16)) \cup BitIf(in, 0)
                     /\ F_OVERFLOW \in flags <=> TopBit(size) \in word
             /\ control.shifter \in ShiftsRight
                  => /\ alu_output_latch
                          = (Down(word, 1) \cup BitIf(in, TopBit(size)))
                              \cap Below(16)
                     /\ F_OVERFLOW \in flags <=> 0 \in word
<1>. DEFINE size == control.size0
            word == Latch1 \cap Below(Width(size))
            in == ShiftIn(control, word, CarryIn)
            wide == Wide(control, Latch1, CarryIn)
            a == Left24(control, Latch0)
            b == Right16(control, Latch1, CarryIn)
            shifted == ShiftOut(control, wide)
<1>1. Shape(control)
  BY ControlShape DEF ResultInv
<1>2. /\ control \in AluControls /\ control.op = "OR" /\ control.mask # {}
      /\ control.vmode = "SHIFTER_CARRY" /\ control.size1 = size
      /\ control.sign1 = FALSE /\ control.sign0 = FALSE
      /\ control.add1 = FALSE /\ control.add_carry = FALSE
      /\ control.negate = FALSE /\ control.invert = FALSE
  BY <1>1 DEF Shape
<1>3. size \in {0, 1} /\ control.shifter \in ShiftsLeft \cup ShiftsRight
  BY <1>2 DEF AluControls, Sizes, ShifterModes
<1>4. Width(size) \in Nat /\ Width(size) <= 16
  BY <1>3, SizeNumbers, SMT
<1>5. word \in SUBSET Nat
  BY <1>4 DEF Below
<1>6. wide = word
  <2>1. RightOperand(control, Latch1, CarryIn) = word
    BY <1>2 DEF RightOperand, Operand
  <2>2. word \cap Below(16) = word
    BY <1>4 DEF Below
  <2>. QED BY <2>1, <2>2 DEF Wide
<1>7. b = Shift(control, word, CarryIn)
  BY <1>6 DEF Right16, Wide
<1>8. a = {}
  <2>1. Latch0 = {}
    BY <1>2 DEF ResultInv, Lefts, Latch0
  <2>. QED BY <1>2, <2>1 DEF Left24, Operand
<1>9. /\ \E old : alu_output_latch = Operate(control.op, a, b, old)
      /\ \E entered : flags = ModifyFlags(control, f, a, b, alu_output_latch,
                                         entered, shifted)
  BY <1>2, AfterStep
<1>. HIDE DEF a, b, word, wide
<1>10. alu_output_latch = b
  <2>1. alu_output_latch = a \cup b
    BY <1>2, <1>9, Zenon DEF Operate
  <2>. QED BY <1>8, <2>1
<1>11. F_OVERFLOW \in flags <=> shifted
  <2>1. PICK entered : flags = ModifyFlags(control, f, a, b, alu_output_latch,
                                         entered, shifted)
    BY <1>9
  <2>. HIDE DEF shifted
  <2>2. F_OVERFLOW \in flags
          <=> F_OVERFLOW \in VSource(control, a, b, alu_output_latch, shifted)
    BY <1>1, <1>2, <2>1, FlagBits
  <2>3. VSource(control, a, b, alu_output_latch, shifted) = BitIf(shifted, 2)
    BY <1>2, Zenon DEF VSource
  <2>. QED BY <2>2, <2>3 DEF BitIf, F_OVERFLOW
<1>12. ShiftsLeft \cap ShiftsRight = {} /\ "NONE" \notin ShiftsLeft \cup ShiftsRight
  BY DEF ShiftsLeft, ShiftsRight
<1>13. ASSUME control.shifter \in ShiftsLeft
       PROVE  /\ b = (Up(word, 1) \cap Below(16)) \cup BitIf(in, 0)
              /\ shifted <=> TopBit(size) \in word
  <2>1. control.shifter # "NONE" /\ control.shifter \notin ShiftsRight
    BY <1>12, <1>13
  <2>2. b = (Up(word, 1) \cap Below(16)) \cup BitIf(in, 0)
    BY <1>7, <1>13, <2>1, Zenon DEF Shift
  <2>. DEFINE leaves == TopBit(size) \in word
  <2>3. shifted = (leaves # FALSE)
    BY <1>2, <1>6, <1>13, <2>1, Zenon DEF ShiftOut
  <2>6. leaves \in BOOLEAN
    OBVIOUS
  <2>. HIDE DEF shifted, in, leaves
  <2>5. shifted <=> leaves
    BY <2>3, <2>6
  <2>4. shifted <=> TopBit(size) \in word
    BY <2>5 DEF leaves
  <2>. QED BY <2>2, <2>4
<1>14. ASSUME control.shifter \in ShiftsRight
       PROVE  /\ b = (Down(word, 1) \cup BitIf(in, TopBit(size))) \cap Below(16)
              /\ shifted <=> 0 \in word
  <2>1. control.shifter # "NONE" /\ control.shifter \notin ShiftsLeft
    BY <1>12, <1>14
  <2>2. b = (Down(word, 1) \cup BitIf(in, TopBit(size))) \cap Below(16)
    BY <1>2, <1>7, <1>14, <2>1, Zenon DEF Shift
  <2>. DEFINE leaves == 0 \in word
  <2>3. shifted = (leaves # FALSE)
    BY <1>2, <1>6, <1>14, <2>1, Zenon DEF ShiftOut
  <2>6. leaves \in BOOLEAN
    OBVIOUS
  <2>. HIDE DEF shifted, in, leaves
  <2>5. shifted <=> leaves
    BY <2>3, <2>6
  <2>4. shifted <=> 0 \in word
    BY <2>5 DEF leaves
  <2>. QED BY <2>2, <2>4
<1>. HIDE DEF in, shifted
<1>. QED BY <1>2, <1>3, <1>5, <1>10, <1>11, <1>13, <1>14 DEF word, in

\* Doubling, with a bit that enters below and one that leaves.
LEMMA LeftRule ==
  ASSUME NEW F, F = 256 \/ F = 65536, NEW x \in Nat, NEW u \in Nat, u < F,
         NEW in \in {0, 1}, NEW top \in {0, 1}, u + F * top = 2 * x + in
  PROVE  u = (2 * x + in) % F
<1>1. CASE F = 256
  BY <1>1, SMT
<1>2. CASE F = 65536
  BY <1>2, SMT
<1>. QED BY <1>1, <1>2, SMT

\* Halving, with a bit that enters at the top.
LEMMA RightRule ==
  ASSUME NEW size \in {0, 1}, NEW x \in Nat, NEW u \in Nat, u < Full(size),
         NEW in \in {0, 1}, 2 * u + (x % 2) = x + Full(size) * in
  PROVE  u = ((x \div 2) + Half(size) * in) % Full(size)
<1>. DEFINE m == x \div 2  r == x % 2
<1>1. x = 2 * m + r /\ m \in Nat /\ r \in {0, 1}
  OBVIOUS
<1>. HIDE DEF m, r
<1>2. CASE size = 0
  <2>1. u = m + 128 * in
    BY <1>1, <1>2, SizeNumbers, SMT DEF r
  <2>2. u = u % 256
    BY <1>2, SizeNumbers, SMT
  <2>3. Half(size) = 128 /\ Full(size) = 256
    BY <1>2, SizeNumbers, SMT
  <2>. QED BY <2>1, <2>2, <2>3, SMT DEF m
<1>3. CASE size = 1
  <2>1. u = m + 32768 * in
    BY <1>1, <1>3, SizeNumbers, SMT DEF r
  <2>4. u < 65536
    BY <1>3, SizeNumbers, SMT
  <2>2. u = u % 65536
    BY <2>4, SMT
  <2>3. Half(size) = 32768 /\ Full(size) = 65536
    BY <1>3, SizeNumbers, SMT
  <2>. QED BY <2>1, <2>2, <2>3, SMT DEF m
<1>. QED BY <1>2, <1>3

\* Shifts, read off the result.
LEMMA ShiftHolds == ASSUME ResultInv PROVE ShiftExact
<1>. DEFINE x == Unsigned(alu_input_latches[2], control.size1)
<1>. SUFFICES ASSUME Done, control.shifter # "NONE", ~ Is24Bit
              PROVE  /\ Number(low) = Shifted(x, half) % full
                     /\ F_OVERFLOW \in flags <=>
                          IF control.shifter \in ShiftsLeft THEN x >= half
                                                            ELSE x % 2 = 1
  BY DEF ShiftExact
<1>. DEFINE size == control.size0
            word == Latch1 \cap Below(Width(size))
            enters == ShiftIn(control, word, CarryIn)
            in == IF enters THEN 1 ELSE 0
            u == Unsigned(alu_output_latch, size)
            left == control.shifter \in ShiftsLeft
            right == control.shifter \in ShiftsRight
<1>1. /\ size \in {0, 1} /\ control.size1 = size /\ (left \/ right)
      /\ word \in SUBSET Nat
      /\ left => /\ alu_output_latch
                     = (Up(word, 1) \cap Below(16)) \cup BitIf(enters, 0)
                 /\ F_OVERFLOW \in flags <=> TopBit(size) \in word
      /\ right => /\ alu_output_latch
                      = (Down(word, 1) \cup BitIf(enters, TopBit(size)))
                          \cap Below(16)
                  /\ F_OVERFLOW \in flags <=> 0 \in word
  BY ShiftParts DEF Is24Bit
<1>2. size \in Sizes
  BY <1>1 DEF Sizes
<1>3. x = Unsigned(word, size)
  <2>1. Width(size) \in Int /\ Width(size) <= Width(size)
    BY <1>2, SizeNumbers, SMT DEF Sizes
  <2>. HIDE DEF size
  <2>2. Unsigned(word, size) = Unsigned(Latch1, size)
    BY <1>2, <2>1, UnsignedCut
  <2>. QED BY <1>1, <2>2 DEF Latch1
<1>4. /\ Number(low) = u /\ half = Half(size) /\ full = Full(size)
  BY StateNumbers
<1>5. /\ u \in Nat /\ u < Full(size) /\ x \in Nat
  BY <1>2, <1>3, UnsignedRange
<1>6. Half(size) \in Nat /\ (Full(size) = 256 \/ Full(size) = 65536)
  BY <1>1, SizeNumbers, SMT
<1>7. word \subseteq Below(Width(size))
  OBVIOUS
<1>. HIDE DEF word, u, size, x
<1>8. /\ x \div Half(size) = Bit(word, TopBit(size))
      /\ x % 2 = Bit(word, 0)
      /\ x >= Half(size) <=> TopBit(size) \in word
  BY <1>1, <1>3, EndBits
<1>9. /\ enters \in BOOLEAN
      /\ left => Shifted(x, half) = 2 * x + in
      /\ right => Shifted(x, half) = x \div 2 + half * in
  <2>1. /\ x \div half = Bit(word, TopBit(control.size1))
        /\ half \in Nat
    BY <1>1, <1>4, <1>6, <1>8
  <2>. QED BY <1>1, <1>5, <1>8, <2>1, ShiftedNumber
<1>. HIDE DEF enters
<1>10. in \in {0, 1} /\ Bit(word, TopBit(size)) \in {0, 1}
  BY BitType
<1>11. Bit(word, 0) = 1 <=> 0 \in word
  BY DEF Bit
<1>12. ShiftsLeft \cap ShiftsRight = {}
  BY DEF ShiftsLeft, ShiftsRight
<1>13. CASE left
  <2>1. u + Full(size) * Bit(word, TopBit(size)) = 2 * x + in
    BY <1>1, <1>3, <1>9, <1>13, UpNumber DEF u
  <2>. HIDE DEF in
  <2>2. u = (2 * x + in) % Full(size)
    BY <1>5, <1>6, <1>10, <2>1, LeftRule
  <2>3. Number(low) = Shifted(x, half) % full
    BY <1>4, <1>9, <1>13, <2>2
  <2>. QED BY <1>1, <1>4, <1>8, <1>13, <2>3
<1>14. CASE right
  <2>1. 2 * u + Bit(word, 0) = x + Full(size) * in
    BY <1>1, <1>3, <1>7, <1>9, <1>14, DownNumber DEF u
  <2>. HIDE DEF in
  <2>2. u = ((x \div 2) + Half(size) * in) % Full(size)
    BY <1>1, <1>5, <1>8, <1>10, <2>1, RightRule
  <2>3. Number(low) = Shifted(x, half) % full
    BY <1>4, <1>9, <1>14, <2>2
  <2>4. F_OVERFLOW \in flags <=> x % 2 = 1
    BY <1>1, <1>8, <1>11, <1>14
  <2>5. ~ left
    BY <1>12, <1>14
  <2>. QED BY <2>3, <2>4, <2>5
<1>. QED BY <1>1, <1>13, <1>14

\* Each of the seven shifts leaves the operand doubled or halved, with the
\* bit its mode takes in, and V the bit that left, for all operands of 8 and
\* 16 bits and both carries.
THEOREM ShiftsExact == Spec => []ShiftExact
BY ResultInvariant, ShiftHolds, PTL
=============================================================================
