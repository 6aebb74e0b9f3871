-------------------------------- MODULE Alu ---------------------------------
(***************************************************************************)
(* The arithmetic of pilot-cpu/cpu_execute.c, bit by bit: what             *)
(* execute_half2_result_latch_ does to the two operands, the shifter, the  *)
(* operation and the flags.                                                *)
(*                                                                         *)
(* The parts of a control word that only the ALU reads are a record of     *)
(* their own here, AluControls; where it decodes them from is in           *)
(* AluControl.  The flags alu_modify_flags_ returns are kept by nobody:    *)
(* they are a result of their own, not a change of register F.             *)
(***************************************************************************)
EXTENDS Instruction, Bits

\* flag_masks of cpu_regs.h, as bit numbers of F.
F_EXTEND == 0
F_DECIMAL == 1
F_OVERFLOW == 2
F_CARRY == 3
F_ZERO == 6
F_NEG == 7

ShiftsLeft == {"LEFT", "LEFT_CARRY", "LEFT_BARREL"}
ShiftsRight == {"RIGHT_LOGICAL", "RIGHT_ARITH", "RIGHT_CARRY", "RIGHT_BARREL"}
ShifterModes == {"NONE"} \cup ShiftsLeft \cup ShiftsRight
FlagVModes == {"NORMAL", "SHIFTER_CARRY", "CLEAR"}

\* srcs[i].size and srcs[i].sign_extend are size0, size1, sign0, sign1.
AluControls ==
  [op : AluOps, size0 : Sizes, size1 : Sizes, sign0 : BOOLEAN,
   sign1 : BOOLEAN, add1 : BOOLEAN, add_carry : BOOLEAN, negate : BOOLEAN,
   shifter : ShifterModes, invert : BOOLEAN, vmode : FlagVModes,
   mask : Words(8)]

Width(size) == 8 * (size + 1)
TopBit(size) == Width(size) - 1

-----------------------------------------------------------------------------
\* A source latch cut to its size, and sign-extended to 32 bits; 24-bit
\* operands are never extended.
Operand(latch, size, sign) ==
  LET cut == latch \cap Below(Width(size))
  IN  IF sign /\ size # 2 /\ TopBit(size) \in cut
        THEN cut \cup Width(size) .. 31 ELSE cut

\* Mutant: the complement is taken for the negative.
RightOperand_Complement(c, latch, carry) ==
  LET cut == Operand(latch, c.size1, c.sign1)
      added == IF c.add1 \/ (c.add_carry /\ carry) THEN Plus(cut, {0}) ELSE cut
  IN  IF ~ c.negate THEN added
      ELSE IF c.sign1 THEN Below(32) \ added
      ELSE Below(Width(c.size1)) \ added

\* The right operand as it enters the shifter.
RightOperand(c, latch, carry) ==
  LET cut == Operand(latch, c.size1, c.sign1)
      added == IF c.add1 \/ (c.add_carry /\ carry) THEN Plus(cut, {0}) ELSE cut
  IN  IF ~ c.negate THEN added
      ELSE IF c.sign1 THEN Minus(added)
      ELSE Minus(added) \cap Below(Width(c.size1))

\* alu_operate_shifter_: the bit that enters, the bit that leaves.
ShiftIn(c, operand, carry) ==
  CASE c.shifter \in {"NONE", "LEFT", "RIGHT_LOGICAL"}  -> FALSE
    [] c.shifter \in {"LEFT_CARRY", "RIGHT_CARRY"}      -> carry
    [] c.shifter \in {"LEFT_BARREL", "RIGHT_ARITH"}     ->
         TopBit(c.size1) \in operand
    [] c.shifter = "RIGHT_BARREL"                       -> 0 \in operand

ShiftOut(c, operand) ==
  CASE c.shifter = "NONE"         -> FALSE
    [] c.shifter \in ShiftsLeft   -> (TopBit(c.size1) \in operand) # c.invert
    [] c.shifter \in ShiftsRight  -> (0 \in operand) # c.invert

BitIf(condition, bit) == IF condition THEN {bit} ELSE {}

\* Mutant: the bit that enters from the right stays out.
Shift_DropsInject(c, operand, carry) ==
  CASE c.shifter = "NONE"         -> operand
    [] c.shifter \in ShiftsLeft   -> Up(operand, 1) \cap Below(16)
    [] c.shifter \in ShiftsRight  ->
         (Down(operand, 1) \cup BitIf(ShiftIn(c, operand, carry),
                                      TopBit(c.size1))) \cap Below(16)

\* The operand it returns; it takes and returns uint16_t.
Shift(c, operand, carry) ==
  CASE c.shifter = "NONE"         -> operand
    [] c.shifter \in ShiftsLeft   ->
         (Up(operand, 1) \cap Below(16))
           \cup BitIf(ShiftIn(c, operand, carry), 0)
    [] c.shifter \in ShiftsRight  ->
         (Down(operand, 1) \cup BitIf(ShiftIn(c, operand, carry),
                                      TopBit(c.size1))) \cap Below(16)

\* Mutant: the sum keeps its 32 bits.
Operate_Unmasked(op, a, b, old) ==
  CASE op = "OFF" -> old
    [] op = "ADD" -> Plus(a, b)
    [] op = "AND" -> a \cap b
    [] op = "OR"  -> a \cup b
    [] op = "XOR" -> Xor(a, b)

\* The switch on operation: alu_output_latch, old being what it held.  Only
\* a sum is masked.
Operate(op, a, b, old) ==
  CASE op = "OFF" -> old
    [] op = "ADD" -> Plus(a, b) \cap Below(24)
    [] op = "AND" -> a \cap b
    [] op = "OR"  -> a \cup b
    [] op = "XOR" -> Xor(a, b)

\* The values of carries: the bits a carry entered; uninitialised, of which
\* bit 3 is read, when the ALU is off.
CarryWords(op, a, b, out) ==
  CASE op = "OFF" -> {{}, {3}}
    [] op = "ADD" -> {Xor(Xor(a, b), out)}
    [] OTHER      -> {{}}

\* Mutant: the result does not enter the comparison of signs.
Overflow_OfOperands(size, a, b, out) == TopBit(size) \in Xor(a, b)

Overflow(size, a, b, out) == TopBit(size) \in Xor(b, out) \cap Xor(a, out)

\* Mutant: the last fold of the parity is forgotten.
Parity_Pairs(size, out) ==
  LET p4 == Xor(out, Down(out, 4))
      p1 == Xor(p4, Down(p4, 2))
  IN  CASE size = 0 -> p1
        [] size = 1 -> Xor(p1, Down(p1, 8))
        [] size = 2 -> Xor(p1, Xor(Down(p1, 8), Down(p1, 16)))

\* alu_parity: its bit 0 is the parity, and the others are not cleared.
Parity(size, out) ==
  LET p4 == Xor(out, Down(out, 4))
      p2 == Xor(p4, Down(p4, 2))
      p1 == Xor(p2, Down(p2, 1))
  IN  CASE size = 0 -> p1
        [] size = 1 -> Xor(p1, Down(p1, 8))
        [] size = 2 -> Xor(p1, Xor(Down(p1, 8), Down(p1, 16)))

\* What shows in V: the overflow of a sum, the parity word of a logic
\* operation, shifted in whole, or the carry of the shifter.
VSource(c, a, b, out, shifted) ==
  CASE c.vmode = "NORMAL" /\ c.op = "ADD" ->
         BitIf(Overflow(c.size0, a, b, out), 2)
    [] c.vmode = "NORMAL" /\ c.op # "ADD" ->
         Up(Parity(c.size0, out), 2) \cap Below(8)
    [] c.vmode = "SHIFTER_CARRY" -> BitIf(shifted, 2)
    [] c.vmode = "CLEAR"         -> {}

\* flag_source_word.  The carry goes to bits 1 and 0, whatever flag_masks
\* says.
FlagSource(c, a, b, out, carries, shifted) ==
  BitIf(TopBit(c.size0) \in out, F_NEG)
  \cup BitIf(IF c.size0 = 2 THEN out = {}
                            ELSE out \cap Below(Width(c.size0)) = {}, F_ZERO)
  \cup VSource(c, a, b, out, shifted)
  \cup (IF (TopBit(c.size0) \in carries) # c.invert THEN {0, 1} ELSE {})

\* Mutant: `flags |= ~mask', in an int.
ModifyFlags_Ored(c, flags, a, b, out, carries, shifted) ==
  flags \cup (Below(32) \ c.mask)
    \cup (FlagSource(c, a, b, out, carries, shifted) \cap c.mask)

\* alu_modify_flags_.
ModifyFlags(c, flags, a, b, out, carries, shifted) ==
  (flags \ c.mask) \cup (FlagSource(c, a, b, out, carries, shifted) \cap c.mask)

\* Decimal adjustment of a byte whose carries has bit 3.
Adjusts(c, flags, carries) ==
  c.size0 = 0 /\ F_DECIMAL \in flags /\ 3 \in carries
Adjusted(out) == Plus(out, {4})

\* execute_half2_result_latch_: what it may leave in alu_output_latch, and
\* the flags it computes, from the input latches, F and the old output.
Results(c, latch0, latch1, flags, old) ==
  LET carry == F_CARRY \in flags
      a     == Operand(latch0, c.size0, c.sign0)
      wide  == RightOperand(c, latch1, carry) \cap Below(16)
      b     == Shift(c, wide, carry)
      sum   == Operate(c.op, a, b, old)
  IN  {LET out     == IF Adjusts(c, flags, carries) THEN Adjusted(sum) ELSE sum
           entered == IF Adjusts(c, flags, carries)
                        THEN (carries \cap Below(4))
                               \cup (Xor(Xor(a, b), out) \cap 4 .. 7)
                        ELSE carries
       IN  [out   |-> out,
            flags |-> IF c.op = "OFF" THEN flags
                      ELSE ModifyFlags(c, flags, a, b, out, entered,
                                       ShiftOut(c, wide))] :
       carries \in CarryWords(c.op, a, b, sum)}
=============================================================================
