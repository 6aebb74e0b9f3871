------------------------------ MODULE AluSweep ------------------------------
(***************************************************************************)
(* execute_half2_result_latch_ run on each control word, pair of operands  *)
(* and flags of a set, and compared with arithmetic on numbers.            *)
(***************************************************************************)
EXTENDS AluControl

CONSTANTS
  Controls,   \* The control words run.
  Operands,   \* What an ALU latch may hold.
  FlagBytes   \* What register F may hold.

\* The control words of shifts, which nothing decodes to yet: the flag and
\* size fields are those of the other operations.
ShiftControl(size, mode) ==
  [PlainControl("OR", size) EXCEPT
     !.shifter = mode, !.vmode = "SHIFTER_CARRY", !.mask = ResultFlags]
ShiftControls ==
  {ShiftControl(size, mode) :
     size \in Sizes, mode \in ShiftsLeft \cup ShiftsRight}

ASSUME SweepAssumption ==
  /\ Controls \subseteq DecodedControls \cup ShiftControls
  /\ Operands \subseteq Words(24) /\ {} \in Operands
  /\ FlagBytes \subseteq Words(8)

VARIABLES
  execution_phase, control, alu_input_latches, alu_output_latch,
  f,          \* Register F.
  flags       \* The local flags of execute_half2_result_latch_.

inputs == <<control, alu_input_latches, f>>
vars == <<execution_phase, inputs, alu_output_latch, flags>>

\* A load, which writes no flag, and a shift have DATA_ZERO as their left
\* operand; what the latches hold matters only to the words that read them.
Lefts(c) ==
  IF c.op = "OFF" \/ (c.op = "OR" /\ (c.mask = {} \/ c.shifter # "NONE"))
    THEN {{}} ELSE Operands
Rights(c) == IF c.op = "OFF" THEN {{}} ELSE Operands
Olds(c) == IF c.op = "OFF" THEN Operands ELSE {{}}

Init ==
  /\ control \in Controls /\ f \in FlagBytes
  /\ alu_input_latches \in Lefts(control) \X Rights(control)
  /\ alu_output_latch \in Olds(control)
  /\ flags = f /\ execution_phase = "HALF2_RESULT_LATCH"

ResultLatch ==
  /\ execution_phase = "HALF2_RESULT_LATCH"
  /\ \E r \in Results(control, alu_input_latches[1], alu_input_latches[2], f,
                      alu_output_latch) :
       alu_output_latch' = r.out /\ flags' = r.flags
  /\ execution_phase' = "HALF2_MEM_PREPARE"
  /\ UNCHANGED inputs

Spec == Init /\ [][ResultLatch]_vars

-----------------------------------------------------------------------------
(***************************************************************************)
(* The reference: what the word stands for, on numbers.                    *)
(***************************************************************************)
Bit(word, i) == IF i \in word THEN 1 ELSE 0

\* The byte of a word whose lowest bit is i, the number the 24 bits of a
\* word stand for, and how many of them are set.
Byte(word, i) ==
  Bit(word, i) + 2 * Bit(word, i + 1) + 4 * Bit(word, i + 2)
    + 8 * Bit(word, i + 3) + 16 * Bit(word, i + 4) + 32 * Bit(word, i + 5)
    + 64 * Bit(word, i + 6) + 128 * Bit(word, i + 7)
Number(word) == Byte(word, 0) + 256 * Byte(word, 8) + 65536 * Byte(word, 16)

OnesOf(word, i) ==
  Bit(word, i) + Bit(word, i + 1) + Bit(word, i + 2) + Bit(word, i + 3)
    + Bit(word, i + 4) + Bit(word, i + 5) + Bit(word, i + 6) + Bit(word, i + 7)
Ones(word) == OnesOf(word, 0) + OnesOf(word, 8) + OnesOf(word, 16)

\* How many numbers a size has.
Full(size) == IF size = 0 THEN 256 ELSE IF size = 1 THEN 65536 ELSE 16777216
Half(size) == IF size = 0 THEN 128 ELSE IF size = 1 THEN 32768 ELSE 8388608

full == Full(control.size0)
half == Half(control.size0)
low == alu_output_latch \cap Below(Width(control.size0))
Carry == IF F_CARRY \in f THEN 1 ELSE 0

Unsigned(latch, size) == Number(latch \cap Below(Width(size)))
Signed(latch, size) ==
  Unsigned(latch, size) - (IF TopBit(size) \in latch THEN Full(size) ELSE 0)

Left == Unsigned(alu_input_latches[1], control.size0)
Right ==
  (IF control.sign1 THEN Signed(alu_input_latches[2], control.size1)
                    ELSE Unsigned(alu_input_latches[2], control.size1))
    + (IF control.add_carry THEN Carry ELSE 0)
Addend == IF control.negate THEN - Right ELSE Right

\* As a signed number: of its own size, and not below zero in a longer one.
SignedRight ==
  (IF control.size1 < control.size0
     THEN Unsigned(alu_input_latches[2], control.size1)
     ELSE Signed(alu_input_latches[2], control.size1))
    + (IF control.add_carry THEN Carry ELSE 0)
SignedAddend == IF control.negate THEN - SignedRight ELSE SignedRight
InRange(x) == - half <= x /\ x < half

Done == execution_phase = "HALF2_MEM_PREPARE"
IsByte == control.size0 = 0
Is24Bit == control.size0 = 2
Adds == Done /\ control.op = "ADD" /\ ~ (IsByte /\ F_DECIMAL \in f)
WritesFlags == control.mask # {}
\* A load is an OR with zero that writes no flag.
Loads == Done /\ control.op = "OR" /\ ~ WritesFlags

-----------------------------------------------------------------------------
TypeOK ==
  /\ execution_phase \in {"HALF2_RESULT_LATCH", "HALF2_MEM_PREPARE"}
  /\ control \in Controls /\ alu_input_latches \in Operands \X Operands
  /\ alu_output_latch \in Words(32) /\ f \in FlagBytes /\ flags \in Words(8)

\* The output latch, which becomes an address and goes to registers without
\* a mask, has 24 bits, although only the sum is reduced to 24: the left
\* operand and the old output must already fit, and the right one does since
\* the shifter cut it.  Not so when the ALU is off with the decimal flag up,
\* for then an uninitialised variable decides whether 16 is added.
OutputFits ==
  Done /\ (control.op # "OFF" \/ F_DECIMAL \notin f)
    => alu_output_latch \in Words(24)

\* The right operand, negated or extended, gets through to the sum when it
\* fits into what it is cut to on the way: 16 bits in alu_operate_shifter_,
\* which takes and returns uint16_t, and before that, when it is negated, its
\* own size, which an immediate makes smaller than that of the left operand.
Room ==
  IF control.negate /\ control.size1 = 0 THEN Full(0) ELSE Full(1)
Fits == Addend % full < Room

\* Additions, subtractions, address and auto-index computations give the sum
\* modulo the size of the left operand, and loads what they load,
\* sign-extended or not, exactly if the right operand fits: always in 8 bits,
\* and in 16 unless a byte is subtracted; in 24 seldom.
SumExact ==
  Adds \/ Loads => (Number(low) = (Left + Addend) % full <=> Fits)

\* S and Z after an addition, subtraction or comparison are the sign and the
\* nullity of the true sum, in the size of the left operand, if the right one
\* fits.
SignAndZero ==
  Adds /\ WritesFlags /\ Fits =>
    /\ F_ZERO \in flags <=> (Left + Addend) % full = 0
    /\ F_NEG \in flags <=> (Left + Addend) % full >= half

\* V after such an addition is the signed overflow if the right operand with
\* its carry and sign is a number of the left one's size, and of operands of
\* one size only then.  The code compares signs after the negation, so
\* subtracting the least number and adding the greatest with a carry are the
\* cases it gets wrong.
OverflowExact ==
  Adds /\ WritesFlags /\ Fits =>
    LET exact == F_OVERFLOW \in flags
                   <=> ~ InRange(Signed(alu_input_latches[1], control.size0)
                                   + SignedAddend)
    IN  /\ InRange(SignedAddend) => exact
        /\ control.size0 = control.size1 /\ exact => InRange(SignedAddend)

\* V after a logic operation is set for an odd number of ones, whatever the
\* size: the three ways of folding the parity agree on that.
ParityOdd ==
  Done /\ WritesFlags /\ control.op \in {"AND", "OR", "XOR"}
    /\ control.vmode = "NORMAL" =>
    (F_OVERFLOW \in flags <=> Ones(low) % 2 = 1)

\* What a shift of an operand of 8 or 16 bits should leave; the mode left
\* is RIGHT_BARREL.
Shifted(x, top) ==
  CASE control.shifter = "LEFT"          -> 2 * x
    [] control.shifter = "LEFT_CARRY"    -> 2 * x + Carry
    [] control.shifter = "LEFT_BARREL"   -> 2 * x + x \div top
    [] control.shifter = "RIGHT_LOGICAL" -> x \div 2
    [] control.shifter = "RIGHT_ARITH"   -> x \div 2 + top * (x \div top)
    [] control.shifter = "RIGHT_CARRY"   -> x \div 2 + top * Carry
    [] OTHER                             -> x \div 2 + top * (x % 2)

\* An 8 or 16-bit operand comes out of the shifter as the mode says, with
\* nothing of the bits beyond its size, and V, when it shows the shifter's
\* carry, is the bit that left.
ShiftExact ==
  Done /\ control.shifter # "NONE" /\ control.op = "OR" /\ ~ Is24Bit =>
    LET x == Unsigned(alu_input_latches[2], control.size1)
    IN  /\ Number(low) = Shifted(x, half) % full
        /\ F_OVERFLOW \in flags <=>
             IF control.shifter \in ShiftsLeft THEN x >= half ELSE x % 2 = 1
=============================================================================
