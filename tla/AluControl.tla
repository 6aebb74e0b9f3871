----------------------------- MODULE AluControl -----------------------------
(***************************************************************************)
(* The ALU part of the control words: what the decoder's groups            *)
(* (cpu_decode.c) and the microcode entries (cpu_mucode.c) assign of it,   *)
(* beside the locations and memory control of DecodeInst and Mucode.       *)
(*                                                                         *)
(* No code assigns invert_carries or a shifter_mode other than             *)
(* SHIFTER_NONE.  A field that a group or an entry leaves alone has either *)
(* value: in work_regs it is what an earlier instruction left, in a        *)
(* microcode entry it is uninitialised.                                    *)
(***************************************************************************)
EXTENDS Alu, DecodeInst

\* The control of an addition of operands of a size.
PlainControl(op, size) ==
  [op |-> op, size0 |-> size, size1 |-> size, sign0 |-> FALSE,
   sign1 |-> FALSE, add1 |-> FALSE, add_carry |-> FALSE, negate |-> FALSE,
   shifter |-> "NONE", invert |-> FALSE, vmode |-> "NORMAL", mask |-> {}]

ResultFlags == {F_NEG, F_ZERO, F_OVERFLOW, F_CARRY}

\* decode_rm_specifier on the source it is called for: the size it gives it
\* is that of the instruction, except to an immediate, which has 16 or 24
\* bits; sign_extend is assigned to the two kinds of immediates only.
SourceSize(rm, size) ==
  IF Mode(rm) = "immediate" THEN IF ShortForm(rm) THEN 1 ELSE 2 ELSE size
SourceSign(rm, old) ==
  CASE Mode(rm) = "short immediate" -> FALSE
    [] Mode(rm) = "immediate"       -> ShortForm(rm)
    [] OTHER                        -> old

\* decode_inst_arithlogic_: ADD, ADX, SUB, SBX, AND, XOR, OR, CP, of which
\* the first four write F_EXTEND.  The specifier is the right source and, in
\* the immediate form, the left one; the other has the size of the opcode.
ArithControl(opcode) ==
  LET operation == IF ImmForm(opcode) THEN ImmOperation(opcode)
                                      ELSE Operation(opcode) % 8
      source == SourceSize(SrcRM(opcode), Size(opcode))
  IN  [PlainControl(ArithOp(operation), Size(opcode)) EXCEPT
         !.size0 = IF ImmForm(opcode) THEN source ELSE @,
         !.size1 = IF ImmForm(opcode) THEN @ ELSE source,
         !.add_carry = operation \in {1, 3},
         !.negate = operation \in {2, 3, 7},
         !.mask = IF operation \in 0 .. 3
                    THEN ResultFlags \cup {F_EXTEND} ELSE ResultFlags]

\* decode_inst_ld_group_.  LDSX sets the sign extension of the right operand
\* before its specifier is decoded, the others keep what was there.
LdControl(opcode, extend) ==
  [PlainControl("OR", Size(opcode)) EXCEPT
     !.size0 = IF (opcode \div 64) % 4 = 3 THEN 2 ELSE @,
     !.size1 = SourceSize(SrcRM(opcode), @),
     !.sign1 = SourceSign(SrcRM(opcode), extend)]
IsLdSX(opcode) ==
  (opcode \div 64) % 4 = 3 /\ opcode < 32768 /\ (opcode \div 2048) % 2 = 1
LdControls(opcode) ==
  {LdControl(opcode, extend) :
     extend \in IF IsLdSX(opcode) THEN {TRUE} ELSE BOOLEAN}

\* decode_inst_ld_other_: LD.P and LDQ.
LdOtherControl(opcode) ==
  IF (opcode \div 2048) % 2 = 0
    THEN PlainControl("OR", 2)
    ELSE [PlainControl("OR", 2) EXCEPT !.size1 = 0, !.sign1 = TRUE]

\* The ALU part of core_op that an opcode may decode to; none for the
\* groups that are placeholders.
CoreControls(opcode) ==
  IF IsLdOther(opcode) THEN {LdOtherControl(opcode)}
  ELSE IF IsArithLogic(opcode) THEN {ArithControl(opcode)}
  ELSE IF IsLdGroup(opcode) THEN LdControls(opcode)
  ELSE {}

\* The sizes and sign extensions of the two-cycle entries, the step of the
\* auto-indexed ones, and base_entry_ for those that leave the ALU off.
SourceControl(spec) ==
  LET base == [PlainControl("ADD", spec.size) EXCEPT !.size0 = 2] IN
  CASE spec.idx = "IND_REG_AUTO" ->
         [base EXCEPT !.size0 = spec.size, !.negate = TRUE]
    [] spec.idx = "POST_AUTOIDX" ->
         [base EXCEPT !.size0 = spec.size, !.size1 = 2]
    [] spec.idx = "IND_REG_WITH_IMM" ->
         [base EXCEPT !.size0 = spec.size, !.size1 = 1, !.sign1 = TRUE]
    [] spec.idx \in {"IND_IMM_WITH_BITS", "IND_REG_WITH_BITS"} ->
         [base EXCEPT !.sign1 = (spec.sel \div 8) % 2 = 1]
    [] spec.idx = "IND_PGC_WITH_IMM" ->
         [base EXCEPT !.size1 = 0, !.sign1 = TRUE]
    [] spec.idx = "IND_PGC_WITH_IMM_RM" ->
         [base EXCEPT !.sign1 = spec.size = 1]
    [] spec.idx \in {"IND_PGC_WITH_HML", "IND_PGC_WITH_HML_RM"} ->
         [base EXCEPT !.size1 = 2]
    [] spec.idx = "IND_IMM0" -> [base EXCEPT !.op = "OFF", !.size0 = 0]
    [] spec.idx \in {"IND_IMM", "IND_IMM_RM", "IND_REG", "IND_REG_POST_AUTO"} ->
         [base EXCEPT !.op = "OFF", !.size0 = spec.size]
    [] OTHER -> [base EXCEPT !.op = "OFF"]

\* src2_add_carry is assigned by no entry.  Nor are the flag fields, which
\* decide only what flags it computes, kept by nobody: they are left at
\* those of PlainControl.
EntryControls(spec) ==
  {[SourceControl(spec) EXCEPT !.add_carry = carry] : carry \in BOOLEAN}

\* Every ALU control there is.
DecodedControls ==
  (UNION {CoreControls(opcode) : opcode \in Opcode})
    \cup (UNION {EntryControls(spec) : spec \in Specs})
=============================================================================
