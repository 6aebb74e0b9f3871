---------------------------- MODULE Instruction -----------------------------
(***************************************************************************)
(* The decoded instruction of pilot-cpu/types.h: inst_decoded_flags, its   *)
(* control word and its microcode specifications.                          *)
(*                                                                         *)
(* A control word is reduced to what decides memory accesses and waits:    *)
(* where operands come from and go to, whether the ALU runs, and the       *)
(* memory control.  Operand sizes, sign extension, flag and shifter        *)
(* control are left out, as are the fields no code assigns (branch,        *)
(* auto_incr_amount, rm2_offset) and inst_pgc, a copy of a counter the     *)
(* decode stage never advances.  Of the instruction words only the first,  *)
(* the opcode, is kept.                                                    *)
(***************************************************************************)
EXTENDS Naturals

\* mucode_entry_idx without its MU_ prefix.
MucodeIdx ==
  {"NONE", "IND_IMM", "IND_IMM0", "IND_IMM_RM", "IND_IMM_WITH_BITS",
   "IND_REG", "IND_REG_POST_AUTO", "IND_REG_AUTO", "IND_REG_WITH_IMM",
   "IND_REG_WITH_BITS", "IND_PGC_WITH_IMM", "IND_PGC_WITH_IMM_RM",
   "IND_PGC_WITH_HML", "IND_PGC_WITH_HML_RM", "POST_AUTOIDX"}

\* data_size_spec: 8, 16 or 24 bits.  The two-bit field of an opcode
\* could also hold 3, but only opcodes of other groups do.
Sizes == 0 .. 2

\* mucode_entry_spec.  reg_select is a register number, bit 3 a sign
\* extension flag, bit 4 the RM operand number.
Specs == [idx : MucodeIdx, sel : 0 .. 31, size : Sizes, wr : BOOLEAN]
NoSpec == [idx |-> "NONE", sel |-> 0, size |-> 0, wr |-> FALSE]

\* data_bus_specifier: a kind and, for a register bank, its index.
LocKinds ==
  {"ZERO", "SIZE", "REG_L", "REG_W", "REG_P", "REG_PGC", "MEM_DATA",
   "IMM_0", "IMM_1", "IMM_HML", "IMM_HML_RM", "SFI_1", "SFI_2", "RM_1",
   "RM_HML", "REG_IMM_0_8", "REG_IMM_1_8", "REG_IMM_1_2", "REG_IMM_2_8",
   "REG_RM_1_8", "REG_RM_1_2", "REG_RM_2_8"}
Locs == LocKinds \X (0 .. 7)
Loc(kind) == <<kind, 0>>
MemData == Loc("MEM_DATA")

\* execute_control_word.
AluOps == {"OFF", "ADD", "AND", "OR", "XOR"}
LatchCtls == {"NO_LATCH", "HALF1", "HALF2", "HALF2_MAR"}
WriteCtls == {"READ", "FROM_SRC1", "FROM_DEST", "FROM_MDR"}
ControlWords ==
  [src0 : Locs, src1 : Locs, dest : Locs, op : AluOps, latch : LatchCtls,
   write : WriteCtls, suppress : BOOLEAN]
IdleWord ==
  [src0 |-> Loc("ZERO"), src1 |-> Loc("ZERO"), dest |-> Loc("ZERO"),
   op |-> "OFF", latch |-> "NO_LATCH", write |-> "READ", suppress |-> FALSE]

Opcode == 0 .. 65535

\* inst_decoded_flags; word0 is imm_words[0], the opcode.
Insts ==
  [word0 : Opcode, override : Specs, before : Specs,
   core : ControlWords, after : Specs]
ZeroInst ==
  [word0 |-> 0, override |-> NoSpec, before |-> NoSpec,
   core |-> IdleWord, after |-> NoSpec]
=============================================================================
