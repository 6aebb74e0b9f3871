----------------------------- MODULE DecodeInst -----------------------------
(***************************************************************************)
(* The combinational part of the decode stage: decode_inst_ and its groups *)
(* (pilot-cpu/cpu_decode.c), and decode_rm_specifier (cpu_decode_rm.c).    *)
(*                                                                         *)
(* Both are functions of the opcode and of what work_regs already holds,   *)
(* because a group assigns some fields of work_regs and leaves the others. *)
(* A decoding in progress is a record: inst (work_regs), rm_ops and reads  *)
(* (operand words asked of the fetch unit).                                *)
(*                                                                         *)
(* decode_not_implemented_, decode_invalid_opcode_ and decode_unreachable_ *)
(* are declared and never defined; they are taken to return without        *)
(* changing work_regs.                                                     *)
(***************************************************************************)
EXTENDS Instruction

RM == 0 .. 63
Decodings == [inst : Insts, rm_ops : Nat, reads : Nat]

\* opcode & 0x003f and (opcode >> 6) & 0x3f, the RM specifiers, and the
\* size in the two upper bits.
SrcRM(opcode) == opcode % 64
DestRM(opcode) == (opcode \div 64) % 64
Size(opcode) == opcode \div 16384

-----------------------------------------------------------------------------
(***************************************************************************)
(* RM specifiers.                                                          *)
(***************************************************************************)
RegField(rm) == (rm \div 4) % 8
LowBits(rm) == rm % 4            \* rm & 0x03
HighBit(rm) == rm \div 32        \* (rm & 0x20) >> 5

\* Mutant: the last term of the K-map is off by one.
RequiresMemFetch_Gt2(rm) ==
  \/ HighBit(rm) = 1 /\ rm % 2 = 0
  \/ HighBit(rm) = 0 /\ LowBits(rm) \in {1, 2}
  \/ HighBit(rm) = 1 /\ LowBits(rm) = 1 /\ RegField(rm) > 2

\* rm_requires_mem_fetch_: the masks 0x21, 0x23 and 0x1c of the K-map.
RequiresMemFetch(rm) ==
  \/ HighBit(rm) = 1 /\ rm % 2 = 0
  \/ HighBit(rm) = 0 /\ LowBits(rm) \in {1, 2}
  \/ HighBit(rm) = 1 /\ LowBits(rm) = 1 /\ RegField(rm) > 1

\* The branch of decode_rm_specifier a specifier selects (its masks are
\* 0x03, 0x23 and 0x3b; the last ignores the lowest bit of the register).
Mode(rm) ==
  LET high == HighBit(rm) = 1
      low  == LowBits(rm)
      reg  == RegField(rm)
  IN  CASE low = 3           -> "short immediate"
        [] high /\ low = 2   -> "pre-decrement"
        [] high /\ low = 1 /\ reg \in {6, 7} -> "indexed"
        [] high /\ low = 1 /\ reg \in {4, 5} -> "PGC relative"
        [] high /\ low = 1 /\ reg \in {2, 3} -> "absolute"
        [] high /\ low = 1 /\ reg \in {0, 1} -> "immediate"
        [] high /\ low = 0   -> "post-increment"
        [] ~ high /\ low = 2 -> "indirect"
        [] ~ high /\ low = 1 -> "relative"
        [] OTHER             -> "direct"

\* !(rm & 0x04): the short one of the two forms some modes have.
ShortForm(rm) == RegField(rm) % 2 = 0

\* The location a source operand is given, the ops-th of its instruction;
\* old is the one it has.
SourceLocation(rm, ops, size, old) ==
  CASE Mode(rm) = "short immediate" -> Loc(IF ops # 1 THEN "SFI_1" ELSE "SFI_2")
    [] Mode(rm) = "immediate"       -> Loc(IF ops # 1 THEN "IMM_1" ELSE "RM_1")
    [] Mode(rm) = "direct" ->
         <<IF size = 0 THEN "REG_L" ELSE "REG_P", RegField(rm)>>
    [] OTHER -> IF RequiresMemFetch(rm) THEN MemData ELSE old

\* What becomes of the fields of *run_mucode.  Absolute mode assigns a size
\* and no entry_idx.
EntryIdx(rm, old) ==
  CASE Mode(rm) = "indexed" -> IF ShortForm(rm) THEN "IND_REG_WITH_BITS"
                                                ELSE "IND_IMM_WITH_BITS"
    [] Mode(rm) = "PGC relative"   -> "IND_PGC_WITH_IMM_RM"
    [] Mode(rm) = "pre-decrement"  -> "IND_REG_AUTO"
    [] Mode(rm) = "post-increment" -> "IND_REG_POST_AUTO"
    [] Mode(rm) = "indirect"       -> "IND_REG"
    [] Mode(rm) = "relative"       -> "IND_REG_WITH_IMM"
    [] OTHER                       -> old

RegSelect(rm, old) ==
  CASE Mode(rm) \in {"absolute", "PGC relative"} ->
         IF ShortForm(rm) THEN 8 ELSE 0
    [] Mode(rm) = "indexed" -> 0
    [] Mode(rm) \in {"pre-decrement", "post-increment", "indirect",
                     "relative"} -> RegField(rm)
    [] OTHER -> old

EntrySize(rm, old) ==
  IF Mode(rm) = "absolute" THEN IF ShortForm(rm) THEN 1 ELSE 2 ELSE old

ProgramOperand(spec, rm) ==
  [idx |-> EntryIdx(rm, spec.idx), sel |-> RegSelect(rm, spec.sel),
   size |-> EntrySize(rm, spec.size), wr |-> spec.wr]

\* Calls of decode_try_read_word_ inside decode_rm_specifier.
ExtraReads(rm) ==
  CASE Mode(rm) \in {"indexed", "PGC relative"} ->
         IF ShortForm(rm) THEN 1 ELSE 2
    [] OTHER -> 0

\* Mutant: reg_select is given bit 5.
MarkSecond_WrongBit(spec) == [spec EXCEPT !.sel = (spec.sel % 16) + 32]

\* reg_select |= 0x10.
MarkSecond(spec) == [spec EXCEPT !.sel = (spec.sel % 16) + 16]

\* Mutant: the write-back is set up wherever the operand is.
OperandCore_AlwaysBack(core, rm, is_dest, src_is_left, ops, size) ==
  IF src_is_left
    THEN [core EXCEPT !.src0 = SourceLocation(rm, ops, size, @),
                      !.dest = MemData, !.latch = "HALF2_MAR",
                      !.write = "FROM_DEST"]
  ELSE IF ~ is_dest
    THEN [core EXCEPT !.src1 = SourceLocation(rm, ops, size, @)]
  ELSE core

\* The effect on core_op: the affected source, and for an operand that is
\* source and destination in memory the write-back.
OperandCore(core, rm, is_dest, src_is_left, ops, size) ==
  IF src_is_left
    THEN LET loc == SourceLocation(rm, ops, size, core.src0)
         IN  IF is_dest /\ RequiresMemFetch(rm)
               THEN [core EXCEPT !.src0 = loc, !.dest = MemData,
                                 !.latch = "HALF2_MAR", !.write = "FROM_DEST"]
               ELSE [core EXCEPT !.src0 = loc]
  ELSE IF ~ is_dest
    THEN [core EXCEPT !.src1 = SourceLocation(rm, ops, size, core.src1)]
  ELSE core

\* Mutant: the second operand is not marked.
OperandSpec_Unmarked(spec, rm, is_dest, ops) ==
  [ProgramOperand(spec, rm) EXCEPT !.wr = is_dest]

\* The effect on *run_mucode.
OperandSpec(spec, rm, is_dest, ops) ==
  LET new == [ProgramOperand(spec, rm) EXCEPT !.wr = is_dest]
  IN  IF ops = 2 THEN MarkSecond(new) ELSE new

\* What work_regs may become.  run_mucode is uninitialised for an operand
\* that is not in memory, and the second operand dereferences it all the
\* same: the store goes to either of the two fields it may still designate,
\* or elsewhere.  (Or it ends the process: StoresWild.)
DecodeOperand(inst, rm, is_dest, src_is_left, ops, size) ==
  LET sourced == [inst EXCEPT !.core =
                    OperandCore(@, rm, is_dest, src_is_left, ops, size)]
  IN  IF RequiresMemFetch(rm)
        THEN IF is_dest /\ ~ src_is_left
               THEN {[sourced EXCEPT !.after =
                        OperandSpec(@, rm, is_dest, ops)]}
               ELSE {[sourced EXCEPT !.before =
                        OperandSpec(@, rm, is_dest, ops)]}
      ELSE IF ops = 2
        THEN {sourced, [sourced EXCEPT !.before = MarkSecond(@)],
              [sourced EXCEPT !.after = MarkSecond(@)]}
      ELSE {sourced}

\* decode_rm_specifier.
DecodeRM(d, rm, is_dest, src_is_left, size) ==
  {[inst |-> i, rm_ops |-> d.rm_ops + 1, reads |-> d.reads + ExtraReads(rm)] :
     i \in DecodeOperand(d.inst, rm, is_dest, src_is_left, d.rm_ops + 1, size)}

-----------------------------------------------------------------------------
(***************************************************************************)
(* Instruction groups.                                                     *)
(***************************************************************************)

\* decode_inst_'s choice of group, and the tests inside the groups.
IsBranch(opcode)     == opcode \div 4096 >= 14
IsBit(opcode)        == opcode \div 4096 = 13
IsLdOther(opcode)    == opcode \div 4096 = 12
IsArithLogic(opcode) == opcode < 49152 /\ (opcode \div 8192) % 2 = 1
IsLdGroup(opcode)    == opcode < 49152 /\ (opcode \div 4096) % 4 = 1
IsOther(opcode)      == opcode < 49152 /\ (opcode \div 4096) % 4 = 0

\* Assignments to fields of work_regs.core_op.
SetCore(d, word) ==
  [inst |-> [d.inst EXCEPT !.core = word], rm_ops |-> d.rm_ops,
   reads |-> d.reads]

\* decode_inst_ld_other_: LD.P r24, hml and LDQ.
LdOther(d, opcode) ==
  SetCore(d, [d.inst.core EXCEPT
    !.src0 = Loc("ZERO"), !.op = "OR", !.dest = Loc("REG_IMM_0_8"),
    !.src1 = Loc(IF (opcode \div 2048) % 2 = 0 THEN "IMM_HML" ELSE "IMM_0")])

\* The four-bit operation of decode_inst_arithlogic_, and the three-bit one
\* of its immediate form, operation 15.
Operation(opcode) == ((opcode \div 64) % 4) + 4 * ((opcode \div 2048) % 4)
ImmOperation(opcode) == (opcode \div 256) % 8
ImmForm(opcode) == IsArithLogic(opcode) /\ Operation(opcode) = 15

\* ADD, ADX, SUB, SBX and CP are additions.
ArithOp(operation) ==
  CASE operation = 4 -> "AND"
    [] operation = 5 -> "XOR"
    [] operation = 6 -> "OR"
    [] operation \in {0, 1, 2, 3, 7} -> "ADD"

\* The register form: the RM operand is the right source.  dest is not
\* assigned.
ArithRegister(d, opcode) ==
  LET start == SetCore(d, [d.inst.core EXCEPT
                 !.op = ArithOp(Operation(opcode) % 8)])
  IN  {SetCore(r, [r.inst.core EXCEPT !.src0 = Loc("REG_IMM_0_8")]) :
         r \in DecodeRM(start, SrcRM(opcode), FALSE, FALSE, Size(opcode))}

\* The immediate form: the RM operand is left source and destination.  Its
\* case has no break and runs into the default's decode_unreachable_, which
\* is taken to return.
ArithImmediate(d, opcode) ==
  LET start == SetCore(d, [d.inst.core EXCEPT
                             !.op = ArithOp(ImmOperation(opcode))])
  IN  {SetCore(r, [r.inst.core EXCEPT
         !.src1 = Loc("IMM_1"),
         !.dest = IF ImmOperation(opcode) = 7 THEN Loc("ZERO") ELSE @]) :
         r \in DecodeRM(start, SrcRM(opcode), TRUE, TRUE, Size(opcode))}

\* decode_inst_ld_group_: LD with two RM specifiers, or one and a register.
\* LEA with pre-decrement decodes a dummy specifier first, which is 0:
\* (opcode & 0x0f80) >> 12.
LdOneRM(d, opcode) ==
  LET start == SetCore(d, [d.inst.core EXCEPT
                 !.src0 = Loc("ZERO"), !.op = "OR",
                 !.dest = Loc("REG_IMM_0_8")])
      dummy == IF opcode \div 2048 = 19
                 THEN DecodeRM(start, 0, TRUE, FALSE, Size(opcode))
                 ELSE {start}
  IN  UNION {DecodeRM(r, SrcRM(opcode), FALSE, FALSE, Size(opcode)) :
               r \in dummy}

LdTwoRM(d, opcode) ==
  LET start == SetCore(d, [d.inst.core EXCEPT
                 !.src0 = Loc("ZERO"), !.op = "OR"])
  IN  UNION {DecodeRM(r, DestRM(opcode), TRUE, FALSE, Size(opcode)) :
               r \in DecodeRM(start, SrcRM(opcode), FALSE, FALSE,
                              Size(opcode))}

LdGroup(d, opcode) ==
  IF (opcode \div 64) % 4 = 3 THEN LdOneRM(d, opcode) ELSE LdTwoRM(d, opcode)

\* Decoding stores through run_mucode uninitialised: the second operand of a
\* load is not in memory.
StoresWild(opcode) ==
  /\ IsLdGroup(opcode)
  /\ IF (opcode \div 64) % 4 = 3
       THEN opcode \div 2048 = 19 /\ ~ RequiresMemFetch(SrcRM(opcode))
       ELSE ~ RequiresMemFetch(DestRM(opcode))

\* decode_inst_.  The branch and bit groups and decode_inst_other_ are
\* placeholders.
DecodeOpcode(inst, opcode) ==
  LET d == [inst |-> [inst EXCEPT !.word0 = opcode], rm_ops |-> 0,
            reads |-> 0]
  IN  CASE IsLdOther(opcode)    -> {LdOther(d, opcode)}
        [] ImmForm(opcode)      -> ArithImmediate(d, opcode)
        [] IsArithLogic(opcode) /\ ~ ImmForm(opcode) ->
             ArithRegister(d, opcode)
        [] IsLdGroup(opcode)    -> LdGroup(d, opcode)
        [] IsBranch(opcode) \/ IsBit(opcode) \/ IsOther(opcode) -> {d}
=============================================================================
