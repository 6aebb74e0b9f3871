------------------------------- MODULE Mucode -------------------------------
(***************************************************************************)
(* The microcode ROM of pilot-cpu/cpu_mucode.c: decode_mucode_entry maps   *)
(* an entry specification to the control word that carries it out and to   *)
(* the specification of the entry that follows.                            *)
(*                                                                         *)
(* Every entry starts as an uninitialised automatic variable (base_entry_) *)
(* and some fields are never assigned: an entry is therefore a SET of      *)
(* words, one for each value the unassigned field may hold.  An unassigned *)
(* location is MEM_DATA or anything else, which is all the execute stage   *)
(* tells apart.                                                            *)
(***************************************************************************)
EXTENDS Instruction

Entries == [word : ControlWords, next : Specs]

\* The values of a location and of a mem_write_ctl nobody assigned.
UnsetLoc == {Loc("ZERO"), MemData}
UnsetWrite == WriteCtls

\* spec.reg_select & 0x7, and the test of bit 4.
RegNo(spec) == spec.sel % 8
SecondRM(spec) == spec.sel \div 16 = 1

\* What `!(spec.is_write) ? MEM_READ : MEM_WRITE_FROM_MDR` yields.
Direction(spec) == IF spec.wr THEN "FROM_MDR" ELSE "READ"

-----------------------------------------------------------------------------
\* base_entry_ alone, and the words it may be.
BaseWord(loc0, loc1, w) ==
  [IdleWord EXCEPT !.src0 = loc0, !.src1 = loc1, !.write = w]
BaseEntry ==
  {BaseWord(loc0, loc1, w) :
     loc0 \in UnsetLoc, loc1 \in UnsetLoc, w \in UnsetWrite}

\* ind_1cyc_reg_: the register bank follows the operand size.
RegOperand(spec) ==
  CASE spec.size = 0 -> <<"REG_L", RegNo(spec)>>
    [] spec.size = 1 -> <<"REG_W", RegNo(spec)>>
    [] spec.size = 2 -> <<"REG_P", RegNo(spec)>>

\* One-cycle entries: the address is an operand of the first half.  The
\* second operand is never assigned.
OneCycle(spec, operand) ==
  {[IdleWord EXCEPT !.src0 = operand, !.src1 = loc, !.latch = "HALF1",
                    !.write = Direction(spec)] : loc \in UnsetLoc}

\* ind_1cyc_reg_auto_: the register is decremented and its new value is the
\* address.
RegAuto(spec) ==
  [IdleWord EXCEPT !.src0 = RegOperand(spec), !.src1 = Loc("SIZE"),
                   !.dest = RegOperand(spec), !.op = "ADD",
                   !.latch = "HALF2", !.write = Direction(spec)]

\* Two-cycle entries: the address is the sum of two operands.
TwoCycle(operand, offset, writes) ==
  {[IdleWord EXCEPT !.src0 = operand, !.src1 = offset, !.op = "ADD",
                    !.latch = "HALF2", !.write = w] : w \in writes}

\* Mutants: mem_latch_ctl of ind_1cyc_reg_ is kept; the pointer register is
\* updated whatever the operand size.
AfterAutoidx_StillLatches(spec) ==
  [IdleWord EXCEPT !.src0 = RegOperand(spec), !.src1 = Loc("SIZE"),
                   !.dest = RegOperand(spec), !.op = "ADD",
                   !.latch = "HALF1", !.write = Direction(spec)]
AfterAutoidx_Pointer(spec) ==
  [IdleWord EXCEPT !.src0 = RegOperand(spec), !.src1 = Loc("SIZE"),
                   !.dest = <<"REG_P", RegNo(spec)>>, !.op = "ADD",
                   !.write = Direction(spec)]

\* after_autoidx_, whose write control is that of ind_1cyc_reg_.
AfterAutoidx(spec) ==
  [IdleWord EXCEPT !.src0 = RegOperand(spec), !.src1 = Loc("SIZE"),
                   !.dest = RegOperand(spec), !.op = "ADD",
                   !.write = Direction(spec)]

\* The location of an operand that either RM specifier may own.
PerRM(spec, first, second) == Loc(IF SecondRM(spec) THEN second ELSE first)

\* The words decode_mucode_entry may return.  The last case is the
\* default of the switch: base_entry_ alone.
EntryWords(spec) ==
  CASE spec.idx = "IND_IMM"    -> OneCycle(spec, Loc("IMM_1"))
    [] spec.idx = "IND_IMM_RM" -> OneCycle(spec, Loc("RM_1"))
    [] spec.idx = "IND_IMM0"   -> OneCycle(spec, Loc("IMM_0"))
    [] spec.idx \in {"IND_REG", "IND_REG_POST_AUTO"} ->
         OneCycle(spec, RegOperand(spec))
    [] spec.idx = "IND_REG_AUTO" -> {RegAuto(spec)}
    [] spec.idx = "IND_REG_WITH_IMM" ->
         TwoCycle(RegOperand(spec), PerRM(spec, "IMM_1", "RM_1"),
                  {Direction(spec)})
    [] spec.idx = "IND_IMM_WITH_BITS" ->
         TwoCycle(PerRM(spec, "IMM_HML_RM", "RM_HML"),
                  PerRM(spec, "REG_IMM_2_8", "REG_RM_2_8"), UnsetWrite)
    [] spec.idx = "IND_REG_WITH_BITS" ->
         TwoCycle(PerRM(spec, "REG_IMM_1_2", "REG_RM_1_2"),
                  PerRM(spec, "REG_IMM_1_8", "REG_RM_1_8"), UnsetWrite)
    [] spec.idx = "IND_PGC_WITH_IMM" ->
         TwoCycle(Loc("REG_PGC"), Loc("IMM_0"), UnsetWrite)
    [] spec.idx = "IND_PGC_WITH_IMM_RM" ->
         TwoCycle(Loc("REG_PGC"), PerRM(spec, "IMM_1", "RM_1"), UnsetWrite)
    [] spec.idx = "IND_PGC_WITH_HML" ->
         TwoCycle(Loc("REG_PGC"), Loc("IMM_HML"), UnsetWrite)
    [] spec.idx = "IND_PGC_WITH_HML_RM" ->
         TwoCycle(Loc("REG_PGC"), PerRM(spec, "IMM_HML_RM", "RM_HML"),
                  UnsetWrite)
    [] spec.idx = "POST_AUTOIDX" -> {AfterAutoidx(spec)}
    [] spec.idx = "NONE"         -> BaseEntry

\* Mutant: every program goes on to an update of its register.
FollowUp_AlwaysUpdates(spec) == [spec EXCEPT !.idx = "POST_AUTOIDX"]

\* mucode_entry.next: base_entry_ ends the program, only the
\* post-increment entry goes on, and the other fields are handed down.
FollowUp(spec) ==
  [spec EXCEPT !.idx =
     IF spec.idx = "IND_REG_POST_AUTO" THEN "POST_AUTOIDX" ELSE "NONE"]

DecodeMucodeEntry(spec) ==
  [word : EntryWords(spec), next : {FollowUp(spec)}]
=============================================================================
