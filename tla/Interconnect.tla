---------------------------- MODULE Interconnect ----------------------------
(***************************************************************************)
(* The decode to execute half of pilot_interconnect (cpu_interconnect.h).  *)
(*                                                                         *)
(* Assumption: interconnects.decoded_inst points at the decode stage's     *)
(* work_regs, the only record of its type the code fills.  No code assigns *)
(* that pointer; whoever creates the processor has to, or the sequencer    *)
(* follows a null pointer.  Both stages then share the record, and         *)
(* decoded_inst_semaph alone tells whose turn it is.                       *)
(***************************************************************************)
EXTENDS Instruction

VARIABLES
  decoded_inst_semaph,  \* An instruction is ready to be latched.
  work_regs             \* What interconnects.decoded_inst points at.

InterconnectType == decoded_inst_semaph \in BOOLEAN /\ work_regs \in Insts

InterconnectInit == decoded_inst_semaph = FALSE /\ work_regs = ZeroInst
=============================================================================
