------------------------------ MODULE Execute -------------------------------
(***************************************************************************)
(* The execute stage of pilot-cpu/cpu_execute.c: the phase machine of      *)
(* pilot_execute_half1 and pilot_execute_half2, and the sequencer that     *)
(* chooses the next control word.                                          *)
(*                                                                         *)
(* Each call is one action; the phases a call runs through without         *)
(* returning have no state of their own.  Values are members of Addr: a    *)
(* register or an ALU result is any of them, MEM_DATA is the memory data   *)
(* register.  The values are not computed; mem_addr, mem_data and the two  *)
(* ALU latches are kept because accesses are made with them.               *)
(*                                                                         *)
(* Nothing in the source calls the two halves and the sequencer, and no    *)
(* statement leaves ADVANCE_SEQUENCER.  The halves may be called at any    *)
(* time.  DriverAdvance stands for the missing caller of the sequencer: it *)
(* calls it only when a word has been carried out or none has been chosen, *)
(* and returns execution_phase to HALF1_READY when there is one to run.    *)
(***************************************************************************)
EXTENDS Interconnect, Mucode, MemoryBus, Sequences

VARIABLES
  decoded_inst, mucode_control, mucode_decoded_buffer,
  control,                \* Which word the pointer control designates.
  alu_input_latch,        \* alu_input_latches[0].
  alu_output_latch, mem_addr, mem_data,
  mem_access_waiting, mem_access_was_read,
  execution_phase, sequencer_phase,
  trail                   \* History: words of decoded_inst carried out, each
                          \* with its stage.

latches == <<alu_input_latch, alu_output_latch, mem_addr, mem_data>>
sequencer == <<decoded_inst, mucode_control, mucode_decoded_buffer, control,
               sequencer_phase>>
waits == <<mem_access_waiting, mem_access_was_read>>
executeVars == <<latches, sequencer, waits, execution_phase, trail>>

ExecutionPhases == {"HALF1_READY", "HALF1_MEM_WAIT", "HALF1_MEM_ASSERT",
                    "HALF2_READY", "HALF2_MEM_ASSERT", "ADVANCE_SEQUENCER"}
SequencerPhases == {"WAIT_NEXT_INS", "OVERRIDE_OP", "RUN_BEFORE",
                    "CORE_OP_EXECUTED", "RUN_AFTER", "FINAL_STEPS"}
Stages == {"override", "before", "core", "after"}

\* Everything is zero-initialised.
ExecuteInit ==
  /\ decoded_inst = ZeroInst /\ mucode_control = NoSpec
  /\ mucode_decoded_buffer = IdleWord /\ control = "null"
  /\ alu_input_latch = 0 /\ alu_output_latch = 0
  /\ mem_addr = 0 /\ mem_data = 0
  /\ mem_access_waiting = FALSE /\ mem_access_was_read = FALSE
  /\ execution_phase = "HALF1_READY" /\ sequencer_phase = "WAIT_NEXT_INS"
  /\ trail = << >>

\* *state->control.
Control == IF control = "core" THEN decoded_inst.core
                               ELSE mucode_decoded_buffer

\* The values fetch_data_ may find at a location.
Fetched(loc, data) ==
  CASE loc = MemData     -> {data}
    [] loc = Loc("ZERO") -> {0}
    [] OTHER             -> Addr

UsesMemData(word) == MemData \in {word.src0, word.src1, word.dest}
Half1Latches(word) == word.latch = "HALF1"
Half2Latches(word) == word.latch \in {"HALF2", "HALF2_MAR"}

-----------------------------------------------------------------------------
\* Mutant: a write is asserted as a read.
MemAssert_OnlyReads(fires, addr, data, waiting, stay, leave) ==
  IF fires /\ ~ Control.suppress
    THEN /\ ReadAssert(addr)
         /\ IF Accepts
              THEN /\ execution_phase' = stay
                   /\ mem_access_waiting' = waiting
                   /\ UNCHANGED mem_access_was_read
              ELSE /\ execution_phase' = leave
                   /\ mem_access_waiting' = TRUE
                   /\ mem_access_was_read' =
                        (mem_access_was_read \/ Control.write = "READ")
    ELSE /\ execution_phase' = leave
         /\ mem_access_waiting' = waiting
         /\ UNCHANGED <<memctl, mem_access_was_read>>

\* execute_half1_mem_assert_ and execute_half2_mem_assert_: stay is the phase
\* they leave when they return early, leave the one they go on to.  A
\* half is left when the access is REFUSED: the functions test
\* `!Pilot_mem_addr_read_assert(...)`, and MCTL_READY is 0.
MemAssert(fires, addr, data, waiting, stay, leave) ==
  IF fires /\ ~ Control.suppress
    THEN /\ IF Control.write = "READ" THEN ReadAssert(addr)
                                      ELSE WriteAssert(addr, data)
         /\ IF Accepts
              THEN /\ execution_phase' = stay
                   /\ mem_access_waiting' = waiting
                   /\ UNCHANGED mem_access_was_read
              ELSE /\ execution_phase' = leave
                   /\ mem_access_waiting' = TRUE
                   /\ mem_access_was_read' =
                        (mem_access_was_read \/ Control.write = "READ")
    ELSE /\ execution_phase' = leave
         /\ mem_access_waiting' = waiting
         /\ UNCHANGED <<memctl, mem_access_was_read>>

\* Mutant: only the left operand is awaited.
Blocked_LeftOnly ==
  mem_access_waiting /\ ~ DataWait /\ Control.src0 = MemData

\* execute_half1_mem_wait_: the answer, if this call sees one, and the
\* condition on which the call ends here.
Answered == mem_access_waiting /\ DataWait
Blocked == mem_access_waiting /\ ~ DataWait /\ UsesMemData(Control)
DataAfterWait ==
  IF Answered /\ mem_access_was_read THEN GetData ELSE mem_data

\* The control word is run from its first phase.
Half1Enters ==
  execution_phase \in {"HALF1_READY", "HALF1_MEM_WAIT"} /\ control # "null"

\* The same call while control is still a null pointer, which it follows to
\* fetch its operands: the sequencer has not chosen a word yet.
Half1Faults ==
  execution_phase \in {"HALF1_READY", "HALF1_MEM_WAIT"} /\ control = "null"

\* pilot_execute_half1 that ends in execute_half1_mem_wait_.
Half1Block ==
  /\ Half1Enters /\ Blocked
  /\ execution_phase' = "HALF1_MEM_WAIT"
  /\ UNCHANGED <<latches, sequencer, waits, memctl, trail,
                 decoded_inst_semaph, work_regs>>

\* execute_half1_mem_prepare_: what becomes of mem_data.  (mem_addr stays.)
Half1Data(src1) ==
  CASE ~ Half1Latches(Control)           -> DataAfterWait
    [] Control.write = "FROM_SRC1"       -> Low16(src1)
    [] Control.write = "FROM_DEST"       -> Low16(alu_output_latch)
    [] Control.write \in {"READ", "FROM_MDR"} -> DataAfterWait

\* pilot_execute_half1 that goes on to latch the operands, prepare the
\* access and assert it.
Half1Operands ==
  /\ Half1Enters /\ ~ Blocked
  /\ \E src0 \in Fetched(Control.src0, DataAfterWait),
        src1 \in Fetched(Control.src1, DataAfterWait) :
       /\ alu_input_latch' = src0
       /\ mem_data' = Half1Data(src1)
       /\ MemAssert(Half1Latches(Control), mem_addr, Half1Data(src1),
                    mem_access_waiting /\ ~ Answered,
                    "HALF1_MEM_ASSERT", "HALF2_READY")
  /\ UNCHANGED <<alu_output_latch, mem_addr, sequencer, trail,
                 decoded_inst_semaph, work_regs>>

\* pilot_execute_half1 called again in EXEC_HALF1_MEM_ASSERT.
Half1Assert ==
  /\ execution_phase = "HALF1_MEM_ASSERT"
  /\ MemAssert(Half1Latches(Control), mem_addr, mem_data,
               mem_access_waiting, "HALF1_MEM_ASSERT", "HALF2_READY")
  /\ UNCHANGED <<latches, sequencer, trail, decoded_inst_semaph, work_regs>>

Half1 == Half1Block \/ Half1Operands \/ Half1Assert

\* Mutant: mem_data takes the ALU output unreduced.
Half2Data_Wide(out, src1) ==
  CASE ~ Half2Latches(Control)           -> mem_data
    [] Control.write = "FROM_SRC1"       -> Low16(src1)
    [] Control.write = "FROM_DEST"       -> out
    [] Control.write \in {"READ", "FROM_MDR"} -> mem_data

\* execute_half2_mem_prepare_: what becomes of mem_data, given the ALU
\* output and the second input latch.
Half2Data(out, src1) ==
  CASE ~ Half2Latches(Control)           -> mem_data
    [] Control.write = "FROM_SRC1"       -> Low16(src1)
    [] Control.write = "FROM_DEST"       -> Low16(out)
    [] Control.write \in {"READ", "FROM_MDR"} -> mem_data

\* The stage of the instruction the current word belongs to.
Stage ==
  CASE sequencer_phase = "OVERRIDE_OP"      -> "override"
    [] sequencer_phase = "RUN_BEFORE"       -> "before"
    [] sequencer_phase = "CORE_OP_EXECUTED" -> "core"
    [] OTHER -> IF decoded_inst.override.idx # "NONE" THEN "override"
                                                      ELSE "after"

\* A word is carried out when its second half is left.
Record == trail' = IF execution_phase' = "ADVANCE_SEQUENCER"
                     THEN Append(trail, <<Stage, Control>>) ELSE trail

\* pilot_execute_half2 from EXEC_HALF2_READY.  With ALU_OFF the output
\* latch keeps its value (no flag is ever written, so F_DECIMAL is clear).
Half2Result ==
  /\ execution_phase = "HALF2_READY"
  /\ \E out \in IF Control.op = "OFF" THEN {alu_output_latch} ELSE Addr,
        src1 \in Addr :
       /\ alu_output_latch' = out
       /\ mem_addr' = IF Control.latch = "HALF2" THEN out ELSE mem_addr
       /\ mem_data' = Half2Data(out, src1)
       /\ MemAssert(Half2Latches(Control), mem_addr', mem_data',
                    mem_access_waiting,
                    "HALF2_MEM_ASSERT", "ADVANCE_SEQUENCER")
  /\ Record
  /\ UNCHANGED <<alu_input_latch, sequencer, decoded_inst_semaph, work_regs>>

\* pilot_execute_half2 called again in EXEC_HALF2_MEM_ASSERT.
Half2Assert ==
  /\ execution_phase = "HALF2_MEM_ASSERT"
  /\ MemAssert(Half2Latches(Control), mem_addr, mem_data,
               mem_access_waiting, "HALF2_MEM_ASSERT", "ADVANCE_SEQUENCER")
  /\ Record
  /\ UNCHANGED <<latches, sequencer, decoded_inst_semaph, work_regs>>

Half2 == Half2Result \/ Half2Assert

-----------------------------------------------------------------------------
(***************************************************************************)
(* The sequencer.                                                          *)
(***************************************************************************)

\* Mutant: the entry just presented is tested, not the next one.
RunMucode_TestsCurrent(spec, more, last) ==
  \E entry \in DecodeMucodeEntry(spec) :
    /\ mucode_control' = entry.next
    /\ mucode_decoded_buffer' = entry.word
    /\ sequencer_phase' = IF spec.idx # "NONE" THEN more ELSE last
    /\ control' = IF sequencer_phase' = "CORE_OP_EXECUTED" THEN "core"
                                                           ELSE "buffer"

\* pilot_execute_sequencer_mucode_run: more is the phase kept while the
\* program goes on, last the one that follows its last word.  A last word
\* of run_before is replaced by core_op in the same call.
RunMucode(spec, more, last) ==
  \E entry \in DecodeMucodeEntry(spec) :
    /\ mucode_control' = entry.next
    /\ mucode_decoded_buffer' = entry.word
    /\ sequencer_phase' = IF entry.next.idx # "NONE" THEN more ELSE last
    /\ control' = IF sequencer_phase' = "CORE_OP_EXECUTED" THEN "core"
                                                           ELSE "buffer"

\* EXEC_SEQ_EVAL_CONTROL and what follows it in the same call.
EvalControl(inst) ==
  IF inst.override.idx # "NONE"
    THEN RunMucode(inst.override, "OVERRIDE_OP", "FINAL_STEPS")
  ELSE IF inst.before.idx # "NONE"
    THEN RunMucode(inst.before, "RUN_BEFORE", "CORE_OP_EXECUTED")
  ELSE /\ sequencer_phase' = "CORE_OP_EXECUTED" /\ control' = "core"
       /\ UNCHANGED <<mucode_control, mucode_decoded_buffer>>

\* Mutants: run_after is forgotten; an idle sequencer does not look for an
\* instruction.
InstructionDone_IgnoresAfter ==
  sequencer_phase \in {"WAIT_NEXT_INS", "FINAL_STEPS", "CORE_OP_EXECUTED"}
InstructionDone_NeverIdle ==
  \/ sequencer_phase = "FINAL_STEPS"
  \/ sequencer_phase = "CORE_OP_EXECUTED" /\ decoded_inst.after.idx = "NONE"

\* Nothing of the current instruction is left to run.
InstructionDone ==
  \/ sequencer_phase \in {"WAIT_NEXT_INS", "FINAL_STEPS"}
  \/ sequencer_phase = "CORE_OP_EXECUTED" /\ decoded_inst.after.idx = "NONE"

\* Mutant: the semaphore stays up.
SequencerLatch_KeepsSemaph ==
  /\ InstructionDone /\ decoded_inst_semaph
  /\ decoded_inst' = work_regs
  /\ EvalControl(work_regs)
  /\ trail' = << >>
  /\ UNCHANGED <<decoded_inst_semaph, work_regs>>

SequencerLatch ==
  /\ InstructionDone /\ decoded_inst_semaph
  /\ decoded_inst' = work_regs
  /\ decoded_inst_semaph' = FALSE
  /\ EvalControl(work_regs)
  /\ trail' = << >>
  /\ UNCHANGED work_regs

SequencerAwait ==
  /\ InstructionDone /\ ~ decoded_inst_semaph
  /\ sequencer_phase' = "WAIT_NEXT_INS"
  /\ UNCHANGED <<decoded_inst, mucode_control, mucode_decoded_buffer, control,
                 trail, decoded_inst_semaph, work_regs>>

\* The calls that present the next word of the same instruction.
SequencerContinue ==
  /\ \/ /\ sequencer_phase = "CORE_OP_EXECUTED"
        /\ decoded_inst.after.idx # "NONE"
        /\ RunMucode(decoded_inst.after, "RUN_AFTER", "FINAL_STEPS")
     \/ /\ sequencer_phase = "OVERRIDE_OP"
        /\ RunMucode(mucode_control, "OVERRIDE_OP", "FINAL_STEPS")
     \/ /\ sequencer_phase = "RUN_BEFORE"
        /\ RunMucode(mucode_control, "RUN_BEFORE", "CORE_OP_EXECUTED")
     \/ /\ sequencer_phase = "RUN_AFTER"
        /\ RunMucode(mucode_control, "RUN_AFTER", "FINAL_STEPS")
  /\ UNCHANGED <<decoded_inst, trail, decoded_inst_semaph, work_regs>>

\* pilot_execute_sequencer_advance.
SequencerAdvance == SequencerLatch \/ SequencerAwait \/ SequencerContinue

\* The caller the source lacks: it advances the sequencer when a word has
\* been carried out, and to fetch the first one.
DriverAdvance ==
  /\ \/ execution_phase = "ADVANCE_SEQUENCER"
     \/ execution_phase = "HALF1_READY" /\ sequencer_phase = "WAIT_NEXT_INS"
  /\ SequencerAdvance
  /\ execution_phase' =
       IF sequencer_phase' # "WAIT_NEXT_INS"
         THEN "HALF1_READY" ELSE execution_phase
  /\ UNCHANGED <<latches, waits, memctl>>

ExecuteNext == Half1 \/ Half2 \/ DriverAdvance
-----------------------------------------------------------------------------
(***************************************************************************)
(* Properties.                                                             *)
(***************************************************************************)

\* Every register of the execute stage holds a value of its type, and the
\* history only has control words, each in a stage of an instruction.
ExecuteTypeOK ==
  /\ decoded_inst \in Insts /\ mucode_control \in Specs
  /\ mucode_decoded_buffer \in ControlWords
  /\ control \in {"null", "core", "buffer"}
  /\ alu_input_latch \in Addr \cup Word /\ alu_output_latch \in Addr
  /\ mem_addr \in Addr /\ mem_data \in Word
  /\ mem_access_waiting \in BOOLEAN /\ mem_access_was_read \in BOOLEAN
  /\ execution_phase \in ExecutionPhases
  /\ sequencer_phase \in SequencerPhases
  /\ trail \in Seq(Stages \X ControlWords)

\* The sequencer is in a microcode phase only while the program has words
\* left, so the default of decode_mucode_entry's switch, decode_unreachable_,
\* is never reached from it; and the word the two halves run is the one that
\* belongs to the phase.  It takes RunMucode's answer, the phase and the
\* pointer together to break it.
SequencerHasWord ==
  /\ sequencer_phase \in {"OVERRIDE_OP", "RUN_BEFORE", "RUN_AFTER"}
       => mucode_control.idx # "NONE" /\ control = "buffer"
  /\ sequencer_phase = "CORE_OP_EXECUTED" => control = "core"
  /\ sequencer_phase = "FINAL_STEPS" =>
       /\ control = "buffer"
       /\ decoded_inst.override.idx # "NONE" \/ decoded_inst.after.idx # "NONE"

\* The words a program presents in a stage: for each step the set of words
\* the ROM may answer, from the entries' next fields.
Steps(stage, spec) ==
  CASE spec.idx = "NONE" -> << >>
    [] spec.idx = "IND_REG_POST_AUTO" ->
         << {stage} \X EntryWords(spec), {stage} \X EntryWords(FollowUp(spec)) >>
    [] OTHER -> << {stage} \X EntryWords(spec) >>

\* All words of run_before, and all but the last.
WholeBefore(inst) == Steps("before", inst.before)
ShortBefore(inst) ==
  IF inst.before.idx = "IND_REG_POST_AUTO"
    THEN << {"before"} \X EntryWords(inst.before) >> ELSE << >>

\* The steps of inst, when those of before stand for run_before.
Program(inst, before) ==
  IF inst.override.idx # "NONE"
    THEN Steps("override", inst.override)
    ELSE before \o << {<<"core", inst.core>>} >> \o Steps("after", inst.after)

\* The history is a run of those steps, from the first to the last.
CarriedOut(steps) ==
  Len(trail) = Len(steps) /\ \A i \in DOMAIN trail : trail[i] \in steps[i]

Latches == decoded_inst_semaph /\ ~ decoded_inst_semaph'

RetiresWhole ==
  Latches /\ control # "null" =>
    CarriedOut(Program(decoded_inst, ShortBefore(decoded_inst)))

\* When the sequencer latches an instruction, the words of the one before it
\* have been carried out, exactly these and in this order: those of
\* override_op alone if it has one; otherwise those of run_before but its
\* last, which core_op replaces before it is run, then core_op, then all
\* those of run_after.  Each went through both halves once, whatever waits
\* and early returns happened on the way.
InstructionRetires == [][RetiresWhole]_executeVars

\* run_before "if not MU_NONE, is executed before core_op" (types.h): all of
\* its words are.
BeforeWordsRun ==
  [][ Latches /\ control # "null" =>
        CarriedOut(Program(decoded_inst, WholeBefore(decoded_inst)))
    ]_executeVars

\* While mem_access_waiting is high, "any reads from mem_data will block
\* until this flag goes low" (pilot_execute_state): a word that latched its
\* operands, one of them MEM_DATA, and asserted nothing since, finds the
\* flag low.
OperandNotAwaited ==
  execution_phase = "HALF2_READY" /\ UsesMemData(Control)
    /\ ~ Half1Latches(Control) => ~ mem_access_waiting

\* While the stage holds an access it has asserted and the controller is
\* busy, what the controller holds is that access: its address, its
\* direction and, for a write, its data.  With a single client.
HeldAccessIsOurs ==
  execution_phase \in {"HALF1_MEM_ASSERT", "HALF2_MEM_ASSERT"}
    /\ memctl.state # "READY"
  => /\ memctl.addr_reg = mem_addr
     /\ memctl.state = IF Control.write = "READ" THEN "R_BUSY" ELSE "W_BUSY"
     /\ Control.write # "READ" => memctl.data_reg_out = mem_data

\* "If memory unit is not ready, execution is blocked with address to be
\* latched being held" (types.h, mem_latch_ctl): a call that comes to make
\* the access of its word does not leave the half while the controller is
\* busy, for its access would never be made.
BlocksWhileBusy ==
  [][ memctl.state # "READY" /\ ~ Control.suppress =>
        /\ Half1Latches(Control) /\ Half1Enters
             => execution_phase' # "HALF2_READY"
        /\ Half2Latches(Control) /\ execution_phase = "HALF2_READY"
             => execution_phase' # "ADVANCE_SEQUENCER" ]_executeVars
=============================================================================
