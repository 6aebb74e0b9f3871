--------------------------- MODULE ExecuteProofs ----------------------------
(***************************************************************************)
(* What a step of the execute stage preserves, whatever it is composed     *)
(* with: the types of its registers and the agreement of the sequencer's   *)
(* phase with the word it presents.                                        *)
(***************************************************************************)
EXTENDS Execute, DecodeInstProofs

-----------------------------------------------------------------------------
(***************************************************************************)
(* The memory controller, with any clients: for every set of addresses.    *)
(***************************************************************************)

\* A step of the controller on its own is one of its functions.
LEMMA BusSteps ==
  ASSUME [BusNext]_busVars
  PROVE  BusRead \/ BusWrite \/ MemctlTick \/ UNCHANGED memctl
BY DEF BusNext, BusTick, busVars

\* Every register of the controller keeps its width: the data registers hold
\* what is left of a bus value in 16 bits, whatever clients assert.
THEOREM BusTypeCorrect == BusSpec => []BusTypeOK
<1>. USE DEF BusTypeOK, MemctlType, MctlStates
<1>1. MemctlInit => BusTypeOK
  BY AddrAssumption DEF MemctlInit, Word, Low16
<1>2. BusTypeOK /\ [BusNext]_busVars => BusTypeOK'
  <2>. SUFFICES ASSUME BusTypeOK, [BusNext]_busVars PROVE BusTypeOK'
    OBVIOUS
  <2>1. CASE BusRead
    BY <2>1 DEF BusRead, ReadAssert
  <2>2. CASE BusWrite
    BY <2>2 DEF BusWrite, WriteAssert
  <2>3. CASE MemctlTick
    BY <2>3 DEF MemctlTick
  <2>4. CASE UNCHANGED memctl
    BY <2>4
  <2>. QED BY <2>1, <2>2, <2>3, <2>4, BusSteps
<1>. QED BY <1>1, <1>2, PTL DEF BusSpec, BusInit

\* Nobody replaces an access the controller has accepted: the test of
\* MCTL_READY in the two assert functions arbitrates between any number of
\* clients.
THEOREM AcceptedAccessHeld == BusSpec => AccessHeld
<1>1. ASSUME BusTypeOK, [BusNext]_busVars, memctl.state # "READY"
      PROVE  /\ memctl'.addr_reg = memctl.addr_reg
             /\ memctl'.data_reg_out = memctl.data_reg_out
             /\ memctl'.state \in {memctl.state, "READY"}
  <2>1. CASE BusRead
    BY <1>1, <2>1 DEF BusRead, ReadAssert, Accepts, AssertReturns
  <2>2. CASE BusWrite
    BY <1>1, <2>2 DEF BusWrite, WriteAssert, Accepts, AssertReturns
  <2>3. CASE MemctlTick
    BY <1>1, <2>3 DEF MemctlTick, BusTypeOK, MemctlType
  <2>4. CASE UNCHANGED memctl
    BY <1>1, <2>4
  <2>. QED BY <1>1, <2>1, <2>2, <2>3, <2>4, BusSteps
<1>. QED BY <1>1, BusTypeCorrect, PTL DEF BusSpec, AccessHeld

\* The data latch stays readable until the next answer: only an answered
\* read changes it or raises data_valid.
THEOREM LatchStable == BusSpec => LatchChangesOnlyByAnswer
<1>1. ASSUME BusTypeOK, [BusNext]_busVars,
             memctl'.data_reg_in # memctl.data_reg_in
               \/ (memctl'.data_valid /\ ~ memctl.data_valid)
      PROVE  /\ memctl.state = "R_BUSY" /\ memctl'.state = "READY"
             /\ Answers(memctl.addr_reg)
  <2>1. CASE BusRead
    BY <1>1, <2>1 DEF BusRead, ReadAssert, BusTypeOK, MemctlType
  <2>2. CASE BusWrite
    BY <1>1, <2>2 DEF BusWrite, WriteAssert, BusTypeOK, MemctlType
  <2>3. CASE MemctlTick
    BY <1>1, <2>3 DEF MemctlTick, BusTypeOK, MemctlType
  <2>4. CASE UNCHANGED memctl
    BY <1>1, <2>4
  <2>. QED BY <1>1, <2>1, <2>2, <2>3, <2>4, BusSteps
<1>. QED BY <1>1, BusTypeCorrect, PTL DEF BusSpec, LatchChangesOnlyByAnswer

-----------------------------------------------------------------------------
(***************************************************************************)
(* The microcode ROM.                                                      *)
(***************************************************************************)

\* The register an entry names is in one of the banks.
LEMMA RegOperandType ==
  ASSUME NEW spec \in Specs PROVE RegOperand(spec) \in Locs
<1>1. RegNo(spec) \in 0 .. 7
  BY DEF RegNo, Specs
<1>2. spec.size \in {0, 1, 2}
  BY DEF Specs, Sizes
<1>3. /\ <<"REG_L", RegNo(spec)>> \in Locs
      /\ <<"REG_W", RegNo(spec)>> \in Locs
      /\ <<"REG_P", RegNo(spec)>> \in Locs
  BY <1>1 DEF Locs, LocKinds
<1>. QED BY <1>2, <1>3 DEF RegOperand

\* An entry either reads or writes back mem_data.
LEMMA DirectionType ==
  ASSUME NEW spec PROVE Direction(spec) \in WriteCtls
BY DEF Direction, WriteCtls

\* Whatever locations and memory control an entry is given, it is a control
\* word.
LEMMA EntryWordType ==
  ASSUME NEW src0 \in Locs, NEW src1 \in Locs, NEW write \in WriteCtls
  PROVE  /\ [IdleWord EXCEPT !.src0 = src0, !.src1 = src1, !.write = write]
              \in ControlWords
         /\ \A latch \in LatchCtls :
              [IdleWord EXCEPT !.src0 = src0, !.src1 = src1, !.latch = latch,
                               !.write = write] \in ControlWords
         /\ \A op \in AluOps, latch \in LatchCtls :
              [IdleWord EXCEPT !.src0 = src0, !.src1 = src1, !.op = op,
                               !.latch = latch, !.write = write]
                \in ControlWords
         /\ \A dest \in Locs, op \in AluOps :
              [IdleWord EXCEPT !.src0 = src0, !.src1 = src1, !.dest = dest,
                               !.op = op, !.write = write] \in ControlWords
         /\ \A dest \in Locs, op \in AluOps, latch \in LatchCtls :
              [IdleWord EXCEPT !.src0 = src0, !.src1 = src1, !.dest = dest,
                               !.op = op, !.latch = latch, !.write = write]
                \in ControlWords
<1>1. /\ Loc("ZERO") \in Locs /\ "OFF" \in AluOps
      /\ "NO_LATCH" \in LatchCtls /\ "READ" \in WriteCtls
  BY SomeLocs DEF AluOps, LatchCtls, WriteCtls
<1>. QED BY <1>1 DEF IdleWord, ControlWords

\* The locations the entries assign.
LEMMA EntryLocs ==
  /\ \A kind \in {"ZERO", "SIZE", "IMM_0", "IMM_1", "RM_1", "REG_PGC",
                  "IMM_HML", "IMM_HML_RM", "RM_HML", "REG_IMM_2_8",
                  "REG_RM_2_8", "REG_IMM_1_2", "REG_RM_1_2", "REG_IMM_1_8",
                  "REG_RM_1_8"} : Loc(kind) \in Locs
  /\ UnsetLoc \subseteq Locs
  /\ "ADD" \in AluOps /\ "OFF" \in AluOps
  /\ {"HALF1", "HALF2", "NO_LATCH"} \subseteq LatchCtls
  /\ UnsetWrite = WriteCtls
<1>1. \A kind \in {"ZERO", "SIZE", "IMM_0", "IMM_1", "RM_1", "REG_PGC",
                  "IMM_HML", "IMM_HML_RM", "RM_HML", "REG_IMM_2_8",
                  "REG_RM_2_8", "REG_IMM_1_2", "REG_RM_1_2", "REG_IMM_1_8",
                  "REG_RM_1_8", "MEM_DATA"} : Loc(kind) \in Locs
  BY SimpleLocs DEF LocKinds
<1>2. UnsetLoc \subseteq Locs
  BY <1>1 DEF UnsetLoc, MemData
<1>. QED BY <1>1, <1>2 DEF AluOps, LatchCtls, UnsetWrite

\* One-cycle and two-cycle entries are control words.
LEMMA OneCycleType ==
  ASSUME NEW spec \in Specs, NEW operand \in Locs
  PROVE  OneCycle(spec, operand) \subseteq ControlWords
<1>1. "HALF1" \in LatchCtls /\ "OFF" \in AluOps /\ Loc("ZERO") \in Locs
  BY EntryLocs
<1>2. \A loc \in UnsetLoc :
        [IdleWord EXCEPT !.src0 = operand, !.src1 = loc, !.latch = "HALF1",
                         !.write = Direction(spec)] \in ControlWords
  BY <1>1, EntryLocs, EntryWordType, DirectionType
<1>. QED BY <1>2 DEF OneCycle

\* The words of a two-cycle entry.
LEMMA TwoCycleType ==
  ASSUME NEW operand \in Locs, NEW offset \in Locs,
         NEW writes \in SUBSET WriteCtls
  PROVE  TwoCycle(operand, offset, writes) \subseteq ControlWords
<1>1. "HALF2" \in LatchCtls /\ "ADD" \in AluOps /\ Loc("ZERO") \in Locs
  BY EntryLocs
<1>2. \A w \in writes :
        [IdleWord EXCEPT !.src0 = operand, !.src1 = offset, !.op = "ADD",
                         !.latch = "HALF2", !.write = w] \in ControlWords
  BY <1>1, EntryWordType
<1>. QED BY <1>2 DEF TwoCycle

\* Every word the ROM may present is a control word, including those of the
\* default entry and whatever the unassigned fields hold.
LEMMA EntryWordsType ==
  ASSUME NEW spec \in Specs PROVE EntryWords(spec) \subseteq ControlWords
<1>. DEFINE reg == RegOperand(spec)
            dir == Direction(spec)
<1>1. reg \in Locs /\ dir \in WriteCtls
  BY RegOperandType, DirectionType
<1>. HIDE DEF reg, dir
<1>2. /\ OneCycle(spec, Loc("IMM_1")) \subseteq ControlWords
      /\ OneCycle(spec, Loc("RM_1")) \subseteq ControlWords
      /\ OneCycle(spec, Loc("IMM_0")) \subseteq ControlWords
      /\ OneCycle(spec, reg) \subseteq ControlWords
  BY <1>1, EntryLocs, OneCycleType
<1>3. /\ PerRM(spec, "IMM_1", "RM_1") \in Locs
      /\ PerRM(spec, "IMM_HML_RM", "RM_HML") \in Locs
      /\ PerRM(spec, "REG_IMM_2_8", "REG_RM_2_8") \in Locs
      /\ PerRM(spec, "REG_IMM_1_2", "REG_RM_1_2") \in Locs
      /\ PerRM(spec, "REG_IMM_1_8", "REG_RM_1_8") \in Locs
  BY EntryLocs DEF PerRM
<1>4. /\ \A one, two \in Locs :
           TwoCycle(one, two, UnsetWrite) \subseteq ControlWords
      /\ \A one, two \in Locs : TwoCycle(one, two, {dir}) \subseteq ControlWords
  BY <1>1, EntryLocs, TwoCycleType
<1>5. RegAuto(spec) \in ControlWords
  <2>1. /\ Loc("SIZE") \in Locs /\ "ADD" \in AluOps
        /\ "HALF2" \in LatchCtls
    BY EntryLocs
  <2>2. [IdleWord EXCEPT !.src0 = reg, !.src1 = Loc("SIZE"), !.dest = reg,
                         !.op = "ADD", !.latch = "HALF2", !.write = dir]
          \in ControlWords
    BY <1>1, <2>1, EntryWordType, ZenonT(30)
  <2>3. RegAuto(spec) = [IdleWord EXCEPT !.src0 = reg, !.src1 = Loc("SIZE"),
                                   !.dest = reg, !.op = "ADD",
                                   !.latch = "HALF2", !.write = dir]
    BY Zenon DEF RegAuto, reg, dir
  <2>. QED BY <2>2, <2>3, Zenon
<1>6. AfterAutoidx(spec) \in ControlWords
  BY <1>1, EntryLocs, EntryWordType DEF AfterAutoidx, reg, dir
<1>7. BaseEntry \subseteq ControlWords
  <2>. SUFFICES ASSUME NEW loc0 \in UnsetLoc, NEW loc1 \in UnsetLoc,
                       NEW w \in UnsetWrite
                PROVE  BaseWord(loc0, loc1, w) \in ControlWords
    BY DEF BaseEntry
  <2>1. loc0 \in Locs /\ loc1 \in Locs /\ w \in WriteCtls
    BY EntryLocs
  <2>. QED BY <2>1, EntryWordType DEF BaseWord
<1>8. spec.idx \in MucodeIdx
  BY DEF Specs
<1>9. /\ Loc("REG_PGC") \in Locs /\ Loc("IMM_0") \in Locs
      /\ Loc("IMM_HML") \in Locs
  BY EntryLocs
<1>10. CASE spec.idx \in {"IND_IMM", "IND_IMM_RM", "IND_IMM0", "IND_REG",
                          "IND_REG_POST_AUTO", "IND_REG_AUTO"}
  BY <1>2, <1>5, <1>10 DEF EntryWords, reg
<1>11. CASE spec.idx \in {"IND_REG_WITH_IMM", "IND_IMM_WITH_BITS",
                          "IND_REG_WITH_BITS"}
  BY <1>1, <1>3, <1>4, <1>11 DEF EntryWords, reg, dir
<1>12. CASE spec.idx \in {"IND_PGC_WITH_IMM", "IND_PGC_WITH_IMM_RM",
                          "IND_PGC_WITH_HML", "IND_PGC_WITH_HML_RM"}
  BY <1>3, <1>4, <1>9, <1>12 DEF EntryWords
<1>13. CASE spec.idx \in {"POST_AUTOIDX", "NONE"}
  BY <1>6, <1>7, <1>13 DEF EntryWords
<1>. QED BY <1>8, <1>10, <1>11, <1>12, <1>13 DEF MucodeIdx

\* decode_mucode_entry returns a control word and a specification.
LEMMA MucodeEntryType ==
  ASSUME NEW spec \in Specs PROVE DecodeMucodeEntry(spec) \subseteq Entries
<1>1. FollowUp(spec) \in Specs
  BY DEF FollowUp, Specs, MucodeIdx
<1>. QED BY <1>1, EntryWordsType DEF DecodeMucodeEntry, Entries

-----------------------------------------------------------------------------
(***************************************************************************)
(* The sequencer.  SequencerHasWord is not inductive: that FINAL_STEPS     *)
(* follows a program of the instruction rests on the instruction having    *)
(* the program whose phase precedes it.                                    *)
(***************************************************************************)
SequencerInv ==
  /\ SequencerHasWord
  /\ sequencer_phase = "OVERRIDE_OP" => decoded_inst.override.idx # "NONE"
  /\ sequencer_phase = "RUN_AFTER" => decoded_inst.after.idx # "NONE"
  /\ execution_phase \notin {"HALF1_READY", "ADVANCE_SEQUENCER"}
       => control # "null"

\* What running a word of microcode leaves, if it is taken from one of
\* the phases more and goes on to last.
LEMMA RunMucodeSequencer ==
  ASSUME NEW spec, NEW more, NEW last, RunMucode(spec, more, last)
  PROVE  /\ sequencer_phase' \in {more, last}
         /\ sequencer_phase' = more /\ more # last
              => mucode_control'.idx # "NONE"
         /\ control' = IF sequencer_phase' = "CORE_OP_EXECUTED"
                         THEN "core" ELSE "buffer"
BY Zenon DEF RunMucode

\* The two halves leave the sequencer alone.
LEMMA HalvesKeepSequencer ==
  ASSUME Half1 \/ Half2 PROVE UNCHANGED sequencer
<1>1. CASE Half1
  BY <1>1 DEF Half1, Half1Block, Half1Operands, Half1Assert
<1>2. CASE Half2
  BY <1>2 DEF Half2, Half2Result, Half2Assert
<1>. QED BY <1>1, <1>2

\* A call of a half ends in one of the phases it names, and only runs when
\* there is a word.
LEMMA HalvesHaveWord ==
  ASSUME Half1 \/ Half2
  PROVE  \/ execution_phase \in {"HALF1_READY", "HALF1_MEM_WAIT"}
              /\ control # "null"
         \/ execution_phase \in {"HALF1_MEM_ASSERT", "HALF2_READY",
                                  "HALF2_MEM_ASSERT"}
<1>1. CASE Half1
  BY <1>1 DEF Half1, Half1Block, Half1Operands, Half1Assert, Half1Enters
<1>2. CASE Half2
  BY <1>2 DEF Half2, Half2Result, Half2Assert
<1>. QED BY <1>1, <1>2

\* The first word of an instruction.
LEMMA EvalControlSequencer ==
  ASSUME decoded_inst' = work_regs, EvalControl(work_regs),
         execution_phase' \in {"HALF1_READY", "ADVANCE_SEQUENCER"}
  PROVE  SequencerInv'
<1>1. CASE work_regs.override.idx # "NONE"
  <2>1. RunMucode(work_regs.override, "OVERRIDE_OP", "FINAL_STEPS")
    BY <1>1 DEF EvalControl
  <2>. QED BY <1>1, <2>1, RunMucodeSequencer
           DEF SequencerInv, SequencerHasWord
<1>2. CASE work_regs.override.idx = "NONE" /\ work_regs.before.idx # "NONE"
  <2>1. RunMucode(work_regs.before, "RUN_BEFORE", "CORE_OP_EXECUTED")
    BY <1>2 DEF EvalControl
  <2>. QED BY <1>2, <2>1, RunMucodeSequencer
           DEF SequencerInv, SequencerHasWord
<1>3. CASE work_regs.override.idx = "NONE" /\ work_regs.before.idx = "NONE"
  BY <1>3 DEF EvalControl, SequencerInv, SequencerHasWord
<1>. QED BY <1>1, <1>2, <1>3

\* The further words of an instruction.
LEMMA ContinueSequencer ==
  ASSUME SequencerInv, SequencerContinue,
         execution_phase' \in {"HALF1_READY", "ADVANCE_SEQUENCER"}
  PROVE  SequencerInv'
<1>. decoded_inst' = decoded_inst
  BY DEF SequencerContinue
<1>1. CASE /\ decoded_inst.after.idx # "NONE"
           /\ RunMucode(decoded_inst.after, "RUN_AFTER", "FINAL_STEPS")
  BY <1>1, RunMucodeSequencer DEF SequencerInv, SequencerHasWord
<1>2. CASE /\ sequencer_phase = "OVERRIDE_OP"
           /\ RunMucode(mucode_control, "OVERRIDE_OP", "FINAL_STEPS")
  BY <1>2, RunMucodeSequencer DEF SequencerInv, SequencerHasWord
<1>3. CASE RunMucode(mucode_control, "RUN_BEFORE", "CORE_OP_EXECUTED")
  BY <1>3, RunMucodeSequencer DEF SequencerInv, SequencerHasWord
<1>4. CASE /\ sequencer_phase = "RUN_AFTER"
           /\ RunMucode(mucode_control, "RUN_AFTER", "FINAL_STEPS")
  BY <1>4, RunMucodeSequencer DEF SequencerInv, SequencerHasWord
<1>. QED BY <1>1, <1>2, <1>3, <1>4 DEF SequencerContinue

\* A step of the execute stage keeps the sequencer and its word together.
LEMMA SequencerInvStep ==
  ASSUME SequencerInv, ExecuteNext PROVE SequencerInv'
<1>1. CASE Half1 \/ Half2
  <2>1. UNCHANGED sequencer
    BY <1>1, HalvesKeepSequencer
  <2>2. control # "null"
    BY <1>1, HalvesHaveWord DEF SequencerInv, SequencerHasWord
  <2>. QED BY <2>1, <2>2 DEF SequencerInv, SequencerHasWord, sequencer
<1>2. CASE DriverAdvance
  <2>1. execution_phase' \in {"HALF1_READY", "ADVANCE_SEQUENCER"}
    BY <1>2 DEF DriverAdvance
  <2>2. CASE SequencerLatch
    BY <2>1, <2>2, EvalControlSequencer DEF SequencerLatch
  <2>3. CASE SequencerAwait
    BY <2>1, <2>3 DEF SequencerAwait, SequencerInv, SequencerHasWord
  <2>4. CASE SequencerContinue
    BY <2>1, <2>4, ContinueSequencer
  <2>. QED BY <1>2, <2>2, <2>3, <2>4 DEF DriverAdvance, SequencerAdvance
<1>. QED BY <1>1, <1>2 DEF ExecuteNext

\* A step that leaves the execute stage alone keeps it too.
LEMMA SequencerInvStutter ==
  ASSUME SequencerInv, UNCHANGED executeVars PROVE SequencerInv'
BY DEF SequencerInv, SequencerHasWord, executeVars, sequencer

-----------------------------------------------------------------------------
(***************************************************************************)
(* Types.                                                                  *)
(***************************************************************************)

\* The low 16 bits of a value of the data bus, or of what is left of one,
\* are a word.
LEMMA Low16Type ==
  ASSUME NEW v \in Addr \cup Word PROVE Low16(v) \in Word
<1>1. CASE v \in Addr
  BY <1>1 DEF Word
<1>2. CASE v \in Word
  <2>1. PICK a \in Addr : v = Low16(a)
    BY <1>2 DEF Word
  <2>2. a \in Nat
    BY AddrAssumption
  <2>3. Low16(Low16(a)) = Low16(a)
    BY <2>2 DEF Low16
  <2>. QED BY <2>1, <2>3 DEF Word
<1>. QED BY <1>1, <1>2

\* The word that is run.
LEMMA ControlType ==
  ASSUME ExecuteTypeOK PROVE Control \in ControlWords
BY DEF ExecuteTypeOK, Control, Insts

\* The controller after an access is asserted.
LEMMA AssertType ==
  ASSUME memctl \in MemctlType, NEW addr \in Addr, NEW word \in Word,
         ReadAssert(addr) \/ WriteAssert(addr, word)
  PROVE  memctl' \in MemctlType
BY DEF MemctlType, MctlStates, ReadAssert, WriteAssert

\* What the assert phase of a half leaves.
LEMMA MemAssertType ==
  ASSUME BusTypeOK, ExecuteTypeOK, NEW fires, NEW addr \in Addr,
         NEW word \in Word, NEW waiting \in BOOLEAN,
         NEW stay \in ExecutionPhases, NEW leave \in ExecutionPhases,
         MemAssert(fires, addr, word, waiting, stay, leave)
  PROVE  /\ BusTypeOK'
         /\ execution_phase' \in {stay, leave}
         /\ execution_phase' \in ExecutionPhases
         /\ mem_access_waiting' \in BOOLEAN
         /\ mem_access_was_read' \in BOOLEAN
<1>1. CASE fires /\ ~ Control.suppress
  <2>1. ReadAssert(addr) \/ WriteAssert(addr, word)
    BY <1>1 DEF MemAssert
  <2>2. BusTypeOK'
    BY <2>1, AssertType DEF BusTypeOK
  <2>. QED BY <1>1, <2>2 DEF MemAssert, ExecuteTypeOK
<1>2. CASE ~ (fires /\ ~ Control.suppress)
  BY <1>2 DEF MemAssert, BusTypeOK, ExecuteTypeOK
<1>. QED BY <1>1, <1>2

\* An operand is a value of the data bus or the memory data register.
LEMMA FetchedType ==
  ASSUME NEW loc, NEW data \in Word, NEW v \in Fetched(loc, data)
  PROVE  v \in Addr \cup Word
BY AddrAssumption DEF Fetched

\* A call of the first half.
LEMMA Half1Type ==
  ASSUME BusTypeOK, ExecuteTypeOK, Half1
  PROVE  BusTypeOK' /\ ExecuteTypeOK'
<1>1. CASE Half1Block
  BY <1>1 DEF Half1Block, latches, sequencer, waits, BusTypeOK,
              ExecuteTypeOK, ExecutionPhases
<1>2. CASE Half1Operands
  <2>1. DataAfterWait \in Word
    BY DEF DataAfterWait, GetData, BusTypeOK, MemctlType, ExecuteTypeOK
  <2>2. PICK src0 \in Fetched(Control.src0, DataAfterWait),
             src1 \in Fetched(Control.src1, DataAfterWait) :
          /\ alu_input_latch' = src0
          /\ mem_data' = Half1Data(src1)
          /\ MemAssert(Half1Latches(Control), mem_addr, Half1Data(src1),
                       mem_access_waiting /\ ~ Answered,
                       "HALF1_MEM_ASSERT", "HALF2_READY")
    BY <1>2 DEF Half1Operands
  <2>3. src0 \in Addr \cup Word /\ Low16(src1) \in Word
    BY <2>1, FetchedType, Low16Type
  <2>4. Low16(alu_output_latch) \in Word
    BY Low16Type DEF ExecuteTypeOK
  <2>5. Control.write \in WriteCtls
    BY ControlType DEF ControlWords
  <2>6. Half1Data(src1) \in Word
    BY <2>1, <2>3, <2>4, <2>5 DEF Half1Data, WriteCtls
  <2>7. /\ mem_addr \in Addr
        /\ (mem_access_waiting /\ ~ Answered) \in BOOLEAN
        /\ "HALF1_MEM_ASSERT" \in ExecutionPhases
        /\ "HALF2_READY" \in ExecutionPhases
    BY DEF ExecuteTypeOK, ExecutionPhases, Answered, DataWait, BusTypeOK,
           MemctlType
  <2>8. /\ BusTypeOK' /\ execution_phase' \in ExecutionPhases
        /\ mem_access_waiting' \in BOOLEAN
        /\ mem_access_was_read' \in BOOLEAN
    BY <2>2, <2>6, <2>7, MemAssertType
  <2>. QED BY <1>2, <2>2, <2>3, <2>6, <2>8
           DEF Half1Operands, sequencer, ExecuteTypeOK
<1>3. CASE Half1Assert
  <2>1. /\ mem_addr \in Addr /\ mem_data \in Word
        /\ mem_access_waiting \in BOOLEAN
        /\ "HALF1_MEM_ASSERT" \in ExecutionPhases
        /\ "HALF2_READY" \in ExecutionPhases
    BY DEF ExecuteTypeOK, ExecutionPhases
  <2>2. /\ BusTypeOK' /\ execution_phase' \in ExecutionPhases
        /\ mem_access_waiting' \in BOOLEAN
        /\ mem_access_was_read' \in BOOLEAN
    BY <1>3, <2>1, MemAssertType DEF Half1Assert
  <2>. QED BY <1>3, <2>2
           DEF Half1Assert, latches, sequencer, ExecuteTypeOK
<1>. QED BY <1>1, <1>2, <1>3 DEF Half1

\* The history gains a word when it has been carried out.
LEMMA RecordType ==
  ASSUME ExecuteTypeOK, Record PROVE trail' \in Seq(Stages \X ControlWords)
<1>1. Stage \in Stages /\ Control \in ControlWords
  BY ControlType DEF Stage, Stages
<1>2. <<Stage, Control>> \in Stages \X ControlWords
  BY <1>1
<1>. DEFINE Steps1 == Stages \X ControlWords
<1>3. trail \in Seq(Steps1) /\ <<Stage, Control>> \in Steps1
  BY <1>2 DEF ExecuteTypeOK
<1>. HIDE DEF Steps1
<1>4. trail' \in Seq(Steps1)
  BY <1>3 DEF Record
<1>. QED BY <1>4 DEF Steps1

\* A call of the second half.
LEMMA Half2Type ==
  ASSUME BusTypeOK, ExecuteTypeOK, Half2
  PROVE  BusTypeOK' /\ ExecuteTypeOK'
<1>1. /\ mem_addr \in Addr /\ mem_data \in Word
      /\ alu_output_latch \in Addr
      /\ mem_access_waiting \in BOOLEAN
      /\ "HALF2_MEM_ASSERT" \in ExecutionPhases
      /\ "ADVANCE_SEQUENCER" \in ExecutionPhases
  BY DEF ExecuteTypeOK, ExecutionPhases
<1>2. CASE Half2Result
  <2>1. PICK out \in IF Control.op = "OFF" THEN {alu_output_latch} ELSE Addr,
             src1 \in Addr :
          /\ alu_output_latch' = out
          /\ mem_addr' = IF Control.latch = "HALF2" THEN out ELSE mem_addr
          /\ mem_data' = Half2Data(out, src1)
          /\ MemAssert(Half2Latches(Control), mem_addr', mem_data',
                       mem_access_waiting,
                       "HALF2_MEM_ASSERT", "ADVANCE_SEQUENCER")
    BY <1>2 DEF Half2Result
  <2>2. out \in Addr
    BY <1>1
  <2>3. Low16(out) \in Word /\ Low16(src1) \in Word
    BY <2>2, Low16Type
  <2>4. Control.write \in WriteCtls
    BY ControlType DEF ControlWords
  <2>5. mem_data' \in Word
    BY <1>1, <2>1, <2>3, <2>4 DEF Half2Data, WriteCtls
  <2>6. mem_addr' \in Addr
    BY <1>1, <2>1, <2>2
  <2>7. /\ BusTypeOK' /\ execution_phase' \in ExecutionPhases
        /\ mem_access_waiting' \in BOOLEAN
        /\ mem_access_was_read' \in BOOLEAN
    BY <1>1, <2>1, <2>5, <2>6, MemAssertType
  <2>8. trail' \in Seq(Stages \X ControlWords)
    BY <1>1, <1>2, RecordType DEF Half2Result
  <2>. QED BY <1>2, <2>1, <2>2, <2>5, <2>6, <2>7, <2>8
           DEF Half2Result, sequencer, ExecuteTypeOK
<1>3. CASE Half2Assert
  <2>1. /\ BusTypeOK' /\ execution_phase' \in ExecutionPhases
        /\ mem_access_waiting' \in BOOLEAN
        /\ mem_access_was_read' \in BOOLEAN
    BY <1>1, <1>3, MemAssertType DEF Half2Assert
  <2>2. trail' \in Seq(Stages \X ControlWords)
    BY <1>1, <1>3, RecordType DEF Half2Assert
  <2>. QED BY <1>3, <2>1, <2>2
           DEF Half2Assert, latches, sequencer, ExecuteTypeOK
<1>. QED BY <1>2, <1>3 DEF Half2

\* A word of microcode, its successor, and the phase it belongs to.
LEMMA RunMucodeType ==
  ASSUME NEW spec \in Specs, NEW more \in SequencerPhases,
         NEW last \in SequencerPhases, RunMucode(spec, more, last)
  PROVE  /\ mucode_control' \in Specs
         /\ mucode_decoded_buffer' \in ControlWords
         /\ control' \in {"null", "core", "buffer"}
         /\ sequencer_phase' \in SequencerPhases
<1>1. PICK entry \in DecodeMucodeEntry(spec) :
        /\ mucode_control' = entry.next
        /\ mucode_decoded_buffer' = entry.word
  BY Zenon DEF RunMucode
<1>2. entry \in Entries
  BY MucodeEntryType
<1>3. entry.word \in ControlWords /\ entry.next \in Specs
  BY <1>2 DEF Entries
<1>. QED BY <1>1, <1>3, RunMucodeSequencer

\* A call of the sequencer.
LEMMA DriverAdvanceType ==
  ASSUME BusTypeOK, ExecuteTypeOK, work_regs \in Insts, DriverAdvance
  PROVE  BusTypeOK' /\ ExecuteTypeOK'
<1>1. {"WAIT_NEXT_INS", "OVERRIDE_OP", "RUN_BEFORE", "CORE_OP_EXECUTED",
       "RUN_AFTER", "FINAL_STEPS"} \subseteq SequencerPhases
  BY DEF SequencerPhases
<1>2. /\ work_regs.override \in Specs /\ work_regs.before \in Specs
      /\ decoded_inst.after \in Specs /\ mucode_control \in Specs
  BY DEF Insts, ExecuteTypeOK
<1>3. ASSUME SequencerLatch
      PROVE  /\ decoded_inst' \in Insts /\ trail' \in Seq(Stages \X ControlWords)
             /\ mucode_control' \in Specs
             /\ mucode_decoded_buffer' \in ControlWords
             /\ control' \in {"null", "core", "buffer"}
             /\ sequencer_phase' \in SequencerPhases
  <2>1. CASE work_regs.override.idx # "NONE"
    <3>1. RunMucode(work_regs.override, "OVERRIDE_OP", "FINAL_STEPS")
      BY <1>3, <2>1 DEF SequencerLatch, EvalControl
    <3>. QED BY <1>1, <1>2, <1>3, <3>1, RunMucodeType DEF SequencerLatch
  <2>2. CASE /\ work_regs.override.idx = "NONE"
             /\ work_regs.before.idx # "NONE"
    <3>1. RunMucode(work_regs.before, "RUN_BEFORE", "CORE_OP_EXECUTED")
      BY <1>3, <2>2 DEF SequencerLatch, EvalControl
    <3>. QED BY <1>1, <1>2, <1>3, <3>1, RunMucodeType DEF SequencerLatch
  <2>3. CASE /\ work_regs.override.idx = "NONE"
             /\ work_regs.before.idx = "NONE"
    BY <1>1, <1>3, <2>3 DEF SequencerLatch, EvalControl, ExecuteTypeOK
  <2>. QED BY <2>1, <2>2, <2>3
<1>4. ASSUME SequencerContinue
      PROVE  /\ decoded_inst' \in Insts /\ trail' \in Seq(Stages \X ControlWords)
             /\ mucode_control' \in Specs
             /\ mucode_decoded_buffer' \in ControlWords
             /\ control' \in {"null", "core", "buffer"}
             /\ sequencer_phase' \in SequencerPhases
  <2>1. decoded_inst' \in Insts /\ trail' \in Seq(Stages \X ControlWords)
    BY <1>4 DEF SequencerContinue, ExecuteTypeOK
  <2>2. PICK spec \in {decoded_inst.after, mucode_control},
             more \in {"OVERRIDE_OP", "RUN_BEFORE", "RUN_AFTER"},
             last \in {"FINAL_STEPS", "CORE_OP_EXECUTED"} :
          RunMucode(spec, more, last)
    BY <1>4 DEF SequencerContinue
  <2>. QED BY <1>1, <1>2, <2>1, <2>2, RunMucodeType
<1>5. ASSUME SequencerAwait
      PROVE  /\ decoded_inst' \in Insts /\ trail' \in Seq(Stages \X ControlWords)
             /\ mucode_control' \in Specs
             /\ mucode_decoded_buffer' \in ControlWords
             /\ control' \in {"null", "core", "buffer"}
             /\ sequencer_phase' \in SequencerPhases
  BY <1>1, <1>5 DEF SequencerAwait, ExecuteTypeOK
<1>6. /\ UNCHANGED <<latches, waits, memctl>>
      /\ execution_phase' \in ExecutionPhases
  BY DEF DriverAdvance, ExecuteTypeOK, ExecutionPhases
<1>7. SequencerLatch \/ SequencerAwait \/ SequencerContinue
  BY DEF DriverAdvance, SequencerAdvance
<1>. QED BY <1>3, <1>4, <1>5, <1>6, <1>7
         DEF latches, waits, BusTypeOK, ExecuteTypeOK

\* A step of the execute stage keeps its registers and the controller's.
LEMMA ExecuteTypeStep ==
  ASSUME BusTypeOK, ExecuteTypeOK, work_regs \in Insts, ExecuteNext
  PROVE  BusTypeOK' /\ ExecuteTypeOK'
BY Half1Type, Half2Type, DriverAdvanceType DEF ExecuteNext

\* A zero-initialised instruction is one.
LEMMA ZeroInstType == ZeroInst \in Insts
<1>1. NoSpec \in Specs
  BY DEF NoSpec, Specs, MucodeIdx, Sizes
<1>2. IdleWord \in ControlWords
  <2>1. /\ "OFF" \in AluOps /\ "NO_LATCH" \in LatchCtls
        /\ "READ" \in WriteCtls
    BY DEF AluOps, LatchCtls, WriteCtls
  <2>. QED BY <2>1, SomeLocs DEF IdleWord, ControlWords
<1>3. 0 \in Opcode
  BY DEF Opcode
<1>. QED BY <1>1, <1>2, <1>3 DEF ZeroInst, Insts

\* A zero-initialised execute stage and controller hold values of their types.
LEMMA ExecuteInitType ==
  ASSUME ExecuteInit, MemctlInit PROVE BusTypeOK /\ ExecuteTypeOK
<1>1. 0 \in Addr /\ Low16(0) = 0
  BY AddrAssumption DEF Low16
<1>2. 0 \in Word
  BY <1>1 DEF Word
<1>3. ZeroInst \in Insts /\ NoSpec \in Specs /\ IdleWord \in ControlWords
  <2>1. ZeroInst.override \in Specs /\ ZeroInst.core \in ControlWords
    BY ZeroInstType DEF Insts
  <2>2. ZeroInst.override = NoSpec /\ ZeroInst.core = IdleWord
    BY DEF ZeroInst
  <2>. QED BY <2>1, <2>2, ZeroInstType
<1>4. << >> \in Seq(Stages \X ControlWords)
  OBVIOUS
<1>5. BusTypeOK
  BY <1>1, <1>2 DEF MemctlInit, BusTypeOK, MemctlType, MctlStates
<1>. QED BY <1>1, <1>2, <1>3, <1>4, <1>5
         DEF ExecuteInit, ExecuteTypeOK, ExecutionPhases, SequencerPhases

\* Neither the tick nor another client's access disturbs them.
LEMMA ExecuteTypeOthers ==
  ASSUME BusTypeOK, ExecuteTypeOK, UNCHANGED executeVars,
         MemctlTick \/ BusRead \/ BusWrite \/ UNCHANGED memctl
  PROVE  BusTypeOK' /\ ExecuteTypeOK'
<1>1. ExecuteTypeOK'
  BY DEF executeVars, latches, sequencer, waits, ExecuteTypeOK
<1>2. CASE MemctlTick
  BY <1>1, <1>2 DEF MemctlTick, BusTypeOK, MemctlType, MctlStates
<1>3. CASE BusRead \/ BusWrite
  <2>1. CASE BusRead
    BY <1>1, <2>1, AssertType DEF BusRead, BusTypeOK, Word
  <2>2. CASE BusWrite
    BY <1>1, <2>2, AssertType DEF BusWrite, BusTypeOK
  <2>. QED BY <1>3, <2>1, <2>2
<1>4. CASE UNCHANGED memctl
  BY <1>1, <1>4 DEF BusTypeOK
<1>. QED BY <1>2, <1>3, <1>4

-----------------------------------------------------------------------------
(***************************************************************************)
(* Accesses.  OperandNotAwaited is inductive once it is known that a first *)
(* half waits in HALF1_MEM_ASSERT for an access of its own word: otherwise *)
(* a word that asserts nothing could leave that phase with                 *)
(* mem_access_waiting up.                                                  *)
(***************************************************************************)
AccessInv ==
  /\ execution_phase = "HALF1_MEM_ASSERT" => Half1Latches(Control)
  /\ OperandNotAwaited

\* The word a half runs stays while it runs it.
LEMMA ControlKept ==
  ASSUME UNCHANGED sequencer PROVE Control' = Control
BY DEF sequencer, Control

\* A half that stays in its assert phase has just had its access accepted;
\* one that leaves it without an access leaves mem_access_waiting alone.
LEMMA MemAssertLeaves ==
  ASSUME NEW fires, NEW addr, NEW word, NEW waiting, NEW stay, NEW leave,
         MemAssert(fires, addr, word, waiting, stay, leave)
  PROVE  /\ execution_phase' \in {stay, leave}
         /\ execution_phase' # leave => fires
         /\ ~ fires => mem_access_waiting' = waiting
<1>1. CASE fires /\ ~ Control.suppress
  BY <1>1 DEF MemAssert
<1>2. CASE ~ (fires /\ ~ Control.suppress)
  BY <1>2 DEF MemAssert
<1>. QED BY <1>1, <1>2

\* A step of the execute stage keeps the invariant.
LEMMA AccessInvStep ==
  ASSUME AccessInv, ExecuteNext PROVE AccessInv'
<1>1. CASE Half1Block
  BY <1>1, ControlKept
     DEF Half1Block, sequencer, AccessInv, OperandNotAwaited
<1>2. CASE Half1Operands
  <2>1. PICK word :
          MemAssert(Half1Latches(Control), mem_addr, word,
                    mem_access_waiting /\ ~ Answered,
                    "HALF1_MEM_ASSERT", "HALF2_READY")
    BY <1>2 DEF Half1Operands
  <2>2. /\ execution_phase' \in {"HALF1_MEM_ASSERT", "HALF2_READY"}
        /\ execution_phase' # "HALF2_READY" => Half1Latches(Control)
        /\ ~ Half1Latches(Control)
             => mem_access_waiting' = (mem_access_waiting /\ ~ Answered)
    BY <2>1, MemAssertLeaves
  <2>3. UsesMemData(Control) => ~ (mem_access_waiting /\ ~ Answered)
    BY <1>2 DEF Half1Operands, Blocked, Answered
  <2>4. Control' = Control
    BY <1>2, ControlKept DEF Half1Operands
  <2>5. /\ Half1Latches(Control)' = Half1Latches(Control)
        /\ UsesMemData(Control)' = UsesMemData(Control)
    BY <2>4 DEF Half1Latches, UsesMemData
  <2>. QED BY <2>2, <2>3, <2>5 DEF AccessInv, OperandNotAwaited
<1>3. CASE Half1Assert
  <2>1. Half1Latches(Control)
    BY <1>3 DEF Half1Assert, AccessInv
  <2>2. Control' = Control
    BY <1>3, ControlKept DEF Half1Assert
  <2>3. Half1Latches(Control)'
    BY <2>1, <2>2 DEF Half1Latches
  <2>. QED BY <2>3 DEF AccessInv, OperandNotAwaited
<1>4. CASE Half2
  <2>1. execution_phase' \in {"HALF2_MEM_ASSERT", "ADVANCE_SEQUENCER"}
    BY <1>4, MemAssertLeaves DEF Half2, Half2Result, Half2Assert
  <2>. QED BY <2>1 DEF AccessInv, OperandNotAwaited
<1>5. CASE DriverAdvance
  <2>1. execution_phase' \in {"HALF1_READY", "ADVANCE_SEQUENCER"}
    BY <1>5 DEF DriverAdvance
  <2>. QED BY <2>1 DEF AccessInv, OperandNotAwaited
<1>. QED BY <1>1, <1>2, <1>3, <1>4, <1>5 DEF ExecuteNext, Half1

\* So does a step that leaves the execute stage alone.
LEMMA AccessInvStutter ==
  ASSUME AccessInv, UNCHANGED executeVars PROVE AccessInv'
<1>1. Control' = Control
  BY ControlKept DEF executeVars
<1>2. UNCHANGED <<execution_phase, mem_access_waiting>>
  BY DEF executeVars, waits
<1>3. /\ Half1Latches(Control)' = Half1Latches(Control)
      /\ UsesMemData(Control)' = UsesMemData(Control)
  BY <1>1 DEF Half1Latches, UsesMemData
<1>. QED BY <1>2, <1>3 DEF AccessInv, OperandNotAwaited

\* The access a half waits with in its assert phase is the one it asserted.
LEMMA MemAssertHolds ==
  ASSUME memctl \in MemctlType, NEW fires, NEW addr, NEW word, NEW waiting,
         NEW stay, NEW leave, stay # leave,
         MemAssert(fires, addr, word, waiting, stay, leave),
         execution_phase' = stay
  PROVE  /\ memctl'.addr_reg = addr
         /\ memctl'.state =
               IF Control.write = "READ" THEN "R_BUSY" ELSE "W_BUSY"
         /\ Control.write # "READ" => memctl'.data_reg_out = word
<1>1. /\ Accepts
      /\ IF Control.write = "READ" THEN ReadAssert(addr)
                                   ELSE WriteAssert(addr, word)
  <2>1. CASE fires /\ ~ Control.suppress
    BY <2>1 DEF MemAssert
  <2>2. CASE ~ (fires /\ ~ Control.suppress)
    BY <2>2 DEF MemAssert
  <2>. QED BY <2>1, <2>2
<1>2. CASE Control.write = "READ"
  BY <1>1, <1>2 DEF ReadAssert, MemctlType
<1>3. CASE Control.write # "READ"
  BY <1>1, <1>3 DEF WriteAssert, MemctlType
<1>. QED BY <1>2, <1>3

\* A step of the execute stage keeps the access the controller holds the
\* one the stage waits with.
LEMMA HeldAccessStep ==
  ASSUME memctl \in MemctlType, HeldAccessIsOurs, ExecuteNext
  PROVE  HeldAccessIsOurs'
<1>1. CASE Half1Block
  BY <1>1 DEF Half1Block, HeldAccessIsOurs
<1>2. CASE Half1Operands
  <2>1. MemAssert(Half1Latches(Control), mem_addr, mem_data',
                  mem_access_waiting /\ ~ Answered,
                  "HALF1_MEM_ASSERT", "HALF2_READY")
    BY <1>2 DEF Half1Operands
  <2>2. Control' = Control /\ mem_addr' = mem_addr
    BY <1>2, ControlKept DEF Half1Operands
  <2>3. execution_phase' \in {"HALF1_MEM_ASSERT", "HALF2_READY"}
    BY <2>1, MemAssertLeaves
  <2>. QED BY <2>1, <2>2, <2>3, MemAssertHolds DEF HeldAccessIsOurs
<1>3. CASE Half1Assert
  <2>1. MemAssert(Half1Latches(Control), mem_addr, mem_data,
                  mem_access_waiting, "HALF1_MEM_ASSERT", "HALF2_READY")
    BY <1>3 DEF Half1Assert
  <2>2. /\ Control' = Control
        /\ mem_addr' = mem_addr /\ mem_data' = mem_data
    BY <1>3, ControlKept DEF Half1Assert, latches
  <2>3. execution_phase' \in {"HALF1_MEM_ASSERT", "HALF2_READY"}
    BY <2>1, MemAssertLeaves
  <2>. QED BY <2>1, <2>2, <2>3, MemAssertHolds DEF HeldAccessIsOurs
<1>4. CASE Half2
  <2>1. MemAssert(Half2Latches(Control), mem_addr', mem_data',
                  mem_access_waiting,
                  "HALF2_MEM_ASSERT", "ADVANCE_SEQUENCER")
    BY <1>4 DEF Half2, Half2Result, Half2Assert, latches
  <2>2. Control' = Control
    BY <1>4, HalvesKeepSequencer, ControlKept
  <2>3. execution_phase' \in {"HALF2_MEM_ASSERT", "ADVANCE_SEQUENCER"}
    BY <2>1, MemAssertLeaves
  <2>. QED BY <2>1, <2>2, <2>3, MemAssertHolds DEF HeldAccessIsOurs
<1>5. CASE DriverAdvance
  <2>1. execution_phase' \in {"HALF1_READY", "ADVANCE_SEQUENCER"}
    BY <1>5 DEF DriverAdvance
  <2>. QED BY <2>1 DEF HeldAccessIsOurs
<1>. QED BY <1>1, <1>2, <1>3, <1>4, <1>5 DEF ExecuteNext, Half1

\* The tick of the controller completes that access or leaves it.
LEMMA HeldAccessTick ==
  ASSUME memctl \in MemctlType, HeldAccessIsOurs,
         MemctlTick \/ UNCHANGED memctl, UNCHANGED executeVars
  PROVE  HeldAccessIsOurs'
<1>1. Control' = Control
  BY ControlKept DEF executeVars
<1>2. \/ memctl'.state = "READY"
      \/ /\ memctl'.state = memctl.state
         /\ memctl'.addr_reg = memctl.addr_reg
         /\ memctl'.data_reg_out = memctl.data_reg_out
  BY DEF MemctlTick, MemctlType
<1>3. UNCHANGED <<execution_phase, mem_addr, mem_data>>
  BY DEF executeVars, latches
<1>. QED BY <1>1, <1>2, <1>3 DEF HeldAccessIsOurs
=============================================================================
