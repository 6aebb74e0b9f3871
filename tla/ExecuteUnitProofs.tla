------------------------- MODULE ExecuteUnitProofs --------------------------
(***************************************************************************)
(* Theorems about the execute stage, for every set of instructions it may  *)
(* be given, every set of values and any accesses of other clients.        *)
(***************************************************************************)
EXTENDS ExecuteUnit, ExecuteProofs, SequenceTheorems

\* A step does what one of the parts does; a call that ends the process
\* changes nothing else.
LEMMA Moves == ASSUME [Next]_vars PROVE [Step]_machine
BY DEF Next, vars

\* Every step is one of the execute stage or leaves it alone.
LEMMA UnitSteps ==
  ASSUME [Next]_vars
  PROVE  \/ ExecuteNext
         \/ /\ UNCHANGED executeVars
            /\ MemctlTick \/ BusRead \/ BusWrite \/ UNCHANGED memctl
BY Moves DEF Step, OfferInst, OtherClient, Tick, machine

\* What is offered to the stage is an instruction throughout.
WorkRegsOK == work_regs \in Insts
LEMMA WorkRegsType == Spec => []WorkRegsOK
<1>1. Init => WorkRegsOK
  BY ZeroInstType DEF Init, InterconnectInit, WorkRegsOK
<1>2. WorkRegsOK /\ [Next]_vars => WorkRegsOK'
  <2>. SUFFICES ASSUME work_regs \in Insts, [Step]_machine
                PROVE  work_regs' \in Insts
    BY Moves DEF WorkRegsOK
  <2>1. CASE ExecuteNext
    BY <2>1 DEF ExecuteNext, Half1, Half1Block, Half1Operands, Half1Assert,
                Half2, Half2Result, Half2Assert, DriverAdvance,
                SequencerAdvance, SequencerLatch, SequencerAwait,
                SequencerContinue
  <2>2. CASE OfferInst
    <3>1. work_regs' \in Offered
      BY <2>2 DEF OfferInst
    <3>. QED BY <3>1, OfferedAssumption
  <2>3. CASE OtherClient \/ Tick \/ UNCHANGED machine
    BY <2>3 DEF OtherClient, Tick, machine, interconnects
  <2>. QED BY <2>1, <2>2, <2>3 DEF Step
<1>. QED BY <1>1, <1>2, PTL DEF Spec

\* Every register of the execute stage keeps a value of its type: the
\* microcode words whose fields nobody assigned, and the 16 bits that are
\* left of a value in mem_data, included.
THEOREM UnitTypeCorrect == Spec => []ExecuteTypeOK
<1>. DEFINE Inv == BusTypeOK /\ ExecuteTypeOK
<1>1. Init => Inv
  BY ExecuteInitType DEF Init
<1>2. WorkRegsOK /\ Inv /\ [Next]_vars => Inv'
  BY UnitSteps, ExecuteTypeStep, ExecuteTypeOthers DEF WorkRegsOK
<1>3. Inv => ExecuteTypeOK
  OBVIOUS
<1>. HIDE DEF Inv
<1>. QED BY <1>1, <1>2, <1>3, WorkRegsType, PTL DEF Spec

\* The sequencer is in a microcode phase only while the program has words
\* left, so it never asks the ROM for the entry it does not have, and the
\* word it presents is the one of its phase.
THEOREM SequencerInPhase == Spec => []SequencerHasWord
<1>1. Init => SequencerInv
  BY DEF Init, ExecuteInit, SequencerInv, SequencerHasWord
<1>2. SequencerInv /\ [Next]_vars => SequencerInv'
  BY UnitSteps, SequencerInvStep, SequencerInvStutter
<1>3. SequencerInv => SequencerHasWord
  BY DEF SequencerInv
<1>. QED BY <1>1, <1>2, <1>3, PTL DEF Spec

\* No word latches MEM_DATA while the answer it should come from is awaited,
\* whichever of its operands that is and whoever else uses the bus.
THEOREM OperandsAwaited == Spec => []OperandNotAwaited
<1>1. Init => AccessInv
  BY DEF Init, ExecuteInit, AccessInv, OperandNotAwaited
<1>2. AccessInv /\ [Next]_vars => AccessInv'
  BY UnitSteps, AccessInvStep, AccessInvStutter
<1>3. AccessInv => OperandNotAwaited
  BY DEF AccessInv
<1>. QED BY <1>1, <1>2, <1>3, PTL DEF Spec
-----------------------------------------------------------------------------
(***************************************************************************)
(* Programs.  A program of an instruction that is not overridden is the    *)
(* steps of run_before but the last, core_op and the steps of run_after.   *)
(***************************************************************************)

\* A sequence made of a first part, one element and a last part.
LEMMA Around ==
  ASSUME NEW S, NEW p \in Seq(S), NEW c \in S, NEW q \in Seq(S),
         NEW whole, whole = p \o << c >> \o q
  PROVE  /\ Len(whole) = Len(p) + 1 + Len(q)
         /\ \A i \in 1 .. Len(p) : whole[i] = p[i]
         /\ whole[Len(p) + 1] = c
         /\ \A i \in 1 .. Len(q) : whole[Len(p) + 1 + i] = q[i]
<1>1. << c >> \in Seq(S) /\ Len(<< c >>) = 1 /\ << c >>[1] = c
  OBVIOUS
<1>. DEFINE pc == p \o << c >>
<1>2. /\ pc \in Seq(S) /\ Len(pc) = Len(p) + 1
      /\ \A i \in 1 .. Len(p) : pc[i] = p[i]
      /\ pc[Len(p) + 1] = c
  BY <1>1, ConcatProperties
<1>. HIDE DEF pc
<1>3. /\ Len(pc \o q) = Len(pc) + Len(q)
      /\ \A i \in 1 .. Len(pc) : (pc \o q)[i] = pc[i]
      /\ \A i \in 1 .. Len(q) : (pc \o q)[Len(pc) + i] = q[i]
  <2>1. /\ Len(pc \o q) = Len(pc) + Len(q)
        /\ \A i \in 1 .. Len(pc) + Len(q) :
             (pc \o q)[i] = IF i <= Len(pc) THEN pc[i] ELSE q[i - Len(pc)]
    BY <1>2, ConcatProperties
  <2>2. Len(pc) \in Nat /\ Len(q) \in Nat
    BY <1>2
  <2>3. ASSUME NEW i \in 1 .. Len(q) PROVE (pc \o q)[Len(pc) + i] = q[i]
    <3>1. /\ Len(pc) + i \in 1 .. Len(pc) + Len(q)
          /\ ~ (Len(pc) + i <= Len(pc)) /\ (Len(pc) + i) - Len(pc) = i
      BY <2>2
    <3>. QED BY <2>1, <3>1
  <2>4. ASSUME NEW i \in 1 .. Len(pc) PROVE (pc \o q)[i] = pc[i]
    BY <2>1, <2>2
  <2>. QED BY <2>1, <2>3, <2>4
<1>4. Len(p) \in Nat /\ Len(q) \in Nat
  OBVIOUS
<1>5. Len(p) + 1 \in 1 .. Len(pc) /\ \A i \in 1 .. Len(p) : i \in 1 .. Len(pc)
  BY <1>2, <1>4
<1>6. /\ Len(pc \o q) = Len(p) + 1 + Len(q)
      /\ \A i \in 1 .. Len(p) : (pc \o q)[i] = p[i]
      /\ (pc \o q)[Len(p) + 1] = c
      /\ \A i \in 1 .. Len(q) : (pc \o q)[Len(p) + 1 + i] = q[i]
  BY <1>2, <1>3, <1>4, <1>5
<1>. QED BY <1>6 DEF pc

\* The words one entry may present in a stage.
Presents(stage, spec) == {stage} \X EntryWords(spec)
Whole(inst) == Program(inst, ShortBefore(inst))
BeforeLen(inst) == IF inst.before.idx = "IND_REG_POST_AUTO" THEN 1 ELSE 0

\* The steps of an overridden instruction.
LEMMA OverrideSteps ==
  ASSUME NEW inst, inst.override.idx # "NONE"
  PROVE  /\ Whole(inst)[1] = Presents("override", inst.override)
         /\ inst.override.idx # "IND_REG_POST_AUTO" => Len(Whole(inst)) = 1
         /\ inst.override.idx = "IND_REG_POST_AUTO" =>
              /\ Len(Whole(inst)) = 2
              /\ Whole(inst)[2]
                   = Presents("override", FollowUp(inst.override))
BY DEF Whole, Program, Steps, Presents

\* The steps of one that is not.
LEMMA PlainSteps ==
  ASSUME NEW inst, inst.override.idx = "NONE"
  PROVE  /\ BeforeLen(inst) = 1 =>
              Whole(inst)[1] = Presents("before", inst.before)
         /\ Whole(inst)[BeforeLen(inst) + 1] = {<<"core", inst.core>>}
         /\ inst.after.idx = "NONE" => Len(Whole(inst)) = BeforeLen(inst) + 1
         /\ inst.after.idx # "NONE" =>
              Whole(inst)[BeforeLen(inst) + 2] = Presents("after", inst.after)
         /\ inst.after.idx \notin {"NONE", "IND_REG_POST_AUTO"} =>
              Len(Whole(inst)) = BeforeLen(inst) + 2
         /\ inst.after.idx = "IND_REG_POST_AUTO" =>
              /\ Len(Whole(inst)) = BeforeLen(inst) + 3
              /\ Whole(inst)[BeforeLen(inst) + 3]
                   = Presents("after", FollowUp(inst.after))
<1>. DEFINE first == ShortBefore(inst)
            last == Steps("after", inst.after)
            core == {<<"core", inst.core>>}
            one == Presents("before", inst.before)
            two == Presents("after", inst.after)
            three == Presents("after", FollowUp(inst.after))
            S == {core, one, two, three}
<1>1. Whole(inst) = first \o << core >> \o last
  BY DEF Whole, Program
<1>2. first = IF inst.before.idx = "IND_REG_POST_AUTO"
                THEN << one >> ELSE << >>
  BY DEF ShortBefore, Presents
<1>3. last = IF inst.after.idx = "NONE" THEN << >>
             ELSE IF inst.after.idx = "IND_REG_POST_AUTO"
               THEN << two, three >> ELSE << two >>
  BY DEF Steps, Presents
<1>4. core \in S /\ one \in S /\ two \in S /\ three \in S
  OBVIOUS
<1>. HIDE DEF first, last, core, one, two, three, S
<1>5. /\ first \in Seq(S) /\ Len(first) = BeforeLen(inst)
      /\ BeforeLen(inst) = 1 => first[1] = one
      /\ BeforeLen(inst) \in {0, 1}
  BY <1>2, <1>4 DEF BeforeLen
<1>6. /\ last \in Seq(S)
      /\ inst.after.idx = "NONE" => Len(last) = 0
      /\ inst.after.idx # "NONE" => last[1] = two /\ Len(last) \in {1, 2}
      /\ inst.after.idx \notin {"NONE", "IND_REG_POST_AUTO"}
           => Len(last) = 1
      /\ inst.after.idx = "IND_REG_POST_AUTO"
           => Len(last) = 2 /\ last[2] = three
  BY <1>3, <1>4
<1>7. /\ Len(Whole(inst)) = Len(first) + 1 + Len(last)
      /\ \A i \in 1 .. Len(first) : Whole(inst)[i] = first[i]
      /\ Whole(inst)[Len(first) + 1] = core
      /\ \A i \in 1 .. Len(last) : Whole(inst)[Len(first) + 1 + i] = last[i]
  <2>1. first \in Seq(S) /\ core \in S /\ last \in Seq(S)
    BY <1>4, <1>5, <1>6
  <2>. QED BY <1>1, <2>1, Around
<1>. Len(first) \in Nat /\ Len(last) \in Nat
  BY <1>5, <1>6
<1>8. BeforeLen(inst) = 1 => Whole(inst)[1] = one
  BY <1>5, <1>7
<1>9. inst.after.idx # "NONE" => Whole(inst)[BeforeLen(inst) + 2] = two
  <2>. HAVE inst.after.idx # "NONE"
  <2>1. 1 \in 1 .. Len(last)
    BY <1>6
  <2>2. Whole(inst)[Len(first) + 1 + 1] = last[1]
    BY <1>7, <2>1
  <2>3. Len(first) + 1 + 1 = BeforeLen(inst) + 2
    BY <1>5
  <2>. QED BY <1>6, <2>2, <2>3
<1>10. inst.after.idx = "IND_REG_POST_AUTO"
         => Whole(inst)[BeforeLen(inst) + 3] = three
  <2>. HAVE inst.after.idx = "IND_REG_POST_AUTO"
  <2>1. 2 \in 1 .. Len(last)
    <3>1. Len(last) = 2
      BY <1>6
    <3>. QED BY <3>1
  <2>2. Whole(inst)[Len(first) + 1 + 2] = last[2]
    BY <1>7, <2>1
  <2>3. Len(first) + 1 + 2 = BeforeLen(inst) + 3
    BY <1>5
  <2>. QED BY <1>6, <2>2, <2>3
<1>11. /\ Whole(inst)[BeforeLen(inst) + 1] = core
       /\ inst.after.idx = "NONE" => Len(Whole(inst)) = BeforeLen(inst) + 1
       /\ inst.after.idx \notin {"NONE", "IND_REG_POST_AUTO"} =>
            Len(Whole(inst)) = BeforeLen(inst) + 2
       /\ inst.after.idx = "IND_REG_POST_AUTO" =>
            Len(Whole(inst)) = BeforeLen(inst) + 3
  BY <1>5, <1>6, <1>7
<1>. QED BY <1>8, <1>9, <1>10, <1>11 DEF core, one, two, three

-----------------------------------------------------------------------------
(***************************************************************************)
(* Instructions.  What InstructionRetires says of the moment an            *)
(* instruction is replaced follows from what holds all the time it is      *)
(* carried out: its history is a run of the first steps of its program,    *)
(* the word in the halves is one of the step that comes next, and the      *)
(* phase of the sequencer and its microcode register tell which step that  *)
(* is.                                                                     *)
(***************************************************************************)
Pending == IF execution_phase = "ADVANCE_SEQUENCER" THEN 0 ELSE 1

\* The step of the word the sequencer chose last.
Place == Len(trail) + Pending

InPlace ==
  /\ sequencer_phase = "OVERRIDE_OP" =>
       /\ decoded_inst.override.idx = "IND_REG_POST_AUTO" /\ Place = 1
       /\ mucode_control = FollowUp(decoded_inst.override)
  /\ sequencer_phase = "RUN_BEFORE" =>
       /\ decoded_inst.override.idx = "NONE"
       /\ decoded_inst.before.idx = "IND_REG_POST_AUTO" /\ Place = 1
       /\ mucode_control = FollowUp(decoded_inst.before)
  /\ sequencer_phase = "CORE_OP_EXECUTED" =>
       /\ decoded_inst.override.idx = "NONE"
       /\ Place = BeforeLen(decoded_inst) + 1
  /\ sequencer_phase = "RUN_AFTER" =>
       /\ decoded_inst.override.idx = "NONE"
       /\ decoded_inst.after.idx = "IND_REG_POST_AUTO"
       /\ Place = BeforeLen(decoded_inst) + 2
       /\ mucode_control = FollowUp(decoded_inst.after)
  /\ sequencer_phase \in {"FINAL_STEPS", "WAIT_NEXT_INS"} =>
       Place = Len(Whole(decoded_inst))

Carried ==
  /\ trail \in Seq(Stages \X ControlWords)
  /\ \A i \in 1 .. Len(trail) : trail[i] \in Whole(decoded_inst)[i]

TrailInv ==
  IF control = "null"
    THEN execution_phase = "HALF1_READY" /\ sequencer_phase = "WAIT_NEXT_INS"
    ELSE /\ sequencer_phase = "WAIT_NEXT_INS"
              => execution_phase = "ADVANCE_SEQUENCER"
         /\ InPlace /\ Carried
         /\ Pending = 1 => <<Stage, Control>> \in Whole(decoded_inst)[Place]

\* What the sequencer leaves when it runs a word of microcode: the entry's
\* successor, and the word unless core_op replaces it.
LEMMA WordPresented ==
  ASSUME NEW spec \in Specs, NEW more, NEW last,
         more \in {"OVERRIDE_OP", "RUN_BEFORE", "RUN_AFTER"},
         last \in {"CORE_OP_EXECUTED", "FINAL_STEPS"},
         RunMucode(spec, more, last)
  PROVE  /\ mucode_control' = FollowUp(spec)
         /\ sequencer_phase' =
              IF spec.idx = "IND_REG_POST_AUTO" THEN more ELSE last
         /\ control' # "null"
         /\ IF sequencer_phase' = "CORE_OP_EXECUTED"
              THEN Control' = decoded_inst'.core
              ELSE Control' \in EntryWords(spec)
<1>1. PICK entry \in DecodeMucodeEntry(spec) :
        /\ mucode_control' = entry.next
        /\ mucode_decoded_buffer' = entry.word
        /\ sequencer_phase' = IF entry.next.idx # "NONE" THEN more ELSE last
        /\ control' = IF sequencer_phase' = "CORE_OP_EXECUTED"
                        THEN "core" ELSE "buffer"
  BY DEF RunMucode
<1>2. /\ entry.next = FollowUp(spec) /\ entry.word \in EntryWords(spec)
      /\ spec.idx = "IND_REG_POST_AUTO" => FollowUp(spec).idx = "POST_AUTOIDX"
      /\ spec.idx # "IND_REG_POST_AUTO" => FollowUp(spec).idx = "NONE"
  BY DEF DecodeMucodeEntry, FollowUp, Specs
<1>. QED BY <1>1, <1>2 DEF Control

\* The entry that follows a post-increment.
LEMMA UpdateFollows ==
  ASSUME NEW spec \in Specs, spec.idx = "IND_REG_POST_AUTO"
  PROVE  FollowUp(spec).idx = "POST_AUTOIDX"
BY DEF FollowUp, Specs

LEMMA TrailInit == Init => TrailInv
BY DEF Init, ExecuteInit, TrailInv

\* A half carries out the word it has, or leaves the history as it is.
LEMMA TrailHalf ==
  ASSUME TrailInv, ExecuteTypeOK, Half1 \/ Half2
  PROVE  TrailInv'
<1>1. UNCHANGED sequencer /\ control # "null"
      /\ execution_phase # "ADVANCE_SEQUENCER"
  <2>1. control # "null"
    BY HalvesHaveWord DEF TrailInv
  <2>. QED BY <2>1, HalvesHaveWord, HalvesKeepSequencer
<1>2. /\ Control' = Control /\ Stage' = Stage
      /\ sequencer_phase' = sequencer_phase /\ control' = control
      /\ decoded_inst' = decoded_inst /\ mucode_control' = mucode_control
  BY <1>1, ControlKept DEF sequencer, Stage
<1>3. /\ sequencer_phase # "WAIT_NEXT_INS" /\ Pending = 1
      /\ Place = Len(trail) + 1 /\ InPlace /\ Carried
      /\ <<Stage, Control>> \in Whole(decoded_inst)[Len(trail) + 1]
  BY <1>1 DEF TrailInv, Pending, Place
<1>4. \/ Pending' = 1 /\ trail' = trail
      \/ Pending' = 0 /\ trail' = Append(trail, <<Stage, Control>>)
  <2>1. CASE Half1
    <3>1. execution_phase' # "ADVANCE_SEQUENCER" /\ trail' = trail
      BY <2>1, MemAssertLeaves DEF Half1, Half1Block, Half1Operands,
                                   Half1Assert
    <3>. QED BY <3>1 DEF Pending
  <2>2. CASE Half2
    BY <2>2 DEF Half2, Half2Result, Half2Assert, Record, Pending
  <2>. QED BY <2>1, <2>2
<1>5. Place' = Place /\ Carried'
  <2>1. CASE Pending' = 1 /\ trail' = trail
    BY <1>2, <1>3, <2>1 DEF Place, Carried
  <2>2. CASE Pending' = 0 /\ trail' = Append(trail, <<Stage, Control>>)
    <3>. DEFINE S == Stages \X ControlWords
                new == <<Stage, Control>>
    <3>1. new \in S
      BY ControlType DEF Stage, Stages
    <3>2. trail \in Seq(S)
      BY <1>3 DEF Carried
    <3>. HIDE DEF S, new
    <3>3. /\ trail' \in Seq(S) /\ Len(trail') = Len(trail) + 1
          /\ \A i \in 1 .. Len(trail) : trail'[i] = trail[i]
          /\ trail'[Len(trail) + 1] = new
      BY <2>2, <3>1, <3>2, AppendProperties DEF new
    <3>4. Len(trail) \in Nat
      BY <3>2
    <3>5. Place' = Place
      BY <1>3, <2>2, <3>3, <3>4 DEF Place
    <3>6. \A i \in 1 .. Len(trail') : trail'[i] \in Whole(decoded_inst)[i]
      <4>. TAKE i \in 1 .. Len(trail')
      <4>1. CASE i = Len(trail) + 1
        BY <1>3, <3>3, <4>1 DEF new
      <4>2. CASE i # Len(trail) + 1
        <5>1. i \in 1 .. Len(trail)
          BY <3>3, <3>4, <4>2
        <5>. QED BY <1>3, <3>3, <5>1 DEF Carried
      <4>. QED BY <4>1, <4>2
    <3>. QED BY <1>2, <3>3, <3>5, <3>6 DEF Carried, S
  <2>. QED BY <1>4, <2>1, <2>2
<1>6. InPlace'
  BY <1>2, <1>3, <1>5 DEF InPlace
<1>7. (Pending = 1 => <<Stage, Control>> \in Whole(decoded_inst)[Place])'
  BY <1>2, <1>3, <1>5
<1>. QED BY <1>1, <1>2, <1>3, <1>5, <1>6, <1>7 DEF TrailInv

\* The first word of an instruction, carried out from an empty history.
LEMMA TrailFirst ==
  ASSUME work_regs \in Insts, decoded_inst' = work_regs, trail' = << >>,
         EvalControl(work_regs), execution_phase' = "HALF1_READY"
  PROVE  TrailInv'
<1>0. /\ work_regs.override \in Specs /\ work_regs.before \in Specs
      /\ Pending' = 1 /\ Place' = 1 /\ Carried'
  BY DEF Insts, Pending, Place, Carried
<1>1. CASE work_regs.override.idx # "NONE"
  <2>1. RunMucode(work_regs.override, "OVERRIDE_OP", "FINAL_STEPS")
    BY <1>1 DEF EvalControl
  <2>2. /\ mucode_control' = FollowUp(work_regs.override)
        /\ sequencer_phase' = IF work_regs.override.idx = "IND_REG_POST_AUTO"
                                THEN "OVERRIDE_OP" ELSE "FINAL_STEPS"
        /\ control' # "null" /\ Control' \in EntryWords(work_regs.override)
    BY <1>0, <2>1, WordPresented
  <2>3. Stage' = "override"
    BY <1>1, <2>2 DEF Stage
  <2>4. <<Stage', Control'>> \in Whole(work_regs)[1]
    BY <1>1, <2>2, <2>3, OverrideSteps DEF Presents
  <2>5. InPlace'
    BY <1>0, <1>1, <2>2, OverrideSteps DEF InPlace
  <2>. QED BY <1>0, <2>2, <2>4, <2>5 DEF TrailInv
<1>2. CASE work_regs.override.idx = "NONE" /\ work_regs.before.idx # "NONE"
  <2>1. RunMucode(work_regs.before, "RUN_BEFORE", "CORE_OP_EXECUTED")
    BY <1>2 DEF EvalControl
  <2>2. /\ mucode_control' = FollowUp(work_regs.before)
        /\ sequencer_phase' = IF work_regs.before.idx = "IND_REG_POST_AUTO"
                                THEN "RUN_BEFORE" ELSE "CORE_OP_EXECUTED"
        /\ control' # "null"
        /\ IF sequencer_phase' = "CORE_OP_EXECUTED"
             THEN Control' = work_regs.core
             ELSE Control' \in EntryWords(work_regs.before)
    BY <1>0, <2>1, WordPresented
  <2>3. <<Stage', Control'>> \in Whole(work_regs)[1]
    <3>1. CASE work_regs.before.idx = "IND_REG_POST_AUTO"
      <4>1. BeforeLen(work_regs) = 1 /\ Stage' = "before"
        BY <2>2, <3>1 DEF BeforeLen, Stage
      <4>. QED BY <1>2, <2>2, <3>1, <4>1, PlainSteps DEF Presents
    <3>2. CASE work_regs.before.idx # "IND_REG_POST_AUTO"
      <4>1. BeforeLen(work_regs) = 0 /\ Stage' = "core"
        BY <2>2, <3>2 DEF BeforeLen, Stage
      <4>2. Whole(work_regs)[0 + 1] = {<<"core", work_regs.core>>}
        BY <1>2, <4>1, PlainSteps
      <4>. QED BY <2>2, <3>2, <4>1, <4>2
    <3>. QED BY <3>1, <3>2
  <2>4. InPlace'
    BY <1>0, <1>2, <2>2 DEF InPlace, BeforeLen
  <2>. QED BY <1>0, <2>2, <2>3, <2>4 DEF TrailInv
<1>3. CASE work_regs.override.idx = "NONE" /\ work_regs.before.idx = "NONE"
  <2>1. sequencer_phase' = "CORE_OP_EXECUTED" /\ control' = "core"
    BY <1>3 DEF EvalControl
  <2>2. Stage' = "core" /\ Control' = work_regs.core
        /\ BeforeLen(work_regs) = 0
    BY <1>3, <2>1 DEF Stage, Control, BeforeLen
  <2>3. Whole(work_regs)[0 + 1] = {<<"core", work_regs.core>>}
    BY <1>3, <2>2, PlainSteps
  <2>4. InPlace'
    BY <1>0, <1>3, <2>1, <2>2 DEF InPlace
  <2>. QED BY <1>0, <2>1, <2>2, <2>3, <2>4 DEF TrailInv
<1>. QED BY <1>1, <1>2, <1>3

\* A further word: the step it belongs to is the next one.
LEMMA TrailContinue ==
  ASSUME TrailInv, decoded_inst \in Insts,
         mucode_control \in Specs, control # "null",
         execution_phase = "ADVANCE_SEQUENCER", SequencerContinue,
         execution_phase' = "HALF1_READY"
  PROVE  TrailInv'
<1>. DEFINE b == BeforeLen(decoded_inst)
<1>0. /\ decoded_inst' = decoded_inst /\ trail' = trail
      /\ decoded_inst.after \in Specs /\ b \in {0, 1}
  BY DEF SequencerContinue, Insts, BeforeLen
<1>1. /\ InPlace /\ Carried /\ Carried' /\ Len(trail) \in Nat
      /\ Place = Len(trail) /\ Place' = Len(trail) + 1
  BY <1>0 DEF TrailInv, Carried, Place, Pending
<1>2. CASE /\ sequencer_phase = "CORE_OP_EXECUTED"
           /\ decoded_inst.after.idx # "NONE"
           /\ RunMucode(decoded_inst.after, "RUN_AFTER", "FINAL_STEPS")
  <2>1. /\ mucode_control' = FollowUp(decoded_inst.after)
        /\ sequencer_phase' =
             IF decoded_inst.after.idx = "IND_REG_POST_AUTO"
               THEN "RUN_AFTER" ELSE "FINAL_STEPS"
        /\ control' # "null" /\ Control' \in EntryWords(decoded_inst.after)
    BY <1>0, <1>2, WordPresented
  <2>2. decoded_inst.override.idx = "NONE" /\ Place' = b + 2
    BY <1>0, <1>1, <1>2 DEF InPlace
  <2>3. Stage' = "after"
    BY <1>0, <2>1, <2>2 DEF Stage
  <2>4. <<Stage', Control'>> \in Whole(decoded_inst)[b + 2]
    BY <1>2, <2>1, <2>2, <2>3, PlainSteps DEF Presents
  <2>5. InPlace'
    BY <1>0, <1>2, <2>1, <2>2, PlainSteps DEF InPlace
  <2>. QED BY <1>0, <1>1, <2>1, <2>2, <2>4, <2>5 DEF TrailInv
<1>3. CASE /\ sequencer_phase = "OVERRIDE_OP"
           /\ RunMucode(mucode_control, "OVERRIDE_OP", "FINAL_STEPS")
  <2>1. /\ decoded_inst.override.idx = "IND_REG_POST_AUTO"
        /\ mucode_control = FollowUp(decoded_inst.override) /\ Place' = 2
    BY <1>1, <1>3 DEF InPlace
  <2>2. mucode_control.idx = "POST_AUTOIDX"
    BY <2>1, UpdateFollows DEF Insts
  <2>3. /\ sequencer_phase' = "FINAL_STEPS" /\ control' # "null"
        /\ Control' \in EntryWords(mucode_control)
    BY <1>3, <2>2, WordPresented
  <2>4. Stage' = "override"
    BY <1>0, <2>1, <2>3 DEF Stage
  <2>5. <<Stage', Control'>> \in Whole(decoded_inst)[2]
        /\ Len(Whole(decoded_inst)) = 2
    BY <2>1, <2>3, <2>4, OverrideSteps DEF Presents
  <2>6. InPlace'
    BY <1>0, <2>1, <2>3, <2>5 DEF InPlace
  <2>. QED BY <1>0, <1>1, <2>1, <2>3, <2>5, <2>6 DEF TrailInv
<1>4. CASE /\ sequencer_phase = "RUN_BEFORE"
           /\ RunMucode(mucode_control, "RUN_BEFORE", "CORE_OP_EXECUTED")
  <2>1. /\ decoded_inst.override.idx = "NONE" /\ b = 1 /\ Place' = 2
        /\ mucode_control = FollowUp(decoded_inst.before)
        /\ decoded_inst.before.idx = "IND_REG_POST_AUTO"
    BY <1>1, <1>4 DEF InPlace, BeforeLen
  <2>2. mucode_control.idx = "POST_AUTOIDX"
    BY <2>1, UpdateFollows DEF Insts
  <2>3. /\ sequencer_phase' = "CORE_OP_EXECUTED" /\ control' # "null"
        /\ Control' = decoded_inst.core
    BY <1>0, <1>4, <2>2, WordPresented
  <2>4. Stage' = "core"
    BY <2>3 DEF Stage
  <2>5. Whole(decoded_inst)[1 + 1] = {<<"core", decoded_inst.core>>}
    BY <2>1, PlainSteps
  <2>6. InPlace'
    BY <1>0, <2>1, <2>3 DEF InPlace
  <2>. QED BY <1>0, <1>1, <2>1, <2>3, <2>4, <2>5, <2>6 DEF TrailInv
<1>5. CASE /\ sequencer_phase = "RUN_AFTER"
           /\ RunMucode(mucode_control, "RUN_AFTER", "FINAL_STEPS")
  <2>1. /\ decoded_inst.override.idx = "NONE" /\ Place' = b + 3
        /\ mucode_control = FollowUp(decoded_inst.after)
        /\ decoded_inst.after.idx = "IND_REG_POST_AUTO"
    BY <1>0, <1>1, <1>5 DEF InPlace
  <2>2. mucode_control.idx = "POST_AUTOIDX"
    BY <1>0, <2>1, UpdateFollows
  <2>3. /\ sequencer_phase' = "FINAL_STEPS" /\ control' # "null"
        /\ Control' \in EntryWords(mucode_control)
    BY <1>5, <2>2, WordPresented
  <2>4. Stage' = "after"
    BY <1>0, <2>1, <2>3 DEF Stage
  <2>5. /\ Whole(decoded_inst)[b + 3] = Presents("after", mucode_control)
        /\ Len(Whole(decoded_inst)) = b + 3
    BY <2>1, PlainSteps
  <2>6. InPlace'
    BY <1>0, <2>1, <2>3, <2>5 DEF InPlace
  <2>. QED BY <1>0, <1>1, <2>1, <2>3, <2>4, <2>5, <2>6
           DEF TrailInv, Presents
<1>. QED BY <1>2, <1>3, <1>4, <1>5 DEF SequencerContinue

\* An instruction of which nothing is left to run has come to its last step.
LEMMA DoneIsWhole ==
  ASSUME TrailInv, control # "null", InstructionDone
  PROVE  Place = Len(Whole(decoded_inst))
BY PlainSteps DEF TrailInv, InPlace, InstructionDone

\* The sequencer keeps the invariant.
LEMMA TrailDriver ==
  ASSUME TrailInv, SequencerInv, ExecuteTypeOK, work_regs \in Insts,
         DriverAdvance
  PROVE  TrailInv'
<1>0. decoded_inst \in Insts /\ mucode_control \in Specs
  BY DEF ExecuteTypeOK
<1>1. CASE SequencerLatch
  <2>1. EvalControl(work_regs)
    BY <1>1 DEF SequencerLatch
  <2>2. sequencer_phase' # "WAIT_NEXT_INS"
    BY <2>1, RunMucodeSequencer DEF EvalControl
  <2>3. execution_phase' = "HALF1_READY"
    BY <2>2 DEF DriverAdvance
  <2>. QED BY <1>1, <2>1, <2>3, TrailFirst DEF SequencerLatch
<1>2. CASE SequencerAwait
  <2>1. /\ sequencer_phase' = "WAIT_NEXT_INS" /\ control' = control
        /\ execution_phase' = execution_phase /\ trail' = trail
        /\ decoded_inst' = decoded_inst /\ InstructionDone
    BY <1>2 DEF SequencerAwait, DriverAdvance
  <2>2. CASE control = "null"
    BY <2>1, <2>2 DEF TrailInv
  <2>3. CASE control # "null"
    <3>1. execution_phase = "ADVANCE_SEQUENCER"
      BY <2>3 DEF DriverAdvance, TrailInv
    <3>2. Place = Len(Whole(decoded_inst)) /\ Carried /\ Pending' = 0
      BY <2>1, <2>3, <3>1, DoneIsWhole DEF TrailInv, Pending
    <3>3. Place' = Place /\ Carried'
      BY <2>1, <3>2 DEF Place, Pending, Carried
    <3>4. InPlace'
      BY <2>1, <3>2, <3>3 DEF InPlace
    <3>. QED BY <2>1, <2>3, <3>1, <3>2, <3>3, <3>4 DEF TrailInv
  <2>. QED BY <2>2, <2>3
<1>3. CASE SequencerContinue
  <2>1. sequencer_phase # "WAIT_NEXT_INS"
    BY <1>3 DEF SequencerContinue
  <2>2. execution_phase = "ADVANCE_SEQUENCER" /\ control # "null"
    BY <2>1 DEF DriverAdvance, TrailInv
  <2>3. sequencer_phase' # "WAIT_NEXT_INS"
    BY <1>3, RunMucodeSequencer DEF SequencerContinue
  <2>4. execution_phase' = "HALF1_READY"
    BY <2>3 DEF DriverAdvance
  <2>. QED BY <1>0, <1>3, <2>2, <2>4, TrailContinue
<1>. QED BY <1>1, <1>2, <1>3 DEF DriverAdvance, SequencerAdvance

\* So does any step, and an instruction is replaced only when it is done.
TrailOK == TrailInv /\ SequencerInv
LEMMA TrailStep ==
  ASSUME TrailOK, ExecuteTypeOK, work_regs \in Insts, [Step]_machine
  PROVE  TrailOK' /\ (Latches /\ control # "null" => DriverAdvance)
<1>1. CASE ExecuteNext
  <2>1. SequencerInv'
    BY <1>1, SequencerInvStep DEF TrailOK
  <2>2. CASE Half1 \/ Half2
    <3>1. decoded_inst_semaph' = decoded_inst_semaph
      BY <2>2 DEF Half1, Half1Block, Half1Operands, Half1Assert, Half2,
                  Half2Result, Half2Assert
    <3>. QED BY <2>1, <2>2, <3>1, TrailHalf DEF TrailOK, Latches,
                                                ExecuteTypeOK
  <2>3. CASE DriverAdvance
    BY <2>1, <2>3, TrailDriver DEF TrailOK
  <2>. QED BY <1>1, <2>2, <2>3 DEF ExecuteNext
<1>2. CASE UNCHANGED executeVars /\ (OfferInst \/ UNCHANGED interconnects)
  <2>1. SequencerInv'
    BY <1>2, SequencerInvStutter DEF TrailOK
  <2>2. TrailInv'
    BY <1>2 DEF executeVars, sequencer, TrailOK, TrailInv, InPlace, Carried,
                Place, Pending, Stage, Control
  <2>3. ~ Latches
    BY <1>2 DEF OfferInst, Latches, interconnects
  <2>. QED BY <2>1, <2>2, <2>3 DEF TrailOK
<1>. QED BY <1>1, <1>2 DEF Step, OfferInst, OtherClient, Tick, machine

\* When the sequencer latches an instruction, the words of the one before it
\* have been carried out, each once and in order: override_op's alone, or
\* run_before's but the last, core_op, and all of run_after's
\* (pilot_execute_sequencer_advance).
THEOREM InstructionsRetire == Spec => InstructionRetires
<1>1. Init => TrailOK
  BY TrailInit DEF Init, ExecuteInit, SequencerInv, SequencerHasWord, TrailOK
<1>2. WorkRegsOK /\ ExecuteTypeOK /\ TrailOK /\ [Next]_vars => TrailOK'
  BY Moves, TrailStep DEF WorkRegsOK
<1>3. WorkRegsOK /\ ExecuteTypeOK /\ TrailOK /\ [Next]_vars
        => [RetiresWhole]_executeVars
  <2>. SUFFICES ASSUME WorkRegsOK, ExecuteTypeOK, TrailOK, [Step]_machine,
                       Latches, control # "null"
                PROVE  CarriedOut(Whole(decoded_inst))
    BY Moves DEF RetiresWhole, Whole
  <2>1. DriverAdvance
    BY TrailStep DEF WorkRegsOK
  <2>2. SequencerLatch
    BY <2>1 DEF DriverAdvance, SequencerAdvance, SequencerAwait,
                SequencerContinue, Latches
  <2>3. execution_phase = "ADVANCE_SEQUENCER" /\ Carried
    BY <2>1 DEF DriverAdvance, TrailOK, TrailInv
  <2>4. Place = Len(Whole(decoded_inst))
    BY <2>2, DoneIsWhole DEF SequencerLatch, TrailOK
  <2>5. Len(trail) = Len(Whole(decoded_inst)) /\ DOMAIN trail = 1 .. Len(trail)
    BY <2>3, <2>4 DEF Place, Pending, Carried
  <2>. QED BY <2>3, <2>5 DEF Carried, CarriedOut
<1>. QED BY <1>1, <1>2, <1>3, WorkRegsType, UnitTypeCorrect, PTL
         DEF Spec, InstructionRetires
=============================================================================
