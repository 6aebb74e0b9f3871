--------------------------- MODULE PipelineProofs ---------------------------
(***************************************************************************)
(* Theorems about the processor, for every instruction stream, every depth *)
(* of the fetch unit and every set of values: its registers keep their     *)
(* types, the decode and execute stages hand over instructions as Handoff  *)
(* says, and the access held on the bus is the execute stage's own.        *)
(***************************************************************************)
EXTENDS Pipeline, ExecuteProofs

(***************************************************************************)
(* The inductive invariant.  WaitsForDispatch alone is not inductive for   *)
(* the refinement: that a decoded instruction is one, hence not NoInst,    *)
(* rests on what decoding returns for what work_regs held before.          *)
(***************************************************************************)
HandoffInv ==
  /\ decoded_inst_semaph \in BOOLEAN
  /\ work_regs \in Insts
  /\ decoded_inst \in Insts
  /\ DecodeTypeOK
  /\ WaitsForDispatch

\* A step does what one of the parts does; a call that ends the process
\* changes nothing else.
LEMMA Moves == ASSUME [Next]_vars PROVE [Step]_machine
BY DEF Next, Running, vars

\* Reading words off the queue leaves a queue of words.
LEMMA ReadWordsType ==
  ASSUME NEW queue \in Seq(Words), NEW n \in Nat
  PROVE  ReadWords(queue, n) \in Seq(Words)
<1>1. CASE n < Len(queue)
  <2>1. n + 1 \in 1 .. Len(queue) /\ Len(queue) \in 1 .. Len(queue)
    BY <1>1
  <2>2. SubSeq(queue, n + 1, Len(queue)) \in Seq(Words)
    BY <2>1
  <2>. QED BY <1>1, <2>2 DEF ReadWords
<1>2. CASE ~ (n < Len(queue))
  BY <1>2 DEF ReadWords
<1>. QED BY <1>1, <1>2

\* The execute stage touches the interconnect only when the sequencer
\* latches an instruction, and then takes it whole.
LEMMA ExecuteTakes ==
  ASSUME ExecuteNext
  PROVE  \/ UNCHANGED <<decoded_inst, decoded_inst_semaph, work_regs>>
         \/ /\ decoded_inst_semaph
            /\ decoded_inst' = work_regs
            /\ decoded_inst_semaph' = FALSE
            /\ UNCHANGED work_regs
<1>1. CASE Half1
  BY <1>1 DEF Half1, Half1Block, Half1Operands, Half1Assert, sequencer
<1>2. CASE Half2
  BY <1>2 DEF Half2, Half2Result, Half2Assert, sequencer
<1>3. CASE DriverAdvance
  BY <1>3 DEF DriverAdvance, SequencerAdvance, SequencerLatch,
              SequencerAwait, SequencerContinue
<1>. QED BY <1>1, <1>2, <1>3 DEF ExecuteNext

\* The invariant holds of the zero-initialised processor.
LEMMA HandoffInit == Init => HandoffInv
<1>. SUFFICES ASSUME Init PROVE HandoffInv
  OBVIOUS
<1>1. << >> \in Seq(Words)
  OBVIOUS
<1>2. DecodeTypeOK
  BY <1>1 DEF Init, DecodeInit, DecodeTypeOK, DecodingPhases
<1>3. /\ decoded_inst_semaph = FALSE /\ work_regs = ZeroInst
      /\ decoded_inst = ZeroInst
  BY DEF Init, ExecuteInit, InterconnectInit
<1>. QED BY <1>2, <1>3, ZeroInstType DEF HandoffInv, WaitsForDispatch

\* Decoding a word, in a state where the stage may.
LEMMA DecodingType ==
  ASSUME HandoffInv, DecodeHalf1Decode
  PROVE  /\ work_regs' \in Insts /\ fetched' \in Seq(Words)
         /\ ~ decoded_inst_semaph /\ ~ decoded_inst_semaph'
<1>1. /\ fetched \in Seq(Words) /\ fetched # << >>
      /\ work_regs \in Insts
  BY DEF HandoffInv, DecodeTypeOK, DecodeHalf1Decode
<1>2. Head(fetched) \in Opcode
  BY <1>1, DecodeAssumption
<1>3. DecodeOpcode(work_regs, Head(fetched)) \subseteq Decodings
  BY <1>1, <1>2, DecodeOpcodeType
<1>4. PICK d \in Decodings :
        work_regs' = d.inst /\ fetched' = ReadWords(fetched, 1 + d.reads)
  BY <1>3 DEF DecodeHalf1Decode
<1>5. d.inst \in Insts /\ 1 + d.reads \in Nat
  BY DEF Decodings
<1>6. ReadWords(fetched, 1 + d.reads) \in Seq(Words)
  BY <1>1, <1>5, ReadWordsType
<1>7. ~ decoded_inst_semaph /\ ~ decoded_inst_semaph'
  BY DEF HandoffInv, WaitsForDispatch, DecodeHalf1Decode, Half1Reads
<1>. QED BY <1>4, <1>5, <1>6, <1>7

\* Every step preserves the invariant.
LEMMA HandoffStep == HandoffInv /\ [Next]_vars => HandoffInv'
<1>. SUFFICES ASSUME HandoffInv, [Step]_machine PROVE HandoffInv'
  BY Moves
<1>. USE DEF HandoffInv, DecodeTypeOK, WaitsForDispatch, DecodingPhases
<1>1. CASE DecodeHalf1Starve /\ UNCHANGED <<executeVars, memctl>>
  BY <1>1 DEF DecodeHalf1Starve, Half1Reads, executeVars, sequencer
<1>2. CASE DecodeHalf1Decode /\ UNCHANGED <<executeVars, memctl>>
  <2>1. decoded_inst' = decoded_inst
    BY <1>2 DEF executeVars, sequencer
  <2>2. decoding_phase' = "HALF2_READ_OPERANDS"
    BY <1>2 DEF DecodeHalf1Decode
  <2>3. decoded_inst_semaph' \in BOOLEAN
    BY <1>2 DEF DecodeHalf1Decode
  <2>. QED BY <1>2, <2>1, <2>2, <2>3, DecodingType
<1>3. CASE DecodeHalf2 /\ UNCHANGED <<executeVars, memctl>>
  BY <1>3 DEF DecodeHalf2, executeVars, sequencer
<1>4. CASE ExecuteStage
  <2>1. ExecuteNext /\ UNCHANGED <<decoding_phase, fetched>>
    BY <1>4 DEF ExecuteStage, decodeVars
  <2>2. CASE UNCHANGED <<decoded_inst, decoded_inst_semaph, work_regs>>
    BY <2>1, <2>2
  <2>3. CASE /\ decoded_inst' = work_regs /\ decoded_inst_semaph' = FALSE
             /\ UNCHANGED work_regs
    BY <2>1, <2>3
  <2>. QED BY <2>1, <2>2, <2>3, ExecuteTakes
<1>5. CASE FetchUnit
  <2>1. PICK word \in Words : fetched' = Append(fetched, word)
    BY <1>5 DEF FetchUnit, FetchWord
  <2>2. fetched' \in Seq(Words)
    BY <2>1
  <2>3. /\ UNCHANGED <<decoding_phase, decoded_inst_semaph, work_regs>>
        /\ UNCHANGED decoded_inst
    BY <1>5 DEF FetchUnit, FetchWord, executeVars, sequencer
  <2>. QED BY <2>2, <2>3
<1>6. CASE Tick
  BY <1>6 DEF Tick, executeVars, sequencer, decodeVars
<1>7. CASE UNCHANGED machine
  BY <1>7 DEF machine, executeVars, sequencer, decodeVars
<1>. QED BY <1>1, <1>2, <1>3, <1>4, <1>5, <1>6, <1>7
         DEF Step, DecodeStage, DecodeNext, DecodeHalf1

\* The invariant holds throughout.
LEMMA HandoffInvariant == Spec => []HandoffInv
BY HandoffInit, HandoffStep, PTL DEF Spec

\* While an instruction waits to be taken the decode stage waits too, so it
\* cannot overwrite the record both stages share, whatever the order in
\* which the stages' halves are called.
THEOREM DispatchWaits == Spec => []WaitsForDispatch
<1>1. HandoffInv => WaitsForDispatch
  BY DEF HandoffInv
<1>. QED BY <1>1, HandoffInvariant, PTL

\* A step of the processor is a step of Handoff or leaves its variables
\* alone.
LEMMA HandoffStepRefined ==
  ASSUME HandoffInv, [Next]_vars PROVE [H!Next]_(H!vars)
<1>. DEFINE slot == IF decoded_inst_semaph THEN work_regs ELSE NoInst
<1>1. work_regs # NoInst
  BY NoInstAssumption DEF HandoffInv
<1>2. CASE DecodeHalf1 /\ UNCHANGED <<executeVars, memctl>>
  <2>1. decoded_inst' = decoded_inst
    BY <1>2 DEF executeVars, sequencer
  <2>2. ~ decoded_inst_semaph /\ ~ decoded_inst_semaph'
    BY <1>2, DecodingType DEF DecodeHalf1, DecodeHalf1Starve, Half1Reads,
       HandoffInv, WaitsForDispatch
  <2>. QED BY <2>1, <2>2 DEF H!vars
<1>3. CASE DecodeHalf2 /\ UNCHANGED <<executeVars, memctl>>
  <2>1. decoded_inst' = decoded_inst
    BY <1>3 DEF executeVars, sequencer
  <2>2. /\ ~ decoded_inst_semaph /\ decoded_inst_semaph'
        /\ work_regs' \in Insts
    BY <1>3 DEF DecodeHalf2, HandoffInv, WaitsForDispatch
  <2>3. H!Offer
    BY <2>1, <2>2 DEF H!Offer
  <2>. QED BY <2>3 DEF H!Next
<1>4. CASE ExecuteStage
  <2>1. CASE UNCHANGED <<decoded_inst, decoded_inst_semaph, work_regs>>
    BY <2>1 DEF H!vars
  <2>2. CASE /\ decoded_inst_semaph
             /\ decoded_inst' = work_regs
             /\ decoded_inst_semaph' = FALSE
    <3>1. H!Take
      BY <2>2, <1>1 DEF H!Take
    <3>. QED BY <3>1 DEF H!Next
  <2>. QED BY <1>4, <2>1, <2>2, ExecuteTakes DEF ExecuteStage
<1>5. CASE FetchUnit
  BY <1>5 DEF FetchUnit, FetchWord, executeVars, sequencer, H!vars
<1>6. CASE Tick
  BY <1>6 DEF Tick, executeVars, sequencer, H!vars
<1>7. CASE UNCHANGED machine
  BY <1>7 DEF machine, executeVars, sequencer, H!vars
<1>. QED BY <1>2, <1>3, <1>4, <1>5, <1>6, <1>7, Moves
         DEF Step, DecodeStage, DecodeNext

\* The processor starts with the slot empty.
LEMMA HandoffInitRefined == Init => H!Init
BY ZeroInstType DEF Init, ExecuteInit, InterconnectInit, H!Init

\* The two stages implement the one-place slot of Handoff: an instruction is
\* offered only when the slot is free, is not changed while it waits, and is
\* taken whole and once.
THEOREM PipelineImplementsHandoff == Spec => HandoffRefined
<1>1. Init => H!Init
  BY HandoffInitRefined
<1>2. HandoffInv /\ [Next]_vars => [H!Next]_(H!vars)
  BY HandoffStepRefined
<1>. QED BY <1>1, <1>2, HandoffInvariant, PTL DEF Spec, HandoffRefined, H!Spec

-----------------------------------------------------------------------------
(***************************************************************************)
(* Registers and accesses.                                                 *)
(***************************************************************************)

\* A step of the decode stage, the fetch unit or the controller leaves the
\* execute stage alone.
LEMMA OthersLeaveExecute ==
  ASSUME [Next]_vars
  PROVE  \/ ExecuteNext
         \/ UNCHANGED executeVars /\ (MemctlTick \/ UNCHANGED memctl)
BY Moves DEF Step, DecodeStage, ExecuteStage, FetchUnit, Tick, machine

\* The registers of all three parts keep their types.
THEOREM TypeCorrect == Spec => []TypeOK
<1>. DEFINE Inv == BusTypeOK /\ ExecuteTypeOK
<1>1. Init => Inv
  BY ExecuteInitType DEF Init
<1>2. HandoffInv /\ Inv /\ [Next]_vars => Inv'
  <2>. SUFFICES ASSUME HandoffInv, Inv, [Next]_vars PROVE Inv'
    OBVIOUS
  <2>1. CASE ExecuteNext
    BY <2>1, ExecuteTypeStep DEF HandoffInv
  <2>2. CASE UNCHANGED executeVars /\ (MemctlTick \/ UNCHANGED memctl)
    BY <2>2, ExecuteTypeOthers
  <2>. QED BY <2>1, <2>2, OthersLeaveExecute
<1>3. HandoffInv /\ Inv => TypeOK
  BY DEF HandoffInv, BusTypeOK, TypeOK, InterconnectType
<1>. HIDE DEF Inv
<1>. QED BY <1>1, <1>2, <1>3, HandoffInvariant, PTL DEF Spec

\* The access held on the bus while a half waits in its assert phase is the
\* one that half made, address, direction and data, however often the half
\* is called and whatever ticks come in between.
THEOREM HeldAccess == Spec => []HeldAccessIsOurs
<1>1. Init => HeldAccessIsOurs
  BY DEF Init, ExecuteInit, HeldAccessIsOurs
<1>2. TypeOK /\ HeldAccessIsOurs /\ [Next]_vars => HeldAccessIsOurs'
  <2>. SUFFICES ASSUME TypeOK, HeldAccessIsOurs, [Next]_vars
                PROVE  HeldAccessIsOurs'
    OBVIOUS
  <2>1. memctl \in MemctlType
    BY DEF TypeOK
  <2>. QED BY <2>1, OthersLeaveExecute, HeldAccessStep, HeldAccessTick
<1>. QED BY <1>1, <1>2, TypeCorrect, PTL DEF Spec
=============================================================================
