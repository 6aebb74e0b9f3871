---------------------------- MODULE MucodeProofs ----------------------------
(***************************************************************************)
(* Theorems about the microcode programs, for every entry specification    *)
(* and every value of the fields no entry assigns.                         *)
(***************************************************************************)
EXTENDS MucodeProgram, SequenceTheorems, TLAPS

\* What the words of an entry have in common, whatever their unset fields.
LEMMA WordOf ==
  ASSUME NEW spec \in Specs, spec.idx # "NONE", NEW word \in EntryWords(spec)
  PROVE  /\ word.latch = "NO_LATCH" <=> spec.idx = "POST_AUTOIDX"
         /\ spec.idx \in {"IND_REG", "IND_REG_POST_AUTO", "IND_REG_AUTO",
                          "POST_AUTOIDX"} => word.src0 = RegOperand(spec)
         /\ IF spec.idx \in {"IND_REG_AUTO", "POST_AUTOIDX"}
              THEN word.dest = RegOperand(spec) ELSE word.dest = Loc("ZERO")
<1>. DEFINE Plain(w) ==
       w.latch \in {"HALF1", "HALF2"} /\ w.dest = Loc("ZERO")
<1>1. spec.idx \in MucodeIdx
  BY DEF Specs
<1>2. ASSUME NEW operand, word \in OneCycle(spec, operand)
      PROVE  Plain(word) /\ word.src0 = operand
  BY <1>2 DEF OneCycle, IdleWord
<1>3. ASSUME NEW operand, NEW offset, NEW writes,
             word \in TwoCycle(operand, offset, writes)
      PROVE  Plain(word)
  BY <1>3 DEF TwoCycle, IdleWord
<1>4. CASE spec.idx \in {"IND_IMM", "IND_IMM_RM", "IND_IMM0"}
  <2>1. PICK operand : word \in OneCycle(spec, operand)
    BY <1>4 DEF EntryWords
  <2>. QED BY <1>2, <1>4, <2>1
<1>5. CASE spec.idx \in {"IND_REG", "IND_REG_POST_AUTO"}
  <2>1. word \in OneCycle(spec, RegOperand(spec))
    BY <1>5 DEF EntryWords
  <2>. QED BY <1>2, <1>5, <2>1
<1>6. CASE spec.idx = "IND_REG_AUTO"
  <2>1. word = RegAuto(spec)
    BY <1>6 DEF EntryWords
  <2>. QED BY <1>6, <2>1 DEF RegAuto, IdleWord
<1>7. CASE spec.idx = "POST_AUTOIDX"
  <2>1. word = AfterAutoidx(spec)
    BY <1>7 DEF EntryWords
  <2>. QED BY <1>7, <2>1 DEF AfterAutoidx, IdleWord
<1>8. CASE spec.idx \in {"IND_REG_WITH_IMM", "IND_IMM_WITH_BITS",
                         "IND_REG_WITH_BITS", "IND_PGC_WITH_IMM",
                         "IND_PGC_WITH_IMM_RM", "IND_PGC_WITH_HML",
                         "IND_PGC_WITH_HML_RM"}
  <2>1. PICK operand, offset, writes :
          word \in TwoCycle(operand, offset, writes)
    BY <1>8 DEF EntryWords
  <2>. QED BY <1>3, <1>8, <2>1
<1>. QED BY <1>1, <1>4, <1>5, <1>6, <1>7, <1>8 DEF MucodeIdx

\* A register operand is one, never the constant zero.
LEMMA RegOperandIsRegister ==
  ASSUME NEW spec \in Specs
  PROVE  RegOperand(spec) # Loc("ZERO")
BY DEF Specs, Sizes, RegOperand, Loc

-----------------------------------------------------------------------------
Updating == [start EXCEPT !.idx = "POST_AUTOIDX"]

\* How far a program has come: not started, one word, or the two of a
\* post-increment.  The invariants speak of a finished program only; this is
\* what a step needs to know of an unfinished one.
ProgramInv ==
  /\ start \in Specs /\ start.idx # "NONE"
  /\ \/ words = << >> /\ mucode_control = start
     \/ \E one \in EntryWords(start) :
          words = <<one>> /\ mucode_control = FollowUp(start)
     \/ \E one \in EntryWords(start), two \in EntryWords(Updating) :
          /\ words = <<one, two>>
          /\ start.idx = "IND_REG_POST_AUTO" /\ mucode_control.idx = "NONE"

\* The entry after a post-increment's first word is the update of the same
\* register; every other program stops.
LEMMA FollowUpOf ==
  ASSUME NEW spec \in Specs
  PROVE  /\ FollowUp(spec).idx # "NONE" =>
              /\ spec.idx = "IND_REG_POST_AUTO"
              /\ FollowUp(spec) = [spec EXCEPT !.idx = "POST_AUTOIDX"]
         /\ FollowUp([spec EXCEPT !.idx = "POST_AUTOIDX"]).idx = "NONE"
         /\ spec.idx \notin {"IND_REG_POST_AUTO"} => FollowUp(spec).idx = "NONE"
         /\ spec.idx = "IND_REG_POST_AUTO" =>
              FollowUp(spec).idx = "POST_AUTOIDX"
BY DEF Specs, FollowUp

LEMMA SecondAppended ==
  ASSUME NEW one, NEW two PROVE Append(<<one>>, two) = <<one, two>>
<1>. DEFINE S == {one, two}
            both == Append(<<one>>, two)
<1>1. <<one>> \in Seq(S) /\ two \in S /\ <<one, two>> \in Seq(S)
  OBVIOUS
<1>2. /\ both \in Seq(S) /\ Len(both) = 2
      /\ both[1] = one /\ both[2] = two
  BY <1>1, AppendProperties
<1>3. /\ Len(<<one, two>>) = 2
      /\ <<one, two>>[1] = one /\ <<one, two>>[2] = two
  OBVIOUS
<1>. HIDE DEF S, both
<1>4. both = <<one, two>>
  BY <1>1, <1>2, <1>3, SeqEqual
<1>. QED BY <1>4 DEF both


LEMMA ProgramStarts == Init => ProgramInv
BY DEF Init, ProgramInv

LEMMA ProgramStep == ProgramInv /\ [MucodeRun]_vars => ProgramInv'
<1>. SUFFICES ASSUME ProgramInv, [MucodeRun]_vars PROVE ProgramInv'
  OBVIOUS
<1>1. CASE MucodeRun
  <2>1. start \in Specs /\ start.idx # "NONE" /\ start' = start
    BY <1>1 DEF MucodeRun, ProgramInv
  <2>2. Updating' = Updating
    BY <2>1 DEF Updating
  <2>3. PICK entry \in DecodeMucodeEntry(mucode_control) :
          words' = Append(words, entry.word) /\ mucode_control' = entry.next
    BY <1>1 DEF MucodeRun
  <2>4. /\ entry.word \in EntryWords(mucode_control)
        /\ entry.next = FollowUp(mucode_control)
    BY <2>3 DEF DecodeMucodeEntry
  <2>5. CASE words = << >> /\ mucode_control = start
    <3>1. words' = <<entry.word>>
      BY <2>3, <2>5
    <3>2. \E one \in EntryWords(start) :
            words' = <<one>> /\ mucode_control' = FollowUp(start)
      BY <2>3, <2>4, <2>5, <3>1
    <3>. QED BY <2>1, <3>2 DEF ProgramInv
  <2>6. CASE \E one \in EntryWords(start) :
               words = <<one>> /\ mucode_control = FollowUp(start)
    <3>1. PICK one \in EntryWords(start) :
            words = <<one>> /\ mucode_control = FollowUp(start)
      BY <2>6
    <3>2. start.idx = "IND_REG_POST_AUTO" /\ mucode_control = Updating
      <4>1. FollowUp(start).idx # "NONE"
        BY <1>1, <3>1 DEF MucodeRun
      <4>. QED BY <2>1, <3>1, <4>1, FollowUpOf DEF Updating
    <3>3. entry.word \in EntryWords(Updating) /\ entry.next.idx = "NONE"
      <4>1. FollowUp(Updating).idx = "NONE"
        BY <2>1, FollowUpOf DEF Updating
      <4>. QED BY <2>4, <3>2, <4>1
    <3>4. words' = <<one, entry.word>>
      BY <2>3, <3>1, SecondAppended
    <3>5. \E two \in EntryWords(Updating') : words' = <<one, two>>
      BY <2>2, <3>3, <3>4
    <3>6. one \in EntryWords(start') /\ mucode_control'.idx = "NONE"
      BY <2>1, <2>3, <3>1, <3>3
    <3>. QED BY <2>1, <3>2, <3>5, <3>6 DEF ProgramInv
  <2>7. CASE mucode_control.idx = "NONE"
    BY <1>1, <2>7 DEF MucodeRun
  <2>. QED BY <2>5, <2>6, <2>7 DEF ProgramInv
<1>2. CASE UNCHANGED vars
  BY <1>2 DEF ProgramInv, Updating, vars
<1>. QED BY <1>1, <1>2

-----------------------------------------------------------------------------
\* A finished program has its one or two words.
LEMMA FinishedProgram ==
  ASSUME ProgramInv, Finished
  PROVE  \/ /\ start.idx # "IND_REG_POST_AUTO"
            /\ \E one \in EntryWords(start) : words = <<one>>
         \/ /\ start.idx = "IND_REG_POST_AUTO"
            /\ \E one \in EntryWords(start), two \in EntryWords(Updating) :
                 words = <<one, two>>
<1>1. CASE words = << >> /\ mucode_control = start
  BY <1>1 DEF ProgramInv, Finished
<1>2. CASE \E one \in EntryWords(start) :
             words = <<one>> /\ mucode_control = FollowUp(start)
  BY <1>2, FollowUpOf DEF ProgramInv, Finished
<1>. QED BY <1>1, <1>2 DEF ProgramInv

\* The words of the update: no access, the register of the start.
LEMMA UpdateWord ==
  ASSUME start \in Specs, NEW two \in EntryWords(Updating)
  PROVE  /\ two.latch = "NO_LATCH"
         /\ two.src0 = RegOperand(start) /\ two.dest = RegOperand(start)
<1>1. Updating \in Specs /\ Updating.idx = "POST_AUTOIDX"
  BY DEF Updating, Specs, MucodeIdx
<1>2. RegOperand(Updating) = RegOperand(start)
  BY DEF Updating, Specs, RegOperand, RegNo
<1>. QED BY <1>1, <1>2, WordOf

LEMMA AccessInv == ProgramInv => OneAccessPerProgram
<1>. SUFFICES ASSUME ProgramInv, Finished, start.idx # "POST_AUTOIDX"
              PROVE  \E i \in 1 .. Len(words) : Accesses = {i}
  BY DEF OneAccessPerProgram
<1>0. start \in Specs /\ start.idx # "NONE"
  BY DEF ProgramInv
<1>1. CASE \E one \in EntryWords(start) : words = <<one>>
  <2>1. PICK one \in EntryWords(start) : words = <<one>>
    BY <1>1
  <2>2. one.latch # "NO_LATCH"
    BY <1>0, WordOf
  <2>3. Accesses = {1} /\ Len(words) = 1
    BY <2>1, <2>2 DEF Accesses
  <2>. QED BY <2>3
<1>2. CASE \E one \in EntryWords(start), two \in EntryWords(Updating) :
             words = <<one, two>>
  <2>1. PICK one \in EntryWords(start), two \in EntryWords(Updating) :
          words = <<one, two>>
    BY <1>2
  <2>2. one.latch # "NO_LATCH" /\ two.latch = "NO_LATCH"
    BY <1>0, WordOf, UpdateWord
  <2>3. Accesses = {1} /\ Len(words) = 2
    BY <2>1, <2>2 DEF Accesses
  <2>. QED BY <2>3
<1>. QED BY <1>1, <1>2, FinishedProgram

LEMMA AutoIndexInv == ProgramInv => AutoIndexSameRegister
<1>. SUFFICES ASSUME ProgramInv, Finished PROVE AutoIndexSameRegister
  BY DEF AutoIndexSameRegister
<1>0. /\ start \in Specs /\ start.idx # "NONE"
      /\ RegOperand(start) # Loc("ZERO")
  BY RegOperandIsRegister DEF ProgramInv
<1>1. CASE /\ start.idx # "IND_REG_POST_AUTO"
           /\ \E one \in EntryWords(start) : words = <<one>>
  <2>1. PICK one \in EntryWords(start) : words = <<one>>
    BY <1>1
  <2>2. DOMAIN words = {1} /\ words[1] = one /\ Len(words) = 1
    BY <2>1
  <2>3. CASE start.idx = "IND_REG_AUTO"
    <3>1. one.src0 = RegOperand(start) /\ one.dest = RegOperand(start)
      BY <1>0, <2>3, WordOf
    <3>2. Updates = {1} /\ Accesses \subseteq {1}
      BY <1>0, <2>2, <3>1 DEF Updates, Accesses
    <3>. QED BY <2>2, <2>3, <3>1, <3>2 DEF AutoIndexSameRegister
  <2>4. CASE start.idx \notin {"IND_REG_AUTO", "POST_AUTOIDX"}
    <3>1. one.dest = Loc("ZERO")
      BY <1>0, <2>4, WordOf
    <3>2. Updates = {}
      BY <2>2, <3>1 DEF Updates
    <3>. QED BY <1>1, <2>4, <3>2 DEF AutoIndexSameRegister
  <2>5. CASE start.idx = "POST_AUTOIDX"
    BY <2>5 DEF AutoIndexSameRegister
  <2>. QED BY <2>3, <2>4, <2>5
<1>2. CASE /\ start.idx = "IND_REG_POST_AUTO"
           /\ \E one \in EntryWords(start), two \in EntryWords(Updating) :
                words = <<one, two>>
  <2>1. PICK one \in EntryWords(start), two \in EntryWords(Updating) :
          words = <<one, two>>
    BY <1>2
  <2>2. /\ DOMAIN words = {1, 2} /\ words[1] = one /\ words[2] = two
        /\ Len(words) = 2
    BY <2>1
  <2>3. /\ one.src0 = RegOperand(start) /\ one.dest = Loc("ZERO")
        /\ two.latch = "NO_LATCH" /\ two.dest = RegOperand(start)
    BY <1>0, <1>2, WordOf, UpdateWord
  <2>4. Updates = {2}
    BY <1>0, <2>2, <2>3 DEF Updates
  <2>5. \A j \in Accesses : words[2].dest = words[j].src0
    BY <2>2, <2>3 DEF Accesses
  <2>. QED BY <1>2, <2>2, <2>4, <2>5 DEF AutoIndexSameRegister
<1>. QED BY <1>1, <1>2, FinishedProgram

-----------------------------------------------------------------------------
\* A program started for an operand accesses memory exactly once
\* (cpu_mucode.c:260-276), whatever the unassigned fields hold.
THEOREM ProgramAccessesOnce == Spec => []OneAccessPerProgram
<1>1. Spec => []ProgramInv
  BY ProgramStarts, ProgramStep, PTL DEF Spec
<1>. QED BY <1>1, AccessInv, PTL

\* A program updates the register that addressed memory, once, and only when
\* its entry says so (cpu_mucode.c:85-115, 260-276).
THEOREM ProgramUpdatesOnce == Spec => []AutoIndexSameRegister
<1>1. Spec => []ProgramInv
  BY ProgramStarts, ProgramStep, PTL DEF Spec
<1>. QED BY <1>1, AutoIndexInv, PTL
=============================================================================
