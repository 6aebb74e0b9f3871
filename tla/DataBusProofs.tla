--------------------------- MODULE DataBusProofs ----------------------------
(***************************************************************************)
(* Theorems about the data bus, for every set of instructions and          *)
(* microcode words and all results of 24 bits.                             *)
(***************************************************************************)
EXTENDS DataBus, TLAPS

LEMMA Cut == ASSUME NEW k, NEW word PROVE word \cap Below(k) \in Words(k)
BY DEF Words

LEMMA Wider ==
  ASSUME NEW k \in 0 .. 24, NEW m \in 0 .. 24, k <= m, NEW word \in Words(k)
  PROVE  word \in Words(m)
BY DEF Words, Below

LEMMA FieldType ==
  ASSUME NEW word, NEW i PROVE Field(word, i) \in 0 .. 7
<1>1. \A j : Bit(word, j) \in {0, 1}
  BY DEF Bit
<1>. QED BY <1>1 DEF Field

\* A named view lies within one register.
LEMMA ViewType ==
  ASSUME NEW loc \in BusLocs, IsView(loc)
  PROVE  /\ ViewReg(loc) \in 0 .. 7 /\ ViewLow(loc) \in 0 .. 23
         /\ ViewWidth(loc) \in 1 .. 24
         /\ ViewLow(loc) + ViewWidth(loc) <= 24
<1>1. loc[2] \in 0 .. 7
  BY DEF BusLocs, Locs, Loc
<1>. QED BY <1>1 DEF IsView, ViewReg, ViewLow, ViewWidth

LEMMA BankedType ==
  ASSUME NEW r \in 0 .. 7, NEW byte \in BOOLEAN
  PROVE  Banked(r, byte) \in BusLocs /\ IsView(Banked(r, byte))
BY DEF Banked, BusLocs, Locs, LocKinds, IsView

LEMMA FieldRegType ==
  ASSUME NEW loc, IsField(loc)
  PROVE  FieldReg(loc[1]) \in 0 .. 7
BY FieldType DEF IsField, ByField, FieldReg

\* Replacing bits within 24 leaves a word of 24.
LEMMA InsertType ==
  ASSUME NEW low \in Nat, NEW width \in Nat, NEW top \in Nat,
         low + width <= top, NEW word \in Words(top), NEW x
  PROVE  Insert(word, low, width, x) \in Words(top)
<1>1. Up(x \cap Below(width), low) \subseteq low .. low + width - 1
  BY DEF Up, Below
<1>2. low .. low + width - 1 \subseteq Below(top)
  BY DEF Below
<1>. QED BY <1>1, <1>2 DEF Insert, Words

LEMMA ThreeByteType ==
  ASSUME NEW high, NEW word \in Words(16)
  PROVE  ThreeByte(high, word) \in Words(24)
<1>1. Up(high \cap Below(8), 16) \subseteq Below(24)
  BY DEF Up, Below
<1>2. word \in Words(24)
  BY Wider
<1>. QED BY <1>1, <1>2 DEF ThreeByte, Words

\* The arms of FetchLatch one by one.
LEMMA LatchValues ==
  /\ \A kind \in {"ZERO", "REPI", "REPR"} : FetchLatch(kind) = {}
  /\ FetchLatch("SIZE") = SizeOperand /\ FetchLatch("REG_PGC") = pgc
  /\ FetchLatch("REG__F") = wf \cap Below(8)
  /\ FetchLatch("REG__W") = Down(wf, 8) /\ FetchLatch("REG_WF") = wf
  /\ FetchLatch("MEM_ADDR") = mem_addr /\ FetchLatch("MEM_DATA") = mem_data
  /\ \A kind \in {"IMM_0", "RM_1"} : FetchLatch(kind) = Immediate(0, BufferSize)
  /\ \A kind \in {"IMM_1", "RM_2"} : FetchLatch(kind) = Immediate(1, BufferSize)
  /\ FetchLatch("IMM_2") = Immediate(2, BufferSize)
  /\ FetchLatch("IMM_HML") = ThreeByte(imm_words[0], imm_words[1])
  /\ FetchLatch("IMM_HML_RM") = ThreeByte(imm_words[2], imm_words[1])
  /\ FetchLatch("RM_HML") = ThreeByte(imm_words[1], imm_words[0])
  /\ FetchLatch("SFI_1") = Down(imm_words[0], 2) \cap Below(4)
  /\ FetchLatch("SFI_2") = Down(imm_words[0], 8) \cap Below(4)
BY DEF FetchLatch

\* Whatever fetch_data_ finds has 24 bits.
LEMMA FetchType ==
  ASSUME DataBusTypeOK, NEW loc \in BusLocs
  PROVE  Fetch(loc) \in Words(24)
<1>1. ASSUME NEW view \in BusLocs, IsView(view)
      PROVE  ReadView(view) \in Words(24)
  <2>1. ReadView(view) \in Words(ViewWidth(view))
    BY Cut DEF ReadView
  <2>2. ViewWidth(view) \in 0 .. 24
    BY <1>1, ViewType
  <2>. QED BY <2>1, <2>2, Wider
<1>2. \A i \in 0 .. 4 : imm_words[i] \in Words(16)
  BY DEF DataBusTypeOK
<1>3. \A i \in 0 .. 3, size \in Sizes : Immediate(i, size) \in Words(24)
  BY <1>2, ThreeByteType, Wider DEF Immediate
<1>4. BufferSize \in Sizes
  BY DEF DataBusTypeOK, BusWords, BufferSize
<1>5. CASE IsView(loc)
  <2>1. Fetch(loc) = ReadView(loc)
    BY <1>5 DEF Fetch, IsView, IsField, IsIndex, ByField
  <2>. QED BY <1>1, <1>5, <2>1
<1>6. CASE IsField(loc) /\ ~ IsView(loc)
  <2>1. FieldReg(loc[1]) \in 0 .. 7
    BY <1>6, FieldRegType
  <2>. DEFINE view == Banked(FieldReg(loc[1]), BufferSize = 0)
  <2>2. view \in BusLocs /\ IsView(view)
    BY <2>1, BankedType
  <2>3. Fetch(loc) = ReadView(view)
    BY <1>6 DEF Fetch, IsField, IsIndex, ByField
  <2>. QED BY <1>1, <2>2, <2>3
<1>7. CASE IsIndex(loc)
  <2>. DEFINE word == IndexWord(loc)
              view == Banked(Field(word, 8), word \cap {14, 15} = {})
  <2>1. view \in BusLocs /\ IsView(view)
    BY FieldType, BankedType
  <2>2. Fetch(loc) = IF InvalidIndex(word) THEN {} ELSE ReadView(view)
    BY <1>7 DEF Fetch, IsIndex, IsField, IsView, ByField
  <2>3. {} \in Words(24)
    BY DEF Words
  <2>. QED BY <1>1, <2>1, <2>2, <2>3
<1>8. CASE ~ (IsView(loc) \/ IsField(loc) \/ IsIndex(loc))
  <2>1. Fetch(loc) = FetchLatch(loc[1])
    BY <1>8 DEF Fetch
  <2>2. loc[1] \in {"ZERO", "SIZE", "REG_PGC", "MEM_DATA", "IMM_0", "IMM_1",
                     "IMM_HML", "IMM_HML_RM", "SFI_1", "SFI_2", "RM_1",
                     "RM_HML"} \cup OtherLocs
    BY <1>8 DEF BusLocs, Locs, LocKinds, Loc, IsView, IsField, IsIndex, ByField
  <2>. DEFINE Fits(kind) == FetchLatch(kind) \in Words(24)
  <2>3. SizeOperand \in Words(24) /\ {} \in Words(24)
    BY <1>4 DEF SizeOperand, Words, Below, Sizes
  <2>4. pgc \in Words(24) /\ mem_addr \in Words(24)
    BY DEF DataBusTypeOK, Words, Below
  <2>5. wf \in Words(24) /\ mem_data \in Words(24)
    BY Wider DEF DataBusTypeOK
  <2>6. wf \cap Below(8) \in Words(24) /\ Down(wf, 8) \in Words(24)
    BY DEF DataBusTypeOK, Words, Below, Down
  <2>7. \A word : Down(word, 2) \cap Below(4) \in Words(24)
                 /\ Down(word, 8) \cap Below(4) \in Words(24)
    BY DEF Words, Below
  <2>8. \A i \in 0 .. 2, high \in 0 .. 2 :
          /\ Immediate(i, BufferSize) \in Words(24)
          /\ ThreeByte(imm_words[high], imm_words[i]) \in Words(24)
    BY <1>2, <1>3, <1>4, ThreeByteType
  <2>9. Fits("ZERO") /\ Fits("REPI") /\ Fits("REPR") /\ Fits("SIZE")
    BY <2>3, LatchValues
  <2>10. Fits("REG_PGC") /\ Fits("MEM_ADDR") /\ Fits("MEM_DATA")
    BY <2>4, <2>5, LatchValues
  <2>11. Fits("REG__F") /\ Fits("REG__W") /\ Fits("REG_WF")
    BY <2>5, <2>6, LatchValues
  <2>12. Fits("SFI_1") /\ Fits("SFI_2")
    BY <2>7, LatchValues
  <2>13. /\ Fits("IMM_0") /\ Fits("IMM_1") /\ Fits("IMM_2") /\ Fits("RM_1")
         /\ Fits("RM_2")
    BY <2>8, LatchValues
  <2>14. Fits("IMM_HML") /\ Fits("IMM_HML_RM") /\ Fits("RM_HML")
    BY <2>8, LatchValues
  <2>15. Fits(loc[1])
    <3>. HIDE DEF Fits
    <3>. QED BY <2>2, <2>9, <2>10, <2>11, <2>12, <2>13, <2>14 DEF OtherLocs
  <2>. QED BY <2>1, <2>15
<1>. QED BY <1>5, <1>6, <1>7, <1>8

-----------------------------------------------------------------------------
LEMMA ControlType == DataBusTypeOK => Control \in BusWords
BY DEF DataBusTypeOK, Control

LEMMA WriteViewStep ==
  ASSUME regs \in [0 .. 7 -> Words(24)], NEW loc \in BusLocs, IsView(loc), NEW x
  PROVE  WriteView(loc, x) \in [0 .. 7 -> Words(24)]
<1>. DEFINE v == ViewReg(loc)
            word == Insert(regs[v], ViewLow(loc), ViewWidth(loc), x)
<1>1. /\ v \in 0 .. 7 /\ ViewLow(loc) \in Nat /\ ViewWidth(loc) \in Nat
      /\ ViewLow(loc) + ViewWidth(loc) <= 24
  BY ViewType
<1>2. word \in Words(24)
  BY <1>1, InsertType
<1>3. WriteView(loc, x) = [regs EXCEPT ![v] = word]
  BY DEF WriteView
<1>. HIDE DEF v, word
<1>. QED BY <1>1, <1>2, <1>3

\* A write keeps every register within its width.
LEMMA RegsStep ==
  ASSUME DataBusTypeOK, NEW x \in Results, WriteBack(x)
  PROVE  regs' \in [0 .. 7 -> Words(24)]
<1>. DEFINE loc == Control.dest
<1>1. regs \in [0 .. 7 -> Words(24)] /\ x \in Words(24)
  BY BusAssumption DEF DataBusTypeOK
<1>2. loc \in BusLocs
  BY ControlType DEF BusWords
<1>3. regs' = RegsAfter(loc, x)
  BY DEF WriteBack
<1>. HIDE DEF loc
<1>4. CASE IsView(loc)
  <2>1. regs' = WriteView(loc, x)
    BY <1>3, <1>4 DEF RegsAfter, IsView, IsField, ByField
  <2>. QED BY <1>1, <1>2, <1>4, <2>1, WriteViewStep
<1>5. CASE IsField(loc) /\ ~ IsView(loc)
  <2>1. regs' = WriteFields(loc[1], x)
    BY <1>3, <1>5 DEF RegsAfter
  <2>. QED BY <1>1, <2>1 DEF WriteFields
<1>6. CASE ~ IsField(loc) /\ ~ IsView(loc)
  BY <1>1, <1>3, <1>6 DEF RegsAfter
<1>. QED BY <1>4, <1>5, <1>6

LEMMA TypeInit == Init => DataBusTypeOK
<1>1. IdleBusWord \in BusWords
  BY DEF IdleBusWord, BusWords, BusLocs, Locs, LocKinds, Loc, Sizes
<1>. QED BY <1>1 DEF Init, DataBusTypeOK, Words

LEMMA TypeStep ==
  ASSUME DataBusTypeOK, [Next]_vars
  PROVE  DataBusTypeOK'
<1>. USE DEF DataBusTypeOK
<1>1. CASE UNCHANGED vars
  BY <1>1 DEF vars, registers, memoryLatches, instruction
<1>2. CASE LatchInst
  <2>1. imm_words' \in [0 .. 4 -> Words(16)] /\ core_op' \in BusWords
    BY <1>2, BusAssumption DEF LatchInst
  <2>. QED BY <1>2, <2>1 DEF LatchInst, registers, memoryLatches
<1>3. CASE PresentMucode
  BY <1>3, BusAssumption
     DEF PresentMucode, registers, memoryLatches, instruction
<1>4. CASE PresentCore
  BY <1>4 DEF PresentCore, registers, memoryLatches, instruction
<1>5. CASE OperandLatch
  <2>1. Fetch(Control.src0) \in Words(24) /\ Fetch(Control.src1) \in Words(24)
    BY ControlType, FetchType DEF BusWords
  <2>2. \A loc : \A sign \in BOOLEAN : SignAfter(loc, sign) \in BOOLEAN
    <3>1. ASSUME NEW loc, NEW sign \in BOOLEAN
          PROVE  SignAfter(loc, sign) \in BOOLEAN
      <4>. DEFINE index == IsIndex(loc) /\ ~ InvalidIndex(IndexWord(loc))
                  bit11 == 11 \in IndexWord(loc)
      <4>1. SignAfter(loc, sign) = IF index THEN bit11 ELSE sign
        BY DEF SignAfter
      <4>2. bit11 \in BOOLEAN
        OBVIOUS
      <4>. HIDE DEF index, bit11
      <4>. QED BY <4>1, <4>2, Zenon
    <3>. QED BY <3>1
  <2>3. mucode_decoded_buffer' \in BusWords
    <3>1. mucode_decoded_buffer.sign1 \in BOOLEAN
      BY DEF BusWords
    <3>2. PICK sign \in BOOLEAN :
            mucode_decoded_buffer' = [mucode_decoded_buffer EXCEPT !.sign1 = sign]
      BY <1>5, <2>2, <3>1 DEF OperandLatch
    <3>. QED BY <3>2 DEF BusWords
  <2>. QED BY <1>5, <2>1, <2>3
            DEF OperandLatch, registers, memoryLatches, instruction
<1>6. ASSUME NEW x \in Results, WriteBack(x) PROVE DataBusTypeOK'
  <2>1. regs' \in [0 .. 7 -> Words(24)]
    BY <1>6, RegsStep
  <2>2. x \in Words(24)
    BY BusAssumption
  <2>3. wf' \in Words(16)
    <3>1. wf \in Words(16)
      OBVIOUS
    <3>2. \A low \in {0, 8} : Insert(wf, low, 8, x) \in Words(16)
      BY <3>1, InsertType
    <3>3. x \cap Below(16) \in Words(16)
      BY Cut
    <3>. QED BY <1>6, <3>1, <3>2, <3>3 DEF WriteBack, WfAfter
  <2>4. pgc' \in SUBSET (1 .. 23) /\ mem_addr' \in Words(24)
        /\ mem_data' \in Words(16)
    BY <1>6, <2>2, Cut DEF WriteBack, PgcAfter, MemAddrAfter, MemDataAfter
  <2>. QED BY <1>6, <2>1, <2>3, <2>4 DEF WriteBack, instruction
<1>. QED BY <1>1, <1>2, <1>3, <1>4, <1>5, <1>6 DEF Next

\* Registers, counter and latches keep the widths the hardware has, though a
\* write by a field stores what it is given.
THEOREM DataBusTypeCorrect == Spec => []DataBusTypeOK
BY TypeInit, TypeStep, PTL DEF Spec

-----------------------------------------------------------------------------
\* The bits put in place of others are found there.
LEMMA InsertRead ==
  ASSUME NEW low \in Nat, NEW width \in Nat, NEW word \in Words(24), NEW x
  PROVE  Down(Insert(word, low, width, x), low) \cap Below(width)
           = x \cap Below(width)
<1>. DEFINE put == Insert(word, low, width, x)
<1>1. ASSUME NEW i \in Below(width)
      PROVE  i + low \in put <=> i \in x
  <2>1. i \in Int /\ 0 <= i /\ i < width
    BY DEF Below
  <2>2. i + low \in low .. low + width - 1
    BY <2>1
  <2>3. i + low \in Up(x \cap Below(width), low) <=> i \in x
    <3>1. ASSUME NEW j \in Below(width), j + low = i + low PROVE j = i
      BY <2>1, <3>1 DEF Below
    <3>. QED BY <3>1 DEF Up
  <2>. QED BY <2>2, <2>3 DEF Insert
<1>2. \A j \in put : j \in Int
  BY DEF Insert, Words, Up, Below
<1>. HIDE DEF put
<1>3. ASSUME NEW i \in Below(width)
      PROVE  i \in Down(put, low) <=> i + low \in put
  <2>1. i \in Int /\ i + low >= low
    BY DEF Below
  <2>2. ASSUME NEW j \in put, i = j - low PROVE j = i + low
    BY <1>2, <2>1, <2>2
  <2>3. i = (i + low) - low
    BY <2>1
  <2>. QED BY <2>1, <2>2, <2>3 DEF Down
<1>4. Down(put, low) \cap Below(width) = x \cap Below(width)
  BY <1>1, <1>3 DEF put
<1>. QED BY <1>4 DEF put

LEMMA ReadsBackStep == DataBusTypeOK => ReadsBack
<1>. SUFFICES ASSUME DataBusTypeOK, NEW x \in Results, WriteBack(x),
                     Holds(Control.dest)
              PROVE  Fetch(Control.dest)'
                       = x \cap Below(DestWidth(Control.dest))
  BY DEF ReadsBack
<1>. DEFINE loc == Control.dest
<1>1. /\ regs \in [0 .. 7 -> Words(24)] /\ x \in Words(24)
      /\ wf \in Words(16)
  BY BusAssumption DEF DataBusTypeOK
<1>2. loc \in BusLocs
  BY ControlType DEF BusWords
<1>3. /\ regs' = RegsAfter(loc, x) /\ wf' = WfAfter(loc[1], x)
      /\ mem_addr' = MemAddrAfter(loc[1], x)
      /\ mem_data' = MemDataAfter(loc[1], x)
      /\ imm_words' = imm_words /\ loc' = loc /\ BufferSize' = BufferSize
  BY DEF WriteBack, Control, BufferSize, instruction
<1>. HIDE DEF loc
<1>5. CASE IsView(loc)
  <2>1. regs' = WriteView(loc, x)
    BY <1>3, <1>5 DEF RegsAfter, IsView, IsField, ByField
  <2>2. ViewReg(loc) \in 0 .. 7 /\ ViewLow(loc) \in Nat /\ ViewWidth(loc) \in Nat
    BY <1>2, <1>5, ViewType
  <2>3. regs'[ViewReg(loc)]
          = Insert(regs[ViewReg(loc)], ViewLow(loc), ViewWidth(loc), x)
    BY <1>1, <2>1, <2>2 DEF WriteView
  <2>4. Fetch(loc)' = Down(regs'[ViewReg(loc)], ViewLow(loc)) \cap Below(ViewWidth(loc))
    BY <1>3, <1>5 DEF Fetch, ReadView, IsView, IsField, IsIndex, ByField,
                      ViewReg, ViewLow, ViewWidth
  <2>5. DestWidth(loc) = ViewWidth(loc)
    BY <1>5 DEF DestWidth, IsView, IsField, ByField
  <2>6. regs[ViewReg(loc)] \in Words(24)
    BY <1>1, <2>2
  <2>. QED BY <2>2, <2>3, <2>4, <2>5, <2>6, InsertRead DEF loc
<1>6. CASE IsField(loc) /\ ~ IsView(loc)
  <2>. DEFINE r == FieldReg(loc[1])
  <2>1. r \in 0 .. 7 /\ (BufferSize = 0 => r < 4)
    BY <1>6, FieldRegType DEF Holds, IsView, IsField, ByField, loc
  <2>2. r \in FieldsFrom(loc[1])
    <3>1. PICK k \in DOMAIN ByField : ByField[k] = loc[1]
      BY <1>6 DEF IsField
    <3>2. k \in 1 .. 5 /\ k \in 1 .. k
      BY <3>1 DEF ByField
    <3>. QED BY <3>1, <3>2 DEF FieldsFrom
  <2>3. regs'[r] = x
    BY <1>3, <1>6, <2>1, <2>2 DEF RegsAfter, WriteFields
  <2>4. FieldReg(loc[1])' = r
    BY <1>3 DEF FieldReg
  <2>5. Down(x, 0) = x
    <3>1. \A i \in x : i \in Int /\ i >= 0 /\ i - 0 = i
      BY <1>1 DEF Words, Below
    <3>. QED BY <3>1 DEF Down
  <2>6. CASE BufferSize = 0
    <3>1. Fetch(loc)' = Down(regs'[r], 0) \cap Below(8)
      BY <1>3, <1>6, <2>1, <2>4, <2>6
         DEF Fetch, IsView, IsField, IsIndex, ByField, ReadView, Banked,
             ViewReg, ViewLow, ViewWidth
    <3>2. DestWidth(loc) = 8
      BY <1>6, <2>6 DEF DestWidth, IsView, IsField, ByField
    <3>. QED BY <2>3, <2>5, <3>1, <3>2 DEF loc
  <2>7. CASE BufferSize # 0
    <3>1. Fetch(loc)' = Down(regs'[r], 0) \cap Below(24)
      BY <1>3, <1>6, <2>1, <2>4, <2>7
         DEF Fetch, IsView, IsField, IsIndex, ByField, ReadView, Banked,
             ViewReg, ViewLow, ViewWidth
    <3>2. DestWidth(loc) = 24
      BY <1>6, <2>7 DEF DestWidth, IsView, IsField, ByField
    <3>. QED BY <2>3, <2>5, <3>1, <3>2 DEF loc
  <2>. QED BY <2>6, <2>7
<1>7. CASE loc[1] \in {"REG__F", "REG__W", "REG_WF"}
  <2>1. Fetch(loc)' = FetchLatch(loc[1])'
    BY <1>3, <1>7 DEF Fetch, IsView, IsField, IsIndex, ByField
  <2>2. Down(Insert(wf, 8, 8, x), 8) \cap Below(8) = x \cap Below(8)
        /\ Down(Insert(wf, 0, 8, x), 0) \cap Below(8) = x \cap Below(8)
    BY <1>1, InsertRead, Wider
  <2>3. /\ Insert(wf, 8, 8, x) \in Words(16) /\ Insert(wf, 0, 8, x) \in Words(16)
    BY <1>1, InsertType
  <2>4. CASE loc[1] = "REG__F"
    <3>1. Fetch(loc)' = Insert(wf, 0, 8, x) \cap Below(8)
      BY <1>3, <2>1, <2>4, LatchValues DEF FetchLatch, WfAfter
    <3>2. Down(Insert(wf, 0, 8, x), 0) = Insert(wf, 0, 8, x)
      BY <2>3 DEF Down, Words, Below
    <3>3. DestWidth(loc) = 8
      BY <2>4 DEF DestWidth, IsView, IsField, ByField
    <3>. QED BY <2>2, <3>1, <3>2, <3>3 DEF loc
  <2>5. CASE loc[1] = "REG__W"
    <3>1. Fetch(loc)' = Down(Insert(wf, 8, 8, x), 8)
      BY <1>3, <2>1, <2>5 DEF FetchLatch, WfAfter
    <3>2. Down(Insert(wf, 8, 8, x), 8) \subseteq Below(8)
      BY <2>3 DEF Down, Words, Below
    <3>3. DestWidth(loc) = 8
      BY <2>5 DEF DestWidth, IsView, IsField, ByField
    <3>. QED BY <2>2, <3>1, <3>2, <3>3 DEF loc
  <2>6. CASE loc[1] = "REG_WF"
    <3>1. Fetch(loc)' = x \cap Below(16)
      BY <1>3, <2>1, <2>6 DEF FetchLatch, WfAfter
    <3>2. DestWidth(loc) = 16
      BY <2>6 DEF DestWidth, IsView, IsField, ByField
    <3>. QED BY <3>1, <3>2 DEF loc
  <2>. QED BY <1>7, <2>4, <2>5, <2>6
<1>8. CASE loc[1] \in {"MEM_ADDR", "MEM_DATA"}
  <2>1. Fetch(loc)' = FetchLatch(loc[1])'
    BY <1>3, <1>8 DEF Fetch, IsView, IsField, IsIndex, ByField
  <2>2. CASE loc[1] = "MEM_ADDR"
    <3>1. Fetch(loc)' = x
      BY <1>3, <2>1, <2>2 DEF FetchLatch, MemAddrAfter
    <3>2. DestWidth(loc) = 24
      BY <2>2 DEF DestWidth, IsView, IsField, ByField
    <3>. QED BY <1>1, <3>1, <3>2 DEF loc, Words
  <2>3. CASE loc[1] = "MEM_DATA"
    <3>1. Fetch(loc)' = x \cap Below(16)
      BY <1>3, <2>1, <2>3 DEF FetchLatch, MemDataAfter
    <3>2. DestWidth(loc) = 16
      BY <2>3 DEF DestWidth, IsView, IsField, ByField
    <3>. QED BY <3>1, <3>2 DEF loc
  <2>. QED BY <1>8, <2>2, <2>3
<1>9. IsView(loc) \/ IsField(loc) \/ loc[1] \in {"REG__F", "REG__W", "REG_WF"}
      \/ loc[1] \in {"MEM_ADDR", "MEM_DATA"}
  BY DEF Holds, loc
<1>. QED BY <1>5, <1>6, <1>7, <1>8, <1>9

\* What was written to a destination that holds it is what is read there.
THEOREM ReadBack == Spec => WrittenIsReadBack
BY ReadsBackStep, DataBusTypeCorrect, PTL DEF WrittenIsReadBack
=============================================================================
