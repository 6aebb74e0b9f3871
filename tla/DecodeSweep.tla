---------------------------- MODULE DecodeSweep -----------------------------
(***************************************************************************)
(* The decoder applied to every opcode in turn, each time to cleared       *)
(* work_regs: what one instruction decodes to by itself.                   *)
(***************************************************************************)
EXTENDS DecodeInst

CONSTANT LastOpcode

ASSUME LastOpcodeAssumption == LastOpcode \in Opcode

VARIABLES opcode, decoding

vars == <<opcode, decoding>>

Init == opcode = 0 /\ decoding \in DecodeOpcode(ZeroInst, 0)

DecodeNext ==
  /\ opcode < LastOpcode
  /\ opcode' = opcode + 1
  /\ decoding' \in DecodeOpcode(ZeroInst, opcode')

Spec == Init /\ [][DecodeNext]_vars

-----------------------------------------------------------------------------
core == decoding.inst.core
before == decoding.inst.before
after == decoding.inst.after

MemoryModes == {"pre-decrement", "indexed", "PGC relative", "absolute",
                "post-increment", "indirect", "relative"}
InMemory(rm) == Mode(rm) \in MemoryModes

TypeOK == opcode \in 0 .. LastOpcode /\ decoding \in Decodings

\* The operands of an opcode: its RM specifiers, whether each is read and
\* written, in the terms of the comments of cpu_decode.c.
TwoOperands == IsLdGroup(opcode) /\ (opcode \div 64) % 4 # 3
OneSource == IsLdGroup(opcode) \/ (IsArithLogic(opcode) /\ ~ ImmForm(opcode))

\* A right operand is taken from MEM_DATA exactly when its mode is one of
\* memory, and then something runs before core_op; the K-map of
\* rm_requires_mem_fetch_ and the branches of decode_rm_specifier are two
\* encodings that must agree on every specifier.
SourceFetchedWhenInMemory ==
  OneSource =>
    /\ (core.src1 = MemData) <=> InMemory(SrcRM(opcode))
    /\ InMemory(SrcRM(opcode)) /\ Mode(SrcRM(opcode)) # "absolute"
         => before.idx # "NONE" /\ ~ before.wr
    /\ ~ InMemory(SrcRM(opcode)) => before.idx = "NONE"

\* The destination of LD is written by run_after exactly when it is in
\* memory, by the entry of its mode, for the second RM operand.
DestinationStoredWhenInMemory ==
  /\ TwoOperands /\ InMemory(DestRM(opcode))
       => /\ after.wr /\ after.sel \div 16 = 1
          /\ Mode(DestRM(opcode)) # "absolute" =>
               after.idx = ProgramOperand(NoSpec, DestRM(opcode)).idx
  /\ ~ (TwoOperands /\ InMemory(DestRM(opcode))) => after.idx = "NONE"

\* Only a read-modify-write has core_op write memory: the immediate form
\* with its operand in memory, which is also the only place MEM_DATA is a
\* destination; CP (operation 7) keeps the write-back and drops only dest.
WriteBackOnlyForImmediateForm ==
  /\ core.latch = "HALF2_MAR" <=> ImmForm(opcode) /\ InMemory(SrcRM(opcode))
  /\ core.dest = MemData => core.latch = "HALF2_MAR" /\ core.src0 = MemData
  /\ core.latch = "HALF2_MAR" => core.write = "FROM_DEST"
=============================================================================
