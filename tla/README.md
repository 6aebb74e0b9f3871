# Hexheld Pilot CPU: a TLA+ verification project

The repository is the beginning of an emulator of the Hexheld console: the
Pilot CPU, a pipelined processor with microcode, in `src/pilot-cpu/` (2519
lines of C). It has no tests, no main loop and no fetch unit; its
documentation is the comments of `cpu_decode.c`, `memory_bus.c` and
`types.h`. This project models that CPU in TLA+, checks the models with TLC and
proves part of what they show with TLAPS.

## Inventory

| Part | State | Operations | Interacts with |
|---|---|---|---|
| Memory controller (`memory_bus.c`, `pilot.h`) | `memctl`: state, `data_valid`, address and two data registers | read assert, write assert, data wait, get data, tick | called by the execute stage and, in the design, the fetch unit |
| Microcode ROM (`cpu_mucode.c`) | none | `decode_mucode_entry` | called by the sequencer |
| Instruction decoder (`cpu_decode.c`, `cpu_decode_rm.c`) | writes `work_regs`, `rm_ops` | `decode_inst_`, `decode_rm_specifier` | called by the decode stage; reads extension words of the fetch unit |
| Decode stage (`cpu_decode.c`) | `decoding_phase`, `work_regs` | `pilot_decode_half1`, `pilot_decode_half2` | fetch unit; the interconnect |
| Execute stage (`cpu_execute.c`) | phases of the cycle and of the sequencer, the latched instruction, the microcode registers, memory address and data registers, ALU latches | `pilot_execute_half1`, `pilot_execute_half2`, `pilot_execute_sequencer_advance` | interconnect, ROM, memory controller, registers |
| ALU, shifter, flags (`cpu_execute.c` 455-713) | carry of the shifter, `alu_output_latch` | `execute_half2_result_latch_`, `alu_operate_shifter_`, `alu_modify_flags_` | called by the second half; control from the decoder and the ROM |
| Register file (`fetch_data_`, `write_data_`, `cpu_regs.h`) | `Pilot_cpu_regs`: 8 registers of 24 bits, WF, PGC | read and write behind a `data_bus_specifier`; nothing calls the write | called by the first half; shares memory and instruction latches with it |
| Interconnect (`cpu_interconnect.h`) | `decoded_inst_semaph`, a pointer to the decode stage's record | assignments by both stages | decode and execute |
| Fetch unit | not in the repository; `decode_try_read_word_` is its interface | - | decode stage |
| Driver | not in the repository | calls the halves, the sequencer and the tick | everything |

What is hard here:

* The two stages share *one* record and a flag; whether the record can change
  under the reader depends on the order of calls nobody has written yet.
* A half of the execute stage may return early and be called again at four
  places; the sequencer falls through up to six phases in one call.
* Memory accesses are split over asserts, ticks and waits, with an answer that
  is visible for one tick.
* A decoded instruction is a record of which each group assigns some fields.
* The ROM and the RM decoder rely on uninitialised automatic variables.
* Values of 8, 16 and 24 bits pass through one 32-bit temporary, cut at some of
  its steps; registers are reached through 8-, 16- and 24-bit views that overlap.

What makes each part correct:

* controller: an accepted access is held and completed; its data latch changes
  only by an answer;
* ROM: one access per program, the register that addressed memory is the one
  auto-indexed, programs end;
* decoder: an operand in memory, and no other, is fetched or stored; decoding
  depends on the instruction alone;
* execute stage: the words of an instruction are carried out once and in order,
  operands are not read while awaited, an access held on the bus is the one
  asserted;
* decode and execute together: instructions are handed over whole, once;
* ALU: sums, shifts and flags are those of numbers of the size of the operation;
* register file: what is written to a register is what the same name reads next,
  and registers and latches keep their widths.

`PROJECT.json` lists the hazards line by line, and the properties for each.

## Modules

| Module | Models | Notes |
|---|---|---|
| `Instruction` | `types.h` | the decoded instruction, a control word, a microcode specification |
| `Interconnect` | `cpu_interconnect.h` | the shared record and the semaphore |
| `MemoryBus` | `memory_bus.c` | also a stand-alone specification with arbitrary clients |
| `Mucode` | `cpu_mucode.c` | an entry is a *set* of words, one for each value its unassigned fields may have |
| `MucodeProgram` | `pilot_execute_sequencer_mucode_run` iterated | a program from its start to its end |
| `DecodeInst` | `decode_inst_`, `decode_rm_specifier` | pure: a function of the opcode and of what `work_regs` holds |
| `DecodeSweep` | the same for opcodes 0 to 65535 | each from cleared `work_regs` |
| `Decode` | `pilot_decode_half1/2` and the fetch queue | |
| `Execute` | `cpu_execute.c` 349-453 and 612-893 | phases, memory access, sequencer |
| `ExecuteUnit` | `Execute` with a source of instructions and a bus | |
| `Bits` | `uint32_t` arithmetic | a word is the set of its bits, so that masks are intersections and no number exceeds 32 bits |
| `Alu` | `cpu_execute.c` 455-713 | pure: from control word, latches and F to the possible results |
| `AluControl` | ALU fields of `cpu_decode.c` and `cpu_mucode.c` | which sizes, signs, negations and flag masks each opcode and entry asks for |
| `AluSweep` | one step of `execute_half2_result_latch_` | compared with arithmetic on numbers |
| `DataBus` | `fetch_data_`, `write_data_`, the operand latch | registers by view and by field, the two control words they depend on |
| `Handoff` | the abstract promise between the stages | a one-place slot |
| `Pipeline` | `Decode`, `Execute`, `MemoryBus` composed | refines `Handoff` |
| `MC*` | instances for TLC | |
| `*Proofs` | theorems for TLAPS | |

`Pipeline` extends `Decode` and `Execute`, which both extend `Interconnect`, so
the shared record and semaphore are the same variables, as in the code. An
action is one call of a C function; the phases a call runs through without
returning have no state, those in which it may return do. The names of actions
and variables are those of the code.

What is abstract:

* *Values.* `Addr` is a small set of 24-bit numbers. A register, an immediate or
  an ALU result is any of them; `MEM_DATA` is the memory data register,
  which is kept, as are the address register and the ALU latches that accesses
  are made with. `alu_input_latches[1]` is chosen where it is used.
* *Control words* have three parts, each in the module that reads it: operand
  locations, destination, ALU operation and memory control in `Instruction`; what
  only the ALU reads (sizes, sign extension, negation, shifter, flags) in
  `Alu`; locations and sizes of the data bus in `DataBus`. `Execute`, whose
  values are abstract, is therefore a superset of the stage with those values.
* *Uninitialised variables.* A field of a microcode word nobody assigns may have
  any value; a write through the uninitialised `run_mucode` reaches one of the
  fields it may still point at, or none of them.
* *Undefined behaviour that may end the process.* Three accesses of the code are
  invalid wherever they happen: `mem_read` indexes the 0xc00 bytes of `hram` with
  a bus address of 0xfff280 or more (`memory_bus.c:49`); a second RM operand that
  is not in memory is stored to through an uninitialised pointer
  (`cpu_decode_rm.c:157`); a first half called before the sequencer has chosen a
  word follows the null pointer `control` (`cpu_execute.c:439`). For the first
  two the model has every outcome: an arbitrary word read or a field written, or
  the end of the process, which the variable `crashed` records. The third always
  ends it (`TickFaults`, `DecodeFaults`, `Half1Faults`). A process that has ended
  does nothing more; the liveness properties of `Pipeline` are about those that
  have not.
* *The shared record.* No statement of the repository assigns
  `interconnects.decoded_inst`. The models assume that it points at the decode
  stage's `work_regs`, the only record of its type the code fills. As the code
  stands the first instruction taken (`cpu_execute.c:840`) follows a null pointer.
* *External code.* `decode_not_implemented_`, `decode_invalid_opcode_` and the
  `..._unreachable_` functions are declared only; they are taken to return. The
  fetch unit is a queue of `FetchDepth` words: the comment of `cpu_decode.c`
  gives a two-word prefetch queue and a one-word latch. `BusRead`/`BusWrite`
  and `OtherClient` are clients of the controller that the code provides for.
* *Left out:* `words_to_read` (zero for ever: `decode_queue_read_word` has no
  caller), `inst_length`, `pgc`, `wait_cycles_left`.
* *The driver.* No code calls the stages, and the execute stage's state type is
  private to `cpu_execute.c`. `write_data_` has no caller either: `WriteBack` in
  `DataBus` is the call that `control->dest` asks for. `Next` allows the halves of
  both stages and the tick at any time and in any order. The sequencer is not
  called at any time: `DriverAdvance`, the driver the models assume, calls it when
  a word has been carried out, and again while there is no instruction to take.
  No statement of the code returns `execution_phase` to `EXEC_HALF1_READY`; the
  driver does, when there is a word to run. What is shown holds for drivers of
  that kind only: one that calls the sequencer in the middle of a word replaces
  the word under the halves.
* `trail` is a history variable: the words of the instruction carried out so far,
  each with its stage. No guard reads it.

Definitions whose comment starts with "Mutant" are plausible mistakes in the
definition that follows; each breaks a property named in `PROJECT.json`, and
no specification uses them.

## Runs

Run any of them with `tlc -config <cfg> <module>`.

| Configuration (module) | Bounds | States | Result |
|---|---|---|---|
| `MCMemoryBus` | 4 addresses: work RAM, I/O page, both ends of high RAM | 193 | holds: the controller's promises, and a read of high RAM does not stay outstanding: its tick answers it or ends the process |
| `MCMucodeProgram` (`MucodeProgram`) | every specification, programs of up to 4 words | 10176 | holds: one access, same register, the program ends |
| `MCExecuteUnit` | 8 instructions covering each stage and each direction of access, other clients on the bus | 1659564 | holds: phase and word agree, operands are waited for, and exactly the words of each instruction run, once and in order, all but the last word of `run_before`, which never runs (see `MCExecuteBefore`) |
| `MCDecodeSweep` (`DecodeSweep`) | all 65536 opcodes | 69792 | holds: operands in memory, and only they, are fetched, stored and written back |
| `MCPipeline` | 5 opcodes (register, post-increment, store, read-modify-write, unimplemented), queue of 2, fair | 275900 | holds: the access held is the stage's own, the handoff is whole and implements `Handoff`; while only register instructions come and the process lives each is taken and the queue drains |
| `MCAluSweep` | an opcode of each group, size and operation, opcodes with immediates of every kind against each size, each microcode entry, each shifter mode; 11 operands, 3 flag bytes | 56958 | holds: which sums, signs, overflows, parities and shifts are exact |
| `MCDataBus` | 9 instructions, 3 microcode words, 2 results | 37165 | holds: widths, and what is written is read back |
| `MCMemoryBusRead` (`MCMemoryBus`) | as `MCMemoryBus` | | violated: a read of high RAM may end the process |
| `MCMemoryBusWrite` (`MCMemoryBus`) | as `MCMemoryBus` | | violated: a write leaves the controller busy for ever |
| `MCExecuteBefore` (`MCExecuteUnit`) | loads | | violated: last word of `run_before` skipped |
| `MCExecuteBusy` (`MCExecuteUnit`) | loads, other clients | | violated: a refused access is dropped |
| `MCPipelineStale` (`MCPipeline`) | 3 opcodes | | violated: an instruction depends on the one before |

*Why the bounds suffice.* The controller and the stages only compare an address
with the limits of the memory map and never two addresses, so one address per
region (answered or not) exercises every branch. A queue of two words lets a
decoder find none, one or both of the words it wants. Each instruction set
has every kind of program the sequencer distinguishes; a third instruction in
flight has nowhere to be. `MaxWords = 4` is above the longest program (2).
Operands of the ALU are the numbers on both sides of every place where a size
ends, a sign changes or the 16-bit shifter cuts; with the flag bytes they meet
each control word in every combination. Operand sizes differ where the decoder
makes them differ: an immediate of 16 or 24 bits against a byte, word or long on
either side. The two results written differ in every byte, one instruction names
the same register in all its fields and one names three, and a microcode word of
each size runs before `core_op`.
The deadlock check is off only for the two sweeps and for microcode programs,
which end.

*Fairness.* Safety needs none. `BusFairSpec` assumes the controller is ticked.
`Pipeline`'s `FairSpec` assumes that the driver keeps calling each stage while
the process lives and the fetch unit keeps delivering. Progress is claimed for
behaviours with register instructions only whose process lives
(`[](RegisterOnly /\ ~ crashed) => ...`), within the run that also has others:
with memory accesses the code really stops (an access below high RAM is never
answered, a write never completes).

## Where code and comments disagree

Each of these is a run that TLC refutes; `PROJECT.json` quotes both sides.

1. `MCMemoryBusWrite`: the tick completes only reads, so one write disables the
   controller.
2. `MCExecuteBusy`: the result of the assert functions is tested the wrong way
   round (`MCTL_READY` is 0), so a half waits when its access is accepted and
   goes on when it is refused.
3. `MCExecuteBefore`: `core_op` replaces the last word of `run_before`.
4. `MCPipelineStale`: fields of the previous instruction survive decoding.
5. `MCMemoryBusRead`: `mem_read` indexes `hram`, which has 0xc00 bytes, with the
   bus address and not with its offset in high RAM. Every address it answers
   (0xfff280 and up, without the I/O page) is outside the array, so each answered
   read is undefined behaviour and in practice ends the process. In the models it
   may also give an arbitrary word, so that what comes after a read is checked.

Others are plain in the code, are modelled as the code has them, and have no run
of their own. In the stages:

* nothing leaves `EXEC_ADVANCE_SEQUENCER` (`cpu_execute.c:770`), so without a
  caller that does, instructions are replaced without being carried out;
* an access of a first half does not latch its address, which `types.h:268` says
  is ALU src0: `execute_half1_mem_prepare_` never assigns `mem_addr`
  (`cpu_execute.c:373`);
* a half that goes on after a refused access raises `mem_access_waiting`, and
  then takes the answer to somebody else's read for its own.

In the decoder and the ROM:

* the absolute mode assigns no `entry_idx`, so nothing fetches its operand,
  although the comment says "source only, fetch" (`cpu_decode_rm.c:62`, 117);
* `case 15` of the operation switch has no `break` and runs into
  `decode_unreachable_` (`cpu_decode.c:305`);
* CALL rm24 and CEA are cases 0x0100 and 0x0140 of a switch reached only when
  that bit is clear (`cpu_decode.c:137-155`): they can never be decoded;
* `is_write = is_dest` also for an operand that is both source and destination
  (`cpu_decode_rm.c:66`), so the `run_before` of a read-modify-write is marked as
  a write;
* `!(rm_ops == 1) ? ..._1 : ..._2` gives the first RM operand the latches of the
  second (`cpu_decode_rm.c:73`, 127);
* two-cycle microcode entries never assign `mem_write_ctl`
  (`cpu_mucode.c:137-258`), which may then be `MEM_WRITE_FROM_SRC1`, a value
  `cpu_execute.c:729` reserves for first halves; no entry assigns
  `src2_add_carry`, so an address may have the carry added to it;
* an immediate operand names a latch but is not read from the fetch queue
  (`cpu_decode.c:323-338`), and is decoded as the next instruction;
* `invert_carries` and every shifter mode but `SHIFTER_NONE` are assigned nowhere,
  `flag_c_mode` and `flag_d` are read nowhere.

In the ALU and the register file:

* every right operand passes the shifter, which takes and returns `uint16_t`
  (`cpu_execute.c:456`): a 24-bit subtraction, a negative displacement or a
  24-bit load is cut to 16 bits. `SumExact` says exactly when a sum or a load is right;
* V is read from the signs after negation: wrong when the least number is
  subtracted, or the greatest is added with a carry (`OverflowExact`);
* an immediate gives its source 16 or 24 bits whatever the size of the instruction
  (`cpu_decode_rm.c:126`), so operands of two sizes meet. A byte subtracted from a
  word is negated and cut to 8 bits: opcode 0x3ae1, SUB.8 of the immediate form,
  leaves 0x00ff for 0 - 1, with S clear. With opcode 0x2021, ADD.8 of a 16-bit
  immediate, V is the overflow of the low bytes. `SumExact`, `SignAndZero` and
  `OverflowExact` say when the result and the flags are right all the same;
* the carry is shifted into bits 1 and 0 of the flags and F_CARRY is bit 3
  (`cpu_execute.c:603`), so every addition clears F_CARRY; and it is the carry
  *into* the top bit (`carries & 0x80`), not the one out of it;
* after a logic operation V is set for an *odd* number of ones (`ParityOdd`);
  `types.h:333` says of the condition "parity even";
* after a logic operation the whole parity word is or-ed into the flags, over S
  and Z (`cpu_execute.c:590`);
* the flags computed are a local variable that nobody stores
  (`cpu_execute.c:709`);
* with the ALU off and the decimal flag up, an uninitialised variable decides
  whether 16 is added to the old result (701); the adjustment itself tests the
  carry into bit 3 and not the one out of it;
* an 8-bit sum is cut to 24 bits and not to 8 before it becomes a register or an
  address;
* the specifiers that name a register by a field have no `return` in
  `write_data_` (`cpu_execute.c:321-330`): the fields of the cases below name
  further registers that are written too, all of them whole whatever the size.
  `types.h:192` says "Registers from a 3-bit value";
* a byte register 4 to 7 named by a field is read from the middle bytes of
  registers 0 to 3 and written to the whole of registers 4 to 7 (171, 322);
* immediates, field registers and `DATA_SIZE` take their size from
  `mucode_decoded_buffer` even while `core_op` runs (`cpu_execute.c:74`, 151):
  it is that of the microcode word presented last, perhaps for an earlier
  instruction.

## Proofs

TLAPS checks these for *every* value of the constants: any set of data bus
values with 0 in it, any set of instructions or opcodes, any depth of the fetch
queue, any set of the control words there are, with any operands of 24 bits and
any flags. Run `tlapm` on each module. Every invariant and action property of
the passing runs is the statement of one of them.

| Theorem | Module | States |
|---|---|---|
| `BusTypeCorrect` | `ExecuteProofs` | `[]BusTypeOK` |
| `AcceptedAccessHeld` | `ExecuteProofs` | `AccessHeld`: no client replaces an accepted access |
| `LatchStable` | `ExecuteProofs` | `LatchChangesOnlyByAnswer` |
| `DecodeOpcodeType` | `DecodeInstProofs` | every 16-bit word decodes to a member of `Insts`, whatever `work_regs` held |
| `UnitTypeCorrect` | `ExecuteUnitProofs` | `[]ExecuteTypeOK` |
| `ProgramAccessesOnce` | `MucodeProofs` | `[]OneAccessPerProgram` |
| `ProgramUpdatesOnce` | `MucodeProofs` | `[]AutoIndexSameRegister` |
| `SequencerInPhase` | `ExecuteUnitProofs` | `[]SequencerHasWord` |
| `InstructionsRetire` | `ExecuteUnitProofs` | `InstructionRetires`: exactly the words of an instruction are carried out, once and in order, but the last of `run_before` |
| `OperandsAwaited` | `ExecuteUnitProofs` | `[]OperandNotAwaited` |
| `TypeCorrect` | `PipelineProofs` | `[]TypeOK` of the whole processor |
| `DispatchWaits` | `PipelineProofs` | `[]WaitsForDispatch` |
| `HeldAccess` | `PipelineProofs` | `[]HeldAccessIsOurs` |
| `PipelineImplementsHandoff` | `PipelineProofs` | `Spec => HandoffRefined` |
| `AluTypeCorrect` | `AluProofs` | `[]TypeOK` of the ALU's step |
| `OutputHas24Bits` | `AluProofs` | `[]OutputFits` |
| `SumsExact` | `AluProofs` | `[]SumExact`: sums are true sums modulo the size of their left operand exactly when the right one fits what it is cut to |
| `SignAndZeroOfSum` | `AluProofs` | `[]SignAndZero` |
| `OverflowOfSum` | `AluProofs` | `[]OverflowExact`: when V is the signed overflow |
| `ParityOfLogic` | `AluProofs` | `[]ParityOdd` |
| `ShiftsExact` | `AluProofs` | `[]ShiftExact`: the number and the carry each shift leaves |
| `SweepTypeCorrect` | `DecodeSweepProofs` | `[]TypeOK` of the sweep |
| `SourcesFetched` | `DecodeSweepProofs` | `[]SourceFetchedWhenInMemory` |
| `DestinationsStored` | `DecodeSweepProofs` | `[]DestinationStoredWhenInMemory` |
| `OnlyImmediateWritesBack` | `DecodeSweepProofs` | `[]WriteBackOnlyForImmediateForm` |
| `DataBusTypeCorrect` | `DataBusProofs` | `[]DataBusTypeOK` |
| `ReadBack` | `DataBusProofs` | `WrittenIsReadBack` |

*Assumptions.* `AddrAssumption` (values are numbers, 0 is one: the registers are
zero-initialised), `OfferedAssumption` (a decode stage offers instructions),
`DecodeAssumption` (words have 16 bits, the queue holds at least one),
`NoInstAssumption` (the value that stands for an empty slot is no instruction),
`MaxWordsAssumption` (the bound is above the longest program),
`SweepAssumption` (the control words are those the decoder and the ROM make, and
the shifts, which nothing decodes to; operands have 24 bits),
`LastOpcodeAssumption` (opcodes have 16 bits), `BusAssumption` (instructions
have 16-bit words, results 24 bits: the latter is `OutputHas24Bits`).
TLC evaluates each of them in the runs of the modules that extend theirs.

*The argument.* `ExecuteProofs` says what one step of the execute stage
preserves, whatever it is composed with; `ExecuteUnitProofs` and
`PipelineProofs` use the same lemmas. The invariants that are not inductive are
strengthened:

* `SequencerHasWord` by `SequencerInv`: `FINAL_STEPS` follows a program of the
  instruction only because `OVERRIDE_OP` and `RUN_AFTER` are entered for
  instructions that have one.
* `OperandNotAwaited` by `AccessInv`: a half waits in `HALF1_MEM_ASSERT` only
  with an access of its own word. Otherwise a word that asserts nothing could
  leave that phase with `mem_access_waiting` up.
* the types by `work_regs \in Insts`, which rests on `DecodeOpcodeType` in the
  processor, and on `MucodeEntryType`: each word the ROM may present is a control
  word, whatever its unassigned fields hold.
* `HandoffRefined` by `HandoffInv`: offering is a step of `Handoff` only if what
  is offered is an instruction, and decoding is a stutter only if the semaphore
  is down, which is `WaitsForDispatch`.

* `InstructionRetires` by `TrailInv`: the words carried out are a beginning of the
  program of the instruction, of the length that the phases and the position of
  the word being run in its microcode program say. It needs `SequencerInv` (in which phase
  which program runs) and `HalvesHaveWord` (a half without a word does nothing).
  TLC checked it first.
* The two promises of microcode programs by `ProgramInv`: a program is at its
  start, has presented one word and has the update before it, or is finished
  with the words its start determines.
* `OutputFits` by `ControlInv`: the sum is cut to 24 bits; what AND, OR and XOR
  return is not, and fits because the left operand was cut and not extended and
  the right one passed the 16-bit shifter.
* The data bus by its type invariant alone, and lemmas on views: a view lies in
  one register, and inserting and extracting at the same place are inverse.
* The sweep by `SweepInv`: what is seen is a decoding of its opcode. The rest is
  about the decoder: `ModeTable` says which entry each addressing mode takes and
  whether it is in memory, one lemma per group what core_op, `run_before` and
  `run_after` become, and `GroupsCover` that every opcode is in a group.
* The ALU by `ResultInv`: the latches hold what the control word reads, and the
  output and flags are a result of theirs. It rests on `ControlShape`, which goes
  through the decoder's groups and the ROM's entries: whatever is negated, or
  writes flags, has no sign extension, and no word extends the left operand. The
  two sizes may differ: immediates make them (`SourceSize`), and some entries.
  From there:
  + `SumsExact`: `CarryStep` is the rule of a full adder for the set of carries,
    so `ByteSum` holds by eight of its steps and `NumberSum` by three bytes;
    `MinusNumber` and `OperandNumber` are complement and extension on numbers;
    `RightNumber` puts them together, modulo the size, and `RightCut` says what
    the size of a negated operand and the 16-bit shifter take away.
  + the flags from `SizedBits` (the top bit of a word is that its number is in the
    upper half) and `OverflowRule`, which is about numbers only and shows both
    exceptions that `OverflowExact` names.
  + parity from `FoldByte` (three folds bring the parity of a byte to its lowest
    bit) and shifts from `UpNumber` and `DownNumber`, one bit at a time.

  A word has 24 bits at most, so the number it stands for is a sum of three
  bytes of eight bits and not a fold; that is why this needs no induction.

*Only model-checked*: liveness (`HramReadEnds`, `ProgramEnds`, `HandoffLive`,
`WordsConsumed`), which the prover does not reach. The reading of the C code that
the modules are stays a matter of reading: no proof says that `Alu` is
`cpu_execute.c`.

## Order of the work

Modelled first to last, each with its runs and then its theorems: `MemoryBus`,
`Mucode`, `DecodeInst`, `Decode`, `Execute`, their compositions and the
refinement of `Handoff`, `Alu` with `AluControl`, `DataBus`. What is open:

1. When the repository gets a caller of `write_data_` and a home for the flags:
   join `Alu`, `DataBus` and `Execute` on one control word, so that a value goes
   from operand to register.
2. When it gets a fetch unit: a client of the controller in `Pipeline`, with
   progress of loads from high RAM.
3. When the tests of the assert functions are corrected: `BlocksWhileBusy` as an
   invariant, and that the word taken by a wait is the one that was asked for.

## Not modelled

* *The fetch unit and branches.* They exist as a comment in `cpu_decode.c`; the
  functions that would carry them out are declared and nowhere defined. A module
  written from the comment would model no code. The queue of `Decode` is what the
  decode stage can see of it. For the same reason `decode_inst_branch_`, which
  only calls placeholders, changes nothing in `DecodeInst`.
* *A driver.* No code calls the stages; what the models assume of one is in the
  section on modules.
* *Work RAM, video and I/O memory.* `mem_read` has empty branches for them. A read
  there is never answered, which is what the model does.
* *Joined values.* `Execute` does not compute with `Alu`: registers never change in
  the code, so the joined model would show nothing beyond the two parts.
* `README.md`, `COPYING` and `.clangd` of the repository contain nothing that runs.
