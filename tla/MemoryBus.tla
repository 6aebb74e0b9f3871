----------------------------- MODULE MemoryBus -----------------------------
(***************************************************************************)
(* The memory controller of pilot-cpu/memory_bus.c and its state           *)
(* sys->memctl (pilot.h).  Any number of clients assert accesses; one      *)
(* access at a time is outstanding; Pilot_memctl_tick tries to answer it.  *)
(*                                                                         *)
(* Addresses are numbers, so that the memory map is the one of the code.   *)
(* mem_read indexes sys->hram with the bus address itself, which lies      *)
(* outside that array for every address it answers.  That is undefined     *)
(* behaviour: the tick either finds an arbitrary word, or the process      *)
(* ends and crashed records it.                                            *)
(***************************************************************************)
EXTENDS Naturals

\* The values that appear on the internal data bus, which is 24 bits wide.
\* (What is proved holds without that bound.)
CONSTANT Addr

ASSUME AddrAssumption == Addr \subseteq Nat /\ 0 \in Addr

VARIABLES
  memctl,
  crashed   \* The process has ended in an invalid memory access.

\* MCTL_DATA_LATCHED is declared by the code and never used.
MctlStates == {"READY", "R_BUSY", "W_BUSY"}

\* The accesses outside the CPU are 16 bits wide.
Low16(v) == v % 65536
Word == {Low16(a) : a \in Addr}

OAM_END    == 16773759   \* 0xfff27f
HCIO_START == 16773888   \* 0xfff300
HCIO_END   == 16774143   \* 0xfff3ff
HRAM_END   == 16777215   \* 0xffffff
HRAM_SIZE  == 3072       \* The bytes of Pilot_system.hram.

MemctlType == [state : MctlStates, data_valid : BOOLEAN, addr_reg : Addr,
               data_reg_in : Word, data_reg_out : Word]

\* The controller is part of a zero-initialised Pilot_system.
MemctlInit ==
  memctl = [state |-> "READY", data_valid |-> FALSE, addr_reg |-> 0,
            data_reg_in |-> 0, data_reg_out |-> 0]

\* Nothing has gone wrong yet.
RunningInit == crashed = FALSE

\* Mutant: the last word of high RAM is left out.
Answers_BelowEnd(addr) ==
  /\ addr > OAM_END
  /\ ~ (HCIO_START <= addr /\ addr <= HCIO_END)
  /\ addr < HRAM_END

\* mem_read: the branches up to OAM_END and the I/O page are placeholders
\* that answer nothing; what is left up to HRAM_END answers at once.
Answers(addr) ==
  /\ addr > OAM_END
  /\ ~ (HCIO_START <= addr /\ addr <= HCIO_END)
  /\ addr <= HRAM_END

\* Both bytes mem_read takes, sys->hram[addr] and sys->hram[addr + 1], are
\* bytes of the array.
InHram(addr) == addr + 1 < HRAM_SIZE

-----------------------------------------------------------------------------
\* The value both assert functions return: the state they find.  It is
\* MCTL_READY, which is 0, exactly when they accept the access.
AssertReturns == memctl.state
Accepts == AssertReturns = "READY"

\* Mutant: a read is accepted in any state.
ReadAssert_Overtakes(addr) ==
  memctl' = [memctl EXCEPT !.addr_reg = addr, !.state = "R_BUSY"]

ReadAssert(addr) ==
  memctl' = IF Accepts
              THEN [memctl EXCEPT !.addr_reg = addr, !.state = "R_BUSY"]
              ELSE memctl

WriteAssert(addr, word) ==
  memctl' = IF Accepts
              THEN [memctl EXCEPT !.addr_reg = addr, !.data_reg_out = word,
                                  !.state = "W_BUSY"]
              ELSE memctl

DataWait == memctl.data_valid
GetData  == memctl.data_reg_in

\* Mutants: a write is answered as a read is; the answered controller waits
\* in MCTL_DATA_LATCHED for its data to be read.
MemctlTick_AnswersWrites ==
  IF memctl.state # "READY" /\ Answers(memctl.addr_reg)
    THEN \E word \in Word :
           memctl' = [memctl EXCEPT !.state = "READY", !.data_valid = TRUE,
                                    !.data_reg_in = word]
    ELSE memctl' = [memctl EXCEPT !.data_valid = FALSE]
MemctlTick_Latched ==
  IF memctl.state = "R_BUSY" /\ Answers(memctl.addr_reg)
    THEN \E word \in Word :
           memctl' = [memctl EXCEPT !.state = "DATA_LATCHED",
                                    !.data_valid = TRUE, !.data_reg_in = word]
    ELSE memctl' = [memctl EXCEPT !.data_valid = FALSE]

\* Pilot_memctl_tick.  Only a read is ever answered.
MemctlTick ==
  IF memctl.state = "R_BUSY" /\ Answers(memctl.addr_reg)
    THEN \E word \in Word :
           memctl' = [memctl EXCEPT !.state = "READY", !.data_valid = TRUE,
                                    !.data_reg_in = word]
    ELSE memctl' = [memctl EXCEPT !.data_valid = FALSE]

\* The other outcome of a tick whose read leaves the array.
TickFaults ==
  /\ memctl.state = "R_BUSY" /\ Answers(memctl.addr_reg)
  /\ ~ InHram(memctl.addr_reg)

-----------------------------------------------------------------------------
(***************************************************************************)
(* The controller on its own, with clients that assert at any time.        *)
(***************************************************************************)
BusRead == \E addr \in Addr : ReadAssert(addr)
BusWrite == \E addr \in Addr, word \in Word : WriteAssert(addr, word)

\* A tick, and how it ends.
BusTick ==
  /\ ~ crashed
  /\ \/ MemctlTick /\ UNCHANGED crashed
     \/ TickFaults /\ crashed' = TRUE /\ UNCHANGED memctl

busVars == <<memctl, crashed>>

BusNext ==
  \/ BusTick
  \/ ~ crashed /\ (BusRead \/ BusWrite) /\ UNCHANGED crashed
  \/ crashed /\ UNCHANGED busVars

BusInit == MemctlInit /\ RunningInit

BusSpec == BusInit /\ [][BusNext]_busVars
BusFairSpec == BusSpec /\ WF_busVars(BusTick)

-----------------------------------------------------------------------------
\* Every register of the controller holds a value of its width.
BusTypeOK == memctl \in MemctlType

\* An accepted access is held: until the controller is ready again no other
\* client's assert replaces its address, its data or its direction
\* (the MCTL_READY tests of the two assert functions).
AccessHeld ==
  [][ memctl.state # "READY" =>
        /\ memctl'.addr_reg = memctl.addr_reg
        /\ memctl'.data_reg_out = memctl.data_reg_out
        /\ memctl'.state \in {memctl.state, "READY"} ]_memctl

\* The data latch changes, and data_valid rises, only when a read whose
\* address answers is completed, so the latch can still be read n ticks
\* after the answer (memory_bus.c: "Tick 1+n ... read data latch").
LatchChangesOnlyByAnswer ==
  [][ (memctl'.data_reg_in # memctl.data_reg_in
        \/ (memctl'.data_valid /\ ~ memctl.data_valid))
      => /\ memctl.state = "R_BUSY" /\ memctl'.state = "READY"
         /\ Answers(memctl.addr_reg) ]_memctl

\* A read accepted for an address of high RAM does not stay outstanding,
\* whatever the other clients assert meanwhile: it is answered, or its tick
\* ends the process (no third outcome, such as a busy controller for ever).
HramReadEnds ==
  (memctl.state = "R_BUSY" /\ memctl.addr_reg > HCIO_END)
    ~> (crashed \/ (memctl.state = "READY" /\ memctl.data_valid))

\* What the protocol comment of memory_bus.c says of a read: some tick after
\* the assert concedes the access and its data can be read.  (For an address
\* of high RAM, the only ones mem_read implements.)
HramReadAnswered ==
  (memctl.state = "R_BUSY" /\ memctl.addr_reg > HCIO_END)
    ~> (memctl.state = "READY" /\ memctl.data_valid)

\* What the protocol comment of memory_bus.c says of a write: it takes its
\* assert and nothing else, so the controller becomes ready again.
WriteCompletes == memctl.state = "W_BUSY" ~> memctl.state = "READY"
=============================================================================
