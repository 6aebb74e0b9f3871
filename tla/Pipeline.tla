------------------------------ MODULE Pipeline ------------------------------
(***************************************************************************)
(* The processor: the decode stage, the execute stage and the memory       *)
(* controller, which share pilot_interconnect and sys->memctl.             *)
(*                                                                         *)
(* The source has no loop that calls the stages.  Their halves, the tick   *)
(* and the fetch unit are interleaved here at will; the sequencer          *)
(* is called when DriverAdvance says.  A driver that calls the functions   *)
(* in some fixed order that agrees with DriverAdvance has some of these    *)
(* behaviours.                                                             *)
(***************************************************************************)
EXTENDS Decode, Execute

CONSTANT NoInst

ASSUME NoInstAssumption == NoInst \notin Insts

machine ==
  <<decodeVars, executeVars, memctl, decoded_inst_semaph, work_regs>>
vars == <<machine, crashed>>

Init ==
  DecodeInit /\ ExecuteInit /\ MemctlInit /\ InterconnectInit /\ RunningInit

DecodeStage == DecodeNext /\ UNCHANGED <<executeVars, memctl>>
ExecuteStage == ExecuteNext /\ UNCHANGED decodeVars
FetchUnit == FetchWord /\ UNCHANGED <<executeVars, memctl>>
Tick ==
  MemctlTick
    /\ UNCHANGED <<decodeVars, executeVars, decoded_inst_semaph, work_regs>>

Step == DecodeStage \/ ExecuteStage \/ FetchUnit \/ Tick

Running(A) == ~ crashed /\ A /\ UNCHANGED crashed

\* A call that makes an invalid access may end the process.
Next ==
  \/ Running(Step)
  \/ /\ ~ crashed /\ (DecodeFaults \/ Half1Faults \/ TickFaults)
     /\ crashed' = TRUE /\ UNCHANGED machine
  \/ crashed /\ UNCHANGED vars

Spec == Init /\ [][Next]_vars

\* Whoever drives the emulator keeps calling every function as long as the
\* process lives, and the fetch unit goes on delivering words.
FairSpec ==
  /\ Spec
  /\ WF_vars(Running(DecodeStage)) /\ WF_vars(Running(FetchUnit))
  /\ WF_vars(Running(Tick))
  /\ WF_vars(Running(Half1 /\ UNCHANGED decodeVars))
  /\ WF_vars(Running(Half2 /\ UNCHANGED decodeVars))
  /\ WF_vars(Running(DriverAdvance /\ UNCHANGED decodeVars))

-----------------------------------------------------------------------------
TypeOK ==
  /\ DecodeTypeOK /\ ExecuteTypeOK /\ InterconnectType
  /\ memctl \in MemctlType

(***************************************************************************)
(* The slot of Handoff is work_regs while decoded_inst_semaph is up; what  *)
(* was taken is the execute stage's copy.                                  *)
(***************************************************************************)
H == INSTANCE Handoff WITH
       Inst <- Insts, Empty <- NoInst,
       slot <- IF decoded_inst_semaph THEN work_regs ELSE NoInst,
       held <- decoded_inst

\* The two stages hand over instructions as Handoff says, although they
\* share one record and each runs ahead of the other at will.
HandoffRefined == H!Spec

\* The decoder's output runs no microcode and accesses no memory.  (Loads
\* and stores can wait for ever: writes and most reads are never answered.)
RegisterOnly ==
  /\ {work_regs.override, work_regs.before, work_regs.after} = {NoSpec}
  /\ work_regs.core.latch = "NO_LATCH"

\* As long as instructions are such and the process lives, also its promise
\* that every instruction handed over is taken.
HandoffLive == [](RegisterOnly /\ ~ crashed) => H!Drains

\* Every word of such a program leaves the fetch unit.
WordsConsumed ==
  [](RegisterOnly /\ ~ crashed)
    => (Len(fetched) = FetchDepth ~> Len(fetched) < FetchDepth)
=============================================================================
