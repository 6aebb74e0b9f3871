---------------------------- MODULE ExecuteUnit -----------------------------
(***************************************************************************)
(* The execute stage on its own, between a decode stage that may hand over *)
(* any instruction of Offered and a memory controller that also serves     *)
(* accesses of other clients (the fetch unit).                             *)
(***************************************************************************)
EXTENDS Execute

CONSTANT Offered

ASSUME OfferedAssumption == Offered \subseteq Insts

interconnects == <<decoded_inst_semaph, work_regs>>
machine == <<executeVars, memctl, interconnects>>
vars == <<machine, crashed>>

Init == InterconnectInit /\ MemctlInit /\ ExecuteInit /\ RunningInit

\* What a decode stage does of consequence here.
OfferInst ==
  /\ ~ decoded_inst_semaph
  /\ decoded_inst_semaph' = TRUE
  /\ work_regs' \in Offered
  /\ UNCHANGED <<executeVars, memctl>>

OtherClient ==
  /\ BusRead \/ BusWrite
  /\ UNCHANGED <<executeVars, interconnects>>

Tick == MemctlTick /\ UNCHANGED <<executeVars, interconnects>>

Step == ExecuteNext \/ OfferInst \/ OtherClient \/ Tick

\* A call that makes an invalid access may end the process.
Next ==
  \/ ~ crashed /\ Step /\ UNCHANGED crashed
  \/ /\ ~ crashed /\ (Half1Faults \/ TickFaults)
     /\ crashed' = TRUE /\ UNCHANGED machine
  \/ crashed /\ UNCHANGED vars

Spec == Init /\ [][Next]_vars

=============================================================================
