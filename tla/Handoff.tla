------------------------------ MODULE Handoff -------------------------------
(***************************************************************************)
(* What the decode and execute stages promise each other: instructions are *)
(* handed over one at a time through a slot.  One in the slot is neither   *)
(* changed nor replaced until it is taken, is taken whole and once.        *)
(***************************************************************************)
CONSTANTS
  Inst,
  Empty  \* Not in Inst.

VARIABLES
  slot,  \* The instruction handed over and not taken yet, or Empty.
  held   \* The instruction taken last.

Init == slot = Empty /\ held \in Inst

Offer == slot = Empty /\ slot' \in Inst /\ UNCHANGED held

Take == slot # Empty /\ held' = slot /\ slot' = Empty

Next == Offer \/ Take

vars == <<slot, held>>

Spec == Init /\ [][Next]_vars

\* Nothing stays in the slot for ever.
Drains == slot # Empty ~> slot = Empty
=============================================================================
