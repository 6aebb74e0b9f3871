------------------------------ MODULE MCDataBus -----------------------------
(* An instance of DataBus.  The data differ in every byte; words that write  *)
(* and words that read are apart; destinations are the views of register 0,  *)
(* the flags and the fields, which all name register 0 in one instruction    *)
(* and registers 5, 0 and 1 in the other.                                    *)
EXTENDS DataBus

MCResults == {{0, 9, 18}, {}}

Same == [i \in 0 .. 4 |-> {}]
Differ == [i \in 0 .. 4 |->
  CASE i = 0 -> {0, 8, 10} [] i = 1 -> {2, 11} [] OTHER -> {8, 10, 14}]

Writes(dest, size) ==
  [IdleBusWord EXCEPT !.dest = dest, !.size0 = size, !.size1 = size]
Reads(src, size) ==
  [IdleBusWord EXCEPT !.src1 = src, !.size0 = size, !.size1 = size]

MCInstructions ==
  {[imm |-> Same, core |-> word] :
     word \in {Writes(<<"REG_L", 0>>, 0), Writes(<<"REG_L", 4>>, 0),
               Writes(<<"REG_W", 0>>, 1), Writes(<<"REG_P", 0>>, 2),
               Writes(Loc("REG_IMM_0_8"), 0), Writes(Loc("REG__F"), 0)}}
  \cup {[imm |-> Differ, core |-> word] :
          word \in {Writes(Loc("REG_IMM_0_8"), 0), Reads(Loc("IMM_1"), 1),
                    Reads(Loc("IMM_1"), 2)}}
MCMucodeWords ==
  {Reads(Loc("SIZE"), 0), Reads(Loc("REG_IMM_2_8"), 1),
   Reads(Loc("REG_IMM_1_8"), 2)}
=============================================================================
