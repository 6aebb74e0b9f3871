--------------------------- MODULE MCExecuteUnit ----------------------------
(* Instances of ExecuteUnit.  Addr has an address of work RAM, which no     *)
(* placeholder of mem_read answers, and one of high RAM, which is answered. *)
EXTENDS ExecuteUnit

MCAddr == {0, 16774144}

Mu(i, w) == [idx |-> i, sel |-> 0, size |-> 2, wr |-> w]
Core(s, d, l, w) ==
  [IdleWord EXCEPT !.src1 = s, !.dest = d, !.op = "OR", !.latch = l,
                   !.write = w]
Reg == <<"REG_P", 1>>

RegCore == Core(Reg, Reg, "NO_LATCH", "READ")
MemCore == Core(MemData, Reg, "NO_LATCH", "READ")
RmwCore == Core(Reg, MemData, "HALF2_MAR", "FROM_DEST")
Inst(b, c, a) ==
  [ZeroInst EXCEPT !.before = b, !.core = c, !.after = a]

\* A register operation, a load, a load with post-increment, a store with
\* pre-decrement, a store with post-increment, a read-modify-write, and
\* programs that override the instruction.
RegInst == Inst(NoSpec, RegCore, NoSpec)
Load == Inst(Mu("IND_REG", FALSE), MemCore, NoSpec)
LoadPost == Inst(Mu("IND_REG_POST_AUTO", FALSE), MemCore, NoSpec)
StorePre == Inst(NoSpec, RegCore, Mu("IND_REG_AUTO", TRUE))
StorePost == Inst(NoSpec, RegCore, Mu("IND_REG_POST_AUTO", TRUE))
Rmw == Inst(Mu("IND_REG_WITH_BITS", TRUE), RmwCore, NoSpec)
Override == [RegInst EXCEPT !.override = Mu("IND_IMM0", FALSE)]
OverridePost ==
  [LoadPost EXCEPT !.override = Mu("IND_REG_POST_AUTO", FALSE)]

MCAll == {RegInst, Load, LoadPost, StorePre, StorePost, Rmw, Override,
          OverridePost}
MCLoads == {RegInst, Load, LoadPost, OverridePost}
=============================================================================
