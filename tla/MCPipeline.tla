----------------------------- MODULE MCPipeline -----------------------------
(* Instances of Pipeline.  The addresses are those of MCExecuteUnit.        *)
EXTENDS Pipeline

MCAddr == {0, 16774144}

AddReg == 8192    \* ADD r, r8
AddPost == 8224   \* ADD r, (r+)
LdStore == 4224   \* LD (r), r
AddImm == 14530   \* ADD (r), imm
LdReg == 4096     \* LD r, r: the destination operand is not in memory
Nop == 0          \* a group that is not implemented

MCAll == {AddPost, LdReg, LdStore, AddImm, Nop}
MCMemory == {AddReg, AddPost, LdStore}
=============================================================================
