----------------------------- MODULE MCAluSweep -----------------------------
(* Instances of AluSweep.  One opcode of each group, size and operation,    *)
(* with immediates of every size for ADD, SUB, SBX, OR and the loads, one   *)
(* microcode specification of each entry and size, the shifter modes        *)
(* (which no decoder selects yet), and numbers at the ends of each size.    *)
EXTENDS AluSweep

WordOf(x) == {i \in 0 .. 23 : (x \div 2^i) % 2 = 1}

\* An immediate of 16 and one of 24 bits; a short one keeps the size.
MCImmediates == {33, 37}
ShortImmediate == 3
MCArith == {8192 + 16384 * s + 2048 * (o \div 4) + 64 * (o % 4) :
              s \in 0 .. 2, o \in 0 .. 7}
MCImmediate == {8192 + 4096 + 2048 + 192 + 16384 * s + 256 * o :
              s \in 0 .. 2, o \in 0 .. 7}
MCMixed == {base + 16384 * s + rm :
              base \in {8192, 8192 + 128, 8192 + 192, 8192 + 2048 + 128},
              s \in 0 .. 2, rm \in MCImmediates}
MCMixedImmediate == {8192 + 4096 + 2048 + 192 + 16384 * s + 256 * o + rm :
              s \in 0 .. 2, o \in {0, 2, 3, 6}, rm \in MCImmediates}
MCLoads == {4096 + 16384 * s + o + rm :
              s \in 0 .. 2, o \in {0, 192, 2048 + 192},
              rm \in {0, ShortImmediate} \cup MCImmediates}
MCLdOther == {49152, 51200}
MCOpcodes == MCArith \cup MCImmediate \cup MCMixed \cup MCMixedImmediate
               \cup MCLoads \cup MCLdOther

MCEntries ==
  {[idx |-> i, sel |-> s, size |-> z, wr |-> FALSE] :
     i \in MucodeIdx, s \in {0, 8}, z \in 0 .. 2}

MCControls ==
  (UNION {CoreControls(o) : o \in MCOpcodes})
  \cup (UNION {EntryControls(e) : e \in MCEntries})
  \cup ShiftControls

MCOperands ==
  {WordOf(x) : x \in {0, 1, 127, 128, 255, 32767, 32768, 65535, 8388607,
                      8388608, 16777215}}
MCFlagBytes == {{}, {F_CARRY}, {F_DECIMAL, F_CARRY, F_NEG}}
=============================================================================
