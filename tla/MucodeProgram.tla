--------------------------- MODULE MucodeProgram ----------------------------
(***************************************************************************)
(* A microcode program run from the ROM: the words the sequencer presents  *)
(* when it starts from an entry specification and follows mucode_entry.next*)
(* (pilot_execute_sequencer_mucode_run, called until it returns FALSE).    *)
(***************************************************************************)
EXTENDS Mucode, Sequences

CONSTANT MaxWords  \* Bound of the log of words; programs are shorter.

ASSUME MaxWordsAssumption == MaxWords \in Nat /\ MaxWords > 2

VARIABLES
  start,           \* The specification the program was started with.
  mucode_control,  \* The specification of the next entry.
  words            \* The words presented so far.

vars == <<start, mucode_control, words>>

Init ==
  /\ start \in {spec \in Specs : spec.idx # "NONE"}
  /\ mucode_control = start
  /\ words = << >>

\* pilot_execute_sequencer_mucode_run.
MucodeRun ==
  /\ mucode_control.idx # "NONE"
  /\ Len(words) < MaxWords
  /\ \E entry \in DecodeMucodeEntry(mucode_control) :
       /\ words' = Append(words, entry.word)
       /\ mucode_control' = entry.next
  /\ UNCHANGED start

Spec == Init /\ [][MucodeRun]_vars /\ WF_vars(MucodeRun)

-----------------------------------------------------------------------------
Finished == mucode_control.idx = "NONE"
Accesses == {i \in DOMAIN words : words[i].latch # "NO_LATCH"}
Updates == {i \in DOMAIN words : words[i].dest # Loc("ZERO")}

\* A program started for an operand accesses memory exactly once, however
\* many words it has; the second word of a post-increment is built from the
\* same helper as an access (after_autoidx_ calls ind_1cyc_reg_) and must
\* not repeat it.
OneAccessPerProgram ==
  Finished /\ start.idx # "POST_AUTOIDX" =>
    \E i \in 1 .. Len(words) : Accesses = {i}

\* Auto-indexing changes the register that addressed memory and no other,
\* and does so once, although address and update may be in different words.
AutoIndexSameRegister ==
  Finished =>
    /\ start.idx \in {"IND_REG_POST_AUTO", "IND_REG_AUTO"} =>
         \E i \in 1 .. Len(words) :
           /\ Updates = {i}
           /\ \A j \in Accesses : words[i].dest = words[j].src0
    /\ start.idx \notin {"IND_REG_POST_AUTO", "IND_REG_AUTO", "POST_AUTOIDX"}
         => Updates = {}

\* A program comes to an end after at most two words.
ProgramEnds == <>(Finished /\ Len(words) <= 2)
=============================================================================
