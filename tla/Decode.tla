------------------------------- MODULE Decode -------------------------------
(***************************************************************************)
(* The decode stage of pilot-cpu/cpu_decode.c: pilot_decode_half1 and      *)
(* pilot_decode_half2.                                                     *)
(*                                                                         *)
(* The fetch unit is not in the source: decode_try_read_word_ is declared  *)
(* and never defined.  It is modelled as a queue that a word may enter at  *)
(* any time, of the depth the comment of cpu_decode.c gives (a two-word    *)
(* prefetch queue and a latch), from which a read takes the first word or  *)
(* fails if there is none.                                                 *)
(*                                                                         *)
(* words_to_read stays zero, because only decode_queue_read_word changes   *)
(* it and nothing calls that: DECODER_HALF2_READ_OPERANDS never waits.     *)
(* inst_length and pgc are never read to any effect.                       *)
(***************************************************************************)
EXTENDS Interconnect, DecodeInst, Sequences

CONSTANTS
  Words,       \* The words of the instruction stream.
  FetchDepth   \* The words the fetch unit holds.

ASSUME DecodeAssumption ==
  Words \subseteq Opcode /\ FetchDepth \in Nat \ {0}

VARIABLES decoding_phase, fetched

decodeVars == <<decoding_phase, fetched>>

\* The phases a call may end in.
DecodingPhases == {"HALF1_DISPATCH_WAIT", "HALF1_READ_INST_WORD",
                   "HALF2_READ_OPERANDS"}

DecodeInit == decoding_phase = "HALF1_DISPATCH_WAIT" /\ fetched = << >>

\* What n calls of decode_try_read_word_ leave of the queue.  Calls that
\* find it empty fail, and decode_rm_specifier ignores that.
ReadWords(queue, n) ==
  IF n < Len(queue) THEN SubSeq(queue, n + 1, Len(queue)) ELSE << >>

\* Mutant: the semaphore is not looked at.
Half1Reads_IgnoresSemaph ==
  decoding_phase \in {"HALF1_DISPATCH_WAIT", "HALF1_READ_INST_WORD"}

\* pilot_decode_half1 gets as far as reading an instruction word.
Half1Reads ==
  \/ decoding_phase = "HALF1_DISPATCH_WAIT" /\ ~ decoded_inst_semaph
  \/ decoding_phase = "HALF1_READ_INST_WORD"

DecodeHalf1Starve ==
  /\ Half1Reads /\ fetched = << >>
  /\ decoding_phase' = "HALF1_READ_INST_WORD"
  /\ UNCHANGED <<fetched, decoded_inst_semaph, work_regs>>

DecodeHalf1Decode ==
  /\ Half1Reads /\ fetched # << >>
  /\ \E d \in DecodeOpcode(work_regs, Head(fetched)) :
       /\ work_regs' = d.inst
       /\ fetched' = ReadWords(fetched, 1 + d.reads)
  /\ decoding_phase' = "HALF2_READ_OPERANDS"
  /\ UNCHANGED decoded_inst_semaph

\* The other outcome of a call whose opcode makes decode_rm_specifier store
\* through an uninitialised pointer.
DecodeFaults == Half1Reads /\ fetched # << >> /\ StoresWild(Head(fetched))

\* pilot_decode_half1.
DecodeHalf1 == DecodeHalf1Starve \/ DecodeHalf1Decode

\* Mutant: the phase is not reset.
DecodeHalf2_NoReset ==
  /\ decoding_phase = "HALF2_READ_OPERANDS"
  /\ decoded_inst_semaph' = TRUE
  /\ UNCHANGED <<decoding_phase, fetched, work_regs>>

\* pilot_decode_half2.
DecodeHalf2 ==
  /\ decoding_phase = "HALF2_READ_OPERANDS"
  /\ decoded_inst_semaph' = TRUE
  /\ decoding_phase' = "HALF1_DISPATCH_WAIT"
  /\ UNCHANGED <<fetched, work_regs>>

DecodeNext == DecodeHalf1 \/ DecodeHalf2

\* The fetch unit.
FetchWord ==
  /\ Len(fetched) < FetchDepth
  /\ \E word \in Words : fetched' = Append(fetched, word)
  /\ UNCHANGED <<decoding_phase, decoded_inst_semaph, work_regs>>

-----------------------------------------------------------------------------
DecodeTypeOK ==
  /\ decoding_phase \in DecodingPhases
  /\ fetched \in Seq(Words)

\* The shared record is the decode stage's to write only while the semaphore
\* is down: whenever it is up, the stage waits for the dispatch.
WaitsForDispatch ==
  decoded_inst_semaph => decoding_phase = "HALF1_DISPATCH_WAIT"

\* A step that decodes the word at the head of the queue.
Decodes ==
  decoding_phase # "HALF2_READ_OPERANDS"
    /\ decoding_phase' = "HALF2_READ_OPERANDS"

\* "The decode stage consists of a combinational logic array that interprets
\* an instruction word" (cpu_decode.c): what an instruction decodes to does
\* not depend on the instructions before it.
DecodingIsCombinational ==
  [][ Decodes =>
        \E d \in DecodeOpcode(ZeroInst, Head(fetched)) : work_regs' = d.inst
    ]_decodeVars
=============================================================================
