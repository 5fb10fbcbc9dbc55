----------------------------- MODULE SeqNumbers -----------------------------
(***************************************************************************)
(* The sequence numbers that the SDK puts into command packets: 1 up to    *)
(* MaxSeq (UINT16_MAX in comm/generate_seq.cpp), followed by 1 again.      *)
(***************************************************************************)
EXTENDS Naturals

CONSTANT MaxSeq        \* UINT16_MAX

ASSUME MaxSeqAssumption == MaxSeq \in Nat \ {0, 1}

VARIABLE seq           \* the atomic counter of GenerateSeq

SeqNumber == 1 .. MaxSeq

\* Mutant of NextSeq: the wrap is forgotten, as if the packet's field were wider.
NextSeqNoWrap(value) == value + 1

NextSeq(value) == IF value = MaxSeq THEN 1 ELSE value + 1

=============================================================================
