------------------------- MODULE MCCandidateOutput -------------------------
(* Two assemblers of one output directory, two candidates. *)
EXTENDS CandidateOutput, TLC

\* Assemblers and candidates are only compared.
Symmetry == Permutations(Assembler) \cup Permutations(Candidate)
=============================================================================
