-------------------------- MODULE MCExtractionJail --------------------------
(* Instances of ExtractionJail for TLC.                                     *)
EXTENDS ExtractionJail, TLC

\* Processes differ in nothing but their images, whose layers are all alike here.
ProcSymmetry == Permutations(Procs)

=============================================================================
