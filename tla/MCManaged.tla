------------------------------ MODULE MCManaged ------------------------------
(* Instances of Managed for TLC: processes and documents are only compared. *)
EXTENDS Managed, TLC

ProcessSymmetry == Permutations(Processes)
DocumentSymmetry == Permutations(Documents)
Symmetry == ProcessSymmetry \cup DocumentSymmetry
=============================================================================
