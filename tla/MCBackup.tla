------------------------------ MODULE MCBackup ------------------------------
(* A small instance of Backup.                                              *)
EXTENDS Backup, TLC

CONSTANTS d1, d2
Symmetry == Permutations({d1, d2})
=============================================================================
