---------------------------- MODULE MCWorkStore ------------------------------
(* Small instance of WorkStore for TLC.                                      *)
EXTENDS WorkStore, TLC

RuntimeSymmetry == Permutations(Runtimes)
=============================================================================
