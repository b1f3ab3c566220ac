------------------------------ MODULE MCLedger ------------------------------
(* Small instances of Ledger for TLC.                                        *)
EXTENDS Ledger, TLC

(* Which process is which never matters.                                     *)
ProcSymmetry == Permutations(Procs)
=============================================================================
