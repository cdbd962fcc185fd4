------------------------------ MODULE MCCsvLog ------------------------------
(* CsvLog for TLC: the runs differ in nothing but their names.             *)
EXTENDS CsvLog, TLC

Symmetry == Permutations(Runs)
=============================================================================
