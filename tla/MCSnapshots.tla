---------------------------- MODULE MCSnapshots -----------------------------
(***************************************************************************)
(* Two matches that end at any time, two goroutines and one reader.        *)
(***************************************************************************)
EXTENDS Snapshots

=============================================================================
