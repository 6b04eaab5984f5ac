------------------------------ MODULE NoValue -------------------------------
(***************************************************************************)
(* What stands for no value: None, null and undefined of the source.       *)
(* Modules that are extended together share it.                            *)
(***************************************************************************)
CONSTANT None
=============================================================================
