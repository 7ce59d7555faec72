----------------------------- MODULE MCListSync -----------------------------
(* Small instances of ListSync for TLC. *)
EXTENDS ListSync
=============================================================================
