--------------------------- MODULE MCShellSession ---------------------------
(* Small instances of ShellSession for TLC. *)
EXTENDS ShellSession
=============================================================================
