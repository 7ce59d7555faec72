---------------------------- MODULE MCShellCaches ----------------------------
(* Small instances of ShellCaches for TLC. *)
EXTENDS ShellCaches
=============================================================================
