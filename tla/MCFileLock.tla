----------------------------- MODULE MCFileLock -----------------------------
(* FileLock for TLC. *)
EXTENDS FileLock
=============================================================================
