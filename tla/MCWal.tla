------------------------------- MODULE MCWal -------------------------------
(* Instance of Wal for TLC. *)
EXTENDS Wal

=============================================================================
