------------------------------- MODULE MCWal -------------------------------
(***************************************************************************)
(* An instance of WriteAheadLog for TLC: snapshots are taken often enough  *)
(* for a restart to find one with rows after it.                           *)
(***************************************************************************)
EXTENDS WriteAheadLog
=============================================================================
