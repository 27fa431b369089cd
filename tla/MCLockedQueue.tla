---------------------------- MODULE MCLockedQueue ----------------------------
(* Small instances of LockedQueue. *)
EXTENDS LockedQueue
=============================================================================
