----------------------------- MODULE MCStatusReader -----------------------------
(* StatusReader over the definitions of MCScheduler. *)
EXTENDS MCScheduler, StatusReader
==============================================================================
