----------------------------- MODULE MC_ExecJob -----------------------------
(* A child and a process that it starts; a pipe holds one unit. *)
EXTENDS ExecJob, TLC
=============================================================================
