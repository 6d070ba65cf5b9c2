--------------------------- MODULE MC_VmSupervisor ---------------------------
(* Two commands of any two kinds, two process ids. *)
EXTENDS VmSupervisor
=============================================================================
