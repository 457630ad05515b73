------------------------------ MODULE MCWorkbench ------------------------------
(* Instances of the workbench for TLC: the configurations choose bounds. *)
EXTENDS WorkbenchProperties
=============================================================================
