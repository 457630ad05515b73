------------------------------ MODULE MCDispatch ------------------------------
(* Instances of Dispatch for TLC. *)
EXTENDS DispatchProperties

(* Documents are interchangeable. *)
DocumentSymmetry == Permutations(Documents)
=============================================================================
