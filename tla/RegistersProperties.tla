-------------------------- MODULE RegistersProperties --------------------------
(* What an edit promises about the bits it names and the bits it does not. *)
EXTENDS Registers

Field(e) == e.low .. e.low + e.width - 1

(* "x86 dword and A64 W writes zero the upper half" (edit.rs). *)
ZeroExtends(e) == e.storage \in Gprs /\ e.width = 32

(***************************************************************************)
(* An edit that is accepted lies inside its register, reads back as it was *)
(* submitted, and leaves all other bits of every register as they were,    *)
(* except that a 32-bit write clears the upper half; one that is refused   *)
(* changes nothing.  The code works with masks and shifts and with whole   *)
(* bytes; this is about the bits, whatever aliases were written before and *)
(* whatever vector length the guest left (RegisterEdit, VectorEdit,        *)
(* write_register, write_vector, set_rounding).                            *)
(***************************************************************************)
Exact(e) ==
    /\ \A s \in Storages \ {e.storage} : file'[s] = file[s]
    /\ IF e.accepted
       THEN /\ e.value \subseteq Low(e.width) /\ e.low + e.width <= e.size
            /\ file'[e.storage] \cap Field(e) = Raised(e.value, e.low)
            /\ file'[e.storage] \ Field(e) = IF ZeroExtends(e) THEN {} ELSE file[e.storage] \ Field(e)
       ELSE file'[e.storage] = file[e.storage]

EditsAreExact == [][ edit'.storage # "none" => Exact(edit') ]_registersVars
=============================================================================
