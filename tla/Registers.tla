------------------------------ MODULE Registers ------------------------------
(***************************************************************************)
(* Edits of registers between slices (crates/core/src/registers,           *)
(* crates/engine/src/machine/registers.rs): names that alias parts of one  *)
(* canonical word, lanes of vectors and predicates, and the rounding       *)
(* field.  A word or a vector is the set of its bits that are one.         *)
(***************************************************************************)
EXTENDS Integers, Sequences

CONSTANTS
    Gprs, HighBytes,   (* indices of the bank, and those with ah to bh  *)
    Values,            (* sets of bits a request may carry              *)
    Widths, Lanes,     (* numbers a request may carry                  *)
    Lengths,           (* pairs of effective and maximum vector length  *)
    Assignments,       (* initial registers a load may ask for          *)
    MaxEdits           (* bound of a behaviour                          *)

ASSUME RegistersAssumption ==
    /\ HighBytes \subseteq Gprs
    /\ {"ip", "flags", "control", "vector", "predicate"} \cap Gprs = {}
    /\ Values \subseteq SUBSET Nat
    /\ Widths \subseteq Nat /\ Lanes \subseteq Nat
    /\ Lengths \subseteq {l \in (16 .. 256) \X (16 .. 256) : l[1] % 16 = 0 /\ l[2] % 16 = 0 /\ l[1] <= l[2]}
    /\ \A a \in Assignments : \A i \in DOMAIN a : a[i].value \subseteq 0 .. 63
    /\ MaxEdits \in Nat

VARIABLES
    target,
    lengths,           (* as the guest has set them                     *)
    file,              (* the canonical storage                         *)
    held,              (* a breakpoint pass or a REP is pending         *)
    edit               (* history: the last request and its fate        *)

registersVars == <<target, lengths, file, held, edit>>

Storages == Gprs \cup {"ip", "flags", "control", "vector", "predicate"}
Raised(bits, n) == {b + n : b \in bits}
Low(width) == 0 .. width - 1

-----------------------------------------------------------------------------
(* Integers.                                                               *)

Alias(storage, width, shift) == [storage |-> storage, width |-> width, shift |-> shift]

X86Aliases ==
    {Alias(g, w, 0) : g \in Gprs, w \in {32, 16, 8}} \cup {Alias(g, 8, 8) : g \in HighBytes}
        \cup {Alias("flags", 1, b) : b \in {0, 2, 4, 6, 7, 10, 11}}

Names ==
    {Alias(g, 64, 0) : g \in Gprs \cup {"ip"}}
        \cup (IF target = "x86_64" THEN X86Aliases
              ELSE {Alias(g, 32, 0) : g \in Gprs} \cup {Alias("flags", 1, b) : b \in 28 .. 31})

(* Bits no instruction address has. *)
Unaligned == IF target = "aarch64" THEN {0, 1} ELSE {}

Acceptable(name, value) ==
    /\ value \subseteq Low(name.width)
    /\ name.storage = "ip" => value \cap Unaligned = {}

ApplyUnshifted(name, value, previous) ==
    LET kept == IF name.width >= 32 THEN {} ELSE previous \ Low(name.width)
    IN  kept \cup Raised(value, name.shift)

Apply(name, value, previous) ==
    LET kept == IF name.width >= 32 THEN {} ELSE previous \ Raised(Low(name.width), name.shift)
    IN  kept \cup Raised(value, name.shift)

-----------------------------------------------------------------------------
(* Vectors.  A value is 1 to 256 bytes and the bits they hold.             *)

VectorNames ==
    {[storage |-> "vector", bytes |-> 16]}
        \cup (IF target = "x86_64" THEN {[storage |-> "vector", bytes |-> 32]}
              ELSE {[storage |-> "vector", bytes |-> lengths[1]],
                    [storage |-> "predicate", bytes |-> lengths[1] \div 8]})

ValidLength ==
    IF target = "x86_64" THEN lengths[1] = 32
    ELSE lengths[1] \in 16 .. 256 /\ lengths[1] % 16 = 0

LaneWidths(storage) == IF storage = "vector" THEN {8, 16, 32, 64, 128} ELSE {1}

ValidLane(name, width, lane, value) ==
    /\ width # 0
    /\ width \in LaneWidths(name.storage) \/ width = name.bytes * 8
    /\ lane < (name.bytes * 8) \div width
    /\ value.bytes = (width + 7) \div 8
    /\ width = 1 => value.bits \subseteq {0}

(* Bytes the native bank has of a register, inactive storage included. *)
Stored(storage) ==
    CASE storage = "vector" -> lengths[2]
      [] storage = "predicate" -> lengths[2] \div 8
      [] storage = "control" -> 4
      [] OTHER -> 8

(* A bit is merged into its byte; other lanes are whole bytes. *)
Merge(width, offset, value, previous) ==
    LET start == offset \div 8
        end == (offset + width + 7) \div 8
        bit == start * 8 + (offset % 8)
    IN  IF width = 1 THEN (previous \ {bit}) \cup Raised(value, bit)
        ELSE (previous \ (start * 8 .. end * 8 - 1)) \cup Raised(value, start * 8)

-----------------------------------------------------------------------------
(* The bank a load asks for; a name may be assigned once.                  *)
Unique(assignments) ==
    \A i, j \in DOMAIN assignments :
        assignments[i].index \in Gprs /\ (assignments[i].index = assignments[j].index => i = j)

Bank(assignments) ==
    [s \in Storages |->
        UNION {assignments[i].value : i \in {j \in DOMAIN assignments : assignments[j].index = s}}]

RegistersInit ==
    /\ target \in {"x86_64", "aarch64"}
    /\ lengths \in Lengths
    /\ target = "x86_64" => lengths = <<32, 32>>
    /\ held \in BOOLEAN
    /\ \E a \in Assignments : Unique(a) /\ file = Bank(a)
    /\ edit = [step |-> 0, storage |-> "none"]

Request(storage, low, width, value, size, accepted) ==
    edit' = [step |-> edit.step + 1, storage |-> storage, low |-> low, width |-> width,
             value |-> value, size |-> size, accepted |-> accepted]

(* The guest runs: its registers and its vector length are its own; the    *)
(* maximum is the processor's, and AVX2 has one length. *)
GuestRuns ==
    /\ edit.step < MaxEdits
    /\ \E l \in Lengths, v \in Values :
          /\ l[2] = lengths[2] /\ (target = "x86_64" => l = lengths)
          /\ lengths' = l
          /\ file' = [s \in Storages |-> v \cap Low(Stored(s) * 8)]
    /\ held' \in BOOLEAN
    /\ edit' = [step |-> edit.step + 1, storage |-> "none"]
    /\ UNCHANGED target

(* A new program counter drops the pass and the repeated instruction. *)
WriteName ==
    /\ edit.step < MaxEdits
    /\ \E name \in Names, value \in Values :
          /\ Request(name.storage, name.shift, name.width, value, 64, Acceptable(name, value))
          /\ IF Acceptable(name, value)
             THEN /\ file' = [file EXCEPT ![name.storage] = Apply(name, value, @)]
                  /\ held' = (held /\ name.storage # "ip")
             ELSE UNCHANGED <<file, held>>
    /\ UNCHANGED <<target, lengths>>

(* Validated against the vector length of this moment, then merged into    *)
(* what the bank holds. *)
WriteLane ==
    /\ edit.step < MaxEdits
    /\ \E name \in VectorNames, width \in Widths, lane \in Lanes, bits \in Values, extra \in {0, 1} :
          LET offset == lane * width
              value == [bytes |-> (width + 7) \div 8 + extra, bits |-> bits]
              fits == (offset + width + 7) \div 8 <= Stored(name.storage)
              accepted == ValidLength /\ ValidLane(name, width, lane, value) /\ fits
          IN  /\ value.bytes \in 1 .. 256 /\ bits \subseteq Low(value.bytes * 8)
              /\ Request(name.storage, offset, width, bits, name.bytes * 8, accepted)
              /\ file' = IF accepted
                         THEN [file EXCEPT ![name.storage] = Merge(width, offset, bits, @)]
                         ELSE file
    /\ UNCHANGED <<target, lengths, held>>

(* Rounding(target, mode) is the field of MXCSR or FPCR. *)
RoundingAt == IF target = "x86_64" THEN 13 ELSE 22
Direction(mode) ==
    CASE mode = "nearest_even" -> {}
      [] mode = "down" -> IF target = "x86_64" THEN {0} ELSE {1}
      [] mode = "up" -> IF target = "x86_64" THEN {1} ELSE {0}
      [] mode = "toward_zero" -> {0, 1}

SetRounding ==
    /\ edit.step < MaxEdits
    /\ \E mode \in {"nearest_even", "down", "up", "toward_zero"} :
          /\ Request("control", RoundingAt, 2, Direction(mode), 32, TRUE)
          /\ file' = [file EXCEPT !["control"] =
                         (@ \ {RoundingAt, RoundingAt + 1}) \cup Raised(Direction(mode), RoundingAt)]
    /\ UNCHANGED <<target, lengths, held>>

RegistersNext == GuestRuns \/ WriteName \/ WriteLane \/ SetRounding
RegistersSpec == RegistersInit /\ [][RegistersNext]_registersVars
=============================================================================
