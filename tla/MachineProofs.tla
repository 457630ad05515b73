----------------------------- MODULE MachineProofs -----------------------------
(***************************************************************************)
(* Proofs about the native runtime and its machine, for every guest memory,*)
(* instruction set, cache limit, dispatch limit and set of watchpoints; and*)
(* about edits of its registers, for every bank, every value, every pair of*)
(* vector lengths and every sequence of edits and runs of the guest.       *)
(***************************************************************************)
EXTENDS MachineProperties, RegistersProperties, Counting

-----------------------------------------------------------------------------
(* Registers.                                                              *)

(* The storage has the width the native bank gives it. *)
Sized ==
    /\ target \in {"x86_64", "aarch64"}
    /\ lengths \in Lengths
    /\ target = "x86_64" => lengths = <<32, 32>>
    /\ file \in [Storages -> SUBSET Nat]
    /\ \A s \in Storages : file[s] \subseteq 0 .. Stored(s) * 8 - 1

(* What an accepted edit must do to the word it names.                     *)
Replaces(old, new, e) ==
    /\ e.value \subseteq Low(e.width) /\ e.low + e.width <= e.size
    /\ new \cap Field(e) = Raised(e.value, e.low)
    /\ new \ Field(e) = IF ZeroExtends(e) THEN {} ELSE old \ Field(e)

(* The general registers and the other storages have different names. *)
LEMMA Distinct ==
    \A g \in Gprs : g # "ip" /\ g # "flags" /\ g # "control" /\ g # "vector" /\ g # "predicate"
  BY RegistersAssumption

(* Multiples of eight bits are whole bytes, rounded down or up. *)
LEMMA Eighths ==
  ASSUME NEW a \in Nat, a % 8 = 0
  PROVE  (a \div 8) * 8 = a /\ ((a + 7) \div 8) * 8 = a
  <1>1. PICK q \in Nat : a = 8 * q
    <2>1. a \div 8 \in Nat /\ a = 8 * (a \div 8)  OBVIOUS
    <2> QED  BY <2>1
  <1>2. a \div 8 = q /\ (a + 7) \div 8 = q  BY <1>1
  <1> QED  BY <1>1, <1>2

(* A lane that is not one bit is made of whole bytes. *)
LEMMA WholeBytes ==
    ASSUME NEW bytes \in Nat, NEW width \in Nat, NEW lane \in Nat,
           width \in {8, 16, 32, 64, 128} \/ width = bytes * 8,
           width # 0, lane < (bytes * 8) \div width
    PROVE  /\ (lane * width) % 8 = 0 /\ width % 8 = 0
           /\ lane * width \in Nat
           /\ lane * width + width <= bytes * 8
  <1>1. CASE width = bytes * 8
    <2>1. (bytes * 8) \div width = 1  BY <1>1
    <2>2. lane = 0  BY <2>1
    <2> QED  BY <1>1, <2>2
  <1>2. CASE width = 8  BY <1>2
  <1>3. CASE width = 16  BY <1>3
  <1>4. CASE width = 32  BY <1>4
  <1>5. CASE width = 64  BY <1>5
  <1>6. CASE width = 128  BY <1>6
  <1> QED  BY <1>1, <1>2, <1>3, <1>4, <1>5, <1>6

-----------------------------------------------------------------------------
(* The edits, as functions of the word they replace.                       *)

(* A name's edit replaces its field (RegisterEdit::apply). *)
LEMMA NameIsReplaced ==
    ASSUME NEW name \in Names, NEW value \in Values, Acceptable(name, value),
           NEW old \in SUBSET (0 .. 63), NEW step,
           NEW e, e = [step |-> step, storage |-> name.storage, low |-> name.shift, width |-> name.width,
                       value |-> value, size |-> 64, accepted |-> TRUE]
    PROVE  Replaces(old, Apply(name, value, old), e) /\ Apply(name, value, old) \subseteq 0 .. 63
  <1> DEFINE w == name.width  b == name.shift
  <1>1. /\ w \in Nat /\ b \in Nat /\ w + b <= 64
        /\ w >= 32 => b = 0
        /\ w >= 32 <=> w = 64 \/ (name.storage \in Gprs /\ w = 32)
        /\ w = 32 => name.storage \in Gprs
    <2>1. CASE name \in {Alias(g, 64, 0) : g \in Gprs \cup {"ip"}}  BY <2>1 DEF Alias
    <2>2. CASE name \in X86Aliases
      <3>1. CASE name \in {Alias(g, width, 0) : g \in Gprs, width \in {32, 16, 8}}  BY <3>1 DEF Alias
      <3>2. CASE name \in {Alias(g, 8, 8) : g \in HighBytes}  BY <3>2 DEF Alias
      <3>3. CASE name \in {Alias("flags", 1, n) : n \in {0, 2, 4, 6, 7, 10, 11}}  BY <3>3 DEF Alias
      <3> QED  BY <2>2, <3>1, <3>2, <3>3 DEF X86Aliases
    <2>3. CASE name \in {Alias(g, 32, 0) : g \in Gprs}  BY <2>3 DEF Alias
    <2>4. CASE name \in {Alias("flags", 1, n) : n \in 28 .. 31}  BY <2>4 DEF Alias
    <2> QED  BY <2>1, <2>2, <2>3, <2>4 DEF Names
  <1>2. value \subseteq 0 .. w - 1  BY DEF Acceptable, Low
  <1>3. Apply(name, value, old) =
            (IF w >= 32 THEN {} ELSE old \ {n + b : n \in 0 .. w - 1}) \cup {n + b : n \in value}
    BY DEF Apply, Raised, Low
  <1>4. Apply(name, value, old) \subseteq 0 .. 63
    <2>1. {n + b : n \in value} \subseteq 0 .. 63  BY <1>1, <1>2
    <2> QED  BY <1>3, <2>1
  <1>5. {n + b : n \in 0 .. w - 1} = b .. b + w - 1
    <2>1. ASSUME NEW m \in b .. b + w - 1 PROVE m \in {n + b : n \in 0 .. w - 1}
      <3>1. m - b \in 0 .. w - 1 /\ m = (m - b) + b  BY <1>1, <2>1
      <3> QED  BY <3>1
    <2>2. ASSUME NEW n \in 0 .. w - 1 PROVE n + b \in b .. b + w - 1  BY <1>1
    <2> QED  BY <2>1, <2>2
  <1>6. {n + b : n \in value} \subseteq b .. b + w - 1  BY <1>2, <1>5
  <1>7. Field(e) = b .. b + w - 1  BY DEF Field
  <1>8. Apply(name, value, old) \cap Field(e) = Raised(value, b)
    BY <1>3, <1>5, <1>6, <1>7 DEF Raised
  <1>9. Apply(name, value, old) \ Field(e) = IF ZeroExtends(e) THEN {} ELSE old \ Field(e)
    <2>1. CASE w < 32
      <3>1. ~ZeroExtends(e)  BY <2>1, <1>1 DEF ZeroExtends
      <3>2. ~(w >= 32)  BY <2>1, <1>1
      <3> QED  BY <3>1, <3>2, <1>3, <1>5, <1>6, <1>7
    <2>2. CASE w >= 32
      <3>1. Apply(name, value, old) \ Field(e) = {}  BY <2>2, <1>3, <1>6, <1>7
      <3>2. CASE w = 64
        <4>1. b = 0  BY <2>2, <1>1
        <4>2. b + w - 1 = 63  BY <3>2, <4>1
        <4> HIDE DEF w, b
        <4>3. Field(e) = 0 .. 63  BY <4>1, <4>2, <1>7
        <4> QED  BY <3>1, <4>3
      <3>3. CASE name.storage \in Gprs /\ w = 32  BY <3>3, <3>1 DEF ZeroExtends
      <3> QED  BY <2>2, <1>1, <3>2, <3>3
    <2>3. w < 32 \/ w >= 32  BY <1>1
    <2> QED  BY <2>1, <2>2, <2>3
  <1>10. e.value = value /\ e.low = b /\ e.width = w /\ e.size = 64  OBVIOUS
  <1>11. e.value \subseteq Low(e.width) /\ e.low + e.width <= e.size  BY <1>1, <1>2, <1>10 DEF Low
  <1> HIDE DEF w, b
  <1> QED  BY <1>4, <1>8, <1>9, <1>10, <1>11 DEF Replaces

(* An accepted edit e of a lane that now holds old.                        *)
LaneEdit(name, width, lane, length, bits, old, e) ==
    /\ name \in VectorNames /\ width \in Nat /\ lane \in Nat /\ name.bytes \in Nat
    /\ length \in Nat /\ bits \in SUBSET Nat /\ bits \subseteq 0 .. length * 8 - 1
    /\ ValidLane(name, width, lane, [bytes |-> length, bits |-> bits])
    /\ old \in SUBSET Nat /\ name.storage \notin Gprs
    /\ e.storage = name.storage /\ e.low = lane * width /\ e.width = width
    /\ e.value = bits /\ e.size = name.bytes * 8

(* A lane's edit replaces its bits, though it is done by bytes             *)
(* (VectorEdit::apply). *)
LEMMA LaneIsReplaced ==
    ASSUME NEW name, NEW width, NEW lane, NEW length, NEW bits, NEW old, NEW e,
           LaneEdit(name, width, lane, length, bits, old, e)
    PROVE  /\ Replaces(old, Merge(width, lane * width, bits, old), e)
           /\ Merge(width, lane * width, bits, old) \subseteq old \cup Field(e)
  <1> USE DEF LaneEdit
  <1>0. ~ZeroExtends(e)  BY DEF ZeroExtends
  <1>1. CASE width = 1
    <2>1. lane * width = lane /\ lane < name.bytes * 8  BY <1>1 DEF ValidLane
    <2>2. (lane \div 8) * 8 + (lane % 8) = lane  OBVIOUS
    <2>3. bits \subseteq {0}  BY <1>1 DEF ValidLane
    <2>4. Merge(width, lane * width, bits, old) = (old \ {lane}) \cup Raised(bits, lane)
      BY <1>1, <2>1, <2>2 DEF Merge
    <2>5. Raised(bits, lane) \subseteq {lane}  BY <2>3 DEF Raised
    <2>6. Field(e) = {lane}  BY <1>1, <2>1 DEF Field
    <2>7. bits \subseteq Low(width) /\ lane * width + width <= name.bytes * 8
      BY <1>1, <2>1, <2>3 DEF Low
    <2> QED  BY <1>0, <2>1, <2>4, <2>5, <2>6, <2>7 DEF Replaces
  <1>2. CASE width # 1
    <2> DEFINE offset == lane * width
    <2>1. width \in {8, 16, 32, 64, 128} \/ width = name.bytes * 8
      BY <1>2 DEF ValidLane, LaneWidths
    <2>2. /\ offset % 8 = 0 /\ width % 8 = 0 /\ offset \in Nat
          /\ offset + width <= name.bytes * 8
      <3>1. width # 0 /\ lane < (name.bytes * 8) \div width  BY DEF ValidLane
      <3> QED  BY <2>1, <3>1, WholeBytes
    <2> HIDE DEF offset
    <2>3. (offset \div 8) * 8 = offset /\ ((offset + width + 7) \div 8) * 8 = offset + width
      <3>1. offset + width \in Nat /\ (offset + width) % 8 = 0  BY <2>2
      <3> QED  BY <2>2, <3>1, Eighths
    <2>4. length = (width + 7) \div 8 /\ length * 8 = width
      <3>1. length = (width + 7) \div 8  BY DEF ValidLane
      <3>2. ((width + 7) \div 8) * 8 = width  BY <2>2, Eighths
      <3> QED  BY <3>1, <3>2
    <2>5. Merge(width, offset, bits, old) = (old \ (offset .. offset + width - 1)) \cup Raised(bits, offset)
      <3> DEFINE start == offset \div 8  end == (offset + width + 7) \div 8
      <3>1. Merge(width, offset, bits, old) = (old \ (start * 8 .. end * 8 - 1)) \cup Raised(bits, start * 8)
        BY <1>2 DEF Merge
      <3>2. start * 8 = offset /\ end * 8 = offset + width  BY <2>3
      <3>3. end * 8 - 1 = offset + width - 1  BY <3>2, <2>2
      <3>4. start * 8 .. end * 8 - 1 = offset .. offset + width - 1  BY <3>2, <3>3
      <3> HIDE DEF start, end
      <3>5. Raised(bits, start * 8) = Raised(bits, offset)
        <4>1. \A n \in bits : n + start * 8 = n + offset  BY <3>2
        <4> QED  BY <4>1 DEF Raised
      <3> QED  BY <3>1, <3>4, <3>5
    <2>6. Raised(bits, offset) \subseteq offset .. offset + width - 1  BY <2>2, <2>4 DEF Raised
    <2>7. Field(e) = offset .. offset + width - 1  BY DEF Field, offset
    <2>8. bits \subseteq Low(width)  BY <2>4 DEF Low
    <2>9. e.low = offset  BY DEF offset
    <2>10. Merge(width, lane * width, bits, old) = Merge(width, offset, bits, old)  BY DEF offset
    <2> QED  BY <1>0, <2>2, <2>5, <2>6, <2>7, <2>8, <2>9, <2>10 DEF Replaces
  <1> QED  BY <1>1, <1>2

-----------------------------------------------------------------------------
(* A load starts with storage of the native widths. *)
LEMMA InitSized == RegistersInit => Sized
  <1> SUFFICES ASSUME RegistersInit PROVE Sized  OBVIOUS
  <1>1. PICK a \in Assignments : Unique(a) /\ file = Bank(a)  BY DEF RegistersInit
  <1>2. \A s \in Storages : file[s] \subseteq 0 .. 63
    BY <1>1, RegistersAssumption DEF Bank
  <1>3. \A s \in Storages \ Gprs : file[s] = {}
    BY <1>1 DEF Bank, Unique
  <1>4. \A s \in Gprs : Stored(s) = 8  BY Distinct DEF Stored
  <1>5. \A s \in Storages : file[s] \subseteq 0 .. Stored(s) * 8 - 1
    <2> SUFFICES ASSUME NEW s \in Storages PROVE file[s] \subseteq 0 .. Stored(s) * 8 - 1  OBVIOUS
    <2>1. CASE s \in Gprs  BY <2>1, <1>2, <1>4
    <2>2. CASE s \notin Gprs  BY <2>2, <1>3
    <2> QED  BY <2>1, <2>2
  <1>6. file \in [Storages -> SUBSET Nat]  BY <1>1, <1>2 DEF Bank
  <1> QED  BY <1>5, <1>6 DEF RegistersInit, Sized

(* Lengths are those of the architecture. *)
LEMMA LengthsAre ==
    ASSUME Sized
    PROVE  /\ lengths[1] \in Nat /\ lengths[2] \in Nat /\ lengths[1] <= lengths[2]
           /\ 16 <= lengths[1] /\ lengths[1] % 16 = 0 /\ lengths[2] % 16 = 0
           /\ target = "x86_64" => lengths[1] = 32 /\ lengths[2] = 32
  BY RegistersAssumption DEF Sized

(* Edits of names leave the storage sized and are exact. *)
LEMMA StepName ==
    ASSUME Sized, WriteName PROVE Sized' /\ Exact(edit')
  <1>1. PICK name \in Names, value \in Values :
          /\ Request(name.storage, name.shift, name.width, value, 64, Acceptable(name, value))
          /\ IF Acceptable(name, value)
             THEN file' = [file EXCEPT ![name.storage] = Apply(name, value, @)]
             ELSE file' = file
    BY DEF WriteName
  <1>2. target' = target /\ lengths' = lengths  BY DEF WriteName
  <1>3. name.storage \in Gprs \cup {"ip", "flags"} /\ name.storage \in Storages
    BY RegistersAssumption DEF Names, X86Aliases, Alias, Storages
  <1>4. Stored(name.storage) = 8  BY <1>3, Distinct DEF Stored
  <1>5. file[name.storage] \in SUBSET (0 .. 63)  BY <1>3, <1>4 DEF Sized
  <1>6. edit'.storage = name.storage  BY <1>1 DEF Request
  <1>7. CASE ~Acceptable(name, value)
    <2>1. file' = file /\ ~edit'.accepted  BY <1>1, <1>7 DEF Request
    <2> QED  BY <2>1, <1>2, <1>3, <1>6 DEF Sized, Exact, Stored
  <1>8. CASE Acceptable(name, value)
    <2> DEFINE old == file[name.storage]  new == Apply(name, value, old)
    <2>1. file' = [file EXCEPT ![name.storage] = new]  BY <1>1, <1>8
    <2>2. edit' = [step |-> edit.step + 1, storage |-> name.storage, low |-> name.shift,
                   width |-> name.width, value |-> value, size |-> 64, accepted |-> TRUE]
      BY <1>1, <1>8 DEF Request
    <2>3. Replaces(old, new, edit') /\ new \subseteq 0 .. 63
      BY <1>5, <1>8, <2>2, NameIsReplaced
    <2>4. file'[name.storage] = new /\ \A s \in Storages \ {name.storage} : file'[s] = file[s]
      BY <1>3, <2>1 DEF Sized
    <2> HIDE DEF new
    <2>5. Exact(edit')  BY <1>3, <1>6, <2>2, <2>3, <2>4 DEF Exact, Replaces
    <2>6. \A s \in Storages : file'[s] \subseteq 0 .. Stored(s)' * 8 - 1
      BY <1>2, <1>4, <2>3, <2>4 DEF Sized, Stored
    <2>7. file' \in [Storages -> SUBSET Nat]
      <3>1. new \in SUBSET Nat  BY <2>3
      <3> QED  BY <2>1, <3>1 DEF Sized
    <2> QED  BY <1>2, <2>5, <2>6, <2>7 DEF Sized
  <1> QED  BY <1>7, <1>8

(* Edits of lanes likewise: what is accepted fits the bank. *)
LEMMA StepLane ==
    ASSUME Sized, WriteLane PROVE Sized' /\ Exact(edit')
  <1>1. PICK name \in VectorNames, width \in Widths, lane \in Lanes, bits \in Values, extra \in {0, 1} :
          LET offset == lane * width
              value == [bytes |-> (width + 7) \div 8 + extra, bits |-> bits]
              fits == (offset + width + 7) \div 8 <= Stored(name.storage)
              accepted == ValidLength /\ ValidLane(name, width, lane, value) /\ fits
          IN  /\ bits \subseteq Low(value.bytes * 8)
              /\ Request(name.storage, offset, width, bits, name.bytes * 8, accepted)
              /\ file' = IF accepted
                         THEN [file EXCEPT ![name.storage] = Merge(width, offset, bits, @)]
                         ELSE file
    BY DEF WriteLane
  <1>2. target' = target /\ lengths' = lengths  BY DEF WriteLane
  <1>3. width \in Nat /\ lane \in Nat /\ bits \in SUBSET Nat  BY RegistersAssumption
  <1>4. /\ name.storage \in {"vector", "predicate"} /\ name.storage \in Storages
        /\ name.storage \notin Gprs
        /\ name.bytes \in Nat /\ name.bytes <= Stored(name.storage)
        /\ Stored(name.storage) \in Nat
    <2>1. name.storage \in {"vector", "predicate"}  BY DEF VectorNames
    <2>2. /\ name.bytes \in Nat /\ name.bytes <= Stored(name.storage)
          /\ Stored(name.storage) \in Nat
      <3>1. CASE name = [storage |-> "vector", bytes |-> 16]  BY <3>1, LengthsAre DEF Stored
      <3>2. CASE target = "x86_64" /\ name = [storage |-> "vector", bytes |-> 32]
        BY <3>2, LengthsAre DEF Stored
      <3>3. CASE name = [storage |-> "vector", bytes |-> lengths[1]]  BY <3>3, LengthsAre DEF Stored
      <3>4. CASE name = [storage |-> "predicate", bytes |-> lengths[1] \div 8]
        BY <3>4, LengthsAre DEF Stored
      <3> QED  BY <3>1, <3>2, <3>3, <3>4 DEF VectorNames
    <2> QED  BY <2>1, <2>2, Distinct DEF Storages
  <1> DEFINE length == (width + 7) \div 8 + extra
             accepted == /\ ValidLength /\ ValidLane(name, width, lane, [bytes |-> length, bits |-> bits])
                         /\ (lane * width + width + 7) \div 8 <= Stored(name.storage)
             old == file[name.storage]
             new == Merge(width, lane * width, bits, old)
  <1>5. /\ bits \subseteq 0 .. length * 8 - 1
        /\ Request(name.storage, lane * width, width, bits, name.bytes * 8, accepted)
        /\ file' = IF accepted THEN [file EXCEPT ![name.storage] = new] ELSE file
    BY <1>1 DEF Low
  <1>6. length \in Nat  BY <1>3
  <1> HIDE DEF length, new
  <1>7. edit' = [step |-> edit.step + 1, storage |-> name.storage, low |-> lane * width,
                 width |-> width, value |-> bits, size |-> name.bytes * 8, accepted |-> accepted]
    BY <1>5 DEF Request
  <1>8. CASE ~accepted
    <2>1. file' = file /\ ~edit'.accepted /\ edit'.storage = name.storage  BY <1>5, <1>7, <1>8
    <2> QED  BY <2>1, <1>2, <1>4 DEF Sized, Exact, Stored
  <1>9. CASE accepted
    <2>1. ValidLane(name, width, lane, [bytes |-> length, bits |-> bits])  BY <1>9
    <2> HIDE DEF accepted
    <2>2. edit' = [step |-> edit.step + 1, storage |-> name.storage, low |-> lane * width,
                   width |-> width, value |-> bits, size |-> name.bytes * 8, accepted |-> TRUE]
      BY <1>7, <1>9
    <2>3. old \in SUBSET Nat  BY <1>4 DEF Sized
    <2>4. Replaces(old, new, edit') /\ new \subseteq old \cup Field(edit')
      <3>1. bits \subseteq 0 .. length * 8 - 1  BY <1>5
      <3>2. name.bytes \in Nat /\ name.storage \notin Gprs  BY <1>4
      <3>3. /\ edit'.storage = name.storage /\ edit'.low = lane * width /\ edit'.width = width
            /\ edit'.value = bits /\ edit'.size = name.bytes * 8
        BY <2>2
      <3> HIDE DEF old
      <3>4. new = Merge(width, lane * width, bits, old)  BY DEF new
      <3>5. LaneEdit(name, width, lane, length, bits, old, edit')
        BY <1>3, <1>6, <2>1, <2>3, <3>1, <3>2, <3>3 DEF LaneEdit
      <3> QED  BY <3>4, <3>5, LaneIsReplaced
    <2>5. file'[name.storage] = new /\ \A s \in Storages \ {name.storage} : file'[s] = file[s]
      BY <1>4, <1>5, <1>9 DEF Sized
    <2>6. Exact(edit')  BY <1>4, <2>2, <2>4, <2>5 DEF Exact, Replaces
    <2>7. Field(edit') \subseteq 0 .. Stored(name.storage) * 8 - 1
      <3>1. edit'.low \in Nat /\ edit'.width \in Nat /\ edit'.low + edit'.width <= name.bytes * 8
        <4>1. edit'.low \in Nat  BY <1>3, <2>2
        <4> QED  BY <4>1, <1>3, <2>2, <2>4 DEF Replaces
      <3> QED  BY <3>1, <1>4 DEF Field
    <2>8. \A s \in Storages : file'[s] \subseteq 0 .. Stored(s)' * 8 - 1
      BY <1>2, <1>4, <2>4, <2>5, <2>7 DEF Sized, Stored
    <2>9. new \subseteq Nat  BY <2>3, <2>4, <2>7, <1>4
    <2>10. file' \in [Storages -> SUBSET Nat]  BY <1>4, <1>5, <1>9, <2>9 DEF Sized
    <2> QED  BY <1>2, <2>6, <2>8, <2>10 DEF Sized
  <1> QED  BY <1>8, <1>9

(* The rounding field is two bits of the control word. *)
LEMMA StepRounding ==
    ASSUME Sized, SetRounding PROVE Sized' /\ Exact(edit')
  <1>1. PICK rounding \in {"nearest_even", "down", "up", "toward_zero"} :
          /\ Request("control", RoundingAt, 2, Direction(rounding), 32, TRUE)
          /\ file' = [file EXCEPT !["control"] =
                         (@ \ {RoundingAt, RoundingAt + 1}) \cup Raised(Direction(rounding), RoundingAt)]
    BY DEF SetRounding
  <1>2. target' = target /\ lengths' = lengths  BY DEF SetRounding
  <1>3. RoundingAt \in 13 .. 22  BY DEF RoundingAt
  <1>4. Direction(rounding) \subseteq 0 .. 1  BY DEF Direction
  <1> DEFINE old == file["control"]
             new == (old \ {RoundingAt, RoundingAt + 1}) \cup Raised(Direction(rounding), RoundingAt)
  <1>5. "control" \in Storages /\ "control" \notin Gprs /\ Stored("control") = 4
    BY Distinct DEF Storages, Stored
  <1>6. old \subseteq 0 .. 31 /\ new \subseteq 0 .. 31
    BY <1>3, <1>4, <1>5 DEF Sized, Raised
  <1>7. edit' = [step |-> edit.step + 1, storage |-> "control", low |-> RoundingAt, width |-> 2,
                 value |-> Direction(rounding), size |-> 32, accepted |-> TRUE]
    BY <1>1 DEF Request
  <1>8. Field(edit') = {RoundingAt, RoundingAt + 1}  BY <1>3, <1>7 DEF Field
  <1>9. Raised(Direction(rounding), RoundingAt) \subseteq Field(edit')
    BY <1>3, <1>4, <1>8 DEF Raised
  <1>10. file' = [file EXCEPT !["control"] = new]  BY <1>1
  <1>11. file'["control"] = new /\ \A s \in Storages \ {"control"} : file'[s] = file[s]
    BY <1>5, <1>10 DEF Sized
  <1>12. ~ZeroExtends(edit')  BY <1>5, <1>7 DEF ZeroExtends
  <1>13. Exact(edit')
    <2>1. edit'.value \subseteq Low(edit'.width) /\ edit'.low + edit'.width <= edit'.size
      BY <1>3, <1>4, <1>7 DEF Low
    <2>2. new \cap Field(edit') = Raised(Direction(rounding), RoundingAt)  BY <1>8, <1>9
    <2>3. new \ Field(edit') = old \ Field(edit')  BY <1>8, <1>9
    <2> HIDE DEF new
    <2> QED  BY <1>7, <1>11, <1>12, <2>1, <2>2, <2>3 DEF Exact
  <1> HIDE DEF new
  <1>14. \A s \in Storages : file'[s] \subseteq 0 .. Stored(s)' * 8 - 1
    BY <1>2, <1>5, <1>6, <1>11 DEF Sized, Stored
  <1>15. file' \in [Storages -> SUBSET Nat]
    <2>1. new \in SUBSET Nat  BY <1>6
    <2> QED  BY <2>1, <1>10 DEF Sized
  <1> QED  BY <1>2, <1>13, <1>14, <1>15 DEF Sized

(* The guest keeps its storage sized. *)
LEMMA StepGuest == ASSUME Sized, GuestRuns PROVE Sized' /\ edit'.storage = "none"
  <1>1. PICK l \in Lengths, v \in Values :
          /\ l[2] = lengths[2] /\ (target = "x86_64" => l = lengths)
          /\ lengths' = l /\ file' = [s \in Storages |-> v \cap Low(Stored(s) * 8)]
    BY DEF GuestRuns
  <1>2. target' = target /\ edit'.storage = "none"  BY DEF GuestRuns
  <1>3. \A s \in Storages : Stored(s)' = Stored(s)  BY <1>1 DEF Stored
  <1>4. \A s \in Storages : file'[s] \subseteq 0 .. Stored(s)' * 8 - 1  BY <1>1, <1>3 DEF Low
  <1>5. file' \in [Storages -> SUBSET Nat]  BY <1>1, RegistersAssumption
  <1> QED  BY <1>1, <1>2, <1>4, <1>5 DEF Sized

(* The invariant: storage keeps its native width, whoever writes it. *)
LEMMA StepSized == Sized /\ [RegistersNext]_registersVars => Sized'
  <1> SUFFICES ASSUME Sized, [RegistersNext]_registersVars PROVE Sized'  OBVIOUS
  <1>1. CASE GuestRuns  BY <1>1, StepGuest
  <1>2. CASE WriteName  BY <1>2, StepName
  <1>3. CASE WriteLane  BY <1>3, StepLane
  <1>4. CASE SetRounding  BY <1>4, StepRounding
  <1>5. CASE UNCHANGED registersVars  BY <1>5 DEF registersVars, Sized, Stored
  <1> QED  BY <1>1, <1>2, <1>3, <1>4, <1>5 DEF RegistersNext

(***************************************************************************)
(* No edit that is accepted disturbs a bit it does not name, for every     *)
(* request and every vector length, and one that is refused changes        *)
(* nothing (RegisterEdit::apply, VectorEdit::apply, RoundingMode::apply).  *)
(***************************************************************************)
THEOREM EditsLeaveTheRest == RegistersSpec => EditsAreExact
  <1>1. Sized /\ [RegistersNext]_registersVars => [edit'.storage # "none" => Exact(edit')]_registersVars
    <2> SUFFICES ASSUME Sized, RegistersNext PROVE edit'.storage # "none" => Exact(edit')  OBVIOUS
    <2>1. CASE GuestRuns  BY <2>1, StepGuest
    <2>2. CASE WriteName  BY <2>2, StepName
    <2>3. CASE WriteLane  BY <2>3, StepLane
    <2>4. CASE SetRounding  BY <2>4, StepRounding
    <2> QED  BY <2>1, <2>2, <2>3, <2>4 DEF RegistersNext
  <1> QED  BY <1>1, InitSized, StepSized, PTL DEF RegistersSpec, EditsAreExact

-----------------------------------------------------------------------------
(* The runtime and its machine.                                            *)

USE RuntimeAssumption, MachineAssumption

(***************************************************************************)
(* The strengthening.  The cache and the linker hold the same code: each   *)
(* unit is linked under the key it is cached for.  The block translated is *)
(* the instruction in memory until it runs, because nothing writes memory  *)
(* in between; and while a call has not returned, it has dispatched once   *)
(* per repetition and has not used its budget.                             *)
(***************************************************************************)
CallFields == {"stage", "budget", "dispatches", "started", "repeated", "block", "unit", "outcome",
               "point", "access", "from"}
RebuildFields == {"stage", "mapped", "pc", "armed"}
Stages == {"idle", "translate", "prepare", "run", "done"}

Matched(entries, units) ==
    /\ \A key \in DOMAIN entries : units[entries[key]] = key
    /\ DOMAIN units = Range(entries)

Bounded(entries) == IsFiniteSet(DOMAIN entries) /\ Cardinality(DOMAIN entries) <= CacheLimit

CodeOwned ==
    /\ sequence \in Nat
    /\ Bounded(cache) /\ Matched(cache, linked)
    /\ \A unit \in DOMAIN linked : unit \in Nat /\ unit < sequence

CallShaped == DOMAIN call = CallFields /\ call.stage \in Stages

CallCurrent ==
    /\ call.stage = "prepare" => call.block = Current
    /\ RunsCurrentCode

Unreturned == call.stage \in {"translate", "prepare", "run"}
CallCounted ==
    /\ call.budget \in Nat /\ call.dispatches \in Nat
    /\ call.repeated \in BOOLEAN /\ call.started \in BOOLEAN
    /\ Unreturned =>
        /\ call.dispatches < call.budget
        /\ call.dispatches > 0 <=> call.repeated
        /\ call.repeated => call.started
        /\ pc = call.from
    /\ call.stage \in {"prepare", "run"} => call.started
    /\ StepIsAdmissible

RebuildStaged ==
    /\ DOMAIN rebuild = RebuildFields /\ rebuild.stage \in {"none", "map", "watch", "swap"}
    /\ rebuild.stage = "none" => rebuild = NoRebuild
    /\ rebuild # NoRebuild => call.stage = "idle"
    /\ rebuild.stage \in {"watch", "swap"} => rebuild.pc = Entry
    /\ generation \in Nat

CodeInv == CallShaped /\ CodeOwned /\ CallCurrent
ResetInv == CallShaped /\ RebuildStaged
CountInv == CallShaped /\ CallCounted

-----------------------------------------------------------------------------
(* Operators of the cache.                                                 *)

(* An empty cache and linker are matched. *)
LEMMA EmptyMatched == Matched(Empty, Empty) /\ Bounded(Empty) /\ Range(Empty) = {}
<1>1. DOMAIN Empty = {}
  BY DEF Empty
<1>2. IsFiniteSet(DOMAIN Empty) /\ Cardinality(DOMAIN Empty) = 0
  BY <1>1, FS_EmptySet
<1>3. Range(Empty) = {}
  BY <1>1 DEF Range
<1> QED BY <1>1, <1>2, <1>3 DEF Matched, Bounded

(* What an eviction keeps is matched, and has room for one more entry. *)
LEMMA RoomMatched ==
  ASSUME CodeOwned, NEW key, key \notin DOMAIN cache
  PROVE  /\ Matched(MakeRoom(key), Kept(MakeRoom(key)))
         /\ Bounded(MakeRoom(key)) /\ Cardinality(DOMAIN MakeRoom(key)) < CacheLimit
         /\ DOMAIN Kept(MakeRoom(key)) \subseteq DOMAIN linked
         /\ key \notin DOMAIN MakeRoom(key)
<1>1. CASE MakeRoom(key) = Empty
  <2>1. DOMAIN Kept(Empty) = {} /\ DOMAIN Empty = {}
    BY EmptyMatched DEF Kept, Restrict, Empty
  <2>2. Cardinality(DOMAIN Empty) = 0
    BY <2>1, FS_EmptySet
  <2> QED BY <1>1, <2>1, <2>2, EmptyMatched DEF Matched
<1>2. CASE MakeRoom(key) = cache /\ Cardinality(DOMAIN cache) # CacheLimit
  <2>1. Cardinality(DOMAIN cache) \in Nat
    BY FS_CardinalityType DEF CodeOwned, Bounded
  <2>2. Cardinality(DOMAIN cache) < CacheLimit
    BY <1>2, <2>1 DEF CodeOwned, Bounded
  <2>3. Kept(cache) = [unit \in Range(cache) |-> linked[unit]]
    BY DEF Kept, Restrict
  <2>4. DOMAIN Kept(cache) = DOMAIN linked
    BY <2>3 DEF CodeOwned, Matched
  <2>5. \A k \in DOMAIN cache : Kept(cache)[cache[k]] = k
    BY <2>3 DEF CodeOwned, Matched, Range
  <2> QED BY <1>2, <2>2, <2>3, <2>4, <2>5 DEF CodeOwned, Matched
<1> QED BY <1>1, <1>2 DEF MakeRoom

(* A new unit cached under a new key is matched. *)
LEMMA InsertMatched ==
  ASSUME NEW entries, NEW units, NEW key, NEW unit,
         Matched(entries, units), key \notin DOMAIN entries, unit \notin DOMAIN units
  PROVE  Matched(Insert(entries, key, unit), Insert(units, unit, key))
<1> DEFINE e == Insert(entries, key, unit)
           u == Insert(units, unit, key)
<1>1. /\ DOMAIN e = DOMAIN entries \cup {key} /\ e[key] = unit
      /\ \A k \in DOMAIN entries : e[k] = entries[k]
  BY DEF Insert
<1>2. /\ DOMAIN u = DOMAIN units \cup {unit} /\ u[unit] = key
      /\ \A n \in DOMAIN units : u[n] = units[n]
  BY DEF Insert
<1>3. \A k \in DOMAIN entries : entries[k] \in DOMAIN units /\ units[entries[k]] = k
  BY DEF Matched, Range
<1>4. Range(e) = Range(entries) \cup {unit}
  BY <1>1 DEF Range
<1> HIDE DEF e, u
<1>5. Matched(e, u)
  BY <1>1, <1>2, <1>3, <1>4 DEF Matched
<1> QED BY <1>5 DEF e, u

(* One entry more fits where there is room for it. *)
LEMMA InsertBounded ==
  ASSUME NEW entries, NEW key, NEW unit,
         Bounded(entries), key \notin DOMAIN entries, Cardinality(DOMAIN entries) < CacheLimit
  PROVE  Bounded(Insert(entries, key, unit))
<1>1. DOMAIN Insert(entries, key, unit) = DOMAIN entries \cup {key}
  BY DEF Insert
<1>2. IsFiniteSet(DOMAIN entries) /\ Cardinality(DOMAIN entries) \in Nat
  BY FS_CardinalityType DEF Bounded
<1>3. /\ IsFiniteSet(DOMAIN entries \cup {key})
      /\ Cardinality(DOMAIN entries \cup {key}) = Cardinality(DOMAIN entries) + 1
  BY <1>2, FS_AddElement
<1> QED BY <1>1, <1>2, <1>3 DEF Bounded

-----------------------------------------------------------------------------
(* Resets.                                                                 *)

(* No reset is under way at the start. *)
LEMMA InitReset == MachineInit => ResetInv
  BY SMT DEF MachineInit, Init, ResetInv, CallShaped, RebuildStaged, NoCall, NoRebuild, CallFields,
     RebuildFields, Stages

(* A result keeps what the step counted. *)
LEMMA ResultFields ==
  ASSUME NEW step, DOMAIN step = CallFields, Result(step)
  PROVE  /\ DOMAIN call' = CallFields /\ call'.stage = "done"
         /\ call'.budget = step.budget /\ call'.dispatches = step.dispatches
         /\ call'.started = step.started /\ call'.repeated = step.repeated
         /\ call'.outcome = step.outcome /\ call'.from = step.from
  BY SMT DEF Result, CallFields

(* After a dispatch a call is done, or translates again for a repetition. *)
LEMMA SettleFields ==
  ASSUME NEW step, DOMAIN step = CallFields, Settle(step)
  PROVE  /\ DOMAIN call' = CallFields
         /\ call'.budget = step.budget /\ call'.dispatches = step.dispatches
         /\ call'.started = step.started /\ call'.repeated = step.repeated
         /\ call'.from = step.from
         /\ \/ call'.stage = "done" /\ ~step.repeated /\ call'.outcome = "finished"
            \/ /\ call'.stage = "done" /\ step.repeated /\ step.dispatches = step.budget
               /\ call'.outcome = "yield"
            \/ /\ call'.stage = "translate" /\ step.repeated /\ step.dispatches # step.budget
               /\ call'.outcome = step.outcome
<1>1. CASE ~step.repeated
  <2> DEFINE s == [step EXCEPT !.outcome = "finished"]
  <2>1. /\ DOMAIN s = CallFields /\ s.outcome = "finished" /\ s.budget = step.budget
        /\ s.dispatches = step.dispatches /\ s.started = step.started
        /\ s.repeated = step.repeated /\ s.from = step.from
    BY SMT DEF CallFields
  <2>2. Result(s)
    BY <1>1 DEF Settle
  <2> HIDE DEF s
  <2> QED BY <1>1, <2>1, <2>2, ResultFields
<1>2. CASE step.repeated /\ step.dispatches = step.budget
  <2> DEFINE s == [step EXCEPT !.outcome = "yield"]
  <2>1. /\ DOMAIN s = CallFields /\ s.outcome = "yield" /\ s.budget = step.budget
        /\ s.dispatches = step.dispatches /\ s.started = step.started
        /\ s.repeated = step.repeated /\ s.from = step.from
    BY SMT DEF CallFields
  <2>2. Result(s)
    BY <1>2 DEF Settle
  <2> HIDE DEF s
  <2> QED BY <1>2, <2>1, <2>2, ResultFields
<1>3. CASE step.repeated /\ step.dispatches # step.budget
  <2>1. call' = [step EXCEPT !.stage = "translate", !.block = NoBlock, !.unit = NoUnit]
    BY <1>3 DEF Settle
  <2>2. /\ DOMAIN call' = CallFields /\ call'.stage = "translate"
        /\ call'.budget = step.budget /\ call'.dispatches = step.dispatches
        /\ call'.started = step.started /\ call'.repeated = step.repeated
        /\ call'.from = step.from /\ call'.outcome = step.outcome
    BY <2>1, SMT DEF CallFields
  <2> QED BY <1>3, <2>2
<1> QED BY <1>1, <1>2, <1>3

(* Every step that ends a call keeps its fields, except a dispatch. *)
LEMMA EndsShaped ==
  ASSUME CallShaped, TranslateStops \/ NativeFails \/ DispatchTraps \/ CompileRefuses \/ CompileFails
  PROVE  /\ CallShaped' /\ call'.stage = "done" /\ call.stage # "idle"
<1>1. CASE TranslateStops
  <2>1. PICK outcome \in {"fault", "environment"} :
          Result([call EXCEPT !.repeated = FALSE, !.outcome = outcome])
    BY <1>1 DEF TranslateStops
  <2>2. DOMAIN [call EXCEPT !.repeated = FALSE, !.outcome = outcome] = CallFields
    BY DEF CallShaped
  <2> QED BY <1>1, <2>1, <2>2, ResultFields DEF TranslateStops, InCall, CallShaped, Stages
<1>2. CASE NativeFails
  <2>1. Result([call EXCEPT !.outcome = "error"]) /\ DOMAIN [call EXCEPT !.outcome = "error"] = CallFields
    BY <1>2 DEF NativeFails, CallShaped
  <2> QED BY <1>2, <2>1, ResultFields DEF NativeFails, CallShaped, Stages
<1>3. CASE DispatchTraps
  <2>1. PICK outcome \in {"fault", "environment"} :
          Result([Dispatched EXCEPT !.repeated = FALSE, !.outcome = outcome])
    BY <1>3 DEF DispatchTraps
  <2>2. DOMAIN [Dispatched EXCEPT !.repeated = FALSE, !.outcome = outcome] = CallFields
    BY DEF CallShaped, Dispatched
  <2> QED BY <1>3, <2>1, <2>2, ResultFields DEF DispatchTraps, InCall, CallShaped, Stages
<1>4. CASE CompileRefuses
  <2>1. Result([call EXCEPT !.outcome = "fault"]) /\ DOMAIN [call EXCEPT !.outcome = "fault"] = CallFields
    BY <1>4 DEF CompileRefuses, CallShaped
  <2> QED BY <1>4, <2>1, ResultFields DEF CompileRefuses, Misses, InCall, CallShaped, Stages
<1>5. CASE CompileFails
  <2>1. Result([call EXCEPT !.outcome = "error"]) /\ DOMAIN [call EXCEPT !.outcome = "error"] = CallFields
    BY <1>5 DEF CompileFails, CallShaped
  <2> QED BY <1>5, <2>1, ResultFields DEF CompileFails, Misses, InCall, CallShaped, Stages
<1> QED BY <1>1, <1>2, <1>3, <1>4, <1>5

(* A dispatch ends a call, or lets it translate again. *)
LEMMA DispatchShaped ==
  ASSUME CallShaped, Dispatch
  PROVE  CallShaped' /\ call'.stage \in {"translate", "done"}
<1>1. PICK kind \in Kinds, cell \in Memory, repeated \in BOOLEAN :
        Conclude([Dispatched EXCEPT !.repeated = repeated, !.access = <<cell, kind>>])
  BY DEF Dispatch
<1> DEFINE step == [Dispatched EXCEPT !.repeated = repeated, !.access = <<cell, kind>>]
<1>2. DOMAIN step = CallFields
  BY DEF Dispatched, CallShaped
<1> HIDE DEF step
<1>3. /\ \A p : DOMAIN [step EXCEPT !.outcome = "watchpoint", !.point = p] = CallFields
      /\ DOMAIN [step EXCEPT !.outcome = "error"] = CallFields
  BY <1>2
<1>4. CASE Settle(step)
  BY <1>2, <1>4, SettleFields DEF CallShaped, Stages
<1>5. CASE \E p : Result([step EXCEPT !.outcome = "watchpoint", !.point = p])
  BY <1>3, <1>5, ResultFields DEF CallShaped, Stages
<1>6. CASE Result([step EXCEPT !.outcome = "error"])
  BY <1>3, <1>6, ResultFields DEF CallShaped, Stages
<1>7. \/ Settle(step) \/ Result([step EXCEPT !.outcome = "error"])
      \/ \E p : Result([step EXCEPT !.outcome = "watchpoint", !.point = p])
  <2>1. Conclude(step)
    BY <1>1 DEF step
  <2> QED BY <2>1 DEF Conclude
<1> QED BY <1>4, <1>5, <1>6, <1>7

(* A step of a call keeps the fields of the call. *)
LEMMA RunsShaped ==
  ASSUME CallShaped, Running
  PROVE  CallShaped' /\ call.stage # "idle"
<1>1. CASE TranslateStops \/ NativeFails \/ DispatchTraps \/ CompileRefuses \/ CompileFails
  BY <1>1, EndsShaped
<1>2. CASE Translate
  BY <1>2, SMT DEF Translate, InCall, CallShaped, CallFields, Stages
<1>3. CASE CacheHits
  BY <1>3, SMT DEF CacheHits, InCall, CallShaped, CallFields, Stages
<1>4. CASE Compile
  BY <1>4, SMT DEF Compile, Misses, InCall, CallShaped, CallFields, Stages
<1>5. CASE Dispatch
  BY <1>5, DispatchShaped DEF Dispatch, InCall
<1> QED BY <1>1, <1>2, <1>3, <1>4, <1>5 DEF Running

(* A reset is staged while no call runs, and ends with the entry point. *)
LEMMA NextReset == ResetInv /\ [Next]_vars => ResetInv'
<1> SUFFICES ASSUME ResetInv, [Next]_vars PROVE ResetInv'
  OBVIOUS
<1> USE DEF ResetInv
<1>1. CASE Run
  <2>1. CallShaped'
    BY <1>1, SMT DEF Run, Execute, NoCall, CallShaped, CallFields, Stages
  <2> QED BY <1>1, <2>1 DEF Run, Between, session, RebuildStaged
<1>2. CASE Runs
  <2>1. CallShaped' /\ call.stage # "idle"
    BY <1>2, RunsShaped DEF Runs
  <2> QED BY <1>2, <2>1 DEF Runs, session, RebuildStaged
<1>3. CASE Return
  <2>1. CallShaped' /\ call'.stage = "idle"
    BY <1>3, SMT DEF Return, NoCall, CallShaped, CallFields, Stages
  <2> QED BY <1>3, <2>1 DEF Return, RebuildStaged
<1>4. CASE \/ WatchRequest \/ WriteMemory \/ WriteRegister \/ WriteFails \/ UNCHANGED vars
  BY <1>4 DEF WatchRequest, WriteMemory, WriteRegister, WriteFails, SetWatchpoints, Write,
     SetRegister, vars, native, session, CallShaped, RebuildStaged
<1>5. CASE ResetBegins \/ MapRegion \/ SetEntry \/ Rearm
  <2>1. UNCHANGED <<call, generation>> /\ call.stage = "idle"
    BY <1>5 DEF ResetBegins, MapRegion, SetEntry, Rearm, Between, Idle, InCall, native, session,
       RebuildStaged, NoRebuild
  <2>2. /\ DOMAIN rebuild' = RebuildFields
        /\ rebuild'.stage \in {"map", "watch", "swap"}
        /\ rebuild'.stage \in {"watch", "swap"} => rebuild'.pc = Entry
    <3>1. CASE ResetBegins
      BY <3>1, SMT DEF ResetBegins, NoRebuild, RebuildFields
    <3>2. CASE MapRegion
      BY <3>2, SMT DEF MapRegion, RebuildStaged, RebuildFields
    <3>3. CASE SetEntry
      BY <3>3, SMT DEF SetEntry, RebuildStaged, RebuildFields
    <3>4. CASE Rearm
      BY <3>4, SMT DEF Rearm, RebuildStaged, RebuildFields
    <3> QED BY <1>5, <3>1, <3>2, <3>3, <3>4
  <2> QED BY <2>1, <2>2 DEF CallShaped, RebuildStaged
<1>6. CASE ResetFails \/ Swap
  <2>1. rebuild' = NoRebuild /\ call' = call /\ generation' \in {generation, generation + 1}
    BY <1>6 DEF ResetFails, Swap, native, session
  <2>2. DOMAIN NoRebuild = RebuildFields /\ NoRebuild.stage = "none"
    BY SMT DEF NoRebuild, RebuildFields
  <2> QED BY <2>1, <2>2 DEF CallShaped, RebuildStaged
<1> QED BY <1>1, <1>2, <1>3, <1>4, <1>5, <1>6 DEF Next

(***************************************************************************)
(* A reset that is counted leaves a fresh machine; a reset that fails at   *)
(* any stage leaves the machine it was asked of (Session::reset).          *)
(***************************************************************************)
THEOREM ResetIsAtomic == Spec => ResetAllOrNothing
<1>1. ResetInv /\ [Next]_vars =>
        [/\ generation' # generation =>
              memory' = Image /\ pc' = Entry /\ cache' = Empty /\ rebuild' = NoRebuild
         /\ rebuild # NoRebuild /\ generation' = generation => UNCHANGED native]_vars
  <2> SUFFICES ASSUME ResetInv, Next
               PROVE  /\ generation' # generation =>
                          memory' = Image /\ pc' = Entry /\ cache' = Empty /\ rebuild' = NoRebuild
                      /\ rebuild # NoRebuild /\ generation' = generation => UNCHANGED native
    OBVIOUS
  <2>1. CASE Run \/ WatchRequest \/ WriteMemory \/ WriteRegister \/ WriteFails
    <3>1. rebuild = NoRebuild /\ generation' = generation
      BY <2>1 DEF Run, WatchRequest, WriteMemory, WriteRegister, WriteFails, Between, session,
         ResetInv, RebuildStaged
    <3> QED BY <3>1
  <2>2. CASE Runs \/ Return
    <3>1. call.stage # "idle" /\ generation' = generation
      BY <2>2, RunsShaped DEF Runs, Return, InCall, session, ResetInv
    <3> QED BY <3>1 DEF ResetInv, RebuildStaged
  <2>3. CASE ResetBegins \/ MapRegion \/ SetEntry \/ Rearm \/ ResetFails
    BY <2>3 DEF ResetBegins, MapRegion, SetEntry, Rearm, ResetFails, session
  <2>4. CASE Swap
    <3>1. generation' # generation
      BY <2>4 DEF Swap, ResetInv, RebuildStaged
    <3> QED BY <2>4, <3>1 DEF Swap, ResetInv, RebuildStaged
  <2> QED BY <2>1, <2>2, <2>3, <2>4 DEF Next
<1> QED BY <1>1, InitReset, NextReset, PTL DEF Spec, ResetAllOrNothing

-----------------------------------------------------------------------------
(* Cached code.                                                            *)

(* The cache and the linker start empty. *)
LEMMA InitCode == MachineInit => CodeInv
<1> SUFFICES ASSUME MachineInit PROVE CodeInv
  OBVIOUS
<1>1. CallShaped
  BY SMT DEF MachineInit, Init, CallShaped, NoCall, CallFields, Stages
<1>2. CodeOwned
  BY EmptyMatched DEF MachineInit, Init, CodeOwned, Empty
<1>3. call.stage = "idle"
  BY DEF MachineInit, Init, NoCall
<1> QED BY <1>1, <1>2, <1>3 DEF CodeInv, CallCurrent, RunsCurrentCode, InCall

(* The key of a fresh translation is the instruction in memory. *)
LEMMA KeyIsCurrent == Key(pc, mode, memory) = Current
  BY DEF Key, Current

(* Steps that leave cache, linker and the instruction in memory alone. *)
LEMMA QuietCode ==
  ASSUME CodeInv, UNCHANGED code, CallShaped', call'.stage \notin {"prepare", "run"}
  PROVE  CodeInv'
<1>1. CodeOwned'
  BY DEF CodeInv, CodeOwned, code
<1>2. CallCurrent'
  BY DEF CallCurrent, RunsCurrentCode, InCall
<1> QED BY <1>1, <1>2 DEF CodeInv

(* Every step of a call keeps the code it may run. *)
LEMMA RunsCode == CodeInv /\ Running => CodeInv'
<1> SUFFICES ASSUME CodeInv, Running PROVE CodeInv'
  OBVIOUS
<1> USE DEF CodeInv
<1>1. CASE TranslateStops \/ NativeFails \/ DispatchTraps
  <2>1. CallShaped' /\ call'.stage = "done"
    BY <1>1, EndsShaped
  <2> QED BY <1>1, <2>1, QuietCode DEF TranslateStops, NativeFails, DispatchTraps
<1>2. CASE Translate
  <2>1. CallShaped' /\ call'.stage = "prepare" /\ call'.block = Key(pc, mode, memory)
    BY <1>2, SMT DEF Translate, CallShaped, CallFields, Stages
  <2>2. Current' = Current
    BY <1>2 DEF Translate, cpu, Current
  <2>3. CodeOwned'
    BY <1>2 DEF Translate, CodeOwned, code
  <2> QED BY <2>1, <2>2, <2>3, KeyIsCurrent DEF CallCurrent, RunsCurrentCode, InCall
<1>3. CASE CacheHits
  <2>1. CallShaped' /\ call'.stage = "run" /\ call'.unit = cache[call.block]
    BY <1>3, SMT DEF CacheHits, CallShaped, CallFields, Stages
  <2>2. call.block = Current /\ call.block \in DOMAIN cache
    BY <1>3 DEF CacheHits, CallCurrent, InCall
  <2>3. cache[call.block] \in DOMAIN linked /\ linked[cache[call.block]] = Current
    BY <2>2 DEF CodeOwned, Matched, Range
  <2>4. Current' = Current /\ linked' = linked
    BY <1>3 DEF CacheHits, cpu, code, Current
  <2>5. CodeOwned'
    BY <1>3 DEF CacheHits, CodeOwned, code
  <2> QED BY <2>1, <2>3, <2>4, <2>5 DEF CallCurrent, RunsCurrentCode, InCall
<1>4. CASE Compile
  <2> DEFINE room == MakeRoom(call.block)
  <2>1. call.block = Current /\ call.block \notin DOMAIN cache
    BY <1>4 DEF Compile, Misses, CallCurrent, InCall
  <2>2. /\ Matched(room, Kept(room)) /\ Bounded(room)
        /\ Cardinality(DOMAIN room) < CacheLimit
        /\ DOMAIN Kept(room) \subseteq DOMAIN linked /\ call.block \notin DOMAIN room
    BY <2>1, RoomMatched
  <2>3. /\ cache' = Insert(room, call.block, sequence)
        /\ linked' = Insert(Kept(room), sequence, call.block)
        /\ sequence' = sequence + 1
    BY <1>4, <2>1 DEF Compile
  <2>4. \A unit \in DOMAIN Kept(room) : unit \in Nat /\ unit < sequence
    BY <2>2 DEF CodeOwned
  <2>5. sequence \in Nat /\ sequence \notin DOMAIN Kept(room)
    BY <2>4 DEF CodeOwned
  <2> HIDE DEF room
  <2>6. Matched(cache', linked')
    BY <2>2, <2>3, <2>5, InsertMatched
  <2>7. Bounded(cache')
    BY <2>2, <2>3, InsertBounded
  <2>8. /\ DOMAIN linked' = DOMAIN Kept(room) \cup {sequence}
        /\ linked'[sequence] = call.block
    BY <2>3 DEF Insert
  <2>9. \A unit \in DOMAIN linked' : unit \in Nat /\ unit < sequence'
    BY <2>3, <2>4, <2>5, <2>8
  <2>10. CodeOwned'
    BY <2>3, <2>5, <2>6, <2>7, <2>9 DEF CodeOwned, Matched, Bounded
  <2>11. CallShaped' /\ call'.stage = "run" /\ call'.unit = sequence
    BY <1>4, SMT DEF Compile, CallShaped, CallFields, Stages
  <2>12. Current' = Current
    BY <1>4 DEF Compile, cpu, Current
  <2> QED BY <2>1, <2>8, <2>10, <2>11, <2>12 DEF CallCurrent, RunsCurrentCode, InCall
<1>5. CASE CompileRefuses \/ CompileFails
  <2> DEFINE room == MakeRoom(call.block)
  <2>1. call.block \notin DOMAIN cache
    BY <1>5 DEF CompileRefuses, CompileFails, Misses
  <2>2. /\ Matched(room, Kept(room)) /\ Bounded(room)
        /\ DOMAIN Kept(room) \subseteq DOMAIN linked
    BY <2>1, RoomMatched
  <2>3. /\ cache' = room /\ linked' = Kept(room)
        /\ sequence' \in {sequence, sequence + 1}
    BY <1>5 DEF CompileRefuses, CompileFails
  <2> HIDE DEF room
  <2>4. CodeOwned'
    BY <2>2, <2>3 DEF CodeOwned, Matched, Bounded
  <2>5. CallShaped' /\ call'.stage = "done"
    BY <1>5, EndsShaped
  <2> QED BY <2>4, <2>5 DEF CallCurrent, RunsCurrentCode, InCall
<1>6. CASE Dispatch
  <2>1. CallShaped' /\ call'.stage \in {"translate", "done"}
    BY <1>6, DispatchShaped
  <2> QED BY <1>6, <2>1, QuietCode DEF Dispatch
<1> QED BY <1>1, <1>2, <1>3, <1>4, <1>5, <1>6 DEF Running

(* So does every step of the machine: only calls run code. *)
LEMMA NextCode == CodeInv /\ ResetInv /\ [Next]_vars => CodeInv'
<1> SUFFICES ASSUME CodeInv, ResetInv, [Next]_vars PROVE CodeInv'
  OBVIOUS
<1> USE DEF CodeInv
<1>1. CASE Run
  <2>1. CallShaped' /\ call'.stage = "translate"
    BY <1>1, SMT DEF Run, Execute, NoCall, CallShaped, CallFields, Stages
  <2> QED BY <1>1, <2>1, QuietCode DEF Run, Execute
<1>2. CASE Runs
  BY <1>2, RunsCode DEF Runs
<1>3. CASE Return
  <2>1. CallShaped' /\ call'.stage = "idle"
    BY <1>3, SMT DEF Return, NoCall, CallShaped, CallFields, Stages
  <2> QED BY <1>3, <2>1, QuietCode DEF Return
<1>4. CASE WatchRequest \/ WriteRegister
  <2>1. CallShaped' /\ call'.stage = "idle"
    BY <1>4 DEF WatchRequest, WriteRegister, SetWatchpoints, SetRegister, Between, Idle, InCall,
       CallShaped
  <2> QED BY <1>4, <2>1, QuietCode DEF WatchRequest, WriteRegister, SetWatchpoints, SetRegister
<1>5. CASE WriteMemory \/ Swap
  <2>1. call' = call /\ cache' = Empty /\ linked' = Empty /\ sequence' \in {sequence, 0}
    BY <1>5 DEF WriteMemory, Swap, Write
  <2>2. CodeOwned'
    BY <2>1, EmptyMatched DEF CodeOwned, Matched, Bounded, Empty
  <2>3. call.stage = "idle"
    BY <1>5 DEF WriteMemory, Swap, Between, Idle, InCall, ResetInv, RebuildStaged, NoRebuild
  <2> QED BY <2>1, <2>2, <2>3 DEF CallShaped, CallCurrent, RunsCurrentCode, InCall
<1>6. CASE WriteFails \/ ResetBegins \/ MapRegion \/ SetEntry \/ Rearm \/ ResetFails \/ UNCHANGED vars
  <2>1. UNCHANGED native
    BY <1>6 DEF WriteFails, ResetBegins, MapRegion, SetEntry, Rearm, ResetFails, vars
  <2> QED BY <2>1 DEF native, cpu, code, CodeOwned, CallShaped, CallCurrent, RunsCurrentCode,
                      InCall, Current
<1> QED BY <1>1, <1>2, <1>3, <1>4, <1>5, <1>6 DEF Next

(* Cached code is owned and current in every reachable state. *)
LEMMA CodeInvariant == Spec => []CodeInv
<1> QED BY InitReset, NextReset, InitCode, NextCode, PTL DEF Spec

(***************************************************************************)
(* Code that runs is linked and is the translation of the instruction in   *)
(* memory at the program counter, whatever the guest has overwritten since *)
(* the code was cached (Runtime::execute).                                 *)
(***************************************************************************)
THEOREM CodeIsCurrent == Spec => []RunsCurrentCode
<1>1. CodeInv => RunsCurrentCode
  BY DEF CodeInv, CallCurrent
<1> QED BY <1>1, CodeInvariant, PTL

(***************************************************************************)
(* The linker holds exactly the code of the cache, within its limit and    *)
(* each unit under a name of its own (Compiled::drop, Runtime::execute).   *)
(***************************************************************************)
THEOREM UnitsAreOwned == Spec => []UnitsOwned
<1>1. CodeInv => UnitsOwned
  BY DEF CodeInv, CodeOwned, Matched, Bounded, UnitsOwned, IsInjective
<1> QED BY <1>1, CodeInvariant, PTL

-----------------------------------------------------------------------------
(* Results of calls.                                                       *)

(* No call has been made at the start. *)
LEMMA InitCount == MachineInit => CountInv
<1> SUFFICES ASSUME MachineInit PROVE CountInv
  OBVIOUS
<1>1. /\ call.stage = "idle" /\ call.budget = 0 /\ call.dispatches = 0
      /\ call.repeated = FALSE /\ call.started = FALSE /\ CallShaped
  BY SMT DEF MachineInit, Init, NoCall, CallShaped, CallFields, Stages
<1>2. call.budget \in Nat /\ call.dispatches \in Nat
  BY <1>1
<1> QED BY <1>1, <1>2, Zenon DEF CountInv, CallCounted, Unreturned, StepIsAdmissible, InCall

(* Before a dispatch a call ends with what the dispatches before it left. *)
LEMMA EndsBefore ==
  ASSUME CountInv, Unreturned, pc' = pc, call'.stage = "done",
         call'.outcome \in {"fault", "environment", "error"},
         call'.repeated \in {FALSE, call.repeated}, call'.budget = call.budget,
         call'.dispatches = call.dispatches, call'.started = call.started, call'.from = call.from
  PROVE  CallCounted'
<1>1. call.dispatches <= call.budget
  BY SMT DEF CountInv, CallCounted
<1>2. call'.repeated \in BOOLEAN /\ call'.repeated => call.repeated
  BY DEF CountInv, CallCounted
<1> QED BY <1>1, <1>2, Zenon DEF CountInv, CallCounted, StepIsAdmissible, InCall, Unreturned

(* A call that ends without a dispatch ends with what it had counted. *)
LEMMA TrapsCounted ==
  ASSUME CountInv, TranslateStops \/ NativeFails \/ CompileRefuses \/ CompileFails
  PROVE  CallCounted'
<1>1. CASE TranslateStops
  <2>1. PICK outcome \in {"fault", "environment"} :
          Result([call EXCEPT !.repeated = FALSE, !.outcome = outcome])
    BY <1>1 DEF TranslateStops
  <2> DEFINE step == [call EXCEPT !.repeated = FALSE, !.outcome = outcome]
  <2>2. /\ DOMAIN step = CallFields /\ step.repeated = FALSE /\ step.outcome = outcome
        /\ step.budget = call.budget /\ step.dispatches = call.dispatches
        /\ step.started = call.started /\ step.from = call.from
    BY SMT DEF CountInv, CallShaped, CallFields
  <2>3. pc' = pc /\ Unreturned
    BY <1>1 DEF TranslateStops, cpu, InCall, Unreturned
  <2> QED BY <2>1, <2>2, <2>3, ResultFields, EndsBefore
<1>2. CASE NativeFails \/ CompileRefuses \/ CompileFails
  <2>1. PICK outcome \in {"fault", "error"} : Result([call EXCEPT !.outcome = outcome])
    BY <1>2 DEF NativeFails, CompileRefuses, CompileFails
  <2> DEFINE step == [call EXCEPT !.outcome = outcome]
  <2>2. /\ DOMAIN step = CallFields /\ step.repeated = call.repeated /\ step.outcome = outcome
        /\ step.budget = call.budget /\ step.dispatches = call.dispatches
        /\ step.started = call.started /\ step.from = call.from
    BY SMT DEF CountInv, CallShaped, CallFields
  <2>3. pc' = pc /\ Unreturned
    BY <1>2 DEF NativeFails, CompileRefuses, CompileFails, Misses, cpu, InCall, Unreturned
  <2> QED BY <2>1, <2>2, <2>3, ResultFields, EndsBefore
<1> QED BY <1>1, <1>2

(* What a dispatch starts from: one more fits the budget. *)
LEMMA DispatchedFields ==
  ASSUME CountInv, InCall("run")
  PROVE  /\ DOMAIN Dispatched = CallFields /\ Dispatched.dispatches = call.dispatches + 1
         /\ Dispatched.budget = call.budget /\ Dispatched.started = call.started
         /\ Dispatched.from = call.from
         /\ call.dispatches + 1 \in Nat /\ call.dispatches + 1 > 0
         /\ call.dispatches + 1 <= call.budget
         /\ call.budget \in Nat /\ call.started \in BOOLEAN /\ call.started /\ pc = call.from
<1>1. /\ DOMAIN Dispatched = CallFields /\ Dispatched.dispatches = call.dispatches + 1
      /\ Dispatched.budget = call.budget /\ Dispatched.started = call.started
      /\ Dispatched.from = call.from
  BY SMT DEF Dispatched, CountInv, CallShaped, CallFields
<1>2. /\ call.dispatches + 1 \in Nat /\ call.dispatches + 1 > 0
      /\ call.dispatches + 1 <= call.budget
  BY SMT DEF CountInv, CallCounted, InCall, Unreturned
<1>3. call.budget \in Nat /\ call.started \in BOOLEAN /\ call.started /\ pc = call.from
  BY Zenon DEF CountInv, CallCounted, InCall, Unreturned
<1> QED BY <1>1, <1>2, <1>3

(* A dispatch that traps ends the call after it was counted. *)
LEMMA DispatchTrapsCounted == CountInv /\ DispatchTraps => CallCounted'
<1> SUFFICES ASSUME CountInv, DispatchTraps PROVE CallCounted'
  OBVIOUS
<1>1. PICK outcome \in {"fault", "environment"} :
        Result([Dispatched EXCEPT !.repeated = FALSE, !.outcome = outcome])
  BY DEF DispatchTraps
<1> DEFINE step == [Dispatched EXCEPT !.repeated = FALSE, !.outcome = outcome]
<1>2. InCall("run")
  BY DEF DispatchTraps
<1>3. /\ DOMAIN step = CallFields /\ step.repeated = FALSE /\ step.outcome = outcome
      /\ step.budget = Dispatched.budget /\ step.dispatches = Dispatched.dispatches
      /\ step.started = Dispatched.started
  BY <1>2, DispatchedFields, SMT DEF CallFields
<1>4. /\ call'.stage = "done" /\ call'.repeated = FALSE /\ call'.outcome = outcome
      /\ call'.budget = call.budget /\ call'.dispatches = call.dispatches + 1
      /\ call'.started = call.started
  BY <1>1, <1>2, <1>3, ResultFields, DispatchedFields
<1> QED BY <1>2, <1>4, DispatchedFields, Zenon DEF CallCounted, StepIsAdmissible, InCall, Unreturned

(* A dispatch repeats in place, and repeats only within its budget. *)
LEMMA DispatchCounted == CountInv /\ Dispatch => CallCounted'
<1> SUFFICES ASSUME CountInv, Dispatch PROVE CallCounted'
  OBVIOUS
<1>1. PICK kind \in Kinds, cell \in Memory, repeated \in BOOLEAN :
        /\ repeated => pc' = pc
        /\ Conclude([Dispatched EXCEPT !.repeated = repeated, !.access = <<cell, kind>>])
  BY DEF Dispatch
<1>2. InCall("run")
  BY DEF Dispatch
<1> DEFINE step == [Dispatched EXCEPT !.repeated = repeated, !.access = <<cell, kind>>]
<1>3. /\ DOMAIN step = CallFields /\ step.repeated = repeated
      /\ step.budget = call.budget /\ step.dispatches = call.dispatches + 1
      /\ step.started = call.started /\ step.from = call.from
  <2>1. /\ DOMAIN step = CallFields /\ step.repeated = repeated
        /\ step.budget = Dispatched.budget /\ step.dispatches = Dispatched.dispatches
        /\ step.started = Dispatched.started /\ step.from = Dispatched.from
    BY <1>2, DispatchedFields, SMT DEF CallFields
  <2> QED BY <1>2, <2>1, DispatchedFields
<1>4. \/ Settle(step)
      \/ \E p : Result([step EXCEPT !.outcome = "watchpoint", !.point = p])
      \/ Result([step EXCEPT !.outcome = "error"])
  BY <1>1 DEF Conclude
<1> HIDE DEF step
<1>5. CASE Settle(step)
  <2>1. /\ call'.budget = call.budget /\ call'.dispatches = call.dispatches + 1
        /\ call'.started = call.started /\ call'.repeated = repeated /\ call'.from = call.from
        /\ \/ call'.stage = "done" /\ ~repeated /\ call'.outcome = "finished"
           \/ /\ call'.stage = "done" /\ repeated /\ call.dispatches + 1 = call.budget
              /\ call'.outcome = "yield"
           \/ /\ call'.stage = "translate" /\ repeated /\ call.dispatches + 1 # call.budget
    BY <1>3, <1>5, SettleFields
  <2>2. call.dispatches + 1 # call.budget => call.dispatches + 1 < call.budget
    BY <1>2, DispatchedFields
  <2> QED BY <1>1, <1>2, <2>1, <2>2, DispatchedFields, Zenon
          DEF CallCounted, StepIsAdmissible, InCall, Unreturned
<1>6. CASE \E p : Result([step EXCEPT !.outcome = "watchpoint", !.point = p])
  <2>1. PICK p : Result([step EXCEPT !.outcome = "watchpoint", !.point = p])
    BY <1>6
  <2> DEFINE stop == [step EXCEPT !.outcome = "watchpoint", !.point = p]
  <2>2. /\ DOMAIN stop = CallFields /\ stop.repeated = step.repeated
        /\ stop.budget = step.budget /\ stop.dispatches = step.dispatches
        /\ stop.started = step.started /\ stop.from = step.from /\ stop.outcome = "watchpoint"
    BY <1>3, SMT DEF CallFields
  <2>3. /\ call'.budget = call.budget /\ call'.dispatches = call.dispatches + 1
        /\ call'.started = call.started /\ call'.repeated = repeated /\ call'.from = call.from
        /\ call'.stage = "done" /\ call'.outcome = "watchpoint"
    BY <1>3, <2>1, <2>2, ResultFields
  <2> QED BY <1>1, <1>2, <2>3, DispatchedFields, Zenon
          DEF CallCounted, StepIsAdmissible, InCall, Unreturned
<1>7. CASE Result([step EXCEPT !.outcome = "error"])
  <2> DEFINE stop == [step EXCEPT !.outcome = "error"]
  <2>2. /\ DOMAIN stop = CallFields /\ stop.repeated = step.repeated
        /\ stop.budget = step.budget /\ stop.dispatches = step.dispatches
        /\ stop.started = step.started /\ stop.from = step.from /\ stop.outcome = "error"
    BY <1>3, SMT DEF CallFields
  <2>3. /\ call'.budget = call.budget /\ call'.dispatches = call.dispatches + 1
        /\ call'.started = call.started /\ call'.repeated = repeated /\ call'.from = call.from
        /\ call'.stage = "done" /\ call'.outcome = "error"
    BY <1>3, <1>7, <2>2, ResultFields
  <2> QED BY <1>1, <1>2, <2>3, DispatchedFields, Zenon
          DEF CallCounted, StepIsAdmissible, InCall, Unreturned
<1> QED BY <1>4, <1>5, <1>6, <1>7

(* Translation and the choice of code count nothing. *)
LEMMA PreparesCounted == CountInv /\ (Translate \/ CacheHits \/ Compile) => CallCounted'
<1> SUFFICES ASSUME CountInv, Translate \/ CacheHits \/ Compile PROVE CallCounted'
  OBVIOUS
<1>1. CASE Translate
  <2>1. /\ call'.stage = "prepare" /\ call'.started = TRUE /\ call'.budget = call.budget
        /\ call'.dispatches = call.dispatches /\ call'.repeated = call.repeated
        /\ call'.from = call.from
    BY <1>1, SMT DEF Translate, CountInv, CallShaped, CallFields
  <2>2. pc' = pc /\ Unreturned
    BY <1>1 DEF Translate, cpu, InCall, Unreturned
  <2> QED BY <2>1, <2>2, Zenon DEF CountInv, CallCounted, StepIsAdmissible, InCall, Unreturned
<1>2. CASE CacheHits \/ Compile
  <2>1. PICK unit : call' = [call EXCEPT !.stage = "run", !.unit = unit]
    BY <1>2 DEF CacheHits, Compile
  <2>2. /\ call'.stage = "run" /\ call'.started = call.started /\ call'.budget = call.budget
        /\ call'.dispatches = call.dispatches /\ call'.repeated = call.repeated
        /\ call'.from = call.from
    BY <2>1, SMT DEF CountInv, CallShaped, CallFields
  <2>3. pc' = pc /\ call.stage = "prepare"
    BY <1>2 DEF CacheHits, Compile, Misses, cpu, InCall
  <2> QED BY <2>2, <2>3, Zenon DEF CountInv, CallCounted, StepIsAdmissible, InCall, Unreturned
<1> QED BY <1>1, <1>2

(* Every step of the machine keeps the counts of its call. *)
LEMMA NextCount == CountInv /\ ResetInv /\ [Next]_vars => CountInv'
<1> SUFFICES ASSUME CountInv, ResetInv, [Next]_vars PROVE CountInv'
  OBVIOUS
<1>1. CallShaped'
  BY NextReset DEF ResetInv
<1>2. CASE Run
  <2>1. PICK budget \in 1 .. DispatchLimit :
          call' = [NoCall EXCEPT !.stage = "translate", !.budget = budget, !.from = pc]
    BY <1>2 DEF Run, Execute
  <2>2. /\ call'.stage = "translate" /\ call'.budget = budget /\ call'.dispatches = 0
        /\ call'.repeated = FALSE /\ call'.started = FALSE /\ call'.from = pc
    BY <2>1, SMT DEF NoCall
  <2>3. pc' = pc
    BY <1>2 DEF Run, Execute, cpu
  <2>4. budget \in Nat /\ 0 < budget /\ 0 \in Nat /\ ~(0 > 0)
    OBVIOUS
  <2> QED BY <1>1, <2>2, <2>3, <2>4, Zenon
          DEF CountInv, CallCounted, StepIsAdmissible, InCall, Unreturned
<1>3. CASE Runs
  BY <1>1, <1>3, TrapsCounted, DispatchTrapsCounted, DispatchCounted, PreparesCounted
     DEF Runs, Running, CountInv
<1>4. CASE Return
  <2>1. /\ call'.stage = "idle" /\ call'.budget = 0 /\ call'.dispatches = 0
        /\ call'.repeated = FALSE /\ call'.started = FALSE
    BY <1>4, SMT DEF Return, NoCall
  <2>2. call'.budget \in Nat /\ call'.dispatches \in Nat
    BY <2>1
  <2> QED BY <1>1, <2>1, <2>2, Zenon DEF CountInv, CallCounted, StepIsAdmissible, InCall, Unreturned
<1>5. CASE \/ WatchRequest \/ WriteMemory \/ WriteRegister \/ WriteFails \/ ResetBegins \/ MapRegion
           \/ SetEntry \/ Rearm \/ ResetFails \/ Swap \/ UNCHANGED vars
  <2>1. call' = call
    BY <1>5 DEF WatchRequest, WriteMemory, WriteRegister, WriteFails, ResetBegins, MapRegion,
       SetEntry, Rearm, ResetFails, Swap, SetWatchpoints, Write, SetRegister, native, vars
  <2>2. pc' = pc \/ call.stage = "idle"
    BY <1>5 DEF WatchRequest, WriteMemory, WriteRegister, WriteFails, ResetBegins, MapRegion,
       SetEntry, Rearm, ResetFails, Swap, SetWatchpoints, Write, Between, Idle, InCall, native, cpu,
       vars, ResetInv, RebuildStaged, NoRebuild
  <2> QED BY <1>1, <2>1, <2>2, Zenon
          DEF CountInv, CallCounted, StepIsAdmissible, InCall, Unreturned
<1> QED BY <1>2, <1>3, <1>4, <1>5 DEF Next

(***************************************************************************)
(* A call returns a result the slice loop is written for: within its       *)
(* budget, started if it dispatched, and at the address it started from if *)
(* it goes on (Runtime::execute, Machine::run_slice).                      *)
(***************************************************************************)
THEOREM StepsAreAdmissible == Spec => []StepIsAdmissible
<1>1. CountInv => StepIsAdmissible
  BY DEF CountInv, CallCounted
<1> QED BY <1>1, InitReset, NextReset, InitCount, NextCount, PTL DEF Spec

-----------------------------------------------------------------------------
(***************************************************************************)
(* Watchpoints.  QEMU holds the list the runtime holds, the list names the *)
(* points of the last request, and a reset carries it over; a call that    *)
(* has no outcome yet has passed over nothing that is watched.             *)
(***************************************************************************)
Covered(access) == {p \in requested : access \in Covers[p]}

Armed ==
    /\ armed = points
    /\ {points[i] : i \in DOMAIN points} = requested
    /\ rebuild.stage = "swap" => rebuild.armed = points

CallWatched ==
    /\ call.stage = "idle" => call.access = <<>>
    /\ call.stage \in {"translate", "prepare", "run"} => call.outcome = "none"
    /\ call.access # <<>> =>
          /\ call.outcome = "watchpoint" => call.point \in Covered(call.access)
          /\ Covered(call.access) # {} => call.outcome \in {"watchpoint", "error"}

WatchInv == Armed /\ CallWatched

(* sort_unstable and dedup lose and invent nothing.                        *)
LEMMA SortedNames ==
  ASSUME NEW input \in Inputs
  PROVE  {Sorted(input)[i] : i \in DOMAIN Sorted(input)} = Range(input)
<1>1. PICK n \in 0 .. WatchLimit : input \in [1 .. n -> Points]
  BY DEF Inputs
<1> DEFINE D == Range(input)
<1>2. D \in SUBSET Nat
  BY <1>1 DEF Range
<1>3. IsFiniteSet(D)
  <2>1. input \in Surjection(1 .. n, D)
    BY <1>1 DEF Surjection, Range
  <2>2. IsFiniteSet(1 .. n)
    BY FS_Interval
  <2> HIDE DEF D
  <2> QED BY <2>1, <2>2, FS_Surjection
<1>4. Sorted(input) = CHOOSE s \in [1 .. Cardinality(D) -> D] :
                        \A i, j \in DOMAIN s : i < j => s[i] < s[j]
  BY DEF Sorted
<1> HIDE DEF D
<1>5. \E s \in [1 .. Cardinality(D) -> D] : \A i, j \in DOMAIN s : i < j => s[i] < s[j]
  BY <1>2, <1>3, ListedAll DEF Listed, Increasing
<1>6. Sorted(input) \in [1 .. Cardinality(D) -> D] /\ Increasing(Sorted(input))
  BY <1>4, <1>5 DEF Increasing
<1>7. {Sorted(input)[i] : i \in DOMAIN Sorted(input)} = D
  BY <1>2, <1>3, <1>6, ListNames
<1> QED BY <1>7 DEF D

(* What QEMU sees is what was asked for.                                   *)
LEMMA SeenCovered ==
  ASSUME Armed, NEW access
  PROVE  /\ Seen(access) = {} <=> Covered(access) = {}
         /\ DOMAIN armed = DOMAIN points
         /\ \A i \in Seen(access) : points[i] \in Covered(access)
BY DEF Armed, Seen, Covered

(* A step that counts a dispatch, or not, and then ends the call.          *)
LEMMA EndWatched ==
  ASSUME CallWatched, Unreturned, call'.access = call.access, requested' = requested,
         call'.stage = "done", call'.outcome # "watchpoint"
  PROVE  CallWatched'
BY DEF CallWatched, Unreturned, Covered

LEMMA KeepWatched ==
  ASSUME CallWatched, call'.access = call.access, call'.outcome = call.outcome,
         call'.point = call.point, requested' = requested,
         Unreturned, call'.stage # "idle"
  PROVE  CallWatched'
BY DEF CallWatched, Unreturned, Covered

LEMMA ResultWatches ==
  ASSUME NEW step, DOMAIN step = CallFields, Result(step)
  PROVE  /\ call'.stage = "done" /\ call'.outcome = step.outcome
         /\ call'.access = step.access /\ call'.point = step.point
BY DEF Result, CallFields

LEMMA DispatchWatched ==
  ASSUME CallShaped, WatchInv, Dispatch, requested' = requested
  PROVE  CallWatched'
<1>1. PICK kind \in Kinds, cell \in Memory, repeated \in BOOLEAN :
        Conclude([Dispatched EXCEPT !.repeated = repeated, !.access = <<cell, kind>>])
  BY DEF Dispatch
<1> DEFINE access == <<cell, kind>>
           step == [Dispatched EXCEPT !.repeated = repeated, !.access = access]
<1>2. /\ DOMAIN step = CallFields /\ step.access = access /\ step.outcome = "none"
      /\ step.point = call.point
  <2>1. call.outcome = "none" /\ DOMAIN call = CallFields
    BY DEF WatchInv, CallWatched, Dispatch, InCall, CallShaped
  <2> QED BY <2>1, SMT DEF Dispatched, CallFields
<1>3. Conclude(step)
  BY <1>1
<1> HIDE DEF step, access
<1>4. CASE Seen(access) = {} /\ Settle(step)
  <2>1. Covered(access) = {}
    BY <1>4, SeenCovered DEF WatchInv
  <2>2. /\ call'.access = access /\ call'.outcome # "watchpoint" /\ call'.stage # "idle"
        /\ call'.stage # "done" => call'.outcome = "none"
    <3>1. ASSUME NEW outcome \in {"finished", "yield"},
                 Result([step EXCEPT !.outcome = outcome])
          PROVE  /\ call'.access = access /\ call'.outcome # "watchpoint"
                 /\ call'.stage = "done"
      <4> DEFINE end == [step EXCEPT !.outcome = outcome]
      <4>1. DOMAIN end = CallFields /\ end.outcome = outcome /\ end.access = access
        BY <1>2, SMT DEF CallFields
      <4> HIDE DEF end
      <4>2. Result(end)
        BY <3>1 DEF end
      <4> QED BY <4>1, <4>2, ResultWatches
    <3>2. ASSUME call' = [step EXCEPT !.stage = "translate", !.block = NoBlock, !.unit = NoUnit]
          PROVE  call'.access = access /\ call'.outcome = "none" /\ call'.stage # "idle"
      BY <1>2, <3>2, SMT DEF CallFields
    <3>3. \/ Result([step EXCEPT !.outcome = "finished"])
          \/ Result([step EXCEPT !.outcome = "yield"])
          \/ call' = [step EXCEPT !.stage = "translate", !.block = NoBlock, !.unit = NoUnit]
      BY <1>4, Zenon DEF Settle
    <3> QED BY <3>1, <3>2, <3>3
  <2> QED BY <2>1, <2>2 DEF CallWatched, Covered
<1>5. ASSUME NEW outcome \in {"watchpoint", "error"}, NEW point,
             outcome = "watchpoint" => point \in Covered(access),
             Result([step EXCEPT !.outcome = outcome, !.point = point])
      PROVE  CallWatched'
  <2> DEFINE end == [step EXCEPT !.outcome = outcome, !.point = point]
  <2>1. DOMAIN end = CallFields /\ end.outcome = outcome /\ end.access = access
        /\ end.point = point
    BY <1>2, SMT DEF CallFields
  <2> HIDE DEF end
  <2>2. Result(end)
    BY <1>5 DEF end
  <2>3. call'.stage = "done" /\ call'.outcome = outcome /\ call'.access = access
        /\ call'.point = point
    BY <2>1, <2>2, ResultWatches
  <2> QED BY <1>5, <2>3 DEF CallWatched, Covered
<1>6. ASSUME NEW i \in Seen(access) \cap DOMAIN points,
             Result([step EXCEPT !.outcome = "watchpoint", !.point = points[i]])
      PROVE  CallWatched'
  <2>1. points[i] \in Covered(access)
    BY SeenCovered DEF WatchInv
  <2> QED BY <1>5, <1>6, <2>1
<1>7. Seen(access) \ DOMAIN points = {}
  BY SeenCovered DEF WatchInv, Seen
<1> QED BY <1>2, <1>3, <1>4, <1>6, <1>7 DEF Conclude

LEMMA RunningWatched ==
  ASSUME CallShaped, WatchInv, Running, requested' = requested
  PROVE  CallWatched'
<1>0. DOMAIN call = CallFields /\ CallWatched
  BY DEF CallShaped, WatchInv
<1>1. CASE Dispatch
  BY <1>1, DispatchWatched
<1>2. CASE Translate \/ CacheHits \/ Compile
  <2>1. /\ call'.access = call.access /\ call'.outcome = call.outcome /\ call'.point = call.point
        /\ call'.stage # "idle"
    <3>1. CASE Translate
      <4>1. call' = [call EXCEPT !.stage = "prepare", !.started = TRUE,
                                 !.block = Key(pc, mode, memory)]
        BY <3>1 DEF Translate
      <4> QED BY <1>0, <4>1, SMT DEF CallFields
    <3>2. CASE CacheHits \/ Compile
      <4>1. PICK unit : call' = [call EXCEPT !.stage = "run", !.unit = unit]
        BY <3>2 DEF CacheHits, Compile
      <4> QED BY <1>0, <4>1, SMT DEF CallFields
    <3> QED BY <1>2, <3>1, <3>2
  <2>2. Unreturned
    BY <1>2 DEF Translate, CacheHits, Compile, Misses, InCall, Unreturned
  <2> QED BY <1>0, <2>1, <2>2, KeepWatched
<1>3. ASSUME NEW step, DOMAIN step = CallFields, step.access = call.access,
             step.outcome # "watchpoint", Result(step), Unreturned
      PROVE  CallWatched'
  <2>1. call'.stage = "done" /\ call'.outcome # "watchpoint" /\ call'.access = call.access
    BY <1>3, ResultWatches
  <2> QED BY <1>0, <1>3, <2>1, EndWatched
<1>4. CASE TranslateStops
  <2>1. PICK outcome \in {"fault", "environment"} :
          Result([call EXCEPT !.repeated = FALSE, !.outcome = outcome])
    BY <1>4 DEF TranslateStops
  <2> DEFINE step == [call EXCEPT !.repeated = FALSE, !.outcome = outcome]
  <2>2. DOMAIN step = CallFields /\ step.access = call.access /\ step.outcome # "watchpoint"
    BY <1>0, SMT DEF CallFields
  <2> HIDE DEF step
  <2>3. Result(step)
    BY <2>1 DEF step
  <2> QED BY <1>3, <1>4, <2>2, <2>3 DEF TranslateStops, InCall, Unreturned
<1>5. CASE NativeFails \/ CompileRefuses \/ CompileFails
  <2>1. PICK outcome \in {"fault", "error"} : Result([call EXCEPT !.outcome = outcome])
    BY <1>5 DEF NativeFails, CompileRefuses, CompileFails
  <2> DEFINE step == [call EXCEPT !.outcome = outcome]
  <2>2. DOMAIN step = CallFields /\ step.access = call.access /\ step.outcome # "watchpoint"
    BY <1>0, SMT DEF CallFields
  <2> HIDE DEF step
  <2>3. Result(step)
    BY <2>1 DEF step
  <2> QED BY <1>3, <1>5, <2>2, <2>3
             DEF NativeFails, CompileRefuses, CompileFails, Misses, InCall, Unreturned
<1>6. CASE DispatchTraps
  <2>1. PICK outcome \in {"fault", "environment"} :
          Result([Dispatched EXCEPT !.repeated = FALSE, !.outcome = outcome])
    BY <1>6 DEF DispatchTraps
  <2> DEFINE step == [Dispatched EXCEPT !.repeated = FALSE, !.outcome = outcome]
  <2>2. DOMAIN step = CallFields /\ step.access = call.access /\ step.outcome # "watchpoint"
    BY <1>0, SMT DEF Dispatched, CallFields
  <2> HIDE DEF step
  <2>3. Result(step)
    BY <2>1 DEF step
  <2> QED BY <1>3, <1>6, <2>2, <2>3 DEF DispatchTraps, InCall, Unreturned
<1> QED BY <1>1, <1>2, <1>4, <1>5, <1>6 DEF Running

LEMMA NextWatched == ResetInv /\ WatchInv /\ [Next]_vars => WatchInv'
<1> SUFFICES ASSUME ResetInv, WatchInv, [Next]_vars PROVE WatchInv'
  OBVIOUS
<1>0. /\ CallShaped /\ RebuildStaged /\ Armed /\ CallWatched
      /\ DOMAIN call = CallFields /\ DOMAIN rebuild = RebuildFields
  BY DEF ResetInv, WatchInv, CallShaped, RebuildStaged
<1>1. ASSUME UNCHANGED <<watches, requested>>, UNCHANGED rebuild \/ rebuild'.stage # "swap"
      PROVE  Armed'
  BY <1>0, <1>1 DEF Armed, watches
<1>2. ASSUME UNCHANGED <<call, requested>> PROVE CallWatched'
  BY <1>0, <1>2 DEF CallWatched, Covered
<1>3. CASE Run
  <2>1. call'.stage = "translate" /\ call'.outcome = "none" /\ call'.access = <<>>
    BY <1>3 DEF Run, Execute, NoCall
  <2>2. CallWatched'
    BY <2>1 DEF CallWatched
  <2> QED BY <1>1, <1>3, <2>2 DEF Run, Execute, WatchInv
<1>4. CASE Runs
  <2>1. UNCHANGED <<watches, requested, rebuild>>
    BY <1>4 DEF Runs, Running, TranslateStops, Translate, NativeFails, CacheHits, Compile,
                CompileRefuses, CompileFails, Dispatch, DispatchTraps
  <2> QED BY <1>0, <1>1, <1>4, <2>1, RunningWatched DEF Runs, WatchInv
<1>5. CASE Return
  <2>1. call'.stage = "idle" /\ call'.access = <<>>
    BY <1>5 DEF Return, NoCall
  <2>2. CallWatched'
    BY <2>1 DEF CallWatched
  <2> QED BY <1>1, <1>5, <2>2 DEF Return, WatchInv
<1>6. CASE WatchRequest
  <2>1. PICK input \in Inputs : SetWatchpoints(input) /\ requested' = Range(input)
    BY <1>6 DEF WatchRequest
  <2>2. points' = Sorted(input) /\ armed' = points'
    BY <1>0, <2>1 DEF SetWatchpoints, Armed
  <2>3. {points'[i] : i \in DOMAIN points'} = requested'
    BY <2>1, <2>2, SortedNames
  <2>4. rebuild'.stage = "none" /\ call' = call /\ call.stage = "idle"
    BY <1>6, <2>1 DEF WatchRequest, Between, Idle, InCall, SetWatchpoints
  <2>5. Armed'
    BY <2>2, <2>3, <2>4 DEF Armed
  <2>6. CallWatched'
    BY <1>0, <2>4 DEF CallWatched
  <2> QED BY <2>5, <2>6 DEF WatchInv
<1>7. CASE WriteMemory \/ WriteRegister \/ WriteFails
  <2>1. UNCHANGED <<watches, requested, rebuild, call>>
    BY <1>7 DEF WriteMemory, Write, WriteRegister, SetRegister, WriteFails, native
  <2> QED BY <1>1, <1>2, <2>1 DEF WatchInv
<1>8. CASE ResetBegins \/ MapRegion \/ SetEntry \/ ResetFails
  <2>1. UNCHANGED <<watches, requested, call>>
    BY <1>8 DEF ResetBegins, MapRegion, SetEntry, ResetFails, native
  <2>2. rebuild'.stage # "swap"
    <3>1. CASE ResetBegins
      BY <3>1 DEF ResetBegins, NoRebuild
    <3>2. CASE MapRegion
      <4>1. rebuild' = [rebuild EXCEPT !.mapped = @ + 1] /\ rebuild.stage = "map"
        BY <3>2 DEF MapRegion
      <4> QED BY <1>0, <4>1, SMT DEF RebuildFields
    <3>3. CASE SetEntry
      <4>1. rebuild' = [rebuild EXCEPT !.stage = "watch", !.pc = Entry]
        BY <3>3 DEF SetEntry
      <4> QED BY <1>0, <4>1, SMT DEF RebuildFields
    <3>4. CASE ResetFails
      BY <3>4 DEF ResetFails, NoRebuild
    <3> QED BY <1>8, <3>1, <3>2, <3>3, <3>4
  <2> QED BY <1>1, <1>2, <2>1, <2>2 DEF WatchInv
<1>9. CASE Rearm
  <2>1. UNCHANGED <<armed, points, requested, call>>
    BY <1>9 DEF Rearm, native, watches
  <2>2. rebuild'.armed = points
    BY <1>0, <1>9, SMT DEF Rearm, RebuildFields
  <2>3. Armed'
    BY <1>0, <2>1, <2>2 DEF Armed
  <2> QED BY <1>2, <2>1, <2>3 DEF WatchInv
<1>10. CASE Swap
  <2>1. /\ armed' = points /\ points' = points /\ UNCHANGED <<requested, call>>
        /\ rebuild' = NoRebuild
    BY <1>0, <1>10 DEF Swap, Armed
  <2>2. Armed'
    BY <1>0, <2>1 DEF Armed, NoRebuild
  <2> QED BY <1>2, <2>1, <2>2 DEF WatchInv
<1>11. CASE UNCHANGED vars
  BY <1>1, <1>2, <1>11 DEF vars, native, WatchInv
<1> QED BY <1>3, <1>4, <1>5, <1>6, <1>7, <1>8, <1>9, <1>10, <1>11 DEF Next

(***************************************************************************)
(* Whatever was requested, in whatever order and with whatever repetitions,*)
(* and through every reset: an access that a requested watchpoint covers   *)
(* stops the call, and the stop names one of those that cover it           *)
(* (Runtime::set_watchpoints, Runtime::execute, Machine::reset).           *)
(***************************************************************************)
THEOREM WatchedAccessesStop == Spec => []WatchedAccessStops
<1>1. MachineInit => WatchInv
  <2> SUFFICES ASSUME MachineInit PROVE WatchInv
    OBVIOUS
  <2>1. /\ points = <<>> /\ armed = <<>> /\ requested = {} /\ rebuild.stage = "none"
        /\ call = NoCall
    BY DEF MachineInit, Init, NoRebuild
  <2>2. Armed
    BY <2>1 DEF Armed
  <2>3. CallWatched
    BY <2>1 DEF CallWatched, NoCall
  <2> QED BY <2>2, <2>3 DEF WatchInv
<1>2. WatchInv => WatchedAccessStops
  BY DEF WatchInv, CallWatched, Covered, WatchedAccessStops
<1> QED BY <1>1, <1>2, InitReset, NextReset, NextWatched, PTL DEF Spec
=============================================================================
