------------------------------- MODULE Lowering -------------------------------
(***************************************************************************)
(* From TCG operations to native code (crates/runtime/src/jit.rs and       *)
(* jit/integer.rs): a block's operations are emitted into basic blocks,    *)
(* which are verified and then run on the processor state.  Values are the *)
(* integers LLVM's instructions compute with: below 2^n at width n.        *)
(* Guest memory, helper calls and vectors are left to QEMU and LLVM.       *)
(***************************************************************************)
EXTENDS Integers, Sequences, FiniteSets, TLC, Bitwise

CONSTANTS
    Byte,              (* bits of a byte: 8                             *)
    Temps,             (* the temporaries of a block                    *)
    Blocks,            (* sequences of operations QEMU may translate to *)
    States             (* processor states, as functions of bytes       *)

ASSUME LoweringAssumption == Byte \in Nat \ {0}

VARIABLES
    ops,               (* the block                                     *)
    next,              (* the operation to be emitted                   *)
    basic,             (* basic blocks: operations and a terminator     *)
    labels,            (* basic blocks of TCG labels                    *)
    insertion,         (* where the builder appends                     *)
    phase,             (* of the block: "emit" ... "done", or "refused" *)
    at,                (* the instruction to be run, in its basic block *)
    processor,         (* processor state, local slots and the carry    *)
    entry              (* history: the processor state at the entry     *)

loweringVars == <<ops, next, basic, labels, insertion, phase, at, processor, entry>>

-----------------------------------------------------------------------------
(* LLVM's instructions on integers.                                        *)

Trunc(n, x) == x % 2^n
AsSigned(n, x) == IF x >= 2^(n - 1) THEN x - 2^n ELSE x
Cast(x, from, to, signed) == Trunc(to, IF signed THEN AsSigned(from, x) ELSE x)
Complement(n, x) == 2^n - 1 - x

Magnitude(x) == IF x < 0 THEN -x ELSE x
Quotient(x, y) ==
    LET q == Magnitude(x) \div Magnitude(y) IN IF (x < 0) = (y < 0) THEN q ELSE -q
Remainder(x, y) == x - y * Quotient(x, y)

(* Funnel shifts; leading and trailing zeros and ones of a value. *)
FunnelLeft(n, a, b, s) == Trunc(n, ((a * 2^n + b) * 2^(s % n)) \div 2^n)
FunnelRight(n, a, b, s) == Trunc(n, (a * 2^n + b) \div 2^(s % n))
Leading(n, x) == CHOOSE z \in 0 .. n : x < 2^(n - z) /\ (z < n => x >= 2^(n - z - 1))
Trailing(n, x) == CHOOSE z \in 0 .. n : x % 2^z = 0 /\ (z < n => x % 2^(z + 1) # 0)
Population(n, x) == Cardinality({i \in 0 .. n - 1 : (x \div 2^i) % 2 = 1})
SwapBytes(n, x) ==
    LET count == n \div Byte
        ByteAt(i) == ((x \div 2^(i * Byte)) % 2^Byte) * 2^((count - 1 - i) * Byte)
        sum[i \in 0 .. count] == IF i = 0 THEN 0 ELSE sum[i - 1] + ByteAt(i - 1)
    IN  sum[count]

(* Ir::condition. *)
Condition(name, n, a, b) ==
    CASE name = "NEVER" -> FALSE
      [] name = "ALWAYS" -> TRUE
      [] name = "EQ" -> a = b
      [] name = "NE" -> a # b
      [] name = "LT" -> AsSigned(n, a) < AsSigned(n, b)
      [] name = "GE" -> AsSigned(n, a) >= AsSigned(n, b)
      [] name = "LE" -> AsSigned(n, a) <= AsSigned(n, b)
      [] name = "GT" -> AsSigned(n, a) > AsSigned(n, b)
      [] name = "LTU" -> a < b
      [] name = "GEU" -> a >= b
      [] name = "LEU" -> a <= b
      [] name = "GTU" -> a > b
      [] name = "TSTEQ" -> a & b = 0
      [] name = "TSTNE" -> a & b # 0

-----------------------------------------------------------------------------
(* Temporaries.  A global is a field of the processor state.               *)

BytesIn(bits) == bits \div Byte
Load(bytes, offset, bits) ==
    LET sum[i \in 0 .. BytesIn(bits)] ==
            IF i = 0 THEN 0 ELSE sum[i - 1] + bytes[offset + i - 1] * 2^((i - 1) * Byte)
    IN  sum[BytesIn(bits)]
Store(bytes, offset, bits, x) ==
    [i \in DOMAIN bytes |->
        IF i \in offset .. offset + BytesIn(bits) - 1
        THEN (x \div 2^((i - offset) * Byte)) % 2^Byte
        ELSE bytes[i]]

Get(t, c) ==
    CASE Temps[t].storage = "constant" -> Trunc(Temps[t].bits, Temps[t].value)
      [] Temps[t].storage = "global" -> Load(c.bytes, Temps[t].offset, Temps[t].bits)
      [] Temps[t].storage = "local" -> c.slots[t]

Put(t, x, c) ==
    LET fitted == Trunc(Temps[t].bits, x)
    IN  IF Temps[t].storage = "global"
        THEN [c EXCEPT !.bytes = Store(@, Temps[t].offset, Temps[t].bits, fitted)]
        ELSE [c EXCEPT !.slots[t] = fitted]

-----------------------------------------------------------------------------
(* What is emitted for one operation, as the value it leaves at width n.   *)

(* carry_op: twice the width makes the carry and the borrow explicit. *)
Adds == {"addco", "addc1o", "addci", "addcio"}
CarryOps == Adds \cup {"subbo", "subb1o", "subbi", "subbio"}
CarryIn(name, carry) ==
    CASE name \in {"addc1o", "subb1o"} -> 1
      [] name \in {"addci", "addcio", "subbi", "subbio"} -> carry
      [] OTHER -> 0
CarryOutNarrow(name, n, rhs, a, result) ==
    IF name \in Adds THEN (result \div 2^n) % 2 ELSE IF a < Trunc(n, rhs) THEN 1 ELSE 0
CarryOut(name, n, rhs, a, result) ==
    IF name \in Adds THEN (result \div 2^n) % 2 ELSE IF a < rhs THEN 1 ELSE 0
CarryOp(name, n, v, carry) ==
    LET rhs == v[2] + CarryIn(name, carry)
        result == Trunc(2 * n, IF name \in Adds THEN v[1] + rhs ELSE v[1] - rhs)
    IN  [value |-> Trunc(n, result),
         carry |-> IF name \in {"addci", "subbi"} THEN carry ELSE CarryOut(name, n, rhs, v[1], result)]

(* bitfield. *)
DepositMask(position, width) ==
    Trunc(8 * Byte, ((2^(8 * Byte) - 1) \div 2^(8 * Byte - width)) * 2^position)
Bitfield(op, v) ==
    LET n == op.bits  k == op.k
    IN  CASE op.name \in {"extract", "sextract"} ->
                Cast(Trunc(k[2], v[1] \div 2^k[1]), k[2], n, op.name = "sextract")
          [] op.name = "extract2" -> FunnelRight(n, v[2], v[1], k[1])
          [] op.name = "deposit" ->
                LET mask == DepositMask(k[1], k[2])
                IN  (v[1] & Trunc(n, Complement(8 * Byte, mask)))
                        | (Trunc(n, v[2] * 2^k[1]) & Trunc(n, mask))
          [] op.name \in {"bswap16", "bswap32", "bswap64"} ->
                LET width == CASE op.name = "bswap16" -> 2 * Byte
                               [] op.name = "bswap32" -> 4 * Byte
                               [] op.name = "bswap64" -> 8 * Byte
                IN  Cast(SwapBytes(width, Trunc(width, v[1])), width, n, k[1] # 0)
          [] op.name = "ext_i32_i64" -> Cast(v[1], 4 * Byte, 8 * Byte, TRUE)
          [] op.name = "extu_i32_i64" -> v[1]
          [] op.name = "extrl_i64_i32" -> Trunc(4 * Byte, v[1])
          [] op.name = "extrh_i64_i32" -> Trunc(4 * Byte, v[1] \div 2^(4 * Byte))

(* integer; a shift count is masked, for LLVM leaves no other defined. *)
Integer(op, v) ==
    LET n == op.bits  a == v[1]  b == v[2]  count == v[2] & (op.bits - 1)
        holds == Condition(op.condition, n, a, b)
    IN  CASE op.name = "mov" -> a
          [] op.name = "add" -> Trunc(n, a + b)
          [] op.name = "sub" -> Trunc(n, a - b)
          [] op.name = "mul" -> Trunc(n, a * b)
          [] op.name = "and" -> a & b
          [] op.name = "or" -> a | b
          [] op.name = "xor" -> a ^^ b
          [] op.name = "andc" -> a & Complement(n, b)
          [] op.name = "orc" -> a | Complement(n, b)
          [] op.name = "nand" -> Complement(n, a & b)
          [] op.name = "nor" -> Complement(n, a | b)
          [] op.name = "eqv" -> Complement(n, a ^^ b)
          [] op.name = "not" -> Complement(n, a)
          [] op.name = "neg" -> Trunc(n, 0 - a)
          [] op.name = "divs" -> Trunc(n, Quotient(AsSigned(n, a), AsSigned(n, b)))
          [] op.name = "divu" -> a \div b
          [] op.name = "rems" -> Trunc(n, Remainder(AsSigned(n, a), AsSigned(n, b)))
          [] op.name = "remu" -> a % b
          [] op.name = "shl" -> Trunc(n, a * 2^count)
          [] op.name = "shr" -> a \div 2^count
          [] op.name = "sar" -> Trunc(n, AsSigned(n, a) \div 2^count)
          [] op.name = "rotl" -> FunnelLeft(n, a, a, b)
          [] op.name = "rotr" -> FunnelRight(n, a, a, b)
          [] op.name = "clz" -> IF a = 0 THEN b ELSE Leading(n, a)
          [] op.name = "ctz" -> IF a = 0 THEN b ELSE Trailing(n, a)
          [] op.name = "ctpop" -> Population(n, a)
          [] op.name = "setcond" -> IF holds THEN 1 ELSE 0
          [] op.name = "negsetcond" -> IF holds THEN 2^n - 1 ELSE 0
          [] op.name = "movcond" -> IF holds THEN v[3] ELSE v[4]
          [] OTHER -> Bitfield(op, v)

(* wide: the outputs of a double-width product or quotient. *)
Products == {"muls2", "mulu2", "mulsh", "muluh"}
Quotients == {"divs2", "divu2"}
WidePair(op, v) ==
    LET n == op.bits
        signed == op.name \in {"muls2", "mulsh", "divs2"}
        product == Trunc(2 * n, Cast(v[1], n, 2 * n, signed) * Cast(v[2], n, 2 * n, signed))
        numerator == v[1] + v[2] * 2^n
        divisor == Cast(v[3], n, 2 * n, signed)
        Of(x) == IF signed THEN AsSigned(2 * n, x) ELSE x
    IN  CASE op.name \in {"muls2", "mulu2"} -> <<product, product \div 2^n>>
          [] op.name \in {"mulsh", "muluh"} -> <<product \div 2^n>>
          [] op.name \in Quotients ->
                <<Trunc(2 * n, Quotient(Of(numerator), Of(divisor))),
                  Trunc(2 * n, Remainder(Of(numerator), Of(divisor)))>>

(* Loads and stores of fields of the processor state, the base of either;  *)
(* by how many bytes. *)
Loads == [ld |-> 0, ld8u |-> 1, ld8s |-> 1, ld16u |-> 2, ld16s |-> 2, ld32u |-> 4, ld32s |-> 4]
Stores == [st |-> 0, st8 |-> 1, st16 |-> 2, st32 |-> 4]
FieldWidth(op, bytes) == IF bytes = 0 THEN op.bits ELSE bytes * Byte

(* operation: what running one emitted operation does to the processor. *)
Perform(op, c) ==
    LET v == [i \in DOMAIN op.in |-> Get(op.in[i], c)]
    IN  CASE op.name \in CarryOps ->
                LET r == CarryOp(op.name, op.bits, v, c.carry)
                IN  Put(op.out[1], r.value, [c EXCEPT !.carry = r.carry])
          [] op.name \in Products \cup Quotients ->
                LET r == WidePair(op, v)
                    first == Put(op.out[1], r[1], c)
                IN  IF Len(op.out) = 2 THEN Put(op.out[2], r[2], first) ELSE first
          [] op.name \in DOMAIN Loads ->
                LET width == FieldWidth(op, Loads[op.name])
                IN  Put(op.out[1], Cast(Load(c.bytes, op.k[1], width), width, op.bits,
                                        op.name \in {"ld8s", "ld16s", "ld32s"}), c)
          [] op.name \in DOMAIN Stores ->
                LET width == FieldWidth(op, Stores[op.name])
                IN  [c EXCEPT !.bytes = Store(@, op.k[1], width, Trunc(width, v[1]))]
          [] OTHER -> Put(op.out[1], Integer(op, v), c)

-----------------------------------------------------------------------------
(* Emission.                                                               *)

Ignored == {"insn_start", "discard", "mb"}
Branches == {"exit_tb", "set_label", "br", "brcond"}
Open == [run |-> <<>>, end |-> <<>>]
Ended(end) == [basic EXCEPT ![insertion].end = end]

LoweringInit ==
    /\ ops \in Blocks /\ next = 1
    /\ basic = <<Open>> /\ labels = <<>> /\ insertion = 1
    /\ phase = "emit" /\ at = <<1, 1>>
    /\ processor = <<>> /\ entry = <<>>

Emitting(name) == phase = "emit" /\ next <= Len(ops) /\ ops[next].name = name
Emitted == next' = next + 1 /\ UNCHANGED <<ops, phase, at, processor, entry>>

(* Ir::label: a label's basic block is made when it is first named. *)
Known(l) == l \in DOMAIN labels
Target(l) == IF Known(l) THEN labels[l] ELSE Len(basic) + 1
Named(l) == labels' = IF Known(l) THEN labels ELSE labels @@ (l :> Target(l))
Made(l) == IF Known(l) THEN <<>> ELSE <<Open>>

EmitNothing ==
    /\ \E name \in Ignored : Emitting(name)
    /\ Emitted /\ UNCHANGED <<basic, labels, insertion>>

(* Code after a return or a branch goes to a basic block nobody enters. *)
EmitExit ==
    /\ Emitting("exit_tb")
    /\ basic' = Ended(<<"ret">>) \o <<Open>>
    /\ insertion' = Len(basic) + 1
    /\ Emitted /\ UNCHANGED labels

EmitLabel ==
    /\ Emitting("set_label")
    /\ LET l == ops[next].k[1]
       IN  /\ basic' = Ended(<<"br", Target(l)>>) \o Made(l)
           /\ insertion' = Target(l)
           /\ Named(l)
    /\ Emitted

EmitBranch ==
    /\ Emitting("br")
    /\ LET l == ops[next].k[1]
       IN  /\ basic' = Ended(<<"br", Target(l)>>) \o Made(l) \o <<Open>>
           /\ insertion' = Len(basic) + Len(Made(l)) + 1
           /\ Named(l)
    /\ Emitted

EmitConditional ==
    /\ Emitting("brcond")
    /\ LET l == ops[next].k[1]
           fall == Len(basic) + Len(Made(l)) + 1
       IN  /\ basic' = Ended(<<"cond", Target(l), fall, ops[next]>>) \o Made(l) \o <<Open>>
           /\ insertion' = fall
           /\ Named(l)
    /\ Emitted

(* An operation the lowering has no arm for, here called "unknown", or     *)
(* whose result has no place, refuses the block. *)
Lowered(op) ==
    /\ op.name # "unknown"
    /\ \A i \in DOMAIN op.out : Temps[op.out[i]].storage \in {"global", "local"}

EmitOperation ==
    /\ phase = "emit" /\ next <= Len(ops)
    /\ ops[next].name \notin Ignored \cup Branches
    /\ Lowered(ops[next])
    /\ basic' = [basic EXCEPT ![insertion].run = Append(@, ops[next])]
    /\ Emitted /\ UNCHANGED <<labels, insertion>>

EmitRefused ==
    /\ phase = "emit" /\ next <= Len(ops)
    /\ ops[next].name \notin Ignored \cup Branches /\ ~Lowered(ops[next])
    /\ phase' = "refused"
    /\ UNCHANGED <<ops, next, basic, labels, insertion, at, processor, entry>>

(* finish: a basic block without an end, as a label never set leaves, does *)
(* not verify. *)
Finish ==
    /\ phase = "emit" /\ next > Len(ops)
    /\ basic' = Ended(<<"ret">>)
    /\ phase' = IF \E b \in DOMAIN basic' : basic'[b].end = <<>> THEN "refused" ELSE "ready"
    /\ UNCHANGED <<ops, next, labels, insertion, at, processor, entry>>

-----------------------------------------------------------------------------
(* Running the function.  Local slots and the carry start undefined.       *)
Locals == {t \in DOMAIN Temps : Temps[t].storage = "local"}

Enter ==
    /\ phase = "ready"
    /\ \E bytes \in States, garbage \in {0, 1} :
          processor' = [bytes |-> bytes, slots |-> [t \in Locals |-> garbage], carry |-> garbage]
    /\ entry' = processor'.bytes
    /\ phase' = "run"
    /\ UNCHANGED <<ops, next, basic, labels, insertion, at>>

Block == basic[at[1]]
RunOperation ==
    /\ phase = "run" /\ at[2] <= Len(Block.run)
    /\ processor' = Perform(Block.run[at[2]], processor)
    /\ at' = <<at[1], at[2] + 1>>
    /\ UNCHANGED <<ops, next, basic, labels, insertion, phase, entry>>

RunEnd ==
    /\ phase = "run" /\ at[2] > Len(Block.run)
    /\ CASE Block.end[1] = "ret" -> phase' = "done" /\ UNCHANGED at
         [] Block.end[1] = "br" -> at' = <<Block.end[2], 1>> /\ UNCHANGED phase
         [] Block.end[1] = "cond" ->
              LET op == Block.end[4]
                  taken == Condition(op.condition, op.bits, Get(op.in[1], processor), Get(op.in[2], processor))
              IN  at' = <<IF taken THEN Block.end[2] ELSE Block.end[3], 1>> /\ UNCHANGED phase
    /\ UNCHANGED <<ops, next, basic, labels, insertion, processor, entry>>

LoweringNext ==
    \/ EmitNothing \/ EmitExit \/ EmitLabel \/ EmitBranch \/ EmitConditional
    \/ EmitOperation \/ EmitRefused \/ Finish
    \/ Enter \/ RunOperation \/ RunEnd

LoweringSpec == LoweringInit /\ [][LoweringNext]_loweringVars
=============================================================================
