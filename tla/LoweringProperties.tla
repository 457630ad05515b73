-------------------------- MODULE LoweringProperties --------------------------
(***************************************************************************)
(* What a block of TCG operations means, bit by bit and by exact integers, *)
(* and that the native code computes it.                                   *)
(***************************************************************************)
EXTENDS Lowering

Bit(x, i) == (x \div 2^i) % 2 = 1
Word(n, P(_)) ==
    LET sum[i \in 0 .. n] == IF i = 0 THEN 0 ELSE sum[i - 1] + (IF P(i - 1) THEN 2^(i - 1) ELSE 0)
    IN  sum[n]

(* Exact integers of the carry operations: a sum that does not fit, or a   *)
(* difference below zero, carries. *)
Exactly(name, a, b, carry) ==
    LET c == IF name \in {"addc1o", "subb1o"} THEN 1
             ELSE IF name \in {"addco", "subbo"} THEN 0 ELSE carry
    IN  IF name \in Adds THEN a + b + c ELSE a - b - c

Logic == {"and", "or", "xor", "andc", "orc", "nand", "nor", "eqv"}
Truth(name, p, q) ==
    CASE name = "and" -> p /\ q
      [] name = "or" -> p \/ q
      [] name = "xor" -> p # q
      [] name = "andc" -> p /\ ~q
      [] name = "orc" -> p \/ ~q
      [] name = "nand" -> ~(p /\ q)
      [] name = "nor" -> ~(p \/ q)
      [] name = "eqv" -> p = q

(* Outputs of a wide operation, from the exact product and quotient. *)
WideMeaning(op, v) ==
    LET n == op.bits
        S(x) == IF op.name \in {"muls2", "mulsh", "divs2"} THEN AsSigned(n, x) ELSE x
        product == S(v[1]) * S(v[2])
        dividend == v[1] + S(v[2]) * 2^n
        quotient == CHOOSE q \in -(4^n) .. 4^n :
                       /\ Magnitude(dividend - q * S(v[3])) < Magnitude(S(v[3]))
                       /\ dividend = q * S(v[3]) \/ ((dividend < 0) = (dividend - q * S(v[3]) < 0))
    IN  CASE op.name \in {"muls2", "mulu2"} -> <<product % 2^n, (product \div 2^n) % 2^n>>
          [] op.name \in {"mulsh", "muluh"} -> <<(product \div 2^n) % 2^n>>
          [] op.name \in Quotients -> <<quotient % 2^n, (dividend - quotient * S(v[3])) % 2^n>>

(* The value of an operation with one output, by its bits where it is      *)
(* about bits. *)
Meaning(op, v) ==
    LET n == op.bits  a == v[1]  b == v[2]  k == op.k
        wide == CASE op.name = "bswap16" -> 2 [] op.name = "bswap32" -> 4 [] OTHER -> 8
        B(i) == IF op.name \in Logic THEN Truth(op.name, Bit(a, i), Bit(b, i))
                ELSE CASE op.name = "not" -> ~Bit(a, i)
                       [] op.name = "shl" -> i >= b /\ Bit(a, i - b)
                       [] op.name = "shr" -> i + b < n /\ Bit(a, i + b)
                       [] op.name = "sar" -> Bit(a, IF i + b < n THEN i + b ELSE n - 1)
                       [] op.name = "rotl" -> Bit(a, (i - b) % n)
                       [] op.name = "rotr" -> Bit(a, (i + b) % n)
                       [] op.name = "extract" -> i < k[2] /\ Bit(a, k[1] + i)
                       [] op.name = "sextract" -> Bit(a, k[1] + (IF i < k[2] THEN i ELSE k[2] - 1))
                       [] op.name = "extract2" ->
                             IF i + k[1] < n THEN Bit(a, i + k[1]) ELSE Bit(b, i + k[1] - n)
                       [] op.name = "deposit" ->
                             IF i \in k[1] .. k[1] + k[2] - 1 THEN Bit(b, i - k[1]) ELSE Bit(a, i)
                       [] op.name \in {"bswap16", "bswap32", "bswap64"} ->
                             IF i < wide * Byte
                             THEN Bit(a, (wide - 1 - i \div Byte) * Byte + (i % Byte))
                             ELSE k[1] # 0 /\ Bit(a, Byte - 1)
                       [] op.name = "ext_i32_i64" -> Bit(a, IF i < n \div 2 THEN i ELSE n \div 2 - 1)
                       [] op.name \in {"extu_i32_i64", "extrl_i64_i32"} -> Bit(a, i)
                       [] op.name = "extrh_i64_i32" -> Bit(a, n + i)
        ByBits == Logic \cup {"not", "shl", "shr", "sar", "rotl", "rotr", "extract", "sextract",
                              "extract2", "deposit", "bswap16", "bswap32", "bswap64",
                              "ext_i32_i64", "extu_i32_i64", "extrl_i64_i32", "extrh_i64_i32"}
    IN  IF op.name \in ByBits THEN Word(n, B)
        ELSE CASE op.name = "ctpop" -> Cardinality({i \in 0 .. n - 1 : Bit(a, i)})
               [] op.name = "clz" /\ a # 0 ->
                     Cardinality({i \in 0 .. n - 1 : \A j \in i .. n - 1 : ~Bit(a, j)})
               [] op.name = "ctz" /\ a # 0 ->
                     Cardinality({i \in 0 .. n - 1 : \A j \in 0 .. i : ~Bit(a, j)})
               [] OTHER -> Integer(op, v)

(* A processor after one operation, and after the rest of a block. *)
After(op, c) ==
    LET v == [i \in DOMAIN op.in |-> Get(op.in[i], c)]
    IN  CASE op.name \in CarryOps ->
                LET x == Exactly(op.name, v[1], v[2], c.carry)
                    next_ == IF op.name \in {"addci", "subbi"} THEN c.carry
                             ELSE IF x \in 0 .. 2^op.bits - 1 THEN 0 ELSE 1
                IN  Put(op.out[1], x % 2^op.bits, [c EXCEPT !.carry = next_])
          [] op.name \in Products \cup Quotients ->
                LET r == WideMeaning(op, v)
                    first == Put(op.out[1], r[1], c)
                IN  IF Len(op.out) = 2 THEN Put(op.out[2], r[2], first) ELSE first
          [] op.name \in DOMAIN Loads \cup DOMAIN Stores -> Perform(op, c)
          [] OTHER -> Put(op.out[1], Meaning(op, v), c)

Position(l) == CHOOSE i \in DOMAIN ops : ops[i].name = "set_label" /\ ops[i].k[1] = l
RECURSIVE Rest(_, _)
Rest(i, c) ==
    IF i > Len(ops) \/ ops[i].name = "exit_tb" THEN c
    ELSE LET op == ops[i]
         IN  CASE op.name \in Ignored \cup {"set_label"} -> Rest(i + 1, c)
               [] op.name = "br" -> Rest(Position(op.k[1]), c)
               [] op.name = "brcond" ->
                    IF Condition(op.condition, op.bits, Get(op.in[1], c), Get(op.in[2], c))
                    THEN Rest(Position(op.k[1]), c) ELSE Rest(i + 1, c)
               [] OTHER -> Rest(i + 1, After(op, c))

(***************************************************************************)
(* The native code of a block leaves the processor state the block means,  *)
(* whatever is in the slots and the carry that the function does not       *)
(* initialise: carries and borrows chain through widened sums, fields move *)
(* by masks and truncations, branches lead to basic blocks made before or  *)
(* after they are named, and what follows a return or a branch is not run. *)
(* A block is refused only for an operation that is not lowered, a result  *)
(* without a place or a label that is never set (Ir::operation).           *)
(***************************************************************************)
Unset(l) == \A i \in DOMAIN ops : ops[i].name = "set_label" => ops[i].k[1] # l
BlocksAreLowered ==
    /\ phase = "done" =>
          processor.bytes = Rest(1, [bytes |-> entry, slots |-> [t \in Locals |-> 0], carry |-> 0]).bytes
    /\ phase = "refused" =>
          \E i \in DOMAIN ops :
             \/ ops[i].name \notin Branches \cup Ignored /\ ~Lowered(ops[i])
             \/ ops[i].name \in {"br", "brcond"} /\ Unset(ops[i].k[1])
=============================================================================
