------------------------------ MODULE MCMachine ------------------------------
(***************************************************************************)
(* An instance for TLC of three parts of the engine that share no state:   *)
(* the machine around its native runtime, the lowering of one block, and   *)
(* the edits of registers.  A behaviour is one of them, with the others at *)
(* rest.                                                                   *)
(***************************************************************************)
EXTENDS MachineProperties, LoweringProperties, RegistersProperties

VARIABLE part

Parts ==
    /\ part \in {"machine", "lowering", "registers"}
    /\ MachineInit /\ LoweringInit /\ RegistersInit
    /\ part # "lowering" => ops = <<>>
    /\ part # "registers" => target = "x86_64" /\ ~held /\ file = Bank(<<>>)

Steps ==
    \/ part = "machine" /\ Next /\ UNCHANGED <<part, loweringVars, registersVars>>
    \/ part = "lowering" /\ LoweringNext /\ UNCHANGED <<part, vars, registersVars>>
    \/ part = "registers" /\ RegistersNext /\ UNCHANGED <<part, vars, loweringVars>>

FairParts ==
    /\ Parts /\ [][Steps]_<<part, vars, loweringVars, registersVars>>
    /\ WF_vars(Runs) /\ WF_vars(Return)

-----------------------------------------------------------------------------
(* The machine.                                                            *)

(* Two cells in two mappings: a two-byte instruction whose second byte is  *)
(* a REP instruction, which the guest may overwrite.                       *)
MCImage == [c \in Memory |-> IF c = 0 THEN "wide" ELSE "rep"]
MCRegions == <<{0}, {1}>>

(* One watchpoint on writes to the second byte, one on reads of the first. *)
MCCovers == [p \in Points |-> IF p = 1 THEN {<<1, "write">>} ELSE {<<0, "read">>}]
-----------------------------------------------------------------------------
(* Blocks, with a byte of one bit: 32-bit values have four.                *)

Global(offset, bits) == [storage |-> "global", offset |-> offset, bits |-> bits]
Constant(bits, x) == [storage |-> "constant", bits |-> bits, value |-> x]
Local(bits) == [storage |-> "local", bits |-> bits]
(* Two 32-bit operands, a 32-bit and a 64-bit result over a field, locals  *)
(* and constants. *)
MCTemps ==
    [a |-> Global(0, 4), b |-> Global(4, 4), r |-> Global(8, 4), q |-> Global(8, 8),
     t |-> Local(4), u |-> Local(8),
     zero |-> Constant(4, 0), one |-> Constant(4, 1), three |-> Constant(4, 3), six |-> Constant(4, 6),
     minus |-> Constant(4, 2^8 - 2)]
MCStates ==
    {[i \in 0 .. 15 |-> IF i < 4 THEN (x \div 2^i) % 2
                        ELSE IF i < 8 THEN (y \div 2^(i - 4)) % 2 ELSE i % 2] : x, y \in 0 .. 15}

Op(name, bits, out, in, k) ==
    [name |-> name, bits |-> bits, out |-> out, in |-> in, k |-> k, condition |-> "EQ"]
When(name, condition, out, in, k) ==
    [name |-> name, bits |-> 4, out |-> out, in |-> in, k |-> k, condition |-> condition]
Conditions == {"NEVER", "ALWAYS", "EQ", "NE", "LT", "GE", "LE", "GT", "LTU", "GEU", "LEU", "GTU", "TSTEQ", "TSTNE"}

Binary ==
    {<<Op(name, 4, <<"r">>, <<"a", "b">>, <<>>)>> :
        name \in {"add", "sub", "mul", "and", "or", "xor", "andc", "orc", "nand", "nor", "eqv",
                  "rotl", "rotr", "clz", "ctz", "mulsh", "muluh"}}
    \cup {<<Op(name, 4, <<"r">>, <<"a", d>>, <<>>)>> :
            name \in {"divu", "remu"}, d \in {"three", "minus"}}
    \cup {<<Op(name, 4, <<"r">>, <<"a", "minus">>, <<>>)>> : name \in {"divs", "rems"}}
    \cup {<<Op(name, 4, <<"r", "t">>, <<"a", "b">>, <<>>), Op("xor", 4, <<"r">>, <<"r", "t">>, <<>>)>> :
            name \in {"muls2", "mulu2"}}
    \cup {<<Op(name, 4, <<"a">>, <<"a">>, <<>>)>> : name \in {"mov", "not", "neg", "ctpop"}}
(* Shifts by a masked count, and quotients that fit. *)
Shifts ==
    {<<Op("and", 4, <<"t">>, <<"b", "three">>, <<>>), Op(name, 4, <<"r">>, <<"a", "t">>, <<>>)>> :
        name \in {"shl", "shr", "sar"}}
    \cup {<<Op("divu2", 4, <<"r", "a">>, <<"a", "one", "six">>, <<>>)>>,
          <<Op("sar", 4, <<"t">>, <<"a", "three">>, <<>>),
            Op("divs2", 4, <<"r", "b">>, <<"a", "t", "minus">>, <<>>)>>}
Fields ==
    {<<Op(name, 4, <<"r">>, <<"a">>, pn)>> :
        name \in {"extract", "sextract"}, pn \in {<<0, 1>>, <<0, 4>>, <<1, 2>>, <<3, 1>>}}
    \cup {<<Op("deposit", 4, <<"r">>, <<"a", "b">>, pn)>> : pn \in {<<0, 4>>, <<1, 2>>, <<3, 1>>, <<0, 2>>}}
    \cup {<<Op("extract2", 4, <<"r">>, <<"a", "b">>, <<p>>)>> : p \in {0, 1, 3}}
    \cup {<<Op("bswap16", 4, <<"r">>, <<"a">>, <<s>>)>> : s \in {0, 1}}
    \cup {<<Op("bswap32", 4, <<"r">>, <<"a">>, <<0>>)>>}
Conversions ==
    {<<Op("ext_i32_i64", 8, <<"u">>, <<"a">>, <<>>), Op("bswap64", 8, <<"q">>, <<"u">>, <<0>>)>>,
     <<Op("extu_i32_i64", 8, <<"q">>, <<"b">>, <<>>), Op("st16", 4, <<>>, <<"a">>, <<11>>),
       Op("extrh_i64_i32", 4, <<"a">>, <<"q">>, <<>>), Op("extrl_i64_i32", 4, <<"b">>, <<"q">>, <<>>)>>,
     <<Op("st", 4, <<>>, <<"a">>, <<9>>), Op("ld8s", 4, <<"b">>, <<>>, <<9>>), Op("ld16u", 4, <<"a">>, <<>>, <<11>>)>>,
     <<Op("ld", 8, <<"u">>, <<>>, <<1>>), Op("st32", 8, <<>>, <<"u">>, <<8>>), Op("ld32s", 8, <<"q">>, <<>>, <<9>>)>>}
(* Sums and differences of two limbs with each carry in and out. *)
Chains ==
    {<<Op(low, 4, <<"r">>, <<"a", "six">>, <<>>), Op("insn_start", 0, <<>>, <<>>, <<>>),
       Op(high, 4, <<"a">>, <<"b", d>>, <<>>)>> :
        low \in {"addco", "addc1o"}, high \in {"addci", "addcio"}, d \in {"minus", "zero"}}
    \cup {<<Op(low, 4, <<"r">>, <<"a", "six">>, <<>>), Op("subbio", 4, <<"a">>, <<"b", d>>, <<>>),
            Op("subbi", 4, <<"b">>, <<"zero", "zero">>, <<>>)>> :
            low \in {"subbo", "subb1o"}, d \in {"minus", "three", "b"}}
    \cup {<<Op("addco", 4, <<"r">>, <<"a", "b">>, <<>>), Op("addcio", 4, <<"a">>, <<"zero", "minus">>, <<>>),
            Op("addci", 4, <<"b">>, <<"zero", "zero">>, <<>>)>>}
Selections ==
    {<<When("setcond", c, <<"r">>, <<"a", "b">>, <<>>), When("negsetcond", c, <<"a">>, <<"b", "a">>, <<>>)>> :
        c \in Conditions}
    \cup {<<When("movcond", c, <<"r">>, <<"a", "six", "b", "a">>, <<>>)>> : c \in {"LT", "TSTNE"}}
(* A loop, branches over code and dead code, and blocks that are refused. *)
Bump(t) == Op("add", 4, <<t>>, <<t, "one">>, <<>>)
Drop(t) == Op("sub", 4, <<t>>, <<t, "one">>, <<>>)
Branching ==
    {<<Op("set_label", 0, <<>>, <<>>, <<1>>), When("brcond", "EQ", <<>>, <<"a", "zero">>, <<2>>), Drop("a"),
       Bump("r"), Op("br", 0, <<>>, <<>>, <<1>>), Op("set_label", 0, <<>>, <<>>, <<2>>), Bump("b")>>,
     <<When("brcond", "LTU", <<>>, <<"a", "b">>, <<1>>), Bump("r"), Op("exit_tb", 0, <<>>, <<>>, <<>>), Bump("b"),
       Op("set_label", 0, <<>>, <<>>, <<1>>), Drop("r")>>,
     <<Op("br", 0, <<>>, <<>>, <<1>>), Bump("a"), Op("set_label", 0, <<>>, <<>>, <<1>>), Bump("r")>>,
     <<When("brcond", "GT", <<>>, <<"a", "b">>, <<3>>), Bump("r")>>,
     <<Op("mov", 4, <<"one">>, <<"a">>, <<>>)>>, <<Op("unknown", 4, <<"r">>, <<"a">>, <<>>)>>}
MCBlocks == {<<>>} \cup Binary \cup Shifts \cup Fields \cup Conversions \cup Chains \cup Selections \cup Branching

-----------------------------------------------------------------------------
(* Registers, at their real widths.                                        *)

MCValues == {{}, {1}, {0, 9}, 8 .. 15, 0 .. 31, {3, 63}, {70, 127}, 0 .. 255}
MCLengths == {<<16, 32>>, <<32, 32>>}
Assign(g, bits) == [index |-> g, value |-> bits]
MCAssignments ==
    {<<>>, <<Assign("g1", {0, 63}), Assign("g0", {9})>>, <<Assign("g1", {0}), Assign("g1", {9})>>}
=============================================================================
