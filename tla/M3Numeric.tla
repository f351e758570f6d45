----------------------------- MODULE M3Numeric -----------------------------
(***************************************************************************)
(* The numeric operations of the interpreter (include/m3_exec.h,           *)
(* include/m3_math_utils.h) against what the opcodes mean.                 *)
(*                                                                         *)
(* A run of operations works on one value, of type type, that is at place: *)
(* in a register, or in the slot of the stack it was spilled to. The       *)
(* registers are _r0, an i64 that also holds every i32, and _fp0, an f64   *)
(* that also holds every f32. reg is what that place holds; value is what  *)
(* the program has there, by the definitions of the Wasm specification.    *)
(* Widths and precisions are the real ones divided by eight: 4 bits for    *)
(* i32 and 8 for i64, and significands of 3 and 6 bits. A number of C is   *)
(* an integer of TLA+; a float is a sign and a magnitude in quarters.      *)
(*                                                                         *)
(* Modelled: every operation of integers, and of floats the comparisons,   *)
(* min, max, copysign and the truncations to integers. Not modelled: the   *)
(* arithmetic and rounding of floats and the conversions that yield them,  *)
(* which are those of C, and the reinterpretations.                        *)
(***************************************************************************)
EXTENDS Integers, FiniteSets, FiniteSetsExt, Bitwise

CONSTANTS SlotInts,      \* bit patterns an operation may find in a slot
          SlotQuarters   \* magnitudes of the floats it may find there

VARIABLES reg, place, type, value, trap, wasmTrap
vars == <<reg, place, type, value, trap, wasmTrap>>

Bits(t) == IF t = "i32" THEN 4 ELSE 8
Precision(t) == IF t = "f32" THEN 3 ELSE 6
IntTypes == {"i32", "i64"}
FpTypes == {"f32", "f64"}

\* A conversion of C to a signed or an unsigned type of w bits.
Cast(n, signed, w) ==
    LET u == n % 2^w IN IF signed /\ u >= 2^(w - 1) THEN u - 2^w ELSE u

Truth(holds) == IF holds THEN 1 ELSE 0

\* Division of C rounds to zero.
Abs(n) == IF n < 0 THEN -n ELSE n
Quotient(a, b) == IF (a < 0) = (b < 0) THEN Abs(a) \div Abs(b) ELSE -(Abs(a) \div Abs(b))
----------------------------------------------------------------------------
(* The operations of two integers: a and b have been cast to the type of   *)
(* the operation. A trap is a number no integer type has.                  *)

noTrap == 10000
trapDivisionByZero == 10001
trapIntegerOverflow == 10002
trapIntegerConversion == 10003
IsTrap(n) == n > noTrap

OP_ADD(a, b, w) == Cast(Cast(a, FALSE, w) + Cast(b, FALSE, w), TRUE, w)
OP_SUB(a, b, w) == Cast(Cast(a, FALSE, w) - Cast(b, FALSE, w), TRUE, w)
OP_MUL(a, b, w) == Cast(Cast(a, FALSE, w) * Cast(b, FALSE, w), TRUE, w)
OP_SHL(x, n, w) == Cast(x * 2^(Cast(n, FALSE, w) % w), FALSE, w)
OP_SHR(x, n, w) == x \div 2^(Cast(n, FALSE, w) % w)

\* The count is an unsigned int, of 32 bits.
rotl(n, count, w) ==
    LET c == Cast(count, FALSE, Bits("i32")) & (w - 1)
    IN Cast(n * 2^c, FALSE, w) | (n \div 2^((w - c) & (w - 1)))
rotr(n, count, w) ==
    LET c == Cast(count, FALSE, Bits("i32")) & (w - 1)
    IN (n \div 2^c) | Cast(n * 2^((w - c) & (w - 1)), FALSE, w)

OP_DIV_U(a, b) == IF b = 0 THEN trapDivisionByZero ELSE Quotient(a, b)
OP_REM_U(a, b) == IF b = 0 THEN trapDivisionByZero ELSE a - b * Quotient(a, b)
OP_DIV_S(a, b, min) == IF b = -1 /\ a = min THEN trapIntegerOverflow ELSE OP_DIV_U(a, b)
OP_REM_S(a, b, min) == IF b = -1 /\ a = min THEN 0 ELSE OP_REM_U(a, b)

IntBinary(name, signed, a, b, w) ==
    LET min == -(2^(w - 1))
    IN CASE name = "Equal" -> Truth(a = b)
         [] name = "NotEqual" -> Truth(a # b)
         [] name = "LessThan" -> Truth(a < b)
         [] name = "GreaterThan" -> Truth(a > b)
         [] name = "LessThanOrEqual" -> Truth(a <= b)
         [] name = "GreaterThanOrEqual" -> Truth(a >= b)
         [] name = "Add" -> OP_ADD(a, b, w)
         [] name = "Subtract" -> OP_SUB(a, b, w)
         [] name = "Multiply" -> OP_MUL(a, b, w)
         [] name = "ShiftLeft" -> OP_SHL(a, b, w)
         [] name = "ShiftRight" -> OP_SHR(a, b, w)
         [] name = "And" -> a & b
         [] name = "Or" -> a | b
         [] name = "Xor" -> a ^^ b
         [] name = "Rotl" -> rotl(a, b, w)
         [] name = "Rotr" -> rotr(a, b, w)
         [] name = "Divide" -> IF signed THEN OP_DIV_S(a, b, min) ELSE OP_DIV_U(a, b)
         [] name = "Remainder" -> IF signed THEN OP_REM_S(a, b, min) ELSE OP_REM_U(a, b)

(***************************************************************************)
(* The table of operations: for an opcode of i32 and of i64 alike, the     *)
(* operation, whether it is one of a signed type, and whether the table    *)
(* lists it as commutative.                                                *)
(***************************************************************************)
Entry(name, signed, commutes) == [name |-> name, signed |-> signed, commutes |-> commutes]

Comparisons ==
    { Entry(name, TRUE, TRUE) : name \in {"Equal", "NotEqual"} }
    \union { Entry(name, signed, FALSE) :
               name \in {"LessThan", "GreaterThan", "LessThanOrEqual", "GreaterThanOrEqual"},
               signed \in BOOLEAN }

IntOps ==
    { Entry(name, TRUE, TRUE) : name \in {"Add", "Multiply"} }
    \union { Entry(name, FALSE, TRUE) : name \in {"And", "Or", "Xor"} }
    \union { Entry(name, FALSE, FALSE) : name \in {"ShiftLeft", "Rotl", "Rotr"} }
    \union { Entry(name, signed, FALSE) :
               name \in {"ShiftRight", "Divide", "Remainder"}, signed \in BOOLEAN }
    \union { Entry("Subtract", TRUE, FALSE) }
----------------------------------------------------------------------------
(* The operations of one integer.                                          *)

\* external: the bit counts of the compiler, undefined for 0.
builtin_clz(x, w) == w - 1 - Max({ i \in 0 .. w - 1 : (x \div 2^i) % 2 = 1 })
builtin_ctz(x, w) == Min({ i \in 0 .. w - 1 : (x \div 2^i) % 2 = 1 })
builtin_popcount(x, w) == Cardinality({ i \in 0 .. w - 1 : (x \div 2^i) % 2 = 1 })

\* On x86-64 the wide ones do without a branch.
OP_CLZ(x, w) ==
    IF w = Bits("i64") THEN builtin_clz(x | 1, w) + Truth(x = 0)
    ELSE IF x = 0 THEN w ELSE builtin_clz(x, w)
OP_CTZ(x, w) ==
    IF w = Bits("i64") THEN builtin_ctz(x | 2^(w - 1), w) + Truth(x = 0)
    ELSE IF x = 0 THEN w ELSE builtin_ctz(x, w)

OP_WRAP_I64(x) == Cast(x, FALSE, Bits("i32"))
OP_EXTEND_S(x, bits) == Cast(x, TRUE, bits)

\* Every opcode of one integer: from and to which type, and the operation.
\* A byte has Bits("i32") \div 4 bits.
IntUnaries ==
    [from : IntTypes, to : {"i32"}, name : {"EqualToZero"}]
    \union { [from |-> t, to |-> t, name |-> name] :
               t \in IntTypes, name \in {"Clz", "Ctz", "Popcnt", "Extend8_s", "Extend16_s"} }
    \union { [from |-> "i64", to |-> "i64", name |-> "Extend32_s"],
             [from |-> "i64", to |-> "i32", name |-> "Wrap_i64"],
             [from |-> "i32", to |-> "i64", name |-> "Extend_i32"],
             [from |-> "i32", to |-> "i64", name |-> "Extend_u32"] }

IntUnary(op, n) ==
    LET w == Bits(op.from)
        x == Cast(n, FALSE, w)
    IN CASE op.name = "EqualToZero" -> Truth(x = 0)
         [] op.name = "Clz" -> OP_CLZ(x, w)
         [] op.name = "Ctz" -> OP_CTZ(x, w)
         [] op.name = "Popcnt" -> builtin_popcount(x, w)
         [] op.name = "Extend8_s" -> OP_EXTEND_S(Cast(n, TRUE, w), 1)
         [] op.name = "Extend16_s" -> OP_EXTEND_S(Cast(n, TRUE, w), 2)
         [] op.name = "Extend32_s" -> OP_EXTEND_S(Cast(n, TRUE, w), 4)
         [] op.name = "Wrap_i64" -> OP_WRAP_I64(Cast(n, TRUE, w))
         [] op.name = "Extend_i32" -> Cast(n, TRUE, w)
         [] op.name = "Extend_u32" -> Cast(n, FALSE, w)
----------------------------------------------------------------------------
(* Floats.                                                                 *)

NaN == [negative |-> FALSE, quarters |-> -1]
Infinite == 2^12
Float(negative, quarters) == [negative |-> negative, quarters |-> quarters]

isnan(x) == x.quarters = -1
signbit(x) == x.negative
Amount(x) == IF x.negative THEN -x.quarters ELSE x.quarters

\* Magnitudes that have a float of type t.
Magnitudes(t) ==
    LET p == Precision(t)
    IN { n \in SlotQuarters \ {Infinite} : \E e \in 0 .. 12 : n % 2^e = 0 /\ n \div 2^e < 2^p }
       \union {Infinite}

Floats(t) == { Float(negative, n) : negative \in BOOLEAN, n \in Magnitudes(t) } \union {NaN}

min_(a, b) ==
    IF isnan(a) \/ isnan(b) THEN NaN
    ELSE IF Amount(a) = 0 /\ Amount(a) = Amount(b) THEN IF signbit(a) THEN a ELSE b
    ELSE IF Amount(a) > Amount(b) THEN b ELSE a

max_(a, b) ==
    IF isnan(a) \/ isnan(b) THEN NaN
    ELSE IF Amount(a) = 0 /\ Amount(a) = Amount(b) THEN IF signbit(a) THEN b ELSE a
    ELSE IF Amount(a) > Amount(b) THEN a ELSE b

\* external: copysign and comparison of C.
copysign(a, b) == IF isnan(a) THEN NaN ELSE [a EXCEPT !.negative = b.negative]
FpCompare(name, a, b) ==
    IF isnan(a) \/ isnan(b) THEN Truth(name = "NotEqual")
    ELSE IntBinary(name, TRUE, Amount(a), Amount(b), 32)

FpOps ==
    { Entry(name, TRUE, TRUE) : name \in {"Min", "Max"} }
    \union { Entry("CopySign", TRUE, FALSE) }

FpBinary(name, a, b) ==
    CASE name = "Min" -> min_(a, b)
      [] name = "Max" -> max_(a, b)
      [] name = "CopySign" -> copysign(a, b)

\* The bounds of a truncation: RMIN is the float next below the least integer.
RMIN(signed, w, p) ==
    IF ~signed THEN -4 ELSE -4 * (2^(w - 1) + (IF w > p THEN 2^(w - p) ELSE 1))
RMAX(signed, w) == 4 * (IF signed THEN 2^(w - 1) ELSE 2^w)
IMIN(signed, w) == IF signed THEN -(2^(w - 1)) ELSE 0
IMAX(signed, w) == IF signed THEN 2^(w - 1) - 1 ELSE 2^w - 1

\* Mutant: the least integer itself is out of range.
OP_TRUNC_Least(x, signed, w, p) ==
    IF isnan(x) THEN trapIntegerConversion
    ELSE IF Amount(x) <= 4 * IMIN(signed, w) \/ Amount(x) >= RMAX(signed, w)
    THEN trapIntegerOverflow
    ELSE Quotient(Amount(x), 4)
OP_TRUNC(x, signed, w, p) ==
    IF isnan(x) THEN trapIntegerConversion
    ELSE IF Amount(x) <= RMIN(signed, w, p) \/ Amount(x) >= RMAX(signed, w)
    THEN trapIntegerOverflow
    ELSE Quotient(Amount(x), 4)

OP_TRUNC_SAT(x, signed, w, p) ==
    IF isnan(x) THEN 0
    ELSE IF Amount(x) <= RMIN(signed, w, p) THEN IMIN(signed, w)
    ELSE IF Amount(x) >= RMAX(signed, w) THEN IMAX(signed, w)
    ELSE Quotient(Amount(x), 4)
----------------------------------------------------------------------------
(* What the opcodes mean, by the definitions of the Wasm specification. An *)
(* integer is its bit pattern.                                             *)

Bit(x, i) == (x \div 2^i) % 2
Pattern(w, bit(_)) == FoldSet(LAMBDA i, sum : sum + bit(i) * 2^i, 0, 0 .. w - 1)
Signed(x, w) == IF Bit(x, w - 1) = 1 THEN x - 2^w ELSE x
Integer(x, signed, w) == IF signed THEN Signed(x, w) ELSE x

\* The integer n, if the type has it.
InRange(n, signed, w, otherwise) ==
    IF n \in IMIN(signed, w) .. IMAX(signed, w) THEN n % 2^w ELSE otherwise

WasmIntBinary(name, signed, x, y, w) ==
    LET a == Integer(x, signed, w)
        b == Integer(y, signed, w)
        k == y % w
    IN CASE name = "Equal" -> Truth(x = y)
         [] name = "NotEqual" -> Truth(x # y)
         [] name = "LessThan" -> Truth(a < b)
         [] name = "GreaterThan" -> Truth(b < a)
         [] name = "LessThanOrEqual" -> Truth(~(b < a))
         [] name = "GreaterThanOrEqual" -> Truth(~(a < b))
         [] name = "Add" -> (x + y) % 2^w
         [] name = "Subtract" -> (x - y + 2^w) % 2^w
         [] name = "Multiply" -> (x * y) % 2^w
         [] name = "ShiftLeft" -> Pattern(w, LAMBDA i : IF i < k THEN 0 ELSE Bit(x, i - k))
         [] name = "ShiftRight" -> Pattern(w, LAMBDA i :
                IF i + k < w THEN Bit(x, i + k) ELSE IF signed THEN Bit(x, w - 1) ELSE 0)
         [] name = "And" -> Pattern(w, LAMBDA i : Bit(x, i) * Bit(y, i))
         [] name = "Or" -> Pattern(w, LAMBDA i : Max({Bit(x, i), Bit(y, i)}))
         [] name = "Xor" -> Pattern(w, LAMBDA i : (Bit(x, i) + Bit(y, i)) % 2)
         [] name = "Rotl" -> Pattern(w, LAMBDA i : Bit(x, (i - k + w) % w))
         [] name = "Rotr" -> Pattern(w, LAMBDA i : Bit(x, (i + k) % w))
         [] name = "Divide" -> IF b = 0 THEN trapDivisionByZero
                               ELSE InRange(Quotient(a, b), signed, w, trapIntegerOverflow)
         [] name = "Remainder" -> IF b = 0 THEN trapDivisionByZero
                                  ELSE (a - b * Quotient(a, b)) % 2^w

\* The low bits of x, extended by the highest of them.
SignExtended(x, bits, w) ==
    Pattern(w, LAMBDA i : Bit(x, IF i < bits THEN i ELSE bits - 1))

WasmIntUnary(op, x) ==
    LET w == Bits(op.from)
        ones == { i \in 0 .. w - 1 : Bit(x, i) = 1 }
    IN CASE op.name = "EqualToZero" -> Truth(ones = {})
         [] op.name = "Clz" -> Max({ n \in 0 .. w : \A i \in w - n .. w - 1 : i \notin ones })
         [] op.name = "Ctz" -> Max({ n \in 0 .. w : \A i \in 0 .. n - 1 : i \notin ones })
         [] op.name = "Popcnt" -> Cardinality(ones)
         [] op.name = "Extend8_s" -> SignExtended(x, 1, w)
         [] op.name = "Extend16_s" -> SignExtended(x, 2, w)
         [] op.name = "Extend32_s" -> SignExtended(x, 4, w)
         [] op.name = "Wrap_i64" -> x % 2^Bits("i32")
         [] op.name = "Extend_i32" -> SignExtended(x, w, Bits("i64"))
         [] op.name = "Extend_u32" -> x

\* Floats in the order of the specification: -0 is below +0.
Below(a, b) ==
    Amount(a) < Amount(b) \/ (Amount(a) = Amount(b) /\ a.negative /\ ~b.negative)

WasmFpBinary(name, a, b) ==
    IF name = "CopySign" THEN copysign(a, b)
    ELSE IF NaN \in {a, b} THEN NaN
    ELSE IF name = "Min" THEN CHOOSE x \in {a, b} : \A y \in {a, b} : ~Below(y, x)
    ELSE CHOOSE x \in {a, b} : \A y \in {a, b} : ~Below(x, y)

WasmTrunc(x, signed, w) ==
    IF x = NaN THEN trapIntegerConversion
    ELSE InRange(Quotient(Amount(x), 4), signed, w, trapIntegerOverflow)

WasmTruncSat(x, signed, w) ==
    IF x = NaN THEN 0
    ELSE InRange(Quotient(Amount(x), 4), signed, w,
                 IF x.negative THEN IMIN(signed, w) % 2^w ELSE IMAX(signed, w))
----------------------------------------------------------------------------
(* The run.                                                                *)

Init ==
    /\ reg = 0 /\ place = "register" /\ type = "i32" /\ value = 0
    /\ trap = noTrap /\ wasmTrap = noTrap

\* What an i64 register, or a slot of type t, has of a number of C.
Stored(n, t, dest) ==
    IF dest = "register" THEN Cast(n, TRUE, Bits("i64")) ELSE Cast(n, FALSE, Bits(t))

\* The operation has put result, a number of C, into dest, or has trapped; the
\* program has wasm, of type t.
GivesInt(result, wasm, t, dest) ==
    /\ reg' = IF IsTrap(result) THEN 0 ELSE Stored(result, t, dest)
    /\ value' = IF IsTrap(wasm) THEN 0 ELSE wasm
    /\ place' = dest /\ type' = t
    /\ trap' = IF IsTrap(result) THEN result ELSE noTrap
    /\ wasmTrap' = IF IsTrap(wasm) THEN wasm ELSE noTrap

GivesFloat(result, wasm, t) ==
    /\ reg' = result /\ value' = wasm /\ place' = "register" /\ type' = t
    /\ trap' = noTrap /\ wasmTrap' = noTrap

Runs == trap = noTrap /\ wasmTrap = noTrap

\* op_SetRegister: a value comes from a slot. A trap has ended the run.
SetRegister(t) ==
    \/ /\ t \in IntTypes
       /\ \E x \in SlotInts : GivesInt(Cast(x, TRUE, Bits(t)), x % 2^Bits(t), t, "register")
    \/ /\ t \in FpTypes
       /\ \E x \in Floats(t) : GivesFloat(x, x, t)

\* op_SetSlot: the register is spilled. A float is one of its type already.
SetSlot ==
    /\ Runs /\ place = "register" /\ place' = "slot"
    /\ reg' = IF type \in IntTypes THEN Stored(reg, type, "slot") ELSE reg
    /\ UNCHANGED <<type, value, trap, wasmTrap>>

(***************************************************************************)
(* The operands of an operation of two, in its order. The value of the run *)
(* is the program's lower operand if lower, else its upper one; other is   *)
(* the other one, in a slot.                                               *)
(*                                                                         *)
(* With the value in a register, _rs takes its first operand from the slot *)
(* and _sr its second; a commutative operation has no _sr, and _rs is      *)
(* emitted wherever the register is. With both in slots, the compiler      *)
(* emits the slot of the top of the stack and then the one below; _ss      *)
(* reads its second operand first.                                         *)
(***************************************************************************)
FromSlotFirst(op, lower) == op.commutes \/ ~lower

\* Mutant: _ss reads its operands in their order.
Operands_Swapped(op, lower, other) ==
    IF place = "register"
    THEN IF FromSlotFirst(op, lower) THEN <<other, reg>> ELSE <<reg, other>>
    ELSE IF lower THEN <<other, reg>> ELSE <<reg, other>>
Operands(op, lower, other) ==
    LET emitted == IF lower THEN <<other, reg>> ELSE <<reg, other>>
    IN IF place = "slot" THEN <<emitted[2], emitted[1]>>
       ELSE IF FromSlotFirst(op, lower) THEN <<other, reg>> ELSE <<reg, other>>

\* The same two, as the program has them.
WasmOperands(lower, other) == IF lower THEN <<value, other>> ELSE <<other, value>>

IntBinaryOp(op, lower, other) ==
    LET w == Bits(type)
        c == Operands(op, lower, other)
        wasm == WasmOperands(lower, other % 2^w)
    IN /\ Runs /\ type \in IntTypes
       /\ GivesInt(IntBinary(op.name, op.signed, Cast(c[1], op.signed, w),
                             Cast(c[2], op.signed, w), w),
                   WasmIntBinary(op.name, op.signed, wasm[1], wasm[2], w),
                   IF op \in Comparisons THEN "i32" ELSE type, "register")

\* The variants _r and _s, the value in a register or in a slot.
IntUnaryOp(op) ==
    /\ Runs /\ type = op.from
    /\ GivesInt(IntUnary(op, reg), WasmIntUnary(op, value), op.to, "register")

FpBinaryOp(op, lower, other) ==
    LET c == Operands(op, lower, other)
        wasm == WasmOperands(lower, other)
    IN /\ Runs /\ type \in FpTypes
       /\ IF op \in FpOps
          THEN GivesFloat(FpBinary(op.name, c[1], c[2]),
                          WasmFpBinary(op.name, wasm[1], wasm[2]), type)
          ELSE GivesInt(FpCompare(op.name, c[1], c[2]),
                        FpCompare(op.name, wasm[1], wasm[2]), "i32", "register")

\* The variants _r_r and _r_s, and _s_r and _s_s, which put the result into a
\* slot: the register of integers is in use.
TruncOp(t, signed, dest) ==
    /\ Runs /\ type \in FpTypes
    /\ GivesInt(OP_TRUNC(reg, signed, Bits(t), Precision(type)),
                WasmTrunc(value, signed, Bits(t)), t, dest)

TruncSatOp(t, signed, dest) ==
    /\ Runs /\ type \in FpTypes
    /\ GivesInt(OP_TRUNC_SAT(reg, signed, Bits(t), Precision(type)),
                WasmTruncSat(value, signed, Bits(t)), t, dest)

Next ==
    \/ \E t \in IntTypes \union FpTypes : SetRegister(t)
    \/ SetSlot
    \/ \E lower \in BOOLEAN :
          \/ \E op \in Comparisons \union IntOps, x \in SlotInts : IntBinaryOp(op, lower, x)
          \/ type \in FpTypes /\ \E op \in { e \in Comparisons : e.signed } \union FpOps,
                                   x \in Floats(type) : FpBinaryOp(op, lower, x)
    \/ \E op \in IntUnaries : IntUnaryOp(op)
    \/ \E t \in IntTypes, signed \in BOOLEAN, dest \in {"register", "slot"} :
          TruncOp(t, signed, dest) \/ TruncSatOp(t, signed, dest)

Spec == Init /\ [][Next]_vars
----------------------------------------------------------------------------
(* Properties.                                                             *)

\* Whatever operations have gone before, however they left the upper half of
\* _r0, and wherever the value was spilled, its register or slot holds what the
\* program has there: each variant of each operation of this module (_rs, _sr,
\* _ss; _r, _s; _r_r, _r_s, _s_r, _s_s), with its casts and the order in which
\* it reads its operands, computes what the opcode means, and what the table
\* lists as commutative is.
RegisterHoldsValue ==
    Runs => IF type \in IntTypes THEN reg % 2^Bits(type) = value ELSE reg = value

\* The operations trap where the opcode does, and for the same reason:
\* division by zero, the one quotient that overflows, floats out of range.
TrapsAgree == trap = wasmTrap
=============================================================================
