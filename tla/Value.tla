------------------------------- MODULE Value -------------------------------
(***************************************************************************)
(* The three-way comparison of tuple values (value.h: IntValue, FloatValue *)
(* and StringValue ::compare), the comparator the executor sorts and       *)
(* groups by.  A state holds the two operands of one compare call; a step  *)
(* is the next call on two values of one column type.                     *)
(*                                                                         *)
(* Abstractions: an int is an integer of IntBits bits (32 in the build)   *)
(* and value_ - other is the wrapping subtraction the virtual call        *)
(* compiles to.  A float is an integer number of units of 10^-7, so that   *)
(* 1e-6 is Eps = 10 units and the subtraction is exact (float rounding is  *)
(* not modelled).  A CHARS value is the Width payload bytes of its column, *)
(* as StringValue(value, len, is_null) copies them, each byte a small      *)
(* number with 0 the NUL byte; bytes after the first NUL are whatever the  *)
(* record held there.                                                      *)
(***************************************************************************)
EXTENDS Integers, Sequences, FiniteSetsExt

CONSTANTS
    IntBits,     \* the width of int
    IntVals,     \* the int values of the operands
    FloatVals,   \* the float values, in units of 10^-7
    Bytes,       \* the byte values of a CHARS payload, 0 = NUL
    Width        \* the CHARS column length

IntMin == -(2 ^ (IntBits - 1))
IntMax == 2 ^ (IntBits - 1) - 1

ASSUME ValueAssumption ==
    /\ IntBits \in Nat \ {0}
    /\ IntVals \subseteq IntMin .. IntMax
    /\ FloatVals \subseteq Int
    /\ 0 \in Bytes /\ Bytes \subseteq 0 .. 255
    /\ Width \in Nat \ {0}

Eps == 10

Kinds == {"int", "float", "chars"}

Operands(k) ==
    CASE k = "int"   -> [v : IntVals, null : BOOLEAN]
      [] k = "float" -> [v : FloatVals, null : BOOLEAN]
      [] k = "chars" -> [v : [1 .. Width -> Bytes], null : BOOLEAN]

VARIABLES
    kind,   \* the column type of the compared values
    x,      \* this, the left operand of compare
    y       \* other, the right operand

vars == <<kind, x, y>>

---------------------------------------------------------------------------
(* int arithmetic wraps modulo 2^IntBits *)
WrapInt(n) == ((n - IntMin) % 2 ^ IntBits) + IntMin

IntValue_compare(a, b) ==
    IF a.null \/ b.null THEN -1 ELSE WrapInt(a.v - b.v)

(* Mutant: the epsilon band tested on one side only.                      *)
FloatValue_compare_onesided(a, b) ==
    LET result == a.v - b.v IN
    IF a.null \/ b.null THEN -1
    ELSE IF result < Eps THEN 0
    ELSE IF result > 0 THEN 1
    ELSE IF result < 0 THEN -1
    ELSE 0

FloatValue_compare(a, b) ==
    LET result == a.v - b.v IN
    IF a.null \/ b.null THEN -1
    ELSE IF result > -Eps /\ result < Eps THEN 0
    ELSE IF result > 0 THEN 1
    ELSE IF result < 0 THEN -1
    ELSE 0

(* The byte c_str() exposes at position i: the payload, then the NUL the  *)
(* std::string keeps after it.                                             *)
CStrByte(s, i) == IF i <= Len(s) THEN s[i] ELSE 0

(* Mutant: value_.compare(other.value_), the whole payload compared.      *)
StringValue_compare_bytes(a, b) ==
    IF a.null \/ b.null THEN -1
    ELSE IF a.v = b.v THEN 0
    ELSE LET k == Min({i \in DOMAIN a.v : a.v[i] # b.v[i]}) IN a.v[k] - b.v[k]

(* strcmp(value_.c_str(), other.value_.c_str()): the byte difference at  *)
(* the first position where the strings differ or the left one ends.       *)
StringValue_compare(a, b) ==
    IF a.null \/ b.null THEN -1
    ELSE LET k == Min({i \in 1 .. Len(a.v) + 1 :
                          CStrByte(a.v, i) # CStrByte(b.v, i) \/ CStrByte(a.v, i) = 0})
         IN CStrByte(a.v, k) - CStrByte(b.v, k)

compare(k, a, b) ==
    CASE k = "int"   -> IntValue_compare(a, b)
      [] k = "float" -> FloatValue_compare(a, b)
      [] k = "chars" -> StringValue_compare(a, b)

---------------------------------------------------------------------------
Init ==
    /\ kind \in Kinds
    /\ x \in Operands(kind)
    /\ y \in Operands(kind)

(* The executor's next compare call, on two values of column type k.      *)
Compare(k) ==
    /\ kind' = k
    /\ x' \in Operands(k)
    /\ y' \in Operands(k)

Next == \E k \in Kinds : Compare(k)

Spec == Init /\ [][Next]_vars

---------------------------------------------------------------------------
Sign(n) == IF n > 0 THEN 1 ELSE IF n < 0 THEN -1 ELSE 0

(* The operands of a compare call are two values of the column's type.   *)
TypeOK ==
    /\ kind \in Kinds
    /\ x \in Operands(kind)
    /\ y \in Operands(kind)

(* The C string a payload holds: its bytes before the first NUL.          *)
CStr(s) == SubSeq(s, 1, Min({i \in 1 .. Len(s) + 1 : CStrByte(s, i) = 0}) - 1)

(* Reference byte-wise lexicographic order of two byte strings: p is      *)
(* below q when it is a proper prefix of q or has the smaller byte at the  *)
(* first position where they differ.                                       *)
LexLess(p, q) ==
    \/ Len(p) < Len(q) /\ p = SubSeq(q, 1, Len(p))
    \/ \E i \in 1 .. Len(p) : /\ i <= Len(q)
                              /\ SubSeq(p, 1, i - 1) = SubSeq(q, 1, i - 1)
                              /\ p[i] < q[i]

LexOrder(u, w) == IF u = w THEN 0 ELSE IF LexLess(u, w) THEN -1 ELSE 1

(* CHARS order (StringValue::compare): two non-NULL CHARS values compare  *)
(* as their C strings do in byte-wise lexicographic order, whatever bytes *)
(* follow the terminating NUL in the payload.                              *)
StringCompareIsCStringOrder ==
    kind = "chars" /\ ~x.null /\ ~y.null =>
        Sign(StringValue_compare(x, y)) = LexOrder(CStr(x.v), CStr(y.v))

(* FLOAT antisymmetry (FloatValue::compare): swapping two non-NULL floats *)
(* negates the sign of the result, so the epsilon band is symmetric.      *)
FloatCompareAntisymmetric ==
    kind = "float" /\ ~x.null /\ ~y.null =>
        Sign(FloatValue_compare(x, y)) = -Sign(FloatValue_compare(y, x))

(* INT order (IntValue::compare): the sign of the result is the order of  *)
(* the two non-NULL ints, the order ORDER BY sorts an INT column by.       *)
IntCompareOrders ==
    kind = "int" /\ ~x.null /\ ~y.null =>
        Sign(IntValue_compare(x, y)) = Sign(x.v - y.v)
=============================================================================
