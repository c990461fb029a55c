---------------------------- MODULE ValueProofs ----------------------------
(* Proofs about the tuple-value comparators of module Value, for every     *)
(* width, every set of values and every byte alphabet.                     *)
EXTENDS Value, WellFoundedInduction, SequenceTheorems, TLAPS

(* The least element of a non-empty set of naturals.                      *)
LEMMA MinOfNats ==
    ASSUME NEW T \in SUBSET Nat, T # {}
    PROVE  Min(T) \in T /\ \A i \in T : Min(T) <= i
<1>1. \E m \in T : \A i \in T : ~(<<i, m>> \in OpToRel(<, Nat))
    BY NatLessThanWellFounded, WFMin
<1>2. ASSUME NEW m \in T, NEW i \in T, ~(<<i, m>> \in OpToRel(<, Nat))
      PROVE  m <= i
    BY <1>2 DEF OpToRel
<1>. QED
    BY <1>1, <1>2 DEF Min

(* The bytes c_str() exposes, the payload's and the terminator, are naturals. *)
LEMMA CStrByteNat ==
    ASSUME NEW s \in Seq(Nat), NEW i \in Nat \ {0}
    PROVE  CStrByte(s, i) \in Nat
<1>1. CASE i <= Len(s)
    <2>1. s[i] \in Nat
        BY <1>1, ElementOfSeq
    <2>. QED
        BY <1>1, <2>1 DEF CStrByte
<1>2. CASE ~(i <= Len(s))
    BY <1>2 DEF CStrByte
<1>. QED
    BY <1>1, <1>2

(* A prefix of a sequence of naturals: its length and its elements.       *)
LEMMA PrefixOf ==
    ASSUME NEW s \in Seq(Nat), NEW n \in 0 .. Len(s)
    PROVE  /\ SubSeq(s, 1, n) \in Seq(Nat)
           /\ Len(SubSeq(s, 1, n)) = n
           /\ \A i \in 1 .. n : SubSeq(s, 1, n)[i] = s[i]
<1>1. \A i \in 1 .. n : s[i] \in Nat
    BY LenProperties
<1>. QED
    BY <1>1, SubSeqProperties

(* Two sequences agreeing on their first j elements have equal prefixes.  *)
LEMMA SamePrefix ==
    ASSUME NEW u \in Seq(Nat), NEW w \in Seq(Nat), NEW j \in Nat,
           j <= Len(u), j <= Len(w), \A i \in 1 .. j : u[i] = w[i]
    PROVE  SubSeq(u, 1, j) = SubSeq(w, 1, j)
<1>1. /\ SubSeq(u, 1, j) \in Seq(Nat) /\ Len(SubSeq(u, 1, j)) = j
      /\ \A i \in 1 .. j : SubSeq(u, 1, j)[i] = u[i]
    BY PrefixOf
<1>2. /\ SubSeq(w, 1, j) \in Seq(Nat) /\ Len(SubSeq(w, 1, j)) = j
      /\ \A i \in 1 .. j : SubSeq(w, 1, j)[i] = w[i]
    BY PrefixOf
<1>. QED
    BY <1>1, <1>2, SeqEqual

(* The C string of a payload is its prefix up to the first NUL, which     *)
(* exists because c_str() ends in one.                                      *)
LEMMA CStrShape ==
    ASSUME NEW s \in Seq(Nat)
    PROVE  \E z \in 1 .. Len(s) + 1 :
              /\ CStrByte(s, z) = 0
              /\ \A i \in 1 .. z - 1 : CStrByte(s, i) # 0
              /\ CStr(s) = SubSeq(s, 1, z - 1)
<1>. DEFINE Z == {i \in 1 .. Len(s) + 1 : CStrByte(s, i) = 0}
<1>1. Len(s) \in Nat
    BY LenProperties
<1>2. Z \in SUBSET Nat /\ Len(s) + 1 \in Z
    BY <1>1 DEF CStrByte
<1>3. Min(Z) \in Z /\ \A i \in Z : Min(Z) <= i
    BY <1>2, MinOfNats
<1>4. \A i \in 1 .. Min(Z) - 1 : CStrByte(s, i) # 0
    BY <1>1, <1>3
<1>. QED
    BY <1>3, <1>4 DEF CStr

(* strcmp stops at the first position where the C strings differ or the  *)
(* left one ends, and returns the byte difference there.                   *)
LEMMA StrcmpShape ==
    ASSUME NEW a, NEW b, ~a.null, ~b.null, a.v \in Seq(Nat), b.v \in Seq(Nat)
    PROVE  \E k \in 1 .. Len(a.v) + 1 :
              /\ CStrByte(a.v, k) # CStrByte(b.v, k) \/ CStrByte(a.v, k) = 0
              /\ \A i \in 1 .. k - 1 : CStrByte(a.v, i) = CStrByte(b.v, i)
                                     /\ CStrByte(a.v, i) # 0
              /\ StringValue_compare(a, b) = CStrByte(a.v, k) - CStrByte(b.v, k)
<1>. DEFINE D == {i \in 1 .. Len(a.v) + 1 :
                    CStrByte(a.v, i) # CStrByte(b.v, i) \/ CStrByte(a.v, i) = 0}
<1>1. Len(a.v) \in Nat
    BY LenProperties
<1>2. D \in SUBSET Nat /\ Len(a.v) + 1 \in D
    BY <1>1 DEF CStrByte
<1>3. Min(D) \in D /\ \A i \in D : Min(D) <= i
    BY <1>2, MinOfNats
<1>4. StringValue_compare(a, b) = CStrByte(a.v, Min(D)) - CStrByte(b.v, Min(D))
    BY DEF StringValue_compare
<1>5. ASSUME NEW i \in 1 .. Min(D) - 1
      PROVE  CStrByte(a.v, i) = CStrByte(b.v, i) /\ CStrByte(a.v, i) # 0
    <2>1. i \in 1 .. Len(a.v) + 1 /\ i < Min(D)
        BY <1>1, <1>3
    <2>2. i \notin D
        BY <2>1, <1>3
    <2>. QED
        BY <2>1, <2>2
<1>. QED
    BY <1>3, <1>4, <1>5

(* StringValue::compare orders two non-NULL byte strings as their C      *)
(* strings are ordered: split on the bytes at the position where strcmp   *)
(* stops, which is where one C string ends or the two first differ.       *)
LEMMA CStringOrder ==
    ASSUME NEW a, NEW b, ~a.null, ~b.null, a.v \in Seq(Nat), b.v \in Seq(Nat)
    PROVE  Sign(StringValue_compare(a, b)) = LexOrder(CStr(a.v), CStr(b.v))
<1>. DEFINE s == a.v
            t == b.v
            u == CStr(s)
            w == CStr(t)
<1>. USE DEF s, t, u, w
<1>1. PICK k \in 1 .. Len(s) + 1 :
          /\ CStrByte(s, k) # CStrByte(t, k) \/ CStrByte(s, k) = 0
          /\ \A i \in 1 .. k - 1 : CStrByte(s, i) = CStrByte(t, i)
                                 /\ CStrByte(s, i) # 0
          /\ StringValue_compare(a, b) = CStrByte(s, k) - CStrByte(t, k)
    BY StrcmpShape, SMTT(30)
<1>2. PICK zs \in 1 .. Len(s) + 1 :
          /\ CStrByte(s, zs) = 0
          /\ \A i \in 1 .. zs - 1 : CStrByte(s, i) # 0
          /\ u = SubSeq(s, 1, zs - 1)
    BY CStrShape, ZenonT(60)
<1>3. PICK zt \in 1 .. Len(t) + 1 :
          /\ CStrByte(t, zt) = 0
          /\ \A i \in 1 .. zt - 1 : CStrByte(t, i) # 0
          /\ w = SubSeq(t, 1, zt - 1)
    BY CStrShape, ZenonT(60)
<1>4. Len(s) \in Nat /\ Len(t) \in Nat
    BY LenProperties
<1>5. CStrByte(s, k) \in Nat /\ CStrByte(t, k) \in Nat
    BY CStrByteNat
<1>6. k <= zs /\ k <= zt
    BY <1>1, <1>2, <1>3, <1>4
<1>7. /\ u \in Seq(Nat) /\ Len(u) = zs - 1
      /\ \A i \in 1 .. zs - 1 : u[i] = CStrByte(s, i)
    BY <1>2, <1>4, PrefixOf DEF CStrByte
<1>8. /\ w \in Seq(Nat) /\ Len(w) = zt - 1
      /\ \A i \in 1 .. zt - 1 : w[i] = CStrByte(t, i)
    BY <1>3, <1>4, PrefixOf DEF CStrByte
<1>9. \A i \in 1 .. k - 1 : u[i] = w[i]
    BY <1>1, <1>6, <1>7, <1>8
<1>10. CASE CStrByte(s, k) = 0 /\ CStrByte(t, k) = 0
    <2>1. zs = k /\ zt = k
        BY <1>10, <1>1, <1>2, <1>3, <1>4, <1>6
    <2>2. u = w
        BY <2>1, <1>7, <1>8, <1>9, SeqEqual
    <2>. QED
        BY <2>2, <1>10, <1>1 DEF LexOrder, Sign
<1>11. CASE CStrByte(s, k) = 0 /\ CStrByte(t, k) # 0
    <2>1. zs = k /\ zt > k
        BY <1>11, <1>1, <1>2, <1>3, <1>4, <1>6
    <2>2. /\ SubSeq(w, 1, k - 1) \in Seq(Nat)
          /\ Len(SubSeq(w, 1, k - 1)) = k - 1
          /\ \A i \in 1 .. k - 1 : SubSeq(w, 1, k - 1)[i] = w[i]
        BY <2>1, <1>8, <1>4, PrefixOf
    <2>3. u = SubSeq(w, 1, Len(u))
        BY <2>1, <2>2, <1>7, <1>9, SeqEqual
    <2>4. Len(u) < Len(w)
        BY <2>1, <1>7, <1>8
    <2>5. LexOrder(u, w) = -1
        BY <2>3, <2>4 DEF LexOrder, LexLess
    <2>. QED
        BY <2>5, <1>11, <1>1, <1>5 DEF Sign
<1>12. CASE CStrByte(s, k) # 0 /\ CStrByte(t, k) = 0
    <2>1. zt = k /\ zs > k
        BY <1>12, <1>1, <1>2, <1>3, <1>4, <1>6
    <2>2. ~LexLess(u, w)
        <3>1. ~(Len(u) < Len(w))
            BY <2>1, <1>7, <1>8
        <3>2. ASSUME NEW i \in 1 .. Len(u), i <= Len(w), u[i] < w[i]
              PROVE  FALSE
            BY <3>2, <2>1, <1>7, <1>8, <1>9
        <3>. QED
            BY <3>1, <3>2 DEF LexLess
    <2>3. u # w
        BY <2>1, <1>7, <1>8
    <2>. QED
        BY <2>2, <2>3, <1>12, <1>1, <1>5 DEF LexOrder, Sign
<1>13. CASE CStrByte(s, k) # 0 /\ CStrByte(t, k) # 0
    <2>1. zs > k /\ zt > k /\ CStrByte(s, k) # CStrByte(t, k)
        BY <1>13, <1>1, <1>2, <1>3, <1>4, <1>6
    <2>2. k \in 1 .. zs - 1 /\ k \in 1 .. zt - 1
        BY <2>1, <1>4
    <2>6. u[k] = CStrByte(s, k) /\ w[k] = CStrByte(t, k) /\ k <= Len(u) /\ k <= Len(w)
        BY <2>2, <1>7, <1>8
    <2>3. u # w
        BY <2>1, <2>6
    <2>4. CASE CStrByte(s, k) < CStrByte(t, k)
        <3>1. SubSeq(u, 1, k - 1) = SubSeq(w, 1, k - 1)
            BY <2>6, <1>7, <1>8, <1>9, SamePrefix
        <3>2. LexLess(u, w)
            BY <3>1, <2>6, <2>4 DEF LexLess
        <3>. QED
            BY <3>2, <2>3, <2>4, <1>1, <1>5 DEF LexOrder, Sign
    <2>5. CASE CStrByte(t, k) < CStrByte(s, k)
        <3>1. ~(Len(u) < Len(w) /\ u = SubSeq(w, 1, Len(u)))
            <4>1. SUFFICES ASSUME Len(u) < Len(w), u = SubSeq(w, 1, Len(u))
                           PROVE  FALSE
                OBVIOUS
            <4>2. SubSeq(w, 1, Len(u))[k] = w[k]
                BY <2>6, <1>7, <1>8, <4>1, PrefixOf
            <4>. QED
                BY <4>1, <4>2, <2>1, <2>6
        <3>2. ASSUME NEW i \in 1 .. Len(u), i <= Len(w),
                     SubSeq(u, 1, i - 1) = SubSeq(w, 1, i - 1), u[i] < w[i]
              PROVE  FALSE
            <4>1. CASE i < k
                <5>1. u[i] = w[i] /\ u[i] \in Nat
                    BY <4>1, <3>2, <1>9, <1>7, ElementOfSeq
                <5>. QED
                    BY <5>1, <3>2
            <4>2. CASE i = k
                BY <4>2, <3>2, <2>6, <2>5, <1>5
            <4>3. CASE i > k
                <5>2. i - 1 \in 0 .. Len(u) /\ i - 1 \in 0 .. Len(w) /\ k \in 1 .. i - 1
                    BY <4>3, <3>2, <1>7, <1>8
                <5>3. SubSeq(u, 1, i - 1)[k] = u[k]
                    BY <5>2, <1>7, PrefixOf
                <5>4. SubSeq(w, 1, i - 1)[k] = w[k]
                    BY <5>2, <1>8, PrefixOf
                <5>1. SubSeq(u, 1, i - 1)[k] = u[k] /\ SubSeq(w, 1, i - 1)[k] = w[k]
                    BY <5>3, <5>4
                <5>. QED
                    BY <5>1, <3>2, <2>1, <2>6
            <4>. QED
                BY <4>1, <4>2, <4>3
        <3>3. ~LexLess(u, w)
            BY <3>1, <3>2 DEF LexLess
        <3>. QED
            BY <3>3, <2>3, <2>5, <1>1, <1>5 DEF LexOrder, Sign
    <2>. QED
        BY <2>1, <2>4, <2>5, <1>1, <1>5
<1>. QED
    BY <1>10, <1>11, <1>12, <1>13

(* Every compare call is made on two values of one column type.           *)
THEOREM OperandsTyped == Spec => []TypeOK
<1>1. Init => TypeOK
  BY DEF Init, TypeOK
<1>2. TypeOK /\ [Next]_vars => TypeOK'
  BY DEF TypeOK, Next, Compare, vars
<1>. QED
  BY <1>1, <1>2, PTL DEF Spec

(* FloatValue::compare is antisymmetric on non-NULL floats: the epsilon   *)
(* band -1e-6 < result < 1e-6 is symmetric about 0, and outside it the    *)
(* sign of the result flips with the operands.                             *)
THEOREM FloatAntisymmetric == Spec => []FloatCompareAntisymmetric
<1>1. TypeOK => FloatCompareAntisymmetric
  <2>. SUFFICES ASSUME TypeOK, kind = "float", ~x.null, ~y.null
                PROVE  Sign(FloatValue_compare(x, y)) = -Sign(FloatValue_compare(y, x))
    BY DEF FloatCompareAntisymmetric
  <2>1. x.v \in Int /\ y.v \in Int
    BY ValueAssumption DEF TypeOK, Operands
  <2>. QED
    BY <2>1 DEF FloatValue_compare, Sign, Eps
<1>. QED
  BY <1>1, OperandsTyped, PTL

(* StringValue::compare on non-NULL CHARS values is the byte-wise C-string *)
(* order, for every column width and byte alphabet: strcmp on c_str() stops *)
(* at the terminator, so the payload bytes after it never matter.           *)
THEOREM StringOrder == Spec => []StringCompareIsCStringOrder
<1>1. TypeOK => StringCompareIsCStringOrder
  <2>. SUFFICES ASSUME TypeOK, kind = "chars", ~x.null, ~y.null
                PROVE  Sign(StringValue_compare(x, y)) = LexOrder(CStr(x.v), CStr(y.v))
    BY DEF StringCompareIsCStringOrder
  <2>1. x.v \in [1 .. Width -> Bytes] /\ y.v \in [1 .. Width -> Bytes]
    BY DEF TypeOK, Operands
  <2>3. Width \in Nat /\ Bytes \subseteq Nat
    BY ValueAssumption
  <2>4. x.v \in [1 .. Width -> Nat] /\ y.v \in [1 .. Width -> Nat]
    BY <2>1, <2>3
  <2>2. x.v \in Seq(Nat) /\ y.v \in Seq(Nat)
    BY <2>3, <2>4, SeqDef
  <2>. QED
    BY <2>2, CStringOrder
<1>. QED
  BY <1>1, OperandsTyped, PTL
=============================================================================
