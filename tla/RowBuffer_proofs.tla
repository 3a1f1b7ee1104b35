-------------------------- MODULE RowBuffer_proofs --------------------------
(***************************************************************************)
(* The invariants of RowBuffer, for every length of a name, a value and a  *)
(* message, any number of columns and any number of rows.                  *)
(*                                                                         *)
(* They are invariant as they stand; what they need is arithmetic about    *)
(* the digits of the index: the next index takes at most one digit more,   *)
(* and the index before the first row, -1, takes at least three.           *)
(***************************************************************************)
EXTENDS RowBuffer, Recursion, SequenceTheorems

\* The table of sizes is the one its recursive definition describes.
LEMMA SizeOfIntegerIs ==
    sizeOfInteger = [n \in 0 .. IndexSpace |->
                         IF n < 10 THEN 1 ELSE 1 + sizeOfInteger[n \div 10]]
  <1> DEFINE D == 0 .. IndexSpace
             one == [n \in 0 .. 9 |-> 1]
             plus == [vn \in Nat \X Nat |-> 1 + vn[1]]
             Sizes(f) == f = [n \in D |-> IF n < 10 THEN 1 ELSE 1 + f[n \div 10]]
  <1>1. D \in SUBSET Nat /\ \A n \in D : n >= 10 => n \div 10 \in D
    BY RowBufferAssumption, TenthIsLess
  <1>2. one \in [0 .. 9 -> Nat] /\ plus \in [Nat \X Nat -> Nat]
    OBVIOUS
  <1> HIDE DEF D, one, plus
  <1>3. PICK f \in [D -> Nat] : OverTenths(f, D, one, plus)
    BY <1>1, <1>2, TenthsExist
  <1>5. Sizes(f)
    <2>1. ASSUME NEW n \in D
          PROVE  (IF n < 10 THEN one[n] ELSE plus[<<f[n \div 10], n>>])
                     = IF n < 10 THEN 1 ELSE 1 + f[n \div 10]
      <3>1. CASE n < 10
        BY <1>1, <3>1 DEF one
      <3>2. CASE n >= 10
        <4>1. f[n \div 10] \in Nat /\ n \in Nat
          BY <1>1, <3>2
        <4> QED
          BY <1>1, <3>2, <4>1 DEF plus
      <3> QED
        BY <1>1, <3>1, <3>2
    <2> QED
      BY <1>3, <2>1 DEF OverTenths
  <1>6. Sizes(CHOOSE g : Sizes(g))
    <2> HIDE DEF Sizes
    <2> QED
      BY <1>5
  <1> QED
    BY <1>6 DEF sizeOfInteger, D

\* A number takes one digit or more; from 100 on three or more; and its
\* successor at most one more.
LEMMA DigitsOf ==
    /\ sizeOfInteger \in [0 .. IndexSpace -> Nat \ {0}]
    /\ \A n \in 0 .. IndexSpace : n < 10 => sizeOfInteger[n] = 1
    /\ \A n \in 100 .. IndexSpace : sizeOfInteger[n] >= 3
    /\ \A n \in 0 .. IndexSpace - 1 : sizeOfInteger[n + 1] <= sizeOfInteger[n] + 1
  <1> DEFINE D == 0 .. IndexSpace
             Size == sizeOfInteger
  <1>1. \A n \in D : /\ n \in Nat
                     /\ Size[n] = IF n < 10 THEN 1 ELSE 1 + Size[n \div 10]
                     /\ n >= 10 => n \div 10 \in D /\ n \div 10 < n
    BY SizeOfIntegerIs, RowBufferAssumption, TenthIsLess
  <1> HIDE DEF Size
  <1> DEFINE Typed == {m \in Nat : m \in D => Size[m] \in Nat \ {0}}
  <1>2. \A n \in Nat : n \in Typed
    <2>1. ASSUME NEW n \in Nat, \A m \in Nat : m < n => m \in Typed PROVE n \in Typed
      <3> SUFFICES ASSUME n \in D PROVE Size[n] \in Nat \ {0}
        OBVIOUS
      <3>1. n >= 10 => Size[n \div 10] \in Nat \ {0}
        BY <1>1, <2>1
      <3> HIDE DEF D
      <3> QED
        BY <1>1, <3>1
    <2> HIDE DEF Typed
    <2> QED
      BY <2>1, SetInductionAll
  <1>3. Size \in [D -> Nat \ {0}]
    <2>1. Size = [n \in D |-> Size[n]]
      BY SizeOfIntegerIs DEF Size
    <2> QED
      BY <1>1, <1>2, <2>1
  <1>4. ASSUME NEW n \in 100 .. IndexSpace PROVE Size[n] >= 3
    <2>1. n \in D /\ n >= 10 /\ n \div 10 \in D /\ n \div 10 >= 10
      BY <1>1, RowBufferAssumption
    <2>2. Size[n] = 1 + Size[n \div 10]
      BY <1>1, <2>1
    <2>3. Size[n \div 10] = 1 + Size[(n \div 10) \div 10] /\ (n \div 10) \div 10 \in D
      BY <1>1, <2>1
    <2>4. Size[(n \div 10) \div 10] \in Nat \ {0}
      BY <1>3, <2>3
    <2> QED
      BY <2>2, <2>3, <2>4
  <1> DEFINE Close == {m \in Nat : m + 1 \in D => Size[m + 1] <= Size[m] + 1}
  <1>5. \A n \in Nat : n \in Close
    <2>1. ASSUME NEW n \in Nat, \A m \in Nat : m < n => m \in Close PROVE n \in Close
      <3> SUFFICES ASSUME n + 1 \in D PROVE Size[n + 1] <= Size[n] + 1
        OBVIOUS
      <3>1. n \in D /\ Size[n] \in Nat \ {0} /\ Size[n + 1] \in Nat \ {0}
        BY <1>3, RowBufferAssumption
      <3>2. CASE n + 1 < 10
        BY <1>1, <3>1, <3>2
      <3>3. CASE n + 1 = 10
        <4>1. Size[10] = 1 + Size[10 \div 10] /\ 10 \div 10 = 1 /\ 1 \in D
          BY <1>1, <3>3
        <4>2. Size[1] = 1 /\ Size[n] = 1
          BY <1>1, <3>1, <3>3, <4>1
        <4> QED
          BY <3>3, <4>1, <4>2
      <3>4. CASE n >= 10
        <4> DEFINE t == n \div 10
        <4>1. t \in Nat /\ t < n /\ t \in D /\ ((n + 1) \div 10 = t \/ (n + 1) \div 10 = t + 1)
          BY <1>1, <3>1, <3>4
        <4>2. (n + 1) \div 10 \in D
          BY <1>1, <3>4
        <4>3. Size[t] \in Nat /\ Size[(n + 1) \div 10] \in Nat
          BY <1>3, <4>1, <4>2
        <4>4. Size[n] = 1 + Size[t] /\ Size[n + 1] = 1 + Size[(n + 1) \div 10]
          BY <1>1, <3>1, <3>4
        <4>5. Size[(n + 1) \div 10] <= Size[t] + 1
          <5> HIDE DEF t
          <5> QED
            BY <2>1, <4>1, <4>2, <4>3
        <4> HIDE DEF t
        <4> QED
          BY <4>3, <4>4, <4>5
      <3> QED
        BY <3>2, <3>3, <3>4
    <2> HIDE DEF Close
    <2> QED
      BY <2>1, SetInductionAll
  <1>6. ASSUME NEW n \in 0 .. IndexSpace - 1 PROVE Size[n + 1] <= Size[n] + 1
    <2>1. n \in Nat /\ n + 1 \in D
      BY RowBufferAssumption
    <2> QED
      BY <1>5, <2>1
  <1>7. \A n \in D : n < 10 => Size[n] = 1
    BY <1>1
  <1> QED
    BY <1>3, <1>4, <1>6, <1>7 DEF Size

\* A column takes some bytes, and so do columns.
LEMMA ColumnLengthType ==
    ASSUME NEW c \in Columns PROVE ColumnLength(c) \in Nat
  <1>1. c.name \in Nat /\ c.value \in 0 .. IndexSpace
    BY RowBufferAssumption DEF Columns
  <1>2. sizeOfInteger[c.value] \in Nat
    BY <1>1, DigitsOf
  <1> QED
    BY <1>1, <1>2, RowBufferAssumption DEF ColumnLength

\* The columns are measured one after the other.
LEMMA ColumnsLengthIs ==
    ASSUME NEW cs \in Seq(Columns)
    PROVE  \E sum \in [0 .. Len(cs) -> Nat] :
               /\ sum[0] = 0
               /\ \A k \in 1 .. Len(cs) : sum[k] = sum[k - 1] + ColumnLength(cs[k])
               /\ ColumnsLength(cs) = sum[Len(cs)]
  <1> DEFINE n == Len(cs)
             L(k) == ColumnLength(cs[k])
             step == [ak \in Nat \X (1 .. n) |-> ak[1] + L(ak[2])]
             Adds(f) == f = [s \in SUBSET (1 .. n) |->
                                 IF s = {} THEN 0 ELSE f[s \ {Max(s)}] + L(Max(s))]
             g == CHOOSE f : Adds(f)
             sum == [k \in 0 .. n |-> g[1 .. k]]
  <1>1. n \in Nat /\ DOMAIN cs = 1 .. n
    BY LenProperties
  <1>2. \A k \in 1 .. n : L(k) \in Nat
    BY ColumnLengthType, LenProperties
  <1> HIDE DEF n, L
  <1>3. ColumnsLength(cs) = g[1 .. n]
    BY <1>1 DEF ColumnsLength, FoldLeft, MapThenFoldSet, L
  <1>4. \E f : Adds(f)
    <2>1. step \in [Nat \X (1 .. n) -> Nat]
      BY <1>2
    <2>2. PICK f \in [SUBSET (1 .. n) -> Nat] : IsFold(f, n, 0, step)
      <3> HIDE DEF step
      <3> QED
        BY <1>1, <2>1, FoldExists
    <2>3. ASSUME NEW s \in SUBSET (1 .. n), s # {}
          PROVE  step[<<f[s \ {Max(s)}], Max(s)>>] = f[s \ {Max(s)}] + L(Max(s))
      <3>1. Max(s) \in 1 .. n /\ f[s \ {Max(s)}] \in Nat
        BY <1>1, <2>3, MaxUpTo
      <3> QED
        BY <3>1
    <2>4. Adds(f)
      <3> HIDE DEF step
      <3> QED
        BY <2>2, <2>3 DEF IsFold
    <2> HIDE DEF Adds
    <2> QED
      BY <2>4
  <1>5. Adds(g)
    <2> HIDE DEF Adds
    <2> QED
      BY <1>4
  <1> HIDE DEF g
  <1>6. g[1 .. 0] = 0 /\ \A k \in 1 .. n : g[1 .. k] = g[1 .. k - 1] + L(k)
    <2>1. 1 .. 0 = {} /\ 1 .. 0 \in SUBSET (1 .. n)
      BY \A x \in 1 .. 0 : FALSE
    <2>2. g[1 .. 0] = 0
      BY <1>5, <2>1
    <2>3. ASSUME NEW k \in 1 .. n PROVE g[1 .. k] = g[1 .. k - 1] + L(k)
      <3>1. Max(1 .. k) = k /\ (1 .. k) \ {k} = 1 .. k - 1 /\ 1 .. k \in SUBSET (1 .. n) /\ k \in 1 .. k
        BY <1>1, MaxUpTo
      <3> QED
        BY <1>5, <3>1
    <2> QED
      BY <2>2, <2>3
  <1> HIDE DEF Adds
  <1> DEFINE Typed == {k \in 0 .. n : g[1 .. k] \in Nat}
  <1>7. \A k \in 0 .. n : k \in Typed
    <2>1. 0 \in Typed
      BY <1>1, <1>6
    <2>2. ASSUME NEW k \in 1 .. n, k - 1 \in Typed PROVE k \in Typed
      BY <1>2, <1>6, <2>2
    <2> HIDE DEF Typed
    <2> QED
      BY <1>1, <2>1, <2>2, SetInductionTo
  <1>8. sum \in [0 .. n -> Nat] /\ sum[0] = 0 /\ sum[n] = ColumnsLength(cs)
    BY <1>1, <1>3, <1>6, <1>7
  <1>9. \A k \in 1 .. n : sum[k] = sum[k - 1] + L(k)
    BY <1>1, <1>6
  <1> HIDE DEF sum
  <1> QED
    BY <1>8, <1>9 DEF n, L

-----------------------------------------------------------------------------
(* The invariants.                                                         *)

Inv == TypeOK /\ ShortByThree /\ FirstRowFits

\* new_dynp provides what was asked for or says that it did not.
LEMMA Grows ==
    ASSUME Inv, NEW request \in Nat, NewDynp(request)
    PROVE  /\ size' \in Nat /\ size' >= size /\ granted' \in BOOLEAN
           /\ granted' => size' >= request
  <1>1. size \in Nat
    BY DEF Inv, TypeOK
  <1>2. Max({size, request}) \in {size, request}
        /\ \A n \in {size, request} : Max({size, request}) >= n
    <2>1. \E m \in {size, request} : \A y \in {size, request} : m >= y
      BY <1>1
    <2> QED
      BY <2>1, Zenon DEF Max
  <1>3. CASE size' = Max({size, request}) /\ granted' = TRUE
    <2>1. size' \in Nat /\ size' >= size /\ size' >= request
      BY <1>1, <1>2, <1>3
    <2> QED
      BY <1>3, <2>1, Zenon
  <1>4. CASE granted' = FALSE /\ UNCHANGED size
    <2>1. size' \in Nat /\ size' >= size
      BY <1>1, <1>4
    <2> QED
      BY <1>4, <2>1, Zenon
  <1> QED
    BY <1>3, <1>4, Zenon DEF NewDynp

\* The first size of the buffer satisfies the invariant.
LEMMA InitInv == Init => Inv
  BY RowBufferAssumption DEF Init, Inv, TypeOK, ShortByThree, FirstRowFits

\* A row, written or aborted, keeps it: the index grows by one at most.
LEMMA RowInv ==
    ASSUME Inv, NEW cs \in Seq(Columns), WriteRow(cs) PROVE Inv'
  <1> DEFINE columns == ColumnsLength(cs)
             before == sizeOfInteger[rowIndex]
             after == sizeOfInteger[rowIndex']
  <1>1. columns \in Nat
    BY ColumnsLengthIs, LenProperties
  <1>2. rowIndex \in 0 .. IndexSpace - 1 /\ size \in Nat /\ size >= DefaultSize
    BY DEF Inv, TypeOK
  <1>3. /\ rowIndex' \in 0 .. IndexSpace - 1
        /\ rowIndex = IndexSpace - 1 => rowIndex' = 0
        /\ rowIndex # IndexSpace - 1 => rowIndex' = rowIndex + 1
        /\ rowIndex' = 0 => rowIndex = IndexSpace - 1
    BY <1>2, RowBufferAssumption DEF WriteRow
  <1>4. before \in Nat \ {0} /\ after \in Nat \ {0} /\ after <= before + 1
    <2>1. rowIndex \in 0 .. IndexSpace /\ rowIndex' \in 0 .. IndexSpace
      BY <1>2, <1>3, RowBufferAssumption
    <2>2. before \in Nat \ {0} /\ after \in Nat \ {0}
      BY <2>1, DigitsOf
    <2>3. CASE rowIndex' = 0
      <3>1. after = 1
        BY <2>1, <2>3, DigitsOf
      <3> QED
        BY <2>2, <3>1
    <2>4. CASE rowIndex' # 0
      <3>1. rowIndex' = rowIndex + 1
        BY <1>3, <2>4
      <3> QED
        BY <1>2, <2>2, <3>1, DigitsOf
    <2> QED
      BY <2>3, <2>4
  <1>5. rowIndex' = 0 => before >= 3 /\ after = 1
    <2> SUFFICES ASSUME rowIndex' = 0 PROVE before >= 3 /\ after = 1
      OBVIOUS
    <2>1. rowIndex \in 100 .. IndexSpace /\ rowIndex' \in 0 .. IndexSpace
      BY <1>2, <1>3, RowBufferAssumption
    <2> QED
      BY <2>1, DigitsOf
  <1> HIDE DEF columns, before, after
  <1>6. /\ RowLength(rowIndex, cs) = before + 1 + columns
        /\ written' = after + columns + 3 /\ writer' = "row"
        /\ NewDynp(RowLength(rowIndex, cs))
    BY <1>1, <1>4 DEF WriteRow, RowLength, RowWritten, columns, before, after
  <1>7. size' \in Nat /\ size' >= size /\ granted' \in BOOLEAN
        /\ (granted' => size' >= before + 1 + columns)
    BY <1>1, <1>4, <1>6, Grows
  <1>8. TypeOK'
    BY <1>1, <1>2, <1>3, <1>4, <1>6, <1>7, RowBufferAssumption DEF TypeOK
  <1>9. ShortByThree'
    <2> SUFFICES ASSUME granted'
                 PROVE  written' <= size' + (IF GainsDigit(rowIndex)' THEN 3 ELSE 2)
      BY DEF ShortByThree
    <2>1. size' \in Nat /\ size' >= before + 1 + columns
      BY <1>7
    <2>2. written' = after + columns + 3
      BY <1>6
    <2>0. /\ written' \in Int /\ after \in Int /\ before \in Int
          /\ columns \in Int /\ size' \in Int
      BY <1>1, <1>4, <2>1, <2>2
    <2>3. CASE GainsDigit(rowIndex)'
      <3>1. \A a, b, n, s, w \in Int :
                a <= b + 1 /\ s >= b + 1 + n /\ w = a + n + 3 => w <= s + 3
        OBVIOUS
      <3>2. written' <= size' + 3
        BY <1>4, <2>0, <2>1, <2>2, <3>1
      <3> QED
        BY <2>3, <3>2
    <2>4. CASE ~GainsDigit(rowIndex)'
      <3>1. after <= before
        <4>1. CASE rowIndex' = 0
          BY <1>4, <1>5, <4>1
        <4>2. CASE rowIndex' # 0
          <5>0. rowIndex \in Nat /\ rowIndex' = rowIndex + 1
            BY <1>2, <1>3, <4>2, RowBufferAssumption
          <5>1. rowIndex' > 0 /\ rowIndex = rowIndex' - 1
            BY <5>0
          <5>2. ~(after > before)
            BY <2>4, <5>1, Zenon DEF GainsDigit, after, before
          <5> QED
            BY <1>4, <5>2
        <4> QED
          BY <4>1, <4>2
      <3>2. \A a, b, n, s, w \in Int :
                a <= b /\ s >= b + 1 + n /\ w = a + n + 3 => w <= s + 2
        OBVIOUS
      <3>3. written' <= size' + 2
        <4>1. size' >= before + 1 + columns
          BY <2>1
        <4> QED
          BY <2>0, <2>2, <3>1, <3>2, <4>1, Zenon
      <3> QED
        BY <2>4, <3>3
    <2> QED
      BY <2>3, <2>4
  <1>10. FirstRowFits'
    <2>1. size' >= before + 1 + columns /\ rowIndex' = 0 => written' <= size'
      BY <1>1, <1>4, <1>5, <1>6, <1>7
    <2> QED
      BY <1>7, <2>1, Zenon DEF FirstRowFits
  <1> QED
    BY <1>8, <1>9, <1>10 DEF Inv

\* So does an exception.
LEMMA ExceptionInv ==
    ASSUME Inv, NEW length \in MessageLengths, WriteException(length) PROVE Inv'
  <1> DEFINE request == 10 + length + 1
  <1>1. request \in Nat
    BY RowBufferAssumption
  <1> HIDE DEF request
  <1>2. size' \in Nat /\ size' >= size /\ granted' \in BOOLEAN
    BY <1>1, Grows DEF WriteException, request
  <1>3. written' = Min({size', request}) /\ writer' = "exception" /\ rowIndex' = rowIndex
    BY DEF WriteException, request
  <1>4. Min({size', request}) \in {size', request} /\ Min({size', request}) <= size'
    <2>1. \E m \in {size', request} : \A y \in {size', request} : m <= y
      BY <1>1, <1>2
    <2>2. Min({size', request}) \in {size', request}
          /\ \A y \in {size', request} : Min({size', request}) <= y
      BY <2>1, Zenon DEF Min
    <2> QED
      BY <2>2
  <1>5. written' \in Nat /\ written' <= size' /\ written' <= size' + 3
    BY <1>1, <1>2, <1>3, <1>4
  <1>6. TypeOK'
    BY <1>2, <1>3, <1>5, RowBufferAssumption DEF Inv, TypeOK
  <1> QED
    <2>1. written' <= size' + (IF GainsDigit(rowIndex)' THEN 3 ELSE 2)
      <3>0. \A s, w \in Nat : w <= s => w <= s + 2 /\ w <= s + 3
        OBVIOUS
      <3>1. written' <= size' + 2 /\ written' <= size' + 3
        BY <1>2, <1>5, <3>0
      <3> QED
        BY <3>1, Zenon
    <2> QED
      BY <1>3, <1>5, <1>6, <2>1, Zenon DEF Inv, ShortByThree, FirstRowFits

\* Every step keeps the invariant.
LEMMA NextInv == Inv /\ [Next]_vars => Inv'
  <1> SUFFICES ASSUME Inv, [Next]_vars PROVE Inv'
    OBVIOUS
  <1>1. CASE ExecStart
    BY <1>1, RowBufferAssumption DEF ExecStart, Inv, TypeOK, ShortByThree, FirstRowFits
  <1>2. ASSUME NEW cs \in BoundedSeq(Columns, MaxColumns), WriteRow(cs) PROVE Inv'
    <2>1. cs \in Seq(Columns)
      BY RowBufferAssumption DEF BoundedSeq, SeqOf
    <2> QED
      BY <1>2, <2>1, RowInv
  <1>3. ASSUME NEW length \in MessageLengths, WriteException(length) PROVE Inv'
    BY <1>3, ExceptionInv
  <1>4. CASE UNCHANGED vars
    BY <1>4 DEF vars, Inv, TypeOK, ShortByThree, FirstRowFits
  <1> QED
    BY <1>1, <1>2, <1>3, <1>4 DEF Next

\* It holds for ever.
LEMMA Invariant == Spec => []Inv
  BY InitInv, NextInv, PTL DEF Spec

\* The buffer never shrinks below its first size, whatever realloc answers.
THEOREM TypeCorrect == Spec => []TypeOK
  <1>1. Inv => TypeOK
    BY DEF Inv
  <1> QED
    BY Invariant, <1>1, PTL

\* No row of any query is measured more than two bytes short, unless its index
\* gains a digit; then three.
THEOREM AtMostThreeShort == Spec => []ShortByThree
  <1>1. Inv => ShortByThree
    BY DEF Inv
  <1> QED
    BY Invariant, <1>1, PTL

\* The first row of a query never runs over what was allocated for it.
THEOREM FirstRowAlwaysFits == Spec => []FirstRowFits
  <1>1. Inv => FirstRowFits
    BY DEF Inv
  <1> QED
    BY Invariant, <1>1, PTL
=============================================================================
