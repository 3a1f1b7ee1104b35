-------------------------- MODULE RowCodec_proofs --------------------------
(***************************************************************************)
(* What the callback writes, parseExecRow reads, for rows of any columns:  *)
(* ReadBackIffCarried, whatever the names, the values and the index are.   *)
(*                                                                         *)
(* The parser is at the first unit of a column as long as every column     *)
(* before it could be carried, and has then added these columns.  The      *)
(* first that cannot be carried is added altered, or the parser throws     *)
(* there; either way the row is lost, because a column added stays.        *)
(***************************************************************************)
EXTENDS RowCodec, Recursion, SequenceTheorems

DigitSet == {"0", "1", "2", "3", "4", "5", "6", "7", "8", "9"}

\* The units of an encoded row.
Alphabet == Units \cup DigitSet \cup {"=", ":", ",", "\n"}

DigitValue(c) == CHOOSE d \in 0 .. 9 : Digits[d + 1] = c

-----------------------------------------------------------------------------
(* Numbers in text.                                                        *)

LEMMA DigitsAre ==
    /\ \A d \in 0 .. 9 : Digits[d + 1] \in DigitSet /\ DigitValue(Digits[d + 1]) = d
    /\ \A c \in DigitSet : DigitValue(c) \in 0 .. 9 /\ Contains(Digits, c)
    /\ \A c : Contains(Digits, c) => c \in DigitSet
    /\ "=" \notin DigitSet /\ ":" \notin DigitSet /\ "," \notin DigitSet
  <1>1. /\ Digits[1] = "0" /\ Digits[2] = "1" /\ Digits[3] = "2" /\ Digits[4] = "3"
        /\ Digits[5] = "4" /\ Digits[6] = "5" /\ Digits[7] = "6" /\ Digits[8] = "7"
        /\ Digits[9] = "8" /\ Digits[10] = "9" /\ Len(Digits) = 10
    BY DEF Digits
  <1>2. \A d \in 0 .. 9 : d = 0 \/ d = 1 \/ d = 2 \/ d = 3 \/ d = 4
                          \/ d = 5 \/ d = 6 \/ d = 7 \/ d = 8 \/ d = 9
    OBVIOUS
  <1>3. \A d \in 0 .. 9 : Digits[d + 1] \in DigitSet
    BY <1>1, <1>2 DEF DigitSet
  <1>4. \A d, e \in 0 .. 9 : Digits[d + 1] = Digits[e + 1] => d = e
    BY <1>1, <1>2
  <1>5. \A c \in DigitSet : \E d \in 0 .. 9 : Digits[d + 1] = c
    BY <1>1 DEF DigitSet
  <1>6. \A c \in DigitSet : DigitValue(c) \in 0 .. 9 /\ Digits[DigitValue(c) + 1] = c
    BY <1>5 DEF DigitValue
  <1>7. \A d \in 0 .. 9 : DigitValue(Digits[d + 1]) = d
    BY <1>3, <1>4, <1>6
  <1>8. \A c \in DigitSet : Contains(Digits, c)
    <2> TAKE c \in DigitSet
    <2>1. DigitValue(c) + 1 \in 1 .. Len(Digits) /\ Digits[DigitValue(c) + 1] = c
      BY <1>1, <1>6
    <2> QED
      BY <2>1 DEF Contains
  <1>9. ASSUME NEW c, Contains(Digits, c) PROVE c \in DigitSet
    <2>1. PICK i \in 1 .. Len(Digits) : Digits[i] = c
      BY <1>9 DEF Contains
    <2>2. i - 1 \in 0 .. 9 /\ (i - 1) + 1 = i
      BY <1>1, <2>1
    <2> QED
      BY <1>3, <2>1, <2>2
  <1>10. "=" \notin DigitSet /\ ":" \notin DigitSet /\ "," \notin DigitSet
    BY DEF DigitSet
  <1> QED
    BY <1>3, <1>6, <1>7, <1>8, <1>9, <1>10

\* The writer of numbers is the function its definition describes.
LEMMA DecimalIs ==
    /\ Decimal \in [Nat -> Seq(DigitSet)]
    /\ \A n \in Nat : n < 10 => Decimal[n] = <<Digits[n + 1]>>
    /\ \A n \in Nat :
           ~(n < 10) => Decimal[n] = Append(Decimal[n \div 10], Digits[(n % 10) + 1])
  <1> DEFINE V == Seq(DigitSet)
             only(n) == <<Digits[n + 1]>>
             last(n) == Digits[(n % 10) + 1]
             tenth(n) == n \div 10
             one == [n \in 0 .. 9 |-> only(n)]
             more == [vn \in V \X Nat |-> Append(vn[1], last(vn[2]))]
             Prints(f) == f = [n \in Nat |-> IF n < 10 THEN only(n)
                                             ELSE Append(f[tenth(n)], last(n))]
  <1>1. \A n \in Nat : tenth(n) \in Nat /\ last(n) \in DigitSet /\ (n >= 10 => tenth(n) < n)
    BY TenthIsLess, DigitsAre
  <1>2. one \in [0 .. 9 -> V]
    <2>1. \A n \in 0 .. 9 : Digits[n + 1] \in DigitSet
      BY DigitsAre
    <2> QED
      BY <2>1
  <1>3. more \in [V \X Nat -> V]
    <2> HIDE DEF last
    <2>1. \A v \in V, n \in Nat : Append(v, last(n)) \in V
      BY <1>1, AppendProperties
    <2> QED
      BY <2>1
  <1>4. \A n \in Nat : n < 10 => n \in 0 .. 9 /\ one[n] = only(n)
    OBVIOUS
  <1> HIDE DEF last, tenth, only
  <1>5. \A v \in V, n \in Nat : more[<<v, n>>] = Append(v, last(n))
    OBVIOUS
  <1> HIDE DEF V, one, more
  <1>6. PICK f \in [Nat -> V] : OverTenths(f, Nat, one, more)
    BY <1>1, <1>2, <1>3, TenthsExist DEF tenth
  <1>7. Prints(f)
    <2>1. ASSUME NEW n \in Nat
          PROVE  (IF n < 10 THEN one[n] ELSE more[<<f[tenth(n)], n>>])
                     = IF n < 10 THEN only(n) ELSE Append(f[tenth(n)], last(n))
      <3>1. CASE n < 10
        BY <1>4, <3>1
      <3>2. CASE n >= 10
        <4>1. f[tenth(n)] \in V /\ ~(n < 10)
          BY <1>1, <1>6, <3>2
        <4>2. more[<<f[tenth(n)], n>>] = Append(f[tenth(n)], last(n))
          BY <1>5, <4>1, Zenon
        <4> QED
          BY <4>1, <4>2, Zenon
      <3> QED
        BY <3>1, <3>2
    <2> QED
      BY <1>6, <2>1 DEF OverTenths, tenth
  <1>8. Prints(Decimal)
    <2>1. Prints(CHOOSE g : Prints(g))
      <3> HIDE DEF Prints
      <3> QED
        BY <1>7
    <2> QED
      BY <2>1 DEF Decimal, only, last, tenth
  <1>9. \A n \in Nat : Decimal[n] = IF n < 10 THEN only(n) ELSE Append(Decimal[tenth(n)], last(n))
    BY <1>8
  <1> DEFINE Typed == {n \in Nat : Decimal[n] \in V}
  <1>10. \A n \in Nat : n \in Typed
    <2>1. ASSUME NEW n \in Nat, \A m \in Nat : m < n => m \in Typed PROVE n \in Typed
      <3>1. CASE n < 10
        <4>1. Decimal[n] = one[n] /\ n \in 0 .. 9
          BY <1>4, <1>9, <3>1
        <4> QED
          BY <1>2, <4>1
      <3>2. CASE n >= 10
        <4>1. tenth(n) \in Nat /\ tenth(n) < n
          BY <1>1, <3>2
        <4>2. Decimal[tenth(n)] \in V
          BY <2>1, <4>1
        <4>3. ~(n < 10)
          BY <3>2
        <4>4. more[<<Decimal[tenth(n)], n>>] = Append(Decimal[tenth(n)], last(n))
          BY <1>5, <4>2, Zenon
        <4>5. Decimal[n] = more[<<Decimal[tenth(n)], n>>]
          BY <1>9, <4>3, <4>4, Zenon
        <4> QED
          BY <1>3, <4>2, <4>5
      <3> QED
        BY <3>1, <3>2
    <2> HIDE DEF Typed
    <2> QED
      BY <2>1, SetInductionAll
  <1>11. Decimal = [n \in Nat |-> Decimal[n]]
    BY <1>8
  <1>12. Decimal \in [Nat -> V]
    BY <1>10, <1>11
  <1>13. \A n \in Nat : n < 10 => Decimal[n] = only(n)
    BY <1>9, Zenon
  <1>14. \A n \in Nat : ~(n < 10) => Decimal[n] = Append(Decimal[tenth(n)], last(n))
    BY <1>9, Zenon
  <1> QED
    BY <1>12, <1>13, <1>14 DEF V, only, last, tenth

\* A text of digits is read digit by digit.
LEMMA ParseIntIs ==
    ASSUME NEW text \in Seq(DigitSet)
    PROVE  \E sum \in [0 .. Len(text) -> Nat] :
               /\ sum[0] = 0
               /\ \A k \in 1 .. Len(text) : sum[k] = 10 * sum[k - 1] + DigitValue(text[k])
               /\ ParseInt(text) = sum[Len(text)]
  <1> DEFINE n == Len(text)
             L(k) == DigitValue(text[k])
             step == [ak \in Nat \X (1 .. n) |-> 10 * ak[1] + L(ak[2])]
             Adds(f) == f = [s \in SUBSET (1 .. n) |->
                                 IF s = {} THEN 0 ELSE 10 * f[s \ {Max(s)}] + L(Max(s))]
             g == CHOOSE f : Adds(f)
             sum == [k \in 0 .. n |-> g[1 .. k]]
  <1>1. n \in Nat /\ DOMAIN text = 1 .. n
    BY LenProperties
  <1>2. \A k \in 1 .. n : L(k) \in Nat
    <2>1. \A k \in 1 .. n : text[k] \in DigitSet
      BY ElementOfSeq
    <2>2. \A c \in DigitSet : DigitValue(c) \in Nat
      <3>1. \A c \in DigitSet : DigitValue(c) \in 0 .. 9
        BY DigitsAre, Zenon
      <3> QED
        BY <3>1
    <2> QED
      BY <2>1, <2>2, Zenon
  <1> HIDE DEF n, L
  <1>3. ParseInt(text) = g[1 .. n]
    BY <1>1 DEF ParseInt, FoldLeft, MapThenFoldSet, DigitValue, L
  <1>4. \E f : Adds(f)
    <2>1. step \in [Nat \X (1 .. n) -> Nat]
      BY <1>2
    <2>2. PICK f \in [SUBSET (1 .. n) -> Nat] : IsFold(f, n, 0, step)
      <3> HIDE DEF step
      <3> QED
        BY <1>1, <2>1, FoldExists
    <2>3. ASSUME NEW s \in SUBSET (1 .. n), s # {}
          PROVE  step[<<f[s \ {Max(s)}], Max(s)>>] = 10 * f[s \ {Max(s)}] + L(Max(s))
      <3>1. Max(s) \in 1 .. n /\ f[s \ {Max(s)}] \in Nat
        BY <1>1, <2>3, MaxUpTo
      <3> QED
        BY <3>1
    <2>4. Adds(f)
      <3> HIDE DEF step
      <3> QED
        BY <2>2, <2>3 DEF IsFold
    <2> HIDE DEF Adds
    <2> QED
      BY <2>4
  <1>5. Adds(g)
    <2> HIDE DEF Adds
    <2> QED
      BY <1>4
  <1> HIDE DEF g
  <1>6. g[1 .. 0] = 0 /\ \A k \in 1 .. n : g[1 .. k] = 10 * g[1 .. k - 1] + L(k)
    <2>1. 1 .. 0 = {} /\ 1 .. 0 \in SUBSET (1 .. n)
      BY \A x \in 1 .. 0 : FALSE
    <2>2. g[1 .. 0] = 0
      BY <1>5, <2>1
    <2>3. ASSUME NEW k \in 1 .. n PROVE g[1 .. k] = 10 * g[1 .. k - 1] + L(k)
      <3>1. Max(1 .. k) = k /\ (1 .. k) \ {k} = 1 .. k - 1 /\ 1 .. k \in SUBSET (1 .. n) /\ k \in 1 .. k
        BY <1>1, MaxUpTo
      <3> QED
        BY <1>5, <3>1
    <2> QED
      BY <2>2, <2>3
  <1> HIDE DEF Adds
  <1> DEFINE Typed == {k \in 0 .. n : g[1 .. k] \in Nat}
  <1>7. \A k \in 0 .. n : k \in Typed
    <2>1. 0 \in Typed
      BY <1>1, <1>6
    <2>2. ASSUME NEW k \in 1 .. n, k - 1 \in Typed PROVE k \in Typed
      BY <1>2, <1>6, <2>2
    <2> HIDE DEF Typed
    <2> QED
      BY <1>1, <2>1, <2>2, SetInductionTo
  <1>8. sum \in [0 .. n -> Nat] /\ sum[0] = 0 /\ sum[n] = ParseInt(text)
    BY <1>1, <1>3, <1>6, <1>7
  <1>9. \A k \in 1 .. n : sum[k] = 10 * sum[k - 1] + L(k)
    BY <1>1, <1>6
  <1> HIDE DEF sum
  <1> QED
    BY <1>8, <1>9 DEF n, L

\* A unit is one byte or two.
LEMMA StrLenIs ==
    ASSUME NEW S, NEW text \in Seq(S)
    PROVE  \E sum \in [0 .. Len(text) -> Nat] :
               /\ sum[0] = 0
               /\ \A k \in 1 .. Len(text) : sum[k] = sum[k - 1] + (IF text[k] = "e'" THEN 2 ELSE 1)
               /\ StrLen(text) = sum[Len(text)]
  <1> DEFINE n == Len(text)
             L(k) == IF text[k] = "e'" THEN 2 ELSE 1
             step == [ak \in Nat \X (1 .. n) |-> ak[1] + L(ak[2])]
             Adds(f) == f = [s \in SUBSET (1 .. n) |->
                                 IF s = {} THEN 0 ELSE f[s \ {Max(s)}] + L(Max(s))]
             g == CHOOSE f : Adds(f)
             sum == [k \in 0 .. n |-> g[1 .. k]]
  <1>1. n \in Nat /\ DOMAIN text = 1 .. n
    BY LenProperties
  <1>2. \A k \in 1 .. n : L(k) \in Nat
    OBVIOUS
  <1> HIDE DEF n, L
  <1>3. StrLen(text) = g[1 .. n]
    BY <1>1 DEF StrLen, FoldLeft, MapThenFoldSet, L
  <1>4. \E f : Adds(f)
    <2>1. step \in [Nat \X (1 .. n) -> Nat]
      BY <1>2
    <2>2. PICK f \in [SUBSET (1 .. n) -> Nat] : IsFold(f, n, 0, step)
      <3> HIDE DEF step
      <3> QED
        BY <1>1, <2>1, FoldExists
    <2>3. ASSUME NEW s \in SUBSET (1 .. n), s # {}
          PROVE  step[<<f[s \ {Max(s)}], Max(s)>>] = f[s \ {Max(s)}] + L(Max(s))
      <3>1. Max(s) \in 1 .. n /\ f[s \ {Max(s)}] \in Nat
        BY <1>1, <2>3, MaxUpTo
      <3> QED
        BY <3>1
    <2>4. Adds(f)
      <3> HIDE DEF step
      <3> QED
        BY <2>2, <2>3 DEF IsFold
    <2> HIDE DEF Adds
    <2> QED
      BY <2>4
  <1>5. Adds(g)
    <2> HIDE DEF Adds
    <2> QED
      BY <1>4
  <1> HIDE DEF g
  <1>6. g[1 .. 0] = 0 /\ \A k \in 1 .. n : g[1 .. k] = g[1 .. k - 1] + L(k)
    <2>1. 1 .. 0 = {} /\ 1 .. 0 \in SUBSET (1 .. n)
      BY \A x \in 1 .. 0 : FALSE
    <2>2. g[1 .. 0] = 0
      BY <1>5, <2>1
    <2>3. ASSUME NEW k \in 1 .. n PROVE g[1 .. k] = g[1 .. k - 1] + L(k)
      <3>1. Max(1 .. k) = k /\ (1 .. k) \ {k} = 1 .. k - 1 /\ 1 .. k \in SUBSET (1 .. n) /\ k \in 1 .. k
        BY <1>1, MaxUpTo
      <3> QED
        BY <1>5, <3>1
    <2> QED
      BY <2>2, <2>3
  <1> HIDE DEF Adds
  <1> DEFINE Typed == {k \in 0 .. n : g[1 .. k] \in Nat}
  <1>7. \A k \in 0 .. n : k \in Typed
    <2>1. 0 \in Typed
      BY <1>1, <1>6
    <2>2. ASSUME NEW k \in 1 .. n, k - 1 \in Typed PROVE k \in Typed
      BY <1>2, <1>6, <2>2
    <2> HIDE DEF Typed
    <2> QED
      BY <1>1, <2>1, <2>2, SetInductionTo
  <1>8. sum \in [0 .. n -> Nat] /\ sum[0] = 0 /\ sum[n] = StrLen(text)
    BY <1>1, <1>3, <1>6, <1>7
  <1>9. \A k \in 1 .. n : sum[k] = sum[k - 1] + L(k)
    BY <1>1, <1>6
  <1> HIDE DEF sum
  <1> QED
    BY <1>8, <1>9 DEF n, L

\* One digit is read as its value.
LEMMA ParseIntOne ==
    ASSUME NEW c \in DigitSet PROVE ParseInt(<<c>>) = DigitValue(c)
  <1>1. <<c>> \in Seq(DigitSet) /\ Len(<<c>>) = 1 /\ <<c>>[1] = c
    OBVIOUS
  <1>2. PICK val \in [0 .. 1 -> Nat] :
            /\ val[0] = 0
            /\ \A k \in 1 .. 1 : val[k] = 10 * val[k - 1] + DigitValue(<<c>>[k])
            /\ ParseInt(<<c>>) = val[1]
    BY <1>1, ParseIntIs
  <1>3. val[1] = 10 * val[0] + DigitValue(c) /\ DigitValue(c) \in Nat
    <2>1. 1 \in 1 .. 1 /\ 1 - 1 = 0
      OBVIOUS
    <2>2. val[1] = 10 * val[1 - 1] + DigitValue(<<c>>[1])
      BY <1>2, <2>1, Zenon
    <2>3. DigitValue(c) \in 0 .. 9
      BY DigitsAre, Zenon
    <2> QED
      BY <1>1, <2>1, <2>2, <2>3
  <1> QED
    BY <1>2, <1>3

\* A digit more multiplies by ten and adds.
LEMMA ParseIntAppend ==
    ASSUME NEW text \in Seq(DigitSet), NEW c \in DigitSet
    PROVE  ParseInt(Append(text, c)) = 10 * ParseInt(text) + DigitValue(c)
  <1> DEFINE longer == Append(text, c)
             n == Len(text)
  <1>1. /\ n \in Nat /\ longer \in Seq(DigitSet) /\ Len(longer) = n + 1
        /\ \A k \in 1 .. n : longer[k] = text[k]
        /\ longer[n + 1] = c
    BY AppendProperties, LenProperties
  <1> HIDE DEF longer
  <1>2. PICK val \in [0 .. n -> Nat] :
            /\ val[0] = 0
            /\ \A k \in 1 .. n : val[k] = 10 * val[k - 1] + DigitValue(text[k])
            /\ ParseInt(text) = val[n]
    BY ParseIntIs
  <1>3. PICK more \in [0 .. n + 1 -> Nat] :
            /\ more[0] = 0
            /\ \A k \in 1 .. n + 1 : more[k] = 10 * more[k - 1] + DigitValue(longer[k])
            /\ ParseInt(longer) = more[n + 1]
    BY <1>1, ParseIntIs
  <1> HIDE DEF n
  <1> DEFINE Same == {k \in 0 .. n : more[k] = val[k]}
  <1>4. \A k \in 0 .. n : k \in Same
    <2>1. 0 \in Same
      BY <1>1, <1>2, <1>3
    <2>2. ASSUME NEW k \in 1 .. n, k - 1 \in Same PROVE k \in Same
      <3>1. more[k - 1] = val[k - 1]
        BY <2>2
      <3>2. longer[k] = text[k]
        BY <1>1, Zenon
      <3>3. k \in 1 .. n + 1
        BY <1>1
      <3>4. more[k] = val[k]
        BY <1>2, <1>3, <3>1, <3>2, <3>3
      <3> QED
        BY <3>4
    <2> HIDE DEF Same
    <2> QED
      BY <1>1, <2>1, <2>2, SetInductionTo
  <1>5. more[n + 1] = 10 * more[n] + DigitValue(c)
    <2>1. n + 1 \in 1 .. n + 1 /\ (n + 1) - 1 = n
      BY <1>1
    <2> QED
      BY <1>1, <1>3, <2>1
  <1>6. more[n] = val[n]
    BY <1>1, <1>4
  <1> QED
    BY <1>2, <1>3, <1>5, <1>6 DEF longer

\* What snprintf prints, int.parse reads.
LEMMA ParseIntDecimal ==
    ASSUME NEW n \in Nat
    PROVE  ParseInt(Decimal[n]) = n /\ Decimal[n] \in Seq(DigitSet) /\ Len(Decimal[n]) >= 1
  <1> DEFINE Read == {m \in Nat : ParseInt(Decimal[m]) = m}
  <1>1. ASSUME NEW m \in Nat, \A l \in Nat : l < m => l \in Read PROVE m \in Read
    <2>1. CASE m < 10
      <3>0. m \in 0 .. 9
        BY <2>1
      <3>1. m \in 0 .. 9 /\ Decimal[m] = <<Digits[m + 1]>>
        BY <2>1, <3>0, DecimalIs, Zenon
      <3>2. Digits[m + 1] \in DigitSet /\ DigitValue(Digits[m + 1]) = m
        BY <3>1, DigitsAre
      <3>3. ParseInt(Decimal[m]) = m
        BY <3>1, <3>2, ParseIntOne
      <3> QED
        BY <3>3
    <2>2. CASE ~(m < 10)
      <3> DEFINE t == m \div 10
                 d == m % 10
      <3>1. t \in Nat /\ d \in 0 .. 9 /\ m = 10 * t + d /\ t < m
        BY <2>2, TenthIsLess
      <3>2. Decimal[m] = Append(Decimal[t], Digits[d + 1])
        BY <2>2, DecimalIs, Zenon
      <3> HIDE DEF t, d
      <3>3. Decimal[t] \in Seq(DigitSet) /\ ParseInt(Decimal[t]) = t
        BY <1>1, <3>1, DecimalIs
      <3>4. Digits[d + 1] \in DigitSet /\ DigitValue(Digits[d + 1]) = d
        BY <3>1, DigitsAre
      <3>5. ParseInt(Decimal[m]) = 10 * t + d
        BY <3>2, <3>3, <3>4, ParseIntAppend
      <3> QED
        BY <3>1, <3>5
    <2> QED
      BY <2>1, <2>2
  <1>2. n \in Read
    <2> HIDE DEF Read
    <2> QED
      BY <1>1, SetInductionAll
  <1>3. Decimal[n] \in Seq(DigitSet)
    BY DecimalIs
  <1>4. Len(Decimal[n]) >= 1
    <2>1. CASE n < 10
      <3>1. Decimal[n] = <<Digits[n + 1]>>
        BY <2>1, DecimalIs, Zenon
      <3> QED
        BY <3>1
    <2>2. CASE ~(n < 10)
      <3>1. n \div 10 \in Nat /\ (n % 10) \in 0 .. 9
        BY TenthIsLess
      <3>2. Decimal[n \div 10] \in Seq(DigitSet) /\ Digits[(n % 10) + 1] \in DigitSet
        BY <3>1, DecimalIs, DigitsAre
      <3>3. Len(Append(Decimal[n \div 10], Digits[(n % 10) + 1])) >= 1
        BY <3>2, AppendProperties, LenProperties
      <3>4. Decimal[n] = Append(Decimal[n \div 10], Digits[(n % 10) + 1])
        BY <2>2, DecimalIs, Zenon
      <3> QED
        BY <3>3, <3>4
    <2> QED
      BY <2>1, <2>2
  <1> QED
    BY <1>2, <1>3, <1>4

\* int.parse reads a natural number out of what passes for a number.
LEMMA ParseIntType ==
    ASSUME NEW S, NEW text \in Seq(S), IsInt(text)
    PROVE  text \in Seq(DigitSet) /\ ParseInt(text) \in Nat
  <1>1. Len(text) \in Nat /\ text \in [1 .. Len(text) -> S]
    BY LenProperties
  <1>2. \A k \in 1 .. Len(text) : text[k] \in DigitSet
    BY DigitsAre DEF IsInt
  <1>3. text \in [1 .. Len(text) -> DigitSet]
    BY <1>1, <1>2
  <1>4. text \in Seq(DigitSet)
    BY <1>1, <1>3
  <1>5. PICK val \in [0 .. Len(text) -> Nat] : ParseInt(text) = val[Len(text)]
    BY <1>4, ParseIntIs
  <1>6. Len(text) \in 0 .. Len(text)
    BY <1>1
  <1> QED
    BY <1>4, <1>5, <1>6

\* No text has fewer bytes than units.
LEMMA StrLenType ==
    ASSUME NEW S, NEW text \in Seq(S)
    PROVE  StrLen(text) \in Nat /\ StrLen(text) >= Len(text)
  <1>1. Len(text) \in Nat
    BY LenProperties
  <1>2. PICK sum \in [0 .. Len(text) -> Nat] :
            /\ sum[0] = 0
            /\ \A k \in 1 .. Len(text) :
                   sum[k] = sum[k - 1] + (IF text[k] = "e'" THEN 2 ELSE 1)
            /\ StrLen(text) = sum[Len(text)]
    BY StrLenIs
  <1> DEFINE Long == {k \in 0 .. Len(text) : sum[k] >= k}
  <1>3. \A k \in 0 .. Len(text) : k \in Long
    <2>1. 0 \in Long
      BY <1>1, <1>2
    <2>2. ASSUME NEW k \in 1 .. Len(text), k - 1 \in Long PROVE k \in Long
      <3>1. sum[k - 1] \in Nat /\ sum[k - 1] >= k - 1 /\ sum[k] \in Nat
        BY <1>1, <2>2
      <3>2. sum[k] >= sum[k - 1] + 1
        <4>1. sum[k] = sum[k - 1] + (IF text[k] = "e'" THEN 2 ELSE 1)
          BY <1>2, Zenon
        <4> QED
          BY <3>1, <4>1
      <3>3. sum[k] >= k
        BY <3>1, <3>2
      <3> QED
        BY <3>3
    <2> HIDE DEF Long
    <2> QED
      BY <1>1, <2>1, <2>2, SetInductionTo
  <1>4. Len(text) \in Long
    BY <1>1, <1>3
  <1> QED
    BY <1>2, <1>4

-----------------------------------------------------------------------------
(* Where the columns lie in the text.                                      *)

\* flat[k] is the first k texts of E in one.
IsFlat(flat, E, n, V) ==
    /\ flat \in [0 .. n -> V]
    /\ flat[0] = <<>>
    /\ \A k \in 1 .. n : flat[k] = flat[k - 1] \o E[k]
    /\ FlattenSeq(E) = flat[n]

\* FlattenSeq appends text after text.
LEMMA FlattenIs ==
    ASSUME NEW S, NEW n \in Nat, NEW E \in [1 .. n -> Seq(S)]
    PROVE  \E flat : IsFlat(flat, E, n, Seq(S))
  <1> DEFINE V == Seq(S)
             step == [vk \in V \X (1 .. n) |-> vk[1] \o E[vk[2]]]
             Flattens(f) == f = [i \in 1 .. n |-> IF i = 1 THEN E[i] ELSE f[i - 1] \o E[i]]
  <1>1. <<>> \in V /\ \A v \in V, k \in 1 .. n : v \o E[k] \in V
    BY ConcatProperties, EmptySeq
  <1>2. step \in [V \X (1 .. n) -> V]
    BY <1>1
  <1>3. \A v \in V, k \in 1 .. n : step[<<v, k>>] = v \o E[k]
    OBVIOUS
  <1>4. \A k \in 1 .. n : <<>> \o E[k] = E[k]
    BY ConcatEmptySeq
  <1>5. E \in Seq(V) /\ Len(E) = n
    OBVIOUS
  <1> HIDE DEF V, step
  <1>6. PICK f \in [SUBSET (1 .. n) -> V] : IsFold(f, n, <<>>, step)
    BY <1>1, <1>2, FoldExists
  <1> DEFINE flat == [k \in 0 .. n |-> f[1 .. k]]
  <1>7. \A k \in 0 .. n : 1 .. k \in SUBSET (1 .. n)
    OBVIOUS
  <1>8. flat \in [0 .. n -> V]
    BY <1>6, <1>7
  <1>9. f[1 .. 0] = <<>>
    <2>1. 1 .. 0 = {} /\ 1 .. 0 \in SUBSET (1 .. n)
      BY \A x \in 1 .. 0 : FALSE
    <2> QED
      BY <1>6, <2>1 DEF IsFold
  <1>10. ASSUME NEW k \in 1 .. n PROVE f[1 .. k] = f[1 .. k - 1] \o E[k]
    <2>1. Max(1 .. k) = k /\ (1 .. k) \ {k} = 1 .. k - 1
      BY MaxUpTo
    <2>2. 1 .. k \in SUBSET (1 .. n) /\ 1 .. k # {} /\ k - 1 \in 0 .. n
      <3>1. k \in 1 .. k /\ k - 1 \in 0 .. n
        OBVIOUS
      <3>2. 1 .. k \in SUBSET (1 .. n)
        OBVIOUS
      <3> QED
        BY <3>1, <3>2, Zenon
    <2>3. f[1 .. k] = step[<<f[(1 .. k) \ {Max(1 .. k)}], Max(1 .. k)>>]
      BY <1>6, <2>2 DEF IsFold
    <2>4. f[1 .. k - 1] \in V
      BY <1>6, <1>7, <2>2
    <2>5. step[<<f[1 .. k - 1], k>>] = f[1 .. k - 1] \o E[k]
      BY <1>3, <2>4, Zenon
    <2> QED
      BY <2>1, <2>3, <2>5
  <1>11. flat[0] = <<>> /\ \A k \in 1 .. n : flat[k] = flat[k - 1] \o E[k]
    <2>1. 0 \in 0 .. n /\ \A k \in 1 .. n : k \in 0 .. n /\ k - 1 \in 0 .. n
      OBVIOUS
    <2> QED
      BY <1>9, <1>10, <2>1
  <1> HIDE DEF flat
  <1>12. CASE n = 0
    <2>1. FlattenSeq(E) = E
      BY <1>5, <1>12 DEF FlattenSeq
    <2>2. E = <<>>
      BY <1>5, <1>12
    <2> QED
      BY <1>8, <1>11, <1>12, <2>1, <2>2 DEF V, IsFlat
  <1>13. CASE n # 0
    <2> DEFINE g == CHOOSE h : Flattens(h)
               short == [i \in 1 .. n |-> flat[i]]
    <2>1. FlattenSeq(E) = g[n]
      BY <1>5, <1>13 DEF FlattenSeq
    <2>2. Flattens(short)
      <3>1. ASSUME NEW i \in 1 .. n
            PROVE  flat[i] = IF i = 1 THEN E[i] ELSE short[i - 1] \o E[i]
        <4>1. CASE i = 1
          <5>0. flat[i] = flat[i - 1] \o E[i]
            BY <1>11, Zenon
          <5>1. flat[1] = flat[0] \o E[1]
            <6>1. i - 1 = 0
              BY <4>1
            <6> QED
              BY <4>1, <5>0, <6>1, Zenon
          <5> QED
            BY <1>4, <1>11, <4>1, <5>1
        <4>2. CASE i # 1
          <5>1. i - 1 \in 1 .. n
            BY <4>2
          <5>2. short[i - 1] = flat[i - 1]
            BY <5>1
          <5> HIDE DEF short
          <5> QED
            BY <1>11, <4>2, <5>2
        <4> QED
          BY <4>1, <4>2
      <3> QED
        BY <3>1
    <2>3. Flattens(g)
      <3> HIDE DEF Flattens
      <3> QED
        BY <2>2
    <2> HIDE DEF g
    <2>4. \A i \in 1 .. n : g[i] = IF i = 1 THEN E[i] ELSE g[i - 1] \o E[i]
      BY <2>3
    <2> DEFINE Same == {i \in 0 .. n : i # 0 => g[i] = flat[i]}
    <2>5. \A i \in 0 .. n : i \in Same
      <3>1. 0 \in Same
        OBVIOUS
      <3>2. ASSUME NEW i \in 1 .. n, i - 1 \in Same PROVE i \in Same
        <4>1. flat[i] = flat[i - 1] \o E[i] /\ g[i] = IF i = 1 THEN E[i] ELSE g[i - 1] \o E[i]
          BY <1>11, <2>4, Zenon
        <4>2. CASE i = 1
          <5>1. g[1] = E[1] /\ flat[1] = flat[0] \o E[1]
            BY <4>1, <4>2
          <5>2. g[i] = flat[i]
            BY <1>4, <1>11, <4>2, <5>1
          <5> QED
            BY <5>2
        <4>3. CASE i # 1
          <5>1. g[i - 1] = flat[i - 1]
            BY <3>2, <4>3
          <5>2. g[i] = flat[i]
            BY <4>1, <4>3, <5>1
          <5> QED
            BY <5>2
        <4> QED
          BY <4>2, <4>3
      <3> HIDE DEF Same
      <3> QED
        BY <3>1, <3>2, SetInductionTo
    <2>6. g[n] = flat[n]
      BY <1>13, <2>5
    <2> QED
      BY <1>8, <1>11, <2>1, <2>6 DEF V, IsFlat
  <1> QED
    BY <1>12, <1>13

\* Where the parts of two texts are in the text they make.
Joins(text, s, t) == /\ Len(s) \in Nat /\ Len(t) \in Nat
                     /\ Len(text) = Len(s) + Len(t)
                     /\ \A i \in 1 .. Len(s) : text[i] = s[i]
                     /\ \A i \in 1 .. Len(t) : text[Len(s) + i] = t[i]

\* Two texts joined.
LEMMA Joined ==
    ASSUME NEW S, NEW s \in Seq(S), NEW t \in Seq(S)
    PROVE  s \o t \in Seq(S) /\ Joins(s \o t, s, t)
  <1>1. Len(s) \in Nat /\ Len(t) \in Nat
    BY LenProperties
  <1>2. /\ s \o t \in Seq(S) /\ Len(s \o t) = Len(s) + Len(t)
        /\ \A i \in 1 .. Len(s) + Len(t) :
               (s \o t)[i] = IF i <= Len(s) THEN s[i] ELSE t[i - Len(s)]
    BY ConcatProperties
  <1>3. ASSUME NEW i \in 1 .. Len(s) PROVE (s \o t)[i] = s[i]
    BY <1>1, <1>2
  <1>4. ASSUME NEW i \in 1 .. Len(t) PROVE (s \o t)[Len(s) + i] = t[i]
    <2>1. Len(s) + i \in 1 .. Len(s) + Len(t) /\ ~(Len(s) + i <= Len(s)) /\ (Len(s) + i) - Len(s) = i
      BY <1>1
    <2> QED
      BY <1>2, <2>1
  <1> QED
    BY <1>1, <1>2, <1>3, <1>4 DEF Joins

\* A separator is a text of length one.
LEMMA Separators ==
    \A x \in {"=", ":", ",", "\n"} : <<x>> \in Seq(Alphabet) /\ Len(<<x>>) = 1 /\ <<x>>[1] = x
  <1>1. \A x \in {"=", ":", ",", "\n"} : x \in Alphabet
    BY DEF Alphabet
  <1>2. \A x \in Alphabet : <<x>> \in Seq(Alphabet) /\ Len(<<x>>) = 1 /\ <<x>>[1] = x
    OBVIOUS
  <1> QED
    BY <1>1, <1>2, Zenon

\* The text of a column's size.
SizeOf(c) == Decimal[StrLen(c.value)]

\* The parts of a column, and the size that is written for its value.
LEMMA ColumnType ==
    ASSUME NEW c \in Columns
    PROVE  /\ c.name \in Seq(Alphabet) /\ c.value \in Seq(Alphabet)
           /\ Len(c.name) \in Nat /\ Len(c.value) \in Nat
           /\ StrLen(c.value) \in Nat /\ StrLen(c.value) >= Len(c.value)
           /\ SizeOf(c) \in Seq(DigitSet) /\ SizeOf(c) \in Seq(Alphabet)
           /\ Len(SizeOf(c)) \in Nat /\ Len(SizeOf(c)) >= 1
           /\ ParseInt(SizeOf(c)) = StrLen(c.value)
           /\ c = [name |-> c.name, value |-> c.value]
  <1>1. c.name \in Seq(Units) /\ c.value \in Seq(Units) /\ c = [name |-> c.name, value |-> c.value]
    BY RowCodecAssumption DEF Columns
  <1>2. Units \subseteq Alphabet /\ DigitSet \subseteq Alphabet
    BY DEF Alphabet
  <1>3. c.name \in Seq(Alphabet) /\ c.value \in Seq(Alphabet)
    BY <1>1, <1>2, SeqMonotonic
  <1>4. Len(c.name) \in Nat /\ Len(c.value) \in Nat
    BY <1>3, LenProperties
  <1>5. StrLen(c.value) \in Nat /\ StrLen(c.value) >= Len(c.value)
    BY <1>3, StrLenType
  <1>6. /\ SizeOf(c) \in Seq(DigitSet) /\ Len(SizeOf(c)) >= 1
        /\ ParseInt(SizeOf(c)) = StrLen(c.value)
    BY <1>5, ParseIntDecimal DEF SizeOf
  <1>7. SizeOf(c) \in Seq(Alphabet) /\ Len(SizeOf(c)) \in Nat
    BY <1>2, <1>6, SeqMonotonic, LenProperties
  <1> QED
    BY <1>1, <1>3, <1>4, <1>5, <1>6, <1>7

\* Positions in an encoded column: of the equals sign, and of the colon.
EqualIn(c) == Len(c.name)
DotIn(c) == Len(c.name) + 1 + Len(SizeOf(c))

\* What stands where in an encoded column.
LEMMA EncodeColumnIs ==
    ASSUME NEW c \in Columns
    PROVE  /\ EncodeColumn(c) \in Seq(Alphabet)
           /\ Len(EncodeColumn(c)) = DotIn(c) + 1 + Len(c.value) + 1
           /\ \A i \in 1 .. Len(c.name) : EncodeColumn(c)[i] = c.name[i]
           /\ EncodeColumn(c)[EqualIn(c) + 1] = "="
           /\ \A i \in 1 .. Len(SizeOf(c)) : EncodeColumn(c)[EqualIn(c) + 1 + i] = SizeOf(c)[i]
           /\ EncodeColumn(c)[DotIn(c) + 1] = ":"
           /\ \A i \in 1 .. Len(c.value) : EncodeColumn(c)[DotIn(c) + 1 + i] = c.value[i]
  <1> DEFINE name == c.name
             value == c.value
             size == SizeOf(c)
             equal == <<"=">>
             dot == <<":">>
             comma == <<",">>
             e1 == name \o equal
             e2 == e1 \o size
             e3 == e2 \o dot
             e4 == e3 \o value
             e5 == e4 \o comma
  <1>1. EncodeColumn(c) = e5
    BY DEF EncodeColumn, SizeOf
  <1>2. /\ equal \in Seq(Alphabet) /\ Len(equal) = 1 /\ equal[1] = "="
        /\ dot \in Seq(Alphabet) /\ Len(dot) = 1 /\ dot[1] = ":"
        /\ comma \in Seq(Alphabet) /\ Len(comma) = 1
    BY Separators, Zenon
  <1>3. /\ name \in Seq(Alphabet) /\ value \in Seq(Alphabet) /\ size \in Seq(Alphabet)
        /\ Len(name) \in Nat /\ Len(value) \in Nat /\ Len(size) \in Nat
    BY ColumnType
  <1> HIDE DEF name, value, size, equal, dot, comma
  <1>4. e1 \in Seq(Alphabet) /\ Joins(e1, name, equal)
    BY <1>2, <1>3, Joined
  <1>5. e1[Len(name) + 1] = "="
    BY <1>2, <1>4 DEF Joins
  <1> HIDE DEF e1
  <1>6. e2 \in Seq(Alphabet) /\ Joins(e2, e1, size)
    BY <1>3, <1>4, Joined
  <1> HIDE DEF e2
  <1>7. e3 \in Seq(Alphabet) /\ Joins(e3, e2, dot)
    BY <1>2, <1>3, <1>6, Joined
  <1>8. e3[Len(e2) + 1] = ":"
    BY <1>2, <1>7 DEF Joins
  <1> HIDE DEF e3
  <1>9. e4 \in Seq(Alphabet) /\ Joins(e4, e3, value)
    BY <1>3, <1>7, Joined
  <1> HIDE DEF e4
  <1>10. e5 \in Seq(Alphabet) /\ Joins(e5, e4, comma)
    BY <1>2, <1>3, <1>9, Joined
  <1> HIDE DEF e5
  <1>11. /\ Len(e1) = Len(name) + 1 /\ Len(e2) = Len(name) + 1 + Len(size)
         /\ Len(e3) = Len(name) + 1 + Len(size) + 1
         /\ Len(e4) = Len(name) + 1 + Len(size) + 1 + Len(value)
         /\ Len(e5) = Len(name) + 1 + Len(size) + 1 + Len(value) + 1
    BY <1>2, <1>3, <1>4, <1>6, <1>7, <1>9, <1>10 DEF Joins
  <1>12. \A i \in 1 .. Len(name) : e5[i] = name[i]
    <2> TAKE i \in 1 .. Len(name)
    <2>1. i \in 1 .. Len(e1) /\ i \in 1 .. Len(e2) /\ i \in 1 .. Len(e3) /\ i \in 1 .. Len(e4)
      BY <1>3, <1>11
    <2>2. e5[i] = e2[i]
      BY <1>7, <1>9, <1>10, <2>1, Zenon DEF Joins
    <2>3. e2[i] = name[i]
      BY <1>4, <1>6, <2>1, Zenon DEF Joins
    <2> QED
      BY <2>2, <2>3
  <1>13. e5[Len(name) + 1] = "="
    <2> DEFINE i == Len(name) + 1
    <2>1. i \in 1 .. Len(e1) /\ i \in 1 .. Len(e2) /\ i \in 1 .. Len(e3) /\ i \in 1 .. Len(e4)
      BY <1>3, <1>11
    <2>2. e1[i] = "="
      BY <1>5
    <2> HIDE DEF i
    <2>3. e2[i] = "="
      BY <1>6, <2>1, <2>2, Zenon DEF Joins
    <2>4. e5[i] = e2[i]
      BY <1>7, <1>9, <1>10, <2>1, Zenon DEF Joins
    <2> QED
      BY <2>3, <2>4 DEF i
  <1>14. \A j \in 1 .. Len(size) : e5[Len(name) + 1 + j] = size[j]
    <2> TAKE j \in 1 .. Len(size)
    <2> DEFINE i == Len(name) + 1 + j
    <2>1. i \in 1 .. Len(e2) /\ i \in 1 .. Len(e3) /\ i \in 1 .. Len(e4) /\ i = Len(e1) + j
      BY <1>3, <1>11
    <2> HIDE DEF i
    <2>2. e2[i] = size[j]
      BY <1>6, <2>1, Zenon DEF Joins
    <2>3. e5[i] = e2[i]
      BY <1>7, <1>9, <1>10, <2>1, Zenon DEF Joins
    <2> QED
      BY <2>2, <2>3 DEF i
  <1>15. e5[Len(name) + 1 + Len(size) + 1] = ":"
    <2> DEFINE i == Len(name) + 1 + Len(size) + 1
    <2>1. i \in 1 .. Len(e3) /\ i \in 1 .. Len(e4) /\ i = Len(e2) + 1
      BY <1>3, <1>11
    <2> HIDE DEF i
    <2>2. e5[i] = ":"
      BY <1>8, <1>9, <1>10, <2>1, Zenon DEF Joins
    <2> QED
      BY <2>2 DEF i
  <1>16. \A j \in 1 .. Len(value) : e5[Len(name) + 1 + Len(size) + 1 + j] = value[j]
    <2> TAKE j \in 1 .. Len(value)
    <2> DEFINE i == Len(name) + 1 + Len(size) + 1 + j
    <2>1. i \in 1 .. Len(e4) /\ i = Len(e3) + j
      BY <1>3, <1>11
    <2> HIDE DEF i
    <2>2. e5[i] = value[j]
      BY <1>9, <1>10, <2>1, Zenon DEF Joins
    <2> QED
      BY <2>2 DEF i
  <1> QED
    BY <1>1, <1>10, <1>11, <1>12, <1>13, <1>14, <1>15, <1>16 DEF EqualIn, DotIn, name, value, size

\* The positions in a column are natural numbers.
LEMMA ColumnSpan ==
    ASSUME NEW c \in Columns
    PROVE  DotIn(c) \in Nat /\ EqualIn(c) \in Nat /\ Len(c.value) \in Nat
  <1> DEFINE name == Len(c.name)
             size == Len(SizeOf(c))
  <1>1. name \in Nat /\ size \in Nat /\ Len(c.value) \in Nat
    BY ColumnType
  <1>2. DotIn(c) = name + 1 + size /\ EqualIn(c) = name
    BY Zenon DEF DotIn, EqualIn
  <1> HIDE DEF name, size
  <1>3. name + 1 + size \in Nat
    BY <1>1
  <1> QED
    BY <1>1, <1>2, <1>3, Zenon

\* at[k] is where text k + 1 of E starts in body, which is all of them in one.
ArePlaces(at, body, E, n) ==
    /\ at \in [0 .. n -> Nat]
    /\ at[0] = 0 /\ at[n] = Len(body)
    /\ \A k \in 1 .. n : /\ at[k] = at[k - 1] + Len(E[k]) /\ Len(E[k]) \in Nat
                         /\ at[k] <= Len(body)
                         /\ \A i \in 1 .. Len(E[k]) : body[at[k - 1] + i] = E[k][i]

\* The joined texts of all columns have a place for each.
LEMMA FlattenLayout ==
    ASSUME NEW S, NEW n \in Nat, NEW E \in [1 .. n -> Seq(S)]
    PROVE  FlattenSeq(E) \in Seq(S) /\ \E at : ArePlaces(at, FlattenSeq(E), E, n)
  <1> DEFINE body == FlattenSeq(E)
             V == Seq(S)
             Typed(flat) == IsFlat(flat, E, n, V)
  <1>1. \E flat : Typed(flat)
    BY FlattenIs
  <1>2. \A k \in 1 .. n : k - 1 \in 0 .. n /\ k \in 0 .. n /\ E[k] \in V
    OBVIOUS
  <1>3. \A s \in V : Len(s) \in Nat
    BY LenProperties
  <1>4. \A s, t \in V : Joins(s \o t, s, t)
    BY Joined
  <1> HIDE DEF V, body
  <1>5. PICK flat : Typed(flat)
    BY <1>1
  <1>6. \A k \in 0 .. n : Len(flat[k]) \in Nat /\ flat[k] \in V
    BY <1>3, <1>5 DEF IsFlat
  <1>7. ASSUME NEW k \in 1 .. n
        PROVE  k - 1 \in 0 .. n /\ k \in 0 .. n /\ Joins(flat[k], flat[k - 1], E[k])
    <2>1. flat[k - 1] \in V /\ E[k] \in V /\ flat[k] = flat[k - 1] \o E[k]
      BY <1>2, <1>5, <1>6 DEF IsFlat
    <2> QED
      BY <1>2, <1>4, <2>1
  <1>8. body \in V /\ body = flat[n] /\ n \in 0 .. n /\ 0 \in 0 .. n
    BY <1>5, <1>6 DEF IsFlat, body
  <1>9. Len(flat[0]) = 0
    BY <1>5 DEF IsFlat
  <1> HIDE DEF Typed
  <1> DEFINE Kept == {j \in 0 .. n : \A k \in 0 .. j : /\ Len(flat[k]) <= Len(flat[j])
                                                       /\ \A i \in 1 .. Len(flat[k]) :
                                                              flat[j][i] = flat[k][i]}
  <1>10. \A j \in 0 .. n : j \in Kept
    <2>1. 0 \in Kept
      <3>1. \A k \in 0 .. 0 : k = 0
        OBVIOUS
      <3> QED
        BY <1>8, <1>9, <3>1
    <2>2. ASSUME NEW j \in 1 .. n, j - 1 \in Kept PROVE j \in Kept
      <3>1. ASSUME NEW k \in 0 .. j
            PROVE  /\ Len(flat[k]) <= Len(flat[j])
                   /\ \A i \in 1 .. Len(flat[k]) : flat[j][i] = flat[k][i]
        <4>1. CASE k = j
          <5>1. Len(flat[j]) \in Nat
            BY <1>2, <1>6
          <5> QED
            BY <4>1, <5>1
        <4>2. CASE k # j
          <5>1. k \in 0 .. j - 1 /\ k \in 0 .. n
            BY <4>2
          <5>2. /\ Len(flat[k]) <= Len(flat[j - 1])
                /\ \A i \in 1 .. Len(flat[k]) : flat[j - 1][i] = flat[k][i]
            BY <2>2, <5>1
          <5>3. Len(flat[k]) \in Nat /\ Len(flat[j - 1]) \in Nat /\ Len(flat[j]) \in Nat
            BY <1>2, <1>6, <5>1, Zenon
          <5>4. Joins(flat[j], flat[j - 1], E[j])
            BY <1>7
          <5>5. Len(flat[j]) = Len(flat[j - 1]) + Len(E[j]) /\ Len(E[j]) \in Nat
            BY <5>4 DEF Joins
          <5>6. \A i \in 1 .. Len(flat[k]) : i \in 1 .. Len(flat[j - 1])
            BY <5>2, <5>3
          <5>7. \A i \in 1 .. Len(flat[k]) : flat[j][i] = flat[k][i]
            BY <5>2, <5>4, <5>6, Zenon DEF Joins
          <5> QED
            BY <5>2, <5>3, <5>5, <5>7
        <4> QED
          BY <4>1, <4>2
      <3> QED
        BY <1>2, <3>1
    <2> HIDE DEF Kept
    <2> QED
      BY <2>1, <2>2, SetInductionTo
  <1> DEFINE at == [k \in 0 .. n |-> Len(flat[k])]
  <1>11. at \in [0 .. n -> Nat] /\ \A k \in 0 .. n : at[k] = Len(flat[k])
    BY <1>6
  <1> HIDE DEF at
  <1>12. at[0] = 0 /\ at[n] = Len(body)
    BY <1>8, <1>9, <1>11
  <1>13. ASSUME NEW k \in 1 .. n
         PROVE  /\ at[k] = at[k - 1] + Len(E[k]) /\ Len(E[k]) \in Nat
                /\ at[k] <= Len(body)
                /\ \A i \in 1 .. Len(E[k]) : body[at[k - 1] + i] = E[k][i]
    <2>1. k - 1 \in 0 .. n /\ k \in 0 .. n /\ Joins(flat[k], flat[k - 1], E[k])
      BY <1>7
    <2>2. at[k] = Len(flat[k]) /\ at[k - 1] = Len(flat[k - 1])
      BY <1>11, <2>1, Zenon
    <2>3. /\ Len(flat[k]) = Len(flat[k - 1]) + Len(E[k])
          /\ Len(flat[k - 1]) \in Nat /\ Len(E[k]) \in Nat
          /\ \A i \in 1 .. Len(E[k]) : flat[k][Len(flat[k - 1]) + i] = E[k][i]
      BY <2>1 DEF Joins
    <2>4. n \in Kept /\ k \in 0 .. n
      BY <1>8, <1>10, <2>1
    <2>5. Len(flat[k]) <= Len(body) /\ \A i \in 1 .. Len(flat[k]) : body[i] = flat[k][i]
      BY <1>8, <2>4
    <2>6. ASSUME NEW i \in 1 .. Len(E[k]) PROVE body[at[k - 1] + i] = E[k][i]
      <3>1. Len(flat[k - 1]) + i \in 1 .. Len(flat[k])
        BY <2>3
      <3> QED
        BY <2>2, <2>3, <2>5, <3>1, Zenon
    <2> QED
      BY <2>2, <2>3, <2>5, <2>6
  <1>14. ArePlaces(at, body, E, n)
    BY <1>11, <1>12, <1>13 DEF ArePlaces
  <1> QED
    BY <1>8, <1>14 DEF body, V

\* The end of the index.
Comma == ","

\* The columns between the index and the newline.
Frame(index, body) == Decimal[index] \o <<",">> \o body \o <<"\n">>

IsFramed(text, index, body) ==
    /\ text \in Seq(Alphabet)
    /\ Len(Decimal[index]) \in Nat /\ Len(body) \in Nat
    /\ Len(text) = Len(Decimal[index]) + 1 + Len(body) + 1
    /\ \A i \in 1 .. Len(Decimal[index]) : text[i] = Decimal[index][i]
    /\ text[Len(Decimal[index]) + 1] = Comma
    /\ \A i \in 1 .. Len(body) : text[Len(Decimal[index]) + 1 + i] = body[i]

\* What stands where around the columns.
LEMMA FrameIs ==
    ASSUME NEW index \in Nat, NEW body \in Seq(Alphabet)
    PROVE  IsFramed(Frame(index, body), index, body)
  <1> DEFINE number == Decimal[index]
             comma == <<",">>
             newline == <<"\n">>
             head == number \o comma
             front == head \o body
             whole == front \o newline
  <1>1. Frame(index, body) = whole
    BY Zenon DEF Frame
  <1>2. number \in Seq(Alphabet)
    <2>1. number \in Seq(DigitSet) /\ DigitSet \subseteq Alphabet
      BY DecimalIs DEF Alphabet
    <2> QED
      BY <2>1, SeqMonotonic
  <1>3. /\ comma \in Seq(Alphabet) /\ Len(comma) = 1 /\ comma[1] = Comma
        /\ newline \in Seq(Alphabet) /\ Len(newline) = 1
    BY Separators, Zenon DEF Comma
  <1> HIDE DEF number, comma, newline
  <1>4. head \in Seq(Alphabet) /\ Joins(head, number, comma)
    BY <1>2, <1>3, Joined
  <1>5. head[Len(number) + 1] = Comma
    BY <1>3, <1>4 DEF Joins
  <1> HIDE DEF head
  <1>6. front \in Seq(Alphabet) /\ Joins(front, head, body)
    BY <1>4, Joined
  <1> HIDE DEF front
  <1>7. whole \in Seq(Alphabet) /\ Joins(whole, front, newline)
    BY <1>3, <1>6, Joined
  <1> HIDE DEF whole
  <1>8. /\ Len(number) \in Nat /\ Len(body) \in Nat
        /\ Len(head) = Len(number) + 1 /\ Len(front) = Len(number) + 1 + Len(body)
        /\ Len(whole) = Len(number) + 1 + Len(body) + 1
    BY <1>3, <1>4, <1>6, <1>7 DEF Joins
  <1>9. \A i \in 1 .. Len(number) : whole[i] = number[i]
    <2> TAKE i \in 1 .. Len(number)
    <2>1. i \in 1 .. Len(head) /\ i \in 1 .. Len(front)
      BY <1>8
    <2> QED
      BY <1>4, <1>6, <1>7, <2>1, Zenon DEF Joins
  <1>10. whole[Len(number) + 1] = Comma
    <2> DEFINE i == Len(number) + 1
    <2>1. i \in 1 .. Len(head) /\ i \in 1 .. Len(front)
      BY <1>8
    <2> HIDE DEF i
    <2>2. whole[i] = head[i]
      BY <1>6, <1>7, <2>1, Zenon DEF Joins
    <2> QED
      BY <1>5, <2>2 DEF i
  <1>11. \A j \in 1 .. Len(body) : whole[Len(number) + 1 + j] = body[j]
    <2> TAKE j \in 1 .. Len(body)
    <2> DEFINE i == Len(number) + 1 + j
    <2>1. i \in 1 .. Len(front) /\ i = Len(head) + j
      BY <1>8
    <2> HIDE DEF i
    <2>2. whole[i] = body[j]
      BY <1>6, <1>7, <2>1, Zenon DEF Joins
    <2> QED
      BY <2>2 DEF i
  <1> QED
    BY <1>1, <1>7, <1>8, <1>9, <1>10, <1>11 DEF number, IsFramed

\* at[k] is where column k + 1 starts, counted from 0.
IsLayout(at, index, cs) ==
    /\ at \in [0 .. Len(cs) -> Nat]
    /\ at[0] = Len(Decimal[index]) + 1
    /\ \A k \in 1 .. Len(cs) : at[k] = at[k - 1] + Len(EncodeColumn(cs[k]))
    /\ \A k \in 1 .. Len(cs) : \A i \in 1 .. Len(EncodeColumn(cs[k])) :
           Encode(index, cs)[at[k - 1] + i] = EncodeColumn(cs[k])[i]
    /\ Len(Encode(index, cs)) = at[Len(cs)] + 1

\* An encoded row: its index, a comma and the columns at their places.
LEMMA EncodeIs ==
    ASSUME NEW index \in Nat, NEW cs \in Seq(Columns)
    PROVE  /\ Encode(index, cs) \in Seq(Alphabet)
           /\ \A i \in 1 .. Len(Decimal[index]) : Encode(index, cs)[i] = Decimal[index][i]
           /\ Encode(index, cs)[Len(Decimal[index]) + 1] = Comma
           /\ \E at : IsLayout(at, index, cs)
  <1> DEFINE n == Len(cs)
             E == [k \in 1 .. n |-> EncodeColumn(cs[k])]
             body == FlattenSeq(E)
             first == Len(Decimal[index]) + 1
             text == Encode(index, cs)
  <1>1. n \in Nat /\ \A k \in 1 .. n : cs[k] \in Columns
    BY LenProperties, ElementOfSeq
  <1>2. \A k \in 1 .. n : EncodeColumn(cs[k]) \in Seq(Alphabet)
    BY <1>1, EncodeColumnIs
  <1>3. E \in [1 .. n -> Seq(Alphabet)] /\ \A k \in 1 .. n : E[k] = EncodeColumn(cs[k])
    BY <1>2
  <1>4. text = Frame(index, body)
    BY Zenon DEF Encode, Frame
  <1> HIDE DEF n, E, text
  <1>5. body \in Seq(Alphabet)
    BY <1>1, <1>3, FlattenLayout
  <1>6. PICK place : ArePlaces(place, body, E, n)
    BY <1>1, <1>3, FlattenLayout
  <1> HIDE DEF body
  <1>7. /\ text \in Seq(Alphabet)
        /\ Len(Decimal[index]) \in Nat /\ Len(body) \in Nat
        /\ Len(text) = Len(Decimal[index]) + 1 + Len(body) + 1
        /\ \A i \in 1 .. Len(Decimal[index]) : text[i] = Decimal[index][i]
        /\ text[Len(Decimal[index]) + 1] = Comma
        /\ \A i \in 1 .. Len(body) : text[Len(Decimal[index]) + 1 + i] = body[i]
    <2>1. IsFramed(Frame(index, body), index, body)
      BY <1>5, FrameIs
    <2> QED
      BY <1>4, <2>1, Zenon DEF IsFramed
  <1> DEFINE at == [k \in 0 .. n |-> first + place[k]]
  <1>8. first \in Nat /\ Len(body) \in Nat /\ \A i \in 1 .. Len(body) : text[first + i] = body[i]
    BY <1>7
  <1>9. Len(text) = first + Len(body) + 1
    BY <1>7
  <1> HIDE DEF first
  <1>10. at \in [0 .. n -> Nat] /\ \A k \in 0 .. n : at[k] = first + place[k]
    BY <1>6, <1>8 DEF ArePlaces
  <1> HIDE DEF at
  <1>11. at[0] = first /\ Len(text) = at[n] + 1
    <2>1. 0 \in 0 .. n /\ n \in 0 .. n
      BY <1>1
    <2>2. place[0] = 0 /\ place[n] = Len(body)
      BY <1>6 DEF ArePlaces
    <2>3. at[0] = first + place[0] /\ at[n] = first + place[n]
      BY <1>10, <2>1, Zenon
    <2> QED
      BY <1>8, <1>9, <2>2, <2>3
  <1>12. ASSUME NEW k \in 1 .. n
         PROVE  /\ at[k] = at[k - 1] + Len(E[k])
                /\ \A i \in 1 .. Len(E[k]) : text[at[k - 1] + i] = E[k][i]
    <2>1. k - 1 \in 0 .. n /\ k \in 0 .. n
      BY <1>1
    <2>2. place[k - 1] \in Nat /\ place[k] \in Nat
      BY <1>6, <2>1 DEF ArePlaces
    <2>3. /\ place[k] = place[k - 1] + Len(E[k]) /\ Len(E[k]) \in Nat /\ place[k] <= Len(body)
          /\ \A i \in 1 .. Len(E[k]) : body[place[k - 1] + i] = E[k][i]
      BY <1>6 DEF ArePlaces
    <2>4. at[k] = first + place[k] /\ at[k - 1] = first + place[k - 1]
      BY <1>10, <2>1, Zenon
    <2>5. ASSUME NEW i \in 1 .. Len(E[k]) PROVE text[at[k - 1] + i] = E[k][i]
      <3> DEFINE j == place[k - 1] + i
      <3>1. j \in 1 .. Len(body) /\ at[k - 1] + i = first + j
        <4>1. /\ place[k] = place[k - 1] + Len(E[k]) /\ Len(E[k]) \in Nat
              /\ place[k] <= Len(body) /\ Len(body) \in Nat /\ first \in Nat
          BY <1>8, <2>3
        <4>2. i \in Nat /\ 1 <= i /\ i <= Len(E[k])
          BY <4>1
        <4> DEFINE a == place[k - 1]
                   m == Len(body)
        <4>3. a \in Nat /\ a + i <= m /\ m \in Nat
          BY <2>2, <4>1, <4>2
        <4>4. at[k - 1] = first + a
          BY <2>4
        <4> HIDE DEF a, m
        <4>5. a + i \in 1 .. m /\ at[k - 1] + i = first + (a + i)
          BY <4>1, <4>2, <4>3, <4>4
        <4> QED
          BY <4>5 DEF a, m
      <3>2. body[j] = E[k][i]
        BY <2>3
      <3> HIDE DEF j
      <3> QED
        BY <1>8, <3>1, <3>2
    <2> QED
      BY <1>8, <2>2, <2>3, <2>4, <2>5
  <1>13. IsLayout(at, index, cs)
    <2>1. \A k \in 1 .. n : EncodeColumn(cs[k]) = E[k]
      BY <1>3
    <2>2. /\ at \in [0 .. n -> Nat] /\ at[0] = first /\ Len(text) = at[n] + 1
          /\ \A k \in 1 .. n : at[k] = at[k - 1] + Len(EncodeColumn(cs[k]))
          /\ \A k \in 1 .. n : \A i \in 1 .. Len(EncodeColumn(cs[k])) :
                 text[at[k - 1] + i] = EncodeColumn(cs[k])[i]
      BY <1>10, <1>11, <1>12, <2>1
    <2> QED
      BY <2>2, Zenon DEF IsLayout, n, first, text
  <1> QED
    BY <1>7, <1>13 DEF text

-----------------------------------------------------------------------------
(* Searching and cutting.                                                  *)

\* i is where c first occurs in the text, at from or after it.
FirstAt(text, c, from, i) == /\ i \in from .. Len(text) - 1
                             /\ text[i + 1] = c
                             /\ \A j \in from .. i - 1 : text[j + 1] # c

\* indexOf finds the first place, if there is one.
LEMMA IndexOfIs ==
    ASSUME NEW S, NEW text \in Seq(S), NEW c, NEW from \in Nat
    PROVE  /\ IndexOf(text, c, from) # -1 => FirstAt(text, c, from, IndexOf(text, c, from))
           /\ \A i \in from .. Len(text) - 1 : text[i + 1] = c => IndexOf(text, c, from) # -1
           /\ IndexOf(text, c, from) \in Int
  <1> DEFINE found == {i \in from .. Len(text) - 1 : text[i + 1] = c}
  <1>1. Len(text) \in Nat
    BY LenProperties
  <1>2. IndexOf(text, c, from) = IF found = {} THEN -1 ELSE Min(found)
    BY DEF IndexOf
  <1>3. CASE found = {}
    <2>1. IndexOf(text, c, from) = -1
      BY <1>2, <1>3
    <2>2. \A i \in from .. Len(text) - 1 : text[i + 1] # c
      BY <1>3
    <2> QED
      BY <2>1, <2>2
  <1>4. CASE found # {}
    <2>1. found \in SUBSET Nat
      BY <1>1
    <2>2. \E n \in found : \A m \in found : n <= m
      BY <1>4, <2>1, LeastNatural
    <2>3. Min(found) \in found /\ \A m \in found : Min(found) <= m
      BY <2>2 DEF Min
    <2> DEFINE i == Min(found)
    <2>4. i \in from .. Len(text) - 1 /\ text[i + 1] = c /\ i \in Nat
      BY <2>1, <2>3
    <2>5. ASSUME NEW j \in from .. i - 1, text[j + 1] = c PROVE FALSE
      <3>1. j \in found /\ ~(i <= j)
        BY <1>1, <2>4, <2>5
      <3> QED
        BY <2>3, <3>1
    <2>6. IndexOf(text, c, from) = i
      BY <1>2, <1>4
    <2> HIDE DEF i
    <2>7. FirstAt(text, c, from, i)
      BY <2>4, <2>5 DEF FirstAt
    <2>8. i # -1 /\ i \in Int
      BY <2>4
    <2> QED
      BY <2>6, <2>7, <2>8
  <1> QED
    BY <1>3, <1>4

\* And what it finds is the only first place.
LEMMA IndexOfFirst ==
    ASSUME NEW S, NEW text \in Seq(S), NEW c, NEW from \in Nat, NEW i, FirstAt(text, c, from, i)
    PROVE  IndexOf(text, c, from) = i
  <1> DEFINE first == IndexOf(text, c, from)
  <1>1. Len(text) \in Nat
    BY LenProperties
  <1>2. first # -1
    BY IndexOfIs DEF FirstAt
  <1>3. FirstAt(text, c, from, first)
    BY <1>2, IndexOfIs
  <1> HIDE DEF first
  <1>4. i \in Int /\ first \in Int /\ from <= i /\ from <= first
    BY <1>1, <1>3 DEF FirstAt
  <1>5. ~(i < first)
    BY <1>3, <1>4 DEF FirstAt
  <1>6. ~(first < i)
    BY <1>3, <1>4 DEF FirstAt
  <1>7. first = i
    BY <1>4, <1>5, <1>6
  <1> QED
    BY <1>7 DEF first

\* What is between two positions of a text.
IsCut(cut, text, from, to) ==
    /\ Len(cut) = to - from
    /\ \A i \in 1 .. to - from : cut[i] = text[from + i]

\* A substring inside the limits of the text.
LEMMA SubstringType ==
    ASSUME NEW S, NEW text \in Seq(S), NEW from \in Int, NEW to \in Int,
           InRange(text, from, to)
    PROVE  /\ Substring(text, from, to) \in Seq(S)
           /\ IsCut(Substring(text, from, to), text, from, to)
  <1>1. Len(text) \in Nat
    BY LenProperties
  <1>2. from + 1 \in Int /\ 0 <= from /\ from <= to /\ to <= Len(text)
    BY DEF InRange
  <1>3. \A i \in from + 1 .. to : text[i] \in S
    <2> TAKE i \in from + 1 .. to
    <2>1. i \in 1 .. Len(text)
      BY <1>1, <1>2
    <2> QED
      BY <2>1, ElementOfSeq
  <1> DEFINE cut == SubSeq(text, from + 1, to)
  <1>4. /\ cut \in Seq(S)
        /\ Len(cut) = IF from + 1 <= to THEN to - (from + 1) + 1 ELSE 0
        /\ \A i \in 1 .. to - (from + 1) + 1 : cut[i] = text[(from + 1) + i - 1]
    <2> DEFINE m == from + 1
    <2>1. m \in Int /\ \A i \in m .. to : text[i] \in S
      BY <1>2, <1>3
    <2> HIDE DEF m
    <2>2. SubSeq(text, m, to) \in Seq(S)
      BY <2>1, SubSeqProperties
    <2>3. Len(SubSeq(text, m, to)) = IF m <= to THEN to - m + 1 ELSE 0
      BY <2>1, SubSeqProperties
    <2>4. \A i \in 1 .. to - m + 1 : SubSeq(text, m, to)[i] = text[m + i - 1]
      BY <2>1, SubSeqProperties
    <2> QED
      BY <2>2, <2>3, <2>4 DEF m
  <1> HIDE DEF cut
  <1>5. Len(cut) = to - from
    BY <1>2, <1>4
  <1>6. \A i \in 1 .. to - from : cut[i] = text[from + i]
    <2> TAKE i \in 1 .. to - from
    <2>1. i \in 1 .. to - (from + 1) + 1 /\ (from + 1) + i - 1 = from + i
      BY <1>2
    <2> QED
      BY <1>4, <2>1
  <1> QED
    BY <1>4, <1>5, <1>6 DEF Substring, IsCut, cut

\* Where a text lies inside another one it is cut out whole.
LEMMA SubstringIs ==
    ASSUME NEW S, NEW text \in Seq(S), NEW part \in Seq(S), NEW from \in Nat,
           from + Len(part) <= Len(text),
           \A i \in 1 .. Len(part) : text[from + i] = part[i]
    PROVE  /\ InRange(text, from, from + Len(part))
           /\ Substring(text, from, from + Len(part)) = part
  <1>1. Len(text) \in Nat /\ Len(part) \in Nat
    BY LenProperties
  <1> DEFINE to == from + Len(part)
             cut == Substring(text, from, to)
  <1>2. to \in Int /\ to - from = Len(part) /\ InRange(text, from, to)
    BY <1>1 DEF InRange
  <1> HIDE DEF to
  <1>3. cut \in Seq(S) /\ IsCut(cut, text, from, to)
    BY <1>2, SubstringType
  <1> HIDE DEF cut
  <1>4. Len(cut) = Len(part) /\ \A i \in 1 .. Len(cut) : cut[i] = part[i]
    BY <1>2, <1>3 DEF IsCut
  <1>5. cut = part
    BY <1>3, <1>4, SeqEqual
  <1> QED
    BY <1>2, <1>5 DEF to, cut

-----------------------------------------------------------------------------
(* One turn of the loop.                                                   *)

\* What ParseColumn adds to the row.
Added == [name |-> Substring(execRow, startIndex, EqualIndex),
          value |-> Substring(execRow, ValueIndex, ValueIndex + ParseInt(SizeText))]

\* The parser stands at the first unit of column c.
StandsAt(c) == /\ execRow \in Seq(Alphabet) /\ startIndex \in Nat
               /\ startIndex + Len(EncodeColumn(c)) <= Len(execRow)
               /\ \A i \in 1 .. Len(EncodeColumn(c)) :
                      execRow[startIndex + i] = EncodeColumn(c)[i]

\* The positions a column without an equals sign in its name is cut at.
LEMMA CutsAre ==
    ASSUME NEW c \in Columns, StandsAt(c), ~Contains(c.name, "=")
    PROVE  /\ EqualIndex = startIndex + EqualIn(c)
           /\ DotIndex = startIndex + DotIn(c)
           /\ InRange(execRow, startIndex, EqualIndex)
           /\ Substring(execRow, startIndex, EqualIndex) = c.name
           /\ InRange(execRow, EqualIndex + 1, DotIndex)
           /\ SizeText = SizeOf(c)
  <1> DEFINE p == startIndex
             text == execRow
             E == EncodeColumn(c)
             name == c.name
             size == SizeOf(c)
  <1>1. /\ text \in Seq(Alphabet) /\ p \in Nat /\ p + Len(E) <= Len(text)
        /\ \A i \in 1 .. Len(E) : text[p + i] = E[i]
    BY DEF StandsAt
  <1>2. /\ name \in Seq(Alphabet) /\ size \in Seq(Alphabet) /\ size \in Seq(DigitSet)
        /\ Len(name) \in Nat /\ Len(size) \in Nat /\ Len(c.value) \in Nat
    BY ColumnType
  <1>3. /\ Len(E) = Len(name) + 1 + Len(size) + 1 + Len(c.value) + 1
        /\ \A i \in 1 .. Len(name) : E[i] = name[i]
        /\ E[Len(name) + 1] = "="
        /\ \A i \in 1 .. Len(size) : E[Len(name) + 1 + i] = size[i]
        /\ E[Len(name) + 1 + Len(size) + 1] = ":"
    BY EncodeColumnIs DEF EqualIn, DotIn
  <1>4. \A i \in 1 .. Len(name) : name[i] # "="
    BY DEF Contains
  <1>5. \A i \in 1 .. Len(size) : size[i] # ":"
    <2>1. \A i \in 1 .. Len(size) : size[i] \in DigitSet
      BY <1>2, ElementOfSeq
    <2>2. ":" \notin DigitSet
      BY DigitsAre, Zenon
    <2> QED
      BY <2>1, <2>2, Zenon
  <1>6. Len(text) \in Nat
    BY <1>1, LenProperties
  <1> DEFINE n == Len(name)
             s == Len(size)
             v == Len(c.value)
             l == Len(E)
             t == Len(text)
             e == p + n
             d == p + n + 1 + s
  <1> HIDE DEF p, text, E, name, size
  <1>20. /\ n \in Nat /\ s \in Nat /\ v \in Nat /\ p \in Nat /\ t \in Nat
         /\ l = n + 1 + s + 1 + v + 1 /\ p + l <= t
    BY <1>1, <1>2, <1>3, <1>6
  <1> HIDE DEF n, s, v, l, t
  <1>7. \A i \in 1 .. n : text[p + i] = name[i]
    <2> TAKE i \in 1 .. n
    <2>1. i \in 1 .. l
      BY <1>20
    <2>2. text[p + i] = E[i]
      BY <1>1, <2>1, Zenon DEF l
    <2>3. E[i] = name[i]
      BY <1>3, Zenon DEF n
    <2> QED
      BY <2>2, <2>3
  <1>8. text[e + 1] = "="
    <2>1. n + 1 \in 1 .. l /\ p + (n + 1) = e + 1
      BY <1>20
    <2>2. text[p + (n + 1)] = E[n + 1]
      BY <1>1, <2>1, Zenon DEF l
    <2>3. E[n + 1] = "="
      BY <1>3 DEF n
    <2> QED
      BY <2>1, <2>2, <2>3
  <1>9. \A i \in 1 .. s : text[e + 1 + i] = size[i]
    <2> TAKE i \in 1 .. s
    <2>1. n + 1 + i \in 1 .. l /\ p + (n + 1 + i) = e + 1 + i
      BY <1>20
    <2>2. text[p + (n + 1 + i)] = E[n + 1 + i]
      BY <1>1, <2>1, Zenon DEF l
    <2>3. E[n + 1 + i] = size[i]
      BY <1>3, Zenon DEF n, s
    <2> QED
      BY <2>1, <2>2, <2>3
  <1>10. text[d + 1] = ":"
    <2> DEFINE i == n + 1 + s + 1
    <2>1. i \in 1 .. l /\ p + i = d + 1
      BY <1>20
    <2>2. E[i] = ":"
      BY <1>3 DEF n, s
    <2> HIDE DEF i
    <2>3. text[p + i] = E[i]
      BY <1>1, <2>1, Zenon DEF l
    <2> QED
      BY <2>1, <2>2, <2>3
  <1>11. /\ e \in Nat /\ d \in Nat /\ d = e + 1 + s /\ d + 1 <= t
         /\ e + 1 + s <= t /\ p + n <= t
    BY <1>20
  <1>12. FirstAt(text, "=", p, e)
    <2>1. e \in p .. t - 1
      BY <1>20, <1>11
    <2>2. ASSUME NEW j \in p .. e - 1 PROVE text[j + 1] # "="
      <3>1. j - p + 1 \in 1 .. n /\ p + (j - p + 1) = j + 1
        BY <1>20
      <3>2. text[p + (j - p + 1)] = name[j - p + 1]
        BY <1>7, <3>1, Zenon
      <3>3. name[j - p + 1] # "="
        BY <1>4, <3>1, Zenon DEF n
      <3> QED
        BY <3>1, <3>2, <3>3
    <2> QED
      BY <1>8, <2>1, <2>2 DEF FirstAt, t
  <1>13. FirstAt(text, ":", e, d)
    <2>1. d \in e .. t - 1
      BY <1>20, <1>11
    <2>2. ASSUME NEW j \in e .. d - 1 PROVE text[j + 1] # ":"
      <3>1. CASE j = e
        BY <1>8, <3>1
      <3>2. CASE j # e
        <4>1. j - e \in 1 .. s /\ e + 1 + (j - e) = j + 1
          BY <1>20, <1>11, <3>2
        <4>2. text[e + 1 + (j - e)] = size[j - e]
          BY <1>9, <4>1, Zenon
        <4>3. size[j - e] # ":"
          BY <1>5, <4>1, Zenon DEF s
        <4> QED
          BY <4>1, <4>2, <4>3
      <3> QED
        BY <3>1, <3>2
    <2> QED
      BY <1>10, <2>1, <2>2 DEF FirstAt, t
  <1> HIDE DEF e, d
  <1>14. IndexOf(text, "=", p) = e
    BY <1>1, <1>12, IndexOfFirst
  <1>15. IndexOf(text, ":", e) = d
    BY <1>1, <1>11, <1>13, IndexOfFirst
  <1>16. EqualIndex = e /\ DotIndex = d
    <2>1. EqualIndex = e
      BY <1>14 DEF EqualIndex, text, p
    <2>2. DotIndex = d
      BY <2>1, <1>15 DEF DotIndex, text
    <2> QED
      BY <2>1, <2>2
  <1>17. InRange(text, p, e) /\ Substring(text, p, e) = name
    <2>1. InRange(text, p, p + n) /\ Substring(text, p, p + n) = name
      <3>1. p + Len(name) <= Len(text) /\ \A i \in 1 .. Len(name) : text[p + i] = name[i]
        BY <1>7, <1>11 DEF n, t
      <3> QED
        BY <1>1, <1>2, <3>1, SubstringIs DEF n
    <2> QED
      BY <2>1 DEF e
  <1>18. InRange(text, e + 1, d) /\ Substring(text, e + 1, d) = size
    <2>1. e + 1 \in Nat
      BY <1>11
    <2>2. /\ InRange(text, e + 1, e + 1 + s)
          /\ Substring(text, e + 1, e + 1 + s) = size
      <3>1. /\ e + 1 + Len(size) <= Len(text)
            /\ \A i \in 1 .. Len(size) : text[e + 1 + i] = size[i]
        BY <1>9, <1>11 DEF s, t
      <3> QED
        BY <1>1, <1>2, <2>1, <3>1, SubstringIs, SMTT(30) DEF s
    <2> QED
      BY <1>11, <2>2
  <1>19. e = p + EqualIn(c) /\ d = p + DotIn(c)
    BY <1>20 DEF e, d, n, s, EqualIn, DotIn, name, size
  <1> QED
    BY <1>16, <1>17, <1>18, <1>19 DEF SizeText, text, p, name, size

\* A column that can be carried is read, and the parser then stands after it.
LEMMA CarriedIsRead ==
    ASSUME NEW c \in Columns, StandsAt(c), CarriedColumn(c)
    PROVE  /\ Parses /\ Added = c
           /\ ValueIndex + ParseInt(SizeText) + 1 = startIndex + Len(EncodeColumn(c))
  <1> DEFINE v == startIndex + DotIn(c) + 1
  <1>1. /\ EqualIndex = startIndex + EqualIn(c)
        /\ DotIndex = startIndex + DotIn(c)
        /\ InRange(execRow, startIndex, EqualIndex)
        /\ Substring(execRow, startIndex, EqualIndex) = c.name
        /\ InRange(execRow, EqualIndex + 1, DotIndex)
        /\ SizeText = SizeOf(c)
    BY CutsAre DEF CarriedColumn
  <1>2. /\ c.value \in Seq(Alphabet) /\ Len(c.name) \in Nat /\ Len(c.value) \in Nat
        /\ SizeOf(c) \in Seq(DigitSet) /\ Len(SizeOf(c)) \in Nat /\ Len(SizeOf(c)) >= 1
        /\ ParseInt(SizeOf(c)) = StrLen(c.value)
        /\ c = [name |-> c.name, value |-> c.value]
    BY ColumnType
  <1>3. /\ execRow \in Seq(Alphabet) /\ startIndex \in Nat
        /\ startIndex + Len(EncodeColumn(c)) <= Len(execRow)
        /\ \A i \in 1 .. Len(EncodeColumn(c)) : execRow[startIndex + i] = EncodeColumn(c)[i]
    BY DEF StandsAt
  <1>4. /\ Len(EncodeColumn(c)) = DotIn(c) + 1 + Len(c.value) + 1
        /\ \A i \in 1 .. Len(c.value) : EncodeColumn(c)[DotIn(c) + 1 + i] = c.value[i]
    BY EncodeColumnIs
  <1>5. Len(execRow) \in Nat /\ DotIn(c) \in Nat /\ EqualIn(c) \in Nat
    BY <1>2, <1>3, LenProperties DEF DotIn, EqualIn
  <1>6. ParseInt(SizeText) = Len(c.value)
    BY <1>1, <1>2 DEF CarriedColumn
  <1>7. IsInt(SizeText)
    <2>1. \A k \in 1 .. Len(SizeOf(c)) : SizeOf(c)[k] \in DigitSet
      BY <1>2, ElementOfSeq
    <2>2. \A x \in DigitSet : Contains(Digits, x)
      BY DigitsAre, Zenon
    <2>3. SizeOf(c) # <<>>
      BY <1>2
    <2>4. \A k \in 1 .. Len(SizeOf(c)) : Contains(Digits, SizeOf(c)[k])
      BY <2>1, <2>2, Zenon
    <2> QED
      BY <1>1, <2>3, <2>4, Zenon DEF IsInt
  <1>8. v \in Nat /\ ValueIndex = v
    BY <1>1, <1>3, <1>5 DEF ValueIndex
  <1>9. v + Len(c.value) <= Len(execRow)
    <2> DEFINE d == DotIn(c)
               l == Len(c.value)
    <2>1. Len(EncodeColumn(c)) = d + 1 + l + 1 /\ v = startIndex + d + 1
      BY <1>4
    <2>2. d \in Nat /\ l \in Nat
      BY <1>2, <1>5
    <2> HIDE DEF d, l, v
    <2>3. startIndex + (d + 1 + l + 1) <= Len(execRow)
      BY <1>3, <2>1
    <2>4. v + l <= Len(execRow)
      BY <1>3, <1>5, <2>1, <2>2, <2>3
    <2> QED
      BY <2>4 DEF l
  <1>10. \A i \in 1 .. Len(c.value) : execRow[v + i] = c.value[i]
    <2> TAKE i \in 1 .. Len(c.value)
    <2> DEFINE j == DotIn(c) + 1 + i
    <2>1. j \in 1 .. Len(EncodeColumn(c)) /\ startIndex + j = v + i
      <3>1. /\ Len(EncodeColumn(c)) = DotIn(c) + 1 + Len(c.value) + 1
            /\ DotIn(c) \in Nat /\ Len(c.value) \in Nat /\ startIndex \in Nat
        BY <1>2, <1>3, <1>4, <1>5
      <3> DEFINE d == DotIn(c)
                 l == Len(c.value)
      <3>2. i \in 1 .. l /\ d \in Nat /\ l \in Nat
        BY <3>1
      <3> HIDE DEF d, l
      <3>3. d + 1 + i \in 1 .. d + 1 + l + 1 /\ startIndex + (d + 1 + i) = (startIndex + d + 1) + i
        BY <3>1, <3>2
      <3> QED
        BY <3>1, <3>3 DEF d, l
    <2>2. EncodeColumn(c)[j] = c.value[i]
      BY <1>4
    <2> HIDE DEF j, v
    <2>3. execRow[startIndex + j] = EncodeColumn(c)[j]
      BY <1>3, <2>1, Zenon
    <2> QED
      BY <2>1, <2>2, <2>3
  <1>11. v + Len(c.value) + 1 = startIndex + Len(EncodeColumn(c))
    BY <1>2, <1>3, <1>4, <1>5
  <1> HIDE DEF v
  <1>12. /\ InRange(execRow, v, v + Len(c.value))
         /\ Substring(execRow, v, v + Len(c.value)) = c.value
    BY <1>2, <1>3, <1>8, <1>9, <1>10, SubstringIs
  <1>13. Added = c
    BY <1>1, <1>2, <1>6, <1>8, <1>12 DEF Added
  <1>14. EqualIndex # -1
    BY <1>1, <1>3, <1>5
  <1>15. Parses
    BY <1>1, <1>6, <1>7, <1>8, <1>12, <1>14 DEF Parses
  <1> QED
    BY <1>6, <1>8, <1>11, <1>13, <1>15

\* What a turn of the loop reads, and how far it moves.
LEMMA TurnIs ==
    ASSUME execRow \in Seq(Alphabet), startIndex \in Nat, Parses
    PROVE  /\ FirstAt(execRow, "=", startIndex, EqualIndex)
           /\ EqualIndex \in Nat /\ DotIndex \in Nat /\ ParseInt(SizeText) \in Nat
           /\ startIndex <= EqualIndex /\ EqualIndex < DotIndex
           /\ ValueIndex + ParseInt(SizeText) <= Len(execRow)
           /\ Added.name \in Seq(Alphabet) /\ Added.value \in Seq(Alphabet)
           /\ Len(Added.name) = EqualIndex - startIndex
           /\ Len(Added.value) = ParseInt(SizeText)
  <1>1. Len(execRow) \in Nat
    BY LenProperties
  <1>2. /\ EqualIndex # -1 /\ IsInt(SizeText)
        /\ InRange(execRow, startIndex, EqualIndex)
        /\ InRange(execRow, EqualIndex + 1, DotIndex)
        /\ InRange(execRow, ValueIndex, ValueIndex + ParseInt(SizeText))
    BY DEF Parses
  <1>3. FirstAt(execRow, "=", startIndex, EqualIndex)
    BY <1>2, IndexOfIs DEF EqualIndex
  <1>4. EqualIndex \in Nat
    BY <1>1, <1>3 DEF FirstAt
  <1>5. DotIndex \in Int
    BY <1>4, IndexOfIs DEF DotIndex
  <1>6. startIndex <= EqualIndex /\ EqualIndex < DotIndex /\ DotIndex \in Nat
    BY <1>2, <1>4, <1>5 DEF InRange
  <1>7. SizeText \in Seq(Alphabet)
    BY <1>2, <1>4, <1>5, SubstringType DEF SizeText
  <1>8. ParseInt(SizeText) \in Nat
    BY <1>2, <1>7, ParseIntType
  <1>9. ValueIndex \in Nat /\ ValueIndex + ParseInt(SizeText) \in Nat
    BY <1>6, <1>8 DEF ValueIndex
  <1>10. ValueIndex + ParseInt(SizeText) <= Len(execRow)
    BY <1>2 DEF InRange
  <1> DEFINE name == Substring(execRow, startIndex, EqualIndex)
             value == Substring(execRow, ValueIndex, ValueIndex + ParseInt(SizeText))
  <1>11. name \in Seq(Alphabet) /\ Len(name) = EqualIndex - startIndex
    BY <1>2, <1>4, SubstringType DEF IsCut
  <1>12. /\ value \in Seq(Alphabet)
         /\ Len(value) = (ValueIndex + ParseInt(SizeText)) - ValueIndex
    BY <1>2, <1>9, SubstringType DEF IsCut
  <1>13. (ValueIndex + ParseInt(SizeText)) - ValueIndex = ParseInt(SizeText)
    BY <1>8, <1>9
  <1>14. Added.name = name /\ Added.value = value
    BY DEF Added
  <1> HIDE DEF name, value
  <1> QED
    BY <1>3, <1>4, <1>6, <1>8, <1>10, <1>11, <1>12, <1>13, <1>14

\* A column that cannot be carried is altered, where it is read at all.
LEMMA OtherIsAltered ==
    ASSUME NEW c \in Columns, StandsAt(c), ~CarriedColumn(c), Parses
    PROVE  Added # c
  <1>1. execRow \in Seq(Alphabet) /\ startIndex \in Nat
    BY DEF StandsAt
  <1>2. /\ FirstAt(execRow, "=", startIndex, EqualIndex)
        /\ EqualIndex \in Nat
        /\ Len(Added.name) = EqualIndex - startIndex
        /\ Len(Added.value) = ParseInt(SizeText)
    BY <1>1, TurnIs
  <1>3. CASE Contains(c.name, "=")
    <2>1. PICK i \in 1 .. Len(c.name) : c.name[i] = "="
      BY <1>3 DEF Contains
    <2>2. Len(c.name) \in Nat /\ Len(c.value) \in Nat /\ Len(SizeOf(c)) \in Nat
      BY ColumnType
    <2>3. /\ Len(EncodeColumn(c)) = DotIn(c) + 1 + Len(c.value) + 1
          /\ \A j \in 1 .. Len(c.name) : EncodeColumn(c)[j] = c.name[j]
      BY EncodeColumnIs
    <2>4. i \in 1 .. Len(EncodeColumn(c))
      <3>1. Len(EncodeColumn(c)) = Len(c.name) + 1 + Len(SizeOf(c)) + 1 + Len(c.value) + 1
        BY <2>3 DEF DotIn
      <3> DEFINE n == Len(c.name)
                 z == Len(SizeOf(c))
                 v == Len(c.value)
      <3>2. n \in Nat /\ z \in Nat /\ v \in Nat /\ i \in 1 .. n
        BY <2>2
      <3> HIDE DEF n, z, v
      <3>3. i \in 1 .. n + 1 + z + 1 + v + 1
        BY <3>2
      <3> QED
        BY <3>1, <3>3 DEF n, z, v
    <2>5. execRow[startIndex + i] = "="
      BY <2>1, <2>3, <2>4 DEF StandsAt
    <2>6. ~(startIndex + i - 1 < EqualIndex)
      <3> SUFFICES ASSUME startIndex + i - 1 < EqualIndex PROVE FALSE
        OBVIOUS
      <3>1. startIndex + i - 1 \in startIndex .. EqualIndex - 1
            /\ (startIndex + i - 1) + 1 = startIndex + i
        BY <1>1, <1>2
      <3> QED
        BY <1>2, <2>5, <3>1 DEF FirstAt
    <2>7. EqualIndex - startIndex < Len(c.name)
      BY <1>1, <1>2, <2>2, <2>6
    <2>8. EqualIndex - startIndex \in Int
      BY <1>1, <1>2
    <2> QED
      BY <1>2, <2>2, <2>7, <2>8
  <1>4. CASE ~Contains(c.name, "=")
    <2>1. SizeText = SizeOf(c)
      BY <1>4, CutsAre
    <2>2. ParseInt(SizeText) = StrLen(c.value)
      BY <2>1, ColumnType
    <2>3. StrLen(c.value) # Len(c.value)
      BY <1>4 DEF CarriedColumn
    <2> QED
      BY <1>2, <2>2, <2>3
  <1> QED
    BY <1>3, <1>4

-----------------------------------------------------------------------------
(* The invariant.                                                          *)

Rows == [name : Seq(Alphabet), value : Seq(Alphabet)]

\* Everything read so far was written, and the next column starts here.
OnTrack ==
    /\ Len(row) <= Len(columns)
    /\ \A k \in 1 .. Len(row) : row[k] = columns[k] /\ CarriedColumn(columns[k])
    /\ \E at : IsLayout(at, rowIndex, columns) /\ startIndex = at[Len(row)]
    /\ status # "threw"
    /\ status = "returned" => Len(row) = Len(columns)

\* Column k cannot be carried, and was altered or made the parser throw.
LostAt(k) == /\ ~CarriedColumn(columns[k])
             /\ \/ status = "threw"
                \/ k <= Len(row) /\ row[k] # columns[k]

Lost == \E k \in 1 .. Len(columns) : LostAt(k)

Inv == /\ TypeOK
       /\ execRow = Encode(rowIndex, columns)
       /\ rowId = rowIndex
       /\ row \in Seq(Rows)
       /\ OnTrack \/ Lost

\* The types, out of the invariant.
LEMMA Basics ==
    ASSUME Inv
    PROVE  /\ rowIndex \in Nat /\ columns \in Seq(Columns) /\ row \in Seq(Rows)
           /\ Len(row) \in Nat /\ Len(columns) \in Nat /\ Len(execRow) \in Nat
           /\ startIndex \in Nat /\ execRow \in Seq(Alphabet)
           /\ \A k \in 1 .. Len(columns) : columns[k] \in Columns
  <1>1. /\ rowIndex \in Nat /\ columns \in Seq(Columns) /\ row \in Seq(Rows)
        /\ startIndex \in Nat /\ execRow = Encode(rowIndex, columns)
    BY DEF Inv, TypeOK
  <1>2. execRow \in Seq(Alphabet)
    BY <1>1, EncodeIs
  <1>3. Len(row) \in Nat /\ Len(columns) \in Nat /\ Len(execRow) \in Nat
    BY <1>1, <1>2, LenProperties
  <1>4. \A k \in 1 .. Len(columns) : columns[k] \in Columns
    BY <1>1, ElementOfSeq
  <1> QED
    BY <1>1, <1>2, <1>3, <1>4

\* The index is read before the first column.
LEMMA InitInv == Init => Inv
  <1> SUFFICES ASSUME Init PROVE Inv
    OBVIOUS
  <1> DEFINE number == Decimal[rowIndex]
             n == Len(number)
             text == execRow
  <1>1. /\ rowIndex \in Nat /\ columns \in Seq(Columns) /\ row = <<>> /\ status = "parsing"
        /\ text = Encode(rowIndex, columns)
    <2>1. /\ rowIndex \in Indexes /\ columns \in BoundedSeq(Columns, MaxColumns) \ {<<>>}
          /\ row = <<>> /\ status = "parsing" /\ text = Encode(rowIndex, columns)
      BY Zenon DEF Init
    <2>2. BoundedSeq(Columns, MaxColumns) \subseteq Seq(Columns)
      BY RowCodecAssumption DEF BoundedSeq, SeqOf
    <2> QED
      BY <2>1, <2>2, RowCodecAssumption
  <1>2. /\ startIndex = IndexOf(text, Comma, 0) + 1
        /\ rowId = ParseInt(Substring(text, 0, IndexOf(text, Comma, 0)))
    BY Zenon DEF Init, Comma
  <1>3. number \in Seq(DigitSet) /\ n \in Nat /\ ParseInt(number) = rowIndex
    BY <1>1, ParseIntDecimal, LenProperties
  <1>4. /\ text \in Seq(Alphabet)
        /\ \A i \in 1 .. n : text[i] = number[i]
        /\ text[n + 1] = Comma
    BY <1>1, EncodeIs
  <1>5. PICK at : IsLayout(at, rowIndex, columns)
    BY <1>1, EncodeIs
  <1>6. at[0] = n + 1 /\ at \in [0 .. Len(columns) -> Nat] /\ Len(text) = at[Len(columns)] + 1
    BY <1>1, <1>5 DEF IsLayout
  <1>7. Len(text) \in Nat /\ Len(columns) \in Nat
    BY <1>1, <1>4, LenProperties
  <1>8. n + 1 <= Len(text)
    <2> DEFINE Ahead == {k \in 0 .. Len(columns) : at[0] <= at[k]}
    <2>1. 0 \in Ahead
      BY <1>6, <1>7
    <2>2. ASSUME NEW k \in 1 .. Len(columns), k - 1 \in Ahead PROVE k \in Ahead
      <3>1. columns[k] \in Columns
        BY <1>1, ElementOfSeq
      <3>2. Len(EncodeColumn(columns[k])) \in Nat
        BY <3>1, EncodeColumnIs, LenProperties
      <3>3. at[k] = at[k - 1] + Len(EncodeColumn(columns[k]))
        BY <1>5 DEF IsLayout
      <3>4. at[k - 1] \in Nat /\ at[0] <= at[k - 1] /\ at[0] \in Nat
        BY <1>6, <1>7, <2>2
      <3>5. at[0] <= at[k]
        BY <3>2, <3>3, <3>4
      <3> QED
        BY <1>7, <3>5
    <2>3. Len(columns) \in Ahead
      <3> HIDE DEF Ahead
      <3>1. \A k \in 0 .. Len(columns) : k \in Ahead
        BY <1>7, <2>1, <2>2, SetInductionTo
      <3>2. Len(columns) \in 0 .. Len(columns)
        BY <1>7
      <3> QED
        BY <3>1, <3>2
    <2>4. at[0] <= at[Len(columns)] /\ at[Len(columns)] \in Nat
      BY <1>6, <1>7, <2>3
    <2> QED
      BY <1>3, <1>6, <2>4
  <1>9. \A i \in 1 .. n : number[i] # Comma
    <2>1. \A i \in 1 .. n : number[i] \in DigitSet
      BY <1>3, ElementOfSeq
    <2>2. Comma \notin DigitSet
      BY DigitsAre, Zenon DEF Comma
    <2> QED
      BY <2>1, <2>2, Zenon
  <1> HIDE DEF number, n, text
  <1>10. FirstAt(text, Comma, 0, n)
    <2>1. n \in 0 .. Len(text) - 1
      BY <1>3, <1>7, <1>8
    <2>2. ASSUME NEW j \in 0 .. n - 1 PROVE text[j + 1] # Comma
      <3>1. j + 1 \in 1 .. n
        BY <1>3
      <3> QED
        BY <1>4, <1>9, <3>1, Zenon
    <2> QED
      BY <1>4, <2>1, <2>2 DEF FirstAt
  <1>11. IndexOf(text, Comma, 0) = n
    BY <1>4, <1>10, IndexOfFirst
  <1>12. startIndex = n + 1
    BY <1>2, <1>11
  <1>13. rowId = rowIndex
    <2>1. number \in Seq(Alphabet)
      <3>1. DigitSet \subseteq Alphabet
        BY DEF Alphabet
      <3> QED
        BY <1>3, <3>1, SeqMonotonic
    <2>2. 0 + n <= Len(text) /\ 0 + n = n
      BY <1>3, <1>7, <1>8
    <2>3. \A i \in 1 .. n : text[0 + i] = number[i]
      <3>1. \A i \in 1 .. n : 0 + i = i
        BY <1>3
      <3> QED
        BY <1>4, <3>1
    <2>4. Substring(text, 0, 0 + n) = number
      BY <1>4, <2>1, <2>2, <2>3, SubstringIs DEF n
    <2> QED
      BY <1>2, <1>3, <1>11, <2>2, <2>4
  <1>14. startIndex \in 0 .. Len(text) + 1
    BY <1>3, <1>7, <1>8, <1>12
  <1>15. TypeOK
    BY <1>1, <1>13, <1>14 DEF TypeOK, text
  <1>16. OnTrack
    <2>1. Len(row) = 0 /\ \A k \in 1 .. Len(row) : FALSE
      BY <1>1
    <2>2. startIndex = at[Len(row)]
      BY <1>6, <1>12, <2>1
    <2> QED
      BY <1>1, <1>5, <1>7, <2>1, <2>2 DEF OnTrack
  <1>17. row \in Seq(Rows)
    BY <1>1
  <1> QED
    BY <1>1, <1>13, <1>15, <1>16, <1>17 DEF Inv, text

\* As long as the parser is on track it stands at the next column, if there
\* is one; and there is one exactly when more than the newline is left.
LEMMA NextColumn ==
    ASSUME Inv, OnTrack
    PROVE  /\ MoreText <=> Len(row) < Len(columns)
           /\ Len(row) < Len(columns) => /\ Len(row) + 1 \in 1 .. Len(columns)
                                         /\ StandsAt(columns[Len(row) + 1])
  <1> DEFINE n == Len(columns)
             k == Len(row)
             L(i) == Len(EncodeColumn(columns[i]))
  <1>1. /\ k \in Nat /\ n \in Nat /\ k <= n /\ startIndex \in Nat /\ execRow \in Seq(Alphabet)
        /\ execRow = Encode(rowIndex, columns)
        /\ \A i \in 1 .. n : columns[i] \in Columns
    BY Basics DEF OnTrack, Inv
  <1>2. PICK at : IsLayout(at, rowIndex, columns) /\ startIndex = at[k]
    BY DEF OnTrack
  <1>3. \A i \in 1 .. n : L(i) \in Nat /\ L(i) >= 1
    <2> TAKE i \in 1 .. n
    <2>1. columns[i] \in Columns
      BY <1>1
    <2>2. Len(EncodeColumn(columns[i])) = DotIn(columns[i]) + 1 + Len(columns[i].value) + 1
      BY <2>1, EncodeColumnIs
    <2>3. DotIn(columns[i]) \in Nat /\ Len(columns[i].value) \in Nat
      BY <2>1, ColumnSpan
    <2> QED
      BY <2>2, <2>3
  <1>4. /\ at \in [0 .. n -> Nat]
        /\ \A i \in 1 .. n : at[i] = at[i - 1] + L(i)
        /\ Len(execRow) = at[n] + 1
    BY <1>1, <1>2 DEF IsLayout
  <1>5. \A i \in 1 .. n : \A j \in 1 .. L(i) :
            execRow[at[i - 1] + j] = EncodeColumn(columns[i])[j]
    BY <1>1, <1>2 DEF IsLayout
  <1> HIDE DEF n, k, L
  <1> DEFINE Ahead == {i \in 0 .. n : k <= i => at[k] + i <= at[i] + k}
  <1>6. \A i \in 0 .. n : i \in Ahead
    <2>1. 0 \in Ahead
      <3>1. k <= 0 => k = 0
        BY <1>1
      <3> QED
        BY <1>1, <1>4, <3>1
    <2>2. ASSUME NEW i \in 1 .. n, i - 1 \in Ahead PROVE i \in Ahead
      <3> SUFFICES ASSUME k <= i PROVE at[k] + i <= at[i] + k
        BY <1>1
      <3>1. at[i] \in Nat /\ at[i - 1] \in Nat /\ at[k] \in Nat
        BY <1>1, <1>4
      <3>2. CASE k = i
        BY <1>1, <3>1, <3>2
      <3>3. CASE k # i
        <4>1. k <= i - 1
          BY <1>1, <3>3
        <4>2. at[k] + (i - 1) <= at[i - 1] + k
          BY <2>2, <4>1
        <4>3. at[i] = at[i - 1] + L(i) /\ L(i) \in Nat /\ L(i) >= 1
          BY <1>3, <1>4, Zenon
        <4>4. at[i - 1] + 1 <= at[i]
          BY <3>1, <4>3
        <4>5. i \in Nat /\ k \in Nat
          BY <1>1
        <4>6. \A x, y, z \in Nat : x + (i - 1) <= y + k /\ y + 1 <= z => x + i <= z + k
          BY <4>5
        <4> QED
          BY <3>1, <4>2, <4>4, <4>6, Zenon
      <3> QED
        BY <3>2, <3>3
    <2> HIDE DEF Ahead
    <2> QED
      BY <1>1, <2>1, <2>2, SetInductionTo
  <1>7. at[n] \in Nat /\ at[k] \in Nat
    BY <1>1, <1>4
  <1>8. at[k] + n <= at[n] + k
    <2>1. n \in 0 .. n
      BY <1>1
    <2> QED
      BY <1>1, <1>6, <2>1
  <1>9. MoreText <=> k < n
    <2>1. MoreText <=> at[k] < at[n]
      BY <1>2, <1>4, <1>7 DEF MoreText
    <2>2. CASE k = n
      BY <1>1, <1>7, <2>1, <2>2
    <2>3. CASE k < n
      BY <1>1, <1>7, <1>8, <2>1, <2>3
    <2> QED
      BY <1>1, <2>2, <2>3
  <1>10. ASSUME k < n PROVE k + 1 \in 1 .. n /\ StandsAt(columns[k + 1])
    <2>1. k + 1 \in 1 .. n /\ (k + 1) - 1 = k /\ k + 1 \in 0 .. n
      BY <1>1, <1>10
    <2>2. at[k + 1] = at[k] + L(k + 1)
      BY <1>4, <2>1
    <2>3. \A j \in 1 .. L(k + 1) : execRow[at[k] + j] = EncodeColumn(columns[k + 1])[j]
      BY <1>5, <2>1
    <2>4. at[k + 1] <= at[n]
      <3> DEFINE After == {i \in 0 .. n : k + 1 <= i => at[k + 1] <= at[i]}
      <3>1. 0 \in After
        BY <1>1
      <3>2. ASSUME NEW i \in 1 .. n, i - 1 \in After PROVE i \in After
        <4>1. at[i] = at[i - 1] + L(i) /\ L(i) \in Nat
          BY <1>3, <1>4, Zenon
        <4>2. at[i] \in Nat /\ at[i - 1] \in Nat /\ at[k + 1] \in Nat
          BY <1>1, <1>4, <2>1
        <4>3. CASE i = k + 1
          BY <4>2, <4>3
        <4>4. CASE i # k + 1
          <5>1. k + 1 <= i => k + 1 <= i - 1
            BY <1>1, <4>4
          <5> QED
            BY <3>2, <4>1, <4>2, <5>1
        <4> QED
          BY <4>3, <4>4
      <3>3. n \in After
        <4>1. n \in 0 .. n
          BY <1>1
        <4> HIDE DEF After
        <4> QED
          BY <1>1, <3>1, <3>2, <4>1, SetInductionTo
      <3> QED
        BY <1>1, <1>10, <3>3
    <2>5. at[k + 1] \in Nat /\ L(k + 1) \in Nat
      BY <1>3, <1>4, <2>1
    <2>6. startIndex + L(k + 1) <= Len(execRow)
      BY <1>2, <1>4, <1>7, <2>2, <2>4, <2>5
    <2> QED
      BY <1>1, <1>2, <2>1, <2>3, <2>6 DEF StandsAt, L
  <1> QED
    BY <1>9, <1>10 DEF n, k

\* A turn of the loop keeps the invariant: it reads the next column as
\* written, if that is one the format carries, or the row is lost.
LEMMA ParseColumnInv == Inv /\ ParseColumn => Inv'
  <1> SUFFICES ASSUME Inv, ParseColumn PROVE Inv'
    OBVIOUS
  <1>1. /\ rowIndex \in Nat /\ columns \in Seq(Columns) /\ row \in Seq(Rows)
        /\ Len(row) \in Nat /\ Len(columns) \in Nat /\ Len(execRow) \in Nat
        /\ startIndex \in Nat /\ execRow \in Seq(Alphabet)
        /\ \A k \in 1 .. Len(columns) : columns[k] \in Columns
    BY Basics
  <1>2. /\ Parses /\ MoreText /\ status = "parsing" /\ row' = Append(row, Added)
        /\ startIndex' = ValueIndex + ParseInt(SizeText) + 1
        /\ rowIndex' = rowIndex /\ columns' = columns /\ execRow' = execRow
        /\ rowId' = rowId /\ status' = status
    BY DEF ParseColumn, Added
  <1>3. /\ EqualIndex \in Nat /\ DotIndex \in Nat /\ ParseInt(SizeText) \in Nat
        /\ ValueIndex + ParseInt(SizeText) <= Len(execRow)
        /\ Added.name \in Seq(Alphabet) /\ Added.value \in Seq(Alphabet)
    BY <1>1, <1>2, TurnIs
  <1>4. Added \in Rows
    <2>1. Added = [name |-> Added.name, value |-> Added.value]
      BY DEF Added
    <2> QED
      BY <1>3, <2>1 DEF Rows
  <1>5. /\ row' \in Seq(Rows) /\ Len(row') = Len(row) + 1
        /\ \A k \in 1 .. Len(row) : row'[k] = row[k]
        /\ row'[Len(row) + 1] = Added
    BY <1>1, <1>2, <1>4, AppendProperties
  <1>6. startIndex' \in 0 .. Len(execRow) + 1
    <2>1. ValueIndex \in Nat
      BY <1>3 DEF ValueIndex
    <2> QED
      BY <1>1, <1>2, <1>3, <2>1
  <1>7. TypeOK'
    BY <1>2, <1>6 DEF Inv, TypeOK
  <1>8. ASSUME Lost PROVE Lost'
    <2>1. PICK k \in 1 .. Len(columns) : LostAt(k)
      BY <1>8 DEF Lost
    <2>2. k <= Len(row) /\ row[k] # columns[k] /\ ~CarriedColumn(columns[k])
      BY <1>2, <2>1 DEF LostAt
    <2>3. row'[k] # columns[k] /\ k <= Len(row')
      BY <1>1, <1>5, <2>2
    <2> QED
      BY <1>2, <2>2, <2>3 DEF Lost, LostAt
  <1>9. ASSUME OnTrack PROVE OnTrack' \/ Lost'
    <2> DEFINE k == Len(row) + 1
               c == columns[k]
    <2>1. k \in 1 .. Len(columns) /\ c \in Columns /\ StandsAt(c)
      BY <1>1, <1>2, <1>9, NextColumn
    <2>2. CASE CarriedColumn(c)
      <3>1. /\ Added = c
            /\ ValueIndex + ParseInt(SizeText) + 1 = startIndex + Len(EncodeColumn(c))
        BY <2>1, <2>2, CarriedIsRead
      <3>2. PICK at : IsLayout(at, rowIndex, columns) /\ startIndex = at[Len(row)]
        BY <1>9 DEF OnTrack
      <3>3. at[k] = at[k - 1] + Len(EncodeColumn(columns[k])) /\ k - 1 = Len(row)
        BY <1>1, <2>1, <3>2 DEF IsLayout
      <3>4. startIndex' = at[Len(row')]
        BY <1>2, <1>5, <3>1, <3>2, <3>3
      <3>5. \A i \in 1 .. Len(row') : row'[i] = columns[i] /\ CarriedColumn(columns[i])
        <4> TAKE i \in 1 .. Len(row')
        <4>1. CASE i = k
          BY <1>5, <2>2, <3>1, <4>1
        <4>2. CASE i # k
          <5>1. i \in 1 .. Len(row)
            BY <1>1, <1>5, <4>2
          <5> QED
            BY <1>5, <1>9, <5>1 DEF OnTrack
        <4> QED
          BY <4>1, <4>2
      <3>6. Len(row') <= Len(columns)
        BY <1>1, <1>5, <2>1
      <3>7. OnTrack'
        BY <1>2, <3>2, <3>4, <3>5, <3>6 DEF OnTrack
      <3> QED
        BY <3>7
    <2>3. CASE ~CarriedColumn(c)
      <3>1. Added # c
        BY <1>2, <2>1, <2>3, OtherIsAltered
      <3>2. PICK i \in 1 .. Len(columns) : i = k
        BY <2>1
      <3>3. row'[i] # columns[i] /\ i <= Len(row') /\ ~CarriedColumn(columns[i])
        BY <1>1, <1>5, <2>3, <3>1, <3>2
      <3>4. Lost'
        BY <1>2, <3>3 DEF Lost, LostAt
      <3> QED
        BY <3>4
    <2> QED
      BY <2>2, <2>3
  <1>10. OnTrack' \/ Lost'
    BY <1>8, <1>9 DEF Inv
  <1> QED
    BY <1>2, <1>5, <1>7, <1>10 DEF Inv

\* An exception keeps it: no column that the format carries makes one.
LEMMA ThrowInv == Inv /\ Throw => Inv'
  <1> SUFFICES ASSUME Inv, Throw PROVE Inv'
    OBVIOUS
  <1>1. /\ ~Parses /\ MoreText /\ status' = "threw"
        /\ rowIndex' = rowIndex /\ columns' = columns /\ execRow' = execRow
        /\ rowId' = rowId /\ startIndex' = startIndex /\ row' = row
    BY DEF Throw
  <1>2. \E k \in 1 .. Len(columns) : ~CarriedColumn(columns[k])
    <2>1. CASE Lost
      BY <2>1 DEF Lost, LostAt
    <2>2. CASE OnTrack
      <3> DEFINE k == Len(row) + 1
      <3>1. k \in 1 .. Len(columns) /\ columns[k] \in Columns /\ StandsAt(columns[k])
        BY <1>1, <2>2, Basics, NextColumn
      <3>2. ~CarriedColumn(columns[k])
        BY <1>1, <3>1, CarriedIsRead
      <3> QED
        BY <3>1, <3>2
    <2> QED
      BY <2>1, <2>2 DEF Inv
  <1>3. Lost'
    BY <1>1, <1>2 DEF Lost, LostAt
  <1> QED
    BY <1>1, <1>3 DEF Inv, TypeOK

\* The end of the loop keeps it: all columns have been read, or one is lost.
LEMMA ReturnInv == Inv /\ Return => Inv'
  <1> SUFFICES ASSUME Inv, Return PROVE Inv'
    OBVIOUS
  <1>1. /\ ~MoreText /\ status = "parsing" /\ status' = "returned"
        /\ rowIndex' = rowIndex /\ columns' = columns /\ execRow' = execRow
        /\ rowId' = rowId /\ startIndex' = startIndex /\ row' = row
    BY DEF Return
  <1>2. CASE Lost
    <2>1. Lost'
      BY <1>1, <1>2 DEF Lost, LostAt
    <2> QED
      BY <1>1, <2>1 DEF Inv, TypeOK
  <1>3. CASE OnTrack
    <2>1. ~(Len(row) < Len(columns)) /\ Len(row) <= Len(columns)
      BY <1>1, <1>3, NextColumn DEF OnTrack
    <2>2. Len(row) = Len(columns)
      BY <2>1, Basics
    <2>3. OnTrack'
      BY <1>1, <1>3, <2>2 DEF OnTrack
    <2> QED
      BY <1>1, <2>3 DEF Inv, TypeOK
  <1> QED
    BY <1>2, <1>3 DEF Inv

\* Every step keeps the invariant.
LEMMA NextInv == Inv /\ [Next]_vars => Inv'
  <1> SUFFICES ASSUME Inv, [Next]_vars PROVE Inv'
    OBVIOUS
  <1>1. CASE UNCHANGED vars
    BY <1>1 DEF vars, Inv, TypeOK, OnTrack, Lost, LostAt
  <1> QED
    BY <1>1, ParseColumnInv, ThrowInv, ReturnInv DEF Next

\* It holds for ever.
LEMMA Invariant == Spec => []Inv
  BY InitInv, NextInv, PTL DEF Spec

-----------------------------------------------------------------------------
(* Looking columns up.                                                     *)

\* A name finds one of the columns that have it, when there are any.
LEMMA ColumnOfIs ==
    ASSUME NEW S, NEW cs \in Seq(S), NEW k \in 1 .. Len(cs)
    PROVE  \E j \in 1 .. Len(cs) :
               cs[j].name = cs[k].name /\ ColumnOf(cs, cs[k].name) = cs[j].value
  <1> DEFINE at == {j \in 1 .. Len(cs) : cs[j].name = cs[k].name}
  <1>1. at \in SUBSET (1 .. Len(cs)) /\ k \in at
    OBVIOUS
  <1>2. Len(cs) \in Nat
    BY LenProperties
  <1>3. Max(at) \in at
    <2> HIDE DEF at
    <2> QED
      BY <1>1, <1>2, MaxUpTo
  <1>4. ColumnOf(cs, cs[k].name) = cs[Max(at)].value
    BY <1>1 DEF ColumnOf
  <1> QED
    BY <1>3, <1>4

\* At the end the invariant says which rows were read back.
LEMMA ReadBackIs == Inv => ReadBackIffCarried
  <1> SUFFICES ASSUME Inv, status # "parsing" PROVE ReadBack <=> Carried(columns)
    BY DEF ReadBackIffCarried
  <1> DEFINE n == Len(columns)
  <1>1. /\ columns \in Seq(Columns) /\ row \in Seq(Rows) /\ n \in Nat /\ Len(row) \in Nat
        /\ rowId = rowIndex /\ status \in {"returned", "threw"}
    BY Basics DEF Inv, TypeOK
  <1>2. CASE Lost
    <2>1. PICK k \in 1 .. n : LostAt(k)
      BY <1>2 DEF Lost
    <2>2. ~CarriedColumn(columns[k]) /\ (status = "threw" \/ row[k] # columns[k])
      BY <2>1 DEF LostAt
    <2>3. ~Carried(columns)
      BY <2>1, <2>2 DEF Carried
    <2>4. ~ReadBack
      BY <2>2 DEF ReadBack
    <2> QED
      BY <2>3, <2>4
  <1>3. CASE OnTrack
    <2>1. /\ status = "returned" /\ Len(row) = n
          /\ \A k \in 1 .. n : row[k] = columns[k] /\ CarriedColumn(columns[k])
      BY <1>1, <1>3 DEF OnTrack
    <2>2. row = columns
      <3>1. row \in [1 .. n -> Rows] /\ columns \in [1 .. n -> Columns]
        BY <1>1, <2>1, LenProperties
      <3> QED
        BY <2>1, <3>1
    <2>3. ReadBack <=> \A k \in 1 .. n : ColumnOf(columns, columns[k].name) = columns[k].value
      BY <1>1, <2>1, <2>2 DEF ReadBack
    <2>4. Carried(columns) <=> \A j, k \in 1 .. n : columns[j].name = columns[k].name
                                                    => columns[j].value = columns[k].value
      BY <2>1 DEF Carried
    <2>5. ASSUME \A k \in 1 .. n : ColumnOf(columns, columns[k].name) = columns[k].value,
                 NEW j \in 1 .. n, NEW k \in 1 .. n, columns[j].name = columns[k].name
          PROVE  columns[j].value = columns[k].value
      <3>1. ColumnOf(columns, columns[j].name) = columns[j].value
            /\ ColumnOf(columns, columns[k].name) = columns[k].value
        BY <2>5
      <3> QED
        BY <2>5, <3>1
    <2>6. ASSUME \A j, k \in 1 .. n : columns[j].name = columns[k].name
                                      => columns[j].value = columns[k].value,
                 NEW k \in 1 .. n
          PROVE  ColumnOf(columns, columns[k].name) = columns[k].value
      <3>1. PICK j \in 1 .. n : /\ columns[j].name = columns[k].name
                                /\ ColumnOf(columns, columns[k].name) = columns[j].value
        BY <1>1, ColumnOfIs
      <3> QED
        BY <2>6, <3>1
    <2> QED
      BY <2>3, <2>4, <2>5, <2>6
  <1> QED
    BY <1>2, <1>3 DEF Inv

-----------------------------------------------------------------------------
(* The properties.                                                         *)

\* The parser stays inside the text, or one past its end, whatever it reads.
THEOREM TypeCorrect == Spec => []TypeOK
  <1>1. Inv => TypeOK
    BY DEF Inv
  <1> QED
    BY Invariant, <1>1, PTL

\* A row of any columns is read back exactly when the format can carry them.
THEOREM RowsSurvive == Spec => []ReadBackIffCarried
  BY Invariant, ReadBackIs, PTL

\* Every turn of the parser's loop moves on in the text.
THEOREM LoopAdvances == Spec => ParserAdvances
  <1> DEFINE Moves == status = "parsing" => startIndex' > startIndex \/ status' # "parsing"
  <1>1. Inv /\ Next => Moves
    <2> SUFFICES ASSUME Inv, Next PROVE Moves
      OBVIOUS
    <2>1. CASE ParseColumn
      <3>1. Parses /\ startIndex' = ValueIndex + ParseInt(SizeText) + 1
        BY <2>1 DEF ParseColumn
      <3>2. startIndex \in Nat /\ execRow \in Seq(Alphabet)
        BY Basics
      <3>3. /\ EqualIndex \in Nat /\ DotIndex \in Nat /\ ParseInt(SizeText) \in Nat
            /\ startIndex <= EqualIndex /\ EqualIndex < DotIndex
        BY <3>1, <3>2, TurnIs
      <3>4. startIndex' > startIndex
        BY <3>1, <3>2, <3>3 DEF ValueIndex
      <3> QED
        BY <3>4
    <2>2. CASE Throw \/ Return
      BY <2>2 DEF Throw, Return
    <2> QED
      BY <2>1, <2>2 DEF Next
  <1>2. Inv /\ [Next]_vars => [Moves]_vars
    BY <1>1
  <1>3. Spec => [][Moves]_vars
    BY Invariant, <1>2, PTL DEF Spec
  <1> QED
    BY <1>3 DEF ParserAdvances
=============================================================================
