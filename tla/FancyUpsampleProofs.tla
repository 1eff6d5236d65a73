------------------------- MODULE FancyUpsampleProofs -------------------------
(***************************************************************************)
(* Proofs about FancyUpsample, for every size of picture and of block.     *)
(***************************************************************************)
EXTENDS FancyUpsample, TLAPS

(* The filter's sample at x does not depend on where the component ends.    *)
Inside(x) == x < DstLen - 2

(* The columns below 2 * col are made, and those inside are the filter's.   *)
MadeSoFar ==
  /\ pc = "interior" => col \in 1..SrcLen - 1 /\ (2 * col <= DstLen \/ col = 1)
  /\ pc # "first" => \A x \in 0..DstLen - 1 :
       /\ pc = "done" \/ x < 2 * col => up[x] # Unmade
       /\ (pc = "done" \/ x < 2 * col) /\ Inside(x) => up[x] = Filtered(x)

(* The inductive invariant.                                                 *)
IInv == TypeOK /\ MadeSoFar /\ FullWidthMatches

-----------------------------------------------------------------------------
LEMMA MinOfTwo ==
  ASSUME NEW a \in Int, NEW b \in Int
  PROVE  Min({a, b}) = IF a <= b THEN a ELSE b
BY DEF Min

LEMMA CeilDivPositive ==
  ASSUME NEW a \in Nat \ {0}, NEW b \in Nat \ {0}
  PROVE  CeilDiv(a, b) \in Nat \ {0}
<1>1. (a + b - 1) \div b \in Int
  OBVIOUS
<1>2. (a + b - 1) \div b >= 1
  OBVIOUS
<1> QED BY <1>1, <1>2 DEF CeilDiv

LEMMA ProductAtLeast ==
  ASSUME NEW a \in Nat \ {0}, NEW b \in Nat, b > 1
  PROVE  a * b \in Nat /\ a * b > 1
OBVIOUS

(* The sizes the loop's bounds are made of.                                 *)
LEMMA Sizes ==
  ASSUME pic \in Pictures
  PROVE  /\ SrcLen \in Nat /\ SrcLen > 1
         /\ DstLen \in Nat \ {0} /\ DstLen <= 2 * SrcLen
         /\ Output(pic.width) \in Nat \ {0} /\ DstLen <= Output(pic.width)
         /\ Output(pic.height) \in Nat \ {0}
<1>1. /\ pic.width \in Nat \ {0} /\ pic.height \in Nat \ {0}
      /\ pic.num \in Nat /\ pic.num > 1 /\ BlockSize \in Nat \ {0}
  BY PicturesAssumption DEF Picture
<1>2. SrcLen \in Nat /\ SrcLen > 1
  <2>1. 2 * BlockSize \in Nat \ {0}
    BY <1>1
  <2>2. CeilDiv(pic.width, 2 * BlockSize) \in Nat \ {0}
    BY <1>1, <2>1, CeilDivPositive
  <2> QED BY <1>1, <2>2, ProductAtLeast DEF SrcLen, Stored
<1>3. ASSUME NEW n \in Nat \ {0} PROVE Output(n) \in Nat \ {0}
  <2>1. n * pic.num \in Nat \ {0}
    BY <1>1, ProductAtLeast
  <2> QED BY <1>1, <2>1, CeilDivPositive DEF Output
<1>4. Output(pic.width) \in Nat \ {0} /\ Output(pic.height) \in Nat \ {0}
  BY <1>1, <1>3
<1>5. DstLen = IF 2 * SrcLen <= Output(pic.width) THEN 2 * SrcLen
               ELSE Output(pic.width)
  BY <1>2, <1>4, MinOfTwo DEF DstLen
<1> QED BY <1>2, <1>4, <1>5

(* Away from the end of the component the filter has three cases.           *)
LEMMA FilteredInside ==
  ASSUME pic \in Pictures, NEW x \in 0..DstLen - 1, Inside(x)
  PROVE  Filtered(x) = IF x = 0 THEN Sample(0, 0, 8)
                       ELSE IF x % 2 = 0 THEN Sample(x \div 2, x \div 2 - 1, 8)
                       ELSE Sample(x \div 2, x \div 2 + 1, 7)
<1> DEFINE w == Output(pic.width)
<1>1. w \in Nat \ {0} /\ DstLen \in Nat /\ DstLen <= w
  BY Sizes
<1> HIDE DEF w
<1>2. Downsampled(pic.width) = (w + 1) \div 2
  BY <1>1 DEF Downsampled, CeilDiv, w
<1>3. x # 2 * Downsampled(pic.width) - 1
  BY <1>1, <1>2 DEF Inside
<1>4. CASE x % 2 = 0
  <2>1. x = 0 => x \div 2 = 0
    OBVIOUS
  <2> QED BY <1>4, <2>1 DEF Filtered, Neighbour, Own
<1>5. CASE x % 2 # 0
  <2>1. x # 0
    BY <1>5
  <2> QED BY <1>3, <1>5, <2>1 DEF Filtered, Neighbour, Own
<1> QED BY <1>4, <1>5

LEMMA InitIInv == Init => IInv
<1> SUFFICES ASSUME Init PROVE IInv
  OBVIOUS
<1>1. pic \in Pictures /\ pc = "first"
  BY DEF Init
<1>2. SrcLen \in Nat /\ SrcLen > 1
  BY <1>1, Sizes
<1>3. TypeOK
  BY <1>1, <1>2 DEF Init, TypeOK
<1> QED BY <1>1, <1>3 DEF IInv, MadeSoFar, FullWidthMatches

LEMMA NextIInv == IInv /\ [Next]_vars => IInv'
<1> SUFFICES ASSUME IInv, [Next]_vars PROVE IInv'
  OBVIOUS
<1>0. /\ pic \in Pictures /\ SrcLen \in Nat /\ SrcLen > 1
      /\ DstLen \in Nat \ {0} /\ DstLen <= 2 * SrcLen
  BY Sizes DEF IInv, TypeOK
<1>1. ASSUME pic' = pic
      PROVE  /\ SrcLen' = SrcLen /\ DstLen' = DstLen
             /\ \A x : Inside(x)' = Inside(x) /\ Filtered(x)' = Filtered(x)
  BY <1>1 DEF SrcLen, DstLen, Stored, Output, Inside, Filtered, Neighbour,
              Downsampled, Own, Sample
<1>2. \A x \in Nat : \A z, e : Sample(x, z, e) # Unmade
  BY DEF Sample, Unmade
<1>3. CASE FirstColumn
  <2>1. pic' = pic /\ y' = y /\ col' = 1 /\ pc' = "interior"
    BY <1>3 DEF FirstColumn
  <2>2. \A x \in 0..DstLen - 1 :
          up'[x] = IF x = 0 THEN Sample(0, 0, 8)
                   ELSE IF x = 1 THEN Sample(0, 1, 7) ELSE up[x]
    BY <1>3 DEF FirstColumn, IInv, TypeOK
  <2>3. TypeOK'
    BY <1>0, <1>1, <1>3, <2>1 DEF FirstColumn, IInv, TypeOK, Output
  <2>4. ASSUME NEW x \in 0..DstLen - 1, x < 2
        PROVE  up'[x] # Unmade /\ (Inside(x) => up'[x] = Filtered(x))
    <3>1. x = 0 \/ x = 1
      BY <2>4
    <3>2. 1 % 2 = 1 /\ 1 \div 2 = 0
      OBVIOUS
    <3>3. up'[x] # Unmade
      BY <1>2, <2>2, <3>1
    <3>4. Inside(x) => up'[x] = Filtered(x)
      <4>1. CASE x = 0
        BY <1>0, <2>2, <4>1, FilteredInside
      <4>2. CASE x = 1
        <5>1. x # 0 /\ x % 2 # 0 /\ x \div 2 = 0
          BY <3>2, <4>2
        <5>2. up'[x] = Sample(0, 1, 7)
          BY <2>2, <4>2
        <5> QED BY <1>0, <5>1, <5>2, FilteredInside
      <4> QED BY <3>1, <4>1, <4>2
    <3> QED BY <3>3, <3>4
  <2>5. MadeSoFar'
    BY <1>0, <1>1, <2>1, <2>4 DEF MadeSoFar
  <2> QED BY <2>1, <2>3, <2>5 DEF IInv, FullWidthMatches
<1>4. CASE InteriorColumn
  <2>1. /\ pic' = pic /\ y' = y /\ col' = col + 1 /\ pc' = "interior"
        /\ pc = "interior" /\ col < SrcLen - 1 /\ 2 * col + 1 < DstLen
    BY <1>4 DEF InteriorColumn, MoreColumns
  <2>2. col \in 1..SrcLen - 1
    BY <2>1 DEF IInv, MadeSoFar
  <2>3. \A x \in 0..DstLen - 1 :
          up'[x] = IF x = 2 * col THEN Sample(col, col - 1, 8)
                   ELSE IF x = 2 * col + 1 THEN Sample(col, col + 1, 7) ELSE up[x]
    <3>1. DOMAIN up = 0..DstLen - 1
      BY DEF IInv, TypeOK
    <3> QED BY <1>4, <2>2, <3>1 DEF InteriorColumn
  <2>4. TypeOK'
    BY <1>0, <1>1, <1>4, <2>1, <2>2 DEF InteriorColumn, IInv, TypeOK, Output
  <2>5. ASSUME NEW x \in 0..DstLen - 1, x < 2 * (col + 1)
        PROVE  up'[x] # Unmade /\ (Inside(x) => up'[x] = Filtered(x))
    <3>1. CASE x < 2 * col
      <4>1. x # 2 * col /\ x # 2 * col + 1
        BY <2>2, <3>1
      <4> QED BY <2>1, <2>3, <3>1, <4>1 DEF IInv, MadeSoFar
    <3>2. CASE x >= 2 * col
      <4>1. x = 2 * col \/ x = 2 * col + 1
        BY <2>2, <2>5, <3>2
      <4>2. x # 0 /\ x \div 2 = col /\ (x % 2 = 0 <=> x = 2 * col)
        BY <2>2, <4>1
      <4>3. up'[x] = IF x % 2 = 0 THEN Sample(col, col - 1, 8)
                     ELSE Sample(col, col + 1, 7)
        BY <2>3, <4>1, <4>2
      <4>4. up'[x] # Unmade
        BY <1>2, <2>2, <4>3
      <4>5. Inside(x) => up'[x] = Filtered(x)
        BY <1>0, <4>2, <4>3, FilteredInside
      <4> QED BY <4>4, <4>5
    <3> QED BY <2>2, <3>1, <3>2
  <2>6. col + 1 \in 1..SrcLen - 1 /\ 2 * (col + 1) <= DstLen
    BY <1>0, <2>1, <2>2
  <2>7. MadeSoFar'
    BY <1>0, <1>1, <2>1, <2>5, <2>6 DEF MadeSoFar
  <2> QED BY <2>1, <2>4, <2>7 DEF IInv, FullWidthMatches
<1>5. CASE LastColumn
  <2>1. /\ pic' = pic /\ y' = y /\ col' = col /\ pc' = "done"
        /\ pc = "interior" /\ (col >= SrcLen - 1 \/ 2 * col + 1 >= DstLen)
    <3>1. col \in Int
      BY <1>5 DEF LastColumn, IInv, MadeSoFar
    <3> QED BY <1>0, <1>5, <3>1 DEF LastColumn, MoreColumns
  <2>2. col \in 1..SrcLen - 1 /\ (2 * col <= DstLen \/ col = 1)
    BY <2>1 DEF IInv, MadeSoFar
  <2>3. CASE DstLen < 2
    <3>1. up' = up
      BY <1>5, <2>3 DEF LastColumn
    <3>2. \A x \in 0..DstLen - 1 : x < 2 * col /\ ~Inside(x)
      BY <1>0, <2>2, <2>3 DEF Inside
    <3>3. 2 * SrcLen # Output(pic.width)
      BY <1>0, <2>3, MinOfTwo, Sizes DEF DstLen
    <3>4. FullWidthMatches'
      BY <1>1, <2>1, <3>3 DEF FullWidthMatches, Output
    <3> QED BY <1>1, <2>1, <3>1, <3>2, <3>4 DEF IInv, TypeOK, MadeSoFar, Output
  <2>4. CASE DstLen >= 2
    <3>1. \A x \in 0..DstLen - 1 :
            up'[x] = IF x = DstLen - 1 THEN Sample(col, col, 7)
                     ELSE IF x = DstLen - 2 THEN Sample(col, col - 1, 8) ELSE up[x]
      <4>1. DOMAIN up = 0..DstLen - 1
        BY DEF IInv, TypeOK
      <4>2. up' = [up EXCEPT ![DstLen - 2] = Sample(col, col - 1, 8),
                             ![DstLen - 1] = Sample(col, col, 7)]
        BY <1>0, <1>5, <2>4 DEF LastColumn
      <4> QED BY <1>0, <4>1, <4>2
    <3>2. TypeOK'
      BY <1>0, <1>1, <1>5, <2>1 DEF LastColumn, IInv, TypeOK, Output
    <3>3. ASSUME NEW x \in 0..DstLen - 1
          PROVE  up'[x] # Unmade /\ (Inside(x) => up'[x] = Filtered(x))
      <4>1. CASE Inside(x)
        <5>1. x < 2 * col /\ x # DstLen - 1 /\ x # DstLen - 2
          BY <1>0, <2>1, <2>2, <4>1 DEF Inside
        <5> QED BY <2>1, <3>1, <4>1, <5>1 DEF IInv, MadeSoFar
      <4>2. CASE ~Inside(x)
        <5>1. x = DstLen - 1 \/ x = DstLen - 2
          BY <1>0, <4>2 DEF Inside
        <5>2. up'[x] # Unmade
          BY <1>2, <2>2, <3>1, <5>1
        <5> QED BY <4>2, <5>2
      <4> QED BY <4>1, <4>2
    <3>4. MadeSoFar'
      BY <1>1, <2>1, <3>3 DEF MadeSoFar
    <3>5. ASSUME Output(pic.width) = 2 * SrcLen, NEW x \in 0..DstLen - 1
          PROVE  up'[x] = Filtered(x)
      <4>1. DstLen = 2 * SrcLen /\ Downsampled(pic.width) = SrcLen
        BY <1>0, <3>5, MinOfTwo, Sizes DEF DstLen, Downsampled, CeilDiv
      <4>2. col = SrcLen - 1
        BY <1>0, <2>1, <2>2, <4>1
      <4>3. CASE Inside(x)
        BY <3>3, <4>3
      <4>4. CASE x = 2 * col
        <5>1. x \div 2 = col /\ x % 2 = 0 /\ x # 0 /\ x # DstLen - 1
          BY <1>0, <2>2, <4>1, <4>2, <4>4
        <5>2. up'[x] = Sample(col, col - 1, 8)
          BY <1>0, <3>1, <4>1, <4>2, <4>4, <5>1
        <5> QED BY <5>1, <5>2 DEF Filtered, Neighbour, Own
      <4>5. CASE x = 2 * col + 1
        <5>1. x \div 2 = col /\ x % 2 # 0 /\ x = 2 * SrcLen - 1
          BY <1>0, <2>2, <4>2, <4>5
        <5>2. up'[x] = Sample(col, col, 7)
          BY <3>1, <4>1, <5>1
        <5> QED BY <4>1, <5>1, <5>2 DEF Filtered, Neighbour, Own
      <4>6. Inside(x) \/ x = 2 * col \/ x = 2 * col + 1
        BY <1>0, <4>1, <4>2 DEF Inside
      <4> QED BY <4>3, <4>4, <4>5, <4>6
    <3>6. FullWidthMatches'
      BY <1>1, <2>1, <3>5 DEF FullWidthMatches, Output
    <3> QED BY <3>2, <3>4, <3>6 DEF IInv
  <2> QED BY <1>0, <2>3, <2>4
<1>6. CASE UNCHANGED vars
  BY <1>1, <1>6 DEF vars, IInv, TypeOK, MadeSoFar, FullWidthMatches, Output
<1> QED BY <1>3, <1>4, <1>5, <1>6 DEF Next

(* Every state satisfies the inductive invariant.                           *)
THEOREM Inductive == Spec => []IInv
BY InitIInv, NextIInv, PTL DEF Spec

(* The column counter stays in the buffer and the row keeps its length.     *)
THEOREM TypeCorrect == Spec => []TypeOK
<1>1. IInv => TypeOK
  BY DEF IInv
<1> QED BY <1>1, Inductive, PTL

(* Whatever the width of the buffer, all the columns of a line are made and *)
(* all but the last two are those of the triangle filter                    *)
(* (upsampleH2V2FancyComponentToInt).                                       *)
THEOREM InteriorMatchesHolds == Spec => []InteriorMatches
<1>1. IInv => InteriorMatches
  BY DEF IInv, MadeSoFar, InteriorMatches, Inside
<1> QED BY <1>1, Inductive, PTL

(* A line as wide as its buffer is the filter's from end to end: what goes  *)
(* wrong at the right edge of other lines is the padding.                   *)
THEOREM FullWidthMatchesHolds == Spec => []FullWidthMatches
<1>1. IInv => FullWidthMatches
  BY DEF IInv
<1> QED BY <1>1, Inductive, PTL

-----------------------------------------------------------------------------
LEMMA MaxOfTwo ==
  ASSUME NEW a \in Int, NEW b \in Int
  PROVE  Max({a, b}) = IF a >= b THEN a ELSE b
BY DEF Max

(* A rounded-up quotient covers what is divided, and is the least to do so. *)
LEMMA CeilDivCovers ==
  ASSUME NEW a \in Nat \ {0}, NEW b \in Nat \ {0}
  PROVE  /\ b * CeilDiv(a, b) >= a
         /\ b * (CeilDiv(a, b) - 1) < a
<1> DEFINE q == (a + b - 1) \div b
<1>1. q \in Int /\ a + b - 1 = b * q + ((a + b - 1) % b)
  OBVIOUS
<1>2. (a + b - 1) % b \in 0..b - 1
  OBVIOUS
<1> DEFINE p == b * q  r == (a + b - 1) % b
<1>3. b * (q - 1) = p - b /\ p \in Int
  BY <1>1
<1> HIDE DEF q, p, r
<1>4. a + b - 1 = p + r /\ r \in 0..b - 1
  BY <1>1, <1>2 DEF p, r
<1>5. p >= a /\ p - b < a
  BY <1>3, <1>4
<1> QED BY <1>3, <1>5 DEF CeilDiv, p, q

LEMMA ProductMonotone ==
  ASSUME NEW a \in Nat, NEW b \in Nat, NEW n \in Nat, a <= b
  PROVE  a * n <= b * n
OBVIOUS

LEMMA FactorSmaller ==
  ASSUME NEW b \in Nat \ {0}, NEW m \in Int, NEW n \in Int, b * m < b * n
  PROVE  m < n
<1>1. CASE m >= n
  <2>1. m - n \in Nat
    BY <1>1
  <2>2. b * (m - n) \in Nat
    BY <2>1
  <2>3. b * (m - n) = b * m - b * n
    OBVIOUS
  <2> QED BY <2>2, <2>3
<1> QED BY <1>1

(* The buffer holds half the output, rounded up, and at times more.         *)
LEMMA OutputFits ==
  ASSUME pic \in Pictures, NEW n \in Nat \ {0}
  PROVE  Stored(n) \in Nat \ {0} /\ Output(n) \in Nat \ {0} /\ Output(n) <= 2 * Stored(n)
<1>1. pic.num \in Nat \ {0} /\ pic.num > 1 /\ BlockSize \in Nat \ {0}
  BY PicturesAssumption DEF Picture
<1> DEFINE m == pic.num  B == BlockSize  c == CeilDiv(n, 2 * BlockSize)
<1>2. m \in Nat \ {0} /\ B \in Nat \ {0} /\ 2 * B \in Nat \ {0}
  BY <1>1
<1>3. c \in Nat \ {0} /\ 2 * B * c >= n
  BY <1>2, CeilDivPositive, CeilDivCovers
<1>4. n * m \in Nat \ {0} /\ c * m \in Nat \ {0}
  BY <1>1, <1>3, ProductAtLeast
<1>5. Output(n) \in Nat \ {0} /\ B * (Output(n) - 1) < n * m
  BY <1>2, <1>4, CeilDivPositive, CeilDivCovers DEF Output
<1>6. Stored(n) = c * m
  BY DEF Stored
<1> HIDE DEF m, B, c
<1>7. n * m <= (2 * B * c) * m
  BY <1>2, <1>3, ProductMonotone
<1>8. (2 * B * c) * m = B * (2 * (c * m))
  BY <1>2, <1>3
<1>9. B * (Output(n) - 1) < B * (2 * (c * m))
  <2> DEFINE u == B * (Output(n) - 1)  v == n * m  w == B * (2 * (c * m))
  <2>1. u \in Int /\ v \in Int /\ w \in Int /\ u < v /\ v <= w
    BY <1>2, <1>4, <1>5, <1>7, <1>8
  <2> HIDE DEF u, v, w
  <2>2. u < w
    BY <2>1
  <2> QED BY <2>2 DEF u, w
<1>10. Output(n) - 1 < 2 * (c * m)
  BY <1>2, <1>4, <1>5, <1>9, FactorSmaller
<1> QED BY <1>4, <1>5, <1>6, <1>10

(* The rows of every line but the last, and of the last one where nothing is *)
(* padded, are the filter's: the clamping at the buffer's last row is that   *)
(* of the component where the two end together.                             *)
THEOREM RowsMatchInsideHolds == Spec => []RowsMatchInside
<1>1. TypeOK => RowsMatchInside
  <2> DEFINE o == Output(pic.height)  s == Stored(pic.height)
  <2> SUFFICES ASSUME TypeOK, y < o - 1 \/ o = 2 * s
               PROVE  NearRow = Own(y) /\ FarRow = Neighbour(y, Downsampled(pic.height))
    BY DEF RowsMatchInside
  <2>1. pic \in Pictures /\ pic.height \in Nat \ {0}
    BY PicturesAssumption DEF TypeOK, Picture
  <2>2. s \in Nat \ {0} /\ o \in Nat \ {0} /\ o <= 2 * s /\ y \in 0..o - 1
    BY <2>1, OutputFits DEF TypeOK
  <2>3. Downsampled(pic.height) = (o + 1) \div 2
    BY <2>2 DEF Downsampled, CeilDiv
  <2>4. /\ NearRow = Min({y \div 2, s - 1})
        /\ FarRow = IF y % 2 = 0 THEN Max({NearRow - 1, 0}) ELSE Min({NearRow + 1, s - 1})
    BY DEF NearRow, FarRow
  <2> HIDE DEF o, s
  <2>5. NearRow = y \div 2 /\ y \div 2 \in 0..s - 1
    <3>1. y \div 2 \in 0..s - 1
      BY <2>2
    <3> QED BY <2>2, <2>4, <3>1, MinOfTwo
  <2>6. CASE y % 2 = 0
    <3>1. FarRow = IF y \div 2 - 1 >= 0 THEN y \div 2 - 1 ELSE 0
      <4>1. FarRow = Max({y \div 2 - 1, 0})
        BY <2>4, <2>5, <2>6
      <4>2. y \div 2 - 1 \in Int
        BY <2>2, <2>5
      <4> QED BY <4>1, <4>2, MaxOfTwo
    <3>2. y \div 2 - 1 >= 0 <=> y # 0
      BY <2>2, <2>6
    <3> QED BY <2>5, <2>6, <3>1, <3>2 DEF Own, Neighbour
  <2>7. CASE y % 2 # 0
    <3>1. FarRow = IF y \div 2 + 1 <= s - 1 THEN y \div 2 + 1 ELSE s - 1
      BY <2>2, <2>4, <2>5, <2>7, MinOfTwo
    <3>2. CASE y < o - 1
      <4>1. y \div 2 + 1 <= s - 1 /\ y # 2 * ((o + 1) \div 2) - 1
        BY <2>2, <2>7, <3>2
      <4> QED BY <2>3, <2>5, <2>7, <3>1, <4>1 DEF Own, Neighbour
    <3>3. CASE y = o - 1
      <4>1. o = 2 * s
        BY <2>2, <3>3
      <4>2. y = 2 * ((o + 1) \div 2) - 1 /\ y \div 2 = s - 1
        BY <2>2, <3>3, <4>1
      <4> QED BY <2>2, <2>3, <2>5, <2>7, <3>1, <4>2 DEF Own, Neighbour
    <3> QED BY <2>2, <3>2, <3>3
  <2> QED BY <2>6, <2>7
<1> QED BY <1>1, TypeCorrect, PTL
=============================================================================
