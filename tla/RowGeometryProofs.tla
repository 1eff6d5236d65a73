-------------------------- MODULE RowGeometryProofs --------------------------
(***************************************************************************)
(* Proofs about RowGeometry, for every size of image and block, every      *)
(* number of components and every scale.                                   *)
(***************************************************************************)
EXTENDS RowGeometry, TLAPS

(* The scan of a sequential image of one component has one block to the     *)
(* MCU, and its buffer as many rows as if it had Factor(1, "v") of them in  *)
(* MCUs of the frame: unless the factor is 1 it loses rows.                 *)
SingleIsPlain == Noninterleaved => Factor(1, "v") = 1

(* The first component is not subsampled and the second at most by 2, or by *)
(* 4 and the IDCT makes up for half of it: what upsampleAndConvert, which   *)
(* takes each sample of a row once or twice, is made for.                   *)
Ratio(d, r) == MaxFactor(d) = r * Factor(2, d)
UsualSampling ==
  \A d \in Dim :
    /\ Factor(1, d) = MaxFactor(d)
    /\ Len(img.comps) > 1 =>
         \/ Ratio(d, 1) \/ Ratio(d, 2)
         \/ Ratio(d, 4) /\ img.fancy /\ img.num <= BlockSize

TypeOK ==
  /\ img \in Images /\ mcuRow \in Nat /\ line \in Nat
  /\ DOMAIN buffer = Comps
  /\ \A c \in Comps : DOMAIN buffer[c] = 0..BufferRows(c) - 1

(* The iMCU rows decoded so far have put their rows in place.               *)
RowsSoFar ==
  ~img.prog =>
    /\ mcuRow <= McusInScan("v")
    /\ \A c \in Comps : \A k \in 0..BufferRows(c) - 1 :
         k < mcuRow * McuRows(c) => buffer[c][k] = k

(* Lines, iMCU rows and raw rows are counted alike.                         *)
RawSoFar ==
  img.raw =>
    /\ mcuRow <= McusInScan("v")
    /\ line = mcuRow * (MaxFactor("v") * img.num)
    /\ \A c \in Comps : taken[c] = RawEnd(c, mcuRow)

(* The inductive invariant.                                                 *)
IInv == TypeOK /\ (SingleIsPlain => RowsSoFar /\ RawSoFar)

-----------------------------------------------------------------------------
(* Arithmetic.  A rounded-up quotient is at most n where the product covers *)
(* the dividend; all that follows about sizes is derived from this.         *)
LEMMA ProductInNat ==
  ASSUME NEW a \in Nat, NEW b \in Nat
  PROVE  a * b \in Nat
OBVIOUS

LEMMA ProductPositive ==
  ASSUME NEW a \in Nat \ {0}, NEW b \in Nat \ {0}
  PROVE  a * b \in Nat \ {0}
OBVIOUS

LEMMA ProductMonotone ==
  ASSUME NEW a \in Nat, NEW b \in Nat, NEW c \in Nat, a <= b
  PROVE  a * c <= b * c
OBVIOUS

LEMMA ProductCancels ==
  ASSUME NEW a \in Nat, NEW b \in Nat, NEW c \in Nat \ {0}
  PROVE  a * c <= b * c <=> a <= b
<1>1. a <= b => a * c <= b * c
  BY ProductMonotone
<1>2. ASSUME a > b PROVE a * c > b * c
  <2>1. (b + 1) * c <= a * c
    BY <1>2, ProductMonotone
  <2>2. (b + 1) * c = b * c + c
    OBVIOUS
  <2> QED BY <2>1, <2>2, ProductInNat
<1> QED BY <1>1, <1>2, ProductInNat

LEMMA CeilDivIs ==
  ASSUME NEW a \in Nat, NEW b \in Nat \ {0}
  PROVE  /\ CeilDiv(a, b) \in Nat
         /\ \A n \in Nat : CeilDiv(a, b) <= n <=> a <= n * b
<1> DEFINE q == (a + b - 1) \div b
           r == (a + b - 1) % b
<1>1. q \in Nat /\ r \in Nat /\ r < b /\ a + b - 1 = q * b + r
  OBVIOUS
<1> HIDE DEF q, r
<1>2. ASSUME NEW n \in Nat PROVE q <= n <=> a <= n * b
  <2>1. CASE q <= n
    <3>1. q * b <= n * b
      BY <1>1, <2>1, ProductMonotone
    <3> QED BY <1>1, <2>1, <3>1, ProductInNat
  <2>2. CASE n + 1 <= q
    <3>1. (n + 1) * b <= q * b
      BY <1>1, <2>2, ProductMonotone
    <3>2. (n + 1) * b = n * b + b
      OBVIOUS
    <3> QED BY <1>1, <2>2, <3>1, <3>2, ProductInNat
  <2> QED BY <1>1, <2>1, <2>2
<1> QED BY <1>1, <1>2 DEF CeilDiv, q

(* The least multiple covers.                                               *)
LEMMA CeilDivCovers ==
  ASSUME NEW a \in Nat, NEW b \in Nat \ {0}
  PROVE  /\ CeilDiv(a, b) \in Nat
         /\ a <= CeilDiv(a, b) * b
BY CeilDivIs

LEMMA CeilDivPositive ==
  ASSUME NEW a \in Nat \ {0}, NEW b \in Nat \ {0}
  PROVE  CeilDiv(a, b) \in Nat \ {0}
BY CeilDivIs

(* Quotients by f and then by g, of a multiple of f.                        *)
LEMMA CeilDivScaled ==
  ASSUME NEW a \in Nat, NEW f \in Nat \ {0}, NEW b \in Nat \ {0}
  PROVE  CeilDiv(a * f, b) <= CeilDiv(a, b) * f
<1>1. a * f \in Nat /\ CeilDiv(a, b) * f \in Nat
  BY CeilDivIs
<1>2. a <= CeilDiv(a, b) * b /\ CeilDiv(a, b) * b \in Nat
  BY CeilDivCovers
<1>3. a * f <= (CeilDiv(a, b) * b) * f
  BY <1>2, ProductMonotone
<1>4. (CeilDiv(a, b) * b) * f = (CeilDiv(a, b) * f) * b
  BY CeilDivIs
<1> QED BY <1>1, <1>3, <1>4, CeilDivIs

LEMMA CeilDivNested ==
  ASSUME NEW a \in Nat, NEW f \in Nat \ {0}, NEW b \in Nat \ {0}
  PROVE  CeilDiv(CeilDiv(a * f, b), f) = CeilDiv(a, b)
<1> DEFINE c == CeilDiv(a * f, b)
<1>1. a * f \in Nat /\ c \in Nat
  BY CeilDivIs
<1>2. ASSUME NEW n \in Nat PROVE CeilDiv(c, f) <= n <=> CeilDiv(a, b) <= n
  <2>1. n * f \in Nat /\ n * b \in Nat
    BY ProductInNat
  <2>2. CeilDiv(c, f) <= n <=> c <= n * f
    BY <1>1, CeilDivIs
  <2>3. c <= n * f <=> a * f <= (n * f) * b
    BY <1>1, <2>1, CeilDivIs
  <2>4. (n * f) * b = (n * b) * f
    OBVIOUS
  <2>5. a * f <= (n * b) * f <=> a <= n * b
    BY <2>1, ProductCancels
  <2>6. a <= n * b <=> CeilDiv(a, b) <= n
    BY CeilDivIs
  <2> QED BY <2>2, <2>3, <2>4, <2>5, <2>6
<1>3. CeilDiv(c, f) \in Nat /\ CeilDiv(a, b) \in Nat
  BY <1>1, CeilDivIs
<1> HIDE DEF c
<1>4. CeilDiv(c, f) = CeilDiv(a, b)
  BY <1>2, <1>3
<1> QED BY <1>4 DEF c

(* Whole spans and what is left over.                                       *)
LEMMA SpansCover ==
  ASSUME NEW b \in Nat \ {0}, NEW s \in Nat \ {0}
  PROVE  LET rest == IF b % s = 0 THEN s ELSE b % s
         IN  (CeilDiv(b, s) - 1) * s + rest = b /\ rest <= s
<1> DEFINE q == b \div s
           r == b % s
<1>1. q \in Nat /\ r \in Nat /\ r < s /\ b = q * s + r
  OBVIOUS
<1> HIDE DEF q, r
<1>2. CASE r = 0
  <2>1. CeilDiv(b, s) = q
    <3>1. CeilDiv(b, s) \in Nat /\ \A n \in Nat : CeilDiv(b, s) <= n <=> b <= n * s
      BY CeilDivIs
    <3>2. ASSUME NEW n \in Nat PROVE b <= n * s <=> q <= n
      BY <1>1, <1>2, ProductCancels
    <3> QED BY <1>1, <3>1, <3>2
  <2>2. (q - 1) * s = q * s - s
    BY <1>1
  <2> QED BY <1>1, <1>2, <2>1, <2>2 DEF r
<1>3. CASE r # 0
  <2>1. CeilDiv(b, s) = q + 1
    <3>1. CeilDiv(b, s) \in Nat /\ \A n \in Nat : CeilDiv(b, s) <= n <=> b <= n * s
      BY CeilDivIs
    <3>2. (q + 1) * s = q * s + s /\ q * s \in Nat
      BY <1>1
    <3>3. CeilDiv(b, s) <= q + 1
      BY <1>1, <3>1, <3>2
    <3>4. ~(CeilDiv(b, s) <= q)
      BY <1>1, <1>3, <3>1, <3>2
    <3> QED BY <1>1, <3>1, <3>3, <3>4
  <2> QED BY <1>1, <1>3, <2>1 DEF r
<1> QED BY <1>2, <1>3

LEMMA MinOfTwo ==
  ASSUME NEW a \in Int, NEW b \in Int
  PROVE  Min({a, b}) = IF a <= b THEN a ELSE b
BY DEF Min

LEMMA MinOfThree ==
  ASSUME NEW a \in Int, NEW b \in Int, NEW c \in Int
  PROVE  /\ Min({a, b, c}) \in {a, b, c}
         /\ Min({a, b, c}) <= a /\ Min({a, b, c}) <= b /\ Min({a, b, c}) <= c
<1>1. \E x \in {a, b, c} : \A y \in {a, b, c} : x <= y
  OBVIOUS
<1> QED BY <1>1 DEF Min

-----------------------------------------------------------------------------
(* What the geometry of an image is made of.                                *)
LEMMA ImageIs ==
  ASSUME img \in Images
  PROVE  /\ BlockSize \in Nat \ {0} /\ img.num \in Nat \ {0}
         /\ img.prog \in BOOLEAN /\ img.fancy \in BOOLEAN /\ img.raw \in BOOLEAN
         /\ \A d \in Dim : img.size[d] \in Nat \ {0}
         /\ Len(img.comps) \in Nat \ {0} /\ 1 \in Comps
         /\ \A c \in Comps, d \in Dim : Factor(c, d) \in Factors
<1>1. BlockSize \in Nat \ {0} /\ img \in Image /\ img.comps # <<>>
  BY ImagesAssumption
<1>2. img.num \in Nat \ {0}
  BY <1>1 DEF Image
<1>3. img.comps \in Seq([Dim -> Factors])
  BY <1>1 DEF Image
<1>4. Len(img.comps) \in Nat \ {0} /\ 1 \in Comps
  BY <1>1, <1>3 DEF Comps
<1>5. \A c \in Comps, d \in Dim : Factor(c, d) \in Factors
  BY <1>3 DEF Comps, Factor
<1>6. \A d \in Dim : img.size[d] \in Nat \ {0}
  BY <1>1 DEF Image
<1> QED BY <1>1, <1>2, <1>4, <1>5, <1>6 DEF Image

LEMMA MaxOfSmall ==
  ASSUME NEW S, S \subseteq Factors, S # {}
  PROVE  Max(S) \in S /\ \A x \in S : x <= Max(S)
<1>1. \E x \in S : \A y \in S : x >= y
  <2>1. CASE 4 \in S
    BY <2>1 DEF Factors
  <2>2. CASE 4 \notin S /\ 3 \in S
    BY <2>2 DEF Factors
  <2>3. CASE 4 \notin S /\ 3 \notin S /\ 2 \in S
    BY <2>3 DEF Factors
  <2>4. CASE 4 \notin S /\ 3 \notin S /\ 2 \notin S
    <3>1. S = {1}
      <4>1. \A x \in S : x = 1
        BY <2>4 DEF Factors
      <4> QED BY <4>1
    <3> QED BY <3>1
  <2> QED BY <2>1, <2>2, <2>3, <2>4
<1>2. Max(S) \in S /\ \A y \in S : Max(S) >= y
  BY <1>1 DEF Max
<1> QED BY <1>2 DEF Factors

LEMMA MaxFactorIs ==
  ASSUME img \in Images, NEW d \in Dim
  PROVE  /\ MaxFactor(d) \in Factors
         /\ \E c \in Comps : MaxFactor(d) = Factor(c, d)
<1> DEFINE S == {Factor(c, d) : c \in Comps}
<1>1. S \subseteq Factors /\ S # {}
  BY ImageIs
<1>2. Max(S) \in S
  BY <1>1, MaxOfSmall
<1> QED BY <1>1, <1>2 DEF MaxFactor

LEMMA DoublingIs ==
  ASSUME NEW c, NEW d
  PROVE  /\ Doubling(c, d) \in {1, 2, 4}
         /\ Doubling(c, d) > 1 <=> MayDouble(c, d, 1)
         /\ Doubling(c, d) > 2 => MayDouble(c, d, 2)
<1> DEFINE S == {n \in {1, 2, 4} : \A m \in {1, 2} : m < n => MayDouble(c, d, m)}
<1>1. 1 \in S /\ S \subseteq Factors
  BY DEF Factors
<1>2. 2 \in S <=> MayDouble(c, d, 1)
  OBVIOUS
<1>3. 4 \in S <=> MayDouble(c, d, 1) /\ MayDouble(c, d, 2)
  OBVIOUS
<1>4. S \subseteq {1, 2, 4}
  OBVIOUS
<1> HIDE DEF S
<1>5. Max(S) \in S /\ \A x \in S : x <= Max(S)
  BY <1>1, MaxOfSmall
<1>6. /\ Max(S) \in {1, 2, 4}
      /\ Max(S) > 1 <=> MayDouble(c, d, 1)
      /\ Max(S) > 2 => MayDouble(c, d, 2)
  <2> DEFINE m == Max(S)
  <2>1. m \in {1, 2, 4} /\ m \in S /\ \A x \in S : x <= m
    BY <1>4, <1>5
  <2> HIDE DEF m
  <2>2. m > 1 <=> MayDouble(c, d, 1)
    BY <1>2, <1>3, <2>1
  <2>3. m > 2 => MayDouble(c, d, 2)
    BY <1>3, <2>1
  <2> QED BY <2>1, <2>2, <2>3 DEF m
<1> QED BY <1>6 DEF Doubling, S

(* The IDCT's scale is at least the image's, and at most twice the scale of *)
(* the other dimension.                                                     *)
LEMMA ScaledIs ==
  ASSUME img \in Images, NEW c, NEW d
  PROVE  /\ Scaled(c, d) \in Nat \ {0}
         /\ img.num <= Scaled(c, d) /\ Scaled(c, d) <= img.num * Doubling(c, d)
         /\ Doubling(c, d) > 1 => 2 * img.num <= Scaled(c, d)
         /\ Scaled(c, d) \in {img.num, 2 * img.num, 4 * img.num}
<1> DEFINE n == img.num
           a == Doubling(c, d)
           o == Doubling(c, CHOOSE e \in Dim : e # d)
<1>1. n \in Nat \ {0} /\ a \in {1, 2, 4} /\ o \in {1, 2, 4}
  BY ImageIs, DoublingIs
<1>2. Scaled(c, d) = Min({n * a, 2 * (n * o)})
  BY DEF Scaled
<1> HIDE DEF n, a, o
<1>3. n * a \in {n, 2 * n, 4 * n} /\ n * o \in {n, 2 * n, 4 * n}
  BY <1>1
<1>4. Scaled(c, d) = IF n * a <= 2 * (n * o) THEN n * a ELSE 2 * (n * o)
  <2>1. n * a \in Int /\ 2 * (n * o) \in Int
    BY <1>1, <1>3
  <2> QED BY <1>2, <2>1, MinOfTwo
<1>5. a > 1 => n * a >= 2 * n
  BY <1>1
<1> QED BY <1>1, <1>3, <1>4, <1>5 DEF n, a

LEMMA SizesAre ==
  ASSUME img \in Images, NEW d \in Dim
  PROVE  /\ MaxFactor(d) * BlockSize \in Nat \ {0}
         /\ TotalIMCUs(d) \in Nat \ {0} /\ OutputSize(d) \in Nat \ {0}
         /\ McusInScan(d) \in Nat \ {0}
         /\ \A c \in Comps :
              /\ Factor(c, d) \in Nat \ {0} /\ Blocks(c, d) \in Nat \ {0}
              /\ McuSpan(c, d) \in Nat \ {0}
              /\ Factor(c, d) * Scaled(c, d) \in Nat \ {0}
              /\ Downsampled(c, d) \in Nat \ {0}
<1> DEFINE MB == MaxFactor(d) * BlockSize
           s == img.size[d]
<1>1. MB \in Nat \ {0}
  BY ImageIs, MaxFactorIs, ProductPositive DEF Factors
<1>2. s \in Nat \ {0} /\ img.num \in Nat \ {0} /\ BlockSize \in Nat \ {0}
  BY ImageIs
<1> HIDE DEF s
<1>3. \A c \in Comps : Factor(c, d) \in Nat \ {0} /\ s * Factor(c, d) \in Nat \ {0}
  BY <1>2, ImageIs, ProductPositive DEF Factors
<1>4. \A c \in Comps : Blocks(c, d) \in Nat \ {0}
  BY <1>1, <1>3, CeilDivPositive DEF Blocks, s
<1>5. TotalIMCUs(d) \in Nat \ {0}
  BY <1>1, <1>2, CeilDivPositive DEF TotalIMCUs, s
<1>6. OutputSize(d) \in Nat \ {0}
  <2>1. s * img.num \in Nat \ {0}
    BY <1>2, ProductPositive
  <2> QED BY <1>2, <2>1, CeilDivPositive DEF OutputSize, s
<1>7. ASSUME NEW c \in Comps
      PROVE  /\ Factor(c, d) * Scaled(c, d) \in Nat \ {0}
             /\ Downsampled(c, d) \in Nat \ {0}
  <2>1. Scaled(c, d) \in Nat \ {0}
    BY ScaledIs
  <2>2. Factor(c, d) * Scaled(c, d) \in Nat \ {0}
    BY <1>3, <2>1, ProductPositive
  <2>3. s * Factor(c, d) * Scaled(c, d) \in Nat \ {0}
    BY <1>3, <2>1, ProductPositive
  <2> QED BY <1>1, <2>2, <2>3, CeilDivPositive DEF Downsampled, s
<1>8. McusInScan(d) \in Nat \ {0} /\ \A c \in Comps : McuSpan(c, d) \in Nat \ {0}
  BY <1>3, <1>4, <1>5, ImageIs DEF McusInScan, McuSpan
<1> QED BY <1>1, <1>3, <1>4, <1>5, <1>6, <1>7, <1>8

-----------------------------------------------------------------------------
(* Rows: the MCU rows of the scan fill the buffer, which has room for every *)
(* row of the component, and so have the blocks that are rendered.          *)
LEMMA RowsOfScan ==
  ASSUME img \in Images, SingleIsPlain
  PROVE  /\ McusInScan("v") = TotalIMCUs("v")
         /\ \A c \in Comps :
              /\ McuRows(c) = Factor(c, "v") * Scaled(c, "v")
              /\ BufferRows(c) = TotalIMCUs("v") * McuRows(c)
              /\ McuRows(c) \in Nat \ {0} /\ BufferRows(c) \in Nat \ {0}
              /\ Downsampled(c, "v") <= BufferRows(c)
<1> DEFINE s == img.size["v"]
<1>0. "v" \in Dim /\ s \in Nat \ {0} /\ BlockSize \in Nat \ {0}
  BY ImageIs DEF Dim
<1>1. Noninterleaved => Comps = {1} /\ MaxFactor("v") = 1
  BY <1>0, MaxFactorIs DEF SingleIsPlain, Noninterleaved, Comps
<1>2. McusInScan("v") = TotalIMCUs("v")
  <2>1. CASE Noninterleaved
    <3>1. Factor(1, "v") = 1 /\ s * 1 = s
      BY <1>0, <2>1 DEF SingleIsPlain
    <3>2. Blocks(1, "v") = TotalIMCUs("v")
      BY <3>1 DEF Blocks, TotalIMCUs, s
    <3> QED BY <2>1, <3>2 DEF McusInScan
  <2> QED BY <2>1 DEF McusInScan
<1>3. ASSUME NEW c \in Comps
      PROVE  /\ McuRows(c) = Factor(c, "v") * Scaled(c, "v")
             /\ BufferRows(c) = TotalIMCUs("v") * McuRows(c)
             /\ McuRows(c) \in Nat \ {0} /\ BufferRows(c) \in Nat \ {0}
             /\ Downsampled(c, "v") <= BufferRows(c)
  <2> DEFINE f == Factor(c, "v")
             z == Scaled(c, "v")
             t == TotalIMCUs("v")
             b == MaxFactor("v") * BlockSize
  <2>1. f \in Nat \ {0} /\ z \in Nat \ {0} /\ t \in Nat \ {0} /\ b \in Nat \ {0}
    BY <1>0, ScaledIs, SizesAre
  <2>2. McuSpan(c, "v") = f
    BY <1>1, <1>3 DEF McuSpan, SingleIsPlain
  <2>3. McuRows(c) = f * z /\ BufferRows(c) = t * f * z
    BY <2>2 DEF McuRows, BufferRows
  <2>4. t = CeilDiv(s, b) /\ Downsampled(c, "v") = CeilDiv(s * f * z, b)
    BY DEF TotalIMCUs, Downsampled
  <2> HIDE DEF s, f, z, t, b
  <2>5. f * z \in Nat \ {0}
    BY <2>1, ProductPositive
  <2>6. t * f * z = t * (f * z) /\ s * f * z = s * (f * z)
    BY <1>0, <2>1
  <2>7. t * (f * z) \in Nat \ {0}
    BY <2>1, <2>5, ProductPositive
  <2>8. CeilDiv(s * (f * z), b) <= t * (f * z)
    BY <1>0, <2>1, <2>4, <2>5, CeilDivScaled
  <2>9. Downsampled(c, "v") <= BufferRows(c)
    BY <2>3, <2>4, <2>6, <2>8
  <2>10. BufferRows(c) = t * McuRows(c)
    BY <2>3, <2>6
  <2>11. McuRows(c) \in Nat \ {0} /\ BufferRows(c) \in Nat \ {0}
    BY <2>3, <2>5, <2>6, <2>7
  <2> QED BY <2>3, <2>9, <2>10, <2>11 DEF f, z, t
<1> QED BY <1>2, <1>3

LEMMA BlocksHoldRows ==
  ASSUME img \in Images, NEW c \in Comps, NEW d \in Dim
  PROVE  Downsampled(c, d) <= Blocks(c, d) * Scaled(c, d)
<1> DEFINE a == img.size[d] * Factor(c, d)
           b == MaxFactor(d) * BlockSize
           z == Scaled(c, d)
<1>1. a \in Nat /\ b \in Nat \ {0} /\ z \in Nat \ {0}
  BY ImageIs, SizesAre, ScaledIs, ProductInNat
<1>2. Downsampled(c, d) = CeilDiv(a * z, b) /\ Blocks(c, d) = CeilDiv(a, b)
  BY DEF Downsampled, Blocks
<1> HIDE DEF a, b, z
<1>3. CeilDiv(a * z, b) <= CeilDiv(a, b) * z
  BY <1>1, CeilDivScaled
<1> QED BY <1>2, <1>3 DEF z

-----------------------------------------------------------------------------
(* Columns: an MCU row writes the columns of all blocks, and none beyond    *)
(* the row.                                                                 *)
LEMMA ColumnsOfScan ==
  ASSUME img \in Images, NEW c \in Comps
  PROVE  /\ ColumnsWritten(c) = Blocks(c, "h") * Scaled(c, "h")
         /\ ColumnsWritten(c) <= RowWidth(c)
<1> DEFINE b == Blocks(c, "h")
           p == McuSpan(c, "h")
           m == McusInScan("h")
           z == Scaled(c, "h")
           l == LastSpan(c, "h")
<1>0. "h" \in Dim
  BY DEF Dim
<1>1. b \in Nat \ {0} /\ p \in Nat \ {0} /\ m \in Nat \ {0} /\ z \in Nat \ {0}
  BY <1>0, SizesAre, ScaledIs
<1>2. m = CeilDiv(b, p)
  <2>1. CASE Noninterleaved
    <3>1. p = 1 /\ m = b
      <4>1. c = 1
        BY <2>1, ImageIs DEF Noninterleaved, Comps
      <4> QED BY <2>1, <4>1 DEF McuSpan, McusInScan
    <3>2. CeilDiv(b, 1) = b
      <4> HIDE DEF b
      <4>1. b + 1 - 1 = b /\ b \div 1 = b
        BY <1>1
      <4> QED BY <4>1 DEF CeilDiv
    <3> QED BY <3>1, <3>2
  <2>2. CASE ~Noninterleaved
    <3>1. /\ img.size["h"] \in Nat \ {0} /\ Factor(c, "h") \in Nat \ {0}
          /\ MaxFactor("h") * BlockSize \in Nat \ {0}
      BY <1>0, ImageIs, SizesAre
    <3>2. CeilDiv(CeilDiv(img.size["h"] * Factor(c, "h"), MaxFactor("h") * BlockSize),
                  Factor(c, "h")) = CeilDiv(img.size["h"], MaxFactor("h") * BlockSize)
      BY <3>1, CeilDivNested
    <3> QED BY <2>2, <3>2 DEF McuSpan, McusInScan, Blocks, TotalIMCUs
  <2> QED BY <2>1, <2>2
<1>3. l = IF b % p = 0 THEN p ELSE b % p
  BY DEF LastSpan
<1>4. ColumnsWritten(c) = ((m - 1) * p + l) * z /\ RowWidth(c) = m * p * z
  BY DEF ColumnsWritten, RowWidth
<1> HIDE DEF b, p, m, z, l
<1>5. (m - 1) * p + l = b /\ l <= p
  BY <1>1, <1>2, <1>3, SpansCover
<1>6. l \in Nat
  BY <1>1, <1>3
<1>7. (m - 1) * p = m * p - p /\ m * p \in Nat
  BY <1>1
<1>8. b <= m * p
  BY <1>1, <1>5, <1>6, <1>7
<1>9. b * z <= (m * p) * z
  BY <1>1, <1>7, <1>8, ProductMonotone
<1> QED BY <1>4, <1>5, <1>9 DEF b, z

(* A component whose samples, each taken k times, are as many as the        *)
(* output's has the columns and rows for it.                                *)
LEMMA BlocksCoverOutput ==
  ASSUME img \in Images, NEW c \in Comps, NEW d \in Dim, NEW k \in Nat \ {0},
         k * (Factor(c, d) * Scaled(c, d)) = MaxFactor(d) * img.num
  PROVE  OutputSize(d) <= k * (Blocks(c, d) * Scaled(c, d))
<1> DEFINE s == img.size[d]
           n == img.num
           f == Factor(c, d)
           z == Scaled(c, d)
           M == MaxFactor(d)
           B == BlockSize
           b == Blocks(c, d)
<1>1. /\ s \in Nat \ {0} /\ n \in Nat \ {0} /\ B \in Nat \ {0}
      /\ f \in Nat \ {0} /\ z \in Nat \ {0} /\ b \in Nat \ {0}
      /\ M \in Nat \ {0} /\ M * B \in Nat \ {0} /\ s * f \in Nat /\ s * n \in Nat
  BY ImageIs, MaxFactorIs, SizesAre, ScaledIs, ProductInNat DEF Factors
<1>2. b = CeilDiv(s * f, M * B) /\ OutputSize(d) = CeilDiv(s * n, B)
  BY DEF Blocks, OutputSize
<1>3. k * (f * z) = M * n
  OBVIOUS
<1> HIDE DEF s, n, f, z, M, B, b
<1>4. s * f <= b * (M * B) /\ b * (M * B) \in Nat
  <2>1. s * f <= CeilDiv(s * f, M * B) * (M * B)
    BY <1>1, CeilDivCovers
  <2>2. b * (M * B) \in Nat
    BY <1>1, ProductInNat
  <2> QED BY <1>2, <2>1, <2>2
<1>5. z * k \in Nat /\ k * (b * z) \in Nat
  BY <1>1, ProductInNat
<1>6. (s * f) * (z * k) <= (b * (M * B)) * (z * k)
  BY <1>1, <1>4, <1>5, ProductMonotone
<1>7. (s * f) * (z * k) = (s * n) * M
  <2>1. (s * f) * (z * k) = s * (k * (f * z))
    BY <1>1
  <2>2. s * (M * n) = (s * n) * M
    BY <1>1
  <2> QED BY <1>3, <2>1, <2>2
<1>8. (b * (M * B)) * (z * k) = ((k * (b * z)) * B) * M
  BY <1>1
<1>9. (k * (b * z)) * B \in Nat
  BY <1>1, <1>5, ProductInNat
<1>10. s * n <= (k * (b * z)) * B
  BY <1>1, <1>6, <1>7, <1>8, <1>9, ProductCancels
<1>11. CeilDiv(s * n, B) <= k * (b * z)
  BY <1>1, <1>5, <1>10, CeilDivIs
<1> QED BY <1>2, <1>11 DEF b, z

-----------------------------------------------------------------------------
(* What upsampleAndConvert takes for a line.                                *)
LEMMA LumaScale ==
  ASSUME img \in Images, NEW d \in Dim, Factor(1, d) = MaxFactor(d)
  PROVE  Scaled(1, d) = img.num
<1>1. MaxFactor(d) \in Factors
  BY MaxFactorIs
<1>2. ~MayDouble(1, d, 1)
  <2>1. \A f \in Factors : f % (f * 1 * 2) # 0
    BY DEF Factors
  <2> QED BY <1>1, <2>1 DEF MayDouble
<1>3. Doubling(1, d) = 1
  BY <1>2, DoublingIs
<1> QED BY <1>3, ScaledIs, ImageIs

LEMMA ChromaScale ==
  ASSUME img \in Images, UsualSampling, ~img.raw, Len(img.comps) > 1, NEW d \in Dim
  PROVE  \/ Factor(2, d) * Scaled(2, d) = MaxFactor(d) * img.num
         \/ 2 * (Factor(2, d) * Scaled(2, d)) = MaxFactor(d) * img.num
<1> DEFINE f == Factor(2, d)
           z == Scaled(2, d)
           n == img.num
           M == MaxFactor(d)
<1>1. f \in Factors /\ M \in Factors /\ n \in Nat \ {0}
  BY ImageIs, MaxFactorIs DEF Comps
<1>2. z \in {n, 2 * n, 4 * n}
  BY ScaledIs
<1>3. CASE Ratio(d, 1)
  <2>1. ~MayDouble(2, d, 1)
    <3>1. \A g \in Factors : g % (g * 1 * 2) # 0
      BY DEF Factors
    <3>2. MaxFactor(d) = Factor(2, d)
      BY <1>1, <1>3 DEF Ratio, Factors
    <3> QED BY <1>1, <3>1, <3>2 DEF MayDouble
  <2>2. z = n
    BY <1>1, <2>1, DoublingIs, ScaledIs
  <2> QED BY <1>1, <1>3, <2>2 DEF Ratio, Factors
<1>4. CASE Ratio(d, 2)
  <2>1. M = 2 * f /\ f \in 1..2
    BY <1>1, <1>4 DEF Ratio, Factors
  <2>2. ~MayDouble(2, d, 2)
    <3>1. \A g \in 1..2 : (2 * g) % (g * 2 * 2) # 0
      OBVIOUS
    <3> QED BY <2>1, <3>1 DEF MayDouble
  <2>3. Doubling(2, d) \in {1, 2}
    BY <2>2, DoublingIs
  <2>4. z <= n * Doubling(2, d)
    BY ScaledIs
  <2>5. z \in {n, 2 * n}
    BY <1>1, <1>2, <2>3, <2>4
  <2> HIDE DEF f, z, n, M
  <2>6. f * z = M * n \/ 2 * (f * z) = M * n
    <3>1. CASE f = 1
      BY <1>1, <2>1, <2>5, <3>1
    <3>2. CASE f = 2
      BY <1>1, <2>1, <2>5, <3>2
    <3> QED BY <2>1, <3>1, <3>2
  <2> QED BY <2>6 DEF f, z, n, M
<1>5. CASE Ratio(d, 4) /\ img.fancy /\ img.num <= BlockSize
  <2>1. M = 4 /\ f = 1
    BY <1>1, <1>5 DEF Ratio, Factors
  <2>2. MayDouble(2, d, 1)
    <3>1. 4 % (1 * 1 * 2) = 0 /\ n * 1 = n
      BY <1>1
    <3>2. Threshold = BlockSize
      BY <1>5 DEF Threshold
    <3> QED BY <1>5, <2>1, <3>1, <3>2 DEF MayDouble
  <2>3. 2 * n <= z
    BY <2>2, DoublingIs, ScaledIs
  <2>4. z \in {2 * n, 4 * n}
    BY <1>1, <1>2, <2>3
  <2> HIDE DEF f, z, n, M
  <2>5. f * z = M * n \/ 2 * (f * z) = M * n
    BY <1>1, <2>1, <2>4
  <2> QED BY <2>5 DEF f, z, n, M
<1>6. Ratio(d, 1) \/ Ratio(d, 2) \/ (Ratio(d, 4) /\ img.fancy /\ img.num <= BlockSize)
  BY DEF UsualSampling
<1> QED BY <1>3, <1>4, <1>5, <1>6

LEMMA HalvedIs ==
  ASSUME img \in Images, UsualSampling, ~img.raw, Len(img.comps) > 1, NEW d \in Dim
  PROVE  /\ Factor(1, d) * Scaled(1, d) = MaxFactor(d) * img.num
         /\ ~Halved(d) => Factor(2, d) * Scaled(2, d) = MaxFactor(d) * img.num
         /\ Halved(d) => 2 * (Factor(2, d) * Scaled(2, d)) = MaxFactor(d) * img.num
<1>1. Factor(1, d) * Scaled(1, d) = MaxFactor(d) * img.num
  BY LumaScale DEF UsualSampling
<1>2. Factor(2, d) * Scaled(2, d) \in Nat \ {0}
  BY SizesAre DEF Comps
<1> QED BY <1>1, <1>2, ChromaScale DEF Halved

LEMMA LinesAreCovered ==
  ASSUME img \in Images, SingleIsPlain, UsualSampling, line \in Nat
  PROVE  LinesCovered
<1> SUFFICES ASSUME ~img.raw, line < OutputSize("v")
             PROVE  /\ LumaRow(line) = Covering(1, line)
                    /\ Len(img.comps) > 1 => ChromaRow(line) = Covering(2, line)
  BY DEF LinesCovered
<1> DEFINE w == MaxFactor("v") * img.num
           t == TotalIMCUs("v")
<1>0. "v" \in Dim /\ 1 \in Comps /\ (Len(img.comps) > 1 => 2 \in Comps)
  BY ImageIs DEF Dim, Comps
<1>1. w \in Nat \ {0} /\ t \in Nat \ {0} /\ OutputSize("v") \in Nat
  BY <1>0, ImageIs, MaxFactorIs, ProductPositive, SizesAre DEF Factors
<1>2. OutputSize("v") <= t * w /\ t * w \in Nat
  <2> DEFINE s == img.size["v"]
             n == img.num
             M == MaxFactor("v")
             B == BlockSize
  <2>1. /\ s \in Nat \ {0} /\ n \in Nat \ {0} /\ B \in Nat \ {0} /\ M \in Nat \ {0}
        /\ M * B \in Nat \ {0} /\ s * n \in Nat /\ t * w \in Nat
    BY <1>0, <1>1, ImageIs, MaxFactorIs, SizesAre, ProductInNat DEF Factors
  <2>2. w = M * n /\ t = CeilDiv(s, M * B) /\ OutputSize("v") = CeilDiv(s * n, B)
    BY DEF TotalIMCUs, OutputSize
  <2> HIDE DEF s, n, M, B, w, t
  <2>3. s <= t * (M * B) /\ t * (M * B) \in Nat
    <3>1. s <= CeilDiv(s, M * B) * (M * B)
      BY <2>1, CeilDivCovers
    <3>2. t * (M * B) \in Nat
      BY <1>1, <2>1, ProductInNat
    <3> QED BY <2>2, <3>1, <3>2
  <2>4. s * n <= (t * (M * B)) * n
    BY <2>1, <2>3, ProductMonotone
  <2>5. (t * (M * B)) * n = (t * (M * n)) * B
    BY <1>1, <2>1
  <2>6. CeilDiv(s * n, B) <= t * w
    BY <2>1, <2>2, <2>4, <2>5, CeilDivIs
  <2> QED BY <2>1, <2>2, <2>6
<1>3. Factor(1, "v") * Scaled(1, "v") = w
  BY <1>0, LumaScale DEF UsualSampling
<1>4. BufferRows(1) = t * w
  BY <1>0, <1>3, RowsOfScan
<1> HIDE DEF w, t
<1>5. LumaRow(line) = line
  <2>1. t * w - 1 \in Int /\ line <= t * w - 1
    BY <1>1, <1>2
  <2>2. Min({line, t * w - 1}) = line
    BY <2>1, MinOfTwo
  <2> QED BY <1>4, <2>2 DEF LumaRow
<1>6. Covering(1, line) = line
  <2>1. Covering(1, line) = (line * w) \div w
    <3>1. line * Factor(1, "v") * Scaled(1, "v") = line * (Factor(1, "v") * Scaled(1, "v"))
      <4>1. Factor(1, "v") \in Nat /\ Scaled(1, "v") \in Nat
        BY <1>0, SizesAre, ScaledIs
      <4> QED BY <4>1
    <3> QED BY <1>3, <3>1 DEF Covering, w
  <2>2. (line * w) \div w = line
    BY <1>1
  <2> QED BY <2>1, <2>2
<1>7. ASSUME Len(img.comps) > 1 PROVE ChromaRow(line) = Covering(2, line)
  <2> DEFINE g == Factor(2, "v") * Scaled(2, "v")
  <2>1. g \in Nat \ {0} /\ BufferRows(2) = t * g
    BY <1>0, <1>7, SizesAre, RowsOfScan DEF t
  <2>2. Covering(2, line) = (line * g) \div w
    <3>1. line * Factor(2, "v") * Scaled(2, "v") = line * (Factor(2, "v") * Scaled(2, "v"))
      <4>1. Factor(2, "v") \in Nat /\ Scaled(2, "v") \in Nat
        BY <1>0, <1>7, SizesAre, ScaledIs
      <4> QED BY <4>1
    <3> QED BY <3>1 DEF Covering, w
  <2>3. ~Halved("v") => g = w
    BY <1>0, <1>7, HalvedIs DEF w
  <2>4. Halved("v") => 2 * g = w
    BY <1>0, <1>7, HalvedIs DEF w
  <2>5. ChromaRow(line) = Min({IF Halved("v") THEN line \div 2 ELSE line, t * g - 1})
    BY <1>5, <2>1 DEF ChromaRow
  <2> HIDE DEF g
  <2>6. CASE Halved("v")
    <3>1. t * w = 2 * (t * g) /\ t * g \in Nat
      BY <1>1, <2>1, <2>4, <2>6
    <3>2. line \div 2 <= t * g - 1 /\ line \div 2 \in Int /\ t * g - 1 \in Int
      BY <1>1, <1>2, <3>1
    <3>3. ChromaRow(line) = line \div 2
      BY <2>5, <2>6, <3>2, MinOfTwo
    <3>4. (line * g) \div (2 * g) = line \div 2
      <4> DEFINE q == line \div 2
                 r == line % 2
      <4>1. line = 2 * q + r /\ r \in 0..1 /\ q \in Nat
        OBVIOUS
      <4> HIDE DEF q, r
      <4>2. line * g = q * (2 * g) + r * g /\ r * g < 2 * g /\ r * g \in Nat
        <5>1. line * g = q * (2 * g) + r * g
          BY <2>1, <4>1
        <5>2. CASE r = 0
          BY <2>1, <5>1, <5>2
        <5>3. CASE r = 1
          BY <2>1, <5>1, <5>3
        <5> QED BY <4>1, <5>2, <5>3
      <4>3. (line * g) \div (2 * g) = q
        BY <2>1, <4>1, <4>2
      <4> QED BY <4>3 DEF q
    <3> QED BY <2>2, <2>4, <2>6, <3>3, <3>4
  <2>7. CASE ~Halved("v")
    <3>1. t * g - 1 \in Int /\ line <= t * g - 1
      BY <1>1, <1>2, <2>3, <2>7
    <3>2. ChromaRow(line) = line
      BY <2>5, <2>7, <3>1, MinOfTwo
    <3>3. (line * w) \div w = line
      BY <1>1
    <3> QED BY <2>2, <2>3, <2>7, <3>2, <3>3
  <2> QED BY <2>6, <2>7
<1> QED BY <1>5, <1>6, <1>7

LEMMA ColumnsAreCovered ==
  ASSUME img \in Images, UsualSampling
  PROVE  ColumnsCovered
<1> SUFFICES ASSUME ~img.raw
             PROVE  /\ OutputSize("h") <= ColumnsWritten(1)
                    /\ Len(img.comps) > 1 => LastChromaColumn < ColumnsWritten(2)
                    /\ \A c \in Comps : ColumnsWritten(c) <= RowWidth(c)
  BY DEF ColumnsCovered
<1>0. "h" \in Dim /\ 1 \in Comps /\ (Len(img.comps) > 1 => 2 \in Comps)
  BY ImageIs DEF Dim, Comps
<1>1. OutputSize("h") \in Nat \ {0}
  BY <1>0, SizesAre
<1>2. ASSUME NEW c \in Comps, NEW k \in Nat \ {0},
             k * (Factor(c, "h") * Scaled(c, "h")) = MaxFactor("h") * img.num
      PROVE  ColumnsWritten(c) \in Nat /\ OutputSize("h") <= k * ColumnsWritten(c)
  <2>1. Blocks(c, "h") * Scaled(c, "h") \in Nat
    BY <1>0, SizesAre, ScaledIs, ProductInNat
  <2> QED BY <1>0, <1>2, <2>1, BlocksCoverOutput, ColumnsOfScan
<1>3. OutputSize("h") <= ColumnsWritten(1)
  <2>1. Factor(1, "h") * Scaled(1, "h") \in Nat
    BY <1>0, SizesAre
  <2>2. 1 * (Factor(1, "h") * Scaled(1, "h")) = MaxFactor("h") * img.num
    BY <1>0, <2>1, LumaScale DEF UsualSampling
  <2> QED BY <1>0, <1>2, <2>2
<1>4. ASSUME Len(img.comps) > 1 PROVE LastChromaColumn < ColumnsWritten(2)
  <2>1. Factor(2, "h") * Scaled(2, "h") \in Nat
    BY <1>0, <1>4, SizesAre
  <2>2. CASE Halved("h")
    <3>1. 2 * (Factor(2, "h") * Scaled(2, "h")) = MaxFactor("h") * img.num
      BY <1>0, <1>4, <2>2, HalvedIs
    <3>2. ColumnsWritten(2) \in Nat /\ OutputSize("h") <= 2 * ColumnsWritten(2)
      BY <1>0, <1>2, <1>4, <3>1
    <3> QED BY <1>1, <2>2, <3>2 DEF LastChromaColumn
  <2>3. CASE ~Halved("h")
    <3>1. 1 * (Factor(2, "h") * Scaled(2, "h")) = MaxFactor("h") * img.num
      BY <1>0, <1>4, <2>1, <2>3, HalvedIs
    <3>2. ColumnsWritten(2) \in Nat /\ OutputSize("h") <= 1 * ColumnsWritten(2)
      BY <1>0, <1>2, <1>4, <3>1
    <3> QED BY <1>1, <2>3, <3>2 DEF LastChromaColumn
  <2> QED BY <2>2, <2>3
<1> QED BY <1>3, <1>4, ColumnsOfScan

-----------------------------------------------------------------------------
(* Steps.                                                                   *)
LEMMA MinOfRows ==
  ASSUME NEW a \in Nat, NEW b \in Nat, NEW c \in Nat
  PROVE  /\ a = 0 => Min({a, b, c}) = 0
         /\ c <= a /\ c <= b => Min({a, b, c}) = c
<1> DEFINE m == Min({a, b, c})
<1>0. a \in Int /\ b \in Int /\ c \in Int
  OBVIOUS
<1>1. m \in {a, b, c} /\ m <= a /\ m <= b /\ m <= c
  BY ONLY <1>0, MinOfThree
<1> HIDE DEF m
<1>2. (a = 0 => m = 0) /\ (c <= a /\ c <= b => m = c)
  BY <1>1
<1> QED BY <1>2 DEF m

LEMMA Routed ==
  ASSUME img \in Images, SingleIsPlain, NEW r \in Nat, r < McusInScan("v"),
         DOMAIN buffer = Comps, NEW c \in Comps,
         DOMAIN buffer[c] = 0..BufferRows(c) - 1,
         NEW k \in 0..BufferRows(c) - 1
  PROVE  RouteBlocks(r)[c][k] = IF k \in r * McuRows(c)..(r + 1) * McuRows(c) - 1
                                THEN k ELSE buffer[c][k]
<1> DEFINE m == McuRows(c)
           b == BufferRows(c)
           t == TotalIMCUs("v")
           rows == r * m..(r + 1) * m - 1
           put == {s \in rows : Place(c, s) = k}
<1>1. /\ m \in Nat \ {0} /\ b \in Nat \ {0} /\ b = t * m
      /\ r + 1 <= t /\ t \in Nat
  <2>1. "v" \in Dim
    BY DEF Dim
  <2>2. m \in Nat \ {0} /\ b \in Nat \ {0} /\ b = t * m /\ McusInScan("v") = t
    BY RowsOfScan, Zenon
  <2>3. t \in Nat \ {0}
    BY <2>1, SizesAre, Zenon
  <2> HIDE DEF m, b, t
  <2>4. r + 1 <= t
    BY <2>2, <2>3
  <2> QED BY <2>2, <2>3, <2>4
<1>2. RouteBlocks(r)[c][k] = IF put = {} THEN buffer[c][k] ELSE Max(put)
  BY DEF RouteBlocks
<1>3. r * m \in Nat /\ (r + 1) * m \in Nat /\ (r + 1) * m <= b
  <2> HIDE DEF m, b, t
  <2>1. (r + 1) * m <= t * m
    BY <1>1, ProductMonotone
  <2> QED BY <1>1, <2>1, ProductInNat
<1>4. \A s \in rows : Place(c, s) = s
  <2> TAKE s \in rows
  <2> DEFINE y == r * m
             z == (r + 1) * m
  <2>0. y \in Nat /\ z \in Nat /\ z <= b /\ b \in Nat \ {0} /\ s \in y..z - 1
    BY <1>1, <1>3
  <2> HIDE DEF b, y, z
  <2>1. s \in Int /\ s <= b - 1 /\ b - 1 \in Int
    BY ONLY <2>0
  <2>2. Min({s, b - 1}) = s
    BY <2>1, MinOfTwo
  <2> QED BY <2>2 DEF Place, b
<1>5. put = {s \in rows : s = k}
  BY <1>4
<1> HIDE DEF m, b, t
<1>6. CASE k \in rows
  <2>1. put = {k}
    BY <1>5, <1>6
  <2>2. k \in Int
    BY <1>1
  <2> HIDE DEF put
  <2>3. Max({k}) = k
    BY <2>2 DEF Max
  <2> QED BY <1>2, <1>6, <2>1, <2>3 DEF m
<1>7. CASE k \notin rows
  <2>1. put = {}
    BY <1>5, <1>7
  <2> QED BY <1>2, <1>7, <2>1 DEF m
<1> QED BY <1>6, <1>7

LEMMA Static ==
  ASSUME img' = img
  PROVE  /\ Comps' = Comps /\ SingleIsPlain' = SingleIsPlain
         /\ McusInScan("v")' = McusInScan("v") /\ MaxFactor("v")' = MaxFactor("v")
         /\ \A c : /\ BufferRows(c)' = BufferRows(c) /\ McuRows(c)' = McuRows(c)
                   /\ \A r : RawEnd(c, r)' = RawEnd(c, r)
BY DEF Comps, SingleIsPlain, Noninterleaved, Factor, McusInScan, Blocks, TotalIMCUs,
       MaxFactor, BufferRows, McuRows, McuSpan, Scaled, Doubling, MayDouble, Threshold,
       RawEnd, Downsampled

LEMMA InitIInv == Init => IInv
<1> SUFFICES ASSUME Init PROVE IInv
  OBVIOUS
<1>1. img \in Images /\ mcuRow = 0 /\ line = 0
  BY DEF Init
<1>2. DOMAIN buffer = Comps /\ \A c \in Comps : DOMAIN buffer[c] = 0..BufferRows(c) - 1
  BY DEF Init
<1>3. ASSUME SingleIsPlain PROVE RowsSoFar /\ RawSoFar
  <2>1. McusInScan("v") \in Nat \ {0} /\ MaxFactor("v") * img.num \in Nat
    BY <1>1, SizesAre, MaxFactorIs, ImageIs, ProductInNat DEF Dim, Factors
  <2>2. RowsSoFar
    <3>1. \A c \in Comps : 0 * McuRows(c) = 0
      BY <1>1, <1>3, RowsOfScan
    <3> QED BY <1>1, <2>1, <3>1 DEF RowsSoFar
  <2>3. ASSUME NEW c \in Comps PROVE RawEnd(c, 0) = 0
    <3>1. /\ McuRows(c) \in Nat /\ BufferRows(c) \in Nat
          /\ Downsampled(c, "v") \in Nat
      BY <1>1, <1>3, RowsOfScan, SizesAre DEF Dim
    <3>2. 0 * McuRows(c) = 0
      BY <3>1
    <3> QED BY <3>1, <3>2, MinOfRows DEF RawEnd
  <2>4. \A c \in Comps : taken[c] = 0
    BY DEF Init
  <2>5. RawSoFar
    BY <1>1, <2>1, <2>3, <2>4 DEF RawSoFar
  <2> QED BY <2>2, <2>5
<1> QED BY <1>1, <1>2, <1>3 DEF IInv, TypeOK

(* Decoding the next iMCU row extends what is in place by its rows.         *)
LEMMA RowsStep ==
  ASSUME IInv, SingleIsPlain, img' = img, ~img.prog, mcuRow < McusInScan("v"),
         buffer' = RouteBlocks(mcuRow), mcuRow' = mcuRow + 1
  PROVE  RowsSoFar'
<1>1. img \in Images /\ mcuRow \in Nat /\ DOMAIN buffer = Comps /\ RowsSoFar
  BY DEF IInv, TypeOK
<1>2. mcuRow + 1 <= McusInScan("v")
  BY <1>1, SizesAre DEF Dim
<1>3. ASSUME NEW c \in Comps, NEW k \in 0..BufferRows(c) - 1,
             k < (mcuRow + 1) * McuRows(c)
      PROVE  buffer'[c][k] = k
  <2>1. DOMAIN buffer[c] = 0..BufferRows(c) - 1
    BY DEF IInv, TypeOK
  <2>2. buffer'[c][k] = IF k \in mcuRow * McuRows(c)..(mcuRow + 1) * McuRows(c) - 1
                        THEN k ELSE buffer[c][k]
    BY <1>1, <2>1, Routed
  <2>3. k < mcuRow * McuRows(c) => buffer[c][k] = k
    BY <1>1 DEF RowsSoFar
  <2>4. McuRows(c) \in Nat /\ BufferRows(c) \in Nat
    BY <1>1, RowsOfScan
  <2>5. mcuRow * McuRows(c) \in Nat /\ (mcuRow + 1) * McuRows(c) \in Nat
    BY <1>1, <2>4, ProductInNat
  <2> QED BY <1>3, <2>2, <2>3, <2>4, <2>5
<1> QED BY <1>2, <1>3, Static DEF RowsSoFar

LEMMA NextIInv == IInv /\ [Next]_vars => IInv'
<1> SUFFICES ASSUME IInv, [Next]_vars PROVE IInv'
  OBVIOUS
<1>0. /\ img \in Images /\ mcuRow \in Nat /\ line \in Nat
      /\ DOMAIN buffer = Comps
      /\ \A c \in Comps : DOMAIN buffer[c] = 0..BufferRows(c) - 1
  BY DEF IInv, TypeOK
<1>1. \A r : /\ DOMAIN RouteBlocks(r) = Comps
            /\ \A c \in Comps : DOMAIN RouteBlocks(r)[c] = 0..BufferRows(c) - 1
  BY <1>0 DEF RouteBlocks
<1>2. /\ DOMAIN RenderCoefficients = Comps
      /\ \A c \in Comps : DOMAIN RenderCoefficients[c] = 0..BufferRows(c) - 1
  BY <1>0 DEF RenderCoefficients
<1>3. McusInScan("v") \in Nat /\ MaxFactor("v") \in Nat /\ img.num \in Nat
  BY <1>0, SizesAre, MaxFactorIs, ImageIs DEF Dim, Factors
<1>4. CASE DecodeIMCURow
  <2>1. /\ img' = img /\ ~img.prog /\ ~img.raw /\ mcuRow < McusInScan("v")
        /\ buffer' = RouteBlocks(mcuRow) /\ mcuRow' = mcuRow + 1 /\ line' = line
    BY <1>0, <1>3, <1>4 DEF DecodeIMCURow, AllDecoded
  <2>2. TypeOK'
    BY <1>0, <1>1, <2>1, Static DEF TypeOK
  <2>3. SingleIsPlain => RowsSoFar'
    BY <2>1, RowsStep
  <2>4. RawSoFar'
    BY <2>1 DEF RawSoFar
  <2> QED BY <2>1, <2>2, <2>3, <2>4, Static DEF IInv
<1>5. CASE DecodeProgressive
  <2>1. /\ img' = img /\ img.prog /\ buffer' = RenderCoefficients
        /\ mcuRow' = mcuRow /\ line' = line /\ taken' = taken
    BY <1>5 DEF DecodeProgressive
  <2>2. TypeOK'
    BY <1>0, <1>2, <2>1, Static DEF TypeOK
  <2>3. RowsSoFar'
    BY <2>1 DEF RowsSoFar
  <2>4. RawSoFar => RawSoFar'
    BY <2>1, Static DEF RawSoFar
  <2> QED BY <2>1, <2>2, <2>3, <2>4, Static DEF IInv
<1>6. CASE ReadLine
  <2>1. /\ img' = img /\ ~img.raw /\ buffer' = buffer
        /\ mcuRow' = mcuRow /\ line' = line + 1
    BY <1>6 DEF ReadLine
  <2>2. TypeOK'
    BY <1>0, <2>1, Static DEF TypeOK
  <2>3. RowsSoFar => RowsSoFar'
    BY <2>1, Static DEF RowsSoFar
  <2>4. RawSoFar'
    BY <2>1 DEF RawSoFar
  <2> QED BY <2>1, <2>2, <2>3, <2>4, Static DEF IInv
<1>7. CASE ReadRawRows
  <2> DEFINE w == MaxFactor("v") * img.num
  <2>1. /\ img' = img /\ img.raw /\ mcuRow < McusInScan("v")
        /\ buffer' = IF img.prog THEN buffer ELSE RouteBlocks(mcuRow)
        /\ mcuRow' = mcuRow + 1 /\ line' = line + w
        /\ taken' = [c \in Comps |-> RawEnd(c, mcuRow + 1)]
    BY <1>7 DEF ReadRawRows
  <2>2. w \in Nat
    BY <1>3, ProductInNat
  <2>3. TypeOK'
    BY <1>0, <1>1, <2>1, <2>2, Static DEF TypeOK
  <2>4. SingleIsPlain => RowsSoFar'
    <3>1. CASE img.prog
      BY <2>1, <3>1 DEF RowsSoFar
    <3>2. CASE ~img.prog
      BY <2>1, <3>2, RowsStep
    <3> QED BY <3>1, <3>2
  <2>5. RawSoFar => RawSoFar'
    <3> HAVE RawSoFar
    <3>1. line = mcuRow * w /\ mcuRow + 1 <= McusInScan("v")
      BY <1>0, <1>3, <2>1 DEF RawSoFar
    <3>2. (mcuRow + 1) * w = mcuRow * w + w
      <4> HIDE DEF w
      <4> QED BY <1>0, <2>2
    <3>3. line' = (mcuRow + 1) * w
      BY <2>1, <3>1, <3>2
    <3> QED BY <2>1, <3>1, <3>3, Static DEF RawSoFar
  <2> QED BY <2>1, <2>3, <2>4, <2>5, Static DEF IInv
<1>8. CASE UNCHANGED vars
  <2>1. /\ img' = img /\ buffer' = buffer /\ mcuRow' = mcuRow
        /\ line' = line /\ taken' = taken
    BY <1>8 DEF vars
  <2> QED BY <2>1, Static DEF IInv, TypeOK, RowsSoFar, RawSoFar
<1> QED BY <1>4, <1>5, <1>6, <1>7, <1>8 DEF Next

LEMMA Inductive == Spec => []IInv
BY InitIInv, NextIInv, PTL DEF Spec

-----------------------------------------------------------------------------
LEMMA PlacedInv == IInv /\ SingleIsPlain => RowsInPlace
<1> SUFFICES ASSUME IInv, SingleIsPlain, Decoded,
                    NEW c \in Comps, NEW k \in 0..Downsampled(c, "v") - 1
             PROVE  k \in DOMAIN buffer[c] /\ buffer[c][k] = k
  BY DEF RowsInPlace
<1>0. /\ img \in Images /\ mcuRow \in Nat /\ RowsSoFar
      /\ DOMAIN buffer = Comps /\ DOMAIN buffer[c] = 0..BufferRows(c) - 1
  BY DEF IInv, TypeOK
<1>1. /\ Downsampled(c, "v") \in Nat /\ Downsampled(c, "v") <= BufferRows(c)
      /\ BufferRows(c) \in Nat /\ McuRows(c) \in Nat
      /\ BufferRows(c) = McusInScan("v") * McuRows(c) /\ McusInScan("v") \in Nat
  BY <1>0, RowsOfScan, SizesAre DEF Dim
<1>2. k \in 0..BufferRows(c) - 1 /\ k \in Nat /\ k < Downsampled(c, "v")
  BY <1>1
<1>3. CASE img.prog
  <2>1. buffer = RenderCoefficients
    BY <1>3 DEF Decoded
  <2>2. buffer[c][k] = IF k < Blocks(c, "v") * Scaled(c, "v") THEN k ELSE Empty
    BY <1>0, <1>2, <2>1 DEF RenderCoefficients
  <2>3. /\ Downsampled(c, "v") <= Blocks(c, "v") * Scaled(c, "v")
        /\ Blocks(c, "v") * Scaled(c, "v") \in Nat
    BY <1>0, BlocksHoldRows, SizesAre, ScaledIs, ProductInNat DEF Dim
  <2>4. k < Blocks(c, "v") * Scaled(c, "v")
    BY <1>1, <1>2, <2>3
  <2> QED BY <1>0, <1>2, <2>2, <2>4
<1>4. CASE ~img.prog
  <2>1. mcuRow = McusInScan("v")
    BY <1>0, <1>1, <1>4 DEF Decoded, AllDecoded, RowsSoFar
  <2>2. k < mcuRow * McuRows(c)
    BY <1>1, <1>2, <2>1
  <2> QED BY <1>0, <1>2, <1>4, <2>2 DEF RowsSoFar
<1> QED BY <1>3, <1>4

(* Raw rows end with the image: the lines counted cover it only when all    *)
(* iMCU rows are decoded.                                                   *)
LEMMA RawInv == IInv /\ SingleIsPlain => RawRowsComplete
<1> SUFFICES ASSUME IInv, SingleIsPlain, img.raw,
                    line >= OutputSize("v") \/ mcuRow >= McusInScan("v"),
                    NEW c \in Comps
             PROVE  taken[c] = Downsampled(c, "v")
  BY DEF RawRowsComplete
<1> DEFINE s == img.size["v"]
           n == img.num
           M == MaxFactor("v")
           B == BlockSize
           t == TotalIMCUs("v")
           r == mcuRow
<1>0. img \in Images /\ RawSoFar /\ r \in Nat /\ "v" \in Dim
  BY DEF IInv, TypeOK, Dim
<1>1. /\ s \in Nat \ {0} /\ n \in Nat \ {0} /\ B \in Nat \ {0} /\ M \in Nat \ {0}
      /\ M * B \in Nat \ {0} /\ t \in Nat \ {0} /\ OutputSize("v") \in Nat
      /\ McusInScan("v") = t
  BY <1>0, ImageIs, MaxFactorIs, SizesAre, RowsOfScan DEF Factors
<1>2. /\ r <= t /\ line = r * (M * n) /\ taken[c] = RawEnd(c, r)
      /\ line >= OutputSize("v") \/ r >= t
  BY <1>0, <1>1 DEF RawSoFar
<1>3. t = CeilDiv(s, M * B) /\ OutputSize("v") = CeilDiv(s * n, B)
  BY DEF TotalIMCUs, OutputSize
<1>4. r = t
  <2> HIDE DEF s, n, M, B, t, r
  <2>1. ASSUME CeilDiv(s * n, B) <= r * (M * n) PROVE t <= r
    <3>1. s * n \in Nat /\ r * (M * n) \in Nat /\ r * (M * B) \in Nat
      BY <1>0, <1>1, ProductInNat
    <3>2. s * n <= (r * (M * n)) * B
      BY <1>1, <2>1, <3>1, CeilDivIs
    <3>3. (r * (M * n)) * B = (r * (M * B)) * n
      BY <1>0, <1>1
    <3>4. s <= r * (M * B)
      BY <1>1, <3>1, <3>2, <3>3, ProductCancels
    <3> QED BY <1>0, <1>1, <1>3, <3>4, CeilDivIs
  <2>2. r * (M * n) \in Nat
    BY <1>0, <1>1, ProductInNat
  <2> QED BY <1>0, <1>1, <1>2, <1>3, <2>1, <2>2
<1>5. /\ Downsampled(c, "v") \in Nat /\ Downsampled(c, "v") <= BufferRows(c)
      /\ BufferRows(c) \in Nat /\ BufferRows(c) = t * McuRows(c)
  BY <1>0, RowsOfScan, SizesAre
<1>6. RawEnd(c, r) = Min({BufferRows(c), BufferRows(c), Downsampled(c, "v")})
  BY <1>4, <1>5 DEF RawEnd
<1> QED BY <1>2, <1>5, <1>6, MinOfRows

LEMMA CoveredInv == IInv /\ SingleIsPlain /\ UsualSampling => ImageCovered
BY LinesAreCovered, ColumnsAreCovered, RawInv DEF IInv, TypeOK, ImageCovered

(* What perScanSetup decodes fits what setupColorPipeline allocates: when   *)
(* an image is decoded every sample row is in the buffer row of its number, *)
(* for every size, set of sampling factors and scale, as lines and as raw   *)
(* data, sequential or progressive.  The exception is the sequential image  *)
(* of one component with a vertical factor.                                 *)
THEOREM RowsInPlaceHolds == Spec => [](SingleIsPlain => RowsInPlace)
BY Inductive, PlacedInv, PTL

(* Lines, columns and raw rows are covered by what is stored and taken from *)
(* the right place, for every size and scale, for the sampling factors      *)
(* upsampleAndConvert is made for.                                          *)
THEOREM ImageCoveredHolds ==
  Spec => [](SingleIsPlain /\ UsualSampling => ImageCovered)
BY Inductive, CoveredInv, PTL

(* Raw data needs no particular sampling factors: the calls that reach the  *)
(* end of the image have returned every row of every component.             *)
THEOREM RawRowsCompleteHolds == Spec => [](SingleIsPlain => RawRowsComplete)
BY Inductive, RawInv, PTL
=============================================================================
