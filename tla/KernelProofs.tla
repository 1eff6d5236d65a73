----------------------------- MODULE KernelProofs -----------------------------
(***************************************************************************)
(* Proofs about Kernels: colours survive every pair of converters, for     *)
(* every sample; the inverse colour map names nearest colours, for every   *)
(* picture, colour map and order of passes.                                *)
(***************************************************************************)
EXTENDS Kernels, SequenceTheorems, FiniteSetTheorems, WellFoundedInduction, TLAPS

Sample == 0..MAXJSAMPLE

(* Samples in thousandths, as they are and inverted; what chroma adds; and  *)
(* how far a conversion may move a colour.                                  *)
Milli(x) == 1000 * x
Complement(x) == 255000 - 1000 * x
ChromaRange == -460..460
Shown == 600
Made == 1400
HalfStep == 1800
GrayLoss == 2200

-----------------------------------------------------------------------------
(* Colour conversion. *)

(* Limiting both numbers to the gamut does not take them apart.             *)
LEMMA LimitedNear ==
  ASSUME NEW a \in Int, NEW b \in Int, NEW t \in Nat, Near(a, b, t)
  PROVE  Near(InGamut(a), InGamut(b), t)
  BY DEF Near, InGamut

(* What the limit table does.                                               *)
LEMMA RangeLimited ==
  ASSUME NEW x \in Int, -512 <= x, x <= 767
  PROVE  range_limit(x) \in Sample /\ 1000 * range_limit(x) = InGamut(1000 * x)
<1>1. -RANGE_CENTER = -512 /\ MAXJSAMPLE + RANGE_CENTER = 767 /\ MAXJSAMPLE = 255
  BY DEF RANGE_CENTER, CENTERJSAMPLE, MAXJSAMPLE
<1>2. range_limit(x) = IF x < 0 THEN 0 ELSE IF x > 255 THEN 255 ELSE x
  <2>1. x \in -512..767
    OBVIOUS
  <2> QED BY <1>1, <2>1 DEF range_limit, prepare_range_limit_table
<1> DEFINE v == range_limit(x)
<1> HIDE DEF v
<1>3. v = IF x < 0 THEN 0 ELSE IF x > 255 THEN 255 ELSE x
  BY <1>2 DEF v
<1>4. v \in 0..255
  BY <1>3
<1>5. 1000 * v = InGamut(1000 * x)
  BY <1>3 DEF InGamut
<1> QED BY <1>1, <1>4, <1>5 DEF v, Sample

(* A luminance with what chroma can add to it does not leave the table, nor *)
(* does its complement.                                                     *)
LEMMA ChromaAdded ==
  ASSUME NEW y \in Sample, NEW d \in ChromaRange, NEW a \in Int, Near(a, Milli(y + d), Shown)
  PROVE  /\ range_limit(y + d) \in Sample
         /\ Near(InGamut(a), Milli(range_limit(y + d)), Shown)
         /\ range_limit(MAXJSAMPLE - (y + d)) \in Sample
         /\ Near(InGamut(a), InGamut(Complement(range_limit(MAXJSAMPLE - (y + d)))), Shown)
<1> DEFINE x == y + d
           z == MAXJSAMPLE - x
           u == range_limit(x)
           v == range_limit(z)
<1>1. x \in Int /\ -512 <= x /\ x <= 767 /\ z = 255 - x /\ z \in Int /\ -512 <= z /\ z <= 767
  BY DEF Sample, MAXJSAMPLE, ChromaRange
<1>2. Near(a, 1000 * x, 600)
  BY DEF Milli, Shown
<1> HIDE DEF x, z
<1>3. u \in Sample /\ 1000 * u = InGamut(1000 * x)
  BY ONLY <1>1, RangeLimited
<1>4. v \in Sample /\ 1000 * v = InGamut(1000 * z)
  BY ONLY <1>1, RangeLimited
<1> HIDE DEF u, v
<1>5. Near(InGamut(a), 1000 * u, 600)
  BY ONLY a \in Int, <1>1, <1>2, <1>3 DEF InGamut, Near
<1>6. Near(InGamut(a), InGamut(255000 - 1000 * v), 600)
  BY ONLY a \in Int, <1>1, <1>2, <1>4 DEF InGamut, Near
<1> QED BY <1>3, <1>4, <1>5, <1>6 DEF x, z, u, v, Milli, Complement, Shown

(* Rounded division by 2^16.                                                *)
LEMMA DescaleIs ==
  ASSUME NEW x \in Int
  PROVE  /\ DESCALE(x) \in Int
         /\ 65536 * DESCALE(x) <= x + 32768 /\ x + 32768 < 65536 * DESCALE(x) + 65536
  BY DEF DESCALE, ONE_HALF, SCALEBITS

LEMMA ScaledIs ==
  ASSUME NEW x \in Int
  PROVE  /\ x \div 65536 \in Int
         /\ 65536 * (x \div 65536) <= x /\ x < 65536 * (x \div 65536) + 65536
  OBVIOUS

(* RGB and the YCC samples made of it are the same colour, and the first    *)
(* of them is its luminance.                                                *)
LEMMA YccStands ==
  ASSUME NEW r \in Sample, NEW g \in Sample, NEW b \in Sample
  PROVE  LET y == Weighted("Y", r, g, b)
             cb == Weighted("Cb", r, g, b)
             cr == Weighted("Cr", r, g, b)
         IN /\ y \in Sample /\ cb \in Sample /\ cr \in Sample
            /\ Near(1000 * r, 1000 * y + 1402 * (cr - 128), 1400)
            /\ Near(1000 * g, 1000 * y - 344 * (cb - 128) - 714 * (cr - 128), 1400)
            /\ Near(1000 * b, 1000 * y + 1772 * (cb - 128), 1400)
<1> DEFINE y == Weighted("Y", r, g, b)
           cb == Weighted("Cb", r, g, b)
           cr == Weighted("Cr", r, g, b)
           sy == 19595 * r + 38470 * g + (7471 * b + 32768)
           sb == -11058 * r + -21710 * g + (b * 32768 + 128 * 65536 + 32768 - 1)
           sr == (r * 32768 + 128 * 65536 + 32768 - 1) + -27439 * g + -5329 * b
<1>0. r \in 0..255 /\ g \in 0..255 /\ b \in 0..255
  BY DEF Sample, MAXJSAMPLE
<1>1. y = sy \div 65536 /\ cb = sb \div 65536 /\ cr = sr \div 65536
  BY <1>0 DEF Weighted, rgb_ycc_tab, SCALEBITS, ONE_HALF, CENTERJSAMPLE, FIX_0_29900, FIX_0_58700, FIX_0_11400,
         FIX_0_16874, FIX_0_33126, FIX_0_41869, FIX_0_08131
<1>2. sy \in Int /\ sb \in Int /\ sr \in Int
  BY <1>0
<1> HIDE DEF y, cb, cr
<1>3. y \in Int /\ 65536 * y <= sy /\ sy < 65536 * y + 65536
  BY <1>1, <1>2, ScaledIs
<1>4. cb \in Int /\ 65536 * cb <= sb /\ sb < 65536 * cb + 65536
  BY <1>1, <1>2, ScaledIs
<1>5. cr \in Int /\ 65536 * cr <= sr /\ sr < 65536 * cr + 65536
  BY <1>1, <1>2, ScaledIs
<1>6. y \in Sample /\ cb \in Sample /\ cr \in Sample
  <2>1. y \in 0..255
    BY <1>0, <1>3
  <2>2. cb \in 0..255
    BY <1>0, <1>4
  <2>3. cr \in 0..255
    BY <1>0, <1>5
  <2> QED BY <2>1, <2>2, <2>3 DEF Sample, MAXJSAMPLE
<1>7. Near(1000 * r, 1000 * y + 1402 * (cr - 128), 1400)
  BY <1>0, <1>3, <1>5 DEF Near
<1>8. Near(1000 * g, 1000 * y - 344 * (cb - 128) - 714 * (cr - 128), 1400)
  BY <1>0, <1>3, <1>4, <1>5 DEF Near
<1>9. Near(1000 * b, 1000 * y + 1772 * (cb - 128), 1400)
  BY <1>0, <1>3, <1>4 DEF Near
<1> QED BY <1>6, <1>7, <1>8, <1>9 DEF y, cb, cr

(* The tables of the chroma, in full.                                       *)
LEMMA ChromaTables ==
  ASSUME NEW i \in Int
  PROVE  /\ build_bg_ycc_rgb_table("R", "Cr", i) = DESCALE(183763 * (i - 128))
         /\ build_bg_ycc_rgb_table("G", "Cb", i) = -45107 * (i - 128) + 32768
         /\ build_bg_ycc_rgb_table("G", "Cr", i) = -93603 * (i - 128)
         /\ build_bg_ycc_rgb_table("B", "Cb", i) = DESCALE(232260 * (i - 128))
         /\ build_ycc_rgb_table("R", "Cr", i) = DESCALE(91881 * (i - 128))
         /\ build_ycc_rgb_table("G", "Cb", i) = -22553 * (i - 128) + 32768
         /\ build_ycc_rgb_table("G", "Cr", i) = -46802 * (i - 128)
         /\ build_ycc_rgb_table("B", "Cb", i) = DESCALE(116130 * (i - 128))
<1> USE DEF FIX_2_80400, FIX_3_54400, FIX_1_42827, FIX_0_68827, FIX_1_40200, FIX_1_77200, FIX_0_71414, FIX_0_34414,
            ONE_HALF, CENTERJSAMPLE
<1>1. build_bg_ycc_rgb_table("R", "Cr", i) = DESCALE(183763 * (i - 128))
  BY DEF build_bg_ycc_rgb_table
<1>2. build_bg_ycc_rgb_table("G", "Cb", i) = -45107 * (i - 128) + 32768
  BY DEF build_bg_ycc_rgb_table
<1>3. build_bg_ycc_rgb_table("G", "Cr", i) = -93603 * (i - 128)
  BY DEF build_bg_ycc_rgb_table
<1>4. build_bg_ycc_rgb_table("B", "Cb", i) = DESCALE(232260 * (i - 128))
  BY DEF build_bg_ycc_rgb_table
<1>5. build_ycc_rgb_table("R", "Cr", i) = DESCALE(91881 * (i - 128))
  BY DEF build_ycc_rgb_table
<1>6. build_ycc_rgb_table("G", "Cb", i) = -22553 * (i - 128) + 32768
  BY DEF build_ycc_rgb_table
<1>7. build_ycc_rgb_table("G", "Cr", i) = -46802 * (i - 128)
  BY DEF build_ycc_rgb_table
<1>8. build_ycc_rgb_table("B", "Cb", i) = DESCALE(116130 * (i - 128))
  BY DEF build_ycc_rgb_table
<1> QED BY <1>1, <1>2, <1>3, <1>4, <1>5, <1>6, <1>7, <1>8, SMTT(30)

(* The converters from YCC add to the luminance what the chroma stands for, *)
(* in the normal range (scale 1) and in the wide one (scale 2).             *)
LEMMA RgbStands ==
  ASSUME NEW bg \in BOOLEAN, NEW scale, scale = IF bg THEN 2 ELSE 1,
         NEW y \in Sample, NEW cb \in Sample, NEW cr \in Sample
  PROVE  LET was == YccColour(<<y, cb, cr>>, scale)
             c == ChromaOf(bg, cb, cr)
         IN \A i \in 1..3 : /\ was[i] \in Int /\ c[i] \in ChromaRange
                            /\ Near(was[i], Milli(y + c[i]), Shown)
<1> DEFINE u == cb - 128
           v == cr - 128
           c == ChromaOf(bg, cb, cr)
           Stands(w, d, i) == w[i] \in Int /\ d[i] \in -460..460 /\ Near(w[i], 1000 * (y + d[i]), 600)
<1>0. y \in 0..255 /\ u \in -128..127 /\ v \in -128..127
  BY SMTT(30) DEF Sample, MAXJSAMPLE
<1> SUFFICES \A i \in 1..3 : Stands(YccColour(<<y, cb, cr>>, scale), c, i)
  BY DEF ChromaRange, Milli, Shown
<1>1. CASE bg
  <2> DEFINE red == 183763 * v
             green == -45107 * u + 32768 + -93603 * v
             blue == 232260 * u
             was == <<1000 * y + 1402 * (2 * v), 1000 * y - 344 * (2 * u) - 714 * (2 * v), 1000 * y + 1772 * (2 * u)>>
  <2>1. c[1] = DESCALE(red) /\ c[2] = green \div 65536 /\ c[3] = DESCALE(blue)
    BY <1>0, <1>1, ChromaTables DEF ChromaOf, Chroma, SCALEBITS
  <2>2. red \in Int /\ green \in Int /\ blue \in Int
    BY <1>0
  <2>3. YccColour(<<y, cb, cr>>, scale) = was
    BY <1>0, <1>1 DEF YccColour
  <2> HIDE DEF c, red, green, blue
  <2>4. /\ c[1] \in Int /\ 65536 * c[1] <= red + 32768 /\ red + 32768 < 65536 * c[1] + 65536
        /\ c[3] \in Int /\ 65536 * c[3] <= blue + 32768 /\ blue + 32768 < 65536 * c[3] + 65536
    <3>1. DESCALE(red) \in Int /\ 65536 * DESCALE(red) <= red + 32768 /\ red + 32768 < 65536 * DESCALE(red) + 65536
      BY <2>2, DescaleIs
    <3>2. DESCALE(blue) \in Int /\ 65536 * DESCALE(blue) <= blue + 32768 /\ blue + 32768 < 65536 * DESCALE(blue) + 65536
      BY <2>2, DescaleIs
    <3> QED BY <2>1, <3>1, <3>2
  <2>5. c[2] \in Int /\ 65536 * c[2] <= green /\ green < 65536 * c[2] + 65536
    BY <2>1, <2>2, ScaledIs
  <2> USE DEF red, green, blue
  <2>6. was[1] \in Int /\ c[1] \in -460..460 /\ Near(was[1], 1000 * (y + c[1]), 600)
    <3> DEFINE d == c[1]
    <3>1. d \in Int /\ 65536 * d <= red + 32768 /\ red + 32768 < 65536 * d + 65536
      BY <2>4
    <3> HIDE DEF d
    <3>2. d \in -460..460 /\ Near(was[1], 1000 * (y + d), 600)
      BY <1>0, <3>1, SMTT(30) DEF Near
    <3> QED BY <1>0, <3>2 DEF d
  <2>7. was[2] \in Int /\ c[2] \in -460..460 /\ Near(was[2], 1000 * (y + c[2]), 600)
    <3> DEFINE d == c[2]
    <3>1. d \in Int /\ 65536 * d <= green /\ green < 65536 * d + 65536
      BY <2>5
    <3> HIDE DEF d
    <3>2. d \in -460..460 /\ Near(was[2], 1000 * (y + d), 600)
      BY <1>0, <3>1, SMTT(30) DEF Near
    <3> QED BY <1>0, <3>2 DEF d
  <2>8. was[3] \in Int /\ c[3] \in -460..460 /\ Near(was[3], 1000 * (y + c[3]), 600)
    <3> DEFINE d == c[3]
    <3>1. d \in Int /\ 65536 * d <= blue + 32768 /\ blue + 32768 < 65536 * d + 65536
      BY <2>4
    <3> HIDE DEF d
    <3>2. d \in -460..460 /\ Near(was[3], 1000 * (y + d), 600)
      BY <1>0, <3>1, SMTT(30) DEF Near
    <3> QED BY <1>0, <3>2 DEF d
  <2> HIDE DEF was
  <2>9. Stands(was, c, 1) /\ Stands(was, c, 2) /\ Stands(was, c, 3)
    BY <2>6, <2>7, <2>8, SMTT(60)
  <2> HIDE DEF Stands
  <2>10. \A i \in 1..3 : Stands(was, c, i)
    <3> SUFFICES ASSUME NEW i \in 1..3 PROVE Stands(was, c, i)
      OBVIOUS
    <3>1. i = 1 \/ i = 2 \/ i = 3
      OBVIOUS
    <3> QED BY <2>9, <3>1, Zenon
  <2> QED BY <2>3, <2>10, Zenon
<1>2. CASE ~bg
  <2> DEFINE red == 91881 * v
             green == -22553 * u + 32768 + -46802 * v
             blue == 116130 * u
             was == <<1000 * y + 1402 * v, 1000 * y - 344 * u - 714 * v, 1000 * y + 1772 * u>>
  <2>1. c[1] = DESCALE(red) /\ c[2] = green \div 65536 /\ c[3] = DESCALE(blue)
    BY <1>0, <1>2, ChromaTables DEF ChromaOf, Chroma, SCALEBITS
  <2>2. red \in Int /\ green \in Int /\ blue \in Int
    BY <1>0
  <2>3. YccColour(<<y, cb, cr>>, scale) = was
    BY <1>0, <1>2 DEF YccColour
  <2> HIDE DEF c, red, green, blue
  <2>4. /\ c[1] \in Int /\ 65536 * c[1] <= red + 32768 /\ red + 32768 < 65536 * c[1] + 65536
        /\ c[3] \in Int /\ 65536 * c[3] <= blue + 32768 /\ blue + 32768 < 65536 * c[3] + 65536
    <3>1. DESCALE(red) \in Int /\ 65536 * DESCALE(red) <= red + 32768 /\ red + 32768 < 65536 * DESCALE(red) + 65536
      BY <2>2, DescaleIs
    <3>2. DESCALE(blue) \in Int /\ 65536 * DESCALE(blue) <= blue + 32768 /\ blue + 32768 < 65536 * DESCALE(blue) + 65536
      BY <2>2, DescaleIs
    <3> QED BY <2>1, <3>1, <3>2
  <2>5. c[2] \in Int /\ 65536 * c[2] <= green /\ green < 65536 * c[2] + 65536
    BY <2>1, <2>2, ScaledIs
  <2> USE DEF red, green, blue
  <2>6. was[1] \in Int /\ c[1] \in -460..460 /\ Near(was[1], 1000 * (y + c[1]), 600)
    <3> DEFINE d == c[1]
    <3>1. d \in Int /\ 65536 * d <= red + 32768 /\ red + 32768 < 65536 * d + 65536
      BY <2>4
    <3> HIDE DEF d
    <3>2. d \in -460..460 /\ Near(was[1], 1000 * (y + d), 600)
      BY <1>0, <3>1, SMTT(30) DEF Near
    <3> QED BY <1>0, <3>2 DEF d
  <2>7. was[2] \in Int /\ c[2] \in -460..460 /\ Near(was[2], 1000 * (y + c[2]), 600)
    <3> DEFINE d == c[2]
    <3>1. d \in Int /\ 65536 * d <= green /\ green < 65536 * d + 65536
      BY <2>5
    <3> HIDE DEF d
    <3>2. d \in -460..460 /\ Near(was[2], 1000 * (y + d), 600)
      BY <1>0, <3>1, SMTT(30) DEF Near
    <3> QED BY <1>0, <3>2 DEF d
  <2>8. was[3] \in Int /\ c[3] \in -460..460 /\ Near(was[3], 1000 * (y + c[3]), 600)
    <3> DEFINE d == c[3]
    <3>1. d \in Int /\ 65536 * d <= blue + 32768 /\ blue + 32768 < 65536 * d + 65536
      BY <2>4
    <3> HIDE DEF d
    <3>2. d \in -460..460 /\ Near(was[3], 1000 * (y + d), 600)
      BY <1>0, <3>1, SMTT(30) DEF Near
    <3> QED BY <1>0, <3>2 DEF d
  <2> HIDE DEF was
  <2>9. Stands(was, c, 1) /\ Stands(was, c, 2) /\ Stands(was, c, 3)
    BY <2>6, <2>7, <2>8, SMTT(60)
  <2> HIDE DEF Stands
  <2>10. \A i \in 1..3 : Stands(was, c, i)
    <3> SUFFICES ASSUME NEW i \in 1..3 PROVE Stands(was, c, i)
      OBVIOUS
    <3>1. i = 1 \/ i = 2 \/ i = 3
      OBVIOUS
    <3> QED BY <2>9, <3>1, Zenon
  <2> QED BY <2>3, <2>10, Zenon
<1> QED BY <1>1, <1>2

(* Halved chroma stands for the same chroma in the wide range, but for half *)
(* a step.                                                                  *)
LEMMA HalvedStands ==
  ASSUME NEW x \in Sample
  PROVE  LET h == 128 + F!quantised(x - 128, 2)
         IN h \in Sample /\ 2 * (h - 128) - (x - 128) \in -1..1
  BY DEF F!quantised, Sample, MAXJSAMPLE

(* The luminance of a gray colour, of RGB samples and of YCC samples.       *)
LEMMA GrayLuminance ==
  ASSUME NEW y \in Sample
  PROVE  Near(InGamut(LuminanceOf([i \in 1..3 |-> 1000 * y])), Milli(y), GrayLoss)
<1>1. y \in 0..255 /\ (1000 * y) \div 10 = 100 * y
  BY DEF Sample, MAXJSAMPLE
<1>2. 299 * (100 * y) + 587 * (100 * y) + 114 * (100 * y) = 100000 * y /\ (100000 * y) \div 100 = 1000 * y
  BY <1>1
<1>3. LuminanceOf([i \in 1..3 |-> 1000 * y]) = 1000 * y
  BY <1>1, <1>2 DEF LuminanceOf
<1>4. Near(InGamut(1000 * y), 1000 * y, 2200)
  BY <1>1 DEF InGamut, Near
<1> QED BY <1>3, <1>4 DEF Milli, GrayLoss

LEMMA RgbLuminance ==
  ASSUME NEW c, NEW r \in Sample, NEW g \in Sample, NEW b \in Sample,
         c[1] = 1000 * r, c[2] = 1000 * g, c[3] = 1000 * b
  PROVE  /\ Luminance(r, g, b) = Weighted("Y", r, g, b)
         /\ Luminance(r, g, b) \in Sample
         /\ Near(InGamut(LuminanceOf(c)), Milli(Luminance(r, g, b)), GrayLoss)
<1> DEFINE l == Luminance(r, g, b)
           sum == 19595 * r + 38470 * g + (7471 * b + 32768)
           lum == 299 * r + 587 * g + 114 * b
<1>0. r \in 0..255 /\ g \in 0..255 /\ b \in 0..255
  BY DEF Sample, MAXJSAMPLE
<1>1. /\ build_rgb_y_table("R", r) = 19595 * r /\ rgb_ycc_tab("Y", "R", r) = 19595 * r
      /\ build_rgb_y_table("G", g) = 38470 * g /\ rgb_ycc_tab("Y", "G", g) = 38470 * g
      /\ build_rgb_y_table("B", b) = 7471 * b + 32768 /\ rgb_ycc_tab("Y", "B", b) = 7471 * b + 32768
  BY DEF build_rgb_y_table, rgb_ycc_tab, FIX_0_29900, FIX_0_58700, FIX_0_11400, ONE_HALF
<1>2. l = sum \div 65536 /\ l = Weighted("Y", r, g, b)
  BY <1>1 DEF Luminance, Weighted, SCALEBITS
<1>3. sum \in Int
  BY <1>0
<1> HIDE DEF l
<1>4. l \in Int /\ 65536 * l <= sum /\ sum < 65536 * l + 65536
  BY <1>2, <1>3, ScaledIs
<1>5. l \in Sample /\ lum \in Nat /\ lum <= 255000 /\ Near(lum, 1000 * l, 2200)
  <2>1. l \in Sample
    BY ONLY <1>0, <1>4 DEF Sample, MAXJSAMPLE
  <2>2. lum \in Nat /\ lum <= 255000
    BY ONLY <1>0
  <2>3. Near(lum, 1000 * l, 2200)
    BY ONLY <1>0, <1>4 DEF Near
  <2> QED BY <2>1, <2>2, <2>3
<1>6. LuminanceOf(c) = lum
  <2>1. (1000 * r) \div 10 = 100 * r /\ (1000 * g) \div 10 = 100 * g /\ (1000 * b) \div 10 = 100 * b
    BY <1>0
  <2>2. (299 * (100 * r) + 587 * (100 * g) + 114 * (100 * b)) \div 100 = lum
    BY <1>0
  <2> QED BY <2>1, <2>2 DEF LuminanceOf
<1>7. InGamut(lum) = lum
  BY <1>5 DEF InGamut
<1> HIDE DEF sum, lum
<1>8. Near(InGamut(LuminanceOf(c)), 1000 * l, 2200)
  BY <1>5, <1>6, <1>7
<1>9. l = Luminance(r, g, b)
  BY DEF l
<1> QED BY <1>2, <1>5, <1>8, <1>9 DEF Milli, GrayLoss

LEMMA YccLuminance ==
  ASSUME NEW p, NEW y \in Sample, NEW cb \in Sample, NEW cr \in Sample,
         p[1] = y, p[2] = cb, p[3] = cr, NEW scale \in 1..2
  PROVE  Near(InGamut(LuminanceOf(YccColour(p, scale))), Milli(y), GrayLoss)
<1> DEFINE u == scale * (cb - 128)
           v == scale * (cr - 128)
           red == 1000 * y + 1402 * v
           green == 1000 * y - 344 * u - 714 * v
           blue == 1000 * y + 1772 * u
           lum == (299 * (red \div 10) + 587 * (green \div 10) + 114 * (blue \div 10)) \div 100
<1>0. y \in 0..255 /\ u \in -256..254 /\ v \in -256..254
  <2>1. y \in 0..255 /\ cb \in 0..255 /\ cr \in 0..255 /\ (scale = 1 \/ scale = 2)
    BY DEF Sample, MAXJSAMPLE
  <2>2. CASE scale = 1
    BY <2>1, <2>2
  <2>3. CASE scale = 2
    BY <2>1, <2>3
  <2> QED BY <2>1, <2>2, <2>3
<1>1. YccColour(p, scale) = <<red, green, blue>>
  BY DEF YccColour
<1> HIDE DEF u, v
<1>2. red \in Int /\ green \in Int /\ blue \in Int
  BY <1>0
<1>3. LuminanceOf(<<red, green, blue>>) = lum
  BY DEF LuminanceOf
<1>4. lum \in Int /\ Near(lum, 1000 * y, 2200)
  BY <1>0 DEF Near
<1>5. InGamut(1000 * y) = 1000 * y
  BY <1>0 DEF InGamut
<1> HIDE DEF red, green, blue, lum
<1>6. Near(InGamut(lum), 1000 * y, 2200)
  BY <1>0, <1>4, <1>5, LimitedNear
<1> QED BY <1>1, <1>3, <1>6 DEF Milli, GrayLoss

(* Three samples and a fourth one.                                          *)
LEMMA FourSamples ==
  ASSUME NEW f \in [1..3 -> Sample], NEW d \in Sample
  PROVE  LET s == f \o <<d>>
         IN /\ s \in [1..4 -> Sample] /\ Len(s) = 4 /\ DOMAIN s = 1..4
            /\ s[1] = f[1] /\ s[2] = f[2] /\ s[3] = f[3] /\ s[4] = d
<1> DEFINE one == <<d>>
           s == f \o one
<1>1. f \in Seq(Sample) /\ Len(f) = 3
  <2>1. f \in Seq(Sample)
    BY SeqDef
  <2> QED BY <2>1, LenProperties
<1>2. one \in Seq(Sample) /\ Len(one) = 1 /\ one[1] = d
  OBVIOUS
<1> HIDE DEF one
<1>3. /\ s \in Seq(Sample) /\ Len(s) = Len(f) + Len(one)
      /\ \A i \in 1..Len(f) + Len(one) : s[i] = IF i <= Len(f) THEN f[i] ELSE one[i - Len(f)]
  BY <1>1, <1>2, ConcatProperties, Zenon
<1>4. Len(s) = 4 /\ \A i \in 1..4 : s[i] = IF i <= 3 THEN f[i] ELSE one[i - 3]
  BY <1>1, <1>2, <1>3
<1> HIDE DEF s
<1>5. s[1] = f[1] /\ s[2] = f[2] /\ s[3] = f[3] /\ s[4] = one[1]
  BY <1>4
<1>6. s \in [1..4 -> Sample] /\ DOMAIN s = 1..4
  BY <1>3, <1>4, LenProperties
<1> QED BY <1>2, <1>4, <1>5, <1>6 DEF s, one

(* What is compressed, converter by converter: an image with four           *)
(* components keeps its black.                                              *)
LEMMA CompressSelected ==
  ASSUME NEW in \in Spaces, NEW jpeg \in Spaces, NEW sub \in BOOLEAN,
         NEW to, to = jinit_color_converter(in, ComponentsOf(in), jpeg, ComponentsOf(jpeg), sub),
         to.name # "error"
  PROVE  /\ to.halved = (jpeg = "BG_YCC" /\ in \in {"RGB", "YCbCr"})
         /\ sub => jpeg \in {"RGB", "BG_RGB"}
         /\ \/ jpeg = "GRAYSCALE" /\ in \in {"GRAYSCALE", "YCbCr", "BG_YCC"} /\ to.name = "grayscale"
            \/ jpeg = "GRAYSCALE" /\ in = "RGB" /\ to.name = "rgb_gray"
            \/ jpeg \in {"RGB", "BG_RGB"} /\ in = jpeg /\ sub /\ to.name = "rgb_rgb1"
            \/ jpeg \in {"RGB", "BG_RGB"} /\ in = jpeg /\ ~sub /\ to.name = "rgb"
            \/ jpeg \in {"YCbCr", "BG_YCC"} /\ in = "RGB" /\ to.name = "rgb_ycc"
            \/ jpeg \in {"YCbCr", "BG_YCC"} /\ in \in {"YCbCr", jpeg} /\ to.name = "null"
            \/ jpeg = "CMYK" /\ in = "CMYK" /\ to.name = "null"
            \/ jpeg = "YCCK" /\ in = "CMYK" /\ to.name = "cmyk_ycck"
            \/ jpeg = "YCCK" /\ in = "YCCK" /\ to.name = "null"
<1> DEFINE name == CASE jpeg = "GRAYSCALE" /\ in \in {"GRAYSCALE", "YCbCr", "BG_YCC"} -> "grayscale"
                [] jpeg = "GRAYSCALE" /\ in = "RGB" -> "rgb_gray"
                [] jpeg \in {"RGB", "BG_RGB"} /\ in = jpeg -> IF sub THEN "rgb_rgb1" ELSE "rgb"
                [] jpeg \in {"YCbCr", "BG_YCC"} /\ in = "RGB" -> "rgb_ycc"
                [] jpeg = "YCbCr" /\ in = "YCbCr" -> "null"
                [] jpeg = "BG_YCC" /\ in \in {"YCbCr", "BG_YCC"} -> "null"
                [] jpeg = "CMYK" /\ in = "CMYK" -> "null"
                [] jpeg = "YCCK" /\ in = "CMYK" -> "cmyk_ycck"
                [] jpeg = "YCCK" /\ in = "YCCK" -> "null"
                [] jpeg = "UNKNOWN" /\ in = "UNKNOWN" /\ ComponentsOf(jpeg) = ComponentsOf(in) -> "null"
                [] OTHER -> "error"
<1>1. /\ to.halved = (jpeg = "BG_YCC" /\ in \in {"RGB", "YCbCr"})
      /\ sub => jpeg \in {"RGB", "BG_RGB"}
      /\ to.name = name
  BY DEF jinit_color_converter
<1>2. name # "error"
  BY <1>1
<1>3. CASE jpeg = "GRAYSCALE"
  BY <1>1, <1>2, <1>3 DEF Spaces
<1>4. CASE jpeg \in {"RGB", "BG_RGB"}
  BY <1>1, <1>2, <1>4 DEF Spaces
<1>5. CASE jpeg \in {"YCbCr", "BG_YCC"}
  BY <1>1, <1>2, <1>5 DEF Spaces
<1>6. CASE jpeg \in {"CMYK", "YCCK"}
  BY <1>1, <1>2, <1>6 DEF Spaces
<1> QED BY <1>3, <1>4, <1>5, <1>6 DEF Spaces

LEMMA DecompressSelected ==
  ASSUME NEW jpeg \in Spaces, NEW out \in Spaces, NEW sub \in BOOLEAN, NEW needed,
         NEW from, from = jinit_color_deconverter(jpeg, ComponentsOf(jpeg), out, sub, needed),
         from # "error"
  PROVE  \/ out = "GRAYSCALE" /\ jpeg \in {"GRAYSCALE", "YCbCr", "BG_YCC"} /\ from = "grayscale"
         \/ out = "GRAYSCALE" /\ jpeg = "RGB" /\ sub /\ from = "rgb1_gray"
         \/ out = "GRAYSCALE" /\ jpeg = "RGB" /\ ~sub /\ from = "rgb_gray"
         \/ out = "RGB" /\ jpeg = "GRAYSCALE" /\ from = "gray_rgb"
         \/ out = "RGB" /\ jpeg = "YCbCr" /\ from = "ycc_rgb"
         \/ out = "RGB" /\ jpeg = "BG_YCC" /\ from = "bg_ycc_rgb"
         \/ out \in {"RGB", "BG_RGB"} /\ jpeg = out /\ sub /\ from = "rgb1_rgb"
         \/ out \in {"RGB", "BG_RGB"} /\ jpeg = out /\ ~sub /\ from = "rgb"
         \/ out = "CMYK" /\ jpeg = "YCCK" /\ from = "ycck_cmyk"
         \/ out = "YCCK" /\ jpeg = "CMYK" /\ from = "cmyk_yk"
         \/ out \in {"YCbCr", "BG_YCC", "CMYK", "YCCK"} /\ jpeg = out /\ from = "null"
<1> DEFINE onlyYK == jpeg = "CMYK" /\ needed = {1, 4}
           name == CASE out = "GRAYSCALE" /\ jpeg \in {"GRAYSCALE", "YCbCr", "BG_YCC"} -> "grayscale"
            [] out = "GRAYSCALE" /\ jpeg = "RGB" -> IF sub THEN "rgb1_gray" ELSE "rgb_gray"
            [] out = "RGB" /\ jpeg = "GRAYSCALE" -> "gray_rgb"
            [] out = "RGB" /\ jpeg = "YCbCr" -> "ycc_rgb"
            [] out = "RGB" /\ jpeg = "BG_YCC" -> "bg_ycc_rgb"
            [] out \in {"RGB", "BG_RGB"} /\ jpeg = out -> IF sub THEN "rgb1_rgb" ELSE "rgb"
            [] out = "CMYK" /\ jpeg = "YCCK" -> "ycck_cmyk"
            [] out = "YCCK" /\ onlyYK -> "cmyk_yk"
            [] out \notin {"GRAYSCALE", "RGB", "BG_RGB"} /\ out = jpeg -> "null"
            [] OTHER -> "error"
<1>1. from = name
  BY DEF jinit_color_deconverter
<1>2. CASE out = "GRAYSCALE"
  BY <1>1, <1>2 DEF Spaces
<1>3. CASE out \in {"RGB", "BG_RGB"}
  BY <1>1, <1>3 DEF Spaces
<1>4. CASE out \in {"YCbCr", "BG_YCC", "CMYK", "YCCK"}
  BY <1>1, <1>4 DEF Spaces
<1> QED BY <1>2, <1>3, <1>4 DEF Spaces

(* Chroma that is not halved stays.                                         *)
LEMMA NotHalved ==
  ASSUME NEW n \in Nat, NEW s \in [1..n -> Sample]
  PROVE  HalfChroma(FALSE, s) = s
  BY DEF HalfChroma

(* The colour of YCC samples, component by component.                       *)
LEMMA YccIs ==
  ASSUME NEW s, NEW scale \in 1..2, s[1] \in Sample, s[2] \in Sample, s[3] \in Sample
  PROVE  LET c == YccColour(s, scale)
             u == scale * (s[2] - 128)
             v == scale * (s[3] - 128)
         IN /\ c[1] = 1000 * s[1] + 1402 * v
            /\ c[2] = 1000 * s[1] - 344 * u - 714 * v
            /\ c[3] = 1000 * s[1] + 1772 * u
            /\ \A i \in 1..3 : c[i] \in Int
<1> DEFINE c == YccColour(s, scale)
           u == scale * (s[2] - 128)
           v == scale * (s[3] - 128)
<1>1. s[1] \in Int /\ u \in Int /\ v \in Int
  <2>1. \A x \in Sample : x \in Int
    BY DEF Sample, MAXJSAMPLE
  <2>2. s[1] \in Int /\ s[2] \in Int /\ s[3] \in Int
    BY <2>1, Zenon
  <2>3. scale \in Int
    OBVIOUS
  <2> HIDE DEF c
  <2> QED BY <2>2, <2>3
<1>2. c = <<1000 * s[1] + 1402 * v, 1000 * s[1] - 344 * u - 714 * v, 1000 * s[1] + 1772 * u>>
  BY DEF YccColour
<1> HIDE DEF c, u, v
<1>3. c[1] \in Int /\ c[2] \in Int /\ c[3] \in Int
  BY <1>1, <1>2
<1>4. \A i \in 1..3 : c[i] \in Int
  BY <1>3
<1> QED BY <1>2, <1>4 DEF c, u, v

(* Samples whose chroma is stored at half its scale.                        *)
LEMMA HalvedColour ==
  ASSUME NEW s \in [1..3 -> Sample]
  PROVE  LET h == HalfChroma(TRUE, s)
         IN /\ h \in [1..3 -> Sample] /\ h[1] = s[1]
            /\ \A i \in 1..3 : Near(YccColour(s, 1)[i], YccColour(h, 2)[i], HalfStep)
<1> DEFINE h == HalfChroma(TRUE, s)
           c == YccColour(s, 1)
           d == YccColour(h, 2)
           u == 1 * (s[2] - 128)
           v == 1 * (s[3] - 128)
           u2 == 2 * (h[2] - 128)
           v2 == 2 * (h[3] - 128)
<1>1. h = [i \in 1..3 |-> IF i > 1 THEN 128 + F!quantised(s[i] - 128, 2) ELSE s[i]]
  BY DEF HalfChroma
<1> HIDE DEF h
<1>2. s[1] \in Sample /\ s[2] \in Sample /\ s[3] \in Sample
  OBVIOUS
<1>3. /\ 128 + F!quantised(s[2] - 128, 2) \in Sample
      /\ 2 * ((128 + F!quantised(s[2] - 128, 2)) - 128) - (s[2] - 128) \in -1..1
  BY <1>2, HalvedStands
<1>4. /\ 128 + F!quantised(s[3] - 128, 2) \in Sample
      /\ 2 * ((128 + F!quantised(s[3] - 128, 2)) - 128) - (s[3] - 128) \in -1..1
  BY <1>2, HalvedStands
<1>5. /\ h[1] = s[1] /\ h[2] = 128 + F!quantised(s[2] - 128, 2)
      /\ h[3] = 128 + F!quantised(s[3] - 128, 2)
  BY <1>1
<1>6. h \in [1..3 -> Sample] /\ h[1] \in Sample /\ h[2] \in Sample /\ h[3] \in Sample
  BY <1>1, <1>2, <1>3, <1>4, <1>5
<1>7. u2 - u \in -1..1 /\ v2 - v \in -1..1
  BY <1>2, <1>3, <1>4, <1>5 DEF Sample, MAXJSAMPLE
<1>8. u \in Int /\ v \in Int /\ u2 \in Int /\ v2 \in Int /\ s[1] \in Int
  <2>1. \A x \in Sample : x \in Int
    BY DEF Sample, MAXJSAMPLE
  <2>2. s[1] \in Int /\ s[2] \in Int /\ s[3] \in Int /\ h[2] \in Int /\ h[3] \in Int
    BY <1>2, <1>6, <2>1, Zenon
  <2> HIDE DEF c, d
  <2> QED BY <2>2
<1>9. c[1] = 1000 * s[1] + 1402 * v /\ c[2] = 1000 * s[1] - 344 * u - 714 * v /\ c[3] = 1000 * s[1] + 1772 * u
  BY <1>2, YccIs
<1>10. d[1] = 1000 * s[1] + 1402 * v2 /\ d[2] = 1000 * s[1] - 344 * u2 - 714 * v2 /\ d[3] = 1000 * s[1] + 1772 * u2
  BY <1>5, <1>6, YccIs
<1> HIDE DEF c, d, u, v, u2, v2
<1>11. /\ Near(1000 * s[1] + 1402 * v, 1000 * s[1] + 1402 * v2, 1800)
       /\ Near(1000 * s[1] - 344 * u - 714 * v, 1000 * s[1] - 344 * u2 - 714 * v2, 1800)
       /\ Near(1000 * s[1] + 1772 * u, 1000 * s[1] + 1772 * u2, 1800)
  BY <1>7, <1>8 DEF Near
<1>12. Near(c[1], d[1], 1800) /\ Near(c[2], d[2], 1800) /\ Near(c[3], d[3], 1800)
  BY <1>9, <1>10, <1>11
<1>13. \A i \in 1..3 : Near(c[i], d[i], HalfStep)
  BY <1>12 DEF HalfStep
<1> QED BY <1>5, <1>6, <1>13 DEF c, d, h

(* RGB is compressed to YCC of the same colour.                             *)
LEMMA CompressedYcc ==
  ASSUME NEW p, p[1] \in Sample, p[2] \in Sample, p[3] \in Sample
  PROVE  LET s == rgb_ycc_convert(p)
         IN /\ s \in [1..3 -> Sample] /\ DOMAIN s = 1..3
            /\ \A i \in 1..3 : Near(Milli(p[i]), YccColour(s, 1)[i], Made)
            /\ s[1] = Weighted("Y", p[1], p[2], p[3])
<1> DEFINE s == rgb_ycc_convert(p)
           y == Weighted("Y", p[1], p[2], p[3])
           cb == Weighted("Cb", p[1], p[2], p[3])
           cr == Weighted("Cr", p[1], p[2], p[3])
           c == YccColour(s, 1)
<1>1. s = <<y, cb, cr>>
  BY DEF rgb_ycc_convert
<1>2. /\ y \in Sample /\ cb \in Sample /\ cr \in Sample
      /\ Near(1000 * p[1], 1000 * y + 1402 * (cr - 128), 1400)
      /\ Near(1000 * p[2], 1000 * y - 344 * (cb - 128) - 714 * (cr - 128), 1400)
      /\ Near(1000 * p[3], 1000 * y + 1772 * (cb - 128), 1400)
  BY YccStands
<1> HIDE DEF s, y, cb, cr
<1>3. s[1] = y /\ s[2] = cb /\ s[3] = cr /\ s \in [1..3 -> Sample] /\ DOMAIN s = 1..3
  BY <1>1, <1>2
<1> DEFINE u == 1 * (s[2] - 128)
           v == 1 * (s[3] - 128)
<1>4. c[1] = 1000 * s[1] + 1402 * v /\ c[2] = 1000 * s[1] - 344 * u - 714 * v /\ c[3] = 1000 * s[1] + 1772 * u
  BY <1>2, <1>3, YccIs
<1>5. u = cb - 128 /\ v = cr - 128
  BY <1>2, <1>3 DEF Sample, MAXJSAMPLE
<1> HIDE DEF c, u, v
<1>6. Near(1000 * p[1], c[1], 1400) /\ Near(1000 * p[2], c[2], 1400) /\ Near(1000 * p[3], c[3], 1400)
  BY <1>2, <1>3, <1>4, <1>5
<1>7. \A i \in 1..3 : Near(Milli(p[i]), c[i], Made)
  BY <1>6 DEF Milli, Made
<1> QED BY <1>3, <1>7 DEF c, s, y

(* YCC samples are decompressed to RGB of the same colour, as far as it is  *)
(* in the gamut.                                                            *)
LEMMA DecompressedRgb ==
  ASSUME NEW bg \in BOOLEAN, NEW scale, scale = IF bg THEN 2 ELSE 1,
         NEW s, s[1] \in Sample, s[2] \in Sample, s[3] \in Sample
  PROVE  LET r == ycc_rgb_convert(bg, s)
             c == YccColour(s, scale)
         IN \A i \in 1..3 : r[i] \in Sample /\ Near(InGamut(c[i]), Milli(r[i]), Shown)
<1> DEFINE r == ycc_rgb_convert(bg, s)
           c == YccColour(s, scale)
           was == YccColour(<<s[1], s[2], s[3]>>, scale)
           d == ChromaOf(bg, s[2], s[3])
<1>1. was = c
  BY DEF YccColour
<1>2. \A i \in 1..3 : was[i] \in Int /\ d[i] \in ChromaRange /\ Near(was[i], Milli(s[1] + d[i]), Shown)
  BY RgbStands
<1>3. r = [i \in 1..3 |-> range_limit(s[1] + d[i])]
  BY DEF ycc_rgb_convert
<1> HIDE DEF r, c, was, d
<1>4. ASSUME NEW i \in 1..3 PROVE r[i] \in Sample /\ Near(InGamut(c[i]), Milli(r[i]), Shown)
  <2>1. /\ range_limit(s[1] + d[i]) \in Sample
        /\ Near(InGamut(was[i]), Milli(range_limit(s[1] + d[i])), Shown)
    BY <1>2, ChromaAdded, Zenon
  <2> QED BY <1>1, <1>3, <2>1, Zenon
<1> QED BY <1>4 DEF r, c

(* The same for inverted RGB.                                               *)
LEMMA DecompressedCmyk ==
  ASSUME NEW s \in [1..4 -> Sample]
  PROVE  LET r == ycck_cmyk_convert(s)
             c == YccColour(s, 1)
         IN /\ Len(r) = 4 /\ r[4] = s[4]
            /\ \A i \in 1..3 : r[i] \in Sample /\ Near(InGamut(c[i]), InGamut(Complement(r[i])), Shown)
<1> DEFINE r == ycck_cmyk_convert(s)
           c == YccColour(s, 1)
           was == YccColour(<<s[1], s[2], s[3]>>, 1)
           d == ChromaOf(FALSE, s[2], s[3])
           f == [i \in 1..3 |-> range_limit(MAXJSAMPLE - (s[1] + d[i]))]
<1>0. s[1] \in Sample /\ s[2] \in Sample /\ s[3] \in Sample /\ s[4] \in Sample
  OBVIOUS
<1>1. was = c
  BY DEF YccColour
<1>2. \A i \in 1..3 : was[i] \in Int /\ d[i] \in ChromaRange /\ Near(was[i], Milli(s[1] + d[i]), Shown)
  <2>1. FALSE \in BOOLEAN /\ 1 = IF FALSE THEN 2 ELSE 1
    OBVIOUS
  <2> QED BY <1>0, <2>1, RgbStands, Zenon
<1>3. r = f \o <<s[4]>>
  BY DEF ycck_cmyk_convert
<1> HIDE DEF r, c, was, d
<1>4. ASSUME NEW i \in 1..3
      PROVE  f[i] \in Sample /\ Near(InGamut(was[i]), InGamut(Complement(f[i])), Shown)
  BY <1>0, <1>2, ChromaAdded, Zenon
<1>5. f \in [1..3 -> Sample]
  BY <1>4
<1> HIDE DEF f
<1>6. Len(r) = 4 /\ r[1] = f[1] /\ r[2] = f[2] /\ r[3] = f[3] /\ r[4] = s[4]
  BY <1>0, <1>3, <1>5, FourSamples
<1>7. \A i \in 1..3 : r[i] = f[i]
  BY <1>6
<1>8. \A i \in 1..3 : r[i] \in Sample /\ Near(InGamut(c[i]), InGamut(Complement(r[i])), Shown)
  BY <1>1, <1>4, <1>7, Zenon
<1> QED BY <1>6, <1>8 DEF r, c

(* What samples stand for, space by space.                                  *)
LEMMA Colours ==
  ASSUME NEW p
  PROVE  /\ ColourOf("GRAYSCALE", p) = [i \in 1..3 |-> 1000 * p[1]]
         /\ \A i \in 1..3 : ColourOf("RGB", p)[i] = Milli(p[i]) /\ ColourOf("BG_RGB", p)[i] = Milli(p[i])
         /\ ColourOf("YCbCr", p) = YccColour(p, 1)
         /\ ColourOf("BG_YCC", p) = YccColour(p, 2)
         /\ \A i \in 1..3 : ColourOf("CMYK", p)[i] = Complement(p[i])
         /\ ColourOf("YCCK", p) = YccColour(p, 1)
<1>1. ColourOf("GRAYSCALE", p) = [i \in 1..3 |-> 1000 * p[1]]
  BY DEF ColourOf
<1>2. ColourOf("RGB", p) = [i \in 1..3 |-> 1000 * p[i]] /\ ColourOf("BG_RGB", p) = [i \in 1..3 |-> 1000 * p[i]]
  BY DEF ColourOf
<1>3. ColourOf("YCbCr", p) = YccColour(p, 1)
  BY DEF ColourOf
<1>4. ColourOf("BG_YCC", p) = YccColour(p, 2)
  BY DEF ColourOf
<1>5. ColourOf("CMYK", p) = Inverted([i \in 1..3 |-> 1000 * p[i]])
  BY DEF ColourOf
<1>6. ColourOf("YCCK", p) = YccColour(p, 1)
  BY DEF ColourOf
<1>7. \A i \in 1..3 : ColourOf("CMYK", p)[i] = Complement(p[i])
  BY <1>5 DEF Inverted, Complement
<1>8. \A i \in 1..3 : ColourOf("RGB", p)[i] = Milli(p[i]) /\ ColourOf("BG_RGB", p)[i] = Milli(p[i])
  BY <1>2 DEF Milli
<1> QED BY <1>1, <1>3, <1>4, <1>6, <1>7, <1>8

(* Wherever gray is made of the first sample, that sample is the luminance. *)
LEMMA FirstIsLuminance ==
  ASSUME NEW in \in {"GRAYSCALE", "YCbCr", "BG_YCC", "RGB"}, NEW p \in [1..ComponentsOf(in) -> Sample],
         NEW name \in {"grayscale", "rgb_gray", "rgb_ycc", "null"},
         in = "RGB" <=> name \in {"rgb_gray", "rgb_ycc"},
         NEW halved \in BOOLEAN
  PROVE  LET s == HalfChroma(halved, compress_convert(name, p))
         IN s[1] \in Sample /\ Near(InGamut(LuminanceOf(ColourOf(in, p))), Milli(s[1]), GrayLoss)
<1> DEFINE t == compress_convert(name, p)
           s == HalfChroma(halved, t)
<1>1. p[1] \in Sample /\ (in # "GRAYSCALE" => p[2] \in Sample /\ p[3] \in Sample)
  BY DEF ComponentsOf
<1>2. CASE in = "RGB"
  <2> DEFINE y == Weighted("Y", p[1], p[2], p[3])
  <2>1. t[1] = y /\ 1 \in DOMAIN t
    <3>1. CASE name = "rgb_gray"
      <4>1. t = <<y>>
        BY <3>1 DEF compress_convert, rgb_gray_convert
      <4> QED BY <4>1
    <3>2. CASE name = "rgb_ycc"
      <4>1. t = <<y, Weighted("Cb", p[1], p[2], p[3]), Weighted("Cr", p[1], p[2], p[3])>>
        BY <3>2 DEF compress_convert, rgb_ycc_convert
      <4> QED BY <4>1
    <3> QED BY <1>2, <3>1, <3>2
  <2>2. ColourOf(in, p)[1] = 1000 * p[1] /\ ColourOf(in, p)[2] = 1000 * p[2] /\ ColourOf(in, p)[3] = 1000 * p[3]
    <3>1. \A i \in 1..3 : ColourOf(in, p)[i] = Milli(p[i])
      BY <1>2, Colours, Zenon
    <3> QED BY <3>1 DEF Milli
  <2>3. y \in Sample /\ Near(InGamut(LuminanceOf(ColourOf(in, p))), Milli(y), GrayLoss)
    BY <1>1, <1>2, <2>2, RgbLuminance
  <2> HIDE DEF t, y
  <2>4. s[1] = y
    BY <2>1 DEF HalfChroma
  <2> QED BY <2>3, <2>4 DEF t
<1>3. CASE in # "RGB"
  <2>1. t[1] = p[1] /\ 1 \in DOMAIN t
    BY <1>3 DEF compress_convert, grayscale_convert, null_convert, ComponentsOf
  <2>2. Near(InGamut(LuminanceOf(ColourOf(in, p))), Milli(p[1]), GrayLoss)
    <3>1. CASE in = "GRAYSCALE"
      BY <1>1, <3>1, Colours, GrayLuminance
    <3>2. CASE in = "YCbCr"
      <4>1. ColourOf(in, p) = YccColour(p, 1) /\ 1 \in 1..2
        BY <3>2, Colours
      <4> QED BY <1>1, <3>2, <4>1, YccLuminance, Zenon
    <3>3. CASE in = "BG_YCC"
      <4>1. ColourOf(in, p) = YccColour(p, 2) /\ 2 \in 1..2
        BY <3>3, Colours
      <4> QED BY <1>1, <3>3, <4>1, YccLuminance, Zenon
    <3> QED BY <1>3, <3>1, <3>2, <3>3
  <2> HIDE DEF t
  <2>3. s[1] = p[1]
    BY <2>1 DEF HalfChroma
  <2> QED BY <1>1, <2>2, <2>3 DEF t
<1> QED BY <1>2, <1>3

(* Sums of the tolerances.                                                  *)
Loss(halved) == IF halved THEN Made + HalfStep ELSE Made
Allowed(halved) == IF halved THEN 4200 ELSE 2200

LEMMA NearSelf ==
  ASSUME NEW a \in Int
  PROVE  Near(a, a, Made)
  BY DEF Near, Made

LEMMA NearHalved ==
  ASSUME NEW a \in Int, NEW b \in Int, NEW c \in Int, Near(a, b, Made), Near(b, c, HalfStep)
  PROVE  Near(a, c, Made + HalfStep)
  BY DEF Near, Made, HalfStep

LEMMA NearInGamut ==
  ASSUME NEW h \in BOOLEAN, NEW a \in Int, NEW b \in Int, Near(a, b, Loss(h))
  PROVE  Near(InGamut(a), InGamut(b), Allowed(h))
  BY DEF Near, InGamut, Made, HalfStep, Loss, Allowed

LEMMA NearShown ==
  ASSUME NEW h \in BOOLEAN, NEW a \in Int, NEW b \in Int, NEW c \in Int, Near(a, b, Loss(h)),
         Near(InGamut(b), c, Shown)
  PROVE  Near(InGamut(a), c, Allowed(h))
  BY DEF Near, InGamut, Made, HalfStep, Shown, Loss, Allowed

LEMMA YccInt ==
  ASSUME NEW s, NEW scale \in 1..2, s[1] \in Sample, s[2] \in Sample, s[3] \in Sample
  PROVE  \A i \in 1..3 : YccColour(s, scale)[i] \in Int
  BY YccIs

(* YCC samples of a file stand for the colour that was compressed.          *)
LEMMA YccCarried ==
  ASSUME NEW jpeg \in {"YCbCr", "BG_YCC"}, NEW in \in {"RGB", "YCbCr", jpeg},
         NEW p \in [1..3 -> Sample], NEW name, name = IF in = "RGB" THEN "rgb_ycc" ELSE "null",
         NEW halved \in BOOLEAN, halved <=> jpeg = "BG_YCC" /\ in \in {"RGB", "YCbCr"}
  PROVE  LET s == HalfChroma(halved, compress_convert(name, p))
             scale == IF jpeg = "BG_YCC" THEN 2 ELSE 1
         IN /\ s \in [1..3 -> Sample]
            /\ \A i \in 1..3 : /\ ColourOf(in, p)[i] \in Int /\ YccColour(s, scale)[i] \in Int
                               /\ Near(ColourOf(in, p)[i], YccColour(s, scale)[i], Loss(halved))
<1> DEFINE t == compress_convert(name, p)
           s == HalfChroma(halved, t)
           scale == IF jpeg = "BG_YCC" THEN 2 ELSE 1
           was == ColourOf(in, p)
           near == IF in = "BG_YCC" THEN 2 ELSE 1   \* the scale of the samples before they are halved
<1>1. p[1] \in Sample /\ p[2] \in Sample /\ p[3] \in Sample
  OBVIOUS
<1>2. t \in [1..3 -> Sample] /\ \A i \in 1..3 : was[i] \in Int /\ Near(was[i], YccColour(t, near)[i], Made)
  <2>1. CASE in = "RGB"
    <3>1. t = rgb_ycc_convert(p) /\ near = 1
      BY <2>1 DEF compress_convert
    <3>2. \A i \in 1..3 : was[i] = Milli(p[i])
      BY <2>1, Colours, Zenon
    <3>3. \A i \in 1..3 : Milli(p[i]) \in Int
      BY DEF Milli, Sample, MAXJSAMPLE
    <3> QED BY <1>1, <3>1, <3>2, <3>3, CompressedYcc
  <2>2. CASE in # "RGB"
    <3>1. t = p
      BY <2>2 DEF compress_convert, null_convert
    <3>2. was = YccColour(p, near) /\ near \in 1..2
      BY <2>2, Colours
    <3> HIDE DEF t, was, near
    <3>3. \A i \in 1..3 : was[i] \in Int
      BY <1>1, <3>2, YccInt, Zenon
    <3>4. \A i \in 1..3 : Near(was[i], was[i], Made)
      BY <3>3, NearSelf, Zenon
    <3> QED BY <3>1, <3>2, <3>3, <3>4
  <2> QED BY <2>1, <2>2
<1>3. t[1] \in Sample /\ t[2] \in Sample /\ t[3] \in Sample
  BY <1>2
<1> HIDE DEF t, was
<1>4. CASE halved
  <2>1. near = 1 /\ scale = 2 /\ 1 \in 1..2 /\ 2 \in 1..2
    BY <1>4
  <2>2. s = HalfChroma(TRUE, t)
    BY <1>4
  <2>3. s \in [1..3 -> Sample] /\ \A i \in 1..3 : Near(YccColour(t, 1)[i], YccColour(s, 2)[i], HalfStep)
    BY <1>2, <2>2, HalvedColour, Zenon
  <2>4. s[1] \in Sample /\ s[2] \in Sample /\ s[3] \in Sample
    BY <2>3
  <2> HIDE DEF s, near, scale
  <2>5. \A i \in 1..3 : YccColour(t, 1)[i] \in Int /\ YccColour(s, 2)[i] \in Int
    BY <1>3, <2>1, <2>4, YccInt, Zenon
  <2>6. \A i \in 1..3 : Near(was[i], YccColour(s, 2)[i], Made + HalfStep)
    BY <1>2, <2>1, <2>3, <2>5, NearHalved, Zenon
  <2> QED BY <1>2, <1>4, <2>1, <2>3, <2>5, <2>6, Zenon DEF Loss, s, t, was, scale
<1>5. CASE ~halved
  <2>1. near = scale /\ scale \in 1..2
    BY <1>5
  <2>2. s = t
    <3>1. s = HalfChroma(FALSE, t) /\ 3 \in Nat
      BY <1>5
    <3> QED BY <1>2, <3>1, NotHalved, Zenon
  <2> HIDE DEF s, near, scale
  <2>3. \A i \in 1..3 : YccColour(t, scale)[i] \in Int
    BY <1>3, <2>1, YccInt, Zenon
  <2> QED BY <1>2, <1>5, <2>1, <2>2, <2>3, Zenon DEF Loss, s, t, was, scale
<1> QED BY <1>4, <1>5

(* A pixel p keeps its colour when it comes out as r.                       *)
IsGray(jpeg, out, from) == jpeg = "GRAYSCALE" \/ out = "GRAYSCALE" \/ from = "cmyk_yk"
GrayKept(in, out, p, r) ==
  /\ Near(InGamut(LuminanceOf(ColourOf(in, p))), Milli(r[1]), GrayLoss)
  /\ out \in {"RGB", "BG_RGB"} => r[2] = r[1] /\ r[3] = r[1]
ColoursKept(in, out, halved, p, r) ==
  \A i \in 1..3 : Near(InGamut(ColourOf(in, p)[i]), InGamut(ColourOf(out, r)[i]), Allowed(halved))
BlackKept(in, out, p, r) == ComponentsOf(in) = 4 /\ ComponentsOf(out) = 4 => r[Len(r)] = p[4]

LEMMA Components ==
  /\ ComponentsOf("GRAYSCALE") = 1 /\ ComponentsOf("RGB") = 3 /\ ComponentsOf("BG_RGB") = 3
  /\ ComponentsOf("YCbCr") = 3 /\ ComponentsOf("BG_YCC") = 3
  /\ ComponentsOf("CMYK") = 4 /\ ComponentsOf("YCCK") = 4
  BY DEF ComponentsOf

LEMMA LimitedInside ==
  ASSUME NEW a \in Sample
  PROVE  InGamut(Milli(a)) = Milli(a) /\ Milli(a) \in Int
  BY DEF InGamut, Milli, Sample, MAXJSAMPLE

(* The colour transform that subtracts green is undone.                     *)
LEMMA Wrapped ==
  ASSUME NEW x \in Sample, NEW g \in Sample
  PROVE  LET m == Masked(x - g + CENTERJSAMPLE)
         IN m \in Sample /\ Masked(m + g - CENTERJSAMPLE) = x
<1> DEFINE v == x - g + 128
           m == v % 256
           w == m + g - 128
<1>0. x \in 0..255 /\ g \in 0..255
  BY DEF Sample, MAXJSAMPLE
<1>1. v \in Int /\ -127 <= v /\ v <= 383
  BY <1>0
<1> HIDE DEF v
<1>2. m \in Int /\ 0 <= m /\ m <= 255 /\ (m = v \/ m = v + 256 \/ m = v - 256)
  BY <1>1
<1> HIDE DEF m
<1>3. w \in Int /\ (w = x \/ w = x + 256 \/ w = x - 256)
  BY <1>0, <1>1, <1>2 DEF v
<1> HIDE DEF w
<1>4. w % 256 = x
  BY <1>0, <1>3
<1>5. Masked(x - g + CENTERJSAMPLE) = m
  BY DEF Masked, MAXJSAMPLE, CENTERJSAMPLE, m, v
<1>6. Masked(m + g - CENTERJSAMPLE) = x
  BY <1>4 DEF Masked, MAXJSAMPLE, CENTERJSAMPLE, w
<1>7. m \in Sample
  BY <1>2 DEF Sample, MAXJSAMPLE
<1> QED BY <1>5, <1>6, <1>7

LEMMA GreenAdded ==
  ASSUME NEW p \in [1..3 -> Sample]
  PROVE  LET s == rgb_rgb1_convert(p)
         IN /\ s \in [1..3 -> Sample] /\ s[2] = p[2]
            /\ Masked(s[1] + s[2] - CENTERJSAMPLE) = p[1]
            /\ Masked(s[3] + s[2] - CENTERJSAMPLE) = p[3]
<1> DEFINE a == Masked(p[1] - p[2] + CENTERJSAMPLE)
           b == Masked(p[3] - p[2] + CENTERJSAMPLE)
           s == rgb_rgb1_convert(p)
<1>1. p[1] \in Sample /\ p[2] \in Sample /\ p[3] \in Sample
  OBVIOUS
<1>2. a \in Sample /\ Masked(a + p[2] - CENTERJSAMPLE) = p[1]
  BY <1>1, Wrapped, Zenon
<1>3. b \in Sample /\ Masked(b + p[2] - CENTERJSAMPLE) = p[3]
  BY <1>1, Wrapped, Zenon
<1>4. s = <<a, p[2], b>>
  BY DEF rgb_rgb1_convert
<1> HIDE DEF a, b, s
<1>5. s[1] = a /\ s[2] = p[2] /\ s[3] = b
  BY <1>4
<1>6. s \in [1..3 -> Sample]
  BY <1>1, <1>2, <1>3, <1>4
<1> QED BY <1>2, <1>3, <1>5, <1>6 DEF s

(* Gray, of the first sample.                                               *)
LEMMA FirstKept ==
  ASSUME NEW in \in {"GRAYSCALE", "YCbCr", "BG_YCC", "RGB"}, NEW p \in [1..ComponentsOf(in) -> Sample],
         NEW name \in {"grayscale", "rgb_gray", "rgb_ycc", "null"},
         in = "RGB" <=> name \in {"rgb_gray", "rgb_ycc"}, NEW halved \in BOOLEAN,
         NEW out \in {"GRAYSCALE", "RGB"},
         NEW from, from = IF out = "RGB" THEN "gray_rgb" ELSE "grayscale"
  PROVE  GrayKept(in, out, p, decompress_convert(from, HalfChroma(halved, compress_convert(name, p))))
<1> DEFINE s == HalfChroma(halved, compress_convert(name, p))
           r == decompress_convert(from, s)
<1>1. s[1] \in Sample /\ Near(InGamut(LuminanceOf(ColourOf(in, p))), Milli(s[1]), GrayLoss)
  BY FirstIsLuminance
<1> HIDE DEF s
<1>2. CASE out = "RGB"
  <2>1. r = <<s[1], s[1], s[1]>>
    BY <1>2 DEF decompress_convert, gray_rgb_convert
  <2> HIDE DEF r
  <2>2. r[1] = s[1] /\ r[2] = s[1] /\ r[3] = s[1]
    BY <2>1
  <2> QED BY <1>1, <2>2 DEF GrayKept, r, s
<1>3. CASE out = "GRAYSCALE"
  <2>1. r = <<s[1]>>
    BY <1>3 DEF decompress_convert, d_grayscale_convert
  <2> HIDE DEF r
  <2>2. r[1] = s[1]
    BY <2>1
  <2> QED BY <1>1, <1>3, <2>2 DEF GrayKept, r, s
<1> QED BY <1>2, <1>3

(* Gray, of red, green and blue.                                            *)
LEMMA RgbGrayKept ==
  ASSUME NEW p \in [1..3 -> Sample], NEW sub \in BOOLEAN,
         NEW name, name = IF sub THEN "rgb_rgb1" ELSE "rgb",
         NEW from, from = IF sub THEN "rgb1_gray" ELSE "rgb_gray"
  PROVE  GrayKept("RGB", "GRAYSCALE", p, decompress_convert(from, HalfChroma(FALSE, compress_convert(name, p))))
<1> DEFINE t == compress_convert(name, p)
           s == HalfChroma(FALSE, t)
           r == decompress_convert(from, s)
           y == Luminance(p[1], p[2], p[3])
           was == ColourOf("RGB", p)
<1>1. p[1] \in Sample /\ p[2] \in Sample /\ p[3] \in Sample
  OBVIOUS
<1>2. r = <<y>>
  <2>1. CASE sub
    <3>1. t = rgb_rgb1_convert(p) /\ 3 \in Nat
      BY <2>1 DEF compress_convert
    <3>2. s = rgb_rgb1_convert(p)
      BY <3>1, GreenAdded, NotHalved, Zenon
    <3> HIDE DEF s
    <3>3. r = rgb1_gray_convert(s)
      BY <2>1 DEF decompress_convert
    <3> QED BY <3>2, <3>3, GreenAdded, Zenon DEF rgb1_gray_convert
  <2>2. CASE ~sub
    <3>1. t = p /\ 3 \in Nat
      BY <2>2 DEF compress_convert, rgb_convert
    <3>2. s = p
      BY <3>1, NotHalved, Zenon
    <3> HIDE DEF s
    <3> QED BY <2>2, <3>2 DEF decompress_convert, d_rgb_gray_convert
  <2> QED BY <2>1, <2>2
<1>3. \A i \in 1..3 : was[i] = Milli(p[i])
  BY Colours, Zenon
<1>4. was[1] = 1000 * p[1] /\ was[2] = 1000 * p[2] /\ was[3] = 1000 * p[3]
  BY <1>3 DEF Milli
<1> HIDE DEF r, y, was
<1>5. r[1] = y
  BY <1>2
<1>6. Near(InGamut(LuminanceOf(was)), Milli(y), GrayLoss)
  BY <1>1, <1>4, RgbLuminance DEF y
<1> QED BY <1>5, <1>6 DEF GrayKept, r, was

(* Black and white, of CMYK.                                                *)
LEMMA CmykGrayKept ==
  ASSUME NEW p \in [1..4 -> Sample]
  PROVE  LET r == decompress_convert("cmyk_yk", HalfChroma(FALSE, compress_convert("null", p)))
         IN GrayKept("CMYK", "YCCK", p, r) /\ BlackKept("CMYK", "YCCK", p, r)
<1> DEFINE s == HalfChroma(FALSE, compress_convert("null", p))
           r == decompress_convert("cmyk_yk", s)
           n == [i \in 1..3 |-> MAXJSAMPLE - p[i]]
           y == Luminance(n[1], n[2], n[3])
           was == ColourOf("CMYK", p)
<1>1. n[1] \in Sample /\ n[2] \in Sample /\ n[3] \in Sample
  <2>1. p[1] \in 0..255 /\ p[2] \in 0..255 /\ p[3] \in 0..255
    BY DEF Sample, MAXJSAMPLE
  <2>2. n[1] = 255 - p[1] /\ n[2] = 255 - p[2] /\ n[3] = 255 - p[3]
    BY DEF MAXJSAMPLE
  <2> HIDE DEF n
  <2> QED BY <2>1, <2>2 DEF Sample, MAXJSAMPLE
<1>2. s = p
  <2>1. compress_convert("null", p) = p /\ 4 \in Nat
    BY DEF compress_convert, null_convert
  <2> QED BY <2>1, NotHalved, Zenon
<1>3. r = <<y, p[4]>>
  <2>1. n[1] = MAXJSAMPLE - p[1] /\ n[2] = MAXJSAMPLE - p[2] /\ n[3] = MAXJSAMPLE - p[3]
    OBVIOUS
  <2> HIDE DEF s, n
  <2>2. r = cmyk_yk_convert(p)
    BY <1>2 DEF decompress_convert
  <2>3. cmyk_yk_convert(p) = <<Luminance(MAXJSAMPLE - p[1], MAXJSAMPLE - p[2], MAXJSAMPLE - p[3]), p[4]>>
    BY DEF cmyk_yk_convert
  <2> QED BY <2>1, <2>2, <2>3, Zenon
<1>4. \A i \in 1..3 : was[i] = Complement(p[i])
  BY Colours, Zenon
<1>5. was[1] = 1000 * n[1] /\ was[2] = 1000 * n[2] /\ was[3] = 1000 * n[3]
  <2>1. was[1] = Complement(p[1]) /\ was[2] = Complement(p[2]) /\ was[3] = Complement(p[3])
    BY <1>4
  <2>2. p[1] \in 0..255 /\ p[2] \in 0..255 /\ p[3] \in 0..255
    BY DEF Sample, MAXJSAMPLE
  <2> HIDE DEF was
  <2> QED BY <2>1, <2>2 DEF Complement, MAXJSAMPLE
<1> HIDE DEF r, y, was
<1>6. r[1] = y /\ Len(r) = 2 /\ r[2] = p[4]
  BY <1>3
<1>7. Near(InGamut(LuminanceOf(was)), Milli(y), GrayLoss)
  BY <1>1, <1>5, RgbLuminance DEF y
<1> QED BY <1>6, <1>7 DEF GrayKept, BlackKept, r, was

(* Red, green and blue, of YCC samples, or those samples themselves.        *)
LEMMA YccKept ==
  ASSUME NEW jpeg \in {"YCbCr", "BG_YCC"}, NEW in \in {"RGB", "YCbCr", jpeg},
         NEW p \in [1..3 -> Sample], NEW name, name = IF in = "RGB" THEN "rgb_ycc" ELSE "null",
         NEW halved \in BOOLEAN, halved <=> jpeg = "BG_YCC" /\ in \in {"RGB", "YCbCr"},
         NEW out \in {"RGB", jpeg},
         NEW from, from = IF out # "RGB" THEN "null" ELSE IF jpeg = "BG_YCC" THEN "bg_ycc_rgb" ELSE "ycc_rgb"
  PROVE  ColoursKept(in, out, halved, p, decompress_convert(from, HalfChroma(halved, compress_convert(name, p))))
<1> DEFINE s == HalfChroma(halved, compress_convert(name, p))
           r == decompress_convert(from, s)
           bg == jpeg = "BG_YCC"
           scale == IF bg THEN 2 ELSE 1
           was == ColourOf(in, p)
           c == YccColour(s, scale)
           is == ColourOf(out, r)
<1>1. /\ s \in [1..3 -> Sample]
      /\ \A i \in 1..3 : was[i] \in Int /\ c[i] \in Int /\ Near(was[i], c[i], Loss(halved))
  BY YccCarried, ZenonT(60)
<1>2. s[1] \in Sample /\ s[2] \in Sample /\ s[3] \in Sample
  BY <1>1
<1> HIDE DEF s, was
<1>3. CASE out = "RGB"
  <2>1. r = ycc_rgb_convert(bg, s) /\ bg \in BOOLEAN
    BY <1>3 DEF decompress_convert
  <2>2. scale = IF bg THEN 2 ELSE 1
    OBVIOUS
  <2> HIDE DEF r, bg, scale
  <2>3. \A i \in 1..3 : is[i] = Milli(r[i])
    BY <1>3, Colours, Zenon
  <2> HIDE DEF is
  <2>4. \A i \in 1..3 : r[i] \in Sample /\ Near(InGamut(c[i]), Milli(r[i]), Shown)
    BY <1>2, <2>1, <2>2, DecompressedRgb, Zenon
  <2> HIDE DEF c
  <2>5. \A i \in 1..3 : Milli(r[i]) \in Int /\ InGamut(Milli(r[i])) = Milli(r[i])
    BY <2>4, LimitedInside, Zenon
  <2>6. \A i \in 1..3 : Near(InGamut(was[i]), Milli(r[i]), Allowed(halved))
    BY <1>1, <2>4, <2>5, NearShown, Zenon
  <2>7. \A i \in 1..3 : Near(InGamut(was[i]), InGamut(is[i]), Allowed(halved))
    BY <2>3, <2>5, <2>6, Zenon
  <2> QED BY <2>7 DEF ColoursKept, was, is, r, s
<1>4. CASE out # "RGB"
  <2>1. r = s /\ out = jpeg
    BY <1>4 DEF decompress_convert, d_null_convert
  <2>2. is = c
    BY <2>1, Colours
  <2> HIDE DEF r, is, c
  <2>3. \A i \in 1..3 : Near(InGamut(was[i]), InGamut(is[i]), Allowed(halved))
    BY <1>1, <2>2, NearInGamut, Zenon
  <2> QED BY <2>3 DEF ColoursKept, was, is, r, s
<1> QED BY <1>3, <1>4

(* Samples that come out as they are have their colour.                     *)
LEMMA NearSame ==
  ASSUME NEW h \in BOOLEAN, NEW a \in Int
  PROVE  Near(InGamut(a), InGamut(a), Allowed(h))
  BY DEF Near, InGamut, Allowed

(* Red, green and blue, with green subtracted or not.                       *)
LEMMA RgbKept ==
  ASSUME NEW space \in {"RGB", "BG_RGB"}, NEW p \in [1..3 -> Sample], NEW sub \in BOOLEAN,
         NEW name, name = IF sub THEN "rgb_rgb1" ELSE "rgb",
         NEW from, from = IF sub THEN "rgb1_rgb" ELSE "rgb"
  PROVE  ColoursKept(space, space, FALSE, p, decompress_convert(from, HalfChroma(FALSE, compress_convert(name, p))))
<1> DEFINE t == compress_convert(name, p)
           s == HalfChroma(FALSE, t)
           r == decompress_convert(from, s)
           was == ColourOf(space, p)
           is == ColourOf(space, r)
<1>1. \A i \in 1..3 : was[i] = Milli(p[i]) /\ is[i] = Milli(r[i])
  <2> HIDE DEF r, s, t
  <2>1. CASE space = "RGB"
    BY <2>1, Colours, ZenonT(60)
  <2>2. CASE space = "BG_RGB"
    BY <2>2, Colours, ZenonT(60)
  <2> QED BY <2>1, <2>2
<1>2. r[1] = p[1] /\ r[2] = p[2] /\ r[3] = p[3]
  <2>1. CASE sub
    <3>1. t = rgb_rgb1_convert(p) /\ 3 \in Nat
      BY <2>1 DEF compress_convert
    <3>2. s = rgb_rgb1_convert(p)
      BY <3>1, GreenAdded, NotHalved, Zenon
    <3> HIDE DEF s
    <3>3. r = <<Masked(s[1] + s[2] - CENTERJSAMPLE), s[2], Masked(s[3] + s[2] - CENTERJSAMPLE)>>
      BY <2>1 DEF decompress_convert, rgb1_rgb_convert
    <3>4. r = <<p[1], p[2], p[3]>>
      BY <3>2, <3>3, GreenAdded, Zenon
    <3> QED BY <3>4
  <2>2. CASE ~sub
    <3>1. t = p /\ 3 \in Nat
      BY <2>2 DEF compress_convert, rgb_convert
    <3>2. s = p
      BY <3>1, NotHalved, Zenon
    <3> HIDE DEF s
    <3> QED BY <2>2, <3>2 DEF decompress_convert, d_rgb_convert
  <2> QED BY <2>1, <2>2
<1> HIDE DEF r, was, is
<1>3. \A i \in 1..3 : is[i] = was[i]
  BY <1>1, <1>2
<1>4. \A i \in 1..3 : was[i] \in Int
  BY <1>1, LimitedInside, Zenon
<1>5. FALSE \in BOOLEAN
  OBVIOUS
<1>6. \A i \in 1..3 : Near(InGamut(was[i]), InGamut(is[i]), Allowed(FALSE))
  BY <1>3, <1>4, <1>5, NearSame, Zenon
<1> QED BY <1>6 DEF ColoursKept, was, is, r

(* A pixel of four samples, as a sequence.                                  *)
LEMMA LenFour ==
  ASSUME NEW p \in [1..4 -> Sample]
  PROVE  Len(p) = 4
<1>1. p \in Seq(Sample)
  BY SeqDef
<1> QED BY <1>1, LenProperties

(* YCCK samples of a file stand for the colour that was compressed, and     *)
(* hold its black.                                                          *)
LEMMA YcckCarried ==
  ASSUME NEW in \in {"CMYK", "YCCK"}, NEW p \in [1..4 -> Sample],
         NEW name, name = IF in = "CMYK" THEN "cmyk_ycck" ELSE "null"
  PROVE  LET s == HalfChroma(FALSE, compress_convert(name, p))
         IN /\ s \in [1..4 -> Sample] /\ s[4] = p[4]
            /\ \A i \in 1..3 : /\ ColourOf(in, p)[i] \in Int /\ YccColour(s, 1)[i] \in Int
                               /\ Near(ColourOf(in, p)[i], YccColour(s, 1)[i], Made)
<1> DEFINE t == compress_convert(name, p)
           s == HalfChroma(FALSE, t)
           was == ColourOf(in, p)
           c == YccColour(t, 1)
<1>1. /\ t \in [1..4 -> Sample] /\ t[4] = p[4]
      /\ \A i \in 1..3 : was[i] \in Int /\ c[i] \in Int /\ Near(was[i], c[i], Made)
  <2>1. CASE in = "CMYK"
    <3> DEFINE q == <<MAXJSAMPLE - p[1], MAXJSAMPLE - p[2], MAXJSAMPLE - p[3]>>
               f == rgb_ycc_convert(q)
    <3>1. t = f \o <<p[4]>>
      BY <2>1 DEF compress_convert, cmyk_ycck_convert
    <3>2. \A i \in 1..3 : was[i] = Complement(p[i])
      BY <2>1, Colours, Zenon
    <3>3. /\ q[1] \in Sample /\ q[2] \in Sample /\ q[3] \in Sample
          /\ \A i \in 1..3 : Complement(p[i]) = Milli(q[i]) /\ Milli(q[i]) \in Int
      <4>1. p[1] \in 0..255 /\ p[2] \in 0..255 /\ p[3] \in 0..255
        BY DEF Sample, MAXJSAMPLE
      <4>2. q[1] = 255 - p[1] /\ q[2] = 255 - p[2] /\ q[3] = 255 - p[3]
        BY DEF MAXJSAMPLE
      <4> HIDE DEF q
      <4>3. q[1] \in Sample /\ q[2] \in Sample /\ q[3] \in Sample
        BY <4>1, <4>2 DEF Sample, MAXJSAMPLE
      <4>4. Complement(p[1]) = Milli(q[1]) /\ Complement(p[2]) = Milli(q[2]) /\ Complement(p[3]) = Milli(q[3])
        BY <4>1, <4>2 DEF Complement, Milli
      <4>5. Milli(q[1]) \in Int /\ Milli(q[2]) \in Int /\ Milli(q[3]) \in Int
        BY <4>3, LimitedInside, Zenon
      <4> QED BY <4>3, <4>4, <4>5
    <3> HIDE DEF q, t, was
    <3>4. f \in [1..3 -> Sample] /\ \A i \in 1..3 : Near(Milli(q[i]), YccColour(f, 1)[i], Made)
      BY <3>3, CompressedYcc, Zenon
    <3> HIDE DEF f
    <3>5. p[4] \in Sample /\ f[1] \in Sample /\ f[2] \in Sample /\ f[3] \in Sample
      BY <3>4
    <3>6. t \in [1..4 -> Sample] /\ t[1] = f[1] /\ t[2] = f[2] /\ t[3] = f[3] /\ t[4] = p[4]
      BY <3>1, <3>4, <3>5, FourSamples, Zenon
    <3>7. c = YccColour(f, 1)
      BY <3>6 DEF YccColour
    <3> HIDE DEF c
    <3>8. 1 \in 1..2
      OBVIOUS
    <3>9. \A i \in 1..3 : c[i] \in Int
      BY <3>5, <3>7, <3>8, YccInt, Zenon
    <3> QED BY <3>2, <3>3, <3>4, <3>6, <3>7, <3>9
  <2>2. CASE in = "YCCK"
    <3>1. t = p
      BY <2>2 DEF compress_convert, null_convert
    <3>2. was = YccColour(p, 1)
      BY <2>2, Colours
    <3>3. 1 \in 1..2 /\ p[1] \in Sample /\ p[2] \in Sample /\ p[3] \in Sample
      OBVIOUS
    <3>4. c = was
      BY <3>1, <3>2
    <3> HIDE DEF t, was, c
    <3>5. \A i \in 1..3 : was[i] \in Int
      BY <3>2, <3>3, YccInt, Zenon
    <3>6. \A i \in 1..3 : Near(was[i], was[i], Made)
      BY <3>5, NearSelf, Zenon
    <3> QED BY <3>1, <3>4, <3>5, <3>6
  <2> QED BY <2>1, <2>2
<1> HIDE DEF t, was
<1>2. s = t
  BY <1>1, NotHalved, 4 \in Nat, Zenon
<1> QED BY <1>1, <1>2, Zenon DEF c, s, t, was

(* Inverted colours and black.                                              *)
LEMMA YcckKept ==
  ASSUME NEW in \in {"CMYK", "YCCK"}, NEW p \in [1..4 -> Sample],
         NEW name, name = IF in = "CMYK" THEN "cmyk_ycck" ELSE "null",
         NEW out \in {"CMYK", "YCCK"}, NEW from, from = IF out = "CMYK" THEN "ycck_cmyk" ELSE "null"
  PROVE  LET r == decompress_convert(from, HalfChroma(FALSE, compress_convert(name, p)))
         IN ColoursKept(in, out, FALSE, p, r) /\ BlackKept(in, out, p, r)
<1> DEFINE s == HalfChroma(FALSE, compress_convert(name, p))
           r == decompress_convert(from, s)
           was == ColourOf(in, p)
           c == YccColour(s, 1)
           is == ColourOf(out, r)
           h == FALSE
<1>1. /\ s \in [1..4 -> Sample] /\ s[4] = p[4]
      /\ \A i \in 1..3 : was[i] \in Int /\ c[i] \in Int /\ Near(was[i], c[i], Made)
  BY YcckCarried
<1>2. h \in BOOLEAN /\ Loss(h) = Made
  BY DEF Loss
<1> HIDE DEF s, was, h
<1>3. CASE out = "CMYK"
  <2>1. r = ycck_cmyk_convert(s)
    BY <1>3 DEF decompress_convert
  <2> HIDE DEF r
  <2>2. \A i \in 1..3 : is[i] = Complement(r[i])
    BY <1>3, Colours, Zenon
  <2> HIDE DEF is
  <2>3. /\ Len(r) = 4 /\ r[4] = s[4]
        /\ \A i \in 1..3 : r[i] \in Sample /\ Near(InGamut(c[i]), InGamut(Complement(r[i])), Shown)
    BY <1>1, <2>1, DecompressedCmyk, Zenon
  <2> HIDE DEF c
  <2>4. \A i \in 1..3 : InGamut(Complement(r[i])) \in Int
    <3>1. ASSUME NEW x \in Sample PROVE InGamut(Complement(x)) \in Int
      BY DEF Complement, InGamut, Sample, MAXJSAMPLE
    <3> QED BY <2>3, <3>1, Zenon
  <2>5. \A i \in 1..3 : Near(InGamut(was[i]), InGamut(Complement(r[i])), Allowed(h))
    BY <1>1, <1>2, <2>3, <2>4, NearShown, Zenon
  <2>6. ColoursKept(in, out, FALSE, p, r)
    BY <2>2, <2>5, Zenon DEF ColoursKept, was, is, h
  <2>7. BlackKept(in, out, p, r)
    BY <1>1, <2>3 DEF BlackKept
  <2> QED BY <2>6, <2>7 DEF r, s
<1>4. CASE out = "YCCK"
  <2>1. r = s
    BY <1>4 DEF decompress_convert, d_null_convert
  <2>2. is = c
    BY <1>4, <2>1, Colours
  <2> HIDE DEF r, is, c
  <2>3. \A i \in 1..3 : Near(InGamut(was[i]), InGamut(is[i]), Allowed(h))
    BY <1>1, <1>2, <2>2, NearInGamut, Zenon
  <2>4. ColoursKept(in, out, FALSE, p, r)
    BY <2>3, Zenon DEF ColoursKept, was, is, h
  <2>5. Len(r) = 4 /\ r[4] = p[4]
    BY <1>1, <2>1, LenFour
  <2> QED BY <2>4, <2>5 DEF BlackKept, r, s
<1> QED BY <1>3, <1>4

(* CMYK that is stored as it is.                                            *)
LEMMA CmykKept ==
  ASSUME NEW p \in [1..4 -> Sample]
  PROVE  LET r == decompress_convert("null", HalfChroma(FALSE, compress_convert("null", p)))
         IN ColoursKept("CMYK", "CMYK", FALSE, p, r) /\ BlackKept("CMYK", "CMYK", p, r)
<1> DEFINE s == HalfChroma(FALSE, compress_convert("null", p))
           r == decompress_convert("null", s)
           was == ColourOf("CMYK", p)
<1>1. r = p
  <2>1. compress_convert("null", p) = p /\ 4 \in Nat
    BY DEF compress_convert, null_convert
  <2>2. s = p
    BY <2>1, NotHalved, Zenon
  <2> QED BY <2>2 DEF decompress_convert, d_null_convert
<1>2. \A i \in 1..3 : was[i] = Complement(p[i])
  BY Colours, Zenon
<1> HIDE DEF r, was
<1>3. \A i \in 1..3 : Complement(p[i]) \in Int
  BY DEF Complement, Sample, MAXJSAMPLE
<1>4. \A i \in 1..3 : was[i] \in Int
  BY <1>2, <1>3
<1>5. FALSE \in BOOLEAN
  OBVIOUS
<1>6. \A i \in 1..3 : Near(InGamut(was[i]), InGamut(was[i]), Allowed(FALSE))
  BY <1>4, <1>5, NearSame, Zenon
<1>7. ColoursKept("CMYK", "CMYK", FALSE, p, r)
  BY <1>1, <1>6 DEF ColoursKept, was
<1>8. Len(r) = 4 /\ r[4] = p[4]
  BY <1>1, LenFour
<1> QED BY <1>7, <1>8 DEF BlackKept, r

(* Any two converters that the selections allow.                            *)
LEMMA PixelKept ==
  ASSUME NEW in \in Spaces, NEW jpeg \in Spaces, NEW out \in Spaces, NEW sub \in BOOLEAN, NEW needed,
         NEW to, to = jinit_color_converter(in, ComponentsOf(in), jpeg, ComponentsOf(jpeg), sub),
         to.name # "error",
         NEW from, from = jinit_color_deconverter(jpeg, ComponentsOf(jpeg), out, sub, needed),
         from # "error",
         NEW p \in [1..ComponentsOf(in) -> Sample]
  PROVE  LET r == decompress_convert(from, HalfChroma(to.halved, compress_convert(to.name, p)))
         IN /\ IF IsGray(jpeg, out, from) THEN GrayKept(in, out, p, r) ELSE ColoursKept(in, out, to.halved, p, r)
            /\ BlackKept(in, out, p, r)
<1> DEFINE name == to.name
           halved == to.halved
           r == decompress_convert(from, HalfChroma(halved, compress_convert(name, p)))
           goal == /\ IF IsGray(jpeg, out, from) THEN GrayKept(in, out, p, r)
                      ELSE ColoursKept(in, out, halved, p, r)
                   /\ BlackKept(in, out, p, r)
<1>1. /\ halved = (jpeg = "BG_YCC" /\ in \in {"RGB", "YCbCr"})
      /\ sub => jpeg \in {"RGB", "BG_RGB"}
      /\ \/ jpeg = "GRAYSCALE" /\ in \in {"GRAYSCALE", "YCbCr", "BG_YCC"} /\ name = "grayscale"
         \/ jpeg = "GRAYSCALE" /\ in = "RGB" /\ name = "rgb_gray"
         \/ jpeg \in {"RGB", "BG_RGB"} /\ in = jpeg /\ sub /\ name = "rgb_rgb1"
         \/ jpeg \in {"RGB", "BG_RGB"} /\ in = jpeg /\ ~sub /\ name = "rgb"
         \/ jpeg \in {"YCbCr", "BG_YCC"} /\ in = "RGB" /\ name = "rgb_ycc"
         \/ jpeg \in {"YCbCr", "BG_YCC"} /\ in \in {"YCbCr", jpeg} /\ name = "null"
         \/ jpeg = "CMYK" /\ in = "CMYK" /\ name = "null"
         \/ jpeg = "YCCK" /\ in = "CMYK" /\ name = "cmyk_ycck"
         \/ jpeg = "YCCK" /\ in = "YCCK" /\ name = "null"
  BY CompressSelected
<1>2. \/ out = "GRAYSCALE" /\ jpeg \in {"GRAYSCALE", "YCbCr", "BG_YCC"} /\ from = "grayscale"
      \/ out = "GRAYSCALE" /\ jpeg = "RGB" /\ sub /\ from = "rgb1_gray"
      \/ out = "GRAYSCALE" /\ jpeg = "RGB" /\ ~sub /\ from = "rgb_gray"
      \/ out = "RGB" /\ jpeg = "GRAYSCALE" /\ from = "gray_rgb"
      \/ out = "RGB" /\ jpeg = "YCbCr" /\ from = "ycc_rgb"
      \/ out = "RGB" /\ jpeg = "BG_YCC" /\ from = "bg_ycc_rgb"
      \/ out \in {"RGB", "BG_RGB"} /\ jpeg = out /\ sub /\ from = "rgb1_rgb"
      \/ out \in {"RGB", "BG_RGB"} /\ jpeg = out /\ ~sub /\ from = "rgb"
      \/ out = "CMYK" /\ jpeg = "YCCK" /\ from = "ycck_cmyk"
      \/ out = "YCCK" /\ jpeg = "CMYK" /\ from = "cmyk_yk"
      \/ out \in {"YCbCr", "BG_YCC", "CMYK", "YCCK"} /\ jpeg = out /\ from = "null"
  BY DecompressSelected
<1>3. halved \in BOOLEAN
  BY <1>1
<1> SUFFICES goal
  OBVIOUS
<1> HIDE DEF name, halved, r
<1>4. CASE jpeg = "GRAYSCALE" \/ (out = "GRAYSCALE" /\ jpeg \in {"YCbCr", "BG_YCC"})
  <2>1. /\ in \in {"GRAYSCALE", "YCbCr", "BG_YCC", "RGB"}
        /\ name \in {"grayscale", "rgb_gray", "rgb_ycc", "null"}
        /\ in = "RGB" <=> name \in {"rgb_gray", "rgb_ycc"}
    BY <1>1, <1>4
  <2>2. out \in {"GRAYSCALE", "RGB"} /\ from = IF out = "RGB" THEN "gray_rgb" ELSE "grayscale"
    BY <1>2, <1>4
  <2>3. GrayKept(in, out, p, r)
    BY <1>3, <2>1, <2>2, FirstKept, Zenon DEF r
  <2>4. IsGray(jpeg, out, from) /\ ComponentsOf(out) # 4
    BY <1>4, <2>2, Components DEF IsGray
  <2> QED BY <2>3, <2>4 DEF BlackKept
<1>5. CASE jpeg = "RGB" /\ out = "GRAYSCALE"
  <2>1. in = "RGB" /\ name = IF sub THEN "rgb_rgb1" ELSE "rgb"
    BY <1>1, <1>5
  <2>2. from = (IF sub THEN "rgb1_gray" ELSE "rgb_gray") /\ halved = FALSE
    BY <1>1, <1>2, <1>5
  <2>3. p \in [1..3 -> Sample]
    BY <2>1, Components
  <2>4. GrayKept(in, out, p, r)
    BY <1>5, <2>1, <2>2, <2>3, RgbGrayKept, Zenon DEF r
  <2>5. IsGray(jpeg, out, from) /\ ComponentsOf(out) # 4
    BY <1>5, Components DEF IsGray
  <2> QED BY <2>4, <2>5 DEF BlackKept
<1>6. CASE from = "cmyk_yk"
  <2>1. jpeg = "CMYK" /\ out = "YCCK" /\ in = "CMYK" /\ name = "null" /\ halved = FALSE
    BY <1>1, <1>2, <1>6
  <2>2. p \in [1..4 -> Sample]
    BY <2>1, Components
  <2>3. GrayKept(in, out, p, r) /\ BlackKept(in, out, p, r)
    BY <1>6, <2>1, <2>2, CmykGrayKept, Zenon DEF r
  <2> QED BY <1>6, <2>3 DEF IsGray
<1>7. CASE jpeg \in {"YCbCr", "BG_YCC"} /\ out # "GRAYSCALE"
  <2>1. /\ in \in {"RGB", "YCbCr", jpeg} /\ name = IF in = "RGB" THEN "rgb_ycc" ELSE "null"
        /\ halved <=> jpeg = "BG_YCC" /\ in \in {"RGB", "YCbCr"}
    BY <1>1, <1>7
  <2>2. /\ out \in {"RGB", jpeg}
        /\ from = IF out # "RGB" THEN "null" ELSE IF jpeg = "BG_YCC" THEN "bg_ycc_rgb" ELSE "ycc_rgb"
    BY <1>2, <1>7
  <2>3. p \in [1..3 -> Sample] /\ jpeg \in {"YCbCr", "BG_YCC"}
    BY <1>7, <2>1, Components
  <2>4. ColoursKept(in, out, halved, p, r)
    BY <1>3, <2>1, <2>2, <2>3, YccKept, Zenon DEF r
  <2>5. ~IsGray(jpeg, out, from) /\ ComponentsOf(out) # 4
    BY <1>7, <2>2, Components DEF IsGray
  <2> QED BY <2>4, <2>5 DEF BlackKept
<1>8. CASE jpeg \in {"RGB", "BG_RGB"} /\ out # "GRAYSCALE"
  <2>1. in = jpeg /\ name = (IF sub THEN "rgb_rgb1" ELSE "rgb") /\ halved = FALSE
    BY <1>1, <1>8
  <2>2. out = jpeg /\ from = IF sub THEN "rgb1_rgb" ELSE "rgb"
    BY <1>2, <1>8
  <2>3. p \in [1..3 -> Sample] /\ jpeg \in {"RGB", "BG_RGB"}
    BY <1>8, <2>1, Components
  <2>4. ColoursKept(in, out, halved, p, r)
    BY <2>1, <2>2, <2>3, RgbKept, Zenon DEF r
  <2>5. ~IsGray(jpeg, out, from) /\ ComponentsOf(out) # 4
    BY <1>8, <2>2, Components DEF IsGray
  <2> QED BY <2>4, <2>5 DEF BlackKept
<1>9. CASE jpeg = "YCCK"
  <2>1. in \in {"CMYK", "YCCK"} /\ name = (IF in = "CMYK" THEN "cmyk_ycck" ELSE "null") /\ halved = FALSE
    BY <1>1, <1>9
  <2>2. out \in {"CMYK", "YCCK"} /\ from = IF out = "CMYK" THEN "ycck_cmyk" ELSE "null"
    BY <1>2, <1>9
  <2>3. p \in [1..4 -> Sample]
    BY <2>1, Components
  <2>4. ColoursKept(in, out, halved, p, r) /\ BlackKept(in, out, p, r)
    BY <2>1, <2>2, <2>3, YcckKept, Zenon DEF r
  <2>5. ~IsGray(jpeg, out, from)
    BY <1>9, <2>2 DEF IsGray
  <2> QED BY <2>4, <2>5
<1>10. CASE jpeg = "CMYK" /\ from # "cmyk_yk"
  <2>1. in = "CMYK" /\ name = "null" /\ halved = FALSE /\ out = "CMYK" /\ from = "null"
    BY <1>1, <1>2, <1>10
  <2>2. p \in [1..4 -> Sample]
    BY <2>1, Components
  <2>3. ColoursKept(in, out, halved, p, r) /\ BlackKept(in, out, p, r)
    BY <2>1, <2>2, CmykKept, Zenon DEF r
  <2>4. ~IsGray(jpeg, out, from)
    BY <1>10, <2>1 DEF IsGray
  <2> QED BY <2>3, <2>4
<1>11. jpeg \in {"GRAYSCALE", "RGB", "YCbCr", "CMYK", "YCCK", "BG_RGB", "BG_YCC"}
  BY DEF Spaces
<1>12. jpeg = "BG_RGB" => out # "GRAYSCALE"
  BY <1>2
<1> QED BY <1>4, <1>5, <1>6, <1>7, <1>8, <1>9, <1>10, <1>11, <1>12

(* All the pixels of a job.                                                 *)
Converted(in, to, from) ==
  IF to.name = "error" \/ from = "error" THEN << >>
  ELSE [p \in [1..ComponentsOf(in) -> Levels] |->
          decompress_convert(from, HalfChroma(to.halved, compress_convert(to.name, p)))]

KeptAt(j, p) ==
  LET was == ColourOf(j.in, p)
      r == j.pixels[p]
  IN /\ IF j.jpeg = "GRAYSCALE" \/ j.out = "GRAYSCALE" \/ j.from = "cmyk_yk"
        THEN Near(InGamut(LuminanceOf(was)), 1000 * r[1], 2200)
             /\ (j.out \in {"RGB", "BG_RGB"} => r[2] = r[1] /\ r[3] = r[1])
        ELSE \A i \in 1..3 : Near(InGamut(was[i]), InGamut(ColourOf(j.out, r)[i]),
                                  IF j.halved THEN 4200 ELSE 2200)
     /\ ComponentsOf(j.in) = 4 /\ ComponentsOf(j.out) = 4 => r[Len(r)] = p[4]

LEMMA PixelsKept ==
  ASSUME NEW j, j.in \in Spaces, j.jpeg \in Spaces, j.out \in Spaces, NEW sub \in BOOLEAN, NEW needed,
         NEW to, to = jinit_color_converter(j.in, ComponentsOf(j.in), j.jpeg, ComponentsOf(j.jpeg), sub),
         j.from = jinit_color_deconverter(j.jpeg, ComponentsOf(j.jpeg), j.out, sub, needed),
         j.halved = to.halved,
         j.pixels = Converted(j.in, to, j.from)
  PROVE  ColourKeptBy(j)
<1>1. CASE to.name = "error" \/ j.from = "error"
  <2>1. DOMAIN j.pixels = {}
    BY <1>1 DEF Converted
  <2> QED BY <2>1 DEF ColourKeptBy
<1>2. CASE to.name # "error" /\ j.from # "error"
  <2> DEFINE pixels == [1..ComponentsOf(j.in) -> Levels]
  <2>1. DOMAIN j.pixels = pixels
    BY <1>2 DEF Converted
  <2>2. ASSUME NEW p \in pixels
        PROVE  LET r == j.pixels[p]
               IN /\ IF IsGray(j.jpeg, j.out, j.from) THEN GrayKept(j.in, j.out, p, r)
                     ELSE ColoursKept(j.in, j.out, j.halved, p, r)
                  /\ BlackKept(j.in, j.out, p, r)
    <3> DEFINE r == decompress_convert(j.from, HalfChroma(to.halved, compress_convert(to.name, p)))
    <3>1. p \in [1..ComponentsOf(j.in) -> Sample]
      BY LevelsAssumption DEF Sample
    <3>2. j.pixels[p] = r
      BY <1>2 DEF Converted
    <3>3. /\ IF IsGray(j.jpeg, j.out, j.from) THEN GrayKept(j.in, j.out, p, r)
             ELSE ColoursKept(j.in, j.out, to.halved, p, r)
          /\ BlackKept(j.in, j.out, p, r)
      <4>1. to.name # "error" /\ j.from # "error"
        BY <1>2
      <4> QED BY <3>1, <4>1, PixelKept
    <3> HIDE DEF r
    <3> QED BY <3>2, <3>3, Zenon
  <2> HIDE DEF pixels
  <2>3. ASSUME NEW p \in pixels
        PROVE  KeptAt(j, p)
    <3> DEFINE r == j.pixels[p]
    <3>1. CASE IsGray(j.jpeg, j.out, j.from)
      <4>1. GrayKept(j.in, j.out, p, r) /\ BlackKept(j.in, j.out, p, r)
        BY <2>2, <3>1
      <4> QED BY ONLY <3>1, <4>1 DEF GrayKept, BlackKept, Milli, GrayLoss, IsGray, KeptAt
    <3>2. CASE ~IsGray(j.jpeg, j.out, j.from)
      <4>1. ColoursKept(j.in, j.out, j.halved, p, r) /\ BlackKept(j.in, j.out, p, r)
        BY <2>2, <3>2
      <4> QED BY ONLY <3>2, <4>1 DEF ColoursKept, BlackKept, Allowed, IsGray, KeptAt
    <3> QED BY <3>1, <3>2
  <2>4. \A p \in DOMAIN j.pixels : KeptAt(j, p)
    BY <2>1, <2>3
  <2> QED BY <2>4 DEF ColourKeptBy, KeptAt
<1> QED BY <1>1, <1>2

(* Every job says of what kind it is, and colours are kept.                 *)
KindKnown == "kind" \in DOMAIN job
KInv == KindKnown /\ ColourKept

LEMMA ColoursConverted ==
  ASSUME ConvertColours
  PROVE  KInv'
<1>1. PICK in \in Spaces, jpeg \in Spaces, out \in Spaces, sub \in BOOLEAN :
        \E needed \in {1..ComponentsOf(jpeg), {1, 4}} :
          LET n == ComponentsOf(jpeg)
              to == jinit_color_converter(in, ComponentsOf(in), jpeg, n, sub)
              from == jinit_color_deconverter(jpeg, n, out, sub, needed)
          IN /\ job = Idle
             /\ needed = {1, 4} => from = "cmyk_yk"
             /\ job' = [kind |-> "colour", in |-> in, jpeg |-> jpeg, out |-> out, from |-> from,
                        halved |-> to.halved, refused |-> to.name = "error" \/ from = "error",
                        pixels |-> IF to.name = "error" \/ from = "error" THEN << >>
                                   ELSE [p \in [1..ComponentsOf(in) -> Levels] |->
                                           decompress_convert(from,
                                             HalfChroma(to.halved, compress_convert(to.name, p)))]]
  BY DEF ConvertColours
<1> DEFINE n == ComponentsOf(jpeg)
           to == jinit_color_converter(in, ComponentsOf(in), jpeg, n, sub)
           from(needed) == jinit_color_deconverter(jpeg, n, out, sub, needed)
           refused(f) == to.name = "error" \/ f = "error"
<1>2. PICK needed \in {1..n, {1, 4}} :
        job' = [kind |-> "colour", in |-> in, jpeg |-> jpeg, out |-> out, from |-> from(needed),
                halved |-> to.halved, refused |-> refused(from(needed)), pixels |-> Converted(in, to, from(needed))]
  BY <1>1 DEF Converted
<1> DEFINE f == from(needed)
           j == job'
<1>3. /\ to = jinit_color_converter(in, ComponentsOf(in), jpeg, ComponentsOf(jpeg), sub)
      /\ f = jinit_color_deconverter(jpeg, ComponentsOf(jpeg), out, sub, needed)
  OBVIOUS
<1> HIDE DEF to, from, refused, n
<1>4. /\ "kind" \in DOMAIN j /\ j.in = in /\ j.jpeg = jpeg /\ j.out = out
      /\ j.from = f /\ j.halved = to.halved /\ j.pixels = Converted(in, to, f)
  BY <1>2
<1> HIDE DEF j, f
<1>5. j.in \in Spaces /\ j.jpeg \in Spaces /\ j.out \in Spaces
  BY <1>4
<1>6. /\ to = jinit_color_converter(j.in, ComponentsOf(j.in), j.jpeg, ComponentsOf(j.jpeg), sub)
      /\ j.from = jinit_color_deconverter(j.jpeg, ComponentsOf(j.jpeg), j.out, sub, needed)
      /\ j.halved = to.halved
      /\ j.pixels = Converted(j.in, to, j.from)
  BY <1>3, <1>4
<1>7. ColourKeptBy(j)
  BY <1>5, <1>6, PixelsKept
<1>8. ColourKeptBy(job)'
  BY <1>7 DEF j, ColourKeptBy
<1> QED BY <1>4, <1>8 DEF KInv, KindKnown, ColourKept, j

(* A colour goes through any pair of converters that the two selections     *)
(* allow and is the same colour in the output space, for every sample       *)
(* (jccolor.c, jdcolor.c, jcdctmgr.c).                                      *)
THEOREM ColourKeptHolds == Spec => []ColourKept
<1>1. Init => KInv
  BY DEF Init, Idle, KInv, KindKnown, ColourKept
<1>2. KInv /\ [Next]_job => KInv'
  <2> SUFFICES ASSUME KInv, [Next]_job PROVE KInv'
    OBVIOUS
  <2> DEFINE other == "kind" \in DOMAIN job' /\ job'.kind # "colour"
  <2>0. other => KInv'
    BY DEF KInv, KindKnown, ColourKept
  <2>1. CASE ForwardDct
    BY <2>0, <2>1 DEF ForwardDct
  <2>2. CASE ConvertColours
    BY <2>2, ColoursConverted
  <2>3. CASE Jpegtran
    BY <2>0, <2>3 DEF Jpegtran
  <2>4. CASE AdjustQuant
    BY <2>0, <2>4 DEF AdjustQuant
  <2>5. CASE AdjustExif
    BY <2>0, <2>5 DEF AdjustExif
  <2>6. CASE CopyMarkers
    BY <2>0, <2>6 DEF CopyMarkers
  <2>7. CASE StartOnePass
    BY <2>0, <2>7 DEF StartOnePass
  <2>8. CASE OnePassRow
    BY <2>0, <2>8 DEF OnePassRow, KInv, KindKnown
  <2>9. CASE OnePassAgain
    BY <2>0, <2>9 DEF OnePassAgain, KInv, KindKnown
  <2>10. CASE StartTwoPass
    BY <2>0, <2>10 DEF StartTwoPass
  <2>11. CASE TwoPassRow
    BY <2>0, <2>11 DEF TwoPassRow, KInv, KindKnown
  <2>12. CASE TwoPassNext
    BY <2>0, <2>12 DEF TwoPassNext, KInv, KindKnown
  <2>13. CASE NewColorMap
    BY <2>0, <2>13 DEF NewColorMap, KInv, KindKnown
  <2>14. CASE UNCHANGED job
    BY <2>14 DEF KInv, KindKnown, ColourKept
  <2> QED BY <2>1, <2>2, <2>3, <2>4, <2>5, <2>6, <2>7, <2>8, <2>9, <2>10, <2>11, <2>12, <2>13, <2>14
       DEF Next
<1>3. KInv => ColourKept
  BY DEF KInv
<1> QED BY <1>1, <1>2, <1>3, PTL DEF Spec

-----------------------------------------------------------------------------
(* The inverse colour map of the two-pass quantiser. *)

(* A set of numbers has a least one, which LeastIn chooses.                 *)
LEMMA Least ==
  ASSUME NEW S \in SUBSET Nat, S # {}
  PROVE  LeastIn(S) \in S /\ \A n \in S : LeastIn(S) <= n
<1> DEFINE T == {1..n : n \in S}
<1>1. IsWellFoundedOn(StrictSubsetOrdering(Nat), FiniteSubsetsOf(Nat))
  BY FS_StrictSubsetOrderingWellFounded
<1>2. T \subseteq FiniteSubsetsOf(Nat) /\ T # {}
  <2>1. ASSUME NEW n \in S PROVE 1..n \in FiniteSubsetsOf(Nat)
    BY FS_Interval DEF FiniteSubsetsOf
  <2> QED BY <2>1
<1>3. PICK t \in T : \A u \in T : ~(<<u, t>> \in StrictSubsetOrdering(Nat))
  BY ONLY <1>1, <1>2, WFMin, Zenon
<1>4. PICK m \in S : t = 1..m
  OBVIOUS
<1>5. ASSUME NEW n \in S PROVE m <= n
  <2>1. SUFFICES ASSUME n < m PROVE FALSE
    OBVIOUS
  <2>2. m \in 1..m /\ m \notin 1..n /\ 1..n \subseteq 1..m
    BY <2>1
  <2>3. <<1..n, 1..m>> \in StrictSubsetOrdering(Nat)
    BY <2>2 DEF StrictSubsetOrdering
  <2> QED BY <1>3, <1>4, <2>3
<1> QED BY <1>5 DEF LeastIn

(* Squares grow with the distance from zero.                                *)
LEMMA SquareGrows ==
  ASSUME NEW u \in Int, NEW v \in Int, (-v <= u /\ u <= v) \/ (v <= u /\ u <= -v)
  PROVE  Square(u) <= Square(v) /\ Square(u) \in Nat /\ Square(v) \in Nat
<1> DEFINE p == IF u < 0 THEN -u ELSE u
           q == IF v < 0 THEN -v ELSE v
<1>1. p \in Int /\ q \in Int /\ 0 <= p /\ p <= q
  OBVIOUS
<1>2. u * u = p * p /\ v * v = q * q
  OBVIOUS
<1> HIDE DEF p, q
<1>3. p * p \in Int /\ q * q \in Int /\ p * p <= p * q /\ p * q <= q * q /\ 0 <= p * p
  BY <1>1
<1> QED BY <1>2, <1>3 DEF Square

(* What the code computes along one axis: a colour's distance from the box   *)
(* lo..hi and from its farther end, and its distance from cell t.           *)
NearAt(x, lo, hi, s) ==
  IF x < lo THEN Square((x - lo) * s) ELSE IF x > hi THEN Square((x - hi) * s) ELSE 0
FarAt(x, lo, hi, s) == IF x <= (lo + hi) \div 2 THEN Square((x - hi) * s) ELSE Square((x - lo) * s)
Along(x, lo, t, w, s) ==
  LET step == w * s
      inc == (lo - x) * s
  IN Square(inc) + t * (inc * 2 * step + Square(step)) + Square(step) * t * (t - 1)

(* Along one axis a colour x is at least as far from a cell's centre m as   *)
(* from the box lo..hi, and at most as far as from the farther end of it.   *)
LEMMA AxisBounds ==
  ASSUME NEW s \in {1, 2, 3}, NEW x \in Int, NEW lo \in Int, NEW hi \in Int, NEW m \in Int,
         lo <= m, m <= hi
  PROVE  LET near == NearAt(x, lo, hi, s)
             far == FarAt(x, lo, hi, s)
             d == Square(s * (m - x))
         IN near \in Nat /\ far \in Nat /\ d \in Nat /\ near <= d /\ d <= far
<1> DEFINE u == s * (m - x)
           l == (x - lo) * s
           h == (x - hi) * s
           middle == (lo + hi) \div 2
<1>1. u \in Int /\ l \in Int /\ h \in Int /\ middle \in Int /\ 2 * middle <= lo + hi /\ lo + hi < 2 * middle + 2
  OBVIOUS
<1> HIDE DEF middle
<1>2. /\ x < lo => -u <= l /\ l <= 0 /\ 0 <= u
      /\ x > hi => 0 <= h /\ h <= -u
      /\ x <= middle => h <= u /\ u <= -h
      /\ ~(x <= middle) => -l <= u /\ u <= l
  <2>1. CASE s = 1
    BY <1>1, <2>1
  <2>2. CASE s = 2
    BY <1>1, <2>2
  <2>3. CASE s = 3
    BY <1>1, <2>3
  <2> QED BY <2>1, <2>2, <2>3
<1> HIDE DEF u, l, h
<1>3. Square(u) \in Nat
  BY <1>1, SquareGrows
<1>4. IF x < lo THEN Square(l) \in Nat /\ Square(l) <= Square(u)
      ELSE x > hi => Square(h) \in Nat /\ Square(h) <= Square(u)
  BY <1>1, <1>2, SquareGrows
<1>5. IF x <= middle THEN Square(h) \in Nat /\ Square(u) <= Square(h)
      ELSE Square(l) \in Nat /\ Square(u) <= Square(l)
  BY <1>1, <1>2, SquareGrows
<1> QED BY <1>3, <1>4, <1>5 DEF NearAt, FarAt, u, l, h, middle

(* The incremental distance is the distance to the cell's centre.           *)
LEMMA AxisStep ==
  ASSUME NEW s \in {1, 2, 3}, NEW w \in {4, 8}, NEW t \in 0..7, NEW x \in Int, NEW lo \in Int
  PROVE  Along(x, lo, t, w, s) = Square(s * (lo + t * w - x))
<1> DEFINE y == lo - x
           step == w * s
<1>1. y \in Int /\ step \in {4, 8, 12, 16, 24}
  OBVIOUS
<1>2. lo + t * w - x = y + t * w
  OBVIOUS
<1> QED BY DEF Along, Square

IsColorMap(m) ==
  DOMAIN m # {} /\ DOMAIN m \subseteq Nat \ {0} /\ \A i \in DOMAIN m : \A a \in Axes : m[i][a] \in Int
BoxCells == {<<x, y, z>> : x \in 0..BOX_ELEMS[1] - 1, y \in 0..BOX_ELEMS[2] - 1, z \in 0..BOX_ELEMS[3] - 1}

(* A colour's distance to a cell of the box, as the loop arrives at it.     *)
LEMMA StepIs ==
  ASSUME NEW colormap, IsColorMap(colormap), NEW i \in DOMAIN colormap,
         NEW minc, minc[1] \in Int, minc[2] \in Int, minc[3] \in Int, NEW ic \in BoxCells,
         NEW m, \A a \in Axes : m[a] = minc[a] + ic[a] * SHIFT[a]
  PROVE  /\ StepDistance(colormap, minc, i, ic) = Distance(m, colormap[i])
         /\ Distance(m, colormap[i]) \in Nat
<1> DEFINE c == colormap[i]
<1>1. c[1] \in Int /\ c[2] \in Int /\ c[3] \in Int
  BY DEF IsColorMap, Axes
<1>2. ic[1] \in 0..7 /\ ic[2] \in 0..7 /\ ic[3] \in 0..7
  BY DEF BoxCells, BOX_ELEMS
<1>3. StepDistance(colormap, minc, i, ic)
      = Along(c[1], minc[1], ic[1], 8, 2) + Along(c[2], minc[2], ic[2], 4, 3) + Along(c[3], minc[3], ic[3], 8, 1)
  BY DEF StepDistance, Along, SHIFT, SCALE
<1>4. m[1] = minc[1] + ic[1] * 8 /\ m[2] = minc[2] + ic[2] * 4 /\ m[3] = minc[3] + ic[3] * 8
  BY DEF SHIFT, Axes
<1> HIDE DEF c
<1>5. /\ Along(c[1], minc[1], ic[1], 8, 2) = Square(2 * (minc[1] + ic[1] * 8 - c[1]))
      /\ Along(c[2], minc[2], ic[2], 4, 3) = Square(3 * (minc[2] + ic[2] * 4 - c[2]))
      /\ Along(c[3], minc[3], ic[3], 8, 1) = Square(1 * (minc[3] + ic[3] * 8 - c[3]))
  <2>1. Along(c[1], minc[1], ic[1], 8, 2) = Square(2 * (minc[1] + ic[1] * 8 - c[1]))
    <3>1. \A t \in 0..7, x, lo \in Int : Along(x, lo, t, 8, 2) = Square(2 * (lo + t * 8 - x))
      BY AxisStep
    <3> QED BY <1>1, <1>2, <3>1
  <2>2. Along(c[2], minc[2], ic[2], 4, 3) = Square(3 * (minc[2] + ic[2] * 4 - c[2]))
    <3>1. \A t \in 0..7, x, lo \in Int : Along(x, lo, t, 4, 3) = Square(3 * (lo + t * 4 - x))
      BY AxisStep
    <3> QED BY <1>1, <1>2, <3>1
  <2>3. Along(c[3], minc[3], ic[3], 8, 1) = Square(1 * (minc[3] + ic[3] * 8 - c[3]))
    <3>1. \A t \in 0..7, x, lo \in Int : Along(x, lo, t, 8, 1) = Square(1 * (lo + t * 8 - x))
      BY AxisStep
    <3> QED BY <1>1, <1>2, <3>1
  <2> QED BY <2>1, <2>2, <2>3
<1>6. m[1] \in Int /\ m[2] \in Int /\ m[3] \in Int
  BY <1>2, <1>4
<1>7. /\ Along(c[1], minc[1], ic[1], 8, 2) = Square(2 * (m[1] - c[1]))
      /\ Along(c[2], minc[2], ic[2], 4, 3) = Square(3 * (m[2] - c[2]))
      /\ Along(c[3], minc[3], ic[3], 8, 1) = Square(m[3] - c[3])
  <2>1. 2 * (minc[1] + ic[1] * 8 - c[1]) = 2 * (m[1] - c[1])
    BY <1>1, <1>2, <1>4, <1>6
  <2>2. 3 * (minc[2] + ic[2] * 4 - c[2]) = 3 * (m[2] - c[2])
    BY <1>1, <1>2, <1>4, <1>6
  <2>3. 1 * (minc[3] + ic[3] * 8 - c[3]) = m[3] - c[3]
    BY <1>1, <1>2, <1>4, <1>6
  <2> QED BY <1>5, <2>1, <2>2, <2>3
<1>8. ASSUME NEW u \in Int PROVE Square(u) \in Nat
  BY SquareGrows
<1>9. Square(2 * (m[1] - c[1])) \in Nat /\ Square(3 * (m[2] - c[2])) \in Nat /\ Square(m[3] - c[3]) \in Nat
  BY <1>1, <1>6, <1>8
<1> QED BY <1>3, <1>7, <1>9 DEF Distance, c

(* For every cell of a box the colours that are kept have one that is no    *)
(* farther than any other.                                                  *)
LEMMA Nearby ==
  ASSUME NEW colormap, IsColorMap(colormap), NEW minc, minc[1] \in Int, minc[2] \in Int, minc[3] \in Int
  PROVE  LET list == find_nearby_colors(colormap, minc)
         IN /\ list # {} /\ list \subseteq DOMAIN colormap
            /\ \A ic \in BoxCells : \A m :
                 (\A a \in Axes : m[a] = minc[a] + ic[a] * SHIFT[a]) =>
                   \A i \in DOMAIN colormap : \E k \in list :
                     Distance(m, colormap[k]) <= Distance(m, colormap[i])
<1> DEFINE list == find_nearby_colors(colormap, minc)
           maxc == [a \in Axes |-> minc[a] + (BOX_ELEMS[a] - 1) * SHIFT[a]]
           nearAt(i, a) == LET x == colormap[i][a]
                           IN IF x < minc[a] THEN Square((x - minc[a]) * SCALE[a])
                              ELSE IF x > maxc[a] THEN Square((x - maxc[a]) * SCALE[a]) ELSE 0
           farAt(i, a) == LET x == colormap[i][a]
                          IN IF x <= (minc[a] + maxc[a]) \div 2 THEN Square((x - maxc[a]) * SCALE[a])
                             ELSE Square((x - minc[a]) * SCALE[a])
           near(i) == nearAt(i, 1) + nearAt(i, 2) + nearAt(i, 3)
           far(i) == farAt(i, 1) + farAt(i, 2) + farAt(i, 3)
           fars == {far(i) : i \in DOMAIN colormap}
           minmax == LeastIn(fars)
<1>1. list = {i \in DOMAIN colormap : near(i) <= minmax}
  BY DEF find_nearby_colors
<1>0. /\ maxc[1] = minc[1] + 3 * 8 /\ maxc[2] = minc[2] + 7 * 4 /\ maxc[3] = minc[3] + 3 * 8
      /\ SCALE[1] = 2 /\ SCALE[2] = 3 /\ SCALE[3] = 1
  BY DEF Axes, BOX_ELEMS, SHIFT, SCALE
<1> HIDE DEF maxc
<1>2. ASSUME NEW i \in DOMAIN colormap, NEW m1 \in Int, NEW m2 \in Int, NEW m3 \in Int,
             minc[1] <= m1, m1 <= minc[1] + 3 * 8, minc[2] <= m2, m2 <= minc[2] + 7 * 4,
             minc[3] <= m3, m3 <= minc[3] + 3 * 8
      PROVE  LET d == Square(2 * (m1 - colormap[i][1])) + Square(3 * (m2 - colormap[i][2]))
                      + Square(1 * (m3 - colormap[i][3]))
             IN near(i) \in Nat /\ far(i) \in Nat /\ d \in Nat /\ near(i) <= d /\ d <= far(i)
  <2> DEFINE x1 == colormap[i][1]
             x2 == colormap[i][2]
             x3 == colormap[i][3]
             d1 == Square(2 * (m1 - x1))
             d2 == Square(3 * (m2 - x2))
             d3 == Square(1 * (m3 - x3))
             n1 == nearAt(i, 1)
             n2 == nearAt(i, 2)
             n3 == nearAt(i, 3)
             f1 == farAt(i, 1)
             f2 == farAt(i, 2)
             f3 == farAt(i, 3)
  <2>1. x1 \in Int /\ x2 \in Int /\ x3 \in Int
    BY DEF IsColorMap, Axes
  <2> HIDE DEF x1, x2, x3
  <2>2. minc[1] + 3 * 8 \in Int /\ minc[2] + 7 * 4 \in Int /\ minc[3] + 3 * 8 \in Int
    OBVIOUS
  <2>3. n1 \in Nat /\ f1 \in Nat /\ d1 \in Nat /\ n1 <= d1 /\ d1 <= f1
    <3>1. n1 = NearAt(x1, minc[1], maxc[1], 2) /\ f1 = FarAt(x1, minc[1], maxc[1], 2)
      BY <1>0 DEF NearAt, FarAt, x1
    <3> HIDE DEF n1, f1
    <3> QED BY <1>0, <1>2, <2>1, <2>2, <3>1, AxisBounds, 2 \in {1, 2, 3}, Zenon
  <2>4. n2 \in Nat /\ f2 \in Nat /\ d2 \in Nat /\ n2 <= d2 /\ d2 <= f2
    <3>1. n2 = NearAt(x2, minc[2], maxc[2], 3) /\ f2 = FarAt(x2, minc[2], maxc[2], 3)
      BY <1>0 DEF NearAt, FarAt, x2
    <3> HIDE DEF n2, f2
    <3> QED BY <1>0, <1>2, <2>1, <2>2, <3>1, AxisBounds, 3 \in {1, 2, 3}, Zenon
  <2>5. n3 \in Nat /\ f3 \in Nat /\ d3 \in Nat /\ n3 <= d3 /\ d3 <= f3
    <3>1. n3 = NearAt(x3, minc[3], maxc[3], 1) /\ f3 = FarAt(x3, minc[3], maxc[3], 1)
      BY <1>0 DEF NearAt, FarAt, x3
    <3> HIDE DEF n3, f3
    <3> QED BY <1>0, <1>2, <2>1, <2>2, <3>1, AxisBounds, 1 \in {1, 2, 3}, Zenon
  <2>6. near(i) = n1 + n2 + n3 /\ far(i) = f1 + f2 + f3
    BY Zenon
  <2> HIDE DEF n1, n2, n3, f1, f2, f3, d1, d2, d3, near, far
  <2>7. near(i) \in Nat /\ far(i) \in Nat /\ d1 + d2 + d3 \in Nat /\ near(i) <= d1 + d2 + d3 /\ d1 + d2 + d3 <= far(i)
    BY <2>3, <2>4, <2>5, <2>6
  <2> QED BY <2>7 DEF d1, d2, d3, x1, x2, x3
<1>3. \A i \in DOMAIN colormap : near(i) \in Nat /\ far(i) \in Nat /\ near(i) <= far(i)
  <2>1. \A x \in Int : x <= x /\ x <= x + 3 * 8 /\ x <= x + 7 * 4
    OBVIOUS
  <2> HIDE DEF near, far
  <2> QED BY <1>2, <2>1, SMTT(30)
<1> HIDE DEF near, far, list
<1>4. PICK k \in DOMAIN colormap : far(k) = minmax
  <2>1. fars \in SUBSET Nat /\ fars # {}
    BY <1>3 DEF IsColorMap
  <2>2. minmax \in fars
    BY <2>1, Least
  <2> QED BY <2>2
<1> HIDE DEF fars, minmax
<1>5. k \in list
  BY <1>1, <1>3, <1>4
<1>6. ASSUME NEW ic \in BoxCells, NEW m, \A a \in Axes : m[a] = minc[a] + ic[a] * SHIFT[a],
             NEW i \in DOMAIN colormap
      PROVE  \E j \in list : Distance(m, colormap[j]) <= Distance(m, colormap[i])
  <2>1. ic[1] \in 0..3 /\ ic[2] \in 0..7 /\ ic[3] \in 0..3
    BY DEF BoxCells, BOX_ELEMS
  <2>2. m[1] = minc[1] + ic[1] * 8 /\ m[2] = minc[2] + ic[2] * 4 /\ m[3] = minc[3] + ic[3] * 8
    BY <1>6 DEF SHIFT, Axes
  <2>3. /\ m[1] \in Int /\ minc[1] <= m[1] /\ m[1] <= minc[1] + 3 * 8
        /\ m[2] \in Int /\ minc[2] <= m[2] /\ m[2] <= minc[2] + 7 * 4
        /\ m[3] \in Int /\ minc[3] <= m[3] /\ m[3] <= minc[3] + 3 * 8
    BY <2>1, <2>2
  <2>4. ASSUME NEW j \in DOMAIN colormap
        PROVE  Distance(m, colormap[j]) \in Nat /\ near(j) <= Distance(m, colormap[j])
               /\ Distance(m, colormap[j]) <= far(j)
    <3>1. colormap[j][3] \in Int
      BY DEF IsColorMap, Axes
    <3>2. 1 * (m[3] - colormap[j][3]) = m[3] - colormap[j][3]
      BY <2>3, <3>1
    <3> QED BY <1>2, <2>3, <3>2 DEF Distance
  <2>5. CASE i \in list
    BY <2>4, <2>5
  <2>6. CASE i \notin list
    <3>1. minmax \in Nat /\ near(i) \in Nat /\ minmax < near(i)
      BY <1>1, <1>3, <1>4, <2>6
    <3>2. Distance(m, colormap[k]) <= minmax
      BY <1>4, <2>4
    <3> QED BY <1>5, <2>4, <3>1, <3>2
  <2> QED BY <2>5, <2>6
<1>7. list # {} /\ list \subseteq DOMAIN colormap
  BY <1>1, <1>5
<1> QED BY <1>6, <1>7 DEF list

(* The best colour of a list for a cell is one of the list, and none of     *)
(* them is nearer.                                                          *)
LEMMA Best ==
  ASSUME NEW colormap, IsColorMap(colormap), NEW minc, minc[1] \in Int, minc[2] \in Int, minc[3] \in Int,
         NEW list, list \subseteq DOMAIN colormap, list # {}, NEW ic \in BoxCells
  PROVE  LET b == find_best_colors(colormap, minc, list, BoxCells)[ic]
         IN b \in list /\ \A j \in list : StepDistance(colormap, minc, b, ic) <= StepDistance(colormap, minc, j, ic)
<1> DEFINE dist(i) == StepDistance(colormap, minc, i, ic)
           before(i, j) == dist(i) < dist(j) \/ (dist(i) = dist(j) /\ i <= j)
           best == CHOOSE i \in list : \A j \in list : before(i, j)
           dists == {dist(i) : i \in list}
           least == LeastIn(dists)
           nearest == {i \in list : dist(i) = least}
           first == LeastIn(nearest)
<1>1. ASSUME NEW i \in DOMAIN colormap PROVE dist(i) \in Nat
  <2> DEFINE m == [a \in Axes |-> minc[a] + ic[a] * SHIFT[a]]
  <2>1. \A a \in Axes : m[a] = minc[a] + ic[a] * SHIFT[a]
    OBVIOUS
  <2> HIDE DEF m
  <2> QED BY <2>1, StepIs
<1>2. find_best_colors(colormap, minc, list, BoxCells)[ic] = best
  BY DEF find_best_colors
<1> HIDE DEF dist, best
<1>3. dists \in SUBSET Nat /\ dists # {}
  BY <1>1
<1>4. least \in dists /\ \A d \in dists : least <= d
  BY <1>3, Least
<1>5. nearest # {} /\ nearest \subseteq list /\ nearest \in SUBSET Nat
  BY <1>4 DEF IsColorMap
<1>6. first \in nearest /\ \A i \in nearest : first <= i
  BY <1>5, Least
<1> HIDE DEF least, first
<1>7. first \in list /\ \A j \in list : before(first, j)
  <2>1. ASSUME NEW j \in list PROVE before(first, j)
    <3>1. dist(j) \in Nat /\ least \in Nat /\ least <= dist(j) /\ dist(first) = least
      BY <1>1, <1>3, <1>4, <1>6
    <3>2. CASE dist(j) = least
      BY <1>6, <3>1, <3>2
    <3>3. CASE dist(j) # least
      BY <3>1, <3>3
    <3> QED BY <3>2, <3>3
  <2> QED BY <1>6, <2>1
<1>8. best \in list /\ \A j \in list : before(best, j)
  BY <1>7 DEF best
<1>9. ASSUME NEW j \in list PROVE dist(best) <= dist(j)
  BY <1>1, <1>8
<1> QED BY <1>2, <1>8, <1>9 DEF dist

(* Every cell of the box that is filled names a nearest colour; the other   *)
(* cells stay as they were.                                                 *)
NearestAt(colormap, d, b) ==
  b \in DOMAIN colormap
  /\ \A i \in DOMAIN colormap : Distance(CellCentre(d), colormap[b]) <= Distance(CellCentre(d), colormap[i])
LEMMA Filled ==
  ASSUME NEW colormap, IsColorMap(colormap), NEW hist, NEW c \in [Axes -> Nat]
  PROVE  LET filled == fill_inverse_cmap(hist, colormap, c)
         IN /\ \A d \in DOMAIN filled :
                 (d \in DOMAIN hist /\ filled[d] = hist[d]) \/ NearestAt(colormap, d, filled[d])
            /\ c \in DOMAIN filled /\ NearestAt(colormap, c, filled[c])
            /\ DOMAIN filled \subseteq DOMAIN hist \cup [Axes -> Nat]
<1> DEFINE corner == [a \in Axes |-> (c[a] \div BOX_ELEMS[a]) * BOX_ELEMS[a]]
           minc == CellCentre(corner)
           list == find_nearby_colors(colormap, minc)
           best == find_best_colors(colormap, minc, list, BoxCells)
           box == {[a \in Axes |-> corner[a] + ic[a]] : ic \in BoxCells}
           filled == fill_inverse_cmap(hist, colormap, c)
<1>1. filled = [d \in DOMAIN hist \cup box |->
                  IF d \in box THEN best[[a \in Axes |-> d[a] - corner[a]]] ELSE hist[d]]
  BY DEF fill_inverse_cmap, BoxCells
<1>2. /\ corner[1] \in Nat /\ corner[1] <= c[1] /\ c[1] < corner[1] + 4
      /\ corner[2] \in Nat /\ corner[2] <= c[2] /\ c[2] < corner[2] + 8
      /\ corner[3] \in Nat /\ corner[3] <= c[3] /\ c[3] < corner[3] + 4
      /\ c[1] \in Nat /\ c[2] \in Nat /\ c[3] \in Nat
  <2>1. c[1] \in Nat /\ c[2] \in Nat /\ c[3] \in Nat
    BY DEF Axes
  <2>2. corner[1] = (c[1] \div 4) * 4 /\ corner[2] = (c[2] \div 8) * 8 /\ corner[3] = (c[3] \div 4) * 4
    BY DEF Axes, BOX_ELEMS
  <2> HIDE DEF corner
  <2> QED BY <2>1, <2>2
<1> HIDE DEF corner
<1>3. minc[1] = corner[1] * 8 + 4 /\ minc[2] = corner[2] * 4 + 2 /\ minc[3] = corner[3] * 8 + 4
  BY <1>2 DEF CellCentre, SHIFT, Axes
<1>4. minc[1] \in Int /\ minc[2] \in Int /\ minc[3] \in Int
  BY <1>2, <1>3
<1> HIDE DEF minc, filled, list, best
<1>5. ASSUME NEW ic \in BoxCells, NEW d, d = [a \in Axes |-> corner[a] + ic[a]]
      PROVE  filled[d] = best[ic] /\ NearestAt(colormap, d, filled[d])
  <2>1. /\ ic[1] \in 0..3 /\ ic[2] \in 0..7 /\ ic[3] \in 0..3
        /\ ic = <<ic[1], ic[2], ic[3]>>
    BY DEF BoxCells, BOX_ELEMS
  <2>2. d \in box
    BY <1>5
  <2>3. d[1] = corner[1] + ic[1] /\ d[2] = corner[2] + ic[2] /\ d[3] = corner[3] + ic[3]
    BY <1>5 DEF Axes
  <2>4. [a \in Axes |-> d[a] - corner[a]] = ic
    <3> DEFINE f == [a \in Axes |-> d[a] - corner[a]]
    <3>1. f = <<d[1] - corner[1], d[2] - corner[2], d[3] - corner[3]>>
      BY DEF Axes
    <3>2. d[1] - corner[1] = ic[1] /\ d[2] - corner[2] = ic[2] /\ d[3] - corner[3] = ic[3]
      BY <1>2, <2>1, <2>3
    <3> QED BY <2>1, <3>1, <3>2
  <2>5. filled[d] = best[ic]
    BY <1>1, <2>2, <2>4
  <2>6. \A a \in Axes : CellCentre(d)[a] = minc[a] + ic[a] * SHIFT[a]
    <3>1. CellCentre(d)[1] = minc[1] + ic[1] * 8
      BY <1>2, <1>3, <2>1, <2>3 DEF CellCentre, SHIFT, Axes
    <3>2. CellCentre(d)[2] = minc[2] + ic[2] * 4
      BY <1>2, <1>3, <2>1, <2>3 DEF CellCentre, SHIFT, Axes
    <3>3. CellCentre(d)[3] = minc[3] + ic[3] * 8
      BY <1>2, <1>3, <2>1, <2>3 DEF CellCentre, SHIFT, Axes
    <3>4. SHIFT[1] = 8 /\ SHIFT[2] = 4 /\ SHIFT[3] = 8 /\ \A a \in Axes : a = 1 \/ a = 2 \/ a = 3
      BY DEF SHIFT, Axes
    <3> QED BY <3>1, <3>2, <3>3, <3>4
  <2> DEFINE m == CellCentre(d)
             b == best[ic]
  <2> HIDE DEF m
  <2>7. /\ list # {} /\ list \subseteq DOMAIN colormap
        /\ \A i \in DOMAIN colormap : \E k \in list : Distance(m, colormap[k]) <= Distance(m, colormap[i])
    BY <1>4, <2>6, Nearby DEF list, m
  <2>8. b \in list /\ \A j \in list : StepDistance(colormap, minc, b, ic) <= StepDistance(colormap, minc, j, ic)
    BY <1>4, <2>7, Best DEF best
  <2> HIDE DEF b
  <2>9. \A i \in DOMAIN colormap : /\ StepDistance(colormap, minc, i, ic) = Distance(m, colormap[i])
                                   /\ Distance(m, colormap[i]) \in Nat
    BY <1>4, <2>6, StepIs DEF m
  <2>10. ASSUME NEW i \in DOMAIN colormap PROVE Distance(m, colormap[b]) <= Distance(m, colormap[i])
    <3>1. PICK k \in list : Distance(m, colormap[k]) <= Distance(m, colormap[i])
      BY <2>7
    <3>2. Distance(m, colormap[b]) <= Distance(m, colormap[k])
      BY <2>7, <2>8, <2>9
    <3> QED BY <2>7, <2>8, <2>9, <3>1, <3>2
  <2> QED BY <2>5, <2>7, <2>8, <2>10 DEF NearestAt, m, b
<1>6. ASSUME NEW d \in DOMAIN filled
      PROVE  (d \in DOMAIN hist /\ filled[d] = hist[d]) \/ NearestAt(colormap, d, filled[d])
  <2>1. CASE d \in box
    BY <1>5, <2>1
  <2>2. CASE d \notin box
    BY <1>1, <2>2
  <2> QED BY <2>1, <2>2
<1>7. c \in box /\ NearestAt(colormap, c, filled[c])
  <2> DEFINE ic == <<c[1] - corner[1], c[2] - corner[2], c[3] - corner[3]>>
  <2>1. ic \in BoxCells
    <3>1. c[1] - corner[1] \in 0..3 /\ c[2] - corner[2] \in 0..7 /\ c[3] - corner[3] \in 0..3
      BY <1>2
    <3> QED BY <3>1 DEF BoxCells, BOX_ELEMS
  <2>2. c = [a \in Axes |-> corner[a] + ic[a]]
    <3> DEFINE f == [a \in Axes |-> corner[a] + ic[a]]
    <3>1. f[1] = c[1] /\ f[2] = c[2] /\ f[3] = c[3] /\ \A a \in Axes : a = 1 \/ a = 2 \/ a = 3
      BY <1>2 DEF Axes
    <3>2. \A a \in Axes : f[a] = c[a]
      BY <3>1
    <3> HIDE DEF f
    <3>3. DOMAIN f = Axes /\ f = [a \in Axes |-> f[a]] /\ c = [a \in Axes |-> c[a]]
      BY DEF f
    <3> QED BY <3>2, <3>3 DEF f
  <2> QED BY <1>5, <2>1, <2>2
<1>8. box \subseteq [Axes -> Nat]
  <2>1. ASSUME NEW ic \in BoxCells, NEW a \in Axes PROVE corner[a] + ic[a] \in Nat
    <3>1. ic[1] \in Nat /\ ic[2] \in Nat /\ ic[3] \in Nat
      BY DEF BoxCells, BOX_ELEMS
    <3> QED BY <1>2, <3>1 DEF Axes
  <2> QED BY <2>1
<1>9. DOMAIN filled = DOMAIN hist \cup box
  BY <1>1
<1> QED BY <1>6, <1>7, <1>8, <1>9 DEF filled

-----------------------------------------------------------------------------
(* Loops, which the model writes as recursive functions. *)

(* What holds at the start of a loop and is kept by each round of it holds   *)
(* all along.                                                               *)
Kept(f, N, S) == f[0] \in S /\ \A n \in 1..N : f[n - 1] \in S => f[n] \in S
LEMMA LoopStays ==
  ASSUME NEW N \in Nat, NEW f, NEW S, Kept(f, N, S)
  PROVE  \A n \in 0..N : f[n] \in S
<1> DEFINE bad == {n \in 0..N : f[n] \notin S}
<1>1. SUFFICES ASSUME bad # {} PROVE FALSE
  OBVIOUS
<1>2. bad \in SUBSET Nat
  OBVIOUS
<1>3. PICK n \in bad : \A k \in bad : n <= k
  BY <1>1, <1>2, Least
<1>4. n \in 1..N /\ n - 1 \in 0..N /\ n - 1 \notin bad
  BY <1>3 DEF Kept
<1> QED BY <1>3, <1>4 DEF Kept

(* A loop over 1..N that steps from state to state has a run.               *)
Stepping(step, N, S) == step \in [S \X (1..N) -> S]
Stepped(g, step, base, N, S) ==
  g \in [0..N -> S] /\ g[0] = base /\ \A n \in 1..N : g[n] = step[<<g[n - 1], n>>]
LEMMA Loop ==
  ASSUME NEW N \in Nat, NEW S, NEW base \in S, NEW step, Stepping(step, N, S)
  PROVE  \E g : Stepped(g, step, base, N, S)
<1>0. SUFFICES \E g \in [0..N -> S] : g[0] = base /\ \A n \in 1..N : g[n] = step[<<g[n - 1], n>>]
  BY DEF Stepped
<1> USE DEF Stepping
<1> DEFINE run(g, k) == g[0] = base /\ \A n \in 1..k : g[n] = step[<<g[n - 1], n>>]
           bad == {k \in 0..N : ~\E g \in [0..k -> S] : run(g, k)}
<1>1. SUFFICES ASSUME bad # {} PROVE FALSE
  <2>1. CASE bad = {}
    <3>1. N \in 0..N
      OBVIOUS
    <3>2. N \notin bad
      <4> HIDE DEF bad
      <4> QED BY <2>1
    <3> HIDE DEF run
    <3>3. PICK g \in [0..N -> S] : run(g, N)
      BY <3>1, <3>2
    <3> QED BY <3>3 DEF run
  <2> HIDE DEF bad
  <2> QED BY <2>1
<1>2. bad \in SUBSET Nat
  OBVIOUS
<1>3. PICK k \in bad : \A l \in bad : k <= l
  BY <1>1, <1>2, Least
<1>4. k # 0
  <2> DEFINE g == [n \in 0..0 |-> base]
  <2>1. g \in [0..0 -> S] /\ run(g, 0)
    OBVIOUS
  <2> HIDE DEF g, run
  <2>2. 0 \notin bad
    BY <2>1, Zenon
  <2> HIDE DEF bad
  <2> QED BY <1>3, <2>2, Zenon
<1>5. PICK h \in [0..k - 1 -> S] : run(h, k - 1)
  BY <1>3, <1>4
<1> DEFINE g == [n \in 0..k |-> IF n = k THEN step[<<h[k - 1], k>>] ELSE h[n]]
<1>6. k \in 1..N /\ h[k - 1] \in S /\ step[<<h[k - 1], k>>] \in S
  BY <1>3, <1>4
<1>7. g \in [0..k -> S]
  BY <1>6
<1>8. run(g, k)
  <2>1. g[0] = base
    BY <1>5, <1>6
  <2>2. ASSUME NEW n \in 1..k PROVE g[n] = step[<<g[n - 1], n>>]
    <3>1. CASE n = k
      <4>1. g[k - 1] = h[k - 1] /\ g[k] = step[<<h[k - 1], k>>]
        BY <1>6
      <4> HIDE DEF g
      <4> QED BY <3>1, <4>1
    <3>2. CASE n # k
      <4>1. n \in 1..k - 1 /\ n - 1 \in 0..k - 1 /\ n - 1 # k
        BY <1>6, <3>2
      <4> QED BY <1>5, <1>6, <3>2, <4>1
    <3> QED BY <3>1, <3>2
  <2> QED BY <2>1, <2>2
<1> QED BY <1>3, <1>7, <1>8

(* Among the sets of a finite set's subsets one holds no other of them.      *)
LEMMA LeastSet ==
  ASSUME NEW S, IsFiniteSet(S), NEW B, B \subseteq SUBSET S, B # {}
  PROVE  \E T \in B : \A U \in B : U \subseteq T => U = T
<1>1. B \subseteq FiniteSubsetsOf(S)
  BY FS_Subset DEF FiniteSubsetsOf
<1>2. IsWellFoundedOn(StrictSubsetOrdering(S), FiniteSubsetsOf(S))
  BY FS_StrictSubsetOrderingWellFounded
<1>3. PICK T \in B : \A U \in B : ~(<<U, T>> \in StrictSubsetOrdering(S))
  BY ONLY B # {}, <1>1, <1>2, WFMin, Zenon
<1>4. ASSUME NEW U \in B, U \subseteq T, U # T PROVE FALSE
  <2>1. <<U, T>> \in StrictSubsetOrdering(S)
    BY <1>4 DEF StrictSubsetOrdering
  <2> QED BY <1>3, <2>1
<1> QED BY <1>3, <1>4

(* The sum over a set, an element at a time.                                *)
Adds(g, v, S) ==
  \A T \in SUBSET S : g[T] = IF T = {} THEN 0 ELSE LET c == CHOOSE x \in T : TRUE IN v[c] + g[T \ {c}]

(* Sums of natural numbers are natural numbers.                             *)
LEMMA SumsNatural ==
  ASSUME NEW S, IsFiniteSet(S), NEW v, \A c \in S : v[c] \in Nat, NEW g, Adds(g, v, S), NEW T \in SUBSET S
  PROVE  g[T] \in Nat
<1> DEFINE bad == {U \in SUBSET S : g[U] \notin Nat}
<1>1. SUFFICES ASSUME bad # {} PROVE FALSE
  OBVIOUS
<1>2. PICK U \in bad : \A W \in bad : W \subseteq U => W = U
  <2>1. bad \subseteq SUBSET S
    OBVIOUS
  <2> HIDE DEF bad
  <2> QED BY <1>1, <2>1, LeastSet
<1> DEFINE c == CHOOSE x \in U : TRUE
<1>3. U # {} /\ U \in SUBSET S
  <2>1. U \in SUBSET S /\ g[U] \notin Nat
    BY <1>2
  <2>2. g[{}] = 0
    BY DEF Adds
  <2> QED BY <2>1, <2>2
<1>4. c \in U /\ U \ {c} \in SUBSET S /\ U \ {c} \subseteq U /\ U \ {c} # U
  BY <1>3
<1>5. U \ {c} \notin bad
  BY <1>2, <1>4
<1>6. g[U] = v[c] + g[U \ {c}]
  BY <1>3 DEF Adds
<1> HIDE DEF c
<1>7. v[c] \in Nat /\ g[U \ {c}] \in Nat
  BY <1>3, <1>4, <1>5
<1> QED BY <1>2, <1>6, <1>7

(* Two such sums agree where both are defined.                              *)
LEMMA SumsAgree ==
  ASSUME NEW S, IsFiniteSet(S), NEW v, NEW g, NEW h, NEW R \in SUBSET S, NEW W \in SUBSET S,
         Adds(g, v, R), Adds(h, v, W), NEW T \in SUBSET (R \cap W)
  PROVE  g[T] = h[T]
<1> DEFINE bad == {U \in SUBSET (R \cap W) : g[U] # h[U]}
<1>1. SUFFICES ASSUME bad # {} PROVE FALSE
  OBVIOUS
<1>2. bad \subseteq SUBSET S
  OBVIOUS
<1>3. PICK U \in bad : \A V \in bad : V \subseteq U => V = U
  <2> HIDE DEF bad
  <2> QED BY <1>1, <1>2, LeastSet
<1> DEFINE c == CHOOSE x \in U : TRUE
<1>4. U \in SUBSET R /\ U \in SUBSET W
  BY <1>3
<1>5. U # {}
  BY <1>3, <1>4 DEF Adds
<1>6. c \in U /\ U \ {c} \in SUBSET (R \cap W) /\ U \ {c} \subseteq U /\ U \ {c} # U
  BY <1>4, <1>5
<1>7. g[U \ {c}] = h[U \ {c}]
  BY <1>3, <1>6
<1>8. g[U] = v[c] + g[U \ {c}] /\ h[U] = v[c] + h[U \ {c}]
  BY <1>4, <1>5 DEF Adds
<1> QED BY <1>3, <1>7, <1>8

(* Every finite set has such sums.                                          *)
Summed(g, v, S) ==
  g = [T \in SUBSET S |-> IF T = {} THEN 0 ELSE LET c == CHOOSE x \in T : TRUE IN v[c] + g[T \ {c}]]
LEMMA SumsExist ==
  ASSUME NEW S, IsFiniteSet(S), NEW v
  PROVE  \E g : Summed(g, v, S)
<1> DEFINE G(T) == CHOOSE g : Adds(g, v, T)
           bad == {T \in SUBSET S : ~\E g : Adds(g, v, T)}
           first(T) == CHOOSE x \in T : TRUE
           value(T) == IF T = {} THEN 0 ELSE v[first(T)] + G(T \ {first(T)})[T \ {first(T)}]
<1>1. ASSUME NEW T \in SUBSET S, \A U \in SUBSET T : U # T => Adds(G(U), v, U), NEW U \in SUBSET T, U # T
      PROVE  value(U) = G(U)[U]
  <2>1. Adds(G(U), v, U)
    BY <1>1
  <2> HIDE DEF G
  <2>2. CASE U = {}
    BY <2>1, <2>2 DEF Adds
  <2>3. CASE U # {}
    <3> DEFINE c == first(U)
               R == U \ {c}
    <3>1. c \in U /\ R \subseteq U /\ R # T
      BY <1>1, <2>3
    <3>2. G(U)[U] = v[c] + G(U)[R]
      BY <2>1, <2>3 DEF Adds
    <3>3. Adds(G(R), v, R)
      BY <1>1, <3>1
    <3> HIDE DEF c, R
    <3>4. G(U)[R] = G(R)[R]
      <4>1. U \in SUBSET S /\ R \in SUBSET S /\ R \in SUBSET (U \cap R)
        BY <1>1, <3>1
      <4> QED BY <2>1, <3>3, <4>1, SumsAgree
    <3> QED BY <2>3, <3>2, <3>4 DEF c, R
  <2> QED BY <2>2, <2>3
<1>2. ASSUME NEW T \in SUBSET S, \A U \in SUBSET T : U # T => Adds(G(U), v, U)
      PROVE  Adds([U \in SUBSET T |-> value(U)], v, T)
  <2> DEFINE f == [U \in SUBSET T |-> value(U)]
  <2>1. ASSUME NEW U \in SUBSET T
        PROVE  f[U] = IF U = {} THEN 0 ELSE v[first(U)] + f[U \ {first(U)}]
    <3>1. CASE U = {}
      BY <3>1
    <3>2. CASE U # {}
      <4> DEFINE c == first(U)
                 R == U \ {c}
      <4>1. c \in U /\ R \in SUBSET T /\ R # T
        BY <3>2
      <4>2. value(R) = G(R)[R]
        BY <1>1, <1>2, <4>1
      <4>3. f[R] = value(R)
        BY <4>1
      <4>4. f[U] = v[c] + G(R)[R]
        BY <3>2
      <4> QED BY <3>2, <4>2, <4>3, <4>4
    <3> QED BY <3>1, <3>2
  <2> QED BY <2>1 DEF Adds
<1>3. bad = {}
  <2>1. SUFFICES ASSUME bad # {} PROVE FALSE
    OBVIOUS
  <2>2. PICK T \in bad : \A U \in bad : U \subseteq T => U = T
    <3>1. bad \subseteq SUBSET S
      OBVIOUS
    <3> HIDE DEF bad
    <3> QED BY <2>1, <3>1, LeastSet
  <2>3. \A U \in SUBSET T : U # T => Adds(G(U), v, U)
    BY <2>2
  <2>4. Adds([U \in SUBSET T |-> value(U)], v, T)
    BY <1>2, <2>2, <2>3
  <2> QED BY <2>2, <2>4
<1>4. PICK g : Adds(g, v, S)
  BY <1>3
<1> DEFINE f == [T \in SUBSET S |-> g[T]]
<1>5. ASSUME NEW T \in SUBSET S
      PROVE  f[T] = IF T = {} THEN 0 ELSE LET c == CHOOSE x \in T : TRUE IN v[c] + f[T \ {c}]
  BY <1>4 DEF Adds
<1>6. f = [T \in SUBSET S |-> IF T = {} THEN 0 ELSE LET c == CHOOSE x \in T : TRUE IN v[c] + f[T \ {c}]]
  BY <1>5
<1> QED BY <1>6 DEF Summed

-----------------------------------------------------------------------------
(* The histogram of the first pass and the inverse colour map of the second. *)

Pixel == [Axes -> Sample]
Cells == {c \in [Axes -> 0..63] : c[1] <= 31 /\ c[3] <= 31}
AnyCell == [Axes -> Nat]
Counts ==
  {h \in UNION {[D -> Nat \ {0}] : D \in SUBSET Cells} : IsFiniteSet(DOMAIN h)}
Cache(m) ==
  {h \in UNION {[D -> Nat] : D \in SUBSET AnyCell} :
     \A c \in DOMAIN h : h[c] # 0 => NearestAt(m, c, h[c])}

LEMMA CountsAre ==
  ASSUME NEW h
  PROVE  h \in Counts <=> /\ h = [c \in DOMAIN h |-> h[c]] /\ DOMAIN h \subseteq Cells
                          /\ IsFiniteSet(DOMAIN h) /\ \A c \in DOMAIN h : h[c] \in Nat \ {0}
<1>1. ASSUME h \in Counts
      PROVE  /\ h = [c \in DOMAIN h |-> h[c]] /\ DOMAIN h \subseteq Cells
             /\ IsFiniteSet(DOMAIN h) /\ \A c \in DOMAIN h : h[c] \in Nat \ {0}
  BY <1>1 DEF Counts
<1>2. ASSUME h = [c \in DOMAIN h |-> h[c]], DOMAIN h \subseteq Cells,
             IsFiniteSet(DOMAIN h), \A c \in DOMAIN h : h[c] \in Nat \ {0}
      PROVE  h \in Counts
  <2>1. h \in [DOMAIN h -> Nat \ {0}]
    BY <1>2
  <2> QED BY <1>2, <2>1 DEF Counts
<1> QED BY <1>1, <1>2

LEMMA CacheIs ==
  ASSUME NEW m, NEW h
  PROVE  h \in Cache(m) <=> /\ h = [c \in DOMAIN h |-> h[c]] /\ DOMAIN h \subseteq AnyCell
                            /\ \A c \in DOMAIN h : h[c] \in Nat /\ (h[c] # 0 => NearestAt(m, c, h[c]))
<1>1. ASSUME h \in Cache(m)
      PROVE  /\ h = [c \in DOMAIN h |-> h[c]] /\ DOMAIN h \subseteq AnyCell
             /\ \A c \in DOMAIN h : h[c] \in Nat /\ (h[c] # 0 => NearestAt(m, c, h[c]))
  BY <1>1 DEF Cache
<1>2. ASSUME h = [c \in DOMAIN h |-> h[c]], DOMAIN h \subseteq AnyCell,
             \A c \in DOMAIN h : h[c] \in Nat /\ (h[c] # 0 => NearestAt(m, c, h[c]))
      PROVE  h \in Cache(m)
  <2>1. h \in [DOMAIN h -> Nat]
    BY <1>2
  <2> QED BY <1>2, <2>1 DEF Cache
<1> QED BY <1>1, <1>2

LEMMA EmptyIs == Empty \in Counts /\ \A m : Empty \in Cache(m)
<1>1. DOMAIN Empty = {} /\ Empty = [c \in DOMAIN Empty |-> Empty[c]]
  BY DEF Empty
<1>2. IsFiniteSet({})
  BY FS_EmptySet
<1> QED BY <1>1, <1>2, CountsAre, CacheIs

(* A pixel's cell is one of the histogram.                                  *)
LEMMA CellIs == ASSUME NEW p \in Pixel PROVE CellOf(p) \in Cells
<1>1. p[1] \in 0..255 /\ p[2] \in 0..255 /\ p[3] \in 0..255
  BY DEF Pixel, Axes, Sample, MAXJSAMPLE
<1>2. p[1] \div 8 \in 0..31 /\ p[2] \div 4 \in 0..63 /\ p[3] \div 8 \in 0..31
  BY <1>1
<1>3. ASSUME NEW a \in Axes PROVE p[a] \div SHIFT[a] \in 0..63
  BY <1>2 DEF Axes, SHIFT
<1>4. CellOf(p) \in [Axes -> 0..63]
  BY <1>3 DEF CellOf
<1>5. CellOf(p)[1] = p[1] \div 8 /\ CellOf(p)[3] = p[3] \div 8
  BY DEF CellOf, Axes, SHIFT
<1> QED BY <1>2, <1>4, <1>5 DEF Cells

LEMMA SomeCell == Cells \subseteq AnyCell
  BY DEF Cells, AnyCell

(* A row of pixels keeps the histogram one, and leaves it with a cell.       *)
LEMMA Prescanned ==
  ASSUME NEW hist \in Counts, NEW row \in Seq(Pixel)
  PROVE  /\ prescan_quantize(hist, row) \in Counts
         /\ row # << >> => DOMAIN prescan_quantize(hist, row) # {}
<1> DEFINE N == Len(row)
           body(h, n) ==
             LET c == CellOf(row[n])
             IN [d \in DOMAIN h \cup {c} |-> IF d = c THEN Counted(CountAt(h, c)) ELSE h[d]]
           count == CHOOSE f : f = [n \in 0..N |-> IF n = 0 THEN hist ELSE body(f[n - 1], n)]
           step == [x \in Counts \X (1..N) |-> body(x[1], x[2])]
<1>1. prescan_quantize(hist, row) = count[N]
  BY DEF prescan_quantize
<1>2. ASSUME NEW h \in Counts, NEW n \in 1..N PROVE body(h, n) \in Counts /\ DOMAIN body(h, n) # {}
  <2> DEFINE c == CellOf(row[n])
             k == body(h, n)
  <2>1. c \in Cells
    <3>1. row[n] \in Pixel
      OBVIOUS
    <3> QED BY <3>1, CellIs
  <2>2. /\ h = [d \in DOMAIN h |-> h[d]] /\ DOMAIN h \subseteq Cells
        /\ IsFiniteSet(DOMAIN h) /\ \A d \in DOMAIN h : h[d] \in Nat \ {0}
    BY CountsAre
  <2> HIDE DEF c
  <2>3. k = [d \in DOMAIN h \cup {c} |-> IF d = c THEN Counted(CountAt(h, c)) ELSE h[d]]
    BY DEF c
  <2>4. IsFiniteSet(DOMAIN h \cup {c})
    BY <2>2, FS_AddElement
  <2>5. Counted(CountAt(h, c)) \in Nat \ {0}
    <3>1. CountAt(h, c) \in Nat
      BY <2>2 DEF CountAt
    <3> QED BY <3>1 DEF Counted
  <2> HIDE DEF k
  <2>6. DOMAIN k = DOMAIN h \cup {c} /\ \A d \in DOMAIN k : k[d] \in Nat \ {0}
    BY <2>2, <2>3, <2>5
  <2>7. k = [d \in DOMAIN k |-> k[d]]
    BY <2>3
  <2>8. k \in Counts
    BY <2>1, <2>2, <2>4, <2>6, <2>7, CountsAre
  <2> QED BY <2>6, <2>8 DEF k
<1>3. N \in Nat
  OBVIOUS
<1> HIDE DEF N, body
<1>4. step \in [Counts \X (1..N) -> Counts]
  <2>1. ASSUME NEW x \in Counts \X (1..N) PROVE body(x[1], x[2]) \in Counts
    <3>1. x[1] \in Counts /\ x[2] \in 1..N
      OBVIOUS
    <3> QED BY <1>2, <3>1
  <2> QED BY <2>1
<1>5. ASSUME NEW h \in Counts, NEW n \in 1..N PROVE step[<<h, n>>] = body(h, n)
  OBVIOUS
<1> HIDE DEF step
<1>6. PICK g : Stepped(g, step, hist, N, Counts)
  BY <1>3, <1>4, Loop, Zenon DEF Stepping
<1>7. g = [n \in 0..N |-> IF n = 0 THEN hist ELSE body(g[n - 1], n)]
  <2>1. ASSUME NEW n \in 1..N PROVE g[n] = body(g[n - 1], n)
    <3>1. g[n - 1] \in Counts
      BY <1>3, <1>6 DEF Stepped
    <3> QED BY <1>5, <1>6, <3>1 DEF Stepped
  <2>2. \A n \in 0..N : n = 0 \/ n \in 1..N
    BY <1>3
  <2> QED BY <1>6, <2>1, <2>2 DEF Stepped
<1>8. count = [n \in 0..N |-> IF n = 0 THEN hist ELSE body(count[n - 1], n)]
  <2> DEFINE runs(f) == f = [n \in 0..N |-> IF n = 0 THEN hist ELSE body(f[n - 1], n)]
  <2>1. runs(g)
    BY <1>7
  <2>2. count = CHOOSE f : runs(f)
    OBVIOUS
  <2> HIDE DEF runs, count
  <2>3. runs(count)
    BY <2>1, <2>2
  <2> QED BY <2>3 DEF runs
<1> HIDE DEF count
<1>9. count[0] = hist /\ \A n \in 1..N : n # 0 /\ count[n] = body(count[n - 1], n)
  BY <1>3, <1>8
<1>10. \A n \in 0..N : count[n] \in Counts
  <2>1. Kept(count, N, Counts)
    BY <1>2, <1>3, <1>9 DEF Kept
  <2> QED BY <1>3, <2>1, LoopStays, Zenon
<1>11. CASE row = << >>
  BY <1>1, <1>3, <1>10, <1>11
<1>12. CASE row # << >>
  <2>1. N \in 1..N /\ N - 1 \in 0..N
    BY <1>12 DEF N
  <2> QED BY <1>1, <1>2, <1>9, <1>10, <2>1
<1> QED BY <1>11, <1>12

(* A pixel that is looked up finds a nearest colour, and the inverse map     *)
(* stays right whichever cells it fills.                                    *)
LEMMA LookedUp ==
  ASSUME NEW m, IsColorMap(m), NEW hist \in Cache(m), NEW p \in Pixel
  PROVE  LET h == Looked(hist, m, p)
         IN h \in Cache(m) /\ CellOf(p) \in DOMAIN h /\ NearestAt(m, CellOf(p), h[CellOf(p)])
<1> DEFINE c == CellOf(p)
           f == fill_inverse_cmap(hist, m, c)
<1>1. c \in AnyCell
  BY CellIs, SomeCell
<1>2. /\ hist = [d \in DOMAIN hist |-> hist[d]] /\ DOMAIN hist \subseteq AnyCell
      /\ \A d \in DOMAIN hist : hist[d] \in Nat /\ (hist[d] # 0 => NearestAt(m, d, hist[d]))
  BY CacheIs
<1>3. CASE CountAt(hist, c) = 0
  <2>1. Looked(hist, m, p) = f
    BY <1>3 DEF Looked
  <2>2. /\ \A d \in DOMAIN f : (d \in DOMAIN hist /\ f[d] = hist[d]) \/ NearestAt(m, d, f[d])
        /\ c \in DOMAIN f /\ NearestAt(m, c, f[c])
        /\ DOMAIN f \subseteq DOMAIN hist \cup AnyCell
    <3> HIDE DEF c
    <3> QED BY <1>1, Filled DEF AnyCell
  <2>3. f = [d \in DOMAIN f |-> f[d]]
    BY DEF fill_inverse_cmap
  <2> HIDE DEF f, c
  <2>4. ASSUME NEW d \in DOMAIN f PROVE f[d] \in Nat /\ (f[d] # 0 => NearestAt(m, d, f[d]))
    <3>1. CASE NearestAt(m, d, f[d])
      BY <3>1 DEF NearestAt, IsColorMap
    <3>2. CASE d \in DOMAIN hist /\ f[d] = hist[d]
      BY <1>2, <3>2
    <3> QED BY <2>2, <3>1, <3>2
  <2>5. f \in Cache(m)
    <3>1. DOMAIN f \subseteq AnyCell
      BY <1>2, <2>2
    <3> QED BY <2>3, <2>4, <3>1, CacheIs
  <2> QED BY <2>1, <2>2, <2>5 DEF c
<1>4. CASE CountAt(hist, c) # 0
  <2>1. Looked(hist, m, p) = hist
    BY <1>4 DEF Looked
  <2> HIDE DEF c
  <2>2. c \in DOMAIN hist /\ hist[c] # 0
    BY <1>4 DEF CountAt
  <2> QED BY <1>2, <2>1, <2>2 DEF c
<1> QED BY <1>3, <1>4

(* A row without dithering leaves the inverse map right.                     *)
LEMMA MappedPlain ==
  ASSUME NEW q, IsColorMap(q.colormap), q.histogram \in Cache(q.colormap), "histogram" \in DOMAIN q,
         NEW row \in Seq(Pixel)
  PROVE  pass2_no_dither(q, row).q = [q EXCEPT !.histogram = pass2_no_dither(q, row).q.histogram]
         /\ pass2_no_dither(q, row).q.histogram \in Cache(q.colormap)
<1> DEFINE N == Len(row)
           m == q.colormap
           hist == q.histogram
           body(h, n) == Looked(h, m, row[n])
           seen == CHOOSE f : f = [n \in 0..N |-> IF n = 0 THEN hist ELSE body(f[n - 1], n)]
           step == [x \in Cache(m) \X (1..N) |-> body(x[1], x[2])]
<1>1. pass2_no_dither(q, row).q = [q EXCEPT !.histogram = seen[N]]
  BY DEF pass2_no_dither
<1>2. ASSUME NEW h \in Cache(m), NEW n \in 1..N PROVE body(h, n) \in Cache(m)
  <2>1. row[n] \in Pixel
    OBVIOUS
  <2> HIDE DEF m
  <2> QED BY <2>1, LookedUp DEF m
<1>3. N \in Nat /\ hist \in Cache(m)
  OBVIOUS
<1> HIDE DEF N, body, m, hist
<1>4. step \in [Cache(m) \X (1..N) -> Cache(m)]
  <2>1. ASSUME NEW x \in Cache(m) \X (1..N) PROVE body(x[1], x[2]) \in Cache(m)
    <3>1. x[1] \in Cache(m) /\ x[2] \in 1..N
      OBVIOUS
    <3> QED BY <1>2, <3>1
  <2> QED BY <2>1
<1>5. ASSUME NEW h \in Cache(m), NEW n \in 1..N PROVE step[<<h, n>>] = body(h, n)
  OBVIOUS
<1> HIDE DEF step
<1>6. PICK g : Stepped(g, step, hist, N, Cache(m))
  BY <1>3, <1>4, Loop, Zenon DEF Stepping
<1>7. g = [n \in 0..N |-> IF n = 0 THEN hist ELSE body(g[n - 1], n)]
  <2>1. ASSUME NEW n \in 1..N PROVE g[n] = body(g[n - 1], n)
    <3>1. g[n - 1] \in Cache(m)
      BY <1>3, <1>6 DEF Stepped
    <3> QED BY <1>5, <1>6, <3>1 DEF Stepped
  <2>2. \A n \in 0..N : n = 0 \/ n \in 1..N
    BY <1>3
  <2> QED BY <1>6, <2>1, <2>2 DEF Stepped
<1>8. seen = [n \in 0..N |-> IF n = 0 THEN hist ELSE body(seen[n - 1], n)]
  <2> DEFINE runs(f) == f = [n \in 0..N |-> IF n = 0 THEN hist ELSE body(f[n - 1], n)]
  <2>1. runs(g)
    BY <1>7
  <2>2. seen = CHOOSE f : runs(f)
    OBVIOUS
  <2> HIDE DEF runs, seen
  <2>3. runs(seen)
    BY <2>1, <2>2
  <2> QED BY <2>3 DEF runs
<1> HIDE DEF seen
<1>9. seen[0] = hist /\ \A n \in 1..N : n # 0 /\ seen[n] = body(seen[n - 1], n)
  BY <1>3, <1>8
<1>10. \A n \in 0..N : seen[n] \in Cache(m)
  <2>1. Kept(seen, N, Cache(m))
    BY <1>2, <1>3, <1>9 DEF Kept
  <2> QED BY <1>3, <2>1, LoopStays, Zenon
<1>11. seen[N] \in Cache(m)
  BY <1>3, <1>10
<1> QED BY <1>1, <1>11 DEF m

(* The limit on errors, and the value a pixel is quantised for.              *)
LEMMA ErrorLimited == ASSUME NEW x \in Int PROVE init_error_limit(x) \in -32..32
<1> DEFINE in == IF x < 0 THEN -x ELSE x
           out == IF in < 16 THEN in ELSE IF in < 48 THEN 16 + (in - 16) \div 2 ELSE 32
<1>1. init_error_limit(x) = IF x < 0 THEN -out ELSE out
  BY DEF init_error_limit, STEPSIZE
<1>2. in \in Nat
  OBVIOUS
<1> HIDE DEF in
<1>3. out \in 0..32
  <2>1. CASE in \in 16..47
    BY <2>1
  <2> QED BY <1>2, <2>1
<1> HIDE DEF out
<1> QED BY <1>1, <1>3

LEMMA FsValueIs ==
  ASSUME NEW cur \in Int, NEW err \in Int, NEW s \in Sample
  PROVE  FsValue(cur, err, init_error_limit, s) \in Sample
<1> DEFINE e == (cur + err + 8) \div 16
           l == init_error_limit(e)
<1>1. e \in Int
  OBVIOUS
<1> HIDE DEF e
<1>2. l \in -32..32
  BY <1>1, ErrorLimited
<1> HIDE DEF l
<1>3. l + s \in Int /\ -512 <= l + s /\ l + s <= 767
  BY <1>2 DEF Sample, MAXJSAMPLE
<1>4. range_limit(l + s) \in Sample
  BY <1>3, RangeLimited
<1> QED BY <1>4 DEF FsValue, l, e

(* What the dithering of a row carries from pixel to pixel.                  *)
Spread == [cur : Int, bprev : Int, below : Int]
Errors(N) == [Axes -> [0..N + 1 -> Int]]
FsStates(m, N) == [d : [Axes -> Spread], hist : Cache(m), err : Errors(N), out : [1..N -> Int]]
FsAt(odd, N, n) == (IF odd THEN N + 1 ELSE 0) + n * (IF odd THEN -1 ELSE 1)
FsColumn(odd, N, n) == IF odd THEN N - n ELSE n + 1
FsStep(m, odd, row, s, n) ==
  LET N == Len(row)
      v == [a \in Axes |-> FsValue(s.d[a].cur, s.err[a][FsAt(odd, N, n) + (IF odd THEN -1 ELSE 1)],
                                   init_error_limit, row[FsColumn(odd, N, n)][a])]
      hist == Looked(s.hist, m, v)
      code == hist[CellOf(v)] - 1
      e == [a \in Axes |-> v[a] - m[code + 1][a]]
  IN [d |-> [a \in Axes |-> FsSpread(s.d[a], e[a])], hist |-> hist,
      err |-> [a \in Axes |-> [s.err[a] EXCEPT ![FsAt(odd, N, n)] = s.d[a].bprev + 3 * e[a]]],
      out |-> [s.out EXCEPT ![FsColumn(odd, N, n)] = code]]

LEMMA FsPlaces ==
  ASSUME NEW N \in Nat, NEW odd \in BOOLEAN, NEW n \in 1..N
  PROVE  /\ FsColumn(odd, N, n - 1) \in 1..N
         /\ FsAt(odd, N, n - 1) \in 0..N + 1
         /\ FsAt(odd, N, n - 1) + (IF odd THEN -1 ELSE 1) \in 0..N + 1
         /\ FsAt(odd, N, N) \in 0..N + 1
<1>1. CASE odd
  BY <1>1 DEF FsColumn, FsAt
<1>2. CASE ~odd
  BY <1>2 DEF FsColumn, FsAt
<1> QED BY <1>1, <1>2

LEMMA FsStays ==
  ASSUME NEW m, IsColorMap(m), NEW odd \in BOOLEAN, NEW row \in Seq(Pixel),
         NEW s \in FsStates(m, Len(row)), NEW n \in 1..Len(row)
  PROVE  FsStep(m, odd, row, s, n - 1) \in FsStates(m, Len(row))
<1> DEFINE N == Len(row)
           at == FsAt(odd, N, n - 1)
           next == at + (IF odd THEN -1 ELSE 1)
           col == FsColumn(odd, N, n - 1)
           v == [a \in Axes |-> FsValue(s.d[a].cur, s.err[a][next], init_error_limit, row[col][a])]
           hist == Looked(s.hist, m, v)
           code == hist[CellOf(v)] - 1
           e == [a \in Axes |-> v[a] - m[code + 1][a]]
           d2 == [a \in Axes |-> FsSpread(s.d[a], e[a])]
           err2 == [a \in Axes |-> [s.err[a] EXCEPT ![at] = s.d[a].bprev + 3 * e[a]]]
           out2 == [s.out EXCEPT ![col] = code]
<1>1. FsStep(m, odd, row, s, n - 1) = [d |-> d2, hist |-> hist, err |-> err2, out |-> out2]
  BY DEF FsStep
<1>2. N \in Nat /\ at \in 0..N + 1 /\ next \in 0..N + 1 /\ col \in 1..N
  BY FsPlaces
<1>3. s.d \in [Axes -> Spread] /\ s.hist \in Cache(m) /\ s.err \in Errors(N) /\ s.out \in [1..N -> Int]
  BY DEF FsStates
<1>4. row[col] \in Pixel
  BY <1>2
<1> HIDE DEF N, at, next, col
<1>5. ASSUME NEW a \in Axes
      PROVE  s.d[a] \in Spread /\ s.d[a].cur \in Int /\ s.d[a].bprev \in Int /\ s.d[a].below \in Int
             /\ s.err[a] \in [0..N + 1 -> Int] /\ s.err[a][next] \in Int /\ row[col][a] \in Sample
  BY <1>2, <1>3, <1>4 DEF Spread, Errors, Pixel
<1>6. v \in Pixel
  <2>1. ASSUME NEW a \in Axes PROVE FsValue(s.d[a].cur, s.err[a][next], init_error_limit, row[col][a]) \in Sample
    BY <1>5, FsValueIs
  <2> QED BY <2>1 DEF Pixel
<1> HIDE DEF v
<1>7. hist \in Cache(m) /\ CellOf(v) \in DOMAIN hist /\ NearestAt(m, CellOf(v), hist[CellOf(v)])
  BY <1>3, <1>6, LookedUp
<1> HIDE DEF hist
<1>8. hist[CellOf(v)] \in DOMAIN m /\ hist[CellOf(v)] \in Int
  BY <1>7 DEF NearestAt, IsColorMap
<1>9. code \in Int /\ code + 1 \in DOMAIN m
  BY <1>8
<1> HIDE DEF code
<1>10. ASSUME NEW a \in Axes PROVE e[a] \in Int
  <2>1. m[code + 1][a] \in Int
    BY <1>9 DEF IsColorMap
  <2>2. v[a] \in Int
    <3>1. v[a] \in Sample
      BY <1>6 DEF Pixel
    <3>2. \A x \in Sample : x \in Int
      BY DEF Sample, MAXJSAMPLE
    <3> QED BY <3>1, <3>2
  <2> QED BY <2>1, <2>2
<1> HIDE DEF e
<1> HIDE DEF e
<1>11. d2 \in [Axes -> Spread]
  <2>1. ASSUME NEW a \in Axes PROVE FsSpread(s.d[a], e[a]) \in Spread
    BY <1>5, <1>10 DEF FsSpread, Spread
  <2> QED BY <2>1
<1>12. err2 \in Errors(N)
  <2>1. ASSUME NEW a \in Axes PROVE [s.err[a] EXCEPT ![at] = s.d[a].bprev + 3 * e[a]] \in [0..N + 1 -> Int]
    <3>1. s.d[a].bprev + 3 * e[a] \in Int /\ s.err[a] \in [0..N + 1 -> Int]
      BY <1>5, <1>10
    <3> QED BY <3>1
  <2> QED BY <2>1 DEF Errors
<1>13. out2 \in [1..N -> Int]
  BY <1>3, <1>9
<1> HIDE DEF d2, err2, out2
<1> QED BY <1>1, <1>7, <1>11, <1>12, <1>13 DEF FsStates, N

(* A dithered row leaves the inverse map right, and errors for the next row.  *)
LEMMA MappedDithered ==
  ASSUME NEW q, IsColorMap(q.colormap), q.histogram \in Cache(q.colormap), q.on_odd_row \in BOOLEAN,
         NEW row \in Seq(Pixel), row # << >>, q.fserrors \in Errors(Len(row))
  PROVE  \E h \in Cache(q.colormap), e \in Errors(Len(row)) :
           pass2_fs_dither(q, row).q = [q EXCEPT !.histogram = h, !.on_odd_row = ~@, !.fserrors = e]
<1> DEFINE N == Len(row)
           m == q.colormap
           odd == q.on_odd_row
           S == FsStates(m, N)
           start == [d |-> [a \in Axes |-> FsRest], hist |-> q.histogram, err |-> q.fserrors,
                     out |-> [x \in 1..N |-> 0]]
           body(s, n) == FsStep(m, odd, row, s, n - 1)
           run == CHOOSE f : f = [n \in 0..N |-> IF n = 0 THEN start ELSE body(f[n - 1], n)]
           step == [x \in S \X (1..N) |-> body(x[1], x[2])]
           last == run[N]
           errors == [a \in Axes |-> [last.err[a] EXCEPT ![FsAt(odd, N, N)] = last.d[a].bprev]]
<1>1. pass2_fs_dither(q, row).q = [q EXCEPT !.histogram = last.hist, !.on_odd_row = ~@, !.fserrors = errors]
  BY DEF pass2_fs_dither, FsStep, FsAt, FsColumn
<1>2. ASSUME NEW s \in S, NEW n \in 1..N PROVE body(s, n) \in S
  BY FsStays
<1>3. N \in Nat /\ N \in 1..N /\ m = q.colormap
  OBVIOUS
<1>4. start \in S
  <2>1. FsRest \in Spread
    BY DEF FsRest, Spread
  <2>2. [x \in 1..N |-> 0] \in [1..N -> Int]
    OBVIOUS
  <2>3. [a \in Axes |-> FsRest] \in [Axes -> Spread]
    BY <2>1
  <2> QED BY <2>2, <2>3 DEF FsStates
<1> HIDE DEF N, body, m, S, start
<1>5. step \in [S \X (1..N) -> S]
  <2>1. ASSUME NEW x \in S \X (1..N) PROVE body(x[1], x[2]) \in S
    <3>1. x[1] \in S /\ x[2] \in 1..N
      OBVIOUS
    <3> QED BY <1>2, <3>1
  <2> QED BY <2>1
<1>6. ASSUME NEW s \in S, NEW n \in 1..N PROVE step[<<s, n>>] = body(s, n)
  OBVIOUS
<1> HIDE DEF step
<1>7. PICK g : Stepped(g, step, start, N, S)
  BY <1>3, <1>4, <1>5, Loop, Zenon DEF Stepping
<1>8. g = [n \in 0..N |-> IF n = 0 THEN start ELSE body(g[n - 1], n)]
  <2>1. ASSUME NEW n \in 1..N PROVE g[n] = body(g[n - 1], n)
    <3>1. g[n - 1] \in S
      BY <1>3, <1>7 DEF Stepped
    <3> QED BY <1>6, <1>7, <3>1 DEF Stepped
  <2>2. \A n \in 0..N : n = 0 \/ n \in 1..N
    BY <1>3
  <2> QED BY <1>7, <2>1, <2>2 DEF Stepped
<1>9. run = [n \in 0..N |-> IF n = 0 THEN start ELSE body(run[n - 1], n)]
  <2> DEFINE runs(f) == f = [n \in 0..N |-> IF n = 0 THEN start ELSE body(f[n - 1], n)]
  <2>1. runs(g)
    BY <1>8
  <2>2. run = CHOOSE f : runs(f)
    OBVIOUS
  <2> HIDE DEF runs, run
  <2>3. runs(run)
    BY <2>1, <2>2
  <2> QED BY <2>3 DEF runs
<1> HIDE DEF run
<1>10. run[0] = start /\ \A n \in 1..N : n # 0 /\ run[n] = body(run[n - 1], n)
  BY <1>3, <1>9
<1>11. \A n \in 0..N : run[n] \in S
  <2>1. Kept(run, N, S)
    BY <1>2, <1>4, <1>10 DEF Kept
  <2> QED BY <1>3, <2>1, LoopStays, Zenon
<1>12. last \in S
  BY <1>3, <1>11
<1> HIDE DEF last
<1>13. last.hist \in Cache(m) /\ last.err \in Errors(N) /\ last.d \in [Axes -> Spread]
  BY <1>12 DEF S, FsStates
<1>14. errors \in Errors(N)
  <2>1. ASSUME NEW a \in Axes
        PROVE  [last.err[a] EXCEPT ![FsAt(odd, N, N)] = last.d[a].bprev] \in [0..N + 1 -> Int]
    BY <1>13 DEF Errors, Spread
  <2> QED BY <2>1 DEF Errors
<1> HIDE DEF errors
<1> QED BY <1>1, <1>13, <1>14 DEF m, N

-----------------------------------------------------------------------------
(* The median cut: every box has a colour, and so has the map that is made. *)

LEMMA Most ==
  ASSUME NEW S \in SUBSET Nat, S # {}, NEW N \in Nat, \A n \in S : n <= N
  PROVE  MostIn(S) \in S /\ \A n \in S : n <= MostIn(S)
<1> DEFINE D == {N - n : n \in S}
<1>1. D \in SUBSET Nat /\ D # {}
  <2>1. ASSUME NEW n \in S PROVE N - n \in Nat
    OBVIOUS
  <2> QED BY <2>1
<1>2. PICK d \in D : \A e \in D : d <= e
  BY <1>1, Least
<1>3. PICK m \in S : d = N - m
  OBVIOUS
<1>4. ASSUME NEW n \in S PROVE n <= m
  <2>1. d <= N - n
    BY <1>2
  <2> QED BY <1>3, <2>1
<1> QED BY <1>4 DEF MostIn

(* The first of the largest values is one of the candidates.                *)
LEMMA FirstOf ==
  ASSUME NEW n \in Nat, NEW C \in SUBSET (1..n), C # {}, NEW v, \A i \in C : v[i] \in Nat
  PROVE  \E i \in C : \A j \in C : v[j] < v[i] \/ (v[j] = v[i] /\ i <= j)
<1> DEFINE before(i, j) == v[j] < v[i] \/ (v[j] = v[i] /\ i <= j)
           first(i, k) == i <= k /\ \A j \in C : j <= k => before(i, j)
           some(k) == \E i \in C : i <= k
           bad == {k \in 0..n : some(k) /\ ~\E i \in C : first(i, k)}
<1>1. bad = {}
  <2>1. SUFFICES ASSUME bad # {} PROVE FALSE
    OBVIOUS
  <2>2. bad \in SUBSET Nat
    OBVIOUS
  <2>3. PICK k \in bad : \A l \in bad : k <= l
    <3> HIDE DEF bad
    <3> QED BY <2>1, <2>2, Least
  <2>4. k \in 0..n /\ some(k) /\ ~\E i \in C : first(i, k)
    BY <2>3
  <2>5. k \in 1..n
    BY <2>4
  <2>6. some(k - 1) => \E i \in C : first(i, k - 1)
    <3>1. k - 1 \in 0..n /\ ~(k <= k - 1)
      BY <2>5
    <3>2. k - 1 \notin bad
      <4> HIDE DEF bad
      <4> QED BY <2>3, <3>1
    <3> HIDE DEF some, first
    <3> QED BY <3>1, <3>2
  <2>7. CASE ~some(k - 1)
    <3>1. \A j \in C : j <= k => j = k
      <4>1. ASSUME NEW j \in C, j <= k PROVE j = k
        <5>1. ~(j <= k - 1) /\ j \in Int /\ k \in Int
          BY <2>4, <2>7
        <5> QED BY <4>1, <5>1
      <4> QED BY <4>1
    <3> HIDE DEF before
    <3>3. k \in C
      BY <2>4, <3>1
    <3> USE DEF before
    <3>2. first(k, k)
      BY <2>5, <3>1
    <3> QED BY <2>4, <3>2, <3>3
  <2>8. CASE some(k - 1)
    <3>1. PICK i \in C : first(i, k - 1)
      BY <2>6, <2>8
    <3>2. CASE k \in C /\ v[i] < v[k]
      <4>1. ASSUME NEW j \in C, j <= k PROVE before(k, j)
        <5>1. CASE j = k
          BY <3>2, <5>1
        <5>2. CASE j # k
          <6>1. j <= k - 1
            BY <2>5, <4>1, <5>2
          <6>2. before(i, j)
            BY <3>1, <6>1
          <6>3. v[j] \in Nat /\ v[i] \in Nat /\ v[k] \in Nat
            BY <3>2
          <6> QED BY <3>2, <6>2, <6>3
        <5> QED BY <5>1, <5>2
      <4>2. first(k, k)
        BY <2>5, <4>1
      <4> QED BY <2>4, <3>2, <4>2
    <3>3. CASE ~(k \in C /\ v[i] < v[k])
      <4>1. ASSUME NEW j \in C, j <= k PROVE before(i, j)
        <5>1. CASE j = k
          <6>1. v[j] \in Nat /\ v[i] \in Nat /\ i <= j
            BY <2>5, <3>1, <5>1
          <6> QED BY <3>3, <5>1, <6>1
        <5>2. CASE j # k
          <6>1. j <= k - 1
            BY <2>5, <4>1, <5>2
          <6> QED BY <3>1, <6>1
        <5> QED BY <5>1, <5>2
      <4>2. first(i, k)
        BY <2>5, <3>1, <4>1
      <4> QED BY <2>4, <4>2
    <3> QED BY <3>2, <3>3
  <2> QED BY <2>7, <2>8
<1>2. n \in 0..n /\ some(n) /\ n \notin bad
  <2>1. n \notin bad
    <3> HIDE DEF bad
    <3> QED BY <1>1
  <2>2. \A i \in C : i \in 1..n
    OBVIOUS
  <2>3. some(n)
    <3>1. PICK i \in C : TRUE
      OBVIOUS
    <3> QED BY <2>2, <3>1
  <2>4. n \in 0..n
    OBVIOUS
  <2> HIDE DEF bad, some
  <2> QED BY <2>1, <2>3, <2>4
<1>3. PICK i \in C : first(i, n)
  BY <1>2
<1> QED BY <1>3

Boxes == [min : [Axes -> Nat], max : [Axes -> Nat], colorcount : Nat, volume : Nat]
Side(b, a) == (b.max[a] - b.min[a]) * SHIFT[a] * SCALE[a]
Tight(hist, b) ==
  /\ Inside(hist, b) # {}
  /\ \A a \in Axes : (\E c \in Inside(hist, b) : c[a] = b.min[a]) /\ (\E c \in Inside(hist, b) : c[a] = b.max[a])
  /\ b.volume = Square(Side(b, 1)) + Square(Side(b, 2)) + Square(Side(b, 3))

LEMMA InsideIs ==
  ASSUME NEW hist \in Counts, NEW b
  PROVE  /\ Inside(hist, b) \subseteq Cells /\ IsFiniteSet(Inside(hist, b))
         /\ \A c \in Inside(hist, b) : hist[c] \in Nat \ {0} /\ \A a \in Axes : c[a] \in 0..63
<1>1. Inside(hist, b) \subseteq DOMAIN hist
  BY DEF Inside
<1> QED BY <1>1, CountsAre, FS_Subset DEF Cells

(* A box that holds a colour shrinks to its colours.                         *)
LEMMA Shrunk ==
  ASSUME NEW hist \in Counts, NEW box, Inside(hist, box) # {}
  PROVE  update_box(hist, box) \in Boxes /\ Tight(hist, update_box(hist, box))
<1> DEFINE cells == Inside(hist, box)
           at(a) == {c[a] : c \in cells}
           low == [a \in Axes |-> LeastIn(at(a))]
           high == [a \in Axes |-> MostIn(at(a))]
           dist(a) == (high[a] - low[a]) * SHIFT[a] * SCALE[a]
           vol == Square(dist(1)) + Square(dist(2)) + Square(dist(3))
           new == update_box(hist, box)
<1>1. new = [min |-> low, max |-> high, colorcount |-> Cardinality(cells), volume |-> vol]
  BY DEF update_box
<1>2. cells # {} /\ IsFiniteSet(cells) /\ \A c \in cells : \A a \in Axes : c[a] \in 0..63
  BY InsideIs
<1>3. \A c \in cells : c \in DOMAIN hist
  BY DEF Inside
<1> HIDE DEF cells
<1>4. ASSUME NEW a \in Axes
      PROVE  /\ low[a] \in at(a) /\ \A x \in at(a) : low[a] <= x
             /\ high[a] \in at(a) /\ \A x \in at(a) : x <= high[a]
             /\ low[a] \in Nat /\ high[a] \in Nat
  <2> DEFINE A == at(a)
  <2>1. A \in SUBSET Nat /\ A # {} /\ \A x \in A : x <= 63
    BY <1>2
  <2>2. low[a] = LeastIn(A) /\ high[a] = MostIn(A)
    OBVIOUS
  <2> HIDE DEF A, low, high
  <2>3. LeastIn(A) \in A /\ \A x \in A : LeastIn(A) <= x
    BY <2>1, Least
  <2>4. MostIn(A) \in A /\ \A x \in A : x <= MostIn(A)
    BY <2>1, Most
  <2>5. low[a] \in Nat /\ high[a] \in Nat
    BY <2>1, <2>2, <2>3, <2>4
  <2> QED BY <2>2, <2>3, <2>4, <2>5 DEF A
<1>5. low \in [Axes -> Nat] /\ high \in [Axes -> Nat]
  BY <1>4
<1>6. Cardinality(cells) \in Nat
  BY <1>2, FS_CardinalityType
<1> HIDE DEF low, high
<1>7. vol \in Nat
  <2>1. dist(1) \in Int /\ dist(2) \in Int /\ dist(3) \in Int
    BY <1>4 DEF Axes, SHIFT, SCALE
  <2> HIDE DEF dist
  <2>2. \A x \in Int : Square(x) \in Nat
    BY SquareGrows
  <2> QED BY <2>1, <2>2
<1>8. new \in Boxes
  BY <1>1, <1>5, <1>6, <1>7 DEF Boxes
<1>9. new.min = low /\ new.max = high /\ new.volume = vol
  BY <1>1
<1> HIDE DEF new
<1>10. cells \subseteq Inside(hist, new)
  <2>1. ASSUME NEW c \in cells, NEW a \in Axes PROVE c[a] >= new.min[a] /\ c[a] <= new.max[a]
    BY <1>2, <1>4, <1>9
  <2> QED BY <1>3, <2>1 DEF Inside
<1>11. ASSUME NEW a \in Axes
       PROVE  (\E c \in Inside(hist, new) : c[a] = new.min[a]) /\ (\E c \in Inside(hist, new) : c[a] = new.max[a])
  BY <1>4, <1>9, <1>10
<1>12. vol = Square(Side(new, 1)) + Square(Side(new, 2)) + Square(Side(new, 3))
  BY <1>9 DEF Side
<1> QED BY <1>2, <1>8, <1>9, <1>10, <1>11, <1>12 DEF Tight, new

(* The axis that is cut is one along which the box is longer than a cell.     *)
LEMMA AxisIsLong ==
  ASSUME NEW hist \in Counts, NEW b \in Boxes, Tight(hist, b), b.volume > 0
  PROVE  LET a == LongestAxis(b) IN a \in Axes /\ b.max[a] > b.min[a]
<1> DEFINE len(a) == (b.max[a] - b.min[a]) * SHIFT[a] * SCALE[a]
           n == IF len(1) > len(2) THEN 1 ELSE 2
           a == IF len(3) > len(n) THEN 3 ELSE n
           x == b.max[1] - b.min[1]
           y == b.max[2] - b.min[2]
           z == b.max[3] - b.min[3]
<1>1. LongestAxis(b) = a
  BY DEF LongestAxis
<1>2. b.min \in [Axes -> Nat] /\ b.max \in [Axes -> Nat]
  BY DEF Boxes
<1>3. ASSUME NEW i \in Axes PROVE b.min[i] \in Nat /\ b.max[i] \in Nat /\ b.min[i] <= b.max[i]
  <2>1. PICK c \in Inside(hist, b) : c[i] = b.max[i]
    BY DEF Tight
  <2> QED BY <1>2, <2>1 DEF Inside
<1>4. x \in Nat /\ y \in Nat /\ z \in Nat
  BY <1>3 DEF Axes
<1>5. len(1) = x * 16 /\ len(2) = y * 12 /\ len(3) = z * 8
  BY <1>4 DEF SHIFT, SCALE
<1>6. b.volume = Square(len(1)) + Square(len(2)) + Square(len(3))
  BY DEF Tight, Side
<1> HIDE DEF x, y, z, len
<1>7. x > 0 \/ y > 0 \/ z > 0
  <2>1. SUFFICES ASSUME x = 0, y = 0, z = 0 PROVE FALSE
    BY <1>4
  <2>2. len(1) = 0 /\ len(2) = 0 /\ len(3) = 0
    BY <1>5, <2>1
  <2> QED BY <1>6, <2>2 DEF Square
<1>8. CASE len(1) > len(2)
  <2>1. n = 1
    BY <1>8
  <2>2. CASE len(3) > len(1)
    <3>1. a = 3 /\ z > 0
      BY <1>4, <1>5, <2>1, <2>2
    <3> QED BY <1>1, <1>3, <3>1 DEF z, Axes
  <2>3. CASE ~(len(3) > len(1))
    <3>1. a = 1 /\ x > 0
      BY <1>4, <1>5, <1>8, <2>1, <2>3
    <3> QED BY <1>1, <1>3, <3>1 DEF x, Axes
  <2> QED BY <2>2, <2>3
<1>9. CASE ~(len(1) > len(2))
  <2>1. n = 2
    BY <1>9
  <2>2. CASE len(3) > len(2)
    <3>1. a = 3 /\ z > 0
      BY <1>4, <1>5, <2>1, <2>2
    <3> QED BY <1>1, <1>3, <3>1 DEF z, Axes
  <2>3. CASE ~(len(3) > len(2))
    <3>1. a = 2 /\ y > 0
      BY <1>4, <1>5, <1>7, <1>9, <2>1, <2>3
    <3> QED BY <1>1, <1>3, <3>1 DEF y, Axes
  <2> QED BY <2>2, <2>3
<1> QED BY <1>8, <1>9

(* Both halves of such a box hold a colour.                                  *)
LEMMA BothHalves ==
  ASSUME NEW hist \in Counts, NEW b \in Boxes, Tight(hist, b), NEW a \in Axes, b.max[a] > b.min[a]
  PROVE  LET lb == (b.max[a] + b.min[a]) \div 2
         IN /\ Inside(hist, [b EXCEPT !.max[a] = lb]) # {}
            /\ Inside(hist, [b EXCEPT !.min[a] = lb + 1]) # {}
<1> DEFINE lb == (b.max[a] + b.min[a]) \div 2
           left == [b EXCEPT !.max[a] = lb]
           right == [b EXCEPT !.min[a] = lb + 1]
<1>1. b.min \in [Axes -> Nat] /\ b.max \in [Axes -> Nat]
  BY DEF Boxes
<1>2. lb \in Nat /\ b.min[a] <= lb /\ lb + 1 <= b.max[a]
  <2>1. b.min[a] \in Nat /\ b.max[a] \in Nat
    BY <1>1
  <2> QED BY <2>1
<1> HIDE DEF lb
<1>3. left.min = b.min /\ left.max = [b.max EXCEPT ![a] = lb]
  BY DEF Boxes
<1>4. right.max = b.max /\ right.min = [b.min EXCEPT ![a] = lb + 1]
  BY DEF Boxes
<1> HIDE DEF left, right
<1>5. \A c \in Inside(hist, b) : \A i \in Axes : c[i] \in Nat
  BY InsideIs
<1>6. PICK c \in Inside(hist, b) : c[a] = b.min[a]
  BY DEF Tight
<1>7. c \in Inside(hist, left)
  <2>1. ASSUME NEW i \in Axes PROVE c[i] >= left.min[i] /\ c[i] <= left.max[i]
    <3>1. CASE i = a
      BY <1>1, <1>2, <1>3, <1>6, <3>1
    <3>2. CASE i # a
      BY <1>1, <1>3, <3>2 DEF Inside
    <3> QED BY <3>1, <3>2
  <2> QED BY <2>1 DEF Inside
<1>8. PICK d \in Inside(hist, b) : d[a] = b.max[a]
  BY DEF Tight
<1>9. d \in Inside(hist, right)
  <2>1. ASSUME NEW i \in Axes PROVE d[i] >= right.min[i] /\ d[i] <= right.max[i]
    <3>1. CASE i = a
      BY <1>1, <1>2, <1>4, <1>8, <3>1
    <3>2. CASE i # a
      BY <1>1, <1>4, <3>2 DEF Inside
    <3> QED BY <3>1, <3>2
  <2> QED BY <2>1 DEF Inside
<1> QED BY <1>7, <1>9 DEF left, right, lb

(* The box that is chosen to be cut is one of the boxes, and can be cut.       *)
LEMMA Chosen ==
  ASSUME NEW boxes \in Seq(Boxes)
  PROVE  \A b \in {find_biggest_color_pop(boxes), find_biggest_volume(boxes)} :
           b = 0 \/ (b \in DOMAIN boxes /\ boxes[b].volume > 0)
<1> DEFINE n == Len(boxes)
           pop == {i \in DOMAIN boxes : boxes[i].volume > 0 /\ boxes[i].colorcount > 0}
           vol == {i \in DOMAIN boxes : boxes[i].volume > 0}
<1>1. n \in Nat /\ DOMAIN boxes = 1..n /\ \A i \in DOMAIN boxes : boxes[i] \in Boxes
  OBVIOUS
<1>2. pop \in SUBSET (1..n) /\ vol \in SUBSET (1..n)
  BY <1>1
<1>3. \A i \in pop \cup vol : /\ i \in DOMAIN boxes /\ boxes[i].volume > 0
                              /\ boxes[i].colorcount \in Nat /\ boxes[i].volume \in Nat
  BY <1>1 DEF Boxes
<1> HIDE DEF n, pop, vol
<1>4. find_biggest_color_pop(boxes) = 0 \/ find_biggest_color_pop(boxes) \in pop
  <2> DEFINE v == [i \in pop |-> boxes[i].colorcount]
             best(i) == \A j \in pop : boxes[j].colorcount < boxes[i].colorcount
                                       \/ (boxes[j].colorcount = boxes[i].colorcount /\ i <= j)
  <2>1. find_biggest_color_pop(boxes) = IF pop = {} THEN 0 ELSE CHOOSE i \in pop : best(i)
    BY DEF find_biggest_color_pop, FirstMost, pop
  <2>2. \A i \in pop : v[i] = boxes[i].colorcount /\ v[i] \in Nat
    BY <1>3
  <2> HIDE DEF v
  <2>3. ASSUME pop # {} PROVE \E i \in pop : best(i)
    <3>1. PICK i \in pop : \A j \in pop : v[j] < v[i] \/ (v[j] = v[i] /\ i <= j)
      BY <1>1, <1>2, <2>2, <2>3, FirstOf
    <3> QED BY <2>2, <3>1
  <2> HIDE DEF best
  <2> QED BY <2>1, <2>3
<1>5. find_biggest_volume(boxes) = 0 \/ find_biggest_volume(boxes) \in vol
  <2> DEFINE v == [i \in vol |-> boxes[i].volume]
             best(i) == \A j \in vol : boxes[j].volume < boxes[i].volume
                                       \/ (boxes[j].volume = boxes[i].volume /\ i <= j)
  <2>1. find_biggest_volume(boxes) = IF vol = {} THEN 0 ELSE CHOOSE i \in vol : best(i)
    BY DEF find_biggest_volume, FirstMost, vol
  <2>2. \A i \in vol : v[i] = boxes[i].volume /\ v[i] \in Nat
    BY <1>3
  <2> HIDE DEF v
  <2>3. ASSUME vol # {} PROVE \E i \in vol : best(i)
    <3>1. PICK i \in vol : \A j \in vol : v[j] < v[i] \/ (v[j] = v[i] /\ i <= j)
      BY <1>1, <1>2, <2>2, <2>3, FirstOf
    <3> QED BY <2>2, <3>1
  <2> HIDE DEF best
  <2> QED BY <2>1, <2>3
<1> QED BY <1>3, <1>4, <1>5

BoxLists(hist) == {s \in Seq(Boxes) : s # << >> /\ \A i \in DOMAIN s : Tight(hist, s[i])}
CutBox(hist, boxes, b) ==
  LET a == LongestAxis(boxes[b])
      lb == (boxes[b].max[a] + boxes[b].min[a]) \div 2
  IN Append([boxes EXCEPT ![b] = update_box(hist, [boxes[b] EXCEPT !.max[a] = lb])],
            update_box(hist, [boxes[b] EXCEPT !.min[a] = lb + 1]))
CutOnce(hist, desired, boxes) ==
  LET b == IF Len(boxes) * 2 <= desired THEN find_biggest_color_pop(boxes) ELSE find_biggest_volume(boxes)
  IN IF Len(boxes) >= desired \/ b = 0 THEN boxes ELSE CutBox(hist, boxes, b)

LEMMA CutStays ==
  ASSUME NEW hist \in Counts, NEW desired \in Nat, NEW boxes \in BoxLists(hist)
  PROVE  CutOnce(hist, desired, boxes) \in BoxLists(hist)
<1> DEFINE b == IF Len(boxes) * 2 <= desired THEN find_biggest_color_pop(boxes) ELSE find_biggest_volume(boxes)
           box == boxes[b]
           a == LongestAxis(box)
           lb == (box.max[a] + box.min[a]) \div 2
           l == update_box(hist, [box EXCEPT !.max[a] = lb])
           r == update_box(hist, [box EXCEPT !.min[a] = lb + 1])
           new == Append([boxes EXCEPT ![b] = l], r)
<1>1. boxes \in Seq(Boxes) /\ boxes # << >> /\ \A i \in DOMAIN boxes : Tight(hist, boxes[i])
  BY DEF BoxLists
<1>2. b = 0 \/ (b \in DOMAIN boxes /\ box.volume > 0)
  BY <1>1, Chosen
<1>3. CutOnce(hist, desired, boxes) = boxes \/ (b # 0 /\ CutOnce(hist, desired, boxes) = new)
  BY DEF CutOnce, CutBox
<1> HIDE DEF b
<1>4. CASE b = 0
  BY <1>3, <1>4
<1>5. CASE b # 0
  <2>1. b \in DOMAIN boxes /\ box \in Boxes /\ Tight(hist, box) /\ box.volume > 0
    BY <1>1, <1>2, <1>5
  <2> HIDE DEF box
  <2>2. a \in Axes /\ box.max[a] > box.min[a]
    BY <2>1, AxisIsLong
  <2> HIDE DEF a
  <2>3. Inside(hist, [box EXCEPT !.max[a] = lb]) # {} /\ Inside(hist, [box EXCEPT !.min[a] = lb + 1]) # {}
    BY <2>1, <2>2, BothHalves
  <2>4. l \in Boxes /\ Tight(hist, l) /\ r \in Boxes /\ Tight(hist, r)
    BY <2>3, Shrunk
  <2> HIDE DEF l, r
  <2> DEFINE first == [boxes EXCEPT ![b] = l]
  <2>5. first \in Seq(Boxes) /\ Len(first) = Len(boxes) /\ \A i \in DOMAIN first : Tight(hist, first[i])
    BY <1>1, <2>1, <2>4
  <2> HIDE DEF first
  <2>6. new \in Seq(Boxes) /\ new # << >> /\ \A i \in DOMAIN new : Tight(hist, new[i])
    <3>1. new = Append(first, r)
      BY DEF first
    <3> HIDE DEF new
    <3> QED BY <2>4, <2>5, <3>1
  <2> HIDE DEF new
  <2>7. new \in BoxLists(hist)
    BY <2>6 DEF BoxLists
  <2> QED BY <1>3, <2>7
<1> QED BY <1>4, <1>5

(* The median cut ends with boxes that all hold a colour.                    *)
LEMMA CutAll ==
  ASSUME NEW hist \in Counts, NEW desired \in Nat, NEW start \in BoxLists(hist)
  PROVE  median_cut(hist, start, desired) \in BoxLists(hist)
<1> DEFINE S == BoxLists(hist)
           N == desired
           body(s, n) == CutOnce(hist, desired, s)
           run == CHOOSE f : f = [n \in 0..N |-> IF n = 0 THEN start ELSE body(f[n - 1], n)]
           step == [x \in S \X (1..N) |-> body(x[1], x[2])]
<1>1. median_cut(hist, start, desired) = run[N]
  BY DEF median_cut, CutOnce, CutBox
<1>2. ASSUME NEW s \in S, NEW n \in 1..N PROVE body(s, n) \in S
  BY CutStays
<1>3. N \in Nat /\ start \in S
  OBVIOUS
<1> HIDE DEF N, body, S
<1>4. step \in [S \X (1..N) -> S]
  <2>1. ASSUME NEW x \in S \X (1..N) PROVE body(x[1], x[2]) \in S
    <3>1. x[1] \in S /\ x[2] \in 1..N
      OBVIOUS
    <3> QED BY <1>2, <3>1
  <2> QED BY <2>1
<1>5. ASSUME NEW s \in S, NEW n \in 1..N PROVE step[<<s, n>>] = body(s, n)
  OBVIOUS
<1> HIDE DEF step
<1>6. PICK g : Stepped(g, step, start, N, S)
  BY <1>3, <1>4, Loop, Zenon DEF Stepping
<1>7. g = [n \in 0..N |-> IF n = 0 THEN start ELSE body(g[n - 1], n)]
  <2>1. ASSUME NEW n \in 1..N PROVE g[n] = body(g[n - 1], n)
    <3>1. g[n - 1] \in S
      BY <1>3, <1>6 DEF Stepped
    <3> QED BY <1>5, <1>6, <3>1 DEF Stepped
  <2>2. \A n \in 0..N : n = 0 \/ n \in 1..N
    BY <1>3
  <2> QED BY <1>6, <2>1, <2>2 DEF Stepped
<1>8. run = [n \in 0..N |-> IF n = 0 THEN start ELSE body(run[n - 1], n)]
  <2> DEFINE runs(f) == f = [n \in 0..N |-> IF n = 0 THEN start ELSE body(f[n - 1], n)]
  <2>1. runs(g)
    BY <1>7
  <2>2. run = CHOOSE f : runs(f)
    OBVIOUS
  <2> HIDE DEF runs, run
  <2>3. runs(run)
    BY <2>1, <2>2
  <2> QED BY <2>3 DEF runs
<1> HIDE DEF run
<1>9. run[0] = start /\ \A n \in 1..N : n # 0 /\ run[n] = body(run[n - 1], n)
  BY <1>3, <1>8
<1>10. \A n \in 0..N : run[n] \in S
  <2>1. Kept(run, N, S)
    BY <1>2, <1>3, <1>9 DEF Kept
  <2> QED BY <1>3, <2>1, LoopStays, Zenon
<1>11. run[N] \in S
  BY <1>3, <1>10
<1> QED BY <1>1, <1>11 DEF S

(* The mean of the colours in a box is a colour.                             *)
LEMMA MeanIs ==
  ASSUME NEW hist \in Counts, NEW box, Inside(hist, box) # {}
  PROVE  \A a \in Axes : compute_color(hist, box)[a] \in Int
<1> DEFINE cells == Inside(hist, box)
           total == SumOf(cells, LAMBDA c : hist[c])
           sums(a) == SumOf(cells, LAMBDA c : CellCentre(c)[a] * hist[c])
<1>1. cells # {} /\ IsFiniteSet(cells)
      /\ \A c \in cells : hist[c] \in Nat \ {0} /\ \A a \in Axes : c[a] \in 0..63
  BY InsideIs
<1>2. \A a \in Axes : compute_color(hist, box)[a] = (sums(a) + (total \div 2)) \div total
  BY DEF compute_color
<1> HIDE DEF cells
<1>3. total \in Nat /\ total > 0
  <2> DEFINE one(c) == hist[c]
             sum == CHOOSE f : f = [T \in SUBSET cells |->
                      IF T = {} THEN 0 ELSE LET c == CHOOSE x \in T : TRUE IN one(c) + f[T \ {c}]]
             v == [c \in cells |-> one(c)]
  <2>1. total = sum[cells]
    BY DEF SumOf
  <2> HIDE DEF one, total
  <2>2. PICK g : Summed(g, v, cells)
    <3> HIDE DEF v
    <3> QED BY <1>1, SumsExist, Zenon
  <2>3. sum = [T \in SUBSET cells |->
                 IF T = {} THEN 0 ELSE LET c == CHOOSE x \in T : TRUE IN one(c) + sum[T \ {c}]]
    <3> DEFINE adds(f) == f = [T \in SUBSET cells |->
                 IF T = {} THEN 0 ELSE LET c == CHOOSE x \in T : TRUE IN one(c) + f[T \ {c}]]
    <3>1. adds(g)
      BY <2>2 DEF Summed
    <3>2. sum = CHOOSE f : adds(f)
      OBVIOUS
    <3> HIDE DEF adds, sum
    <3>3. adds(sum)
      BY <3>1, <3>2
    <3> QED BY <3>3 DEF adds
  <2> HIDE DEF sum
  <2>4. Adds(sum, v, cells)
    BY <2>3 DEF Adds
  <2>5. \A c \in cells : v[c] = one(c) /\ v[c] \in Nat \ {0}
    BY <1>1 DEF one
  <2> HIDE DEF v
  <2>6. \A T \in SUBSET cells : sum[T] \in Nat
    BY <1>1, <2>4, <2>5, SumsNatural
  <2> DEFINE c == CHOOSE x \in cells : TRUE
  <2>7. c \in cells /\ sum[cells] = v[c] + sum[cells \ {c}]
    BY <1>1, <2>4 DEF Adds
  <2> HIDE DEF c
  <2>8. v[c] \in Nat \ {0} /\ sum[cells \ {c}] \in Nat
    BY <2>5, <2>6, <2>7
  <2> QED BY <2>1, <2>7, <2>8
<1>4. ASSUME NEW a \in Axes PROVE sums(a) \in Nat
  <2> DEFINE one(c) == CellCentre(c)[a] * hist[c]
             sum == CHOOSE f : f = [T \in SUBSET cells |->
                      IF T = {} THEN 0 ELSE LET c == CHOOSE x \in T : TRUE IN one(c) + f[T \ {c}]]
             v == [c \in cells |-> one(c)]
  <2>1. sums(a) = sum[cells]
    BY DEF SumOf
  <2>2. ASSUME NEW c \in cells PROVE one(c) \in Nat
    <3>1. CellCentre(c)[a] = c[a] * SHIFT[a] + SHIFT[a] \div 2
      BY DEF CellCentre
    <3>2. SHIFT[a] \in {4, 8}
      BY DEF SHIFT, Axes
    <3>3. CellCentre(c)[a] \in Nat /\ hist[c] \in Nat
      BY <1>1, <3>1, <3>2
    <3> QED BY <3>3
  <2> HIDE DEF one, sums
  <2>3. PICK g : Summed(g, v, cells)
    <3> HIDE DEF v
    <3> QED BY <1>1, SumsExist, Zenon
  <2>4. sum = [T \in SUBSET cells |->
                 IF T = {} THEN 0 ELSE LET c == CHOOSE x \in T : TRUE IN one(c) + sum[T \ {c}]]
    <3> DEFINE adds(f) == f = [T \in SUBSET cells |->
                 IF T = {} THEN 0 ELSE LET c == CHOOSE x \in T : TRUE IN one(c) + f[T \ {c}]]
    <3>1. adds(g)
      BY <2>3 DEF Summed
    <3>2. sum = CHOOSE f : adds(f)
      OBVIOUS
    <3> HIDE DEF adds, sum
    <3>3. adds(sum)
      BY <3>1, <3>2
    <3> QED BY <3>3 DEF adds
  <2> HIDE DEF sum
  <2>5. Adds(sum, v, cells)
    BY <2>4 DEF Adds
  <2>6. \A c \in cells : v[c] \in Nat
    BY <2>2
  <2> HIDE DEF v
  <2>7. sum[cells] \in Nat
    BY <1>1, <2>5, <2>6, SumsNatural
  <2> QED BY <2>1, <2>7
<1>5. ASSUME NEW a \in Axes PROVE (sums(a) + (total \div 2)) \div total \in Int
  <2> HIDE DEF sums, total
  <2>1. sums(a) + (total \div 2) \in Int
    BY <1>3, <1>4
  <2> QED BY <1>3, <2>1
<1> HIDE DEF sums, total
<1> QED BY <1>2, <1>5

(* A picture that has a pixel has a colour map.                              *)
LEMMA ColorsSelected ==
  ASSUME NEW hist \in Counts, DOMAIN hist # {}, NEW desired \in Nat
  PROVE  IsColorMap(select_colors(hist, desired))
<1> DEFINE all == [min |-> <<0, 0, 0>>, max |-> <<31, 63, 31>>, colorcount |-> 0, volume |-> 0]
           start == <<update_box(hist, all)>>
           boxes == median_cut(hist, start, desired)
<1>1. select_colors(hist, desired) = [i \in DOMAIN boxes |-> compute_color(hist, boxes[i])]
  BY DEF select_colors
<1>2. Inside(hist, all) # {}
  <2>1. PICK c \in DOMAIN hist : TRUE
    OBVIOUS
  <2>2. c \in Cells
    BY <2>1, CountsAre
  <2>3. /\ c[1] \in Nat /\ c[1] <= 31
        /\ c[2] \in Nat /\ c[2] <= 63
        /\ c[3] \in Nat /\ c[3] <= 31
    BY <2>2 DEF Cells, Axes
  <2>4. \A a \in Axes : c[a] >= all.min[a] /\ c[a] <= all.max[a]
    BY <2>3 DEF Axes
  <2> QED BY <2>1, <2>4 DEF Inside
<1> HIDE DEF all
<1>3. start \in BoxLists(hist)
  <2>1. update_box(hist, all) \in Boxes /\ Tight(hist, update_box(hist, all))
    BY <1>2, Shrunk
  <2> QED BY <2>1 DEF BoxLists
<1> HIDE DEF start
<1>4. boxes \in BoxLists(hist)
  BY <1>3, CutAll
<1> HIDE DEF boxes
<1>5. boxes \in Seq(Boxes) /\ boxes # << >> /\ \A i \in DOMAIN boxes : Tight(hist, boxes[i])
  BY <1>4 DEF BoxLists
<1>6. DOMAIN boxes # {} /\ DOMAIN boxes \subseteq Nat \ {0}
  BY <1>5
<1>7. ASSUME NEW i \in DOMAIN boxes, NEW a \in Axes PROVE compute_color(hist, boxes[i])[a] \in Int
  BY <1>5, MeanIs DEF Tight
<1> QED BY <1>1, <1>6, <1>7 DEF IsColorMap

-----------------------------------------------------------------------------
(* The two-pass quantiser, from call to call. *)

(* What a quantiser holds between the rows of a pass: counts of colours in     *)
(* the first pass, and in the second a colour map, an inverse map of this      *)
(* colour map and the errors of the row before.                              *)
QFields == {"histogram", "needs_zeroed", "desired", "colormap", "fserrors", "on_odd_row", "pass", "mode"}
HoldsCounts(q, in) == q.histogram \in Counts /\ (in # << >> => DOMAIN q.histogram # {})
HoldsMap(q) ==
  /\ IsColorMap(q.colormap) /\ q.histogram \in Cache(q.colormap)
  /\ q.mode = "FS" => q.on_odd_row \in BOOLEAN /\ q.fserrors \in Errors(WidthOfRows)
QOk(q, in) ==
  /\ QFields \subseteq DOMAIN q /\ q.desired \in Nat /\ q.mode \in {"NONE", "FS"}
  /\ (q.pass = "prescan" /\ HoldsCounts(q, in)) \/ (q.pass = "map" /\ HoldsMap(q))

LEMMA RowsAre ==
  ASSUME NEW row \in Rows
  PROVE  row \in Seq(Pixel) /\ row # << >> /\ WidthOfRows = Len(row)
<1>1. row \in Seq(Pixel) /\ row # << >>
  BY RowsAssumption DEF Pixel, Axes, Sample
<1>2. WidthOfRows \in {Len(r) : r \in Rows}
  BY DEF WidthOfRows
<1> QED BY <1>1, <1>2, RowsAssumption

LEMMA ColorMapsAre == ASSUME NEW m \in ColorMaps PROVE IsColorMap(m)
<1>1. m \in Seq(Pixel) /\ m # << >>
  BY ColorMapsAssumption DEF Pixel, Axes, Sample
<1>2. DOMAIN m # {} /\ DOMAIN m \subseteq Nat \ {0} /\ \A i \in DOMAIN m : m[i] \in Pixel
  <2>1. Len(m) \in Nat /\ DOMAIN m = 1..Len(m) /\ \A i \in 1..Len(m) : m[i] \in Pixel
    BY <1>1
  <2>2. Len(m) # 0
    BY <1>1
  <2>3. 1 \in DOMAIN m
    BY <2>1, <2>2
  <2> QED BY <2>1, <2>3
<1>3. \A x \in Sample : x \in Int
  BY DEF Sample, MAXJSAMPLE
<1>4. ASSUME NEW i \in DOMAIN m, NEW a \in Axes PROVE m[i][a] \in Int
  <2>1. m[i][a] \in Sample
    BY <1>2 DEF Pixel
  <2> QED BY <1>3, <2>1
<1> QED BY <1>2, <1>4 DEF IsColorMap

(* A pass starts with an empty histogram, or with the inverse map of the      *)
(* colours in use, or with no inverse map.                                   *)
LEMMA PassStarted ==
  ASSUME NEW q, QFields \subseteq DOMAIN q, q.desired \in Nat, NEW mode, NEW preScan \in BOOLEAN,
         preScan \/ (IsColorMap(q.colormap) /\ (q.needs_zeroed \/ q.histogram \in Cache(q.colormap)))
  PROVE  QOk(start_pass_2_quant(q, mode, preScan, WidthOfRows), << >>)
<1> DEFINE real == IF mode = "NONE" THEN "NONE" ELSE "FS"
           fs == real = "FS" /\ ~preScan
           hist == IF q.needs_zeroed \/ preScan THEN Empty ELSE q.histogram
           errs == IF fs THEN [a \in Axes |-> ZeroErrors(WidthOfRows)] ELSE q.fserrors
           odd == IF fs THEN FALSE ELSE q.on_odd_row
           pass == IF preScan THEN "prescan" ELSE "map"
           s == start_pass_2_quant(q, mode, preScan, WidthOfRows)
<1>1. s = [q EXCEPT !.mode = real, !.pass = pass, !.fserrors = errs, !.on_odd_row = odd,
                    !.histogram = hist, !.needs_zeroed = FALSE]
  BY DEF start_pass_2_quant
<1>2. fs => odd \in BOOLEAN /\ errs \in Errors(WidthOfRows)
  <2>1. ZeroErrors(WidthOfRows) \in [0..WidthOfRows + 1 -> Int]
    BY DEF ZeroErrors
  <2> QED BY <2>1 DEF Errors
<1>3. IF preScan THEN hist \in Counts ELSE IsColorMap(q.colormap) /\ hist \in Cache(q.colormap)
  BY EmptyIs
<1>4. real \in {"NONE", "FS"} /\ (pass = "prescan" <=> preScan) /\ (pass = "map" <=> ~preScan)
      /\ (fs <=> real = "FS" /\ ~preScan)
  OBVIOUS
<1> HIDE DEF real, fs, hist, errs, odd, pass, s
<1>5. /\ DOMAIN s = DOMAIN q /\ s.mode = real /\ s.pass = pass /\ s.fserrors = errs /\ s.on_odd_row = odd
      /\ s.histogram = hist /\ s.desired = q.desired /\ s.colormap = q.colormap
  BY <1>1 DEF QFields
<1>6. CASE preScan
  BY <1>3, <1>4, <1>5, <1>6 DEF QOk, HoldsCounts, s
<1>7. CASE ~preScan
  BY <1>2, <1>3, <1>4, <1>5, <1>7 DEF QOk, HoldsMap, s
<1> QED BY <1>6, <1>7

(* A row of either pass.                                                    *)
LEMMA RowQuantized ==
  ASSUME NEW q, NEW in, QOk(q, in), NEW row \in Rows, NEW in2
  PROVE  QOk(quantize_row_2(q, row).q, in2)
<1>1. row \in Seq(Pixel) /\ row # << >> /\ WidthOfRows = Len(row)
  BY RowsAre
<1>2. QFields \subseteq DOMAIN q /\ q.desired \in Nat /\ q.mode \in {"NONE", "FS"}
  BY DEF QOk
<1>3. CASE q.pass = "prescan"
  <2> DEFINE h == prescan_quantize(q.histogram, row)
             s == [q EXCEPT !.histogram = h]
  <2>1. quantize_row_2(q, row).q = s
    BY <1>3 DEF quantize_row_2
  <2>2. q.histogram \in Counts
    BY <1>3 DEF QOk, HoldsCounts
  <2>3. h \in Counts /\ DOMAIN h # {}
    BY <1>1, <2>2, Prescanned
  <2> HIDE DEF h
  <2>4. DOMAIN s = DOMAIN q /\ s.histogram = h /\ s.desired = q.desired /\ s.mode = q.mode /\ s.pass = "prescan"
    BY <1>2, <1>3 DEF QFields
  <2> HIDE DEF s
  <2>5. QOk(s, in2)
    BY <1>2, <2>3, <2>4 DEF QOk, HoldsCounts
  <2> QED BY <2>1, <2>5
<1>4. CASE q.pass = "map" /\ q.mode = "NONE"
  <2> DEFINE s == pass2_no_dither(q, row).q
  <2>1. quantize_row_2(q, row).q = s
    BY <1>4 DEF quantize_row_2
  <2>2. IsColorMap(q.colormap) /\ q.histogram \in Cache(q.colormap)
    BY <1>4 DEF QOk, HoldsMap
  <2>3. s = [q EXCEPT !.histogram = s.histogram] /\ s.histogram \in Cache(q.colormap)
    BY <1>1, <1>2, <2>2, MappedPlain DEF QFields
  <2> HIDE DEF s
  <2>4. DOMAIN s = DOMAIN q /\ s.desired = q.desired /\ s.mode = "NONE" /\ s.pass = "map" /\ s.colormap = q.colormap
    BY <1>2, <1>4, <2>3 DEF QFields
  <2>5. QOk(s, in2)
    BY <1>2, <2>2, <2>3, <2>4 DEF QOk, HoldsMap
  <2> QED BY <2>1, <2>5
<1>5. CASE q.pass = "map" /\ q.mode = "FS"
  <2> DEFINE s == pass2_fs_dither(q, row).q
  <2>1. quantize_row_2(q, row).q = s
    BY <1>5 DEF quantize_row_2
  <2>2. /\ IsColorMap(q.colormap) /\ q.histogram \in Cache(q.colormap)
        /\ q.on_odd_row \in BOOLEAN /\ q.fserrors \in Errors(Len(row))
    BY <1>1, <1>5 DEF QOk, HoldsMap
  <2>3. PICK h \in Cache(q.colormap), e \in Errors(Len(row)) :
          s = [q EXCEPT !.histogram = h, !.on_odd_row = ~@, !.fserrors = e]
    BY <1>1, <2>2, MappedDithered
  <2> HIDE DEF s
  <2>4. /\ DOMAIN s = DOMAIN q /\ s.desired = q.desired /\ s.mode = "FS" /\ s.pass = "map"
        /\ s.colormap = q.colormap /\ s.histogram = h /\ s.on_odd_row = ~q.on_odd_row /\ s.fserrors = e
    BY <1>2, <1>5, <2>3 DEF QFields
  <2>5. QOk(s, in2)
    BY <1>1, <1>2, <2>2, <2>3, <2>4 DEF QOk, HoldsMap
  <2> QED BY <2>1, <2>5
<1> QED BY <1>2, <1>3, <1>4, <1>5 DEF QOk

(* The end of a pass that saw a row leaves colours and what the next pass may  *)
(* use.                                                                     *)
LEMMA PassFinished ==
  ASSUME NEW q, NEW in, QOk(q, in), in # << >>
  PROVE  LET f == finish_pass_2_quant(q)
         IN /\ QFields \subseteq DOMAIN f /\ f.desired \in Nat
            /\ IsColorMap(f.colormap) /\ (f.needs_zeroed \/ f.histogram \in Cache(f.colormap))
<1>1. QFields \subseteq DOMAIN q /\ q.desired \in Nat
  BY DEF QOk
<1>2. CASE q.pass = "prescan"
  <2> DEFINE m == select_colors(q.histogram, q.desired)
             f == [q EXCEPT !.colormap = m, !.needs_zeroed = TRUE]
  <2>1. finish_pass_2_quant(q) = f
    BY <1>2 DEF finish_pass_2_quant, finish_pass1
  <2>2. IsColorMap(m)
    BY <1>1, <1>2, ColorsSelected DEF QOk, HoldsCounts
  <2> HIDE DEF m
  <2>3. DOMAIN f = DOMAIN q /\ f.colormap = m /\ f.needs_zeroed = TRUE /\ f.desired = q.desired
    BY <1>1 DEF QFields
  <2> HIDE DEF f
  <2> QED BY <1>1, <2>1, <2>2, <2>3
<1>3. CASE q.pass = "map"
  <2>1. finish_pass_2_quant(q) = q
    BY <1>3 DEF finish_pass_2_quant, finish_pass2
  <2> QED BY <1>1, <1>3, <2>1 DEF QOk, HoldsMap
<1> QED BY <1>2, <1>3 DEF QOk

JobFields == {"kind", "n", "in", "out", "q"}
TwoPassOk == job.kind = "twopass" => JobFields \subseteq DOMAIN job /\ QOk(job.q, job.in)
QInv == KindKnown /\ TwoPassOk

(* The inductive invariant gives the property.                              *)
LEMMA CacheFollows == QInv => CacheIsNearest
<1> SUFFICES ASSUME QInv, job.kind = "twopass", job.q.pass = "map",
                    NEW c \in DOMAIN job.q.histogram, job.q.histogram[c] # 0
             PROVE  /\ job.q.histogram[c] \in DOMAIN job.q.colormap
                    /\ LET d == Distance(CellCentre(c), job.q.colormap[job.q.histogram[c]])
                       IN \A i \in DOMAIN job.q.colormap : d <= Distance(CellCentre(c), job.q.colormap[i])
  BY DEF CacheIsNearest, CacheNearest
<1>1. job.q.histogram \in Cache(job.q.colormap)
  BY DEF QInv, TwoPassOk, QOk, HoldsMap
<1>2. NearestAt(job.q.colormap, c, job.q.histogram[c])
  BY <1>1, CacheIs
<1> QED BY <1>2 DEF NearestAt

(* The inverse colour map of the two-pass quantiser never answers with a     *)
(* colour of a map that is gone or with one that is not the nearest, for     *)
(* every picture, every colour map that is installed and every order of      *)
(* passes, with and without dithering (jquant2.c).                          *)
THEOREM CacheIsNearestHolds == Spec => []CacheIsNearest
<1>1. Init => QInv
  BY DEF Init, Idle, QInv, KindKnown, TwoPassOk
<1>2. QInv /\ [Next]_job => QInv'
  <2> SUFFICES ASSUME QInv, [Next]_job PROVE QInv'
    OBVIOUS
  <2> DEFINE other == "kind" \in DOMAIN job' /\ job'.kind # "twopass"
  <2>0. other => QInv'
    BY DEF QInv, KindKnown, TwoPassOk
  <2>15. "kind" \in DOMAIN job
    BY DEF QInv, KindKnown
  <2>1. CASE ForwardDct
    BY <2>0, <2>1 DEF ForwardDct
  <2>2. CASE ConvertColours
    BY <2>0, <2>2 DEF ConvertColours
  <2>3. CASE Jpegtran
    BY <2>0, <2>3 DEF Jpegtran
  <2>4. CASE AdjustQuant
    BY <2>0, <2>4 DEF AdjustQuant
  <2>5. CASE AdjustExif
    BY <2>0, <2>5 DEF AdjustExif
  <2>6. CASE CopyMarkers
    BY <2>0, <2>6 DEF CopyMarkers
  <2>7. CASE StartOnePass
    BY <2>0, <2>7 DEF StartOnePass
  <2>8. CASE OnePassRow
    BY <2>0, <2>8, <2>15 DEF OnePassRow
  <2>9. CASE OnePassAgain
    BY <2>0, <2>9, <2>15 DEF OnePassAgain
  <2>10. CASE StartTwoPass
    <3>1. PICK mode \in Modes, desired \in {4, 8} :
            LET q == jinit_2pass_quantizer(3, desired, mode)
            IN job' = IF q = << >> THEN [kind |-> "refused", req |-> desired, src |-> mode, why |-> "quantizer"]
                      ELSE [kind |-> "twopass", n |-> 0, in |-> << >>, out |-> << >>,
                            q |-> start_pass_2_quant(q[1], mode, TRUE, WidthOfRows)]
      BY <2>10 DEF StartTwoPass
    <3> DEFINE q == jinit_2pass_quantizer(3, desired, mode)
    <3>2. CASE q = << >>
      BY <2>0, <3>1, <3>2
    <3>3. CASE q # << >>
      <4>1. QFields \subseteq DOMAIN q[1] /\ q[1].desired \in Nat
        BY <3>3 DEF jinit_2pass_quantizer, QFields
      <4> HIDE DEF q
      <4> DEFINE s == start_pass_2_quant(q[1], mode, TRUE, WidthOfRows)
      <4>2. QOk(s, << >>)
        BY <4>1, PassStarted
      <4> HIDE DEF s
      <4>3. job' = [kind |-> "twopass", n |-> 0, in |-> << >>, out |-> << >>, q |-> s]
        BY <3>1, <3>3 DEF s, q
      <4> QED BY <4>2, <4>3 DEF QInv, KindKnown, TwoPassOk, JobFields
    <3> QED BY <3>2, <3>3
  <2>11. CASE TwoPassRow
    <3>1. PICK row \in Rows :
            /\ job.kind = "twopass"
            /\ LET r == quantize_row_2(job.q, row)
               IN job' = [job EXCEPT !.n = @ + 1, !.q = r.q, !.in = Append(@, row), !.out = Append(@, r.out)]
      BY <2>11 DEF TwoPassRow
    <3>2. JobFields \subseteq DOMAIN job /\ QOk(job.q, job.in)
      BY <3>1 DEF QInv, TwoPassOk
    <3>3. /\ job'.kind = "twopass" /\ DOMAIN job' = DOMAIN job
          /\ job'.q = quantize_row_2(job.q, row).q
      BY <3>1, <3>2 DEF JobFields
    <3>4. \A in2 : QOk(quantize_row_2(job.q, row).q, in2)
      BY <3>2, RowQuantized
    <3>5. QOk(job'.q, job'.in)
      BY <3>3, <3>4
    <3> QED BY <2>15, <3>2, <3>3, <3>5 DEF QInv, KindKnown, TwoPassOk
  <2>12. CASE TwoPassNext
    <3>1. PICK mode \in Modes, preScan \in BOOLEAN :
            /\ job.kind = "twopass" /\ job.in # << >>
            /\ job' = [job EXCEPT !.n = @ + 1, !.in = << >>, !.out = << >>,
                         !.q = start_pass_2_quant(finish_pass_2_quant(job.q), mode, preScan, WidthOfRows)]
      BY <2>12 DEF TwoPassNext
    <3>2. JobFields \subseteq DOMAIN job /\ QOk(job.q, job.in)
      BY <3>1 DEF QInv, TwoPassOk
    <3> DEFINE f == finish_pass_2_quant(job.q)
               s == start_pass_2_quant(f, mode, preScan, WidthOfRows)
    <3>3. /\ QFields \subseteq DOMAIN f /\ f.desired \in Nat
          /\ IsColorMap(f.colormap) /\ (f.needs_zeroed \/ f.histogram \in Cache(f.colormap))
      BY <3>1, <3>2, PassFinished
    <3> HIDE DEF f
    <3>4. QOk(s, << >>)
      BY <3>3, PassStarted
    <3>5. job'.kind = "twopass" /\ DOMAIN job' = DOMAIN job /\ job'.q = s /\ job'.in = << >>
      BY <3>1, <3>2 DEF JobFields, f
    <3> HIDE DEF s
    <3> QED BY <2>15, <3>2, <3>4, <3>5 DEF QInv, KindKnown, TwoPassOk
  <2>13. CASE NewColorMap
    <3>1. PICK map \in ColorMaps, mode \in Modes :
            /\ job.kind = "twopass" /\ job.q.pass = "map"
            /\ job' = [job EXCEPT !.n = @ + 1, !.in = << >>, !.out = << >>,
                         !.q = start_pass_2_quant(new_color_map_2_quant(finish_pass_2_quant(job.q), map),
                                                  mode, FALSE, WidthOfRows)]
      BY <2>13 DEF NewColorMap
    <3>2. JobFields \subseteq DOMAIN job /\ QOk(job.q, job.in)
      BY <3>1 DEF QInv, TwoPassOk
    <3> DEFINE f == new_color_map_2_quant(finish_pass_2_quant(job.q), map)
               s == start_pass_2_quant(f, mode, FALSE, WidthOfRows)
    <3>3. f = [job.q EXCEPT !.colormap = map, !.needs_zeroed = TRUE]
      BY <3>1 DEF new_color_map_2_quant, finish_pass_2_quant, finish_pass2
    <3> HIDE DEF f
    <3>4. /\ QFields \subseteq DOMAIN f /\ f.desired \in Nat
          /\ IsColorMap(f.colormap) /\ f.needs_zeroed
      BY <3>2, <3>3, ColorMapsAre DEF QOk, QFields
    <3>5. QOk(s, << >>)
      BY <3>4, PassStarted
    <3>6. job'.kind = "twopass" /\ DOMAIN job' = DOMAIN job /\ job'.q = s /\ job'.in = << >>
      BY <3>1, <3>2 DEF JobFields, f
    <3> HIDE DEF s
    <3> QED BY <2>15, <3>2, <3>5, <3>6 DEF QInv, KindKnown, TwoPassOk
  <2>14. CASE UNCHANGED job
    BY <2>14 DEF QInv, KindKnown, TwoPassOk
  <2> QED BY <2>1, <2>2, <2>3, <2>4, <2>5, <2>6, <2>7, <2>8, <2>9, <2>10, <2>11, <2>12, <2>13, <2>14
       DEF Next
<1> QED BY <1>1, <1>2, CacheFollows, PTL DEF Spec
=============================================================================
