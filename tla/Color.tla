-------------------------------- MODULE Color --------------------------------
(***************************************************************************)
(* Colour conversion: the compressor's converters (jccolor.c), the         *)
(* decompressor's (jdcolor.c), the selection of a converter from the three *)
(* colour spaces involved, and the table that limits samples to their      *)
(* range (jdmaster.c).                                                     *)
(*                                                                         *)
(* The converters treat every pixel by itself, so a pixel is the unit: a   *)
(* tuple of samples in 0..MAXJSAMPLE.  A converter never mixes rows or     *)
(* columns; the loops over them are left out.                              *)
(***************************************************************************)
EXTENDS Integers, Sequences

MAXJSAMPLE == 255
CENTERJSAMPLE == 128
SCALEBITS == 65536
ONE_HALF == 32768

\* FIX(x): x in units of 2^-16, rounded.
FIX_0_08131 == 5329
FIX_0_11400 == 7471
FIX_0_16874 == 11058
FIX_0_29900 == 19595
FIX_0_33126 == 21710
FIX_0_34414 == 22553
FIX_0_41869 == 27439
FIX_0_58700 == 38470
FIX_0_68827 == 45107
FIX_0_71414 == 46802
FIX_1_40200 == 91881
FIX_1_42827 == 93603
FIX_1_77200 == 116130
FIX_2_80400 == 183763
FIX_3_54400 == 232260

\* limit[x] = x inside the range of a sample and the nearest end outside, for all
\* the x that a table of RANGE_CENTER entries on both sides can be asked for.
RANGE_CENTER == CENTERJSAMPLE * 4
prepare_range_limit_table ==
  [x \in -RANGE_CENTER..MAXJSAMPLE + RANGE_CENTER |->
     IF x < 0 THEN 0 ELSE IF x > MAXJSAMPLE THEN MAXJSAMPLE ELSE x]
range_limit(x) == prepare_range_limit_table[x]

DESCALE(x) == (x + ONE_HALF) \div SCALEBITS

------------------------------------------------------------------------------
(* Compression. *)

\* The eight tables of rgb_ycc_start, as functions of a sample.
rgb_ycc_tab(out, in, i) ==
  CASE out = "Y" /\ in = "R" -> FIX_0_29900 * i
    [] out = "Y" /\ in = "G" -> FIX_0_58700 * i
    [] out = "Y" /\ in = "B" -> FIX_0_11400 * i + ONE_HALF
    [] out = "Cb" /\ in = "R" -> -FIX_0_16874 * i
    [] out = "Cb" /\ in = "G" -> -FIX_0_33126 * i
    [] <<out, in>> \in {<<"Cb", "B">>, <<"Cr", "R">>} ->
         i * ONE_HALF + CENTERJSAMPLE * SCALEBITS + ONE_HALF - 1
    [] out = "Cr" /\ in = "G" -> -FIX_0_41869 * i
    [] out = "Cr" /\ in = "B" -> -FIX_0_08131 * i

Weighted(out, r, g, b) ==
  (rgb_ycc_tab(out, "R", r) + rgb_ycc_tab(out, "G", g) + rgb_ycc_tab(out, "B", b)) \div SCALEBITS

rgb_ycc_convert(p) ==
  <<Weighted("Y", p[1], p[2], p[3]), Weighted("Cb", p[1], p[2], p[3]), Weighted("Cr", p[1], p[2], p[3])>>

rgb_gray_convert(p) == <<Weighted("Y", p[1], p[2], p[3])>>

\* CMY is taken for inverted RGB; K passes through.
cmyk_ycck_convert(p) ==
  rgb_ycc_convert(<<MAXJSAMPLE - p[1], MAXJSAMPLE - p[2], MAXJSAMPLE - p[3]>>) \o <<p[4]>>

\* The reversible transform that subtracts green.
Masked(x) == x % (MAXJSAMPLE + 1)
rgb_rgb1_convert(p) == <<Masked(p[1] - p[2] + CENTERJSAMPLE), p[2], Masked(p[3] - p[2] + CENTERJSAMPLE)>>

grayscale_convert(p) == <<p[1]>>
rgb_convert(p) == p
null_convert(p) == p

compress_convert(name, p) ==
  CASE name = "grayscale" -> grayscale_convert(p)
    [] name = "rgb_gray" -> rgb_gray_convert(p)
    [] name = "rgb_ycc" -> rgb_ycc_convert(p)
    [] name = "rgb" -> rgb_convert(p)
    [] name = "rgb_rgb1" -> rgb_rgb1_convert(p)
    [] name = "cmyk_ycck" -> cmyk_ycck_convert(p)
    [] name = "null" -> null_convert(p)

\* How many components a colour space needs; others take any number.
NeedsComponents(space, n) ==
  CASE space = "GRAYSCALE" -> n = 1
    [] space \in {"RGB", "BG_RGB", "YCbCr", "BG_YCC"} -> n = 3
    [] space \in {"CMYK", "YCCK"} -> n = 4
    [] OTHER -> n >= 1

\* jinit_color_converter: the converter for the input, the JPEG colour space and
\* the colour transform, and whether the chroma is stored at half its scale (the
\* component_needed flags of the BG_YCC components); the name is "error" where
\* the combination is refused.
jinit_color_converter(in, inComps, jpeg, n, subtractGreen) ==
  LET refused == \/ ~NeedsComponents(in, inComps)
                 \/ subtractGreen /\ jpeg \notin {"RGB", "BG_RGB"}
                 \/ jpeg # "UNKNOWN" /\ ~NeedsComponents(jpeg, n)
      name == CASE jpeg = "GRAYSCALE" /\ in \in {"GRAYSCALE", "YCbCr", "BG_YCC"} -> "grayscale"
                [] jpeg = "GRAYSCALE" /\ in = "RGB" -> "rgb_gray"
                [] jpeg \in {"RGB", "BG_RGB"} /\ in = jpeg -> IF subtractGreen THEN "rgb_rgb1" ELSE "rgb"
                [] jpeg \in {"YCbCr", "BG_YCC"} /\ in = "RGB" -> "rgb_ycc"
                [] jpeg = "YCbCr" /\ in = "YCbCr" -> "null"
                [] jpeg = "BG_YCC" /\ in \in {"YCbCr", "BG_YCC"} -> "null"
                [] jpeg = "CMYK" /\ in = "CMYK" -> "null"
                [] jpeg = "YCCK" /\ in = "CMYK" -> "cmyk_ycck"
                [] jpeg = "YCCK" /\ in = "YCCK" -> "null"
                [] jpeg = "UNKNOWN" /\ in = "UNKNOWN" /\ n = inComps -> "null"
                [] OTHER -> "error"
  IN [name |-> IF refused THEN "error" ELSE name,
      halved |-> jpeg = "BG_YCC" /\ in \in {"RGB", "YCbCr"}]

------------------------------------------------------------------------------
(* Decompression. *)

\* The chroma tables, for the normal and for the wide (BG) YCC range.
build_ycc_rgb_table(out, in, i) ==
  LET x == i - CENTERJSAMPLE
  IN CASE out = "R" /\ in = "Cr" -> DESCALE(FIX_1_40200 * x)
       [] out = "B" /\ in = "Cb" -> DESCALE(FIX_1_77200 * x)
       [] out = "G" /\ in = "Cr" -> -FIX_0_71414 * x
       [] out = "G" /\ in = "Cb" -> -FIX_0_34414 * x + ONE_HALF

\* A fault: one factor of the wide range is the one of the normal range.
build_bg_ycc_rgb_tableNormal(out, in, i) ==
  LET x == i - CENTERJSAMPLE
  IN CASE out = "R" /\ in = "Cr" -> DESCALE(FIX_2_80400 * x)
       [] out = "B" /\ in = "Cb" -> DESCALE(FIX_3_54400 * x)
       [] out = "G" /\ in = "Cr" -> -FIX_1_42827 * x
       [] out = "G" /\ in = "Cb" -> -FIX_0_34414 * x + ONE_HALF

build_bg_ycc_rgb_table(out, in, i) ==
  LET x == i - CENTERJSAMPLE
  IN CASE out = "R" /\ in = "Cr" -> DESCALE(FIX_2_80400 * x)
       [] out = "B" /\ in = "Cb" -> DESCALE(FIX_3_54400 * x)
       [] out = "G" /\ in = "Cr" -> -FIX_1_42827 * x
       [] out = "G" /\ in = "Cb" -> -FIX_0_68827 * x + ONE_HALF

Chroma(bg, out, in, i) ==
  IF bg THEN build_bg_ycc_rgb_table(out, in, i) ELSE build_ycc_rgb_table(out, in, i)

\* What the chroma adds to the luminance in red, green and blue.
ChromaOf(bg, cb, cr) ==
  <<Chroma(bg, "R", "Cr", cr),
    (Chroma(bg, "G", "Cb", cb) + Chroma(bg, "G", "Cr", cr)) \div SCALEBITS,
    Chroma(bg, "B", "Cb", cb)>>

ycc_rgb_convert(bg, p) ==
  LET c == ChromaOf(bg, p[2], p[3]) IN [i \in 1..3 |-> range_limit(p[1] + c[i])]

ycck_cmyk_convert(p) ==
  LET c == ChromaOf(FALSE, p[2], p[3])
  IN [i \in 1..3 |-> range_limit(MAXJSAMPLE - (p[1] + c[i]))] \o <<p[4]>>

\* The luminance tables, shared by the converters from RGB and CMYK.
build_rgb_y_table(in, i) ==
  CASE in = "R" -> FIX_0_29900 * i
    [] in = "G" -> FIX_0_58700 * i
    [] in = "B" -> FIX_0_11400 * i + ONE_HALF

Luminance(r, g, b) ==
  (build_rgb_y_table("R", r) + build_rgb_y_table("G", g) + build_rgb_y_table("B", b)) \div SCALEBITS

d_rgb_gray_convert(p) == <<Luminance(p[1], p[2], p[3])>>
rgb1_rgb_convert(p) ==
  <<Masked(p[1] + p[2] - CENTERJSAMPLE), p[2], Masked(p[3] + p[2] - CENTERJSAMPLE)>>
rgb1_gray_convert(p) ==
  <<Luminance(Masked(p[1] + p[2] - CENTERJSAMPLE), p[2], Masked(p[3] + p[2] - CENTERJSAMPLE))>>
d_rgb_convert(p) == p
d_null_convert(p) == p
d_grayscale_convert(p) == <<p[1]>>
gray_rgb_convert(p) == <<p[1], p[1], p[1]>>
cmyk_yk_convert(p) == <<Luminance(MAXJSAMPLE - p[1], MAXJSAMPLE - p[2], MAXJSAMPLE - p[3]), p[4]>>

decompress_convert(name, p) ==
  CASE name = "grayscale" -> d_grayscale_convert(p)
    [] name = "rgb_gray" -> d_rgb_gray_convert(p)
    [] name = "rgb1_gray" -> rgb1_gray_convert(p)
    [] name = "gray_rgb" -> gray_rgb_convert(p)
    [] name = "ycc_rgb" -> ycc_rgb_convert(FALSE, p)
    [] name = "bg_ycc_rgb" -> ycc_rgb_convert(TRUE, p)
    [] name = "rgb" -> d_rgb_convert(p)
    [] name = "rgb1_rgb" -> rgb1_rgb_convert(p)
    [] name = "ycck_cmyk" -> ycck_cmyk_convert(p)
    [] name = "cmyk_yk" -> cmyk_yk_convert(p)
    [] name = "null" -> d_null_convert(p)

\* jinit_color_deconverter; the caller has left the components needed.
jinit_color_deconverter(jpeg, n, out, subtractGreen, needed) ==
  LET refused == ~NeedsComponents(jpeg, n) \/ (subtractGreen /\ jpeg \notin {"RGB", "BG_RGB"})
      onlyYK == jpeg = "CMYK" /\ needed = {1, 4}
  IN IF refused THEN "error"
     ELSE CASE out = "GRAYSCALE" /\ jpeg \in {"GRAYSCALE", "YCbCr", "BG_YCC"} -> "grayscale"
            [] out = "GRAYSCALE" /\ jpeg = "RGB" -> IF subtractGreen THEN "rgb1_gray" ELSE "rgb_gray"
            [] out = "RGB" /\ jpeg = "GRAYSCALE" -> "gray_rgb"
            [] out = "RGB" /\ jpeg = "YCbCr" -> "ycc_rgb"
            [] out = "RGB" /\ jpeg = "BG_YCC" -> "bg_ycc_rgb"
            [] out \in {"RGB", "BG_RGB"} /\ jpeg = out -> IF subtractGreen THEN "rgb1_rgb" ELSE "rgb"
            [] out = "CMYK" /\ jpeg = "YCCK" -> "ycck_cmyk"
            [] out = "YCCK" /\ onlyYK -> "cmyk_yk"
            [] out \notin {"GRAYSCALE", "RGB", "BG_RGB"} /\ out = jpeg -> "null"
            [] OTHER -> "error"
=============================================================================
