------------------------------- MODULE Kernels -------------------------------
(***************************************************************************)
(* The arithmetic of the reference library at work: forward DCTs, colour   *)
(* conversion, lossless transformation and colour quantisation, each held  *)
(* against a definition of what it is for.                                 *)
(*                                                                         *)
(* The library calls these routines through method pointers and they keep  *)
(* nothing between calls, but for the quantisers, which carry dither       *)
(* errors, a histogram and an inverse colour map from row to row and from  *)
(* pass to pass.  The variable job holds the call that was made, with what *)
(* it was given and what it returned; a quantiser's job goes on.           *)
(***************************************************************************)
EXTENDS Transform, ColorQuant

CONSTANTS
  DctInputs,       \* [sample, q, halved]: samples at <<x, y>> and a quantiser step
  Levels,          \* the samples that pixels are made of
  Pictures,        \* images to transform
  CropSpecs,       \* crop specifications, as sequences of tokens
  Drops,           \* instances of two images to be combined
  ExifBlocks,      \* [data, motorola, widthAt, heightAt]: Exif data and its entries for the size
  Rows,            \* rows of pixels to quantise
  OnePassMaps,     \* [nc, rgb, desired]: one-pass quantisers
  ColorMaps,       \* colour maps that an application installs
  MaxRows          \* bound: calls of a quantiser

\* Samples have 8 bits (BITS_IN_JSAMPLE).
ASSUME LevelsAssumption == Levels \subseteq 0..MAXJSAMPLE

\* A picture has a column at least and its rows are as wide as it is; three components
\* are quantised in two passes.  A colour map has a colour at least.
ASSUME RowsAssumption ==
  Rows \subseteq Seq([1..3 -> 0..MAXJSAMPLE]) \ {<< >>} /\ \A r, s \in Rows : Len(r) = Len(s)
ASSUME ColorMapsAssumption == ColorMaps \subseteq Seq([1..3 -> 0..MAXJSAMPLE]) \ {<< >>}

F == INSTANCE Fdct

VARIABLE job

Idle == [kind |-> "idle"]
Init == job = Idle

------------------------------------------------------------------------------
(* Forward DCT of one block of w x h samples. *)

ForwardDct ==
  \E size \in F!ScaledSizes, in \in DctInputs :
    LET block == [y \in 0..size[2] - 1 |-> [x \in 0..size[1] - 1 |-> in.sample[<<x, y>>]]]
    IN /\ job = Idle
       /\ job' = [kind |-> "dct", w |-> size[1], h |-> size[2], block |-> block, q |-> in.q,
                  halved |-> in.halved,
                  coefs |-> F!forward_DCT(size[1], size[2], block, in.q, in.halved)]

(* The cosine by its Taylor series, in units of 2^-14, for angles k * pi / 2N. *)
Unit == 16384
HalfPi == 25736               \* pi / 2
Cosine(k, n) ==               \* 0 <= k <= n
  LET angle == (HalfPi * k) \div n
      square == (angle * angle) \div Unit
      term[i \in 0..6] == IF i = 0 THEN Unit
                          ELSE -((term[i - 1] * (square \div 2)) \div (Unit \div 2)) \div ((2 * i - 1) * 2 * i)
  IN term[0] + term[1] + term[2] + term[3] + term[4] + term[5] + term[6]
\* cos(m * pi / 2N) for any m
CosineOf(m, n) ==
  LET r == m % (4 * n)
  IN CASE r <= n -> Cosine(r, n)
       [] r > n /\ r <= 2 * n -> -Cosine(2 * n - r, n)
       [] r > 2 * n /\ r <= 3 * n -> -Cosine(r - 2 * n, n)
       [] r > 3 * n -> Cosine(4 * n - r, n)
\* The basis of the DCT of n points: 1 for k = 0, else the square root of 2 times the
\* cosine; in units of 2^-12.
Basis == [n \in 1..16 |-> [k \in 0..7 |-> [x \in 0..n - 1 |->
            IF k = 0 THEN 4096 ELSE (CosineOf((2 * x + 1) * k, n) * 5793) \div Unit]]]

SumTo(n, V(_)) == LET sum[i \in 0..n] == IF i = 0 THEN 0 ELSE sum[i - 1] + V(i - 1) IN sum[n]
LeastNat(a, b) == IF a < b THEN a ELSE b

\* The DCT of a block, scaled as jfdctint.c scales it: by 8/w and 8/h.
DctOf(w, h, block) ==
  LET row == [y \in 0..h - 1 |-> [u \in 0..LeastNat(w, 8) - 1 |->
                SumTo(w, LAMBDA x : (block[y][x] - 128) * Basis[w][u][x]) \div 256]]
      sum(u, v) == SumTo(h, LAMBDA y : (row[y][u] * Basis[h][v][y]) \div 16)
  IN [v \in 0..LeastNat(h, 8) - 1 |-> [u \in 0..LeastNat(w, 8) - 1 |->
        (((sum(u, v) \div 256) * 64) \div (w * h)) \div 16]]

\* One sum of the 12-point row pass and one of the 14-point lack their scale factor;
\* see the README.
LosesScale(w, u) == <<w, u>> \in {<<12, 2>>, <<14, 1>>}

AccurateFor(j) ==
  LET expected == DctOf(j.w, j.h, j.block)
      step == F!divisor(j.q, j.halved)
      off(v, u) == j.coefs[v][u] * step
                   - (IF v \in DOMAIN expected /\ u \in DOMAIN expected[v] THEN expected[v][u] ELSE 0)
  IN \A v, u \in 0..7 :
       ~LosesScale(j.w, u) => off(v, u) <= step \div 2 + 3 /\ -off(v, u) <= step \div 2 + 3

------------------------------------------------------------------------------
(* Colour: a pixel is compressed, its chroma halved where the forward DCT does
   so, and decompressed. *)

ComponentsOf(space) ==
  CASE space = "GRAYSCALE" -> 1 [] space \in {"CMYK", "YCCK"} -> 4 [] OTHER -> 3
Spaces == {"GRAYSCALE", "RGB", "YCbCr", "CMYK", "YCCK", "BG_RGB", "BG_YCC"}

HalfChroma(halved, p) ==
  [i \in DOMAIN p |-> IF halved /\ i > 1 THEN 128 + F!quantised(p[i] - 128, 2) ELSE p[i]]

ConvertColours ==
  \E in, jpeg, out \in Spaces, sub \in BOOLEAN : \E needed \in {1..ComponentsOf(jpeg), {1, 4}} :
    LET n == ComponentsOf(jpeg)
        to == jinit_color_converter(in, ComponentsOf(in), jpeg, n, sub)
        from == jinit_color_deconverter(jpeg, n, out, sub, needed)
    IN /\ job = Idle
       /\ needed = {1, 4} => from = "cmyk_yk"
       /\ job' = [kind |-> "colour", in |-> in, jpeg |-> jpeg, out |-> out, from |-> from,
                  halved |-> to.halved, refused |-> to.name = "error" \/ from = "error",
                  pixels |-> IF to.name = "error" \/ from = "error" THEN << >>
                             ELSE [p \in [1..ComponentsOf(in) -> Levels] |->
                                     decompress_convert(from,
                                       HalfChroma(to.halved, compress_convert(to.name, p)))]]

(* What the samples of a colour space stand for, in thousandths: red, green and
   blue, and the luminance. *)
YccColour(p, scale) ==
  LET y == 1000 * p[1]
      cb == scale * (p[2] - 128)
      cr == scale * (p[3] - 128)
  IN <<y + 1402 * cr, y - 344 * cb - 714 * cr, y + 1772 * cb>>
Inverted(c) == [i \in 1..3 |-> 255000 - c[i]]
ColourOf(space, p) ==
  CASE space = "GRAYSCALE" -> [i \in 1..3 |-> 1000 * p[1]]
    [] space \in {"RGB", "BG_RGB"} -> [i \in 1..3 |-> 1000 * p[i]]
    [] space = "YCbCr" -> YccColour(p, 1)
    [] space = "BG_YCC" -> YccColour(p, 2)
    [] space = "CMYK" -> Inverted([i \in 1..3 |-> 1000 * p[i]])
    [] space = "YCCK" -> YccColour(p, 1)
LuminanceOf(c) == (299 * (c[1] \div 10) + 587 * (c[2] \div 10) + 114 * (c[3] \div 10)) \div 100

Near(a, b, tolerance) == a - b <= tolerance /\ b - a <= tolerance
InGamut(x) == IF x < 0 THEN 0 ELSE IF x > 255000 THEN 255000 ELSE x

\* The colour comes out, but for rounding; gray is what is left of it where a
\* gray space is on the way; black is kept as it is.
ColourKeptBy(j) ==
  LET tolerance == IF j.halved THEN 4200 ELSE 2200
      gray == j.jpeg = "GRAYSCALE" \/ j.out = "GRAYSCALE" \/ j.from = "cmyk_yk"
  IN \A p \in DOMAIN j.pixels :
       LET was == ColourOf(j.in, p)
           r == j.pixels[p]
       IN /\ IF gray
             THEN Near(InGamut(LuminanceOf(was)), 1000 * r[1], 2200)
                  /\ (j.out \in {"RGB", "BG_RGB"} => r[2] = r[1] /\ r[3] = r[1])
             ELSE \A i \in 1..3 : Near(InGamut(was[i]), InGamut(ColourOf(j.out, r)[i]), tolerance)
          /\ ComponentsOf(j.in) = 4 /\ ComponentsOf(j.out) = 4 => r[Len(r)] = p[4]

------------------------------------------------------------------------------
(* Lossless transformation: jpegtran with its switches. *)

Transforms == {"NONE", "FLIP_H", "FLIP_V", "TRANSPOSE", "TRANSVERSE", "ROT_90", "ROT_180",
               "ROT_270", "WIPE", "DROP"}

\* The number of blocks of a component, whole iMCUs, and coefficients that tell
\* every block of every component from the others.
BlocksOf(image, c) ==
  LET across(full, most, factor) == jdiv_round_up(full, most * BlockSide) * factor
  IN [w |-> across(image.width, max_h_samp_factor(image), image.comps[c].h),
      h |-> across(image.height, max_v_samp_factor(image), image.comps[c].v)]
CoefficientsOf(image, seed) ==
  [c \in DOMAIN image.comps |->
     LET n == BlocksOf(image, c)
     IN [y \in 0..n.h - 1 |-> [x \in 0..n.w - 1 |->
           [i \in Frequencies |-> [j \in Frequencies |->
              IF i = 0 /\ j = 0 THEN seed + 1000 * c + 32 * (y * n.w + x) ELSE 2 * i + 3 * j]]]]]

\* The switches exclude each other: -wipe and -drop give the region, and the drop
\* file gives its own size.
RequestFor(t, crop, dropped) ==
  IF t = "DROP" THEN [crop EXCEPT !.w = dropped.width, !.wset = "POS", !.h = dropped.height, !.hset = "POS"]
  ELSE crop

\* do_drop copies whole iMCUs; an image whose own iMCUs are smaller need not have as
\* many blocks at its edges, and what is copied then is not the picture's.
HasBlocksFor(dropped, dst, info) ==
  \A c \in DOMAIN dropped.comps \cap DOMAIN dst.comps :
    /\ info.drop_width * dst.comps[c].h <= BlocksOf(dropped, c).w
    /\ info.drop_height * dst.comps[c].v <= BlocksOf(dropped, c).h

Jpegtran ==
  \E src, dropped \in Pictures, t \in Transforms, spec \in CropSpecs, perfect, trim, gray \in BOOLEAN :
    LET parsed == jtransform_parse_crop_spec(spec)
        req == [transform |-> t, perfect |-> perfect, trim |-> trim, force_grayscale |-> gray,
                crop |-> RequestFor(t, parsed, dropped)]
        info == jtransform_request_workspace(src, req, dropped)
        coefs == CoefficientsOf(src, 0)
        dropCoefs == CoefficientsOf(dropped, 500)
        dst == jtransform_adjust_parameters(src, req, info)
    IN /\ job = Idle
       /\ t \in {"WIPE", "DROP"} => parsed.crop
       /\ t # "DROP" => dropped = src
       /\ spec # << >> => parsed.crop
       /\ gray => GrayPossible(src)
       /\ perfect => spec = << >>
       /\ t = "DROP" /\ info.status = "ok" => HasBlocksFor(dropped, dst, info)
       /\ job' = IF info.status # "ok" THEN [kind |-> "refused", req |-> req, src |-> src, why |-> info.status]
                 ELSE [kind |-> "moved", src |-> src, req |-> req, info |-> info, dst |-> dst,
                       coefs |-> coefs, dropCoefs |-> dropCoefs, dropped |-> dropped,
                       result |-> jtransform_execute_transform(src, dst, req, info, coefs, dropCoefs)]

(* What the transformations promise, sample by sample. *)

\* Two-point inverse DCTs: the samples of a component from its blocks.
SampleAt(blocks, x, y) ==
  LET b == blocks[y \div 2][x \div 2]
      sx == IF Odd(x) THEN -1 ELSE 1
      sy == IF Odd(y) THEN -1 ELSE 1
  IN b[0][0] + sx * b[0][1] + sy * b[1][0] + sx * sy * b[1][1]

\* A length of the output image in samples of component c.
Across(dst, c, length) == jdiv_round_up(length * dst.comps[c].h, max_h_samp_factor(dst))
Down(dst, c, length) == jdiv_round_up(length * dst.comps[c].v, max_v_samp_factor(dst))

\* Mirrored as far as the source consists of whole iMCUs; what remains cannot be moved.
Mirrored(k, whole) == IF k < whole THEN whole - 1 - k ELSE k

\* The sample of the source that belongs at <<u, v>> of the transformed image.
SourceOf(t, u, v, wholeW, wholeH) ==
  LET mu == Mirrored(u, wholeW)
      mv == Mirrored(v, wholeH)
  IN CASE t = "NONE" -> <<u, v>> [] t = "FLIP_H" -> <<mu, v>> [] t = "FLIP_V" -> <<u, mv>>
       [] t = "TRANSPOSE" -> <<v, u>> [] t = "TRANSVERSE" -> <<mv, mu>>
       [] t = "ROT_90" -> <<v, mu>> [] t = "ROT_270" -> <<mv, u>> [] t = "ROT_180" -> <<mu, mv>>

Turned(t) == t \in Transposing
FullW(j) == IF Turned(j.req.transform) THEN j.src.height ELSE j.src.width
FullH(j) == IF Turned(j.req.transform) THEN j.src.width ELSE j.src.height
WholeOf(full, imcu) == (full \div imcu) * imcu

\* The picture inside the frame of the source.
MovedSample(j, c, x, y) ==
  LET i == j.info
      whole == <<Across(j.dst, c, WholeOf(FullW(j), i.imcuW)), Down(j.dst, c, WholeOf(FullH(j), i.imcuH))>>
      from == SourceOf(j.req.transform, x + Across(j.dst, c, i.x_crop_offset * i.imcuW),
                       y + Down(j.dst, c, i.y_crop_offset * i.imcuH), whole[1], whole[2])
  IN SampleAt(j.coefs[c], from[1], from[2])

\* The frame is larger than the source: gray around it, or the edge blocks' averages
\* or the mirrored source to its left and right.
Triangle(k, n) == LET m == k % (2 * n) IN IF m < n THEN m ELSE 2 * n - 1 - m
ExtendedSample(j, c, x, y) ==
  LET i == j.info
      wider == j.dst.width > j.src.width
      taller == j.dst.height > j.src.height
      w == Across(j.dst, c, WholeOf(j.src.width, i.imcuW))
      h == Down(j.dst, c, WholeOf(j.src.height, i.imcuH))
      ox == Across(j.dst, c, i.x_crop_offset * i.imcuW)
      oy == Down(j.dst, c, i.y_crop_offset * i.imcuH)
      u == IF wider THEN x - ox ELSE x + ox
      v == IF taller THEN y - oy ELSE y + oy
      edge == IF u < 0 THEN 0 ELSE w - 1
  IN IF taller /\ ~(v >= 0 /\ v < h) THEN 0
     ELSE IF ~wider \/ (u >= 0 /\ u < w) THEN SampleAt(j.coefs[c], u, v)
     ELSE CASE j.req.crop.wset = "FORCE" -> j.coefs[c][v \div 2][edge \div 2][0][0]
            [] j.req.crop.wset = "REFLECT" -> SampleAt(j.coefs[c], Triangle(u, w), v)
            [] OTHER -> 0

\* The region to wipe or to drop into, in samples of component c.
RegionOf(j, c) ==
  LET i == j.info
      x0 == i.x_crop_offset * i.imcuW
      y0 == i.y_crop_offset * i.imcuH
  IN [x0 |-> Across(j.dst, c, x0), x1 |-> Across(j.dst, c, x0 + i.drop_width * i.imcuW),
      y0 |-> Down(j.dst, c, y0), y1 |-> Down(j.dst, c, y0 + i.drop_height * i.imcuH)]
InsideRegion(r, x, y) == x >= r.x0 /\ x < r.x1 /\ y >= r.y0 /\ y < r.y1

\* A dropped image fills its region; a wiped region is gray, or it is filled from
\* the picture left or right of it.
WipedSample(j, c, x, y) ==
  LET r == RegionOf(j, c)
      w == BlocksOf(j.dst, c).w * 2
      left == r.x0 > 0
      right == r.x1 < Across(j.dst, c, j.dst.width)
      dc(u) == j.coefs[c][y \div 2][u \div 2][0][0]
      reflect == /\ j.req.crop.wset = "REFLECT" /\ r.y0 = 0 /\ r.y1 >= Down(j.dst, c, j.dst.height)
                 /\ (r.x0 = 0 \/ r.x1 >= Across(j.dst, c, j.dst.width))
      flat == IF left /\ right THEN (dc(r.x0 - 1) + dc(r.x1)) \div 2
              ELSE IF left THEN dc(r.x0 - 1) ELSE IF right THEN dc(r.x1) ELSE 0
  IN CASE reflect /\ left -> SampleAt(j.coefs[c], Triangle(r.x0 - 1 - (x - r.x0), r.x0), y)
       [] reflect /\ ~left /\ right ->
            SampleAt(j.coefs[c], r.x1 + Triangle(r.x1 - 1 - x, w - r.x1), y)
       [] reflect /\ ~left /\ ~right -> 0
       [] ~reflect /\ j.req.crop.wset = "FORCE" -> flat
       [] OTHER -> 0

Expected(j, c, x, y) ==
  LET r == RegionOf(j, c)
      t == j.req.transform
  IN CASE t = "DROP" /\ InsideRegion(r, x, y) ->
            IF c \in DOMAIN j.dropCoefs THEN SampleAt(j.dropCoefs[c], x - r.x0, y - r.y0) ELSE 0
       [] t = "WIPE" /\ InsideRegion(r, x, y) -> WipedSample(j, c, x, y)
       [] t \in {"DROP", "WIPE"} /\ ~InsideRegion(r, x, y) -> SampleAt(j.coefs[c], x, y)
       [] t = "NONE" /\ (j.dst.width > j.src.width \/ j.dst.height > j.src.height) ->
            ExtendedSample(j, c, x, y)
       [] OTHER -> MovedSample(j, c, x, y)

SamplesMoved(j) ==
  \A c \in DOMAIN j.dst.comps :
    \A x \in 0..Across(j.dst, c, j.dst.width) - 1, y \in 0..Down(j.dst, c, j.dst.height) - 1 :
      SampleAt(j.result[c], x, y) = Expected(j, c, x, y)

\* Along one axis the window that was asked for is honoured: a crop starts less
\* than an iMCU before it and ends with it; a wipe covers it with less than an iMCU
\* to spare on either side; a drop stays inside it.
AxisHonoured(t, size, set, off, offSet, full, out, start, drop, imcu) ==
  LET real == IF set = "UNSET" THEN full - off ELSE size
      first == IF offSet = "NEG" THEN full - real - off ELSE off
      begin == start * imcu
      end == begin + drop * imcu
  IN CASE real > full -> out = real
       [] real <= full /\ t = "WIPE" ->
            /\ begin <= first /\ first < begin + imcu
            /\ end >= first + real /\ end < first + real + imcu
       [] real <= full /\ t = "DROP" ->
            drop # 0 => begin >= first /\ (end <= first + real \/ first + real = full)
       [] OTHER -> /\ begin <= first /\ first < begin + imcu
                   /\ IF set = "FORCE" THEN out = real ELSE begin + out = first + real

RegionHonoured(j) ==
  LET c == j.req.crop
      i == j.info
  IN c.crop /\ ~j.req.trim =>
       /\ AxisHonoured(j.req.transform, c.w, c.wset, c.x, c.xset, FullW(j), i.output_width,
                       i.x_crop_offset, i.drop_width, i.imcuW)
       /\ AxisHonoured(j.req.transform, c.h, c.hset, c.y, c.yset, FullH(j), i.output_height,
                       i.y_crop_offset, i.drop_height, i.imcuH)

\* With -perfect every sample is moved; with -trim, every sample of the output was,
\* unless not even one iMCU fits.
Turns(t) == IF t \in {"FLIP_H", "TRANSVERSE", "ROT_90", "ROT_180"} THEN {"x"} ELSE {}
TurnsDown(t) == IF t \in {"FLIP_V", "TRANSVERSE", "ROT_180", "ROT_270"} THEN {"y"} ELSE {}
WholeOutput(j) ==
  LET i == j.info
      t == j.req.transform
      moved(start, out, imcu, full) == start * imcu + out <= WholeOf(full, imcu) \/ out < imcu
  IN j.req.perfect \/ j.req.trim =>
       /\ Turns(t) # {} => moved(i.x_crop_offset, i.output_width, i.imcuW, FullW(j))
       /\ TurnsDown(t) # {} => moved(i.y_crop_offset, i.output_height, i.imcuH, FullH(j))

------------------------------------------------------------------------------
(* What else goes into the transformed file: coefficients of two images in one
   unit, the size in the Exif data, and the copied markers. *)

AdjustQuant ==
  \E d \in Drops, trim \in BOOLEAN :
    /\ job = Idle
    /\ job' = [kind |-> "units", of |-> d, trim |-> trim,
               result |-> adjust_quant(d.tblno, d.srcQ, d.dropQ, d.src, d.drop, d.tables, trim)]

AdjustExif ==
  \E e \in ExifBlocks, w, h \in {1, 300, 65535} :
    /\ job = Idle
    /\ job' = [kind |-> "exif", of |-> e, width |-> w, height |-> h,
               result |-> adjust_exif_parameters(e.data, w, h)]

\* The markers that a source file may carry.
SourceMarkers ==
  {[code |-> "COM", tag |-> "text"], [code |-> "APP0", tag |-> "JFIF"], [code |-> "APP1", tag |-> "Exif"],
   [code |-> "APP1", tag |-> "XMP"], [code |-> "APP14", tag |-> "Adobe"]}
CopyMarkers ==
  \E markers \in UNION {[1..n -> SourceMarkers] : n \in 0..3}, option \in {"NONE", "COMMENTS", "ALL"},
     header \in {"JFIF", "Adobe", "none"} :
    LET saved == jcopy_markers_setup(option, markers)
        jfif == writes_JFIF_header(saved, header = "JFIF")
    IN /\ job = Idle
       /\ job' = [kind |-> "markers", markers |-> markers, option |-> option, header |-> header,
                  file |-> (IF jfif THEN <<[code |-> "APP0", tag |-> "JFIF"]>> ELSE << >>)
                           \o (IF header = "Adobe" THEN <<[code |-> "APP14", tag |-> "Adobe"]>> ELSE << >>)
                           \o jcopy_markers_execute(saved, jfif, header = "Adobe")]

\* Both images stand for the same values as before, in the units of the table that
\* the file tells for the component; with -trim the dropped image is rounded.
UnitsKept(j) ==
  LET d == j.of
      r == j.result
  IN \A c \in DOMAIN d.src \cap DOMAIN d.drop : \A k \in DOMAIN d.src[c] :
       LET unit == r.tables[d.tblno[c]][k]
       IN /\ r.src[c][k] * unit = d.src[c][k] * d.srcQ[c][k]
          /\ IF j.trim THEN Near(2 * r.drop[c][k] * unit, 2 * d.drop[c][k] * d.dropQ[c][k], unit)
             ELSE r.drop[c][k] * unit = d.drop[c][k] * d.dropQ[c][k]

\* A reader of the Exif data finds the new size, and everything else as it was.
ExifTells(j) ==
  LET e == j.of
      byte(i, k) == j.result[IF e.motorola THEN i + 3 - k ELSE i + k]
      tells(i, n) == /\ byte(i, 0) = n % 256 /\ byte(i, 1) = n \div 256
                     /\ byte(i, 2) = 0 /\ byte(i, 3) = 0
  IN \A i \in DOMAIN e.data :
       IF i \in e.widthAt + 2..e.widthAt + 11 \/ i \in e.heightAt + 2..e.heightAt + 11
       THEN tells(e.widthAt + 8, j.width) /\ tells(e.heightAt + 8, j.height)
       ELSE j.result[i] = e.data[i]

\* A file has one JFIF and one Adobe marker at most when the source had, an Exif
\* marker that was first stays first, and the copied markers keep their order.
MarkersCopied(j) ==
  LET only(s, m) == SelectSeq(s, LAMBDA n : n = m)
      wanted(m) == j.option = "ALL" \/ (j.option = "COMMENTS" /\ m.code = "COM")
      own == {m \in SourceMarkers : m.tag \in {"JFIF", "Adobe"}}
      rest(s) == SelectSeq(s, LAMBDA n : n \notin own)
  IN /\ rest(j.file) = SelectSeq(rest(j.markers), wanted)
     /\ \A m \in own : Len(only(j.markers, m)) <= 1 => Len(only(j.file, m)) <= 1
     /\ j.option = "ALL" /\ j.header # "Adobe" /\ j.markers # << >> /\ j.markers[1].tag = "Exif"
          => j.file[1].tag = "Exif"

------------------------------------------------------------------------------
(* Colour quantisation.  A one-pass quantiser may change its dithering between
   passes; a two-pass quantiser sees the picture once before it chooses colours. *)

Modes == {"NONE", "ORDERED", "FS"}
WidthOfRows == CHOOSE n \in {Len(r) : r \in Rows} : TRUE

StartOnePass ==
  \E m \in OnePassMaps, mode \in Modes :
    LET q == jinit_1pass_quantizer(m.nc, m.rgb, m.desired, mode)
    IN /\ job = Idle
       /\ job' = IF q = << >> THEN [kind |-> "refused", req |-> m, src |-> mode, why |-> "quantizer"]
                 ELSE [kind |-> "onepass", n |-> 0, in |-> << >>, out |-> << >>,
                       q |-> start_pass_1_quant(q[1], mode, WidthOfRows)]

RowOf(nc, row) == [x \in DOMAIN row |-> [i \in 1..nc |-> row[x][i]]]
OnePassRow ==
  \E row \in Rows :
    /\ job.kind = "onepass" /\ job.n < MaxRows
    /\ LET nc == Len(job.q.ncolors)
           r == quantize_row_1(job.q, RowOf(nc, row))
       IN job' = [job EXCEPT !.n = @ + 1, !.q = r.q, !.in = Append(@, RowOf(nc, row)), !.out = Append(@, r.out)]

\* Another pass, after a row at least.
OnePassAgain ==
  \E mode \in Modes :
    /\ job.kind = "onepass" /\ job.n < MaxRows /\ job.in # << >>
    /\ job' = [job EXCEPT !.n = @ + 1, !.in = << >>, !.out = << >>,
                          !.q = start_pass_1_quant(job.q, mode, WidthOfRows)]

StartTwoPass ==
  \E mode \in Modes, desired \in {4, 8} :
    LET q == jinit_2pass_quantizer(3, desired, mode)
    IN /\ job = Idle
       /\ job' = IF q = << >> THEN [kind |-> "refused", req |-> desired, src |-> mode, why |-> "quantizer"]
                 ELSE [kind |-> "twopass", n |-> 0, in |-> << >>, out |-> << >>,
                       q |-> start_pass_2_quant(q[1], mode, TRUE, WidthOfRows)]

TwoPassRow ==
  \E row \in Rows :
    /\ job.kind = "twopass" /\ job.n < MaxRows
    /\ LET r == quantize_row_2(job.q, row)
       IN job' = [job EXCEPT !.n = @ + 1, !.q = r.q, !.in = Append(@, row), !.out = Append(@, r.out)]

\* The end of a pass and the start of the next, which maps the picture, or looks at
\* another picture of a buffered image.
TwoPassNext ==
  \E mode \in Modes, preScan \in BOOLEAN :
    /\ job.kind = "twopass" /\ job.n < MaxRows /\ job.in # << >>
    /\ preScan => job.q.pass = "map"
    /\ job' = [job EXCEPT !.n = @ + 1, !.in = << >>, !.out = << >>,
                          !.q = start_pass_2_quant(finish_pass_2_quant(job.q), mode, preScan, WidthOfRows)]

\* Between two passes of a buffered image the application may install a colour map.
NewColorMap ==
  \E map \in ColorMaps, mode \in Modes :
    /\ job.kind = "twopass" /\ job.n < MaxRows /\ job.q.pass = "map"
    /\ job' = [job EXCEPT !.n = @ + 1, !.in = << >>, !.out = << >>,
                          !.q = start_pass_2_quant(new_color_map_2_quant(finish_pass_2_quant(job.q), map),
                                                   mode, FALSE, WidthOfRows)]

(* Floyd and Steinberg's dithering of the rows of one pass, seen from the pixel that
   receives: 7 sixteenths of the error of the pixel before it in its row, and 3, 5 and
   1 of those of the row above, which ran the other way.  in(y, x) is a sample, out(y, x)
   the sample that was chosen; the result is the value that the choice was made for. *)
Diffused(rows, width, in(_, _), out(_, _), limit(_)) ==
  LET dir(y) == IF y % 2 = 1 THEN 1 ELSE -1
      err[y \in 0..rows, x \in 0..width + 1] ==
        IF y = 0 \/ x = 0 \/ x = width + 1 THEN 0
        ELSE LET d == dir(y)
                 sum == 7 * err[y, x - d] + 3 * err[y - 1, x - d] + 5 * err[y - 1, x] + err[y - 1, x + d]
             IN range_limit(limit((sum + 8) \div 16) + in(y, x)) - out(y, x)
  IN [y \in 1..rows |-> [x \in 1..width |-> err[y, x] + out(y, x)]]

\* The value of component i of colour number code.
ValueOf(q, i, code) == q.colormap[i][code]
\* Every colour number names the nearest colour; with ordered dithering, one of the
\* two colours around the sample.
LevelsNearest(j) ==
  \A i \in DOMAIN j.q.ncolors :
    LET sample(y, x) == j.in[y][x][i]
        got(y, x) == ValueOf(j.q, i, j.out[y][x])
        width == IF j.in = << >> THEN 0 ELSE Len(j.in[1])
        levels == {output_value(v, j.q.ncolors[i] - 1) : v \in 0..j.q.ncolors[i] - 1}
        away(v, s) == IF v > s THEN v - s ELSE s - v
        nearest(v, s) == \A l \in levels : away(v, s) <= away(l, s) + 1   \* a breakpoint is rounded
        fs == IF j.q.mode = "FS" THEN Diffused(Len(j.in), width, sample, got, LAMBDA x : x) ELSE << >>
    IN \A y \in DOMAIN j.out : \A x \in DOMAIN j.out[y] :
         CASE j.q.mode = "NONE" -> nearest(got(y, x), sample(y, x))
           [] j.q.mode = "ORDERED" ->
                ~\E l \in levels : \/ sample(y, x) < l /\ l < got(y, x)
                                   \/ got(y, x) < l /\ l < sample(y, x)
           [] j.q.mode = "FS" -> nearest(got(y, x), fs[y][x])

\* The distance of two colours as jquant2 weighs it.
Distance(p, c) == Square(2 * (p[1] - c[1])) + Square(3 * (p[2] - c[2])) + Square(p[3] - c[3])
\* Every cell of the inverse map names a colour of the map in use that is nearest to
\* the centre of the cell.
CacheNearest(j) ==
  j.q.pass = "map" =>
    \A c \in DOMAIN j.q.histogram : j.q.histogram[c] # 0 =>
      /\ j.q.histogram[c] \in DOMAIN j.q.colormap
      /\ LET d == Distance(CellCentre(c), j.q.colormap[j.q.histogram[c]])
         IN \A i \in DOMAIN j.q.colormap : d <= Distance(CellCentre(c), j.q.colormap[i])

\* The picture is mapped through the inverse map, dithered or not.
MappedThroughCache(j) ==
  j.q.pass = "map" /\ j.in # << >> =>
    LET width == Len(j.in[1])
        v == [a \in Axes |->
                IF j.q.mode = "FS"
                THEN Diffused(Len(j.in), width, LAMBDA y, x : j.in[y][x][a],
                              LAMBDA y, x : j.q.colormap[j.out[y][x] + 1][a], init_error_limit)
                ELSE [y \in DOMAIN j.in |-> [x \in 1..width |-> j.in[y][x][a]]]]
    IN \A y \in DOMAIN j.out, x \in 1..width :
         j.out[y][x] = CountAt(j.q.histogram, CellOf([a \in Axes |-> v[a][y][x]])) - 1

------------------------------------------------------------------------------
Next ==
  \/ ForwardDct \/ ConvertColours \/ Jpegtran
  \/ AdjustQuant \/ AdjustExif \/ CopyMarkers
  \/ StartOnePass \/ OnePassRow \/ OnePassAgain
  \/ StartTwoPass \/ TwoPassRow \/ TwoPassNext \/ NewColorMap

Spec == Init /\ [][Next]_job

\* Quantised DCT coefficients are those of the cosine transform of the samples, scaled
\* by 8/w and 8/h, to three units of rounding before the division (jfdctint.c,
\* jcdctmgr.c), for every size and every coefficient whose sums have their scale.
FdctAccurate == job.kind = "dct" => AccurateFor(job)

\* A colour goes through any pair of converters that the two selections allow and is
\* the same colour in the output space (jccolor.c, jdcolor.c, jcdctmgr.c).
ColourKept == job.kind = "colour" => ColourKeptBy(job)

\* jpegtran puts every sample where the transformation says, extends, wipes and drops
\* as it was asked, and honours -crop, -perfect and -trim (transupp.c).
PictureMoved == job.kind = "moved" => SamplesMoved(job) /\ RegionHonoured(job) /\ WholeOutput(job)

\* The transformed file is consistent with itself: coefficients in the units of its
\* tables, Exif data with its size, no second JFIF or Adobe marker (transupp.c).
FileConsistent ==
  /\ job.kind = "units" => UnitsKept(job)
  /\ job.kind = "exif" => ExifTells(job)
  /\ job.kind = "markers" => MarkersCopied(job)

\* One-pass quantisation chooses the nearest colours, of the sample or of the sample with
\* the errors diffused to it, whatever passes went before (jquant1.c); in the second of two
\* passes every pixel has the colour that the inverse map names for it with the errors
\* diffused to it by the pixels of this pass (jquant2.c).
ColoursNearest ==
  /\ job.kind = "onepass" => LevelsNearest(job)
  /\ job.kind = "twopass" => MappedThroughCache(job)

\* The inverse colour map of the two-pass quantiser never answers with a colour of a
\* map that is gone or with one that is not the nearest (jquant2.c).
CacheIsNearest == job.kind = "twopass" => CacheNearest(job)
=============================================================================
