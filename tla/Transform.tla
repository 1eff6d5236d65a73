------------------------------ MODULE Transform ------------------------------
(***************************************************************************)
(* Lossless transformation of JPEG files (transupp.c): mirroring,          *)
(* rotating, cropping, extending, wiping and dropping DCT blocks without   *)
(* decoding them, the requantisation of a dropped image, and the adjusted  *)
(* parameters of the output file.                                          *)
(*                                                                         *)
(* An image is [width, height, cs, comps], a component is [h, v, q] with   *)
(* its sampling factors and the number of its quantisation table.          *)
(* Coefficient arrays are functions row -> column -> block, and a block is *)
(* a function row -> column -> coefficient.  Every loop of the code over   *)
(* the coefficients of a block depends on the parity of the indices only,  *)
(* so the size of a block, DCTSIZE in the code, is the parameter BlockSide.*)
(***************************************************************************)
EXTENDS Integers, Sequences

CONSTANT BlockSide

ASSUME DctSizeEven == BlockSide \in Nat /\ BlockSide > 0 /\ BlockSide % 2 = 0

jdiv_round_up(a, b) == (a + b - 1) \div b
jround_up(a, b) == jdiv_round_up(a, b) * b

MostOf(S) == CHOOSE x \in S : \A y \in S : y <= x
LeastOf(a, b) == IF a < b THEN a ELSE b
max_h_samp_factor(image) == MostOf({image.comps[c].h : c \in DOMAIN image.comps})
max_v_samp_factor(image) == MostOf({image.comps[c].v : c \in DOMAIN image.comps})

Transposing == {"TRANSPOSE", "TRANSVERSE", "ROT_90", "ROT_270"}

------------------------------------------------------------------------------
(* The crop specification of the command line: a sequence of tokens [t, n], where
   a run of digits is one token with t = "digits" and n its value, and every other
   character is a token with t = that character. *)

Unset == [crop |-> FALSE, w |-> 0, wset |-> "UNSET", h |-> 0, hset |-> "UNSET",
          x |-> 0, xset |-> "UNSET", y |-> 0, yset |-> "UNSET"]

TokenAt(spec, i) == IF i <= Len(spec) THEN spec[i].t ELSE "end"
IsInteger(spec, i) == TokenAt(spec, i) = "digits"

\* Where the size that starts at token i ends, and how it is marked.
SizeMark(spec, i) ==
  CASE TokenAt(spec, i + 1) = "f" -> [set |-> "FORCE", next |-> i + 2]
    [] TokenAt(spec, i + 1) = "r" -> [set |-> "REFLECT", next |-> i + 2]
    [] OTHER -> [set |-> "POS", next |-> i + 1]

Sign(spec, i) == IF TokenAt(spec, i) = "-" THEN "NEG" ELSE "POS"
IsSign(spec, i) == TokenAt(spec, i) \in {"+", "-"}

jtransform_parse_crop_spec(spec) ==
  LET hasW == IsInteger(spec, 1)
      w == SizeMark(spec, 1)
      a == IF hasW THEN w.next ELSE 1
      hasH == TokenAt(spec, a) = "x"
      h == SizeMark(spec, a + 1)
      b == IF hasH THEN h.next ELSE a
      hasX == IsSign(spec, b)
      c == IF hasX THEN b + 2 ELSE b
      hasY == IsSign(spec, c)
      d == IF hasY THEN c + 2 ELSE c
      ok == /\ hasH => IsInteger(spec, a + 1)
            /\ hasX => IsInteger(spec, b + 1)
            /\ hasY => IsInteger(spec, c + 1)
            /\ TokenAt(spec, d) = "end"
  IN IF ~ok THEN Unset
     ELSE [crop |-> TRUE,
           w |-> IF hasW THEN spec[1].n ELSE 0, wset |-> IF hasW THEN w.set ELSE "UNSET",
           h |-> IF hasH THEN spec[a + 1].n ELSE 0, hset |-> IF hasH THEN h.set ELSE "UNSET",
           x |-> IF hasX THEN spec[b + 1].n ELSE 0,
           xset |-> IF hasX THEN Sign(spec, b) ELSE "UNSET",
           y |-> IF hasY THEN spec[c + 1].n ELSE 0,
           yset |-> IF hasY THEN Sign(spec, c) ELSE "UNSET"]

------------------------------------------------------------------------------
(* The size of the output: jtransform_request_workspace. *)

jtransform_perfect_transform(width, height, mcuWidth, mcuHeight, transform) ==
  /\ transform \in {"FLIP_H", "ROT_270", "TRANSVERSE", "ROT_180"} => width % mcuWidth = 0
  /\ transform \in {"FLIP_V", "ROT_90", "TRANSVERSE", "ROT_180"} => height % mcuHeight = 0

num_components(src, force) ==
  IF force /\ src.cs = "YCC" /\ Len(src.comps) = 3 THEN 1 ELSE Len(src.comps)

\* The crop window along one axis of length full, in samples, before it is moved
\* to an iMCU boundary: its size, its offset from the start and whether it is
\* refused.
CropWindow(transform, size, set, off, offSet, full) ==
  LET real == IF set = "UNSET" THEN full - off ELSE size
  IN [bad |-> CASE set = "UNSET" -> off >= full
                [] set # "UNSET" /\ size > full ->
                     transform # "NONE" \/ off >= size \/ off > size - full
                [] OTHER -> off >= full \/ size <= 0 \/ off > full - size,
      size |-> real,
      off |-> IF offSet # "NEG" THEN off
              ELSE IF real > full THEN real - full - off ELSE full - real - off]

\* The same window adjusted to the iMCU grid: the output length, the offset in
\* iMCUs, and the length in iMCUs of a dropped or wiped region.
OnGrid(transform, win, set, full, imcu) ==
  CASE transform = "DROP" ->
         LET up == (imcu - 1) - ((win.off + imcu - 1) % imcu)
             left == win.size - up
         IN [out |-> full, off |-> (win.off + up) \div imcu,
             drop |-> IF win.size <= up THEN 0
                      ELSE IF win.off + win.size = full
                      THEN jdiv_round_up(left, imcu) ELSE left \div imcu]
    [] transform = "WIPE" ->
         [out |-> full, off |-> win.off \div imcu,
          drop |-> jdiv_round_up(win.size + (win.off % imcu), imcu)]
    [] OTHER ->
         [out |-> IF set = "FORCE" \/ win.size > full THEN win.size
                  ELSE win.size + (win.off % imcu),
          off |-> win.off \div imcu, drop |-> 0]

\* trim_right_edge and trim_bottom_edge: a partial iMCU at the far edge goes.
trim_edge(axis, imcu, full) ==
  LET mcus == axis.out \div imcu
  IN IF mcus > 0 /\ axis.off + mcus = full \div imcu
     THEN [axis EXCEPT !.out = mcus * imcu] ELSE axis

SamplingMatches(src, drop) ==
  \A c \in DOMAIN src.comps \cap DOMAIN drop.comps :
    /\ drop.comps[c].h * max_h_samp_factor(src) = src.comps[c].h * max_h_samp_factor(drop)
    /\ drop.comps[c].v * max_v_samp_factor(src) = src.comps[c].v * max_v_samp_factor(drop)

jtransform_request_workspace(src, req, drop) ==
  LET n == num_components(src, req.force_grayscale)
      mcuH == IF n = 1 THEN BlockSide ELSE max_h_samp_factor(src) * BlockSide
      mcuV == IF n = 1 THEN BlockSide ELSE max_v_samp_factor(src) * BlockSide
      turned == req.transform \in Transposing
      fullW == IF turned THEN src.height ELSE src.width
      fullH == IF turned THEN src.width ELSE src.height
      imcuW == IF turned THEN mcuV ELSE mcuH
      imcuH == IF turned THEN mcuH ELSE mcuV
      c == req.crop
      winX == CropWindow(req.transform, c.w, c.wset, c.x, c.xset, fullW)
      winY == CropWindow(req.transform, c.h, c.hset, c.y, c.yset, fullH)
      uncropped(full) == [out |-> full, off |-> 0, drop |-> 0]
      gridX == IF c.crop THEN OnGrid(req.transform, winX, c.wset, fullW, imcuW) ELSE uncropped(fullW)
      gridY == IF c.crop THEN OnGrid(req.transform, winY, c.hset, fullH, imcuH) ELSE uncropped(fullH)
      x == IF req.trim /\ req.transform \in {"FLIP_H", "TRANSVERSE", "ROT_90", "ROT_180"}
           THEN trim_edge(gridX, imcuW, fullW) ELSE gridX
      y == IF req.trim /\ req.transform \in {"FLIP_V", "TRANSVERSE", "ROT_180", "ROT_270"}
           THEN trim_edge(gridY, imcuH, fullH) ELSE gridY
  IN IF req.perfect /\ ~jtransform_perfect_transform(src.width, src.height, mcuH, mcuV, req.transform)
     THEN [status |-> "imperfect"]
     ELSE IF c.crop /\ (winX.bad \/ winY.bad) THEN [status |-> "bad crop"]
     ELSE IF /\ req.transform = "DROP" /\ c.crop /\ gridX.drop # 0 /\ gridY.drop # 0
             /\ ~SamplingMatches([src EXCEPT !.comps = SubSeq(src.comps, 1, n)], drop)
     THEN [status |-> "bad sampling"]
     ELSE [status |-> "ok", num_components |-> n, imcuW |-> imcuW, imcuH |-> imcuH,
           output_width |-> x.out, output_height |-> y.out,
           x_crop_offset |-> x.off, y_crop_offset |-> y.off,
           drop_width |-> x.drop, drop_height |-> y.drop]

------------------------------------------------------------------------------
(* The output image: jtransform_adjust_parameters. *)

\* Width and height are exchanged, and so are the sampling factors.
transpose_critical_parameters(dst) ==
  [dst EXCEPT !.comps = [c \in DOMAIN dst.comps |->
                           [dst.comps[c] EXCEPT !.h = dst.comps[c].v, !.v = dst.comps[c].h]]]

GrayPossible(src) ==
  /\ \/ src.cs = "YCC" /\ Len(src.comps) = 3
     \/ src.cs = "GRAY" /\ Len(src.comps) = 1
  /\ src.comps[1].h = max_h_samp_factor(src)
  /\ src.comps[1].v = max_v_samp_factor(src)

jtransform_adjust_parameters(src, req, info) ==
  LET first == [src.comps[1] EXCEPT !.h = 1, !.v = 1]
      sized == [src EXCEPT !.width = info.output_width, !.height = info.output_height]
      gray == [sized EXCEPT !.cs = "GRAY", !.comps = <<first>>]
      one == [sized EXCEPT !.comps[1] = first]
      dst == IF req.force_grayscale THEN gray
             ELSE IF info.num_components = 1 THEN one ELSE sized
  IN IF req.transform \in Transposing THEN transpose_critical_parameters(dst) ELSE dst

------------------------------------------------------------------------------
(* The transformations of one component.  g holds the geometry of the
   destination component, in blocks: the crop offset (xc, yc), the part (cw, ch)
   of the source that consists of full iMCUs, the size (wb, hb), the width w
   before padding, and the region (dw, dh) to drop or wipe. *)

Frequencies == 0..BlockSide - 1
Odd(k) == k % 2 = 1
ZeroBlock == [i \in Frequencies |-> [j \in Frequencies |-> 0]]
DcBlock(dc) == [i \in Frequencies |-> [j \in Frequencies |-> IF i = 0 /\ j = 0 THEN dc ELSE 0]]

MirrorH(b) == [i \in Frequencies |-> [j \in Frequencies |-> IF Odd(j) THEN -b[i][j] ELSE b[i][j]]]
MirrorV(b) == [i \in Frequencies |-> [j \in Frequencies |-> IF Odd(i) THEN -b[i][j] ELSE b[i][j]]]
Flipped(b) == [i \in Frequencies |-> [j \in Frequencies |-> b[j][i]]]

Blocks(g, B(_, _)) == [y \in 0..g.hb - 1 |-> [x \in 0..g.wb - 1 |-> B(x, y)]]
\* In place: only the blocks for which Here holds are written.
Written(a, Here(_, _), B(_, _)) ==
  [y \in DOMAIN a |-> [x \in DOMAIN a[y] |-> IF Here(x, y) THEN B(x, y) ELSE a[y][x]]]

do_crop(g, a) == Blocks(g, LAMBDA x, y : a[y + g.yc][x + g.xc])

\* The destination is larger than the source in one direction at least; in that
\* direction the crop offset says where the source is put.
RowInside(g, y) == g.taller => y >= g.yc /\ y < g.yc + g.ch
SourceRow(g, a, y) == IF g.taller THEN a[y - g.yc] ELSE a[y + g.yc]

do_crop_ext_zero(g, a) ==
  Blocks(g, LAMBDA x, y :
    IF ~RowInside(g, y) THEN ZeroBlock
    ELSE IF ~g.wider THEN SourceRow(g, a, y)[x + g.xc]
    ELSE IF x >= g.xc /\ x < g.xc + g.cw THEN SourceRow(g, a, y)[x - g.xc] ELSE ZeroBlock)

do_crop_ext_flat(g, a) ==
  Blocks(g, LAMBDA x, y :
    IF ~RowInside(g, y) THEN ZeroBlock
    ELSE LET row == SourceRow(g, a, y)
         IN IF x < g.xc THEN DcBlock(row[0][0][0])
            ELSE IF x >= g.xc + g.cw THEN DcBlock(row[g.cw - 1][0][0]) ELSE row[x - g.xc])

\* The n-th block beyond an edge, where Inner(m) is the m-th block inside it and
\* there are cw of them; what was reflected before is reflected again.
Reflected(cw, n, Inner(_)) ==
  LET beyond[k \in 0..n] ==
        MirrorH(IF k < cw THEN Inner(k) ELSE beyond[((k \div cw) * cw) - 1 - (k % cw)])
  IN beyond[n]

do_crop_ext_reflect(g, a) ==
  Blocks(g, LAMBDA x, y :
    IF ~RowInside(g, y) THEN ZeroBlock
    ELSE LET row == SourceRow(g, a, y)
         IN IF x < g.xc THEN Reflected(g.cw, g.xc - 1 - x, LAMBDA m : row[m])
            ELSE IF x >= g.xc + g.cw
            THEN Reflected(g.cw, x - g.xc - g.cw, LAMBDA m : row[g.cw - 1 - m])
            ELSE row[x - g.xc])

InRegion(g, x, y) == x >= g.xc /\ x < g.xc + g.dw /\ y >= g.yc /\ y < g.yc + g.dh

do_wipe(g, a) == Written(a, LAMBDA x, y : InRegion(g, x, y), LAMBDA x, y : ZeroBlock)

\* The average of the DC values left and right of the region, or the one there is.
do_flatten(g, a) ==
  LET right == g.xc + g.dw
      dc(y) == IF g.xc > 0 /\ right < g.w THEN (a[y][g.xc - 1][0][0] + a[y][right][0][0]) \div 2
               ELSE IF g.xc > 0 THEN a[y][g.xc - 1][0][0]
               ELSE IF right < g.w THEN a[y][right][0][0] ELSE 0
  IN Written(a, LAMBDA x, y : InRegion(g, x, y), LAMBDA x, y : DcBlock(dc(y)))

do_reflect(g, a) ==
  LET right == g.xc + g.dw
      block(x, y) ==
        IF g.xc > 0 THEN Reflected(g.xc, x - g.xc, LAMBDA m : a[y][g.xc - 1 - m])
        ELSE IF g.w > right THEN Reflected(g.w - right, right - 1 - x, LAMBDA m : a[y][right + m])
        ELSE ZeroBlock
  IN Written(a, LAMBDA x, y : InRegion([g EXCEPT !.yc = 0], x, y), block)

\* Components the dropped image does not have are wiped.
do_drop(g, a, dropped) ==
  Written(a, LAMBDA x, y : InRegion(g, x, y),
          LAMBDA x, y : IF dropped = << >> THEN ZeroBlock ELSE dropped[1][y - g.yc][x - g.xc])

\* Partial iMCUs at an edge that would move to the start cannot be mirrored; they
\* stay where they are.
do_flip_h_no_crop(g, a) ==
  LET mirrored(x, y) == IF x < g.cw THEN MirrorH(a[y][g.cw - x - 1]) ELSE a[y][x]
  IN Written(a, LAMBDA x, y : y < g.hb /\ (x < g.cw \/ x < g.w),
             LAMBDA x, y : IF x < g.w THEN mirrored(x + g.xc, y) ELSE mirrored(x, y))

do_flip_h(g, a) ==
  Blocks(g, LAMBDA x, y :
    IF g.xc + x < g.cw THEN MirrorH(a[y + g.yc][g.cw - g.xc - x - 1])
    ELSE a[y + g.yc][x + g.xc])

do_flip_v(g, a) ==
  Blocks(g, LAMBDA x, y :
    IF g.yc + y < g.ch THEN MirrorV(a[g.ch - g.yc - y - 1][x + g.xc])
    ELSE a[y + g.yc][x + g.xc])

do_transpose(g, a) == Blocks(g, LAMBDA x, y : Flipped(a[x + g.xc][y + g.yc]))

do_rot_90(g, a) ==
  Blocks(g, LAMBDA x, y :
    IF g.xc + x < g.cw THEN Flipped(MirrorV(a[g.cw - g.xc - x - 1][y + g.yc]))
    ELSE Flipped(a[x + g.xc][y + g.yc]))

\* A fault: the crop offset is left out of the test for whole iMCUs.
do_rot_270Uncropped(g, a) ==
  Blocks(g, LAMBDA x, y :
    IF g.yc + y < g.ch THEN Flipped(MirrorH(a[x + g.xc][g.ch - y - 1]))
    ELSE Flipped(a[x + g.xc][y + g.yc]))

do_rot_270(g, a) ==
  Blocks(g, LAMBDA x, y :
    IF g.yc + y < g.ch THEN Flipped(MirrorH(a[x + g.xc][g.ch - g.yc - y - 1]))
    ELSE Flipped(a[x + g.xc][y + g.yc]))

do_rot_180(g, a) ==
  Blocks(g, LAMBDA x, y :
    LET row == IF g.yc + y < g.ch THEN g.ch - g.yc - y - 1 ELSE y + g.yc
        column == IF g.xc + x < g.cw THEN g.cw - g.xc - x - 1 ELSE x + g.xc
        b == IF g.xc + x < g.cw THEN MirrorH(a[row][column]) ELSE a[row][column]
    IN IF g.yc + y < g.ch THEN MirrorV(b) ELSE b)

do_transverse(g, a) ==
  Blocks(g, LAMBDA x, y :
    LET row == IF g.xc + x < g.cw THEN g.cw - g.xc - x - 1 ELSE x + g.xc
        column == IF g.yc + y < g.ch THEN g.ch - g.yc - y - 1 ELSE y + g.yc
        b == IF g.yc + y < g.ch THEN MirrorH(a[row][column]) ELSE a[row][column]
    IN Flipped(IF g.xc + x < g.cw THEN MirrorV(b) ELSE b))

------------------------------------------------------------------------------
(* jtransform_execute_transform: one transformation of all components. *)

\* The geometry of component c.  The full iMCUs are counted in the source, with
\* the sampling factors of the destination.
Geometry(src, dst, req, info, c) ==
  LET h == dst.comps[c].h
      v == dst.comps[c].v
      turned == req.transform \in Transposing
      cols == (IF turned THEN src.height ELSE src.width) \div (max_h_samp_factor(dst) * BlockSide)
      rows == (IF turned THEN src.width ELSE src.height) \div (max_v_samp_factor(dst) * BlockSide)
      w == jdiv_round_up(dst.width * h, max_h_samp_factor(dst) * BlockSide)
      b == jdiv_round_up(dst.height * v, max_v_samp_factor(dst) * BlockSide)
  IN [xc |-> info.x_crop_offset * h, yc |-> info.y_crop_offset * v,
      cw |-> cols * h, ch |-> rows * v, w |-> w,
      wb |-> IF turned THEN jround_up(w, h) ELSE w, hb |-> jround_up(b, v),
      dw |-> info.drop_width * h, dh |-> info.drop_height * v,
      wider |-> dst.width > src.width, taller |-> dst.height > src.height]

Extend(g, req, a) ==
  CASE g.wider /\ req.crop.wset = "REFLECT" -> do_crop_ext_reflect(g, a)
    [] g.wider /\ req.crop.wset = "FORCE" -> do_crop_ext_flat(g, a)
    [] OTHER -> do_crop_ext_zero(g, a)

Wipe(g, req, info, a) ==
  LET columns == jdiv_round_up(info.output_width, info.imcuW)
      reflect == /\ req.crop.wset = "REFLECT"
                 /\ info.y_crop_offset = 0
                 /\ info.drop_height = jdiv_round_up(info.output_height, info.imcuH)
                 /\ \/ info.x_crop_offset = 0
                    \/ info.x_crop_offset + info.drop_width = columns
  IN IF reflect THEN do_reflect(g, a)
     ELSE IF req.crop.wset = "FORCE" THEN do_flatten(g, a) ELSE do_wipe(g, a)

jtransform_execute_transform(src, dst, req, info, a, dropped) ==
  [c \in DOMAIN dst.comps |->
     LET g == Geometry(src, dst, req, info, c)
         moved == info.x_crop_offset # 0 \/ info.y_crop_offset # 0
     IN CASE req.transform = "NONE" /\ (g.wider \/ g.taller) -> Extend(g, req, a[c])
          [] req.transform = "NONE" /\ ~(g.wider \/ g.taller) ->
               IF moved THEN do_crop(g, a[c]) ELSE a[c]
          [] req.transform = "FLIP_H" ->
               IF info.y_crop_offset # 0 THEN do_flip_h(g, a[c]) ELSE do_flip_h_no_crop(g, a[c])
          [] req.transform = "FLIP_V" -> do_flip_v(g, a[c])
          [] req.transform = "TRANSPOSE" -> do_transpose(g, a[c])
          [] req.transform = "TRANSVERSE" -> do_transverse(g, a[c])
          [] req.transform = "ROT_90" -> do_rot_90(g, a[c])
          [] req.transform = "ROT_180" -> do_rot_180(g, a[c])
          [] req.transform = "ROT_270" -> do_rot_270(g, a[c])
          [] req.transform = "WIPE" -> Wipe(g, req, info, a[c])
          [] req.transform = "DROP" ->
               IF info.drop_width # 0 /\ info.drop_height # 0
               THEN do_drop(g, a[c], IF c \in DOMAIN dropped THEN <<dropped[c]>> ELSE << >>)
               ELSE a[c]]

------------------------------------------------------------------------------
(* Dropping an image with other quantisation tables.  A table and a block are
   functions from coefficient positions here. *)

\* Conversion to the 16 bits of a JCOEF.
JCOEF(x) == ((x + 32768) % 65536) - 32768

\* A fault: the factor is taken the wrong way round.
dequant_compInverted(block, q, q1) ==
  [k \in DOMAIN block |-> IF q[k] # q1[k] THEN JCOEF(block[k] * (q1[k] \div q[k])) ELSE block[k]]

\* The block in units of table q1, which divides table q.
dequant_comp(block, q, q1) ==
  [k \in DOMAIN block |-> IF q[k] # q1[k] THEN JCOEF(block[k] * (q[k] \div q1[k])) ELSE block[k]]

\* The block in units of table q1, rounded to the nearest, halves away from zero.
requant_comp(block, q, q1) ==
  LET nearest(x, d) == (x + (d \div 2)) \div d
  IN [k \in DOMAIN block |->
        IF q1[k] = 0 \/ q[k] = q1[k] THEN block[k]
        ELSE LET temp == q[k] * block[k]
             IN IF temp < 0 THEN JCOEF(-nearest(-temp, q1[k])) ELSE JCOEF(nearest(temp, q1[k]))]

largest_common_denominator(a, b) ==
  LET euclid[x \in Nat, y \in Nat] == IF y = 0 THEN x ELSE euclid[y, x % y]
  IN euclid[a, b]

\* tblno[c] is the table of component c in the source and in the output; srcQ and
\* dropQ are the tables that each image was decoded with, per component.  The
\* result holds the tables of the output and the coefficients of both images.
adjust_quant(tblno, srcQ, dropQ, srcCoef, dropCoef, dstTables, trim) ==
  LET both == LeastOf(Len(srcQ), Len(dropQ))
      start == [tables |-> dstTables, src |-> srcCoef, drop |-> dropCoef]
      step(s, c) ==
        LET q1 == srcQ[c]
            q2 == dropQ[c]
            shared == s.tables[tblno[c]]
            q3 == [k \in DOMAIN shared |->
                     IF q1[k] # q2[k] THEN largest_common_denominator(q1[k], q2[k]) ELSE shared[k]]
        IN IF q1 = q2 THEN s
           ELSE IF trim THEN [s EXCEPT !.drop[c] = requant_comp(s.drop[c], q2, q1)]
           ELSE [tables |-> [s.tables EXCEPT ![tblno[c]] = q3],
                 src |-> [s.src EXCEPT ![c] = dequant_comp(s.src[c], q1, q3)],
                 drop |-> [s.drop EXCEPT ![c] = dequant_comp(s.drop[c], q2, q3)]]
      adjusted[c \in 0..both] == IF c = 0 THEN start ELSE step(adjusted[c - 1], c)
  IN adjusted[both]

------------------------------------------------------------------------------
(* Extra markers of the source that go to the output.  A saved marker is
   [code, tag, data], where tag names the signature its data starts with. *)

\* The markers that are saved when the source is read.
jcopy_markers_setup(option, markers) ==
  SelectSeq(markers, LAMBDA m : \/ option # "NONE" /\ m.code = "COM"
                                \/ option = "ALL" /\ m.code # "COM")

\* A JFIF header is not written to a file that starts with an Exif marker.
writes_JFIF_header(saved, asked) ==
  asked /\ ~(saved # << >> /\ saved[1].code = "APP1" /\ saved[1].tag = "Exif")

jcopy_markers_execute(saved, writeJfif, writeAdobe) ==
  SelectSeq(saved, LAMBDA m : /\ ~(writeJfif /\ m.code = "APP0" /\ m.tag = "JFIF")
                              /\ ~(writeAdobe /\ m.code = "APP14" /\ m.tag = "Adobe"))

------------------------------------------------------------------------------
(* The Exif image size.  data is a sequence of bytes that starts with the TIFF
   header; offsets count from zero. *)

Byte(data, i) == data[i + 1]
\* Two bytes in the order of the file.
Get16(data, i, motorola) ==
  IF motorola THEN Byte(data, i) * 256 + Byte(data, i + 1)
  ELSE Byte(data, i + 1) * 256 + Byte(data, i)

\* A 32-bit offset that must fit 16 bits, or -1.
GetOffset(data, i, motorola) ==
  LET high == IF motorola THEN Get16(data, i, motorola) ELSE Get16(data, i + 2, motorola)
      low == IF motorola THEN Get16(data, i + 2, motorola) ELSE Get16(data, i, motorola)
  IN IF high = 0 THEN low ELSE -1

ExifIFDPointer == 34665
PixelXDimension == 40962
PixelYDimension == 40963

\* The entries, of 12 bytes each, that a directory at offset has in the data, as
\* far as the data reaches.
Entries(data, offset, motorola) ==
  {offset + 2 + 12 * n : n \in {m \in 0..Get16(data, offset, motorola) - 1 :
                                  offset + 2 + 12 * m <= Len(data) - 12}}

\* An entry as a LONG of one value: the type, the count and the new value.
Long(value, motorola) ==
  IF motorola THEN <<0, 4, 0, 0, 0, 1, 0, 0, (value \div 256) % 256, value % 256>>
  ELSE <<4, 0, 1, 0, 0, 0, value % 256, (value \div 256) % 256, 0, 0>>

adjust_exif_parameters(data, newWidth, newHeight) ==
  LET n == Len(data)
      motorola == Byte(data, 0) = 77
      order == n >= 12 /\ Byte(data, 0) = Byte(data, 1) /\ Byte(data, 0) \in {73, 77}
      tiff == order /\ Get16(data, 2, motorola) = 42
      first == GetOffset(data, 4, motorola)
      inFile(offset) == offset >= 0 /\ offset <= n - 2
      pointers == {e \in Entries(data, first, motorola) : Get16(data, e, motorola) = ExifIFDPointer}
      pointer == CHOOSE e \in pointers : \A f \in pointers : e <= f
      sub == GetOffset(data, pointer + 8, motorola)
      found == tiff /\ inFile(first) /\ pointers # {} /\ inFile(sub)
      size(tag) == IF tag = PixelXDimension THEN newWidth ELSE newHeight
      sized == {e \in Entries(data, sub, motorola) :
                  Get16(data, e, motorola) \in {PixelXDimension, PixelYDimension}}
      entryOf(i) == CHOOSE e \in sized : i \in e + 2..e + 11
  IN IF ~(found /\ Get16(data, sub, motorola) >= 2) THEN data
     ELSE [i \in 1..n |->
             IF \E e \in sized : i - 1 \in e + 2..e + 11
             THEN LET e == entryOf(i - 1)
                  IN Long(size(Get16(data, e, motorola)), motorola)[i - 1 - e - 1]
             ELSE data[i]]
=============================================================================
