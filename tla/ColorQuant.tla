------------------------------ MODULE ColorQuant ------------------------------
(***************************************************************************)
(* The colour quantisers of the decompressor: the one-pass quantiser with  *)
(* its evenly spaced colour map (jquant1.c) and the two-pass quantiser     *)
(* that chooses the colours by a median cut (jquant2.c).                   *)
(*                                                                         *)
(* A quantiser is a record that holds what its private structure holds; an *)
(* operator takes the record and returns the new one.  A pixel is a tuple  *)
(* of samples, a row a sequence of pixels.  The histogram of the two-pass  *)
(* quantiser, which turns into the inverse colour map in the second pass,  *)
(* is a function whose domain is the set of its nonzero cells.             *)
(***************************************************************************)
EXTENDS Color, FiniteSets

LeastIn(S) == CHOOSE x \in S : \A y \in S : x <= y
MostIn(S) == CHOOSE x \in S : \A y \in S : y <= x

------------------------------------------------------------------------------
(* One pass: the number of colours of each component. *)

\* The largest equal number for all components, then one more for a component at
\* a time, green first in RGB, as long as the product allows it.
select_ncolors(nc, rgb, max) ==
  LET total(n) == IF nc = 1 THEN n[1] ELSE IF nc = 3 THEN n[1] * n[2] * n[3] ELSE n[1] * n[2] * n[3] * n[4]
      even(k) == [i \in 1..nc |-> k]
      root == MostIn({1} \cup {k \in 2..max : total(even(k)) <= max})
      order == IF rgb THEN <<2, 1, 3>> ELSE [i \in 1..nc |-> i]
      more(n, i) == [n EXCEPT ![order[i]] = @ + 1]
      round[n \in [1..nc -> 1..max + 1], i \in 1..nc + 1] ==
        IF i > nc \/ total(more(n, i)) > max THEN n ELSE round[more(n, i), i + 1]
      grow[n \in [1..nc -> 1..max + 1]] == IF round[n, 1] = n THEN n ELSE grow[round[n, 1]]
  IN IF root < 2 THEN << >> ELSE grow[even(root)]

\* The j-th of the output values 0..maxj, and the largest sample mapped to it.
output_value(j, maxj) == (j * MAXJSAMPLE + (maxj \div 2)) \div maxj
largest_input_value(j, maxj) == ((2 * j + 1) * MAXJSAMPLE + maxj) \div (2 * maxj)

\* The weight of component i in a colour number: later components vary fastest.
BlockSize(n, i) == IF i = Len(n) THEN 1
                   ELSE IF i = Len(n) - 1 THEN n[i + 1]
                   ELSE IF i = Len(n) - 2 THEN n[i + 1] * n[i + 2]
                   ELSE n[i + 1] * n[i + 2] * n[i + 3]
TotalColors(n) == n[1] * BlockSize(n, 1)

create_colormap(n) ==
  [i \in 1..Len(n) |-> [p \in 0..TotalColors(n) - 1 |->
     output_value((p \div BlockSize(n, i)) % n[i], n[i] - 1)]]

\* Padded for ordered dithering: samples beyond the range count as its ends.
create_colorindex(n, ordered) ==
  LET pad == IF ordered THEN MAXJSAMPLE ELSE 0
      level(i, s) == LeastIn({v \in 0..n[i] - 1 : s <= largest_input_value(v, n[i] - 1)})
  IN [i \in 1..Len(n) |-> [j \in -pad..MAXJSAMPLE + pad |->
        BlockSize(n, i) * level(i, IF j < 0 THEN 0 ELSE IF j > MAXJSAMPLE THEN MAXJSAMPLE ELSE j)]]

\* Bayer's matrix of order 16, bit by bit of the row and the column.
ODITHER_SIZE == 16
ODITHER_CELLS == 256
base_dither_matrix(j, k) ==
  LET quarter(b) == << <<0, 3>>, <<2, 1>> >>[((j \div b) % 2) + 1][((k \div b) % 2) + 1]
  IN 64 * quarter(1) + 16 * quarter(2) + 4 * quarter(4) + quarter(8)

\* The dither values for a component of ncolors values, rounded towards zero.
make_odither_array(ncolors) ==
  LET den == 2 * ODITHER_CELLS * (ncolors - 1)
      num(j, k) == (ODITHER_CELLS - 1 - 2 * base_dither_matrix(j, k)) * MAXJSAMPLE
  IN [j \in 0..ODITHER_SIZE - 1 |-> [k \in 0..ODITHER_SIZE - 1 |->
        IF num(j, k) < 0 THEN -((-num(j, k)) \div den) ELSE num(j, k) \div den]]

create_odither_tables(n) == [i \in 1..Len(n) |-> make_odither_array(n[i])]

------------------------------------------------------------------------------
(* Floyd-Steinberg error diffusion, the same in both quantisers.  fserrors holds
   the errors, in sixteenths, that the row above left for this one, at the columns
   0..width+1 that stand for -1..width. *)

\* One component of one pixel: value is what is quantised, and after the choice of
\* the colour the difference e goes 7, 3, 5 and 1 sixteenths to the next pixel and
\* to the row below.
FsValue(cur, err, limit(_), sample) == range_limit(limit((cur + err + 8) \div 16) + sample)
FsSpread(s, e) == [cur |-> 7 * e, bprev |-> s.below + 5 * e, below |-> e]
FsRest == [cur |-> 0, bprev |-> 0, below |-> 0]

------------------------------------------------------------------------------
(* One pass: the quantiser. *)

create_quantizer_1(nc, rgb, desired, mode) ==
  LET n == select_ncolors(nc, rgb, desired)
  IN [ncolors |-> n, colormap |-> create_colormap(n),
      colorindex |-> create_colorindex(n, mode = "ORDERED"), is_padded |-> mode = "ORDERED",
      odither |-> << >>, row_index |-> 0, on_odd_row |-> FALSE, fserrors |-> << >>, mode |-> mode]

\* The quantiser as a sequence of one, or an empty sequence where the code gives up.
jinit_1pass_quantizer(nc, rgb, desired, mode) ==
  IF nc > 4 \/ desired > MAXJSAMPLE + 1 \/ select_ncolors(nc, rgb, desired) = << >>
  THEN << >> ELSE <<create_quantizer_1(nc, rgb, desired, mode)>>

ZeroErrors(width) == [x \in 0..width + 1 |-> 0]

\* A fault: the direction of the last row of the pass before is kept.
start_pass_1_quantOdd(q, mode, width) ==
  CASE mode = "NONE" -> [q EXCEPT !.mode = mode]
    [] mode = "ORDERED" ->
         [q EXCEPT !.mode = mode, !.row_index = 0, !.is_padded = TRUE,
                   !.colorindex = create_colorindex(q.ncolors, TRUE),
                   !.odither = create_odither_tables(q.ncolors)]
    [] mode = "FS" ->
         [q EXCEPT !.mode = mode, !.fserrors = [i \in 1..Len(q.ncolors) |-> ZeroErrors(width)]]

\* A pass may use another dithering than the one before it; what that needs is
\* made on its first use.
start_pass_1_quant(q, mode, width) ==
  CASE mode = "NONE" -> [q EXCEPT !.mode = mode]
    [] mode = "ORDERED" ->
         [q EXCEPT !.mode = mode, !.row_index = 0, !.is_padded = TRUE,
                   !.colorindex = IF q.is_padded THEN @ ELSE create_colorindex(q.ncolors, TRUE),
                   !.odither = IF @ = << >> THEN create_odither_tables(q.ncolors) ELSE @]
    [] mode = "FS" ->
         [q EXCEPT !.mode = mode, !.on_odd_row = FALSE,
                   !.fserrors = [i \in 1..Len(q.ncolors) |-> ZeroErrors(width)]]

AddAll(f, n) == LET sum[i \in 0..n] == IF i = 0 THEN 0 ELSE sum[i - 1] + f[i] IN sum[n]

\* color_quantize and color_quantize3: the second is the first for three components.
color_quantize(q, row) ==
  [x \in DOMAIN row |-> AddAll([i \in DOMAIN q.ncolors |-> q.colorindex[i][row[x][i]]], Len(q.ncolors))]

\* quantize_ord_dither and quantize3_ord_dither.
quantize_ord_dither(q, row) ==
  LET dither(i, x) == q.odither[i][q.row_index][(x - 1) % ODITHER_SIZE]
  IN [x \in DOMAIN row |->
        AddAll([i \in DOMAIN q.ncolors |-> q.colorindex[i][row[x][i] + dither(i, x)]], Len(q.ncolors))]

\* One component of a row: the indices it adds to the output and the errors it
\* leaves.  Odd rows run from right to left.
FsComponent(q, row, i) ==
  LET width == Len(row)
      dir == IF q.on_odd_row THEN -1 ELSE 1
      first == IF q.on_odd_row THEN width + 1 ELSE 0
      at(n) == first + n * dir
      column(n) == IF q.on_odd_row THEN width - n ELSE n + 1
      step(s, n) ==
        LET v == FsValue(s.d.cur, s.err[at(n) + dir], LAMBDA x : x, row[column(n)][i])
            code == q.colorindex[i][v]
            e == v - q.colormap[i][code]
        IN [d |-> FsSpread(s.d, e), err |-> [s.err EXCEPT ![at(n)] = s.d.bprev + 3 * e],
            out |-> [s.out EXCEPT ![column(n)] = code]]
      run[n \in 0..width] ==
        IF n = 0 THEN [d |-> FsRest, err |-> q.fserrors[i], out |-> [x \in 1..width |-> 0]]
        ELSE step(run[n - 1], n - 1)
  IN [out |-> run[width].out, err |-> [run[width].err EXCEPT ![at(width)] = run[width].d.bprev]]

quantize_fs_dither(q, row) ==
  LET part == [i \in 1..Len(q.ncolors) |-> FsComponent(q, row, i)]
  IN [out |-> [x \in DOMAIN row |->
                 AddAll([i \in DOMAIN part |-> part[i].out[x]], Len(q.ncolors))],
      q |-> [q EXCEPT !.on_odd_row = ~@, !.fserrors = [i \in 1..Len(q.ncolors) |-> part[i].err]]]

\* One row through the quantiser: the colour numbers and the next state.
quantize_row_1(q, row) ==
  CASE q.mode = "NONE" -> [out |-> color_quantize(q, row), q |-> q]
    [] q.mode = "ORDERED" -> [out |-> quantize_ord_dither(q, row),
                              q |-> [q EXCEPT !.row_index = (@ + 1) % ODITHER_SIZE]]
    [] q.mode = "FS" -> quantize_fs_dither(q, row)

------------------------------------------------------------------------------
(* Two passes: the histogram and the boxes of the median cut.  A cell is a tuple
   of the upper bits of a pixel's components. *)

SHIFT == <<8, 4, 8>>          \* the width of a cell: 5, 6 and 5 bits are kept
SCALE == <<2, 3, 1>>          \* how much a difference in red, green and blue counts
HIST_ELEMS == <<32, 64, 32>>
BOX_ELEMS == <<4, 8, 4>>      \* cells filled at a time in the inverse map
Axes == 1..3

CellOf(p) == [a \in Axes |-> p[a] \div SHIFT[a]]
CellCentre(c) == [a \in Axes |-> c[a] * SHIFT[a] + SHIFT[a] \div 2]
CountAt(hist, c) == IF c \in DOMAIN hist THEN hist[c] ELSE 0
Square(x) == x * x

\* A cell's 16-bit counter stays at its maximum.
Counted(n) == IF n = 65535 THEN n ELSE n + 1
prescan_quantize(hist, row) ==
  LET count[n \in 0..Len(row)] ==
        IF n = 0 THEN hist
        ELSE LET h == count[n - 1]
                 c == CellOf(row[n])
             IN [d \in DOMAIN h \cup {c} |-> IF d = c THEN Counted(CountAt(h, c)) ELSE h[d]]
  IN count[Len(row)]

Inside(hist, box) == {c \in DOMAIN hist : \A a \in Axes : c[a] >= box.min[a] /\ c[a] <= box.max[a]}

\* The box shrinks to the colours in it; its volume is the weighted length of its
\* diagonal, squared.
update_box(hist, box) ==
  LET cells == Inside(hist, box)
      low == [a \in Axes |-> IF cells = {} THEN box.min[a] ELSE LeastIn({c[a] : c \in cells})]
      high == [a \in Axes |-> IF cells = {} THEN box.max[a] ELSE MostIn({c[a] : c \in cells})]
      dist(a) == (high[a] - low[a]) * SHIFT[a] * SCALE[a]
  IN [min |-> low, max |-> high, colorcount |-> Cardinality(cells),
      volume |-> Square(dist(1)) + Square(dist(2)) + Square(dist(3))]

\* The first box with the most colours among those that can be split; the first
\* box with the largest volume; 0 if there is none.
FirstMost(Candidates, Value(_)) ==
  IF Candidates = {} THEN 0
  ELSE CHOOSE i \in Candidates :
         \A j \in Candidates : Value(j) < Value(i) \/ (Value(j) = Value(i) /\ i <= j)
find_biggest_color_pop(boxes) ==
  FirstMost({i \in DOMAIN boxes : boxes[i].volume > 0 /\ boxes[i].colorcount > 0},
            LAMBDA i : boxes[i].colorcount)
find_biggest_volume(boxes) ==
  FirstMost({i \in DOMAIN boxes : boxes[i].volume > 0}, LAMBDA i : boxes[i].volume)

\* The axis to split: green unless red is longer, and blue only if longer still.
LongestAxis(box) ==
  LET len(a) == (box.max[a] - box.min[a]) * SHIFT[a] * SCALE[a]
      n == IF len(1) > len(2) THEN 1 ELSE 2
  IN IF len(3) > len(n) THEN 3 ELSE n

median_cut(hist, start, desired) ==
  LET split(boxes, b) ==
        LET a == LongestAxis(boxes[b])
            lb == (boxes[b].max[a] + boxes[b].min[a]) \div 2
        IN Append([boxes EXCEPT ![b] = update_box(hist, [boxes[b] EXCEPT !.max[a] = lb])],
                  update_box(hist, [boxes[b] EXCEPT !.min[a] = lb + 1]))
      cut[n \in 0..desired] ==
        LET boxes == cut[n - 1]
            b == IF Len(boxes) * 2 <= desired THEN find_biggest_color_pop(boxes)
                 ELSE find_biggest_volume(boxes)
        IN IF n = 0 THEN start
           ELSE IF Len(boxes) >= desired \/ b = 0 THEN boxes ELSE split(boxes, b)
  IN cut[desired]

\* The mean of the colours in a box, weighted by their counts and rounded.
SumOf(S, V(_)) ==
  LET sum[T \in SUBSET S] == IF T = {} THEN 0 ELSE LET c == CHOOSE x \in T : TRUE IN V(c) + sum[T \ {c}]
  IN sum[S]
compute_color(hist, box) ==
  LET cells == Inside(hist, box)
      total == SumOf(cells, LAMBDA c : hist[c])
  IN [a \in Axes |-> (SumOf(cells, LAMBDA c : CellCentre(c)[a] * hist[c]) + (total \div 2)) \div total]

\* The colour map: a sequence of colours.
select_colors(hist, desired) ==
  LET all == [min |-> <<0, 0, 0>>, max |-> <<31, 63, 31>>, colorcount |-> 0, volume |-> 0]
      boxes == median_cut(hist, <<update_box(hist, all)>>, desired)
  IN [i \in DOMAIN boxes |-> compute_color(hist, boxes[i])]

------------------------------------------------------------------------------
(* Two passes: the inverse colour map. *)

\* The colours that can be nearest to some cell of the box that starts at minc: no
\* farther from its nearest corner than some colour is from its farthest one.
find_nearby_colors(colormap, minc) ==
  LET maxc == [a \in Axes |-> minc[a] + (BOX_ELEMS[a] - 1) * SHIFT[a]]
      near(i, a) == LET x == colormap[i][a]
                    IN IF x < minc[a] THEN Square((x - minc[a]) * SCALE[a])
                       ELSE IF x > maxc[a] THEN Square((x - maxc[a]) * SCALE[a]) ELSE 0
      far(i, a) == LET x == colormap[i][a]
                   IN IF x <= (minc[a] + maxc[a]) \div 2 THEN Square((x - maxc[a]) * SCALE[a])
                      ELSE Square((x - minc[a]) * SCALE[a])
      minmax == LeastIn({far(i, 1) + far(i, 2) + far(i, 3) : i \in DOMAIN colormap})
  IN {i \in DOMAIN colormap : near(i, 1) + near(i, 2) + near(i, 3) <= minmax}

\* The squared distance of a colour to the cell ic of the box, as the incremental
\* loop arrives at it: from cell to cell it grows by inc, which grows by a constant.
StepDistance(colormap, minc, i, ic) ==
  LET step(a) == SHIFT[a] * SCALE[a]
      inc(a) == (minc[a] - colormap[i][a]) * SCALE[a]
      along(a) == Square(inc(a)) + ic[a] * (inc(a) * 2 * step(a) + Square(step(a)))
                  + Square(step(a)) * ic[a] * (ic[a] - 1)
  IN along(1) + along(2) + along(3)

\* The first of the nearest colours of every cell.
find_best_colors(colormap, minc, colorlist, cells) ==
  [ic \in cells |->
     CHOOSE i \in colorlist : \A j \in colorlist :
       \/ StepDistance(colormap, minc, i, ic) < StepDistance(colormap, minc, j, ic)
       \/ StepDistance(colormap, minc, i, ic) = StepDistance(colormap, minc, j, ic) /\ i <= j]

\* All cells of the box around cell c are filled, with the colour's number plus one.
fill_inverse_cmap(hist, colormap, c) ==
  LET corner == [a \in Axes |-> (c[a] \div BOX_ELEMS[a]) * BOX_ELEMS[a]]
      minc == CellCentre(corner)
      cells == {<<x, y, z>> : x \in 0..BOX_ELEMS[1] - 1, y \in 0..BOX_ELEMS[2] - 1, z \in 0..BOX_ELEMS[3] - 1}
      best == find_best_colors(colormap, minc, find_nearby_colors(colormap, minc), cells)
      box == {[a \in Axes |-> corner[a] + ic[a]] : ic \in cells}
  IN [d \in DOMAIN hist \cup box |->
        IF d \in box THEN best[[a \in Axes |-> d[a] - corner[a]]] ELSE hist[d]]

\* The cached colour of a pixel; 0 means not yet computed.
Looked(hist, colormap, p) ==
  IF CountAt(hist, CellOf(p)) = 0 THEN fill_inverse_cmap(hist, colormap, CellOf(p)) ELSE hist

pass2_no_dither(q, row) ==
  LET seen[n \in 0..Len(row)] ==
        IF n = 0 THEN q.histogram ELSE Looked(seen[n - 1], q.colormap, row[n])
  IN [out |-> [x \in DOMAIN row |-> seen[Len(row)][CellOf(row[x])] - 1],
      q |-> [q EXCEPT !.histogram = seen[Len(row)]]]

\* The limit on the propagated error: the slope is 1, then 1/2, then 0.
STEPSIZE == 16
init_error_limit(x) ==
  LET in == IF x < 0 THEN -x ELSE x
      out == IF in < STEPSIZE THEN in
             ELSE IF in < STEPSIZE * 3 THEN STEPSIZE + (in - STEPSIZE) \div 2 ELSE STEPSIZE * 2
  IN IF x < 0 THEN -out ELSE out

pass2_fs_dither(q, row) ==
  LET width == Len(row)
      dir == IF q.on_odd_row THEN -1 ELSE 1
      first == IF q.on_odd_row THEN width + 1 ELSE 0
      at(n) == first + n * dir
      column(n) == IF q.on_odd_row THEN width - n ELSE n + 1
      step(s, n) ==
        LET v == [a \in Axes |-> FsValue(s.d[a].cur, s.err[a][at(n) + dir], init_error_limit, row[column(n)][a])]
            hist == Looked(s.hist, q.colormap, v)
            code == hist[CellOf(v)] - 1
            e == [a \in Axes |-> v[a] - q.colormap[code + 1][a]]
        IN [d |-> [a \in Axes |-> FsSpread(s.d[a], e[a])], hist |-> hist,
            err |-> [a \in Axes |-> [s.err[a] EXCEPT ![at(n)] = s.d[a].bprev + 3 * e[a]]],
            out |-> [s.out EXCEPT ![column(n)] = code]]
      run[n \in 0..width] ==
        IF n = 0 THEN [d |-> [a \in Axes |-> FsRest], hist |-> q.histogram, err |-> q.fserrors,
                       out |-> [x \in 1..width |-> 0]]
        ELSE step(run[n - 1], n - 1)
      last == run[width]
  IN [out |-> last.out,
      q |-> [q EXCEPT !.histogram = last.hist, !.on_odd_row = ~@,
                      !.fserrors = [a \in Axes |-> [last.err[a] EXCEPT ![at(width)] = last.d[a].bprev]]]]

------------------------------------------------------------------------------
(* Two passes: the quantiser. *)

Empty == [c \in {} |-> 0]

jinit_2pass_quantizer(nc, desired, mode) ==
  IF nc # 3 \/ desired < 8 \/ desired > MAXJSAMPLE + 1 THEN << >>
  ELSE <<[histogram |-> Empty, needs_zeroed |-> TRUE, desired |-> desired, colormap |-> << >>,
        fserrors |-> << >>, on_odd_row |-> FALSE, pass |-> "none",
        mode |-> IF mode = "NONE" THEN mode ELSE "FS"]>>

\* Ordered dithering is not offered; the histogram is cleared when it holds what
\* the pass cannot use.
start_pass_2_quant(q, mode, preScan, width) ==
  LET real == IF mode = "NONE" THEN mode ELSE "FS"
      zeroed == q.needs_zeroed \/ preScan
      fs == real = "FS" /\ ~preScan
  IN [q EXCEPT !.mode = real, !.pass = IF preScan THEN "prescan" ELSE "map",
               !.fserrors = IF fs THEN [a \in Axes |-> ZeroErrors(width)] ELSE @,
               !.on_odd_row = IF fs THEN FALSE ELSE @,
               !.histogram = IF zeroed THEN Empty ELSE @, !.needs_zeroed = FALSE]

quantize_row_2(q, row) ==
  CASE q.pass = "prescan" -> [out |-> << >>, q |-> [q EXCEPT !.histogram = prescan_quantize(@, row)]]
    [] q.pass = "map" /\ q.mode = "FS" -> pass2_fs_dither(q, row)
    [] q.pass = "map" /\ q.mode = "NONE" -> pass2_no_dither(q, row)

\* The end of the first pass chooses the colours.
finish_pass1(q) ==
  [q EXCEPT !.colormap = select_colors(q.histogram, q.desired), !.needs_zeroed = TRUE]
finish_pass2(q) == q
finish_pass_2_quant(q) == IF q.pass = "prescan" THEN finish_pass1(q) ELSE finish_pass2(q)

\* A fault: the inverse map of the colours before is kept.
new_color_map_2_quantStale(q, colormap) == [q EXCEPT !.colormap = colormap]

\* The application installs a colour map of its own.
new_color_map_2_quant(q, colormap) == [q EXCEPT !.colormap = colormap, !.needs_zeroed = TRUE]
=============================================================================
