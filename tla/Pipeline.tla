------------------------------ MODULE Pipeline ------------------------------
(***************************************************************************)
(* The C library's decompression controllers, from the application's calls *)
(* to the entropy decoder and back: jdapistd.c and the tail of jdapimin.c  *)
(* (global states), jdmaster.c (passes), jdinput.c (scans), jdcoefct.c     *)
(* (iMCU rows), jdmainct.c (row groups and context rows), jdpostct.c       *)
(* (strips of lines for the colour quantizer), jdsample.c and jdmerge.c    *)
(* (lines).                                                                *)
(*                                                                         *)
(* Samples are not modelled by their values but by where they come from: a *)
(* cell says which block of its component it was made of, which line of    *)
(* that block, and how many scans of DC and AC data the block then had.    *)
(* The k-th MCU of a scan holds the blocks the standard puts there,        *)
(* whatever the controllers' counters say, so a counter that is wrong      *)
(* after a suspension shows as a cell in the wrong place.                  *)
(*                                                                         *)
(* The source may run dry before any MCU and before any marker; the        *)
(* application asks for 1 to 3 lines at a time, may abandon a pass of a    *)
(* buffered image, ask for any scan, and feed the decoder between calls.   *)
(* A second component stands for both chroma components.                   *)
(***************************************************************************)
EXTENDS Integers, Sequences, FiniteSetsExt

CONSTANTS
  Images,     \* the images: geometry, scans and the application's settings
  Chunks,     \* how many MCUs and markers the source may deliver at a time
  Reads,      \* how many lines the application may ask for
  MaxPasses   \* bound: output passes over a buffered image

ASSUME PipelineAssumption ==
  /\ Chunks \subseteq Nat \ {0}
  /\ Reads \subseteq Nat \ {0}
  /\ MaxPasses \in Nat \ {0}

VARIABLES
  image,      \* the image being decompressed
  d,          \* the decompression object with its controllers
  passes,     \* output passes started on a buffered image
  last,       \* what the last call returned: lines, and which they should be
  idle        \* flips with every call that got nowhere

vars == <<image, d, passes, last, idle>>

(***************************************************************************)
(* Geometry: initial_setup and jpeg_calc_output_dimensions.                *)
(***************************************************************************)
\* Body of v; unlike a LET's, v's definition is unfolded once by TLC's coverage.
With(v, Body(_)) == Body(v)

DCTSIZE == 8
CeilDiv(a, b) == (a + b - 1) \div b

Components == DOMAIN image.comps
Comp(ci) == image.comps[ci]
Needed == {ci \in Components : Comp(ci).component_needed}
max_v_samp_factor == Max({Comp(ci).v : ci \in Components})
max_h_samp_factor == Max({Comp(ci).h : ci \in Components})

RECURSIVE ssize(_, _, _)
ssize(s, factor, max) ==
  IF /\ ~image.raw_data_out
     /\ image.min_DCT_size * s <= IF image.do_fancy_upsampling
                                  THEN DCTSIZE ELSE DCTSIZE \div 2
     /\ max % (factor * s * 2) = 0
  THEN ssize(s * 2, factor, max)
  ELSE s

DCT_v_scaled_size(ci) ==
  LET v == ssize(1, Comp(ci).v, max_v_samp_factor)
      h == ssize(1, Comp(ci).h, max_h_samp_factor)
  IN  image.min_DCT_size * Min({v, 2 * h})

width_in_blocks(ci) ==
  CeilDiv(image.width * Comp(ci).h, max_h_samp_factor * image.block_size)
height_in_blocks(ci) ==
  CeilDiv(image.height * Comp(ci).v, max_v_samp_factor * image.block_size)
downsampled_height(ci) ==
  CeilDiv(image.height * Comp(ci).v * DCT_v_scaled_size(ci),
          max_v_samp_factor * image.block_size)
total_iMCU_rows == CeilDiv(image.height, max_v_samp_factor * image.block_size)
output_height == CeilDiv(image.height * image.min_DCT_size, image.block_size)

iMCUheight(ci) == Comp(ci).v * DCT_v_scaled_size(ci)
rgroup(ci) == iMCUheight(ci) \div image.min_DCT_size

\* Remainder of a division, the divisor itself when there is none.
LastPart(n, k) == IF n % k = 0 THEN k ELSE n % k

block_rows(e, ci) ==
  IF e.output_iMCU_row < total_iMCU_rows - 1
  THEN Comp(ci).v ELSE LastPart(height_in_blocks(ci), Comp(ci).v)

(***************************************************************************)
(* Geometry of a scan: per_scan_setup.                                     *)
(***************************************************************************)
InScan(s) == image.scans[s].comps
Alone(s) == Cardinality(InScan(s)) = 1
MCU_width(s, ci) == IF Alone(s) THEN 1 ELSE Comp(ci).h
MCU_height(s, ci) == IF Alone(s) THEN 1 ELSE Comp(ci).v
MCUs_per_row(s) ==
  IF Alone(s)
  THEN width_in_blocks(CHOOSE ci \in InScan(s) : TRUE)
  ELSE CeilDiv(image.width, max_h_samp_factor * image.block_size)
last_col_width(s, ci) == LastPart(width_in_blocks(ci), MCU_width(s, ci))
last_row_height(s, ci) ==
  LastPart(height_in_blocks(ci), IF Alone(s) THEN Comp(ci).v ELSE MCU_height(s, ci))

has_multiple_scans ==
  InScan(1) # Components \/ image.scans[1].kind # "all"
use_c_buffer == has_multiple_scans \/ image.buffered_image

\* Where the block at <<x, y>> of the k-th MCU of scan s belongs.
BlockOf(s, k, ci, y, x) ==
  LET row == k \div MCUs_per_row(s)
      col == k % MCUs_per_row(s)
  IN  <<row * MCU_height(s, ci) + y, col * MCU_width(s, ci) + x>>

(***************************************************************************)
(* The coefficient controller's input side and the input controller.       *)
(***************************************************************************)
start_iMCU_row(e) ==
  LET s == e.input_scan_number
      one == CHOOSE ci \in InScan(s) : TRUE
  IN  [e EXCEPT
         !.MCU_rows_per_iMCU_row =
           IF ~Alone(s) THEN 1
           ELSE IF e.input_iMCU_row < total_iMCU_rows - 1
                THEN Comp(one).v ELSE last_row_height(s, one),
         !.MCU_ctr = 0,
         !.MCU_vert_offset = 0]

\* inputctl->start_input_pass, with the coefficient controller's.
start_input_pass(e) ==
  start_iMCU_row([e EXCEPT !.input_iMCU_row = 0, !.mcu = 0,
                           !.consume_input = "data"])

finish_input_pass(e) == [e EXCEPT !.consume_input = "markers"]

Suspended(e) == [e EXCEPT !.ret = "JPEG_SUSPENDED"]
IsSuspended(e) == e.ret = "JPEG_SUSPENDED"

consume_markers(e) ==
  IF e.eoi_reached THEN [e EXCEPT !.ret = "JPEG_REACHED_EOI"]
  ELSE IF e.pending = 0 THEN Suspended(e)
  ELSE IF e.input_scan_number < Len(image.scans)
  THEN start_input_pass([e EXCEPT !.pending = @ - 1,
                                  !.input_scan_number = @ + 1,
                                  !.ret = "JPEG_REACHED_SOS"])
  ELSE [e EXCEPT !.pending = @ - 1,
                 !.eoi_reached = TRUE,
                 !.output_scan_number = Min({@, e.input_scan_number}),
                 !.ret = "JPEG_REACHED_EOI"]

\* What decode_mcu leaves in a block: its scan's share of the coefficients.
Decoded(old, s, at) ==
  [at |-> at,
   dc |-> IF image.scans[s].kind \in {"all", "dc"} THEN s ELSE old.dc,
   ac |-> IF image.scans[s].kind \in {"all", "ac"} THEN s ELSE old.ac]

\* The virtual block arrays with the MCU at the controller's place decoded.
StoredMCU(e) ==
  LET s == e.input_scan_number
      Top(ci) == e.input_iMCU_row * Comp(ci).v + e.MCU_vert_offset
      Left(ci) == e.MCU_ctr * MCU_width(s, ci)
      Hit(ci, r, c) == /\ ci \in InScan(s)
                       /\ r - Top(ci) \in 0..MCU_height(s, ci) - 1
                       /\ c - Left(ci) \in 0..MCU_width(s, ci) - 1
  IN  [ci \in Components |->
        [r \in DOMAIN e.whole_image[ci] |->
          [c \in DOMAIN e.whole_image[ci][r] |->
            IF Hit(ci, r, c)
            THEN Decoded(e.whole_image[ci][r][c], s,
                         BlockOf(s, e.mcu, ci, r - Top(ci), c - Left(ci)))
            ELSE e.whole_image[ci][r][c]]]]

NextMCU(e) == [e EXCEPT !.MCU_ctr = @ + 1, !.mcu = @ + 1, !.pending = @ - 1]
NextMCURow(e) == [e EXCEPT !.MCU_ctr = 0, !.MCU_vert_offset = @ + 1]

\* A suspended call leaves its loop counters for the next one.
SavedColumnOnly(e) == Suspended([e EXCEPT !.MCU_vert_offset = 0])
Saved(e) == Suspended(e)

RECURSIVE consume_MCUs(_)
consume_MCUs(e) ==
  IF e.MCU_vert_offset >= e.MCU_rows_per_iMCU_row
  THEN [e EXCEPT !.ret = "JPEG_ROW_COMPLETED"]
  ELSE IF e.MCU_ctr >= MCUs_per_row(e.input_scan_number)
  THEN consume_MCUs(NextMCURow(e))
  ELSE IF e.pending = 0 THEN Saved(e)
  ELSE consume_MCUs(NextMCU([e EXCEPT !.whole_image = StoredMCU(e)]))

\* One iMCU row more of the scan, or the scan's end.
RowRead(e) ==
  LET f == [e EXCEPT !.input_iMCU_row = @ + 1]
  IN  IF f.input_iMCU_row < total_iMCU_rows
      THEN start_iMCU_row(f)
      ELSE [finish_input_pass(f) EXCEPT !.ret = "JPEG_SCAN_COMPLETED"]

consume_data(e) ==
  With(consume_MCUs(e), LAMBDA f : IF IsSuspended(f) THEN f ELSE RowRead(f))

consume_input(e) ==
  IF e.consume_input = "markers" THEN consume_markers(e)
  ELSE IF use_c_buffer THEN consume_data(e)
  ELSE Suspended(e)                                \* dummy_consume_data

(***************************************************************************)
(* The coefficient controller's output side.  The buffers it fills are the *)
(* main controller's (or, for raw data, the application's); in context     *)
(* mode they are reached through the lists of "funny" pointers.            *)
(***************************************************************************)
\* The row of the buffer that input_buf[ci][j] is.
Row(e, ci, j) == IF image.context THEN e.xbuffer[e.whichptr][ci][j] ELSE j

NoCell == [at |-> <<-1, -1>>, line |-> -1, dc |-> 0, ac |-> 0, near |-> <<>>]

\* output_buf[ci] with the cells that New gives for rows 0 .. n - 1.
Filled(e, ci, n, Written(_, _), New(_, _)) ==
  LET at == [j \in 0..n - 1 |-> Row(e, ci, j)]
  IN  [i \in DOMAIN e.buffer[ci] |->
        IF \E j \in 0..n - 1 : at[j] = i
        THEN LET j == CHOOSE j \in 0..n - 1 : at[j] = i
             IN  [c \in DOMAIN e.buffer[ci][i] |->
                   IF Written(j, c) THEN New(j, c) ELSE e.buffer[ci][i][c]]
        ELSE e.buffer[ci][i]]

\* decompress_onepass: the MCU at the controller's place, transformed.
TransformedMCU(e) ==
  LET s == e.input_scan_number
      Size(ci) == DCT_v_scaled_size(ci)
      useful_width(ci) == IF e.MCU_ctr < MCUs_per_row(s) - 1
                          THEN MCU_width(s, ci) ELSE last_col_width(s, ci)
      Block(ci, j) == j \div Size(ci) - e.MCU_vert_offset
      Left(ci) == e.MCU_ctr * MCU_width(s, ci)
      Written(ci, j, c) ==
        /\ Block(ci, j) \in 0..MCU_height(s, ci) - 1
        /\ \/ e.input_iMCU_row < total_iMCU_rows - 1
           \/ e.MCU_vert_offset + Block(ci, j) < last_row_height(s, ci)
        /\ c - Left(ci) \in 0..useful_width(ci) - 1
      New(ci, j, c) ==
        [at |-> BlockOf(s, e.mcu, ci, Block(ci, j), c - Left(ci)),
         line |-> j % Size(ci), dc |-> s, ac |-> s, near |-> <<>>]
  IN  [ci \in Components |->
        IF ci \in InScan(s) \cap Needed
        THEN Filled(e, ci, iMCUheight(ci), LAMBDA j, c : Written(ci, j, c),
                                           LAMBDA j, c : New(ci, j, c))
        ELSE e.buffer[ci]]

RECURSIVE onepass_MCUs(_)
onepass_MCUs(e) ==
  IF e.MCU_vert_offset >= e.MCU_rows_per_iMCU_row
  THEN [e EXCEPT !.ret = "JPEG_ROW_COMPLETED"]
  ELSE IF e.MCU_ctr >= MCUs_per_row(e.input_scan_number)
  THEN onepass_MCUs(NextMCURow(e))
  ELSE IF e.pending = 0 THEN Saved(e)
  ELSE onepass_MCUs(NextMCU([e EXCEPT !.buffer = TransformedMCU(e)]))

decompress_onepass(e) ==
  With(onepass_MCUs(e), LAMBDA f :
    IF IsSuspended(f) THEN f ELSE RowRead([f EXCEPT !.output_iMCU_row = @ + 1]))

\* The input is not behind what is to be shown.
InputAhead(e) ==
  \/ e.input_scan_number > e.output_scan_number
  \/ /\ e.input_scan_number = e.output_scan_number
     /\ e.input_iMCU_row > e.output_iMCU_row

InputAheadSmoothNoDelta(e) == e.eoi_reached \/ InputAhead(e)

\* Block smoothing looks at the DC values of the row below as well.
InputAheadSmooth(e) ==
  LET delta == IF image.scans[e.input_scan_number].kind = "dc" THEN 1 ELSE 0
  IN  \/ e.input_scan_number > e.output_scan_number
      \/ e.eoi_reached
      \/ /\ e.input_scan_number = e.output_scan_number
         /\ e.input_iMCU_row > e.output_iMCU_row + delta
ScanRead(e) == e.input_scan_number > e.output_scan_number \/ e.eoi_reached

\* Consumes input until there is enough of it for what the caller does.
Enough(e, purpose) ==
  CASE purpose = "row"    -> InputAhead(e)
    [] purpose = "smooth" -> InputAheadSmooth(e)
    [] purpose = "scan"   -> ScanRead(e)
    [] OTHER              -> e.eoi_reached

RECURSIVE Await(_, _)
Await(e, purpose) ==
  IF Enough(e, purpose) THEN [e EXCEPT !.ret = "JPEG_ROW_COMPLETED"]
  ELSE With(consume_input(e), LAMBDA f :
         IF IsSuspended(f) THEN f ELSE Await(f, purpose))

\* The blocks above and below whose DC values smoothing uses.
Neighbours(e, ci, r, c) ==
  LET whole == e.whole_image[ci]
      top == e.output_iMCU_row * Comp(ci).v
      above == IF e.output_iMCU_row = 0 /\ r = 0 THEN r ELSE r - 1
      below == IF /\ e.output_iMCU_row = total_iMCU_rows - 1
                  /\ r = top + block_rows(e, ci) - 1
               THEN r ELSE r + 1
  IN  IF e.decompress_data = "smooth"
      THEN <<[at |-> whole[above][c].at, dc |-> whole[above][c].dc],
             [at |-> whole[below][c].at, dc |-> whole[below][c].dc]>>
      ELSE <<>>

\* decompress_data and decompress_smooth_data: an iMCU row of the arrays.
TransformedRow(e) ==
  LET Size(ci) == DCT_v_scaled_size(ci)
      BlockRow(ci, j) == e.output_iMCU_row * Comp(ci).v + j \div Size(ci)
      New(ci, j, c) ==
        LET block == e.whole_image[ci][BlockRow(ci, j)][c]
        IN  [at |-> block.at, line |-> j % Size(ci),
             dc |-> block.dc, ac |-> block.ac,
             near |-> Neighbours(e, ci, BlockRow(ci, j), c)]
  IN  [ci \in Components |->
        IF ci \in Needed
        THEN Filled(e, ci, block_rows(e, ci) * Size(ci),
                    LAMBDA j, c : TRUE, LAMBDA j, c : New(ci, j, c))
        ELSE e.buffer[ci]]

decompress_full(e) ==
  With(Await(e, IF e.decompress_data = "smooth" THEN "smooth" ELSE "row"), LAMBDA f :
    IF IsSuspended(f) THEN f
    ELSE [f EXCEPT !.buffer = TransformedRow(f), !.output_iMCU_row = @ + 1])

decompress_data(e) ==
  IF use_c_buffer THEN decompress_full(e) ELSE decompress_onepass(e)

\* smoothing_ok: DC known for every component, AC not for all (coef_bits).
smoothing_ok(e) ==
  LET Started(kind, ci) == \E s \in 1..e.input_scan_number :
                              image.scans[s].kind = kind /\ ci \in InScan(s)
  IN  /\ image.scans[1].kind # "all"
      /\ \A ci \in Components : Started("dc", ci)
      /\ \E ci \in Components : ~Started("ac", ci)

start_output_pass(e) ==
  [e EXCEPT !.output_iMCU_row = 0,
            !.decompress_data = IF ~use_c_buffer THEN "onepass"
                                ELSE IF smoothing_ok(e) THEN "smooth"
                                ELSE "plain"]

(***************************************************************************)
(* Upsampling and colour conversion.  A line is, for every component that  *)
(* is needed, the sample rows it is made of: one row, or with context rows *)
(* the rows above and below as well.  (The library's own upsampler never   *)
(* asks for context rows; the one that does is external.)                  *)
(***************************************************************************)
fullsize(ci) == rgroup(ci) = max_v_samp_factor /\ ~image.context
using_merged_upsample ==
  /\ Cardinality(Components) > 1
  /\ Needed = Components
  /\ ~image.raw_data_out
  /\ ~image.context
  /\ Comp(1).h = 2 /\ Comp(1).v <= 2
  /\ \A ci \in Components \ {1} : Comp(ci).h = 1 /\ Comp(ci).v = 1
  /\ \A ci \in Components : DCT_v_scaled_size(ci) = image.min_DCT_size

SampleRow(e, ci, j) == e.buffer[ci][Row(e, ci, j)]

\* The rows of line k of the row group that the upsampler is at.  A
\* component of full size is not copied: color_buf points into the buffer.
Upsampled(e, ci, k) ==
  LET j == e.rowgroup_ctr * rgroup(ci) + ((k * rgroup(ci)) \div max_v_samp_factor)
  IN  IF fullsize(ci) THEN [points |-> TRUE, row |-> Row(e, ci, j)]
      ELSE [points |-> FALSE,
            row |-> IF image.context
                    THEN <<SampleRow(e, ci, j - 1), SampleRow(e, ci, j),
                           SampleRow(e, ci, j + 1)>>
                    ELSE <<SampleRow(e, ci, j)>>]

Line(e, k) ==
  [ci \in Needed |->
    LET p == e.color_buf[k][ci]
    IN  IF p.points THEN <<e.buffer[ci][p.row]>> ELSE p.row]

start_pass_upsample(e) ==
  [e EXCEPT !.next_row_out = max_v_samp_factor,
            !.spare_full = FALSE,
            !.rows_to_go = output_height]

\* upsample(room): the lines made are left in e.lines.
sep_upsample(e, room) ==
  With(IF e.next_row_out >= max_v_samp_factor
       THEN [e EXCEPT !.color_buf = [k \in 0..max_v_samp_factor - 1 |->
                                      [ci \in Needed |-> Upsampled(e, ci, k)]],
                      !.next_row_out = 0]
       ELSE e, LAMBDA f :
    LET num_rows == Min({max_v_samp_factor - f.next_row_out, f.rows_to_go, room})
        next == f.next_row_out + num_rows
    IN  [f EXCEPT
           !.lines = [i \in 1..num_rows |-> Line(f, f.next_row_out + i - 1)],
           !.rows_to_go = @ - num_rows,
           !.next_row_out = next,
           !.rowgroup_ctr = IF next >= max_v_samp_factor THEN @ + 1 ELSE @])

\* The two lines of a row group at once, the second saved if unasked for.
merged_upsample(e, room) ==
  With([e EXCEPT !.color_buf = [k \in 0..1 |->
                                 [ci \in Needed |-> Upsampled(e, ci, k)]]], LAMBDA made :
  LET num_rows == IF e.spare_full \/ max_v_samp_factor = 1 THEN 1
                  ELSE Min({2, e.rows_to_go, room})
      spare == max_v_samp_factor = 2 /\ ~e.spare_full /\ num_rows < 2
  IN  [e EXCEPT
         !.lines = IF e.spare_full THEN <<e.spare_row>>
                   ELSE [i \in 1..num_rows |-> Line(made, i - 1)],
         !.spare_row = IF spare THEN Line(made, 1) ELSE @,
         !.spare_full = spare,
         !.rows_to_go = @ - num_rows,
         !.rowgroup_ctr = IF spare THEN @ ELSE @ + 1])

upsample(e, room) ==
  IF using_merged_upsample THEN merged_upsample(e, room)
  ELSE sep_upsample(e, room)

(***************************************************************************)
(* The postprocessing controller.  e.out is the application's line buffer; *)
(* in a dummy pass it only counts the lines.                               *)
(***************************************************************************)
Quantized == image.quantize # "none"
strip_height == max_v_samp_factor
Room(e, out_rows_avail) == out_rows_avail - Len(e.out)
Append2(e, lines) == [e EXCEPT !.out = @ \o lines, !.lines = <<>>]

start_pass_dpost(e, pass_mode) ==
  [e EXCEPT !.post_process_data =
              CASE pass_mode = "SAVE_AND_PASS" -> "prepass"
                [] pass_mode = "CRANK_DEST"    -> "2pass"
                [] OTHER -> IF Quantized THEN "1pass" ELSE "upsample",
            !.starting_row = 0,
            !.next_row = 0]

\* next_row moves on; a full strip is done with.
Advanced(e, num_rows) ==
  LET next == e.next_row + num_rows
  IN  IF next >= strip_height
      THEN [e EXCEPT !.starting_row = @ + strip_height, !.next_row = 0]
      ELSE [e EXCEPT !.next_row = next]

post_process_1pass(e, avail) ==
  With(upsample(e, Min({Room(e, avail), strip_height})), LAMBDA f : Append2(f, f.lines))

post_process_prepassUncounted(e, avail) ==
  With(upsample(e, strip_height - e.next_row), LAMBDA f :
    Advanced([f EXCEPT !.lines = <<>>], Len(f.lines)))

post_process_prepass(e, avail) ==
  With(upsample(e, strip_height - e.next_row), LAMBDA f :
    LET n == Len(f.lines)
        at == e.starting_row + e.next_row
        stored == [f EXCEPT !.strips = [y \in DOMAIN @ |->
                              IF y - at \in 0..n - 1 THEN f.lines[y - at + 1] ELSE @[y]]]
    IN  Advanced(Append2(stored, f.lines), n))

post_process_2pass(e, avail) ==
  LET num_rows == Min({strip_height - e.next_row, Room(e, avail),
                       output_height - e.starting_row})
      at == e.starting_row + e.next_row
  IN  Advanced(Append2(e, [i \in 1..num_rows |-> e.strips[at + i - 1]]), num_rows)

post_process_data(e, avail) ==
  CASE e.post_process_data = "1pass"   -> post_process_1pass(e, avail)
    [] e.post_process_data = "prepass" -> post_process_prepass(e, avail)
    [] e.post_process_data = "2pass"   -> post_process_2pass(e, avail)
    [] OTHER -> With(upsample(e, Room(e, avail)), LAMBDA f : Append2(f, f.lines))

(***************************************************************************)
(* The main controller.  With context rows the buffer has two row groups   *)
(* more than an iMCU row, and two lists of pointers to its rows (indices   *)
(* -rgroup .. rgroup*(M+3)-1) are used by turns, so that the row groups    *)
(* around an iMCU row's edge are next to each other in one of them.        *)
(***************************************************************************)
M == image.min_DCT_size
ngroups == IF image.context THEN M + 2 ELSE M
XRows(ci) == -rgroup(ci)..rgroup(ci) * (M + 3) - 1

\* The list xs with the entries f gives for indices in its domain.
Repointed(xs, f) == [i \in DOMAIN xs |-> IF i \in DOMAIN f THEN f[i] ELSE xs[i]]

make_funny_pointers ==
  LET rg(ci) == rgroup(ci)
      First(ci) == [i \in XRows(ci) |->
                     IF i \in 0..rg(ci) * (M + 2) - 1 THEN i ELSE 0]
      Swap(ci) == [i \in rg(ci) * (M - 2)..rg(ci) * (M + 2) - 1 |->
                    IF i < rg(ci) * M THEN i + 2 * rg(ci) ELSE i - 2 * rg(ci)]
  IN  [w \in 0..1 |-> [ci \in Components |->
        IF w = 0 THEN First(ci) ELSE Repointed(First(ci), Swap(ci))]]

set_wraparound_pointers(e) ==
  LET Around(xs, rg) ==
        Repointed(xs, [i \in (-rg..-1) \cup (rg * (M + 2)..rg * (M + 3) - 1) |->
                        IF i < 0 THEN xs[rg * (M + 2) + i] ELSE xs[i - rg * (M + 2)]])
  IN  [e EXCEPT !.xbuffer = [w \in 0..1 |-> [ci \in Components |->
                              Around(@[w][ci], rgroup(ci))]]]

\* The last real row of every component repeated below itself.
set_bottom_pointers(e) ==
  LET rows_left(ci) == LastPart(downsampled_height(ci), iMCUheight(ci))
      Last(xs, ci) == Repointed(xs, [i \in rows_left(ci)..rows_left(ci) + 2 * rgroup(ci) - 1 |->
                                      xs[rows_left(ci) - 1]])
  IN  [e EXCEPT !.rowgroups_avail = (rows_left(1) - 1) \div rgroup(1) + 1,
                !.xbuffer[e.whichptr] = [ci \in Components |-> Last(@[ci], ci)]]

start_pass_main(e, pass_mode) ==
  IF pass_mode = "CRANK_DEST" THEN [e EXCEPT !.process_data = "crank"]
  ELSE IF image.context
  THEN [e EXCEPT !.process_data = "context",
                 !.xbuffer = make_funny_pointers,
                 !.whichptr = 0,
                 !.context_state = "PREPARE_FOR_IMCU",
                 !.iMCU_row_ctr = 0,
                 !.buffer_full = FALSE]
  ELSE [e EXCEPT !.process_data = "simple",
                 !.rowgroup_ctr = e.rowgroups_avail]
process_data_simple_main(e, avail) ==
  IF e.rowgroup_ctr < e.rowgroups_avail THEN post_process_data(e, avail)
  ELSE With(decompress_data(e), LAMBDA f :
         IF IsSuspended(f) THEN f
         ELSE post_process_data([f EXCEPT !.rowgroup_ctr = 0], avail))

GroupsLeft(e) == e.rowgroup_ctr < e.rowgroups_avail

ProcessIMCU(e, avail) ==
  With(post_process_data(e, avail), LAMBDA f :
    IF GroupsLeft(f) THEN f
    ELSE [(IF f.iMCU_row_ctr = 1 THEN set_wraparound_pointers(f) ELSE f) EXCEPT
            !.whichptr = 1 - @,
            !.buffer_full = FALSE,
            !.rowgroup_ctr = M + 1,
            !.rowgroups_avail = M + 2,
            !.context_state = "POSTPONED_ROW"])

PrepareForIMCU(e, avail) ==
  LET f == [e EXCEPT !.rowgroup_ctr = 0, !.rowgroups_avail = M - 1]
      g == IF e.iMCU_row_ctr = total_iMCU_rows THEN set_bottom_pointers(f) ELSE f
  IN  ProcessIMCU([g EXCEPT !.context_state = "PROCESS_IMCU"], avail)

PostponedRow(e, avail) ==
  With(post_process_data(e, avail), LAMBDA f :
    LET g == [f EXCEPT !.context_state = "PREPARE_FOR_IMCU"]
    IN  IF GroupsLeft(f) THEN f
        ELSE IF Room(g, avail) <= 0 THEN g
        ELSE PrepareForIMCU(g, avail))

process_data_context_main(e, avail) ==
  With(IF e.buffer_full THEN [e EXCEPT !.ret = "JPEG_ROW_COMPLETED"]
       ELSE decompress_data(e), LAMBDA f :
    LET g == IF e.buffer_full THEN f
             ELSE [f EXCEPT !.buffer_full = TRUE, !.iMCU_row_ctr = @ + 1]
    IN  IF IsSuspended(f) THEN f
        ELSE CASE g.context_state = "POSTPONED_ROW" -> PostponedRow(g, avail)
               [] g.context_state = "PREPARE_FOR_IMCU" -> PrepareForIMCU(g, avail)
               [] OTHER -> ProcessIMCU(g, avail))

\* main->process_data into an empty line buffer.
process_data(e, avail) ==
  LET f == [e EXCEPT !.out = <<>>, !.ret = "JPEG_ROW_COMPLETED"]
  IN  CASE e.process_data = "simple"  -> process_data_simple_main(f, avail)
        [] e.process_data = "context" -> process_data_context_main(f, avail)
        [] OTHER                      -> post_process_data(f, avail)

(***************************************************************************)
(* The master controller: output passes.                                   *)
(***************************************************************************)
prepare_for_output_pass(e) ==
  LET dummy == image.quantize = "two" /\ ~e.colormap
      mode == IF dummy THEN "SAVE_AND_PASS" ELSE "PASS_THRU"
      shown == start_output_pass([e EXCEPT !.is_dummy_pass = dummy])
  IN  IF e.is_dummy_pass
      THEN start_pass_main(start_pass_dpost([e EXCEPT !.is_dummy_pass = FALSE],
                                            "CRANK_DEST"), "CRANK_DEST")
      ELSE IF image.raw_data_out THEN shown
      ELSE start_pass_main(start_pass_dpost(start_pass_upsample(shown), mode), "PASS_THRU")

\* The two-pass quantizer chooses its colours when the dummy pass ends.
finish_output_pass(e) == [e EXCEPT !.colormap = @ \/ Quantized]

RECURSIVE DummyPass(_)
DummyPass(e) ==
  IF e.output_scanline >= output_height
  THEN [prepare_for_output_pass(finish_output_pass(e)) EXCEPT
          !.output_scanline = 0, !.ret = "JPEG_ROW_COMPLETED"]
  ELSE With(process_data(e, 0), LAMBDA f :
         IF f.out = <<>> THEN Suspended(f)
         ELSE DummyPass([f EXCEPT !.output_scanline = @ + Len(f.out)]))

output_pass_setup(e) ==
  With(IF e.global_state = "PRESCAN" THEN e
       ELSE [prepare_for_output_pass(e) EXCEPT
               !.output_scanline = 0, !.global_state = "PRESCAN"], LAMBDA f :
  With(IF f.is_dummy_pass THEN DummyPass(f)
       ELSE [f EXCEPT !.ret = "JPEG_ROW_COMPLETED"], LAMBDA g :
    IF IsSuspended(g) THEN g
    ELSE [g EXCEPT !.global_state = IF image.raw_data_out THEN "RAW_OK"
                                    ELSE "SCANNING"]))

(***************************************************************************)
(* The application's calls.  A call that suspends leaves what it has done  *)
(* and is made again.                                                      *)
(***************************************************************************)
NoLines == [from |-> 0, lines |-> <<>>]

\* The call's effect: the object, and the lines handed over.
Call(f, returned) ==
  /\ d' = f
  /\ last' = returned
  /\ idle' = (f = d /\ ~idle)
  /\ UNCHANGED image

\* jpeg_start_decompress, buffered or with the whole file read first.
RECURSIVE Preload(_)
Preload(e) ==
  With(consume_input(e), LAMBDA f :
    IF IsSuspended(f) \/ f.ret = "JPEG_REACHED_EOI" THEN f ELSE Preload(f))

StartDecompress ==
  /\ d.global_state \in {"READY", "PRELOAD", "PRESCAN"}
  /\ ~(image.buffered_image /\ d.global_state = "PRESCAN")
  /\ UNCHANGED passes
  /\ LET e == IF d.global_state = "READY" THEN start_input_pass(d) ELSE d
         pre == [e EXCEPT !.global_state = "PRELOAD"]
     IN  IF image.buffered_image
         THEN Call([e EXCEPT !.global_state = "BUFIMAGE"], NoLines)
         ELSE \E f \in {IF d.global_state = "PRESCAN" THEN d
                        ELSE IF has_multiple_scans THEN Preload(pre)
                        ELSE [pre EXCEPT !.ret = "JPEG_REACHED_EOI"]} :
                Call(IF d.global_state # "PRESCAN" /\ IsSuspended(f) THEN f
                     ELSE output_pass_setup([f EXCEPT
                            !.output_scan_number = IF d.global_state = "PRESCAN" THEN @
                                                   ELSE f.input_scan_number]),
                     NoLines)

\* jpeg_read_scanlines.
ReadScanlines(max_lines) ==
  /\ d.global_state = "SCANNING"
  /\ d.output_scanline < output_height
  /\ UNCHANGED passes
  /\ \E f \in {process_data(d, max_lines)} :
       Call([f EXCEPT !.output_scanline = @ + Len(f.out), !.out = <<>>],
            [from |-> d.output_scanline, lines |-> f.out])

\* jpeg_read_raw_data: an iMCU row, as the inverse DCT left it.
ReadRawData ==
  /\ d.global_state = "RAW_OK"
  /\ d.output_scanline < output_height
  /\ UNCHANGED passes
  /\ \E f \in {decompress_data(d)} :
       LET lines_per_iMCU_row == max_v_samp_factor * M
           Raw(k) == [ci \in Needed |->
                       <<f.buffer[ci][(k * rgroup(ci)) \div max_v_samp_factor]>>]
           real == Min({lines_per_iMCU_row, output_height - d.output_scanline})
       IN  IF IsSuspended(f) THEN Call(f, NoLines)
           ELSE Call([f EXCEPT !.output_scanline = @ + lines_per_iMCU_row],
                     [from |-> d.output_scanline,
                      lines |-> [k \in 1..real |-> Raw(k - 1)]])

\* jpeg_start_output; the application may ask for a new colour map.
StartOutput(scan_number, newColours) ==
  /\ image.buffered_image
  /\ d.global_state \in {"BUFIMAGE", "PRESCAN"}
  /\ d.global_state = "BUFIMAGE" => passes < MaxPasses
  /\ d.global_state = "PRESCAN" => scan_number = d.output_scan_number /\ ~newColours
  /\ newColours => image.quantize = "two" /\ d.colormap
  /\ passes' = IF d.global_state = "BUFIMAGE" THEN passes + 1 ELSE passes
  /\ LET n == IF d.eoi_reached THEN Min({scan_number, d.input_scan_number})
              ELSE scan_number
     IN  Call(output_pass_setup([d EXCEPT !.output_scan_number = n,
                                          !.colormap = @ /\ ~newColours]), NoLines)

\* jpeg_finish_output: the rest of the pass is dropped, the next scan found.
FinishOutput ==
  /\ image.buffered_image
  /\ d.global_state \in {"SCANNING", "RAW_OK", "BUFPOST"}
  /\ UNCHANGED passes
  /\ LET e == IF d.global_state = "BUFPOST" THEN d
              ELSE [finish_output_pass(d) EXCEPT !.global_state = "BUFPOST"]
     IN  \E f \in {Await(e, "scan")} :
           Call(IF IsSuspended(f) THEN f ELSE [f EXCEPT !.global_state = "BUFIMAGE"],
                NoLines)

\* jpeg_consume_input, by an application with time to spare.
ConsumeInput ==
  /\ d.global_state \in {"PRESCAN", "SCANNING", "RAW_OK", "BUFIMAGE", "BUFPOST"}
  /\ UNCHANGED passes
  /\ Call(consume_input(d), NoLines)

\* jpeg_finish_decompress: the rest of the file is read.
FinishDecompress ==
  /\ \/ /\ d.global_state \in {"SCANNING", "RAW_OK"}
        /\ ~image.buffered_image
        /\ d.output_scanline >= output_height
     \/ d.global_state = "BUFIMAGE" /\ passes > 0
     \/ d.global_state = "STOPPING"
  /\ UNCHANGED passes
  /\ \E f \in {Await([d EXCEPT !.global_state = "STOPPING"], "file")} :
       Call(IF IsSuspended(f) THEN f ELSE [f EXCEPT !.global_state = "START"],
            NoLines)

\* The calls an application makes to get the image.
Work ==
  \/ StartDecompress
  \/ \E n \in Reads : ReadScanlines(n)
  \/ ReadRawData
  \/ \E n \in 1..Len(image.scans) + 1, new \in BOOLEAN : StartOutput(n, new)
  \/ FinishOutput
  \/ FinishDecompress

\* The source's next delivery, once what it delivered is used up.
Supply ==
  /\ d.pending = 0
  /\ d.global_state # "START"
  /\ \E n \in Chunks : d' = [d EXCEPT !.pending = n]
  /\ last' = NoLines
  /\ idle' = FALSE
  /\ UNCHANGED <<image, passes>>

(***************************************************************************)
(* The object after jpeg_read_header: the first SOS has been read.         *)
(***************************************************************************)
EmptyRow(cols) == [c \in cols |-> NoCell]
NewBlock == [at |-> <<-1, -1>>, dc |-> 0, ac |-> 0]

Init ==
  /\ image \in Images
  /\ passes = 0
  /\ last = NoLines
  /\ idle = FALSE
  /\ d = [global_state |-> "READY", ret |-> "JPEG_REACHED_SOS", pending |-> 0,
          input_scan_number |-> 1, input_iMCU_row |-> 0, eoi_reached |-> FALSE,
          consume_input |-> "markers", mcu |-> 0,
          MCU_ctr |-> 0, MCU_vert_offset |-> 0, MCU_rows_per_iMCU_row |-> 0,
          whole_image |->
            IF ~use_c_buffer THEN <<>>
            ELSE [ci \in Components |->
                   [r \in 0..total_iMCU_rows * Comp(ci).v - 1 |->
                     [c \in 0..CeilDiv(width_in_blocks(ci), Comp(ci).h) * Comp(ci).h - 1 |->
                       NewBlock]]],
          output_scan_number |-> 0, output_iMCU_row |-> 0, output_scanline |-> 0,
          decompress_data |-> "onepass",
          is_dummy_pass |-> FALSE, colormap |-> FALSE,
          process_data |-> "simple",
          buffer |-> [ci \in Components |->
                       [i \in 0..rgroup(ci) * ngroups - 1 |->
                         EmptyRow(0..width_in_blocks(ci) - 1)]],
          rowgroup_ctr |-> 0, rowgroups_avail |-> ngroups,
          xbuffer |-> IF image.context THEN make_funny_pointers ELSE <<>>,
          whichptr |-> 0, context_state |-> "PREPARE_FOR_IMCU",
          iMCU_row_ctr |-> 0, buffer_full |-> FALSE,
          next_row_out |-> 0, rows_to_go |-> 0, color_buf |-> <<>>,
          spare_full |-> FALSE, spare_row |-> <<>>, lines |-> <<>>, out |-> <<>>,
          post_process_data |-> "upsample", starting_row |-> 0, next_row |-> 0,
          strips |-> [y \in 0..CeilDiv(output_height, strip_height) * strip_height - 1 |->
                       <<>>]]

Next == Work \/ ConsumeInput \/ Supply

\* An application that goes on calling until it is done, and a source that
\* goes on delivering when it has run dry.  (Both are enabled until then;
\* that a call is useful is not assumed.)
Finished == d.global_state = "START"
Fairness ==
  /\ []<>Finished \/ []<><<Work>>_vars
  /\ []<>(Finished \/ d.pending > 0) \/ []<><<Supply>>_vars

Spec == Init /\ [][Next]_vars /\ Fairness

(***************************************************************************)
(* Properties.                                                             *)
(***************************************************************************)
\* The sample row of component ci that covers line y of the output.
RowOf(ci, y) == (y * rgroup(ci)) \div max_v_samp_factor
Clamped(ci, row) == Max({0, Min({row, downsampled_height(ci) - 1})})

\* A block no scan has brought yet is gray all over, wherever it belongs.
IsRow(cells, ci, row) ==
  \A c \in 0..width_in_blocks(ci) - 1 :
    /\ cells[c].at \in {<<row \div DCT_v_scaled_size(ci), c>>, NewBlock.at}
    /\ cells[c].line = row % DCT_v_scaled_size(ci)

\* Every line handed to the application is the next line of the image, made
\* of the sample rows that cover it and, where the upsampler wants context,
\* of the rows above and below them, the outermost rows standing in for
\* those outside the image: jdmainct.c's pointer lists, jdpostct.c's strips
\* and the upsamplers' saved rows, whatever was asked for and wherever
\* the source ran dry.
LinesInPlace ==
  \A i \in DOMAIN last.lines :
    LET y == last.from + i - 1
    IN  /\ y < output_height
        /\ \A ci \in Needed :
             LET rows == last.lines[i][ci]
                 own == RowOf(ci, y)
             IN  IF image.context
                 THEN /\ IsRow(rows[1], ci, Clamped(ci, own - 1))
                      /\ IsRow(rows[2], ci, own)
                      /\ IsRow(rows[3], ci, Clamped(ci, own + 1))
                 ELSE IsRow(rows[1], ci, own)

\* jpeg_read_scanlines hands over no line below the image, however many lines
\* it is asked for: "less than the number requested in several cases, including
\* bottom of image" (jdapistd.c:143-144), which the second quantizer pass checks for
\* itself (jdpostct.c:223).
LinesEndWithImage == last.from + Len(last.lines) <= output_height

\* The newest scan up to n that carries this kind of data of component ci.
NewestScan(kind, ci, n) ==
  Max({0} \cup {s \in 1..n : /\ ci \in InScan(s)
                             /\ image.scans[s].kind \in {"all", kind}})

\* A pass over scan n shows, in every block, at least what scans 1 to n say
\* of it, and smooths with neighbours whose DC values are as recent: the
\* decoder reads ahead of the output as far as jdcoefct.c's waiting loops
\* say, also when the file ends before the scan asked for.
PassShowsScan ==
  \A i \in DOMAIN last.lines :
    \A ci \in Needed : \A k \in DOMAIN last.lines[i][ci] :
      \A c \in 0..width_in_blocks(ci) - 1 :
        LET cell == last.lines[i][ci][k][c]
            row == cell.at[1]
            n == d.output_scan_number
            Beside == <<Max({row - 1, 0}), Min({row + 1, height_in_blocks(ci) - 1})>>
        IN  /\ cell.dc >= NewestScan("dc", ci, n)
            /\ cell.ac >= NewestScan("ac", ci, n)
            /\ \A b \in DOMAIN cell.near :
                 /\ cell.near[b].at = <<Beside[b], c>>
                 /\ cell.near[b].dc >= NewestScan("dc", ci, n)

\* Whatever the source's deliveries and the application's calls, the image
\* is got through: no call waits for what is already there (a counter that
\* a suspension left wrong, a dummy pass without progress, an output pass
\* waiting for a scan that the file does not have).
ImageGotThrough == <>Finished
=============================================================================
