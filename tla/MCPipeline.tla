------------------------------ MODULE MCPipeline ------------------------------
(***************************************************************************)
(* Images for Pipeline: two or three iMCU rows, the last of them partial.  *)
(***************************************************************************)
EXTENDS Pipeline

C1(h, v) == [h |-> h, v |-> v, component_needed |-> TRUE]
Unneeded(h, v) == [h |-> h, v |-> v, component_needed |-> FALSE]
Scan(kind, comps) == [kind |-> kind, comps |-> comps]

Plain ==
  [width |-> 4, height |-> 9, block_size |-> 2, min_DCT_size |-> 2,
   comps |-> <<C1(1, 1)>>, scans |-> <<Scan("all", {1})>>,
   do_fancy_upsampling |-> TRUE, raw_data_out |-> FALSE, context |-> FALSE,
   quantize |-> "none", buffered_image |-> FALSE]

Both == {1, 2}
Progressive == <<Scan("dc", Both), Scan("ac", {1}), Scan("ac", {2})>>

\* One component sampled 2x2: MCUs of one block, two MCU rows per iMCU row.
Gray == [Plain EXCEPT !.width = 6, !.comps = <<C1(2, 2)>>]
\* Chroma brought to size by the inverse DCT, a partial iMCU column.
Scaled == [Plain EXCEPT !.width = 6, !.comps = <<C1(2, 2), C1(1, 1)>>,
                        !.scans = <<Scan("all", Both)>>, !.quantize = "one"]
\* A third of the lines in the chroma: the upsampler repeats rows.
Thirds == [Plain EXCEPT !.height = 14, !.comps = <<C1(1, 3), C1(1, 1)>>,
                        !.scans = <<Scan("all", Both)>>]
\* Blocks of eight: chroma stays small, merged upsampling applies.
Merged == [Plain EXCEPT !.width = 16, !.height = 35, !.block_size = 8, !.min_DCT_size = 8,
                        !.comps = <<C1(2, 2), C1(1, 1)>>, !.do_fancy_upsampling = FALSE,
                        !.scans = <<Scan("all", Both)>>]
MergedFlat == [Merged EXCEPT !.comps = <<C1(2, 1), C1(1, 1)>>, !.height = 17]
\* Half size, only the luminance wanted.
Luminance == [Scaled EXCEPT !.comps = <<C1(2, 2), Unneeded(1, 1)>>, !.min_DCT_size = 1,
                            !.height = 10, !.quantize = "none"]
RawData == [Scaled EXCEPT !.raw_data_out = TRUE, !.quantize = "none"]
\* Scans of one component each: the file is read before the first line.
Separate == [Scaled EXCEPT !.scans = <<Scan("all", {1}), Scan("all", {2})>>,
                           !.quantize = "none", !.width = 2]
\* An upsampler that wants the rows around.
Context == [Thirds EXCEPT !.context = TRUE, !.width = 2, !.height = 17]
ContextScaled == [Scaled EXCEPT !.context = TRUE, !.height = 13, !.quantize = "none"]
\* Two passes of colour quantization.
TwoPass == [Scaled EXCEPT !.quantize = "two", !.width = 2]
TwoPassContext == [Context EXCEPT !.quantize = "two", !.height = 15]
\* A progressive file shown as it comes.
Shown == [Scaled EXCEPT !.scans = Progressive, !.buffered_image = TRUE, !.width = 2,
                        !.height = 6, !.quantize = "none"]
ShownTwoPass == [Shown EXCEPT !.quantize = "two", !.comps = <<C1(1, 1), C1(1, 1)>>,
                              !.height = 5, !.scans = SubSeq(Progressive, 1, 2)]
ShownSequential == [Shown EXCEPT !.scans = <<Scan("all", {1}), Scan("all", {2})>>,
                                 !.height = 6]

\* Strips of three lines, of which the last has two.
StripImages == {[TwoPass EXCEPT !.comps = <<C1(1, 3), C1(1, 1)>>, !.height = 8]}

MCImages == {Gray, Scaled, Thirds, Merged, MergedFlat, Luminance, RawData, Separate,
             Context, ContextScaled, TwoPass, TwoPassContext, Shown, ShownTwoPass,
             ShownSequential}
=============================================================================
