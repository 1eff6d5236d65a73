----------------------------- MODULE RowGeometry -----------------------------
(***************************************************************************)
(* The geometry of an image and the way of its sample rows: initialSetup,  *)
(* perScanSetup and coreOutputDimensions size blocks, MCUs and scaled      *)
(* blocks; setupColorPipeline allocates the component buffers; routeBlocks *)
(* or renderCoefficientComponents fills them; upsampleAndConvert or        *)
(* ReadRawDataRows takes the rows out again.                               *)
(*                                                                         *)
(* A sample row is represented by its number.  The two dimensions of a     *)
(* block are handled alike by the code, so most operators take one, "h"    *)
(* or "v".                                                                 *)
(***************************************************************************)
EXTENDS Integers, Sequences, FiniteSets, FiniteSetsExt

CONSTANTS
  Images,     (* the images: size, sampling factors, coding and options      *)
  BlockSize   (* samples along a side of a block: DCTSize                    *)

Dim == {"h", "v"}
Factors == 1..4

(* comps: the sampling factors of the components.  num: MinDCTHScaledSize   *)
(* and MinDCTVScaledSize, from scale_num.  fancy: DoFancyUpsampling with    *)
(* chroma IDCT scaling.                                                     *)
Image == [size : [Dim -> Nat \ {0}], comps : Seq([Dim -> Factors]),
          prog : BOOLEAN, num : 1..16, fancy : BOOLEAN, raw : BOOLEAN]

ASSUME ImagesAssumption ==
  /\ BlockSize \in Nat \ {0}
  /\ Images \subseteq Image
  /\ \A i \in Images : i.comps # <<>>

VARIABLES
  img,      \* the image being decoded
  mcuRow,   \* currentIMCURow
  buffer,   \* componentBuf: component |-> buffer row |-> sample row it holds
  line,     \* OutputScanline, and rowGroupCtr
  taken     \* raw mode: component |-> rows ReadRawDataRows has returned

vars == <<img, mcuRow, buffer, line, taken>>

CeilDiv(a, b) == (a + b - 1) \div b                     \* JDivRoundUp

Comps == 1..Len(img.comps)
Factor(c, d) == img.comps[c][d]
MaxFactor(d) == Max({Factor(c, d) : c \in Comps})

(* initialSetup: WidthInBlocks, HeightInBlocks; TotalIMCURows.              *)
Blocks(c, d) == CeilDiv(img.size[d] * Factor(c, d), MaxFactor(d) * BlockSize)
TotalIMCUs(d) == CeilDiv(img.size[d], MaxFactor(d) * BlockSize)

(* perScanSetup of the only scan of a sequential image; a progressive image *)
(* is rendered with the geometry of prepareFullImageScanGeometry.           *)
Noninterleaved == Len(img.comps) = 1 /\ ~img.prog

McuSpan(c, d) == IF Noninterleaved THEN 1 ELSE Factor(c, d)
McusInScan(d) == IF Noninterleaved THEN Blocks(1, d) ELSE TotalIMCUs(d)
\* Mutant: the remainder stands as it is when it is zero.
LastSpanZero(c, d) == Blocks(c, d) % McuSpan(c, d)

LastSpan(c, d) ==                                       \* LastColWidth
  IF Blocks(c, d) % McuSpan(c, d) = 0 THEN McuSpan(c, d)
  ELSE Blocks(c, d) % McuSpan(c, d)

-----------------------------------------------------------------------------
(* coreOutputDimensions.                                                    *)
OutputSize(d) == CeilDiv(img.size[d] * img.num, BlockSize)

Threshold == IF img.fancy THEN BlockSize ELSE BlockSize \div 2

MayDouble(c, d, n) ==
  ~img.raw /\ img.num * n <= Threshold /\ MaxFactor(d) % (Factor(c, d) * n * 2) = 0

(* The IDCT of a subsampled component is scaled up by a power of two.       *)
Doubling(c, d) == Max({n \in {1, 2, 4} : \A m \in {1, 2} : m < n => MayDouble(c, d, m)})

(* DCHScaledSize, DCVScaledSize: at most in the ratio 2:1.                  *)
Scaled(c, d) ==
  LET other == img.num * Doubling(c, CHOOSE e \in Dim : e # d)
  IN  Min({img.num * Doubling(c, d), 2 * other})

Downsampled(c, d) ==
  CeilDiv(img.size[d] * Factor(c, d) * Scaled(c, d), MaxFactor(d) * BlockSize)

-----------------------------------------------------------------------------
(* setupColorPipeline: rows and row width of a component buffer.            *)
BufferRows(c) == TotalIMCUs("v") * McuSpan(c, "v") * Scaled(c, "v")
RowWidth(c) == McusInScan("h") * McuSpan(c, "h") * Scaled(c, "h")

(* routeBlocks writes the blocks of an MCU row up to LastColWidth.          *)
ColumnsWritten(c) ==
  ((McusInScan("h") - 1) * McuSpan(c, "h") + LastSpan(c, "h")) * Scaled(c, "h")

Empty == -1

Init ==
  /\ img \in Images
  /\ mcuRow = 0
  /\ buffer = [c \in Comps |-> [k \in 0..BufferRows(c) - 1 |-> Empty]]
  /\ line = 0
  /\ taken = [c \in Comps |-> 0]

\* Mutant: the rows of an MCU row are placed as if all blocks had BlockSize
\* rows.
McuRowsUnscaled(c) == McuSpan(c, "v") * BlockSize

McuRows(c) == McuSpan(c, "v") * Scaled(c, "v")

(* The buffer row for sample row s; what lies below replicates the last.    *)
Place(c, s) == Min({s, BufferRows(c) - 1})

(* routeBlocks for iMCU row r: of the sample rows with one place the last   *)
(* stays.                                                                   *)
RouteBlocks(r) ==
  [c \in Comps |->
    LET rows == r * McuRows(c)..(r + 1) * McuRows(c) - 1
    IN  [k \in DOMAIN buffer[c] |->
          LET put == {s \in rows : Place(c, s) = k}
          IN  IF put = {} THEN buffer[c][k] ELSE Max(put)]]

(* renderCoefficientComponent: block row by block row.                      *)
RenderCoefficients ==
  [c \in Comps |->
    [k \in DOMAIN buffer[c] |->
      IF k < Blocks(c, "v") * Scaled(c, "v") THEN k ELSE Empty]]

AllDecoded == mcuRow >= McusInScan("v")

DecodeIMCURow ==
  /\ ~img.prog /\ ~AllDecoded /\ ~img.raw
  /\ buffer' = RouteBlocks(mcuRow)
  /\ mcuRow' = mcuRow + 1
  /\ UNCHANGED <<img, line, taken>>

DecodeProgressive ==
  /\ img.prog /\ buffer # RenderCoefficients
  /\ buffer' = RenderCoefficients
  /\ UNCHANGED <<img, mcuRow, line, taken>>

Decoded == IF img.prog THEN buffer = RenderCoefficients ELSE AllDecoded

(* upsampleAndConvert for one output line.                                  *)
ReadLine ==
  /\ ~img.raw /\ Decoded /\ line < OutputSize("v")
  /\ line' = line + 1
  /\ UNCHANGED <<img, mcuRow, buffer, taken>>

(* rawComponentsForIMCURows: the rows of component c up to iMCU row r.      *)
RawEnd(c, r) == Min({r * McuRows(c), BufferRows(c), Downsampled(c, "v")})

(* ReadRawDataRows: decode one iMCU row, unless all are, and return it.     *)
ReadRawRows ==
  /\ img.raw /\ (img.prog => Decoded)
  /\ line < OutputSize("v") /\ mcuRow < McusInScan("v")
  /\ buffer' = IF img.prog THEN buffer ELSE RouteBlocks(mcuRow)
  /\ mcuRow' = mcuRow + 1
  /\ taken' = [c \in Comps |-> RawEnd(c, mcuRow + 1)]
  /\ line' = line + MaxFactor("v") * img.num
  /\ UNCHANGED img

Next == DecodeIMCURow \/ DecodeProgressive \/ ReadLine \/ ReadRawRows

Spec == Init /\ [][Next]_vars

-----------------------------------------------------------------------------
(* The rows upsampleAndConvert takes for an output line.                    *)
LumaRow(y) == Min({y, BufferRows(1) - 1})

Halved(d) == Factor(1, d) * Scaled(1, d) > Factor(2, d) * Scaled(2, d)

ChromaRow(y) ==
  Min({IF Halved("v") THEN LumaRow(y) \div 2 ELSE LumaRow(y), BufferRows(2) - 1})

(* The last column it takes from a row of the second component.             *)
LastChromaColumn ==
  IF Halved("h") THEN (OutputSize("h") - 1) \div 2 ELSE OutputSize("h") - 1

(* When an image is decoded every buffer row holds the sample row of its    *)
(* number, for all the rows the component has: nothing is misplaced, lost   *)
(* below the buffer or overwritten by padding (perScanSetup against         *)
(* setupColorPipeline against routeBlocks).                                 *)
RowsInPlace ==
  Decoded => \A c \in Comps : \A k \in 0..Downsampled(c, "v") - 1 :
    k \in DOMAIN buffer[c] /\ buffer[c][k] = k

(* Every output line is made of the luma row and the chroma row that cover  *)
(* it, whatever the scale and however coreOutputDimensions has scaled the   *)
(* chroma up (upsampleAndConvert decides by comparing scaled sizes).        *)
Covering(c, y) ==
  (y * Factor(c, "v") * Scaled(c, "v")) \div (MaxFactor("v") * img.num)
LinesCovered ==
  ~img.raw /\ line < OutputSize("v") =>
    /\ LumaRow(line) = Covering(1, line)
    /\ Len(img.comps) > 1 => ChromaRow(line) = Covering(2, line)

(* Every column it takes was written by routeBlocks, which leaves out the   *)
(* dummy blocks of the last MCU, and lies within the row.                   *)
ColumnsCovered ==
  ~img.raw =>
    /\ OutputSize("h") <= ColumnsWritten(1)
    /\ Len(img.comps) > 1 => LastChromaColumn < ColumnsWritten(2)
    /\ \A c \in Comps : ColumnsWritten(c) <= RowWidth(c)

(* The calls of ReadRawDataRows that reach the end of the image have        *)
(* returned every row of every component.                                   *)
RawRowsComplete ==
  img.raw /\ (line >= OutputSize("v") \/ mcuRow >= McusInScan("v")) =>
    \A c \in Comps : taken[c] = Downsampled(c, "v")

(* Whatever the size, the sampling factors and the scale, the image is      *)
(* covered: every line and column is made of stored rows and columns, the   *)
(* right ones, and the raw rows are complete.                               *)
ImageCovered == LinesCovered /\ ColumnsCovered /\ RawRowsComplete
=============================================================================
