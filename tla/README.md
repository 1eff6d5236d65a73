# Formal models of djpeg-go

TLA+ models of the decoder in this repository and of the parts of the C library
next to it that carry its logic, the TLC instances that check them, and TLAPS proofs
of the theorems that matter most.  `PROJECT.json` says
for every definition which lines of the source it models.

1. [The system](#1-the-system) - its parts, what they keep and what can go wrong
2. [The plan](#2-the-plan) - modules, order, composition, bounds, theorems
3. [The modules](#3-the-modules) - how state and actions correspond to the code
4. [The runs](#4-the-runs) - what is checked, with which bounds and fairness
5. [The proofs](#5-the-proofs)
6. [Divergences](#6-divergences) - where the code does not do what it says
7. [What is not modelled](#7-what-is-not-modelled)

## 1. The system

djpeg-go decodes JPEG files: a port to Go of the decompressor of IJG libjpeg 9f.
All of it runs in the goroutine of its caller; there are no threads, no callbacks
into the client and nothing is persisted.  What makes it hard is long-lived state:
one decoder object is called in many orders, fails half way through a call because
its `io.Reader` does, is retried, aborted and used for the next image, and the
several layers keep copies of each other's state.

| Component | Source | State it keeps | Operations |
|---|---|---|---|
| marker-level decompressor | `internal/marker` | pending marker, SOI/SOF seen, input controller flags, tables, components, `GlobalState`, scan numbers | `ReadHeader`, `ConsumeInput`, `StartDecompress`, `ReadScanlines`, `FinishDecompress`, `Abort` |
| scan decoder | `internal/decoder/decoder.go` | scan data, entropy and restart state, memory accounting, component buffers, row counters | `StartDecompress`, `ReadCoefficients`, `ReadScanlines`, `SkipScanlines`, `ReadRawData`, `ReadRawDataRows`, `FinishDecompress`, `Abort`, `ReleaseDecodeBuffers` |
| Huffman decoder | `internal/huff/huffman.go` | bit buffer, bits and DC predictions of the last complete MCU | `fillBitBuffer`, `HuffDecodeFast`, four MCU decoders |
| arithmetic decoder | `internal/huff/arith.go` | `C`, `A`, `Ct`, statistics | `DecodeMCUSequential`, `DecodeMCUProgressive`, `ResetStats` |
| inverse DCT | `internal/huff/idct*.go` | none | one function per method and size |
| colour and controllers | `internal/color` | context-row pointers, pass state | only `NewColorConverter` is used by the decoder |
| GIF writer | `internal/output/gif.go` | LZW string table, code size, bit accumulator | `Start`, `WriteScanline`, `Finish` |
| other writers | `internal/output` | rows written | PPM, BMP, Targa, RLE |
| colour quantizer | `internal/output/quantize.go` | histogram, colour boxes, error rows | one- and two-pass quantization |
| public decoder | `decode.go`, `options.go`, `raster.go` | options, `started`, output pass, buffered rasters | the facade of `docs/library-api.md` |
| command line | `internal/djpegcli` | flags | one decode per run |
| libjpeg object layer | `internal/jpeg` | source managers, pools | imported by its tests only |

How they interact: the public decoder calls the scan decoder, which calls the
marker-level decompressor; both of these read the same `io.Reader`, the second
markers and the first entropy-coded data, so each must leave the source where the
other expects it.  The scan decoder hands `workState`, `permState` and
`unreadMarker` by pointer to the Huffman decoder, which fills them, and takes the
marker out of them at a restart.  Coefficients go through the IDCT into the
component buffers and from there, line by line, through upsampling and colour
conversion to the caller.  Writers and the quantizer see finished lines only.

`jpeg-9f/` is the C library the Go code is a port of.  It is the reference of the
port: its tests compare the two, every Go function names the C function it follows,
and `docs/` describes the port by it.  It also holds what the port has not taken over
or carries without using: suspension of the source in the middle of an MCU or a
marker, buffered-image mode, context rows, the colour quantizer with its passes, the
encoder and the lossless transformations.  Its parts that have logic of their own are
modelled too:

| Component | Source in `jpeg-9f/` | State it keeps | Correct if |
|---|---|---|---|
| forward DCT | `jfdctint.c`, `jcdctmgr.c` | none | every size gives the quantized cosine transform of its samples |
| lossless transformation | `transupp.c`, `jpegtran.c` | the workspace between request and execution | each sample lands where the request says; the file's tables, Exif size and markers fit its contents |
| colour conversion | `jccolor.c`, `jdcolor.c` | tables | a colour survives any pair of converters |
| colour quantizers | `jquant1.c`, `jquant2.c` | dither errors, histogram and inverse colour map, over rows, passes and images | the nearest colour is chosen, and never from a map that is gone |
| Huffman coding | `jchuff.c`, `jdhuff.c` | bit buffers, EOB run, correction bits, restart counters, place of the last whole MCU | tables are optimal, coefficients survive, whatever the suspensions |
| arithmetic coding | `jcarith.c`, `jdarith.c` | coder interval, carries waiting, statistics | coefficients survive |
| markers | `jcmarker.c`, `jdmarker.c`, `jdinput.c` | tables sent, place in a marker, marker being saved, restart number expected | every scan begins with the parameters its writer had, kept markers are whole, damage to restart markers stays near |
| decompression pipeline | `jdapistd.c`, `jdmaster.c`, `jdinput.c`, `jdcoefct.c`, `jdmainct.c`, `jdpostct.c`, `jdsample.c`, `jdmerge.c` | counters of rows, MCUs, row groups and strips in four controllers; pointer lists | every line is made of its own rows, a pass shows the scan it promises, and the image is got through wherever the source runs dry |

What makes each part correct:

* Marker level: the header state is a function of the segments handled since the
  image's SOI, whatever failed between two segments on the way; a component keeps the table of its first
  scan; the component array is that of the frame; a multi-scan image is absorbed
  before its first line; the source stands behind the EOI between two images.
* Scan decoder: what is decoded is the entropy data of this image, all of it, each
  piece under its own scan header; from a successful start to its release every
  component has its buffer, and no line is delivered from a row not decoded; what
  is reserved stays within the memory limit; every operation returns.
* Entropy decoding: an undamaged scan is decoded MCU by MCU; damage stays within its
  restart interval; an MCU shows up in its own interval, in order and not too early.
* Geometry and upsampling: every output sample is made of the samples that cover it,
  rows and columns at the edges included.
* GIF: a decoder of the format reads each code with the width it was written with and
  gets the image back.

`hazards` in `PROJECT.json` lists the places where one of these could fail and a test
would hardly notice, with the properties that watch them or the reason why none does.

## 2. The plan

| # | Modules | Status |
|---|---|---|
| 1 | `DecompressProtocol` (what the API promises) and `Decompressor` (the marker level), refinement between the two, proofs | done |
| 2 | `ScanDecoder`, which EXTENDS `Decompressor`: its stages call the marker level's actions | done |
| 3 | `RowGeometry`: sizes, buffers, rows in and out | done |
| 4 | `FancyUpsample`: the h2v2 triangle filter, proofs | done |
| 5 | `GifLzw`: LZW encoder against a decoder, proofs | done |
| 6 | `RestartSync`: bit reader, MCU loop, restarts | done |
| 7 | `Kernels` over `Fdct`, `Transform`, `Color`, `ColorQuant`: algorithms of the C library as operators, against reference definitions | done |
| 8 | `Entropy` over `HuffTables`, `HuffEncoder`, `HuffDecoder`, `ArithCoder`, `ArithDecoder`: scans written and read back under suspension | done |
| 9 | `Markers` over `MarkerWriter`, `MarkerReader`: files written and read in pieces, and damaged restart markers | done |
| 10 | `Pipeline`: the C library's decompression controllers under suspension and buffered-image mode | done |
| 11 | proofs: `DecompressorProofs`, `HeaderProofs`, `ScanDecoderProofs`, `FancyUpsampleProofs`, `GifLzwProofs`, `RowGeometryProofs`, `RestartSyncProofs`, `KernelProofs` | done |
| 12 | the public decoder's buffered-image emulation, scaled and raw buffering over `ScanDecoder`'s interface | open |
| 13 | the Go arithmetic decoder's byte source and its restarts; the Go progressive MCU decoders | open |
| 14 | the compression pipeline and the memory manager of the C library; run-length image writer | open |

Composition: `ScanDecoder` EXTENDS `Decompressor` and makes its calls; `Entropy` runs
encoder and decoder against each other, `Markers` the marker writer and reader;
`Pipeline` composes the controllers from the application's call down to the entropy
decoder's MCU, and `Kernels` compressor's and decompressor's colour converters.

The abstract specification is `DecompressProtocol`, the protocol of one image after
another, which `Decompressor` implements.  The reference definitions of the algorithms
play the same part for the modules without an interesting order of steps: the triangle
filter for `FancyUpsample`, a decoder of the format for `GifLzw`, the cosine
transform, the sample-wise picture and the colour itself for `Kernels`.

Theorems still worth proving: that the pixels of the second pass are mapped with the errors
of `Diffused` (`ColoursNearest`, with the lemmas of `KernelProofs` about the same loop), and
the units of a transformed file (`FileConsistent`).

## 3. The modules

### DecompressProtocol, Decompressor

A datastream is a sequence of segments with a marker code and a payload.  `pos`
counts the marker codes consumed; `unread` says that the payload of the last one is
pending (`UnreadMarker # 0`).  One API call is a sequence of steps: the client's action
(`ReadHeader`, `ConsumeInput`, `StartDecompress`, `FinishDecompress`) sets `call`, every
handled marker is a step (`FirstMarker`, `NextMarker`, `GetSOI`, `GetSOF`,
`GetSOS`, ...), and the step that returns sets `call` back and `ret`.  `AtEOI`
is what `consumeMarkers` and its callers do with `JPEG_REACHED_EOI`, with the
different outcomes for each call.

The source fails in two ways.  `SourceError` is a failure before a marker code or before
the first byte of a payload: the handler returns its error with the state as it is, and
the client may call again.  `SourceErrorInside` is one after some bytes of a payload or of
a marker code are gone (`io.ReadFull`, `marker_reader.go:44-90`): `UnreadMarker` stays, and
what the handler has stored by then stays too, the fields of a frame (`PartialSOF`),
`CompsInScan`, a saved marker.  The code would take the rest of the payload for its
beginning when it is called again; what it then makes of it depends on every byte, so the
model sets `torn` and follows the client to its `Abort` only.  The same holds of a handler
that gave up on a malformed payload.  Accordingly `HeaderReflectsStream` and
`ComponentsMatch` claim nothing of a torn source.  `saveMarker` has a branch of its own
for a marker that a short read cut off (`curMarker`, `marker_reader.go:796`, `:800-810`), which
returns `ErrSuspension` and reads on at twice the offset when called again; it is one of the
failures inside a payload, and its resumption is not followed.

`DecompressProtocol` is the promise: phases of an image, each line once and in order,
lines of an image of many scans only when it is complete, an image finished only
behind its EOI.  `Decompressor` INSTANCEs it with a mapping of `GlobalState` to phases.

Abstracted: quantization tables are model values and there is one slot; Huffman,
arithmetic and comment segments are `MISC`; a SOF carries whether `initialSetup` or
only `masterSelection` rejects it.  Garbage bytes, parameterless markers and RST
markers between segments are `DATA`, passed over by `nextMarker`.

### ScanDecoder

EXTENDS `Decompressor`.  An operation of the decoder (`op`) is a sequence of stages
(`at`).  A stage either does the decoder's own work (`ReadAllScanData`,
`DecodeProgressiveScan`, `AllocCoefficients`, `SetupColorPipeline`, ...) or makes a call
of the marker level, whose steps then run as `MarkerStep` until it returns. Entropy data
is a set of positions of `DATA` segments, of one byte each: `data` is `scanData`, `got`
remembers under which scan header each piece was decoded, `image` what the component
buffers were made of.  The failure of each stage leaves behind what the code leaves
behind: the source drained, `GlobalState` advanced, buffers partly allocated.  A SOS
without components, which `GetSOS` rejects in the middle of its payload, is no scan's
header (`IsScan`): what follows it never is image data (`ImageData`).  `got` starts
empty with each operation.  `readAllScanData` tests the limit after each chunk of 8192
bytes, so the source is left anywhere beyond the limit when it gives up.

A reader may be called at any time, and what it tests is what the code tests.
`ReadScanlines` and `SkipScanlines` (`decode.go:520-575`, `:863-890`) look at `GlobalState`
alone; `started`, which stays set until `Abort`, is tested by `ReadRawData` (`:584`) and
`ReadRawDataRows` (`:620`), with `ReadCoefficients` (`:786`), `CropScanline` (`:839`) and `StartOutput`
(`:965`).  A line reader takes the component buffers for granted: without them it panics
(`decoder.go:1719-1752`), which is an outcome of `ReadScanlines`.  `live` is history: it says that the
last start succeeded and that its buffers have not been let go of, so that `LinesAreDecoded`
can say from which call to which the buffers are there, without any action being guarded by it.
`done` is `internalDone`: `Finish` does nothing once it is set, which a successful
`ReadCoefficients` does too.  The facade's `Finish` of a progressive image whose EOI
has been read is `ReleaseDecodeBuffers`, which leaves `GlobalState` and `started` alone.
`DataMatchesScan` and `ImageComplete` speak of the first decoding operation on an image
(`tried = 1`): a second one finds the source where the first one left it.
The facade's scaled, buffered-image and quantized output, which reads the lines into a raster
and calls `dec.FinishDecompress` directly (`decode.go:1894-1921`), is left out.

### RowGeometry

A sample row is its number.  `Blocks`, `TotalIMCUs`, `McuSpan`, `LastSpan`, `Scaled`
follow `initialSetup`, `perScanSetup` and `coreOutputDimensions`; `buffer` is
`componentBuf`, filled by `routeBlocks` (sequential) or
`renderCoefficientComponents` (progressive), and read by `upsampleAndConvert` or
`ReadRawDataRows`.  The same operators serve both directions, as in the code.  Rows
that `routeBlocks` leaves stale under methods other than the accurate integer IDCT are
left out.

### FancyUpsample

One output line of the filter: `col` is the loop's column, `up` maps each output
column to the two chroma columns it weighs 3 to 1 and its rounding bias; `NearRow` and
`FarRow` are the two rows.  The sums themselves are left out: equal terms give equal
sums.  `Filtered` is the definition of the filter on the component's own samples, with
the replication at the edges that libjpeg-turbo documents.

### RestartSync

A bit is `<<m, k, i>>`: bit i of the k-th read of MCU m; a scan is the bytes of these
bits with markers between the intervals, damaged in one way or another.  `Fill` is
`fillBitBuffer`, `Load` the fills around one read, `StartMCU` and
`RestartAndStartMCU` the head of the MCU loop with `consumeRestartMarker`, `Commit`
and `GiveUp` the two ends of `DecodeMCUSequential`.  As long as the bits are those of
the MCU it is decoded in step (`ReadRight`); from the first other bit on (`Stray`)
anything may be read (`ReadWrong`), since what wrong bits decode to depends on the
tables.  `pred` names the MCU whose DC values `savedState` holds, so that an MCU is
right only if it was added to the right predictions.

A scan says where each interval's bytes begin (`start`) and how many bits of the
interval are in front of each read of an MCU (`offset`).  `RestartAssumption` says what
a Huffman encoder and RSTn markers make of a scan: no read asks for more bits than
`minGetBits`, the bytes of an undamaged interval hold the bits of its MCUs one after the
other, and it stands behind its marker, those of the intervals before it being in their
places (`SoundIn`).  Of damage it says that it moves no byte past a marker (`Confined`):
a bit stands behind as many markers as there are intervals in front of its own, or
behind fewer if some were lost.  TLC evaluates it for the scans of the instance, which are really encoded
and then damaged.

`0xFF00` is one byte, and a damaged byte is dropped or repeated as a whole; scan data
contains no other marker than RSTn, since reading it stops at any other.  Negative
`bitsLeft` (after a read beyond the end of the data) is the empty buffer, from which no
later fill tells it apart.

### GifLzw

`WritePixel` is `compressByte` or `writeUncompressedByte`, `CompressTerm`
`compressTerm`; `ReadCode` is a decoder by the definition of the format, which is not
part of the repository.  The hash table with its secondary probing is modelled slot by
slot; `codes` holds the one or two codes a pixel produces until the decoder has read
them, each with the width it was written with.  Bit packing and packets are left out.

### Kernels, with Fdct, Transform, Color, ColorQuant

The routines keep nothing between calls, but for the quantizers; the variable `job`
holds a call with what it was given and what it returned, and a quantizer's `job`
goes on with the next row, pass or colour map.

`Fdct` has one operator per transform of 1 to 16 points, with the constants in the
order of the code, and the two passes with their shifts and CENTERJSAMPLE; `FdctAccurate`
compares with the cosine transform computed from a Taylor series, to three units
before the division by the quantizer (the code's constants have 13 bits and it rounds
twice).  One column of coefficients of the sizes with a row of 12 or 14 samples fails it,
see section 6.

`Transform` treats an image as coefficient arrays.  All loops over the 64
coefficients of a block depend on the parity of the indices alone, so the block side
is a parameter, 2 in the instance (`DctSizeEven` is what the code needs of it).
`PictureMoved` looks at the picture: the samples of the output against those of the
input at the place the transformation names, with the extension and wipe areas; it also
holds the crop request, `-perfect` and `-trim` against what is left of the image.
Extension by reflection or in flat colour takes an image of at least one iMCU, and a
dropped image must cover its own iMCUs (`HasBlocksFor`): the code reads padding beyond
the arrays otherwise, whose contents are arbitrary.

`Color` has one operator per converter and pixel, with the tables built as the code
builds them.  `ColourKept` follows a pixel through each pair of converters the two
selections allow, also where one of them merely relabels channels; it allows 2.2 units
of rounding (4.2 where chroma is scaled by one half).

`ColorQuant` is both quantizers as records.  The one-pass quantizer chooses from rounded
breakpoints, so the nearest colour to within one unit; dithering is compared with a
formulation from the receiving pixel's side (`Diffused`), since the code spreads errors
from the giving pixel's side with one entry per column.  Of the two-pass quantizer
`CacheIsNearest` says that what the inverse map names is right for the colours in use, and
`ColoursNearest` that the pixels of a pass are mapped through it with the errors of this pass.
The checks of the number of colours wanted (`JERR_QUANT_FEW_COLORS`,
`JERR_QUANT_MANY_COLORS`, `jquant2.c:1193-1197`) are left out; the numbers given pass them.

### Entropy, with HuffTables, HuffEncoder, HuffDecoder, ArithCoder, ArithDecoder

An image is gathered (for optimal tables), encoded and decoded, scan by scan, an MCU
per step.  Bit strings are sequences of bits, bytes have their stuffing, and the
Huffman decoder's failure in the middle of an MCU returns the state the code keeps:
the place, bits and predictions of the last whole MCU, but coefficients assigned by a
first progressive scan stay assigned, and a refinement undoes what it made nonzero
(`undoit`).  The source delivers one byte at a time; the decoder may be called in
between as often as it likes, but not twice on the same bytes (`tried`).  The
arithmetic decoder cannot suspend (JERR_CANT_SUSPEND) and gets its scan as a whole.

Preconditions: some symbol is counted before a table is made; coefficients are in range
(`JERR_BAD_DCT_COEF` left out); the destination has room.  The decoders' behaviour on
damaged data is not modelled here; `RestartSync` does that for the port.

### Markers, with MarkerWriter, MarkerReader

`MarkerWriter` writes a file as `jcmarker.c` does; files of other encoders (tables
redefined between scans, pseudo scans, several segments in one, bare tables, fill bytes,
markers in other places) are put together in `MCMarkers`.  `MarkerReader` has one
operator per routine; a routine that runs out of data returns the input of its last
INPUT_SYNC, and what it had assigned.  Header fields assigned before the suspension are
set together when all are there, since the routine starts again with the first.
`Markers` adds `consume_markers` and the scan's restart intervals, whose entropy-coded
data is only counted, `SegmentBytes` each.  `skip_input_data` may skip data that has not
been delivered yet, as the comment on it demands of a source manager.

Left out: errors of the writer about missing tables, the checks of sampling factors and
sizes in `initial_setup`, tracing.

### Pipeline

One variable `d` holds the decompression object with its controllers' private
structures; an action is a call of the application (`ReadScanlines`, `ReadRawData`,
`StartOutput`, `FinishOutput`, `ConsumeInput`, ...) and runs all the controllers until it
returns or the source, which delivers MCUs and markers one by one or all at once
(`Chunks`), runs dry.  A sample is a cell that says of which block, line and scans it was
made (`at`, `line`, `dc`, `ac`), so the properties see a wrong counter as a cell in the
wrong place.  `idle` flips with every call that got nowhere, so that a step of a call
that changes nothing is still a step; `Work` can then be called fair.

One second component stands for both chroma components; the context upsampler is
external (the library has none, but keeps the machinery for it); the arithmetic of block
smoothing is reduced to which neighbours it reads; quantizer values and the progress
monitor are left out.

`With(v, Body)` in this module and in `HuffTables` binds a value that is used more than
once to a parameter: TLC's coverage statistics unfold a LET at every use.

## 4. The runs

Each `MC*.tla` instantiates one module; the configurations are next to it.

| Run | Instance and bounds | Shows |
|---|---|---|
| `decompressor` | 19 datastreams of up to 16 segments, two components, two tables, images of two lines; the source fails before or inside any segment (7,769 states) | the invariants of the marker level, that every call returns, that the protocol is implemented |
| `scan_decoder` | 11 datastreams, limits 0, 3, 5, 6, 9 bytes with buffers of 2 per component, two decoding operations per image (`MaxTries`), images of 3 lines in rows of 2 (210,737 states) | the invariants of the scan decoder and that every operation returns |
| `restart_sync` | 2 scans of 5 MCUs, bytes of 2 bits, a buffer of 8, look-ahead 2, intervals 0 to 3, every byte dropped, every one or two bytes repeated, every interval cut at every byte, every marker lost, the scan cut after every interval; at most 2 reads of up to 4 wrong bits (`GarbageReads`, `GarbageBits`) before a wrong MCU ends (525,544 states) | damage is contained, and what is decoded right is in its interval and in order |
| `row_geometry` | blocks of 4 samples, sizes 1 to 17, the usual sampling factors and 4:1:1, scales 1/4 to 2, sequential and progressive, lines and raw data | rows and columns |
| `fancy_upsample` | widths and heights around multiples of 16, scales 5/8, 1 and 2 | what the filter's output is made of |
| `gif_lzw` | 4 colours, codes of 3 to 5 bits, a hash table of 37 slots; repeated patterns and 16 images of 150 pixels with little order | the codec over several widenings and clear codes |
| `kernels` | 31 block sizes with 2 inputs of the DCT each, colour levels 0, 1, 90, 200, 255, 5 pictures and 12 crop requests with blocks of side 2, quantizers over at most 4 rows (`MaxRows`) of 2 pixels (7,712 states) | each algorithm against its reference definition |
| `c_entropy` | three images (`Picture`, `Dense`, `Long`) in blocks of 5x5, 6x6 and 8x8, restart intervals 0, 1, 2, EOB runs of at most 2 (`MaxEOBRUN`), room for 66 correction bits, the source byte by byte (4,753 states) | tables are optimal, coefficients survive, every scan completes |
| `c_markers` | 32 files, 2 bytes per restart interval (`SegmentBytes`), the source byte by byte or at once (`Chunks`) (12,005 states) | headers survive, kept markers are whole, restart damage stays near, the file is read to its end |
| `c_pipeline` | 15 images, the source unit by unit or at once (`Chunks`), reads of 1 to 3 lines (`Reads`), at most 2 output passes (`MaxPasses`) (106,249 states) | lines are in place, a pass shows its scan, the image is got through |

The bounds are small where the code's case distinctions are: two components tell the
components of a scan from those of the frame; two tables show a redefinition; two images
behind each other show what is left of the first; five MCUs give intervals of every
kind, a short last one included; a buffer of eight bits has, as the real one of 32,
room for several bytes, for a byte more at `minGetBits`, and less than an MCU; 5-bit
codes fill the string table a few times in an image of 150 pixels; files have one to
three components and up to five scans; pictures are of two to three iMCU rows with
partial last ones, which is where the controllers of `Pipeline` change state; the source
delivers least (one byte, one MCU) or everything.  `GarbageReads` and `GarbageBits`
bound how much of the data a wrong MCU eats: with 8 bits it can eat a whole interval of
the instance.

Two more runs end in a violation, see section 6.

**Fairness.** `Decompressor` assumes `WF_vars(CallStep)` and `ScanDecoder`
`WF_decoderVars(DecoderStep)`: a call that has been made executes in the caller's goroutine
until it returns.  Nothing is assumed of the client, and nothing of the source: it
may fail or not.  The C library can be left waiting, so `Entropy`, `Markers` and
`Pipeline` assume what its documentation asks of an application: that it calls again
after a suspension and that the source goes on delivering.  This is weak fairness of the
deliveries and of the calls; where ENABLED of the action would make TLC evaluate a whole
call the condition is written out (`[]<>~CanDecode \/ []<><<DecodeMcu>>_vars` and the like:
the call is made again and again as long as it may be made).  That a call makes
progress is not assumed: a call that gets nowhere counts as made.
The other modules state no liveness.

Deadlock is checked for `Decompressor` and `ScanDecoder`, whose client may always
call again; the other instances come to an end with their image, file or job, and say
`CHECK_DEADLOCK FALSE`.

Every property of a passing run has a mutant in `PROJECT.json`, a plausible slip in one
definition that makes TLC find the property violated.  The mutated forms stand in the
modules before the definitions they replace, each with a comment that names the slip.

## 5. The proofs

| Module | Theorems | For every |
|---|---|---|
| `DecompressorProofs` | `TypeCorrect`, `Inductive`, `ComponentsMatchHolds`, `MultiScanAbsorbedHolds`, `NextImageAlignedHolds`, `ImplementsProtocol` | set of datastreams, components, tables, height |
| `HeaderProofs` | `HeaderReflectsStreamHolds`, `TableLatchedHolds` | the same |
| `ScanDecoderProofs` | `LinesAreDecodedHolds`, `ReservationsBoundedHolds`, `DataMatchesScanHolds`, `ImageCompleteHolds` | the same, and limit, buffer sizes, lines of an iMCU row |
| `FancyUpsampleProofs` | `TypeCorrect`, `InteriorMatchesHolds`, `FullWidthMatchesHolds`, `RowsMatchInsideHolds` | size of picture and block |
| `RowGeometryProofs` | `RowsInPlaceHolds`, `ImageCoveredHolds`, `RawRowsCompleteHolds` | size of image and block, scale, and the sampling factors named below |
| `RestartSyncProofs` | `DamageContainedHolds`, `PlacedHolds` | scan and restart interval, damage, width of a byte and of the bit buffer, look-ahead, decoding of wrong bits |
| `KernelProofs` | `ColourKeptHolds`, `CacheIsNearestHolds` | set of samples; rows of pixels, colour maps, sequence of passes |
| `GifLzwProofs` | `WidthsAgreeHolds`, `TableHasRoomHolds`, `DecodedIsImageHolds` | image, code size, size of the string table and of the hash table |

They rest on the assumptions named in the modules (`ConstantsAssumption`,
`SizesAssumption`, `PicturesAssumption`, `LzwAssumption`, `ImagesAssumption`,
`RestartAssumption`, `LevelsAssumption`, `RowsAssumption`, `ColorMapsAssumption`), which TLC evaluates in the runs.

*Decompressor.*  The invariants are not inductive: that a multi-scan image is absorbed
depends on which calls can be in progress in which `GlobalState`, and on `EOIReached`
being set only behind an EOI.  `IInv` adds `CallPhase` (calls and states that go
together), `HeaderDone` (from Ready on the header is read), `AtEnd` (EOIReached means
that the last marker is an EOI with nothing pending), `Rested` (an idle decompressor is at
the EOI it stopped at), `FrameAllocated` and `ScanInFrame` (the array is the
frame's, the scan lies within it).  `TypeStep`, `PhaseStep`, `EndStep`, `FrameStep` and
`AbsorbStep` each show one part, action by action.  The refinement follows from the same
invariant: `RefineInit`, `RefineCallStep` and `RefineClient` map every step to a step of
the protocol or to a stutter.

*The header.*  `HeaderReflectsStream` compares counters with a set computed from the
whole history of the stream, so a step needs to know how that set grows: by the segment
just handled, and from nothing at a SOI.  The lemmas about `Handled` and `Of` say so, with
`Max` and cardinalities of the sets before and after.  `HInv` adds to `IInv` that the
first segment of an image is its SOI (`SOIFirst`), that an image that has not begun has
counted nothing (`Started`, `Fresh`).  `LatchInv` is about single components: the table in
force is that of the last DQT (`TableInForce`), a component without a table has not been
scanned (`LatchedAtFirst`), and the latching of the first scan, which the decoder
does only when it starts, still finds the table that was in force at that scan
(`InHeader`, `AtFirstScan`, `PastFirstScan`).

*Lines.*  `LinesAreDecoded` concludes that the buffers are there and the rows decoded; no
guard of a reader helps, since the readers ask for neither.  `LInv` adds that a live start
has all its buffers and no operation under way (`LiveBuffers`: the next start, `Finish` and
`Abort` end it before they touch a buffer), that the counters are numbers, which stage of
an operation waits for which call (`StageCalls`), and that a new start has set the line
counter back before the row counter (`FreshOutput`).

*Memory.*  That `memoryUsed` bounds what is held at the moment of a start says nothing of
what is held later, and what is held when a start fails half way was accounted by an
earlier one.  `MInv` therefore states what is accounted at each stage (`Accounted`), that a
decoder with component buffers has read to where no header can change any more (`SourceClosed`:
to the EOI if it is progressive, to the end of the source if not, so that a second
start cannot find more data than the first), and that it stays past the header until its
buffers are released (`PastHeader`).  A failed start leaves partial buffers, so `MInv` also
says that the memory counted stays within the limit while an operation runs (`Within`).  `ScanRange` bounds the data of a scan by what is left
of the stream, from a least-element argument (`Least`), because `Min` is a CHOOSE.
`BoundKept` does the arithmetic once for all steps that add nothing.

*Data.*  That what is decoded is this image's data, all of it, and each piece under its
own header depends on the order of whole operations, so `DInv` follows an operation
through its stages, on top of `MInv`.  A decoding operation begins at the scan header at
which `ReadHeader` stopped, with nothing collected since the SOI (`Untried`, `InHeader`,
`Ready`). While it collects the scans of a progressive image (`Followed`), the source
stands at the last scan header accepted, before its data is read, or behind that data
with no further header in between (`Quiet`), and `got` covers the data of exactly the
scans passed; at the EOI these are the whole image's.  A sequential image's data is that
of its one scan from the moment it is read until lines are delivered, and as long as not all of
it is decoded there is a row left to decode (`Sequential`).
The lemmas about `ScanData`, `Collected` and `ImageData` say how these sets of positions
grow with the source.  `Phases` excludes the combinations of stage, call and
`GlobalState` that no operation produces.

*FancyUpsample.*  `IInv` says that the columns made so far (`MadeSoFar`, a function of
the loop's column) are the filter's and all others unmade.  The bounds of the loop need
arithmetic on rounded-up quotients, kept in the lemmas `Sizes`, `CeilDivPositive` and
`ProductAtLeast`.  The rows need that the buffer holds half the output
(`OutputFits`): two quotients are rounded up one after the other, and `CeilDivCovers` and
`FactorSmaller` keep the products of variables apart from the linear steps.

*GifLzw.*  The decoder's table is one string behind the encoder's, except right
after a clear code, so equal widths are not inductive.  `Ahead` is the count the decoder
will have after its next code, `InStep` says that both sides' width is the one that
this count calls for, and `Pending` states this for each place where codes can be on
their way: none, a first, or a second code.  `Slots` adds that a string takes at most one
slot of the hash table and one code; together with the upper bound of the free code and
the assumption that there are more slots than codes for strings, probing ends.

That the image comes back is `Text`: whatever codes are on their way, the decoder will
come to a place in the image where the encoder's table and the decoder's, with the one
string it is short of, spell the same pixels, and the waiting code spells those taken
and not yet written.  The lemmas `NewStringText` and `NewBlockText` follow an entry into
both tables.  A string is found in the hash table or a free slot for it, since the
probes of one string are all different: the table's size is prime (`LzwAssumption`), as
5003 is, and with more slots than strings one is free.

*RowGeometry.*  Everything about sizes is derived from one fact (`CeilDivIs`): a rounded-up
quotient is at most n where n times the divisor covers the dividend.  `RowsSoFar` says of a
sequential image which rows of the buffers are in place after so many iMCU rows, and
`RawSoFar` that lines, iMCU rows and raw rows are counted alike.  Two conditions
are part of the theorems because the code is right only under them: `SingleIsPlain` (an
image of one component has the vertical sampling factor 1) and `UsualSampling` (the first
component is not subsampled, the second by 1 or 2, or by 4 with an IDCT that makes up for
half of it).  Of the images they leave out, section 6 names those with one component and
those of ratio 4; other ratios are not what `upsampleAndConvert` is written for.

*RestartSync.*  The bits of an undamaged interval are found again only if the reader
comes back to them from whatever it did with the damaged bytes before.  It does because
`fillBitBuffer` never takes a byte past a marker: `At` says that the reader is between
the markers of the current interval, and `Anchored` that it is there after any decoding,
right or wrong, of an interval which an undamaged one follows.  `InMCU` and `Between`
add for an undamaged interval that the buffer holds the interval's bits from the next
one to be used (`Holds`), and that the predictions are those of the MCU before.  The
resets of `processRestartMarker` establish `Between` from `Anchored` alone; `Fill` and
`Load` keep `At` and `Holds`, by lemmas that need `ReadsFit` for the buffer to have
enough bits; and an MCU whose bits are all right counts as itself (`DamageContained`).
`Counted` ties `restartsToGo` to the place in the interval.

`Placed` speaks of damaged intervals too, where nothing is known of the bits.  `PInv` adds
what is: the reader has passed as many markers as restarts were made (`Ahead`), so by
`Confined` every bit in its buffer, and in `permState` too, is of an MCU of the current
interval (`Within`, `OwnBits`), or of a later one if markers were lost; `processRestartMarker`
keeps this because it goes past exactly one marker, met or not (`AfterMarkerWithin`).  The
order within an interval comes from the predictions: an MCU is right only on top of its
predecessor's, so `pred` is never behind what was decoded, nor ahead of the count of MCUs
(`Tracked`).

*Colours.*  The run of `Kernels` takes pixels of five levels; `ColourKeptHolds` is about all of
them.  The two selections leave a list of pairs of converters (`CompressSelected`,
`DecompressSelected`), and `PixelKept` goes through it.  What a pair does is a chain of
roundings: those of the tables to and from YCC (`YccStands`, `RgbStands`), chroma that was
halved, a sum that is limited to the range of samples, which does not take colours apart
(`LimitedNear`); green taken off red and blue comes back modulo 256 (`GreenAdded`).

*The inverse colour map.*  `CacheIsNearest` is about the histogram after a long history: counts in
one pass, cached colours in the next, filled a box of cells at a time.  `QInv` says what
the quantizer holds between two calls: counts and, after a row, at least one (`HoldsCounts`),
or a colour map and an inverse map that is right for it (`HoldsMap`).  Three arguments
carry it.  Of a box: what `find_nearby_colors` computes along an axis is below
the distance of every cell and above it (`AxisBounds`), so that the colours it keeps
include a nearest one of each cell (`Nearby`), the incremental distance is the squared
distance (`StepIs`), and a filled box is right while the rest is what it was (`Filled`).  Of a row:
the loops over its pixels are recursive functions, which exist (`Loop`) and keep what each
round keeps (`LoopStays`); with dithering this needs the error limit, since the value
looked up must be a sample (`FsValueIs`).  Of the end of the first pass: there is a colour map at all
(`ColorsSelected`), because no box of the median cut is ever without a colour: a box is
as tight as its colours (`Tight`), the one that is cut is longer than a cell along its
axis (`AxisIsLong`), so both halves keep one (`BothHalves`), and the mean divides by a
positive number (`MeanIs`, with sums over finite sets, `SumsExist`).

Checked by TLC alone: the other models of the C library.  Those of the entropy coders, the
markers and the pipeline are made of recursive operators (decoding a string of bits,
filling a pointer list), which the prover cannot take; the transforms are straight-line
arithmetic against a series (`FdctAccurate`) or pictures rearranged in many ways
(`PictureMoved`), and are better served by comparison with a reference over bounded inputs.
That the colours which dithering chooses are those of `Diffused` (`ColoursNearest`) compares two
recursions that run in different orders, and stays with TLC too.  Liveness (`CallReturns`, `OperationReturns`,
`ScanCompletes`, `FileRead`, `ImageGotThrough`) is beyond the prover and stays with TLC.

## 6. Divergences

Shown by a run that ends in a violation:

* `scan_decoder_multiscan`: a sequential image with one scan per component fails to
  start, because the source is drained before the other scans are read.
* `c_pipeline_strips`: the second colour-quantizer pass limits the lines of a call by those
  below `starting_row`, whatever `next_row` is (`jpeg-9f/jdpostct.c:224`).  With strips of
  three lines (a vertical sampling factor of 3) and a last strip of two, an application that
  reads one of them and asks for two more is given a line below the image, and
  `output_scanline` passes `output_height`.

Read in the code while modelling, and within reach of the models, but without a run:

* `Finish` of a progressive image whose EOI has been read releases the component buffers
  and returns nil, however many lines have been read (`decode.go:900-903`), and leaves
  `GlobalState` at scanning, so that the next `ReadScanlines` indexes the missing buffers.
  `docs/library-api.md:932` says that an early `Finish` can be an error, which it is for
  a sequential image.  `ReleaseBuffers` makes this step.
* A DQT between the scans of a progressive image changes the table earlier scans are
  dequantized with; the latched copy is never used (`internal/decoder/decoder.go:2473`).
* A sequential image of one component with vertical sampling factor 2 loses the lower
  half of its rows (`internal/decoder/decoder.go:2606`).
* The last two columns of a line narrower than its buffer are computed from a column of
  padding (`internal/decoder/decoder.go:1884`); `InteriorMatches` leaves them out.
* `fillBitBuffer` reports success without the bits at the end of the data
  (`internal/huff/huffman.go:120`), and nothing sets `insufficientData`
  (`internal/huff/huffman.go:304`): MCUs after a premature marker are decoded from
  stuffed zeros.
* `Component` (`internal/marker/api.go:315`) checks its index against a count that
  outlives the array.
* After `ErrSOFNoSOS` a second `ReadHeader` reports a tables-only stream
  (`internal/marker/input_controller.go:286`).
* A progressive start passes by the check of the sample precision
  (`internal/decoder/decoder.go:730`).
* The scan data of a progressive image is not counted against the memory limit
  (`internal/decoder/decoder.go:1535`).
* Without fancy upsampling a line of a 4:1:1 image indexes beyond its chroma row
  (`internal/decoder/decoder.go:1915`).
* The far row of the last line of the triangle filter is a row of padding unless
  the picture fills its buffer (`internal/decoder/decoder.go:1823`).
* The number of a restart marker is never compared (`internal/decoder/decoder.go:1622`):
  after a lost marker the image is shifted by an interval, which `Placed` allows for.
* An MCU that fails returns the bits that were in the buffer when it began but not the
  bytes loaded since (`internal/huff/huffman.go:303`), so that an MCU repeated in damaged
  data can show up later than its place; `Placed` excludes only that it is too early.
* With arithmetic coding `consumeRestartMarker` looks for the marker in a buffer that is
  never filled (`internal/decoder/decoder.go:1591`).
* The row passes of the 12- and 14-point forward DCTs add a sum without its scale factor
  (`jpeg-9f/jfdctint.c:1493`, `:1897`), so column 2 or 1 of the coefficients is far off;
  `FdctAccurate` holds for all the others (`LosesScale`).
* When an image with other quantization tables is dropped into one whose components share a
  table number, `adjust_quant` brings only the last component to the units of the table
  that is written (`jpeg-9f/transupp.c:285`), though
  `jpeg-9f/transupp.h:67` speaks of quantization adaption; `FileConsistent` is stated for
  components with tables of their own.

## 7. What is not modelled

* The inverse DCTs, the fast and the floating-point forward DCTs: straight-line
  arithmetic without choice; the tests against the C library are the better check.
* The Go arithmetic decoder, the Go progressive MCU decoders and Huffman table
  derivation: ports of C sources that are modelled; what they do differently is in
  section 6.
* The colour quantizer of `internal/output`: a port of `jquant1.c` and `jquant2.c`, which
  are modelled.
* The public decoder's rasters over the scan decoder, for scaled, buffered-image and
  quantized output, and its flag `outputPass`; the image writers other
  than GIF, which write headers and rows one after the other.
* `internal/color` beyond the colour converter and `internal/jpeg`: reached by tests only.
* The compression pipeline of the C library: the port does not compress; `Entropy` and
  `MarkerWriter` take what they need of it.
* The memory manager of the C library: pools and backing store, which the port leaves to
  the runtime.
* The command lines and file formats: option parsing and file I/O around calls modelled
  elsewhere.
* Concurrency: a decoder is not made for concurrent use and starts no goroutine.
