----------------------------- MODULE ScanDecoder -----------------------------
(***************************************************************************)
(* The decoder of internal/decoder on top of the marker-level decompressor:*)
(* StartDecompress and ReadCoefficients collect the entropy-coded data of  *)
(* the scans, decode it, reserve memory and fill the component buffers;    *)
(* the line readers deliver from these; FinishDecompress, Abort and        *)
(* ReleaseDecodeBuffers let go of them.                                    *)
(*                                                                         *)
(* An operation of the decoder is a sequence of stages.  The stages call   *)
(* the actions of Decompressor, and between a call that does not return at *)
(* once and the stage that looks at its result the steps of Decompressor   *)
(* run.  Entropy-coded data is a set of positions of DATA segments, each   *)
(* one byte long.                                                          *)
(***************************************************************************)
EXTENDS Decompressor

CONSTANTS
  Limits,   (* the values of SetMaxMemory; 0 is no limit                    *)
  CoefSize, (* bytes of one component's coefficients                        *)
  BufSize,  (* bytes of one component's sample buffer                       *)
  RowLines, (* RawDataLinesPerIMCURow                                       *)
  MaxTries  (* bound: decoding operations on one image                      *)

ASSUME SizesAssumption ==
  /\ Limits \subseteq Nat
  /\ CoefSize \in Nat \ {0} /\ BufSize \in Nat \ {0} /\ RowLines \in Nat \ {0}

VARIABLES
  op,      \* the decoder operation in progress
  at,      \* the stage it has reached
  res,     \* what the last decoder operation returned
  limit,   \* maxMemoryBytes
  mem,     \* memoryUsed
  data,    \* scanData: the DATA segments held
  got,     \* DATA segment |-> the SOS whose parameters it was decoded under
  buf,     \* componentBuf: "nil", "partial" after a failed setup, "full"
  image,   \* the DATA segments whose samples are in componentBuf
  row,     \* currentIMCURow
  total,   \* totalIMCURows
  all,     \* allDecoded
  hdr,     \* history: the position of the last SOS accepted
  started, \* decode.go's started: a StartDecompress succeeded since the last Abort
  done,    \* decode.go's internalDone
  live,    \* history: the last start succeeded and its buffers are not released
  tried    \* history: decoding operations begun on this image

opVars  == <<op, at, res>>
memVars == <<limit, mem, data, got, buf>>
rowVars == <<image, row, total, all>>
flagVars == <<started, done, live>>
hisVars == <<hdr, started, done, live, tried>>
decVars == <<opVars, memVars, rowVars, hisVars>>

Rows == (Height + RowLines - 1) \div RowLines
NumComps == Cardinality(DOMAIN compInfo)
Coded(s) == s.m = "DATA"
NoData == [i \in {} |-> 0]

DecInit ==
  /\ Init
  /\ op = "none" /\ at = "none" /\ res = "none"
  /\ limit \in Limits /\ mem = 0 /\ data = {} /\ got = NoData /\ buf = "nil"
  /\ image = {} /\ row = 0 /\ total = 0 /\ all = FALSE
  /\ hdr = 0 /\ started = FALSE /\ done = FALSE /\ live = FALSE /\ tried = 0

-----------------------------------------------------------------------------
(* Steps of the marker-level decompressor, with the history they leave.     *)
Follow ==
  /\ hdr' = IF inScan' > inScan THEN pos ELSE hdr
  /\ tried' = IF gs' = "start" THEN 0 ELSE tried

MarkerStep ==
  /\ CallStep \/ Failure
  /\ Follow
  /\ UNCHANGED <<opVars, memVars, rowVars, flagVars>>

(* ReadHeader, ReadHeaderStatus and ConsumeInput hand on to the marker level*)
HeaderCall ==
  /\ op = "none" /\ (ReadHeader \/ ConsumeInput)
  /\ Follow
  /\ UNCHANGED <<opVars, memVars, rowVars, flagVars>>

(* The facade stores RawDataOut in Ready; it never sets BufferedImage.      *)
SetRawDataOut ==
  /\ op = "none" /\ SetParameters /\ ~buffered'
  /\ UNCHANGED decVars

-----------------------------------------------------------------------------
Stage(s) == op # "none" /\ at = s /\ call = "none"
Goto(s)  == at' = s /\ UNCHANGED <<op, res>>
End(r)   == op' = "none" /\ at' = "none" /\ res' = r
Api      == <<srcVars, icVars, hdrVars, scanVars, outVars, apiVars>>

(* StartDecompress and ReadCoefficients, each of which decodes into         *)
(* coefficients of its own; the second is refused once a start has          *)
(* succeeded.  Callers have read a header, and a client that goes on after  *)
(* a payload was left pending is not followed.                              *)
Begin(o) ==
  /\ op = "none" /\ Idle /\ ~unread
  /\ gs \notin {"start", "inheader"}
  /\ UNCHANGED <<stream, Api, limit, data, buf, rowVars, hdr, started, done>>
  /\ IF o = "coefs" /\ (started \/ gs # "ready")
     THEN res' = "badState" /\ UNCHANGED <<op, at, mem, got, live, tried>>
     ELSE /\ tried < MaxTries
          /\ op' = o /\ at' = "pass" /\ res' = "none" /\ live' = FALSE
          /\ mem' = 0 /\ got' = NoData /\ tried' = tried + 1

InputPass ==
  /\ Stage("pass") /\ StartInputPass
  /\ IF ret' # "ok" THEN End("frame")
     ELSE IF frame.prog THEN Goto("alloc") ELSE Goto("tables")
  /\ UNCHANGED <<memVars, rowVars, hisVars>>

\* Mutant: reserveMemory looks at one request at a time.
FitsAlone(n) == limit = 0 \/ n <= limit

(* reserveMemory for n bytes on top of what is used.                        *)
Fits(n) == limit = 0 \/ mem + n <= limit

(* One reservation per component; the first that does not fit is an error.  *)
Reserve(size) ==
  mem' = IF Fits(NumComps * size) THEN mem + NumComps * size
         ELSE mem + size * ((limit - mem) \div size)

(* allocCoefficientComponents of a progressive image, in Preload.           *)
AllocCoefficients ==
  /\ Stage("alloc") /\ frame.prog
  /\ gs' = "preload"
  /\ Reserve(CoefSize)
  /\ IF Fits(NumComps * CoefSize) THEN Goto("tables") ELSE End("memory")
  /\ UNCHANGED <<stream, srcVars, icVars, hdrVars, scanVars, line, raw, buffered,
                 apiVars, limit, data, got, buf, rowVars, hisVars>>

(* prepareEntropyDecoder: a table the scan selects may be missing or bad.   *)
PrepareEntropyDecoder ==
  /\ Stage("tables")
  /\ Goto("data") \/ End("tables")
  /\ UNCHANGED <<stream, Api, memVars, rowVars, hisVars>>

\* Mutant: the scan data is taken to run up to the EOI.
ScanEndAtEOI(p) ==
  Min({i \in p+1..Len(stream) : stream[i].m = "EOI"} \cup {Len(stream) + 1})

(* The first marker behind position p, where its scan data ends.            *)
ScanEnd(p) ==
  Min({i \in p+1..Len(stream) : ~Coded(stream[i])} \cup {Len(stream) + 1})

ScanData(p) == {i \in p+1..ScanEnd(p)-1 : Coded(stream[i])}

(* readAllScanData of a sequential image drains the source, in chunks that  *)
(* each are held against the limit, and keeps the leading entropy data.     *)
(* When it gives up the source may be in the middle of a later segment.     *)
ReadAllScanData ==
  /\ Stage("data") /\ ~frame.prog
  /\ \/ /\ limit > 0 /\ Len(stream) - pos > limit
        /\ pos' \in (pos + limit + 1)..Len(stream)
        /\ torn' \in {torn, TRUE}
        /\ End("memory") /\ UNCHANGED <<data, mem>>
     \/ /\ pos' \in pos..Len(stream)
        /\ torn' \in {torn, TRUE}
        /\ End("source") /\ UNCHANGED <<data, mem>>
     \/ /\ limit > 0 => Len(stream) - pos <= limit
        /\ pos' = Len(stream) /\ UNCHANGED torn
        /\ data' = ScanData(pos)
        /\ IF Fits(Cardinality(ScanData(pos)))
           THEN /\ mem' = mem + Cardinality(ScanData(pos))
                /\ IF op = "coefs" THEN Goto("alloc") ELSE Goto("api")
           ELSE End("memory") /\ UNCHANGED mem
  /\ UNCHANGED <<stream, unread, icVars, hdrVars, scanVars, outVars, apiVars, limit,
                 got, buf, rowVars, hisVars>>

(* readScanDataToMarker of one scan, and the decoding of its MCUs under the *)
(* parameters of the last SOS.  The limit is held against this scan alone.  *)
(* A SOS with val = 1 is an AC scan of several components, which is refused *)
(* at its first MCU.  The source may fail behind the FF of a marker.        *)
DecodeProgressiveScan ==
  /\ Stage("data") /\ frame.prog
  /\ LET end  == ScanEnd(pos)
         scanned == ScanData(pos)
     IN \/ /\ limit > 0 /\ Cardinality(scanned) > limit
           /\ pos' = pos + limit + 1 /\ End("memory")
           /\ UNCHANGED <<unread, torn, data, got, row>>
        \/ /\ pos' \in pos..end-1 /\ torn' \in {torn, TRUE} /\ End("source")
           /\ UNCHANGED <<unread, data, got, row>>
        \/ /\ limit > 0 => Cardinality(scanned) <= limit
           /\ pos' = IF end <= Len(stream) THEN end ELSE Len(stream)
           /\ unread' = (end <= Len(stream))
           /\ data' = scanned /\ UNCHANGED torn
           /\ IF stream[hdr].val = 1 THEN End("frame") /\ row' = 0 /\ UNCHANGED got
              ELSE /\ row' = Rows
                   /\ got' = [i \in DOMAIN got \cup scanned |->
                                IF i \in scanned THEN hdr ELSE got[i]]
                   /\ Goto("next")
  /\ UNCHANGED <<stream, icVars, hdrVars, scanVars, outVars, apiVars, limit, mem, buf,
                 image, total, all, hisVars>>

(* ReadCoefficients of a sequential image: reserve and decode every row.    *)
DecodeCoefficients ==
  /\ Stage("alloc") /\ ~frame.prog
  /\ Reserve(CoefSize)
  /\ IF Fits(NumComps * CoefSize)
     THEN /\ End("ok") /\ got' = [i \in data |-> hdr]
          /\ row' = Rows /\ all' = TRUE /\ line' = Height /\ done' = TRUE
     ELSE End("memory") /\ UNCHANGED <<got, row, all, line, done>>
  /\ UNCHANGED <<stream, srcVars, icVars, hdrVars, scanVars, gs, raw, buffered,
                 apiVars, limit, data, buf, image, total, hdr, started, live, tried>>

(* The loop of readProgressiveCoefficients asks for the next scan.          *)
NextScan ==
  /\ Stage("next") /\ ConsumeInput
  /\ Goto("consuming") /\ Follow
  /\ UNCHANGED <<memVars, rowVars, flagVars>>

\* Mutant: the loop over the scans misses the EOI.
EOIMissed == Goto("next") /\ UNCHANGED done

AllScansRead ==
  IF op = "coefs" THEN End("ok") /\ done' = TRUE ELSE Goto("api") /\ UNCHANGED done

ScanReached ==
  /\ Stage("consuming")
  /\ CASE ret = "reachedSOS" -> Goto("tables") /\ UNCHANGED <<all, line, done>>
       [] ret = "reachedEOI" ->
            /\ all' = TRUE /\ line' = Height
            /\ AllScansRead
       [] OTHER -> End(ret) /\ UNCHANGED <<all, line, done>>
  /\ UNCHANGED <<stream, srcVars, icVars, hdrVars, scanVars, gs, raw, buffered,
                 apiVars, memVars, image, row, total, hdr, started, live, tried>>

(* The marker level starts the output.                                      *)
StartOutput ==
  /\ Stage("api") /\ StartDecompress
  /\ Goto("starting")
  /\ UNCHANGED <<memVars, rowVars, hisVars>>

OutputStarted ==
  /\ Stage("starting")
  /\ IF ret = "ok" THEN Goto("setup") ELSE End(ret)
  /\ UNCHANGED <<stream, Api, memVars, rowVars, hisVars>>

(* validateColorConversion, setupColorPipeline and, for a progressive image,*)
(* renderCoefficientComponents.                                             *)
SetupColorPipeline ==
  /\ Stage("setup")
  /\ \/ /\ End("unsupported")
        /\ UNCHANGED <<mem, buf, rowVars, started, live>>
     \/ /\ Reserve(BufSize) /\ ~Fits(NumComps * BufSize)
        /\ buf' = "partial" /\ image' = {}
        /\ End("memory")
        /\ UNCHANGED <<row, total, all, started, live>>
     \/ /\ Reserve(BufSize) /\ Fits(NumComps * BufSize)
        /\ buf' = "full"
        /\ image' = IF frame.prog THEN DOMAIN got ELSE {}
        /\ row' = 0 /\ total' = Rows /\ all' = frame.prog
        /\ End("ok") /\ started' = TRUE /\ live' = TRUE
  /\ UNCHANGED <<stream, Api, limit, data, got, hdr, done, tried>>

-----------------------------------------------------------------------------
(* The line readers, none of which reads from the source.                   *)
Reader == op = "none" /\ call = "none"

\* Mutant: the entropy input was not rewound to the scan data.
DecodeNothing(n) == IF n > row THEN image' = {} /\ row' = n ELSE UNCHANGED <<image, row>>

(* decodeIMCURow up to iMCU row n, from scanData.                           *)
DecodeRows(n) == IF n > row THEN image' = data /\ row' = n ELSE UNCHANGED <<image, row>>

DeliverLines(n) == line' = n

Refuse == res' = "badState" /\ UNCHANGED <<line, rowVars>>

(* readScanlines decodes everything on its first call and then converts     *)
(* line by line.  That takes every component buffer it needs for granted:   *)
(* the index panics when one is missing (no row is left to decode then).    *)
(* decode.go asks for no start first.  SkipScanlines reads the lines into a *)
(* discard buffer.                                                          *)
ReadScanlines(n) ==
  /\ Reader
  /\ \/ gs # "scanning" /\ Refuse
     \/ gs = "scanning" /\ line >= Height /\ res' = "ok" /\ UNCHANGED <<line, rowVars>>
     \/ /\ gs = "scanning" /\ line < Height
        /\ IF all THEN UNCHANGED rowVars
           ELSE DecodeRows(total) /\ all' = TRUE /\ UNCHANGED total
        /\ \/ buf # "nil" /\ res' = "ok" /\ DeliverLines(Min({line + n, Height}))
           \/ buf # "full" /\ res' = "panic" /\ UNCHANGED line
  /\ UNCHANGED <<stream, srcVars, icVars, hdrVars, scanVars, gs, raw, buffered,
                 apiVars, op, at, memVars, hisVars>>

(* ReadRawData decodes the rows that are left and returns the whole planes. *)
(* Both raw readers leave out a component without a buffer.                 *)
RawStarted == started /\ gs = "rawok"

ReadRawData ==
  /\ Reader
  /\ \/ ~RawStarted /\ Refuse
     \/ /\ RawStarted /\ res' = "ok"
        /\ IF all THEN UNCHANGED rowVars
           ELSE DecodeRows(total) /\ all' = TRUE /\ UNCHANGED total
        /\ DeliverLines(Height)
  /\ UNCHANGED <<stream, srcVars, icVars, hdrVars, scanVars, gs, raw, buffered,
                 apiVars, op, at, memVars, hisVars>>

\* Mutant: the row counter stays where it is.
SameRow == row

NextRow == row + 1

(* ReadRawDataRows delivers one iMCU row.                                   *)
ReadRawDataRows ==
  /\ Reader
  /\ \/ ~RawStarted /\ Refuse
     \/ RawStarted /\ (line >= Height \/ row >= total)
        /\ res' = "ok" /\ UNCHANGED <<line, rowVars>>
     \/ /\ RawStarted /\ line < Height /\ row < total /\ res' = "ok"
        /\ IF all THEN row' = NextRow /\ UNCHANGED image ELSE DecodeRows(NextRow)
        /\ all' = (all \/ row' >= total)
        /\ DeliverLines(line + RowLines)
        /\ UNCHANGED total
  /\ UNCHANGED <<stream, srcVars, icVars, hdrVars, scanVars, gs, raw, buffered,
                 apiVars, op, at, memVars, hisVars>>

-----------------------------------------------------------------------------
ReleaseBuffers ==
  /\ data' = {} /\ buf' = "nil" /\ image' = {}
  /\ row' = 0 /\ total' = 0 /\ all' = FALSE /\ mem' = 0
  /\ live' = FALSE

(* The facade's Finish once the image counts as finished: nothing.          *)
FinishAgain ==
  /\ op = "none" /\ call = "none" /\ done
  /\ res' = "ok"
  /\ UNCHANGED <<stream, Api, op, at, memVars, rowVars, hisVars>>

(* Finish of a progressive image whose EOI was read only releases the       *)
(* buffers: GlobalState, started and the lines delivered are not looked at. *)
ReleaseDecodeBuffers ==
  /\ op = "none" /\ call = "none" /\ ~done /\ frame.prog /\ eoi
  /\ ReleaseBuffers /\ done' = TRUE /\ res' = "ok"
  /\ UNCHANGED <<stream, Api, op, at, limit, got, hdr, started, tried>>

FinishBegin ==
  /\ op = "none" /\ ~done /\ ~(frame.prog /\ eoi) /\ FinishDecompress
  /\ op' = "finish" /\ at' = "finishing" /\ res' = "none"
  /\ Follow
  /\ UNCHANGED <<memVars, rowVars, flagVars>>

(* FinishDecompress takes the end of the source for the end of the image,   *)
(* but no other failure of the source.                                      *)
FinishSwallows == ret = "finished" \/ ret = "source"

FinishEnd ==
  /\ Stage("finishing")
  /\ \/ FinishSwallows /\ ReleaseBuffers /\ done' = TRUE /\ End("released")
     \/ /\ ret # "finished" /\ (ret = "source" => pos < Len(stream))
        /\ End(ret)
        /\ UNCHANGED <<data, buf, image, row, total, all, mem, live, done>>
  /\ UNCHANGED <<stream, Api, limit, got, hdr, started, tried>>

AbortDecoder ==
  /\ op = "none" /\ Abort
  /\ ReleaseBuffers /\ started' = FALSE /\ done' = FALSE
  /\ tried' = 0
  /\ UNCHANGED <<opVars, limit, got, hdr>>

DecoderStep ==
  \/ MarkerStep \/ InputPass \/ AllocCoefficients \/ PrepareEntropyDecoder
  \/ ReadAllScanData \/ DecodeProgressiveScan \/ DecodeCoefficients
  \/ NextScan \/ ScanReached \/ StartOutput \/ OutputStarted
  \/ SetupColorPipeline \/ FinishEnd

DecNext ==
  \/ DecoderStep
  \/ HeaderCall \/ SetRawDataOut \/ Begin("start") \/ Begin("coefs")
  \/ (\E n \in 1..Height : ReadScanlines(n)) \/ ReadRawData \/ ReadRawDataRows
  \/ FinishAgain \/ FinishBegin \/ ReleaseDecodeBuffers \/ AbortDecoder

decoderVars == <<vars, decVars>>

(* The decoder is called and runs in its caller's goroutine.                *)
DecSpec == DecInit /\ [][DecNext]_decoderVars /\ WF_decoderVars(DecoderStep)

-----------------------------------------------------------------------------
(* Every piece of entropy data is decoded under the parameters of the SOS   *)
(* it follows, with no other scan header in between (decodeProgressiveScan  *)
(* alternates with ConsumeInput, readScanDataToMarker stops at the marker), *)
(* on the first decoding operation since the header.                        *)
DataMatchesScan ==
  tried = 1 => \A i \in DOMAIN got :
    got[i] = Max({j \in 1..i : stream[j].m = "SOS"})

(* The entropy data of the image whose header was read: what follows its    *)
(* scan header, or each of several, up to the next marker.                  *)
HeaderStart == Max({i \in 1..hdr : stream[i].m = "SOI"})
ImageEnd == Min({i \in hdr..Len(stream) : stream[i].m = "EOI"} \cup {Len(stream)})
IsScan(i) == stream[i].m = "SOS" /\ stream[i].comps # {}
ImageData ==
  IF multi THEN UNION {ScanData(j) : j \in {k \in HeaderStart..ImageEnd : IsScan(k)}}
  ELSE ScanData(hdr)

(* The samples a decoder delivers after a successful start are decoded from *)
(* all the entropy data of the image, on the first decoding operation since *)
(* the header: the source is drained (readAllScanData) or followed scan by  *)
(* scan to the EOI (readProgressiveCoefficients) before the first line.     *)
ImageComplete ==
  live /\ tried = 1 /\ line > 0 /\ gs \in {"scanning", "rawok"} =>
    image = ImageData

(* The memory limit bounds what a decoder holds once component buffers are  *)
(* made, by this start or an earlier one: scan data and component buffers   *)
(* of a sequential image, coefficients and component buffers of a           *)
(* progressive one (reserveMemory).                                         *)
Buffers == IF buf = "full" THEN NumComps * BufSize ELSE 0
ReservationsBounded ==
  buf # "nil" /\ limit > 0 =>
    Buffers + (IF frame.prog THEN NumComps * CoefSize ELSE Cardinality(data)) <= limit

(* From a successful start to the next start, Finish or Abort every         *)
(* component has its buffer, whatever else is called and refused, and lines *)
(* are delivered from iMCU rows that have been decoded: ReadScanlines after *)
(* all rows, ReadRawDataRows one by one.  (The readers themselves test      *)
(* neither: they trust GlobalState, and some decode.go's started.)          *)
LinesAreDecoded ==
  live /\ gs \in {"scanning", "rawok"} =>
    buf = "full" /\ (all \/ line <= row * RowLines)

(* Every operation returns, on every stream and wherever the source fails.  *)
OperationReturns == (op # "none") ~> (op = "none")

(* "Baseline and extended sequential non-progressive JPEG decoding are the  *)
(* primary supported paths": a sequential image that is all there never     *)
(* fails to start because its source ran out.                               *)
WholeImage == ImageEnd <= Len(stream) /\ stream[ImageEnd].m = "EOI"
SequentialStarts ==
  Stage("starting") /\ ~frame.prog /\ WholeImage => ret # "source"
=============================================================================
