-------------------------- MODULE ScanDecoderProofs --------------------------
(***************************************************************************)
(* Proofs about ScanDecoder, for every set of datastreams, every limit and *)
(* every size of the buffers and of an iMCU row: lines are delivered from  *)
(* decoded rows, what a started decoder holds stays within the limit, and  *)
(* entropy data is decoded under its own scan header and is complete.      *)
(***************************************************************************)
EXTENDS ScanDecoder, DecompressorProofs

Output == {"scanning", "rawok"}

(* The counters that LinesAreDecoded compares.                              *)
CountersOK == line \in Nat /\ row \in Nat /\ total \in Nat

(* Between the stages of an operation no marker-level call is in progress,  *)
(* but for the stages that wait for one to return.                          *)
StageCalls ==
  /\ op = "none" <=> at = "none"
  /\ at \notin {"none", "consuming", "starting", "finishing"} => call = "none"
  /\ at = "starting" => call \in {"none", "start"}

(* A start that succeeded has set the line counter back by the time the     *)
(* buffers are set up, which sets the row counter back.                     *)
FreshOutput ==
  gs \in Output =>
    /\ at = "setup" => line = 0
    /\ at = "starting" /\ call = "none" /\ ret = "ok" => line = 0

(* The buffers of a successful start are in place until the next operation. *)
LiveBuffers == live => buf = "full" /\ at \in {"none", "finishing"}

LInv == CountersOK /\ StageCalls /\ FreshOutput /\ LiveBuffers /\ LinesAreDecoded

-----------------------------------------------------------------------------
(* The marker level touches the line counter only to begin an output pass.  *)
LEMMA MarkerLines ==
  ASSUME CallStep \/ Failure
  PROVE  /\ call # "none" /\ (call' = call \/ call' = "none")
         /\ \/ line' = 0
            \/ /\ line' = line
               /\ gs' \in Output => gs \in Output
               /\ ~(call = "start" /\ call' = "none" /\ ret' = "ok")
<1>. USE DEF Output, outVars, apiVars, Return, Reading, Handling, Reset
<1>1. CASE Failure
  BY <1>1 DEF Failure, SourceError, SourceErrorInside
<1>2. CASE EndOfSource
  BY <1>2 DEF EndOfSource
<1>3. CASE FirstMarker
  BY <1>3 DEF FirstMarker
<1>4. CASE NextMarker
  BY <1>4 DEF NextMarker
<1>5. CASE AtEOI
  BY <1>5 DEF AtEOI, OutputPassSetup
<1>6. CASE GetSOI
  BY <1>6 DEF GetSOI
<1>7. CASE GetSOF
  BY <1>7 DEF GetSOF
<1>8. CASE UnsupportedSOF
  BY <1>8 DEF UnsupportedSOF
<1>9. CASE GetSOS
  BY <1>9 DEF GetSOS, FirstSOS, LaterSOS, ReturnSOS
<1>10. CASE RejectSOS
  BY <1>10 DEF RejectSOS
<1>11. CASE GetEOI
  BY <1>11 DEF GetEOI
<1>12. CASE GetSegment
  BY <1>12 DEF GetSegment
<1>. QED BY <1>1, <1>2, <1>3, <1>4, <1>5, <1>6, <1>7, <1>8, <1>9, <1>10, <1>11, <1>12 DEF CallStep

(* Neither do the calls that read headers or set parameters.                *)
LEMMA HeaderLines ==
  ASSUME ReadHeader \/ ConsumeInput \/ SetParameters
  PROVE  line' = line /\ (gs' \in Output => gs \in Output)
BY DEF Output, ReadHeader, ConsumeInput, SetParameters, EnterConsume, BadState, outVars

(* Starting either makes the call, is refused, or begins the output.        *)
LEMMA StartLines ==
  ASSUME StartDecompress
  PROVE  /\ call' \in {"none", "start"}
         /\ \/ line' = 0
            \/ /\ line' = line
               /\ gs' \in Output => gs \in Output /\ ret' # "ok"
BY DEF StartDecompress, Output, Idle, BadState, Return, OutputPassSetup, outVars

(* One iMCU row more makes room for its lines.                              *)
LEMMA RowsGrow ==
  ASSUME NEW l \in Nat, NEW r \in Nat, l <= r * RowLines
  PROVE  l + RowLines <= (r + 1) * RowLines
<1>1. RowLines \in Nat
  BY SizesAssumption
<1>2. (r + 1) * RowLines = r * RowLines + RowLines
  BY <1>1
<1>3. r * RowLines \in Nat
  BY <1>1
<1>. QED BY <1>1, <1>2, <1>3

LEMMA RowsType == Rows \in Nat /\ RowLines \in Nat /\ Height \in Nat
<1>1. RowLines \in Nat \ {0} /\ Height \in Nat
  BY SizesAssumption, ConstantsAssumption
<1>2. Height + RowLines - 1 \in Nat
  BY <1>1
<1>. QED BY <1>1, <1>2 DEF Rows

LEMMA LInvInit == DecInit => LInv
BY DEF DecInit, Init, LInv, CountersOK, StageCalls, FreshOutput, LiveBuffers, LinesAreDecoded, Output

(* A step that leaves the rows alone, and the buffers of a live start.      *)
LEMMA KeepsDecoded ==
  ASSUME LInv, UNCHANGED <<row, total, all>>,
         live' => live /\ buf' = buf /\ at' \in {"none", "finishing"},
         \/ line' = 0
         \/ line' = line /\ (gs' \in Output => gs \in Output)
  PROVE  CountersOK' /\ LiveBuffers' /\ LinesAreDecoded'
<1>1. CountersOK'
  BY DEF LInv, CountersOK
<1>2. LiveBuffers'
  BY DEF LInv, LiveBuffers
<1>3. line' = 0 => LinesAreDecoded'
  <2>1. row * RowLines >= 0
    BY RowsType DEF LInv, CountersOK
  <2>. QED BY <1>2, <2>1 DEF LinesAreDecoded, LiveBuffers
<1>4. line' = line /\ (gs' \in Output => gs \in Output) => LinesAreDecoded'
  BY <1>2 DEF LInv, LinesAreDecoded, LiveBuffers, Output
<1>. QED BY <1>1, <1>2, <1>3, <1>4

(* Nor does any step that leaves no start live.                             *)
LEMMA NothingLive ==
  ASSUME CountersOK', ~live'
  PROVE  CountersOK' /\ LiveBuffers' /\ LinesAreDecoded'
BY DEF LiveBuffers, LinesAreDecoded

-----------------------------------------------------------------------------
(* The steps of an operation.                                               *)
LEMMA MarkerKeeps == LInv /\ MarkerStep => LInv'
<1>. SUFFICES ASSUME LInv, MarkerStep PROVE LInv'
  OBVIOUS
<1>1. /\ call # "none" /\ (call' = call \/ call' = "none")
      /\ \/ line' = 0
         \/ /\ line' = line
            /\ gs' \in Output => gs \in Output
            /\ ~(call = "start" /\ call' = "none" /\ ret' = "ok")
  BY MarkerLines DEF MarkerStep
<1>2. UNCHANGED <<row, total, all, buf, live, op, at>>
  BY DEF MarkerStep, opVars, memVars, rowVars, flagVars
<1>3. CountersOK' /\ LiveBuffers' /\ LinesAreDecoded'
  BY <1>1, <1>2, KeepsDecoded DEF LInv, LiveBuffers
<1>4. StageCalls'
  BY <1>1, <1>2 DEF LInv, StageCalls
<1>5. FreshOutput'
  BY <1>1, <1>2 DEF LInv, StageCalls, FreshOutput
<1>. QED BY <1>3, <1>4, <1>5 DEF LInv

LEMMA StageKeeps ==
  ASSUME LInv,
         InputPass \/ AllocCoefficients \/ PrepareEntropyDecoder \/ ReadAllScanData
           \/ DecodeProgressiveScan
  PROVE  LInv'
<1>1. UNCHANGED <<line, total, live>> /\ row' \in {row, 0, Rows}
  BY DEF InputPass, StartInputPass, AllocCoefficients, PrepareEntropyDecoder, ReadAllScanData,
         DecodeProgressiveScan, memVars, rowVars, hisVars, outVars, Api
<1>2. /\ call = "none" /\ call' = "none" /\ op # "none"
      /\ at \in {"pass", "alloc", "tables", "data"}
  BY DEF InputPass, StartInputPass, AllocCoefficients, PrepareEntropyDecoder, ReadAllScanData,
         DecodeProgressiveScan, Stage, Api, apiVars, Return
<1>3. at' \notin {"setup", "starting", "consuming", "finishing"} /\ (op' = "none" <=> at' = "none")
  BY <1>2 DEF InputPass, AllocCoefficients, PrepareEntropyDecoder, ReadAllScanData,
         DecodeProgressiveScan, Goto, End
<1>4. CountersOK' /\ ~live'
  BY <1>1, <1>2, RowsType DEF LInv, CountersOK, LiveBuffers
<1>5. LiveBuffers' /\ LinesAreDecoded'
  BY <1>4, NothingLive
<1>. QED BY <1>2, <1>3, <1>4, <1>5 DEF LInv, StageCalls, FreshOutput

LEMMA DecodeCoefficientsKeeps == LInv /\ DecodeCoefficients => LInv'
<1>. SUFFICES ASSUME LInv, DecodeCoefficients PROVE LInv'
  OBVIOUS
<1>1. op' = "none" /\ at' = "none" /\ gs' = gs /\ at = "alloc" /\ live' = live
  BY DEF DecodeCoefficients, End, Stage
<1>2. StageCalls' /\ FreshOutput'
  BY <1>1 DEF StageCalls, FreshOutput
<1>3. CountersOK' /\ ~live'
  BY <1>1, RowsType DEF DecodeCoefficients, LInv, CountersOK, LiveBuffers
<1>. QED BY <1>2, <1>3, NothingLive DEF LInv

LEMMA ScanKeeps == LInv /\ (NextScan \/ ScanReached) => LInv'
<1>1. ASSUME LInv, NextScan PROVE LInv'
  <2>1. line' = line
    BY <1>1, HeaderLines DEF NextScan
  <2>2. /\ UNCHANGED <<row, total, live, op>>
        /\ at = "next" /\ at' = "consuming" /\ op # "none"
    BY <1>1 DEF NextScan, Goto, Stage, rowVars, flagVars
  <2>3. CountersOK' /\ ~live'
    BY <1>1, <2>1, <2>2 DEF LInv, CountersOK, LiveBuffers
  <2>. QED BY <2>2, <2>3, NothingLive DEF LInv, StageCalls, FreshOutput
<1>2. ASSUME LInv, ScanReached PROVE LInv'
  <2>1. /\ call = "none" /\ call' = "none" /\ op # "none" /\ at = "consuming"
        /\ at' \in {"tables", "none", "api"} /\ (op' = "none" <=> at' = "none")
    BY <1>2 DEF ScanReached, Stage, apiVars, Goto, End, AllScansRead
  <2>2. UNCHANGED <<row, total, live>> /\ line' \in {line, Height}
    BY <1>2 DEF ScanReached
  <2>3. CountersOK' /\ ~live'
    BY <1>2, <2>1, <2>2, RowsType DEF LInv, CountersOK, LiveBuffers
  <2>. QED BY <2>1, <2>3, NothingLive DEF LInv, StageCalls, FreshOutput
<1>. QED BY <1>1, <1>2

LEMMA OutputKeeps == LInv /\ (StartOutput \/ OutputStarted) => LInv'
<1>1. ASSUME LInv, StartOutput PROVE LInv'
  <2>1. /\ call' \in {"none", "start"}
        /\ \/ line' = 0
           \/ /\ line' = line
              /\ gs' \in Output => gs \in Output /\ ret' # "ok"
    BY <1>1, StartLines DEF StartOutput
  <2>2. /\ UNCHANGED <<row, total, live, op>>
        /\ at = "api" /\ at' = "starting" /\ op # "none"
    BY <1>1 DEF StartOutput, Goto, Stage, rowVars, hisVars
  <2>3. CountersOK' /\ ~live'
    BY <1>1, <2>1, <2>2 DEF LInv, CountersOK, LiveBuffers
  <2>. QED BY <2>1, <2>2, <2>3, NothingLive DEF LInv, StageCalls, FreshOutput
<1>2. ASSUME LInv, OutputStarted PROVE LInv'
  <2>1. UNCHANGED <<row, total, live, line, gs, call, ret>>
    BY <1>2 DEF OutputStarted, Api, outVars, apiVars, rowVars, hisVars
  <2>2. /\ at = "starting" /\ op # "none" /\ call = "none"
        /\ \/ ret = "ok" /\ at' = "setup" /\ op' = op
           \/ at' = "none" /\ op' = "none"
    BY <1>2 DEF OutputStarted, Stage, Goto, End
  <2>3. CountersOK' /\ ~live'
    BY <1>2, <2>1, <2>2 DEF LInv, CountersOK, LiveBuffers
  <2>. QED BY <1>2, <2>1, <2>2, <2>3, NothingLive DEF LInv, StageCalls, FreshOutput
<1>. QED BY <1>1, <1>2

(* The buffers are set up: no line is delivered yet, and no row decoded     *)
(* unless the image is progressive.                                         *)
LEMMA SetupKeeps == LInv /\ SetupColorPipeline => LInv'
<1>. SUFFICES ASSUME LInv, SetupColorPipeline PROVE LInv'
  OBVIOUS
<1>1. UNCHANGED <<line, gs, call>> /\ at = "setup" /\ op' = "none" /\ at' = "none"
  BY DEF SetupColorPipeline, Api, outVars, apiVars, Stage, End
<1>2. StageCalls' /\ FreshOutput'
  BY <1>1 DEF StageCalls, FreshOutput
<1>3. CASE UNCHANGED <<row, total, live>>
  <2>1. CountersOK' /\ ~live'
    BY <1>1, <1>3 DEF LInv, CountersOK, LiveBuffers
  <2>. QED BY <1>2, <2>1, NothingLive DEF LInv
<1>4. CASE buf' = "full" /\ row' = 0 /\ total' = Rows
  <2>1. gs \in Output => line = 0
    BY <1>1 DEF LInv, FreshOutput
  <2>2. CountersOK'
    BY <1>1, <1>4, RowsType DEF LInv, CountersOK
  <2>3. LiveBuffers' /\ LinesAreDecoded'
    BY <1>1, <1>4, <2>1, RowsType DEF LiveBuffers, LinesAreDecoded, Output
  <2>. QED BY <1>2, <2>2, <2>3 DEF LInv
<1>. QED BY <1>3, <1>4 DEF SetupColorPipeline, rowVars

LEMMA FinishKeeps ==
  ASSUME LInv,
         FinishAgain \/ FinishBegin \/ FinishEnd \/ ReleaseDecodeBuffers \/ AbortDecoder
  PROVE  LInv'
<1>1. CASE FinishBegin
  <2>1. line' = line /\ (gs' \in Output => gs \in Output)
    BY <1>1 DEF FinishBegin, FinishDecompress, ReadUntilEOI, Output
  <2>2. UNCHANGED <<row, total, all, buf, live>> /\ at' = "finishing" /\ op' = "finish"
    BY <1>1 DEF FinishBegin, memVars, rowVars, flagVars
  <2>3. CountersOK' /\ LiveBuffers' /\ LinesAreDecoded'
    BY <2>1, <2>2, KeepsDecoded
  <2>. QED BY <2>2, <2>3 DEF LInv, StageCalls, FreshOutput
<1>2. CASE FinishEnd
  <2>1. UNCHANGED <<line, gs, call>> /\ op' = "none" /\ at' = "none"
    BY <1>2 DEF FinishEnd, Api, outVars, apiVars, End
  <2>2. \/ row' = 0 /\ total' = 0 /\ live' = FALSE
        \/ UNCHANGED <<row, total, all, buf, live>>
    BY <1>2 DEF FinishEnd, ReleaseBuffers
  <2>3. CountersOK' /\ LiveBuffers' /\ LinesAreDecoded'
    BY <2>1, <2>2, KeepsDecoded, NothingLive DEF LInv, CountersOK
  <2>. QED BY <2>1, <2>3 DEF LInv, StageCalls, FreshOutput
<1>3. CASE ReleaseDecodeBuffers \/ AbortDecoder
  <2>1. /\ UNCHANGED <<op, at>> /\ op = "none" /\ row' = 0 /\ total' = 0 /\ live' = FALSE
        /\ line' \in {line, 0}
    BY <1>3 DEF ReleaseDecodeBuffers, AbortDecoder, Abort, ReleaseBuffers, Api, outVars, opVars
  <2>2. CountersOK' /\ ~live'
    BY <2>1 DEF LInv, CountersOK
  <2>. QED BY <2>1, <2>2, NothingLive DEF LInv, StageCalls, FreshOutput
<1>4. CASE FinishAgain
  <2>1. UNCHANGED <<line, gs, call, ret, op, at, row, total, all, buf, live>> /\ op = "none"
    BY <1>4 DEF FinishAgain, Api, outVars, apiVars, memVars, rowVars, hisVars
  <2>. QED BY <2>1 DEF LInv, CountersOK, StageCalls, FreshOutput, LiveBuffers, LinesAreDecoded
<1>. QED BY <1>1, <1>2, <1>3, <1>4

-----------------------------------------------------------------------------
(* The client's calls.                                                      *)
LEMMA BeginKeeps ==
  ASSUME LInv, HeaderCall \/ SetRawDataOut \/ Begin("start") \/ Begin("coefs")
  PROVE  LInv'
<1>1. CASE HeaderCall
  <2>1. line' = line /\ (gs' \in Output => gs \in Output)
    BY <1>1, HeaderLines DEF HeaderCall
  <2>2. UNCHANGED <<row, total, all, buf, live, op, at>> /\ op = "none"
    BY <1>1 DEF HeaderCall, opVars, memVars, rowVars, flagVars
  <2>3. CountersOK' /\ LiveBuffers' /\ LinesAreDecoded'
    BY <2>1, <2>2, KeepsDecoded DEF LInv, LiveBuffers
  <2>. QED BY <2>2, <2>3 DEF LInv, StageCalls, FreshOutput
<1>2. CASE SetRawDataOut
  <2>1. line' = line /\ (gs' \in Output => gs \in Output)
    BY <1>2, HeaderLines DEF SetRawDataOut
  <2>2. UNCHANGED <<row, total, all, buf, live, op, at>> /\ op = "none"
    BY <1>2 DEF SetRawDataOut, decVars, opVars, memVars, rowVars, hisVars
  <2>3. CountersOK' /\ LiveBuffers' /\ LinesAreDecoded'
    BY <2>1, <2>2, KeepsDecoded DEF LInv, LiveBuffers
  <2>. QED BY <2>2, <2>3 DEF LInv, StageCalls, FreshOutput
<1>3. CASE Begin("start") \/ Begin("coefs")
  <2>1. UNCHANGED <<line, gs, call, row, total, all, buf>> /\ call = "none" /\ op = "none"
    BY <1>3 DEF Begin, Idle, Api, outVars, apiVars, rowVars
  <2>2. \/ UNCHANGED <<op, at, live>>
        \/ op' \in {"start", "coefs"} /\ at' = "pass" /\ ~live'
    BY <1>3 DEF Begin
  <2>3. CountersOK' /\ LiveBuffers' /\ LinesAreDecoded'
    BY <2>1, <2>2, KeepsDecoded DEF LInv, LiveBuffers
  <2>. QED BY <2>1, <2>2, <2>3 DEF LInv, StageCalls, FreshOutput
<1>. QED BY <1>1, <1>2, <1>3

(* A line reader decodes before it delivers.                                *)
LEMMA ReaderKeeps ==
  ASSUME LInv, (\E n \in 1..Height : ReadScanlines(n)) \/ ReadRawData \/ ReadRawDataRows
  PROVE  LInv'
<1>1. /\ UNCHANGED <<op, at, call, gs, buf, live>> /\ op = "none"
  BY DEF ReadScanlines, ReadRawData, ReadRawDataRows, Reader, apiVars, memVars, hisVars
<1>2. StageCalls' /\ FreshOutput' /\ LiveBuffers'
  BY <1>1 DEF LInv, StageCalls, FreshOutput, LiveBuffers
<1>3. CASE UNCHANGED <<line, row, total, all>>
  BY <1>1, <1>2, <1>3, KeepsDecoded DEF LInv, LiveBuffers
<1>4. CASE line' \in Nat /\ row' \in Nat /\ total' = total /\ all'
  BY <1>2, <1>4 DEF LInv, CountersOK, LiveBuffers, LinesAreDecoded
<1>5. ASSUME NEW n \in 1..Height, ReadScanlines(n) PROVE LInv'
  <2>1. Min({line + n, Height}) \in Nat
    <3>1. line + n \in Nat
      BY RowsType DEF LInv, CountersOK
    <3>. QED BY <3>1, MinOfTwo, RowsType
  <2>2. \/ UNCHANGED <<line, row, total, all>>
        \/ /\ line' \in {line, Min({line + n, Height})} /\ total' = total
           /\ row' \in {row, total} /\ all'
    BY <1>5 DEF ReadScanlines, Refuse, DecodeRows, DeliverLines, rowVars
  <2>3. (line' \in Nat /\ row' \in Nat) \/ UNCHANGED <<line, row, total, all>>
    BY <2>1, <2>2 DEF LInv, CountersOK
  <2>. QED BY <1>3, <1>4, <2>2, <2>3
<1>6. CASE ReadRawData
  <2>1. \/ UNCHANGED <<line, row, total, all>>
        \/ line' = Height /\ total' = total /\ all' /\ row' \in {row, total}
    BY <1>6 DEF ReadRawData, Refuse, DecodeRows, DeliverLines, rowVars
  <2>. QED BY <1>3, <1>4, <2>1, RowsType DEF LInv, CountersOK
<1>7. CASE ReadRawDataRows
  <2>0. row + 1 > row
    BY DEF LInv, CountersOK
  <2>1. \/ UNCHANGED <<line, row, total, all>>
        \/ /\ gs \in Output /\ line' = line + RowLines /\ row' = row + 1
           /\ total' = total /\ (all => all')
    BY <1>7, <2>0 DEF ReadRawDataRows, RawStarted, Refuse, DecodeRows, DeliverLines, rowVars, NextRow,
                      Output
  <2>2. CASE line' = line + RowLines /\ row' = row + 1 /\ total' = total /\ (all => all')
             /\ gs \in Output
    <3>1. CountersOK'
      BY <2>2, RowsType DEF LInv, CountersOK
    <3>2. ASSUME live', ~all' PROVE line' <= row' * RowLines
      <4>1. line <= row * RowLines
        BY <1>1, <2>2, <3>2 DEF LInv, LinesAreDecoded, Output
      <4>. QED BY <2>2, <4>1, RowsGrow DEF LInv, CountersOK
    <3>. QED BY <1>2, <3>1, <3>2 DEF LInv, LinesAreDecoded, LiveBuffers
  <2>. QED BY <1>3, <2>1, <2>2
<1>. QED BY <1>5, <1>6, <1>7

LEMMA LInvStep == LInv /\ [DecNext]_decoderVars => LInv'
<1>. SUFFICES ASSUME LInv, [DecNext]_decoderVars PROVE LInv'
  OBVIOUS
<1>1. CASE DecoderStep
  BY <1>1, MarkerKeeps, StageKeeps, DecodeCoefficientsKeeps, ScanKeeps, OutputKeeps, SetupKeeps,
     FinishKeeps DEF DecoderStep
<1>2. CASE UNCHANGED decoderVars
  BY <1>2 DEF decoderVars, vars, decVars, outVars, apiVars, opVars, memVars, rowVars, hisVars,
     LInv, CountersOK, StageCalls, FreshOutput, LiveBuffers, LinesAreDecoded
<1>. QED BY <1>1, <1>2, BeginKeeps, ReaderKeeps, FinishKeeps DEF DecNext

(* From a successful start to the next start, Finish or Abort every         *)
(* component has its buffer and lines come from iMCU rows that have been    *)
(* decoded, for every datastream, memory limit and row height.              *)
THEOREM LinesAreDecodedHolds == DecSpec => []LinesAreDecoded
<1>1. DecInit => LInv
  BY LInvInit
<1>2. LInv /\ [DecNext]_decoderVars => LInv'
  BY LInvStep
<1>3. LInv => LinesAreDecoded
  BY DEF LInv
<1>. QED BY <1>1, <1>2, <1>3, PTL DEF DecSpec

-----------------------------------------------------------------------------
(* The memory limit.                                                        *)
HeaderStates == {"start", "inheader"}

(* Which stage waits for which call of the marker level.                    *)
InCall == /\ at = "consuming" => call \in {"none", "consume"}
          /\ at = "finishing" => call \in {"none", "finish"}
          /\ call = "finish" => at = "finishing"
          /\ call = "start" => at = "starting"

(* Operations begin past the header, and component buffers are held until   *)
(* they are released.                                                       *)
PastHeader ==
  /\ at \notin {"none", "finishing"} => gs \notin HeaderStates
  /\ buf # "nil" /\ gs \in HeaderStates => at = "finishing" /\ call = "none" /\ ret = "finished"

(* Before the output is set up the file has been read to where no header    *)
(* can change any more.                                                     *)
SourceClosed ==
  buf # "nil" \/ at \in {"api", "starting", "setup"} =>
    IF frame.prog THEN eoi ELSE pos = Len(stream) /\ ~unread

(* memoryUsed counts what the operation holds at each of its stages.        *)
Accounted ==
  /\ at = "pass" \/ (at = "alloc" /\ frame.prog) \/ (at \in {"tables", "data"} /\ ~frame.prog) =>
       mem = 0 /\ (~frame.prog => ~unread)
  /\ at \in {"api", "starting", "setup"} /\ ~frame.prog => mem = Cardinality(data)
  /\ \/ at \in {"tables", "data", "api", "starting", "setup"} /\ frame.prog
     \/ at \in {"next", "consuming"}
     => mem = NumComps * CoefSize
  /\ at = "next" => frame.prog
  /\ at = "consuming" =>
       \/ frame.prog /\ (call = "none" /\ ret = "reachedEOI" => eoi)
       \/ call = "none" /\ ret \in {"source", "format"}

(* What is reserved has been held against the limit.                        *)
Within == limit > 0 /\ at \notin {"none", "finishing"} => mem <= limit

Kinds == limit \in Nat /\ IsFiniteSet(data)

(* The inductive invariant.                                                 *)
MInv == /\ TypeInv /\ CallPhase /\ HeaderDone /\ LInv /\ Kinds
        /\ InCall /\ PastHeader /\ SourceClosed /\ Accounted /\ Within /\ ReservationsBounded

-----------------------------------------------------------------------------
(* A set of numbers has a least one: the sets 1..n for its members n have a *)
(* minimal one among them.                                                  *)
LEMMA Least ==
  ASSUME NEW S \in SUBSET Nat, S # {}
  PROVE  \E m \in S : \A n \in S : m <= n
<1>. DEFINE T == {1..n : n \in S}
<1>1. IsWellFoundedOn(StrictSubsetOrdering(Nat), FiniteSubsetsOf(Nat))
  BY FS_StrictSubsetOrderingWellFounded
<1>2. T \subseteq FiniteSubsetsOf(Nat) /\ T # {}
  <2>1. ASSUME NEW n \in S PROVE 1..n \in FiniteSubsetsOf(Nat)
    BY FS_Interval DEF FiniteSubsetsOf
  <2>. QED BY <2>1
<1>3. PICK t \in T : \A u \in T : ~(<<u, t>> \in StrictSubsetOrdering(Nat))
  BY ONLY <1>1, <1>2, WFMin, Zenon
<1>4. PICK m \in S : t = 1..m
  OBVIOUS
<1>5. ASSUME NEW n \in S PROVE m <= n
  <2>1. SUFFICES ASSUME n < m PROVE FALSE
    OBVIOUS
  <2>2. 1..n \subseteq 1..m /\ 1..n # 1..m
    <3>1. m \in 1..m /\ m \notin 1..n
      BY <2>1
    <3>2. 1..n \subseteq 1..m
      BY <2>1
    <3>. QED BY <3>1, <3>2
  <2>3. 1..n \in SUBSET Nat /\ 1..m \in SUBSET Nat
    OBVIOUS
  <2>4. <<1..n, 1..m>> \in StrictSubsetOrdering(Nat)
    BY <2>2, <2>3 DEF StrictSubsetOrdering
  <2>. QED BY <1>3, <1>4, <2>4
<1>. QED BY <1>5

(* The scan data behind a position lies in the rest of the stream.          *)
LEMMA ScanRange ==
  ASSUME SrcTypeOK
  PROVE  /\ ScanEnd(pos) \in (pos + 1)..(Len(stream) + 1)
         /\ ScanData(pos) \subseteq (pos + 1)..Len(stream)
         /\ IsFiniteSet(ScanData(pos))
         /\ Cardinality(ScanData(pos)) \in Nat
         /\ Cardinality(ScanData(pos)) <= Len(stream) - pos
         /\ pos = Len(stream) => ScanData(pos) = {}
<1>0. pos \in Nat /\ Len(stream) \in Nat /\ pos <= Len(stream)
  BY LenType DEF SrcTypeOK
<1>. DEFINE S == {i \in pos+1..Len(stream) : ~Coded(stream[i])} \cup {Len(stream) + 1}
<1>1. S \in SUBSET Nat /\ S # {} /\ S \subseteq (pos + 1)..(Len(stream) + 1)
  BY <1>0
<1>2. \E m \in S : \A n \in S : m <= n
  BY <1>1, Least
<1>3. Min(S) \in S
  BY <1>2 DEF Min
<1>4. ScanEnd(pos) \in (pos + 1)..(Len(stream) + 1)
  BY <1>1, <1>3 DEF ScanEnd
<1>5. ScanData(pos) \subseteq (pos + 1)..Len(stream)
  BY <1>0, <1>4 DEF ScanData
<1>6. /\ IsFiniteSet((pos + 1)..Len(stream))
      /\ Cardinality((pos + 1)..Len(stream)) <= Len(stream) - pos
      /\ Cardinality((pos + 1)..Len(stream)) \in Nat
  <2>1. pos + 1 \in Int /\ Len(stream) \in Int
    BY <1>0
  <2>2. /\ IsFiniteSet((pos + 1)..Len(stream))
        /\ Cardinality((pos + 1)..Len(stream)) =
             IF pos + 1 > Len(stream) THEN 0 ELSE Len(stream) - (pos + 1) + 1
    BY <2>1, FS_Interval
  <2>. QED BY <1>0, <2>2
<1>7. /\ IsFiniteSet(ScanData(pos)) /\ Cardinality(ScanData(pos)) \in Nat
      /\ Cardinality(ScanData(pos)) <= Cardinality((pos + 1)..Len(stream))
  BY <1>5, <1>6, FS_Subset, FS_CardinalityType
<1>. QED BY <1>0, <1>4, <1>5, <1>6, <1>7

LEMMA CompsType == HdrTypeOK => IsFiniteSet(DOMAIN compInfo) /\ NumComps \in Nat
<1>1. HdrTypeOK => IsFiniteSet(DOMAIN compInfo)
  BY FS_Subset, ConstantsAssumption DEF HdrTypeOK
<1>. QED BY <1>1, FS_CardinalityType DEF NumComps

LEMMA SizeTypes ==
  ASSUME HdrTypeOK
  PROVE  NumComps \in Nat /\ NumComps * CoefSize \in Nat /\ NumComps * BufSize \in Nat
<1>1. NumComps \in Nat /\ CoefSize \in Nat /\ BufSize \in Nat
  BY CompsType, SizesAssumption
<1>. QED BY <1>1

-----------------------------------------------------------------------------
(* The stages change the marker level's variables at four places.           *)
LEMMA TypesKept ==
  ASSUME TypeInv, CallPhase, HeaderDone,
         UNCHANGED <<stream, icVars, hdrVars, scanVars, raw, buffered, apiVars>>,
         torn' \in BOOLEAN, pos' \in Nat, pos' <= Len(stream), unread' \in BOOLEAN, unread' => pos' >= 1,
         line' \in Nat,
         gs' = gs \/ (gs' = "preload" /\ gs \notin HeaderStates /\ call = "none")
  PROVE  TypeInv' /\ CallPhase' /\ HeaderDone'
<1>. USE DEF icVars, hdrVars, scanVars, apiVars
<1>1. TypeInv'
  BY DEF TypeInv, TypeOK, SrcTypeOK, IcTypeOK, HdrTypeOK, ScanTypeOK, OutTypeOK, ApiTypeOK,
         PendingInStream, GlobalStates
<1>2. CallPhase' /\ HeaderDone'
  BY DEF CallPhase, HeaderDone, HeaderStates
<1>. QED BY <1>1, <1>2

(* The bound stays when nothing is added.                                   *)
LEMMA BoundKept ==
  ASSUME HdrTypeOK, ReservationsBounded, UNCHANGED limit, limit \in Nat, IsFiniteSet(data),
         buf' = buf \/ buf' = "nil",
         buf # "nil" => frame'.prog = frame.prog /\ (DOMAIN compInfo' = DOMAIN compInfo
                                                      \/ DOMAIN compInfo' = {}),
         buf # "nil" => data' = data \/ data' = {} \/ frame.prog
  PROVE  ReservationsBounded'
<1>. SUFFICES ASSUME buf' # "nil", limit' > 0
     PROVE  Buffers' + (IF frame'.prog THEN (NumComps * CoefSize)' ELSE Cardinality(data')) <= limit'
  BY DEF ReservationsBounded
<1>1. Buffers + (IF frame.prog THEN NumComps * CoefSize ELSE Cardinality(data)) <= limit
  BY DEF ReservationsBounded
<1>2. NumComps' = NumComps \/ NumComps' = 0
  BY FS_EmptySet DEF NumComps
<1>3. NumComps * CoefSize \in Nat /\ NumComps * BufSize \in Nat /\ CoefSize \in Nat /\ BufSize \in Nat
  BY SizeTypes, SizesAssumption
<1>4. (NumComps * CoefSize)' = NumComps * CoefSize \/ (NumComps * CoefSize)' = 0
  BY <1>2, <1>3
<1>5. (NumComps * BufSize)' = NumComps * BufSize \/ (NumComps * BufSize)' = 0
  BY <1>2, <1>3
<1>6. Buffers \in Nat /\ Buffers' \in Nat /\ Buffers' <= Buffers
  BY <1>3, <1>5 DEF Buffers
<1>7. Cardinality(data) \in Nat
  BY FS_CardinalityType
<1>8. ~frame.prog => Cardinality(data') \in Nat /\ Cardinality(data') <= Cardinality(data)
  <2>1. data' = data => Cardinality(data') = Cardinality(data)
    OBVIOUS
  <2>2. data' = {} => Cardinality(data') = 0
    BY FS_EmptySet
  <2>. QED BY <1>7, <2>1, <2>2
<1>9. buf # "nil" /\ frame'.prog = frame.prog /\ limit' = limit
  OBVIOUS
<1>10. CASE frame.prog
  BY <1>1, <1>3, <1>4, <1>6, <1>9, <1>10
<1>11. CASE ~frame.prog
  <2>1. Buffers + Cardinality(data) <= limit
    BY <1>1, <1>11
  <2>2. Buffers' + Cardinality(data') <= Buffers + Cardinality(data)
    BY ONLY <1>6, <1>7, <1>8, <1>11
  <2>3. Buffers' + Cardinality(data') <= limit
    BY ONLY <1>6, <1>7, <1>8, <1>11, <2>1, <2>2, limit \in Nat
  <2>. QED BY <1>9, <1>11, <2>3
<1>. QED BY <1>10, <1>11

-----------------------------------------------------------------------------
(* What a step of a call can do to the source, the frame and its array.     *)
HeaderReset == call = "finish" /\ call' = "none" /\ ret' = "finished" /\ gs' = "start"
               /\ compInfo' = NilInfo

LEMMA MarkerFrame ==
  ASSUME TypeInv, CallPhase, HeaderDone, CallStep \/ Failure
  PROVE  /\ call # "none" /\ call' \in {call, "none"} /\ stream' = stream
         /\ gs \notin HeaderStates =>
              frame'.prog = frame.prog \/ (call' = "none" /\ ret' \in {"source", "format"})
         /\ eoi => eoi' /\ frame' = frame
         /\ pos = Len(stream) /\ ~unread => pos' = pos /\ ~unread' /\ frame' = frame
         /\ gs \notin HeaderStates => HeaderReset \/ DOMAIN compInfo' = DOMAIN compInfo
         /\ gs \notin HeaderStates => HeaderReset \/ gs' \notin HeaderStates
         /\ call = "consume" /\ call' = "none" /\ ret' = "reachedEOI" => eoi'
<1>. USE DEF HeaderStates, HeaderReset, CallPhase, HeaderDone, srcVars, icVars, hdrVars, scanVars,
             outVars, apiVars, Return, Reading, Handling, Reset
<1>1. CASE Failure
  BY <1>1 DEF Failure, SourceError, SourceErrorInside, PartialSOF, PayloadRead, TypeInv, TypeOK
<1>2. CASE EndOfSource \/ FirstMarker \/ NextMarker \/ UnsupportedSOF
  BY <1>2 DEF EndOfSource, FirstMarker, NextMarker, UnsupportedSOF
<1>3. CASE AtEOI
  BY <1>3 DEF AtEOI, OutputPassSetup, TypeInv, TypeOK, IcTypeOK, SrcTypeOK
<1>4. CASE GetSOI \/ GetEOI \/ RejectSOS
  BY <1>4 DEF GetSOI, GetEOI, RejectSOS
<1>5. CASE GetSOF
  BY <1>5 DEF GetSOF
<1>6. CASE GetSOS
  BY <1>6, LatchType DEF GetSOS, FirstSOS, LaterSOS, ReturnSOS, TypeInv, TypeOK
<1>7. CASE GetSegment
  BY <1>7 DEF GetSegment
<1>. QED BY <1>1, <1>2, <1>3, <1>4, <1>5, <1>6, <1>7 DEF CallStep

Rest == Kinds /\ InCall /\ PastHeader /\ SourceClosed /\ Accounted /\ Within /\ ReservationsBounded

LEMMA MemMarkerStep == ASSUME MInv, MarkerStep PROVE Rest'
<1>. USE DEF MInv
<1>1. UNCHANGED <<op, at, res, limit, mem, data, got, buf>>
  BY DEF MarkerStep, opVars, memVars
<1>2. HdrTypeOK
  BY DEF TypeInv, TypeOK
<1>3. at \in {"none", "consuming", "starting", "finishing"} /\ call # "none"
  BY MarkerFrame DEF MarkerStep, LInv, StageCalls
<1>4. at # "none" \/ buf # "nil" => gs \notin HeaderStates
  BY <1>3 DEF PastHeader, CallPhase, InCall, HeaderStates
<1>5. at \in {"consuming", "starting"} \/ buf # "nil" =>
        \/ HeaderReset /\ DOMAIN compInfo' = {}
        \/ DOMAIN compInfo' = DOMAIN compInfo /\ gs' \notin HeaderStates
  BY <1>4, NilInfoType, MarkerFrame DEF MarkerStep, HeaderReset
<1>6. buf # "nil" \/ at = "starting" => frame' = frame
  BY MarkerFrame DEF MarkerStep, SourceClosed
<1>7. InCall'
  BY <1>1, MarkerFrame DEF MarkerStep, InCall
<1>8. PastHeader'
  BY <1>1, <1>3, <1>4, MarkerFrame DEF MarkerStep, PastHeader, InCall, HeaderReset
<1>9. SourceClosed'
  BY <1>1, <1>3, <1>6, MarkerFrame DEF MarkerStep, SourceClosed
<1>10. at \in {"consuming", "starting"} => NumComps' = NumComps
  BY <1>5 DEF NumComps, HeaderReset, InCall
<1>11. Accounted' /\ Within'
  BY <1>1, <1>3, <1>4, <1>6, <1>10, MarkerFrame DEF MarkerStep, Accounted, Within, InCall
<1>12. ReservationsBounded'
  BY <1>1, <1>2, <1>5, <1>6, BoundKept DEF Kinds
<1>. QED BY <1>1, <1>7, <1>8, <1>9, <1>11, <1>12 DEF Rest, Kinds

-----------------------------------------------------------------------------
(* The client's calls find no operation in progress.                        *)
LEMMA MemHeaderStep == ASSUME MInv, HeaderCall PROVE Rest'
<1>. USE DEF MInv, HeaderStates, srcVars, icVars, hdrVars, outVars, apiVars
<1>1. UNCHANGED <<op, at, res, limit, mem, data, got, buf, stream, frame>>
      /\ op = "none" /\ at = "none" /\ call = "none"
  BY DEF HeaderCall, ReadHeader, ConsumeInput, EnterConsume, BadState, Idle, opVars, memVars,
         LInv, StageCalls
<1>2. HdrTypeOK
  BY DEF TypeInv, TypeOK
<1>3. buf # "nil" => gs \notin HeaderStates
  BY <1>1 DEF PastHeader
<1>4. gs \notin HeaderStates => UNCHANGED <<eoi, pos, unread, compInfo, gs>>
  BY DEF HeaderCall, ReadHeader, ConsumeInput, EnterConsume, BadState
<1>5. call' \in {"none", "header", "requireImage", "consume"}
  BY DEF HeaderCall, ReadHeader, ConsumeInput, EnterConsume, BadState, Return
<1>6. InCall' /\ Accounted' /\ Within'
  BY <1>1, <1>5 DEF InCall, Accounted, Within
<1>7. PastHeader' /\ SourceClosed'
  BY <1>1, <1>3, <1>4 DEF PastHeader, SourceClosed
<1>8. ReservationsBounded'
  BY <1>1, <1>2, <1>3, <1>4, BoundKept DEF Kinds
<1>. QED BY <1>1, <1>6, <1>7, <1>8 DEF Rest, Kinds

LEMMA MemClientStep ==
  ASSUME MInv,
         SetRawDataOut \/ (\E n \in 1..Height : ReadScanlines(n)) \/ ReadRawData \/ ReadRawDataRows
  PROVE  Rest'
<1>. USE DEF MInv
<1>1. /\ UNCHANGED <<at, limit, mem, data, buf, stream, frame, compInfo, eoi, pos, unread, gs, call>>
      /\ op = "none"
  BY DEF SetRawDataOut, SetParameters, ReadScanlines, ReadRawData, ReadRawDataRows, Reader, decVars,
         opVars, memVars, hisVars, srcVars, icVars, hdrVars, apiVars
<1>2. at = "none" /\ HdrTypeOK
  BY <1>1 DEF LInv, StageCalls, TypeInv, TypeOK
<1>3. InCall' /\ PastHeader' /\ SourceClosed' /\ Accounted' /\ Within'
  BY <1>1, <1>2 DEF InCall, PastHeader, SourceClosed, Accounted, Within
<1>4. ReservationsBounded'
  BY <1>1, <1>2, BoundKept DEF Kinds
<1>. QED BY <1>1, <1>3, <1>4 DEF Rest, Kinds

LEMMA MemBeginStep == ASSUME MInv, Begin("start") \/ Begin("coefs") PROVE Rest'
<1>. USE DEF MInv
<1>1. /\ UNCHANGED <<limit, data, buf, stream, frame, compInfo, eoi, pos, unread, gs, call>>
      /\ call = "none" /\ op = "none" /\ ~unread /\ gs \notin HeaderStates
      /\ \/ at' = at
         \/ at' = "pass" /\ mem' = 0
  BY DEF Begin, Idle, HeaderStates, Api, srcVars, icVars, hdrVars, outVars, apiVars
<1>2. at = "none" /\ HdrTypeOK
  BY <1>1 DEF LInv, StageCalls, TypeInv, TypeOK
<1>3. InCall' /\ PastHeader' /\ SourceClosed' /\ Accounted'
  BY <1>1, <1>2 DEF InCall, PastHeader, SourceClosed, Accounted
<1>4. Within'
  BY <1>1, <1>2 DEF Within, Kinds
<1>5. ReservationsBounded'
  BY <1>1, <1>2, BoundKept DEF Kinds
<1>. QED BY <1>1, <1>3, <1>4, <1>5 DEF Rest, Kinds

(* The buffers are released, or the decoder stays as it is.                 *)
LEMMA MemFinishStep ==
  ASSUME MInv,
         FinishAgain \/ FinishBegin \/ FinishEnd \/ ReleaseDecodeBuffers \/ AbortDecoder
  PROVE  Rest'
<1>. USE DEF MInv, srcVars, icVars, hdrVars, scanVars, outVars, apiVars, opVars
<1>1. CASE FinishBegin
  <2>1. /\ UNCHANGED <<limit, mem, data, buf, stream, frame, eoi, pos, unread, compInfo>>
        /\ op = "none" /\ at' = "finishing" /\ call' \in {"none", "finish"}
        /\ gs' \in {gs, "stopping"}
    BY <1>1 DEF FinishBegin, FinishDecompress, ReadUntilEOI, Return, memVars
  <2>2. at = "none" /\ HdrTypeOK
    BY <2>1 DEF LInv, StageCalls, TypeInv, TypeOK
  <2>3. InCall' /\ PastHeader' /\ SourceClosed' /\ Accounted' /\ Within'
    BY <2>1, <2>2 DEF InCall, PastHeader, SourceClosed, Accounted, Within, HeaderStates
  <2>4. ReservationsBounded'
    BY <2>1, <2>2, BoundKept DEF Kinds
  <2>. QED BY <2>1, <2>3, <2>4 DEF Rest, Kinds
<1>2. CASE FinishEnd /\ ~ReleaseBuffers
  <2>1. /\ UNCHANGED <<limit, stream, frame, eoi, pos, unread, compInfo, gs, call>>
        /\ call = "none" /\ at = "finishing" /\ at' = "none"
        /\ UNCHANGED <<data, buf>> /\ ret # "finished"
    BY <1>2 DEF FinishEnd, Api, Stage, End
  <2>2. InCall' /\ PastHeader' /\ SourceClosed' /\ Accounted' /\ Within'
    BY <1>2, <2>1 DEF InCall, PastHeader, SourceClosed, Accounted, Within
  <2>3. HdrTypeOK
    BY DEF TypeInv, TypeOK
  <2>4. ReservationsBounded'
    BY <1>2, <2>1, <2>3, BoundKept DEF Kinds
  <2>. QED BY <1>2, <2>1, <2>2, <2>4 DEF Rest, Kinds
<1>3. CASE (FinishEnd \/ ReleaseDecodeBuffers \/ AbortDecoder) /\ ReleaseBuffers
  <2>1. limit' = limit /\ buf' = "nil" /\ data' = {} /\ at' = "none" /\ call' = "none"
    BY <1>3 DEF FinishEnd, ReleaseDecodeBuffers, AbortDecoder, Abort, ReleaseBuffers, Reader, Idle,
                Api, Stage, End, LInv, StageCalls
  <2>. QED BY <2>1, FS_EmptySet DEF Rest, Kinds, InCall, PastHeader, SourceClosed, Accounted, Within,
              ReservationsBounded
<1>4. CASE FinishAgain
  <2>1. UNCHANGED <<limit, mem, data, buf, stream, frame, eoi, pos, unread, compInfo, at, gs, call, ret>>
    BY <1>4 DEF FinishAgain, Api, memVars
  <2>2. ReservationsBounded'
    BY <2>1, BoundKept DEF Kinds, TypeInv, TypeOK
  <2>. QED BY <2>1, <2>2 DEF Rest, Kinds, InCall, PastHeader, SourceClosed, Accounted, Within,
              NumComps
<1>. QED BY <1>1, <1>2, <1>3, <1>4 DEF FinishEnd, ReleaseDecodeBuffers, AbortDecoder

-----------------------------------------------------------------------------
(* The stages of an operation.                                              *)
LEMMA MemPassStep ==
  ASSUME MInv, InputPass \/ AllocCoefficients \/ PrepareEntropyDecoder
  PROVE  Rest'
<1>. USE DEF MInv, srcVars, icVars, hdrVars, scanVars, outVars, apiVars, opVars, memVars, hisVars
<1>1. /\ UNCHANGED <<limit, data, buf, stream, frame, eoi, pos, unread>>
      /\ op # "none" /\ call = "none" /\ call' = "none" /\ gs' \in {gs, "preload"}
      /\ DOMAIN compInfo' = DOMAIN compInfo
  BY LatchType DEF InputPass, StartInputPass, AllocCoefficients, PrepareEntropyDecoder, Stage, Api,
                   Return, TypeInv, TypeOK
<1>2. HdrTypeOK /\ NumComps' = NumComps
  BY <1>1 DEF TypeInv, TypeOK, NumComps
<1>3. \/ at' = "none"
      \/ at = "pass" /\ mem' = mem /\ at' = IF frame.prog THEN "alloc" ELSE "tables"
      \/ at = "alloc" /\ frame.prog /\ at' = "tables" /\ mem' = mem + NumComps * CoefSize
      \/ at = "tables" /\ mem' = mem /\ at' = "data"
  BY DEF InputPass, AllocCoefficients, PrepareEntropyDecoder, Stage, Goto, End, Reserve
<1>4. at \in {"pass", "alloc", "tables"}
  BY DEF InputPass, AllocCoefficients, PrepareEntropyDecoder, Stage
<1>5. InCall' /\ SourceClosed'
  BY <1>1, <1>3, <1>4 DEF InCall, SourceClosed
<1>6. PastHeader'
  BY <1>1, <1>3, <1>4 DEF PastHeader, HeaderStates
<1>7. Accounted'
  <2>1. NumComps * CoefSize \in Nat
    BY <1>2, SizeTypes
  <2>2. CASE at' # "tables" \/ ~frame.prog
    BY <1>1, <1>2, <1>3, <2>2 DEF Accounted, Within
  <2>3. CASE at' = "tables" /\ frame.prog
    <3>1. at = "alloc" /\ mem = 0 /\ mem' = mem + NumComps * CoefSize
      BY <1>3, <1>4, <2>3 DEF Accounted
    <3>2. mem' = NumComps * CoefSize
      BY <2>1, <3>1
    <3>. QED BY <1>1, <1>2, <2>3, <3>2 DEF Accounted
  <2>. QED BY <2>2, <2>3
<1>8. Within'
  <2>1. \/ at' = "none"
        \/ mem' = mem /\ limit' = limit
        \/ (limit = 0 \/ mem + NumComps * CoefSize <= limit) /\ limit' = limit
           /\ mem' = mem + NumComps * CoefSize
    BY <1>1, <1>3 DEF InputPass, AllocCoefficients, PrepareEntropyDecoder, Fits, Goto, End, Reserve
  <2>. QED BY <1>1, <1>4, <2>1 DEF Within, Kinds
<1>9. ReservationsBounded'
  BY <1>1, <1>2, BoundKept DEF Kinds
<1>. QED BY <1>1, <1>5, <1>6, <1>7, <1>8, <1>9 DEF Rest, Kinds

LEMMA MemReadStep == ASSUME MInv, ReadAllScanData PROVE Rest'
<1>. USE DEF MInv, icVars, hdrVars, outVars, apiVars, hisVars
<1>1. /\ UNCHANGED <<limit, buf, stream, frame, eoi, unread, compInfo, gs, call>>
      /\ op # "none" /\ at = "data" /\ call = "none" /\ ~frame.prog /\ at' \in {"none", "alloc", "api"}
  BY DEF ReadAllScanData, Stage, Goto, End
<1>2. HdrTypeOK /\ SrcTypeOK
  BY DEF TypeInv, TypeOK
<1>3. pos \in Nat /\ Len(stream) \in Nat /\ pos <= Len(stream) /\ limit \in Nat
  BY <1>2, LenType DEF SrcTypeOK, Kinds
<1>4. mem = 0 /\ ~unread
  BY <1>1 DEF Accounted
<1>5. buf # "nil" => pos = Len(stream)
  BY <1>1 DEF SourceClosed
<1>6. \/ data' = data /\ at' = "none"
      \/ data' = ScanData(pos) /\ pos' = Len(stream)
         /\ (at' = "api" => mem' = mem + Cardinality(ScanData(pos)))
  BY DEF ReadAllScanData, Goto, End
<1>7. buf # "nil" => pos' = Len(stream) /\ (data' = data \/ data' = {})
  <2>1. pos = Len(stream) => /\ (pos + limit + 1)..Len(stream) = {}
                             /\ pos..Len(stream) = {Len(stream)}
                             /\ ScanData(pos) = {}
    BY <1>2, <1>3, ScanRange
  <2>2. \/ pos' \in (pos + limit + 1)..Len(stream)
        \/ pos' \in pos..Len(stream) /\ data' = data
        \/ pos' = Len(stream) /\ data' = ScanData(pos)
    BY DEF ReadAllScanData
  <2>. QED BY <1>5, <2>1, <2>2
<1>8. at' = "api" => mem' = Cardinality(data')
  BY <1>2, <1>4, <1>6, ScanRange
<1>9. Kinds'
  BY <1>1, <1>2, <1>6, ScanRange DEF Kinds
<1>10. InCall' /\ PastHeader' /\ Accounted'
  BY <1>1, <1>8 DEF InCall, PastHeader, Accounted
<1>11. SourceClosed'
  BY <1>1, <1>4, <1>6, <1>7 DEF SourceClosed
<1>12. Within'
  <2>1. \/ at' = "none"
        \/ (limit = 0 \/ mem + Cardinality(ScanData(pos)) <= limit)
           /\ mem' = mem + Cardinality(ScanData(pos))
    BY DEF ReadAllScanData, Fits, End
  <2>. QED BY <1>1, <1>3, <2>1 DEF Within
<1>13. ReservationsBounded'
  BY <1>1, <1>2, <1>7, BoundKept DEF Kinds
<1>. QED BY <1>9, <1>10, <1>11, <1>12, <1>13 DEF Rest

LEMMA MemDecodeStep == ASSUME MInv, DecodeProgressiveScan \/ DecodeCoefficients PROVE Rest'
<1>. USE DEF MInv, srcVars, icVars, hdrVars, outVars, apiVars, hisVars
<1>1. /\ UNCHANGED <<limit, buf, stream, frame, eoi, compInfo, gs, call>>
      /\ op # "none" /\ call = "none" /\ at \in {"data", "alloc"}
  BY DEF DecodeProgressiveScan, DecodeCoefficients, Stage
<1>2. HdrTypeOK /\ SrcTypeOK /\ NumComps' = NumComps
  BY <1>1 DEF TypeInv, TypeOK, NumComps
<1>3. \/ frame.prog /\ at = "data" /\ mem' = mem /\ at' \in {"none", "next"}
         /\ (data' = data \/ data' = ScanData(pos))
      \/ ~frame.prog /\ at' = "none" /\ UNCHANGED <<data, pos, unread>>
  BY DEF DecodeProgressiveScan, DecodeCoefficients, Stage, Goto, End
<1>4. Kinds'
  BY <1>1, <1>2, <1>3, ScanRange DEF Kinds
<1>5. InCall' /\ PastHeader' /\ SourceClosed'
  BY <1>1, <1>3 DEF InCall, PastHeader, SourceClosed
<1>6. Accounted' /\ Within'
  BY <1>1, <1>2, <1>3 DEF Accounted, Within
<1>7. ReservationsBounded'
  BY <1>1, <1>2, <1>3, BoundKept DEF Kinds
<1>. QED BY <1>4, <1>5, <1>6, <1>7 DEF Rest

LEMMA MemScanStep == ASSUME MInv, NextScan \/ ScanReached \/ StartOutput \/ OutputStarted PROVE Rest'
<1>. USE DEF MInv, HeaderStates, srcVars, icVars, hdrVars, scanVars, outVars, apiVars, memVars, hisVars
<1>1. op # "none" /\ call = "none" /\ at \in {"next", "consuming", "api", "starting"}
  BY DEF NextScan, ScanReached, StartOutput, OutputStarted, Stage
<1>2. gs \notin HeaderStates
  BY <1>1 DEF PastHeader
<1>3. /\ UNCHANGED <<limit, mem, data, buf, stream, frame, eoi, pos, unread, compInfo>>
      /\ gs' \notin HeaderStates
  BY <1>2 DEF NextScan, ConsumeInput, EnterConsume, ScanReached, StartOutput, StartDecompress,
              OutputPassSetup, BadState, OutputStarted, Api
<1>4. HdrTypeOK /\ NumComps' = NumComps
  BY <1>3 DEF TypeInv, TypeOK, NumComps
<1>5. \/ /\ at = "next" /\ at' = "consuming"
         /\ \/ call' = "consume"
            \/ call' = "none" /\ ret' # "reachedEOI"
      \/ /\ at = "consuming" /\ call' = "none"
         /\ \/ ret = "reachedSOS" /\ at' = "tables"
            \/ ret = "reachedEOI" /\ at' = "api"
            \/ at' = "none"
      \/ at = "api" /\ at' = "starting" /\ call' \in {"none", "start"}
      \/ at = "starting" /\ call' = "none" /\ at' \in {"setup", "none"}
  BY <1>1, <1>2 DEF NextScan, ConsumeInput, EnterConsume, ScanReached, AllScansRead, StartOutput,
              StartDecompress, BadState, OutputStarted, Stage, Goto, End, Return, Api
<1>6. InCall' /\ PastHeader'
  BY <1>3, <1>5 DEF InCall, PastHeader
<1>7. SourceClosed'
  BY <1>1, <1>3, <1>5 DEF SourceClosed, Accounted
<1>8. Accounted' /\ Within'
  BY <1>1, <1>3, <1>4, <1>5 DEF Accounted, Within
<1>9. ReservationsBounded'
  BY <1>3, <1>4, BoundKept DEF Kinds
<1>. QED BY <1>3, <1>6, <1>7, <1>8, <1>9 DEF Rest, Kinds

(* The reservation that lets the output begin counts all that is held.      *)
LEMMA MemSetupStep == ASSUME MInv, SetupColorPipeline PROVE Rest'
<1>. USE DEF MInv, srcVars, icVars, hdrVars, scanVars, outVars, apiVars
<1>1. /\ UNCHANGED <<limit, data, stream, frame, eoi, pos, unread, compInfo, gs, call>>
      /\ op # "none" /\ at = "setup" /\ call = "none" /\ at' = "none"
  BY DEF SetupColorPipeline, Api, Stage, End
<1>2. HdrTypeOK /\ NumComps' = NumComps /\ IsFiniteSet(data) /\ limit \in Nat
  BY <1>1 DEF TypeInv, TypeOK, NumComps, Kinds
<1>3. InCall' /\ PastHeader' /\ SourceClosed' /\ Accounted' /\ Within'
  BY <1>1 DEF InCall, PastHeader, SourceClosed, Accounted, Within
<1>4. mem = IF frame.prog THEN NumComps * CoefSize ELSE Cardinality(data)
  BY <1>1 DEF Accounted
<1>5. NumComps * CoefSize \in Nat /\ NumComps * BufSize \in Nat /\ Cardinality(data) \in Nat /\ mem \in Nat
  BY <1>2, <1>4, SizeTypes, FS_CardinalityType
<1>6. \/ buf' = buf
      \/ buf' = "partial"
      \/ buf' = "full" /\ Fits(NumComps * BufSize)
  BY DEF SetupColorPipeline
<1>7. ASSUME buf' = buf PROVE ReservationsBounded'
  BY <1>1, <1>2, <1>7, BoundKept
<1>8. ASSUME limit > 0, buf' # buf PROVE Buffers' + mem <= limit
  <2>1. CASE buf' = "full" /\ Fits(NumComps * BufSize)
    <3>1. Buffers' = NumComps * BufSize
      BY <1>2, <2>1 DEF Buffers
    <3>2. mem + NumComps * BufSize <= limit
      BY <1>2, <1>8, <2>1 DEF Fits
    <3>. QED BY <1>2, <1>5, <3>1, <3>2
  <2>2. CASE buf' = "partial"
    <3>1. Buffers' = 0
      BY <2>2 DEF Buffers
    <3>2. mem <= limit
      BY <1>1, <1>8 DEF Within
    <3>. QED BY <1>2, <1>5, <3>1, <3>2
  <2>. QED BY <1>6, <1>8, <2>1, <2>2
<1>9. ReservationsBounded'
  <2>1. /\ (NumComps * CoefSize)' = NumComps * CoefSize /\ frame'.prog = frame.prog
        /\ Cardinality(data') = Cardinality(data) /\ limit' = limit
    BY <1>1, <1>2
  <2>. QED BY <1>4, <1>6, <1>7, <1>8, <2>1 DEF ReservationsBounded
<1>. QED BY <1>1, <1>3, <1>9 DEF Rest, Kinds, Within

-----------------------------------------------------------------------------
(* The marker level keeps its own invariants under its own actions and      *)
(* under the stages that write its variables.                               *)
LEMMA TypesStep ==
  ASSUME MInv, [DecNext]_decoderVars
  PROVE  TypeInv' /\ CallPhase' /\ HeaderDone' /\ LInv'
<1>. USE DEF MInv, Api
<1>1. LInv' /\ line' \in Nat
  BY LInvStep DEF LInv, CountersOK
<1>2. ASSUME [Next]_vars PROVE TypeInv' /\ CallPhase' /\ HeaderDone'
  BY <1>2, TypeStep, PhaseStep
<1>3. CASE MarkerStep \/ HeaderCall \/ SetRawDataOut \/ InputPass \/ NextScan \/ StartOutput
           \/ FinishBegin \/ AbortDecoder
  BY <1>1, <1>2, <1>3 DEF MarkerStep, HeaderCall, SetRawDataOut, InputPass, NextScan, StartOutput,
                          FinishBegin, AbortDecoder, Next, Client
<1>4. CASE Begin("start") \/ Begin("coefs") \/ PrepareEntropyDecoder \/ OutputStarted
           \/ SetupColorPipeline \/ FinishAgain \/ FinishEnd \/ ReleaseDecodeBuffers
           \/ UNCHANGED decoderVars
  <2>1. UNCHANGED vars
    BY <1>4 DEF Begin, PrepareEntropyDecoder, OutputStarted, SetupColorPipeline, FinishAgain,
                FinishEnd, ReleaseDecodeBuffers, decoderVars, vars
  <2>. QED BY <1>1, <1>2, <2>1
<1>5. SrcTypeOK /\ pos \in Nat /\ Len(stream) \in Nat /\ pos <= Len(stream) /\ unread \in BOOLEAN /\ torn \in BOOLEAN
      /\ limit \in Nat
  BY LenType DEF TypeInv, TypeOK, SrcTypeOK, Kinds
<1>6. CASE AllocCoefficients \/ DecodeCoefficients \/ ScanReached
           \/ (\E n \in 1..Height : ReadScanlines(n)) \/ ReadRawData \/ ReadRawDataRows
  <2>1. /\ UNCHANGED <<stream, pos, unread, torn, icVars, hdrVars, scanVars, raw, buffered, apiVars>>
        /\ gs' = gs \/ (gs' = "preload" /\ at = "alloc" /\ call = "none")
    BY <1>6 DEF AllocCoefficients, DecodeCoefficients, ScanReached, ReadScanlines, ReadRawData,
                ReadRawDataRows, Stage, srcVars, apiVars
  <2>2. gs' = gs \/ (gs' = "preload" /\ gs \notin HeaderStates /\ call = "none")
    BY <2>1 DEF PastHeader
  <2>. QED BY <1>1, <1>5, <2>1, <2>2, TypesKept DEF TypeInv, PendingInStream
<1>7. CASE ReadAllScanData
  <2>1. pos' \in Nat /\ pos' <= Len(stream) /\ (unread' => pos' >= 1) /\ unread' \in BOOLEAN
    <3>1. unread' = unread /\ pos <= pos'
          /\ (pos' \in (pos + limit + 1)..Len(stream) \/ pos' \in pos..Len(stream) \/ pos' = Len(stream))
      <4>1. unread' = unread /\ (pos' \in (pos + limit + 1)..Len(stream)
                                  \/ pos' \in pos..Len(stream) \/ pos' = Len(stream))
        BY <1>7 DEF ReadAllScanData
      <4>. QED BY <1>5, <4>1
    <3>. QED BY <1>5, <3>1 DEF TypeInv, PendingInStream
  <2>2. UNCHANGED <<stream, icVars, hdrVars, scanVars, raw, buffered, apiVars, gs>>
        /\ torn' \in BOOLEAN
    BY <1>5, <1>7 DEF ReadAllScanData, outVars
  <2>. QED BY <1>1, <2>1, <2>2, TypesKept
<1>8. CASE DecodeProgressiveScan
  <2>1. /\ ScanEnd(pos) \in (pos + 1)..(Len(stream) + 1)
        /\ Cardinality(ScanData(pos)) \in Nat /\ Cardinality(ScanData(pos)) <= Len(stream) - pos
    BY <1>5, ScanRange
  <2>2. pos' \in Nat /\ pos' <= Len(stream) /\ (unread' => pos' >= 1) /\ unread' \in BOOLEAN
    <3>1. \/ unread' = unread /\ Cardinality(ScanData(pos)) > limit /\ pos' = pos + limit + 1
          \/ unread' = unread /\ pos' \in pos..(ScanEnd(pos) - 1)
          \/ /\ unread' = (ScanEnd(pos) <= Len(stream))
             /\ pos' = IF ScanEnd(pos) <= Len(stream) THEN ScanEnd(pos) ELSE Len(stream)
      BY <1>8 DEF DecodeProgressiveScan
    <3>2. unread => pos >= 1
      BY DEF TypeInv, PendingInStream
    <3>3. CASE unread' = unread
      <4>1. pos' \in Nat /\ pos' <= Len(stream) /\ pos' >= pos
        BY <1>5, <2>1, <3>1
      <4>. QED BY <1>5, <3>2, <3>3, <4>1
    <3>4. ASSUME unread' = (ScanEnd(pos) <= Len(stream)), ScanEnd(pos) <= Len(stream),
                 pos' = ScanEnd(pos)
          PROVE  unread' = TRUE /\ pos' \in Nat /\ pos' <= Len(stream) /\ pos' >= 1
      <4>1. unread' = TRUE
        BY ONLY <3>4, Zenon
      <4>. QED BY <1>5, <2>1, <3>4, <4>1
    <3>5. ASSUME unread' = (ScanEnd(pos) <= Len(stream)), ~(ScanEnd(pos) <= Len(stream)),
                 pos' = Len(stream)
          PROVE  unread' = FALSE /\ pos' \in Nat /\ pos' <= Len(stream)
      <4>1. (ScanEnd(pos) <= Len(stream)) = FALSE
        BY <1>5, <2>1, <3>5
      <4>2. unread' = FALSE
        BY ONLY <3>5, <4>1, Zenon
      <4>. QED BY <1>5, <3>5, <4>2
    <3>6. \/ unread' = unread
          \/ /\ unread' = (ScanEnd(pos) <= Len(stream)) /\ ScanEnd(pos) <= Len(stream)
             /\ pos' = ScanEnd(pos)
          \/ /\ unread' = (ScanEnd(pos) <= Len(stream)) /\ ~(ScanEnd(pos) <= Len(stream))
             /\ pos' = Len(stream)
      BY ONLY <3>1, Zenon
    <3>. QED BY <3>3, <3>4, <3>5, <3>6
  <2>3. UNCHANGED <<stream, icVars, hdrVars, scanVars, raw, buffered, apiVars, gs>>
        /\ torn' \in BOOLEAN
    BY <1>5, <1>8 DEF DecodeProgressiveScan, outVars
  <2>. QED BY <1>1, <2>2, <2>3, TypesKept
<1>. QED BY <1>3, <1>4, <1>6, <1>7, <1>8 DEF DecNext, DecoderStep

LEMMA MInvInit == DecInit => MInv
BY TypeInit, LInvInit, FS_EmptySet, SizesAssumption
   DEF DecInit, Init, MInv, CallPhase, HeaderDone, HeaderStates, Kinds, InCall, PastHeader,
       SourceClosed, Accounted, Within, ReservationsBounded

LEMMA MInvStep == MInv /\ [DecNext]_decoderVars => MInv'
<1>. SUFFICES ASSUME MInv, [DecNext]_decoderVars PROVE MInv'
  OBVIOUS
<1>1. TypeInv' /\ CallPhase' /\ HeaderDone' /\ LInv'
  BY TypesStep
<1>2. CASE DecoderStep
  <2>1. Rest'
    BY <1>2, MemMarkerStep, MemPassStep, MemReadStep, MemDecodeStep, MemScanStep, MemSetupStep,
       MemFinishStep DEF DecoderStep
  <2>. QED BY <1>1, <2>1 DEF MInv, Rest
<1>3. CASE UNCHANGED decoderVars
  BY <1>1, <1>3 DEF MInv, Kinds, InCall, PastHeader, SourceClosed, Accounted, Within, ReservationsBounded,
     Buffers, NumComps, decoderVars, vars, decVars, srcVars, icVars, hdrVars, outVars, apiVars,
     opVars, memVars, hisVars
<1>4. CASE DecNext /\ ~DecoderStep
  <2>1. Rest'
    BY <1>4, MemHeaderStep, MemClientStep, MemBeginStep, MemFinishStep DEF DecNext
  <2>. QED BY <1>1, <2>1 DEF MInv, Rest
<1>. QED BY <1>2, <1>3, <1>4

(* What a started decoder holds fits the memory limit, for every datastream,*)
(* limit and size of the buffers (reserveMemory).                           *)
THEOREM ReservationsBoundedHolds == DecSpec => []ReservationsBounded
<1>1. DecInit => MInv
  BY MInvInit
<1>2. MInv /\ [DecNext]_decoderVars => MInv'
  BY MInvStep
<1>3. MInv => ReservationsBounded
  BY DEF MInv
<1>. QED BY <1>1, <1>2, <1>3, PTL DEF DecSpec

-----------------------------------------------------------------------------
(* The entropy data: where it was collected, and what is missing of it.     *)

(* An operation begins at the scan header that ReadHeader stopped at, and   *)
(* no operation is begun before the header has been read.                   *)
Untried ==
  /\ tried \in Nat
  /\ gs \in HeaderStates => tried = 0
  /\ tried = 0 => gs \in HeaderStates \cup {"ready"}
  /\ tried = 0 => at \in {"none", "finishing"}

(* What the state machine cannot do while an image is decoded.              *)
Phases ==
  /\ gs \notin HeaderStates => sawSOI
  /\ call = "consume" => gs # "ready"
  /\ at \in {"next", "consuming"} \/ (at \in {"tables", "data"} /\ frame.prog) => gs = "preload"
  /\ at = "setup" \/ (at = "starting" /\ call = "none" /\ ret = "ok") => gs # "ready"
  /\ gs = "ready" => ~live
  /\ tried = 1 /\ live => at \in {"none", "finishing"}
  /\ ~buffered

(* The source stands behind the scan header last accepted.                  *)
AtScan == pos = hdr /\ ~unread /\ hdr \in 1..Len(stream) /\ IsScan(hdr)
HasStart == hdr \in 1..Len(stream) /\ \E s \in 1..hdr : stream[s].m = "SOI"

(* The entropy data of the scans from the image's SOI to position n.        *)
Collected(n) == UNION {ScanData(j) : j \in {k \in HeaderStart..n : IsScan(k)}}

(* The segments that have been handled, none of which is a marker that      *)
(* would begin or end an image or a scan.                                   *)
Reached == IF unread THEN pos - 1 ELSE pos
Quiet(i, j) == \A k \in i..j : stream[k].m \notin {"SOI", "EOI"} /\ ~IsScan(k)

(* In the header: no scan since the last SOI, unless its frame is refused.  *)
Refused == sawSOF /\ frame.val = 1 /\ inheaders = 1
InHeader ==
  gs = "inheader" =>
    /\ inheaders # 0
    /\ inheaders = 2 => multi
    /\ unread /\ ~sawSOI => Cur.m = "SOI"
    /\ sawSOI /\ ~torn /\ ~Refused =>
         \E s \in 1..Reached :
           /\ stream[s].m = "SOI"
           /\ \A k \in s+1..Reached : stream[k].m # "SOI" /\ ~IsScan(k)

(* The image before its first, and before a further scan is decoded.        *)
FirstScan == AtScan /\ HasStart /\ ~eoi /\ (frame.prog => multi)
Ready ==
  gs = "ready" /\ tried = 0 => FirstScan /\ Collected(hdr - 1) = {}

BeforeScan ==
  \/ at \in {"pass", "tables", "data"}
  \/ at = "alloc" /\ frame.prog
  \/ at = "consuming" /\ call = "none" /\ ret = "reachedSOS"
AfterScan == at = "next" \/ (at = "consuming" /\ call = "consume")
EndRead == at = "consuming" /\ call = "none" /\ ret = "reachedEOI"
Delivering == at \in {"api", "starting", "setup"}

Followed ==
  tried = 1 =>
    /\ BeforeScan => FirstScan /\ DOMAIN got = Collected(hdr - 1)
    /\ AfterScan =>
         /\ HasStart /\ IsScan(hdr) /\ multi /\ DOMAIN got = Collected(hdr)
         /\ IF eoi THEN ImageData = Collected(hdr)
            ELSE Reached >= hdr /\ Quiet(hdr + 1, Reached)
    /\ EndRead \/ (frame.prog /\ Delivering) => multi /\ DOMAIN got = ImageData
    /\ frame.prog /\ live => multi /\ all /\ image = ImageData

Sequential ==
  tried = 1 /\ ~frame.prog =>
    /\ at = "alloc" => IsScan(hdr) /\ hdr \in 1..Len(stream)
    /\ at = "alloc" \/ Delivering \/ live => data = ScanData(hdr)
    /\ Delivering => ~eoi
    /\ at = "setup" \/ (at = "starting" /\ call = "none" /\ ret = "ok") \/ live => ~multi
    /\ live /\ (all \/ (gs \in Output /\ line > 0)) => image = data
    /\ live => all \/ row < total

DInv == MInv /\ Untried /\ Phases /\ InHeader /\ Ready /\ Followed /\ Sequential /\ DataMatchesScan
-----------------------------------------------------------------------------

(* What the definitions about the datastream say at a position of it.       *)
LEMMA ScanDataIs ==
  ASSUME SrcTypeOK, NEW p \in 0..Len(stream)
  PROVE  /\ ScanEnd(p) \in (p + 1)..(Len(stream) + 1)
         /\ ScanData(p) = (p + 1)..(ScanEnd(p) - 1)
         /\ \A k \in (p + 1)..(ScanEnd(p) - 1) : Coded(stream[k])
         /\ ScanEnd(p) <= Len(stream) => ~Coded(stream[ScanEnd(p)])
<1>0. Len(stream) \in Nat
  BY LenType
<1>. DEFINE S == {i \in p+1..Len(stream) : ~Coded(stream[i])} \cup {Len(stream) + 1}
<1>1. S \in SUBSET Nat /\ S # {} /\ S \subseteq (p + 1)..(Len(stream) + 1)
  BY <1>0
<1>2. \E m \in S : \A n \in S : m <= n
  BY <1>1, Least
<1>3. Min(S) \in S /\ \A n \in S : Min(S) <= n
  BY <1>2 DEF Min
<1>4. ScanEnd(p) = Min(S)
  BY DEF ScanEnd
<1>5. ScanEnd(p) \in (p + 1)..(Len(stream) + 1)
  BY <1>1, <1>3, <1>4
<1>6. ASSUME NEW k \in (p + 1)..(ScanEnd(p) - 1) PROVE Coded(stream[k])
  <2>1. k \in p+1..Len(stream) /\ ~(ScanEnd(p) <= k)
    BY <1>0, <1>5
  <2>2. k \notin S
    BY <1>3, <1>4, <2>1
  <2>. QED BY <2>1, <2>2
<1>7. ScanEnd(p) <= Len(stream) => ~Coded(stream[ScanEnd(p)])
  <2>1. ScanEnd(p) \in S /\ ScanEnd(p) \in Nat
    BY <1>1, <1>3, <1>4
  <2>. QED BY <1>0, <2>1
<1>8. ScanData(p) = (p + 1)..(ScanEnd(p) - 1)
  BY <1>6 DEF ScanData
<1>. QED BY <1>5, <1>6, <1>7, <1>8

(* The last scan header before a piece of a scan's data is that scan's.     *)
LEMMA LastHeader ==
  ASSUME SrcTypeOK, NEW p \in 1..Len(stream), stream[p].m = "SOS", NEW i \in ScanData(p)
  PROVE  Max({j \in 1..i : stream[j].m = "SOS"}) = p
<1>0. Len(stream) \in Nat
  BY LenType
<1>1. p \in 0..Len(stream)
  BY <1>0
<1>2. /\ i \in (p + 1)..(ScanEnd(p) - 1) /\ ScanEnd(p) \in Int
      /\ \A k \in (p + 1)..(ScanEnd(p) - 1) : Coded(stream[k])
  BY <1>0, <1>1, ScanDataIs
<1>. DEFINE S == {j \in 1..i : stream[j].m = "SOS"}
<1>3. S \in SUBSET Int /\ p \in S
  BY <1>0, <1>2
<1>4. ASSUME NEW x \in S PROVE x <= p
  <2>1. SUFFICES ASSUME x > p PROVE FALSE
    BY <1>3
  <2>2. x \in (p + 1)..(ScanEnd(p) - 1)
    BY <1>0, <1>2, <2>1
  <2>3. stream[x].m = "DATA" /\ stream[x].m = "SOS"
    BY <1>2, <2>2 DEF Coded
  <2>. QED BY <2>3
<1>5. \A x \in S : x <= p
  BY <1>4
<1>. HIDE DEF S
<1>6. Max(S) = p
  BY ONLY <1>3, <1>5, MaxIs
<1>. QED BY <1>6 DEF S

(* A set of positions has a last one.                                       *)
LEMMA Greatest ==
  ASSUME NEW n \in Nat, NEW S \in SUBSET (1..n), S # {}
  PROVE  Max(S) \in S /\ \A x \in S : x <= Max(S)
<1>. DEFINE T == {n - x : x \in S}
<1>1. T \in SUBSET Nat /\ T # {}
  <2>1. ASSUME NEW x \in S PROVE n - x \in Nat
    <3>1. x \in 1..n
      OBVIOUS
    <3>. QED BY <3>1
  <2>. QED BY <2>1
<1>2. PICK m \in T : \A y \in T : m <= y
  BY <1>1, Least
<1>3. PICK p \in S : m = n - p
  OBVIOUS
<1>4. ASSUME NEW x \in S PROVE x <= p
  <2>1. n - x \in T
    OBVIOUS
  <2>2. n - p <= n - x /\ x \in Int /\ p \in Int
    BY <1>2, <1>3, <2>1
  <2>. QED BY <2>2
<1>5. S \in SUBSET Int
  OBVIOUS
<1>6. Max(S) = p
  BY <1>4, <1>5, MaxIs
<1>. QED BY <1>4, <1>6

(* The image of the last scan header begins at a SOI, the last one before.  *)
LEMMA StartIs ==
  ASSUME SrcTypeOK, HasStart
  PROVE  /\ HeaderStart \in 1..hdr /\ stream[HeaderStart].m = "SOI"
         /\ \A k \in 1..hdr : stream[k].m = "SOI" => k <= HeaderStart
<1>1. hdr \in Nat
  BY LenType DEF HasStart
<1>. DEFINE S == {i \in 1..hdr : stream[i].m = "SOI"}
<1>2. S \in SUBSET (1..hdr) /\ S # {}
  BY DEF HasStart
<1>3. Max(S) \in S /\ \A x \in S : x <= Max(S)
  BY <1>1, <1>2, Greatest
<1>4. HeaderStart = Max(S)
  BY DEF HeaderStart
<1>. QED BY <1>3, <1>4

(* Where the stream and the last header are the same, so is what is         *)
(* collected.                                                               *)
LEMMA SameData ==
  ASSUME UNCHANGED <<stream, hdr>>
  PROVE  /\ HasStart' <=> HasStart
         /\ IsScan(hdr)' <=> IsScan(hdr)
         /\ ScanData(hdr)' = ScanData(hdr)
         /\ Collected(hdr)' = Collected(hdr) /\ Collected(hdr - 1)' = Collected(hdr - 1)
         /\ multi' = multi => ImageData' = ImageData
<1>1. ScanData(hdr)' = ScanData(hdr) /\ HeaderStart' = HeaderStart /\ ImageEnd' = ImageEnd
      /\ \A j : ScanData(j)' = ScanData(j) /\ (IsScan(j)' <=> IsScan(j))
  BY DEF ScanData, ScanEnd, HeaderStart, ImageEnd, IsScan
<1>2. HasStart' <=> HasStart
  BY DEF HasStart
<1>3. Collected(hdr)' = Collected(hdr) /\ Collected(hdr - 1)' = Collected(hdr - 1)
  BY <1>1 DEF Collected
<1>4. multi' = multi => ImageData' = ImageData
  BY <1>1 DEF ImageData
<1>. QED BY <1>1, <1>2, <1>3, <1>4 DEF IsScan

(* The last SOI before a later position, when none lies in between.         *)
LEMMA StartStays ==
  ASSUME SrcTypeOK, NEW s \in 1..Len(stream), NEW q \in 1..Len(stream), s <= q,
         stream[s].m = "SOI", \A k \in s+1..q : stream[k].m # "SOI",
         UNCHANGED stream, hdr' = q
  PROVE  HasStart' /\ HeaderStart' = s
<1>0. Len(stream) \in Nat
  BY LenType
<1>. DEFINE S == {i \in 1..q : stream[i].m = "SOI"}
<1>1. S \in SUBSET Int /\ s \in S
  BY <1>0
<1>2. \A x \in S : x <= s
  BY <1>0
<1>. HIDE DEF S
<1>3. Max(S) = s
  BY ONLY <1>1, <1>2, MaxIs
<1>4. HeaderStart' = Max({i \in 1..q : stream[i].m = "SOI"})
  BY DEF HeaderStart
<1>5. HasStart'
  BY <1>0 DEF HasStart
<1>. QED BY <1>3, <1>4, <1>5 DEF S

(* Nothing is collected from before the first scan.                         *)
LEMMA FirstCollects ==
  ASSUME SrcTypeOK, NEW s \in 1..Len(stream), NEW q \in 1..Len(stream), s <= q,
         stream[s].m = "SOI", \A k \in s+1..q : stream[k].m # "SOI",
         \A k \in s+1..q-1 : ~IsScan(k),
         UNCHANGED stream, hdr' = q
  PROVE  HasStart' /\ Collected(hdr - 1)' = {}
<1>0. Len(stream) \in Nat
  BY LenType
<1>1. HasStart' /\ HeaderStart' = s
  BY StartStays
<1>2. Collected(hdr - 1)' = UNION {ScanData(j)' : j \in {k \in s..q-1 : IsScan(k)'}}
  BY <1>1 DEF Collected
<1>3. ASSUME NEW k \in s..q-1 PROVE ~IsScan(k)'
  <2>1. k = s \/ k \in s+1..q-1
    BY <1>0
  <2>. QED BY <2>1 DEF IsScan
<1>. QED BY <1>1, <1>2, <1>3

(* What has been collected when a further scan is found.                    *)
LEMMA NextCollects ==
  ASSUME SrcTypeOK, HasStart, NEW q \in 1..Len(stream), hdr < q, Quiet(hdr + 1, q - 1),
         stream[q].m = "SOS", UNCHANGED stream, hdr' = q
  PROVE  HasStart' /\ Collected(hdr - 1)' = Collected(hdr)
<1>0. Len(stream) \in Nat /\ hdr \in 1..Len(stream)
  BY LenType DEF HasStart
<1>1. PICK s : s = HeaderStart
  OBVIOUS
<1>2. /\ s \in 1..hdr /\ stream[s].m = "SOI"
      /\ \A k \in 1..hdr : stream[k].m = "SOI" => k <= s
  BY <1>1, StartIs
<1>3. \A k \in s+1..q : stream[k].m # "SOI"
  <2>1. ASSUME NEW k \in s+1..q PROVE stream[k].m # "SOI"
    <3>1. k \in hdr+1..q-1 \/ k = q \/ (k \in 1..hdr /\ ~(k <= s))
      BY <1>0, <1>2
    <3>. QED BY <1>2, <3>1 DEF Quiet
  <2>. QED BY <2>1
<1>4. HasStart' /\ HeaderStart' = s
  BY <1>0, <1>2, <1>3, StartStays
<1>5. Collected(hdr - 1)' = UNION {ScanData(j)' : j \in {k \in s..q-1 : IsScan(k)'}}
  BY <1>4 DEF Collected
<1>6. \A j : ScanData(j)' = ScanData(j) /\ (IsScan(j)' <=> IsScan(j))
  BY DEF ScanData, ScanEnd, IsScan
<1>7. {k \in s..q-1 : IsScan(k)} = {k \in s..hdr : IsScan(k)}
  <2>1. ASSUME NEW k \in s..q-1, IsScan(k) PROVE k \in s..hdr
    <3>1. k \notin hdr+1..q-1
      BY <2>1 DEF Quiet
    <3>. QED BY <1>0, <1>2, <3>1
  <2>2. s..hdr \subseteq s..q-1
    BY <1>0, <1>2
  <2>. QED BY <2>1, <2>2
<1>8. Collected(hdr) = UNION {ScanData(j) : j \in {k \in s..hdr : IsScan(k)}}
  BY <1>1 DEF Collected
<1>. QED BY <1>4, <1>5, <1>6, <1>7, <1>8

(* A scan adds its data.                                                    *)
LEMMA ScanCollects ==
  ASSUME SrcTypeOK, HasStart, IsScan(hdr)
  PROVE  Collected(hdr) = Collected(hdr - 1) \cup ScanData(hdr)
<1>0. hdr \in Nat
  BY LenType DEF HasStart
<1>1. PICK s : s = HeaderStart
  OBVIOUS
<1>2. s \in 1..hdr
  BY <1>1, StartIs
<1>3. {k \in s..hdr : IsScan(k)} = {k \in s..(hdr - 1) : IsScan(k)} \cup {hdr}
  BY <1>0, <1>2
<1>. QED BY <1>1, <1>3 DEF Collected

(* At the EOI the data of all scans of the image has been collected.        *)
LEMMA EndCollects ==
  ASSUME SrcTypeOK, HasStart, IsScan(hdr), multi,
         NEW q \in 1..Len(stream), hdr < q, Quiet(hdr + 1, q - 1), stream[q].m = "EOI"
  PROVE  ImageData = Collected(hdr)
<1>0. Len(stream) \in Nat /\ hdr \in 1..Len(stream)
  BY LenType DEF HasStart
<1>1. PICK s : s = HeaderStart
  OBVIOUS
<1>2. s \in 1..hdr
  BY <1>1, StartIs
<1>. DEFINE E == {i \in hdr..Len(stream) : stream[i].m = "EOI"} \cup {Len(stream)}
<1>3. E \in SUBSET Int /\ q \in E
  BY <1>0
<1>4. ASSUME NEW x \in E PROVE q <= x
  <2>1. SUFFICES ASSUME x < q PROVE FALSE
    BY <1>0, <1>3
  <2>2. x \in hdr..q-1 /\ stream[x].m = "EOI"
    BY <1>0, <2>1
  <2>3. x \in hdr+1..q-1 \/ x = hdr
    BY <1>0, <2>2
  <2>. QED BY <2>2, <2>3 DEF Quiet, IsScan
<1>5. \A x \in E : q <= x
  BY <1>4
<1>. HIDE DEF E
<1>6. Min(E) = q
  BY ONLY <1>3, <1>5, MinIs
<1>7. ImageEnd = q
  BY <1>6 DEF ImageEnd, E
<1>8. {k \in s..q : IsScan(k)} = {k \in s..hdr : IsScan(k)}
  <2>1. ASSUME NEW k \in s..q, IsScan(k) PROVE k \in s..hdr
    <3>1. k \notin hdr+1..q-1 /\ k # q
      BY <2>1 DEF Quiet, IsScan
    <3>. QED BY <1>0, <1>2, <3>1
  <2>2. s..hdr \subseteq s..q
    BY <1>0, <1>2
  <2>. QED BY <2>1, <2>2
<1>. QED BY <1>1, <1>7, <1>8 DEF ImageData, Collected

-----------------------------------------------------------------------------
(* What a step of a call does, by the state it is made in.                  *)
LEMMA MarkerStates ==
  ASSUME TypeInv, CallPhase, HeaderDone, Phases, CallStep \/ Failure
  PROVE  /\ call # "none" /\ gs # "start" /\ gs # "ready"
         /\ gs = "inheader" => gs' \in {"inheader", "ready", "start"}
         /\ gs \notin HeaderStates =>
              /\ gs' \notin {"inheader", "ready"}
              /\ gs' = "start" => call = "finish"
              /\ gs' # "start" => sawSOI'
         /\ call' = "consume" => gs' # "ready"
         /\ call = "consume" /\ gs # "inheader" => gs' = gs
         /\ call' = "none" /\ call = "start" /\ ret' = "ok" => eoi
         /\ buffered' = buffered \/ buffered' = FALSE
         /\ gs' = "ready" => gs = "inheader" /\ sawSOI' = sawSOI /\ unread /\ Cur.m = "SOS"
<1>. USE DEF HeaderStates, CallPhase, HeaderDone, Phases, srcVars, icVars, hdrVars, scanVars,
             outVars, apiVars, Return, Reading, Handling, Reset
<1>0. call # "none" => gs # "start" /\ gs # "ready"
  BY DEF TypeInv, TypeOK, ApiTypeOK, Calls
<1>1. CASE Failure
  BY <1>0, <1>1 DEF Failure, SourceError, SourceErrorInside
<1>2. CASE EndOfSource \/ FirstMarker \/ NextMarker \/ UnsupportedSOF
  BY <1>0, <1>2 DEF EndOfSource, FirstMarker, NextMarker, UnsupportedSOF
<1>3. CASE AtEOI
  BY <1>0, <1>3 DEF AtEOI, OutputPassSetup
<1>4. CASE GetSOI \/ GetEOI \/ RejectSOS
  BY <1>0, <1>4 DEF GetSOI, GetEOI, RejectSOS
<1>5. CASE GetSOF
  BY <1>0, <1>5 DEF GetSOF
<1>6. CASE GetSOS
  BY <1>0, <1>6 DEF GetSOS, FirstSOS, LaterSOS, ReturnSOS
<1>7. CASE GetSegment
  BY <1>0, <1>7 DEF GetSegment
<1>. QED BY <1>1, <1>2, <1>3, <1>4, <1>5, <1>6, <1>7 DEF CallStep

(* Past the header, a call that has read all there is finds no more scans.  *)
LEMMA MarkerClosed ==
  ASSUME TypeInv, CallPhase, HeaderDone, CallStep \/ Failure, gs \notin HeaderStates,
         eoi \/ (pos = Len(stream) /\ ~unread)
  PROVE  /\ UNCHANGED <<stream, frame, inScan, eoi, multi>>
         /\ call = "start" /\ call' = "none" /\ ret' = "ok" => eoi
<1>. USE DEF HeaderStates, CallPhase, HeaderDone, srcVars, icVars, hdrVars, scanVars,
             outVars, apiVars, Return, Reading, Handling, Reset
<1>1. CASE Failure
  BY <1>1 DEF Failure, SourceError, SourceErrorInside, PayloadRead
<1>2. CASE EndOfSource \/ FirstMarker \/ NextMarker \/ UnsupportedSOF
  BY <1>2 DEF EndOfSource, FirstMarker, NextMarker, UnsupportedSOF
<1>3. CASE AtEOI
  BY <1>3 DEF AtEOI, OutputPassSetup
<1>4. CASE GetSOI \/ GetEOI \/ RejectSOS \/ GetSOF \/ GetSOS \/ GetSegment
  BY <1>4 DEF GetSOI, GetEOI, RejectSOS, GetSOF, GetSOS, GetSegment
<1>. QED BY <1>1, <1>2, <1>3, <1>4 DEF CallStep

(* What ConsumeInput can meet behind a scan.                                *)
GivesUp == call' = "none" /\ ret' \notin {"reachedSOS", "reachedEOI"}
FindsScan == /\ call' = "none" /\ ret' = "reachedSOS"
             /\ unread /\ ~unread' /\ pos' = pos /\ IsScan(pos) /\ inScan' = inScan + 1
             /\ UNCHANGED <<stream, eoi, multi>>
FindsMarker == /\ call' = call /\ UNCHANGED <<stream, inScan, eoi, multi>>
               /\ ~unread /\ pos < Len(stream) /\ pos' = pos + 1
               /\ unread' \/ Coded(stream[pos + 1])
PassesMarker == /\ call' = call /\ UNCHANGED <<stream, inScan, eoi, multi>>
                /\ unread /\ ~unread' /\ pos' = pos
                /\ Cur.m \notin {"SOI", "EOI"} /\ ~IsScan(pos)
FindsEOI == /\ call' = call /\ UNCHANGED <<stream, inScan, multi>> /\ eoi'
            /\ unread /\ ~unread' /\ pos' = pos /\ Cur.m = "EOI"

LEMMA MarkerConsume ==
  ASSUME TypeInv, HeaderDone, Phases, CallStep \/ Failure,
         call = "consume", gs \notin HeaderStates, ~eoi
  PROVE  GivesUp \/ FindsScan \/ FindsMarker \/ PassesMarker \/ FindsEOI
<1>. USE DEF HeaderStates, HeaderDone, Phases, srcVars, icVars, hdrVars, scanVars,
             outVars, apiVars, Return, Reading, Handling, Reset
<1>0. inheaders = 0 /\ sawSOF /\ sawSOI
  OBVIOUS
<1>1. CASE Failure \/ EndOfSource \/ UnsupportedSOF \/ RejectSOS \/ GetSOI \/ GetSOF
           \/ FirstMarker
  BY <1>0, <1>1 DEF Failure, SourceError, SourceErrorInside, EndOfSource, UnsupportedSOF, RejectSOS, GetSOI, GetSOF, FirstMarker, GivesUp
<1>2. CASE NextMarker
  BY <1>2 DEF NextMarker, FindsMarker, Coded
<1>3. CASE AtEOI
  BY <1>3 DEF AtEOI
<1>4. CASE GetEOI
  BY <1>0, <1>4 DEF GetEOI, FindsEOI
<1>5. CASE GetSegment
  <2>1. CASE Cur.ok
    BY <1>5, <2>1 DEF GetSegment, PassesMarker, IsScan, Cur
  <2>2. CASE ~Cur.ok
    BY <1>5, <2>2 DEF GetSegment, GivesUp
  <2>. QED BY <2>1, <2>2
<1>6. CASE GetSOS
  <2>1. LaterSOS
    BY <1>0, <1>6 DEF GetSOS, FirstSOS
  <2>2. CASE multi /\ Cur.comps = {}
    BY <1>6, <2>1, <2>2 DEF GetSOS, LaterSOS, PassesMarker, IsScan, Cur
  <2>3. CASE ~(multi /\ Cur.comps = {}) /\ ret' = "reachedSOS"
    BY <1>6, <2>1, <2>3 DEF GetSOS, LaterSOS, ReturnSOS, FindsScan, IsScan, Cur
  <2>4. CASE ~(multi /\ Cur.comps = {}) /\ ret' # "reachedSOS"
    BY <1>6, <2>1, <2>4 DEF GetSOS, LaterSOS, ReturnSOS, GivesUp
  <2>. QED BY <2>2, <2>3, <2>4
<1>. QED BY <1>1, <1>2, <1>3, <1>4, <1>5, <1>6 DEF CallStep

-----------------------------------------------------------------------------
(* The header is read up to its first scan.                                 *)
SinceSOI(q) ==
  \E s \in 1..q : stream[s].m = "SOI" /\ \A k \in s+1..q : stream[k].m # "SOI" /\ ~IsScan(k)

(* A step that handles no marker of the header.                             *)
LEMMA HeaderSame ==
  ASSUME InHeader, UNCHANGED <<stream, pos, unread, sawSOI, sawSOF, inheaders, multi>>,
         torn => torn', gs' = "inheader" => gs = "inheader", frame'.val = frame.val
  PROVE  InHeader'
BY DEF InHeader, Refused, Reached, Cur, IsScan

(* A marker that neither begins an image nor a scan.                        *)
LEMMA SinceGrows ==
  ASSUME NEW q \in Int, NEW p \in Int, p = q + 1, SinceSOI(q), stream[p].m # "SOI", ~IsScan(p)
  PROVE  SinceSOI(p)
<1>1. PICK s \in 1..q : stream[s].m = "SOI" /\ \A k \in s+1..q : stream[k].m # "SOI" /\ ~IsScan(k)
  BY DEF SinceSOI
<1>2. s \in 1..p
  OBVIOUS
<1>3. ASSUME NEW k \in s+1..p PROVE stream[k].m # "SOI" /\ ~IsScan(k)
  <2>1. k \in s+1..q \/ k = p
    OBVIOUS
  <2>. QED BY <1>1, <2>1
<1>. QED BY <1>1, <1>2, <1>3 DEF SinceSOI

LEMMA HeaderGrows ==
  ASSUME TypeInv, InHeader, gs = "inheader", unread, ~unread', pos' = pos, stream' = stream,
         sawSOI, sawSOI', torn' = torn, Cur.m # "SOI", ~IsScan(pos),
         inheaders' # 0, inheaders' = 2 => multi', Refused => Refused'
  PROVE  InHeader'
<1>1. CASE torn' \/ Refused'
  BY <1>1 DEF InHeader
<1>2. CASE ~torn' /\ ~Refused'
  <2>1. SinceSOI(pos - 1) /\ pos - 1 \in Int
    BY <1>2 DEF InHeader, SinceSOI, Reached, TypeInv, TypeOK, SrcTypeOK
  <2>2. pos \in Int /\ pos = (pos - 1) + 1
    BY DEF TypeInv, TypeOK, SrcTypeOK
  <2>3. SinceSOI(pos)
    BY <2>1, <2>2, SinceGrows DEF Cur
  <2>4. Reached' = pos /\ \A k : IsScan(k)' <=> IsScan(k)
    BY DEF Reached, IsScan
  <2>. QED BY <2>3, <2>4 DEF InHeader, SinceSOI
<1>. QED BY <1>1, <1>2

LEMMA HeaderMarkerStep ==
  ASSUME TypeInv, CallPhase, HeaderDone, Phases, InHeader, gs = "inheader", gs' = "inheader",
         CallStep \/ Failure
  PROVE  InHeader'
<1>. USE DEF srcVars, icVars, hdrVars, scanVars, outVars, apiVars, Return, Reading, Handling, Reset
<1>0. /\ inheaders # 0 /\ call \notin {"start", "finish"}
      /\ frame \in [prog : BOOLEAN, num : Nat, val : Nat]
      /\ pos \in Nat /\ unread \in BOOLEAN
  BY DEF InHeader, CallPhase, TypeInv, TypeOK, HdrTypeOK, SrcTypeOK
<1>1. CASE SourceError \/ EndOfSource \/ UnsupportedSOF
  <2>1. frame'.val = frame.val
    BY <1>0, <1>1 DEF SourceError, EndOfSource, UnsupportedSOF
  <2>. QED BY <1>1, <2>1, HeaderSame DEF SourceError, EndOfSource, UnsupportedSOF
<1>2. CASE FirstMarker
  BY <1>0, <1>2 DEF FirstMarker, InHeader, Refused, Cur
<1>3. CASE NextMarker
  <2>1. /\ UNCHANGED <<stream, sawSOI, sawSOF, inheaders, multi, torn, frame>> /\ sawSOI
        /\ ~unread /\ pos' = pos + 1 /\ unread' = (stream[pos + 1].m # "DATA")
    BY <1>3 DEF NextMarker
  <2>2. CASE torn \/ Refused
    BY <1>0, <2>1, <2>2 DEF InHeader, Refused
  <2>3. CASE ~torn /\ ~Refused
    <3>1. SinceSOI(pos)
      BY <2>1, <2>3 DEF InHeader, SinceSOI, Reached
    <3>2. \A k : IsScan(k)' <=> IsScan(k)
      BY <2>1 DEF IsScan
    <3>3. CASE stream[pos + 1].m = "DATA"
      <4>. PICK p \in Int : p = pos + 1
        BY <1>0
      <4>1. ~IsScan(p) /\ stream[p].m # "SOI" /\ pos \in Int
        BY <1>0, <3>3 DEF IsScan
      <4>2. SinceSOI(p)
        BY <3>1, <4>1, SinceGrows
      <4>3. Reached' = p /\ stream' = stream /\ sawSOI /\ (unread' => sawSOI')
        BY <2>1, <3>3 DEF Reached
      <4>. QED BY <2>1, <3>2, <4>2, <4>3 DEF InHeader, SinceSOI
    <3>4. CASE stream[pos + 1].m # "DATA"
      <4>0. unread'
        BY <2>1, <3>4, Zenon
      <4>1. Reached' = pos
        BY <1>0, <2>1, <4>0 DEF Reached
      <4>. QED BY <2>1, <3>1, <3>2, <4>1 DEF InHeader, SinceSOI
    <3>. QED BY <3>3, <3>4
  <2>. QED BY <2>2, <2>3
<1>4. CASE AtEOI
  BY <1>0, <1>4, HeaderSame DEF AtEOI
<1>5. CASE GetSOI
  <2>1. CASE sawSOI
    BY <1>5, <2>1, HeaderSame DEF GetSOI
  <2>2. CASE ~sawSOI
    <3>1. /\ UNCHANGED <<stream, pos, sawSOF, inheaders, multi, torn>> /\ ~unread' /\ sawSOI'
          /\ stream[pos].m = "SOI" /\ pos \in 1..pos /\ Reached' = pos
      BY <1>0, <1>5, <2>2 DEF GetSOI, Cur, Reached, TypeInv, PendingInStream
    <3>2. \E s \in 1..pos : stream[s].m = "SOI" /\ \A k \in s+1..pos : FALSE
      BY <1>0, <3>1
    <3>. QED BY <3>1, <3>2 DEF InHeader
  <2>. QED BY <2>1, <2>2
<1>6. CASE GetSOF
  <2>1. Cur.m = "SOF" /\ unread
    BY <1>6 DEF GetSOF
  <2>2. sawSOI
    BY <2>1 DEF InHeader
  <2>3. CASE torn'
    BY <1>0, <1>6, <2>2, <2>3 DEF GetSOF, InHeader, Cur
  <2>4. CASE ~torn'
    <3>1. /\ ~sawSOF /\ ~unread' /\ UNCHANGED <<stream, pos, sawSOI, inheaders, multi, torn>>
      BY <1>6, <2>4 DEF GetSOF
    <3>. QED BY <1>0, <2>1, <2>2, <3>1, HeaderGrows DEF InHeader, Refused, IsScan, Cur
  <2>. QED BY <2>3, <2>4
<1>7. CASE GetSOS
  <2>1. /\ FirstSOS /\ unread /\ ~unread' /\ Cur.m = "SOS" /\ SOSAccepted
        /\ UNCHANGED <<stream, pos, torn, sawSOI, sawSOF, frame>>
    BY <1>0, <1>7 DEF GetSOS, LaterSOS
  <2>2. sawSOI /\ sawSOF
    BY <2>1 DEF InHeader, SOSAccepted
  <2>3. CASE inheaders = 1 /\ frame.val = 1
    <3>1. Refused' /\ inheaders' = 1
      BY <2>1, <2>2, <2>3 DEF FirstSOS, Refused
    <3>. QED BY <2>1, <3>1 DEF InHeader
  <2>4. CASE ~(inheaders = 1 /\ frame.val = 1)
    <3>1. Cur.comps = {} /\ inheaders' = 2
      BY <1>0, <2>1, <2>4 DEF FirstSOS, ReturnSOS
    <3>2. multi'
      BY <1>0, <2>1, <2>4, <3>1 DEF FirstSOS, SOSAccepted, InHeader, TypeInv, TypeOK, IcTypeOK
    <3>. QED BY <2>1, <2>2, <2>4, <3>1, <3>2, HeaderGrows DEF Refused, IsScan, Cur
  <2>. QED BY <2>3, <2>4
<1>8. CASE RejectSOS
  <2>1. UNCHANGED <<stream, pos, unread, sawSOI, sawSOF, inheaders, multi, frame>>
        /\ unread /\ Cur.m = "SOS" /\ torn' = sawSOF /\ ~torn
    BY <1>8 DEF RejectSOS
  <2>. QED BY <2>1, HeaderSame
<1>9. CASE GetEOI
  <2>1. /\ UNCHANGED <<stream, pos, torn, sawSOI, sawSOF, inheaders, multi, frame>>
        /\ unread /\ ~unread' /\ Cur.m = "EOI"
    BY <1>9 DEF GetEOI
  <2>. QED BY <1>0, <2>1, HeaderGrows DEF InHeader, Refused, IsScan, Cur
<1>10. CASE GetSegment
  <2>1. /\ UNCHANGED <<stream, pos, sawSOI, sawSOF, inheaders, multi, frame>>
        /\ unread /\ Cur.m \in {"DQT", "DRI", "APP", "MISC"}
        /\ (torn' /\ unread') \/ (torn' = torn /\ ~unread')
    BY <1>10 DEF GetSegment
  <2>2. CASE torn' /\ unread'
    BY <1>0, <2>1, <2>2 DEF InHeader, Cur
  <2>3. CASE torn' = torn /\ ~unread'
    BY <1>0, <2>1, <2>3, HeaderGrows DEF InHeader, Refused, IsScan, Cur
  <2>. QED BY <2>1, <2>2, <2>3
<1>11. CASE SourceErrorInside
  <2>1. UNCHANGED <<stream, pos, unread, sawSOI, sawSOF, inheaders, multi>> /\ torn'
    BY <1>11 DEF SourceErrorInside
  <2>. QED BY <1>0, <2>1 DEF InHeader, Cur
<1>. QED BY <1>1, <1>2, <1>3, <1>4, <1>5, <1>6, <1>7, <1>8, <1>9, <1>10, <1>11 DEF CallStep, Failure

(* The header ends at a scan header, the first since the image's SOI.       *)
LEMMA ReadyStep ==
  ASSUME TypeInv, CallPhase, HeaderDone, Phases, InHeader, Untried, CallStep \/ Failure, Follow,
         gs' = "ready", tried' = 0
  PROVE  FirstScan' /\ Collected(hdr - 1)' = {}
<1>. USE DEF srcVars, icVars, hdrVars, scanVars, outVars, apiVars, Return, Reading, Handling, Reset
<1>1. gs = "inheader" /\ unread /\ Cur.m = "SOS" /\ sawSOI
  BY MarkerStates DEF InHeader
<1>2. GetSOS
  BY <1>1, MarkerStates DEF CallStep, Failure, SourceError, SourceErrorInside, EndOfSource, FirstMarker, NextMarker, AtEOI,
       OutputPassSetup, GetSOI, GetSOF, UnsupportedSOF, RejectSOS, GetEOI, GetSegment
<1>3. /\ FirstSOS /\ ~unread' /\ ~eoi /\ ~torn /\ SOSAccepted
      /\ UNCHANGED <<stream, pos, frame, eoi>>
      /\ Cur.comps # {} /\ inScan' = inScan + 1 /\ inScan \in Nat /\ inheaders \in {1, 2}
  BY <1>1, <1>2 DEF GetSOS, FirstSOS, LaterSOS, InHeader, TypeInv, TypeOK, ScanTypeOK, IcTypeOK
<1>4. ~(inheaders = 1 /\ frame.val = 1) /\ (frame.prog => multi')
  BY <1>1, <1>3 DEF FirstSOS, InHeader
<1>5. hdr' = pos /\ pos' = pos /\ IsScan(pos) /\ pos \in 1..Len(stream) /\ SrcTypeOK
  <2>1. hdr' = pos
    BY <1>3 DEF Follow
  <2>. QED BY <1>1, <1>3, <2>1, LenType DEF IsScan, Cur, TypeInv, TypeOK, SrcTypeOK, PendingInStream
<1>6. SinceSOI(pos - 1)
  BY <1>1, <1>3, <1>4 DEF InHeader, Refused, SinceSOI, Reached
<1>7. PICK s \in 1..pos - 1 : /\ stream[s].m = "SOI"
                              /\ \A k \in s+1..pos-1 : stream[k].m # "SOI" /\ ~IsScan(k)
  BY <1>6 DEF SinceSOI
<1>8. HasStart' /\ Collected(hdr - 1)' = {}
  <2>1. s \in 1..Len(stream) /\ s <= pos
    BY <1>5, <1>7, LenType
  <2>2. \A k \in s+1..pos : stream[k].m # "SOI"
    <3>1. ASSUME NEW k \in s+1..pos PROVE k \in s+1..pos-1 \/ k = pos
      BY <1>5, <3>1
    <3>. QED BY <1>1, <1>7, <3>1 DEF Cur
  <2>. QED BY <1>3, <1>5, <1>7, <2>1, <2>2, FirstCollects
<1>9. AtScan'
  BY <1>3, <1>5 DEF AtScan, IsScan
<1>. QED BY <1>3, <1>4, <1>8, <1>9 DEF FirstScan

-----------------------------------------------------------------------------
(* A step outside the stages of an operation, or the end of one.            *)
LEMMA DataStays ==
  ASSUME Followed, Sequential, DataMatchesScan, stream' = stream, at' \in {"none", "finishing"},
         tried' = 1 => tried = 1 /\ got' = got,
         tried' = 1 /\ live' =>
           /\ live /\ UNCHANGED <<data, image, row, total, all, hdr, multi>>
           /\ frame'.prog = frame.prog
           /\ line' = 0 \/ (line' = line /\ (gs' \in Output => gs \in Output))
  PROVE  Followed' /\ Sequential' /\ DataMatchesScan'
<1>1. DataMatchesScan'
  BY DEF DataMatchesScan
<1>2. CASE ~(tried' = 1 /\ live')
  <2>1. ~BeforeScan' /\ ~AfterScan' /\ ~EndRead' /\ ~Delivering'
    BY DEF BeforeScan, AfterScan, EndRead, Delivering
  <2>2. Followed' /\ Sequential'
    BY <1>2, <2>1 DEF Followed, Sequential
  <2>. QED BY <1>1, <2>2
<1>3. CASE tried' = 1 /\ live'
  <2>1. ScanData(hdr)' = ScanData(hdr) /\ ImageData' = ImageData
    BY <1>3, SameData
  <2>2. Followed'
    BY <1>3, <2>1 DEF Followed, BeforeScan, AfterScan, EndRead, Delivering
  <2>3. Sequential'
    BY <1>3, <2>1 DEF Sequential, Delivering
  <2>. QED BY <1>1, <2>2, <2>3
<1>. QED BY <1>1, <1>2, <1>3

(* The state machine through a step of a call.                              *)
LEMMA MarkerControl ==
  ASSUME DInv, MarkerStep
  PROVE  Untried' /\ Phases' /\ InHeader' /\ Ready'
<1>. USE DEF DInv, MInv
<1>1. /\ UNCHANGED <<op, at, live>> /\ (CallStep \/ Failure) /\ Follow
      /\ at \in {"none", "consuming", "starting", "finishing"}
  BY MarkerFrame DEF MarkerStep, opVars, flagVars, LInv, StageCalls
<1>2. tried' = IF gs' = "start" THEN 0 ELSE tried
  BY <1>1 DEF Follow
<1>3. call' \in {call, "none"}
  BY <1>1, MarkerFrame
<1>4. Untried'
  <2>1. gs' = "start" => gs = "inheader" \/ at = "finishing"
    BY <1>1, MarkerStates DEF InCall, HeaderStates
  <2>2. gs' = "inheader" => gs = "inheader"
    BY <1>1, MarkerStates DEF HeaderStates
  <2>3. tried = 0 => gs = "inheader"
    BY <1>1, MarkerStates DEF Untried, HeaderStates
  <2>. QED BY <1>1, <1>2, <2>1, <2>2, <2>3, MarkerStates DEF Untried, HeaderStates
<1>5. Phases'
  <2>1. gs' \notin HeaderStates => sawSOI'
    BY <1>1, MarkerStates DEF InHeader, HeaderStates
  <2>2. at' \in {"next", "consuming"} \/ (at' \in {"tables", "data"} /\ frame'.prog) => gs' = "preload"
    BY <1>1, MarkerStates DEF Phases, InCall
  <2>3. at' = "setup" \/ (at' = "starting" /\ call' = "none" /\ ret' = "ok") => gs' # "ready"
    BY <1>1, MarkerStates DEF PastHeader, HeaderStates
  <2>4. gs' = "ready" => ~live'
    BY <1>1, MarkerStates DEF PastHeader, LInv, LiveBuffers, HeaderStates
  <2>5. tried' = 1 /\ live' => at' \in {"none", "finishing"}
    BY <1>1, <1>2 DEF Phases
  <2>6. call' = "consume" => gs' # "ready"
    BY <1>1, MarkerStates
  <2>7. ~buffered'
    BY <1>1, MarkerStates DEF Phases
  <2>. QED BY <2>1, <2>2, <2>3, <2>4, <2>5, <2>6, <2>7 DEF Phases
<1>6. InHeader'
  <2>1. gs' = "inheader" => gs = "inheader"
    BY <1>1, MarkerStates DEF HeaderStates
  <2>. QED BY <1>1, <2>1, HeaderMarkerStep DEF InHeader
<1>7. Ready'
  BY <1>1, ReadyStep DEF Ready
<1>. QED BY <1>4, <1>5, <1>6, <1>7

(* Between two scans of a progressive image.                                *)
LEMMA MarkerConsuming ==
  ASSUME DInv, MarkerStep, tried = 1, at = "consuming"
  PROVE  Followed' /\ Sequential' /\ DataMatchesScan'
<1>. USE DEF DInv, MInv
<1>1. /\ UNCHANGED <<stream, op, at, got, data, image, all, live>> /\ (CallStep \/ Failure)
      /\ Follow /\ call = "consume" /\ gs = "preload" /\ gs' = gs /\ tried' = tried
  <2>1. call = "consume" /\ gs = "preload" /\ (CallStep \/ Failure)
    BY MarkerFrame DEF MarkerStep, InCall, Phases
  <2>2. gs' = gs /\ stream' = stream
    BY <2>1, MarkerStates, MarkerFrame
  <2>. QED BY <2>1, <2>2 DEF MarkerStep, opVars, memVars, rowVars, flagVars, Follow
<1>2. SrcTypeOK /\ inScan \in Nat /\ pos \in Nat /\ Len(stream) \in Nat /\ pos <= Len(stream)
      /\ unread \in BOOLEAN
  BY LenType DEF TypeInv, TypeOK, SrcTypeOK, ScanTypeOK
<1>3. ~live /\ gs \notin HeaderStates
  BY <1>1 DEF Phases, HeaderStates
<1>4. DataMatchesScan' /\ Sequential'
  BY <1>1, <1>3 DEF DataMatchesScan, Sequential, Delivering
<1>5. /\ HasStart /\ IsScan(hdr) /\ multi /\ DOMAIN got = Collected(hdr)
      /\ IF eoi THEN ImageData = Collected(hdr) ELSE Reached >= hdr /\ Quiet(hdr + 1, Reached)
  BY <1>1 DEF Followed, AfterScan
<1>6. hdr \in 1..Len(stream)
  BY <1>5 DEF HasStart
<1>7. CASE eoi
  <2>1. UNCHANGED <<frame, inScan, eoi, multi>>
    BY <1>1, <1>3, <1>7, MarkerClosed
  <2>2. hdr' = hdr
    BY <1>1, <1>2, <2>1 DEF Follow
  <2>3. ~(call' = "none" /\ ret' = "reachedSOS")
    BY <1>1, <1>7 DEF CallStep, Failure, SourceError, SourceErrorInside, EndOfSource, FirstMarker, NextMarker, AtEOI,
       GetSOI, GetSOF, UnsupportedSOF, GetSOS, RejectSOS, GetEOI, GetSegment, Reading, Handling, Return
  <2>. QED BY <1>1, <1>3, <1>4, <1>5, <1>7, <2>1, <2>2, <2>3, SameData
          DEF Followed, BeforeScan, AfterScan, EndRead, Delivering
<1>8. CASE ~eoi
  <2>1. CASE GivesUp
    BY <1>1, <1>3, <1>4, <2>1 DEF GivesUp, Followed, BeforeScan, AfterScan, EndRead, Delivering
  <2>2. CASE FindsScan
    <3>1. hdr' = pos /\ pos' = pos /\ ~unread' /\ ~eoi' /\ multi' /\ Reached = pos - 1
      BY <1>1, <1>2, <1>5, <1>8, <2>2 DEF FindsScan, Follow, Reached
    <3>2. hdr < pos /\ Quiet(hdr + 1, pos - 1) /\ pos \in 1..Len(stream) /\ stream[pos].m = "SOS"
      BY <1>2, <1>5, <1>6, <1>8, <2>2, <3>1 DEF FindsScan, IsScan
    <3>3. HasStart' /\ Collected(hdr - 1)' = Collected(hdr)
      BY <1>1, <1>2, <1>5, <3>1, <3>2, NextCollects
    <3>4. AtScan'
      BY <1>1, <2>2, <3>1, <3>2 DEF AtScan, FindsScan, IsScan
    <3>. QED BY <1>1, <1>3, <1>4, <1>5, <2>2, <3>1, <3>3, <3>4
            DEF Followed, FindsScan, FirstScan, BeforeScan, AfterScan, EndRead, Delivering
  <2>3. CASE FindsMarker
    <3>1. hdr' = hdr /\ call' = "consume" /\ multi' = multi /\ eoi' = eoi /\ Reached = pos
      BY <1>1, <1>2, <2>3 DEF FindsMarker, Follow, Reached
    <3>2. Reached' >= hdr /\ Quiet(hdr + 1, Reached)'
      <4>1. CASE unread'
        <5>1. Reached' = pos
          BY <1>2, <2>3, <4>1 DEF Reached, FindsMarker
        <5>. QED BY <1>1, <1>5, <1>8, <3>1, <5>1 DEF Quiet, IsScan
      <4>2. CASE ~unread' /\ Coded(stream[pos + 1])
        <5>1. PICK p \in Int : p = pos + 1
          BY <1>2
        <5>2. Reached' = p /\ stream[p].m = "DATA"
          BY <2>3, <4>2, <5>1 DEF Reached, FindsMarker, Coded
        <5>3. \A k \in hdr+1..p : k \in hdr+1..pos \/ k = p
          BY <1>2, <1>6, <5>1
        <5>4. \A k \in hdr+1..p : stream[k].m \notin {"SOI", "EOI"} /\ ~IsScan(k)
          BY <1>5, <1>8, <3>1, <5>2, <5>3 DEF Quiet, IsScan
        <5>. QED BY <1>1, <1>2, <1>5, <1>6, <1>8, <3>1, <5>1, <5>2, <5>4 DEF Quiet, IsScan
      <4>. QED BY <2>3, <4>1, <4>2 DEF FindsMarker
    <3>. QED BY <1>1, <1>3, <1>4, <1>5, <1>8, <3>1, <3>2, SameData
            DEF Followed, BeforeScan, AfterScan, EndRead, Delivering
  <2>4. CASE PassesMarker
    <3>1. hdr' = hdr /\ call' = "consume" /\ multi' = multi /\ eoi' = eoi /\ Reached = pos - 1
          /\ Reached' = pos /\ stream[pos].m \notin {"SOI", "EOI"} /\ ~IsScan(pos)
      BY <1>1, <1>2, <2>4 DEF PassesMarker, Follow, Reached, Cur
    <3>2. \A k \in hdr+1..pos : k \in hdr+1..pos-1 \/ k = pos
      BY <1>2, <1>6
    <3>3. \A k \in hdr+1..pos : stream[k].m \notin {"SOI", "EOI"} /\ ~IsScan(k)
      BY <1>5, <1>8, <3>1, <3>2 DEF Quiet
    <3>4. Reached' >= hdr /\ Quiet(hdr + 1, Reached)'
      BY <1>1, <1>2, <1>5, <1>6, <1>8, <3>1, <3>3 DEF Quiet, IsScan
    <3>. QED BY <1>1, <1>3, <1>4, <1>5, <1>8, <3>1, <3>4, SameData
            DEF Followed, BeforeScan, AfterScan, EndRead, Delivering
  <2>5. CASE FindsEOI
    <3>1. hdr' = hdr /\ call' = "consume" /\ multi' = multi /\ eoi' /\ Reached = pos - 1
          /\ stream[pos].m = "EOI"
      BY <1>1, <1>2, <2>5 DEF FindsEOI, Follow, Reached, Cur
    <3>2. hdr < pos /\ pos \in 1..Len(stream) /\ Quiet(hdr + 1, pos - 1)
      BY <1>2, <1>5, <1>6, <1>8, <3>1
    <3>3. ImageData = Collected(hdr)
      BY <1>2, <1>5, <3>1, <3>2, EndCollects
    <3>. QED BY <1>1, <1>3, <1>4, <1>5, <3>1, <3>3, SameData
            DEF Followed, BeforeScan, AfterScan, EndRead, Delivering
  <2>. QED BY <1>1, <1>3, <1>8, <2>1, <2>2, <2>3, <2>4, <2>5, MarkerConsume
<1>. QED BY <1>7, <1>8

(* While the output is started or under way there is nothing to be read.    *)
LEMMA MarkerDelivering ==
  ASSUME DInv, MarkerStep, tried' = 1, at # "consuming"
  PROVE  Followed' /\ Sequential' /\ DataMatchesScan'
<1>. USE DEF DInv, MInv
<1>1. /\ UNCHANGED <<op, at, got, data, image, row, total, all, live>> /\ (CallStep \/ Failure)
      /\ Follow /\ call # "none" /\ stream' = stream
      /\ at \in {"none", "starting", "finishing"}
  BY MarkerFrame DEF MarkerStep, opVars, memVars, rowVars, flagVars, LInv, StageCalls
<1>2. tried = 1 /\ gs \notin HeaderStates
  <2>1. tried = 1
    BY <1>1 DEF Follow
  <2>. QED BY <2>1 DEF Untried
<1>3. inScan \in Nat
  BY DEF TypeInv, TypeOK, ScanTypeOK
<1>4. live \/ at = "starting" =>
        UNCHANGED <<frame, eoi, multi, hdr>> /\ (call = "start" /\ call' = "none" /\ ret' = "ok" => eoi)
  <2>1. ASSUME live \/ at = "starting"
        PROVE  /\ UNCHANGED <<frame, inScan, eoi, multi>>
               /\ call = "start" /\ call' = "none" /\ ret' = "ok" => eoi
    <3>1. eoi \/ (pos = Len(stream) /\ ~unread)
      BY <2>1 DEF SourceClosed, LInv, LiveBuffers
    <3>. QED BY <1>1, <1>2, <3>1, MarkerClosed
  <2>. QED BY <1>1, <1>3, <2>1 DEF Follow
<1>5. line' = 0 \/ (line' = line /\ (gs' \in Output => gs \in Output))
  BY <1>1, MarkerLines
<1>6. CASE at \in {"none", "finishing"}
  BY <1>1, <1>2, <1>4, <1>5, <1>6, DataStays
<1>7. CASE at = "starting"
  <2>1. ~live /\ ~live'
    BY <1>1, <1>2, <1>7 DEF Phases
  <2>2. ScanData(hdr)' = ScanData(hdr) /\ ImageData' = ImageData
    BY <1>1, <1>4, <1>7, SameData
  <2>3. Followed'
    BY <1>1, <1>2, <1>4, <1>7, <2>1, <2>2 DEF Followed, BeforeScan, AfterScan, EndRead, Delivering
  <2>4. Sequential'
    BY <1>1, <1>2, <1>4, <1>7, <2>1, <2>2 DEF Sequential, Delivering, StageCalls, LInv
  <2>. QED BY <1>1, <1>2, <2>3, <2>4 DEF DataMatchesScan
<1>. QED BY <1>1, <1>6, <1>7

(* The conjuncts of the invariant that are about the data.                  *)
Part == Untried /\ Phases /\ InHeader /\ Ready /\ Followed /\ Sequential /\ DataMatchesScan

LEMMA DataMarkerStep == ASSUME DInv, MarkerStep PROVE Part'
<1>1. Untried' /\ Phases' /\ InHeader' /\ Ready'
  BY MarkerControl
<1>2. CASE tried' # 1
  BY <1>1, <1>2 DEF Part, Followed, Sequential, DataMatchesScan
<1>3. CASE tried' = 1
  <2>1. tried = 1
    BY <1>3 DEF MarkerStep, Follow
  <2>. QED BY <1>1, <1>3, <2>1, MarkerConsuming, MarkerDelivering DEF Part
<1>. QED BY <1>2, <1>3

-----------------------------------------------------------------------------
(* The client's calls find no stage in progress.                            *)
LEMMA DataHeaderStep == ASSUME DInv, HeaderCall PROVE Part'
<1>. USE DEF DInv, MInv, HeaderStates
<1>1. /\ UNCHANGED <<op, at, got, data, image, row, total, all, live, stream, frame, line, buffered>>
      /\ op = "none" /\ at = "none" /\ call = "none"
  BY DEF HeaderCall, ReadHeader, ConsumeInput, EnterConsume, BadState, Idle, opVars, memVars,
         rowVars, flagVars, hdrVars, outVars, LInv, StageCalls
<1>2. inScan \in Nat /\ tried \in Nat
  BY DEF TypeInv, TypeOK, ScanTypeOK, Untried
<1>3. CASE gs = "start"
  <2>1. /\ gs' = "inheader" /\ ~sawSOI' /\ ~unread' /\ inheaders' = 1 /\ tried = 0 /\ tried' = 0
        /\ ~live
    BY <1>1, <1>3 DEF HeaderCall, ReadHeader, ConsumeInput, EnterConsume, ResetInputController,
                      Follow, Untried, PastHeader, LInv, LiveBuffers
  <2>2. Untried' /\ Phases' /\ InHeader' /\ Ready'
    BY <1>1, <2>1 DEF Untried, Phases, InHeader, Ready
  <2>. QED BY <2>1, <2>2 DEF Part, Followed, Sequential, DataMatchesScan
<1>4. CASE gs # "start"
  <2>1. /\ UNCHANGED <<pos, unread, torn, sawSOI, sawSOF, inheaders, eoi, multi, inScan, gs>>
        /\ call' = "consume" => gs # "ready"
    BY <1>4 DEF HeaderCall, ReadHeader, ConsumeInput, EnterConsume, BadState, Return, srcVars, icVars,
                outVars, scanVars
  <2>2. hdr' = hdr /\ tried' = tried
    BY <1>2, <1>4, <2>1 DEF HeaderCall, Follow
  <2>3. Untried' /\ Phases'
    BY <1>1, <2>1, <2>2 DEF Untried, Phases
  <2>4. InHeader'
    BY <1>1, <2>1, HeaderSame
  <2>5. Ready'
    BY <1>1, <2>1, <2>2, SameData DEF Ready, FirstScan, AtScan
  <2>6. Followed' /\ Sequential' /\ DataMatchesScan'
    BY <1>1, <2>1, <2>2, DataStays
  <2>. QED BY <2>3, <2>4, <2>5, <2>6 DEF Part
<1>. QED BY <1>3, <1>4

(* Calls that move nothing but the output, or nothing.                      *)
LEMMA OutsideStages ==
  ASSUME DInv, UNCHANGED <<stream, srcVars, icVars, frame, hdr, gs, call, at, live>>,
         tried' = tried \/ (tried' = tried + 1 /\ gs \notin HeaderStates),
         op = "none", ~buffered'
  PROVE  Untried' /\ Phases' /\ InHeader' /\ Ready'
<1>. USE DEF DInv, MInv, srcVars, icVars
<1>1. at = "none" /\ tried \in Nat
  BY DEF LInv, StageCalls, Untried
<1>2. Untried' /\ Phases'
  BY <1>1 DEF Untried, Phases
<1>3. InHeader'
  BY HeaderSame
<1>4. Ready'
  BY <1>1, SameData DEF Ready, FirstScan, AtScan
<1>. QED BY <1>2, <1>3, <1>4

LEMMA DataSetStep == ASSUME DInv, SetRawDataOut PROVE Part'
<1>1. /\ UNCHANGED <<stream, srcVars, icVars, frame, hdr, gs, call, at, live, tried, got, data,
                     image, row, total, all, multi, line>>
      /\ op = "none" /\ at = "none" /\ ~buffered'
  BY DEF SetRawDataOut, SetParameters, decVars, opVars, memVars, rowVars, hisVars, hdrVars,
         apiVars, icVars, DInv, MInv, LInv, StageCalls
<1>2. Untried' /\ Phases' /\ InHeader' /\ Ready'
  BY <1>1, OutsideStages
<1>3. Followed' /\ Sequential' /\ DataMatchesScan'
  BY <1>1, DataStays DEF DInv
<1>. QED BY <1>2, <1>3 DEF Part

(* A line reader of a sequential image decodes from the whole scan data.    *)
LEMMA DataReadStep ==
  ASSUME DInv, (\E n \in 1..Height : ReadScanlines(n)) \/ ReadRawData \/ ReadRawDataRows
  PROVE  Part'
<1>. USE DEF DInv
<1>1. /\ UNCHANGED <<stream, srcVars, icVars, frame, hdr, gs, call, at, live, tried, got, data,
                     multi, buffered>>
      /\ op = "none" /\ at = "none"
  BY DEF ReadScanlines, ReadRawData, ReadRawDataRows, Reader, hisVars, memVars, hdrVars, apiVars,
         icVars, MInv, LInv, StageCalls
<1>2. Untried' /\ Phases' /\ InHeader' /\ Ready'
  BY <1>1, OutsideStages DEF Phases
<1>3. \/ /\ UNCHANGED <<image, all>>
         /\ all \/ (UNCHANGED <<row, total>> /\ (line' = line \/ line >= Height))
      \/ ~all /\ (image' = data \/ row >= total) /\ (all' \/ row' < total')
  <2>1. row + 1 > row
    BY DEF MInv, LInv, CountersOK
  <2>2. \A n \in 1..Height : ReadScanlines(n) =>
          \/ UNCHANGED <<image, all>> /\ (all \/ (UNCHANGED <<row, total>> /\ line' = line))
          \/ ~all /\ (image' = data \/ ~(total > row)) /\ all'
    BY DEF ReadScanlines, Refuse, DecodeRows, rowVars
  <2>3. ReadRawData =>
          \/ UNCHANGED <<image, all>> /\ (all \/ (UNCHANGED <<row, total>> /\ line' = line))
          \/ ~all /\ (image' = data \/ ~(total > row)) /\ all'
    BY DEF ReadRawData, Refuse, DecodeRows, rowVars
  <2>4. ReadRawDataRows =>
          \/ UNCHANGED <<image, all>> /\ (all \/ (UNCHANGED <<row, total>> /\ line' = line))
          \/ ~all /\ image' = data /\ (all' \/ ~(row' >= total')) /\ row' = row + 1 /\ total' = total
    BY <2>1 DEF ReadRawDataRows, Refuse, DecodeRows, NextRow, rowVars
  <2>. QED BY <2>2, <2>3, <2>4 DEF MInv, LInv, CountersOK
<1>4. ScanData(hdr)' = ScanData(hdr) /\ ImageData' = ImageData
  BY <1>1, SameData DEF icVars
<1>5. Followed'
  BY <1>1, <1>3, <1>4 DEF Followed, BeforeScan, AfterScan, EndRead, Delivering
<1>6. Sequential'
  <2>1. line >= Height => line > 0
    BY ConstantsAssumption DEF MInv, LInv, CountersOK
  <2>2. row >= total => ~(row < total)
    BY DEF MInv, LInv, CountersOK
  <2>. QED BY <1>1, <1>3, <1>4, <2>1, <2>2 DEF Sequential, Delivering
<1>7. DataMatchesScan'
  BY <1>1 DEF DataMatchesScan
<1>. QED BY <1>2, <1>5, <1>6, <1>7 DEF Part

(* An operation that begins first on an image finds its first scan.         *)
LEMMA DataBeginStep == ASSUME DInv, Begin("start") \/ Begin("coefs") PROVE Part'
<1>. USE DEF DInv
<1>1. /\ UNCHANGED <<stream, srcVars, icVars, frame, hdr, gs, call, buffered, data,
                     image, row, total, all, multi, eoi, pos, unread, line>>
      /\ op = "none" /\ at = "none" /\ gs \notin HeaderStates /\ call = "none"
  BY DEF Begin, Idle, Api, outVars, hdrVars, rowVars, apiVars, srcVars, icVars, HeaderStates, MInv,
         LInv, StageCalls
<1>2. CASE at' = at /\ got' = got /\ tried' = tried /\ live' = live
  <2>1. Untried' /\ Phases' /\ InHeader' /\ Ready'
    BY <1>1, <1>2, OutsideStages DEF Phases
  <2>. QED BY <1>1, <1>2, <2>1, DataStays DEF Part
<1>3. CASE at' = "pass" /\ got' = NoData /\ tried' = tried + 1 /\ ~live'
  <2>1. tried \in Nat /\ (tried = 0 => gs = "ready")
    BY <1>1 DEF Untried, Phases
  <2>2. Untried' /\ Phases'
    BY <1>1, <1>3, <2>1 DEF Untried, Phases, icVars
  <2>3. InHeader' /\ Ready'
    BY <1>1, <1>3, <2>1 DEF InHeader, Ready, HeaderStates
  <2>4. CASE tried' # 1
    BY <2>2, <2>3, <2>4 DEF Part, Followed, Sequential, DataMatchesScan
  <2>5. CASE tried' = 1
    <3>1. tried = 0 /\ gs = "ready"
      BY <1>1, <1>3, <2>1, <2>5
    <3>2. FirstScan /\ Collected(hdr - 1) = {}
      BY <3>1 DEF Ready
    <3>3. FirstScan' /\ Collected(hdr - 1)' = {}
      BY <1>1, <3>2, SameData DEF FirstScan, AtScan
    <3>4. DOMAIN got' = {}
      BY <1>3, Zenon DEF NoData
    <3>5. Followed' /\ Sequential' /\ DataMatchesScan'
      BY <1>3, <3>1, <3>3, <3>4 DEF Followed, Sequential, DataMatchesScan, BeforeScan, AfterScan,
         EndRead, Delivering
    <3>. QED BY <2>2, <2>3, <3>5 DEF Part
  <2>. QED BY <2>4, <2>5
<1>. QED BY <1>1, <1>2, <1>3 DEF Begin

(* The buffers are let go of, or the decoder stays as it is.                *)
LEMMA DataFinishStep ==
  ASSUME DInv, FinishAgain \/ FinishBegin \/ FinishEnd \/ ReleaseDecodeBuffers \/ AbortDecoder
  PROVE  Part'
<1>. USE DEF DInv, srcVars, icVars, hdrVars, outVars, apiVars
<1>1. CASE FinishBegin
  <2>1. /\ UNCHANGED <<stream, pos, unread, torn, sawSOI, sawSOF, inheaders, eoi, multi, frame, inScan,
                       line, buffered, got, data, image, row, total, all, live>>
        /\ op = "none" /\ at = "none" /\ at' = "finishing" /\ call' \in {"none", "finish"}
        /\ gs' = gs \/ (gs' = "stopping" /\ gs \notin HeaderStates \cup {"ready"})
        /\ Follow
    BY <1>1 DEF FinishBegin, FinishDecompress, ReadUntilEOI, Return, memVars, rowVars, flagVars,
                scanVars, HeaderStates, MInv, LInv, StageCalls
  <2>2. hdr' = hdr /\ tried' = tried
    BY <2>1 DEF Follow, Untried, MInv, TypeInv, TypeOK, ScanTypeOK, HeaderStates
  <2>3. Untried' /\ Phases'
    BY <2>1, <2>2 DEF Untried, Phases, HeaderStates
  <2>4. InHeader'
    BY <2>1, HeaderSame
  <2>5. Ready'
    BY <2>1, <2>2, SameData DEF Ready, FirstScan, AtScan
  <2>6. gs' \in Output => gs \in Output
    BY <2>1 DEF Output
  <2>7. Followed' /\ Sequential' /\ DataMatchesScan'
    BY <2>1, <2>2, <2>6, DataStays
  <2>. QED BY <2>3, <2>4, <2>5, <2>7 DEF Part
<1>2. CASE FinishAgain \/ FinishEnd \/ ReleaseDecodeBuffers
  <2>1. /\ UNCHANGED <<stream, pos, unread, torn, sawSOI, sawSOF, inheaders, eoi, multi, frame, gs,
                       call, line, buffered, got, hdr, tried>>
        /\ at' = "none" /\ call = "none"
        /\ live' => live /\ UNCHANGED <<data, image, row, total, all>>
    BY <1>2 DEF FinishAgain, FinishEnd, ReleaseDecodeBuffers, ReleaseBuffers, Api, Stage, End, memVars,
                rowVars, hisVars, MInv, LInv, StageCalls
  <2>2. Untried' /\ Phases'
    BY <2>1 DEF Untried, Phases
  <2>3. InHeader'
    BY <2>1, HeaderSame
  <2>4. Ready'
    BY <2>1, SameData DEF Ready, FirstScan, AtScan
  <2>5. Followed' /\ Sequential' /\ DataMatchesScan'
    BY <2>1, DataStays
  <2>. QED BY <2>2, <2>3, <2>4, <2>5 DEF Part
<1>3. CASE AbortDecoder
  <2>1. gs' = "start" /\ tried' = 0 /\ ~live' /\ at' = at /\ call' = "none" /\ buffered' = buffered
        /\ at = "none"
    BY <1>3 DEF AbortDecoder, Abort, ReleaseBuffers, opVars, MInv, LInv, StageCalls
  <2>2. Untried' /\ Phases' /\ InHeader' /\ Ready'
    BY <2>1 DEF Untried, Phases, InHeader, Ready, HeaderStates
  <2>. QED BY <2>1, <2>2 DEF Part, Followed, Sequential, DataMatchesScan
<1>. QED BY <1>1, <1>2, <1>3

-----------------------------------------------------------------------------
(* The stages of an operation.                                              *)
StageAction ==
  \/ InputPass \/ AllocCoefficients \/ PrepareEntropyDecoder \/ ReadAllScanData
  \/ DecodeProgressiveScan \/ DecodeCoefficients \/ NextScan \/ ScanReached
  \/ StartOutput \/ OutputStarted \/ SetupColorPipeline

LEMMA StageFrame ==
  ASSUME DInv, StageAction
  PROVE  /\ UNCHANGED <<stream, hdr, tried, frame, icVars, buffered>>
         /\ tried \in Nat \ {0} /\ op # "none" /\ call = "none" /\ at \notin {"none", "finishing"}
         /\ gs \notin HeaderStates /\ gs' \in {gs, "preload", "scanning", "rawok"}
         /\ tried = 1 => ~live
<1>. USE DEF DInv, MInv, HeaderStates, icVars, hdrVars, outVars, scanVars, hisVars, Api
<1>1. op # "none" /\ call = "none" /\ at \notin {"none", "finishing"}
  BY DEF StageAction, InputPass, AllocCoefficients, PrepareEntropyDecoder, ReadAllScanData,
         DecodeProgressiveScan, DecodeCoefficients, NextScan, ScanReached, StartOutput, OutputStarted,
         SetupColorPipeline, Stage
<1>2. /\ tried \in Nat \ {0} /\ gs \notin HeaderStates /\ (tried = 1 => ~live)
      /\ at = "next" => gs = "preload"
      /\ ~buffered
  BY <1>1 DEF Untried, PastHeader, Phases
<1>3. CASE InputPass \/ AllocCoefficients \/ PrepareEntropyDecoder \/ ReadAllScanData
           \/ DecodeProgressiveScan \/ DecodeCoefficients
  BY <1>1, <1>2, <1>3 DEF InputPass, StartInputPass, AllocCoefficients, PrepareEntropyDecoder,
     ReadAllScanData, DecodeProgressiveScan, DecodeCoefficients, srcVars
<1>4. CASE NextScan
  <2>1. UNCHANGED <<stream, frame, icVars, buffered, inScan, gs>>
    BY <1>2, <1>4 DEF NextScan, ConsumeInput, EnterConsume, Stage, srcVars
  <2>. QED BY <1>1, <1>2, <1>4, <2>1 DEF NextScan, Follow, TypeInv, TypeOK, ScanTypeOK
<1>5. CASE ScanReached \/ OutputStarted \/ SetupColorPipeline
  BY <1>1, <1>2, <1>5 DEF ScanReached, OutputStarted, SetupColorPipeline, srcVars
<1>6. CASE StartOutput
  BY <1>1, <1>2, <1>6 DEF StartOutput, StartDecompress, OutputPassSetup, BadState, srcVars
<1>. QED BY <1>1, <1>2, <1>3, <1>4, <1>5, <1>6 DEF StageAction

(* What the stages do to the state machine.                                 *)
LEMMA StageControl ==
  ASSUME DInv, StageAction
  PROVE  Untried' /\ InHeader' /\ Ready'
<1>. USE DEF HeaderStates
<1>1. gs' \notin HeaderStates /\ tried' \in Nat \ {0}
  BY StageFrame
<1>2. Untried' /\ InHeader' /\ Ready'
  BY <1>1 DEF Untried, InHeader, Ready
<1>. QED BY <1>2

(* An operation that ends without a result.                                 *)
LEMMA StageEnds ==
  ASSUME DInv, StageAction, at' = "none", call' = "none", live' = live, got' = got
  PROVE  Part'
<1>. USE DEF DInv
<1>1. /\ UNCHANGED <<stream, hdr, tried, frame, icVars, buffered>>
      /\ tried = 1 => ~live
      /\ gs \notin HeaderStates /\ gs' \in {gs, "preload", "scanning", "rawok"}
  BY StageFrame
<1>2. Phases'
  BY <1>1 DEF Phases, icVars, HeaderStates
<1>3. Followed' /\ Sequential' /\ DataMatchesScan'
  BY <1>1, DataStays
<1>. QED BY <1>2, <1>3, StageControl DEF Part

(* The stages before a scan's data is read.                                 *)
LEMMA DataPassStep ==
  ASSUME DInv, InputPass \/ AllocCoefficients \/ PrepareEntropyDecoder
  PROVE  Part'
<1>. USE DEF DInv
<1>0. StageAction
  BY DEF StageAction
<1>1. /\ UNCHANGED <<stream, hdr, tried, frame, icVars, buffered, got, data, image, all, live,
                     pos, unread>>
      /\ call' = "none" /\ gs' \in {gs, "preload"} /\ gs \notin HeaderStates
      /\ tried = 1 => ~live
  BY <1>0, StageFrame DEF InputPass, StartInputPass, AllocCoefficients, PrepareEntropyDecoder, Return,
     memVars, rowVars, hisVars, Api, srcVars, outVars, apiVars, HeaderStates
<1>2. \/ at' = "none"
      \/ at = "pass" /\ gs' = gs /\ at' = IF frame.prog THEN "alloc" ELSE "tables"
      \/ at = "alloc" /\ frame.prog /\ at' = "tables" /\ gs' = "preload"
      \/ at = "tables" /\ at' = "data" /\ gs' = gs
  BY DEF InputPass, StartInputPass, AllocCoefficients, PrepareEntropyDecoder, Stage, Goto, End, Api, outVars
<1>3. CASE at' = "none"
  BY <1>0, <1>1, <1>3, StageEnds
<1>4. CASE at' # "none"
  <2>1. BeforeScan /\ BeforeScan' /\ ~AfterScan' /\ ~EndRead' /\ ~Delivering'
    BY <1>1, <1>2, <1>4 DEF BeforeScan, AfterScan, EndRead, Delivering
  <2>2. Phases'
    BY <1>1, <1>2, <1>4 DEF Phases, icVars, HeaderStates
  <2>3. FirstScan => FirstScan'
    BY <1>1, SameData DEF FirstScan, AtScan, icVars
  <2>4. Followed'
    BY <1>1, <2>1, <2>3, SameData DEF Followed
  <2>5. Sequential'
    BY <1>1, <1>2, <1>4, <2>1 DEF Sequential, Delivering
  <2>6. DataMatchesScan'
    BY <1>1 DEF DataMatchesScan
  <2>. QED BY <1>0, <2>2, <2>4, <2>5, <2>6, StageControl DEF Part
<1>. QED BY <1>3, <1>4

(* A sequential image: what is read is the data of its scan.                *)
LEMMA DataReadAllStep == ASSUME DInv, ReadAllScanData PROVE Part'
<1>. USE DEF DInv
<1>0. StageAction
  BY DEF StageAction
<1>1. /\ UNCHANGED <<stream, hdr, tried, frame, icVars, buffered, got, image, all, live, unread, gs>>
      /\ call' = "none" /\ gs' \notin HeaderStates /\ at = "data" /\ ~frame.prog
      /\ tried = 1 => ~live
  BY <1>0, StageFrame DEF ReadAllScanData, Stage, memVars, rowVars, hisVars, outVars, apiVars
<1>2. CASE at' = "none"
  BY <1>0, <1>1, <1>2, StageEnds
<1>3. CASE at' # "none"
  <2>1. at' \in {"alloc", "api"} /\ data' = ScanData(pos)
    BY <1>3 DEF ReadAllScanData, Goto, End
  <2>2. ~BeforeScan' /\ ~AfterScan' /\ ~EndRead'
    BY <1>1, <2>1 DEF BeforeScan, AfterScan, EndRead
  <2>3. Phases'
    BY <1>1, <2>1 DEF Phases, icVars
  <2>4. Followed'
    BY <1>1, <2>2 DEF Followed
  <2>5. tried = 1 => AtScan /\ ~eoi
    BY <1>1 DEF Followed, BeforeScan, FirstScan
  <2>6. Sequential'
    <3>1. ASSUME tried = 1
          PROVE  data' = ScanData(hdr)' /\ IsScan(hdr)' /\ hdr' \in 1..Len(stream') /\ ~eoi' /\ ~live'
      BY <1>1, <2>1, <2>5, <3>1, SameData DEF AtScan, icVars
    <3>. QED BY <1>1, <2>1, <3>1 DEF Sequential, Delivering
  <2>7. DataMatchesScan'
    BY <1>1 DEF DataMatchesScan
  <2>. QED BY <1>0, <2>3, <2>4, <2>6, <2>7, StageControl DEF Part
<1>. QED BY <1>2, <1>3

(* A scan of a progressive image is decoded under its own header.           *)
LEMMA DataScanStep == ASSUME DInv, DecodeProgressiveScan PROVE Part'
<1>. USE DEF DInv
<1>0. StageAction
  BY DEF StageAction
<1>1. /\ UNCHANGED <<stream, hdr, tried, frame, icVars, buffered, image, all, live, gs>>
      /\ call' = "none" /\ gs' \notin HeaderStates /\ at = "data" /\ frame.prog
      /\ tried = 1 => ~live
  BY <1>0, StageFrame DEF DecodeProgressiveScan, Stage, memVars, rowVars, hisVars, outVars, apiVars
<1>2. CASE at' = "none"
  BY <1>0, <1>1, <1>2, StageEnds DEF DecodeProgressiveScan, Goto
<1>3. CASE at' # "none"
  <2>1. /\ at' = "next" /\ unread' = (ScanEnd(pos) <= Len(stream))
        /\ pos' = IF ScanEnd(pos) <= Len(stream) THEN ScanEnd(pos) ELSE Len(stream)
        /\ got' = [i \in DOMAIN got \cup ScanData(pos) |-> IF i \in ScanData(pos) THEN hdr ELSE got[i]]
    BY <1>3 DEF DecodeProgressiveScan, Goto, End
  <2>2. Phases'
    BY <1>1, <2>1 DEF Phases, icVars
  <2>3. Sequential'
    BY <1>1 DEF Sequential
  <2>4. CASE tried # 1
    BY <1>0, <1>1, <2>2, <2>3, <2>4, StageControl DEF Part, Followed, DataMatchesScan
  <2>5. CASE tried = 1
    <3>1. AtScan /\ HasStart /\ ~eoi /\ multi /\ DOMAIN got = Collected(hdr - 1)
      BY <1>1, <2>5 DEF Followed, BeforeScan, FirstScan
    <3>2. /\ pos = hdr /\ IsScan(hdr) /\ stream[hdr].m = "SOS" /\ hdr \in 1..Len(stream)
          /\ hdr \in 0..Len(stream) /\ Len(stream) \in Nat /\ SrcTypeOK
      BY <3>1, LenType DEF AtScan, IsScan, MInv, TypeInv, TypeOK
    <3>3. DOMAIN got' = Collected(hdr)
      BY <2>1, <3>1, <3>2, ScanCollects
    <3>4. DataMatchesScan'
      <4>1. ASSUME NEW i \in DOMAIN got' PROVE got'[i] = Max({j \in 1..i : stream[j].m = "SOS"})
        <5>1. CASE i \in ScanData(hdr)
          BY <2>1, <3>2, <5>1, LastHeader
        <5>2. CASE i \notin ScanData(hdr)
          BY <2>1, <2>5, <3>2, <5>2 DEF DataMatchesScan
        <5>. QED BY <5>1, <5>2
      <4>. QED BY <1>1, <4>1 DEF DataMatchesScan
    <3>5. /\ ScanEnd(hdr) \in (hdr + 1)..(Len(stream) + 1)
          /\ \A k \in (hdr + 1)..(ScanEnd(hdr) - 1) : Coded(stream[k])
      BY <3>2, ScanDataIs
    <3>6. Reached' = ScanEnd(hdr) - 1
      <4>1. CASE ScanEnd(hdr) <= Len(stream)
        <5>1. unread' = TRUE
          BY <2>1, <3>2, <4>1, Zenon
        <5>. QED BY <2>1, <3>2, <4>1, <5>1 DEF Reached
      <4>2. CASE ~(ScanEnd(hdr) <= Len(stream))
        <5>1. unread' = FALSE
          <6>1. (ScanEnd(hdr) <= Len(stream)) = FALSE
            BY <3>2, <3>5, <4>2
          <6>. QED BY <2>1, <3>2, <6>1, Zenon
        <5>. QED BY <2>1, <3>2, <3>5, <4>2, <5>1 DEF Reached
      <4>. QED BY <4>1, <4>2
    <3>7. Reached' >= hdr' /\ Quiet(hdr + 1, Reached)'
      BY <1>1, <3>2, <3>5, <3>6 DEF Quiet, IsScan, Coded
    <3>8. /\ HasStart' /\ IsScan(hdr)' /\ multi' /\ ~eoi' /\ DOMAIN got' = Collected(hdr)'
      BY <1>1, <3>1, <3>2, <3>3, SameData DEF icVars
    <3>9. Followed'
      BY <1>1, <2>1, <2>5, <3>7, <3>8 DEF Followed, BeforeScan, AfterScan, EndRead, Delivering
    <3>. QED BY <1>0, <2>2, <2>3, <3>4, <3>9, StageControl DEF Part
  <2>. QED BY <2>4, <2>5
<1>. QED BY <1>2, <1>3

(* The coefficients of a sequential image.                                  *)
LEMMA DataCoefStep == ASSUME DInv, DecodeCoefficients PROVE Part'
<1>. USE DEF DInv
<1>0. StageAction
  BY DEF StageAction
<1>1. /\ UNCHANGED <<stream, hdr, tried, frame, icVars, buffered, data, image, live, gs>>
      /\ call' = "none" /\ gs' \notin HeaderStates /\ at = "alloc" /\ ~frame.prog /\ at' = "none"
      /\ tried = 1 => ~live
      /\ got' = got \/ got' = [i \in data |-> hdr]
  BY <1>0, StageFrame DEF DecodeCoefficients, Stage, End, hisVars, apiVars
<1>2. CASE got' = got
  BY <1>0, <1>1, <1>2, StageEnds
<1>3. CASE got' = [i \in data |-> hdr]
  <2>1. Phases'
    BY <1>1 DEF Phases, icVars
  <2>2. Followed' /\ Sequential'
    BY <1>1 DEF Followed, Sequential, BeforeScan, AfterScan, EndRead, Delivering
  <2>3. DataMatchesScan'
    <3>1. SUFFICES ASSUME tried = 1 PROVE DataMatchesScan'
      BY <1>1 DEF DataMatchesScan
    <3>2. data = ScanData(hdr) /\ hdr \in 1..Len(stream) /\ stream[hdr].m = "SOS" /\ SrcTypeOK
      BY <1>1, <3>1 DEF Sequential, IsScan, MInv, TypeInv, TypeOK
    <3>3. \A i \in data : Max({j \in 1..i : stream[j].m = "SOS"}) = hdr
      BY <3>2, LastHeader
    <3>. QED BY <1>1, <1>3, <3>3 DEF DataMatchesScan
  <2>. QED BY <1>0, <2>1, <2>2, <2>3, StageControl DEF Part
<1>. QED BY <1>1, <1>2, <1>3

(* The loop over the scans of a progressive image.                          *)
LEMMA DataNextStep == ASSUME DInv, NextScan PROVE Part'
<1>. USE DEF DInv
<1>0. StageAction
  BY DEF StageAction
<1>1. /\ UNCHANGED <<stream, hdr, tried, frame, icVars, buffered, got, data, image, all, live>>
      /\ at = "next" /\ at' = "consuming" /\ gs = "preload" /\ gs \notin HeaderStates
      /\ tried = 1 => ~live
  BY <1>0, StageFrame DEF NextScan, Stage, Goto, memVars, rowVars, flagVars, Phases, HeaderStates
<1>2. call' = "consume" /\ UNCHANGED <<pos, unread, gs>>
  BY <1>1 DEF NextScan, ConsumeInput, EnterConsume, srcVars, outVars
<1>3. Phases'
  BY <1>1, <1>2 DEF Phases, icVars
<1>4. Followed'
  <2>1. SUFFICES ASSUME tried = 1 PROVE Followed'
    BY <1>1 DEF Followed
  <2>2. Reached' = Reached /\ (Quiet(hdr + 1, Reached)' <=> Quiet(hdr + 1, Reached)) /\ multi' = multi
    BY <1>1, <1>2 DEF Reached, Quiet, IsScan, icVars
  <2>3. AfterScan /\ AfterScan' /\ ~BeforeScan' /\ ~EndRead' /\ ~Delivering'
    BY <1>1, <1>2 DEF BeforeScan, AfterScan, EndRead, Delivering
  <2>4. /\ HasStart /\ IsScan(hdr) /\ multi /\ DOMAIN got = Collected(hdr)
        /\ IF eoi THEN ImageData = Collected(hdr) ELSE Reached >= hdr /\ Quiet(hdr + 1, Reached)
    BY <2>1, <2>3 DEF Followed
  <2>. QED BY <1>1, <2>1, <2>2, <2>3, <2>4, SameData DEF Followed, icVars
<1>5. Sequential'
  BY <1>1 DEF Sequential, Delivering
<1>6. DataMatchesScan'
  BY <1>1 DEF DataMatchesScan
<1>. QED BY <1>0, <1>3, <1>4, <1>5, <1>6, StageControl DEF Part

LEMMA DataReachedStep == ASSUME DInv, ScanReached PROVE Part'
<1>. USE DEF DInv
<1>0. StageAction
  BY DEF StageAction
<1>1. /\ UNCHANGED <<stream, hdr, tried, frame, icVars, buffered, got, data, image, live,
                     pos, unread, gs>>
      /\ call = "none" /\ call' = "none" /\ at = "consuming" /\ gs = "preload" /\ gs \notin HeaderStates
      /\ tried = 1 => ~live
  BY <1>0, StageFrame DEF ScanReached, Stage, memVars, srcVars, apiVars, hisVars, Phases, HeaderStates
<1>2. \/ at' = "none"
      \/ ret = "reachedSOS" /\ at' = "tables"
      \/ ret = "reachedEOI" /\ at' = "api"
  BY DEF ScanReached, AllScansRead, Goto, End
<1>3. frame.prog \/ ret \in {"source", "format"}
  BY <1>1 DEF MInv, Accounted
<1>4. CASE at' = "none"
  BY <1>0, <1>1, <1>4, StageEnds
<1>5. CASE at' # "none"
  <2>1. frame.prog
    BY <1>2, <1>3, <1>5
  <2>2. Phases'
    BY <1>1, <1>2, <1>5 DEF Phases, icVars
  <2>3. FirstScan => FirstScan'
    BY <1>1, SameData DEF FirstScan, AtScan, icVars
  <2>4. ImageData' = ImageData /\ multi' = multi
    BY <1>1, SameData DEF icVars
  <2>5. Followed'
    <3>1. CASE at' = "tables"
      <4>1. BeforeScan /\ ~AfterScan' /\ ~EndRead' /\ ~Delivering'
        BY <1>1, <1>2, <3>1 DEF BeforeScan, AfterScan, EndRead, Delivering
      <4>. QED BY <1>1, <2>3, <4>1, SameData DEF Followed
    <3>2. CASE at' = "api"
      <4>1. EndRead /\ ~AfterScan' /\ ~EndRead' /\ ~BeforeScan'
        BY <1>1, <1>2, <3>2 DEF BeforeScan, AfterScan, EndRead
      <4>. QED BY <1>1, <2>4, <4>1 DEF Followed
    <3>. QED BY <1>2, <1>5, <3>1, <3>2
  <2>6. Sequential'
    BY <1>1, <2>1 DEF Sequential
  <2>7. DataMatchesScan'
    BY <1>1 DEF DataMatchesScan
  <2>. QED BY <1>0, <2>2, <2>5, <2>6, <2>7, StageControl DEF Part
<1>. QED BY <1>4, <1>5

(* The output is started.                                                   *)
LEMMA DataOutputStep == ASSUME DInv, StartOutput \/ OutputStarted PROVE Part'
<1>. USE DEF DInv
<1>0. StageAction
  BY DEF StageAction
<1>1. /\ UNCHANGED <<stream, hdr, tried, frame, icVars, buffered, got, data, image, all, live>>
      /\ call = "none" /\ gs \notin HeaderStates
      /\ tried = 1 => ~live
  BY <1>0, StageFrame DEF StartOutput, OutputStarted, memVars, rowVars, hisVars
<1>2. gs' \in {gs, "preload", "scanning", "rawok"}
  BY <1>0, StageFrame
<1>3. \/ /\ at = "api" /\ at' = "starting" /\ call' \in {"none", "start"}
         /\ call' = "none" /\ ret' = "ok" => ~multi /\ gs' # "ready"
         /\ gs' = "ready" => gs = "ready"
      \/ /\ at = "starting" /\ at' = "setup" /\ call' = "none" /\ ret = "ok" /\ gs' = gs
      \/ at' = "none" /\ call' = "none"
  <2>1. CASE StartOutput
    BY <1>2, <2>1 DEF StartOutput, StartDecompress, BadState, OutputPassSetup, AbsorbScans, Stage,
       Goto, Return, Phases, outVars, apiVars
  <2>2. CASE OutputStarted
    BY <2>2 DEF OutputStarted, Stage, Goto, End, Api, outVars, apiVars
  <2>. QED BY <2>1, <2>2
<1>4. CASE at' = "none" /\ call' = "none"
  BY <1>0, <1>1, <1>4, StageEnds
<1>5. CASE ~(at' = "none" /\ call' = "none")
  <2>1. /\ Delivering /\ Delivering' /\ ~BeforeScan' /\ ~AfterScan' /\ ~EndRead'
        /\ at' \in {"starting", "setup"}
    BY <1>3, <1>5 DEF Delivering, BeforeScan, AfterScan, EndRead
  <2>2. Phases'
    BY <1>1, <1>2, <1>3, <1>5 DEF Phases, icVars
  <2>3. ScanData(hdr)' = ScanData(hdr) /\ ImageData' = ImageData /\ multi' = multi /\ eoi' = eoi
    BY <1>1, SameData DEF icVars
  <2>4. Followed'
    BY <1>1, <2>1, <2>3 DEF Followed
  <2>5. Sequential'
    BY <1>1, <1>3, <1>5, <2>1, <2>3 DEF Sequential, Delivering
  <2>6. DataMatchesScan'
    BY <1>1 DEF DataMatchesScan
  <2>. QED BY <1>0, <2>2, <2>4, <2>5, <2>6, StageControl DEF Part
<1>. QED BY <1>4, <1>5

(* An image has an iMCU row.                                                *)
LEMMA SomeRows == 0 < Rows
<1>. DEFINE q == (Height + RowLines - 1) \div RowLines
            r == (Height + RowLines - 1) % RowLines
<1>1. RowLines \in Nat \ {0} /\ Height \in Nat \ {0}
  BY SizesAssumption, ConstantsAssumption
<1>2. q \in Nat /\ r \in Nat /\ r < RowLines /\ Height + RowLines - 1 = q * RowLines + r
  BY <1>1
<1>. HIDE DEF q, r
<1>3. q # 0
  BY <1>1, <1>2
<1>. QED BY <1>2, <1>3 DEF q, Rows

(* The buffers of a progressive image are rendered from all its coefficients*)
LEMMA DataSetupStep == ASSUME DInv, SetupColorPipeline PROVE Part'
<1>. USE DEF DInv
<1>0. StageAction
  BY DEF StageAction
<1>1. /\ UNCHANGED <<stream, hdr, tried, frame, icVars, buffered, got, data, gs, line>>
      /\ at = "setup" /\ at' = "none" /\ call' = "none" /\ gs \notin HeaderStates
      /\ tried = 1 => ~live
  BY <1>0, StageFrame DEF SetupColorPipeline, Stage, End, Api, outVars, apiVars
<1>2. CASE live' = live
  BY <1>0, <1>1, <1>2, StageEnds
<1>3. CASE live' # live
  <2>1. live' /\ image' = (IF frame.prog THEN DOMAIN got ELSE {}) /\ all' = frame.prog
        /\ row' = 0 /\ total' = Rows
    BY <1>3 DEF SetupColorPipeline
  <2>2. Phases'
    BY <1>1 DEF Phases, icVars
  <2>3. ScanData(hdr)' = ScanData(hdr) /\ ImageData' = ImageData /\ multi' = multi
    BY <1>1, SameData DEF icVars
  <2>4. ~BeforeScan' /\ ~AfterScan' /\ ~EndRead' /\ ~Delivering' /\ Delivering
    BY <1>1 DEF Delivering, BeforeScan, AfterScan, EndRead
  <2>5. gs \in Output => ~(line > 0)
    BY <1>1 DEF MInv, LInv, FreshOutput
  <2>6. Followed'
    BY <1>1, <2>1, <2>3, <2>4 DEF Followed
  <2>7. Sequential'
    BY <1>1, <2>1, <2>3, <2>4, <2>5, SomeRows DEF Sequential
  <2>8. DataMatchesScan'
    BY <1>1 DEF DataMatchesScan
  <2>. QED BY <1>0, <2>2, <2>6, <2>7, <2>8, StageControl DEF Part
<1>. QED BY <1>2, <1>3

-----------------------------------------------------------------------------
LEMMA DInvInit == DecInit => DInv
<1>. SUFFICES ASSUME DecInit PROVE DInv
  OBVIOUS
<1>1. MInv
  BY MInvInit
<1>2. Untried /\ Phases /\ InHeader /\ Ready
  BY DEF DecInit, Init, Untried, Phases, InHeader, Ready, HeaderStates
<1>3. Followed /\ Sequential /\ DataMatchesScan
  BY DEF DecInit, Followed, Sequential, DataMatchesScan
<1>. QED BY <1>1, <1>2, <1>3 DEF DInv

LEMMA DInvStep == DInv /\ [DecNext]_decoderVars => DInv'
<1>. SUFFICES ASSUME DInv, [DecNext]_decoderVars PROVE DInv'
  OBVIOUS
<1>1. MInv'
  BY MInvStep DEF DInv
<1>2. CASE DecoderStep
  <2>1. Part'
    BY <1>2, DataMarkerStep, DataPassStep, DataReadAllStep, DataScanStep, DataCoefStep, DataNextStep,
       DataReachedStep, DataOutputStep, DataSetupStep, DataFinishStep DEF DecoderStep
  <2>. QED BY <1>1, <2>1 DEF DInv, Part
<1>3. CASE UNCHANGED decoderVars
  <2>1. UNCHANGED <<stream, pos, unread, torn, sawSOI, sawSOF, inheaders, eoi, multi, frame, gs, line,
                    buffered, call, ret, at, got, data, image, row, total, all, hdr, live, tried>>
    BY <1>3 DEF decoderVars, vars, decVars, srcVars, icVars, hdrVars, outVars, apiVars, opVars, memVars,
       rowVars, hisVars
  <2>2. Untried' /\ Phases'
    BY <2>1 DEF DInv, Untried, Phases
  <2>3. InHeader'
    BY <2>1, HeaderSame DEF DInv
  <2>4. Ready'
    BY <2>1, SameData DEF DInv, Ready, FirstScan, AtScan
  <2>5. Followed' /\ Sequential'
    <3>1. /\ BeforeScan' <=> BeforeScan
          /\ AfterScan' <=> AfterScan
          /\ EndRead' <=> EndRead
          /\ Delivering' <=> Delivering
      BY <2>1 DEF BeforeScan, AfterScan, EndRead, Delivering
    <3>2. Reached' = Reached /\ (Quiet(hdr + 1, Reached)' <=> Quiet(hdr + 1, Reached))
      BY <2>1 DEF Reached, Quiet, IsScan
    <3>3. FirstScan => FirstScan'
      BY <2>1, SameData DEF FirstScan, AtScan
    <3>4. Followed'
      BY <2>1, <3>1, <3>2, <3>3, SameData DEF DInv, Followed
    <3>5. Sequential'
      BY <2>1, <3>1, SameData DEF DInv, Sequential
    <3>. QED BY <3>4, <3>5
  <2>6. DataMatchesScan'
    BY <2>1 DEF DInv, DataMatchesScan
  <2>. QED BY <1>1, <2>2, <2>3, <2>4, <2>5, <2>6 DEF DInv
<1>4. CASE DecNext /\ ~DecoderStep
  <2>1. Part'
    BY <1>4, DataHeaderStep, DataSetStep, DataReadStep, DataBeginStep, DataFinishStep DEF DecNext
  <2>. QED BY <1>1, <2>1 DEF DInv, Part
<1>. QED BY <1>2, <1>3, <1>4

(* Every piece of entropy data is decoded under the parameters of the SOS it*)
(* follows, for every datastream and limit.                                 *)
THEOREM DataMatchesScanHolds == DecSpec => []DataMatchesScan
<1>1. DecInit => DInv
  BY DInvInit
<1>2. DInv /\ [DecNext]_decoderVars => DInv'
  BY DInvStep
<1>3. DInv => DataMatchesScan
  BY DEF DInv
<1>. QED BY <1>1, <1>2, <1>3, PTL DEF DecSpec

(* The samples a started decoder delivers are decoded from all the entropy  *)
(* data of the image, for every datastream and limit.                       *)
THEOREM ImageCompleteHolds == DecSpec => []ImageComplete
<1>1. DecInit => DInv
  BY DInvInit
<1>2. DInv /\ [DecNext]_decoderVars => DInv'
  BY DInvStep
<1>3. DInv => ImageComplete
  <2>1. SUFFICES ASSUME DInv, live, tried = 1, line > 0, gs \in Output PROVE image = ImageData
    BY DEF ImageComplete, Output
  <2>2. CASE frame.prog
    BY <2>1, <2>2 DEF DInv, Followed
  <2>3. CASE ~frame.prog
    <3>1. image = data /\ data = ScanData(hdr) /\ ~multi
      BY <2>1, <2>3 DEF DInv, Sequential
    <3>. QED BY <3>1 DEF ImageData
  <2>. QED BY <2>2, <2>3
<1>. QED BY <1>1, <1>2, <1>3, PTL DEF DecSpec
=============================================================================
