------------------------- MODULE DecompressorProofs -------------------------
(***************************************************************************)
(* Proofs about Decompressor, for every set of components, tables and      *)
(* datastreams and every image height.                                     *)
(***************************************************************************)
EXTENDS Decompressor, FiniteSetTheorems, TLAPS

(* A collected marker is one of the stream.                                 *)
PendingInStream == unread => pos >= 1

TypeInv == TypeOK /\ PendingInStream

(* Each kind of call runs in the states that can make it.                   *)
CallPhase ==
  /\ call \in {"header", "requireImage"} => gs = "inheader"
  /\ call = "start" => gs = "preload"
  /\ call = "finish" => gs = "stopping"
  /\ call = "consume" => gs # "start"

(* Past the header the frame is known and consumeMarkers will not call      *)
(* initialSetup again.                                                      *)
HeaderDone == gs \notin {"start", "inheader"} => inheaders = 0 /\ sawSOF

(* EOIReached says that the last marker read was the EOI.                   *)
AtEnd == eoi => ~unread /\ pos >= 1 /\ Cur.m = "EOI"

(* An image that was begun and reset without Abort had reached its EOI.     *)
Rested == gs = "start" /\ sawSOI => eoi

FrameAllocated ==
  sawSOF /\ gs # "start" /\ ~torn => Cardinality(DOMAIN compInfo) = frame.num

ScanInFrame ==
  gs \notin {"start", "inheader"} /\ ~torn => scan \subseteq DOMAIN compInfo

(* The inductive invariant.                                                 *)
IInv == /\ TypeInv /\ CallPhase /\ HeaderDone /\ AtEnd /\ Rested
        /\ FrameAllocated /\ ScanInFrame /\ MultiScanAbsorbed

-----------------------------------------------------------------------------
(* What the handlers read is a segment, with finitely many components.      *)
LEMMA LenType == SrcTypeOK => Len(stream) \in Nat
BY ConstantsAssumption DEF SrcTypeOK

LEMMA SegmentAt ==
  ASSUME SrcTypeOK, NEW i \in 1..Len(stream)
  PROVE  /\ stream[i] \in Segment
         /\ Cardinality(stream[i].comps) \in Nat
<1>1. stream[i] \in Segment
  BY ConstantsAssumption DEF SrcTypeOK
<1>2. stream[i].comps \subseteq Comp
  BY <1>1 DEF Segment
<1>3. IsFiniteSet(stream[i].comps)
  BY <1>2, FS_Subset, ConstantsAssumption
<1>. QED BY <1>1, <1>3, FS_CardinalityType

LEMMA CurInSegment ==
  ASSUME TypeInv, unread
  PROVE  Cur \in Segment /\ Cardinality(Cur.comps) \in Nat
BY SegmentAt, LenType DEF TypeInv, TypeOK, SrcTypeOK, PendingInStream, Cur

LEMMA LatchType ==
  ASSUME HdrTypeOK, NEW cs
  PROVE  /\ DOMAIN LatchQuantTables(cs) = DOMAIN compInfo
         /\ LatchQuantTables(cs) \in [DOMAIN compInfo -> Tables \cup {NoTable}]
BY DEF HdrTypeOK, LatchQuantTables

LEMMA NilInfoType == /\ DOMAIN NilInfo = {}
                     /\ NilInfo \in [DOMAIN NilInfo -> Tables \cup {NoTable}]
BY Zenon DEF NilInfo

LEMMA MinOfTwo ==
  ASSUME NEW x \in Int, NEW y \in Int
  PROVE  Min({x, y}) = IF x <= y THEN x ELSE y
<1>1. \E m \in {x, y} : \A n \in {x, y} : m <= n
  <2>1. CASE x <= y
    BY <2>1
  <2>2. CASE ~(x <= y)
    BY <2>2
  <2>. QED BY <2>1, <2>2
<1>2. Min({x, y}) \in {x, y} /\ \A n \in {x, y} : Min({x, y}) <= n
  BY <1>1 DEF Min
<1>. QED BY <1>2

(* The greatest and the least member of a set, when one is known.           *)
LEMMA MaxIs ==
  ASSUME NEW S \in SUBSET Int, NEW p \in S, \A x \in S : x <= p
  PROVE  Max(S) = p
<1>1. \E y \in S : \A x \in S : y >= x
  OBVIOUS
<1>2. Max(S) \in S /\ \A x \in S : Max(S) >= x
  BY <1>1 DEF Max
<1>3. Max(S) >= p /\ Max(S) <= p /\ Max(S) \in Int /\ p \in Int
  BY <1>2
<1>. QED BY ONLY <1>3

LEMMA MinIs ==
  ASSUME NEW S \in SUBSET Int, NEW p \in S, \A x \in S : p <= x
  PROVE  Min(S) = p
<1>1. \E y \in S : \A x \in S : y <= x
  OBVIOUS
<1>2. Min(S) \in S /\ \A x \in S : Min(S) <= x
  BY <1>1 DEF Min
<1>3. Min(S) <= p /\ p <= Min(S) /\ Min(S) \in Int /\ p \in Int
  BY <1>2
<1>. QED BY ONLY <1>3

LEMMA TypeInit == Init => TypeInv
<1>. SUFFICES ASSUME Init PROVE TypeInv
  OBVIOUS
<1>1. DOMAIN compInfo \subseteq Comp /\ compInfo \in [DOMAIN compInfo -> Tables \cup {NoTable}]
  BY NilInfoType DEF Init
<1>2. pos \in Nat /\ pos <= Len(stream)
  BY ConstantsAssumption DEF Init
<1>. QED BY <1>1, <1>2 DEF Init, TypeInv, TypeOK, SrcTypeOK, IcTypeOK, HdrTypeOK, ScanTypeOK,
         OutTypeOK, ApiTypeOK, PendingInStream, GlobalStates, Calls, Returns

(* A call's own steps preserve the types.                                   *)
LEMMA TypeCallStep == TypeInv /\ (CallStep \/ Failure) => TypeInv'
<1>. SUFFICES ASSUME TypeInv, CallStep \/ Failure PROVE TypeInv'
  OBVIOUS
<1>. USE LenType DEF TypeInv, TypeOK, PendingInStream, SrcTypeOK, IcTypeOK, HdrTypeOK,
         ScanTypeOK, OutTypeOK, ApiTypeOK, srcVars, icVars, hdrVars, scanVars, outVars,
         apiVars, GlobalStates, Calls, Returns, Return
<1>1. CASE SourceError
  <2>1. frame' \in [prog : BOOLEAN, num : Nat, val : Nat]
    <3>1. CASE unread
      BY <1>1, <3>1, CurInSegment DEF SourceError, Segment
    <3>2. CASE ~unread
      BY <1>1, <3>2 DEF SourceError
    <3>. QED BY <3>1, <3>2
  <2>. QED BY <1>1, <2>1 DEF SourceError
<1>2. CASE EndOfSource
  BY <1>2 DEF EndOfSource
<1>3. CASE FirstMarker
  <2>1. torn' \in BOOLEAN /\ unread' \in BOOLEAN /\ ApiTypeOK'
    BY <1>3 DEF FirstMarker
  <2>2. SrcTypeOK' /\ PendingInStream'
    BY <1>3, <2>1, SMTT(30) DEF FirstMarker
  <2>. QED BY <1>3, <2>1, <2>2, SMTT(30) DEF FirstMarker
<1>4. CASE NextMarker
  BY <1>4 DEF NextMarker
<1>5. CASE AtEOI
  <2>1. HdrTypeOK'
    <3>1. /\ compInfo' = compInfo \/ compInfo' = NilInfo
          /\ saved' \in Nat /\ UNCHANGED <<frame, qtab, ri>>
      BY <1>5 DEF AtEOI, Reset
    <3>. QED BY <3>1, NilInfoType
  <2>2. ScanTypeOK' /\ OutTypeOK' BY <1>5 DEF AtEOI, Reset, OutputPassSetup
  <2>3. ApiTypeOK' BY <1>5 DEF AtEOI
  <2>. QED BY <1>5, <2>1, <2>2, <2>3 DEF AtEOI
<1>6. CASE GetSOI
  <2>1. HdrTypeOK' BY <1>6 DEF GetSOI, ResetBySOI
  <2>2. SrcTypeOK' /\ PendingInStream' BY <1>6, ZenonT(60) DEF GetSOI
  <2>3. IcTypeOK'
    <3>1. sawSOI' = sawSOI \/ sawSOI' = TRUE
      BY <1>6 DEF GetSOI
    <3>2. UNCHANGED <<sawSOF, inheaders, eoi, multi>>
      BY <1>6 DEF GetSOI
    <3> QED BY <3>1, <3>2
  <2>4. ApiTypeOK'
    BY <1>6 DEF GetSOI
  <2>. QED BY <1>6, <2>1, <2>2, <2>3, <2>4 DEF GetSOI
<1>7. CASE GetSOF
  <2>1. Cur \in Segment /\ Cardinality(Cur.comps) \in Nat
    BY <1>7, CurInSegment DEF GetSOF, Handling
  <2>2. HdrTypeOK'
    BY <1>7, <2>1 DEF GetSOF, Segment
  <2>3. SrcTypeOK' /\ PendingInStream' BY <1>7 DEF GetSOF
  <2>4. IcTypeOK'
    <3>1. \/ sawSOF' = sawSOF \/ sawSOF' = TRUE
      BY <1>7 DEF GetSOF
    <3>2. UNCHANGED <<sawSOI, inheaders, eoi, multi>>
      BY <1>7 DEF GetSOF
    <3> QED BY <3>1, <3>2
  <2>5. ApiTypeOK'
    BY <1>7 DEF GetSOF
  <2>. QED BY <1>7, <2>2, <2>3, <2>4, <2>5 DEF GetSOF
<1>8. CASE UnsupportedSOF
  BY <1>8 DEF UnsupportedSOF
<1>9. CASE GetSOS
  <2>1. Cur \in Segment
    BY <1>9, CurInSegment DEF GetSOS, Handling
  <2>2. ScanTypeOK'
    BY <1>9, <2>1 DEF GetSOS, Segment
  <2>3. HdrTypeOK'
    BY <1>9, LatchType DEF GetSOS, FirstSOS, LaterSOS
  <2>4. OutTypeOK' /\ ApiTypeOK'
    <3>1. ReturnSOS => OutTypeOK' /\ ApiTypeOK'
      BY DEF ReturnSOS
    <3>2. \A r \in {"frame", "format"} :
            Return(r) /\ UNCHANGED outVars => OutTypeOK' /\ ApiTypeOK'
      OBVIOUS
    <3>3. UNCHANGED <<outVars, apiVars>> => OutTypeOK' /\ ApiTypeOK'
      OBVIOUS
    <3>4. CASE FirstSOS
      <4>1. \/ Return("frame") /\ UNCHANGED outVars
            \/ UNCHANGED <<outVars, apiVars>>
            \/ ReturnSOS
        BY <3>4 DEF FirstSOS
      <4> QED BY <3>1, <3>2, <3>3, <4>1
    <3>5. CASE LaterSOS
      <4>1. \/ Return("format") /\ UNCHANGED outVars
            \/ UNCHANGED <<outVars, apiVars>>
            \/ Return("frame") /\ UNCHANGED outVars
            \/ ReturnSOS
        BY <3>5 DEF LaterSOS
      <4> QED BY <3>1, <3>2, <3>3, <4>1
    <3> QED BY <1>9, <3>4, <3>5 DEF GetSOS
  <2>5. IcTypeOK'
    BY <1>9 DEF GetSOS, FirstSOS, LaterSOS
  <2>. QED BY <1>9, <2>2, <2>3, <2>4, <2>5 DEF GetSOS
<1>10. CASE RejectSOS
  BY <1>10, CurInSegment DEF RejectSOS, Handling, Segment
<1>11. CASE GetEOI
  <2>1. ScanTypeOK'
    BY <1>11, MinOfTwo DEF GetEOI
  <2>2. IcTypeOK' /\ ApiTypeOK'
    BY <1>11, SMTT(30) DEF GetEOI
  <2>. QED BY <1>11, <2>1, <2>2 DEF GetEOI
<1>12. CASE GetSegment
  <2>1. Cur \in Segment
    BY <1>12, CurInSegment DEF GetSegment, Handling
  <2>2. HdrTypeOK'
    BY <1>12, <2>1 DEF GetSegment, Segment
  <2>3. SrcTypeOK' /\ PendingInStream' /\ ApiTypeOK'
    BY <1>12 DEF GetSegment
  <2>. QED BY <1>12, <2>2, <2>3, SMTT(30) DEF GetSegment
<1>13. CASE SourceErrorInside
  <2>1. ScanTypeOK' /\ HdrTypeOK'
    <3>1. CASE unread
      <4>1. Cur \in Segment /\ Cardinality(Cur.comps) \in Nat
        BY <3>1, CurInSegment
      <4>2. /\ frame' \in [prog : BOOLEAN, num : Nat, val : Nat]
            /\ DOMAIN compInfo' \subseteq Comp
            /\ compInfo' \in [DOMAIN compInfo' -> Tables \cup {NoTable}]
        <5>1. CASE Cur.m = "SOF"
          BY <1>13, <3>1, <4>1, <5>1 DEF SourceErrorInside, PartialSOF, Segment
        <5>2. CASE Cur.m # "SOF"
          BY <1>13, <3>1, <5>2 DEF SourceErrorInside
        <5>. QED BY <5>1, <5>2
      <4>3. scan' \in SUBSET Comp /\ saved' \in Nat /\ UNCHANGED <<qtab, ri, inScan, outScan>>
        BY <1>13, <3>1, <4>1 DEF SourceErrorInside, Segment
      <4>. QED BY <4>2, <4>3
    <3>2. CASE ~unread
      BY <1>13, <3>2 DEF SourceErrorInside
    <3>. QED BY <3>1, <3>2
  <2>2. SrcTypeOK' /\ PendingInStream' /\ IcTypeOK' /\ OutTypeOK' /\ ApiTypeOK'
    BY <1>13 DEF SourceErrorInside
  <2>. QED BY <2>1, <2>2
<1>. QED BY <1>1, <1>2, <1>3, <1>4, <1>5, <1>6, <1>7, <1>8, <1>9, <1>10, <1>11, <1>12, <1>13
         DEF CallStep, Failure

(* So do the client's calls.                                                *)
LEMMA TypeClient == TypeInv /\ Client => TypeInv'
<1>. SUFFICES ASSUME TypeInv, Client PROVE TypeInv'
  OBVIOUS
<1>. USE LenType DEF TypeInv, TypeOK, PendingInStream, SrcTypeOK, IcTypeOK, HdrTypeOK,
         ScanTypeOK, OutTypeOK, ApiTypeOK, srcVars, icVars, hdrVars, scanVars, outVars,
         apiVars, GlobalStates, Calls, Returns, Return
<1>1. ASSUME NEW c \in {"header", "requireImage", "consume"}, EnterConsume(c)
      PROVE  TypeInv'
  <2>1. HdrTypeOK'
    <3>1. compInfo' = compInfo \/ compInfo' = NilInfo
      BY <1>1 DEF EnterConsume, ResetInputController
    <3>. QED BY <1>1, <3>1, NilInfoType DEF EnterConsume
  <2>2. SrcTypeOK' /\ PendingInStream' /\ ApiTypeOK'
    BY <1>1 DEF EnterConsume, ResetInputController
  <2>3. IcTypeOK'
    BY <1>1 DEF EnterConsume, ResetInputController
  <2>5. ScanTypeOK'
    BY <1>1 DEF EnterConsume, ResetInputController
  <2>4. OutTypeOK'
    BY <1>1 DEF EnterConsume
  <2>. QED BY <2>1, <2>2, <2>3, <2>4, <2>5
<1>2. ASSUME BadState PROVE TypeInv'
  BY <1>2 DEF BadState
<1>3. CASE ReadHeader
  BY <1>1, <1>2, <1>3 DEF ReadHeader
<1>4. CASE ConsumeInput
  <2>1. CASE gs = "ready"
    BY <1>4, <2>1 DEF ConsumeInput
  <2>2. CASE gs # "ready"
    BY <1>1, <1>4, <2>2 DEF ConsumeInput
  <2>. QED BY <2>1, <2>2
<1>5. CASE SetParameters
  BY <1>5 DEF SetParameters
<1>6. CASE StartInputPass
  <2>1. HdrTypeOK'
    BY <1>6, LatchType DEF StartInputPass
  <2>. QED BY <1>6, <2>1 DEF StartInputPass
<1>7. CASE StartDecompress
  <2>1. ScanTypeOK' /\ OutTypeOK' /\ ApiTypeOK'
    BY <1>7, SMTT(30) DEF StartDecompress, BadState, OutputPassSetup
  <2>. QED BY <1>7, <2>1, SMTT(30) DEF StartDecompress, BadState
<1>8. CASE \E n \in 1..Height : ReadLines(n)
  <2>. PICK n \in 1..Height : ReadLines(n)
    BY <1>8
  <2>1. line + n \in Nat /\ Height \in Nat
    BY ConstantsAssumption
  <2>2. Min({line + n, Height}) \in {line + n, Height}
    BY ONLY <2>1, MinOfTwo
  <2>3. line' \in Nat
    BY <2>1, <2>2 DEF ReadLines, BadState
  <2>. QED BY <2>3 DEF ReadLines, BadState
<1>9. CASE FinishDecompress
  <2>1. OutTypeOK' /\ ApiTypeOK'
    BY <1>9 DEF FinishDecompress, ReadUntilEOI
  <2>2. HdrTypeOK'
    BY <1>9 DEF FinishDecompress, ReadUntilEOI
  <2>. QED BY <1>9, <2>1, <2>2 DEF FinishDecompress
<1>10. CASE Abort
  <2>1. HdrTypeOK'
    BY <1>10, NilInfoType DEF Abort, ResetInputController
  <2>2. SrcTypeOK' /\ PendingInStream'
    BY <1>10 DEF Abort, ResetInputController
  <2>3. ApiTypeOK' /\ IcTypeOK' /\ ScanTypeOK' /\ OutTypeOK'
    BY <1>10 DEF Abort, ResetInputController
  <2>. QED BY <2>1, <2>2, <2>3
<1>. QED BY <1>3, <1>4, <1>5, <1>6, <1>7, <1>8, <1>9, <1>10 DEF Client

LEMMA TypeStep == TypeInv /\ [Next]_vars => TypeInv'
<1>1. TypeInv /\ UNCHANGED vars => TypeInv'
  BY DEF TypeInv, TypeOK, PendingInStream, SrcTypeOK, IcTypeOK, HdrTypeOK, ScanTypeOK,
         OutTypeOK, ApiTypeOK, vars, srcVars, icVars, hdrVars, scanVars, outVars, apiVars
<1>. QED BY <1>1, TypeCallStep, TypeClient DEF Next

(* Every reachable state is of the right type.                              *)
THEOREM TypeCorrect == Spec => []TypeOK
<1>1. TypeInv => TypeOK
  BY DEF TypeInv
<1>. QED BY <1>1, TypeInit, TypeStep, PTL DEF Spec

-----------------------------------------------------------------------------
(* Which call is in progress, and how far the header has come.              *)
LEMMA PhaseStep ==
  ASSUME TypeInv, CallPhase, HeaderDone, [Next]_vars
  PROVE  CallPhase' /\ HeaderDone'
<1>. USE DEF CallPhase, HeaderDone, srcVars, icVars, hdrVars, scanVars, outVars, apiVars,
             Return, Reading, Handling, BadState
<1>1. CASE Failure \/ EndOfSource \/ FirstMarker \/ NextMarker \/ UnsupportedSOF
           \/ RejectSOS \/ GetSegment
  BY <1>1 DEF Failure, SourceError, SourceErrorInside, EndOfSource, FirstMarker, NextMarker, UnsupportedSOF, RejectSOS,
              GetSegment
<1>2. CASE GetSOI \/ GetSOF \/ GetEOI
  BY <1>2 DEF GetSOI, GetSOF, GetEOI
<1>3. CASE GetSOS
  BY <1>3 DEF GetSOS, SOSAccepted, FirstSOS, LaterSOS, ReturnSOS
<1>4. CASE AtEOI
  BY <1>4 DEF AtEOI, Reset, OutputPassSetup
<1>5. CASE ReadHeader \/ ConsumeInput
  BY <1>5 DEF ReadHeader, ConsumeInput, EnterConsume, ResetInputController, Idle
<1>6. CASE SetParameters \/ StartInputPass \/ \E n \in 1..Height : ReadLines(n)
  BY <1>6 DEF SetParameters, StartInputPass, ReadLines, Idle
<1>7. CASE StartDecompress
  BY <1>7 DEF StartDecompress, OutputPassSetup, Idle
<1>8. CASE FinishDecompress \/ Abort
  BY <1>8 DEF FinishDecompress, ReadUntilEOI, Abort, ResetInputController, Idle
<1>9. CASE UNCHANGED vars
  BY <1>9 DEF vars
<1>. QED BY <1>1, <1>2, <1>3, <1>4, <1>5, <1>6, <1>7, <1>8, <1>9 DEF Next, CallStep, Client

(* The EOI is the last thing read, and an image at rest has reached it.     *)
LEMMA EndStep ==
  ASSUME TypeInv, CallPhase, AtEnd, Rested, [Next]_vars
  PROVE  AtEnd' /\ Rested'
<1>. USE DEF CallPhase, AtEnd, Rested, Cur, srcVars, icVars, hdrVars, scanVars, outVars,
             apiVars, Return, Reading, Handling, BadState
<1>1. CASE Failure \/ EndOfSource \/ FirstMarker \/ NextMarker \/ UnsupportedSOF
           \/ RejectSOS \/ GetSegment
  BY <1>1 DEF Failure, SourceError, SourceErrorInside, EndOfSource, FirstMarker, NextMarker, UnsupportedSOF, RejectSOS,
              GetSegment
<1>2. CASE GetSOI \/ GetSOF
  <2>1. gs # "start"
    BY <1>2 DEF GetSOI, GetSOF, TypeInv, TypeOK, ApiTypeOK, Calls
  <2>. QED BY <1>2, <2>1 DEF GetSOI, GetSOF
<1>3. CASE GetEOI
  <2>1. pos >= 1
    BY <1>3 DEF GetEOI, TypeInv, PendingInStream
  <2>. QED BY <1>3, <2>1 DEF GetEOI
<1>4. CASE GetSOS
  BY <1>4 DEF GetSOS, FirstSOS, LaterSOS, ReturnSOS
<1>5. CASE AtEOI
  BY <1>5 DEF AtEOI, Reset, OutputPassSetup
<1>6. CASE ReadHeader \/ ConsumeInput
  BY <1>6 DEF ReadHeader, ConsumeInput, EnterConsume, ResetInputController, Idle
<1>7. CASE SetParameters \/ StartInputPass \/ \E n \in 1..Height : ReadLines(n)
  BY <1>7 DEF SetParameters, StartInputPass, ReadLines, Idle
<1>8. CASE StartDecompress
  BY <1>8 DEF StartDecompress, OutputPassSetup, Idle
<1>9. CASE FinishDecompress \/ Abort
  BY <1>9 DEF FinishDecompress, ReadUntilEOI, Abort, ResetInputController, Idle
<1>10. CASE UNCHANGED vars
  BY <1>10 DEF vars
<1>. QED BY <1>1, <1>2, <1>3, <1>4, <1>5, <1>6, <1>7, <1>8, <1>9, <1>10
         DEF Next, CallStep, Client

(* The component array follows the frame, the scan follows the array.       *)
LEMMA FrameStep ==
  ASSUME TypeInv, CallPhase, HeaderDone, FrameAllocated, ScanInFrame, [Next]_vars
  PROVE  FrameAllocated' /\ ScanInFrame'
<1>. USE DEF CallPhase, HeaderDone, FrameAllocated, ScanInFrame, srcVars, icVars, hdrVars,
             scanVars, outVars, apiVars, Return, Reading, Handling, BadState
<1>0. HdrTypeOK
  BY DEF TypeInv, TypeOK
<1>1. CASE SourceError \/ EndOfSource \/ FirstMarker \/ NextMarker \/ UnsupportedSOF
           \/ RejectSOS \/ GetSegment
  <2>1. frame'.num = frame.num /\ UNCHANGED <<compInfo, sawSOF, gs>> /\ (torn => torn')
    BY <1>0, <1>1 DEF SourceError, EndOfSource, FirstMarker, NextMarker, UnsupportedSOF,
                 RejectSOS, GetSegment, HdrTypeOK
  <2>2. scan' = scan \/ torn' \/ gs \in {"start", "inheader"}
    BY <1>1 DEF SourceError, EndOfSource, FirstMarker, NextMarker, UnsupportedSOF, RejectSOS,
                GetSegment
  <2>. QED BY <2>1, <2>2
<1>2. CASE GetSOI \/ GetEOI
  BY <1>2 DEF GetSOI, GetEOI
<1>3. CASE GetSOF
  BY <1>3 DEF GetSOF
<1>4. CASE GetSOS
  <2>1. DOMAIN compInfo' = DOMAIN compInfo /\ scan' \subseteq DOMAIN compInfo
    BY <1>0, <1>4, LatchType DEF GetSOS, SOSAccepted, FirstSOS, LaterSOS
  <2>. QED BY <1>4, <2>1 DEF GetSOS, SOSAccepted, FirstSOS, LaterSOS, ReturnSOS
<1>5. CASE AtEOI
  BY <1>5 DEF AtEOI, Reset, OutputPassSetup
<1>6. CASE ReadHeader \/ ConsumeInput
  BY <1>6 DEF ReadHeader, ConsumeInput, EnterConsume, ResetInputController, Idle
<1>7. CASE SetParameters \/ \E n \in 1..Height : ReadLines(n)
  BY <1>7 DEF SetParameters, ReadLines, Idle
<1>8. CASE StartInputPass
  <2>1. DOMAIN compInfo' = DOMAIN compInfo
    BY <1>0, <1>8, LatchType DEF StartInputPass
  <2>. QED BY <1>8, <2>1 DEF StartInputPass
<1>9. CASE StartDecompress
  BY <1>9 DEF StartDecompress, OutputPassSetup, Idle
<1>10. CASE FinishDecompress \/ Abort
  BY <1>10 DEF FinishDecompress, ReadUntilEOI, Abort, ResetInputController, Idle
<1>11. CASE UNCHANGED vars
  BY <1>11 DEF vars
<1>12. CASE SourceErrorInside
  BY <1>12 DEF SourceErrorInside
<1>. QED BY <1>1, <1>2, <1>3, <1>4, <1>5, <1>6, <1>7, <1>8, <1>9, <1>10, <1>11, <1>12
         DEF Next, CallStep, Failure, Client

(* A pass of a multi-scan image starts complete and stays so.               *)
LEMMA AbsorbStep ==
  ASSUME TypeInv, CallPhase, HeaderDone, MultiScanAbsorbed, [Next]_vars
  PROVE  MultiScanAbsorbed'
<1>. USE DEF CallPhase, HeaderDone, MultiScanAbsorbed, srcVars, icVars, hdrVars, scanVars,
             outVars, apiVars, Return, Reading, Handling, BadState
<1>1. CASE Failure \/ EndOfSource \/ FirstMarker \/ NextMarker \/ UnsupportedSOF
           \/ RejectSOS \/ GetSegment
  BY <1>1 DEF Failure, SourceError, SourceErrorInside, EndOfSource, FirstMarker, NextMarker, UnsupportedSOF, RejectSOS,
              GetSegment
<1>2. CASE GetSOI \/ GetSOF \/ GetEOI
  BY <1>2 DEF GetSOI, GetSOF, GetEOI
<1>3. CASE GetSOS
  BY <1>3 DEF GetSOS, FirstSOS, LaterSOS, ReturnSOS
<1>4. CASE AtEOI
  BY <1>4 DEF AtEOI, Reset, OutputPassSetup
<1>5. CASE ReadHeader \/ ConsumeInput
  BY <1>5 DEF ReadHeader, ConsumeInput, EnterConsume, ResetInputController, Idle
<1>6. CASE SetParameters \/ StartInputPass \/ \E n \in 1..Height : ReadLines(n)
  BY <1>6 DEF SetParameters, StartInputPass, ReadLines, Idle
<1>7. CASE StartDecompress
  <2>1. UNCHANGED icVars
    BY <1>7 DEF StartDecompress, OutputPassSetup
  <2>2. CASE gs' \in {"scanning", "rawok"} /\ multi
    BY <1>7, <2>1, <2>2 DEF StartDecompress, AbsorbScans
  <2>. QED BY <2>1, <2>2
<1>8. CASE FinishDecompress \/ Abort
  BY <1>8 DEF FinishDecompress, ReadUntilEOI, Abort, ResetInputController, Idle
<1>9. CASE UNCHANGED vars
  BY <1>9 DEF vars
<1>. QED BY <1>1, <1>2, <1>3, <1>4, <1>5, <1>6, <1>7, <1>8, <1>9 DEF Next, CallStep, Client

-----------------------------------------------------------------------------
LEMMA IInvInit == Init => IInv
BY TypeInit DEF Init, IInv, CallPhase, HeaderDone, AtEnd, Rested, FrameAllocated, ScanInFrame,
                MultiScanAbsorbed

LEMMA IInvStep == IInv /\ [Next]_vars => IInv'
BY TypeStep, PhaseStep, EndStep, FrameStep, AbsorbStep DEF IInv

THEOREM Inductive == Spec => []IInv
BY IInvInit, IInvStep, PTL DEF Spec

(* From Ready on, NumComponents and the component indices of the current    *)
(* scan agree with the component array, on every datastream.                *)
THEOREM ComponentsMatchHolds == Spec => []ComponentsMatch
<1>1. IInv => ComponentsMatch
  BY DEF IInv, HeaderDone, FrameAllocated, ScanInFrame, ComponentsMatch
<1>. QED BY <1>1, Inductive, PTL

(* No line of a multi-scan image is delivered before all its scans are read.*)
THEOREM MultiScanAbsorbedHolds == Spec => []MultiScanAbsorbed
<1>1. IInv => MultiScanAbsorbed
  BY DEF IInv
<1>. QED BY <1>1, Inductive, PTL

(* A decompressor at rest between images stands behind an EOI.              *)
THEOREM NextImageAlignedHolds == Spec => []NextImageAligned
<1>1. IInv => NextImageAligned
  BY DEF IInv, AtEnd, Rested, NextImageAligned, Cur
<1>. QED BY <1>1, Inductive, PTL

-----------------------------------------------------------------------------
(* The decompressor implements DecompressProtocol.                          *)
LEMMA RefineInit == Init => Protocol!Init
BY ConstantsAssumption DEF Init, Protocol!Init, Phase, Delivered, Scans

(* What a call does by itself is input, a pass that starts, or the end of   *)
(* the image.                                                               *)
LEMMA RefineCallStep ==
  ASSUME IInv, CallStep \/ Failure
  PROVE  Protocol!Next \/ UNCHANGED Protocol!vars
<1>. USE DEF Phase, Delivered, Scans, Protocol!vars, srcVars, icVars, hdrVars, scanVars,
             outVars, apiVars, Return, Reading, Handling
<1>0. /\ call # "none" => gs # "start"
      /\ gs \in GlobalStates /\ line \in Nat /\ Height \in Nat
      /\ eoi \in BOOLEAN /\ multi \in BOOLEAN
  BY ConstantsAssumption DEF IInv, CallPhase, TypeInv, TypeOK, ApiTypeOK, OutTypeOK, IcTypeOK, Calls
<1>1. CASE Failure \/ EndOfSource \/ FirstMarker \/ NextMarker \/ UnsupportedSOF
           \/ RejectSOS \/ GetSegment \/ GetSOI \/ GetSOF
  <2>1. UNCHANGED <<gs, line, multi, eoi>>
    BY <1>1 DEF Failure, SourceError, SourceErrorInside, EndOfSource, FirstMarker, NextMarker, UnsupportedSOF, RejectSOS,
                GetSegment, GetSOI, GetSOF
  <2>. QED BY <2>1
<1>2. CASE GetEOI
  <2>1. Protocol!Consume
    BY <1>0, <1>2 DEF GetEOI, Protocol!Consume, GlobalStates
  <2>. QED BY <2>1 DEF Protocol!Next
<1>3. CASE GetSOS
  <2>1. CASE gs' = "ready" /\ gs = "inheader"
    <3>1. Protocol!HeaderRead
      BY <1>3, <2>1 DEF GetSOS, FirstSOS, LaterSOS, ReturnSOS, Protocol!HeaderRead
    <3>. QED BY <3>1 DEF Protocol!Next
  <2>2. CASE gs' = gs
    <3>1. gs = "inheader" \/ UNCHANGED multi
      BY <1>0, <1>3, <2>2 DEF GetSOS, FirstSOS, LaterSOS, ReturnSOS, IInv, HeaderDone
    <3>2. Protocol!Consume
      BY <1>0, <1>3, <2>2, <3>1 DEF GetSOS, FirstSOS, LaterSOS, ReturnSOS, Protocol!Consume,
         GlobalStates
    <3>. QED BY <3>2 DEF Protocol!Next
  <2>. QED BY <1>3, <2>1, <2>2 DEF GetSOS, FirstSOS, LaterSOS, ReturnSOS
<1>4. CASE AtEOI
  <2>1. CASE call = "header"
    <3>1. Protocol!TablesOnly
      BY <1>4, <2>1 DEF AtEOI, Reset, Protocol!TablesOnly, IInv, CallPhase
    <3>. QED BY <3>1 DEF Protocol!Next
  <2>2. CASE call = "start"
    <3>1. Protocol!StartOutput
      BY <1>0, <1>4, <2>2 DEF AtEOI, OutputPassSetup, Protocol!StartOutput, IInv, CallPhase
    <3>. QED BY <3>1 DEF Protocol!Next
  <2>3. CASE call = "finish"
    <3>1. Protocol!Finish
      BY <1>4, <2>3 DEF AtEOI, Reset, Protocol!Finish, IInv, CallPhase
    <3>. QED BY <3>1 DEF Protocol!Next
  <2>4. CASE call \in {"requireImage", "consume"}
    BY <1>4, <2>4 DEF AtEOI
  <2>. QED BY <1>4, <2>1, <2>2, <2>3, <2>4 DEF AtEOI
<1>. QED BY <1>1, <1>2, <1>3, <1>4 DEF CallStep

(* Each call of the client is a step of the protocol or changes nothing the *)
(* protocol shows.                                                          *)
LEMMA RefineClient ==
  ASSUME IInv, Client
  PROVE  Protocol!Next \/ UNCHANGED Protocol!vars
<1>. USE DEF Phase, Delivered, Scans, Protocol!vars, srcVars, icVars, hdrVars, scanVars,
             outVars, apiVars, Return, BadState
<1>0. /\ gs \in GlobalStates /\ line \in Nat /\ Height \in Nat
      /\ eoi \in BOOLEAN /\ multi \in BOOLEAN
  BY ConstantsAssumption DEF IInv, TypeInv, TypeOK, OutTypeOK, IcTypeOK
<1>1. CASE ReadHeader \/ ConsumeInput
  <2>1. CASE gs = "start"
    <3>1. Protocol!Begin
      BY <1>1, <2>1 DEF ReadHeader, ConsumeInput, EnterConsume, ResetInputController,
                        Protocol!Begin
    <3>. QED BY <3>1 DEF Protocol!Next
  <2>2. CASE gs # "start"
    <3>1. UNCHANGED <<gs, line, multi, eoi>>
      BY <1>1, <2>2 DEF ReadHeader, ConsumeInput, EnterConsume
    <3>. QED BY <3>1
  <2>. QED BY <2>1, <2>2
<1>2. CASE SetParameters \/ StartInputPass
  <2>1. UNCHANGED <<gs, line, multi, eoi>>
    BY <1>2 DEF SetParameters, StartInputPass
  <2>. QED BY <2>1
<1>3. CASE StartDecompress
  <2>1. CASE gs' = "bufimage" /\ gs = "ready"
    <3>1. Protocol!StartPasses
      BY <1>3, <2>1 DEF StartDecompress, OutputPassSetup, Protocol!StartPasses
    <3>. QED BY <3>1 DEF Protocol!Next
  <2>2. CASE gs' = "preload" /\ gs = "ready"
    <3>1. Protocol!Load
      BY <1>3, <2>2 DEF StartDecompress, OutputPassSetup, AbsorbScans, Protocol!Load
    <3>. QED BY <3>1 DEF Protocol!Next
  <2>3. CASE gs' \in {"scanning", "rawok"} /\ gs \in {"ready", "preload"}
    <3>1. Protocol!StartOutput
      BY <1>0, <1>3, <2>3 DEF StartDecompress, OutputPassSetup, AbsorbScans,
                              Protocol!StartOutput
    <3>. QED BY <3>1 DEF Protocol!Next
  <2>4. CASE UNCHANGED <<gs, line, multi, eoi>>
    BY <2>4
  <2>. QED BY <1>3, <2>1, <2>2, <2>3, <2>4 DEF StartDecompress, OutputPassSetup
<1>4. CASE \E n \in 1..Height : ReadLines(n)
  <2>. PICK n \in 1..Height : ReadLines(n)
    BY <1>4
  <2>1. line + n \in Int /\ Height \in Int
    BY <1>0
  <2>2. Min({line + n, Height}) = IF line + n <= Height THEN line + n ELSE Height
    BY ONLY <2>1, MinOfTwo
  <2>3. UNCHANGED <<gs, multi, eoi>>
    BY DEF ReadLines
  <2>4. CASE line < Height /\ gs \in {"scanning", "rawok"}
    <3>1. line' \in Int /\ line' > line
      BY <1>0, <2>2, <2>4 DEF ReadLines
    <3>3. Delivered = line
      BY <1>0, <2>4
    <3>4. Delivered' = IF line' > Height THEN Height ELSE line'
      OBVIOUS
    <3>2. Protocol!Deliver
      BY <1>0, <2>3, <2>4, <3>1, <3>3, <3>4 DEF Protocol!Deliver
    <3>. QED BY <3>2 DEF Protocol!Next
  <2>5. CASE ~(line < Height /\ gs \in {"scanning", "rawok"})
    <3>1. UNCHANGED line
      BY <1>0, <2>5 DEF ReadLines
    <3>. QED BY <2>3, <3>1
  <2>. QED BY <2>4, <2>5
<1>5. CASE FinishDecompress
  <2>1. UNCHANGED <<line, multi, eoi>>
    BY <1>5 DEF FinishDecompress
  <2>2. CASE UNCHANGED gs
    BY <2>1, <2>2
  <2>3. CASE gs' = "stopping" /\ gs # "stopping"
    <3>1. Protocol!Drain
      BY <1>0, <1>5, <2>1, <2>3 DEF FinishDecompress, PassComplete, ReadUntilEOI, Protocol!Drain
    <3>. QED BY <3>1 DEF Protocol!Next
  <2>. QED BY <1>5, <2>2, <2>3 DEF FinishDecompress, ReadUntilEOI
<1>6. CASE Abort
  <2>1. Protocol!Abort
    BY <1>0, <1>6 DEF Abort, ResetInputController, Protocol!Abort
  <2>. QED BY <2>1 DEF Protocol!Next
<1>. QED BY <1>1, <1>2, <1>3, <1>4, <1>5, <1>6 DEF Client

(* For every datastream, and wherever its source fails, the client sees the *)
(* phases of DecompressProtocol in their order: no line before a multi-scan *)
(* image is complete, no drain before the last line, no rest before the EOI.*)
THEOREM ImplementsProtocol == Spec => ProtocolSpec
<1>1. IInv /\ [Next]_vars => [Protocol!Next]_(Protocol!vars)
  <2>1. UNCHANGED vars => UNCHANGED Protocol!vars
    BY DEF vars, srcVars, icVars, outVars, Protocol!vars, Phase, Delivered, Scans
  <2>. QED BY <2>1, RefineCallStep, RefineClient DEF Next
<1>. QED BY <1>1, RefineInit, Inductive, PTL DEF Spec, ProtocolSpec, Protocol!Spec
=============================================================================
