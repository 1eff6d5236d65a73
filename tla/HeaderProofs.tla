---------------------------- MODULE HeaderProofs ----------------------------
(***************************************************************************)
(* Proofs that the header state of Decompressor is that of the segments    *)
(* handled and that a component keeps the table of its first scan, for     *)
(* every datastream, set of components and tables.                         *)
(***************************************************************************)
EXTENDS DecompressorProofs

(* Before the SOI nothing but it is ever collected, and there is one from   *)
(* then on.                                                                 *)
SOIFirst == unread /\ ~sawSOI => Cur.m = "SOI"
Started  == sawSOI => \E i \in Seen : stream[i].m = "SOI"

(* What an image begins with.                                               *)
Fresh == /\ ~sawSOI => saved = 0 /\ inScan = 0 /\ DOMAIN compInfo = {}
         /\ gs = "start" => saved = 0 /\ DOMAIN compInfo = {} /\ ~unread

(* The inductive invariant for HeaderReflectsStream.                        *)
HInv == IInv /\ SOIFirst /\ Started /\ Fresh /\ HeaderReflectsStream

-----------------------------------------------------------------------------
(* What was handled is a finite set of positions.                           *)
LEMMA OfType ==
  ASSUME SrcTypeOK, NEW m
  PROVE  /\ Of(m) \in SUBSET Int /\ \A i \in Of(m) : i \in 1..pos
         /\ IsFiniteSet(Of(m)) /\ Cardinality(Of(m)) \in Nat
<1>1. Of(m) \subseteq 1..pos
  BY DEF Of, Handled, Seen
<1>2. IsFiniteSet(1..pos)
  BY FS_Interval DEF SrcTypeOK
<1>3. IsFiniteSet(Of(m))
  BY <1>1, <1>2, FS_Subset
<1>. QED BY <1>1, <1>3, FS_CardinalityType DEF SrcTypeOK

(* A step that handles nothing.                                             *)
LEMMA SameHandled ==
  ASSUME UNCHANGED stream, Seen' = Seen
  PROVE  Handled' = Handled /\ \A m : Of(m)' = Of(m)
BY DEF Handled, Of

(* A step that handles the segment at p, other than an SOI.                 *)
LEMMA OneMore ==
  ASSUME SrcTypeOK, UNCHANGED stream, NEW p \in Nat, p \notin Seen, Seen' = Seen \cup {p},
         \A i \in Seen : i < p, stream[p].m # "SOI"
  PROVE  /\ Handled' = Handled \cup {p} /\ p \notin Handled
         /\ \A m : Of(m)' = IF stream[p].m = m THEN Of(m) \cup {p} ELSE Of(m)
         /\ \A m : p \notin Of(m) /\ \A i \in Of(m) : i < p
<1>1. \A i \in Seen : i \in Nat
  BY DEF Seen
<1>2. Handled' = Handled \cup {p}
  BY <1>1 DEF Handled
<1>3. p \notin Handled /\ \A i \in Handled : i < p
  BY DEF Handled
<1>. QED BY <1>2, <1>3 DEF Of

(* A step that handles an SOI.                                              *)
LEMMA NewImage ==
  ASSUME SrcTypeOK, UNCHANGED stream, NEW p \in Nat, p \notin Seen, Seen' = Seen \cup {p},
         \A i \in Seen : i < p, stream[p].m = "SOI"
  PROVE  Handled' = {p} /\ \A m : m # "SOI" => Of(m)' = {}
<1>1. \A i \in Seen : i \in Nat /\ ~(p <= i)
  BY DEF Seen
<1>2. Handled' = {p}
  BY <1>1 DEF Handled
<1>. QED BY <1>2 DEF Of

(* The handlers: what they add to Seen.                                     *)
LEMMA HandlerSees ==
  ASSUME TypeInv, unread, ~unread', UNCHANGED <<stream, pos>>
  PROVE  /\ pos \in Nat /\ pos \notin Seen /\ Seen' = Seen \cup {pos}
         /\ \A i \in Seen : i < pos
BY DEF TypeInv, TypeOK, SrcTypeOK, PendingInStream, Seen

LEMMA NothingSeen ==
  ASSUME TypeInv, UNCHANGED <<stream, pos, unread>>
  PROVE  Seen' = Seen
BY DEF Seen

(* Collecting a marker.                                                     *)
LEMMA MarkerSees ==
  ASSUME TypeInv, ~unread, pos' = pos + 1, UNCHANGED stream
  PROVE  /\ unread' => Seen' = Seen
         /\ ~unread' => /\ pos + 1 \in Nat /\ pos + 1 \notin Seen
                        /\ Seen' = Seen \cup {pos + 1} /\ \A i \in Seen : i < pos + 1
<1>1. pos \in Nat
  BY DEF TypeInv, TypeOK, SrcTypeOK
<1>2. unread' => Seen' = Seen
  BY <1>1 DEF Seen
<1>3. ~unread' => Seen' = Seen \cup {pos + 1}
  BY <1>1 DEF Seen
<1>4. \A i \in Seen : i \in Nat /\ i <= pos
  BY <1>1 DEF Seen
<1>. QED BY <1>1, <1>2, <1>3, <1>4

-----------------------------------------------------------------------------
LEMMA Called == CallPhase /\ TypeOK => (call # "none" => gs # "start")
BY DEF CallPhase, TypeOK, ApiTypeOK, Calls

(* Every image begins with its SOI and nothing left of the one before.      *)
LEMMA FreshStep ==
  ASSUME IInv, SOIFirst, Started, Fresh, [Next]_vars
  PROVE  SOIFirst' /\ Started' /\ Fresh'
<1>. USE DEF SOIFirst, Fresh, Cur, srcVars, icVars, hdrVars, scanVars, outVars, apiVars,
             Return, Reading, Handling, BadState
<1>0. TypeInv /\ (call # "none" => gs # "start")
  BY Called DEF IInv, TypeInv
<1>. USE DEF Started
<1>1. CASE SourceError \/ EndOfSource \/ UnsupportedSOF \/ RejectSOS
  <2>1. UNCHANGED <<stream, pos, unread, sawSOI, saved, inScan, compInfo, gs>>
    BY <1>1 DEF SourceError, EndOfSource, UnsupportedSOF, RejectSOS
  <2>. QED BY <1>0, <2>1, NothingSeen
<1>2. CASE FirstMarker
  BY <1>0, <1>2 DEF FirstMarker
<1>3. CASE NextMarker
  BY <1>0, <1>3, MarkerSees DEF NextMarker
<1>4. CASE GetSOI
  <2>1. CASE sawSOI
    BY <1>0, <1>4, <2>1, NothingSeen DEF GetSOI
  <2>2. CASE ~sawSOI
    <3>1. Seen' = Seen \cup {pos} /\ stream'[pos].m = "SOI" /\ pos' = pos
      BY <1>0, <1>4, <2>2, HandlerSees DEF GetSOI
    <3>. QED BY <1>0, <1>4, <2>2, <3>1 DEF GetSOI
  <2>. QED BY <2>1, <2>2
<1>5. CASE GetSOF \/ GetSegment \/ GetSOS \/ GetEOI
  <2>1. unread /\ Cur.m # "SOI" /\ UNCHANGED <<stream, pos, sawSOI>>
    BY <1>5 DEF GetSOF, GetSegment, GetSOS, GetEOI
  <2>5. gs' = gs \/ gs' = "ready"
    BY <1>5 DEF GetSOF, GetSegment, GetSOS, GetEOI, FirstSOS, LaterSOS, ReturnSOS
  <2>2. unread' = unread \/ ~unread'
    BY <1>5 DEF GetSOF, GetSegment, GetSOS, GetEOI
  <2>3. Seen \subseteq Seen'
    BY <2>1, <2>2 DEF Seen
  <2>4. gs' # "start"
    BY <1>0, <1>5, <2>5 DEF GetSOF, GetSegment, GetSOS, GetEOI
  <2>. QED BY <2>1, <2>3, <2>4
<1>6. CASE AtEOI
  <2>1. ~unread /\ UNCHANGED <<stream, pos, unread, sawSOI, inScan>>
    BY <1>6 DEF AtEOI, IInv, AtEnd
  <2>2. \/ UNCHANGED <<saved, compInfo, gs>>
        \/ UNCHANGED <<saved, compInfo>> /\ gs' # "start"
        \/ saved' = 0 /\ compInfo' = NilInfo
    BY <1>6 DEF AtEOI, Reset, OutputPassSetup
  <2>. QED BY <1>0, <2>1, <2>2, NothingSeen, NilInfoType
<1>7. CASE ReadHeader \/ ConsumeInput
  <2>1. CASE gs = "start"
    BY <1>7, <2>1, NilInfoType DEF ReadHeader, ConsumeInput, EnterConsume, ResetInputController
  <2>2. CASE gs # "start"
    <3>1. UNCHANGED <<stream, pos, unread, sawSOI, saved, inScan, compInfo, gs>>
      BY <1>7, <2>2 DEF ReadHeader, ConsumeInput, EnterConsume
    <3>. QED BY <1>0, <3>1, NothingSeen
  <2>. QED BY <2>1, <2>2
<1>8. CASE SetParameters \/ \E n \in 1..Height : ReadLines(n)
  <2>1. UNCHANGED <<stream, pos, unread, sawSOI, saved, inScan, compInfo, gs>>
    BY <1>8 DEF SetParameters, ReadLines
  <2>. QED BY <1>0, <2>1, NothingSeen
<1>9. CASE StartInputPass
  <2>1. DOMAIN compInfo' = DOMAIN compInfo
    BY <1>0, <1>9, LatchType DEF StartInputPass, TypeInv, TypeOK
  <2>2. UNCHANGED <<stream, pos, unread, sawSOI, saved, inScan, gs>>
    BY <1>9 DEF StartInputPass
  <2>. QED BY <1>0, <2>1, <2>2, NothingSeen
<1>10. CASE StartDecompress \/ FinishDecompress
  <2>1. UNCHANGED <<stream, pos, unread, sawSOI, saved, inScan, compInfo>> /\ (gs' = gs \/ gs' # "start")
    BY <1>10 DEF StartDecompress, OutputPassSetup, FinishDecompress, ReadUntilEOI
  <2>. QED BY <1>0, <2>1, NothingSeen
<1>11. CASE Abort
  BY <1>11, NilInfoType DEF Abort, ResetInputController
<1>12. CASE UNCHANGED vars
  <2>1. UNCHANGED <<stream, pos, unread, sawSOI, saved, inScan, compInfo, gs>>
    BY <1>12 DEF vars
  <2>. QED BY <1>0, <2>1, NothingSeen
<1>13. CASE SourceErrorInside
  <2>1. /\ UNCHANGED <<stream, pos, unread, sawSOI, inScan, gs>>
        /\ call # "none" /\ (~sawSOI => UNCHANGED <<saved, compInfo>>)
    BY <1>13 DEF SourceErrorInside
  <2>. QED BY <1>0, <2>1, NothingSeen
<1>. QED BY <1>1, <1>2, <1>3, <1>4, <1>5, <1>6, <1>7, <1>8, <1>9, <1>10, <1>11, <1>12, <1>13
         DEF Next, CallStep, Failure, Client

-----------------------------------------------------------------------------
LEMMA KeepHeader ==
  ASSUME HeaderReflectsStream, UNCHANGED <<stream, ri, inScan>>, Seen' = Seen,
         saved' = saved \/ gs' = "start", sawSOI' => sawSOI, ~torn' => ~torn,
         gs' # "start" => gs # "start"
  PROVE  HeaderReflectsStream'
<1>1. \A m : Of(m)' = Of(m)
  BY SameHandled
<1>2. Of("DRI")' = Of("DRI") /\ Of("SOS")' = Of("SOS") /\ Of("APP")' = Of("APP")
  BY <1>1
<1>. QED BY <1>2 DEF HeaderReflectsStream

(* Handling the segment at p does to the header what the segment says.      *)
LEMMA GrowHeader ==
  ASSUME TypeInv, HeaderReflectsStream, UNCHANGED <<stream, sawSOI>>, gs # "start",
         NEW p \in Nat, p \notin Seen, Seen' = Seen \cup {p}, \A i \in Seen : i < p,
         stream[p].m # "SOI", ~torn' => ~torn,
         ri' = IF stream[p].m = "DRI" THEN stream[p].val ELSE ri,
         inScan' = IF stream[p].m = "SOS" /\ stream[p].comps # {} THEN inScan + 1 ELSE inScan,
         saved' = IF stream[p].m = "APP" THEN saved + 1 ELSE saved
  PROVE  HeaderReflectsStream'
<1>. SUFFICES ASSUME sawSOI', ~torn' PROVE HeaderReflectsStream'
  BY DEF HeaderReflectsStream
<1>. DEFINE Scan == {i \in Of("SOS") : stream[i].comps # {}}
<1>0. SrcTypeOK
  BY DEF TypeInv, TypeOK
<1>1. /\ ri = IF Of("DRI") = {} THEN 0 ELSE stream[Max(Of("DRI"))].val
      /\ inScan = Cardinality(Scan) /\ saved = Cardinality(Of("APP"))
  BY DEF HeaderReflectsStream
<1>2. \A m : /\ Of(m)' = IF stream[p].m = m THEN Of(m) \cup {p} ELSE Of(m)
             /\ p \notin Of(m) /\ \A i \in Of(m) : i < p
  BY <1>0, OneMore
<1>3. ri' = IF Of("DRI")' = {} THEN 0 ELSE stream'[Max(Of("DRI"))'].val
  <2>1. CASE stream[p].m = "DRI"
    <3>1. Of("DRI")' = Of("DRI") \cup {p} /\ \A i \in Of("DRI") : i < p
      BY <1>2, <2>1
    <3>2. Of("DRI") \in SUBSET Int
      BY <1>0, OfType
    <3>3. (Of("DRI") \cup {p}) \in SUBSET Int /\ \A i \in Of("DRI") \cup {p} : i <= p
      BY <3>1, <3>2
    <3>4. Max(Of("DRI") \cup {p}) = p
      BY ONLY <3>3, MaxIs, p \in Nat
    <3>. QED BY <2>1, <3>1, <3>4
  <2>2. CASE stream[p].m # "DRI"
    <3>1. Of("DRI")' = Of("DRI")
      BY <1>2, <2>2
    <3>. QED BY <1>1, <2>2, <3>1
  <2>. QED BY <2>1, <2>2
<1>4. inScan' = Cardinality({i \in Of("SOS")' : stream'[i].comps # {}})
  <2>1. IsFiniteSet(Scan) /\ p \notin Scan
    <3>1. IsFiniteSet(Of("SOS")) /\ Scan \subseteq Of("SOS") /\ p \notin Of("SOS")
      BY <1>0, <1>2, OfType
    <3>. QED BY <3>1, FS_Subset
  <2>2. CASE stream[p].m = "SOS" /\ stream[p].comps # {}
    <3>1. {i \in Of("SOS")' : stream'[i].comps # {}} = Scan \cup {p}
      BY <1>2, <2>2
    <3>2. Cardinality(Scan \cup {p}) = Cardinality(Scan) + 1
      BY <2>1, FS_AddElement
    <3>. QED BY <1>1, <2>2, <3>1, <3>2
  <2>3. CASE ~(stream[p].m = "SOS" /\ stream[p].comps # {})
    <3>1. {i \in Of("SOS")' : stream'[i].comps # {}} = Scan
      BY <1>2, <2>3
    <3>. QED BY <1>1, <2>3, <3>1
  <2>. QED BY <2>2, <2>3
<1>5. saved' = Cardinality(Of("APP")')
  <2>1. CASE stream[p].m = "APP"
    <3>1. Of("APP")' = Of("APP") \cup {p} /\ p \notin Of("APP")
      BY <1>2, <2>1
    <3>2. IsFiniteSet(Of("APP"))
      BY <1>0, OfType
    <3>3. Cardinality(Of("APP") \cup {p}) = Cardinality(Of("APP")) + 1
      BY <3>1, <3>2, FS_AddElement
    <3>. QED BY <1>1, <2>1, <3>1, <3>3
  <2>2. CASE stream[p].m # "APP"
    <3>1. Of("APP")' = Of("APP")
      BY <1>2, <2>2
    <3>. QED BY <1>1, <2>2, <3>1
  <2>. QED BY <2>1, <2>2
<1>. QED BY <1>3, <1>4, <1>5 DEF HeaderReflectsStream

LEMMA HeaderStep ==
  ASSUME IInv, SOIFirst, Started, Fresh, HeaderReflectsStream, [Next]_vars
  PROVE  HeaderReflectsStream'
<1>. USE DEF SOIFirst, Cur, srcVars, icVars, hdrVars, scanVars, outVars, apiVars,
             Return, Reading, Handling, BadState
<1>0. TypeInv /\ (call # "none" => gs # "start")
  BY Called DEF IInv, TypeInv
<1>1. CASE SourceError \/ EndOfSource \/ UnsupportedSOF \/ RejectSOS
  <2>1. UNCHANGED <<stream, pos, unread, sawSOI, saved, inScan, ri, gs>> /\ (~torn' => ~torn)
    BY <1>1 DEF SourceError, EndOfSource, UnsupportedSOF, RejectSOS
  <2>. QED BY <1>0, <2>1, NothingSeen, KeepHeader
<1>2. CASE FirstMarker
  BY <1>2 DEF FirstMarker, HeaderReflectsStream
<1>3. CASE NextMarker
  <2>1. UNCHANGED <<stream, sawSOI, saved, inScan, ri, gs, torn>>
    BY <1>3 DEF NextMarker
  <2>2. CASE unread'
    <3>1. Seen' = Seen
      BY <1>0, <1>3, <2>2, MarkerSees DEF NextMarker
    <3>. QED BY <2>1, <3>1, KeepHeader
  <2>3. CASE ~unread'
    <3>1. /\ pos + 1 \in Nat /\ pos + 1 \notin Seen
          /\ Seen' = Seen \cup {pos + 1} /\ \A i \in Seen : i < pos + 1
      BY <1>0, <1>3, <2>3, MarkerSees DEF NextMarker
    <3>2. stream[pos + 1].m = "DATA" /\ gs # "start"
      BY <1>0, <1>3, <2>3 DEF NextMarker
    <3>. QED BY <1>0, <2>1, <3>1, <3>2, GrowHeader
  <2>. QED BY <2>2, <2>3, <1>3 DEF NextMarker
<1>4. CASE GetSOI
  <2>1. CASE sawSOI
    <3>1. UNCHANGED <<stream, pos, unread, sawSOI, saved, inScan, ri, gs, torn>>
      BY <1>4, <2>1 DEF GetSOI
    <3>. QED BY <1>0, <3>1, NothingSeen, KeepHeader
  <2>2. CASE ~sawSOI
    <3>1. /\ pos \in Nat /\ pos \notin Seen /\ Seen' = Seen \cup {pos}
          /\ \A i \in Seen : i < pos
      BY <1>0, <1>4, <2>2, HandlerSees DEF GetSOI
    <3>2. stream[pos].m = "SOI" /\ UNCHANGED stream
      BY <1>4 DEF GetSOI
    <3>3. Of("DRI")' = {} /\ Of("SOS")' = {} /\ Of("APP")' = {}
      BY <1>0, <3>1, <3>2, NewImage DEF TypeInv, TypeOK
    <3>4. ri' = 0 /\ inScan' = 0 /\ saved' = 0
      BY <1>4, <2>2 DEF GetSOI, ResetBySOI, Fresh
    <3>5. {i \in Of("SOS")' : stream'[i].comps # {}} = {}
      BY <3>3
    <3>. QED BY <3>3, <3>4, <3>5, FS_EmptySet DEF HeaderReflectsStream
  <2>. QED BY <2>1, <2>2
<1>5. CASE GetSOF \/ GetSegment \/ GetSOS \/ GetEOI
  <2>0. unread /\ call # "none" /\ UNCHANGED <<stream, pos, sawSOI>> /\ (~torn' => ~torn)
    BY <1>5 DEF GetSOF, GetSegment, GetSOS, GetEOI
  <2>1. CASE unread'
    <3>1. UNCHANGED <<saved, inScan, ri>>
      BY <1>5, <2>1 DEF GetSOF, GetSegment, GetSOS, GetEOI
    <3>. QED BY <1>0, <2>0, <2>1, <3>1, NothingSeen, KeepHeader DEF TypeInv, TypeOK, SrcTypeOK
  <2>2. CASE ~unread'
    <3>1. /\ pos \in Nat /\ pos \notin Seen /\ Seen' = Seen \cup {pos}
          /\ \A i \in Seen : i < pos
      BY <1>0, <2>0, <2>2, HandlerSees
    <3>2. CASE GetSOF \/ GetEOI
      <4>1. stream[pos].m \in {"SOF", "EOI"} /\ UNCHANGED <<saved, inScan, ri>>
        BY <3>2 DEF GetSOF, GetEOI
      <4>. QED BY <1>0, <2>0, <3>1, <4>1, GrowHeader
    <3>3. CASE GetSOS
      <4>1. /\ stream[pos].m = "SOS" /\ UNCHANGED <<saved, ri>>
            /\ inScan' = IF stream[pos].comps # {} THEN inScan + 1 ELSE inScan
        BY <3>3 DEF GetSOS
      <4>. QED BY <1>0, <2>0, <3>1, <4>1, GrowHeader
    <3>4. CASE GetSegment
      <4>1. /\ stream[pos].m \in {"DQT", "DRI", "APP", "MISC"} /\ UNCHANGED inScan
            /\ ri' = IF stream[pos].m = "DRI" THEN stream[pos].val ELSE ri
            /\ saved' = IF stream[pos].m = "APP" THEN saved + 1 ELSE saved
        BY <2>0, <2>2, <3>4 DEF GetSegment
      <4>. QED BY <1>0, <2>0, <3>1, <4>1, GrowHeader
    <3>. QED BY <1>5, <3>2, <3>3, <3>4
  <2>. QED BY <2>1, <2>2
<1>6. CASE AtEOI
  <2>1. /\ UNCHANGED <<stream, pos, unread, sawSOI, inScan, ri, torn>>
        /\ saved' = saved \/ gs' = "start"
    BY <1>6 DEF AtEOI, Reset, OutputPassSetup
  <2>2. gs # "start"
    BY <1>0, <1>6 DEF AtEOI
  <2>. QED BY <1>0, <2>1, <2>2, NothingSeen, KeepHeader
<1>7. CASE ReadHeader \/ ConsumeInput
  <2>1. CASE gs = "start"
    BY <1>7, <2>1 DEF ReadHeader, ConsumeInput, EnterConsume, ResetInputController,
                      HeaderReflectsStream
  <2>2. CASE gs # "start"
    <3>1. UNCHANGED <<stream, pos, unread, sawSOI, saved, inScan, ri, torn, gs>>
      BY <1>7, <2>2 DEF ReadHeader, ConsumeInput, EnterConsume
    <3>. QED BY <1>0, <3>1, NothingSeen, KeepHeader
  <2>. QED BY <2>1, <2>2
<1>8. CASE SetParameters \/ StartInputPass \/ \E n \in 1..Height : ReadLines(n)
  <2>1. UNCHANGED <<stream, pos, unread, sawSOI, saved, inScan, ri, torn, gs>>
    BY <1>8 DEF SetParameters, StartInputPass, ReadLines
  <2>. QED BY <1>0, <2>1, NothingSeen, KeepHeader
<1>9. CASE StartDecompress \/ FinishDecompress
  <2>1. /\ UNCHANGED <<stream, pos, unread, sawSOI, saved, inScan, ri, torn>>
        /\ gs = "start" => gs' = "start"
    BY <1>9 DEF StartDecompress, OutputPassSetup, FinishDecompress, ReadUntilEOI
  <2>. QED BY <1>0, <2>1, NothingSeen, KeepHeader
<1>10. CASE Abort
  BY <1>10 DEF Abort, ResetInputController, HeaderReflectsStream
<1>11. CASE UNCHANGED vars
  <2>1. UNCHANGED <<stream, pos, unread, sawSOI, saved, inScan, ri, torn, gs>>
    BY <1>11 DEF vars
  <2>. QED BY <1>0, <2>1, NothingSeen, KeepHeader
<1>12. CASE SourceErrorInside
  BY <1>12 DEF SourceErrorInside, HeaderReflectsStream
<1>. QED BY <1>1, <1>2, <1>3, <1>4, <1>5, <1>6, <1>7, <1>8, <1>9, <1>10, <1>11, <1>12
         DEF Next, CallStep, Failure, Client

LEMMA HInvInit == Init => HInv
BY IInvInit, NilInfoType DEF Init, HInv, SOIFirst, Started, Fresh, HeaderReflectsStream

LEMMA HInvStep == HInv /\ [Next]_vars => HInv'
BY IInvStep, FreshStep, HeaderStep DEF HInv

(* The restart interval, the scan count and the saved markers are those of  *)
(* the segments handled since the SOI, on every datastream, after every     *)
(* failure of its source before a marker or before a payload and whatever   *)
(* the client calls and abandons.  Inside a payload torn is set and the     *)
(* theorem says nothing: the code then reads on in the middle of it.        *)
THEOREM HeaderReflectsStreamHolds == Spec => []HeaderReflectsStream
<1>1. HInv => HeaderReflectsStream
  BY DEF HInv
<1>. QED BY <1>1, HInvInit, HInvStep, PTL DEF Spec

-----------------------------------------------------------------------------
(* The table in force is that of the last DQT handled.                      *)
Tabled == {i \in Seen : stream[i].m = "DQT"}
TableInForce ==
  ~torn => /\ Tabled = {} => qtab = NoTable
           /\ Tabled # {} => /\ qtab # NoTable
                             /\ \E d \in Tabled : /\ \A e \in Tabled : e <= d
                                                  /\ qtab = stream[d].tab

(* t is the table in force where the first scan of c began.                 *)
ScansOf(c) == {i \in Of("SOS") : c \in stream[i].comps}
Before(i)  == {e \in 1..i : stream[e].m = "DQT"}
TableAtFirstScan(c, t) ==
  \E i \in ScansOf(c) :
    /\ \A j \in ScansOf(c) : i <= j
    /\ \E d \in Before(i) : /\ \A e \in Before(i) : e <= d
                            /\ t = stream[d].tab

LatchedAtFirst ==
  \A c \in DOMAIN compInfo :
    compInfo[c] # NoTable => TableAtFirstScan(c, compInfo[c])

(* In the header nothing is latched, and a scan has only been met if its    *)
(* frame was refused.                                                       *)
InHeader ==
  gs = "inheader" /\ ~torn =>
    /\ inheaders # 0 /\ (inheaders = 2 => multi)
    /\ \A c \in DOMAIN compInfo : compInfo[c] = NoTable
    /\ sawSOI => /\ ~sawSOF => Of("SOS") = {}
                 /\ \A i \in Of("SOS") : stream[i].comps # {} => frame.val = 1 /\ inheaders = 1

(* At Ready the decompressor stands at the first SOS of the image.          *)
AtFirstScan ==
  gs = "ready" =>
    /\ call = "none"
    /\ ~torn => /\ ~unread /\ pos \in Of("SOS") /\ scan = stream[pos].comps /\ scan # {}
                /\ \A i \in Of("SOS") : stream[i].comps # {} => i = pos
                /\ ~multi => DOMAIN compInfo \subseteq scan

(* Past it a component without a table has had no scan.                     *)
PastFirstScan ==
  gs \notin {"start", "inheader", "ready"} /\ ~torn =>
    /\ qtab # NoTable
    /\ \A c \in DOMAIN compInfo :
         compInfo[c] = NoTable => multi /\ c \notin scan /\ ScansOf(c) = {}

(* The inductive invariant for TableLatched.                                *)
LatchInv == /\ IInv /\ SOIFirst /\ Started /\ Fresh
            /\ TableInForce /\ LatchedAtFirst /\ InHeader /\ AtFirstScan /\ PastFirstScan

-----------------------------------------------------------------------------
LEMMA KeepTable ==
  ASSUME TableInForce, UNCHANGED <<stream, qtab>>, Tabled' = Tabled, ~torn' => ~torn
  PROVE  TableInForce'
BY DEF TableInForce

LEMMA TableStep ==
  ASSUME IInv, SOIFirst, Fresh, TableInForce, [Next]_vars
  PROVE  TableInForce'
<1>. USE DEF Cur, srcVars, icVars, hdrVars, scanVars, outVars, apiVars, Return, Reading,
             Handling, BadState
<1>0. TypeInv
  BY DEF IInv
<1>1. CASE UNCHANGED <<stream, pos, unread, qtab>> /\ (~torn' => ~torn)
  <2>1. Tabled' = Tabled
    BY <1>0, <1>1, NothingSeen DEF Tabled
  <2>. QED BY <1>1, <2>1, KeepTable
<1>2. ASSUME FirstMarker \/ NextMarker PROVE TableInForce'
  <2>0. ~unread /\ pos' = pos + 1 /\ UNCHANGED <<stream, qtab>> /\ ~torn
    BY <1>2 DEF FirstMarker, NextMarker
  <2>1. CASE ~unread' /\ stream[pos + 1].m = "DQT"
    <3>1. torn'
      BY <1>2, <2>1 DEF FirstMarker, NextMarker, Segments
    <3>. QED BY <3>1 DEF TableInForce
  <2>2. CASE unread' \/ stream[pos + 1].m # "DQT"
    <3>1. Tabled' = Tabled
      BY <1>0, <2>0, <2>2, MarkerSees DEF Tabled
    <3>. QED BY <2>0, <3>1, KeepTable
  <2>. QED BY <2>1, <2>2
<1>3. ASSUME unread, ~unread', UNCHANGED <<stream, pos, torn>>,
             \/ Cur.m = "DQT" /\ qtab' = Cur.tab
             \/ Cur.m # "DQT" /\ UNCHANGED qtab
      PROVE  TableInForce'
  <2>1. /\ pos \in Nat /\ pos \notin Seen /\ Seen' = Seen \cup {pos}
        /\ \A i \in Seen : i < pos
    BY <1>0, <1>3, HandlerSees
  <2>2. CASE Cur.m # "DQT"
    <3>1. Tabled' = Tabled
      BY <1>3, <2>1, <2>2 DEF Tabled
    <3>. QED BY <1>3, <2>2, <3>1, KeepTable
  <2>3. CASE Cur.m = "DQT"
    <3>1. Cur.tab # NoTable
      BY <1>0, <1>3, <2>3, CurInSegment DEF Segment
    <3>2. pos \in Tabled' /\ \A e \in Tabled' : e <= pos
      <4>1. \A e \in Seen : e \in Nat /\ e <= pos
        BY <1>0, <2>1 DEF Seen, TypeInv, TypeOK, SrcTypeOK
      <4>. QED BY <1>3, <2>1, <2>3, <4>1 DEF Tabled
    <3>. QED BY <1>3, <2>3, <3>1, <3>2 DEF TableInForce
  <2>. QED BY <2>2, <2>3
<1>4. CASE SourceError \/ EndOfSource \/ UnsupportedSOF \/ RejectSOS
  BY <1>1, <1>4 DEF SourceError, EndOfSource, UnsupportedSOF, RejectSOS
<1>5. CASE GetSOI
  BY <1>1, <1>3, <1>5 DEF GetSOI
<1>6. CASE GetSOF
  BY <1>1, <1>3, <1>6 DEF GetSOF
<1>7. CASE GetSOS \/ GetEOI
  BY <1>3, <1>7 DEF GetSOS, GetEOI
<1>8. CASE GetSegment
  BY <1>1, <1>3, <1>8 DEF GetSegment, TableInForce
<1>9. CASE AtEOI
  BY <1>1, <1>9 DEF AtEOI
<1>10. CASE ReadHeader \/ ConsumeInput
  <2>1. CASE gs = "start"
    <3>1. UNCHANGED <<stream, pos, qtab, torn>> /\ unread' = unread
      BY <1>0, <1>10, <2>1 DEF ReadHeader, ConsumeInput, EnterConsume, ResetInputController,
         Fresh, TypeInv, TypeOK, SrcTypeOK
    <3>. QED BY <1>1, <3>1
  <2>2. CASE gs # "start"
    <3>1. UNCHANGED <<stream, pos, unread, qtab, torn>>
      BY <1>10, <2>2 DEF ReadHeader, ConsumeInput, EnterConsume
    <3>. QED BY <1>1, <3>1
  <2>. QED BY <2>1, <2>2
<1>11. CASE SetParameters \/ StartInputPass \/ \E n \in 1..Height : ReadLines(n)
  <2>1. UNCHANGED <<stream, pos, unread, qtab, torn>>
    BY <1>11 DEF SetParameters, StartInputPass, ReadLines
  <2>. QED BY <1>1, <2>1
<1>12. CASE StartDecompress \/ FinishDecompress
  <2>1. UNCHANGED <<stream, pos, unread, qtab, torn>>
    BY <1>12 DEF StartDecompress, OutputPassSetup, FinishDecompress, ReadUntilEOI
  <2>. QED BY <1>1, <2>1
<1>13. CASE Abort
  <2>0. UNCHANGED <<stream, pos, qtab>> /\ unread' = FALSE
        /\ torn' = (torn \/ (unread /\ Cur.m \in Segments))
    BY <1>13 DEF Abort, ResetInputController
  <2>1. CASE unread /\ Cur.m \notin Segments
    <3>1. UNCHANGED torn
      BY <2>0, <2>1, <1>0 DEF TypeInv, TypeOK, SrcTypeOK
    <3>2. Cur.m # "DQT"
      BY <2>1 DEF Segments
    <3>. QED BY <1>3, <2>0, <2>1, <3>1, <3>2
  <2>2. CASE ~unread
    <3>1. unread' = unread
      <4>1. unread \in BOOLEAN
        BY <1>0 DEF TypeInv, TypeOK, SrcTypeOK
      <4>2. unread = FALSE
        BY ONLY <4>1, <2>2, Zenon
      <4>. QED BY ONLY <2>0, <4>2
    <3>2. ~torn' => ~torn
      BY <2>0
    <3>. QED BY <1>1, <2>0, <3>1, <3>2
  <2>3. CASE unread /\ Cur.m \in Segments
    <3>1. torn'
      BY <2>0, <2>3
    <3>. QED BY <3>1 DEF TableInForce
  <2>. QED BY <2>1, <2>2, <2>3
<1>14. CASE UNCHANGED vars
  BY <1>1, <1>14 DEF vars
<1>15. CASE SourceErrorInside
  BY <1>15 DEF SourceErrorInside, TableInForce
<1>. QED BY <1>2, <1>4, <1>5, <1>6, <1>7, <1>8, <1>9, <1>10, <1>11, <1>12, <1>13, <1>14, <1>15
         DEF Next, CallStep, Failure, Client

-----------------------------------------------------------------------------
(* How the scans handled change: a scan is met, an image begins, or nothing *)
(* of either.                                                               *)
LEMMA ScanMet ==
  ASSUME IInv, SOIFirst, GetSOS
  PROVE  /\ stream' = stream /\ pos \in Nat /\ stream[pos] = Cur /\ Cur.m = "SOS"
         /\ Of("SOS")' = Of("SOS") \cup {pos} /\ \A i \in Of("SOS") : i < pos
         /\ sawSOI /\ sawSOI' /\ ~torn /\ ~torn' /\ pos' = pos /\ ~unread'
<1>1. /\ TypeInv /\ SrcTypeOK /\ unread /\ ~unread' /\ UNCHANGED <<stream, pos, sawSOI, torn>>
      /\ Cur.m = "SOS" /\ ~torn
  BY DEF IInv, TypeInv, TypeOK, GetSOS, Handling, Reading
<1>2. sawSOI
  BY <1>1 DEF SOIFirst
<1>3. /\ pos \in Nat /\ pos \notin Seen /\ Seen' = Seen \cup {pos}
      /\ \A i \in Seen : i < pos
  BY <1>1, HandlerSees
<1>4. stream[pos].m = "SOS"
  BY <1>1 DEF Cur
<1>5. stream[pos].m # "SOI"
  BY <1>4
<1>6. /\ \A m : Of(m)' = IF stream[pos].m = m THEN Of(m) \cup {pos} ELSE Of(m)
      /\ \A m : pos \notin Of(m) /\ \A i \in Of(m) : i < pos
  BY <1>1, <1>3, <1>5, OneMore
<1>. QED BY <1>1, <1>2, <1>3, <1>4, <1>6 DEF Cur

LEMMA ImageBegins ==
  ASSUME IInv, GetSOI, ~sawSOI
  PROVE  /\ stream' = stream /\ Of("SOS")' = {} /\ gs' = gs /\ compInfo' = compInfo
         /\ UNCHANGED <<inheaders, multi, scan, qtab>> /\ call # "none"
<1>1. TypeInv /\ SrcTypeOK /\ unread /\ ~unread' /\ UNCHANGED <<stream, pos>> /\ Cur.m = "SOI"
  BY DEF IInv, TypeInv, TypeOK, GetSOI, Handling, Reading
<1>2. /\ pos \in Nat /\ pos \notin Seen /\ Seen' = Seen \cup {pos}
      /\ \A i \in Seen : i < pos
  BY <1>1, HandlerSees
<1>3. Of("SOS")' = {}
  BY <1>1, <1>2, NewImage DEF Cur
<1>. QED BY <1>1, <1>3 DEF GetSOI, Handling, Reading, hdrVars, outVars, scanVars

LEMMA ScansKept ==
  ASSUME IInv, SOIFirst, Fresh, [Next]_vars, ~GetSOS, ~(GetSOI /\ ~sawSOI)
  PROVE  /\ stream' = stream
         /\ ~sawSOI' \/ (sawSOI /\ Of("SOS")' = Of("SOS"))
<1>. USE DEF Cur, srcVars, icVars, hdrVars, scanVars, outVars, apiVars, Return, Reading,
             Handling, BadState
<1>0. TypeInv /\ SrcTypeOK
  BY DEF IInv, TypeInv, TypeOK
<1>1. ASSUME UNCHANGED <<stream, pos, unread, sawSOI>>
      PROVE  /\ stream' = stream
             /\ ~sawSOI' \/ (sawSOI /\ Of("SOS")' = Of("SOS"))
  <2>1. Of("SOS")' = Of("SOS")
    BY <1>0, <1>1, NothingSeen, SameHandled
  <2>. QED BY <1>1, <2>1
<1>2. ASSUME unread, ~unread', UNCHANGED <<stream, pos, sawSOI>>, Cur.m \notin {"SOI", "SOS"}
      PROVE  /\ stream' = stream
             /\ ~sawSOI' \/ (sawSOI /\ Of("SOS")' = Of("SOS"))
  <2>1. /\ pos \in Nat /\ pos \notin Seen /\ Seen' = Seen \cup {pos}
        /\ \A i \in Seen : i < pos
    BY <1>0, <1>2, HandlerSees
  <2>2. stream[pos].m # "SOI" /\ stream[pos].m # "SOS"
    BY <1>2
  <2>3. \A m : Of(m)' = IF stream[pos].m = m THEN Of(m) \cup {pos} ELSE Of(m)
    BY <1>0, <1>2, <2>1, <2>2, OneMore
  <2>. QED BY <1>2, <2>2, <2>3
<1>3. CASE SourceError \/ EndOfSource \/ UnsupportedSOF \/ RejectSOS
  BY <1>1, <1>3 DEF SourceError, EndOfSource, UnsupportedSOF, RejectSOS
<1>4. CASE FirstMarker
  BY <1>4 DEF FirstMarker
<1>5. CASE NextMarker
  <2>1. ~unread /\ pos' = pos + 1 /\ UNCHANGED <<stream, sawSOI>> /\ sawSOI
    BY <1>5 DEF NextMarker
  <2>2. CASE unread'
    <3>1. Of("SOS")' = Of("SOS")
      BY <1>0, <2>1, <2>2, MarkerSees, SameHandled
    <3>. QED BY <2>1, <3>1
  <2>3. CASE ~unread'
    <3>1. /\ pos + 1 \in Nat /\ pos + 1 \notin Seen
          /\ Seen' = Seen \cup {pos + 1} /\ \A i \in Seen : i < pos + 1
      BY <1>0, <2>1, <2>3, MarkerSees
    <3>2. stream[pos + 1].m = "DATA"
      BY <1>5, <2>3 DEF NextMarker
    <3>3. stream[pos + 1].m # "SOI" /\ stream[pos + 1].m # "SOS"
      BY <3>2
    <3>4. \A m : Of(m)' = IF stream[pos + 1].m = m THEN Of(m) \cup {pos + 1} ELSE Of(m)
      BY <1>0, <2>1, <3>1, <3>3, OneMore
    <3>. QED BY <2>1, <3>3, <3>4
  <2>. QED BY <2>2, <2>3
<1>6. CASE GetSOI
  BY <1>1, <1>6 DEF GetSOI
<1>7. CASE GetSOF \/ GetSegment
  BY <1>1, <1>2, <1>7 DEF GetSOF, GetSegment
<1>8. CASE GetEOI
  BY <1>2, <1>8 DEF GetEOI
<1>9. CASE AtEOI
  BY <1>1, <1>9 DEF AtEOI
<1>10. CASE ReadHeader \/ ConsumeInput
  <2>1. CASE gs = "start"
    BY <1>10, <2>1 DEF ReadHeader, ConsumeInput, EnterConsume, ResetInputController
  <2>2. CASE gs # "start"
    BY <1>1, <1>10, <2>2 DEF ReadHeader, ConsumeInput, EnterConsume
  <2>. QED BY <2>1, <2>2
<1>11. CASE SetParameters \/ StartInputPass \/ \E n \in 1..Height : ReadLines(n)
  BY <1>1, <1>11 DEF SetParameters, StartInputPass, ReadLines
<1>12. CASE StartDecompress \/ FinishDecompress
  BY <1>1, <1>12 DEF StartDecompress, OutputPassSetup, FinishDecompress, ReadUntilEOI
<1>13. CASE Abort
  BY <1>13 DEF Abort, ResetInputController
<1>14. CASE UNCHANGED vars
  BY <1>1, <1>14 DEF vars
<1>15. CASE SourceErrorInside
  BY <1>1, <1>15 DEF SourceErrorInside
<1>. QED BY <1>3, <1>4, <1>5, <1>6, <1>7, <1>8, <1>9, <1>10, <1>11, <1>12, <1>13, <1>14, <1>15
         DEF Next, CallStep, Failure, Client

-----------------------------------------------------------------------------
(* The header ends at the first scan that its frame allows.                 *)
LEMMA HeaderScanStep ==
  ASSUME IInv, SOIFirst, Fresh, Fresh', InHeader, AtFirstScan, [Next]_vars
  PROVE  InHeader' /\ AtFirstScan'
<1>. USE DEF srcVars, icVars, hdrVars, scanVars, outVars, apiVars, Return, Reading,
             Handling, BadState
<1>0. /\ TypeInv /\ SrcTypeOK /\ (call # "none" => gs # "start")
      /\ (call # "none" => gs # "ready")
  BY Called DEF IInv, TypeInv, TypeOK, AtFirstScan
<1>1. CASE GetSOS
  <2>0. /\ stream' = stream /\ pos \in Nat /\ stream[pos] = Cur /\ Cur.m = "SOS"
        /\ Of("SOS")' = Of("SOS") \cup {pos} /\ \A i \in Of("SOS") : i < pos
        /\ sawSOI /\ ~torn /\ pos' = pos /\ ~unread'
    BY <1>1, ScanMet
  <2>1. CASE gs = "inheader"
    <3>0. /\ inheaders # 0 /\ (inheaders = 2 => multi)
          /\ \A c \in DOMAIN compInfo : compInfo[c] = NoTable
          /\ \A i \in Of("SOS") : stream[i].comps # {} => frame.val = 1 /\ inheaders = 1
      BY <2>0, <2>1 DEF InHeader
    <3>1. FirstSOS /\ sawSOF /\ sawSOF' = sawSOF /\ frame' = frame /\ scan' = Cur.comps
          /\ compInfo' = compInfo
      BY <1>1, <3>0 DEF GetSOS, FirstSOS, LaterSOS, SOSAccepted
    <3>2. CASE inheaders = 1 /\ frame.val = 1
      <4>1. gs' = gs /\ inheaders' = inheaders /\ multi' = multi
        BY <3>1, <3>2 DEF FirstSOS
      <4>. QED BY <2>0, <2>1, <3>0, <3>1, <3>2, <4>1 DEF InHeader, AtFirstScan
    <3>3. CASE ~(inheaders = 1 /\ frame.val = 1) /\ Cur.comps = {}
      <4>1. gs' = gs /\ inheaders' = 2 /\ multi' = IF inheaders = 1
                      THEN Cardinality(Cur.comps) < frame.num \/ frame.prog
                      ELSE multi
        BY <3>1, <3>3 DEF FirstSOS
      <4>2. frame.prog /\ inheaders \in {0, 1, 2}
        BY <1>0, <1>1, <3>3 DEF GetSOS, SOSAccepted, TypeInv, TypeOK, IcTypeOK
      <4>3. multi'
        BY <3>0, <4>1, <4>2
      <4>4. \A i \in Of("SOS")' : stream[i].comps = {}
        BY <2>0, <3>0, <3>3
      <4>5. inheaders' # 0 /\ gs' # "ready" /\ sawSOF' /\ compInfo' = compInfo
        BY <2>1, <3>1, <4>1
      <4>6. \A i \in Of("SOS")' : stream'[i].comps = {}
        BY <2>0, <4>4
      <4>7. InHeader'
        BY ONLY <3>0, <4>3, <4>5, <4>6 DEF InHeader
      <4>. QED BY <4>5, <4>7 DEF AtFirstScan
    <3>4. CASE ~(inheaders = 1 /\ frame.val = 1) /\ Cur.comps # {}
      <4>1. ReturnSOS /\ multi' = IF inheaders = 1
                      THEN Cardinality(Cur.comps) < frame.num \/ frame.prog
                      ELSE multi
        BY <3>1, <3>4 DEF FirstSOS
      <4>2. gs' = "ready" /\ call' = "none"
        BY <1>1, <2>1, <4>1 DEF ReturnSOS, GetSOS, IInv, CallPhase
      <4>3. \A i \in Of("SOS")' : stream[i].comps # {} => i = pos
        BY <2>0, <3>0, <3>4
      <4>4. ~multi' => DOMAIN compInfo \subseteq Cur.comps
        <5>1. SUFFICES ASSUME ~multi' PROVE DOMAIN compInfo \subseteq Cur.comps
          OBVIOUS
        <5>2. inheaders = 1
          BY <1>0, <3>0, <4>1, <5>1 DEF TypeInv, TypeOK, IcTypeOK
        <5>3. ~(Cardinality(Cur.comps) < frame.num)
          BY <4>1, <5>1, <5>2
        <5>4. Cur.comps \subseteq DOMAIN compInfo
          BY <1>1 DEF GetSOS, SOSAccepted
        <5>5. Cardinality(DOMAIN compInfo) = frame.num
          BY <2>0, <2>1, <3>1 DEF IInv, FrameAllocated
        <5>6. IsFiniteSet(DOMAIN compInfo)
          BY <1>0, FS_Subset, ConstantsAssumption DEF TypeInv, TypeOK, HdrTypeOK
        <5>7. Cardinality(DOMAIN compInfo) \in Nat /\ Cardinality(Cur.comps) \in Nat
          BY <5>4, <5>6, FS_Subset, FS_CardinalityType
        <5>8. Cardinality(Cur.comps) <= Cardinality(DOMAIN compInfo)
              /\ (Cardinality(Cur.comps) = Cardinality(DOMAIN compInfo)
                    => Cur.comps = DOMAIN compInfo)
          BY <5>4, <5>6, FS_Subset
        <5>. QED BY <5>3, <5>5, <5>7, <5>8
      <4>. QED BY <2>0, <3>1, <3>4, <4>2, <4>3, <4>4 DEF InHeader, AtFirstScan
    <3>. QED BY <3>2, <3>3, <3>4
  <2>2. CASE gs # "inheader"
    <3>1. gs # "ready" /\ gs # "start" /\ inheaders = 0
      BY <1>0, <1>1, <2>2 DEF GetSOS, IInv, HeaderDone
    <3>2. gs' = gs
      BY <1>1, <2>2, <3>1 DEF GetSOS, FirstSOS, LaterSOS, ReturnSOS
    <3>. QED BY <2>2, <3>1, <3>2 DEF InHeader, AtFirstScan
  <2>. QED BY <2>1, <2>2
<1>2. CASE GetSOI /\ ~sawSOI
  <2>1. /\ stream' = stream /\ Of("SOS")' = {} /\ gs' = gs /\ compInfo' = compInfo
        /\ UNCHANGED <<inheaders, multi, scan, qtab>> /\ call # "none"
    BY <1>2, ImageBegins
  <2>2. gs' # "ready" /\ ~torn
    BY <1>0, <1>2, <2>1 DEF GetSOI
  <2>. QED BY <2>1, <2>2 DEF InHeader, AtFirstScan
<1>3. CASE ~GetSOS /\ ~(GetSOI /\ ~sawSOI)
  <2>0. stream' = stream /\ (~sawSOI' \/ (sawSOI /\ Of("SOS")' = Of("SOS")))
    BY <1>3, ScansKept
  <2>1. ASSUME gs' = gs, UNCHANGED <<inheaders, multi, compInfo, sawSOF>>, ~torn' => ~torn,
               frame'.val = frame.val, call # "none"
        PROVE  InHeader' /\ AtFirstScan'
    <3>1. gs' # "ready"
      BY <1>0, <2>1
    <3>. QED BY <2>0, <2>1, <3>1 DEF InHeader, AtFirstScan
  <2>2. ASSUME gs' # "inheader", gs' # "ready" PROVE InHeader' /\ AtFirstScan'
    BY <2>2 DEF InHeader, AtFirstScan
  <2>3. ASSUME torn', call # "none", gs' = gs PROVE InHeader' /\ AtFirstScan'
    BY <1>0, <2>3 DEF InHeader, AtFirstScan
  <2>4. CASE SourceError
    BY <1>0, <2>1, <2>4 DEF SourceError, TypeInv, TypeOK, HdrTypeOK
  <2>5. CASE EndOfSource \/ UnsupportedSOF \/ GetEOI \/ NextMarker
    BY <2>1, <2>5 DEF EndOfSource, UnsupportedSOF, GetEOI, NextMarker
  <2>6. CASE FirstMarker
    BY <2>1, <2>3, <2>6 DEF FirstMarker
  <2>7. CASE RejectSOS
    <3>1. CASE sawSOF
      BY <2>3, <2>7, <3>1 DEF RejectSOS
    <3>2. CASE ~sawSOF
      BY <2>1, <2>3, <2>7, <3>2 DEF RejectSOS
    <3>. QED BY <3>1, <3>2
  <2>8. CASE GetSOI
    BY <2>1, <2>8 DEF GetSOI
  <2>9. CASE GetSOF
    <3>1. gs' = gs /\ call # "none" /\ UNCHANGED <<sawSOI, inheaders, multi>>
      BY <2>9 DEF GetSOF
    <3>2. CASE torn'
      BY <2>3, <3>1, <3>2
    <3>3. CASE ~torn'
      <4>1. ~sawSOF /\ sawSOF' /\ ~torn /\ compInfo' = [c \in Cur.comps |-> NoTable]
        BY <2>9, <3>3 DEF GetSOF
      <4>2. gs' # "ready"
        BY <1>0, <3>1
      <4>. QED BY <2>0, <3>1, <4>1, <4>2 DEF InHeader, AtFirstScan
    <3>. QED BY <3>2, <3>3
  <2>10. CASE GetSegment
    BY <2>1, <2>3, <2>10 DEF GetSegment
  <2>11. CASE AtEOI
    <3>1. \/ gs' = gs /\ UNCHANGED <<inheaders, multi, compInfo, sawSOF, torn, frame>> /\ call # "none"
          \/ gs' \notin {"inheader", "ready"}
      BY <2>11 DEF AtEOI, Reset, OutputPassSetup
    <3>. QED BY <2>1, <2>2, <3>1
  <2>12. ASSUME gs' = gs, call = "none", call' = "none", ~torn,
                UNCHANGED <<pos, unread, inheaders, multi, sawSOF, frame, scan>>,
                UNCHANGED torn, DOMAIN compInfo' = DOMAIN compInfo,
                gs = "inheader" => UNCHANGED compInfo,
                gs = "ready" => Of("SOS")' = Of("SOS")
         PROVE  InHeader' /\ AtFirstScan'
    BY <2>0, <2>12 DEF InHeader, AtFirstScan
  <2>13. ASSUME UNCHANGED <<stream, pos, unread>> PROVE Of("SOS")' = Of("SOS")
    BY <1>0, <2>13, NothingSeen, SameHandled
  <2>14. CASE ReadHeader \/ ConsumeInput
    <3>1. CASE gs = "start"
      <4>1. gs' \in {"start", "inheader"} /\ inheaders' = 1 /\ ~sawSOI' /\ DOMAIN compInfo' = {}
        BY <2>14, <3>1, NilInfoType DEF ReadHeader, ConsumeInput, EnterConsume, ResetInputController
      <4>. QED BY <4>1 DEF InHeader, AtFirstScan
    <3>2. CASE gs = "ready"
      <4>1. /\ gs' = gs /\ call = "none" /\ call' = "none" /\ ~torn
            /\ UNCHANGED <<stream, pos, unread, inheaders, multi, sawSOF, frame, scan, torn, compInfo>>
        BY <2>14, <3>2 DEF ReadHeader, ConsumeInput, Idle
      <4>. QED BY <2>12, <2>13, <4>1
    <3>3. CASE gs \notin {"start", "ready"}
      <4>1. gs' = gs /\ UNCHANGED <<inheaders, multi, sawSOF, frame, torn, compInfo>>
        BY <2>14, <3>3 DEF ReadHeader, ConsumeInput, EnterConsume
      <4>. QED BY <2>0, <3>3, <4>1 DEF InHeader, AtFirstScan
    <3>. QED BY <3>1, <3>2, <3>3
  <2>15. CASE SetParameters \/ \E n \in 1..Height : ReadLines(n)
    <3>1. /\ gs' = gs /\ call = "none" /\ call' = "none" /\ ~torn
          /\ UNCHANGED <<stream, pos, unread, inheaders, multi, sawSOF, frame, scan, torn, compInfo>>
      BY <2>15 DEF SetParameters, ReadLines, Idle
    <3>. QED BY <2>12, <2>13, <3>1
  <2>16. CASE StartInputPass
    <3>1. /\ gs' = gs /\ call = "none" /\ call' = "none" /\ ~torn /\ gs # "inheader"
          /\ UNCHANGED <<stream, pos, unread, inheaders, multi, sawSOF, frame, scan, torn>>
      BY <2>16 DEF StartInputPass, Idle
    <3>2. DOMAIN compInfo' = DOMAIN compInfo
      BY <1>0, <2>16, LatchType DEF StartInputPass, TypeInv, TypeOK
    <3>. QED BY <2>12, <2>13, <3>1, <3>2
  <2>17. CASE StartDecompress \/ FinishDecompress
    <3>1. \/ gs' \notin {"inheader", "ready"}
          \/ /\ gs' = gs /\ call = "none" /\ call' = "none" /\ ~torn
             /\ UNCHANGED <<stream, pos, unread, inheaders, multi, sawSOF, frame, scan, torn, compInfo>>
      BY <2>17 DEF StartDecompress, OutputPassSetup, FinishDecompress, ReadUntilEOI, Idle
    <3>. QED BY <2>2, <2>12, <2>13, <3>1
  <2>18. CASE Abort
    BY <2>2, <2>18 DEF Abort
  <2>19. CASE UNCHANGED vars
    <3>1. UNCHANGED <<stream, pos, unread, inheaders, multi, sawSOF, frame, scan, torn, compInfo, call, gs>>
      BY <2>19 DEF vars
    <3>2. Of("SOS")' = Of("SOS")
      BY <2>13, <3>1
    <3>. QED BY <2>0, <3>1, <3>2 DEF InHeader, AtFirstScan
  <2>20. CASE SourceErrorInside
    BY <2>3, <2>20 DEF SourceErrorInside
  <2>. QED BY <1>3, <2>4, <2>5, <2>6, <2>7, <2>8, <2>9, <2>10, <2>11, <2>14, <2>15, <2>16,
              <2>17, <2>18, <2>19, <2>20 DEF Next, CallStep, Failure, Client
<1>. QED BY <1>1, <1>2, <1>3

-----------------------------------------------------------------------------
(* With a table in force, the table a scan that begins now would latch.     *)
LEMMA InForceBefore ==
  ASSUME SrcTypeOK, TableInForce, ~torn, qtab # NoTable, pos \in Nat, stream[pos].m = "SOS"
  PROVE  \E d \in Before(pos) : /\ \A e \in Before(pos) : e <= d
                                /\ qtab = stream[d].tab
<1>1. Tabled = Before(pos)
  <2>1. \A e \in 1..pos : stream[e].m = "DQT" => e < pos
    OBVIOUS
  <2>. QED BY <2>1 DEF Tabled, Seen, Before
<1>. QED BY <1>1 DEF TableInForce

(* A component latched at its first scan found a table in force.            *)
LEMMA LatchedHasTable ==
  ASSUME SrcTypeOK, TableInForce, LatchedAtFirst, ~torn,
         NEW c \in DOMAIN compInfo, compInfo[c] # NoTable
  PROVE  qtab # NoTable
<1>1. PICK i \in ScansOf(c) : \E d \in Before(i) : compInfo[c] = stream[d].tab
  BY DEF LatchedAtFirst, TableAtFirstScan
<1>2. PICK d \in Before(i) : TRUE
  BY <1>1
<1>3. i \in 1..pos /\ stream[i].m = "SOS" /\ d \in 1..i /\ stream[d].m = "DQT" /\ pos \in Nat
  BY <1>1, <1>2 DEF ScansOf, Of, Handled, Seen, Before, SrcTypeOK
<1>4. d < i
  BY <1>3
<1>5. d \in Tabled
  BY <1>3, <1>4 DEF Tabled, Seen
<1>. QED BY <1>5 DEF TableInForce

(* Past the first scan every step leaves the unlatched components without   *)
(* one.                                                                     *)
LEMMA PastStep ==
  ASSUME IInv, SOIFirst, Fresh, Fresh', TableInForce, LatchedAtFirst, AtFirstScan,
         PastFirstScan, [Next]_vars
  PROVE  PastFirstScan'
<1>. USE DEF srcVars, icVars, hdrVars, scanVars, outVars, apiVars, Return, Reading,
             Handling, BadState
<1>0. /\ TypeInv /\ SrcTypeOK /\ (call # "none" => gs # "start")
      /\ (call # "none" => gs # "ready")
  BY Called DEF IInv, TypeInv, TypeOK, AtFirstScan
<1>1. SUFFICES ASSUME gs' \notin {"start", "inheader", "ready"}, ~torn' PROVE PastFirstScan'
  BY DEF PastFirstScan
<1>2. CASE GetSOS
  <2>0. /\ stream' = stream /\ pos \in Nat /\ stream[pos] = Cur /\ Cur.m = "SOS"
        /\ Of("SOS")' = Of("SOS") \cup {pos} /\ \A i \in Of("SOS") : i < pos
        /\ ~torn
    BY <1>2, ScanMet
  <2>1. gs # "inheader"
    BY <1>0, <1>1, <1>2 DEF GetSOS, FirstSOS, LaterSOS, ReturnSOS
  <2>2. gs \notin {"start", "inheader", "ready"} /\ inheaders = 0
    BY <1>0, <1>2, <2>1 DEF GetSOS, IInv, HeaderDone
  <2>3. /\ qtab # NoTable
        /\ \A c \in DOMAIN compInfo :
             compInfo[c] = NoTable => multi /\ c \notin scan /\ ScansOf(c) = {}
    BY <2>0, <2>2 DEF PastFirstScan
  <2>4. LaterSOS /\ scan' = Cur.comps /\ qtab' = qtab /\ multi' = multi
    BY <1>2, <2>2 DEF GetSOS, FirstSOS, LaterSOS
  <2>5. ASSUME NEW c, ScansOf(c) = {}, c \notin Cur.comps PROVE ScansOf(c)' = {}
    BY <2>0, <2>5 DEF ScansOf
  <2>6. CASE compInfo' = compInfo /\ (~multi \/ Cur.comps = {})
    BY <2>3, <2>4, <2>5, <2>6 DEF PastFirstScan
  <2>7. CASE compInfo' = LatchQuantTables(Cur.comps)
    <3>1. \A c \in DOMAIN compInfo' : compInfo'[c] = NoTable =>
            c \in DOMAIN compInfo /\ compInfo[c] = NoTable /\ c \notin Cur.comps
      BY <2>3, <2>7 DEF LatchQuantTables
    <3>. QED BY <2>3, <2>4, <2>5, <3>1 DEF PastFirstScan
  <2>. QED BY <2>3, <2>4, <2>6, <2>7 DEF LaterSOS, CanLatch
<1>3. CASE GetSOI /\ ~sawSOI
  <2>1. /\ stream' = stream /\ Of("SOS")' = {} /\ gs' = gs /\ compInfo' = compInfo
        /\ UNCHANGED <<inheaders, multi, scan, qtab>> /\ call # "none" /\ ~torn
    BY <1>3, ImageBegins DEF GetSOI
  <2>2. DOMAIN compInfo = {}
    BY <1>3 DEF Fresh
  <2>. QED BY <1>1, <2>1, <2>2 DEF PastFirstScan
<1>4. CASE ~GetSOS /\ ~(GetSOI /\ ~sawSOI)
  <2>0. stream' = stream /\ (~sawSOI' \/ (sawSOI /\ Of("SOS")' = Of("SOS")))
    BY <1>4, ScansKept
  <2>1. ASSUME gs \notin {"start", "inheader", "ready"}, ~torn, compInfo' = compInfo,
               multi' = multi, scan' = scan, qtab' # NoTable \/ qtab' = qtab
        PROVE  PastFirstScan'
    <3>1. \A c \in DOMAIN compInfo :
             compInfo[c] = NoTable => multi /\ c \notin scan /\ ScansOf(c) = {}
      BY <2>1 DEF PastFirstScan
    <3>2. qtab' # NoTable
      BY <2>1 DEF PastFirstScan
    <3>3. CASE ~sawSOI'
      <4>1. DOMAIN compInfo' = {}
        BY <3>3 DEF Fresh
      <4>. QED BY <3>2, <4>1 DEF PastFirstScan
    <3>4. CASE Of("SOS")' = Of("SOS")
      <4>1. \A c : ScansOf(c)' = ScansOf(c)
        BY <2>0, <3>4 DEF ScansOf
      <4>. QED BY <2>1, <3>1, <3>2, <4>1 DEF PastFirstScan
    <3>. QED BY <2>0, <3>3, <3>4
  <2>2. CASE SourceError \/ EndOfSource \/ UnsupportedSOF \/ FirstMarker \/ NextMarker
             \/ GetSOI \/ GetEOI
    <3>1. /\ gs' = gs /\ call # "none" /\ ~torn /\ compInfo' = compInfo /\ multi' = multi
          /\ scan' = scan /\ qtab' = qtab
      <4>1. CASE SourceError
        BY <4>1 DEF SourceError
      <4>2. CASE EndOfSource \/ UnsupportedSOF
        BY <4>2 DEF EndOfSource, UnsupportedSOF
      <4>3. CASE FirstMarker \/ NextMarker
        BY <4>3 DEF FirstMarker, NextMarker
      <4>4. CASE GetSOI
        BY <4>4 DEF GetSOI
      <4>5. CASE GetEOI
        BY <4>5 DEF GetEOI
      <4>. QED BY <2>2, <4>1, <4>2, <4>3, <4>4, <4>5
    <3>. QED BY <1>0, <1>1, <2>1, <3>1
  <2>3. CASE GetSegment
    <3>1. /\ gs' = gs /\ call # "none" /\ ~torn /\ compInfo' = compInfo /\ multi' = multi
          /\ scan' = scan /\ unread
      BY <2>3 DEF GetSegment
    <3>2. qtab' # NoTable \/ qtab' = qtab
      <4>1. qtab' = qtab \/ (Cur.m = "DQT" /\ qtab' = Cur.tab)
        BY <2>3 DEF GetSegment
      <4>. QED BY <1>0, <3>1, <4>1, CurInSegment DEF Segment
    <3>. QED BY <1>0, <1>1, <2>1, <3>1, <3>2
  <2>4. CASE GetSOF
    <3>1. gs' = gs /\ call # "none"
      BY <2>4 DEF GetSOF
    <3>2. sawSOF
      BY <1>1, <3>1 DEF IInv, HeaderDone
    <3>3. torn'
      BY <2>4, <3>2 DEF GetSOF
    <3>. QED BY <1>1, <3>3
  <2>5. CASE RejectSOS
    <3>1. gs' = gs /\ call # "none" /\ torn' = sawSOF
      BY <2>5 DEF RejectSOS
    <3>2. sawSOF
      BY <1>1, <3>1 DEF IInv, HeaderDone
    <3>. QED BY <1>1, <3>1, <3>2
  <2>6. CASE AtEOI
    <3>1. /\ torn' = torn /\ multi' = multi /\ scan' = scan /\ qtab' = qtab
          /\ compInfo' = compInfo /\ call # "none"
          /\ gs \notin {"inheader"} \/ gs' = gs
      BY <1>1, <2>6 DEF AtEOI, Reset, OutputPassSetup, IInv, CallPhase
    <3>. QED BY <1>0, <1>1, <2>1, <3>1
  <2>7. CASE ReadHeader \/ ConsumeInput \/ SetParameters \/ \E n \in 1..Height : ReadLines(n)
    <3>1. gs # "start" /\ gs' = gs
      BY <1>1, <2>7 DEF ReadHeader, ConsumeInput, EnterConsume, SetParameters, ReadLines
    <3>2. /\ torn' = torn /\ multi' = multi /\ scan' = scan /\ qtab' = qtab
          /\ compInfo' = compInfo
      BY <2>7, <3>1 DEF ReadHeader, ConsumeInput, EnterConsume, SetParameters, ReadLines
    <3>. QED BY <1>1, <2>1, <3>1, <3>2
  <2>8. CASE StartInputPass
    <3>1. /\ gs' = gs /\ ~torn /\ multi' = multi /\ scan' = scan /\ qtab' = qtab
          /\ compInfo' = LatchQuantTables(scan) \/ compInfo' = compInfo
      BY <2>8 DEF StartInputPass, Idle
    <3>2. \A c \in DOMAIN compInfo : compInfo[c] = NoTable => c \notin scan
      BY <1>1, <3>1 DEF PastFirstScan
    <3>3. LatchQuantTables(scan) = compInfo
      <4>1. compInfo \in [DOMAIN compInfo -> Tables \cup {NoTable}]
        BY <1>0 DEF TypeInv, TypeOK, HdrTypeOK
      <4>. QED BY <3>2, <4>1 DEF LatchQuantTables
    <3>. QED BY <1>1, <2>1, <3>1, <3>3
  <2>9. CASE StartDecompress \/ FinishDecompress
    <3>1. /\ torn' = torn /\ multi' = multi /\ scan' = scan /\ qtab' = qtab
          /\ compInfo' = compInfo /\ gs \notin {"start", "inheader"}
          /\ UNCHANGED <<stream, pos, unread>>
      BY <1>1, <2>9 DEF StartDecompress, OutputPassSetup, FinishDecompress, ReadUntilEOI
    <3>2. CASE gs # "ready"
      BY <1>1, <2>1, <3>1, <3>2
    <3>3. CASE gs = "ready"
      <4>1. PassStarted
        BY <1>1, <2>9, <3>3 DEF StartDecompress, FinishDecompress
      <4>2. /\ ~torn /\ pos \in Of("SOS") /\ scan = stream[pos].comps /\ scan # {}
            /\ \A i \in Of("SOS") : stream[i].comps # {} => i = pos
            /\ ~multi => DOMAIN compInfo \subseteq scan
        BY <1>1, <3>1, <3>3 DEF AtFirstScan
      <4>3. scan \subseteq DOMAIN compInfo
        BY <3>3, <4>2 DEF IInv, ScanInFrame
      <4>4. qtab # NoTable
        BY <1>0, <4>1, <4>2, <4>3, LatchedHasTable DEF PassStarted
      <4>5. \A c \in DOMAIN compInfo :
              compInfo[c] = NoTable => multi /\ c \notin scan /\ ScansOf(c) = {}
        BY <4>1, <4>2 DEF PassStarted, ScansOf
      <4>6. Of("SOS")' = Of("SOS")
        BY <1>0, <3>1, NothingSeen, SameHandled
      <4>7. \A c : ScansOf(c)' = ScansOf(c)
        BY <3>1, <4>6 DEF ScansOf
      <4>. QED BY <3>1, <4>4, <4>5, <4>7 DEF PastFirstScan
    <3>. QED BY <3>2, <3>3
  <2>10. CASE Abort
    BY <1>1, <2>10 DEF Abort
  <2>11. CASE UNCHANGED vars
    <3>1. /\ gs' = gs /\ torn' = torn /\ multi' = multi /\ scan' = scan /\ qtab' = qtab
          /\ compInfo' = compInfo
      BY <2>11 DEF vars
    <3>. QED BY <1>1, <2>1, <3>1
  <2>12. CASE SourceErrorInside
    BY <1>1, <2>12 DEF SourceErrorInside
  <2>. QED BY <1>4, <2>2, <2>3, <2>4, <2>5, <2>6, <2>7, <2>8, <2>9, <2>10, <2>11, <2>12
           DEF Next, CallStep, Failure, Client
<1>. QED BY <1>2, <1>3, <1>4

-----------------------------------------------------------------------------
(* A scan met later does not change which table was first.                  *)
LEMMA FirstStays ==
  ASSUME SrcTypeOK, stream' = stream, NEW p \in Nat, \A i \in Of("SOS") : i < p,
         Of("SOS")' = Of("SOS") \/ Of("SOS")' = Of("SOS") \cup {p}
  PROVE  \A c, t : TableAtFirstScan(c, t) => TableAtFirstScan(c, t)'
<1>. SUFFICES ASSUME NEW c, NEW t, TableAtFirstScan(c, t) PROVE TableAtFirstScan(c, t)'
  OBVIOUS
<1>1. PICK i \in ScansOf(c) : /\ \A j \in ScansOf(c) : i <= j
                              /\ \E d \in Before(i) : /\ \A e \in Before(i) : e <= d
                                                      /\ t = stream[d].tab
  BY DEF TableAtFirstScan
<1>2. i < p /\ i \in Nat
  BY <1>1, OfType DEF ScansOf
<1>3. i \in ScansOf(c)' /\ \A j \in ScansOf(c)' : i <= j
  <2>1. ScansOf(c)' = {j \in Of("SOS")' : c \in stream[j].comps}
    BY DEF ScansOf
  <2>2. ScansOf(c) = {j \in Of("SOS") : c \in stream[j].comps}
    BY DEF ScansOf
  <2>3. \A j \in ScansOf(c)' : j = p \/ j \in ScansOf(c)
    BY <2>1, <2>2
  <2>4. i \in ScansOf(c)'
    BY <1>1, <2>1, <2>2
  <2>. QED BY <1>1, <1>2, <2>3, <2>4
<1>4. Before(i)' = Before(i)
  BY DEF Before
<1>. QED BY <1>1, <1>3, <1>4 DEF TableAtFirstScan

LEMMA LatchedStep ==
  ASSUME IInv, SOIFirst, Fresh, Fresh', TableInForce, LatchedAtFirst, InHeader,
         AtFirstScan, PastFirstScan, [Next]_vars
  PROVE  LatchedAtFirst'
<1>. USE DEF srcVars, icVars, hdrVars, scanVars, outVars, apiVars, Return, Reading,
             Handling, BadState
<1>0. /\ TypeInv /\ SrcTypeOK /\ (call # "none" => gs # "start")
      /\ (call # "none" => gs # "ready")
      /\ pos \in Nat /\ pos + 1 \in Nat
  BY Called DEF IInv, TypeInv, TypeOK, AtFirstScan, SrcTypeOK
<1>1. CASE GetSOS
  <2>0. /\ stream' = stream /\ stream[pos] = Cur /\ Cur.m = "SOS"
        /\ Of("SOS")' = Of("SOS") \cup {pos} /\ \A i \in Of("SOS") : i < pos
        /\ ~torn /\ pos' = pos /\ ~unread'
    BY <1>1, ScanMet
  <2>1. \A c, t : TableAtFirstScan(c, t) => TableAtFirstScan(c, t)'
    BY <1>0, <2>0, FirstStays
  <2>2. CASE compInfo' = compInfo
    BY <2>1, <2>2 DEF LatchedAtFirst
  <2>3. CASE compInfo' = LatchQuantTables(Cur.comps) /\ inheaders = 0
    <3>1. gs \notin {"start", "inheader", "ready"}
      BY <1>0, <1>1, <2>0, <2>3 DEF GetSOS, InHeader
    <3>2. /\ qtab # NoTable
          /\ \A c \in DOMAIN compInfo : compInfo[c] = NoTable => ScansOf(c) = {}
      BY <2>0, <3>1 DEF PastFirstScan
    <3>3. \E d \in Before(pos) : /\ \A e \in Before(pos) : e <= d
                                 /\ qtab = stream[d].tab
      BY <1>0, <2>0, <3>2, InForceBefore
    <3>4. Before(pos)' = Before(pos)
      BY <2>0 DEF Before
    <3>5. ASSUME NEW c \in DOMAIN compInfo', compInfo'[c] # NoTable
          PROVE  TableAtFirstScan(c, compInfo[c])'
      <4>1. c \in DOMAIN compInfo
        BY <2>3, <3>5 DEF LatchQuantTables
      <4>2. CASE compInfo'[c] = compInfo[c]
        BY <2>1, <3>5, <4>1, <4>2 DEF LatchedAtFirst
      <4>3. CASE compInfo'[c] # compInfo[c]
        <5>1. compInfo[c] = NoTable /\ compInfo'[c] = qtab /\ c \in Cur.comps
          BY <2>3, <4>1, <4>3 DEF LatchQuantTables
        <5>2. ScansOf(c)' = {pos}
          BY <2>0, <3>2, <4>1, <5>1 DEF ScansOf
        <5>. QED BY <1>0, <2>0, <3>3, <3>4, <5>1, <5>2 DEF TableAtFirstScan
      <4>. QED BY <4>2, <4>3
    <3>. QED BY <3>5 DEF LatchedAtFirst
  <2>. QED BY <1>1, <2>2, <2>3 DEF GetSOS, FirstSOS, LaterSOS
<1>2. CASE GetSOI /\ ~sawSOI
  <2>1. compInfo' = compInfo /\ DOMAIN compInfo = {}
    BY <1>2, ImageBegins DEF Fresh
  <2>. QED BY <2>1 DEF LatchedAtFirst
<1>3. CASE ~GetSOS /\ ~(GetSOI /\ ~sawSOI)
  <2>0. stream' = stream /\ (~sawSOI' \/ (sawSOI /\ Of("SOS")' = Of("SOS")))
    BY <1>3, ScansKept
  <2>1. CASE ~sawSOI'
    BY <2>1 DEF Fresh, LatchedAtFirst
  <2>2. CASE sawSOI'
    <3>0. Of("SOS")' = Of("SOS") /\ \A i \in Of("SOS") : i < pos + 1
      BY <1>0, <2>0, <2>2, OfType
    <3>1. \A c, t : TableAtFirstScan(c, t) => TableAtFirstScan(c, t)'
      BY <1>0, <2>0, <3>0, FirstStays
    <3>2. ASSUME compInfo' = compInfo \/ \A c \in DOMAIN compInfo' : compInfo'[c] = NoTable
          PROVE  LatchedAtFirst'
      BY <3>1, <3>2 DEF LatchedAtFirst
    <3>3. CASE SourceError
      BY <3>2, <3>3 DEF SourceError
    <3>4. CASE EndOfSource \/ UnsupportedSOF \/ RejectSOS
      BY <3>2, <3>4 DEF EndOfSource, UnsupportedSOF, RejectSOS
    <3>5. CASE FirstMarker \/ NextMarker
      BY <3>2, <3>5 DEF FirstMarker, NextMarker
    <3>6. CASE GetSOI
      BY <3>2, <3>6 DEF GetSOI
    <3>7. CASE GetSOF
      BY <3>2, <3>7 DEF GetSOF
    <3>8. CASE GetSegment
      BY <3>2, <3>8 DEF GetSegment
    <3>9. CASE GetEOI
      BY <3>2, <3>9 DEF GetEOI
    <3>10. CASE AtEOI
      <4>1. compInfo' = compInfo \/ compInfo' = NilInfo
        BY <3>10 DEF AtEOI, Reset
      <4>. QED BY <3>2, <4>1, NilInfoType
    <3>11. CASE ReadHeader \/ ConsumeInput
      <4>1. compInfo' = compInfo \/ compInfo' = NilInfo
        BY <3>11 DEF ReadHeader, ConsumeInput, EnterConsume, ResetInputController
      <4>. QED BY <3>2, <4>1, NilInfoType
    <3>12. CASE SetParameters \/ \E n \in 1..Height : ReadLines(n)
      BY <3>2, <3>12 DEF SetParameters, ReadLines
    <3>13. CASE StartInputPass
      <4>0. /\ UNCHANGED <<gs, torn, qtab>> /\ ~torn /\ gs \notin {"start", "inheader"}
            /\ UNCHANGED <<stream, pos, unread>>
        BY <3>13 DEF StartInputPass, Idle
      <4>1. CASE compInfo' = compInfo
        BY <3>2, <4>1
      <4>2. CASE compInfo' = LatchQuantTables(scan)
        <5>1. ASSUME NEW c \in DOMAIN compInfo', compInfo'[c] # NoTable
              PROVE  TableAtFirstScan(c, compInfo[c])'
          <6>1. c \in DOMAIN compInfo
            BY <4>2, <5>1 DEF LatchQuantTables
          <6>2. CASE compInfo'[c] = compInfo[c]
            BY <3>1, <5>1, <6>1, <6>2 DEF LatchedAtFirst
          <6>3. CASE compInfo'[c] # compInfo[c]
            <7>1. compInfo[c] = NoTable /\ compInfo'[c] = qtab /\ c \in scan
              BY <4>2, <6>1, <6>3 DEF LatchQuantTables
            <7>2. gs = "ready"
              BY <4>0, <6>1, <7>1 DEF PastFirstScan
            <7>3. /\ pos \in Of("SOS") /\ scan = stream[pos].comps
                  /\ \A i \in Of("SOS") : stream[i].comps # {} => i = pos
              BY <4>0, <7>2 DEF AtFirstScan
            <7>4. ScansOf(c)' = {pos}
              BY <2>0, <3>0, <7>1, <7>3 DEF ScansOf
            <7>5. stream[pos].m = "SOS"
              BY <7>3 DEF Of
            <7>6. \E d \in Before(pos) : /\ \A e \in Before(pos) : e <= d
                                         /\ qtab = stream[d].tab
              BY <1>0, <4>0, <5>1, <7>1, <7>5, InForceBefore
            <7>7. Before(pos)' = Before(pos)
              BY <4>0 DEF Before
            <7>. QED BY <1>0, <4>0, <7>1, <7>4, <7>6, <7>7 DEF TableAtFirstScan
          <6>. QED BY <6>2, <6>3
        <5>. QED BY <5>1 DEF LatchedAtFirst
      <4>. QED BY <3>13, <4>1, <4>2 DEF StartInputPass
    <3>14. CASE StartDecompress \/ FinishDecompress
      <4>1. compInfo' = compInfo
        BY <3>14 DEF StartDecompress, OutputPassSetup, FinishDecompress, ReadUntilEOI
      <4>. QED BY <3>2, <4>1
    <3>15. CASE Abort
      BY <3>2, <3>15, NilInfoType DEF Abort, ResetInputController
    <3>16. CASE UNCHANGED vars
      BY <3>2, <3>16 DEF vars
    <3>17. CASE SourceErrorInside
      <4>1. compInfo' = compInfo \/ \A c \in DOMAIN compInfo' : compInfo'[c] = NoTable
        BY <3>17 DEF SourceErrorInside, PartialSOF
      <4>. QED BY <3>2, <4>1
    <3>. QED BY <1>3, <3>3, <3>4, <3>5, <3>6, <3>7, <3>8, <3>9, <3>10, <3>11, <3>12, <3>13,
                <3>14, <3>15, <3>16, <3>17 DEF Next, CallStep, Failure, Client
  <2>. QED BY <2>1, <2>2
<1>. QED BY <1>1, <1>2, <1>3

-----------------------------------------------------------------------------
LEMMA LatchInvInit == Init => LatchInv
<1>. SUFFICES ASSUME Init PROVE LatchInv
  OBVIOUS
<1>1. DOMAIN compInfo = {} /\ SOIFirst /\ Started /\ Fresh /\ IInv
  BY IInvInit, NilInfoType DEF Init, SOIFirst, Started, Fresh
<1>2. Tabled = {}
  BY DEF Init, Tabled, Seen
<1>. QED BY <1>1, <1>2 DEF Init, LatchInv, TableInForce, LatchedAtFirst, InHeader, AtFirstScan,
         PastFirstScan

LEMMA LatchInvStep == LatchInv /\ [Next]_vars => LatchInv'
<1>. SUFFICES ASSUME LatchInv, [Next]_vars PROVE LatchInv'
  OBVIOUS
<1>1. /\ IInv /\ SOIFirst /\ Started /\ Fresh
      /\ TableInForce /\ LatchedAtFirst /\ InHeader /\ AtFirstScan /\ PastFirstScan
  BY DEF LatchInv
<1>2. IInv' /\ SOIFirst' /\ Started' /\ Fresh' /\ TableInForce'
  BY <1>1, IInvStep, FreshStep, TableStep
<1>3. InHeader' /\ AtFirstScan' /\ PastFirstScan' /\ LatchedAtFirst'
  BY <1>1, <1>2, HeaderScanStep, PastStep, LatchedStep
<1>. QED BY <1>2, <1>3 DEF LatchInv

LEMMA LatchInvImplies == LatchInv => TableLatched
<1>. SUFFICES ASSUME LatchInv, NEW c \in DOMAIN compInfo, compInfo[c] # NoTable
     PROVE  compInfo[c] = stream[Max({i \in 1..FirstScanOf(c) : stream[i].m = "DQT"})].tab
  BY DEF TableLatched
<1>1. PICK i \in ScansOf(c) :
         /\ \A j \in ScansOf(c) : i <= j
         /\ \E d \in Before(i) : /\ \A e \in Before(i) : e <= d
                                 /\ compInfo[c] = stream[d].tab
  BY DEF LatchInv, LatchedAtFirst, TableAtFirstScan
<1>2. SrcTypeOK /\ ScansOf(c) \in SUBSET Int
  BY OfType DEF LatchInv, IInv, TypeInv, TypeOK, ScansOf
<1>3. Min(ScansOf(c)) = i
  BY ONLY <1>1, <1>2, MinIs
<1>4. FirstScanOf(c) = i
  BY <1>3 DEF FirstScanOf, ScansOf
<1>5. PICK d \in Before(i) : /\ \A e \in Before(i) : e <= d
                             /\ compInfo[c] = stream[d].tab
  BY <1>1
<1>6. Before(i) \in SUBSET Int
  BY DEF Before
<1>7. Max(Before(i)) = d
  BY ONLY <1>5, <1>6, MaxIs
<1>. QED BY <1>4, <1>5, <1>7 DEF Before

(* The table saved for a component is the one its first scan began with,    *)
(* whatever tables, scans, failures and calls follow.                       *)
THEOREM TableLatchedHolds == Spec => []TableLatched
BY LatchInvInit, LatchInvStep, LatchInvImplies, PTL DEF Spec
=============================================================================
