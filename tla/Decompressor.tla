---------------------------- MODULE Decompressor ----------------------------
(***************************************************************************)
(* The marker-level decompressor of internal/marker: the marker reader     *)
(* (readMarkers and its handlers), the input controller (consumeMarkers)   *)
(* and the API state machine of jdapimin.c / jdapistd.c (api.go).          *)
(*                                                                         *)
(* A datastream is a sequence of segments.  A segment has a marker code,   *)
(* collected into UnreadMarker, and a payload, read by the handler of that *)
(* marker; the source may fail before either part or inside of it.  One    *)
(* API call is a sequence of steps, one per marker handled, between the    *)
(* client's action that makes the call and the step that returns from it.  *)
(***************************************************************************)
EXTENDS Integers, Sequences, FiniteSets, FiniteSetsExt

CONSTANTS
  Comp,     (* component identifiers                                        *)
  Tables,   (* quantization tables a DQT segment can define                 *)
  NoTable,  (* the nil table pointer                                        *)
  Streams,  (* the datastreams a source can hold                            *)
  Height    (* OutputHeight of the images                                   *)

(* Marker classes: readMarkers treats the members of one class alike.       *)
(*   MISC  DHT, DAC, DNL, COM and unknown markers                           *)
(*   SOFX  the SOF types the reader rejects                                 *)
(*   DATA  entropy-coded data, parameterless markers and other bytes that   *)
(*         are passed over between markers                                  *)
Bare    == {"SOI", "EOI", "DATA"}                       \* nothing follows
Segments == {"SOF", "SOFX", "SOS", "DQT", "DRI", "APP", "MISC"}
Markers == Bare \cup Segments

(* comps: the components named by a SOF or SOS.  val: the interval of a     *)
(* DRI; for a SOF, 1 if initialSetup rejects the frame, 2 if only           *)
(* masterSelection does (12-bit samples), else 0.  ok: the payload parses.  *)
Segment == {s \in [m : Markers, prog : BOOLEAN, comps : SUBSET Comp, val : Nat,
                   tab : Tables \cup {NoTable}, ok : BOOLEAN] :
              s.m = "DQT" => s.tab # NoTable}

ASSUME ConstantsAssumption ==
  /\ NoTable \notin Tables
  /\ IsFiniteSet(Comp)
  /\ Height \in Nat \ {0}
  /\ Streams \subseteq Seq(Segment)

VARIABLES
  stream,    \* d.Src: the whole datastream
  pos,       \* segments whose marker code has been consumed
  unread,    \* d.UnreadMarker # 0: the payload of stream[pos] is pending
  torn,      \* the source is inside a payload or a marker code given up on
  sawSOI,    \* mr.SawSOI
  sawSOF,    \* mr.SawSOF
  inheaders, \* ic.inheaders
  eoi,       \* ic.EOIReached
  multi,     \* ic.HasMultipleScans
  frame,     \* ProgressiveMode, NumComponents and validity of the last SOF
  compInfo,  \* d.CompInfo: component |-> its QuantTable
  qtab,      \* d.QuantTbls: the table in force
  ri,        \* d.RestartInterval
  saved,     \* length of d.MarkerList
  scan,      \* d.CurCompInfo[:d.CompsInScan]
  inScan,    \* d.InputScanNumber
  outScan,   \* d.OutputScanNumber
  gs,        \* d.GlobalState
  line,      \* d.OutputScanline
  raw,       \* d.RawDataOut
  buffered,  \* d.BufferedImage
  call,      \* the API call in progress
  ret        \* what the last API call returned

srcVars  == <<pos, unread, torn>>
icVars   == <<sawSOI, sawSOF, inheaders, eoi, multi>>
hdrVars  == <<frame, compInfo, qtab, ri, saved>>
scanVars == <<scan, inScan, outScan>>
outVars  == <<gs, line, raw, buffered>>
apiVars  == <<call, ret>>
vars == <<stream, srcVars, icVars, hdrVars, scanVars, outVars, apiVars>>

GlobalStates == {"start", "inheader", "ready", "preload", "scanning",
                 "rawok", "bufimage", "stopping"}
Calls == {"none", "header", "requireImage", "consume", "start", "finish"}
Returns == {"none", "ok", "headerOK", "tablesOnly", "reachedSOS",
            "reachedEOI", "finished", "badState", "source", "format",
            "noImage", "frame", "tooLittle"}

Cur == stream[pos]
NilInfo == [c \in {} |-> NoTable]

-----------------------------------------------------------------------------
(* NewDecompressor followed by SetSource.                                   *)
Init ==
  /\ stream \in Streams
  /\ pos = 0 /\ unread = FALSE /\ torn = FALSE
  /\ sawSOI = FALSE /\ sawSOF = FALSE
  /\ inheaders = 1 /\ eoi = FALSE /\ multi = FALSE
  /\ frame = [prog |-> FALSE, num |-> 0, val |-> 0]
  /\ compInfo = NilInfo /\ qtab = NoTable /\ ri = 0 /\ saved = 0
  /\ scan = {} /\ inScan = 0 /\ outScan = 0
  /\ gs = "start" /\ line = 0 /\ raw = FALSE /\ buffered = FALSE
  /\ call = "none" /\ ret = "none"

Return(r) == call' = "none" /\ ret' = r

(* Reset, from jpeg_abort: NumComponents and the tables survive.            *)
Reset == gs' = "start" /\ compInfo' = NilInfo /\ saved' = 0

(* resetInputController and resetMarkerReader.                              *)
ResetInputController ==
  /\ sawSOI' = FALSE /\ sawSOF' = FALSE
  /\ inheaders' = 1 /\ eoi' = FALSE /\ multi' = FALSE
  /\ compInfo' = NilInfo /\ inScan' = 0 /\ unread' = FALSE

(* Mutant: every scan latches the table now in force.                       *)
RelatchQuantTables(cs) ==
  [c \in DOMAIN compInfo |-> IF c \in cs THEN qtab ELSE compInfo[c]]

(* latchQuantTables: a component keeps the table of its first scan.         *)
LatchQuantTables(cs) ==
  [c \in DOMAIN compInfo |->
     IF c \in cs /\ compInfo[c] = NoTable THEN qtab ELSE compInfo[c]]
CanLatch(cs) == qtab # NoTable \/ \A c \in cs : compInfo[c] # NoTable

(* Mutant: the pass is set up but left in DStatePreScan.                    *)
OutputPassSetupStops == outScan' = inScan /\ line' = 0 /\ gs' = "prescan"

(* outputPassSetup, reached with OutputScanNumber set by StartDecompress.   *)
OutputPassSetup ==
  /\ outScan' = inScan
  /\ line' = 0
  /\ gs' = IF raw THEN "rawok" ELSE "scanning"

-----------------------------------------------------------------------------
(* readMarkers: steps of a call that is consuming markers.                  *)
Reading == call # "none" /\ ~eoi /\ ~torn

(* A payload is pending that its handler reads from the source.             *)
PayloadRead ==
  /\ unread /\ Cur.m \in Segments \ {"SOFX"}
  /\ Cur.m = "SOS" => sawSOF

(* The reader fails before a marker code or before a payload; nothing is    *)
(* consumed, and a collected marker stays in UnreadMarker.  getSOF has      *)
(* stored the coding mode before its first read.                            *)
SourceError ==
  /\ Reading
  /\ unread => PayloadRead
  /\ Return("source")
  /\ frame' = IF unread /\ Cur.m = "SOF" THEN [frame EXCEPT !.prog = Cur.prog]
              ELSE frame
  /\ UNCHANGED <<stream, srcVars, icVars, compInfo, qtab, ri, saved, scanVars,
                 outVars>>

(* getSOF stores the fields as it reads them, NumComponents last, and makes *)
(* the component array before it reads the components.                      *)
PartialSOF ==
  \/ /\ frame' \in [prog : {Cur.prog}, num : {frame.num}, val : {frame.val, Cur.val}]
     /\ UNCHANGED compInfo
  \/ /\ ~sawSOF /\ Cur.ok
     /\ frame' = [prog |-> Cur.prog, num |-> Cardinality(Cur.comps), val |-> Cur.val]
     /\ compInfo' = [c \in Cur.comps |-> NoTable]

(* The reader fails inside a payload, or between the bytes of a marker      *)
(* code.  UnreadMarker stays, though part of what it announces is gone, and *)
(* so does what the handler has stored: fields of a frame, CompsInScan, a   *)
(* saved marker whose rest was to be skipped.  (A table cut in the middle   *)
(* is not told apart: torn rules out every step that would use it.)         *)
SourceErrorInside ==
  /\ Reading
  /\ PayloadRead \/ (~unread /\ pos < Len(stream))
  /\ torn' = TRUE
  /\ Return("source")
  /\ IF unread /\ Cur.m = "SOF" THEN PartialSOF ELSE UNCHANGED <<frame, compInfo>>
  /\ \/ UNCHANGED scan
     \/ unread /\ Cur.m = "SOS" /\ Cur.ok /\ (Cur.comps = {} => frame.prog) /\ scan' = Cur.comps
  /\ \/ UNCHANGED saved
     \/ unread /\ Cur.m = "APP" /\ saved' = saved + 1
  /\ UNCHANGED <<stream, pos, unread, icVars, qtab, ri, inScan, outScan, outVars>>

(* The source fails (readMarkers returns the error of the reader).          *)
Failure == SourceError \/ SourceErrorInside

(* Mutant: an exhausted source is taken for an empty read and read again.   *)
EndOfSourceSpins == Reading /\ ~unread /\ pos = Len(stream) /\ UNCHANGED vars

(* The source is exhausted.                                                 *)
EndOfSource ==
  /\ Reading /\ ~unread /\ pos = Len(stream)
  /\ Return("source")
  /\ UNCHANGED <<stream, srcVars, icVars, hdrVars, scanVars, outVars>>

FirstMarker ==
  /\ Reading /\ ~unread /\ ~sawSOI /\ pos < Len(stream)
  /\ pos' = pos + 1
  /\ IF stream[pos + 1].m = "SOI"
     THEN unread' = TRUE /\ UNCHANGED <<torn, apiVars>>
     ELSE /\ unread' = FALSE /\ Return("format")
          /\ IF stream[pos + 1].m \in Segments THEN torn' = TRUE ELSE UNCHANGED torn
  /\ UNCHANGED <<stream, icVars, hdrVars, scanVars, outVars>>

NextMarker ==
  /\ Reading /\ ~unread /\ sawSOI /\ pos < Len(stream)
  /\ pos' = pos + 1
  /\ unread' = (stream[pos + 1].m # "DATA")
  /\ UNCHANGED <<stream, torn, icVars, hdrVars, scanVars, outVars, apiVars>>

Handling(m) == Reading /\ unread /\ Cur.m = m

(* Mutant: the restart interval of the previous image stays in force.       *)
KeepInterval == UNCHANGED ri

ResetBySOI == ri' = 0

GetSOI ==
  /\ Handling("SOI")
  /\ IF sawSOI THEN Return("format") /\ UNCHANGED <<unread, sawSOI, ri>>
     ELSE unread' = FALSE /\ sawSOI' = TRUE /\ ResetBySOI /\ UNCHANGED apiVars
  /\ UNCHANGED <<stream, pos, torn, sawSOF, inheaders, eoi, multi, frame,
                 compInfo, qtab, saved, scanVars, outVars>>

(* The coding mode and the component count are stored before any check.     *)
GetSOF ==
  /\ Handling("SOF")
  /\ frame' = [prog |-> Cur.prog, num |-> Cardinality(Cur.comps), val |-> Cur.val]
  /\ IF sawSOF \/ ~Cur.ok
     THEN torn' = TRUE /\ Return("format") /\ UNCHANGED <<unread, sawSOF, compInfo>>
     ELSE /\ compInfo' = [c \in Cur.comps |-> NoTable]
          /\ unread' = FALSE /\ sawSOF' = TRUE
          /\ UNCHANGED <<torn, apiVars>>
  /\ UNCHANGED <<stream, pos, sawSOI, inheaders, eoi, multi, qtab, ri, saved,
                 scanVars, outVars>>

UnsupportedSOF ==
  /\ Handling("SOFX")
  /\ Return("format")
  /\ UNCHANGED <<stream, srcVars, icVars, hdrVars, scanVars, outVars>>

-----------------------------------------------------------------------------
(* consumeMarkers: what follows a SOS that getSOS accepted.                 *)

(* consumeMarkers hands JPEG_REACHED_SOS to its caller: ConsumeInput moves  *)
(* on to Ready with the default parameters, StartDecompress and             *)
(* FinishDecompress go round their loops.                                   *)
ReturnSOS ==
  \/ /\ call \in {"header", "requireImage", "consume"} /\ gs = "inheader"
     /\ gs' = "ready" /\ raw' = FALSE /\ buffered' = FALSE /\ UNCHANGED line
     /\ Return(IF call = "consume" THEN "reachedSOS" ELSE "headerOK")
  \/ /\ call = "consume" /\ gs # "inheader"
     /\ Return("reachedSOS") /\ UNCHANGED outVars
  \/ /\ call \in {"start", "finish"}
     /\ UNCHANGED <<outVars, apiVars>>

(* 1st SOS: initialSetup, then either the header ends here or this was a    *)
(* pseudo SOS.                                                              *)
FirstSOS ==
  /\ inheaders # 0
  /\ IF inheaders = 1 /\ frame.val = 1
     THEN Return("frame") /\ UNCHANGED <<multi, inheaders, outVars>>
     ELSE /\ multi' = IF inheaders = 1
                      THEN Cardinality(Cur.comps) < frame.num \/ frame.prog
                      ELSE multi
          /\ IF Cur.comps = {}
             THEN inheaders' = 2 /\ UNCHANGED <<outVars, apiVars>>
             ELSE inheaders' = 0 /\ ReturnSOS
  /\ UNCHANGED compInfo

LaterSOS ==
  /\ inheaders = 0
  /\ \/ /\ ~multi
        /\ Return("format") /\ UNCHANGED <<compInfo, outVars>>
     \/ /\ multi /\ Cur.comps = {}
        /\ UNCHANGED <<compInfo, outVars, apiVars>>
     \/ /\ multi /\ Cur.comps # {} /\ ~CanLatch(Cur.comps)
        /\ Return("frame") /\ UNCHANGED <<compInfo, outVars>>
     \/ /\ multi /\ Cur.comps # {} /\ CanLatch(Cur.comps)
        /\ compInfo' = LatchQuantTables(Cur.comps)
        /\ ReturnSOS
  /\ UNCHANGED <<multi, inheaders>>

\* Mutant: the components of a scan are not looked up in the frame.
SOSAcceptedUnchecked == sawSOF /\ Cur.ok /\ (Cur.comps = {} => frame.prog)

SOSAccepted == /\ sawSOF /\ Cur.ok
               /\ Cur.comps = {} => frame.prog
               /\ Cur.comps \subseteq DOMAIN compInfo

GetSOS ==
  /\ Handling("SOS") /\ SOSAccepted
  /\ scan' = Cur.comps
  /\ inScan' = IF Cur.comps = {} THEN inScan ELSE inScan + 1
  /\ unread' = FALSE
  /\ FirstSOS \/ LaterSOS
  /\ UNCHANGED <<stream, pos, torn, sawSOI, sawSOF, eoi, frame, qtab, ri, saved,
                 outScan>>

(* A SOS before any SOF is refused before its payload is read; another bad  *)
(* SOS leaves the source inside the payload, and one that names an unknown  *)
(* component has replaced CompsInScan by then.                              *)
RejectSOS ==
  /\ Handling("SOS") /\ ~SOSAccepted
  /\ torn' = sawSOF
  /\ scan' = IF sawSOF /\ Cur.ok /\ Cur.comps # {} THEN Cur.comps ELSE scan
  /\ Return("format")
  /\ UNCHANGED <<stream, pos, unread, icVars, hdrVars, inScan, outScan, outVars>>

GetEOI ==
  /\ Handling("EOI")
  /\ unread' = FALSE
  /\ eoi' = TRUE
  /\ IF inheaders # 0
     THEN /\ IF sawSOF THEN Return("format") ELSE UNCHANGED apiVars
          /\ UNCHANGED outScan
     ELSE /\ outScan' = Min({outScan, inScan})
          /\ UNCHANGED apiVars
  /\ UNCHANGED <<stream, pos, torn, sawSOI, sawSOF, inheaders, multi, hdrVars,
                 scan, inScan, outVars>>

(* The table and miscellaneous segments.                                    *)
GetSegment ==
  /\ \/ Handling("DQT") \/ Handling("DRI") \/ Handling("APP") \/ Handling("MISC")
  /\ IF Cur.ok
     THEN /\ unread' = FALSE
          /\ qtab' = IF Cur.m = "DQT" THEN Cur.tab ELSE qtab
          /\ ri' = IF Cur.m = "DRI" THEN Cur.val ELSE ri
          /\ saved' = IF Cur.m = "APP" THEN saved + 1 ELSE saved
          /\ UNCHANGED <<torn, apiVars>>
     ELSE /\ torn' = TRUE
          /\ Return("format")
          /\ UNCHANGED <<unread, qtab, ri, saved>>
  /\ UNCHANGED <<stream, pos, icVars, frame, compInfo, scanVars, outVars>>

(* consumeMarkers has reported EOI to the API call in progress.             *)
AtEOI ==
  /\ call # "none" /\ eoi
  /\ \/ /\ call = "requireImage"
        /\ Return("noImage")
        /\ UNCHANGED <<compInfo, saved, outScan, outVars>>
     \/ /\ call = "header"
        /\ Return("tablesOnly") /\ Reset
        /\ UNCHANGED <<outScan, line, raw, buffered>>
     \/ /\ call = "consume"
        /\ Return("reachedEOI")
        /\ UNCHANGED <<compInfo, saved, outScan, outVars>>
     \/ /\ call = "start"
        /\ Return("ok") /\ OutputPassSetup
        /\ UNCHANGED <<compInfo, saved, raw, buffered>>
     \/ /\ call = "finish"
        /\ Return("finished") /\ Reset
        /\ UNCHANGED <<outScan, line, raw, buffered>>
  /\ UNCHANGED <<stream, srcVars, icVars, frame, qtab, ri, scan, inScan>>

(* The steps a call in progress takes by itself.                            *)
CallStep ==
  \/ EndOfSource \/ FirstMarker \/ NextMarker \/ AtEOI
  \/ GetSOI \/ GetSOF \/ UnsupportedSOF \/ GetSOS \/ RejectSOS \/ GetEOI
  \/ GetSegment

-----------------------------------------------------------------------------
(* The client's calls.  Once a handler gave up inside a payload the code    *)
(* would parse what follows from there; the client is only followed to its  *)
(* Abort.                                                                   *)
Idle == call = "none" /\ ~torn

BadState ==
  /\ Return("badState")
  /\ UNCHANGED <<stream, srcVars, icVars, hdrVars, scanVars, outVars>>

(* The DStateStart arm of ConsumeInput, or its fallthrough target.          *)
EnterConsume(c) ==
  /\ call' = c /\ ret' = "none"
  /\ IF gs = "start"
     THEN /\ ResetInputController /\ gs' = "inheader"
          /\ UNCHANGED <<line, raw, buffered, pos, torn>>
     ELSE UNCHANGED <<icVars, compInfo, inScan, outVars, srcVars>>
  /\ UNCHANGED <<stream, frame, qtab, ri, saved, scan, outScan>>

ReadHeader ==
  /\ Idle
  /\ IF gs \in {"start", "inheader"}
     THEN EnterConsume("header") \/ EnterConsume("requireImage")
     ELSE BadState

ConsumeInput ==
  /\ Idle
  /\ IF gs = "ready"
     THEN Return("reachedSOS")
          /\ UNCHANGED <<stream, srcVars, icVars, hdrVars, scanVars, outVars>>
     ELSE EnterConsume("consume")

(* The decoder stores RawDataOut before it starts; an application of the    *)
(* marker package may choose BufferedImage.                                 *)
SetParameters ==
  /\ Idle /\ gs = "ready"
  /\ raw' \in BOOLEAN /\ buffered' \in BOOLEAN
  /\ UNCHANGED <<stream, srcVars, icVars, hdrVars, scanVars, gs, line, apiVars>>

(* StartInputPass, which internal/decoder calls before StartDecompress.     *)
StartInputPass ==
  /\ Idle /\ gs \notin {"start", "inheader"}
  /\ IF CanLatch(scan)
     THEN Return("ok") /\ compInfo' = LatchQuantTables(scan)
     ELSE Return("frame") /\ UNCHANGED compInfo
  /\ UNCHANGED <<stream, srcVars, icVars, frame, qtab, ri, saved, scanVars, outVars>>

PassStarted == \A c \in scan : compInfo[c] # NoTable

(* Mutant: only progressive images have scans to absorb.                    *)
AbsorbProgressive == frame.prog

AbsorbScans == multi

(* StartDecompress: masterSelection, then absorb the other scans.           *)
StartDecompress ==
  /\ Idle
  /\ gs \in {"ready", "preload"} => PassStarted
  /\ \/ gs \notin {"ready", "preload"} /\ BadState
     \/ /\ gs = "ready" /\ frame.val = 2
        /\ Return("frame")
        /\ UNCHANGED <<stream, srcVars, icVars, hdrVars, scanVars, outVars>>
     \/ /\ gs = "ready" /\ frame.val # 2 /\ buffered
        /\ Return("ok") /\ gs' = "bufimage"
        /\ UNCHANGED <<stream, srcVars, icVars, hdrVars, scanVars, line, raw, buffered>>
     \/ /\ gs = "ready" => frame.val # 2 /\ ~buffered
        /\ gs \in {"ready", "preload"} /\ AbsorbScans
        /\ call' = "start" /\ ret' = "none" /\ gs' = "preload"
        /\ UNCHANGED <<stream, srcVars, icVars, hdrVars, scanVars, line, raw, buffered>>
     \/ /\ gs = "ready" => frame.val # 2 /\ ~buffered
        /\ gs \in {"ready", "preload"} /\ ~AbsorbScans
        /\ Return("ok") /\ OutputPassSetup
        /\ UNCHANGED <<stream, srcVars, icVars, hdrVars, scan, inScan, raw, buffered>>

(* ReadScanlines: the scanline reader delivers at most the lines that are   *)
(* left.  A raw-data read delivers the n lines of a whole iMCU row, the     *)
(* last of which may lie below the image.                                   *)
ReadLines(n) ==
  /\ Idle
  /\ IF gs \in {"scanning", "rawok"}
     THEN /\ Return("ok")
          /\ line' = IF line >= Height THEN line
                     ELSE IF gs = "rawok" THEN line + n
                     ELSE Min({line + n, Height})
          /\ UNCHANGED <<stream, srcVars, icVars, hdrVars, scanVars, gs, raw, buffered>>
     ELSE BadState

(* Mutant: a pass may be ended before its last line.                        *)
PassMayEnd == TRUE

PassComplete == line >= Height

(* Mutant: the rest of the input is left unread.                            *)
FinishWithoutEOI == Return("finished") /\ Reset

ReadUntilEOI ==
  /\ gs' = "stopping" /\ call' = "finish" /\ ret' = "none"
  /\ UNCHANGED <<compInfo, saved>>

FinishDecompress ==
  /\ Idle
  /\ \/ /\ gs \in {"scanning", "rawok"} /\ ~PassComplete
        /\ Return("tooLittle") /\ UNCHANGED <<gs, compInfo, saved>>
     \/ /\ gs \in {"scanning", "rawok"} => PassComplete
        /\ gs \in {"scanning", "rawok", "bufimage", "stopping"}
        /\ ReadUntilEOI
     \/ /\ gs \notin {"scanning", "rawok", "bufimage", "stopping"}
        /\ Return("badState") /\ UNCHANGED <<gs, compInfo, saved>>
  /\ UNCHANGED <<stream, srcVars, icVars, frame, qtab, ri, scanVars, line, raw,
                 buffered>>

(* Abort drops a collected marker but not its payload.                      *)
Abort ==
  /\ call = "none"
  /\ torn' = (torn \/ (unread /\ Cur.m \in Segments))
  /\ ResetInputController
  /\ gs' = "start" /\ saved' = 0
  /\ frame' = [frame EXCEPT !.prog = FALSE, !.num = 0]
  /\ ri' = 0 /\ outScan' = 0 /\ line' = 0 /\ ret' = "none"
  /\ UNCHANGED <<stream, pos, qtab, scan, raw, buffered, call>>

Client ==
  \/ ReadHeader \/ ConsumeInput \/ SetParameters \/ StartInputPass
  \/ StartDecompress \/ FinishDecompress \/ Abort
  \/ \E n \in 1..Height : ReadLines(n)

Next == CallStep \/ Failure \/ Client

(* A call runs to its return: the code has no blocking step of its own.     *)
Spec == Init /\ [][Next]_vars /\ WF_vars(CallStep)

-----------------------------------------------------------------------------
SrcTypeOK == /\ stream \in Streams
             /\ pos \in Nat /\ pos <= Len(stream)
             /\ unread \in BOOLEAN /\ torn \in BOOLEAN
IcTypeOK == /\ sawSOI \in BOOLEAN /\ sawSOF \in BOOLEAN
            /\ inheaders \in {0, 1, 2} /\ eoi \in BOOLEAN /\ multi \in BOOLEAN
HdrTypeOK == /\ frame \in [prog : BOOLEAN, num : Nat, val : Nat]
             /\ DOMAIN compInfo \subseteq Comp
             /\ compInfo \in [DOMAIN compInfo -> Tables \cup {NoTable}]
             /\ qtab \in Tables \cup {NoTable} /\ ri \in Nat /\ saved \in Nat
ScanTypeOK == scan \subseteq Comp /\ inScan \in Nat /\ outScan \in Nat
OutTypeOK == /\ gs \in GlobalStates /\ line \in Nat
             /\ raw \in BOOLEAN /\ buffered \in BOOLEAN
ApiTypeOK == call \in Calls /\ ret \in Returns

(* Every variable has its type: in particular the state machine never       *)
(* rests in a GlobalState no API call accepts, as DStatePreScan would be.    *)
TypeOK == SrcTypeOK /\ IcTypeOK /\ HdrTypeOK /\ ScanTypeOK /\ OutTypeOK /\ ApiTypeOK

(* The segments that have been handled, which one with its payload pending  *)
(* is not, and those among them of the current image: no SOI comes after.   *)
Seen == {i \in 1..pos : i < pos \/ ~unread}
Handled == {i \in Seen : \A j \in Seen : stream[j].m = "SOI" => j <= i}
Of(m) == {i \in Handled : stream[i].m = m}

(* The header state is that of the segments handled since the image's SOI,  *)
(* whatever the previous image or an abandoned call left behind and however *)
(* often the source failed before a marker or before a payload: the restart *)
(* interval, the scan count and the saved markers (getSOI, getDRI, getSOS,  *)
(* saveMarker).  Of a source that failed inside a payload (torn) nothing is *)
(* claimed: the code keeps UnreadMarker and would read on in the middle.    *)
HeaderReflectsStream ==
  sawSOI /\ ~torn =>
    /\ ri = IF Of("DRI") = {} THEN 0 ELSE stream[Max(Of("DRI"))].val
    /\ inScan = Cardinality({i \in Of("SOS") : stream[i].comps # {}})
    /\ gs # "start" => saved = Cardinality(Of("APP"))

(* The table saved for a component is the one that was in force when its    *)
(* first scan began, even if a later DQT redefined it (latchQuantTables).   *)
FirstScanOf(c) == Min({i \in Of("SOS") : c \in stream[i].comps})
TableLatched ==
  \A c \in DOMAIN compInfo : compInfo[c] # NoTable =>
    LET before == {i \in 1..FirstScanOf(c) : stream[i].m = "DQT"}
    IN  compInfo[c] = stream[Max(before)].tab

(* From Ready on the component array is that of the frame, and every        *)
(* component of the current scan is in it (getSOF, getSOS, Component).      *)
ComponentsMatch ==
  gs \notin {"start", "inheader"} /\ ~torn =>
    /\ Cardinality(DOMAIN compInfo) = frame.num
    /\ scan \subseteq DOMAIN compInfo

(* Lines of a multi-scan image are only delivered once every scan has been  *)
(* read and counted (StartDecompress absorbs the scans in Preload).         *)
MultiScanAbsorbed ==
  gs \in {"scanning", "rawok"} /\ multi => eoi /\ outScan = inScan

(* Between images the source stands exactly behind an EOI, so that the next *)
(* ReadHeader on the same reader meets the next SOI (FinishDecompress and   *)
(* the tables-only return of ReadHeader).                                   *)
NextImageAligned ==
  gs = "start" /\ sawSOI => eoi /\ ~unread /\ stream[pos].m = "EOI"

(* Every API call returns, on every stream and wherever the source fails.   *)
CallReturns == (call # "none") ~> (call = "none")

(* The decompressor keeps the promises of DecompressProtocol.               *)
Phase == CASE gs = "start" -> "idle"
           [] gs = "inheader" -> "header"
           [] gs = "ready" -> "ready"
           [] gs = "preload" -> "loading"
           [] gs \in {"scanning", "rawok"} -> "output"
           [] gs = "bufimage" -> "passes"
           [] gs = "stopping" -> "draining"
Delivered == IF line > Height THEN Height ELSE line
Scans == IF multi THEN "many" ELSE "one"
Protocol == INSTANCE DecompressProtocol WITH
              phase <- Phase, line <- Delivered, scans <- Scans, complete <- eoi
ProtocolSpec == Protocol!Spec
=============================================================================
