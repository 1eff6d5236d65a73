------------------------------ MODULE Markers ------------------------------
(* Files of the marker writer, and of other encoders, read by the marker *)
(* reader (jdmarker.c) under the input controller (jdinput.c), from a source *)
(* that delivers the file in pieces.  The entropy-coded data of a scan is only *)
(* counted: every restart interval has SegmentBytes bytes. *)
EXTENDS MarkerReader

CONSTANTS
  Images,        \* a sequence of [streams, limits, error]
  SegmentBytes,
  Chunks         \* how many bytes the source may deliver at once

ASSUME ChunksAssumption == Chunks \subseteq Nat \ {0} /\ Chunks # {} /\ SegmentBytes \in Nat \ {0}

VARIABLES
  image,         \* the file that is read
  stream,        \* and which of its images
  given, pos,    \* the source: bytes delivered, bytes taken
  c,             \* what the markers have set (MarkerReader)
  ctl,           \* the input controller: [inheaders, has_multiple_scans, block_size, quant_table]
  phase,         \* "markers", "data", "restart", "eoi" or "failed"
  suspended,     \* the last call ran out of data
  segments       \* what the restart intervals of this scan decoded to

vars == << image, stream, given, pos, c, ctl, phase, suspended, segments >>

Files == [n \in DOMAIN Images |-> FlattenSeq([k \in DOMAIN Images[n].streams |-> Stream(Images[n].streams[k])])]
Source == [data |-> Files[image], given |-> given, pos |-> pos]
Original == Images[image].streams[stream]
CurrentScan == Original.scans[c.input_scan_number]

NewController == [inheaders |-> 1, has_multiple_scans |-> FALSE, block_size |-> 0, quant_table |-> << >>]

Init ==
  /\ image \in DOMAIN Images
  /\ stream = 1 /\ given = 0 /\ pos = 0
  /\ c = jinit_marker_reader(Images[image].limits)
  /\ ctl = NewController
  /\ phase = "markers" /\ suspended = FALSE /\ segments = << >>

-----------------------------------------------------------------------------
\* The application calls again when more of the file has come.
Supply ==
  /\ suspended /\ given < Len(Files[image])
  /\ \E n \in Chunks : given' = Min({given + n, Len(Files[image])})
  /\ suspended' = FALSE
  /\ UNCHANGED << image, stream, pos, c, ctl, phase, segments >>

\* The block size comes from the first scan header: a progressive image of blocks
\* other than 8 x 8 has a scan header without components for it.
block_size(d) ==
  LET fits == {n \in 1..16 : n * n - 1 = d.progression[2]}
  IN IF d.modes.is_baseline \/ (d.modes.progressive_mode /\ d.cur_comp_info # << >>) THEN 8
     ELSE IF fits = {} THEN 0 ELSE Min(fits)
initial_setup(d) ==
  [ctl EXCEPT !.block_size = block_size(d), !.quant_table = [k \in DOMAIN d.comp_info |-> << >>],
              !.has_multiple_scans = Len(d.cur_comp_info) < Len(d.comp_info) \/ d.modes.progressive_mode]

\* A component takes its quantization table at its first scan and keeps it.
latch_quant_tables(l, d) ==
  [l EXCEPT !.quant_table =
     [k \in DOMAIN @ |-> IF @[k] = << >> /\ k \in {d.cur_comp_info[m] : m \in DOMAIN d.cur_comp_info}
                         THEN d.quant[d.comp_info[k].tq] ELSE @[k]]]

\* consume_markers at a scan header: [phase, ctl, error].
AtSOS(d) ==
  LET first  == ctl.inheaders = 1
      set    == IF first THEN initial_setup(d) ELSE ctl
      pseudo == d.cur_comp_info = << >>
      next   == [set EXCEPT !.inheaders = IF @ = 0 THEN 0 ELSE IF pseudo THEN 2 ELSE 0]
  IN IF first /\ set.block_size = 0 THEN [phase |-> "failed", ctl |-> ctl, error |-> "BAD_PROGRESSION"]
     ELSE IF ctl.inheaders = 0 /\ ~ctl.has_multiple_scans
          THEN [phase |-> "failed", ctl |-> ctl, error |-> "EOI_EXPECTED"]
     ELSE IF \E k \in DOMAIN d.cur_comp_info : d.quant[d.comp_info[d.cur_comp_info[k]].tq] = << >>
          THEN [phase |-> "failed", ctl |-> ctl, error |-> "NO_QUANT_TABLE"]
     ELSE IF pseudo THEN [phase |-> "markers", ctl |-> next, error |-> "none"]
     ELSE [phase |-> "data", ctl |-> latch_quant_tables(next, d), error |-> "none"]

AtEOI(d) ==
  IF ctl.inheaders > 0 /\ d.saw_SOF THEN [phase |-> "failed", ctl |-> ctl, error |-> "SOF_NO_SOS"]
  ELSE [phase |-> "eoi", ctl |-> ctl, error |-> "none"]

\* What follows the marker found.
AtMarker(found, d) ==
  IF d.error # "none" THEN [phase |-> "failed", ctl |-> ctl, error |-> d.error]
  ELSE IF found = M.SOS THEN AtSOS(d)
  ELSE IF found = M.EOI THEN AtEOI(d)
  ELSE [phase |-> phase, ctl |-> ctl, error |-> "none"]

ReadMarkers ==
  /\ phase = "markers" /\ ~suspended
  /\ \E r \in {read_marker(c, Source)} : \E next \in {AtMarker(r.found, r.c)} :
       /\ c' = [r.c EXCEPT !.error = next.error] /\ pos' = r.pos
       /\ phase' = next.phase /\ ctl' = next.ctl
       /\ suspended' = (r.found = 0)
       /\ segments' = IF next.phase = "data" THEN << >> ELSE segments
  /\ UNCHANGED << image, stream, given >>

\* The entropy decoder takes data bytes up to a marker, or starts the interval
\* again when more data has come.
RECURSIVE Interval(_, _, _)
Interval(d, s, got) ==
  LET codes == {p \in (s.pos + 1)..(s.given - 1) : Byte(s, p) # 255}
      code  == Min(codes)
      on(byte, at) == Interval(d, [s EXCEPT !.pos = at], Append(got, byte))
      over(e, at) == [c |-> e, pos |-> at, done |-> TRUE, got |-> got]
      wait == [c |-> d, pos |-> s.pos, done |-> FALSE, got |-> got]
  IN IF d.unread_marker # 0 \/ Len(got) = SegmentBytes THEN over(d, s.pos)
     ELSE IF ~Has(s, s.pos, 1) THEN wait
     ELSE IF Byte(s, s.pos) # 255 THEN on(Byte(s, s.pos), s.pos + 1)
     ELSE IF codes = {} THEN wait
     ELSE IF Byte(s, code) = 0 THEN on(255, code + 1)
     ELSE over([d EXCEPT !.unread_marker = Byte(s, code)], code + 1)

DecodeInterval ==
  /\ phase = "data" /\ ~suspended
  /\ \E r \in {Interval(c, Source, << >>)} :
       IF r.done
       THEN /\ c' = r.c /\ pos' = r.pos
            /\ segments' = Append(segments, r.got)
            /\ phase' = IF Len(segments) + 1 < Len(CurrentScan.data) THEN "restart" ELSE "markers"
            /\ UNCHANGED suspended
       ELSE suspended' = TRUE /\ UNCHANGED << c, pos, segments, phase >>
  /\ UNCHANGED << image, stream, given, ctl >>

ReadRestart ==
  /\ phase = "restart" /\ ~suspended
  /\ \E r \in {read_restart_marker(c, Source)} :
       /\ c' = r.c /\ pos' = r.pos /\ suspended' = ~r.done
       /\ phase' = IF r.done THEN "data" ELSE phase
  /\ UNCHANGED << image, stream, given, ctl, segments >>

\* After the EOI the application starts over with the next image (jpeg_abort,
\* reset_input_controller); the tables stay.
NextImage ==
  /\ phase = "eoi" /\ stream < Len(Images[image].streams)
  /\ stream' = stream + 1
  /\ c' = [reset_marker_reader(c) EXCEPT !.marker_list = << >>]
  /\ ctl' = NewController /\ phase' = "markers" /\ segments' = << >>
  /\ UNCHANGED << image, given, pos, suspended >>

Read == ReadMarkers \/ DecodeInterval \/ ReadRestart \/ NextImage
Next == Supply \/ Read

CanRead == ~suspended /\ (phase \in {"markers", "data", "restart"} \/ (phase = "eoi" /\ stream < Len(Images[image].streams)))

\* The file keeps coming, and the application keeps calling when it does.
Fairness == /\ []<>(~(suspended /\ given < Len(Files[image]))) \/ []<><< Supply >>_vars
            /\ []<>(~CanRead) \/ []<><< Read >>_vars
Spec == Init /\ [][Next]_vars /\ Fairness

-----------------------------------------------------------------------------
Over == phase = "failed" \/ (phase = "eoi" /\ stream = Len(Images[image].streams))
Corner(i, table) == [p \in DOMAIN ZigZag[Side(i)] |-> table[p]]

\* What the decompressor has when it reaches scan n of image i.
ScanHeaderRead(i, n) ==
  LET s == i.scans[n]
      members == {s.comps[k] : k \in DOMAIN s.comps}
      firstScan(k) == Min({m \in 1..n : \E x \in DOMAIN i.scans[m].comps : i.scans[m].comps[x] = k} \cup {n + 1})
      tq(k) == i.comps[k].tq
  IN /\ c.frame = [precision |-> i.precision, height |-> i.height, width |-> i.width]
     /\ c.modes.progressive_mode = i.progressive_mode /\ c.modes.arith_code = i.arith_code
     /\ c.input_scan_number = n /\ c.cur_comp_info = s.comps
     /\ c.progression = << s.Ss, s.Se, s.Ah, s.Al >> /\ c.restart_interval = s.restart_interval
     /\ ctl.block_size = i.block_size /\ c.color_transform = i.color_transform
     /\ c.saw_JFIF_marker = i.write_JFIF_header /\ (i.write_JFIF_header => c.jfif = i.jfif)
     /\ c.saw_Adobe_marker = i.write_Adobe_marker
     /\ i.write_Adobe_marker => c.Adobe_transform = AdobeTransform(i)
     /\ Len(c.comp_info) = Len(i.comps)
     /\ \A k \in DOMAIN i.comps :
          /\ c.comp_info[k].h = i.comps[k].h /\ c.comp_info[k].v = i.comps[k].v
          /\ firstScan(k) <= n =>
               Corner(i, ctl.quant_table[k]) = Corner(i, i.scans[firstScan(k)].quant[tq(k)])
     /\ \A k \in members :
          LET p == c.comp_info[k]
              q == i.comps[k]
          IN /\ UsesDc(s) => IF i.arith_code THEN /\ c.arith[p.dc].L = s.arith[q.dc].L
                                                  /\ c.arith[p.dc].U = s.arith[q.dc].U
                             ELSE c.dc_huff[p.dc] = s.dc_huff[q.dc]
             /\ UsesAc(s) => IF i.arith_code THEN c.arith[p.ac].K = s.arith[q.ac].K
                             ELSE c.ac_huff[p.ac] = s.ac_huff[q.ac]

\* Wherever the data was cut, every scan is begun with the frame, tables,
\* conditioning and restart interval its writer had, each component with the
\* quantization table of its own first scan; no scan is missed, and only what is
\* malformed is refused (jcmarker.c write_scan_header, jdmarker.c read_markers,
\* jdinput.c consume_markers).
HeadersSurvive ==
  /\ phase = "data" => ScanHeaderRead(Original, c.input_scan_number)
  /\ phase = "eoi" /\ Original.tables \in {"own", "elsewhere"} => c.input_scan_number = Len(Original.scans)
  /\ Over => c.error = Images[image].error

\* A marker kept for the application has the first bytes of its data, each once
\* and in order, as many as were asked for, and its length in the file
\* (jdmarker.c save_marker).
MarkersKept ==
  phase \in {"data", "eoi"} /\ Original.tables \in {"own", "elsewhere"} =>
    LET limit == jpeg_save_markers(Images[image].limits)
        head  == (IF Original.write_JFIF_header THEN << [code |-> M.APP0, data |-> << >>] >> ELSE << >>) \o
                 (IF Original.write_Adobe_marker THEN << [code |-> M.APP14, data |-> << >>] >> ELSE << >>)
        wanted == SelectSeq(head \o Original.markers, LAMBDA m : limit[m.code] > 0)
        own(m) == m.code \in {M.APP0, M.APP14} /\ m.data = << >>
    IN /\ Len(c.marker_list) = Len(wanted)
       /\ \A k \in DOMAIN wanted :
            LET kept == c.marker_list[k]
            IN /\ kept.marker = wanted[k].code /\ kept.data_length = Len(kept.data)
               /\ ~own(wanted[k]) =>
                    /\ kept.original_length = Len(wanted[k].data)
                    /\ kept.data = SubSeq(wanted[k].data, 1, Min({limit[kept.marker], Len(wanted[k].data)}))

\* A lost or repeated restart marker spoils the interval after it and no more, a
\* wrong number at most as many as it seems to be ahead and one; stray bytes and
\* numbers out of range spoil nothing; and the next scan is found (jdmarker.c
\* read_restart_marker, jpeg_resync_to_restart).
Resynchronised ==
  c.input_scan_number > 0 /\ phase # "failed" =>
    LET d == CurrentScan.damage
    IN \A k \in DOMAIN segments :
         segments[k] = CurrentScan.data[k] \/ k - d.at \in 1..d.spoils

\* A file that keeps coming is read to its end or refused; the reader never waits
\* for data it has already taken (jdmarker.c INPUT_SYNC, read_markers).
FileRead == <>Over
=============================================================================
