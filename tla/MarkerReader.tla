---------------------------- MODULE MarkerReader ----------------------------
(* The marker reader of the C library (jdmarker.c), whose source may suspend. *)
(* The source s is [data, given, pos]: the file, how much of it has been *)
(* delivered, and the next byte to take.  c is the part of the decompressor *)
(* the markers set.  A routine returns [c, pos, done]; one that suspends (done *)
(* FALSE) gives back its input from the last place it committed (INPUT_SYNC), *)
(* but what it has assigned to c stays assigned. *)
EXTENDS MarkerWriter, FiniteSetsExt

Tables == 0..3
NoTable == [bits |-> << >>, huffval |-> << >>]

Has(s, at, n) == at + n <= s.given
Byte(s, at) == s.data[at + 1]
Word(s, at) == 256 * Byte(s, at) + Byte(s, at + 1)
Bytes(s, at, n) == SubSeq(s.data, at + 1, at + n)

Suspended(c, s) == [c |-> c, pos |-> s.pos, done |-> FALSE]
Done(c, at) == [c |-> c, pos |-> at, done |-> TRUE]
Fails(c, s, error) == [c |-> [c EXCEPT !.error = error], pos |-> s.pos, done |-> FALSE]

-----------------------------------------------------------------------------
NextDatastream ==
  [comp_info |-> << >>, input_scan_number |-> 0, unread_marker |-> 0, saw_SOI |-> FALSE, saw_SOF |-> FALSE,
   discarded_bytes |-> 0, cur_marker |-> << >>]
reset_marker_reader(c) == NextDatastream @@ c

\* processors: the length limit of every marker that is saved, 0 for the others.
jpeg_save_markers(limits) ==
  [m \in DOMAIN limits |->
     IF limits[m] = 0 THEN 0
     ELSE IF m = M.APP0 THEN Max({14, limits[m]})
     ELSE IF m = M.APP14 THEN Max({12, limits[m]}) ELSE limits[m]]

Conditioning == [x \in 0..15 |-> [L |-> 0, U |-> 1, K |-> 5]]
FreshImage ==
  [arith |-> Conditioning, restart_interval |-> 0, color_transform |-> FALSE,
   saw_JFIF_marker |-> FALSE, jfif |-> [major |-> 1, minor |-> 1, unit |-> 0, X |-> 1, Y |-> 1],
   saw_Adobe_marker |-> FALSE, Adobe_transform |-> 0]

\* jinit_marker_reader, with the processors the application asks for.
jinit_marker_reader(limits) ==
  reset_marker_reader(
    FreshImage @@
    [processors |-> jpeg_save_markers(limits), marker_list |-> << >>, next_restart_num |-> 0,
     quant |-> [t \in Tables |-> << >>], dc_huff |-> [t \in Tables |-> NoTable],
     ac_huff |-> [t \in Tables |-> NoTable], modes |-> << >>, frame |-> << >>, cur_comp_info |-> << >>,
     progression |-> << >>, error |-> "none"])

get_soi(c, s) ==
  IF c.saw_SOI THEN Fails(c, s, "SOI_DUPLICATE") ELSE Done([saw_SOI |-> TRUE] @@ FreshImage @@ c, s.pos)

\* A component id met before in the same marker is replaced by a new one.
Renamed(id, before) == IF id \in before THEN Max(before) + 1 ELSE id

\* As many components as are there; one being read has its fields set twice over.
RECURSIVE FrameComponents(_, _, _, _)
FrameComponents(c, s, at, n) ==
  IF n = 0 THEN Done([c EXCEPT !.saw_SOF = TRUE], at)
  ELSE IF ~Has(s, at, 3) THEN Suspended(c, s)
  ELSE LET ci == Len(c.comp_info) + 1
           p == [id |-> Renamed(Byte(s, at), {c.comp_info[k].id : k \in DOMAIN c.comp_info}),
                 h |-> Byte(s, at + 1) \div 16, v |-> Byte(s, at + 1) % 16, tq |-> Byte(s, at + 2),
                 dc |-> 0, ac |-> 0]
       IN FrameComponents([c EXCEPT !.comp_info = Append(@, p)], s, at + 3, n - 1)

get_sof(c, s, mode) ==
  LET d == [c EXCEPT !.modes = mode]
      n == Byte(s, s.pos + 7)
      e == [d EXCEPT !.frame = [precision |-> Byte(s, s.pos + 2), height |-> Word(s, s.pos + 3),
                                width |-> Word(s, s.pos + 5)], !.comp_info = << >>]
  IN IF ~Has(s, s.pos, 8) THEN Suspended(d, s)
     ELSE IF c.saw_SOF THEN Fails(d, s, "SOF_DUPLICATE")
     ELSE IF e.frame.height = 0 \/ e.frame.width = 0 \/ n = 0 THEN Fails(e, s, "EMPTY_IMAGE")
     ELSE IF Word(s, s.pos) - 8 # 3 * n THEN Fails(e, s, "BAD_LENGTH")
     ELSE FrameComponents(e, s, s.pos + 8, n)

RECURSIVE ScanComponents(_, _, _, _, _)
ScanComponents(c, s, at, ids, n) ==
  IF n = 0 THEN
    IF ~Has(s, at, 3) THEN Suspended(c, s)
    ELSE Done([c EXCEPT !.progression = << Byte(s, at), Byte(s, at + 1), Byte(s, at + 2) \div 16, Byte(s, at + 2) % 16 >>,
                        !.next_restart_num = 0,
                        !.input_scan_number = IF ids = {} THEN @ ELSE @ + 1], at + 3)
  ELSE IF ~Has(s, at, 1) THEN Suspended(c, s)
  ELSE LET id == Renamed(Byte(s, at), ids)
           found == {k \in DOMAIN c.comp_info : c.comp_info[k].id = id}
           k == Min(found)
           d == [c EXCEPT !.cur_comp_info = Append(@, k)]
           e == [d EXCEPT !.comp_info[k].dc = Byte(s, at + 1) \div 16, !.comp_info[k].ac = Byte(s, at + 1) % 16]
       IN IF found = {} THEN Fails(c, s, "BAD_COMPONENT_ID")
          ELSE IF ~Has(s, at, 2) THEN Suspended(d, s)
          ELSE ScanComponents(e, s, at + 2, ids \cup {id}, n - 1)

get_sos(c, s) ==
  LET n == Byte(s, s.pos + 2)
  IN IF ~c.saw_SOF THEN Fails(c, s, "SOF_BEFORE")
     ELSE IF ~Has(s, s.pos, 3) THEN Suspended(c, s)
     ELSE IF Word(s, s.pos) # 2 * n + 6 \/ n > 4 \/ (n = 0 /\ ~c.modes.progressive_mode) THEN Fails(c, s, "BAD_LENGTH")
     ELSE ScanComponents([c EXCEPT !.cur_comp_info = << >>], s, s.pos + 3, {}, n)

-----------------------------------------------------------------------------
(* Tables: as many as the length of the marker holds; those complete when the *)
(* input ends are set, and set again when the marker is read anew. *)

RECURSIVE Conditionings(_, _, _, _)
Conditionings(c, s, at, length) ==
  LET index == Byte(s, at)
      val == Byte(s, at + 1)
      dc == [c EXCEPT !.arith[index].L = val % 16, !.arith[index].U = val \div 16]
  IN IF length <= 0 THEN IF length # 0 THEN Fails(c, s, "BAD_LENGTH") ELSE Done(c, at)
     ELSE IF ~Has(s, at, 2) THEN Suspended(c, s)
     ELSE IF index >= 32 THEN Fails(c, s, "DAC_INDEX")
     ELSE IF index >= 16 THEN Conditionings([c EXCEPT !.arith[index - 16].K = val], s, at + 2, length - 2)
     ELSE IF val % 16 > val \div 16 THEN Fails(dc, s, "DAC_VALUE")
     ELSE Conditionings(dc, s, at + 2, length - 2)

RECURSIVE HuffmanTables(_, _, _, _)
HuffmanTables(c, s, at, length) ==
  LET index == Byte(s, at)
      bits == Bytes(s, at + 1, 16)
      count == FoldLeft(+, 0, bits)
      table == [bits |-> bits, huffval |-> Bytes(s, at + 17, count)]
  IN IF length <= 16 THEN IF length # 0 THEN Fails(c, s, "BAD_LENGTH") ELSE Done(c, at)
     ELSE IF ~Has(s, at, 17) THEN Suspended(c, s)
     ELSE IF count > 256 \/ count > length - 17 THEN Fails(c, s, "BAD_HUFF_TABLE")
     ELSE IF ~Has(s, at, 17 + count) THEN Suspended(c, s)
     ELSE IF index \notin Tables \cup {16 + t : t \in Tables} THEN Fails(c, s, "DHT_INDEX")
     ELSE HuffmanTables(IF index >= 16 THEN [c EXCEPT !.ac_huff[index - 16] = table]
                        ELSE [c EXCEPT !.dc_huff[index] = table], s, at + 17 + count, length - 17 - count)

\* The values of a table go straight into place.  A table shorter than a block
\* leaves ones behind it, and of 2^2 to 7^2 values fills the corner of a block.
RECURSIVE QuantTables(_, _, _, _)
QuantTables(c, s, at, length) ==
  LET n     == Byte(s, at) % 16
      size  == IF Byte(s, at) >= 16 THEN 2 ELSE 1
      count == Min({64, (length - 1) \div size})
      read  == Min({count, (s.given - at - 1) \div size})
      side  == IF \E d \in 2..7 : d * d = count THEN CHOOSE d \in 2..7 : d * d = count ELSE 8
      value(k) == IF size = 2 THEN Word(s, at + 1 + 2 * k) ELSE Byte(s, at + 1 + k)
      old   == IF count < 64 THEN [p \in 0..63 |-> 1] ELSE c.quant[n]
      new   == [p \in {q \in DOMAIN ZigZag[side] : ZigZag[side][q] < read} |-> value(ZigZag[side][p])]
      d     == [c EXCEPT !.quant[n] = new @@ old]
  IN IF length <= 0 THEN IF length # 0 THEN Fails(c, s, "BAD_LENGTH") ELSE Done(c, at)
     ELSE IF ~Has(s, at, 1) THEN Suspended(c, s)
     ELSE IF n \notin Tables THEN Fails(c, s, "DQT_INDEX")
     ELSE IF read < count THEN Suspended(d, s)
     ELSE QuantTables(d, s, at + 1 + size * count, length - 1 - size * count)

WithLength(Routine(_, _, _, _), c, s) ==
  IF Has(s, s.pos, 2) THEN Routine(c, s, s.pos + 2, Word(s, s.pos) - 2) ELSE Suspended(c, s)

get_dac(c, s) == WithLength(Conditionings, c, s)
get_dht(c, s) == WithLength(HuffmanTables, c, s)
get_dqt(c, s) == WithLength(QuantTables, c, s)

get_dri(c, s) ==
  IF ~Has(s, s.pos, 2) THEN Suspended(c, s)
  ELSE IF Word(s, s.pos) # 4 THEN Fails(c, s, "BAD_LENGTH")
  ELSE IF ~Has(s, s.pos, 4) THEN Suspended(c, s)
  ELSE Done([c EXCEPT !.restart_interval = Word(s, s.pos + 2)], s.pos + 4)

get_lse(c, s) ==
  LET wanted == LsePayload([k \in DOMAIN c.comp_info |-> c.comp_info[k].id])
      there  == Bytes(s, s.pos + 2, Min({22, s.given - s.pos - 2}))
  IN IF ~c.saw_SOF THEN Fails(c, s, "SOF_BEFORE")
     ELSE IF Len(c.comp_info) < 3 THEN Fails(c, s, "CONVERSION_NOTIMPL")
     ELSE IF ~Has(s, s.pos, 2) THEN Suspended(c, s)
     ELSE IF Word(s, s.pos) # 24 THEN Fails(c, s, "BAD_LENGTH")
     ELSE IF ~IsPrefix(there, wanted)
          THEN Fails(c, s, IF there[1] # 13 THEN "UNKNOWN_MARKER" ELSE "CONVERSION_NOTIMPL")
     ELSE IF Len(there) < 22 THEN Suspended(c, s)
     ELSE Done([c EXCEPT !.color_transform = TRUE], s.pos + 24)

-----------------------------------------------------------------------------
(* Application markers and comments *)

Starts(data, least, tag) == Len(data) >= least /\ SubSeq(data, 1, 5) = tag
examine_app0(c, data) ==
  IF ~Starts(data, 14, JFIF) THEN c
  ELSE [c EXCEPT !.saw_JFIF_marker = TRUE,
                 !.jfif = [major |-> data[6], minor |-> data[7], unit |-> data[8],
                           X |-> 256 * data[9] + data[10], Y |-> 256 * data[11] + data[12]]]
examine_app14(c, data) ==
  IF ~Starts(data, 12, Adobe) THEN c
  ELSE [c EXCEPT !.saw_Adobe_marker = TRUE, !.Adobe_transform = data[12]]
Examined(c, data) ==
  IF c.unread_marker = M.APP0 THEN examine_app0(c, data)
  ELSE IF c.unread_marker = M.APP14 THEN examine_app14(c, data) ELSE c

\* skip_input_data takes what has not been delivered yet, too.
Skipped(c, at, length) == Done(c, at + Max({0, length}))

get_interesting_appn(c, s) ==
  LET length == Word(s, s.pos) - 2
      numtoread == Max({0, Min({14, length})})
  IN IF ~Has(s, s.pos, 2) \/ ~Has(s, s.pos, 2 + numtoread) THEN Suspended(c, s)
     ELSE Skipped(Examined(c, Bytes(s, s.pos + 2, numtoread)), s.pos + 2 + numtoread, length - numtoread)

skip_variable(c, s) ==
  IF Has(s, s.pos, 2) THEN Skipped(c, s.pos + 2, Word(s, s.pos) - 2) ELSE Suspended(c, s)

\* A marker being saved keeps what it has got of its data in cur_marker.
\* Mutant: the data that is already there is taken for the beginning again.
SavedBytesAgain(c, s) ==
  LET m    == c.cur_marker
      n    == Min({m.data_length - Len(m.data), s.given - s.pos})
      got  == [m EXCEPT !.data = @ \o Bytes(s, s.pos, n)]
      over == [Examined(c, got.data) EXCEPT !.marker_list = Append(@, got), !.cur_marker = << >>]
  IN IF n >= m.data_length - Len(m.data)
     THEN Skipped(over, s.pos + n, m.original_length - m.data_length)
     ELSE [c |-> [c EXCEPT !.cur_marker = got], pos |-> s.pos, done |-> FALSE]

SavedBytes(c, s) ==
  LET m    == c.cur_marker
      n    == Max({0, Min({m.data_length - Len(m.data), s.given - s.pos})})
      got  == [m EXCEPT !.data = @ \o Bytes(s, s.pos, n)]
      over == [Examined(c, got.data) EXCEPT !.marker_list = Append(@, got), !.cur_marker = << >>]
  IN IF Len(got.data) = m.data_length
     THEN Skipped(over, s.pos + n, m.original_length - m.data_length)
     ELSE [c |-> [c EXCEPT !.cur_marker = got], pos |-> s.pos + n, done |-> FALSE]

save_marker(c, s) ==
  LET length == Word(s, s.pos) - 2
      m == [marker |-> c.unread_marker, original_length |-> length,
            data_length |-> Min({length, c.processors[c.unread_marker]}), data |-> << >>]
  IN IF c.cur_marker # << >> THEN SavedBytes(c, s)
     ELSE IF ~Has(s, s.pos, 2) THEN Suspended(c, s)
     ELSE IF length < 0 THEN Done(c, s.pos + 2)
     ELSE SavedBytes([c EXCEPT !.cur_marker = m], [s EXCEPT !.pos = @ + 2])

process_APPn(c, s) ==
  IF c.processors[c.unread_marker] > 0 THEN save_marker(c, s)
  ELSE IF c.unread_marker \in {M.APP0, M.APP14} THEN get_interesting_appn(c, s)
  ELSE skip_variable(c, s)

-----------------------------------------------------------------------------
(* Finding markers *)

\* Mutant: the FF at the end of the data is given up when the code is not there yet.
RECURSIVE next_marker(_, _)
next_markerGivesUp(c, s) ==
  LET codes == {p \in (s.pos + 1)..(s.given - 1) : Byte(s, p) # 255}
      p == Min(codes)
      passed(n) == [c EXCEPT !.discarded_bytes = @ + n]
  IN IF ~Has(s, s.pos, 1) THEN Suspended(c, s)
     ELSE IF Byte(s, s.pos) # 255 THEN next_marker(passed(1), [s EXCEPT !.pos = @ + 1])
     ELSE IF codes = {} THEN Suspended(c, [s EXCEPT !.pos = @ + 1])
     ELSE IF Byte(s, p) = 0 THEN next_marker(passed(2), [s EXCEPT !.pos = p + 1])
     ELSE Done([c EXCEPT !.discarded_bytes = 0, !.unread_marker = Byte(s, p)], p + 1)

next_marker(c, s) ==
  LET codes == {p \in (s.pos + 1)..(s.given - 1) : Byte(s, p) # 255}
      p == Min(codes)
      passed(n) == [c EXCEPT !.discarded_bytes = @ + n]
  IN IF ~Has(s, s.pos, 1) THEN Suspended(c, s)
     ELSE IF Byte(s, s.pos) # 255 THEN next_marker(passed(1), [s EXCEPT !.pos = @ + 1])
     ELSE IF codes = {} THEN Suspended(c, s)
     ELSE IF Byte(s, p) = 0 THEN next_marker(passed(2), [s EXCEPT !.pos = p + 1])
     ELSE Done([c EXCEPT !.discarded_bytes = 0, !.unread_marker = Byte(s, p)], p + 1)

first_marker(c, s) ==
  IF ~Has(s, s.pos, 2) THEN Suspended(c, s)
  ELSE IF Bytes(s, s.pos, 2) # Marker(M.SOI) THEN Fails(c, s, "NO_SOI")
  ELSE Done([c EXCEPT !.unread_marker = M.SOI], s.pos + 2)

Mode(baseline, progressive, arith) ==
  [is_baseline |-> baseline, progressive_mode |-> progressive, arith_code |-> arith]

\* The routine for the marker that was found.
Processed(c, s) ==
  LET m == c.unread_marker
  IN CASE m = M.SOI -> get_soi(c, s)
       [] m = M.SOF0 -> get_sof(c, s, Mode(TRUE, FALSE, FALSE))
       [] m = M.SOF1 -> get_sof(c, s, Mode(FALSE, FALSE, FALSE))
       [] m = M.SOF2 -> get_sof(c, s, Mode(FALSE, TRUE, FALSE))
       [] m = M.SOF9 -> get_sof(c, s, Mode(FALSE, FALSE, TRUE))
       [] m = M.SOF10 -> get_sof(c, s, Mode(FALSE, TRUE, TRUE))
       [] m \in {195, 197, 198, 199, 200, 203, 205, 206, 207} -> Fails(c, s, "SOF_UNSUPPORTED")
       [] m = M.SOS -> get_sos(c, s)
       [] m = M.EOI -> Done(c, s.pos)
       [] m = M.DAC -> get_dac(c, s)
       [] m = M.DHT -> get_dht(c, s)
       [] m = M.DQT -> get_dqt(c, s)
       [] m = M.DRI -> get_dri(c, s)
       [] m = M.JPG8 -> get_lse(c, s)
       [] m \in (M.APP0)..(M.APP15) \cup {M.COM} -> process_APPn(c, s)
       [] m \in (M.RST0)..(M.RST7) \cup {M.TEM} -> Done(c, s.pos)
       [] m = M.DNL -> skip_variable(c, s)
       [] OTHER -> Fails(c, s, "UNKNOWN_MARKER")

\* One turn of the loop of read_markers: found is the marker it has processed.
\* A marker that was found before the input ended is not looked for again.
read_marker(c, s) ==
  LET found == IF c.unread_marker # 0 THEN Done(c, s.pos)
               ELSE IF c.saw_SOI THEN next_marker(c, s) ELSE first_marker(c, s)
      r == Processed(found.c, [s EXCEPT !.pos = found.pos])
      result == IF found.done THEN r ELSE found
  IN [c |-> IF result.done THEN [result.c EXCEPT !.unread_marker = 0] ELSE result.c, pos |-> result.pos,
      found |-> IF result.done THEN result.c.unread_marker ELSE 0]

-----------------------------------------------------------------------------
(* Restart markers *)

\* What to do with a marker that is not the one expected.
\* Mutant: a marker of one or two intervals back is left for the next one.
RecoveryActionBack(marker, desired) ==
  IF marker < M.SOF0 THEN 2
  ELSE IF marker \notin (M.RST0)..(M.RST7) \/ marker - M.RST0 \notin {desired, (desired + 3) % 8, (desired + 4) % 8, (desired + 5) % 8}
  THEN 3 ELSE 1

RecoveryAction(marker, desired) ==
  LET ahead(n) == marker = M.RST0 + ((desired + n) % 8)
  IN IF marker < M.SOF0 THEN 2
     ELSE IF marker \notin (M.RST0)..(M.RST7) \/ ahead(1) \/ ahead(2) THEN 3
     ELSE IF ahead(7) \/ ahead(6) THEN 2 ELSE 1

RECURSIVE jpeg_resync_to_restart(_, _, _)
jpeg_resync_to_restart(c, s, desired) ==
  LET next == next_marker(c, s)
  IN CASE RecoveryAction(c.unread_marker, desired) = 1 -> Done([c EXCEPT !.unread_marker = 0], s.pos)
       [] RecoveryAction(c.unread_marker, desired) = 3 -> Done(c, s.pos)
       [] OTHER -> IF next.done THEN jpeg_resync_to_restart(next.c, [s EXCEPT !.pos = next.pos], desired) ELSE next

read_restart_marker(c, s) ==
  LET found == IF c.unread_marker # 0 THEN Done(c, s.pos) ELSE next_marker(c, s)
      at    == [s EXCEPT !.pos = found.pos]
      r     == IF found.c.unread_marker = M.RST0 + c.next_restart_num
               THEN Done([found.c EXCEPT !.unread_marker = 0], found.pos)
               ELSE jpeg_resync_to_restart(found.c, at, c.next_restart_num)
  IN IF ~found.done THEN found
     ELSE IF r.done THEN [r EXCEPT !.c.next_restart_num = (@ + 1) % 8] ELSE r
=============================================================================
