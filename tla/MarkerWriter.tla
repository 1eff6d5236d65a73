---------------------------- MODULE MarkerWriter ----------------------------
(* The marker writer of the C library (jcmarker.c).  i is the compressor's *)
(* description of an image, s of a scan; the writer w is [out, sent, *)
(* last_restart_interval]: the bytes, the tables with sent_table set, and the *)
(* restart interval the reader knows.  The destination always has room, and *)
(* every table that is asked for exists. *)
EXTENDS Integers, Sequences, SequencesExt, FiniteSets

M == [SOF0 |-> 192, SOF1 |-> 193, SOF2 |-> 194, DHT |-> 196, RST0 |-> 208, RST7 |-> 215, SOI |-> 216,
      EOI |-> 217, SOS |-> 218, DQT |-> 219, DNL |-> 220, DRI |-> 221, APP0 |-> 224, APP14 |-> 238,
      APP15 |-> 239, JPG8 |-> 248, COM |-> 254, SOF9 |-> 201, SOF10 |-> 202, DAC |-> 204, TEM |-> 1]

Two(v) == << v \div 256, v % 256 >>
Marker(code) == << 255, code >>
Segment(code, body) == Marker(code) \o Two(Len(body) + 2) \o body
Written(w, bytes) == [w EXCEPT !.out = @ \o bytes]

\* jpeg_natural_order<n>: the zigzag index of each place 8 * row + column of the
\* n x n corner of a block.
ZigZag == [n \in 1..8 |->
  LET corner == {p \in 0..63 : p \div 8 < n /\ p % 8 < n}
      sum(p) == (p \div 8) + (p % 8)
      before(p, q) == sum(p) < sum(q) \/ (sum(p) = sum(q) /\ IF sum(p) % 2 = 0 THEN p > q ELSE p < q)
  IN [p \in corner |-> Cardinality({q \in corner : before(q, p)})]]

Side(i) == IF i.block_size < 8 THEN i.block_size ELSE 8
lim_Se(i) == Side(i) * Side(i) - 1
InZigZag(i, table) ==
  [k \in 1..(lim_Se(i) + 1) |-> table[CHOOSE p \in DOMAIN ZigZag[Side(i)] : ZigZag[Side(i)][p] = k - 1]]

Wide(i, index) == \E k \in 1..(lim_Se(i) + 1) : InZigZag(i, i.quant[index])[k] > 255

\* A table is written once, until it is changed.
Once(w, name, bytes) == IF name \in w.sent THEN w ELSE Written([w EXCEPT !.sent = @ \cup {name}], bytes)

emit_dqt(w, i, index) ==
  LET values == InZigZag(i, i.quant[index])
      prec   == Wide(i, index)
      body   == IF prec THEN FlattenSeq([k \in DOMAIN values |-> Two(values[k])]) ELSE values
  IN Once(w, << "quant", index >>, Segment(M.DQT, << index + (IF prec THEN 16 ELSE 0) >> \o body))

emit_dht(w, table, index, is_ac) ==
  Once(w, << IF is_ac THEN "ac" ELSE "dc", index >>,
       Segment(M.DHT, << index + (IF is_ac THEN 16 ELSE 0) >> \o table.bits \o table.huffval))

UsesDc(s) == s.Ss = 0 /\ s.Ah = 0
UsesAc(s) == s.Se # 0
InScan(i, s) == [k \in DOMAIN s.comps |-> i.comps[s.comps[k]]]

emit_dac(w, i, s) ==
  LET used(t) == {InScan(i, s)[k][t] : k \in DOMAIN s.comps}
      dc(x) == IF UsesDc(s) /\ x \in used("dc") THEN << x, s.arith[x].L + 16 * s.arith[x].U >> ELSE << >>
      ac(x) == IF UsesAc(s) /\ x \in used("ac") THEN << x + 16, s.arith[x].K >> ELSE << >>
      body  == FlattenSeq([x \in 1..16 |-> dc(x - 1) \o ac(x - 1)])
  IN IF body = << >> THEN w ELSE Written(w, Segment(M.DAC, body))

emit_dri(s) == Segment(M.DRI, Two(s.restart_interval))

\* The inverse transform of subtract green, for MAXJSAMPLE = 255.
LsePayload(ids) ==
  << 13, 0, 255, 3, ids[2], ids[1], ids[3], 128, 0, 0, 0, 0, 0, 0, 1, 0, 0, 0, 0, 1, 0, 0 >>
emit_lse_ict(i) == Segment(M.JPG8, LsePayload([k \in DOMAIN i.comps |-> i.comps[k].id]))

emit_sof(i, code) ==
  Segment(code, << i.precision >> \o Two(i.height) \o Two(i.width) \o << Len(i.comps) >> \o
    FlattenSeq([k \in DOMAIN i.comps |->
                  << i.comps[k].id, 16 * i.comps[k].h + i.comps[k].v, i.comps[k].tq >>]))

emit_sos(i, s) ==
  Segment(M.SOS, << Len(s.comps) >> \o
    FlattenSeq([k \in DOMAIN s.comps |->
                  LET p == InScan(i, s)[k]
                  IN << p.id, 16 * (IF UsesDc(s) THEN p.dc ELSE 0) + (IF UsesAc(s) THEN p.ac ELSE 0) >>]) \o
    << s.Ss, s.Se, 16 * s.Ah + s.Al >>)

\* A scan of no components, which tells the reader the block size.
emit_pseudo_sos(i) == Segment(M.SOS, << 0, 0, i.block_size * i.block_size - 1, 0 >>)

JFIF == << 74, 70, 73, 70, 0 >>
Adobe == << 65, 100, 111, 98, 101 >>
emit_jfif_app0(i) ==
  Segment(M.APP0, JFIF \o << i.jfif.major, i.jfif.minor, i.jfif.unit >> \o Two(i.jfif.X) \o Two(i.jfif.Y) \o << 0, 0 >>)

AdobeTransform(i) ==
  IF i.jpeg_color_space = "YCbCr" THEN 1 ELSE IF i.jpeg_color_space = "YCCK" THEN 2 ELSE 0
emit_adobe_app14(i) == Segment(M.APP14, Adobe \o << 0, 100, 0, 0, 0, 0, AdobeTransform(i) >>)

write_marker(marker) == Segment(marker.code, marker.data)

write_file_header(w, i) ==
  Written([w EXCEPT !.last_restart_interval = 0],
          Marker(M.SOI) \o (IF i.write_JFIF_header THEN emit_jfif_app0(i) ELSE << >>) \o
          (IF i.write_Adobe_marker THEN emit_adobe_app14(i) ELSE << >>))

is_baseline(i) ==
  /\ ~i.arith_code /\ ~i.progressive_mode /\ i.precision = 8 /\ i.block_size = 8
  /\ \A k \in DOMAIN i.comps : i.comps[k].dc <= 1 /\ i.comps[k].ac <= 1 /\ ~Wide(i, i.comps[k].tq)
FrameCode(i) ==
  IF i.arith_code THEN IF i.progressive_mode THEN M.SOF10 ELSE M.SOF9
  ELSE IF i.progressive_mode THEN M.SOF2 ELSE IF is_baseline(i) THEN M.SOF0 ELSE M.SOF1

write_frame_header(w, i) ==
  Written(FoldLeft(LAMBDA v, p : emit_dqt(v, i, p.tq), w, i.comps),
          emit_sof(i, FrameCode(i)) \o (IF i.color_transform THEN emit_lse_ict(i) ELSE << >>) \o
          (IF i.progressive_mode /\ i.block_size # 8 THEN emit_pseudo_sos(i) ELSE << >>))

\* Mutant: a change of the restart interval back to none is not written.
write_scan_headerNoReset(w, i, s) ==
  LET ofComp(v, p) ==
        LET a == IF UsesDc(s) THEN emit_dht(v, s.dc_huff[p.dc], p.dc, FALSE) ELSE v
        IN IF UsesAc(s) THEN emit_dht(a, s.ac_huff[p.ac], p.ac, TRUE) ELSE a
      tables == IF i.arith_code THEN emit_dac(w, i, s) ELSE FoldLeft(ofComp, w, InScan(i, s))
      dri == IF s.restart_interval > w.last_restart_interval THEN emit_dri(s) ELSE << >>
  IN Written([tables EXCEPT !.last_restart_interval = s.restart_interval], dri \o emit_sos(i, s))

write_scan_header(w, i, s) ==
  LET ofComp(v, p) ==
        LET a == IF UsesDc(s) THEN emit_dht(v, s.dc_huff[p.dc], p.dc, FALSE) ELSE v
        IN IF UsesAc(s) THEN emit_dht(a, s.ac_huff[p.ac], p.ac, TRUE) ELSE a
      tables == IF i.arith_code THEN emit_dac(w, i, s) ELSE FoldLeft(ofComp, w, InScan(i, s))
      dri == IF s.restart_interval # w.last_restart_interval THEN emit_dri(s) ELSE << >>
  IN Written([tables EXCEPT !.last_restart_interval = s.restart_interval], dri \o emit_sos(i, s))

write_file_trailer(w) == Written(w, Marker(M.EOI))

\* The tables of the first scan alone, for images that leave them out.
write_tables_only(w, i) ==
  LET s == i.scans[1]
      quant(v, k) == emit_dqt(v, i, k)
      huff(v, k) ==
        LET a == IF k \in DOMAIN s.dc_huff THEN emit_dht(v, s.dc_huff[k], k, FALSE) ELSE v
        IN IF k \in DOMAIN s.ac_huff THEN emit_dht(a, s.ac_huff[k], k, TRUE) ELSE a
      quants == FoldLeft(quant, Written(w, Marker(M.SOI)), SetToSortSeq(DOMAIN i.quant, <))
  IN write_file_trailer(IF i.arith_code THEN quants ELSE FoldLeft(huff, quants, << 0, 1, 2, 3 >>))

-----------------------------------------------------------------------------
(* A whole file.  A scan's data is a sequence of restart intervals, each of *)
(* SegmentBytes data bytes, with restart markers between them (jchuff.c, *)
(* jcarith.c emit_restart).  damage changes one of these markers. *)

Stuffed(bytes) == FlattenSeq([k \in DOMAIN bytes |-> IF bytes[k] = 255 THEN << 255, 0 >> ELSE << bytes[k] >>])
RestartMarker(s, k) ==
  LET rst(n) == Marker(M.RST0 + (n % 8))
  IN IF s.damage.at # k THEN rst(k - 1)
     ELSE CASE s.damage.kind = "lost"   -> << >>
            [] s.damage.kind = "twice"  -> rst(k - 1) \o rst(k - 1)
            [] s.damage.kind = "number" -> rst(k - 1 + s.damage.by)
            [] s.damage.kind = "padded" -> << 7, 255, 0, 255 >> \o rst(k - 1)
ScanData(s) ==
  FlattenSeq([k \in DOMAIN s.data |-> Stuffed(s.data[k]) \o
                (IF k < Len(s.data) THEN RestartMarker(s, k) ELSE << >>)])

\* remade: tables that are new for this scan.  The library's own compressor makes
\* only Huffman tables anew; other encoders redefine quantization tables, too.
WriteScan(w, i, s) ==
  LET quants == FoldLeft(LAMBDA v, p : emit_dqt(v, [i EXCEPT !.quant = s.quant], p.tq),
                         [w EXCEPT !.sent = @ \ s.remade], InScan(i, s))
  IN Written(write_scan_header(quants, i, s), ScanData(s))

\* tables: "own" writes every table, "only" nothing but the tables, "elsewhere"
\* none (jpeg_suppress_tables).
AllTables == {"quant", "dc", "ac"} \X (0..3)
Stream(i) ==
  LET w == [out |-> << >>, sent |-> IF i.tables = "elsewhere" THEN AllTables ELSE {}, last_restart_interval |-> 0]
      scan(v, s) == WriteScan(v, i, s)
      head == Written(write_file_header(w, i), FlattenSeq([k \in DOMAIN i.markers |-> write_marker(i.markers[k])]))
  IN CASE i.tables = "raw"  -> i.bytes
       [] i.tables = "only" -> write_tables_only(w, i).out
       [] OTHER -> write_file_trailer(FoldLeft(scan, write_frame_header(head, i), i.scans)).out
=============================================================================
