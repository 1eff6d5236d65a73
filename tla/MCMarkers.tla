----------------------------- MODULE MCMarkers -----------------------------
(* Files for Markers: sequential, progressive and arithmetic ones, small and *)
(* large blocks, markers kept and cut short, abbreviated streams, redefined *)
(* tables, damaged restart markers, and files no writer of the library makes. *)
EXTENDS Markers

Huff(n) == [bits |-> << 0, n >> \o [k \in 1..14 |-> 0], huffval |-> [k \in 1..n |-> 16 * n + k]]
Quant(base, step) == [p \in 0..63 |-> base + step * p]

Comp(id, h, tq, tbl) == [id |-> id, h |-> h, v |-> 1, tq |-> tq, dc |-> tbl, ac |-> tbl]
Gray == << Comp(1, 1, 0, 0) >>
Colour == << Comp(1, 2, 0, 0), Comp(2, 1, 1, 1), Comp(3, 1, 1, 1) >>

NoDamage == [at |-> -2, kind |-> "none", by |-> 0, spoils |-> 0]
Tables2(n) == [t \in {0, 1} |-> Huff(n + t)]
AScan(comps, prog, restart, n) ==
  [comps |-> comps, Ss |-> prog[1], Se |-> prog[2], Ah |-> prog[3], Al |-> prog[4], restart_interval |-> restart,
   dc_huff |-> Tables2(n), ac_huff |-> Tables2(n + 1), arith |-> [x \in 0..1 |-> [L |-> x, U |-> 1 + x, K |-> 5 + x]],
   quant |-> [t \in {0, 1} |-> Quant(t + 1, 1)], remade |-> {}, data |-> << << 7, 255 >> >>, damage |-> NoDamage]
Sequential(comps, restart) == AScan(comps, << 0, 63, 0, 0 >>, restart, 1)

AnImage(comps, scans) ==
  [tables |-> "own", comps |-> comps, scans |-> scans, width |-> 300, height |-> 9, precision |-> 8, block_size |-> 8,
   progressive_mode |-> FALSE, arith_code |-> FALSE, color_transform |-> FALSE, quant |-> scans[1].quant,
   write_JFIF_header |-> FALSE, jfif |-> [major |-> 1, minor |-> 2, unit |-> 1, X |-> 300, Y |-> 72],
   write_Adobe_marker |-> FALSE, jpeg_color_space |-> "YCbCr", markers |-> << >>]
File(streams) == [streams |-> streams, limits |-> [m \in (224..239) \cup {254} |-> 0], error |-> "none"]
Raw(bytes) == [tables |-> "raw", bytes |-> bytes]

Kept == [code |-> 254, data |-> << 255, 217, 3, 4, 5 >>]
Skip == [code |-> 225, data |-> << 255, 218, 1 >>]
Baseline ==
  File(<< [AnImage(Gray, << Sequential(<< 1 >>, 0) >>) EXCEPT
             !.write_JFIF_header = TRUE, !.write_Adobe_marker = TRUE,
             !.markers = << Kept, Skip, [code |-> 254, data |-> << >>], [code |-> 224, data |-> << 1, 2, 3 >>] >>] >>)
Saving == [Baseline EXCEPT !.limits[254] = 3, !.limits[224] = 4, !.limits[238] = 40]
SavingAll == [Baseline EXCEPT !.limits[254] = 9, !.limits[225] = 2]

\* Colour in two scans, the second with tables and restarts of its own.
Redefined(s) ==
  [s EXCEPT !.quant = [t \in {0, 1} |-> Quant(300, 2)], !.remade = {<< "quant", 0 >>, << "quant", 1 >>, << "dc", 1 >>}]
TwoScans ==
  File(<< [AnImage(Colour, << Sequential(<< 1, 2 >>, 2), Redefined(Sequential(<< 3 >>, 0)) >>) EXCEPT
             !.color_transform = TRUE, !.scans[2].dc_huff = Tables2(3)] >>)
SameIds == File(<< AnImage(<< Comp(4, 1, 0, 0), Comp(4, 1, 0, 0), Comp(4, 1, 1, 1) >>, << Sequential(<< 1, 2, 3 >>, 0) >>) >>)

Small(i) == [i EXCEPT !.block_size = 2, !.progressive_mode = TRUE]
Progressive ==
  File(<< Small(AnImage(Gray, << AScan(<< 1 >>, << 0, 0, 0, 1 >>, 1, 1), Redefined(AScan(<< 1 >>, << 1, 3, 0, 0 >>, 0, 2)),
                                 AScan(<< 1 >>, << 0, 0, 1, 0 >>, 0, 1) >>)) >>)
Arithmetic ==
  File(<< [AnImage(Colour, << AScan(<< 1, 2, 3 >>, << 0, 15, 0, 0 >>, 0, 1) >>) EXCEPT
             !.arith_code = TRUE, !.block_size = 4] >>)
BadConditioning ==
  [Arithmetic EXCEPT !.streams[1].scans[1].arith[1].L = 3, !.error = "DAC_VALUE"]

Abbreviated ==
  LET i == AnImage(Gray, << Sequential(<< 1 >>, 0) >>)
  IN File(<< [i EXCEPT !.tables = "only"], [i EXCEPT !.tables = "elsewhere"], [i EXCEPT !.tables = "elsewhere", !.write_JFIF_header = TRUE] >>)

NoTables == [File(<< [AnImage(Gray, << Sequential(<< 1 >>, 0) >>) EXCEPT !.tables = "elsewhere"] >>) EXCEPT !.error = "NO_QUANT_TABLE"]
Damage(at, kind, by, spoils) == [at |-> at, kind |-> kind, by |-> by, spoils |-> spoils]
Damages ==
  << Damage(2, "lost", 0, 1), Damage(5, "lost", 0, 1), Damage(2, "twice", 0, 1), Damage(5, "twice", 0, 1),
     Damage(2, "padded", 0, 0), Damage(5, "padded", 0, 0) >> \o
  [n \in 1..7 |-> Damage(2, "number", n, IF n <= 2 THEN n + 1 ELSE IF n >= 6 THEN 1 ELSE 0)]
Restarts(d) ==
  LET s == [Sequential(<< 1 >>, 1) EXCEPT !.data = << << 1, 2 >>, << 255, 3 >>, << 4, 5 >>, << 6, 255 >>, << 7, 8 >>, << 9, 1 >> >>, !.damage = d]
  IN File(<< AnImage(<< Comp(1, 1, 0, 0), Comp(2, 1, 0, 0) >>, << s, Sequential(<< 2 >>, 0) >>) >>)

Malformed(bytes, error) == [File(<< Raw(bytes) >>) EXCEPT !.error = error]
SOI == Marker(216)
Strange ==
  << Malformed(SOI \o SOI, "SOI_DUPLICATE"), Malformed(<< 255, 217 >>, "NO_SOI"),
     Malformed(SOI \o << 9, 255, 0, 255, 255, 1, 255, 220, 0, 4, 0, 0, 255, 3 >>, "UNKNOWN_MARKER"),
     Malformed(SOI \o Segment(221, << 1 >>), "BAD_LENGTH"), Malformed(SOI \o Segment(218, << 0, 0, 63, 0 >>), "SOF_BEFORE"),
     Malformed(SOI \o Segment(219, << 4 >>), "DQT_INDEX"), Malformed(SOI \o Segment(204, << 40, 0 >>), "DAC_INDEX"),
     Malformed(SOI \o Segment(192, << 8, 0, 1, 0, 0, 1, 1, 17, 0 >>), "EMPTY_IMAGE"),
     Malformed(SOI \o Segment(219, << 1, 5, 6, 7, 8, 0 >>) \o Segment(192, << 8, 0, 1, 0, 1, 1, 1, 17, 0 >>) \o Marker(217), "SOF_NO_SOS") >>

MCImages ==
  << Baseline, Saving, SavingAll, TwoScans, SameIds, Progressive, Arithmetic, BadConditioning, Abbreviated, NoTables >>
  \o [n \in DOMAIN Damages |-> Restarts(Damages[n])] \o Strange
=============================================================================
