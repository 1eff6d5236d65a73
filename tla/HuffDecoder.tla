---------------------------- MODULE HuffDecoder ----------------------------
(* The Huffman entropy decoder of the C library (jdhuff.c), with a source *)
(* that may suspend: src is the data delivered so far.  The decoder d keeps *)
(* its place pos in the data (bytes taken), the bits it has taken but not *)
(* used, and the marker it ran into.  Decoding an MCU returns [ok, d, mcu]: *)
(* ok FALSE when the data ran out, to be tried again from the state and the *)
(* blocks it returns. *)
EXTENDS HuffEncoder

BIT_BUF_SIZE == 32
MIN_GET_BITS == BIT_BUF_SIZE - 7

(* A reader w: [bits, pos, unread, insufficient] *)

\* Taking bytes until the buffer holds MIN_GET_BITS.  FF00 stands for FF; any
\* other byte after FF is a marker and ends the data.  stop tells why it ended:
\* "full", "marker" or "suspended".
RECURSIVE Filled(_, _)
Filled(src, w) ==
  IF w.unread # 0 THEN [w |-> w, stop |-> "marker"]
  ELSE IF Len(w.bits) >= MIN_GET_BITS THEN [w |-> w, stop |-> "full"]
  ELSE IF w.pos = Len(src) THEN [w |-> w, stop |-> "suspended"]
  ELSE LET c == src[w.pos + 1]
       IN IF c # 255 THEN Filled(src, [w EXCEPT !.bits = @ \o BitsOf(c, 8), !.pos = @ + 1])
          ELSE LET after == {p \in (w.pos + 2)..Len(src) : src[p] # 255}
               IN IF after = {} THEN [w |-> w, stop |-> "suspended"]
                  ELSE LET p == Min(after)
                       IN IF src[p] = 0
                          THEN Filled(src, [w EXCEPT !.bits = @ \o BitsOf(255, 8), !.pos = p])
                          ELSE Filled(src, [w EXCEPT !.unread = src[p], !.pos = p])

\* A plausible slip: a marker that stops the reader counts as missing data.
jpeg_fill_bit_bufferWaits(src, w, nbits_) ==
  LET f == Filled(src, w) IN [ok |-> f.stop = "full", w |-> IF f.stop = "full" THEN f.w ELSE w]

\* At a marker the reader goes on with zeros, if it is asked for more bits than
\* it has, and remembers that the data was insufficient.
jpeg_fill_bit_buffer(src, w, nbits_) ==
  With(Filled(src, w), LAMBDA f :
     IF f.stop = "suspended" THEN [ok |-> FALSE, w |-> w]
     ELSE IF f.stop = "marker" /\ nbits_ > Len(f.w.bits)
     THEN [ok |-> TRUE, w |-> [f.w EXCEPT !.bits = @ \o [i \in 1..(MIN_GET_BITS - Len(@)) |-> 0],
                                          !.insufficient = TRUE]]
     ELSE [ok |-> TRUE, w |-> f.w])

CHECK_BIT_BUFFER(src, w, n) ==
  IF Len(w.bits) >= n THEN [ok |-> TRUE, w |-> w] ELSE jpeg_fill_bit_buffer(src, w, n)

DROP_BITS(w, n) == [w EXCEPT !.bits = SubSeq(@, n + 1, Len(@))]

\* n bits as a number: [ok, w, v].
GET_BITS(src, w, n) ==
  With(CHECK_BIT_BUFFER(src, w, n), LAMBDA f :
     IF f.ok THEN [ok |-> TRUE, w |-> DROP_BITS(f.w, n), v |-> NumberOf(SubSeq(f.w.bits, 1, n))]
     ELSE [ok |-> FALSE, w |-> w, v |-> 0])

HUFF_EXTEND(x, s) == IF s = 0 THEN 0 ELSE IF x < 2 ^ (s - 1) THEN x - 2 ^ s + 1 ELSE x

\* The bits of a symbol beyond those of the look-ahead are fetched one by one.
RECURSIVE SlowDecode(_, _, _, _)
SlowDecode(src, w, tbl, l) ==
  With(CHECK_BIT_BUFFER(src, w, l), LAMBDA f :
     IF ~f.ok THEN [ok |-> FALSE, w |-> w, v |-> 0]
     ELSE With(jpeg_huff_decode(tbl, SubSeq(f.w.bits, 1, l), l), LAMBDA h :
        IF h.ok THEN [ok |-> TRUE, w |-> DROP_BITS(f.w, l), v |-> h.sym]
        ELSE SlowDecode(src, f.w, tbl, l + 1)))

HUFF_DECODE(src, w, tbl) ==
  With(IF Len(w.bits) < HUFF_LOOKAHEAD THEN jpeg_fill_bit_buffer(src, w, 0)
       ELSE [ok |-> TRUE, w |-> w], LAMBDA f :
     LET hit == LookUp(tbl, f.w.bits)
         e   == CHOOSE e \in hit : TRUE
     IN IF ~f.ok THEN [ok |-> FALSE, w |-> w, v |-> 0]
        ELSE IF Len(f.w.bits) < HUFF_LOOKAHEAD THEN SlowDecode(src, f.w, tbl, 1)
        ELSE IF hit = {} THEN SlowDecode(src, f.w, tbl, HUFF_LOOKAHEAD + 1)
        ELSE [ok |-> TRUE, w |-> DROP_BITS(f.w, e[1]), v |-> tbl.huffval[e[3]]])

\* A symbol's size, then that many bits: a coefficient or difference.
SizedValue(src, w, s) ==
  [GET_BITS(src, w, s) EXCEPT !.v = HUFF_EXTEND(@, s)]

----------------------------------------------------------------------------
(* One MCU: a sequence of [ci, block] *)

\* The DC difference of a block of component ci.
DecodeDiff(src, w, d, scan, ci) ==
  With(HUFF_DECODE(src, w, d.tables[<< "dc", scan.tbl[ci] >>]), LAMBDA h :
     IF h.ok THEN SizedValue(src, h.w, h.v) ELSE h)

\* DC coefficients of an MCU, shifted by Al; DC carries the last values.
RECURSIVE DecodeDc(_, _, _, _, _, _)
DecodeDc(src, w, d, scan, mcu, i) ==
  IF i > Len(mcu) THEN [ok |-> TRUE, w |-> w, dc |-> d.last_dc_val, mcu |-> mcu]
  ELSE With(DecodeDiff(src, w, d, scan, mcu[i].ci), LAMBDA g :
         LET s == g.v + d.last_dc_val[mcu[i].ci]
         IN IF ~g.ok THEN [ok |-> FALSE, w |-> w, dc |-> d.last_dc_val, mcu |-> mcu]
            ELSE DecodeDc(src, g.w, [d EXCEPT !.last_dc_val[mcu[i].ci] = s], scan,
                          [mcu EXCEPT ![i].block[0] = s * 2 ^ scan.Al], i + 1))

decode_mcu_DC_first(src, w, d, scan, mcu) ==
  With(DecodeDc(src, w, d, scan, mcu, 1), LAMBDA r :
     IF r.ok THEN [ok |-> TRUE, w |-> r.w, d |-> [d EXCEPT !.last_dc_val = r.dc], mcu |-> r.mcu]
     ELSE [ok |-> FALSE, w |-> w, d |-> d, mcu |-> r.mcu])

\* The AC coefficients of a block from k on; limit is the first one not kept.
\* run is the number of blocks the end of this band covers.
RECURSIVE DecodeBand(_, _, _, _, _, _, _, _)
DecodeBand(src, w, tbl, scan, block, k, Se, limit) ==
  IF k > Se THEN [ok |-> TRUE, w |-> w, block |-> block, run |-> 0]
  ELSE With(HUFF_DECODE(src, w, tbl), LAMBDA h :
         LET r == h.v \div 16
             s == h.v % 16
         IN IF ~h.ok THEN [ok |-> FALSE, w |-> w, block |-> block, run |-> 0]
            ELSE IF s # 0
            THEN With(SizedValue(src, h.w, s), LAMBDA g :
                   IF ~g.ok THEN [ok |-> FALSE, w |-> w, block |-> block, run |-> 0]
                   ELSE DecodeBand(src, g.w, tbl, scan,
                                   IF k < limit THEN [block EXCEPT ![k + r] = g.v * 2 ^ scan.Al] ELSE block,
                                   k + r + 1, Se, limit))
            ELSE IF r = 15 THEN DecodeBand(src, h.w, tbl, scan, block, k + 16, Se, limit)
            ELSE IF r = 0 \/ ~scan.prog THEN [ok |-> TRUE, w |-> h.w, block |-> block, run |-> 0]
            ELSE With(GET_BITS(src, h.w, r), LAMBDA n :
                   [ok |-> n.ok, w |-> n.w, block |-> block, run |-> 2 ^ r + n.v - 1]))

decode_mcu_AC_first(src, w, d, scan, mcu) ==
  IF d.EOBRUN > 0 THEN [ok |-> TRUE, w |-> w, d |-> [d EXCEPT !.EOBRUN = @ - 1], mcu |-> mcu]
  ELSE With(DecodeBand(src, w, d.tables[<< "ac", scan.tbl[mcu[1].ci] >>], scan, mcu[1].block,
                       scan.Ss, scan.Se, scan.Se + 1), LAMBDA r :
         LET m == [mcu EXCEPT ![1].block = r.block]
         IN IF r.ok THEN [ok |-> TRUE, w |-> r.w, d |-> [d EXCEPT !.EOBRUN = r.run], mcu |-> m]
            ELSE [ok |-> FALSE, w |-> w, d |-> d, mcu |-> m])

\* One more bit of the DC coefficients: v | 2^Al.
RECURSIVE RefineDc(_, _, _, _, _)
RefineDc(src, w, scan, mcu, i) ==
  IF i > Len(mcu) THEN [ok |-> TRUE, w |-> w, mcu |-> mcu]
  ELSE With(GET_BITS(src, w, 1), LAMBDA g :
         LET v == mcu[i].block[0]
             set == g.v = 1 /\ (v \div 2 ^ scan.Al) % 2 = 0
         IN IF ~g.ok THEN [ok |-> FALSE, w |-> w, mcu |-> mcu]
            ELSE RefineDc(src, g.w, scan,
                          IF set THEN [mcu EXCEPT ![i].block[0] = v + 2 ^ scan.Al] ELSE mcu, i + 1))

decode_mcu_DC_refine(src, w, d, scan, mcu) ==
  With(RefineDc(src, w, scan, mcu, 1), LAMBDA r :
     [ok |-> r.ok, w |-> IF r.ok THEN r.w ELSE w, d |-> d, mcu |-> r.mcu])

\* A coefficient already nonzero takes a correction bit; it is not applied a
\* second time when the MCU is tried again.
Corrected(v, Al, bit) ==
  IF bit = 1 /\ (v \div 2 ^ Al) % 2 = 0 THEN IF v >= 0 THEN v + 2 ^ Al ELSE v - 2 ^ Al ELSE v

\* Past r zeros, correcting the nonzero coefficients on the way: k is where the
\* new coefficient goes.
RECURSIVE Passed(_, _, _, _, _, _)
Passed(src, w, scan, block, k, r) ==
  IF k > scan.Se \/ (block[k] = 0 /\ r = 0) THEN [ok |-> TRUE, w |-> w, block |-> block, k |-> k]
  ELSE IF block[k] = 0 THEN Passed(src, w, scan, block, k + 1, r - 1)
  ELSE With(GET_BITS(src, w, 1), LAMBDA g :
         IF ~g.ok THEN [ok |-> FALSE, w |-> w, block |-> block, k |-> k]
         ELSE Passed(src, g.w, scan, [block EXCEPT ![k] = Corrected(@, scan.Al, g.v)], k + 1, r))

\* Every nonzero coefficient from k on is corrected: no count of zeros ends it.
CorrectRest(src, w, scan, block, k) == Passed(src, w, scan, block, k, 64)

\* A symbol r, s and the bits v after it: the sign of a new coefficient, or the
\* low bits of a run of blocks.
RunAndBits(src, w, tbl) ==
  With(HUFF_DECODE(src, w, tbl), LAMBDA h :
     LET r == h.v \div 16
         s == h.v % 16
     IN With(IF h.ok THEN GET_BITS(src, h.w, IF s # 0 THEN 1 ELSE IF r = 15 THEN 0 ELSE r) ELSE h,
             LAMBDA g : [ok |-> g.ok, w |-> g.w, v |-> g.v, r |-> r, s |-> s]))

\* A refinement scan's band from k on; new are the coefficients that became
\* nonzero in this MCU.
RECURSIVE RefineBand(_, _, _, _, _, _, _)
RefineBand(src, w, tbl, scan, block, k, new) ==
  IF k > scan.Se THEN [ok |-> TRUE, w |-> w, block |-> block, new |-> new, run |-> 0, k |-> k]
  ELSE With(RunAndBits(src, w, tbl), LAMBDA g :
         LET failed == [ok |-> FALSE, w |-> w, block |-> block, new |-> new, run |-> 0, k |-> k]
             v == IF g.v = 1 THEN 2 ^ scan.Al ELSE -(2 ^ scan.Al)
         IN IF ~g.ok THEN failed
            ELSE IF g.s = 0 /\ g.r # 15
            THEN [ok |-> TRUE, w |-> g.w, block |-> block, new |-> new, run |-> 2 ^ g.r + g.v, k |-> k]
            ELSE With(Passed(src, g.w, scan, block, k, g.r), LAMBDA p :
              IF ~p.ok THEN [failed EXCEPT !.block = p.block]
              ELSE IF g.s # 0
              THEN RefineBand(src, p.w, tbl, scan, [p.block EXCEPT ![p.k] = v], p.k + 1, new \cup {p.k})
              ELSE RefineBand(src, p.w, tbl, scan, p.block, p.k + 1, new)))

\* A plausible slip: they are left as they are.
KeepNew(block, new) == block

\* The coefficients that became nonzero are zero again before a second try.
UndoNew(block, new) == [k \in DOMAIN block |-> IF k \in new THEN 0 ELSE block[k]]

decode_mcu_AC_refine(src, w, d, scan, mcu) ==
  LET block == mcu[1].block
      suspended(x, new) == [ok |-> FALSE, w |-> w, d |-> d, mcu |-> [mcu EXCEPT ![1].block = UndoNew(x, new)]]
      done(r, run) == [ok |-> TRUE, w |-> r.w, d |-> [d EXCEPT !.EOBRUN = run],
                       mcu |-> [mcu EXCEPT ![1].block = r.block]]
  IN With(IF d.EOBRUN > 0
          THEN [ok |-> TRUE, w |-> w, block |-> block, new |-> {}, run |-> d.EOBRUN, k |-> scan.Ss]
          ELSE RefineBand(src, w, d.tables[<< "ac", scan.tbl[mcu[1].ci] >>], scan, block, scan.Ss, {}), LAMBDA b :
       IF ~b.ok THEN suspended(b.block, b.new)
       ELSE IF b.run = 0 THEN done(b, 0)
       ELSE With(CorrectRest(src, b.w, scan, b.block, b.k), LAMBDA c :
              IF c.ok THEN done(c, b.run - 1) ELSE suspended(c.block, b.new)))

----------------------------------------------------------------------------
(* Sequential MCUs.  coef_limit: one more than the last zigzag index needed *)
(* for the scaled size of the component; 0 when the component is not needed. *)

\* Zigzag order of an n x n block: << row, column >> of every index.
jpeg_natural_order(n) ==
  LET before(p, q) ==
        \/ p[1] + p[2] < q[1] + q[2]
        \/ p[1] + p[2] = q[1] + q[2] /\ IF (p[1] + p[2]) % 2 = 0 THEN p[1] > q[1] ELSE p[1] < q[1]
      cells == (0..(n - 1)) \X (0..(n - 1))
      rank(p) == Cardinality({q \in cells : before(q, p)})
  IN [p \in cells |-> rank(p)]
jpeg_zigzag_order(n, v, h) == jpeg_natural_order(n)[<< v - 1, h - 1 >>]

coef_limit(scan, comp) ==
  LET n == CHOOSE n \in 1..8 : n * n - 1 = scan.lim
      least(x) == IF x <= 0 \/ x > n THEN n ELSE x
  IN IF ~comp.component_needed THEN 0
     ELSE 1 + jpeg_zigzag_order(n, least(comp.DCT_v_scaled_size), least(comp.DCT_h_scaled_size))

RECURSIVE DecodeBlocks(_, _, _, _, _, _)
DecodeBlocks(src, w, d, scan, mcu, i) ==
  IF i > Len(mcu) THEN [ok |-> TRUE, w |-> w, dc |-> d.last_dc_val, mcu |-> mcu]
  ELSE With(DecodeDiff(src, w, d, scan, mcu[i].ci), LAMBDA g :
         LET ci == mcu[i].ci
             needed == d.coef_limit[ci] > 0
             s == g.v + d.last_dc_val[ci]
             block == IF needed THEN [mcu[i].block EXCEPT ![0] = s] ELSE mcu[i].block
             failed == [ok |-> FALSE, w |-> w, dc |-> d.last_dc_val, mcu |-> mcu]
         IN IF ~g.ok THEN failed
            ELSE With(DecodeBand(src, g.w, d.tables[<< "ac", scan.tbl[ci] >>], scan, block, 1, scan.lim,
                                 d.coef_limit[ci]), LAMBDA a :
              IF ~a.ok THEN [failed EXCEPT !.mcu = [mcu EXCEPT ![i].block = a.block]]
              ELSE DecodeBlocks(src, a.w, IF needed THEN [d EXCEPT !.last_dc_val[ci] = s] ELSE d, scan,
                                [mcu EXCEPT ![i].block = a.block], i + 1)))

decode_mcu(src, w, d, scan, mcu) ==
  With(DecodeBlocks(src, w, d, scan, mcu, 1), LAMBDA r :
     IF r.ok THEN [ok |-> TRUE, w |-> r.w, d |-> [d EXCEPT !.last_dc_val = r.dc], mcu |-> r.mcu]
     ELSE [ok |-> FALSE, w |-> w, d |-> d, mcu |-> r.mcu])

----------------------------------------------------------------------------
(* A pass over a scan *)

start_pass_huff_decoder(scan, htbls, comps) ==
  LET cs == {scan.comps[i] : i \in DOMAIN scan.comps}
  IN [w |-> [bits |-> << >>, pos |-> 0, unread |-> 0, insufficient |-> FALSE],
      tables |-> [t \in DOMAIN htbls |-> jpeg_make_d_derived_tbl(htbls[t])],
      last_dc_val |-> [c \in cs |-> 0], EOBRUN |-> 0,
      coef_limit |-> [c \in cs |-> IF scan.prog THEN 0 ELSE coef_limit(scan, comps[c])],
      restarts_to_go |-> scan.ri, next_restart_num |-> 0]

\* The marker the reader stopped at, or the next one in the data (next_marker).
NextMarker(src, w) ==
  LET at == {p \in (w.pos + 2)..Len(src) : src[p - 1] = 255 /\ src[p] \notin {0, 255}}
  IN IF w.unread # 0 THEN [ok |-> TRUE, w |-> w]
     ELSE IF at = {} THEN [ok |-> FALSE, w |-> w]
     ELSE [ok |-> TRUE, w |-> [w EXCEPT !.unread = src[Min(at)], !.pos = Min(at)]]

\* Leftover bits are dropped, the restart marker is read, and the predictions
\* and the run start anew.  The bits stay dropped when the marker is not there yet.
process_restart(src, d, scan) ==
  With(NextMarker(src, [d.w EXCEPT !.bits = << >>]), LAMBDA n :
     LET expected == n.w.unread = RST0 + d.next_restart_num
     IN IF ~n.ok THEN [ok |-> FALSE, d |-> [d EXCEPT !.w = n.w]]
        ELSE [ok |-> TRUE,
              d |-> [d EXCEPT !.w = [n.w EXCEPT !.unread = IF expected THEN 0 ELSE @,
                                                !.insufficient = @ /\ ~expected],
                              !.last_dc_val = [c \in DOMAIN @ |-> 0], !.EOBRUN = 0,
                              !.restarts_to_go = scan.ri,
                              !.next_restart_num = (@ + 1) % 8]])

DecodeOne(src, w, d, scan, mcu) ==
  IF ~scan.prog THEN decode_mcu(src, w, d, scan, mcu)
  ELSE IF scan.Ah = 0 THEN IF scan.Ss = 0 THEN decode_mcu_DC_first(src, w, d, scan, mcu)
                           ELSE decode_mcu_AC_first(src, w, d, scan, mcu)
  ELSE IF scan.Ss = 0 THEN decode_mcu_DC_refine(src, w, d, scan, mcu)
  ELSE decode_mcu_AC_refine(src, w, d, scan, mcu)

\* decode_mcu with the restart that may come before it.  The reader's place is
\* kept only when the MCU is complete; a restart, once done, is not done again.
\* Insufficient data leaves the MCU as it is.
decode_mcu_with_restart(src, d, scan, mcu) ==
  LET counted(x) == IF scan.ri > 0 THEN [x EXCEPT !.restarts_to_go = @ - 1] ELSE x
  IN With(IF scan.ri > 0 /\ d.restarts_to_go = 0 THEN process_restart(src, d, scan)
          ELSE [ok |-> TRUE, d |-> d], LAMBDA rs :
       IF ~rs.ok THEN [ok |-> FALSE, d |-> rs.d, mcu |-> mcu]
       ELSE IF rs.d.w.insufficient /\ ~(scan.prog /\ scan.Ss = 0 /\ scan.Ah > 0)
       THEN [ok |-> TRUE, d |-> counted(rs.d), mcu |-> mcu]
       ELSE With(DecodeOne(src, rs.d.w, rs.d, scan, mcu), LAMBDA r :
              IF r.ok THEN [ok |-> TRUE, d |-> counted([r.d EXCEPT !.w = r.w]), mcu |-> r.mcu]
              ELSE [ok |-> FALSE, d |-> r.d, mcu |-> r.mcu]))
=============================================================================
