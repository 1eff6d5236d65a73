---------------------------- MODULE ArithDecoder ----------------------------
(* The arithmetic entropy decoder of the C library (jdarith.c).  It never *)
(* suspends: src is the whole data, which a marker ends.  d.w holds the *)
(* reader's place and the marker it ran into; ct = -1 says that the data of *)
(* this restart interval is damaged and the rest of it is skipped. *)
EXTENDS ArithCoder

\* The next byte of the data, FF00 standing for FF; zeros after a marker.
get_byte(src, w) ==
  LET p == Min({p \in (w.pos + 2)..Len(src) : src[p] # 255})
  IN IF w.unread # 0 THEN [w |-> w, v |-> 0]
     ELSE IF src[w.pos + 1] # 255 THEN [w |-> [w EXCEPT !.pos = @ + 1], v |-> src[w.pos + 1]]
     ELSE IF src[p] = 0 THEN [w |-> [w EXCEPT !.pos = p], v |-> 255]
     ELSE [w |-> [w EXCEPT !.pos = p, !.unread = src[p]], v |-> 0]

\* Renormalisation; ct counts the bits left of the last byte, and from -16 the
\* first two bytes are read before anything is decoded.
RECURSIVE Refilled(_, _)
Refilled(src, d) ==
  IF d.a >= 32768 THEN d
  ELSE IF d.ct > 0 THEN Refilled(src, [d EXCEPT !.ct = @ - 1, !.a = @ * 2])
  ELSE With(get_byte(src, d.w), LAMBDA b :
         LET ct == d.ct + 7
         IN Refilled(src, [d EXCEPT !.w = b.w, !.c = @ * 256 + b.v,
                                    !.ct = IF ct < 0 THEN ct + 1 ELSE ct,
                                    !.a = (IF ct = -1 THEN 32768 ELSE @) * 2]))

\* One decision in the context of bin.
arith_decode(src, d0, bin) ==
  With(Refilled(src, d0), LAMBDA d : With(StatOf(d.st, bin), LAMBDA s : With(Qe(s), LAMBDA qe :
  LET a     == d.a - qe
      upper == d.c >= a * 2 ^ d.ct
      lps   == IF upper THEN a >= qe ELSE a < qe
      moved == upper \/ a < 32768
  IN [v |-> IF moved /\ lps THEN 1 - s.mps ELSE s.mps,
      d |-> [d EXCEPT !.a = IF upper THEN qe ELSE a,
                      !.c = IF upper THEN @ - a * 2 ^ d.ct ELSE @,
                      !.st = IF moved THEN WithStat(@, bin, IF lps THEN AfterLps(s) ELSE AfterMps(s))
                             ELSE @]])))

----------------------------------------------------------------------------
(* Values.  [d, v], or [d, k] for a place in the block; d.ct = -1 on damage. *)

Damaged(d) == d.ct = -1

\* Size category n, in unary; 16 is damage.
RECURSIVE DecodeUnary(_, _, _, _)
DecodeUnary(src, d, bins, n) ==
  With(arith_decode(src, d, bins[n]), LAMBDA z :
     IF z.v = 0 THEN [d |-> z.d, n |-> n]
     ELSE IF n = 15 THEN [d |-> [z.d EXCEPT !.ct = -1], n |-> n]
     ELSE DecodeUnary(src, z.d, bins, n + 1))

\* The low bits of a value whose leading ones are in v.
RECURSIVE DecodeLow(_, _, _, _, _)
DecodeLow(src, d, bin, v, left) ==
  IF left <= 0 THEN [d |-> d, v |-> v]
  ELSE With(arith_decode(src, d, bin), LAMBDA z : DecodeLow(src, z.d, bin, 2 * v + z.v, left - 1))

\* A magnitude, with its size category; bins[n] decides whether it exceeds n.
DecodeMagnitude(src, d, bins) ==
  With(DecodeUnary(src, d, bins, 0), LAMBDA u :
     IF Damaged(u.d) THEN [d |-> u.d, v |-> 0, n |-> 0]
     ELSE With(DecodeLow(src, u.d, Offset(bins[u.n], 14), IF u.n = 0 THEN 0 ELSE 1, u.n - 1), LAMBDA r :
            [d |-> r.d, v |-> r.v + 1, n |-> u.n]))

Signed(sign, v) == IF sign = 1 THEN -v ELSE v

\* A sign and a magnitude, whose bins may depend on the sign.
SignedMagnitude(src, d, signbin, SizeBin(_, _)) ==
  With(arith_decode(src, d, signbin), LAMBDA sg :
  With(DecodeMagnitude(src, sg.d, [n \in 0..15 |-> SizeBin(sg.v, n)]), LAMBDA m :
     [d |-> m.d, v |-> Signed(sg.v, m.v), n |-> m.n, sign |-> sg.v]))

\* A DC difference, and the context its size makes for the next one.
DecodeDcArith(src, d, scan, b) ==
  LET t       == scan.tbl[b.ci]
      context == d.dc_context[b.ci]
      high(n) == IF n = 0 THEN 0 ELSE 2 ^ (n - 1)
      next(n, sign) == IF high(n) < 2 ^ scan.cond[t].L \div 2 THEN 0
                       ELSE (IF high(n) > 2 ^ scan.cond[t].U \div 2 THEN 12 ELSE 4) + 4 * sign
      valued(x, dc) == [d |-> x, block |-> [b.block EXCEPT ![0] = dc * 2 ^ scan.Al]]
  IN With(arith_decode(src, d, << "dc", t, context >>), LAMBDA z :
       IF z.v = 0 THEN valued([z.d EXCEPT !.dc_context[b.ci] = 0], d.last_dc_val[b.ci])
       ELSE With(SignedMagnitude(src, z.d, << "dc", t, context + 1 >>,
                   LAMBDA sign, n : DcSizeBin(t, context + 2 + sign, n)), LAMBDA m :
              LET dc == d.last_dc_val[b.ci] + m.v
              IN IF Damaged(m.d) THEN [d |-> m.d, block |-> b.block]
                 ELSE valued([m.d EXCEPT !.dc_context[b.ci] = next(m.n, m.sign),
                                         !.last_dc_val[b.ci] = dc], dc)))

\* The next nonzero coefficient after k; beyond Se is damage.
RECURSIVE NextNonZero(_, _, _, _, _)
NextNonZero(src, d, t, k, Se) ==
  With(arith_decode(src, d, << "ac", t, 3 * k + 1 >>), LAMBDA z :
     IF z.v = 1 THEN [d |-> z.d, k |-> k + 1]
     ELSE IF k + 1 >= Se THEN [d |-> [z.d EXCEPT !.ct = -1], k |-> k + 1]
     ELSE NextNonZero(src, z.d, t, k + 1, Se))

\* The coefficients after k up to Se, or to the end of the block.
RECURSIVE DecodeBandArith(_, _, _, _, _, _, _)
DecodeBandArith(src, d, scan, t, block, k, Se) ==
  IF k >= Se THEN [d |-> d, block |-> block]
  ELSE With(arith_decode(src, d, << "ac", t, 3 * k >>), LAMBDA z :
    IF z.v = 1 THEN [d |-> z.d, block |-> block]
    ELSE With(NextNonZero(src, z.d, t, k, Se), LAMBDA p :
      IF Damaged(p.d) THEN [d |-> p.d, block |-> block]
      ELSE With(SignedMagnitude(src, p.d, FixedBin, LAMBDA sign, n :
                  AcSizeBin(t, 3 * (p.k - 1) + 2, p.k, scan.cond[t].K, n)), LAMBDA m :
        IF Damaged(m.d) THEN [d |-> m.d, block |-> block]
        ELSE DecodeBandArith(src, m.d, scan, t, [block EXCEPT ![p.k] = m.v * 2 ^ scan.Al], p.k, Se))))

\* The coefficient refined after k: one nonzero before takes a correction bit,
\* one that becomes nonzero a sign, and a zero is passed.
RECURSIVE RefineNext(_, _, _, _, _, _)
RefineNext(src, d, scan, t, block, k) ==
  LET v  == block[k + 1]
      p1 == 2 ^ scan.Al
  IN IF v # 0
     THEN With(arith_decode(src, d, << "ac", t, 3 * k + 2 >>), LAMBDA co :
       [d |-> co.d, k |-> k + 1,
        block |-> IF co.v = 1 THEN [block EXCEPT ![k + 1] = IF v < 0 THEN v - p1 ELSE v + p1] ELSE block])
     ELSE With(arith_decode(src, d, << "ac", t, 3 * k + 1 >>), LAMBDA nz :
       IF nz.v = 1
       THEN With(arith_decode(src, nz.d, FixedBin), LAMBDA sg :
         [d |-> sg.d, k |-> k + 1, block |-> [block EXCEPT ![k + 1] = Signed(sg.v, p1)]])
       ELSE IF k + 1 >= scan.Se THEN [d |-> [nz.d EXCEPT !.ct = -1], k |-> k + 1, block |-> block]
       ELSE RefineNext(src, nz.d, scan, t, block, k + 1))

\* The end of the block is coded only after kex, its last coefficient nonzero before.
RECURSIVE RefineBandArith(_, _, _, _, _, _, _)
RefineBandArith(src, d, scan, t, block, k, kex) ==
  IF k >= scan.Se \/ Damaged(d) THEN [d |-> d, block |-> block]
  ELSE With(IF k >= kex THEN arith_decode(src, d, << "ac", t, 3 * k >>) ELSE [v |-> 0, d |-> d], LAMBDA z :
    IF z.v = 1 THEN [d |-> z.d, block |-> block]
    ELSE With(RefineNext(src, z.d, scan, t, block, k), LAMBDA n :
           RefineBandArith(src, n.d, scan, t, n.block, n.k, kex)))

LastNonZero(block, Se) ==
  LET nz == {k \in 1..Se : block[k] # 0} IN IF nz = {} THEN 0 ELSE Max(nz)

----------------------------------------------------------------------------
(* One MCU *)

decode_block_arith(src, d, scan, b) ==
  LET t == scan.tbl[b.ci]
  IN IF ~scan.prog
     THEN With(DecodeDcArith(src, d, scan, b), LAMBDA dc :
            IF Damaged(dc.d) \/ scan.lim = 0 THEN dc
            ELSE DecodeBandArith(src, dc.d, scan, t, dc.block, 0, scan.lim))
     ELSE IF scan.Ss = 0
     THEN IF scan.Ah = 0 THEN DecodeDcArith(src, d, scan, b)
          ELSE With(arith_decode(src, d, FixedBin), LAMBDA one :
                 [d |-> one.d,
                  block |-> IF one.v = 1 /\ (b.block[0] \div 2 ^ scan.Al) % 2 = 0
                            THEN [b.block EXCEPT ![0] = @ + 2 ^ scan.Al] ELSE b.block])
     ELSE IF scan.Ah = 0 THEN DecodeBandArith(src, d, scan, t, b.block, scan.Ss - 1, scan.Se)
     ELSE RefineBandArith(src, d, scan, t, b.block, scan.Ss - 1, LastNonZero(b.block, scan.Se))

RECURSIVE DecodeBlocksArith(_, _, _, _, _)
DecodeBlocksArith(src, d, scan, mcu, i) ==
  IF i > Len(mcu) \/ Damaged(d) THEN [d |-> d, mcu |-> mcu]
  ELSE With(decode_block_arith(src, d, scan, mcu[i]), LAMBDA r :
         DecodeBlocksArith(src, r.d, scan, [mcu EXCEPT ![i].block = r.block], i + 1))

Restarted(d, scan) == [Forgotten(d, scan) EXCEPT !.c = 0, !.a = 0, !.ct = -16, !.restarts_to_go = scan.ri]

process_restart_arith(src, d, scan) ==
  LET expected(w) == w.unread = RST0 + d.next_restart_num
      passed(w) == [w EXCEPT !.unread = IF expected(w) THEN 0 ELSE @]
  IN [Restarted(d, scan) EXCEPT !.w = passed(NextMarker(src, d.w).w), !.next_restart_num = (@ + 1) % 8]

start_pass_arith_decoder(scan) ==
  LET cs == {scan.comps[i] : i \in DOMAIN scan.comps}
  IN [w |-> [pos |-> 0, unread |-> 0], c |-> 0, a |-> 0, ct |-> -16, st |-> << >>,
      last_dc_val |-> [c \in cs |-> 0], dc_context |-> [c \in cs |-> 0],
      restarts_to_go |-> scan.ri, next_restart_num |-> 0]

decode_mcu_arith(src, d, scan, mcu) ==
  LET rs == IF scan.ri > 0 /\ d.restarts_to_go = 0 THEN process_restart_arith(src, d, scan) ELSE d
  IN With(DecodeBlocksArith(src, IF scan.ri > 0 THEN [rs EXCEPT !.restarts_to_go = @ - 1] ELSE rs,
                            scan, mcu, 1), LAMBDA r :
       [ok |-> TRUE, d |-> r.d, mcu |-> r.mcu])
=============================================================================
