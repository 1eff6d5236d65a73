---------------------------- MODULE HuffEncoder ----------------------------
(* The Huffman entropy encoder of the C library (jchuff.c): sequential and *)
(* progressive, once to count symbols and once to write.  A block is a *)
(* function from 0..lim_Se, the zigzag index, to coefficients.  A scan is *)
(* [comps, Ss, Se, Ah, Al, prog, lim, tbl, ri]: its components, its band, its *)
(* successive approximation, whether the image is progressive, lim_Se, the *)
(* table of each component and the restart interval. *)
EXTENDS HuffTables

CONSTANTS MAX_CORR_BITS,   \* refinement bits kept with an EOB run (1000)
          MaxEOBRUN        \* longest EOB run (0x7FFF)

RST0 == 208

\* Arithmetic shift right of a coefficient, rounding down, and of its magnitude.
IRIGHT_SHIFT(v, n) == v \div 2 ^ n
MagnitudeShift(v, n) == IF v < 0 THEN -((-v) \div 2 ^ n) ELSE v \div 2 ^ n
Magnitude(v) == IF v < 0 THEN -v ELSE v

\* A coefficient's bits after its size symbol: a negative value less one.
ExtraBits(v) == BitsOf(IF v < 0 THEN v - 1 ELSE v, nbits(v))

----------------------------------------------------------------------------
(* Output.  The encoder e holds whole bytes in out and the bits after them in *)
(* put; while gathering it counts symbols and writes nothing. *)

\* Whole bytes out of the bit buffer, a zero byte stuffed after each FF.
RECURSIVE Drained(_, _)
Drained(out, put) ==
  IF Len(put) < 8 THEN [out |-> out, put |-> put]
  ELSE LET c == NumberOf(SubSeq(put, 1, 8))
       IN Drained(out \o (IF c = 255 THEN << 255, 0 >> ELSE << c >>), SubSeq(put, 9, Len(put)))

emit_bits(e, bits) ==
  IF e.gather THEN e
  ELSE LET d == Drained(e.out, e.put \o bits) IN [e EXCEPT !.out = d.out, !.put = d.put]

\* A symbol without a code is an error of the encoder (JERR_HUFF_MISSING_CODE).
emit_symbol(e, class, t, s) ==
  IF e.gather
  THEN [e EXCEPT !.counts = [x \in DOMAIN @ \cup {<< class, t, s >>} |->
                               (IF x \in DOMAIN @ THEN @[x] ELSE 0) + (IF x = << class, t, s >> THEN 1 ELSE 0)]]
  ELSE IF s \in DOMAIN e.tables[<< class, t >>] THEN emit_bits(e, e.tables[<< class, t >>][s])
  ELSE [e EXCEPT !.error = "missing code"]

emit_dc_symbol(e, t, s) == emit_symbol(e, "dc", t, s)
emit_ac_symbol(e, t, s) == emit_symbol(e, "ac", t, s)
emit_buffered_bits(e, bits) == emit_bits(e, bits)

\* Filling the last byte with ones.
flush_bits(e) ==
  IF e.gather THEN e ELSE [emit_bits(e, << 1, 1, 1, 1, 1, 1, 1 >>) EXCEPT !.put = << >>]

\* The pending run of blocks without new coefficients, with their refinement bits.
emit_eobrun(e) ==
  IF e.EOBRUN = 0 THEN e
  ELSE LET n == nbits(e.EOBRUN) - 1
       IN [emit_buffered_bits(emit_ac_symbol(e, e.ac_tbl_no, n * 16), BitsOf(e.EOBRUN, n) \o e.BE)
            EXCEPT !.EOBRUN = 0, !.BE = << >>]

\* The marker between restart intervals.
emit_restart(e, scan) ==
  [flush_bits(IF scan.prog THEN emit_eobrun(e) ELSE e)
    EXCEPT !.out = IF e.gather THEN @ ELSE @ \o << 255, RST0 + e.next_restart_num >>,
           !.last_dc_val = IF scan.Ss = 0 THEN [c \in DOMAIN @ |-> 0] ELSE @,
           !.EOBRUN = IF scan.Ss = 0 THEN @ ELSE 0,
           !.BE = IF scan.Ss = 0 THEN @ ELSE << >>]

----------------------------------------------------------------------------
(* One MCU: a sequence of [ci, block] *)

\* The run of zeros before a coefficient, in steps of 16.
RECURSIVE ZeroRuns(_, _, _)
ZeroRuns(e, t, r) == IF r > 15 THEN ZeroRuns(emit_ac_symbol(e, t, 240), t, r - 16) ELSE e

\* A DC difference.
EmitDc(e, t, diff) ==
  IF diff = 0 THEN emit_dc_symbol(e, t, 0)
  ELSE emit_bits(emit_dc_symbol(e, t, nbits(diff)), ExtraBits(diff))

encode_DC(e, scan, mcu) ==
  FoldLeft(LAMBDA f, b :
             LET temp == IRIGHT_SHIFT(b.block[0], scan.Al)
             IN [EmitDc(f, scan.tbl[b.ci], temp - f.last_dc_val[b.ci])
                  EXCEPT !.last_dc_val[b.ci] = temp], e, mcu)

\* The coefficients of a band from k on, each after the run of zeros at
\* precision Al before it; r zeros are left at the end.  An error ends it.
RECURSIVE EmitBand(_, _, _, _, _, _)
EmitBand(e, block, t, k, Se, Al) ==
  LET nz == {x \in k..Se : MagnitudeShift(block[x], Al) # 0}
      x  == Min(nz)
      v  == MagnitudeShift(block[x], Al)
      e1 == ZeroRuns(IF e.EOBRUN > 0 THEN emit_eobrun(e) ELSE e, t, x - k)
      e2 == emit_ac_symbol(e1, t, ((x - k) % 16) * 16 + nbits(v))
  IN IF e.error # "none" \/ nz = {} THEN [e |-> e, r |-> Se - k + 1]
     ELSE EmitBand(emit_bits(e2, ExtraBits(v)), block, t, x + 1, Se, Al)

\* Sequential: the DC difference and the whole band of every block.
encode_one_block(e, scan, b) ==
  LET t == scan.tbl[b.ci]
  IN With(EmitBand([EmitDc(e, t, b.block[0] - e.last_dc_val[b.ci])
                     EXCEPT !.last_dc_val[b.ci] = b.block[0]], b.block, t, 1, scan.lim, 0), LAMBDA w :
       IF w.r > 0 THEN emit_ac_symbol(w.e, t, 0) ELSE w.e)

encode_mcu_huff(e, scan, mcu) == FoldLeft(LAMBDA f, b : encode_one_block(f, scan, b), e, mcu)

\* Progressive, first scan of the DC coefficients and of a band.
encode_mcu_DC_first(e, scan, mcu) == encode_DC(e, scan, mcu)

encode_mcu_AC_first(e, scan, mcu) ==
  With(EmitBand(e, mcu[1].block, e.ac_tbl_no, scan.Ss, scan.Se, scan.Al), LAMBDA w :
     LET n == [w.e EXCEPT !.EOBRUN = @ + 1]
     IN IF w.r = 0 THEN w.e ELSE IF n.EOBRUN = MaxEOBRUN THEN emit_eobrun(n) ELSE n)

\* Refinement scans: one more bit of each coefficient.
encode_mcu_DC_refine(e, scan, mcu) ==
  FoldLeft(LAMBDA f, b : emit_bits(f, BitsOf(IRIGHT_SHIFT(b.block[0], scan.Al), 1)), e, mcu)

\* BR holds the refinement bits of coefficients already nonzero since the last
\* symbol, held those with the pending EOB run before it; EOB is the last newly
\* nonzero coefficient.
RECURSIVE EmitRefined(_, _, _, _, _, _, _, _)
EmitRefined(e, block, k, Se, Al, EOB, r, BR) ==
  IF e.error # "none" \/ k > Se THEN [e |-> e, r |-> r, BR |-> BR]
  ELSE LET a == Magnitude(block[k]) \div 2 ^ Al
       IN IF a = 0 THEN EmitRefined(e, block, k + 1, Se, Al, EOB, r + 1, BR)
          ELSE IF r > 15 /\ k <= EOB
          THEN EmitRefined(emit_buffered_bits(emit_ac_symbol(emit_eobrun(e), e.ac_tbl_no, 240), BR),
                           block, k, Se, Al, EOB, r - 16, << >>)
          ELSE IF a > 1 THEN EmitRefined(e, block, k + 1, Se, Al, EOB, r, Append(BR, a % 2))
          ELSE EmitRefined(
                 emit_buffered_bits(emit_ac_symbol(emit_eobrun(e), e.ac_tbl_no, r * 16 + 1),
                                    << IF block[k] < 0 THEN 0 ELSE 1 >> \o BR),
                 block, k + 1, Se, Al, EOB, 0, << >>)

encode_mcu_AC_refine(e, scan, mcu) ==
  LET block == mcu[1].block
      new   == {k \in scan.Ss..scan.Se : Magnitude(block[k]) \div 2 ^ scan.Al = 1}
      EOB   == IF new = {} THEN 0 ELSE Max(new)
  IN With(EmitRefined(e, block, scan.Ss, scan.Se, scan.Al, EOB, 0, << >>), LAMBDA w :
       LET n == [w.e EXCEPT !.EOBRUN = @ + 1, !.BE = @ \o w.BR]
       IN IF w.r = 0 /\ w.BR = << >> THEN w.e
          ELSE IF n.EOBRUN = MaxEOBRUN \/ Len(n.BE) > MAX_CORR_BITS - 63 THEN emit_eobrun(n) ELSE n)

----------------------------------------------------------------------------
(* A pass over a scan *)

start_pass_huff(scan, gather, htbls) ==
  [out |-> << >>, put |-> << >>, gather |-> gather, counts |-> << >>, error |-> "none",
   tables |-> [t \in DOMAIN htbls |-> jpeg_make_c_derived_tbl(htbls[t])],
   last_dc_val |-> [c \in {scan.comps[i] : i \in DOMAIN scan.comps} |-> 0],
   EOBRUN |-> 0, BE |-> << >>, ac_tbl_no |-> scan.tbl[scan.comps[1]],
   restarts_to_go |-> scan.ri, next_restart_num |-> 0]

encode_mcu(e, scan, mcu) ==
  IF ~scan.prog THEN encode_mcu_huff(e, scan, mcu)
  ELSE IF scan.Ah = 0 THEN IF scan.Ss = 0 THEN encode_mcu_DC_first(e, scan, mcu)
                           ELSE encode_mcu_AC_first(e, scan, mcu)
  ELSE IF scan.Ss = 0 THEN encode_mcu_DC_refine(e, scan, mcu) ELSE encode_mcu_AC_refine(e, scan, mcu)

\* The restart marker that is due comes before the MCU.
encode_mcu_with_restart(e, scan, mcu) ==
  LET due == scan.ri > 0 /\ e.restarts_to_go = 0
  IN [encode_mcu(IF due THEN emit_restart(e, scan) ELSE e, scan, mcu)
       EXCEPT !.restarts_to_go = IF scan.ri = 0 THEN @ ELSE (IF due THEN scan.ri ELSE @) - 1,
              !.next_restart_num = IF due THEN (@ + 1) % 8 ELSE @]

finish_pass_huff(e, scan) == flush_bits(IF scan.prog THEN emit_eobrun(e) ELSE e)

\* The counting pass ends with an optimal table for each table it counted for.
finish_pass_gather(e, scan, htbls) ==
  LET counts == (IF scan.prog THEN emit_eobrun(e) ELSE e).counts
      used   == {<< x[1], x[2] >> : x \in DOMAIN counts}
      freq(t) == LET syms == {x[3] : x \in {y \in DOMAIN counts : << y[1], y[2] >> = t}}
                 IN [s \in syms |-> counts[<< t[1], t[2], s >>]]
  IN [t \in DOMAIN htbls \cup used |-> IF t \in used THEN jpeg_gen_optimal_table(freq(t)) ELSE htbls[t]]
=============================================================================
