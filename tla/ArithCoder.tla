----------------------------- MODULE ArithCoder -----------------------------
(* The arithmetic entropy coder of the C library: jcarith.c, jdarith.c and *)
(* the probability estimation table of jaricom.c.  Blocks, MCUs and scans *)
(* are those of HuffEncoder; scan.cond[t] = [L, U, K] conditions table t. *)
(* A statistics bin is << class, table, index >>; st maps the bins in use to *)
(* [i |-> state, mps |-> more probable symbol]. *)
EXTENDS HuffDecoder

\* << Qe, next state after an LPS, next state after an MPS, switch of the MPS >>.
jpeg_aritab == <<
  <<23069,1,1,1>>, <<9606,14,2,0>>, <<4372,16,3,0>>, <<2059,18,4,0>>, <<984,20,5,0>>,
     <<474,23,6,0>>, <<229,25,7,0>>, <<111,28,8,0>>, <<54,30,9,0>>, <<26,33,10,0>>, <<13,35,11,0>>,
     <<6,9,12,0>>, <<3,10,13,0>>, <<1,12,13,0>>, <<23167,15,15,1>>, <<16165,36,16,0>>,
     <<11506,38,17,0>>, <<8316,39,18,0>>, <<6073,40,19,0>>, <<4482,42,20,0>>, <<3311,43,21,0>>,
     <<2465,45,22,0>>, <<1839,46,23,0>>, <<1372,48,24,0>>, <<1030,49,25,0>>, <<771,51,26,0>>,
     <<576,52,27,0>>, <<433,54,28,0>>, <<324,56,29,0>>, <<245,57,30,0>>, <<183,59,31,0>>,
     <<138,60,32,0>>, <<104,62,33,0>>, <<78,63,34,0>>, <<59,32,35,0>>, <<44,33,9,0>>,
     <<23265,37,37,1>>, <<18508,64,38,0>>, <<14861,65,39,0>>, <<12017,67,40,0>>, <<9759,68,41,0>>,
     <<7987,69,42,0>>, <<6568,70,43,0>>, <<5400,72,44,0>>, <<4471,73,45,0>>, <<3700,74,46,0>>,
     <<3067,75,47,0>>, <<2552,77,48,0>>, <<2145,78,49,0>>, <<1798,79,50,0>>, <<1485,48,51,0>>,
     <<1246,50,52,0>>, <<1039,50,53,0>>, <<867,51,54,0>>, <<724,52,55,0>>, <<604,53,56,0>>,
     <<504,54,57,0>>, <<420,55,58,0>>, <<352,56,59,0>>, <<293,57,60,0>>, <<246,58,61,0>>,
     <<203,59,62,0>>, <<171,61,63,0>>, <<143,61,32,0>>, <<23314,65,65,1>>, <<19716,80,66,0>>,
     <<16684,81,67,0>>, <<14296,82,68,0>>, <<12264,83,69,0>>, <<10556,84,70,0>>, <<9081,86,71,0>>,
     <<7903,87,72,0>>, <<6825,87,73,0>>, <<5966,72,74,0>>, <<5156,72,75,0>>, <<4508,74,76,0>>,
     <<3947,74,77,0>>, <<3409,75,78,0>>, <<2998,77,79,0>>, <<2624,77,48,0>>, <<22578,80,81,1>>,
     <<19740,88,82,0>>, <<17294,89,83,0>>, <<15325,90,84,0>>, <<13550,91,85,0>>, <<11950,92,86,0>>,
     <<10650,93,87,0>>, <<9494,86,71,0>>, <<21872,88,89,1>>, <<19625,95,90,0>>, <<17625,96,91,0>>,
     <<15906,97,92,0>>, <<14372,99,93,0>>, <<12980,99,94,0>>, <<11799,93,86,0>>, <<22184,95,96,1>>,
     <<20294,101,97,0>>, <<18405,102,98,0>>, <<16847,103,99,0>>, <<15421,104,100,0>>,
     <<14174,99,93,0>>, <<21041,105,102,0>>, <<19471,106,103,0>>, <<17977,107,104,0>>,
     <<16734,103,99,0>>, <<22055,105,106,1>>, <<20711,108,107,0>>, <<19333,109,103,0>>,
     <<21911,110,109,0>>, <<20559,111,107,0>>, <<23056,110,111,1>>, <<21794,112,109,0>>,
     <<23019,112,111,1>>, <<23069,113,113,0>> >>

FixedBin == << "fixed", 0, 0 >>
Fresh(bin) == [i |-> IF bin = FixedBin THEN 113 ELSE 0, mps |-> 0]
StatOf(st, bin) == IF bin \in DOMAIN st THEN st[bin] ELSE Fresh(bin)
WithStat(st, bin, s) == [b \in DOMAIN st \cup {bin} |-> IF b = bin THEN s ELSE st[b]]
AfterMps(s) == [i |-> jpeg_aritab[s.i + 1][3], mps |-> s.mps]
AfterLps(s) == LET q == jpeg_aritab[s.i + 1] IN [i |-> q[2], mps |-> IF q[4] = 1 THEN 1 - s.mps ELSE s.mps]
Qe(s) == jpeg_aritab[s.i + 1][1]

----------------------------------------------------------------------------
(* The encoder e: base c, interval a, sc stacked FF bytes and zc pending zero *)
(* bytes, ct bits until a byte is complete, and the byte before it in buffer. *)

Zeros(n) == [i \in 1..n |-> 0]
Stuffed(c) == IF c = 255 THEN << 255, 0 >> ELSE << c >>
Ones(n) == FlattenSeq([i \in 1..n |-> << 255, 0 >>])

\* A carry goes into the byte held back; the stacked FF bytes become zeros.
Carried(e) ==
  [e EXCEPT !.out = IF e.buffer >= 0 THEN @ \o Zeros(e.zc) \o Stuffed(e.buffer + 1) ELSE @,
            !.zc = (IF e.buffer >= 0 THEN 0 ELSE @) + e.sc, !.sc = 0]

\* No carry can reach them any more: the byte held back and the stacked FF bytes.
Settled(e) ==
  LET zc1 == IF e.buffer = 0 THEN e.zc + 1 ELSE IF e.buffer > 0 THEN 0 ELSE e.zc
      o1  == IF e.buffer > 0 THEN e.out \o Zeros(e.zc) \o << e.buffer >> ELSE e.out
  IN IF e.sc = 0 THEN [e EXCEPT !.out = o1, !.zc = zc1]
     ELSE [e EXCEPT !.out = o1 \o Zeros(zc1) \o Ones(e.sc), !.zc = 0, !.sc = 0]

\* Renormalisation by one bit, and the byte that may be complete then.
Shifted(e) ==
  With([e EXCEPT !.a = @ * 2, !.c = @ * 2, !.ct = @ - 1], LAMBDA f :
     LET temp == f.c \div 2 ^ 19
         g    == IF temp > 255 THEN [Carried(f) EXCEPT !.buffer = temp % 256]
                 ELSE IF temp = 255 THEN [f EXCEPT !.sc = @ + 1]
                 ELSE [Settled(f) EXCEPT !.buffer = temp]
     IN IF f.ct > 0 THEN f ELSE [g EXCEPT !.c = @ % 2 ^ 19, !.ct = 8])

RECURSIVE Renormalised(_)
Renormalised(e) == With(Shifted(e), LAMBDA f : IF f.a < 32768 THEN Renormalised(f) ELSE f)

\* One decision val in the context of bin; the smaller part of the interval
\* always goes to the less probable symbol.
arith_encode(e, bin, val) ==
  With(StatOf(e.st, bin), LAMBDA s : With(Qe(s), LAMBDA qe :
  LET a     == e.a - qe
      lps   == val # s.mps
      upper == IF lps THEN a >= qe ELSE a < qe
      f     == [e EXCEPT !.a = IF upper THEN qe ELSE a, !.c = IF upper THEN @ + a ELSE @]
  IN IF ~lps /\ a >= 32768 THEN [e EXCEPT !.a = a]
     ELSE Renormalised([f EXCEPT !.st = WithStat(e.st, bin, IF lps THEN AfterLps(s) ELSE AfterMps(s))])))

\* Section D.1.8: the value in the interval with the most trailing zeros ends
\* the data; final zero bytes are not written.
finish_pass_arith(e) ==
  LET temp == ((e.a - 1 + e.c) \div 65536) * 65536
      c    == (IF temp < e.c THEN temp + 32768 ELSE temp) * 2 ^ e.ct
      f    == IF c >= 2 ^ 27 THEN Carried(e) ELSE Settled(e)
      b1   == (c \div 2 ^ 19) % 256
      b2   == (c \div 2 ^ 11) % 256
  IN IF b1 = 0 /\ b2 = 0 THEN f.out
     ELSE f.out \o Zeros(f.zc) \o Stuffed(b1) \o (IF b2 = 0 THEN << >> ELSE Stuffed(b2))

FreshCoder(e) == [e EXCEPT !.c = 0, !.a = 65536, !.sc = 0, !.zc = 0, !.ct = 11, !.buffer = -1]

\* What a restart forgets: the statistics of the scan's tables and the predictions.
Forgotten(x, scan) ==
  [x EXCEPT !.st = << >>,
            !.last_dc_val = IF scan.Ss = 0 /\ scan.Ah = 0 THEN [c \in DOMAIN @ |-> 0] ELSE @,
            !.dc_context = IF scan.Ss = 0 /\ scan.Ah = 0 THEN [c \in DOMAIN @ |-> 0] ELSE @]

emit_restart_arith(e, scan) ==
  FreshCoder(Forgotten([e EXCEPT !.out = finish_pass_arith(e) \o << 255, RST0 + e.next_restart_num >>], scan))

----------------------------------------------------------------------------
(* The decisions of a block: a sequence of [bin, val] *)

Decide(bin, val) == << [bin |-> bin, val |-> val] >>

\* Size category of v - 1 in unary from the bins nxt(0), nxt(1), ..., then its
\* low bits from one more bin.  v > 0 is the magnitude.
SizeOf(v) == IF v = 1 THEN 0 ELSE nbits(v - 1)
LowBits(v, bin) ==
  LET n == SizeOf(v)
  IN IF n < 2 THEN << >>
     ELSE FlattenSeq([i \in 1..(n - 1) |-> Decide(bin, BitsOf(v - 1, n - 1)[i])])

\* The bin of a DC difference's size after n decisions, starting in bin s0.
DcSizeBin(t, s0, n) == << "dc", t, IF n = 0 THEN s0 ELSE 19 + n >>
\* The same for AC: the first two decisions share a bin.
AcSizeBin(t, s0, k, K, n) ==
  << "ac", t, IF n <= 1 THEN s0 ELSE (IF k <= K THEN 187 ELSE 215) + n >>

\* The unary size: a 1 from each bin, then a 0.
Unary(bin(_), n) == FlattenSeq([i \in 1..(n + 1) |-> Decide(bin(i - 1), IF i <= n THEN 1 ELSE 0)])

\* The category of a difference for the next block's context.
DcContext(v, cond) ==
  LET a == Magnitude(v)
      m == IF a <= 1 THEN 0 ELSE 2 ^ (SizeOf(a) - 1)
  IN IF v = 0 \/ m < 2 ^ cond.L \div 2 THEN 0
     ELSE IF m > 2 ^ cond.U \div 2 THEN IF v > 0 THEN 12 ELSE 16
     ELSE IF v > 0 THEN 4 ELSE 8

Offset(bin, by) == << bin[1], bin[2], bin[3] + by >>

DcDecisions(diff, t, context) ==
  LET a  == Magnitude(diff)
      s0 == context + (IF diff > 0 THEN 2 ELSE 3)
      last == DcSizeBin(t, s0, SizeOf(a))
  IN IF diff = 0 THEN Decide(<< "dc", t, context >>, 0)
     ELSE Decide(<< "dc", t, context >>, 1)
          \o Decide(<< "dc", t, context + 1 >>, IF diff > 0 THEN 0 ELSE 1)
          \o Unary(LAMBDA n : DcSizeBin(t, s0, n), SizeOf(a)) \o LowBits(a, Offset(last, 14))

\* One coefficient's magnitude.
AcMagnitude(v, t, k, K) ==
  LET a == Magnitude(v)
      s0 == 3 * (k - 1) + 2
      last == AcSizeBin(t, s0, k, K, SizeOf(a))
  IN Unary(LAMBDA n : AcSizeBin(t, s0, k, K, n), SizeOf(a)) \o LowBits(a, Offset(last, 14))

Sign(v) == Decide(FixedBin, IF v < 0 THEN 1 ELSE 0)
Zero(t, k) == Decide(<< "ac", t, 3 * (k - 1) + 1 >>, 0)
NonZero(t, k) == Decide(<< "ac", t, 3 * (k - 1) + 1 >>, 1)
EndOfBlock(t, k, val) == Decide(<< "ac", t, 3 * k >>, val)

\* A band at precision Al: before each nonzero coefficient "not the end", then
\* zeros up to it, its sign and magnitude; the end unless the band is full.
AcDecisions(block, t, Ss, Se, Al, K) ==
  LET nz == {k \in Ss..Se : MagnitudeShift(block[k], Al) # 0}
      ke == IF nz = {} THEN Ss - 1 ELSE Max(nz)
      At(k) == (IF k = Ss \/ k - 1 \in nz THEN EndOfBlock(t, k - 1, 0) ELSE << >>)
               \o (IF k \notin nz THEN Zero(t, k)
                   ELSE LET v == MagnitudeShift(block[k], Al)
                        IN NonZero(t, k) \o Sign(v) \o AcMagnitude(v, t, k, K))
  IN FlattenSeq([i \in 1..(ke - Ss + 1) |-> At(Ss + i - 1)])
     \o (IF ke < Se THEN EndOfBlock(t, ke, 1) ELSE << >>)

\* Refinement: kex is the last coefficient nonzero before; the end is coded only
\* after it, and a coefficient nonzero before takes one correction bit.
RefineDecisions(block, t, Ss, Se, Al, Ah) ==
  LET At0(x) == {k \in 1..Se : Magnitude(block[k]) \div 2 ^ x # 0}
      nz  == At0(Al) \cap (Ss..Se)
      old == At0(Ah)
      ke  == IF nz = {} THEN Ss - 1 ELSE Max(nz)
      kex == IF old = {} THEN 0 ELSE Max(old)
      At(k) == (IF (k = Ss \/ k - 1 \in nz) /\ k - 1 >= kex THEN EndOfBlock(t, k - 1, 0) ELSE << >>)
               \o (IF k \notin nz THEN Zero(t, k)
                   ELSE IF k \in old THEN Decide(<< "ac", t, 3 * (k - 1) + 2 >>, (Magnitude(block[k]) \div 2 ^ Al) % 2)
                   ELSE NonZero(t, k) \o Sign(block[k]))
  IN FlattenSeq([i \in 1..(ke - Ss + 1) |-> At(Ss + i - 1)])
     \o (IF ke < Se THEN EndOfBlock(t, ke, 1) ELSE << >>)

\* All the decisions, one half after the other.
RECURSIVE Encoded(_, _)
Encoded(e, decisions) ==
  LET n == Len(decisions)
  IN IF n = 0 \/ e.error # "none" THEN e
     ELSE IF n = 1 THEN arith_encode(e, decisions[1].bin, decisions[1].val)
     ELSE Encoded(Encoded(e, SubSeq(decisions, 1, n \div 2)), SubSeq(decisions, n \div 2 + 1, n))

----------------------------------------------------------------------------
(* One MCU *)

EncodeDcArith(e, scan, b) ==
  LET t    == scan.tbl[b.ci]
      m    == IRIGHT_SHIFT(b.block[0], scan.Al)
      diff == m - e.last_dc_val[b.ci]
  IN [Encoded(e, DcDecisions(diff, t, e.dc_context[b.ci]))
       EXCEPT !.last_dc_val[b.ci] = m, !.dc_context[b.ci] = DcContext(diff, scan.cond[t])]

\* encode_mcu and encode_mcu_DC_first, _AC_first, _DC_refine, _AC_refine.
encode_block_arith(e, scan, b) ==
  LET t == scan.tbl[b.ci]
  IN IF ~scan.prog
     THEN Encoded(EncodeDcArith(e, scan, b), AcDecisions(b.block, t, 1, scan.lim, 0, scan.cond[t].K))
     ELSE IF scan.Ss = 0
     THEN IF scan.Ah = 0 THEN EncodeDcArith(e, scan, b)
          ELSE arith_encode(e, FixedBin, IRIGHT_SHIFT(b.block[0], scan.Al) % 2)
     ELSE IF scan.Ah = 0
     THEN Encoded(e, AcDecisions(b.block, t, scan.Ss, scan.Se, scan.Al, scan.cond[t].K))
     ELSE Encoded(e, RefineDecisions(b.block, t, scan.Ss, scan.Se, scan.Al, scan.Ah))

start_pass_arith(scan) ==
  LET cs == {scan.comps[i] : i \in DOMAIN scan.comps}
  IN [c |-> 0, a |-> 65536, sc |-> 0, zc |-> 0, ct |-> 11, buffer |-> -1, out |-> << >>, st |-> << >>,
      last_dc_val |-> [c \in cs |-> 0], dc_context |-> [c \in cs |-> 0], error |-> "none",
      restarts_to_go |-> scan.ri, next_restart_num |-> 0]

encode_mcu_arith(e, scan, mcu) ==
  LET due == scan.ri > 0 /\ e.restarts_to_go = 0
      f   == IF ~due THEN e
             ELSE [emit_restart_arith(e, scan) EXCEPT !.restarts_to_go = scan.ri,
                                                      !.next_restart_num = (@ + 1) % 8]
      g   == IF scan.ri > 0 THEN [f EXCEPT !.restarts_to_go = @ - 1] ELSE f
  IN FoldLeft(LAMBDA h, b : encode_block_arith(h, scan, b), g, mcu)
=============================================================================
