------------------------------ MODULE Entropy ------------------------------
(* An image through the entropy coders of the C library, scan by scan: *)
(* symbols are counted for optimal tables, the scan is written, and the *)
(* decoder reads it back from a source that delivers a byte now and then and *)
(* lets the Huffman decoder suspend in the middle of an MCU.  The arithmetic *)
(* decoder cannot suspend and gets the scan as a whole. *)
EXTENDS ArithDecoder

CONSTANTS Images,    \* what is coded, see job below
          Counts     \* symbol counts an optimal table is made for

VARIABLES
  job,     \* [coder, prog, lim, ri, order, across, sizes, blocks, scans]: across[c] blocks of
           \* component c in an interleaved MCU, sizes[c] what the decoder wants of it
  s,       \* the scan at work
  phase,   \* "gather", "encode", "decode" or "done"
  i,       \* MCUs of the scan done in this phase
  enc,     \* the encoder
  htbls,   \* the Huffman tables as the markers send them
  data,    \* the scan, with the marker after it
  given,   \* bytes of it delivered
  tried,   \* bytes there were when the decoder last suspended, -1 since it did not
  dec,     \* the decoder
  coefs    \* coefficients decoded: component -> block number -> block
vars == << job, s, phase, i, enc, htbls, data, given, tried, dec, coefs >>

ASSUME CorrBits == MAX_CORR_BITS \in Nat /\ MAX_CORR_BITS > 63
ASSUME LongestRun == MaxEOBRUN \in 1..32767

EOI == << 255, 217 >>

(* The scan as the coders see it.  A scan of one component has one block in *)
(* an MCU. *)
ScanOf(n) ==
  LET sc == job.scans[n]
  IN [comps |-> sc.comps, Ss |-> sc.Ss, Se |-> sc.Se, Ah |-> sc.Ah, Al |-> sc.Al,
      prog |-> job.prog, lim |-> job.lim, ri |-> job.ri, tbl |-> job.tbl, cond |-> job.cond]
scan == ScanOf(s)

\* << component, block >> of every block of MCU m.
Members(sc, m) ==
  LET across(c) == IF Len(sc.comps) = 1 THEN 1 ELSE job.across[c]
  IN FlattenSeq([x \in DOMAIN sc.comps |->
        [b \in 1..across(sc.comps[x]) |-> << sc.comps[x], (m - 1) * across(sc.comps[x]) + b >>]])
MCUs(sc) ==
  LET c == sc.comps[1]
  IN IF Len(sc.comps) = 1 THEN Len(job.blocks[c]) ELSE Len(job.blocks[c]) \div job.across[c]

McuOf(from, m) ==
  [x \in DOMAIN Members(scan, m) |->
     [ci |-> Members(scan, m)[x][1], block |-> from[Members(scan, m)[x][1]][Members(scan, m)[x][2]]]]

\* The blocks of an MCU put back.
Stored(to, m, mcu) ==
  FoldLeft(LAMBDA f, x : [f EXCEPT ![Members(scan, m)[x][1]][Members(scan, m)[x][2]] = mcu[x].block],
           to, [x \in DOMAIN mcu |-> x])

----------------------------------------------------------------------------
Arithmetic == job.coder = "arith"

\* A refinement scan of DC coefficients has no symbols to count.
Gathers(sc) == ~Arithmetic /\ ~(sc.prog /\ sc.Ss = 0 /\ sc.Ah > 0)
StartedEncoder(sc, gather, tables) == IF Arithmetic THEN start_pass_arith(sc) ELSE start_pass_huff(sc, gather, tables)
FirstPhase(sc) == IF Gathers(sc) THEN "gather" ELSE "encode"

NoTable == [huffval |-> << >>]

Init ==
  /\ s = 1 /\ i = 0 /\ htbls = << >> /\ data = << >> /\ given = 0 /\ tried = -1 /\ dec = << >>
  /\ \/ /\ job \in Images
        /\ phase = FirstPhase(ScanOf(1)) /\ enc = StartedEncoder(ScanOf(1), TRUE, << >>)
        /\ coefs = [c \in DOMAIN job.blocks |-> [b \in DOMAIN job.blocks[c] |-> [k \in 0..job.lim |-> 0]]]
     \/ /\ \E f \in Counts : job = [coder |-> "table", freq |-> f, htbl |-> NoTable]
        /\ phase = "table" /\ enc = << >> /\ coefs = << >>

\* An optimal table for some counts.
GenOptimalTable ==
  /\ phase = "table"
  /\ job' = [job EXCEPT !.htbl = jpeg_gen_optimal_table(job.freq)] /\ phase' = "done"
  /\ UNCHANGED << s, i, enc, htbls, data, given, tried, dec, coefs >>

GatherMcu ==
  /\ phase = "gather" /\ i < MCUs(scan)
  /\ enc' = encode_mcu_with_restart(enc, scan, McuOf(job.blocks, i + 1)) /\ i' = i + 1
  /\ UNCHANGED << job, s, phase, htbls, data, given, tried, dec, coefs >>

\* The tables of the counting pass are those the writing pass uses.
FinishGather ==
  /\ phase = "gather" /\ i = MCUs(scan)
  /\ htbls' = finish_pass_gather(enc, scan, htbls)
  /\ enc' = start_pass_huff(scan, FALSE, htbls') /\ phase' = "encode" /\ i' = 0
  /\ UNCHANGED << job, s, data, given, tried, dec, coefs >>

EncodeMcu ==
  /\ phase = "encode" /\ i < MCUs(scan)
  /\ enc' = IF Arithmetic THEN encode_mcu_arith(enc, scan, McuOf(job.blocks, i + 1))
            ELSE encode_mcu_with_restart(enc, scan, McuOf(job.blocks, i + 1))
  /\ i' = i + 1
  /\ UNCHANGED << job, s, phase, htbls, data, given, tried, dec, coefs >>

FinishEncode ==
  /\ phase = "encode" /\ i = MCUs(scan)
  /\ data' = (IF Arithmetic THEN finish_pass_arith(enc) ELSE finish_pass_huff(enc, scan).out) \o EOI
  /\ dec' = IF Arithmetic THEN start_pass_arith_decoder(scan)
            ELSE start_pass_huff_decoder(scan, htbls, job.sizes)
  /\ phase' = "decode" /\ i' = 0 /\ given' = 0 /\ tried' = -1
  /\ UNCHANGED << job, s, enc, htbls, coefs >>

\* More of the scan arrives.
Supply ==
  /\ phase = "decode" /\ given < Len(data)
  /\ given' = IF Arithmetic THEN Len(data) ELSE given + 1
  /\ UNCHANGED << job, s, phase, i, enc, htbls, data, tried, dec, coefs >>

\* The decoder tries the next MCU with the data there is, again when more came.
CanDecode ==
  phase = "decode" /\ i < MCUs(scan) /\ tried # given /\ (Arithmetic => given = Len(data))
DecodeMcu ==
  /\ CanDecode
  /\ \E src \in {SubSeq(data, 1, given)}, mcu \in {McuOf(coefs, i + 1)} :
       \E r \in {IF Arithmetic THEN decode_mcu_arith(src, dec, scan, mcu)
                 ELSE decode_mcu_with_restart(src, dec, scan, mcu)} :
         /\ dec' = r.d /\ coefs' = Stored(coefs, i + 1, r.mcu)
         /\ IF r.ok THEN i' = i + 1 /\ tried' = -1 ELSE i' = i /\ tried' = given
  /\ UNCHANGED << job, s, phase, enc, htbls, data, given >>

FinishScan ==
  /\ phase = "decode" /\ i = MCUs(scan)
  /\ i' = 0
  /\ IF s = Len(job.scans) THEN phase' = "done" /\ UNCHANGED << s, enc >>
     ELSE /\ s' = s + 1 /\ phase' = FirstPhase(ScanOf(s + 1))
          /\ enc' = StartedEncoder(ScanOf(s + 1), Gathers(ScanOf(s + 1)), htbls)
  /\ UNCHANGED << job, htbls, data, given, tried, dec, coefs >>

Next ==
  \/ GenOptimalTable
  \/ GatherMcu \/ FinishGather \/ EncodeMcu \/ FinishEncode
  \/ Supply \/ DecodeMcu \/ FinishScan

(* The coders are called until the image is done, the source goes on *)
(* delivering.  The second line is WF_vars(DecodeMcu): an attempt changes i or *)
(* tried, so it can be made when CanDecode holds; the third is weak fairness *)
(* of the writer, which can always take its next step. *)
Fairness ==
  /\ WF_vars(Supply) /\ WF_vars(FinishScan)
  /\ []<>~CanDecode \/ []<><<DecodeMcu>>_vars
  /\ []<>(phase \in {"decode", "done"})
     \/ []<><<GenOptimalTable \/ GatherMcu \/ FinishGather \/ EncodeMcu \/ FinishEncode>>_vars
Spec == Init /\ [][Next]_vars /\ Fairness

----------------------------------------------------------------------------
\* Coefficient k of block b of component c as scans 1..n sent it.
Sent(n, c, b, k) ==
  LET v == job.blocks[c][b][k]
      by == {m \in 1..n : c \in {job.scans[m].comps[x] : x \in DOMAIN job.scans[m].comps}
                          /\ k \in job.scans[m].Ss..job.scans[m].Se}
      Al == job.scans[Max(by)].Al
  IN IF by = {} THEN 0
     ELSE (IF k = 0 THEN IRIGHT_SHIFT(v, Al) ELSE MagnitudeShift(v, Al)) * 2 ^ Al

\* A scaled sequential image needs the low frequencies only.
Needed(c, k) ==
  LET n == CHOOSE n \in 1..8 : n * n - 1 = job.lim
      at == CHOOSE p \in (0..(n - 1)) \X (0..(n - 1)) : jpeg_natural_order(n)[p] = k
      comp == job.sizes[c]
  IN job.prog \/ Arithmetic
     \/ /\ comp.component_needed /\ at[1] < comp.DCT_v_scaled_size /\ at[2] < comp.DCT_h_scaled_size

\* What the decoder has of the MCUs it is not working on is what was sent for
\* them: as much precision as the scans up to this one carry, whatever the
\* suspensions, restarts and runs over several blocks (jchuff.c, jdhuff.c,
\* jcarith.c, jdarith.c).
CoefficientsSurvive ==
  job.coder # "table" =>
    \A c \in DOMAIN coefs : \A b \in DOMAIN coefs[c] :
      LET in   == {m \in 1..MCUs(scan) : \E x \in DOMAIN Members(scan, m) : Members(scan, m)[x] = << c, b >>}
          over == phase = "done" \/ (phase = "decode" /\ \A m \in in : m <= i)
          open == phase = "decode" /\ (i + 1) \in in
          n    == IF over THEN s ELSE s - 1
      IN open \/ \A k \in 0..job.lim :
           \/ coefs[c][b][k] = Sent(n, c, b, k)
           \/ coefs[c][b][k] = 0 /\ ~Needed(c, k)

\* A table made for some counts gives every counted symbol a code of at most 16
\* bits and none of all ones; no code of at most four bits a symbol costs less,
\* and the decoder reads every code back, by look-ahead or bit by bit (jchuff.c
\* jpeg_gen_optimal_table, jdhuff.c jpeg_make_d_derived_tbl).
CodesOptimal ==
  job.coder = "table" /\ phase = "done" =>
    LET c == jpeg_make_c_derived_tbl(job.htbl)
        d == jpeg_make_d_derived_tbl(job.htbl)
    IN /\ TableAccepted(job.htbl) /\ Kraft(AllLengths(job.htbl)) <= 2 ^ 16
       /\ Cardinality(DOMAIN job.freq) <= 3 => CheapestCode(job.freq, job.htbl, 4)
       /\ \A x \in DOMAIN job.freq : job.freq[x] > 0 =>
            LET h  == jpeg_huff_decode(d, c[x] \o << 0, 1 >>, 1)
                up == LookUp(d, c[x] \o << 0, 1, 1, 0, 1, 0, 0, 1 >>)
            IN /\ h.sym = x /\ h.n = Len(c[x])
               /\ Len(c[x]) <= HUFF_LOOKAHEAD => \E e \in up : up = {e} /\ d.huffval[e[3]] = x /\ e[1] = Len(c[x])

\* A scan whose bytes keep coming is decoded to its end, and the image after
\* all its scans: no restart marker and no end of data is waited for in vain
\* (jdhuff.c jpeg_fill_bit_buffer, process_restart).
ScanCompletes == <>(phase = "done")
=============================================================================
