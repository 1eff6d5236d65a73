----------------------------- MODULE HuffTables -----------------------------
(* Huffman tables of the C library: building an optimal table from symbol *)
(* counts (jchuff.c), and deriving from the table in a DHT marker the form *)
(* the encoder (jchuff.c) and the decoder (jdhuff.c) work with.  A table is *)
(* [bits |-> number of codes of each length 1..16, huffval |-> the symbols *)
(* in order of increasing code length].  A bit string is a sequence of 0/1. *)
EXTENDS Integers, Sequences, FiniteSets, FiniteSetsExt, SequencesExt

MAX_CLEN == 32          \* longest code before the lengths are limited
HUFF_LOOKAHEAD == 8     \* bits the decoder looks up in one step
Pseudo == 256           \* symbol that reserves the code of all ones

\* Body of v.  Unlike a LET, whose definition TLC's coverage unfolds wherever it
\* is used, this keeps long chains of reads as small as they are written.
With(v, Body(_)) == Body(v)

\* The low n bits of v, most significant first; v may be negative.
BitsOf(v, n) == [i \in 1..n |-> (v \div 2 ^ (n - i)) % 2]

\* The number a bit string spells.
NumberOf(bits) == FoldLeft(LAMBDA n, b : 2 * n + b, 0, bits)

\* Number of bits needed for the magnitude of v.
nbits(v) == LET a == IF v < 0 THEN -v ELSE v
            IN CHOOSE n \in 0..16 : a < 2 ^ n /\ (n = 0 \/ a >= 2 ^ (n - 1))

----------------------------------------------------------------------------
(* jpeg_gen_optimal_table *)

\* Of two trees the one counted less, a tie going to the larger index.
Rarest(trees) ==
  CHOOSE t \in trees : \A u \in trees : t.freq < u.freq \/ (t.freq = u.freq /\ t.c >= u.c)

\* Merging the two rarest trees until one is left; every merge makes the codes
\* of the symbols it joins one bit longer.
RECURSIVE Merged(_, _)
Merged(trees, codesize) ==
  IF Cardinality(trees) = 1 THEN codesize
  ELSE LET t1 == Rarest(trees)
           t2 == Rarest(trees \ {t1})
           t  == [c |-> t1.c, freq |-> t1.freq + t2.freq, syms |-> t1.syms \cup t2.syms]
       IN Merged((trees \ {t1, t2}) \cup {t},
                 [s \in DOMAIN codesize |-> IF s \in t.syms THEN codesize[s] + 1 ELSE codesize[s]])

\* Shortening codes longer than 16 bits: two of length i become one of length
\* i-1, and a shorter code makes room for the other.
RECURSIVE Limited(_, _)
Limited(bits, i) ==
  IF i = 16 THEN bits
  ELSE IF bits[i] = 0 THEN Limited(bits, i - 1)
  ELSE LET j == Max({l \in 1..(i - 2) : bits[l] # 0})
       IN Limited([l \in DOMAIN bits |->
                     bits[l] + (IF l = i THEN -2 ELSE 0) + (IF l = i - 1 THEN 1 ELSE 0)
                             + (IF l = j + 1 THEN 2 ELSE 0) + (IF l = j THEN -1 ELSE 0)], i)

\* A plausible slip: the code of all ones is not taken out.
LengthsKept(bits) == [l \in 1..16 |-> bits[l]]

\* The counts of each length without the reserved code, which is a longest one.
Lengths(bits) ==
  LET longest == Max({l \in 1..16 : bits[l] # 0})
  IN [l \in 1..16 |-> bits[l] - (IF l = longest THEN 1 ELSE 0)]

\* Symbols by falling count, a tie going to the smaller symbol.
RECURSIVE Ranked(_, _)
Ranked(freq, syms) ==
  IF syms = {} THEN << >>
  ELSE LET s == CHOOSE s \in syms : \A t \in syms : freq[s] > freq[t] \/ (freq[s] = freq[t] /\ s <= t)
       IN << s >> \o Ranked(freq, syms \ {s})
ByCount(freq) == Ranked(freq, {s \in DOMAIN freq : freq[s] > 0})

\* Some symbol is counted: every scan emits one from each of its tables.
jpeg_gen_optimal_table(freq) ==
  LET used     == {s \in DOMAIN freq : freq[s] > 0} \cup {Pseudo}
      count(s) == IF s = Pseudo THEN 1 ELSE freq[s]
      codesize == Merged({[c |-> s, freq |-> count(s), syms |-> {s}] : s \in used},
                         [s \in used |-> 0])
      bits     == [l \in 1..MAX_CLEN |-> Cardinality({s \in used : codesize[s] = l})]
  IN [bits |-> Lengths(Limited(bits, MAX_CLEN)), huffval |-> ByCount(freq)]

----------------------------------------------------------------------------
(* Derived tables *)

\* Code length of every position of huffval.
RECURSIVE SizesFrom(_, _)
SizesFrom(bits, l) ==
  IF l > 16 THEN << >> ELSE [i \in 1..bits[l] |-> l] \o SizesFrom(bits, l + 1)
huffsize(htbl) == SizesFrom(htbl.bits, 1)

\* The canonical codes: counting up, doubled when the length grows.
RECURSIVE CodesFrom(_, _, _)
CodesFrom(sizes, p, code) ==
  IF p > Len(sizes) THEN << >>
  ELSE << code >> \o
       (IF p = Len(sizes) THEN << >>
        ELSE CodesFrom(sizes, p + 1, (code + 1) * 2 ^ (sizes[p + 1] - sizes[p])))
huffcode(htbl) == CodesFrom(huffsize(htbl), 1, 0)

\* The codes of every length fit with the code of all ones to spare.
TableAccepted(htbl) ==
  LET sizes == huffsize(htbl)
      codes == huffcode(htbl)
  IN /\ Len(sizes) <= 256
     /\ \A p \in DOMAIN sizes : codes[p] + 1 < 2 ^ sizes[p] \/ (p < Len(sizes) /\ sizes[p + 1] = sizes[p])
     /\ \A p, q \in DOMAIN sizes : htbl.huffval[p] = htbl.huffval[q] => p = q

\* The encoder's form: the code of each symbol, as bits.
jpeg_make_c_derived_tbl(htbl) ==
  LET sizes == huffsize(htbl)
      codes == huffcode(htbl)
      at(s) == CHOOSE p \in DOMAIN sizes : htbl.huffval[p] = s
  IN [s \in {htbl.huffval[p] : p \in DOMAIN sizes} |-> BitsOf(codes[at(s)], sizes[at(s)])]

\* The decoder's form: the largest code of each length, with the distance from
\* a code to its position in huffval; and the look-ahead table, which tells for
\* the codes of at most HUFF_LOOKAHEAD bits how many bits they take.
jpeg_make_d_derived_tbl(htbl) ==
  LET sizes == huffsize(htbl)
      codes == huffcode(htbl)
      Of(l) == {p \in DOMAIN sizes : sizes[p] = l}
  IN [huffval   |-> htbl.huffval,
      maxcode   |-> [l \in 1..17 |-> IF l = 17 THEN 1048575
                                     ELSE IF Of(l) = {} THEN -1 ELSE codes[Max(Of(l))]],
      valoffset |-> [l \in 1..16 |-> IF Of(l) = {} THEN 0 ELSE Min(Of(l)) - codes[Min(Of(l))]],
      look      |-> {<< sizes[p], codes[p], p >> : p \in {q \in DOMAIN sizes : sizes[q] <= HUFF_LOOKAHEAD}}]

\* Looking up the next HUFF_LOOKAHEAD bits: {} for a longer code.
LookUp(tbl, bits) == {e \in tbl.look : NumberOf(SubSeq(bits, 1, e[1])) = e[2]}

\* Decoding bit by bit from length l on: [ok, sym, n] with the number n of bits
\* taken, ok FALSE when the bits run out.  No code is longer than 16 bits: a
\* longer one is damage and counts as symbol 0.
RECURSIVE jpeg_huff_decode(_, _, _)
jpeg_huff_decode(tbl, bits, l) ==
  IF l > Len(bits) THEN [ok |-> FALSE, sym |-> 0, n |-> 0]
  ELSE LET code == NumberOf(SubSeq(bits, 1, l))
       IN IF code > tbl.maxcode[l] THEN jpeg_huff_decode(tbl, bits, l + 1)
          ELSE [ok |-> TRUE, n |-> l,
                sym |-> IF l > 16 THEN 0 ELSE tbl.huffval[code + tbl.valoffset[l]]]

----------------------------------------------------------------------------
(* What a table should be *)

\* The code lengths of a table with the reserved code added again.
AllLengths(htbl) ==
  LET sizes == huffsize(htbl)
  IN Append(sizes, IF sizes = << >> THEN 1 ELSE sizes[Len(sizes)])

\* Twice 2^15 times the Kraft sum of code lengths up to 16.
Kraft(lengths) == FoldLeft(LAMBDA n, l : n + 2 ^ (16 - l), 0, lengths)

\* Bits a message with these counts takes, the reserved code used once.
Cost(freq, lengths) ==
  LET order == ByCount(freq)
  IN FoldLeft(LAMBDA n, i : n + lengths[i] * (IF i > Len(order) THEN 1 ELSE freq[order[i]]),
              0, [i \in 1..Len(lengths) |-> i])

\* No code of at most n bits a symbol is cheaper.
CheapestCode(freq, htbl, n) ==
  LET k == Len(htbl.huffval)
  IN \A lengths \in [1..(k + 1) -> 1..n] :
        Kraft(lengths) <= 2 ^ 16 => Cost(freq, AllLengths(htbl)) <= Cost(freq, lengths)
=============================================================================
