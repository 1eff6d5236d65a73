------------------------------- MODULE GifLzw -------------------------------
(***************************************************************************)
(* The LZW compressor of the GIF writer (compressInit, compressByte,       *)
(* writeUncompressedByte, clearBlock, output, compressTerm) against a GIF  *)
(* decoder.  A decoder learns neither the width of a code nor the entries  *)
(* of the string table from the file: both sides must change them in step. *)
(*                                                                         *)
(* A code is a number with the width it was written with.  Packing the     *)
(* codes into bytes and the bytes into packets is left out.                *)
(***************************************************************************)
EXTENDS Integers, Sequences, FiniteSets, FiniteSetsExt, SequencesExt

CONSTANTS
  Images,        (* the images, each the sequence of its pixels               *)
  InitCodeSize,  (* initCodeSize                                              *)
  MaxBits,       (* maxLZWBits                                                *)
  HashSize, HashShift   (* hashSize; maxLZWBits - 8                           *)

ClearCode == 2 ^ InitCodeSize
EofCode == ClearCode + 1
TableSize == 2 ^ MaxBits                                \* lzwTableSize

ASSUME LzwAssumption ==
  /\ InitCodeSize \in Nat /\ MaxBits \in Nat /\ InitCodeSize + 1 < MaxBits
  /\ {ClearCode, TableSize, HashSize, 2 ^ (InitCodeSize + 1)} \subseteq Nat
  /\ EofCode < 2 ^ (InitCodeSize + 1) - 1
  /\ 2 ^ (InitCodeSize + 1) <= TableSize
  /\ TableSize - (ClearCode + 2) < HashSize
  /\ 2 ^ HashShift \in Nat /\ ClearCode * 2 ^ HashShift + TableSize <= 2 * HashSize
  /\ \A j, k \in 1..HashSize - 1 : (j * k) % HashSize # 0      \* 5003 is prime
  /\ Images \subseteq Seq(0..ClearCode - 1)

VARIABLES
  image, uncompressed,   \* what is written, and whether by -gif0
  at,                    \* pixels taken
  ended,                 \* compressTerm has run
  nBits, maxcode, freeCode, codeCount,
  waiting,               \* waitingCode, or None as long as firstByte
  table,                 \* hash table: used slot |-> its prefix, suffix, code
  codes,                 \* codes written and not yet read
  \* the decoder
  bits, next,            \* width of the next code, code of the next string
  first,                 \* no code since the clear code
  prev, dict,            \* the last string; code |-> string
  out, done              \* what is decoded; the end code has been read

encoder == <<nBits, maxcode, freeCode, codeCount, waiting, table>>
decoder == <<bits, next, first, prev, dict, out, done>>
vars == <<image, uncompressed, at, ended, encoder, codes, decoder>>

None == -1
InitBits == InitCodeSize + 1

Code(c, width) == [code |-> c, width |-> width]

-----------------------------------------------------------------------------
(* output: the width grows when the free code no longer fits.               *)
MaxCode(n) == IF n = MaxBits THEN TableSize ELSE 2 ^ n - 1

\* Mutant: the code grows one code early.
WidenEarly == freeCode >= maxcode

Widen == freeCode > maxcode

WidthAfter == IF Widen THEN nBits + 1 ELSE nBits

Output(c) ==
  /\ codes' = <<Code(c, nBits)>>
  /\ nBits' = WidthAfter
  /\ maxcode' = IF Widen THEN MaxCode(nBits + 1) ELSE maxcode

Init ==
  /\ image \in Images /\ uncompressed \in BOOLEAN
  /\ at = 0 /\ ended = FALSE
  /\ nBits = InitBits /\ maxcode = 2 ^ InitBits - 1
  /\ freeCode = ClearCode + 2 /\ codeCount = freeCode
  /\ waiting = None /\ table = <<>>
  /\ codes = <<Code(ClearCode, InitBits)>>
  /\ bits = InitBits /\ next = ClearCode + 2 /\ first = TRUE
  /\ prev = <<>> /\ dict = <<>> /\ out = <<>> /\ done = FALSE

(* The slots compressByte probes for the pixel c, in their order.           *)
Hash(c) ==
  LET i == c * 2 ^ HashShift + waiting
  IN  IF i >= HashSize THEN i - HashSize ELSE i

Probe(c, k) ==
  LET disp == IF Hash(c) = 0 THEN 1 ELSE HashSize - Hash(c)
  IN  (Hash(c) - k * disp) % HashSize

Holds(i, c) == table[i].prefix = waiting /\ table[i].suffix = c

\* Mutant: a used slot counts as the one looked for.
SlotUsed(c) == Probe(c, 0)

(* The slot that holds the string, or the first free one.                   *)
Slot(c) ==
  Probe(c, Min({k \in 0..HashSize - 1 :
                  Probe(c, k) \in DOMAIN table => Holds(Probe(c, k), c)}))

Known(c) == Slot(c) \in DOMAIN table

\* Mutant: the strings survive a clear code.
CleanTableKept == table

CleanTable == <<>>

(* The first pixel of an image, or one that lengthens a known string.       *)
Lengthen(c) ==
  /\ waiting = None \/ Known(c)
  /\ waiting' = IF waiting = None THEN c ELSE table[Slot(c)].code
  /\ UNCHANGED <<nBits, maxcode, freeCode, codeCount, table, codes>>

(* The string with c is new: its code is the next free one.                 *)
NewString(c) ==
  /\ waiting # None /\ ~Known(c) /\ freeCode < TableSize
  /\ Output(waiting)
  /\ table' = [i \in DOMAIN table \cup {Slot(c)} |->
                IF i = Slot(c) THEN [prefix |-> waiting, suffix |-> c, code |-> freeCode]
                ELSE table[i]]
  /\ freeCode' = freeCode + 1
  /\ waiting' = c
  /\ UNCHANGED codeCount

(* The table is full: clearBlock.                                           *)
NewBlock(c) ==
  /\ waiting # None /\ ~Known(c) /\ freeCode >= TableSize
  /\ codes' = <<Code(waiting, nBits), Code(ClearCode, WidthAfter)>>
  /\ table' = CleanTable
  /\ freeCode' = ClearCode + 2 /\ codeCount' = freeCode'
  /\ nBits' = InitBits /\ maxcode' = 2 ^ InitBits - 1
  /\ waiting' = c

CompressByte(c) == Lengthen(c) \/ NewString(c) \/ NewBlock(c)

CountsOn == codeCount < maxcode

WriteUncompressedByte(c) ==
  /\ codes' = IF CountsOn THEN <<Code(c, nBits)>>
             ELSE <<Code(c, nBits), Code(ClearCode, nBits)>>
  /\ codeCount' = IF CountsOn THEN codeCount + 1 ELSE ClearCode + 2
  /\ UNCHANGED <<nBits, maxcode, freeCode, waiting, table>>

WritePixel ==
  /\ codes = <<>> /\ at < Len(image)
  /\ at' = at + 1
  /\ IF uncompressed THEN WriteUncompressedByte(image[at + 1])
                     ELSE CompressByte(image[at + 1])
  /\ UNCHANGED <<image, uncompressed, ended, decoder>>

(* compressTerm: the last code may be one at which the width grows; the     *)
(* encoder's state is of no use after it.                                   *)
CompressTerm ==
  /\ codes = <<>> /\ at = Len(image) /\ ~ended
  /\ codes' = IF waiting = None THEN <<Code(EofCode, nBits)>>
              ELSE <<Code(waiting, nBits), Code(EofCode, WidthAfter)>>
  /\ ended' = TRUE
  /\ UNCHANGED <<image, uncompressed, at, encoder, decoder>>

-----------------------------------------------------------------------------
(* A decoder, by the definition of the format: it enters a string for every *)
(* code but the first after a clear code, and widens the codes when the     *)
(* next string has a code that does not fit.                                *)
Understands(c) ==
  c <= EofCode \/ c \in DOMAIN dict \/ (c = next /\ ~first)

StringOf(c) ==
  IF c < ClearCode THEN <<c>>
  ELSE IF c \in DOMAIN dict THEN dict[c] ELSE Append(prev, prev[1])

Enters == ~first /\ next < TableSize
NextCode == IF Enters THEN next + 1 ELSE next
NextWidth == IF bits < MaxBits /\ NextCode > 2 ^ bits - 1 THEN bits + 1 ELSE bits

NextDict(c) ==
  IF Enters
  THEN [i \in DOMAIN dict \cup {next} |->
         IF i = next THEN Append(prev, StringOf(c)[1]) ELSE dict[i]]
  ELSE dict

ReadString(c) ==
  /\ c \notin {ClearCode, EofCode}
  /\ next' = NextCode /\ bits' = NextWidth /\ first' = FALSE
  /\ dict' = NextDict(c)
  /\ prev' = StringOf(c) /\ out' = out \o StringOf(c)
  /\ UNCHANGED done

ReadClear(c) ==
  /\ c = ClearCode
  /\ next' = ClearCode + 2 /\ bits' = InitBits /\ first' = TRUE
  /\ dict' = <<>> /\ prev' = <<>>
  /\ UNCHANGED <<out, done>>

ReadEof(c) ==
  /\ c = EofCode
  /\ done' = TRUE
  /\ UNCHANGED <<bits, next, first, prev, dict, out>>

ReadCode ==
  /\ codes # <<>> /\ Understands(Head(codes).code)
  /\ codes' = Tail(codes)
  /\ LET c == Head(codes).code IN ReadString(c) \/ ReadClear(c) \/ ReadEof(c)
  /\ UNCHANGED <<image, uncompressed, at, ended, encoder>>

Next == WritePixel \/ CompressTerm \/ ReadCode

Spec == Init /\ [][Next]_vars

-----------------------------------------------------------------------------
(* The decoder reads every code with the width it was written with, at the  *)
(* growth of the codes, after a clear code and at the end (output widens by *)
(* the encoder's count, which is one string ahead of the decoder's).        *)
WidthsAgree == codes # <<>> => Head(codes).width = bits

(* What is decoded is the image, pixel by pixel: no collision in the hash   *)
(* table or reuse of a code mixes up two strings, and the decoder has the   *)
(* string of every code, or can make it up from the last one.               *)
DecodedIsImage ==
  /\ codes # <<>> => Understands(Head(codes).code)
  /\ IsPrefix(out, image)
  /\ done => out = image

(* A clear code is written before a string gets a code beyond the table, so *)
(* that the hash table always has a free slot for compressByte to stop at.  *)
TableHasRoom ==
  /\ Cardinality(DOMAIN table) < HashSize
  /\ Cardinality(DOMAIN table) <= freeCode - (ClearCode + 2)
=============================================================================
