----------------------------- MODULE RestartSync -----------------------------
(***************************************************************************)
(* Huffman decoding of a sequential scan: the bit reader (fillBitBuffer,   *)
(* HuffDecodeFast, huffDecode), the MCU loop that commits its state only   *)
(* when an MCU is complete (DecodeMCUSequential), and the restart markers  *)
(* (processRestartMarker, consumeRestartMarker).                           *)
(*                                                                         *)
(* A bit of the scan is <<m, k, i>>: bit i of the k-th read of MCU m.  Its *)
(* value is left out: to decode is to find the bits of the MCU in their    *)
(* order.  Reads alternate between a Huffman code and the extra bits of    *)
(* its symbol.  A byte is a sequence of ByteBits bits, and 0xFF 0x00 is    *)
(* one byte.  Nothing is known of what wrong bits decode to.               *)
(***************************************************************************)
EXTENDS Integers, Sequences, FiniteSets, FiniteSetsExt

CONSTANTS
  Scans,       (* [code, interval, data, damaged, lost, start, offset]: the    *)
               (* reads of each MCU (their lengths), the restart interval or   *)
               (* 0, the bytes and markers of the scan, the intervals whose    *)
               (* bytes were changed, and those whose marker in front was      *)
               (* lost; where in data each interval starts, and the bits of    *)
               (* the interval in front of each read of an MCU                 *)
  ByteBits, BufBits,      (* 8 and BitBufSize                                  *)
  HuffLookahead,
  GarbageReads, GarbageBits  (* bounds of the reads of wrong bits in an MCU    *)

Marker == <<>>            \* an RSTn marker; the code never looks at n
Zero == <<0, 0, 0>>       \* a bit of no MCU: padding
Wrong == 0                \* no MCU: what wrong bits decode to
Reset == 0                \* DC predictions after a restart
Spoilt == -1              \* DC predictions after wrong bits

MinGet == BufBits - ByteBits + 1    \* minGetBits: what fillBitBuffer fills up to

IntervalIn(s, m) == IF s.interval = 0 THEN 1 ELSE (m - 1) \div s.interval + 1
FirstIn(s, m) == IF s.interval = 0 THEN m = 1 ELSE (m - 1) % s.interval = 0
SoundIn(s, i) == i \notin s.damaged /\ \A j \in 1..i : j \notin s.lost

BitIn(s) == ((DOMAIN s.code) \X Nat \X Nat) \cup {Zero}
ByteIn(s) == {b \in Seq(BitIn(s)) : Len(b) = ByteBits} \cup {Marker}

TypedScan(s) ==
  /\ s.interval \in Nat /\ s.start \in Seq(Nat)
  /\ s.code \in Seq(Seq(Nat)) /\ s.offset \in Seq(Seq(Nat)) /\ s.data \in Seq(ByteIn(s))
  /\ Len(s.offset) = Len(s.code)
  /\ s.code # <<>> => Len(s.start) = IntervalIn(s, Len(s.code))

(* A code has bits, and no read asks for more than a fill brings: it is a   *)
(* Huffman code of 16 bits or the extra bits of a symbol, 15 at most.       *)
ReadsFit(s) ==
  \A m \in DOMAIN s.code :
    /\ s.code[m] # <<>>
    /\ \A k \in DOMAIN s.code[m] :
         s.code[m][k] <= MinGet /\ (k % 2 = 1 => s.code[m][k] > 0)

(* A sound interval stands behind its marker, and those before it behind    *)
(* theirs, whatever their bytes are.                                        *)
LaidOut(s) ==
  /\ s.start # <<>> => s.start[1] = 1
  /\ \A i \in DOMAIN s.start : SoundIn(s, i) => \A j \in 2..i :
       /\ s.start[j - 1] < s.start[j] /\ s.start[j] - 1 \in DOMAIN s.data
       /\ s.data[s.start[j] - 1] = Marker
       /\ \A p \in s.start[j - 1]..s.start[j] - 2 : s.data[p] # Marker

Offsets(s) ==
  \A m \in DOMAIN s.code :
    /\ Len(s.offset[m]) = Len(s.code[m]) + 1
    /\ s.offset[m][1] = IF FirstIn(s, m) THEN 0
                        ELSE s.offset[m - 1][Len(s.code[m - 1]) + 1]
    /\ \A k \in DOMAIN s.code[m] :
         s.offset[m][k + 1] = s.offset[m][k] + s.code[m][k]

(* The bytes of a sound interval hold the bits of its MCUs.                 *)
Encoded(s) ==
  \A m \in DOMAIN s.code : SoundIn(s, IntervalIn(s, m)) =>
    \A k \in DOMAIN s.code[m] : \A b \in 1..s.code[m][k] :
      LET first == s.start[IntervalIn(s, m)]
          bit   == s.offset[m][k] + b - 1
          byte  == first + bit \div ByteBits
      IN  /\ byte \in DOMAIN s.data
          /\ \A p \in first..byte : s.data[p] # Marker
          /\ s.data[byte][(bit % ByteBits) + 1] = <<m, k, b>>

(* Damage moves no byte past a marker: the bits of an MCU stand behind as   *)
(* many markers as there are intervals in front of its own, or fewer if     *)
(* some were lost.                                                          *)
MarkersBefore(s, p) == Cardinality({q \in 1..p - 1 : s.data[q] = Marker})

Confined(s) ==
  /\ s.interval = 0 => s.lost = {}
  /\ \A p \in DOMAIN s.data : s.data[p] # Marker =>
       \A b \in 1..ByteBits : s.data[p][b] # Zero =>
         LET before == IntervalIn(s, s.data[p][b][1]) - 1
         IN  MarkersBefore(s, p) <= before /\ (s.lost = {} => MarkersBefore(s, p) = before)

ASSUME RestartAssumption ==
  /\ {ByteBits, BufBits, HuffLookahead, GarbageReads, GarbageBits} \subseteq Nat \ {0}
  /\ ByteBits <= BufBits
  /\ \A s \in Scans :
       /\ TypedScan(s) /\ ReadsFit(s) /\ LaidOut(s) /\ Offsets(s) /\ Encoded(s)
       /\ Confined(s)

VARIABLES
  scan,
  reader,    \* workState and unreadMarker: [buf, data, unread]
  perm,      \* permState: the bits left over by the last complete MCU
  pred,      \* savedState: the MCU whose DC values it holds
  toGo,      \* restartsToGo
  busy,      \* within DecodeMCUSequential
  seen,      \* the MCU whose bits are being read, or Wrong
  reads,     \* reads done in this MCU
  got        \* for each MCU of the image, the MCU it was decoded to

vars == <<scan, reader, perm, pred, toGo, busy, seen, reads, got>>

-----------------------------------------------------------------------------
(* fillBitBuffer.                                                           *)

MarkerAt(data) == Min({i \in DOMAIN data : data[i] = Marker} \cup {Len(data) + 1})

Wanted(buf) == Max({0, (MinGet - Len(buf) + ByteBits - 1) \div ByteBits})

\* Mutant: bytes are taken past the marker that stopped the reader.
TakenPastMarker(r) == Min({Wanted(r.buf), MarkerAt(r.data) - 1})

Taken(r) == IF r.unread THEN 0 ELSE Min({Wanted(r.buf), MarkerAt(r.data) - 1})

Zeros(n) == [i \in 1..n |-> Zero]

(* The bits of the first n bytes.                                           *)
BitsOf(data, n) ==
  [i \in 1..n * ByteBits |-> data[(i - 1) \div ByteBits + 1][((i - 1) % ByteBits) + 1]]

(* At a marker the buffer is filled up with zeros; at the end of the data   *)
(* it keeps what it has, and only an empty one is an error.                 *)
Fill(r, n) ==
  LET k      == Taken(r)
      loaded == r.buf \o BitsOf(r.data, k)
      short  == Wanted(loaded) > 0 /\ ~r.unread
      hit    == short /\ k < Len(r.data)
      unread == r.unread \/ hit
  IN  [buf |-> IF unread /\ n > Len(loaded) THEN loaded \o Zeros(MinGet - Len(loaded))
               ELSE loaded,
       data |-> SubSeq(r.data, IF hit THEN k + 2 ELSE k + 1, Len(r.data)),
       unread |-> unread,
       ok |-> ~(short /\ ~hit /\ loaded = <<>>)]

Kept(r) == [buf |-> r.buf, data |-> r.data, unread |-> r.unread, ok |-> TRUE]
FillIf(short, r, n) == IF short THEN Fill(r, n) ELSE Kept(r)

(* HuffDecodeFast and huffDecode: a code looks ahead first.  A longer one   *)
(* is then taken bit by bit, so that the end of the data is an error; but   *)
(* its first HuffLookahead + 1 bits are asked for at once.                  *)
LoadCode(r, n) ==
  LET ahead == FillIf(Len(r.buf) < HuffLookahead, r, 0)
      more  == FillIf(Len(ahead.buf) < n, ahead, n)
  IN  IF ~ahead.ok THEN ahead
      ELSE [more EXCEPT !.ok = Len(more.buf) >= n \/ Len(ahead.buf) = HuffLookahead]

Load(r, n, isCode) == IF isCode THEN LoadCode(r, n) ELSE FillIf(Len(r.buf) < n, r, n)

(* The reader without the first n bits.  At the end of the data there may   *)
(* be fewer: bitsLeft is then negative, which no later fill tells from 0.   *)
Skip(r, n) ==
  [buf |-> SubSeq(r.buf, n + 1, Len(r.buf)), data |-> r.data, unread |-> r.unread]

AtRest(r) == Skip(r, 0)

-----------------------------------------------------------------------------
Init ==
  /\ scan \in Scans
  /\ reader = [buf |-> <<>>, data |-> scan.data, unread |-> FALSE]
  /\ perm = <<>> /\ pred = Reset
  /\ toGo = scan.interval
  /\ busy = FALSE /\ seen = Wrong /\ reads = 0 /\ got = <<>>

(* The MCU whose code starts at the next bit.                               *)
Upcoming(r) ==
  LET buf == LoadCode(r, 1).buf
  IN  IF buf # <<>> /\ buf[1][2] = 1 /\ buf[1][3] = 1 THEN buf[1][1] ELSE Wrong

\* Mutant: the data before the marker is not skipped.
AfterMarkerUnread(r) == r.data

(* consumeRestartMarker: the marker the reader has met, or the next one.    *)
AfterMarker(r) ==
  IF r.unread THEN r.data ELSE SubSeq(r.data, MarkerAt(r.data) + 1, Len(r.data))

\* Mutant: the DC predictions of the last interval are kept.
PredAtRestartKept == pred

PredAtRestart == Reset

(* The head of the MCU loop in decodeIMCURow, with processRestartMarker.    *)
Restarting == scan.interval # 0 /\ toGo = 0

Begin(r) ==
  /\ reader' = r
  /\ seen' = Upcoming(r)
  /\ busy' = TRUE /\ reads' = 0
  /\ UNCHANGED <<scan, got>>

StartMCU ==
  /\ ~busy /\ Len(got) < Len(scan.code)
  /\ ~Restarting
  /\ toGo' = IF scan.interval = 0 THEN toGo ELSE toGo - 1
  /\ Begin([reader EXCEPT !.buf = perm])
  /\ UNCHANGED <<perm, pred>>

RestartAndStartMCU ==
  /\ ~busy /\ Len(got) < Len(scan.code)
  /\ Restarting
  /\ perm' = <<>> /\ pred' = PredAtRestart
  /\ toGo' = scan.interval - 1
  /\ Begin([buf |-> <<>>, data |-> AfterMarker(reader), unread |-> FALSE])

IsFirst(m) == FirstIn(scan, m)

(* The MCU is complete: permState and savedState take over.                 *)
Commit(r) ==
  LET right == seen # Wrong /\ pred = (IF IsFirst(seen) THEN Reset ELSE seen - 1)
  IN  /\ perm' = r.buf
      /\ pred' = IF right THEN seen ELSE Spoilt
      /\ got' = Append(got, IF right THEN seen ELSE Wrong)
      /\ busy' = FALSE

(* The MCU is given up: what was read of it is lost, its bytes too.         *)
GiveUp ==
  /\ got' = Append(got, Wrong)
  /\ busy' = FALSE
  /\ UNCHANGED <<perm, pred>>

Lengths == scan.code[seen]
IsCode(k) == k % 2 = 1
Has(r, n) ==
  /\ n <= Len(r.buf)
  /\ \A i \in 1..n : r.buf[i] = <<seen, reads + 1, i>>

ReadRight ==
  /\ busy /\ seen # Wrong
  /\ LET n == Lengths[reads + 1]
         r == Load(reader, n, IsCode(reads + 1))
     IN  /\ r.ok /\ Has(r, n)
         /\ reader' = Skip(r, n)
         /\ reads' = reads + 1
         /\ IF reads + 1 = Len(Lengths) THEN Commit(reader')
            ELSE UNCHANGED <<perm, pred, got, busy>>
  /\ UNCHANGED <<scan, toGo, seen>>

(* Other bits than those of the MCU follow.                                 *)
Stray ==
  /\ busy /\ seen # Wrong
  /\ LET n == Lengths[reads + 1]
         r == Load(reader, n, IsCode(reads + 1))
     IN  r.ok /\ ~Has(r, n)
  /\ seen' = Wrong /\ reads' = 0
  /\ UNCHANGED <<scan, reader, perm, pred, toGo, busy, got>>

(* The data ends: ErrSuspension.                                            *)
ReadShort ==
  /\ busy /\ seen # Wrong
  /\ LET r == Load(reader, Lengths[reads + 1], IsCode(reads + 1))
     IN  ~r.ok /\ reader' = AtRest(r)
  /\ GiveUp
  /\ UNCHANGED <<scan, toGo, seen, reads>>

(* Wrong bits: a code or extra bits of any length, after which the MCU goes *)
(* on, is complete, or is given up for a code that does not exist.          *)
ReadWrong(n, isCode) ==
  /\ busy /\ seen = Wrong
  /\ LET r == Load(reader, n, isCode)
     IN  /\ reader' = IF r.ok THEN Skip(r, n) ELSE AtRest(r)
         /\ \/ /\ r.ok /\ reads < GarbageReads
               /\ reads' = reads + 1
               /\ UNCHANGED <<perm, pred, got, busy>>
            \/ /\ r.ok
               /\ Commit(reader')
               /\ UNCHANGED reads
            \/ /\ isCode \/ ~r.ok
               /\ GiveUp
               /\ UNCHANGED reads
  /\ UNCHANGED <<scan, toGo, seen>>

Next ==
  \/ StartMCU \/ RestartAndStartMCU
  \/ ReadRight \/ Stray \/ ReadShort
  \/ \E n \in 1..GarbageBits, isCode \in BOOLEAN : ReadWrong(n, isCode)

Spec == Init /\ [][Next]_vars

-----------------------------------------------------------------------------
Interval(m) == IntervalIn(scan, m)
Sound(i) == SoundIn(scan, i)

(* Damage does not spread: whatever was changed in other intervals, an MCU  *)
(* of an interval whose bytes are whole and whose markers in front are all  *)
(* there is decoded from its own bits, with the right DC predictions.  In   *)
(* an undamaged scan that is every MCU.                                     *)
DamageContained ==
  \A m \in DOMAIN got : Sound(Interval(m)) => got[m] = m

(* The place of an MCU in its interval.                                     *)
Slot(m) == IF scan.interval = 0 THEN m ELSE ((m - 1) % scan.interval) + 1

(* Whatever the damage, an MCU shows up in its own interval, or in an       *)
(* earlier one if a marker in between was lost; never before its place      *)
(* there, never twice, and only behind those that come before it.  It may   *)
(* show up late: an MCU that fails returns the bits that were in the buffer *)
(* when it began, but not the bytes loaded since.                           *)
Placed ==
  \A m \in DOMAIN got : got[m] # Wrong =>
    /\ IF scan.lost = {} THEN Interval(got[m]) = Interval(m)
       ELSE Interval(got[m]) >= Interval(m)
    /\ Slot(got[m]) <= Slot(m)
    /\ \A k \in 1..m - 1 :
         got[k] # Wrong /\ Interval(k) = Interval(m) => got[k] < got[m]
=============================================================================
