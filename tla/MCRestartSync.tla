--------------------------- MODULE MCRestartSync ---------------------------
(* TLC instance of RestartSync: five MCUs, bytes of two bits and a buffer   *)
(* of eight.  The scan is encoded, then damaged: a byte is dropped, one or  *)
(* two are repeated, a marker is dropped, or the scan is cut short.         *)
EXTENDS RestartSync, SequencesExt

Codes == {<< <<1, 2>>, <<3, 0, 1>>, <<2, 1, 2, 3, 1>>, <<1, 0>>, <<2>> >>,
          << <<4, 4, 1>>, <<1, 7>>, <<5, 1>>, <<1, 2, 1>>, <<1>> >>}

ReadsBits(code, m, n) ==
  FlattenSeq([k \in 1..n |-> [i \in 1..code[m][k] |-> <<m, k, i>>]])
MCUBits(code, m) == ReadsBits(code, m, Len(code[m]))

IntervalBits(code, first, last) ==
  FlattenSeq([m \in 1..last - first + 1 |-> MCUBits(code, first + m - 1)])

(* Bits in bytes, the last one padded.                                      *)
Bytes(bits) ==
  [b \in 1..(Len(bits) + ByteBits - 1) \div ByteBits |->
    [i \in 1..ByteBits |->
      LET at == (b - 1) * ByteBits + i IN IF at <= Len(bits) THEN bits[at] ELSE Zero]]

Intervals(code, interval) ==
  IF interval = 0 THEN 1 ELSE (Len(code) + interval - 1) \div interval

IntervalBytes(code, interval, j) ==
  IF interval = 0 THEN Bytes(IntervalBits(code, 1, Len(code)))
  ELSE Bytes(IntervalBits(code, (j - 1) * interval + 1, Min({j * interval, Len(code)})))

Parts(code, interval) ==
  [j \in 1..Intervals(code, interval) |-> IntervalBytes(code, interval, j)]

(* The parts of a scan one after the other, with markers but for those lost.*)
Joined(parts, lost) ==
  FlattenSeq([j \in DOMAIN parts |->
    IF j = 1 \/ j \in lost THEN parts[j] ELSE <<Marker>> \o parts[j]])

(* Where the parts begin: each has those before it in front, and markers.   *)
Starts(code, interval, parts, lost) ==
  [j \in 1..Intervals(code, interval) |->
    LET before == SubSeq(parts, 1, Min({j - 1, Len(parts)}))
    IN  Len(Joined(before, lost)) + IF j = 1 \/ j \in lost THEN 1 ELSE 2]

(* The bits of the interval in front of each read of MCU m, and behind it.  *)
OffsetsOf(code, interval, m) ==
  LET first == IF interval = 0 THEN 1 ELSE m - ((m - 1) % interval)
  IN  [k \in 1..Len(code[m]) + 1 |->
        Len(IntervalBits(code, first, m - 1) \o ReadsBits(code, m, k - 1))]

Scan(code, interval, parts, damaged, lost) ==
  [code |-> code, interval |-> interval, data |-> Joined(parts, lost),
   damaged |-> damaged, lost |-> lost,
   start |-> Starts(code, interval, parts, lost),
   offset |-> [m \in DOMAIN code |-> OffsetsOf(code, interval, m)]]

Replaced(parts, j, part) == [parts EXCEPT ![j] = part]

Variants(part) ==
  {RemoveAt(part, i) : i \in DOMAIN part}
  \cup {InsertAt(part, i, part[i]) : i \in DOMAIN part}
  \cup {SubSeq(part, 1, i) \o SubSeq(part, i - 1, Len(part)) : i \in 2..Len(part)}
  \cup {SubSeq(part, 1, i) : i \in 0..Len(part) - 1}

Intact(code, interval) == Scan(code, interval, Parts(code, interval), {}, {})

Damaged(code, interval) ==
  UNION {{Scan(code, interval, Replaced(Parts(code, interval), j, part), {j}, {}) :
            part \in Variants(Parts(code, interval)[j])} :
         j \in 1..Intervals(code, interval)}

Unmarked(code, interval) ==
  {Scan(code, interval, Parts(code, interval), {}, {j}) :
     j \in 2..Intervals(code, interval)}

Cut(code, interval) ==
  {Scan(code, interval, SubSeq(Parts(code, interval), 1, j),
        j + 1..Intervals(code, interval), {}) :
     j \in 1..Intervals(code, interval) - 1}

MCScans ==
  UNION {{Intact(c, i)} \cup Damaged(c, i) \cup Unmarked(c, i) \cup Cut(c, i) :
           c \in Codes, i \in 0..3}
=============================================================================
