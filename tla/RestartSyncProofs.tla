-------------------------- MODULE RestartSyncProofs --------------------------
(***************************************************************************)
(* Proofs about RestartSync: damage stays within its restart interval, for *)
(* every scan, whatever the damage, every width of a byte and of the bit   *)
(* buffer, and every decoding of wrong bits.                               *)
(***************************************************************************)
EXTENDS RestartSync, FiniteSetTheorems, SequenceTheorems, TLAPS

(* The MCUs begun, and the interval of the last of them.                    *)
Begun == Len(got) + (IF busy THEN 1 ELSE 0)
Current == IF Begun = 0 THEN 1 ELSE Interval(Begun)

(* Some sound interval is still to come, or is being read: the markers up   *)
(* to it are in their places.                                               *)
Reached(i) == \E j \in DOMAIN scan.start : j >= i /\ Sound(j)

(* Where the bytes of interval i end: at a marker, or with the data.        *)
Stop(i) ==
  Min({p \in scan.start[i]..Len(scan.data) : scan.data[p] = Marker}
      \cup {Len(scan.data) + 1})

Rest(p) == SubSeq(scan.data, p, Len(scan.data))

(* The reader has taken the bytes of interval i in front of q, and its      *)
(* marker at most.                                                          *)
At(r, i, q) ==
  /\ q \in scan.start[i]..Stop(i)
  /\ r.unread => q = Stop(i) /\ q <= Len(scan.data)
  /\ r.data = Rest(IF r.unread THEN q + 1 ELSE q)

(* Bit b of interval i.                                                     *)
BitAt(i, b) ==
  scan.data[scan.start[i] + (b - 1) \div ByteBits][((b - 1) % ByteBits) + 1]

(* Of the bytes in front of q, x bits are used and the others in buf.       *)
Holds(buf, i, x, q) ==
  /\ Len(buf) = (q - scan.start[i]) * ByteBits - x
  /\ \A b \in 1..Len(buf) : buf[b] = BitAt(i, x + b)

TypedReader(r) ==
  /\ r.buf \in Seq(BitIn(scan)) /\ r.data \in Seq(ByteIn(scan))
  /\ r.unread \in BOOLEAN

TypeOK ==
  /\ scan \in Scans /\ Begun <= Len(scan.code)
  /\ reader \in [buf : Seq(BitIn(scan)), data : Seq(ByteIn(scan)), unread : BOOLEAN]
  /\ perm \in Seq(BitIn(scan))
  /\ toGo \in Nat /\ busy \in BOOLEAN /\ got \in Seq(Nat)
  /\ seen \in (DOMAIN scan.code) \cup {Wrong} /\ reads \in Nat
  /\ busy /\ seen # Wrong => reads < Len(scan.code[seen])

(* restartsToGo counts down to the end of the interval.                     *)
Counted ==
  IF scan.interval = 0 THEN toGo = 0 ELSE toGo = Current * scan.interval - Begun

(* Whatever the bytes are and were decoded to, the reader is between the    *)
(* markers of the current interval.                                         *)
Anchored == Reached(Current) => \E q \in Nat : At(reader, Current, q)

Left(m) == IF IsFirst(m) THEN Reset ELSE m - 1

(* Within an MCU of a sound interval the next bit is that of its next read. *)
InMCU ==
  busy /\ Sound(Current) =>
    /\ seen = Begun /\ pred = Left(seen)
    /\ \E q \in Nat : /\ At(reader, Current, q)
                      /\ Holds(reader.buf, Current, scan.offset[seen][reads + 1], q)

(* Between two MCUs of a sound interval it is that of the next MCU.         *)
Between ==
  ~busy /\ Sound(Current) /\ Begun < Len(scan.code) /\ ~Restarting =>
    /\ pred = Left(Begun + 1)
    /\ \E q \in Nat : /\ At(reader, Current, q)
                      /\ Holds(perm, Current, scan.offset[Begun + 1][1], q)

(* The inductive invariant.                                                 *)
IInv == TypeOK /\ Counted /\ Anchored /\ InMCU /\ Between /\ DamageContained

-----------------------------------------------------------------------------
(* Numbers.                                                                 *)
LEMMA Constants ==
  /\ ByteBits \in Nat \ {0} /\ BufBits \in Nat \ {0} /\ HuffLookahead \in Nat \ {0}
  /\ MinGet \in Nat \ {0}
BY RestartAssumption DEF MinGet

LEMMA MinOfTwo ==
  ASSUME NEW a \in Int, NEW b \in Int
  PROVE  Min({a, b}) = IF a <= b THEN a ELSE b
BY DEF Min

LEMMA MaxOfTwo ==
  ASSUME NEW a \in Int, NEW b \in Int
  PROVE  Max({a, b}) = IF a <= b THEN b ELSE a
BY DEF Max

LEMMA ProductMonotone ==
  ASSUME NEW a \in Nat, NEW b \in Nat, NEW c \in Nat, a <= b
  PROVE  a * c \in Nat /\ b * c \in Nat /\ a * c <= b * c
OBVIOUS

(* A set of numbers has a least one: the sets 1..n for its members n have a *)
(* minimal one among them.                                                  *)
LEMMA Least ==
  ASSUME NEW S \in SUBSET Nat, S # {}
  PROVE  Min(S) \in S /\ \A n \in S : Min(S) <= n
<1> DEFINE T == {1..n : n \in S}
<1>1. IsWellFoundedOn(StrictSubsetOrdering(Nat), FiniteSubsetsOf(Nat))
  BY FS_StrictSubsetOrderingWellFounded
<1>2. T \subseteq FiniteSubsetsOf(Nat) /\ T # {}
  <2>1. ASSUME NEW n \in S PROVE 1..n \in FiniteSubsetsOf(Nat)
    BY FS_Interval DEF FiniteSubsetsOf
  <2> QED BY <2>1
<1>3. PICK t \in T : \A u \in T : ~(<<u, t>> \in StrictSubsetOrdering(Nat))
  BY ONLY <1>1, <1>2, WFMin, Zenon
<1>4. PICK m \in S : t = 1..m
  OBVIOUS
<1>5. ASSUME NEW n \in S PROVE m <= n
  <2>1. SUFFICES ASSUME n < m PROVE FALSE
    OBVIOUS
  <2>2. 1..n \subseteq 1..m /\ 1..n # 1..m
    <3>1. m \in 1..m /\ m \notin 1..n
      BY <2>1
    <3>2. 1..n \subseteq 1..m
      BY <2>1
    <3> QED BY <3>1, <3>2
  <2>3. 1..n \in SUBSET Nat /\ 1..m \in SUBSET Nat
    OBVIOUS
  <2>4. <<1..n, 1..m>> \in StrictSubsetOrdering(Nat)
    BY <2>2, <2>3 DEF StrictSubsetOrdering
  <2> QED BY <1>3, <1>4, <2>4
<1>6. \E x \in S : \A n \in S : x <= n
  BY <1>5
<1> QED BY <1>6 DEF Min

LEMMA DivisionIs ==
  ASSUME NEW e \in Nat, NEW b \in Nat \ {0}
  PROVE  /\ e \div b \in Nat /\ e % b \in Nat /\ e % b < b
         /\ e = (e \div b) * b + (e % b)
OBVIOUS

(* A quotient and remainder are those of whole bytes and of the rest.       *)
LEMMA WholeBytes ==
  ASSUME NEW c \in Nat, NEW e \in Nat, NEW b \in Nat \ {0}
  PROVE  /\ e \div b \in Nat /\ e % b \in 0..b - 1
         /\ (c * b + e) \div b = c + (e \div b)
         /\ (c * b + e) % b = e % b
<1> DEFINE q == e \div b
           r == e % b
           p == (c * b + e) \div b
           s == (c * b + e) % b
<1>1. q \in Nat /\ r \in Nat /\ r < b /\ e = q * b + r
  OBVIOUS
<1>2. c * b + e \in Nat
  OBVIOUS
<1>3. p \in Nat /\ s \in Nat /\ s < b /\ c * b + e = p * b + s
  BY <1>2
<1> HIDE DEF p, q, r, s
<1>4. (c + q) * b = c * b + q * b /\ c * b \in Nat /\ q * b \in Nat
  BY <1>1
<1>5. (c + q) * b + r = p * b + s
  BY <1>1, <1>3, <1>4
<1>6. p = c + q
  <2>1. ASSUME p < c + q PROVE FALSE
    <3>1. (p + 1) * b <= (c + q) * b
      BY <1>1, <1>3, <2>1, ProductMonotone
    <3>2. (p + 1) * b = p * b + b
      BY <1>3
    <3> QED BY <1>1, <1>3, <1>4, <1>5, <3>1, <3>2
  <2>2. ASSUME p > c + q PROVE FALSE
    <3>1. (c + q + 1) * b <= p * b
      BY <1>1, <1>3, <2>2, ProductMonotone
    <3>2. (c + q + 1) * b = (c + q) * b + b
      BY <1>1
    <3>3. p * b \in Nat /\ (c + q) * b \in Nat
      BY <1>1, <1>3
    <3> QED BY <1>1, <1>3, <1>5, <3>1, <3>2, <3>3
  <2> QED BY <1>1, <1>3, <2>1, <2>2
<1>7. s = r
  <2>1. p * b \in Nat
    BY <1>3
  <2> QED BY <1>1, <1>3, <1>5, <1>6, <2>1
<1> QED BY <1>1, <1>6, <1>7 DEF p, q, r, s

(* Intervals of n MCUs.                                                     *)
LEMMA QuotientIs ==
  ASSUME NEW m \in Nat, NEW n \in Nat \ {0}, NEW i \in Nat,
         i * n <= m, m < i * n + n
  PROVE  m \div n = i /\ (m % n = 0 <=> m = i * n)
<1> DEFINE e == m - i * n
<1>1. e \in Nat /\ e < n /\ i * n + e = m
  OBVIOUS
<1> HIDE DEF e
<1>2. m \div n = i + (e \div n) /\ m % n = e % n
  BY <1>1, WholeBytes
<1>3. e \div n = 0 /\ e % n = e
  BY <1>1
<1> QED BY <1>1, <1>2, <1>3

-----------------------------------------------------------------------------
(* What is left of a sequence.                                              *)
LEMMA Suffix ==
  ASSUME NEW S, NEW s \in Seq(S), NEW p \in 1..Len(s) + 1
  PROVE  /\ SubSeq(s, p, Len(s)) \in Seq(S)
         /\ Len(SubSeq(s, p, Len(s))) = Len(s) + 1 - p
         /\ \A i \in 1..Len(s) + 1 - p : SubSeq(s, p, Len(s))[i] = s[p + i - 1]
BY SubSeqProperties

LEMMA SuffixOfSuffix ==
  ASSUME NEW S, NEW s \in Seq(S), NEW p \in 1..Len(s) + 1,
         NEW a \in 1..Len(s) + 2 - p
  PROVE  SubSeq(SubSeq(s, p, Len(s)), a, Len(SubSeq(s, p, Len(s)))) =
           SubSeq(s, p + a - 1, Len(s))
<1> DEFINE t == SubSeq(s, p, Len(s))
<1>1. /\ t \in Seq(S) /\ Len(t) = Len(s) + 1 - p
      /\ \A i \in 1..Len(s) + 1 - p : t[i] = s[p + i - 1]
  BY Suffix
<1> HIDE DEF t
<1>2. a \in 1..Len(t) + 1 /\ p + a - 1 \in 1..Len(s) + 1
  BY <1>1
<1>3. /\ SubSeq(t, a, Len(t)) \in Seq(S) /\ Len(SubSeq(t, a, Len(t))) = Len(t) + 1 - a
      /\ \A i \in 1..Len(t) + 1 - a : SubSeq(t, a, Len(t))[i] = t[a + i - 1]
  <2>1. t \in Seq(S)
    BY <1>1
  <2> QED BY ONLY <1>2, <2>1, Suffix
<1>4. /\ SubSeq(s, p + a - 1, Len(s)) \in Seq(S)
      /\ Len(SubSeq(s, p + a - 1, Len(s))) = Len(s) + 1 - (p + a - 1)
      /\ \A i \in 1..Len(s) + 1 - (p + a - 1) :
           SubSeq(s, p + a - 1, Len(s))[i] = s[(p + a - 1) + i - 1]
  BY <1>2, Suffix
<1>5. \A i \in 1..Len(t) + 1 - a : SubSeq(t, a, Len(t))[i] = SubSeq(s, p + a - 1, Len(s))[i]
  BY <1>1, <1>2, <1>3, <1>4
<1>6. SubSeq(t, a, Len(t)) = SubSeq(s, p + a - 1, Len(s))
  BY <1>1, <1>2, <1>3, <1>4, <1>5, SeqEqual
<1> QED BY <1>6 DEF t

(* The first marker.                                                        *)
LEMMA FirstMarker ==
  ASSUME NEW S, NEW d \in Seq(S)
  PROVE  /\ MarkerAt(d) \in 1..Len(d) + 1
         /\ \A p \in 1..MarkerAt(d) - 1 : p \in DOMAIN d /\ d[p] # Marker
         /\ MarkerAt(d) <= Len(d) => d[MarkerAt(d)] = Marker
<1> DEFINE M == {p \in DOMAIN d : d[p] = Marker} \cup {Len(d) + 1}
<1>1. M \in SUBSET Nat /\ M # {} /\ M \subseteq 1..Len(d) + 1
  OBVIOUS
<1>2. \A p \in 1..Len(d) : p \in M <=> d[p] = Marker
  OBVIOUS
<1>3. MarkerAt(d) = Min(M)
  BY DEF MarkerAt
<1> HIDE DEF M
<1>4. MarkerAt(d) \in M /\ \A p \in M : MarkerAt(d) <= p
  BY <1>1, <1>3, Least
<1> DEFINE m == MarkerAt(d)
<1>5. m \in 1..Len(d) + 1 /\ Len(d) \in Nat
  <2>1. Len(d) \in Nat
    OBVIOUS
  <2>2. m \in 1..Len(d) + 1
    BY <1>1, <1>4, Zenon
  <2> QED BY <2>1, <2>2
<1>6. ASSUME NEW p \in 1..m - 1 PROVE p \in DOMAIN d /\ d[p] # Marker
  <2>1. p \in 1..Len(d) /\ ~(m <= p)
    BY <1>5
  <2>2. p \notin M
    BY <1>4, <2>1
  <2> QED BY <1>2, <2>1, <2>2
<1>7. m <= Len(d) => d[m] = Marker
  BY <1>2, <1>4, <1>5
<1> QED BY <1>5, <1>6, <1>7

-----------------------------------------------------------------------------
(* The scan.                                                                *)
LEMMA ScanIs ==
  ASSUME scan \in Scans
  PROVE  /\ scan.interval \in Nat /\ scan.start \in Seq(Nat)
         /\ scan.code \in Seq(Seq(Nat)) /\ scan.offset \in Seq(Seq(Nat))
         /\ scan.data \in Seq(ByteIn(scan)) /\ Len(scan.offset) = Len(scan.code)
         /\ scan.code # <<>> => Len(scan.start) = Interval(Len(scan.code))
         /\ ReadsFit(scan) /\ LaidOut(scan) /\ Offsets(scan) /\ Encoded(scan)
BY RestartAssumption DEF TypedScan, Interval

LEMMA StopIs ==
  ASSUME scan \in Scans, NEW i, scan.start[i] \in 1..Len(scan.data) + 1
  PROVE  /\ Stop(i) \in scan.start[i]..Len(scan.data) + 1
         /\ \A p \in scan.start[i]..Stop(i) - 1 : scan.data[p] # Marker
         /\ Stop(i) <= Len(scan.data) => scan.data[Stop(i)] = Marker
<1> DEFINE b == scan.start[i]
           n == Len(scan.data)
           M == {p \in b..n : scan.data[p] = Marker} \cup {n + 1}
           m == Stop(i)
<1>1. n \in Nat
  BY ScanIs
<1>2. b \in 1..n + 1
  OBVIOUS
<1>3. m = Min(M)
  BY DEF Stop
<1>4. \A p \in b..n : p \in M <=> scan.data[p] = Marker
  BY <1>1, <1>2
<1> HIDE DEF b, n
<1>5. M \in SUBSET Nat /\ M # {} /\ M \subseteq b..n + 1
  BY <1>1, <1>2
<1> HIDE DEF M, m
<1>6. m \in M /\ \A p \in M : m <= p
  BY <1>3, <1>5, Least
<1>7. m \in b..n + 1
  BY <1>5, <1>6
<1>8. ASSUME NEW p \in b..m - 1 PROVE scan.data[p] # Marker
  <2>1. p \in b..n /\ ~(m <= p)
    BY <1>1, <1>2, <1>7
  <2>2. p \notin M
    BY <1>6, <2>1
  <2> QED BY <1>4, <2>1, <2>2
<1>9. m <= n => scan.data[m] = Marker
  BY <1>1, <1>2, <1>4, <1>6, <1>7
<1> QED BY <1>7, <1>8, <1>9 DEF b, n, m

(* The marker of an interval is where the next interval starts.             *)
LEMMA StartIs ==
  ASSUME scan \in Scans, NEW i \in Nat \ {0}, Reached(i)
  PROVE  /\ i \in DOMAIN scan.start /\ scan.start[i] \in 1..Len(scan.data) + 1
         /\ i > 1 => /\ Reached(i - 1) /\ Stop(i - 1) = scan.start[i] - 1
                     /\ Stop(i - 1) <= Len(scan.data)
<1> DEFINE n == Len(scan.data)
<1>1. PICK k \in DOMAIN scan.start : k >= i /\ Sound(k)
  BY DEF Reached
<1>2. /\ n \in Nat /\ scan.start \in Seq(Nat) /\ Len(scan.start) \in Nat
      /\ DOMAIN scan.start = 1..Len(scan.start)
  <2>1. scan.start \in Seq(Nat) /\ scan.data \in Seq(ByteIn(scan))
    BY ScanIs, Zenon
  <2> QED BY <2>1
<1>3. i \in 1..k /\ k \in 1..Len(scan.start) /\ scan.start # <<>>
  BY <1>1, <1>2
<1>4. scan.start[1] = 1
  BY <1>3, ScanIs DEF LaidOut
<1>5. ASSUME NEW j \in 2..k
      PROVE  /\ scan.start[j - 1] < scan.start[j] /\ scan.start[j] - 1 \in 1..n
             /\ scan.data[scan.start[j] - 1] = Marker
             /\ \A p \in scan.start[j - 1]..scan.start[j] - 2 : scan.data[p] # Marker
  <2>1. DOMAIN scan.data = 1..n
    BY ScanIs
  <2> QED BY <1>1, <2>1, ScanIs DEF LaidOut, Sound
<1>6. ASSUME NEW j \in 1..k PROVE scan.start[j] \in 1..n + 1
  <2> DEFINE s == scan.start[j]
  <2>1. s \in Nat /\ n \in Nat
    BY <1>2, <1>3
  <2>2. CASE j = 1
    BY <1>2, <1>4, <2>2
  <2>3. CASE j # 1
    <3>1. j \in 2..k
      BY <1>3, <2>3
    <3>2. s - 1 \in 1..n
      BY <1>5, <3>1, Zenon
    <3> HIDE DEF s, n
    <3>3. s \in 1..n + 1
      BY ONLY <2>1, <3>2
    <3> QED BY <3>3 DEF s
  <2> QED BY <2>2, <2>3
<1>7. ASSUME i > 1
      PROVE  Reached(i - 1) /\ Stop(i - 1) = scan.start[i] - 1 /\ Stop(i - 1) <= n
  <2> DEFINE a == scan.start[i - 1]
             b == scan.start[i]
             m == Stop(i - 1)
  <2>1. i \in 2..k /\ i - 1 \in 1..k /\ k >= i - 1
    BY <1>3, <1>7
  <2>2. Reached(i - 1)
    BY <1>1, <2>1 DEF Reached
  <2>3. /\ a < b /\ b - 1 \in 1..n /\ scan.data[b - 1] = Marker
        /\ \A p \in a..b - 2 : scan.data[p] # Marker
    BY <1>5, <2>1
  <2>4. a \in 1..n + 1 /\ b \in 1..n + 1
    BY <1>6, <2>1, <1>3
  <2>5. /\ m \in a..n + 1 /\ \A p \in a..m - 1 : scan.data[p] # Marker
        /\ m <= n => scan.data[m] = Marker
    BY <2>4, StopIs
  <2> HIDE DEF a, b, m, n
  <2>6. ~(m < b - 1)
    BY <1>2, <2>3, <2>4, <2>5
  <2>7. ~(m > b - 1)
    BY <1>2, <2>3, <2>4, <2>5
  <2>8. m = b - 1 /\ m <= n
    BY <1>2, <2>3, <2>4, <2>5, <2>6, <2>7
  <2> QED BY <2>2, <2>8 DEF b, m, n
<1> QED BY <1>2, <1>3, <1>6, <1>7

-----------------------------------------------------------------------------
(* The reader.                                                              *)
LEMMA RestIs ==
  ASSUME scan \in Scans, NEW p \in 1..Len(scan.data) + 1
  PROVE  /\ Rest(p) \in Seq(ByteIn(scan)) /\ Len(Rest(p)) = Len(scan.data) + 1 - p
         /\ \A a \in 1..Len(scan.data) + 1 - p : Rest(p)[a] = scan.data[p + a - 1]
         /\ \A a \in 1..Len(scan.data) + 2 - p :
              SubSeq(Rest(p), a, Len(Rest(p))) = Rest(p + a - 1)
<1>1. scan.data \in Seq(ByteIn(scan))
  BY ScanIs
<1>2. /\ Rest(p) \in Seq(ByteIn(scan)) /\ Len(Rest(p)) = Len(scan.data) + 1 - p
      /\ \A a \in 1..Len(scan.data) + 1 - p : Rest(p)[a] = scan.data[p + a - 1]
  BY <1>1, Suffix DEF Rest
<1>3. ASSUME NEW a \in 1..Len(scan.data) + 2 - p
      PROVE  SubSeq(Rest(p), a, Len(Rest(p))) = Rest(p + a - 1)
  BY <1>1, SuffixOfSuffix DEF Rest
<1> QED BY <1>2, <1>3

(* The marker the reader meets is the interval's.                           *)
LEMMA MarkerMet ==
  ASSUME scan \in Scans, NEW i, scan.start[i] \in 1..Len(scan.data) + 1,
         NEW r, NEW q, At(r, i, q), ~r.unread
  PROVE  /\ MarkerAt(r.data) = Stop(i) + 1 - q
         /\ Len(r.data) = Len(scan.data) + 1 - q
<1> DEFINE b == scan.start[i]
           n == Len(scan.data)
           m == Stop(i)
           d == r.data
           t == MarkerAt(d)
<1>1. n \in Nat
  BY ScanIs
<1>2. /\ m \in b..n + 1 /\ \A p \in b..m - 1 : scan.data[p] # Marker
      /\ m <= n => scan.data[m] = Marker
  BY StopIs
<1>3. q \in b..m /\ d = Rest(q) /\ b \in 1..n + 1
  BY DEF At
<1>4. q \in 1..n + 1
  <2> HIDE DEF b, m, n
  <2> QED BY <1>1, <1>2, <1>3
<1>5. /\ d \in Seq(ByteIn(scan)) /\ Len(d) = n + 1 - q
      /\ \A a \in 1..n + 1 - q : d[a] = scan.data[q + a - 1]
  BY <1>3, <1>4, RestIs
<1>6. /\ t \in 1..Len(d) + 1 /\ \A p \in 1..t - 1 : p \in DOMAIN d /\ d[p] # Marker
      /\ t <= Len(d) => d[t] = Marker
  BY <1>5, FirstMarker
<1> HIDE DEF b, n, m, d, t
<1>7. ASSUME t < m + 1 - q PROVE FALSE
  <2>1. t \in 1..n + 1 - q /\ q + t - 1 \in b..m - 1 /\ t <= Len(d)
    BY <1>1, <1>2, <1>3, <1>5, <1>6, <1>7
  <2> QED BY <1>2, <1>5, <1>6, <2>1
<1>8. ASSUME t > m + 1 - q PROVE FALSE
  <2> DEFINE a == m + 1 - q
  <2>1. a \in 1..t - 1 /\ a \in 1..n + 1 - q /\ q + a - 1 = m /\ m <= n
    BY <1>1, <1>2, <1>3, <1>5, <1>6, <1>8
  <2>2. d[a] = Marker
    BY <1>2, <1>5, <2>1
  <2> QED BY <1>6, <2>1, <2>2
<1>9. t = m + 1 - q
  BY <1>1, <1>2, <1>3, <1>5, <1>6, <1>7, <1>8
<1> QED BY <1>5, <1>9 DEF n, m, d, t

LEMMA BitsAre ==
  ASSUME NEW d \in Seq(ByteIn(scan)), NEW k \in 0..MarkerAt(d) - 1
  PROVE  /\ BitsOf(d, k) \in Seq(BitIn(scan)) /\ Len(BitsOf(d, k)) = k * ByteBits
         /\ k * ByteBits \in Nat
         /\ \A b \in 1..k * ByteBits :
              /\ (b - 1) \div ByteBits \in 0..k - 1
              /\ BitsOf(d, k)[b] = d[(b - 1) \div ByteBits + 1][((b - 1) % ByteBits) + 1]
<1>1. k \in Nat /\ ByteBits \in Nat \ {0}
  BY Constants, FirstMarker
<1>2. k * ByteBits \in Nat
  BY <1>1
<1>3. ASSUME NEW b \in 1..k * ByteBits
      PROVE  /\ (b - 1) \div ByteBits \in 0..k - 1
             /\ d[(b - 1) \div ByteBits + 1][((b - 1) % ByteBits) + 1] \in BitIn(scan)
  <2> DEFINE p == (b - 1) \div ByteBits
             x == (b - 1) % ByteBits
  <2>1. p \in Nat /\ x \in 0..ByteBits - 1 /\ b - 1 = p * ByteBits + x
    BY <1>1, <1>2
  <2> HIDE DEF p, x
  <2>2. p < k
    <3>1. ASSUME k <= p PROVE FALSE
      <4>1. k * ByteBits <= p * ByteBits /\ p * ByteBits \in Nat
        BY <1>1, <2>1, <3>1, ProductMonotone
      <4> QED BY <1>1, <1>2, <2>1, <4>1
    <3> QED BY <1>1, <2>1, <3>1
  <2>3. p + 1 \in 1..MarkerAt(d) - 1
    BY <1>1, <2>1, <2>2, FirstMarker
  <2>4. p + 1 \in DOMAIN d /\ d[p + 1] # Marker
    BY <2>3, FirstMarker
  <2>5. d[p + 1] \in Seq(BitIn(scan)) /\ Len(d[p + 1]) = ByteBits
    BY <2>4 DEF ByteIn
  <2>6. x + 1 \in 1..ByteBits
    BY <1>1, <2>1
  <2>7. d[p + 1][x + 1] \in BitIn(scan)
    BY <2>5, <2>6
  <2>8. p \in 0..k - 1
    BY <1>1, <2>1, <2>2
  <2> QED BY <2>7, <2>8 DEF p, x
<1>4. BitsOf(d, k) \in [1..k * ByteBits -> BitIn(scan)]
  BY <1>3 DEF BitsOf
<1>5. BitsOf(d, k) \in Seq(BitIn(scan)) /\ Len(BitsOf(d, k)) = k * ByteBits
  BY <1>2, <1>4
<1> QED BY <1>2, <1>3, <1>5 DEF BitsOf

-----------------------------------------------------------------------------
(* fillBitBuffer.                                                           *)
LEMMA WantedIs ==
  ASSUME NEW buf, Len(buf) \in Nat
  PROVE  /\ Wanted(buf) \in Nat /\ Wanted(buf) * ByteBits \in Nat
         /\ Len(buf) + Wanted(buf) * ByteBits >= MinGet
         /\ Wanted(buf) > 0 => Len(buf) < MinGet
<1> DEFINE a == MinGet - Len(buf)
           q == (a + ByteBits - 1) \div ByteBits
<1>1. a \in Int /\ ByteBits \in Nat \ {0} /\ MinGet \in Nat
  BY Constants
<1>2. Wanted(buf) = Max({0, q})
  BY DEF Wanted
<1>3. q \in Int
  BY <1>1
<1>4. Wanted(buf) = IF 0 <= q THEN q ELSE 0
  <2> HIDE DEF q
  <2> QED BY <1>2, <1>3, MaxOfTwo
<1>5. CASE a <= 0
  <2>1. q <= 0
    <3> DEFINE e == a + ByteBits - 1
    <3>1. e \in Int /\ e < ByteBits
      BY <1>1, <1>5
    <3> HIDE DEF e
    <3>2. e \div ByteBits <= 0
      BY <1>1, <3>1
    <3> QED BY <3>2 DEF e
  <2>2. Wanted(buf) = 0 /\ 0 * ByteBits = 0
    BY <1>1, <1>3, <1>4, <2>1
  <2> QED BY <1>1, <1>5, <2>2
<1>6. CASE a > 0
  <2> DEFINE r == (a + ByteBits - 1) % ByteBits
  <2>1. q \in Nat /\ r \in Nat /\ r < ByteBits /\ a + ByteBits - 1 = q * ByteBits + r
    BY <1>1, <1>6
  <2> HIDE DEF q, r
  <2>2. Wanted(buf) = q /\ q * ByteBits \in Nat
    BY <1>1, <1>4, <2>1
  <2>3. q * ByteBits >= a
    BY <1>1, <2>1, <2>2
  <2> QED BY <1>1, <1>6, <2>1, <2>2, <2>3
<1> QED BY <1>1, <1>5, <1>6

LEMMA ZerosAre ==
  ASSUME NEW n \in Int
  PROVE  Zeros(n) \in Seq(BitIn(scan))
<1>1. Zero \in BitIn(scan)
  BY DEF BitIn
<1>2. CASE n >= 0
  BY <1>1, <1>2 DEF Zeros
<1>3. CASE n < 0
  <2>1. 1..n = 1..0
    BY <1>3
  <2>2. Zeros(n) \in [1..0 -> BitIn(scan)]
    BY <1>1, <2>1 DEF Zeros
  <2> QED BY <2>2
<1> QED BY <1>2, <1>3

LEMMA AtIs ==
  ASSUME scan \in Scans, NEW i, scan.start[i] \in 1..Len(scan.data) + 1,
         NEW r, NEW q, At(r, i, q)
  PROVE  /\ Len(scan.data) \in Nat /\ scan.start[i] \in Nat
         /\ Stop(i) \in scan.start[i]..Len(scan.data) + 1
         /\ q \in scan.start[i]..Stop(i)
<1> DEFINE a == scan.start[i]
           n == Len(scan.data)
<1>1. n \in Nat
  BY ScanIs
<1>2. a \in 1..n + 1
  OBVIOUS
<1>3. Stop(i) \in a..n + 1
  BY StopIs, Zenon
<1>4. q \in a..Stop(i)
  BY DEF At
<1> HIDE DEF a, n
<1>5. a \in Nat
  BY ONLY <1>1, <1>2
<1> QED BY <1>1, <1>3, <1>4, <1>5 DEF a, n

LEMMA TakenIs ==
  ASSUME scan \in Scans, NEW i, scan.start[i] \in 1..Len(scan.data) + 1,
         NEW r, TypedReader(r), NEW q, At(r, i, q)
  PROVE  /\ Taken(r) \in Nat /\ Taken(r) \in 0..MarkerAt(r.data) - 1
         /\ q + Taken(r) \in scan.start[i]..Stop(i)
         /\ r.unread => Taken(r) = 0
         /\ ~r.unread => Taken(r) = Wanted(r.buf) \/ q + Taken(r) = Stop(i)
<1>0. Len(r.buf) \in Nat /\ r.unread \in BOOLEAN
  BY DEF TypedReader
<1>1. Wanted(r.buf) \in Nat
  BY <1>0, WantedIs
<1>2. MarkerAt(r.data) \in Nat \ {0}
  BY FirstMarker DEF TypedReader
<1>3. /\ Stop(i) \in scan.start[i]..Len(scan.data) + 1 /\ q \in scan.start[i]..Stop(i)
      /\ Len(scan.data) \in Nat /\ scan.start[i] \in Nat
  BY AtIs, Zenon
<1>4. CASE r.unread
  BY <1>2, <1>3, <1>4 DEF Taken
<1>5. CASE ~r.unread
  <2> DEFINE w == Wanted(r.buf)
             t == MarkerAt(r.data)
  <2>1. t = Stop(i) + 1 - q
    BY <1>5, MarkerMet
  <2>2. Taken(r) = Min({w, t - 1})
    BY <1>5 DEF Taken
  <2>3. w \in Int /\ t - 1 \in Int
    BY <1>1, <1>2
  <2> HIDE DEF w, t
  <2>4. Taken(r) = IF w <= t - 1 THEN w ELSE t - 1
    BY <2>2, <2>3, MinOfTwo
  <2>5. w \in Nat /\ t \in Nat \ {0}
    BY <1>1, <1>2 DEF w, t
  <2> DEFINE a == scan.start[i]
             e == Stop(i)
             k == Taken(r)
  <2>6. /\ a \in Nat /\ e \in Nat /\ q \in a..e
        /\ t = e + 1 - q /\ k = IF w <= t - 1 THEN w ELSE t - 1
    BY <1>3, <2>1, <2>4
  <2> HIDE DEF a, e, k
  <2>7. k \in 0..t - 1 /\ k \in Nat /\ q + k \in a..e /\ (k = w \/ q + k = e)
    BY ONLY <2>5, <2>6
  <2> QED BY <1>5, <2>7 DEF w, t, a, e, k
<1> QED BY <1>0, <1>4, <1>5

Loaded(r) == r.buf \o BitsOf(r.data, Taken(r))

LEMMA LoadedIs ==
  ASSUME scan \in Scans, NEW i, scan.start[i] \in 1..Len(scan.data) + 1,
         NEW r, TypedReader(r), NEW q, At(r, i, q)
  PROVE  /\ Loaded(r) \in Seq(BitIn(scan))
         /\ Taken(r) * ByteBits \in Nat
         /\ Len(Loaded(r)) = Len(r.buf) + Taken(r) * ByteBits
         /\ Len(Loaded(r)) >= MinGet \/ q + Taken(r) = Stop(i)
         /\ \A b \in 1..Len(Loaded(r)) :
              Loaded(r)[b] = IF b <= Len(r.buf) THEN r.buf[b]
                             ELSE BitsOf(r.data, Taken(r))[b - Len(r.buf)]
<1> DEFINE k == Taken(r)
           z == BitsOf(r.data, k)
<1>1. r.buf \in Seq(BitIn(scan)) /\ r.data \in Seq(ByteIn(scan)) /\ r.unread \in BOOLEAN
  BY DEF TypedReader
<1>2. k \in 0..MarkerAt(r.data) - 1
  BY TakenIs
<1>3. z \in Seq(BitIn(scan)) /\ Len(z) = k * ByteBits /\ k * ByteBits \in Nat
  BY <1>1, <1>2, BitsAre
<1>4. Loaded(r) = r.buf \o z
  BY DEF Loaded
<1> HIDE DEF k, z
<1>5. /\ r.buf \o z \in Seq(BitIn(scan)) /\ Len(r.buf \o z) = Len(r.buf) + Len(z)
      /\ \A b \in 1..Len(r.buf) + Len(z) :
           (r.buf \o z)[b] = IF b <= Len(r.buf) THEN r.buf[b] ELSE z[b - Len(r.buf)]
  BY <1>1, <1>3, ConcatProperties
<1>6. Len(r.buf \o z) >= MinGet \/ q + k = Stop(i)
  <2>1. CASE r.unread
    <3>1. k = 0 /\ q = Stop(i) /\ q \in Nat
      <4>1. Stop(i) \in scan.start[i]..Len(scan.data) + 1 /\ Len(scan.data) \in Nat
        BY StopIs, ScanIs
      <4> QED BY <2>1, <4>1, TakenIs DEF At, k
    <3> QED BY <3>1
  <2>2. CASE ~r.unread
    <3>1. k = Wanted(r.buf) \/ q + k = Stop(i)
      BY <2>2, TakenIs DEF k
    <3>2. Len(r.buf) + Wanted(r.buf) * ByteBits >= MinGet
      BY <1>1, WantedIs
    <3> QED BY <1>3, <1>5, <3>1, <3>2
  <2> QED BY <1>1, <2>1, <2>2
<1> QED BY <1>3, <1>4, <1>5, <1>6 DEF k, z

(* A fill takes whole bytes up to the marker, and takes the marker only     *)
(* behind all of them.                                                      *)
LEMMA FillIs ==
  ASSUME scan \in Scans, NEW i, scan.start[i] \in 1..Len(scan.data) + 1,
         NEW r, TypedReader(r), NEW q, At(r, i, q), NEW n \in Nat
  PROVE  /\ TypedReader(Fill(r, n)) /\ At(Fill(r, n), i, q + Taken(r))
         /\ n <= Len(Loaded(r)) => Fill(r, n).buf = Loaded(r)
         /\ Len(Loaded(r)) > 0 => Fill(r, n).ok
<1> DEFINE f == Fill(r, n)
           k == Taken(r)
           loaded == Loaded(r)
           short == Wanted(loaded) > 0 /\ ~r.unread
           hit == short /\ k < Len(r.data)
           N == Len(scan.data)
<1>1. r.buf \in Seq(BitIn(scan)) /\ r.data \in Seq(ByteIn(scan)) /\ r.unread \in BOOLEAN
  BY DEF TypedReader
<1>2. /\ f.unread = (r.unread \/ hit)
      /\ f.buf = IF (r.unread \/ hit) /\ n > Len(loaded)
                 THEN loaded \o Zeros(MinGet - Len(loaded)) ELSE loaded
      /\ f.data = SubSeq(r.data, IF hit THEN k + 2 ELSE k + 1, Len(r.data))
      /\ f.ok = ~(short /\ ~hit /\ loaded = <<>>)
  BY DEF Fill, Loaded
<1>3. /\ loaded \in Seq(BitIn(scan)) /\ Len(loaded) \in Nat
      /\ Len(loaded) = Len(r.buf) + k * ByteBits
      /\ Len(loaded) >= MinGet \/ q + k = Stop(i)
  BY LoadedIs
<1>4. /\ k \in Nat /\ q + k \in scan.start[i]..Stop(i)
      /\ r.unread => k = 0
  BY TakenIs
<1>5. Wanted(loaded) \in Nat /\ (Wanted(loaded) > 0 => Len(loaded) < MinGet)
  BY <1>3, WantedIs
<1>6. /\ N \in Nat /\ Stop(i) \in scan.start[i]..N + 1 /\ scan.start[i] \in 1..N + 1
      /\ q \in scan.start[i]..Stop(i)
  BY AtIs, Zenon
<1> HIDE DEF f, loaded, k, N
<1>10. q \in 1..N + 1 /\ q + k \in 1..N + 1
  <2> DEFINE a == scan.start[i]
             e == Stop(i)
  <2>1. e \in a..N + 1 /\ a \in 1..N + 1 /\ q \in a..e /\ q + k \in a..e
    BY <1>4, <1>6
  <2>2. N \in Nat /\ k \in Nat
    BY <1>4, <1>6
  <2> HIDE DEF a, e
  <2> QED BY ONLY <2>1, <2>2
<1>11. N \in Nat /\ k \in Nat
  BY <1>4, <1>6
<1>7. f.buf \in Seq(BitIn(scan))
  <2>1. Zeros(MinGet - Len(loaded)) \in Seq(BitIn(scan))
    BY <1>3, Constants, ZerosAre
  <2>2. loaded \o Zeros(MinGet - Len(loaded)) \in Seq(BitIn(scan))
    BY <1>3, <2>1, ConcatProperties
  <2> QED BY <1>2, <1>3, <2>2
<1>8. CASE r.unread
  <2>1. q = Stop(i) /\ q <= N /\ r.data = Rest(q + 1) /\ k = 0
    BY <1>4, <1>8 DEF At, N
  <2>2. ~hit /\ f.unread = TRUE
    BY <1>2, <1>8
  <2>3. f.data = Rest(q + 1)
    <3>1. q + 1 \in 1..N + 1 /\ 1 \in 1..N + 2 - (q + 1) /\ q + 1 + 1 - 1 = q + 1
      BY <1>6, <2>1
    <3>2. SubSeq(Rest(q + 1), 1, Len(Rest(q + 1))) = Rest(q + 1 + 1 - 1)
      BY <3>1, RestIs DEF N
    <3>3. f.data = SubSeq(r.data, 1, Len(r.data))
      BY <1>2, <2>1, <2>2
    <3> QED BY <2>1, <3>1, <3>2, <3>3
  <2>4. At(f, i, q + k)
    BY <1>4, <1>6, <2>1, <2>2, <2>3 DEF At, N
  <2>5. f.data \in Seq(ByteIn(scan))
    BY <1>1, <2>1, <2>3
  <2> QED BY <1>2, <1>7, <1>8, <2>2, <2>4, <2>5 DEF TypedReader, f, k, loaded
<1>9. CASE ~r.unread
  <2>1. r.data = Rest(q) /\ Len(r.data) = N + 1 - q /\ q \in 1..N + 1
    <3>1. r.data = Rest(q)
      BY <1>9 DEF At
    <3>2. Len(r.data) = N + 1 - q
      BY <1>9, MarkerMet DEF N
    <3>3. q \in 1..N + 1
      BY ONLY <1>6
    <3> QED BY <3>1, <3>2, <3>3
  <2>2. \A a \in 1..N + 2 - q : SubSeq(r.data, a, Len(r.data)) = Rest(q + a - 1)
    BY <2>1, RestIs DEF N
  <2>3. CASE hit
    <3>1. q + k = Stop(i) /\ q + k <= N
      <4> DEFINE l == Len(loaded)
      <4>1. l < MinGet /\ (l >= MinGet \/ q + k = Stop(i)) /\ l \in Nat /\ MinGet \in Nat
        BY <1>3, <1>5, <2>3, Constants
      <4>2. k < N + 1 - q
        BY <2>1, <2>3
      <4> HIDE DEF l
      <4>3. q + k = Stop(i)
        BY ONLY <4>1
      <4>4. q + k <= N
        BY ONLY <1>10, <1>11, <4>2
      <4> QED BY <4>3, <4>4
    <3>2. k + 2 \in 1..N + 2 - q /\ q + (k + 2) - 1 = q + k + 1 /\ q + k + 1 \in 1..N + 1
      <4>1. q + k <= N
        BY <3>1
      <4> QED BY ONLY <1>10, <1>11, <4>1
    <3>3. f.unread = TRUE /\ f.data = Rest(q + k + 1)
      BY <1>2, <2>2, <2>3, <3>2
    <3>4. At(f, i, q + k)
      BY <1>4, <3>1, <3>3 DEF At, N
    <3>5. f.data \in Seq(ByteIn(scan))
      BY <3>2, <3>3, RestIs DEF N
    <3> QED BY <1>2, <1>7, <2>3, <3>3, <3>4, <3>5, <1>3 DEF TypedReader, f, k, loaded
  <2>4. CASE ~hit
    <3>1. k + 1 \in 1..N + 2 - q /\ q + (k + 1) - 1 = q + k /\ q + k \in 1..N + 1
      BY ONLY <1>10, <1>11
    <3>2. f.unread = FALSE /\ f.data = Rest(q + k)
      BY <1>2, <1>9, <2>2, <2>4, <3>1
    <3>3. At(f, i, q + k)
      BY <1>4, <3>2 DEF At
    <3>4. f.data \in Seq(ByteIn(scan))
      BY <3>1, <3>2, RestIs DEF N
    <3>5. Len(loaded) > 0 => loaded # <<>>
      OBVIOUS
    <3> QED BY <1>2, <1>7, <1>9, <2>4, <3>2, <3>3, <3>4, <3>5 DEF TypedReader, f, k, loaded
  <2> QED BY <2>3, <2>4
<1> QED BY <1>1, <1>8, <1>9

(* Without anything about the place of the reader.                          *)
ReaderOK == [buf : Seq(BitIn(scan)), data : Seq(ByteIn(scan)), unread : BOOLEAN, ok : BOOLEAN]

LEMMA TakenBounds ==
  ASSUME NEW r, TypedReader(r)
  PROVE  /\ Taken(r) \in 0..MarkerAt(r.data) - 1 /\ Taken(r) \in Nat
         /\ Taken(r) <= Len(r.data) /\ MarkerAt(r.data) \in Nat \ {0}
         /\ r.unread => Taken(r) = 0
         /\ ~r.unread => Taken(r) = Wanted(r.buf) \/ Taken(r) = MarkerAt(r.data) - 1
<1> DEFINE w == Wanted(r.buf)
           t == MarkerAt(r.data)
           k == Taken(r)
<1>1. r.buf \in Seq(BitIn(scan)) /\ r.data \in Seq(ByteIn(scan)) /\ r.unread \in BOOLEAN
  BY DEF TypedReader
<1>2. w \in Nat /\ t \in 1..Len(r.data) + 1
  BY <1>1, WantedIs, FirstMarker
<1>3. k = IF r.unread THEN 0 ELSE Min({w, t - 1})
  BY DEF Taken
<1> HIDE DEF w, t, k
<1>4. Min({w, t - 1}) = IF w <= t - 1 THEN w ELSE t - 1
  BY <1>2, MinOfTwo
<1>5. t \in Nat \ {0} /\ t <= Len(r.data) + 1 /\ Len(r.data) \in Nat
  BY <1>1, <1>2
<1>6. k \in 0..t - 1 /\ k \in Nat /\ k <= Len(r.data)
  BY <1>2, <1>3, <1>4, <1>5
<1>7. (r.unread => k = 0) /\ (~r.unread => k = w \/ k = t - 1)
  BY <1>3, <1>4
<1> QED BY <1>5, <1>6, <1>7 DEF w, t, k

LEMMA FillType ==
  ASSUME NEW r, TypedReader(r), NEW n \in Nat
  PROVE  Fill(r, n) \in ReaderOK
<1> DEFINE k == Taken(r)
           loaded == r.buf \o BitsOf(r.data, k)
           short == Wanted(loaded) > 0 /\ ~r.unread
           hit == short /\ k < Len(r.data)
           unread == r.unread \/ hit
           buf == IF unread /\ n > Len(loaded) THEN loaded \o Zeros(MinGet - Len(loaded))
                  ELSE loaded
           data == SubSeq(r.data, IF hit THEN k + 2 ELSE k + 1, Len(r.data))
           ok == ~(short /\ ~hit /\ loaded = <<>>)
<1>1. r.buf \in Seq(BitIn(scan)) /\ r.data \in Seq(ByteIn(scan)) /\ r.unread \in BOOLEAN
  BY DEF TypedReader
<1>2. Fill(r, n) = [buf |-> buf, data |-> data, unread |-> unread, ok |-> ok]
  BY DEF Fill
<1>3. k \in 0..MarkerAt(r.data) - 1 /\ k \in Nat /\ k <= Len(r.data)
  BY TakenBounds
<1>4. loaded \in Seq(BitIn(scan)) /\ Len(loaded) \in Nat
  <2>1. BitsOf(r.data, k) \in Seq(BitIn(scan))
    BY <1>1, <1>3, BitsAre
  <2> DEFINE z == BitsOf(r.data, k)
             a == r.buf
  <2>2. z \in Seq(BitIn(scan)) /\ a \in Seq(BitIn(scan)) /\ loaded = a \o z
    BY <1>1, <2>1
  <2> HIDE DEF z, a, loaded
  <2>3. a \o z \in Seq(BitIn(scan)) /\ Len(a \o z) \in Nat
    BY <2>2
  <2> QED BY <2>2, <2>3
<1> HIDE DEF k, loaded
<1>5. buf \in Seq(BitIn(scan))
  <2>1. Zeros(MinGet - Len(loaded)) \in Seq(BitIn(scan))
    BY <1>4, Constants, ZerosAre
  <2>2. loaded \o Zeros(MinGet - Len(loaded)) \in Seq(BitIn(scan))
    BY <1>4, <2>1, ConcatProperties
  <2> QED BY <1>4, <2>2
<1>6. data \in Seq(ByteIn(scan))
  <2>1. (IF hit THEN k + 2 ELSE k + 1) \in 1..Len(r.data) + 1
    BY <1>1, <1>3
  <2> QED BY <1>1, <2>1, Suffix
<1>7. unread \in BOOLEAN /\ ok \in BOOLEAN
  BY <1>1
<1> HIDE DEF buf, data, unread, ok
<1> QED BY <1>2, <1>5, <1>6, <1>7 DEF ReaderOK

LEMMA FillIfType ==
  ASSUME NEW r, TypedReader(r), NEW n \in Nat, NEW short \in BOOLEAN
  PROVE  FillIf(short, r, n) \in ReaderOK
<1>1. CASE short
  BY <1>1, FillType DEF FillIf
<1>2. CASE ~short
  BY <1>2 DEF FillIf, Kept, ReaderOK, TypedReader
<1> QED BY <1>1, <1>2

LEMMA ReaderOKIs ==
  ASSUME NEW r \in ReaderOK
  PROVE  TypedReader(r) /\ Len(r.buf) \in Nat /\ r.ok \in BOOLEAN
BY DEF ReaderOK, TypedReader

LEMMA LoadCodeType ==
  ASSUME NEW r, TypedReader(r), NEW n \in Nat
  PROVE  LoadCode(r, n) \in ReaderOK
<1> DEFINE ahead == FillIf(Len(r.buf) < HuffLookahead, r, 0)
           more == FillIf(Len(ahead.buf) < n, ahead, n)
           ok == Len(more.buf) >= n \/ Len(ahead.buf) = HuffLookahead
<1>1. ahead \in ReaderOK
  <2>1. (Len(r.buf) < HuffLookahead) \in BOOLEAN
    OBVIOUS
  <2> QED BY <2>1, FillIfType
<1>2. more \in ReaderOK
  <2>1. (Len(ahead.buf) < n) \in BOOLEAN
    OBVIOUS
  <2>2. TypedReader(ahead)
    BY <1>1, ReaderOKIs
  <2> HIDE DEF ahead
  <2> QED BY <2>1, <2>2, FillIfType
<1>3. LoadCode(r, n) = IF ~ahead.ok THEN ahead ELSE [more EXCEPT !.ok = ok]
  BY DEF LoadCode
<1>4. ok \in BOOLEAN
  OBVIOUS
<1> HIDE DEF ahead, more, ok
<1>5. [more EXCEPT !.ok = ok] \in ReaderOK
  BY <1>2, <1>4 DEF ReaderOK
<1> QED BY <1>1, <1>3, <1>5

LEMMA LoadType ==
  ASSUME NEW r, TypedReader(r), NEW n \in Nat, NEW isCode \in BOOLEAN
  PROVE  Load(r, n, isCode) \in ReaderOK
<1>1. CASE isCode
  BY <1>1, LoadCodeType DEF Load
<1>2. CASE ~isCode
  <2>1. (Len(r.buf) < n) \in BOOLEAN
    OBVIOUS
  <2>2. FillIf(Len(r.buf) < n, r, n) \in ReaderOK
    BY <2>1, FillIfType
  <2> QED BY <1>2, <2>2 DEF Load
<1> QED BY <1>1, <1>2

(* The bytes taken in continue the bits in the buffer.                      *)
LEMMA HoldsLoaded ==
  ASSUME scan \in Scans, NEW i, scan.start[i] \in 1..Len(scan.data) + 1,
         NEW r, TypedReader(r), NEW q, At(r, i, q), NEW x \in Nat, Holds(r.buf, i, x, q)
  PROVE  Holds(Loaded(r), i, x, q + Taken(r))
<1> DEFINE k == Taken(r)
           c == q - scan.start[i]
           l == Len(r.buf)
           N == Len(scan.data)
<1>1. /\ N \in Nat /\ Stop(i) \in scan.start[i]..N + 1 /\ scan.start[i] \in 1..N + 1
      /\ q \in scan.start[i]..Stop(i)
  BY AtIs, Zenon
<1>2. k \in Nat /\ k \in 0..MarkerAt(r.data) - 1 /\ (r.unread => k = 0)
  BY TakenIs
<1>3. /\ Len(Loaded(r)) = l + k * ByteBits /\ k * ByteBits \in Nat
      /\ \A b \in 1..Len(Loaded(r)) :
           Loaded(r)[b] = IF b <= l THEN r.buf[b] ELSE BitsOf(r.data, k)[b - l]
  BY LoadedIs
<1>4. l = c * ByteBits - x /\ \A b \in 1..l : r.buf[b] = BitAt(i, x + b)
  BY DEF Holds
<1>5. l \in Nat /\ r.data \in Seq(ByteIn(scan)) /\ r.unread \in BOOLEAN
  BY DEF TypedReader
<1>6. ByteBits \in Nat \ {0}
  BY Constants
<1>7. c \in Nat /\ c * ByteBits \in Nat
  <2>1. c \in Nat
    <3> HIDE DEF N
    <3> QED BY <1>1
  <2> HIDE DEF c
  <2> QED BY <2>1, <1>6
<1>8. Len(Loaded(r)) = ((q + k) - scan.start[i]) * ByteBits - x
  <2>1. (q + k) - scan.start[i] = c + k
    BY <1>1, <1>2
  <2> HIDE DEF c, k, l
  <2>2. (c + k) * ByteBits = c * ByteBits + k * ByteBits
    BY <1>2, <1>6, <1>7
  <2> QED BY <1>3, <1>4, <1>5, <1>7, <2>1, <2>2
<1>9. ASSUME NEW b \in 1..Len(Loaded(r)), b > l
      PROVE  BitsOf(r.data, k)[b - l] = BitAt(i, x + b)
  <2> DEFINE e == b - l
             p == (e - 1) \div ByteBits
             t == (e - 1) % ByteBits
  <2>1. e \in 1..k * ByteBits
    <3> HIDE DEF k, l
    <3> QED BY <1>3, <1>5, <1>9
  <2>2. p \in 0..k - 1 /\ BitsOf(r.data, k)[e] = r.data[p + 1][t + 1]
    <3> HIDE DEF k, e
    <3> QED BY <1>2, <1>5, <2>1, BitsAre
  <2>3. ~r.unread
    BY <1>2, <2>2
  <2>4. r.data[p + 1] = scan.data[q + p]
    <3>1. r.data = Rest(q) /\ Len(r.data) = N + 1 - q
      BY <2>3, MarkerMet DEF At
    <3>2. MarkerAt(r.data) <= Len(r.data) + 1 /\ MarkerAt(r.data) \in Nat
      BY <1>5, FirstMarker
    <3> HIDE DEF N, k, p
    <3>3. q \in 1..N + 1
      BY <1>1
    <3>4. p + 1 \in 1..N + 1 - q
      BY <1>1, <1>2, <2>2, <3>1, <3>2
    <3>5. Rest(q)[p + 1] = scan.data[q + (p + 1) - 1]
      BY <3>3, <3>4, RestIs DEF N
    <3>6. q + (p + 1) - 1 = q + p
      BY <1>1, <1>2, <2>2, <3>3
    <3> QED BY <3>1, <3>5, <3>6
  <2>5. x + b - 1 = c * ByteBits + (e - 1) /\ e - 1 \in Nat
    <3> DEFINE y == c * ByteBits
               w == k * ByteBits
    <3>1. b \in Nat /\ b = l + e
      <4> HIDE DEF l
      <4>1. l + w \in Nat /\ b \in 1..l + w
        BY <1>3, <1>5
      <4> HIDE DEF w
      <4> QED BY <1>5, <4>1
    <3>2. l = y - x /\ y \in Nat /\ w \in Nat /\ e \in 1..w
      BY <1>3, <1>4, <1>7, <2>1
    <3> HIDE DEF c, k, l, e, y, w
    <3>3. x + b - 1 = y + (e - 1) /\ e - 1 \in Nat
      BY ONLY x \in Nat, <3>1, <3>2
    <3> QED BY <3>3 DEF y
  <2>6. (x + b - 1) \div ByteBits = c + p /\ (x + b - 1) % ByteBits = t
    <3> DEFINE h == e - 1
    <3>1. h \in Nat /\ p = h \div ByteBits /\ t = h % ByteBits
      BY <2>5
    <3>2. x + b - 1 = c * ByteBits + h
      BY <2>5
    <3>4. c \in Nat /\ ByteBits \in Nat \ {0}
      BY <1>6, <1>7
    <3> HIDE DEF c, h, p, t
    <3>3. /\ (c * ByteBits + h) \div ByteBits = c + (h \div ByteBits)
          /\ (c * ByteBits + h) % ByteBits = h % ByteBits
      BY <3>1, <3>4, WholeBytes, Zenon
    <3>5. (x + b - 1) \div ByteBits = (c * ByteBits + h) \div ByteBits
      BY <3>2, Zenon
    <3>6. (x + b - 1) % ByteBits = (c * ByteBits + h) % ByteBits
      BY <3>2, Zenon
    <3> QED BY <3>1, <3>3, <3>5, <3>6, Zenon
  <2>7. scan.start[i] + (c + p) = q + p
    <3> DEFINE a == scan.start[i]
               z == Stop(i)
    <3>1. a \in Nat /\ z \in a..N + 1 /\ q \in a..z /\ N \in Nat
      BY AtIs, Zenon
    <3>2. k \in Nat /\ p \in 0..k - 1
      BY <1>2, <2>2
    <3> HIDE DEF a, z, k, p, N
    <3>3. a + ((q - a) + p) = q + p
      BY ONLY <3>1, <3>2
    <3> QED BY <3>3 DEF a
  <2>8. BitAt(i, x + b) = scan.data[q + p][t + 1]
    BY <2>6, <2>7 DEF BitAt
  <2> QED BY <2>2, <2>4, <2>8
<1> HIDE DEF k, l
<1>10. ASSUME NEW b \in 1..Len(Loaded(r)) PROVE Loaded(r)[b] = BitAt(i, x + b)
  <2>1. b \in Nat /\ b >= 1
    BY <1>3, <1>5
  <2>2. CASE b <= l
    <3>1. b \in 1..l
      BY <2>1, <2>2, <1>5
    <3> QED BY <1>3, <1>4, <2>2, <3>1
  <2>3. CASE ~(b <= l)
    BY <1>3, <1>5, <1>9, <2>1, <2>3
  <2> QED BY <2>2, <2>3
<1>11. Len(Loaded(r)) = ((q + Taken(r)) - scan.start[i]) * ByteBits - x
  BY <1>8 DEF k
<1>12. \A b \in 1..Len(Loaded(r)) : Loaded(r)[b] = BitAt(i, x + b)
  BY <1>10
<1> QED BY ONLY <1>11, <1>12 DEF Holds

LEMMA SkipIs ==
  ASSUME NEW r, TypedReader(r), NEW n \in Nat
  PROVE  /\ Skip(r, n) \in [buf : Seq(BitIn(scan)), data : Seq(ByteIn(scan)), unread : BOOLEAN]
         /\ TypedReader(Skip(r, n))
         /\ \A i, q : At(r, i, q) => At(Skip(r, n), i, q)
         /\ n <= Len(r.buf) =>
              \A i : scan.start[i] \in Nat => \A q \in Nat, x \in Nat :
                Holds(r.buf, i, x, q) => Holds(Skip(r, n).buf, i, x + n, q)
<1> DEFINE l == Len(r.buf)
           s == SubSeq(r.buf, n + 1, l)
<1>1. r.buf \in Seq(BitIn(scan)) /\ r.data \in Seq(ByteIn(scan)) /\ r.unread \in BOOLEAN
  BY DEF TypedReader
<1>2. Skip(r, n) = [buf |-> s, data |-> r.data, unread |-> r.unread]
  BY DEF Skip
<1>3. CASE n <= l
  <2>1. n + 1 \in 1..l + 1 /\ l \in Nat
    BY <1>1, <1>3
  <2>2. /\ s \in Seq(BitIn(scan)) /\ Len(s) = l + 1 - (n + 1)
        /\ \A b \in 1..l + 1 - (n + 1) : s[b] = r.buf[(n + 1) + b - 1]
    <3> DEFINE u == r.buf
    <3>1. u \in Seq(BitIn(scan)) /\ n + 1 \in 1..Len(u) + 1
      BY <1>1, <2>1
    <3> HIDE DEF u
    <3>2. /\ SubSeq(u, n + 1, Len(u)) \in Seq(BitIn(scan))
          /\ Len(SubSeq(u, n + 1, Len(u))) = Len(u) + 1 - (n + 1)
          /\ \A b \in 1..Len(u) + 1 - (n + 1) :
               SubSeq(u, n + 1, Len(u))[b] = u[(n + 1) + b - 1]
      BY ONLY <3>1, Suffix
    <3> QED BY <3>2, Zenon DEF u
  <2> HIDE DEF l, s
  <2>3. ASSUME NEW i, scan.start[i] \in Nat, NEW q \in Nat, NEW x \in Nat,
               Holds(r.buf, i, x, q)
        PROVE  Holds(s, i, x + n, q)
    <3> DEFINE y == (q - scan.start[i]) * ByteBits
    <3>1. l = y - x /\ \A b \in 1..l : r.buf[b] = BitAt(i, x + b)
      BY <2>3 DEF Holds, l
    <3>0. y \in Int
      BY <2>3, Constants
    <3> HIDE DEF y
    <3>2. Len(s) = l - n /\ l \in Nat
      BY <2>1, <2>2
    <3>3. ASSUME NEW b \in 1..Len(s) PROVE s[b] = BitAt(i, x + n + b)
      <4>1. b + n \in 1..l /\ (n + 1) + b - 1 = b + n /\ x + (b + n) = x + n + b
            /\ b \in 1..l + 1 - (n + 1)
        BY <3>2
      <4> QED BY <2>2, <3>1, <4>1
    <3>4. Len(s) = y - (x + n)
      BY <3>0, <3>1, <3>2
    <3> QED BY <3>3, <3>4 DEF Holds, y
  <2>4. s \in Seq(BitIn(scan))
    BY <2>2
  <2> QED BY <1>1, <1>2, <2>3, <2>4 DEF TypedReader, At, l
<1>4. CASE ~(n <= l)
  <2>1. s \in Seq(BitIn(scan))
    BY <1>1, <1>4
  <2> HIDE DEF s
  <2> QED BY <1>1, <1>2, <1>4, <2>1 DEF TypedReader, At, l
<1> QED BY <1>3, <1>4

(* While the interval has n bits more, f holds the same bits as r, and all  *)
(* of the n if it was short of them.                                        *)
Brings(r, q, f, p, short, n, i) ==
  \A x \in Nat :
    /\ Holds(r.buf, i, x, q)
    /\ n > 0 /\ n <= MinGet /\ x + n <= (Stop(i) - scan.start[i]) * ByteBits
    => /\ Holds(f.buf, i, x, p) /\ f.ok = TRUE
       /\ n <= Len(f.buf) \/ ~short

(* What a fill is asked for, c, is n or 0.                                  *)
LEMMA FillIfIs ==
  ASSUME scan \in Scans, NEW i, scan.start[i] \in 1..Len(scan.data) + 1,
         NEW r, TypedReader(r), NEW q, At(r, i, q),
         NEW n \in Nat, NEW c \in Nat, c <= n, NEW short \in BOOLEAN
  PROVE  \E p \in Nat : /\ At(FillIf(short, r, c), i, p)
                        /\ Brings(r, q, FillIf(short, r, c), p, short, n, i)
<1> DEFINE f == FillIf(short, r, c)
           y == (Stop(i) - scan.start[i]) * ByteBits
<1>1. /\ Len(scan.data) \in Nat /\ Stop(i) \in scan.start[i]..Len(scan.data) + 1
      /\ scan.start[i] \in 1..Len(scan.data) + 1 /\ q \in scan.start[i]..Stop(i)
  BY StopIs, ScanIs DEF At
<1>2. q \in Nat /\ MinGet \in Nat \ {0}
  BY <1>1, Constants
<1>3. CASE short
  <2> DEFINE p == q + Taken(r)
  <2>1. f = Fill(r, c)
    BY <1>3 DEF FillIf
  <2>2. p \in scan.start[i]..Stop(i) /\ p \in Nat
    BY <1>1, TakenIs
  <2>3. At(f, i, p) /\ (c <= Len(Loaded(r)) => f.buf = Loaded(r)) /\ (Len(Loaded(r)) > 0 => f.ok)
    BY <2>1, FillIs
  <2>4. Len(Loaded(r)) \in Nat /\ (Len(Loaded(r)) >= MinGet \/ p = Stop(i))
    BY LoadedIs
  <2>5. ASSUME NEW x \in Nat, Holds(r.buf, i, x, q), n > 0, n <= MinGet, x + n <= y
        PROVE  Holds(f.buf, i, x, p) /\ f.ok = TRUE /\ n <= Len(f.buf)
    <3>1. Holds(Loaded(r), i, x, p)
      BY <2>5, HoldsLoaded
    <3>2. Len(Loaded(r)) = (p - scan.start[i]) * ByteBits - x
      BY <3>1 DEF Holds
    <3>3. n <= Len(Loaded(r))
      <4>1. CASE Len(Loaded(r)) >= MinGet
        BY <1>2, <2>4, <2>5, <4>1
      <4>2. CASE p = Stop(i)
        <5>1. Len(Loaded(r)) = y - x
          BY <3>2, <4>2
        <5>2. y \in Int
          BY <1>1, Constants
        <5> HIDE DEF y
        <5> QED BY <2>5, <5>1, <5>2
      <4> QED BY <2>4, <4>1, <4>2
    <3>4. c <= Len(Loaded(r)) /\ Len(Loaded(r)) > 0
      BY <2>4, <2>5, <3>3
    <3>5. f.buf = Loaded(r) /\ f.ok
      BY <2>3, <3>4
    <3>6. f.ok \in BOOLEAN
      BY <2>1, FillType DEF ReaderOK
    <3> QED BY <3>1, <3>3, <3>5, <3>6
  <2>6. Brings(r, q, f, p, short, n, i)
    BY <2>5 DEF Brings
  <2> QED BY <2>2, <2>3, <2>6
<1>4. CASE ~short
  <2>1. f.buf = r.buf /\ f.data = r.data /\ f.unread = r.unread /\ f.ok = TRUE
    BY <1>4 DEF FillIf, Kept
  <2>2. At(f, i, q)
    BY <2>1 DEF At
  <2>3. Brings(r, q, f, q, short, n, i)
    BY <1>4, <2>1 DEF Brings
  <2> QED BY <1>2, <2>2, <2>3
<1> QED BY <1>3, <1>4

(* A read stays between the markers of the interval, and brings in what it  *)
(* asks for while the interval has it.                                      *)
LEMMA LoadCodeIs ==
  ASSUME scan \in Scans, NEW i, scan.start[i] \in 1..Len(scan.data) + 1,
         NEW r, TypedReader(r), NEW q, At(r, i, q), NEW n \in Nat
  PROVE  \E p \in Nat : /\ At(LoadCode(r, n), i, p)
                        /\ Brings(r, q, LoadCode(r, n), p, TRUE, n, i)
<1> DEFINE ahead == FillIf(Len(r.buf) < HuffLookahead, r, 0)
           more == FillIf(Len(ahead.buf) < n, ahead, n)
           ok == Len(more.buf) >= n \/ Len(ahead.buf) = HuffLookahead
           z == LoadCode(r, n)
           early == Len(r.buf) < HuffLookahead
           late == Len(ahead.buf) < n
<1>1. z = IF ~ahead.ok THEN ahead ELSE [more EXCEPT !.ok = ok]
  BY DEF LoadCode
<1>2. ahead = FillIf(early, r, 0) /\ more = FillIf(late, ahead, n)
  OBVIOUS
<1>3. early \in BOOLEAN /\ late \in BOOLEAN
  OBVIOUS
<1>4. late <=> Len(ahead.buf) < n
  OBVIOUS
<1> HIDE DEF early, late, ahead, more, z
<1>5. PICK p \in Nat : At(ahead, i, p) /\ Brings(r, q, ahead, p, early, n, i)
  <2>1. 0 \in Nat /\ 0 <= n
    OBVIOUS
  <2> QED BY <1>2, <1>3, <2>1, FillIfIs, ZenonT(60)
<1>6. ahead \in ReaderOK /\ TypedReader(ahead) /\ Len(ahead.buf) \in Nat
  BY <1>2, <1>3, FillIfType, ReaderOKIs
<1>7. PICK u \in Nat : At(more, i, u) /\ Brings(ahead, p, more, u, late, n, i)
  <2>1. n <= n
    OBVIOUS
  <2>2. TypedReader(ahead) /\ At(ahead, i, p)
    BY <1>5, <1>6
  <2> QED BY <1>2, <1>3, <2>1, <2>2, FillIfIs, ZenonT(60)
<1>8. more \in ReaderOK /\ Len(more.buf) \in Nat
  BY <1>2, <1>3, <1>6, FillIfType, ReaderOKIs
<1>9. ~late => more.buf = ahead.buf
  BY <1>2 DEF FillIf, Kept
<1>10. CASE ~ahead.ok
  <2>1. z = ahead
    BY <1>1, <1>10
  <2>2. Brings(r, q, z, p, TRUE, n, i)
    BY <1>5, <1>10, <2>1 DEF Brings
  <2> QED BY <1>5, <2>1, <2>2 DEF z
<1>11. CASE ahead.ok
  <2>1. z = [more EXCEPT !.ok = ok]
    BY <1>1, <1>11
  <2>2. ok \in BOOLEAN
    OBVIOUS
  <2>3. z.buf = more.buf /\ z.data = more.data /\ z.unread = more.unread /\ z.ok = ok
    <3> HIDE DEF ok
    <3> QED BY <1>8, <2>1, <2>2 DEF ReaderOK
  <2>4. At(z, i, u)
    BY <1>7, <2>3 DEF At
  <2>5. ASSUME NEW x \in Nat, Holds(r.buf, i, x, q), n > 0, n <= MinGet,
               x + n <= (Stop(i) - scan.start[i]) * ByteBits
        PROVE  Holds(z.buf, i, x, u) /\ z.ok = TRUE /\ n <= Len(z.buf)
    <3>1. Holds(ahead.buf, i, x, p)
      BY <1>5, <2>5 DEF Brings
    <3>2. Holds(more.buf, i, x, u) /\ (n <= Len(more.buf) \/ ~late)
      BY <1>7, <2>5, <3>1 DEF Brings
    <3>3. n <= Len(more.buf)
      BY <1>4, <1>6, <1>8, <1>9, <3>2
    <3>4. ok = TRUE
      BY <1>8, <3>3
    <3> QED BY <2>3, <3>2, <3>3, <3>4
  <2>6. Brings(r, q, z, u, TRUE, n, i)
    BY <2>5 DEF Brings
  <2> QED BY <2>4, <2>6 DEF z
<1> QED BY <1>10, <1>11

LEMMA LoadIs ==
  ASSUME scan \in Scans, NEW i, scan.start[i] \in 1..Len(scan.data) + 1,
         NEW r, TypedReader(r), NEW q, At(r, i, q), NEW n \in Nat, NEW isCode \in BOOLEAN
  PROVE  \E p \in Nat : /\ At(Load(r, n, isCode), i, p)
                        /\ Brings(r, q, Load(r, n, isCode), p, TRUE, n, i)
<1> DEFINE z == Load(r, n, isCode)
<1>1. CASE isCode
  <2>1. z = LoadCode(r, n)
    BY <1>1 DEF Load
  <2> HIDE DEF z
  <2>2. PICK p \in Nat : At(z, i, p) /\ Brings(r, q, z, p, TRUE, n, i)
    BY <2>1, LoadCodeIs
  <2> QED BY <1>1, <2>2 DEF z
<1>2. CASE ~isCode
  <2> DEFINE short == Len(r.buf) < n
  <2>1. z = FillIf(short, r, n) /\ short \in BOOLEAN
    BY <1>2 DEF Load
  <2>2. Len(r.buf) \in Nat /\ (short <=> Len(r.buf) < n)
    BY DEF TypedReader
  <2> HIDE DEF short, z
  <2>3. CASE short
    <3>2. PICK p \in Nat : At(z, i, p) /\ Brings(r, q, z, p, short, n, i)
      <4>1. n <= n
        OBVIOUS
      <4> QED BY <2>1, <4>1, FillIfIs
    <3>3. Brings(r, q, z, p, TRUE, n, i)
      BY <2>3, <3>2 DEF Brings
    <3> QED BY <3>2, <3>3 DEF z
  <2>4. CASE ~short
    <3>1. z.buf = r.buf /\ z.data = r.data /\ z.unread = r.unread /\ z.ok = TRUE
      BY <2>1, <2>4 DEF FillIf, Kept
    <3>2. n <= Len(r.buf)
      BY <2>2, <2>4
    <3>3. q \in Nat
      <4>1. /\ Len(scan.data) \in Nat /\ Stop(i) \in scan.start[i]..Len(scan.data) + 1
            /\ scan.start[i] \in 1..Len(scan.data) + 1 /\ q \in scan.start[i]..Stop(i)
        BY StopIs, ScanIs DEF At
      <4> QED BY <4>1
    <3>4. At(z, i, q)
      BY <3>1 DEF At
    <3>5. Brings(r, q, z, q, TRUE, n, i)
      BY <3>1, <3>2 DEF Brings
    <3> QED BY <3>3, <3>4, <3>5 DEF z
  <2> QED BY <2>1, <2>3, <2>4
<1> QED BY <1>1, <1>2

(* Extra bits may be none.                                                  *)
LEMMA LoadNone ==
  ASSUME NEW r, TypedReader(r)
  PROVE  /\ Load(r, 0, FALSE).ok = TRUE /\ Load(r, 0, FALSE).buf = r.buf
         /\ Load(r, 0, FALSE).data = r.data /\ Load(r, 0, FALSE).unread = r.unread
<1>1. ~(Len(r.buf) < 0)
  BY DEF TypedReader
<1> QED BY <1>1 DEF Load, FillIf, Kept

-----------------------------------------------------------------------------
(* The bits of the MCUs.                                                    *)
LEMMA IntervalIs ==
  ASSUME scan \in Scans, NEW m \in DOMAIN scan.code
  PROVE  /\ m \in Nat \ {0} /\ m <= Len(scan.code) /\ Len(scan.code) \in Nat
         /\ Interval(m) \in Nat \ {0} /\ Interval(m) \in DOMAIN scan.start
         /\ Sound(Interval(m)) => Reached(Interval(m))
<1> DEFINE n == scan.interval
           l == Len(scan.code)
<1>1. /\ n \in Nat /\ scan.code # <<>> /\ m \in 1..l /\ l \in Nat
      /\ scan.start \in Seq(Nat) /\ Len(scan.start) = Interval(l)
  <2>1. /\ n \in Nat /\ scan.start \in Seq(Nat) /\ scan.code \in Seq(Seq(Nat))
        /\ scan.code # <<>> => Len(scan.start) = Interval(l)
    BY ScanIs, Zenon
  <2>2. m \in 1..l /\ l \in Nat /\ scan.code # <<>>
    BY <2>1
  <2> QED BY <2>1, <2>2, Zenon
<1>2. Interval(m) \in Nat \ {0} /\ Interval(m) <= Interval(l) /\ Interval(l) \in Nat
  <2>1. CASE n = 0
    BY <2>1 DEF Interval, IntervalIn
  <2>2. CASE n # 0
    <3> DEFINE a == (m - 1) \div n
               b == (l - 1) \div n
               c == (m - 1) % n
               d == (l - 1) % n
    <3>1. Interval(m) = a + 1 /\ Interval(l) = b + 1
      BY <2>2 DEF Interval, IntervalIn
    <3>2. /\ a \in Nat /\ c \in Nat /\ c < n /\ m - 1 = a * n + c
          /\ b \in Nat /\ d \in Nat /\ d < n /\ l - 1 = b * n + d
      <4>1. m - 1 \in Nat /\ l - 1 \in Nat /\ n \in Nat \ {0}
        BY <1>1, <2>2
      <4> HIDE DEF n, l
      <4> QED BY <4>1, DivisionIs
    <3> HIDE DEF a, b, c, d, n, l
    <3>3. ~(a > b)
      <4>1. SUFFICES ASSUME b < a PROVE FALSE
        BY <3>2
      <4>2. (b + 1) * n <= a * n /\ a * n \in Nat
        BY <1>1, <3>2, <4>1, ProductMonotone
      <4>3. (b + 1) * n = b * n + n /\ b * n \in Nat
        BY <1>1, <3>2
      <4> DEFINE y == a * n
                 z == b * n
      <4>4. /\ y \in Nat /\ z \in Nat /\ z + n <= y
            /\ m - 1 = y + c /\ l - 1 = z + d
        BY <3>2, <4>2, <4>3
      <4>5. n \in Nat /\ l \in Nat /\ m \in 1..l
        BY <1>1
      <4> HIDE DEF y, z
      <4>6. c \in Nat /\ d \in Nat /\ d < n
        BY <3>2
      <4> QED BY ONLY <4>4, <4>5, <4>6
    <3>4. a <= b /\ a + 1 \in Nat \ {0} /\ b + 1 \in Nat
      BY <3>2, <3>3
    <3> QED BY <3>1, <3>2, <3>4 DEF l
  <2> QED BY <2>1, <2>2
<1>3. Interval(m) \in DOMAIN scan.start
  <2>1. DOMAIN scan.start = 1..Len(scan.start)
    BY <1>1
  <2> QED BY <1>1, <1>2, <2>1
<1>4. Sound(Interval(m)) => Reached(Interval(m))
  BY <1>2, <1>3 DEF Reached
<1> QED BY <1>1, <1>2, <1>3, <1>4

LEMMA OffsetIs ==
  ASSUME scan \in Scans, NEW m \in DOMAIN scan.code
  PROVE  /\ scan.code[m] \in Seq(Nat) /\ Len(scan.code[m]) \in Nat \ {0}
         /\ \A k \in 1..Len(scan.code[m]) + 1 : scan.offset[m][k] \in Nat
         /\ \A k \in 1..Len(scan.code[m]) :
              /\ scan.code[m][k] \in Nat /\ scan.code[m][k] <= MinGet
              /\ k % 2 = 1 => scan.code[m][k] > 0
              /\ scan.offset[m][k + 1] = scan.offset[m][k] + scan.code[m][k]
         /\ IsFirst(m) => scan.offset[m][1] = 0
         /\ ~IsFirst(m) => /\ m - 1 \in DOMAIN scan.code
                           /\ scan.offset[m][1] =
                                scan.offset[m - 1][Len(scan.code[m - 1]) + 1]
<1>1. /\ scan.code \in Seq(Seq(Nat)) /\ scan.offset \in Seq(Seq(Nat))
      /\ Len(scan.offset) = Len(scan.code) /\ m \in 1..Len(scan.code)
      /\ scan.interval \in Nat
  BY ScanIs
<1>2. scan.code[m] \in Seq(Nat) /\ scan.offset[m] \in Seq(Nat)
  BY <1>1
<1>3. /\ scan.code[m] # <<>>
      /\ \A k \in DOMAIN scan.code[m] :
           scan.code[m][k] <= MinGet /\ (k % 2 = 1 => scan.code[m][k] > 0)
  BY ScanIs DEF ReadsFit
<1>4. /\ Len(scan.offset[m]) = Len(scan.code[m]) + 1
      /\ scan.offset[m][1] = IF FirstIn(scan, m) THEN 0
                             ELSE scan.offset[m - 1][Len(scan.code[m - 1]) + 1]
      /\ \A k \in DOMAIN scan.code[m] :
           scan.offset[m][k + 1] = scan.offset[m][k] + scan.code[m][k]
  BY ScanIs DEF Offsets
<1>5. Len(scan.code[m]) \in Nat \ {0} /\ DOMAIN scan.code[m] = 1..Len(scan.code[m])
  BY <1>2, <1>3
<1>6. \A k \in 1..Len(scan.code[m]) + 1 : scan.offset[m][k] \in Nat
  <2> DEFINE o == scan.offset[m]
  <2>1. o \in Seq(Nat) /\ Len(o) = Len(scan.code[m]) + 1
    BY <1>2, <1>4
  <2> HIDE DEF o
  <2>2. \A k \in 1..Len(o) : o[k] \in Nat
    BY ONLY <2>1
  <2> QED BY <2>1, <2>2 DEF o
<1>7. \A k \in 1..Len(scan.code[m]) : scan.code[m][k] \in Nat
  BY <1>2
<1>8. ~IsFirst(m) => m - 1 \in DOMAIN scan.code
  <2>1. m = 1 => FirstIn(scan, m)
    <3>1. SUFFICES ASSUME scan.interval # 0, m = 1 PROVE (m - 1) % scan.interval = 0
      BY DEF FirstIn
    <3>2. scan.interval \in Nat \ {0} /\ m - 1 = 0
      BY <1>1, <3>1
    <3> QED BY <3>2
  <2>2. m # 1 => m - 1 \in 1..Len(scan.code)
    BY <1>1
  <2> QED BY <1>1, <2>1, <2>2 DEF IsFirst
<1> QED BY <1>2, <1>3, <1>4, <1>5, <1>6, <1>7, <1>8 DEF IsFirst

(* A sound interval has the bits of a read of its MCU.                      *)
LEMMA EncodedBits ==
  ASSUME scan \in Scans, NEW m \in DOMAIN scan.code, Sound(Interval(m)),
         NEW k \in 1..Len(scan.code[m]), NEW b \in 1..scan.code[m][k]
  PROVE  /\ BitAt(Interval(m), scan.offset[m][k] + b) = <<m, k, b>>
         /\ scan.offset[m][k] + b
              <= (Stop(Interval(m)) - scan.start[Interval(m)]) * ByteBits
<1> DEFINE i == Interval(m)
           first == scan.start[i]
           x == scan.offset[m][k]
           bit == x + b - 1
           d == bit \div ByteBits
           t == bit % ByteBits
           byte == first + d
           stop == Stop(i)
           N == Len(scan.data)
<1>1. ByteBits \in Nat \ {0} /\ x \in Nat /\ scan.code[m][k] \in Nat
  BY Constants, OffsetIs
<1>2. b \in Nat \ {0}
  BY <1>1
<1>3. k \in DOMAIN scan.code[m]
  BY OffsetIs
<1>4. /\ byte \in DOMAIN scan.data /\ \A p \in first..byte : scan.data[p] # Marker
      /\ scan.data[byte][t + 1] = <<m, k, b>>
  BY <1>3, ScanIs DEF Encoded, Sound, Interval
<1>5. BitAt(i, x + b) = <<m, k, b>>
  <2>1. x + b - 1 = bit /\ (x + b) - 1 = bit
    BY <1>1, <1>2
  <2>2. BitAt(i, x + b) = scan.data[byte][t + 1]
    BY <2>1 DEF BitAt
  <2> QED BY <1>4, <2>2
<1>6. /\ first \in 1..N + 1 /\ N \in Nat /\ stop \in first..N + 1
      /\ stop <= N => scan.data[stop] = Marker
  <2>1. Reached(i) /\ i \in Nat \ {0}
    BY IntervalIs
  <2>2. first \in 1..N + 1
    BY <2>1, StartIs
  <2>3. N \in Nat
    BY ScanIs
  <2> HIDE DEF i
  <2>4. scan.start[i] \in 1..Len(scan.data) + 1
    BY <2>2
  <2>5. /\ Stop(i) \in scan.start[i]..Len(scan.data) + 1
        /\ Stop(i) <= Len(scan.data) => scan.data[Stop(i)] = Marker
    BY <2>4, StopIs, Zenon
  <2> QED BY <2>2, <2>3, <2>5
<1>7. byte \in 1..N
  <2>1. DOMAIN scan.data = 1..N
    BY ScanIs
  <2> QED BY <1>4, <2>1, Zenon
<1>8. bit \in Nat /\ d \in Nat /\ t \in Nat /\ t < ByteBits /\ bit = d * ByteBits + t
  <2>1. bit \in Nat
    BY <1>1, <1>2
  <2> HIDE DEF bit
  <2> QED BY <1>1, <2>1, DivisionIs, Zenon
<1>9. x + b <= (stop - first) * ByteBits
  <2> HIDE DEF i, first, d, t, stop, N
  <2>1. ~(stop <= byte)
    BY <1>4, <1>6, <1>7, <1>8
  <2>2. d + 1 <= stop - first /\ stop - first \in Nat
    BY <1>6, <1>8, <2>1
  <2> DEFINE e == stop - first
  <2>0. d + 1 \in Nat /\ e \in Nat /\ d + 1 <= e /\ ByteBits \in Nat
    BY <1>1, <1>8, <2>2
  <2> HIDE DEF e
  <2>3. (d + 1) * ByteBits <= e * ByteBits /\ e * ByteBits \in Nat
    BY ONLY <2>0, ProductMonotone
  <2>4. (d + 1) * ByteBits = d * ByteBits + ByteBits /\ d * ByteBits \in Nat
    BY <1>1, <1>8
  <2> DEFINE y == d * ByteBits
             z == e * ByteBits
  <2>5. /\ y \in Nat /\ z \in Nat /\ y + ByteBits <= z
        /\ bit = y + t /\ t \in Nat /\ t < ByteBits
    BY <1>8, <2>3, <2>4
  <2>6. x \in Nat /\ b \in Nat /\ ByteBits \in Nat /\ bit = x + b - 1
    BY <1>1, <1>2
  <2> HIDE DEF x, bit, y, z
  <2>7. x + b <= z
    BY ONLY <2>5, <2>6
  <2> QED BY <2>7 DEF e, z
<1> QED BY <1>5, <1>9

(* In front of an MCU of a sound interval, the MCU is what comes next.      *)
LEMMA UpcomingIs ==
  ASSUME scan \in Scans, NEW m \in DOMAIN scan.code, Sound(Interval(m)),
         NEW r, TypedReader(r), NEW q, At(r, Interval(m), q),
         Holds(r.buf, Interval(m), scan.offset[m][1], q)
  PROVE  Upcoming(r) = m
<1> DEFINE i == Interval(m)
           x == scan.offset[m][1]
           z == LoadCode(r, 1)
<1>1. Reached(i) /\ i \in Nat \ {0} /\ scan.start[i] \in 1..Len(scan.data) + 1
  BY IntervalIs, StartIs
<1>2. PICK p \in Nat : At(z, i, p) /\ Brings(r, q, z, p, TRUE, 1, i)
  <2>1. 1 \in Nat
    OBVIOUS
  <2> QED BY <1>1, <2>1, LoadCodeIs
<1>3. /\ 1 \in 1..Len(scan.code[m]) /\ x \in Nat /\ 1 \in 1..scan.code[m][1]
  <2>1. Len(scan.code[m]) \in Nat \ {0}
    BY OffsetIs
  <2>2. 1 \in 1..Len(scan.code[m]) /\ 1 \in 1..Len(scan.code[m]) + 1 /\ 1 % 2 = 1
    BY <2>1
  <2>3. scan.code[m][1] \in Nat /\ scan.code[m][1] > 0 /\ x \in Nat
    BY <2>2, OffsetIs
  <2> QED BY <2>2, <2>3
<1>4. /\ BitAt(i, x + 1) = <<m, 1, 1>>
      /\ x + 1 <= (Stop(i) - scan.start[i]) * ByteBits
  BY <1>3, EncodedBits
<1>5. 1 <= MinGet /\ 1 > 0
  BY Constants
<1> HIDE DEF z
<1>6. Holds(z.buf, i, x, p) /\ 1 <= Len(z.buf)
  BY <1>2, <1>3, <1>4, <1>5 DEF Brings
<1>7. z.buf \in Seq(BitIn(scan))
  <2>1. z \in ReaderOK
    BY LoadCodeType DEF z
  <2> QED BY <2>1 DEF ReaderOK
<1>8. z.buf[1] = <<m, 1, 1>>
  BY <1>4, <1>6, <1>7 DEF Holds
<1>9. z.buf # <<>>
  BY <1>6, <1>7
<1> QED BY <1>8, <1>9 DEF Upcoming, z

LEMMA UpcomingType ==
  ASSUME NEW r, TypedReader(r)
  PROVE  Upcoming(r) \in (DOMAIN scan.code) \cup {Wrong}
<1> DEFINE z == LoadCode(r, 1)
<1>1. z \in ReaderOK
  BY LoadCodeType
<1> HIDE DEF z
<1>2. z.buf \in Seq(BitIn(scan))
  BY <1>1 DEF ReaderOK
<1>3. ASSUME z.buf # <<>>, z.buf[1][2] = 1, z.buf[1][3] = 1
      PROVE  z.buf[1][1] \in DOMAIN scan.code
  <2>1. z.buf[1] \in BitIn(scan)
    BY <1>2, <1>3
  <2>2. z.buf[1] # Zero
    BY <1>3 DEF Zero
  <2>3. z.buf[1] \in (DOMAIN scan.code) \X Nat \X Nat
    BY <2>1, <2>2 DEF BitIn
  <2> QED BY <2>3
<1> QED BY <1>3 DEF Upcoming, z

-----------------------------------------------------------------------------
(* Restart intervals.                                                       *)
LEMMA CurrentIs ==
  ASSUME scan.interval \in Nat \ {0}, Begun \in Nat
  PROVE  /\ Current \in Nat \ {0}
         /\ (Current - 1) * scan.interval <= Begun /\ Begun <= Current * scan.interval
         /\ Begun > 0 => Begun > (Current - 1) * scan.interval
         /\ (Current - 1) * scan.interval \in Nat
         /\ Current * scan.interval = (Current - 1) * scan.interval + scan.interval
<1> DEFINE n == scan.interval
           c == Current
<1>1. CASE Begun = 0
  <2>1. c = 1
    BY <1>1 DEF Current
  <2> HIDE DEF c
  <2> QED BY <1>1, <2>1 DEF c
<1>2. CASE Begun # 0
  <2> DEFINE b == Begun
             d == (b - 1) \div n
             t == (b - 1) % n
  <2>1. c = d + 1
    BY <1>2 DEF Current, Interval, IntervalIn
  <2>2. d \in Nat /\ t \in Nat /\ t < n /\ b - 1 = d * n + t /\ b \in Nat
    <3>1. b \in Nat \ {0}
      BY <1>2
    <3> DEFINE e == b - 1
    <3>2. e \in Nat
      BY <3>1
    <3> HIDE DEF e
    <3>3. e \div n \in Nat /\ e % n \in Nat /\ e % n < n /\ e = (e \div n) * n + (e % n)
      BY <3>2, DivisionIs
    <3> QED BY <3>1, <3>3 DEF e
  <2> HIDE DEF b, c, d, t, n
  <2>3. c \in Nat \ {0} /\ c - 1 = d
    BY <2>1, <2>2
  <2>4. n \in Nat \ {0}
    BY DEF n
  <2>5. (d + 1) * n = d * n + n /\ d * n \in Nat
    BY <2>2, <2>4
  <2>6. (c - 1) * n = d * n /\ c * n = d * n + n
    BY <2>1, <2>3, <2>5
  <2>7. d * n < b /\ b <= d * n + n
    BY <2>2, <2>4, <2>5
  <2> QED BY <2>2, <2>3, <2>5, <2>6, <2>7 DEF b, c, n
<1> QED BY <1>1, <1>2

(* The next MCU belongs to the current interval until restartsToGo is 0.    *)
LEMMA NextInterval ==
  ASSUME scan \in Scans, Begun \in Nat, toGo \in Nat, Counted
  PROVE  /\ ~Restarting => /\ Interval(Begun + 1) = Current
                           /\ IsFirst(Begun + 1) <=> Begun = 0
         /\ Restarting => /\ Interval(Begun + 1) = Current + 1
                          /\ IsFirst(Begun + 1) /\ Begun # 0
                          /\ scan.interval \in Nat \ {0} /\ Current \in Nat \ {0}
         /\ scan.interval # 0 => toGo = Current * scan.interval - Begun
<1> DEFINE n == scan.interval
           c == Current
           b == Begun
<1>1. n \in Nat
  BY ScanIs
<1>2. CASE n = 0
  <2>1. ~Restarting /\ Interval(Begun + 1) = 1 /\ Current = 1
    BY <1>2 DEF Restarting, Interval, IntervalIn, Current
  <2>2. IsFirst(Begun + 1) <=> Begun = 0
    BY <1>2 DEF IsFirst, FirstIn
  <2> QED BY <1>2, <2>1, <2>2
<1>3. CASE n # 0
  <2>1. /\ c \in Nat \ {0}
        /\ (c - 1) * n <= b /\ b <= c * n
        /\ b > 0 => b > (c - 1) * n
        /\ (c - 1) * n \in Nat /\ c * n = (c - 1) * n + n
    BY <1>1, <1>3, CurrentIs
  <2>2. /\ toGo = c * n - b
        /\ Interval(b + 1) = ((b + 1) - 1) \div n + 1
        /\ IsFirst(b + 1) <=> ((b + 1) - 1) % n = 0
        /\ Restarting <=> toGo = 0
    BY <1>3 DEF Counted, Interval, IntervalIn, IsFirst, FirstIn, Restarting
  <2> DEFINE a == (c - 1) * n
             e == c * n
  <2>3. b \in Nat /\ (b + 1) - 1 = b
    OBVIOUS
  <2> HIDE DEF b, c, n
  <2>4. c - 1 \in Nat /\ n \in Nat \ {0} /\ a \in Nat /\ e = a + n
    BY <1>1, <1>3, <2>1
  <2>5. CASE toGo = 0
    <3>1. b = e
      <4>1. toGo = e - b
        BY <2>2
      <4> HIDE DEF e, a
      <4> QED BY <2>3, <2>4, <2>5, <4>1
    <3>2. c * n <= b /\ b < c * n + n
      <4>1. e <= b /\ b < e + n
        <5> HIDE DEF e
        <5> QED BY <2>3, <2>4, <3>1
      <4> QED BY <4>1
    <3>3. b \div n = c /\ b % n = 0
      BY <2>1, <2>3, <2>4, <3>1, <3>2, QuotientIs
    <3>4. b # 0
      <4> HIDE DEF e, a
      <4> QED BY <2>3, <2>4, <3>1
    <3> QED BY <1>3, <2>1, <2>2, <2>3, <2>4, <2>5, <3>3, <3>4 DEF b, c, n
  <2>6. CASE toGo # 0
    <3>1. a <= b /\ b < a + n /\ (b = a <=> b = 0)
      <4>1. e - b > 0
        BY <2>2, <2>6
      <4>2. a <= b /\ (b > 0 => b > a)
        BY <2>1
      <4> HIDE DEF e, a
      <4> QED BY <2>3, <2>4, <4>1, <4>2
    <3>2. b \div n = c - 1 /\ (b % n = 0 <=> b = (c - 1) * n)
      BY <2>3, <2>4, <3>1, QuotientIs
    <3>3. b \div n + 1 = c
      <4>1. (c - 1) + 1 = c
        BY <2>1
      <4> QED BY <3>2, <4>1
    <3>4. b % n = 0 <=> b = 0
      BY <3>1, <3>2
    <3> QED BY <1>3, <2>2, <2>3, <2>6, <3>3, <3>4 DEF b, c, n
  <2> QED BY <2>5, <2>6
<1> QED BY <1>2, <1>3

-----------------------------------------------------------------------------
(* Steps.                                                                   *)
LEMMA SameScan ==
  ASSUME scan' = scan
  PROVE  /\ \A r, i, q : At(r, i, q)' <=> At(r, i, q)
         /\ \A buf, i, x, q : Holds(buf, i, x, q)' <=> Holds(buf, i, x, q)
         /\ \A m : /\ Interval(m)' = Interval(m) /\ Left(m)' = Left(m)
                   /\ IsFirst(m)' <=> IsFirst(m)
         /\ \A i : (Sound(i)' <=> Sound(i)) /\ (Reached(i)' <=> Reached(i))
<1>1. ASSUME NEW r, NEW i, NEW q PROVE At(r, i, q)' <=> At(r, i, q)
  BY DEF At, Stop, Rest
<1>2. ASSUME NEW buf, NEW i, NEW x, NEW q
      PROVE  Holds(buf, i, x, q)' <=> Holds(buf, i, x, q)
  BY DEF Holds, BitAt
<1>3. ASSUME NEW m
      PROVE  /\ Interval(m)' = Interval(m) /\ Left(m)' = Left(m)
             /\ IsFirst(m)' <=> IsFirst(m)
  BY DEF Interval, Left, IsFirst
<1>4. ASSUME NEW i PROVE (Sound(i)' <=> Sound(i)) /\ (Reached(i)' <=> Reached(i))
  BY DEF Sound, Reached
<1> QED BY <1>1, <1>2, <1>3, <1>4, Zenon

LEMMA TypesIs ==
  ASSUME TypeOK
  PROVE  /\ scan \in Scans /\ TypedReader(reader) /\ Begun \in Nat /\ Len(got) \in Nat
         /\ busy => Begun = Len(got) + 1 /\ Begun \in DOMAIN scan.code
         /\ ~busy => Begun = Len(got)
         /\ Len(got) < Len(scan.code) => Len(got) + 1 \in DOMAIN scan.code
         /\ \A m \in DOMAIN got : m \in Nat /\ m >= 1 /\ m <= Len(got)
         /\ scan.interval \in Nat /\ Begun <= Len(scan.code) /\ Len(scan.code) \in Nat
<1>1. /\ scan \in Scans /\ got \in Seq(Nat) /\ busy \in BOOLEAN /\ Begun <= Len(scan.code)
      /\ reader \in [buf : Seq(BitIn(scan)), data : Seq(ByteIn(scan)), unread : BOOLEAN]
  BY DEF TypeOK
<1>2. TypedReader(reader)
  BY <1>1 DEF TypedReader
<1>3. Len(got) \in Nat /\ DOMAIN got = 1..Len(got)
  BY <1>1
<1>4. /\ Begun \in Nat /\ (busy => Begun = Len(got) + 1) /\ (~busy => Begun = Len(got))
  <2>1. CASE busy
    <3>1. Begun = Len(got) + 1
      BY <2>1 DEF Begun
    <3> QED BY <1>3, <2>1, <3>1
  <2>2. CASE ~busy
    <3>1. Begun = Len(got)
      BY <1>3, <2>2 DEF Begun
    <3> QED BY <1>3, <2>2, <3>1, Zenon
  <2> QED BY <2>1, <2>2
<1>5. scan.interval \in Nat /\ DOMAIN scan.code = 1..Len(scan.code) /\ Len(scan.code) \in Nat
  BY <1>1, ScanIs
<1>6. busy => Begun \in DOMAIN scan.code
  BY <1>1, <1>3, <1>4, <1>5
<1>7. Len(got) < Len(scan.code) => Len(got) + 1 \in DOMAIN scan.code
  BY <1>3, <1>5
<1> QED BY <1>1, <1>2, <1>3, <1>4, <1>5, <1>6, <1>7

(* While an MCU is read its interval is the current one, and so it stays.   *)
LEMMA CurrentOfBusy ==
  ASSUME TypeOK, busy
  PROVE  /\ Current = Interval(Begun) /\ Begun = Len(got) + 1 /\ Begun \in DOMAIN scan.code
         /\ Current \in Nat \ {0} /\ (Sound(Current) => Reached(Current))
<1>1. scan \in Scans /\ Begun = Len(got) + 1 /\ Begun \in DOMAIN scan.code
  BY TypesIs
<1>2. Begun \in Nat \ {0} /\ Interval(Begun) \in Nat \ {0}
      /\ (Sound(Interval(Begun)) => Reached(Interval(Begun)))
  BY <1>1, IntervalIs
<1>3. Current = Interval(Begun)
  BY <1>2 DEF Current
<1> QED BY <1>1, <1>2, <1>3

(* What the two ways of starting an MCU have in common.                     *)
LEMMA Began ==
  ASSUME TypeOK, DamageContained, ~busy, Len(got) < Len(scan.code),
         NEW r \in [buf : Seq(BitIn(scan)), data : Seq(ByteIn(scan)), unread : BOOLEAN],
         Begin(r), perm' \in Seq(BitIn(scan)), toGo' \in Nat,
         NEW m, m = Begun + 1, NEW i, Interval(m) = i,
         Reached(i) => \E q \in Nat : At(r, i, q),
         Sound(i) => /\ pred' = Left(m)
                     /\ \E q \in Nat : /\ At(r, i, q)
                                       /\ Holds(r.buf, i, scan.offset[m][1], q)
  PROVE  /\ TypeOK' /\ Begun' = m /\ Current' = i /\ scan' = scan
         /\ Anchored' /\ InMCU' /\ Between' /\ DamageContained'
<1>1. /\ reader' = r /\ seen' = Upcoming(r) /\ busy' = TRUE /\ reads' = 0
      /\ scan' = scan /\ got' = got
  BY DEF Begin
<1>2. /\ scan \in Scans /\ Begun \in Nat /\ Begun = Len(got) /\ m \in DOMAIN scan.code
      /\ Len(got) \in Nat /\ Len(scan.code) \in Nat
  BY TypesIs
<1>3. TypedReader(r)
  BY DEF TypedReader
<1>4. Begun' = m
  BY <1>1, <1>2 DEF Begun
<1>5. m # 0 /\ m <= Len(scan.code)
  BY <1>2
<1>6. Interval(m)' = Interval(m) /\ Interval(m) = i
  BY <1>1 DEF Interval
<1>7. Current' = i
  <2>1. Current' = Interval(m)'
    <3>1. Current' = IF Begun' = 0 THEN 1 ELSE Interval(Begun)'
      BY DEF Current
    <3>2. Interval(Begun)' = Interval(m)'
      BY <1>4 DEF Interval
    <3> QED BY <1>4, <1>5, <3>1, <3>2
  <2> QED BY <1>6, <2>1
<1>8. TypeOK'
  <2>1. seen' \in (DOMAIN scan.code) \cup {Wrong}
    BY <1>1, <1>3, UpcomingType
  <2>2. seen' # Wrong => 0 < Len(scan.code[seen'])
    BY <1>2, <2>1, OffsetIs
  <2>3. got \in Seq(Nat)
    BY DEF TypeOK
  <2> QED BY <1>1, <1>2, <1>4, <1>5, <2>1, <2>2, <2>3 DEF TypeOK
<1>9. Anchored'
  <2>1. ASSUME Reached(i) PROVE \E q \in Nat : At(reader, Current, q)'
    <3>1. PICK q \in Nat : At(r, i, q)
      BY <2>1
    <3>2. At(reader, Current, q)'
      BY <1>1, <1>7, <3>1 DEF At, Stop, Rest
    <3> QED BY <3>2
  <2>2. Reached(Current)' => Reached(i)
    BY <1>1, <1>7 DEF Reached, Sound
  <2> QED BY <2>1, <2>2 DEF Anchored
<1>10. InMCU'
  <2>1. Sound(Current)' => Sound(i)
    BY <1>1, <1>7 DEF Sound
  <2>2. ASSUME Sound(i)
        PROVE  /\ seen' = m /\ pred' = Left(m)
               /\ \E q \in Nat : /\ At(reader, Current, q)'
                                 /\ Holds(r.buf, i, scan.offset[m][1], q)
    <3>1. PICK q \in Nat : At(r, i, q) /\ Holds(r.buf, i, scan.offset[m][1], q)
      BY <2>2
    <3>2. seen' = m
      BY <1>1, <1>2, <1>3, <1>6, <2>2, <3>1, UpcomingIs
    <3>3. At(reader, Current, q)'
      BY <1>1, <1>7, <3>1 DEF At, Stop, Rest
    <3>4. pred' = Left(m)
      BY <2>2
    <3> QED BY <3>1, <3>2, <3>3, <3>4
  <2>3. ASSUME NEW q \in Nat, Holds(r.buf, i, scan.offset[m][1], q), seen' = m
        PROVE  Holds(reader.buf, Current, scan.offset[seen][reads + 1], q)'
    <3>1. (reads + 1)' = 1
      BY <1>1
    <3> QED BY <1>1, <1>7, <2>3, <3>1 DEF Holds, BitAt
  <2>4. Left(m) = Left(seen)' \/ seen' # m
    BY <1>1 DEF Left, IsFirst
  <2> QED BY <1>4, <2>1, <2>2, <2>3, <2>4 DEF InMCU
<1>11. Between'
  BY <1>1 DEF Between
<1>12. DamageContained'
  BY <1>1 DEF DamageContained, Interval, Sound
<1> QED BY <1>1, <1>4, <1>7, <1>8, <1>9, <1>10, <1>11, <1>12

LEMMA StartStep ==
  ASSUME IInv, StartMCU
  PROVE  IInv'
<1> DEFINE r == [reader EXCEPT !.buf = perm]
           i == Current
           m == Begun + 1
<1>1. /\ ~busy /\ Len(got) < Len(scan.code) /\ ~Restarting
      /\ toGo' = (IF scan.interval = 0 THEN toGo ELSE toGo - 1)
      /\ Begin(r) /\ perm' = perm /\ pred' = pred
  BY DEF StartMCU
<1>2. TypeOK /\ Counted /\ Anchored /\ Between /\ DamageContained
  BY DEF IInv
<1>3. /\ scan \in Scans /\ Begun \in Nat /\ Begun < Len(scan.code) /\ toGo \in Nat
      /\ perm \in Seq(BitIn(scan)) /\ scan.interval \in Nat
      /\ reader \in [buf : Seq(BitIn(scan)), data : Seq(ByteIn(scan)), unread : BOOLEAN]
  BY <1>1, <1>2, TypesIs DEF TypeOK
<1>4. /\ Interval(m) = i
      /\ scan.interval # 0 => toGo = i * scan.interval - Begun
  BY <1>1, <1>2, <1>3, NextInterval
<1>5. toGo' \in Nat
  BY <1>1, <1>3 DEF Restarting
<1>6. /\ r \in [buf : Seq(BitIn(scan)), data : Seq(ByteIn(scan)), unread : BOOLEAN]
      /\ r.buf = perm /\ r.data = reader.data /\ r.unread = reader.unread
  BY <1>3
<1>7. Reached(i) => \E q \in Nat : At(r, i, q)
  <2>1. SUFFICES ASSUME Reached(i) PROVE \E q \in Nat : At(r, i, q)
    OBVIOUS
  <2>2. PICK q \in Nat : At(reader, i, q)
    BY <1>2, <2>1 DEF Anchored
  <2> QED BY <1>6, <2>2 DEF At
<1>8. Sound(i) => /\ pred' = Left(m)
                  /\ \E q \in Nat : /\ At(r, i, q)
                                    /\ Holds(r.buf, i, scan.offset[m][1], q)
  <2>1. SUFFICES ASSUME Sound(i)
                 PROVE  /\ pred' = Left(m)
                        /\ \E q \in Nat : /\ At(r, i, q)
                                          /\ Holds(r.buf, i, scan.offset[m][1], q)
    OBVIOUS
  <2>2. /\ pred = Left(m)
        /\ \E q \in Nat : /\ At(reader, i, q)
                          /\ Holds(perm, i, scan.offset[m][1], q)
    BY <1>1, <1>2, <1>3, <2>1 DEF Between
  <2>3. PICK q \in Nat : At(reader, i, q) /\ Holds(perm, i, scan.offset[m][1], q)
    BY <2>2
  <2>4. At(r, i, q)
    BY <1>6, <2>3 DEF At
  <2> QED BY <1>1, <1>6, <2>2, <2>3, <2>4
<1>9. perm' \in Seq(BitIn(scan))
  BY <1>1, <1>3
<1>10. /\ TypeOK' /\ Begun' = Begun + 1 /\ Current' = Current /\ scan' = scan
       /\ Anchored' /\ InMCU' /\ Between' /\ DamageContained'
  <2>1. m = Begun + 1
    OBVIOUS
  <2> HIDE DEF r, i, m
  <2>2. /\ TypeOK' /\ Begun' = m /\ Current' = i /\ scan' = scan
        /\ Anchored' /\ InMCU' /\ Between' /\ DamageContained'
    BY <1>1, <1>2, <1>4, <1>5, <1>6, <1>7, <1>8, <1>9, <2>1, Began
  <2> QED BY <2>1, <2>2 DEF i
<1>11. Counted'
  <2> DEFINE e == i * scan.interval
  <2>1. scan.interval # 0 => e \in Int
    BY <1>3, CurrentIs
  <2>2. scan.interval # 0 => toGo = e - Begun
    BY <1>4
  <2>3. scan.interval = 0 => toGo = 0
    BY <1>2 DEF Counted
  <2> HIDE DEF e
  <2>4. scan.interval # 0 => toGo' = e - (Begun + 1)
    BY <1>1, <1>3, <2>1, <2>2
  <2>5. scan.interval # 0 => toGo' = Current' * scan'.interval - Begun'
    BY <1>10, <2>4 DEF e
  <2>6. scan'.interval = scan.interval /\ (scan.interval = 0 => toGo' = 0)
    BY <1>1, <1>10, <2>3
  <2> QED BY <2>5, <2>6 DEF Counted
<1> QED BY <1>10, <1>11 DEF IInv

(* The marker in front of an interval that is still to come is found.       *)
LEMMA AfterMarkerIs ==
  ASSUME scan \in Scans, NEW i \in Nat \ {0}, Reached(i + 1),
         NEW r, NEW q, At(r, i, q)
  PROVE  AfterMarker(r) = Rest(scan.start[i + 1])
<1> DEFINE N == Len(scan.data)
           b == scan.start[i + 1]
<1>1. /\ b \in 1..N + 1 /\ Reached(i) /\ Stop(i) = b - 1 /\ Stop(i) <= N
  <2>1. i + 1 \in Nat \ {0} /\ i + 1 > 1 /\ (i + 1) - 1 = i
    OBVIOUS
  <2> QED BY <2>1, StartIs
<1>2. scan.start[i] \in 1..N + 1
  BY <1>1, StartIs
<1>3. /\ N \in Nat /\ Stop(i) \in scan.start[i]..N + 1 /\ q \in scan.start[i]..Stop(i)
  BY <1>2, StopIs, ScanIs DEF At
<1>4. CASE r.unread
  <2>1. r.data = Rest(q + 1) /\ q = Stop(i)
    BY <1>4 DEF At
  <2>2. q + 1 = b
    <3> HIDE DEF b, N
    <3> QED BY <1>1, <1>3, <2>1
  <2> QED BY <1>4, <2>1, <2>2 DEF AfterMarker
<1>5. CASE ~r.unread
  <2> DEFINE a == MarkerAt(r.data) + 1
  <2>1. r.data = Rest(q) /\ AfterMarker(r) = SubSeq(r.data, a, Len(r.data))
    BY <1>5 DEF At, AfterMarker
  <2>2. MarkerAt(r.data) = Stop(i) + 1 - q
    BY <1>2, <1>5, MarkerMet
  <2>3. q \in 1..N + 1 /\ a \in 1..N + 2 - q /\ q + a - 1 = b
    <3> DEFINE t == MarkerAt(r.data)
    <3>1. t = Stop(i) + 1 - q /\ a = t + 1
      BY <2>2
    <3> HIDE DEF b, N, a, t
    <3> QED BY <1>1, <1>2, <1>3, <3>1
  <2>4. SubSeq(Rest(q), a, Len(Rest(q))) = Rest(q + a - 1)
    <3> HIDE DEF a
    <3> QED BY <2>3, RestIs
  <2> QED BY <2>1, <2>3, <2>4
<1> QED BY <1>4, <1>5

LEMMA AfterMarkerType ==
  ASSUME NEW r, TypedReader(r)
  PROVE  AfterMarker(r) \in Seq(ByteIn(scan))
<1> DEFINE d == r.data
           a == MarkerAt(d) + 1
<1>1. d \in Seq(ByteIn(scan)) /\ r.unread \in BOOLEAN
  BY DEF TypedReader
<1>2. MarkerAt(d) \in 1..Len(d) + 1 /\ Len(d) \in Nat
  BY <1>1, FirstMarker
<1>3. SubSeq(d, a, Len(d)) \in Seq(ByteIn(scan))
  <2>1. CASE a <= Len(d) + 1
    <3>1. a \in 1..Len(d) + 1
      <4> HIDE DEF d
      <4> QED BY <1>2, <2>1
    <3> HIDE DEF a, d
    <3> QED BY <1>1, <3>1, Suffix
  <2>2. CASE a > Len(d) + 1
    <3> HIDE DEF a, d
    <3>1. SubSeq(d, a, Len(d)) = <<>>
      BY <1>2, <2>2 DEF a
    <3> QED BY <3>1
  <2>3. a \in Int
    BY <1>2
  <2> HIDE DEF a, d
  <2> QED BY <1>2, <2>1, <2>2, <2>3
<1> QED BY <1>1, <1>3 DEF AfterMarker

LEMMA RestartStep ==
  ASSUME IInv, RestartAndStartMCU
  PROVE  IInv'
<1> DEFINE data == AfterMarker(reader)
           r == [buf |-> <<>>, data |-> data, unread |-> FALSE]
           i == Current + 1
           m == Begun + 1
<1>1. /\ ~busy /\ Len(got) < Len(scan.code) /\ Restarting
      /\ perm' = <<>> /\ pred' = PredAtRestart /\ toGo' = scan.interval - 1
      /\ Begin(r)
  BY DEF RestartAndStartMCU
<1>2. TypeOK /\ Counted /\ Anchored /\ Between /\ DamageContained
  BY DEF IInv
<1>3. /\ scan \in Scans /\ Begun \in Nat /\ m \in DOMAIN scan.code /\ toGo \in Nat
      /\ TypedReader(reader)
  BY <1>1, <1>2, TypesIs DEF TypeOK
<1>4. /\ Interval(m) = i /\ IsFirst(m)
      /\ scan.interval \in Nat \ {0} /\ Current \in Nat \ {0}
      /\ toGo = Current * scan.interval - Begun
  BY <1>1, <1>2, <1>3, NextInterval
<1>5. toGo' \in Nat
  BY <1>1, <1>4
<1>6. r \in [buf : Seq(BitIn(scan)), data : Seq(ByteIn(scan)), unread : BOOLEAN]
  <2>1. data \in Seq(ByteIn(scan))
    BY <1>3, AfterMarkerType
  <2>2. <<>> \in Seq(BitIn(scan))
    OBVIOUS
  <2> HIDE DEF data
  <2> QED BY <2>1, <2>2
<1>7. ASSUME Reached(i)
      PROVE  At(r, i, scan.start[i]) /\ scan.start[i] \in Nat
  <2>1. /\ Reached(Current) /\ scan.start[i] \in 1..Len(scan.data) + 1
    <3>1. i \in Nat \ {0} /\ i > 1 /\ i - 1 = Current
      BY <1>4
    <3> QED BY <1>3, <1>7, <3>1, StartIs
  <2>2. PICK q \in Nat : At(reader, Current, q)
    BY <1>2, <2>1 DEF Anchored
  <2>3. data = Rest(scan.start[i])
    BY <1>3, <1>4, <1>7, <2>2, AfterMarkerIs
  <2> HIDE DEF data, i
  <2>4. Stop(i) \in scan.start[i]..Len(scan.data) + 1 /\ Len(scan.data) \in Nat
    BY <1>3, <2>1, StopIs, ScanIs
  <2>5. scan.start[i] \in scan.start[i]..Stop(i) /\ scan.start[i] \in Nat
    BY <2>1, <2>4
  <2> QED BY <2>3, <2>5 DEF At
<1>8. Reached(i) => \E q \in Nat : At(r, i, q)
  BY <1>7
<1>9. ASSUME Sound(i)
      PROVE  /\ pred' = Left(m)
             /\ \E q \in Nat : At(r, i, q) /\ Holds(r.buf, i, scan.offset[m][1], q)
  <2>1. Reached(i)
    BY <1>3, <1>4, <1>9, IntervalIs
  <2>2. pred' = Left(m)
    BY <1>1, <1>4 DEF PredAtRestart, Left
  <2>3. scan.offset[m][1] = 0
    BY <1>3, <1>4, OffsetIs
  <2>4. Holds(r.buf, i, 0, scan.start[i])
    <3>1. Len(r.buf) = 0 /\ scan.start[i] \in Nat
      BY <1>7, <2>1
    <3>2. (scan.start[i] - scan.start[i]) * ByteBits - 0 = 0
      <4>1. scan.start[i] - scan.start[i] = 0 /\ ByteBits \in Nat
        BY <3>1, Constants
      <4> QED BY <4>1
    <3> QED BY <3>1, <3>2 DEF Holds
  <2> QED BY <1>7, <2>1, <2>2, <2>3, <2>4
<1>10. /\ TypeOK' /\ Begun' = Begun + 1 /\ Current' = Current + 1 /\ scan' = scan
       /\ Anchored' /\ InMCU' /\ Between' /\ DamageContained'
  <2>1. m = Begun + 1 /\ perm' \in Seq(BitIn(scan))
    BY <1>1
  <2> HIDE DEF r, i, m
  <2>2. /\ TypeOK' /\ Begun' = m /\ Current' = i /\ scan' = scan
        /\ Anchored' /\ InMCU' /\ Between' /\ DamageContained'
    <3>1. TypeOK /\ DamageContained /\ ~busy /\ Len(got) < Len(scan.code) /\ Begin(r)
      BY <1>1, <1>2
    <3>2. /\ Interval(m) = i /\ toGo' \in Nat /\ perm' \in Seq(BitIn(scan)) /\ m = Begun + 1
          /\ r \in [buf : Seq(BitIn(scan)), data : Seq(ByteIn(scan)), unread : BOOLEAN]
      BY <1>4, <1>5, <1>6, <2>1
    <3> QED BY ONLY <1>8, <1>9, <3>1, <3>2, Began
  <2> QED BY <2>1, <2>2 DEF i
<1>11. Counted'
  <2> DEFINE n == scan.interval
             c == Current
             e == c * n
  <2>1. n \in Nat \ {0} /\ c \in Nat \ {0} /\ toGo = 0 /\ toGo = e - Begun
    BY <1>1, <1>4 DEF Restarting
  <2>2. (c + 1) * n = e + n /\ e \in Int
    <3> HIDE DEF c, n
    <3> QED BY <2>1
  <2>3. n - 1 = (c + 1) * n - (Begun + 1)
    <3> DEFINE f == (c + 1) * n
    <3>1. f = e + n
      BY <2>2
    <3> HIDE DEF e, n, f
    <3>2. n - 1 = f - (Begun + 1)
      BY <1>3, <2>1, <2>2, <3>1
    <3> QED BY <3>2 DEF f
  <2>4. toGo' = Current' * scan'.interval - Begun' /\ scan'.interval # 0
    BY <1>1, <1>10, <2>1, <2>3
  <2> QED BY <2>4 DEF Counted
<1> QED BY <1>10, <1>11 DEF IInv

(* What the reads have in common.                                           *)
LEMMA SameInterval ==
  ASSUME TypeOK, Counted, scan' = scan, toGo' = toGo, Begun' = Begun,
         Reached(Current) => \E q \in Nat : At(reader', Current, q)
  PROVE  Current' = Current /\ Counted' /\ Anchored'
<1>1. Current' = Current
  <2>1. \A m : Interval(m)' = Interval(m)
    BY DEF Interval
  <2> QED BY <2>1 DEF Current, Interval
<1>2. Counted'
  BY <1>1 DEF Counted
<1>3. ASSUME Reached(Current) PROVE \E q \in Nat : At(reader, Current, q)'
  <2>1. PICK q \in Nat : At(reader', Current, q)
    BY <1>3
  <2>2. At(reader, Current, q)'
    BY <1>1, <2>1 DEF At, Stop, Rest
  <2> QED BY <2>2
<1>4. Reached(Current)' => Reached(Current)
  BY <1>1 DEF Reached, Sound
<1> QED BY <1>1, <1>2, <1>3, <1>4 DEF Anchored

LEMMA Appended ==
  ASSUME TypeOK, DamageContained, busy, scan' = scan, NEW g \in Nat,
         got' = Append(got, g), busy' = FALSE, Sound(Current) => g = Begun
  PROVE  got' \in Seq(Nat) /\ Begun' = Begun /\ DamageContained'
<1>1. got \in Seq(Nat) /\ Len(got) \in Nat
  BY TypesIs DEF TypeOK
<1>2. Current = Interval(Begun) /\ Begun = Len(got) + 1
  BY CurrentOfBusy
<1>3. /\ got' \in Seq(Nat) /\ Len(got') = Len(got) + 1
      /\ \A m \in 1..Len(got) : got'[m] = got[m]
      /\ got'[Len(got) + 1] = g
  BY <1>1, AppendProperties
<1>4. Begun' = Begun
  BY <1>1, <1>2, <1>3 DEF Begun
<1>5. ASSUME NEW m \in 1..Len(got) + 1, Sound(Interval(m)) PROVE got'[m] = m
  <2>1. CASE m \in 1..Len(got)
    <3>1. m \in DOMAIN got
      BY <1>1, <2>1
    <3> QED BY <1>3, <1>5, <2>1, <3>1 DEF DamageContained
  <2>2. CASE m = Len(got) + 1
    BY <1>2, <1>3, <1>5, <2>2
  <2> QED BY <1>1, <2>1, <2>2
<1>6. DOMAIN got' = 1..Len(got) + 1
  BY <1>1, <1>3
<1>7. DamageContained'
  <2>1. \A i : Sound(i)' <=> Sound(i)
    BY DEF Sound
  <2>2. \A m : Interval(m)' = Interval(m)
    BY DEF Interval
  <2> QED BY <1>5, <1>6, <2>1, <2>2 DEF DamageContained, Sound, Interval
<1> QED BY <1>3, <1>4, <1>7

(* A read of the bits of an MCU of a sound interval brings them.            *)
LEMMA InSync ==
  ASSUME TypeOK, InMCU, busy, Sound(Current)
  PROVE  LET k == reads + 1
             n == Lengths[k]
             r == Load(reader, n, IsCode(k))
         IN  /\ seen = Begun /\ pred = Left(seen) /\ r.ok /\ Has(r, n)
             /\ \E p \in Nat : /\ At(r, Current, p)
                               /\ Holds(r.buf, Current, scan.offset[seen][k], p)
<1> DEFINE k == reads + 1
           n == Lengths[k]
           isCode == IsCode(k)
           r == Load(reader, n, isCode)
           x == scan.offset[seen][k]
           i == Current
<1>1. /\ scan \in Scans /\ TypedReader(reader) /\ seen = Begun /\ pred = Left(seen)
      /\ seen \in DOMAIN scan.code /\ i = Interval(seen) /\ i \in Nat \ {0} /\ Reached(i)
  BY TypesIs, CurrentOfBusy DEF InMCU
<1>2. PICK q \in Nat : At(reader, i, q) /\ Holds(reader.buf, i, x, q)
  BY DEF InMCU
<1>3. scan.start[i] \in 1..Len(scan.data) + 1
  BY <1>1, StartIs
<1>4. k \in 1..Len(scan.code[seen])
  <2>1. seen # Wrong
    BY <1>1, IntervalIs DEF Wrong
  <2>2. reads \in Nat /\ reads < Len(scan.code[seen])
    BY <2>1 DEF TypeOK
  <2>3. Len(scan.code[seen]) \in Nat
    BY <1>1, OffsetIs
  <2> QED BY <2>2, <2>3
<1>5. /\ x \in Nat /\ n \in Nat /\ n <= MinGet /\ isCode \in BOOLEAN /\ (isCode => n > 0)
  <2>1. k \in 1..Len(scan.code[seen]) + 1
    BY <1>1, <1>4, OffsetIs
  <2>2. x \in Nat
    BY <1>1, <2>1, OffsetIs
  <2>3. scan.code[seen][k] \in Nat /\ scan.code[seen][k] <= MinGet
        /\ (k % 2 = 1 => scan.code[seen][k] > 0)
    BY <1>1, <1>4, OffsetIs
  <2>4. n = scan.code[seen][k]
    BY DEF Lengths
  <2>5. isCode \in BOOLEAN /\ (isCode <=> k % 2 = 1)
    BY DEF IsCode
  <2> QED BY <2>2, <2>3, <2>4, <2>5
<1>6. \A b \in 1..n : /\ BitAt(i, x + b) = <<seen, k, b>>
                      /\ x + b <= (Stop(i) - scan.start[i]) * ByteBits
  BY <1>1, <1>4, EncodedBits DEF Lengths
<1> HIDE DEF k, n, isCode, x, i
<1>7. r \in ReaderOK
  BY <1>1, <1>5, LoadType
<1>8. Len(r.buf) \in Nat
  BY <1>7, ReaderOKIs
<1>9. CASE n = 0
  <2>1. isCode = FALSE
    BY <1>5, <1>9
  <2>2. /\ r.ok = TRUE /\ r.buf = reader.buf
        /\ r.data = reader.data /\ r.unread = reader.unread
    <3>1. r = Load(reader, 0, FALSE)
      BY <1>9, <2>1
    <3> HIDE DEF r
    <3> QED BY <1>1, <3>1, LoadNone
  <2> HIDE DEF r
  <2>3. At(r, i, q)
    BY <1>2, <2>2 DEF At
  <2>4. Has(r, n)
    BY <1>8, <1>9, <2>2 DEF Has
  <2> QED BY <1>1, <1>2, <2>2, <2>3, <2>4 DEF k, n, isCode, r, x, i
<1>10. CASE n # 0
  <2>1. PICK p \in Nat : At(r, i, p) /\ Brings(reader, q, r, p, TRUE, n, i)
    <3>1. scan \in Scans /\ TypedReader(reader) /\ At(reader, i, q)
      BY <1>1, <1>2
    <3>2. n \in Nat /\ isCode \in BOOLEAN
      BY <1>5
    <3> QED BY ONLY <1>3, <3>1, <3>2, LoadIs
  <2> HIDE DEF r
  <2>2. r.ok = TRUE /\ Holds(r.buf, i, x, p) /\ n <= Len(r.buf)
    <3>1. n \in 1..n /\ n > 0
      BY <1>5, <1>10
    <3>2. x + n <= (Stop(i) - scan.start[i]) * ByteBits
      BY <1>6, <3>1
    <3> QED BY <1>2, <1>5, <2>1, <3>1, <3>2 DEF Brings
  <2>3. \A b \in 1..Len(r.buf) : r.buf[b] = BitAt(i, x + b)
    BY <2>2 DEF Holds
  <2>4. ASSUME NEW b \in 1..n PROVE r.buf[b] = <<seen, reads + 1, b>>
    <3>1. b \in 1..Len(r.buf)
      BY <1>5, <1>8, <2>2
    <3> QED BY <1>6, <2>3, <3>1 DEF k
  <2>5. Has(r, n)
    BY <2>2, <2>4 DEF Has
  <2> QED BY <1>1, <2>1, <2>2, <2>5 DEF k, n, isCode, r, x, i
<1> QED BY <1>9, <1>10

(* Whatever is read, the reader stays in the interval.                      *)
LEMMA StaysInInterval ==
  ASSUME TypeOK, Anchored, busy, NEW n \in Nat, NEW isCode \in BOOLEAN
  PROVE  /\ TypedReader(Load(reader, n, isCode))
         /\ Reached(Current) => \E p \in Nat : At(Load(reader, n, isCode), Current, p)
<1> DEFINE i == Current
           r == Load(reader, n, isCode)
<1>1. scan \in Scans /\ TypedReader(reader) /\ i \in Nat \ {0}
  BY TypesIs, CurrentOfBusy
<1>2. TypedReader(r)
  BY <1>1, LoadType, ReaderOKIs
<1>3. ASSUME Reached(i) PROVE \E p \in Nat : At(r, i, p)
  <2>1. scan.start[i] \in 1..Len(scan.data) + 1
    BY <1>1, <1>3, StartIs
  <2>2. PICK q \in Nat : At(reader, i, q)
    BY <1>3 DEF Anchored
  <2> HIDE DEF i
  <2>3. \E p \in Nat : At(r, i, p) /\ Brings(reader, q, r, p, TRUE, n, i)
    BY <1>1, <2>1, <2>2, LoadIs
  <2> QED BY <2>3
<1> QED BY <1>2, <1>3

LEMMA InvariantIs ==
  ASSUME IInv, busy
  PROVE  /\ TypeOK /\ Counted /\ Anchored /\ InMCU /\ DamageContained
         /\ scan \in Scans /\ TypedReader(reader) /\ Len(got) \in Nat
         /\ Begun = Len(got) + 1 /\ Begun \in Nat /\ Begun \in DOMAIN scan.code
         /\ seen # Wrong => /\ seen \in DOMAIN scan.code
                            /\ Lengths[reads + 1] \in Nat /\ Len(Lengths) \in Nat
                            /\ reads + 1 <= Len(Lengths) /\ reads \in Nat
         /\ IsCode(reads + 1) \in BOOLEAN
<1>1. TypeOK /\ Counted /\ Anchored /\ InMCU /\ DamageContained
  BY DEF IInv
<1>2. /\ scan \in Scans /\ TypedReader(reader) /\ Len(got) \in Nat
      /\ Begun = Len(got) + 1 /\ Begun \in DOMAIN scan.code /\ Begun \in Nat
  BY <1>1, TypesIs
<1>3. ASSUME seen # Wrong
      PROVE  /\ seen \in DOMAIN scan.code
             /\ Lengths[reads + 1] \in Nat /\ Len(Lengths) \in Nat
             /\ reads + 1 <= Len(Lengths) /\ reads \in Nat
  <2>1. seen \in DOMAIN scan.code /\ reads \in Nat /\ reads < Len(scan.code[seen])
    BY <1>1, <1>3 DEF TypeOK
  <2>2. scan.code[seen] \in Seq(Nat) /\ Len(scan.code[seen]) \in Nat
    BY <1>2, <2>1, OffsetIs
  <2>3. reads + 1 \in 1..Len(scan.code[seen])
    BY <2>1, <2>2
  <2> QED BY <2>1, <2>2, <2>3 DEF Lengths
<1>4. IsCode(reads + 1) \in BOOLEAN
  BY DEF IsCode
<1> QED BY <1>1, <1>2, <1>3, <1>4

(* Other bits cannot come in a sound interval.                              *)
LEMMA StrayStep ==
  ASSUME IInv, Stray
  PROVE  IInv'
<1>1. /\ busy /\ seen # Wrong
      /\ ~Has(Load(reader, Lengths[reads + 1], IsCode(reads + 1)), Lengths[reads + 1])
      /\ seen' = Wrong /\ reads' = 0
      /\ scan' = scan /\ reader' = reader /\ perm' = perm /\ pred' = pred
      /\ toGo' = toGo /\ busy' = busy /\ got' = got
  BY DEF Stray
<1>2. /\ TypeOK /\ Counted /\ Anchored /\ InMCU /\ DamageContained
  BY <1>1, InvariantIs
<1>3. ~Sound(Current)
  BY <1>1, <1>2, InSync
<1>4. Begun' = Begun
  BY <1>1 DEF Begun
<1>5. TypeOK'
  BY <1>1, <1>2, <1>4 DEF TypeOK
<1>6. Current' = Current /\ Counted' /\ Anchored'
  <2>1. Reached(Current) => \E q \in Nat : At(reader', Current, q)
    BY <1>1, <1>2 DEF Anchored
  <2> QED BY <1>1, <1>2, <1>4, <2>1, SameInterval
<1>7. ~Sound(Current)'
  BY <1>1, <1>3, <1>6 DEF Sound
<1>8. InMCU' /\ Between'
  BY <1>7 DEF InMCU, Between
<1>9. DamageContained'
  BY <1>1, <1>2 DEF DamageContained, Interval, Sound
<1> QED BY <1>5, <1>6, <1>8, <1>9 DEF IInv

(* A wrong MCU in an interval that is not sound.                            *)
LEMMA WrongStep ==
  ASSUME IInv, busy, ~Sound(Current), scan' = scan, toGo' = toGo, seen' = seen,
         reader' \in [buf : Seq(BitIn(scan)), data : Seq(ByteIn(scan)), unread : BOOLEAN],
         Reached(Current) => \E q \in Nat : At(reader', Current, q),
         reads' \in Nat, perm' \in Seq(BitIn(scan)),
         \/ got' = got /\ busy' = TRUE /\ (seen # Wrong => reads' < Len(Lengths))
         \/ busy' = FALSE /\ \E g \in Nat : got' = Append(got, g)
  PROVE  IInv'
<1>1. /\ TypeOK /\ Counted /\ Anchored /\ InMCU /\ DamageContained
  BY InvariantIs
<1>2. got' \in Seq(Nat) /\ Begun' = Begun /\ DamageContained' /\ busy' \in BOOLEAN
      /\ (busy' /\ seen # Wrong => reads' < Len(Lengths))
  <2>1. CASE got' = got /\ busy' = TRUE /\ (seen # Wrong => reads' < Len(Lengths))
    <3>1. Begun' = Begun
      BY <2>1 DEF Begun
    <3>2. DamageContained'
      BY <1>1, <2>1 DEF DamageContained, Interval, Sound
    <3> QED BY <1>1, <2>1, <3>1, <3>2 DEF TypeOK
  <2>2. CASE busy' = FALSE /\ \E g \in Nat : got' = Append(got, g)
    <3>1. PICK g \in Nat : got' = Append(got, g)
      BY <2>2
    <3>2. got' \in Seq(Nat) /\ Begun' = Begun /\ DamageContained'
      BY <1>1, <2>2, <3>1, Appended
    <3> QED BY <2>2, <3>2
  <2> QED BY <2>1, <2>2
<1>3. TypeOK'
  BY <1>1, <1>2 DEF TypeOK, Lengths
<1>4. Current' = Current /\ Counted' /\ Anchored'
  BY <1>1, <1>2, SameInterval
<1>5. ~Sound(Current)'
  BY <1>4 DEF Sound
<1>6. InMCU' /\ Between'
  BY <1>5 DEF InMCU, Between
<1> QED BY <1>2, <1>3, <1>4, <1>6 DEF IInv

LEMMA ReadShortStep ==
  ASSUME IInv, ReadShort
  PROVE  IInv'
<1> DEFINE n == Lengths[reads + 1]
           isCode == IsCode(reads + 1)
           r == Load(reader, n, isCode)
<1>1. /\ busy /\ seen # Wrong /\ ~r.ok /\ reader' = AtRest(r)
      /\ got' = Append(got, Wrong) /\ busy' = FALSE /\ perm' = perm
      /\ scan' = scan /\ toGo' = toGo /\ seen' = seen /\ reads' = reads
  BY DEF ReadShort, GiveUp
<1>2. /\ TypeOK /\ Anchored /\ InMCU /\ n \in Nat /\ isCode \in BOOLEAN /\ reads \in Nat
  BY <1>1, InvariantIs
<1>3. ~Sound(Current)
  BY <1>1, <1>2, InSync
<1>4. TypedReader(r) /\ (Reached(Current) => \E p \in Nat : At(r, Current, p))
  BY <1>1, <1>2, StaysInInterval
<1> HIDE DEF r, n, isCode
<1>5. /\ reader' \in [buf : Seq(BitIn(scan)), data : Seq(ByteIn(scan)), unread : BOOLEAN]
      /\ Reached(Current) => \E q \in Nat : At(reader', Current, q)
  <2>1. 0 \in Nat
    OBVIOUS
  <2> QED BY <1>1, <1>4, <2>1, SkipIs DEF AtRest
<1>6. perm' \in Seq(BitIn(scan)) /\ \E g \in Nat : got' = Append(got, g)
  BY <1>1, <1>2 DEF TypeOK, Wrong
<1> QED BY <1>1, <1>2, <1>3, <1>5, <1>6, WrongStep

LEMMA ReadWrongStep ==
  ASSUME IInv, NEW n \in Nat, NEW isCode \in BOOLEAN, ReadWrong(n, isCode)
  PROVE  IInv'
<1> DEFINE r == Load(reader, n, isCode)
<1>1. /\ busy /\ seen = Wrong
      /\ reader' = IF r.ok THEN Skip(r, n) ELSE AtRest(r)
      /\ scan' = scan /\ toGo' = toGo /\ seen' = seen
      /\ \/ reads' = reads + 1 /\ perm' = perm /\ got' = got /\ busy' = busy
         \/ reads' = reads /\ Commit(reader')
         \/ reads' = reads /\ GiveUp
  BY DEF ReadWrong
<1>2. /\ TypeOK /\ Anchored /\ InMCU /\ Begun \in DOMAIN scan.code /\ scan \in Scans
  BY <1>1, InvariantIs
<1>3. ~Sound(Current)
  <2>1. Begun # Wrong
    BY <1>2, IntervalIs DEF Wrong
  <2> QED BY <1>1, <1>2, <2>1 DEF InMCU
<1>4. TypedReader(r) /\ (Reached(Current) => \E p \in Nat : At(r, Current, p))
  BY <1>1, <1>2, StaysInInterval
<1> HIDE DEF r
<1>5. /\ reader' \in [buf : Seq(BitIn(scan)), data : Seq(ByteIn(scan)), unread : BOOLEAN]
      /\ Reached(Current) => \E q \in Nat : At(reader', Current, q)
  <2>1. reader' = Skip(r, n) \/ reader' = Skip(r, 0)
    BY <1>1 DEF AtRest
  <2>2. 0 \in Nat
    OBVIOUS
  <2> QED BY <1>4, <2>1, <2>2, SkipIs
<1>6. reads \in Nat /\ perm \in Seq(BitIn(scan)) /\ busy = TRUE
  BY <1>1, <1>2 DEF TypeOK
<1>7. /\ reads' \in Nat /\ perm' \in Seq(BitIn(scan))
      /\ \/ got' = got /\ busy' = TRUE /\ (seen # Wrong => reads' < Len(Lengths))
         \/ busy' = FALSE /\ \E g \in Nat : got' = Append(got, g)
  <2>1. CASE reads' = reads + 1 /\ perm' = perm /\ got' = got /\ busy' = busy
    BY <1>1, <1>6, <2>1
  <2>2. CASE reads' = reads /\ Commit(reader')
    <3>1. /\ perm' = reader'.buf /\ busy' = FALSE
          /\ got' = Append(got, Wrong)
      BY <1>1, <2>2 DEF Commit
    <3>2. Wrong \in Nat
      BY DEF Wrong
    <3> QED BY <1>5, <1>6, <2>2, <3>1, <3>2
  <2>3. CASE reads' = reads /\ GiveUp
    <3>1. perm' = perm /\ busy' = FALSE /\ got' = Append(got, Wrong)
      BY <2>3 DEF GiveUp
    <3>2. Wrong \in Nat
      BY DEF Wrong
    <3> QED BY <1>6, <2>3, <3>1, <3>2
  <2> QED BY <1>1, <2>1, <2>2, <2>3
<1> QED BY <1>1, <1>3, <1>5, <1>7, WrongStep

LEMMA ReadRightStep ==
  ASSUME IInv, ReadRight
  PROVE  IInv'
<1> DEFINE k == reads + 1
           n == Lengths[k]
           isCode == IsCode(k)
           r == Load(reader, n, isCode)
           last == k = Len(Lengths)
           i == Current
<1>1. /\ busy /\ seen # Wrong /\ Has(r, n) /\ reader' = Skip(r, n) /\ reads' = k
      /\ scan' = scan /\ toGo' = toGo /\ seen' = seen
      /\ last => Commit(reader')
      /\ ~last => perm' = perm /\ pred' = pred /\ got' = got /\ busy' = busy
  BY DEF ReadRight
<1>2. /\ TypeOK /\ Counted /\ Anchored /\ InMCU /\ DamageContained
      /\ n \in Nat /\ isCode \in BOOLEAN /\ reads \in Nat /\ scan \in Scans
      /\ seen \in DOMAIN scan.code /\ Len(Lengths) \in Nat /\ k <= Len(Lengths)
      /\ Begun = Len(got) + 1 /\ Begun \in Nat
  BY <1>1, InvariantIs
<1>3. seen \in Nat
  BY <1>2, IntervalIs
<1>4. TypedReader(r) /\ (Reached(i) => \E p \in Nat : At(r, i, p))
  BY <1>1, <1>2, StaysInInterval
<1>5. ASSUME Sound(i)
      PROVE  /\ seen = Begun /\ pred = Left(seen)
             /\ \E p \in Nat : At(r, i, p) /\ Holds(r.buf, i, scan.offset[seen][k], p)
  BY <1>1, <1>2, <1>5, InSync
<1>6. n <= Len(r.buf)
  BY <1>1 DEF Has
<1> HIDE DEF r
<1>7. /\ reader' \in [buf : Seq(BitIn(scan)), data : Seq(ByteIn(scan)), unread : BOOLEAN]
      /\ Reached(i) => \E q \in Nat : At(reader', i, q)
      /\ reader'.buf \in Seq(BitIn(scan))
  <2>1. /\ reader' \in [buf : Seq(BitIn(scan)), data : Seq(ByteIn(scan)), unread : BOOLEAN]
        /\ Reached(i) => \E q \in Nat : At(reader', i, q)
    BY <1>1, <1>2, <1>4, SkipIs
  <2> QED BY <2>1
<1>8. ASSUME Sound(i)
      PROVE  \E p \in Nat : /\ At(reader', i, p)
                            /\ Holds(reader'.buf, i, scan.offset[seen][k + 1], p)
  <2>1. PICK p \in Nat : At(r, i, p) /\ Holds(r.buf, i, scan.offset[seen][k], p)
    BY <1>5, <1>8
  <2>2. k \in 1..Len(scan.code[seen]) /\ k \in 1..Len(scan.code[seen]) + 1
    BY <1>2 DEF Lengths
  <2>3. scan.offset[seen][k] \in Nat /\ scan.offset[seen][k + 1] = scan.offset[seen][k] + n
    BY <1>2, <2>2, OffsetIs DEF Lengths
  <2>4. At(reader', i, p) /\ Holds(reader'.buf, i, scan.offset[seen][k] + n, p)
    <3>1. Reached(i) /\ i \in Nat \ {0}
      BY <1>1, <1>2, <1>8, CurrentOfBusy
    <3>2. scan.start[i] \in Nat
      <4>1. scan.start[i] \in 1..Len(scan.data) + 1
        BY <1>2, <3>1, StartIs
      <4> QED BY <4>1
    <3> HIDE DEF n, k, i
    <3> QED BY <1>1, <1>2, <1>4, <1>6, <2>1, <2>3, <3>2, SkipIs
  <2> QED BY <2>3, <2>4
<1> HIDE DEF n, isCode
<1>9. CASE ~Sound(i)
  <2>1. /\ perm' \in Seq(BitIn(scan))
        /\ \/ got' = got /\ busy' = TRUE /\ (seen # Wrong => reads' < Len(Lengths))
           \/ busy' = FALSE /\ \E g \in Nat : got' = Append(got, g)
    <3>1. CASE last
      <4>1. /\ perm' = reader'.buf /\ busy' = FALSE
            /\ \E g \in {seen, Wrong} : got' = Append(got, g)
        BY <1>1, <3>1 DEF Commit
      <4>2. Wrong \in Nat
        BY DEF Wrong
      <4> QED BY <1>3, <1>7, <4>1, <4>2
    <3>2. CASE ~last
      BY <1>1, <1>2, <3>2 DEF TypeOK
    <3> QED BY <3>1, <3>2
  <2>2. reads' \in Nat
    BY <1>1, <1>2
  <2> QED BY <1>1, <1>7, <1>9, <2>1, <2>2, WrongStep
<1>10. CASE Sound(i) /\ last
  <2>1. seen = Begun /\ pred = Left(seen)
    BY <1>5, <1>10
  <2>2. /\ perm' = reader'.buf /\ pred' = seen /\ got' = Append(got, seen) /\ busy' = FALSE
    <3>1. pred = (IF IsFirst(seen) THEN Reset ELSE seen - 1)
      BY <2>1 DEF Left
    <3> QED BY <1>1, <1>10, <3>1 DEF Commit
  <2>3. got' \in Seq(Nat) /\ Begun' = Begun /\ DamageContained'
    BY <1>1, <1>2, <1>3, <2>1, <2>2, Appended
  <2>4. TypeOK'
    <3>1. reads' \in Nat
      BY <1>1, <1>2
    <3> QED BY <1>1, <1>2, <1>7, <2>2, <2>3, <3>1 DEF TypeOK
  <2>5. Current' = i /\ Counted' /\ Anchored'
    BY <1>1, <1>2, <1>7, <2>3, SameInterval
  <2>6. InMCU'
    BY <2>2 DEF InMCU
  <2>7. Between'
    <3>1. SUFFICES ASSUME Begun < Len(scan.code), ~Restarting
                   PROVE  /\ pred' = Left(Begun + 1)
                          /\ \E q \in Nat :
                               /\ At(reader', i, q)
                               /\ Holds(perm', i, scan.offset[Begun + 1][1], q)
      <4>1. Left(Begun + 1)' = Left(Begun + 1)
        BY <1>1, <2>3 DEF Left, IsFirst
      <4>2. Restarting' <=> Restarting
        BY <1>1 DEF Restarting
      <4>3. ASSUME NEW q, At(reader', i, q), Holds(perm', i, scan.offset[Begun + 1][1], q)
            PROVE  /\ At(reader, Current, q)'
                   /\ Holds(perm, Current, scan.offset[Begun + 1][1], q)'
        <5>1. At(reader, Current, q)'
          BY <1>1, <2>5, <4>3 DEF At, Stop, Rest
        <5>2. (Begun + 1)' = Begun + 1
          BY <2>3
        <5>3. Holds(perm, Current, scan.offset[Begun + 1][1], q)'
          BY <1>1, <2>5, <4>3, <5>2 DEF Holds, BitAt
        <5> QED BY <5>1, <5>3
      <4> QED BY <1>1, <2>3, <4>1, <4>2, <4>3 DEF Between
    <3>2. toGo \in Nat
      BY <1>2 DEF TypeOK
    <3>3. ~IsFirst(Begun + 1)
      BY <1>2, <3>1, <3>2, NextInterval
    <3>4. Begun + 1 \in DOMAIN scan.code /\ (Begun + 1) - 1 = Begun
      <4> DEFINE c == Len(scan.code)
                 g == Begun
      <4>1. c \in Nat /\ DOMAIN scan.code = 1..c
        BY ScanIs
      <4>2. g \in Nat /\ g < c
        BY <1>2, <3>1
      <4> HIDE DEF c, g
      <4>3. g + 1 \in 1..c /\ (g + 1) - 1 = g
        BY ONLY <4>1, <4>2
      <4> QED BY <4>1, <4>3 DEF g
    <3>5. pred' = Left(Begun + 1)
      BY <2>1, <2>2, <3>3, <3>4 DEF Left
    <3>6. scan.offset[Begun + 1][1] = scan.offset[seen][k + 1]
      <4>1. scan.offset[Begun + 1][1] =
              scan.offset[(Begun + 1) - 1][Len(scan.code[(Begun + 1) - 1]) + 1]
        BY <1>2, <3>3, <3>4, OffsetIs
      <4> QED BY <1>10, <2>1, <3>4, <4>1 DEF Lengths
    <3> QED BY <1>8, <1>10, <2>2, <3>5, <3>6
  <2> QED BY <2>3, <2>4, <2>5, <2>6, <2>7 DEF IInv
<1>11. CASE Sound(i) /\ ~last
  <2>1. seen = Begun /\ pred = Left(seen)
    BY <1>5, <1>11
  <2>2. perm' = perm /\ pred' = pred /\ got' = got /\ busy' = busy
    BY <1>1, <1>11
  <2>3. Begun' = Begun
    BY <2>2 DEF Begun
  <2>4. TypeOK'
    <3>1. reads' \in Nat /\ reads' < Len(Lengths)
      BY <1>1, <1>2, <1>11
    <3> QED BY <1>1, <1>2, <1>7, <2>2, <2>3, <3>1 DEF TypeOK, Lengths
  <2>5. Current' = i /\ Counted' /\ Anchored'
    BY <1>1, <1>2, <1>7, <2>3, SameInterval
  <2>6. InMCU'
    <3>1. PICK p \in Nat : At(reader', i, p) /\ Holds(reader'.buf, i, scan.offset[seen][k + 1], p)
      BY <1>8, <1>11
    <3>2. At(reader, Current, p)'
      BY <1>1, <2>5, <3>1 DEF At, Stop, Rest
    <3>3. (reads + 1)' = k + 1
      BY <1>1
    <3>4. Holds(reader.buf, Current, scan.offset[seen][reads + 1], p)'
      BY <1>1, <2>5, <3>1, <3>3 DEF Holds, BitAt
    <3>5. Left(seen)' = Left(seen)
      BY <1>1 DEF Left, IsFirst
    <3> QED BY <1>1, <2>1, <2>2, <2>3, <3>2, <3>4, <3>5 DEF InMCU
  <2>7. Between'
    BY <1>1, <2>2 DEF Between
  <2>8. DamageContained'
    BY <1>1, <1>2, <2>2 DEF DamageContained, Interval, Sound
  <2> QED BY <2>4, <2>5, <2>6, <2>7, <2>8 DEF IInv
<1> QED BY <1>9, <1>10, <1>11

LEMMA InitInvariant ==
  ASSUME Init
  PROVE  IInv
<1>1. /\ scan \in Scans /\ reader = [buf |-> <<>>, data |-> scan.data, unread |-> FALSE]
      /\ perm = <<>> /\ pred = Reset /\ toGo = scan.interval
      /\ busy = FALSE /\ seen = Wrong /\ reads = 0 /\ got = <<>>
  BY DEF Init
<1>2. Begun = 0 /\ Current = 1
  <2>1. Len(got) = 0
    BY <1>1
  <2> QED BY <1>1, <2>1 DEF Begun, Current
<1>3. /\ scan.interval \in Nat /\ scan.data \in Seq(ByteIn(scan)) /\ Len(scan.code) \in Nat
      /\ DOMAIN scan.code = 1..Len(scan.code) /\ Len(scan.data) \in Nat
      /\ DOMAIN scan.start = 1..Len(scan.start)
  <2>1. /\ scan.interval \in Nat /\ scan.data \in Seq(ByteIn(scan))
        /\ scan.code \in Seq(Seq(Nat)) /\ scan.start \in Seq(Nat)
    BY <1>1, ScanIs, Zenon
  <2> QED BY <2>1
<1>4. TypeOK
  <2>1. Begun <= Len(scan.code)
    BY <1>2, <1>3
  <2>2. <<>> \in Seq(BitIn(scan)) /\ <<>> \in Seq(Nat)
    OBVIOUS
  <2> QED BY <1>1, <1>3, <2>1, <2>2 DEF TypeOK
<1>5. Counted
  BY <1>1, <1>2, <1>3 DEF Counted
<1>6. ASSUME Reached(1)
      PROVE  At(reader, 1, 1) /\ scan.start[1] = 1
  <2>1. 1 \in DOMAIN scan.start /\ scan.start[1] \in 1..Len(scan.data) + 1
    BY <1>1, <1>6, StartIs
  <2>2. scan.start # <<>>
    BY <2>1
  <2>3. scan.start[1] = 1
    BY <1>1, <2>2, ScanIs DEF LaidOut
  <2>4. 1 \in scan.start[1]..Stop(1)
    <3>1. Stop(1) \in scan.start[1]..Len(scan.data) + 1
      BY <1>1, <2>1, StopIs
    <3> QED BY <1>3, <2>3, <3>1
  <2>5. Rest(1) = scan.data
    BY <1>3 DEF Rest
  <2> QED BY <1>1, <2>3, <2>4, <2>5 DEF At
<1>7. Anchored
  BY <1>2, <1>6 DEF Anchored
<1>8. InMCU /\ DamageContained
  BY <1>1 DEF InMCU, DamageContained
<1>9. Between
  <2>1. SUFFICES ASSUME Sound(1), 0 < Len(scan.code)
                 PROVE  /\ pred = Left(1)
                        /\ \E q \in Nat : At(reader, 1, q) /\ Holds(perm, 1, scan.offset[1][1], q)
    <3>1. Begun + 1 = 1
      BY <1>2
    <3> QED BY <1>2, <3>1 DEF Between
  <2>2. 1 \in DOMAIN scan.code
    BY <1>3, <2>1
  <2>3. IsFirst(1) /\ Interval(1) = 1
    <3>1. CASE scan.interval = 0
      BY <3>1 DEF IsFirst, FirstIn, Interval, IntervalIn
    <3>2. CASE scan.interval # 0
      <4>1. (1 - 1) % scan.interval = 0 /\ (1 - 1) \div scan.interval = 0
        BY <1>3, <3>2
      <4> QED BY <3>2, <4>1 DEF IsFirst, FirstIn, Interval, IntervalIn
    <3> QED BY <3>1, <3>2
  <2>4. Reached(1) /\ scan.offset[1][1] = 0
    BY <1>1, <2>1, <2>2, <2>3, IntervalIs, OffsetIs
  <2>5. pred = Left(1)
    BY <1>1, <2>3 DEF Left
  <2>6. Holds(perm, 1, 0, 1)
    <3>1. Len(perm) = 0 /\ scan.start[1] = 1
      BY <1>1, <1>6, <2>4
    <3>2. (1 - 1) * ByteBits - 0 = 0
      BY Constants
    <3> QED BY <3>1, <3>2 DEF Holds
  <2> QED BY <1>6, <2>4, <2>5, <2>6
<1> QED BY <1>4, <1>5, <1>7, <1>8, <1>9 DEF IInv

LEMMA NextInvariant ==
  ASSUME IInv, [Next]_vars
  PROVE  IInv'
<1>1. CASE StartMCU
  BY <1>1, StartStep
<1>2. CASE RestartAndStartMCU
  BY <1>2, RestartStep
<1>3. CASE ReadRight
  BY <1>3, ReadRightStep
<1>4. CASE Stray
  BY <1>4, StrayStep
<1>5. CASE ReadShort
  BY <1>5, ReadShortStep
<1>6. ASSUME NEW n \in 1..GarbageBits, NEW isCode \in BOOLEAN, ReadWrong(n, isCode)
      PROVE  IInv'
  <2>1. n \in Nat
    BY RestartAssumption
  <2> QED BY <1>6, <2>1, ReadWrongStep
<1>7. CASE UNCHANGED vars
  <2>1. /\ scan' = scan /\ reader' = reader /\ perm' = perm /\ pred' = pred
        /\ toGo' = toGo /\ busy' = busy /\ seen' = seen /\ reads' = reads /\ got' = got
    BY <1>7 DEF vars
  <2>2. Begun' = Begun
    BY <2>1 DEF Begun
  <2>3. Current' = Current
    BY <2>1, <2>2 DEF Current, Interval
  <2>4. TypeOK' /\ Counted' /\ DamageContained'
    BY <2>1, <2>2, <2>3
       DEF IInv, TypeOK, Counted, DamageContained, Interval, Sound
  <2>5. Anchored'
    BY <2>1, <2>3 DEF IInv, Anchored, Reached, Sound, At, Stop, Rest
  <2>6. InMCU'
    BY <2>1, <2>2, <2>3
       DEF IInv, InMCU, Sound, At, Stop, Rest, Holds, BitAt, Left, IsFirst
  <2>7. Between'
    BY <2>1, <2>2, <2>3
       DEF IInv, Between, Sound, Restarting, At, Stop, Rest, Holds, BitAt, Left, IsFirst
  <2> QED BY <2>4, <2>5, <2>6, <2>7 DEF IInv
<1> QED BY <1>1, <1>2, <1>3, <1>4, <1>5, <1>6, <1>7 DEF Next

(* Whatever the damage, every MCU of an interval whose bytes are whole and  *)
(* whose markers in front are there is decoded from its own bits, with the  *)
(* DC predictions of its interval: processRestartMarker finds the marker    *)
(* wherever the reader was left, and its resets undo everything before.     *)
THEOREM DamageContainedHolds == Spec => []DamageContained
<1>1. Init => IInv
  BY InitInvariant
<1>2. IInv /\ [Next]_vars => IInv'
  BY NextInvariant
<1>3. IInv => DamageContained
  BY DEF IInv
<1> QED BY <1>1, <1>2, <1>3, PTL DEF Spec
-----------------------------------------------------------------------------
(* Where MCUs show up.  MCU m may show up in interval i.                    *)
Own(i, m) == IF scan.lost = {} THEN Interval(m) = i ELSE Interval(m) >= i

OwnBits(buf, i) == \A b \in DOMAIN buf : buf[b] # Zero => Own(i, buf[b][1])

Before(p) == MarkersBefore(scan, p)

(* The reader has passed as many markers as there are intervals before i.   *)
Ahead(r, i) ==
  \E q \in 1..Len(scan.data) + 1 :
    /\ r.data = Rest(q)
    /\ q <= Len(scan.data) => Before(q) + 1 = i + (IF r.unread THEN 1 ELSE 0)

Within(r, i) == TypedReader(r) /\ OwnBits(r.buf, i) /\ Ahead(r, i)

(* The MCUs of the current interval that are done with.                     *)
Done == Len(got) - (IF scan.interval = 0 THEN 0 ELSE (Current - 1) * scan.interval)

(* The predictions are those of the last MCU decoded right.                 *)
Tracked ==
  /\ pred \in (DOMAIN scan.code) \cup {Reset, Spoilt}
  /\ pred \in DOMAIN scan.code => Slot(pred) <= Done
  /\ pred # Spoilt =>
       \A k \in DOMAIN got : got[k] # Wrong /\ Interval(k) = Current => got[k] <= pred

(* The inductive invariant of this part.                                    *)
PInv ==
  /\ Within(reader, Current) /\ OwnBits(perm, Current)
  /\ busy /\ seen # Wrong => Own(Current, seen)
  /\ Tracked /\ Placed


-----------------------------------------------------------------------------
(* Markers in front of a byte.                                              *)
LEMMA BeforeIs ==
  ASSUME scan \in Scans, NEW q \in Nat \ {0}, NEW p \in Nat, q <= p,
         p <= Len(scan.data) + 1, \A a \in q..p - 1 : scan.data[a] # Marker
  PROVE  /\ Before(q) \in Nat /\ Before(p) = Before(q)
         /\ p <= Len(scan.data) /\ scan.data[p] = Marker => Before(p + 1) = Before(q) + 1
<1> DEFINE M(x) == {a \in 1..x - 1 : scan.data[a] = Marker}
<1>1. \A x : Before(x) = Cardinality(M(x))
  BY DEF Before, MarkersBefore
<1>2. ASSUME NEW x \in Nat PROVE IsFiniteSet(M(x)) /\ Cardinality(M(x)) \in Nat
  <2>1. IsFiniteSet(1..x - 1)
    BY FS_Interval
  <2>2. IsFiniteSet(M(x))
    BY <2>1, FS_Subset
  <2> QED BY <2>2, FS_CardinalityType
<1>3. M(p) = M(q)
  <2>1. \A a \in 1..p - 1 : a \in 1..q - 1 \/ a \in q..p - 1
    OBVIOUS
  <2>2. 1..q - 1 \subseteq 1..p - 1
    OBVIOUS
  <2> QED BY <2>1, <2>2
<1>4. ASSUME p <= Len(scan.data), scan.data[p] = Marker
      PROVE  Before(p + 1) = Before(q) + 1
  <2>1. M(p + 1) = M(p) \cup {p}
    <3>1. (p + 1) - 1 = p /\ p \in 1..p /\ 1..p = (1..p - 1) \cup {p}
      OBVIOUS
    <3> QED BY <1>4, <3>1
  <2>2. p \notin M(p)
    OBVIOUS
  <2>3. IsFiniteSet(M(p))
    BY <1>2
  <2> HIDE DEF M
  <2>4. Cardinality(M(p) \cup {p}) = Cardinality(M(p)) + 1
    BY <2>2, <2>3, FS_AddElement
  <2> QED BY <1>1, <1>3, <2>1, <2>4
<1> HIDE DEF M
<1> QED BY <1>1, <1>2, <1>3, <1>4

(* The bits of a byte belong to the interval behind the markers before it.  *)
LEMMA OwnByte ==
  ASSUME scan \in Scans, NEW p \in 1..Len(scan.data), scan.data[p] # Marker,
         NEW i \in Nat, Before(p) + 1 = i, NEW b \in 1..ByteBits,
         scan.data[p][b] # Zero
  PROVE  Own(i, scan.data[p][b][1])
<1> DEFINE x == scan.data[p][b]
           m == x[1]
<1>1. /\ scan.data \in Seq(ByteIn(scan)) /\ Confined(scan)
      /\ Len(scan.data) \in Nat
  BY RestartAssumption DEF TypedScan
<1>2. x \in BitIn(scan)
  <2>1. scan.data[p] \in Seq(BitIn(scan)) /\ Len(scan.data[p]) = ByteBits
    BY <1>1 DEF ByteIn
  <2> QED BY <2>1
<1>3. m \in DOMAIN scan.code
  BY <1>2 DEF BitIn
<1>4. Interval(m) \in Nat \ {0}
  BY <1>3, IntervalIs
<1>5. /\ Before(p) <= Interval(m) - 1
      /\ scan.lost = {} => Before(p) = Interval(m) - 1
  BY <1>1 DEF Confined, Before, Interval
<1>6. Before(p) \in Nat
  <2>1. p \in Nat \ {0} /\ p <= p /\ p <= Len(scan.data) + 1
        /\ \A a \in p..p - 1 : scan.data[a] # Marker
    BY <1>1
  <2> QED BY <2>1, BeforeIs
<1> HIDE DEF m
<1>7. Own(i, m)
  BY <1>4, <1>5, <1>6 DEF Own
<1> QED BY <1>7 DEF m

LEMMA FillWithin ==
  ASSUME scan \in Scans, NEW i \in Nat, NEW r, Within(r, i), NEW n \in Nat
  PROVE  Within(Fill(r, n), i)
<1> DEFINE f == Fill(r, n)
           k == Taken(r)
           loaded == Loaded(r)
           short == Wanted(loaded) > 0 /\ ~r.unread
           hit == short /\ k < Len(r.data)
           N == Len(scan.data)
           t == MarkerAt(r.data)
<1>1. /\ TypedReader(r) /\ r.buf \in Seq(BitIn(scan)) /\ r.data \in Seq(ByteIn(scan))
      /\ r.unread \in BOOLEAN /\ OwnBits(r.buf, i)
  BY DEF Within, TypedReader
<1>2. PICK q \in 1..N + 1 :
        r.data = Rest(q) /\ (q <= N => Before(q) + 1 = i + (IF r.unread THEN 1 ELSE 0))
  BY DEF Within, Ahead
<1>3. /\ f.unread = (r.unread \/ hit)
      /\ f.buf = IF (r.unread \/ hit) /\ n > Len(loaded)
                 THEN loaded \o Zeros(MinGet - Len(loaded)) ELSE loaded
      /\ f.data = SubSeq(r.data, IF hit THEN k + 2 ELSE k + 1, Len(r.data))
  BY DEF Fill, Loaded
<1>4. /\ N \in Nat /\ Len(r.data) = N + 1 - q
      /\ \A a \in 1..N + 1 - q : r.data[a] = scan.data[q + a - 1]
      /\ \A a \in 1..N + 2 - q : SubSeq(r.data, a, Len(r.data)) = Rest(q + a - 1)
  <2>1. N \in Nat
    BY ScanIs
  <2>2. /\ Len(Rest(q)) = N + 1 - q
        /\ \A a \in 1..N + 1 - q : Rest(q)[a] = scan.data[q + a - 1]
        /\ \A a \in 1..N + 2 - q : SubSeq(Rest(q), a, Len(Rest(q))) = Rest(q + a - 1)
    BY RestIs
  <2> QED BY <1>2, <2>1, <2>2
<1>5. /\ k \in 0..t - 1 /\ k \in Nat /\ k <= Len(r.data) /\ t \in Nat \ {0}
      /\ r.unread => k = 0
      /\ ~r.unread => k = Wanted(r.buf) \/ k = t - 1
  BY <1>1, TakenBounds
<1>6. /\ \A a \in 1..t - 1 : a \in DOMAIN r.data /\ r.data[a] # Marker
      /\ t <= Len(r.data) => r.data[t] = Marker
  BY <1>1, FirstMarker
<1> DEFINE z == BitsOf(r.data, k)
<1>7. /\ z \in Seq(BitIn(scan)) /\ Len(z) = k * ByteBits /\ k * ByteBits \in Nat
      /\ \A b \in 1..k * ByteBits :
           /\ (b - 1) \div ByteBits \in 0..k - 1
           /\ z[b] = r.data[(b - 1) \div ByteBits + 1][((b - 1) % ByteBits) + 1]
  BY <1>1, <1>5, BitsAre
<1>8. loaded = r.buf \o z
  BY DEF Loaded
<1> HIDE DEF f, k, loaded, N, t, z
<1>15. N \in Nat /\ k \in Nat /\ q \in 1..N + 1 /\ k <= N + 1 - q
  BY <1>2, <1>4, <1>5
<1>9. TypedReader(f)
  <2>1. f \in ReaderOK
    BY <1>1, FillType DEF f
  <2> QED BY <2>1, ReaderOKIs
<1>10. /\ loaded \in Seq(BitIn(scan)) /\ Len(loaded) = Len(r.buf) + k * ByteBits
       /\ \A b \in 1..Len(loaded) :
            loaded[b] = IF b <= Len(r.buf) THEN r.buf[b] ELSE z[b - Len(r.buf)]
  <2> DEFINE a == r.buf
  <2>1. a \in Seq(BitIn(scan)) /\ z \in Seq(BitIn(scan))
    BY <1>1, <1>7
  <2> HIDE DEF a
  <2>2. /\ a \o z \in Seq(BitIn(scan)) /\ Len(a \o z) = Len(a) + Len(z)
        /\ \A b \in 1..Len(a) + Len(z) :
             (a \o z)[b] = IF b <= Len(a) THEN a[b] ELSE z[b - Len(a)]
    BY <2>1, ConcatProperties
  <2> QED BY <1>7, <1>8, <2>2 DEF a
<1>11. \A a \in q..q + k - 1 : a \in 1..N /\ scan.data[a] # Marker
  <2>1. ASSUME NEW a \in q..q + k - 1 PROVE a \in 1..N /\ scan.data[a] # Marker
    <3>1. a - q + 1 \in 1..t - 1 /\ a - q + 1 \in 1..N + 1 - q /\ q + (a - q + 1) - 1 = a
      BY <1>2, <1>4, <1>5
    <3>2. a \in 1..N
      BY <1>2, <1>4, <1>5
    <3> QED BY <1>4, <1>6, <3>1, <3>2
  <2> QED BY <2>1
<1>12. OwnBits(loaded, i)
  <2>1. ASSUME NEW b \in 1..Len(loaded), loaded[b] # Zero PROVE Own(i, loaded[b][1])
    <3>1. CASE b <= Len(r.buf)
      <4>1. b \in DOMAIN r.buf /\ loaded[b] = r.buf[b]
        BY <1>1, <1>10, <3>1
      <4> QED BY <1>1, <2>1, <4>1 DEF OwnBits
    <3>2. CASE ~(b <= Len(r.buf))
      <4> DEFINE c == b - Len(r.buf)
                 p == (c - 1) \div ByteBits
                 x == ((c - 1) % ByteBits) + 1
      <4>1. c \in 1..k * ByteBits /\ loaded[b] = z[c]
        BY <1>1, <1>7, <1>10, <3>2, SMTT(30)
      <4>2. p \in 0..k - 1 /\ z[c] = r.data[p + 1][x]
        BY <1>7, <4>1
      <4>3. x \in 1..ByteBits
        <5>1. c - 1 \in Nat /\ ByteBits \in Nat \ {0}
          BY <1>7, <4>1, Constants
        <5> HIDE DEF c
        <5> QED BY <5>1
      <4> HIDE DEF c, p, x
      <4>4. q + p \in q..q + k - 1 /\ p + 1 \in 1..N + 1 - q /\ q + (p + 1) - 1 = q + p
        BY <1>2, <1>4, <1>5, <4>2
      <4>5. r.data[p + 1] = scan.data[q + p] /\ q + p \in 1..N /\ scan.data[q + p] # Marker
        BY <1>4, <1>11, <4>4
      <4>6. Before(q + p) + 1 = i
        <5>0. p \in 0..k - 1
          BY <4>2
        <5>1. ~r.unread /\ q <= N
          <6>1. k # 0 /\ q <= N
            BY ONLY <1>15, <5>0
          <6> QED BY <1>1, <1>5, <6>1
        <5>2. q \in Nat \ {0} /\ q + p \in Nat /\ q <= q + p /\ q + p <= N + 1
          BY ONLY <1>15, <5>0
        <5>3. \A a \in q..(q + p) - 1 : scan.data[a] # Marker
          <6>1. \A a \in q..(q + p) - 1 : a \in q..q + k - 1
            BY <1>2, <1>5, <4>2
          <6> QED BY <1>11, <6>1
        <5>4. Before(q + p) = Before(q)
          BY <5>2, <5>3, BeforeIs DEF N
        <5> QED BY <1>2, <5>1, <5>4
      <4> QED BY <2>1, <4>1, <4>2, <4>3, <4>5, <4>6, OwnByte DEF N
    <3> QED BY <3>1, <3>2
  <2>2. DOMAIN loaded = 1..Len(loaded)
    BY <1>10
  <2> QED BY <2>1, <2>2 DEF OwnBits
<1>13. OwnBits(f.buf, i)
  <2>1. CASE f.buf = loaded
    BY <1>12, <2>1
  <2>2. CASE f.buf # loaded
    <3> DEFINE y == Zeros(MinGet - Len(loaded))
    <3>1. f.buf = loaded \o y
      BY <1>3, <2>2
    <3>2. MinGet - Len(loaded) \in Int
      BY <1>10, Constants
    <3>3. y \in Seq(BitIn(scan))
      BY <3>2, ZerosAre
    <3>4. \A b \in DOMAIN y : y[b] = Zero
      BY DEF Zeros
    <3> HIDE DEF y
    <3>5. /\ Len(loaded \o y) = Len(loaded) + Len(y) /\ loaded \o y \in Seq(BitIn(scan))
          /\ \A b \in 1..Len(loaded) + Len(y) :
               (loaded \o y)[b] = IF b <= Len(loaded) THEN loaded[b] ELSE y[b - Len(loaded)]
      BY <1>10, <3>3, ConcatProperties
    <3>6. ASSUME NEW b \in 1..Len(loaded) + Len(y), (loaded \o y)[b] # Zero
          PROVE  b \in DOMAIN loaded /\ (loaded \o y)[b] = loaded[b]
      <4>1. CASE b <= Len(loaded)
        BY <1>10, <3>5, <4>1
      <4>2. CASE ~(b <= Len(loaded))
        <5>1. b - Len(loaded) \in DOMAIN y
          BY <1>10, <3>3, <4>2
        <5> QED BY <3>4, <3>5, <3>6, <4>2, <5>1
      <4> QED BY <4>1, <4>2
    <3>7. DOMAIN (loaded \o y) = 1..Len(loaded) + Len(y)
      BY <3>5
    <3> QED BY <1>12, <3>1, <3>6, <3>7 DEF OwnBits
  <2> QED BY <2>1, <2>2
<1>14. Ahead(f, i)
  <2>0. \A p : p \in 1..N + 1 /\ f.data = Rest(p)
               /\ (p <= N => Before(p) + 1 = i + (IF f.unread THEN 1 ELSE 0)) => Ahead(f, i)
    BY DEF Ahead, N
  <2>1. q \in Nat \ {0} /\ q + k \in Nat /\ q <= q + k /\ q + k <= N + 1
        /\ \A a \in q..(q + k) - 1 : scan.data[a] # Marker
    BY <1>2, <1>4, <1>5, <1>11
  <2>2. /\ Before(q) \in Nat /\ Before(q + k) = Before(q)
        /\ q + k <= N /\ scan.data[q + k] = Marker => Before(q + k + 1) = Before(q) + 1
    BY <2>1, BeforeIs DEF N
  <2>3. CASE hit
    <3>1. k # Wanted(r.buf)
      <4>1. SUFFICES ASSUME k = Wanted(r.buf) PROVE FALSE
        OBVIOUS
      <4>2. Len(loaded) >= MinGet /\ Len(loaded) \in Nat
        BY <1>1, <1>10, <4>1, WantedIs
      <4>3. ~(Wanted(loaded) > 0)
        BY <4>2, WantedIs, Constants
      <4> QED BY <2>3, <4>3
    <3>2. k = t - 1 /\ t <= Len(r.data) /\ ~r.unread
      BY <1>1, <1>4, <1>5, <2>3, <3>1
    <3>3. scan.data[q + k] = Marker /\ q + k <= N /\ q <= N
      <4>1. t \in Nat \ {0} /\ t <= N + 1 - q /\ k = t - 1
        BY <1>4, <1>5, <3>2
      <4>2. /\ k + 1 \in 1..N + 1 - q /\ q + (k + 1) - 1 = q + k /\ k + 1 = t
            /\ q + k <= N /\ q <= N
        BY ONLY <1>15, <4>1
      <4>3. r.data[k + 1] = scan.data[q + k]
        BY <1>4, <4>2
      <4>4. r.data[t] = Marker
        BY <1>6, <3>2, Zenon
      <4> QED BY <4>2, <4>3, <4>4, Zenon
    <3>4. k + 2 \in 1..N + 2 - q /\ q + (k + 2) - 1 = q + k + 1 /\ q + k + 1 \in 1..N + 1
      BY <1>2, <1>4, <1>5, <3>3
    <3>5. f.data = Rest(q + k + 1) /\ f.unread = TRUE
      BY <1>3, <1>4, <2>3, <3>4
    <3>6. Before(q + k + 1) + 1 = i + 1
      BY <1>2, <2>2, <3>2, <3>3
    <3> QED BY <2>0, <3>4, <3>5, <3>6
  <2>4. CASE ~hit
    <3>1. k + 1 \in 1..N + 2 - q /\ q + (k + 1) - 1 = q + k /\ q + k \in 1..N + 1
      BY <1>2, <1>4, <1>5
    <3>2. f.data = Rest(q + k) /\ f.unread = r.unread
      BY <1>1, <1>3, <1>4, <2>4, <3>1
    <3>3. q + k <= N => Before(q + k) + 1 = i + (IF r.unread THEN 1 ELSE 0)
      BY <1>2, <1>4, <1>5, <2>2
    <3> QED BY <2>0, <3>1, <3>2, <3>3
  <2> QED BY <2>3, <2>4
<1> QED BY <1>9, <1>13, <1>14 DEF Within, f

LEMMA FillIfWithin ==
  ASSUME scan \in Scans, NEW i \in Nat, NEW r, Within(r, i), NEW n \in Nat,
         NEW short \in BOOLEAN
  PROVE  Within(FillIf(short, r, n), i)
<1>1. CASE short
  BY <1>1, FillWithin DEF FillIf
<1>2. CASE ~short
  BY <1>2 DEF FillIf, Kept, Within, TypedReader, OwnBits, Ahead
<1> QED BY <1>1, <1>2

(* Whatever a read loads belongs to the interval the reader is in.          *)
LEMMA LoadWithin ==
  ASSUME scan \in Scans, NEW i \in Nat, NEW r, Within(r, i), NEW n \in Nat,
         NEW isCode \in BOOLEAN
  PROVE  Within(Load(r, n, isCode), i)
<1>1. CASE ~isCode
  <2>1. (Len(r.buf) < n) \in BOOLEAN
    OBVIOUS
  <2>2. Within(FillIf(Len(r.buf) < n, r, n), i)
    BY <2>1, FillIfWithin
  <2> QED BY <1>1, <2>2 DEF Load
<1>2. CASE isCode
  <2> DEFINE ahead == FillIf(Len(r.buf) < HuffLookahead, r, 0)
             more == FillIf(Len(ahead.buf) < n, ahead, n)
             ok == Len(more.buf) >= n \/ Len(ahead.buf) = HuffLookahead
  <2>1. Within(ahead, i)
    <3>1. (Len(r.buf) < HuffLookahead) \in BOOLEAN /\ 0 \in Nat
      OBVIOUS
    <3> QED BY <3>1, FillIfWithin
  <2>2. Within(more, i) /\ more \in ReaderOK
    <3>1. (Len(ahead.buf) < n) \in BOOLEAN
      OBVIOUS
    <3>2. TypedReader(ahead)
      BY <2>1 DEF Within
    <3> HIDE DEF ahead
    <3> QED BY <2>1, <3>1, <3>2, FillIfWithin, FillIfType
  <2>3. Load(r, n, isCode) = IF ~ahead.ok THEN ahead ELSE [more EXCEPT !.ok = ok]
    BY <1>2 DEF Load, LoadCode
  <2> HIDE DEF ahead, more, ok
  <2>4. Within([more EXCEPT !.ok = ok], i)
    <3> DEFINE e == [more EXCEPT !.ok = ok]
    <3>1. e.buf = more.buf /\ e.data = more.data /\ e.unread = more.unread
      BY <2>2 DEF ReaderOK
    <3> HIDE DEF e
    <3> QED BY <2>2, <3>1 DEF Within, TypedReader, OwnBits, Ahead
  <2> QED BY <2>1, <2>3, <2>4
<1> QED BY <1>1, <1>2

LEMMA SkipWithin ==
  ASSUME NEW i, NEW r, Within(r, i), NEW n \in Nat
  PROVE  Within(Skip(r, n), i)
<1> DEFINE l == Len(r.buf)
           s == SubSeq(r.buf, n + 1, l)
<1>1. TypedReader(r) /\ OwnBits(r.buf, i) /\ Ahead(r, i) /\ r.buf \in Seq(BitIn(scan))
  BY DEF Within, TypedReader
<1>2. Skip(r, n).buf = s /\ Skip(r, n).data = r.data /\ Skip(r, n).unread = r.unread
  BY DEF Skip
<1>3. OwnBits(s, i)
  <2>1. CASE n <= l
    <3>1. n + 1 \in 1..l + 1 /\ l \in Nat
      BY <1>1, <2>1
    <3>2. /\ s \in Seq(BitIn(scan)) /\ Len(s) = l + 1 - (n + 1)
          /\ \A b \in 1..l + 1 - (n + 1) : s[b] = r.buf[(n + 1) + b - 1]
      BY <1>1, <3>1, Suffix
    <3>3. DOMAIN s = 1..l - n /\ DOMAIN r.buf = 1..l
      BY <1>1, <3>1, <3>2
    <3> HIDE DEF l, s
    <3>4. ASSUME NEW b \in 1..l - n, s[b] # Zero PROVE Own(i, s[b][1])
      <4>1. (n + 1) + b - 1 \in 1..l /\ b \in 1..l + 1 - (n + 1)
        BY <3>1
      <4>2. s[b] = r.buf[(n + 1) + b - 1]
        BY <3>2, <4>1
      <4> QED BY <1>1, <3>3, <3>4, <4>1, <4>2 DEF OwnBits
    <3> QED BY <3>3, <3>4 DEF OwnBits
  <2>2. CASE ~(n <= l)
    <3>1. s = <<>>
      BY <1>1, <2>2
    <3> HIDE DEF s
    <3>2. DOMAIN s = {}
      BY <3>1
    <3> QED BY <3>2 DEF OwnBits
  <2> QED BY <2>1, <2>2
<1>4. TypedReader(Skip(r, n))
  BY <1>1, SkipIs
<1>5. Ahead(Skip(r, n), i)
  BY <1>1, <1>2 DEF Ahead
<1> QED BY <1>2, <1>3, <1>4, <1>5 DEF Within

(* A restart takes the reader past one marker, met or not.                  *)
LEMMA AfterMarkerWithin ==
  ASSUME scan \in Scans, NEW i \in Nat, NEW r, Within(r, i)
  PROVE  Within([buf |-> <<>>, data |-> AfterMarker(r), unread |-> FALSE], i + 1)
<1> DEFINE e == [buf |-> <<>>, data |-> AfterMarker(r), unread |-> FALSE]
           N == Len(scan.data)
           t == MarkerAt(r.data)
<1>1. /\ TypedReader(r) /\ r.data \in Seq(ByteIn(scan)) /\ r.unread \in BOOLEAN
  BY DEF Within, TypedReader
<1>2. PICK q \in 1..N + 1 :
        r.data = Rest(q) /\ (q <= N => Before(q) + 1 = i + (IF r.unread THEN 1 ELSE 0))
  BY DEF Within, Ahead
<1>3. TypedReader(e) /\ OwnBits(e.buf, i + 1)
  <2>1. AfterMarker(r) \in Seq(ByteIn(scan)) /\ <<>> \in Seq(BitIn(scan))
    BY <1>1, AfterMarkerType
  <2> QED BY <2>1 DEF TypedReader, OwnBits
<1>4. \A p : p \in 1..N + 1 /\ AfterMarker(r) = Rest(p)
             /\ (p <= N => Before(p) + 1 = i + 1) => Ahead(e, i + 1)
  <2>1. e.data = AfterMarker(r) /\ e.unread = FALSE /\ (i + 1) + 0 = i + 1
    OBVIOUS
  <2> HIDE DEF e
  <2> QED BY <2>1 DEF Ahead
<1>5. Ahead(e, i + 1)
  <2> HIDE DEF e, N, t
  <2>1. CASE r.unread
    BY <1>2, <1>4, <2>1 DEF AfterMarker
  <2>2. CASE ~r.unread
    <3>1. AfterMarker(r) = SubSeq(r.data, t + 1, Len(r.data))
      BY <2>2 DEF AfterMarker, t
    <3>2. /\ t \in 1..Len(r.data) + 1 /\ \A a \in 1..t - 1 : r.data[a] # Marker
          /\ t <= Len(r.data) => r.data[t] = Marker
      BY <1>1, FirstMarker DEF t
    <3>3. /\ N \in Nat /\ Len(r.data) = N + 1 - q
          /\ \A a \in 1..N + 1 - q : r.data[a] = scan.data[q + a - 1]
          /\ \A a \in 1..N + 2 - q : SubSeq(r.data, a, Len(r.data)) = Rest(q + a - 1)
      <4>1. N \in Nat
        BY ScanIs DEF N
      <4>2. /\ Len(Rest(q)) = N + 1 - q
            /\ \A a \in 1..N + 1 - q : Rest(q)[a] = scan.data[q + a - 1]
            /\ \A a \in 1..N + 2 - q : SubSeq(Rest(q), a, Len(Rest(q))) = Rest(q + a - 1)
        BY RestIs DEF N
      <4> QED BY <1>2, <4>1, <4>2
    <3>4. CASE t <= Len(r.data)
      <4> DEFINE p == q + t - 1
      <4>1. p \in q..N /\ t \in 1..N + 1 - q /\ t + 1 \in 1..N + 2 - q
        BY <1>2, <3>2, <3>3, <3>4
      <4>2. \A a \in q..p - 1 : scan.data[a] # Marker
        <5>1. ASSUME NEW a \in q..p - 1 PROVE scan.data[a] # Marker
          <6>1. a - q + 1 \in 1..t - 1 /\ a - q + 1 \in 1..N + 1 - q
                /\ q + (a - q + 1) - 1 = a
            <7>1. q \in Nat /\ t \in Nat /\ a \in q..(q + t - 1) - 1 /\ t <= N + 1 - q
              BY <1>2, <4>1
            <7>2. N \in Nat
              BY <3>3
            <7> QED BY ONLY <7>1, <7>2
          <6> QED BY <3>2, <3>3, <6>1
        <5> QED BY <5>1
      <4>3. scan.data[p] = Marker
        BY <3>2, <3>3, <3>4, <4>1
      <4>4. q \in Nat \ {0} /\ p \in Nat /\ q <= p /\ p <= N + 1 /\ p <= N /\ q <= N
        BY <1>2, <3>3, <4>1
      <4> HIDE DEF p
      <4>5. Before(p + 1) = Before(q) + 1 /\ Before(q) + 1 = i
        BY <1>2, <2>2, <4>2, <4>3, <4>4, BeforeIs DEF N
      <4>6. AfterMarker(r) = Rest(p + 1)
        <5>1. q + (t + 1) - 1 = p + 1
          BY <1>2, <3>2, <3>3 DEF p
        <5> QED BY <3>1, <3>3, <4>1, <5>1
      <4>7. p + 1 \in 1..N + 1
        BY <3>3, <4>4
      <4> QED BY <1>4, <4>5, <4>6, <4>7
    <3>5. CASE ~(t <= Len(r.data))
      <4>1. t = Len(r.data) + 1 /\ Len(r.data) \in Nat
        BY <1>1, <3>2, <3>5
      <4>2. AfterMarker(r) = <<>>
        BY <1>1, <3>1, <4>1
      <4>3. Rest(N + 1) = <<>>
        <5>1. N + 1 \in 1..N + 1 /\ N + 1 - (N + 1) = 0
          BY <3>3
        <5>2. Rest(N + 1) \in Seq(ByteIn(scan)) /\ Len(Rest(N + 1)) = 0
          BY <5>1, RestIs DEF N
        <5> QED BY <5>2
      <4>4. N + 1 \in 1..N + 1 /\ ~(N + 1 <= N)
        BY <3>3
      <4> QED BY <1>4, <4>2, <4>3, <4>4
    <3> QED BY <3>4, <3>5
  <2> QED BY <1>1, <2>1, <2>2
<1> QED BY <1>3, <1>5 DEF Within

LEMMA UpcomingOwn ==
  ASSUME scan \in Scans, NEW i \in Nat, NEW r, Within(r, i), Upcoming(r) # Wrong
  PROVE  Own(i, Upcoming(r))
<1> DEFINE z == LoadCode(r, 1)
<1>1. Within(z, i)
  <2>1. Within(Load(r, 1, TRUE), i)
    BY LoadWithin
  <2> QED BY <2>1 DEF Load
<1> HIDE DEF z
<1>2. z.buf \in Seq(BitIn(scan)) /\ OwnBits(z.buf, i)
  BY <1>1 DEF Within, TypedReader
<1>3. z.buf # <<>> /\ z.buf[1][2] = 1 /\ Upcoming(r) = z.buf[1][1]
  BY DEF Upcoming, z
<1>4. z.buf[1] # Zero /\ 1 \in DOMAIN z.buf
  BY <1>2, <1>3 DEF Zero
<1> QED BY <1>2, <1>3, <1>4 DEF OwnBits

(* Places within an interval.                                               *)
LEMMA SlotIs ==
  ASSUME scan \in Scans, NEW m \in DOMAIN scan.code
  PROVE  /\ Slot(m) \in Nat \ {0}
         /\ IF scan.interval = 0 THEN Slot(m) = m
            ELSE m = (Interval(m) - 1) * scan.interval + Slot(m)
         /\ IsFirst(m) => Slot(m) = 1
         /\ ~IsFirst(m) => m - 1 \in DOMAIN scan.code /\ Slot(m) = Slot(m - 1) + 1
<1> DEFINE n == scan.interval
           l == Len(scan.code)
<1>1. n \in Nat /\ l \in Nat /\ m \in 1..l /\ DOMAIN scan.code = 1..l
  BY ScanIs
<1>2. CASE n = 0
  <2>1. Slot(m) = m /\ Slot(m - 1) = m - 1 /\ (IsFirst(m) <=> m = 1)
    BY <1>2 DEF Slot, IsFirst, FirstIn
  <2> HIDE DEF n, l
  <2> QED BY <1>1, <1>2, <2>1 DEF n
<1>3. CASE n # 0
  <2> DEFINE a == (m - 1) \div n
             c == (m - 1) % n
             d == ((m - 1) - 1) % n
  <2>1. /\ Interval(m) = a + 1 /\ Slot(m) = c + 1 /\ Slot(m - 1) = d + 1
        /\ IsFirst(m) <=> c = 0
    BY <1>3 DEF Slot, IsFirst, FirstIn, Interval, IntervalIn
  <2> HIDE DEF n, l
  <2>2. a \in Nat /\ c \in Nat /\ c < n /\ m - 1 = a * n + c /\ a * n \in Nat
    <3>1. m - 1 \in Nat /\ n \in Nat \ {0}
      BY <1>1, <1>3
    <3>2. a \in Nat /\ c \in Nat /\ c < n /\ m - 1 = a * n + c
      BY <3>1, DivisionIs
    <3> HIDE DEF a, c
    <3>3. a * n \in Nat
      BY <3>1, <3>2
    <3> QED BY <3>2, <3>3
  <2> HIDE DEF a, c
  <2>3. (a + 1) - 1 = a /\ c + 1 \in Nat \ {0} /\ m = a * n + (c + 1)
    BY <1>1, <2>2
  <2>4. ASSUME c # 0 PROVE m - 1 \in 1..l /\ c + 1 = (d + 1) + 1
    <3>1. c - 1 \in Nat /\ c - 1 < n /\ (m - 1) - 1 = a * n + (c - 1) /\ n \in Nat \ {0}
      <4> DEFINE e == a * n
      <4>1. e \in Nat /\ m - 1 = e + c /\ c \in Nat /\ c < n /\ n \in Nat /\ m \in Nat
        BY <1>1, <2>2
      <4> HIDE DEF e
      <4>2. c - 1 \in Nat /\ c - 1 < n /\ (m - 1) - 1 = e + (c - 1) /\ n \in Nat \ {0}
        BY <2>4, <4>1
      <4> QED BY <4>2 DEF e
    <3>2. (a * n + (c - 1)) % n = (c - 1) % n
      BY <2>2, <3>1, WholeBytes
    <3>3. (c - 1) % n = c - 1
      <4> DEFINE e == c - 1
      <4>1. e \in Nat /\ e < n /\ n \in Nat \ {0}
        BY <3>1
      <4> HIDE DEF e
      <4>2. e % n = e
        BY <4>1
      <4> QED BY <4>2 DEF e
    <3>4. d = c - 1
      BY <3>1, <3>2, <3>3
    <3>5. m - 1 \in 1..l
      <4>1. (m - 1) - 1 \in Nat
        BY <2>2, <3>1
      <4> QED BY <1>1, <4>1
    <3> QED BY <2>2, <3>4, <3>5
  <2>5. m = (Interval(m) - 1) * n + Slot(m) /\ Slot(m) \in Nat \ {0}
    BY <2>1, <2>3
  <2>6. ~IsFirst(m) => m - 1 \in DOMAIN scan.code /\ Slot(m) = Slot(m - 1) + 1
    BY <1>1, <2>1, <2>4
  <2> HIDE DEF d
  <2>7. IsFirst(m) => Slot(m) = 1
    BY <2>1
  <2> QED BY <1>3, <2>5, <2>6, <2>7 DEF n
<1> QED BY <1>2, <1>3

(* The MCU being read takes the next place.                                 *)
LEMMA NextPlace ==
  ASSUME TypeOK, busy
  PROVE  /\ Done \in Nat /\ Slot(Begun) = Done + 1
         /\ Begun = Len(got) + 1 /\ Interval(Begun) = Current
         /\ Current \in Nat \ {0} /\ Len(got) \in Nat /\ scan \in Scans
<1>1. /\ scan \in Scans /\ Begun \in Nat /\ Len(got) \in Nat /\ scan.interval \in Nat
      /\ Begun = Len(got) + 1 /\ Begun \in DOMAIN scan.code
  BY TypesIs
<1>2. Current = Interval(Begun) /\ Current \in Nat \ {0}
  BY CurrentOfBusy
<1>3. /\ Slot(Begun) \in Nat \ {0}
      /\ IF scan.interval = 0 THEN Slot(Begun) = Begun
         ELSE Begun = (Interval(Begun) - 1) * scan.interval + Slot(Begun)
  BY <1>1, SlotIs
<1> DEFINE e == (Current - 1) * scan.interval
<1>4. e \in Nat
  BY <1>1, <1>2
<1>5. Done = Len(got) - (IF scan.interval = 0 THEN 0 ELSE e)
  BY DEF Done
<1>6. IF scan.interval = 0 THEN Slot(Begun) = Begun ELSE Begun = e + Slot(Begun)
  BY <1>2, <1>3
<1> HIDE DEF e
<1>7. Done \in Nat /\ Slot(Begun) = Done + 1
  BY <1>1, <1>3, <1>4, <1>5, <1>6
<1> QED BY <1>1, <1>2, <1>7

-----------------------------------------------------------------------------
(* Steps.                                                                   *)
LEMMA SamePlaces ==
  ASSUME scan' = scan, NEW i, Current' = i, Within(reader', i), OwnBits(perm', i),
         busy' /\ seen' # Wrong => Own(i, seen')
  PROVE  /\ Within(reader, Current)' /\ OwnBits(perm, Current)'
         /\ (busy /\ seen # Wrong => Own(Current, seen))'
<1>1. (busy /\ seen # Wrong => Own(Current, seen))'
  BY DEF Own, Interval
<1>2. OwnBits(perm, Current)' /\ OwnBits(reader.buf, Current)'
  BY DEF Within, OwnBits, Own, Interval
<1>3. TypedReader(reader)'
  BY DEF Within, TypedReader
<1>4. Ahead(reader, Current)'
  BY DEF Within, Ahead, Rest, Before
<1> QED BY <1>1, <1>2, <1>3, <1>4 DEF Within

LEMMA PlacesAppended ==
  ASSUME TypeOK, TypeOK', Placed, busy, scan' = scan, NEW g \in Nat,
         got' = Append(got, g),
         g # Wrong =>
           /\ Own(Current, g) /\ Slot(g) <= Slot(Begun)
           /\ \A k \in DOMAIN got : got[k] # Wrong /\ Interval(k) = Current => got[k] < g
  PROVE  Placed'
<1>1. got \in Seq(Nat) /\ Len(got) \in Nat /\ Begun = Len(got) + 1 /\ Interval(Begun) = Current
  BY NextPlace DEF TypeOK
<1>2. /\ DOMAIN got' = 1..Begun /\ DOMAIN got = 1..Len(got)
      /\ \A m \in 1..Len(got) : got'[m] = got[m]
      /\ got'[Begun] = g
  BY <1>1, AppendProperties
<1>3. \A m \in 1..Begun : m \in 1..Len(got) \/ m = Begun
  BY <1>1
<1>4. \A m : Interval(m)' = Interval(m) /\ Slot(m)' = Slot(m)
  BY DEF Interval, Slot
<1>5. ASSUME NEW m \in 1..Begun, got'[m] # Wrong
      PROVE  /\ IF scan.lost = {} THEN Interval(got'[m]) = Interval(m)
                ELSE Interval(got'[m]) >= Interval(m)
             /\ Slot(got'[m]) <= Slot(m)
             /\ \A k \in 1..m - 1 :
                  got'[k] # Wrong /\ Interval(k) = Interval(m) => got'[k] < got'[m]
  <2>1. CASE m \in 1..Len(got)
    <3>1. got'[m] = got[m] /\ \A k \in 1..m - 1 : got'[k] = got[k]
      BY <1>1, <1>2, <2>1
    <3> QED BY <1>2, <1>5, <2>1, <3>1 DEF Placed
  <2>2. CASE m = Begun
    <3>1. got'[m] = g /\ g # Wrong
      BY <1>2, <1>5, <2>2
    <3>2. \A k \in 1..m - 1 : k \in DOMAIN got /\ got'[k] = got[k]
      BY <1>1, <1>2, <2>2
    <3> QED BY <1>1, <2>2, <3>1, <3>2 DEF Own
  <2> QED BY <1>3, <2>1, <2>2
<1> QED BY <1>2, <1>4, <1>5 DEF Placed, Interval, Slot

LEMMA TrackedAppended ==
  ASSUME TypeOK, TypeOK', Tracked, busy, scan' = scan, Current' = Current,
         NEW g \in Nat, got' = Append(got, g),
         \/ pred' = pred /\ g = Wrong
         \/ pred' = Spoilt
         \/ /\ pred' = g /\ g \in DOMAIN scan.code /\ Slot(g) <= Done + 1
            /\ \A k \in DOMAIN got : got[k] # Wrong /\ Interval(k) = Current => got[k] < g
  PROVE  Tracked'
<1>1. got \in Seq(Nat) /\ Len(got) \in Nat /\ Done \in Nat /\ scan \in Scans
  BY NextPlace DEF TypeOK
<1>2. /\ Len(got') = Len(got) + 1
      /\ DOMAIN got' = 1..Len(got) + 1 /\ DOMAIN got = 1..Len(got)
      /\ \A m \in 1..Len(got) : got'[m] = got[m]
      /\ got'[Len(got) + 1] = g
  BY <1>1, AppendProperties
<1>3. Done' = Done + 1
  <2> DEFINE e == IF scan.interval = 0 THEN 0 ELSE (Current - 1) * scan.interval
  <2>1. Done = Len(got) - e /\ Done' = (Len(got) + 1) - e
    BY <1>2 DEF Done
  <2>2. e \in Int
    BY <1>1, NextPlace, ScanIs
  <2> HIDE DEF e
  <2> QED BY <1>1, <2>1, <2>2
<1>4. \A m : Interval(m)' = Interval(m) /\ Slot(m)' = Slot(m)
  BY DEF Interval, Slot
<1>5. \A k \in DOMAIN got' : (k \in DOMAIN got /\ got'[k] = got[k]) \/ got'[k] = g
  <2>1. \A k \in 1..Len(got) + 1 : k \in 1..Len(got) \/ k = Len(got) + 1
    BY <1>1
  <2> QED BY <1>2, <2>1
<1>6. \A k \in DOMAIN got : got[k] \in Nat
  BY <1>1
<1>7. \A k \in DOMAIN scan.code : Slot(k) \in Nat /\ k \in Nat \ {0}
  BY <1>1, SlotIs, IntervalIs
<1>8. /\ pred' \in (DOMAIN scan.code) \cup {Reset, Spoilt}
      /\ pred' \in DOMAIN scan.code => Slot(pred') <= Done + 1
      /\ pred' # Spoilt =>
           \A k \in DOMAIN got' : got'[k] # Wrong /\ Interval(k) = Current => got'[k] <= pred'
  <2>1. CASE pred' = pred /\ g = Wrong
    BY <1>1, <1>5, <1>7, <2>1 DEF Tracked
  <2>2. CASE pred' = Spoilt
    <3>1. Spoilt \notin DOMAIN scan.code
      BY <1>7 DEF Spoilt
    <3> QED BY <2>2, <3>1
  <2>3. CASE /\ pred' = g /\ g \in DOMAIN scan.code /\ Slot(g) <= Done + 1
             /\ \A k \in DOMAIN got : got[k] # Wrong /\ Interval(k) = Current => got[k] < g
    BY <1>5, <1>6, <2>3
  <2> QED BY <2>1, <2>2, <2>3
<1> QED BY <1>3, <1>8 DEF Tracked, Slot, Interval

LEMMA StartPlaces ==
  ASSUME IInv, IInv', PInv, StartMCU
  PROVE  PInv'
<1> DEFINE r == [reader EXCEPT !.buf = perm]
<1>1. /\ ~busy /\ ~Restarting /\ Len(got) < Len(scan.code)
      /\ reader' = r /\ seen' = Upcoming(r) /\ busy' = TRUE
      /\ scan' = scan /\ got' = got /\ perm' = perm /\ pred' = pred
  BY DEF StartMCU, Begin
<1>2. TypeOK /\ Counted /\ TypeOK'
  BY DEF IInv
<1>3. /\ scan \in Scans /\ Begun \in Nat /\ Begun = Len(got) /\ toGo \in Nat
      /\ perm \in Seq(BitIn(scan))
  BY <1>1, <1>2, TypesIs DEF TypeOK
<1>4. Interval(Begun + 1) = Current
  BY <1>1, <1>2, <1>3, NextInterval
<1>5. Begun' = Begun + 1
  BY <1>1, <1>3 DEF Begun
<1>6. Current' = Current
  BY <1>1, <1>3, <1>4, <1>5 DEF Current, Interval
<1>7. Within(r, Current)
  <2>1. r.buf = perm /\ r.data = reader.data /\ r.unread = reader.unread
    BY <1>2 DEF TypeOK
  <2> HIDE DEF r
  <2> QED BY <1>3, <2>1 DEF PInv, Within, TypedReader, Ahead
<1>8. Current \in Nat
  BY <1>3, <1>4, <1>1, <1>2, TypesIs, IntervalIs
<1>9. seen' # Wrong => Own(Current, seen')
  BY <1>1, <1>3, <1>7, <1>8, UpcomingOwn
<1>10. /\ Within(reader, Current)' /\ OwnBits(perm, Current)'
       /\ (busy /\ seen # Wrong => Own(Current, seen))'
  BY <1>1, <1>6, <1>7, <1>9, SamePlaces DEF PInv
<1>11. Tracked' /\ Placed'
  BY <1>1, <1>6 DEF PInv, Tracked, Placed, Done, Slot, Interval
<1> QED BY <1>10, <1>11 DEF PInv

LEMMA RestartPlaces ==
  ASSUME IInv, IInv', PInv, RestartAndStartMCU
  PROVE  PInv'
<1> DEFINE r == [buf |-> <<>>, data |-> AfterMarker(reader), unread |-> FALSE]
<1>1. /\ ~busy /\ Restarting /\ Len(got) < Len(scan.code)
      /\ reader' = r /\ seen' = Upcoming(r) /\ busy' = TRUE
      /\ scan' = scan /\ got' = got /\ perm' = <<>> /\ pred' = Reset
  BY DEF RestartAndStartMCU, Begin, PredAtRestart
<1>2. TypeOK /\ Counted /\ TypeOK'
  BY DEF IInv
<1>3. /\ scan \in Scans /\ Begun \in Nat /\ Begun = Len(got) /\ toGo \in Nat
      /\ scan.interval \in Nat \ {0}
  BY <1>1, <1>2, TypesIs, ScanIs DEF TypeOK, Restarting
<1>4. /\ Interval(Begun + 1) = Current + 1 /\ Current \in Nat \ {0}
      /\ toGo = Current * scan.interval - Begun /\ toGo = 0
  BY <1>1, <1>2, <1>3, NextInterval DEF Restarting
<1>5. Begun' = Begun + 1
  BY <1>1, <1>3 DEF Begun
<1>6. Current' = Current + 1
  BY <1>1, <1>3, <1>4, <1>5 DEF Current, Interval
<1>7. Within(r, Current + 1)
  BY <1>3, <1>4, AfterMarkerWithin DEF PInv
<1> HIDE DEF r
<1>8. Current + 1 \in Nat
  BY <1>4
<1>9. seen' # Wrong => Own(Current + 1, seen')
  BY <1>1, <1>3, <1>7, <1>8, UpcomingOwn
<1>10. OwnBits(perm', Current + 1)
  BY <1>1 DEF OwnBits
<1>11. /\ Within(reader, Current)' /\ OwnBits(perm, Current)'
       /\ (busy /\ seen # Wrong => Own(Current, seen))'
  BY <1>1, <1>6, <1>7, <1>9, <1>10, SamePlaces
<1>12. ASSUME NEW k \in DOMAIN got PROVE Interval(k) # Current + 1
  <2>1. k \in Nat \ {0} /\ k <= Begun /\ k \in DOMAIN scan.code
    <3>1. got \in Seq(Nat) /\ scan.code \in Seq(Seq(Nat)) /\ Begun <= Len(scan.code)
      BY <1>2, <1>3, ScanIs DEF TypeOK
    <3> QED BY <1>3, <3>1
  <2>2. Slot(k) \in Nat \ {0} /\ k = (Interval(k) - 1) * scan.interval + Slot(k)
    BY <1>3, <2>1, SlotIs
  <2>3. SUFFICES ASSUME Interval(k) = Current + 1 PROVE FALSE
    OBVIOUS
  <2> DEFINE e == Current * scan.interval
  <2>4. (Current + 1) - 1 = Current
    BY <1>4
  <2>5. k = e + Slot(k) /\ e \in Nat /\ e - Begun = 0
    BY <1>3, <1>4, <2>2, <2>3, <2>4
  <2> HIDE DEF e
  <2> QED BY <1>3, <2>1, <2>2, <2>5
<1>13. Reset \notin DOMAIN scan.code
  BY <1>3, IntervalIs DEF Reset
<1>14. Tracked'
  BY <1>1, <1>6, <1>12, <1>13 DEF Tracked, Interval
<1>15. Placed'
  BY <1>1 DEF PInv, Placed, Slot, Interval
<1> QED BY <1>11, <1>14, <1>15 DEF PInv

(* What the reads have in common.                                           *)
LEMMA ReadPlaces ==
  ASSUME IInv, IInv', PInv, busy, scan' = scan, NEW n \in Nat, NEW isCode \in BOOLEAN,
         NEW d \in Nat, reader' = Skip(Load(reader, n, isCode), d),
         seen' = seen \/ seen' = Wrong, perm' \in {perm, reader'.buf},
         \/ got' = got /\ busy' = TRUE /\ pred' = pred
         \/ got' = Append(got, Wrong) /\ busy' = FALSE /\ pred' \in {pred, Spoilt}
         \/ /\ got' = Append(got, seen) /\ busy' = FALSE /\ pred' = seen /\ seen # Wrong
            /\ pred = (IF IsFirst(seen) THEN Reset ELSE seen - 1)
  PROVE  PInv'
<1>1. TypeOK /\ TypeOK' /\ scan \in Scans /\ TypedReader(reader)
  BY InvariantIs DEF IInv
<1>2. /\ Done \in Nat /\ Slot(Begun) = Done + 1 /\ Current \in Nat
      /\ Begun = Len(got) + 1 /\ Interval(Begun) = Current /\ Len(got) \in Nat
  BY <1>1, NextPlace
<1>3. /\ Within(reader, Current) /\ OwnBits(perm, Current) /\ Tracked /\ Placed
      /\ seen # Wrong => Own(Current, seen)
  BY DEF PInv
<1>4. Begun' = Begun
  <2>1. \A g : got' = Append(got, g) => Len(got') = Len(got) + 1
    BY <1>1, AppendProperties DEF TypeOK
  <2> QED BY <1>2, <2>1 DEF Begun
<1>5. Current' = Current
  BY <1>4 DEF Current, Interval
<1>6. Within(reader', Current)
  <2>1. Within(Load(reader, n, isCode), Current)
    BY <1>1, <1>2, <1>3, LoadWithin
  <2> QED BY <2>1, SkipWithin
<1>7. OwnBits(perm', Current)
  BY <1>3, <1>6 DEF Within
<1>8. /\ Within(reader, Current)' /\ OwnBits(perm, Current)'
      /\ (busy /\ seen # Wrong => Own(Current, seen))'
  BY <1>3, <1>5, <1>6, <1>7, SamePlaces
<1>9. CASE got' = got /\ busy' = TRUE /\ pred' = pred
  BY <1>3, <1>5, <1>8, <1>9 DEF PInv, Tracked, Placed, Done, Slot, Interval
<1>10. CASE got' = Append(got, Wrong) /\ busy' = FALSE /\ pred' \in {pred, Spoilt}
  <2>1. Wrong \in Nat
    BY DEF Wrong
  <2>2. Placed' /\ Tracked'
    BY <1>1, <1>3, <1>5, <1>10, <2>1, PlacesAppended, TrackedAppended
  <2> QED BY <1>8, <2>2 DEF PInv
<1>11. CASE /\ got' = Append(got, seen) /\ busy' = FALSE /\ pred' = seen /\ seen # Wrong
            /\ pred = (IF IsFirst(seen) THEN Reset ELSE seen - 1)
  <2>1. seen \in DOMAIN scan.code /\ seen \in Nat \ {0}
    BY <1>1, <1>11, IntervalIs DEF TypeOK
  <2>2. Slot(seen) <= Done + 1
    <3>1. CASE IsFirst(seen)
      BY <1>1, <1>2, <2>1, <3>1, SlotIs
    <3>2. CASE ~IsFirst(seen)
      <4>1. pred \in DOMAIN scan.code /\ Slot(seen) = Slot(pred) + 1
        BY <1>1, <1>11, <2>1, <3>2, SlotIs
      <4>2. Slot(pred) \in Nat /\ Slot(pred) <= Done
        BY <1>1, <1>3, <4>1, SlotIs DEF Tracked
      <4> QED BY <1>2, <4>1, <4>2
    <3> QED BY <3>1, <3>2
  <2>3. ASSUME NEW k \in DOMAIN got, got[k] # Wrong, Interval(k) = Current
        PROVE  got[k] < seen
    <3>1. pred # Spoilt /\ pred \in Nat /\ pred < seen
      <4>1. pred = 0 \/ pred = seen - 1
        BY <1>11 DEF Reset
      <4>2. seen - 1 \in Nat /\ seen \in Nat /\ seen > 0 /\ seen - 1 < seen
        BY ONLY <2>1
      <4> QED BY <4>1, <4>2 DEF Spoilt
    <3>2. got[k] <= pred
      BY <1>3, <2>3, <3>1 DEF Tracked
    <3>3. got[k] \in Nat
      <4>1. got \in Seq(Nat)
        BY <1>1 DEF TypeOK
      <4> QED BY <4>1
    <3> QED BY <2>1, <3>1, <3>2, <3>3
  <2>4. Placed'
    BY <1>1, <1>2, <1>3, <1>11, <2>1, <2>2, <2>3, PlacesAppended
  <2>5. Tracked'
    BY <1>1, <1>3, <1>5, <1>11, <2>1, <2>2, <2>3, TrackedAppended
  <2> QED BY <1>8, <2>4, <2>5 DEF PInv
<1> QED BY <1>9, <1>10, <1>11

LEMMA NextPlaces ==
  ASSUME IInv, IInv', PInv, [Next]_vars
  PROVE  PInv'
<1>1. CASE StartMCU
  BY <1>1, StartPlaces
<1>2. CASE RestartAndStartMCU
  BY <1>2, RestartPlaces
<1>3. CASE ReadRight
  <2> DEFINE n == Lengths[reads + 1]
             r == Load(reader, n, IsCode(reads + 1))
  <2>1. /\ busy /\ seen # Wrong /\ reader' = Skip(r, n) /\ Has(r, n)
        /\ scan' = scan /\ seen' = seen
        /\ \/ Commit(reader')
           \/ perm' = perm /\ pred' = pred /\ got' = got /\ busy' = busy
    BY <1>3 DEF ReadRight
  <2>2. n \in Nat /\ IsCode(reads + 1) \in BOOLEAN /\ busy = TRUE
    BY <2>1, InvariantIs DEF TypeOK
  <2>3. /\ perm' \in {perm, reader'.buf}
        /\ \/ got' = got /\ busy' = TRUE /\ pred' = pred
           \/ got' = Append(got, Wrong) /\ busy' = FALSE /\ pred' \in {pred, Spoilt}
           \/ /\ got' = Append(got, seen) /\ busy' = FALSE /\ pred' = seen /\ seen # Wrong
              /\ pred = (IF IsFirst(seen) THEN Reset ELSE seen - 1)
    BY <2>1, <2>2 DEF Commit
  <2> HIDE DEF n
  <2> QED BY <2>1, <2>2, <2>3, ReadPlaces
<1>4. CASE Stray
  <2>1. /\ busy /\ seen' = Wrong /\ scan' = scan /\ reader' = reader /\ perm' = perm
        /\ pred' = pred /\ busy' = busy /\ got' = got
    BY <1>4 DEF Stray
  <2>2. Current' = Current
    BY <2>1 DEF Current, Begun, Interval
  <2>3. /\ Within(reader, Current)' /\ OwnBits(perm, Current)'
        /\ (busy /\ seen # Wrong => Own(Current, seen))'
    BY <2>1, <2>2, SamePlaces DEF PInv
  <2> QED BY <2>1, <2>2, <2>3 DEF PInv, Tracked, Placed, Done, Slot, Interval
<1>5. CASE ReadShort
  <2> DEFINE n == Lengths[reads + 1]
             r == Load(reader, n, IsCode(reads + 1))
  <2>1. /\ busy /\ seen # Wrong /\ reader' = Skip(r, 0)
        /\ scan' = scan /\ seen' = seen /\ perm' = perm /\ pred' = pred
        /\ got' = Append(got, Wrong) /\ busy' = FALSE
    BY <1>5 DEF ReadShort, AtRest, GiveUp
  <2>2. n \in Nat /\ IsCode(reads + 1) \in BOOLEAN
    BY <2>1, InvariantIs
  <2>3. perm' \in {perm, reader'.buf} /\ pred' \in {pred, Spoilt} /\ 0 \in Nat
    BY <2>1
  <2> HIDE DEF n
  <2> QED BY <2>1, <2>2, <2>3, ReadPlaces
<1>6. ASSUME NEW n \in 1..GarbageBits, NEW isCode \in BOOLEAN, ReadWrong(n, isCode)
      PROVE  PInv'
  <2> DEFINE r == Load(reader, n, isCode)
  <2>1. /\ busy /\ seen = Wrong /\ scan' = scan /\ seen' = seen
        /\ reader' = IF r.ok THEN Skip(r, n) ELSE AtRest(r)
        /\ \/ perm' = perm /\ pred' = pred /\ got' = got /\ busy' = busy
           \/ Commit(reader')
           \/ GiveUp
    BY <1>6 DEF ReadWrong
  <2>2. n \in Nat /\ 0 \in Nat /\ busy = TRUE
    BY <2>1, InvariantIs, RestartAssumption DEF TypeOK
  <2>3. \E d \in Nat : reader' = Skip(r, d)
    BY <2>1, <2>2 DEF AtRest
  <2>4. /\ perm' \in {perm, reader'.buf}
        /\ \/ got' = got /\ busy' = TRUE /\ pred' = pred
           \/ got' = Append(got, Wrong) /\ busy' = FALSE /\ pred' \in {pred, Spoilt}
    BY <2>1, <2>2 DEF Commit, GiveUp
  <2>5. PICK d \in Nat : reader' = Skip(r, d)
    BY <2>3
  <2> QED BY <2>1, <2>2, <2>4, <2>5, ReadPlaces
<1>7. CASE UNCHANGED vars
  <2>1. /\ scan' = scan /\ reader' = reader /\ perm' = perm /\ pred' = pred
        /\ busy' = busy /\ seen' = seen /\ got' = got
    BY <1>7 DEF vars
  <2>2. Current' = Current
    BY <2>1 DEF Current, Begun, Interval
  <2>3. /\ Within(reader, Current)' /\ OwnBits(perm, Current)'
        /\ (busy /\ seen # Wrong => Own(Current, seen))'
    BY <2>1, <2>2, SamePlaces DEF PInv
  <2> QED BY <2>1, <2>2, <2>3 DEF PInv, Tracked, Placed, Done, Slot, Interval
<1> QED BY <1>1, <1>2, <1>3, <1>4, <1>5, <1>6, <1>7 DEF Next

LEMMA InitPlaces ==
  ASSUME Init
  PROVE  PInv
<1>1. /\ scan \in Scans /\ perm = <<>> /\ pred = Reset /\ busy = FALSE /\ got = <<>>
      /\ reader = [buf |-> <<>>, data |-> scan.data, unread |-> FALSE]
  BY DEF Init
<1>2. Current = 1
  <2>1. Begun = 0
    BY <1>1 DEF Begun
  <2> QED BY <2>1 DEF Current
<1>3. scan.data \in Seq(ByteIn(scan)) /\ Len(scan.data) \in Nat
  BY <1>1, ScanIs
<1>4. TypedReader(reader) /\ OwnBits(reader.buf, 1) /\ OwnBits(perm, 1)
  BY <1>1, <1>3 DEF TypedReader, OwnBits
<1>5. Ahead(reader, 1)
  <2>1. Rest(1) = scan.data
    BY <1>3 DEF Rest
  <2>2. Before(1) = 0
    <3>1. {q \in 1..1 - 1 : scan.data[q] = Marker} = {}
      OBVIOUS
    <3> QED BY <3>1, FS_EmptySet DEF Before, MarkersBefore
  <2>3. 1 \in 1..Len(scan.data) + 1
    BY <1>3
  <2> QED BY <1>1, <2>1, <2>2, <2>3 DEF Ahead
<1>6. Tracked /\ Placed
  <2>1. 0 \notin DOMAIN scan.code /\ DOMAIN got = {}
    BY <1>1, ScanIs
  <2> QED BY <1>1, <2>1 DEF Tracked, Placed, Reset
<1> QED BY <1>1, <1>2, <1>4, <1>5, <1>6 DEF PInv, Within

(* Whatever the damage, every MCU shows up in its own interval, or in an    *)
(* earlier one where a marker in between was lost, behind those that come   *)
(* before it and not before its place: the reader has passed as many        *)
(* markers as restarts were made, so that all bits it holds are of the      *)
(* current interval, and the DC predictions name the last MCU decoded.      *)
THEOREM PlacedHolds == Spec => []Placed
<1>1. Init => IInv /\ PInv
  BY InitInvariant, InitPlaces
<1>2. (IInv /\ PInv) /\ [Next]_vars => (IInv /\ PInv)'
  BY NextInvariant, NextPlaces
<1>3. IInv /\ PInv => Placed
  BY DEF PInv
<1> QED BY <1>1, <1>2, <1>3, PTL DEF Spec
=============================================================================
