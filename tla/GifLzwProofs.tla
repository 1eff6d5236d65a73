---------------------------- MODULE GifLzwProofs ----------------------------
(***************************************************************************)
(* Proofs about GifLzw, for every image, code size and size of the table.  *)
(***************************************************************************)
EXTENDS GifLzw, FiniteSetTheorems, SequenceTheorems, TLAPS

(* The codes that stand for a string.                                       *)
StringCodes == {c \in Nat : c # ClearCode /\ c # EofCode}

TypeInv ==
  /\ image \in Images /\ uncompressed \in BOOLEAN /\ ended \in BOOLEAN
  /\ at \in 0..Len(image) /\ (ended => at = Len(image))
  /\ nBits \in Int /\ nBits <= MaxBits /\ maxcode = MaxCode(nBits)
  /\ freeCode \in Int /\ ClearCode + 2 <= freeCode /\ freeCode <= TableSize
  /\ codeCount \in Int
  /\ waiting \in StringCodes \cup {None}
  /\ \A i \in DOMAIN table : table[i].code \in StringCodes
  /\ bits \in Int /\ bits <= MaxBits
  /\ next \in Int /\ next <= TableSize
  /\ first \in BOOLEAN

(* The next string of the decoder has a code one below that of the encoder, *)
(* which entered the string that ends in the pixel it waits with.           *)
Ahead == IF first THEN next ELSE next + 1

(* The encoder agrees with a decoder that has width b and is ahead at n.    *)
InStep(b, n) ==
  /\ nBits = b
  /\ uncompressed => /\ waiting = None /\ freeCode = ClearCode + 2
                     /\ b = InitBits /\ codeCount = n /\ n < 2 ^ InitBits
  /\ ~uncompressed => freeCode = n

AfterClear == InStep(InitBits, ClearCode + 2)

(* The codes on their way, and what the encoder will agree with when they   *)
(* are read.                                                                *)
Pending ==
  \/ codes = <<>> /\ (ended \/ InStep(bits, Ahead))
  \/ \E c \in StringCodes :
       codes = <<Code(c, bits)>> /\ ~ended /\ InStep(NextWidth, NextCode + 1)
  \/ codes = <<Code(ClearCode, bits)>> /\ ~ended /\ AfterClear
  \/ codes = <<Code(EofCode, bits)>> /\ ended
  \/ \E c \in StringCodes :
       codes = <<Code(c, bits), Code(ClearCode, NextWidth)>> /\ ~ended /\ AfterClear
  \/ \E c \in StringCodes :
       codes = <<Code(c, bits), Code(EofCode, NextWidth)>> /\ ended

(* The inductive invariant.                                                 *)
IInv == TypeInv /\ Pending

-----------------------------------------------------------------------------
LEMMA Constants ==
  /\ ClearCode \in Nat /\ EofCode = ClearCode + 1 /\ TableSize \in Nat
  /\ InitBits \in Nat /\ InitBits < MaxBits /\ MaxBits \in Nat
  /\ 2 ^ InitBits \in Nat /\ ClearCode + 2 < 2 ^ InitBits
  /\ 2 ^ InitBits <= TableSize
BY LzwAssumption DEF EofCode, InitBits

LEMMA MaxCodes ==
  /\ MaxCode(InitBits) = 2 ^ InitBits - 1
  /\ MaxCode(MaxBits) = TableSize
BY Constants DEF MaxCode

(* The code the decoder comes to by the next string is the free code of the *)
(* encoder before it enters its own, so that both widen at once.            *)
LEMMA WidenTogether ==
  ASSUME TypeInv, InStep(bits, Ahead), ~uncompressed
  PROVE  NextCode = freeCode /\ NextWidth = WidthAfter
<1>1. freeCode = Ahead /\ nBits = bits
  BY DEF InStep
<1>2. NextCode = freeCode
  BY <1>1, Constants DEF TypeInv, Ahead, NextCode, Enters
<1>3. CASE bits = MaxBits
  BY <1>1, <1>2, <1>3, Constants, MaxCodes
     DEF TypeInv, NextWidth, WidthAfter, Widen
<1>4. CASE bits # MaxBits
  <2>1. maxcode = 2 ^ bits - 1 /\ bits < MaxBits
    BY <1>1, <1>4, Constants DEF TypeInv, MaxCode
  <2> QED BY <1>1, <1>2, <2>1 DEF NextWidth, WidthAfter, Widen
<1> QED BY <1>2, <1>3, <1>4

(* The codes of -gif0 never grow: the decoder is cleared before.            *)
LEMMA NeverWidens ==
  ASSUME TypeInv, InStep(bits, Ahead), uncompressed
  PROVE  NextCode = codeCount /\ NextWidth = InitBits
<1>1. codeCount = Ahead /\ bits = InitBits /\ Ahead < 2 ^ InitBits
  BY DEF InStep
<1>2. NextCode = codeCount
  BY <1>1, Constants DEF TypeInv, Ahead, NextCode, Enters
<1>3. ~(NextCode > 2 ^ bits - 1)
  BY <1>1, <1>2, Constants DEF TypeInv
<1> QED BY <1>1, <1>2, <1>3 DEF NextWidth

LEMMA InitIInv == Init => IInv
<1> SUFFICES ASSUME Init PROVE IInv
  OBVIOUS
<1>1. TypeInv
  <2>1. DOMAIN table = {}
    BY DEF Init
  <2>2. maxcode = MaxCode(nBits)
    BY MaxCodes DEF Init
  <2>3. nBits = InitBits /\ bits = InitBits /\ freeCode = ClearCode + 2
        /\ codeCount = ClearCode + 2 /\ next = ClearCode + 2 /\ waiting = None
        /\ first = TRUE /\ ended = FALSE
    BY DEF Init
  <2>4. image \in Images /\ uncompressed \in BOOLEAN /\ at = 0
    BY DEF Init
  <2>5. Len(image) \in Nat
    BY <2>4, LzwAssumption
  <2>6. at \in 0..Len(image) /\ (ended => at = Len(image)) /\ ended \in BOOLEAN
    <3>1. at \in 0..Len(image)
      BY <2>4, <2>5
    <3>2. ~ended /\ ended \in BOOLEAN
      BY <2>3
    <3> QED BY <3>1, <3>2
  <2>7. \A i \in DOMAIN table : table[i].code \in StringCodes
    BY <2>1
  <2>8. /\ nBits \in Int /\ nBits <= MaxBits /\ bits \in Int /\ bits <= MaxBits
        /\ freeCode \in Int /\ ClearCode + 2 <= freeCode /\ freeCode <= TableSize
        /\ codeCount \in Int /\ next \in Int /\ next <= TableSize
    BY <2>3, Constants
  <2> QED BY <2>2, <2>3, <2>4, <2>6, <2>7, <2>8 DEF TypeInv
<1>2. AfterClear
  BY Constants DEF Init, AfterClear, InStep
<1> QED BY <1>1, <1>2 DEF Init, IInv, Pending

LEMMA PixelIsString ==
  ASSUME TypeInv, at < Len(image)
  PROVE  image[at + 1] \in StringCodes
<1>1. image \in Seq(0..ClearCode - 1)
  BY LzwAssumption DEF TypeInv
<1>2. at + 1 \in 1..Len(image)
  BY <1>1, LenProperties DEF TypeInv
<1>3. image[at + 1] \in 0..ClearCode - 1
  BY <1>1, <1>2, ElementOfSeq
<1> QED BY <1>3, Constants DEF StringCodes

LEMMA WritePixelStep ==
  ASSUME IInv, WritePixel
  PROVE  IInv'
<1> DEFINE c == image[at + 1]
<1>1. /\ codes = <<>> /\ at < Len(image) /\ at' = at + 1
      /\ UNCHANGED <<image, uncompressed, ended, decoder>>
      /\ uncompressed => WriteUncompressedByte(c)
      /\ ~uncompressed => CompressByte(c)
  BY DEF WritePixel
<1>2. c \in StringCodes
  BY <1>1, PixelIsString DEF IInv
<1> HIDE DEF c
<1>3. ~ended /\ InStep(bits, Ahead)
  BY <1>1 DEF IInv, TypeInv, Pending
<1>4. UNCHANGED <<bits, next, first>> /\ NextCode' = NextCode /\ NextWidth' = NextWidth
      /\ Ahead' = Ahead
  BY <1>1 DEF decoder, NextCode, NextWidth, Enters, Ahead
<1>5. at' \in 0..Len(image') /\ Len(image) \in Nat
  <2>1. image \in Seq(0..ClearCode - 1)
    BY LzwAssumption DEF IInv, TypeInv
  <2> QED BY <1>1, <2>1 DEF IInv, TypeInv
<1>6. CASE uncompressed
  <2>1. WriteUncompressedByte(c)
    BY <1>1, <1>6
  <2>2. NextCode = codeCount /\ NextWidth = InitBits /\ nBits = bits /\ bits = InitBits
        /\ waiting = None /\ freeCode = ClearCode + 2 /\ maxcode = 2 ^ InitBits - 1
    BY <1>3, <1>6, NeverWidens, MaxCodes DEF IInv, TypeInv, InStep
  <2>3. UNCHANGED <<nBits, maxcode, freeCode, waiting, table>>
    BY <2>1 DEF WriteUncompressedByte
  <2>4. CASE CountsOn
    <3>1. codes' = <<Code(c, bits)>> /\ codeCount' = codeCount + 1
      BY <2>1, <2>2, <2>4 DEF WriteUncompressedByte
    <3>2. TypeInv'
      BY <1>1, <1>4, <1>5, <2>3, <3>1, <1>3 DEF IInv, TypeInv, MaxCode
    <3>3. InStep(NextWidth, NextCode + 1)'
      BY <1>1, <1>4, <1>6, <2>2, <2>3, <2>4, <3>1, Constants
         DEF InStep, CountsOn, IInv, TypeInv
    <3> QED BY <1>1, <1>2, <1>3, <1>4, <3>1, <3>2, <3>3 DEF IInv, Pending
  <2>5. CASE ~CountsOn
    <3>1. codes' = <<Code(c, bits), Code(ClearCode, NextWidth)>>
          /\ codeCount' = ClearCode + 2
      BY <2>1, <2>2, <2>5 DEF WriteUncompressedByte
    <3>2. TypeInv'
      BY <1>1, <1>4, <1>5, <2>3, <3>1, <1>3, Constants DEF IInv, TypeInv, MaxCode
    <3>3. AfterClear'
      BY <1>1, <1>6, <2>2, <2>3, <3>1, Constants DEF InStep, AfterClear
    <3> QED BY <1>1, <1>2, <1>3, <1>4, <3>1, <3>2, <3>3 DEF IInv, Pending
  <2> QED BY <2>4, <2>5
<1>7. CASE ~uncompressed
  <2>1. NextCode = freeCode /\ NextWidth = WidthAfter /\ nBits = bits
    BY <1>3, <1>7, WidenTogether DEF IInv, InStep
  <2>2. CASE Lengthen(c)
    <3>1. UNCHANGED <<nBits, maxcode, freeCode, codeCount, table, codes>>
      BY <2>2 DEF Lengthen
    <3>2. waiting' \in StringCodes
      BY <1>2, <2>2 DEF Lengthen, Known, IInv, TypeInv
    <3>3. TypeInv'
      BY <1>1, <1>3, <1>4, <1>5, <3>1, <3>2 DEF IInv, TypeInv, MaxCode
    <3>4. InStep(bits, Ahead)'
      BY <1>1, <1>3, <1>4, <1>7, <3>1 DEF InStep
    <3> QED BY <1>1, <3>1, <3>3, <3>4 DEF IInv, Pending
  <2>3. CASE NewString(c)
    <3>1. /\ waiting # None /\ freeCode < TableSize /\ freeCode' = freeCode + 1
          /\ waiting' = c /\ codeCount' = codeCount
          /\ codes' = <<Code(waiting, bits)>> /\ nBits' = WidthAfter
          /\ maxcode' = IF Widen THEN MaxCode(nBits + 1) ELSE maxcode
      BY <2>1, <2>3 DEF NewString, Output
    <3>2. nBits' \in Int /\ nBits' <= MaxBits /\ maxcode' = MaxCode(nBits')
      <4>1. CASE nBits = MaxBits
        <5>1. ~Widen
          BY <4>1, MaxCodes, Constants DEF Widen, IInv, TypeInv
        <5> QED BY <3>1, <4>1, <5>1, Constants DEF WidthAfter, IInv, TypeInv
      <4>2. CASE nBits # MaxBits
        <5>1. nBits \in Int /\ nBits <= MaxBits /\ MaxBits \in Nat /\ maxcode = MaxCode(nBits)
          BY Constants DEF IInv, TypeInv
        <5>2. CASE Widen
          <6>1. nBits' = nBits + 1 /\ maxcode' = MaxCode(nBits + 1)
            BY <3>1, <5>2 DEF WidthAfter
          <6>2. nBits + 1 \in Int /\ nBits + 1 <= MaxBits
            BY ONLY <4>2, <5>1
          <6> QED BY <6>1, <6>2
        <5>3. CASE ~Widen
          <6>1. nBits' = nBits /\ maxcode' = maxcode
            BY <3>1, <5>3 DEF WidthAfter
          <6> QED BY <5>1, <6>1
        <5> QED BY <5>2, <5>3
      <4> QED BY <4>1, <4>2
    <3>3. \A i \in DOMAIN table' : table'[i].code \in StringCodes
      <4>1. freeCode \in StringCodes
        <5>1. freeCode \in Int /\ ClearCode + 2 <= freeCode
          BY DEF IInv, TypeInv
        <5>2. ClearCode \in Nat /\ EofCode = ClearCode + 1
          BY Constants
        <5> QED BY ONLY <5>1, <5>2 DEF StringCodes
      <4> QED BY <2>3, <4>1 DEF NewString, IInv, TypeInv
    <3>4. TypeInv'
      <4>1. /\ (image \in Images /\ uncompressed \in BOOLEAN /\ ended \in BOOLEAN)'
            /\ (at \in 0..Len(image) /\ (ended => at = Len(image)))'
        BY <1>1, <1>3, <1>5 DEF IInv, TypeInv
      <4>2. (freeCode \in Int /\ ClearCode + 2 <= freeCode /\ freeCode <= TableSize)'
        BY <3>1, Constants DEF IInv, TypeInv
      <4>3. (codeCount \in Int /\ waiting \in StringCodes \cup {None})'
        BY <1>2, <3>1 DEF IInv, TypeInv
      <4>4. (bits \in Int /\ bits <= MaxBits /\ next \in Int /\ next <= TableSize
             /\ first \in BOOLEAN)'
        BY <1>4 DEF IInv, TypeInv
      <4> QED BY <3>2, <3>3, <4>1, <4>2, <4>3, <4>4 DEF TypeInv, MaxCode
    <3>5. InStep(NextWidth, NextCode + 1)'
      BY <1>1, <1>4, <1>7, <2>1, <3>1 DEF InStep
    <3>6. waiting \in StringCodes
      BY <3>1 DEF IInv, TypeInv
    <3> QED BY <1>1, <1>3, <1>4, <3>1, <3>4, <3>5, <3>6 DEF IInv, Pending
  <2>4. CASE NewBlock(c)
    <3>1. /\ waiting # None /\ waiting' = c
          /\ codes' = <<Code(waiting, bits), Code(ClearCode, NextWidth)>>
          /\ freeCode' = ClearCode + 2 /\ codeCount' = ClearCode + 2
          /\ nBits' = InitBits /\ maxcode' = MaxCode(InitBits) /\ table' = <<>>
      BY <2>1, <2>4, MaxCodes DEF NewBlock, CleanTable
    <3>2. DOMAIN table' = {}
      BY <3>1
    <3>3. TypeInv'
      <4>1. /\ (image \in Images /\ uncompressed \in BOOLEAN /\ ended \in BOOLEAN)'
            /\ (at \in 0..Len(image) /\ (ended => at = Len(image)))'
        BY <1>1, <1>3, <1>5 DEF IInv, TypeInv
      <4>2. (bits \in Int /\ bits <= MaxBits /\ next \in Int /\ next <= TableSize
             /\ first \in BOOLEAN)'
        BY <1>4 DEF IInv, TypeInv
      <4> QED BY <1>2, <3>1, <3>2, <4>1, <4>2, Constants DEF TypeInv, MaxCode
    <3>4. AfterClear'
      BY <1>1, <1>7, <3>1 DEF AfterClear, InStep
    <3>5. waiting \in StringCodes
      BY <3>1 DEF IInv, TypeInv
    <3> QED BY <1>1, <1>3, <1>4, <3>1, <3>3, <3>4, <3>5 DEF IInv, Pending
  <2> QED BY <1>1, <1>7, <2>2, <2>3, <2>4 DEF CompressByte
<1> QED BY <1>6, <1>7

LEMMA CompressTermStep ==
  ASSUME IInv, CompressTerm
  PROVE  IInv'
<1>1. /\ codes = <<>> /\ at = Len(image) /\ ~ended /\ ended' = TRUE
      /\ UNCHANGED <<image, uncompressed, at, encoder, decoder>>
      /\ codes' = IF waiting = None THEN <<Code(EofCode, nBits)>>
                  ELSE <<Code(waiting, nBits), Code(EofCode, WidthAfter)>>
  BY DEF CompressTerm
<1>2. InStep(bits, Ahead)
  BY <1>1 DEF IInv, Pending
<1>3. TypeInv'
  BY <1>1 DEF IInv, TypeInv, MaxCode, encoder, decoder
<1>4. UNCHANGED bits /\ NextWidth' = NextWidth /\ nBits = bits
  BY <1>1, <1>2 DEF decoder, NextCode, NextWidth, Enters, InStep
<1>5. CASE waiting = None
  BY <1>1, <1>3, <1>4, <1>5 DEF IInv, Pending
<1>6. CASE waiting # None
  <2>1. ~uncompressed
    BY <1>2, <1>6 DEF InStep, IInv, TypeInv
  <2>2. WidthAfter = NextWidth
    BY <1>2, <2>1, WidenTogether DEF IInv
  <2>3. waiting \in StringCodes
    BY <1>6 DEF IInv, TypeInv
  <2> QED BY <1>1, <1>3, <1>4, <1>6, <2>2, <2>3 DEF IInv, Pending
<1> QED BY <1>5, <1>6

LEMMA ReadCodeStep ==
  ASSUME IInv, ReadCode
  PROVE  IInv'
<1>1. /\ codes # <<>> /\ codes' = Tail(codes)
      /\ UNCHANGED <<image, uncompressed, at, ended, encoder>>
  BY DEF ReadCode
<1>2. ASSUME NEW b, NEW n PROVE InStep(b, n)' = InStep(b, n)
  BY <1>1 DEF InStep, encoder
<1>3. ASSUME NEW c \in StringCodes, Head(codes).code = c
      PROVE  /\ TypeInv' /\ bits' = NextWidth /\ Ahead' = NextCode + 1
  <2>1. next' = NextCode /\ bits' = NextWidth /\ first' = FALSE
    BY <1>3 DEF ReadCode, ReadString, ReadClear, ReadEof, StringCodes
  <2>2. next' \in Int /\ next' <= TableSize
    BY <2>1, Constants DEF NextCode, Enters, IInv, TypeInv
  <2>3. bits' \in Int /\ bits' <= MaxBits
    BY <2>1, Constants DEF NextWidth, IInv, TypeInv
  <2>4. TypeInv'
    BY <1>1, <2>1, <2>2, <2>3 DEF IInv, TypeInv, MaxCode, encoder
  <2> QED BY <2>1, <2>4 DEF Ahead
<1>4. ASSUME Head(codes).code = ClearCode
      PROVE  TypeInv' /\ bits' = InitBits /\ Ahead' = ClearCode + 2
  <2>1. next' = ClearCode + 2 /\ bits' = InitBits /\ first' = TRUE
    BY <1>4, Constants DEF ReadCode, ReadString, ReadClear, ReadEof
  <2>2. next' \in Int /\ next' <= TableSize /\ bits' \in Int /\ bits' <= MaxBits
    BY <2>1, Constants
  <2>3. TypeInv'
    BY <1>1, <2>1, <2>2 DEF IInv, TypeInv, MaxCode, encoder
  <2> QED BY <2>1, <2>3 DEF Ahead
<1>5. ASSUME Head(codes).code = EofCode PROVE TypeInv'
  <2>1. UNCHANGED <<bits, next, first>>
    BY <1>5, Constants DEF ReadCode, ReadString, ReadClear, ReadEof
  <2> QED BY <1>1, <2>1 DEF IInv, TypeInv, MaxCode, encoder
<1>6. ASSUME NEW c \in StringCodes, codes = <<Code(c, bits)>>,
             ~ended, InStep(NextWidth, NextCode + 1)
      PROVE  IInv'
  <2>1. Head(codes).code = c /\ codes' = <<>>
    BY <1>1, <1>6 DEF Code
  <2>2. InStep(bits, Ahead)'
    BY <1>2, <1>3, <1>6, <2>1 DEF InStep
  <2> QED BY <1>3, <2>1, <2>2 DEF IInv, Pending
<1>7. ASSUME codes = <<Code(ClearCode, bits)>>, ~ended, AfterClear
      PROVE  IInv'
  <2>1. Head(codes).code = ClearCode /\ codes' = <<>>
    BY <1>1, <1>7 DEF Code
  <2>2. InStep(bits, Ahead)'
    BY <1>2, <1>4, <1>7, <2>1 DEF InStep, AfterClear
  <2> QED BY <1>4, <2>1, <2>2 DEF IInv, Pending
<1>8. ASSUME codes = <<Code(EofCode, bits)>>, ended
      PROVE  IInv'
  <2>1. Head(codes).code = EofCode /\ codes' = <<>>
    BY <1>1, <1>8 DEF Code
  <2> QED BY <1>1, <1>5, <1>8, <2>1 DEF IInv, Pending
<1>9. ASSUME NEW c \in StringCodes, ~ended, AfterClear,
             codes = <<Code(c, bits), Code(ClearCode, NextWidth)>>
      PROVE  IInv'
  <2>1. Head(codes).code = c /\ codes' = <<Code(ClearCode, NextWidth)>>
    BY <1>1, <1>9 DEF Code
  <2>2. AfterClear' /\ ~ended'
    BY <1>1, <1>2, <1>9 DEF AfterClear
  <2>3. TypeInv' /\ bits' = NextWidth
    BY <1>3, <2>1
  <2> QED BY <2>1, <2>2, <2>3 DEF IInv, Pending
<1>10. ASSUME NEW c \in StringCodes, ended,
              codes = <<Code(c, bits), Code(EofCode, NextWidth)>>
       PROVE  IInv'
  <2>1. Head(codes).code = c /\ codes' = <<Code(EofCode, NextWidth)>>
    BY <1>1, <1>10 DEF Code
  <2>2. TypeInv' /\ bits' = NextWidth
    BY <1>3, <2>1
  <2> QED BY <1>1, <1>10, <2>1, <2>2 DEF IInv, Pending
<1> QED BY <1>1, <1>6, <1>7, <1>8, <1>9, <1>10 DEF IInv, Pending

LEMMA NextIInv == IInv /\ [Next]_vars => IInv'
<1> SUFFICES ASSUME IInv, [Next]_vars PROVE IInv'
  OBVIOUS
<1>1. CASE UNCHANGED vars
  <2>1. UNCHANGED <<image, uncompressed, at, ended, encoder, codes, decoder>>
    BY <1>1 DEF vars
  <2>2. TypeInv'
    BY <2>1 DEF IInv, TypeInv, MaxCode, encoder, decoder
  <2>3. Pending'
    BY <2>1 DEF IInv, Pending, InStep, AfterClear, Ahead, NextCode, NextWidth,
                Enters, encoder, decoder
  <2> QED BY <2>2, <2>3 DEF IInv
<1> QED BY <1>1, WritePixelStep, CompressTermStep, ReadCodeStep DEF Next

(* Every state satisfies the inductive invariant.                           *)
THEOREM Inductive == Spec => []IInv
BY InitIInv, NextIInv, PTL DEF Spec

(* Every code is read with the width it was written with: output widens the *)
(* codes at the very code at which a decoder does, before and after every   *)
(* clear code and up to the end code.                                       *)
THEOREM WidthsAgreeHolds == Spec => []WidthsAgree
<1>1. IInv => WidthsAgree
  BY DEF IInv, Pending, WidthsAgree, Code
<1> QED BY <1>1, Inductive, PTL

-----------------------------------------------------------------------------
(* The strings in the table have codes of their own between the clear code  *)
(* and the free one.  Only a lower bound of freeCode is needed by a step    *)
(* (that a string takes at most one slot); the upper one is TypeInv's.      *)
Slots == /\ IsFiniteSet(DOMAIN table)
         /\ Cardinality(DOMAIN table) \in Nat
         /\ Cardinality(DOMAIN table) <= freeCode - (ClearCode + 2)

LEMMA InitSlots == Init => Slots
<1> SUFFICES ASSUME Init PROVE Slots
  OBVIOUS
<1>1. DOMAIN table = {} /\ freeCode = ClearCode + 2
  BY DEF Init
<1>2. IsFiniteSet(DOMAIN table) /\ Cardinality(DOMAIN table) = 0
  BY <1>1, FS_EmptySet
<1> QED BY <1>1, <1>2, Constants DEF Slots

LEMMA SlotsStep == IInv /\ Slots /\ [Next]_vars => Slots'
<1> SUFFICES ASSUME IInv, Slots, [Next]_vars PROVE Slots'
  OBVIOUS
<1>1. ClearCode \in Nat /\ freeCode \in Int
  BY Constants DEF IInv, TypeInv
<1>2. CASE UNCHANGED <<table, freeCode>>
  BY <1>2 DEF Slots
<1>3. ASSUME NEW c, NewString(c)
      PROVE  Slots'
  <2>1. DOMAIN table' = DOMAIN table \cup {Slot(c)} /\ freeCode' = freeCode + 1
    BY <1>3 DEF NewString
  <2>2. /\ IsFiniteSet(DOMAIN table')
        /\ \/ Cardinality(DOMAIN table') = Cardinality(DOMAIN table)
           \/ Cardinality(DOMAIN table') = Cardinality(DOMAIN table) + 1
    BY <2>1, FS_AddElement DEF Slots
  <2> QED BY <1>1, <2>1, <2>2 DEF Slots
<1>4. ASSUME NEW c, NewBlock(c)
      PROVE  Slots'
  <2>1. DOMAIN table' = {} /\ freeCode' = ClearCode + 2
    BY <1>4 DEF NewBlock, CleanTable
  <2>2. IsFiniteSet(DOMAIN table') /\ Cardinality(DOMAIN table') = 0
    BY <2>1, FS_EmptySet
  <2> QED BY <1>1, <2>1, <2>2 DEF Slots
<1>5. CASE WritePixel
  <2>1. CASE uncompressed
    BY <1>2, <1>5, <2>1 DEF WritePixel, WriteUncompressedByte
  <2>2. CASE ~uncompressed
    BY <1>2, <1>3, <1>4, <1>5, <2>2 DEF WritePixel, CompressByte, Lengthen
  <2> QED BY <2>1, <2>2
<1>6. CASE CompressTerm \/ ReadCode
  BY <1>2, <1>6 DEF CompressTerm, ReadCode, encoder
<1>7. CASE UNCHANGED vars
  BY <1>2, <1>7 DEF vars, encoder
<1> QED BY <1>5, <1>6, <1>7 DEF Next

(* The hash table never fills up, so the probing of compressByte ends at a  *)
(* free slot: every string takes a code, and clearBlock empties the table   *)
(* before the codes run out.                                                *)
THEOREM TableHasRoomHolds == Spec => []TableHasRoom
<1>1. IInv /\ Slots => TableHasRoom
  <2> SUFFICES ASSUME IInv, Slots PROVE TableHasRoom
    OBVIOUS
  <2>1. freeCode \in Int /\ freeCode <= TableSize
    BY DEF IInv, TypeInv
  <2>2. HashSize \in Nat /\ TableSize - (ClearCode + 2) < HashSize
    BY LzwAssumption
  <2> QED BY <2>1, <2>2, Constants DEF Slots, TableHasRoom
<1>2. Spec => []Slots
  BY InitSlots, SlotsStep, Inductive, PTL DEF Spec
<1> QED BY <1>1, <1>2, Inductive, PTL
-----------------------------------------------------------------------------
(* s stands in the image behind its first k pixels.                         *)
StandsAt(s, k) ==
  /\ s \in Seq(Nat) /\ k + Len(s) <= Len(image)
  /\ \A i \in 1..Len(s) : s[i] = image[k + i]

(* The codes with a string, and their strings: those of the decoder, whose  *)
(* dictionary is d, and the one it will make of its last string p and the   *)
(* pixel q behind it, which the encoder has already entered.                *)
Spelt(n) == 0..ClearCode - 1 \cup ClearCode + 2..n - 1

Spelling(c, d, p, q) ==
  IF c < ClearCode THEN <<c>> ELSE IF c \in DOMAIN d THEN d[c] ELSE Append(p, q)

(* A decoder that has come to the k-th pixel with dictionary d and last     *)
(* string p, or with no string yet since a clear code (fst), has the tables *)
(* of the encoder: the string of each entry is that of its prefix and its   *)
(* suffix, and the string of the waiting code is what is still to come of   *)
(* the pixels taken.                                                        *)
DictOf(d, p, fst) ==
  /\ \A c \in DOMAIN d : d[c] \in Seq(Nat) /\ d[c] # <<>>
  /\ DOMAIN d = ClearCode + 2..(IF fst THEN freeCode - 1 ELSE freeCode - 2)
  /\ ~fst => ClearCode + 2 < freeCode /\ p \in Seq(Nat) /\ p # <<>>

EntryOf(e, d, p, q) ==
  /\ e.prefix \in Spelt(freeCode) /\ e.code \in Spelt(freeCode)
  /\ Spelling(e.code, d, p, q) = Append(Spelling(e.prefix, d, p, q), e.suffix)

WaitingOf(k, d, p) ==
  IF waiting = None THEN k = at
  ELSE /\ waiting \in Spelt(freeCode) /\ k < at
       /\ StandsAt(Spelling(waiting, d, p, image[k + 1]), k)
       /\ k + Len(Spelling(waiting, d, p, image[k + 1])) = at

SameStrings(k, d, p, fst) ==
  /\ DictOf(d, p, fst)
  /\ \A i \in DOMAIN table : EntryOf(table[i], d, p, image[k + 1])
  /\ WaitingOf(k, d, p)

ComesTo(k, d, p, fst) ==
  /\ k \in 0..at
  /\ IF uncompressed THEN k = at ELSE SameStrings(k, d, p, fst)

(* The decoder will read the code c as the next pixels of the image.        *)
Readable(c) ==
  Understands(c) /\ StringOf(c) # <<>> /\ StandsAt(StringOf(c), Len(out))

After(c) == Len(out) + Len(StringOf(c))

(* What the codes on their way will add to what is decoded.                 *)
ToCome ==
  \/ codes = <<>> /\ ended /\ Len(out) = Len(image)
  \/ codes = <<>> /\ ~ended /\ ComesTo(Len(out), dict, prev, first)
  \/ \E c \in StringCodes, b \in Int :
       /\ codes = <<Code(c, b)>> /\ ~ended
       /\ Readable(c) /\ ComesTo(After(c), NextDict(c), StringOf(c), FALSE)
  \/ \E b \in Int :
       codes = <<Code(ClearCode, b)>> /\ ~ended /\ ComesTo(Len(out), <<>>, <<>>, TRUE)
  \/ \E b \in Int :
       codes = <<Code(EofCode, b)>> /\ ended /\ Len(out) = Len(image)
  \/ \E c \in StringCodes, b, w \in Int :
       /\ codes = <<Code(c, b), Code(ClearCode, w)>> /\ ~ended
       /\ Readable(c) /\ ComesTo(After(c), <<>>, <<>>, TRUE)
  \/ \E c \in StringCodes, b, w \in Int :
       /\ codes = <<Code(c, b), Code(EofCode, w)>> /\ ended
       /\ Readable(c) /\ After(c) = Len(image)

Text == StandsAt(out, 0) /\ (done => ended /\ codes = <<>>) /\ ToCome
-----------------------------------------------------------------------------
LEMMA SameRemainder ==
  ASSUME NEW a \in Int, NEW b \in Int, NEW h \in Nat, h # 0, a % h = b % h
  PROVE  (a - b) % h = 0
OBVIOUS

(* A set of numbers has a least one: of the sets 1..n for its members n one *)
(* is minimal.                                                              *)
LEMMA Least ==
  ASSUME NEW S \in SUBSET Nat, S # {}
  PROVE  Min(S) \in S
<1> DEFINE T == {1..n : n \in S}
<1>1. IsWellFoundedOn(StrictSubsetOrdering(Nat), FiniteSubsetsOf(Nat))
  BY FS_StrictSubsetOrderingWellFounded
<1>2. T \subseteq FiniteSubsetsOf(Nat) /\ T # {}
  <2>1. ASSUME NEW n \in S PROVE 1..n \in FiniteSubsetsOf(Nat)
    BY FS_Interval DEF FiniteSubsetsOf
  <2> QED BY <2>1
<1>3. PICK t \in T : \A u \in T : ~(<<u, t>> \in StrictSubsetOrdering(Nat))
  BY ONLY <1>1, <1>2, WFMin, Zenon
<1>4. PICK m \in S : t = 1..m
  OBVIOUS
<1>5. ASSUME NEW n \in S, n < m PROVE FALSE
  <2>1. m \in 1..m /\ m \notin 1..n /\ 1..n \subseteq 1..m
    BY <1>5
  <2>2. <<1..n, 1..m>> \in StrictSubsetOrdering(Nat)
    BY <2>1 DEF StrictSubsetOrdering
  <2> QED BY <1>3, <1>4, <2>2
<1>6. \A n \in S : m <= n
  BY <1>5
<1> QED BY <1>6 DEF Min

-----------------------------------------------------------------------------
(* compressByte probes every slot of the hash table once, as the table's    *)
(* size is prime.                                                           *)
LEMMA HashInTable ==
  ASSUME TypeInv, waiting \in Spelt(freeCode), NEW c \in 0..ClearCode - 1
  PROVE  Hash(c) \in 0..HashSize - 1
<1> DEFINE p == 2 ^ HashShift
<1>1. p \in Nat /\ ClearCode * p + TableSize <= 2 * HashSize /\ HashSize \in Nat
  BY LzwAssumption
<1> HIDE DEF p
<1>2. waiting \in 0..TableSize - 1
  <2>1. freeCode \in Int /\ freeCode <= TableSize /\ ClearCode + 2 <= freeCode
    BY DEF TypeInv
  <2>2. waiting \in 0..ClearCode - 1 \/ waiting \in ClearCode + 2..freeCode - 1
    BY DEF Spelt
  <2>3. TableSize \in Nat /\ ClearCode \in Nat
    BY Constants
  <2> QED BY ONLY <2>1, <2>2, <2>3
<1>3. c \in Nat /\ ClearCode \in Nat /\ c <= ClearCode /\ TableSize \in Nat
  BY Constants
<1>4. c * p <= ClearCode * p /\ c * p \in Nat /\ ClearCode * p \in Nat
  BY <1>1, <1>3
<1>5. c * p + waiting \in 0..2 * HashSize - 1
  BY <1>1, <1>2, <1>3, <1>4
<1> QED BY <1>1, <1>5 DEF Hash, p

LEMMA ProbesDiffer ==
  ASSUME TypeInv, waiting \in Spelt(freeCode), NEW c \in 0..ClearCode - 1,
         NEW j \in 0..HashSize - 1, NEW k \in 0..HashSize - 1, j < k
  PROVE  Probe(c, j) # Probe(c, k)
<1> DEFINE disp == IF Hash(c) = 0 THEN 1 ELSE HashSize - Hash(c)
<1>1. HashSize \in Nat /\ HashSize >= 2
  BY LzwAssumption, Constants
<1>2. Hash(c) \in 0..HashSize - 1
  BY HashInTable
<1>3. disp \in 1..HashSize - 1
  BY <1>1, <1>2
<1> DEFINE a == Hash(c) - j * disp
           b == Hash(c) - k * disp
<1>4. Probe(c, j) = a % HashSize /\ Probe(c, k) = b % HashSize
  BY DEF Probe
<1> HIDE DEF disp
<1>5. ((k - j) * disp) % HashSize # 0
  <2>1. k - j \in 1..HashSize - 1
    BY <1>1
  <2>2. \A i, n \in 1..HashSize - 1 : (i * n) % HashSize # 0
    BY LzwAssumption
  <2> QED BY <1>3, <2>1, <2>2
<1>6. a \in Int /\ b \in Int /\ a - b = (k - j) * disp
  <2>1. Hash(c) \in Int /\ disp \in Int /\ j \in Int /\ k \in Int
    BY <1>1, <1>2, <1>3
  <2> QED BY <2>1
<1> HIDE DEF a, b
<1>7. (a - b) % HashSize # 0
  BY <1>5, <1>6
<1>8. a % HashSize # b % HashSize
  <2>1. HashSize \in Nat /\ HashSize # 0
    BY <1>1
  <2>2. a % HashSize = b % HashSize => (a - b) % HashSize = 0
    BY <1>6, <2>1, SameRemainder
  <2> QED BY <1>7, <2>2
<1> QED BY <1>4, <1>8

(* The probing stops, at the entry of the string or at a free slot.         *)
LEMMA SlotFound ==
  ASSUME TypeInv, Slots, waiting \in Spelt(freeCode), NEW c \in 0..ClearCode - 1,
         Known(c)
  PROVE  Holds(Slot(c), c)
<1> DEFINE K == 0..HashSize - 1
           Stops(k) == Probe(c, k) \in DOMAIN table => Holds(Probe(c, k), c)
           f == [k \in K |-> Probe(c, k)]
<1>1. HashSize \in Nat /\ TableSize - (ClearCode + 2) < HashSize
  BY LzwAssumption
<1>2. \E k \in K : Probe(c, k) \notin DOMAIN table
  <2>1. SUFFICES ASSUME \A k \in K : Probe(c, k) \in DOMAIN table PROVE FALSE
    OBVIOUS
  <2>2. f \in [K -> DOMAIN table]
    BY <2>1
  <2>3. IsFiniteSet(K) /\ Cardinality(K) = HashSize
    <3>1. 0 \in Int /\ HashSize - 1 \in Int
      BY <1>1
    <3>2. IsFiniteSet(K) /\ Cardinality(K) =
            IF 0 > HashSize - 1 THEN 0 ELSE (HashSize - 1) - 0 + 1
      BY <3>1, FS_Interval
    <3> QED BY <1>1, <3>2
  <2>4. Cardinality(DOMAIN table) < HashSize
    BY <1>1, Constants DEF TypeInv, Slots
  <2>5. PICK j \in K, k \in K : j # k /\ f[j] = f[k]
    <3> HIDE DEF f, K
    <3> QED BY <2>2, <2>3, <2>4, FS_PigeonHole DEF Slots
  <2>6. Probe(c, j) = Probe(c, k)
    BY <2>5
  <2>7. j < k \/ k < j
    BY <1>1, <2>5
  <2> QED BY <2>6, <2>7, ProbesDiffer
<1>3. {k \in K : Stops(k)} \in SUBSET Nat /\ {k \in K : Stops(k)} # {}
  BY <1>2
<1>4. Min({k \in K : Stops(k)}) \in {k \in K : Stops(k)}
  BY <1>3, Least
<1>5. Slot(c) = Probe(c, Min({k \in K : Stops(k)}))
  BY DEF Slot
<1> QED BY <1>4, <1>5 DEF Known

-----------------------------------------------------------------------------
LEMMA ImageType ==
  ASSUME TypeInv
  PROVE  /\ image \in Seq(Nat) /\ Len(image) \in Nat
         /\ \A i \in 1..Len(image) : image[i] \in 0..ClearCode - 1
<1>1. image \in Seq(0..ClearCode - 1)
  BY LzwAssumption DEF TypeInv
<1>2. Len(image) \in Nat /\ image \in [1..Len(image) -> 0..ClearCode - 1]
  BY <1>1, LenProperties
<1> QED BY <1>2, Constants

(* A string that stands in the image still does with the next pixel, and    *)
(* with a string behind it.                                                 *)
LEMMA StandsNext ==
  ASSUME TypeInv, NEW k \in Nat, NEW s, StandsAt(s, k), k + Len(s) < Len(image)
  PROVE  LET t == Append(s, image[k + Len(s) + 1])
         IN  StandsAt(t, k) /\ Len(t) = Len(s) + 1 /\ t # <<>>
<1> DEFINE q == image[k + Len(s) + 1]
<1>1. s \in Seq(Nat) /\ Len(s) \in Nat /\ \A i \in 1..Len(s) : s[i] = image[k + i]
  BY LenProperties DEF StandsAt
<1>2. q \in Nat
  <2>1. k + Len(s) + 1 \in 1..Len(image)
    BY <1>1, ImageType
  <2> QED BY <2>1, ImageType
<1> HIDE DEF q
<1>3. /\ Append(s, q) \in Seq(Nat) /\ Append(s, q) # <<>>
      /\ Len(Append(s, q)) = Len(s) + 1
      /\ \A i \in 1..Len(s) : Append(s, q)[i] = s[i]
      /\ Append(s, q)[Len(s) + 1] = q
  <2>1. s \in Seq(Nat) /\ q \in Nat
    BY <1>1, <1>2
  <2> QED BY ONLY <2>1, AppendProperties
<1>4. \A i \in 1..Len(s) + 1 : Append(s, q)[i] = image[k + i]
  <2>1. Append(s, q)[Len(s) + 1] = image[k + (Len(s) + 1)]
    BY <1>1, <1>3 DEF q
  <2>2. \A i \in 1..Len(s) + 1 : i \in 1..Len(s) \/ i = Len(s) + 1
    BY <1>1
  <2> QED BY <1>1, <1>3, <2>1, <2>2
<1>5. StandsAt(Append(s, q), k)
  <2> DEFINE l == Len(s)
             n == Len(image)
  <2>1. l \in Nat /\ n \in Nat /\ k + l < n
    BY <1>1, ImageType
  <2> HIDE DEF l, n
  <2>2. k + (l + 1) <= n
    BY ONLY k \in Nat, <2>1
  <2>3. k + Len(Append(s, q)) <= Len(image)
    BY <1>3, <2>2 DEF l, n
  <2>4. \A i \in 1..Len(Append(s, q)) : Append(s, q)[i] = image[k + i]
    BY <1>3, <1>4, Zenon
  <2> QED BY <1>3, <2>3, <2>4, Zenon DEF StandsAt
<1> QED BY <1>3, <1>5 DEF q

LEMMA StandsPixel ==
  ASSUME TypeInv, NEW k \in Nat, k < Len(image)
  PROVE  StandsAt(<<image[k + 1]>>, k)
<1>1. k + 1 \in 1..Len(image)
  BY ImageType
<1>2. image[k + 1] \in Nat
  BY <1>1, ImageType
<1> QED BY <1>2, ImageType DEF StandsAt

LEMMA StandsBehind ==
  ASSUME TypeInv, NEW s, NEW t, StandsAt(s, 0), StandsAt(t, Len(s))
  PROVE  StandsAt(s \o t, 0) /\ Len(s \o t) = Len(s) + Len(t)
<1>1. /\ s \in Seq(Nat) /\ t \in Seq(Nat) /\ Len(s) \in Nat /\ Len(t) \in Nat
      /\ Len(s) + Len(t) <= Len(image)
      /\ \A i \in 1..Len(s) : s[i] = image[0 + i]
      /\ \A i \in 1..Len(t) : t[i] = image[Len(s) + i]
  BY LenProperties DEF StandsAt
<1>2. /\ s \o t \in Seq(Nat) /\ Len(s \o t) = Len(s) + Len(t)
      /\ \A i \in 1..Len(s) + Len(t) :
           (s \o t)[i] = IF i <= Len(s) THEN s[i] ELSE t[i - Len(s)]
  BY <1>1, ConcatProperties
<1>3. ASSUME NEW i \in 1..Len(s) + Len(t) PROVE (s \o t)[i] = image[0 + i]
  <2>1. CASE i <= Len(s)
    BY <1>1, <1>2, <2>1
  <2>2. CASE i > Len(s)
    <3>1. i - Len(s) \in 1..Len(t) /\ Len(s) + (i - Len(s)) = i /\ 0 + i = i
      BY <1>1, <2>2
    <3> QED BY <1>1, <1>2, <2>2, <3>1
  <2> QED BY <1>1, <2>1, <2>2
<1> QED BY <1>1, <1>2, <1>3, ImageType DEF StandsAt

(* Every code with a string has one that is not empty.                      *)
LEMMA SpellingType ==
  ASSUME NEW d, NEW p, NEW fst \in BOOLEAN, NEW q \in Nat, DictOf(d, p, fst),
         TypeInv, NEW x \in Spelt(freeCode)
  PROVE  Spelling(x, d, p, q) \in Seq(Nat) /\ Spelling(x, d, p, q) # <<>>
<1>1. CASE x < ClearCode
  BY <1>1, Constants DEF Spelling, Spelt, TypeInv
<1>2. CASE x \in DOMAIN d
  BY <1>2, Constants DEF Spelling, DictOf, TypeInv
<1>3. CASE ~(x < ClearCode) /\ x \notin DOMAIN d
  <2>1. ~fst /\ p \in Seq(Nat)
    BY <1>3, Constants DEF Spelt, DictOf, TypeInv
  <2>2. Append(p, q) \in Seq(Nat) /\ Append(p, q) # <<>>
    BY <2>1, AppendProperties
  <2> QED BY <1>3, <2>2 DEF Spelling
<1> QED BY <1>1, <1>2, <1>3

(* The decoder reads the waiting code as the pixels since the last code,    *)
(* even when it has yet to enter the string: that one begins with the pixel *)
(* it ends in.                                                              *)
LEMMA ReadWaiting ==
  ASSUME TypeInv, InStep(bits, Ahead), ~uncompressed, waiting # None,
         ComesTo(Len(out), dict, prev, first)
  PROVE  /\ Readable(waiting) /\ After(waiting) = at
         /\ StringOf(waiting) = Spelling(waiting, dict, prev, image[Len(out) + 1])
<1> DEFINE k == Len(out)
           q == image[k + 1]
           s == Spelling(waiting, dict, prev, q)
<1>1. /\ k \in 0..at /\ DictOf(dict, prev, first)
      /\ waiting \in Spelt(freeCode) /\ k < at /\ StandsAt(s, k) /\ k + Len(s) = at
  BY DEF ComesTo, SameStrings, WaitingOf
<1>2. q \in Nat /\ k \in Nat
  <2> DEFINE n == Len(image)
  <2>1. n \in Nat
    BY ImageType, Zenon
  <2>2. at \in 0..n
    BY DEF TypeInv
  <2>3. k \in 0..at /\ k < at
    BY <1>1
  <2> HIDE DEF k, n
  <2>4. k + 1 \in 1..n /\ k \in Nat
    BY ONLY <2>1, <2>2, <2>3
  <2>5. q \in 0..ClearCode - 1
    BY <2>4, ImageType, Zenon DEF n
  <2>6. ClearCode \in Nat
    BY Constants
  <2> HIDE DEF q
  <2> QED BY <2>4, <2>5, <2>6
<1>3. freeCode = Ahead
  BY DEF InStep
<1>4. s \in Seq(Nat) /\ s # <<>>
  BY <1>1, <1>2, SpellingType DEF TypeInv
<1>5. CASE waiting < ClearCode \/ waiting \in DOMAIN dict
  <2>1. StringOf(waiting) = s
    BY <1>5 DEF StringOf, Spelling
  <2>2. Understands(waiting)
    BY <1>5, Constants DEF Understands, TypeInv, StringCodes
  <2> QED BY <1>1, <1>4, <2>1, <2>2 DEF Readable, After
<1>6. CASE ~(waiting < ClearCode \/ waiting \in DOMAIN dict)
  <2>1. ~first /\ waiting = next
    BY <1>1, <1>3, <1>6, Constants DEF Spelt, DictOf, Ahead, TypeInv
  <2>2. prev \in Seq(Nat) /\ prev # <<>> /\ s = Append(prev, q)
    BY <1>1, <1>6, <2>1 DEF DictOf, Spelling
  <2>3. Len(prev) \in Nat /\ Len(prev) >= 1
    BY <2>2, LenProperties, EmptySeq
  <2>4. s[1] = prev[1] /\ 1 \in 1..Len(s)
    BY <1>2, <2>2, <2>3, AppendProperties
  <2>5. s[1] = q
    BY <1>1, <2>4 DEF StandsAt
  <2>6. StringOf(waiting) = s
    BY <1>6, <2>2, <2>4, <2>5 DEF StringOf
  <2>7. Understands(waiting)
    BY <2>1 DEF Understands
  <2> QED BY <1>1, <1>4, <2>6, <2>7 DEF Readable, After
<1> QED BY <1>5, <1>6

-----------------------------------------------------------------------------
LEMMA InitText == Init => Text
<1> SUFFICES ASSUME Init PROVE Text
  OBVIOUS
<1>1. TypeInv
  BY InitIInv DEF IInv
<1>2. /\ at = 0 /\ ended = FALSE /\ freeCode = ClearCode + 2 /\ waiting = None
      /\ table = <<>> /\ out = <<>> /\ done = FALSE
      /\ codes = <<Code(ClearCode, InitBits)>>
  BY DEF Init
<1>3. StandsAt(out, 0)
  BY <1>1, <1>2, ImageType DEF StandsAt
<1>4. ComesTo(Len(out), <<>>, <<>>, TRUE)
  <2>1. DOMAIN table = {} /\ Len(out) = 0
    BY <1>2
  <2>2. DictOf(<<>>, <<>>, TRUE)
    BY <1>2, Constants DEF DictOf
  <2>3. WaitingOf(Len(out), <<>>, <<>>) /\ Len(out) = at /\ Len(out) \in 0..at
    BY <1>2, <2>1 DEF WaitingOf
  <2> QED BY <2>1, <2>2, <2>3 DEF ComesTo, SameStrings
<1>5. ToCome
  <2>1. \E b \in Int : codes = <<Code(ClearCode, b)>>
    BY <1>2, Constants
  <2> QED BY <1>2, <1>4, <2>1 DEF ToCome
<1> QED BY <1>2, <1>3, <1>5 DEF Text

(* Taking a pixel that lengthens a known string.                            *)
LEMMA LengthenText ==
  ASSUME TypeInv, Slots, ComesTo(Len(out), dict, prev, first), ~uncompressed,
         at < Len(image), Lengthen(image[at + 1]), at' = at + 1,
         UNCHANGED <<image, uncompressed, ended, decoder>>
  PROVE  ComesTo(Len(out), dict, prev, first)'
<1> DEFINE c == image[at + 1]
           k == Len(out)
           q == image[k + 1]
<1>1. /\ k \in 0..at /\ DictOf(dict, prev, first) /\ WaitingOf(k, dict, prev)
      /\ \A i \in DOMAIN table : EntryOf(table[i], dict, prev, q)
  BY DEF ComesTo, SameStrings
<1>2. at \in Nat /\ c \in 0..ClearCode - 1
  <2>1. at + 1 \in 1..Len(image) /\ at \in Nat
    BY ImageType DEF TypeInv
  <2> QED BY <2>1, ImageType
<1>3. /\ UNCHANGED <<freeCode, table>>
      /\ waiting = None \/ Known(c)
      /\ waiting' = IF waiting = None THEN c ELSE table[Slot(c)].code
  BY DEF Lengthen
<1>4. UNCHANGED <<dict, prev, first, out, image>>
  BY DEF decoder
<1>5. /\ waiting' # None /\ waiting' \in Spelt(freeCode) /\ k < at + 1
      /\ StandsAt(Spelling(waiting', dict, prev, q), k)
      /\ k + Len(Spelling(waiting', dict, prev, q)) = at + 1
  <2>1. CASE waiting = None
    <3>1. k = at /\ waiting' = c /\ Spelling(c, dict, prev, q) = <<c>>
      BY <1>1, <1>2, <1>3, <2>1, Constants DEF WaitingOf, Spelling
    <3>2. StandsAt(<<c>>, k)
      BY <1>2, <3>1, StandsPixel
    <3> QED BY <1>2, <3>1, <3>2, Constants DEF Spelt, None
  <2>2. CASE waiting # None
    <3> DEFINE s == Spelling(waiting, dict, prev, q)
               e == table[Slot(c)]
    <3>1. /\ waiting \in Spelt(freeCode) /\ k < at
          /\ StandsAt(s, k) /\ k + Len(s) = at
      BY <1>1, <2>2 DEF WaitingOf
    <3>2. Slot(c) \in DOMAIN table /\ e.prefix = waiting /\ e.suffix = c
      BY <1>2, <1>3, <2>2, <3>1, SlotFound DEF Known, Holds
    <3>3. e.code \in Spelt(freeCode) /\ Spelling(e.code, dict, prev, q) = Append(s, c)
      BY <1>1, <3>2 DEF EntryOf
    <3>4. StandsAt(Append(s, c), k) /\ Len(Append(s, c)) = Len(s) + 1
      BY <1>1, <1>2, <3>1, StandsNext
    <3>5. Len(s) \in Nat
      BY <3>1, LenProperties DEF StandsAt
    <3>6. waiting' # None
      BY <1>3, <2>2, <3>3, Constants DEF Spelt, None
    <3>7. waiting' = e.code
      BY <1>3, <2>2
    <3> HIDE DEF s, e
    <3>8. k < at + 1 /\ k + Len(Append(s, c)) = at + 1
      BY <1>1, <1>2, <3>1, <3>4, <3>5
    <3> QED BY <3>3, <3>4, <3>6, <3>7, <3>8
  <2> QED BY <2>1, <2>2
<1>6. WaitingOf(k, dict, prev)'
  BY <1>3, <1>4, <1>5 DEF WaitingOf, StandsAt, Spelt
<1>7. DictOf(dict, prev, first)'
  BY <1>1, <1>3, <1>4 DEF DictOf
<1>8. (\A i \in DOMAIN table : EntryOf(table[i], dict, prev, q))'
  BY <1>1, <1>3, <1>4 DEF EntryOf, Spelt
<1>9. (k \in 0..at)'
  BY <1>1, <1>2, <1>4
<1> QED BY <1>6, <1>7, <1>8, <1>9 DEF ComesTo, SameStrings

(* The dictionary of the decoder once it has read the waiting code: it      *)
(* spells every code as before.                                             *)
LEMMA ReadKeepsStrings ==
  ASSUME TypeInv, InStep(bits, Ahead), ~uncompressed, NEW w, w = waiting, w # None,
         ComesTo(Len(out), dict, prev, first), NEW c \in Nat
  PROVE  LET q == image[Len(out) + 1]
             d == NextDict(w)
             p == StringOf(w)
         IN  /\ p \in Seq(Nat) /\ p # <<>> /\ p = Spelling(w, dict, prev, q)
             /\ \A x \in DOMAIN d : d[x] \in Seq(Nat) /\ d[x] # <<>>
             /\ DOMAIN d = ClearCode + 2..freeCode - 1
             /\ \A x \in Spelt(freeCode) :
                  Spelling(x, d, p, c) = Spelling(x, dict, prev, q)
<1> DEFINE k == Len(out)
           q == image[k + 1]
           d == NextDict(w)
           p == StringOf(w)
<1>1. /\ k \in 0..at /\ DictOf(dict, prev, first) /\ WaitingOf(k, dict, prev)
      /\ w \in Spelt(freeCode) /\ k < at /\ StandsAt(Spelling(w, dict, prev, q), k)
  BY DEF ComesTo, SameStrings, WaitingOf
<1>2. q \in 0..ClearCode - 1 /\ k \in Nat
  <2> DEFINE n == Len(image)
  <2>1. n \in Nat
    BY ImageType, Zenon
  <2>2. at \in 0..n
    BY DEF TypeInv
  <2>3. k \in 0..at /\ k < at
    BY <1>1
  <2> HIDE DEF k, n
  <2>4. k + 1 \in 1..n /\ k \in Nat
    BY ONLY <2>1, <2>2, <2>3
  <2> QED BY <2>4, ImageType, Zenon DEF n
<1>3. q \in Nat /\ freeCode = Ahead /\ freeCode \in Int /\ freeCode <= TableSize
  BY <1>2, Constants DEF InStep, TypeInv
<1>4. p = Spelling(w, dict, prev, q)
  BY ReadWaiting
<1>5. p \in Seq(Nat) /\ p # <<>>
  BY <1>1, <1>3, <1>4, SpellingType DEF TypeInv
<1>6. p[1] = q
  <2>1. 1 \in 1..Len(p)
    BY <1>5, LenProperties, EmptySeq
  <2> QED BY <1>1, <1>4, <2>1 DEF StandsAt
<1> HIDE DEF p, q, k
<1>7. CASE first
  <2>1. d = dict /\ DOMAIN dict = ClearCode + 2..freeCode - 1
    BY <1>1, <1>7 DEF NextDict, Enters, DictOf
  <2>2. \A x \in Spelt(freeCode) : Spelling(x, d, p, c) = Spelling(x, dict, prev, q)
    BY <1>3, <2>1, Constants DEF Spelling, Spelt
  <2> HIDE DEF d
  <2>3. \A x \in DOMAIN d : d[x] \in Seq(Nat) /\ d[x] # <<>>
    BY <1>1, <2>1 DEF DictOf
  <2> QED BY <1>4, <1>5, <2>1, <2>2, <2>3 DEF p, q, k, d
<1>8. CASE ~first
  <2>1. Enters /\ freeCode = next + 1
    BY <1>3, <1>8, Constants DEF Enters, Ahead, TypeInv
  <2>2. /\ DOMAIN dict = ClearCode + 2..freeCode - 2 /\ ClearCode + 2 < freeCode
        /\ prev \in Seq(Nat) /\ prev # <<>>
    BY <1>1, <1>8 DEF DictOf
  <2>3. next \in Int /\ next \notin DOMAIN dict
        /\ DOMAIN dict \cup {next} = ClearCode + 2..freeCode - 1
    BY <1>3, <2>1, <2>2, Constants DEF TypeInv
  <2>4. d = [i \in DOMAIN dict \cup {next} |->
              IF i = next THEN Append(prev, q) ELSE dict[i]]
    BY <1>6, <2>1 DEF NextDict, p
  <2>5. /\ DOMAIN d = ClearCode + 2..freeCode - 1 /\ d[next] = Append(prev, q)
        /\ \A x \in DOMAIN dict : d[x] = dict[x]
    BY <2>3, <2>4
  <2> HIDE DEF d
  <2>6. Append(prev, q) \in Seq(Nat) /\ Append(prev, q) # <<>>
    BY <1>3, <2>2, AppendProperties
  <2>7. \A x \in DOMAIN d : d[x] \in Seq(Nat) /\ d[x] # <<>>
    BY <1>1, <2>3, <2>5, <2>6 DEF DictOf
  <2>8. ASSUME NEW x \in Spelt(freeCode)
        PROVE  Spelling(x, d, p, c) = Spelling(x, dict, prev, q)
    <3>1. CASE x < ClearCode
      BY <3>1 DEF Spelling
    <3>2. CASE ~(x < ClearCode)
      <4>1. x \in DOMAIN d /\ (x \in DOMAIN dict \/ x = next)
        BY <1>3, <2>3, <2>5, <3>2, Constants DEF Spelt
      <4> QED BY <2>3, <2>5, <3>2, <4>1 DEF Spelling
    <3> QED BY <3>1, <3>2
  <2> QED BY <1>4, <1>5, <2>5, <2>7, <2>8 DEF p, q, k, d
<1> QED BY <1>7, <1>8

(* A new string: the encoder enters it and writes the waiting code.         *)
LEMMA NewStringText ==
  ASSUME TypeInv, InStep(bits, Ahead), ComesTo(Len(out), dict, prev, first),
         ~uncompressed, at < Len(image), NewString(image[at + 1]), at' = at + 1,
         UNCHANGED <<image, uncompressed, ended, decoder>>
  PROVE  (\E c \in StringCodes, b \in Int :
            /\ codes = <<Code(c, b)>>
            /\ Readable(c) /\ ComesTo(After(c), NextDict(c), StringOf(c), FALSE))'
<1> DEFINE c == image[at + 1]
           k == Len(out)
           q == image[k + 1]
<1>1. /\ waiting # None /\ freeCode' = freeCode + 1 /\ waiting' = c
      /\ codes' = <<Code(waiting, nBits)>>
      /\ table' = [i \in DOMAIN table \cup {Slot(c)} |->
           IF i = Slot(c) THEN [prefix |-> waiting, suffix |-> c, code |-> freeCode]
           ELSE table[i]]
  BY DEF NewString, Output
<1>2. PICK w \in StringCodes : w = waiting
  BY <1>1 DEF TypeInv
<1>3. at \in Nat /\ c \in 0..ClearCode - 1
  <2>1. at + 1 \in 1..Len(image) /\ at \in Nat
    BY ImageType DEF TypeInv
  <2> QED BY <2>1, ImageType
<1>4. UNCHANGED <<bits, next, dict, prev, first, out, image>>
  BY DEF decoder
<1>5. Readable(w) /\ After(w) = at /\ w \in Spelt(freeCode)
  BY <1>1, <1>2, ReadWaiting DEF ComesTo, SameStrings, WaitingOf
<1>6. PICK d : d = NextDict(w)
  OBVIOUS
<1>7. PICK p : p = StringOf(w)
  OBVIOUS
<1>8. d = NextDict(w)' /\ p = StringOf(w)' /\ After(w)' = at
  BY <1>4, <1>5, <1>6, <1>7 DEF NextDict, Enters, StringOf, After
<1>9. Readable(w)'
  BY <1>4, <1>5 DEF Readable, Understands, StringOf, StandsAt
<1>10. /\ p \in Seq(Nat) /\ p # <<>> /\ p = Spelling(w, dict, prev, q)
       /\ \A x \in DOMAIN d : d[x] \in Seq(Nat) /\ d[x] # <<>>
       /\ DOMAIN d = ClearCode + 2..freeCode - 1
       /\ \A x \in Spelt(freeCode) :
            Spelling(x, d, p, c) = Spelling(x, dict, prev, q)
  BY <1>1, <1>2, <1>3, <1>6, <1>7, ReadKeepsStrings, Constants, SMTT(30)
<1>11. freeCode \in Int /\ ClearCode + 2 <= freeCode /\ ClearCode \in Nat
  BY Constants DEF TypeInv
<1>12. Spelt(freeCode) \subseteq Spelt(freeCode)' /\ freeCode \in Spelt(freeCode)'
       /\ c \in Spelt(freeCode)'
  BY <1>1, <1>3, <1>11 DEF Spelt
<1>13. DictOf(d, p, FALSE)'
  BY <1>1, <1>10, <1>11 DEF DictOf
<1>14. Spelling(freeCode, d, p, c) = Append(p, c)
  <2>1. ~(freeCode < ClearCode)
    BY ONLY <1>11
  <2>2. freeCode \notin ClearCode + 2..freeCode - 1
    BY ONLY <1>11
  <2>3. freeCode \notin DOMAIN d
    BY <1>10, <2>2, Zenon
  <2> QED BY <2>1, <2>3, Zenon DEF Spelling
<1>15. Spelling(w, d, p, c) = p
  BY <1>5, <1>10
<1>16. ASSUME NEW i \in DOMAIN table'
       PROVE  /\ table'[i].prefix \in Spelt(freeCode)' /\ table'[i].code \in Spelt(freeCode)'
              /\ Spelling(table'[i].code, d, p, c)
                   = Append(Spelling(table'[i].prefix, d, p, c), table'[i].suffix)
  <2>1. CASE i = Slot(c)
    <3>1. table'[i] = [prefix |-> w, suffix |-> c, code |-> freeCode]
      BY <1>1, <1>2, <2>1
    <3> QED BY <1>5, <1>12, <1>14, <1>15, <3>1
  <2>2. CASE i # Slot(c)
    <3>1. i \in DOMAIN table /\ table'[i] = table[i]
      BY <1>1, <2>2
    <3>2. EntryOf(table[i], dict, prev, q)
      BY <3>1 DEF ComesTo, SameStrings
    <3> QED BY <1>10, <1>12, <3>1, <3>2 DEF EntryOf
  <2> QED BY <2>1, <2>2
<1>17. PICK n : n = at
  OBVIOUS
<1>18. image'[n + 1] = c /\ at' = n + 1 /\ n \in Nat
  BY <1>3, <1>4, <1>17
<1> HIDE DEF c, q, k
<1>19. (\A i \in DOMAIN table : EntryOf(table[i], d, p, image[n + 1]))'
  BY <1>16, <1>18 DEF EntryOf
<1>20. WaitingOf(n, d, p)'
  <2>0. PICK v : v = c
    OBVIOUS
  <2>1. Spelling(v, d, p, v) = <<v>>
    BY <1>3, <1>11, <2>0 DEF Spelling
  <2>2. StandsAt(<<v>>, n)'
    <3>1. StandsAt(<<c>>, at)
      BY <1>3, StandsPixel DEF c
    <3> QED BY <1>4, <1>17, <2>0, <3>1 DEF StandsAt
  <2>3. v # None
    BY <1>3, <2>0, Constants DEF None
  <2> QED BY <1>1, <1>12, <1>18, <2>0, <2>1, <2>2, <2>3 DEF WaitingOf
<1>21. ComesTo(n, d, p, FALSE)'
  <2>1. SameStrings(n, d, p, FALSE)'
    BY <1>13, <1>19, <1>20 DEF SameStrings
  <2>2. n \in 0..at' /\ ~uncompressed'
    BY <1>18
  <2> QED BY <2>1, <2>2 DEF ComesTo
<1>22. ComesTo(After(w), NextDict(w), StringOf(w), FALSE)'
  BY <1>8, <1>17, <1>21 DEF ComesTo, SameStrings
<1>23. nBits \in Int
  BY DEF TypeInv
<1> QED BY <1>1, <1>2, <1>9, <1>22, <1>23 DEF Code

(* The table is full: the decoder will be cleared behind the waiting code,  *)
(* and has come to the pixel taken, which waits alone.                      *)
LEMMA NewBlockText ==
  ASSUME TypeInv, InStep(bits, Ahead), ComesTo(Len(out), dict, prev, first),
         ~uncompressed, at < Len(image), NewBlock(image[at + 1]), at' = at + 1,
         UNCHANGED <<image, uncompressed, ended, decoder>>
  PROVE  (\E c \in StringCodes, b, w \in Int :
            /\ codes = <<Code(c, b), Code(ClearCode, w)>>
            /\ Readable(c) /\ ComesTo(After(c), <<>>, <<>>, TRUE))'
<1> DEFINE c == image[at + 1]
<1>1. /\ waiting # None /\ waiting' = c /\ freeCode' = ClearCode + 2 /\ table' = <<>>
      /\ codes' = <<Code(waiting, nBits), Code(ClearCode, WidthAfter)>>
  BY DEF NewBlock, CleanTable
<1>2. PICK w \in StringCodes : w = waiting
  BY <1>1 DEF TypeInv
<1>3. at \in Nat /\ c \in 0..ClearCode - 1
  <2>1. at + 1 \in 1..Len(image) /\ at \in Nat
    BY ImageType DEF TypeInv
  <2> QED BY <2>1, ImageType
<1>4. UNCHANGED <<bits, next, dict, prev, first, out, image>>
  BY DEF decoder
<1>5. Readable(w) /\ After(w) = at
  BY <1>1, <1>2, ReadWaiting
<1>6. After(w)' = at /\ Readable(w)'
  BY <1>4, <1>5 DEF Readable, Understands, StringOf, StandsAt, After
<1>7. PICK n : n = at
  OBVIOUS
<1>8. image'[n + 1] = c /\ at' = n + 1 /\ n \in Nat
  BY <1>3, <1>4, <1>7
<1>9. WaitingOf(n, <<>>, <<>>)'
  <2>0. PICK v, e : v = c /\ e = <<>>
    OBVIOUS
  <2>1. Spelling(v, e, e, v) = <<v>>
    BY <1>3, <2>0, Constants DEF Spelling
  <2>2. StandsAt(<<v>>, n)'
    <3>1. StandsAt(<<c>>, at)
      BY <1>3, StandsPixel
    <3> QED BY <1>4, <1>7, <2>0, <3>1 DEF StandsAt
  <2>3. v # None /\ v \in Spelt(freeCode)'
    BY <1>3, <2>0, Constants DEF None, Spelt
  <2> HIDE DEF c
  <2>4. WaitingOf(n, e, e)'
    <3>1. waiting' = v /\ image'[n + 1] = v
      BY <1>1, <1>8, <2>0
    <3>2. n < at' /\ n + 1 = at'
      BY <1>8
    <3> QED BY <2>1, <2>2, <2>3, <3>1, <3>2 DEF WaitingOf
  <2> QED BY <2>0, <2>4
<1>10. DictOf(<<>>, <<>>, TRUE)'
  BY <1>1, Constants DEF DictOf
<1>11. DOMAIN table' = {}
  BY <1>1
<1>12. ComesTo(n, <<>>, <<>>, TRUE)'
  <2>1. SameStrings(n, <<>>, <<>>, TRUE)'
    BY <1>9, <1>10, <1>11 DEF SameStrings
  <2>2. n \in 0..at' /\ ~uncompressed'
    BY <1>8
  <2> QED BY <2>1, <2>2 DEF ComesTo
<1>13. ComesTo(After(w), <<>>, <<>>, TRUE)'
  BY <1>6, <1>7, <1>12 DEF ComesTo, SameStrings
<1>14. nBits \in Int /\ WidthAfter \in Int
  BY DEF TypeInv, WidthAfter
<1> QED BY <1>1, <1>2, <1>6, <1>13, <1>14 DEF Code

LEMMA WritePixelText ==
  ASSUME IInv, Slots, Text, WritePixel
  PROVE  Text'
<1> DEFINE c == image[at + 1]
<1>1. /\ codes = <<>> /\ at < Len(image) /\ at' = at + 1
      /\ UNCHANGED <<image, uncompressed, ended, decoder>>
      /\ uncompressed => WriteUncompressedByte(c)
      /\ ~uncompressed => CompressByte(c)
  BY DEF WritePixel
<1>2. TypeInv /\ ~ended /\ InStep(bits, Ahead)
  BY <1>1 DEF IInv, TypeInv, Pending
<1>3. ComesTo(Len(out), dict, prev, first) /\ StandsAt(out, 0) /\ ~done
  BY <1>1, <1>2 DEF Text, ToCome
<1>4. at \in Nat /\ c \in 0..ClearCode - 1 /\ c \in StringCodes
  <2>1. at + 1 \in 1..Len(image) /\ at \in Nat
    BY <1>1, <1>2, ImageType DEF TypeInv
  <2> QED BY <1>1, <1>2, <2>1, ImageType, PixelIsString
<1>5. UNCHANGED <<bits, next, dict, prev, first, out, done, image, ended, uncompressed>>
  BY <1>1 DEF decoder
<1>6. StandsAt(out, 0)' /\ ~done' /\ ~ended'
  BY <1>2, <1>3, <1>5 DEF StandsAt
<1>7. CASE uncompressed
  <2>1. PICK w \in StringCodes : w = c
    BY <1>4
  <2>2. Len(out) = at
    BY <1>3, <1>7 DEF ComesTo
  <2>3. StringOf(w) = <<c>> /\ Understands(w)
    BY <1>4, <2>1, Constants DEF StringOf, Understands
  <2>4. StandsAt(<<c>>, at)
    BY <1>1, <1>2, <1>4, StandsPixel
  <2>5. Readable(w) /\ After(w) = at + 1
    BY <2>2, <2>3, <2>4 DEF Readable, After
  <2>6. Readable(w)' /\ After(w)' = at + 1
    BY <1>5, <2>5 DEF Readable, Understands, StringOf, StandsAt, After
  <2>7. ASSUME NEW d, NEW p, NEW fst PROVE ComesTo(After(w), d, p, fst)'
    BY <1>1, <1>4, <1>5, <1>7, <2>6 DEF ComesTo
  <2>8. ComesTo(After(w), NextDict(w), StringOf(w), FALSE)'
    BY <1>1, <1>4, <1>5, <1>7, <2>6 DEF ComesTo
  <2>9. nBits \in Int
    BY <1>2 DEF TypeInv
  <2>10. \/ codes' = <<Code(w, nBits)>>
         \/ codes' = <<Code(w, nBits), Code(ClearCode, nBits)>>
    BY <1>1, <1>7, <2>1 DEF WriteUncompressedByte
  <2>11. ToCome'
    BY <1>6, <2>6, <2>7, <2>8, <2>9, <2>10 DEF ToCome, Code
  <2> QED BY <1>6, <2>11 DEF Text
<1>8. CASE ~uncompressed
  <2>1. CASE Lengthen(c)
    <3>1. ComesTo(Len(out), dict, prev, first)' /\ codes' = <<>>
      BY <1>1, <1>2, <1>3, <1>8, <2>1, LengthenText DEF Lengthen
    <3>2. ToCome'
      BY <1>6, <3>1 DEF ToCome
    <3> QED BY <1>6, <3>2 DEF Text
  <2>2. CASE NewString(c)
    <3>1. ToCome'
      BY <1>1, <1>2, <1>3, <1>6, <1>8, <2>2, NewStringText DEF ToCome
    <3> QED BY <1>6, <3>1 DEF Text
  <2>3. CASE NewBlock(c)
    <3>1. ToCome'
      BY <1>1, <1>2, <1>3, <1>6, <1>8, <2>3, NewBlockText DEF ToCome
    <3> QED BY <1>6, <3>1 DEF Text
  <2> QED BY <1>1, <1>8, <2>1, <2>2, <2>3 DEF CompressByte
<1> QED BY <1>7, <1>8

LEMMA CompressTermText ==
  ASSUME IInv, Text, CompressTerm
  PROVE  Text'
<1>1. /\ codes = <<>> /\ at = Len(image) /\ ~ended /\ ended' = TRUE
      /\ UNCHANGED <<image, uncompressed, at, encoder, decoder>>
      /\ codes' = IF waiting = None THEN <<Code(EofCode, nBits)>>
                  ELSE <<Code(waiting, nBits), Code(EofCode, WidthAfter)>>
  BY DEF CompressTerm
<1>2. TypeInv /\ InStep(bits, Ahead) /\ nBits \in Int /\ WidthAfter \in Int
  BY <1>1 DEF IInv, TypeInv, Pending, WidthAfter
<1>3. ComesTo(Len(out), dict, prev, first) /\ StandsAt(out, 0) /\ ~done
  BY <1>1, <1>2 DEF Text, ToCome
<1>4. UNCHANGED <<bits, next, dict, prev, first, out, done, image, uncompressed>>
  BY <1>1 DEF decoder
<1>5. StandsAt(out, 0)' /\ ~done'
  BY <1>3, <1>4 DEF StandsAt
<1>6. CASE waiting = None
  <2>1. Len(out) = Len(image)
    BY <1>1, <1>3, <1>6 DEF ComesTo, SameStrings, WaitingOf
  <2>2. ToCome'
    BY <1>1, <1>2, <1>4, <1>6, <2>1 DEF ToCome
  <2> QED BY <1>5, <2>2 DEF Text
<1>7. CASE waiting # None
  <2>1. ~uncompressed
    BY <1>2, <1>7 DEF InStep, TypeInv
  <2>2. PICK w \in StringCodes : w = waiting
    BY <1>2, <1>7 DEF TypeInv
  <2>3. Readable(w) /\ After(w) = at
    BY <1>2, <1>3, <1>7, <2>1, <2>2, ReadWaiting
  <2>4. Readable(w)' /\ After(w)' = Len(image')
    BY <1>1, <1>4, <2>3 DEF Readable, Understands, StringOf, StandsAt, After
  <2>5. ToCome'
    BY <1>1, <1>2, <1>7, <2>2, <2>4 DEF ToCome, Code
  <2> QED BY <1>5, <2>5 DEF Text
<1> QED BY <1>6, <1>7

(* What reading a code does to the decoder.                                 *)
LEMMA ReadOne ==
  ASSUME IInv, Text, ReadCode, NEW c \in StringCodes, Head(codes).code = c, Readable(c)
  PROVE  /\ dict' = NextDict(c) /\ prev' = StringOf(c) /\ first' = FALSE
         /\ Len(out') = After(c) /\ StandsAt(out, 0)' /\ ~done'
<1>1. /\ codes # <<>> /\ UNCHANGED image
      /\ dict' = NextDict(c) /\ prev' = StringOf(c) /\ first' = FALSE
      /\ out' = out \o StringOf(c) /\ done' = done
  BY DEF ReadCode, ReadString, ReadClear, ReadEof, StringCodes
<1>2. StandsAt(out \o StringOf(c), 0) /\ Len(out \o StringOf(c)) = After(c)
  BY StandsBehind DEF IInv, Text, Readable, After
<1> QED BY <1>1, <1>2 DEF Text, StandsAt

LEMMA ReadCodeText ==
  ASSUME IInv, Text, ReadCode
  PROVE  Text'
<1>1. /\ codes # <<>> /\ codes' = Tail(codes) /\ ~done
      /\ UNCHANGED <<image, uncompressed, at, ended, freeCode, waiting, table>>
  BY DEF ReadCode, encoder, Text
<1>2. ASSUME NEW k, NEW d, NEW p, NEW fst, ComesTo(k, d, p, fst)
      PROVE  ComesTo(k, d, p, fst)'
  BY <1>1, <1>2 DEF ComesTo, SameStrings, DictOf, EntryOf, WaitingOf, StandsAt, Spelt
<1>3. ASSUME NEW c \in StringCodes, NEW b \in Int, codes = <<Code(c, b)>>, ~ended,
             Readable(c), ComesTo(After(c), NextDict(c), StringOf(c), FALSE)
      PROVE  Text'
  <2>1. Head(codes).code = c /\ codes' = <<>>
    BY <1>1, <1>3 DEF Code
  <2>2. /\ dict' = NextDict(c) /\ prev' = StringOf(c) /\ first' = FALSE
        /\ Len(out') = After(c) /\ StandsAt(out, 0)' /\ ~done'
    BY <1>3, <2>1, ReadOne
  <2>3. PICK k, d, p : k = After(c) /\ d = NextDict(c) /\ p = StringOf(c)
    OBVIOUS
  <2>4. ComesTo(k, d, p, FALSE)'
    BY <1>2, <1>3, <2>3
  <2>5. ComesTo(Len(out), dict, prev, first)'
    BY <2>2, <2>3, <2>4 DEF ComesTo, SameStrings
  <2>6. ToCome'
    BY <1>1, <1>3, <2>1, <2>5 DEF ToCome
  <2> QED BY <2>2, <2>6 DEF Text
<1>4. ASSUME NEW b \in Int, codes = <<Code(ClearCode, b)>>, ~ended,
             ComesTo(Len(out), <<>>, <<>>, TRUE)
      PROVE  Text'
  <2>1. Head(codes).code = ClearCode /\ codes' = <<>>
    BY <1>1, <1>4 DEF Code
  <2>2. dict' = <<>> /\ prev' = <<>> /\ first' = TRUE /\ out' = out /\ done' = done
    BY <2>1, Constants DEF ReadCode, ReadString, ReadClear, ReadEof
  <2>3. PICK k : k = Len(out)
    OBVIOUS
  <2>4. ComesTo(k, <<>>, <<>>, TRUE)'
    BY <1>2, <1>4, <2>3
  <2>5. ComesTo(Len(out), dict, prev, first)'
    BY <2>2, <2>3, <2>4 DEF ComesTo, SameStrings
  <2>6. ToCome'
    BY <1>1, <1>4, <2>1, <2>5 DEF ToCome
  <2>7. StandsAt(out, 0)' /\ ~done'
    BY <1>1, <2>2 DEF Text, StandsAt
  <2> QED BY <2>6, <2>7 DEF Text
<1>5. ASSUME NEW b \in Int, codes = <<Code(EofCode, b)>>, ended, Len(out) = Len(image)
      PROVE  Text'
  <2>1. Head(codes).code = EofCode /\ codes' = <<>>
    BY <1>1, <1>5 DEF Code
  <2>2. out' = out
    BY <2>1, Constants DEF ReadCode, ReadString, ReadClear, ReadEof
  <2>3. ToCome'
    BY <1>1, <1>5, <2>1, <2>2 DEF ToCome
  <2> QED BY <1>1, <1>5, <2>1, <2>2, <2>3 DEF Text, StandsAt
<1>6. ASSUME NEW c \in StringCodes, NEW b \in Int, NEW w \in Int, ~ended,
             codes = <<Code(c, b), Code(ClearCode, w)>>,
             Readable(c), ComesTo(After(c), <<>>, <<>>, TRUE)
      PROVE  Text'
  <2>1. Head(codes).code = c /\ codes' = <<Code(ClearCode, w)>>
    BY <1>1, <1>6 DEF Code
  <2>2. Len(out') = After(c) /\ StandsAt(out, 0)' /\ ~done'
    BY <1>6, <2>1, ReadOne
  <2>3. PICK k : k = After(c)
    OBVIOUS
  <2>4. ComesTo(k, <<>>, <<>>, TRUE)'
    BY <1>2, <1>6, <2>3
  <2>5. ComesTo(Len(out), <<>>, <<>>, TRUE)'
    BY <2>2, <2>3, <2>4 DEF ComesTo, SameStrings
  <2>6. ToCome'
    BY <1>1, <1>6, <2>1, <2>5 DEF ToCome
  <2> QED BY <2>2, <2>6 DEF Text
<1>7. ASSUME NEW c \in StringCodes, NEW b \in Int, NEW w \in Int, ended,
             codes = <<Code(c, b), Code(EofCode, w)>>, Readable(c), After(c) = Len(image)
      PROVE  Text'
  <2>1. Head(codes).code = c /\ codes' = <<Code(EofCode, w)>>
    BY <1>1, <1>7 DEF Code
  <2>2. Len(out') = After(c) /\ StandsAt(out, 0)' /\ ~done'
    BY <1>7, <2>1, ReadOne
  <2>3. ToCome'
    BY <1>1, <1>7, <2>1, <2>2 DEF ToCome
  <2> QED BY <2>2, <2>3 DEF Text
<1> QED BY <1>1, <1>3, <1>4, <1>5, <1>6, <1>7 DEF Text, ToCome

LEMMA TextStep == IInv /\ Slots /\ Text /\ [Next]_vars => Text'
<1> SUFFICES ASSUME IInv, Slots, Text, [Next]_vars PROVE Text'
  OBVIOUS
<1>1. CASE UNCHANGED vars
  <2>1. UNCHANGED <<image, uncompressed, at, ended, freeCode, waiting, table, codes,
                    bits, next, first, prev, dict, out, done>>
    BY <1>1 DEF vars, encoder, decoder
  <2>2. ASSUME NEW k, NEW d, NEW p, NEW fst
        PROVE  ComesTo(k, d, p, fst)' = ComesTo(k, d, p, fst)
    BY <2>1 DEF ComesTo, SameStrings, DictOf, EntryOf, WaitingOf, StandsAt, Spelt
  <2>3. ComesTo(Len(out), dict, prev, first)' = ComesTo(Len(out), dict, prev, first)
        /\ ComesTo(Len(out), <<>>, <<>>, TRUE)' = ComesTo(Len(out), <<>>, <<>>, TRUE)
    BY <2>1, <2>2
  <2>4. ASSUME NEW c
        PROVE  /\ Readable(c)' = Readable(c) /\ After(c)' = After(c)
               /\ NextDict(c)' = NextDict(c) /\ StringOf(c)' = StringOf(c)
    BY <2>1 DEF Readable, Understands, StringOf, StandsAt, After, NextDict, Enters
  <2>5. ASSUME NEW c
        PROVE  /\ ComesTo(After(c), NextDict(c), StringOf(c), FALSE)'
                    = ComesTo(After(c), NextDict(c), StringOf(c), FALSE)
               /\ ComesTo(After(c), <<>>, <<>>, TRUE)' = ComesTo(After(c), <<>>, <<>>, TRUE)
    BY <2>2, <2>4
  <2>6. ToCome'
    BY <2>1, <2>3, <2>4, <2>5 DEF Text, ToCome
  <2> QED BY <2>1, <2>6 DEF Text, StandsAt
<1> QED BY <1>1, WritePixelText, CompressTermText, ReadCodeText DEF Next

(* What the decoder has is the beginning of the image, and all of it at the *)
(* end code, and it can read every code, the one of a string it has yet to  *)
(* enter among them: no clear code, full table, collision in the hash table *)
(* or string that repeats itself makes it see other pixels.                 *)
THEOREM DecodedIsImageHolds == Spec => []DecodedIsImage
<1>1. IInv /\ Text => DecodedIsImage
  <2> SUFFICES ASSUME IInv, Text PROVE DecodedIsImage
    OBVIOUS
  <2>1. codes # <<>> => Understands(Head(codes).code)
    <3>1. SUFFICES ASSUME codes # <<>> PROVE Understands(Head(codes).code)
      OBVIOUS
    <3>2. PICK c, b, e : /\ Readable(c) \/ c = ClearCode \/ c = EofCode
                         /\ codes = <<Code(c, b)>> \/ codes = <<Code(c, b), e>>
      BY <3>1 DEF Text, ToCome
    <3>3. Head(codes).code = c
      BY <3>2 DEF Code
    <3> QED BY <3>2, <3>3, Constants DEF Readable, Understands
  <2>2. /\ out \in Seq(Nat) /\ Len(out) \in Nat /\ Len(out) <= Len(image)
        /\ \A i \in 1..Len(out) : out[i] = image[i]
    BY LenProperties, ImageType DEF Text, StandsAt, IInv
  <2>3. image \in Seq(Nat) /\ Len(image) \in Nat
    BY ImageType DEF IInv
  <2>4. IsPrefix(out, image)
    <3>1. /\ SubSeq(out, 1, Len(out)) \in Seq(Nat) /\ SubSeq(image, 1, Len(out)) \in Seq(Nat)
          /\ Len(SubSeq(out, 1, Len(out))) = Len(out)
          /\ Len(SubSeq(image, 1, Len(out))) = Len(out)
          /\ \A i \in 1..Len(out) : SubSeq(out, 1, Len(out))[i] = out[i]
          /\ \A i \in 1..Len(out) : SubSeq(image, 1, Len(out))[i] = image[i]
      BY <2>2, <2>3
    <3>2. SubSeq(out, 1, Len(out)) = SubSeq(image, 1, Len(out))
      BY <2>2, <3>1, SeqEqual
    <3> QED BY <2>2, <3>2 DEF IsPrefix
  <2>5. done => out = image
    <3>1. done => Len(out) = Len(image)
      BY DEF Text, ToCome, Code
    <3> QED BY <2>2, <2>3, <3>1, SeqEqual
  <2> QED BY <2>1, <2>4, <2>5 DEF DecodedIsImage
<1>2. Spec => []Slots
  BY InitSlots, SlotsStep, Inductive, PTL DEF Spec
<1>3. Spec => []Text
  BY InitText, TextStep, Inductive, <1>2, PTL DEF Spec
<1> QED BY <1>1, <1>3, Inductive, PTL
=============================================================================
