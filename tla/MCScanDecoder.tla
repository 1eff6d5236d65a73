--------------------------- MODULE MCScanDecoder ---------------------------
(***************************************************************************)
(* TLC instance of ScanDecoder: sequential and progressive images, whole   *)
(* and cut, an image behind another one, and frames the decoder refuses.   *)
(***************************************************************************)
EXTENDS ScanDecoder, TLC

CONSTANTS a, b, q1, q2

MCComp == {a, b}
MCTables == {q1, q2}

Seg(m) == [m |-> m, prog |-> FALSE, comps |-> {}, val |-> 0, tab |-> NoTable, ok |-> TRUE]
SOI == Seg("SOI")
EOI == Seg("EOI")
DATA == Seg("DATA")
DQT == [Seg("DQT") EXCEPT !.tab = q1]
DQT2 == [Seg("DQT") EXCEPT !.tab = q2]
SOF(p, cs) == [Seg("SOF") EXCEPT !.prog = p, !.comps = cs]
SOS(cs) == [Seg("SOS") EXCEPT !.comps = cs]
With(s, n) == [s EXCEPT !.val = n]

Both == {a, b}
Gray == <<SOI, SOF(FALSE, {a}), SOS({a}), DATA, EOI>>
Progressive ==
  <<SOI, DQT, SOF(TRUE, Both), SOS(Both), DATA, DATA, SOS({a}), DATA, SOS({b}), EOI>>

MCStreams ==
  { <<SOI, DQT, SOF(FALSE, Both), SOS(Both), DATA, DATA, EOI>> \o Gray,
    \* cut, and followed by a DNL segment
    <<SOI, DQT, SOF(FALSE, {a}), SOS({a}), DATA>>,
    <<SOI, DQT, SOF(FALSE, {a}), SOS({a}), DATA, Seg("MISC"), EOI>>,
    \* one scan per component
    <<SOI, DQT, SOF(FALSE, Both), SOS({a}), DATA, SOS({b}), DATA, EOI>>,
    Progressive \o Gray,
    <<SOI, DQT, SOF(TRUE, {a}), SOS({a}), DATA, Seg("MISC"), DQT2, SOS({a}), DATA>>,
    <<SOI, DQT, SOF(TRUE, {a}), SOS({a}), DATA, DATA, DQT2, SOS({a}), DATA, DATA,
      DATA, DATA, EOI>>,
    \* a SOS without components, and data no scan has
    <<SOI, DQT, SOF(TRUE, {a}), SOS({}), DATA, SOS({a}), DATA, DATA, SOS({}), EOI>> \o Gray,
    \* an AC scan of two components
    <<SOI, DQT, SOF(TRUE, Both), SOS(Both), DATA, With(SOS(Both), 1), DATA, EOI>>,
    \* samples of 12 bits
    <<SOI, DQT, With(SOF(FALSE, {a}), 2), SOS({a}), DATA, EOI>>,
    <<SOI, DQT, With(SOF(TRUE, {a}), 2), SOS({a}), DATA, EOI>> }
-----------------------------------------------------------------------------
=============================================================================
