--------------------------- MODULE MCDecompressor ---------------------------
(***************************************************************************)
(* TLC instance of Decompressor: the datastreams a decoder meets (one and  *)
(* two images, tables-only streams, sequential and progressive multi-scan  *)
(* images, pseudo SOS markers) and the malformed or cut ones.              *)
(***************************************************************************)
EXTENDS Decompressor, TLC

CONSTANTS a, b, q1, q2

MCComp == {a, b}
MCTables == {q1, q2}

Seg(m) == [m |-> m, prog |-> FALSE, comps |-> {}, val |-> 0, tab |-> NoTable, ok |-> TRUE]
SOI == Seg("SOI")
EOI == Seg("EOI")
DATA == Seg("DATA")
APP == Seg("APP")
DQT(t) == [Seg("DQT") EXCEPT !.tab = t]
DRI(n) == [Seg("DRI") EXCEPT !.val = n]
SOF(p, cs) == [Seg("SOF") EXCEPT !.prog = p, !.comps = cs]
SOS(cs) == [Seg("SOS") EXCEPT !.comps = cs]
Bad(s) == [s EXCEPT !.ok = FALSE]

Both == {a, b}
Sequential == <<SOI, APP, DQT(q1), DRI(2), SOF(FALSE, Both), SOS(Both), DATA, EOI>>
Progressive ==
  <<SOI, DQT(q1), SOF(TRUE, Both), SOS(Both), DATA, DQT(q2), DRI(1), SOS({a}), DATA,
    SOS(Both), EOI>>

MCStreams ==
  { Sequential \o <<SOI, APP, SOF(FALSE, {a}), SOS({a}), DATA, EOI>>,
    \* scans of one component each, a table redefined in between
    <<SOI, DQT(q1), SOF(FALSE, Both), SOS({a}), DATA, DQT(q2), SOS({b}), DATA, EOI>>,
    Progressive \o <<SOI, SOF(FALSE, Both), SOS(Both), DATA, EOI>>,
    \* a pseudo SOS in the header and another between scans
    <<SOI, DQT(q1), SOF(TRUE, Both), SOS({}), SOS(Both), DATA, SOS({}), SOS({b}), EOI>>,
    \* an abbreviated stream: tables first, then an image that relies on them
    <<SOI, DQT(q2), DRI(3), EOI, SOI, SOF(FALSE, {a}), SOS({a}), DATA, EOI>>,
    \* cut after the first scan, or before any table
    <<SOI, DQT(q1), SOF(TRUE, Both), SOS(Both), DATA>>,
    <<SOI, SOF(TRUE, Both), SOS({a}), DATA, SOS({b}), EOI>>,
    \* malformed
    <<DATA, SOI, SOI>>,
    <<SOI, DRI(2), SOI, EOI>>,
    <<SOI, SOS({a}), EOI>>,
    <<SOI, DQT(q1), SOF(FALSE, Both), EOI>>,
    <<SOI, Seg("SOFX"), SOS({a})>>,
    <<SOI, DQT(q1), SOF(FALSE, {a}), SOS({a}), DATA, SOS({a}), EOI>>,
    <<SOI, DQT(q1), SOF(TRUE, Both), SOS(Both), SOF(FALSE, {a}), SOS({a}), EOI>>,
    <<SOI, DQT(q1), Bad(SOF(TRUE, {a})), SOS({a}), EOI>>,
    <<SOI, DQT(q1), SOF(TRUE, {a}), SOS({a}), SOS({b}), EOI>>,
    <<SOI, Bad(DQT(q1)), Seg("MISC"), EOI>>,
    <<SOI, Seg("MISC"), [SOF(FALSE, {a}) EXCEPT !.val = 1], SOS({a}), SOS({a}), EOI>>,
    <<SOI, DQT(q1), [SOF(FALSE, {a}) EXCEPT !.val = 2], SOS({a}), EOI>> }
-----------------------------------------------------------------------------
=============================================================================
