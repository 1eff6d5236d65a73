------------------------------ MODULE MCGifLzw ------------------------------
(* TLC instance of GifLzw: four colours and codes of 3 to 5 bits.  Images   *)
(* that repeat a pattern are made of long strings; those with little order  *)
(* fill the table several times.                                            *)
EXTENDS GifLzw

Pixels == 0..3
Patterns == UNION {[1..n -> Pixels] : n \in 1..3}
Repeated(p, n) == [i \in 1..n |-> p[((i - 1) % Len(p)) + 1]]
Mixed(k, n) == [i \in 1..n |-> ((i * i * i + k * i) % 31) % 4]
MCImages ==
  {<<>>} \cup {Repeated(p, n) : p \in Patterns, n \in {1, 7, 8, 30}}
  \cup {Mixed(k, 150) : k \in 0..15}
=============================================================================
