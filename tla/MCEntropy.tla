------------------------------ MODULE MCEntropy ------------------------------
(* Images of a few blocks for Entropy: runs of more than 16 zeros, negative *)
(* values, coefficients that appear in a refinement scan, blocks without any, *)
(* and bytes of all ones; 5x5 blocks, and 8x8 ones. *)
EXTENDS Entropy

Block(lim, f) == [k \in 0..lim |-> IF k \in DOMAIN f THEN f[k] ELSE 0]
Full == [component_needed |-> TRUE, DCT_v_scaled_size |-> 8, DCT_h_scaled_size |-> 8]

Sequential(lim) == << [comps |-> << "Y", "C" >>, Ss |-> 0, Se |-> lim, Ah |-> 0, Al |-> 0] >>
Scan(comps, Ss, Se, Ah, Al) == [comps |-> comps, Ss |-> Ss, Se |-> Se, Ah |-> Ah, Al |-> Al]
Progression(lim) ==
  << Scan(<< "Y", "C" >>, 0, 0, 0, 1), Scan(<< "Y" >>, 1, lim, 0, 1), Scan(<< "Y", "C" >>, 0, 0, 1, 0),
     Scan(<< "Y" >>, 1, lim, 1, 0) >>

Picture(lim) ==
  [Y |-> << Block(lim, 0 :> 9 @@ 1 :> -3 @@ 2 :> 1 @@ 20 :> 2), Block(lim, 0 :> -7 @@ 4 :> 1 @@ 24 :> -1),
            Block(lim, 0 :> -7 @@ 1 :> 5 @@ 3 :> 1), Block(lim, 0 :> 0) >>,
   C |-> << Block(lim, 0 :> -1 @@ 24 :> 31), Block(lim, 0 :> 40 @@ 2 :> -17) >>]
Dense(lim) ==
  [Y |-> << [k \in 0..lim |-> IF k % 4 = 0 THEN -1 ELSE IF k % 4 = 3 THEN 0 ELSE (k % 3) + 1], Block(lim, 1 :> 2 @@ 2 :> 1),
            Block(lim, 0 :> 3), Block(lim, 5 :> -2 @@ 9 :> 1) >>,
   C |-> << [k \in 0..lim |-> 5 - k], Block(lim, 0 :> -2) >>]
Long(lim) ==
  [Y |-> << Block(lim, 0 :> 1023 @@ 63 :> -1023), Block(lim, 0 :> -1024 @@ 17 :> 3 @@ 35 :> 1 @@ 60 :> 1) >>,
   C |-> << Block(lim, 50 :> 4) >>]

Job(coder, prog, lim, ri, blocks, scans, sizes) ==
  [coder |-> coder, prog |-> prog, lim |-> lim, ri |-> ri, blocks |-> blocks, scans |-> scans,
   across |-> [Y |-> 2, C |-> 1], tbl |-> [Y |-> 0, C |-> 1], sizes |-> [Y |-> sizes, C |-> Full],
   cond |-> [t \in {0, 1} |-> [L |-> t, U |-> 1 + t, K |-> 5]]]
Small == [component_needed |-> TRUE, DCT_v_scaled_size |-> 2, DCT_h_scaled_size |-> 5]
Unwanted == [component_needed |-> FALSE, DCT_v_scaled_size |-> 8, DCT_h_scaled_size |-> 8]

MCImages ==
  {Job(c, FALSE, 24, 1, p, Sequential(24), z) :
     c \in {"huff", "arith"}, p \in {Picture(24), Dense(24)}, z \in {Full, Small, Unwanted}}
  \cup {Job(c, FALSE, 63, 0, Long(63), Sequential(63), Full) : c \in {"huff", "arith"}}
  \cup {Job(c, TRUE, 24, ri, p, Progression(24), Full) :
          c \in {"huff", "arith"}, ri \in {0, 2}, p \in {Picture(24), Dense(24)}}
  \cup {Job("huff", TRUE, 35, 0, Dense(35), << Scan(<< "Y" >>, 1, 35, 0, 1), Scan(<< "Y" >>, 1, 35, 1, 0) >>, Full)}
  \cup {Job(c, TRUE, 63, 0, Long(63), Progression(63), Full) : c \in {"huff", "arith"}}

Fibonacci[n \in 1..22] == IF n <= 2 THEN 1 ELSE Fibonacci[n - 1] + Fibonacci[n - 2]
MCCounts ==
  {f \in [1..3 -> 0..4] : \E x \in 1..3 : f[x] > 0} \cup {Fibonacci, [n \in 0..21 |-> Fibonacci[22 - n]]}
==============================================================================
