---------------------------- MODULE MCRowGeometry ----------------------------
(***************************************************************************)
(* TLC instances of RowGeometry: heights and widths around one and two     *)
(* iMCUs, the usual sampling factors, scales below, at and above 1.        *)
(***************************************************************************)
EXTENDS RowGeometry

Sampling(h, v) == [d \in Dim |-> IF d = "h" THEN h ELSE v]
Gray(h, v) == <<Sampling(h, v)>>
Color(h, v) == <<Sampling(h, v), Sampling(1, 1), Sampling(1, 1)>>

ImagesOf(frames, sizes, scales) ==
  {i \in [size : [Dim -> sizes], comps : frames, prog : BOOLEAN, num : scales,
          fancy : BOOLEAN, raw : BOOLEAN] :
     (i.size["h"] = i.size["v"] \/ i.num = 2) /\ (i.raw => i.fancy)}

(* A block of 4 by 4 samples stands for one of 8 by 8; scales 1, 2, 4 and 8 *)
(* are those of 1/4, 1/2, 1 and 2.                                          *)
MCImages ==
  ImagesOf({Gray(1, 1), Color(1, 1), Color(2, 1), Color(1, 2), Color(2, 2)},
           {1, 3, 4, 5, 8, 9, 17}, {1, 2, 3, 4, 8})
    \cup {i \in ImagesOf({Gray(2, 2), Gray(1, 2)}, {3, 8, 9}, {2, 4}) : i.prog}
    \cup {i \in ImagesOf({Color(4, 1)}, {8, 17}, {1, 2, 4}) : i.fancy}
=============================================================================
