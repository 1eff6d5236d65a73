---------------------------- MODULE FancyUpsample ----------------------------
(***************************************************************************)
(* The triangle filter that doubles the rows and the columns of a chroma   *)
(* component (the h2v2 branch of upsampleAndConvert, and                   *)
(* upsampleH2V2FancyComponentToInt): which samples an output sample is     *)
(* made of.  The arithmetic is the same for all samples of a kind, so a    *)
(* sample is represented by the columns it weighs 3 to 1 and its bias.     *)
(*                                                                         *)
(* The branch is taken where the IDCT has not scaled the chroma up:        *)
(* scaled sizes above 8, or above 4 with DisableChromaIDCTScaling.         *)
(***************************************************************************)
EXTENDS Integers, FiniteSets, FiniteSetsExt

CONSTANTS
  Pictures,   (* the pictures: width and height in pixels, scaled block size  *)
  BlockSize   (* samples along a side of an unscaled block: DCTSize           *)

Picture == [width : Nat \ {0}, height : Nat \ {0}, num : Nat \ {0}]

ASSUME PicturesAssumption ==
  /\ BlockSize \in Nat \ {0}
  /\ Pictures \subseteq Picture
  /\ \A p \in Pictures : p.num > 1

VARIABLES
  pic,    \* the picture
  y,      \* rowGroupCtr, the output line being made
  col,    \* cCol; this column sum and the last are those of col and col - 1
  up,     \* cbUp: output column |-> what it is made of
  pc      \* where the function is

vars == <<pic, y, col, up, pc>>

CeilDiv(a, b) == (a + b - 1) \div b

Output(n) == CeilDiv(n * pic.num, BlockSize)            \* OutputWidth, -Height
Stored(n) == CeilDiv(n, 2 * BlockSize) * pic.num        \* the buffer's side
Downsampled(n) == CeilDiv(Output(n), 2)                 \* what the component has

SrcLen == Stored(pic.width)
DstLen == Min({2 * SrcLen, Output(pic.width)})

(* (3 * main + side + bias) >> 4, of column sums.                           *)
Sample(main, side, bias) == [main |-> main, side |-> side, bias |-> bias]
Unmade == Sample(-1, -1, 7)

Init ==
  /\ pic \in Pictures
  /\ y \in 0..Output(pic.height) - 1
  /\ col = 0
  /\ up = [x \in 0..DstLen - 1 |-> Unmade]
  /\ pc = "first"

FirstColumn ==
  /\ pc = "first"
  /\ up' = [x \in DOMAIN up |-> IF x = 0 THEN Sample(0, 0, 8)
                                ELSE IF x = 1 THEN Sample(0, 1, 7) ELSE up[x]]
  /\ col' = 1 /\ pc' = "interior"
  /\ UNCHANGED <<pic, y>>

MoreColumns == col < SrcLen - 1 /\ 2 * col + 1 < DstLen

\* Mutant: the odd column weighs the column before it.
InteriorLeft ==
  /\ pc = "interior" /\ MoreColumns
  /\ up' = [up EXCEPT ![2 * col] = Sample(col, col - 1, 8),
                      ![2 * col + 1] = Sample(col, col - 1, 7)]
  /\ col' = col + 1
  /\ UNCHANGED <<pic, y, pc>>

InteriorColumn ==
  /\ pc = "interior" /\ MoreColumns
  /\ up' = [up EXCEPT ![2 * col] = Sample(col, col - 1, 8),
                      ![2 * col + 1] = Sample(col, col + 1, 7)]
  /\ col' = col + 1
  /\ UNCHANGED <<pic, y, pc>>

\* Mutant: the last column is weighed with the one before it.
LastLeft ==
  /\ pc = "interior" /\ ~MoreColumns
  /\ up' = IF DstLen < 2 THEN up
           ELSE [up EXCEPT ![DstLen - 2] = Sample(col, col - 1, 8),
                           ![DstLen - 1] = Sample(col, col - 1, 7)]
  /\ pc' = "done"
  /\ UNCHANGED <<pic, y, col>>

LastColumn ==
  /\ pc = "interior" /\ ~MoreColumns
  /\ up' = IF DstLen < 2 THEN up
           ELSE [up EXCEPT ![DstLen - 2] = Sample(col, col - 1, 8),
                           ![DstLen - 1] = Sample(col, col, 7)]
  /\ pc' = "done"
  /\ UNCHANGED <<pic, y, col>>

Next == FirstColumn \/ InteriorColumn \/ LastColumn

Spec == Init /\ [][Next]_vars

-----------------------------------------------------------------------------
(* The rows the filter weighs 3 to 1.                                       *)
NearRow == Min({y \div 2, Stored(pic.height) - 1})

\* Mutant: the far row of an even line is the one below.
FarBelow == Min({NearRow + 1, Stored(pic.height) - 1})

FarRow ==
  IF y % 2 = 0 THEN Max({NearRow - 1, 0})
  ELSE Min({NearRow + 1, Stored(pic.height) - 1})

(* The filter by its definition: an output sample lies a quarter of the way *)
(* from its own component sample to a neighbour; at the edges of the        *)
(* component, which has n samples, its own one stands in for the neighbour. *)
Own(x) == x \div 2
Neighbour(x, n) ==
  IF x % 2 = 0 THEN IF x = 0 THEN 0 ELSE Own(x) - 1
  ELSE IF x = 2 * n - 1 THEN Own(x) ELSE Own(x) + 1

Filtered(x) ==
  Sample(Own(x), Neighbour(x, Downsampled(pic.width)), IF x % 2 = 0 THEN 8 ELSE 7)

TypeOK ==
  /\ pic \in Pictures
  /\ y \in 0..Output(pic.height) - 1
  /\ col \in 0..SrcLen - 1
  /\ DOMAIN up = 0..DstLen - 1
  /\ pc \in {"first", "interior", "done"}

(* All columns but the last two are those of the filter, whatever the width *)
(* of the buffer, and no column is left unmade.                             *)
InteriorMatches ==
  pc = "done" => \A x \in 0..DstLen - 1 :
    /\ x < DstLen - 2 => up[x] = Filtered(x)
    /\ up[x] # Unmade

(* A line that fills the buffer's width is the filter's from end to end.    *)
FullWidthMatches ==
  pc = "done" /\ Output(pic.width) = 2 * SrcLen =>
    \A x \in 0..DstLen - 1 : up[x] = Filtered(x)

(* The two rows of a line are the filter's when the picture fills the       *)
(* buffer, and above its last line in any case.                             *)
RowsMatchInside ==
  y < Output(pic.height) - 1 \/ Output(pic.height) = 2 * Stored(pic.height) =>
    NearRow = Own(y) /\ FarRow = Neighbour(y, Downsampled(pic.height))
=============================================================================
