--------------------------- MODULE MCFancyUpsample ---------------------------
(* TLC instances of FancyUpsample: widths and heights around the multiples  *)
(* of 16 pixels, and scaled sizes at which the filter is used.              *)
EXTENDS FancyUpsample

Sizes == {1, 2, 3, 9, 15, 16, 17, 31, 32, 33}
MCPictures == [width : Sizes, height : {1, 8, 15, 16, 17, 32}, num : {5, 8, 16}]
=============================================================================
