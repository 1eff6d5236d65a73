------------------------------ MODULE MCKernels ------------------------------
(***************************************************************************)
(* Inputs for Kernels: a few blocks for every transform, pixels at the     *)
(* ends and in the middle of their range, pictures with and without        *)
(* subsampling that are not a whole number of iMCUs, and crops of every    *)
(* kind.                                                                   *)
(***************************************************************************)
EXTENDS Kernels

MCDctInputs ==
  {[q |-> 1, halved |-> FALSE,
    sample |-> [p \in (0..15) \X (0..15) |-> (p[1] * 37 + p[2] * 91 + p[1] * p[2] * 13 + p[1] * p[1] * 7) % 256]],
   [q |-> 3, halved |-> TRUE,
    sample |-> [p \in (0..15) \X (0..15) |-> IF (p[1] * 4 + p[2] * 5) % 3 = 0 THEN 255 ELSE 0]]}

Gray(w, h) == [width |-> w, height |-> h, cs |-> "GRAY", comps |-> <<[h |-> 1, v |-> 1, q |-> 0]>>]
Ycc(w, h, sh, sv) ==
  [width |-> w, height |-> h, cs |-> "YCC",
   comps |-> <<[h |-> sh, v |-> sv, q |-> 0], [h |-> 1, v |-> 1, q |-> 1], [h |-> 1, v |-> 1, q |-> 1]>>]
MCPictures == {Gray(5, 4), Gray(4, 7), Ycc(9, 6, 2, 2), Ycc(6, 5, 2, 1), Ycc(4, 4, 1, 2)}

Digits(n) == <<[t |-> "digits", n |-> n]>>
Char(c) == <<[t |-> c, n |-> 0]>>
Size(w, mark) == IF mark = "" THEN Digits(w) ELSE Digits(w) \o Char(mark)
Height(h, mark) == Char("x") \o Size(h, mark)
Offset(sign, n) == Char(sign) \o Digits(n)
MCCropSpecs ==
  {<< >>, Size(3, "") \o Height(2, "") \o Offset("+", 1) \o Offset("+", 1),
   Size(2, "f") \o Height(2, "") \o Offset("-", 1) \o Offset("-", 1),
   Offset("+", 3) \o Offset("+", 2), Size(11, "f") \o Height(5, "f") \o Offset("+", 1),
   Size(13, "r") \o Height(9, "") \o Offset("-", 2) \o Offset("+", 2), Size(12, "") \o Height(3, ""),
   Size(2, "r") \o Height(7, "") \o Offset("+", 0), Size(3, "f") \o Offset("+", 3),
   Size(4, "r") \o Height(7, "") \o Offset("-", 0) \o Offset("+", 0), Height(4, "") \o Offset("-", 0),
   Size(3, "f") \o Char("x")}

\* Two images of two components with tables of their own, positions 1 and 2.
Instance(src, drop) ==
  [tblno |-> <<1, 2>>, tables |-> src, srcQ |-> src, dropQ |-> drop,
   src |-> << <<-3, 7>>, <<4, 0>> >>, drop |-> << <<11, -2>>, <<-5, 9>> >>]
MCDrops ==
  {Instance(s, d) : s \in {<< <<4, 6>>, <<8, 9>> >>, << <<5, 5>>, <<12, 3>> >>},
                    d \in {<< <<4, 6>>, <<8, 9>> >>, << <<6, 9>>, <<3, 1>> >>, << <<5, 2>>, <<8, 3>> >>}}

\* A TIFF header, a directory with the pointer to the Exif directory at offset 22, and
\* that directory with three entries.
Two(n, m) == IF m THEN <<n \div 256, n % 256>> ELSE <<n % 256, n \div 256>>
Four(n, m) == IF m THEN <<0, 0>> \o Two(n, m) ELSE Two(n, m) \o <<0, 0>>
Entry(tag, type, value, m) == Two(tag, m) \o Two(type, m) \o Four(1, m) \o Four(value, m)
Exif(m, second) ==
  (IF m THEN <<77, 77>> ELSE <<73, 73>>) \o Two(42, m) \o Four(8, m)
  \o Two(1, m) \o Entry(ExifIFDPointer, 4, 22, m)
  \o Two(3, m) \o Entry(PixelXDimension, 3, 7, m) \o Entry(second, 3, 9, m) \o Entry(PixelYDimension, 4, 5, m)
MCExifBlocks ==
  {[data |-> Exif(m, tag), motorola |-> m, widthAt |-> 25, heightAt |-> 49] :
     m \in BOOLEAN, tag \in {40960, 256}}

MCRows == {<< <<70, 100, 180>>, <<150, 90, 60>> >>, << <<190, 64, 75>>, <<100, 195, 111>> >>,
           << <<0, 255, 3>>, <<240, 12, 255>> >>}
MCOnePassMaps ==
  {[nc |-> 1, rgb |-> FALSE, desired |-> 4], [nc |-> 3, rgb |-> TRUE, desired |-> 256],
   [nc |-> 3, rgb |-> FALSE, desired |-> 20], [nc |-> 3, rgb |-> TRUE, desired |-> 5]}
MCColorMaps == {<< <<0, 0, 0>>, <<255, 255, 255>>, <<120, 100, 80>> >>, << <<60, 200, 90>>, <<200, 60, 90>> >>}
==============================================================================
