-------------------------------- MODULE Fdct --------------------------------
(***************************************************************************)
(* The forward DCTs of the reference library (jpeg-9f/jfdctint.c): the     *)
(* accurate integer method for blocks of 8x8 samples and the scaled ones   *)
(* for blocks of 1x1 up to 16x16.  All of them transform the rows, then    *)
(* the columns, of a block with a transform of 1 to 16 points, and keep    *)
(* the lowest eight frequencies.                                           *)
(*                                                                         *)
(* DctN(x, k) is the transform of N points: x is a vector of samples, k    *)
(* the constants in the order in which the code uses them, the first being *)
(* the weight of samples that it adds without a multiplication.  A result  *)
(* is scaled by 2^CONST_BITS.  Where the code shifts by PASS1_BITS instead *)
(* of multiplying and rounding the two come to the same value.             *)
(***************************************************************************)
EXTENDS Integers, Sequences

CONST_BITS == 13
PASS1_BITS == 2
CENTERJSAMPLE == 128
DCTSIZE == 8

\* The macro FIX: a constant in units of 10^-8, scaled by 2^CONST_BITS
FIX(c) == 32 * (c \div 390625) + (32 * (c % 390625) + 195312) \div 390625
Fixed(s) == [i \in 1..Len(s) |-> FIX(s[i])]
ONE == 100000000

DESCALE(v, n) == IF n = 0 THEN v ELSE (v + 2 ^ (n - 1)) \div 2 ^ n

\* Sum and difference of the i-th sample from either end of n samples
Plus(x, n, i) == x[i] + x[n - 1 - i]
Minus(x, n, i) == x[i] - x[n - 1 - i]

-----------------------------------------------------------------------------

Dct1(x, k) == <<x[0] * k[1]>>

Dct2(x, k) == <<(x[0] + x[1]) * k[1], (x[0] - x[1]) * k[1]>>

Dct3(x, k) ==
  LET s == x[0] + x[2] IN
  <<(s + x[1]) * k[1], (x[0] - x[2]) * k[3], (s - 2 * x[1]) * k[2]>>

Dct4(x, k) ==
  LET s(i) == Plus(x, 4, i)
      d(i) == Minus(x, 4, i)
      z == (d(0) + d(1)) * k[2]
  IN <<(s(0) + s(1)) * k[1], z + d(0) * k[3], (s(0) - s(1)) * k[1], z - d(1) * k[4]>>

Dct5(x, k) ==
  LET s(i) == Plus(x, 5, i)
      d(i) == Minus(x, 5, i)
      a == (s(0) - s(1)) * k[2]
      b == (s(0) + s(1) - 4 * x[2]) * k[3]
      z == (d(0) + d(1)) * k[4]
  IN <<(s(0) + s(1) + x[2]) * k[1], z + d(0) * k[5], a + b, z - d(1) * k[6], a - b>>

Dct6(x, k) ==
  LET s(i) == Plus(x, 6, i)
      d(i) == Minus(x, 6, i)
      a == s(0) + s(2)
      z == (d(0) + d(2)) * k[4]
  IN <<(a + s(1)) * k[1], z + (d(0) + d(1)) * k[1], (s(0) - s(2)) * k[2],
       (d(0) - d(1) - d(2)) * k[1], (a - 2 * s(1)) * k[3], z + (d(2) - d(1)) * k[1]>>

Dct7(x, k) ==
  LET s(i) == Plus(x, 7, i)
      d(i) == Minus(x, 7, i)
      m == x[3]
      z1 == (s(0) + s(2) - 4 * m) * k[2]
      z2 == (s(0) - s(2)) * k[3]
      z3 == (s(1) - s(2)) * k[4]
      z4 == (s(0) - s(1)) * k[5]
      a == (d(0) + d(1)) * k[7]
      b == (d(0) - d(1)) * k[8]
      c == -(d(1) + d(2)) * k[9]
      e == (d(0) + d(2)) * k[10]
  IN <<(s(0) + s(1) + s(2) + m) * k[1], a - b + e, z1 + z2 + z3, a + b + c,
       z4 + z3 - (s(1) - 2 * m) * k[6], c + e + d(2) * k[11], z1 - z2 + z4>>

Dct8(x, k) ==
  LET s(i) == Plus(x, 8, i)
      d(i) == Minus(x, 8, i)
      t12 == s(0) - s(3)
      t13 == s(1) - s(2)
      z == (t12 + t13) * k[2]
      y == (d(0) + d(1) + d(2) + d(3)) * k[5]
      p == y - (d(0) + d(2)) * k[6]
      q == y - (d(1) + d(3)) * k[7]
      v == -(d(0) + d(3)) * k[8]
      w == -(d(1) + d(2)) * k[11]
  IN <<(s(0) + s(1) + s(2) + s(3)) * k[1], d(0) * k[9] + v + p, z + t12 * k[3], d(1) * k[12] + w + q,
       (s(0) + s(3) - s(1) - s(2)) * k[1], d(2) * k[13] + w + p, z - t13 * k[4], d(3) * k[10] + v + q>>

Dct9(x, k) ==
  LET s(i) == Plus(x, 9, i)
      d(i) == Minus(x, 9, i)
      z1 == s(0) + s(2) + s(3)
      z2 == s(1) + x[4]
      a == (s(0) - s(2)) * k[3]
      b == (s(1) - 2 * x[4]) * k[2]
      c == d(1) * k[6]
      p == (d(0) + d(2)) * k[7]
      q == (d(0) + d(3)) * k[8]
      r == (d(2) - d(3)) * k[9]
  IN <<(z1 + z2) * k[1], c + p + q, (s(2) - s(3)) * k[4] + a + b, (d(0) - d(2) - d(3)) * k[6],
       (s(3) - s(0)) * k[5] + a - b, p - c - r, (z1 - 2 * z2) * k[2], q - c + r>>

Dct10(x, k) ==
  LET s(i) == Plus(x, 10, i)
      d(i) == Minus(x, 10, i)
      t10 == s(0) + s(4)
      t13 == s(0) - s(4)
      t11 == s(1) + s(3)
      t14 == s(1) - s(3)
      z == (t13 + t14) * k[4]
      a == d(0) + d(4)
      b == d(1) - d(3)
      p == (d(0) - d(4)) * k[11] - (d(1) + d(3)) * k[12]
      q == (a + b) * k[13] + b * k[14] - d(2) * k[1]
  IN <<(t10 + t11 + s(2)) * k[1],
       d(0) * k[7] + d(1) * k[8] + d(2) * k[1] + d(3) * k[9] + d(4) * k[10],
       z + t13 * k[5], p + q,
       (t10 - 2 * s(2)) * k[2] - (t11 - 2 * s(2)) * k[3],
       (a - b - d(2)) * k[1], z - t14 * k[6], p - q>>

Dct11(x, k) ==
  LET s(i) == Plus(x, 11, i) - 2 * x[5]
      d(i) == Minus(x, 11, i)
      z1 == (s(0) + s(3)) * k[2] + (s(2) + s(4)) * k[3]
      z2 == (s(1) - s(3)) * k[4]
      z3 == (s(0) - s(1)) * k[5]
      a == (d(0) + d(1)) * k[12]
      b == (d(0) + d(2)) * k[13]
      c == (d(0) + d(3)) * k[14]
      e == -(d(1) + d(2)) * k[14]
      f == -(d(1) + d(3)) * k[17]
      g == (d(2) + d(3)) * k[16]
  IN <<(s(0) + s(1) + s(2) + s(3) + s(4) + 11 * x[5]) * k[1],
       a + b + c - d(0) * k[15] + d(4) * k[16],
       z1 + z2 - s(3) * k[6] - s(4) * k[7],
       a + e + f + d(1) * k[18] - d(4) * k[13],
       z2 + z3 + s(1) * k[8] - s(2) * k[2] + s(4) * k[9],
       b + e + g - d(2) * k[19] + d(4) * k[17],
       z1 + z3 - s(0) * k[10] - s(2) * k[11],
       c + f + g + d(3) * k[20] - d(4) * k[12]>>

Dct12(x, k) ==
  LET s(i) == Plus(x, 12, i)
      d(i) == Minus(x, 12, i)
      t10 == s(0) + s(5)
      t13 == s(0) - s(5)
      t14 == s(1) - s(4)
      t12 == s(2) + s(3)
      t15 == s(2) - s(3)
      z == (d(1) + d(4)) * k[4]
      b == z + d(1) * k[5]
      c == z - d(4) * k[6]
      e == (d(0) + d(2)) * k[7]
      f == (d(0) + d(3)) * k[8]
      g == -(d(2) + d(3)) * k[10]
  IN <<(t10 + s(1) + s(4) + t12) * k[1],
       e + f + b - d(0) * k[9] + d(5) * k[10],
       (t14 - t15) * k[14] + (t13 + t15) * k[3],
       c + (d(0) - d(3)) * k[13] - (d(2) + d(5)) * k[4],
       (t10 - t12) * k[2],
       e + g - c - d(2) * k[11] + d(5) * k[8],
       (t13 - t14 - t15) * k[1],
       f + g - b + d(3) * k[12] - d(5) * k[7]>>

Dct13(x, k) ==
  LET s(i) == Plus(x, 13, i) - 2 * x[6]
      d(i) == Minus(x, 13, i)
      z1 == (s(0) - s(2)) * k[8] - (s(3) - s(4)) * k[9] - (s(1) - s(5)) * k[10]
      z2 == (s(0) + s(2)) * k[11] - (s(3) + s(4)) * k[12] + (s(1) + s(5)) * k[13]
      a == (d(0) + d(1)) * k[14]
      b == (d(0) + d(2)) * k[15]
      c == (d(0) + d(3)) * k[16] + (d(4) + d(5)) * k[17]
      e == (d(4) - d(5)) * k[16] - (d(1) + d(2)) * k[17]
      f == -(d(1) + d(3)) * k[15]
      g == -(d(2) + d(3)) * k[22]
  IN <<(s(0) + s(1) + s(2) + s(3) + s(4) + s(5) + 13 * x[6]) * k[1],
       a + b + c - d(0) * k[18] + d(4) * k[19],
       s(0) * k[2] + s(1) * k[3] + s(2) * k[4] - s(3) * k[5] - s(4) * k[6] - s(5) * k[7],
       a + e + f + d(1) * k[20] - d(4) * k[21],
       z1 + z2,
       b + e + g - d(2) * k[23] + d(5) * k[24],
       z1 - z2,
       c + f + g + d(3) * k[25] - d(5) * k[26]>>

Dct14(x, k) ==
  LET s(i) == Plus(x, 14, i)
      d(i) == Minus(x, 14, i)
      t10 == s(0) + s(6)
      t14 == s(0) - s(6)
      t11 == s(1) + s(5)
      t15 == s(1) - s(5)
      t12 == s(2) + s(4)
      t16 == s(2) - s(4)
      z == (t14 + t15) * k[5]
      a == d(1) + d(2)
      b == d(5) - d(4)
      c == b * k[11] - a * k[10] - d(3) * k[1]
      e == (d(0) + d(2)) * k[12] + (d(4) + d(6)) * k[13]
      f == (d(0) + d(1)) * k[16] + (d(5) - d(6)) * k[17]
  IN <<(t10 + t11 + t12 + s(3)) * k[1],
       e + f + d(3) * k[1] - d(0) * k[20] + d(6) * k[21],
       z + t14 * k[6] + t16 * k[7],
       c + f - d(1) * k[18] - d(5) * k[19],
       (t10 - 2 * s(3)) * k[2] + (t11 - 2 * s(3)) * k[3] - (t12 - 2 * s(3)) * k[4],
       c + e - d(2) * k[14] + d(4) * k[15],
       z - t15 * k[8] - t16 * k[9],
       (d(0) - a + d(3) - b - d(6)) * k[1]>>

Dct15(x, k) ==
  LET s(i) == Plus(x, 15, i)
      d(i) == Minus(x, 15, i)
      m == x[7]
      z1 == s(0) + s(4) + s(5)
      z2 == s(1) + s(3) + s(6)
      z3 == s(2) + m
      t2 == s(2) + (s(1) + s(4)) \div 2 - 2 * m
      p == (s(3) - t2) * k[4] - (s(6) - t2) * k[5]
      q == (s(5) - t2) * k[6] - (s(0) - t2) * k[7]
      r == (s(0) - s(3)) * k[8] + (s(6) - s(5)) * k[9] + (s(1) - s(4)) * k[10]
      t == d(2) * k[11]
      v == (d(0) - d(6)) * k[14] + (d(1) + d(4)) * k[12] + (d(3) + d(5)) * k[15]
  IN <<(z1 + z2 + z3) * k[1],
       d(3) * k[16] - d(4) * k[17] + d(6) * k[18] + v + t,
       p + r,
       (d(0) - d(4) - d(5)) * k[12] + (d(1) - d(3) - d(6)) * k[13],
       q + r,
       (d(0) - d(2) - d(3) + d(5) + d(6)) * k[11],
       (z1 - 2 * z3) * k[2] - (z2 - 2 * z3) * k[3],
       v - t - d(0) * k[19] - d(1) * k[20] - d(5) * k[21]>>

Dct16(x, k) ==
  LET s(i) == Plus(x, 16, i)
      d(i) == Minus(x, 16, i)
      t14 == s(0) - s(7)
      t15 == s(1) - s(6)
      t16 == s(2) - s(5)
      t17 == s(3) - s(4)
      z == (t17 - t15) * k[4] + (t14 - t16) * k[5]
      a == (d(0) + d(1)) * k[10] + (d(6) - d(7)) * k[11]
      b == (d(0) + d(2)) * k[12] + (d(5) + d(7)) * k[13]
      c == (d(0) + d(3)) * k[14] + (d(4) - d(7)) * k[15]
      e == (d(1) + d(2)) * k[16] + (d(6) - d(5)) * k[17]
      f == -(d(1) + d(3)) * k[13] - (d(4) + d(6)) * k[12]
      g == -(d(2) + d(3)) * k[10] + (d(5) - d(4)) * k[11]
  IN <<(s(0) + s(1) + s(2) + s(3) + s(4) + s(5) + s(6) + s(7)) * k[1],
       a + b + c - d(0) * k[18] + d(7) * k[19],
       z + t15 * k[6] + t16 * k[7],
       a + e + f + d(1) * k[20] - d(6) * k[21],
       (s(0) + s(7) - s(3) - s(4)) * k[2] + (s(1) + s(6) - s(2) - s(5)) * k[3],
       b + e + g - d(2) * k[22] + d(5) * k[23],
       z - t14 * k[8] - t17 * k[9],
       c + f + g + d(3) * k[24] + d(4) * k[25]>>

-----------------------------------------------------------------------------
(***************************************************************************)
(* The constants: Kn as they stand in the pass over the rows of a transform *)
(* of n points, Sn folded with the factor that the pass over the columns   *)
(* applies to bring the result to the scale of an 8x8 transform.           *)
(***************************************************************************)
UNIT == <<1>>       \* additions only, left unscaled
KONE == Fixed(<<ONE>>)

K3 ==
  Fixed(<<ONE, 70710678, 122474487>>)
S3 ==
  Fixed(<<177777777, 125707872, 217732421>>)

K4 ==
  Fixed(<<ONE, 54119610, 76536686, 184775906>>)

K5 ==
  Fixed(<<ONE, 79056941, 35355339, 83125387, 51374314, 217625089>>)
S5 ==
  Fixed(<<128000000, 101192885, 45254834, 106400496, 65759123, 278560115>>)

K6 ==
  Fixed(<<ONE, 122474487, 70710678, 36602540>>)
S6 ==
  Fixed(<<177777777, 217732421, 125707872, 65071182>>)

K7 ==
  Fixed(<<ONE, 35355339, 92060900, 31469212, 88174773, 70710678, 93541434,
        17026233, 137875627, 61360426, 187082869>>)
S7 ==
  Fixed(<<130612244, 46178402, 120242808, 41102644, 115167050, 92356804,
        122176567, 22238346, 180082452, 80144231, 244353135>>)

K8 ==
  Fixed(<<ONE, 54119610, 76536686, 184775906, 117587560, 39018064, 196157056,
        89997622, 150132111, 29863133, 256291544, 307271102, 205311986>>)

K9 ==
  Fixed(<<ONE, 70710678, 132892604, 108335044, 24557560, 122474487, 90903895,
        48368952, 139272848>>)
S9 ==
  Fixed(<<158024691, 111740330, 210003128, 171196119, 38807009, 193539930,
        143650600, 76434887, 220085488>>)

K10 ==
  Fixed(<<ONE, 114412280, 43701602, 83125387, 51374314, 217625089, 139680224,
        126007351, 64203952, 22123174, 95105651, 58778525, 30901699, 50000000>>)
S10 ==
  Fixed(<<128000000, 146447719, 55938051, 106400496, 65759123, 278560115,
        178790687, 161289409, 82181058, 28317663, 121735234, 75236512,
        39554175, 64000000>>)

K11 ==
  Fixed(<<ONE, 135692797, 20126357, 92611293, 118971215, 101830059, 139097573,
        6233565, 58748554, 162052720, 78874912, 128641390, 106879129, 76458157,
        171996787, 39843000, 139981890, 127641658, 198905362, 130559862>>)
S11 ==
  Fixed(<<105785124, 143542794, 21290692, 97968971, 125853847, 107721054,
        147144540, 6594184, 62147231, 171427670, 83437923, 136083454,
        113062219, 80881356, 181947014, 42147967, 148080016, 135025886,
        210412284, 138112912>>)

K12 ==
  Fixed(<<ONE, 122474487, 136602540, 54119610, 76536686, 184775906, 112197105,
        86091866, 58077495, 18459191, 233949391, 72578801, 130656296>>) \o <<1>>   \* no factor on tmp14 - tmp15
S12 ==
  Fixed(<<88888888, 108866210, 121424480, 48106320, 68032610, 164245250,
        99730760, 76526103, 51624440, 16408169, 207955014, 64514489,
        116138930>>) \o <<FIX(88888888)>>

K13 ==
  Fixed(<<ONE, 137311908, 105855405, 50148704, 17046460, 80336486, 125222392,
        115538898, 43581602, 31645013, 9683493, 93730306, 48691473, 132231265,
        116387494, 93779705, 33844345, 202008230, 31877435, 83722356,
        234169941, 65721781, 157211602, 226010970, 220560835, 174234581>>)
S13 ==
  Fixed(<<75739645, 103999552, 80174508, 37982450, 12910928, 60846570,
        94842995, 87508751, 33008550, 23967820, 7334243, 70991001, 36878749,
        100151490, 88151475, 71028416, 25633587, 153000316, 24143856, 63411015,
        177359481, 49777443, 119071509, 171179906, 167051993, 131964653>>)

K14 ==
  Fixed(<<ONE, 127416239, 31469212, 88174773, 110567668, 27307959, 61360426,
        171928095, 137875627, 15834168, 140532128, 119744884, 75240697,
        237395977, 111999943, 133485260, 46708512, 42410394, 306985525,
        112698016>>) \o <<1 - FIX(112698016)>>   \* no factor on tmp6
S14 ==
  Fixed(<<65306122, 83210605, 20551322, 57583525, 72207457, 17833769, 40072115,
        112279572, 90041226, 10340681, 91776083, 78200741, 49136782, 155034107,
        73142820, 87174047, 30503518, 27696584, 200480343, 73598704>>) \o <<-FIX(8292582)>>

K15 ==
  Fixed(<<ONE, 114412280, 43701602, 153113517, 223824195, 79846800, 9136122,
        138330960, 94629357, 79056941, 122474487, 134499702, 83125387,
        140646635, 57521247, 47575301, 51374314, 170049788, 35550086,
        217625089, 86924401>>)
S15 ==
  Fixed(<<113777777, 130175750, 49722712, 174209157, 254662195, 90847915,
        10394877, 157389892, 107667180, 89949231, 139348749, 153030772,
        94578218, 160024616, 65446397, 54130120, 58452553, 193478870, 40448098,
        247608991, 98900651>>)

K16 ==
  Fixed(<<ONE, 130656296, 54119610, 27589937, 138703984, 145177498, 217273480,
        21116424, 106159433, 135331800, 41052452, 124722501, 66665565,
        109320186, 89716758, 13861716, 140740373, 228634114, 77965362, 7188807,
        166390511, 112572604, 122739113, 106538896, 216798569>>)

-----------------------------------------------------------------------------

\* Rows, then columns, of a block of h rows of w samples; frequencies beyond
\* the block's are zero
TwoPass(block, w, h, Rows(_), rowShift, Columns(_), columnShift) ==
  LET cw == IF w < DCTSIZE THEN w ELSE DCTSIZE
      ch == IF h < DCTSIZE THEN h ELSE DCTSIZE
      pass1 == [y \in 0..(h - 1) |->
                  LET r == Rows([x \in 0..(w - 1) |-> block[y][x] - CENTERJSAMPLE])
                  IN [u \in 0..(cw - 1) |-> DESCALE(r[u + 1], rowShift)]]
      pass2 == [u \in 0..(cw - 1) |->
                  LET c == Columns([y \in 0..(h - 1) |-> pass1[y][u]])
                  IN [v \in 0..(ch - 1) |-> DESCALE(c[v + 1], columnShift)]]
  IN [v \in 0..(DCTSIZE - 1) |-> [u \in 0..(DCTSIZE - 1) |->
        IF u < cw /\ v < ch THEN pass2[u][v] ELSE 0]]

P1 == PASS1_BITS
CB == CONST_BITS

jpeg_fdct_islow(block) ==
  TwoPass(block, 8, 8, LAMBDA x : Dct8(x, K8), CB - P1, LAMBDA x : Dct8(x, K8), CB + P1)

jpeg_fdct_7x7(block) ==
  TwoPass(block, 7, 7, LAMBDA x : Dct7(x, K7), CB - P1, LAMBDA x : Dct7(x, S7), CB + P1)

jpeg_fdct_6x6(block) ==
  TwoPass(block, 6, 6, LAMBDA x : Dct6(x, K6), CB - P1, LAMBDA x : Dct6(x, S6), CB + P1)

jpeg_fdct_5x5(block) ==
  TwoPass(block, 5, 5, LAMBDA x : Dct5(x, K5), CB - P1 - 1, LAMBDA x : Dct5(x, S5), CB + P1)

jpeg_fdct_4x4(block) ==
  TwoPass(block, 4, 4, LAMBDA x : Dct4(x, K4), CB - P1 - 2, LAMBDA x : Dct4(x, K4), CB + P1)

jpeg_fdct_3x3(block) ==
  TwoPass(block, 3, 3, LAMBDA x : Dct3(x, K3), CB - P1 - 2, LAMBDA x : Dct3(x, S3), CB + P1)

jpeg_fdct_2x2(block) ==
  TwoPass(block, 2, 2, LAMBDA x : Dct2(x, KONE), CB, LAMBDA x : Dct2(x, KONE), CB - 4)

jpeg_fdct_1x1(block) ==
  TwoPass(block, 1, 1, LAMBDA x : Dct1(x, KONE), CB, LAMBDA x : Dct1(x, KONE), CB - 6)

jpeg_fdct_9x9(block) ==
  TwoPass(block, 9, 9, LAMBDA x : Dct9(x, K9), CB - 1, LAMBDA x : Dct9(x, S9), CB + 2)

jpeg_fdct_10x10(block) ==
  TwoPass(block, 10, 10, LAMBDA x : Dct10(x, K10), CB - 1, LAMBDA x : Dct10(x, S10), CB + 2)

jpeg_fdct_11x11(block) ==
  TwoPass(block, 11, 11, LAMBDA x : Dct11(x, K11), CB - 1, LAMBDA x : Dct11(x, S11), CB + 2)

jpeg_fdct_12x12(block) ==
  TwoPass(block, 12, 12, LAMBDA x : Dct12(x, K12), CB, LAMBDA x : Dct12(x, S12), CB + 1)

jpeg_fdct_13x13(block) ==
  TwoPass(block, 13, 13, LAMBDA x : Dct13(x, K13), CB, LAMBDA x : Dct13(x, S13), CB + 1)

jpeg_fdct_14x14(block) ==
  TwoPass(block, 14, 14, LAMBDA x : Dct14(x, K14), CB, LAMBDA x : Dct14(x, S14), CB + 1)

jpeg_fdct_15x15(block) ==
  TwoPass(block, 15, 15, LAMBDA x : Dct15(x, K15), CB, LAMBDA x : Dct15(x, S15), CB + 2)

jpeg_fdct_16x16(block) ==
  TwoPass(block, 16, 16, LAMBDA x : Dct16(x, K16), CB - P1, LAMBDA x : Dct16(x, K16), CB + P1 + 2)

\* A fault: the extra factor of two of the 16-point rows is forgotten.
jpeg_fdct_16x8Unscaled(block) ==
  TwoPass(block, 16, 8, LAMBDA x : Dct16(x, K16), CB - P1, LAMBDA x : Dct8(x, K8), CB + P1)

jpeg_fdct_16x8(block) ==
  TwoPass(block, 16, 8, LAMBDA x : Dct16(x, K16), CB - P1, LAMBDA x : Dct8(x, K8), CB + P1 + 1)

jpeg_fdct_14x7(block) ==
  TwoPass(block, 14, 7, LAMBDA x : Dct14(x, K14), CB - P1, LAMBDA x : Dct7(x, S7), CB + P1 + 1)

jpeg_fdct_12x6(block) ==
  TwoPass(block, 12, 6, LAMBDA x : Dct12(x, K12), CB - P1, LAMBDA x : Dct6(x, S6), CB + P1 + 1)

jpeg_fdct_10x5(block) ==
  TwoPass(block, 10, 5, LAMBDA x : Dct10(x, K10), CB - P1, LAMBDA x : Dct5(x, S5), CB + P1)

jpeg_fdct_8x4(block) ==
  TwoPass(block, 8, 4, LAMBDA x : Dct8(x, K8), CB - P1 - 1, LAMBDA x : Dct4(x, K4), CB + P1)

jpeg_fdct_6x3(block) ==
  TwoPass(block, 6, 3, LAMBDA x : Dct6(x, K6), CB - P1 - 1, LAMBDA x : Dct3(x, S3), CB + P1)

jpeg_fdct_4x2(block) ==
  TwoPass(block, 4, 2, LAMBDA x : Dct4(x, K4), 0, LAMBDA x : Dct2(x, UNIT), CB - 3)

jpeg_fdct_2x1(block) ==
  TwoPass(block, 2, 1, LAMBDA x : Dct2(x, KONE), CB, LAMBDA x : Dct1(x, KONE), CB - 5)

jpeg_fdct_8x16(block) ==
  TwoPass(block, 8, 16, LAMBDA x : Dct8(x, K8), CB - P1, LAMBDA x : Dct16(x, K16), CB + P1 + 1)

jpeg_fdct_7x14(block) ==
  TwoPass(block, 7, 14, LAMBDA x : Dct7(x, K7), CB - P1, LAMBDA x : Dct14(x, S14), CB + P1)

jpeg_fdct_6x12(block) ==
  TwoPass(block, 6, 12, LAMBDA x : Dct6(x, K6), CB - P1, LAMBDA x : Dct12(x, S12), CB + P1)

jpeg_fdct_5x10(block) ==
  TwoPass(block, 5, 10, LAMBDA x : Dct5(x, K5), CB - P1, LAMBDA x : Dct10(x, S10), CB + P1)

jpeg_fdct_4x8(block) ==
  TwoPass(block, 4, 8, LAMBDA x : Dct4(x, K4), CB - P1 - 1, LAMBDA x : Dct8(x, K8), CB + P1)

jpeg_fdct_3x6(block) ==
  TwoPass(block, 3, 6, LAMBDA x : Dct3(x, K3), CB - P1 - 1, LAMBDA x : Dct6(x, S6), CB + P1)

jpeg_fdct_2x4(block) ==
  TwoPass(block, 2, 4, LAMBDA x : Dct2(x, KONE), CB, LAMBDA x : Dct4(x, K4), CB - 3)

jpeg_fdct_1x2(block) ==
  TwoPass(block, 1, 2, LAMBDA x : Dct1(x, KONE), CB, LAMBDA x : Dct2(x, KONE), CB - 5)

-----------------------------------------------------------------------------
(***************************************************************************)
(* jcdctmgr.c: the choice of the transform from the size of a component's  *)
(* blocks, and the quantisation of its result.                             *)
(***************************************************************************)

\* The sizes, width first, for which there is a transform.
ScaledSizes ==
  {<<n, n>> : n \in 1..16} \cup {<<2 * n, n>> : n \in 1..8} \cup {<<n, 2 * n>> : n \in 1..8}

\* The method that start_pass_fdctmgr chooses: square blocks, those that are twice
\* as wide as high, and those that are twice as high as wide.
do_square(n, b) ==
  CASE n = 1 -> jpeg_fdct_1x1(b) [] n = 2 -> jpeg_fdct_2x2(b) [] n = 3 -> jpeg_fdct_3x3(b)
    [] n = 4 -> jpeg_fdct_4x4(b) [] n = 5 -> jpeg_fdct_5x5(b) [] n = 6 -> jpeg_fdct_6x6(b)
    [] n = 7 -> jpeg_fdct_7x7(b) [] n = 8 -> jpeg_fdct_islow(b) [] n = 9 -> jpeg_fdct_9x9(b)
    [] n = 10 -> jpeg_fdct_10x10(b) [] n = 11 -> jpeg_fdct_11x11(b) [] n = 12 -> jpeg_fdct_12x12(b)
    [] n = 13 -> jpeg_fdct_13x13(b) [] n = 14 -> jpeg_fdct_14x14(b)
    [] n = 15 -> jpeg_fdct_15x15(b) [] n = 16 -> jpeg_fdct_16x16(b)
do_wide(n, b) ==
  CASE n = 1 -> jpeg_fdct_2x1(b) [] n = 2 -> jpeg_fdct_4x2(b) [] n = 3 -> jpeg_fdct_6x3(b)
    [] n = 4 -> jpeg_fdct_8x4(b) [] n = 5 -> jpeg_fdct_10x5(b) [] n = 6 -> jpeg_fdct_12x6(b)
    [] n = 7 -> jpeg_fdct_14x7(b) [] n = 8 -> jpeg_fdct_16x8(b)
do_high(n, b) ==
  CASE n = 1 -> jpeg_fdct_1x2(b) [] n = 2 -> jpeg_fdct_2x4(b) [] n = 3 -> jpeg_fdct_3x6(b)
    [] n = 4 -> jpeg_fdct_4x8(b) [] n = 5 -> jpeg_fdct_5x10(b) [] n = 6 -> jpeg_fdct_6x12(b)
    [] n = 7 -> jpeg_fdct_7x14(b) [] n = 8 -> jpeg_fdct_8x16(b)
do_dct(w, h, block) ==
  IF w = h THEN do_square(w, block) ELSE IF w = 2 * h THEN do_wide(h, block) ELSE do_high(w, block)

\* The divisor of a quantisation step; chroma in the wide range is halved too.
divisor(q, halved) == q * (IF halved THEN 16 ELSE 8)

\* Division with rounding to the nearest, halves away from zero.
quantised(temp, qval) ==
  IF temp < 0 THEN -((-temp + qval \div 2) \div qval) ELSE (temp + qval \div 2) \div qval

\* One block of a component whose table has the same step everywhere.
forward_DCT(w, h, block, q, halved) ==
  LET workspace == do_dct(w, h, block)
  IN [v \in 0..DCTSIZE - 1 |-> [u \in 0..DCTSIZE - 1 |-> quantised(workspace[v][u], divisor(q, halved))]]

=============================================================================
