-------------------------------- MODULE Codes --------------------------------
(***************************************************************************)
(* The codes that protect what the reflector sends and gets: Golay, QR and *)
(* Hamming codes, the block product code, a convolutional code with its    *)
(* Viterbi decoder, the FICH made of two of them, and the check sums.      *)
(*                                                                         *)
(* A word is the set of its bits that are 1.  A bit of a cyclic code is    *)
(* named by its exponent, one of the others by its place in the array.     *)
(* The tables of the source are defined by the rule that made them.        *)
(***************************************************************************)
EXTENDS Integers, Sequences, SequencesExt, FiniteSetsExt

Bad == {"bad"}

Odd(s) == Cardinality(s) % 2 = 1
Shift(s, by) == {x + by : x \in s}
Back(s, by) == {x - by : x \in {y \in s : y >= by}}

-----------------------------------------------------------------------------
\* Polynomials over bits: the powers that occur.
Degree(generator) == CHOOSE d \in generator : \A e \in generator : e <= d

\* Mutant: a power that overflows is cut and not divided.
RemaindersCut(generator, top) ==
  LET degree == Degree(generator)
      r[e \in 0..top] == IF e < degree THEN {e} ELSE Shift(r[e - 1], 1) \ {degree}
  IN UNION {{e} \X r[e] : e \in 0..top}

\* Which powers up to "top" leave which others when the generator divides them.
Remainders(generator, top) ==
  LET degree == Degree(generator)
      r[e \in 0..top] ==
        IF e < degree THEN {e}
        ELSE LET before == Shift(r[e - 1], 1)
             IN IF degree \in before THEN SymDiff(before, generator) ELSE before
  IN UNION {{e} \X r[e] : e \in 0..top}

\* get_syndrome_23127 and its like.
Remainder(w, remainders) ==
  {i \in 0..15 : Odd({e \in w : <<e, i>> \in remainders})}

-----------------------------------------------------------------------------
\* Cyclic codes of n bits that repair some errors.
Cyclic(n, generator, repairs) ==
  LET remainders == Remainders(generator, n - 1)
      errors == UNION {kSubset(k, 0..(n - 1)) : k \in 1..repairs}
  IN [degree |-> Degree(generator), remainders |-> remainders,
      syndromes |-> {<<Remainder(e, remainders), e>> : e \in errors}]
G23 == Cyclic(23, {0, 2, 4, 5, 6, 10, 11}, 3)
G19 == Cyclic(19, {0, 2, 4, 5, 6, 10, 11}, 3)
Q15 == Cyclic(15, {0, 3, 4, 5, 8}, 2)

\* The encoding tables: the data above, their remainder below.
Systematic(c, d) ==
  LET high == Shift(d, c.degree) IN high \cup Remainder(high, c.remainders)

\* The decoding tables: for a syndrome an error that has it.  (Those of G19 and
\* Q15 also hold errors of more bits than the codes always repair.)
Repaired(c, w) ==
  LET s == Remainder(w, c.remainders)
      alike == {p \in c.syndromes : p[1] = s}
  IN IF s = {} \/ alike = {} THEN w ELSE SymDiff(w, (CHOOSE p \in alike : TRUE)[2])
Decode(c, w) == Back(Repaired(c, w), c.degree)

\* encode24128, encode of Golay2087 and of QR1676: a parity bit below.
Parity(w) == Shift(w, 1) \cup IF Odd(w) THEN {0} ELSE {}
EncodeEven(c, d) == Parity(Systematic(c, d))

\* Their decode drops the parity bit.
DecodeEven(c, w) == Decode(c, Back(w, 1))

-----------------------------------------------------------------------------
\* Hamming codes: "data" bits, then a parity bit for each check.
Hamming(bits, checks) == [bits |-> bits, checks |-> checks]
H15113_1 == Hamming(11, <<{0, 1, 2, 3, 4, 5, 6}, {0, 1, 2, 3, 7, 8, 9},
                          {0, 1, 4, 5, 7, 8, 10}, {0, 2, 4, 6, 7, 9, 10}>>)
H15113_2 == Hamming(11, <<{0, 1, 2, 3, 5, 7, 8}, {1, 2, 3, 4, 6, 8, 9},
                          {2, 3, 4, 5, 7, 9, 10}, {0, 1, 2, 4, 6, 7, 10}>>)
H1393 == Hamming(9, <<{0, 1, 3, 5, 6}, {0, 1, 2, 4, 6, 7}, {0, 1, 2, 3, 5, 7, 8},
                      {0, 2, 4, 5, 8}>>)
H1063 == Hamming(6, <<{0, 1, 2, 5}, {0, 1, 3, 5}, {0, 2, 3, 4}, {1, 2, 3, 4}>>)
H16114 == Hamming(11, <<{0, 1, 2, 3, 5, 7, 8}, {1, 2, 3, 4, 6, 8, 9},
                        {2, 3, 4, 5, 7, 9, 10}, {0, 1, 2, 4, 6, 7, 10},
                        {0, 2, 5, 6, 8, 9, 10}>>)
H17123 == Hamming(12, <<{0, 1, 2, 3, 6, 7, 9}, {0, 1, 2, 3, 4, 7, 8, 10},
                        {1, 2, 3, 4, 5, 8, 9, 11}, {0, 1, 4, 5, 7, 10},
                        {0, 1, 2, 5, 6, 8, 11}>>)

HammingEncode(h, d) == d \cup {h.bits + i - 1 : i \in {j \in DOMAIN h.checks : Odd(d \cap h.checks[j])}}

\* The bit that takes part in just the checks that fail, as the cases of
\* decode15113_1 and its like say, is turned round.
Column(h, i) ==
  IF i >= h.bits THEN {i - h.bits + 1} ELSE {j \in DOMAIN h.checks : i \in h.checks[j]}
Failing(h, w) ==
  {j \in DOMAIN h.checks : Odd(w \cap h.checks[j]) # ((h.bits + j - 1) \in w)}
HammingDecode(h, w) ==
  LET failing == Failing(h, w)
      wrong == {i \in 0..(h.bits + Len(h.checks) - 1) : failing # {} /\ Column(h, i) = failing}
  IN SymDiff(w, wrong)

-----------------------------------------------------------------------------
\* The block product code: 13 rows of 15, the first 9 with data.  Bit 0 is not
\* used.
Place(row, column) == 15 * row + column + 1
RowOf(w, r) == {c \in 0..14 : Place(r, c) \in w}
ColumnOf(w, c) == {r \in 0..12 : Place(r, c) \in w}

\* encodeExtractData: eight bits of the first row, eleven of the others.
DataPlace(i) == IF i < 8 THEN 4 + i ELSE Place((i + 3) \div 11, (i + 3) % 11)
Scatter(x) == (x * 181) % 196

\* A code is put upon each row with data, or upon each column.
EachRow(f(_), w) ==
  {x \in w : x > 135} \cup UNION {{Place(r, c) : c \in f(RowOf(w, r))} : r \in 0..8}
EachColumn(f(_), w) == UNION {{Place(r, c) : r \in f(ColumnOf(w, c))} : c \in 0..14}

\* CBPTC19696::encode
ProductEncode(d) ==
  LET placed == {DataPlace(i) : i \in d}
      rows == EachRow(LAMBDA row : HammingEncode(H15113_2, row \cap 0..10), placed)
      both == EachColumn(LAMBDA col : HammingEncode(H1393, col \cap 0..8), rows)
  IN {Scatter(x) : x \in both}

\* CBPTC19696::decodeErrorCheck: columns, then rows, up to five times.
ErrorCheck(w) ==
  EachRow(LAMBDA row : HammingDecode(H15113_2, row),
          EachColumn(LAMBDA col : HammingDecode(H1393, col), w))
ProductDecode(raw) ==
  LET start == {x \in 0..195 : Scatter(x) \in raw}
      checked == FoldLeft(LAMBDA v, i : ErrorCheck(v), start, [i \in 1..5 |-> i])
  IN {i \in 0..95 : DataPlace(i) \in checked}

-----------------------------------------------------------------------------
\* The convolutional code: two bits for each, from it and the four before.
Convolve(d, n) ==
  {2 * i : i \in {j \in 0..(n - 1) : Odd(d \cap {j, j - 3, j - 4})}}
  \cup {2 * i + 1 : i \in {j \in 0..(n - 1) : Odd(d \cap {j, j - 1, j - 2, j - 4})}}

Branch1 == {4, 5, 6, 7}
Branch2 == {1, 2, 5, 6}
Differs(a, b) == IF a = b THEN 0 ELSE 1
Cost(i, s0, s1) == Differs(i \in Branch1, s0) + Differs(i \in Branch2, s1)

\* The metric of state j after two more bits, if it comes from state j / 2, and
\* if from the one 8 above that.
Into(m, j, s0, s1) ==
  LET cost == Cost(j \div 2, s0, s1)
  IN m[j \div 2] + IF j % 2 = 0 THEN cost ELSE 2 - cost
Over(m, j, s0, s1) ==
  LET cost == Cost(j \div 2, s0, s1)
  IN m[j \div 2 + 8] + IF j % 2 = 0 THEN 2 - cost ELSE cost

\* CYSFConvolution::chainback, one bit: from the last decision to the first.
BackBit(state, decision) == state \div 16 \in decision
BackState(state, decision) == 128 * (IF BackBit(state, decision) THEN 1 ELSE 0) + state \div 2

-----------------------------------------------------------------------------
\* Check sums, for n bits.  The 16 bits of addCCITT162 are the remainder, turned
\* round; addCCITT161 takes the bits of a byte the other way and begins with
\* ones.
CCITT == Remainders({0, 5, 12, 16}, 175)
Crc16(d, n, begin) == (0..15) \ Remainder({n + 15 - i : i \in SymDiff(d, begin)}, CCITT)
AddCrc16(d, n, begin) == d \cup {n + 15 - e : e \in Crc16(d, n, begin)}
CheckCrc16(w, n, begin) ==
  LET d == w \cap 0..(n - 1) IN IF AddCrc16(d, n, begin) = w THEN d ELSE Bad

\* crc8
CRC8 == Remainders({0, 1, 2, 8}, 39)
Crc8(d) == Remainder({39 - i : i \in d}, CRC8)

ByteOf(d, i) == Back(d \cap (8 * i)..(8 * i + 7), 8 * i)
Total(d) == MapThenSumSet(LAMBDA i : 2 ^ (7 - (i % 8)), d)
\* addCRC, encodeFiveBit
AddCrc(d) == Total(d) % 256
FiveBit(d) == Total(d) % 31

\* RS129: a byte is the set of its powers, and its product one of polynomials.
GF256 == Remainders({0, 2, 3, 4, 8}, 14)
Gmult(x, y) ==
  LET terms == x \X y
  IN {i \in 0..7 : Odd({t \in terms : <<t[1] + t[2], i>> \in GF256})}
Poly == <<{6}, {3, 4, 5}, {1, 2, 3}>>
RsParity(d) ==
  LET Next3(p, i) ==
        LET dbyte == SymDiff(ByteOf(d, i), p[3])
        IN <<Gmult(Poly[1], dbyte), SymDiff(p[1], Gmult(Poly[2], dbyte)),
             SymDiff(p[2], Gmult(Poly[3], dbyte))>>
  IN FoldLeft(Next3, <<{}, {}, {}>>, [i \in 1..9 |-> i - 1])
RsEncode(d) ==
  LET p == RsParity(d) IN d \cup Shift(p[3], 72) \cup Shift(p[2], 80) \cup Shift(p[1], 88)
RsCheck(w) == LET d == w \cap 0..71 IN IF RsEncode(d) = w THEN d ELSE Bad

-----------------------------------------------------------------------------
\* The FICH: 32 bits and their check sum in four Golay words, convolved, and
\* the pairs spread over 25 bytes.
Spread(i) == 2 * (i \div 5) + 40 * (i % 5)
Quarter(w, k) == {11 - x : x \in Back(w \cap (12 * k)..(12 * k + 11), 12 * k)}

FichEncode(d) ==
  LET fich == AddCrc16(d, 32, {})
      words == UNION {{24 * k + 23 - e : e \in EncodeEven(G23, Quarter(fich, k))} : k \in 0..3}
      convolved == Convolve(words, 100)
  IN {Spread(x \div 2) + (x % 2) : x \in convolved}

\* CYSFFICH::decode once the Viterbi decoder has run.
FichDecode(output) ==
  LET golay(k) == {23 - x : x \in Back(output \cap (24 * k)..(24 * k + 23), 24 * k)}
      fich == UNION {{12 * k + 11 - e : e \in DecodeEven(G23, golay(k))} : k \in 0..3}
  IN CheckCrc16(fich, 32, {})
=============================================================================
