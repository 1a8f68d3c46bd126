------------------------------ MODULE Payloads ------------------------------
(***************************************************************************)
(* Where the bits of voice and signalling are in the datagrams of DMR, YSF *)
(* and NXDN.  A payload is the set of its bits that are 1, the first bit   *)
(* being 0.  The tables of YSFDefines.h are stated as the rules that made  *)
(* them.                                                                   *)
(***************************************************************************)
EXTENDS Codes

\* Bits 0, 1, 2 ... of a number of n bits, the first the highest, as powers, and
\* back.
Powers(bits, n) == {n - 1 - x : x \in bits}
Field(w, from, n) == Back(w \cap from..(from + n - 1), from)

-----------------------------------------------------------------------------
\* A frame of the AMBE+2 codec: 12 + 12 + 25 bits, which Golay codes make 24 +
\* 23 + 25.

\* PRNG_TABLE: 23 bits from the first 12.
Prng(a) ==
  LET p[i \in 0..23] ==
        IF i = 0 THEN 16 * FoldSet(LAMBDA x, n : n + 2 ^ (11 - x), 0, a)
        ELSE (173 * p[i - 1] + 13849) % 65536
  IN {i \in 0..22 : p[i + 1] >= 32768}

\* DMR_A_TABLE, DMR_B_TABLE and DMR_C_TABLE, one after the other.
AmbePlace(i) == 4 * (i % 18) + i \div 18

\* CNXDNProtocol::encode
AmbeEncode(d) ==
  LET a == Field(d, 0, 12)
      b == Field(d, 12, 12)
      coded == Powers(EncodeEven(G23, Powers(a, 12)), 24)
      mixed == SymDiff(Powers(Systematic(G23, Powers(b, 12)), 23), Prng(a))
  IN {AmbePlace(i) : i \in coded \cup Shift(mixed, 24) \cup Shift(Field(d, 24, 25), 47)}

\* CNXDNProtocol::decode
AmbeDecode(frame) ==
  LET w == {i \in 0..71 : AmbePlace(i) \in frame}
      a == Field(w, 0, 12)
      b == SymDiff(Field(w, 24, 23), Prng(a)) \cap 0..11
  IN a \cup Shift(b, 12) \cup Shift(Field(w, 47, 25), 24)

\* n frames, each as f makes it and put where "at" says, and back.
EachFrame(f(_), d, n, at(_)) ==
  UNION {Shift(f(AmbeEncode(Field(d, 49 * k, 49))), at(k)) : k \in 0..(n - 1)}
EachBack(f(_), w, n, at(_), width) ==
  UNION {Shift(AmbeDecode(f(Field(w, at(k), width))), 49 * k) : k \in 0..(n - 1)}

-----------------------------------------------------------------------------
\* NXDN: four frames without their codes, two and two from bytes 15 and 29 on.
\* Bit 49 of a pair is the first of its second frame.
NxdnPlace(k) == 49 * (k % 2) + 112 * (k \div 2)

\* EncodeNXDNPacket
NxdnVoice(d) == EachFrame(AmbeDecode, d, 4, NxdnPlace)

\* IsValidDvFramePacket: the seven bytes of a frame hold some bits of the next.
NxdnVoiceDecode(w) == EachBack(LAMBDA x : AmbeEncode(x \cap 0..48), w, 4, NxdnPlace, 56)

\* The SACCH: 2 bits of structure, 6 of RAN, 18 of layer 3 and a check sum of 6.
CRC6 == Remainders({0, 1, 2, 5, 6}, 31)
Sacch(d) ==
  d \cup {31 - e : e \in Remainder({31 - i : i \in SymDiff(d, 0..5)}, CRC6)}

-----------------------------------------------------------------------------
\* YSF: 720 bits in five parts of 144, each with a piece of signalling and one
\* of voice.  WHITENING_DATA is a shift register's.
Whitening ==
  LET register == Remainders({0, 4, 9}, 159)
  IN {i \in 0..159 : Odd({k \in {0, 3, 6, 7, 8} : <<i, k>> \in register})}
Whiten(d, n) == SymDiff(d, Whitening \cap 0..(n - 1))

\* EncodeVD2Vch: 27 bits three times and 22 once, whitened and interleaved.
VchPlace(i) == 4 * (i % 26) + i \div 26
Vch(frame) ==
  LET d == AmbeDecode(frame)
      thrice == UNION {{3 * i, 3 * i + 1, 3 * i + 2} : i \in d \cap 0..26}
  IN {VchPlace(i) : i \in Whiten(thrice \cup Shift(Field(d, 27, 22), 81), 104)}

\* DecodeVD2Vchs: of three it reads the one in the middle.
VchDecode(w) ==
  LET vch == Whiten({i \in 0..103 : VchPlace(i) \in w}, 104)
  IN AmbeEncode({i \in 0..26 : 3 * i + 1 \in vch} \cup Shift(Field(vch, 81, 22), 27))
VchAt(k) == 144 * k + 40

\* INTERLEAVE_TABLE_5_20 and INTERLEAVE_TABLE_9_20, and the pieces of 5 or 9
\* bytes, from the byte "offset" of each part on.
DchPlace(i, pieces, offset) ==
  LET n == 2 * (i \div pieces) + 40 * (i % pieces)
  IN 144 * (n \div (8 * pieces)) + (n % (8 * pieces)) + 8 * offset

\* writeVDMode2Data, and writeDataFRModeData1 and 2: whitened, with its check
\* sum, and convolved, in pieces of 5 or 9 bytes.
Dch(d, bytes, pieces, offset) ==
  LET pairs == 20 * pieces
      checked == AddCrc16(Whiten(d, 8 * bytes), 8 * bytes, {})
  IN {DchPlace(x \div 2, pieces, offset) + (x % 2) : x \in Convolve(checked, pairs)}
DchDecode(output, bytes) ==
  LET d == CheckCrc16(output, 8 * bytes, {})
  IN IF d = Bad THEN Bad ELSE Whiten(d, 8 * bytes)

\* EncodeYSFPacket: five frames and ten bytes of data.
YsfVoice(d) ==
  EachFrame(Vch, d, 5, VchAt) \cup Dch(Field(d, 245, 80), 10, 5, 0)
YsfVoiceDecode(w, output) ==
  LET data == DchDecode(output, 10)
  IN IF data = Bad THEN Bad ELSE EachBack(VchDecode, w, 5, VchAt, 104) \cup Shift(data, 245)

\* writeHeader: two callsigns and two more.
YsfHeader(d) == Dch(Field(d, 0, 160), 20, 9, 0) \cup Dch(Field(d, 160, 160), 20, 9, 9)

-----------------------------------------------------------------------------
\* DMR: 264 bits, with 48 of synchronisation or signalling in the middle.
\* EncodeMMDVMPacket, ReplaceEMBInBuffer.
Colour == {3}
Emb ==
  LET emb == Powers(EncodeEven(Q15, Powers(Colour, 7)), 16)
  IN {x \in 0..7 : x \in emb} \cup {x + 32 : x \in emb \cap 8..15}
DmrVoice(d, middle) ==
  (d \cap 0..107) \cup Shift(middle, 108) \cup Shift(Field(d, 108, 108), 156)

\* IsValidDvFramePacket
DmrVoiceDecode(w) == (w \cap 0..107) \cup Shift(Field(w, 156, 108), 108)

\* What the 48 bits of a sync pattern are does not matter: all of them are 1.
Sync == 0..47

\* AppendVoiceLCToBuffer, AppendTerminatorLCToBuffer: talk group 9 and the id d
\* with three check bytes, in the block product code, and the slot type.
Turn(w) == {8 * (x \div 8) + 7 - (x % 8) : x \in w}
Masked(w, mask) == SymDiff(w, UNION {Shift(mask, 72 + 8 * k) : k \in 0..2})
FullLC(d, mask) == Masked(Turn(RsEncode(Turn({44, 47} \cup Shift(d, 48)))), mask)
SlotType(type) == Powers(EncodeEven(G19, Powers(Colour \cup Shift(type, 4), 8)), 20)
DmrLC(d, mask, type) ==
  LET lc == ProductEncode(FullLC(d, mask))
      slot == SlotType(type)
  IN {IF x < 98 THEN x ELSE x + 68 : x \in lc} \cup Shift(Sync, 108)
       \cup {IF x < 10 THEN x + 98 ELSE x + 146 : x \in slot}

\* What CBPTC19696::decode, CRS129::check and CGolay2087::decode make of it.
DmrLCDecode(w, mask, type) ==
  LET lc == RsCheck(Turn(Masked(ProductDecode(Field(w, 0, 98) \cup Shift(Field(w, 166, 98), 98)), mask)))
      slot == Powers(DecodeEven(G19, Powers(Field(w, 98, 10) \cup Shift(Field(w, 156, 10), 10), 20)), 8)
  IN IF lc = Bad \/ slot # Colour \cup Shift(type, 4) THEN Bad ELSE Field(Turn(lc), 48, 24)
=============================================================================
