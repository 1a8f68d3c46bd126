------------------------------ MODULE NoisyLink ------------------------------
(***************************************************************************)
(* Something is encoded with one of the Codes or as a payload, the air     *)
(* turns some of its bits round, and it is decoded.                        *)
(***************************************************************************)
EXTENDS Payloads

CONSTANTS
  Kinds,    \* the codes that are looked at
  Samples   \* the data: sets of numbers, cut to the size of the code

VARIABLES
  code,   \* which code
  data,   \* what is encoded
  word,   \* what comes over the air
  flips,  \* the bits that the air turned round
  got,    \* what is decoded
  metrics, decisions,  \* CYSFConvolution: m_oldMetrics, m_decisions
  back    \* chainback: its state and the bits it has found, the last one first

vars == <<code, data, word, flips, got, metrics, decisions, back>>

Nothing == {"nothing"}

-----------------------------------------------------------------------------
\* The codes: how many data bits they take, how many bits they make, how many
\* errors are tried, and whether they repair or only notice them.
Code(bits, length, errors, repairs) ==
  [bits |-> bits, length |-> length, errors |-> errors, repairs |-> repairs]
Known ==
  [golay23 |-> Code(12, 23, 3, TRUE), golay24 |-> Code(12, 24, 3, TRUE),
   golay20 |-> Code(8, 20, 3, TRUE), qr16 |-> Code(7, 16, 2, TRUE),
   hamming15113_1 |-> Code(11, 15, 1, TRUE), hamming15113_2 |-> Code(11, 15, 1, TRUE),
   hamming1393 |-> Code(9, 13, 1, TRUE), hamming1063 |-> Code(6, 10, 1, TRUE),
   hamming16114 |-> Code(11, 16, 1, TRUE), hamming17123 |-> Code(12, 17, 1, TRUE),
   product |-> Code(96, 196, 1, TRUE), convolution |-> Code(8, 24, 1, TRUE),
   fich |-> Code(32, 200, 1, TRUE), ccitt162 |-> Code(32, 48, 2, FALSE),
   ccitt161 |-> Code(32, 48, 2, FALSE), crc8 |-> Code(32, 40, 2, FALSE),
   five |-> Code(72, 72, 1, FALSE), sum |-> Code(72, 72, 1, FALSE),
   rs129 |-> Code(72, 96, 2, FALSE), sacch |-> Code(26, 32, 1, FALSE),
   nxdn |-> Code(196, 224, 0, TRUE), ysf_voice |-> Code(325, 720, 0, TRUE),
   ysf_header1 |-> Code(320, 720, 0, TRUE), ysf_header2 |-> Code(320, 720, 0, TRUE),
   dmr_sync |-> Code(216, 264, 0, TRUE), dmr_emb |-> Code(216, 264, 0, TRUE),
   dmr_header |-> Code(24, 264, 1, TRUE), dmr_last |-> Code(24, 264, 1, TRUE)]

HammingOf ==
  [hamming15113_1 |-> H15113_1, hamming15113_2 |-> H15113_2, hamming1393 |-> H1393,
   hamming1063 |-> H1063, hamming16114 |-> H16114, hamming17123 |-> H17123]

Ones16 == 0..15

\* The bits that the Viterbi decoder is asked for, the pairs it gets for them,
\* and where each pair is.
Asked(c) ==
  CASE c = "convolution" -> 8
    [] c \in {"fich", "ysf_voice"} -> 96
    [] c \in {"ysf_header1", "ysf_header2"} -> 176
    [] OTHER -> 0
Pairs(c) == IF Asked(c) = 0 THEN 0 ELSE Asked(c) + 4
PairAt(c, i) ==
  CASE c = "convolution" -> 2 * i
    [] c = "fich" -> Spread(i)
    [] c = "ysf_voice" -> DchPlace(i, 5, 0)
    [] c = "ysf_header1" -> DchPlace(i, 9, 0)
    [] c = "ysf_header2" -> DchPlace(i, 9, 9)

\* The word of five and sum is the data alone: their check is kept apart.
Encoded(c, d) ==
  CASE c = "golay23" -> Systematic(G23, d)
    [] c = "golay24" -> EncodeEven(G23, d)
    [] c = "golay20" -> EncodeEven(G19, d)
    [] c = "qr16" -> EncodeEven(Q15, d)
    [] c \in DOMAIN HammingOf -> HammingEncode(HammingOf[c], d)
    [] c = "product" -> ProductEncode(d)
    [] c = "convolution" -> Convolve(d, 12)
    [] c = "fich" -> FichEncode(d)
    [] c = "ccitt162" -> AddCrc16(d, 32, {})
    [] c = "ccitt161" -> AddCrc16(d, 32, Ones16)
    [] c = "crc8" -> d \cup {39 - e : e \in Crc8(d)}
    [] c = "rs129" -> RsEncode(d)
    [] c = "sacch" -> Sacch(d)
    [] c = "nxdn" -> NxdnVoice(d)
    [] c = "ysf_voice" -> YsfVoice(d)
    [] c \in {"ysf_header1", "ysf_header2"} -> YsfHeader(d)
    [] c = "dmr_sync" -> DmrVoice(d, Sync)
    [] c = "dmr_emb" -> DmrVoice(d, Emb)
    [] c = "dmr_header" -> DmrLC(d, {0, 3, 5, 6}, {3})
    [] c = "dmr_last" -> DmrLC(d, {0, 3, 4, 7}, {2})
    [] OTHER -> d

\* What the decoder makes of w; "d" stands for the check that is kept apart.
Decoded(c, w, d, output) ==
  CASE c = "golay23" -> Decode(G23, w)
    [] c = "golay24" -> DecodeEven(G23, w)
    [] c = "golay20" -> DecodeEven(G19, w)
    [] c = "qr16" -> DecodeEven(Q15, w)
    [] c \in DOMAIN HammingOf -> HammingDecode(HammingOf[c], w) \cap 0..(HammingOf[c].bits - 1)
    [] c = "product" -> ProductDecode(w)
    [] c = "convolution" -> output
    [] c = "fich" -> FichDecode(output)
    [] c = "ccitt162" -> CheckCrc16(w, 32, {})
    [] c = "ccitt161" -> CheckCrc16(w, 32, Ones16)
    [] c = "crc8" -> IF Crc8(w \cap 0..31) = {39 - x : x \in w \cap 32..39} THEN w \cap 0..31 ELSE Bad
    [] c = "rs129" -> RsCheck(w)
    [] c = "sacch" -> IF Sacch(w \cap 0..25) = w THEN w \cap 0..25 ELSE Bad
    [] c = "nxdn" -> NxdnVoiceDecode(w)
    [] c = "ysf_voice" -> YsfVoiceDecode(w, output)
    [] c = "ysf_header1" -> DchDecode(output, 20)
    [] c = "ysf_header2" -> DchDecode(output, 20)
    [] c \in {"dmr_sync", "dmr_emb"} -> DmrVoiceDecode(w)
    [] c = "dmr_header" -> DmrLCDecode(w, {0, 3, 5, 6}, {3})
    [] c = "dmr_last" -> DmrLCDecode(w, {0, 3, 4, 7}, {2})
    [] c = "five" -> IF FiveBit(w) = FiveBit(d) THEN w ELSE Bad
    [] c = "sum" -> IF AddCrc(w) = AddCrc(d) THEN w ELSE Bad

\* Of a header one of its two parts is decoded.
Wanted(c, d) ==
  CASE c = "ysf_header1" -> Field(d, 0, 160)
    [] c = "ysf_header2" -> Field(d, 160, 160)
    [] OTHER -> d

Init ==
  /\ code \in Kinds
  /\ data \in {s \cap 0..(Known[code].bits - 1) : s \in Samples}
  /\ word = Encoded(code, data)
  /\ flips = {} /\ got = Nothing
  /\ metrics = [j \in 0..15 |-> 0] /\ decisions = <<>>
  /\ back = [state |-> 0, bits |-> <<>>]

\* The air turns a bit round, one that lies behind the others.
Flip ==
  /\ got = Nothing /\ decisions = <<>> /\ Cardinality(flips) < Known[code].errors
  /\ \E x \in 0..(Known[code].length - 1) :
       /\ \A y \in flips : x > y
       /\ flips' = flips \cup {x}
       /\ word' = SymDiff(word, {x})
  /\ UNCHANGED <<code, data, got, metrics, decisions, back>>

\* CYSFConvolution::decode: two more bits.  No state is the first one: start()
\* gives all the metric 0.
Decode2 ==
  /\ Len(decisions) < Pairs(code)
  /\ LET s0 == PairAt(code, Len(decisions)) \in word
         s1 == PairAt(code, Len(decisions)) + 1 \in word
         over == {j \in 0..15 : Into(metrics, j, s0, s1) >= Over(metrics, j, s0, s1)}
     IN /\ decisions' = Append(decisions, over)
        /\ metrics' = [j \in 0..15 |-> IF j \in over THEN Over(metrics, j, s0, s1)
                                                    ELSE Into(metrics, j, s0, s1)]
  /\ UNCHANGED <<code, data, word, flips, got, back>>

\* CYSFConvolution::chainback: one bit more, from the last decision to the first.
ChainBack ==
  /\ Len(decisions) = Pairs(code) /\ Len(back.bits) < Asked(code)
  /\ LET decision == decisions[Pairs(code) - Len(back.bits)]
     IN back' = [state |-> BackState(back.state, decision),
                 bits |-> Append(back.bits, BackBit(back.state, decision))]
  /\ UNCHANGED <<code, data, word, flips, got, metrics, decisions>>

Receive ==
  /\ got = Nothing /\ Len(decisions) = Pairs(code) /\ Len(back.bits) = Asked(code)
  /\ got' = Decoded(code, word, data,
                    {Asked(code) - i : i \in {j \in DOMAIN back.bits : back.bits[j]}})
  /\ UNCHANGED <<code, data, word, flips, metrics, decisions, back>>

Next == Flip \/ Decode2 \/ ChainBack \/ Receive

Spec == Init /\ [][Next]_vars

-----------------------------------------------------------------------------
\* What was encoded is decoded: with as many errors as the code repairs, too,
\* and with fewer than a check sum may overlook, none passes.
ErrorsRepaired ==
  got # Nothing => got = IF flips = {} \/ Known[code].repairs THEN Wanted(code, data) ELSE Bad
=============================================================================
