------------------------- MODULE MCSpdmRecordLayer -------------------------
(* The record layer for TLC: payload sizes at the uint16 boundary, a     *)
(* 16-byte MAC and 2-bit sequence counters (exhausted after three        *)
(* records per direction).                                                *)
EXTENDS SpdmRecordLayer
\* The largest payload whose record length (2 + p + r + 16) still fits the
\* uint16 length field when r = 0: the boundary the length fields meet.
MCPayloadSizes == {65517}
\* An empty payload and the largest one whose record still fits the length
\* field with every amount of random padding up to MaxRandom.
MCPayloadSizesFit == {0, Uint16 - 1 - (2 + TagSize + MaxRandom)}
=============================================================================
