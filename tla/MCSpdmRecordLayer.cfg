\* Both directions, three records each before exhaustion, one transport
\* fault (a lost, replayed or oversized record), zero or one random padding
\* byte per record, and payloads that fit the length field with any padding.
CONSTANTS
  PayloadSizes <- MCPayloadSizesFit
  MaxRandom = 1
  TagSize = 16
  SeqNumSize = 2
  SeqBits = 2
  MaxMsgSize = 65600
  MaxFaults = 1
SPECIFICATION Spec
\* Once both sides have exhausted or terminated nothing more happens.
CHECK_DEADLOCK FALSE
INVARIANTS
  NoSpuriousTermination
