\* A maximal payload with one byte of random padding, over a transport
\* with no faults: the record length no longer fits its uint16 field.
CONSTANTS
  PayloadSizes <- MCPayloadSizes
  MaxRandom = 1
  TagSize = 16
  SeqNumSize = 2
  SeqBits = 2
  MaxMsgSize = 65600
  MaxFaults = 0
SPECIFICATION Spec
\* Once both sides have exhausted or terminated nothing more happens.
CHECK_DEADLOCK FALSE
INVARIANT
  NoSpuriousTermination
