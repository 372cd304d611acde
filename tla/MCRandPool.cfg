\* A 256-bit entropy request into a 96-byte pool: one acquisition fills
\* 32 bytes, so nonces and additional data still fit beside it, and a
\* second acquisition after a failed first one is reachable.
CONSTANTS
  EntropyRequested = 256
  MaxLen = 96
  MaxCalls = 6
SPECIFICATION Spec
\* The DRBG stops calling after MaxCalls.
CHECK_DEADLOCK FALSE
INVARIANTS
  TypeOK
  RandGetBytesCorrect
  EntropyBacked
