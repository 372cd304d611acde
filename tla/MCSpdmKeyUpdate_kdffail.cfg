\* UPDATE_KEY / VERIFY_NEW_KEY over a reliable transport, with a Responder
\* whose HKDF-Expand may return FALSE.
CONSTANTS
  Abort = Abort
  RequesterOps <- OpsUpdateKey
  MaxUpdates = 2
  MaxFaults = 0
  MaxMalformed = 0
  ConnectionState = "Authenticated"
  KdfOutcomes <- KdfMbedtls
  NoKey = NoKey
  Payloads = {d1}
  MaxAppData = 0
  ScratchReset = TRUE
SPECIFICATION Spec
CHECK_DEADLOCK FALSE
INVARIANT
  NoSpuriousDecryptError
