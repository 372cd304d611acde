\* UPDATE_ALL_KEYS over a transport that may lose one record or time out
\* once: spec 5 says a transport timeout does not mutate protocol state.
CONSTANTS
  Abort = Abort
  RequesterOps <- OpsAll
  MaxUpdates = 2
  MaxFaults = 1
  MaxMalformed = 0
  ConnectionState = "Authenticated"
  KdfOutcomes <- KdfNeverFails
  NoKey = NoKey
  Payloads = {d1}
  MaxAppData = 0
  ScratchReset = TRUE
SPECIFICATION Spec
CHECK_DEADLOCK FALSE
INVARIANT
  NoSpuriousDecryptError
