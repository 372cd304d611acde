\* UPDATE_KEY and UPDATE_ALL_KEYS over a transport that delivers every
\* record in order and never times out, with one malformed request.
CONSTANTS
  Abort = Abort
  RequesterOps <- OpsAll
  MaxUpdates = 3
  MaxFaults = 0
  MaxMalformed = 1
  ConnectionState = "Authenticated"
  KdfOutcomes <- KdfNeverFails
  NoKey = NoKey
  Payloads = {d1}
  MaxAppData = 0
  ScratchReset = TRUE
SPECIFICATION Spec
\* The Requester stops after MaxUpdates requests; an idle session may stop.
CHECK_DEADLOCK FALSE
INVARIANTS
  NoSpuriousDecryptError
