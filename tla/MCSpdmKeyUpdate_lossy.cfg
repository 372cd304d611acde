\* UPDATE_KEY / VERIFY_NEW_KEY over a transport that loses records and
\* times out, and two
\* application messages the Requester may send before, between and after
\* the key updates.
CONSTANTS
  Abort = Abort
  RequesterOps <- OpsUpdateKey
  MaxUpdates = 3
  MaxFaults = 2
  MaxMalformed = 0
  ConnectionState = "Authenticated"
  KdfOutcomes <- KdfNeverFails
  NoKey = NoKey
  Payloads = {d1, d2}
  MaxAppData = 2
  ScratchReset = TRUE
SPECIFICATION Spec
\* The Requester stops after MaxUpdates requests; an idle session may stop.
CHECK_DEADLOCK FALSE
INVARIANTS
  TypeOK
  NoSpuriousDecryptError
  OldKeyRetired
