\* The reliable UPDATE_KEY / UPDATE_ALL_KEYS instance, with a dispatcher
\* that only ever sets LastSpdmRequestSessionIdValid (spec 3: "a
\* monotonically bumped flag") and a KEY_UPDATE sent in the clear.
CONSTANTS
  Abort = Abort
  RequesterOps <- OpsAll
  MaxUpdates = 3
  MaxFaults = 0
  MaxMalformed = 1
  ConnectionState = "Authenticated"
  KdfOutcomes <- KdfNeverFails
  NoKey = NoKey
  Payloads = {d1}
  MaxAppData = 0
  ScratchReset = FALSE
SPECIFICATION Spec
\* The Requester stops after MaxUpdates requests; an idle session may stop.
CHECK_DEADLOCK FALSE
PROPERTY
  ClearTextNeverRekeys
