\* A Requester that may send any request in any order: a KEY_UPDATE sent
\* before GET_CAPABILITIES has been exchanged.
CONSTANTS
  MaxRequests = 4
SPECIFICATION Spec
\* The Requester stops after MaxRequests requests.
CHECK_DEADLOCK FALSE
PROPERTY
  StateMachineRefusal
