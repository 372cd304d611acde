--------------------------- MODULE SpdmConnection ---------------------------
(***************************************************************************)
(* The Responder's connection state machine (spec 4.7) as far as it leads *)
(* up to a KEY_UPDATE, and the first three checks of                       *)
(* SpdmGetResponseKeyUpdate (SpdmResponderLibKeyUpdate.c, lines 49-58),    *)
(* which decide how a KEY_UPDATE that arrives too early is refused.        *)
(*                                                                         *)
(* The negotiation handlers are not under src/: GET_VERSION,               *)
(* GET_CAPABILITIES and NEGOTIATE_ALGORITHMS are modelled from spec 4.7.   *)
(* Each advances the state by one when it arrives in the state that admits *)
(* it and is refused with UnexpectedRequest otherwise.  GET_CAPABILITIES   *)
(* fixes whether KEY_UPD_CAP is supported on both sides; until it has been *)
(* exchanged the negotiated flags are zero.  The rest of the KEY_UPDATE    *)
(* handler (session checks and keys) is the SpdmKeyUpdate module: here a   *)
(* request that passes the three checks is "Admitted".                     *)
(***************************************************************************)
EXTENDS Naturals, Sequences

CONSTANT
  MaxRequests        \* bound on the requests the Requester sends

ASSUME MaxRequests \in Nat

\* The connection states of spec 4.7, in order.
ConnectionStates == <<"NotStarted", "AfterVersion", "AfterCapabilities",
                      "Negotiated", "AfterDigests", "AfterCertificate",
                      "Authenticated">>
ConnectionRank(s) == CHOOSE i \in 1..Len(ConnectionStates) : ConnectionStates[i] = s

ResponseStates == {"Normal", "Busy", "NotReady"}

\* The negotiation requests and the state each one is admitted in.
NegotiationCodes == {"GET_VERSION", "GET_CAPABILITIES", "NEGOTIATE_ALGORITHMS"}
AdmittedIn == [c \in NegotiationCodes |->
                CASE c = "GET_VERSION"      -> "NotStarted"
                  [] c = "GET_CAPABILITIES" -> "AfterVersion"
                  [] OTHER                  -> "AfterCapabilities"]

VARIABLES
  connectionState,   \* SpdmContext->ConnectionInfo.ConnectionState
  responseState,     \* SpdmContext->ResponseState
  keyUpdCap,         \* KEY_UPD_CAP set in both sides' negotiated flags
  request,           \* code of the last request handled
  answer,            \* what the Responder answered it with
  requests           \* requests handled so far

vars == <<connectionState, responseState, keyUpdCap, request, answer,
          requests>>

Init ==
  /\ connectionState = "NotStarted"
  /\ responseState = "Normal"
  /\ keyUpdCap = FALSE
  /\ request = "None" /\ answer = "None"
  /\ requests = 0

\* Counts the request and records its code.
Handled(c) ==
  /\ requests < MaxRequests
  /\ requests' = requests + 1
  /\ request' = c

\* A negotiation request (spec 4.7, not under src/): a non-Normal response
\* state answers for it; in the state that admits it, it advances the
\* connection (GET_CAPABILITIES also fixing KEY_UPD_CAP); elsewhere it is
\* refused with UnexpectedRequest and nothing changes.
ReceiveNegotiation(c) ==
  /\ Handled(c)
  /\ IF responseState # "Normal"
     THEN /\ answer' = responseState
          /\ UNCHANGED <<connectionState, keyUpdCap>>
     ELSE IF connectionState = AdmittedIn[c]
     THEN /\ answer' = "Success"
          /\ connectionState' = ConnectionStates[ConnectionRank(connectionState) + 1]
          /\ IF c = "GET_CAPABILITIES"
             THEN keyUpdCap' \in BOOLEAN ELSE UNCHANGED keyUpdCap
     ELSE /\ answer' = "UnexpectedRequest"
          /\ UNCHANGED <<connectionState, keyUpdCap>>
  /\ UNCHANGED responseState

\* The first three checks of SpdmGetResponseKeyUpdate, in the code's order:
\* the response state, then KEY_UPD_CAP (UnsupportedRequest), then the
\* connection state below Negotiated (UnexpectedRequest).
KeyUpdateGate ==
  IF responseState # "Normal" THEN responseState
  ELSE IF ~keyUpdCap THEN "UnsupportedRequest"
  ELSE IF ConnectionRank(connectionState) < ConnectionRank("Negotiated")
       THEN "UnexpectedRequest"
  ELSE "Admitted"

\* A KEY_UPDATE reaches SpdmGetResponseKeyUpdate: every early return leaves
\* the connection as it was.
ReceiveKeyUpdate ==
  /\ Handled("KEY_UPDATE")
  /\ answer' = KeyUpdateGate
  /\ UNCHANGED <<connectionState, responseState, keyUpdCap>>

\* The Responder's application sets its response state (Busy, NotReady) or
\* restores Normal.
SetResponseState(s) ==
  /\ responseState' = s
  /\ UNCHANGED <<connectionState, keyUpdCap, request, answer, requests>>

Next ==
  \/ \E c \in NegotiationCodes : ReceiveNegotiation(c)
  \/ ReceiveKeyUpdate
  \/ \E s \in ResponseStates : SetResponseState(s)

Spec == Init /\ [][Next]_vars

-----------------------------------------------------------------------------
(* Properties.                                                             *)

\* State-machine refusal (spec 8, property 6, and spec 4.7): a request the
\* connection state does not admit, handled while the response state is
\* Normal, is answered with UnexpectedRequest and leaves the state as it was.
\* A KEY_UPDATE is admitted only from Negotiated on; SpdmGetResponseKeyUpdate
\* tests KEY_UPD_CAP (line 52) before the connection state (line 56).
StateMachineRefusal ==
  [][ /\ requests' > requests /\ responseState = "Normal"
      /\ \/ request' \in NegotiationCodes /\ connectionState # AdmittedIn[request']
         \/ request' = "KEY_UPDATE"
            /\ ConnectionRank(connectionState) < ConnectionRank("Negotiated")
      => answer' = "UnexpectedRequest" /\ connectionState' = connectionState ]_vars
=============================================================================
