---------------------------- MODULE SpdmKeyUpdate ----------------------------
(***************************************************************************)
(* The SPDM KEY_UPDATE exchange of one secured session between a          *)
(* Requester and a Responder.                                              *)
(*                                                                         *)
(* The Responder side is SpdmGetResponseKeyUpdate                          *)
(* (src/Library/SpdmResponderLib/SpdmResponderLibKeyUpdate.c).  The       *)
(* secured-message key slots it drives (SpdmCreateUpdateSessionDataKey,    *)
(* SpdmActivateUpdateSessionDataKey), the record layer that decrypts a     *)
(* record under the current or the pending key and the direction's next    *)
(* sequence number, and the Requester are not under src/ and are modelled  *)
(* from spec.md sections 4.6 and 4.8.  Sequence numbers here never reach   *)
(* their limit; exhaustion and the record encoding are SpdmRecordLayer's.  *)
(*                                                                         *)
(* A data secret is abstracted to its generation: the secret obtained by   *)
(* applying HKDF-Expand("key update") g times to the data secret derived   *)
(* at FINISH.  HKDF is deterministic, so two endpoints hold the same key   *)
(* exactly when they hold the same generation.                             *)
(***************************************************************************)
EXTENDS Naturals, Sequences
LOCAL INSTANCE SequencesExt

CONSTANTS
  RequesterOps,     \* KEY_UPDATE operations the Requester may start
  MaxUpdates,       \* bound on the KEY_UPDATE requests the Requester sends
  MaxFaults,        \* bound on lost records plus transport timeouts
  MaxMalformed,     \* bound on malformed KEY_UPDATE requests
  ConnectionState,  \* the connection state the session was set up in
  KdfOutcomes,      \* results the Responder's HKDF-Expand can return
                    \* (CryptLib!HkdfOutcomes of its build and hash)
  NoKey,            \* model value: an empty key slot, or a cleartext record
  Payloads,         \* application messages the Requester sends in the session
  MaxAppData,       \* bound on the application records the Requester sends
  ScratchReset      \* TRUE: the dispatcher clears LastSpdmRequestSessionIdValid
                    \* on a cleartext request (spec 9, a transient hand-off);
                    \* FALSE: it only ever sets it (spec 3, "monotonically
                    \* bumped")

\* Param1 of SPDM_KEY_UPDATE_REQUEST (SPDM_KEY_UPDATE_OPERATIONS_TABLE_*).
UPDATE_KEY      == "UpdateKey"
UPDATE_ALL_KEYS == "UpdateAllKeys"
VERIFY_NEW_KEY  == "VerifyNewKey"
KeyUpdateOps    == {UPDATE_KEY, UPDATE_ALL_KEYS, VERIFY_NEW_KEY}
\* A Param1 value outside the operations table.
Param1Values    == KeyUpdateOps \cup {"Reserved"}

\* SPDM_CONNECTION_STATE, in the order the handler compares it.
ConnectionStates == <<"NotStarted", "AfterVersion", "AfterCapabilities",
                      "Negotiated", "AfterDigests", "AfterCertificate",
                      "Authenticated">>
ConnectionRank(s) == CHOOSE i \in 1..Len(ConnectionStates) : ConnectionStates[i] = s

ResponseStates == {"Normal", "Busy", "NotReady"}

ASSUME RequesterOps \subseteq {UPDATE_KEY, UPDATE_ALL_KEYS}
ASSUME MaxUpdates \in Nat /\ MaxFaults \in Nat /\ MaxMalformed \in Nat
ASSUME MaxAppData \in Nat /\ ScratchReset \in BOOLEAN
ASSUME KdfOutcomes \subseteq BOOLEAN /\ KdfOutcomes # {}
ASSUME ConnectionState \in {ConnectionStates[i] : i \in 1..Len(ConnectionStates)}

Dirs == {"Req", "Rsp"}          \* request direction, response direction
Gen  == 0..MaxUpdates            \* data-secret generations
KeySlot == [cur : Gen, pending : Gen \cup {NoKey}]

\* A KEY_UPDATE request: Param1, whether RequestSize equals
\* sizeof(SPDM_KEY_UPDATE_REQUEST), whether it came inside the session (this
\* sets LastSpdmRequestSessionIdValid) and the request-direction key it is
\* encrypted under (NoKey when sent in the clear).
\* An in-session record also carries the sequence number it was sealed
\* under (the AEAD nonce input, spec 4.6).
MaxRecords == MaxUpdates + MaxMalformed + MaxAppData
SeqNums == 0..MaxRecords
Requests == [op : Param1Values, sized : BOOLEAN, inSession : BOOLEAN,
             key : Gen \cup {NoKey}, seq : SeqNums]
\* An application-data record of the session, in the same direction and
\* under the same keys and sequence numbers as the KEY_UPDATE requests.
APP_DATA == "AppData"
AppRecords == [op : {APP_DATA}, payload : Payloads, inSession : {TRUE},
               key : Gen, seq : SeqNums]
MalformedShapes == {s \in [op : Param1Values, sized : BOOLEAN, inSession : BOOLEAN] :
                      ~(s.op \in KeyUpdateOps /\ s.sized /\ s.inSession)}

\* A response: KEY_UPDATE_ACK or an SPDM ERROR code, echoing Param1.
ResponseCodes == {"Ack", "Busy", "NotReady", "UnsupportedRequest",
                  "UnexpectedRequest", "InvalidRequest"}
Responses == [code : ResponseCodes, op : Param1Values, key : Gen \cup {NoKey},
              seq : SeqNums]

VARIABLES
  rspKeys,        \* Responder: [Dirs -> KeySlot] of the session
  responseState,  \* Responder: SpdmContext->ResponseState
  keyUpdCap,      \* KEY_UPD_CAP negotiated on both sides
  rspSession,     \* Responder: session "Established" or "Terminated"
  reqKeys,        \* Requester: [Dirs -> KeySlot] of the session
  reqPhase,       \* Requester: "idle", "waitAck" or "verify"
  reqOp,          \* Requester: Param1 of the request in flight
  reqSession,     \* Requester: session "Established" or "Terminated"
  toRsp,          \* records in flight Requester -> Responder
  toReq,          \* records in flight Responder -> Requester
  sent,           \* KEY_UPDATE requests sent so far
  faults,         \* lost records and timeouts so far
  malformed,      \* malformed requests sent so far
  verifiedGen,    \* history: request-direction generation last confirmed
                  \* by a VERIFY_NEW_KEY acknowledgement
  decryptError,   \* history: an endpoint failed to decrypt a peer record
  sendSeq,        \* [Dirs -> SeqNums]: the sender's next sequence number
  recvSeq,        \* [Dirs -> SeqNums]: the receiver's expected one
  lost,           \* history: the transport lost an in-session record
  appSent,        \* Requester: application messages handed to the session
  appDelivered,   \* Responder: application messages it has delivered
  lastSessionIdValid \* Responder: SpdmContext->LastSpdmRequestSessionIdValid

vars == <<rspKeys, responseState, keyUpdCap, rspSession, reqKeys, reqPhase,
          reqOp, reqSession, toRsp, toReq, sent, faults, malformed,
          verifiedGen, decryptError, sendSeq, recvSeq, lost, appSent,
          appDelivered, lastSessionIdValid>>

-----------------------------------------------------------------------------
(* Secured-message key slots (spec 4.8, modelled from the spec).           *)

\* Keys a record may be decrypted under: the current key, and during the
\* KEY_UPDATE crossover window the pending one.
Accepts(slot) == {slot.cur} \cup (IF slot.pending = NoKey THEN {} ELSE {slot.pending})

\* An in-session record of direction d opens when it is sealed under a key
\* the receiver's slot accepts and under the receiver's next sequence
\* number (spec 4.6: strictly ordered, no window); otherwise it is a
\* DecryptError.
Opens(d, rec, slot) == rec.key \in Accepts(slot) /\ rec.seq = recvSeq[d]

\* A record of direction d that opened moves the receiver's counter on;
\* a cleartext one (key NoKey) does not touch it.
RecvNext(d, rec) ==
  recvSeq' = IF rec.key = NoKey THEN recvSeq ELSE [recvSeq EXCEPT ![d] = @ + 1]

\* Sending a record of direction d: an in-session one is sealed under the
\* sender's next sequence number, which then moves on.
SendNext(d, inSession) ==
  sendSeq' = IF inSession THEN [sendSeq EXCEPT ![d] = @ + 1] ELSE sendSeq

\* Derive the next secret of direction d from its current one by
\* HKDF-Expand("key update") and hold it as pending; when the HKDF call
\* returns FALSE (ok = FALSE) nothing is installed and the error status is
\* returned.
SpdmCreateUpdateSessionDataKey(keys, d, ok) ==
  IF ok THEN [keys EXCEPT ![d].pending = keys[d].cur + 1] ELSE keys

\* Faulty variant: the slot promoted even when nothing is pending.
ActivateUnguarded(keys, d) ==
  [keys EXCEPT ![d] = [cur |-> keys[d].pending, pending |-> NoKey]]

\* UseNewKey = TRUE: the pending secret becomes current and the old one is
\* zeroized.  Nothing to activate when no secret is pending.
SpdmActivateUpdateSessionDataKey(keys, d) ==
  IF keys[d].pending = NoKey THEN keys
  ELSE [keys EXCEPT ![d] = [cur |-> keys[d].pending, pending |-> NoKey]]

\* UseNewKey = FALSE on every direction: the pending secrets are dropped.
DropPending(keys) == [d \in Dirs |-> [cur |-> keys[d].cur, pending |-> NoKey]]

-----------------------------------------------------------------------------
(* Responder: SpdmGetResponseKeyUpdate.                                    *)

\* The dispatcher's LastSpdmRequestSessionIdValid once it has taken request
\* m (not under src/, spec 3 and 9): set by a secured request; a cleartext
\* one clears it or leaves it as it was.
SessionIdValid(m) == m.inSession \/ (~ScratchReset /\ lastSessionIdValid)

\* The SPDM ERROR code of the first check the request fails, in the
\* handler's order, or "Ack" when it passes them all.
KeyUpdateCheck(m) ==
  IF responseState # "Normal" THEN responseState
  ELSE IF ~keyUpdCap THEN "UnsupportedRequest"
  ELSE IF ConnectionRank(ConnectionState) < ConnectionRank("Negotiated")
       THEN "UnexpectedRequest"
  ELSE IF ~SessionIdValid(m) THEN "InvalidRequest"
  ELSE IF rspSession # "Established" THEN "InvalidRequest"
  ELSE IF ~m.sized THEN "InvalidRequest"
  ELSE IF m.op \notin KeyUpdateOps THEN "InvalidRequest"
  ELSE "Ack"

\* Faulty variants of the switch: UPDATE_KEY activating the new request key
\* at once, UPDATE_ALL_KEYS not activating the new response key, and
\* VERIFY_NEW_KEY acknowledged without activating the new request key.
KeyUpdateOperationActivateAtOnce(keys, op, ok) ==
  CASE op = UPDATE_KEY ->
         SpdmActivateUpdateSessionDataKey(SpdmCreateUpdateSessionDataKey(keys, "Req", ok.Req), "Req")
    [] op = UPDATE_ALL_KEYS ->
         SpdmActivateUpdateSessionDataKey(
           SpdmCreateUpdateSessionDataKey(
             SpdmCreateUpdateSessionDataKey(keys, "Req", ok.Req), "Rsp", ok.Rsp), "Rsp")
    [] op = VERIFY_NEW_KEY ->
         SpdmActivateUpdateSessionDataKey(keys, "Req")
KeyUpdateOperationNoRspActivate(keys, op, ok) ==
  CASE op = UPDATE_KEY ->
         SpdmCreateUpdateSessionDataKey(keys, "Req", ok.Req)
    [] op = UPDATE_ALL_KEYS ->
         SpdmCreateUpdateSessionDataKey(SpdmCreateUpdateSessionDataKey(keys, "Req", ok.Req), "Rsp", ok.Rsp)
    [] op = VERIFY_NEW_KEY ->
         SpdmActivateUpdateSessionDataKey(keys, "Req")
KeyUpdateOperationNoVerify(keys, op, ok) ==
  CASE op = UPDATE_KEY ->
         SpdmCreateUpdateSessionDataKey(keys, "Req", ok.Req)
    [] op = UPDATE_ALL_KEYS ->
         SpdmActivateUpdateSessionDataKey(
           SpdmCreateUpdateSessionDataKey(
             SpdmCreateUpdateSessionDataKey(keys, "Req", ok.Req), "Rsp", ok.Rsp), "Rsp")
    [] op = VERIFY_NEW_KEY -> keys

\* The key slots after the operation Param1 selects; ok[d] is the result of
\* the HKDF call of the SpdmCreateUpdateSessionDataKey for direction d,
\* whose returned status the handler does not look at.
KeyUpdateOperation(keys, op, ok) ==
  CASE op = UPDATE_KEY ->
         SpdmCreateUpdateSessionDataKey(keys, "Req", ok.Req)
    [] op = UPDATE_ALL_KEYS ->
         SpdmActivateUpdateSessionDataKey(
           SpdmCreateUpdateSessionDataKey(
             SpdmCreateUpdateSessionDataKey(keys, "Req", ok.Req), "Rsp", ok.Rsp), "Rsp")
    [] op = VERIFY_NEW_KEY ->
         SpdmActivateUpdateSessionDataKey(keys, "Req")

\* The session keys once the handler returns: changed only on the ACK path.
KeyUpdateKeys(m, code, ok) ==
  IF code = "Ack" THEN KeyUpdateOperation(rspKeys, m.op, ok) ELSE rspKeys

\* The Responder takes the next record, decrypts it, runs the handler and
\* sends the response, sealed (when the scratch names the session) under
\* the response key the handler leaves current and the next response
\* sequence number.  A record that does not
\* open (neither key, or out of sequence) is a DecryptError: fatal to the
\* session, no response.
SpdmGetResponseKeyUpdate ==
  /\ toRsp # <<>> /\ Head(toRsp).op # APP_DATA
  /\ LET m == Head(toRsp) IN
     IF m.inSession /\ (rspSession # "Established" \/ ~Opens("Req", m, rspKeys.Req))
     THEN /\ rspSession' = "Terminated"
          /\ decryptError' = (decryptError \/ rspSession = "Established")
          /\ UNCHANGED <<rspKeys, toReq, sendSeq, recvSeq, lastSessionIdValid>>
     ELSE \E ok \in [Dirs -> KdfOutcomes] :
          LET code  == KeyUpdateCheck(m)
              keys2 == KeyUpdateKeys(m, code, ok)
          IN /\ rspKeys' = keys2
             /\ toReq' = Append(toReq, [code |-> code, op |-> m.op,
                                        key |-> IF SessionIdValid(m) THEN keys2.Rsp.cur
                                                ELSE NoKey,
                                        seq |-> sendSeq.Rsp])
             /\ RecvNext("Req", m) /\ SendNext("Rsp", SessionIdValid(m))
             /\ lastSessionIdValid' = SessionIdValid(m)
             /\ UNCHANGED <<rspSession, decryptError>>
  /\ toRsp' = Tail(toRsp)
  /\ UNCHANGED <<appSent, appDelivered, responseState, keyUpdCap, reqKeys, reqPhase, reqOp, reqSession,
                 sent, faults, malformed, verifiedGen, lost>>

\* The Responder's application defers or resumes request processing.
SetResponseState(s) ==
  /\ responseState' = s
  /\ UNCHANGED <<appSent, appDelivered, lastSessionIdValid, rspKeys, keyUpdCap, rspSession, reqKeys, reqPhase, reqOp,
                 reqSession, toRsp, toReq, sent, faults, malformed,
                 verifiedGen, decryptError, sendSeq, recvSeq, lost>>

\* The Responder's record layer takes an application record: it opens
\* under the request-direction key slot and sequence number exactly as a
\* KEY_UPDATE does, and is delivered; otherwise it is a DecryptError.
ReceiveAppData ==
  /\ toRsp # <<>> /\ Head(toRsp).op = APP_DATA
  /\ toRsp' = Tail(toRsp)
  /\ LET m == Head(toRsp) IN
     IF rspSession = "Established" /\ Opens("Req", m, rspKeys.Req)
     THEN /\ appDelivered' = Append(appDelivered, m.payload)
          /\ RecvNext("Req", m)
          /\ lastSessionIdValid' = TRUE
          /\ UNCHANGED <<rspSession, decryptError>>
     ELSE /\ rspSession' = "Terminated"
          /\ decryptError' = (decryptError \/ rspSession = "Established")
          /\ UNCHANGED <<appDelivered, recvSeq, lastSessionIdValid>>
  /\ UNCHANGED <<rspKeys, responseState, keyUpdCap, reqKeys, reqPhase, reqOp,
                 reqSession, toReq, sent, faults, malformed, verifiedGen,
                 sendSeq, lost, appSent>>

-----------------------------------------------------------------------------
(* Requester (spec 4.8 KEY_UPDATE steps 1-3, modelled from the spec).     *)

Send(m) == toRsp' = Append(toRsp, m) /\ SendNext("Req", m.inSession)

\* Step 1-2: derive the pending request-direction secret (and for
\* UPDATE_ALL_KEYS the pending response-direction one), send the request
\* under the current key.  A Requester whose derivation fails does not
\* send, so only successful derivations are steps.
StartKeyUpdate(op) ==
  /\ reqSession = "Established" /\ reqPhase = "idle" /\ sent < MaxUpdates
  /\ reqKeys' = IF op = UPDATE_ALL_KEYS
                THEN SpdmCreateUpdateSessionDataKey(
                       SpdmCreateUpdateSessionDataKey(reqKeys, "Req", TRUE), "Rsp", TRUE)
                ELSE SpdmCreateUpdateSessionDataKey(reqKeys, "Req", TRUE)
  /\ Send([op |-> op, sized |-> TRUE, inSession |-> TRUE, key |-> reqKeys.Req.cur,
           seq |-> sendSeq.Req])
  /\ reqPhase' = "waitAck" /\ reqOp' = op /\ sent' = sent + 1
  /\ UNCHANGED <<appSent, appDelivered, lastSessionIdValid, rspKeys, responseState, keyUpdCap, rspSession, reqSession,
                 toReq, faults, malformed, verifiedGen, decryptError, recvSeq, lost>>

\* Step 3: after the ACK the Requester transmits under the new key; it
\* sends VERIFY_NEW_KEY under it.
SendVerifyNewKey ==
  /\ reqSession = "Established" /\ reqPhase = "verify" /\ sent < MaxUpdates
  /\ Send([op |-> VERIFY_NEW_KEY, sized |-> TRUE, inSession |-> TRUE,
           key |-> reqKeys.Req.cur, seq |-> sendSeq.Req])
  /\ reqPhase' = "waitAck" /\ reqOp' = VERIFY_NEW_KEY /\ sent' = sent + 1
  /\ UNCHANGED <<appSent, appDelivered, lastSessionIdValid, rspKeys, responseState, keyUpdCap, rspSession, reqKeys,
                 reqSession, toReq, faults, malformed, verifiedGen, decryptError,
                 recvSeq, lost>>

\* The Requester hands an application message to the session when no
\* request is outstanding (it blocks on each request); between the ACK
\* and VERIFY_NEW_KEY it already seals under the new key (spec 4.8 step 3).
SendAppData(p) ==
  /\ reqSession = "Established" /\ reqPhase \in {"idle", "verify"}
  /\ Len(appSent) < MaxAppData
  /\ Send([op |-> APP_DATA, payload |-> p, inSession |-> TRUE,
           key |-> reqKeys.Req.cur, seq |-> sendSeq.Req])
  /\ appSent' = Append(appSent, p)
  /\ UNCHANGED <<rspKeys, responseState, keyUpdCap, rspSession, reqKeys,
                 reqPhase, reqOp, reqSession, toReq, sent, faults, malformed,
                 verifiedGen, decryptError, recvSeq, lost, appDelivered,
                 lastSessionIdValid>>

\* A KEY_UPDATE with a reserved Param1, a wrong size, or sent outside the
\* session.
SendMalformed ==
  /\ reqSession = "Established" /\ reqPhase = "idle" /\ malformed < MaxMalformed
  /\ \E s \in MalformedShapes :
       Send([op |-> s.op, sized |-> s.sized, inSession |-> s.inSession,
             key |-> IF s.inSession THEN reqKeys.Req.cur ELSE NoKey,
             seq |-> sendSeq.Req])
  /\ reqPhase' = "waitAck" /\ reqOp' = "Reserved" /\ malformed' = malformed + 1
  /\ UNCHANGED <<appSent, appDelivered, lastSessionIdValid, rspKeys, responseState, keyUpdCap, rspSession, reqKeys,
                 reqSession, toReq, sent, faults, verifiedGen, decryptError,
                 recvSeq, lost>>

\* The request failed (ERROR response, or transport error): the pending
\* secrets are dropped; a failed VERIFY_NEW_KEY leaves the new key in use.
FailedPhase == IF reqOp = VERIFY_NEW_KEY THEN "verify" ELSE "idle"

\* The Requester takes the next response and opens it under its current or
\* pending response-direction key and its next response sequence number.
ReceiveResponse ==
  /\ toReq # <<>> /\ reqSession = "Established"
  /\ toReq' = Tail(toReq)
  /\ LET r == Head(toReq) IN
     IF r.key # NoKey /\ ~Opens("Rsp", r, reqKeys.Rsp)
     THEN /\ reqSession' = "Terminated" /\ decryptError' = TRUE
          /\ UNCHANGED <<reqKeys, reqPhase, verifiedGen, recvSeq>>
     ELSE RecvNext("Rsp", r) /\
     IF reqPhase # "waitAck"
     THEN UNCHANGED <<reqKeys, reqPhase, reqSession, verifiedGen, decryptError>>
     ELSE IF r.code = "Ack" /\ r.op = reqOp
     THEN /\ reqKeys' = IF reqOp = UPDATE_ALL_KEYS
                        THEN SpdmActivateUpdateSessionDataKey(
                               SpdmActivateUpdateSessionDataKey(reqKeys, "Req"), "Rsp")
                        ELSE SpdmActivateUpdateSessionDataKey(reqKeys, "Req")
          /\ reqPhase' = IF reqOp = VERIFY_NEW_KEY THEN "idle" ELSE "verify"
          /\ verifiedGen' = IF reqOp = VERIFY_NEW_KEY THEN reqKeys.Req.cur
                            ELSE verifiedGen
          /\ UNCHANGED <<reqSession, decryptError>>
     ELSE /\ reqKeys' = DropPending(reqKeys)
          /\ reqPhase' = FailedPhase
          /\ UNCHANGED <<reqSession, verifiedGen, decryptError>>
  /\ UNCHANGED <<appSent, appDelivered, lastSessionIdValid, rspKeys, responseState, keyUpdCap, rspSession, reqOp, toRsp,
                 sent, faults, malformed, sendSeq, lost>>

\* Transport timeout while no response has arrived: a transport error that
\* the Requester treats as a failed request.  With the request still in
\* flight the timeout is premature (a fault: the late response may still
\* arrive); with nothing in flight it is the timer doing its job.
Timeout ==
  /\ reqSession = "Established" /\ reqPhase = "waitAck" /\ toReq = <<>>
  /\ faults < MaxFaults \/ toRsp = <<>>
  /\ reqKeys' = DropPending(reqKeys) /\ reqPhase' = FailedPhase
  /\ faults' = IF toRsp = <<>> THEN faults ELSE faults + 1
  /\ UNCHANGED <<appSent, appDelivered, lastSessionIdValid, rspKeys, responseState, keyUpdCap, rspSession, reqOp,
                 reqSession, toRsp, toReq, sent, malformed, verifiedGen,
                 decryptError, sendSeq, recvSeq, lost>>

-----------------------------------------------------------------------------
(* Transport: a record is lost.                                            *)

LoseRequest ==
  /\ faults < MaxFaults
  /\ \E i \in 1..Len(toRsp) :
       /\ toRsp' = RemoveAt(toRsp, i)
       /\ lost' = (lost \/ toRsp[i].inSession)
  /\ faults' = faults + 1
  /\ UNCHANGED <<appSent, appDelivered, lastSessionIdValid, rspKeys, responseState, keyUpdCap, rspSession, reqKeys,
                 reqPhase, reqOp, reqSession, toReq, sent, malformed,
                 verifiedGen, decryptError, sendSeq, recvSeq>>

LoseResponse ==
  /\ faults < MaxFaults
  /\ \E i \in 1..Len(toReq) :
       /\ toReq' = RemoveAt(toReq, i)
       /\ lost' = (lost \/ toReq[i].key # NoKey)
  /\ faults' = faults + 1
  /\ UNCHANGED <<appSent, appDelivered, lastSessionIdValid, rspKeys, responseState, keyUpdCap, rspSession, reqKeys,
                 reqPhase, reqOp, reqSession, toRsp, sent, malformed,
                 verifiedGen, decryptError, sendSeq, recvSeq>>

-----------------------------------------------------------------------------
\* The session has just reached Established: both sides hold the data
\* secrets derived at FINISH (generation 0) and nothing is pending.
InitKeys == [d \in Dirs |-> [cur |-> 0, pending |-> NoKey]]

Init ==
  /\ rspKeys = InitKeys /\ reqKeys = InitKeys
  /\ responseState = "Normal"
  /\ keyUpdCap \in BOOLEAN
  /\ rspSession = "Established" /\ reqSession = "Established"
  /\ reqPhase = "idle" /\ reqOp = "Reserved"
  /\ toRsp = <<>> /\ toReq = <<>>
  /\ sent = 0 /\ faults = 0 /\ malformed = 0
  /\ verifiedGen = 0 /\ decryptError = FALSE
  /\ sendSeq = [d \in Dirs |-> 0] /\ recvSeq = [d \in Dirs |-> 0]
  /\ lost = FALSE
  /\ appSent = <<>> /\ appDelivered = <<>>
  /\ lastSessionIdValid = TRUE    \* FINISH came in the session

Next ==
  \/ SpdmGetResponseKeyUpdate
  \/ ReceiveAppData
  \/ \E p \in Payloads : SendAppData(p)
  \/ \E s \in ResponseStates : SetResponseState(s)
  \/ \E op \in RequesterOps : StartKeyUpdate(op)
  \/ SendVerifyNewKey
  \/ SendMalformed
  \/ ReceiveResponse
  \/ Timeout
  \/ LoseRequest
  \/ LoseResponse

Spec == Init /\ [][Next]_vars

-----------------------------------------------------------------------------
(* Properties.                                                             *)

\* Every variable holds a value of its type: in particular every key slot
\* holds a generation as its current key.
TypeOK ==
  /\ rspKeys \in [Dirs -> KeySlot] /\ reqKeys \in [Dirs -> KeySlot]
  /\ responseState \in ResponseStates /\ keyUpdCap \in BOOLEAN
  /\ rspSession \in {"Established", "Terminated"}
  /\ reqSession \in {"Established", "Terminated"}
  /\ reqPhase \in {"idle", "waitAck", "verify"}
  /\ reqOp \in Param1Values
  /\ toRsp \in Seq(Requests \cup AppRecords) /\ toReq \in Seq(Responses)
  /\ verifiedGen \in Gen /\ decryptError \in BOOLEAN
  /\ sendSeq \in [Dirs -> SeqNums] /\ recvSeq \in [Dirs -> SeqNums]
  /\ lost \in BOOLEAN
  /\ appSent \in Seq(Payloads) /\ appDelivered \in Seq(Payloads)
  /\ lastSessionIdValid \in BOOLEAN

\* Honest endpoints hit an AEAD failure on each other's records only after
\* the transport lost an in-session record (which desynchronises the
\* sequence numbers, spec 4.6): a KEY_UPDATE exchange, whatever responses
\* are delayed past a timeout or refused, never leaves one side sending
\* under a key the other cannot decrypt (SpdmGetResponseKeyUpdate together
\* with the record layer's crossover rule).
NoSpuriousDecryptError == decryptError => lost

\* Key-update safety (spec 8, property 5): once the Requester has received
\* the acknowledgement of VERIFY_NEW_KEY for generation g, the Responder no
\* longer accepts any request-direction record under an older key.
OldKeyRetired ==
  rspSession = "Established" =>
    \A g \in Accepts(rspKeys.Req) : g >= verifiedGen

\* A KEY_UPDATE that reaches the Responder in the clear never changes the
\* session's keys: only a request that came authenticated inside the session
\* may rekey it (the LastSpdmRequestSessionIdValid check of
\* SpdmGetResponseKeyUpdate, line 61, fed by the dispatcher's scratch).
ClearTextNeverRekeys ==
  [][ (toRsp # <<>> /\ ~Head(toRsp).inSession /\ toRsp' = Tail(toRsp))
        => rspKeys' = rspKeys ]_vars

=============================================================================
