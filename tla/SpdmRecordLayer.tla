-------------------------- MODULE SpdmRecordLayer --------------------------
(***************************************************************************)
(* The session record layer (spec component C6, section 4.6) of one        *)
(* established session between a Requester and a Responder, in both       *)
(* directions, over a transport that may lose or replay records and may    *)
(* carry a record too large for the receiver.                              *)
(*                                                                         *)
(* The framing is the DSP0277 layout of                                    *)
(* src/libspdm/include/industry_standard/spdm_secured_message.h: a record  *)
(* is session_id, sequence number and a uint16 length (the AAD), then the  *)
(* encrypted uint16 application_data_length, payload and random padding,   *)
(* then the MAC.  The encode and decode routines and the send and receive  *)
(* paths are not under src/ and are modelled from spec 4.6: the sender     *)
(* encrypts under send_seq and increments it; the receiver decrypts under  *)
(* recv_seq and increments it, a decrypt failure terminates the session,   *)
(* a record larger than the maximum message size is rejected before       *)
(* decryption, and sequence-number exhaustion is a fatal session error.    *)
(*                                                                         *)
(* The key is fixed here (the KEY_UPDATE crossover is SpdmKeyUpdate's), so *)
(* a record decrypts exactly when its nonce (the sender's sequence number) *)
(* is the receiver's and the receiver parses the ciphertext and MAC the    *)
(* sender produced.  Bytes are abstracted to lengths.                      *)
(***************************************************************************)
EXTENDS Naturals, Sequences

CONSTANTS
  PayloadSizes,  \* the byte lengths an application message may have
  MaxRandom,     \* the most random padding bytes a record carries
  TagSize,       \* the AEAD MAC length
  SeqNumSize,    \* the transport's sequence-number length N in the AAD
  SeqBits,       \* the width of the sequence counters (64 in the code)
  MaxMsgSize,    \* the largest record a receiver accepts
  MaxFaults      \* bound on lost, replayed and oversized records

ASSUME /\ PayloadSizes \subseteq Nat /\ MaxRandom \in 0..32
       /\ TagSize \in Nat /\ SeqNumSize \in 0..8 /\ SeqBits \in Nat \ {0}
       /\ MaxMsgSize \in Nat /\ MaxFaults \in Nat

Sides == {"Requester", "Responder"}
Dirs  == {"ReqToRsp", "RspToReq"}
Sender(d)   == IF d = "ReqToRsp" THEN "Requester" ELSE "Responder"
Receiver(d) == IF d = "ReqToRsp" THEN "Responder" ELSE "Requester"
\* The direction a side receives on.
Inbound(s)  == IF s = "Responder" THEN "ReqToRsp" ELSE "RspToReq"

\* The counters are SeqBits wide; the last value is the exhausted one.
SeqMod == 2 ^ SeqBits
MaxSeq == SeqMod - 1
Uint16 == 2 ^ 16

\* spdm_secured_message_a_data_header1_t, the sequence number and
\* spdm_secured_message_a_data_header2_t: the AAD's byte length.
AadSize == 4 + SeqNumSize + 2

VARIABLES
  sendSeq,    \* [Dirs -> 0..MaxSeq]: the sender's sequence number
  recvSeq,    \* [Dirs -> 0..MaxSeq]: the receiver's sequence number
  chan,       \* [Dirs -> Seq(records)]: records in the transport
  alive,      \* [Sides -> BOOLEAN]: the side's session is not terminating
  why,        \* [Sides -> reason]: "none", "DecryptError" or "Exhausted"
  faults,     \* transport faults so far
  faulted     \* [Dirs -> BOOLEAN]: a record of d was lost or replayed

vars == <<sendSeq, recvSeq, chan, alive, why, faults, faulted>>

-----------------------------------------------------------------------------
(* Framing.                                                                *)

\* The ciphertext and MAC bytes of a record carrying p payload bytes and r
\* random bytes: application_data_length (2 bytes), payload, random, MAC.
CipherBytes(p, r) == 2 + p + r + TagSize

\* Faulty variant: the length field leaves out application_data_length.
EncodeShort(p, r, seq) ==
  [seq |-> seq, length |-> (p + r + TagSize) % Uint16, appLen |-> p % Uint16,
   bytes |-> CipherBytes(p, r)]

\* Encode a record: the header fields are uint16, so the length and
\* application_data_length fields hold their values modulo 2^16; `bytes`
\* is what follows the AAD on the wire.
Encode(p, r, seq) ==
  [seq |-> seq, length |-> CipherBytes(p, r) % Uint16, appLen |-> p % Uint16,
   bytes |-> CipherBytes(p, r)]

\* The receiver parses `length` bytes after the AAD as ciphertext and MAC
\* and decrypts them under recv_seq: the MAC verifies only if that is the
\* sender's ciphertext under the same nonce; the decrypted
\* application_data_length must fit in the plaintext.
Decrypts(d, rec) ==
  /\ rec.seq = recvSeq[d]
  /\ rec.length = rec.bytes
  /\ rec.appLen + 2 + TagSize <= rec.length

\* A record from a misbehaving peer larger than the receiver accepts.
Oversized == [seq |-> 0, length |-> 0, appLen |-> 0,
              bytes |-> MaxMsgSize + 1 - AadSize]

-----------------------------------------------------------------------------
(* The send and receive paths.                                             *)

\* Send an application message: encrypt under send_seq, then increment it.
SendRecord(d) ==
  /\ alive[Sender(d)] /\ sendSeq[d] < MaxSeq
  /\ \E p \in PayloadSizes, r \in 0..MaxRandom :
       chan' = [chan EXCEPT ![d] = Append(@, Encode(p, r, sendSeq[d]))]
  /\ sendSeq' = [sendSeq EXCEPT ![d] = (@ + 1) % SeqMod]
  /\ UNCHANGED <<recvSeq, alive, why, faults, faulted>>

\* The sequence number is exhausted: a fatal session error.
SendExhausted(d) ==
  /\ alive[Sender(d)] /\ sendSeq[d] = MaxSeq
  /\ alive' = [alive EXCEPT ![Sender(d)] = FALSE]
  /\ why' = [why EXCEPT ![Sender(d)] = "Exhausted"]
  /\ UNCHANGED <<sendSeq, recvSeq, chan, faults, faulted>>

\* Receive the next record: MessageTooLarge drops it before decryption
\* with no state change; otherwise it decrypts under recv_seq and its
\* payload goes to the application (recv_seq++), or the AEAD failure
\* terminates the session.
ReceiveRecord(d) ==
  /\ alive[Receiver(d)] /\ chan[d] # <<>>
  /\ LET rec == Head(chan[d]) IN
     /\ chan' = [chan EXCEPT ![d] = Tail(@)]
     /\ CASE AadSize + rec.bytes > MaxMsgSize ->
               UNCHANGED <<recvSeq, alive, why>>
          [] Decrypts(d, rec) ->
               /\ recvSeq' = [recvSeq EXCEPT ![d] = (@ + 1) % SeqMod]
               /\ UNCHANGED <<alive, why>>
          [] OTHER ->
               /\ alive' = [alive EXCEPT ![Receiver(d)] = FALSE]
               /\ why' = [why EXCEPT ![Receiver(d)] = "DecryptError"]
               /\ UNCHANGED recvSeq
  /\ UNCHANGED <<sendSeq, faults, faulted>>

-----------------------------------------------------------------------------
(* The transport.                                                          *)

LoseRecord(d) ==
  /\ faults < MaxFaults
  /\ \E i \in DOMAIN chan[d] :
       chan' = [chan EXCEPT ![d] = SubSeq(@, 1, i - 1) \o SubSeq(@, i + 1, Len(@))]
  /\ faults' = faults + 1 /\ faulted' = [faulted EXCEPT ![d] = TRUE]
  /\ UNCHANGED <<sendSeq, recvSeq, alive, why>>

\* A record already sent arrives again (a replay of one in the transport).
ReplayRecord(d) ==
  /\ faults < MaxFaults
  /\ \E i \in DOMAIN chan[d] : chan' = [chan EXCEPT ![d] = Append(@, @[i])]
  /\ faults' = faults + 1 /\ faulted' = [faulted EXCEPT ![d] = TRUE]
  /\ UNCHANGED <<sendSeq, recvSeq, alive, why>>

InjectOversized(d) ==
  /\ faults < MaxFaults
  /\ chan' = [chan EXCEPT ![d] = Append(@, Oversized)]
  /\ faults' = faults + 1
  /\ UNCHANGED <<sendSeq, recvSeq, alive, why, faulted>>

Init ==
  /\ sendSeq = [d \in Dirs |-> 0] /\ recvSeq = [d \in Dirs |-> 0]
  /\ chan = [d \in Dirs |-> <<>>]
  /\ alive = [s \in Sides |-> TRUE] /\ why = [s \in Sides |-> "none"]
  /\ faults = 0 /\ faulted = [d \in Dirs |-> FALSE]

Next ==
  \E d \in Dirs :
    \/ SendRecord(d) \/ SendExhausted(d) \/ ReceiveRecord(d)
    \/ LoseRecord(d) \/ ReplayRecord(d) \/ InjectOversized(d)

Spec == Init /\ [][Next]_vars

-----------------------------------------------------------------------------
(* Properties.                                                             *)

TypeOK ==
  /\ sendSeq \in [Dirs -> 0..MaxSeq] /\ recvSeq \in [Dirs -> 0..MaxSeq]
  /\ alive \in [Sides -> BOOLEAN]
  /\ why \in [Sides -> {"none", "DecryptError", "Exhausted"}]
  /\ faults \in 0..MaxFaults

\* A session terminates only for a reason: a side that failed to decrypt
\* had a record of its inbound direction lost or replayed; a record the
\* transport delivers intact, in order and within size always decrypts.
NoSpuriousTermination ==
  \A s \in Sides : why[s] = "DecryptError" => faulted[Inbound(s)]
=============================================================================
