# TLA+ models of openspdm-pqc

These modules model the stateful parts of this repository's SPDM code that the TLC
model checker can reach. They cover the Responder's KEY_UPDATE handler together with
the session key slots and the Requester it talks to; the connection states that lead
up to a KEY_UPDATE and the handler's first checks; the session record layer of
`spdm_secured_message.h`; the OpenSSL entropy-pool shim; the crypto provider as each
build links it; and the DH/EC/PRNG validation routines. `PROJECT.json` lists every component, every TLC run, the mutants that show each
property can fail, the map from definitions to source lines, the findings and the
hazards.

## 1. Inventory

### What the repository contains

`src/` holds a small slice of openspdm-pqc. spec.md calls it "~2,600 visible lines".
The parts are listed below.

| Part | Source | State it keeps | Operations |
|------|--------|----------------|------------|
| Responder KEY_UPDATE handler | `Library/SpdmResponderLib/SpdmResponderLibKeyUpdate.c` | none of its own. It reads and changes the SPDM context: ResponseState, the negotiated capabilities, ConnectionState, the LastSpdmRequestSessionId scratch, and the session's key slots | `SpdmGetResponseKeyUpdate`: checks in order (response state, KEY_UPD_CAP, connection state, session id, session state, request size), then dispatches on Param1 (UPDATE_KEY, UPDATE_ALL_KEYS, VERIFY_NEW_KEY), then sends KEY_UPDATE_ACK |
| Secured-message framing | `libspdm/include/industry_standard/spdm_secured_message.h` | none (wire layout): the AEAD additional data (session id, sequence number, uint16 length) and the cipher header (uint16 application_data_length), plus opaque-data structs | none; the record layer that fills these fields is not under `src/` |
| OpenSSL rand_pool shim | `libspdm/os_stub/openssllib/rand_pool.c` | the OpenSSL pool it fills (bytes, entropy credit) | `RandGetBytes` (8-byte chunks from `get_random_number_64`); `rand_pool_acquire_entropy`; `rand_pool_add_nonce_data`; `rand_pool_add_additional_data`; empty `init`, `cleanup` and `keep_random_devices_open` |
| Crypto stubs | `cryptlib_mbedtls/hash/sha3.c` and `test_size/cryptlib_dummy/{hash/sha512.c,kdf/hkdf.c}` | none | every SHA3, SHA-384/512 and HKDF entry returns FALSE or 0; the HKDF ones also `ASSERT(FALSE)` |
| Time-clock dummies | `UnitTest/TestSize/BaseCryptStubLibDummy/TimeClockDummy.c` | none | `ASSERT(FALSE)` stubs |
| Unit-test and fuzzing setup | `unit_test/spdm_unit_test_common/common.c` and `fuzzing/.../common.c` | one global test context that owns a malloc'd SPDM context | group setup (malloc, init, register I/O and transport callbacks) and teardown (free) |
| Crypto validation tests | `unit_test/test_crypt/{dh,ec,rand}_verify.c` | local context pointers and buffers | straight-line tests of the provider; each failure path frees what it holds |
| Emulator support | `spdm_emu/.../support.c` | none | hex dump, file read and write |
| liboqs config | `oqs/include/oqs/oqsconfig.h` | none | macros |

spec.md describes the whole core: message codec (C3), transcript manager (C4), key
schedule (C5), record layer (C6), connection state machine (C7), session state machine
(C8) and endpoint facade (C9). Of these, only the KEY_UPDATE handler of C8 is under
`src/`. The code the handler calls is part of this repository but is not under `src/`:
`SpdmCreateUpdateSessionDataKey`, `SpdmActivateUpdateSessionDataKey`,
`SpdmResponderHandleResponseState`, the record layer and the Requester. Those are
modelled from spec.md and marked `spec_modelled` in the map.

### How the parts interact

An SPDM Requester and Responder exchange request/response pairs over a transport. Once
a session is established, every record is AEAD-encrypted under a per-direction data
key (spec 4.6). KEY_UPDATE is the two-phase rekey of a session (spec 4.8):

1. The Requester derives a pending new request key and sends UPDATE_KEY under the old
   key.
2. The Responder's handler creates the same pending key and answers KEY_UPDATE_ACK.
3. The Requester switches to the new key and sends VERIFY_NEW_KEY under it. The
   Responder decrypts it under the pending key (the crossover window). The handler
   activates that key and zeroizes the old one.

UPDATE_ALL_KEYS also rotates the response direction. The handler activates the new
response key immediately, so the ACK itself goes out under the new key (line 94).

Under the keys, the record layer seals each record with the direction's next
sequence number and opens a record only under the receiver's next one, strictly in
order (spec 4.6). A lost in-session record therefore ends the session at the next
record of that direction, whatever the keys are.

The entropy shim is called by OpenSSL's DRBG when it seeds or reseeds. The DRBG's
random output feeds the nonces and DH/ECDH keys of the handshake.

### What makes it hard

- **Interleaving and unreliable delivery.** Requester and Responder act concurrently.
  Records can be lost, and the Requester times out on a transport error. A late
  response can arrive after the timeout (spec 5).
- **Key crossover.** For a window, each side must accept two keys for one direction.
  That window has to open and close in the same order on both sides.
- **Partial failure.** Key derivation and the RNG can fail partway through, and some
  callers discard the status (handler lines 85, 89 and 91; rand_pool.c lines 114 and
  130).
- **Ordering of checks.** An error response must leave the session unchanged (spec 7).

### What makes each part correct

- KEY_UPDATE:
  - honest endpoints hit an AEAD failure on each other's records only after a record
    was lost;
  - after VERIFY_NEW_KEY is acknowledged, the old key is no longer accepted;
  - a request the connection state does not admit is refused with UnexpectedRequest;
  - the keys stay well-formed when messages are retried or out of order.
- rand_pool:
  - RandGetBytes writes the whole buffer exactly when it returns TRUE;
  - entropy is credited only for random bytes actually written;
  - no unwritten byte ever reaches the pool.

## 2. Modules

### `SpdmKeyUpdate.tla` and `MCSpdmKeyUpdate.tla`

Abstraction: a data secret is its **generation**, the number of `HKDF-Expand("key
update")` steps applied to the secret derived at FINISH. Equal generations mean equal
keys. A key slot is `[cur, pending]` per direction (`Req`, `Rsp`).

| Model | Code |
|-------|------|
| `rspKeys`, `reqKeys` | the session's ApplicationSecret / backup slots on each side (spec 4.8) |
| `responseState` | `SpdmContext->ResponseState` (line 49) |
| `keyUpdCap` | the negotiated KEY_UPD_CAP flags (line 52) |
| `ConnectionState` (constant) | `ConnectionInfo.ConnectionState` (line 56). A session can only exist after negotiation |
| request field `inSession` | whether the record came secured in the session |
| `lastSessionIdValid`, `SessionIdValid(m)` | `SpdmContext->LastSpdmRequestSessionIdValid`, which the dispatcher (not under `src/`) leaves for the handler's check at line 61 and for sealing the response. The constant `ScratchReset` picks the spec's reading: cleared on a cleartext request (spec 9, "a transient hand-off") or only ever set (spec 3, "monotonically bumped") |
| request field `sized` | `RequestSize == sizeof(SPDM_KEY_UPDATE_REQUEST)` (line 77) |
| `KeyUpdateCheck` | the chain of early returns, lines 49-80 and 100-102 |
| `KeyUpdateOperation` | the Param1 switch, lines 82-99 |
| `SpdmGetResponseKeyUpdate` | the whole handler. The record layer decrypts first (spec 4.6); afterwards the ACK or ERROR is encrypted under the response key the handler leaves current |
| `SpdmCreateUpdateSessionDataKey`, `SpdmActivateUpdateSessionDataKey` | spec 4.8: create derives `pending = cur + 1`; activate promotes pending and zeroizes the old key |
| `StartKeyUpdate`, `SendVerifyNewKey`, `ReceiveResponse`, `Timeout` | the Requester, from spec 4.8 steps 1-3 and spec 5. On an ERROR or a timeout it drops its pending keys |
| `LoseRequest`, `LoseResponse`, `SetResponseState` | the environment: the transport and the Responder's application |
| `SendAppData`, `ReceiveAppData`, `appSent`, `appDelivered` | the Requester's application records, sealed like KEY_UPDATE under its current request key and next sequence number (in the idle and post-ACK phases), and the Responder's record layer delivering them. They interleave with the key updates, so an application record can meet the crossover window |
| `sendSeq`, `recvSeq`, `Opens`, `SendNext`, `RecvNext` | the record layer's per-direction sequence numbers (spec 4.6). A record opens under an accepted key *and* the receiver's next number |

A timeout while the request is still in flight is premature and counts as a fault; a
timeout with nothing in flight is the timer doing its job and is always enabled. The
history variable `lost` records that an in-session record was dropped.

The session-not-Established check (line 72) is kept in `KeyUpdateCheck`, but it cannot
be reached until END_SESSION is modelled. After a fatal DecryptError the session's
records are dropped before they reach the handler.

### `SpdmRecordLayer.tla` and `MCSpdmRecordLayer.tla`

Both directions of an established session. The framing is from
`spdm_secured_message.h` lines 15-63: `AadSize` is session id + sequence number
+ the uint16 length; `CipherBytes` is application_data_length (2) + payload + random
padding + MAC; `Encode` writes both uint16 fields modulo 2^16, as the C structs
would. The record layer that fills them is not under `src/` and is spec-modelled:

| Model | Spec 4.6 |
|-------|----------|
| `SendRecord(d)` | seal under `send_seq`, then increment (modulo 2^`SeqBits`) |
| `SendExhausted(d)` | at the last sequence number the session ends (exhaustion is fatal) |
| `ReceiveRecord(d)` | oversize: MessageTooLarge, no state change; opens under `recv_seq` with a consistent length: deliver and increment; otherwise DecryptError, fatal |
| `LoseRecord`, `ReplayRecord`, `InjectOversized` | the network, bounded by `MaxFaults` |

### `RandPool.tla`

A pool byte is abstracted to where it came from: written by RandGetBytes (`randBytes`)
or never written (`uninitBytes`). `FillLoop` is the RandGetBytes loop as a RECURSIVE
operator. It returns the set of `<<ret, written>>` outcomes over every pattern of
`get_random_number_64` failures. `RandGetBytesSpec` is the reference contract, and
`RandGetBytesCorrect` checks that the two agree for every length up to the pool size.
The OpenSSL pool functions are third-party and are modelled from their contract:
`rand_pool_bytes_needed`, `_add_begin` and `_add`.

### `CryptLib.tla`

The crypto provider as a table of results per entry point. A build is
`[lib: {"mbedtls", "test_size"}, debug: BOOLEAN]`. The stubs under `src/` are one
definition each (`Sha3_256` ... `Shake256` from `sha3.c`, `Sha384Dummy`,
`Sha512Dummy` from `sha512.c`, `HkdfSha256Dummy` ... from `hkdf.c`).
`ASSERT(FALSE)` is `AssertFalse(debug, ret)`: the model value `Abort` in a debug
build, the stub's return value in a release build, where ASSERT expands to nothing.
The implemented SHA-2 and HKDF (not under `src/`) may return TRUE or FALSE, from their
documented `@retval`. `HashOutcomes` and `HkdfOutcomes` give the results of a call per
build and algorithm. `MCSpdmKeyUpdate` uses them for the `KdfOutcomes` constant: the
results `SpdmCreateUpdateSessionDataKey` may return (its HKDF-Expand).

### `SpdmConnection.tla`

The Responder's connection state from NotStarted to Negotiated and beyond (spec 4.7),
the response state, and the negotiated KEY_UPD_CAP. `ReceiveNegotiation(c)` is
GET_VERSION, GET_CAPABILITIES or NEGOTIATE_ALGORITHMS, modelled from spec 4.7 because
the handlers are not under `src/`. In the state that admits it (`AdmittedIn`) the
request advances the connection by one state; elsewhere it is refused with
UnexpectedRequest. GET_CAPABILITIES also fixes whether KEY_UPD_CAP is supported on
both sides; before it the negotiated flags are zero. `KeyUpdateGate` is lines 49-58 of
`SpdmGetResponseKeyUpdate`, in the code's order: the response state, then KEY_UPD_CAP,
then ConnectionState below Negotiated. `ReceiveKeyUpdate` answers with it and changes
nothing. A request that passes all three is "Admitted"; the rest of the handler is
`SpdmKeyUpdate`.

### `CryptValidation.tla`

`validate_crypt_dh`, the three parts of `validate_crypt_ec` and `validate_crypt_prng`
as tables of steps (`New`, `Call`, `Check`, `Free`). Each step records the context
variables it allocates or uses and those its failure path frees, line by line from the
source. One interpreter runs them: a constructor may return NULL, and any call or
comparison may fail. `ctx` tracks each variable as null, live or freed, and `misuse`
records a use after free or a double free.

## 3. Runs

| Run | Expect | What it shows |
|-----|--------|---------------|
| `keyupdate_lossy` | pass | UPDATE_KEY and VERIFY_NEW_KEY with up to 2 lost records or premature timeouts, late ACKs, Busy/NotReady, and two application messages sent before, between and after the updates. An AEAD failure only ever follows a lost record (`NoSpuriousDecryptError`). Once VERIFY_NEW_KEY is acknowledged, the Responder accepts no older request key (`OldKeyRetired`). 56,409 states |
| `keyupdate_all_reliable` | pass | UPDATE_ALL_KEYS as well, with one malformed or cleartext request, over a transport that loses nothing and never times out early. The response-key switch causes no AEAD failure. 2,472 states |
| `keyupdate_all_lost_ack` | violation | UPDATE_ALL_KEYS, then a premature timeout, then the late ACK under the new response key: a DecryptError with no record lost (finding 1) |
| `keyupdate_scratch` | violation | With `ScratchReset = FALSE`, a cleartext UPDATE_KEY that follows secured messages is acknowledged and installs a pending key (finding 5) |
| `keyupdate_kdf_fail` | violation | With the mbedtls HKDF-Expand allowed to fail, UPDATE_KEY is ACKed though no new key was created, and VERIFY_NEW_KEY under the new key fails (finding 3) |
| `recordlayer` | pass | Over a network that may lose, replay or inject one record, with an empty payload and the largest that fits the length field, and 0 or 1 random padding bytes: a DecryptError only follows a lost or replayed record of that direction (`NoSpuriousTermination`). 1,006,884 states |
| `recordlayer_lengthwrap` | violation | A payload of 65,517 bytes with one byte of random padding: the uint16 length wraps to 0 and an honest record ends the session (finding 4) |
| `connection_refusal` | violation | A KEY_UPDATE before GET_CAPABILITIES is answered UnsupportedRequest, where spec 8 property 6 asks for UnexpectedRequest (finding 6) |
| `randpool` | pass | RandGetBytes meets its contract, credited entropy is backed by written bytes, and the pool never exceeds its capacity. 220 states |
| `randpool_nonce` | violation | A failing RNG in `rand_pool_add_nonce_data` puts 16 unwritten stack bytes into the pool (finding 2) |
| `cryptvalidation` | pass | Whichever call of the DH, EC and PRNG validations fails, the routine returns with no live context, and no call or free gets a freed or NULL context. 111 states |

Each property of a passing run has a mutant in `PROJECT.json`: a plausible bug in the
mapped definition (a dropped guard, a key activated early, a length field short by
two bytes) under which TLC finds the property violated.

**Bounds.**

- `MaxUpdates = 3` KEY_UPDATE requests. That allows a full UPDATE + VERIFY cycle plus
  one retry or a second update.
- `MaxFaults = 2` (`keyupdate_lossy`). That allows two premature timeouts with two
  late ACKs in flight, or a timeout and a loss.
- `MaxAppData = 2` (`keyupdate_lossy`): an application record before and one after a
  key change, so one can meet the crossover window.
- `MaxMalformed = 1` (`keyupdate_all_reliable`, `keyupdate_scratch`). One malformed
  request tries each check of the chain, including the cleartext KEY_UPDATE; the 13
  malformed shapes are enumerated. Malformed requests and app data are not combined
  with faults in one run: that instance has 1.3 million states and takes 4.5 minutes.
- Record layer: `SeqBits = 2` (4 sequence numbers, so exhaustion is reached),
  `MaxFaults = 1`. The pass run has payloads of 0 and 65,516 bytes with `MaxRandom = 1`:
  65,516 is the largest payload whose record fits the uint16 length with every padding
  allowed, so the run checks the boundary from below. The violation run goes one byte
  over it (65,517 bytes with one random byte).
- Connection: `MaxRequests = 4`, enough for the three negotiation requests and a
  KEY_UPDATE in any order.
- The pool is 96 bytes with a 256-bit request, 6 calls. That lets an acquisition
  follow a failed one and lets nonces fill the pool to capacity.
- `PrngRounds = 10` is the loop bound of `rand_verify.c:44`.

`CHECK_DEADLOCK FALSE` is set where the bounded client stops. An idle session, or a DRBG
that has stopped calling, is a real terminal state.

**Fairness.** None. Every property checked is a safety property. The KEY_UPDATE
Requester's settlement by answer or timeout depends on a transport timer that is not
under `src/`, so no liveness property is claimed for it.

## 4. Findings

1. **UPDATE_ALL_KEYS does not survive a late ACK.**
   (`SpdmResponderLibKeyUpdate.c:94`; run `keyupdate_all_lost_ack`.) The Responder
   activates its new response key before the ACK is delivered and keeps no fallback.
   The violation needs one more step from the Requester, which is not under `src/`:
   on a timeout it rolls back its pending keys, as a libspdm Requester does for a
   failed KEY_UPDATE. Spec 5 says only that a transport timeout surfaces to the caller
   without changing protocol state. Once the Requester has rolled back, every later
   response fails AEAD. No record needs to be lost. UPDATE_KEY alone survives the same
   premature timeouts (`keyupdate_lossy` passes). This is exactly the rotation that
   spec 9 lists as an open question.
2. **Uninitialized stack bytes enter the DRBG pool.** (`rand_pool.c:114`, also `:130`;
   run `randpool_nonce`.) The nonce and additional-data helpers ignore RandGetBytes'
   FALSE and add the whole buffer anyway.
3. **UPDATE_KEY is ACKed when no new key was created.**
   (`SpdmResponderLibKeyUpdate.c:85`; run `keyupdate_kdf_fail`.) The handler discards the
   status of `SpdmCreateUpdateSessionDataKey`. When its HKDF-Expand fails (an mbedtls
   build may fail; a release size-test build always does), the Responder still sends
   KEY_UPDATE_ACK. The Requester then switches to a key the Responder does not hold.
4. **A full-size record wraps the length field.** (`spdm_secured_message.h:58`; run
   `recordlayer_lengthwrap`.) `length` is a uint16 covering application_data_length,
   payload, 0-32 random bytes and the MAC. The spec bounds only the message, so a
   payload near 64 KiB plus padding wraps it, and the receiver's check fails on an
   honest record.
5. **Whether a KEY_UPDATE is in the session hangs on a scratch flag the spec
   describes two ways.** (`SpdmResponderLibKeyUpdate.c:61`; run `keyupdate_scratch`.)
   The handler trusts `LastSpdmRequestSessionIdValid`, left by the dispatcher. Spec
   section 3 (spec.md line 42) calls it "monotonically bumped" and spec 9 calls it "a
   transient hand-off". Under the first reading, a KEY_UPDATE sent in the clear after
   any secured message passes the check and rekeys the session; with UPDATE_ALL_KEYS it
   switches the response key.
6. **A KEY_UPDATE before negotiation is refused with the wrong code.**
   (`SpdmResponderLibKeyUpdate.c:52`; run `connection_refusal`.) The handler tests
   KEY_UPD_CAP (line 52) before ConnectionState (line 56). Before GET_CAPABILITIES the
   negotiated flags are zero, so a KEY_UPDATE in NotStarted or AfterVersion gets
   ERROR(UnsupportedRequest). Spec 4.7 and spec 8 property 6 say that a request the
   state does not admit gets ERROR(UnexpectedRequest).

## 5. Not modelled, and why

Modelled: the KEY_UPDATE handler with the key slots, the sequence-number rule, the
Requester and application data; the handler's first checks against the connection
states; the record-layer framing; the crypto provider (`CryptLib`, with the KEY_UPDATE
Create status); the rand_pool shim; and the validation routines. The lines of `src/`
left out are license headers, declarations, layouts, and the parts listed below.

Not modelled, with the reason:

1. **Session state machine (KEY_EXCHANGE/FINISH, PSK, END_SESSION), transcript manager
   and key schedule.** None of it is under `src/`; only the crypto stubs it would call
   are, and their results are in `CryptLib`. A model of the caller would check only its
   own reading of the spec. In the Responder, END_SESSION is one handler call: it moves
   the session to Terminating, sends the ACK and drops the session. So the handler's
   not-Established branch (line 72) stays unreachable.
2. **The rest of the connection state machine** (DIGESTS, CERTIFICATE, CHALLENGE,
   MEASUREMENTS, version and algorithm selection). Not under `src/`, and the KEY_UPDATE
   handler only compares the state with Negotiated.
3. **The unit-test and fuzzing context setup** (`common.c`, both harnesses). Each
   function is one assignment, `malloc` or `free`. The order they run in comes from the
   cmocka runner and the test mains, which are not in the repository. A model of them
   would restate those lines.

Left out entirely:

- byte-level codec, hex dump and file I/O;
- the liboqs configuration;
- the internals of the primitives;
- the opaque-data structs of `spdm_secured_message.h` (lines 65-119): codec layout;
- `TimeClockDummy.c`: `ASSERT(FALSE)` stubs nothing in `src/` calls;
- the empty `init`, `cleanup` and `keep_random_devices_open` of `rand_pool.c`: they
  keep no state and always succeed.
