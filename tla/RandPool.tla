------------------------------ MODULE RandPool ------------------------------
(***************************************************************************)
(* The OpenSSL entropy-pool shim of src/libspdm/os_stub/openssllib/        *)
(* rand_pool.c: RandGetBytes fills a buffer from get_random_number_64 in   *)
(* 8-byte chunks, and OpenSSL's DRBG calls rand_pool_acquire_entropy,      *)
(* rand_pool_add_nonce_data and rand_pool_add_additional_data to feed its  *)
(* pool.                                                                   *)
(*                                                                         *)
(* A byte is abstracted to where it came from: a random byte written by    *)
(* RandGetBytes, or a byte of the caller's buffer that it never wrote      *)
(* (uninitialized stack memory for the 16-byte nonce buffers).  The        *)
(* OpenSSL pool (rand_pool_bytes_needed, _add_begin, _add_end, _add) is    *)
(* bundled third-party code and is modelled from its interface contract.   *)
(***************************************************************************)
EXTENDS Naturals

CONSTANTS
  EntropyRequested,  \* bits of entropy the DRBG asks the pool for
  MaxLen,            \* capacity of the pool in bytes
  MaxCalls           \* bound on the calls the DRBG makes into the shim

ASSUME EntropyRequested \in Nat /\ MaxLen \in Nat /\ MaxCalls \in Nat

\* sizeof (uint64) and sizeof (data) in the nonce / additional-data helpers.
WordSize  == 8
NonceSize == 16

VARIABLES
  randBytes,    \* pool bytes written by RandGetBytes
  uninitBytes,  \* pool bytes RandGetBytes never wrote
  entropy,      \* entropy credited to the pool, in bits
  calls         \* calls made into the shim so far

vars == <<randBytes, uninitBytes, entropy, calls>>

-----------------------------------------------------------------------------
(* RandGetBytes (rand_pool.c 28-66).                                       *)

\* Faulty variant: the last partial word copied whole.
RECURSIVE FillLoopWholeTail(_, _)
FillLoopWholeTail(length, ret) ==
  IF length = 0 THEN {<<ret, 0>>}
  ELSE {<<FALSE, 0>>}
       \cup (IF length >= WordSize
             THEN {<<r[1], WordSize + r[2]>> : r \in FillLoopWholeTail(length - WordSize, TRUE)}
             ELSE {<<TRUE, WordSize>>})

\* The outcomes <<ret, written>> of the loop from a remaining length and the
\* current value of ret: each get_random_number_64 may fail, which returns
\* FALSE with the chunks written so far; a full word is copied while
\* length >= 8, a last partial word ends the loop.
RECURSIVE FillLoop(_, _)
FillLoop(length, ret) ==
  IF length = 0 THEN {<<ret, 0>>}
  ELSE {<<FALSE, 0>>}
       \cup (IF length >= WordSize
             THEN {<<r[1], WordSize + r[2]>> : r \in FillLoop(length - WordSize, TRUE)}
             ELSE {<<TRUE, length>>})

\* ret starts FALSE, so a zero-length request reports failure.
RandGetBytes(length) == FillLoop(length, FALSE)

\* Reference: what RandGetBytes promises, stated without the loop.  It
\* writes a prefix of the buffer made of whole words, plus the tail only
\* when it succeeds; it succeeds exactly when the whole buffer is written
\* and the buffer is not empty.
RandGetBytesSpec(length) ==
  {<<ret, w>> \in BOOLEAN \X (0..length) :
     /\ ret <=> (w = length /\ length > 0)
     /\ (w = length) \/ (w % WordSize = 0)}

-----------------------------------------------------------------------------
(* The OpenSSL pool, from its interface contract.                          *)

PoolLen == randBytes + uninitBytes

\* rand_pool_entropy_needed, in bits.
EntropyNeeded == IF entropy < EntropyRequested THEN EntropyRequested - entropy ELSE 0

\* rand_pool_bytes_needed(pool, 1): the bytes that carry the missing
\* entropy at one bit per bit, or 0 when they do not fit in the pool.
RandPoolBytesNeeded ==
  LET n == (EntropyNeeded + 7) \div 8
  IN IF n > MaxLen - PoolLen THEN 0 ELSE n

\* rand_pool_add_begin returns NULL when len bytes do not fit.
RandPoolAddBeginOk(len) == len <= MaxLen - PoolLen

\* Faulty variant: the buffer added without checking the room left.
RandPoolAddBufferUnchecked(w) ==
  /\ randBytes' = randBytes + w
  /\ uninitBytes' = uninitBytes + (NonceSize - w)

\* rand_pool_add(pool, data, NonceSize, 0) of a buffer whose first w bytes
\* RandGetBytes wrote: fails (returns 0) when the pool has no room.
RandPoolAddBuffer(w) ==
  IF RandPoolAddBeginOk(NonceSize)
  THEN /\ randBytes' = randBytes + w
       /\ uninitBytes' = uninitBytes + (NonceSize - w)
  ELSE UNCHANGED <<randBytes, uninitBytes>>

-----------------------------------------------------------------------------
(* The shim's entry points, each one step of the DRBG.                     *)

\* Faulty variant: the bytes credited whatever RandGetBytes returned.
RandPoolAcquireEntropyUnchecked ==
  /\ calls < MaxCalls
  /\ LET needed == RandPoolBytesNeeded IN
     IF needed > 0 /\ RandPoolAddBeginOk(needed)
     THEN \E o \in RandGetBytes(needed) :
            /\ randBytes' = randBytes + o[2]
            /\ entropy' = entropy + 8 * needed
            /\ UNCHANGED uninitBytes
     ELSE UNCHANGED <<randBytes, uninitBytes, entropy>>
  /\ calls' = calls + 1

\* rand_pool_acquire_entropy: ask RandGetBytes for the bytes needed straight
\* into the pool; credit them (8 bits a byte) only when it succeeded.
RandPoolAcquireEntropy ==
  /\ calls < MaxCalls
  /\ LET needed == RandPoolBytesNeeded IN
     IF needed > 0 /\ RandPoolAddBeginOk(needed)
     THEN \E o \in RandGetBytes(needed) :
            IF ~o[1]
            THEN UNCHANGED <<randBytes, uninitBytes, entropy>>
            ELSE /\ randBytes' = randBytes + needed
                 /\ entropy' = entropy + 8 * needed
                 /\ UNCHANGED uninitBytes
     ELSE UNCHANGED <<randBytes, uninitBytes, entropy>>
  /\ calls' = calls + 1

\* rand_pool_add_nonce_data: fill a 16-byte stack buffer and add it to the
\* pool with no entropy credit; the result of RandGetBytes is not checked.
RandPoolAddNonceData ==
  /\ calls < MaxCalls
  /\ \E o \in RandGetBytes(NonceSize) : RandPoolAddBuffer(o[2])
  /\ UNCHANGED entropy
  /\ calls' = calls + 1

\* rand_pool_add_additional_data: the same as the nonce helper.
RandPoolAddAdditionalData ==
  /\ calls < MaxCalls
  /\ \E o \in RandGetBytes(NonceSize) : RandPoolAddBuffer(o[2])
  /\ UNCHANGED entropy
  /\ calls' = calls + 1

Init ==
  /\ randBytes = 0 /\ uninitBytes = 0 /\ entropy = 0 /\ calls = 0

Next ==
  \/ RandPoolAcquireEntropy
  \/ RandPoolAddNonceData
  \/ RandPoolAddAdditionalData

Spec == Init /\ [][Next]_vars

-----------------------------------------------------------------------------
(* Properties.                                                             *)

\* Every variable holds a value of its type; the pool never holds more than
\* its capacity.
TypeOK ==
  /\ randBytes \in 0..MaxLen /\ uninitBytes \in 0..MaxLen
  /\ entropy \in Nat /\ calls \in 0..MaxCalls
  /\ PoolLen <= MaxLen

\* RandGetBytes, for every length the pool can still ask for (the room left
\* in it), returns exactly the outcomes its contract allows: TRUE only with
\* the whole buffer written, and never more bytes than asked for.
RandGetBytesCorrect ==
  \A len \in 0..(MaxLen - PoolLen) : RandGetBytes(len) = RandGetBytesSpec(len)

\* The entropy rand_pool_acquire_entropy credits is backed by random bytes
\* actually written into the pool: a failed RandGetBytes credits nothing.
EntropyBacked == entropy <= 8 * randBytes

\* No byte RandGetBytes failed to write ever reaches the pool (the comment
\* in RandGetBytes: without random numbers "your system is not secure").
NoUninitializedInPool == uninitBytes = 0
=============================================================================
