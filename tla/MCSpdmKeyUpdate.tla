-------------------------- MODULE MCSpdmKeyUpdate --------------------------
(* Instances of SpdmKeyUpdate for TLC.                                     *)
EXTENDS SpdmKeyUpdate

CONSTANT Abort

Provider == INSTANCE CryptLib

\* UPDATE_KEY only: the Responder never rotates its own response key.
OpsUpdateKey == {UPDATE_KEY}
\* Both operations the Requester can start.
OpsAll == {UPDATE_KEY, UPDATE_ALL_KEYS}

\* A Responder whose HKDF-Expand always succeeds.
KdfNeverFails == {TRUE}
\* The Responder's HKDF-Expand as a release build over mbedtls provides it
\* for the suite of scenario S1 (HKDF-SHA-384): TRUE, or FALSE when it
\* fails.
KdfMbedtls ==
  Provider!HkdfOutcomes([lib |-> "mbedtls", debug |-> FALSE], "SHA_384", "expand")
=============================================================================
