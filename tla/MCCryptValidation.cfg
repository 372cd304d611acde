\* validate_crypt_dh, validate_crypt_ec and validate_crypt_prng against a
\* provider any call of which may fail.
SPECIFICATION Spec
\* A routine that has returned takes no further step.
CHECK_DEADLOCK FALSE
INVARIANTS
  NoLeakOnReturn
  NoContextMisuse
