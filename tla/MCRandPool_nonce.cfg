\* A failing get_random_number_64 during rand_pool_add_nonce_data.
CONSTANTS
  EntropyRequested = 256
  MaxLen = 64
  MaxCalls = 2
SPECIFICATION Spec
CHECK_DEADLOCK FALSE
INVARIANT
  NoUninitializedInPool
