------------------------------ MODULE CryptLib ------------------------------
(***************************************************************************)
(* The crypto provider (spec component C1) as the SPDM code sees it: for   *)
(* each entry point, the set of results a call can return.                 *)
(*                                                                         *)
(* Two cryptlib builds have entry points under src/:                       *)
(*   "mbedtls"   src/libspdm/os_stub/cryptlib_mbedtls: its SHA3-256/384/   *)
(*               512 and SHAKE256 wrappers (hash/sha3.c) are stubs that    *)
(*               return 0 or FALSE and write nothing;                      *)
(*   "test_size" src/libspdm/unit_test/test_size/cryptlib_dummy: its       *)
(*               SHA-384/512 (hash/sha512.c) and HKDF (kdf/hkdf.c) entry   *)
(*               points execute ASSERT(FALSE) and then return 0 or FALSE. *)
(* The entry points the mbedtls build does implement (SHA-2, HKDF) are not *)
(* under src/; they are modelled from their documented contract (the      *)
(* @retval lines the stubs share): TRUE, or FALSE when generation failed.  *)
(*                                                                         *)
(* A digest or a derived key is not modelled as bytes: a caller only needs *)
(* to know whether the call wrote its output.                              *)
(***************************************************************************)
EXTENDS Naturals

CONSTANT
  Abort   \* model value: the result of a call that stops the program at
          \* ASSERT(FALSE)

\* A build: the cryptlib it links, and whether it is a debug build (ASSERT
\* checks its condition and stops the program) or a release build (ASSERT
\* expands to nothing).
Libs   == {"mbedtls", "test_size"}
Builds == [lib : Libs, debug : BOOLEAN]

\* Hash algorithms (base hash of the negotiated suite, spec section 3) and
\* the entry points of each.
Sha2Algs   == {"SHA_384", "SHA_512"}
Sha3Algs   == {"SHA3_256", "SHA3_384", "SHA3_512", "SHAKE256"}
HashAlgs   == Sha2Algs \cup Sha3Algs
HashFunctions == {"get_context_size", "init", "duplicate", "update", "final",
                  "hash_all"}
\* HKDF comes in the SHA-2 variants only (spec section 6).
HkdfAlgs      == {"SHA_256", "SHA_384", "SHA_512"}
HkdfFunctions == {"extract_and_expand", "extract", "expand"}

\* ASSERT(FALSE) followed by "return ret", in a debug build or not.
AssertFalse(debug, ret) == IF debug THEN Abort ELSE ret

\* What an entry point that is not supported returns: a context size of 0,
\* FALSE for everything else.
Unsupported(fn) == IF fn = "get_context_size" THEN 0 ELSE FALSE

\* The context size an implemented hash reports (any nonzero size will do).
ContextSize == 1

-----------------------------------------------------------------------------
(* The entry points under src/, one definition per algorithm.              *)

\* sha3.c, sha3_256_*: no SHA3-256 in this build.
Sha3_256 == [fn \in HashFunctions |-> Unsupported(fn)]

\* sha3.c, sha3_384_*.
Sha3_384 == [fn \in HashFunctions |-> Unsupported(fn)]

\* sha3.c, sha3_512_*.
Sha3_512 == [fn \in HashFunctions |-> Unsupported(fn)]

\* sha3.c, shake256_*.
Shake256 == [fn \in HashFunctions |-> Unsupported(fn)]

\* cryptlib_dummy sha512.c, sha384_*: ASSERT(FALSE), then 0 or FALSE.
Sha384Dummy(debug) == [fn \in HashFunctions |-> AssertFalse(debug, Unsupported(fn))]

\* cryptlib_dummy sha512.c, sha512_*.
Sha512Dummy(debug) == [fn \in HashFunctions |-> AssertFalse(debug, Unsupported(fn))]

\* cryptlib_dummy hkdf.c, hkdf_sha256_*: ASSERT(FALSE), then FALSE.
HkdfSha256Dummy(debug) == [fn \in HkdfFunctions |-> AssertFalse(debug, FALSE)]

\* cryptlib_dummy hkdf.c, hkdf_sha384_*.
HkdfSha384Dummy(debug) == [fn \in HkdfFunctions |-> AssertFalse(debug, FALSE)]

\* cryptlib_dummy hkdf.c, hkdf_sha512_*.
HkdfSha512Dummy(debug) == [fn \in HkdfFunctions |-> AssertFalse(debug, FALSE)]

-----------------------------------------------------------------------------
(* The provider each build links.                                          *)

\* An implemented hash or HKDF entry point, from its contract: it may fail.
ImplementedHash(fn) == IF fn = "get_context_size" THEN {ContextSize} ELSE BOOLEAN
ImplementedHkdf(fn) == BOOLEAN

\* The results a call of hash entry point fn of alg can return in build b.
HashOutcomes(b, alg, fn) ==
  CASE alg = "SHA3_256" -> {Sha3_256[fn]}
    [] alg = "SHA3_384" -> {Sha3_384[fn]}
    [] alg = "SHA3_512" -> {Sha3_512[fn]}
    [] alg = "SHAKE256" -> {Shake256[fn]}
    [] b.lib = "test_size" /\ alg = "SHA_384" -> {Sha384Dummy(b.debug)[fn]}
    [] b.lib = "test_size" /\ alg = "SHA_512" -> {Sha512Dummy(b.debug)[fn]}
    [] OTHER -> ImplementedHash(fn)

\* The results a call of HKDF entry point fn of alg can return in build b;
\* there is no HKDF over a hash outside HkdfAlgs, so the call fails.
HkdfOutcomes(b, alg, fn) ==
  CASE alg \notin HkdfAlgs -> {FALSE}
    [] b.lib = "test_size" /\ alg = "SHA_256" -> {HkdfSha256Dummy(b.debug)[fn]}
    [] b.lib = "test_size" /\ alg = "SHA_384" -> {HkdfSha384Dummy(b.debug)[fn]}
    [] b.lib = "test_size" /\ alg = "SHA_512" -> {HkdfSha512Dummy(b.debug)[fn]}
    [] OTHER -> ImplementedHkdf(fn)
=============================================================================
