-------------------------- MODULE CryptValidation --------------------------
(***************************************************************************)
(* The crypto validation tests of src/libspdm/unit_test/test_crypt:        *)
(* validate_crypt_dh (dh_verify.c), validate_crypt_ec (ec_verify.c) and    *)
(* validate_crypt_prng (rand_verify.c).                                    *)
(*                                                                         *)
(* Each routine is a straight line of provider calls; after each call it   *)
(* checks the result and on failure frees the contexts it holds and        *)
(* returns RETURN_ABORTED.  A routine is translated into the table of its  *)
(* steps: which context variable a step allocates, uses or frees, and      *)
(* which ones its failure path frees.  The provider (the dh, ec, ecdsa    *)
(* and random entry points) is not under src/: from its contract, a       *)
(* constructor may return NULL and every other call may return FALSE.  A  *)
(* comparison of two results may fail too.  Buffers and key bytes are not *)
(* modelled.                                                               *)
(***************************************************************************)
EXTENDS Naturals, Sequences

\* The context variables of the routines (dh1, dh2, ec1, ec2).
Ctxs == {"dh1", "dh2", "ec1", "ec2"}

\* A step: what it does ("new", "call", "check" or "free"), the context
\* variables it allocates, uses or frees, and those its failure path frees.
New(c, frees)   == [op |-> "new",   ctx |-> {c}, frees |-> frees]
Call(c, frees)  == [op |-> "call",  ctx |-> {c}, frees |-> frees]
Check(frees)    == [op |-> "check", ctx |-> {},  frees |-> frees]
Free(cs)        == [op |-> "free",  ctx |-> cs,  frees |-> {}]
\* A call that takes no context (random_seed, random_bytes).
CallNoCtx       == [op |-> "call",  ctx |-> {},  frees |-> {}]

DH == {"dh1", "dh2"}
EC == {"ec1", "ec2"}

\* Faulty variant: the failure path of dh_compute_key (dh1) frees dh1 only.
DhVerifyLeak ==
  << New("dh1", {}), New("dh2", {"dh1"}), Call("dh1", DH), Call("dh2", DH),
     Call("dh1", {"dh1"}), Call("dh2", DH), Check(DH), Check(DH), Free(DH) >>

\* validate_crypt_dh: two FFDHE2048 contexts, generate and compute a key on
\* each, compare the lengths and the keys, free both.
DhVerify ==
  << New("dh1", {}), New("dh2", {"dh1"}), Call("dh1", DH), Call("dh2", DH),
     Call("dh1", DH), Call("dh2", DH), Check(DH), Check(DH), Free(DH) >>

\* validate_crypt_ec, EC-DH part: two P-256 contexts, generate and compute
\* a key on each, compare lengths and keys, free both.
EcDhPart ==
  << New("ec1", {}), New("ec2", {"ec1"}), Call("ec1", EC), Call("ec2", EC),
     Call("ec1", EC), Call("ec2", EC), Check(EC), Check(EC), Free(EC) >>

\* Faulty variant: the EC-DSA part reusing ec1 without creating it again.
EcDsaPartNoRenew ==
  << New("ec2", {"ec1"}), Call("ec1", EC), Call("ec2", EC),
     Call("ec1", EC), Call("ec1", EC), Call("ec2", EC), Call("ec2", EC),
     Free(EC) >>

\* validate_crypt_ec, EC-DSA part: fresh P-256 and P-521 contexts, a key
\* on each, sign and verify with ec1, then with ec2, free both.
EcDsaPart ==
  << New("ec1", {}), New("ec2", {"ec1"}), Call("ec1", EC), Call("ec2", EC),
     Call("ec1", EC), Call("ec1", EC), Call("ec2", EC), Call("ec2", EC),
     Free(EC) >>

\* validate_crypt_ec, public-key part: fresh P-256 contexts, a key on ec1,
\* its public key read and set into ec2, sign with ec1 and verify with ec2,
\* free both.
EcPubKeyPart ==
  << New("ec1", {}), New("ec2", {"ec1"}), Call("ec1", EC), Call("ec1", EC),
     Call("ec2", EC), Call("ec1", EC), Call("ec2", EC), Free(EC) >>

EcVerify == EcDhPart \o EcDsaPart \o EcPubKeyPart

\* validate_crypt_prng: random_seed, then PrngRounds times random_bytes and
\* a comparison with the previous output.
PrngRounds == 10
PrngVerify ==
  <<CallNoCtx>> \o
  [i \in 1..2 * PrngRounds |-> IF i % 2 = 1 THEN CallNoCtx ELSE Check({})]

Routines == [dh |-> DhVerify, ec |-> EcVerify, prng |-> PrngVerify]

VARIABLES
  test,     \* the routine running
  pc,       \* index of its next step
  ctx,      \* [Ctxs -> "null", "live" or "freed"]: what each variable holds
  result,   \* "running", "RETURN_SUCCESS" or "RETURN_ABORTED"
  misuse    \* history: "UseAfterFree", "DoubleFree" seen so far

vars == <<test, pc, ctx, result, misuse>>

-----------------------------------------------------------------------------
StepAt == Routines[test][pc]

\* ctx after freeing the variables in cs, and what that free misuses: a
\* free of NULL does nothing, a second free of a freed context is a
\* double free.
Freed(cs) == [c \in Ctxs |-> IF c \in cs /\ ctx[c] = "live" THEN "freed" ELSE ctx[c]]
FreeMisuse(cs) == IF \E c \in cs : ctx[c] = "freed" THEN {"DoubleFree"} ELSE {}

\* Move past a step that succeeded; the routine returns RETURN_SUCCESS
\* after its last step.
Advance ==
  /\ pc' = pc + 1
  /\ result' = IF pc = Len(Routines[test]) THEN "RETURN_SUCCESS" ELSE result

\* The failure path of step s, the call having left the variables as c2
\* and misused what is in used: free its contexts, return RETURN_ABORTED.
FailPath(s, c2, used) ==
  /\ ctx' = [c \in Ctxs |-> IF c \in s.frees /\ c2[c] = "live" THEN "freed" ELSE c2[c]]
  /\ result' = "RETURN_ABORTED"
  /\ misuse' = misuse \cup used \cup
               (IF \E c \in s.frees : c2[c] = "freed" THEN {"DoubleFree"} ELSE {})
  /\ UNCHANGED pc

\* x_new_by_nid: the variable holds a new context, or NULL.
NewStep ==
  /\ result = "running" /\ StepAt.op = "new"
  /\ LET c == CHOOSE v \in StepAt.ctx : TRUE IN
     \/ /\ ctx' = [ctx EXCEPT ![c] = "live"] /\ Advance /\ UNCHANGED misuse
     \/ FailPath(StepAt, [ctx EXCEPT ![c] = "null"], {})
  /\ UNCHANGED test

\* A provider call on a context: a call on a freed context or on NULL is a
\* use after free.
CallStep ==
  /\ result = "running" /\ StepAt.op = "call"
  /\ LET used == IF \E c \in StepAt.ctx : ctx[c] # "live" THEN {"UseAfterFree"} ELSE {}
     IN \/ /\ Advance /\ misuse' = misuse \cup used /\ UNCHANGED ctx
        \/ FailPath(StepAt, ctx, used)
  /\ UNCHANGED test

\* A comparison of two results (lengths, key bytes, random buffers).
CheckStep ==
  /\ result = "running" /\ StepAt.op = "check"
  /\ \/ Advance /\ UNCHANGED <<ctx, misuse>>
     \/ FailPath(StepAt, ctx, {})
  /\ UNCHANGED test

\* x_free of the contexts the routine holds.
FreeStep ==
  /\ result = "running" /\ StepAt.op = "free"
  /\ ctx' = Freed(StepAt.ctx)
  /\ misuse' = misuse \cup FreeMisuse(StepAt.ctx)
  /\ Advance
  /\ UNCHANGED test

Init ==
  /\ test \in DOMAIN Routines
  /\ pc = 1
  /\ ctx = [c \in Ctxs |-> "null"]
  /\ result = "running"
  /\ misuse = {}

Next == NewStep \/ CallStep \/ CheckStep \/ FreeStep

Spec == Init /\ [][Next]_vars

-----------------------------------------------------------------------------
(* Properties.                                                             *)

\* Every variable holds a value of its type.
TypeOK ==
  /\ test \in DOMAIN Routines /\ pc \in 1..Len(Routines[test]) + 1
  /\ ctx \in [Ctxs -> {"null", "live", "freed"}]
  /\ result \in {"running", "RETURN_SUCCESS", "RETURN_ABORTED"}
  /\ misuse \subseteq {"UseAfterFree", "DoubleFree"}

\* Whichever provider call fails, a routine that returns (RETURN_SUCCESS
\* or any of its RETURN_ABORTED paths) has freed every context it created.
NoLeakOnReturn ==
  result # "running" => \A c \in Ctxs : ctx[c] # "live"

\* No provider call and no free ever gets a context that was freed before,
\* or NULL from a failed constructor; ec1 and ec2 are reused across the
\* three parts of validate_crypt_ec.
NoContextMisuse == misuse = {}
=============================================================================
