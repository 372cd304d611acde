------------------------- MODULE MCCryptValidation -------------------------
(* The crypto validation routines for TLC; Init picks the routine.         *)
EXTENDS CryptValidation
=============================================================================
