------------------------------- MODULE MCSieve -------------------------------
(* Small instances of the sieve.                                           *)
EXTENDS Sieve
=============================================================================
