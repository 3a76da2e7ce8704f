--------------------------- MODULE MCProviderCalls ---------------------------
(***************************************************************************)
(* Three callers of a provider whose breaker opens at the second failure.  *)
(***************************************************************************)
EXTENDS ProviderCalls
=============================================================================
