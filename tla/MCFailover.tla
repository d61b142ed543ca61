----------------------------- MODULE MCFailover -----------------------------
(* The bounds of Failover; ZipArchive, ProviderErrors and Settings come with it,  *)
(* for TLC to evaluate their assumptions.                                         *)
EXTENDS Failover, ZipArchive, ProviderErrors, Settings

\* Both set, or neither.
ClientSetsBoth == {[retries |-> 0, timed |-> FALSE], [retries |-> MaxRetries, timed |-> TRUE]}
CallSetsBoth == {[retries |-> Unset, timed |-> FALSE], [retries |-> MaxRetries, timed |-> TRUE]}
=============================================================================
