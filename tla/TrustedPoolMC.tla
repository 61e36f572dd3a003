---------------------------- MODULE TrustedPoolMC ----------------------------
(* An instance of TrustedPool with symmetric workers and addresses.        *)
EXTENDS TrustedPool, TLC

Symmetry == Permutations(Threads) \cup Permutations(Addresses)

=============================================================================
