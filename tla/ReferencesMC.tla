---------------------------- MODULE ReferencesMC ----------------------------
(* An instance of References.  Its liveness rules out symmetry.            *)
EXTENDS References

=============================================================================
