---------------------------- MODULE WebRefreshMC ----------------------------
(* Instances of WebRefresh small enough for TLC.                           *)
EXTENDS WebRefresh

=============================================================================
