---------------------------- MODULE WebConfigMC -----------------------------
(* Instances of WebConfig small enough for TLC.                            *)
EXTENDS WebConfig, TLC

CONSTANTS c1, c2, raw, blank

MCConfigs == {c1, c2}
MCDrafts == {c1, c2, raw, blank}
\* raw is a spelling of c2 that the server normalises.
MCCanon == c1 :> c1 @@ c2 :> c2 @@ raw :> c2

=============================================================================
