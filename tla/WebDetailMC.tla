---------------------------- MODULE WebDetailMC -----------------------------
(* Instances of WebDetail small enough for TLC.                            *)
EXTENDS WebDetail

CONSTANTS s1, s2

MCServers == {s1, s2}
MCMaxProbes == [s \in MCServers |-> IF s = s1 THEN 2 ELSE 1]

=============================================================================
