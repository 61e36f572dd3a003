---------------------------- MODULE ProbeGateMC ----------------------------
(* The instance of ProbeGate that TLC checks: three workers of Run, fewer  *)
(* servers than workers, and a limit that is lowered below what runs.      *)
EXTENDS ProbeGate

GateThreads == 1..3
GateServers == 1..2

=============================================================================
