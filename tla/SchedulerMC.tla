---------------------------- MODULE SchedulerMC ----------------------------
(* Instances of Scheduler small enough for TLC.                            *)
EXTENDS Scheduler, TLC

\* Servers and handlers are interchangeable in every safety property.
Symmetry == Permutations(Servers) \cup Permutations(Handlers)

=============================================================================
