---------------------------- MODULE ServerRoundsMC ----------------------------
(***************************************************************************)
(* An instance of ServerRounds: a short interval, a long one with back-off, *)
(* and the long one paused.                                                *)
(***************************************************************************)
EXTENDS ServerRounds, TLC

Short  == [interval |-> 1, ceiling |-> 0, paused |-> FALSE]
Long   == [interval |-> 2, ceiling |-> 5, paused |-> FALSE]
Paused == [interval |-> 2, ceiling |-> 5, paused |-> TRUE]

SomeConfigs == {Short, Long, Paused}

ASSUME BackoffBounded == \A c \in SomeConfigs : BackoffIsBounded(c)

Symmetry == Permutations(Addresses)

=============================================================================
