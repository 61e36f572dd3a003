------------------------------ MODULE SlotPool ------------------------------
(***************************************************************************)
(* What the probe gate promises: at most limit probes at a time, at most   *)
(* one of each server, the limit replaced at any moment.  Lowering it takes *)
(* no slot back: the probes that run go on, and none begins until enough of *)
(* them have ended.                                                        *)
(***************************************************************************)
EXTENDS Integers, FiniteSets

CONSTANTS Threads, Servers, NoServer

VARIABLES
  limit,  \* the number of slots
  probes  \* the server each thread probes, or NoServer

slotVars == <<limit, probes>>

Holders == {t \in Threads : probes[t] # NoServer}

Init ==
  /\ limit \in Nat
  /\ probes = [t \in Threads |-> NoServer]

Take(t, s) ==
  /\ probes[t] = NoServer
  /\ Cardinality(Holders) < limit
  /\ \A u \in Threads : probes[u] # s
  /\ probes' = [probes EXCEPT ![t] = s]
  /\ UNCHANGED limit

Give(t) ==
  /\ probes[t] # NoServer
  /\ probes' = [probes EXCEPT ![t] = NoServer]
  /\ UNCHANGED limit

SetLimit ==
  /\ limit' \in Nat
  /\ UNCHANGED probes

Next ==
  \/ \E t \in Threads : Give(t) \/ \E s \in Servers : Take(t, s)
  \/ SetLimit

Spec == Init /\ [][Next]_slotVars

=============================================================================
