--------------------------- MODULE ProbeGateProofs ---------------------------
(***************************************************************************)
(* Theorems about ProbeGate, for every set of threads and servers and      *)
(* every concurrency: the counters are exact, no signal is lost, and the   *)
(* gate implements SlotPool.                                               *)
(***************************************************************************)
EXTENDS ProbeGate, FiniteSetTheorems, TLAPS

\* A thread inside lookup wants a server.
WantsServer == \A t \in Threads : pc[t] # "idle" => want[t] \in Servers

\* The invariant: besides the properties, the type of active follows from
\* its being the number of the threads that probe.
GateInv == TypeOK /\ WantsServer /\ SlotsExact /\ NoLostSignal

LEMMA ProbingFinite ==
  ASSUME NEW T \in SUBSET Threads
  PROVE  IsFiniteSet(T) /\ Cardinality(T) \in Nat
BY GateAssumption, FS_Subset, FS_CardinalityType

LEMMA InitGateInv == Init => GateInv
<1> SUFFICES ASSUME Init PROVE GateInv
  OBVIOUS
<1>1. TypeOK
  BY GateAssumption DEF Init, TypeOK, GatePC
<1>2. Probing = {}
  BY DEF Init, Probing
<1>3. SlotsExact
  BY <1>2, FS_EmptySet DEF Init, SlotsExact
<1>4. WantsServer /\ NoLostSignal
  BY DEF Init, WantsServer, NoLostSignal
<1>5. QED
  BY <1>1, <1>3, <1>4 DEF GateInv

\* A step that takes and gives back no slot keeps SlotsExact.
LEMMA SameSlots ==
  ASSUME SlotsExact, Probing' = Probing, UNCHANGED gateVars,
         \A t \in Probing : want'[t] = want[t]
  PROVE  SlotsExact'
BY DEF SlotsExact, gateVars

LEMMA SignalledType ==
  ASSUME TypeOK
  PROVE  /\ Signalled \in [Threads -> GatePC]
         /\ \A t \in Threads : /\ Signalled[t] # "blocked"
                               /\ pc[t] # "blocked" => Signalled[t] = pc[t]
                               /\ pc[t] = "blocked" => Signalled[t] = "acquire"
BY DEF Signalled, TypeOK, GatePC

LEMMA AcquireSlotInv ==
  ASSUME GateInv, NEW t \in Threads, AcquireSlot(t)
  PROVE  GateInv'
<1> DEFINE s == want[t]
<1>1. /\ pc[t] = "acquire" /\ s \in Servers /\ s \notin busy /\ concurrency # 0
      /\ active' = active + 1 /\ busy' = busy \cup {s}
      /\ pc' = [pc EXCEPT ![t] = "probing"]
      /\ UNCHANGED <<concurrency, want, cancelled, left, edits>>
  BY DEF AcquireSlot, Free, GateInv, WantsServer
<1>2. pc \in [Threads -> GatePC] /\ t \notin Probing
  BY <1>1 DEF GateInv, TypeOK, Probing
<1>3. Probing' = Probing \cup {t}
  BY <1>1, <1>2 DEF Probing
<1>4. Cardinality(Probing \cup {t}) = Cardinality(Probing) + 1
  BY <1>2, ProbingFinite, FS_AddElement DEF Probing
<1>5. SlotsExact'
  <2>1. active' = Cardinality(Probing')
    BY <1>1, <1>3, <1>4 DEF GateInv, SlotsExact
  <2>2. busy' = {want'[u] : u \in Probing'}
    BY <1>1, <1>3 DEF GateInv, SlotsExact
  <2>3. \A u, v \in Probing' : want'[u] = want'[v] => u = v
    BY <1>1, <1>3 DEF GateInv, SlotsExact
  <2>4. QED
    BY <2>1, <2>2, <2>3 DEF SlotsExact
<1>6. TypeOK'
  BY <1>1 DEF GateInv, TypeOK, GatePC
<1>7. WantsServer'
  BY <1>1, <1>2 DEF GateInv, WantsServer
<1>8. NoLostSignal'
  BY <1>1, <1>2 DEF GateInv, NoLostSignal, Free, TypeOK
<1>9. QED
  BY <1>5, <1>6, <1>7, <1>8 DEF GateInv

LEMMA ReleaseInv ==
  ASSUME GateInv, NEW t \in Threads, Release(t)
  PROVE  GateInv'
<1> DEFINE s == want[t]
<1>1. /\ pc[t] = "probing"
      /\ active' = active - 1 /\ busy' = busy \ {s}
      /\ pc' = [Signalled EXCEPT ![t] = "idle"]
      /\ want' = [want EXCEPT ![t] = NoServer]
      /\ UNCHANGED <<concurrency, cancelled, left, edits>>
  BY DEF Release
<1>2. /\ pc \in [Threads -> GatePC] /\ want \in [Threads -> Servers \cup {NoServer}]
      /\ t \in Probing
  BY <1>1 DEF GateInv, TypeOK, Probing
<1>3. /\ pc' \in [Threads -> GatePC]
      /\ pc'[t] = "idle"
      /\ \A u \in Threads \ {t} : pc'[u] = Signalled[u]
      /\ \A u \in Threads : pc'[u] # "blocked"
  BY <1>1, SignalledType DEF GateInv, GatePC
<1>4. Probing' = Probing \ {t}
  BY <1>2, <1>3, SignalledType DEF GateInv, Probing
<1>5. \A u \in Threads \ {t} : want'[u] = want[u]
  BY <1>1, <1>2
<1>6. /\ Cardinality(Probing \ {t}) = Cardinality(Probing) - 1
      /\ Cardinality(Probing \ {t}) \in Nat
  BY <1>2, ProbingFinite, FS_RemoveElement DEF Probing
<1>7. SlotsExact'
  <2>1. active' = Cardinality(Probing')
    BY <1>1, <1>4, <1>6 DEF GateInv, SlotsExact
  <2>2. busy' = {want'[u] : u \in Probing'}
    <3>1. busy' = {want[u] : u \in Probing \ {t}}
      BY <1>1, <1>2 DEF GateInv, SlotsExact
    <3>2. \A u \in Probing \ {t} : want'[u] = want[u]
      BY <1>5 DEF Probing
    <3>3. QED
      BY <1>4, <3>1, <3>2
  <2>3. \A u, v \in Probing' : want'[u] = want'[v] => u = v
    BY <1>4, <1>5 DEF GateInv, SlotsExact, Probing
  <2>4. QED
    BY <2>1, <2>2, <2>3 DEF SlotsExact
<1>8. active' \in Nat
  BY <1>4, <1>6, <1>7 DEF SlotsExact
<1>9. TypeOK'
  BY <1>1, <1>2, <1>3, <1>8 DEF GateInv, TypeOK
<1>10. WantsServer'
  BY <1>3, <1>5, SignalledType DEF GateInv, WantsServer
<1>11. NoLostSignal'
  BY <1>3 DEF NoLostSignal
<1>12. QED
  BY <1>7, <1>9, <1>10, <1>11 DEF GateInv

LEMMA GateInvStep ==
  ASSUME GateInv, [Next]_vars
  PROVE  GateInv'
<1> USE DEF GateInv, TypeOK, WantsServer, NoLostSignal, Free, GatePC, gateVars
<1>1. ASSUME NEW t \in Threads, NEW s \in Servers, Lookup(t, s)
      PROVE  GateInv'
  <2>1. Probing' = Probing /\ \A u \in Probing : want'[u] = want[u]
    BY <1>1 DEF Lookup, Probing
  <2>2. SlotsExact'
    BY <1>1, <2>1, SameSlots DEF Lookup
  <2>3. QED
    BY <1>1, <2>2 DEF Lookup
<1>2. ASSUME NEW t \in Threads, AcquirePaused(t) \/ AcquireCancelled(t)
      PROVE  GateInv'
  <2>1. Probing' = Probing /\ \A u \in Probing : want'[u] = want[u]
    BY <1>2 DEF AcquirePaused, AcquireCancelled, Leave, Probing
  <2>2. SlotsExact'
    BY <1>2, <2>1, SameSlots DEF AcquirePaused, AcquireCancelled
  <2>3. QED
    BY <1>2, <2>2 DEF AcquirePaused, AcquireCancelled, Leave
<1>3. ASSUME NEW t \in Threads, AcquireBlocks(t)
      PROVE  GateInv'
  <2>1. Probing' = Probing
    BY <1>3 DEF AcquireBlocks, Probing
  <2>2. SlotsExact'
    BY <1>3, <2>1, SameSlots DEF AcquireBlocks
  <2>3. QED
    BY <1>3, <2>2 DEF AcquireBlocks
<1>4. ASSUME NEW t \in Threads, AcquireSlot(t)
      PROVE  GateInv'
  BY <1>4, AcquireSlotInv
<1>5. ASSUME NEW t \in Threads, Release(t)
      PROVE  GateInv'
  BY <1>5, ReleaseInv
<1>6. ASSUME NEW c \in 0..MaxConcurrency, ApplyConfig(c)
      PROVE  GateInv'
  <2>1. Probing' = Probing
    BY <1>6, SignalledType DEF ApplyConfig, Probing
  <2>2. SlotsExact'
    BY <1>6, <2>1, SameSlots DEF ApplyConfig
  <2>3. TypeOK' /\ WantsServer' /\ NoLostSignal'
    BY <1>6, SignalledType DEF ApplyConfig
  <2>4. QED
    BY <2>2, <2>3
<1>7. CASE Cancel \/ UNCHANGED vars
  <2>1. Probing' = Probing
    BY <1>7 DEF Cancel, vars, Probing
  <2>2. SlotsExact'
    BY <1>7, <2>1, SameSlots DEF Cancel, vars
  <2>3. QED
    BY <1>7, <2>2 DEF Cancel, vars
<1>8. QED
  BY <1>1, <1>2, <1>3, <1>4, <1>5, <1>6, <1>7 DEF Next, Thread

LEMMA GateInvariant == Spec => []GateInv
BY InitGateInv, GateInvStep, PTL DEF Spec

\* Status.Active is the number of queries that run and busy their servers,
\* whatever configuration changes and cancellations come between.
THEOREM SlotsAlwaysExact == Spec => [](TypeOK /\ SlotsExact)
<1>1. GateInv => TypeOK /\ SlotsExact
  BY DEF GateInv
<1>2. QED
  BY GateInvariant, <1>1, PTL

\* A thread never waits on a channel whose closing it has missed.
THEOREM SignalsNeverLost == Spec => []NoLostSignal
<1>1. GateInv => NoLostSignal
  BY DEF GateInv
<1>2. QED
  BY GateInvariant, <1>1, PTL

-----------------------------------------------------------------------------
(* The gate implements the pool of slots                                   *)

LEMMA PoolHolders ==
  ASSUME GateInv
  PROVE  Pool!Holders = Probing
BY GateAssumption DEF GateInv, Pool!Holders, poolProbes, Probing, WantsServer

\* The step of the pool that a step of the gate is.
LEMMA PoolStep ==
  ASSUME GateInv, [Next]_vars
  PROVE  [Pool!Next]_(Pool!slotVars)
<1> USE DEF Pool!slotVars
<1>1. ASSUME NEW t \in Threads, AcquireSlot(t)
      PROVE  Pool!Take(t, want[t]) /\ want[t] \in Servers
  <2>1. /\ pc[t] = "acquire" /\ want[t] \in Servers /\ want[t] # NoServer
        /\ active < concurrency /\ want[t] \notin busy
        /\ pc' = [pc EXCEPT ![t] = "probing"] /\ UNCHANGED <<concurrency, want>>
    BY <1>1, GateAssumption DEF AcquireSlot, Free, GateInv, WantsServer
  <2>2. poolProbes[t] = NoServer
    BY <2>1 DEF poolProbes
  <2>3. Pool!Cardinality(Pool!Holders) < concurrency
    BY <2>1, PoolHolders DEF GateInv, SlotsExact, Pool!Cardinality, Cardinality
  <2>4. \A u \in Threads : poolProbes[u] # want[t]
    BY <2>1 DEF poolProbes, GateInv, SlotsExact, Probing
  <2>5. poolProbes' = [poolProbes EXCEPT ![t] = want[t]]
    BY <2>1 DEF poolProbes, GateInv, TypeOK
  <2>6. QED
    BY <2>1, <2>2, <2>3, <2>4, <2>5 DEF Pool!Take
<1>2. ASSUME NEW t \in Threads, Release(t)
      PROVE  Pool!Give(t)
  <2>1. /\ pc[t] = "probing" /\ want[t] \in Servers /\ want[t] # NoServer
        /\ pc' = [Signalled EXCEPT ![t] = "idle"]
        /\ want' = [want EXCEPT ![t] = NoServer]
        /\ UNCHANGED concurrency
    BY <1>2, GateAssumption DEF Release, GateInv, WantsServer
  <2>2. \A u \in Threads : (pc'[u] = "probing") <=> (u # t /\ pc[u] = "probing")
    BY <2>1, SignalledType DEF GateInv
  <2>3. poolProbes' = [poolProbes EXCEPT ![t] = NoServer]
    BY <2>1, <2>2 DEF poolProbes, GateInv, TypeOK
  <2>4. QED
    <3>1. poolProbes[t] # NoServer
      BY <2>1 DEF poolProbes
    <3>2. QED
      BY <2>1, <2>3, <3>1 DEF Pool!Give
<1>3. ASSUME NEW c \in 0..MaxConcurrency, ApplyConfig(c)
      PROVE  Pool!SetLimit
  <2>1. concurrency' = c /\ c \in Nat /\ pc' = Signalled /\ UNCHANGED want
    BY <1>3, GateAssumption DEF ApplyConfig
  <2>2. \A u \in Threads : (pc'[u] = "probing") <=> (pc[u] = "probing")
    BY <2>1, SignalledType DEF GateInv
  <2>3. poolProbes' = poolProbes
    BY <2>1, <2>2 DEF poolProbes
  <2>4. QED
    BY <2>1, <2>3 DEF Pool!SetLimit
<1>4. ASSUME \/ \E t \in Threads : \/ AcquirePaused(t) \/ AcquireBlocks(t) \/ AcquireCancelled(t)
                                   \/ \E s \in Servers : Lookup(t, s)
             \/ Cancel \/ UNCHANGED vars
      PROVE  poolProbes' = poolProbes /\ concurrency' = concurrency
  <2>1. concurrency' = concurrency
    BY <1>4 DEF AcquirePaused, AcquireBlocks, AcquireCancelled, Lookup, Cancel, vars
  <2>2. \A u \in Threads : /\ (pc'[u] = "probing") <=> (pc[u] = "probing")
                           /\ pc[u] = "probing" => want'[u] = want[u]
    BY <1>4
    DEF AcquirePaused, AcquireBlocks, AcquireCancelled, Lookup, Cancel, Leave, vars, GateInv,
        TypeOK
  <2>3. QED
    BY <2>1, <2>2 DEF poolProbes
<1>5. Next => Pool!Next \/ UNCHANGED Pool!slotVars
  BY <1>1, <1>2, <1>3, <1>4 DEF Next, Thread, Pool!Next
<1>6. UNCHANGED vars => UNCHANGED Pool!slotVars
  BY <1>4
<1>7. QED
  BY <1>5, <1>6

\* "All queries obey the global concurrency limit": the gate, with its counter,
\* map and channel, is a pool of as many slots as are configured now, one probe
\* a server.
THEOREM GateIsPool == Spec => ImplementsPool
<1>1. Init => Pool!Init
  <2> SUFFICES ASSUME Init PROVE Pool!Init
    OBVIOUS
  <2>1. concurrency \in Nat
    BY GateAssumption DEF Init
  <2>2. poolProbes = [t \in Threads |-> NoServer]
    BY DEF Init, poolProbes
  <2>3. QED
    BY <2>1, <2>2 DEF Pool!Init
<1>2. QED
  BY GateInvariant, PoolStep, <1>1, PTL DEF Spec, ImplementsPool, Pool!Spec

=============================================================================
