------------------------------ MODULE ProbeGate ------------------------------
(***************************************************************************)
(* The gate every DNS query passes, targets and trusted references alike:  *)
(* Monitor.acquire and Monitor.release around the probe in Monitor.lookup, *)
(* and the live change of m.config by refresh.                             *)
(*                                                                         *)
(* A thread is a worker of Run.  It looks up one server after another and  *)
(* holds one slot at a time: lookup gives the target's slot back before    *)
(* the references are looked up.  m.changed is a channel closed and         *)
(* replaced under the lock; a thread that waits on the current one is      *)
(* blocked, and closing it sends every blocked thread back to the lock.    *)
(***************************************************************************)
EXTENDS Integers, FiniteSets

CONSTANTS
  Threads,         \* the goroutines that call lookup
  Servers,         \* the servers they look up
  NoServer,        \* no server: a thread between two lookups
  MaxConcurrency,  \* the largest Concurrency
  MaxLookups,      \* bound: lookups a thread makes
  MaxEdits         \* bound: changes of the configuration

ASSUME GateAssumption ==
  /\ IsFiniteSet(Threads)
  /\ NoServer \notin Servers
  /\ MaxConcurrency \in Nat
  /\ MaxLookups \in Nat
  /\ MaxEdits \in Nat

VARIABLES
  concurrency,  \* Monitor.config.Concurrency
  active,       \* Monitor.status.Active
  busy,         \* Monitor.busy
  pc,           \* where each thread is in lookup
  want,         \* the server of the thread's lookup
  cancelled,    \* the context is cancelled
  left,         \* lookups each thread may still make
  edits         \* configuration changes still to come

gateVars == <<active, busy>>
vars == <<concurrency, active, busy, pc, want, cancelled, left, edits>>

GatePC == {"idle", "acquire", "blocked", "probing"}

\* New starts from the default configuration; refresh replaces it.
Init ==
  /\ concurrency \in 0..MaxConcurrency
  /\ active = 0 /\ busy = {}
  /\ pc = [t \in Threads |-> "idle"]
  /\ want = [t \in Threads |-> NoServer]
  /\ cancelled = FALSE
  /\ left = [t \in Threads |-> MaxLookups]
  /\ edits = MaxEdits

-----------------------------------------------------------------------------

\* mutant: the first waiter found is woken, the others are not
SignalledOne ==
  IF \E t \in Threads : pc[t] = "blocked"
  THEN [pc EXCEPT ![CHOOSE t \in Threads : pc[t] = "blocked"] = "acquire"]
  ELSE pc

\* signalLocked: closing m.changed wakes all who wait on it
Signalled == [t \in Threads |-> IF pc[t] = "blocked" THEN "acquire" ELSE pc[t]]

\* lookup is called, for a target or for a reference.
Lookup(t, s) ==
  /\ pc[t] = "idle"
  /\ left[t] > 0
  /\ left' = [left EXCEPT ![t] = @ - 1]
  /\ pc' = [pc EXCEPT ![t] = "acquire"]
  /\ want' = [want EXCEPT ![t] = s]
  /\ UNCHANGED <<concurrency, gateVars, cancelled, edits>>

\* The thread leaves lookup.
Leave(t) ==
  /\ pc' = [pc EXCEPT ![t] = "idle"]
  /\ want' = [want EXCEPT ![t] = NoServer]

\* acquire: probing is paused
AcquirePaused(t) ==
  /\ pc[t] = "acquire"
  /\ concurrency = 0
  /\ Leave(t)
  /\ UNCHANGED <<concurrency, gateVars, cancelled, left, edits>>

\* mutant: one slot too many
FreeOffByOne(s) == active <= concurrency /\ s \notin busy

\* the condition under which acquire takes the slot
Free(s) == active < concurrency /\ s \notin busy

\* acquire: a slot is free and nobody probes the server
AcquireSlot(t) ==
  /\ pc[t] = "acquire"
  /\ concurrency # 0
  /\ Free(want[t])
  /\ active' = active + 1
  /\ busy' = busy \cup {want[t]}
  /\ pc' = [pc EXCEPT ![t] = "probing"]
  /\ UNCHANGED <<concurrency, want, cancelled, left, edits>>

\* acquire: m.changed is read under the lock, then waited on
AcquireBlocks(t) ==
  /\ pc[t] = "acquire"
  /\ concurrency # 0
  /\ ~Free(want[t])
  /\ pc' = [pc EXCEPT ![t] = "blocked"]
  /\ UNCHANGED <<concurrency, gateVars, want, cancelled, left, edits>>

\* acquire: <-ctx.Done()
AcquireCancelled(t) ==
  /\ pc[t] = "blocked"
  /\ cancelled
  /\ Leave(t)
  /\ UNCHANGED <<concurrency, gateVars, cancelled, left, edits>>

\* mutant: nobody is told that a slot is free
ReleaseSilently(t) ==
  /\ pc[t] = "probing"
  /\ active' = active - 1
  /\ busy' = busy \ {want[t]}
  /\ Leave(t)
  /\ UNCHANGED <<concurrency, cancelled, left, edits>>

\* release, deferred by lookup whatever the probe returned
Release(t) ==
  /\ pc[t] = "probing"
  /\ active' = active - 1
  /\ busy' = busy \ {want[t]}
  /\ pc' = [Signalled EXCEPT ![t] = "idle"]
  /\ want' = [want EXCEPT ![t] = NoServer]
  /\ UNCHANGED <<concurrency, cancelled, left, edits>>

\* refresh: m.config = c, then signalLocked
ApplyConfig(c) ==
  /\ edits > 0
  /\ edits' = edits - 1
  /\ concurrency' = c
  /\ pc' = Signalled
  /\ UNCHANGED <<gateVars, want, cancelled, left>>

Cancel ==
  /\ ~cancelled
  /\ cancelled' = TRUE
  /\ UNCHANGED <<concurrency, gateVars, pc, want, left, edits>>

Thread(t) ==
  \/ AcquirePaused(t) \/ AcquireSlot(t) \/ AcquireBlocks(t) \/ AcquireCancelled(t)
  \/ Release(t)

Next ==
  \/ \E t \in Threads : Thread(t) \/ \E s \in Servers : Lookup(t, s)
  \/ \E c \in 0..MaxConcurrency : ApplyConfig(c)
  \/ Cancel

Spec == Init /\ [][Next]_vars

\* A thread that can run does, and a probe ends: it has a timeout.
FairSpec == Spec /\ \A t \in Threads : WF_vars(Thread(t))

-----------------------------------------------------------------------------

TypeOK ==
  /\ concurrency \in 0..MaxConcurrency
  /\ active \in Nat
  /\ busy \in SUBSET Servers
  /\ pc \in [Threads -> GatePC]
  /\ want \in [Threads -> Servers \cup {NoServer}]
  /\ cancelled \in BOOLEAN
  /\ left \in [Threads -> Nat]
  /\ edits \in Nat

\* The threads that hold a slot.
Probing == {t \in Threads : pc[t] = "probing"}

\* The counter and the map agree with the probes that run: Active is their
\* number, busy their servers, and no two of them probe the same server.
SlotsExact ==
  /\ active = Cardinality(Probing)
  /\ busy = {want[t] : t \in Probing}
  /\ \A t, u \in Probing : want[t] = want[u] => t = u

\* No signal is lost: a thread waits on m.changed only while its slot is
\* taken, and never while probing is paused, so what would let it go on is
\* still to come and will close the channel it holds.
NoLostSignal ==
  \A t \in Threads : pc[t] = "blocked" => concurrency # 0 /\ ~Free(want[t])

\* Lookups never wait for ever: with the finitely many queries rounds make, a
\* thread that asks for a slot gets it or an error, whatever is lowered, paused
\* or cancelled meanwhile.
LookupsEnd == \A t \in Threads : pc[t] = "acquire" ~> pc[t] \in {"probing", "idle"}

-----------------------------------------------------------------------------
\* The server each thread probes.
poolProbes == [t \in Threads |-> IF pc[t] = "probing" THEN want[t] ELSE NoServer]

\* The gate is a pool of concurrency slots.
Pool == INSTANCE SlotPool WITH limit <- concurrency, probes <- poolProbes

\* Every query obeys the concurrency that is configured now and no server is
\* queried twice at once: acquire and release implement the pool.
ImplementsPool == Pool!Spec

=============================================================================
