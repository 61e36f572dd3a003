------------------------------ MODULE TrustedPool ------------------------------
(***************************************************************************)
(* The evidence of the trusted servers for one domain: the persistent pool *)
(* of observations that verdicts are drawn from, the cache of answers in   *)
(* memory, and Monitor.lookup of a trusted server, which fills both while  *)
(* handlers edit the rows, QueueAll starts over and refresh prunes.        *)
(*                                                                         *)
(* A thread is a worker that looks up a source for its own round or, as a  *)
(* reference, for the round of another server.  A row that is disabled,    *)
(* deleted or not trusted is not active; the ids of deleted rows are never *)
(* given again (AUTOINCREMENT).  ProbeGate has the slots; here the gate is *)
(* only the busy map.                                                      *)
(***************************************************************************)
EXTENDS Integers, FiniteSets

CONSTANTS
  Sources,      \* the servers that may be trusted
  Addresses,    \* the addresses they may be given
  Threads,      \* the workers
  MaxEdits,     \* bound: edits of rows
  MaxRefreshes  \* bound: calls of QueueAll

ASSUME PoolAssumption ==
  /\ Addresses # {}
  /\ MaxEdits \in Nat
  /\ MaxRefreshes \in Nat

VARIABLES
  row,         \* store: the row of each source
  pool,        \* store: trusted_observations of each source
  cache,       \* Monitor.cache
  generation,  \* Monitor.cacheGeneration
  busy,        \* Monitor.busy
  call,        \* each thread's call of lookup
  listed,      \* refresh's copy of the rows
  reading,     \* refresh has read the rows and not yet pruned
  edits        \* edits made so far

storeVars   == <<row, pool, edits>>
memoryVars  == <<cache, generation>>
refreshVars == <<listed, reading>>
vars == <<storeVars, memoryVars, busy, call, refreshVars>>

Row == [active : BOOLEAN, address : Addresses, epoch : Nat]

\* cacheKey, and what lookup compares with the row
Key == [source : Sources, address : Addresses, epoch : Nat]

\* An answer fails, lasts for its TTL, or is brief: a TTL of 0 is history at once.
Answers == {"failed", "brief", "lasting"}

\* epoch is that of the row the query was made for; the table has no such column.
NoObservation == [kept |-> FALSE]
Observation   == [kept : {TRUE}, address : Addresses, epoch : Nat, fresh : BOOLEAN]

\* sent is a history field; lasting says that no record's TTL has run out.
Cached == [key : Key, sent : Nat, lasting : BOOLEAN]

Places == {"first", "acquire", "second", "generation", "check", "probe",
           "recheck", "save"}

\* key is the copy of the row lookup was given, seen its generation; sent is
\* a history field: the generation when the query went out.
NoCall == [at |-> "idle"]
Calls  == [at : Places, key : Key, reference : BOOLEAN, seen : Nat, sent : Nat,
           answer : Answers]

\* No thread runs; the pool holds what an earlier run of the program left.
Init ==
  /\ row \in [Sources -> [active : BOOLEAN, address : Addresses, epoch : {0}]]
  /\ pool \in [Sources -> {NoObservation} \cup
                [kept : {TRUE}, address : Addresses, epoch : {0}, fresh : BOOLEAN]]
  /\ \A s \in Sources : pool[s] # NoObservation =>
       row[s].active /\ pool[s].address = row[s].address
  /\ cache = {} /\ generation = 0
  /\ busy = {}
  /\ call = [t \in Threads |-> NoCall]
  /\ listed = row /\ reading = FALSE
  /\ edits = 0

-----------------------------------------------------------------------------
(* Edits, time and refresh                                                 *)

\* saveServer, deleteServer and the import change trust, enabled or address:
\* the trigger deletes the observations and advances the epoch.
EditRow(s, active, address) ==
  /\ edits < MaxEdits
  /\ ~(active /\ row[s].active /\ address = row[s].address)
  /\ edits' = edits + 1
  /\ row' = [row EXCEPT ![s] = [active |-> active, address |-> address,
                                epoch |-> row[s].epoch + 1]]
  /\ pool' = [pool EXCEPT ![s] = NoObservation]
  /\ UNCHANGED <<memoryVars, busy, call, refreshVars>>

\* The TTL of an observation runs out, and with it that of its cached answer.
Expire(s) ==
  /\ pool[s] # NoObservation
  /\ pool[s].fresh
  /\ pool' = [pool EXCEPT ![s] = [@ EXCEPT !.fresh = FALSE]]
  /\ cache' = {IF e.key = [source |-> s, address |-> pool[s].address,
                           epoch |-> pool[s].epoch]
               THEN [e EXCEPT !.lasting = FALSE] ELSE e : e \in cache}
  /\ UNCHANGED <<row, edits, generation, busy, call, refreshVars>>

\* PruneTrustedReferences: an observation past its TTL and the history window
Prune(s) ==
  /\ pool[s] # NoObservation
  /\ ~pool[s].fresh
  /\ pool' = [pool EXCEPT ![s] = NoObservation]
  /\ UNCHANGED <<row, edits, memoryVars, busy, call, refreshVars>>

\* QueueAll, when it installs a batch
QueueAll ==
  /\ generation < MaxRefreshes
  /\ generation' = generation + 1
  /\ cache' = {}
  /\ UNCHANGED <<storeVars, busy, call, refreshVars>>

\* refresh: ListServers
RefreshReads ==
  /\ ~reading
  /\ reading' = TRUE
  /\ listed' = row
  /\ UNCHANGED <<storeVars, memoryVars, busy, call>>

\* refresh: what is no longer trusted and what is too old leaves the cache.
RefreshPrunes ==
  /\ reading
  /\ reading' = FALSE
  /\ \E old \in SUBSET cache :
       cache' = {e \in cache \ old :
                   /\ listed[e.key.source].active
                   /\ listed[e.key.source].address = e.key.address
                   /\ listed[e.key.source].epoch = e.key.epoch}
  /\ UNCHANGED <<storeVars, generation, busy, call, listed>>

-----------------------------------------------------------------------------
(* lookup                                                                  *)

GoTo(t, place) == call' = [call EXCEPT ![t] = [@ EXCEPT !.at = place]]

\* lookup returns; the deferred release gives the source back.
Return(t) ==
  /\ call' = [call EXCEPT ![t] = NoCall]
  /\ busy' = busy \ {call[t].key.source}

\* the row is as it was when the lookup was given its copy
Unchanged(k) ==
  /\ row[k.source].active
  /\ row[k.source].address = k.address
  /\ row[k.source].epoch = k.epoch

\* cacheGet can succeed; ReferenceTTLSeconds may be over, so it need not.
Hit(k) == \E e \in cache : e.key = k /\ e.lasting

\* runRound and references read the row, find it trusted and call lookup.
Begin(t, s, asReference) ==
  /\ call[t] = NoCall
  /\ row[s].active
  /\ call' = [call EXCEPT ![t] =
       [at |-> IF asReference THEN "first" ELSE "acquire",
        key |-> [source |-> s, address |-> row[s].address, epoch |-> row[s].epoch],
        reference |-> asReference, seen |-> 0, sent |-> 0, answer |-> "failed"]]
  /\ UNCHANGED <<storeVars, memoryVars, busy, refreshVars>>

\* cacheGet before the gate
FirstGet(t) ==
  /\ call[t].at = "first"
  /\ \/ Hit(call[t].key) /\ call' = [call EXCEPT ![t] = NoCall]
     \/ GoTo(t, "acquire")
  /\ UNCHANGED <<storeVars, memoryVars, busy, refreshVars>>

\* acquire succeeds, or is refused by a pause or the end of the context.
Acquire(t) ==
  /\ call[t].at = "acquire"
  /\ \/ /\ call[t].key.source \notin busy
        /\ busy' = busy \cup {call[t].key.source}
        /\ GoTo(t, IF call[t].reference THEN "second" ELSE "generation")
     \/ call' = [call EXCEPT ![t] = NoCall] /\ UNCHANGED busy
  /\ UNCHANGED <<storeVars, memoryVars, refreshVars>>

\* cacheGet behind the gate
SecondGet(t) ==
  /\ call[t].at = "second"
  /\ \/ Hit(call[t].key) /\ Return(t)
     \/ GoTo(t, "generation") /\ UNCHANGED busy
  /\ UNCHANGED <<storeVars, memoryVars, refreshVars>>

\* The context may have ended; otherwise the generation is read.
ReadGeneration(t) ==
  /\ call[t].at = "generation"
  /\ \/ Return(t)
     \/ /\ call' = [call EXCEPT ![t] = [@ EXCEPT !.at = "check", !.seen = generation]]
        /\ UNCHANGED busy
  /\ UNCHANGED <<storeVars, memoryVars, refreshVars>>

\* GetServer before the query, if the store can be read; then the query goes out.
Check(t) ==
  /\ call[t].at = "check"
  /\ \/ /\ Unchanged(call[t].key)
        /\ call' = [call EXCEPT ![t] = [@ EXCEPT !.at = "probe", !.sent = generation]]
        /\ UNCHANGED busy
     \/ Return(t)
  /\ UNCHANGED <<storeVars, memoryVars, refreshVars>>

\* mutant: the generation is read when the answer is there
ProbeEndsReadingGeneration(t, a) ==
  /\ call[t].at = "probe"
  /\ call' = [call EXCEPT ![t] =
                [@ EXCEPT !.at = "recheck", !.answer = a, !.seen = generation]]
  /\ UNCHANGED <<storeVars, memoryVars, busy, refreshVars>>

ProbeEnds(t, a) ==
  /\ call[t].at = "probe"
  /\ call' = [call EXCEPT ![t] = [@ EXCEPT !.at = "recheck", !.answer = a]]
  /\ UNCHANGED <<storeVars, memoryVars, busy, refreshVars>>

\* GetServer after the query, if the store can be read
Recheck(t) ==
  /\ call[t].at = "recheck"
  /\ \/ Unchanged(call[t].key) /\ GoTo(t, "save") /\ UNCHANGED busy
     \/ Return(t)
  /\ UNCHANGED <<storeVars, memoryVars, refreshVars>>

\* what an answer is in the pool
Observed(k, a) ==
  [kept |-> TRUE, address |-> k.address, epoch |-> k.epoch, fresh |-> a = "lasting"]

\* mutant: the second look at the row is taken for enough
SaveUnchecked(k, a) ==
  pool' = [pool EXCEPT ![k.source] = IF a = "failed" THEN @ ELSE Observed(k, a)]

\* SaveTrustedObservation: the transaction looks at the row once more.
SaveTrustedObservation(k, a) ==
  pool' = [pool EXCEPT ![k.source] =
             IF a = "failed" \/ ~Unchanged(k) THEN @ ELSE Observed(k, a)]

\* The answer replaces the cached one, and the bounds on the cache may drop
\* others: the oldest, whichever those are.
Remember(c) ==
  \E dropped \in SUBSET {e \in cache : e.key # c.key} :
    cache' = {e \in cache \ dropped : e.key # c.key} \cup
             {[key |-> c.key, sent |-> c.sent, lasting |-> c.answer = "lasting"]}

\* The critical section after the second look.  It holds Monitor.mu over the
\* transaction; an edit between the two writes might as well follow both.  The
\* store may fail to write an observation.
Save(t) ==
  /\ call[t].at = "save"
  /\ \/ /\ call[t].seen = generation
        /\ SaveTrustedObservation(call[t].key, call[t].answer)
        /\ Remember(call[t])
     \/ /\ call[t].seen # generation \/ call[t].answer # "failed"
        /\ UNCHANGED <<pool, cache>>
  /\ Return(t)
  /\ UNCHANGED <<row, edits, generation, refreshVars>>

-----------------------------------------------------------------------------

Lookup(t) ==
  \/ FirstGet(t) \/ Acquire(t) \/ SecondGet(t) \/ ReadGeneration(t)
  \/ Check(t) \/ \E a \in Answers : ProbeEnds(t, a)
  \/ Recheck(t) \/ Save(t)

Next ==
  \/ \E s \in Sources :
       \/ \E active \in BOOLEAN, address \in Addresses : EditRow(s, active, address)
       \/ Expire(s) \/ Prune(s)
  \/ QueueAll \/ RefreshReads \/ RefreshPrunes
  \/ \E t \in Threads :
       Lookup(t) \/ \E s \in Sources, asReference \in BOOLEAN : Begin(t, s, asReference)

Spec == Init /\ [][Next]_vars

-----------------------------------------------------------------------------

\* The types; the cache is a map, with one answer for a key.
TypeOK ==
  /\ row \in [Sources -> Row]
  /\ pool \in [Sources -> Observation \cup {NoObservation}]
  /\ cache \in SUBSET Cached /\ \A e, f \in cache : e.key = f.key => e = f
  /\ generation \in Nat
  /\ busy \in SUBSET Sources
  /\ call \in [Threads -> Calls \cup {NoCall}]
  /\ listed \in [Sources -> Row] /\ reading \in BOOLEAN
  /\ edits \in Nat

\* No revoked evidence: every observation in the pool was made for the row as
\* it is now.  A query in flight while trust is revoked, given back or moved
\* to another address never brings its answer in.
PoolIsCurrent ==
  \A s \in Sources : pool[s] # NoObservation =>
    row[s].active /\ pool[s].address = row[s].address /\ pool[s].epoch = row[s].epoch

\* "A probe started before this request must not refill the reference cache":
\* every cached answer is to a query sent after the last refresh-all.
CacheIsAfterRefresh == \A e \in cache : e.sent = generation

\* An answer from the cache stands for evidence that is there: while a cached
\* answer can still be had for the row as it is now, the pool holds its fresh
\* observation, so a collection that skips the query finds the reference.
CacheIsBacked ==
  \A e \in cache :
    e.lasting /\ Unchanged(e.key) =>
      pool[e.key.source] = [kept |-> TRUE, address |-> e.key.address,
                            epoch |-> e.key.epoch, fresh |-> TRUE]

=============================================================================
