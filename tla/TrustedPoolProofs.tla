--------------------------- MODULE TrustedPoolProofs ---------------------------
(***************************************************************************)
(* Proofs about TrustedPool, for any sources, addresses and workers: the   *)
(* evidence in the pool is of the rows as they are, the cache holds only    *)
(* answers to queries sent after the last refresh-all, and stands for       *)
(* evidence in the pool.                                                    *)
(***************************************************************************)
EXTENDS TrustedPool, TLAPS

-----------------------------------------------------------------------------
(* The inductive invariant                                                 *)

\* No key is ahead of its row: an epoch a row takes on is new to the caches
\* and the calls.
KeysArePast ==
  /\ \A e \in cache : e.key.epoch <= row[e.key.source].epoch
  /\ \A t \in Threads : call[t] # NoCall =>
       call[t].key.epoch <= row[call[t].key.source].epoch

Sending == {"probe", "recheck", "save"}

\* lookup reads the generation before its query goes out.
SeenBeforeSent ==
  \A t \in Threads : call[t] # NoCall =>
    /\ call[t].seen <= generation
    /\ call[t].at \in Sending => call[t].seen <= call[t].sent /\ call[t].sent <= generation

PoolInv == TypeOK /\ KeysArePast /\ SeenBeforeSent /\ PoolIsCurrent
           /\ CacheIsAfterRefresh /\ CacheIsBacked

-----------------------------------------------------------------------------

LEMMA InitPool == Init => PoolInv
<1> SUFFICES ASSUME Init PROVE PoolInv
  OBVIOUS
<1>1. row \in [Sources -> Row] /\ listed \in [Sources -> Row]
  BY DEF Init, Row
<1>2. pool \in [Sources -> Observation \cup {NoObservation}]
  <2>1. ASSUME NEW o \in [kept : {TRUE}, address : Addresses, epoch : {0}, fresh : BOOLEAN]
        PROVE  o \in Observation
    <3>1. o.kept \in {TRUE} /\ o.address \in Addresses /\ o.fresh \in BOOLEAN
      OBVIOUS
    <3>2. o.epoch \in Nat
      OBVIOUS
    <3>3. o = [kept |-> o.kept, address |-> o.address, epoch |-> o.epoch,
               fresh |-> o.fresh]
      OBVIOUS
    <3> QED
      BY <3>1, <3>2, <3>3 DEF Observation
  <2> QED
    BY <2>1 DEF Init
<1>3. TypeOK
  BY <1>1, <1>2 DEF Init, TypeOK
<1>4. PoolIsCurrent
  BY DEF Init, PoolIsCurrent, NoObservation
<1>5. KeysArePast /\ SeenBeforeSent /\ CacheIsAfterRefresh /\ CacheIsBacked
  BY DEF Init, KeysArePast, SeenBeforeSent, CacheIsAfterRefresh, CacheIsBacked
<1> QED
  BY <1>3, <1>4, <1>5 DEF PoolInv

LEMMA InCall ==
  ASSUME TypeOK, NEW t \in Threads, call[t].at \in Places
  PROVE  call[t] \in Calls /\ call[t] # NoCall
<1>1. call[t] # NoCall
  BY DEF NoCall, Places
<1> QED
  BY <1>1 DEF TypeOK

-----------------------------------------------------------------------------
(* Edits, time and refresh                                                 *)

LEMMA EditKeepsInv ==
  ASSUME PoolInv, NEW s \in Sources, NEW active \in BOOLEAN, NEW address \in Addresses,
         EditRow(s, active, address)
  PROVE  PoolInv'
<1> USE DEF PoolInv, storeVars, memoryVars, refreshVars
<1>1. /\ row' \in [Sources -> Row]
      /\ row'[s].epoch = row[s].epoch + 1
      /\ \A r \in Sources \ {s} : row'[r] = row[r]
  BY DEF EditRow, TypeOK, Row
<1>2. \A r \in Sources : row[r].epoch \in Nat /\ row'[r].epoch >= row[r].epoch
  BY <1>1 DEF TypeOK, Row
<1>3. TypeOK'
  BY <1>1 DEF EditRow, TypeOK
<1>4. KeysArePast'
  BY <1>2 DEF EditRow, KeysArePast, TypeOK, Cached, Calls, Key
<1>5. SeenBeforeSent' /\ CacheIsAfterRefresh'
  BY DEF EditRow, SeenBeforeSent, CacheIsAfterRefresh
<1>6. PoolIsCurrent'
  BY <1>1 DEF EditRow, PoolIsCurrent, TypeOK
<1>7. CacheIsBacked'
  <2> SUFFICES ASSUME NEW e \in cache, e.lasting, Unchanged(e.key)'
               PROVE  pool'[e.key.source] = [kept |-> TRUE, address |-> e.key.address,
                                             epoch |-> e.key.epoch, fresh |-> TRUE]
    BY DEF EditRow, CacheIsBacked
  <2>1. e.key.source \in Sources /\ e.key.epoch \in Nat
    BY DEF TypeOK, Cached, Key
  <2>2. e.key.source # s
    BY <1>1, <1>2, <2>1 DEF KeysArePast, Unchanged
  <2>3. Unchanged(e.key) /\ pool'[e.key.source] = pool[e.key.source]
    BY <1>1, <2>1, <2>2 DEF EditRow, Unchanged, TypeOK
  <2> QED
    BY <2>3 DEF CacheIsBacked
<1> QED
  BY <1>3, <1>4, <1>5, <1>6, <1>7

LEMMA ExpireKeepsInv ==
  ASSUME PoolInv, NEW s \in Sources, Expire(s)
  PROVE  PoolInv'
<1> USE DEF PoolInv, memoryVars, refreshVars
<1> DEFINE old == [source |-> s, address |-> pool[s].address, epoch |-> pool[s].epoch]
           Aged(e) == IF e.key = old THEN [e EXCEPT !.lasting = FALSE] ELSE e
<1>1. pool[s] \in Observation /\ pool' = [pool EXCEPT ![s] = [@ EXCEPT !.fresh = FALSE]]
  BY DEF Expire, TypeOK
<1>2. [pool[s] EXCEPT !.fresh = FALSE] \in Observation
  BY <1>1 DEF Observation
<1>3. cache' = {Aged(e) : e \in cache}
  BY DEF Expire
<1>4. \A e \in cache :
        /\ Aged(e) \in Cached /\ Aged(e).key = e.key /\ Aged(e).sent = e.sent
        /\ Aged(e).lasting => e.lasting /\ e.key # old
  BY DEF TypeOK, Cached
<1> HIDE DEF Aged
<1>5. TypeOK'
  BY <1>1, <1>2, <1>3, <1>4 DEF Expire, TypeOK
<1>6. KeysArePast' /\ SeenBeforeSent' /\ CacheIsAfterRefresh'
  <2>1. UNCHANGED <<row, generation, call>>
    BY DEF Expire
  <2>2. \A e \in cache : /\ Aged(e).key.epoch <= row[Aged(e).key.source].epoch
                         /\ Aged(e).sent = generation
    BY <1>4 DEF KeysArePast, CacheIsAfterRefresh
  <2>3. KeysArePast'
    BY <1>3, <2>1, <2>2 DEF KeysArePast
  <2>4. SeenBeforeSent'
    BY <2>1 DEF SeenBeforeSent
  <2>5. CacheIsAfterRefresh'
    BY <1>3, <2>1, <2>2 DEF CacheIsAfterRefresh
  <2> QED
    BY <2>3, <2>4, <2>5
<1>7. PoolIsCurrent'
  <2>1. /\ pool'[s].address = pool[s].address /\ pool'[s].epoch = pool[s].epoch
        /\ \A r \in Sources \ {s} : pool'[r] = pool[r]
    BY <1>1 DEF Observation, TypeOK
  <2> QED
    BY <2>1 DEF Expire, PoolIsCurrent
<1>8. CacheIsBacked'
  <2>0. \A k : Unchanged(k)' <=> Unchanged(k)
    BY DEF Expire, Unchanged
  <2> SUFFICES ASSUME NEW e \in cache, Aged(e).lasting, Unchanged(e.key)
               PROVE  pool'[e.key.source] = [kept |-> TRUE, address |-> e.key.address,
                                             epoch |-> e.key.epoch, fresh |-> TRUE]
    <3> SUFFICES ASSUME NEW f \in cache', f.lasting, Unchanged(f.key)'
                 PROVE  pool'[f.key.source] = [kept |-> TRUE, address |-> f.key.address,
                                               epoch |-> f.key.epoch, fresh |-> TRUE]
      BY DEF CacheIsBacked
    <3>1. PICK e \in cache : f = Aged(e)
      BY <1>3
    <3>2. Unchanged(e.key) /\ f.key = e.key
      BY <1>4, <2>0, <3>1
    <3> QED
      BY <3>1, <3>2
  <2>1. e.lasting /\ e.key # old
    BY <1>4
  <2>2. pool[e.key.source] = [kept |-> TRUE, address |-> e.key.address,
                              epoch |-> e.key.epoch, fresh |-> TRUE]
    BY <2>1 DEF CacheIsBacked
  <2>3. e.key \in Key
    BY DEF TypeOK, Cached
  <2>4. e.key.source # s
    BY <2>1, <2>2, <2>3 DEF Key
  <2> QED
    BY <1>1, <2>2, <2>3, <2>4 DEF TypeOK, Key
<1> QED
  BY <1>5, <1>6, <1>7, <1>8

LEMMA PruneKeepsInv ==
  ASSUME PoolInv, NEW s \in Sources, Prune(s)
  PROVE  PoolInv'
<1> USE DEF PoolInv, memoryVars, refreshVars
<1>1. TypeOK' /\ KeysArePast' /\ SeenBeforeSent' /\ CacheIsAfterRefresh'
  BY DEF Prune, TypeOK, KeysArePast, SeenBeforeSent, CacheIsAfterRefresh
<1>2. PoolIsCurrent'
  BY DEF Prune, PoolIsCurrent, TypeOK
<1>3. CacheIsBacked'
  <2>0. UNCHANGED <<cache, row>> /\ \A k : Unchanged(k)' <=> Unchanged(k)
    BY DEF Prune, Unchanged
  <2> SUFFICES ASSUME NEW e \in cache, e.lasting, Unchanged(e.key)
               PROVE  pool'[e.key.source] = pool[e.key.source]
    BY <2>0 DEF CacheIsBacked
  <2>1. e.key.source \in Sources
    BY DEF TypeOK, Cached, Key
  <2>2. pool[e.key.source] = [kept |-> TRUE, address |-> e.key.address,
                              epoch |-> e.key.epoch, fresh |-> TRUE]
    BY DEF CacheIsBacked
  <2>3. pool[e.key.source].fresh = TRUE
    BY <2>2
  <2> QED
    BY <2>1, <2>3 DEF Prune, TypeOK
<1> QED
  BY <1>1, <1>2, <1>3

LEMMA QueueAllKeepsInv ==
  ASSUME PoolInv, QueueAll
  PROVE  PoolInv'
<1> USE DEF PoolInv, storeVars, refreshVars
<1>1. generation \in Nat /\ generation' = generation + 1 /\ cache' = {}
  BY DEF QueueAll, TypeOK
<1>2. TypeOK' /\ KeysArePast' /\ PoolIsCurrent' /\ CacheIsAfterRefresh' /\ CacheIsBacked'
  BY <1>1 DEF QueueAll, TypeOK, KeysArePast, PoolIsCurrent, CacheIsAfterRefresh,
              CacheIsBacked
<1>3. SeenBeforeSent'
  BY <1>1 DEF QueueAll, SeenBeforeSent, TypeOK, Calls
<1> QED
  BY <1>2, <1>3

LEMMA RefreshKeepsInv ==
  ASSUME PoolInv, RefreshReads \/ RefreshPrunes
  PROVE  PoolInv'
<1> USE DEF PoolInv, storeVars, memoryVars
<1>1. cache' \subseteq cache
  BY DEF RefreshReads, RefreshPrunes
<1>2. TypeOK'
  BY <1>1 DEF RefreshReads, RefreshPrunes, TypeOK
<1>3. KeysArePast' /\ SeenBeforeSent' /\ PoolIsCurrent' /\ CacheIsAfterRefresh'
  BY <1>1 DEF RefreshReads, RefreshPrunes, KeysArePast, SeenBeforeSent, PoolIsCurrent,
              CacheIsAfterRefresh
<1>4. CacheIsBacked'
  BY <1>1 DEF RefreshReads, RefreshPrunes, CacheIsBacked, Unchanged
<1> QED
  BY <1>2, <1>3, <1>4

-----------------------------------------------------------------------------
(* lookup                                                                  *)

\* A step of a call that leaves the pool and the cache alone: the invariant
\* holds if it does of the call.
LEMMA CallKeepsInv ==
  ASSUME PoolInv, NEW t \in Threads, NEW c \in Calls \cup {NoCall},
         call' = [call EXCEPT ![t] = c],
         busy' \in SUBSET Sources,
         UNCHANGED <<storeVars, memoryVars, refreshVars>>,
         c # NoCall =>
           /\ c.key.epoch <= row[c.key.source].epoch
           /\ c.seen <= generation
           /\ c.at \in Sending => c.seen <= c.sent /\ c.sent <= generation
  PROVE  PoolInv'
<1> USE DEF PoolInv, storeVars, memoryVars, refreshVars
<1>1. /\ call' \in [Threads -> Calls \cup {NoCall}]
      /\ call'[t] = c /\ \A u \in Threads \ {t} : call'[u] = call[u]
  BY DEF TypeOK
<1>2. TypeOK'
  BY <1>1 DEF TypeOK
<1>3. KeysArePast'
  BY <1>1 DEF KeysArePast
<1>4. SeenBeforeSent'
  BY <1>1 DEF SeenBeforeSent
<1>5. PoolIsCurrent' /\ CacheIsAfterRefresh' /\ CacheIsBacked'
  BY DEF PoolIsCurrent, CacheIsAfterRefresh, CacheIsBacked, Unchanged
<1> QED
  BY <1>2, <1>3, <1>4, <1>5

LEMMA EndKeepsInv ==
  ASSUME PoolInv, NEW t \in Threads,
         call' = [call EXCEPT ![t] = NoCall],
         busy' \in SUBSET Sources,
         UNCHANGED <<storeVars, memoryVars, refreshVars>>
  PROVE  PoolInv'
  BY CallKeepsInv

LEMMA GoToKeepsInv ==
  ASSUME PoolInv, NEW t \in Threads, call[t].at \in Places,
         NEW place \in Places, place \in Sending => call[t].at \in Sending,
         GoTo(t, place),
         busy' \in SUBSET Sources,
         UNCHANGED <<storeVars, memoryVars, refreshVars>>
  PROVE  PoolInv'
<1> DEFINE c == [call[t] EXCEPT !.at = place]
<1>1. call[t] \in Calls /\ call[t] # NoCall
  BY InCall DEF PoolInv
<1>2. /\ c \in Calls /\ c.at = place /\ c.key = call[t].key
      /\ c.seen = call[t].seen /\ c.sent = call[t].sent
  BY <1>1 DEF Calls
<1>3. /\ c.key.epoch <= row[c.key.source].epoch
      /\ c.seen <= generation
      /\ c.at \in Sending => c.seen <= c.sent /\ c.sent <= generation
  BY <1>1, <1>2 DEF PoolInv, KeysArePast, SeenBeforeSent
<1>4. call' = [call EXCEPT ![t] = c]
  BY DEF GoTo
<1> HIDE DEF c
<1> QED
  BY <1>2, <1>3, <1>4, CallKeepsInv

LEMMA BeginKeepsInv ==
  ASSUME PoolInv, NEW t \in Threads, NEW s \in Sources, NEW asReference \in BOOLEAN,
         Begin(t, s, asReference)
  PROVE  PoolInv'
<1> DEFINE k == [source |-> s, address |-> row[s].address, epoch |-> row[s].epoch]
           c == [at |-> IF asReference THEN "first" ELSE "acquire", key |-> k,
                 reference |-> asReference, seen |-> 0, sent |-> 0, answer |-> "failed"]
<1>1. k \in Key /\ row[s].epoch \in Nat /\ generation \in Nat
  BY DEF PoolInv, TypeOK, Row, Key
<1>2. k.epoch <= row[k.source].epoch
  BY <1>1
<1>3. call' = [call EXCEPT ![t] = c]
  BY DEF Begin
<1> HIDE DEF k
<1>4. c \in Calls /\ c.key = k /\ c.seen = 0 /\ c.at \notin Sending
  BY <1>1 DEF Calls, Places, Answers, Sending
<1> HIDE DEF c
<1>5. busy' \in SUBSET Sources /\ UNCHANGED <<storeVars, memoryVars, refreshVars>>
  BY DEF Begin, PoolInv, TypeOK
<1>6. c.key.epoch <= row[c.key.source].epoch /\ c.seen <= generation
  BY <1>1, <1>2, <1>4
<1> QED
  BY <1>3, <1>4, <1>5, <1>6, CallKeepsInv

LEMMA AcquireKeepsInv ==
  ASSUME PoolInv, NEW t \in Threads, FirstGet(t) \/ Acquire(t) \/ SecondGet(t)
  PROVE  PoolInv'
<1>1. call[t].at \in Places /\ call[t] \in Calls
  BY InCall DEF FirstGet, Acquire, SecondGet, Places, PoolInv
<1>2. call[t].key.source \in Sources /\ busy \in SUBSET Sources
  BY <1>1 DEF Calls, Key, PoolInv, TypeOK
<1>3. busy' \in SUBSET Sources /\ UNCHANGED <<storeVars, memoryVars, refreshVars>>
  BY <1>2 DEF FirstGet, Acquire, SecondGet, Return
<1>4. \/ call' = [call EXCEPT ![t] = NoCall]
      \/ \E place \in {"acquire", "second", "generation"} : GoTo(t, place)
  BY DEF FirstGet, Acquire, SecondGet, Return
<1> QED
  BY <1>1, <1>3, <1>4, EndKeepsInv, GoToKeepsInv DEF Places, Sending

LEMMA ReadGenerationKeepsInv ==
  ASSUME PoolInv, NEW t \in Threads, ReadGeneration(t)
  PROVE  PoolInv'
<1> DEFINE c == [call[t] EXCEPT !.at = "check", !.seen = generation]
<1>1. call[t] \in Calls /\ call[t] # NoCall /\ generation \in Nat /\ busy \in SUBSET Sources
  BY InCall DEF ReadGeneration, Places, PoolInv, TypeOK
<1>2. c \in Calls /\ c.at = "check" /\ c.key = call[t].key /\ c.seen = generation
  BY <1>1 DEF Calls, Places
<1>3. c.key.epoch <= row[c.key.source].epoch /\ c.seen <= generation /\ c.at \notin Sending
  BY <1>1, <1>2 DEF PoolInv, KeysArePast, Sending
<1>4. busy' \in SUBSET Sources /\ UNCHANGED <<storeVars, memoryVars, refreshVars>>
  BY <1>1 DEF ReadGeneration, Return
<1>5. call' = [call EXCEPT ![t] = NoCall] \/ call' = [call EXCEPT ![t] = c]
  BY DEF ReadGeneration, Return
<1> HIDE DEF c
<1> QED
  BY <1>2, <1>3, <1>4, <1>5, EndKeepsInv, CallKeepsInv

LEMMA CheckKeepsInv ==
  ASSUME PoolInv, NEW t \in Threads, Check(t)
  PROVE  PoolInv'
<1> DEFINE c == [call[t] EXCEPT !.at = "probe", !.sent = generation]
<1>1. call[t] \in Calls /\ call[t] # NoCall /\ generation \in Nat /\ busy \in SUBSET Sources
  BY InCall DEF Check, Places, PoolInv, TypeOK
<1>2. /\ c \in Calls /\ c.key = call[t].key /\ c.seen = call[t].seen
      /\ c.sent = generation
  BY <1>1 DEF Calls, Places
<1>3. /\ c.key.epoch <= row[c.key.source].epoch
      /\ c.seen <= c.sent /\ c.seen <= generation /\ c.sent <= generation
  BY <1>1, <1>2 DEF PoolInv, KeysArePast, SeenBeforeSent
<1>4. busy' \in SUBSET Sources /\ UNCHANGED <<storeVars, memoryVars, refreshVars>>
  BY <1>1 DEF Check, Return
<1>5. call' = [call EXCEPT ![t] = NoCall] \/ call' = [call EXCEPT ![t] = c]
  BY DEF Check, Return
<1> HIDE DEF c
<1> QED
  BY <1>2, <1>3, <1>4, <1>5, EndKeepsInv, CallKeepsInv

LEMMA ProbeEndsKeepsInv ==
  ASSUME PoolInv, NEW t \in Threads, NEW a \in Answers, ProbeEnds(t, a)
  PROVE  PoolInv'
<1> DEFINE c == [call[t] EXCEPT !.at = "recheck", !.answer = a]
<1>1. call[t] \in Calls /\ call[t] # NoCall /\ call[t].at \in Sending
  BY InCall DEF ProbeEnds, Places, Sending, PoolInv
<1>2. /\ c \in Calls /\ c.key = call[t].key /\ c.seen = call[t].seen
      /\ c.sent = call[t].sent
  BY <1>1 DEF Calls, Places
<1>3. /\ c.key.epoch <= row[c.key.source].epoch
      /\ c.seen <= c.sent /\ c.seen <= generation /\ c.sent <= generation
  BY <1>1, <1>2 DEF PoolInv, KeysArePast, SeenBeforeSent
<1>4. busy' \in SUBSET Sources /\ UNCHANGED <<storeVars, memoryVars, refreshVars>>
  BY DEF ProbeEnds, PoolInv, TypeOK
<1>5. call' = [call EXCEPT ![t] = c]
  BY DEF ProbeEnds
<1> HIDE DEF c
<1> QED
  BY <1>2, <1>3, <1>4, <1>5, CallKeepsInv

LEMMA RecheckKeepsInv ==
  ASSUME PoolInv, NEW t \in Threads, Recheck(t)
  PROVE  PoolInv'
<1>1. call[t].at \in Places /\ call[t].at \in Sending
  BY DEF Recheck, Places, Sending
<1>2. busy' \in SUBSET Sources /\ UNCHANGED <<storeVars, memoryVars, refreshVars>>
  BY DEF Recheck, Return, PoolInv, TypeOK
<1>3. call' = [call EXCEPT ![t] = NoCall] \/ GoTo(t, "save")
  BY DEF Recheck, Return
<1>4. "save" \in Places
  BY DEF Places
<1> QED
  BY <1>1, <1>2, <1>3, <1>4, EndKeepsInv, GoToKeepsInv

\* The answer is saved and remembered, or neither.
LEMMA SaveKeepsInv ==
  ASSUME PoolInv, NEW t \in Threads, Save(t)
  PROVE  PoolInv'
<1> DEFINE c == call[t]
           k == call[t].key
           entry == [key |-> k, sent |-> c.sent, lasting |-> c.answer = "lasting"]
           backed(e) == [kept |-> TRUE, address |-> e.key.address,
                         epoch |-> e.key.epoch, fresh |-> TRUE]
<1> USE DEF PoolInv
<1>1. /\ c \in Calls /\ c # NoCall /\ c.at \in Sending
      /\ busy \in SUBSET Sources /\ generation \in Nat
  BY InCall DEF Save, Places, Sending, TypeOK
<1>2. /\ busy' \in SUBSET Sources
      /\ call' = [call EXCEPT ![t] = NoCall]
      /\ UNCHANGED <<row, edits, generation, refreshVars>>
  BY <1>1 DEF Save, Return
<1>3. CASE UNCHANGED <<pool, cache>>
  BY <1>2, <1>3, EndKeepsInv DEF storeVars, memoryVars
<1>4. CASE /\ c.seen = generation
           /\ SaveTrustedObservation(k, c.answer)
           /\ Remember(c)
  <2>1. /\ k \in Key /\ c.answer \in Answers /\ c.sent \in Nat
        /\ k.epoch <= row[k.source].epoch
        /\ c.sent = generation
    BY <1>1, <1>4 DEF Calls, KeysArePast, SeenBeforeSent
  <2>2. entry \in Cached
    BY <2>1 DEF Cached
  <2>3. \A e \in cache' : \/ e \in cache /\ e.key # k
                          \/ e = entry
    BY <1>4 DEF Remember
  <2>4. Observed(k, c.answer) \in Observation
    BY <2>1 DEF Observed, Observation, Key
  <2>5. /\ pool' \in [Sources -> Observation \cup {NoObservation}]
        /\ \A s \in Sources : \/ pool'[s] = pool[s]
                             \/ /\ s = k.source /\ Unchanged(k)
                                /\ pool'[s] = Observed(k, c.answer)
    BY <1>4, <2>1, <2>4 DEF SaveTrustedObservation, TypeOK, Key
  <2>6. TypeOK'
    <3>1. cache' \in SUBSET Cached /\ \A e, f \in cache' : e.key = f.key => e = f
      BY <2>2, <2>3 DEF TypeOK
    <3>2. call' \in [Threads -> Calls \cup {NoCall}]
      BY <1>2 DEF TypeOK
    <3> QED
      BY <1>2, <2>5, <3>1, <3>2 DEF TypeOK, refreshVars
  <2>7. KeysArePast'
    <3>1. \A e \in cache' : e.key.epoch <= row[e.key.source].epoch
      BY <2>1, <2>3 DEF KeysArePast
    <3>2. \A u \in Threads : call'[u] = call[u] \/ call'[u] = NoCall
      BY <1>2 DEF TypeOK
    <3> QED
      BY <1>2, <3>1, <3>2 DEF KeysArePast
  <2>8. SeenBeforeSent'
    <3>1. \A u \in Threads : call'[u] = call[u] \/ call'[u] = NoCall
      BY <1>2 DEF TypeOK
    <3> QED
      BY <1>2, <3>1 DEF SeenBeforeSent
  <2>9. PoolIsCurrent'
    BY <1>2, <2>5 DEF PoolIsCurrent, Unchanged, Observed
  <2>10. CacheIsAfterRefresh'
    BY <1>2, <2>1, <2>3 DEF CacheIsAfterRefresh
  <2>11. CacheIsBacked'
    <3> SUFFICES ASSUME NEW e \in cache', e.lasting, Unchanged(e.key)
                 PROVE  pool'[e.key.source] = backed(e)
      <4>1. \A j : Unchanged(j)' <=> Unchanged(j)
        BY <1>2 DEF Unchanged
      <4> QED
        BY <4>1 DEF CacheIsBacked
    <3>1. e \in Cached /\ e.key \in Key
      BY <2>6 DEF TypeOK, Cached
    <3>2. CASE e = entry
      <4>1. c.answer = "lasting"
        BY <3>2
      <4>2. Unchanged(k)
        BY <3>2
      <4>3. pool'[k.source] = Observed(k, c.answer)
        BY <1>4, <2>1, <4>1, <4>2 DEF SaveTrustedObservation, TypeOK, Key
      <4> QED
        BY <3>2, <4>1, <4>3 DEF Observed
    <3>3. CASE e \in cache /\ e.key # k
      <4>1. pool[e.key.source] = backed(e)
        BY <3>3 DEF CacheIsBacked
      <4>2. pool'[e.key.source] = pool[e.key.source]
        <5>1. e.key.source = k.source /\ Unchanged(k) => e.key = k
          BY <2>1, <3>1 DEF Unchanged, Key
        <5> QED
          BY <2>5, <3>1, <3>3, <5>1 DEF Key
      <4> QED
        BY <4>1, <4>2
    <3> QED
      BY <2>3, <3>2, <3>3
  <2> QED
    BY <2>6, <2>7, <2>8, <2>9, <2>10, <2>11
<1> QED
  BY <1>3, <1>4 DEF Save

-----------------------------------------------------------------------------
(* The theorems                                                            *)

LEMMA NextKeepsInv == PoolInv /\ [Next]_vars => PoolInv'
<1> SUFFICES ASSUME PoolInv, [Next]_vars PROVE PoolInv'
  OBVIOUS
<1>1. ASSUME NEW s \in Sources, NEW active \in BOOLEAN, NEW address \in Addresses,
             EditRow(s, active, address)
      PROVE  PoolInv'
  BY <1>1, EditKeepsInv
<1>2. ASSUME NEW s \in Sources, Expire(s) \/ Prune(s) PROVE PoolInv'
  BY <1>2, ExpireKeepsInv, PruneKeepsInv
<1>3. CASE QueueAll \/ RefreshReads \/ RefreshPrunes
  BY <1>3, QueueAllKeepsInv, RefreshKeepsInv
<1>4. ASSUME NEW t \in Threads, Lookup(t) PROVE PoolInv'
  BY <1>4, AcquireKeepsInv, ReadGenerationKeepsInv, CheckKeepsInv, ProbeEndsKeepsInv,
     RecheckKeepsInv, SaveKeepsInv DEF Lookup
<1>5. ASSUME NEW t \in Threads, NEW s \in Sources, NEW asReference \in BOOLEAN,
             Begin(t, s, asReference)
      PROVE  PoolInv'
  BY <1>5, BeginKeepsInv
<1>6. CASE UNCHANGED vars
  BY <1>6 DEF vars, storeVars, memoryVars, refreshVars, PoolInv, TypeOK, KeysArePast,
              SeenBeforeSent, PoolIsCurrent, CacheIsAfterRefresh, CacheIsBacked, Unchanged
<1> QED
  BY <1>1, <1>2, <1>3, <1>4, <1>5, <1>6 DEF Next

LEMMA PoolInvAlways == Spec => []PoolInv
  BY InitPool, NextKeepsInv, PTL DEF Spec

\* Evidence of a source that was revoked, edited or deleted is never in the
\* pool, however late its query ends (SaveTrustedObservation and the trigger).
THEOREM EvidenceIsCurrent == Spec => []PoolIsCurrent
<1>1. PoolInv => PoolIsCurrent
  BY DEF PoolInv
<1> QED
  BY <1>1, PoolInvAlways, PTL

\* A query sent before a refresh-all never refills the cache QueueAll emptied
\* (cacheGeneration).
THEOREM CacheStartsOver == Spec => []CacheIsAfterRefresh
<1>1. PoolInv => CacheIsAfterRefresh
  BY DEF PoolInv
<1> QED
  BY <1>1, PoolInvAlways, PTL

\* A usable cached answer of the current row has its fresh observation in the
\* pool: a cache hit never leaves a collection without the reference.
THEOREM CacheHasEvidence == Spec => []CacheIsBacked
<1>1. PoolInv => CacheIsBacked
  BY DEF PoolInv
<1> QED
  BY <1>1, PoolInvAlways, PTL

=============================================================================
