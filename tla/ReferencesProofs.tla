--------------------------- MODULE ReferencesProofs ---------------------------
(***************************************************************************)
(* Proofs about References, for any number of workers and sources: one     *)
(* collection at a time, no wake-up lost, and one budget for all targets.   *)
(***************************************************************************)
EXTENDS References, TLAPS

-----------------------------------------------------------------------------
(* The inductive invariant                                                 *)

\* NoLostFill, for the workers that have taken the channels and are about to
\* read the pool as well: what they read cannot have been filled unnoticed.
WaitersHeard ==
  \A c \in Callers : call[c].at \in Waiting /\ ~call[c].woken =>
    /\ collection.busy
    /\ ~paused
    /\ call[c].at = "wait" /\ usable =>
         filled \/ \E d \in Callers : call[d].at = "release"

\* the queries a worker may still send: one more while it asks for its slot
Ahead(r) == IF r.at = "acquire" THEN r.left + 1 ELSE r.left

\* A collection begins with nothing spent, and never has more ahead of it than
\* it has left.
BudgetKept ==
  /\ queries <= SourceCount
  /\ ~collection.busy /\ ~collection.limited => queries = 0
  /\ \A c \in Collectors : queries + Ahead(call[c]) <= SourceCount

RefInv == TypeOK /\ SingleFlight /\ WaitersHeard /\ BudgetKept

LEMMA InitRefs == Init => RefInv
<1> SUFFICES ASSUME Init PROVE RefInv
  OBVIOUS
<1>1. TypeOK
  BY DEF Init, TypeOK, Collection, NewCollection, Errors
<1>2. \A c \in Callers : call[c].at = "idle"
  BY DEF Init, NoCall
<1>3. SingleFlight /\ WaitersHeard /\ BudgetKept
  BY <1>2, ReferencesAssumption
     DEF Init, NewCollection, SingleFlight, WaitersHeard, BudgetKept, Collectors,
         Collecting, Waiting
<1> QED
  BY <1>1, <1>3 DEF RefInv

-----------------------------------------------------------------------------
(* The callers                                                             *)

LEMMA InCall ==
  ASSUME TypeOK, NEW c \in Callers, call[c].at \in Places
  PROVE  call[c] \in Calls
<1>1. call[c] # NoCall
  BY DEF NoCall, Places, Waiting, Collecting
<1> QED
  BY <1>1 DEF TypeOK

\* A step of one caller that touches nothing shared: it neither takes up nor
\* gives up a collection, waits only for one, and asks for no more than it had.
LEMMA CallerKeepsInv ==
  ASSUME RefInv, NEW c \in Callers, NEW r \in Calls \cup {NoCall},
         call' = [call EXCEPT ![c] = r],
         UNCHANGED <<envVars, collection, queries>>, calls' \in Nat,
         call[c].at # "release",
         r.at \in Collecting <=> call[c].at \in Collecting,
         r.at \in Collecting => Ahead(r) <= Ahead(call[c]),
         r.at \in Waiting /\ ~r.woken =>
           collection.busy /\ ~paused /\ (r.at = "wait" => ~usable)
  PROVE  RefInv'
<1> USE DEF RefInv, envVars
<1>1. /\ call' \in [Callers -> Calls \cup {NoCall}]
      /\ call'[c] = r /\ \A d \in Callers \ {c} : call'[d] = call[d]
  BY DEF TypeOK
<1>2. TypeOK'
  BY <1>1 DEF TypeOK
<1>3. Collectors' = Collectors
  BY <1>1 DEF Collectors
<1>4. SingleFlight'
  BY <1>3 DEF SingleFlight
<1>5. WaitersHeard'
  BY <1>1 DEF WaitersHeard
<1>6. BudgetKept'
  <2>1. ASSUME NEW d \in Collectors PROVE queries + Ahead(call'[d]) <= SourceCount
    <3>1. CASE d # c
      BY <1>1, <3>1 DEF Collectors, BudgetKept
    <3>2. CASE d = c
      <4>1. r \in Calls /\ call[c] \in Calls
        BY <3>2, InCall DEF Collectors, Places, Collecting, NoCall
      <4>2. Ahead(r) \in Nat /\ Ahead(call[c]) \in Nat /\ queries \in Nat
        BY <4>1 DEF Ahead, Calls, TypeOK
      <4>3. Ahead(r) <= Ahead(call[c]) /\ queries + Ahead(call[c]) <= SourceCount
        BY <3>2 DEF Collectors, BudgetKept
      <4> QED
        BY <1>1, <3>2, <4>2, <4>3, ReferencesAssumption
    <3> QED
      BY <3>1, <3>2
  <2>2. \A d : Ahead(call[d])' = Ahead(call'[d])
    BY DEF Ahead
  <2> QED
    BY <1>3, <2>1, <2>2 DEF BudgetKept
<1> QED
  BY <1>2, <1>4, <1>5, <1>6

LEMMA ReturnKeepsInv ==
  ASSUME RefInv, NEW c \in Callers, Return(c),
         UNCHANGED <<envVars, collection, queries, calls>>,
         call[c].at \notin Collecting
  PROVE  RefInv'
<1>1. NoCall.at \notin Collecting /\ NoCall.at \notin Waiting
  BY DEF NoCall, Collecting, Waiting
<1>2. calls' \in Nat /\ call[c].at # "release"
  BY DEF RefInv, TypeOK, Collecting
<1> QED
  BY <1>1, <1>2, CallerKeepsInv DEF Return, Becomes

LEMMA GoToKeepsInv ==
  ASSUME RefInv, NEW c \in Callers, call[c].at \in Places, NEW place \in Places,
         GoTo(c, place),
         UNCHANGED <<envVars, collection, queries, calls>>,
         call[c].at # "release",
         place # "acquire",
         place \in Collecting <=> call[c].at \in Collecting,
         place \in Waiting => place = "wait" /\ ~usable /\ call[c].at \in Waiting
  PROVE  RefInv'
<1> DEFINE r == [call[c] EXCEPT !.at = place]
<1>1. call[c] \in Calls /\ calls' \in Nat
  BY InCall DEF RefInv, TypeOK
<1>2. /\ r \in Calls /\ r.at = place /\ r.left = call[c].left /\ r.woken = call[c].woken
      /\ r.left \in Nat
  BY <1>1 DEF Calls
<1>3. Ahead(r) <= Ahead(call[c])
  BY <1>1, <1>2 DEF Ahead, Calls
<1>4. call' = [call EXCEPT ![c] = r]
  BY DEF GoTo, Becomes
<1>5. r.at \in Waiting /\ ~r.woken =>
        collection.busy /\ ~paused /\ (r.at = "wait" => ~usable)
  BY <1>2 DEF RefInv, WaitersHeard
<1> HIDE DEF r
<1> QED
  BY <1>1, <1>2, <1>3, <1>4, <1>5, CallerKeepsInv

LEMMA BeginKeepsInv ==
  ASSUME RefInv, NEW c \in Callers, Begin(c)
  PROVE  RefInv'
<1>1. NewCall \in Calls /\ NewCall.at = "read" /\ calls' \in Nat
  BY DEF Begin, NewCall, Calls, Places, Errors, RefInv, TypeOK
<1>2. call[c].at = "idle"
  BY DEF Begin, NoCall
<1> QED
  BY <1>1, <1>2, CallerKeepsInv DEF Begin, Becomes, Collecting, Waiting

LEMMA ReadKeepsInv ==
  ASSUME RefInv, NEW c \in Callers,
         Read(c) \/ LockPaused(c) \/ LockRefused(c) \/ Reread(c) \/ Wait(c)
  PROVE  RefInv'
<1>1. CASE Return(c)
  <2>1. call[c].at \notin Collecting /\ UNCHANGED <<envVars, collection, queries, calls>>
    BY DEF Read, LockPaused, LockRefused, Reread, Wait, Collecting
  <2> QED
    BY <1>1, <2>1, ReturnKeepsInv
<1>2. CASE /\ GoTo(c, "snapshot") \/ GoTo(c, "read")
           /\ call[c].at \in {"read", "wait"}
           /\ UNCHANGED <<envVars, collection, queries, calls>>
  BY <1>2, GoToKeepsInv DEF Places, Collecting, Waiting
<1>3. CASE /\ GoTo(c, "wait") /\ ~usable /\ call[c].at = "reread"
           /\ UNCHANGED <<envVars, collection, queries, calls>>
  BY <1>3, GoToKeepsInv DEF Places, Collecting, Waiting
<1> QED
  BY <1>1, <1>2, <1>3 DEF Read, LockPaused, LockRefused, Reread, Wait

LEMMA SnapshotKeepsInv ==
  ASSUME RefInv, NEW c \in Callers, Snapshot(c)
  PROVE  RefInv'
<1> DEFINE r == [call[c] EXCEPT !.at = "lock", !.fingerprint = sources]
<1>1. call[c] \in Calls /\ sources \in Nat /\ calls' \in Nat
  BY InCall DEF Snapshot, Places, RefInv, TypeOK
<1>2. r \in Calls /\ r.at = "lock"
  BY <1>1 DEF Calls, Places
<1>3. /\ Return(c) \/ call' = [call EXCEPT ![c] = r]
      /\ UNCHANGED <<envVars, collection, queries>>
  BY DEF Snapshot, Becomes
<1>4. r.at \notin Collecting /\ r.at \notin Waiting /\ call[c].at \notin Collecting
      /\ call[c].at # "release"
  BY <1>2 DEF Snapshot, Collecting, Waiting
<1> HIDE DEF r
<1>5. CASE Return(c)
  BY <1>4, <1>5, ReturnKeepsInv DEF Snapshot
<1>6. CASE call' = [call EXCEPT ![c] = r]
  BY <1>1, <1>2, <1>3, <1>4, <1>6, CallerKeepsInv
<1> QED
  BY <1>3, <1>5, <1>6

LEMMA LockWaitsKeepsInv ==
  ASSUME RefInv, NEW c \in Callers, LockWaits(c)
  PROVE  RefInv'
<1> DEFINE r == [call[c] EXCEPT !.at = "reread", !.woken = FALSE]
<1>1. call[c] \in Calls /\ calls' \in Nat
  BY InCall DEF LockWaits, Places, RefInv, TypeOK
<1>2. r \in Calls /\ r.at = "reread"
  BY <1>1 DEF Calls, Places, Waiting
<1>3. call' = [call EXCEPT ![c] = r] /\ UNCHANGED <<envVars, collection, queries>>
  BY DEF LockWaits, Becomes
<1>4. r.at \notin Collecting /\ call[c].at \notin Collecting /\ call[c].at # "release"
      /\ collection.busy /\ ~paused
  BY <1>2 DEF LockWaits, Busy, Collecting
<1> HIDE DEF r
<1> QED
  BY <1>1, <1>2, <1>3, <1>4, CallerKeepsInv

LEMMA NextSourceKeepsInv ==
  ASSUME RefInv, NEW c \in Callers, NextSource(c)
  PROVE  RefInv'
<1>1. /\ call[c] \in Calls /\ calls' \in Nat /\ call[c].at = "source"
      /\ call[c].left \in Nat
  BY InCall DEF NextSource, Places, Collecting, RefInv, TypeOK, Calls
<1>2. PICK r \in Calls :
        /\ call' = [call EXCEPT ![c] = r]
        /\ r.at \in {"finish", "acquire", "source"}
        /\ Ahead(r) <= Ahead(call[c])
  <2>1. CASE \E e \in {"none", "other"} :
               Becomes(c, [call[c] EXCEPT !.at = "finish", !.error = e])
    <3> PICK e \in {"none", "other"} :
          Becomes(c, [call[c] EXCEPT !.at = "finish", !.error = e])
      BY <2>1
    <3> DEFINE r == [call[c] EXCEPT !.at = "finish", !.error = e]
    <3>1. r \in Calls /\ r.at = "finish" /\ r.left = call[c].left
      BY <1>1 DEF Calls, Places, Collecting, Errors
    <3>3. call' = [call EXCEPT ![c] = r]
      BY DEF Becomes
    <3>4. Ahead(r) <= Ahead(call[c])
      BY <1>1, <3>1 DEF Ahead
    <3> HIDE DEF r
    <3> QED
      BY <3>1, <3>3, <3>4
  <2>2. CASE GoTo(c, "finish")
    <3> DEFINE r == [call[c] EXCEPT !.at = "finish"]
    <3>1. r \in Calls /\ r.at = "finish" /\ r.left = call[c].left
      BY <1>1 DEF Calls, Places, Collecting
    <3>3. call' = [call EXCEPT ![c] = r]
      BY <2>2 DEF GoTo, Becomes
    <3>4. Ahead(r) <= Ahead(call[c])
      BY <1>1, <3>1 DEF Ahead
    <3> HIDE DEF r
    <3> QED
      BY <3>1, <3>3, <3>4
  <2>3. CASE /\ SourcesLeft(c)
             /\ Becomes(c, [call[c] EXCEPT !.at = "acquire", !.left = @ - 1])
    <3> DEFINE r == [call[c] EXCEPT !.at = "acquire", !.left = @ - 1]
    <3>1. call[c].left - 1 \in Nat
      BY <1>1, <2>3 DEF SourcesLeft
    <3>2. r \in Calls /\ r.at = "acquire" /\ r.left = call[c].left - 1
      BY <1>1, <3>1 DEF Calls, Places, Collecting
    <3>3. call' = [call EXCEPT ![c] = r]
      BY <2>3 DEF Becomes
    <3>4. Ahead(r) <= Ahead(call[c])
      BY <1>1, <3>2 DEF Ahead
    <3> HIDE DEF r
    <3> QED
      BY <3>2, <3>3, <3>4
  <2>4. CASE /\ SourcesLeft(c)
             /\ Becomes(c, [call[c] EXCEPT !.left = @ - 1])
    <3> DEFINE r == [call[c] EXCEPT !.left = @ - 1]
    <3>1. call[c].left - 1 \in Nat
      BY <1>1, <2>4 DEF SourcesLeft
    <3>2. r \in Calls /\ r.at = "source" /\ r.left = call[c].left - 1
      BY <1>1, <3>1 DEF Calls, Places, Collecting
    <3>3. call' = [call EXCEPT ![c] = r]
      BY <2>4 DEF Becomes
    <3>4. Ahead(r) <= Ahead(call[c])
      BY <1>1, <3>2 DEF Ahead
    <3> HIDE DEF r
    <3> QED
      BY <3>2, <3>3, <3>4
  <2> QED
    BY <2>1, <2>2, <2>3, <2>4 DEF NextSource
<1>3. UNCHANGED <<envVars, collection, queries>>
  BY DEF NextSource
<1>4. r.at \in Collecting /\ r.at \notin Waiting /\ call[c].at \in Collecting
  BY <1>1, <1>2 DEF Collecting, Waiting
<1> QED
  BY <1>1, <1>2, <1>3, <1>4, CallerKeepsInv

LEMMA OutcomeKeepsInv ==
  ASSUME RefInv, NEW c \in Callers, Outcome(c) \/ Interrupted(c)
  PROVE  RefInv'
<1>1. CASE /\ GoTo(c, "finish") \/ GoTo(c, "interrupted") \/ GoTo(c, "source")
           /\ call[c].at \in {"outcome", "interrupted"}
           /\ UNCHANGED <<envVars, collection, queries, calls>>
  BY <1>1, GoToKeepsInv DEF Places, Collecting, Waiting
<1>2. ASSUME NEW e \in {"none", "other"},
             Becomes(c, [call[c] EXCEPT !.at = "finish", !.error = e]),
             call[c].at = "outcome",
             UNCHANGED <<envVars, collection, queries, calls>>
      PROVE  RefInv'
  <2> DEFINE r == [call[c] EXCEPT !.at = "finish", !.error = e]
  <2>1. call[c] \in Calls /\ calls' \in Nat
    BY <1>2, InCall DEF Places, Collecting, RefInv, TypeOK
  <2>2. r \in Calls /\ r.at = "finish" /\ r.left = call[c].left /\ r.left \in Nat
    BY <2>1 DEF Calls, Places, Collecting, Errors
  <2>3. call' = [call EXCEPT ![c] = r]
    BY <1>2 DEF Becomes
  <2>4. r.at \in Collecting /\ r.at \notin Waiting /\ call[c].at \in Collecting
        /\ call[c].at # "release" /\ Ahead(r) <= Ahead(call[c])
    BY <1>2, <2>2 DEF Collecting, Waiting, Ahead
  <2> HIDE DEF r
  <2> QED
    BY <1>2, <2>1, <2>2, <2>3, <2>4, CallerKeepsInv
<1> QED
  BY <1>1, <1>2 DEF Outcome, Interrupted

LEMMA AcquireKeepsInv ==
  ASSUME RefInv, NEW c \in Callers, Acquire(c)
  PROVE  RefInv'
<1>1. /\ call[c] \in Calls /\ calls \in Nat /\ queries \in Nat
      /\ call[c].at = "acquire" /\ call[c].left \in Nat
      /\ UNCHANGED <<envVars, collection, calls>>
  BY InCall DEF Acquire, Places, Collecting, RefInv, TypeOK, Calls
<1>2. PICK r \in Calls :
        /\ call' = [call EXCEPT ![c] = r]
        /\ r.at \in {"outcome", "query"} /\ r.left = call[c].left
        /\ queries' = queries \/ queries' = queries + 1
  <2>1. CASE \E e \in {"paused", "other"} :
               Becomes(c, [call[c] EXCEPT !.at = "outcome", !.error = e])
             /\ UNCHANGED queries
    <3> PICK e \in {"paused", "other"} :
          Becomes(c, [call[c] EXCEPT !.at = "outcome", !.error = e]) /\ UNCHANGED queries
      BY <2>1
    <3> DEFINE r == [call[c] EXCEPT !.at = "outcome", !.error = e]
    <3>1. r \in Calls /\ r.at = "outcome" /\ r.left = call[c].left
      BY <1>1 DEF Calls, Places, Collecting, Errors
    <3>2. call' = [call EXCEPT ![c] = r]
      BY DEF Becomes
    <3> HIDE DEF r
    <3> QED
      BY <3>1, <3>2
  <2>2. CASE \E place \in {"outcome", "query"} :
               GoTo(c, place) /\ (queries' = queries \/ queries' = queries + 1)
    <3> PICK place \in {"outcome", "query"} :
          GoTo(c, place) /\ (queries' = queries \/ queries' = queries + 1)
      BY <2>2
    <3> DEFINE r == [call[c] EXCEPT !.at = place]
    <3>1. r \in Calls /\ r.at = place /\ r.left = call[c].left
      BY <1>1 DEF Calls, Places, Collecting
    <3>2. call' = [call EXCEPT ![c] = r]
      BY DEF GoTo, Becomes
    <3> HIDE DEF r
    <3> QED
      BY <3>1, <3>2
  <2> QED
    BY <2>1, <2>2 DEF Acquire
<1> USE DEF RefInv, envVars
<1>3. /\ call' \in [Callers -> Calls \cup {NoCall}]
      /\ call'[c] = r /\ \A d \in Callers \ {c} : call'[d] = call[d]
  BY <1>2 DEF TypeOK
<1>4. c \in Collectors /\ Collectors' = Collectors
  BY <1>1, <1>2, <1>3 DEF Collectors, Collecting
<1>5. TypeOK' /\ SingleFlight' /\ WaitersHeard'
  <2>1. TypeOK'
    BY <1>1, <1>2, <1>3 DEF TypeOK
  <2>2. SingleFlight'
    BY <1>1, <1>4 DEF SingleFlight
  <2>3. r.at \notin Waiting
    BY <1>2 DEF Waiting
  <2>4. WaitersHeard'
    BY <1>1, <1>3, <2>3 DEF WaitersHeard
  <2> QED
    BY <2>1, <2>2, <2>4
<1>6. BudgetKept'
  <2>1. /\ Ahead(call[c]) = call[c].left + 1
        /\ queries + Ahead(call[c]) <= SourceCount
        /\ Ahead(call[c])' = call[c].left
    BY <1>1, <1>2, <1>3, <1>4 DEF BudgetKept, Ahead
  <2>2. queries' + Ahead(call[c])' <= SourceCount /\ queries' <= SourceCount
    BY <1>1, <1>2, <2>1, ReferencesAssumption
  <2>3. \A d \in Collectors : d = c
    BY <1>4 DEF SingleFlight
  <2>4. collection.busy
    BY <1>4 DEF SingleFlight
  <2> QED
    BY <1>1, <1>4, <2>2, <2>3, <2>4 DEF BudgetKept
<1> QED
  BY <1>5, <1>6

LEMMA LockCollectsKeepsInv ==
  ASSUME RefInv, NEW c \in Callers, LockCollects(c)
  PROVE  RefInv'
<1> DEFINE r == [call[c] EXCEPT !.at = "source", !.generation = generation,
                                !.left = SourceCount]
<1> USE DEF RefInv, envVars
<1>1. /\ call[c] \in Calls /\ generation \in Nat /\ SourceCount \in Nat
      /\ call[c].at = "lock" /\ collection \in Collection
      /\ UNCHANGED <<envVars, calls>>
  BY InCall, ReferencesAssumption DEF LockCollects, Places, TypeOK
<1>2. r \in Calls /\ r.at = "source" /\ r.left = SourceCount
  BY <1>1 DEF Calls, Places, Collecting
<1>3. call' = [call EXCEPT ![c] = r]
  BY DEF LockCollects, Becomes
<1> HIDE DEF r
<1>4. /\ call' \in [Callers -> Calls \cup {NoCall}]
      /\ call'[c] = r /\ \A d \in Callers \ {c} : call'[d] = call[d]
  BY <1>2, <1>3 DEF TypeOK
<1>5. /\ collection' \in Collection /\ collection'.busy
      /\ ~collection.busy
  <2>1. call[c].fingerprint \in Nat
    BY <1>1 DEF Calls
  <2> QED
    BY <1>1, <2>1 DEF LockCollects, Collection, Busy
<1>6. Collectors = {} /\ Collectors' = {c}
  BY <1>2, <1>4, <1>5 DEF SingleFlight, Collectors, Collecting
<1>7. queries' = 0
  <2>1. CASE collection.fingerprint = call[c].fingerprint
    <3>1. ~collection.limited
      BY <2>1 DEF LockCollects, Limited
    <3> QED
      BY <1>5, <2>1, <3>1 DEF LockCollects, BudgetKept
  <2>2. CASE collection.fingerprint # call[c].fingerprint
    BY <2>2 DEF LockCollects
  <2> QED
    BY <2>1, <2>2
<1>8. TypeOK'
  BY <1>1, <1>4, <1>5, <1>7 DEF TypeOK
<1>9. SingleFlight'
  BY <1>5, <1>6 DEF SingleFlight
<1>10. WaitersHeard'
  BY <1>1, <1>2, <1>4, <1>5 DEF WaitersHeard, Waiting
<1>11. BudgetKept'
  <2>1. Ahead(call[c])' = SourceCount
    BY <1>2, <1>4 DEF Ahead
  <2> QED
    BY <1>1, <1>5, <1>6, <1>7, <2>1 DEF BudgetKept
<1> QED
  BY <1>8, <1>9, <1>10, <1>11

LEMMA QueryEndsKeepsInv ==
  ASSUME RefInv, NEW c \in Callers, QueryEnds(c)
  PROVE  RefInv'
<1> USE DEF RefInv, envVars
<1>1. /\ call[c] \in Calls /\ call[c].at = "query" /\ call[c].left \in Nat
      /\ usable' \in BOOLEAN
      /\ UNCHANGED <<sources, paused, generation, cancelled, filled, pauses, collection,
                     queries, calls>>
  BY InCall DEF QueryEnds, Places, Collecting, TypeOK, Calls
<1>2. PICK r \in Calls : /\ call' = [call EXCEPT ![c] = r]
                         /\ r.at = "release" /\ r.left = call[c].left
  <2>1. CASE GoTo(c, "release")
    <3> DEFINE r == [call[c] EXCEPT !.at = "release"]
    <3>1. r \in Calls /\ r.at = "release" /\ r.left = call[c].left
      BY <1>1 DEF Calls, Places, Collecting
    <3>2. call' = [call EXCEPT ![c] = r]
      BY <2>1 DEF GoTo, Becomes
    <3> HIDE DEF r
    <3> QED
      BY <3>1, <3>2
  <2>2. CASE Becomes(c, [call[c] EXCEPT !.at = "release", !.error = "other"])
    <3> DEFINE r == [call[c] EXCEPT !.at = "release", !.error = "other"]
    <3>1. r \in Calls /\ r.at = "release" /\ r.left = call[c].left
      BY <1>1 DEF Calls, Places, Collecting, Errors
    <3>2. call' = [call EXCEPT ![c] = r]
      BY <2>2 DEF Becomes
    <3> HIDE DEF r
    <3> QED
      BY <3>1, <3>2
  <2> QED
    BY <2>1, <2>2 DEF QueryEnds
<1>3. /\ call' \in [Callers -> Calls \cup {NoCall}]
      /\ call'[c] = r /\ \A d \in Callers \ {c} : call'[d] = call[d]
  BY <1>2 DEF TypeOK
<1>4. Collectors' = Collectors
  BY <1>1, <1>2, <1>3 DEF Collectors, Collecting
<1>5. TypeOK'
  BY <1>1, <1>3 DEF TypeOK
<1>6. SingleFlight'
  BY <1>1, <1>4 DEF SingleFlight
<1>7. WaitersHeard'
  BY <1>1, <1>2, <1>3 DEF WaitersHeard, Waiting
<1>8. BudgetKept'
  <2>1. \A d \in Collectors : Ahead(call[d])' = Ahead(call[d])
    BY <1>1, <1>2, <1>3 DEF Ahead, Collectors
  <2> QED
    BY <1>1, <1>4, <2>1 DEF BudgetKept
<1> QED
  BY <1>5, <1>6, <1>7, <1>8

-----------------------------------------------------------------------------
(* The steps that wake                                                     *)

\* Waking changes nothing but woken, and leaves no waiter unwoken.
LEMMA WokenFacts ==
  ASSUME TypeOK
  PROVE  /\ Woken(call) \in [Callers -> Calls \cup {NoCall}]
         /\ \A d \in Callers : /\ Woken(call)[d].at = call[d].at
                               /\ call[d].at \in Collecting => Woken(call)[d] = call[d]
                               /\ call[d].at \in Waiting => Woken(call)[d].woken
<1> SUFFICES ASSUME NEW d \in Callers
             PROVE  /\ Woken(call)[d] \in Calls \cup {NoCall}
                    /\ Woken(call)[d].at = call[d].at
                    /\ call[d].at \in Collecting => Woken(call)[d] = call[d]
                    /\ call[d].at \in Waiting => Woken(call)[d].woken
  BY DEF Woken
<1>1. CASE call[d].at \in Waiting
  <2>1. call[d] \in Calls
    BY <1>1, InCall DEF Places
  <2>2. Woken(call)[d] = [call[d] EXCEPT !.woken = TRUE]
    BY <1>1 DEF Woken
  <2> QED
    BY <1>1, <2>1, <2>2 DEF Calls, Waiting, Collecting
<1>2. CASE call[d].at \notin Waiting
  BY <1>2 DEF Woken, TypeOK
<1> QED
  BY <1>1, <1>2

\* A step that only wakes, whatever becomes of the pool, the pause and the
\* probes of others.
LEMMA WakingKeepsInv ==
  ASSUME RefInv, call' = Woken(call),
         paused' \in BOOLEAN, filled' \in BOOLEAN, pauses' \in Nat,
         UNCHANGED <<usable, sources, generation, cancelled, collection, queries, calls>>
  PROVE  RefInv'
<1>0. /\ call' \in [Callers -> Calls \cup {NoCall}]
      /\ \A d \in Callers : /\ call'[d].at = call[d].at
                            /\ call[d].at \in Collecting => call'[d] = call[d]
                            /\ call[d].at \in Waiting => call'[d].woken
  BY WokenFacts DEF RefInv
<1>1. Collectors' = Collectors
  <2>1. \A d \in Callers : call'[d].at = call[d].at
    BY <1>0
  <2> QED
    BY <2>1 DEF Collectors
<1>2. TypeOK'
  BY <1>0 DEF RefInv, TypeOK
<1>3. SingleFlight'
  BY <1>1 DEF RefInv, SingleFlight
<1>4. WaitersHeard'
  BY <1>0 DEF WaitersHeard
<1>5. BudgetKept'
  <2>1. \A d \in Collectors : call'[d] = call[d]
    BY <1>0 DEF Collectors
  <2>2. \A d \in Collectors : Ahead(call[d])' = Ahead(call[d])
    BY <2>1 DEF Ahead
  <2> QED
    BY <1>1, <2>2 DEF RefInv, BudgetKept
<1> QED
  BY <1>2, <1>3, <1>4, <1>5 DEF RefInv

LEMMA ReleaseKeepsInv ==
  ASSUME RefInv, NEW c \in Callers, Release(c)
  PROVE  RefInv'
<1> DEFINE r == [Woken(call)[c] EXCEPT !.at = "outcome"]
<1>0. /\ Woken(call) \in [Callers -> Calls \cup {NoCall}]
      /\ \A d \in Callers : /\ Woken(call)[d].at = call[d].at
                            /\ call[d].at \in Collecting => Woken(call)[d] = call[d]
                            /\ call[d].at \in Waiting => Woken(call)[d].woken
  BY WokenFacts DEF RefInv
<1>1. /\ call[c] \in Calls /\ call[c].at = "release" /\ Woken(call)[c] = call[c]
      /\ UNCHANGED <<usable, sources, paused, generation, cancelled, filled, pauses>>
      /\ UNCHANGED <<collection, queries, calls>>
  BY <1>0, InCall DEF Release, Places, Collecting, RefInv, envVars
<1>2. r \in Calls /\ r.at = "outcome" /\ r.left = call[c].left
  BY <1>1 DEF Calls, Places, Collecting
<1>3. call' = [Woken(call) EXCEPT ![c] = r]
  BY DEF Release
<1> HIDE DEF r
<1>4. /\ call' \in [Callers -> Calls \cup {NoCall}]
      /\ call'[c] = r /\ \A d \in Callers \ {c} : call'[d] = Woken(call)[d]
  BY <1>0, <1>2, <1>3
<1>5. Collectors' = Collectors
  <2>1. \A d \in Callers : call'[d].at \in Collecting <=> call[d].at \in Collecting
    BY <1>0, <1>1, <1>2, <1>4 DEF Collecting
  <2> QED
    BY <2>1 DEF Collectors
<1>6. TypeOK'
  BY <1>1, <1>4 DEF RefInv, TypeOK
<1>7. SingleFlight'
  BY <1>1, <1>5 DEF RefInv, SingleFlight
<1>8. WaitersHeard'
  <2>1. \A d \in Callers : call'[d].at \in Waiting => call'[d].woken
    <3>1. r.at \notin Waiting
      BY <1>2 DEF Waiting
    <3> QED
      BY <1>0, <1>4, <3>1
  <2> QED
    BY <2>1 DEF WaitersHeard
<1>9. BudgetKept'
  <2>1. \A d \in Collectors : Ahead(call[d])' = Ahead(call[d])
    <3> SUFFICES ASSUME NEW d \in Collectors PROVE Ahead(call[d])' = Ahead(call[d])
      OBVIOUS
    <3>1. CASE d = c
      BY <1>1, <1>2, <1>4, <3>1 DEF Ahead
    <3>2. CASE d # c
      BY <1>0, <1>4, <3>2 DEF Collectors, Ahead
    <3> QED
      BY <3>1, <3>2
  <2> QED
    BY <1>1, <1>5, <2>1 DEF RefInv, BudgetKept
<1> QED
  BY <1>6, <1>7, <1>8, <1>9 DEF RefInv

LEMMA FinishKeepsInv ==
  ASSUME RefInv, NEW c \in Callers, Finish(c)
  PROVE  RefInv'
<1>0. /\ Woken(call) \in [Callers -> Calls \cup {NoCall}]
      /\ \A d \in Callers : /\ Woken(call)[d].at = call[d].at
                            /\ call[d].at \in Waiting => Woken(call)[d].woken
  BY WokenFacts DEF RefInv
<1>1. /\ call[c] \in Calls /\ call[c].at = "finish" /\ c \in Collectors
      /\ collection \in Collection
      /\ UNCHANGED <<usable, sources, paused, generation, cancelled, filled, pauses, calls>>
  BY InCall DEF Finish, Places, Collecting, Collectors, TypeOK, RefInv, envVars
<1>2. /\ collection' \in Collection /\ ~collection'.busy
      /\ collection'.limited <=> ~(cancelled \/ Stopped(c))
  <2>1. call[c].error \in Errors /\ LimitedAfter(c) \in BOOLEAN
    BY <1>1 DEF Calls, LimitedAfter
  <2>2. collection'.error \in Errors
    BY <1>1, <2>1 DEF Finish, Collection, Errors
  <2> QED
    BY <1>1, <2>1, <2>2 DEF Finish, Collection, LimitedAfter
<1>3. call' = [Woken(call) EXCEPT ![c] = NoCall]
  BY DEF Finish
<1>4. /\ call' \in [Callers -> Calls \cup {NoCall}]
      /\ call'[c] = NoCall /\ \A d \in Callers \ {c} : call'[d] = Woken(call)[d]
  BY <1>0, <1>3
<1>5. Collectors' = {}
  <2>1. \A d \in Callers : call'[d].at \notin Collecting
    <3>1. \A d \in Callers : call[d].at \in Collecting => d = c
      BY <1>1 DEF RefInv, SingleFlight, Collectors
    <3>2. NoCall.at \notin Collecting
      BY DEF NoCall, Collecting
    <3> QED
      BY <1>0, <1>4, <3>1, <3>2
  <2> QED
    BY <2>1 DEF Collectors
<1>6. /\ queries' = 0 \/ queries' = queries
      /\ ~collection'.limited => queries' = 0
  BY <1>2 DEF Finish
<1>7. TypeOK'
  BY <1>1, <1>2, <1>4, <1>6 DEF RefInv, TypeOK
<1>8. SingleFlight'
  BY <1>2, <1>5 DEF SingleFlight
<1>9. WaitersHeard'
  <2>1. \A d \in Callers : call'[d].at \in Waiting => call'[d].woken
    <3>1. NoCall.at \notin Waiting
      BY DEF NoCall, Waiting
    <3> QED
      BY <1>0, <1>4, <3>1
  <2> QED
    BY <2>1 DEF WaitersHeard
<1>10. BudgetKept'
  BY <1>1, <1>2, <1>5, <1>6, ReferencesAssumption DEF RefInv, BudgetKept
<1> QED
  BY <1>7, <1>8, <1>9, <1>10 DEF RefInv

-----------------------------------------------------------------------------
(* What happens around the callers                                         *)

\* A step that takes no call further: it may empty the pool, fill it while its
\* writer still holds a slot, give a budget back or forget it.
Around ==
  \/ Forget \/ QueueAll \/ EditSources \/ PoolAges \/ ProbeSaves \/ Elapse \/ Cancel
  \/ UNCHANGED vars

LEMMA AroundKeepsInv ==
  ASSUME RefInv, Around
  PROVE  RefInv'
<1>0. TypeOK
  BY DEF RefInv
<1>1. /\ UNCHANGED <<call, paused>>
      /\ usable' \in BOOLEAN /\ (usable' => usable \/ filled')
      /\ (filled => filled') /\ filled' \in BOOLEAN
      /\ sources' \in Nat /\ generation' \in Nat /\ cancelled' \in BOOLEAN
      /\ UNCHANGED <<calls, pauses>>
  <2>1. CASE Forget \/ QueueAll \/ Elapse
    BY <1>0, <2>1 DEF Forget, QueueAll, Elapse, TypeOK, envVars
  <2>2. CASE EditSources
    <3>1. usable' \in BOOLEAN
      BY <1>0, <2>2 DEF EditSources, TypeOK
    <3>2. CASE usable' = usable
      BY <1>0, <2>2, <3>1, <3>2 DEF EditSources, TypeOK
    <3>3. CASE usable' = FALSE
      BY <1>0, <2>2, <3>1, <3>3 DEF EditSources, TypeOK
    <3> QED
      BY <2>2, <3>2, <3>3 DEF EditSources
  <2>3. CASE PoolAges
    BY <1>0, <2>3 DEF PoolAges, TypeOK
  <2>4. CASE ProbeSaves
    <3>1. usable' \in BOOLEAN /\ filled'
      BY <1>0, <2>4 DEF ProbeSaves, TypeOK
    <3> QED
      BY <1>0, <2>4, <3>1 DEF ProbeSaves, TypeOK
  <2>5. CASE Cancel
    BY <1>0, <2>5 DEF Cancel, TypeOK
  <2>6. CASE UNCHANGED vars
    BY <1>0, <2>6 DEF vars, envVars, TypeOK
  <2> QED
    BY <2>1, <2>2, <2>3, <2>4, <2>5, <2>6 DEF Around
<1>2. /\ collection' \in Collection /\ collection'.busy = collection.busy
      /\ \/ queries' = 0
         \/ queries' = queries /\ collection' = collection
  <2>0. collection \in Collection
    BY <1>0 DEF TypeOK
  <2>1. CASE Forget
    BY <2>0, <2>1 DEF Forget, NewCollection, Collection, Errors
  <2>2. CASE QueueAll \/ Elapse
    BY <2>0, <2>2 DEF QueueAll, Elapse, Collection
  <2>3. CASE EditSources \/ PoolAges \/ ProbeSaves \/ Cancel
    BY <2>0, <2>3 DEF EditSources, PoolAges, ProbeSaves, Cancel
  <2>4. CASE UNCHANGED vars
    BY <2>0, <2>4 DEF vars
  <2> QED
    BY <2>1, <2>2, <2>3, <2>4 DEF Around
<1>3. Collectors' = Collectors
  BY <1>1 DEF Collectors
<1>4. TypeOK'
  <2>1. queries' \in Nat
    BY <1>0, <1>2 DEF TypeOK
  <2> QED
    BY <1>0, <1>1, <1>2, <2>1 DEF TypeOK
<1>5. SingleFlight'
  BY <1>2, <1>3 DEF RefInv, SingleFlight
<1>6. WaitersHeard'
  BY <1>1, <1>2, <1>3 DEF RefInv, WaitersHeard
<1>7. BudgetKept'
  <2>1. CASE queries' = queries /\ collection' = collection
    BY <1>1, <1>3, <2>1 DEF RefInv, BudgetKept, Ahead
  <2>2. CASE queries' = 0
    <3>1. \A d \in Collectors : Ahead(call[d]) \in Nat /\ Ahead(call[d])' = Ahead(call[d])
      <4> SUFFICES ASSUME NEW d \in Collectors PROVE Ahead(call[d]) \in Nat
        BY <1>1 DEF Ahead
      <4>1. call[d] \in Calls
        BY <1>0, InCall DEF Collectors, Places
      <4> QED
        BY <4>1 DEF Ahead, Calls
    <3>2. \A d \in Collectors : queries + Ahead(call[d]) <= SourceCount
      BY DEF RefInv, BudgetKept
    <3>3. queries \in Nat /\ SourceCount \in Nat
      BY <1>0, ReferencesAssumption DEF TypeOK
    <3>4. \A d \in Collectors : queries' + Ahead(call[d])' <= SourceCount
      BY <2>2, <3>1, <3>2, <3>3
    <3> QED
      BY <1>3, <2>2, <3>3, <3>4 DEF BudgetKept
  <2> QED
    BY <1>2, <2>1, <2>2
<1> QED
  BY <1>4, <1>5, <1>6, <1>7 DEF RefInv

LEMMA WakersKeepInv ==
  ASSUME RefInv, Configure \/ ProbeReleases
  PROVE  RefInv'
<1>1. /\ call' = Woken(call) /\ paused' \in BOOLEAN /\ filled' \in BOOLEAN /\ pauses' \in Nat
      /\ UNCHANGED <<usable, sources, generation, cancelled, collection, queries, calls>>
  <2>1. CASE Configure
    BY <2>1 DEF Configure, RefInv, TypeOK
  <2>2. CASE ProbeReleases
    BY <2>2 DEF ProbeReleases, RefInv, TypeOK
  <2> QED
    BY <2>1, <2>2
<1> QED
  BY <1>1, WakingKeepsInv

-----------------------------------------------------------------------------
(* The theorems                                                            *)

LEMMA NextKeepsInv == RefInv /\ [Next]_vars => RefInv'
<1> SUFFICES ASSUME RefInv, [Next]_vars PROVE RefInv'
  OBVIOUS
<1>1. ASSUME NEW c \in Callers, Begin(c) \/ Caller(c) PROVE RefInv'
  BY <1>1, BeginKeepsInv, ReadKeepsInv, SnapshotKeepsInv, LockWaitsKeepsInv,
     LockCollectsKeepsInv, NextSourceKeepsInv, AcquireKeepsInv, QueryEndsKeepsInv,
     ReleaseKeepsInv, OutcomeKeepsInv, FinishKeepsInv DEF Caller
<1> QED
  BY <1>1, AroundKeepsInv, WakersKeepInv DEF Next, Around

LEMMA RefInvAlways == Spec => []RefInv
  BY InitRefs, NextKeepsInv, PTL DEF Spec

\* At most one worker collects, and done is set exactly while it does.
THEOREM CollectionIsShared == Spec => []SingleFlight
<1>1. RefInv => SingleFlight
  BY DEF RefInv
<1> QED
  BY <1>1, RefInvAlways, PTL

\* No worker sleeps through a pause, over the end of the collection it waits
\* for, or over a pool that was filled.
THEOREM FillsAreHeard == Spec => []NoLostFill
<1>1. RefInv => NoLostFill
  <2> SUFFICES ASSUME RefInv, NEW c \in Callers, call[c].at = "wait", ~call[c].woken
               PROVE  /\ collection.busy /\ ~paused
                      /\ usable => filled \/ \E d \in Collectors : call[d].at = "release"
    BY DEF NoLostFill
  <2>1. \A d \in Callers : call[d].at = "release" => d \in Collectors
    BY DEF Collectors, Collecting
  <2> QED
    BY <2>1 DEF RefInv, WaitersHeard, Waiting
<1> QED
  BY <1>1, RefInvAlways, PTL

\* However many targets a domain has, its sources are asked once for all.
THEOREM BudgetHolds == Spec => []BudgetIsShared
<1>1. RefInv => BudgetIsShared
  BY DEF RefInv, BudgetKept, BudgetIsShared
<1> QED
  BY <1>1, RefInvAlways, PTL

=============================================================================
