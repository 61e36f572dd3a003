--------------------------- MODULE SchedulerProofs ---------------------------
(***************************************************************************)
(* Theorems about Scheduler, for every set of servers and handlers and     *)
(* every bound: the types, the accounting of the batch, the rounds that    *)
(* never overlap, the channel that never blocks and the edits that are     *)
(* never lost.                                                             *)
(***************************************************************************)
EXTENDS Scheduler, FiniteSetTheorems, TLAPS

\* A subset of the servers is finite and has a size.
LEMMA SubsetsFinite ==
  ASSUME NEW S \in SUBSET Servers
  PROVE  IsFiniteSet(S) /\ Cardinality(S) \in Nat
BY SchedulerAssumption, FS_Subset, FS_CardinalityType

\* Queue carries exactly one server to its critical section.
RequestArgs ==
  \A h \in Handlers :
    hpc[h] \in {"getServer", "queue"} => \E s \in Servers : arg[h] = {s}

TypeInv == TypeOK /\ RequestArgs

LEMMA InitTypeInv == Init => TypeInv
<1> SUFFICES ASSUME Init PROVE TypeInv
  OBVIOUS
<1>1. Cardinality({}) = 0
  BY FS_EmptySet
<1>2. refresh \in Refresh
  BY DEF Init, Refresh, Reasons
<1>3. RequestArgs
  BY DEF Init, RequestArgs
<1>4. 0 \in 0..MaxConcurrency /\ 0 <= MaxQueued
  BY SchedulerAssumption
<1>5. TypeOK
  BY <1>1, <1>2, <1>4 DEF Init, TypeOK, RunPC, HandlerPC
<1>6. QED
  BY <1>3, <1>5 DEF TypeInv

\* A handler's step keeps the types.
LEMMA HandlerTypeInv ==
  ASSUME TypeInv, NEW h \in Handlers, Handler(h) \/ Request(h)
  PROVE  TypeInv'
<1> USE DEF TypeInv, TypeOK, RequestArgs, RunPC, HandlerPC, GoTo, BeginCall, storeVars,
            monitorVars, lockVars, batchVars, runVars, readVars, loopVars, errorVars
<1>1. CASE Wake(h)
  BY <1>1 DEF Wake
<1>2. ASSUME NEW s \in Servers, NEW on \in BOOLEAN, SaveServer(h, s, on)
      PROVE  TypeInv'
  BY <1>2 DEF SaveServer
<1>3. ASSUME NEW s \in Servers, DeleteServer(h, s)
      PROVE  TypeInv'
  BY <1>3 DEF DeleteServer
<1>4. ASSUME NEW c \in 0..MaxConcurrency, SaveConfig(h, c)
      PROVE  TypeInv'
  BY <1>4 DEF SaveConfig
<1>5. ASSUME NEW s \in Servers, QueueGetConfig(h, s)
      PROVE  TypeInv'
  BY <1>5 DEF QueueGetConfig
<1>6. CASE QueueGetServer(h)
  BY <1>6 DEF QueueGetServer
<1>7. CASE QueueInsert(h)
  <2>1. PICK s \in Servers : arg[h] = {s}
    BY <1>7 DEF QueueInsert
  <2>2. ~QueueFull => Cardinality(queued \cup {s}) <= MaxQueued
    <3>1. IsFiniteSet(queued) /\ Cardinality(queued) \in Nat
      BY SubsetsFinite
    <3>2. Cardinality(queued \cup {s}) =
            IF s \in queued THEN Cardinality(queued) ELSE Cardinality(queued) + 1
      BY <3>1, FS_AddElement
    <3>3. Cardinality(queued \cup {s}) <= Cardinality(queued) + 1
      BY <3>1, <3>2
    <3>4. QED
      BY <3>1, <3>2, <3>3, SchedulerAssumption DEF QueueFull
  <2>3. queued' \in SUBSET Servers /\ Cardinality(queued') <= MaxQueued
    BY <1>7, <2>1, <2>2 DEF QueueInsert
  <2>4. QED
    BY <1>7, <2>3 DEF QueueInsert
<1>8. CASE QueueAllGetConfig(h)
  BY <1>8 DEF QueueAllGetConfig
<1>9. CASE QueueAllListServers(h)
  BY <1>9 DEF QueueAllListServers
<1>10. CASE QueueAllInstall(h)
  <2>1. Cardinality(arg[h]) \in Nat
    BY SubsetsFinite
  <2>2. refresh' \in Refresh
    <3>1. CASE refresh.pending
      BY <1>10, <3>1 DEF QueueAllInstall
    <3>2. CASE ~refresh.pending
      <4>1. refresh' = [id |-> refresh.id + 1, total |-> Cardinality(arg[h]),
                        completed |-> 0, pending |-> arg[h] # {}, error |-> "none"]
        BY <1>10, <3>2 DEF QueueAllInstall, NewBatch
      <4>2. refresh.id \in Nat /\ (arg[h] # {}) \in BOOLEAN
        BY DEF Refresh
      <4>3. QED
        BY <2>1, <4>1, <4>2 DEF Refresh, Reasons
    <3>3. QED
      BY <3>1, <3>2
  <2>3. batch' \in SUBSET Servers /\ started' \in SUBSET Servers /\ since' \in SUBSET Servers
    BY <1>10 DEF QueueAllInstall, NewBatch
  <2>4. QED
    BY <1>10, <2>2, <2>3 DEF QueueAllInstall
<1>11. QED
  BY <1>1, <1>2, <1>3, <1>4, <1>5, <1>6, <1>7, <1>8, <1>9, <1>10 DEF Handler, Request

\* The three operations of refresh.go keep the types of the batch.
BatchType == batch \in SUBSET Servers /\ started \in SUBSET Servers /\ refresh \in Refresh

LEMMA UpdateBatchType ==
  ASSUME BatchType, NEW valid \in SUBSET Servers, NEW paused \in BOOLEAN,
         UpdateBatch(valid, paused)
  PROVE  BatchType'
<1> USE DEF BatchType
<1>1. CASE ~refresh.pending
  BY <1>1 DEF UpdateBatch, batchVars
<1>2. CASE refresh.pending
  <2> DEFINE left == batch \cap valid
             reason == IF left # {} /\ paused THEN "paused"
                       ELSE IF Skipped(valid) # {} THEN "skipped" ELSE refresh.error
  <2>1. Cardinality(Skipped(valid)) \in Nat
    BY SubsetsFinite DEF Skipped
  <2>2. refresh.completed + Cardinality(Skipped(valid)) \in Nat
    BY <2>1 DEF Refresh
  <2>3. refresh' = [refresh EXCEPT
                     !.completed = refresh.completed + Cardinality(Skipped(valid)),
                     !.pending = left # {} /\ ~paused,
                     !.error = reason]
    BY <1>2 DEF UpdateBatch
  <2>4. reason \in Reasons
    BY DEF Refresh, Reasons
  <2> HIDE DEF reason
  <2>5. refresh' \in Refresh
    BY <2>2, <2>3, <2>4 DEF Refresh
  <2>6. batch' \in SUBSET Servers /\ started' \in SUBSET Servers
    BY <1>2 DEF UpdateBatch
  <2>7. QED
    BY <2>5, <2>6
<1>3. QED
  BY <1>1, <1>2

LEMMA CompleteBatchType ==
  ASSUME BatchType, NEW c \in Complete, CompleteBatch(c)
  PROVE  BatchType'
<1> USE DEF BatchType
<1>1. CASE ~Counts(c)
  BY <1>1 DEF CompleteBatch, batchVars
<1>2. CASE Counts(c)
  <2> DEFINE reason == IF c.failed THEN "unsaved" ELSE refresh.error
             left == batch \ {c.server}
  <2>1. refresh' = [refresh EXCEPT !.completed = refresh.completed + 1,
                                   !.error = reason, !.pending = left # {}]
    BY <1>2 DEF CompleteBatch
  <2>2. reason \in Reasons /\ refresh.completed + 1 \in Nat
    BY DEF Refresh, Reasons
  <2> HIDE DEF reason
  <2>3. refresh' \in Refresh
    BY <2>1, <2>2 DEF Refresh
  <2>4. batch' \in SUBSET Servers /\ started' \in SUBSET Servers
    BY <1>2 DEF CompleteBatch
  <2>5. QED
    BY <2>3, <2>4
<1>3. QED
  BY <1>1, <1>2

LEMMA CancelBatchType ==
  ASSUME BatchType, CancelBatch("stopped")
  PROVE  BatchType'
<1>1. CASE refresh.pending
  <2>1. refresh' = [refresh EXCEPT !.pending = FALSE, !.error = "stopped"]
    BY <1>1 DEF CancelBatch
  <2>2. refresh' \in Refresh
    BY <2>1 DEF BatchType, Refresh, Reasons
  <2>3. QED
    BY <1>1, <2>2 DEF CancelBatch, BatchType
<1>2. CASE ~refresh.pending
  BY <1>2 DEF CancelBatch, BatchType, batchVars
<1>3. QED
  BY <1>1, <1>2

\* A step of Run keeps the types.
RunStep ==
  \/ Refreshing \/ RefreshFails \/ Dispatch
  \/ OnWake \/ OnTick \/ OnCancel \/ RunReturns
  \/ \E c \in done : OnDone(c)

\* A step of a worker, of the clock or of the context keeps the types.
OtherStep ==
  \/ \E r \in rounds : Worker(r)
  \/ \E s \in Servers : Elapse(s)
  \/ Cancel

LEMMA RunTypeInv ==
  ASSUME TypeInv, RunStep
  PROVE  TypeInv'
<1> USE DEF TypeInv, TypeOK, RequestArgs, RunPC, storeVars, handlerVars,
            lockVars, batchVars, readVars, loopVars, errorVars
<1>1. CASE ReadConfig
  BY <1>1 DEF ReadConfig
<1>2. CASE ReadServers
  BY <1>2 DEF ReadServers
<1>3. CASE RefreshFails
  BY <1>3 DEF RefreshFails
<1>4. CASE ApplyRefresh
  <2>1. BatchType'
    BY <1>4, UpdateBatchType DEF ApplyRefresh, BatchType
  <2>2. queued' \in SUBSET Servers /\ Cardinality(queued') <= MaxQueued
    <3>1. queued' \subseteq queued
      BY <1>4 DEF ApplyRefresh, StillQueued
    <3>2. Cardinality(queued') <= Cardinality(queued)
      BY <3>1, SubsetsFinite, FS_Subset
    <3>3. Cardinality(queued') \in Nat /\ Cardinality(queued) \in Nat
      BY <3>1, SubsetsFinite
    <3>4. QED
      BY <3>1, <3>2, <3>3, SchedulerAssumption
  <2>3. nextDue' \in [Servers -> {"none", "later", "due"}]
    BY <1>4 DEF ApplyRefresh
  <2>4. older' \in SUBSET (Servers \X Servers)
    BY <1>4 DEF ApplyRefresh
  <2>5. QED
    BY <1>4, <2>1, <2>2, <2>3, <2>4 DEF ApplyRefresh, BatchType
<1>5. CASE Dispatch
  <2>1. PICK chosen \in SUBSET Eligible :
          /\ rounds' = rounds \cup
               {[server |-> s, refreshID |-> IF s \in Waiting THEN refresh.id ELSE 0] :
                  s \in chosen}
          /\ started' = started \cup (chosen \cap Waiting)
          /\ since' = (since \cap batch) \cup (chosen \cap Waiting)
          /\ queued' = queued \ chosen
          /\ inFlight' = inFlight \cup chosen
    BY <1>5 DEF Dispatch
  <2>2. chosen \in SUBSET Servers
    BY DEF Eligible
  <2>3. refresh.id \in Nat /\ 0 \in Nat
    BY DEF Refresh
  <2>4. rounds' \in SUBSET Round
    BY <2>1, <2>2, <2>3 DEF Round
  <2>5. queued' \in SUBSET Servers /\ Cardinality(queued') <= MaxQueued
    <3>1. queued' \subseteq queued
      BY <2>1
    <3>2. Cardinality(queued') <= Cardinality(queued)
      BY <3>1, SubsetsFinite, FS_Subset
    <3>3. Cardinality(queued') \in Nat /\ Cardinality(queued) \in Nat
      BY <3>1, SubsetsFinite
    <3>4. QED
      BY <3>1, <3>2, <3>3, SchedulerAssumption
  <2>6. started' \in SUBSET Servers /\ since' \in SUBSET Servers /\ inFlight' \in SUBSET Servers
    BY <2>1, <2>2
  <2>7. QED
    BY <1>5, <2>4, <2>5, <2>6 DEF Dispatch
<1>6. ASSUME NEW c \in done, OnDone(c)
      PROVE  TypeInv'
  <2>1. c \in Complete /\ c.server \in Servers
    BY DEF Complete
  <2>2. BatchType'
    BY <1>6, <2>1, CompleteBatchType DEF OnDone, BatchType
  <2>3. QED
    BY <1>6, <2>1, <2>2 DEF OnDone, BatchType
<1>7. CASE OnWake
  BY <1>7 DEF OnWake
<1>8. CASE OnTick
  BY <1>8 DEF OnTick
<1>9. CASE OnCancel
  <2>1. BatchType'
    BY <1>9, CancelBatchType DEF OnCancel, BatchType
  <2>2. QED
    BY <1>9, <2>1 DEF OnCancel, BatchType
<1>10. CASE RunReturns
  BY <1>10 DEF RunReturns
<1>11. QED
  BY <1>1, <1>2, <1>3, <1>4, <1>5, <1>6, <1>7, <1>8, <1>9, <1>10 DEF RunStep, Refreshing

LEMMA OtherTypeInv ==
  ASSUME TypeInv, OtherStep
  PROVE  TypeInv'
<1> USE DEF TypeInv, TypeOK, RequestArgs, storeVars, handlerVars,
            lockVars, batchVars, readVars, loopVars, errorVars, runVars
<1>1. ASSUME NEW r \in rounds, NEW failed \in BOOLEAN, SendCompletion(r, failed)
      PROVE  TypeInv'
  <2>1. done' \in SUBSET Complete
    BY <1>1 DEF SendCompletion, Round, Complete
  <2>2. QED
    BY <1>1, <2>1 DEF SendCompletion
<1>2. ASSUME NEW r \in rounds, DropCompletion(r)
      PROVE  TypeInv'
  BY <1>2 DEF DropCompletion
<1>3. ASSUME NEW s \in Servers, Elapse(s)
      PROVE  TypeInv'
  BY <1>3 DEF Elapse
<1>4. CASE Cancel
  BY <1>4 DEF Cancel
<1>5. QED
  BY <1>1, <1>2, <1>3, <1>4 DEF OtherStep, Worker

LEMMA NextCases ==
  ASSUME Next
  PROVE  RunStep \/ OtherStep \/ \E h \in Handlers : Handler(h) \/ Request(h)
BY DEF Next, RunStep, OtherStep

LEMMA TypeInvStep ==
  ASSUME TypeInv, [Next]_vars
  PROVE  TypeInv'
<1>1. CASE Next
  BY <1>1, NextCases, HandlerTypeInv, RunTypeInv, OtherTypeInv
<1>2. CASE UNCHANGED vars
  BY <1>2 DEF vars, TypeInv, TypeOK, RequestArgs, storeVars, handlerVars, monitorVars,
     lockVars, batchVars, readVars, loopVars, errorVars, runVars
<1>3. QED
  BY <1>1, <1>2

\* Every variable keeps its type, and the manual queue its bound maxQueued
\* (Queue refuses the 257th request).
THEOREM TypeCorrect == Spec => []TypeOK
<1>1. Init => TypeInv
  BY InitTypeInv
<1>2. TypeInv /\ [Next]_vars => TypeInv'
  BY TypeInvStep
<1>3. TypeInv => TypeOK
  BY DEF TypeInv
<1>4. QED
  BY <1>1, <1>2, <1>3, PTL DEF Spec

-----------------------------------------------------------------------------
(* The accounting of the batch                                             *)

\* What the accounting rests on: a started member is a member, dispatched for
\* this batch, and a pending batch has an id that no other round carries.
BatchInv ==
  /\ BatchAccounting
  /\ started \subseteq batch
  /\ refresh.pending => refresh.id # 0

\* The part of BatchInv that a step which leaves the batch alone keeps.
LEMMA BatchInvUnchanged ==
  ASSUME BatchInv, UNCHANGED batchVars
  PROVE  BatchInv'
BY DEF BatchInv, BatchAccounting, batchVars

LEMMA UpdateBatchInv ==
  ASSUME BatchType, BatchInv, NEW valid \in SUBSET Servers, NEW paused \in BOOLEAN,
         UpdateBatch(valid, paused)
  PROVE  BatchInv'
<1>1. CASE ~refresh.pending
  BY <1>1, BatchInvUnchanged DEF UpdateBatch
<1>2. CASE refresh.pending
  <2> DEFINE left == batch \cap valid
             gone == Cardinality(Skipped(valid))
  <2>1. /\ IsFiniteSet(batch) /\ Cardinality(batch) \in Nat
        /\ Cardinality(left) \in Nat /\ gone \in Nat
    BY SubsetsFinite DEF BatchType, Skipped
  <2>2. gone = Cardinality(batch) - Cardinality(left)
    BY <2>1, FS_Difference DEF Skipped
  <2>3. left = {} => Cardinality(left) = 0
    BY FS_EmptySet
  <2>4. /\ refresh.completed \in Nat /\ refresh.total \in Nat /\ refresh.id \in Nat
        /\ refresh.completed + Cardinality(batch) = refresh.total
        /\ refresh.id # 0
    BY <1>2 DEF BatchType, Refresh, BatchInv, BatchAccounting
  <2>5. /\ refresh'.completed = refresh.completed + gone
        /\ (refresh'.pending <=> left # {} /\ ~paused)
        /\ refresh'.total = refresh.total /\ refresh'.id = refresh.id
        /\ left # {} /\ paused => refresh'.error = "paused"
    BY <1>2 DEF UpdateBatch, BatchType, Refresh
  <2>6. /\ batch' = IF paused THEN {} ELSE left
        /\ started' = IF paused THEN {} ELSE started \cap valid
    BY <1>2 DEF UpdateBatch
  <2> HIDE DEF left, gone
  <2>7. refresh'.pending <=> batch' # {}
    BY <2>5, <2>6
  <2>8. refresh'.pending => refresh'.completed + Cardinality(batch') = refresh'.total
    BY <2>1, <2>2, <2>4, <2>5, <2>6
  <2>9. refresh'.completed <= refresh'.total
    BY <2>1, <2>2, <2>4, <2>5
  <2>10. ~refresh'.pending => \/ refresh'.completed = refresh'.total
                              \/ refresh'.error \in {"paused", "stopped"}
    BY <2>1, <2>2, <2>3, <2>4, <2>5
  <2>11. started' \subseteq batch'
    BY <2>6 DEF BatchInv, left
  <2>12. QED
    BY <2>4, <2>5, <2>7, <2>8, <2>9, <2>10, <2>11 DEF BatchInv, BatchAccounting
<1>3. QED
  BY <1>1, <1>2

LEMMA CompleteBatchInv ==
  ASSUME BatchType, BatchInv, NEW c \in Complete, CompleteBatch(c)
  PROVE  BatchInv'
<1>1. CASE ~Counts(c)
  BY <1>1, BatchInvUnchanged DEF CompleteBatch
<1>2. CASE Counts(c)
  <2> DEFINE left == batch \ {c.server}
  <2>1. refresh.pending /\ c.server \in batch
    BY <1>2 DEF Counts, BatchInv
  <2>2. /\ Cardinality(batch) \in Nat /\ Cardinality(left) \in Nat
        /\ Cardinality(left) = Cardinality(batch) - 1
    BY <2>1, SubsetsFinite, FS_RemoveElement DEF BatchType
  <2>3. left = {} => Cardinality(left) = 0
    BY FS_EmptySet
  <2>4. /\ refresh.completed \in Nat /\ refresh.total \in Nat /\ refresh.id \in Nat
        /\ refresh.completed + Cardinality(batch) = refresh.total
        /\ refresh.id # 0
    BY <2>1 DEF BatchType, Refresh, BatchInv, BatchAccounting
  <2>5. /\ refresh'.completed = refresh.completed + 1
        /\ (refresh'.pending <=> left # {})
        /\ refresh'.total = refresh.total /\ refresh'.id = refresh.id
        /\ batch' = left /\ started' = started \ {c.server}
    BY <1>2 DEF CompleteBatch, BatchType, Refresh
  <2>6. started' \subseteq batch'
    BY <2>5 DEF BatchInv
  <2> HIDE DEF left
  <2>7. QED
    BY <2>2, <2>3, <2>4, <2>5, <2>6 DEF BatchInv, BatchAccounting
<1>3. QED
  BY <1>1, <1>2

LEMMA CancelBatchInv ==
  ASSUME BatchType, BatchInv, CancelBatch("stopped")
  PROVE  BatchInv'
<1>1. CASE ~refresh.pending
  BY <1>1, BatchInvUnchanged DEF CancelBatch
<1>2. CASE refresh.pending
  <2>1. /\ refresh'.completed = refresh.completed /\ refresh'.total = refresh.total
        /\ refresh'.pending = FALSE /\ refresh'.error = "stopped"
        /\ batch' = {} /\ started' = {}
    BY <1>2 DEF CancelBatch, BatchType, Refresh
  <2>2. QED
    BY <2>1 DEF BatchInv, BatchAccounting
<1>3. QED
  BY <1>1, <1>2

LEMMA NewBatchInv ==
  ASSUME BatchType, BatchInv, ~refresh.pending, NEW list \in SUBSET Servers, NewBatch(list)
  PROVE  BatchInv'
<1>1. Cardinality(list) \in Nat /\ (list = {} => Cardinality(list) = 0)
  BY SubsetsFinite, FS_EmptySet
<1>2. /\ refresh'.completed = 0 /\ refresh'.total = Cardinality(list)
      /\ (refresh'.pending <=> list # {}) /\ refresh'.id = refresh.id + 1
      /\ batch' = list /\ started' = {}
  BY DEF NewBatch
<1>3. refresh.id \in Nat
  BY DEF BatchType, Refresh
<1>4. QED
  BY <1>1, <1>2, <1>3 DEF BatchInv, BatchAccounting

LEMMA BatchInvInductive ==
  ASSUME TypeInv, BatchInv, Next
  PROVE  BatchInv'
<1>1. BatchType
  BY DEF TypeInv, TypeOK, BatchType
<1>2. ASSUME NEW h \in Handlers, Handler(h) \/ Request(h)
      PROVE  BatchInv'
  <2>1. CASE QueueAllInstall(h)
    <3>1. arg[h] \in SUBSET Servers
      BY DEF TypeInv, TypeOK
    <3>2. QED
      BY <1>1, <2>1, <3>1, NewBatchInv, BatchInvUnchanged DEF QueueAllInstall
  <2>2. CASE ~QueueAllInstall(h)
    BY <1>2, <2>2, BatchInvUnchanged
    DEF Handler, Request, Wake, SaveServer, DeleteServer, SaveConfig, QueueGetConfig,
        QueueGetServer, QueueInsert, QueueAllGetConfig, QueueAllListServers, monitorVars,
        lockVars, batchVars
  <2>3. QED
    BY <2>1, <2>2
<1>3. CASE ApplyRefresh
  <2>1. readServers \in SUBSET Servers /\ (readCfg = 0) \in BOOLEAN
    BY DEF TypeInv, TypeOK
  <2>2. QED
    BY <1>1, <1>3, <2>1, UpdateBatchInv DEF ApplyRefresh
<1>4. CASE Dispatch
  <2>1. UNCHANGED <<batch, refresh>> /\ started' \subseteq started \cup Waiting
    BY <1>4 DEF Dispatch
  <2>2. started' \subseteq batch
    BY <2>1 DEF Waiting, BatchInv
  <2>3. QED
    BY <2>1, <2>2 DEF BatchInv, BatchAccounting
<1>5. ASSUME NEW c \in done, OnDone(c)
      PROVE  BatchInv'
  <2>1. c \in Complete
    BY DEF TypeInv, TypeOK
  <2>2. QED
    BY <1>1, <1>5, <2>1, CompleteBatchInv DEF OnDone
<1>6. CASE OnCancel
  BY <1>1, <1>6, CancelBatchInv DEF OnCancel
<1>7. CASE ReadConfig \/ ReadServers \/ RefreshFails \/ OnWake \/ OnTick \/ RunReturns
  BY <1>7, BatchInvUnchanged
  DEF ReadConfig, ReadServers, RefreshFails, OnWake, OnTick, RunReturns, lockVars, batchVars
<1>8. CASE OtherStep
  BY <1>8, BatchInvUnchanged
  DEF OtherStep, Worker, SendCompletion, DropCompletion, Elapse, Cancel, lockVars, batchVars
<1>9. QED
  BY <1>2, <1>3, <1>4, <1>5, <1>6, <1>7, <1>8, NextCases DEF RunStep, Refreshing

LEMMA BatchInvStep ==
  ASSUME TypeInv, BatchInv, [Next]_vars
  PROVE  BatchInv'
<1>1. CASE Next
  BY <1>1, BatchInvInductive
<1>2. CASE UNCHANGED vars
  BY <1>2, BatchInvUnchanged DEF vars, monitorVars, lockVars, batchVars
<1>3. QED
  BY <1>1, <1>2

\* The status QueueAll's caller polls adds up in every reachable state:
\* completed plus the members left is the total, and an ended batch that is
\* short of its total was cancelled.
THEOREM BatchAccounted == Spec => []BatchAccounting
<1>1. Init => TypeInv /\ BatchInv
  BY InitTypeInv DEF Init, BatchInv, BatchAccounting
<1>2. TypeInv /\ BatchInv /\ [Next]_vars => (TypeInv /\ BatchInv)'
  BY TypeInvStep, BatchInvStep
<1>3. BatchInv => BatchAccounting
  BY DEF BatchInv
<1>4. QED
  BY <1>1, <1>2, <1>3, PTL DEF Spec

-----------------------------------------------------------------------------
(* The rounds                                                              *)

\* The rounds and completions are no more than the servers in flight, and
\* those no more than the largest concurrency.
SlotsBounded ==
  /\ IsFiniteSet(rounds) /\ IsFiniteSet(done)
  /\ Cardinality(rounds) + Cardinality(done) <= Cardinality(inFlight)
  /\ Cardinality(inFlight) <= MaxConcurrency

RoundsInv == NoOverlap /\ StartedHasRound /\ SlotsBounded

roundVars == <<rounds, done, inFlight, started, refresh, cancelled>>

LEMMA RoundsInvUnchanged ==
  ASSUME RoundsInv, UNCHANGED roundVars
  PROVE  RoundsInv'
BY DEF RoundsInv, NoOverlap, StartedHasRound, SlotsBounded, Live, roundVars

\* A step that starts and ends no round and starts no member keeps RoundsInv.
LEMMA RoundsInvFewerStarted ==
  ASSUME RoundsInv, UNCHANGED <<rounds, done, inFlight, cancelled>>,
         started' = {} \/ (started' \subseteq started /\ refresh'.id = refresh.id)
  PROVE  RoundsInv'
BY DEF RoundsInv, NoOverlap, StartedHasRound, SlotsBounded, Live

\* The records dispatch makes are at most as many as the servers it chose.
NewRounds(chosen, waiting, id) ==
  {[server |-> s, refreshID |-> IF s \in waiting THEN id ELSE 0] : s \in chosen}

LEMMA NewRoundsCount ==
  ASSUME NEW chosen, IsFiniteSet(chosen), NEW waiting, NEW id
  PROVE  /\ IsFiniteSet(NewRounds(chosen, waiting, id))
         /\ Cardinality(NewRounds(chosen, waiting, id)) <= Cardinality(chosen)
<1> DEFINE f == [s \in chosen |->
                  [server |-> s, refreshID |-> IF s \in waiting THEN id ELSE 0]]
<1>1. f \in Surjection(chosen, NewRounds(chosen, waiting, id))
  BY DEF Surjection, NewRounds
<1>2. QED
  BY <1>1, FS_Surjection

LEMMA DispatchRoundsInv ==
  ASSUME TypeInv, BatchInv, RoundsInv, Dispatch
  PROVE  RoundsInv'
<1>1. PICK chosen \in SUBSET Eligible :
        /\ FirstOf(chosen)
        /\ rounds' = rounds \cup NewRounds(chosen, Waiting, refresh.id)
        /\ started' = started \cup (chosen \cap Waiting)
        /\ inFlight' = inFlight \cup chosen
  BY DEF Dispatch, NewRounds
<1>2. UNCHANGED <<done, refresh, cancelled>>
  BY DEF Dispatch
<1>3. chosen \in SUBSET Servers /\ chosen \cap inFlight = {}
  BY DEF Eligible, TypeInv, TypeOK
<1>4. \A r \in NewRounds(chosen, Waiting, refresh.id) :
        /\ r.server \in chosen
        /\ r.server \in Waiting => r.refreshID = refresh.id
  BY DEF NewRounds
<1>5. \A s \in chosen : \E r \in NewRounds(chosen, Waiting, refresh.id) :
        /\ r.server = s
        /\ s \in Waiting => r.refreshID = refresh.id
  <2> TAKE s \in chosen
  <2> DEFINE r == [server |-> s, refreshID |-> IF s \in Waiting THEN refresh.id ELSE 0]
  <2>1. r \in NewRounds(chosen, Waiting, refresh.id)
    BY DEF NewRounds
  <2>2. r.server = s /\ (s \in Waiting => r.refreshID = refresh.id)
    OBVIOUS
  <2>3. QED
    BY <2>1, <2>2
<1>6. \A a, b \in NewRounds(chosen, Waiting, refresh.id) : a.server = b.server => a = b
  BY DEF NewRounds
<1>7. NoOverlap'
  BY <1>1, <1>2, <1>3, <1>4, <1>5, <1>6 DEF RoundsInv, NoOverlap, Live
<1>8. StartedHasRound'
  BY <1>1, <1>2, <1>5 DEF RoundsInv, StartedHasRound, Live
<1>9. SlotsBounded'
  <2> DEFINE new == NewRounds(chosen, Waiting, refresh.id)
  <2>1. /\ IsFiniteSet(chosen) /\ Cardinality(chosen) \in Nat
        /\ IsFiniteSet(inFlight) /\ Cardinality(inFlight) \in Nat
    BY <1>3, SubsetsFinite DEF TypeInv, TypeOK
  <2>2. IsFiniteSet(new) /\ Cardinality(new) <= Cardinality(chosen)
    BY <2>1, NewRoundsCount
  <2>3. Cardinality(new) \in Nat /\ Cardinality(rounds) \in Nat /\ Cardinality(done) \in Nat
    BY <2>2, FS_CardinalityType DEF RoundsInv, SlotsBounded
  <2>4. /\ IsFiniteSet(rounds \cup new)
        /\ Cardinality(rounds \cup new)
             = Cardinality(rounds) + Cardinality(new) - Cardinality(rounds \cap new)
    BY <2>2, FS_Union DEF RoundsInv, SlotsBounded
  <2>5. Cardinality(rounds \cap new) \in Nat
    BY <2>2, FS_Intersection, FS_CardinalityType
  <2>6. Cardinality(inFlight \cup chosen) = Cardinality(inFlight) + Cardinality(chosen)
    <3>1. Cardinality(inFlight \cup chosen)
            = Cardinality(inFlight) + Cardinality(chosen) - Cardinality(inFlight \cap chosen)
      BY <2>1, FS_Union
    <3>2. inFlight \cap chosen = {}
      BY <1>3
    <3>3. QED
      BY <2>1, <3>1, <3>2, FS_EmptySet
  <2>7. cfg \in Nat /\ cfg <= MaxConcurrency
    BY SchedulerAssumption DEF TypeInv, TypeOK
  <2>8. Cardinality(inFlight) + Cardinality(chosen) <= MaxConcurrency
    <3>1. CASE chosen = {}
      BY <2>1, <3>1, FS_EmptySet, SchedulerAssumption DEF RoundsInv, SlotsBounded
    <3>2. CASE Cardinality(inFlight) + Cardinality(chosen) <= cfg
      BY <2>1, <2>7, <3>2, SchedulerAssumption
    <3>3. QED
      BY <1>1, <3>1, <3>2 DEF FirstOf
  <2> HIDE DEF new
  <2>9. QED
    BY <1>1, <1>2, <2>1, <2>2, <2>3, <2>4, <2>5, <2>6, <2>8 DEF RoundsInv, SlotsBounded, new
<1>10. QED
  BY <1>7, <1>8, <1>9 DEF RoundsInv

LEMMA OnDoneRoundsInv ==
  ASSUME TypeInv, BatchInv, RoundsInv, NEW c \in done, OnDone(c)
  PROVE  RoundsInv'
<1>1. /\ done' = done \ {c} /\ inFlight' = inFlight \ {c.server}
      /\ UNCHANGED <<rounds, cancelled>>
  BY DEF OnDone
<1>2. NoOverlap'
  BY <1>1 DEF RoundsInv, NoOverlap, Live
<1>3. refresh'.id = refresh.id /\ started' \subseteq started
  <2>1. CASE Counts(c)
    BY <2>1 DEF OnDone, CompleteBatch, TypeInv, TypeOK, Refresh
  <2>2. CASE ~Counts(c)
    BY <2>2 DEF OnDone, CompleteBatch, batchVars
  <2>3. QED
    BY <2>1, <2>2
<1>4. StartedHasRound'
  <2> SUFFICES ASSUME ~cancelled, NEW s \in started'
               PROVE  \E r \in Live' : r.server = s /\ r.refreshID = refresh.id
    BY <1>1, <1>3 DEF StartedHasRound
  <2>1. PICK r \in Live : r.server = s /\ r.refreshID = refresh.id
    BY <1>3 DEF RoundsInv, StartedHasRound
  <2>2. CASE r # c
    BY <1>1, <2>1, <2>2 DEF Live
  <2>3. CASE r = c
    <3>1. s \in started /\ s \in batch
      BY <1>3 DEF BatchInv
    <3>2. refresh.pending
      BY <3>1 DEF BatchInv, BatchAccounting
    <3>3. Counts(c)
      BY <2>1, <2>3, <3>1, <3>2 DEF Counts, BatchInv
    <3>4. s \notin started'
      BY <2>1, <2>3, <3>3 DEF OnDone, CompleteBatch
    <3>5. QED
      BY <3>4
  <2>4. QED
    BY <2>2, <2>3
<1>5. SlotsBounded'
  <2>1. c.server \in inFlight
    BY DEF RoundsInv, NoOverlap, Live
  <2>2. IsFiniteSet(inFlight) /\ Cardinality(inFlight) \in Nat
    BY SubsetsFinite DEF TypeInv, TypeOK
  <2>3. Cardinality(inFlight \ {c.server}) = Cardinality(inFlight) - 1
    BY <2>1, <2>2, FS_RemoveElement
  <2>4. IsFiniteSet(done \ {c}) /\ Cardinality(done \ {c}) = Cardinality(done) - 1
    BY FS_RemoveElement DEF RoundsInv, SlotsBounded
  <2>5. Cardinality(done) \in Nat /\ Cardinality(rounds) \in Nat
    BY FS_CardinalityType DEF RoundsInv, SlotsBounded
  <2>6. QED
    BY <1>1, <2>2, <2>3, <2>4, <2>5, SchedulerAssumption DEF RoundsInv, SlotsBounded
<1>6. QED
  BY <1>2, <1>4, <1>5 DEF RoundsInv

LEMMA WorkerRoundsInv ==
  ASSUME TypeInv, RoundsInv, NEW r \in rounds, Worker(r)
  PROVE  RoundsInv'
<1>1. /\ IsFiniteSet(rounds) /\ Cardinality(rounds) \in Nat
      /\ IsFiniteSet(done) /\ Cardinality(done) \in Nat
      /\ Cardinality(inFlight) \in Nat
  BY FS_CardinalityType, SubsetsFinite DEF RoundsInv, SlotsBounded, TypeInv, TypeOK
<1>2. IsFiniteSet(rounds \ {r}) /\ Cardinality(rounds \ {r}) = Cardinality(rounds) - 1
  BY <1>1, FS_RemoveElement
<1>3. CASE DropCompletion(r)
  <2>1. cancelled' /\ rounds' = rounds \ {r} /\ UNCHANGED <<done, inFlight>>
    BY <1>3 DEF DropCompletion, lockVars
  <2>2. NoOverlap' /\ StartedHasRound'
    BY <2>1 DEF RoundsInv, NoOverlap, StartedHasRound, Live
  <2>3. SlotsBounded'
    BY <1>1, <1>2, <2>1 DEF RoundsInv, SlotsBounded
  <2>4. QED
    BY <2>2, <2>3 DEF RoundsInv
<1>4. ASSUME NEW failed \in BOOLEAN, SendCompletion(r, failed)
      PROVE  RoundsInv'
  <2> DEFINE c == [server |-> r.server, refreshID |-> r.refreshID, failed |-> failed]
  <2>1. /\ rounds' = rounds \ {r} /\ done' = done \cup {c}
        /\ UNCHANGED <<inFlight, cancelled, started, refresh>>
    BY <1>4 DEF SendCompletion, lockVars
  <2>2. c.server = r.server /\ c.refreshID = r.refreshID
    OBVIOUS
  <2> HIDE DEF c
  <2>3. NoOverlap'
    BY <2>1, <2>2 DEF RoundsInv, NoOverlap, Live
  <2>4. StartedHasRound'
    BY <2>1, <2>2 DEF RoundsInv, StartedHasRound, Live
  <2>5. /\ IsFiniteSet(done \cup {c})
        /\ Cardinality(done \cup {c})
             = IF c \in done THEN Cardinality(done) ELSE Cardinality(done) + 1
    BY <1>1, FS_AddElement
  <2>6. SlotsBounded'
    BY <1>1, <1>2, <2>1, <2>5 DEF RoundsInv, SlotsBounded
  <2>7. QED
    BY <2>3, <2>4, <2>6 DEF RoundsInv
<1>5. QED
  BY <1>3, <1>4 DEF Worker

LEMMA RoundsInvInductive ==
  ASSUME TypeInv, BatchInv, RoundsInv, Next
  PROVE  RoundsInv'
<1>1. ASSUME NEW h \in Handlers, Handler(h) \/ Request(h)
      PROVE  RoundsInv'
  <2>1. CASE QueueAllInstall(h)
    <3>1. CASE refresh.pending
      BY <2>1, <3>1, RoundsInvUnchanged DEF QueueAllInstall, runVars, batchVars, roundVars
    <3>2. CASE ~refresh.pending
      BY <2>1, <3>2, RoundsInvFewerStarted DEF QueueAllInstall, NewBatch, runVars
    <3>3. QED
      BY <3>1, <3>2
  <2>2. CASE ~QueueAllInstall(h)
    BY <1>1, <2>2, RoundsInvUnchanged
    DEF Handler, Request, Wake, SaveServer, DeleteServer, SaveConfig, QueueGetConfig,
        QueueGetServer, QueueInsert, QueueAllGetConfig, QueueAllListServers, monitorVars,
        lockVars, batchVars, runVars, roundVars
  <2>3. QED
    BY <2>1, <2>2
<1>2. CASE ApplyRefresh
  <2>1. started' = {} \/ (started' \subseteq started /\ refresh'.id = refresh.id)
    BY <1>2 DEF ApplyRefresh, UpdateBatch, batchVars, TypeInv, TypeOK, Refresh
  <2>2. QED
    BY <1>2, <2>1, RoundsInvFewerStarted DEF ApplyRefresh
<1>3. CASE OnCancel
  <2>1. started' = {} \/ (started' \subseteq started /\ refresh'.id = refresh.id)
    BY <1>3 DEF OnCancel, CancelBatch, batchVars
  <2>2. QED
    BY <1>3, <2>1, RoundsInvFewerStarted DEF OnCancel
<1>4. CASE Cancel
  BY <1>4 DEF Cancel, RoundsInv, NoOverlap, StartedHasRound, SlotsBounded, Live, lockVars,
     batchVars, runVars
<1>5. CASE Dispatch
  BY <1>5, DispatchRoundsInv
<1>6. ASSUME NEW c \in done, OnDone(c)
      PROVE  RoundsInv'
  BY <1>6, OnDoneRoundsInv
<1>7. ASSUME NEW r \in rounds, Worker(r)
      PROVE  RoundsInv'
  BY <1>7, WorkerRoundsInv
<1>8. CASE \/ ReadConfig \/ ReadServers \/ RefreshFails \/ OnWake \/ OnTick \/ RunReturns
           \/ \E s \in Servers : Elapse(s)
  BY <1>8, RoundsInvUnchanged
  DEF ReadConfig, ReadServers, RefreshFails, OnWake, OnTick, RunReturns, Elapse,
      lockVars, batchVars, roundVars
<1>9. QED
  BY <1>1, <1>2, <1>3, <1>4, <1>5, <1>6, <1>7, <1>8, NextCases
  DEF RunStep, Refreshing, OtherStep

LEMMA RoundsInvStep ==
  ASSUME TypeInv, BatchInv, RoundsInv, [Next]_vars
  PROVE  RoundsInv'
<1>1. CASE Next
  BY <1>1, RoundsInvInductive
<1>2. CASE UNCHANGED vars
  BY <1>2, RoundsInvUnchanged DEF vars, monitorVars, lockVars, batchVars, runVars, roundVars
<1>3. QED
  BY <1>1, <1>2

LEMMA InitInv == Init => TypeInv /\ BatchInv /\ RoundsInv
<1> SUFFICES ASSUME Init PROVE TypeInv /\ BatchInv /\ RoundsInv
  OBVIOUS
<1>1. TypeInv
  BY InitTypeInv
<1>2. BatchInv
  BY DEF Init, BatchInv, BatchAccounting
<1>3. NoOverlap /\ StartedHasRound
  BY DEF Init, NoOverlap, StartedHasRound, Live
<1>4. SlotsBounded
  BY FS_EmptySet, SchedulerAssumption DEF Init, SlotsBounded
<1>5. QED
  BY <1>1, <1>2, <1>3, <1>4 DEF RoundsInv

\* The invariant the theorems share.
LEMMA Invariant == Spec => [](TypeInv /\ BatchInv /\ RoundsInv)
<1>1. TypeInv /\ BatchInv /\ RoundsInv /\ [Next]_vars => (TypeInv /\ BatchInv /\ RoundsInv)'
  BY TypeInvStep, BatchInvStep, RoundsInvStep
<1>2. QED
  BY InitInv, <1>1, PTL DEF Spec

\* Two rounds of one server never overlap, and inFlight is exactly the rounds
\* and completions there are, however handlers, loop and workers interleave.
THEOREM RoundsNeverOverlap == Spec => []NoOverlap
<1>1. RoundsInv => NoOverlap
  BY DEF RoundsInv
<1>2. QED
  BY Invariant, <1>1, PTL

\* No started member of a batch loses the round it waits for.
THEOREM MembersHaveRounds == Spec => []StartedHasRound
<1>1. RoundsInv => StartedHasRound
  BY DEF RoundsInv
<1>2. QED
  BY Invariant, <1>1, PTL

\* With Concurrency capped at the capacity of the done channel, no worker ever
\* blocks on it, so workers.Wait ends.
THEOREM DoneHasRoom == Spec => []DoneNeverBlocks
<1>1. TypeInv /\ RoundsInv => DoneNeverBlocks
  <2> SUFFICES ASSUME TypeInv, RoundsInv PROVE DoneNeverBlocks
    OBVIOUS
  <2>1. /\ Cardinality(rounds) \in Nat /\ Cardinality(done) \in Nat
        /\ Cardinality(inFlight) \in Nat
    BY FS_CardinalityType, SubsetsFinite DEF RoundsInv, SlotsBounded, TypeInv, TypeOK
  <2>2. QED
    BY <2>1, SchedulerAssumption DEF DoneNeverBlocks, RoundsInv, SlotsBounded
<1>2. QED
  BY Invariant, <1>1, PTL

-----------------------------------------------------------------------------
(* The wake-ups                                                            *)

Waking == wake \/ \E h \in Handlers : hpc[h] = "wake"

\* What NoLostWake rests on: what a refresh has read is still what the store
\* holds, or the edit that made it old is followed by a Wake.
WakeInv ==
  /\ NoLostWake
  /\ pc \in {"servers", "apply"} => readCfg = concurrency \/ Waking
  /\ pc = "apply" => readServers = enabled \/ Waking

\* After a refresh that read the store as it is, nothing is left to do.
LEMMA ApplySettles ==
  ASSUME TypeInv, BatchInv, ApplyRefresh, readCfg = concurrency, readServers = enabled
  PROVE  ~ \/ cfg' # concurrency' \/ snapshot' # enabled'
           \/ ~(queued' \cup batch' \subseteq enabled')
           \/ refresh'.pending /\ concurrency' = 0
<1>1. cfg' = concurrency' /\ snapshot' = enabled' /\ queued' \subseteq enabled'
  BY DEF ApplyRefresh, StillQueued, storeVars
<1>2. batch' \subseteq enabled'
  BY DEF ApplyRefresh, UpdateBatch, batchVars, storeVars, BatchInv, BatchAccounting
<1>3. refresh'.pending => concurrency' # 0
  <2> SUFFICES ASSUME refresh'.pending PROVE readCfg # 0
    BY DEF ApplyRefresh, storeVars
  <2>1. refresh.pending
    BY DEF ApplyRefresh, UpdateBatch, batchVars
  <2>2. refresh'.pending <=> batch \cap readServers # {} /\ ~(readCfg = 0)
    BY <2>1 DEF ApplyRefresh, UpdateBatch, TypeInv, TypeOK, Refresh
  <2>3. QED
    BY <2>2
<1>4. QED
  BY <1>1, <1>2, <1>3

LEMMA HandlerWakeInv ==
  ASSUME TypeInv, BatchInv, WakeInv, NEW h \in Handlers, Handler(h) \/ Request(h)
  PROVE  WakeInv'
<1> USE DEF WakeInv, NoLostWake, RefreshComing, Waking, GoTo, BeginCall, storeVars,
            monitorVars, lockVars, batchVars, runVars, readVars, loopVars, errorVars
<1>1. hpc \in [Handlers -> HandlerPC]
  BY DEF TypeInv, TypeOK
<1>2. CASE Wake(h)
  BY <1>1, <1>2 DEF Wake
<1>3. CASE hpc'[h] = "wake" /\ UNCHANGED <<pc, readVars>>
  BY <1>3
<1>4. CASE /\ hpc[h] # "wake" /\ \A g \in Handlers \ {h} : hpc'[g] = hpc[g]
           /\ UNCHANGED <<storeVars, monitorVars>>
  BY <1>4
<1>5. QED
  BY <1>1, <1>2, <1>3, <1>4
  DEF Handler, Request, SaveServer, DeleteServer, SaveConfig, QueueGetConfig, QueueGetServer,
      QueueInsert, QueueAllGetConfig, QueueAllListServers, QueueAllInstall, HandlerPC

LEMMA RunWakeInv ==
  ASSUME TypeInv, BatchInv, WakeInv, RunStep
  PROVE  WakeInv'
<1> USE DEF WakeInv, NoLostWake, RefreshComing, Waking, storeVars, handlerVars,
            lockVars, batchVars, readVars, loopVars, errorVars
<1>1. CASE ReadConfig
  BY <1>1 DEF ReadConfig
<1>2. CASE ReadServers
  BY <1>2 DEF ReadServers
<1>3. CASE RefreshFails
  BY <1>3 DEF RefreshFails
<1>4. CASE ApplyRefresh
  <2>1. pc' = "dispatch" /\ UNCHANGED <<wake, hpc, storeVars>>
    BY <1>4 DEF ApplyRefresh
  <2>2. CASE Waking
    BY <2>1, <2>2
  <2>3. CASE ~Waking
    BY <1>4, <2>1, <2>3, ApplySettles DEF ApplyRefresh
  <2>4. QED
    BY <2>2, <2>3
<1>5. CASE Dispatch
  <2>1. queued' \subseteq queued
    BY <1>5 DEF Dispatch
  <2>2. QED
    BY <1>5, <2>1 DEF Dispatch
<1>6. ASSUME NEW c \in done, OnDone(c)
      PROVE  WakeInv'
  <2>1. batch' \subseteq batch /\ (refresh'.pending => refresh.pending)
    <3>1. Counts(c) => refresh.pending
      BY DEF Counts
    <3>2. QED
      BY <1>6, <3>1 DEF OnDone, CompleteBatch
  <2>2. QED
    BY <1>6, <2>1 DEF OnDone
<1>7. CASE OnWake
  BY <1>7 DEF OnWake
<1>8. CASE OnTick
  BY <1>8 DEF OnTick
<1>9. CASE OnCancel
  BY <1>9 DEF OnCancel
<1>10. CASE RunReturns
  BY <1>10 DEF RunReturns
<1>11. QED
  BY <1>1, <1>2, <1>3, <1>4, <1>5, <1>6, <1>7, <1>8, <1>9, <1>10 DEF RunStep, Refreshing

LEMMA WakeInvStep ==
  ASSUME TypeInv, BatchInv, WakeInv, [Next]_vars
  PROVE  WakeInv'
<1>1. CASE OtherStep \/ UNCHANGED vars
  BY <1>1
  DEF OtherStep, Worker, SendCompletion, DropCompletion, Elapse, Cancel, WakeInv, NoLostWake,
      RefreshComing, Waking, vars, storeVars, handlerVars, monitorVars, lockVars, batchVars,
      readVars, loopVars, errorVars, runVars
<1>2. QED
  BY <1>1, NextCases, HandlerWakeInv, RunWakeInv

\* No edit of the store is lost and no request outlives its server or a pause:
\* whenever Run is behind the store, a refresh is certain to come, although
\* Queue and QueueAll check the store before they take the lock.
THEOREM EditsReachRun == Spec => []NoLostWake
<1>1. Init => TypeInv /\ BatchInv /\ WakeInv
  BY InitInv DEF Init, WakeInv, NoLostWake, RefreshComing
<1>2. TypeInv /\ BatchInv /\ WakeInv /\ [Next]_vars => (TypeInv /\ BatchInv /\ WakeInv)'
  BY TypeInvStep, BatchInvStep, WakeInvStep
<1>3. WakeInv => NoLostWake
  BY DEF WakeInv
<1>4. QED
  BY <1>1, <1>2, <1>3, PTL DEF Spec

-----------------------------------------------------------------------------
(* The rounds that count                                                   *)

StartedSince == started \subseteq since

LEMMA StartedSinceStep ==
  ASSUME BatchInv, StartedSince, [Next]_vars
  PROVE  StartedSince'
<1> USE DEF StartedSince
<1>1. ASSUME NEW h \in Handlers, Handler(h) \/ Request(h)
      PROVE  StartedSince'
  BY <1>1
  DEF Handler, Request, Wake, SaveServer, DeleteServer, SaveConfig, QueueGetConfig,
      QueueGetServer, QueueInsert, QueueAllGetConfig, QueueAllListServers, QueueAllInstall,
      NewBatch, monitorVars, lockVars, batchVars
<1>2. CASE Dispatch
  BY <1>2 DEF Dispatch, BatchInv
<1>3. CASE ApplyRefresh
  BY <1>3 DEF ApplyRefresh, UpdateBatch, batchVars
<1>4. ASSUME NEW c \in done, OnDone(c)
      PROVE  StartedSince'
  BY <1>4 DEF OnDone, CompleteBatch, batchVars
<1>5. CASE OnCancel
  BY <1>5 DEF OnCancel, CancelBatch, batchVars
<1>6. CASE \/ ReadConfig \/ ReadServers \/ RefreshFails \/ OnWake \/ OnTick \/ RunReturns
           \/ OtherStep \/ UNCHANGED vars
  BY <1>6
  DEF ReadConfig, ReadServers, RefreshFails, OnWake, OnTick, RunReturns, OtherStep, Worker,
      SendCompletion, DropCompletion, Elapse, Cancel, vars, monitorVars, lockVars, batchVars
<1>7. QED
  BY <1>1, <1>2, <1>3, <1>4, <1>5, <1>6, NextCases DEF RunStep, Refreshing

\* The step property MemberNeedsNewRound boxes.
LeavesByNewRound ==
  \A s \in batch \ batch' :
    \/ refresh'.error \in {"paused", "stopped"}
    \/ s \in since
    \/ s \notin readServers

LEMMA NextLeavesByNewRound ==
  ASSUME TypeInv, BatchInv, StartedSince, Next
  PROVE  LeavesByNewRound
<1> USE DEF LeavesByNewRound
<1>1. ASSUME NEW h \in Handlers, Handler(h) \/ Request(h)
      PROVE  batch \ batch' = {}
  BY <1>1
  DEF Handler, Request, Wake, SaveServer, DeleteServer, SaveConfig, QueueGetConfig,
      QueueGetServer, QueueInsert, QueueAllGetConfig, QueueAllListServers, QueueAllInstall,
      BatchInv, BatchAccounting, monitorVars, lockVars, batchVars
<1>2. CASE ApplyRefresh
  <2>1. CASE refresh.pending /\ batch \cap readServers # {} /\ readCfg = 0
    <3>1. refresh'.error = "paused"
      BY <1>2, <2>1 DEF ApplyRefresh, UpdateBatch, TypeInv, TypeOK, Refresh
    <3>2. QED
      BY <3>1
  <2>2. CASE refresh.pending /\ ~(batch \cap readServers # {} /\ readCfg = 0)
    BY <1>2, <2>2 DEF ApplyRefresh, UpdateBatch
  <2>3. CASE ~refresh.pending
    BY <2>3 DEF BatchInv, BatchAccounting
  <2>4. QED
    BY <2>1, <2>2, <2>3
<1>3. ASSUME NEW c \in done, OnDone(c)
      PROVE  LeavesByNewRound
  BY <1>3 DEF OnDone, CompleteBatch, Counts, batchVars, StartedSince
<1>4. CASE OnCancel
  <2>1. CASE refresh.pending
    BY <1>4, <2>1 DEF OnCancel, CancelBatch, TypeInv, TypeOK, Refresh
  <2>2. CASE ~refresh.pending
    BY <2>2 DEF BatchInv, BatchAccounting
  <2>3. QED
    BY <2>1, <2>2
<1>5. CASE \/ ReadConfig \/ ReadServers \/ RefreshFails \/ Dispatch \/ OnWake \/ OnTick
           \/ RunReturns \/ OtherStep
  BY <1>5
  DEF ReadConfig, ReadServers, RefreshFails, Dispatch, OnWake, OnTick, RunReturns, OtherStep,
      Worker, SendCompletion, DropCompletion, Elapse, Cancel, lockVars, batchVars
<1>6. QED
  BY <1>1, <1>2, <1>3, <1>4, <1>5, NextCases DEF RunStep, Refreshing

\* A member leaves its batch only by a round begun after the batch was made,
\* by a refresh that found it gone, or by cancellation: the round in flight
\* when "refresh all" is clicked never stands for the new one.
THEOREM OldRoundsNeverCount == Spec => MemberNeedsNewRound
<1>1. Init => StartedSince
  BY DEF Init, StartedSince
<1>2. BatchInv /\ StartedSince /\ [Next]_vars => StartedSince'
  BY StartedSinceStep
<1>3. TypeInv /\ BatchInv /\ StartedSince /\ [Next]_vars => [LeavesByNewRound]_vars
  BY NextLeavesByNewRound
<1>4. MemberNeedsNewRound <=> [][LeavesByNewRound]_vars
  BY DEF MemberNeedsNewRound, LeavesByNewRound
<1>5. QED
  BY Invariant, <1>1, <1>2, <1>3, <1>4, PTL DEF Spec

=============================================================================
