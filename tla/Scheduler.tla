------------------------------ MODULE Scheduler ------------------------------
(***************************************************************************)
(* The scheduling loop of the monitor: Monitor.Run with its refresh and    *)
(* dispatch closures, the round workers it starts, the HTTP handlers that  *)
(* edit the store and ask for probes (Queue, QueueAll), and the "refresh   *)
(* all" batch of refresh.go.                                               *)
(*                                                                         *)
(* Every action is one critical section of Monitor.mu, one store call or   *)
(* one channel operation, so the steps of the loop, the workers and the    *)
(* handlers interleave as the goroutines do.  Time is abstract: a server's *)
(* entry in nextDue is "later" (deadline ahead) or "due" (deadline         *)
(* passed), and older orders the entries that are due by their deadlines.  *)
(* A server that is absent, disabled or deleted is one that is not in      *)
(* enabled: the loop treats the three alike.                               *)
(***************************************************************************)
EXTENDS Integers, FiniteSets

CONSTANTS
  Servers,         \* the ids the store ever hands out
  Handlers,        \* the goroutines that serve HTTP requests
  MaxConcurrency,  \* the largest Concurrency ValidateConfig accepts
  MaxQueued,       \* maxQueued, the bound of the manual queue
  DoneCapacity,    \* capacity of the done channel
  MaxCalls,        \* bound: HTTP calls a behaviour makes
  MaxStoreErrors   \* bound: refreshes a store error cuts short

\* New makes a done channel of 50 and ValidateConfig caps Concurrency at 50.
ASSUME SchedulerAssumption ==
  /\ IsFiniteSet(Servers)
  /\ MaxConcurrency \in Nat
  /\ MaxQueued \in Nat
  /\ DoneCapacity \in Nat
  /\ MaxConcurrency <= DoneCapacity
  /\ MaxCalls \in Nat
  /\ MaxStoreErrors \in Nat

VARIABLES
  enabled,      \* store: the ids of the enabled servers
  concurrency,  \* store: the saved Concurrency; 0 pauses probing
  wake,         \* Monitor.wake holds a token
  done,         \* Monitor.done: the completions sent and not received
  cancelled,    \* the context of Run is cancelled
  queued,       \* Monitor.queued
  inFlight,     \* Monitor.inFlight
  batch,        \* the keys of Monitor.batch
  started,      \* the keys of Monitor.batch whose value is true
  refresh,      \* Monitor.status.Refresh; id 0 stands for nil
  pc,           \* where Run is
  cfg,          \* Run's cfg.Concurrency
  snapshot,     \* Run's servers, the enabled ones
  readCfg,      \* refresh: the Concurrency GetConfig returned
  readServers,  \* refresh: the enabled servers ListServers returned
  nextDue,      \* Run's nextDue: absent, "later" or "due"
  older,        \* pairs <<a, b>> of due entries, a's deadline before b's
  rounds,       \* the workers inside runRound
  hpc,          \* where each handler is
  arg,          \* a handler's server, or the list ListServers gave it
  calls,        \* HTTP calls made so far
  storeErrors,  \* refreshes that failed so far
  stale,        \* the last refresh failed
  since         \* history: batch members dispatched since the batch was made

storeVars   == <<enabled, concurrency>>
batchVars   == <<batch, started, refresh>>
lockVars    == <<queued, inFlight, batch, started, refresh>>
readVars    == <<readCfg, readServers>>
loopVars    == <<cfg, snapshot, nextDue, older>>
errorVars   == <<storeErrors, stale>>
runVars     == <<pc, readVars, loopVars, rounds, errorVars>>
handlerVars == <<hpc, arg, calls>>
monitorVars == <<wake, done, cancelled, lockVars, runVars, since>>
vars        == <<storeVars, monitorVars, handlerVars>>

-----------------------------------------------------------------------------
(* Types                                                                   *)

Reasons  == {"none", "skipped", "unsaved", "paused", "stopped"}
Refresh  == [id : Nat, total : Nat, completed : Nat,
             pending : BOOLEAN, error : Reasons]
Round    == [server : Servers, refreshID : Nat]
Complete == [server : Servers, refreshID : Nat, failed : BOOLEAN]
RunPC    == {"config", "servers", "apply", "dispatch", "select",
             "waiting", "stopped"}
HandlerPC == {"idle", "getServer", "queue", "listServers", "queueAll", "wake"}

\* No worker runs and nothing is sent when Run starts; the store holds any
\* configuration, and Summary gives the saved deadline of every server.
Init ==
  /\ enabled \in SUBSET Servers
  /\ concurrency \in 0..MaxConcurrency
  /\ wake = FALSE
  /\ done = {}
  /\ cancelled = FALSE
  /\ queued = {} /\ inFlight = {}
  /\ batch = {} /\ started = {}
  /\ refresh = [id |-> 0, total |-> 0, completed |-> 0,
                pending |-> FALSE, error |-> "none"]
  /\ pc = "config"
  /\ cfg = 0 /\ snapshot = {}
  /\ readCfg = 0 /\ readServers = {}
  /\ nextDue = [s \in Servers |-> IF s \in enabled THEN "later" ELSE "none"]
  /\ older = {}
  /\ rounds = {}
  /\ hpc = [h \in Handlers |-> "idle"]
  /\ arg = [h \in Handlers |-> {}]
  /\ calls = 0
  /\ storeErrors = 0 /\ stale = FALSE
  /\ since = {}

-----------------------------------------------------------------------------
(* The batch of refresh.go                                                 *)

\* batchWaitingLocked, as the set of servers it holds for
Waiting == batch \ started

\* cancelBatchLocked
CancelBatch(reason) ==
  \/ /\ refresh.pending
     /\ refresh' = [refresh EXCEPT !.pending = FALSE, !.error = reason]
     /\ batch' = {} /\ started' = {}
  \/ /\ ~refresh.pending
     /\ UNCHANGED batchVars

\* mutant: a member that has gone is dropped and not counted
SkippedUncounted(valid) == {}

\* the members updateBatchLocked drops and counts as completed
Skipped(valid) == batch \ valid

\* updateBatchLocked; a pause cancels what is left of the batch
UpdateBatch(valid, paused) ==
  LET left == batch \cap valid
  IN \/ /\ refresh.pending
        /\ batch' = IF paused THEN {} ELSE left
        /\ started' = IF paused THEN {} ELSE started \cap valid
        /\ refresh' = [refresh EXCEPT
             !.completed = @ + Cardinality(Skipped(valid)),
             !.pending = left # {} /\ ~paused,
             !.error = IF left # {} /\ paused THEN "paused"
                       ELSE IF Skipped(valid) # {} THEN "skipped" ELSE @]
     \/ /\ ~refresh.pending
        /\ UNCHANGED batchVars

\* mutant: any completion of a member counts, whichever round it ends
CountsAnyRound(c) == refresh.pending /\ c.server \in batch

\* the guards of completeBatchLocked
Counts(c) ==
  /\ c.refreshID # 0
  /\ refresh.pending
  /\ c.refreshID = refresh.id
  /\ c.server \in started

\* completeBatchLocked
CompleteBatch(c) ==
  \/ /\ Counts(c)
     /\ batch' = batch \ {c.server}
     /\ started' = started \ {c.server}
     /\ refresh' = [refresh EXCEPT
                      !.completed = @ + 1,
                      !.error = IF c.failed THEN "unsaved" ELSE @,
                      !.pending = batch \ {c.server} # {}]
  \/ /\ ~Counts(c)
     /\ UNCHANGED batchVars

\* mutant: a member that is in flight is taken as started
NewBatchInFlight(list) ==
  /\ batch' = list /\ started' = list \cap inFlight
  /\ refresh' = [id |-> refresh.id + 1, total |-> Cardinality(list),
                 completed |-> 0, pending |-> list # {}, error |-> "none"]

\* the batch QueueAll makes of the enabled servers it listed
NewBatch(list) ==
  /\ batch' = list /\ started' = {}
  /\ refresh' = [id |-> refresh.id + 1, total |-> Cardinality(list),
                 completed |-> 0, pending |-> list # {}, error |-> "none"]

-----------------------------------------------------------------------------
(* HTTP handlers: each is a goroutine of its own, between any two steps of *)
(* which the loop, the workers and the other handlers may move.            *)

BeginCall(h) ==
  /\ hpc[h] = "idle"
  /\ calls < MaxCalls
  /\ calls' = calls + 1

GoTo(h, place) == hpc' = [hpc EXCEPT ![h] = place]

\* Monitor.Wake: a full channel already holds a token.
Wake(h) ==
  /\ hpc[h] = "wake"
  /\ wake' = TRUE
  /\ GoTo(h, "idle")
  /\ UNCHANGED <<storeVars, done, cancelled, lockVars, runVars, arg, calls, since>>

\* saveServer: Store.SaveServer creates or edits one server, then Wake.
SaveServer(h, s, on) ==
  /\ BeginCall(h)
  /\ enabled' = IF on THEN enabled \cup {s} ELSE enabled \ {s}
  /\ GoTo(h, "wake")
  /\ UNCHANGED <<concurrency, arg, monitorVars>>

\* deleteServer: Store.DeleteServer, then Wake.
DeleteServer(h, s) ==
  /\ BeginCall(h)
  /\ enabled' = enabled \ {s}
  /\ GoTo(h, "wake")
  /\ UNCHANGED <<concurrency, arg, monitorVars>>

\* mutant: the handler saves and does not wake the loop
SaveConfigNoWake(h, c) ==
  /\ BeginCall(h)
  /\ concurrency' = c
  /\ UNCHANGED <<enabled, hpc, arg, monitorVars>>

\* config: Store.SaveConfig, then Wake.
SaveConfig(h, c) ==
  /\ BeginCall(h)
  /\ concurrency' = c
  /\ GoTo(h, "wake")
  /\ UNCHANGED <<enabled, arg, monitorVars>>

\* Queue, first store call: a paused configuration is refused.
QueueGetConfig(h, s) ==
  /\ BeginCall(h)
  /\ concurrency # 0
  /\ GoTo(h, "getServer")
  /\ arg' = [arg EXCEPT ![h] = {s}]
  /\ UNCHANGED <<storeVars, monitorVars>>

\* Queue, second store call: an unknown or disabled server is refused.
QueueGetServer(h) ==
  /\ hpc[h] = "getServer"
  /\ \/ /\ arg[h] \subseteq enabled
        /\ GoTo(h, "queue")
        /\ UNCHANGED arg
     \/ /\ ~(arg[h] \subseteq enabled)
        /\ GoTo(h, "idle")
        /\ arg' = [arg EXCEPT ![h] = {}]
  /\ UNCHANGED <<storeVars, calls, monitorVars>>

QueueFull == Cardinality(queued) >= MaxQueued

\* Queue, the critical section: a server queued or in flight and a full
\* queue are refused; only a server that was queued is followed by Wake.
QueueInsert(h) ==
  LET refused == arg[h] \cap (queued \cup inFlight) # {} \/ QueueFull
  IN /\ hpc[h] = "queue"
     /\ \/ refused /\ GoTo(h, "idle") /\ UNCHANGED queued
        \/ ~refused /\ GoTo(h, "wake") /\ queued' = queued \cup arg[h]
     /\ arg' = [arg EXCEPT ![h] = {}]
     /\ UNCHANGED <<storeVars, wake, done, cancelled, inFlight, batchVars,
                    runVars, calls, since>>

\* QueueAll, first store call: a paused configuration is refused.
QueueAllGetConfig(h) ==
  /\ BeginCall(h)
  /\ concurrency # 0
  /\ GoTo(h, "listServers")
  /\ UNCHANGED <<storeVars, arg, monitorVars>>

\* QueueAll, second store call.
QueueAllListServers(h) ==
  /\ hpc[h] = "listServers"
  /\ GoTo(h, "queueAll")
  /\ arg' = [arg EXCEPT ![h] = enabled]
  /\ UNCHANGED <<storeVars, calls, monitorVars>>

\* QueueAll, the critical section: a pending batch is joined as it is.
QueueAllInstall(h) ==
  /\ hpc[h] = "queueAll"
  /\ \/ refresh.pending /\ GoTo(h, "idle") /\ UNCHANGED <<batchVars, since>>
     \/ ~refresh.pending /\ GoTo(h, "wake") /\ NewBatch(arg[h]) /\ since' = {}
  /\ arg' = [arg EXCEPT ![h] = {}]
  /\ UNCHANGED <<storeVars, wake, done, cancelled, queued, inFlight, runVars, calls>>

-----------------------------------------------------------------------------
(* Run: refresh, then dispatch, then the select that waits for the next    *)
(* event.                                                                  *)

\* refresh, first store call
ReadConfig ==
  /\ pc = "config"
  /\ readCfg' = concurrency
  /\ pc' = "servers"
  /\ UNCHANGED <<storeVars, wake, done, cancelled, lockVars, readServers, loopVars,
                 rounds, handlerVars, errorVars, since>>

\* refresh, second store call
ReadServers ==
  /\ pc = "servers"
  /\ readServers' = enabled
  /\ pc' = "apply"
  /\ UNCHANGED <<storeVars, wake, done, cancelled, lockVars, readCfg, loopVars,
                 rounds, handlerVars, errorVars, since>>

\* GetConfig, ValidateConfig or ListServers fails: refresh returns early and
\* the loop goes on with what it had.
RefreshFails ==
  /\ pc \in {"config", "servers"}
  /\ storeErrors < MaxStoreErrors
  /\ storeErrors' = storeErrors + 1
  /\ stale' = TRUE
  /\ pc' = "dispatch"
  /\ readCfg' = cfg
  /\ readServers' = snapshot
  /\ UNCHANGED <<storeVars, wake, done, cancelled, lockVars, loopVars, rounds,
                 handlerVars, since>>

\* the manual requests refresh keeps
StillQueued(valid) == queued \cap valid

\* refresh after its store calls.  A server nextDue does not know gets a
\* deadline, a server that is not valid loses its own and its request; a
\* changed interval may bring a later deadline nearer, not into the past.
ApplyRefresh ==
  /\ pc = "apply"
  /\ cfg' = readCfg
  /\ snapshot' = readServers
  /\ nextDue' = [s \in Servers |->
                   IF s \notin readServers THEN "none"
                   ELSE IF nextDue[s] = "none" THEN "later" ELSE nextDue[s]]
  /\ older' = older \cap (readServers \X readServers)
  /\ queued' = StillQueued(readServers)
  /\ UpdateBatch(readServers, readCfg = 0)
  /\ stale' = FALSE
  /\ pc' = "dispatch"
  /\ UNCHANGED <<storeVars, wake, done, cancelled, inFlight, readVars, rounds,
                 handlerVars, storeErrors, since>>

Manual == queued \cup Waiting

\* mutant: a server whose round is in flight may get another
EligibleInFlight ==
  {s \in snapshot : s \in Manual \/ nextDue[s] = "due"}

\* what the loop over the sorted candidates does not skip
Eligible ==
  {s \in snapshot : /\ s \notin inFlight
                    /\ s \in Manual \/ nextDue[s] = "due"}

\* mutant: manual requests first, then whichever comes
ManualOnlyBefore(a, b) == a \in Manual /\ b \notin Manual

\* the order of sort.SliceStable: manual requests, then the older deadline
Before(a, b) ==
  \/ a \in Manual /\ b \notin Manual
  \/ /\ (a \in Manual) = (b \in Manual)
     /\ nextDue[a] = "due"
     /\ nextDue[b] # "due" \/ <<a, b>> \in older

\* the candidates started before len(inFlight) reaches cfg.Concurrency
FirstOf(chosen) ==
  /\ \A a \in chosen, b \in Eligible \ chosen : ~Before(b, a)
  /\ Cardinality(inFlight) + Cardinality(chosen) <= cfg \/ chosen = {}
  /\ Cardinality(inFlight) + Cardinality(chosen) >= cfg \/ chosen = Eligible

\* dispatch, a critical section that starts a worker per chosen server
Dispatch ==
  /\ pc = "dispatch"
  /\ \E chosen \in SUBSET Eligible :
       /\ FirstOf(chosen)
       /\ rounds' = rounds \cup
            {[server |-> s, refreshID |-> IF s \in Waiting THEN refresh.id ELSE 0] :
               s \in chosen}
       /\ started' = started \cup (chosen \cap Waiting)
       /\ since' = (since \cap batch) \cup (chosen \cap Waiting)
       /\ queued' = queued \ chosen
       /\ inFlight' = inFlight \cup chosen
  /\ pc' = "select"
  /\ UNCHANGED <<storeVars, wake, done, cancelled, batch, refresh, loopVars,
                 readVars, handlerVars, errorVars>>

\* select, <-m.done: the deadline the completion carries lies ahead, and it is
\* stored for a server the loop no longer knows too.
OnDone(c) ==
  /\ pc = "select"
  /\ c \in done
  /\ done' = done \ {c}
  /\ inFlight' = inFlight \ {c.server}
  /\ CompleteBatch(c)
  /\ nextDue' = [nextDue EXCEPT ![c.server] = "later"]
  /\ older' = {p \in older : c.server \notin {p[1], p[2]}}
  /\ pc' = "dispatch"
  /\ UNCHANGED <<storeVars, wake, cancelled, queued, cfg, snapshot, readVars, rounds,
                 handlerVars, errorVars, since>>

\* select, <-m.wake
OnWake ==
  /\ pc = "select"
  /\ wake
  /\ wake' = FALSE
  /\ pc' = "config"
  /\ UNCHANGED <<storeVars, done, cancelled, lockVars, loopVars, readVars,
                 rounds, handlerVars, errorVars, since>>

\* select, <-tick.C: every fifth tick refreshes, and every tick dispatches
OnTick ==
  /\ pc = "select"
  /\ pc' \in {"config", "dispatch"}
  /\ UNCHANGED <<storeVars, wake, done, cancelled, lockVars, loopVars, readVars,
                 rounds, handlerVars, errorVars, since>>

\* select, <-ctx.Done()
OnCancel ==
  /\ pc = "select"
  /\ cancelled
  /\ CancelBatch("stopped")
  /\ pc' = "waiting"
  /\ UNCHANGED <<storeVars, wake, done, cancelled, queued, inFlight, loopVars,
                 readVars, rounds, handlerVars, errorVars, since>>

\* mutant: Run waits for inFlight, which only Run itself empties
RunReturnsWhenLanded ==
  /\ pc = "waiting"
  /\ inFlight = {}
  /\ pc' = "stopped"
  /\ UNCHANGED <<storeVars, wake, done, cancelled, lockVars, loopVars, readVars,
                 rounds, handlerVars, errorVars, since>>

\* workers.Wait() returns, and Run after it
RunReturns ==
  /\ pc = "waiting"
  /\ rounds = {}
  /\ pc' = "stopped"
  /\ UNCHANGED <<storeVars, wake, done, cancelled, lockVars, loopVars, readVars,
                 rounds, handlerVars, errorVars, since>>

-----------------------------------------------------------------------------
(* The workers, the clock and the context                                  *)

\* A worker's round ends and its completion goes into the channel; failed
\* says that SaveRound returned an error.
SendCompletion(r, failed) ==
  /\ r \in rounds
  /\ Cardinality(done) < DoneCapacity
  /\ rounds' = rounds \ {r}
  /\ done' = done \cup {[server |-> r.server, refreshID |-> r.refreshID,
                         failed |-> failed]}
  /\ UNCHANGED <<storeVars, wake, cancelled, lockVars, pc, loopVars, readVars,
                 handlerVars, errorVars, since>>

\* The select of a worker may take <-ctx.Done() instead.
DropCompletion(r) ==
  /\ r \in rounds
  /\ cancelled
  /\ rounds' = rounds \ {r}
  /\ UNCHANGED <<storeVars, wake, done, cancelled, lockVars, pc, loopVars, readVars,
                 handlerVars, errorVars, since>>

\* The deadline of s passes: it is younger than those that passed before.
Elapse(s) ==
  /\ nextDue[s] = "later"
  /\ nextDue' = [nextDue EXCEPT ![s] = "due"]
  /\ older' = older \cup {<<a, s>> : a \in {x \in Servers : nextDue[x] = "due"}}
  /\ UNCHANGED <<storeVars, wake, done, cancelled, lockVars, pc, cfg, snapshot,
                 readVars, rounds, handlerVars, errorVars, since>>

\* The program is told to stop.
Cancel ==
  /\ ~cancelled
  /\ cancelled' = TRUE
  /\ UNCHANGED <<storeVars, wake, done, lockVars, runVars, handlerVars, since>>

-----------------------------------------------------------------------------

Handler(h) ==
  \/ Wake(h)
  \/ QueueGetServer(h) \/ QueueInsert(h)
  \/ QueueAllListServers(h) \/ QueueAllInstall(h)

Request(h) ==
  \/ \E s \in Servers, on \in BOOLEAN : SaveServer(h, s, on)
  \/ \E s \in Servers : DeleteServer(h, s) \/ QueueGetConfig(h, s)
  \/ \E c \in 0..MaxConcurrency : SaveConfig(h, c)
  \/ QueueAllGetConfig(h)

Refreshing == ReadConfig \/ ReadServers \/ ApplyRefresh

Worker(r) == DropCompletion(r) \/ \E failed \in BOOLEAN : SendCompletion(r, failed)

Next ==
  \/ \E h \in Handlers : Request(h) \/ Handler(h)
  \/ Refreshing \/ RefreshFails \/ Dispatch
  \/ OnWake \/ OnTick \/ OnCancel \/ RunReturns
  \/ \E c \in done : OnDone(c)
  \/ \E r \in rounds : Worker(r)
  \/ \E s \in Servers : Elapse(s)
  \/ Cancel

Spec == Init /\ [][Next]_vars

(* Handlers that have begun end, SQLite answers, a round ends (each probe  *)
(* has a timeout), time passes, and Run takes its steps.  Go's select picks *)
(* at random among the ready cases, so a case that is ready again and again *)
(* is taken: strong fairness of each case.                                  *)
RoundOf(s) == \E r \in rounds : r.server = s /\ Worker(r)
DoneOf(s)  == \E c \in done : c.server = s /\ OnDone(c)

Fairness ==
  /\ \A h \in Handlers : WF_vars(Handler(h))
  /\ \A s \in Servers : WF_vars(RoundOf(s)) /\ WF_vars(Elapse(s)) /\ SF_vars(DoneOf(s))
  /\ WF_vars(Refreshing) /\ WF_vars(Dispatch) /\ WF_vars(RunReturns)
  /\ SF_vars(OnWake) /\ SF_vars(OnCancel)
  /\ SF_vars(OnTick /\ pc' = "config") /\ SF_vars(OnTick /\ pc' = "dispatch")

FairSpec == Spec /\ Fairness

-----------------------------------------------------------------------------
(* Safety                                                                  *)

\* The types, and the bound of the manual queue.
TypeOK ==
  /\ enabled \in SUBSET Servers
  /\ concurrency \in 0..MaxConcurrency
  /\ wake \in BOOLEAN
  /\ done \in SUBSET Complete
  /\ cancelled \in BOOLEAN
  /\ queued \in SUBSET Servers /\ Cardinality(queued) <= MaxQueued
  /\ inFlight \in SUBSET Servers
  /\ batch \in SUBSET Servers
  /\ started \in SUBSET Servers
  /\ refresh \in Refresh
  /\ pc \in RunPC
  /\ cfg \in 0..MaxConcurrency
  /\ snapshot \in SUBSET Servers
  /\ readCfg \in 0..MaxConcurrency
  /\ readServers \in SUBSET Servers
  /\ nextDue \in [Servers -> {"none", "later", "due"}]
  /\ older \in SUBSET (Servers \X Servers)
  /\ rounds \in SUBSET Round
  /\ hpc \in [Handlers -> HandlerPC]
  /\ arg \in [Handlers -> SUBSET Servers]
  /\ calls \in Nat
  /\ storeErrors \in Nat
  /\ stale \in BOOLEAN
  /\ since \in SUBSET Servers

\* The progress QueueAll's caller polls adds up: the batch is pending exactly
\* while it has members, every member is counted once, and a batch that ended
\* short of its total says why (updateBatchLocked, completeBatchLocked,
\* cancelBatchLocked).
BatchAccounting ==
  /\ refresh.pending <=> batch # {}
  /\ refresh.pending => refresh.completed + Cardinality(batch) = refresh.total
  /\ refresh.completed <= refresh.total
  /\ ~refresh.pending =>
       \/ refresh.completed = refresh.total
       \/ refresh.error \in {"paused", "stopped"}

\* The rounds that run and the completions not yet received.
Live == rounds \cup done

\* "Same server never overlaps": the rounds that run and the completions not
\* yet received are all of different servers, and inFlight is exactly theirs
\* until the context is cancelled (then a completion may be dropped).
NoOverlap ==
  /\ \A a, b \in rounds : a.server = b.server => a = b
  /\ \A a, b \in done : a.server = b.server => a = b
  /\ \A a \in rounds, b \in done : a.server # b.server
  /\ \A r \in Live : r.server \in inFlight
  /\ ~cancelled => \A s \in inFlight : \E r \in Live : r.server = s

\* No batch member is orphaned: each started member has a round or a
\* completion that carries this batch's id, so completeBatchLocked will count it.
StartedHasRound ==
  ~cancelled => \A s \in started :
    \E r \in Live : r.server = s /\ r.refreshID = refresh.id

\* A worker never blocks on the done channel, whatever Concurrency was
\* lowered or raised to while rounds ran.
DoneNeverBlocks == Cardinality(rounds) + Cardinality(done) <= DoneCapacity

\* A refresh that will see the store as it is now is certain: a handler is
\* about to call Wake, the token is there, or the loop has not yet read what
\* changed.  After a failed refresh the five second tick is left.
RefreshComing ==
  \/ wake \/ stale \/ \E h \in Handlers : hpc[h] = "wake"
  \/ pc = "config"
  \/ pc = "servers" /\ readCfg = concurrency
  \/ pc = "apply" /\ readCfg = concurrency /\ readServers = enabled
  \/ pc \in {"waiting", "stopped"}

\* No edit is lost and no request outlives what it asked for: while Run's
\* snapshot differs from the store, a request names a server that is not
\* enabled, or a batch is pending under a paused configuration (Queue and
\* QueueAll check the store before they take the lock), a refresh is coming.
NoLostWake ==
  \/ cfg # concurrency \/ snapshot # enabled
  \/ ~(queued \cup batch \subseteq enabled)
  \/ refresh.pending /\ concurrency = 0
  => RefreshComing

-----------------------------------------------------------------------------
(* Actions                                                                 *)

\* A member leaves a batch, otherwise than by its cancellation, only by a
\* round dispatched after the batch was made or because the refresh found it
\* disabled or deleted: a round already in flight never stands for the new one.
MemberNeedsNewRound ==
  [][\A s \in batch \ batch' :
       \/ refresh'.error \in {"paused", "stopped"}
       \/ s \in since
       \/ s \notin readServers]_vars

-----------------------------------------------------------------------------
(* Liveness                                                                *)

\* Every batch ends: its members are probed, skipped, or cancelled by a pause.
RefreshEnds == refresh.pending ~> (~refresh.pending \/ cancelled)

\* "This avoids starving later servers": with fewer slots than servers and
\* deadlines that keep passing, an enabled server that is due gets its round.
DueServed ==
  \A s \in Servers :
    (nextDue[s] = "due" /\ s \in enabled)
      ~> (s \in inFlight \/ s \notin enabled \/ concurrency = 0 \/ cancelled)

\* Cancelling the context ends Run: workers.Wait is never waited on for ever.
RunStops == cancelled ~> pc = "stopped"

=============================================================================
