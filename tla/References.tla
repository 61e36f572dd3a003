------------------------------ MODULE References ------------------------------
(***************************************************************************)
(* Monitor.references for one domain: the workers whose targets answered    *)
(* need a usable trusted reference.  When the pool has none, one of them    *)
(* queries the trusted sources in turn (the collection), the others wait    *)
(* for it, and afterwards 30 seconds pass before the sources are asked      *)
(* again, however many targets there are.                                   *)
(*                                                                         *)
(* TrustedPool has the single query; here it is known by what it leaves: a  *)
(* usable pool or not.  Pauses, refresh-alls, edits of the sources and the  *)
(* sources' own rounds come in between.  m.changed and the collection's     *)
(* done channel are closed to wake all who wait: the flag woken.            *)
(***************************************************************************)
EXTENDS Integers, FiniteSets

CONSTANTS
  Callers,      \* the workers that call references
  SourceCount,  \* the number of trusted sources
  MaxCalls,     \* bound: calls of references
  MaxPauses,    \* bound: pauses and resumes
  MaxEdits,     \* bound: edits of the sources
  MaxRefreshes  \* bound: calls of QueueAll

ASSUME ReferencesAssumption ==
  /\ IsFiniteSet(Callers)
  /\ SourceCount \in Nat /\ MaxCalls \in Nat
  /\ MaxPauses \in Nat /\ MaxEdits \in Nat /\ MaxRefreshes \in Nat

VARIABLES
  usable,      \* the pool holds a usable reference for the domain
  sources,     \* the fingerprint of the trusted sources
  paused,      \* Monitor.config.Concurrency is 0
  generation,  \* Monitor.cacheGeneration
  cancelled,   \* the context is cancelled
  collection,  \* Monitor.referenceCollections of the domain
  call,        \* each worker's call of references
  filled,      \* a source's own round has saved and not yet released its slot
  queries,     \* history: queries of collections that share one budget
  calls, pauses  \* the bounds used up

envVars == <<usable, sources, paused, generation, cancelled, filled, pauses>>
vars == <<envVars, collection, call, queries, calls>>

\* An error of a collection: none, that of a pause, or another: a refresh-all,
\* the context, an edited source, the store.
Errors == {"none", "paused", "other"}

\* busy says that done is not nil, limited that nextAt lies ahead.
Collection == [busy : BOOLEAN, fingerprint : Nat, limited : BOOLEAN, error : Errors]
NewCollection == [busy |-> FALSE, fingerprint |-> 0, limited |-> FALSE, error |-> "none"]

Waiting    == {"reread", "wait"}
Collecting == {"source", "acquire", "query", "release", "outcome", "interrupted", "finish"}
Places     == {"read", "snapshot", "lock"} \cup Waiting \cup Collecting

\* left counts the sources not yet asked, error is collectionErr and lookupErr.
NoCall == [at |-> "idle"]
Calls  == [at : Places, fingerprint : Nat, woken : BOOLEAN, generation : Nat,
           left : Nat, error : Errors]
NewCall == [at |-> "read", fingerprint |-> 0, woken |-> FALSE, generation |-> 0,
            left |-> 0, error |-> "none"]

Init ==
  /\ usable \in BOOLEAN
  /\ sources = 1
  /\ paused \in BOOLEAN
  /\ generation = 0
  /\ cancelled = FALSE
  /\ collection = NewCollection
  /\ call = [c \in Callers |-> NoCall]
  /\ filled = FALSE
  /\ queries = 0
  /\ calls = 0 /\ pauses = 0

\* closing a channel: all who hold it are woken
Woken(from) ==
  [c \in Callers |-> IF from[c].at \in Waiting
                     THEN [from[c] EXCEPT !.woken = TRUE] ELSE from[c]]

-----------------------------------------------------------------------------
(* What happens around the callers                                         *)

\* refresh puts a configuration in force: a pause, a resume or neither.
Configure ==
  /\ pauses < MaxPauses
  /\ pauses' = pauses + 1
  /\ paused' \in BOOLEAN
  /\ call' = Woken(call)
  /\ UNCHANGED <<usable, sources, generation, cancelled, collection, filled, queries, calls>>

\* refresh: a domain no longer configured is forgotten, unless it is collected.
Forget ==
  /\ ~collection.busy
  /\ collection' = NewCollection
  /\ queries' = 0
  /\ UNCHANGED <<envVars, call, calls>>

\* QueueAll: the next caller may collect at once.
QueueAll ==
  /\ generation < MaxRefreshes
  /\ generation' = generation + 1
  /\ collection' = [collection EXCEPT !.limited = FALSE]
  /\ queries' = 0
  /\ UNCHANGED <<usable, sources, paused, cancelled, call, filled, calls, pauses>>

\* An edit of a source changes the fingerprint and takes its observations away.
EditSources ==
  /\ sources <= MaxEdits
  /\ sources' = sources + 1
  /\ usable' \in {FALSE, usable}
  /\ UNCHANGED <<paused, generation, cancelled, collection, call, filled, queries, calls, pauses>>

\* The last usable reference leaves the history window.
PoolAges ==
  /\ usable' = FALSE
  /\ UNCHANGED <<sources, paused, generation, cancelled, collection, call, filled, queries,
                 calls, pauses>>

\* A round of a source's own, or one of another domain, saves what it found
\* and then releases its slot, which closes m.changed.
ProbeSaves ==
  /\ ~filled
  /\ filled' = TRUE
  /\ usable' \in {usable, TRUE}
  /\ UNCHANGED <<sources, paused, generation, cancelled, collection, call, queries, calls, pauses>>

ProbeReleases ==
  /\ filled
  /\ filled' = FALSE
  /\ call' = Woken(call)
  /\ UNCHANGED <<usable, sources, paused, generation, cancelled, collection, queries, calls,
                 pauses>>

\* 30 seconds have passed since the collection ended.  A caller compares the
\* clock it read at the head of the loop: the step is taken when the first whose
\* clock is past nextAt comes to the lock.
Elapse ==
  /\ collection.limited
  /\ ~collection.busy
  /\ collection' = [collection EXCEPT !.limited = FALSE]
  /\ queries' = 0
  /\ UNCHANGED <<envVars, call, calls>>

Cancel ==
  /\ ~cancelled
  /\ cancelled' = TRUE
  /\ UNCHANGED <<usable, sources, paused, generation, collection, call, filled, queries, calls,
                 pauses>>

-----------------------------------------------------------------------------
(* references                                                              *)

Becomes(c, record) == call' = [call EXCEPT ![c] = record]
GoTo(c, place) == Becomes(c, [call[c] EXCEPT !.at = place])
Return(c) == Becomes(c, NoCall)

\* classify calls references for a target that answered.
Begin(c) ==
  /\ call[c] = NoCall
  /\ calls < MaxCalls
  /\ calls' = calls + 1
  /\ Becomes(c, NewCall)
  /\ UNCHANGED <<envVars, collection, queries>>

\* The head of the loop: a usable pool always takes precedence.  The context
\* may have ended, and the store may fail.
Read(c) ==
  /\ call[c].at = "read"
  /\ \/ Return(c)
     \/ ~cancelled /\ ~usable /\ GoTo(c, "snapshot")
  /\ UNCHANGED <<envVars, collection, queries, calls>>

\* trustedSourceSnapshot, unless the store fails
Snapshot(c) ==
  /\ call[c].at = "snapshot"
  /\ \/ Return(c)
     \/ Becomes(c, [call[c] EXCEPT !.at = "lock", !.fingerprint = sources])
  /\ UNCHANGED <<envVars, collection, queries, calls>>

\* state.done # nil
Busy == collection.busy

\* the budget of the last collection of these sources is not over
Limited(c) == collection.fingerprint = call[c].fingerprint /\ collection.limited

\* The critical section: paused, the collection of another is in flight, the
\* budget is spent, or the caller collects.
LockPaused(c) ==
  /\ call[c].at = "lock"
  /\ paused
  /\ Return(c)
  /\ UNCHANGED <<envVars, collection, queries, calls>>

\* mutant: the pool is not read again after the channels are taken
LockWaitsAtOnce(c) ==
  /\ call[c].at = "lock"
  /\ ~paused /\ Busy
  /\ Becomes(c, [call[c] EXCEPT !.at = "wait", !.woken = FALSE])
  /\ UNCHANGED <<envVars, collection, queries, calls>>

LockWaits(c) ==
  /\ call[c].at = "lock"
  /\ ~paused /\ Busy
  /\ Becomes(c, [call[c] EXCEPT !.at = "reread", !.woken = FALSE])
  /\ UNCHANGED <<envVars, collection, queries, calls>>

LockRefused(c) ==
  /\ call[c].at = "lock"
  /\ ~paused /\ ~Busy /\ Limited(c)
  /\ Return(c)
  /\ UNCHANGED <<envVars, collection, queries, calls>>

LockCollects(c) ==
  /\ call[c].at = "lock"
  /\ ~paused /\ ~Busy /\ ~Limited(c)
  /\ collection' = [collection EXCEPT !.busy = TRUE, !.fingerprint = call[c].fingerprint]
  /\ Becomes(c, [call[c] EXCEPT !.at = "source", !.generation = generation,
                                !.left = SourceCount])
  /\ queries' = IF collection.fingerprint = call[c].fingerprint THEN queries ELSE 0
  /\ UNCHANGED <<envVars, calls>>

\* The pool is read once more after done and m.changed are taken: it is usable
\* by now, the store fails, or the caller waits.
Reread(c) ==
  /\ call[c].at = "reread"
  /\ \/ Return(c)
     \/ ~usable /\ GoTo(c, "wait")
  /\ UNCHANGED <<envVars, collection, queries, calls>>

\* the select on done, m.changed and the context
Wait(c) ==
  /\ call[c].at = "wait"
  /\ \/ call[c].woken /\ GoTo(c, "read")
     \/ cancelled /\ Return(c)
  /\ UNCHANGED <<envVars, collection, queries, calls>>

SourcesLeft(c) == call[c].left > 0

\* The head of the loop over the sources: the pool may have been filled, the
\* store may fail, and a source that was edited since is left out.
NextSource(c) ==
  /\ call[c].at = "source"
  /\ \/ /\ usable
        /\ Becomes(c, [call[c] EXCEPT !.at = "finish", !.error = "none"])
     \/ /\ SourcesLeft(c)
        /\ Becomes(c, [call[c] EXCEPT !.at = "finish", !.error = "other"])
     \/ /\ ~usable /\ ~SourcesLeft(c)
        /\ GoTo(c, "finish")
     \/ /\ ~usable /\ SourcesLeft(c)
        /\ Becomes(c, [call[c] EXCEPT !.at = "acquire", !.left = @ - 1])
     \/ /\ ~usable /\ SourcesLeft(c)
        /\ Becomes(c, [call[c] EXCEPT !.left = @ - 1])
  /\ UNCHANGED <<envVars, collection, queries, calls>>

\* lookup: a cached answer, or a slot unless probing is paused or over
Acquire(c) ==
  /\ call[c].at = "acquire"
  /\ \/ /\ paused
        /\ Becomes(c, [call[c] EXCEPT !.at = "outcome", !.error = "paused"])
        /\ UNCHANGED queries
     \/ /\ cancelled
        /\ Becomes(c, [call[c] EXCEPT !.at = "outcome", !.error = "other"])
        /\ UNCHANGED queries
     \/ GoTo(c, "outcome") /\ UNCHANGED queries
     \/ /\ ~paused
        /\ GoTo(c, "query")
        /\ queries' = queries + 1
  /\ UNCHANGED <<envVars, collection, calls>>

\* lookup: the answer is saved or not; the source may have been edited, or the
\* store may fail.
QueryEnds(c) ==
  /\ call[c].at = "query"
  /\ \/ GoTo(c, "release") /\ usable' \in {usable, TRUE}
     \/ /\ Becomes(c, [call[c] EXCEPT !.at = "release", !.error = "other"])
        /\ UNCHANGED usable
  /\ UNCHANGED <<sources, paused, generation, cancelled, filled, pauses, collection, queries,
                 calls>>

\* lookup: release
Release(c) ==
  /\ call[c].at = "release"
  /\ call' = [Woken(call) EXCEPT ![c] = [@ EXCEPT !.at = "outcome"]]
  /\ UNCHANGED <<envVars, collection, queries, calls>>

\* The pool is read back; the store may fail, or the context have ended.
Outcome(c) ==
  /\ call[c].at = "outcome"
  /\ \/ /\ usable
        /\ Becomes(c, [call[c] EXCEPT !.at = "finish", !.error = "none"])
     \/ Becomes(c, [call[c] EXCEPT !.at = "finish", !.error = "other"])
     \/ /\ ~usable
        /\ GoTo(c, IF cancelled THEN "finish" ELSE "interrupted")
  /\ UNCHANGED <<envVars, collection, queries, calls>>

Stopped(c) == paused \/ generation # call[c].generation

Interrupted(c) ==
  /\ call[c].at = "interrupted"
  /\ GoTo(c, IF Stopped(c) THEN "finish" ELSE "source")
  /\ UNCHANGED <<envVars, collection, queries, calls>>

\* mutant: a collection that found nothing is not held against the next
LimitedWhenUsable(c) == usable

\* the budget a collection leaves: none when it was interrupted
LimitedAfter(c) == ~(cancelled \/ Stopped(c))

\* mutant: nobody is told that the collection is over
FinishSilently(c) ==
  /\ call[c].at = "finish"
  /\ collection' = [collection EXCEPT !.busy = FALSE, !.limited = LimitedAfter(c)]
  /\ Return(c)
  /\ UNCHANGED <<envVars, queries, calls>>

\* The critical section after the loop: the error, the budget, and done closed.
Finish(c) ==
  /\ call[c].at = "finish"
  /\ collection' = [collection EXCEPT
       !.busy = FALSE,
       !.limited = LimitedAfter(c),
       !.error = IF cancelled THEN "other"
                 ELSE IF paused THEN "paused"
                 ELSE IF generation # call[c].generation THEN "other"
                 ELSE call[c].error]
  /\ call' = [Woken(call) EXCEPT ![c] = NoCall]
  /\ queries' = IF cancelled \/ Stopped(c) THEN 0 ELSE queries
  /\ UNCHANGED <<envVars, calls>>

-----------------------------------------------------------------------------

Caller(c) ==
  \/ Read(c) \/ Snapshot(c)
  \/ LockPaused(c) \/ LockWaits(c) \/ LockRefused(c) \/ LockCollects(c)
  \/ Reread(c) \/ Wait(c)
  \/ NextSource(c) \/ Acquire(c) \/ QueryEnds(c) \/ Release(c)
  \/ Outcome(c) \/ Interrupted(c) \/ Finish(c)

Next ==
  \/ \E c \in Callers : Begin(c) \/ Caller(c)
  \/ Configure \/ Forget \/ QueueAll \/ EditSources \/ PoolAges
  \/ ProbeSaves \/ ProbeReleases \/ Elapse \/ Cancel

Spec == Init /\ [][Next]_vars

\* A worker that can run does, and a query ends: it has a timeout, and its
\* gate is fair (ProbeGate).
FairSpec == Spec /\ \A c \in Callers : WF_vars(Caller(c))

-----------------------------------------------------------------------------

TypeOK ==
  /\ usable \in BOOLEAN /\ sources \in Nat /\ paused \in BOOLEAN
  /\ generation \in Nat /\ cancelled \in BOOLEAN
  /\ collection \in Collection
  /\ call \in [Callers -> Calls \cup {NoCall}]
  /\ filled \in BOOLEAN
  /\ queries \in Nat /\ calls \in Nat /\ pauses \in Nat

Collectors == {c \in Callers : call[c].at \in Collecting}

\* "Cold-start collection is shared per domain": never two workers collect,
\* and done is set exactly while one does, so no waiter waits for nobody.
SingleFlight ==
  /\ \A c, d \in Collectors : c = d
  /\ collection.busy <=> Collectors # {}

\* "Subscribe before re-reading the pool": a worker that waits unwoken waits
\* for a collection in flight, not through a pause, and over a pool that is
\* empty or whose writer has still to close m.changed.
NoLostFill ==
  \A c \in Callers : call[c].at = "wait" /\ ~call[c].woken =>
    /\ collection.busy
    /\ ~paused
    /\ usable => filled \/ \E d \in Collectors : call[d].at = "release"

\* "Failed or empty DNS replies share the same budget, even across many
\* targets": until 30 seconds have passed, or a pause, a refresh-all or an edit
\* gives the budget back, the targets of a domain send one query to a source.
BudgetIsShared == queries <= SourceCount

\* Every call of references ends, whatever is paused, edited or refreshed
\* meanwhile: the worker, and with it the round, goes on.
CallsEnd == \A c \in Callers : call[c] # NoCall ~> call[c] = NoCall

-----------------------------------------------------------------------------
(* What a comment says and the code does not do                            *)

\* "Resume/manual refresh may retry immediately": while probing is not paused,
\* the budget turns no caller away with the error of a pause.
ResumeRetries ==
  \A c \in Callers :
    call[c].at = "lock" /\ ~paused /\ ~Busy /\ Limited(c) => collection.error # "paused"

=============================================================================
