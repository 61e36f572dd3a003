----------------------------- MODULE ServerRounds -----------------------------
(***************************************************************************)
(* The life of one server across rounds, edits and restarts: the deadline  *)
(* and the failure count Run keeps for it, the round a worker makes of it   *)
(* domain by domain (runRound), the back-off that sets the next deadline    *)
(* (nextDelay), what SaveRound leaves in the database, and what a restarted *)
(* Run takes from there (Store.Summary).                                   *)
(*                                                                         *)
(* Scheduler has the loop and many servers and no clock; this module has   *)
(* the clock.  A unit of time stands for the five seconds under which no   *)
(* round is ever scheduled.  A disabled server and a deleted one are alike. *)
(***************************************************************************)
EXTENDS Integers

CONSTANTS
  Addresses,    \* the addresses the server may be given
  Configs,      \* the configurations that may be saved
  MinDelay,     \* the shortest delay nextDelay returns
  Recheck,      \* the longest delay after a long outage ends
  Stagger,      \* the longest delay of a deadline refresh makes up
  DomainCount,  \* the number of configured domains
  MaxTime,      \* bound: the clock
  MaxEdits,     \* bound: edits of the row or of the configuration
  MaxManual,    \* bound: manual requests
  MaxRestarts,  \* bound: exits and crashes of the program
  MaxLost       \* bound: rounds SaveRound fails to write

\* ceiling 0 says that back-off is off: SmartBackoff is FALSE or
\* MaxBackoffHours is 0.  paused says that Concurrency is 0.
Config == [interval : Nat \ {0}, ceiling : Nat, paused : BOOLEAN]

ASSUME RoundsAssumption ==
  /\ Configs \subseteq Config /\ Configs # {}
  /\ Addresses # {}
  /\ MinDelay \in Nat \ {0} /\ Recheck \in Nat /\ Stagger \in Nat
  /\ \A c \in Configs : c.interval >= MinDelay
  /\ MinDelay <= Recheck
  /\ DomainCount \in Nat \ {0}
  /\ MaxTime \in Nat /\ MaxEdits \in Nat /\ MaxManual \in Nat
  /\ MaxRestarts \in Nat /\ MaxLost \in Nat

VARIABLES
  row,        \* store: the server's row
  conf,       \* store: the saved configuration
  saved,      \* store: what the latest formal round left there
  now,        \* the clock
  up,         \* Run has made its first refresh
  cfg,        \* Run's cfg, and m.config
  known,      \* Run's copy of the row
  nextDue,    \* Run's nextDue of the server; 0 is absent
  failures,   \* Run's failures of the server
  manual,     \* the server is queued, or waits in a batch
  round,      \* the worker's round
  done,       \* the completion the worker sent
  cancelled,  \* the context is cancelled
  landed,     \* history: when the last round Run may know of ended; 0 unknown
  strays,     \* history: probes the row no longer asks for, since its last edit
  edits, manuals, restarts, lost  \* the bounds used up

storeVars == <<row, conf, saved>>
loopVars  == <<up, cfg, known, nextDue, failures, manual>>
boundVars == <<edits, manuals, restarts, lost>>
vars == <<storeVars, now, loopVars, round, done, cancelled, landed, strays, boundVars>>

Row   == [enabled : BOOLEAN, address : Addresses]
Saved == [finished : Nat, due : Nat, failures : Nat, silent : BOOLEAN]

NoRound  == [at |-> "none"]
RoundAt  == {"next", "gate", "probe", "end"}
Rounds   == [at : RoundAt, address : Addresses, cfg : Configs, previous : Nat,
             left : Nat, results : Nat, heard : BOOLEAN, silent : BOOLEAN]
NoCompletion == [sent |-> FALSE]
Completions  == [sent : {TRUE}, due : Nat, failures : Nat, heard : BOOLEAN]

Lesser(a, b)  == IF a < b THEN a ELSE b
Greater(a, b) == IF a > b THEN a ELSE b

-----------------------------------------------------------------------------
(* nextDelay                                                               *)

\* the ceiling is never under the base interval
Ceiling(c) == Greater(c.ceiling, c.interval)

\* the loop: from the third failure on the delay doubles, up to the ceiling
Doubled(c, count) ==
  LET delay[n \in 0..count] ==
        IF n <= 2 THEN c.interval ELSE Lesser(2 * delay[n - 1], Ceiling(c))
  IN IF c.ceiling > 0 /\ count >= 3 THEN delay[count] ELSE c.interval

\* the first answer after a long outage is checked again soon
Base(c, count, previous) ==
  IF count = 0 /\ previous >= 3 THEN Lesser(Doubled(c, count), Recheck)
  ELSE Doubled(c, count)

\* nextDelay: the jitter takes off up to a tenth, down to the shortest delay
Delays(c, count, previous) ==
  LET base == Base(c, count, previous)
  IN Greater((9 * base) \div 10, MinDelay)..Greater(base, MinDelay)

\* The back-off is bounded as documented (the instance assumes it of its configurations, so
\* TLC evaluates it): without it the interval, with it the interval doubled from the third
\* failure on, at most the ceiling or the interval, and the recheck after an outage, none
\* under the shortest delay.
BackoffIsBounded(c) ==
  \A n \in 0..6 :
    LET grown == IF c.ceiling = 0 \/ n < 3 THEN c.interval
                 ELSE Lesser(c.interval * 2^(n - 2), Greater(c.ceiling, c.interval))
    IN /\ \A d \in Delays(c, n, n) :
            MinDelay <= d /\ d <= grown /\ (10 * d >= 9 * grown - 9 \/ d = MinDelay)
       /\ n >= 3 => \A d \in Delays(c, 0, n) : MinDelay <= d /\ d <= Recheck

-----------------------------------------------------------------------------

Init ==
  /\ row \in [enabled : {TRUE}, address : Addresses]
  /\ conf \in Configs
  /\ saved = [finished |-> 0, due |-> 0, failures |-> 0, silent |-> FALSE]
  /\ now = 1
  /\ up = FALSE /\ cfg = conf /\ known = row
  /\ nextDue = 0 /\ failures = 0
  /\ manual = FALSE
  /\ round = NoRound /\ done = NoCompletion
  /\ cancelled = FALSE
  /\ landed = 0 /\ strays = 0
  /\ edits = 0 /\ manuals = 0 /\ restarts = 0 /\ lost = 0

\* inFlight holds the server until Run receives the completion.
InFlight == round # NoRound \/ done # NoCompletion

-----------------------------------------------------------------------------
(* The handlers and the clock                                              *)

\* saveServer and deleteServer
EditRow(r) ==
  /\ edits < MaxEdits /\ r # row
  /\ edits' = edits + 1
  /\ row' = r
  /\ strays' = 0
  /\ UNCHANGED <<conf, saved, now, loopVars, round, done, cancelled, landed, manuals,
                 restarts, lost>>

\* config
EditConfig(c) ==
  /\ edits < MaxEdits /\ c # conf
  /\ edits' = edits + 1
  /\ conf' = c
  /\ UNCHANGED <<row, saved, now, loopVars, round, done, cancelled, landed, strays,
                 manuals, restarts, lost>>

\* Queue and QueueAll, the moment the request is entered
Request ==
  /\ up
  /\ manuals < MaxManual
  /\ row.enabled /\ ~conf.paused /\ ~manual
  /\ manuals' = manuals + 1
  /\ manual' = TRUE
  /\ UNCHANGED <<storeVars, now, up, cfg, known, nextDue, failures, round, done,
                 cancelled, landed, strays, edits, restarts, lost>>

Tick ==
  /\ now < MaxTime
  /\ now' = now + 1
  /\ UNCHANGED <<storeVars, loopVars, round, done, cancelled, landed, strays, boundVars>>

Cancel ==
  /\ up /\ ~cancelled
  /\ cancelled' = TRUE
  /\ UNCHANGED <<storeVars, now, loopVars, round, done, landed, strays, boundVars>>

\* The program exits or is killed, and Run begins again from the rounds the
\* database holds.
Restart ==
  /\ restarts < MaxRestarts
  /\ restarts' = restarts + 1
  /\ up' = FALSE /\ cfg' = conf /\ known' = row
  /\ nextDue' = saved.due
  /\ failures' = saved.failures
  /\ manual' = FALSE
  /\ round' = NoRound /\ done' = NoCompletion
  /\ cancelled' = FALSE
  /\ landed' = saved.finished
  /\ strays' = 0
  /\ UNCHANGED <<storeVars, now, edits, manuals, lost>>

-----------------------------------------------------------------------------
(* Run.  Once the context is cancelled it may stop at any time, which is   *)
(* to take no more of these steps: until it meets <-ctx.Done() its select  *)
(* may still choose another case.                                          *)

SameBackoff(c, d) == c.interval = d.interval /\ c.ceiling = d.ceiling

\* refresh: a server without a deadline gets one, a changed interval or
\* back-off may only bring the deadline nearer, a server that is not enabled
\* loses deadline, failures and request.
Refresh ==
  /\ up' = TRUE
  /\ cfg' = conf
  /\ known' = row
  /\ \/ /\ row.enabled
        /\ \E wait \in 0..Stagger, delay \in Delays(conf, failures, failures) :
             LET deadline == IF nextDue = 0 THEN now + wait ELSE nextDue
             IN nextDue' = IF up /\ ~SameBackoff(cfg, conf)
                           THEN Lesser(deadline, now + delay) ELSE deadline
        /\ manual' = (manual /\ ~conf.paused)
        /\ UNCHANGED <<failures, landed>>
     \/ /\ ~row.enabled
        /\ nextDue' = 0 /\ failures' = 0 /\ manual' = FALSE /\ landed' = 0
  /\ UNCHANGED <<storeVars, now, round, done, cancelled, strays, boundVars>>

\* dispatch
Dispatch ==
  /\ up
  /\ ~cfg.paused
  /\ known.enabled
  /\ ~InFlight
  /\ manual \/ nextDue <= now
  /\ manual' = FALSE
  /\ round' = [at |-> "next", address |-> known.address, cfg |-> cfg,
               previous |-> failures, left |-> DomainCount,
               results |-> 0, heard |-> FALSE, silent |-> FALSE]
  /\ UNCHANGED <<storeVars, now, up, cfg, known, nextDue, failures, done, cancelled,
                 landed, strays, boundVars>>

\* mutant: the failures are taken over, the deadline is not
OnDoneKeepsDeadline ==
  /\ done # NoCompletion
  /\ done' = NoCompletion
  /\ failures' = done.failures
  /\ UNCHANGED <<storeVars, now, up, cfg, known, nextDue, manual, round, cancelled,
                 landed, strays, boundVars>>

\* Run receives the completion: the deadline and the failures it carries
\* replace those of the server.
OnDone ==
  /\ done # NoCompletion
  /\ done' = NoCompletion
  /\ nextDue' = done.due
  /\ failures' = done.failures
  /\ UNCHANGED <<storeVars, now, up, cfg, known, manual, round, cancelled, landed,
                 strays, boundVars>>

\* what the log calls a server that is back
LogsRecovery ==
  done # NoCompletion /\ known.enabled /\ failures > 0 /\ done.failures = 0

-----------------------------------------------------------------------------
(* The worker: runRound                                                    *)

RoundGoesTo(place) == round' = [round EXCEPT !.at = place]

unchangedByWorker ==
  <<storeVars, now, loopVars, done, cancelled, landed, boundVars>>

\* mutant: the round keeps the row it was started with
NextDomainUnchecked ==
  /\ round.at = "next"
  /\ IF round.left > 0 /\ ~cancelled THEN RoundGoesTo("gate") ELSE RoundGoesTo("end")
  /\ UNCHANGED <<unchangedByWorker, strays>>

\* The head of the loop: GetServer before each domain.
NextDomain ==
  /\ round.at = "next"
  /\ IF /\ round.left > 0
        /\ ~cancelled
        /\ row.enabled /\ row.address = round.address
     THEN RoundGoesTo("gate") ELSE RoundGoesTo("end")
  /\ UNCHANGED <<unchangedByWorker, strays>>

\* acquire refuses while probing is paused, and gives up when the context
\* ends; lookup returns no result and the round breaks.
GateRefuses ==
  /\ round.at = "gate"
  /\ cfg.paused \/ cancelled
  /\ RoundGoesTo("end")
  /\ UNCHANGED <<unchangedByWorker, strays>>

\* The slot is there: the query goes out, to the row as it was at the head of
\* the loop.
BeginProbe ==
  /\ round.at = "gate"
  /\ ~cfg.paused /\ ~cancelled
  /\ RoundGoesTo("probe")
  /\ strays' = IF row.enabled /\ row.address = round.address THEN strays ELSE strays + 1
  /\ UNCHANGED unchangedByWorker

\* The query ends: a reply came or the time was up.  A trusted row that was
\* edited meanwhile and references that cannot be had break the round.
ProbeEnds(heard, breaks) ==
  /\ round.at = "probe"
  /\ round' = [round EXCEPT
       !.at = IF breaks THEN "end" ELSE "next",
       !.left = @ - 1,
       !.results = @ + 1,
       !.heard = @ \/ heard,
       !.silent = @ \/ ~heard]
  /\ UNCHANGED <<unchangedByWorker, strays>>

\* The cancelled context kills the query, which becomes a result like another.
ProbeKilled ==
  /\ round.at = "probe"
  /\ cancelled
  /\ round' = [round EXCEPT !.at = "next", !.left = @ - 1, !.results = @ + 1]
  /\ UNCHANGED <<unchangedByWorker, strays>>

\* mutant: a round without results is an offline one
OfflineWhenEmpty == ~round.heard

\* no result of the round has a reply
Offline == round.results > 0 /\ ~round.heard

\* the failures of the completion
RoundFailures ==
  IF cancelled THEN round.previous
  ELSE IF Offline THEN round.previous + 1 ELSE 0

\* SaveRound of a formal round, as Summary reads it back: the failures are
\* the rounds without a reply since the last one with a reply.
SaveRound(due) ==
  saved' = [finished |-> now, due |-> due,
            failures |-> IF round.heard THEN 0 ELSE saved.failures + 1,
            silent |-> round.silent]

\* The rest of runRound, and the completion sent.  A round without results is
\* not saved; a round SaveRound fails to write is lost.
EndRound ==
  /\ round.at = "end"
  /\ \E delay \in Delays(round.cfg, RoundFailures, round.previous) :
       /\ done' = [sent |-> TRUE, due |-> now + delay, failures |-> RoundFailures,
                   heard |-> round.heard]
       /\ \/ round.results > 0 /\ SaveRound(now + delay) /\ UNCHANGED lost
          \/ round.results > 0 /\ lost < MaxLost /\ lost' = lost + 1 /\ UNCHANGED saved
          \/ round.results = 0 /\ UNCHANGED <<saved, lost>>
  /\ round' = NoRound
  /\ landed' = now
  /\ UNCHANGED <<row, conf, now, loopVars, cancelled, strays, edits, manuals, restarts>>

-----------------------------------------------------------------------------

Worker ==
  \/ NextDomain \/ GateRefuses \/ BeginProbe \/ ProbeKilled \/ EndRound
  \/ \E heard, breaks \in BOOLEAN : ProbeEnds(heard, breaks)

Next ==
  \/ \E r \in Row : EditRow(r)
  \/ \E c \in Configs : EditConfig(c)
  \/ Request \/ Tick \/ Cancel \/ Restart
  \/ Refresh \/ Dispatch \/ OnDone
  \/ Worker

Spec == Init /\ [][Next]_vars

-----------------------------------------------------------------------------

TypeOK ==
  /\ row \in Row /\ conf \in Configs /\ saved \in Saved
  /\ now \in Nat \ {0}
  /\ up \in BOOLEAN /\ cfg \in Configs /\ known \in Row
  /\ nextDue \in Nat /\ failures \in Nat /\ manual \in BOOLEAN
  /\ round \in Rounds \cup {NoRound}
  /\ done \in Completions \cup {NoCompletion}
  /\ cancelled \in BOOLEAN
  /\ landed \in Nat /\ strays \in Nat
  /\ edits \in Nat /\ manuals \in Nat /\ restarts \in Nat /\ lost \in Nat

\* "Server removal/disable takes effect before each next domain": after an
\* edit at most the query that was waiting for its slot still goes out.
RemovalTakesEffect == strays <= 1

\* The back-off a server suffers is on record: Run never counts more failures
\* than the database has offline rounds in a row, but for rounds it could not
\* write, so a restart never shortens what the running program imposed.
BackoffOnRecord ==
  ~InFlight /\ ~cancelled => failures <= saved.failures + lost

\* Scheduled rounds keep their distance: whatever is edited, restarted or
\* clamped, a round that nobody asked for begins at least the shortest delay
\* after the last one ended, unless the server was disabled in between.
RoundsKeepDistance ==
  [][round = NoRound /\ round' # NoRound =>
       manual \/ landed = 0 \/ now >= landed + MinDelay]_vars

-----------------------------------------------------------------------------
(* What the code's texts say and the program does not do                   *)

\* README: time the program does not run is a gap, not a service failure.  A
\* failure on record comes from a query the server let go unanswered.
StopIsNotFailure == saved.failures > 0 => saved.silent

\* The log says that the server is available again only when it replied.
RecoveryWasHeard == [][done' # done /\ LogsRecovery => done.heard]_vars

\* README: the configuration takes effect at once, the listen address apart.
\* A server at rest has no deadline further off than the configuration in
\* force allows.
ConfigTakesEffect ==
  up /\ ~InFlight /\ cfg = conf /\ known.enabled =>
    nextDue <= now + Greater(Base(cfg, failures, failures), MinDelay) + Stagger

=============================================================================
