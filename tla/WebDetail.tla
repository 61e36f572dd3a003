----------------------------- MODULE WebDetail ------------------------------
(***************************************************************************)
(* The detail dialog of one server on the web page                         *)
(* (internal/web/assets/app.js): its records, read a page at a time, its   *)
(* status history for a time range, and the wait for a probe the user      *)
(* asked for.  The dialog may be closed and opened for another server      *)
(* while requests are under way.                                           *)
(*                                                                         *)
(* The records of a server are numbered 1, 2, ... in the order of their    *)
(* rounds.  hist and load are the latest requests of loadHistory and       *)
(* loadResults: the code numbers its requests and ignores the answer of    *)
(* every earlier one, so an earlier request is no part of the state.  An   *)
(* answer holds what the server knows when it arrives.                     *)
(***************************************************************************)
EXTENDS Integers, Sequences, SequencesExt, FiniteSetsExt

CONSTANTS
    Servers,        \* the servers of the list
    NoServer,       \* no dialog has been opened yet
    Ranges,         \* time ranges of the dialog
    FirstRange,     \* the one a page starts with (24h)
    PageSize,       \* records of a page (100)
    MaxFailures,    \* unread polls after which a wait is given up (5)
    MaxProbes,      \* bound: rounds of each server
    MaxClicks       \* bound: probes the user asks for

ASSUME ServersAssumption == NoServer \notin Servers /\ FirstRange \in Ranges
ASSUME SizesAssumption ==
    /\ PageSize \in Nat \ {0} /\ MaxFailures \in Nat \ {0}
    /\ MaxProbes \in [Servers -> Nat] /\ MaxClicks \in Nat

VARIABLES
    dialog,     \* the dialog: open, state.detailID, state.detailRange
    rows,       \* state.results
    end,        \* state.resultEnd
    strip,      \* state.statusHistory: whose, for which range
    hist,       \* the latest loadHistory under way
    load,       \* the latest loadResults under way; state.loadingResults is its id
    known,      \* last_probe of each server in state.data
    fetch,      \* the refreshState under way
    wait,       \* state.detailProbe
    timers,     \* the timer of pollDetailProbe, and timers set before whose handle is lost
    posts,      \* requests POST /api/servers/{id}/probe under way
    probes,     \* the rounds of each server so far
    clicks      \* probes the user asked for so far

view == <<rows, end, strip>>
vars == <<dialog, view, hist, load, known, fetch, wait, timers, posts,
          probes, clicks>>

Rounds == 0..Max({MaxProbes[s] : s \in Servers})
Records == [id: Servers, n: Rounds \ {0}]
Histories == [id: Servers, range: Ranges]
None == [id |-> NoServer]
Loads == [id: Servers, reset: BOOLEAN, before: Rounds]
Waits == [key: 1..MaxClicks, id: Servers, baseline: Rounds, failures: 0..(MaxFailures - 1)]
NoWait == [key |-> 0, id |-> NoServer, baseline |-> 0, failures |-> 0]
NoFetch == [phase |-> "none", key |-> 0]

TypeOK ==
    /\ dialog \in [open: BOOLEAN, id: Servers \cup {NoServer}, range: Ranges]
    /\ rows \in Seq(Records)
    /\ end \in BOOLEAN
    /\ strip \in Histories \cup {None} /\ hist \in Histories \cup {None}
    /\ load \in Loads \cup {None}
    /\ known \in [Servers -> Rounds] /\ probes \in [Servers -> Rounds]
    /\ fetch \in [phase: {"none", "asked", "loading"}, key: 0..MaxClicks]
    /\ wait \in Waits \cup {NoWait}
    /\ timers \in [set: BOOLEAN, lost: 0..1]
    /\ posts \subseteq 1..MaxClicks
    /\ clicks \in 0..MaxClicks

Init ==
    /\ dialog = [open |-> FALSE, id |-> NoServer, range |-> FirstRange]
    /\ rows = <<>> /\ end = FALSE /\ strip = None /\ hist = None /\ load = None
    /\ probes = [s \in Servers |-> 0] /\ known = probes
    /\ fetch = NoFetch /\ wait = NoWait /\ timers = [set |-> FALSE, lost |-> 0]
    /\ posts = {} /\ clicks = 0

-----------------------------------------------------------------------------
(* Reading.                                                                *)

Least(a, b) == IF a < b THEN a ELSE b

\* The answer of GET /api/servers/{id}/results (Store.ResultsPage): the newest records,
\* or those before a record, newest first, at most a page.
Page(id, before, newest) ==
    LET top == IF before = 0 THEN newest ELSE before - 1
    IN  [i \in 1..Least(PageSize, top) |-> [id |-> id, n |-> top - i + 1]]

\* Mutant of LoadHistory: the history shown before stays until the answer comes.
LoadHistoryKeeps(d) ==
    /\ hist' = [id |-> d.id, range |-> d.range]
    /\ strip' = strip

\* loadHistory up to its await, for the dialog d.
LoadHistory(d) ==
    /\ hist' = [id |-> d.id, range |-> d.range]
    /\ strip' = None

\* loadResults up to its await; another request for the same server stands in its way.
LoadResults(d, reset, shown) ==
    load' = IF load.id = d.id THEN load
            ELSE [id |-> d.id, reset |-> reset,
                  before |-> IF reset \/ shown = <<>> THEN 0 ELSE Last(shown).n]

LoadBoth(d, shown) == LoadHistory(d) /\ LoadResults(d, TRUE, shown)

\* Mutant of OpenDetail: the records of the server before stay.
OpenDetailKeeps(s, r) ==
    LET d == [open |-> TRUE, id |-> s, range |-> r]
    IN  /\ ~dialog.open
        /\ dialog' = d
        /\ rows' = rows /\ end' = FALSE
        /\ LoadBoth(d, <<>>)
        /\ UNCHANGED <<known, fetch, wait, timers, posts, probes, clicks>>

\* openDetail.
OpenDetail(s, r) ==
    LET d == [open |-> TRUE, id |-> s, range |-> r]
    IN  /\ ~dialog.open
        /\ dialog' = d
        /\ rows' = <<>> /\ end' = FALSE
        /\ LoadBoth(d, <<>>)
        /\ UNCHANGED <<known, fetch, wait, timers, posts, probes, clicks>>

Close ==
    /\ dialog.open
    /\ dialog' = [dialog EXCEPT !.open = FALSE]
    /\ UNCHANGED <<view, hist, load, known, fetch, wait, timers, posts, probes, clicks>>

\* A click on another range.
DetailRange(r) ==
    /\ dialog.open /\ r # dialog.range
    /\ dialog' = [dialog EXCEPT !.range = r]
    /\ LoadHistory(dialog')
    /\ UNCHANGED <<rows, end, load, known, fetch, wait, timers, posts, probes, clicks>>

\* The records are read again: the button, a verdict saved, the end of a batch.
Reread ==
    /\ dialog.open
    /\ LoadBoth(dialog, rows)
    /\ UNCHANGED <<dialog, rows, end, known, fetch, wait, timers, posts, probes, clicks>>

\* The button for older records.
More ==
    /\ dialog.open /\ load = None /\ ~end /\ rows # <<>>
    /\ LoadResults(dialog, FALSE, rows)
    /\ UNCHANGED <<dialog, view, hist, known, fetch, wait, timers, posts, probes, clicks>>

\* loadHistory after its await.
HistoryAnswered ==
    /\ hist # None
    /\ strip' \in {strip} \cup {h \in {hist} : h.id = dialog.id /\ h.range = dialog.range}
    /\ hist' = None
    /\ UNCHANGED <<dialog, rows, end, load, known, fetch, wait, timers, posts, probes, clicks>>

\* loadResults after its await: an answer, or an error.
ResultsAnswered ==
    /\ load # None
    /\ load' = None
    /\ \/ UNCHANGED <<rows, end>>
       \/ LET page == Page(load.id, load.before, probes[load.id])
          IN  /\ load.id = dialog.id
              /\ rows' = IF load.reset THEN page ELSE rows \o page
              /\ end' = (Len(page) < PageSize)
    /\ UNCHANGED <<dialog, strip, hist, known, fetch, wait, timers, posts, probes, clicks>>

-----------------------------------------------------------------------------
(* Waiting for a probe.                                                    *)

\* setTimeout of pollDetailProbe: a timer that is set loses its handle.
SetTimer(t) == [set |-> TRUE, lost |-> IF t.set THEN t.lost + 1 ELSE t.lost]

Stop == /\ wait' = NoWait
        /\ UNCHANGED <<hist, strip, load>>

GivenUp(failures) == failures >= MaxFailures

\* Mutants of AfterPoll: a poll without a reply of its own sets no timer; the failures
\* are not counted.
AfterPollQuits(key, reply, d, t) ==
    IF key = 0 \/ wait.key # key \/ reply = "none"
    THEN timers' = t /\ UNCHANGED <<wait, hist, strip, load>>
    ELSE IF d[wait.id] > wait.baseline
    THEN wait' = NoWait /\ LoadBoth(dialog, rows) /\ timers' = t
    ELSE IF reply = "halted" THEN Stop /\ timers' = t
    ELSE timers' = SetTimer(t) /\ UNCHANGED <<wait, hist, strip, load>>
AfterPollPatient(key, reply, d, t) ==
    IF key = 0 \/ wait.key # key
    THEN timers' = t /\ UNCHANGED <<wait, hist, strip, load>>
    ELSE IF reply # "failed" /\ d[wait.id] > wait.baseline
    THEN wait' = NoWait /\ LoadBoth(dialog, rows) /\ timers' = t
    ELSE IF reply = "halted" THEN Stop /\ timers' = t
    ELSE timers' = SetTimer(t) /\ UNCHANGED <<wait, hist, strip, load>>

\* pollDetailProbe after its refreshState: reply is "ok", "failed" for a refresh of its
\* own, "none" when another refresh was under way, "halted" in each of these cases if
\* the server is gone or disabled or the program is paused.  d is state.data.
AfterPoll(key, reply, d, t) ==
    IF key = 0 \/ wait.key # key
    THEN timers' = t /\ UNCHANGED <<wait, hist, strip, load>>
    ELSE LET failures == CASE reply = "failed" -> wait.failures + 1
                           [] reply \in {"ok", "halted"} -> 0
                           [] OTHER -> wait.failures
         IN  IF d[wait.id] > wait.baseline
             THEN /\ wait' = NoWait
                  /\ LoadBoth(dialog, rows)
                  /\ timers' = t
             ELSE IF reply = "halted" \/ GivenUp(failures)
             THEN Stop /\ timers' = t
             ELSE /\ wait' = [wait EXCEPT !.failures = failures]
                  /\ timers' = SetTimer(t)
                  /\ UNCHANGED <<hist, strip, load>>

\* pollDetailProbe up to its await; t are the timers once its own is cleared.
PollDetailProbe(t) ==
    IF wait = NoWait
    THEN timers' = t /\ UNCHANGED <<wait, fetch, hist, strip, load>>
    ELSE IF ~dialog.open \/ wait.id # dialog.id
    THEN Stop /\ timers' = t /\ fetch' = fetch
    ELSE IF fetch # NoFetch
    THEN /\ fetch' = fetch
         /\ \E reply \in {"none", "halted"} : AfterPoll(wait.key, reply, known, t)
    ELSE /\ fetch' = [NoFetch EXCEPT !.phase = "asked", !.key = wait.key]
         /\ timers' = t /\ UNCHANGED <<wait, hist, strip, load>>

\* probeNow up to its await.
ProbeNow ==
    /\ dialog.open /\ wait.id # dialog.id /\ clicks < MaxClicks
    /\ known[dialog.id] < MaxProbes[dialog.id]
    /\ clicks' = clicks + 1
    /\ wait' = [key |-> clicks + 1, id |-> dialog.id, baseline |-> known[dialog.id],
                failures |-> 0]
    /\ posts' = posts \cup {clicks + 1}
    /\ UNCHANGED <<dialog, view, hist, load, known, fetch, timers, probes>>

\* probeNow after it: an error lets go of whatever wait there is by now.
PostAnswered(p) ==
    /\ p \in posts
    /\ posts' = posts \ {p}
    /\ \/ PollDetailProbe([timers EXCEPT !.set = FALSE])
       \/ Stop /\ UNCHANGED <<fetch, timers>>
    /\ UNCHANGED <<dialog, rows, end, known, probes, clicks>>

\* A second is over: the timer of the handle, or one whose handle is lost.
PollTimer ==
    /\ \/ timers.set /\ PollDetailProbe([timers EXCEPT !.set = FALSE])
       \/ timers.lost > 0 /\ PollDetailProbe([set |-> FALSE, lost |-> timers.lost - 1])
    /\ UNCHANGED <<dialog, rows, end, known, posts, probes, clicks>>

-----------------------------------------------------------------------------
(* The refresh of the page, as far as the dialog is concerned.             *)

Refresh ==
    /\ fetch = NoFetch
    /\ fetch' = [NoFetch EXCEPT !.phase = "asked"]
    /\ UNCHANGED <<dialog, view, hist, load, known, wait, timers, posts, probes, clicks>>

\* refreshState after its request: new records of the open dialog's server are read,
\* and the refresh is not over before that.
FetchAnswered ==
    /\ fetch.phase = "asked"
    /\ \/ /\ fetch' = NoFetch
          /\ \E reply \in {"failed", "halted"} : AfterPoll(fetch.key, reply, known, timers)
          /\ known' = known
       \/ /\ known' = probes
          /\ IF dialog.open /\ probes[dialog.id] > known[dialog.id]
             THEN /\ fetch' = [fetch EXCEPT !.phase = "loading"]
                  /\ LoadBoth(dialog, rows)
                  /\ UNCHANGED <<wait, timers>>
             ELSE /\ fetch' = NoFetch
                  /\ \E reply \in {"ok", "halted"} :
                        AfterPoll(fetch.key, reply, probes, timers)
    /\ UNCHANGED <<dialog, rows, end, posts, probes, clicks>>

\* Both requests are settled; one that a later request replaced may settle at any time.
RefreshEnds ==
    /\ fetch.phase = "loading"
    /\ fetch' = NoFetch
    /\ \E reply \in {"ok", "halted"} : AfterPoll(fetch.key, reply, known, timers)
    /\ UNCHANGED <<dialog, rows, end, known, posts, probes, clicks>>

\* resetSession, on a sign-out or a refused request.  Whether the page has a session is
\* no part of the state: without one no dialog is open and no probe waited for.
SessionEnds ==
    /\ dialog' = [dialog EXCEPT !.open = FALSE]
    /\ wait' = NoWait /\ timers' = [timers EXCEPT !.set = FALSE]
    /\ UNCHANGED <<view, hist, load, known, fetch, posts, probes, clicks>>

\* A round of a server is stored.
ProbeDone(s) ==
    /\ probes[s] < MaxProbes[s]
    /\ probes' = [probes EXCEPT ![s] = @ + 1]
    /\ UNCHANGED <<dialog, view, hist, load, known, fetch, wait, timers, posts, clicks>>

-----------------------------------------------------------------------------

User ==
    \/ Close \/ Reread \/ More \/ ProbeNow \/ SessionEnds
    \/ \E s \in Servers, r \in Ranges : OpenDetail(s, r)
    \/ \E r \in Ranges : DetailRange(r)

Script ==
    \/ HistoryAnswered \/ ResultsAnswered \/ PollTimer
    \/ Refresh \/ FetchAnswered \/ RefreshEnds
    \/ \E p \in posts : PostAnswered(p)

Next == User \/ Script \/ \E s \in Servers : ProbeDone(s)

Spec == Init /\ [][Next]_vars

\* Requests are settled, timers fire, and a server somebody waits for is probed.
Fairness ==
    /\ WF_vars(FetchAnswered) /\ WF_vars(RefreshEnds) /\ SF_vars(PollTimer)
    /\ WF_vars(\E p \in posts : PostAnswered(p))
    /\ WF_vars(\E s \in Servers : s = wait.id /\ ProbeDone(s))

FairSpec == Spec /\ Fairness

-----------------------------------------------------------------------------
(* Properties.                                                             *)

\* The records on show are those of the dialog's server, in one unbroken run from new
\* to old, none twice: whatever requests were under way when the dialog changed its
\* server, pages are only put together that belong together (app.js:1408-1425); and the
\* button for older ones goes only when none are left (app.js:1423, 1443).
RowsAreOneRun ==
    /\ \A i \in 1..Len(rows) :
          /\ rows[i].id = dialog.id
          /\ i > 1 => rows[i].n = rows[i - 1].n - 1
    /\ end /\ rows # <<>> => Last(rows).n = 1

\* The status history on show is of the dialog's server and of the range that is
\* marked, never of the choice before (app.js:1385-1406).
StripIsOfChoice == strip # None => strip = [id |-> dialog.id, range |-> dialog.range]

\* A wait for a probe is never forgotten (its button would stay disabled): its request, a
\* refresh of its own or a timer will look again (app.js:1446-1494).
WaitIsFollowed ==
    wait # NoWait => wait.key \in posts \/ fetch.key = wait.key \/ timers.set \/ timers.lost > 0

\* Every wait ends: with the record, with an error, or with the dialog.
WaitEnds == []<>(wait = NoWait)

\* Violated: records shown after none begin with the newest the page knows of
\* (app.js:1340-1358 empties the list and reads the first page).  A dialog opened again
\* while older records of its server are under way takes those for the first page,
\* because the request in the way is for the same server (app.js:1410).
StartsWithNewest == [][rows = <<>> /\ rows' # <<>> => rows'[1].n >= known[dialog.id]]_vars

=============================================================================
