----------------------------- MODULE WebRefresh -----------------------------
(***************************************************************************)
(* The session of one web page and everything it reads periodically        *)
(* (internal/web/assets/app.js): sign-in, sign-out, a refused request,     *)
(* the 15-second refresh, the choice of a time range, and the "refresh     *)
(* all" batch the page starts on the server and then follows.              *)
(*                                                                         *)
(* JavaScript runs one handler at a time, up to its next await.  An action *)
(* here is one such stretch of code.  A request is sent by one action,     *)
(* answered by the server in another (the answer is fixed there and may be *)
(* stale when it arrives) and handled by the page in a third.              *)
(*                                                                         *)
(* state.refreshing is fetch # NoFetch: at most one refreshState waits for *)
(* its answer, and a caller that finds one running gets null at once.      *)
(***************************************************************************)
EXTENDS Integers, FiniteSets

CONSTANTS
    Ranges,         \* the time ranges of the overview
    FirstRange,     \* the one a page starts with (24h)
    NoRange,        \* the page holds no data
    MaxFailures,    \* unread polls after which a batch is given up (5)
    MaxLogins,      \* bound: sign-ins
    MaxBatches,     \* bound: batches started in one life of the program
    MaxClicks,      \* bound: clicks on the refresh button
    MaxSleeping,    \* bound: range changes waiting for a running refresh
    MaxRestarts     \* bound: restarts of the program

ASSUME RangesAssumption == FirstRange \in Ranges /\ NoRange \notin Ranges
ASSUME BoundsAssumption ==
    /\ MaxFailures \in Nat \ {0} /\ MaxLogins \in Nat /\ MaxBatches \in Nat
    /\ MaxClicks \in Nat /\ MaxSleeping \in Nat /\ MaxRestarts \in Nat

VARIABLES
    ui,         \* the token, the two timers and the batch followed
    range,      \* state.range: the range the user chose
    loaded,     \* state.loadedRange: the range the page says its data is for
    shown,      \* the range the data of state.data was computed for
    fetch,      \* the refreshState that waits for its answer
    sleeping,   \* changeRange calls that wait for state.refreshing to become false
    posts,      \* requests POST /api/probes without an answer handled
    leaving,    \* sessions whose DELETE /api/session is not answered
    sessions,   \* the tokens the server accepts
    issued,     \* tokens issued so far
    batch,      \* the server's RefreshStatus; id 0: none since the start
    finished,   \* the batches that ended, as <<life, id>>
    clicks      \* clicks on the refresh button so far

page == <<ui, range, loaded, shown, fetch, sleeping, posts, leaving, clicks>>
server == <<sessions, issued, batch, finished>>
vars == <<page, server>>

-----------------------------------------------------------------------------
(* Data.                                                                   *)

\* What the server says of its latest batch; life counts its restarts and is
\* not visible to the page.
Batches == [life: 0..MaxRestarts, id: 0..MaxBatches, pending: BOOLEAN]
NoBatch(life) == [life |-> life, id |-> 0, pending |-> FALSE]

\* state.manualRefresh.  key stands for the identity of the object (0: null): click n
\* makes the object n, which waits for its request, and the answer puts the object
\* MaxClicks + n in its place.  by is the session that posted it.
Keys == 0..(2 * MaxClicks)
Answered(n) == MaxClicks + n
Tracking == [key: Keys, by: 0..MaxLogins, batch: Batches, failures: 0..MaxFailures]
Idle == [key |-> 0, by |-> 0, batch |-> NoBatch(0), failures |-> 0]
Starting(t) == t.key \in 1..MaxClicks
Following(t) == t.key > MaxClicks

UI == [token: 0..MaxLogins, manual: Tracking, timer: BOOLEAN, pollTimer: BOOLEAN]

\* What becomes of a request; "failed" stands for every error but a 401: no answer
\* arrives, or the server refuses (probing is paused, no such range).
Answers == {"none", "ok", "denied", "failed"}
Callers == {"login", "timer", "poll", "other"}
Fetches == [caller: Callers, key: Keys, token: 0..MaxLogins, range: Ranges,
            answer: Answers, batch: Batches]
NoFetch == [caller |-> "other", key |-> 0, token |-> 0, range |-> FirstRange,
            answer |-> "none", batch |-> NoBatch(0)]
Posts == [key: 1..MaxClicks, token: 0..MaxLogins, answer: Answers, batch: Batches]

Refreshing == fetch # NoFetch

TypeOK ==
    /\ ui \in UI
    /\ range \in Ranges
    /\ loaded \in Ranges \cup {NoRange} /\ shown \in Ranges \cup {NoRange}
    /\ fetch \in Fetches
    /\ sleeping \in 0..MaxSleeping
    /\ posts \subseteq Posts
    /\ leaving \subseteq 1..MaxLogins
    /\ sessions \subseteq 1..MaxLogins
    /\ issued \in 0..MaxLogins
    /\ batch \in Batches
    /\ finished \subseteq (0..MaxRestarts) \X (1..MaxBatches)
    /\ clicks \in 0..MaxClicks

\* A page nobody has signed in on: the script's own state, no token stored.
SignedOut == [token |-> 0, manual |-> Idle, timer |-> FALSE, pollTimer |-> FALSE]

Init ==
    /\ ui = SignedOut
    /\ range = FirstRange /\ loaded = NoRange /\ shown = NoRange
    /\ fetch = NoFetch /\ sleeping = 0 /\ posts = {} /\ leaving = {}
    /\ sessions = {} /\ issued = 0 /\ batch = NoBatch(0) /\ finished = {}
    /\ clicks = 0

-----------------------------------------------------------------------------
(* The functions of the script, as what they make of the page.             *)

\* resetSession: whatever session the page has by now is dropped.
ResetSession(u) ==
    [u EXCEPT !.token = 0, !.manual = Idle, !.timer = FALSE, !.pollTimer = FALSE]

\* scheduleRefresh: the timer set before is cleared, one is set while signed in.
ScheduleRefresh(u) == [u EXCEPT !.timer = u.token # 0]

\* What api does with a refused request before it throws.
AfterApi(u, answer) == IF answer = "denied" THEN ResetSession(u) ELSE u

\* refreshState from its beginning to its first await, when it does not return
\* null at once.
Fetching(caller, key, u, r) ==
    [caller |-> caller, key |-> key, token |-> u.token, range |-> r,
     answer |-> "none", batch |-> NoBatch(0)]

\* Mutants of Followed: a refresh of somebody else counts as a failure; no failure is
\* counted.
FollowedCounting(t, reply, b) ==
    IF reply = "ok" /\ b.id # 0 /\ b.id = t.batch.id
    THEN [t EXCEPT !.batch.pending = b.pending, !.failures = 0]
    ELSE IF reply # "ok" THEN [t EXCEPT !.failures = @ + 1] ELSE t
FollowedPatiently(t, reply, b) ==
    IF reply = "ok" /\ b.id # 0 /\ b.id = t.batch.id
    THEN [t EXCEPT !.batch.pending = b.pending] ELSE t

\* The followed batch t once a poll has its reply: "ok" with the server's batch,
\* "failed" for a refresh of the poll's own, "none" for a refresh that another
\* caller was waiting for.
Followed(t, reply, b) ==
    IF reply = "ok" /\ b.id # 0 /\ b.id = t.batch.id
    THEN [t EXCEPT !.batch.pending = b.pending, !.failures = 0]
    ELSE IF reply = "failed" THEN [t EXCEPT !.failures = @ + 1] ELSE t

\* pollManualRefresh goes on with t: no other batch has taken its place, it could be
\* read lately, it is not over.
GoesOn(t, reply, b) ==
    /\ ~(reply = "ok" /\ b.id # 0 /\ b.id # t.batch.id)
    /\ Followed(t, reply, b).failures < MaxFailures
    /\ Followed(t, reply, b).batch.pending

\* Mutant of AfterPoll: a poll without a reply of its own sets no timer.
AfterPollQuits(u, key, reply, b) ==
    LET t == u.manual
    IN  IF u.token = 0 \/ t.key # key \/ reply = "none" THEN u
        ELSE IF GoesOn(t, reply, b)
             THEN [u EXCEPT !.manual = Followed(t, reply, b), !.pollTimer = TRUE]
             ELSE [u EXCEPT !.manual = Idle]

\* pollManualRefresh after its refreshState: nothing if the page follows another
\* batch or none by now; otherwise the next poll in a second, or the last word.
AfterPoll(u, key, reply, b) ==
    LET t == u.manual
    IN  IF u.token = 0 \/ t.key # key THEN u
        ELSE IF GoesOn(t, reply, b)
             THEN [u EXCEPT !.manual = Followed(t, reply, b), !.pollTimer = TRUE]
             ELSE [u EXCEPT !.manual = Idle]

\* What follows the await of refreshState, in each of its callers.
AfterRefresh(u, caller, key, reply, b) ==
    CASE caller \in {"login", "timer"} -> ScheduleRefresh(u)
      [] caller = "poll" -> AfterPoll(u, key, reply, b)
      [] OTHER -> u

\* A handler that has made u of the page calls refreshState with the range r
\* chosen: one request more, or null at once.
RefreshState(caller, key, u, r) ==
    IF u.token = 0 \/ Refreshing
    THEN /\ ui' = AfterRefresh(u, caller, key, "none", NoBatch(0))
         /\ fetch' = fetch
    ELSE /\ ui' = u
         /\ fetch' = Fetching(caller, key, u, r)

-----------------------------------------------------------------------------
(* The page's handlers.                                                    *)

\* login, the request answered: the token is stored and the first refresh
\* started; the submit button stays disabled until that refresh returns.
Login ==
    /\ ui.token = 0 /\ fetch.caller # "login" /\ issued < MaxLogins
    /\ issued' = issued + 1
    /\ sessions' = sessions \cup {issued + 1}
    /\ RefreshState("login", 0, [ui EXCEPT !.token = issued + 1], range)
    /\ UNCHANGED <<range, loaded, shown, sleeping, posts, leaving, clicks,
                   batch, finished>>

\* The page is loaded again: the token in sessionStorage is the page's own, every
\* other piece of its state is lost with the requests under way.
Reload ==
    /\ ui' = [SignedOut EXCEPT !.token = ui.token, !.timer = ui.token # 0]
    /\ fetch' = IF ui.token = 0 THEN NoFetch ELSE Fetching("other", 0, ui, FirstRange)
    /\ range' = FirstRange /\ loaded' = NoRange /\ shown' = NoRange
    /\ sleeping' = 0 /\ posts' = {} /\ leaving' = {}
    /\ UNCHANGED <<clicks, server>>

\* logout up to its await.
Logout ==
    /\ ui.token # 0
    /\ leaving' = leaving \cup {ui.token}
    /\ UNCHANGED <<ui, range, loaded, shown, fetch, sleeping, posts, clicks, server>>

\* logout after it, whatever became of the request.
LeftSession(t) ==
    /\ t \in leaving
    /\ leaving' = leaving \ {t}
    /\ shown' = NoRange
    /\ ui' = ResetSession(ui)
    /\ UNCHANGED <<range, loaded, fetch, sleeping, posts, clicks, server>>

\* Mutant of RefreshTimer: a hidden page does not set the timer again.
RefreshTimerHidden ==
    /\ ui.timer
    /\ LET u == [ui EXCEPT !.timer = FALSE]
       IN  \/ ui' = u /\ fetch' = fetch
           \/ RefreshState("timer", 0, u, range)
    /\ UNCHANGED <<range, loaded, shown, sleeping, posts, leaving, clicks, server>>

\* The 15 seconds of scheduleRefresh are over.  Whether document.hidden holds is the
\* user's choice at every moment, so it is no part of the state.
RefreshTimer ==
    /\ ui.timer
    /\ LET u == [ui EXCEPT !.timer = FALSE]
       IN  \/ ui' = ScheduleRefresh(u) /\ fetch' = fetch
           \/ RefreshState("timer", 0, u, range)
    /\ UNCHANGED <<range, loaded, shown, sleeping, posts, leaving, clicks, server>>

\* visibilitychange, the page visible again.
Visible ==
    /\ ui.token # 0
    /\ RefreshState("other", 0, ui, range)
    /\ UNCHANGED <<range, loaded, shown, sleeping, posts, leaving, clicks, server>>

\* changeRange: a refresh under way may still be for the range before, so the
\* new one waits for its end.
ChangeRange(r) ==
    /\ ui.token # 0 /\ r # range
    /\ range' = r
    /\ IF Refreshing
       THEN /\ sleeping < MaxSleeping
            /\ sleeping' = sleeping + 1 /\ UNCHANGED <<ui, fetch>>
       ELSE /\ RefreshState("other", 0, ui, r) /\ sleeping' = sleeping
    /\ UNCHANGED <<loaded, shown, posts, leaving, clicks, server>>

\* Its loop finds state.refreshing false.
RangeWakes ==
    /\ sleeping > 0 /\ ~Refreshing
    /\ sleeping' = sleeping - 1
    /\ RefreshState("other", 0, ui, range)
    /\ UNCHANGED <<range, loaded, shown, posts, leaving, clicks, server>>

\* manualRefresh up to its await.
ManualRefresh ==
    /\ ui.token # 0 /\ ui.manual.key = 0 /\ clicks < MaxClicks
    /\ clicks' = clicks + 1
    /\ ui' = [ui EXCEPT !.manual = [Idle EXCEPT !.key = clicks + 1, !.by = ui.token]]
    /\ posts' = posts \cup {[key |-> clicks + 1, token |-> ui.token, answer |-> "none",
                             batch |-> NoBatch(0)]}
    /\ UNCHANGED <<range, loaded, shown, fetch, sleeping, leaving, server>>

\* manualRefresh after it: the batch answered is followed and polled at once; an
\* error lets go of whatever batch the page follows by now.
PostAnswered(p) ==
    /\ p \in posts /\ p.answer # "none"
    /\ posts' = posts \ {p}
    /\ IF p.answer = "ok"
       THEN RefreshState("poll", Answered(p.key),
                [ui EXCEPT !.pollTimer = FALSE,
                           !.manual = [key |-> Answered(p.key), by |-> p.token,
                                       batch |-> p.batch, failures |-> 0]], range)
       ELSE /\ ui' = [AfterApi(ui, p.answer) EXCEPT !.manual = Idle]
            /\ fetch' = fetch
    /\ UNCHANGED <<range, loaded, shown, sleeping, leaving, clicks, server>>

\* The second of pollManualRefresh is over.
PollTimer ==
    /\ ui.pollTimer
    /\ LET u == [ui EXCEPT !.pollTimer = FALSE]
       IN  IF u.manual.key = 0 \/ u.token = 0 THEN ui' = u /\ fetch' = fetch
           ELSE RefreshState("poll", u.manual.key, u, range)
    /\ UNCHANGED <<range, loaded, shown, sleeping, posts, leaving, clicks, server>>

\* Mutant of FetchAnswered: the range is read after the await.
FetchAnsweredLate ==
    /\ fetch.answer # "none"
    /\ fetch' = NoFetch
    /\ IF fetch.answer = "ok"
       THEN loaded' = range /\ shown' = fetch.range
       ELSE UNCHANGED <<loaded, shown>>
    /\ ui' = AfterRefresh(AfterApi(ui, fetch.answer), fetch.caller, fetch.key,
                          fetch.answer, fetch.batch)
    /\ UNCHANGED <<range, sleeping, posts, leaving, clicks, server>>

\* refreshState after its await, and then its caller.
FetchAnswered ==
    /\ fetch.answer # "none"
    /\ fetch' = NoFetch
    /\ IF fetch.answer = "ok"
       THEN loaded' = fetch.range /\ shown' = fetch.range
       ELSE UNCHANGED <<loaded, shown>>
    /\ ui' = AfterRefresh(AfterApi(ui, fetch.answer), fetch.caller, fetch.key,
                          fetch.answer, fetch.batch)
    /\ UNCHANGED <<range, sleeping, posts, leaving, clicks, server>>

-----------------------------------------------------------------------------
(* The server and the network.                                             *)

\* GET /api/state, answered from what the server knows at this moment.
ServeState ==
    /\ Refreshing /\ fetch.answer = "none"
    /\ fetch' = IF fetch.token \in sessions
                THEN [fetch EXCEPT !.answer = "ok", !.batch = batch]
                ELSE [fetch EXCEPT !.answer = "denied"]
    /\ UNCHANGED <<ui, range, loaded, shown, sleeping, posts, leaving, clicks, server>>

\* QueueAll: a batch under way is joined, otherwise one is started (over before it
\* began if no server is enabled).
Joined(life, id) == {b \in Batches : b.life = life /\ b.id = id}

\* POST /api/probes.
ServePost(p) ==
    /\ p \in posts /\ p.answer = "none"
    /\ \/ /\ p.token \notin sessions
          /\ posts' = (posts \ {p}) \cup {[p EXCEPT !.answer = "denied"]}
          /\ UNCHANGED <<batch, finished>>
       \/ /\ p.token \in sessions
          /\ IF batch.pending THEN batch' = batch
             ELSE batch.id < MaxBatches /\ batch' \in Joined(batch.life, batch.id + 1)
          /\ finished' = IF batch'.pending THEN finished
                         ELSE finished \cup {<<batch'.life, batch'.id>>}
          /\ posts' = (posts \ {p}) \cup {[p EXCEPT !.answer = "ok", !.batch = batch']}
    /\ UNCHANGED <<ui, range, loaded, shown, fetch, sleeping, leaving, clicks,
                   sessions, issued>>

\* DELETE /api/session.
ServeLogout(t) ==
    /\ t \in leaving
    /\ sessions' = sessions \ {t}
    /\ UNCHANGED <<page, issued, batch, finished>>

\* The last round of the batch is complete, or a pause ended it.
BatchEnds ==
    /\ batch.pending
    /\ batch' = [batch EXCEPT !.pending = FALSE]
    /\ finished' = finished \cup {<<batch.life, batch.id>>}
    /\ UNCHANGED <<page, sessions, issued>>

\* Another page starts a batch.
OtherBatch ==
    /\ ~batch.pending /\ batch.id < MaxBatches
    /\ batch' = [batch EXCEPT !.id = @ + 1, !.pending = TRUE]
    /\ UNCHANGED <<page, sessions, issued, finished>>

\* A session is twelve hours old.
Expire ==
    /\ \E t \in sessions : sessions' = sessions \ {t}
    /\ UNCHANGED <<page, issued, batch, finished>>

\* The program starts again: sessions and batch are kept in memory only, and
\* the batches are numbered from one again.
Restart ==
    /\ batch.life < MaxRestarts
    /\ batch' = NoBatch(batch.life + 1)
    /\ sessions' = {}
    /\ UNCHANGED <<page, issued, finished>>

\* The request is not served, or its answer does not arrive: fetch rejects.
LoseState ==
    /\ Refreshing /\ fetch.answer = "none"
    /\ fetch' = [fetch EXCEPT !.answer = "failed"]
    /\ UNCHANGED <<ui, range, loaded, shown, sleeping, posts, leaving, clicks, server>>

\* The same of a batch's request, or the server refuses it (503, probing paused).
FailPost(p) ==
    /\ p \in posts /\ p.answer # "failed"
    /\ posts' = (posts \ {p}) \cup {[p EXCEPT !.answer = "failed", !.batch = NoBatch(0)]}
    /\ UNCHANGED <<ui, range, loaded, shown, fetch, sleeping, leaving, clicks, server>>

-----------------------------------------------------------------------------
(* The whole.                                                              *)

User ==
    \/ Login \/ Reload \/ Logout \/ Visible \/ ManualRefresh
    \/ \E r \in Ranges : ChangeRange(r)

Script ==
    \/ RefreshTimer \/ PollTimer \/ RangeWakes \/ FetchAnswered
    \/ \E t \in leaving : LeftSession(t)
    \/ \E p \in posts : PostAnswered(p)

Program ==
    \/ ServeState \/ BatchEnds \/ OtherBatch \/ Expire \/ Restart
    \/ \E p \in posts : ServePost(p)
    \/ \E t \in leaving : ServeLogout(t)

Network == LoseState \/ \E p \in posts : FailPost(p)

Next == User \/ Script \/ Program \/ Network

Spec == Init /\ [][Next]_vars

\* Timers fire, the server answers what reached it, the browser settles every
\* request, and the rounds of a batch end (see Scheduler).  Of the user it is assumed
\* only that the page is not hidden for ever.  The poll's timer is fair in the strong
\* sense: it fires every second, while the refreshes that may stand in its way are
\* 15 seconds or a user's act apart.
Fairness ==
    /\ WF_vars(RefreshTimer /\ fetch' # fetch) /\ SF_vars(PollTimer) /\ WF_vars(FetchAnswered)
    /\ WF_vars(ServeState) /\ WF_vars(BatchEnds)
    /\ WF_vars(\E p \in posts : p.answer = "none" /\ (ServePost(p) \/ FailPost(p)))
    /\ WF_vars(\E p \in posts : PostAnswered(p)) /\ WF_vars(RangeWakes)

FairSpec == Spec /\ Fairness

-----------------------------------------------------------------------------
(* Properties.                                                             *)

\* What will ask for the batch the page waits for: the request while there is no
\* answer to it, then a refresh a poll waits for or the one-second timer.
Pollers ==
    IF Starting(ui.manual) THEN {p \in posts : p.key = ui.manual.key}
    ELSE {f \in {fetch} : f.caller = "poll" /\ f.key = ui.manual.key}
             \cup {x \in {"timer"} : ui.pollTimer}

\* The batch a page shows as running is followed by exactly one chain of polls: it
\* is neither forgotten (the button would stay disabled) nor polled twice
\* (pollManualRefresh, manualRefresh, app.js:926-978).  A batch whose session ended
\* before its request was answered is left out: see ButtonIsGivenBack.
OnePoll == ui.manual.key # 0 /\ ui.manual.by = ui.token => Cardinality(Pollers) = 1

\* A signed-in page never stops refreshing itself: the 15-second timer is set, or a
\* handler that will set it waits for its refresh (scheduleRefresh and its
\* callers, app.js:849-850 and 866-873), whatever happened to earlier sessions.
KeepsRefreshing ==
    ui.token # 0 => ui.timer \/ fetch.caller \in {"login", "timer"}

\* While the export button works (app.js:912 and 1704), the rows it writes were
\* computed for the range that is selected, however requests and range changes
\* overlapped.
ExportEnabled == shown # NoRange /\ loaded = range /\ ~Refreshing
ExportIsOfRange == ExportEnabled => shown = range

\* While the session lasts, the page lets go of a batch only when it has ended on the
\* server, or was unreadable to the end: a new batch of another page, an answer that
\* was under way, a refresh somebody else was waiting for are never taken for its
\* end (app.js:950-977).  The words "all servers have been probed" rest on this.  The
\* last disjunct is a weakness of the code: the answer or the error of another request,
\* such as one that an earlier session left behind, takes the place of the batch
\* (app.js:933 and 936).
FollowedToItsEnd ==
    [][LET t == ui.manual
       IN  (Following(t) /\ t.by = ui.token /\ ui'.manual.key = 0)
               => \/ <<t.batch.life, t.batch.id>> \in finished
                  \/ t.failures + 1 >= MaxFailures /\ fetch.answer = "failed"
                  \/ ui'.token = 0 \/ Reload
                  \/ \E p \in posts : PostAnswered(p)]_vars

\* A batch that the session follows does not keep the button for ever: the batch
\* ends, is replaced, or cannot be read five times (app.js:958-977), also across a
\* restart, after which no answer mentions the batch any more.
FollowingEnds == []<>(ui.manual.key = 0 \/ ui.manual.by # ui.token)

\* The range chosen is eventually the range shown, unless the user leaves
\* or chooses again (changeRange, app.js:1199-1209), if the network does not
\* fail and the page is not loaded again for ever.
RangeArrives ==
    <>[](fetch.answer # "failed") /\ <>[][~Reload]_vars =>
        \A r \in Ranges :
            (range = r /\ ui.token # 0)
                ~> ((loaded = r /\ shown = r) \/ range # r \/ ui.token = 0)

\* Violated: the button says that the page waits for the batch (app.js:916) only while
\* something will ask for the batch again.  An answer of POST /api/probes that comes
\* after resetSession sets state.manualRefresh (app.js:933) although pollManualRefresh
\* returns at once without a token (app.js:947); after the next sign-in the button
\* stays disabled.
ButtonIsGivenBack == ui.manual.key # 0 => Pollers # {}

=============================================================================
