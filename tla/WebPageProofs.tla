--------------------------- MODULE WebPageProofs ---------------------------
(* The overview of the web page, for every number of clicks, sign-ins and  *)
(* batches and every list of servers: it keeps refreshing itself, follows  *)
(* its batch to the end, exports the range it shows, and what is on the    *)
(* screen is what the filters, the order and the list call for.            *)
EXTENDS WebRefresh, WebTable, FiniteSetTheorems, TLAPS

-----------------------------------------------------------------------------
(* The functions of the script.                                            *)

Replies == {"none", "ok", "failed", "denied"}

LEMMA ValuesTyped ==
    /\ Idle \in Tracking /\ SignedOut \in UI /\ NoFetch \in Fetches
    /\ Idle.key = 0 /\ NoFetch.caller = "other" /\ NoFetch.key = 0 /\ NoFetch.answer = "none"
    /\ \A life \in 0..MaxRestarts : NoBatch(life) \in Batches
    /\ \A n \in 0..MaxClicks : n \in Keys /\ Answered(n) \in Keys
BY RangesAssumption, BoundsAssumption
DEF Idle, SignedOut, NoFetch, Tracking, UI, Fetches, Callers, Answers, NoBatch, Batches, Keys,
    Answered

\* A poll learns of its batch whether it is over and how often it could not be read.
LEMMA FollowedIs ==
    ASSUME NEW t \in Tracking, NEW reply \in Replies, NEW b \in Batches
    PROVE  LET g == Followed(t, reply, b)
           IN  /\ g.failures <= MaxFailures => g \in Tracking
               /\ g.key = t.key /\ g.by = t.by
               /\ g.batch \in Batches /\ g.batch.life = t.batch.life /\ g.batch.id = t.batch.id
               /\ IF reply = "ok" /\ b.id # 0 /\ b.id = t.batch.id
                  THEN g.batch.pending = b.pending /\ g.failures = 0
                  ELSE g.batch = t.batch /\ g.failures = IF reply = "failed" THEN t.failures + 1
                                                         ELSE t.failures
<1> DEFINE g == Followed(t, reply, b)
<1>1. /\ t.key \in Keys /\ t.by \in 0..MaxLogins /\ t.failures \in 0..MaxFailures
      /\ t.batch \in Batches /\ b.pending \in BOOLEAN
  BY DEF Tracking, Batches
<1>2. CASE reply = "ok" /\ b.id # 0 /\ b.id = t.batch.id
  <2> DEFINE c == [t.batch EXCEPT !.pending = b.pending]
  <2>1. c \in Batches /\ c.life = t.batch.life /\ c.id = t.batch.id /\ c.pending = b.pending
    BY <1>1 DEF Batches
  <2>2. g = [t EXCEPT !.batch = c, !.failures = 0]
    BY <1>2 DEF Followed
  <2> HIDE DEF c, g
  <2>3. g.key = t.key /\ g.by = t.by /\ g.batch = c /\ g.failures = 0
    BY <2>2 DEF Tracking
  <2>4. g \in Tracking
    <3>1. 0 \in 0..MaxFailures
      BY BoundsAssumption
    <3>2. [t EXCEPT !.batch = c] \in Tracking
      BY <2>1 DEF Tracking
    <3> QED
      BY <2>2, <3>1, <3>2 DEF Tracking
  <2> QED
    BY <1>2, <2>1, <2>3, <2>4 DEF g
<1>3. CASE ~(reply = "ok" /\ b.id # 0 /\ b.id = t.batch.id) /\ reply = "failed"
  <2>1. g = [t EXCEPT !.failures = t.failures + 1]
    BY <1>3 DEF Followed
  <2> HIDE DEF g
  <2>2. g.key = t.key /\ g.by = t.by /\ g.batch = t.batch /\ g.failures = t.failures + 1
    BY <2>1 DEF Tracking
  <2>3. g.failures <= MaxFailures => g \in Tracking
    BY <1>1, <2>1, <2>2, BoundsAssumption DEF Tracking
  <2> QED
    BY <1>1, <1>3, <2>2, <2>3 DEF g
<1>4. CASE ~(reply = "ok" /\ b.id # 0 /\ b.id = t.batch.id) /\ reply # "failed"
  <2>1. g = t
    BY <1>4 DEF Followed
  <2> QED
    BY <2>1, <1>1, <1>4
<1> QED
  BY <1>2, <1>3, <1>4

\* What a poll makes of the page: another page, but never another session.
LEMMA AfterPollTyped ==
    ASSUME NEW u \in UI, NEW key \in Keys, NEW reply \in Replies, NEW b \in Batches
    PROVE  /\ AfterPoll(u, key, reply, b) \in UI
           /\ AfterPoll(u, key, reply, b).token = u.token
           /\ AfterPoll(u, key, reply, b).timer = u.timer
<1> DEFINE t == u.manual
           g == Followed(t, reply, b)
           w == AfterPoll(u, key, reply, b)
<1>1. t \in Tracking
  BY DEF UI
<1>2. CASE GoesOn(t, reply, b) /\ w = [u EXCEPT !.manual = g, !.pollTimer = TRUE]
  <2>1. g.failures < MaxFailures
    BY <1>2 DEF GoesOn
  <2>2. g.failures <= MaxFailures => g \in Tracking
    BY <1>1, FollowedIs
  <2>3. g.failures \in Int
    BY <1>1, FollowedIs DEF Tracking
  <2>4. g \in Tracking
    BY <2>1, <2>2, <2>3, BoundsAssumption
  <2> HIDE DEF g, w
  <2>5. w \in UI /\ w.token = u.token /\ w.timer = u.timer
    BY <1>2, <2>4 DEF UI
  <2> QED
    BY <2>5 DEF w
<1>3. CASE w = [u EXCEPT !.manual = Idle]
  <2> HIDE DEF w
  <2>1. w \in UI /\ w.token = u.token /\ w.timer = u.timer
    BY <1>3, ValuesTyped DEF UI
  <2> QED
    BY <2>1 DEF w
<1>4. CASE w = u
  BY <1>4
<1>5. \/ GoesOn(t, reply, b) /\ w = [u EXCEPT !.manual = g, !.pollTimer = TRUE]
      \/ w = [u EXCEPT !.manual = Idle]
      \/ w = u
  BY Zenon DEF AfterPoll
<1> QED
  BY <1>2, <1>3, <1>4, <1>5

LEMMA ScheduleRefreshIs ==
    ASSUME NEW u \in UI
    PROVE  LET w == ScheduleRefresh(u)
           IN  /\ w \in UI /\ w.token = u.token /\ w.manual = u.manual
               /\ w.pollTimer = u.pollTimer /\ (w.timer <=> u.token # 0)
BY DEF ScheduleRefresh, UI

LEMMA AfterApiIs ==
    ASSUME NEW u \in UI, NEW reply \in Replies
    PROVE  LET w == AfterApi(u, reply)
           IN  /\ w \in UI
               /\ reply # "denied" => w = u
               /\ reply = "denied" => /\ w.token = 0 /\ w.manual = Idle
                                      /\ w.timer = FALSE /\ w.pollTimer = FALSE
<1>1. reply # "denied" => AfterApi(u, reply) = u
  BY DEF AfterApi
<1>2. ASSUME reply = "denied"
      PROVE  AfterApi(u, reply) = [token |-> 0, manual |-> Idle, timer |-> FALSE, pollTimer |-> FALSE]
  BY <1>2 DEF AfterApi, ResetSession, UI
<1>3. 0 \in 0..MaxLogins
  BY BoundsAssumption
<1>4. [token |-> 0, manual |-> Idle, timer |-> FALSE, pollTimer |-> FALSE] \in UI
  BY <1>3, ValuesTyped DEF UI
<1>5. CASE reply = "denied"
  <2> DEFINE w == AfterApi(u, reply)
  <2>1. w = [token |-> 0, manual |-> Idle, timer |-> FALSE, pollTimer |-> FALSE]
    BY <1>2, <1>5
  <2> HIDE DEF w
  <2>2. w \in UI /\ w.token = 0 /\ w.manual = Idle /\ w.timer = FALSE /\ w.pollTimer = FALSE
    BY <1>4, <2>1
  <2> QED
    BY <1>5, <2>2 DEF w
<1> QED
  BY <1>1, <1>5

LEMMA FetchingIs ==
    ASSUME NEW caller \in Callers, NEW key \in Keys, NEW u \in UI, NEW r \in Ranges
    PROVE  LET f == Fetching(caller, key, u, r)
           IN  /\ f \in Fetches /\ f.caller = caller /\ f.key = key
               /\ f.token = u.token /\ f.answer = "none" /\ f.range = r
BY ValuesTyped, BoundsAssumption DEF Fetching, Fetches, UI, Answers

\* refreshState: one request more or none, and then what its caller does without one.
LEMMA RefreshStateIs ==
    ASSUME NEW caller \in Callers, NEW key \in Keys, NEW u \in UI, NEW r \in Ranges,
           fetch \in Fetches, RefreshState(caller, key, u, r)
    PROVE  /\ ui' \in UI /\ fetch' \in Fetches /\ ui'.token = u.token
           /\ \/ /\ u.token # 0 /\ fetch = NoFetch
                 /\ ui' = u /\ fetch' = Fetching(caller, key, u, r)
              \/ /\ u.token = 0 \/ Refreshing
                 /\ fetch' = fetch
                 /\ ui' = AfterRefresh(u, caller, key, "none", NoBatch(0))
           /\ caller = "other" => ui' = u
           /\ caller # "poll" => ui'.manual = u.manual /\ ui'.pollTimer = u.pollTimer
           /\ caller = "poll" => ui'.timer = u.timer
<1>1. CASE u.token = 0 \/ Refreshing
  <2>1. /\ fetch' = fetch /\ ui' = AfterRefresh(u, caller, key, "none", NoBatch(0))
    BY <1>1 DEF RefreshState
  <2>2. NoBatch(0) \in Batches
    BY ValuesTyped, BoundsAssumption
  <2>3. CASE caller \in {"login", "timer"}
    BY <2>1, <2>3, <1>1, ScheduleRefreshIs DEF AfterRefresh
  <2>4. CASE caller = "poll"
    <3> DEFINE n == NoBatch(0)
    <3>1. n \in Batches /\ "none" \in Replies
      BY <2>2 DEF Replies
    <3>2. ui' = AfterPoll(u, key, "none", n)
      BY <2>1, <2>4 DEF AfterRefresh
    <3> HIDE DEF n
    <3>3. ui' \in UI /\ ui'.token = u.token /\ ui'.timer = u.timer
      BY <3>1, <3>2, AfterPollTyped
    <3> QED
      BY <1>1, <2>1, <2>4, <3>3
  <2>5. CASE caller = "other"
    BY <2>1, <2>5, <1>1 DEF AfterRefresh
  <2> QED
    BY <2>3, <2>4, <2>5 DEF Callers
<1>2. CASE ~(u.token = 0 \/ Refreshing)
  <2>1. ui' = u /\ fetch' = Fetching(caller, key, u, r) /\ fetch = NoFetch
    BY <1>2 DEF RefreshState, Refreshing
  <2> QED
    BY <1>2, <2>1, FetchingIs
<1> QED
  BY <1>1, <1>2

\* A handler that ends with a refresh.
LEMMA ReplyTyped ==
    ASSUME NEW u \in UI, NEW f \in Fetches, f.answer # "none"
    PROVE  /\ AfterRefresh(AfterApi(u, f.answer), f.caller, f.key, f.answer, f.batch) \in UI
           /\ AfterApi(u, f.answer) \in UI
<1> DEFINE v == AfterApi(u, f.answer)
<1>1. f.caller \in Callers /\ f.key \in Keys /\ f.answer \in Replies /\ f.batch \in Batches
  BY DEF Fetches, Replies, Answers
<1>2. v \in UI
  BY <1>1, AfterApiIs
<1> HIDE DEF v
<1>3. CASE f.caller \in {"login", "timer"}
  BY <1>2, <1>3, ScheduleRefreshIs DEF AfterRefresh, v
<1>4. CASE f.caller = "poll"
  <2>1. AfterRefresh(v, f.caller, f.key, f.answer, f.batch) = AfterPoll(v, f.key, f.answer, f.batch)
    BY <1>4 DEF AfterRefresh
  <2> QED
    BY <1>1, <1>2, <2>1, AfterPollTyped DEF v
<1>5. CASE f.caller = "other"
  BY <1>2, <1>5 DEF AfterRefresh, v
<1> QED
  BY <1>1, <1>3, <1>4, <1>5 DEF Callers

-----------------------------------------------------------------------------
(* Types.                                                                  *)

LEMMA NewPostsTyped ==
    ASSUME TypeOK, NEW p \in posts
    PROVE  /\ p.key \in 1..MaxClicks /\ p.key \in 0..MaxClicks /\ p.token \in 0..MaxLogins
           /\ p.answer \in Replies /\ p.batch \in Batches
           /\ \A b \in Batches, s \in Answers : [p EXCEPT !.answer = s, !.batch = b] \in Posts
           /\ \A s \in Answers : [p EXCEPT !.answer = s] \in Posts
<1>1. p \in Posts
  BY DEF TypeOK
<1>2. /\ p.key \in 1..MaxClicks /\ p.token \in 0..MaxLogins
      /\ p.answer \in Answers /\ p.batch \in Batches
  BY <1>1 DEF Posts
<1>3. ASSUME NEW s \in Answers, NEW b \in Batches
      PROVE  [p EXCEPT !.answer = s, !.batch = b] \in Posts /\ [p EXCEPT !.answer = s] \in Posts
  BY <1>1, <1>3 DEF Posts
<1>4. \A s \in Answers : [p EXCEPT !.answer = s] \in Posts
  BY <1>2, <1>3
<1>5. \A b \in Batches, s \in Answers : [p EXCEPT !.answer = s, !.batch = b] \in Posts
  BY <1>3
<1>6. p.key \in 0..MaxClicks /\ p.answer \in Replies
  BY <1>2, BoundsAssumption DEF Answers, Replies
<1> QED
  BY <1>2, <1>4, <1>5, <1>6

\* A batch under way has a number.
TypeInv == TypeOK /\ (batch.pending => batch.id # 0)

LEMMA InitTyped == Init => TypeInv
BY ValuesTyped, RangesAssumption, BoundsAssumption
DEF Init, TypeInv, TypeOK, Keys, SignedOut, Batches, NoBatch

LEMMA BatchStep ==
    ASSUME TypeInv, NEW b \in Batches, b.life = batch.life, b.id = batch.id + 1
    PROVE  <<b.life, b.id>> \in (0..MaxRestarts) \X (1..MaxBatches)
BY BoundsAssumption DEF TypeInv, TypeOK, Batches

LEMMA TypeStep == TypeInv /\ [Next]_vars => TypeInv'
<1> SUFFICES ASSUME TypeInv, [Next]_vars  PROVE TypeInv'
  OBVIOUS
<1> TypeOK
  BY DEF TypeInv
<1> SUFFICES TypeOK' /\ (batch'.pending => batch'.id # 0)
  BY DEF TypeInv
<1> USE RangesAssumption, BoundsAssumption
<1> DEFINE Rest == /\ range' \in Ranges
                   /\ loaded' \in Ranges \cup {NoRange} /\ shown' \in Ranges \cup {NoRange}
                   /\ sleeping' \in 0..MaxSleeping /\ leaving' \subseteq 1..MaxLogins
                   /\ clicks' \in 0..MaxClicks
           Server == /\ sessions' \subseteq 1..MaxLogins /\ issued' \in 0..MaxLogins
                     /\ batch' \in Batches
                     /\ finished' \subseteq (0..MaxRestarts) \X (1..MaxBatches)
<1>0. /\ ui \in UI /\ fetch \in Fetches /\ range \in Ranges /\ 0 \in Keys
      /\ \A c \in {"login", "timer", "poll", "other"} : c \in Callers
  BY ValuesTyped DEF TypeOK, Callers
<1>1. ASSUME Login  PROVE TypeOK'
  <2> DEFINE u == [ui EXCEPT !.token = issued + 1]
  <2>1. Rest /\ Server /\ posts' = posts
    BY <1>1 DEF Login, TypeOK
  <2>2. u \in UI
    BY <1>1, <1>0 DEF Login, UI, TypeOK
  <2>3. RefreshState("login", 0, u, range)
    BY <1>1 DEF Login
  <2> HIDE DEF u
  <2>4. ui' \in UI /\ fetch' \in Fetches
    BY <1>0, <2>2, <2>3, RefreshStateIs
  <2> QED
    BY <2>1, <2>4 DEF TypeOK
<1>2. ASSUME Reload  PROVE TypeOK'
  <2>1. Rest /\ Server /\ posts' = {}
    BY <1>2 DEF Reload, TypeOK, server
  <2>2. ui' \in UI
    BY <1>2, <1>0, ValuesTyped DEF Reload, UI
  <2>3. fetch' \in Fetches
    BY <1>2, <1>0, ValuesTyped, FetchingIs DEF Reload
  <2> QED
    BY <2>1, <2>2, <2>3 DEF TypeOK
<1>3. ASSUME Logout  PROVE TypeOK'
  <2>1. leaving' \subseteq 1..MaxLogins
    <3>1. ui.token \in 1..MaxLogins
      BY <1>3, <1>0 DEF Logout, UI
    <3> QED
      BY <1>3, <3>1 DEF Logout, TypeOK
  <2> QED
    BY <1>3, <2>1 DEF Logout, TypeOK, server
<1>4. ASSUME NEW n \in leaving, LeftSession(n)  PROVE TypeOK'
  <2>1. ui' \in UI
    <3>1. ui' = ResetSession(ui) /\ "denied" \in Replies
      BY <1>4 DEF LeftSession, Replies
    <3>2. AfterApi(ui, "denied") = ResetSession(ui)
      BY DEF AfterApi
    <3> QED
      BY <1>0, <3>1, <3>2, AfterApiIs
  <2> QED
    BY <1>4, <2>1 DEF LeftSession, TypeOK, server
<1>5. ASSUME RefreshTimer  PROVE TypeOK'
  <2> DEFINE u == [ui EXCEPT !.timer = FALSE]
  <2>1. Rest /\ Server /\ posts' = posts
    BY <1>5 DEF RefreshTimer, TypeOK, server
  <2>2. u \in UI
    BY <1>0 DEF UI
  <2>3. \/ ui' = ScheduleRefresh(u) /\ fetch' = fetch
        \/ RefreshState("timer", 0, u, range)
    BY <1>5 DEF RefreshTimer
  <2> HIDE DEF u
  <2>4. ui' \in UI /\ fetch' \in Fetches
    BY <1>0, <2>2, <2>3, RefreshStateIs, ScheduleRefreshIs
  <2> QED
    BY <2>1, <2>4 DEF TypeOK
<1>6. ASSUME Visible  PROVE TypeOK'
  <2>1. ui' \in UI /\ fetch' \in Fetches
    BY <1>6, <1>0, RefreshStateIs DEF Visible
  <2> QED
    BY <1>6, <2>1 DEF Visible, TypeOK, server
<1>7. ASSUME NEW r \in Ranges, ChangeRange(r)  PROVE TypeOK'
  <2>1. ui' \in UI /\ fetch' \in Fetches
    BY <1>7, <1>0, RefreshStateIs DEF ChangeRange
  <2> QED
    BY <1>7, <2>1 DEF ChangeRange, TypeOK, server
<1>8. ASSUME RangeWakes  PROVE TypeOK'
  <2>1. ui' \in UI /\ fetch' \in Fetches
    BY <1>8, <1>0, RefreshStateIs DEF RangeWakes
  <2> QED
    BY <1>8, <2>1 DEF RangeWakes, TypeOK, server
<1>9. ASSUME ManualRefresh  PROVE TypeOK'
  <2>1. [Idle EXCEPT !.key = clicks + 1, !.by = ui.token] \in Tracking
    <3>1. clicks + 1 \in Keys /\ ui.token \in 0..MaxLogins
      BY <1>9, <1>0 DEF ManualRefresh, TypeOK, Keys, UI
    <3> QED
      BY <3>1, ValuesTyped DEF Tracking
  <2>2. ui' \in UI
    BY <1>9, <1>0, <2>1 DEF ManualRefresh, UI
  <2>3. posts' \subseteq Posts
    BY <1>9, <1>0, ValuesTyped DEF ManualRefresh, TypeOK, Posts, Answers, UI
  <2> QED
    BY <1>9, <2>2, <2>3 DEF ManualRefresh, TypeOK, server
<1>10. ASSUME NEW p \in posts, PostAnswered(p)  PROVE TypeOK'
  <2>1. Rest /\ Server /\ posts' \subseteq Posts
    BY <1>10 DEF PostAnswered, TypeOK, server
  <2>2. CASE p.answer = "ok"
    <3> DEFINE m == [key |-> Answered(p.key), by |-> p.token, batch |-> p.batch, failures |-> 0]
               u == [ui EXCEPT !.pollTimer = FALSE, !.manual = m]
    <3>0. p.token \in 0..MaxLogins /\ p.batch \in Batches /\ p.key \in 0..MaxClicks
      BY <1>10, NewPostsTyped
    <3>4. Answered(p.key) \in Keys /\ 0 \in 0..MaxFailures
      BY <3>0, ValuesTyped
    <3>1. m \in Tracking /\ Answered(p.key) \in Keys
      BY <3>0, <3>4 DEF Tracking
    <3>2. RefreshState("poll", Answered(p.key), u, range)
      BY <1>10, <2>2 DEF PostAnswered
    <3> HIDE DEF m
    <3>3. u \in UI
      BY <1>0, <3>1 DEF UI
    <3> HIDE DEF u
    <3> QED
      BY <1>0, <2>1, <3>1, <3>2, <3>3, RefreshStateIs DEF TypeOK
  <2>3. CASE p.answer # "ok"
    <3>1. AfterApi(ui, p.answer) \in UI
      BY <1>0, NewPostsTyped, AfterApiIs
    <3>2. ui' \in UI /\ fetch' = fetch
      BY <1>10, <2>3, <3>1, ValuesTyped DEF PostAnswered, UI
    <3> QED
      BY <1>0, <2>1, <3>2 DEF TypeOK
  <2> QED
    BY <2>2, <2>3
<1>11. ASSUME PollTimer  PROVE TypeOK'
  <2> DEFINE u == [ui EXCEPT !.pollTimer = FALSE]
  <2>1. Rest /\ Server /\ posts' = posts
    BY <1>11 DEF PollTimer, TypeOK, server
  <2>2. u \in UI /\ u.manual.key \in Keys
    BY <1>0 DEF UI, Tracking
  <2>3. \/ ui' = u /\ fetch' = fetch
        \/ RefreshState("poll", u.manual.key, u, range)
    BY <1>11 DEF PollTimer
  <2> HIDE DEF u
  <2>4. ui' \in UI /\ fetch' \in Fetches
    BY <1>0, <2>2, <2>3, RefreshStateIs
  <2> QED
    BY <2>1, <2>4 DEF TypeOK
<1>12. ASSUME FetchAnswered  PROVE TypeOK'
  <2>1. ui' \in UI
    BY <1>12, <1>0, ReplyTyped DEF FetchAnswered
  <2>2. loaded' \in Ranges \cup {NoRange} /\ shown' \in Ranges \cup {NoRange}
    BY <1>12, <1>0 DEF FetchAnswered, TypeOK, Fetches
  <2> QED
    BY <1>12, <2>1, <2>2, ValuesTyped DEF FetchAnswered, TypeOK, server
<1>13. ASSUME ServeState \/ LoseState  PROVE TypeOK'
  <2>1. fetch' \in Fetches
    BY <1>13, <1>0 DEF ServeState, LoseState, TypeOK, Fetches, Answers
  <2> QED
    BY <1>13, <2>1 DEF ServeState, LoseState, TypeOK, server
<1>14. ASSUME NEW p \in posts, ServePost(p)
       PROVE  TypeOK' /\ (batch'.pending => batch'.id # 0)
  <2>1. /\ batch' \in Batches /\ finished' \subseteq (0..MaxRestarts) \X (1..MaxBatches)
        /\ batch'.pending => batch'.id # 0
    <3>1. CASE batch' = batch
      <4>1. batch.id # batch.id + 1
        BY DEF TypeOK, Batches
      <4>2. finished' = finished
        BY <1>14, <3>1, <4>1 DEF ServePost, Joined
      <4> QED
        BY <3>1, <4>2 DEF TypeInv, TypeOK
    <3>2. CASE batch' # batch
      <4>1. batch' \in Batches /\ batch'.life = batch.life /\ batch'.id = batch.id + 1
        BY <1>14, <3>2 DEF ServePost, Joined
      <4>2. <<batch'.life, batch'.id>> \in (0..MaxRestarts) \X (1..MaxBatches)
        BY <4>1, BatchStep
      <4>3. finished' \subseteq finished \cup {<<batch'.life, batch'.id>>}
        BY <1>14, <3>2 DEF ServePost
      <4>4. batch'.id # 0
        BY <4>1 DEF TypeOK, Batches
      <4> QED
        BY <4>1, <4>2, <4>3, <4>4 DEF TypeOK
    <3> QED
      BY <3>1, <3>2
  <2>2. posts' \subseteq Posts
    <3>1. \E s \in Answers, b \in Batches :
              \/ posts' = (posts \ {p}) \cup {[p EXCEPT !.answer = s]}
              \/ posts' = (posts \ {p}) \cup {[p EXCEPT !.answer = s, !.batch = b]}
      BY <1>14, <2>1, NewPostsTyped DEF ServePost, Answers
    <3> QED
      <4>1. PICK s \in Answers, b \in Batches :
              \/ posts' = (posts \ {p}) \cup {[p EXCEPT !.answer = s]}
              \/ posts' = (posts \ {p}) \cup {[p EXCEPT !.answer = s, !.batch = b]}
        BY <3>1
      <4>2. [p EXCEPT !.answer = s] \in Posts /\ [p EXCEPT !.answer = s, !.batch = b] \in Posts
        BY <1>14, NewPostsTyped
      <4> QED
        BY <4>1, <4>2 DEF TypeOK
  <2> QED
    BY <1>14, <2>1, <2>2 DEF ServePost, TypeOK
<1>15. ASSUME NEW p \in posts, FailPost(p)  PROVE TypeOK'
  <2>1. posts' \subseteq Posts
    <3>1. "failed" \in Answers /\ NoBatch(0) \in Batches
      BY ValuesTyped DEF Answers
    <3>2. [p EXCEPT !.answer = "failed", !.batch = NoBatch(0)] \in Posts
      BY <3>1, NewPostsTyped
    <3> QED
      BY <1>15, <3>2 DEF FailPost, TypeOK
  <2> QED
    BY <1>15, <2>1 DEF FailPost, TypeOK, server
<1>16. ASSUME NEW n \in leaving, ServeLogout(n)  PROVE TypeOK'
  BY <1>16 DEF ServeLogout, TypeOK, page
<1>17. ASSUME BatchEnds  PROVE TypeOK' /\ (batch'.pending => batch'.id # 0)
  <2>1. batch' \in Batches /\ ~batch'.pending
    BY <1>17 DEF BatchEnds, TypeOK, Batches
  <2>2. <<batch.life, batch.id>> \in (0..MaxRestarts) \X (1..MaxBatches)
    BY <1>17 DEF BatchEnds, TypeInv, TypeOK, Batches
  <2> QED
    BY <1>17, <2>1, <2>2 DEF BatchEnds, TypeOK, page
<1>21. ASSUME OtherBatch  PROVE TypeOK' /\ (batch'.pending => batch'.id # 0)
  <2>1. batch' \in Batches /\ batch'.id # 0
    <3>1. batch.id + 1 \in 0..MaxBatches /\ batch.id + 1 # 0 /\ batch \in Batches
      BY <1>21 DEF OtherBatch, TypeOK, Batches
    <3> QED
      BY <1>21, <3>1 DEF OtherBatch, Batches
  <2> QED
    BY <1>21, <2>1 DEF OtherBatch, TypeOK, page
<1>18. ASSUME Expire  PROVE TypeOK'
  BY <1>18 DEF Expire, TypeOK, page
<1>19. ASSUME Restart  PROVE TypeOK' /\ (batch'.pending => batch'.id # 0)
  <2>1. batch' \in Batches /\ ~batch'.pending
    BY <1>19 DEF Restart, TypeOK, Batches, NoBatch
  <2> QED
    BY <1>19, <2>1 DEF Restart, TypeOK, page
<1>20. ASSUME UNCHANGED vars  PROVE TypeOK'
  BY <1>20 DEF vars, page, server, TypeOK
<1>22. TypeOK'
  BY <1>1, <1>2, <1>3, <1>4, <1>5, <1>6, <1>7, <1>8, <1>9, <1>10, <1>11, <1>12, <1>13,
     <1>14, <1>15, <1>16, <1>17, <1>18, <1>19, <1>20, <1>21
  DEF Next, User, Script, Program, Network
<1>23. batch' = batch \/ (\E p \in posts : ServePost(p)) \/ BatchEnds \/ OtherBatch \/ Restart
  BY DEF Next, User, Script, Program, Network, vars, page, server, Login, Reload, Logout,
         LeftSession, RefreshTimer, Visible, ChangeRange, RangeWakes, ManualRefresh, PostAnswered,
         PollTimer, FetchAnswered, ServeState, LoseState, FailPost, ServeLogout, Expire
<1>24. batch'.pending => batch'.id # 0
  BY <1>14, <1>17, <1>19, <1>21, <1>23 DEF TypeInv
<1> QED
  BY <1>22, <1>24

\* Every value the page and the server work with is of its type: no counter leaves its
\* bounds, every request and answer is one the handlers know (state, app.js:652-656).
THEOREM PageTyped == Spec => []TypeOK
<1>1. TypeInv => TypeOK
  BY DEF TypeInv
<1> QED
  BY InitTyped, TypeStep, <1>1, PTL DEF Spec

-----------------------------------------------------------------------------
(* What the steps do to the page.                                          *)

\* Most steps of the server and the network change neither the page nor its refresh,
\* but for the answer of it.
Untouched ==
    /\ ui' = ui
    /\ \/ fetch' = fetch
       \/ /\ fetch'.caller = fetch.caller /\ fetch'.key = fetch.key /\ fetch'.token = fetch.token
          /\ ServeState \/ LoseState

\* A request keeps its number and its session when it is answered or lost.
SameRequests ==
    \/ posts' = posts
    \/ \E p \in posts, q \in Posts : /\ q.key = p.key /\ q.token = p.token
                                   /\ posts' = (posts \ {p}) \cup {q}

Spare ==
    /\ Untouched /\ SameRequests
    /\ shown' = shown /\ loaded' = loaded /\ clicks' = clicks /\ issued' = issued

LEMMA SpareSteps ==
    ASSUME TypeOK, [Next]_vars
    PROVE  \/ Spare
           \/ Login \/ Reload \/ RefreshTimer \/ Visible \/ ManualRefresh \/ RangeWakes
           \/ PollTimer \/ FetchAnswered
           \/ \E r \in Ranges : ChangeRange(r)
           \/ \E n \in leaving : LeftSession(n)
           \/ \E p \in posts : PostAnswered(p)
<1> USE DEF Spare
<1>1. ASSUME ServeState \/ LoseState  PROVE Spare
  BY <1>1 DEF ServeState, LoseState, Untouched, TypeOK, Fetches, SameRequests, server
<1>2. ASSUME \/ Logout \/ BatchEnds \/ OtherBatch \/ Expire \/ Restart
             \/ \E n \in leaving : ServeLogout(n)
             \/ UNCHANGED vars
      PROVE  Spare
  BY <1>2 DEF Logout, BatchEnds, OtherBatch, Expire, Restart, ServeLogout,
              Untouched, SameRequests, vars, page, server
<1>3. ASSUME NEW p \in posts, NEW s \in Answers, NEW b \in Batches
      PROVE  /\ [p EXCEPT !.answer = s] \in Posts /\ [p EXCEPT !.answer = s, !.batch = b] \in Posts
             /\ [p EXCEPT !.answer = s].key = p.key /\ [p EXCEPT !.answer = s].token = p.token
             /\ [p EXCEPT !.answer = s, !.batch = b].key = p.key
             /\ [p EXCEPT !.answer = s, !.batch = b].token = p.token
  <2>1. p \in Posts
    BY DEF TypeOK
  <2> QED
    BY <2>1, NewPostsTyped DEF Posts
<1>4. /\ {"ok", "denied", "failed"} \subseteq Answers /\ NoBatch(0) \in Batches
      /\ batch \in Batches
  BY ValuesTyped, BoundsAssumption DEF Answers, TypeOK
<1>5. ASSUME NEW p \in posts, FailPost(p)  PROVE Spare
  <2>1. SameRequests
    <3> DEFINE q == [p EXCEPT !.answer = "failed", !.batch = NoBatch(0)]
    <3>1. q \in Posts /\ q.key = p.key /\ q.token = p.token
      BY <1>3, <1>4
    <3>2. posts' = (posts \ {p}) \cup {q}
      BY <1>5 DEF FailPost
    <3> HIDE DEF q
    <3> QED
      BY <3>1, <3>2 DEF SameRequests
  <2> QED
    BY <1>5, <2>1 DEF FailPost, Untouched, server
<1>6. ASSUME NEW p \in posts, ServePost(p)  PROVE Spare
  <2>1. batch' \in Batches \/ posts' = (posts \ {p}) \cup {[p EXCEPT !.answer = "denied"]}
    BY <1>4, <1>6 DEF ServePost, Joined
  <2>2. \/ posts' = (posts \ {p}) \cup {[p EXCEPT !.answer = "denied"]}
        \/ posts' = (posts \ {p}) \cup {[p EXCEPT !.answer = "ok", !.batch = batch']}
    BY <1>6 DEF ServePost
  <2>3. SameRequests
    <3> DEFINE q == [p EXCEPT !.answer = "denied"]
               r == [p EXCEPT !.answer = "ok", !.batch = batch']
    <3>1. q \in Posts /\ q.key = p.key /\ q.token = p.token
      BY <1>3, <1>4
    <3>2. batch' \in Batches => r \in Posts /\ r.key = p.key /\ r.token = p.token
      BY <1>3, <1>4
    <3>3. posts' = (posts \ {p}) \cup {q} \/ posts' = (posts \ {p}) \cup {r}
      BY <2>2
    <3>4. posts' = (posts \ {p}) \cup {q} \/ batch' \in Batches
      BY <2>1
    <3> HIDE DEF q, r
    <3> QED
      BY <3>1, <3>2, <3>3, <3>4 DEF SameRequests
  <2> QED
    BY <1>6, <2>3 DEF ServePost, Untouched
<1> QED
  BY <1>1, <1>2, <1>5, <1>6 DEF Next, User, Script, Program, Network

-----------------------------------------------------------------------------
(* The 15-second refresh.                                                  *)

\* The timer is set, or a handler that sets it waits.
LEMMA RefreshingStep ==
    TypeOK /\ KeepsRefreshing /\ [Next]_vars => KeepsRefreshing'
<1> SUFFICES ASSUME TypeOK, KeepsRefreshing, [Next]_vars, ui'.token # 0
             PROVE  ui'.timer \/ fetch'.caller \in {"login", "timer"}
  BY DEF KeepsRefreshing
<1>0. /\ ui \in UI /\ fetch \in Fetches /\ range \in Ranges /\ 0 \in Keys
      /\ \A c \in {"login", "timer", "poll", "other"} : c \in Callers
  BY ValuesTyped, BoundsAssumption DEF TypeOK, Callers
<1>1. CASE Spare
  BY <1>1 DEF Spare, Untouched, KeepsRefreshing
\* A handler that leaves the timer as it is and whose caller does not set it.
<1>2. ASSUME NEW c \in {"poll", "other"}, NEW k \in Keys, NEW u \in UI, NEW q \in Ranges,
             u.timer = ui.timer, u.token = ui.token, RefreshState(c, k, u, q)
      PROVE  ui'.timer \/ fetch'.caller \in {"login", "timer"}
  <2>1. ui'.timer = u.timer /\ ui'.token = u.token /\ (fetch' = fetch \/ fetch = NoFetch)
    BY <1>0, <1>2, RefreshStateIs
  <2> QED
    BY <1>2, <2>1, ValuesTyped DEF KeepsRefreshing
<1>3. ASSUME NEW c \in {"login", "timer"}, NEW u \in UI, u.token # 0,
             RefreshState(c, 0, u, range)
      PROVE  ui'.timer \/ fetch'.caller \in {"login", "timer"}
  BY <1>0, <1>3, FetchingIs, ScheduleRefreshIs DEF RefreshState, AfterRefresh
<1>4. CASE Login
  <2>0. issued + 1 \in 0..MaxLogins /\ issued + 1 # 0
    BY <1>4, BoundsAssumption DEF Login, TypeOK
  <2>1. [ui EXCEPT !.token = issued + 1] \in UI
    BY <2>0, <1>0 DEF UI
  <2>2. [ui EXCEPT !.token = issued + 1].token = issued + 1
    BY <1>0 DEF UI
  <2> QED
    BY <1>3, <1>4, <2>0, <2>1, <2>2 DEF Login
<1>5. CASE Reload
  BY <1>5, <1>0, ValuesTyped DEF Reload, UI, SignedOut
<1>6. CASE RefreshTimer
  <2> DEFINE u == [ui EXCEPT !.timer = FALSE]
  <2>1. u \in UI /\ u.token = ui.token
    BY <1>0 DEF UI
  <2>2. ui' = ScheduleRefresh(u) \/ RefreshState("timer", 0, u, range)
    BY <1>6 DEF RefreshTimer
  <2> HIDE DEF u
  <2>3. ui'.token = u.token
    BY <1>0, <2>1, <2>2, RefreshStateIs, ScheduleRefreshIs
  <2> QED
    BY <1>3, <2>1, <2>2, <2>3, ScheduleRefreshIs
<1>7. CASE Visible
  BY <1>0, <1>2, <1>7 DEF Visible
<1>8. ASSUME NEW r \in Ranges, ChangeRange(r)
      PROVE  ui'.timer \/ fetch'.caller \in {"login", "timer"}
  BY <1>0, <1>2, <1>8 DEF ChangeRange, KeepsRefreshing
<1>9. CASE RangeWakes
  BY <1>0, <1>2, <1>9 DEF RangeWakes
<1>10. CASE ManualRefresh
  BY <1>0, <1>10 DEF ManualRefresh, KeepsRefreshing, UI
<1>11. CASE PollTimer
  <2> DEFINE u == [ui EXCEPT !.pollTimer = FALSE]
  <2>1. u \in UI /\ u.token = ui.token /\ u.timer = ui.timer /\ u.manual.key \in Keys
    BY <1>0 DEF UI, Tracking
  <2>2. (ui' = u /\ fetch' = fetch) \/ RefreshState("poll", u.manual.key, u, range)
    BY <1>11 DEF PollTimer
  <2> HIDE DEF u
  <2> QED
    BY <1>0, <1>2, <2>1, <2>2 DEF KeepsRefreshing
<1>12. ASSUME NEW p \in posts, PostAnswered(p)
       PROVE  ui'.timer \/ fetch'.caller \in {"login", "timer"}
  <2>0. /\ p.key \in 0..MaxClicks /\ p.token \in 0..MaxLogins /\ p.batch \in Batches
        /\ p.answer \in Replies
    BY NewPostsTyped
  <2>1. CASE p.answer = "ok"
    <3> DEFINE m == [key |-> Answered(p.key), by |-> p.token, batch |-> p.batch, failures |-> 0]
               u == [ui EXCEPT !.pollTimer = FALSE, !.manual = m]
    <3>1. Answered(p.key) \in Keys /\ 0 \in 0..MaxFailures
      BY <2>0, ValuesTyped, BoundsAssumption
    <3>2. m \in Tracking
      BY <2>0, <3>1 DEF Tracking
    <3>3. RefreshState("poll", Answered(p.key), u, range)
      BY <1>12, <2>1 DEF PostAnswered
    <3> HIDE DEF m
    <3>4. u \in UI /\ u.token = ui.token /\ u.timer = ui.timer
      BY <1>0, <3>2 DEF UI
    <3> HIDE DEF u
    <3> QED
      BY <1>0, <1>2, <3>1, <3>3, <3>4
  <2>2. CASE p.answer # "ok"
    <3> DEFINE v == AfterApi(ui, p.answer)
    <3>1. v \in UI /\ (v = ui \/ v.token = 0)
      BY <1>0, <2>0, AfterApiIs
    <3>2. ui' = [v EXCEPT !.manual = Idle] /\ fetch' = fetch
      BY <1>12, <2>2 DEF PostAnswered
    <3> HIDE DEF v
    <3>3. ui'.token = v.token /\ ui'.timer = v.timer
      BY <3>1, <3>2 DEF UI
    <3> QED
      BY <3>1, <3>2, <3>3 DEF KeepsRefreshing
  <2> QED
    BY <2>1, <2>2
<1>13. CASE FetchAnswered
  <2> DEFINE v == AfterApi(ui, fetch.answer)
  <2>0. /\ fetch.caller \in Callers /\ fetch.key \in Keys /\ fetch.answer \in Replies
        /\ fetch.batch \in Batches
    BY <1>0 DEF Fetches, Replies, Answers
  <2>1. v \in UI /\ (v = ui \/ v.token = 0)
    BY <1>0, <2>0, AfterApiIs
  <2>2. ui' = AfterRefresh(v, fetch.caller, fetch.key, fetch.answer, fetch.batch)
    BY <1>13 DEF FetchAnswered
  <2> HIDE DEF v
  <2>3. CASE fetch.caller \in {"login", "timer"}
    BY <2>1, <2>2, <2>3, ScheduleRefreshIs DEF AfterRefresh
  <2>4. CASE fetch.caller = "poll"
    <3>1. ui' = AfterPoll(v, fetch.key, fetch.answer, fetch.batch)
      BY <2>2, <2>4 DEF AfterRefresh
    <3> QED
      BY <2>0, <2>1, <2>4, <3>1, AfterPollTyped DEF KeepsRefreshing
  <2>5. CASE fetch.caller = "other"
    BY <2>1, <2>2, <2>5 DEF AfterRefresh, KeepsRefreshing
  <2> QED
    BY <2>0, <2>3, <2>4, <2>5 DEF Callers
<1>14. ASSUME NEW n \in leaving, LeftSession(n)  PROVE FALSE
  BY <1>14, <1>0 DEF LeftSession, ResetSession, UI
<1> QED
  BY <1>1, <1>4, <1>5, <1>6, <1>7, <1>8, <1>9, <1>10, <1>11, <1>12, <1>13, <1>14, SpareSteps

\* A signed-in page never stops refreshing itself, whatever answers are lost, late or
\* refused and however often the user leaves and comes back (scheduleRefresh and its
\* callers, app.js:849-850 and 866-873).
THEOREM RefreshGoesOn == Spec => []KeepsRefreshing
<1>1. Init => KeepsRefreshing
  BY DEF Init, SignedOut, KeepsRefreshing
<1> QED
  BY <1>1, PageTyped, RefreshingStep, PTL DEF Spec

-----------------------------------------------------------------------------
(* The export.                                                             *)

\* The data the page holds was computed for the range it says.
ShownInv == shown = NoRange \/ shown = loaded

LEMMA ShownStep == TypeOK /\ ShownInv /\ [Next]_vars => ShownInv'
<1> SUFFICES ASSUME TypeOK, ShownInv, [Next]_vars  PROVE ShownInv'
  OBVIOUS
<1>1. \/ shown' = shown /\ loaded' = loaded
      \/ Reload \/ FetchAnswered \/ (\E n \in leaving : LeftSession(n))
  BY SpareSteps DEF Spare, Login, RefreshTimer, Visible, ManualRefresh, RangeWakes, PollTimer,
                    ChangeRange, PostAnswered
<1> QED
  BY <1>1 DEF ShownInv, Reload, FetchAnswered, LeftSession

\* What the export button writes was computed for the range that is selected, however
\* requests, range changes and sessions overlapped (refreshState, changeRange,
\* renderRefreshButton, app.js:875-912 and 1199-1209).
THEOREM ExportMatchesRange == Spec => []ExportIsOfRange
<1>1. Init => ShownInv
  BY DEF Init, ShownInv
<1>2. ShownInv => ExportIsOfRange
  BY DEF ShownInv, ExportIsOfRange, ExportEnabled
<1> QED
  BY <1>1, <1>2, PageTyped, ShownStep, PTL DEF Spec

-----------------------------------------------------------------------------
(* The steps that touch the batch followed.                                *)

\* A page the handler has not changed in any way a batch could notice.
SameBatch == ui'.manual = ui.manual /\ ui'.pollTimer = ui.pollTimer

\* A refresh of anybody but a poll: the batch followed is none of its business.
LEMMA OtherHandlers ==
    ASSUME TypeOK,
           \/ Login \/ RefreshTimer \/ Visible \/ RangeWakes
           \/ \E r \in Ranges : ChangeRange(r)
    PROVE  /\ SameBatch /\ posts' = posts /\ clicks' = clicks
           /\ batch' = batch /\ finished' = finished
           /\ \/ fetch' = fetch
              \/ /\ fetch.caller # "poll" /\ fetch'.caller # "poll"
                 /\ fetch'.key = 0 /\ fetch'.answer = "none"
           /\ \/ ui'.token = ui.token /\ issued' = issued /\ sessions' = sessions
              \/ /\ ui'.token = issued + 1 /\ issued' = issued + 1
                 /\ sessions' = sessions \cup {issued + 1}
<1>0. /\ ui \in UI /\ fetch \in Fetches /\ range \in Ranges /\ 0 \in Keys
      /\ \A c \in {"login", "timer", "other"} : c \in Callers
  BY ValuesTyped, BoundsAssumption DEF TypeOK, Callers
<1>1. ASSUME NEW c \in {"login", "timer", "other"}, NEW u \in UI, NEW q \in Ranges,
             u.manual = ui.manual, u.pollTimer = ui.pollTimer, RefreshState(c, 0, u, q)
      PROVE  /\ SameBatch /\ ui'.token = u.token
             /\ \/ fetch' = fetch
                \/ /\ fetch.caller # "poll" /\ fetch'.caller # "poll"
                   /\ fetch'.key = 0 /\ fetch'.answer = "none"
  <2>1. /\ ui'.manual = u.manual /\ ui'.pollTimer = u.pollTimer /\ ui'.token = u.token
        /\ fetch' = fetch \/ (fetch = NoFetch /\ fetch' = Fetching(c, 0, u, q))
    BY <1>0, <1>1, RefreshStateIs
  <2> QED
    BY <1>0, <1>1, <2>1, FetchingIs, ValuesTyped DEF SameBatch
<1>2. CASE Login
  <2>0. issued + 1 \in 0..MaxLogins
    BY <1>2, BoundsAssumption DEF Login, TypeOK
  <2> DEFINE u == [ui EXCEPT !.token = issued + 1]
  <2>1. u \in UI /\ u.manual = ui.manual /\ u.pollTimer = ui.pollTimer /\ u.token = issued + 1
    BY <2>0, <1>0 DEF UI
  <2>2. RefreshState("login", 0, u, range)
    BY <1>2 DEF Login
  <2> HIDE DEF u
  <2> QED
    BY <1>0, <1>1, <1>2, <2>1, <2>2 DEF Login
<1>3. CASE RefreshTimer
  <2> DEFINE u == [ui EXCEPT !.timer = FALSE]
  <2>1. /\ u \in UI /\ u.token = ui.token /\ u.manual = ui.manual
        /\ u.pollTimer = ui.pollTimer
    BY <1>0 DEF UI
  <2>2. (ui' = ScheduleRefresh(u) /\ fetch' = fetch) \/ RefreshState("timer", 0, u, range)
    BY <1>3 DEF RefreshTimer
  <2>3. /\ posts' = posts /\ clicks' = clicks /\ issued' = issued /\ sessions' = sessions
        /\ batch' = batch /\ finished' = finished
    BY <1>3 DEF RefreshTimer, server
  <2> HIDE DEF u
  <2>4. CASE ui' = ScheduleRefresh(u) /\ fetch' = fetch
    BY <2>1, <2>3, <2>4, ScheduleRefreshIs DEF SameBatch
  <2>5. CASE RefreshState("timer", 0, u, range)
    BY <1>0, <1>1, <2>1, <2>3, <2>5
  <2> QED
    BY <2>2, <2>4, <2>5
<1>4. CASE Visible
  BY <1>0, <1>1, <1>4 DEF Visible, server
<1>5. CASE RangeWakes
  BY <1>0, <1>1, <1>5 DEF RangeWakes, server
<1>6. ASSUME NEW r \in Ranges, ChangeRange(r)
      PROVE  /\ SameBatch /\ ui'.token = ui.token
             /\ \/ fetch' = fetch
                \/ /\ fetch.caller # "poll" /\ fetch'.caller # "poll"
                   /\ fetch'.key = 0 /\ fetch'.answer = "none"
  BY <1>0, <1>1, <1>6 DEF ChangeRange, SameBatch
<1>7. CASE \E r \in Ranges : ChangeRange(r)
  <2>1. /\ posts' = posts /\ clicks' = clicks /\ issued' = issued /\ sessions' = sessions
        /\ batch' = batch /\ finished' = finished
    BY <1>7 DEF ChangeRange, server
  <2> QED
    BY <1>6, <1>7, <2>1
<1> QED
  BY <1>2, <1>3, <1>4, <1>5, <1>7

\* A poll of the batch followed: it asks the server or finds another refresh running, and
\* then it sets the timer, or lets go of a batch that is over or could not be read.
LEMMA PollNow ==
    ASSUME TypeOK, NEW u \in UI, RefreshState("poll", u.manual.key, u, range)
    PROVE  /\ ui'.token = u.token
           /\ \/ /\ u.token # 0 /\ fetch = NoFetch
                 /\ ui' = u /\ fetch' = Fetching("poll", u.manual.key, u, range)
              \/ u.token = 0 /\ ui' = u /\ fetch' = fetch
              \/ /\ u.token # 0 /\ fetch' = fetch
                 /\ u.manual.batch.pending
                 /\ ui'.manual = u.manual /\ ui'.pollTimer = TRUE
              \/ /\ u.token # 0 /\ fetch' = fetch
                 /\ ~u.manual.batch.pending \/ u.manual.failures >= MaxFailures
                 /\ ui'.manual = Idle /\ ui'.pollTimer = u.pollTimer
<1> DEFINE k == u.manual.key
           n == NoBatch(0)
<1>1. /\ k \in Keys /\ fetch \in Fetches /\ range \in Ranges /\ "poll" \in Callers
      /\ "none" \in Replies /\ n \in Batches /\ u.manual \in Tracking
  BY ValuesTyped, BoundsAssumption DEF UI, Tracking, TypeOK, Callers, Replies
<1>2. Followed(u.manual, "none", n) = u.manual
  BY DEF Followed
<1>3. GoesOn(u.manual, "none", n) <=> u.manual.failures < MaxFailures /\ u.manual.batch.pending
  BY <1>2 DEF GoesOn
<1>4. u.manual.failures \in Int /\ MaxFailures \in Int
  BY <1>1, BoundsAssumption DEF Tracking
<1>5. CASE ~(u.token = 0 \/ Refreshing)
  BY <1>1, <1>5, RefreshStateIs
<1>6. CASE u.token = 0 \/ Refreshing
  <2>1. fetch' = fetch /\ ui' = AfterPoll(u, k, "none", n)
    BY <1>6 DEF RefreshState, AfterRefresh
  <2>2. CASE u.token = 0
    BY <2>1, <2>2 DEF AfterPoll
  <2>3. CASE u.token # 0 /\ GoesOn(u.manual, "none", n)
    <3>1. ui' = [u EXCEPT !.manual = u.manual, !.pollTimer = TRUE]
      BY <2>1, <2>3, <1>2, Zenon DEF AfterPoll
    <3>2. ui'.manual = u.manual /\ ui'.pollTimer = TRUE /\ ui'.token = u.token
      BY <3>1 DEF UI
    <3> QED
      BY <2>1, <2>3, <1>3, <3>2
  <2>4. CASE u.token # 0 /\ ~GoesOn(u.manual, "none", n)
    <3>1. ui' = [u EXCEPT !.manual = Idle]
      BY <2>1, <2>4, Zenon DEF AfterPoll
    <3>2. ui'.manual = Idle /\ ui'.pollTimer = u.pollTimer /\ ui'.token = u.token
      BY <3>1 DEF UI
    <3> QED
      BY <2>1, <2>4, <1>3, <1>4, <3>2
  <2> QED
    BY <2>2, <2>3, <2>4
<1> QED
  BY <1>5, <1>6

\* The refresh that waits belongs to a poll of what the page follows.
OwnFetch == fetch.caller = "poll" /\ fetch.key = ui.manual.key

\* An answer to the refresh: it concerns the batch followed only if its poll waited for it.
LEMMA ReplyIs ==
    ASSUME TypeOK, FetchAnswered
    PROVE  /\ fetch' = NoFetch /\ posts' = posts /\ clicks' = clicks /\ issued' = issued
           /\ sessions' = sessions /\ batch' = batch /\ finished' = finished
           /\ \/ ui'.token = 0 /\ ui'.manual = Idle
              \/ /\ SameBatch /\ ui'.token = ui.token
                 /\ ui.token = 0 \/ ~OwnFetch
              \/ /\ OwnFetch /\ ui'.token = ui.token /\ fetch.answer \in {"ok", "failed"}
                 /\ GoesOn(ui.manual, fetch.answer, fetch.batch)
                 /\ ui'.manual = Followed(ui.manual, fetch.answer, fetch.batch)
                 /\ ui'.pollTimer = TRUE
              \/ /\ OwnFetch /\ ui'.token = ui.token /\ fetch.answer \in {"ok", "failed"}
                 /\ ~GoesOn(ui.manual, fetch.answer, fetch.batch)
                 /\ ui'.manual = Idle
<1> DEFINE v == AfterApi(ui, fetch.answer)
<1>0. /\ fetch.caller \in Callers /\ fetch.key \in Keys /\ fetch.answer \in Replies
      /\ fetch.batch \in Batches /\ fetch.answer # "none" /\ ui \in UI
  BY DEF TypeOK, Fetches, Replies, Answers, FetchAnswered
<1>1. /\ fetch' = NoFetch /\ posts' = posts /\ clicks' = clicks /\ issued' = issued
      /\ sessions' = sessions /\ batch' = batch /\ finished' = finished
      /\ ui' = AfterRefresh(v, fetch.caller, fetch.key, fetch.answer, fetch.batch)
  BY DEF FetchAnswered, server
<1>2. v \in UI /\ (v = ui \/ (v.token = 0 /\ v.manual = Idle))
  BY <1>0, AfterApiIs
<1>3. fetch.answer # "denied" => v = ui /\ fetch.answer \in {"ok", "failed"}
  BY <1>0, AfterApiIs DEF Replies
<1>4. fetch.answer = "denied" => v.token = 0 /\ v.manual = Idle
  BY <1>0, AfterApiIs
<1> HIDE DEF v
<1>5. CASE fetch.caller \in {"login", "timer"}
  <2>1. ui' = ScheduleRefresh(v)
    BY <1>1, <1>5 DEF AfterRefresh
  <2>2. /\ ui'.token = v.token /\ ui'.manual = v.manual /\ ui'.pollTimer = v.pollTimer
    BY <1>2, <2>1, ScheduleRefreshIs
  <2> QED
    BY <1>1, <1>2, <1>5, <2>2 DEF SameBatch, OwnFetch
<1>6. CASE fetch.caller = "other"
  <2>1. ui' = v
    BY <1>1, <1>6 DEF AfterRefresh
  <2> QED
    BY <1>1, <1>2, <1>6, <2>1 DEF SameBatch, OwnFetch
<1>7. CASE fetch.caller = "poll"
  <2>1. ui' = AfterPoll(v, fetch.key, fetch.answer, fetch.batch)
    BY <1>1, <1>7 DEF AfterRefresh
  <2>2. CASE v.token = 0
    <3>1. ui' = v
      BY <2>1, <2>2 DEF AfterPoll
    <3> QED
      BY <1>1, <1>2, <2>2, <3>1 DEF SameBatch
  <2>3. CASE v.token # 0 /\ v.manual.key # fetch.key
    <3>1. ui' = v /\ v = ui
      BY <1>2, <2>1, <2>3 DEF AfterPoll
    <3> QED
      BY <1>1, <2>3, <3>1 DEF SameBatch, OwnFetch
  <2>4. CASE v.token # 0 /\ v.manual.key = fetch.key
    <3>1. v = ui /\ OwnFetch /\ fetch.answer \in {"ok", "failed"}
      BY <1>2, <1>3, <1>4, <1>7, <2>4 DEF OwnFetch
    <3>2. CASE GoesOn(ui.manual, fetch.answer, fetch.batch)
      <4> DEFINE g == Followed(ui.manual, fetch.answer, fetch.batch)
      <4>1. ui' = [ui EXCEPT !.manual = g, !.pollTimer = TRUE]
        BY <2>1, <2>4, <3>1, <3>2, Zenon DEF AfterPoll
      <4> HIDE DEF g
      <4>2. ui'.manual = g /\ ui'.pollTimer = TRUE /\ ui'.token = ui.token
        BY <1>0, <4>1 DEF UI
      <4> QED
        BY <1>1, <3>1, <3>2, <4>2 DEF g
    <3>3. CASE ~GoesOn(ui.manual, fetch.answer, fetch.batch)
      <4>1. ui' = [ui EXCEPT !.manual = Idle]
        BY <2>1, <2>4, <3>1, <3>3, Zenon DEF AfterPoll
      <4>2. ui'.manual = Idle /\ ui'.token = ui.token
        BY <1>0, <4>1 DEF UI
      <4> QED
        BY <1>1, <3>1, <3>3, <4>2
    <3> QED
      BY <3>2, <3>3
  <2> QED
    BY <2>2, <2>3, <2>4
<1> QED
  BY <1>0, <1>5, <1>6, <1>7 DEF Callers

\* What a request leaves behind that is answered with its batch.
Followable(p) == [key |-> Answered(p.key), by |-> p.token, batch |-> p.batch, failures |-> 0]

\* An answer to a request: its batch is followed from now on and polled at once; or the
\* page follows nothing.
LEMMA PostIs ==
    ASSUME TypeOK, NEW p \in posts, PostAnswered(p)
    PROVE  /\ posts' = posts \ {p} /\ clicks' = clicks /\ issued' = issued
           /\ sessions' = sessions /\ batch' = batch /\ finished' = finished
           /\ \/ ui'.manual = Idle /\ fetch' = fetch /\ ui'.token \in {0, ui.token}
              \/ /\ p.answer = "ok" /\ ui'.token = ui.token /\ ui'.manual = Followable(p)
                 /\ \/ fetch' = fetch /\ ui.token = 0
                    \/ fetch' = fetch /\ ui'.pollTimer = TRUE
                    \/ /\ fetch'.caller = "poll" /\ fetch'.key = Answered(p.key)
                       /\ fetch'.token = ui.token /\ fetch'.answer = "none"
                       /\ ui'.pollTimer = FALSE
<1>0. /\ ui \in UI /\ range \in Ranges /\ p.key \in 0..MaxClicks /\ p.token \in 0..MaxLogins
      /\ p.batch \in Batches /\ p.answer \in Replies
  BY NewPostsTyped DEF TypeOK
<1>1. /\ posts' = posts \ {p} /\ clicks' = clicks /\ issued' = issued
      /\ sessions' = sessions /\ batch' = batch /\ finished' = finished
  BY DEF PostAnswered, server
<1>2. CASE p.answer = "ok"
  <2> DEFINE m == Followable(p)
             u == [ui EXCEPT !.pollTimer = FALSE, !.manual = m]
  <2>1. Answered(p.key) \in Keys /\ 0 \in 0..MaxFailures /\ "poll" \in Callers
    BY <1>0, ValuesTyped, BoundsAssumption DEF Callers
  <2>2. m \in Tracking /\ m.key = Answered(p.key)
    BY <1>0, <2>1 DEF Tracking, Followable
  <2>3. RefreshState("poll", Answered(p.key), u, range)
    BY <1>2 DEF PostAnswered, Followable
  <2> HIDE DEF m
  <2>4. u \in UI /\ u.token = ui.token /\ u.manual = m /\ u.pollTimer = FALSE
    BY <1>0, <2>2 DEF UI
  <2> HIDE DEF u
  <2>5. RefreshState("poll", u.manual.key, u, range)
    BY <2>2, <2>3, <2>4
  <2>6. /\ ui'.token = u.token
        /\ \/ /\ u.token # 0 /\ fetch = NoFetch
              /\ ui' = u /\ fetch' = Fetching("poll", u.manual.key, u, range)
           \/ u.token = 0 /\ ui' = u /\ fetch' = fetch
           \/ u.token # 0 /\ fetch' = fetch /\ ui'.manual = u.manual /\ ui'.pollTimer = TRUE
           \/ u.token # 0 /\ fetch' = fetch /\ ui'.manual = Idle
    BY <2>4, <2>5, PollNow
  <2>7. /\ Fetching("poll", Answered(p.key), u, range).caller = "poll"
        /\ Fetching("poll", Answered(p.key), u, range).key = Answered(p.key)
        /\ Fetching("poll", Answered(p.key), u, range).token = u.token
        /\ Fetching("poll", Answered(p.key), u, range).answer = "none"
    BY <1>0, <2>1, <2>4, FetchingIs
  <2>8. CASE u.token # 0 /\ ui' = u /\ fetch' = Fetching("poll", u.manual.key, u, range)
    BY <1>1, <1>2, <2>2, <2>4, <2>7, <2>8 DEF m
  <2>9. CASE ui' = u /\ u.token = 0 /\ fetch' = fetch
    BY <1>1, <1>2, <2>4, <2>9 DEF m
  <2>10. CASE /\ fetch' = fetch /\ ui'.manual = u.manual /\ ui'.pollTimer = TRUE
              /\ ui'.token = u.token
    BY <1>1, <1>2, <2>4, <2>10 DEF m
  <2>11. CASE fetch' = fetch /\ ui'.manual = Idle /\ ui'.token = u.token
    BY <1>1, <2>4, <2>11
  <2> QED
    BY <2>6, <2>8, <2>9, <2>10, <2>11
<1>3. CASE p.answer # "ok"
  <2> DEFINE v == AfterApi(ui, p.answer)
  <2>1. v \in UI /\ (v = ui \/ v.token = 0)
    BY <1>0, AfterApiIs
  <2>2. ui' = [v EXCEPT !.manual = Idle] /\ fetch' = fetch
    BY <1>3 DEF PostAnswered
  <2> HIDE DEF v
  <2>3. ui'.token = v.token /\ ui'.manual = Idle
    BY <2>1, <2>2 DEF UI
  <2> QED
    BY <1>1, <2>1, <2>2, <2>3
<1> QED
  BY <1>2, <1>3

\* The poll's timer: it fires for whatever the page follows by now.
LEMMA TimerIs ==
    ASSUME TypeOK, PollTimer
    PROVE  /\ posts' = posts /\ clicks' = clicks /\ issued' = issued
           /\ sessions' = sessions /\ batch' = batch /\ finished' = finished
           /\ ui.pollTimer = TRUE /\ ui'.token = ui.token
           /\ \/ /\ ui'.manual = ui.manual /\ fetch' = fetch
                 /\ ui.manual.key = 0 \/ ui.token = 0 \/ ui'.pollTimer = TRUE
              \/ /\ ui'.manual = ui.manual /\ ui'.pollTimer = FALSE
                 /\ fetch'.caller = "poll" /\ fetch'.key = ui.manual.key
                 /\ fetch'.token = ui.token /\ fetch'.answer = "none"
              \/ /\ ui'.manual = Idle /\ fetch' = fetch
                 /\ ~ui.manual.batch.pending \/ ui.manual.failures >= MaxFailures
<1> DEFINE u == [ui EXCEPT !.pollTimer = FALSE]
<1>0. ui \in UI /\ range \in Ranges /\ ui.manual.key \in Keys /\ "poll" \in Callers
  BY DEF TypeOK, UI, Tracking, Callers
<1>1. /\ posts' = posts /\ clicks' = clicks /\ issued' = issued /\ ui.pollTimer = TRUE
      /\ sessions' = sessions /\ batch' = batch /\ finished' = finished
  BY <1>0 DEF PollTimer, server, UI
<1>2. u \in UI /\ u.token = ui.token /\ u.manual = ui.manual /\ u.pollTimer = FALSE
  BY <1>0 DEF UI
<1>3. \/ ui' = u /\ fetch' = fetch /\ (u.manual.key = 0 \/ u.token = 0)
      \/ RefreshState("poll", u.manual.key, u, range)
  BY DEF PollTimer
<1> HIDE DEF u
<1>4. CASE ui' = u /\ fetch' = fetch /\ (u.manual.key = 0 \/ u.token = 0)
  BY <1>1, <1>2, <1>4
<1>5. CASE RefreshState("poll", u.manual.key, u, range)
  <2>1. /\ Fetching("poll", u.manual.key, u, range).caller = "poll"
        /\ Fetching("poll", u.manual.key, u, range).key = u.manual.key
        /\ Fetching("poll", u.manual.key, u, range).token = u.token
        /\ Fetching("poll", u.manual.key, u, range).answer = "none"
    BY <1>0, <1>2, FetchingIs
  <2>2. /\ ui'.token = u.token
        /\ \/ ui' = u /\ fetch' = Fetching("poll", u.manual.key, u, range)
           \/ u.token = 0 /\ ui' = u /\ fetch' = fetch
           \/ fetch' = fetch /\ ui'.manual = u.manual /\ ui'.pollTimer = TRUE
           \/ /\ fetch' = fetch /\ ui'.manual = Idle
              /\ ~u.manual.batch.pending \/ u.manual.failures >= MaxFailures
    BY <1>2, <1>5, PollNow
  <2> QED
    BY <1>1, <1>2, <2>1, <2>2
<1> QED
  BY <1>3, <1>4, <1>5


-----------------------------------------------------------------------------
(* One chain of polls.                                                     *)

\* Clicks number the objects: no two requests have the same, and an object that an
\* answer will put in its request's place is nobody's yet.
Numbered ==
    /\ \A p, q \in posts : p.key = q.key => p = q
    /\ \A p \in posts : /\ p.key <= clicks /\ p.token \in 1..issued
                        /\ Answered(p.key) # ui.manual.key /\ Answered(p.key) # fetch.key
    /\ ui.manual.key <= Answered(clicks) /\ fetch.key <= Answered(clicks)
    /\ ui.token <= issued /\ ui.manual.by <= issued
    /\ ui.manual.key # 0 => ui.manual.by # 0

\* The batch followed was asked for in this session.
Mine == Following(ui.manual) /\ ui.manual.by = ui.token

\* An object that starts has its request; a batch that is followed has its timer, or its
\* refresh, and not both.
Polled ==
    /\ Starting(ui.manual) => \E p \in posts : p.key = ui.manual.key
    /\ Mine => (ui.pollTimer <=> ~OwnFetch)

PollInv == Numbered /\ Polled

LEMMA NumberedPosts ==
    ASSUME TypeOK, Numbered, SameRequests, clicks' = clicks, issued' = issued,
           ui'.manual = ui.manual, ui'.token = ui.token, fetch'.key = fetch.key
    PROVE  Numbered'
<1>1. CASE posts' = posts
  BY <1>1 DEF Numbered
<1>2. ASSUME NEW p \in posts, NEW q \in Posts, q.key = p.key, q.token = p.token,
             posts' = (posts \ {p}) \cup {q}
      PROVE  Numbered'
  <2>1. \A x \in posts' : \E y \in posts : y.key = x.key /\ y.token = x.token
    BY <1>2
  <2>2. \A x, y \in posts' : x.key = y.key => x = y
    BY <1>2 DEF Numbered
  <2>3. \A x \in posts' : /\ x.key <= clicks /\ x.token \in 1..issued
                         /\ Answered(x.key) # ui.manual.key /\ Answered(x.key) # fetch.key
    BY <2>1 DEF Numbered
  <2> QED
    BY <2>2, <2>3 DEF Numbered, Answered
<1> QED
  BY <1>1, <1>2 DEF SameRequests

LEMMA PollStep == TypeInv /\ PollInv /\ [Next]_vars => PollInv'
<1> SUFFICES ASSUME TypeInv, PollInv, [Next]_vars  PROVE PollInv'
  OBVIOUS
<1> TypeOK /\ Numbered /\ Polled
  BY DEF TypeInv, PollInv
<1>0. /\ ui \in UI /\ fetch \in Fetches /\ ui.manual \in Tracking /\ posts \subseteq Posts
      /\ clicks \in 0..MaxClicks /\ issued \in 0..MaxLogins /\ MaxClicks \in Nat
      /\ ui.token \in 0..MaxLogins /\ ui.manual.key \in Nat /\ fetch.key \in Nat
      /\ ui.manual.by \in 0..MaxLogins /\ fetch.caller \in Callers
  BY BoundsAssumption DEF TypeOK, UI, Tracking, Fetches, Keys
<1>k. \A p \in posts : p.key \in 1..MaxClicks
  BY <1>0 DEF Posts
<1>1. CASE Spare
  <2>1. /\ ui' = ui /\ fetch'.key = fetch.key /\ fetch'.caller = fetch.caller
        /\ SameRequests /\ clicks' = clicks /\ issued' = issued
    BY <1>1 DEF Spare, Untouched
  <2>2. Numbered'
    BY <2>1, NumberedPosts
  <2>3. (\E p \in posts : p.key = ui.manual.key) => (\E p \in posts' : p.key = ui.manual.key)
    BY <2>1 DEF SameRequests
  <2> QED
    BY <2>1, <2>2, <2>3 DEF PollInv, Polled, Mine, OwnFetch, Starting
<1>2. CASE \/ Login \/ RefreshTimer \/ Visible \/ RangeWakes
           \/ \E r \in Ranges : ChangeRange(r)
  <2>1. /\ SameBatch /\ posts' = posts /\ clicks' = clicks
        /\ \/ fetch' = fetch
           \/ fetch.caller # "poll" /\ fetch'.caller # "poll" /\ fetch'.key = 0
        /\ \/ ui'.token = ui.token /\ issued' = issued
           \/ ui'.token = issued + 1 /\ issued' = issued + 1
    BY <1>2, OtherHandlers
  <2>2. Numbered'
    <3>1. \A p \in posts' : /\ p.key <= clicks' /\ p.token \in 1..issued'
                           /\ Answered(p.key) # ui'.manual.key /\ Answered(p.key) # fetch'.key
      BY <1>0, <1>k, <2>1 DEF Numbered, Answered, SameBatch, Posts
    <3>2. fetch'.key <= Answered(clicks) /\ ui'.token <= issued' /\ ui.manual.by <= issued'
      BY <1>0, <2>1 DEF Numbered, Answered
    <3> QED
      BY <2>1, <3>1, <3>2 DEF Numbered, SameBatch
  <2>3. Mine' => Mine /\ ui'.token = ui.token
    BY <1>0, <2>1 DEF Mine, SameBatch, Numbered
  <2> QED
    BY <2>1, <2>2, <2>3 DEF PollInv, Polled, OwnFetch, SameBatch
<1>3. CASE Reload
  <2>1. /\ posts' = {} /\ ui'.manual = Idle /\ ui'.token = ui.token /\ fetch'.key = 0
        /\ clicks' = clicks /\ issued' = issued
    BY <1>3, <1>0, ValuesTyped, FetchingIs DEF Reload, SignedOut, server, Fetching
  <2>2. ~Starting(Idle) /\ ~Following(Idle) /\ Idle.key = 0 /\ Idle.by = 0
    BY <1>0 DEF Starting, Following, Idle
  <2> QED
    BY <1>0, <2>1, <2>2 DEF PollInv, Numbered, Polled, Mine, Answered
<1>4. ASSUME NEW n \in leaving, LeftSession(n)  PROVE PollInv'
  <2>1. /\ ui'.manual = Idle /\ ui'.token = 0 /\ fetch' = fetch /\ posts' = posts
        /\ clicks' = clicks /\ issued' = issued
    BY <1>0, <1>4 DEF LeftSession, ResetSession, UI, server
  <2>2. ~Starting(Idle) /\ ~Following(Idle) /\ Idle.key = 0 /\ Idle.by = 0
    BY <1>0 DEF Starting, Following, Idle
  <2> QED
    BY <1>0, <1>k, <2>1, <2>2 DEF PollInv, Numbered, Polled, Mine, Answered
<1>5. CASE ManualRefresh
  <2> DEFINE new == [key |-> clicks + 1, token |-> ui.token, answer |-> "none", batch |-> NoBatch(0)]
  <2>1. /\ posts' = posts \cup {new} /\ clicks' = clicks + 1 /\ clicks < MaxClicks
        /\ ui.token # 0 /\ issued' = issued /\ fetch' = fetch
        /\ ui'.manual.key = clicks + 1 /\ ui'.manual.by = ui.token /\ ui'.token = ui.token
    BY <1>0, <1>5 DEF ManualRefresh, UI, Idle, server
  <2>2. new.key = clicks + 1 /\ new.token = ui.token
    OBVIOUS
  <2> HIDE DEF new
  <2>3. Starting(ui'.manual) /\ ~Following(ui'.manual)
    BY <1>0, <2>1 DEF Starting, Following
  <2>4. \A p, q \in posts' : p.key = q.key => p = q
    BY <1>0, <1>k, <2>1, <2>2 DEF Numbered
  <2>5. \A p \in posts' : /\ p.key <= clicks + 1 /\ p.token \in 1..issued
                         /\ Answered(p.key) # clicks + 1 /\ Answered(p.key) # fetch.key
    BY <1>0, <1>k, <2>1, <2>2 DEF Numbered, Answered
  <2>6. clicks + 1 <= Answered(clicks + 1) /\ fetch.key <= Answered(clicks + 1)
    BY <1>0 DEF Numbered, Answered
  <2>7. Numbered'
    BY <1>0, <2>1, <2>4, <2>5, <2>6 DEF Numbered
  <2> QED
    BY <2>1, <2>2, <2>3, <2>7 DEF PollInv, Polled, Mine
<1>6. ASSUME NEW p \in posts, PostAnswered(p)  PROVE PollInv'
  <2>0. ~Starting(Idle) /\ ~Following(Idle) /\ Idle.key = 0 /\ Idle.by = 0
    BY <1>0 DEF Starting, Following, Idle
  <2>1. /\ posts' = posts \ {p} /\ clicks' = clicks /\ issued' = issued
        /\ \/ ui'.manual = Idle /\ fetch' = fetch /\ ui'.token \in {0, ui.token}
           \/ /\ p.answer = "ok" /\ ui'.token = ui.token /\ ui'.manual = Followable(p)
              /\ \/ fetch' = fetch /\ ui.token = 0
                 \/ fetch' = fetch /\ ui'.pollTimer = TRUE
                 \/ /\ fetch'.caller = "poll" /\ fetch'.key = Answered(p.key)
                    /\ fetch'.token = ui.token /\ fetch'.answer = "none"
                    /\ ui'.pollTimer = FALSE
    BY <1>6, PostIs
  <2>2. CASE ui'.manual = Idle /\ fetch' = fetch /\ ui'.token \in {0, ui.token}
    BY <1>0, <1>k, <2>0, <2>1, <2>2 DEF PollInv, Numbered, Polled, Mine, Answered
  <2>3. CASE /\ ui'.token = ui.token /\ ui'.manual = Followable(p)
             /\ \/ fetch' = fetch /\ (ui.token = 0 \/ ui'.pollTimer = TRUE)
                \/ /\ fetch'.caller = "poll" /\ fetch'.key = Answered(p.key)
                   /\ ui'.pollTimer = FALSE
    <3>1. /\ ui'.manual.key = Answered(p.key) /\ ui'.manual.by = p.token
          /\ p.token \in 1..issued /\ p.key <= clicks /\ p.key \in 1..MaxClicks
      BY <1>k, <2>3 DEF Followable, Numbered
    <3>2. Following(ui'.manual) /\ ~Starting(ui'.manual) /\ Answered(p.key) <= Answered(clicks)
      BY <1>0, <3>1 DEF Following, Starting, Answered
    <3>3. \A q \in posts' : /\ q \in posts /\ q.key # p.key /\ Answered(q.key) # Answered(p.key)
                           /\ Answered(q.key) # fetch.key
      BY <1>0, <1>k, <2>1, <3>1 DEF Numbered, Answered
    <3>4. Numbered'
      BY <1>0, <2>1, <2>3, <3>1, <3>2, <3>3 DEF Numbered
    <3>5. Mine' => (ui'.pollTimer <=> ~OwnFetch')
      BY <2>3, <3>1, <1>0 DEF Mine, OwnFetch, Numbered
    <3> QED
      BY <3>2, <3>4, <3>5 DEF PollInv, Polled
  <2> QED
    BY <2>1, <2>2, <2>3
<1>7. CASE PollTimer
  <2>0. ~Starting(Idle) /\ ~Following(Idle) /\ Idle.key = 0 /\ Idle.by = 0
    BY <1>0 DEF Starting, Following, Idle
  <2>1. /\ posts' = posts /\ clicks' = clicks /\ issued' = issued
        /\ ui.pollTimer = TRUE /\ ui'.token = ui.token
        /\ \/ /\ ui'.manual = ui.manual /\ fetch' = fetch
              /\ ui.manual.key = 0 \/ ui.token = 0 \/ ui'.pollTimer = TRUE
           \/ /\ ui'.manual = ui.manual /\ ui'.pollTimer = FALSE
              /\ fetch'.caller = "poll" /\ fetch'.key = ui.manual.key
           \/ ui'.manual = Idle /\ fetch' = fetch
    BY <1>7, TimerIs
  <2>2. Numbered'
    BY <1>0, <1>k, <2>0, <2>1 DEF Numbered, Answered
  <2>3. Following(ui.manual) => ui.manual.key # 0 /\ ui.manual.by # 0
    BY <1>0 DEF Following, Numbered
  <2>4. Polled'
    BY <2>0, <2>1, <2>3 DEF Polled, Mine, OwnFetch
  <2> QED
    BY <2>2, <2>4 DEF PollInv
<1>8. CASE FetchAnswered
  <2>0. ~Starting(Idle) /\ ~Following(Idle) /\ Idle.key = 0 /\ Idle.by = 0
    BY <1>0 DEF Starting, Following, Idle
  <2> DEFINE g == Followed(ui.manual, fetch.answer, fetch.batch)
  <2>g. g.key = ui.manual.key /\ g.by = ui.manual.by
    BY <1>0, FollowedIs DEF Fetches, Replies, Answers
  <2> HIDE DEF g
  <2>1. /\ fetch' = NoFetch /\ posts' = posts /\ clicks' = clicks /\ issued' = issued
        /\ \/ ui'.token = 0 /\ ui'.manual = Idle
           \/ SameBatch /\ ui'.token = ui.token /\ (ui.token = 0 \/ ~OwnFetch)
           \/ ui'.token = ui.token /\ ui'.manual = g /\ ui'.pollTimer = TRUE
           \/ ui'.token = ui.token /\ ui'.manual = Idle
    BY <1>8, ReplyIs DEF g
  <2>2. ui'.manual = Idle \/ (ui'.manual.key = ui.manual.key /\ ui'.manual.by = ui.manual.by)
    BY <2>1, <2>g DEF SameBatch
  <2>3. Numbered'
    <3>1. fetch'.key = 0 /\ ui'.token <= issued
      BY <1>0, <2>1, ValuesTyped DEF Numbered
    <3> QED
      BY <1>0, <1>k, <2>0, <2>1, <2>2, <3>1 DEF Numbered, Answered
  <2>4. Following(ui.manual) => ui.manual.by # 0
    BY <1>0 DEF Following, Numbered
  <2>5. Polled'
    BY <2>0, <2>1, <2>2, <2>g, <2>4, ValuesTyped
    DEF Polled, Mine, OwnFetch, SameBatch, Starting, Following
  <2> QED
    BY <2>3, <2>5 DEF PollInv
<1> QED
  BY <1>1, <1>2, <1>3, <1>4, <1>5, <1>6, <1>7, <1>8, SpareSteps

LEMMA InitPolled == Init => PollInv
BY BoundsAssumption
DEF Init, SignedOut, Idle, NoFetch, PollInv, Numbered, Polled, Mine, OwnFetch, Starting,
    Following, Answered

LEMMA PolledOnce == TypeInv /\ PollInv => OnePoll
<1> SUFFICES ASSUME TypeInv, PollInv, ui.manual.key # 0, ui.manual.by = ui.token
             PROVE  Cardinality(Pollers) = 1
  BY DEF OnePoll
<1>1. Starting(ui.manual) \/ Following(ui.manual)
  BY BoundsAssumption DEF TypeInv, TypeOK, UI, Tracking, Keys, Starting, Following
<1>2. \E x : Pollers = {x}
  <2>1. CASE Starting(ui.manual)
    <3>1. PICK p \in posts : p.key = ui.manual.key
      BY <2>1 DEF PollInv, Polled
    <3>2. Pollers = {p}
      BY <2>1, <3>1 DEF Pollers, PollInv, Numbered
    <3> QED
      BY <3>2
  <2>2. CASE ~Starting(ui.manual)
    <3>1. ui.pollTimer <=> ~OwnFetch
      BY <1>1, <2>2 DEF PollInv, Polled, Mine
    <3>2. Pollers = {f \in {fetch} : OwnFetch} \cup {x \in {"timer"} : ui.pollTimer}
      BY <2>2 DEF Pollers, OwnFetch
    <3>3. Pollers = {fetch} \/ Pollers = {"timer"}
      BY <3>1, <3>2
    <3> QED
      BY <3>3
  <2> QED
    BY <2>1, <2>2
<1> QED
  BY <1>2, FS_Singleton

\* A batch the page shows as running is asked for by exactly one request, refresh or
\* timer: never by none, which would keep the button disabled, and never by two
\* (manualRefresh, pollManualRefresh, app.js:926-978).
THEOREM OneChainOfPolls == Spec => []OnePoll
BY InitTyped, TypeStep, InitPolled, PollStep, PolledOnce, PTL DEF Spec

-----------------------------------------------------------------------------
(* Followed to its end.                                                    *)

\* A batch that is over is on record as finished, and so is every earlier one.
InOrder(b) ==
    /\ b.id # 0 /\ ~b.pending => <<b.life, b.id>> \in finished
    /\ \A i \in 1..(b.id - 1) : <<b.life, i>> \in finished

\* What an answer of the server says of a batch stays true: the server may only be further.
Said(b) ==
    InOrder(b) /\ b.life <= batch.life /\ (b.life = batch.life => b.id <= batch.id)

\* The answer about a batch names one, and if its session is still accepted the program
\* has not started again since.
Told(b, token) == Said(b) /\ b.id # 0 /\ (token \in sessions => b.life = batch.life)

\* What the page follows is told to it, and the answer to its own poll is no older.
Current ==
    Mine =>
        /\ Told(ui.manual.batch, ui.token) /\ ui.manual.failures < MaxFailures
        /\ OwnFetch =>
               /\ fetch.token = ui.token
               /\ fetch.answer = "ok" => /\ fetch.batch.life = ui.manual.batch.life
                                         /\ fetch.batch.id >= ui.manual.batch.id

Ordered ==
    /\ InOrder(batch)
    /\ \A p \in posts : p.answer = "ok" => Told(p.batch, p.token)
    /\ fetch.answer = "ok" => Said(fetch.batch)
    /\ Current

LEMMA SaidStays ==
    ASSUME NEW b \in Batches, batch \in Batches, batch' \in Batches, Said(b),
           finished \subseteq finished',
           \/ batch'.life = batch.life /\ batch.id <= batch'.id
           \/ batch'.life > batch.life
    PROVE  Said(b)'
BY DEF Said, InOrder, Batches

\* What the server does: it finishes batches in order, and a session it accepts dates from
\* its latest start.
ServerMoves ==
    /\ finished \subseteq finished' /\ InOrder(batch)' /\ batch' \in Batches
    /\ \/ /\ batch'.life = batch.life /\ batch.id <= batch'.id
          /\ sessions' \subseteq sessions \cup {issued + 1}
       \/ batch'.life > batch.life /\ sessions' = {}

LEMMA ToldStays ==
    ASSUME NEW b \in Batches, NEW token, token # issued + 1, batch \in Batches, Told(b, token),
           ServerMoves
    PROVE  Told(b, token)'
<1>1. Said(b)'
  BY SaidStays DEF Told, ServerMoves
<1>2. token \in sessions' => token \in sessions /\ batch'.life = batch.life
  BY DEF ServerMoves
<1> QED
  BY <1>1, <1>2 DEF Told

LEMMA ServerSteps ==
    ASSUME TypeInv, InOrder(batch), [Next]_vars
    PROVE  ServerMoves
<1>0. /\ batch \in Batches /\ batch.life \in Nat /\ batch.id \in Nat
      /\ batch.pending \in BOOLEAN /\ TypeOK
  BY BoundsAssumption DEF TypeInv, TypeOK, Batches
<1>1. ASSUME batch' = batch, finished' = finished, sessions' \subseteq sessions \cup {issued + 1}
      PROVE  ServerMoves
  BY <1>0, <1>1 DEF ServerMoves, InOrder
\* The next batch: the one before is over.
<1>2. ASSUME ~batch.pending, batch' \in Batches, batch'.life = batch.life,
             batch'.id = batch.id + 1, sessions' = sessions,
             finished \subseteq finished',
             ~batch'.pending => <<batch'.life, batch'.id>> \in finished'
      PROVE  ServerMoves
  <2>1. \A i \in 1..(batch'.id - 1) : i = batch.id \/ i \in 1..(batch.id - 1)
    BY <1>0, <1>2
  <2>2. \A i \in 1..(batch'.id - 1) : <<batch'.life, i>> \in finished'
    BY <1>0, <1>2, <2>1 DEF InOrder
  <2> QED
    BY <1>0, <1>2, <2>2 DEF ServerMoves, InOrder
<1>3. ASSUME NEW p \in posts, ServePost(p)  PROVE ServerMoves
  <2>1. CASE batch' = batch
    <3>1. batch.id # batch.id + 1
      BY <1>0
    <3>2. finished' = finished /\ sessions' = sessions
      BY <1>3, <2>1, <3>1 DEF ServePost, Joined
    <3> QED
      BY <1>1, <2>1, <3>2
  <2>2. CASE batch' # batch
    <3>1. /\ ~batch.pending /\ batch' \in Joined(batch.life, batch.id + 1) /\ sessions' = sessions
          /\ finished' = IF batch'.pending THEN finished
                         ELSE finished \cup {<<batch'.life, batch'.id>>}
      BY <1>3, <2>2 DEF ServePost
    <3> QED
      BY <1>2, <3>1 DEF Joined
  <2> QED
    BY <2>1, <2>2
<1>4. CASE BatchEnds
  <2>1. /\ batch' = [batch EXCEPT !.pending = FALSE] /\ sessions' = sessions
        /\ finished' = finished \cup {<<batch.life, batch.id>>}
    BY <1>4 DEF BatchEnds
  <2>2. batch' \in Batches /\ batch'.life = batch.life /\ batch'.id = batch.id
    BY <1>0, <2>1 DEF Batches
  <2> QED
    BY <1>0, <2>1, <2>2 DEF ServerMoves, InOrder
<1>5. CASE OtherBatch
  <2>1. batch' \in Batches
    BY <1>0, <1>5, TypeStep DEF TypeInv, TypeOK
  <2>2. batch'.life = batch.life /\ batch'.id = batch.id + 1 /\ batch'.pending = TRUE
    BY <1>0, <1>5 DEF OtherBatch, Batches
  <2> QED
    BY <1>2, <1>5, <2>1, <2>2 DEF OtherBatch
<1>6. CASE Restart
  <2>1. batch' \in Batches
    BY <1>0, <1>6, TypeStep DEF TypeInv, TypeOK
  <2>2. /\ batch'.life = batch.life + 1 /\ batch'.id = 0 /\ sessions' = {}
        /\ finished' = finished
    BY <1>6 DEF Restart, NoBatch
  <2> QED
    BY <1>0, <2>1, <2>2 DEF ServerMoves, InOrder
<1>7. CASE \/ Login \/ RefreshTimer \/ Visible \/ RangeWakes \/ (\E r \in Ranges : ChangeRange(r))
  BY <1>0, <1>1, <1>7, OtherHandlers
<1>8. CASE \/ Reload \/ Logout \/ ManualRefresh \/ PollTimer \/ FetchAnswered
           \/ ServeState \/ LoseState \/ Expire \/ UNCHANGED vars
           \/ \E n \in leaving : LeftSession(n) \/ ServeLogout(n)
           \/ \E p \in posts : PostAnswered(p) \/ FailPost(p)
  <2>1. batch' = batch /\ finished' = finished /\ sessions' \subseteq sessions
    BY <1>8 DEF Reload, Logout, ManualRefresh, PollTimer, FetchAnswered, ServeState, LoseState,
                Expire, LeftSession, ServeLogout, PostAnswered, FailPost, vars, page, server
  <2> QED
    BY <1>1, <2>1
<1> QED
  BY <1>3, <1>4, <1>5, <1>6, <1>7, <1>8 DEF Next, User, Script, Program, Network

\* An answer to the page's request is fixed by the server's word at that moment.
LEMMA AnswersSaid ==
    ASSUME TypeInv, [Next]_vars
    PROVE  /\ \A p \in posts' : \/ p \in posts \/ p.answer # "ok"
                                \/ p.batch = batch' /\ batch'.id # 0
           /\ \/ fetch' = fetch
              \/ fetch'.answer # "ok"
              \/ /\ fetch'.batch = batch /\ batch' = batch /\ fetch.token \in sessions
                 /\ fetch'.token = fetch.token /\ ui' = ui
                 /\ fetch'.caller = fetch.caller /\ fetch'.key = fetch.key
<1>0. /\ TypeOK /\ batch \in Batches /\ batch.id \in Nat /\ ui \in UI /\ range \in Ranges
      /\ fetch \in Fetches /\ posts \subseteq Posts
  BY BoundsAssumption DEF TypeInv, TypeOK, Batches
<1>1. ASSUME posts' \subseteq posts, fetch' = fetch \/ fetch'.answer # "ok"
      PROVE  /\ \A p \in posts' : p \in posts
             /\ fetch' = fetch \/ fetch'.answer # "ok"
  BY <1>1
<1>2. ASSUME NEW p \in posts, ServePost(p) \/ FailPost(p)
      PROVE  /\ fetch' = fetch
             /\ \A q \in posts' : \/ q \in posts \/ q.answer # "ok"
                                  \/ q.batch = batch' /\ batch'.id # 0
  <2>0. p \in Posts
    BY <1>0
  <2>1. CASE FailPost(p)
    <3>1. [p EXCEPT !.answer = "failed", !.batch = NoBatch(0)].answer = "failed"
      BY <2>0 DEF Posts
    <3> QED
      BY <2>1, <3>1 DEF FailPost
  <2>2. CASE ServePost(p) /\ posts' = (posts \ {p}) \cup {[p EXCEPT !.answer = "denied"]}
    <3>1. [p EXCEPT !.answer = "denied"].answer = "denied"
      BY <2>0 DEF Posts
    <3> QED
      BY <2>2, <3>1 DEF ServePost
  <2>3. CASE /\ ServePost(p)
             /\ posts' = (posts \ {p}) \cup {[p EXCEPT !.answer = "ok", !.batch = batch']}
             /\ IF batch.pending THEN batch' = batch
                ELSE batch.id < MaxBatches /\ batch' \in Joined(batch.life, batch.id + 1)
    <3>1. [p EXCEPT !.answer = "ok", !.batch = batch'].batch = batch'
      BY <2>0 DEF Posts
    <3>2. batch'.id # 0
      BY <1>0, <2>3 DEF TypeInv, Joined
    <3> QED
      BY <2>3, <3>1, <3>2 DEF ServePost
  <2> QED
    BY <1>2, <2>1, <2>2, <2>3 DEF ServePost
<1>3. CASE ServeState
  <2>1. posts' = posts /\ ui' = ui /\ batch' = batch
    BY <1>3 DEF ServeState, server
  <2>2. CASE fetch.token \in sessions
    <3>1. fetch' = [fetch EXCEPT !.answer = "ok", !.batch = batch]
      BY <1>3, <2>2 DEF ServeState
    <3>2. /\ fetch'.batch = batch /\ fetch'.token = fetch.token
          /\ fetch'.caller = fetch.caller /\ fetch'.key = fetch.key
      BY <1>0, <3>1 DEF Fetches
    <3> QED
      BY <2>1, <2>2, <3>2
  <2>3. CASE fetch.token \notin sessions
    <3>1. fetch'.answer = "denied"
      BY <1>0, <1>3, <2>3 DEF ServeState, Fetches
    <3> QED
      BY <2>1, <3>1
  <2> QED
    BY <2>2, <2>3
<1>4. CASE \/ Login \/ RefreshTimer \/ Visible \/ RangeWakes \/ (\E r \in Ranges : ChangeRange(r))
  BY <1>0, <1>1, <1>4, OtherHandlers
<1>5. CASE Reload
  <2>1. posts' = {} /\ fetch'.answer = "none"
    BY <1>5, ValuesTyped DEF Reload, Fetching
  <2> QED
    BY <2>1
<1>6. ASSUME NEW p \in posts, PostAnswered(p)
      PROVE  posts' \subseteq posts /\ (fetch' = fetch \/ fetch'.answer # "ok")
  BY <1>0, <1>6, PostIs
<1>7. CASE PollTimer
  BY <1>0, <1>1, <1>7, TimerIs
<1>8. CASE FetchAnswered
  BY <1>0, <1>1, <1>8, ReplyIs, ValuesTyped
<1>9. CASE ManualRefresh
  <2> DEFINE new == [key |-> clicks + 1, token |-> ui.token, answer |-> "none", batch |-> NoBatch(0)]
  <2>1. posts' = posts \cup {new} /\ fetch' = fetch /\ new.answer = "none"
    BY <1>9 DEF ManualRefresh
  <2> QED
    BY <2>1
<1>10. CASE LoseState
  <2>1. fetch'.answer = "failed" /\ posts' = posts
    BY <1>0, <1>10 DEF LoseState, Fetches
  <2> QED
    BY <2>1
<1>11. CASE \/ Logout \/ BatchEnds \/ OtherBatch \/ Expire \/ Restart \/ UNCHANGED vars
            \/ \E n \in leaving : LeftSession(n) \/ ServeLogout(n)
  <2>1. posts' = posts /\ fetch' = fetch
    BY <1>11 DEF Logout, BatchEnds, OtherBatch, Expire, Restart, ServeLogout, LeftSession,
                 vars, page, server
  <2> QED
    BY <2>1
<1> QED
  BY <1>2, <1>3, <1>4, <1>5, <1>6, <1>7, <1>8, <1>9, <1>10, <1>11
  DEF Next, User, Script, Program, Network

LEMMA OrderedStep == TypeInv /\ PollInv /\ Ordered /\ [Next]_vars => Ordered'
<1> SUFFICES ASSUME TypeInv, PollInv, Ordered, [Next]_vars  PROVE Ordered'
  OBVIOUS
<1> TypeOK /\ TypeInv'
  BY TypeStep DEF TypeInv
<1>0. /\ ui \in UI /\ fetch \in Fetches /\ posts \subseteq Posts /\ batch \in Batches
      /\ issued \in Nat /\ fetch.batch \in Batches /\ ui.manual.batch \in Batches
      /\ ui.token \in 0..issued /\ ui.manual.by \in 0..issued
      /\ \A p \in posts : p.batch \in Batches /\ p.token \in 0..issued
  BY BoundsAssumption DEF TypeOK, UI, Tracking, Fetches, Posts, PollInv, Numbered
<1>1. ServerMoves
  BY ServerSteps DEF Ordered
<1>2. /\ InOrder(batch)'
      /\ \A b \in Batches : Said(b) => Said(b)'
      /\ \A b \in Batches, n \in 0..issued : Told(b, n) => Told(b, n)'
  <2>1. \A n \in 0..issued : n # issued + 1
    BY <1>0
  <2>2. \A b \in Batches : Said(b) => Said(b)'
    BY <1>0, <1>1, SaidStays DEF ServerMoves
  <2>3. \A b \in Batches, n \in 0..issued : Told(b, n) => Told(b, n)'
    BY <1>0, <1>1, <2>1, ToldStays
  <2> QED
    BY <1>1, <2>2, <2>3 DEF ServerMoves
<1>3. Said(batch)' /\ (batch'.id # 0 => \A n : Told(batch, n)')
  <2>1. batch'.life <= batch'.life /\ batch'.id <= batch'.id
    BY <1>1, BoundsAssumption DEF ServerMoves, Batches
  <2> QED
    BY <1>2, <2>1 DEF Said, Told
<1>4. (\A p \in posts : p.answer = "ok" => Told(p.batch, p.token))'
  BY <1>0, <1>2, <1>3, AnswersSaid DEF Ordered
<1>5. (fetch.answer = "ok" => Said(fetch.batch))'
  BY <1>0, <1>2, <1>3, AnswersSaid DEF Ordered
\* The batch followed is the one followed before.
<1>6. ASSUME Mine, ui'.manual = ui.manual, ui'.token = ui.token,
             \/ fetch' = fetch
             \/ ~OwnFetch'
             \/ fetch'.token = ui.token /\ fetch'.answer # "ok"
             \/ /\ fetch'.batch = batch /\ batch' = batch /\ fetch.token \in sessions
                /\ fetch'.token = fetch.token
                /\ fetch'.caller = fetch.caller /\ fetch'.key = fetch.key
      PROVE  Current'
  <2>1. Told(ui.manual.batch, ui.token) /\ ui.manual.failures < MaxFailures
    BY <1>6 DEF Ordered, Current
  <2>2. Told(ui.manual.batch, ui.token)'
    BY <1>0, <1>2, <1>6, <2>1
  <2>3. CASE fetch' = fetch \/ ~OwnFetch'
    BY <1>6, <2>1, <2>2, <2>3 DEF Ordered, Current, OwnFetch
  <2>4. CASE fetch'.token = ui.token /\ fetch'.answer # "ok"
    BY <1>6, <2>1, <2>2, <2>4 DEF Current
  <2>5. CASE /\ fetch'.batch = batch /\ fetch.token \in sessions /\ fetch'.token = fetch.token
             /\ fetch'.caller = fetch.caller /\ fetch'.key = fetch.key
    <3>1. OwnFetch' => fetch.token = ui.token
      BY <1>6, <2>5 DEF Ordered, Current, OwnFetch
    <3>2. OwnFetch' => batch.life = ui.manual.batch.life /\ batch.id >= ui.manual.batch.id
      BY <1>0, <2>1, <2>5, <3>1 DEF Told, Said, Batches
    <3> QED
      BY <1>6, <2>1, <2>2, <2>5, <3>1, <3>2 DEF Current
  <2> QED
    BY <1>6, <2>3, <2>4, <2>5
<1>7. ASSUME Spare  PROVE Current'
  <2>1. ui' = ui
    BY <1>7 DEF Spare, Untouched
  <2>2. Mine' => Mine
    BY <2>1 DEF Mine
  <2>3. CASE Mine
    <3>1. \/ fetch' = fetch
          \/ /\ fetch'.batch = batch /\ batch' = batch /\ fetch.token \in sessions
             /\ fetch'.token = fetch.token
             /\ fetch'.caller = fetch.caller /\ fetch'.key = fetch.key
          \/ fetch'.answer # "ok"
      BY AnswersSaid
    <3>2. OwnFetch' => OwnFetch /\ fetch'.token = fetch.token
      BY <1>7, <2>1 DEF Spare, Untouched, OwnFetch
    <3>3. OwnFetch => fetch.token = ui.token
      BY <2>3 DEF Ordered, Current
    <3> QED
      BY <1>6, <2>1, <2>3, <3>1, <3>2, <3>3
  <2> QED
    BY <2>2, <2>3 DEF Current
<1>8. ASSUME \/ Login \/ RefreshTimer \/ Visible \/ RangeWakes
             \/ \E r \in Ranges : ChangeRange(r)
      PROVE  Current'
  <2>1. /\ SameBatch
        /\ fetch' = fetch \/ fetch'.caller # "poll"
        /\ ui'.token = ui.token \/ ui'.token = issued + 1
    BY <1>8, OtherHandlers
  <2>2. Mine' => Mine /\ ui'.token = ui.token
    BY <1>0, <2>1 DEF Mine, SameBatch
  <2>3. OwnFetch' => fetch' = fetch
    BY <2>1 DEF OwnFetch
  <2> QED
    BY <1>6, <2>1, <2>2, <2>3 DEF Current, SameBatch
<1>9. ui'.manual.key <= MaxClicks => Current'
  BY <1>0, BoundsAssumption DEF Current, Mine, Following, TypeInv, TypeOK, UI, Tracking, Keys
<1>10. ASSUME Reload \/ ManualRefresh \/ (\E n \in leaving : LeftSession(n))
       PROVE  Current'
  <2>1. CASE ManualRefresh
    <3>1. ui'.manual.key = clicks + 1 /\ clicks < MaxClicks
      BY <1>0, <2>1 DEF ManualRefresh, UI, Idle
    <3> QED
      BY <1>9, <3>1, BoundsAssumption DEF TypeInv, TypeOK
  <2>2. CASE Reload \/ (\E n \in leaving : LeftSession(n))
    <3>1. Reload => ui'.manual = Idle
      BY DEF Reload, SignedOut
    <3>2. \A n \in leaving : LeftSession(n) => ui'.manual = Idle
      BY <1>0 DEF LeftSession, ResetSession, UI
    <3> QED
      BY <1>9, <2>2, <3>1, <3>2, BoundsAssumption DEF Idle
  <2> QED
    BY <1>10, <2>1, <2>2
<1>11. ASSUME NEW p \in posts, PostAnswered(p)  PROVE Current'
  <2>1. \/ ui'.manual = Idle
        \/ /\ p.answer = "ok" /\ ui'.token = ui.token /\ ui'.manual = Followable(p)
           /\ \/ fetch' = fetch
              \/ fetch'.token = ui.token /\ fetch'.answer = "none"
    BY <1>11, PostIs
  <2>2. CASE ui'.manual = Idle
    BY <1>9, <2>2, BoundsAssumption DEF Idle
  <2>3. CASE /\ p.answer = "ok" /\ ui'.token = ui.token /\ ui'.manual = Followable(p)
             /\ \/ fetch' = fetch
                \/ fetch'.token = ui.token /\ fetch'.answer = "none"
    <3>1. /\ ui'.manual.batch = p.batch /\ ui'.manual.by = p.token /\ ui'.manual.failures = 0
          /\ ui'.manual.key = Answered(p.key)
      BY <2>3 DEF Followable
    <3>2. Told(p.batch, p.token)'
      BY <1>0, <1>2, <2>3 DEF Ordered
    <3>3. Mine' => Told(ui.manual.batch, ui.token)'
      BY <3>1, <3>2 DEF Mine, Told, Said, InOrder
    <3>4. fetch' = fetch => ~OwnFetch'
      BY <3>1 DEF OwnFetch, PollInv, Numbered
    <3> QED
      BY <2>3, <3>1, <3>3, <3>4, BoundsAssumption DEF Current
  <2> QED
    BY <2>1, <2>2, <2>3
<1>12. ASSUME PollTimer  PROVE Current'
  <2>1. /\ ui'.token = ui.token
        /\ \/ ui'.manual = ui.manual /\ fetch' = fetch
           \/ ui'.manual = ui.manual /\ fetch'.token = ui.token /\ fetch'.answer = "none"
           \/ ui'.manual = Idle
    BY <1>12, TimerIs
  <2>2. CASE ui'.manual = Idle
    BY <1>9, <2>2, BoundsAssumption DEF Idle
  <2>3. CASE /\ ui'.manual = ui.manual
             /\ \/ fetch' = fetch
                \/ fetch'.token = ui.token /\ fetch'.answer = "none"
    <3>1. Mine' => Mine
      BY <2>1, <2>3 DEF Mine
    <3> QED
      BY <1>6, <2>1, <2>3, <3>1 DEF Current
  <2> QED
    BY <2>1, <2>2, <2>3
<1>13. ASSUME FetchAnswered  PROVE Current'
  <2> DEFINE g == Followed(ui.manual, fetch.answer, fetch.batch)
  <2>1. /\ fetch' = NoFetch /\ batch' = batch /\ finished' = finished
        /\ \/ ui'.manual = Idle
           \/ SameBatch /\ ui'.token = ui.token
           \/ /\ OwnFetch /\ ui'.token = ui.token
              /\ GoesOn(ui.manual, fetch.answer, fetch.batch)
              /\ ui'.manual = g
    BY <1>13, ReplyIs
  <2>2. CASE ui'.manual = Idle
    BY <1>9, <2>2, BoundsAssumption DEF Idle
  <2>3. CASE SameBatch /\ ui'.token = ui.token
    <3>1. Mine' => Mine
      BY <2>3 DEF Mine, SameBatch
    <3>2. ~OwnFetch'
      BY <2>1, ValuesTyped DEF OwnFetch
    <3> QED
      BY <1>6, <2>3, <3>1, <3>2 DEF Current, SameBatch
  <2>4. CASE /\ OwnFetch /\ ui'.token = ui.token
             /\ GoesOn(ui.manual, fetch.answer, fetch.batch)
             /\ ui'.manual = g
    <3>1. g.failures < MaxFailures
      BY <2>4 DEF GoesOn
    <3>2. /\ g.key = ui.manual.key /\ g.by = ui.manual.by
          /\ g.batch.life = ui.manual.batch.life /\ g.batch.id = ui.manual.batch.id
          /\ \/ g.batch = ui.manual.batch
             \/ /\ fetch.answer = "ok" /\ fetch.batch.id = ui.manual.batch.id
                /\ g.batch.pending = fetch.batch.pending
      BY <1>0, FollowedIs DEF UI, Fetches, Replies, Answers
    <3> HIDE DEF g
    <3>3. Mine' => Mine
      BY <2>4, <3>2 DEF Mine, Following
    <3>4. ASSUME Mine  PROVE Told(ui.manual.batch, ui.token)'
      <4>1. Told(ui.manual.batch, ui.token)
        BY <3>4 DEF Ordered, Current
      <4>2. CASE g.batch = ui.manual.batch
        <5>1. Told(ui.manual.batch, ui.token) /\ sessions' = sessions
          BY <1>13, <4>1, ReplyIs
        <5> QED
          BY <2>1, <2>4, <4>2, <5>1 DEF Told, Said, InOrder
      <4>3. CASE /\ fetch.answer = "ok" /\ fetch.batch.id = ui.manual.batch.id
                 /\ g.batch.pending = fetch.batch.pending
        <5>1. Said(fetch.batch) /\ fetch.batch.life = ui.manual.batch.life
          BY <2>4, <3>4, <4>3 DEF Ordered, Current
        <5>2. sessions' = sessions
          BY <1>13, ReplyIs
        <5> QED
          BY <2>1, <2>4, <3>2, <4>1, <4>3, <5>1, <5>2 DEF Told, Said, InOrder
      <4> QED
        BY <3>2, <4>2, <4>3
    <3>5. ~OwnFetch'
      BY <2>1, ValuesTyped DEF OwnFetch
    <3> QED
      BY <2>4, <3>1, <3>3, <3>4, <3>5 DEF Current
  <2> QED
    BY <2>1, <2>2, <2>3, <2>4
<1>14. Current'
  BY <1>7, <1>8, <1>10, <1>11, <1>12, <1>13, SpareSteps
<1> QED
  BY <1>2, <1>4, <1>5, <1>14 DEF Ordered

LEMMA InitOrdered == Init => Ordered
BY BoundsAssumption
DEF Init, SignedOut, Idle, NoFetch, NoBatch, Ordered, Current, InOrder, Mine, Following

\* A page lets go of a batch that its session follows for a reason.
LEMMA EndStep ==
    ASSUME TypeInv, PollInv, Ordered, [Next]_vars,
           Following(ui.manual), ui.manual.by = ui.token, ui'.manual.key = 0
    PROVE  \/ <<ui.manual.batch.life, ui.manual.batch.id>> \in finished
           \/ ui.manual.failures + 1 >= MaxFailures /\ fetch.answer = "failed"
           \/ ui'.token = 0 \/ Reload
           \/ \E p \in posts : PostAnswered(p)
<1> TypeOK /\ Mine
  BY DEF TypeInv, Mine
<1>0. /\ ui \in UI /\ fetch \in Fetches /\ ui.manual \in Tracking /\ ui.manual.key # 0
      /\ ui.manual.batch \in Batches /\ fetch.batch \in Batches /\ clicks \in 0..MaxClicks
      /\ fetch.answer \in Replies /\ ui.manual.failures \in Nat /\ MaxFailures \in Nat
  BY BoundsAssumption DEF TypeOK, UI, Tracking, Fetches, Following, Answers, Replies
<1>1. /\ Said(ui.manual.batch) /\ ui.manual.batch.id # 0 /\ ui.manual.failures < MaxFailures
      /\ OwnFetch /\ fetch.answer = "ok" =>
             /\ Said(fetch.batch) /\ fetch.batch.life = ui.manual.batch.life
             /\ fetch.batch.id >= ui.manual.batch.id
  BY DEF Ordered, Current, Told
<1>2. ~ui.manual.batch.pending => <<ui.manual.batch.life, ui.manual.batch.id>> \in finished
  BY <1>1 DEF Said, InOrder
<1>3. CASE Spare
  BY <1>0, <1>3 DEF Spare, Untouched
<1>4. CASE \/ Login \/ RefreshTimer \/ Visible \/ RangeWakes
           \/ \E r \in Ranges : ChangeRange(r)
  BY <1>0, <1>4, OtherHandlers DEF SameBatch
<1>5. CASE ManualRefresh
  BY <1>0, <1>5 DEF ManualRefresh
<1>6. ASSUME NEW n \in leaving, LeftSession(n)  PROVE ui'.token = 0
  BY <1>0, <1>6 DEF LeftSession, ResetSession, UI
<1>7. CASE PollTimer
  <2>1. \/ ui'.manual = ui.manual
        \/ ~ui.manual.batch.pending \/ ui.manual.failures >= MaxFailures
    BY <1>7, TimerIs
  <2>2. ui'.manual # ui.manual
    BY <1>0
  <2> QED
    BY <1>0, <1>1, <1>2, <2>1, <2>2
<1>8. CASE FetchAnswered
  <2> DEFINE g == Followed(ui.manual, fetch.answer, fetch.batch)
  <2>1. /\ g.key = ui.manual.key
        /\ IF fetch.answer = "ok" /\ fetch.batch.id # 0 /\ fetch.batch.id = ui.manual.batch.id
           THEN g.batch.pending = fetch.batch.pending /\ g.failures = 0
           ELSE /\ g.batch = ui.manual.batch
                /\ g.failures = IF fetch.answer = "failed" THEN ui.manual.failures + 1
                                ELSE ui.manual.failures
    BY <1>0, FollowedIs
  <2> HIDE DEF g
  <2>2. \/ ui'.token = 0
        \/ /\ OwnFetch /\ fetch.answer \in {"ok", "failed"}
           /\ ~GoesOn(ui.manual, fetch.answer, fetch.batch)
    BY <1>0, <1>8, <2>1, ReplyIs DEF g, SameBatch
  <2>3. GoesOn(ui.manual, fetch.answer, fetch.batch) <=>
            /\ ~(fetch.answer = "ok" /\ fetch.batch.id # 0 /\ fetch.batch.id # ui.manual.batch.id)
            /\ g.failures < MaxFailures /\ g.batch.pending
    BY DEF GoesOn, g
  <2>4. CASE OwnFetch /\ fetch.answer = "ok" /\ fetch.batch.id # ui.manual.batch.id
    <3>1. ui.manual.batch.id \in 1..(fetch.batch.id - 1)
      BY <1>0, <1>1, <2>4, BoundsAssumption DEF Batches
    <3> QED
      BY <1>1, <2>4, <3>1 DEF Said, InOrder
  <2>5. CASE /\ OwnFetch /\ fetch.answer = "ok" /\ fetch.batch.id = ui.manual.batch.id
             /\ ~GoesOn(ui.manual, fetch.answer, fetch.batch)
    <3>1. ~fetch.batch.pending
      BY <1>0, <1>1, <2>1, <2>3, <2>5
    <3> QED
      BY <1>1, <2>5, <3>1 DEF Said, InOrder
  <2>6. CASE /\ fetch.answer = "failed"
             /\ ~GoesOn(ui.manual, fetch.answer, fetch.batch)
    BY <1>0, <1>2, <2>1, <2>3, <2>6
  <2> QED
    BY <2>2, <2>4, <2>5, <2>6
<1> QED
  BY <1>3, <1>4, <1>5, <1>6, <1>7, <1>8, SpareSteps

\* While a session lasts, the page lets go of its batch only when the batch has ended on
\* the server or could not be read to the end: never because of a batch of somebody else,
\* an answer that was under way, or a refresh that another caller waited for
\* (pollManualRefresh, app.js:950-977).
THEOREM BatchFollowedToItsEnd == Spec => FollowedToItsEnd
<1>1. TypeInv /\ PollInv /\ Ordered /\ [Next]_vars =>
        [LET t == ui.manual
         IN  (Following(t) /\ t.by = ui.token /\ ui'.manual.key = 0)
               => \/ <<t.batch.life, t.batch.id>> \in finished
                  \/ t.failures + 1 >= MaxFailures /\ fetch.answer = "failed"
                  \/ ui'.token = 0 \/ Reload
                  \/ \E p \in posts : PostAnswered(p)]_vars
  BY EndStep
<1> QED
  BY <1>1, InitTyped, TypeStep, InitPolled, PollStep, InitOrdered, OrderedStep, PTL
  DEF Spec, FollowedToItsEnd

-----------------------------------------------------------------------------
(* The order of the table.                                                 *)

\* What a server is compared by is a number, and -1 is the only one below zero.
Ranks == {n \in Int : n >= -1}

LEMMA RankIsNumber == \A by, s : s \in Servers => Rank(by, s) \in Ranks
BY ServersAssumption DEF Ranks, Rank, GradeRank

\* What Before says of two servers: u and v, who is unavailable; x and y, their ranks; i and j,
\* their numbers; d, the direction.
Ahead(u, v, x, y, i, j, d) ==
    IF ~(u <=> v) THEN v
    ELSE IF x = y THEN i < j
    ELSE IF x < 0 \/ y < 0 THEN y < 0
    ELSE IF d THEN x > y ELSE x < y

Direction(o) == o.descending = TRUE

LEMMA BeforeIsAhead ==
    ASSUME NEW o, o.descending \in BOOLEAN, NEW l \in Servers, NEW r \in Servers
    PROVE  Before(o, l, r) <=> Ahead(Unavailable(l), Unavailable(r), Rank(o.by, l),
                                     Rank(o.by, r), l.id, r.id, Direction(o))
<1>1. CASE o.descending = TRUE
    <2> SUFFICES Before(o, l, r) <=>
            IF ~(Unavailable(l) <=> Unavailable(r)) THEN Unavailable(r)
            ELSE IF Rank(o.by, l) = Rank(o.by, r) THEN l.id < r.id
            ELSE IF Rank(o.by, l) < 0 \/ Rank(o.by, r) < 0 THEN Rank(o.by, r) < 0
            ELSE Rank(o.by, l) > Rank(o.by, r)
        BY <1>1 DEF Ahead, Direction
    <2> QED BY <1>1 DEF Before
<1>2. CASE o.descending = FALSE
    <2> SUFFICES Before(o, l, r) <=>
            IF ~(Unavailable(l) <=> Unavailable(r)) THEN Unavailable(r)
            ELSE IF Rank(o.by, l) = Rank(o.by, r) THEN l.id < r.id
            ELSE IF Rank(o.by, l) < 0 \/ Rank(o.by, r) < 0 THEN Rank(o.by, r) < 0
            ELSE Rank(o.by, l) < Rank(o.by, r)
        BY <1>2 DEF Ahead, Direction
    <2> QED BY <1>2 DEF Before
<1> QED BY <1>1, <1>2

\* The comparison never holds in both directions, and holds in one.
LEMMA AheadIsStrict ==
    ASSUME NEW u \in BOOLEAN, NEW v \in BOOLEAN, NEW x \in Ranks, NEW y \in Ranks,
           NEW i \in Nat, NEW j \in Nat, NEW d \in BOOLEAN
    PROVE  ~(Ahead(u, v, x, y, i, j, d) /\ Ahead(v, u, y, x, j, i, d))
<1>2. CASE d BY <1>2 DEF Ahead, Ranks
<1>3. CASE ~d BY <1>3 DEF Ahead, Ranks
<1> QED BY <1>2, <1>3

LEMMA AheadIsTotal ==
    ASSUME NEW u \in BOOLEAN, NEW v \in BOOLEAN, NEW x \in Ranks, NEW y \in Ranks,
           NEW i \in Nat, NEW j \in Nat, NEW d \in BOOLEAN, i # j
    PROVE  Ahead(u, v, x, y, i, j, d) \/ Ahead(v, u, y, x, j, i, d)
<1>1. i < j \/ j < i OBVIOUS
<1>2. CASE d BY <1>1, <1>2 DEF Ahead, Ranks
<1>3. CASE ~d BY <1>1, <1>3 DEF Ahead, Ranks
<1> QED BY <1>2, <1>3

\* What a server is compared by has these types.
LEMMA KeysOfServer ==
    ASSUME NEW by, NEW s \in Servers
    PROVE  s.id \in Nat /\ Unavailable(s) \in BOOLEAN /\ Rank(by, s) \in Ranks
BY RankIsNumber, ServersAssumption DEF Unavailable

LEMMA BeforeIsStrict ==
    ASSUME NEW o, o.descending \in BOOLEAN, NEW l \in Servers, NEW r \in Servers
    PROVE  ~ (Before(o, l, r) /\ Before(o, r, l))
<1>1. Direction(o) \in BOOLEAN BY DEF Direction
<1> QED BY <1>1, KeysOfServer, BeforeIsAhead, AheadIsStrict

LEMMA BeforeChains ==
    ASSUME NEW o, o.descending \in BOOLEAN,
           NEW l \in Servers, NEW r \in Servers, NEW t \in Servers,
           Before(o, l, r), Before(o, r, t)
    PROVE  Before(o, l, t)
<1>1. Direction(o) \in BOOLEAN BY DEF Direction
<1>2. /\ Ahead(Unavailable(l), Unavailable(r), Rank(o.by, l), Rank(o.by, r), l.id, r.id,
                Direction(o))
      /\ Ahead(Unavailable(r), Unavailable(t), Rank(o.by, r), Rank(o.by, t), r.id, t.id,
                Direction(o))
    BY BeforeIsAhead
<1>3. /\ l.id \in Nat /\ Unavailable(l) \in BOOLEAN /\ Rank(o.by, l) \in Ranks
      /\ r.id \in Nat /\ Unavailable(r) \in BOOLEAN /\ Rank(o.by, r) \in Ranks
      /\ t.id \in Nat /\ Unavailable(t) \in BOOLEAN /\ Rank(o.by, t) \in Ranks
    BY KeysOfServer
<1>4. Ahead(Unavailable(l), Unavailable(t), Rank(o.by, l), Rank(o.by, t), l.id, t.id,
            Direction(o))
    <2> DEFINE u == Unavailable(l)  v == Unavailable(r)  w == Unavailable(t)
               x == Rank(o.by, l)   y == Rank(o.by, r)   z == Rank(o.by, t)
               d == Direction(o)
    <2>1. Ahead(u, v, x, y, l.id, r.id, d) /\ Ahead(v, w, y, z, r.id, t.id, d)
        BY <1>2
    <2>2. /\ l.id \in Nat /\ r.id \in Nat /\ t.id \in Nat
          /\ u \in BOOLEAN /\ v \in BOOLEAN /\ w \in BOOLEAN /\ d \in BOOLEAN
          /\ x \in Ranks /\ y \in Ranks /\ z \in Ranks
        BY <1>1, <1>3
    <2> HIDE DEF u, v, w, x, y, z, d
    <2>3. Ahead(u, w, x, z, l.id, t.id, d)
        <3>1. CASE ~(u <=> v) \/ ~(v <=> w)
            BY <3>1, <2>1, <2>2 DEF Ahead
        <3>2. CASE (u <=> v) /\ (v <=> w) /\ d
            <4>1. IF x = y THEN l.id < r.id ELSE IF x < 0 \/ y < 0 THEN y < 0 ELSE x > y
                BY <3>2, <2>1, <2>2 DEF Ahead
            <4>2. IF y = z THEN r.id < t.id ELSE IF y < 0 \/ z < 0 THEN z < 0 ELSE y > z
                BY <3>2, <2>1, <2>2 DEF Ahead
            <4>3. IF x = z THEN l.id < t.id ELSE IF x < 0 \/ z < 0 THEN z < 0 ELSE x > z
                BY <4>1, <4>2, <2>2 DEF Ranks
            <4> QED BY <3>2, <4>3, <2>2 DEF Ahead
        <3>3. CASE (u <=> v) /\ (v <=> w) /\ ~d
            <4>1. IF x = y THEN l.id < r.id ELSE IF x < 0 \/ y < 0 THEN y < 0 ELSE x < y
                BY <3>3, <2>1, <2>2 DEF Ahead
            <4>2. IF y = z THEN r.id < t.id ELSE IF y < 0 \/ z < 0 THEN z < 0 ELSE y < z
                BY <3>3, <2>1, <2>2 DEF Ahead
            <4>3. IF x = z THEN l.id < t.id ELSE IF x < 0 \/ z < 0 THEN z < 0 ELSE x < z
                BY <4>1, <4>2, <2>2 DEF Ranks
            <4> QED BY <3>3, <4>3, <2>2 DEF Ahead
        <3> QED BY <3>1, <3>2, <3>3
    <2> QED BY <2>3, Zenon DEF u, w, x, z, d
<1>5. Before(o, l, t) <=> Ahead(Unavailable(l), Unavailable(t), Rank(o.by, l), Rank(o.by, t),
                                l.id, t.id, Direction(o))
    BY BeforeIsAhead
<1> QED BY <1>4, <1>5, Zenon

\* Servers with different numbers are always one before the other.
LEMMA BeforeIsTotal ==
    ASSUME NEW o, o.descending \in BOOLEAN, NEW l \in Servers, NEW r \in Servers, l.id # r.id
    PROVE  Before(o, l, r) \/ Before(o, r, l)
<1>1. Direction(o) \in BOOLEAN BY DEF Direction
<1> QED BY <1>1, KeysOfServer, BeforeIsAhead, AheadIsTotal

\* The comparison is a strict total order of whatever list is on the page.
LEMMA ListsAreOrdered == TableTypeOK => OrderIsTotal
<1> SUFFICES ASSUME data \in Lists, sort.descending \in BOOLEAN,
                    NEW l \in data, NEW r \in data, NEW t \in data
             PROVE  /\ ~ (Before(sort, l, r) /\ Before(sort, r, l))
                    /\ l # r => Before(sort, l, r) \/ Before(sort, r, l)
                    /\ Before(sort, l, r) /\ Before(sort, r, t) => Before(sort, l, t)
    BY DEF TableTypeOK, OrderIsTotal
<1>1. l \in Servers /\ r \in Servers /\ t \in Servers
    BY ListsAssumption
<1>2. l # r => l.id # r.id
    BY ListsAssumption
<1> QED BY <1>1, <1>2, BeforeIsStrict, BeforeIsTotal, BeforeChains

-----------------------------------------------------------------------------
(* What is on the screen.                                                  *)

Values == Grades \cup Kinds \cup Protocols

LEMMA OptionsAreValues ==
    ASSUME NEW key \in FilterKeys, NEW L, L = {} \/ L \in Lists
    PROVE  Options(key, L) \subseteq Values /\ DOMAIN Counts(key, L) = Options(key, L)
<1>1. L \subseteq Servers
    BY ListsAssumption
<1>2. {s.protocol : s \in L} \subseteq Protocols
    BY <1>1, ServersAssumption
<1> QED BY <1>2 DEF Options, Counts, Values

\* A filter keeps what is offered, the others stay.
LEMMA PrunedIs ==
    ASSUME NEW f \in Filters, NEW key \in FilterKeys, NEW L
    PROVE  /\ Pruned(f, key, L) \in Filters
           /\ Pruned(f, key, L)[key] = f[key] \cap Options(key, L)
           /\ \A k \in FilterKeys \ {key} : Pruned(f, key, L)[k] = f[k]
<1>1. f[key] \cap Options(key, L) \in SUBSET Values
    BY DEF Filters, Values
<1> QED BY <1>1 DEF Pruned, Filters, Values

\* The screen of a list, and what any screen looks like.
ScreenOf(L, f, word, o) ==
    [rows |-> VisibleServers(L, f, word, o), options |-> [k \in FilterKeys |-> Counts(k, L)],
     ticked |-> f, cards |-> Cards(L)]

Shaped(sc) ==
    /\ sc = [rows |-> sc.rows, options |-> sc.options, ticked |-> sc.ticked, cards |-> sc.cards]
    /\ sc.options = [k \in FilterKeys |-> sc.options[k]]
    /\ sc.ticked = [k \in FilterKeys |-> sc.ticked[k]]
    /\ \A k \in FilterKeys : DOMAIN sc.options[k] \subseteq Values

ScreenInv ==
    /\ TableTypeOK
    /\ Shaped(screen)
    /\ data # NoData =>
           /\ screen = ScreenOf(data, filters, search, sort)
           /\ \A key \in FilterKeys : filters[key] \subseteq Options(key, data)

LEMMA ScreenOfIsShaped ==
    ASSUME NEW L \in Lists, NEW f \in Filters, NEW word, NEW o
    PROVE  Shaped(ScreenOf(L, f, word, o))
<1> DEFINE sc == ScreenOf(L, f, word, o)
<1>1. sc.options = [k \in FilterKeys |-> Counts(k, L)] /\ sc.ticked = f
    BY DEF ScreenOf
<1>2. f = [k \in FilterKeys |-> f[k]]
    BY DEF Filters, Values
<1>3. \A k \in FilterKeys : DOMAIN sc.options[k] \subseteq Values
    BY <1>1, OptionsAreValues
<1>4. sc = [rows |-> sc.rows, options |-> sc.options, ticked |-> sc.ticked, cards |-> sc.cards]
    BY DEF ScreenOf
<1> QED BY <1>1, <1>2, <1>3, <1>4 DEF Shaped

\* Rendering the options of one filter, and the rows.
LEMMA OptionsRendered ==
    ASSUME NEW sc, Shaped(sc), NEW f, NEW key \in FilterKeys, NEW L, L = {} \/ L \in Lists
    PROVE  LET new == RenderFilterOptions(sc, f, key, L)
           IN  /\ Shaped(new)
               /\ new.rows = sc.rows /\ new.cards = sc.cards
               /\ new.options = [k \in FilterKeys |-> IF k = key THEN Counts(key, L) ELSE sc.options[k]]
               /\ new.ticked = [k \in FilterKeys |-> IF k = key THEN f[key] ELSE sc.ticked[k]]
<1> DEFINE new == RenderFilterOptions(sc, f, key, L)
           os == [k \in FilterKeys |-> IF k = key THEN Counts(key, L) ELSE sc.options[k]]
           ts == [k \in FilterKeys |-> IF k = key THEN f[key] ELSE sc.ticked[k]]
<1>1. os = [sc.options EXCEPT ![key] = Counts(key, L)] /\ ts = [sc.ticked EXCEPT ![key] = f[key]]
    BY DEF Shaped
<1>2. new = [sc EXCEPT !.options = os, !.ticked = ts]
    BY <1>1 DEF RenderFilterOptions
<1>3. \A k \in FilterKeys : DOMAIN os[k] \subseteq Values
    BY OptionsAreValues DEF Shaped
<1>4. os = [k \in FilterKeys |-> os[k]] /\ ts = [k \in FilterKeys |-> ts[k]]
    OBVIOUS
<1> HIDE DEF os, ts, new
<1>5. new = [rows |-> sc.rows, options |-> os, ticked |-> ts, cards |-> sc.cards]
    BY <1>2 DEF Shaped
<1>6. new.rows = sc.rows /\ new.options = os /\ new.ticked = ts /\ new.cards = sc.cards
    BY <1>5
<1>7. Shaped(new)
    BY <1>3, <1>4, <1>5, <1>6 DEF Shaped
<1> QED BY <1>6, <1>7 DEF os, ts, new

LEMMA RowsRendered ==
    ASSUME NEW sc, Shaped(sc), NEW L, NEW f, NEW word, NEW o
    PROVE  LET new == RenderServerRows(sc, L, f, word, o)
           IN  /\ Shaped(new)
               /\ new.options = sc.options /\ new.ticked = sc.ticked /\ new.cards = sc.cards
               /\ L # NoData => new.rows = VisibleServers(L, f, word, o)
<1> DEFINE new == RenderServerRows(sc, L, f, word, o)  rows == VisibleServers(L, f, word, o)
<1>1. new = IF L = NoData THEN sc ELSE [sc EXCEPT !.rows = rows]
    BY DEF RenderServerRows
<1> HIDE DEF new, rows
<1>2. CASE L = NoData
    BY <1>1, <1>2 DEF new
<1>3. CASE L # NoData
    <2>1. new = [rows |-> rows, options |-> sc.options, ticked |-> sc.ticked, cards |-> sc.cards]
        BY <1>1, <1>3 DEF Shaped
    <2>2. /\ new.rows = rows /\ new.options = sc.options /\ new.ticked = sc.ticked
          /\ new.cards = sc.cards
        BY <2>1
    <2>3. Shaped(new)
        BY <2>1, <2>2 DEF Shaped
    <2> QED BY <2>2, <2>3 DEF new, rows
<1> QED BY <1>2, <1>3

LEMMA InitShown == TableInit => ScreenInv
<1> SUFFICES ASSUME TableInit PROVE ScreenInv
    OBVIOUS
<1>1. TableTypeOK
    BY StoredAssumption DEF TableInit, TableTypeOK, DefaultSort, Sorts
<1>2. \A k \in FilterKeys : Blank.options[k] = <<>> /\ DOMAIN Blank.options[k] = {}
    BY DEF Blank
<1>3. Shaped(Blank)
    BY <1>2 DEF Shaped, Blank
<1> QED BY <1>1, <1>3 DEF TableInit, ScreenInv

\* A choice in one filter.
LEMMA FilterIsShown ==
    ASSUME ScreenInv, NEW key \in FilterKeys, NEW values \in SUBSET Values, SetFilter(key, values),
           ticks' \in 0..MaxTicks
    PROVE  ScreenInv'
<1> DEFINE f == [filters EXCEPT ![key] = values]
           L == IF data = NoData THEN {} ELSE data
           kept == Pruned(f, key, L)
           sc == RenderFilterOptions(screen, kept, key, L)
<1>1. /\ saved' = f /\ filters' = kept /\ data' = data /\ search' = search /\ sort' = sort
      /\ screen' = RenderServerRows(sc, data, kept, search, sort)
    BY DEF SetFilter
<1>2. f \in Filters /\ filters \in Filters /\ (L = {} \/ L \in Lists)
    BY DEF ScreenInv, TableTypeOK, Filters, Values
<1>3. \A k \in FilterKeys \ {key} : f[k] = filters[k]
    BY <1>2 DEF Filters, Values
<1>4. /\ kept \in Filters /\ kept[key] \subseteq Options(key, L)
      /\ \A k \in FilterKeys \ {key} : kept[k] = filters[k]
    <2> HIDE DEF f, L
    <2> QED BY <1>2, <1>3, PrunedIs
<1> HIDE DEF f, kept, L, sc
<1>5. TableTypeOK'
    BY <1>1, <1>2, <1>4 DEF ScreenInv, TableTypeOK
<1>6. /\ Shaped(sc) /\ sc.cards = screen.cards
      /\ sc.options = [k \in FilterKeys |-> IF k = key THEN Counts(key, L) ELSE screen.options[k]]
      /\ sc.ticked = [k \in FilterKeys |-> IF k = key THEN kept[key] ELSE screen.ticked[k]]
    BY <1>2, OptionsRendered DEF ScreenInv, sc
<1>7. /\ Shaped(screen') /\ screen'.options = sc.options /\ screen'.ticked = sc.ticked
      /\ screen'.cards = sc.cards
      /\ data # NoData => screen'.rows = VisibleServers(data, kept, search, sort)
    BY <1>1, <1>6, RowsRendered
<1>8. ASSUME data # NoData
      PROVE  /\ screen' = ScreenOf(data, kept, search, sort)
             /\ \A k \in FilterKeys : kept[k] \subseteq Options(k, data)
    <2>1. L = data /\ screen = ScreenOf(data, filters, search, sort)
        BY <1>8 DEF L, ScreenInv
    <2>2. /\ screen.options = [k \in FilterKeys |-> Counts(k, data)] /\ screen.ticked = filters
          /\ screen.cards = Cards(data)
        BY <2>1 DEF ScreenOf
    <2>3. sc.options = [k \in FilterKeys |-> Counts(k, data)]
        BY <1>6, <2>1, <2>2
    <2>4. sc.ticked = kept
        BY <1>4, <1>6, <2>2 DEF Filters, Values
    <2>5. screen' = ScreenOf(data, kept, search, sort)
        BY <1>6, <1>7, <1>8, <2>2, <2>3, <2>4 DEF Shaped, ScreenOf
    <2> QED BY <1>4, <1>8, <2>1, <2>5 DEF ScreenInv
<1> QED BY <1>1, <1>5, <1>7, <1>8 DEF ScreenInv

\* A part of the screen that holds the rows alone is rendered.
LEMMA RowsAreShown ==
    ASSUME ScreenInv, NEW word, NEW o, screen' = RenderServerRows(screen, data, filters, word, o),
           search' = word, sort' = o, data' = data, filters' = filters, TableTypeOK'
    PROVE  ScreenInv'
<1>1. /\ Shaped(screen') /\ screen'.options = screen.options /\ screen'.ticked = screen.ticked
      /\ screen'.cards = screen.cards
      /\ data # NoData => screen'.rows = VisibleServers(data, filters, word, o)
    BY RowsRendered DEF ScreenInv
<1>2. ASSUME data # NoData  PROVE screen' = ScreenOf(data, filters, word, o)
    BY <1>1, <1>2 DEF ScreenInv, Shaped, ScreenOf
<1> QED BY <1>1, <1>2 DEF ScreenInv

\* A list arrives: all of the screen is rendered.
LEMMA ListIsShown ==
    ASSUME ScreenInv, NEW L \in Lists, ListArrives(L)
    PROVE  ScreenInv'
<1> DEFINE p == Pruned(filters, "protocol", L)
           q == Pruned(p, "pollution", L)
           f == Pruned(q, "grade", L)
<1>1. /\ filters' = f /\ data' = L /\ UNCHANGED <<saved, search, sort, ticks>>
      /\ screen' = ScreenOf(L, f, search, sort)
    BY DEF ListArrives, RenderOverview, ScreenOf
<1>2. FilterKeys = {"protocol", "pollution", "grade"} /\ filters \in Filters
    BY DEF FilterKeys, ScreenInv, TableTypeOK
<1>3. /\ p \in Filters /\ p["protocol"] \subseteq Options("protocol", L)
    BY <1>2, PrunedIs
<1>4. /\ q \in Filters /\ q["protocol"] = p["protocol"]
      /\ q["pollution"] \subseteq Options("pollution", L)
    BY <1>2, <1>3, PrunedIs
<1> HIDE DEF p, q
<1>5. /\ f \in Filters /\ f["protocol"] = q["protocol"] /\ f["pollution"] = q["pollution"]
      /\ f["grade"] \subseteq Options("grade", L)
    BY <1>2, <1>4, PrunedIs
<1> HIDE DEF f
<1>6. \A k \in FilterKeys : f[k] \subseteq Options(k, L)
    BY <1>2, <1>3, <1>4, <1>5
<1>7. Shaped(screen')
    BY <1>1, <1>5, ScreenOfIsShaped
<1>8. TableTypeOK'
    BY <1>1, <1>5 DEF ScreenInv, TableTypeOK
<1> QED BY <1>1, <1>6, <1>7, <1>8 DEF ScreenInv

LEMMA ScreenStep == ScreenInv /\ [TableNext]_tableVars => ScreenInv'
<1> SUFFICES ASSUME ScreenInv, [TableNext]_tableVars PROVE ScreenInv'
    OBVIOUS
<1>0. TableTypeOK /\ filters \in Filters
    BY DEF ScreenInv, TableTypeOK
<1>1. ASSUME NEW L \in Lists, ListArrives(L) PROVE ScreenInv'
    BY <1>1, ListIsShown
<1>2. ASSUME NEW key \in FilterKeys, TickAll(key) PROVE ScreenInv'
    <2>1. SetFilter(key, {}) /\ ticks' \in 0..MaxTicks
        BY <1>0, <1>2, StoredAssumption DEF TickAll, TableTypeOK
    <2> QED BY <2>1, FilterIsShown
<1>3. ASSUME NEW key \in FilterKeys, NEW v \in DOMAIN screen.options[key], Tick(key, v)
      PROVE  ScreenInv'
    <2> DEFINE values == IF v \in filters[key] THEN filters[key] \ {v} ELSE filters[key] \cup {v}
    <2>1. v \in Values
        BY DEF ScreenInv, Shaped
    <2>2. values \in SUBSET Values
        BY <1>0, <2>1 DEF Filters, Values
    <2>3. SetFilter(key, values) /\ ticks' \in 0..MaxTicks
        BY <1>0, <1>3, StoredAssumption DEF Tick, TableTypeOK
    <2> HIDE DEF values
    <2> QED BY <2>2, <2>3, FilterIsShown
<1>4. ASSUME NEW word \in Words \cup {NoSearch}, Search(word) PROVE ScreenInv'
    <2>1. TableTypeOK'
        BY <1>0, <1>4 DEF Search, TableTypeOK
    <2> QED BY <1>4, <2>1, RowsAreShown DEF Search
<1>5. ASSUME NEW by \in Sorts, SortBy(by) PROVE ScreenInv'
    <2>1. TableTypeOK'
        BY <1>0, <1>5 DEF SortBy, TableTypeOK
    <2>2. screen' = RenderServerRows(screen, data, filters, search, sort')
        BY <1>5 DEF SortBy
    <2> QED BY <1>5, <2>1, <2>2, RowsAreShown DEF SortBy
<1>6. CASE LeaveSession
    <2>1. TableTypeOK'
        BY <1>0, <1>6 DEF LeaveSession, TableTypeOK
    <2> QED BY <1>6, <2>1 DEF LeaveSession, ScreenInv
<1>7. CASE ReloadTable
    <2>1. TableTypeOK'
        BY <1>0, <1>7 DEF ReloadTable, TableTypeOK, DefaultSort, Sorts
    <2>2. \A k \in FilterKeys : Blank.options[k] = <<>> /\ DOMAIN Blank.options[k] = {}
        BY DEF Blank
    <2>3. Shaped(Blank)
        BY <2>2 DEF Shaped, Blank
    <2> QED BY <1>7, <2>1, <2>3 DEF ReloadTable, ScreenInv
<1>8. CASE UNCHANGED tableVars
    BY <1>8 DEF tableVars, ScreenInv, TableTypeOK
<1> QED BY <1>1, <1>2, <1>3, <1>4, <1>5, <1>6, <1>7, <1>8 DEF TableNext

\* Lists and filters, stored choices included, are what they should be on every path.
THEOREM TableTyped == TableSpec => []TableTypeOK
<1>1. ScreenInv => TableTypeOK
    BY DEF ScreenInv
<1> QED BY <1>1, InitShown, ScreenStep, PTL DEF TableSpec

\* What is on the screen is what the state says, though every handler renders only a part of it:
\* no filter is at work without its tick, and the rows are those of the export (app.js:1011-1028,
\* 655-657, 1688-1707).
THEOREM ScreenShowsState == TableSpec => []ScreenIsState
<1>1. ScreenInv => ScreenIsState
    <2> SUFFICES ASSUME ScreenInv, data # NoData PROVE ScreenIsState
        BY DEF ScreenIsState
    <2>1. /\ screen.ticked = filters /\ screen.rows = VisibleServers(data, filters, search, sort)
          /\ \A k \in FilterKeys : screen.options[k] = Counts(k, data)
          /\ data \in Lists
        BY DEF ScreenInv, ScreenOf, TableTypeOK
    <2>2. \A k \in FilterKeys : filters[k] \subseteq DOMAIN screen.options[k]
        BY <2>1, OptionsAreValues DEF ScreenInv
    <2> QED BY <2>1, <2>2 DEF ScreenIsState
<1> QED BY <1>1, InitShown, ScreenStep, PTL DEF TableSpec

\* A server that an option stands for is one that the option, chosen alone, leaves in the table.
LEMMA OptionIsFilter ==
    ASSUME NEW key \in FilterKeys, NEW v, NEW s
    PROVE  Passes(s, [k \in FilterKeys |-> IF k = key THEN {v} ELSE {}], NoSearch)
               <=> ValueOf(key, s) = v
BY DEF Passes, ValueOf, FilterKeys

LEMMA EveryServerHasOption ==
    ASSUME NEW L, NEW key \in FilterKeys, NEW s \in L
    PROVE  ValueOf(key, s) \in Options(key, L)
<1>1. PollutionKind(s) \in Kinds /\ GradeValue(s) \in Grades
    BY DEF PollutionKind, GradeValue, Kinds, Grades
<1> QED BY <1>1 DEF ValueOf, Options, FilterKeys

LEMMA CardsAreCounts ==
    ASSUME NEW L, NEW kind \in {"polluted", "suspicious", "unknown"}
    PROVE  Cards(L)[kind] = Counts("pollution", L)[kind]
<1>1. kind \in Options("pollution", L)
    BY DEF Options, Kinds
<1>2. \A s \in L : ValueOf("pollution", s) = PollutionKind(s)
    BY DEF ValueOf
<1>3. {s \in L : ValueOf("pollution", s) = kind} = {s \in L : PollutionKind(s) = kind}
    BY <1>2
<1>4. Counts("pollution", L)[kind] = Cardinality({s \in L : PollutionKind(s) = kind})
    BY <1>1, <1>3 DEF Counts
<1>5. CASE kind = "polluted"
    BY <1>4, <1>5 DEF Cards
<1>6. CASE kind = "suspicious"
    BY <1>4, <1>6 DEF Cards
<1>7. CASE kind = "unknown"
    BY <1>4, <1>7 DEF Cards
<1> QED BY <1>5, <1>6, <1>7

\* The number beside an option is that of the rows it would leave, and the cards say the same:
\* the three ways of app.js to the values of a server agree (app.js:991-1005, 1054-1064,
\* 1117-1122).
THEOREM CountsAreRows == TableSpec => []OptionsCountRows
<1>1. ScreenInv => OptionsCountRows
    <2> SUFFICES ASSUME ScreenInv, data # NoData PROVE OptionsCountRows
        BY DEF OptionsCountRows
    <2>1. /\ \A k \in FilterKeys : screen.options[k] = Counts(k, data)
          /\ screen.cards = Cards(data) /\ data \in Lists
        BY DEF ScreenInv, ScreenOf, TableTypeOK
    <2>2. ASSUME NEW key \in FilterKeys, NEW v \in DOMAIN screen.options[key]
          PROVE  LET only == [k \in FilterKeys |-> IF k = key THEN {v} ELSE {}]
                 IN  screen.options[key][v]
                         = Cardinality({s \in data : Passes(s, only, NoSearch)})
        <3> DEFINE only == [k \in FilterKeys |-> IF k = key THEN {v} ELSE {}]
        <3>1. {s \in data : ValueOf(key, s) = v} = {s \in data : Passes(s, only, NoSearch)}
            BY OptionIsFilter
        <3>2. screen.options[key][v] = Cardinality({s \in data : ValueOf(key, s) = v})
            BY <2>1, <2>2 DEF Counts
        <3> QED BY <3>1, <3>2
    <2>3. \A key \in FilterKeys, s \in data : ValueOf(key, s) \in DOMAIN screen.options[key]
        BY <2>1, OptionsAreValues, EveryServerHasOption
    <2>4. "pollution" \in FilterKeys
        BY DEF FilterKeys
    <2>5. \A kind \in {"polluted", "suspicious", "unknown"} :
              screen.cards[kind] = screen.options["pollution"][kind]
        BY <2>1, <2>4, CardsAreCounts
    <2> QED BY <2>2, <2>3, <2>5 DEF OptionsCountRows
<1> QED BY <1>1, InitShown, ScreenStep, PTL DEF TableSpec

\* Whatever arrives and is clicked, the table has one order: the browser's sort is given a
\* strict total order for every list, column and direction (app.js:1122-1141).
THEOREM TableIsOrdered == TableSpec => []OrderIsTotal
BY TableTyped, ListsAreOrdered, PTL

-----------------------------------------------------------------------------
(* The rows.                                                               *)

\* Who stands before a server, and who behind it.
Earlier(V, o, s) == {r \in V : Before(o, r, s)}
Later(V, o, s) == {r \in V : Before(o, s, r)}

\* Servers of one list, which the comparison puts in one order.
Ordering(V, o) ==
    /\ IsFiniteSet(V)
    /\ \A l \in V : ~Before(o, l, l)
    /\ \A l, r \in V : l # r => Before(o, l, r) \/ Before(o, r, l)
    /\ \A l, r, t \in V : Before(o, l, r) /\ Before(o, r, t) => Before(o, l, t)

LEMMA ListIsOrdering ==
    ASSUME NEW L \in Lists, NEW V, V \subseteq L, NEW o, o.descending \in BOOLEAN
    PROVE  Ordering(V, o)
<1>1. V \subseteq Servers /\ IsFiniteSet(L) /\ \A l, r \in V : l # r => l.id # r.id
    BY ListsAssumption
<1>2. IsFiniteSet(V)
    BY <1>1, FS_Subset
<1>3. \A l \in V : ~Before(o, l, l)
    BY <1>1, BeforeIsStrict
<1>4. \A l, r \in V : l # r => Before(o, l, r) \/ Before(o, r, l)
    BY <1>1, BeforeIsTotal
<1>5. \A l, r, t \in V : Before(o, l, r) /\ Before(o, r, t) => Before(o, l, t)
    BY <1>1, BeforeChains
<1> QED BY <1>2, <1>3, <1>4, <1>5 DEF Ordering

LEMMA StandingIsNumber ==
    ASSUME NEW V, NEW o, Ordering(V, o), NEW s \in V
    PROVE  /\ IsFiniteSet(Earlier(V, o, s)) /\ Cardinality(Earlier(V, o, s)) \in Nat
           /\ IsFiniteSet(Later(V, o, s)) /\ Cardinality(Later(V, o, s)) \in Nat
           /\ Cardinality(V) \in Nat
           /\ Cardinality(Earlier(V, o, s)) + 1 + Cardinality(Later(V, o, s)) = Cardinality(V)
<1> DEFINE E == Earlier(V, o, s)  D == Later(V, o, s)
<1>1. IsFiniteSet(V) /\ E \subseteq V /\ D \subseteq V /\ s \notin E /\ s \notin D
    BY DEF Ordering, Earlier, Later
<1>2. E \cup {s} \cup D = V
    BY DEF Ordering, Earlier, Later
<1>3. (E \cup {s}) \cap D = {}
    BY <1>1 DEF Ordering, Earlier, Later
<1> HIDE DEF E, D
<1>4. IsFiniteSet(E) /\ IsFiniteSet(D)
    BY <1>1, FS_Subset
<1>5. Cardinality(E) \in Nat /\ Cardinality(D) \in Nat /\ Cardinality(V) \in Nat
    BY <1>1, <1>4, FS_CardinalityType
<1>6. IsFiniteSet(E \cup {s}) /\ Cardinality(E \cup {s}) = Cardinality(E) + 1
    BY <1>1, <1>4, FS_AddElement
<1>7. Cardinality(E \cup {s} \cup D)
        = Cardinality(E \cup {s}) + Cardinality(D) - Cardinality((E \cup {s}) \cap D)
    BY <1>4, <1>6, FS_Union
<1>8. Cardinality((E \cup {s}) \cap D) = 0
    BY <1>3, FS_EmptySet
<1> QED BY <1>2, <1>4, <1>5, <1>6, <1>7, <1>8 DEF E, D

\* Who stands before another has fewer before it.
LEMMA StandingGrows ==
    ASSUME NEW V, NEW o, Ordering(V, o), NEW l \in V, NEW r \in V, Before(o, l, r)
    PROVE  Cardinality(Earlier(V, o, l)) < Cardinality(Earlier(V, o, r))
<1> DEFINE E == Earlier(V, o, l)  F == Earlier(V, o, r)
<1>1. E \cup {l} \subseteq F /\ l \notin E
    BY DEF Ordering, Earlier
<1>2. /\ IsFiniteSet(E) /\ Cardinality(E) \in Nat
      /\ IsFiniteSet(F) /\ Cardinality(F) \in Nat
    BY StandingIsNumber
<1> HIDE DEF E, F
<1>3. Cardinality(E \cup {l}) = Cardinality(E) + 1
    BY <1>1, <1>2, FS_AddElement
<1>4. Cardinality(E \cup {l}) <= Cardinality(F)
    BY <1>1, <1>2, FS_Subset
<1>5. Cardinality(E) < Cardinality(F)
    BY <1>2, <1>3, <1>4
<1> QED BY <1>5 DEF E, F

LEMMA StandingsDiffer ==
    ASSUME NEW V, NEW o, Ordering(V, o), NEW l \in V, NEW r \in V
    PROVE  /\ Before(o, l, r)
                  <=> Cardinality(Earlier(V, o, l)) < Cardinality(Earlier(V, o, r))
           /\ l # r => Cardinality(Earlier(V, o, l)) # Cardinality(Earlier(V, o, r))
<1>1. Cardinality(Earlier(V, o, l)) \in Nat /\ Cardinality(Earlier(V, o, r)) \in Nat
    BY StandingIsNumber
<1>2. Before(o, l, r) => Cardinality(Earlier(V, o, l)) < Cardinality(Earlier(V, o, r))
    BY StandingGrows
<1>3. Before(o, r, l) => Cardinality(Earlier(V, o, r)) < Cardinality(Earlier(V, o, l))
    BY StandingGrows
<1>4. l = r \/ Before(o, l, r) \/ Before(o, r, l)
    BY DEF Ordering
<1> QED BY <1>1, <1>2, <1>3, <1>4

\* Every place is somebody's: were one free, two servers would share another.
LEMMA PlacesAreTaken ==
    ASSUME NEW V, NEW o, Ordering(V, o), NEW k \in 0..(Cardinality(V) - 1)
    PROVE  \E s \in V : Cardinality(Earlier(V, o, s)) = k
<1> DEFINE n == Cardinality(V)
           T == 0..(n - 1)
           f == [s \in V |-> Cardinality(Earlier(V, o, s))]
<1> SUFFICES ASSUME \A s \in V : Cardinality(Earlier(V, o, s)) # k
             PROVE  FALSE
    OBVIOUS
<1>1. IsFiniteSet(V) /\ n \in Nat
    BY FS_CardinalityType DEF Ordering
<1>2. IsFiniteSet(T) /\ Cardinality(T) = n
    BY <1>1, FS_Interval
<1>3. IsFiniteSet(T \ {k}) /\ Cardinality(T \ {k}) = n - 1
    <2>1. k \in T
        OBVIOUS
    <2> HIDE DEF T
    <2> QED BY <1>2, <2>1, FS_RemoveElement
<1>4. ASSUME NEW s \in V
      PROVE  Cardinality(Earlier(V, o, s)) \in T \ {k}
    BY StandingIsNumber
<1>5. f \in [V -> T \ {k}]
    BY <1>4
<1>6. n - 1 < n
    BY <1>1
<1> HIDE DEF f, T, n
<1>7. Cardinality(T \ {k}) < Cardinality(V)
    BY <1>3, <1>6 DEF n
<1>8. PICK l, r \in V : l # r /\ f[l] = f[r]
    BY <1>1, <1>3, <1>5, <1>7, FS_PigeonHole
<1> QED BY <1>8, StandingsDiffer DEF f

\* What the sort leaves: every server once, at the place that the others leave it.
LEMMA SortedIs ==
    ASSUME NEW V, NEW o, Ordering(V, o)
    PROVE  /\ Len(Sorted(V, o)) = Cardinality(V) /\ Cardinality(V) \in Nat
           /\ \A i \in 1..Cardinality(V) :
                 /\ Sorted(V, o)[i] \in V
                 /\ Cardinality(Earlier(V, o, Sorted(V, o)[i])) = i - 1
<1> DEFINE n == Cardinality(V)
           before == [s \in V |-> Cardinality({r \in V : Before(o, r, s)})]
           behind == [s \in V |-> Cardinality({r \in V : Before(o, s, r)})]
           At(i, s) == before[s] < i /\ behind[s] <= n - i
           rows == [i \in 1..n |-> CHOOSE s \in V : At(i, s)]
<1>1. n \in Nat
    BY FS_CardinalityType DEF Ordering
<1>2. Sorted(V, o) = rows
    BY DEF Sorted
<1>3. ASSUME NEW i \in 1..n, NEW s \in V
      PROVE  At(i, s) <=> Cardinality(Earlier(V, o, s)) = i - 1
    <2>1. before[s] = Cardinality(Earlier(V, o, s)) /\ behind[s] = Cardinality(Later(V, o, s))
        BY DEF Earlier, Later
    <2> HIDE DEF before, behind
    <2> QED BY <1>1, <2>1, StandingIsNumber
<1>4. ASSUME NEW i \in 1..n
      PROVE  rows[i] \in V /\ Cardinality(Earlier(V, o, rows[i])) = i - 1
    <2>1. i - 1 \in 0..(n - 1)
        BY <1>1
    <2>2. \E s \in V : At(i, s)
        <3>1. PICK s \in V : Cardinality(Earlier(V, o, s)) = i - 1
            BY <2>1, PlacesAreTaken
        <3>2. At(i, s)
            BY <1>3, <3>1
        <3> HIDE DEF At
        <3> QED BY <3>1, <3>2
    <2> DEFINE s == CHOOSE s \in V : At(i, s)
    <2>3. s \in V /\ At(i, s)
        BY <2>2
    <2>4. rows[i] = s
        OBVIOUS
    <2> HIDE DEF s, rows, At
    <2> QED BY <1>3, <2>3, <2>4
<1>5. rows \in [1..n -> V]
    BY <1>4
<1> HIDE DEF rows
<1>6. Len(rows) = n
    BY <1>1, <1>5
<1> QED BY <1>1, <1>2, <1>4, <1>6

LEMMA PositionIs ==
    ASSUME NEW V, NEW o, Ordering(V, o), NEW s \in V
    PROVE  Position(Sorted(V, o), s) = Cardinality(Earlier(V, o, s)) + 1
<1> DEFINE rows == Sorted(V, o)
           n == Cardinality(V)
           k == Cardinality(Earlier(V, o, s)) + 1
<1>1. k \in 1..n
    BY StandingIsNumber
<1>2. Len(rows) = n /\ \A i \in 1..n : /\ rows[i] \in V
                                       /\ Cardinality(Earlier(V, o, rows[i])) = i - 1
    BY SortedIs
<1>3. rows[k] = s
    <2>1. /\ rows[k] \in V
          /\ Cardinality(Earlier(V, o, rows[k])) = k - 1
          /\ k - 1 = Cardinality(Earlier(V, o, s))
        BY <1>1, <1>2, StandingIsNumber
    <2> HIDE DEF rows, k
    <2> QED BY <2>1, StandingsDiffer
<1>4. \A i \in 1..n : rows[i] = s => i = k
    BY <1>2
<1> HIDE DEF rows, k, n
<1>5. \A i \in 1..n : rows[i] = s <=> i = k
    BY <1>3, <1>4
<1>6. (CHOOSE i \in 1..n : rows[i] = s) = k
    BY <1>1, <1>5
<1>7. Position(rows, s) = k
    BY <1>2, <1>6 DEF Position
<1> QED BY <1>7 DEF rows, k

TurnedRound(by, l, r) ==
    /\ Rank(by, l) # Rank(by, r)
    /\ Rank(by, l) >= 0 /\ Rank(by, r) >= 0
    /\ Unavailable(l) <=> Unavailable(r)

\* The other direction turns round who differs in the value, and nobody else.
LEMMA BeforeTurns ==
    ASSUME NEW o, NEW p, o.descending \in BOOLEAN, p.descending \in BOOLEAN,
           p.descending # o.descending, p.by = o.by,
           NEW l \in Servers, NEW r \in Servers, l.id # r.id
    PROVE  Before(p, l, r) <=> IF TurnedRound(o.by, l, r) THEN ~Before(o, l, r)
                               ELSE Before(o, l, r)
<1>1. Direction(o) \in BOOLEAN /\ (Direction(p) <=> ~Direction(o))
    BY DEF Direction
<1>2. /\ l.id \in Nat /\ Unavailable(l) \in BOOLEAN /\ Rank(o.by, l) \in Ranks
      /\ r.id \in Nat /\ Unavailable(r) \in BOOLEAN /\ Rank(o.by, r) \in Ranks
    BY KeysOfServer
<1> DEFINE u == Unavailable(l)  v == Unavailable(r)
           x == Rank(o.by, l)   y == Rank(o.by, r)
           d == Direction(o)    e == Direction(p)
<1>3. Before(o, l, r) <=> Ahead(u, v, x, y, l.id, r.id, d)
    BY <1>1, BeforeIsAhead
<1>4. Before(p, l, r) <=> Ahead(u, v, x, y, l.id, r.id, e)
    <2>1. Before(p, l, r) <=> Ahead(u, v, Rank(p.by, l), Rank(p.by, r), l.id, r.id, e)
        BY BeforeIsAhead
    <2>2. Rank(p.by, l) = x /\ Rank(p.by, r) = y
        OBVIOUS
    <2> HIDE DEF u, v, x, y, e
    <2> QED BY <2>1, <2>2
<1>5. TurnedRound(o.by, l, r) <=> x # y /\ x >= 0 /\ y >= 0 /\ (u <=> v)
    BY DEF TurnedRound
<1>6. e <=> ~d
    BY <1>1
<1>7. /\ u \in BOOLEAN /\ v \in BOOLEAN /\ x \in Ranks /\ y \in Ranks /\ d \in BOOLEAN
      /\ e \in BOOLEAN
    BY <1>1, <1>2 DEF Direction
<1> HIDE DEF u, v, x, y, d, e
<1>8. Ahead(u, v, x, y, l.id, r.id, e)
          <=> IF x # y /\ x >= 0 /\ y >= 0 /\ (u <=> v)
              THEN ~Ahead(u, v, x, y, l.id, r.id, d) ELSE Ahead(u, v, x, y, l.id, r.id, d)
    <2>1. l.id \in Nat /\ r.id \in Nat /\ l.id # r.id
        BY <1>2
    <2>2. CASE d
        BY <2>1, <2>2, <1>6, <1>7 DEF Ahead, Ranks
    <2>3. CASE ~d
        BY <2>1, <2>3, <1>6, <1>7 DEF Ahead, Ranks
    <2> QED BY <2>2, <2>3
<1> QED BY <1>3, <1>4, <1>5, <1>8

\* A second click on a column turns round the servers that differ in its value, and no others:
\* the rows without a value and the unavailable servers stay last in both directions
\* (app.js:1124-1139, 1914).
THEOREM OnlyValuesTurn == TableSpec => TurnsOnlyValues
<1>1. ASSUME ScreenInv, ScreenInv', [TableNext]_tableVars,
             sort'.by = sort.by, sort' # sort, data # NoData, data' = data,
             NEW i \in 1..Len(screen.rows), NEW j \in 1..Len(screen.rows), i < j
      PROVE  LET rows == screen.rows
             IN  Position(screen'.rows, rows[i]) < Position(screen'.rows, rows[j])
                     <=> ~TurnedRound(sort.by, rows[i], rows[j])
    <2> DEFINE V == {s \in data : Passes(s, filters, search)}
               rows == screen.rows
               l == rows[i]
               r == rows[j]
    <2>1. /\ data \in Lists /\ sort.descending \in BOOLEAN /\ sort'.descending \in BOOLEAN
          /\ sort' \in [by : Sorts, descending : BOOLEAN]
          /\ sort \in [by : Sorts, descending : BOOLEAN]
        BY <1>1 DEF ScreenInv, TableTypeOK
    <2>2. sort'.descending # sort.descending
        BY <1>1, <2>1
    <2>3. UNCHANGED <<filters, search>>
        BY <1>1
        DEF TableNext, tableVars, ListArrives, TickAll, Tick, SetFilter, Search, SortBy,
            LeaveSession, ReloadTable
    <2>4. rows = Sorted(V, sort) /\ screen'.rows = Sorted(V, sort')
        BY <1>1, <2>3 DEF ScreenInv, ScreenOf, VisibleServers
    <2>5. V \subseteq data
        OBVIOUS
    <2> HIDE DEF V
    <2>6. Ordering(V, sort) /\ Ordering(V, sort')
        BY <2>1, <2>5, ListIsOrdering
    <2>7. /\ i \in 1..Cardinality(V) /\ j \in 1..Cardinality(V) /\ Cardinality(V) \in Nat
          /\ l \in V /\ r \in V
          /\ Cardinality(Earlier(V, sort, l)) = i - 1
          /\ Cardinality(Earlier(V, sort, r)) = j - 1
        BY <2>4, <2>6, SortedIs
    <2> HIDE DEF rows, l, r
    <2>8. Before(sort, l, r)
        BY <1>1, <2>6, <2>7, StandingsDiffer
    <2>9. l \in Servers /\ r \in Servers /\ l.id # r.id
        <3>1. l # r
            BY <1>1, <2>7
        <3> QED BY <2>1, <2>5, <2>7, <3>1, ListsAssumption
    <2>10. Before(sort', l, r) <=> ~TurnedRound(sort.by, l, r)
        BY <1>1, <2>1, <2>2, <2>8, <2>9, BeforeTurns
    <2>11. /\ Position(screen'.rows, l) = Cardinality(Earlier(V, sort', l)) + 1
           /\ Position(screen'.rows, r) = Cardinality(Earlier(V, sort', r)) + 1
        BY <2>4, <2>6, <2>7, PositionIs
    <2>12. /\ Cardinality(Earlier(V, sort', l)) \in Nat
           /\ Cardinality(Earlier(V, sort', r)) \in Nat
        BY <2>6, <2>7, StandingIsNumber
    <2>13. Before(sort', l, r)
               <=> Cardinality(Earlier(V, sort', l)) < Cardinality(Earlier(V, sort', r))
        BY <2>6, <2>7, StandingsDiffer
    <2>14. Position(screen'.rows, l) < Position(screen'.rows, r) <=> ~TurnedRound(sort.by, l, r)
        BY <2>10, <2>11, <2>12, <2>13
    <2> QED BY <2>14 DEF l, r, rows
<1>2. ScreenInv /\ ScreenInv' /\ [TableNext]_tableVars =>
        (sort'.by = sort.by /\ sort' # sort /\ data # NoData /\ data' = data =>
            LET rows == screen.rows
                turned(i, j) == /\ Rank(sort.by, rows[i]) # Rank(sort.by, rows[j])
                                /\ Rank(sort.by, rows[i]) >= 0 /\ Rank(sort.by, rows[j]) >= 0
                                /\ Unavailable(rows[i]) <=> Unavailable(rows[j])
            IN  \A i, j \in 1..Len(rows) : i < j =>
                    (Position(screen'.rows, rows[i]) < Position(screen'.rows, rows[j])
                        <=> ~turned(i, j)))
    BY <1>1 DEF TurnedRound
<1> QED BY <1>2, InitShown, ScreenStep, PTL DEF TableSpec, TurnsOnlyValues

=============================================================================
