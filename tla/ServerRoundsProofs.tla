-------------------------- MODULE ServerRoundsProofs --------------------------
(***************************************************************************)
(* Theorems about ServerRounds, for any configurations, addresses, bounds  *)
(* and number of domains.  The last part is about the deadlines, which     *)
(* rest on what the loop of nextDelay computes for every failure count.    *)
(***************************************************************************)
EXTENDS ServerRounds, WellFoundedInduction, TLAPS

\* TypeOK for what the theorems are about: the rows, the round and the counts.
RoundType ==
  /\ row \in Row /\ known \in Row
  /\ conf \in Configs /\ cfg \in Configs
  /\ failures \in Nat /\ lost \in Nat /\ strays \in Nat
  /\ cancelled \in BOOLEAN
  /\ saved.failures \in Nat
  /\ round # NoRound => round \in Rounds
  /\ round.at \in {"gate", "probe"} => round.left > 0
  /\ done # NoCompletion => done.failures \in Nat

\* The row the round has checked is still the row, if a stray query went out
\* since the row was edited: only an edit could have changed that, and it
\* would have set strays back.
GateIsCurrent ==
  round.at = "gate" /\ strays > 0 => row.enabled /\ row.address = round.address

\* Whoever holds the failure count holds one that is on record.
CountOnRecord ==
  ~cancelled =>
    /\ round # NoRound => round.previous <= saved.failures + lost
    /\ done # NoCompletion => done.failures <= saved.failures + lost
    /\ ~InFlight => failures <= saved.failures + lost

RoundsInv == RoundType /\ RemovalTakesEffect /\ GateIsCurrent /\ CountOnRecord

LEMMA NoRoundPlaces == round = NoRound => round.at = "none"
BY DEF NoRound

LEMMA InitRoundsInv == Init => RoundsInv
<1> SUFFICES ASSUME Init PROVE RoundsInv
  OBVIOUS
<1>1. RoundType
  BY RoundsAssumption DEF Init, RoundType, Row, NoRound, NoCompletion
<1>2. QED
  BY <1>1
  DEF Init, RoundsInv, RemovalTakesEffect, GateIsCurrent, CountOnRecord, InFlight, NoRound

\* A step of the round leaves it a round, at the place it goes to.
LEMMA RoundMoves ==
  ASSUME NEW place \in RoundAt, RoundsInv, round # NoRound, RoundGoesTo(place)
  PROVE  /\ round' \in Rounds /\ round' # NoRound
         /\ round'.at = place
         /\ UNCHANGED <<round.address, round.left, round.previous>>
<1>1. round \in Rounds
  BY DEF RoundsInv, RoundType
<1>2. round' = [round EXCEPT !.at = place]
  BY DEF RoundGoesTo
<1>3. /\ round' \in Rounds /\ round'.at = place
      /\ UNCHANGED <<round.address, round.left, round.previous>>
  BY <1>1, <1>2 DEF Rounds
<1>4. round' # NoRound
  BY <1>3 DEF NoRound, RoundAt
<1>5. QED
  BY <1>3, <1>4

LEMMA WorkerSteps ==
  ASSUME RoundsInv, NextDomain \/ GateRefuses \/ BeginProbe
  PROVE  RoundsInv'
<1>1. round # NoRound
  BY NoRoundPlaces DEF NextDomain, GateRefuses, BeginProbe
<1>2. /\ UNCHANGED <<row, conf, saved, known, cfg, failures, lost, cancelled, done>>
  BY DEF NextDomain, GateRefuses, BeginProbe, unchangedByWorker, storeVars, loopVars,
         boundVars
<1>3. PICK place \in {"gate", "probe", "end"} :
        /\ RoundGoesTo(place)
        /\ place = "gate" => row.enabled /\ row.address = round.address /\ round.left > 0
        /\ place = "probe" => round.at = "gate"
  <2>1. CASE NextDomain
    BY <2>1 DEF NextDomain
  <2>2. CASE GateRefuses
    BY <2>2 DEF GateRefuses
  <2>3. CASE BeginProbe
    BY <2>3 DEF BeginProbe
  <2>4. QED
    BY <2>1, <2>2, <2>3
<1>4. /\ round' \in Rounds /\ round' # NoRound /\ round'.at = place
      /\ UNCHANGED <<round.address, round.left, round.previous>>
  BY <1>1, <1>3, RoundMoves DEF RoundAt
<1>5. strays' \in Nat /\ strays' <= 1
  BY DEF NextDomain, GateRefuses, BeginProbe, RoundsInv, RoundType, RemovalTakesEffect,
         GateIsCurrent
<1>6. place \in {"gate", "probe"} => round.left > 0
  BY <1>3 DEF RoundsInv, RoundType
<1>7. RoundType'
  BY <1>2, <1>4, <1>5, <1>6 DEF RoundsInv, RoundType
<1>8. GateIsCurrent'
  BY <1>2, <1>3, <1>4 DEF GateIsCurrent
<1>9. CountOnRecord'
  BY <1>1, <1>2, <1>4 DEF RoundsInv, CountOnRecord, InFlight
<1>10. QED
  BY <1>5, <1>7, <1>8, <1>9 DEF RoundsInv, RemovalTakesEffect

LEMMA ProbeSteps ==
  ASSUME RoundsInv,
         ProbeKilled \/ \E heard, breaks \in BOOLEAN : ProbeEnds(heard, breaks)
  PROVE  RoundsInv'
<1>1. round # NoRound /\ round.at = "probe"
  BY NoRoundPlaces DEF ProbeKilled, ProbeEnds
<1>2. round \in Rounds /\ round.left > 0
  BY <1>1 DEF RoundsInv, RoundType
<1>3. /\ UNCHANGED <<row, conf, saved, known, cfg, failures, lost, cancelled, done, strays>>
  BY DEF ProbeKilled, ProbeEnds, unchangedByWorker, storeVars, loopVars, boundVars
<1>4. /\ round' \in Rounds
      /\ round'.at \in {"next", "end"}
      /\ round'.previous = round.previous
  <2>1. CASE ProbeKilled
    <3>1. round' = [round EXCEPT !.at = "next", !.left = @ - 1, !.results = @ + 1]
      BY <2>1 DEF ProbeKilled
    <3>2. round.left - 1 \in Nat /\ round.results + 1 \in Nat
      BY <1>2 DEF Rounds
    <3>3. QED
      BY <1>2, <3>1, <3>2 DEF Rounds, RoundAt
  <2>2. ASSUME NEW heard \in BOOLEAN, NEW breaks \in BOOLEAN, ProbeEnds(heard, breaks)
        PROVE  /\ round' \in Rounds
               /\ round'.at \in {"next", "end"}
               /\ round'.previous = round.previous
    <3>1. PICK place \in {"next", "end"} :
            round' = [round EXCEPT
              !.at = place, !.left = @ - 1, !.results = @ + 1,
              !.heard = @ \/ heard, !.silent = @ \/ ~heard]
      BY <2>2 DEF ProbeEnds
    <3>2. /\ round.left - 1 \in Nat /\ round.results + 1 \in Nat
          /\ (round.heard \/ heard) \in BOOLEAN /\ (round.silent \/ ~heard) \in BOOLEAN
          /\ place \in RoundAt
      BY <1>2 DEF Rounds, RoundAt
    <3>3. QED
      BY <1>2, <3>1, <3>2 DEF Rounds
  <2>3. QED
    BY <2>1, <2>2
<1>5. round' # NoRound
  BY <1>4 DEF NoRound
<1>6. RoundType'
  BY <1>3, <1>4 DEF RoundsInv, RoundType
<1>7. GateIsCurrent' /\ RemovalTakesEffect'
  BY <1>3, <1>4 DEF RoundsInv, GateIsCurrent, RemovalTakesEffect
<1>8. CountOnRecord'
  BY <1>1, <1>3, <1>4, <1>5 DEF RoundsInv, CountOnRecord, InFlight
<1>9. QED
  BY <1>6, <1>7, <1>8 DEF RoundsInv

LEMMA EndRoundStep ==
  ASSUME RoundsInv, EndRound
  PROVE  RoundsInv'
<1>1. round # NoRound /\ round \in Rounds
  BY NoRoundPlaces DEF EndRound, RoundsInv, RoundType
<1>2. /\ UNCHANGED <<row, conf, known, cfg, failures, cancelled, strays>>
      /\ round' = NoRound
  BY DEF EndRound, loopVars
<1>3. done' # NoCompletion /\ done'.failures = RoundFailures
  BY DEF EndRound, NoCompletion
<1>4. /\ round.previous \in Nat /\ round.results \in Nat /\ saved.failures \in Nat
      /\ lost \in Nat
  BY <1>1 DEF Rounds, RoundsInv, RoundType
<1>5. RoundFailures \in Nat
  BY <1>4 DEF RoundFailures
<1>6. /\ saved'.failures \in Nat /\ lost' \in Nat
      /\ \/ round.results > 0 /\ lost' = lost
            /\ saved'.failures = IF round.heard THEN 0 ELSE saved.failures + 1
         \/ round.results > 0 /\ lost' = lost + 1 /\ saved'.failures = saved.failures
         \/ round.results = 0 /\ lost' = lost /\ saved'.failures = saved.failures
  BY <1>4 DEF EndRound, SaveRound
<1>7. RoundType'
  BY <1>2, <1>3, <1>5, <1>6 DEF RoundsInv, RoundType, NoRound
<1>8. ~cancelled => RoundFailures <= saved'.failures + lost'
  BY <1>1, <1>4, <1>6 DEF RoundFailures, Offline, RoundsInv, CountOnRecord
<1>9. CountOnRecord'
  BY <1>2, <1>3, <1>8 DEF CountOnRecord, InFlight
<1>10. GateIsCurrent' /\ RemovalTakesEffect'
  BY <1>2 DEF RoundsInv, GateIsCurrent, RemovalTakesEffect, NoRound
<1>11. QED
  BY <1>7, <1>9, <1>10 DEF RoundsInv

LEMMA DispatchStep ==
  ASSUME RoundsInv, Dispatch
  PROVE  RoundsInv'
<1>1. /\ UNCHANGED <<row, conf, saved, known, cfg, failures, lost, cancelled, done, strays>>
      /\ ~InFlight
      /\ round' = [at |-> "next", address |-> known.address, cfg |-> cfg,
                   previous |-> failures, left |-> DomainCount,
                   results |-> 0, heard |-> FALSE, silent |-> FALSE]
  BY DEF Dispatch, storeVars, boundVars
<1>2. round' \in Rounds /\ round'.at = "next" /\ round'.previous = failures
  BY <1>1, RoundsAssumption DEF RoundsInv, RoundType, Rounds, RoundAt, Row
<1>3. round' # NoRound
  BY <1>2 DEF NoRound
<1>4. RoundType'
  BY <1>1, <1>2 DEF RoundsInv, RoundType
<1>5. CountOnRecord'
  BY <1>1, <1>2, <1>3 DEF RoundsInv, CountOnRecord, InFlight
<1>6. GateIsCurrent' /\ RemovalTakesEffect'
  BY <1>1, <1>2 DEF RoundsInv, GateIsCurrent, RemovalTakesEffect
<1>7. QED
  BY <1>4, <1>5, <1>6 DEF RoundsInv

LEMMA RoundsInvStep ==
  ASSUME RoundsInv, [Next]_vars
  PROVE  RoundsInv'
<1> USE DEF RoundsInv, RoundType, RemovalTakesEffect, GateIsCurrent, CountOnRecord, InFlight,
            storeVars, loopVars, boundVars
<1>1. ASSUME NEW r \in Row, EditRow(r)
      PROVE  RoundsInv'
  BY <1>1 DEF EditRow
<1>2. ASSUME NEW c \in Configs, EditConfig(c)
      PROVE  RoundsInv'
  BY <1>2 DEF EditConfig
<1>3. CASE Request \/ Tick \/ UNCHANGED vars
  BY <1>3 DEF Request, Tick, vars
<1>4. CASE Cancel
  BY <1>4 DEF Cancel
<1>5. CASE Restart
  <2>1. /\ round' = NoRound /\ done' = NoCompletion /\ UNCHANGED <<row, conf, saved, lost>>
        /\ cfg' = conf /\ known' = row /\ failures' = saved.failures
        /\ cancelled' = FALSE /\ strays' = 0
    BY <1>5 DEF Restart
  <2>2. round'.at = "none"
    BY <2>1, NoRoundPlaces DEF NoRound
  <2>3. RoundType'
    BY <2>1, <2>2
  <2>4. CountOnRecord'
    BY <2>1
  <2>5. QED
    BY <2>1, <2>2, <2>3, <2>4
<1>6. CASE Refresh
  <2>1. failures' \in Nat /\ failures' <= failures
    BY <1>6 DEF Refresh
  <2>2. QED
    BY <1>6, <2>1 DEF Refresh
<1>7. CASE Dispatch
  BY <1>7, DispatchStep
<1>8. CASE OnDone
  BY <1>8 DEF OnDone
<1>9. CASE Worker
  BY <1>9, WorkerSteps, ProbeSteps, EndRoundStep DEF Worker
<1>10. QED
  BY <1>1, <1>2, <1>3, <1>4, <1>5, <1>6, <1>7, <1>8, <1>9 DEF Next

LEMMA RoundsInvariant == Spec => []RoundsInv
BY InitRoundsInv, RoundsInvStep, PTL DEF Spec

\* "Server removal/disable takes effect before each next domain": however the
\* row is edited, no more than the query already waiting for its slot goes out.
THEOREM RemovalIsPrompt == Spec => []RemovalTakesEffect
<1>1. RoundsInv => RemovalTakesEffect
  BY DEF RoundsInv
<1>2. QED
  BY RoundsInvariant, <1>1, PTL

\* Run never imposes a back-off that the database does not account for, but
\* for rounds that could not be written.
THEOREM BackoffAccounted == Spec => []BackoffOnRecord
<1>1. RoundsInv => BackoffOnRecord
  BY DEF RoundsInv, CountOnRecord, BackoffOnRecord
<1>2. QED
  BY RoundsInvariant, <1>1, PTL

-----------------------------------------------------------------------------
(* nextDelay                                                               *)

\* Every set of numbers has a least one: what the loop computes is proved by looking at the
\* first turn where it would not.
LEMMA LeastNumber ==
  ASSUME NEW T \in SUBSET Nat, T # {}
  PROVE  \E n \in T : \A m \in T : n <= m
<1> DEFINE Less == OpToRel(<, Nat)
<1>1. IsWellFoundedOn(Less, Nat)
  BY NatLessThanWellFounded
<1>2. \A m, n \in Nat : <<m, n>> \in Less <=> m < n
  BY DEF OpToRel
<1> HIDE DEF Less
<1>3. PICK n \in T : \A m \in T : ~(<<m, n>> \in Less)
  BY <1>1, WFMin
<1>4. ASSUME NEW m \in T
      PROVE  n <= m
  <2>1. m \in Nat /\ n \in Nat
    OBVIOUS
  <2>2. ~(m < n)
    BY <1>2, <1>3, <2>1
  <2>3. QED
    BY <2>1, <2>2
<1>5. QED
  BY <1>4

\* One turn of the loop, and all turns up to n.
Turn(c, n, d) == IF n <= 2 THEN c.interval ELSE Lesser(2 * d, Ceiling(c))
Loop(f, c, n) == f = [i \in 0..n |-> Turn(c, i, f[i - 1])]

LEMMA LoopRuns ==
  ASSUME NEW c \in Config, NEW n \in Nat
  PROVE  \E f : Loop(f, c, n)
<1> DEFINE T == {k \in Nat : ~ \E f : Loop(f, c, k)}
<1> SUFFICES ASSUME T # {}
             PROVE  FALSE
  OBVIOUS
<1>1. PICK k \in T : \A m \in T : k <= m
  BY LeastNumber
<1>2. CASE k = 0
  <2> DEFINE f == [i \in 0..0 |-> c.interval]
  <2>1. Loop(f, c, 0)
    BY DEF Loop, Turn
  <2> HIDE DEF f
  <2>2. QED
    BY <1>1, <1>2, <2>1
<1>3. CASE k # 0
  <2>1. k - 1 \in Nat /\ k - 1 \notin T /\ k \in Nat
    BY <1>1, <1>3
  <2>2. PICK g : Loop(g, c, k - 1)
    BY <2>1
  <2> DEFINE f == [i \in 0..k |-> IF i = k THEN Turn(c, k, g[k - 1]) ELSE g[i]]
  <2>3. ASSUME NEW i \in 0..k
        PROVE  f[i] = Turn(c, i, f[i - 1])
    <3>1. CASE i = k
      <4>1. f[i] = Turn(c, k, g[k - 1]) /\ f[k - 1] = g[k - 1]
        BY <2>1, <3>1
      <4> HIDE DEF f
      <4>2. QED
        BY <3>1, <4>1
    <3>2. CASE i # k
      <4>1. i \in 0..(k - 1) /\ (i # 0 => i - 1 \in 0..(k - 1) /\ i - 1 # k)
        BY <2>1, <3>2
      <4>2. g[i] = Turn(c, i, g[i - 1])
        BY <2>2, <4>1 DEF Loop
      <4>3. f[i] = g[i] /\ (i # 0 => f[i - 1] = g[i - 1])
        BY <2>1, <3>2, <4>1
      <4> HIDE DEF f
      <4>4. i = 0 => Turn(c, i, f[i - 1]) = Turn(c, i, g[i - 1])
        BY DEF Turn
      <4>5. QED
        BY <4>2, <4>3, <4>4
    <3>3. QED
      BY <3>1, <3>2
  <2>4. f = [i \in 0..k |-> f[i]]
    OBVIOUS
  <2> HIDE DEF f
  <2>5. Loop(f, c, k)
    BY <2>3, <2>4 DEF Loop
  <2>6. QED
    BY <1>1, <2>5
<1>4. QED
  BY <1>2, <1>3

\* Every turn leaves a delay between the interval and the ceiling.
LEMMA LoopIsBounded ==
  ASSUME NEW c \in Config, NEW n \in Nat, NEW f, Loop(f, c, n), NEW i \in 0..n
  PROVE  f[i] \in Nat /\ c.interval <= f[i] /\ f[i] <= Ceiling(c)
<1> DEFINE Fine(d) == d \in Nat /\ c.interval <= d /\ d <= Ceiling(c)
           T == {k \in 0..n : ~Fine(f[k])}
<1>1. /\ c.interval \in Nat /\ Ceiling(c) \in Nat /\ c.interval <= Ceiling(c)
      /\ c.interval >= 1
  BY DEF Config, Ceiling, Greater
<1>2. ASSUME NEW k \in 0..n
      PROVE  f[k] = Turn(c, k, f[k - 1])
  BY <1>2 DEF Loop
<1>3. ASSUME NEW k \in Nat, NEW d, k <= 2 \/ Fine(d)
      PROVE  Fine(Turn(c, k, d))
  BY <1>1, <1>3 DEF Turn, Lesser
<1> HIDE DEF Fine
<1>4. T = {}
  <2> SUFFICES ASSUME T # {}
               PROVE  FALSE
    OBVIOUS
  <2>1. T \in SUBSET Nat
    OBVIOUS
  <2>2. PICK k \in T : \A m \in T : k <= m
    BY <2>1, LeastNumber
  <2>3. k > 2 => k - 1 \in 0..n /\ k - 1 \notin T
    BY <2>1, <2>2
  <2>4. k <= 2 \/ Fine(f[k - 1])
    BY <2>1, <2>3
  <2>5. Fine(f[k])
    BY <1>2, <1>3, <2>4
  <2>6. QED
    BY <2>5
<1>5. QED
  BY <1>4 DEF Fine

\* Two runs of the loop agree as far as both go.
LEMMA LoopsAgree ==
  ASSUME NEW c \in Config, NEW n \in Nat, NEW m \in Nat, n <= m,
         NEW f, Loop(f, c, n), NEW g, Loop(g, c, m), NEW i \in 0..n
  PROVE  f[i] = g[i]
<1> DEFINE T == {k \in 0..n : f[k] # g[k]}
<1>1. ASSUME NEW k \in 0..n
      PROVE  f[k] = Turn(c, k, f[k - 1]) /\ g[k] = Turn(c, k, g[k - 1])
  <2>1. k \in 0..m
    OBVIOUS
  <2>2. QED
    BY <2>1 DEF Loop
<1>2. T = {}
  <2> SUFFICES ASSUME T # {}
               PROVE  FALSE
    OBVIOUS
  <2>1. T \in SUBSET Nat
    OBVIOUS
  <2>2. PICK k \in T : \A j \in T : k <= j
    BY <2>1, LeastNumber
  <2>3. k > 2 => k - 1 \in 0..n /\ k - 1 \notin T
    BY <2>1, <2>2
  <2>4. k > 2 => f[k - 1] = g[k - 1]
    BY <2>3
  <2>5. Turn(c, k, f[k - 1]) = Turn(c, k, g[k - 1])
    BY <2>1, <2>4 DEF Turn
  <2>6. QED
    BY <1>1, <2>5
<1>3. QED
  BY <1>2

LEMMA DoubledIs ==
  ASSUME NEW c \in Config, NEW n \in Nat
  PROVE  \E f : Loop(f, c, n) /\ Doubled(c, n) = IF c.ceiling > 0 /\ n >= 3 THEN f[n] ELSE c.interval
<1> DEFINE d == CHOOSE f : f = [i \in 0..n |-> IF i <= 2 THEN c.interval
                                               ELSE Lesser(2 * f[i - 1], Ceiling(c))]
<1>1. \E f : f = [i \in 0..n |-> IF i <= 2 THEN c.interval ELSE Lesser(2 * f[i - 1], Ceiling(c))]
  BY LoopRuns DEF Loop, Turn
<1>2. d = [i \in 0..n |-> IF i <= 2 THEN c.interval ELSE Lesser(2 * d[i - 1], Ceiling(c))]
  BY <1>1
<1>3. Doubled(c, n) = IF c.ceiling > 0 /\ n >= 3 THEN d[n] ELSE c.interval
  BY DEF Doubled
<1> HIDE DEF d
<1>4. Loop(d, c, n)
  BY <1>2 DEF Loop, Turn
<1>5. QED
  BY <1>3, <1>4

\* The back-off, for every failure count: off, or up to the second failure, the interval;
\* from then on the delay doubles with each failure up to the ceiling, and it never falls
\* under the interval (monitor.go:363-376).
THEOREM BackoffDoubles ==
  \A c \in Config : \A n \in Nat :
    /\ Doubled(c, n) \in Nat
    /\ c.interval <= Doubled(c, n) /\ Doubled(c, n) <= Ceiling(c)
    /\ Doubled(c, n + 1) = IF c.ceiling = 0 \/ n < 2 THEN c.interval
                           ELSE Lesser(2 * Doubled(c, n), Ceiling(c))
<1> SUFFICES ASSUME NEW c \in Config, NEW n \in Nat
             PROVE  /\ Doubled(c, n) \in Nat
                    /\ c.interval <= Doubled(c, n) /\ Doubled(c, n) <= Ceiling(c)
                    /\ Doubled(c, n + 1) = IF c.ceiling = 0 \/ n < 2 THEN c.interval
                                           ELSE Lesser(2 * Doubled(c, n), Ceiling(c))
  OBVIOUS
<1>1. /\ c.interval \in Nat /\ c.ceiling \in Nat /\ Ceiling(c) \in Nat
      /\ c.interval <= Ceiling(c)
  BY DEF Config, Ceiling, Greater
<1>2. PICK f : Loop(f, c, n) /\ Doubled(c, n) = IF c.ceiling > 0 /\ n >= 3 THEN f[n] ELSE c.interval
  BY DoubledIs
<1>3. n + 1 \in Nat /\ n <= n + 1 /\ n \in 0..n /\ n + 1 \in 0..(n + 1) /\ (n + 1) - 1 = n
  OBVIOUS
<1>4. PICK g : /\ Loop(g, c, n + 1)
               /\ Doubled(c, n + 1) = IF c.ceiling > 0 /\ n + 1 >= 3 THEN g[n + 1] ELSE c.interval
  BY <1>3, DoubledIs
<1>5. f[n] \in Nat /\ c.interval <= f[n] /\ f[n] <= Ceiling(c)
  BY <1>2, <1>3, LoopIsBounded
<1>6. f[n] = g[n]
  BY <1>2, <1>3, <1>4, LoopsAgree
<1>7. g[n + 1] = Turn(c, n + 1, g[n])
  BY <1>3, <1>4 DEF Loop
<1>8. n = 2 => f[n] = c.interval
  BY <1>2, <1>3 DEF Loop, Turn
<1>9. QED
  BY <1>1, <1>2, <1>3, <1>4, <1>5, <1>6, <1>7, <1>8 DEF Turn

LEMMA DelaysAreLong ==
  ASSUME NEW c \in Configs, NEW count \in Nat, NEW previous \in Nat,
         NEW delay \in Delays(c, count, previous)
  PROVE  delay \in Nat /\ delay >= MinDelay
<1> DEFINE base == Base(c, count, previous)
<1>1. Doubled(c, count) \in Nat
  BY BackoffDoubles, RoundsAssumption
<1>2. base \in Nat
  BY <1>1, RoundsAssumption DEF Base, Lesser
<1>3. delay \in Greater((9 * base) \div 10, MinDelay)..Greater(base, MinDelay)
  BY DEF Delays
<1> HIDE DEF base
<1>4. (9 * base) \div 10 \in Int
  BY <1>2
<1>5. QED
  BY <1>2, <1>3, <1>4, RoundsAssumption DEF Greater

-----------------------------------------------------------------------------
(* The deadlines                                                           *)

\* TypeOK for the rest: the clock, the deadlines and the bounds.
RestType ==
  /\ saved \in Saved /\ now \in Nat \ {0} /\ up \in BOOLEAN
  /\ nextDue \in Nat /\ manual \in BOOLEAN
  /\ done \in Completions \cup {NoCompletion}
  /\ landed \in Nat
  /\ edits \in Nat /\ manuals \in Nat /\ restarts \in Nat

\* Whoever holds the deadline, Run, the completion or the database, holds one that is far
\* enough from the end of the last round.
Distance ==
  /\ landed <= now /\ saved.finished <= now
  /\ ~InFlight /\ landed # 0 => nextDue >= landed + MinDelay
  /\ done # NoCompletion /\ landed # 0 => done.due >= landed + MinDelay
  /\ saved.finished # 0 => saved.due >= saved.finished + MinDelay

ClockInv == RestType /\ Distance

LEMMA TypesTogether == RoundType /\ RestType => TypeOK
BY DEF RoundType, RestType, TypeOK

LEMMA InitClock == Init => ClockInv
<1> SUFFICES ASSUME Init
             PROVE  ClockInv
  OBVIOUS
<1>1. RestType
  <2>1. saved \in Saved
    BY DEF Init, Saved
  <2>2. now \in Nat \ {0} /\ done = NoCompletion
    BY DEF Init
  <2>3. QED
    BY <2>1, <2>2 DEF Init, RestType
<1>2. Distance
  BY DEF Init, Distance, InFlight
<1>3. QED
  BY <1>1, <1>2 DEF ClockInv

LEMMA RefreshClock ==
  ASSUME RoundType, ClockInv, Refresh
  PROVE  ClockInv'
<1>0. /\ UNCHANGED <<saved, now, round, done, edits, manuals, restarts>>
      /\ up' = TRUE
  BY DEF Refresh, storeVars, boundVars
<1>1. RestType /\ Distance /\ failures \in Nat /\ conf \in Configs
  BY DEF ClockInv, RoundType
<1>2. CASE ~row.enabled
  <2>1. nextDue' = 0 /\ manual' = FALSE /\ landed' = 0
    BY <1>2 DEF Refresh
  <2>2. RestType'
    BY <1>0, <1>1, <2>1 DEF RestType
  <2>3. Distance'
    BY <1>0, <1>1, <2>1 DEF Distance, InFlight, RestType
  <2>4. QED
    BY <2>2, <2>3 DEF ClockInv
<1>3. CASE row.enabled
  <2>1. PICK wait \in 0..Stagger, delay \in Delays(conf, failures, failures) :
          LET deadline == IF nextDue = 0 THEN now + wait ELSE nextDue
          IN nextDue' = IF up /\ ~SameBackoff(cfg, conf)
                        THEN Lesser(deadline, now + delay) ELSE deadline
    BY <1>3 DEF Refresh
  <2>2. delay \in Nat /\ delay >= MinDelay /\ wait \in Nat
    BY <1>1, <2>1, DelaysAreLong, RoundsAssumption
  <2>3. manual' \in BOOLEAN /\ landed' = landed
    BY <1>3 DEF Refresh
  <2>4. /\ nextDue' \in Nat
        /\ nextDue' >= Lesser(IF nextDue = 0 THEN now + wait ELSE nextDue, now + delay)
    BY <1>1, <2>1, <2>2 DEF RestType, Lesser
  <2>5. RestType'
    BY <1>0, <1>1, <2>3, <2>4 DEF RestType
  <2>6. ~InFlight /\ landed # 0 => nextDue' >= landed + MinDelay
    BY <1>1, <2>2, <2>4, RoundsAssumption DEF Distance, RestType, Lesser
  <2>7. Distance'
    BY <1>0, <1>1, <2>3, <2>6 DEF Distance, InFlight
  <2>8. QED
    BY <2>5, <2>7 DEF ClockInv
<1>4. QED
  BY <1>2, <1>3

LEMMA EndClock ==
  ASSUME RoundType, ClockInv, EndRound
  PROVE  ClockInv'
<1>0. /\ UNCHANGED <<now, up, nextDue, manual, edits, manuals, restarts>>
      /\ round' = NoRound /\ landed' = now
  BY DEF EndRound, loopVars
<1>1. RestType /\ Distance
  BY DEF ClockInv
<1>2. round \in Rounds
  BY NoRoundPlaces DEF EndRound, RoundType
<1>3. RoundFailures \in Nat /\ round.previous \in Nat /\ round.cfg \in Configs
  BY <1>2 DEF Rounds, RoundFailures
<1>4. PICK delay \in Delays(round.cfg, RoundFailures, round.previous) :
        /\ done' = [sent |-> TRUE, due |-> now + delay, failures |-> RoundFailures,
                    heard |-> round.heard]
        /\ SaveRound(now + delay) \/ saved' = saved
  BY DEF EndRound
<1>5. delay \in Nat /\ delay >= MinDelay
  BY <1>3, <1>4, DelaysAreLong
<1>6. now + delay \in Nat /\ now + delay >= now + MinDelay /\ now \in Nat \ {0}
  BY <1>1, <1>5, RoundsAssumption DEF RestType
<1>7. done' \in Completions /\ done'.due = now + delay
  BY <1>2, <1>3, <1>4, <1>6 DEF Completions, Rounds
<1>8. /\ saved' \in Saved
      /\ (saved'.finished = now /\ saved'.due = now + delay) \/ saved' = saved
  <2>1. CASE SaveRound(now + delay)
    <3>1. round.heard \in BOOLEAN /\ round.silent \in BOOLEAN /\ saved.failures \in Nat
      BY <1>1, <1>2 DEF Rounds, RestType, Saved
    <3>2. QED
      BY <1>6, <2>1, <3>1 DEF SaveRound, Saved
  <2>2. CASE saved' = saved
    BY <1>1, <2>2 DEF RestType
  <2>3. QED
    BY <1>4, <2>1, <2>2
<1>9. RestType'
  BY <1>0, <1>1, <1>6, <1>7, <1>8 DEF RestType
<1>10. Distance'
  <2>1. InFlight'
    BY <1>7 DEF InFlight, Completions, NoCompletion
  <2>2. QED
    BY <1>0, <1>1, <1>6, <1>7, <1>8, <2>1 DEF Distance
<1>11. QED
  BY <1>9, <1>10 DEF ClockInv

LEMMA ClockStep ==
  ASSUME RoundType, ClockInv, [Next]_vars
  PROVE  ClockInv'
<1> USE DEF ClockInv, RestType, Distance, InFlight, storeVars, loopVars, boundVars
<1>1. ASSUME NEW r \in Row, EditRow(r)
      PROVE  ClockInv'
  BY <1>1 DEF EditRow
<1>2. ASSUME NEW c \in Configs, EditConfig(c)
      PROVE  ClockInv'
  BY <1>2 DEF EditConfig
<1>3. CASE Request
  <2>1. /\ UNCHANGED <<saved, now, up, nextDue, round, done, landed, edits, restarts>>
        /\ manuals' = manuals + 1 /\ manual' = TRUE
    BY <1>3 DEF Request
  <2>2. QED
    BY <2>1
<1>4. CASE Cancel \/ UNCHANGED vars
  <2>1. UNCHANGED <<saved, now, up, nextDue, manual, round, done, landed, edits, manuals, restarts>>
    BY <1>4 DEF Cancel, vars
  <2>2. QED
    BY <2>1
<1>5. CASE Tick
  <2>1. /\ UNCHANGED <<saved, up, nextDue, manual, round, done, landed, edits, manuals, restarts>>
        /\ now' = now + 1
    BY <1>5 DEF Tick
  <2>2. saved.finished \in Nat
    BY DEF Saved
  <2>3. landed <= now' /\ saved.finished <= now' /\ now' \in Nat \ {0}
    BY <2>1, <2>2
  <2>4. QED
    BY <2>1, <2>3
<1>6. CASE Restart
  <2>1. /\ round' = NoRound /\ done' = NoCompletion /\ UNCHANGED <<saved, now, edits, manuals>>
        /\ up' = FALSE /\ nextDue' = saved.due /\ landed' = saved.finished /\ manual' = FALSE
        /\ restarts' = restarts + 1
    BY <1>6 DEF Restart
  <2>2. saved.due \in Nat /\ saved.finished \in Nat
    BY DEF Saved
  <2>3. RestType'
    <3>1. restarts' \in Nat /\ edits' \in Nat /\ manuals' \in Nat
      BY <2>1
    <3>2. saved' \in Saved /\ now' \in Nat \ {0}
      BY <2>1
    <3>3. up' \in BOOLEAN /\ manual' \in BOOLEAN /\ done' \in Completions \cup {NoCompletion}
      BY <2>1
    <3>4. nextDue' \in Nat /\ landed' \in Nat
      BY <2>1, <2>2
    <3>5. QED
      BY <3>1, <3>2, <3>3, <3>4
  <2>4. Distance'
    BY <2>1, <2>2
  <2>5. QED
    BY <2>3, <2>4
<1>7. CASE Refresh
  BY <1>7, RefreshClock
<1>8. CASE Dispatch
  <2>1. /\ UNCHANGED <<saved, now, up, nextDue, done, landed, edits, manuals, restarts>>
        /\ manual' = FALSE
    BY <1>8 DEF Dispatch
  <2>2. round' # NoRound
    <3>1. round'.at = "next"
      BY <1>8 DEF Dispatch
    <3>2. QED
      BY <3>1 DEF NoRound
  <2>3. QED
    BY <2>1, <2>2
<1>9. CASE OnDone
  <2>1. /\ UNCHANGED <<saved, now, up, manual, round, landed, edits, manuals, restarts>>
        /\ done # NoCompletion /\ done' = NoCompletion /\ nextDue' = done.due
    BY <1>9 DEF OnDone
  <2>2. done.due \in Nat
    BY <2>1 DEF Completions
  <2>3. QED
    BY <2>1, <2>2
<1>10. CASE Worker
  <2>1. CASE EndRound
    BY <2>1, EndClock
  <2>2. CASE ~EndRound
    <3>1. /\ UNCHANGED <<saved, now, up, nextDue, manual, done, landed, edits, manuals, restarts>>
          /\ round # NoRound
      BY <1>10, <2>2, NoRoundPlaces
      DEF Worker, NextDomain, GateRefuses, BeginProbe, ProbeKilled, ProbeEnds, unchangedByWorker
    <3>2. round' # NoRound
      <4>1. round \in Rounds
        BY <3>1 DEF RoundType
      <4>2. \E place \in {"gate", "probe", "next", "end"} : round'.at = place
        BY <1>10, <2>2, <4>1
        DEF Worker, NextDomain, GateRefuses, BeginProbe, ProbeKilled, ProbeEnds, RoundGoesTo, Rounds
      <4>3. QED
        BY <4>2 DEF NoRound
    <3>3. QED
      BY <3>1, <3>2
  <2>3. QED
    BY <2>1, <2>2
<1>11. QED
  BY <1>1, <1>2, <1>3, <1>4, <1>5, <1>6, <1>7, <1>8, <1>9, <1>10 DEF Next

LEMMA ClockInvariant == Spec => [](RoundsInv /\ ClockInv)
<1>1. RoundsInv => RoundType
  BY DEF RoundsInv
<1>2. QED
  BY <1>1, InitRoundsInv, RoundsInvStep, InitClock, ClockStep, PTL DEF Spec

\* Every variable has its type, the deadlines that nextDelay sets among them.
THEOREM RoundsTyped == Spec => []TypeOK
<1>1. RoundsInv /\ ClockInv => TypeOK
  BY TypesTogether DEF RoundsInv, ClockInv
<1>2. QED
  BY <1>1, ClockInvariant, PTL

\* A round that nobody asked for never begins sooner than the shortest delay after the last
\* one ended, through every edit, restart, lost write and change of the back-off.
THEOREM DistanceIsKept == Spec => RoundsKeepDistance
<1>1. ASSUME RoundsInv, ClockInv, [Next]_vars, round = NoRound, round' # NoRound
      PROVE  manual \/ landed = 0 \/ now >= landed + MinDelay
  <2>1. Dispatch
    <3>1. round.at = "none"
      BY <1>1, NoRoundPlaces
    <3>2. ~Worker
      BY <3>1
      DEF Worker, NextDomain, GateRefuses, BeginProbe, ProbeKilled, ProbeEnds, EndRound
    <3>3. round' # round
      BY <1>1
    <3>4. QED
      BY <1>1, <3>2, <3>3
      DEF Next, EditRow, EditConfig, Request, Tick, Cancel, Restart, Refresh, OnDone, vars
  <2>2. ~InFlight /\ (manual \/ nextDue <= now)
    BY <2>1 DEF Dispatch
  <2>3. QED
    BY <1>1, <2>2, RoundsAssumption DEF ClockInv, Distance, RestType
<1>2. RoundsInv /\ ClockInv /\ [Next]_vars =>
        (round = NoRound /\ round' # NoRound => manual \/ landed = 0 \/ now >= landed + MinDelay)
  BY <1>1
<1>3. QED
  BY <1>2, ClockInvariant, PTL DEF Spec, RoundsKeepDistance

=============================================================================
