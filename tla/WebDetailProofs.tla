-------------------------- MODULE WebDetailProofs --------------------------
(* The detail dialog: the records on show are one run of its server, the   *)
(* history is of its range, and a wait for a probe is never forgotten.     *)
EXTENDS WebDetail, SequenceTheorems, TLAPS

USE ServersAssumption, SizesAssumption

Times == [set: BOOLEAN, lost: Nat]
Rows == Seq([id: Servers, n: Nat \ {0}])

\* What is read.  A request for older records continues what is on show.
LoadContinues ==
    load # None /\ ~load.reset
        => load.before > 0 /\ (load.id = dialog.id /\ rows # <<>> => load.before = Last(rows).n)

ReadInv ==
    /\ dialog = [open |-> dialog.open, id |-> dialog.id, range |-> dialog.range]
    /\ rows \in Rows
    /\ hist # None => hist = [id |-> hist.id, range |-> hist.range]
    /\ load \in [id: Servers, reset: BOOLEAN, before: Nat] \cup {None}
    /\ probes \in [Servers -> Nat]
    /\ LoadContinues
    /\ RowsAreOneRun
    /\ StripIsOfChoice

\* What is waited for.  Numbers are not bounded here.
WaitInv ==
    /\ dialog.open \/ wait # NoWait => dialog.id \in Servers
    /\ wait = NoWait \/ wait.key > 0
    /\ wait = [key |-> wait.key, id |-> wait.id, baseline |-> wait.baseline,
               failures |-> wait.failures]
    /\ wait.key \in Nat
    /\ timers \in Times
    /\ fetch = [phase |-> fetch.phase, key |-> fetch.key] /\ fetch.key \in Nat
    /\ clicks \in Nat
    /\ WaitIsFollowed

DetailInv == ReadInv /\ WaitInv

LEMMA InitHolds == Init => DetailInv
<1> SUFFICES ASSUME Init PROVE DetailInv
    OBVIOUS
<1>1. rows = <<>> /\ strip = None /\ hist = None /\ load = None /\ wait = NoWait
      /\ dialog = [open |-> dialog.open, id |-> dialog.id, range |-> dialog.range]
      /\ ~dialog.open
    BY DEF Init
<1>2. probes \in [Servers -> Nat] /\ timers \in Times /\ fetch = NoFetch /\ clicks \in Nat
      /\ end = FALSE
    BY DEF Init, Times
<1>3. ReadInv
    BY <1>1, <1>2 DEF ReadInv, LoadContinues, RowsAreOneRun, StripIsOfChoice, Rows
<1>4. WaitInv
    BY <1>1, <1>2 DEF WaitInv, WaitIsFollowed, NoWait, NoFetch
<1> QED BY <1>3, <1>4 DEF DetailInv

-----------------------------------------------------------------------------
(* Pages.                                                                  *)

\* A page is a run that begins below the record it was asked for, and a short one ends with 1.
LEMMA PageIsRun ==
    ASSUME NEW id \in Servers, NEW before \in Nat, NEW newest \in Nat
    PROVE  LET p == Page(id, before, newest)
           IN  /\ p \in Rows
               /\ \A i \in 1..Len(p) : p[i].id = id /\ (i > 1 => p[i].n = p[i - 1].n - 1)
               /\ before > 0 /\ Len(p) > 0 => p[1].n = before - 1
               /\ Len(p) < PageSize /\ Len(p) > 0 => p[Len(p)].n = 1
               /\ Len(p) < PageSize /\ Len(p) = 0 /\ before > 0 => before = 1
<1> DEFINE top == IF before = 0 THEN newest ELSE before - 1
           m == Least(PageSize, top)
           p == Page(id, before, newest)
<1>1. top \in Nat /\ m \in Nat /\ m =< top /\ (m < PageSize => m = top)
    BY DEF Least
<1>2. p = [i \in 1..m |-> [id |-> id, n |-> top - i + 1]]
    BY DEF Page
<1> HIDE DEF p, m, top
<1>3. \A i \in 1..m : p[i] = [id |-> id, n |-> top - i + 1] /\ top - i + 1 \in Nat \ {0}
    BY <1>1, <1>2
<1>4. p \in Rows /\ Len(p) = m
    BY <1>1, <1>2, <1>3 DEF Rows
<1>5. ASSUME NEW i \in 1..m PROVE p[i].id = id /\ p[i].n = top - i + 1
    <2>1. p[i] = [id |-> id, n |-> top - i + 1]
        BY <1>3
    <2> QED BY <2>1
<1>6. \A i \in 1..m : i > 1 => p[i].n = p[i - 1].n - 1
    BY <1>1, <1>5
<1>7. before > 0 => top = before - 1
    BY DEF top
<1>8. m > 0 => p[1].n = top /\ p[m].n = top - m + 1
    BY <1>1, <1>5
<1>9. /\ p \in Rows
      /\ \A i \in 1..Len(p) : p[i].id = id /\ (i > 1 => p[i].n = p[i - 1].n - 1)
    BY <1>4, <1>5, <1>6
<1>10. before > 0 /\ Len(p) > 0 => p[1].n = before - 1
    BY <1>4, <1>7, <1>8
<1>11. Len(p) < PageSize /\ Len(p) > 0 => p[Len(p)].n = 1
    <2> SUFFICES ASSUME m < PageSize, m > 0 PROVE p[Len(p)].n = 1
        BY <1>4
    <2>1. m = top /\ p[m].n = top - m + 1
        BY <1>1, <1>8
    <2> QED BY <1>1, <1>4, <2>1
<1>12. Len(p) < PageSize /\ Len(p) = 0 /\ before > 0 => before = 1
    BY <1>1, <1>4, <1>7
<1> QED BY <1>9, <1>10, <1>11, <1>12, Zenon DEF p

-----------------------------------------------------------------------------
(* Waiting.                                                                *)

\* What the end of a poll does to the requests and the wait.
Reading ==
    \/ UNCHANGED <<hist, strip, load>>
    \/ dialog.id \in Servers /\ LoadBoth(dialog, rows)

WaitShape ==
    /\ wait = NoWait \/ wait.key > 0
    /\ wait = [key |-> wait.key, id |-> wait.id, baseline |-> wait.baseline,
               failures |-> wait.failures]
    /\ wait.key \in Nat

LEMMA TimerIsSet ==
    ASSUME NEW t \in Times
    PROVE  SetTimer(t) \in Times /\ SetTimer(t).set
BY DEF Times, SetTimer

LEMMA WaitStays == ASSUME WaitShape, wait' = wait PROVE WaitShape'
BY DEF WaitShape

LEMMA WaitGoes == ASSUME wait' = NoWait PROVE WaitShape'
BY DEF WaitShape, NoWait

LEMMA PollEnds ==
    ASSUME WaitInv, NEW key, NEW reply, NEW d, NEW t \in Times, AfterPoll(key, reply, d, t)
    PROVE  /\ Reading /\ WaitShape' /\ timers' \in Times
           /\ wait' # NoWait => wait # NoWait
           /\ \/ wait' = NoWait
              \/ timers'.set
              \/ wait' = wait /\ timers' = t /\ wait.key # key
<1>0. WaitShape
    BY DEF WaitInv, WaitShape
<1>1. CASE key = 0 \/ wait.key # key
    <2>1. timers' = t /\ wait' = wait /\ UNCHANGED <<hist, strip, load>>
        BY <1>1 DEF AfterPoll
    <2>3. Reading
        BY <2>1 DEF Reading
    <2>2. wait = NoWait \/ wait.key # key
        BY <1>0, <1>1 DEF WaitShape
    <2> QED BY <1>0, <2>1, <2>2, <2>3, WaitStays
<1>2. CASE ~(key = 0 \/ wait.key # key)
    <2>1. wait # NoWait
        BY <1>2 DEF NoWait
    <2>2. dialog.id \in Servers
        BY <2>1 DEF WaitInv
    <2>3. \/ wait' = NoWait /\ LoadBoth(dialog, rows) /\ timers' = t
          \/ wait' = NoWait /\ UNCHANGED <<hist, strip, load>> /\ timers' = t
          \/ \E f : wait' = [wait EXCEPT !.failures = f] /\ timers' = SetTimer(t)
                    /\ UNCHANGED <<hist, strip, load>>
        BY <1>2 DEF AfterPoll, Stop
    <2>4. Reading
        BY <2>2, <2>3 DEF Reading
    <2>5. CASE wait' = NoWait /\ timers' = t
        BY <2>1, <2>4, <2>5, WaitGoes
    <2>6. ASSUME NEW f, wait' = [wait EXCEPT !.failures = f], timers' = SetTimer(t)
          PROVE  WaitShape' /\ timers' \in Times /\ timers'.set
        <3>1. wait' = [key |-> wait.key, id |-> wait.id, baseline |-> wait.baseline,
                       failures |-> f]
            BY <1>0, <2>6 DEF WaitShape
        <3>2. wait.key > 0
            BY <1>0, <2>1 DEF WaitShape
        <3>3. WaitShape'
            BY <1>0, <3>1, <3>2 DEF WaitShape
        <3> QED BY <2>6, <3>3, TimerIsSet
    <2> QED BY <2>1, <2>3, <2>4, <2>5, <2>6
<1> QED BY <1>1, <1>2

\* A poll leaves a wait to a timer or to a refresh of its own.
LEMMA PollGoesOn ==
    ASSUME WaitInv, NEW t \in Times, PollDetailProbe(t)
    PROVE  /\ Reading /\ WaitShape' /\ timers' \in Times
           /\ wait' # NoWait => wait # NoWait
           /\ fetch' = [phase |-> fetch'.phase, key |-> fetch'.key] /\ fetch'.key \in Nat
           /\ wait' = NoWait \/ timers'.set \/ fetch'.key = wait'.key
<1>0. WaitShape
    BY DEF WaitInv, WaitShape
<1>f. fetch = [phase |-> fetch.phase, key |-> fetch.key] /\ fetch.key \in Nat
    BY DEF WaitInv
<1>1. CASE wait = NoWait
    <2>1. timers' = t /\ UNCHANGED <<wait, fetch, hist, strip, load>>
        BY <1>1 DEF PollDetailProbe
    <2>2. Reading
        BY <2>1 DEF Reading
    <2> QED BY <1>1, <1>0, <1>f, <2>1, <2>2, WaitStays
<1>2. CASE wait # NoWait /\ (~dialog.open \/ wait.id # dialog.id)
    <2>1. wait' = NoWait /\ UNCHANGED <<hist, strip, load>> /\ timers' = t /\ fetch' = fetch
        BY <1>2 DEF PollDetailProbe, Stop
    <2>2. Reading
        BY <2>1 DEF Reading
    <2> QED BY <1>f, <2>1, <2>2, WaitGoes
<1>3. CASE wait # NoWait /\ ~(~dialog.open \/ wait.id # dialog.id) /\ fetch # NoFetch
    <2>1. fetch' = fetch /\ \E reply \in {"none", "halted"} : AfterPoll(wait.key, reply, known, t)
        BY <1>3 DEF PollDetailProbe
    <2>2. Reading /\ WaitShape' /\ timers' \in Times /\ (wait' # NoWait => wait # NoWait)
          /\ (wait' = NoWait \/ timers'.set)
        BY <2>1, PollEnds
    <2> QED BY <1>f, <2>1, <2>2
<1>4. CASE wait # NoWait /\ ~(~dialog.open \/ wait.id # dialog.id) /\ fetch = NoFetch
    <2>1. fetch' = [NoFetch EXCEPT !.phase = "asked", !.key = wait.key]
          /\ timers' = t /\ UNCHANGED <<wait, hist, strip, load>>
        BY <1>4 DEF PollDetailProbe
    <2>2. fetch' = [phase |-> "asked", key |-> wait.key] /\ wait.key \in Nat
        BY <1>0, <2>1 DEF NoFetch, WaitShape
    <2>3. Reading
        BY <2>1 DEF Reading
    <2>4. WaitShape'
        BY <1>0, <2>1, WaitStays
    <2> QED BY <2>1, <2>2, <2>3, <2>4
<1> QED BY <1>1, <1>2, <1>3, <1>4

-----------------------------------------------------------------------------
(* Reading.                                                                *)

\* A request for the newest records, for a dialog d of a server.
LEMMA NewestAsked ==
    ASSUME ReadInv, NEW d, NEW shown, d.id \in Servers, LoadBoth(d, shown)
    PROVE  /\ strip' = None
           /\ hist' # None => hist' = [id |-> hist'.id, range |-> hist'.range]
           /\ load' \in [id: Servers, reset: BOOLEAN, before: Nat] \cup {None}
           /\ load' = load \/ (load' # None /\ load'.reset)
<1>1. strip' = None /\ hist' = [id |-> d.id, range |-> d.range]
    BY DEF LoadBoth, LoadHistory
<1>2. load' = load \/ load' = [id |-> d.id, reset |-> TRUE, before |-> 0]
    BY DEF LoadBoth, LoadResults
<1>3. CASE load' = load
    BY <1>1, <1>3 DEF ReadInv
<1>4. CASE load' = [id |-> d.id, reset |-> TRUE, before |-> 0]
    <2>1. load' \in [id: Servers, reset: BOOLEAN, before: Nat]
        BY <1>4
    <2>2. load'.id # NoServer /\ load'.reset
        BY <1>4
    <2>3. load' # None
        BY <2>2 DEF None
    <2> QED BY <1>1, <2>1, <2>2, <2>3
<1> QED BY <1>2, <1>3, <1>4

LEMMA ReadingKeeps ==
    ASSUME ReadInv, Reading, UNCHANGED <<dialog, rows, end>>, probes' \in [Servers -> Nat]
    PROVE  ReadInv'
<1>1. CASE UNCHANGED <<hist, strip, load>>
    BY <1>1 DEF ReadInv, LoadContinues, RowsAreOneRun, StripIsOfChoice
<1>2. CASE dialog.id \in Servers /\ LoadBoth(dialog, rows)
    <2>1. /\ strip' = None
          /\ hist' # None => hist' = [id |-> hist'.id, range |-> hist'.range]
          /\ load' \in [id: Servers, reset: BOOLEAN, before: Nat] \cup {None}
          /\ load' = load \/ (load' # None /\ load'.reset)
        BY <1>2, NewestAsked
    <2>2. LoadContinues'
        BY <2>1 DEF ReadInv, LoadContinues
    <2>3. RowsAreOneRun' /\ StripIsOfChoice'
        BY <2>1 DEF ReadInv, RowsAreOneRun, StripIsOfChoice
    <2> QED BY <2>1, <2>2, <2>3 DEF ReadInv
<1> QED BY <1>1, <1>2 DEF Reading

\* The dialog and what it reads.
LEMMA DialogKeeps ==
    ASSUME ReadInv,
           \/ Close \/ SessionEnds
           \/ \E s \in Servers, r \in Ranges : OpenDetail(s, r)
           \/ \E r \in Ranges : DetailRange(r)
           \/ HistoryAnswered
    PROVE  ReadInv'
<1>1. CASE Close \/ SessionEnds
    <2>1. dialog' = [dialog EXCEPT !.open = FALSE]
          /\ UNCHANGED <<rows, end, strip, hist, load, probes>>
        BY <1>1 DEF Close, SessionEnds, view
    <2>2. dialog' = [open |-> FALSE, id |-> dialog.id, range |-> dialog.range]
        BY <2>1 DEF ReadInv
    <2>3. dialog'.id = dialog.id /\ dialog'.range = dialog.range
          /\ dialog' = [open |-> dialog'.open, id |-> dialog'.id, range |-> dialog'.range]
        BY <2>2
    <2> QED BY <2>1, <2>3 DEF ReadInv, LoadContinues, RowsAreOneRun, StripIsOfChoice
<1>2. ASSUME NEW s \in Servers, NEW r \in Ranges, OpenDetail(s, r) PROVE ReadInv'
    <2>1. dialog' = [open |-> TRUE, id |-> s, range |-> r] /\ rows' = <<>> /\ end' = FALSE
          /\ LoadBoth(dialog', <<>>) /\ probes' = probes
        BY <1>2 DEF OpenDetail
    <2>2. dialog'.id \in Servers
          /\ dialog' = [open |-> dialog'.open, id |-> dialog'.id, range |-> dialog'.range]
        BY <2>1
    <2>3. /\ strip' = None
          /\ hist' # None => hist' = [id |-> hist'.id, range |-> hist'.range]
          /\ load' \in [id: Servers, reset: BOOLEAN, before: Nat] \cup {None}
          /\ load' = load \/ (load' # None /\ load'.reset)
        BY <2>1, <2>2, NewestAsked
    <2>4. rows' \in Rows /\ RowsAreOneRun' /\ StripIsOfChoice'
        BY <2>1, <2>3 DEF Rows, RowsAreOneRun, StripIsOfChoice
    <2>5. LoadContinues'
        BY <2>1, <2>3 DEF ReadInv, LoadContinues
    <2> QED BY <2>1, <2>2, <2>3, <2>4, <2>5 DEF ReadInv
<1>3. ASSUME NEW r \in Ranges, DetailRange(r) PROVE ReadInv'
    <2>1. dialog' = [dialog EXCEPT !.range = r] /\ strip' = None
          /\ hist' = [id |-> dialog'.id, range |-> dialog'.range]
          /\ UNCHANGED <<rows, end, load, probes>>
        BY <1>3 DEF DetailRange, LoadHistory
    <2>2. dialog' = [open |-> dialog.open, id |-> dialog.id, range |-> r]
        BY <2>1 DEF ReadInv
    <2>3. dialog'.id = dialog.id
          /\ dialog' = [open |-> dialog'.open, id |-> dialog'.id, range |-> dialog'.range]
          /\ hist' = [id |-> hist'.id, range |-> hist'.range]
        BY <2>1, <2>2
    <2> QED BY <2>1, <2>3 DEF ReadInv, LoadContinues, RowsAreOneRun, StripIsOfChoice
<1>4. CASE HistoryAnswered
    <2>1. hist # None /\ hist' = None
          /\ strip' \in {strip} \cup {h \in {hist} : h.id = dialog.id /\ h.range = dialog.range}
          /\ UNCHANGED <<dialog, rows, end, load, probes>>
        BY <1>4 DEF HistoryAnswered
    <2>2. strip' = strip \/ strip' = [id |-> dialog.id, range |-> dialog.range]
        BY <2>1 DEF ReadInv
    <2>3. StripIsOfChoice'
        BY <2>1, <2>2 DEF ReadInv, StripIsOfChoice
    <2> QED BY <2>1, <2>3 DEF ReadInv, LoadContinues, RowsAreOneRun
<1> QED BY <1>1, <1>2, <1>3, <1>4

LEMMA LastIsRecord ==
    ASSUME NEW r \in Rows, r # <<>>
    PROVE  Len(r) \in Nat \ {0} /\ Last(r) = r[Len(r)] /\ Last(r) \in [id: Servers, n: Nat \ {0}]
           /\ Last(r).n \in Nat /\ Last(r).n > 0
<1> DEFINE R == [id: Servers, n: Nat \ {0}]
<1>0. r \in Seq(R)
    BY DEF Rows
<1> HIDE DEF R
<1>2. Len(r) \in Nat /\ Len(r) # 0
    BY <1>0, EmptySeq
<1>3. r[Len(r)] \in R
    BY <1>0, <1>2, ElementOfSeq
<1>1. Len(r) \in Nat \ {0} /\ r[Len(r)] \in [id: Servers, n: Nat \ {0}]
    BY <1>2, <1>3 DEF R
<1> QED BY <1>1 DEF Last

\* The request for older records begins below the last one on show.
LEMMA MoreKeeps == ASSUME ReadInv, WaitInv, More PROVE ReadInv'
<1>1. dialog.open /\ load = None /\ rows # <<>> /\ dialog.id \in Servers
    BY DEF More, WaitInv
<1>2. load.id = NoServer /\ dialog.id # NoServer
    BY <1>1 DEF None
<1>3. load' = [id |-> dialog.id, reset |-> FALSE, before |-> Last(rows).n]
      /\ UNCHANGED <<dialog, rows, end, strip, hist, probes>>
    BY <1>1, <1>2 DEF More, LoadResults, view
<1>4. Last(rows).n \in Nat /\ Last(rows).n > 0
    BY <1>1, LastIsRecord DEF ReadInv
<1>5. load' \in [id: Servers, reset: BOOLEAN, before: Nat]
    BY <1>1, <1>3, <1>4
<1>6. LoadContinues'
    BY <1>3, <1>4 DEF LoadContinues
<1> QED BY <1>3, <1>5, <1>6 DEF ReadInv, RowsAreOneRun, StripIsOfChoice

\* A run followed by the run that begins below it is a run.
Run(r, id) == \A i \in 1..Len(r) : r[i].id = id /\ (i > 1 => r[i].n = r[i - 1].n - 1)

LEMMA RunsJoin ==
    ASSUME NEW id, NEW r \in Rows, NEW p \in Rows, Run(r, id), Run(p, id),
           r # <<>> /\ Len(p) > 0 => p[1].n = Last(r).n - 1
    PROVE  /\ r \o p \in Rows /\ Run(r \o p, id)
           /\ Len(p) > 0 => Last(r \o p) = Last(p)
           /\ Len(p) = 0 => r \o p = r
<1> DEFINE q == r \o p
<1>1. /\ q \in Rows /\ Len(q) = Len(r) + Len(p)
      /\ \A i \in 1..Len(r) : q[i] = r[i]
      /\ \A i \in 1..Len(p) : q[Len(r) + i] = p[i]
    BY DEF Rows
<1>2. Len(r) \in Nat /\ Len(p) \in Nat
    BY DEF Rows
<1> HIDE DEF q
<1>3. ASSUME NEW i \in 1..Len(q)
      PROVE  q[i].id = id /\ (i > 1 => q[i].n = q[i - 1].n - 1)
    <2>1. CASE i =< Len(r)
        <3>1. q[i] = r[i] /\ (i > 1 => q[i - 1] = r[i - 1])
            BY <1>1, <1>2, <2>1
        <3>2. r[i].id = id /\ (i > 1 => r[i].n = r[i - 1].n - 1)
            BY <1>2, <2>1 DEF Run
        <3> QED BY <3>1, <3>2
    <2>2. CASE i = Len(r) + 1
        <3>1. Len(p) > 0 /\ q[i] = p[1] /\ p[1].id = id
            BY <1>1, <1>2, <2>2 DEF Run
        <3>2. ASSUME i > 1 PROVE p[1].n = r[Len(r)].n - 1 /\ q[i - 1] = r[Len(r)]
            <4>1. r # <<>>
                BY <1>2, <2>2, <3>2
            <4>2. Last(r) = r[Len(r)] /\ Len(r) \in Nat \ {0}
                BY <4>1, LastIsRecord
            <4>3. p[1].n = r[Len(r)].n - 1
                BY <3>1, <4>1, <4>2
            <4>4. i - 1 = Len(r) /\ Len(r) \in 1..Len(r)
                BY <2>2, <4>2
            <4> QED BY <1>1, <4>3, <4>4
        <3> QED BY <3>1, <3>2
    <2>3. CASE i > Len(r) + 1
        <3> DEFINE j == i - Len(r)
        <3>1. j \in 1..Len(p) /\ j > 1 /\ j - 1 \in 1..Len(p)
            BY <1>1, <1>2, <2>3
        <3>2. q[i] = p[j] /\ q[i - 1] = p[j - 1]
            <4>1. i = Len(r) + j /\ i - 1 = Len(r) + (j - 1)
                BY <1>2
            <4> HIDE DEF j
            <4> QED BY <1>1, <3>1, <4>1
        <3> HIDE DEF j
        <3>3. p[j].id = id /\ p[j].n = p[j - 1].n - 1
            BY <3>1 DEF Run
        <3> QED BY <3>2, <3>3
    <2> QED BY <1>1, <1>2, <2>1, <2>2, <2>3
<1>4. ASSUME Len(p) > 0 PROVE Last(q) = Last(p)
    BY <1>1, <1>2, <1>4 DEF Last
<1>5. ASSUME Len(p) = 0 PROVE q = r
    BY <1>5 DEF q, Rows
<1>6. Run(q, id)
    BY <1>3 DEF Run
<1> QED BY <1>1, <1>4, <1>5, <1>6 DEF q

\* The answer with records: a first page, or the continuation of what is on show.
LEMMA ResultsKeep == ASSUME ReadInv, ResultsAnswered PROVE ReadInv'
<1>1. load # None /\ load' = None /\ UNCHANGED <<dialog, strip, hist, probes>>
    BY DEF ResultsAnswered
<1>2. load \in [id: Servers, reset: BOOLEAN, before: Nat]
    BY <1>1 DEF ReadInv
<1>3. CASE UNCHANGED <<rows, end>>
    BY <1>1, <1>3 DEF ReadInv, LoadContinues, RowsAreOneRun, StripIsOfChoice
<1>4. CASE ~UNCHANGED <<rows, end>>
    <2> DEFINE p == Page(load.id, load.before, probes[load.id])
    <2>1. /\ load.id = dialog.id
          /\ rows' = IF load.reset THEN p ELSE rows \o p
          /\ end' = (Len(p) < PageSize)
        BY <1>4 DEF ResultsAnswered
    <2>2. load.id \in Servers /\ load.before \in Nat /\ probes[load.id] \in Nat
        BY <1>2 DEF ReadInv
    <2>3. /\ p \in Rows
          /\ \A i \in 1..Len(p) : p[i].id = load.id /\ (i > 1 => p[i].n = p[i - 1].n - 1)
          /\ load.before > 0 /\ Len(p) > 0 => p[1].n = load.before - 1
          /\ Len(p) < PageSize /\ Len(p) > 0 => p[Len(p)].n = 1
          /\ Len(p) < PageSize /\ Len(p) = 0 /\ load.before > 0 => load.before = 1
        BY <2>2, PageIsRun
    <2> HIDE DEF p
    <2>4. Run(p, dialog.id) /\ Len(p) \in Nat /\ (p # <<>> => Len(p) > 0)
        <3>1. Run(p, dialog.id)
            BY <2>1, <2>3 DEF Run
        <3>2. Len(p) \in Nat
            BY <2>3 DEF Rows
        <3>3. p # <<>> => Len(p) > 0
            BY <2>3, LastIsRecord
        <3> QED BY <3>1, <3>2, <3>3
    <2>5. rows \in Rows /\ Run(rows, dialog.id)
        BY DEF ReadInv, RowsAreOneRun, Run
    <2>6. rows' \in Rows /\ Run(rows', dialog.id)
          /\ (end' /\ rows' # <<>> => Last(rows').n = 1)
        <3>1. CASE load.reset
            BY <2>1, <2>3, <2>4, <3>1 DEF Last
        <3>2. CASE ~load.reset
            <4>1. load.before > 0 /\ (rows # <<>> => load.before = Last(rows).n)
                BY <1>1, <2>1, <3>2 DEF ReadInv, LoadContinues
            <4>2. rows # <<>> /\ Len(p) > 0 => p[1].n = Last(rows).n - 1
                BY <2>3, <4>1
            <4>3. /\ rows \o p \in Rows /\ Run(rows \o p, dialog.id)
                  /\ Len(p) > 0 => Last(rows \o p) = Last(p)
                  /\ Len(p) = 0 => rows \o p = rows
                BY <2>3, <2>4, <2>5, <4>2, RunsJoin
            <4>4. rows' = rows \o p
                BY <2>1, <3>2
            <4>5. ASSUME end', rows' # <<>> PROVE Last(rows').n = 1
                <5>1. CASE Len(p) > 0
                    BY <2>1, <2>3, <4>3, <4>4, <4>5, <5>1 DEF Last
                <5>2. CASE Len(p) = 0
                    BY <2>1, <2>3, <4>1, <4>3, <4>4, <4>5, <5>2
                <5> QED BY <2>4, <5>1, <5>2
            <4> QED BY <4>3, <4>4, <4>5
        <3> QED BY <3>1, <3>2
    <2>7. RowsAreOneRun'
        BY <1>1, <2>6 DEF RowsAreOneRun, Run
    <2> QED BY <1>1, <2>6, <2>7 DEF ReadInv, LoadContinues, StripIsOfChoice
<1> QED BY <1>3, <1>4

LEMMA ReadStep == ASSUME DetailInv, [Next]_vars PROVE ReadInv'
<1> USE DEF DetailInv
<1>p. probes \in [Servers -> Nat]
    BY DEF ReadInv
<1>1. CASE More
    BY <1>1, MoreKeeps
<1>2. CASE ResultsAnswered
    BY <1>2, ResultsKeep
<1>3. CASE \/ Close \/ SessionEnds \/ HistoryAnswered
           \/ \E s \in Servers, r \in Ranges : OpenDetail(s, r)
           \/ \E r \in Ranges : DetailRange(r)
    BY <1>3, DialogKeeps
<1>4. ASSUME UNCHANGED <<dialog, rows, end, probes>>, Reading PROVE ReadInv'
    BY <1>4, <1>p, ReadingKeeps
<1>5. CASE Reread
    <2>1. dialog.id \in Servers /\ LoadBoth(dialog, rows)
          /\ UNCHANGED <<dialog, rows, end, probes>>
        BY <1>5 DEF Reread, WaitInv
    <2> QED BY <1>4, <2>1 DEF Reading
<1>6. CASE ProbeNow \/ Refresh \/ UNCHANGED vars
    <2>1. UNCHANGED <<dialog, rows, end, probes>> /\ UNCHANGED <<hist, strip, load>>
        BY <1>6 DEF ProbeNow, Refresh, vars, view
    <2> QED BY <1>4, <2>1 DEF Reading
<1>7. ASSUME NEW p \in posts, PostAnswered(p) PROVE ReadInv'
    <2>1. UNCHANGED <<dialog, rows, end, probes>>
        BY <1>7 DEF PostAnswered
    <2>2. Reading
        <3>1. CASE PollDetailProbe([timers EXCEPT !.set = FALSE])
            <4>1. [timers EXCEPT !.set = FALSE] \in Times
                BY DEF WaitInv, Times
            <4> QED BY <3>1, <4>1, PollGoesOn
        <3>2. CASE Stop
            BY <3>2 DEF Stop, Reading
        <3> QED BY <1>7, <3>1, <3>2 DEF PostAnswered
    <2> QED BY <1>4, <2>1, <2>2
<1>8. CASE PollTimer
    <2>1. UNCHANGED <<dialog, rows, end, probes>>
        BY <1>8 DEF PollTimer
    <2>2. \E t \in Times : PollDetailProbe(t)
        <3>1. [timers EXCEPT !.set = FALSE] \in Times
            BY DEF WaitInv, Times
        <3>2. timers.lost > 0 => [set |-> FALSE, lost |-> timers.lost - 1] \in Times
            BY DEF WaitInv, Times
        <3> QED BY <1>8, <3>1, <3>2 DEF PollTimer
    <2>3. Reading
        BY <2>2, PollGoesOn
    <2> QED BY <1>4, <2>1, <2>3
<1>9. CASE FetchAnswered
    <2>1. UNCHANGED <<dialog, rows, end, probes>>
        BY <1>9 DEF FetchAnswered
    <2>2. \/ dialog.open /\ LoadBoth(dialog, rows)
          \/ \E reply, d : AfterPoll(fetch.key, reply, d, timers)
        BY <1>9 DEF FetchAnswered
    <2>3. Reading
        BY <2>2, PollEnds DEF WaitInv, Reading
    <2> QED BY <1>4, <2>1, <2>3
<1>10. CASE RefreshEnds
    <2>1. UNCHANGED <<dialog, rows, end, probes>>
        BY <1>10 DEF RefreshEnds
    <2>2. \E reply, d : AfterPoll(fetch.key, reply, d, timers)
        BY <1>10 DEF RefreshEnds
    <2>3. Reading
        BY <2>2, PollEnds DEF WaitInv
    <2> QED BY <1>4, <2>1, <2>3
<1>11. ASSUME NEW s \in Servers, ProbeDone(s) PROVE ReadInv'
    <2>1. probes' = [probes EXCEPT ![s] = @ + 1]
          /\ UNCHANGED <<dialog, rows, end>> /\ UNCHANGED <<hist, strip, load>>
        BY <1>11 DEF ProbeDone, view
    <2>2. probes' \in [Servers -> Nat]
        BY <1>p, <2>1
    <2> QED BY <2>1, <2>2, ReadingKeeps DEF Reading
<1> QED BY <1>1, <1>2, <1>3, <1>5, <1>6, <1>7, <1>8, <1>9, <1>10, <1>11 DEF Next, User, Script

-----------------------------------------------------------------------------
(* The wait, step by step.                                                 *)

\* What the steps that leave wait and its followers alone keep.
LEMMA WaitInvParts ==
    ASSUME WaitShape', timers' \in Times, clicks' \in Nat, WaitIsFollowed',
           fetch' = [phase |-> fetch'.phase, key |-> fetch'.key], fetch'.key \in Nat,
           dialog'.open \/ wait' # NoWait => dialog'.id \in Servers
    PROVE  WaitInv'
BY DEF WaitInv, WaitShape

LEMMA WaitStep == ASSUME DetailInv, [Next]_vars PROVE WaitInv'
<1> USE DEF DetailInv
<1>0. WaitShape
    BY DEF WaitInv, WaitShape
<1>1. /\ timers \in Times /\ clicks \in Nat /\ WaitIsFollowed
      /\ fetch = [phase |-> fetch.phase, key |-> fetch.key] /\ fetch.key \in Nat
      /\ dialog.open \/ wait # NoWait => dialog.id \in Servers
    BY DEF WaitInv
<1>2. CASE \/ Reread \/ More \/ HistoryAnswered \/ ResultsAnswered
           \/ \E s \in Servers : ProbeDone(s)
           \/ UNCHANGED vars
    <2>1. UNCHANGED <<dialog, wait, fetch, timers, posts, clicks>>
        BY <1>2 DEF Reread, More, HistoryAnswered, ResultsAnswered, ProbeDone, vars, view
    <2> QED BY <1>0, <1>1, <2>1, WaitInvParts DEF WaitShape, WaitIsFollowed
<1>3. CASE Close
    <2>1. UNCHANGED <<wait, fetch, timers, posts, clicks>>
          /\ dialog' = [dialog EXCEPT !.open = FALSE] /\ dialog.open
        BY <1>3 DEF Close
    <2>2. dialog'.id \in Servers
        BY <1>1, <2>1 DEF ReadInv
    <2> QED BY <1>0, <1>1, <2>1, <2>2, WaitInvParts DEF WaitShape, WaitIsFollowed
<1>4. CASE SessionEnds
    <2>1. wait' = NoWait /\ timers' = [timers EXCEPT !.set = FALSE] /\ UNCHANGED <<fetch, clicks>>
          /\ dialog' = [dialog EXCEPT !.open = FALSE]
        BY <1>4 DEF SessionEnds
    <2>2. ~dialog'.open /\ timers' \in Times
        BY <1>1, <2>1 DEF ReadInv, Times
    <2> QED BY <1>1, <2>1, <2>2, WaitGoes, WaitInvParts DEF WaitIsFollowed
<1>5. ASSUME NEW s \in Servers, NEW r \in Ranges, OpenDetail(s, r) PROVE WaitInv'
    <2>1. dialog' = [open |-> TRUE, id |-> s, range |-> r]
          /\ UNCHANGED <<wait, fetch, timers, posts, clicks>>
        BY <1>5 DEF OpenDetail
    <2> QED BY <1>0, <1>1, <2>1, WaitInvParts DEF WaitShape, WaitIsFollowed
<1>6. ASSUME NEW r \in Ranges, DetailRange(r) PROVE WaitInv'
    <2>1. dialog' = [dialog EXCEPT !.range = r] /\ dialog.open
          /\ UNCHANGED <<wait, fetch, timers, posts, clicks>>
        BY <1>6 DEF DetailRange
    <2>2. dialog'.id \in Servers
        BY <1>1, <2>1 DEF ReadInv
    <2> QED BY <1>0, <1>1, <2>1, <2>2, WaitInvParts DEF WaitShape, WaitIsFollowed
<1>7. CASE ProbeNow
    <2>1. /\ wait' = [key |-> clicks + 1, id |-> dialog.id, baseline |-> known[dialog.id],
                      failures |-> 0]
          /\ posts' = posts \cup {clicks + 1} /\ clicks' = clicks + 1 /\ dialog.open
          /\ UNCHANGED <<dialog, fetch, timers>>
        BY <1>7 DEF ProbeNow
    <2>2. wait'.key = clicks + 1 /\ wait'.key \in Nat /\ wait'.key > 0 /\ clicks' \in Nat
        BY <1>1, <2>1
    <2>3. WaitShape' /\ WaitIsFollowed'
        BY <2>1, <2>2 DEF WaitShape, WaitIsFollowed
    <2> QED BY <1>1, <2>1, <2>2, <2>3, WaitInvParts
<1>8. ASSUME NEW t \in Times, PollDetailProbe(t), UNCHANGED <<dialog, clicks>>
      PROVE  WaitInv'
    <2>1. /\ WaitShape' /\ timers' \in Times
          /\ wait' # NoWait => wait # NoWait
          /\ fetch' = [phase |-> fetch'.phase, key |-> fetch'.key] /\ fetch'.key \in Nat
          /\ wait' = NoWait \/ timers'.set \/ fetch'.key = wait'.key
        BY <1>8, PollGoesOn
    <2> QED BY <1>1, <1>8, <2>1, WaitInvParts DEF WaitIsFollowed
<1>9. ASSUME NEW p \in posts, PostAnswered(p) PROVE WaitInv'
    <2>1. UNCHANGED <<dialog, clicks>>
        BY <1>9 DEF PostAnswered
    <2>2. CASE PollDetailProbe([timers EXCEPT !.set = FALSE])
        <3>1. [timers EXCEPT !.set = FALSE] \in Times
            BY <1>1 DEF Times
        <3> QED BY <1>8, <2>1, <2>2, <3>1
    <2>3. CASE Stop /\ UNCHANGED <<fetch, timers>>
        <3>1. wait' = NoWait
            BY <2>3 DEF Stop
        <3> QED BY <1>1, <2>1, <2>3, <3>1, WaitGoes, WaitInvParts DEF WaitIsFollowed
    <2> QED BY <1>9, <2>2, <2>3 DEF PostAnswered
<1>10. CASE PollTimer
    <2>1. UNCHANGED <<dialog, clicks>>
        BY <1>10 DEF PollTimer
    <2>2. \E t \in Times : PollDetailProbe(t)
        <3>1. [timers EXCEPT !.set = FALSE] \in Times
            BY <1>1 DEF Times
        <3>2. timers.lost > 0 => [set |-> FALSE, lost |-> timers.lost - 1] \in Times
            BY <1>1 DEF Times
        <3> QED BY <1>10, <3>1, <3>2 DEF PollTimer
    <2> QED BY <1>8, <2>1, <2>2
<1>11. CASE Refresh
    <2>1. fetch = NoFetch /\ fetch' = [NoFetch EXCEPT !.phase = "asked"]
          /\ UNCHANGED <<dialog, wait, timers, posts, clicks>>
        BY <1>11 DEF Refresh
    <2>2. fetch' = [phase |-> "asked", key |-> 0] /\ fetch.key = 0
        BY <2>1 DEF NoFetch
    <2> QED BY <1>0, <1>1, <2>1, <2>2, WaitInvParts DEF WaitShape, WaitIsFollowed
<1>12. ASSUME NEW reply, NEW d, AfterPoll(fetch.key, reply, d, timers), fetch' = NoFetch,
              UNCHANGED <<dialog, posts, clicks>>
       PROVE  WaitInv'
    <2>1. /\ WaitShape' /\ timers' \in Times
          /\ wait' # NoWait => wait # NoWait
          /\ \/ wait' = NoWait
             \/ timers'.set
             \/ wait' = wait /\ timers' = timers /\ wait.key # fetch.key
        BY <1>1, <1>12, PollEnds
    <2>2. WaitIsFollowed'
        BY <1>1, <1>12, <2>1 DEF WaitIsFollowed
    <2>3. fetch' = [phase |-> fetch'.phase, key |-> fetch'.key] /\ fetch'.key \in Nat
        BY <1>12 DEF NoFetch
    <2> QED BY <1>1, <1>12, <2>1, <2>2, <2>3, WaitInvParts
<1>13. CASE FetchAnswered
    <2>1. UNCHANGED <<dialog, posts, clicks>>
        BY <1>13 DEF FetchAnswered
    <2>2. CASE fetch' = [fetch EXCEPT !.phase = "loading"] /\ UNCHANGED <<wait, timers>>
        <3>1. fetch' = [phase |-> "loading", key |-> fetch.key]
            BY <1>1, <2>2
        <3> QED BY <1>0, <1>1, <2>1, <2>2, <3>1, WaitInvParts DEF WaitShape, WaitIsFollowed
    <2>3. CASE fetch' = NoFetch /\ \E reply, d : AfterPoll(fetch.key, reply, d, timers)
        BY <1>12, <2>1, <2>3
    <2> QED BY <1>13, <2>2, <2>3 DEF FetchAnswered
<1>14. CASE RefreshEnds
    <2>1. UNCHANGED <<dialog, posts, clicks>> /\ fetch' = NoFetch
          /\ \E reply, d : AfterPoll(fetch.key, reply, d, timers)
        BY <1>14 DEF RefreshEnds
    <2> QED BY <1>12, <2>1
<1> QED BY <1>2, <1>3, <1>4, <1>5, <1>6, <1>7, <1>9, <1>10, <1>11, <1>13, <1>14
        DEF Next, User, Script

LEMMA DetailInvariant == Spec => []DetailInv
<1>1. DetailInv /\ [Next]_vars => DetailInv'
    BY ReadStep, WaitStep DEF DetailInv
<1> QED BY <1>1, InitHolds, PTL DEF Spec

\* Pages are only put together that belong together, and the button for older records
\* goes only when none are left (app.js:1408-1425, 1443).
THEOREM RecordsAreOneRun == Spec => []RowsAreOneRun
<1>1. DetailInv => RowsAreOneRun
    BY DEF DetailInv, ReadInv
<1> QED BY <1>1, DetailInvariant, PTL

\* The history on show is of the server and the range that are marked (app.js:1385-1406).
THEOREM HistoryIsOfChoice == Spec => []StripIsOfChoice
<1>1. DetailInv => StripIsOfChoice
    BY DEF DetailInv, ReadInv
<1> QED BY <1>1, DetailInvariant, PTL

\* No wait for a probe is forgotten (app.js:1446-1494).
THEOREM NoWaitIsForgotten == Spec => []WaitIsFollowed
<1>1. DetailInv => WaitIsFollowed
    BY DEF DetailInv, WaitInv
<1> QED BY <1>1, DetailInvariant, PTL

=============================================================================
