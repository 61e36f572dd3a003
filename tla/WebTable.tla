------------------------------ MODULE WebTable ------------------------------
(***************************************************************************)
(* The overview of the web page (internal/web/assets/app.js): the server   *)
(* list of the last refresh, the filters and their counts, the search, the *)
(* order of the table, and the summary cards.                              *)
(*                                                                         *)
(* What is on the screen is a state of its own: a list that arrives, a     *)
(* click or a key stroke renders only a part of it.  The metrics of a      *)
(* server are those that the order, the filters and the cards look at.     *)
(***************************************************************************)
EXTENDS Integers, Sequences, FiniteSets

CONSTANTS
    Protocols,  \* protocols of servers and of filters stored before
    Servers,    \* servers as GET /api/state describes them
    Lists,      \* the lists it may answer with
    NoData,     \* state.data is null
    Words,      \* what the user may search for
    NoSearch,   \* the search is empty
    Stored,     \* filters that localStorage may hold from before
    MaxTicks    \* bound: boxes ticked

Grades == {"A", "B", "C", "D", "E", "F", "pending", "unavailable"}
Kinds == {"matched", "clean", "suspicious", "polluted", "unknown"}
Sorts == {"grade", "average_ms", "availability", "success_rate"}
FilterKeys == {"protocol", "pollution", "grade"}

ASSUME ServersAssumption ==
    \A s \in Servers :
        /\ s.id \in Nat /\ s.trusted \in BOOLEAN /\ s.enabled \in BOOLEAN
        /\ s.probed \in BOOLEAN /\ s.success \in BOOLEAN
        /\ s.samples \in Nat /\ s.coverage \in Nat /\ s.p95_ms \in Nat
        /\ s.average_ms \in Nat /\ s.availability \in Nat /\ s.success_rate \in Nat
        /\ s.protocol \in Protocols

ASSUME ListsAssumption ==
    \A L \in Lists : /\ L \subseteq Servers /\ IsFiniteSet(L)
                     /\ \A s, t \in L : s.id = t.id => s = t

Filters == [FilterKeys -> SUBSET (Grades \cup Kinds \cup Protocols)]

ASSUME StoredAssumption == Stored \subseteq Filters /\ MaxTicks \in Nat

VARIABLES
    data,       \* state.data.servers, or NoData
    filters,    \* state.filters
    saved,      \* the filters in localStorage
    search,     \* the text of the search field
    sort,       \* state.sort and state.descending
    screen,     \* the rows, the options with their counts and ticks, the cards
    ticks       \* boxes ticked

tableVars == <<data, filters, saved, search, sort, screen, ticks>>

-----------------------------------------------------------------------------
(* What the page makes of a server.                                        *)

HasSamples(s) == s.samples > 0
HasCoverage(s) == s.coverage > 0
HasLatency(s) == HasSamples(s) /\ (s.success_rate > 0 \/ s.average_ms > 0 \/ s.p95_ms > 0)

\* displayedGrade and serverPollution: what the user trusts is not held against a server.
DisplayedGrade(s) == IF s.trusted /\ s.grade \in {"E", "F"} THEN "pending" ELSE s.grade
PollutionKind(s) ==
    IF s.trusted THEN "clean" ELSE IF s.pollution \in Kinds THEN s.pollution ELSE "unknown"

\* The grade as the filter knows it.
GradeValue(s) == IF DisplayedGrade(s) \in Grades THEN DisplayedGrade(s) ELSE "pending"

\* multiSelectSpecs: the value of a server, and the options.
ValueOf(key, s) ==
    CASE key = "protocol" -> s.protocol
      [] key = "pollution" -> PollutionKind(s)
      [] OTHER -> GradeValue(s)

Options(key, L) ==
    CASE key = "protocol" -> {s.protocol : s \in L}
      [] key = "pollution" -> Kinds
      [] OTHER -> Grades

\* filterOptionList.
Counts(key, L) == [v \in Options(key, L) |-> Cardinality({s \in L : ValueOf(key, s) = v})]

\* Mutant of Passes: the table looks at the grade as it was sent.
PassesRaw(s, f, word) ==
    /\ word = NoSearch \/ word \in s.words
    /\ f["protocol"] # {} => s.protocol \in f["protocol"]
    /\ f["pollution"] # {} => PollutionKind(s) \in f["pollution"]
    /\ f["grade"] # {} => s.grade \in f["grade"]

\* The filter of visibleServers, which has its own way to the values.
Passes(s, f, word) ==
    /\ word = NoSearch \/ word \in s.words
    /\ f["protocol"] # {} => s.protocol \in f["protocol"]
    /\ f["pollution"] # {} => PollutionKind(s) \in f["pollution"]
    /\ f["grade"] # {} => GradeValue(s) \in f["grade"]

-----------------------------------------------------------------------------
(* The order of the table.                                                 *)

GradeRank(g) ==
    CASE g = "A" -> 0 [] g = "B" -> 1 [] g = "C" -> 2
      [] g = "D" -> 3 [] g = "E" -> 4 [] g = "F" -> 5 [] OTHER -> -1

\* What a server is compared by; -1 if there is nothing to compare.
Rank(by, s) ==
    CASE by = "grade" -> GradeRank(DisplayedGrade(s))
      [] by = "average_ms" -> IF HasLatency(s) THEN s.average_ms ELSE -1
      [] by = "availability" -> IF HasCoverage(s) THEN s.availability ELSE -1
      [] OTHER -> IF HasSamples(s) THEN s.success_rate ELSE -1

Unavailable(s) == s.grade = "unavailable"

\* Mutants of Before: servers without a value are left as they came; the direction turns
\* the unavailable servers round as well.
BeforeTied(o, l, r) ==
    LET lr == Rank(o.by, l)  rr == Rank(o.by, r)
    IN  IF ~(Unavailable(l) <=> Unavailable(r)) THEN Unavailable(r)
        ELSE IF lr < 0 \/ rr < 0 THEN lr >= 0 /\ rr < 0
        ELSE IF lr = rr THEN l.id < r.id
        ELSE IF o.descending THEN lr > rr ELSE lr < rr
BeforeTurned(o, l, r) ==
    LET lr == Rank(o.by, l)  rr == Rank(o.by, r)
    IN  IF ~(Unavailable(l) <=> Unavailable(r))
        THEN IF o.descending THEN Unavailable(l) ELSE Unavailable(r)
        ELSE IF lr = rr THEN l.id < r.id
        ELSE IF lr < 0 \/ rr < 0 THEN rr < 0
        ELSE IF o.descending THEN lr > rr ELSE lr < rr

\* The comparison of visibleServers.
Before(o, l, r) ==
    LET lr == Rank(o.by, l)  rr == Rank(o.by, r)
    IN  IF ~(Unavailable(l) <=> Unavailable(r)) THEN Unavailable(r)
        ELSE IF lr = rr THEN l.id < r.id
        ELSE IF lr < 0 \/ rr < 0 THEN rr < 0
        ELSE IF o.descending THEN lr > rr ELSE lr < rr

\* The order that sort makes of it: fewer than i servers stand before the one at place i, and
\* no more than the places behind it behind it.
Sorted(V, o) ==
    LET before == [s \in V |-> Cardinality({r \in V : Before(o, r, s)})]
        behind == [s \in V |-> Cardinality({r \in V : Before(o, s, r)})]
    IN  [i \in 1..Cardinality(V) |->
            CHOOSE s \in V : before[s] < i /\ behind[s] <= Cardinality(V) - i]

VisibleServers(L, f, word, o) ==
    IF L = NoData THEN <<>> ELSE Sorted({s \in L : Passes(s, f, word)}, o)

-----------------------------------------------------------------------------
(* Rendering.                                                              *)

\* The numbers of renderOverview.
Cards(L) ==
    [total |-> Cardinality(L),
     online |-> Cardinality({s \in L : s.enabled /\ s.probed /\ s.success}),
     failing |-> Cardinality({s \in L : s.enabled /\ s.probed /\ ~s.success}),
     awaiting |-> Cardinality({s \in L : s.enabled /\ ~s.probed}),
     polluted |-> Cardinality({s \in L : PollutionKind(s) = "polluted"}),
     suspicious |-> Cardinality({s \in L : PollutionKind(s) = "suspicious"}),
     unknown |-> Cardinality({s \in L : PollutionKind(s) = "unknown"})]

Blank == [rows |-> <<>>, options |-> [k \in FilterKeys |-> <<>>],
          ticked |-> [k \in FilterKeys |-> {}], cards |-> Cards({})]

\* renderFilterOptions: what is not offered is no filter any more.
Pruned(f, key, L) == [f EXCEPT ![key] = @ \cap Options(key, L)]

RenderFilterOptions(sc, f, key, L) ==
    [sc EXCEPT !.options[key] = Counts(key, L), !.ticked[key] = f[key]]

RenderServerRows(sc, L, f, word, o) ==
    IF L = NoData THEN sc ELSE [sc EXCEPT !.rows = VisibleServers(L, f, word, o)]

\* renderOverview: the cards, then every filter, then the rows.
RenderOverview(L) ==
    LET f == Pruned(Pruned(Pruned(filters, "protocol", L), "pollution", L), "grade", L)
    IN  /\ filters' = f
        /\ screen' = [rows |-> VisibleServers(L, f, search, sort),
                      options |-> [k \in FilterKeys |-> Counts(k, L)],
                      ticked |-> f, cards |-> Cards(L)]

-----------------------------------------------------------------------------

DefaultSort == [by |-> "grade", descending |-> FALSE]

TableInit ==
    /\ data = NoData /\ saved \in Stored /\ filters = saved /\ search = NoSearch
    /\ sort = DefaultSort /\ screen = Blank /\ ticks = 0

\* refreshState: a list arrives.
ListArrives(L) ==
    /\ L # data /\ data' = L
    /\ RenderOverview(L)
    /\ UNCHANGED <<saved, search, sort, ticks>>

\* Mutant of SetFilter: the rows are left as they are.
SetFilterAlone(key, values) ==
    LET f == [filters EXCEPT ![key] = values]
        kept == IF data = NoData THEN f ELSE Pruned(f, key, data)
    IN  /\ saved' = f /\ filters' = kept
        /\ screen' = RenderFilterOptions(screen, kept, key, IF data = NoData THEN {} ELSE data)
        /\ UNCHANGED <<data, search, sort>>

\* The change of a box: the choice is stored, then its filter and the rows are rendered.
SetFilter(key, values) ==
    LET f == [filters EXCEPT ![key] = values]
        L == IF data = NoData THEN {} ELSE data
        kept == Pruned(f, key, L)
    IN  /\ saved' = f /\ filters' = kept
        /\ screen' = RenderServerRows(RenderFilterOptions(screen, kept, key, L),
                                      data, kept, search, sort)
        /\ UNCHANGED <<data, search, sort>>

\* A box of an option that is on the screen.
Tick(key, v) ==
    /\ ticks < MaxTicks /\ ticks' = ticks + 1
    /\ v \in DOMAIN screen.options[key]
    /\ SetFilter(key, IF v \in filters[key] THEN filters[key] \ {v} ELSE filters[key] \cup {v})

\* The box for all.
TickAll(key) ==
    /\ ticks < MaxTicks /\ ticks' = ticks + 1
    /\ SetFilter(key, {})

\* The search field.
Search(word) ==
    /\ word # search /\ search' = word
    /\ screen' = RenderServerRows(screen, data, filters, word, sort)
    /\ UNCHANGED <<data, filters, saved, sort, ticks>>

\* A click on the head of a column.
SortBy(by) ==
    /\ sort' = [by |-> by, descending |-> IF by = sort.by THEN ~sort.descending
                                          ELSE by \notin {"average_ms", "grade"}]
    /\ screen' = RenderServerRows(screen, data, filters, search, sort')
    /\ UNCHANGED <<data, filters, saved, search, ticks>>

\* logout forgets the data; the screen behind the sign-in page stays as it is.
LeaveSession ==
    /\ data' = NoData
    /\ UNCHANGED <<filters, saved, search, sort, screen, ticks>>

\* The page is loaded again, with the filters from localStorage.
ReloadTable ==
    /\ data' = NoData /\ filters' = saved /\ search' = NoSearch /\ sort' = DefaultSort
    /\ screen' = Blank
    /\ UNCHANGED <<saved, ticks>>

TableNext ==
    \/ \E L \in Lists : ListArrives(L)
    \/ \E key \in FilterKeys : TickAll(key)
    \/ \E key \in FilterKeys : \E v \in DOMAIN screen.options[key] : Tick(key, v)
    \/ \E word \in Words \cup {NoSearch} : Search(word)
    \/ \E by \in Sorts : SortBy(by)
    \/ LeaveSession \/ ReloadTable

TableSpec == TableInit /\ [][TableNext]_tableVars

-----------------------------------------------------------------------------
(* Properties.                                                             *)

TableTypeOK ==
    /\ data \in Lists \cup {NoData}
    /\ filters \in Filters /\ saved \in Filters
    /\ search \in Words \cup {NoSearch}
    /\ sort \in [by: Sorts, descending: BOOLEAN]
    /\ ticks \in 0..MaxTicks

\* The comparison the table is sorted by is a strict total order of the servers of a list, so
\* what the browser's sort makes of it is determined (app.js:1122-1141).
OrderIsTotal ==
    data # NoData =>
        \A l, r, t \in data :
            /\ ~ (Before(sort, l, r) /\ Before(sort, r, l))
            /\ l # r => Before(sort, l, r) \/ Before(sort, r, l)
            /\ Before(sort, l, r) /\ Before(sort, r, t) => Before(sort, l, t)

Position(rows, s) == CHOOSE i \in 1..Len(rows) : rows[i] = s

\* Another click on a column turns round the servers that differ in it and no others: those
\* without a value, and at the very end the unavailable ones, stay last in both directions.
\* Among the unavailable ones the values are turned like anywhere else (app.js:1124-1139, 1914).
TurnsOnlyValues ==
    [][sort'.by = sort.by /\ sort' # sort /\ data # NoData /\ data' = data =>
        LET rows == screen.rows
            turned(i, j) == /\ Rank(sort.by, rows[i]) # Rank(sort.by, rows[j])
                            /\ Rank(sort.by, rows[i]) >= 0 /\ Rank(sort.by, rows[j]) >= 0
                            /\ Unavailable(rows[i]) <=> Unavailable(rows[j])
        IN  \A i, j \in 1..Len(rows) : i < j =>
                (Position(screen'.rows, rows[i]) < Position(screen'.rows, rows[j])
                    <=> ~turned(i, j))]_tableVars

\* The number beside an option is the number of rows that the option, chosen alone, would
\* leave, every server is counted by one option of each filter, and the cards say the same as
\* the filters (app.js:991-1005, 1054-1064, 1117-1122: three ways to the same values).
OptionsCountRows ==
    data # NoData =>
        /\ \A key \in FilterKeys : \A v \in DOMAIN screen.options[key] :
              LET only == [k \in FilterKeys |-> IF k = key THEN {v} ELSE {}]
              IN  screen.options[key][v] = Cardinality({s \in data : Passes(s, only, NoSearch)})
        /\ \A key \in FilterKeys, s \in data : ValueOf(key, s) \in DOMAIN screen.options[key]
        /\ \A kind \in {"polluted", "suspicious", "unknown"} :
              screen.cards[kind] = screen.options["pollution"][kind]

\* The screen shows the state and nothing else: no filter is at work that is not an option
\* on the screen with its tick, though filters outlive the lists they were made for and the
\* page itself, and the rows are those that the export of the summary would have, in its
\* order (app.js:1011-1028, 655-657, 1688-1707).
ScreenIsState ==
    data # NoData =>
        /\ screen.ticked = filters
        /\ \A key \in FilterKeys : filters[key] \subseteq DOMAIN screen.options[key]
        /\ screen.rows = VisibleServers(data, filters, search, sort)

=============================================================================
