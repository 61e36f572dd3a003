---------------------------- MODULE ServerImport ----------------------------
(***************************************************************************)
(* The import of a server list from a CSV file: the dialog of the web page *)
(* (internal/web/assets/app.js), the preview and the commit on the server  *)
(* (internal/httpapi/server_csv.go) and the transaction that applies it    *)
(* (internal/store/import.go).  Between the preview and the commit, and    *)
(* within the commit, others edit the list; an answer may be lost after    *)
(* the import was applied, and the user tries again.                       *)
(*                                                                         *)
(* A server is its id, the canonical key of its address and its other      *)
(* fields as one value.  A file is the sequence of its rows with every     *)
(* column present.  ServerSnapshot, a fingerprint of the list, is the list; *)
(* session.snapshot is the set of it, or of nothing.                       *)
(***************************************************************************)
EXTENDS Integers, Sequences, SequencesExt, FiniteSets, FiniteSetsExt

CONSTANTS
    Keys,       \* canonical addresses
    BadKey,     \* the address of a row that does not validate
    Contents,   \* the other fields of a server
    Files,      \* CSV files: sequences of rows
    NoFile,     \* session.csv is empty
    InitialLists,   \* server lists at the start
    FirstID,    \* the highest id given out before
    MaxEdits,   \* bound: edits made elsewhere
    MaxTries    \* bound: commits sent

CSVRows == [key: Keys \cup {BadKey}, content: Contents]
Servers == [id: Nat \ {0}, key: Keys, content: Contents]
Lists == {L \in SUBSET Servers : IsFiniteSet(L)}

ASSUME FilesAssumption ==
    /\ BadKey \notin Keys
    /\ \A f \in Files : f \in Seq(CSVRows) /\ f # <<>>
    /\ NoFile \notin Files /\ InitialLists \subseteq Lists
    /\ FirstID \in Nat /\ \A L \in InitialLists : \A s \in L : s.id <= FirstID
    /\ MaxEdits \in Nat /\ MaxTries \in Nat \ {0}

VARIABLES
    list,       \* the server list in the database
    lastID,     \* the highest id given out so far: AUTOINCREMENT gives none twice
    open,       \* the dialog is open
    session,    \* state.importing
    preview,    \* the request POST /api/servers/import/preview
    jobs,       \* the requests POST /api/servers/import, by number
    edits       \* edits made elsewhere so far

importVars == <<list, lastID, open, session, preview, jobs, edits>>

RowActions == {"skip", "overwrite"}
Numbers == UNION {DOMAIN f : f \in Files}
Decisions == UNION {[S -> RowActions] : S \in SUBSET Numbers}
Sessions == [csv: Files \cup {NoFile}, snapshot: SUBSET Lists,
             rows: BOOLEAN, errors: BOOLEAN, decisions: Decisions,
             busy: {"no", "read", "preview", "commit"}]
NoSnapshot == {}
NoDecisions == [i \in {} |-> "skip"]
NewSession == [csv |-> NoFile, snapshot |-> NoSnapshot, rows |-> FALSE, errors |-> FALSE,
               decisions |-> NoDecisions, busy |-> "no"]
\* A request that is over keeps nothing but its answer.
Jobs == [phase: {"sent", "checked"}, csv: Files, snapshot: Lists, decisions: Decisions]
            \cup [phase: {"ok", "conflict", "refused", "lost"}]
Latest == Len(jobs)

ImportTypeOK ==
    /\ list \in Lists /\ lastID \in Nat /\ open \in BOOLEAN /\ session \in Sessions
    /\ preview \in [phase: {"none", "sent", "answered"}, of: Lists]
    /\ jobs \in Seq(Jobs) /\ Len(jobs) <= MaxTries
    /\ edits \in 0..MaxEdits

ImportInit ==
    /\ list \in InitialLists /\ lastID = FirstID /\ open = FALSE /\ session = NewSession
    /\ preview = [phase |-> "none", of |-> {}] /\ jobs = <<>> /\ edits = 0

-----------------------------------------------------------------------------
(* What the server makes of a file.                                        *)

Matches(L, key) == {s \in L : s.key = key}
Earlier(csv, i) == \E j \in 1..(i - 1) : csv[j].key = csv[i].key

\* prepareImport: rows in error, and rows the user has to decide about.
RowError(L, csv, i) == csv[i].key = BadKey \/ Cardinality(Matches(L, csv[i].key)) > 1
Conflicts(L, csv) ==
    {i \in DOMAIN csv : /\ csv[i].key # BadKey
                        /\ Cardinality(Matches(L, csv[i].key)) = 1 \/ Earlier(csv, i)}
HasErrors(L, csv) == \E i \in DOMAIN csv : RowError(L, csv, i)

\* Mutant of ImportRow: a row is not put over one that the file has just created.
ImportRowFirstWins(acc, csv, decisions, i) ==
    LET row == csv[i]
        known == {s \in acc.list : s.key = row.key}
    IN  IF acc.failed \/ (i \in DOMAIN decisions /\ decisions[i] = "skip") THEN acc
        ELSE IF i \in DOMAIN decisions
        THEN IF known = {} THEN [acc EXCEPT !.failed = TRUE] ELSE acc
        ELSE [acc EXCEPT !.last = @ + 1,
                         !.list = @ \cup {[id |-> acc.last + 1, key |-> row.key,
                                          content |-> row.content]}]

\* One row of ImportServers; acc is the list so far, the last id, and whether a row failed.
ImportRow(acc, csv, decisions, i) ==
    LET row == csv[i]
        known == Matches(acc.list, row.key)
    IN  IF acc.failed \/ (i \in DOMAIN decisions /\ decisions[i] = "skip") THEN acc
        ELSE IF (known = {}) # (i \notin DOMAIN decisions)
        THEN [acc EXCEPT !.failed = TRUE]
        ELSE IF known = {}
        THEN [acc EXCEPT !.last = @ + 1,
                         !.list = @ \cup {[id |-> acc.last + 1, key |-> row.key,
                                          content |-> row.content]}]
        ELSE [acc EXCEPT !.list = (@ \ known) \cup
                                    {[s EXCEPT !.content = row.content] : s \in known}]

\* The transaction of ImportServers, row by row: all rows, or none.
Progress(L, last, csv, decisions) ==
    LET acc[i \in 0..Len(csv)] ==
            IF i = 0 THEN [list |-> L, last |-> last, failed |-> FALSE]
            ELSE ImportRow(acc[i - 1], csv, decisions, i)
    IN  acc
Imported(L, last, csv, decisions) == Progress(L, last, csv, decisions)[Len(csv)]

-----------------------------------------------------------------------------
(* The dialog.                                                             *)

\* openImport: a new session, unless the one there is busy.
OpenImport ==
    /\ ~open /\ session.busy = "no"
    /\ open' = TRUE /\ session' = NewSession
    /\ UNCHANGED <<list, lastID, preview, jobs, edits>>

Close ==
    /\ open /\ open' = FALSE
    /\ UNCHANGED <<list, lastID, session, preview, jobs, edits>>

\* previewImport up to its await.
PreviewImport(s) ==
    /\ session' = [s EXCEPT !.snapshot = NoSnapshot, !.busy = "preview"]
    /\ preview' = [preview EXCEPT !.phase = "sent"]

\* readImportFile: a file is chosen, then read, and at once previewed.
ReadImportFile ==
    /\ open /\ session.busy = "no"
    /\ session' = [session EXCEPT !.csv = NoFile, !.snapshot = NoSnapshot, !.rows = FALSE,
                                  !.busy = "read"]
    /\ UNCHANGED <<list, lastID, open, preview, jobs, edits>>

FileRead ==
    /\ session.busy = "read"
    /\ \/ session' = [session EXCEPT !.busy = "no"] /\ preview' = preview
       \/ \E f \in Files : PreviewImport([session EXCEPT !.csv = f])
    /\ UNCHANGED <<list, lastID, open, jobs, edits>>

PreviewAgain ==
    /\ open /\ session.busy = "no" /\ session.csv # NoFile
    /\ PreviewImport(session)
    /\ UNCHANGED <<list, lastID, open, jobs, edits>>

\* previewServerImport.
ServePreview ==
    /\ preview.phase = "sent"
    /\ preview' = [phase |-> "answered", of |-> list]
    /\ UNCHANGED <<list, lastID, open, session, jobs, edits>>

PreviewFails == session' = [session EXCEPT !.snapshot = NoSnapshot, !.busy = "no"]

\* Mutant of PreviewAnswered: decisions made before are kept.
PreviewAnsweredKeeps ==
    /\ session.busy = "preview"
    /\ LET L == preview.of
           rows == Conflicts(L, session.csv)
       IN  \/ PreviewFails
           \/ /\ preview.phase = "answered"
              /\ session' = [session EXCEPT
                    !.snapshot = {L}, !.rows = TRUE, !.errors = HasErrors(L, session.csv),
                    !.decisions = [i \in rows |-> "skip"] @@ @, !.busy = "no"]
    /\ preview' = [phase |-> "none", of |-> {}]
    /\ UNCHANGED <<list, lastID, open, jobs, edits>>

\* previewImport after its await.
PreviewAnswered ==
    /\ session.busy = "preview"
    /\ LET L == preview.of
           rows == Conflicts(L, session.csv)
       IN  \/ PreviewFails
           \/ /\ preview.phase = "answered"
              /\ session' = [session EXCEPT
                    !.snapshot = {L}, !.rows = TRUE, !.errors = HasErrors(L, session.csv),
                    !.decisions = [i \in rows |-> "skip"], !.busy = "no"]
    /\ preview' = [phase |-> "none", of |-> {}]
    /\ UNCHANGED <<list, lastID, open, jobs, edits>>

\* The select of a row, and bulkImport.
Decide(rows, action) ==
    /\ open /\ session.busy = "no" /\ session.rows
    /\ session' = [session EXCEPT !.decisions =
                     [i \in DOMAIN @ |-> IF i \in rows THEN action ELSE @[i]]]
    /\ UNCHANGED <<list, lastID, open, preview, jobs, edits>>

\* commitImport up to its await.
CommitImport ==
    /\ open /\ session.busy = "no" /\ session.snapshot # NoSnapshot
    /\ ~session.errors /\ session.rows /\ Len(jobs) < MaxTries
    /\ session' = [session EXCEPT !.busy = "commit"]
    /\ jobs' = Append(jobs, [phase |-> "sent", csv |-> session.csv,
                             snapshot |-> CHOOSE L \in session.snapshot : TRUE,
                             decisions |-> session.decisions])
    /\ UNCHANGED <<list, lastID, open, preview, edits>>

\* commitImport after its await, and after the refresh that follows a success.  Any other
\* error leaves the preview as it was: the server may be done, or still at work.
CommitAnswered ==
    /\ session.busy = "commit"
    /\ \/ /\ jobs[Latest].phase = "ok"
          /\ open' = FALSE /\ session' = [session EXCEPT !.busy = "no"]
       \/ /\ jobs[Latest].phase = "conflict"
          /\ session' = [session EXCEPT !.snapshot = NoSnapshot, !.busy = "no"]
          /\ open' = open
       \/ session' = [session EXCEPT !.busy = "no"] /\ open' = open
    /\ UNCHANGED <<list, lastID, preview, jobs, edits>>

-----------------------------------------------------------------------------
(* The server.                                                             *)

Answer(n, phase) == jobs' = [jobs EXCEPT ![n] = [phase |-> phase]]

\* The request never arrives, or its session is not known.
LoseCommit(n) ==
    /\ jobs[n].phase = "sent"
    /\ Answer(n, "lost")
    /\ UNCHANGED <<list, lastID, open, session, preview, edits>>

\* importServers up to the transaction, against the list of that moment.
CheckImport(n) ==
    LET j == jobs[n]
    IN  /\ j.phase = "sent"
        /\ IF j.snapshot # list THEN Answer(n, "conflict")
           ELSE IF HasErrors(list, j.csv) \/ DOMAIN j.decisions # Conflicts(list, j.csv)
           THEN Answer(n, "refused")
           ELSE jobs' = [jobs EXCEPT ![n].phase = "checked"]
        /\ UNCHANGED <<list, lastID, open, session, preview, edits>>

\* Mutant of ApplyImport: the list is not compared again.
ApplyImportUnchecked(n) ==
    LET j == jobs[n]
        result == Imported(list, lastID, j.csv, j.decisions)
    IN  /\ j.phase = "checked"
        /\ list' = result.list /\ lastID' = result.last /\ Answer(n, "ok")
        /\ UNCHANGED <<open, session, preview, edits>>

\* The transaction, which compares the list again.
ApplyImport(n) ==
    LET j == jobs[n]
        result == Imported(list, lastID, j.csv, j.decisions)
    IN  /\ j.phase = "checked"
        /\ IF j.snapshot # list THEN Answer(n, "conflict") /\ UNCHANGED <<list, lastID>>
           ELSE IF result.failed THEN Answer(n, "refused") /\ UNCHANGED <<list, lastID>>
           ELSE list' = result.list /\ lastID' = result.last /\ Answer(n, "ok")
        /\ UNCHANGED <<open, session, preview, edits>>

\* A server is added, changed or deleted elsewhere: in the form of this page, by another
\* page, or by another import.
EditElsewhere ==
    /\ edits < MaxEdits /\ edits' = edits + 1
    /\ \/ /\ lastID' = lastID + 1
          /\ \E k \in Keys, c \in Contents :
                list' = list \cup {[id |-> lastID + 1, key |-> k, content |-> c]}
       \/ /\ lastID' = lastID
          /\ \E s \in list, c \in Contents :
                c # s.content /\ list' = (list \ {s}) \cup {[s EXCEPT !.content = c]}
       \/ lastID' = lastID /\ \E s \in list : list' = list \ {s}
    /\ UNCHANGED <<open, session, preview, jobs>>

-----------------------------------------------------------------------------

ImportUser ==
    \/ OpenImport \/ Close \/ ReadImportFile \/ PreviewAgain \/ CommitImport
    \/ \E action \in RowActions :
          \E rows \in {{i} : i \in DOMAIN session.decisions} \cup {DOMAIN session.decisions} :
              Decide(rows, action)

Server ==
    \/ ServePreview
    \/ \E n \in DOMAIN jobs : LoseCommit(n) \/ CheckImport(n) \/ ApplyImport(n)

ImportNext == ImportUser \/ FileRead \/ PreviewAnswered \/ CommitAnswered \/ Server \/ EditElsewhere

ImportSpec == ImportInit /\ [][ImportNext]_importVars

-----------------------------------------------------------------------------
(* Properties.                                                             *)

\* The request that a step from list to list' applies.
Applied(n) == jobs[n].phase = "checked" /\ jobs'[n].phase = "ok"

\* An import is applied to the very list its preview showed: an edit made elsewhere at any
\* time between the preview and the transaction is never overwritten unseen
\* (import.go:54-56, server_csv.go:222-230).
AppliesToWhatWasShown == [][\A n \in DOMAIN jobs : Applied(n) => list = jobs[n].snapshot]_importVars

\* What is stored is what the rows and the decisions say: of the rows of an address that are
\* not skipped the last one wins, a known server keeps its id, nothing else changes, and no
\* address comes in twice, whichever of the requests of a user who tried again after a lost
\* answer gets through (app.js:1882-1890, import.go:57-136).
StoresWhatWasDecided ==
    [][\A n \in DOMAIN jobs : Applied(n) =>
          LET csv == jobs[n].csv
              dec == jobs[n].decisions
              taken(k) == {i \in DOMAIN csv : csv[i].key = k
                              /\ (i \in DOMAIN dec => dec[i] = "overwrite")}
          IN  \A k \in Keys :
                LET before == Matches(list, k)
                    after == Matches(list', k)
                IN  IF taken(k) = {} THEN after = before
                    ELSE \E s \in after :
                            /\ after = {s} /\ s.content = csv[Max(taken(k))].content
                            /\ {t.id : t \in before} \subseteq {s.id}]_importVars

\* The page never sends what the server refuses for its form: as long as the list is the
\* one previewed, the decisions are exactly about the rows in conflict, whatever files were
\* read and previewed before (app.js:1820-1822, server_csv.go:241-270).
NeverRefused == \A n \in DOMAIN jobs : jobs[n].phase # "refused"

=============================================================================
