----------------------------- MODULE WebConfig ------------------------------
(***************************************************************************)
(* The configuration form of the web page and what may take its edits away *)
(* (internal/web/assets/app.js): the refresh that fills it again, the      *)
(* answer of a save, leaving the page or the session, the choice of a      *)
(* language; and the buttons of the Windows service page, which share the  *)
(* one confirmation dialog.                                                *)
(*                                                                         *)
(* A draft is what the form shows, as a whole.  Canon is what the server   *)
(* makes of a valid draft (ValidateConfig); a blank form is not valid.     *)
(* Sessions are as in WebRefresh, reduced to whether the page has one: the *)
(* server may refuse any request.                                          *)
(***************************************************************************)
EXTENDS Integers

CONSTANTS
    Drafts,     \* what the form can show
    Configs,    \* the configurations as the server stores them
    Blank,      \* the form as it is in the document, never valid
    NoConfig,   \* state.data is null
    Canon       \* the configuration the server makes of a valid draft

ASSUME DraftsAssumption ==
    /\ Configs \subseteq Drafts /\ Blank \in Drafts \ Configs /\ NoConfig \notin Drafts
    /\ Canon \in [Drafts \ {Blank} -> Configs]
    /\ \A c \in Configs : Canon[c] = c

VARIABLES
    signed,     \* state.token is not empty
    page,       \* state.page
    form,       \* the draft, state.configDirty, and whether a save left the draft behind
    data,       \* state.data.config
    stored,     \* the configuration in the database
    fetch,      \* the refreshState that waits for its answer
    put,        \* the PUT /api/config that waits for its answer
    confirm,    \* the open confirmation dialog
    leaving,    \* logout waits for DELETE /api/session
    serviceBusy \* state.serviceBusy

vars == <<signed, page, form, data, stored, fetch, put, confirm, leaving, serviceBusy>>

Pages == {"overview", "config", "service", "guide"}
Answers == {"none", "ok", "denied", "failed"}
Risky == {"stop", "restart", "uninstall"}
Actions == Risky \cup {"install", "start"}

\* late: the save that cleared configDirty had sent another draft than the form shows,
\* and neither a refresh nor an edit has set that right.
Forms == [draft: Drafts, dirty: BOOLEAN, late: BOOLEAN]
Fetches == [on: BOOLEAN, initial: BOOLEAN, save: BOOLEAN, answer: Answers,
            config: Configs \cup {NoConfig}]
NoFetch == [on |-> FALSE, initial |-> FALSE, save |-> FALSE, answer |-> "none",
            config |-> NoConfig]
Puts == [on: BOOLEAN, body: Drafts, answer: Answers]
NoPut == [on |-> FALSE, body |-> Blank, answer |-> "none"]
NoConfirm == [for |-> "nothing", page |-> "config"]
Confirms == {NoConfirm} \cup [for: {"navigate"}, page: Pages]
                \cup [for: {"logout", "service"}, page: {"config"}]

\* The save button is disabled from the click to the end of the refresh that follows.
Saving == put.on \/ fetch.save

TypeOK ==
    /\ signed \in BOOLEAN /\ page \in Pages /\ form \in Forms
    /\ data \in Configs \cup {NoConfig} /\ stored \in Configs
    /\ fetch \in Fetches /\ put \in Puts /\ confirm \in Confirms
    /\ leaving \in BOOLEAN /\ serviceBusy \in BOOLEAN

Init ==
    /\ signed = FALSE /\ page = "overview"
    /\ form = [draft |-> Blank, dirty |-> FALSE, late |-> FALSE]
    /\ data = NoConfig /\ stored \in Configs
    /\ fetch = NoFetch /\ put = NoPut /\ confirm = NoConfirm
    /\ leaving = FALSE /\ serviceBusy = FALSE

-----------------------------------------------------------------------------
(* The functions of the script.                                            *)

\* populateConfig.
Populate(f, d) ==
    IF d = NoConfig THEN f ELSE [draft |-> d, dirty |-> FALSE, late |-> FALSE]

\* Mutant of Refill: the edits are not looked at.
RefillAlways(f, d) == IF page = "config" THEN Populate(f, d) ELSE f

\* The form filled again where the caller checks that nothing in it is unsaved.
Refill(f, d) == IF page = "config" /\ ~f.dirty THEN Populate(f, d) ELSE f

\* resetSession: closing the dialogs answers a confirmation with no.
ResetSession == signed' = FALSE /\ confirm' = NoConfirm

\* refreshState up to its await; a caller that finds one running gets null.
RefreshState(initial, save) ==
    fetch' = IF fetch.on \/ ~signed' THEN fetch
             ELSE [NoFetch EXCEPT !.on = TRUE, !.initial = initial, !.save = save]

\* Mutant of GoTo: the form keeps what it showed when it was left.
GoToUnfilled(p, f) == page' = p /\ form' = f

\* The page of a navigation that nothing holds up.
GoTo(p, f) ==
    /\ page' = p
    /\ form' = IF p = "config" THEN Populate(f, data) ELSE f

-----------------------------------------------------------------------------
(* Session.                                                                *)

\* login, the request answered: the texts are rendered again, then the first refresh.
Login ==
    /\ ~signed /\ ~fetch.initial
    /\ signed' = TRUE
    /\ form' = Refill(form, data)
    /\ RefreshState(TRUE, FALSE)
    /\ UNCHANGED <<page, data, stored, put, confirm, leaving, serviceBusy>>

\* logout: unsaved edits are asked about first.
Logout ==
    /\ signed /\ confirm = NoConfirm /\ ~leaving
    /\ IF form.dirty
       THEN confirm' = [for |-> "logout", page |-> "config"] /\ leaving' = leaving
       ELSE leaving' = TRUE /\ confirm' = confirm
    /\ UNCHANGED <<signed, page, form, data, stored, fetch, put, serviceBusy>>

\* logout after its request, whatever became of it.
LeftSession ==
    /\ leaving
    /\ leaving' = FALSE
    /\ form' = [form EXCEPT !.dirty = FALSE]
    /\ data' = NoConfig
    /\ ResetSession
    /\ UNCHANGED <<page, stored, fetch, put, serviceBusy>>

\* The page is loaded again; the token and the page's name are in sessionStorage.  The
\* browser asks before if there are unsaved edits (beforeunload).
Reload ==
    /\ page' = IF signed THEN page ELSE "overview"
    /\ form' = [draft |-> Blank, dirty |-> FALSE, late |-> FALSE]
    /\ data' = NoConfig
    /\ fetch' = [NoFetch EXCEPT !.on = signed, !.initial = signed]
    /\ put' = NoPut /\ confirm' = NoConfirm /\ leaving' = FALSE
    /\ serviceBusy' = FALSE
    /\ UNCHANGED <<signed, stored>>

-----------------------------------------------------------------------------
(* The form and the pages.                                                 *)

\* input and change events, rows added and removed.
Edit(d) ==
    /\ signed /\ page = "config" /\ confirm = NoConfirm /\ d # form.draft
    /\ form' = [draft |-> d, dirty |-> TRUE, late |-> FALSE]
    /\ UNCHANGED <<signed, page, data, stored, fetch, put, confirm, leaving, serviceBusy>>

\* saveConfig up to its await: an invalid form is not sent.
SaveConfig ==
    /\ signed /\ page = "config" /\ confirm = NoConfirm /\ ~Saving
    /\ form.draft # Blank
    /\ put' = [on |-> TRUE, body |-> form.draft, answer |-> "none"]
    /\ UNCHANGED <<signed, page, form, data, stored, fetch, confirm, leaving, serviceBusy>>

\* saveConfig after it.  After a sign-out state.data is null: the answer cannot be
\* stored, and the error is shown.
PutAnswered ==
    /\ put.on /\ put.answer # "none"
    /\ put' = NoPut
    /\ IF put.answer = "ok" /\ data # NoConfig
       THEN /\ data' = Canon[put.body]
            /\ form' = [form EXCEPT !.dirty = FALSE, !.late = form.draft # put.body]
            /\ UNCHANGED <<signed, confirm>>
            /\ RefreshState(FALSE, TRUE)
       ELSE /\ IF put.answer = "denied" THEN ResetSession ELSE UNCHANGED <<signed, confirm>>
            /\ UNCHANGED <<data, form, fetch>>
    /\ UNCHANGED <<page, stored, leaving, serviceBusy>>

\* navigate.
Navigate(p) ==
    /\ signed /\ confirm = NoConfirm /\ p # page
    /\ IF page = "config" /\ form.dirty
       THEN /\ confirm' = [for |-> "navigate", page |-> p]
            /\ UNCHANGED <<page, form>>
       ELSE GoTo(p, form) /\ confirm' = confirm
    /\ UNCHANGED <<signed, data, stored, fetch, put, leaving, serviceBusy>>

\* setLanguage renders every text again.
SetLanguage ==
    /\ form' = IF signed THEN Refill(form, data) ELSE form
    /\ UNCHANGED <<signed, page, data, stored, fetch, put, confirm, leaving, serviceBusy>>

\* The timer, the visible page, a changed range.
Refresh ==
    /\ signed /\ ~fetch.on
    /\ signed' = signed
    /\ RefreshState(FALSE, FALSE)
    /\ UNCHANGED <<page, form, data, stored, put, confirm, leaving, serviceBusy>>

\* Mutant of FetchAnswered: only a new session's refresh fills the form.
FetchAnsweredInitial ==
    /\ fetch.on /\ fetch.answer # "none"
    /\ fetch' = NoFetch
    /\ IF fetch.answer = "ok"
       THEN /\ data' = fetch.config
            /\ form' = IF fetch.initial THEN Populate(form, fetch.config) ELSE form
       ELSE UNCHANGED <<data, form>>
    /\ IF fetch.answer = "denied" THEN ResetSession ELSE UNCHANGED <<signed, confirm>>
    /\ UNCHANGED <<page, stored, put, leaving, serviceBusy>>

\* refreshState after its await.
FetchAnswered ==
    /\ fetch.on /\ fetch.answer # "none"
    /\ fetch' = NoFetch
    /\ IF fetch.answer = "ok"
       THEN /\ data' = fetch.config
            /\ form' = IF fetch.initial THEN Populate(form, fetch.config)
                       ELSE Refill(form, fetch.config)
       ELSE UNCHANGED <<data, form>>
    /\ IF fetch.answer = "denied" THEN ResetSession ELSE UNCHANGED <<signed, confirm>>
    /\ UNCHANGED <<page, stored, put, leaving, serviceBusy>>

-----------------------------------------------------------------------------
(* The dialog and the service page.                                        *)

\* What serviceAction does once it goes ahead: it says that it is busy and then fails
\* on the buttons (app.js:1668 calls forEach on one element), before the try.
StartService == serviceBusy' = TRUE

\* serviceAction, for a button that is not disabled.
ServiceAction(a) ==
    /\ signed /\ page = "service" /\ confirm = NoConfirm /\ ~serviceBusy
    /\ IF a \in Risky
       THEN confirm' = [for |-> "service", page |-> "config"] /\ serviceBusy' = serviceBusy
       ELSE StartService /\ confirm' = confirm
    /\ UNCHANGED <<signed, page, form, data, stored, fetch, put, leaving>>

\* Mutant of ConfirmYes: the edits given up stay marked.
ConfirmYesDirty ==
    /\ confirm # NoConfirm
    /\ confirm' = NoConfirm
    /\ IF confirm.for = "navigate" THEN GoTo(confirm.page, form)
       ELSE UNCHANGED <<page, form>>
    /\ leaving' = (leaving \/ confirm.for = "logout")
    /\ IF confirm.for = "service" THEN StartService ELSE serviceBusy' = serviceBusy
    /\ UNCHANGED <<signed, data, stored, fetch, put>>

\* confirmAction answered with yes, and what its caller does then.
ConfirmYes ==
    /\ confirm # NoConfirm
    /\ confirm' = NoConfirm
    /\ IF confirm.for = "navigate" THEN GoTo(confirm.page, [form EXCEPT !.dirty = FALSE])
       ELSE UNCHANGED <<page, form>>
    /\ leaving' = (leaving \/ confirm.for = "logout")
    /\ IF confirm.for = "service" THEN StartService ELSE serviceBusy' = serviceBusy
    /\ UNCHANGED <<signed, data, stored, fetch, put>>

\* Answered with no: every caller returns.
ConfirmNo ==
    /\ confirm # NoConfirm
    /\ confirm' = NoConfirm
    /\ UNCHANGED <<signed, page, form, data, stored, fetch, put, leaving, serviceBusy>>

-----------------------------------------------------------------------------
(* The server and the network.                                             *)

\* GET /api/state.
ServeState(answer) ==
    /\ fetch.on /\ fetch.answer = "none"
    /\ fetch' = [fetch EXCEPT !.answer = answer,
                              !.config = IF answer = "ok" THEN stored ELSE NoConfig]
    /\ UNCHANGED <<signed, page, form, data, stored, put, confirm, leaving, serviceBusy>>

\* PUT /api/config: saved and answered, refused, or saved with the answer lost.
ServePut(answer) ==
    /\ put.on /\ put.answer = "none"
    /\ put' = [put EXCEPT !.answer = answer]
    /\ \/ answer # "denied" /\ stored' = Canon[put.body]
       \/ answer # "ok" /\ stored' = stored
    /\ UNCHANGED <<signed, page, form, data, fetch, confirm, leaving, serviceBusy>>

\* Another page saves.
OtherSave ==
    /\ stored' \in Configs
    /\ UNCHANGED <<signed, page, form, data, fetch, put, confirm, leaving, serviceBusy>>

-----------------------------------------------------------------------------

User ==
    \/ Login \/ Logout \/ Reload \/ SaveConfig \/ SetLanguage \/ ConfirmYes \/ ConfirmNo
    \/ \E d \in Drafts : Edit(d)
    \/ \E p \in Pages : Navigate(p)
    \/ \E a \in Actions : ServiceAction(a)

Served ==
    \/ \E answer \in Answers \ {"none"} : ServeState(answer)
    \/ \E answer \in Answers \ {"none"} : ServePut(answer)

Next == User \/ LeftSession \/ PutAnswered \/ Refresh \/ FetchAnswered \/ Served \/ OtherSave

Spec == Init /\ [][Next]_vars

\* The page refreshes itself while it is signed in (see WebRefresh), requests are
\* answered or fail, answers are handled.
Fairness ==
    /\ WF_vars(Refresh) /\ WF_vars(FetchAnswered) /\ WF_vars(PutAnswered)
    /\ WF_vars(\E answer \in Answers \ {"none"} : ServeState(answer))
    /\ WF_vars(\E answer \in Answers \ {"none"} : ServePut(answer))

FairSpec == Spec /\ Fairness

-----------------------------------------------------------------------------
(* Properties.                                                             *)

\* A form that is not marked as changed shows the configuration the page last heard
\* of, however the answers of a save and of a refresh, the ways to the page and the
\* choice of a language follow each other: edits on show are always marked
\* (populateConfig and its callers, app.js:1293-1307).  A save whose draft was edited
\* on before its answer came is the exception; see SavedIsShown.
FormIsConfig ==
    ~form.dirty /\ page = "config" /\ data # NoConfig /\ ~form.late
        => form.draft # Blank /\ Canon[form.draft] = data

\* Marked edits are never hidden: the page leaves the form only when they are given up
\* (navigate, app.js:1177-1183), so the warnings of logout and beforeunload are about
\* what the user sees.
EditsAreSeen == form.dirty => page = "config"

\* Edits go only by a confirmed leave, a save, a sign-out, the first refresh of a new
\* session or a reload; no periodic refresh, language change or late answer of
\* another kind replaces them (app.js:891, 1177-1183, 1315-1338).
DraftKept ==
    [][form.dirty /\ form' # form =>
          \/ form'.dirty /\ \E d \in Drafts : Edit(d)
          \/ ConfirmYes /\ confirm.for = "navigate"
          \/ PutAnswered /\ put.answer = "ok"
          \/ FetchAnswered /\ fetch.initial
          \/ LeftSession \/ Reload]_vars

\* A form that a save left behind is brought in line: filled again by a refresh, marked
\* by an edit, or left, unless the network fails or the page is loaded again for ever.
FormCatchesUp ==
    <>[](fetch.answer # "failed") /\ <>[][~Reload]_vars
        => []<>(~form.late \/ page # "config" \/ ~signed)

\* Violated: "configuration saved" (app.js:1330) is said of the form on show.  Edits
\* made while the save was under way are declared saved and then overwritten.
SavedIsShown == ~form.late

\* Violated: "performing a service management operation, please wait" (app.js:1649)
\* comes to an end while the page stays loaded.  No request is ever sent, and
\* state.serviceBusy keeps every button of the page disabled.
BusyEnds == serviceBusy ~> ~serviceBusy

=============================================================================
