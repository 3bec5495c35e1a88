------------------------------- MODULE AdminUi -------------------------------
(***************************************************************************)
(* The pages of the management UI (ui/src/pages, ui/src/features): the     *)
(* login page, the list of registrations, the pane beside it and the       *)
(* dialogs.  A handler runs up to its request; what follows the await runs *)
(* when the answer is taken, in whatever state the page is by then.        *)
(***************************************************************************)
EXTENDS AdminClient

CONSTANTS
  MaxActs,     \* how many requests the user starts
  MaxMishaps   \* how many requests are lost, restarts, expiries, foreign changes

ASSUME AdminUiAssumption ==
  /\ Ids # {} /\ None \notin Ids /\ NoName \notin Names
  /\ Storage \in BOOLEAN
  /\ {MaxActs, MaxMishaps} \subseteq Nat

VARIABLES
  page,      \* "login" or "domains"
  login,     \* the login page: a login is under way
  view,      \* the page of registrations: list, selection, what is loading
  pane,      \* the detail pane's own copy of a registration
  dialog,    \* the dialog that is open, and the registration it is about
  runs,      \* which of the dialogs with a request are loading
  revealed,  \* the registrations whose password the user asked to see, for the proof
  excused,   \* something happened that lets the list differ from the server
  acts, mishaps

uiVars == <<page, login, view, pane, dialog, runs>>
vars == <<clientVars, uiVars, revealed, excused, acts, mishaps>>

------------------------------------------------------------------------------
(* The parts of the page *)

NoDialog == [kind |-> None, id |-> None]
NoPane == [id |-> None, record |-> NoView, shown |-> FALSE, busy |-> FALSE]
NoRuns == [create |-> FALSE, match |-> FALSE, check |-> FALSE]

\* DomainsPage when it is mounted: nothing loaded, and the list asked for.
NewPage == [list |-> [id \in Ids |-> NoView], at |-> 0, loading |-> TRUE, failed |-> FALSE,
            server |-> FALSE, selected |-> None, created |-> None]

\* DomainDetail when it is mounted: useState takes the registration it is given.
Mounted(v) == [id |-> v.selected, record |-> v.list[v.selected],
               shown |-> v.created = v.selected, busy |-> FALSE]

\* The selection, resolved against the list.
Selected(v) == v.selected # None /\ v.list[v.selected].there

\* Mutant of Rendered: the pane has no key, so another row keeps its state.
RenderedWithoutKey(v, p) ==
  IF ~Selected(v) \/ ~v.server THEN NoPane
  ELSE IF p.id # None THEN [p EXCEPT !.id = v.selected] ELSE Mounted(v)

\* The pane after a render: key={subdomain} mounts another one for another row.
Rendered(v, p) ==
  IF ~Selected(v) \/ ~v.server THEN NoPane
  ELSE IF p.id = v.selected THEN p ELSE Mounted(v)

\* Requests of a part that is gone are still answered, to the page or to nobody.
Orphaned(requests, part, heir) ==
  {IF f.request.to = part THEN [f EXCEPT !.request.to = heir] ELSE f : f \in requests}

\* A render with these states: the pane that was shown may be gone by it.
Show(v, p, d, requests) ==
  /\ view' = v
  /\ pane' = Rendered(v, p)
  /\ IF pane'.id = p.id
     THEN dialog' = d /\ flight' = requests
     ELSE /\ dialog' = IF d.kind = "rotate" THEN NoDialog ELSE d
          /\ flight' = Orphaned(requests, "pane", "page")

\* navigate('/login'): the page of registrations and all in it are unmounted.
Leave(requests) ==
  /\ page' = "login"
  /\ view' = NewPage /\ pane' = NoPane /\ dialog' = NoDialog /\ runs' = NoRuns
  /\ flight' = {IF f.request.to # "login" THEN [f EXCEPT !.request.to = "gone"] ELSE f : f \in requests}

Act == acts < MaxActs /\ acts' = acts + 1 /\ UNCHANGED mishaps
Mishap == mishaps < MaxMishaps /\ mishaps' = mishaps + 1 /\ UNCHANGED acts
Unbounded == UNCHANGED <<acts, mishaps>>

OnPage == page = "domains" /\ dialog = NoDialog
Listed(id) == view.list[id].there

------------------------------------------------------------------------------
(* The list: what the user does on the page *)

Refresh ==
  /\ OnPage /\ Act
  /\ Show([view EXCEPT !.loading = TRUE], pane, dialog,
          Sent(flight, Request("list", "page", None, NoName, None)))
  /\ ReadToken
  /\ UNCHANGED <<serverVars, page, login, runs, revealed, excused>>

SelectRow(id) ==
  /\ OnPage /\ ~view.loading /\ Listed(id)
  /\ Show([view EXCEPT !.selected = id, !.created = None], pane, dialog, flight)
  /\ revealed' = IF id = view.selected THEN revealed ELSE {}
  /\ UNCHANGED <<serverVars, storeVars, page, login, runs, excused>> /\ Unbounded

Open(kind, id) ==
  /\ OnPage /\ acts < MaxActs
  /\ \/ kind \in {"create", "match"} /\ id = None
     \/ kind = "check" /\ id # None /\ ((Listed(id) /\ ~view.loading) \/ pane.id = id)
     \/ kind = "delete" /\ id # None /\ pane.id = id
     \/ kind = "rotate" /\ id # None /\ pane.id = id /\ ~pane.busy
  /\ dialog' = [kind |-> kind, id |-> id]
  /\ UNCHANGED <<clientVars, page, login, view, pane, runs, revealed, excused>> /\ Unbounded

\* DnsCheckDialog is unmounted when it is closed, the others go on loading.
Close ==
  /\ dialog # NoDialog
  /\ dialog' = NoDialog
  /\ runs' = IF dialog.kind = "check" THEN [runs EXCEPT !.check = FALSE] ELSE runs
  /\ flight' = Orphaned(flight, "dialog", "page")
  /\ UNCHANGED <<serverVars, storeVars, page, login, view, pane, revealed, excused>> /\ Unbounded

\* submit and run of the three dialogs that send a request: one at a time.
RunDialog(name) ==
  LET kind == dialog.kind
  IN /\ kind \in DOMAIN runs /\ ~runs[kind] /\ Act
     /\ kind = "create" => name # NoName
     /\ kind = "check" => name = NoName
     /\ runs' = [runs EXCEPT ![kind] = TRUE]
     /\ flight' = Sent(flight, Request(kind, IF kind = "check" THEN "dialog" ELSE "page",
                                       dialog.id, name, None))
     /\ ReadToken
     /\ UNCHANGED <<serverVars, page, login, view, pane, dialog, revealed, excused>>

\* confirmDelete compares with the selection of the render the button was in.
ConfirmDelete ==
  /\ dialog.kind = "delete" /\ Act
  /\ dialog' = NoDialog
  /\ flight' = Sent(flight, Request("delete", "page", dialog.id, NoName, view.selected))
  /\ ReadToken
  /\ UNCHANGED <<serverVars, page, login, view, pane, runs, revealed, excused>>

Logout ==
  /\ OnPage /\ Act
  /\ flight' = Sent(flight, Request("logout", "page", None, NoName, None))
  /\ ReadToken
  /\ UNCHANGED <<serverVars, page, login, view, pane, dialog, runs, revealed, excused>>

------------------------------------------------------------------------------
(* The pane *)

TogglePassword ==
  /\ OnPage /\ pane.id # None /\ pane.record.available
  /\ pane' = [pane EXCEPT !.shown = ~pane.shown]
  /\ revealed' = revealed \union {pane.id}
  /\ UNCHANGED <<clientVars, page, login, view, dialog, runs, excused>> /\ Unbounded

saveName(name) ==
  /\ OnPage /\ pane.id # None /\ name # pane.record.name /\ ~pane.busy /\ Act
  /\ pane' = [pane EXCEPT !.busy = TRUE]
  /\ flight' = Sent(flight, Request("rename", "pane", pane.id, name, None))
  /\ ReadToken
  /\ UNCHANGED <<serverVars, page, login, view, dialog, runs, revealed, excused>>

\* Mutant of rotate: the buttons are not disabled.
RotateWithoutBusy ==
  /\ dialog.kind = "rotate" /\ Act
  /\ dialog' = NoDialog
  /\ flight' = Sent(flight, Request("rotate", "pane", pane.id, NoName, None))
  /\ ReadToken
  /\ UNCHANGED <<serverVars, page, login, view, pane, runs, revealed, excused>>

rotate ==
  /\ dialog.kind = "rotate" /\ Act
  /\ dialog' = NoDialog
  /\ pane' = [pane EXCEPT !.busy = TRUE]
  /\ flight' = Sent(flight, Request("rotate", "pane", pane.id, NoName, None))
  /\ ReadToken
  /\ UNCHANGED <<serverVars, page, login, view, runs, revealed, excused>>

------------------------------------------------------------------------------
(* The login page *)

SubmitLogin ==
  /\ page = "login" /\ ~login /\ Act
  /\ login' = TRUE
  /\ flight' = Sent(flight, Request("login", "login", None, NoName, None))
  /\ ReadToken
  /\ UNCHANGED <<serverVars, page, view, pane, dialog, runs, revealed, excused>>

TakeLogin(f) ==
  /\ f.request.kind = "login"
  /\ login' = FALSE
  /\ IF f.request.answer.status = "ok"
     THEN /\ token' = f.request.answer.token /\ expired' = FALSE
          /\ page' = "domains"
          /\ flight' = LET q(kind) == [Request(kind, "page", None, NoName, None)
                                         EXCEPT !.token = f.request.answer.token]
                       IN Sent(Sent(flight \ {f}, q("list")), q("server"))
     ELSE flight' = flight \ {f} /\ UNCHANGED <<storeVars, page>>
  /\ UNCHANGED <<serverVars, view, pane, dialog, runs, revealed, excused>>

------------------------------------------------------------------------------
(* Taking an answer *)

Good(f, kind) == f.request.kind = kind /\ f.request.answer.status = "ok"
Bad(f, kind) == f.request.kind = kind /\ f.request.answer.status \in {"failed", "missing"}
Alive(f) == f.request.to # "gone"

\* The list request that follows a change, sent for the page if there still is one.
Reloading(f) ==
  Sent(flight \ {f}, Request("list", IF Alive(f) THEN "page" ELSE "gone", None, NoName, None))

\* Mutant of TakeUnauthorized: the session is cleared and the page stays.
TakeUnauthorizedOnly(f) ==
  /\ f.request.kind # "login" /\ f.request.answer.status = "unauthorized"
  /\ token' = 0 /\ expired' = FALSE
  /\ flight' = flight \ {f}
  /\ UNCHANGED <<serverVars, uiVars, revealed, excused>>

\* 401 to anything but a login ends the session, whichever token is stored by now.
TakeUnauthorized(f) ==
  /\ f.request.kind # "login" /\ f.request.answer.status = "unauthorized"
  /\ token' = 0 /\ expired' = FALSE
  /\ Leave(flight \ {f})
  /\ revealed' = {}
  /\ UNCHANGED <<serverVars, login, excused>>

TakeLogout(f) ==
  /\ Good(f, "logout") \/ Bad(f, "logout")
  /\ token' = 0 /\ expired' = FALSE
  /\ Leave(flight \ {f})
  /\ revealed' = {}
  /\ UNCHANGED <<serverVars, login, excused>>

\* reload after its await: the list that arrived last is the one shown.
TakeList(f) ==
  /\ Good(f, "list") /\ Alive(f)
  /\ Show([view EXCEPT !.list = f.request.answer.list, !.at = f.request.answer.at,
             !.failed = FALSE, !.loading = FALSE], pane, dialog, flight \ {f})
  /\ excused' = (excused \/ f.request.answer.at < view.at)
  /\ UNCHANGED <<serverVars, storeVars, page, login, runs, revealed>>

\* Mutant of TakeFailedList: the page stays in its skeleton.
TakeFailedListOnly(f) ==
  /\ Bad(f, "list") /\ Alive(f)
  /\ Show([view EXCEPT !.failed = TRUE], pane, dialog, flight \ {f})
  /\ UNCHANGED <<serverVars, storeVars, page, login, runs, revealed, excused>>

TakeFailedList(f) ==
  /\ Bad(f, "list") /\ Alive(f)
  /\ Show([view EXCEPT !.failed = TRUE, !.loading = FALSE], pane, dialog, flight \ {f})
  /\ UNCHANGED <<serverVars, storeVars, page, login, runs, revealed, excused>>

TakeServer(f) ==
  /\ Good(f, "server") /\ Alive(f)
  /\ Show([view EXCEPT !.server = TRUE], pane, dialog, flight \ {f})
  /\ UNCHANGED <<serverVars, storeVars, page, login, runs, revealed, excused>>

\* Nobody waits any more, or nothing follows.
TakeNothing(f) ==
  /\ \/ f.request.kind \in {"list", "server"} /\ ~Alive(f)
     \/ Bad(f, "server") \/ Bad(f, "delete")
     \/ f.request.kind = "check" /\ f.request.to # "dialog"
     \/ f.request.kind \in {"create", "match"} /\ ~Good(f, f.request.kind) /\ ~Alive(f)
     \/ Good(f, "match") /\ f.request.answer.id = None /\ ~Alive(f)
     \/ f.request.kind \in {"rename", "rotate"} /\ ~Good(f, f.request.kind) /\ f.request.to # "pane"
  /\ f.request.answer.status \notin {"waiting", "unauthorized"}
  /\ flight' = flight \ {f}
  /\ UNCHANGED <<serverVars, storeVars, uiVars, revealed, excused>>

\* submit of CreateDomainDialog after its await, and onCreated.
TakeCreated(f) ==
  /\ Good(f, "create") /\ ReadToken
  /\ IF Alive(f)
     THEN LET v == [view EXCEPT !.selected = f.request.answer.id, !.created = f.request.answer.id]
              d == IF dialog.kind = "create" THEN NoDialog ELSE dialog
          IN /\ Show(v, pane, d, Reloading(f))
             /\ runs' = [runs EXCEPT !.create = FALSE]
             /\ revealed' = {f.request.answer.id}
     ELSE flight' = Reloading(f) /\ UNCHANGED <<view, pane, dialog, runs, revealed>>
  /\ UNCHANGED <<serverVars, page, login, excused>>

\* A run of a dialog that failed: its catch and finally.
TakeFailedRun(f) ==
  /\ \E kind \in DOMAIN runs :
       /\ Bad(f, kind) /\ f.request.to = IF kind = "check" THEN "dialog" ELSE "page"
       /\ runs' = [runs EXCEPT ![kind] = FALSE]
  /\ flight' = flight \ {f}
  /\ UNCHANGED <<serverVars, storeVars, page, login, view, pane, dialog, revealed, excused>>

TakeCheck(f) ==
  /\ Good(f, "check") /\ f.request.to = "dialog"
  /\ runs' = [runs EXCEPT !.check = FALSE]
  /\ flight' = flight \ {f}
  /\ UNCHANGED <<serverVars, storeVars, page, login, view, pane, dialog, revealed, excused>>

\* run of MatchDomainsDialog after its await: the list is refreshed if names were written.
TakeMatch(f) ==
  /\ Good(f, "match")
  /\ runs' = IF Alive(f) THEN [runs EXCEPT !.match = FALSE] ELSE runs
  /\ IF f.request.answer.id # None
     THEN /\ ReadToken
          /\ flight' = Reloading(f)
          /\ view' = IF Alive(f) THEN [view EXCEPT !.loading = TRUE] ELSE view
     ELSE Alive(f) /\ flight' = flight \ {f} /\ UNCHANGED <<storeVars, view>>
  /\ UNCHANGED <<serverVars, page, login, pane, dialog, revealed, excused>>

\* confirmDelete after its await.
TakeDeleted(f) ==
  /\ Good(f, "delete") /\ ReadToken
  /\ IF Alive(f) /\ f.request.sel = f.request.id
     THEN Show([view EXCEPT !.selected = None], pane, dialog, Reloading(f))
     ELSE flight' = Reloading(f) /\ UNCHANGED <<view, pane, dialog>>
  /\ UNCHANGED <<serverVars, page, login, runs, revealed, excused>>

\* Mutant of TakeRenamed: the list is not loaded again.
TakeRenamedOnly(f) ==
  /\ Good(f, "rename") /\ ReadToken
  /\ flight' = flight \ {f}
  /\ pane' = IF f.request.to = "pane"
             THEN [pane EXCEPT !.record = [f.request.answer.record EXCEPT !.password = pane.record.password],
                               !.busy = FALSE]
             ELSE pane
  /\ UNCHANGED <<serverVars, page, login, view, dialog, runs, revealed, excused>>

\* saveName after its await.
TakeRenamed(f) ==
  /\ Good(f, "rename") /\ ReadToken
  /\ flight' = Reloading(f)
  /\ pane' = IF f.request.to = "pane"
             THEN [pane EXCEPT !.record = [f.request.answer.record EXCEPT !.password = pane.record.password],
                               !.busy = FALSE]
             ELSE pane
  /\ UNCHANGED <<serverVars, page, login, view, dialog, runs, revealed, excused>>

\* rotate after its await.
TakeRotated(f) ==
  /\ Good(f, "rotate") /\ ReadToken
  /\ flight' = Reloading(f)
  /\ IF f.request.to = "pane"
     THEN /\ pane' = [pane EXCEPT !.record = f.request.answer.record, !.shown = TRUE, !.busy = FALSE]
          /\ revealed' = revealed \union {pane.id}
     ELSE UNCHANGED <<pane, revealed>>
  /\ UNCHANGED <<serverVars, page, login, view, dialog, runs, excused>>

TakeFailedPane(f) ==
  /\ Bad(f, "rename") \/ Bad(f, "rotate")
  /\ f.request.to = "pane"
  /\ pane' = [pane EXCEPT !.busy = FALSE]
  /\ flight' = flight \ {f}
  /\ UNCHANGED <<serverVars, storeVars, page, login, view, dialog, runs, revealed, excused>>

Take(f) ==
  /\ f.request.answer.status # "waiting" /\ Unbounded
  /\ \/ TakeLogin(f) \/ TakeUnauthorized(f) \/ TakeLogout(f) \/ TakeList(f) \/ TakeFailedList(f)
     \/ TakeServer(f) \/ TakeNothing(f) \/ TakeCreated(f) \/ TakeFailedRun(f) \/ TakeCheck(f)
     \/ TakeMatch(f) \/ TakeDeleted(f) \/ TakeRenamed(f) \/ TakeRotated(f) \/ TakeFailedPane(f)

------------------------------------------------------------------------------
(* The specification *)

\* The login page, or a page of registrations that has been loaded.
Init ==
  /\ LET old == CHOOSE id \in Ids : TRUE
     IN \E readable \in {Storage, FALSE} :
          registrations = [id \in Ids |->
            IF id = old THEN [state |-> "there", name |-> NoName, password |-> 1, readable |-> readable]
            ELSE [state |-> "unused", name |-> NoName, password |-> 0, readable |-> FALSE]]
  /\ issued = 1 /\ changes = 0 /\ expired = FALSE /\ logins = 1 /\ flight = {}
  /\ \/ sessions = {} /\ token = 0 /\ page = "login" /\ view = NewPage
     \/ /\ sessions = {1} /\ token = 1 /\ page = "domains"
        /\ view = [NewPage EXCEPT !.list = List, !.loading = FALSE, !.server = TRUE]
  /\ login = FALSE /\ pane = NoPane /\ dialog = NoDialog /\ runs = NoRuns
  /\ revealed = {} /\ excused = FALSE /\ acts = 0 /\ mishaps = 0

User ==
  \/ Refresh \/ Close \/ ConfirmDelete \/ Logout
  \/ TogglePassword \/ rotate \/ SubmitLogin
  \/ \E id \in Ids : SelectRow(id)
  \/ \E kind \in {"create", "match", "check", "delete", "rotate"}, id \in Ids \union {None} : Open(kind, id)
  \/ \E name \in Names \union {NoName} : RunDialog(name) \/ saveName(name)

World ==
  /\ \/ \E f \in flight : Lose(f) /\ excused' = TRUE
     \/ OtherAdmin /\ excused' = TRUE
     \/ (RestartServer \/ Expire) /\ UNCHANGED excused
  /\ Mishap /\ UNCHANGED <<uiVars, revealed>>

\* What a page that was left has changed, the next one does not load again.
OutlivesPage(f) == f.request.to = "gone" /\ page = "domains" /\ changes' # changes

ServeOne ==
  \E f \in flight :
    /\ Serve(f) /\ Unbounded
    /\ excused' = (excused \/ OutlivesPage(f))
    /\ UNCHANGED <<uiVars, revealed>>
TakeOne == \E f \in flight : Take(f)

\* The bounds are used up and everything is answered.
Rest == acts = MaxActs /\ flight = {} /\ UNCHANGED vars

Next == User \/ World \/ ServeOne \/ TakeOne \/ Rest

\* Every request is answered, or fails, and its answer is taken; the user need do nothing.
Spec == Init /\ [][Next]_vars /\ WF_vars(ServeOne) /\ WF_vars(TakeOne)

------------------------------------------------------------------------------
(* Properties *)

\* The parts of the page hold values their components can hold, and a request is
\* owned by a part that is there.
TypeOK ==
  /\ page \in {"login", "domains"} /\ login \in BOOLEAN /\ excused \in BOOLEAN
  /\ view.selected \in Ids \union {None} /\ pane.id \in Ids \union {None}
  /\ dialog.kind \in {None, "delete", "rotate"} \union DOMAIN runs
  /\ revealed \subseteq Ids
  /\ \A f \in flight :
       /\ f.request.to \in {"pane", "dialog", "page", "login", "gone"}
       /\ f.request.to = "pane" => pane.busy
       /\ f.request.to = "dialog" => dialog.kind = "check" /\ runs.check
       /\ f.request.to = "page" => page = "domains"
       /\ f.request.to = "login" => page = "login" /\ login

\* When nothing is in flight, no request was lost, nobody else changed anything, not
\* even a page that was left, and no list overtook another, the page lists what the
\* server holds: every handler that changes a registration loads the list again
\* (onChanged, onCreated, onApplied and reload in confirmDelete).
OwnChangesAreListed ==
  page = "domains" /\ flight = {} /\ ~excused => view.list = List

\* The pane is about the selected row and shows that row's registration, whichever
\* answers arrive after another row was picked, and a password is readable on the
\* screen only if the user asked for it since picking this row (key={subdomain},
\* setRecord after an await).
PaneIsOfSelection ==
  pane.id # None =>
    /\ pane.id = view.selected /\ pane.record.id = pane.id
    /\ pane.shown => pane.id \in revealed

\* A page of registrations without a token is about to be left: a request without a
\* token is on its way to a 401 (session.token clears, request sends nothing), unless
\* it was lost.
DeadSessionIsNoticed ==
  page = "domains" /\ token = 0 => excused \/ \E f \in flight : f.request.token = 0

\* No part of the page waits for ever: every spinner and every disabled button of a
\* request is released by its answer or its failure (the finally blocks).
RequestsEnd ==
  /\ (page = "domains" /\ view.loading) ~> ~(page = "domains" /\ view.loading)
  /\ pane.busy ~> ~pane.busy
  /\ login ~> ~login
  /\ \A kind \in DOMAIN NoRuns : runs[kind] ~> ~runs[kind]

\* What a comment says of the pane (domains.tsx:113): it always shows current data.
\* When nothing is in flight and nothing went wrong, the registration in the pane is
\* the one in the list.
PaneShowsCurrent ==
  pane.id # None /\ flight = {} /\ ~excused => pane.record = view.list[pane.id]
==============================================================================
