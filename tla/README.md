# acme-dns in TLA+

This directory holds a verification project for this repository's acme-dns: a DNS
server that answers `TXT` queries for delegated `_acme-challenge` names, an HTTP API
with which ACME clients write those values, a SQL store behind both, and a management
UI with its own admin API. The modules are translated from the Go and TypeScript sources
under `src/`; TLC checks them on small instances and TLAPS proves what matters most for
every size.

## 1. The system

| component | state it keeps | operations | talks to |
| --- | --- | --- | --- |
| `pkg/database` | tables `records` (one row per registration: password hash, encrypted copy, allowfrom, label, last address) and `txt` (two rows per registration: value, stamp in seconds); an RWMutex; the credentials cipher | `RegisterWithName`, `Update`, `GetTXTForDomain`, `GetByUsername`, `GetAllDomains`, `GetBySubdomain`, `UpdateDomainName`, `DeleteDomain`, `RotatePassword`, `SetLastSource`; schema upgrades in `Init` | SQLite (one connection) or PostgreSQL (ten) |
| `pkg/api`, client side | nothing between requests; inside a request the registration that `Auth` read | `/register`, `/update`, `/health` | database |
| `pkg/api`, admin side | admin sessions and failed logins by address, in memory; the PTR cache | login, logout, list, create, rename, rotate, delete, DNS check, match run | database, public resolvers |
| `pkg/nameserver` | static records from the config, the own ACME key authorisation | `handleRequest` and `answer`, `SetOwnAuthKey` | database (reads) |
| `pkg/api/challengeprovider.go` | none | `Present`, `CleanUp`, called by certmagic while it obtains the server's own certificate | every nameserver |
| `main.go` | the error channel | starts the database, the nameservers and the API, then waits for an error | all |
| `ui/src/pages`, `features`, `lib` | the session token in the browser, the list of registrations, the selection, the open detail pane with its own copy, the dialogs | the admin operations | admin API |
| `ui/src/components/reui/data-grid` | cells: focus, selected ranges, a drag, an editor session; columns: widths, pinning, visibility, the growth of one column; rows: what is mounted, a row to be revealed, the latch of the next load | batches of changes by delete, cut, paste and fill; editing; resizing; scrolling and loading | the table and virtualizer libraries, the clipboard, the consumer's callbacks |

How the parts meet: the API's handlers and the DNS server share nothing but the tables;
every method of the database takes the package's mutex for one statement or transaction,
and a handler that calls two of them holds nothing in between. main, the DNS servers, the
API and certmagic share a mutex, a channel of one error and the keys of the servers.

What is hard here: requests run in goroutines of their own and make several database
calls without a lock between them; the stamps that order the two TXT rows are whole
seconds of a wall clock; commits and inserts whose errors are dropped; upgrades that can
stop half way; counters and caches in memory with times of expiry; startup that waits on
locks and a channel; a UI whose answers arrive after the state they describe has changed;
a grid whose timers, measurements, drags and renders use state of different instants.

What makes each part correct:

- **tables**: the two last values of a registration are served, a deletion is complete
  and final, the password that is shown is the one that works, what a caller is told of a
  registration holds exactly where the commit behind it took place;
- **handlers**: whatever interleaves, an update that reports success was stored unless its
  registration went meanwhile, and the recorded address belongs to a stored update;
- **DNS answers**: what was written is answered, positively and authoritatively; what was
  not does not exist; a failing database never makes an answer that contradicts itself;
- **upgrades**: a recorded version is true, wherever the process stopped, while commits
  succeed; served values outlast upgrades and restarts unless a start could not read the
  version or an earlier one failed and served nevertheless; in the end the schema is
  current, or a statement of the last start has failed;
- **logins**: a bounded number of guesses, locks and sessions that last as long as they
  should, no lock for ever;
- **process**: DNS is up before a certificate is ordered, the own challenge is answered by
  whichever server's handler is called, a failure ends the process;
- **mutex and timeouts**: nothing waits for ever, and a DNS lookup not longer than a bound;
- **match run, DNS check, reverse lookups**: what they report and write is true of the
  registrations and of public DNS as they saw them, and they answer in time;
- **pages**: an answer never lands in another registration's pane, no password shows by
  itself, what the user changed is listed, a session that is gone is noticed, and no part
  of the page waits for ever;
- **data grid**: a batch changes cells that are shown and selected only and can be undone,
  what is copied and pasted where it came from gives each cell its own text back, an editor
  hands over once, the last call gets the focus, a width has one writer and growth comes to
  rest, a row that was asked for is shown and the scrolling then left alone, rows are asked
  for once, and every row spans the table.

## 2. Modules

| module | models | builds on |
| --- | --- | --- |
| `TxtWindow` | abstract specification: a registration answers with the two values written last | |
| `Database` | `db.go` methods, `crypto.go`: one action per method that writes | |
| `Api` | `update.go`, `auth.go`, `register.go`, `admin.go`, the writing part of `dnscheck.go`: handlers step by step | `Database` |
| `NameServer` | `handler.go`, `parseconfig.go`, `validation.go`: the response to a question as an operator over the tables | `Database` |
| `System` | API, administrators and DNS over one database | `Api`, `NameServer` |
| `Migration` | `db.go` `Init`, `handleDBUpgrades` and below | |
| `Sessions` | `adminauth.go` | |
| `Server` | `main.go`, `initialize.go`, `api.Start`, `challengeprovider.go` | |
| `DbLock` | how long a database call takes: RWMutex, pool, context timeouts | |
| `MatchRun` | `identify.go` `webAdminMatchDomains` | `Database` |
| `DnsCheck` | `dnscheck.go`: resolvers, poll, deadline, in seconds | |
| `PtrLookup` | `identify.go` `resolvePTRs` and its cache | |
| `AdminClient` | `ui/src/lib/api.ts` and the handlers of `admin.go` it reaches: tokens, requests in flight, their answers | |
| `AdminUi` | `domains.tsx`, `domain-detail.tsx`, the dialogs, `login.tsx` | `AdminClient` |
| `Clipboard` | `data-grid-cell-selection.tsx`: text of a region of cells and back | |
| `CellSelection` | `data-grid-cell-selection.tsx`: focus, ranges, batches of changes, fill, undo | `Clipboard` |
| `CellEditor` | `data-grid-cell-selection.tsx`: editor sessions, `focusCell` and its timers | |
| `ColumnWidths` | `data-grid-table.tsx`, `data-grid.tsx`: resizing and automatic growth | |
| `VirtualRows` | `data-grid-table-virtual.tsx`: mounted rows, reveal, fetching more | |
| `GridBody` | `data-grid-table.tsx`, `-virtual`, `-dnd`, `-dnd-rows`: what each row spans, and when the body is rendered | |
| `Services` | the parts of the server that do not interact, side by side: one behaviour is one part's | one instance each of `Sessions`, `DbLock`, `DnsCheck`, `PtrLookup`, `MatchRun`, `Migration`, `Server` |
| `Grid` | the parts of the data grid in the same way | one instance each of `CellSelection` (by way of `CellsProofs`, so that its theorems come with it), `CellEditor`, `ColumnWidths`, `VirtualRows`, `GridBody` |
| `DatabaseProofs`, `SystemProofs` | theorems about the path from a request to the DNS answer, and that `Database` and `System` implement `TxtWindow` | `Database`; `Api` and `System` |
| `SessionsProofs`, `ServerProofs`, `ServicesProofs` | theorems about the other parts of the server | `Sessions`, `Server`, `Services` |
| `AdminUiProofs` | theorems about the pages | `AdminUi` |
| `CellsProofs` | theorems about the clipboard's text and the state of the selection | `CellSelection` |
| `GridProofs` | theorems about the data grid | `Grid` |
| `MCDatabase`, `MCSystem`, `MCServices`, `MCServer`, `MCGrid`, `MCCells`, `MCWidths` | values for the constants that a `.cfg` cannot write, and in `MCServices` what must happen in the end | the modules they are named for |

How they correspond to the code:

- **Database.** `records` and `txt` are the tables as partial functions; a row of `txt` is
  its value and its stamp. A method runs under the mutex and in one transaction, so it is
  one action. The text of a value, a name or a hash is a model value; password *n* is the
  *n*-th that was generated; encryption is the pair of key and text, so that decrypting
  with another key, or none, yields nothing, as `DecryptOrEmpty` does. `Oldest` is the
  `ORDER BY LastUpdate LIMIT 1` of `Update` and leaves ties open, as SQL does.
  `answered` is what a caller was told of a registration, and whether the commit behind
  it took place. `InsertMayFail` and `CommitMayFail` switch on the errors the code drops,
  `ClockMayStepBack` a wall clock that is set back.
- **Api.** `req[c]` is what a handler keeps between two calls: after `Auth`, after
  `Update` and before `SetLastSource`, or in a DNS check before its token is written.
  `kept` records whether `Update` found a row; the code does not look.
- **NameServer.** A query makes one database call, so its answer is a function of the
  tables at one instant: `Responses`. The lookup may fail or end early, and then yields a
  subset of the values, which `answer` cannot tell from fewer values.
- **Migration.** `disk` survives a stop, `pc`, `version` and `unknown` do not. One action
  per transaction, and a stop may come between the `CREATE` statements, which commit by
  themselves. The text of the schema is the set of columns each version added. `misread` and
  `startFailed` remember what went wrong at a start whose error was dropped or only logged.
- **Sessions.** Each critical section of the mutex is an action: `LockedOut` (`Admit`),
  `RecordFailure` (`Refuse`), `Issue`, `ClearFailures`; times are what is left of them.
- **Server.** One state per goroutine. `handler` is the server that registered last for
  `"."` in the package dns, which answers for both.
- **DbLock.** Go's RWMutex as its documentation has it: a writer that waits keeps new
  readers out, and goes when those inside have left. Any statement may stall; its context
  ends it. The context begins when the mutex is held.
- **MatchRun, DnsCheck, PtrLookup.** One request at work and what goes on around it:
  administrators, resolvers that fail or differ, other requests over one cache. What public
  DNS answers is chosen anew for each question, except that `DnsCheck` fixes the CNAME. A
  list reads its entries of the cache in one step, where `resolvePTRs` takes the mutex for
  each: in between another request can only put an entry that is fresher.

- **AdminClient, AdminUi.** A handler runs up to its request in one step (`Sent`), the
  server answers in another (`Serve`), and what follows the `await` runs when the answer is
  taken (`TakeRenamed` and the like), in whatever order and whatever page is shown by then. A
  request carries the part that waits for it: when that is unmounted its `setState` changes
  nothing, but what the handler does for the page (`onChanged`, `reload`) still happens.
  `Show` is a render: `Rendered` keeps the pane of the same registration and mounts a new
  one for another (`key={subdomain}`), with the copy that `useState` takes.
- **Clipboard, CellSelection.** A text is a sequence of the four characters that matter to
  the format and others. Rows are numbered in display order, pages show some of them and
  pinned rows are on all; the table library's selection is modelled from its use. A batch
  is what `onCellsChange` is given; `data` is the consumer's. `FormatOf` is the field a
  column shows for a value (its `format`, or `String(value ?? "")`), `ParseOf` what it makes
  of the fields it does not refuse, `Parsing` the columns that have a `parse` of their own,
  and `ClearValue` what a cleared cell holds.
- **CellEditor.** What an event sets is shown by a later `Render`, timers and other events
  come in between; `finishedRef` is the field `finished` of the mounted editor.
- **ColumnWidths.** `sizing` is the live state, `rendered` what was measured last. The
  stream of measurements with its 150 ms is `recent`, `parked` and `timer`.
- **VirtualRows.** Rows of one unit, a container and a header that may cover them. `window`
  is what the virtualizer names in a render, `mounted` what the memoized body last had.
- **GridBody.** A row is the sequence of its cells with their spans, the column group the
  sequence of columns. `body` is kept while a drag lasts unless the context is new.

Mutants, the plausible wrong versions of a definition that the runs must tell apart, stand
right before the definition they replace and are used nowhere else.

## 3. The runs

| run | configuration | shows |
| --- | --- | --- |
| `system` | `MCSystem`, `System_all.cfg` | one registration, two requests in flight, failing calls, restarts, failing commits, an administrator at any time, DNS questions at every instant: nine invariants from the tables to the answer |
| `db_window` | `MCDatabase`, `Database_window.cfg` | two registrations, failing commits, a clock set back, restarts with and without a key: `Database` implements `TxtWindow` when updates come in distinct seconds; a shown password works |
| `services` | `MCServices`, `MCServices.cfg` | each independent part of the server: bounds on guesses, what ends a lock or a session (`Sessions`); the longest wait of a DNS lookup, and that every call returns (`DbLock`); a DNS check's verdict is true and in time (`DnsCheck`); host names are fresh and lists take a bounded time (`PtrLookup`); a run with `apply` labels what it says it labels, and writes what it reports, whatever administrators do meanwhile (`MatchRun`); upgrades from every version and from nothing, with stops and errors (`Migration`); start, own certificate and end of the process (`Server`) |
| `ui_page` | `AdminUi_page.cfg` | one tab and the server, two requests of the user and one mishap, answers in any order |
| `grid` | `MCGrid`, `MCGrid.cfg` | each part of the data grid: cells and clipboard, editor, widths, virtual rows, the body |
| `db_rolling` | `MCDatabase`, `Database_rolling.cfg` | **violated**: the last two values are both served |
| `sess_relock` | `Sessions_relock.cfg` | **violated**: it takes `maxLoginFailures` failures to lock an address |
| `srv_taken` | `MCServer`, `Server_taken.cfg` | **violated**: a server that cannot listen ends the process |
| `ui_current` | `AdminUi_current.cfg` | **violated**: the pane always shows current data |
| `grid_paste` | `MCCells`, `MCCells_paste.cfg` | **violated**: a batch touches only cells that are selected |
| `grid_widths` | `MCWidths`, `MCWidths_ratchet.cfg` | **violated**: hiding and showing columns cannot leave the table wider than its container |
| `grid_blank` | `MCVirtual_drag.cfg` | **violated**: rows that scroll into sight during a drag are rendered |

`services` and `grid` put specifications side by side that share no state: the variable
`unit` says whose behaviour it is, the variables of the others rest at `"idle"`, and each
property says what its part promises. Nothing is lost by it, since no part reads
another's variables, and the properties of a part are stated and explained in its module.
Both compositions have the constants of all their parts, so that the theorems are about the
very properties the runs check.

`OwnChangesAreListed` leaves out what the code does nothing against: a request that was
lost, a list that a later one has overtaken, a change by somebody else, and a change of a
page that was left (`OutlivesPage`): a page that an answer of 401 has closed may have a
rename on its way, which the server makes after the next login's page has loaded its list.
It takes five things the user does, and came up when the invariant was to be made inductive.

The violated runs are disagreements between the code and what the repository says of
it, with the quotation in `PROJECT.json` under `findings`:

- `README.md:23` promises a *rolling update of two TXT records*. The row to overwrite is
  chosen by a stamp in whole seconds: A, B and C written within one second can leave A and
  C. What does hold is `FirstOfItsSecondSurvives`, and `RollingWindow` for distinct seconds.
- `README_COMBINED.md:141` says five failed logins lock an address. When a lock has run
  out its count stays, so one more failure locks again, until a login succeeds from
  that address (or from any address, which prunes the counts whose locks are over).
- `config.cfg:2-4` says acme-dns *will error out* when the address is in use. The error
  goes to the channel, but main waits for a mutex that only a listening server unlocks.

- `domains.tsx:113-114` says the pane *always shows current data*. `DomainDetail` copies its
  registration when it is mounted and is mounted anew only for another subdomain.
- `data-grid-cell-selection.tsx:245-247` says *the cells a batch touches are exactly the
  cells the selection paints*. A single value is repeated for every row the selection spans,
  those of other pages too, and written into as many rows that are shown: beyond the
  selection, when it crosses a page to a pinned row.
- `data-grid.tsx:572-575` says that *visibility toggles cannot ratchet the table wider than
  its container forever*. The growth is reverted only when another column grows.
- `data-grid-table-virtual.tsx:649-650` says *the virtualizer re-renders itself from inside
  the memo boundary*. It is outside, and what scrolls into sight in a drag stays blank.

Others of the kind come with the modules and have no run of their own: with
`CommitMayFail = TRUE`, `RecordedVersionIsReached` fails (`db.go:277`), and a caller is told
the opposite of what the tables hold (`db.go:405, 709`), which `AnswersHold` says exactly;
with four resolvers, or `Truncation = TRUE`, `AnswerInTime` fails (`dnscheck.go:122-128`); two
overlapping updates can leave the address of the earlier one with the value of the later
one (`update.go:38-53`, `types.go:102`); a DNS lookup can wait up to `LookupBounded`, which
is far more than `dbReadTimeout` (`db.go:45, 487-489`); a CNAME into another zone counts as
a match when its first label is a registration's (`identify.go:215`); a list of more than
`ptrConcurrency` unknown addresses costs more than the *one slow round* of `admin.go:113`;
without a credentials key the password in the answer to a creation is dropped
(`domains.tsx:411`); draggable tables whose columns are resizable and pinned to the end put
their filler cell under another column's strip (`data-grid-table-dnd-rows.tsx:314`); the
latch of `onFetchMore` also keeps a load that failed from being asked for again
(`data-grid-table-virtual.tsx:1031`).

### Bounds

- `system`: one registration, since two meet only in the keys of the tables (`db_window`
  and the match run have two); two requests, so that every pair of handlers interleaves; two
  seconds, so that two writes share one or do not; two passwords, so that a request may
  carry one that was replaced; two addresses and the allowfrom lists *everybody* and *one
  of them*. Commits may fail. `InsertMayFail` is off: `RegistrationHasTwoRows` and
  `UpdateIsVisible` are what the code promises while the `INSERT`s whose errors it drops
  succeed. The requests are interchangeable (SYMMETRY), which is sound for the
  invariants this run checks.
- `db_window`: three seconds and two values fill a window and push a value out of it, and
  let the clock go back behind a stamp; two passwords and one key let a rotation happen
  with, without and again with a key. Its VIEW leaves out the history variable
  `written`, which guards nothing and which no property of the run reads.
- `db_rolling`: three values in one second need one registration.
- `services`, sessions, and `sess_relock`: limits of two (failures, ticks of lockout and of a session)
  are the least at which *below*, *at* and *past* the limit differ; two addresses, so that one is
  locked while the other logs in; two logins, so that one is past the check when the other
  reaches the limit.
- `services`, migration: two registrations, three stops, so that a stop can hit two upgrades and
  the time after. Statements whose errors `Init` returns may fail, and so may the read of the
  version; `CommitMayFail`, `InsertMayFail`, `DeleteMayFail` and `CreateMayFail` are off, for
  `SchemaIsSound` as above.
- `services`, server: all layouts `general.protocol` allows, an address that may be in use, two keys.
- `services`, lock: one connection, as with SQLite, one lookup, one other reader and two writers: a
  second writer adds that a reader kept out by one writer goes before the next. Timeouts of
  two ticks and one.
- `services`, match: lists of one and two domains that may belong to one registration, two
  registrations, names of both and of neither.
- `services`, check: the defaults of the code in seconds (three resolvers, 5 s per query, 3 s between
  rounds, 30 s for the TXT, 30 s of slack), answers after 0, 1 or 5 seconds.
- `services`, hosts: two requests over two addresses with one slot each, so that there are more
  addresses than slots and each request can find entries the other made.

- `ui_page`, `ui_current`: one registration and one subdomain to be created, since the
  page tells apart the selected registration and another; two requests of the user, so that
  every pair of handlers and answers interleaves; one mishap (a request lost, a restart, a
  session that expires, a change by somebody else). Passwords are not stored in `ui_page`,
  where the answers carry more than the list does.
- `grid`, cells, and `grid_paste`: two pages of one row each and two pinned rows, so that a
  selection spans a row that is not shown; three columns of which one cannot be selected and
  one has a format and a parse that refuses some fields; one of its cells is read-only. The
  values are a null, an empty text, a letter and a text with a quote; one batch, and in
  `grid` an update by the consumer before, in
  or after it.
- `grid`, editor: two rows, two sessions and two calls of `focusCell` that look again once
  (the code looks again twelve times, each time alike).
- `grid`, widths, and `grid_widths`: two columns of size one that may grow, one with a
  `minSize`, containers of three and five, up to three things the user does.
- `grid`, scrolling, and `grid_blank`: eight rows that come in fours, three of them high
  under a header of one, one row of overscan, every alignment.
- `grid`, body: three columns pinned anywhere, every table, up to three things that happen.

Deadlock is checked except where something really ends: a process that has ended
(`srv_taken`), and in `grid` and its violated companions a user whose bound is used up
(`CHECK_DEADLOCK FALSE`). In `services` a check that has answered, a process that has ended
and a database whose stops are used up may rest, and the others must go on; in `ui_page`
only a page without requests in flight may rest.

### Fairness

- `Sessions`: `WF(Tick)`: time passes. No login has to come.
- `Server`: weak fairness of main and of each goroutine that can run, which is Go's
  scheduler. Failures, orders and the answers of the authority need not come.
- `Migration`: `WF(Start)`: `acme-dns.service` has the process restarted and `Init` runs on.
- `DbLock`: time passes, a timeout that is due fires, and `SF(Announce)`, `WF(Lock)`: Go's
  RWMutex documents that it starves no writer. Statements need not end by themselves.
- `PtrLookup`: the goroutines of a request run and its lookups end by their timeout.
- `AdminUi`: `WF(ServeOne)`, `WF(TakeOne)`: a request is answered or fails, as `fetch` has
  it, and the promise that waits for it goes on. The user need do nothing.
- `ColumnWidths`: `WF(Render)`, `WF(Settle)`, `WF(Elapse)`: React renders a state that was
  set and timers fire. No other part of the grid has a liveness property.

## 4. The proofs

Proved by TLAPS for every value of the constants that satisfies the named assumptions
(`DatabaseAssumption`, `ApiAssumption`, `NameServerAssumption`, `SystemAssumption`,
`AdminUiAssumption`, and `InstancesAreSound` of `Services` and of `Grid`, which says the same
of each of their parts: `SessionsAssumption`, `DbLockAssumption`, `DnsCheckAssumption`,
`PtrAssumption`, `MatchAssumption`, `MigrationAssumption`, `ServerAssumption`;
`CellSelectionAssumption`, `CellEditorAssumption`, `ColumnWidthsAssumption`,
`VirtualRowsAssumption`, `GridBodyAssumption`). TLC evaluates them on the runs. They say what
the constants are (numbers, sets that do not overlap, a cell that may be edited is a cell, a
value is a sequence of characters, no column is called like a filler) and, where the code
relies on it, that a pool or a number of slots is not zero, a page has rows and the header is
lower than its container.

The path from a request to the DNS answer (`DatabaseProofs`, `SystemProofs`):

| theorem | says | also assumes |
| --- | --- | --- |
| `TypeCorrect`, `ApiTypeCorrect` | every reachable database, and every request in flight, is well typed | |
| `RowsBelong` | TXT rows exist for registrations only | |
| `ShownPasswordIsCurrent` | a password that is shown is the one that works | |
| `RollingUpdate` | a value that was the first of its second survives the next write | INSERTs succeed, the clock is not set back |
| `BothRows`, `NewestIsServed` | a registration keeps its two rows, and its newest value is among them | INSERTs succeed |
| `DatabaseImplementsWindow` | `SpacedSpec` implements `TxtWindow` | `InsertMayFail = FALSE` (every `INSERT` succeeds) |
| `SystemImplementsWindow` | an answer has the values of the window and no others; `System` implements `TxtWindow` | INSERTs succeed; for the second half each update finds rows of earlier seconds (`UpdatesAreSpaced`) |
| `ApiImplementsDatabase` | every step of a handler is a database method or leaves the tables alone | |
| `DeletedStaysDeleted` | no request in flight brings back what was deleted | |
| `AcknowledgedIsStored` | an update answered with 200 changed a row, or its registration was deleted | INSERTs succeed |
| `SourceIsOfAnUpdate` | the source shown is one of a stored update | |
| `UpdatesAreVisible` | the newest value is in the authoritative answer | INSERTs succeed |
| `AnswersAreTrue` | a registration exists if its caller was told so and the commit took place, or if its deletion was told and was lost; otherwise it is gone for good, in every answer and for every request in flight | |
| `EveryResponseIsSound` | NXDOMAIN comes without records, records are of the name, what has no value does not exist | |

The other parts of the server (`SessionsProofs` and `ServerProofs` about their part alone,
`ServicesProofs` about the properties of the run `services`):

| theorem | says | also assumes |
| --- | --- | --- |
| `TypeCorrect` | the state of every part is one its code can be in | |
| `GuessesAreBounded` | an address tries at most the limit less one, and one password for each login in flight | |
| `NothingEndsEarly` | what ends a lock and what ends a session | |
| `WaitsEnd`, `AnswersInTime` | a lookup waits for three timeouts at most, a list of hosts for one per slot's share, a check is answered in time | `SlackSuffices`: the slack covers two rounds of queries and a write |
| `VerdictsHold` | what a check says is what the resolvers have shown | |
| `ShownHostsAreFresh` | no host is shown longer than the cache may keep it | |
| `RunsAreTrue` | an applied run leaves registrations with a domain that resolved to them, unless somebody changed them meanwhile; what it reports as applied was written to a registration that was there, and nothing else was | |
| `RecordedIsReached` | a recorded version has its columns, a server that serves is current | commits succeed |
| `UpgradesAreSound` | besides, upgraded registrations have their rows | commits, `CREATE`, `INSERT` and `DELETE` succeed |
| `ValuesOutliveUpgrades` | an upgrade takes served values only at a start that could not read the version, or where none is recorded and an earlier start failed and served | |
| `ValuesAreNeverLost` | no upgrade, stop or restart takes a served value, whatever commits, `INSERT`s and `DELETE`s fail | the version can be read; `CREATE` and the statements whose errors `Init` returns succeed |
| `DnsComesFirst`, `ChallengeIsAnswered` | the API starts after every DNS server, every socket has the key of the order that is presented | |

`SlackSuffices` is what the deadline of `dnscheck.go:119-128` needs: the three resolvers of
the code satisfy it with nothing to spare, over UDP and with a database that does not keep
the write waiting. The run `services` satisfies it in the same way. `RecordedIsReached` and
`UpgradesAreSound` need theirs because the code drops the errors they exclude; without them
TLC refutes what they prove. The two cases of `ValuesOutliveUpgrades` are real: after either
the first upgrade runs on a database that is in use and empties its table `txt`.

The pages (`AdminUiProofs`) and the data grid (`GridProofs`, with `CellsProofs` for the
selection and the clipboard), about the properties of the runs `ui_page` and `grid`:

| theorem | says |
| --- | --- |
| `TypeCorrect` | the page, its parts and the requests in flight are well typed, and no part of a page outlasts it |
| `ChangesAreListed` | when nothing is in flight, the page lists what the server holds |
| `PaneIsAboutSelection` | an answer never lands in another registration's pane, no password shows by itself |
| `LostSessionIsNoticed` | a page without a token has a request on its way that will close it |
| `BatchesUndo` | the inverse of a batch restores the cells, and its inverse the batch |
| `BatchesAreShown` | a batch writes shown and writable cells, and those that were marked for it |
| `EditsAreSafe` | an editor hands over one batch at most, for its own cell |
| `LatestCallHolds` | a superseded call of `focusCell` never sets the focus |
| `WidthsAreSafe` | a width has one writer |
| `RevealsShow` | a row that was asked for is in sight when its reveal ends |
| `FetchedOnce`, `UserIsLeftAlone` | more rows are asked for once; nobody is scrolled away |
| `GridTypeCorrect` | every part of the grid is well typed: no width is negative, there is one editor and one session, what is mounted is loaded |
| `ClipboardRoundTrip` | what is written to the clipboard is read back as it was, whatever the fields hold; only a last line of one empty field is lost |
| `TileItself` | a block repeated over its own size is itself |
| `PastesAreCopies` | what is copied and pasted where it came from gives each cell its own text back, by its column's parse, and rejects only what cannot be written or parsed |
| `RowsSpanTheTable` | every row spans the columns and has its cells under them, also one of an earlier render, but for the tables `GridBody` names |

The inductive invariants and why they are needed:

- `EncryptedCopyMatches`: *shown implies current* is not inductive, since a key that comes
  back makes an old copy readable again; the copy has to match the hash under **every**
  key it can be read with, that is, whenever it was written with one.
- `HistoryInv` (`Chronicle` for each registration): that a value survives the next write
  depends on which row is oldest, so the invariant orders the stamps of both rows and of
  the last three writes and says which write each row holds. Ties are its hard case.
- `NewestInv`: with a clock that is set back the order is lost, but one row still holds
  the newest write; it needs both rows, so that `Oldest` is never empty (`OldestExists`).
- `WindowInv`: the rows read in the order of their stamps are the window; an update in a
  later second overwrites the older one, which is the first of the window.
- `AcknowledgedInv`: that a registration which was gone stays gone needs that its subdomain
  was drawn before the request was admitted, and that no subdomain is drawn twice.
- `AnswersInv`: a registration exists exactly if it `Stands`, that is, was told and made or
  told deleted and not; and a request in flight is about one that exists or was reported
  deleted, so that one that was never stored lets nobody in.
- `SourceInv`: between its two calls a request has to be one whose update was stored.
- `RequestsOK`: what a handler keeps names a registration and a value that exist as types,
  which is what makes each handler step a step of `DbNext`.
- `GuessesInv`: with a lock that runs out or is pruned the tries begin anew; so while no
  lock runs they are at most the count, and while one does the logins that are past its
  check (`Comparing`) are counted with them.
- `ServerInv`: main is past a server only when that one listened, no other server is
  starting meanwhile, and the loops of `Present` and `CleanUp` have got as far as `n` says.
- `WaitInv`: what a lookup has waited for already is measured by the timeouts that still
  run: of the readers that keep the announced write out, of the write that keeps the lookup
  out, and of the lookup itself. That is why there are three and not more.
- `TimeInv`: where a check's time has gone, resolver by resolver; `CheckInv`: what it has
  found out by then, on which its verdict will rest.
- `ListInv`: every tick a list has waited stands for `PtrSlots` addresses that are done,
  which takes a count of the lookups that began after the last tick. `FreshInv`: age and
  time left of an entry add up to the time it may be kept.
- `LabelInv`: while a run goes on, each registration is called what it was called when the
  run began, or has the domain of a match so far, unless its write failed.
- `SurvivalInv`, `ReachedInv`, `RowsInv`: the version in memory is reached too, is the one
  recorded unless none is, and is 0 only if none was read or it could not be. Where none is
  recorded and no start has failed, the process has never served, so there are no values.
- `PageInv`: a request belongs to a part that is mounted and waits for it (`Owned`), a good
  answer is about what was asked (`SoundAnswer`), and while requests are in flight either
  the page lists what the server holds or one of them will have it loaded (`ListIsComing`,
  `Timely`); without a token one of them was sent without (`EndIsComing`).
- `CellsInv`: the cells hold what the last batch has left, each change remembers what its
  cell held before unless the drag's rows had gone stale (`BatchIsApplied`), and a drag fills
  rows of the page that is shown (`DragIsHere`).
- `EditorInv`: an editor that has not finished, and a session one may still be mounted for,
  has handed over nothing yet (`EditorFresh`). `TimersAreLatest`: there is no timer of an
  older call.
- `CellsTyped`: a drag works with what it began with, so its own copy of the bounds, the
  rendered rows and the contents has to be typed and to have had a row rendered (`DragTyped`);
  there is a range exactly if a cell has the focus, which is why the ends of the active range
  can be looked up (`SelectionTyped`).
- `EditorPlaced`: that there is one editor and one session at most. A `TypeOK` that counts
  them needs it of both at once, since a render makes the one from the other.
- `WidthsTyped`: renders and timers hold older sizes and free space, which may be negative; the
  sum of the widths is a number (`TotalIs`), and what the controller sets is at least a
  column's least size (`TargetTyped`).
- `RowsAreLoaded`: the window that is mounted was cut to the number of rows of its time, and
  that number only grows.
- `BodyInv`: the rows of a body that was kept are rows that the columns of now would make
  (`TableRows`), for the window of then: what changes columns renders every row, scrolling need
  not.
- `WidthsInv`: what the controller has written is a column that may grow, which rests on the
  least number of a finite set being in it (`RanksExist`, `LeastExists`).
- `LastIsShown`: a request may be withdrawn and made again, so it is the one scrolled for
  last that is in sight, whatever the consumer asks for now.

A step of `Services` or `Grid` is a step of the part it is about (`OneUnit`, `StepOfPart`), so
each part's invariant is kept by the composition, and the theorems follow.

`SystemProofs` composes the data path: `System` implements `Api`, `Api` implements `Database`,
so `NewestInv` holds in `System`, and the value in the row goes through `LookedUp`,
`TxtRecords` and `Answers` to the response.

`SystemImplementsWindow` is the same path for the abstract specification: `RegistrationHasTwoRows`
makes the window what is served (`WindowIsServed`), an answer has what is served
(`AnswerIsServed`), and by `ApiImplementsDatabase` each step of `System` is one of `SpacedSpec` as long
as its updates are spaced.

`EveryResponseIsSound` needs no invariant: it is about the function from the tables to the
answers. It needs of the zone that no record is configured for a registration's name, which
is a UUID drawn at random.

What a recursive function computes. Four proofs rest on it: the scan of a text, the doubling
of its quotes and the joining of its fields (`Clipboard`), the spans and sides of a row
(`GridBody`), the sum of widths (`ColumnWidths`). The first are recursive functions
`f[n \in 0..N]`, the sum is a fold of the library, which is one over the subsets of the
columns (`TotalWhole`). `RecursionExists` (`CellsProofs`) shows that for each `step` there is
a function that takes each value from the one before by it, `RecursOnly` and `PiecesOnly`
that the definition is that function. Induction needs no theorem with an operator for a
parameter: a set of numbers that is not empty has a least one, since `<` on `Nat` is
well-founded (`NatLessThanWellFounded`), so a set that has 0 and with each number the next is
all of them (`Climb`); what is to be shown is stated as such a set.

- `ClipboardRoundTrip`: by induction on fields and rows. A scan that begins a field at its
  place in the text ends it at the separator with the field read and nothing else changed;
  quotes that are doubled are read in pairs; so the state after *n* rows holds the first *n*.
- `PastesAreCopies`: the region that is copied is a block without gaps (`RegionIs`), which
  comes back by `ClipboardRoundTrip`, and what is pasted over its own region is the
  block (`TileItself`), column by column under the columns that are selectable. The cells
  that are written are all that are painted, since counting a set of numbers upwards meets
  each of them (`AscendingIsOnto`).
- `RowsSpanTheTable`: `Fits` says that the cells of a row and a list of columns are in step; it is
  kept when rows are put together (`FitsBoth`), holds of single cells and of wide ones, so of
  a window with its spacers (`WindowFits`), of rows of data, messages and skeletons. The
  sides and the hidden columns make up the order (`SidesCount`), so that a row that spans
  a *number* of columns spans the colgroup.

Only model-checked:

- liveness (`NothingWaitsForever`, `EventuallyCurrent`, `RequestsEnd`, `GrowthSettles`):
  under fairness, which is beyond the prover, as it has no `ENABLED`;
- what is in the violated runs, of course.

## 5. Not modelled

- Parsing, validation and formatting (`util.go`, `cidrslice.go`, headers, JSON, PEM): a
  request that is refused changes nothing; an allowfrom list is the set of the addresses
  it admits; a value is one that passed `validTXT`.
- The cryptography of bcrypt and AES-GCM, the SQL engines, certmagic and the package dns:
  modelled by what the code relies on.
- Configuration and logging: read once, the CONSTANTS of the modules.
- Static files and the health check: no state.
- Of the data grid: paging buttons, filters, menus and the drawn scrollbar, each a call of
  one method of the table; drag and drop itself, which is dnd-kit's; column groups, footers
  and sticky offsets, which no handler reads back; smooth scrolling.
- Buttons, dialogs and other presentation of the UI, its snippets and labels, containers, CI:
  not part of the program's logic.
- The write deadline of the match run: arithmetic that more than three candidates over
  silent resolvers exceed (`identify.go:195`).
- A rotation is one step of `AdminClient`; in the code a deletion can come between its two
  database calls and answer 500 for a rotation that took place (`admin.go:213`).

## 6. Roadmap

Done, in this order: the tables and their abstract window; handlers over the tables; DNS
answers; logins; upgrades; process; lock and timeouts; match run, DNS check and reverse
lookups; the composed system; the proofs of the data path; the pages of the management UI
with their requests in flight; the data grid; the proofs about requests, responses, logins
and the process; the proofs of every safety property of the services, the pages and the
grid, at last those that rest on what a recursive function computes: the clipboard, the spans
of the rows and the sums of the widths.

Next, in order of weight:

1. What a step of the parts may not do beyond what the runs check: that a
   check writes at most one token, that a request of the page is sent once for each thing the
   user does.
2. The match run's write deadline, with the arithmetic of `DnsCheck`.
3. The window of one registration whose own client waits for the next second, whatever the
   clients of the others do: `UpdatesAreSpaced` is about all of them.
4. Reordering of columns and rows by drag and drop, when the grid's pages use it.
