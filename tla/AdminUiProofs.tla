---------------------------- MODULE AdminUiProofs ----------------------------
(***************************************************************************)
(* What the pages of the management UI promise, for any number of          *)
(* registrations, names, requests in flight and mishaps: whose answer      *)
(* changes what, that the list is loaded again, that a password is not     *)
(* shown by itself, and that a session that is gone is noticed.            *)
(***************************************************************************)
EXTENDS AdminUi, TLAPS

------------------------------------------------------------------------------
(* The inductive invariant *)

Id == Ids \cup {None}
Name == Names \cup {NoName}
Kind == {"list", "server", "check", "create", "rename", "rotate", "delete", "match", "login", "logout"}
Part == {"pane", "dialog", "page", "login", "gone"}
Status == {"waiting", "ok", "failed", "missing", "unauthorized"}

Registration == [state : {"there", "unused", "deleted"}, name : Name, password : Nat, readable : BOOLEAN]
Row == [id : Id, there : BOOLEAN, name : Name, password : Nat, available : BOOLEAN]
Rows == {list \in [Ids -> Row] : \A id \in Ids : list[id].there => list[id].id = id}
AnswerRecord == [status : Status, list : Rows, record : Row, id : Id, token : Nat, at : Nat]
RequestRecord == [kind : Kind, to : Part, id : Id, name : Name, sel : Id, token : Nat,
                  answer : AnswerRecord]

View == [list : Rows, at : Nat, loading : BOOLEAN, failed : BOOLEAN, server : BOOLEAN,
         selected : Id, created : Id]
Pane == [id : Id, record : Row, shown : BOOLEAN, busy : BOOLEAN]
Dialog == [kind : {None, "create", "match", "check", "delete", "rotate"}, id : Id]
Runs == [create : BOOLEAN, match : BOOLEAN, check : BOOLEAN]

ServerTyped ==
  /\ registrations \in [Ids -> Registration]
  /\ issued \in Nat /\ changes \in Nat /\ logins \in Nat /\ sessions \subseteq Nat \ {0}

PageTyped ==
  /\ token \in Nat /\ expired \in BOOLEAN
  /\ page \in {"login", "domains"} /\ login \in BOOLEAN
  /\ view \in View /\ pane \in Pane /\ dialog \in Dialog /\ runs \in Runs
  /\ revealed \subseteq Ids /\ excused \in BOOLEAN

\* A request goes to the part its handler runs for, and a good answer to what it asks.
SoundAnswer(kind, id, a) ==
  a.status = "ok" =>
    /\ kind \in {"rename", "rotate"} => a.record.id = id
    /\ kind = "create" => a.id \in Ids
    /\ kind = "login" => a.token # 0

Sound(f) ==
  /\ f = [request |-> f.request, nr |-> f.nr]
  /\ f.request \in RequestRecord
  /\ f.request.kind = "login" <=> f.request.to = "login"
  /\ f.request.to = "pane" => f.request.kind \in {"rename", "rotate"}
  /\ f.request.to = "dialog" => f.request.kind = "check"
  /\ f.request.kind \in {"rename", "rotate", "delete"} => f.request.id \in Ids
  /\ SoundAnswer(f.request.kind, f.request.id, f.request.answer)

\* The part that waits for the request is there, with these states, and waits for it.
Owner(f, pg, p, d, r, l) ==
  /\ f.request.to = "pane" => p.id # None /\ p.busy /\ f.request.id = p.id
  /\ f.request.to = "dialog" => d.kind = "check" /\ r.check
  /\ f.request.to = "login" => pg = "login" /\ l
  /\ f.request.to = "page" => pg = "domains"

AtMostOne(requests, part) ==
  \A f, g \in requests : f.request.to = part /\ g.request.to = part => f = g

Owned(requests, pg, p, d, r, l) ==
  /\ \A f \in requests : Sound(f) /\ Owner(f, pg, p, d, r, l)
  /\ \A part \in {"pane", "dialog", "login"} : AtMostOne(requests, part)

\* Nothing of the page of registrations outlasts it, and the dialog to rotate a
\* password is over a pane that waits for nothing.
Mounting(pg, v, p, d, r) ==
  /\ pg = "login" => v = NewPage /\ p = NoPane /\ d = NoDialog /\ r = NoRuns
  /\ p.id = None => p = NoPane
  /\ d.kind = "rotate" => p.id # None /\ ~p.busy
  /\ d.kind \in {"delete", "rotate"} => d.id \in Ids

\* PaneIsOfSelection, and that a registration just created was shown on purpose.
PaneIsSound(v, p, asked) ==
  /\ p.id # None => /\ p.id = v.selected /\ p.record.id = p.id
                    /\ p.shown => p.id \in asked
  /\ v.selected # None /\ v.created = v.selected => v.selected \in asked

\* A list is what the server held after the change it counts.
Timely(f) ==
  f.request.kind = "list" /\ f.request.answer.status = "ok" =>
    /\ f.request.answer.at <= changes
    /\ f.request.answer.at = changes => f.request.answer.list = List

\* The page lists what the server holds.
Current == view.at = changes /\ view.list = List

\* The handler of this answer brings the list, loads it, or leaves the page.
Refreshes(f) ==
  /\ f.request.to \notin {"gone", "login"}
  /\ \/ f.request.answer.status = "unauthorized"
     \/ /\ f.request.kind = "list"
        /\ \/ f.request.answer.status = "waiting"
           \/ f.request.answer.status = "ok" /\ f.request.answer.at = changes
     \/ /\ f.request.kind \in {"create", "rename", "rotate", "delete", "match"}
        /\ f.request.answer.status = "ok"
        /\ f.request.kind = "match" => f.request.answer.id # None

\* OwnChangesAreListed is not inductive: while requests are in flight, the page lists
\* what the server holds or one of them will have it loaded.
ListIsComing ==
  page = "domains" /\ ~excused => Current \/ \E f \in flight : Refreshes(f)

\* DeadSessionIsNoticed, with a request that has not been answered otherwise.
Doomed(f) ==
  /\ f.request.kind # "login" /\ f.request.token = 0
  /\ f.request.answer.status \in {"waiting", "unauthorized"}

EndIsComing ==
  page = "domains" /\ token = 0 => excused \/ \E f \in flight : Doomed(f)

PageInv ==
  /\ ServerTyped /\ PageTyped
  /\ Owned(flight, page, pane, dialog, runs, login)
  /\ Mounting(page, view, pane, dialog, runs)
  /\ PaneIsSound(view, pane, revealed)
  /\ \A f \in flight : Timely(f)
  /\ ListIsComing
  /\ EndIsComing

------------------------------------------------------------------------------
(* Requests that are sent, taken and handed on *)

\* Two requests that say and are answered the same, whichever part waits for them.
Twin(g, f) ==
  /\ g.request.kind = f.request.kind /\ g.request.token = f.request.token
  /\ g.request.answer = f.request.answer
  /\ f.request.to \notin {"gone", "login"} => g.request.to \notin {"gone", "login"}

LEMMA SentIs ==
  ASSUME NEW rest, NEW request
  PROVE  \E n : Sent(rest, request) = rest \cup {[request |-> request, nr |-> n]}
BY DEF Sent

LEMMA NoRowTyped == NoView \in Row
BY DEF NoView, Row, Id, Name

LEMMA WaitingTyped == Waiting \in AnswerRecord
<1>1. [id \in Ids |-> NoView] \in Rows
  BY NoRowTyped DEF Rows, NoView
<1>2. QED
  BY <1>1, NoRowTyped DEF Waiting, AnswerRecord, Status, Id

\* What a handler may send.
LEMMA NewIsSound ==
  ASSUME token \in Nat, expired \in BOOLEAN,
         NEW kind \in Kind, NEW to \in Part, NEW id \in Id, NEW name \in Name, NEW sel \in Id,
         kind = "login" <=> to = "login",
         to = "pane" => kind \in {"rename", "rotate"}, to = "dialog" => kind = "check",
         kind \in {"rename", "rotate", "delete"} => id \in Ids,
         NEW n
  PROVE  /\ Sound([request |-> Request(kind, to, id, name, sel), nr |-> n])
         /\ SessionToken \in Nat
<1>1. SessionToken \in Nat
  BY DEF SessionToken
<1> DEFINE r == Request(kind, to, id, name, sel)
<1>2. /\ r = [kind |-> kind, to |-> to, id |-> id, name |-> name, sel |-> sel,
               token |-> IF kind = "login" THEN 0 ELSE SessionToken, answer |-> Waiting]
      /\ r.kind = kind /\ r.to = to /\ r.id = id /\ r.answer = Waiting
  BY DEF Request
<1>3. r \in RequestRecord
  BY <1>1, <1>2, WaitingTyped DEF RequestRecord
<1>4. Waiting.status # "ok"
  BY DEF Waiting
<1> DEFINE g == [request |-> r, nr |-> n]
<1>5. g = [request |-> g.request, nr |-> g.nr] /\ g.request = r
  OBVIOUS
<1> HIDE DEF r, g
<1>6. SoundAnswer(r.kind, r.id, r.answer)
  BY <1>2, <1>4 DEF SoundAnswer
<1>7. Sound(g)
  BY <1>2, <1>3, <1>5, <1>6 DEF Sound
<1>8. QED
  BY <1>1, <1>7 DEF g, r

\* A request more, for a part that waits for no other.
LEMMA SentIsOwned ==
  ASSUME NEW S, NEW r, NEW pg, NEW p, NEW d, NEW rs, NEW l,
         Owned(S, pg, p, d, rs, l),
         \A n : Sound([request |-> r, nr |-> n]) /\ Owner([request |-> r, nr |-> n], pg, p, d, rs, l),
         r.to \in {"pane", "dialog", "login"} => \A f \in S : f.request.to # r.to,
         NEW sent, sent = Sent(S, r)
  PROVE  /\ Owned(sent, pg, p, d, rs, l)
         /\ S \subseteq sent
         /\ \A g \in sent : g \in S \/ g.request = r
         /\ \E g \in sent : g.request = r
<1>1. PICK n : sent = S \cup {[request |-> r, nr |-> n]}
  BY SentIs
<1>2. \A part \in {"pane", "dialog", "login"} : AtMostOne(S \cup {[request |-> r, nr |-> n]}, part)
  BY DEF Owned, AtMostOne
<1>3. \A f \in S \cup {[request |-> r, nr |-> n]} : Sound(f) /\ Owner(f, pg, p, d, rs, l)
  BY DEF Owned
<1>4. [request |-> r, nr |-> n].request = r
  OBVIOUS
<1>5. Owned(sent, pg, p, d, rs, l)
  BY <1>1, <1>2, <1>3 DEF Owned
<1>6. QED
  BY <1>1, <1>4, <1>5

LEMMA TakenIsOwned ==
  ASSUME NEW S, NEW f, NEW pg, NEW p, NEW d, NEW rs, NEW l, Owned(S, pg, p, d, rs, l)
  PROVE  Owned(S \ {f}, pg, p, d, rs, l)
BY DEF Owned, AtMostOne

LEMMA HandedOnIsSound ==
  ASSUME NEW f, Sound(f), f.request.to # "login", NEW to \in {"page", "gone"}
  PROVE  /\ Sound([f EXCEPT !.request.to = to])
         /\ [f EXCEPT !.request.to = to].request.to = to
         /\ to = "page" => Twin([f EXCEPT !.request.to = to], f)
         /\ [f EXCEPT !.request.to = to].request.answer = f.request.answer
         /\ [f EXCEPT !.request.to = to].request.kind = f.request.kind
<1> DEFINE r == [f.request EXCEPT !.to = to]
           g == [request |-> r, nr |-> f.nr]
<1>1. [f EXCEPT !.request.to = to] = g
  BY DEF Sound
<1>2. f.request = [kind |-> f.request.kind, to |-> f.request.to, id |-> f.request.id,
                   name |-> f.request.name, sel |-> f.request.sel, token |-> f.request.token,
                   answer |-> f.request.answer]
  BY DEF Sound, RequestRecord
<1>3. /\ r.kind = f.request.kind /\ r.to = to /\ r.id = f.request.id
      /\ r.token = f.request.token /\ r.answer = f.request.answer
  BY <1>2
<1>4. r \in RequestRecord
  BY DEF Sound, RequestRecord, Part
<1>5. Sound(g)
  BY <1>3, <1>4 DEF Sound
<1>6. QED
  BY <1>1, <1>3, <1>5 DEF Twin

\* The requests of a part that is gone go to the page, which is there.
LEMMA OrphanedIsOwned ==
  ASSUME NEW S, NEW part \in {"pane", "dialog"}, NEW p, NEW d, NEW rs, NEW l,
         NEW p2, NEW d2, NEW rs2,
         Owned(S, "domains", p, d, rs, l),
         part # "pane" => p2 = p, part # "dialog" => d2.kind = d.kind /\ rs2.check = rs.check
  PROVE  LET O == Orphaned(S, part, "page")
         IN /\ Owned(O, "domains", p2, d2, rs2, l)
            /\ \A g \in O : \E f \in S : Twin(g, f)
            /\ \A f \in S : \E g \in O : Twin(g, f)
<1> DEFINE O == Orphaned(S, part, "page")
           to(f) == IF f.request.to = part THEN [f EXCEPT !.request.to = "page"] ELSE f
<1>1. O = {to(f) : f \in S}
  BY DEF Orphaned
<1>2. \A f \in S : /\ Sound(to(f)) /\ Twin(to(f), f)
                   /\ IF f.request.to = part THEN to(f).request.to = "page" ELSE to(f) = f
  <2> SUFFICES ASSUME NEW f \in S
               PROVE  /\ Sound(to(f)) /\ Twin(to(f), f)
                      /\ IF f.request.to = part THEN to(f).request.to = "page" ELSE to(f) = f
    OBVIOUS
  <2>1. Sound(f) /\ Owner(f, "domains", p, d, rs, l)
    BY DEF Owned
  <2>2. CASE f.request.to = part
    BY <2>1, <2>2, HandedOnIsSound
  <2>3. CASE f.request.to # part
    BY <2>1, <2>3 DEF Twin
  <2>4. QED
    BY <2>2, <2>3
<1> HIDE DEF to, O
<1>3. \A g \in O : /\ Sound(g) /\ \E f \in S : Twin(g, f)
                   /\ g.request.to = "page" \/ (g \in S /\ g.request.to # part)
  BY <1>1, <1>2
<1>4. \A g \in O : Owner(g, "domains", p2, d2, rs2, l)
  BY <1>3 DEF Owned, Owner
<1>5. \A x \in {"pane", "dialog", "login"} : AtMostOne(O, x)
  BY <1>3 DEF Owned, AtMostOne
<1>6. QED
  BY <1>1, <1>2, <1>3, <1>4, <1>5 DEF Owned, O

\* Nobody but the login page waits any more.
LEMMA LeftIsOwned ==
  ASSUME NEW S, NEW pg, NEW p, NEW d, NEW rs, NEW l, Owned(S, pg, p, d, rs, l), Leave(S)
  PROVE  /\ Owned(flight', "login", NoPane, NoDialog, NoRuns, l)
         /\ \A g \in flight' : \E f \in S : /\ g.request.kind = f.request.kind
                                             /\ g.request.answer = f.request.answer
<1> DEFINE to(f) == IF f.request.to # "login" THEN [f EXCEPT !.request.to = "gone"] ELSE f
<1>1. flight' = {to(f) : f \in S}
  BY DEF Leave
<1>2. \A f \in S : /\ Sound(to(f)) /\ to(f).request.kind = f.request.kind
                   /\ to(f).request.answer = f.request.answer
                   /\ f.request.to # "login" => to(f).request.to = "gone"
                   /\ f.request.to = "login" => to(f) = f
  BY HandedOnIsSound DEF Owned, Sound
<1> HIDE DEF to
<1>3. \A g \in flight' : Sound(g) /\ (g.request.to = "gone" \/ (g \in S /\ g.request.to = "login"))
  <2>1. TAKE g \in flight'
  <2>2. PICK f \in S : g = to(f)
    BY <1>1
  <2>3. QED
    BY <1>2, <2>2
<1>4. \A g \in flight' : Owner(g, "login", NoPane, NoDialog, NoRuns, l)
  BY <1>3 DEF Owned, Owner
<1>5. \A x \in {"pane", "dialog", "login"} : AtMostOne(flight', x)
  BY <1>3 DEF Owned, AtMostOne
<1>6. QED
  BY <1>1, <1>2, <1>3, <1>4, <1>5 DEF Owned

------------------------------------------------------------------------------
(* The server *)

LEMMA StoredTyped ==
  ASSUME NEW id \in Ids, NEW r \in Registration
  PROVE  /\ Stored(id, r) \in Row /\ (Stored(id, r).there => Stored(id, r).id = id)
         /\ r.state = "there" => Stored(id, r).id = id
         /\ Fresh(id, r) \in Row
         /\ r.state = "there" => Fresh(id, r).id = id
<1> DEFINE row == [id |-> id, there |-> TRUE, name |-> r.name, available |-> r.readable,
                   password |-> IF r.readable THEN r.password ELSE 0]
<1>1. row \in Row
  BY DEF Row, Registration, Id
<1>2. Stored(id, r) = IF r.state # "there" THEN NoView ELSE row
  BY DEF Stored
<1>3. NoView \in Row /\ NoView.there = FALSE
  BY NoRowTyped DEF NoView
<1>4. row.id = id
  OBVIOUS
<1>5. Stored(id, r) \in Row
  <2>1. CASE r.state # "there"
    BY <1>2, <1>3, <2>1
  <2>2. CASE r.state = "there"
    BY <1>1, <1>2, <2>2
  <2>3. QED
    BY <2>1, <2>2
<1> HIDE DEF row
<1>6. Fresh(id, r) \in Row /\ Fresh(id, r).id = Stored(id, r).id
  <2>1. r.password \in Nat
    BY DEF Registration
  <2>2. QED
    BY <1>5, <2>1 DEF Fresh, Row
<1>7. QED
  BY <1>2, <1>3, <1>4, <1>5, <1>6

LEMMA ListTyped ==
  ASSUME ServerTyped
  PROVE  List \in Rows
<1>1. \A id \in Ids : /\ Stored(id, registrations[id]) \in Row
                      /\ Stored(id, registrations[id]).there => Stored(id, registrations[id]).id = id
  BY StoredTyped DEF ServerTyped
<1>2. QED
  BY <1>1 DEF List, Rows

\* What the answers of the server have in common.
GoodAnswer(f, a) ==
  /\ a \in AnswerRecord /\ a.status # "waiting"
  /\ SoundAnswer(f.request.kind, f.request.id, a)
  /\ f.request.kind = "list" =>
       \/ a.status = "unauthorized"
       \/ a.status = "ok" /\ a.at = changes /\ a.list = List
  /\ f.request.kind # "login" /\ f.request.token = 0 => a.status = "unauthorized"

\* A change is counted, and its answer says that there was one.
Counted(f, a) ==
  \/ changes' = changes /\ registrations' = registrations
  \/ /\ changes' = changes + 1
     /\ f.request.kind \in {"create", "rename", "rotate", "delete", "match"}
     /\ a.status = "ok" /\ (f.request.kind = "match" => a.id # None)

LEMMA PlainAnswer ==
  ASSUME NEW status \in Status
  PROVE  Answer(status) \in AnswerRecord /\ Answer(status).status = status
BY WaitingTyped DEF Answer, AnswerRecord

LEMMA AnswerAbout ==
  ASSUME NEW id \in Ids, NEW record \in Row
  PROVE  LET a == [Answer("ok") EXCEPT !.id = id, !.record = record]
         IN a \in AnswerRecord /\ a.status = "ok" /\ a.id = id /\ a.record = record
<1>1. Answer("ok") \in AnswerRecord /\ Answer("ok").status = "ok"
  BY PlainAnswer DEF Status
<1>2. QED
  BY <1>1 DEF AnswerRecord, Id

LEMMA ChangeTyped ==
  ASSUME ServerTyped, NEW id \in Ids, NEW r \in Registration, Change(id, r)
  PROVE  registrations' \in [Ids -> Registration] /\ changes' \in Nat /\ changes' = changes + 1
BY DEF ServerTyped, Change

LEMMA RecordsTyped ==
  ASSUME AdminUiAssumption, ServerTyped, NEW id \in Ids, NEW name \in Name
  PROVE  /\ New(name) \in Registration /\ New(name).state = "there"
         /\ [registrations[id] EXCEPT !.name = name] \in Registration
         /\ [registrations[id] EXCEPT !.name = name].state = registrations[id].state
         /\ [registrations[id] EXCEPT !.state = "deleted"] \in Registration
         /\ Rotated(registrations[id]) \in Registration
         /\ Rotated(registrations[id]).state = registrations[id].state
<1>1. registrations[id] \in Registration /\ issued + 1 \in Nat /\ Storage \in BOOLEAN
  BY DEF ServerTyped, AdminUiAssumption
<1>2. New(name) \in Registration /\ New(name).state = "there"
  BY <1>1 DEF New, Registration
<1> DEFINE r == registrations[id]
<1> HIDE DEF r
<1>3. r \in Registration
  BY <1>1 DEF r
<1>4. /\ [r EXCEPT !.name = name] \in Registration
      /\ [r EXCEPT !.name = name].state = r.state
      /\ [r EXCEPT !.state = "deleted"] \in Registration
  BY <1>3 DEF Registration
<1>5. Rotated(r) \in Registration /\ Rotated(r).state = r.state
  BY <1>1, <1>3 DEF Rotated, Registration
<1>6. QED
  BY <1>2, <1>4, <1>5 DEF r

LEMMA ServeAnswers ==
  ASSUME AdminUiAssumption, ServerTyped, NEW f \in flight, Sound(f), Serve(f)
  PROVE  /\ ServerTyped' /\ f.request.answer.status = "waiting"
         /\ UNCHANGED <<token, expired>>
         /\ \E a : flight' = Answered(f, a) /\ GoodAnswer(f, a) /\ Counted(f, a)
<1> DEFINE q == f.request
           Told(a) == flight' = Answered(f, a) /\ GoodAnswer(f, a) /\ Counted(f, a)
<1>1. /\ q \in RequestRecord /\ (q.kind \in {"rename", "rotate", "delete"} => q.id \in Ids)
      /\ 0 \notin sessions /\ sessions \subseteq Nat /\ logins \in Nat /\ changes \in Nat
      /\ issued \in Nat /\ UNCHANGED <<token, expired>>
  BY DEF Sound, ServerTyped, Serve, storeVars
<1>2. f.request.answer.status = "waiting"
  BY DEF Serve, ServeLogin, Refuse, ServeLogout, ServeRead, ServeCreate, ServeNoRoom, ServeMissing,
         ServeRename, ServeRotate, ServeDelete, ServeMatch, Accepted, Unserved
<1>3. CASE ServeLogin(f)
  <2> DEFINE a == [Answer("ok") EXCEPT !.token = logins + 1]
  <2>1. a \in AnswerRecord /\ a.status = "ok" /\ a.token = logins + 1 /\ a.token # 0
    BY <1>1, PlainAnswer DEF AnswerRecord, Status
  <2>2. flight' = Answered(f, a) /\ q.kind = "login" /\ UNCHANGED <<registrations, issued, changes>>
    BY <1>3 DEF ServeLogin
  <2>3. ServerTyped'
    BY <1>1, <1>3 DEF ServeLogin, ServerTyped
  <2> HIDE DEF a
  <2>4. Told(a)
    BY <2>1, <2>2 DEF GoodAnswer, SoundAnswer, Counted
  <2>5. QED
    BY <1>1, <1>2, <2>3, <2>4
<1>4. CASE Refuse(f)
  <2> DEFINE a == Answer("unauthorized")
  <2>1. a \in AnswerRecord /\ a.status = "unauthorized"
    BY PlainAnswer DEF Status
  <2>2. flight' = Answered(f, a) /\ UNCHANGED serverVars
    BY <1>4 DEF Refuse
  <2> HIDE DEF a
  <2>3. Told(a)
    BY <2>1, <2>2 DEF GoodAnswer, SoundAnswer, Counted, serverVars
  <2>4. QED
    BY <1>1, <1>2, <2>2, <2>3 DEF ServerTyped, serverVars
<1>5. CASE ServeLogout(f)
  <2> DEFINE a == Answer("ok")
  <2>1. a \in AnswerRecord /\ a.status = "ok"
    BY PlainAnswer DEF Status
  <2>2. /\ flight' = Answered(f, a) /\ q.kind = "logout" /\ q.token # 0
        /\ UNCHANGED <<registrations, issued, changes, logins>> /\ sessions' \subseteq sessions
    BY <1>1, <1>5 DEF ServeLogout, Accepted
  <2> HIDE DEF a
  <2>3. Told(a)
    BY <2>1, <2>2 DEF GoodAnswer, SoundAnswer, Counted
  <2>4. QED
    BY <1>1, <1>2, <2>2, <2>3 DEF ServerTyped
<1>6. CASE ServeRead(f)
  <2> DEFINE a == IF q.kind = "list" THEN [Answer("ok") EXCEPT !.list = List, !.at = changes]
                  ELSE Answer("ok")
  <2>1. Answer("ok") \in AnswerRecord /\ Answer("ok").status = "ok" /\ List \in Rows
    BY PlainAnswer, ListTyped DEF Status
  <2>2. a \in AnswerRecord /\ a.status = "ok" /\ (q.kind = "list" => a.at = changes /\ a.list = List)
    <3>1. CASE q.kind = "list"
      BY <1>1, <2>1, <3>1 DEF AnswerRecord
    <3>2. CASE q.kind # "list"
      BY <2>1, <3>2
    <3>3. QED
      BY <3>1, <3>2
  <2>3. /\ flight' = Answered(f, a) /\ UNCHANGED serverVars /\ q.token # 0
        /\ q.kind \in {"list", "server", "check"}
    BY <1>1, <1>6 DEF ServeRead, Accepted
  <2> HIDE DEF a
  <2>4. Told(a)
    BY <2>2, <2>3 DEF GoodAnswer, SoundAnswer, Counted, serverVars
  <2>5. QED
    BY <1>1, <1>2, <2>3, <2>4 DEF ServerTyped, serverVars
<1>7. CASE ServeCreate(f)
  <2>1. PICK id \in Ids :
          /\ Change(id, New(q.name))
          /\ flight' = Answered(f, [Answer("ok") EXCEPT !.id = id, !.record = Fresh(id, New(q.name))])
    BY <1>7 DEF ServeCreate
  <2>2. q.kind = "create" /\ q.token # 0 /\ q.name \in Name /\ issued' = issued + 1
        /\ UNCHANGED <<sessions, logins>>
    BY <1>1, <1>7 DEF ServeCreate, Accepted, RequestRecord
  <2>3. New(q.name) \in Registration
    BY <2>2, RecordsTyped
  <2> DEFINE record == Fresh(id, New(q.name))
             a == [Answer("ok") EXCEPT !.id = id, !.record = record]
  <2>4. record \in Row
    BY <2>3, StoredTyped
  <2>5. a \in AnswerRecord /\ a.status = "ok" /\ a.id = id
    <3> HIDE DEF record
    <3>1. QED
      BY <2>4, AnswerAbout
  <2>6. registrations' \in [Ids -> Registration] /\ changes' \in Nat /\ changes' = changes + 1
    BY <2>1, <2>3, ChangeTyped
  <2>7. flight' = Answered(f, a)
    BY <2>1
  <2> HIDE DEF a
  <2>8. Told(a)
    BY <2>2, <2>5, <2>6, <2>7 DEF GoodAnswer, SoundAnswer, Counted
  <2>9. QED
    BY <1>1, <1>2, <2>2, <2>6, <2>8 DEF ServerTyped
<1>8. CASE ServeNoRoom(f) \/ ServeMissing(f)
  <2>1. PICK status \in {"failed", "missing"} : flight' = Answered(f, Answer(status))
    BY <1>8 DEF ServeNoRoom, ServeMissing
  <2> DEFINE a == Answer(status)
  <2>2. a \in AnswerRecord /\ a.status = status
    BY PlainAnswer DEF Status
  <2>3. /\ UNCHANGED serverVars /\ q.token # 0
        /\ q.kind \in {"create", "rename", "rotate", "delete"} /\ flight' = Answered(f, a)
    BY <1>1, <1>8, <2>1 DEF ServeNoRoom, ServeMissing, Accepted
  <2> HIDE DEF a
  <2>4. Told(a)
    BY <2>2, <2>3 DEF GoodAnswer, SoundAnswer, Counted, serverVars
  <2>5. QED
    BY <1>1, <1>2, <2>3, <2>4 DEF ServerTyped, serverVars
<1>9. CASE ServeRename(f)
  <2> DEFINE renamed == [registrations[q.id] EXCEPT !.name = q.name]
  <2>1. /\ q.kind = "rename" /\ q.token # 0 /\ q.id \in Ids /\ q.name \in Name
        /\ registrations[q.id].state = "there"
        /\ Change(q.id, renamed) /\ UNCHANGED <<issued, sessions, logins>>
        /\ flight' = Answered(f, [Answer("ok") EXCEPT !.id = q.id, !.record = Stored(q.id, renamed)])
    BY <1>1, <1>9 DEF ServeRename, Accepted, There, RequestRecord
  <2>2. renamed \in Registration /\ renamed.state = "there"
    BY <2>1, RecordsTyped
  <2> HIDE DEF renamed
  <2> DEFINE record == Stored(q.id, renamed)
             a == [Answer("ok") EXCEPT !.id = q.id, !.record = record]
  <2>3. record \in Row /\ record.id = q.id
    BY <2>1, <2>2, StoredTyped
  <2>4. a \in AnswerRecord /\ a.status = "ok" /\ a.record.id = q.id
    <3> HIDE DEF record
    <3>1. QED
      BY <2>1, <2>3, AnswerAbout
  <2>5. registrations' \in [Ids -> Registration] /\ changes' \in Nat /\ changes' = changes + 1
    BY <2>1, <2>2, ChangeTyped
  <2>6. flight' = Answered(f, a)
    BY <2>1
  <2> HIDE DEF a
  <2>7. Told(a)
    BY <2>1, <2>4, <2>5, <2>6 DEF GoodAnswer, SoundAnswer, Counted
  <2>8. QED
    BY <1>1, <1>2, <2>1, <2>5, <2>7 DEF ServerTyped
<1>10. CASE ServeRotate(f)
  <2> DEFINE rotated == Rotated(registrations[q.id])
  <2>1. /\ q.kind = "rotate" /\ q.token # 0 /\ q.id \in Ids
        /\ registrations[q.id].state = "there" /\ issued' = issued + 1
        /\ Change(q.id, rotated) /\ UNCHANGED <<sessions, logins>>
        /\ flight' = Answered(f, [Answer("ok") EXCEPT !.id = q.id, !.record = Fresh(q.id, rotated)])
    BY <1>1, <1>10 DEF ServeRotate, Accepted, There
  <2>2. rotated \in Registration /\ rotated.state = "there"
    BY <2>1, RecordsTyped DEF Name
  <2> HIDE DEF rotated
  <2> DEFINE record == Fresh(q.id, rotated)
             a == [Answer("ok") EXCEPT !.id = q.id, !.record = record]
  <2>3. record \in Row /\ record.id = q.id
    BY <2>1, <2>2, StoredTyped
  <2>4. a \in AnswerRecord /\ a.status = "ok" /\ a.record.id = q.id
    <3> HIDE DEF record
    <3>1. QED
      BY <2>1, <2>3, AnswerAbout
  <2>5. registrations' \in [Ids -> Registration] /\ changes' \in Nat /\ changes' = changes + 1
    BY <2>1, <2>2, ChangeTyped
  <2>6. flight' = Answered(f, a)
    BY <2>1
  <2> HIDE DEF a
  <2>7. Told(a)
    BY <2>1, <2>4, <2>5, <2>6 DEF GoodAnswer, SoundAnswer, Counted
  <2>8. QED
    BY <1>1, <1>2, <2>1, <2>5, <2>7 DEF ServerTyped
<1>11. CASE ServeDelete(f)
  <2> DEFINE a == Answer("ok")
             gone == [registrations[q.id] EXCEPT !.state = "deleted"]
  <2>1. /\ q.kind = "delete" /\ q.token # 0 /\ q.id \in Ids /\ Change(q.id, gone)
        /\ flight' = Answered(f, a) /\ UNCHANGED <<issued, sessions, logins>>
    BY <1>1, <1>11 DEF ServeDelete, Accepted
  <2>2. a \in AnswerRecord /\ a.status = "ok"
    BY PlainAnswer DEF Status
  <2>3. gone \in Registration
    BY <2>1, RecordsTyped DEF Name
  <2> HIDE DEF a, gone
  <2>4. registrations' \in [Ids -> Registration] /\ changes' \in Nat /\ changes' = changes + 1
    BY <2>1, <2>3, ChangeTyped
  <2>5. Told(a)
    BY <2>1, <2>2, <2>4 DEF GoodAnswer, SoundAnswer, Counted
  <2>6. QED
    BY <1>1, <1>2, <2>1, <2>4, <2>5 DEF ServerTyped
<1>12. CASE ServeMatch(f)
  <2>1. q.kind = "match" /\ q.token # 0 /\ q.name \in Name /\ UNCHANGED <<issued, sessions, logins>>
    BY <1>1, <1>12 DEF ServeMatch, Accepted, RequestRecord
  <2>2. CASE flight' = Answered(f, Answer("ok")) /\ UNCHANGED <<registrations, changes>>
    <3>1. Answer("ok") \in AnswerRecord /\ Answer("ok").status = "ok"
      BY PlainAnswer DEF Status
    <3>2. Told(Answer("ok"))
      BY <2>1, <2>2, <3>1 DEF GoodAnswer, SoundAnswer, Counted
    <3>3. QED
      BY <1>1, <1>2, <2>1, <2>2, <3>2 DEF ServerTyped
  <2>3. CASE \E id \in Ids :
               /\ Change(id, [registrations[id] EXCEPT !.name = q.name])
               /\ flight' = Answered(f, [Answer("ok") EXCEPT !.id = id])
    <3>1. PICK id \in Ids :
            /\ Change(id, [registrations[id] EXCEPT !.name = q.name])
            /\ flight' = Answered(f, [Answer("ok") EXCEPT !.id = id])
      BY <2>3
    <3> DEFINE a == [Answer("ok") EXCEPT !.id = id]
    <3>2. Answer("ok") \in AnswerRecord /\ Answer("ok").status = "ok"
      BY PlainAnswer DEF Status
    <3>3. a \in AnswerRecord /\ a.status = "ok" /\ a.id # None
      BY <3>2 DEF AnswerRecord, Id, AdminUiAssumption
    <3>4. registrations' \in [Ids -> Registration] /\ changes' \in Nat /\ changes' = changes + 1
      BY <2>1, <3>1, RecordsTyped, ChangeTyped
    <3>5. flight' = Answered(f, a)
      BY <3>1
    <3> HIDE DEF a
    <3>6. Told(a)
      BY <2>1, <3>3, <3>4, <3>5 DEF GoodAnswer, SoundAnswer, Counted
    <3>7. QED
      BY <1>1, <1>2, <2>1, <3>4, <3>6 DEF ServerTyped
  <2>4. QED
    BY <1>12, <2>2, <2>3 DEF ServeMatch
<1>13. QED
  BY <1>3, <1>4, <1>5, <1>6, <1>7, <1>8, <1>9, <1>10, <1>11, <1>12 DEF Serve

LEMMA AnsweredIsOwned ==
  ASSUME NEW f \in flight, NEW pg, NEW p, NEW d, NEW rs, NEW l,
         Owned(flight, pg, p, d, rs, l), NEW a \in AnswerRecord,
         SoundAnswer(f.request.kind, f.request.id, a), flight' = Answered(f, a)
  PROVE  /\ Owned(flight', pg, p, d, rs, l)
         /\ \E g : /\ flight' = (flight \ {f}) \cup {g}
                   /\ g.request.kind = f.request.kind /\ g.request.to = f.request.to
                   /\ g.request.token = f.request.token /\ g.request.answer = a
<1> DEFINE r == [f.request EXCEPT !.answer = a]
           g == [request |-> r, nr |-> f.nr]
<1>1. Sound(f) /\ Owner(f, pg, p, d, rs, l)
  BY DEF Owned
<1>2. flight' = (flight \ {f}) \cup {g}
  BY <1>1 DEF Answered, Replaced, Sound
<1>3. r \in RequestRecord
  BY <1>1 DEF Sound, RequestRecord
<1>4. /\ r.kind = f.request.kind /\ r.to = f.request.to /\ r.id = f.request.id
      /\ r.token = f.request.token /\ r.answer = a
  BY <1>1 DEF Sound, RequestRecord
<1>5. g.request = r /\ g = [request |-> g.request, nr |-> g.nr]
  OBVIOUS
<1> HIDE DEF r, g
<1>6. Sound(g)
  BY <1>1, <1>3, <1>4, <1>5 DEF Sound
<1>7. Owner(g, pg, p, d, rs, l)
  BY <1>1, <1>4, <1>5 DEF Owner
<1>8. \A part \in {"pane", "dialog", "login"} : AtMostOne((flight \ {f}) \cup {g}, part)
  BY <1>4, <1>5 DEF Owned, AtMostOne
<1>9. \A h \in (flight \ {f}) \cup {g} : Sound(h) /\ Owner(h, pg, p, d, rs, l)
  BY <1>6, <1>7 DEF Owned
<1>10. Owned(flight', pg, p, d, rs, l)
  BY <1>2, <1>8, <1>9 DEF Owned
<1>11. QED
  BY <1>2, <1>4, <1>5, <1>10

LEMMA ServeOneKeeps ==
  ASSUME AdminUiAssumption, PageInv, ServeOne
  PROVE  PageInv'
<1>1. PICK f \in flight : /\ Serve(f) /\ UNCHANGED <<uiVars, revealed>>
                          /\ excused' = (excused \/ OutlivesPage(f))
  BY DEF ServeOne
<1>2. Sound(f)
  BY DEF PageInv, Owned
<1>3. ServerTyped' /\ f.request.answer.status = "waiting" /\ UNCHANGED <<token, expired>>
  BY <1>1, <1>2, ServeAnswers DEF PageInv
<1>4. PICK a : flight' = Answered(f, a) /\ GoodAnswer(f, a) /\ Counted(f, a)
  BY <1>1, <1>2, ServeAnswers DEF PageInv
<1>5. UNCHANGED <<page, login, view, pane, dialog, runs, revealed>>
  BY <1>1 DEF uiVars
<1>6. Owned(flight', page, pane, dialog, runs, login)
  BY <1>4, AnsweredIsOwned DEF PageInv, GoodAnswer
<1>7. PICK g : /\ flight' = (flight \ {f}) \cup {g}
               /\ g.request.kind = f.request.kind /\ g.request.to = f.request.to
               /\ g.request.token = f.request.token /\ g.request.answer = a
  BY <1>4, AnsweredIsOwned DEF PageInv, GoodAnswer
<1>8. PageTyped'
  BY <1>1, <1>3, <1>5 DEF PageInv, PageTyped
<1>9. Owned(flight, page, pane, dialog, runs, login)'
  BY <1>5, <1>6
<1>10. Mounting(page, view, pane, dialog, runs)' /\ PaneIsSound(view, pane, revealed)'
  BY <1>5 DEF PageInv
<1>11. changes \in Nat /\ (changes' # changes => changes' = changes + 1)
  BY <1>4 DEF PageInv, ServerTyped, Counted
<1>12. changes' = changes => List' = List
  BY <1>4, <1>11 DEF Counted, List
<1>13. f.request.kind = "list" => changes' = changes
  BY <1>4 DEF Counted
<1>14. \A h \in flight' : Timely(h)'
  <2>1. TAKE h \in flight'
  <2>2. CASE h = g
    BY <1>4, <1>7, <1>11, <1>12, <1>13, <2>2 DEF Timely, GoodAnswer
  <2>3. CASE h \in flight
    <3>1. Timely(h) /\ h.request.answer.at \in Nat
      BY <2>3 DEF PageInv, Owned, Sound, RequestRecord, AnswerRecord
    <3>2. QED
      BY <1>11, <1>12, <3>1 DEF Timely
  <2>4. QED
    BY <1>7, <2>2, <2>3
<1>15. ListIsComing'
  <2> SUFFICES ASSUME page' = "domains", ~excused'
               PROVE  Current' \/ \E h \in flight' : Refreshes(h)'
    BY DEF ListIsComing
  <2>1. page = "domains" /\ ~excused /\ ~OutlivesPage(f)
    BY <1>1, <1>5
  <2>2. CASE changes' = changes
    <3>1. CASE Current
      BY <1>5, <1>12, <2>2, <3>1 DEF Current
    <3>2. CASE ~Current
      <4>1. PICK h \in flight : Refreshes(h)
        BY <2>1, <3>2 DEF PageInv, ListIsComing
      <4>2. CASE h = f
        <5>1. f.request.kind = "list" /\ f.request.to \notin {"gone", "login"}
          BY <1>3, <4>1, <4>2 DEF Refreshes
        <5>2. Refreshes(g)'
          BY <1>4, <1>7, <2>2, <5>1 DEF Refreshes, GoodAnswer
        <5>3. QED
          BY <1>7, <5>2
      <4>3. CASE h # f
        <5>1. h \in flight' /\ Refreshes(h)'
          BY <1>7, <2>2, <4>1, <4>3 DEF Refreshes
        <5>2. QED
          BY <5>1
      <4>4. QED
        BY <4>2, <4>3
    <3>3. QED
      BY <3>1, <3>2
  <2>3. CASE changes' # changes
    <3>1. /\ f.request.kind \in {"create", "rename", "rotate", "delete", "match"}
          /\ a.status = "ok" /\ (f.request.kind = "match" => a.id # None)
      BY <1>4, <2>3 DEF Counted
    <3>2. f.request.to \notin {"gone", "login"}
      BY <1>2, <2>1, <2>3, <3>1 DEF OutlivesPage, Sound
    <3>3. Refreshes(g)'
      BY <1>7, <3>1, <3>2 DEF Refreshes
    <3>4. QED
      BY <1>7, <3>3
  <2>4. QED
    BY <2>2, <2>3
<1>16. EndIsComing'
  <2> SUFFICES ASSUME page' = "domains", token' = 0, ~excused'
               PROVE  \E h \in flight' : Doomed(h)'
    BY DEF EndIsComing
  <2>1. PICK h \in flight : Doomed(h)
    BY <1>1, <1>3, <1>5 DEF PageInv, EndIsComing
  <2>2. CASE h = f
    <3>1. Doomed(g)'
      BY <1>4, <1>7, <2>1, <2>2 DEF Doomed, GoodAnswer
    <3>2. QED
      BY <1>7, <3>1
  <2>3. CASE h # f
    <3>1. h \in flight' /\ Doomed(h)'
      BY <1>7, <2>1, <2>3 DEF Doomed
    <3>2. QED
      BY <3>1
  <2>4. QED
    BY <2>2, <2>3
<1>17. QED
  BY <1>3, <1>8, <1>9, <1>10, <1>14, <1>15, <1>16 DEF PageInv

LEMMA WorldKeeps ==
  ASSUME AdminUiAssumption, PageInv, World
  PROVE  PageInv'
<1>1. UNCHANGED <<page, login, view, pane, dialog, runs, revealed>>
  BY DEF World, uiVars
<1>2. CASE \E f \in flight : Lose(f) /\ excused' = TRUE
  <2>1. PICK f \in flight : Lose(f) /\ excused' = TRUE
    BY <1>2
  <2> DEFINE a == Answer("failed")
  <2>2. a \in AnswerRecord /\ a.status = "failed"
    BY PlainAnswer DEF Status
  <2>3. flight' = Answered(f, a) /\ UNCHANGED <<serverVars, storeVars>>
    BY <2>1 DEF Lose
  <2> HIDE DEF a
  <2>4. Owned(flight', page, pane, dialog, runs, login)
    BY <2>2, <2>3, AnsweredIsOwned DEF PageInv, SoundAnswer
  <2>5. PICK g : flight' = (flight \ {f}) \cup {g} /\ g.request.answer = a
    BY <2>2, <2>3, AnsweredIsOwned DEF PageInv, SoundAnswer
  <2>6. \A h \in flight' : Timely(h)'
    <3>1. List' = List /\ changes' = changes
      BY <2>3 DEF serverVars, List
    <3>2. \A h \in flight : Timely(h)
      BY DEF PageInv
    <3>3. QED
      BY <2>2, <2>5, <3>1, <3>2 DEF Timely
  <2>7. ServerTyped' /\ PageTyped'
    BY <1>1, <2>1, <2>3 DEF PageInv, ServerTyped, PageTyped, serverVars, storeVars
  <2>8. ListIsComing' /\ EndIsComing'
    BY <2>1 DEF ListIsComing, EndIsComing
  <2>9. QED
    BY <1>1, <2>4, <2>6, <2>7, <2>8 DEF PageInv
<1>3. CASE OtherAdmin /\ excused' = TRUE
  <2>1. PICK id \in Ids :
          \/ \E n \in Names : Change(id, [registrations[id] EXCEPT !.name = n])
          \/ Change(id, [registrations[id] EXCEPT !.state = "deleted"])
    BY <1>3 DEF OtherAdmin
  <2>2. registrations' \in [Ids -> Registration] /\ changes' = changes + 1 /\ changes \in Nat
    <3>1. CASE \E n \in Names : Change(id, [registrations[id] EXCEPT !.name = n])
      BY <3>1, RecordsTyped, ChangeTyped DEF PageInv, Name, ServerTyped
    <3>2. CASE Change(id, [registrations[id] EXCEPT !.state = "deleted"])
      <4>1. NoName \in Name
        BY DEF Name
      <4>2. QED
        BY <3>2, <4>1, RecordsTyped, ChangeTyped DEF PageInv, ServerTyped
    <3>3. QED
      BY <2>1, <3>1, <3>2
  <2>3. UNCHANGED <<issued, sessions, logins, token, expired, flight>>
    BY <1>3 DEF OtherAdmin, storeVars
  <2>4. ServerTyped' /\ PageTyped'
    BY <1>1, <1>3, <2>2, <2>3 DEF PageInv, ServerTyped, PageTyped
  <2>5. \A h \in flight' : Timely(h)'
    <3>1. \A h \in flight : Timely(h) /\ h.request.answer.at \in Nat
      BY DEF PageInv, Owned, Sound, RequestRecord, AnswerRecord
    <3>2. QED
      BY <2>2, <2>3, <3>1 DEF Timely
  <2>6. ListIsComing' /\ EndIsComing'
    BY <1>3 DEF ListIsComing, EndIsComing
  <2>7. QED
    BY <1>1, <2>3, <2>4, <2>5, <2>6 DEF PageInv
<1>4. CASE (RestartServer \/ Expire) /\ UNCHANGED excused
  <2>1. /\ UNCHANGED <<registrations, issued, changes, logins, token, flight, excused>>
        /\ sessions' \subseteq sessions /\ expired' \in {expired, TRUE}
    BY <1>4 DEF RestartServer, Expire, storeVars
  <2>2. List' = List
    BY <2>1 DEF List
  <2>3. ServerTyped' /\ PageTyped'
    BY <1>1, <2>1 DEF PageInv, ServerTyped, PageTyped
  <2>4. (\A h \in flight' : Timely(h)') /\ ListIsComing' /\ EndIsComing'
    BY <1>1, <2>1, <2>2 DEF PageInv, Timely, ListIsComing, EndIsComing, Current, Refreshes, Doomed
  <2>5. QED
    BY <1>1, <2>1, <2>3, <2>4 DEF PageInv
<1>5. QED
  BY <1>2, <1>3, <1>4 DEF World

------------------------------------------------------------------------------
(* A render *)

LEMMA PartsTyped ==
  ASSUME AdminUiAssumption
  PROVE  /\ NoPane \in Pane /\ NoPane.id = None
         /\ NoDialog \in Dialog /\ NoDialog.kind = None
         /\ NoRuns \in Runs
         /\ NewPage \in View /\ NewPage.selected = None
<1>1. [id \in Ids |-> NoView] \in Rows
  BY NoRowTyped DEF Rows, NoView
<1>2. NewPage \in View /\ NewPage.selected = None
  BY <1>1 DEF NewPage, View, Id
<1>3. NoPane \in Pane /\ NoPane.id = None
  BY NoRowTyped DEF NoPane, Pane, Id
<1>4. QED
  BY <1>2, <1>3 DEF NoDialog, Dialog, NoRuns, Runs, Id

LEMMA RenderedIs ==
  ASSUME AdminUiAssumption, NEW v \in View, NEW p \in Pane, NEW asked,
         p.id = None => p = NoPane,
         p.id # None => p.record.id = p.id /\ (p.id = v.selected /\ p.shown => p.id \in asked),
         v.selected # None /\ v.created = v.selected => v.selected \in asked
  PROVE  /\ Rendered(v, p) \in Pane
         /\ PaneIsSound(v, Rendered(v, p), asked)
         /\ Rendered(v, p).id = None => Rendered(v, p) = NoPane
         /\ Rendered(v, p).id = p.id => Rendered(v, p) = p
<1>1. NoPane \in Pane /\ NoPane.id = None
  BY PartsTyped
<1>2. CASE ~Selected(v) \/ ~v.server
  <2>1. Rendered(v, p) = NoPane
    BY <1>2 DEF Rendered
  <2>2. QED
    BY <1>1, <2>1 DEF PaneIsSound
<1>3. CASE Selected(v) /\ v.server
  <2>1. v.selected \in Ids /\ v.list[v.selected].id = v.selected /\ v.list[v.selected] \in Row
    BY <1>3 DEF Selected, View, Rows, Id
  <2>2. CASE p.id = v.selected
    <3>1. Rendered(v, p) = p
      BY <1>3, <2>2 DEF Rendered
    <3>2. QED
      BY <2>1, <2>2, <3>1 DEF PaneIsSound, AdminUiAssumption
  <2>3. CASE p.id # v.selected
    <3>1. Rendered(v, p) = Mounted(v)
      BY <1>3, <2>3 DEF Rendered
    <3> DEFINE m == Mounted(v)
    <3>2. /\ m.id = v.selected /\ m.record = v.list[v.selected]
          /\ m.shown = (v.created = v.selected) /\ m.busy = FALSE
          /\ m = [id |-> m.id, record |-> m.record, shown |-> m.shown, busy |-> m.busy]
      BY DEF Mounted
    <3>3. (v.created = v.selected) \in BOOLEAN
      OBVIOUS
    <3> HIDE DEF m
    <3>4. m \in Pane
      BY <2>1, <3>2, <3>3 DEF Pane, Id
    <3>5. QED
      BY <2>1, <2>3, <3>1, <3>2, <3>4 DEF PaneIsSound, AdminUiAssumption, m
  <2>4. QED
    BY <2>2, <2>3
<1>4. QED
  BY <1>2, <1>3

LEMMA ShowKeeps ==
  ASSUME AdminUiAssumption, NEW v \in View, NEW p \in Pane, NEW d \in Dialog, NEW S, NEW asked,
         NEW rs, NEW l,
         Show(v, p, d, S), Owned(S, "domains", p, d, rs, l),
         p.id = None => p = NoPane,
         p.id # None => p.record.id = p.id /\ (p.id = v.selected /\ p.shown => p.id \in asked),
         v.selected # None /\ v.created = v.selected => v.selected \in asked,
         d.kind = "rotate" => p.id # None /\ ~p.busy,
         d.kind \in {"delete", "rotate"} => d.id \in Ids
  PROVE  /\ view' = v /\ pane' \in Pane /\ dialog' \in Dialog
         /\ Owned(flight', "domains", pane', dialog', rs, l)
         /\ Mounting("domains", v, pane', dialog', rs)
         /\ PaneIsSound(v, pane', asked)
         /\ \A g \in flight' : \E f \in S : Twin(g, f)
         /\ \A f \in S : \E g \in flight' : Twin(g, f)
<1>1. /\ view' = v /\ pane' = Rendered(v, p)
      /\ pane' \in Pane /\ PaneIsSound(v, pane', asked)
      /\ pane'.id = None => pane' = NoPane
      /\ pane'.id = p.id => pane' = p
  BY RenderedIs DEF Show
<1>2. NoDialog \in Dialog /\ NoDialog.kind = None
  BY PartsTyped
<1>3. CASE pane'.id = p.id
  <2>1. pane' = p /\ dialog' = d /\ flight' = S
    BY <1>1, <1>3 DEF Show
  <2>2. \A f \in S : Twin(f, f)
    BY DEF Twin
  <2>3. QED
    BY <1>1, <2>1, <2>2 DEF Mounting
<1>4. CASE pane'.id # p.id
  <2>1. /\ dialog' = IF d.kind = "rotate" THEN NoDialog ELSE d
        /\ flight' = Orphaned(S, "pane", "page")
    BY <1>1, <1>4 DEF Show
  <2>2. dialog' \in Dialog /\ dialog'.kind # "rotate"
        /\ (dialog'.kind = "delete" => dialog'.id \in Ids)
    BY <1>2, <2>1 DEF None
  <2>3. Owned(flight', "domains", pane', d, rs, l)
        /\ (\A g \in flight' : \E f \in S : Twin(g, f))
        /\ (\A f \in S : \E g \in flight' : Twin(g, f))
    BY <2>1, OrphanedIsOwned
  <2>4. Owned(flight', "domains", pane', dialog', rs, l)
    BY <1>2, <2>1, <2>3 DEF Owned, Owner
  <2>5. QED
    BY <1>1, <2>2, <2>3, <2>4 DEF Mounting
<1>5. QED
  BY <1>3, <1>4

------------------------------------------------------------------------------
(* What the user and the answers do to the page leaves the server alone *)

\* Its answers are of requests that were there, or still to come.
AnswersAreOld ==
  \A g \in flight' :
    \/ g.request.answer.status = "waiting"
    \/ \E f \in flight : /\ g.request.kind = f.request.kind
                         /\ g.request.answer = f.request.answer

\* A handler reads the token and sends a request with it.
SendsOne == \E g \in flight' : /\ g.request.kind # "login" /\ g.request.token = SessionToken
                               /\ g.request.answer.status = "waiting"

LEMMA ClientKeeps ==
  ASSUME PageInv, UNCHANGED serverVars, PageTyped', AnswersAreOld,
         Owned(flight', page', pane', dialog', runs', login'),
         Mounting(page', view', pane', dialog', runs'), PaneIsSound(view', pane', revealed'),
         ListIsComing', EndIsComing'
  PROVE  PageInv'
<1>1. List' = List /\ changes' = changes
  BY DEF serverVars, List
<1>2. \A g \in flight' : Timely(g)'
  BY <1>1 DEF PageInv, Timely, AnswersAreOld
<1>3. ServerTyped'
  BY DEF PageInv, ServerTyped, serverVars
<1>4. QED
  BY <1>2, <1>3 DEF PageInv

LEMMA ListKept ==
  ASSUME PageInv, UNCHANGED serverVars, excused => excused',
         page' = "domains" =>
           page = "domains" /\ view'.at = view.at /\ view'.list = view.list,
         (\E h \in flight : Refreshes(h)) => \E g \in flight' : Refreshes(g)
  PROVE  ListIsComing'
<1>1. List' = List /\ changes' = changes
  BY DEF serverVars, List
<1>2. \A g : Refreshes(g)' <=> Refreshes(g)
  BY <1>1 DEF Refreshes
<1>3. QED
  BY <1>1, <1>2 DEF PageInv, ListIsComing, Current

LEMMA EndKept ==
  ASSUME PageInv, excused => excused', page' = "domains" => page = "domains",
         \/ token' = token /\ ((\E h \in flight : Doomed(h)) => \E g \in flight' : Doomed(g))
         \/ ReadToken /\ SendsOne
  PROVE  EndIsComing'
<1>1. CASE token' = token /\ ((\E h \in flight : Doomed(h)) => \E g \in flight' : Doomed(g))
  BY <1>1 DEF PageInv, EndIsComing, Doomed
<1>2. CASE ReadToken /\ SendsOne
  BY <1>2 DEF ReadToken, SendsOne, EndIsComing, Doomed
<1>3. QED
  BY <1>1, <1>2

LEMMA TwinsAreAlike ==
  ASSUME NEW f, NEW g, Twin(g, f)
  PROVE  (Refreshes(f) => Refreshes(g)) /\ (Doomed(f) => Doomed(g))
BY DEF Twin, Refreshes, Doomed

\* A step in which every request stays, and none is sent without the token being read.
LEMMA AllStay ==
  ASSUME PageInv, UNCHANGED serverVars, UNCHANGED <<page, excused>>,
         view'.at = view.at, view'.list = view.list,
         \A f \in flight : \E g \in flight' : Twin(g, f),
         token' = token \/ (ReadToken /\ SendsOne)
  PROVE  ListIsComing' /\ EndIsComing'
<1>1. ((\E h \in flight : Refreshes(h)) => \E g \in flight' : Refreshes(g))
      /\ ((\E h \in flight : Doomed(h)) => \E g \in flight' : Doomed(g))
  BY TwinsAreAlike
<1>2. QED
  BY <1>1, ListKept, EndKept

LEMMA TokenTyped ==
  ASSUME PageTyped
  PROVE  SessionToken \in Nat /\ (ReadToken => token' \in Nat /\ expired' \in BOOLEAN)
<1>1. SessionToken \in Nat
  BY DEF PageTyped, SessionToken
<1>2. ReadToken => token' = SessionToken /\ expired' = FALSE
  BY DEF ReadToken
<1>3. QED
  BY <1>1, <1>2

\* What a handler sends for the page or for a part of it.
Sends(sent, S, kind, to) ==
  /\ S \subseteq sent
  /\ \A g \in sent : g \in S \/ g.request.answer.status = "waiting"
  /\ \E g \in sent : /\ g.request.kind = kind /\ g.request.token = SessionToken
                     /\ g.request.answer.status = "waiting" /\ g.request.to = to

LEMMA SendKeeps ==
  ASSUME PageInv, NEW kind \in Kind, kind # "login", NEW to \in Part, to \notin {"login", "gone"},
         NEW id \in Id, NEW name \in Name, NEW sel \in Id, NEW S,
         NEW p, NEW d, NEW rs, Owned(S, "domains", p, d, rs, login),
         to = "pane" => /\ kind \in {"rename", "rotate"} /\ p.id # None /\ p.busy /\ id = p.id
                        /\ \A f \in S : f.request.to # "pane",
         to = "dialog" => /\ kind = "check" /\ d.kind = "check" /\ rs.check
                          /\ \A f \in S : f.request.to # "dialog",
         kind \in {"rename", "rotate", "delete"} => id \in Ids,
         NEW sent, sent = Sent(S, Request(kind, to, id, name, sel))
  PROVE  Owned(sent, "domains", p, d, rs, login) /\ Sends(sent, S, kind, to)
<1> DEFINE r == Request(kind, to, id, name, sel)
<1>1. \A n : Sound([request |-> r, nr |-> n])
  BY NewIsSound DEF PageInv, PageTyped
<1>2. r.kind = kind /\ r.to = to /\ r.id = id /\ r.token = SessionToken /\ r.answer.status = "waiting"
  BY DEF Request, Waiting
<1>3. sent = Sent(S, r)
  OBVIOUS
<1> HIDE DEF r
<1>4. \A n : [request |-> r, nr |-> n].request = r
  OBVIOUS
<1>5. \A n : Owner([request |-> r, nr |-> n], "domains", p, d, rs, login)
  BY <1>2, <1>4 DEF Owner
<1>6. r.to \in {"pane", "dialog", "login"} => \A f \in S : f.request.to # r.to
  BY <1>2
<1>7. /\ Owned(sent, "domains", p, d, rs, login)
      /\ S \subseteq sent
      /\ \A g \in sent : g \in S \/ g.request = r
      /\ \E g \in sent : g.request = r
  <2>1. \A n : /\ Sound([request |-> r, nr |-> n])
               /\ Owner([request |-> r, nr |-> n], "domains", p, d, rs, login)
    BY <1>1, <1>5
  <2>2. QED
    BY <1>3, <1>6, <2>1, SentIsOwned
<1>8. QED
  BY <1>2, <1>7 DEF Sends

LEMMA PageSends ==
  ASSUME PageInv, NEW kind \in Kind, kind # "login",
         NEW id \in Id, NEW name \in Name, NEW sel \in Id, NEW S,
         NEW p, NEW d, NEW rs, Owned(S, "domains", p, d, rs, login),
         kind \in {"rename", "rotate", "delete"} => id \in Ids,
         NEW sent, sent = Sent(S, Request(kind, "page", id, name, sel))
  PROVE  Owned(sent, "domains", p, d, rs, login) /\ Sends(sent, S, kind, "page")
<1>1. "page" \in Part /\ "page" \notin {"login", "gone"}
  BY DEF Part
<1>2. QED
  BY <1>1, SendKeeps

LEMMA DialogSends ==
  ASSUME PageInv, NEW id \in Id, NEW name \in Name, NEW S,
         NEW p, NEW d, NEW rs, Owned(S, "domains", p, d, rs, login),
         d.kind = "check", rs.check, \A f \in S : f.request.to # "dialog",
         NEW sent, sent = Sent(S, Request("check", "dialog", id, name, None))
  PROVE  Owned(sent, "domains", p, d, rs, login) /\ Sends(sent, S, "check", "dialog")
<1>1. /\ "dialog" \in Part /\ "dialog" \notin {"login", "gone", "pane"} /\ None \in Id
      /\ "check" \in Kind /\ "check" \notin {"login", "rename", "rotate", "delete"}
  BY DEF Part, Kind, Id
<1>2. QED
  BY <1>1, SendKeeps

------------------------------------------------------------------------------
(* The user *)

\* What holds on the page of registrations.
LEMMA OnThePage ==
  ASSUME PageInv, page = "domains"
  PROVE  /\ Owned(flight, "domains", pane, dialog, runs, login)
         /\ view \in View /\ pane \in Pane /\ dialog \in Dialog /\ runs \in Runs
         /\ pane.id = None => pane = NoPane
         /\ pane.id # None => /\ pane.id \in Ids /\ pane.id = view.selected
                              /\ pane.record.id = pane.id /\ (pane.shown => pane.id \in revealed)
         /\ view.selected # None /\ view.created = view.selected => view.selected \in revealed
         /\ dialog.kind = "rotate" => pane.id # None /\ ~pane.busy
         /\ dialog.kind \in {"delete", "rotate"} => dialog.id \in Ids
         /\ NoName \in Name /\ None \in Id
BY DEF PageInv, PageTyped, Mounting, PaneIsSound, Pane, Id, Name

LEMMA RefreshKeeps ==
  ASSUME AdminUiAssumption, PageInv, Refresh
  PROVE  PageInv'
<1> DEFINE v == [view EXCEPT !.loading = TRUE]
           S == Sent(flight, Request("list", "page", None, NoName, None))
<1>1. /\ page = "domains" /\ Show(v, pane, dialog, S) /\ ReadToken
      /\ UNCHANGED serverVars /\ UNCHANGED <<page, login, runs, revealed, excused>>
  BY DEF Refresh, OnPage
<1>2. /\ v \in View /\ v.list = view.list /\ v.at = view.at
      /\ v.selected = view.selected /\ v.created = view.created
  BY <1>1, OnThePage DEF View
<1>3. Owned(S, "domains", pane, dialog, runs, login) /\ Sends(S, flight, "list", "page")
  <2>1. "list" \in Kind /\ "list" \notin {"rename", "rotate", "delete", "login"}
    BY DEF Kind
  <2>2. Owned(flight, "domains", pane, dialog, runs, login) /\ NoName \in Name /\ None \in Id
    BY <1>1, OnThePage
  <2>3. QED
    BY <2>1, <2>2, PageSends
<1> HIDE DEF v, S
<1>4. /\ view' = v /\ pane' \in Pane /\ dialog' \in Dialog
      /\ Owned(flight', "domains", pane', dialog', runs, login)
      /\ Mounting("domains", v, pane', dialog', runs)
      /\ PaneIsSound(v, pane', revealed)
      /\ \A g \in flight' : \E f \in S : Twin(g, f)
      /\ \A f \in S : \E g \in flight' : Twin(g, f)
  BY <1>1, <1>2, <1>3, OnThePage, ShowKeeps
<1>5. PageTyped'
  BY <1>1, <1>2, <1>4, TokenTyped DEF PageInv, PageTyped
<1>6. AnswersAreOld /\ SendsOne
  BY <1>3, <1>4 DEF AnswersAreOld, Sends, SendsOne, Twin
<1>7. ListIsComing' /\ EndIsComing'
  BY <1>1, <1>2, <1>3, <1>4, <1>6, AllStay DEF Sends
<1>8. QED
  BY <1>1, <1>4, <1>5, <1>6, <1>7, ClientKeeps

LEMMA SelectRowKeeps ==
  ASSUME AdminUiAssumption, PageInv, NEW id \in Ids, SelectRow(id)
  PROVE  PageInv'
<1> DEFINE v == [view EXCEPT !.selected = id, !.created = None]
<1>1. /\ page = "domains" /\ Show(v, pane, dialog, flight)
      /\ UNCHANGED serverVars /\ UNCHANGED <<page, login, runs, excused, token, expired>>
      /\ revealed' = IF id = view.selected THEN revealed ELSE {}
  BY DEF SelectRow, OnPage, storeVars
<1>2. /\ v \in View /\ v.list = view.list /\ v.at = view.at
      /\ v.selected = id /\ v.created = None
  BY <1>1, OnThePage DEF View, Id
<1> HIDE DEF v
<1>3. pane.id # None =>
        pane.record.id = pane.id /\ (pane.id = v.selected /\ pane.shown => pane.id \in revealed')
  BY <1>1, <1>2, OnThePage
<1>4. v.selected # None /\ v.created = v.selected => v.selected \in revealed'
  BY <1>2
<1>5. /\ view' = v /\ pane' \in Pane /\ dialog' \in Dialog
      /\ Owned(flight', "domains", pane', dialog', runs, login)
      /\ Mounting("domains", v, pane', dialog', runs)
      /\ PaneIsSound(v, pane', revealed')
      /\ \A g \in flight' : \E f \in flight : Twin(g, f)
      /\ \A f \in flight : \E g \in flight' : Twin(g, f)
  BY <1>1, <1>2, <1>3, <1>4, OnThePage, ShowKeeps
<1>6. PageTyped'
  BY <1>1, <1>2, <1>5 DEF PageInv, PageTyped
<1>7. AnswersAreOld
  BY <1>5 DEF AnswersAreOld, Twin
<1>8. ListIsComing' /\ EndIsComing'
  BY <1>1, <1>2, <1>5, AllStay
<1>9. QED
  BY <1>1, <1>5, <1>6, <1>7, <1>8, ClientKeeps

LEMMA StayedTwins ==
  ASSUME flight \subseteq flight'
  PROVE  \A f \in flight : \E g \in flight' : Twin(g, f)
BY DEF Twin

\* A step of the page that sends nothing and leaves the list alone.
LEMMA QuietKeeps ==
  ASSUME PageInv, UNCHANGED serverVars, UNCHANGED <<token, expired, page, login, view, excused, flight>>,
         PageTyped', Owned(flight, page, pane', dialog', runs', login),
         Mounting(page, view, pane', dialog', runs'), PaneIsSound(view, pane', revealed')
  PROVE  PageInv'
<1>1. AnswersAreOld
  BY DEF AnswersAreOld
<1>2. ListIsComing' /\ EndIsComing'
  BY StayedTwins, AllStay
<1>3. QED
  BY <1>1, <1>2, ClientKeeps

LEMMA OpenKeeps ==
  ASSUME AdminUiAssumption, PageInv, NEW kind \in {"create", "match", "check", "delete", "rotate"},
         NEW id \in Id, Open(kind, id)
  PROVE  PageInv'
<1>1. /\ page = "domains" /\ dialog = NoDialog /\ dialog' = [kind |-> kind, id |-> id]
      /\ UNCHANGED <<registrations, issued, changes, sessions, logins, token, expired, flight>>
      /\ UNCHANGED <<page, login, view, pane, runs, revealed, excused>>
      /\ kind \in {"delete", "rotate"} => id # None /\ pane.id = id
      /\ kind = "rotate" => ~pane.busy
  BY DEF Open, OnPage, clientVars
<1>2. dialog' \in Dialog /\ dialog'.kind = kind /\ dialog'.id = id
  BY <1>1 DEF Dialog, Id
<1>3. PageTyped'
  BY <1>1, <1>2 DEF PageInv, PageTyped
<1>4. Owned(flight, page, pane', dialog', runs', login)
  BY <1>1, OnThePage DEF Owned, Owner, NoDialog, None
<1>5. Mounting(page, view, pane', dialog', runs')
  BY <1>1, <1>2, OnThePage DEF Mounting
<1>6. PaneIsSound(view, pane', revealed')
  BY <1>1 DEF PageInv
<1>7. QED
  BY <1>1, <1>3, <1>4, <1>5, <1>6, QuietKeeps DEF serverVars

LEMMA CloseKeeps ==
  ASSUME AdminUiAssumption, PageInv, Close
  PROVE  PageInv'
<1>1. /\ dialog # NoDialog /\ dialog' = NoDialog /\ flight' = Orphaned(flight, "dialog", "page")
      /\ runs' = IF dialog.kind = "check" THEN [runs EXCEPT !.check = FALSE] ELSE runs
      /\ UNCHANGED serverVars
      /\ UNCHANGED <<token, expired, page, login, view, pane, revealed, excused>>
  BY DEF Close, storeVars
<1>2. page = "domains"
  BY <1>1 DEF PageInv, PageTyped, Mounting
<1>3. NoDialog \in Dialog /\ NoDialog.kind = None
  BY PartsTyped
<1>4. runs' \in Runs
  BY <1>1 DEF PageInv, PageTyped, Runs
<1>5. PageTyped'
  BY <1>1, <1>3, <1>4 DEF PageInv, PageTyped
<1>6. /\ Owned(flight', "domains", pane, dialog', runs', login)
      /\ \A g \in flight' : \E f \in flight : Twin(g, f)
      /\ \A f \in flight : \E g \in flight' : Twin(g, f)
  BY <1>1, <1>2, OnThePage, OrphanedIsOwned
<1>7. Mounting(page', view', pane', dialog', runs')
  BY <1>1, <1>2, <1>3, OnThePage DEF Mounting, None
<1>8. PaneIsSound(view', pane', revealed')
  BY <1>1 DEF PageInv
<1>9. AnswersAreOld
  BY <1>6 DEF AnswersAreOld, Twin
<1>10. ListIsComing' /\ EndIsComing'
  BY <1>1, <1>6, AllStay
<1>11. QED
  BY <1>1, <1>2, <1>5, <1>6, <1>7, <1>8, <1>9, <1>10, ClientKeeps

\* A step of the page that sends one request and leaves the list alone.
LEMMA SendingKeeps ==
  ASSUME PageInv, UNCHANGED serverVars, UNCHANGED <<page, login, view, excused>>, ReadToken,
         page = "domains", NEW kind, kind # "login", NEW to, Sends(flight', flight, kind, to),
         Owned(flight', "domains", pane', dialog', runs', login),
         pane' \in Pane, dialog' \in Dialog, runs' \in Runs, revealed' = revealed,
         Mounting(page, view, pane', dialog', runs'), PaneIsSound(view, pane', revealed)
  PROVE  PageInv'
<1>1. PageTyped'
  BY TokenTyped DEF PageInv, PageTyped
<1>2. AnswersAreOld /\ SendsOne
  BY DEF Sends, AnswersAreOld, SendsOne
<1>3. ListIsComing' /\ EndIsComing'
  BY <1>2, StayedTwins, AllStay DEF Sends
<1>4. QED
  BY <1>1, <1>2, <1>3, ClientKeeps

LEMMA RunDialogKeeps ==
  ASSUME AdminUiAssumption, PageInv, NEW name \in Name, RunDialog(name)
  PROVE  PageInv'
<1> DEFINE kind == dialog.kind
           to == IF kind = "check" THEN "dialog" ELSE "page"
<1>1. /\ kind \in DOMAIN runs /\ ~runs[kind] /\ runs' = [runs EXCEPT ![kind] = TRUE]
      /\ flight' = Sent(flight, Request(kind, to, dialog.id, name, None)) /\ ReadToken
      /\ UNCHANGED serverVars /\ UNCHANGED <<page, login, view, pane, dialog, revealed, excused>>
  BY DEF RunDialog
<1>2. runs \in Runs /\ kind \in {"create", "match", "check"}
  BY <1>1 DEF PageInv, PageTyped, Runs
<1>3. page = "domains"
  BY <1>2 DEF PageInv, PageTyped, Mounting, NoDialog, None
<1>4. runs' \in Runs /\ (runs.check => runs'.check) /\ (kind = "check" => ~runs.check /\ runs'.check)
  <2>1. CASE kind = "create"
    BY <1>1, <1>2, <2>1 DEF Runs
  <2>2. CASE kind = "match"
    BY <1>1, <1>2, <2>2 DEF Runs
  <2>3. CASE kind = "check"
    BY <1>1, <1>2, <2>3 DEF Runs
  <2>4. QED
    BY <1>2, <2>1, <2>2, <2>3
<1>5. Owned(flight, "domains", pane, dialog, runs', login)
  BY <1>3, <1>4, OnThePage DEF Owned, Owner
<1>6. /\ kind \in Kind /\ kind \notin {"login", "rename", "rotate", "delete"}
      /\ to \in Part /\ to \notin {"login", "gone", "pane"}
      /\ dialog.id \in Id
  BY <1>2 DEF Kind, Part, PageInv, PageTyped, Dialog
<1>7. to = "dialog" => /\ kind = "check" /\ dialog.kind = "check" /\ runs'.check
                       /\ \A f \in flight : f.request.to # "dialog"
  BY <1>3, <1>4, OnThePage DEF Owned, Owner
<1>8. None \in Id
  BY DEF Id
<1> HIDE DEF kind, to
<1>9. Owned(flight', "domains", pane, dialog, runs', login) /\ Sends(flight', flight, kind, to)
  <2>1. CASE to = "page"
    BY <1>1, <1>5, <1>6, <1>8, <2>1, PageSends
  <2>2. CASE to = "dialog"
    <3>1. /\ kind = "check" /\ dialog.kind = "check" /\ runs'.check
          /\ \A f \in flight : f.request.to # "dialog"
      BY <1>7, <2>2
    <3>2. QED
      <4>1. flight' = Sent(flight, Request("check", "dialog", dialog.id, name, None))
        BY <1>1, <2>2, <3>1
      <4>2. QED
        BY <1>5, <1>6, <2>2, <3>1, <4>1, DialogSends
  <2>3. QED
    BY <1>6, <2>1, <2>2 DEF to
<1>10. Mounting(page, view, pane', dialog', runs') /\ PaneIsSound(view, pane', revealed)
  BY <1>1, <1>3 DEF PageInv, Mounting
<1>11. pane' \in Pane /\ dialog' \in Dialog
  BY <1>1 DEF PageInv, PageTyped
<1>12. QED
  BY <1>1, <1>3, <1>4, <1>6, <1>9, <1>10, <1>11, SendingKeeps

LEMMA ConfirmDeleteKeeps ==
  ASSUME AdminUiAssumption, PageInv, ConfirmDelete
  PROVE  PageInv'
<1>1. /\ dialog.kind = "delete" /\ dialog' = NoDialog
      /\ flight' = Sent(flight, Request("delete", "page", dialog.id, NoName, view.selected))
      /\ ReadToken /\ UNCHANGED serverVars
      /\ UNCHANGED <<page, login, view, pane, runs, revealed, excused>>
  BY DEF ConfirmDelete
<1>2. page = "domains"
  BY <1>1 DEF PageInv, PageTyped, Mounting, NoDialog, None
<1>3. dialog.id \in Ids /\ dialog.id \in Id /\ view.selected \in Id /\ NoName \in Name
  BY <1>1, <1>2, OnThePage DEF Id, View
<1>4. Owned(flight, "domains", pane, dialog', runs, login)
  BY <1>1, <1>2, OnThePage DEF Owned, Owner
<1>5. "delete" \in Kind /\ "delete" # "login"
  BY DEF Kind
<1>6. Owned(flight', "domains", pane, dialog', runs, login) /\ Sends(flight', flight, "delete", "page")
  BY <1>1, <1>3, <1>4, <1>5, PageSends
<1>7. dialog' \in Dialog /\ dialog'.kind = None
  BY <1>1, PartsTyped
<1>8. Mounting(page, view, pane', dialog', runs') /\ PaneIsSound(view, pane', revealed)
  BY <1>1, <1>2, <1>7 DEF PageInv, Mounting, None
<1>9. pane' \in Pane /\ runs' \in Runs
  BY <1>1 DEF PageInv, PageTyped
<1>10. QED
  BY <1>1, <1>2, <1>5, <1>6, <1>7, <1>8, <1>9, SendingKeeps

LEMMA LogoutKeeps ==
  ASSUME AdminUiAssumption, PageInv, Logout
  PROVE  PageInv'
<1>1. /\ page = "domains" /\ flight' = Sent(flight, Request("logout", "page", None, NoName, None))
      /\ ReadToken /\ UNCHANGED serverVars
      /\ UNCHANGED <<page, login, view, pane, dialog, runs, revealed, excused>>
  BY DEF Logout, OnPage
<1>2. "logout" \in Kind /\ "logout" \notin {"login", "rename", "rotate", "delete"}
  BY DEF Kind
<1>3. Owned(flight, "domains", pane, dialog, runs, login) /\ NoName \in Name /\ None \in Id
  BY <1>1, OnThePage
<1>4. Owned(flight', "domains", pane, dialog, runs, login) /\ Sends(flight', flight, "logout", "page")
  BY <1>1, <1>2, <1>3, PageSends
<1>5. Mounting(page, view, pane', dialog', runs') /\ PaneIsSound(view, pane', revealed)
      /\ pane' \in Pane /\ dialog' \in Dialog /\ runs' \in Runs
  BY <1>1 DEF PageInv, PageTyped
<1>6. QED
  BY <1>1, <1>2, <1>4, <1>5, SendingKeeps

LEMMA TogglePasswordKeeps ==
  ASSUME AdminUiAssumption, PageInv, TogglePassword
  PROVE  PageInv'
<1>1. /\ page = "domains" /\ pane.id # None /\ revealed' = revealed \cup {pane.id}
      /\ pane' = [pane EXCEPT !.shown = ~pane.shown]
      /\ UNCHANGED <<registrations, issued, changes, sessions, logins, token, expired, flight>>
      /\ UNCHANGED <<page, login, view, dialog, runs, excused>>
  BY DEF TogglePassword, OnPage, clientVars
<1>2. pane' \in Pane /\ pane'.id = pane.id /\ pane'.record = pane.record /\ pane'.busy = pane.busy
  BY <1>1, OnThePage DEF Pane
<1>3. PageTyped'
  BY <1>1, <1>2, OnThePage DEF PageInv, PageTyped
<1>4. Owned(flight, page, pane', dialog', runs', login)
  BY <1>1, <1>2 DEF PageInv, Owned, Owner
<1>5. Mounting(page, view, pane', dialog', runs')
  BY <1>1, <1>2, OnThePage DEF Mounting
<1>6. PaneIsSound(view, pane', revealed')
  BY <1>1, <1>2, OnThePage DEF PaneIsSound
<1>7. QED
  BY <1>1, <1>3, <1>4, <1>5, <1>6, QuietKeeps DEF serverVars

LEMMA BusyTyped ==
  ASSUME PageInv, NEW b \in BOOLEAN, pane' = [pane EXCEPT !.busy = b]
  PROVE  pane' \in Pane /\ pane'.id = pane.id /\ pane'.record = pane.record
         /\ pane'.shown = pane.shown /\ pane'.busy = b
BY DEF PageInv, PageTyped, Pane

LEMMA saveNameKeeps ==
  ASSUME AdminUiAssumption, PageInv, NEW name \in Name, saveName(name)
  PROVE  PageInv'
<1>1. /\ page = "domains" /\ dialog = NoDialog /\ pane.id # None /\ ~pane.busy
      /\ pane' = [pane EXCEPT !.busy = TRUE]
      /\ flight' = Sent(flight, Request("rename", "pane", pane.id, name, None))
      /\ ReadToken /\ UNCHANGED serverVars
      /\ UNCHANGED <<page, login, view, dialog, runs, revealed, excused>>
  BY DEF saveName, OnPage
<1>2. pane' \in Pane /\ pane'.id = pane.id /\ pane'.record = pane.record
      /\ pane'.shown = pane.shown /\ pane'.busy
  BY <1>1, BusyTyped
<1>3. \A f \in flight : f.request.to # "pane"
  BY <1>1 DEF PageInv, Owned, Owner
<1>4. Owned(flight, "domains", pane', dialog, runs, login)
  BY <1>1, <1>3 DEF PageInv, Owned, Owner
<1>5. "rename" \in Kind /\ "rename" # "login" /\ "pane" \in Part /\ "pane" \notin {"login", "gone"}
  BY DEF Kind, Part
<1>6. pane.id \in Ids /\ pane.id \in Id /\ None \in Id
  BY <1>1, OnThePage DEF Id
<1>7. Owned(flight', "domains", pane', dialog, runs, login) /\ Sends(flight', flight, "rename", "pane")
  BY <1>1, <1>2, <1>3, <1>4, <1>5, <1>6, SendKeeps
<1>8. Mounting(page, view, pane', dialog', runs')
  BY <1>1, <1>2, PartsTyped DEF Mounting, None
<1>9. PaneIsSound(view, pane', revealed)
  BY <1>2 DEF PageInv, PaneIsSound
<1>10. dialog' \in Dialog /\ runs' \in Runs
  BY <1>1 DEF PageInv, PageTyped
<1>11. QED
  BY <1>1, <1>2, <1>5, <1>7, <1>8, <1>9, <1>10, SendingKeeps

LEMMA rotateKeeps ==
  ASSUME AdminUiAssumption, PageInv, rotate
  PROVE  PageInv'
<1>1. /\ dialog.kind = "rotate" /\ dialog' = NoDialog
      /\ pane' = [pane EXCEPT !.busy = TRUE]
      /\ flight' = Sent(flight, Request("rotate", "pane", pane.id, NoName, None))
      /\ ReadToken /\ UNCHANGED serverVars
      /\ UNCHANGED <<page, login, view, runs, revealed, excused>>
  BY DEF rotate
<1>2. page = "domains"
  BY <1>1 DEF PageInv, PageTyped, Mounting, NoDialog, None
<1>3. pane.id # None /\ ~pane.busy /\ pane.id \in Ids /\ pane.id \in Id /\ None \in Id /\ NoName \in Name
  BY <1>1, <1>2, OnThePage DEF Id
<1>4. pane' \in Pane /\ pane'.id = pane.id /\ pane'.record = pane.record
      /\ pane'.shown = pane.shown /\ pane'.busy
  BY <1>1, BusyTyped
<1>5. \A f \in flight : f.request.to \notin {"pane", "dialog"}
  BY <1>1, <1>3 DEF PageInv, Owned, Owner
<1>6. Owned(flight, "domains", pane', dialog', runs, login)
  BY <1>2, <1>5 DEF PageInv, Owned, Owner
<1>7. "rotate" \in Kind /\ "rotate" # "login" /\ "pane" \in Part /\ "pane" \notin {"login", "gone"}
  BY DEF Kind, Part
<1>8. Owned(flight', "domains", pane', dialog', runs, login) /\ Sends(flight', flight, "rotate", "pane")
  BY <1>1, <1>3, <1>4, <1>5, <1>6, <1>7, SendKeeps
<1>9. dialog' \in Dialog /\ dialog'.kind = None
  BY <1>1, PartsTyped
<1>10. Mounting(page, view, pane', dialog', runs')
  BY <1>2, <1>3, <1>4, <1>9 DEF Mounting, None
<1>11. PaneIsSound(view, pane', revealed)
  BY <1>4 DEF PageInv, PaneIsSound
<1>12. runs' \in Runs
  BY <1>1 DEF PageInv, PageTyped
<1>13. QED
  BY <1>1, <1>2, <1>4, <1>7, <1>8, <1>9, <1>10, <1>11, <1>12, SendingKeeps

LEMMA LoginSends ==
  ASSUME PageInv, page = "login", ~login, NEW l, l = TRUE, NEW sent,
         sent = Sent(flight, Request("login", "login", None, NoName, None))
  PROVE  /\ Owned(sent, page, pane, dialog, runs, l)
         /\ \A g \in sent : g \in flight \/ g.request.answer.status = "waiting"
<1> DEFINE r == Request("login", "login", None, NoName, None)
<1>1. \A f \in flight : f.request.to # "login"
  BY DEF PageInv, Owned, Owner
<1>2. Owned(flight, page, pane, dialog, runs, l)
  BY <1>1 DEF PageInv, Owned, Owner
<1>3. \A n : Sound([request |-> r, nr |-> n])
  <2>1. "login" \in Kind /\ "login" \in Part /\ None \in Id /\ NoName \in Name
        /\ token \in Nat /\ expired \in BOOLEAN
    BY DEF Kind, Part, Id, Name, PageInv, PageTyped
  <2>2. QED
    BY <2>1, NewIsSound
<1>4. r.to = "login" /\ r.answer.status = "waiting"
  BY DEF Request, Waiting
<1>5. sent = Sent(flight, r)
  OBVIOUS
<1> HIDE DEF r
<1>6. \A n : [request |-> r, nr |-> n].request = r
  OBVIOUS
<1>7. \A n : /\ Sound([request |-> r, nr |-> n])
             /\ Owner([request |-> r, nr |-> n], page, pane, dialog, runs, l)
  BY <1>3, <1>4, <1>6 DEF Owner
<1>8. r.to \in {"pane", "dialog", "login"} => \A f \in flight : f.request.to # r.to
  BY <1>1, <1>4
<1>9. PICK n : sent = flight \cup {[request |-> r, nr |-> n]}
  BY <1>5, SentIs
<1>10. \A part \in {"pane", "dialog", "login"} : AtMostOne(sent, part)
  BY <1>2, <1>6, <1>8, <1>9 DEF Owned, AtMostOne
<1>11. \A f \in sent : Sound(f) /\ Owner(f, page, pane, dialog, runs, l)
  BY <1>2, <1>7, <1>9 DEF Owned
<1>12. QED
  BY <1>4, <1>6, <1>9, <1>10, <1>11 DEF Owned

LEMMA SubmitLoginKeeps ==
  ASSUME AdminUiAssumption, PageInv, SubmitLogin
  PROVE  PageInv'
<1>1. /\ page = "login" /\ ~login /\ login' = TRUE
      /\ flight' = Sent(flight, Request("login", "login", None, NoName, None))
      /\ ReadToken /\ UNCHANGED serverVars
      /\ UNCHANGED <<page, view, pane, dialog, runs, revealed, excused>>
  BY DEF SubmitLogin
<1>2. /\ Owned(flight', page, pane, dialog, runs, login')
      /\ \A g \in flight' : g \in flight \/ g.request.answer.status = "waiting"
  BY <1>1, LoginSends
<1>3. AnswersAreOld
  BY <1>2 DEF AnswersAreOld
<1>4. PageTyped'
  BY <1>1, TokenTyped DEF PageInv, PageTyped
<1>5. ListIsComing' /\ EndIsComing'
  BY <1>1 DEF ListIsComing, EndIsComing
<1>6. Mounting(page', view', pane', dialog', runs') /\ PaneIsSound(view', pane', revealed')
  BY <1>1 DEF PageInv
<1>7. QED
  BY <1>1, <1>2, <1>3, <1>4, <1>5, <1>6, ClientKeeps

LEMMA UserKeeps ==
  ASSUME AdminUiAssumption, PageInv, User
  PROVE  PageInv'
BY RefreshKeeps, SelectRowKeeps, OpenKeeps, CloseKeeps, RunDialogKeeps, ConfirmDeleteKeeps,
   LogoutKeeps, TogglePasswordKeeps, saveNameKeeps, rotateKeeps, SubmitLoginKeeps
   DEF User, Id, Name

------------------------------------------------------------------------------
(* The answers *)

LEMMA Taking ==
  ASSUME PageInv, NEW f \in flight
  PROVE  /\ Sound(f) /\ f.request \in RequestRecord /\ f.request.answer \in AnswerRecord
         /\ Owner(f, page, pane, dialog, runs, login)
         /\ Owned(flight \ {f}, page, pane, dialog, runs, login)
         /\ Alive(f) /\ f.request.kind # "login" => page = "domains"
         /\ \A part \in {"pane", "dialog", "login"} :
              f.request.to = part => \A h \in flight \ {f} : h.request.to # part
<1>1. Sound(f) /\ Owner(f, page, pane, dialog, runs, login)
  BY DEF PageInv, Owned
<1>2. Owned(flight \ {f}, page, pane, dialog, runs, login)
  BY TakenIsOwned DEF PageInv
<1>3. f.request \in RequestRecord /\ f.request.answer \in AnswerRecord
  BY <1>1 DEF Sound, RequestRecord
<1>4. page \in {"login", "domains"} /\ Mounting(page, view, pane, dialog, runs)
  BY DEF PageInv, PageTyped
<1>5. Alive(f) /\ f.request.kind # "login" => page = "domains"
  BY <1>1, <1>3, <1>4 DEF Sound, Owner, Alive, Mounting, RequestRecord, Part, NoPane, NoDialog, None
<1>6. \A part \in {"pane", "dialog", "login"} :
        f.request.to = part => \A h \in flight \ {f} : h.request.to # part
  BY DEF PageInv, Owned, AtMostOne
<1>7. QED
  BY <1>1, <1>2, <1>3, <1>5, <1>6

\* The list is asked for again, for the page if there still is one.
LEMMA ReloadingKeeps ==
  ASSUME PageInv, NEW f \in flight, f.request.kind # "login", NEW p, NEW d, NEW rs,
         Owned(flight \ {f}, page, p, d, rs, login), NEW sent, sent = Reloading(f)
  PROVE  /\ Owned(sent, page, p, d, rs, login)
         /\ flight \ {f} \subseteq sent
         /\ \A g \in sent : g \in flight \/ g.request.answer.status = "waiting"
         /\ \E g \in sent : /\ g.request.kind = "list" /\ g.request.token = SessionToken
                            /\ g.request.answer.status = "waiting"
                            /\ Alive(f) => g.request.to = "page"
<1> DEFINE to == IF Alive(f) THEN "page" ELSE "gone"
           r == Request("list", to, None, NoName, None)
<1>1. to \in Part /\ to \in {"page", "gone"} /\ (Alive(f) => to = "page" /\ page = "domains")
      /\ (~Alive(f) => to = "gone")
  BY Taking DEF Part
<1>2. sent = Sent(flight \ {f}, r)
  BY DEF Reloading
<1> HIDE DEF to
<1>3. "list" \in Kind /\ "list" \notin {"login", "rename", "rotate", "delete"} /\ None \in Id
      /\ NoName \in Name /\ token \in Nat /\ expired \in BOOLEAN
  BY DEF Kind, Id, Name, PageInv, PageTyped
<1>4. \A n : Sound([request |-> r, nr |-> n])
  <2> DEFINE kind == "list"
  <2>1. kind \in Kind /\ kind \notin {"login", "rename", "rotate", "delete"}
    BY <1>3
  <2>2. r = Request(kind, to, None, NoName, None)
    OBVIOUS
  <2> HIDE DEF kind, r
  <2>3. QED
    BY <1>1, <1>3, <2>1, <2>2, NewIsSound
<1>5. r.kind = "list" /\ r.to = to /\ r.token = SessionToken /\ r.answer.status = "waiting"
  BY DEF Request, Waiting
<1> HIDE DEF r
<1>6. \A n : [request |-> r, nr |-> n].request = r
  OBVIOUS
<1>7. \A n : /\ Sound([request |-> r, nr |-> n])
             /\ Owner([request |-> r, nr |-> n], page, p, d, rs, login)
  BY <1>1, <1>4, <1>5, <1>6 DEF Owner
<1>8. r.to \notin {"pane", "dialog", "login"}
  BY <1>1, <1>5
<1>9. /\ Owned(sent, page, p, d, rs, login)
      /\ flight \ {f} \subseteq sent
      /\ \A g \in sent : g \in flight \ {f} \/ g.request = r
      /\ \E g \in sent : g.request = r
  BY <1>2, <1>7, <1>8, SentIsOwned
<1>10. QED
  BY <1>1, <1>5, <1>9

\* The other requests stay; if this answer would have brought the list, another will.
LEMMA OthersStay ==
  ASSUME PageInv, UNCHANGED serverVars, UNCHANGED <<page, excused>>, NEW f \in flight,
         view'.at = view.at, view'.list = view.list,
         \A h \in flight \ {f} : \E g \in flight' : Twin(g, h),
         Refreshes(f) => \E g \in flight' : Refreshes(g),
         \/ token' = token /\ ~Doomed(f)
         \/ ReadToken /\ SendsOne
  PROVE  ListIsComing' /\ EndIsComing'
<1>1. (\E h \in flight : Refreshes(h)) => \E g \in flight' : Refreshes(g)
  BY TwinsAreAlike
<1>2. ~Doomed(f) => ((\E h \in flight : Doomed(h)) => \E g \in flight' : Doomed(g))
  BY TwinsAreAlike
<1>3. QED
  BY <1>1, <1>2, ListKept, EndKept

\* An answer after which nothing is sent and the list stays as it is.
LEMMA EndingKeeps ==
  ASSUME PageInv, UNCHANGED serverVars, UNCHANGED <<token, expired, page, login, view, excused>>,
         NEW f \in flight, flight' = flight \ {f}, ~Refreshes(f), ~Doomed(f),
         PageTyped', Owned(flight \ {f}, page, pane', dialog', runs', login),
         Mounting(page, view, pane', dialog', runs'), PaneIsSound(view, pane', revealed')
  PROVE  PageInv'
<1>1. AnswersAreOld
  BY DEF AnswersAreOld
<1>2. \A h \in flight \ {f} : \E g \in flight' : Twin(g, h)
  BY DEF Twin
<1>3. ListIsComing' /\ EndIsComing'
  BY <1>2, OthersStay
<1>4. QED
  BY <1>1, <1>3, ClientKeeps

\* An answer after which the list is loaded again.
LEMMA ReloadKeeps ==
  ASSUME PageInv, UNCHANGED serverVars, UNCHANGED <<page, login, excused>>, ReadToken,
         NEW f \in flight, view'.at = view.at, view'.list = view.list,
         PageTyped', Owned(flight', page, pane', dialog', runs', login),
         Mounting(page, view', pane', dialog', runs'), PaneIsSound(view', pane', revealed'),
         \A g \in flight' : \/ g.request.answer.status = "waiting"
                            \/ \E h \in flight : Twin(g, h),
         \A h \in flight \ {f} : \E g \in flight' : Twin(g, h),
         \E g \in flight' : /\ g.request.kind = "list" /\ g.request.token = SessionToken
                            /\ g.request.answer.status = "waiting"
                            /\ Alive(f) => g.request.to = "page"
  PROVE  PageInv'
<1>1. AnswersAreOld /\ SendsOne
  BY DEF AnswersAreOld, SendsOne, Twin
<1>2. Refreshes(f) => \E g \in flight' : Refreshes(g)
  BY DEF Refreshes, Alive
<1>3. ListIsComing' /\ EndIsComing'
  BY <1>1, <1>2, OthersStay
<1>4. QED
  BY <1>1, <1>3, ClientKeeps

LEMMA TakeUnauthorizedKeeps ==
  ASSUME AdminUiAssumption, PageInv, NEW f \in flight, TakeUnauthorized(f) \/ TakeLogout(f)
  PROVE  PageInv'
<1>1. /\ Leave(flight \ {f}) /\ token' = 0 /\ expired' = FALSE /\ revealed' = {}
      /\ UNCHANGED serverVars /\ UNCHANGED <<login, excused>>
  BY DEF TakeUnauthorized, TakeLogout
<1>2. /\ page' = "login" /\ view' = NewPage /\ pane' = NoPane /\ dialog' = NoDialog /\ runs' = NoRuns
  BY <1>1 DEF Leave
<1>3. Owned(flight', "login", NoPane, NoDialog, NoRuns, login)
      /\ \A g \in flight' : \E h \in flight \ {f} : /\ g.request.kind = h.request.kind
                                                    /\ g.request.answer = h.request.answer
  BY <1>1, Taking, LeftIsOwned
<1>4. PageTyped'
  BY <1>1, <1>2, PartsTyped DEF PageInv, PageTyped
<1>5. AnswersAreOld
  BY <1>3 DEF AnswersAreOld
<1>6. Mounting(page', view', pane', dialog', runs') /\ PaneIsSound(view', pane', revealed')
  BY <1>2, PartsTyped DEF Mounting, PaneIsSound, None
<1>7. ListIsComing' /\ EndIsComing'
  BY <1>2 DEF ListIsComing, EndIsComing
<1>8. QED
  BY <1>1, <1>2, <1>3, <1>4, <1>5, <1>6, <1>7, ClientKeeps

LEMMA TakeLoginKeeps ==
  ASSUME AdminUiAssumption, PageInv, NEW f \in flight, TakeLogin(f)
  PROVE  PageInv'
<1>1. /\ f.request.kind = "login" /\ login' = FALSE
      /\ UNCHANGED serverVars /\ UNCHANGED <<view, pane, dialog, runs, revealed, excused>>
  BY DEF TakeLogin
<1>2. page = "login" /\ \A h \in flight \ {f} : h.request.to \notin {"login", "page", "pane", "dialog"}
  <2>1. Sound(f) /\ Owner(f, page, pane, dialog, runs, login)
        /\ \A h \in flight \ {f} : h.request.to # f.request.to
    BY <1>1, Taking DEF Sound
  <2>2. f.request.to = "login" /\ page = "login"
    BY <1>1, <2>1 DEF Sound, Owner
  <2>3. pane = NoPane /\ dialog = NoDialog
    BY <2>2 DEF PageInv, Mounting
  <2>4. \A h \in flight : Owner(h, page, pane, dialog, runs, login)
    BY DEF PageInv, Owned
  <2>5. QED
    BY <2>1, <2>2, <2>3, <2>4 DEF Owner, NoPane, NoDialog, None
<1>3. Owned(flight \ {f}, page', pane', dialog', runs', login')
  BY <1>1, <1>2, Taking DEF Owned, Owner
<1>4. CASE f.request.answer.status # "ok"
  <2>1. flight' = flight \ {f} /\ UNCHANGED <<token, expired, page>>
    BY <1>4 DEF TakeLogin, storeVars
  <2>2. PageTyped'
    BY <1>1, <2>1 DEF PageInv, PageTyped
  <2>3. AnswersAreOld
    BY <2>1 DEF AnswersAreOld
  <2>4. ListIsComing' /\ EndIsComing'
    BY <1>2, <2>1 DEF ListIsComing, EndIsComing
  <2>5. Mounting(page', view', pane', dialog', runs') /\ PaneIsSound(view', pane', revealed')
    BY <1>1, <2>1 DEF PageInv
  <2>6. QED
    BY <1>1, <1>3, <2>1, <2>2, <2>3, <2>4, <2>5, ClientKeeps
<1>5. CASE f.request.answer.status = "ok"
  <2> DEFINE new == f.request.answer.token
             q(kind) == [Request(kind, "page", None, NoName, None) EXCEPT !.token = new]
             one == Sent(flight \ {f}, q("list"))
  <2>1. /\ token' = new /\ expired' = FALSE /\ page' = "domains"
        /\ flight' = Sent(one, q("server"))
    BY <1>5 DEF TakeLogin
  <2>2. new \in Nat /\ new # 0
    BY <1>1, <1>5, Taking DEF Sound, SoundAnswer, AnswerRecord
  <2>3. \A kind \in {"list", "server"} :
          /\ q(kind).kind = kind /\ q(kind).to = "page" /\ q(kind).answer.status = "waiting"
          /\ \A n : Sound([request |-> q(kind), nr |-> n])
    <3> SUFFICES ASSUME NEW kind \in {"list", "server"}
                 PROVE  /\ q(kind).kind = kind /\ q(kind).to = "page"
                        /\ q(kind).answer.status = "waiting"
                        /\ \A n : Sound([request |-> q(kind), nr |-> n])
      OBVIOUS
    <3>1. q(kind) = [kind |-> kind, to |-> "page", id |-> None, name |-> NoName, sel |-> None,
                     token |-> new, answer |-> Waiting]
      BY DEF Request
    <3> DEFINE r == q(kind)
    <3>2. r.kind = kind /\ r.to = "page" /\ r.id = None /\ r.answer = Waiting
          /\ Waiting.status = "waiting"
      BY <3>1 DEF Waiting
    <3>3. r \in RequestRecord
      BY <2>2, <3>1, WaitingTyped DEF RequestRecord, Kind, Part, Id, Name
    <3> HIDE DEF q, r
    <3>4. \A n : /\ [request |-> r, nr |-> n].request = r
                 /\ [request |-> r, nr |-> n] = [request |-> [request |-> r, nr |-> n].request,
                                                 nr |-> [request |-> r, nr |-> n].nr]
      OBVIOUS
    <3>5. \A n : Sound([request |-> r, nr |-> n])
      BY <3>2, <3>3, <3>4 DEF Sound, SoundAnswer
    <3>6. QED
      BY <3>2, <3>5 DEF r
  <2> HIDE DEF q
  <2>4. PICK m : one = (flight \ {f}) \cup {[request |-> q("list"), nr |-> m]}
    BY SentIs
  <2>5. PICK n : flight' = one \cup {[request |-> q("server"), nr |-> n]}
    BY <2>1, SentIs
  <2> HIDE DEF one
  <2>6. /\ [request |-> q("list"), nr |-> m].request = q("list")
        /\ [request |-> q("server"), nr |-> n].request = q("server")
    OBVIOUS
  <2>7. \A g \in flight' : \/ g \in flight \ {f}
                           \/ /\ Sound(g) /\ g.request.to = "page"
                              /\ g.request.answer.status = "waiting"
    BY <2>3, <2>4, <2>5, <2>6
  <2>8. Owned(flight', page', pane', dialog', runs', login')
    <3>1. \A g \in flight' : Sound(g) /\ Owner(g, page', pane', dialog', runs', login')
      BY <1>3, <2>1, <2>7 DEF Owned, Owner
    <3>2. \A part \in {"pane", "dialog", "login"} : AtMostOne(flight', part)
      BY <1>2, <2>7 DEF AtMostOne
    <3>3. QED
      BY <3>1, <3>2 DEF Owned
  <2>9. \E g \in flight' : /\ g.request.kind = "list" /\ g.request.to = "page"
                           /\ g.request.answer.status = "waiting"
    BY <2>3, <2>4, <2>5, <2>6
  <2>10. ListIsComing' /\ EndIsComing'
    BY <2>1, <2>2, <2>9 DEF ListIsComing, EndIsComing, Refreshes
  <2>11. AnswersAreOld
    BY <2>7 DEF AnswersAreOld
  <2>12. PageTyped'
    BY <1>1, <2>1, <2>2 DEF PageInv, PageTyped
  <2>13. Mounting(page', view', pane', dialog', runs') /\ PaneIsSound(view', pane', revealed')
    BY <1>1, <1>2, <2>1, PartsTyped DEF PageInv, Mounting, PaneIsSound, None
  <2>14. QED
    BY <1>1, <2>8, <2>10, <2>11, <2>12, <2>13, ClientKeeps
<1>6. QED
  BY <1>4, <1>5

\* An answer that is shown and after which nothing is sent.
LEMMA ShowAnswerKeeps ==
  ASSUME AdminUiAssumption, PageInv, UNCHANGED serverVars,
         UNCHANGED <<token, expired, page, login, runs, revealed>>, excused' \in BOOLEAN,
         NEW f \in flight, f.request.kind # "login", Alive(f), NEW v \in View,
         v.selected = view.selected, v.created = view.created, Show(v, pane, dialog, flight \ {f})
  PROVE  /\ PageTyped' /\ Owned(flight', page', pane', dialog', runs', login') /\ AnswersAreOld
         /\ Mounting(page', view', pane', dialog', runs') /\ PaneIsSound(view', pane', revealed')
         /\ view' = v
         /\ \A h \in flight \ {f} : \E g \in flight' : Twin(g, h)
<1>1. page = "domains" /\ Owned(flight \ {f}, "domains", pane, dialog, runs, login)
  BY Taking
<1>2. /\ view' = v /\ pane' \in Pane /\ dialog' \in Dialog
      /\ Owned(flight', "domains", pane', dialog', runs, login)
      /\ Mounting("domains", v, pane', dialog', runs)
      /\ PaneIsSound(v, pane', revealed)
      /\ \A g \in flight' : \E h \in flight \ {f} : Twin(g, h)
      /\ \A h \in flight \ {f} : \E g \in flight' : Twin(g, h)
  BY <1>1, OnThePage, ShowKeeps
<1>3. PageTyped'
  BY <1>2 DEF PageInv, PageTyped
<1>4. AnswersAreOld
  BY <1>2 DEF AnswersAreOld, Twin
<1>5. QED
  BY <1>1, <1>2, <1>3, <1>4

LEMMA TakeListKeeps ==
  ASSUME AdminUiAssumption, PageInv, NEW f \in flight, TakeList(f)
  PROVE  PageInv'
<1> DEFINE a == f.request.answer
           v == [view EXCEPT !.list = a.list, !.at = a.at, !.failed = FALSE, !.loading = FALSE]
<1>1. /\ f.request.kind = "list" /\ a.status = "ok" /\ Alive(f) /\ Show(v, pane, dialog, flight \ {f})
      /\ UNCHANGED serverVars /\ UNCHANGED <<token, expired, page, login, runs, revealed>>
      /\ excused' = (excused \/ a.at < view.at)
  BY DEF TakeList, Good, storeVars
<1>2. a.list \in Rows /\ a.at \in Nat /\ excused' \in BOOLEAN
  BY <1>1, Taking DEF AnswerRecord
<1>3. /\ v \in View /\ v.selected = view.selected /\ v.created = view.created
      /\ v.at = a.at /\ v.list = a.list
  BY <1>2 DEF PageInv, PageTyped, View
<1> HIDE DEF v
<1>4. /\ PageTyped' /\ Owned(flight', page', pane', dialog', runs', login') /\ AnswersAreOld
      /\ Mounting(page', view', pane', dialog', runs') /\ PaneIsSound(view', pane', revealed')
      /\ view' = v
      /\ \A h \in flight \ {f} : \E g \in flight' : Twin(g, h)
  BY <1>1, <1>2, <1>3, ShowAnswerKeeps
<1>5. List' = List /\ changes' = changes
  BY <1>1 DEF serverVars, List
<1>6. a.at <= changes /\ (a.at = changes => a.list = List) /\ view.at \in Nat /\ changes \in Nat
  BY <1>1 DEF PageInv, Timely, PageTyped, ServerTyped, View
<1>7. ListIsComing'
  <2> SUFFICES ASSUME page' = "domains", ~excused'
               PROVE  Current' \/ \E g \in flight' : Refreshes(g)'
    BY DEF ListIsComing
  <2>1. page = "domains" /\ ~excused /\ ~(a.at < view.at)
    BY <1>1
  <2>2. CASE Current \/ Refreshes(f)
    <3>1. a.at = changes
      BY <1>1, <1>2, <1>6, <2>1, <2>2 DEF Current, Refreshes
    <3>2. QED
      BY <1>3, <1>4, <1>5, <1>6, <3>1 DEF Current
  <2>3. CASE ~Current /\ ~Refreshes(f)
    <3>1. PICK h \in flight \ {f} : Refreshes(h)
      BY <2>1, <2>3 DEF PageInv, ListIsComing
    <3>2. PICK g \in flight' : Twin(g, h)
      BY <1>4, <3>1
    <3>3. Refreshes(g)'
      BY <1>5, <3>1, <3>2 DEF Twin, Refreshes
    <3>4. QED
      BY <3>3
  <2>4. QED
    BY <2>2, <2>3
<1>8. EndIsComing'
  <2>1. (\E h \in flight : Doomed(h)) => \E g \in flight' : Doomed(g)
    BY <1>1, <1>4, TwinsAreAlike DEF Doomed
  <2>2. QED
    BY <1>1, <2>1, EndKept
<1>9. QED
  BY <1>1, <1>4, <1>7, <1>8, ClientKeeps

LEMMA TakePageKeeps ==
  ASSUME AdminUiAssumption, PageInv, NEW f \in flight, TakeFailedList(f) \/ TakeServer(f)
  PROVE  PageInv'
<1>1. PICK v : /\ v \in View /\ v.selected = view.selected /\ v.created = view.created
               /\ v.at = view.at /\ v.list = view.list
               /\ Show(v, pane, dialog, flight \ {f})
  <2>1. view \in View
    BY DEF PageInv, PageTyped
  <2>2. CASE TakeFailedList(f)
    <3> DEFINE v == [view EXCEPT !.failed = TRUE, !.loading = FALSE]
    <3>1. /\ v \in View /\ v.selected = view.selected /\ v.created = view.created
          /\ v.at = view.at /\ v.list = view.list
      BY <2>1 DEF View
    <3>2. Show(v, pane, dialog, flight \ {f})
      BY <2>2 DEF TakeFailedList
    <3> HIDE DEF v
    <3>3. QED
      BY <3>1, <3>2
  <2>3. CASE TakeServer(f)
    <3> DEFINE v == [view EXCEPT !.server = TRUE]
    <3>1. /\ v \in View /\ v.selected = view.selected /\ v.created = view.created
          /\ v.at = view.at /\ v.list = view.list
      BY <2>1 DEF View
    <3>2. Show(v, pane, dialog, flight \ {f})
      BY <2>3 DEF TakeServer
    <3> HIDE DEF v
    <3>3. QED
      BY <3>1, <3>2
  <2>4. QED
    BY <2>2, <2>3
<1>2. /\ Alive(f) /\ f.request.kind \in {"list", "server"}
      /\ f.request.answer.status \in {"ok", "failed", "missing"}
      /\ f.request.kind = "list" => f.request.answer.status # "ok"
      /\ UNCHANGED serverVars /\ UNCHANGED <<token, expired, page, login, runs, revealed, excused>>
  BY DEF TakeFailedList, TakeServer, Good, Bad, storeVars
<1>3. excused' \in BOOLEAN
  BY <1>2 DEF PageInv, PageTyped
<1>4. /\ PageTyped' /\ Owned(flight', page', pane', dialog', runs', login') /\ AnswersAreOld
      /\ Mounting(page', view', pane', dialog', runs') /\ PaneIsSound(view', pane', revealed')
      /\ view' = v
      /\ \A h \in flight \ {f} : \E g \in flight' : Twin(g, h)
  BY <1>1, <1>2, <1>3, ShowAnswerKeeps
<1>5. ~Refreshes(f) /\ ~Doomed(f)
  BY <1>2 DEF Refreshes, Doomed
<1>6. ListIsComing' /\ EndIsComing'
  BY <1>1, <1>2, <1>4, <1>5, OthersStay
<1>7. QED
  BY <1>2, <1>4, <1>6, ClientKeeps

LEMMA TakeNothingKeeps ==
  ASSUME AdminUiAssumption, PageInv, NEW f \in flight, TakeNothing(f)
  PROVE  PageInv'
<1>1. /\ flight' = flight \ {f} /\ f.request.answer.status \notin {"waiting", "unauthorized"}
      /\ UNCHANGED serverVars
      /\ UNCHANGED <<token, expired, page, login, view, pane, dialog, runs, revealed, excused>>
  BY DEF TakeNothing, storeVars, uiVars
<1>2. ~Doomed(f)
  BY <1>1 DEF Doomed
<1>3. ~Refreshes(f)
  BY <1>1 DEF TakeNothing, Refreshes, Good, Bad, Alive
<1>4. Owned(flight \ {f}, page, pane', dialog', runs', login)
  BY <1>1, Taking
<1>5. PageTyped' /\ Mounting(page, view, pane', dialog', runs') /\ PaneIsSound(view, pane', revealed')
  BY <1>1 DEF PageInv, PageTyped
<1>6. QED
  BY <1>1, <1>2, <1>3, <1>4, <1>5, EndingKeeps

\* The end of a run releases its dialog, which waits for no other.
LEMMA TakeRunKeeps ==
  ASSUME AdminUiAssumption, PageInv, NEW f \in flight, TakeFailedRun(f) \/ TakeCheck(f)
  PROVE  PageInv'
<1>1. PICK kind \in DOMAIN runs :
        /\ runs' = [runs EXCEPT ![kind] = FALSE]
        /\ kind = "check" => f.request.to = "dialog"
        /\ f.request.kind = kind /\ f.request.to \in {"dialog", "page"}
        /\ \/ f.request.answer.status \in {"failed", "missing"}
           \/ kind = "check" /\ f.request.answer.status = "ok"
  <2>1. "check" \in DOMAIN runs
    BY DEF PageInv, PageTyped, Runs
  <2>2. CASE TakeFailedRun(f)
    BY <2>2 DEF TakeFailedRun, Bad
  <2>3. CASE TakeCheck(f)
    BY <2>1, <2>3 DEF TakeCheck, Good
  <2>4. QED
    BY <2>2, <2>3
<1>2. /\ flight' = flight \ {f} /\ UNCHANGED serverVars
      /\ UNCHANGED <<token, expired, page, login, view, pane, dialog, revealed, excused>>
  BY DEF TakeFailedRun, TakeCheck, storeVars
<1>3. runs \in Runs /\ kind \in {"create", "match", "check"}
  BY <1>1 DEF PageInv, PageTyped, Runs
<1>4. runs' \in Runs /\ (kind # "check" => runs'.check = runs.check)
  <2>1. CASE kind = "create"
    BY <1>1, <1>3, <2>1 DEF Runs
  <2>2. CASE kind = "match"
    BY <1>1, <1>3, <2>2 DEF Runs
  <2>3. CASE kind = "check"
    BY <1>1, <1>3, <2>3 DEF Runs
  <2>4. QED
    BY <1>3, <2>1, <2>2, <2>3
<1>5. page = "domains"
  BY <1>1, <1>3, Taking DEF Alive
<1>6. \/ kind # "check"
      \/ \A h \in flight \ {f} : h.request.to # "dialog"
  BY <1>1, Taking
<1>7. Owned(flight \ {f}, page, pane', dialog', runs', login)
  BY <1>2, <1>4, <1>6, Taking DEF Owned, Owner
<1>8. PageTyped'
  BY <1>2, <1>4 DEF PageInv, PageTyped
<1>9. Mounting(page, view, pane', dialog', runs') /\ PaneIsSound(view, pane', revealed')
  BY <1>2, <1>5 DEF PageInv, Mounting
<1>10. ~Refreshes(f) /\ ~Doomed(f)
  BY <1>1 DEF Refreshes, Doomed
<1>11. QED
  BY <1>2, <1>7, <1>8, <1>9, <1>10, EndingKeeps

LEMMA TakeFailedPaneKeeps ==
  ASSUME AdminUiAssumption, PageInv, NEW f \in flight, TakeFailedPane(f)
  PROVE  PageInv'
<1>1. /\ f.request.to = "pane" /\ f.request.answer.status \in {"failed", "missing"}
      /\ f.request.kind \in {"rename", "rotate"}
      /\ pane' = [pane EXCEPT !.busy = FALSE] /\ flight' = flight \ {f}
      /\ UNCHANGED serverVars
      /\ UNCHANGED <<token, expired, page, login, view, dialog, runs, revealed, excused>>
  BY DEF TakeFailedPane, Bad, storeVars
<1>2. pane' \in Pane /\ pane'.id = pane.id /\ pane'.record = pane.record
      /\ pane'.shown = pane.shown /\ pane'.busy = FALSE
  BY <1>1, BusyTyped
<1>3. /\ page = "domains" /\ pane.id # None
      /\ \A h \in flight \ {f} : h.request.to # "pane"
      /\ Owned(flight \ {f}, page, pane, dialog, runs, login)
  BY <1>1, Taking DEF Alive, Owner
<1>4. Owned(flight \ {f}, page, pane', dialog', runs', login)
  BY <1>1, <1>3 DEF Owned, Owner
<1>5. PageTyped'
  BY <1>1, <1>2 DEF PageInv, PageTyped
<1>6. Mounting(page, view, pane', dialog', runs') /\ PaneIsSound(view, pane', revealed')
  BY <1>1, <1>2, <1>3, OnThePage DEF Mounting, PaneIsSound
<1>7. ~Refreshes(f) /\ ~Doomed(f)
  BY <1>1 DEF Refreshes, Doomed
<1>8. QED
  BY <1>1, <1>4, <1>5, <1>6, <1>7, EndingKeeps

\* Whatever became of the pane, the list is loaded again.
LEMMA ReloadingPaneKeeps ==
  ASSUME AdminUiAssumption, PageInv, NEW f \in flight, f.request.kind \in {"rename", "rotate"},
         ReadToken, flight' = Reloading(f), UNCHANGED serverVars,
         UNCHANGED <<page, login, view, dialog, runs, excused>>,
         revealed \subseteq revealed', revealed' \subseteq revealed \cup {pane.id},
         f.request.to # "pane" => pane' = pane,
         f.request.to = "pane" =>
           /\ pane' \in Pane /\ pane'.id = pane.id /\ pane'.record.id = pane.id
           /\ pane'.busy = FALSE /\ (pane'.shown => pane.id \in revealed'),
         f.request.to # "pane" => revealed' = revealed
  PROVE  PageInv'
<1>1. Owned(flight \ {f}, page, pane', dialog', runs', login)
  BY Taking DEF Owned, Owner
<1>2. /\ Owned(flight', page, pane', dialog', runs', login)
      /\ flight \ {f} \subseteq flight'
      /\ \A g \in flight' : g \in flight \/ g.request.answer.status = "waiting"
      /\ \E g \in flight' : /\ g.request.kind = "list" /\ g.request.token = SessionToken
                            /\ g.request.answer.status = "waiting"
                            /\ Alive(f) => g.request.to = "page"
  BY <1>1, ReloadingKeeps
<1>3. CASE f.request.to = "pane"
  <2>1. page = "domains" /\ pane.id # None /\ pane.busy
    BY <1>3, Taking DEF Owner, Alive
  <2>2. pane.id \in Ids
    BY <2>1, OnThePage
  <2>3. PageTyped'
    BY <1>3, <2>2, TokenTyped DEF PageInv, PageTyped
  <2>4. Mounting(page, view', pane', dialog', runs') /\ PaneIsSound(view', pane', revealed')
    BY <1>3, <2>1, OnThePage DEF Mounting, PaneIsSound
  <2>5. QED
    BY <1>2, <2>3, <2>4, ReloadKeeps DEF Twin
<1>4. CASE f.request.to # "pane"
  <2>1. PageTyped'
    BY <1>4, TokenTyped DEF PageInv, PageTyped
  <2>2. Mounting(page, view', pane', dialog', runs') /\ PaneIsSound(view', pane', revealed')
    BY <1>4 DEF PageInv
  <2>3. QED
    BY <1>2, <2>1, <2>2, ReloadKeeps DEF Twin
<1>5. QED
  BY <1>3, <1>4

LEMMA TakeRenamedKeeps ==
  ASSUME AdminUiAssumption, PageInv, NEW f \in flight, TakeRenamed(f)
  PROVE  PageInv'
<1> DEFINE rec == [f.request.answer.record EXCEPT !.password = pane.record.password]
<1>1. /\ f.request.kind = "rename" /\ f.request.answer.status = "ok" /\ ReadToken
      /\ flight' = Reloading(f) /\ UNCHANGED serverVars
      /\ UNCHANGED <<page, login, view, dialog, runs, revealed, excused>>
      /\ pane' = IF f.request.to = "pane" THEN [pane EXCEPT !.record = rec, !.busy = FALSE] ELSE pane
  BY DEF TakeRenamed, Good
<1>2. f.request.answer.record \in Row /\ f.request.answer.record.id = f.request.id
  BY <1>1, Taking DEF Sound, SoundAnswer, AnswerRecord
<1>3. pane \in Pane /\ pane.record \in Row /\ pane.record.password \in Nat
  BY DEF PageInv, PageTyped, Pane, Row
<1>4. rec \in Row /\ rec.id = f.request.id
  BY <1>2, <1>3 DEF Row
<1> HIDE DEF rec
<1>5. f.request.to = "pane" =>
        /\ pane' \in Pane /\ pane'.id = pane.id /\ pane'.record = rec
        /\ pane'.busy = FALSE /\ pane'.shown = pane.shown
  BY <1>1, <1>3, <1>4 DEF Pane
<1>6. f.request.to = "pane" => /\ pane.id = f.request.id /\ (pane.shown => pane.id \in revealed)
  BY Taking DEF Owner, PageInv, PaneIsSound
<1>7. QED
  BY <1>1, <1>4, <1>5, <1>6, ReloadingPaneKeeps

LEMMA TakeRotatedKeeps ==
  ASSUME AdminUiAssumption, PageInv, NEW f \in flight, TakeRotated(f)
  PROVE  PageInv'
<1> DEFINE rec == f.request.answer.record
<1>1. /\ f.request.kind = "rotate" /\ f.request.answer.status = "ok" /\ ReadToken
      /\ flight' = Reloading(f) /\ UNCHANGED serverVars
      /\ UNCHANGED <<page, login, view, dialog, runs, excused>>
      /\ IF f.request.to = "pane"
         THEN /\ pane' = [pane EXCEPT !.record = rec, !.shown = TRUE, !.busy = FALSE]
              /\ revealed' = revealed \cup {pane.id}
         ELSE UNCHANGED <<pane, revealed>>
  BY DEF TakeRotated, Good
<1>2. rec \in Row /\ rec.id = f.request.id
  BY <1>1, Taking DEF Sound, SoundAnswer, AnswerRecord
<1> HIDE DEF rec
<1>3. pane \in Pane
  BY DEF PageInv, PageTyped
<1>4. f.request.to = "pane" =>
        /\ pane' \in Pane /\ pane'.id = pane.id /\ pane'.record = rec /\ pane'.busy = FALSE
  BY <1>1, <1>2, <1>3 DEF Pane
<1>5. f.request.to = "pane" => pane.id = f.request.id
  BY Taking DEF Owner
<1>6. QED
  BY <1>1, <1>2, <1>4, <1>5, ReloadingPaneKeeps

LEMMA TakeMatchKeeps ==
  ASSUME AdminUiAssumption, PageInv, NEW f \in flight, TakeMatch(f)
  PROVE  PageInv'
<1>1. /\ f.request.kind = "match" /\ f.request.answer.status = "ok" /\ UNCHANGED serverVars
      /\ runs' = IF Alive(f) THEN [runs EXCEPT !.match = FALSE] ELSE runs
      /\ UNCHANGED <<page, login, pane, dialog, revealed, excused>>
  BY DEF TakeMatch, Good
<1>2. runs \in Runs /\ view \in View
  BY DEF PageInv, PageTyped
<1>3. runs' \in Runs /\ runs'.check = runs.check /\ (~Alive(f) => runs' = runs)
  BY <1>1, <1>2 DEF Runs
<1>4. Alive(f) => page = "domains"
  BY <1>1, Taking
<1>5. Owned(flight \ {f}, page, pane', dialog', runs', login)
  BY <1>1, <1>3, Taking DEF Owned, Owner
<1>6. CASE f.request.answer.id = None
  <2>1. flight' = flight \ {f} /\ UNCHANGED <<token, expired, view>> /\ Alive(f)
    BY <1>6 DEF TakeMatch, storeVars
  <2>2. PageTyped'
    BY <1>1, <1>3, <2>1 DEF PageInv, PageTyped
  <2>3. Mounting(page, view, pane', dialog', runs') /\ PaneIsSound(view, pane', revealed')
    BY <1>1, <1>4, <2>1 DEF PageInv, Mounting
  <2>4. ~Refreshes(f) /\ ~Doomed(f)
    BY <1>1, <1>6 DEF Refreshes, Doomed
  <2>5. QED
    BY <1>1, <1>5, <2>1, <2>2, <2>3, <2>4, EndingKeeps
<1>7. CASE f.request.answer.id # None
  <2>1. /\ ReadToken /\ flight' = Reloading(f)
        /\ view' = IF Alive(f) THEN [view EXCEPT !.loading = TRUE] ELSE view
    BY <1>7 DEF TakeMatch
  <2>2. /\ view' \in View /\ view'.at = view.at /\ view'.list = view.list
        /\ view'.selected = view.selected /\ view'.created = view.created
        /\ ~Alive(f) => view' = view
    BY <1>2, <2>1 DEF View
  <2>3. PageTyped'
    BY <1>1, <1>3, <2>1, <2>2, TokenTyped DEF PageInv, PageTyped
  <2>4. Mounting(page, view', pane', dialog', runs')
    BY <1>1, <1>3, <1>4, <2>2 DEF PageInv, Mounting
  <2>5. PaneIsSound(view', pane', revealed')
    BY <1>1, <2>2 DEF PageInv, PaneIsSound
  <2>6. /\ Owned(flight', page, pane', dialog', runs', login)
        /\ flight \ {f} \subseteq flight'
        /\ \A g \in flight' : g \in flight \/ g.request.answer.status = "waiting"
        /\ \E g \in flight' : /\ g.request.kind = "list" /\ g.request.token = SessionToken
                              /\ g.request.answer.status = "waiting"
                              /\ Alive(f) => g.request.to = "page"
    BY <1>1, <1>5, <2>1, ReloadingKeeps
  <2>7. QED
    BY <1>1, <2>1, <2>2, <2>3, <2>4, <2>5, <2>6, ReloadKeeps DEF Twin
<1>8. QED
  BY <1>6, <1>7

\* A change that selects another row, or none, and has the list loaded again.
LEMMA ReselectKeeps ==
  ASSUME AdminUiAssumption, PageInv, NEW f \in flight, f.request.kind # "login", Alive(f),
         ReadToken, UNCHANGED serverVars, UNCHANGED <<page, login, excused>>,
         NEW v \in View, v.at = view.at, v.list = view.list,
         NEW d \in Dialog, d = dialog \/ (d = NoDialog /\ dialog.kind = "create"),
         runs' \in Runs, runs'.check = runs.check,
         Show(v, pane, d, Reloading(f)), revealed' \subseteq Ids,
         v.selected # None => v.selected \in revealed'
  PROVE  PageInv'
<1> DEFINE sent == Reloading(f)
<1>1. page = "domains" /\ Owned(flight \ {f}, page, pane, dialog, runs, login)
  BY Taking
<1>2. NoDialog.kind = None
  BY PartsTyped
<1>3. Owned(flight \ {f}, page, pane, d, runs', login)
  BY <1>1, <1>2 DEF Owned, Owner
<1>4. /\ Owned(sent, page, pane, d, runs', login)
      /\ flight \ {f} \subseteq sent
      /\ \A g \in sent : g \in flight \/ g.request.answer.status = "waiting"
      /\ \E g \in sent : /\ g.request.kind = "list" /\ g.request.token = SessionToken
                         /\ g.request.answer.status = "waiting"
                         /\ Alive(f) => g.request.to = "page"
  BY <1>3, ReloadingKeeps
<1>5. Show(v, pane, d, sent)
  OBVIOUS
<1> HIDE DEF sent
<1>6. pane \in Pane /\ (pane.id = None => pane = NoPane)
      /\ (pane.id # None =>
            pane.record.id = pane.id /\ (pane.id = v.selected /\ pane.shown => pane.id \in revealed'))
  BY <1>1, OnThePage
<1>7. d.kind = "rotate" => pane.id # None /\ ~pane.busy
  BY <1>1, <1>2, OnThePage DEF None
<1>8. d.kind \in {"delete", "rotate"} => d.id \in Ids
  BY <1>1, <1>2, OnThePage DEF None
<1>9. v.selected # None /\ v.created = v.selected => v.selected \in revealed'
  OBVIOUS
<1>10. /\ view' = v /\ pane' \in Pane /\ dialog' \in Dialog
       /\ Owned(flight', "domains", pane', dialog', runs', login)
       /\ Mounting("domains", v, pane', dialog', runs')
       /\ PaneIsSound(v, pane', revealed')
       /\ \A g \in flight' : \E h \in sent : Twin(g, h)
       /\ \A h \in sent : \E g \in flight' : Twin(g, h)
  BY <1>1, <1>4, <1>5, <1>6, <1>7, <1>8, <1>9, ShowKeeps
<1>11. PageTyped'
  BY <1>10, TokenTyped DEF PageInv, PageTyped
<1>12. \A g \in flight' : \/ g.request.answer.status = "waiting"
                          \/ \E h \in flight : Twin(g, h)
  BY <1>4, <1>10 DEF Twin
<1>13. \A h \in flight \ {f} : \E g \in flight' : Twin(g, h)
  BY <1>4, <1>10
<1>14. \E g \in flight' : /\ g.request.kind = "list" /\ g.request.token = SessionToken
                          /\ g.request.answer.status = "waiting"
                          /\ g.request.to \notin {"gone", "login"}
  BY <1>4, <1>10 DEF Twin
<1>15. AnswersAreOld /\ SendsOne
  BY <1>12, <1>14 DEF AnswersAreOld, SendsOne, Twin
<1>16. \E g \in flight' : Refreshes(g)
  BY <1>14 DEF Refreshes
<1>17. ListIsComing' /\ EndIsComing'
  BY <1>10, <1>13, <1>15, <1>16, OthersStay
<1>18. QED
  BY <1>1, <1>10, <1>11, <1>15, <1>17, ClientKeeps

\* An answer to a page that is gone changes nothing of the page that is shown.
LEMMA GoneReloadKeeps ==
  ASSUME AdminUiAssumption, PageInv, NEW f \in flight, f.request.kind # "login",
         ReadToken, flight' = Reloading(f), UNCHANGED serverVars,
         UNCHANGED <<page, login, view, pane, dialog, runs, revealed, excused>>
  PROVE  PageInv'
<1>1. Owned(flight \ {f}, page, pane', dialog', runs', login)
  BY Taking
<1>2. /\ Owned(flight', page, pane', dialog', runs', login)
      /\ flight \ {f} \subseteq flight'
      /\ \A g \in flight' : g \in flight \/ g.request.answer.status = "waiting"
      /\ \E g \in flight' : /\ g.request.kind = "list" /\ g.request.token = SessionToken
                            /\ g.request.answer.status = "waiting"
                            /\ Alive(f) => g.request.to = "page"
  BY <1>1, ReloadingKeeps
<1>3. PageTyped'
  BY TokenTyped DEF PageInv, PageTyped
<1>4. Mounting(page, view', pane', dialog', runs') /\ PaneIsSound(view', pane', revealed')
  BY DEF PageInv
<1>5. QED
  BY <1>2, <1>3, <1>4, ReloadKeeps DEF Twin

LEMMA TakeDeletedKeeps ==
  ASSUME AdminUiAssumption, PageInv, NEW f \in flight, TakeDeleted(f)
  PROVE  PageInv'
<1>1. /\ f.request.kind = "delete" /\ ReadToken
      /\ UNCHANGED serverVars /\ UNCHANGED <<page, login, runs, revealed, excused>>
  BY DEF TakeDeleted, Good
<1>2. CASE Alive(f) /\ f.request.sel = f.request.id
  <2> DEFINE v == [view EXCEPT !.selected = None]
  <2>1. Show(v, pane, dialog, Reloading(f))
    BY <1>2 DEF TakeDeleted
  <2>2. v \in View /\ v.at = view.at /\ v.list = view.list /\ v.selected = None
    BY DEF PageInv, PageTyped, View, Id
  <2> HIDE DEF v
  <2>3. dialog \in Dialog /\ runs' \in Runs /\ runs'.check = runs.check /\ revealed' \subseteq Ids
    BY <1>1 DEF PageInv, PageTyped
  <2>4. QED
    BY <1>1, <1>2, <2>1, <2>2, <2>3, ReselectKeeps
<1>3. CASE ~(Alive(f) /\ f.request.sel = f.request.id)
  <2>1. flight' = Reloading(f) /\ UNCHANGED <<view, pane, dialog>>
    BY <1>3 DEF TakeDeleted
  <2>2. QED
    BY <1>1, <2>1, GoneReloadKeeps
<1>4. QED
  BY <1>2, <1>3

LEMMA TakeCreatedKeeps ==
  ASSUME AdminUiAssumption, PageInv, NEW f \in flight, TakeCreated(f)
  PROVE  PageInv'
<1>1. /\ f.request.kind = "create" /\ f.request.answer.status = "ok" /\ ReadToken
      /\ UNCHANGED serverVars /\ UNCHANGED <<page, login, excused>>
  BY DEF TakeCreated, Good
<1>2. CASE Alive(f)
  <2> DEFINE id == f.request.answer.id
             v == [view EXCEPT !.selected = id, !.created = id]
             d == IF dialog.kind = "create" THEN NoDialog ELSE dialog
  <2>1. /\ Show(v, pane, d, Reloading(f)) /\ runs' = [runs EXCEPT !.create = FALSE]
        /\ revealed' = {id}
    BY <1>2 DEF TakeCreated
  <2>2. id \in Ids
    BY <1>1, Taking DEF Sound, SoundAnswer
  <2>3. v \in View /\ v.at = view.at /\ v.list = view.list /\ v.selected = id
    BY <2>2 DEF PageInv, PageTyped, View, Id
  <2>4. d \in Dialog /\ (d = dialog \/ (d = NoDialog /\ dialog.kind = "create"))
    BY PartsTyped DEF PageInv, PageTyped
  <2>5. runs' \in Runs /\ runs'.check = runs.check
    BY <2>1 DEF PageInv, PageTyped, Runs
  <2> HIDE DEF v, d
  <2>6. QED
    BY <1>1, <1>2, <2>1, <2>2, <2>3, <2>4, <2>5, ReselectKeeps
<1>3. CASE ~Alive(f)
  <2>1. flight' = Reloading(f) /\ UNCHANGED <<view, pane, dialog, runs, revealed>>
    BY <1>3 DEF TakeCreated
  <2>2. QED
    BY <1>1, <2>1, GoneReloadKeeps
<1>4. QED
  BY <1>2, <1>3

LEMMA TakeOneKeeps ==
  ASSUME AdminUiAssumption, PageInv, TakeOne
  PROVE  PageInv'
<1>1. PICK f \in flight : Take(f)
  BY DEF TakeOne
<1>2. QED
  BY <1>1, TakeLoginKeeps, TakeUnauthorizedKeeps, TakeListKeeps, TakePageKeeps, TakeNothingKeeps,
     TakeCreatedKeeps, TakeRunKeeps, TakeMatchKeeps, TakeDeletedKeeps, TakeRenamedKeeps,
     TakeRotatedKeeps, TakeFailedPaneKeeps DEF Take

------------------------------------------------------------------------------
(* The theorems *)

LEMMA InitHolds ==
  ASSUME AdminUiAssumption, Init
  PROVE  PageInv
<1> DEFINE old == CHOOSE id \in Ids : TRUE
<1>1. PICK readable \in {Storage, FALSE} :
        registrations = [id \in Ids |->
            IF id = old THEN [state |-> "there", name |-> NoName, password |-> 1, readable |-> readable]
            ELSE [state |-> "unused", name |-> NoName, password |-> 0, readable |-> FALSE]]
  BY DEF Init
<1>2. readable \in BOOLEAN
  BY DEF AdminUiAssumption
<1>3. [state |-> "there", name |-> NoName, password |-> 1, readable |-> readable] \in Registration
      /\ [state |-> "unused", name |-> NoName, password |-> 0, readable |-> FALSE] \in Registration
  BY <1>2 DEF Registration, Name
<1> HIDE DEF old
<1>4. registrations \in [Ids -> Registration]
  BY <1>1, <1>3
<1>5. ServerTyped
  BY <1>4 DEF Init, ServerTyped
<1>6. List \in Rows
  BY <1>5, ListTyped
<1>7. /\ flight = {} /\ login = FALSE /\ pane = NoPane /\ dialog = NoDialog /\ runs = NoRuns
      /\ expired = FALSE /\ revealed = {} /\ excused = FALSE /\ changes = 0
      /\ \/ token = 0 /\ page = "login" /\ view = NewPage
         \/ /\ token = 1 /\ page = "domains"
            /\ view = [NewPage EXCEPT !.list = List, !.loading = FALSE, !.server = TRUE]
  BY DEF Init
<1>8. view \in View /\ view.selected = None /\ view.at = 0 /\ (page = "domains" => view.list = List)
  <2> DEFINE new == NewPage
             loaded == [new EXCEPT !.list = List, !.loading = FALSE, !.server = TRUE]
  <2>1. new \in View /\ new.selected = None /\ new.at = 0
    BY PartsTyped DEF NewPage
  <2> HIDE DEF new
  <2>2. loaded \in View /\ loaded.selected = None /\ loaded.at = 0 /\ loaded.list = List
    BY <1>6, <2>1 DEF View
  <2> HIDE DEF loaded
  <2>3. \/ view = new /\ page = "login"
        \/ view = loaded /\ page = "domains"
    BY <1>7 DEF new, loaded
  <2>4. QED
    BY <2>1, <2>2, <2>3
<1>9. PageTyped
  <2>1. token \in Nat /\ page \in {"login", "domains"}
    BY <1>7
  <2>2. pane \in Pane /\ dialog \in Dialog /\ runs \in Runs
    BY <1>7, PartsTyped
  <2>3. QED
    BY <1>7, <1>8, <2>1, <2>2 DEF PageTyped
<1>10. Owned(flight, page, pane, dialog, runs, login) /\ \A f \in flight : Timely(f)
  BY <1>7 DEF Owned, AtMostOne
<1>11. Mounting(page, view, pane, dialog, runs) /\ PaneIsSound(view, pane, revealed)
  BY <1>7, <1>8, PartsTyped DEF Mounting, PaneIsSound, None
<1>12. ListIsComing /\ EndIsComing
  BY <1>7, <1>8 DEF ListIsComing, EndIsComing, Current
<1>13. QED
  BY <1>5, <1>9, <1>10, <1>11, <1>12 DEF PageInv

LEMMA StepKeeps ==
  ASSUME AdminUiAssumption, PageInv, [Next]_vars
  PROVE  PageInv'
<1>1. CASE UNCHANGED vars
  <2>1. List' = List /\ changes' = changes /\ SessionToken' = SessionToken
    BY <1>1 DEF vars, clientVars, List, SessionToken
  <2>2. ListIsComing' /\ EndIsComing'
    BY <1>1, <2>1 DEF vars, clientVars, uiVars, PageInv, ListIsComing, EndIsComing, Current,
                      Refreshes, Doomed
  <2>3. ServerTyped' /\ PageTyped'
    BY <1>1 DEF vars, clientVars, uiVars, PageInv, ServerTyped, PageTyped
  <2>4. \A f \in flight' : Timely(f)'
    BY <1>1, <2>1 DEF vars, clientVars, PageInv, Timely
  <2>5. QED
    BY <1>1, <2>2, <2>3, <2>4 DEF vars, clientVars, uiVars, PageInv
<1>2. CASE Next
  BY <1>1, <1>2, UserKeeps, WorldKeeps, ServeOneKeeps, TakeOneKeeps DEF Next, Rest
<1>3. QED
  BY <1>1, <1>2

\* Whatever the user, the server and the network do, and in whichever order the
\* answers come: the pages are sound.
LEMMA PageInvHolds == Spec => []PageInv
<1>1. Init => PageInv
  BY AdminUiAssumption, InitHolds
<1>2. PageInv /\ [Next]_vars => PageInv'
  BY AdminUiAssumption, StepKeeps
<1>3. QED
  BY <1>1, <1>2, PTL DEF Spec

\* The parts of the page hold what they can hold, and a request belongs to a part that
\* is there and waits for it.
THEOREM TypeCorrect == Spec => []TypeOK
<1>1. PageInv => TypeOK
  <2> SUFFICES ASSUME PageInv
               PROVE  TypeOK
    OBVIOUS
  <2>1. /\ page \in {"login", "domains"} /\ login \in BOOLEAN /\ excused \in BOOLEAN
        /\ view.selected \in Ids \cup {None} /\ pane.id \in Ids \cup {None}
        /\ revealed \subseteq Ids
    BY DEF PageInv, PageTyped, View, Pane, Id
  <2>2. dialog.kind \in {None, "delete", "rotate"} \cup DOMAIN runs
    BY DEF PageInv, PageTyped, Dialog, Runs
  <2>3. \A f \in flight : /\ f.request.to \in Part
                          /\ Owner(f, page, pane, dialog, runs, login)
    BY DEF PageInv, Owned, Sound, RequestRecord
  <2>4. QED
    BY <2>1, <2>2, <2>3 DEF TypeOK, Part, Owner
<1>2. QED
  BY <1>1, PageInvHolds, PTL

\* The page lists what the server holds once everything is answered: every handler
\* that changes a registration loads the list again, also when its answer comes after
\* others, for another pane, or after the dialog was closed.
THEOREM ChangesAreListed == Spec => []OwnChangesAreListed
<1>1. PageInv => OwnChangesAreListed
  BY DEF PageInv, ListIsComing, Current, OwnChangesAreListed
<1>2. QED
  BY <1>1, PageInvHolds, PTL

\* The pane shows the selected row and no other's password: an answer that comes after
\* another row was picked changes nothing of the pane that is shown by then.
THEOREM PaneIsAboutSelection == Spec => []PaneIsOfSelection
<1>1. PageInv => PaneIsOfSelection
  BY DEF PageInv, PaneIsSound, PaneIsOfSelection
<1>2. QED
  BY <1>1, PageInvHolds, PTL

\* A page whose token is gone is on its way to the login page.
THEOREM LostSessionIsNoticed == Spec => []DeadSessionIsNoticed
<1>1. PageInv => DeadSessionIsNoticed
  BY DEF PageInv, EndIsComing, Doomed, DeadSessionIsNoticed
<1>2. QED
  BY <1>1, PageInvHolds, PTL
==============================================================================
