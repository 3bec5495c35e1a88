----------------------------- MODULE AdminClient -----------------------------
(***************************************************************************)
(* The requests of the management UI (ui/src/lib/api.ts) and the server    *)
(* they reach.  A request reads the stored token when it is sent, is       *)
(* served at some instant, and its answer arrives at another: answers may  *)
(* overtake each other, be lost, or say 401, which ends the session        *)
(* whatever page is shown.  A request belongs to the part of the page that *)
(* sent it: when that part is gone, its answer changes no state of it.     *)
(***************************************************************************)
EXTENDS Naturals, FiniteSets

CONSTANTS
  Ids,        \* the subdomains there may be
  Names,      \* the names a registration may be given
  Storage     \* auth.credentials_key is set: passwords can be shown again

None == "none"
NoName == "no name"

VARIABLES
  registrations,  \* what the server holds
  issued,         \* the number of passwords the server has issued
  changes,        \* the number of changes the server has made
  sessions,       \* the tokens the server accepts
  token,          \* the token in localStorage, 0 when there is none
  expired,        \* its expiry has passed
  logins,         \* the number of tokens the server has issued
  flight          \* the requests that have no answer yet, or one not taken

serverVars == <<registrations, issued, changes, sessions, logins>>
storeVars == <<token, expired>>
clientVars == <<registrations, issued, changes, sessions, token, expired, logins, flight>>

------------------------------------------------------------------------------
(* Registrations, as the server holds them and as it answers them *)

There(id) == registrations[id].state = "there"

NoView == [id |-> None, there |-> FALSE, name |-> NoName, password |-> 0, available |-> FALSE]

\* toAdminDomain of the stored record: the password is the readable copy.
Stored(id, r) ==
  IF r.state # "there" THEN NoView
  ELSE [id |-> id, there |-> TRUE, name |-> r.name, available |-> r.readable,
        password |-> IF r.readable THEN r.password ELSE 0]

List == [id \in Ids |-> Stored(id, registrations[id])]

\* The answer to a creation or a rotation carries the password either way.
Fresh(id, r) == [Stored(id, r) EXCEPT !.password = r.password, !.available = TRUE]

Waiting == [status |-> "waiting", list |-> [id \in Ids |-> NoView], record |-> NoView,
            id |-> None, token |-> 0, at |-> 0]
Answer(status) == [Waiting EXCEPT !.status = status]

------------------------------------------------------------------------------
(* Sending: the session's token goes along; an expired one is dropped first *)

SessionToken == IF expired THEN 0 ELSE token

\* "to" is the part of the page that waits: "pane", "dialog", "page" or "login".
Request(kind, to, id, name, sel) ==
  [kind |-> kind, to |-> to, id |-> id, name |-> name, sel |-> sel,
   token |-> IF kind = "login" THEN 0 ELSE SessionToken, answer |-> Waiting]

\* Two equal requests are told apart by a number.
Sent(rest, request) ==
  LET Free(nr) == \A f \in rest : f.nr # nr
      nr == CHOOSE n \in 0..Cardinality(rest) : Free(n) /\ \A m \in 0..(n - 1) : ~Free(m)
  IN rest \union {[request |-> request, nr |-> nr]}

ReadToken == token' = SessionToken /\ expired' = FALSE

------------------------------------------------------------------------------
(* The server *)

Replaced(f, request) == (flight \ {f}) \union {[f EXCEPT !.request = request]}
Answered(f, answer) == Replaced(f, [f.request EXCEPT !.answer = answer])

Change(id, record) ==
  /\ registrations' = [registrations EXCEPT ![id] = record]
  /\ changes' = changes + 1

New(name) == [state |-> "there", name |-> name, password |-> issued + 1, readable |-> Storage]

Unserved(f) == f.request.answer.status = "waiting"

ServeLogin(f) ==
  /\ f.request.kind = "login" /\ Unserved(f)
  /\ logins' = logins + 1
  /\ sessions' = sessions \union {logins + 1}
  /\ flight' = Answered(f, [Answer("ok") EXCEPT !.token = logins + 1])
  /\ UNCHANGED <<registrations, issued, changes>>

Accepted(f) == Unserved(f) /\ f.request.token \in sessions

\* adminAuth: a token that is unknown, or none.
Refuse(f) ==
  /\ f.request.kind # "login" /\ Unserved(f) /\ f.request.token \notin sessions
  /\ flight' = Answered(f, Answer("unauthorized"))
  /\ UNCHANGED serverVars

ServeLogout(f) ==
  /\ f.request.kind = "logout" /\ Accepted(f)
  /\ sessions' = sessions \ {f.request.token}
  /\ flight' = Answered(f, Answer("ok"))
  /\ UNCHANGED <<registrations, issued, changes, logins>>

ServeRead(f) ==
  /\ f.request.kind \in {"list", "server", "check"} /\ Accepted(f)
  /\ flight' = Answered(f, IF f.request.kind = "list"
                           THEN [Answer("ok") EXCEPT !.list = List, !.at = changes]
                           ELSE Answer("ok"))
  /\ UNCHANGED serverVars

ServeCreate(f) ==
  /\ f.request.kind = "create" /\ Accepted(f)
  /\ \E id \in Ids :
       /\ registrations[id].state = "unused"
       /\ Change(id, New(f.request.name))
       /\ flight' = Answered(f, [Answer("ok") EXCEPT !.id = id,
                                   !.record = Fresh(id, New(f.request.name))])
  /\ issued' = issued + 1
  /\ UNCHANGED <<sessions, logins>>

\* The bound leaves no subdomain for another one: the server answers an error.
ServeNoRoom(f) ==
  /\ f.request.kind = "create" /\ Accepted(f)
  /\ \A id \in Ids : registrations[id].state # "unused"
  /\ flight' = Answered(f, Answer("failed"))
  /\ UNCHANGED serverVars

ServeMissing(f) ==
  /\ f.request.kind \in {"rename", "rotate", "delete"} /\ Accepted(f) /\ ~There(f.request.id)
  /\ flight' = Answered(f, Answer("missing"))
  /\ UNCHANGED serverVars

ServeRename(f) ==
  /\ f.request.kind = "rename" /\ Accepted(f) /\ There(f.request.id)
  /\ LET renamed == [registrations[f.request.id] EXCEPT !.name = f.request.name]
     IN /\ Change(f.request.id, renamed)
        /\ flight' = Answered(f, [Answer("ok") EXCEPT !.id = f.request.id, !.record = Stored(f.request.id, renamed)])
  /\ UNCHANGED <<issued, sessions, logins>>

Rotated(r) == [r EXCEPT !.password = issued + 1, !.readable = Storage]

ServeRotate(f) ==
  /\ f.request.kind = "rotate" /\ Accepted(f) /\ There(f.request.id)
  /\ Change(f.request.id, Rotated(registrations[f.request.id]))
  /\ flight' = Answered(f, [Answer("ok") EXCEPT !.id = f.request.id,
                              !.record = Fresh(f.request.id, Rotated(registrations[f.request.id]))])
  /\ issued' = issued + 1
  /\ UNCHANGED <<sessions, logins>>

ServeDelete(f) ==
  /\ f.request.kind = "delete" /\ Accepted(f) /\ There(f.request.id)
  /\ Change(f.request.id, [registrations[f.request.id] EXCEPT !.state = "deleted"])
  /\ flight' = Answered(f, Answer("ok"))
  /\ UNCHANGED <<issued, sessions, logins>>

\* A match run with "apply" names a registration, or finds none to name.
ServeMatch(f) ==
  /\ f.request.kind = "match" /\ Accepted(f)
  /\ \/ /\ flight' = Answered(f, Answer("ok"))
        /\ UNCHANGED <<registrations, changes>>
     \/ \E id \in Ids :
          /\ There(id) /\ f.request.name # NoName
          /\ Change(id, [registrations[id] EXCEPT !.name = f.request.name])
          /\ flight' = Answered(f, [Answer("ok") EXCEPT !.id = id])
  /\ UNCHANGED <<issued, sessions, logins>>

Serve(f) ==
  /\ \/ ServeLogin(f) \/ Refuse(f) \/ ServeLogout(f) \/ ServeRead(f) \/ ServeCreate(f)
     \/ ServeNoRoom(f) \/ ServeMissing(f) \/ ServeRename(f) \/ ServeRotate(f) \/ ServeDelete(f) \/ ServeMatch(f)
  /\ UNCHANGED storeVars

------------------------------------------------------------------------------
(* What else happens to the server and to requests *)

\* The request never reaches the server, or its answer is lost on the way back.
Lose(f) ==
  /\ f.request.answer.status # "failed"
  /\ flight' = Answered(f, Answer("failed"))
  /\ UNCHANGED <<serverVars, storeVars>>

\* Sessions live in the server's memory.
RestartServer ==
  /\ sessions # {}
  /\ sessions' = {}
  /\ UNCHANGED <<registrations, issued, changes, logins, storeVars, flight>>

Expire ==
  /\ token # 0 /\ ~expired
  /\ expired' = TRUE
  /\ sessions' = sessions \ {token}
  /\ UNCHANGED <<registrations, issued, changes, logins, token, flight>>

\* Somebody else renames or deletes.
OtherAdmin ==
  /\ \E id \in Ids :
       /\ There(id)
       /\ \/ \E n \in Names \ {registrations[id].name} :
               Change(id, [registrations[id] EXCEPT !.name = n])
          \/ Change(id, [registrations[id] EXCEPT !.state = "deleted"])
  /\ UNCHANGED <<issued, sessions, logins, storeVars, flight>>
==============================================================================
