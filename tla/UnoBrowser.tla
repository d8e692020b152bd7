----------------------------- MODULE UnoBrowser -----------------------------
(***************************************************************************)
(* One page of the browser and the directory server                        *)
(* (apps/dotcom/client/src/tla/utils/unoDirectory.ts).  The contents of a  *)
(* board live in the browser; which boards there are is the server's       *)
(* answer.  Several calls may be under way at once, and their answers come *)
(* in any order, late, or not at all; each answer that is a directory      *)
(* replaces what the page shows, and deletes the contents of the boards    *)
(* that it no longer lists.                                                *)
(*                                                                         *)
(* The person is the same one throughout and is an admin; workspaces,      *)
(* names and calls whose answer is not a directory are left out.           *)
(***************************************************************************)
EXTENDS Naturals

CONSTANTS
  Board,
  None,          \* no board, no token
  MaxRequests,   \* bound on the calls
  MaxChanges     \* bound on what others do at the server

VARIABLES
  granted,    \* the server's: the boards this person may open
  sessions,   \* the server's: the tokens it knows
  browser,    \* the page, and what the browser keeps for it
  requests,   \* the calls under way, some of them answered
  sent, changes,
  gone        \* ghost: boards that were taken away from the person, or given up

vars == <<granted, sessions, browser, requests, sent, changes, gone>>
Token == 0 .. MaxRequests

Calls == {"load", "rename", "create", "delete", "accept", "signIn", "signOut"}
Entries == {"accept", "signIn"}   \* they answer with a token of their own

-----------------------------------------------------------------------------
(* The page.                                                               *)

\* The page that is left when directory is applied: what it drops from the disk,
\* and the board it moves to.
applyDirectory(page, directory) ==
  {[page EXCEPT !.data = @ \ (page.known \ directory), !.known = directory,
                !.status = "ready", !.directory = directory, !.current = b] :
    b \in IF page.current \in directory THEN {page.current}
          ELSE IF directory = {} THEN {None} ELSE directory}

signedOut(page) == [page EXCEPT !.token = None, !.status = "signed-out"]

\* What the page makes of the answer to call r; a network failure has no status.
answered(page, r) ==
  CASE r.call = "signOut"                               -> {[signedOut(page) EXCEPT !.current = None]}
    [] r.call # "signOut" /\ r.answer = "ok"            ->
         applyDirectory(IF r.call \in Entries THEN [page EXCEPT !.token = r.id] ELSE page, r.directory)
    [] r.call = "load" /\ r.answer = "401"              -> {signedOut(page)}
    [] r.call = "load" /\ r.answer = "network"          ->
         {IF page.status = "loading" THEN [page EXCEPT !.status = "signed-out"] ELSE page}
    [] r.call \notin {"signOut", "load"} /\ r.answer # "ok" -> {page}

\* api(): a call carries the token the page has as it is sent.
Send(call, board) ==
  /\ sent < MaxRequests
  /\ sent' = sent + 1
  /\ requests' = requests \cup {[id |-> sent', call |-> call, board |-> board, token |-> browser.token,
                                 answer |-> "none", directory |-> {}]}

\* The page is mounted, or, once it shows a board, the presence socket was closed
\* with code 1008.
loadUnoDirectory ==
  /\ browser.status = "ready" \/ requests = {}
  /\ \A r \in requests : r.call \notin Entries
  /\ IF browser.token = None
     THEN browser' = [browser EXCEPT !.status = "signed-out"] /\ UNCHANGED <<requests, sent>>
     ELSE Send("load", None) /\ UNCHANGED browser
  /\ UNCHANGED <<granted, sessions, changes, gone>>

adminDirectoryAction(call, board) ==
  /\ browser.status = "ready" /\ call \in {"rename", "create", "delete"}
  /\ call = "create" => board \notin granted \cup gone
  /\ call = "delete" => board \in browser.directory
  /\ Send(call, board)
  /\ UNCHANGED <<granted, sessions, browser, changes, gone>>

\* The invite link opens a page of its own, which loads no directory.
acceptUnoInvite(board) ==
  /\ browser.status = "loading" /\ requests = {}
  /\ Send("accept", board)
  /\ UNCHANGED <<granted, sessions, browser, changes, gone>>

\* So does the administrator's way in.
signInUnoAdmin ==
  /\ browser.status = "loading" /\ requests = {}
  /\ Send("signIn", None)
  /\ UNCHANGED <<granted, sessions, browser, changes, gone>>

signOutUno ==
  /\ browser.status = "ready" /\ Send("signOut", None)
  /\ UNCHANGED <<granted, sessions, browser, changes, gone>>

resetUnoLocalData ==
  /\ browser.status = "ready" /\ Send("signOut", None)
  /\ browser' = [browser EXCEPT !.data = @ \ browser.directory, !.known = {}]
  /\ gone' = gone \cup browser.directory
  /\ UNCHANGED <<granted, sessions, changes>>

\* An answer arrives; a call may fail before or after the server has heard it.
Answer(r) ==
  /\ \/ r.answer # "none" /\ browser' \in answered(browser, r)
     \/ browser' \in answered(browser, [r EXCEPT !.answer = "network"])
  /\ requests' = requests \ {r}
  /\ UNCHANGED <<granted, sessions, sent, changes, gone>>

setCurrentBoardId(board) ==
  /\ browser.status = "ready" /\ board \in browser.directory \ {browser.current}
  /\ browser' = [browser EXCEPT !.current = board]
  /\ UNCHANGED <<granted, sessions, requests, sent, changes, gone>>

\* The open board is drawn on.
Draw ==
  /\ browser.status = "ready" /\ browser.current \in browser.directory \ browser.data
  /\ browser' = [browser EXCEPT !.data = @ \cup {browser.current}]
  /\ UNCHANGED <<granted, sessions, requests, sent, changes, gone>>

Reload ==
  /\ browser.status # "loading"
  /\ browser' = [browser EXCEPT !.status = "loading", !.directory = {}]
  /\ requests' = {}
  /\ UNCHANGED <<granted, sessions, sent, changes, gone>>

-----------------------------------------------------------------------------
(* The server, whose part UnoDirectory has in full.                        *)

\* The boards there are for the person once call r is done.
grantedAfter(r) ==
  CASE r.call \in {"create", "accept"} -> granted \cup {r.board}
    [] r.call = "delete"               -> granted \ {r.board}
    [] OTHER                           -> granted

Handle(r) ==
  /\ r.answer = "none"
  /\ LET known  == r.token \in sessions \/ r.call \in Entries
         answer == [r EXCEPT !.answer = IF known THEN "ok" ELSE "401",
                             !.directory = IF known THEN grantedAfter(r) ELSE {}]
     IN  /\ requests' = (requests \ {r}) \cup {answer}
         /\ granted' = IF known THEN grantedAfter(r) ELSE granted
  /\ gone' = gone \cup (granted \ granted')
  /\ sessions' = CASE r.call \in Entries -> sessions \cup {r.id}
                   [] r.call = "signOut"  -> sessions \ {r.token}
                   [] OTHER               -> sessions
  /\ UNCHANGED <<browser, sent, changes>>

\* Others give a board, take one away, or end the person's sessions.
ServerChanges ==
  /\ changes < MaxChanges /\ changes' = changes + 1
  /\ \/ \E b \in Board : granted' \in {granted \cup {b}, granted \ {b}} \ {granted} /\ UNCHANGED sessions
     \/ sessions' = {} /\ UNCHANGED granted
  /\ gone' = gone \cup (granted \ granted')
  /\ UNCHANGED <<browser, requests, sent>>

Init ==
  /\ granted \in SUBSET Board /\ sessions = {0}
  /\ browser = [token |-> 0, status |-> "loading", directory |-> {}, known |-> {}, current |-> None, data |-> {}]
  /\ requests = {} /\ sent = 0 /\ changes = 0 /\ gone = {}

Person ==
  \/ loadUnoDirectory \/ signInUnoAdmin \/ signOutUno \/ resetUnoLocalData \/ Draw \/ Reload
  \/ \E b \in Board : \/ acceptUnoInvite(b) \/ setCurrentBoardId(b)
                      \/ \E call \in Calls : adminDirectoryAction(call, b)
Next == Person \/ ServerChanges \/ \E r \in requests : Answer(r) \/ Handle(r)

Spec == Init /\ [][Next]_vars

-----------------------------------------------------------------------------
(* Properties.                                                             *)

\* "Deletes the local contents of boards this browser can no longer open"
\* (unoDirectory.ts:124): what is deleted was taken away, or given up, at some time.
DeletesOnlyWhatIsGone == [][browser.data \ browser'.data \subseteq gone']_vars
=============================================================================
