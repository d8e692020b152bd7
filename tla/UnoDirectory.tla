---------------------------- MODULE UnoDirectory ----------------------------
(***************************************************************************)
(* The directory of the UnoCode server: who has been invited, which boards *)
(* they may open, the invite links and the sign-in sessions.  It is        *)
(* apps/dotcom/server/src/directory/storage.ts (the SQLite statements) and *)
(* directory.ts (the service that calls them).                             *)
(*                                                                         *)
(* Every service call runs to completion on one event loop, so a call is   *)
(* one action.  SQLite commits each statement on its own: a process that   *)
(* is killed inside a call leaves a prefix of the call's statements behind *)
(* (PartialCommits), which Crash makes visible.                            *)
(*                                                                         *)
(* Names, time stamps and accepted counts are abstracted away; ids and     *)
(* tokens are random, so an id that was once handed out (minted) is never  *)
(* handed out again.                                                       *)
(***************************************************************************)
EXTENDS UnoIds, Naturals, FiniteSets

CONSTANTS
  WorkspaceId, InviteToken, SessionToken,
  Email,        \* the addresses people type into the join form
  AdminEmail,   \* UNO_ADMIN_EMAIL, the one reserved address
  MaxFailures   \* ADMIN_LOGIN_MAX_FAILURES

ASSUME DirectoryAssumption ==
  /\ AdminEmail \in Email
  /\ MaxFailures \in Nat \ {0}

VARIABLES
  db,                  \* the seven tables
  minted,              \* every id and token handed out so far
  adminLoginFailures,  \* wrong secrets since the last success or lock
  adminLocked          \* now < adminLockedUntil

loginVars == <<adminLoginFailures, adminLocked>>
dirVars   == <<db, minted, adminLoginFailures, adminLocked>>

Scope == {"workspace", "board"}
Id    == UserId \cup WorkspaceId \cup BoardId \cup InviteToken \cup SessionToken

Tables ==
  [ users        : SUBSET [id : UserId, email : Email, isAdmin : BOOLEAN],
    workspaces   : SUBSET WorkspaceId,
    boards       : SUBSET [id : BoardId, workspaceId : WorkspaceId],
    wsMembers    : SUBSET [userId : UserId, workspaceId : WorkspaceId],
    boardMembers : SUBSET [userId : UserId, boardId : BoardId],
    invites      : SUBSET [token : InviteToken, scope : Scope,
                           scopeId : WorkspaceId \cup BoardId],
    sessions     : SUBSET [token : SessionToken, userId : UserId,
                           expired : BOOLEAN] ]

EmptyTables ==
  [ users |-> {}, workspaces |-> {}, boards |-> {}, wsMembers |-> {},
    boardMembers |-> {}, invites |-> {}, sessions |-> {} ]

-----------------------------------------------------------------------------
(* Queries.                                                                *)

HasUser(d, u) == \E r \in d.users : r.id = u
IsAdmin(d, u) == \E r \in d.users : r.id = u /\ r.isAdmin
BoardIds(d)   == {b.id : b \in d.boards}

\* A row of the boards table is open to a user through either membership.
Granted(d, u, b) ==
  \/ [userId |-> u, workspaceId |-> b.workspaceId] \in d.wsMembers
  \/ [userId |-> u, boardId |-> b.id] \in d.boardMembers

\* Mutant: the query forgets the invites to a single board.
getAccessibleBoardIdsByWorkspace(d, u) ==
  {b.id : b \in {r \in d.boards :
     /\ HasUser(d, u)
     /\ IsAdmin(d, u) \/ [userId |-> u, workspaceId |-> r.workspaceId] \in d.wsMembers}}

getAccessibleBoardIds(d, u) ==
  {b.id : b \in {r \in d.boards : HasUser(d, u) /\ (IsAdmin(d, u) \/ Granted(d, u, r))}}

canAccessBoard(d, u, id) ==
  /\ HasUser(d, u)
  /\ \E b \in d.boards : b.id = id /\ (IsAdmin(d, u) \/ Granted(d, u, b))

\* The boards of the directory sent to a browser: unlike the two queries
\* above, it JOINs each board with its workspace.
getDirectoryForUser(d, u) ==
  {b.id : b \in {r \in d.boards : /\ r.workspaceId \in d.workspaces
                                  /\ IsAdmin(d, u) \/ Granted(d, u, r)}}

getBoardIdsForWorkspace(d, w) == {b.id : b \in {r \in d.boards : r.workspaceId = w}}

\* getInviteInfo: the link still leads somewhere.
InviteResolves(d, i) ==
  IF i.scope = "workspace" THEN i.scopeId \in d.workspaces
  ELSE \E b \in d.boards : b.id = i.scopeId /\ b.workspaceId \in d.workspaces

\* The session's row is there, in time, and its user still exists.
SignedIn(d, t, u) ==
  /\ [token |-> t, userId |-> u, expired |-> FALSE] \in d.sessions
  /\ HasUser(d, u)

requireAdmin(t) == \E u \in UserId : SignedIn(db, t, u) /\ IsAdmin(db, u)

-----------------------------------------------------------------------------
(* Statements: each operator is one committed SQL statement, applied to    *)
(* every board of B or to one row.                                         *)

dropBoardMembers(d, B) == [d EXCEPT !.boardMembers = {m \in @ : m.boardId \notin B}]

dropBoardInvites(d, B) ==
  [d EXCEPT !.invites = {i \in @ : ~(i.scope = "board" /\ i.scopeId \in B)}]

dropBoardRows(d, B) == [d EXCEPT !.boards = {b \in @ : b.id \notin B}]

deleteBoards(d, B) == dropBoardRows(dropBoardInvites(dropBoardMembers(d, B), B), B)

dropWsMembers(d, w) == [d EXCEPT !.wsMembers = {m \in @ : m.workspaceId # w}]

dropWsInvites(d, w) ==
  [d EXCEPT !.invites = {i \in @ : ~(i.scope = "workspace" /\ i.scopeId = w)}]

dropWsRow(d, w) == [d EXCEPT !.workspaces = @ \ {w}]

deleteWorkspace(d, w) ==
  dropWsRow(dropWsInvites(dropWsMembers(
    deleteBoards(d, getBoardIdsForWorkspace(d, w)), w), w), w)

dropUserWsMembers(d, u)    == [d EXCEPT !.wsMembers = {m \in @ : m.userId # u}]
dropUserBoardMembers(d, u) == [d EXCEPT !.boardMembers = {m \in @ : m.userId # u}]
dropUserSessions(d, u)     == [d EXCEPT !.sessions = {s \in @ : s.userId # u}]
dropUserRow(d, u)          == [d EXCEPT !.users = {r \in @ : r.id # u}]

removeUser(d, u) ==
  dropUserRow(dropUserSessions(dropUserBoardMembers(dropUserWsMembers(d, u), u), u), u)

addMembership(d, u, scope, id) ==
  IF scope = "workspace"
  THEN [d EXCEPT !.wsMembers = @ \cup {[userId |-> u, workspaceId |-> id]}]
  ELSE [d EXCEPT !.boardMembers = @ \cup {[userId |-> u, boardId |-> id]}]

removeMembership(d, u, scope, id) ==
  IF scope = "workspace"
  THEN [d EXCEPT !.wsMembers = @ \ {[userId |-> u, workspaceId |-> id]}]
  ELSE [d EXCEPT !.boardMembers = @ \ {[userId |-> u, boardId |-> id]}]

\* removeMembership's result: the boards the user could open before the
\* statement and cannot open after it.
lostBoards(d, after, u) == getAccessibleBoardIds(d, u) \ getAccessibleBoardIds(after, u)

insertWorkspace(d, w) == [d EXCEPT !.workspaces = @ \cup {w}]

insertSession(d, t, u) ==
  [d EXCEPT !.sessions = {s \in @ : s.token # t}
                         \cup {[token |-> t, userId |-> u, expired |-> FALSE]}]

deleteSession(d, t) == [d EXCEPT !.sessions = {s \in @ : s.token # t}]

\* The pairs <<id, tables>> upsertUser can produce for an address that is
\* not reserved: the row that has it, or a new row under a fresh id.
upsertUser(d, e) ==
  IF \E r \in d.users : r.email = e
  THEN {<<r.id, d>> : r \in {r \in d.users : r.email = e /\ ~r.isAdmin}}
  ELSE {<<u, [d EXCEPT !.users = @ \cup {[id |-> u, email |-> e, isAdmin |-> FALSE]}]>>
          : u \in UserId \ minted}

\* Mutant: every sign-in inserts a row.
ensureAdminUserInserting(d) ==
  {<<u, [d EXCEPT !.users = @ \cup {[id |-> u, email |-> AdminEmail, isAdmin |-> TRUE]}]>> : u \in UserId \ minted}

\* ensureAdminUser promotes the row with the admin's address, or inserts it.
ensureAdminUser(d) ==
  IF \E r \in d.users : r.email = AdminEmail
  THEN {<<r.id, [d EXCEPT !.users = (@ \ {r}) \cup {[r EXCEPT !.isAdmin = TRUE]}]>>
          : r \in {r \in d.users : r.email = AdminEmail}}
  ELSE {<<u, [d EXCEPT !.users = @ \cup {[id |-> u, email |-> AdminEmail, isAdmin |-> TRUE]}]>>
          : u \in UserId \ minted}

-----------------------------------------------------------------------------
(* Service calls.                                                          *)

startSession(d, u) ==
  \E t \in SessionToken \ minted :
    /\ db' = insertSession(d, t, u)
    /\ minted' = minted \cup {t, u}

SignInAdmin ==
  /\ ~adminLocked
  /\ \E p \in ensureAdminUser(db) : startSession(p[2], p[1])
  /\ adminLoginFailures' = 0
  /\ UNCHANGED adminLocked

DenyAdmin ==
  /\ ~adminLocked
  /\ adminLocked' = (adminLoginFailures + 1 >= MaxFailures)
  /\ adminLoginFailures' = IF adminLocked' THEN 0 ELSE adminLoginFailures + 1
  /\ UNCHANGED <<db, minted>>

LockExpires == adminLocked /\ adminLocked' = FALSE /\ UNCHANGED <<db, minted, adminLoginFailures>>

\* Mutant: a link to one board admits to its whole workspace.
AcceptInviteWide(i, e) ==
  /\ i \in db.invites /\ InviteResolves(db, i)
  /\ e # AdminEmail
  /\ \E p \in upsertUser(db, e), w \in db.workspaces :
       startSession(addMembership(p[2], p[1], "workspace", w), p[1])
  /\ UNCHANGED loginVars

AcceptInvite(i, e) ==
  /\ i \in db.invites /\ InviteResolves(db, i)
  /\ e # AdminEmail
  /\ \E p \in upsertUser(db, e) :
       startSession(addMembership(p[2], p[1], i.scope, i.scopeId), p[1])
  /\ UNCHANGED loginVars

SignOut(t) ==
  /\ db' = deleteSession(db, t)
  /\ UNCHANGED <<minted, loginVars>>

\* SESSION_TTL_MS passes without a call under this token.
SessionExpires(s) ==
  /\ s \in db.sessions /\ ~s.expired
  /\ db' = [db EXCEPT !.sessions = (@ \ {s}) \cup {[s EXCEPT !.expired = TRUE]}]
  /\ UNCHANGED <<minted, loginVars>>

\* Any call under a dead token: touchSession drops the row and answers null.
touchSession(s) ==
  /\ s \in db.sessions /\ (s.expired \/ ~HasUser(db, s.userId))
  /\ db' = deleteSession(db, s.token)
  /\ UNCHANGED <<minted, loginVars>>

CreateWorkspace(t) ==
  \E a \in UserId, w \in WorkspaceId \ minted :
    /\ SignedIn(db, t, a) /\ IsAdmin(db, a)
    /\ db' = addMembership(insertWorkspace(db, w), a, "workspace", w)
    /\ minted' = minted \cup {w}
    /\ UNCHANGED loginVars

CreateBoard(t, w) ==
  /\ requireAdmin(t)
  /\ w \in db.workspaces
  /\ \E b \in BoardId \ minted :
       /\ db' = [db EXCEPT !.boards = @ \cup {[id |-> b, workspaceId |-> w]}]
       /\ minted' = minted \cup {b}
  /\ UNCHANGED loginVars

DeleteBoard(t, b) ==
  /\ requireAdmin(t)
  /\ db' = deleteBoards(db, {b})
  /\ UNCHANGED <<minted, loginVars>>

DeleteWorkspace(t, w) ==
  /\ requireAdmin(t)
  /\ db' = deleteWorkspace(db, w)
  /\ UNCHANGED <<minted, loginVars>>

CreateInvite(t, scope, id) ==
  /\ requireAdmin(t)
  /\ id \in IF scope = "workspace" THEN db.workspaces ELSE BoardIds(db)
  /\ \E i \in InviteToken \ minted :
       /\ db' = [db EXCEPT !.invites = @ \cup {[token |-> i, scope |-> scope, scopeId |-> id]}]
       /\ minted' = minted \cup {i}
  /\ UNCHANGED loginVars

RevokeInvite(t, i) ==
  /\ requireAdmin(t)
  /\ db' = [db EXCEPT !.invites = {r \in @ : r.token # i}]
  /\ UNCHANGED <<minted, loginVars>>

\* A membership of the admin's own is never removed.
RemoveMember(t, u, scope, id) ==
  /\ requireAdmin(t)
  /\ HasUser(db, u) /\ ~IsAdmin(db, u)
  /\ db' = removeMembership(db, u, scope, id)
  /\ UNCHANGED <<minted, loginVars>>

\* Mutant: the check for the admin's own account is gone.
RemoveUserUnchecked(t, u) ==
  /\ requireAdmin(t)
  /\ HasUser(db, u)
  /\ db' = removeUser(db, u)
  /\ UNCHANGED <<minted, loginVars>>

RemoveUser(t, u) ==
  /\ requireAdmin(t)
  /\ HasUser(db, u) /\ ~IsAdmin(db, u)
  /\ db' = removeUser(db, u)
  /\ UNCHANGED <<minted, loginVars>>

-----------------------------------------------------------------------------
(* Crash: the process stops between two statements of a call and restarts. *)

DuringDeleteBoards(d, B) ==
  UNION { LET done    == deleteBoards(d, S)
              members == dropBoardMembers(done, {b})
          IN  {done, members, dropBoardInvites(members, {b})}
          : S \in SUBSET B, b \in B }

DuringDeleteWorkspace(d, w) ==
  LET B       == getBoardIdsForWorkspace(d, w)
      members == dropWsMembers(deleteBoards(d, B), w)
  IN  DuringDeleteBoards(d, B) \cup {deleteBoards(d, B), members, dropWsInvites(members, w)}

\* Mutant: the user's row goes before the sessions.
DuringRemoveUserRowFirst(d, u) ==
  LET members == dropUserBoardMembers(dropUserWsMembers(d, u), u)
  IN  {dropUserWsMembers(d, u), members, dropUserRow(members, u)}

DuringRemoveUser(d, u) ==
  LET members == dropUserBoardMembers(dropUserWsMembers(d, u), u)
  IN  {dropUserWsMembers(d, u), members, dropUserSessions(members, u)}

\* The new user's row, then the membership, and last the session.
DuringAcceptInvite(d, i, e) ==
  UNION {{p[2], addMembership(p[2], p[1], i.scope, i.scopeId)} : p \in upsertUser(d, e)}

IdsOf(d) ==
  UNION { {r.id : r \in d.users}, d.workspaces, BoardIds(d),
          {i.token : i \in d.invites}, {s.token : s \in d.sessions} }

PartialCommit ==
  \/ db' = db
  \/ \E p \in ensureAdminUser(db) : db' = p[2]
  \/ \E i \in db.invites, e \in Email \ {AdminEmail} :
       InviteResolves(db, i) /\ db' \in DuringAcceptInvite(db, i, e)
  \/ /\ \E t \in SessionToken : requireAdmin(t)
     /\ \/ \E w \in WorkspaceId \ minted : db' = insertWorkspace(db, w)
        \/ \E b \in BoardIds(db) : db' \in DuringDeleteBoards(db, {b})
        \/ \E w \in db.workspaces : db' \in DuringDeleteWorkspace(db, w)
        \/ \E u \in UserId : /\ HasUser(db, u) /\ ~IsAdmin(db, u)
                             /\ db' \in DuringRemoveUser(db, u)

Crash ==
  /\ PartialCommit
  /\ minted' = minted \cup IdsOf(db')
  /\ adminLoginFailures' = 0
  /\ adminLocked' = FALSE

-----------------------------------------------------------------------------

Init ==
  /\ db = EmptyTables
  /\ minted = {}
  /\ adminLoginFailures = 0
  /\ adminLocked = FALSE

Next ==
  \/ SignInAdmin \/ DenyAdmin \/ LockExpires
  \/ \E i \in db.invites, e \in Email : AcceptInvite(i, e)
  \/ \E s \in db.sessions : SessionExpires(s) \/ touchSession(s)
  \/ \E t \in SessionToken :
       \/ SignOut(t)
       \/ CreateWorkspace(t)
       \/ \E w \in WorkspaceId : CreateBoard(t, w) \/ DeleteWorkspace(t, w)
       \/ \E b \in BoardId : DeleteBoard(t, b)
       \/ \E scope \in Scope, id \in WorkspaceId \cup BoardId : CreateInvite(t, scope, id)
       \/ \E i \in InviteToken : RevokeInvite(t, i)
       \/ \E u \in UserId : RemoveUser(t, u)
       \/ \E u \in UserId, scope \in Scope, id \in WorkspaceId \cup BoardId :
            RemoveMember(t, u, scope, id)
  \/ Crash

Spec == Init /\ [][Next]_dirVars

-----------------------------------------------------------------------------
(* Properties.                                                             *)

\* Types, and every id in a table was minted.
TypeOK ==
  /\ db \in Tables
  /\ minted \subseteq Id
  /\ IdsOf(db) \subseteq minted
  /\ adminLoginFailures \in 0 .. (MaxFailures - 1)
  /\ adminLocked \in BOOLEAN

\* No row refers to a row that is gone, even after a crash between two
\* statements: the tables have no foreign keys and no cascades, so this rests
\* on the order in which the delete helpers and the creations run their
\* statements (storage.ts:300-311, 449-456).
Integrity(d) ==
  /\ \A b \in d.boards : b.workspaceId \in d.workspaces
  /\ \A m \in d.wsMembers : HasUser(d, m.userId) /\ m.workspaceId \in d.workspaces
  /\ \A m \in d.boardMembers : HasUser(d, m.userId) /\ m.boardId \in BoardIds(d)
  /\ \A i \in d.invites :
       i.scopeId \in IF i.scope = "workspace" THEN d.workspaces ELSE BoardIds(d)
  /\ \A s \in d.sessions : HasUser(d, s.userId)

ReferentialIntegrity == Integrity(db)

\* The three separately written access queries agree for every user: the
\* sidebar lists exactly the boards whose live session the user may join, and
\* the eviction list is computed from the same set (storage.ts:463, 479, 502).
AccessQueriesAgree ==
  \A u \in {r.id : r \in db.users} :
    /\ getAccessibleBoardIds(db, u) = getDirectoryForUser(db, u)
    /\ getAccessibleBoardIds(db, u) = {b \in BoardId : canAccessBoard(db, u, b)}

\* One row per human: following further links, in any order with removals and
\* crashes, never makes a second row for an address or a second address for an
\* id, and only the reserved address is the admin's (upsertUser, storage.ts:143).
OneRowPerPerson ==
  /\ \A r1, r2 \in db.users : r1.id = r2.id \/ r1.email = r2.email => r1 = r2
  /\ \A r \in db.users : r.isAdmin <=> r.email = AdminEmail

\* A user gains access to a board only through an invite for it or for its
\* workspace that was in force when the step began, as a member of the
\* workspace a new board is created in, or as the admin: no delete, crash or
\* sign-in widens anyone's access (acceptInvite, storage.ts:404-419).
AccessOnlyByInvite ==
  [][\A u \in UserId : \A b \in db'.boards :
       canAccessBoard(db', u, b.id) /\ ~canAccessBoard(db, u, b.id) =>
         \/ IsAdmin(db', u)
         \/ \E i \in db.invites : i.scopeId \in {b.id, b.workspaceId}
         \/ b \notin db.boards /\ [userId |-> u, workspaceId |-> b.workspaceId] \in db.wsMembers
    ]_dirVars

\* Once there is an admin there is always one, and with them the only account
\* that can create, invite and remove (directory.ts:307-310, 318-319).
AdminStays ==
  [][(\E u \in UserId : IsAdmin(db, u)) => (\E u \in UserId : IsAdmin(db', u))]_dirVars
=============================================================================
