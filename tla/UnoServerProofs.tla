--------------------------- MODULE UnoServerProofs ---------------------------
(***************************************************************************)
(* Proofs about the Uno server.                                            *)
(*                                                                         *)
(* First the directory by itself: its types, referential integrity of the  *)
(* tables across service calls and crashes, and that access is only gained *)
(* by invitation.  The statements of storage.ts come first, one lemma each *)
(* about any tables d; the service calls and the crashes are composed of   *)
(* them.                                                                   *)
(*                                                                         *)
(* Then the whole server: everyone who is live on a board may open it,     *)
(* whatever the admin revokes and whenever the process dies.  The argument *)
(* follows the three kinds of step.  A quiet call only widens access.  A   *)
(* revocation narrows it, and ends exactly the connections that the        *)
(* narrowing touches; that its list is computed from                       *)
(* getAccessibleBoardIds while the invariant speaks of canAccessBoard is   *)
(* where the two queries must agree (SameAccess).  A crash may narrow      *)
(* access without evicting anyone, and takes the connections with it.      *)
(***************************************************************************)
EXTENDS UnoServer, FiniteSetTheorems, TLAPS

\* Well-formed tables: typed, and with no dangling reference.
Good(d) == d \in Tables /\ Integrity(d)

USE DEF Tables

-----------------------------------------------------------------------------
(* Deleting statements keep the tables well formed, in their order.        *)

LEMMA DropBoardMembersGood ==
  ASSUME NEW d, Good(d), NEW B
  PROVE  Good(dropBoardMembers(d, B))
BY DEF Good, Integrity, HasUser, BoardIds, dropBoardMembers

LEMMA DropBoardInvitesGood ==
  ASSUME NEW d, Good(d), NEW B
  PROVE  Good(dropBoardInvites(d, B))
BY DEF Good, Integrity, HasUser, BoardIds, dropBoardInvites

LEMMA DeleteBoardsGood ==
  ASSUME NEW d, Good(d), NEW B
  PROVE  Good(deleteBoards(d, B))
<1> DEFINE e == deleteBoards(d, B)
<1>1. /\ e \in Tables
      /\ e.users = d.users /\ e.sessions = d.sessions
      /\ e.workspaces = d.workspaces /\ e.wsMembers = d.wsMembers
      /\ e.boards = {b \in d.boards : b.id \notin B}
      /\ e.boardMembers = {m \in d.boardMembers : m.boardId \notin B}
      /\ e.invites = {i \in d.invites : ~(i.scope = "board" /\ i.scopeId \in B)}
  BY DEF Good, deleteBoards, dropBoardRows, dropBoardInvites, dropBoardMembers
<1>2. BoardIds(e) = BoardIds(d) \ B
  BY <1>1 DEF BoardIds
<1>3. \A i \in e.invites : i.scope # "board" => i.scope = "workspace"
  BY <1>1 DEF Good, Scope
<1>4. Integrity(e)
  <2> HIDE DEF e
  <2>1. \A u : HasUser(e, u) <=> HasUser(d, u)
    BY <1>1 DEF HasUser
  <2>2. \A b \in e.boards : b.workspaceId \in e.workspaces
    BY <1>1 DEF Good, Integrity
  <2>3. \A m \in e.wsMembers : HasUser(e, m.userId) /\ m.workspaceId \in e.workspaces
    BY <1>1, <2>1 DEF Good, Integrity
  <2>4. \A m \in e.boardMembers : HasUser(e, m.userId) /\ m.boardId \in BoardIds(e)
    BY <1>1, <1>2, <2>1 DEF Good, Integrity
  <2>5. \A i \in e.invites :
          i.scopeId \in IF i.scope = "workspace" THEN e.workspaces ELSE BoardIds(e)
    BY <1>1, <1>2, <1>3 DEF Good, Integrity
  <2>6. \A s \in e.sessions : HasUser(e, s.userId)
    BY <1>1, <2>1 DEF Good, Integrity
  <2> QED BY <2>2, <2>3, <2>4, <2>5, <2>6 DEF Integrity
<1> QED BY <1>1, <1>4 DEF Good

LEMMA DropWsMembersGood ==
  ASSUME NEW d, Good(d), NEW w
  PROVE  Good(dropWsMembers(d, w))
BY DEF Good, Integrity, HasUser, BoardIds, dropWsMembers

LEMMA DropWsInvitesGood ==
  ASSUME NEW d, Good(d), NEW w
  PROVE  Good(dropWsInvites(d, w))
BY DEF Good, Integrity, HasUser, BoardIds, dropWsInvites

\* The workspace's row goes last, when nothing refers to it any more.
LEMMA DropWsRowGood ==
  ASSUME NEW d, Good(d), NEW w,
         \A b \in d.boards : b.workspaceId # w,
         \A m \in d.wsMembers : m.workspaceId # w,
         \A i \in d.invites : i.scope = "workspace" => i.scopeId # w
  PROVE  Good(dropWsRow(d, w))
<1> DEFINE e == dropWsRow(d, w)
<1>1. /\ e \in Tables
      /\ e.users = d.users /\ e.sessions = d.sessions /\ e.boards = d.boards
      /\ e.wsMembers = d.wsMembers /\ e.boardMembers = d.boardMembers
      /\ e.invites = d.invites
      /\ e.workspaces = d.workspaces \ {w}
  BY DEF Good, dropWsRow
<1> HIDE DEF e
<1>2. BoardIds(e) = BoardIds(d) /\ \A u : HasUser(e, u) <=> HasUser(d, u)
  BY <1>1 DEF BoardIds, HasUser
<1>3. \A i \in e.invites :
        i.scopeId \in IF i.scope = "workspace" THEN e.workspaces ELSE BoardIds(e)
  BY <1>1, <1>2 DEF Good, Integrity
<1>4. Integrity(e)
  BY <1>1, <1>2, <1>3 DEF Good, Integrity
<1> QED BY <1>1, <1>4 DEF Good, e

LEMMA DeleteWorkspaceGood ==
  ASSUME NEW d, Good(d), NEW w
  PROVE  /\ Good(deleteWorkspace(d, w))
         /\ deleteWorkspace(d, w).users = d.users
<1> DEFINE B  == getBoardIdsForWorkspace(d, w)
           d1 == deleteBoards(d, B)
           d2 == dropWsMembers(d1, w)
           d3 == dropWsInvites(d2, w)
<1>1. Good(d1) /\ Good(d2) /\ Good(d3)
  BY DeleteBoardsGood, DropWsMembersGood, DropWsInvitesGood
<1>2. \A b \in d1.boards : b.workspaceId # w
  BY DEF Good, deleteBoards, dropBoardRows, dropBoardInvites, dropBoardMembers,
         getBoardIdsForWorkspace
<1>3. d3.boards = d1.boards /\ d3.users = d.users
  BY DEF Good, deleteBoards, dropBoardRows, dropBoardInvites, dropBoardMembers,
         dropWsMembers, dropWsInvites
<1>4. \A m \in d3.wsMembers : m.workspaceId # w
  BY <1>1 DEF Good, dropWsMembers, dropWsInvites
<1>5. \A i \in d3.invites : i.scope = "workspace" => i.scopeId # w
  BY <1>1 DEF Good, dropWsInvites
<1>6. Good(dropWsRow(d3, w))
  <2> HIDE DEF d3
  <2> QED BY <1>1, <1>2, <1>3, <1>4, <1>5, DropWsRowGood
<1>7. dropWsRow(d3, w).users = d.users
  <2> HIDE DEF d3
  <2> QED BY <1>1, <1>3 DEF Good, dropWsRow
<1> QED BY <1>6, <1>7 DEF deleteWorkspace

LEMMA DropUserWsMembersGood ==
  ASSUME NEW d, Good(d), NEW u
  PROVE  Good(dropUserWsMembers(d, u))
BY DEF Good, Integrity, HasUser, BoardIds, dropUserWsMembers

LEMMA DropUserBoardMembersGood ==
  ASSUME NEW d, Good(d), NEW u
  PROVE  Good(dropUserBoardMembers(d, u))
BY DEF Good, Integrity, HasUser, BoardIds, dropUserBoardMembers

LEMMA DropUserSessionsGood ==
  ASSUME NEW d, Good(d), NEW u
  PROVE  Good(dropUserSessions(d, u))
BY DEF Good, Integrity, HasUser, BoardIds, dropUserSessions

\* The user's row goes last as well.
LEMMA DropUserRowGood ==
  ASSUME NEW d, Good(d), NEW u,
         \A m \in d.wsMembers : m.userId # u,
         \A m \in d.boardMembers : m.userId # u,
         \A s \in d.sessions : s.userId # u
  PROVE  Good(dropUserRow(d, u))
<1> DEFINE e == dropUserRow(d, u)
<1>1. /\ e \in Tables
      /\ e.sessions = d.sessions /\ e.boards = d.boards /\ e.workspaces = d.workspaces
      /\ e.wsMembers = d.wsMembers /\ e.boardMembers = d.boardMembers
      /\ e.invites = d.invites
      /\ e.users = {r \in d.users : r.id # u}
  BY DEF Good, dropUserRow
<1> HIDE DEF e
<1>2. BoardIds(e) = BoardIds(d) /\ \A v : v # u => (HasUser(e, v) <=> HasUser(d, v))
  BY <1>1 DEF BoardIds, HasUser
<1>3. Integrity(e)
  BY <1>1, <1>2 DEF Good, Integrity
<1> QED BY <1>1, <1>3 DEF Good, e

LEMMA RemoveUserGood ==
  ASSUME NEW d, Good(d), NEW u
  PROVE  Good(removeUser(d, u))
<1> DEFINE d1 == dropUserWsMembers(d, u)
           d2 == dropUserBoardMembers(d1, u)
           d3 == dropUserSessions(d2, u)
<1>1. Good(d1) /\ Good(d2) /\ Good(d3)
  BY DropUserWsMembersGood, DropUserBoardMembersGood, DropUserSessionsGood
<1>2. /\ \A m \in d3.wsMembers : m.userId # u
      /\ \A m \in d3.boardMembers : m.userId # u
      /\ \A s \in d3.sessions : s.userId # u
  BY DEF Good, dropUserWsMembers, dropUserBoardMembers, dropUserSessions
<1> HIDE DEF d3
<1>3. Good(dropUserRow(d3, u))
  BY <1>1, <1>2, DropUserRowGood
<1> QED BY <1>3 DEF removeUser, d3

-----------------------------------------------------------------------------
(* Inserting statements keep them well formed when what they refer to is   *)
(* there.                                                                  *)

LEMMA AddMembershipGood ==
  ASSUME NEW d, Good(d), NEW u \in UserId, HasUser(d, u), NEW scope \in Scope, NEW id,
         id \in IF scope = "workspace" THEN d.workspaces ELSE BoardIds(d)
  PROVE  Good(addMembership(d, u, scope, id))
<1>1. CASE scope = "workspace"
  <2>1. id \in d.workspaces /\ id \in WorkspaceId
    BY <1>1 DEF Good
  <2>2. addMembership(d, u, scope, id)
          = [d EXCEPT !.wsMembers = @ \cup {[userId |-> u, workspaceId |-> id]}]
    BY <1>1 DEF addMembership
  <2> DEFINE e == [d EXCEPT !.wsMembers = @ \cup {[userId |-> u, workspaceId |-> id]}]
  <2>3. /\ e \in Tables
        /\ e.users = d.users /\ e.sessions = d.sessions /\ e.boards = d.boards
        /\ e.workspaces = d.workspaces /\ e.boardMembers = d.boardMembers
        /\ e.invites = d.invites
        /\ e.wsMembers = d.wsMembers \cup {[userId |-> u, workspaceId |-> id]}
    <3>1. d.wsMembers \cup {[userId |-> u, workspaceId |-> id]}
            \in SUBSET [userId : UserId, workspaceId : WorkspaceId]
      BY <2>1 DEF Good
    <3> QED BY <3>1 DEF Good
  <2> HIDE DEF e
  <2>4. BoardIds(e) = BoardIds(d) /\ \A v : HasUser(e, v) <=> HasUser(d, v)
    BY <2>3 DEF BoardIds, HasUser
  <2>5. Integrity(e)
    BY <2>1, <2>3, <2>4 DEF Good, Integrity
  <2> QED BY <2>2, <2>3, <2>5 DEF Good, e
<1>2. CASE scope # "workspace"
  <2>1. id \in BoardIds(d) /\ id \in BoardId
    BY <1>2 DEF Good, BoardIds
  <2>2. addMembership(d, u, scope, id)
          = [d EXCEPT !.boardMembers = @ \cup {[userId |-> u, boardId |-> id]}]
    BY <1>2 DEF addMembership
  <2> DEFINE e == [d EXCEPT !.boardMembers = @ \cup {[userId |-> u, boardId |-> id]}]
  <2>3. /\ e \in Tables
        /\ e.users = d.users /\ e.sessions = d.sessions /\ e.boards = d.boards
        /\ e.workspaces = d.workspaces /\ e.wsMembers = d.wsMembers
        /\ e.invites = d.invites
        /\ e.boardMembers = d.boardMembers \cup {[userId |-> u, boardId |-> id]}
    <3>1. d.boardMembers \cup {[userId |-> u, boardId |-> id]}
            \in SUBSET [userId : UserId, boardId : BoardId]
      BY <2>1 DEF Good
    <3> QED BY <3>1 DEF Good
  <2> HIDE DEF e
  <2>4. BoardIds(e) = BoardIds(d) /\ \A v : HasUser(e, v) <=> HasUser(d, v)
    BY <2>3 DEF BoardIds, HasUser
  <2>5. Integrity(e)
    BY <2>1, <2>3, <2>4 DEF Good, Integrity
  <2> QED BY <2>2, <2>3, <2>5 DEF Good, e
<1> QED BY <1>1, <1>2

LEMMA RemoveMembershipGood ==
  ASSUME NEW d, Good(d), NEW u, NEW scope, NEW id
  PROVE  Good(removeMembership(d, u, scope, id))
<1>1. CASE scope = "workspace"
  BY <1>1 DEF Good, Integrity, HasUser, BoardIds, removeMembership
<1>2. CASE scope # "workspace"
  BY <1>2 DEF Good, Integrity, HasUser, BoardIds, removeMembership
<1> QED BY <1>1, <1>2

LEMMA InsertWorkspaceGood ==
  ASSUME NEW d, Good(d), NEW w \in WorkspaceId
  PROVE  Good(insertWorkspace(d, w))
BY DEF Good, Integrity, HasUser, BoardIds, insertWorkspace

LEMMA InsertBoardGood ==
  ASSUME NEW d, Good(d), NEW b \in BoardId, NEW w \in d.workspaces
  PROVE  Good([d EXCEPT !.boards = @ \cup {[id |-> b, workspaceId |-> w]}])
<1> DEFINE e == [d EXCEPT !.boards = @ \cup {[id |-> b, workspaceId |-> w]}]
<1>1. d.boards \cup {[id |-> b, workspaceId |-> w]}
        \in SUBSET [id : BoardId, workspaceId : WorkspaceId]
  BY DEF Good
<1>2. /\ e \in Tables
      /\ e.users = d.users /\ e.sessions = d.sessions /\ e.workspaces = d.workspaces
      /\ e.wsMembers = d.wsMembers /\ e.boardMembers = d.boardMembers
      /\ e.invites = d.invites
      /\ e.boards = d.boards \cup {[id |-> b, workspaceId |-> w]}
  BY <1>1 DEF Good
<1> HIDE DEF e
<1>3. BoardIds(d) \subseteq BoardIds(e) /\ \A v : HasUser(e, v) <=> HasUser(d, v)
  BY <1>2 DEF BoardIds, HasUser
<1>4. \A r \in e.boards : r.workspaceId \in e.workspaces
  BY <1>2 DEF Good, Integrity
<1>5. \A i \in e.invites :
        i.scopeId \in IF i.scope = "workspace" THEN e.workspaces ELSE BoardIds(e)
  BY <1>2, <1>3 DEF Good, Integrity
<1>6. Integrity(e)
  BY <1>2, <1>3, <1>4, <1>5 DEF Good, Integrity
<1> QED BY <1>2, <1>6 DEF Good, e

LEMMA InsertInviteGood ==
  ASSUME NEW d, Good(d), NEW t \in InviteToken, NEW scope \in Scope, NEW id,
         id \in IF scope = "workspace" THEN d.workspaces ELSE BoardIds(d)
  PROVE  Good([d EXCEPT !.invites = @ \cup {[token |-> t, scope |-> scope, scopeId |-> id]}])
<1> DEFINE i == [token |-> t, scope |-> scope, scopeId |-> id]
           e == [d EXCEPT !.invites = @ \cup {i}]
<1>1. id \in WorkspaceId \cup BoardId
  BY DEF Good, BoardIds
<1>2. /\ i \in [token : InviteToken, scope : Scope, scopeId : WorkspaceId \cup BoardId]
      /\ i.scope = scope /\ i.scopeId = id
  BY <1>1
<1> HIDE DEF i
<1>3. d.invites \cup {i}
        \in SUBSET [token : InviteToken, scope : Scope, scopeId : WorkspaceId \cup BoardId]
  BY <1>2 DEF Good
<1>4. /\ e \in Tables
      /\ e.users = d.users /\ e.sessions = d.sessions /\ e.workspaces = d.workspaces
      /\ e.wsMembers = d.wsMembers /\ e.boardMembers = d.boardMembers
      /\ e.boards = d.boards
      /\ e.invites = d.invites \cup {i}
  BY <1>3 DEF Good
<1> HIDE DEF e
<1>5. BoardIds(e) = BoardIds(d) /\ \A v : HasUser(e, v) <=> HasUser(d, v)
  BY <1>4 DEF BoardIds, HasUser
<1>6. \A j \in e.invites :
        j.scopeId \in IF j.scope = "workspace" THEN e.workspaces ELSE BoardIds(e)
  BY <1>2, <1>4, <1>5 DEF Good, Integrity
<1>7. Integrity(e)
  BY <1>4, <1>5, <1>6 DEF Good, Integrity
<1> QED BY <1>4, <1>7 DEF Good, e, i

LEMMA InsertSessionGood ==
  ASSUME NEW d, Good(d), NEW t \in SessionToken, NEW u \in UserId, HasUser(d, u)
  PROVE  Good(insertSession(d, t, u))
<1> DEFINE e == insertSession(d, t, u)
<1>1. /\ e \in Tables
      /\ e.users = d.users /\ e.boards = d.boards /\ e.invites = d.invites
      /\ e.workspaces = d.workspaces /\ e.wsMembers = d.wsMembers
      /\ e.boardMembers = d.boardMembers
      /\ \A s \in e.sessions : s \in d.sessions \/ s.userId = u
  <2>1. {s \in d.sessions : s.token # t} \cup {[token |-> t, userId |-> u, expired |-> FALSE]}
          \in SUBSET [token : SessionToken, userId : UserId, expired : BOOLEAN]
    <3>1. [token |-> t, userId |-> u, expired |-> FALSE]
            \in [token : SessionToken, userId : UserId, expired : BOOLEAN]
      OBVIOUS
    <3>2. d.sessions \in SUBSET [token : SessionToken, userId : UserId, expired : BOOLEAN]
      BY DEF Good
    <3> QED BY <3>1, <3>2
  <2> QED BY <2>1 DEF Good, insertSession
<1> HIDE DEF e
<1>2. BoardIds(e) = BoardIds(d) /\ \A v : HasUser(e, v) <=> HasUser(d, v)
  BY <1>1 DEF BoardIds, HasUser
<1>3. Integrity(e)
  BY <1>1, <1>2 DEF Good, Integrity
<1> QED BY <1>1, <1>3 DEF Good, e

LEMMA DeleteSessionGood ==
  ASSUME NEW d, Good(d), NEW t
  PROVE  Good(deleteSession(d, t))
BY DEF Good, Integrity, HasUser, BoardIds, deleteSession


-----------------------------------------------------------------------------
(* The two statements that write a user's row.                             *)

UserRow == [id : UserId, email : Email, isAdmin : BOOLEAN]

insertUser(d, row) == [d EXCEPT !.users = @ \cup {row}]

promote(d, r) == [d EXCEPT !.users = (@ \ {r}) \cup {[r EXCEPT !.isAdmin = TRUE]}]

LEMMA InsertUserGood ==
  ASSUME NEW d, Good(d), NEW row \in UserRow
  PROVE  /\ Good(insertUser(d, row))
         /\ HasUser(insertUser(d, row), row.id)
         /\ insertUser(d, row).users = d.users \cup {row}
<1> DEFINE f == insertUser(d, row)
<1>1. /\ f \in Tables
      /\ f.sessions = d.sessions /\ f.boards = d.boards /\ f.invites = d.invites
      /\ f.workspaces = d.workspaces /\ f.wsMembers = d.wsMembers
      /\ f.boardMembers = d.boardMembers
      /\ f.users = d.users \cup {row}
  <2>1. d.users \cup {row} \in SUBSET [id : UserId, email : Email, isAdmin : BOOLEAN]
    BY DEF Good, UserRow
  <2> QED BY <2>1 DEF Good, insertUser
<1> HIDE DEF f
<1>2. /\ BoardIds(f) = BoardIds(d)
      /\ HasUser(f, row.id) /\ \A v : HasUser(d, v) => HasUser(f, v)
  BY <1>1 DEF BoardIds, HasUser
<1>3. Integrity(f)
  BY <1>1, <1>2 DEF Good, Integrity
<1> QED BY <1>1, <1>2, <1>3 DEF Good, f

LEMMA PromoteGood ==
  ASSUME NEW d, Good(d), NEW r \in d.users
  PROVE  /\ Good(promote(d, r))
         /\ HasUser(promote(d, r), r.id)
         /\ \A x \in promote(d, r).users :
              x \in d.users \/ (x.id = r.id /\ x.email = r.email /\ x.isAdmin)
         /\ \A x \in d.users : \E y \in promote(d, r).users :
              y.id = x.id /\ y.email = x.email /\ (x.isAdmin => y.isAdmin)
<1> DEFINE f == promote(d, r)
           s == [r EXCEPT !.isAdmin = TRUE]
<1>1. /\ s \in [id : UserId, email : Email, isAdmin : BOOLEAN]
      /\ s.id = r.id /\ s.email = r.email /\ s.isAdmin = TRUE
  BY DEF Good
<1> HIDE DEF s
<1>2. /\ f \in Tables
      /\ f.sessions = d.sessions /\ f.boards = d.boards /\ f.invites = d.invites
      /\ f.workspaces = d.workspaces /\ f.wsMembers = d.wsMembers
      /\ f.boardMembers = d.boardMembers
      /\ f.users = (d.users \ {r}) \cup {s}
  <2>1. (d.users \ {r}) \cup {s} \in SUBSET [id : UserId, email : Email, isAdmin : BOOLEAN]
    BY <1>1 DEF Good
  <2>2. promote(d, r) = [d EXCEPT !.users = (@ \ {r}) \cup {s}]
    BY DEF promote, s
  <2> QED BY <2>1, <2>2 DEF Good
<1> HIDE DEF f
<1>3. \A x \in f.users : x \in d.users \/ (x.id = r.id /\ x.email = r.email /\ x.isAdmin)
  BY <1>1, <1>2
<1>4. \A x \in d.users : \E y \in f.users :
        y.id = x.id /\ y.email = x.email /\ (x.isAdmin => y.isAdmin)
  BY <1>1, <1>2
<1>5. /\ BoardIds(f) = BoardIds(d)
      /\ HasUser(f, r.id) /\ \A v : HasUser(d, v) => HasUser(f, v)
  BY <1>1, <1>2, <1>4 DEF BoardIds, HasUser
<1>6. Integrity(f)
  BY <1>2, <1>5 DEF Good, Integrity
<1> QED BY <1>2, <1>3, <1>4, <1>5, <1>6 DEF Good, f

newUser(u, e)  == [id |-> u, email |-> e, isAdmin |-> FALSE]
newAdmin(u)    == [id |-> u, email |-> AdminEmail, isAdmin |-> TRUE]

LEMMA NewRows ==
  /\ \A u \in UserId, e \in Email :
       newUser(u, e) \in UserRow /\ newUser(u, e).id = u /\ newUser(u, e).email = e
  /\ \A u \in UserId :
       newAdmin(u) \in UserRow /\ newAdmin(u).id = u /\ newAdmin(u).email = AdminEmail
BY DirectoryAssumption DEF newUser, newAdmin, UserRow

\* upsertUser answers with a known row, or inserts one for a new address.
LEMMA UpsertUserEffect ==
  ASSUME NEW d, Good(d), NEW e, NEW p \in upsertUser(d, e)
  PROVE  \/ p[2] = d /\ HasUser(d, p[1]) /\ p[1] \in UserId
         \/ /\ p[1] \in UserId \ minted
            /\ \A r \in d.users : r.email # e
            /\ p[2] = insertUser(d, newUser(p[1], e))
<1>1. CASE \E r \in d.users : r.email = e
  <2>1. PICK r \in d.users : p = <<r.id, d>>
    BY <1>1 DEF upsertUser
  <2> QED BY <2>1 DEF HasUser, Good
<1>2. CASE ~ \E r \in d.users : r.email = e
  BY <1>2 DEF upsertUser, insertUser, newUser
<1> QED BY <1>1, <1>2

LEMMA EnsureAdminUserEffect ==
  ASSUME NEW d, Good(d), NEW p \in ensureAdminUser(d)
  PROVE  \/ \E r \in d.users : r.email = AdminEmail /\ p[1] = r.id /\ p[2] = promote(d, r)
         \/ /\ p[1] \in UserId \ minted
            /\ \A r \in d.users : r.email # AdminEmail
            /\ p[2] = insertUser(d, newAdmin(p[1]))
<1>1. CASE \E r \in d.users : r.email = AdminEmail
  <2>1. PICK r \in d.users : r.email = AdminEmail /\ p = <<r.id, promote(d, r)>>
    BY <1>1 DEF ensureAdminUser, promote
  <2>2. p[1] = r.id /\ p[2] = promote(d, r)
    BY <2>1
  <2> QED BY <2>1, <2>2
<1>2. CASE ~ \E r \in d.users : r.email = AdminEmail
  <2>1. PICK u \in UserId \ minted : p = <<u, insertUser(d, newAdmin(u))>>
    BY <1>2 DEF ensureAdminUser, insertUser, newAdmin
  <2>2. p[1] = u /\ p[2] = insertUser(d, newAdmin(u))
    BY <2>1
  <2> QED BY <1>2, <2>2
<1> QED BY <1>1, <1>2

LEMMA UserRowsGood ==
  ASSUME NEW d, Good(d), NEW p,
         p \in ensureAdminUser(d) \/ \E e \in Email : p \in upsertUser(d, e)
  PROVE  Good(p[2]) /\ HasUser(p[2], p[1]) /\ p[1] \in UserId
<1>1. CASE p \in ensureAdminUser(d)
  <2>1. ASSUME NEW r \in d.users, p[1] = r.id, p[2] = promote(d, r)
        PROVE  Good(p[2]) /\ HasUser(p[2], p[1]) /\ p[1] \in UserId
    BY <2>1, PromoteGood DEF Good
  <2>2. CASE p[1] \in UserId /\ p[2] = insertUser(d, newAdmin(p[1]))
    BY <2>2, NewRows, InsertUserGood
  <2> QED BY <1>1, <2>1, <2>2, EnsureAdminUserEffect
<1>2. CASE \E e \in Email : p \in upsertUser(d, e)
  <2>1. PICK e \in Email : p \in upsertUser(d, e)
    BY <1>2
  <2>2. CASE p[1] \in UserId /\ p[2] = insertUser(d, newUser(p[1], e))
    BY <2>2, NewRows, InsertUserGood
  <2> QED BY <2>1, <2>2, UpsertUserEffect
<1> QED BY <1>1, <1>2

-----------------------------------------------------------------------------
(* Crashes: every prefix of a call's statements is well formed.            *)

LEMMA DuringDeleteBoardsGood ==
  ASSUME NEW d, Good(d), NEW B, NEW f \in DuringDeleteBoards(d, B)
  PROVE  Good(f)
<1>1. PICK S \in SUBSET B, b \in B :
        f \in {deleteBoards(d, S),
               dropBoardMembers(deleteBoards(d, S), {b}),
               dropBoardInvites(dropBoardMembers(deleteBoards(d, S), {b}), {b})}
  <2> DEFINE F(S, b) == {deleteBoards(d, S),
               dropBoardMembers(deleteBoards(d, S), {b}),
               dropBoardInvites(dropBoardMembers(deleteBoards(d, S), {b}), {b})}
  <2>1. DuringDeleteBoards(d, B) = UNION {F(S, b) : S \in SUBSET B, b \in B}
    BY DEF DuringDeleteBoards
  <2> HIDE DEF F
  <2>2. PICK S \in SUBSET B, b \in B : f \in F(S, b)
    BY <2>1
  <2> QED BY <2>2 DEF F
<1>2. Good(deleteBoards(d, S))
  BY DeleteBoardsGood
<1>3. Good(dropBoardMembers(deleteBoards(d, S), {b}))
  BY <1>2, DropBoardMembersGood
<1>4. Good(dropBoardInvites(dropBoardMembers(deleteBoards(d, S), {b}), {b}))
  BY <1>3, DropBoardInvitesGood
<1> QED BY <1>1, <1>2, <1>3, <1>4

LEMMA DuringDeleteWorkspaceGood ==
  ASSUME NEW d, Good(d), NEW w, NEW f \in DuringDeleteWorkspace(d, w)
  PROVE  Good(f)
<1> DEFINE B == getBoardIdsForWorkspace(d, w)
           m == dropWsMembers(deleteBoards(d, B), w)
<1>1. Good(deleteBoards(d, B)) /\ Good(m) /\ Good(dropWsInvites(m, w))
  BY DeleteBoardsGood, DropWsMembersGood, DropWsInvitesGood
<1>2. f \in DuringDeleteBoards(d, B) \cup {deleteBoards(d, B), m, dropWsInvites(m, w)}
  BY DEF DuringDeleteWorkspace
<1> HIDE DEF m, B
<1>3. ASSUME f \in DuringDeleteBoards(d, B) PROVE Good(f)
  BY <1>3, DuringDeleteBoardsGood
<1> QED BY <1>1, <1>2, <1>3

LEMMA DuringRemoveUserGood ==
  ASSUME NEW d, Good(d), NEW u, NEW f \in DuringRemoveUser(d, u)
  PROVE  Good(f)
BY DropUserWsMembersGood, DropUserBoardMembersGood, DropUserSessionsGood
   DEF DuringRemoveUser

LEMMA InvitedMembershipGood ==
  ASSUME NEW d, Good(d), NEW i \in d.invites, InviteResolves(d, i),
         NEW e \in Email, NEW p \in upsertUser(d, e)
  PROVE  Good(addMembership(p[2], p[1], i.scope, i.scopeId))
         /\ HasUser(addMembership(p[2], p[1], i.scope, i.scopeId), p[1])
<1>1. Good(p[2]) /\ HasUser(p[2], p[1]) /\ p[1] \in UserId
  BY UserRowsGood
<1>2. p[2].workspaces = d.workspaces /\ BoardIds(p[2]) = BoardIds(d)
  <2>1. CASE p[2] = insertUser(d, newUser(p[1], e))
    BY <2>1 DEF insertUser, BoardIds, Good
  <2> QED BY <2>1, UpsertUserEffect
<1>3. i.scope \in Scope
  BY DEF Good
<1>4. i.scopeId \in IF i.scope = "workspace" THEN p[2].workspaces ELSE BoardIds(p[2])
  BY <1>2 DEF InviteResolves, BoardIds
<1>5. addMembership(p[2], p[1], i.scope, i.scopeId).users = p[2].users
  BY <1>1 DEF Good, addMembership
<1>6. Good(addMembership(p[2], p[1], i.scope, i.scopeId))
  BY <1>1, <1>3, <1>4, AddMembershipGood
<1> QED BY <1>1, <1>5, <1>6 DEF HasUser

LEMMA DuringAcceptInviteGood ==
  ASSUME NEW d, Good(d), NEW i \in d.invites, InviteResolves(d, i),
         NEW e \in Email, NEW f \in DuringAcceptInvite(d, i, e)
  PROVE  Good(f)
<1>1. PICK p \in upsertUser(d, e) :
        f = p[2] \/ f = addMembership(p[2], p[1], i.scope, i.scopeId)
  BY DEF DuringAcceptInvite
<1> QED BY <1>1, UserRowsGood, InvitedMembershipGood

LEMMA PartialCommitGood == Good(db) /\ PartialCommit => Good(db')
<1> SUFFICES ASSUME Good(db), PartialCommit PROVE Good(db')
  OBVIOUS
<1>1. CASE db' = db
  BY <1>1
<1>2. CASE \E p \in ensureAdminUser(db) : db' = p[2]
  BY <1>2, UserRowsGood
<1>3. CASE \E i \in db.invites, e \in Email \ {AdminEmail} :
             InviteResolves(db, i) /\ db' \in DuringAcceptInvite(db, i, e)
  BY <1>3, DuringAcceptInviteGood
<1>4. CASE \E w \in WorkspaceId \ minted : db' = insertWorkspace(db, w)
  BY <1>4, InsertWorkspaceGood
<1>5. CASE \E b \in BoardIds(db) : db' \in DuringDeleteBoards(db, {b})
  BY <1>5, DuringDeleteBoardsGood
<1>6. CASE \E w \in db.workspaces : db' \in DuringDeleteWorkspace(db, w)
  BY <1>6, DuringDeleteWorkspaceGood
<1>7. CASE \E u \in UserId : db' \in DuringRemoveUser(db, u)
  BY <1>7, DuringRemoveUserGood
<1> QED BY <1>1, <1>2, <1>3, <1>4, <1>5, <1>6, <1>7 DEF PartialCommit

-----------------------------------------------------------------------------
(* Service calls.                                                          *)

LEMMA SessionStarted ==
  ASSUME NEW d, Good(d), NEW u \in UserId, HasUser(d, u), startSession(d, u)
  PROVE  Good(db')
BY InsertSessionGood DEF startSession

LEMMA NextGood == Good(db) /\ [Next]_dirVars => Good(db')
<1> SUFFICES ASSUME Good(db), [Next]_dirVars PROVE Good(db')
  OBVIOUS
<1>1. CASE SignInAdmin
  BY <1>1, UserRowsGood, SessionStarted DEF SignInAdmin
<1>2. CASE DenyAdmin \/ LockExpires
  BY <1>2 DEF DenyAdmin, LockExpires
<1>3. ASSUME NEW i \in db.invites, NEW e \in Email, AcceptInvite(i, e) PROVE Good(db')
  <2>1. PICK p \in upsertUser(db, e) :
          startSession(addMembership(p[2], p[1], i.scope, i.scopeId), p[1])
    BY <1>3 DEF AcceptInvite
  <2>2. p[1] \in UserId /\ InviteResolves(db, i)
    BY <1>3, UserRowsGood DEF AcceptInvite
  <2> QED BY <2>1, <2>2, InvitedMembershipGood, SessionStarted
<1>4. ASSUME NEW s \in db.sessions, SessionExpires(s) PROVE Good(db')
  <2>1. /\ [s EXCEPT !.expired = TRUE]
             \in [token : SessionToken, userId : UserId, expired : BOOLEAN]
        /\ [s EXCEPT !.expired = TRUE].userId = s.userId
    BY DEF Good
  <2>2. db' = [db EXCEPT !.sessions = (@ \ {s}) \cup {[s EXCEPT !.expired = TRUE]}]
    BY <1>4 DEF SessionExpires
  <2> QED BY <2>1, <2>2 DEF Good, Integrity, HasUser, BoardIds
<1>5. ASSUME NEW s \in db.sessions, touchSession(s) PROVE Good(db')
  BY <1>5, DeleteSessionGood DEF touchSession
<1>6. ASSUME NEW t \in SessionToken, SignOut(t) PROVE Good(db')
  BY <1>6, DeleteSessionGood DEF SignOut
<1>7. ASSUME NEW t \in SessionToken, CreateWorkspace(t) PROVE Good(db')
  <2>1. PICK a \in UserId, w \in WorkspaceId :
          HasUser(db, a) /\ db' = addMembership(insertWorkspace(db, w), a, "workspace", w)
    BY <1>7 DEF CreateWorkspace, SignedIn
  <2>2. /\ Good(insertWorkspace(db, w))
        /\ HasUser(insertWorkspace(db, w), a)
        /\ w \in insertWorkspace(db, w).workspaces
    BY <2>1, InsertWorkspaceGood DEF insertWorkspace, HasUser, Good
  <2>3. "workspace" \in Scope
    BY DEF Scope
  <2> QED BY <2>1, <2>2, <2>3, AddMembershipGood
<1>8. ASSUME NEW t \in SessionToken, NEW w \in WorkspaceId, CreateBoard(t, w) PROVE Good(db')
  <2>1. PICK b \in BoardId :
          db' = [db EXCEPT !.boards = @ \cup {[id |-> b, workspaceId |-> w]}]
    BY <1>8 DEF CreateBoard
  <2>2. w \in db.workspaces
    BY <1>8 DEF CreateBoard
  <2> QED BY <2>1, <2>2, InsertBoardGood
<1>9. ASSUME NEW t \in SessionToken, NEW w \in WorkspaceId, DeleteWorkspace(t, w) PROVE Good(db')
  BY <1>9, DeleteWorkspaceGood DEF DeleteWorkspace
<1>10. ASSUME NEW t \in SessionToken, NEW b \in BoardId, DeleteBoard(t, b) PROVE Good(db')
  BY <1>10, DeleteBoardsGood DEF DeleteBoard
<1>11. ASSUME NEW t \in SessionToken, NEW scope \in Scope, NEW id \in WorkspaceId \cup BoardId,
              CreateInvite(t, scope, id)
       PROVE  Good(db')
  <2>1. PICK i \in InviteToken :
          db' = [db EXCEPT !.invites = @ \cup {[token |-> i, scope |-> scope, scopeId |-> id]}]
    BY <1>11 DEF CreateInvite
  <2>2. id \in IF scope = "workspace" THEN db.workspaces ELSE BoardIds(db)
    BY <1>11 DEF CreateInvite
  <2> QED BY <2>1, <2>2, InsertInviteGood
<1>12. ASSUME NEW t \in SessionToken, NEW i \in InviteToken, RevokeInvite(t, i) PROVE Good(db')
  BY <1>12 DEF RevokeInvite, Good, Integrity, HasUser, BoardIds
<1>13. ASSUME NEW t \in SessionToken, NEW u \in UserId, RemoveUser(t, u) PROVE Good(db')
  BY <1>13, RemoveUserGood DEF RemoveUser
<1>14. ASSUME NEW t \in SessionToken, NEW u \in UserId, NEW scope \in Scope,
              NEW id \in WorkspaceId \cup BoardId, RemoveMember(t, u, scope, id)
       PROVE  Good(db')
  BY <1>14, RemoveMembershipGood DEF RemoveMember
<1>15. CASE Crash
  BY <1>15, PartialCommitGood DEF Crash
<1>16. CASE UNCHANGED dirVars
  BY <1>16 DEF dirVars
<1> QED
  BY <1>1, <1>2, <1>3, <1>4, <1>5, <1>6, <1>7, <1>8, <1>9, <1>10, <1>11, <1>12,
     <1>13, <1>14, <1>15, <1>16 DEF Next

-----------------------------------------------------------------------------
(* What a step does to the rows of users, and to the ids in use.           *)

Shrinks(d, e) ==
  /\ e.users \subseteq d.users
  /\ e.wsMembers \subseteq d.wsMembers
  /\ e.boardMembers \subseteq d.boardMembers
  /\ e.workspaces \subseteq d.workspaces
  /\ e.boards \subseteq d.boards
  /\ e.invites \subseteq d.invites
  /\ e.sessions \subseteq d.sessions

LEMMA ShrinkIds ==
  ASSUME NEW d, NEW e, Shrinks(d, e)
  PROVE  IdsOf(e) \subseteq IdsOf(d)
BY DEF Shrinks, IdsOf, BoardIds

LEMMA DeletesShrink ==
  ASSUME NEW d, Good(d)
  PROVE  /\ \A B : Shrinks(d, deleteBoards(d, B))
         /\ \A w : Shrinks(d, deleteWorkspace(d, w))
         /\ \A u : Shrinks(d, removeUser(d, u))
         /\ \A u, scope, id : Shrinks(d, removeMembership(d, u, scope, id))
         /\ \A t : Shrinks(d, deleteSession(d, t))
         /\ \A t : Shrinks(d, [d EXCEPT !.invites = {r \in @ : r.token # t}])
<1>1. \A B : Shrinks(d, deleteBoards(d, B))
  BY DEF Good, Shrinks, deleteBoards, dropBoardRows, dropBoardInvites, dropBoardMembers
<1>2. ASSUME NEW w PROVE Shrinks(d, deleteWorkspace(d, w))
  <2> DEFINE f == deleteBoards(d, getBoardIdsForWorkspace(d, w))
  <2>1. Shrinks(d, f) /\ f \in Tables
    BY <1>1, DeleteBoardsGood DEF Good
  <2> HIDE DEF f
  <2>2. Shrinks(f, dropWsRow(dropWsInvites(dropWsMembers(f, w), w), w))
    BY <2>1 DEF Shrinks, dropWsRow, dropWsInvites, dropWsMembers
  <2>3. Shrinks(d, dropWsRow(dropWsInvites(dropWsMembers(f, w), w), w))
    BY <2>1, <2>2 DEF Shrinks
  <2> QED BY <2>3 DEF deleteWorkspace, f
<1>3. \A u : Shrinks(d, removeUser(d, u))
  BY DEF Good, Shrinks, removeUser, dropUserRow, dropUserSessions, dropUserBoardMembers,
         dropUserWsMembers
<1>4. \A u, scope, id : Shrinks(d, removeMembership(d, u, scope, id))
  BY DEF Good, Shrinks, removeMembership
<1>5. \A t : Shrinks(d, deleteSession(d, t))
  BY DEF Good, Shrinks, deleteSession
<1>6. \A t : Shrinks(d, [d EXCEPT !.invites = {r \in @ : r.token # t}])
  BY DEF Good, Shrinks
<1> QED BY <1>1, <1>2, <1>3, <1>4, <1>5, <1>6

\* What upsertUser and ensureAdminUser may do to the users table.
UsersKept(d, e)     ==
  \/ e.users = d.users
  \/ \E u : ~IsAdmin(d, u) /\ e.users = {r \in d.users : r.id # u}
UsersPromoted(d, e) == \E r \in d.users : r.email = AdminEmail /\ e.users = promote(d, r).users
UserAdded(d, e)     ==
  \E u \in UserId \ minted, a \in Email \ {AdminEmail} :
    /\ \A r \in d.users : r.email # a
    /\ e.users = d.users \cup {newUser(u, a)}
AdminAdded(d, e)    ==
  \E u \in UserId \ minted :
    /\ \A r \in d.users : r.email # AdminEmail
    /\ e.users = d.users \cup {newAdmin(u)}

UsersStep(d, e) ==
  UsersKept(d, e) \/ UsersPromoted(d, e) \/ UserAdded(d, e) \/ AdminAdded(d, e)

LEMMA UpsertUsersStep ==
  ASSUME NEW d, Good(d), NEW e \in Email \ {AdminEmail}, NEW p \in upsertUser(d, e)
  PROVE  UsersStep(d, p[2])
<1>1. CASE p[2] = d
  BY <1>1 DEF UsersStep, UsersKept
<1>2. CASE /\ p[1] \in UserId \ minted
           /\ \A r \in d.users : r.email # e
           /\ p[2] = insertUser(d, newUser(p[1], e))
  <2>1. p[2].users = d.users \cup {newUser(p[1], e)}
    BY <1>2, NewRows, InsertUserGood
  <2> QED BY <1>2, <2>1 DEF UsersStep, UserAdded
<1> QED BY <1>1, <1>2, UpsertUserEffect

LEMMA EnsureAdminUsersStep ==
  ASSUME NEW d, Good(d), NEW p \in ensureAdminUser(d)
  PROVE  UsersStep(d, p[2])
<1>1. CASE \E r \in d.users : r.email = AdminEmail /\ p[2] = promote(d, r)
  BY <1>1 DEF UsersStep, UsersPromoted
<1>2. CASE /\ p[1] \in UserId \ minted
           /\ \A r \in d.users : r.email # AdminEmail
           /\ p[2] = insertUser(d, newAdmin(p[1]))
  <2>1. p[2].users = d.users \cup {newAdmin(p[1])}
    BY <1>2, NewRows, InsertUserGood
  <2> QED BY <1>2, <2>1 DEF UsersStep, AdminAdded
<1> QED BY <1>1, <1>2, EnsureAdminUserEffect

LEMMA SameUsersStep ==
  ASSUME NEW d, NEW e, NEW f, UsersStep(d, e), f.users = e.users
  PROVE  UsersStep(d, f)
BY DEF UsersStep, UsersKept, UsersPromoted, UserAdded, AdminAdded

LEMMA InsertsKeepUsers ==
  ASSUME NEW d, Good(d)
  PROVE  /\ \A u, scope, id : addMembership(d, u, scope, id).users = d.users
         /\ \A t, u : insertSession(d, t, u).users = d.users
         /\ \A w : insertWorkspace(d, w).users = d.users
         /\ \A b : [d EXCEPT !.boards = b].users = d.users
         /\ \A i : [d EXCEPT !.invites = i].users = d.users
         /\ \A s : [d EXCEPT !.sessions = s].users = d.users
BY DEF Good, addMembership, insertSession, insertWorkspace

\* No deletion but removeUser touches the users.
LEMMA DeletesKeepUsers ==
  ASSUME NEW d, Good(d)
  PROVE  /\ \A B : deleteBoards(d, B).users = d.users
         /\ \A w : deleteWorkspace(d, w).users = d.users
         /\ \A u : removeUser(d, u).users = {r \in d.users : r.id # u}
         /\ \A u, scope, id : removeMembership(d, u, scope, id).users = d.users
         /\ \A t : deleteSession(d, t).users = d.users
<1>1. \A B : deleteBoards(d, B).users = d.users
  BY DEF Good, deleteBoards, dropBoardRows, dropBoardInvites, dropBoardMembers
<1>2. \A w : deleteWorkspace(d, w).users = d.users
  BY DeleteWorkspaceGood
<1>3. \A u : removeUser(d, u).users = {r \in d.users : r.id # u}
  BY DEF Good, removeUser, dropUserRow, dropUserSessions, dropUserBoardMembers, dropUserWsMembers
<1>4. \A u, scope, id : removeMembership(d, u, scope, id).users = d.users
  BY DEF Good, removeMembership
<1>5. \A t : deleteSession(d, t).users = d.users
  BY DEF Good, deleteSession
<1> QED BY <1>1, <1>2, <1>3, <1>4, <1>5

LEMMA PartialUsersStep == Good(db) /\ PartialCommit => UsersStep(db, db')
<1> SUFFICES ASSUME Good(db), PartialCommit PROVE UsersStep(db, db')
  OBVIOUS
<1> DEFINE Kept == db'.users = db.users
<1>0. Kept => UsersStep(db, db')
  BY DEF UsersStep, UsersKept
<1>1. CASE db' = db
  BY <1>0, <1>1
<1>2. CASE \E p \in ensureAdminUser(db) : db' = p[2]
  BY <1>2, EnsureAdminUsersStep
<1>3. ASSUME NEW i \in db.invites, NEW e \in Email \ {AdminEmail}, InviteResolves(db, i),
             db' \in DuringAcceptInvite(db, i, e)
      PROVE  UsersStep(db, db')
  <2>1. PICK p \in upsertUser(db, e) :
          db' = p[2] \/ db' = addMembership(p[2], p[1], i.scope, i.scopeId)
    BY <1>3 DEF DuringAcceptInvite
  <2>2. UsersStep(db, p[2]) /\ Good(p[2])
    BY UpsertUsersStep, UserRowsGood
  <2> QED BY <2>1, <2>2, InsertsKeepUsers, SameUsersStep
<1>4. CASE \E w \in WorkspaceId \ minted : db' = insertWorkspace(db, w)
  BY <1>0, <1>4, InsertsKeepUsers
<1>5. ASSUME NEW B, db' \in DuringDeleteBoards(db, B) PROVE Kept
  <2>1. \A d, C : Good(d) =>
          /\ dropBoardMembers(d, C).users = d.users
          /\ dropBoardInvites(d, C).users = d.users
          /\ deleteBoards(d, C).users = d.users
    BY DEF Good, deleteBoards, dropBoardRows, dropBoardInvites, dropBoardMembers
  <2>2. PICK S \in SUBSET B, b \in B :
          db' \in {deleteBoards(db, S),
                 dropBoardMembers(deleteBoards(db, S), {b}),
                 dropBoardInvites(dropBoardMembers(deleteBoards(db, S), {b}), {b})}
    <3> DEFINE F(S, b) == {deleteBoards(db, S),
                 dropBoardMembers(deleteBoards(db, S), {b}),
                 dropBoardInvites(dropBoardMembers(deleteBoards(db, S), {b}), {b})}
    <3>1. DuringDeleteBoards(db, B) = UNION {F(S, b) : S \in SUBSET B, b \in B}
      BY DEF DuringDeleteBoards
    <3> HIDE DEF F
    <3>2. PICK S \in SUBSET B, b \in B : db' \in F(S, b)
      BY <1>5, <3>1
    <3> QED BY <3>2 DEF F
  <2>3. Good(deleteBoards(db, S)) /\ Good(dropBoardMembers(deleteBoards(db, S), {b}))
    BY DeleteBoardsGood, DropBoardMembersGood
  <2> QED BY <2>1, <2>2, <2>3
<1>6. ASSUME NEW w, db' \in DuringDeleteWorkspace(db, w) PROVE Kept
  <2> DEFINE B == getBoardIdsForWorkspace(db, w)
             m == dropWsMembers(deleteBoards(db, B), w)
  <2>1. Good(deleteBoards(db, B)) /\ Good(m)
    BY DeleteBoardsGood, DropWsMembersGood
  <2>2. deleteBoards(db, B).users = db.users
    BY DeletesKeepUsers
  <2>3. m.users = deleteBoards(db, B).users /\ dropWsInvites(m, w).users = m.users
    BY <2>1 DEF Good, dropWsMembers, dropWsInvites
  <2>4. db' \in DuringDeleteBoards(db, B) \cup {deleteBoards(db, B), m, dropWsInvites(m, w)}
    BY <1>6 DEF DuringDeleteWorkspace
  <2> HIDE DEF m, B
  <2> QED BY <1>5, <2>2, <2>3, <2>4
<1>7. ASSUME NEW u, db' \in DuringRemoveUser(db, u) PROVE Kept
  BY <1>7 DEF Good, DuringRemoveUser, dropUserWsMembers, dropUserBoardMembers, dropUserSessions
<1> QED BY <1>0, <1>1, <1>2, <1>3, <1>4, <1>5, <1>6, <1>7 DEF PartialCommit

LEMMA NextUsersStep == Good(db) /\ [Next]_dirVars => UsersStep(db, db')
<1> SUFFICES ASSUME Good(db), [Next]_dirVars PROVE UsersStep(db, db')
  OBVIOUS
<1>0. db'.users = db.users => UsersStep(db, db')
  BY DEF UsersStep, UsersKept
<1>1. CASE SignInAdmin
  <2>1. PICK p \in ensureAdminUser(db) : startSession(p[2], p[1])
    BY <1>1 DEF SignInAdmin
  <2>2. UsersStep(db, p[2]) /\ Good(p[2])
    BY EnsureAdminUsersStep, UserRowsGood
  <2> QED BY <2>1, <2>2, InsertsKeepUsers, SameUsersStep DEF startSession
<1>2. CASE DenyAdmin \/ LockExpires
  BY <1>0, <1>2 DEF DenyAdmin, LockExpires
<1>3. ASSUME NEW i \in db.invites, NEW e \in Email, AcceptInvite(i, e)
      PROVE  UsersStep(db, db')
  <2>1. PICK p \in upsertUser(db, e) :
          startSession(addMembership(p[2], p[1], i.scope, i.scopeId), p[1])
    BY <1>3 DEF AcceptInvite
  <2> DEFINE f == addMembership(p[2], p[1], i.scope, i.scopeId)
  <2>2. e \in Email \ {AdminEmail} /\ InviteResolves(db, i)
    BY <1>3 DEF AcceptInvite
  <2>3. UsersStep(db, p[2]) /\ Good(p[2])
    BY <2>2, UpsertUsersStep, UserRowsGood
  <2>4. Good(f)
    BY <2>1, <2>2, InvitedMembershipGood
  <2>5. f.users = p[2].users
    BY <2>3, InsertsKeepUsers
  <2>6. PICK t \in SessionToken : db' = insertSession(f, t, p[1])
    BY <2>1 DEF startSession
  <2> HIDE DEF f
  <2>7. db'.users = f.users
    BY <2>4, <2>6, InsertsKeepUsers
  <2> QED BY <2>3, <2>5, <2>7, SameUsersStep
<1>4. ASSUME NEW s \in db.sessions, SessionExpires(s) PROVE db'.users = db.users
  BY <1>4, InsertsKeepUsers DEF SessionExpires
<1>5. ASSUME NEW s \in db.sessions, touchSession(s) PROVE db'.users = db.users
  BY <1>5, DeletesKeepUsers DEF touchSession
<1>6. ASSUME NEW t \in SessionToken, SignOut(t) PROVE db'.users = db.users
  BY <1>6, DeletesKeepUsers DEF SignOut
<1>7. ASSUME NEW t \in SessionToken, CreateWorkspace(t) PROVE db'.users = db.users
  BY <1>7, InsertsKeepUsers, InsertWorkspaceGood DEF CreateWorkspace
<1>8. ASSUME NEW t \in SessionToken, NEW w \in WorkspaceId, CreateBoard(t, w)
      PROVE  db'.users = db.users
  BY <1>8, InsertsKeepUsers DEF CreateBoard
<1>9. ASSUME NEW t \in SessionToken, NEW w \in WorkspaceId, DeleteWorkspace(t, w)
      PROVE  db'.users = db.users
  BY <1>9, DeletesKeepUsers DEF DeleteWorkspace
<1>10. ASSUME NEW t \in SessionToken, NEW b \in BoardId, DeleteBoard(t, b)
       PROVE  db'.users = db.users
  BY <1>10, DeletesKeepUsers DEF DeleteBoard
<1>11. ASSUME NEW t \in SessionToken, NEW scope \in Scope, NEW id \in WorkspaceId \cup BoardId,
              CreateInvite(t, scope, id)
       PROVE  db'.users = db.users
  BY <1>11, InsertsKeepUsers DEF CreateInvite
<1>12. ASSUME NEW t \in SessionToken, NEW i \in InviteToken, RevokeInvite(t, i)
       PROVE  db'.users = db.users
  BY <1>12, InsertsKeepUsers DEF RevokeInvite
<1>13. ASSUME NEW t \in SessionToken, NEW u \in UserId, RemoveUser(t, u)
       PROVE  UsersStep(db, db')
  BY <1>13, DeletesKeepUsers DEF RemoveUser, UsersStep, UsersKept
<1>14. ASSUME NEW t \in SessionToken, NEW u \in UserId, NEW scope \in Scope,
              NEW id \in WorkspaceId \cup BoardId, RemoveMember(t, u, scope, id)
       PROVE  db'.users = db.users
  BY <1>14, DeletesKeepUsers DEF RemoveMember
<1>15. CASE Crash
  BY <1>15, PartialUsersStep DEF Crash
<1>16. CASE UNCHANGED dirVars
  BY <1>0, <1>16 DEF dirVars
<1> QED
  BY <1>0, <1>1, <1>2, <1>3, <1>4, <1>5, <1>6, <1>7, <1>8, <1>9, <1>10, <1>11, <1>12,
     <1>13, <1>14, <1>15, <1>16 DEF Next

-----------------------------------------------------------------------------
(* Every id in the tables was minted.                                      *)

LEMMA InsertedIds ==
  ASSUME NEW d, Good(d)
  PROVE  /\ \A u, scope, id : IdsOf(addMembership(d, u, scope, id)) = IdsOf(d)
         /\ \A t, u : IdsOf(insertSession(d, t, u)) \subseteq IdsOf(d) \cup {t}
         /\ \A w : IdsOf(insertWorkspace(d, w)) \subseteq IdsOf(d) \cup {w}
         /\ \A row \in UserRow : IdsOf(insertUser(d, row)) \subseteq IdsOf(d) \cup {row.id}
<1>1. \A u, scope, id : IdsOf(addMembership(d, u, scope, id)) = IdsOf(d)
  BY DEF Good, addMembership, IdsOf, BoardIds
<1>2. ASSUME NEW t, NEW u PROVE IdsOf(insertSession(d, t, u)) \subseteq IdsOf(d) \cup {t}
  <2> DEFINE f == insertSession(d, t, u)
             s == [token |-> t, userId |-> u, expired |-> FALSE]
  <2>1. s.token = t
    OBVIOUS
  <2> HIDE DEF s
  <2>2. /\ f.users = d.users /\ f.workspaces = d.workspaces /\ f.boards = d.boards
        /\ f.invites = d.invites
        /\ f.sessions = {x \in d.sessions : x.token # t} \cup {s}
    BY DEF Good, insertSession, s
  <2> HIDE DEF f
  <2>3. {x.token : x \in f.sessions} \subseteq {x.token : x \in d.sessions} \cup {t}
    BY <2>1, <2>2
  <2> QED BY <2>2, <2>3 DEF IdsOf, BoardIds, f
<1>3. \A w : IdsOf(insertWorkspace(d, w)) \subseteq IdsOf(d) \cup {w}
  BY DEF Good, insertWorkspace, IdsOf, BoardIds
<1>4. \A row \in UserRow : IdsOf(insertUser(d, row)) \subseteq IdsOf(d) \cup {row.id}
  BY DEF Good, insertUser, IdsOf, BoardIds
<1> QED BY <1>1, <1>2, <1>3, <1>4

LEMMA UserRowsIds ==
  ASSUME NEW d, Good(d), NEW p,
         p \in ensureAdminUser(d) \/ \E e \in Email : p \in upsertUser(d, e)
  PROVE  IdsOf(p[2]) \subseteq IdsOf(d) \cup {p[1]}
<1>1. ASSUME NEW r \in d.users, p[2] = promote(d, r) PROVE IdsOf(p[2]) \subseteq IdsOf(d)
  <2>1. \A x \in p[2].users : \E y \in d.users : y.id = x.id
    BY <1>1, PromoteGood
  <2>2. /\ p[2].workspaces = d.workspaces /\ p[2].boards = d.boards
        /\ p[2].invites = d.invites /\ p[2].sessions = d.sessions
    BY <1>1 DEF promote, Good
  <2> QED BY <2>1, <2>2 DEF IdsOf, BoardIds
<1>2. ASSUME NEW row \in UserRow, row.id = p[1], p[2] = insertUser(d, row)
      PROVE  IdsOf(p[2]) \subseteq IdsOf(d) \cup {p[1]}
  BY <1>2, InsertedIds
<1>3. CASE p \in ensureAdminUser(d)
  BY <1>1, <1>2, <1>3, NewRows, EnsureAdminUserEffect
<1>4. CASE \E e \in Email : p \in upsertUser(d, e)
  <2>1. PICK e \in Email : p \in upsertUser(d, e)
    BY <1>4
  <2> QED BY <1>2, <2>1, NewRows, UpsertUserEffect
<1> QED BY <1>3, <1>4

LEMMA SessionIds ==
  ASSUME NEW d, Good(d), NEW u, startSession(d, u), IdsOf(d) \subseteq minted \cup {u}
  PROVE  IdsOf(db') \subseteq minted' /\ minted \subseteq minted'
BY InsertedIds DEF startSession

LEMMA NextIds ==
  Good(db) /\ IdsOf(db) \subseteq minted /\ [Next]_dirVars => IdsOf(db') \subseteq minted'
<1> SUFFICES ASSUME Good(db), IdsOf(db) \subseteq minted, [Next]_dirVars
             PROVE  IdsOf(db') \subseteq minted'
  OBVIOUS
<1>0. Shrinks(db, db') /\ minted' = minted => IdsOf(db') \subseteq minted'
  BY ShrinkIds
<1>1. CASE SignInAdmin
  <2>1. PICK p \in ensureAdminUser(db) : startSession(p[2], p[1])
    BY <1>1 DEF SignInAdmin
  <2> QED BY <2>1, UserRowsIds, UserRowsGood, SessionIds
<1>2. CASE DenyAdmin \/ LockExpires
  BY <1>2 DEF DenyAdmin, LockExpires
<1>3. ASSUME NEW i \in db.invites, NEW e \in Email, AcceptInvite(i, e)
      PROVE  IdsOf(db') \subseteq minted'
  <2>1. PICK p \in upsertUser(db, e) :
          startSession(addMembership(p[2], p[1], i.scope, i.scopeId), p[1])
    BY <1>3 DEF AcceptInvite
  <2> DEFINE f == addMembership(p[2], p[1], i.scope, i.scopeId)
  <2>2. InviteResolves(db, i)
    BY <1>3 DEF AcceptInvite
  <2>3. Good(f) /\ Good(p[2])
    BY <2>1, <2>2, InvitedMembershipGood, UserRowsGood
  <2>4. IdsOf(f) \subseteq IdsOf(db) \cup {p[1]}
    BY <2>3, InsertedIds, UserRowsIds
  <2> HIDE DEF f
  <2>5. startSession(f, p[1])
    BY <2>1 DEF f
  <2> QED BY <2>3, <2>4, <2>5, SessionIds
<1>4. ASSUME NEW s \in db.sessions, SessionExpires(s) PROVE IdsOf(db') \subseteq minted'
  <2> DEFINE x == [s EXCEPT !.expired = TRUE]
  <2>1. x.token = s.token
    BY DEF Good
  <2> HIDE DEF x
  <2>2. /\ db'.users = db.users /\ db'.workspaces = db.workspaces /\ db'.boards = db.boards
        /\ db'.invites = db.invites
        /\ db'.sessions = (db.sessions \ {s}) \cup {x}
    BY <1>4 DEF SessionExpires, Good, x
  <2>3. {y.token : y \in db'.sessions} \subseteq {y.token : y \in db.sessions}
    BY <2>1, <2>2
  <2>4. minted' = minted
    BY <1>4 DEF SessionExpires
  <2> QED BY <2>2, <2>3, <2>4 DEF IdsOf, BoardIds
<1>5. ASSUME NEW s \in db.sessions, touchSession(s) PROVE IdsOf(db') \subseteq minted'
  BY <1>0, <1>5, DeletesShrink DEF touchSession
<1>6. ASSUME NEW t \in SessionToken, SignOut(t) PROVE IdsOf(db') \subseteq minted'
  BY <1>0, <1>6, DeletesShrink DEF SignOut
<1>7. ASSUME NEW t \in SessionToken, CreateWorkspace(t) PROVE IdsOf(db') \subseteq minted'
  <2>1. PICK a \in UserId, w \in WorkspaceId :
          /\ db' = addMembership(insertWorkspace(db, w), a, "workspace", w)
          /\ minted' = minted \cup {w}
    BY <1>7 DEF CreateWorkspace
  <2>2. IdsOf(db') = IdsOf(insertWorkspace(db, w))
    BY <2>1, InsertWorkspaceGood, InsertedIds
  <2> QED BY <2>1, <2>2, InsertedIds
<1>8. ASSUME NEW t \in SessionToken, NEW w \in WorkspaceId, CreateBoard(t, w)
      PROVE  IdsOf(db') \subseteq minted'
  <2>1. PICK b \in BoardId :
          /\ db' = [db EXCEPT !.boards = @ \cup {[id |-> b, workspaceId |-> w]}]
          /\ minted' = minted \cup {b}
    BY <1>8 DEF CreateBoard
  <2> QED BY <2>1 DEF Good, IdsOf, BoardIds
<1>9. ASSUME NEW t \in SessionToken, NEW w \in WorkspaceId, DeleteWorkspace(t, w)
      PROVE  IdsOf(db') \subseteq minted'
  BY <1>0, <1>9, DeletesShrink DEF DeleteWorkspace
<1>10. ASSUME NEW t \in SessionToken, NEW b \in BoardId, DeleteBoard(t, b)
       PROVE  IdsOf(db') \subseteq minted'
  BY <1>0, <1>10, DeletesShrink DEF DeleteBoard
<1>11. ASSUME NEW t \in SessionToken, NEW scope \in Scope, NEW id \in WorkspaceId \cup BoardId,
              CreateInvite(t, scope, id)
       PROVE  IdsOf(db') \subseteq minted'
  <2>1. PICK i \in InviteToken :
          /\ db' = [db EXCEPT !.invites = @ \cup {[token |-> i, scope |-> scope, scopeId |-> id]}]
          /\ minted' = minted \cup {i}
    BY <1>11 DEF CreateInvite
  <2> QED BY <2>1 DEF Good, IdsOf, BoardIds
<1>12. ASSUME NEW t \in SessionToken, NEW i \in InviteToken, RevokeInvite(t, i)
       PROVE  IdsOf(db') \subseteq minted'
  BY <1>0, <1>12, DeletesShrink DEF RevokeInvite
<1>13. ASSUME NEW t \in SessionToken, NEW u \in UserId, RemoveUser(t, u)
       PROVE  IdsOf(db') \subseteq minted'
  BY <1>0, <1>13, DeletesShrink DEF RemoveUser
<1>14. ASSUME NEW t \in SessionToken, NEW u \in UserId, NEW scope \in Scope,
              NEW id \in WorkspaceId \cup BoardId, RemoveMember(t, u, scope, id)
       PROVE  IdsOf(db') \subseteq minted'
  BY <1>0, <1>14, DeletesShrink DEF RemoveMember
<1>15. CASE Crash
  BY <1>15 DEF Crash
<1>16. CASE UNCHANGED dirVars
  BY <1>16 DEF dirVars, IdsOf, BoardIds
<1> QED
  BY <1>1, <1>2, <1>3, <1>4, <1>5, <1>6, <1>7, <1>8, <1>9, <1>10, <1>11, <1>12,
     <1>13, <1>14, <1>15, <1>16 DEF Next

LEMMA InitGood == Init => Good(db) /\ IdsOf(db) = {}
BY DEF Init, EmptyTables, Good, Integrity, IdsOf, BoardIds

LEMMA GoodIds == ASSUME NEW d, Good(d) PROVE IdsOf(d) \subseteq Id
BY DEF Good, IdsOf, BoardIds, Id

LEMMA MintedTyped ==
  Good(db) /\ minted \subseteq Id /\ [Next]_dirVars
    => minted' \subseteq Id
<1> SUFFICES ASSUME Good(db), minted \subseteq Id, [Next]_dirVars
             PROVE  minted' \subseteq Id
  OBVIOUS
<1> USE DEF Id
<1>1. ASSUME NEW d, NEW u \in UserId, startSession(d, u) PROVE minted' \subseteq Id
  BY <1>1 DEF startSession
<1>2. CASE SignInAdmin
  BY <1>1, <1>2, UserRowsGood DEF SignInAdmin
<1>3. CASE \E i \in db.invites, e \in Email : AcceptInvite(i, e)
  <2>1. PICK i \in db.invites, e \in Email : AcceptInvite(i, e)
    BY <1>3
  <2>2. PICK p \in upsertUser(db, e) :
          startSession(addMembership(p[2], p[1], i.scope, i.scopeId), p[1])
    BY <2>1 DEF AcceptInvite
  <2>3. p[1] \in UserId
    BY UserRowsGood
  <2> QED BY <1>1, <2>2, <2>3
<1>4. CASE Crash
  BY <1>4, PartialCommitGood, GoodIds DEF Crash
<1>5. CASE \E t \in SessionToken : CreateWorkspace(t)
  BY <1>5 DEF CreateWorkspace
<1>6. CASE \E t \in SessionToken, w \in WorkspaceId : CreateBoard(t, w)
  BY <1>6 DEF CreateBoard
<1>7. CASE \E t \in SessionToken, scope \in Scope, id \in WorkspaceId \cup BoardId :
             CreateInvite(t, scope, id)
  BY <1>7 DEF CreateInvite
<1>8. CASE UNCHANGED minted
  BY <1>8
<1> QED
  BY <1>2, <1>3, <1>4, <1>5, <1>6, <1>7, <1>8
  DEF Next, DenyAdmin, LockExpires, SessionExpires, touchSession, SignOut, DeleteWorkspace,
      DeleteBoard, RevokeInvite, RemoveUser, RemoveMember, dirVars

LEMMA LoginTyped ==
  /\ adminLoginFailures \in 0 .. (MaxFailures - 1) /\ adminLocked \in BOOLEAN
  /\ [Next]_dirVars
  => adminLoginFailures' \in 0 .. (MaxFailures - 1) /\ adminLocked' \in BOOLEAN
<1> SUFFICES ASSUME adminLoginFailures \in 0 .. (MaxFailures - 1), adminLocked \in BOOLEAN,
                    [Next]_dirVars
             PROVE  adminLoginFailures' \in 0 .. (MaxFailures - 1) /\ adminLocked' \in BOOLEAN
  OBVIOUS
<1>0. 0 \in 0 .. (MaxFailures - 1)
  BY DirectoryAssumption
<1>1. CASE DenyAdmin
  <2>1. CASE adminLoginFailures + 1 >= MaxFailures
    BY <1>0, <1>1, <2>1 DEF DenyAdmin
  <2>2. CASE ~(adminLoginFailures + 1 >= MaxFailures)
    <3>1. adminLoginFailures + 1 \in 0 .. (MaxFailures - 1)
      BY <2>2, DirectoryAssumption
    <3>2. adminLocked' = FALSE /\ adminLoginFailures' = adminLoginFailures + 1
      BY <1>1, <2>2 DEF DenyAdmin
    <3> QED BY <3>1, <3>2
  <2> QED BY <2>1, <2>2
<1>2. CASE SignInAdmin \/ LockExpires \/ Crash
  BY <1>0, <1>2 DEF SignInAdmin, LockExpires, Crash
<1>3. CASE UNCHANGED loginVars
  BY <1>3 DEF loginVars
<1>4. UNCHANGED dirVars => UNCHANGED loginVars
  BY DEF dirVars, loginVars
<1> QED
  BY <1>1, <1>2, <1>3, <1>4
  DEF Next, AcceptInvite, SessionExpires, touchSession, SignOut, CreateWorkspace, CreateBoard,
      DeleteWorkspace, DeleteBoard, CreateInvite, RevokeInvite, RemoveUser, RemoveMember

\* A new row has a new id and a new address; a promoted row keeps both.
LEMMA UsersStepOnePerson ==
  ASSUME Good(db), IdsOf(db) \subseteq minted, OneRowPerPerson, UsersStep(db, db')
  PROVE  OneRowPerPerson'
<1>0. \A r \in db.users : r.id \in minted
  BY DEF IdsOf
<1>1. CASE UsersKept(db, db')
  BY <1>1 DEF UsersKept, OneRowPerPerson
<1>2. CASE UsersPromoted(db, db')
  <2>1. PICK r \in db.users : r.email = AdminEmail /\ db'.users = promote(db, r).users
    BY <1>2 DEF UsersPromoted
  <2>2. r.isAdmin
    BY <2>1 DEF OneRowPerPerson
  <2>3. [r EXCEPT !.isAdmin = TRUE] = r
    BY <2>2 DEF Good
  <2>4. db'.users = db.users
    BY <2>1, <2>3 DEF promote, Good
  <2> QED BY <2>4 DEF OneRowPerPerson
<1>3. ASSUME NEW row \in UserRow, row.id \notin minted, \A r \in db.users : r.email # row.email,
             row.isAdmin <=> row.email = AdminEmail, db'.users = db.users \cup {row}
      PROVE  OneRowPerPerson'
  BY <1>0, <1>3 DEF OneRowPerPerson
<1>4. CASE UserAdded(db, db')
  <2>1. PICK u \in UserId \ minted, a \in Email \ {AdminEmail} :
          (\A r \in db.users : r.email # a) /\ db'.users = db.users \cup {newUser(u, a)}
    BY <1>4 DEF UserAdded
  <2>2. ~newUser(u, a).isAdmin
    BY DEF newUser
  <2> QED BY <1>3, <2>1, <2>2, NewRows
<1>5. CASE AdminAdded(db, db')
  <2>1. PICK u \in UserId \ minted :
          (\A r \in db.users : r.email # AdminEmail) /\ db'.users = db.users \cup {newAdmin(u)}
    BY <1>5 DEF AdminAdded
  <2>2. newAdmin(u).isAdmin
    BY DEF newAdmin
  <2> QED BY <1>3, <2>1, <2>2, NewRows
<1> QED BY <1>1, <1>2, <1>4, <1>5 DEF UsersStep

DirInv == Good(db) /\ TypeOK

LEMMA InitDirInv == Init => DirInv
<1> SUFFICES ASSUME Init PROVE DirInv
  OBVIOUS
<1>1. Good(db)
  BY InitGood
<1>2. IdsOf(db) \subseteq minted /\ minted \subseteq Id
  BY InitGood DEF Init
<1>3. adminLoginFailures \in 0 .. (MaxFailures - 1) /\ adminLocked \in BOOLEAN
  <2>1. 0 \in 0 .. (MaxFailures - 1)
    BY DirectoryAssumption
  <2>2. adminLoginFailures = 0 /\ adminLocked = FALSE
    BY DEF Init
  <2> QED BY <2>1, <2>2
<1> QED BY <1>1, <1>2, <1>3 DEF DirInv, TypeOK, Good

LEMMA NextDirInv == DirInv /\ [Next]_dirVars => DirInv'
<1> SUFFICES ASSUME DirInv, [Next]_dirVars PROVE DirInv'
  OBVIOUS
<1>1. Good(db')
  BY NextGood DEF DirInv
<1>2. IdsOf(db') \subseteq minted'
  BY NextIds DEF DirInv, TypeOK
<1>3. minted' \subseteq Id
  BY MintedTyped DEF DirInv, TypeOK
<1>4. adminLoginFailures' \in 0 .. (MaxFailures - 1) /\ adminLocked' \in BOOLEAN
  BY LoginTyped DEF DirInv, TypeOK
<1>5. (Good(db))' <=> Good(db')
  BY DEF Good, Integrity, HasUser, BoardIds
<1>6. (IdsOf(db))' = IdsOf(db')
  BY DEF IdsOf, BoardIds
<1> QED BY <1>1, <1>2, <1>3, <1>4, <1>5, <1>6 DEF DirInv, Good, TypeOK

\* Where no row dangles the three queries are one: the JOIN finds every board's
\* workspace, and whoever is asked about has a row.
LEMMA QueriesAgree ==
  ASSUME NEW d, Good(d), NEW u, HasUser(d, u)
  PROVE  /\ getAccessibleBoardIds(d, u) = getDirectoryForUser(d, u)
         /\ getAccessibleBoardIds(d, u) = {b \in BoardId : canAccessBoard(d, u, b)}
<1>1. \A b \in d.boards : b.workspaceId \in d.workspaces /\ b.id \in BoardId
  BY DEF Good, Integrity
<1>2. getAccessibleBoardIds(d, u) = getDirectoryForUser(d, u)
  BY <1>1 DEF getAccessibleBoardIds, getDirectoryForUser
<1>3. getAccessibleBoardIds(d, u) = {b \in BoardId : canAccessBoard(d, u, b)}
  BY <1>1 DEF getAccessibleBoardIds, canAccessBoard
<1> QED BY <1>2, <1>3

\* The rows of admins outlive every step.
LEMMA AdminRowsKept ==
  ASSUME NEW d, Good(d), NEW e, UsersStep(d, e)
  PROVE  \A r \in d.users : r.isAdmin => r \in e.users
<1> SUFFICES ASSUME NEW r \in d.users, r.isAdmin PROVE r \in e.users
  OBVIOUS
<1>1. CASE UsersKept(d, e)
  BY <1>1 DEF UsersKept, IsAdmin
<1>2. CASE UsersPromoted(d, e)
  <2>1. PICK q \in d.users : e.users = promote(d, q).users
    BY <1>2 DEF UsersPromoted
  <2>2. e.users = (d.users \ {q}) \cup {[q EXCEPT !.isAdmin = TRUE]}
    BY <2>1 DEF promote, Good
  <2>3. CASE r = q
    <3>1. [q EXCEPT !.isAdmin = TRUE] = q
      BY <2>3 DEF Good
    <3> QED BY <2>2, <2>3, <3>1
  <2>4. CASE r # q
    BY <2>2, <2>4
  <2> QED BY <2>3, <2>4
<1>3. CASE UserAdded(d, e) \/ AdminAdded(d, e)
  BY <1>3 DEF UserAdded, AdminAdded
<1> QED BY <1>1, <1>2, <1>3 DEF UsersStep

-----------------------------------------------------------------------------
(* Theorems.                                                               *)

\* The tables are well formed in every reachable state: a killed process
\* never leaves a row that refers to nothing.
THEOREM Consistency == Spec => [](db \in Tables /\ ReferentialIntegrity)
<1>1. Init => Good(db)
  BY InitGood
<1>2. Good(db) /\ [Next]_dirVars => Good(db')
  BY NextGood
<1>3. Good(db) => db \in Tables /\ ReferentialIntegrity
  BY DEF Good, ReferentialIntegrity
<1>4. (Good(db))' <=> Good(db')
  BY DEF Good, Integrity, HasUser, BoardIds
<1> QED BY <1>1, <1>2, <1>3, <1>4, PTL DEF Spec

\* Every id and token in use was handed out by the server, and the login
\* counter never reaches its limit: the types the other theorems start from.
THEOREM DirectoryTypes == Spec => []TypeOK
<1>1. DirInv => TypeOK
  BY DEF DirInv
<1> QED BY <1>1, InitDirInv, NextDirInv, PTL DEF Spec

\* No address ever gets a second row, and the admin flag and the reserved
\* address never come apart, whatever links are followed, users removed and
\* processes killed (upsertUser and ensureAdminUser, storage.ts:143-199).
THEOREM OnePerson == Spec => []OneRowPerPerson
<1> DEFINE IInv == Good(db) /\ IdsOf(db) \subseteq minted /\ OneRowPerPerson
<1>1. Init => IInv
  BY InitGood DEF Init, EmptyTables, OneRowPerPerson
<1>2. IInv /\ [Next]_dirVars => IInv'
  <2> SUFFICES ASSUME IInv, [Next]_dirVars PROVE IInv'
    OBVIOUS
  <2>1. Good(db') /\ IdsOf(db') \subseteq minted' /\ UsersStep(db, db')
    BY NextGood, NextIds, NextUsersStep
  <2>2. OneRowPerPerson'
    BY <2>1, UsersStepOnePerson
  <2>3. (Good(db))' <=> Good(db')
    BY DEF Good, Integrity, HasUser, BoardIds
  <2>4. (IdsOf(db))' = IdsOf(db')
    BY DEF IdsOf, BoardIds
  <2> QED BY <2>1, <2>2, <2>3, <2>4
<1>3. IInv => OneRowPerPerson
  OBVIOUS
<1> QED BY <1>1, <1>2, <1>3, PTL DEF Spec

\* The list of boards, the check of one board and the sidebar's directory are
\* the same set for every user, also half-way through a deletion that a crash
\* cut short (storage.ts:463-548).
THEOREM QueriesAlwaysAgree == Spec => []AccessQueriesAgree
<1>1. DirInv => AccessQueriesAgree
  <2> SUFFICES ASSUME DirInv, NEW r \in db.users
               PROVE  /\ getAccessibleBoardIds(db, r.id) = getDirectoryForUser(db, r.id)
                      /\ getAccessibleBoardIds(db, r.id) = {b \in BoardId : canAccessBoard(db, r.id, b)}
    BY DEF AccessQueriesAgree
  <2>1. HasUser(db, r.id) /\ Good(db)
    BY DEF HasUser, DirInv
  <2> QED BY <2>1, QueriesAgree
<1> QED BY <1>1, InitDirInv, NextDirInv, PTL DEF Spec

\* No call and no crash takes away the last admin, or any (directory.ts:316-323).
THEOREM AdminsStay == Spec => AdminStays
<1>1. DirInv /\ [Next]_dirVars =>
        [(\E u \in UserId : IsAdmin(db, u)) => (\E u \in UserId : IsAdmin(db', u))]_dirVars
  <2> SUFFICES ASSUME DirInv, [Next]_dirVars, NEW u \in UserId, IsAdmin(db, u)
               PROVE  IsAdmin(db', u)
    OBVIOUS
  <2>1. Good(db) /\ UsersStep(db, db')
    BY NextUsersStep DEF DirInv
  <2>2. PICK r \in db.users : r.id = u /\ r.isAdmin
    BY DEF IsAdmin
  <2> QED BY <2>1, <2>2, AdminRowsKept DEF IsAdmin
<1> QED BY <1>1, InitDirInv, NextDirInv, PTL DEF Spec, AdminStays

-----------------------------------------------------------------------------
(* Access is only gained by invitation.  A step does one of four things to *)
(* boards and memberships (GrantStep).  What a membership opens is decided *)
(* by the board's row, so that one row a board (UniqueBoards) has to be    *)
(* carried along: with two rows of one id, an invite to the workspace of   *)
(* one would open the other.                                               *)

NothingNew(d, e) ==
  e.boards \subseteq d.boards /\ e.wsMembers \subseteq d.wsMembers /\ e.boardMembers \subseteq d.boardMembers

Enrolled(d, e) ==
  /\ e.boards = d.boards
  /\ \E i \in d.invites, u \in UserId :
       \/ /\ i.scope = "workspace"
          /\ e.wsMembers = d.wsMembers \cup {[userId |-> u, workspaceId |-> i.scopeId]}
          /\ e.boardMembers = d.boardMembers
       \/ /\ e.wsMembers = d.wsMembers
          /\ e.boardMembers = d.boardMembers \cup {[userId |-> u, boardId |-> i.scopeId]}

Founded(d, e) ==
  /\ e.boards = d.boards /\ e.boardMembers = d.boardMembers
  /\ \E a \in UserId, w \in WorkspaceId :
       IsAdmin(e, a) /\ e.wsMembers = d.wsMembers \cup {[userId |-> a, workspaceId |-> w]}

BoardMade(d, e) ==
  /\ e.wsMembers = d.wsMembers /\ e.boardMembers = d.boardMembers
  /\ \E b \in BoardId \ minted, w \in WorkspaceId :
       e.boards = d.boards \cup {[id |-> b, workspaceId |-> w]}

GrantStep(d, e) == NothingNew(d, e) \/ Enrolled(d, e) \/ Founded(d, e) \/ BoardMade(d, e)

SameGrants(d, e) ==
  e.boards = d.boards /\ e.wsMembers = d.wsMembers /\ e.boardMembers = d.boardMembers

UniqueBoards(d) == \A b1, b2 \in d.boards : b1.id = b2.id => b1 = b2

-----------------------------------------------------------------------------
(* Every step is a GrantStep.                                              *)

LEMMA UserRowsGrantNothing ==
  ASSUME NEW d, Good(d), NEW p,
         p \in ensureAdminUser(d) \/ \E e \in Email : p \in upsertUser(d, e)
  PROVE  SameGrants(d, p[2])
<1>1. \A row : SameGrants(d, insertUser(d, row))
  BY DEF insertUser, SameGrants, Good
<1>2. \A r : SameGrants(d, promote(d, r))
  BY DEF promote, SameGrants, Good
<1>3. SameGrants(d, d)
  BY DEF SameGrants
<1> QED BY <1>1, <1>2, <1>3, EnsureAdminUserEffect, UpsertUserEffect

LEMMA InsertsGrantNothing ==
  ASSUME NEW d, Good(d)
  PROVE  /\ \A t, u : SameGrants(d, insertSession(d, t, u))
         /\ \A w : SameGrants(d, insertWorkspace(d, w))
         /\ \A i : SameGrants(d, [d EXCEPT !.invites = i])
         /\ \A s : SameGrants(d, [d EXCEPT !.sessions = s])
BY DEF Good, SameGrants, insertSession, insertWorkspace

\* What an accepted invite does, with or without the session at the end.
LEMMA InviteEnrols ==
  ASSUME NEW d, Good(d), NEW i \in d.invites, NEW p, Good(p[2]), SameGrants(d, p[2]), p[1] \in UserId
  PROVE  Enrolled(d, addMembership(p[2], p[1], i.scope, i.scopeId))
<1>1. CASE i.scope = "workspace"
  <2> DEFINE e == [p[2] EXCEPT !.wsMembers = @ \cup {[userId |-> p[1], workspaceId |-> i.scopeId]}]
  <2>1. addMembership(p[2], p[1], i.scope, i.scopeId) = e
    BY <1>1 DEF addMembership
  <2>2. /\ e.boards = d.boards /\ e.boardMembers = d.boardMembers
        /\ e.wsMembers = d.wsMembers \cup {[userId |-> p[1], workspaceId |-> i.scopeId]}
    BY DEF Good, SameGrants
  <2> QED BY <1>1, <2>1, <2>2 DEF Enrolled
<1>2. CASE i.scope # "workspace"
  <2> DEFINE e == [p[2] EXCEPT !.boardMembers = @ \cup {[userId |-> p[1], boardId |-> i.scopeId]}]
  <2>1. addMembership(p[2], p[1], i.scope, i.scopeId) = e
    BY <1>2 DEF addMembership
  <2>2. /\ e.boards = d.boards /\ e.wsMembers = d.wsMembers
        /\ e.boardMembers = d.boardMembers \cup {[userId |-> p[1], boardId |-> i.scopeId]}
    BY DEF Good, SameGrants
  <2> QED BY <2>1, <2>2 DEF Enrolled
<1> QED BY <1>1, <1>2

LEMMA SameGrantStep ==
  ASSUME NEW d, NEW e, NEW f, SameGrants(e, f),
         NothingNew(d, e) \/ Enrolled(d, e) \/ SameGrants(d, e)
  PROVE  GrantStep(d, f)
BY DEF SameGrants, GrantStep, NothingNew, Enrolled

\* A crash grants nothing, unless an invite had already been followed.
LEMMA PartialGrantStep == Good(db) /\ PartialCommit => GrantStep(db, db')
<1> SUFFICES ASSUME Good(db), PartialCommit PROVE GrantStep(db, db')
  OBVIOUS
<1>0. NothingNew(db, db') => GrantStep(db, db')
  BY DEF GrantStep
<1>1. CASE db' = db
  BY <1>0, <1>1 DEF NothingNew
<1>2. CASE \E p \in ensureAdminUser(db) : db' = p[2]
  BY <1>0, <1>2, UserRowsGrantNothing DEF NothingNew, SameGrants
<1>3. ASSUME NEW i \in db.invites, NEW e \in Email \ {AdminEmail}, db' \in DuringAcceptInvite(db, i, e)
      PROVE  GrantStep(db, db')
  <2>1. PICK p \in upsertUser(db, e) :
          db' = p[2] \/ db' = addMembership(p[2], p[1], i.scope, i.scopeId)
    BY <1>3 DEF DuringAcceptInvite
  <2>2. SameGrants(db, p[2]) /\ Good(p[2]) /\ p[1] \in UserId
    BY UserRowsGrantNothing, UserRowsGood
  <2>3. Enrolled(db, addMembership(p[2], p[1], i.scope, i.scopeId))
    BY <2>2, InviteEnrols
  <2> QED BY <1>0, <2>1, <2>2, <2>3 DEF GrantStep, NothingNew, SameGrants
<1>4. CASE \E w \in WorkspaceId \ minted : db' = insertWorkspace(db, w)
  BY <1>0, <1>4, InsertsGrantNothing DEF NothingNew, SameGrants
<1>5. ASSUME NEW B, db' \in DuringDeleteBoards(db, B) PROVE NothingNew(db, db')
  <2> DEFINE F(S, b) == {deleteBoards(db, S),
                 dropBoardMembers(deleteBoards(db, S), {b}),
                 dropBoardInvites(dropBoardMembers(deleteBoards(db, S), {b}), {b})}
  <2>1. DuringDeleteBoards(db, B) = UNION {F(S, b) : S \in SUBSET B, b \in B}
    BY DEF DuringDeleteBoards
  <2>2. ASSUME NEW S, NEW b, db' \in F(S, b) PROVE NothingNew(db, db')
    <3>1. Good(deleteBoards(db, S)) /\ Good(dropBoardMembers(deleteBoards(db, S), {b}))
      BY DeleteBoardsGood, DropBoardMembersGood
    <3>2. \A d : Good(d) => NothingNew(d, dropBoardMembers(d, {b})) /\ NothingNew(d, dropBoardInvites(d, {b}))
      BY DEF Good, NothingNew, dropBoardMembers, dropBoardInvites
    <3>3. NothingNew(db, deleteBoards(db, S))
      BY DeletesShrink DEF NothingNew, Shrinks
    <3> QED BY <2>2, <3>1, <3>2, <3>3 DEF NothingNew
  <2> HIDE DEF F
  <2> QED BY <1>5, <2>1, <2>2
<1>6. ASSUME NEW w, db' \in DuringDeleteWorkspace(db, w) PROVE NothingNew(db, db')
  <2> DEFINE B == getBoardIdsForWorkspace(db, w)
             m == dropWsMembers(deleteBoards(db, B), w)
  <2>1. Good(deleteBoards(db, B)) /\ Good(m)
    BY DeleteBoardsGood, DropWsMembersGood
  <2>2. NothingNew(db, deleteBoards(db, B))
    BY DeletesShrink DEF NothingNew, Shrinks
  <2>3. NothingNew(deleteBoards(db, B), m) /\ NothingNew(m, dropWsInvites(m, w))
    BY <2>1 DEF Good, NothingNew, dropWsMembers, dropWsInvites
  <2>4. db' \in DuringDeleteBoards(db, B) \cup {deleteBoards(db, B), m, dropWsInvites(m, w)}
    BY <1>6 DEF DuringDeleteWorkspace
  <2> HIDE DEF m, B
  <2> QED BY <1>5, <2>2, <2>3, <2>4 DEF NothingNew
<1>7. ASSUME NEW u, db' \in DuringRemoveUser(db, u) PROVE NothingNew(db, db')
  <2> DEFINE d1 == dropUserWsMembers(db, u)
             d2 == dropUserBoardMembers(d1, u)
             d3 == dropUserSessions(d2, u)
  <2>1. Good(d1) /\ Good(d2)
    BY DropUserWsMembersGood, DropUserBoardMembersGood
  <2>2. NothingNew(db, d1)
    BY DEF Good, NothingNew, dropUserWsMembers
  <2>3. NothingNew(d1, d2)
    <3> HIDE DEF d1
    <3> QED BY <2>1 DEF Good, NothingNew, dropUserBoardMembers
  <2>4. NothingNew(d2, d3)
    <3> HIDE DEF d2
    <3> QED BY <2>1 DEF Good, NothingNew, dropUserSessions
  <2>5. db' \in {d1, d2, d3}
    BY <1>7 DEF DuringRemoveUser
  <2> HIDE DEF d1, d2, d3
  <2> QED BY <2>2, <2>3, <2>4, <2>5 DEF NothingNew
<1> QED BY <1>0, <1>1, <1>2, <1>3, <1>4, <1>5, <1>6, <1>7 DEF PartialCommit

LEMMA NextGrantStep == Good(db) /\ [Next]_dirVars => GrantStep(db, db')
<1> SUFFICES ASSUME Good(db), [Next]_dirVars PROVE GrantStep(db, db')
  OBVIOUS
<1>0. Shrinks(db, db') \/ SameGrants(db, db') => GrantStep(db, db')
  BY DEF Shrinks, SameGrants, GrantStep, NothingNew
<1>1. CASE SignInAdmin
  <2>1. PICK p \in ensureAdminUser(db) : startSession(p[2], p[1])
    BY <1>1 DEF SignInAdmin
  <2>2. SameGrants(db, p[2]) /\ Good(p[2])
    BY UserRowsGrantNothing, UserRowsGood
  <2>3. SameGrants(p[2], db')
    BY <2>1, <2>2, InsertsGrantNothing DEF startSession
  <2> QED BY <2>2, <2>3, SameGrantStep
<1>2. CASE DenyAdmin \/ LockExpires \/ UNCHANGED dirVars
  BY <1>0, <1>2 DEF DenyAdmin, LockExpires, dirVars, SameGrants
<1>3. ASSUME NEW i \in db.invites, NEW e \in Email, AcceptInvite(i, e)
      PROVE  GrantStep(db, db')
  <2>1. PICK p \in upsertUser(db, e) :
          startSession(addMembership(p[2], p[1], i.scope, i.scopeId), p[1])
    BY <1>3 DEF AcceptInvite
  <2> DEFINE f == addMembership(p[2], p[1], i.scope, i.scopeId)
  <2>2. SameGrants(db, p[2]) /\ Good(p[2]) /\ p[1] \in UserId
    BY UserRowsGrantNothing, UserRowsGood
  <2>3. Good(f)
    BY <1>3, <2>1, InvitedMembershipGood DEF AcceptInvite
  <2>4. Enrolled(db, f)
    BY <2>2, InviteEnrols
  <2>5. PICK t \in SessionToken : db' = insertSession(f, t, p[1])
    BY <2>1 DEF startSession
  <2> HIDE DEF f
  <2>6. SameGrants(f, db')
    BY <2>3, <2>5, InsertsGrantNothing
  <2> QED BY <2>4, <2>6, SameGrantStep
<1>4. ASSUME NEW s \in db.sessions, SessionExpires(s) \/ touchSession(s) PROVE GrantStep(db, db')
  BY <1>0, <1>4, InsertsGrantNothing, DeletesShrink DEF SessionExpires, touchSession
<1>5. ASSUME NEW t \in SessionToken, CreateWorkspace(t) PROVE GrantStep(db, db')
  <2>1. PICK a \in UserId, w \in WorkspaceId :
          IsAdmin(db, a) /\ db' = addMembership(insertWorkspace(db, w), a, "workspace", w)
    BY <1>5 DEF CreateWorkspace
  <2> DEFINE d == insertWorkspace(db, w)
  <2>2. SameGrants(db, d) /\ d.users = db.users /\ Good(d)
    BY InsertsGrantNothing, InsertsKeepUsers, InsertWorkspaceGood
  <2>3. db' = [d EXCEPT !.wsMembers = @ \cup {[userId |-> a, workspaceId |-> w]}]
    BY <2>1 DEF addMembership
  <2> HIDE DEF d
  <2>4. /\ db'.boards = d.boards /\ db'.boardMembers = d.boardMembers /\ db'.users = d.users
        /\ db'.wsMembers = d.wsMembers \cup {[userId |-> a, workspaceId |-> w]}
    BY <2>2, <2>3 DEF Good
  <2>5. IsAdmin(db', a)
    BY <2>1, <2>2, <2>4 DEF IsAdmin
  <2> QED BY <2>2, <2>4, <2>5 DEF SameGrants, GrantStep, Founded
<1>6. ASSUME NEW t \in SessionToken, NEW w \in WorkspaceId, CreateBoard(t, w) PROVE GrantStep(db, db')
  <2>1. PICK b \in BoardId \ minted :
          db' = [db EXCEPT !.boards = @ \cup {[id |-> b, workspaceId |-> w]}]
    BY <1>6 DEF CreateBoard
  <2>2. /\ db'.wsMembers = db.wsMembers /\ db'.boardMembers = db.boardMembers
        /\ db'.boards = db.boards \cup {[id |-> b, workspaceId |-> w]}
    BY <2>1 DEF Good
  <2> QED BY <2>2 DEF GrantStep, BoardMade
<1>7. ASSUME NEW t \in SessionToken, NEW w \in WorkspaceId, DeleteWorkspace(t, w) PROVE GrantStep(db, db')
  BY <1>0, <1>7, DeletesShrink DEF DeleteWorkspace
<1>8. ASSUME NEW t \in SessionToken, NEW b \in BoardId, DeleteBoard(t, b) PROVE GrantStep(db, db')
  BY <1>0, <1>8, DeletesShrink DEF DeleteBoard
<1>9. ASSUME NEW t \in SessionToken, NEW scope \in Scope, NEW id \in WorkspaceId \cup BoardId,
             CreateInvite(t, scope, id)
      PROVE  GrantStep(db, db')
  BY <1>0, <1>9, InsertsGrantNothing DEF CreateInvite
<1>10. ASSUME NEW t \in SessionToken, NEW i \in InviteToken, RevokeInvite(t, i) PROVE GrantStep(db, db')
  BY <1>0, <1>10, DeletesShrink DEF RevokeInvite
<1>11. ASSUME NEW t \in SessionToken, NEW u \in UserId, RemoveUser(t, u) PROVE GrantStep(db, db')
  BY <1>0, <1>11, DeletesShrink DEF RemoveUser
<1>12. ASSUME NEW t \in SessionToken, NEW u \in UserId, NEW scope \in Scope,
              NEW id \in WorkspaceId \cup BoardId, RemoveMember(t, u, scope, id)
       PROVE  GrantStep(db, db')
  BY <1>0, <1>12, DeletesShrink DEF RemoveMember
<1>13. ASSUME NEW t \in SessionToken, SignOut(t) PROVE GrantStep(db, db')
  BY <1>0, <1>13, DeletesShrink DEF SignOut
<1>14. CASE Crash
  BY <1>14, PartialGrantStep DEF Crash
<1> QED
  BY <1>1, <1>2, <1>3, <1>4, <1>5, <1>6, <1>7, <1>8, <1>9, <1>10, <1>11, <1>12, <1>13, <1>14 DEF Next

-----------------------------------------------------------------------------
(* What a GrantStep opens.                                                 *)

LEMMA BoardsStayUnique ==
  ASSUME NEW d, NEW e, UniqueBoards(d), IdsOf(d) \subseteq minted, GrantStep(d, e)
  PROVE  UniqueBoards(e)
<1>1. \A b \in d.boards : b.id \in minted
  BY DEF IdsOf, BoardIds
<1>2. CASE BoardMade(d, e)
  BY <1>1, <1>2 DEF BoardMade, UniqueBoards
<1>3. CASE e.boards \subseteq d.boards
  BY <1>3 DEF UniqueBoards
<1> QED BY <1>2, <1>3 DEF GrantStep, NothingNew, Enrolled, Founded

\* Who may open a board they could not open before.
LEMMA GrantsAreInvited ==
  ASSUME NEW d, Good(d), NEW e, Good(e), UniqueBoards(e), IdsOf(d) \subseteq minted, GrantStep(d, e),
         NEW u \in UserId, NEW b \in e.boards, canAccessBoard(e, u, b.id), ~canAccessBoard(d, u, b.id)
  PROVE  \/ IsAdmin(e, u)
         \/ \E i \in d.invites : i.scopeId \in {b.id, b.workspaceId}
         \/ b \notin d.boards /\ [userId |-> u, workspaceId |-> b.workspaceId] \in d.wsMembers
<1> SUFFICES ASSUME ~IsAdmin(e, u)
             PROVE  \/ \E i \in d.invites : i.scopeId \in {b.id, b.workspaceId}
                    \/ b \notin d.boards /\ [userId |-> u, workspaceId |-> b.workspaceId] \in d.wsMembers
  OBVIOUS
<1>1. Granted(e, u, b)
  BY DEF canAccessBoard, UniqueBoards
<1>2. Granted(d, u, b) => b \notin d.boards
  BY DEF Granted, canAccessBoard, Good, Integrity
<1>3. CASE NothingNew(d, e)
  BY <1>1, <1>2, <1>3 DEF NothingNew, Granted
<1>4. CASE Enrolled(d, e)
  <2>1. PICK i \in d.invites, v \in UserId :
          \/ /\ e.wsMembers = d.wsMembers \cup {[userId |-> v, workspaceId |-> i.scopeId]}
             /\ e.boardMembers = d.boardMembers
          \/ /\ e.wsMembers = d.wsMembers
             /\ e.boardMembers = d.boardMembers \cup {[userId |-> v, boardId |-> i.scopeId]}
    BY <1>4 DEF Enrolled
  <2>2. b \in d.boards /\ ~Granted(d, u, b)
    BY <1>2, <1>4 DEF Enrolled
  <2>3. i.scopeId \in {b.id, b.workspaceId}
    BY <1>1, <2>1, <2>2 DEF Granted
  <2> QED BY <2>3
<1>5. CASE Founded(d, e)
  BY <1>1, <1>2, <1>5 DEF Founded, Granted
<1>6. CASE BoardMade(d, e)
  <2>1. b \notin d.boards
    BY <1>1, <1>2, <1>6 DEF BoardMade, Granted
  <2>2. b.id \notin minted
    BY <1>6, <2>1 DEF BoardMade
  <2>3. [userId |-> u, boardId |-> b.id] \notin d.boardMembers
    BY <2>2 DEF Good, Integrity, IdsOf
  <2> QED BY <1>1, <1>6, <2>1, <2>3 DEF BoardMade, Granted
<1> QED BY <1>3, <1>4, <1>5, <1>6 DEF GrantStep

-----------------------------------------------------------------------------

AccessInv == DirInv /\ UniqueBoards(db)

\* Nobody gains access to a board but by an invite in force for it or for its
\* workspace, as a member of the workspace it is created in, or as the admin:
\* whatever is deleted, revoked, removed or cut short by a crash
\* (directory.ts:150-164, storage.ts:376-419).
THEOREM AccessByInvite == Spec => AccessOnlyByInvite
<1>1. Init => AccessInv
  BY InitDirInv DEF Init, EmptyTables, AccessInv, UniqueBoards
<1>2. AccessInv /\ [Next]_dirVars => AccessInv' /\ GrantStep(db, db') /\ Good(db')
  <2> SUFFICES ASSUME AccessInv, [Next]_dirVars
               PROVE  AccessInv' /\ GrantStep(db, db') /\ Good(db')
    OBVIOUS
  <2>1. DirInv' /\ GrantStep(db, db') /\ Good(db')
    BY NextDirInv, NextGrantStep, NextGood DEF AccessInv, DirInv
  <2>2. UniqueBoards(db')
    BY <2>1, BoardsStayUnique DEF AccessInv, DirInv, TypeOK
  <2>3. (UniqueBoards(db))' <=> UniqueBoards(db')
    BY DEF UniqueBoards
  <2> QED BY <2>1, <2>2, <2>3 DEF AccessInv
<1>3. AccessInv /\ [Next]_dirVars =>
        [\A u \in UserId : \A b \in db'.boards :
           canAccessBoard(db', u, b.id) /\ ~canAccessBoard(db, u, b.id) =>
             \/ IsAdmin(db', u)
             \/ \E i \in db.invites : i.scopeId \in {b.id, b.workspaceId}
             \/ b \notin db.boards /\ [userId |-> u, workspaceId |-> b.workspaceId] \in db.wsMembers]_dirVars
  <2> SUFFICES ASSUME AccessInv, [Next]_dirVars, NEW u \in UserId, NEW b \in db'.boards,
                      canAccessBoard(db', u, b.id), ~canAccessBoard(db, u, b.id)
               PROVE  \/ IsAdmin(db', u)
                      \/ \E i \in db.invites : i.scopeId \in {b.id, b.workspaceId}
                      \/ b \notin db.boards /\ [userId |-> u, workspaceId |-> b.workspaceId] \in db.wsMembers
    OBVIOUS
  <2>1. GrantStep(db, db') /\ Good(db') /\ AccessInv'
    BY <1>2
  <2>2. UniqueBoards(db')
    BY <2>1 DEF AccessInv, UniqueBoards
  <2> QED BY <2>1, <2>2, GrantsAreInvited DEF AccessInv, DirInv, TypeOK
<1> QED BY <1>1, <1>2, <1>3, PTL DEF Spec, AccessOnlyByInvite

HIDE DEF Tables

-----------------------------------------------------------------------------
(* The server's steps are steps of the directory.                          *)

LEMMA StepIsDirectoryStep == [ServerNext]_vars => [Next]_dirVars
<1> SUFFICES ASSUME [ServerNext]_vars PROVE [Next]_dirVars
  OBVIOUS
<1>1. CASE UNCHANGED vars
  BY <1>1 DEF vars
<1>2. CASE \E t \in SessionToken, b \in BoardId : Upgrade(t, b)
  BY <1>2 DEF Upgrade
<1>3. CASE QuietCall
  BY <1>3 DEF QuietCall, Next
<1>4. CASE Revocation
  BY <1>4 DEF Revocation, EvictingDeleteBoard, EvictingDeleteWorkspace, EvictingRemoveMember,
              EvictingRemoveUser, Next
<1>5. CASE socketStep /\ UNCHANGED dirVars
  BY <1>5
<1>6. CASE Restart
  BY <1>6 DEF Restart, Next
<1> QED BY <1>1, <1>2, <1>3, <1>4, <1>5, <1>6 DEF ServerNext

-----------------------------------------------------------------------------
(* The rooms.                                                              *)

RoomsOK == presenceTypeOK /\ RoomIffOccupied

LEMMA JoinRooms ==
  ASSUME RoomsOK, NEW b \in BoardId, NEW u \in UserId, join(b, u)
  PROVE  RoomsOK'
<1>1. CASE /\ Cardinality(On(b)) >= MAX_PARTICIPANTS
           /\ UNCHANGED <<participants, joined>>
  <2>1. On(b) # {}
    BY <1>1, FS_EmptySet, PresenceAssumption
  <2>2. b \in rooms
    BY <2>1 DEF RoomsOK, RoomIffOccupied, On
  <2>3. rooms' = rooms
    BY <2>2 DEF join
  <2> QED BY <1>1, <2>3 DEF RoomsOK, presenceTypeOK, RoomIffOccupied
<1>2. CASE \E c \in ConnId \ joined :
             /\ participants' = participants \cup
                  {[id |-> c, boardId |-> b, userId |-> u, quiet |-> FALSE]}
             /\ joined' = joined \cup {c}
  <2>1. PICK c \in ConnId \ joined :
          /\ participants' = participants \cup
               {[id |-> c, boardId |-> b, userId |-> u, quiet |-> FALSE]}
          /\ joined' = joined \cup {c}
    BY <1>2
  <2> DEFINE p == [id |-> c, boardId |-> b, userId |-> u, quiet |-> FALSE]
  <2>2. p \in Participant /\ p.id = c /\ p.boardId = b
    BY DEF Participant
  <2>3. participants' = participants \cup {p}
    BY <2>1
  <2> HIDE DEF p
  <2>4. rooms' = rooms \cup {b}
    BY DEF join
  <2>5. rooms' = {q.boardId : q \in participants'}
    BY <2>2, <2>3, <2>4 DEF RoomsOK, RoomIffOccupied
  <2>6. /\ participants' \subseteq Participant /\ rooms' \subseteq BoardId
        /\ joined' \subseteq ConnId /\ {q.id : q \in participants'} \subseteq joined'
    BY <2>1, <2>2, <2>3, <2>4 DEF RoomsOK, presenceTypeOK
  <2> QED BY <2>5, <2>6 DEF RoomsOK, presenceTypeOK, RoomIffOccupied
<1> QED BY <1>1, <1>2 DEF join

LEMMA RemoveRooms ==
  ASSUME RoomsOK, NEW P \in SUBSET participants, removeParticipants(P)
  PROVE  RoomsOK'
<1>1. rooms' = {p.boardId : p \in participants'}
  BY DEF RoomsOK, RoomIffOccupied, removeParticipants, On
<1>2. /\ participants' \subseteq Participant /\ rooms' \subseteq BoardId
      /\ joined' \subseteq ConnId /\ {q.id : q \in participants'} \subseteq joined'
  BY DEF RoomsOK, presenceTypeOK, removeParticipants
<1> QED BY <1>1, <1>2 DEF RoomsOK, presenceTypeOK, RoomIffOccupied

\* A frame and a silence change only whether one participant is quiet.
LEMMA QuietRooms ==
  ASSUME RoomsOK, NEW p \in participants, NEW q \in Participant,
         q.id = p.id, q.boardId = p.boardId,
         participants' = (participants \ {p}) \cup {q},
         UNCHANGED <<rooms, joined>>
  PROVE  RoomsOK'
<1>1. {x.boardId : x \in participants'} = {x.boardId : x \in participants}
  OBVIOUS
<1>2. {x.id : x \in participants'} = {x.id : x \in participants}
  OBVIOUS
<1> QED BY <1>1, <1>2 DEF RoomsOK, presenceTypeOK, RoomIffOccupied

LEMMA RequietTyped ==
  ASSUME presenceTypeOK, NEW p \in participants
  PROVE  /\ [p EXCEPT !.quiet = TRUE] \in Participant /\ [p EXCEPT !.quiet = FALSE] \in Participant
         /\ [p EXCEPT !.quiet = TRUE].id = p.id /\ [p EXCEPT !.quiet = FALSE].id = p.id
         /\ [p EXCEPT !.quiet = TRUE].boardId = p.boardId
         /\ [p EXCEPT !.quiet = FALSE].boardId = p.boardId
         /\ [p EXCEPT !.quiet = TRUE].userId = p.userId
         /\ [p EXCEPT !.quiet = FALSE].userId = p.userId
BY DEF presenceTypeOK, Participant

LEMMA SocketRooms == RoomsOK /\ socketStep => RoomsOK'
<1> SUFFICES ASSUME RoomsOK, socketStep PROVE RoomsOK'
  OBVIOUS
<1>1. ASSUME NEW p \in participants, leave(p) PROVE RoomsOK'
  BY <1>1, RemoveRooms DEF leave
<1>2. ASSUME NEW p \in participants, falls_quiet(p) PROVE RoomsOK'
  <2> DEFINE q == [p EXCEPT !.quiet = TRUE]
  <2>1. q \in Participant /\ q.id = p.id /\ q.boardId = p.boardId
    BY RequietTyped DEF RoomsOK
  <2>2. participants' = (participants \ {p}) \cup {q} /\ UNCHANGED <<rooms, joined>>
    BY <1>2 DEF falls_quiet
  <2> HIDE DEF q
  <2> QED BY <2>1, <2>2, QuietRooms
<1>3. ASSUME NEW p \in participants, frame(p) PROVE RoomsOK'
  <2> DEFINE q == [p EXCEPT !.quiet = FALSE]
  <2>1. q \in Participant /\ q.id = p.id /\ q.boardId = p.boardId
    BY RequietTyped DEF RoomsOK
  <2>2. participants' = (participants \ {p}) \cup {q} /\ UNCHANGED <<rooms, joined>>
    BY <1>3 DEF frame
  <2> HIDE DEF q
  <2> QED BY <2>1, <2>2, QuietRooms
<1>4. ASSUME NEW b \in BoardId, sweep(b) PROVE RoomsOK'
  <2>1. {p \in On(b) : p.quiet} \in SUBSET participants
    BY DEF On
  <2> QED BY <1>4, <2>1, RemoveRooms DEF sweep
<1> QED BY <1>1, <1>2, <1>3, <1>4 DEF socketStep

LEMMA EvictRooms ==
  ASSUME RoomsOK, NEW B, (\E u : evictUser(B, u)) \/ evictAll(B)
  PROVE  RoomsOK'
<1>1. OnAny(B) \in SUBSET participants /\ \A u : OfUser(B, u) \in SUBSET participants
  BY DEF OnAny, OfUser
<1> QED BY <1>1, RemoveRooms DEF evictUser, evictAll

LEMMA NextRooms == RoomsOK /\ [ServerNext]_vars => RoomsOK'
<1> SUFFICES ASSUME RoomsOK, [ServerNext]_vars PROVE RoomsOK'
  OBVIOUS
<1>1. CASE UNCHANGED presenceVars
  BY <1>1 DEF presenceVars, RoomsOK, presenceTypeOK, RoomIffOccupied
<1>2. CASE \E t \in SessionToken, b \in BoardId : Upgrade(t, b)
  BY <1>2, JoinRooms DEF Upgrade
<1>3. CASE Revocation
  BY <1>3, EvictRooms DEF Revocation, EvictingDeleteBoard, EvictingDeleteWorkspace,
                          EvictingRemoveMember, EvictingRemoveUser
<1>4. CASE socketStep
  BY <1>4, SocketRooms
<1>5. CASE Restart
  BY <1>5 DEF Restart, restart, RoomsOK, presenceTypeOK, RoomIffOccupied
<1> QED BY <1>1, <1>2, <1>3, <1>4, <1>5 DEF ServerNext, QuietCall, vars

-----------------------------------------------------------------------------
(* Access.                                                                 *)

\* The query the upgrade handler asks and the query the evictions are
\* computed from answer alike.
LEMMA SameAccess ==
  ASSUME NEW d, NEW u, NEW b
  PROVE  canAccessBoard(d, u, b) <=> b \in getAccessibleBoardIds(d, u)
BY DEF canAccessBoard, getAccessibleBoardIds

\* e grants whatever d grants.
Widens(d, e) ==
  /\ d.boards \subseteq e.boards
  /\ d.wsMembers \subseteq e.wsMembers
  /\ d.boardMembers \subseteq e.boardMembers
  /\ \A u : HasUser(d, u) => HasUser(e, u)
  /\ \A u : IsAdmin(d, u) => IsAdmin(e, u)

LEMMA WidensTransitive ==
  ASSUME NEW d, NEW e, NEW f, Widens(d, e), Widens(e, f)
  PROVE  Widens(d, f)
BY DEF Widens

LEMMA WidensAccess ==
  ASSUME NEW d, NEW e, Widens(d, e), NEW u, NEW b, canAccessBoard(d, u, b)
  PROVE  canAccessBoard(e, u, b)
BY DEF Widens, canAccessBoard, Granted

LEMMA InsertsWiden ==
  ASSUME NEW d, Good(d)
  PROVE  /\ \A u, scope, id : Widens(d, addMembership(d, u, scope, id))
         /\ \A t, u : Widens(d, insertSession(d, t, u))
         /\ \A t : Widens(d, deleteSession(d, t))
         /\ \A w : Widens(d, insertWorkspace(d, w))
         /\ \A b : Widens(d, [d EXCEPT !.boards = @ \cup {b}])
         /\ \A i : Widens(d, [d EXCEPT !.invites = i])
         /\ \A s : Widens(d, [d EXCEPT !.sessions = s])
<1>1. /\ \A t, u : Widens(d, insertSession(d, t, u))
      /\ \A t : Widens(d, deleteSession(d, t))
      /\ \A w : Widens(d, insertWorkspace(d, w))
      /\ \A i : Widens(d, [d EXCEPT !.invites = i])
      /\ \A s : Widens(d, [d EXCEPT !.sessions = s])
  BY DEF Good, Widens, insertSession, deleteSession, insertWorkspace, HasUser, IsAdmin
<1>2. \A b : Widens(d, [d EXCEPT !.boards = @ \cup {b}])
  BY DEF Good, Widens, HasUser, IsAdmin
<1>3. \A u, scope, id : Widens(d, addMembership(d, u, scope, id))
  BY DEF Good, Widens, addMembership, HasUser, IsAdmin
<1> QED BY <1>1, <1>2, <1>3

LEMMA UserRowsWiden ==
  ASSUME NEW d, Good(d), NEW p,
         p \in ensureAdminUser(d) \/ \E e \in Email : p \in upsertUser(d, e)
  PROVE  Widens(d, p[2])
<1>1. ASSUME NEW r \in d.users, p[2] = promote(d, r) PROVE Widens(d, p[2])
  <2>1. \A x \in d.users : \E y \in p[2].users :
          y.id = x.id /\ (x.isAdmin => y.isAdmin)
    BY <1>1, PromoteGood
  <2>2. /\ p[2].boards = d.boards /\ p[2].wsMembers = d.wsMembers
        /\ p[2].boardMembers = d.boardMembers
    BY <1>1 DEF promote, Good
  <2> QED BY <2>1, <2>2 DEF Widens, HasUser, IsAdmin
<1>2. ASSUME NEW row \in UserRow, p[2] = insertUser(d, row) PROVE Widens(d, p[2])
  <2>1. /\ p[2].boards = d.boards /\ p[2].wsMembers = d.wsMembers
        /\ p[2].boardMembers = d.boardMembers
        /\ p[2].users = d.users \cup {row}
    BY <1>2 DEF insertUser, Good
  <2> QED BY <2>1 DEF Widens, HasUser, IsAdmin
<1>3. p[2] = d => Widens(d, p[2])
  BY DEF Widens
<1>4. CASE p \in ensureAdminUser(d)
  BY <1>1, <1>2, <1>4, NewRows, EnsureAdminUserEffect
<1>5. CASE \E e \in Email : p \in upsertUser(d, e)
  <2>1. PICK e \in Email : p \in upsertUser(d, e)
    BY <1>5
  <2> QED BY <1>2, <1>3, <2>1, NewRows, UpsertUserEffect
<1> QED BY <1>4, <1>5

LEMMA QuietCallWidens == Good(db) /\ QuietCall => Widens(db, db')
<1> SUFFICES ASSUME Good(db), QuietCall PROVE Widens(db, db')
  OBVIOUS
<1>0. db' = db => Widens(db, db')
  BY DEF Widens
<1>1. CASE SignInAdmin
  <2>1. PICK p \in ensureAdminUser(db) : startSession(p[2], p[1])
    BY <1>1 DEF SignInAdmin
  <2>2. PICK t : db' = insertSession(p[2], t, p[1])
    BY <2>1 DEF startSession
  <2>3. Widens(db, p[2]) /\ Widens(p[2], db')
    BY <2>2, UserRowsWiden, UserRowsGood, InsertsWiden
  <2> QED BY <2>3, WidensTransitive
<1>2. CASE DenyAdmin \/ LockExpires
  BY <1>0, <1>2 DEF DenyAdmin, LockExpires
<1>3. ASSUME NEW i \in db.invites, NEW e \in Email, AcceptInvite(i, e)
      PROVE  Widens(db, db')
  <2>1. PICK p \in upsertUser(db, e) :
          startSession(addMembership(p[2], p[1], i.scope, i.scopeId), p[1])
    BY <1>3 DEF AcceptInvite
  <2> DEFINE f == addMembership(p[2], p[1], i.scope, i.scopeId)
  <2>2. InviteResolves(db, i)
    BY <1>3 DEF AcceptInvite
  <2>3. Good(f) /\ Good(p[2])
    BY <2>1, <2>2, InvitedMembershipGood, UserRowsGood
  <2>4. Widens(db, p[2]) /\ Widens(p[2], f)
    BY <2>3, UserRowsWiden, InsertsWiden
  <2>5. PICK t : db' = insertSession(f, t, p[1])
    BY <2>1 DEF startSession
  <2> HIDE DEF f
  <2>6. Widens(f, db')
    BY <2>3, <2>5, InsertsWiden
  <2> QED BY <2>4, <2>6, WidensTransitive
<1>4. ASSUME NEW s \in db.sessions, SessionExpires(s) PROVE Widens(db, db')
  BY <1>4, InsertsWiden DEF SessionExpires
<1>5. ASSUME NEW s \in db.sessions, touchSession(s) PROVE Widens(db, db')
  BY <1>5, InsertsWiden DEF touchSession
<1>6. ASSUME NEW t, SignOut(t) PROVE Widens(db, db')
  BY <1>6, InsertsWiden DEF SignOut
<1>7. ASSUME NEW t, CreateWorkspace(t) PROVE Widens(db, db')
  <2>1. PICK a \in UserId, w \in WorkspaceId :
          db' = addMembership(insertWorkspace(db, w), a, "workspace", w)
    BY <1>7 DEF CreateWorkspace
  <2>2. Widens(db, insertWorkspace(db, w)) /\ Widens(insertWorkspace(db, w), db')
    BY <2>1, InsertWorkspaceGood, InsertsWiden
  <2> QED BY <2>2, WidensTransitive
<1>8. ASSUME NEW t, NEW w, CreateBoard(t, w) PROVE Widens(db, db')
  <2>1. PICK b : db' = [db EXCEPT !.boards = @ \cup {[id |-> b, workspaceId |-> w]}]
    BY <1>8 DEF CreateBoard
  <2> QED BY <2>1, InsertsWiden
<1>9. ASSUME NEW t, NEW scope, NEW id, CreateInvite(t, scope, id) PROVE Widens(db, db')
  BY <1>9, InsertsWiden DEF CreateInvite
<1>10. ASSUME NEW t, NEW i, RevokeInvite(t, i) PROVE Widens(db, db')
  BY <1>10, InsertsWiden DEF RevokeInvite
<1> QED BY <1>1, <1>2, <1>3, <1>4, <1>5, <1>6, <1>7, <1>8, <1>9, <1>10 DEF QuietCall

\* What each revocation leaves alone: the access of everyone it does not name.
LEMMA DeleteBoardKeeps ==
  ASSUME NEW d, Good(d), NEW b, NEW u, NEW c, c # b, canAccessBoard(d, u, c)
  PROVE  canAccessBoard(deleteBoards(d, {b}), u, c)
<1> DEFINE e == deleteBoards(d, {b})
<1>1. /\ e.users = d.users /\ e.wsMembers = d.wsMembers
      /\ e.boards = {r \in d.boards : r.id # b}
      /\ e.boardMembers = {m \in d.boardMembers : m.boardId # b}
  BY DEF Good, deleteBoards, dropBoardRows, dropBoardInvites, dropBoardMembers
<1> HIDE DEF e
<1>2. PICK r \in d.boards : r.id = c /\ (IsAdmin(d, u) \/ Granted(d, u, r))
  BY DEF canAccessBoard
<1>3. r \in e.boards /\ HasUser(e, u)
  BY <1>1, <1>2 DEF canAccessBoard, HasUser
<1>4. IsAdmin(d, u) => IsAdmin(e, u)
  BY <1>1 DEF IsAdmin
<1>5. Granted(d, u, r) => Granted(e, u, r)
  BY <1>1, <1>2 DEF Granted
<1> QED BY <1>2, <1>3, <1>4, <1>5 DEF canAccessBoard, e

LEMMA DeleteWorkspaceKeeps ==
  ASSUME NEW d, Good(d), NEW w, NEW u, NEW c, c \notin getBoardIdsForWorkspace(d, w),
         canAccessBoard(d, u, c)
  PROVE  canAccessBoard(deleteWorkspace(d, w), u, c)
<1> DEFINE B == getBoardIdsForWorkspace(d, w)
           e == deleteWorkspace(d, w)
<1>1. /\ e.users = d.users
      /\ e.wsMembers = {m \in d.wsMembers : m.workspaceId # w}
      /\ e.boards = {r \in d.boards : r.id \notin B}
      /\ e.boardMembers = {m \in d.boardMembers : m.boardId \notin B}
  <2> HIDE DEF B
  <2>1. e = dropWsRow(dropWsInvites(dropWsMembers(deleteBoards(d, B), w), w), w)
    BY DEF deleteWorkspace, B
  <2>2. /\ deleteBoards(d, B).users = d.users
        /\ deleteBoards(d, B).wsMembers = d.wsMembers
        /\ deleteBoards(d, B).boards = {r \in d.boards : r.id \notin B}
        /\ deleteBoards(d, B).boardMembers = {m \in d.boardMembers : m.boardId \notin B}
    BY DEF Good, deleteBoards, dropBoardRows, dropBoardInvites, dropBoardMembers
  <2>3. deleteBoards(d, B) \in Tables
    BY DeleteBoardsGood DEF Good
  <2> QED BY <2>1, <2>2, <2>3 DEF dropWsRow, dropWsInvites, dropWsMembers
<1>2. \A r \in d.boards : r.id \notin B => r.workspaceId # w
  BY DEF getBoardIdsForWorkspace
<1> HIDE DEF e, B
<1>3. PICK r \in d.boards : r.id = c /\ (IsAdmin(d, u) \/ Granted(d, u, r))
  BY DEF canAccessBoard
<1>4. r \in e.boards /\ HasUser(e, u) /\ r.workspaceId # w
  BY <1>1, <1>2, <1>3 DEF canAccessBoard, HasUser, B
<1>5. IsAdmin(d, u) => IsAdmin(e, u)
  BY <1>1 DEF IsAdmin
<1>6. Granted(d, u, r) => Granted(e, u, r)
  BY <1>1, <1>3, <1>4 DEF Granted
<1> QED BY <1>3, <1>4, <1>5, <1>6 DEF canAccessBoard, e

LEMMA RemovalsKeepOthers ==
  ASSUME NEW d, Good(d), NEW u, NEW v, v # u, NEW c, canAccessBoard(d, v, c)
  PROVE  /\ canAccessBoard(removeUser(d, u), v, c)
         /\ \A scope, id : canAccessBoard(removeMembership(d, u, scope, id), v, c)
<1>1. PICK r \in d.boards : r.id = c /\ (IsAdmin(d, v) \/ Granted(d, v, r))
  BY DEF canAccessBoard
<1>2. ASSUME NEW e, HasUser(d, v) => HasUser(e, v), IsAdmin(d, v) => IsAdmin(e, v),
             e.boards = d.boards,
             \A m \in d.wsMembers : m.userId = v => m \in e.wsMembers,
             \A m \in d.boardMembers : m.userId = v => m \in e.boardMembers
      PROVE  canAccessBoard(e, v, c)
  BY <1>1, <1>2 DEF canAccessBoard, Granted
<1>3. canAccessBoard(removeUser(d, u), v, c)
  <2> DEFINE e == removeUser(d, u)
  <2>1. /\ e.boards = d.boards
        /\ e.users = {x \in d.users : x.id # u}
        /\ e.wsMembers = {m \in d.wsMembers : m.userId # u}
        /\ e.boardMembers = {m \in d.boardMembers : m.userId # u}
    BY DEF Good, removeUser, dropUserRow, dropUserSessions, dropUserBoardMembers,
           dropUserWsMembers
  <2> HIDE DEF e
  <2>2. (HasUser(d, v) => HasUser(e, v)) /\ (IsAdmin(d, v) => IsAdmin(e, v))
    BY <2>1 DEF HasUser, IsAdmin
  <2>3. canAccessBoard(e, v, c)
    BY <1>2, <2>1, <2>2
  <2> QED BY <2>3 DEF e
<1>4. ASSUME NEW scope, NEW id PROVE canAccessBoard(removeMembership(d, u, scope, id), v, c)
  <2> DEFINE e == removeMembership(d, u, scope, id)
  <2>1. /\ e.boards = d.boards /\ e.users = d.users
        /\ \A m \in d.wsMembers : m.userId = v => m \in e.wsMembers
        /\ \A m \in d.boardMembers : m.userId = v => m \in e.boardMembers
    BY DEF Good, removeMembership
  <2> HIDE DEF e
  <2>2. (HasUser(d, v) => HasUser(e, v)) /\ (IsAdmin(d, v) => IsAdmin(e, v))
    BY <2>1 DEF HasUser, IsAdmin
  <2>3. canAccessBoard(e, v, c)
    BY <1>2, <2>1, <2>2
  <2> QED BY <2>3 DEF e
<1> QED BY <1>3, <1>4

-----------------------------------------------------------------------------
(* Live connections.                                                       *)

Live(P, d) == \A p \in P : canAccessBoard(d, p.userId, p.boardId)

LEMMA RevocationLive ==
  Good(db) /\ Live(participants, db) /\ Revocation => Live(participants', db')
<1> SUFFICES ASSUME Good(db), Live(participants, db), Revocation,
                    NEW p \in participants'
             PROVE  canAccessBoard(db', p.userId, p.boardId)
  BY DEF Live
<1>0. \A B, u : evictUser(B, u) \/ evictAll(B) =>
        /\ p \in participants
        /\ evictAll(B) => p.boardId \notin B
        /\ evictUser(B, u) => ~(p.boardId \in B /\ p.userId = u)
  BY DEF evictUser, evictAll, removeParticipants, OfUser, OnAny
<1>1. ASSUME NEW t, NEW b, EvictingDeleteBoard(t, b)
      PROVE  canAccessBoard(db', p.userId, p.boardId)
  BY <1>0, <1>1, DeleteBoardKeeps DEF EvictingDeleteBoard, DeleteBoard, Live
<1>2. ASSUME NEW t, NEW w, EvictingDeleteWorkspace(t, w)
      PROVE  canAccessBoard(db', p.userId, p.boardId)
  BY <1>0, <1>2, DeleteWorkspaceKeeps DEF EvictingDeleteWorkspace, DeleteWorkspace, Live
<1>3. ASSUME NEW t, NEW u, EvictingRemoveUser(t, u)
      PROVE  canAccessBoard(db', p.userId, p.boardId)
  <2>1. evictUser(getAccessibleBoardIds(db, u), u) /\ db' = removeUser(db, u)
    BY <1>3 DEF EvictingRemoveUser, RemoveUser
  <2>2. p \in participants /\ canAccessBoard(db, p.userId, p.boardId)
    BY <1>0, <2>1 DEF Live
  <2>3. p.userId # u
    BY <1>0, <2>1, <2>2, SameAccess
  <2> QED BY <2>1, <2>2, <2>3, RemovalsKeepOthers
<1>4. ASSUME NEW t, NEW u, NEW scope, NEW id, EvictingRemoveMember(t, u, scope, id)
      PROVE  canAccessBoard(db', p.userId, p.boardId)
  <2>1. evictUser(lostBoards(db, db', u), u) /\ db' = removeMembership(db, u, scope, id)
    BY <1>4 DEF EvictingRemoveMember, RemoveMember
  <2>2. p \in participants /\ canAccessBoard(db, p.userId, p.boardId)
    BY <1>0, <2>1 DEF Live
  <2>3. CASE p.userId # u
    BY <2>1, <2>2, <2>3, RemovalsKeepOthers
  <2>4. CASE p.userId = u
    BY <1>0, <2>1, <2>2, <2>4, SameAccess DEF lostBoards
  <2> QED BY <2>3, <2>4
<1> QED BY <1>1, <1>2, <1>3, <1>4 DEF Revocation

LEMMA SocketLive ==
  presenceTypeOK /\ socketStep =>
    \A q \in participants' : \E p \in participants : p.userId = q.userId /\ p.boardId = q.boardId
<1> SUFFICES ASSUME presenceTypeOK, socketStep, NEW q \in participants'
             PROVE  \E p \in participants : p.userId = q.userId /\ p.boardId = q.boardId
  OBVIOUS
<1>1. ASSUME NEW P, removeParticipants(P) PROVE q \in participants
  BY <1>1 DEF removeParticipants
<1>2. ASSUME NEW p \in participants, falls_quiet(p) \/ frame(p)
      PROVE  q \in participants \/ (p.userId = q.userId /\ p.boardId = q.boardId)
  BY <1>2, RequietTyped DEF falls_quiet, frame
<1> QED BY <1>1, <1>2 DEF socketStep, leave, sweep

LEMMA NextLive ==
  Good(db) /\ RoomsOK /\ Live(participants, db) /\ [ServerNext]_vars => Live(participants', db')
<1> SUFFICES ASSUME Good(db), RoomsOK, Live(participants, db), [ServerNext]_vars
             PROVE  Live(participants', db')
  OBVIOUS
<1>1. CASE UNCHANGED vars
  BY <1>1 DEF vars, dirVars, presenceVars, Live
<1>2. ASSUME NEW t, NEW b, Upgrade(t, b) PROVE Live(participants', db')
  <2>1. PICK u : canAccessBoard(db, u, b) /\ join(b, u)
    BY <1>2 DEF Upgrade
  <2>2. db' = db
    BY <1>2 DEF Upgrade, dirVars
  <2>3. \A q \in participants' : q \in participants \/ (q.userId = u /\ q.boardId = b)
    BY <2>1 DEF join
  <2>4. ASSUME NEW q \in participants' PROVE canAccessBoard(db, q.userId, q.boardId)
    BY <2>1, <2>3 DEF Live
  <2> QED BY <2>2, <2>4 DEF Live
<1>3. CASE QuietCall
  BY <1>3, QuietCallWidens, WidensAccess DEF QuietCall, presenceVars, Live
<1>4. CASE Revocation
  BY <1>4, RevocationLive
<1>5. CASE socketStep /\ UNCHANGED dirVars
  BY <1>5, SocketLive DEF RoomsOK, Live, dirVars
<1>6. CASE Restart
  BY <1>6 DEF Restart, restart, Live
<1> QED BY <1>1, <1>2, <1>3, <1>4, <1>5, <1>6 DEF ServerNext

LEMMA RevocationEvicts ==
  Good(db) /\ Revocation =>
    \A p \in participants \ participants' : ~canAccessBoard(db', p.userId, p.boardId)
<1> SUFFICES ASSUME Good(db), Revocation, NEW p \in participants, p \notin participants'
             PROVE  ~canAccessBoard(db', p.userId, p.boardId)
  OBVIOUS
<1>0. \A B, u : /\ evictAll(B) => p.boardId \in B
                /\ evictUser(B, u) => p.boardId \in B /\ p.userId = u
  BY DEF evictUser, evictAll, removeParticipants, OfUser, OnAny
<1>1. ASSUME NEW t, NEW b, EvictingDeleteBoard(t, b)
      PROVE  ~canAccessBoard(db', p.userId, p.boardId)
  <2>1. p.boardId = b /\ db' = deleteBoards(db, {b})
    BY <1>0, <1>1 DEF EvictingDeleteBoard, DeleteBoard
  <2>2. \A r \in deleteBoards(db, {b}).boards : r.id # b
    BY DEF Good, deleteBoards, dropBoardRows, dropBoardInvites, dropBoardMembers
  <2> QED BY <2>1, <2>2 DEF canAccessBoard
<1>2. ASSUME NEW t, NEW w, EvictingDeleteWorkspace(t, w)
      PROVE  ~canAccessBoard(db', p.userId, p.boardId)
  <2> DEFINE B == getBoardIdsForWorkspace(db, w)
  <2>1. p.boardId \in B /\ db' = deleteWorkspace(db, w)
    BY <1>0, <1>2 DEF EvictingDeleteWorkspace, DeleteWorkspace
  <2> HIDE DEF B
  <2>2. \A r \in deleteBoards(db, B).boards : r.id \notin B
    BY DEF Good, deleteBoards, dropBoardRows, dropBoardInvites, dropBoardMembers
  <2>4. deleteBoards(db, B) \in Tables
    BY DeleteBoardsGood DEF Good
  <2>3. db'.boards = deleteBoards(db, B).boards
    BY <2>1, <2>4 DEF deleteWorkspace, dropWsRow, dropWsInvites, dropWsMembers, B
  <2> QED BY <2>1, <2>2, <2>3 DEF canAccessBoard
<1>3. ASSUME NEW t, NEW u, EvictingRemoveUser(t, u)
      PROVE  ~canAccessBoard(db', p.userId, p.boardId)
  <2>1. p.userId = u /\ db' = removeUser(db, u)
    BY <1>0, <1>3 DEF EvictingRemoveUser, RemoveUser
  <2>2. ~HasUser(removeUser(db, u), u)
    BY DEF Good, HasUser, removeUser, dropUserRow, dropUserSessions, dropUserBoardMembers,
           dropUserWsMembers
  <2> QED BY <2>1, <2>2 DEF canAccessBoard
<1>4. ASSUME NEW t, NEW u, NEW scope, NEW id, EvictingRemoveMember(t, u, scope, id)
      PROVE  ~canAccessBoard(db', p.userId, p.boardId)
  BY <1>0, <1>4, SameAccess DEF EvictingRemoveMember, lostBoards
<1> QED BY <1>1, <1>2, <1>3, <1>4 DEF Revocation

-----------------------------------------------------------------------------
(* Theorems.                                                               *)

ServerInv == Good(db) /\ RoomsOK /\ Live(participants, db)

LEMMA ServerInvariant == ServerSpec => []ServerInv
<1>1. ServerInit => ServerInv
  <2> SUFFICES ASSUME ServerInit PROVE ServerInv
    OBVIOUS
  <2>1. Good(db)
    BY InitGood DEF ServerInit
  <2>2. participants = {} /\ rooms = {} /\ joined = {}
    BY DEF ServerInit, presenceInit
  <2>3. RoomsOK
    BY <2>2 DEF RoomsOK, presenceTypeOK, RoomIffOccupied
  <2>4. Live(participants, db)
    BY <2>2 DEF Live
  <2> QED BY <2>1, <2>3, <2>4 DEF ServerInv
<1>2. ServerInv /\ [ServerNext]_vars => ServerInv'
  <2> SUFFICES ASSUME ServerInv, [ServerNext]_vars PROVE ServerInv'
    OBVIOUS
  <2>1. Good(db') /\ RoomsOK' /\ Live(participants', db')
    BY StepIsDirectoryStep, NextGood, NextRooms, NextLive DEF ServerInv
  <2>2. (Good(db))' <=> Good(db')
    BY DEF Good, Integrity, HasUser, BoardIds
  <2>3. (Live(participants, db))' <=> Live(participants', db')
    BY DEF Live, canAccessBoard, HasUser, IsAdmin, Granted
  <2> QED BY <2>1, <2>2, <2>3 DEF ServerInv
<1> QED BY <1>1, <1>2, PTL DEF ServerSpec

\* Whoever is live on a board may open it, in every reachable state of the
\* whole server (directory.ts:251-323, room.ts:222-243, index.ts:72-84).
THEOREM LiveMeansAllowed == ServerSpec => []LiveAccess
<1>1. ServerInv => LiveAccess
  BY DEF ServerInv, Live, LiveAccess
<1> QED BY <1>1, ServerInvariant, PTL

\* The registry holds a room for exactly the boards someone is on, under the
\* joins, evictions, sweeps and restarts of the whole server (registry.ts:21-38).
THEOREM NoRoomLeaks == ServerSpec => []RoomIffOccupied
<1>1. ServerInv => RoomIffOccupied
  BY DEF ServerInv, RoomsOK
<1> QED BY <1>1, ServerInvariant, PTL

\* A revocation ends no connection whose user may still open the board
\* (storage.ts:421-446, directory.ts:300-323).
THEOREM EvictionIsExact == ServerSpec => NoOverEviction
<1>1. ServerInv /\ [ServerNext]_vars =>
        [Revocation => \A p \in participants \ participants' :
                         ~canAccessBoard(db', p.userId, p.boardId)]_vars
  BY RevocationEvicts DEF ServerInv
<1> QED BY <1>1, ServerInvariant, PTL DEF ServerSpec, NoOverEviction

\* Types of the whole server's state, and no id or token in use that was not
\* handed out, for any number of people, boards and connections.
THEOREM ServerTypes == ServerSpec => []ServerTypeOK
<1>1. ServerInit => DirInv
  BY InitDirInv DEF ServerInit
<1>2. DirInv /\ [ServerNext]_vars => DirInv'
  BY StepIsDirectoryStep, NextDirInv
<1>3. DirInv /\ ServerInv => ServerTypeOK
  BY DEF DirInv, ServerInv, RoomsOK, ServerTypeOK
<1> QED BY <1>1, <1>2, <1>3, ServerInvariant, PTL DEF ServerSpec
=============================================================================
