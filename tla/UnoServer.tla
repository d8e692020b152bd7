------------------------------ MODULE UnoServer ------------------------------
(***************************************************************************)
(* The UnoCode server process: the directory, which decides who may open a *)
(* board, and the presence rooms, which hold the live connections.  The    *)
(* upgrade handler of index.ts asks the directory before a connection      *)
(* joins a room; the directory's removals and deletions end the            *)
(* connections that lose their board (directory.ts:251-323).               *)
(*                                                                         *)
(* The upgrade handler awaits authorizeBoard, which answers in the same    *)
(* turn of the event loop: nothing else runs between the answer and the    *)
(* join, so Upgrade is one action.                                         *)
(***************************************************************************)
EXTENDS UnoDirectory, PresenceRegistry

vars == <<dirVars, presenceVars>>

\* authorizeBoard, then handleUpgrade and presence.join; a refused upgrade is
\* answered with 404 and leaves no trace.
Upgrade(t, b) ==
  /\ \E u \in UserId : /\ SignedIn(db, t, u)
                       /\ canAccessBoard(db, u, b)
                       /\ join(b, u)
  /\ UNCHANGED dirVars

EvictingDeleteBoard(t, b) == DeleteBoard(t, b) /\ evictAll({b})

\* Mutant: the boards are looked up when they are already gone.
EvictingDeleteWorkspaceLate(t, w) ==
  DeleteWorkspace(t, w) /\ evictAll(getBoardIdsForWorkspace(db', w))

\* The board ids are collected before the rows are deleted.
EvictingDeleteWorkspace(t, w) ==
  DeleteWorkspace(t, w) /\ evictAll(getBoardIdsForWorkspace(db, w))

\* Mutant: the person is dropped from every board.
EvictingRemoveMemberEverywhere(t, u, scope, id) ==
  /\ RemoveMember(t, u, scope, id)
  /\ evictUser(getAccessibleBoardIds(db, u), u)

EvictingRemoveMember(t, u, scope, id) ==
  /\ RemoveMember(t, u, scope, id)
  /\ evictUser(lostBoards(db, db', u), u)

EvictingRemoveUser(t, u) ==
  RemoveUser(t, u) /\ evictUser(getAccessibleBoardIds(db, u), u)

\* The directory calls that touch no live connection.
QuietCall ==
  /\ \/ SignInAdmin \/ DenyAdmin \/ LockExpires
     \/ \E i \in db.invites, e \in Email : AcceptInvite(i, e)
     \/ \E s \in db.sessions : SessionExpires(s) \/ touchSession(s)
     \/ \E t \in SessionToken :
          \/ SignOut(t)
          \/ CreateWorkspace(t)
          \/ \E w \in WorkspaceId : CreateBoard(t, w)
          \/ \E scope \in Scope, id \in WorkspaceId \cup BoardId : CreateInvite(t, scope, id)
          \/ \E i \in InviteToken : RevokeInvite(t, i)
  /\ UNCHANGED presenceVars

Revocation ==
  \E t \in SessionToken :
    \/ \E b \in BoardId : EvictingDeleteBoard(t, b)
    \/ \E w \in WorkspaceId : EvictingDeleteWorkspace(t, w)
    \/ \E u \in UserId : EvictingRemoveUser(t, u)
    \/ \E u \in UserId, scope \in Scope, id \in WorkspaceId \cup BoardId :
         EvictingRemoveMember(t, u, scope, id)

Restart == Crash /\ restart

ServerInit == Init /\ presenceInit

ServerNext ==
  \/ \E t \in SessionToken, b \in BoardId : Upgrade(t, b)
  \/ QuietCall
  \/ Revocation
  \/ socketStep /\ UNCHANGED dirVars
  \/ Restart

ServerSpec == ServerInit /\ [][ServerNext]_vars

-----------------------------------------------------------------------------
(* Properties.                                                             *)

ServerTypeOK == TypeOK /\ presenceTypeOK

\* Everyone live on a board may open that board now: whichever way access was
\* taken away - a membership, the person, the board or its workspace - the
\* call that took it away also ended the connections (directory.ts:295-323,
\* room.ts:222-243), and a crash between two statements leaves no connection.
LiveAccess ==
  \A p \in participants : canAccessBoard(db, p.userId, p.boardId)

\* A removal ends only the connections that lost their board: someone taken
\* out of a workspace stays on a board they were also invited to directly, and
\* nobody else on the board is dropped (storage.ts:421-446, room.ts:230-236).
NoOverEviction ==
  [][Revocation => \A p \in participants \ participants' :
                     ~canAccessBoard(db', p.userId, p.boardId)]_vars
=============================================================================
