# UnoCode in TLA+

A verification project for UnoCode, the self-hosted whiteboard in this
repository: a tldraw fork (`packages/*`) with its own server
(`apps/dotcom/server`) and browser client (`apps/dotcom/client`). The modules
here are translated from the source; every definition that stands for code
names its lines in `PROJECT.json` (`map`).

Contents

1. [The system](#1-the-system)
2. [The modules](#2-the-modules)
3. [What the runs check](#3-what-the-runs-check)
4. [Where the code and its own words disagree](#4-where-the-code-and-its-own-words-disagree)
5. [Bounds and fairness](#5-bounds-and-fairness)
6. [What is proved](#6-what-is-proved)
7. [What is only model-checked, and what is not modelled](#7-what-is-only-model-checked-and-what-is-not-modelled)
8. [Plan](#8-plan)
9. [Running it](#9-running-it)

## 1. The system

UnoCode keeps board *contents* in each browser (IndexedDB) and keeps on its
server only a *directory* (who may open which board) and *presence* (who is on a
board now, with cursors and voice signals). The packages also carry a complete
multi-user sync engine (`packages/sync-core`), used by `packages/sync`.

| Component | State | Operations | Hard behaviours |
|---|---|---|---|
| Board directory (`server/src/directory`) | SQLite tables of users, workspaces, boards, memberships, invites and sessions; the admin lockout counter in memory | sign-in, join by invite, create, delete, invite, revoke, remove member, remove user | several autocommitted statements a call, no foreign keys: a crash in the middle; three separately written access queries |
| Presence rooms (`server/src/presence`) | a registry of rooms, a map of participants in each, token buckets, roster and sweep timers | join, frames, signal, leave, evict, sweep | rooms that empty while someone joins; eviction racing reconnects; capacity; timers |
| Uno server (`server/src/index.ts`) | the two above | websocket upgrade, HTTP calls, shutdown | authorise, then join; delete rows, then evict; restarts |
| Sync storage (`sync-core` In-Memory / SQLite) | documents with clocks, tombstones, document clock, start of the tombstone history | transaction, getChangesSince, prune, load a snapshot | an incomplete feed after pruning or reloading resurrects deleted records |
| Sync client (`TLSyncClient.ts`) | speculative changes, unsent and unanswered pushes, clocks | edit, push, rebase, connect, reset | optimism against late answers; frames; reconnects |
| Sync room (`TLSyncRoom.ts`) | sessions, last broadcast clock | connect, push, patch, prune, close | storage changed by the host; tombstones that run out under connected clients |
| Sync sessions (`TLSocketRoom.ts`, `RoomSession.ts`) | session states, debounce queues, timeouts, snapshots | open, message, close, hibernate, resume | session ids reused over sockets; timers and late messages |
| Websocket adapter (`ClientWebSocketAdapter.ts`) | socket, status, reconnect state | restart, connect, hints | orphaned sockets, backoff, online/offline hints |
| Chunk assembler (`chunk.ts`) | a partial message | add a chunk | chunks of two messages |
| Record store (`packages/store`) | atoms for records, the history accumulator | put, remove, merge remote changes, undo | listeners hear of edits a frame late; side effects |
| Signals (`packages/state`) | atoms, transactions, effect schedules | set, transact, roll back | nested transactions, effects during effects |
| Local persistence (`TLLocalSyncClient`, `LocalIndexedDb`) | an IndexedDB database, diff queues of tabs, a broadcast channel | throttled persist, message, reload | tabs with different schemas, failing writes, closing in the middle |
| Undo and redo (`HistoryManager`) | stacks with marks, pending diff | record, mark, undo, redo, bail, squash | marks inside pending diffs |
| Browser directory client (`tla/utils/unoDirectory.ts`) | token, cached directory | load, prune | answers out of order prune boards |
| Browser presence and voice (`TlaBoardSessionProvider.tsx`, `utils/voice`) | presence socket, WebRTC peers | reconnect, negotiate | glare, half-torn-down peers |

Interactions. A browser asks the directory by HTTP and opens one websocket per
board; the upgrade handler asks the directory (`authorizeBoard`) before the
registry's `join`; removals and deletions in the directory call back into the
registry (`evictUser`, `evictAll`). Everything on the server runs on one event
loop. In the sync engine, client and room exchange connect, push, patch and
push_result messages over one ordered socket; the room writes through a
transaction of the storage, and the storage tells the room, in a microtask, of
changes the host made on its own.

What makes each correct:

* directory: no dangling rows whatever was interrupted, one row a person, access
  comes only from an invite, the access queries agree, there is always an admin;
* presence: a room exists exactly while it is occupied and never overflows, everyone
  in it comes to see who else is, and nobody stays behind a dead socket;
* server: whoever is live on a board may open it, and nobody else is thrown off;
* storage: from any clock it still serves, the feed leads to the present;
* sync: optimistic changes can always be undone to the server's state, every
  push is answered once and in order, nothing a user did is orphaned, and when
  everything is quiet everyone shows what is stored;
* sessions: nothing waits for a timer that is not set, and what a client was told of
  the others is what the room holds, whatever sockets replace each other;
* websocket adapter: one live socket at most, attempts that keep their distance, and
  always something that leads to the next one;
* local persistence: an edit is on disk or on its way there, tabs of one release show
  the same;
* undo and redo: going back to a mark gives the document of the mark, whatever others did;
* browser directory client: a board's contents are deleted only when the board is gone.

`PROJECT.json` lists every component, also those not modelled, and the hazards of
the code at their lines, with the properties that watch them.

## 2. The modules

| Module | Models | Extends |
|---|---|---|
| `UnoIds` | ids shared by directory and presence | |
| `UnoDirectory` | `directory/storage.ts`, `directory/directory.ts` | `UnoIds` |
| `PresenceRegistry` | `presence/registry.ts`, the membership side of `presence/room.ts` | `UnoIds` |
| `PresenceRoom` | all of `presence/room.ts` and `presence/registry.ts`: room objects, timers, sockets, rosters; implements `PresenceRegistry` | `UnoIds` |
| `UnoServer` | `index.ts`: directory and registry together | `UnoDirectory`, `PresenceRegistry` |
| `SyncStorage` | `InMemorySyncStorage.ts`, `SQLiteSyncStorage.ts` | |
| `SyncProtocol` | `TLSyncClient.ts`, `TLSyncRoom.ts` and the network between | `SyncStorage` |
| `RoomSessions` | the sessions of `TLSyncRoom.ts` and `TLSocketRoom.ts`: states, timers, debounced sends, presence | |
| `ReconnectManager` | `ClientWebSocketAdapter.ts`, and `TLSyncClient`'s handshake as far as it decides when it is in its room | |
| `LocalSync` | `TLLocalSyncClient.ts`, `LocalIndexedDb.ts`: the tabs of one browser and their database | |
| `HistoryManager` | `HistoryManager.ts` over the diffs of `RecordsDiff.ts` | |
| `UnoBrowser` | `tla/utils/unoDirectory.ts` and the server's directory as one page sees it | |
| `UnoServerProofs`, `PresenceRoomProofs`, `SyncProtocolProofs`, `RoomSessionsProofs`, `ReconnectManagerProofs`, `LocalSyncProofs`, `HistoryManagerProofs` | the proofs; those about the directory are in `UnoServerProofs`, those about the storage in `SyncProtocolProofs` | the module they are about |
| `FoldProofs` | lemmas on folds over sets and sequences, about no module in particular | |
| `MC*` | constants for TLC | the module they check |

**UnoDirectory.** `db` is a record of the six kinds of rows (the seven tables:
`_meta` is dropped, memberships are two). Each operator of the *Statements*
section is one SQL statement as a function from tables to tables, and the delete
helpers compose them in the code's order; each service call is one action,
because a call never yields between its statements. `Crash` replaces `db` by any
state a call could leave half-way (`PartialCommit` enumerates the prefixes of
every call with more than one statement), and resets the lockout counter, which
is memory. Ids are random tokens: `minted` remembers those handed out, and a new
one is never among them. Names, emails other than their identity, dates and
accepted counts are left out; renames and listings therefore too.

**PresenceRegistry.** `participants` is the union of every room's map, `rooms`
the registry's keys. `removeParticipants(P)` is `removeParticipant` for each of
`P`, with the room's `onEmpty`, which deletes the room from the registry. `quiet`
stands for "`lastSeen` is older than the timeout".

**PresenceRoom.** The same in detail. A room is an object: `home[r]` is the board it
was made for, `registry[b]` the object a board has now, and an object the registry
has let go stays around, because its roster timer and the listeners of sockets
that are being closed still hold it, while a new one of the same board may be
open. A socket is open, dead (it will never send a close frame), closing (the
server closed it; frames and the close event still come) or closed.
`handleMessage` is a frame within the budget, `tooManyMessages` one over it,
`ignoreMessage` a binary or oversized one, which costs nothing; `refill` gives one
token back. What a roster shows of a participant is one flag, `isMicOn`, in place
of name and colour and `isSpeaking`, and `view[c]` is the last roster `c` was sent. A
signal changes nothing the server keeps, so it is one of the frames that leave
everything as it was. `guest` maps a participant to the registry's, and
`ImplementsRegistry` is `PresenceRegistry`'s specification under that mapping.

**UnoServer.** `Upgrade` is authorise and join in one action: the awaited
`authorizeBoard` has no real suspension inside, and its continuation runs before
the event loop takes another event. The revoking calls are the directory's action
conjoined with the eviction, whose boards are computed from the tables before (or
before and after) as in the code. `Restart` is a crash that also empties the
rooms; the graceful shutdown is one with nothing half done.

**SyncStorage.** One map stands for documents and objects, which share clock and
tombstones. `transaction(puts, deletes)` writes under one new clock.
`pruneTombstones` and `reload` allow what either implementation does where they
differ. `history` is a ghost: what was stored at each clock.

**SyncProtocol.** A record is a function from `Prop` to `Val`, so a patch can
touch one property. Diffs are kept exactly as `RecordsDiff` keeps them: for each
id an entry of `added`, `updated` and `removed`, squashed as
`squashRecordDiffsMutable` squashes, undone as `reverseRecordsDiff` undoes, sent as
`getNetworkDiff` sends. The client is a record `tab[c]`, and operators named after
the client's methods take a tab to a tab. Where the code waits for a frame, so
does the model: `Edit` leaves its report in `unflushed` if `setup.editsLag`,
`FlushHistory` is the history reactor's frame and `Flush(c, n)` the network
scheduler's, which sends and rebases on the `n` messages arrived, in either order
(the scheduler's queue holds the two functions in the order they were first asked
for). The room's handlers are `handleConnect`, `handlePush`, `handleClose`;
`broadcast` gives every session first the news of what the host changed, then its
own messages, as `broadcastChanges` does. The session's debounce queue, the socket
and `incomingDiffBuffer` are one FIFO `s2c[c]`, of which the last `outstanding[c]`
messages are still in the queue: a tab can read what is before them (`onWire`),
`FlushDataMessages` is the `debounceTimer`, and a first message that finds no timer
running is sent at once. Presence patches, which are left out, start that timer too,
so with nothing queued it may be running or not (`timers`). `late[c]` is what the
server has yet to read from sockets the tab has replaced: with `setup.overlap` such a
socket speaks to the tab's new session, as `TLSocketRoom` lets it (the listeners of a
replaced socket stay subscribed and carry the session id). A late *connect* request
makes `handleConnect` put a new session object in place of a connected one and so
drops what that had queued (`TLSyncRoom.ts:1095-1110`). Two ghosts follow this:
`cheated` has the tabs whose room dropped messages they still needed, until the
socket is lost; `misled` those of them that have read on, so that `lastServerClock` is
past what they missed, until a wipe. Without `overlap` no connected session is ever
replaced, so nothing can be dropped, a queue that waits is no different from a socket
that is slow, and `outstanding` stays 0 to save states.

`Init` picks a `setup` from the constant `Setups`, which stays as it is: whether
everyone is connected already (`WarmInit`, which is where `ColdInit` leads) or has
never been (`ColdInit`), whether edits are reported a frame late, whether replaced
sockets go on speaking, whether an edit sets all properties of a record or one,
whether the storage prunes, and how many edits, drops, host transactions and connects
there may be. One run can so cover several instances, each with its states spent on
what it is about.

**RoomSessions.** One record `room` is the room: a session for each tab, the entries
`TLSocketRoom` listens for, the timers of session objects that were replaced, the
presences, and what each socket's client was told of them. Handlers are operators
from a room to a room in the code's order of calls (`pruneSession` in any order of
the sessions and with any of them past its timeout; `broadcastPatch` to everyone;
`removeSession` with its listener), and an action ends its *turn*: what the call has
closed then starts to close. The throttle of `pruneSessions` is lodash's, with its
leading and trailing calls. A tab keeps its session id, so `Receives(s)` gives a
message of any of its sockets to the one session, as the subscribed listeners do.

**ReconnectManager.** `manager` is the manager's state, delay and two timers; a tick
is 500 ms, the shortest delay. The adapter's handlers are `handleConnect`,
`handleDisconnect`, `closeSocket`; `disconnected` and `maybeReconnected` are the
manager's own. `readyState` tells CLOSING from CLOSED-with-`onclose`-to-come, because
the late events of an orphaned socket are what the assertions of the code are about.
Of `TLSyncClient` it has what decides whether it sends a connect message and believes
to be in its room.

**LocalSync.** A tab is one record; `heard`, `persistIfNeeded`, `flushAndDispose`,
`persisted` and `failed` take it from one state to the next, and the database is a
queue of transactions, each of them whole or not at all, the one in flight included.
Records hold the number of the edit that wrote them. A killed tab leaves a write
behind that lands or does not. Pages carry the release they were loaded from; a newer
one makes older ones reload and overwrites them.

**HistoryManager.** The manager's stacks are sequences of stops and diffs; a diff
keeps `added`, `updated` and `removed` of each record as `RecordsDiff` does, is
squashed, reversed and applied as there, and the pending diff carries the flag
`isEmpty` that the code keeps beside it. Peers, batches that are not recorded and
batches that keep the redo stack change the same store; records in `Own` see recorded
changes only, and of them undo and redo must be exact. A batch is opened and closed in
separate actions, so that anything the code allows can happen inside one.

**UnoBrowser.** A call is sent, handled by the server and applied when its answer
arrives, in three separate actions; several are under way at a time. Applying an
answer is `applyDirectory` with `pruneRevokedBoards`, whatever the page has done since
it made the call: the code does not look.

## 3. What the runs check

| Run | Question |
|---|---|
| `server` | With crashes between any two statements, do the tables stay consistent, do the access queries agree, can anyone get in but by an invite, does the admin stay? May everyone live on a board open it, at every moment; does a removal end only the connections that lost their board? |
| `presence_room` | With timers, tokens, closing sockets and a successor room beside an old one: is a stale roster always followed by another, are the occupied rooms the registered ones, is every step one of the registry's, does everyone come to see who is there, is whoever sits behind a dead socket dropped? |
| `storage` | Is the change feed complete from every clock, after deletes, recreations, prunes and reloads? |
| `sync_editing` | Two tabs editing property by property, the host writing, the storage pruning, a socket dropping; or tabs that connect for the first time over sockets that outlive their replacement; or edits that are reported a frame late: can optimistic changes be undone, are they queued, is an idle client right, is every push of a living connection answered once and in order? |
| `sync_converges` | Once editing and trouble stop, does every tab come to show what is stored? |
| `sessions` | Tabs that come back with the same session id while their old socket still speaks, are thrown out, pruned and forced to reconnect: does anything wait for a timer that is not set, is everyone shown exactly the presences there are, do presences belong to sessions? |
| `connection` | One tab, failing sockets, hints of the browser, slow answers: do the adapter's assertions hold, does something always lead to the next attempt, do attempts keep their distance, does the tab come back into its room? |
| `local_sync` | Two tabs, failing writes, closing, killed and outdated pages: is every edit stored or on its way, do the tabs show the same, does the disk catch up? |
| `history` | Undo, redo, marks, bail-outs, squashes and batches in any order, and others' changes: does a mark give back its document, and redoing everything the one of before? |
| `sync_taken_back`, `sync_unflushed`, `browser` | Counterexamples: see the next section. |

The properties, in short (each is stated in full where it is defined):

* `ReferentialIntegrity`, `AccessQueriesAgree`, `OneRowPerPerson` (invariants),
  `AccessOnlyByInvite`, `AdminStays` (action properties): the directory.
* `RoomIffOccupied`: presence. `LiveRoomsAreRegistered`: occupied room
  objects and registered ones are the same, one per board, sweeper running.
  `StaleMeansScheduled`, and its liveness form `RostersSettle`; `GhostsAreSwept`;
  `ImplementsRegistry`, the refinement.
* `LiveAccess` (invariant), `NoOverEviction` (action property): the server.
* `ChangeFeedComplete`: the storage.
* `SpeculativeUndone`: undoing a tab's speculative changes gives what was stored at
  the clock the tab last heard of. `OptimisticMeansQueued`: what a connected tab
  shows ahead of the server is in a push that waits for its answer or in the next
  one (or it waits for another answer, see below). `PushesAnswered`: of the pushes
  that wait, the last are those the server has yet to read, and each of the others has
  exactly one result under way, in the same order. `IdleMeansSynced`: a connected tab with nothing
  to send or receive shows what is stored. All but for what a late connect request
  makes the room drop, see below. `Converges`: the liveness form.
* `NothingStranded`: a session that waits for its removal has a prune coming and queued
  messages a flush, through every way the three timers clear each other.
  `PresenceMirrored`: a client was told, or is about to be told, exactly the presences
  there are. `PresenceBelongs`: nobody's cursor stays behind. `SpeakersAreHeard`: a
  removal never takes the entry of a session that has the same id.
* `OneLiveSocket` (the adapter's assertions), `NeverStuck`, `AttemptsSpaced` (action
  property), `EventuallyInRoom` (liveness).
* `EditsAccountedFor`: an edit is stored, in a write, in a queue or in the changes yet to
  be reported. `TabsAgree`. `DiskCatchesUp` (liveness).
* `MarksRemember`, `RedosReachTip`, and in `HistoryManager`'s `TypeOK` that the flag
  beside the pending diff is right.
* `DeletesOnlyWhatIsGone` (action property): the browser.

Each property of each passing run has a mutant of a mapped definition (next to it,
marked *Mutant*) under which the run finds it violated.

Deadlock checking is off in the sync runs, `sessions`, `local_sync` and `browser`:
edits, drops, sockets and calls are bounded there, so a run comes to rest.

Some properties leave out what the code gives up knowingly or cannot help, and say so
where they are defined; a ghost variable marks each:

* `NeverStuck`, `EventuallyInRoom`: a `getUri()` that rejects (`rejected`). Nothing handles
  the rejection, and the tab waits for a hint of the browser, though the class promises
  automatic reconnection (`ClientWebSocketAdapter.ts:45-49`).
* `PresenceMirrored`: a connect message of a replaced socket that arrives while the new
  one's session is connected replaces the session object and drops its queue (`cheated`).
* `SpeculativeUndone` (`misled`), `PushesAnswered` (`cheated`), `IdleMeansSynced` (both):
  the same drop, where it takes patches and push results; see the next section.
  `OnlyLateRequestsCheat` is proved: nothing else ever makes a tab one of the `cheated`.
* `PresenceBelongs`: `handlePushRequest` stores a presence although the broadcast it
  began with has thrown the session out (`orphans`).
* `EditsAccountedFor`, `TabsAgree`, `DiskCatchesUp` (`lost`): a broadcast missed while the
  page loads (`Missed`); an edit in a page that a newer release is about to replace, and
  what is on its way to the newer page when that overwrites the older one; and what a
  page had to write or was writing when it was unloaded, killed, told to reload for a
  newer one, or saw the last write it will make fail, unless it gets stored all the same
  (`GivenUp`).
* `OptimisticMeansQueued`: a record may be shown ahead of the server and be in no push
  while another push of the tab waits: an edit that is taken back, overtaken by the
  server and made again cancels out in `nextDiff` and not in `speculativeChanges`.
* `MarksRemember`, `RedosReachTip`, and the part of `TypeOK` about what one diff says of
  one record: a bail-out below what the redo stack starts from leaves
  that stack, so that a later redo starts from a document that is gone (`forked`).

## 4. Where the code and its own words disagree

**An edit taken back before it was sent swallows a later one**
(`sync_taken_back`, `AllStoresTheSame`). `sendUnsentChanges` returns early when
`unsentChanges.nextDiff` nets to no network change, and leaves it there
(`TLSyncClient.ts:531-533`). `rebase` re-applies it but never rebases it. So after
A→B→A within one frame the tab keeps `from = A`; when another tab's C arrives and
the user sets the record back to A, the squashed diff says A→A again and nothing
is sent. The tab shows A, everyone else C, and nothing is left to do.
`syncFuzz.test.ts:218-248` brings all clients online, flushes all messages and
states "all stores should be the same"; its frames are synchronous, so it does
not meet this. `Converges` exempts a tab that holds such a leftover, and
`IdleMeansSynced` speaks of tabs without one.

**A reconnect that overtakes an edit** (`sync_unflushed`, `SpeculativeUndone`).
`didReconnect` stashes the speculative changes without flushing the store's
history first; `rebase` does flush (line 961). An edit still unreported then joins
the speculative changes with the record as it was *before* the reconnect, so
reversing them no longer gives the server's state, which the comment at
`TLSyncClient.ts:389-393` promises, and the next rebase undoes another tab's
change.

**A late connect request drops a queue.** This one is disclosed and has no run of its
own: `sync_editing` meets it in its setup with overlapping sockets, and the ghosts take
it out of the properties. A tab's first socket is lost with the connect request on its
way; the second connects, and the session has patches or a push result in its debounce
queue when the room reads the first request. `connect` replaces the session object
(`TLSyncRoom.ts:1095-1110`) with an empty queue, the reply carries an old request id
and the client ignores it (`TLSyncClient.ts:739`). The push is then not answered on this
socket; or the next patch moves `lastServerClock` past the patch that was dropped, and
the tab never asks for that again, however often it reconnects: it lasts until the
record changes again, or a wipe. Take `misled` out of `SpeculativeUndone` and TLC shows
it in 18 states: the tab's speculative changes no longer undo to the server's state at the clock it believes in
(`TLSyncClient.ts:389-393` again). Patches of presence, left out here, carry the room's
clock too (`TLSyncRoom.ts:658`), so they can mislead a cheated tab as well.

**An older answer deletes a new board** (`browser`, `DeletesOnlyWhatIsGone`).
`applyDirectory` takes whichever answer arrives, and `pruneRevokedBoards` deletes the
local contents of every known board the answer does not list. A board is deleted and
another made; the server handles both in that order; the answer to the second comes
first, and the new board is drawn on; then the answer to the first, which was made
before the new board existed, deletes its contents. The contents exist nowhere else.
The comment at `unoDirectory.ts:124` speaks of "boards this browser can no longer
open".

The first two need frames, which is why they are separate runs. For the
same reason `OptimisticMeansQueued` and `IdleMeansSynced` speak of setups without
lagging edits only: with them a rebase's own flush leaves a
`nextDiff` whose `from` is stale by the time it is sent, the first disagreement
again.

## 5. Bounds and fairness

* `server`: 2 users, 1 workspace, 2 boards, 2 invites (one for the workspace and
  one for a board, so that access overlaps), 2 sessions, 2 connections, 2 addresses,
  lockout after 1. Two boards are needed to lose one and keep the other. Tokens run
  out, and with them the histories; ids are symmetric. 227,410 states.
* `presence_room`: 1 board, 2 room objects, 2 connections of 2 users, rooms of 2, a
  burst of 1, one frame that changes a roster: a room can be emptied with late
  frames to come and reopened as another object. With two connections and rooms
  of two nobody is ever turned away: a third connection made the run too long for its
  liveness properties, and rooms of one would have no rosters to settle. The limit is
  in `Implements`, which is proved for any number of both. No symmetry, which is unsound for
  liveness. A connection joins once, so coming and going ends, as `RostersSettle`
  requires.
* `storage`: 3 records, 2 values, clocks up to 3, at most 1 tombstone kept, so
  that prunes come with two or three tombstones, of one clock and of several, and
  leave some or none.
* sync runs: 2 tabs, 1 record, 1 or 2 properties, 2 values, up to 4 edits, 1 drop,
  1 host transaction (see the setups in `MCSyncProtocol`). `sync_editing` has 1,420,230
  states: 673,858 connected and edited property by property, 549,020 with overlapping
  sockets, where tabs are cheated, misled and left idle and unsynced, and 197,352 with
  lagging edits. (That a wipe cures a misled tab is past these bounds; the proof of
  `SpeculationCanBeUndone` covers it.) One record suffices for the
  client because every operator
  works id by id; two properties are there so that concurrent patches merge.
  `MAX_TOMBSTONES = 0` lets every deletion be pruned away, so tombstones do run out
  under connected clients. `MaxClock` is out of reach of the bounded edits.
  `connects` bounds the sockets of a tab; it is above what the drops
  can cause in `sync_converges`.
* `sessions`: 2 tabs, 3 sockets, 2 pushes, 1 message in flight a socket, 1 trouble,
  pruning also by the clock; tabs are symmetric. Three sockets give one tab a replaced
  socket and its successor beside another tab's. 3,053,243 states.
* `connection`: 2 socket objects (a socket done is taken again), delays of 1 to 4 and 2
  to 5 ticks, a timeout of 2, three troubles. 170,249 states.
* `local_sync`: 2 tabs, 1 record, 2 edits, 2 opens, 1 trouble: enough for an edit on
  each side of a failing write, and for a page and its successor. 372,622 states.
* `history`: a record only recorded changes touch and one that others touch too, 2
  values beside absence, 3 changes, 2 marks, 1 batch. 2,770,054 states.
* `browser`: 2 boards, 3 calls; 2 are enough for the counterexample.

Constants named `Max...` are bounds of the model; `MAX_PARTICIPANTS`,
`MAX_TOMBSTONES` and `TOMBSTONE_PRUNE_BUFFER_SIZE` are the code's.

Fairness in `PresenceRoom` (`FairSpec`) is weak, on the two timers of every room
(Node fires them) and on the passing of `PARTICIPANT_TIMEOUT_MS` for a participant
whose socket is dead: nobody alive is made to go quiet, to leave or to speak.

Fairness in `ReconnectManager` is weak, on the timers, on `getUri()`'s answer, on the
opening and closing of sockets (a browser ends both attempts), on the server's answer to
a connect message or its giving up on a socket without one, and on a hidden page
being shown again. Failures, hints and restarts get none.

Fairness in `LocalSync` is weak, on the database, on frames, timers and messages, and on
the unloading of a page that was told to reload. Nobody has to edit, close or hide a
tab. `LocalSync` assumes one person, who has seen what was done in the other tabs
before editing in one and does not edit a record while another tab is still writing
it: two tabs that edit one record at the same time are kept apart by nothing in this
code, and may end up showing different values.

Fairness in `SyncProtocol` (`FairSpec`) is weak, and on five things: a tab's own steps (the browser
runs its frames, and `ReconnectManager` always has a next attempt pending), the
room's reading of current and of replaced sockets, a session's debounce timer, and the
storage's onChange microtask. Edits, drops, host writes and prunes get none. `sync_converges` takes
a setup without `overlap`: with overlapping sockets each late close throws out a
new session, and only the real backoff, at least half a second, makes that end;
weak fairness has no clock to say so. It has no host writes either, so it does not
meet the reconnect that everyone is forced to when tombstones run out.

## 6. What is proved

Every invariant that a passing run checks, and every action property, is a theorem,
for every value of the constants that satisfies the named assumptions
(`DirectoryAssumption`, `PresenceAssumption`, `RoomAssumption`, `StorageAssumption`,
`ProtocolAssumption`, `SessionsAssumption`, `ReconnectAssumption`, `LocalAssumption`,
`HistoryAssumption`): any number of tabs, records, sockets and edits, any stacks and
queues. The assumptions say what kind of thing a constant is, that sentinels are not
among the values, and, of `ReconnectManager`, how its delays are ordered. One theorem says
less than the run: `SpeculationCanBeUndone` is about setups in which edits do not lag,
while `sync_editing` also has one in which they do but nothing reconnects.

| Theorem | Says | Along which argument |
|---|---|---|
| `Consistency` | tables well typed, no dangling rows | `Good(d)` (typed, and `Integrity`) is preserved by every *statement* in the context the code runs it in, so both whole calls and their prefixes keep it |
| `DirectoryTypes`, `ServerTypes` | the types of the directory, and of the whole server | `Good`, plus which ids a step can add |
| `OnePerson` | `OneRowPerPerson` | a step either leaves the user rows, removes some, or does what `upsertUser` or `ensureAdminUser` does (`UsersStep`); ids come fresh from `minted` |
| `QueriesAlwaysAgree` | `AccessQueriesAgree` | from `Integrity`: the three queries differ only on rows that dangle |
| `AdminsStay` | `AdminStays` | every statement that removes a user row is under a guard on its role |
| `AccessByInvite` | `AccessOnlyByInvite` | every step, a crash in the middle of it included, adds no access, enrols someone by an invite that is live, makes the admin, or makes a board in a workspace its owner is in (`GrantStep`) |
| `LiveMeansAllowed` | `LiveAccess` | a quiet call only widens access (`Widens`); a revocation takes access from exactly the connections it evicts; a crash takes all connections |
| `NoRoomLeaks` | `RoomIffOccupied` | inductive with the types; a full room is not empty, so turning someone away makes no new room |
| `EvictionIsExact` | `NoOverEviction` | the action property, from `Good` |
| `RoomTypes` | the types of rooms, tokens, rosters and sockets | part of `RoomInv` |
| `NobodyLeftBehind`, `OneRoomPerBoard` | `StaleMeansScheduled`, `LiveRoomsAreRegistered` | `RoomInv`: the two and the types, preserved together. That a room which empties deletes *its* entry, by board id, and not a successor's, needs that every occupied room is the registered one; that a late frame cannot make an unscheduled roster stale needs that a participant is in the room it joined or in none |
| `Implements` | `ImplementsRegistry` | every step maps to a step of the registry or to none: a removal of connections is a removal of guests (`RemovalRefines`), which covers leaving, sweeping and evicting; a join fits because a room has at least as many people as its board has guests (`RoomOccupancy`); stopping the process empties the registry because `RoomInv` says no other room had people in it |
| `StorageTypes`, `FeedComplete`, `FeedKept` | types, the feed, its invariant | `FeedInv`: for every clock and id, the record changed since, or a tombstone tells of its deletion since, or it is gone and that clock is no longer served, or it is as it was. `ChangeFeedComplete` itself is not inductive: it says nothing of *why* an id is in the feed, which a prune needs |
| `ConnectionTypes`, `AssertsHold`, `AlwaysWoken`, `AttemptsWait` | `TypeOK`, `OneLiveSocket`, `NeverStuck`, `AttemptsSpaced` | `ConnectionInv`: the first three, and that a manager about to attempt has waited (`Spaced`) and a socket that connects has an age. `disconnected` is the one place that wakes the manager up, so one lemma about it (`DisconnectedWakes`) serves every handler that ends in it |
| `SyncTypes` | `syncTypeOK` | `LineInv`, see below |
| `SpeculationCanBeUndone`, `OptimisticIsQueued`, `IdleClientsAreSynced` | `SpeculativeUndone` (when edits do not lag; when they do, `sync_unflushed` refutes it), `OptimisticMeansQueued`, `IdleMeansSynced` | `SyncInv`, of two parts. `LineInv`: every message under way to a tab leads from the state of the storage that the one before it left to the state at its own clock, the first from what the tab knew, a reply from the clock the request named, and a connected session's line ends where the room last broadcast; of a cheated tab's line only the messages' types and clocks are said (`g` in `Line`), and what is `outstanding` is at a line's end (`Held`). `QueueInv`: the speculative changes lead from the server state a tab knows to what it shows, record by record (of a misled tab, from *some* state), and what of them is not in the next push waits. Rebasing is a walk along `history`, and re-applying keeps both |
| `PushesAreAnswered` | `PushesAnswered` | `AnswerInv` on top of `SyncInv`: replaced sockets hold older pushes than the tab's queue, a connecting tab has sent its request at most, and a connected one's queue, if it is not cheated, matches its socket and the results under way |
| `OnlyLateRequestsCheat` | what the exemption of `cheated` and `misled` in the theorems above amounts to: only a connect request with an older number than the tab's, off a replaced socket, read after the tab's own was answered, cheats it | from `AnswerInv`: a connected tab's own socket holds pushes alone, and a connecting one's holds its request only as long as no answer to it is under way |
| `SessionInvHolds`, `TypeOKHolds`, `NothingStrandedHolds`, `PresenceMirroredHolds`, `PresenceBelongsHolds`, `SpeakersAreHeardHolds` | `TypeOK`, `NothingStranded`, `PresenceMirrored`, `PresenceBelongs`, `SpeakersAreHeard` | `SessionInv`: sockets and their messages, and a room that is `Good`. `Good` is kept by each thing a turn does: a message to one session, a broadcast (a fold over sessions), a removal (which broadcasts), a prune (a fold of removals); halfway through a turn sockets already closed count as such |
| `LocalTypes`, `LocalTabsAgree`, `LocalEditsAccountedFor` | `TypeOK`, `TabsAgree`, `EditsAccountedFor` | three parts, each on top of the one before. `TypeInv`: one write in the database's queue for each page that is persisting, reads for pages that load. `ShownInv`: of each page and record not given up, the page shows the last edit or has news of it under way, the last message tells the last edit, what the page has to report or write is the last edit, and a write in flight is of what its page shows. `HeldInv`: the queue will store the last edit, or a page has it to write |
| `HistoryIsAWay`, `HistoryTypes`, `MarksAreExact`, `RedosAreExact` | `TypeOK`, `MarksRemember`, `RedosReachTip` | `HistoryInv`: for each record of `Own` there are values such that the undo stack, the pending diff and the redo stack lead through them, from some value to the store's and on to the tip, each mark where the record had its marked value. Ways are cut and joined where the stacks are; that squashing a way's diffs gives the difference of its ends is an induction on the fold (`SquashedWay`) |

A library theorem about induction takes an operator as a parameter, which the provers
cannot instantiate, but folds need not be out of reach: `FoldProofs` states induction
over finite sets for a *set* of subsets (`SubsetInduction`), and shows that there is a
function that obeys the equation by which a fold over a set or a sequence is chosen
(`FoldDefined`, `SequenceFold`). A proof about a fold names the set of arguments for
which the claim holds.

Proving changed the models where they were wrong or could not be reasoned about:

* `OptimisticMeansQueued` was too strong: it lacked the exception for a waiting push,
  which takes more edits than the run had;
* `LocalSync`'s `lost` counted as kept what a page that closes had already given up, and
  `EditsAccountedFor` held a page to its full write before it had loaded;
* `HistoryManager`'s claim about single diffs holds only as long as no bail-out has left
  a redo stack behind;
* `PushesAnswered` is stated by an increasing map from pushes to messages, and
  `HistoryManager`'s `diffsOf` without `SelectSeq`: the provers see through neither
  `SelectSeq` nor a `CASE` whose guards overlap.

`FeedInv` needs one thing that looks odd, the conjunct about the oldest tombstone:
a reload may keep tombstones older than the start of history, and the next prune
moves the start *back* to the oldest one it keeps; the clocks it moves back over
must still be served.

## 7. What is only model-checked, and what is not modelled

Only model-checked: liveness (`Converges`, `RostersSettle`, `GhostsAreSwept`,
`EventuallyInRoom`, `DiskCatchesUp`), for the prover has neither fairness nor ENABLED,
and the three counterexamples, which TLC finds. `UnoBrowser` has only such a run: its one
property is refuted. The bounds of section 5 matter for these alone; of the invariants
the runs now show that they are neither vacuous nor insensitive to the code, by their
mutants.

Left out of the modelled parts: names, renames, dates, listings and rate limits of
the directory; names, colours, the contents of signals and ICE servers of presence;
schema migration, the object lane, permissions, hibernation and pings of sync; splitting
into chunks; session records, migration and assets of local persistence; ephemeral
keys and throwing batches of undo, which crash the editor (`Editor.ts:385`); workspaces
and renames in the browser. An edit's validation and side effects are left out of
the store. The two storage implementations are one nondeterministic one.

Smaller differences, each on the side of more behaviours or of none that matter to
the properties:

* the table of users has `UNIQUE(email)` (`storage.ts:41`), which is not modelled: the
  model keeps one row a person by what the calls look up first, the code also by that;
* `AdminStays` says that the admin's row stays, not what the admin is able to do;
* `RecordsDiff.ts:283` compares the identities of records: the values of
  `HistoryManager` are to be read as record objects, so that one removed and made again
  with the same contents is two of them. That undo puts the same object back is what
  `Store.put` does with a valid record;
* a rebase that throws while it re-applies (`TLSyncClient.ts:1011-1016`) is not modelled:
  no diff of the model makes it throw.

Not modelled at all:

* signals (`packages/state`) and store side effects run within one synchronous call, and
  what the modelled components see of them is one atomic step;
* the chunk assembler is a pure parser for one ordered socket;
* voice (`TlaBoardSessionProvider.tsx`) is mostly the browser's WebRTC. Read while
  surveying, and worth a model once the peer connection is specified: `isPolite` is
  computed when a peer is made and a reconnect changes the id it was computed from;
  `isMicOn` is not sent again after a reconnect; `startVoice` looks at nothing after it
  has awaited the microphone; a signal that arrives after its peer was closed makes a
  peer nobody wants;
* assets and link previews, HTTP plumbing, comments, scripting and build: input and
  output, without state of their own;
* the editor, its shapes and tools, the schemas and validators, most of the lines of this
  repository: geometry, declarations and user interface, whose correctness is visual or
  a matter of single calls, not of orders of steps. `HistoryManager` is the part of the
  editor that is one.

## 8. Plan

1. *Uno server* — done, with proofs: `UnoDirectory`, `PresenceRegistry`, `PresenceRoom`,
   `UnoServer`.
2. *Sync* — `SyncStorage`, `SyncProtocol` and `RoomSessions` done with proofs. Next: an
   abstract specification (a register that everyone reads with a lag, clocks never going
   back), which `LineInv` is the refinement's invariant for; snapshots of sessions that
   hibernate, and the sessions that resume.
3. *Browser* — `ReconnectManager`, `LocalSync` and `HistoryManager` done with proofs,
   `UnoBrowser` with a run. Next: the presence socket with its close codes beside
   `UnoBrowser`; what `UnoBrowser` keeps when answers come in order.
4. *Pure algorithms* against reference definitions: the chunk assembler, the pruning
   loop against the set definition used in `SyncStorage`.
5. *Voice and signals* — perfect negotiation of two peers; transactions with
   roll-back and effect scheduling.

## 9. Running it

In this directory, `tlc -config MCSyncEditing.cfg MCSyncProtocol` checks one run
(`PROJECT.json`, `runs`, pairs each configuration with its module), and
`tlapm SyncProtocolProofs.tla` checks one module of proofs.
