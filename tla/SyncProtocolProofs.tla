------------------------- MODULE SyncProtocolProofs -------------------------
(***************************************************************************)
(* Proofs about the sync protocol, for any number of clients, records,     *)
(* properties, edits, drops and reconnects.                                *)
(*                                                                         *)
(* The inductive invariant, SyncInv, has two parts.  LineInv follows each  *)
(* client's line: the tab, what it has sent and the server has yet to      *)
(* read, on its socket and on replaced ones, and what the server has sent  *)
(* it.  Every message to a client leads from the state of the storage the  *)
(* one before it left to the state at its own clock (LinkOK), the first    *)
(* from what the tab knew last; a reply leads from the clock the request   *)
(* named (ReplyOK); and the line of a connected session ends where the     *)
(* room's lastDocumentClock is (EndAt).  history, which SyncStorage keeps, *)
(* is what these states are read from.  LineInv needs nothing of what the  *)
(* store shows, so it holds whether or not edits lag.  A late connect      *)
(* request may make the room lose what a session has queued: the line of   *)
(* a tab cheated that way has a gap, so nothing is said of its links and   *)
(* its end until the socket is given up.  Held bounds what is queued.      *)
(*                                                                         *)
(* QueueInv is about what a tab shows, when edits do not lag: its          *)
(* speculative changes lead from the server state it knows to its store    *)
(* (Optimistic; the tabs that have read on past such a gap, misled, are    *)
(* left out), and whatever of them is not in the next push waits for an    *)
(* answer (Queued).  Both are preserved entry by entry: LeadsAt and        *)
(* QueuedAt speak of one record.  Rebasing is a fold over the messages,    *)
(* which LinkOK turns into a walk along history (ReceivedIs), and a fold   *)
(* of what is left to re-apply (ReappliedLeads).                           *)
(*                                                                         *)
(* The lemmas Line... each take a line through one thing that can happen   *)
(* to it, with nothing of the rest of the state; those named ...KeepsLines *)
(* and ...KeepsQueues take the two parts through an action.                *)
(*                                                                         *)
(* AnswerInv comes on top of SyncInv for the pushes and their answers.     *)
(* While a tab and its session are both connected, the end of the tab's    *)
(* queue is what its socket holds and the rest is what has been answered   *)
(* (Matched); that stays so because what replaced sockets still hold is    *)
(* older than anything the tab waits for (AnswerLine).  A cheated tab may  *)
(* wait in vain; OnlyLateRequestsCheat says what it takes to cheat one.    *)
(* The lemmas ...Says give the room's side of a message, Answer... one     *)
(* line's, and ...Answers take AnswerInv through an action.                *)
(***************************************************************************)
EXTENDS SyncProtocol, FoldProofs, FiniteSetTheorems, SequenceTheorems

-----------------------------------------------------------------------------
(* The storage by itself, for any records, clocks and tombstone limits: the *)
(* change feed brings every client up to date.  The inductive invariant is  *)
(* storageTypeOK and FeedInv, which says of each id how far back the stored *)
(* contents are known to be what was stored then.                           *)

Inv == storageTypeOK /\ FeedInv

\* The feed is right wherever FeedInv holds.
LEMMA FeedIsComplete ==
  ASSUME storageTypeOK, FeedInv
  PROVE  \A c \in 0 .. documentClock : CaughtUp(history[c], c) = documents
<1>1. SUFFICES ASSUME NEW c \in 0 .. documentClock
               PROVE  CaughtUp(history[c], c) = documents
  OBVIOUS
<1>2. c \in Int /\ documentClock \in Int /\ tombstoneHistoryStartsAtClock \in Int
      /\ documents \in Contents /\ history[c] \in Contents
  BY DEF storageTypeOK
<1>3. ASSUME NEW id \in RecordId
      PROVE  CaughtUp(history[c], c)[id] = documents[id]
  <2>1. documents[id] \in Value \cup {Absent} /\ Unchanged \notin Value \cup {Absent}
    BY <1>2, StorageAssumption DEF Contents
  <2>2. CASE wipeAll(c)
    <3>1. CaughtUp(history[c], c)[id] =
            IF documents[id] # Absent THEN documents[id] ELSE Absent
      BY <2>1, <2>2 DEF CaughtUp, ApplyForward, changesSince, NoRecords
    <3>2. QED BY <3>1
  <2>3. CASE ~wipeAll(c)
    <3>1. c >= tombstoneHistoryStartsAtClock
      BY <1>2, <2>3 DEF wipeAll
    <3>2. CASE documents[id] # Absent /\ lastChangedClock[id] > c
      BY <2>1, <2>3, <3>2 DEF CaughtUp, ApplyForward, changesSince
    <3>3. CASE /\ ~(documents[id] # Absent /\ lastChangedClock[id] > c)
               /\ \E t \in tombstones : t.id = id /\ t.clock > c
      <4>1. documents[id] = Absent
        BY <3>3 DEF storageTypeOK
      <4>2. changesSince(c)[id] = Absent
        BY <2>3, <3>3 DEF changesSince
      <4>3. QED BY <2>1, <2>3, <4>1, <4>2 DEF CaughtUp, ApplyForward
    <3>4. CASE /\ ~(documents[id] # Absent /\ lastChangedClock[id] > c)
               /\ ~\E t \in tombstones : t.id = id /\ t.clock > c
      <4>1. changesSince(c)[id] = Unchanged
        BY <2>3, <3>4 DEF changesSince
      <4>2. CaughtUp(history[c], c)[id] = history[c][id]
        BY <2>3, <4>1 DEF CaughtUp, ApplyForward
      <4>3. ~(documents[id] # Absent /\ c < lastChangedClock[id])
        BY <1>2, <3>4 DEF storageTypeOK
      <4>4. ~\E t \in tombstones : t.id = id /\ c < t.clock
        <5>1. \A t \in tombstones : t.clock \in Int
          BY DEF storageTypeOK, Tombstone
        <5>2. QED BY <1>2, <3>4, <5>1
      <4>5. ~(documents[id] = Absent /\ c < tombstoneHistoryStartsAtClock)
        BY <1>2, <3>1
      <4>6. QED BY <4>2, <4>3, <4>4, <4>5 DEF FeedInv
    <3>5. QED BY <3>2, <3>3, <3>4
  <2>4. QED BY <2>2, <2>3
<1>4. CaughtUp(history[c], c) =
        [id \in RecordId |-> CaughtUp(history[c], c)[id]]
  BY DEF CaughtUp, ApplyForward
<1>5. documents = [id \in RecordId |-> documents[id]]
  BY <1>2 DEF Contents
<1>6. QED BY <1>3, <1>4, <1>5

\* A clock outside this room's past makes the client start over.
LEMMA StrangersWiped ==
  ASSUME storageTypeOK
  PROVE  \A c \in {-1, documentClock + 1}, t \in 0 .. documentClock :
           CaughtUp(history[t], c) = documents
<1>1. SUFFICES ASSUME NEW c \in {-1, documentClock + 1}, NEW s
               PROVE  CaughtUp(s, c) = documents
  OBVIOUS
<1>2. documents \in Contents /\ documentClock \in Nat
      /\ tombstoneHistoryStartsAtClock \in Nat
  BY DEF storageTypeOK
<1>3. wipeAll(c)
  BY <1>2 DEF wipeAll
<1>4. ASSUME NEW id \in RecordId
      PROVE  CaughtUp(s, c)[id] = documents[id]
  <2>1. documents[id] \in Value \cup {Absent} /\ Unchanged \notin Value \cup {Absent}
    BY <1>2, StorageAssumption DEF Contents
  <2>2. QED BY <1>3, <2>1 DEF CaughtUp, ApplyForward, changesSince, NoRecords
<1>5. CaughtUp(s, c) = [id \in RecordId |-> CaughtUp(s, c)[id]]
  BY DEF CaughtUp, ApplyForward
<1>6. documents = [id \in RecordId |-> documents[id]]
  BY <1>2 DEF Contents
<1>7. QED BY <1>4, <1>5, <1>6

LEMMA InitInv == storageInit => Inv
<1>1. SUFFICES ASSUME storageInit PROVE Inv
  OBVIOUS
<1>2. storageTypeOK
  BY <1>1 DEF storageInit, storageTypeOK, Contents, Tombstone
<1>3. FeedInv
  BY <1>1 DEF storageInit, FeedInv
<1>4. QED BY <1>2, <1>3 DEF Inv

LEMMA TransactionKeepsInv ==
  ASSUME Inv, NEW P \in SUBSET RecordId, NEW D \in SUBSET RecordId,
         NEW puts \in [P -> Value], transaction(puts, D)
  PROVE  Inv'
<1> DEFINE removed == D \cap (Stored \cup P)
           clock   == documentClock + 1
<1>1. CASE P \cup removed = {}
  BY <1>1 DEF transaction, Inv, storageTypeOK, FeedInv, Contents, Tombstone, storageVars
<1>2. CASE P \cup removed # {}
  <2>1. /\ documents' = [id \in RecordId |-> IF id \in removed THEN Absent
                           ELSE IF id \in P THEN puts[id] ELSE documents[id]]
        /\ lastChangedClock' = [id \in RecordId |-> IF id \in removed THEN 0
                           ELSE IF id \in P THEN clock ELSE lastChangedClock[id]]
        /\ tombstones' = {t \in tombstones : t.id \notin removed \cup P}
                           \cup [id : removed, clock : {clock}]
        /\ documentClock' = clock
        /\ history' = [c \in 0 .. clock |-> IF c = clock THEN documents' ELSE history[c]]
        /\ tombstoneHistoryStartsAtClock' = tombstoneHistoryStartsAtClock
    BY <1>2 DEF transaction
  <2>2. removed \subseteq RecordId
    OBVIOUS
  <2> HIDE DEF removed
  <2>3. /\ documentClock \in Nat /\ clock \in Nat /\ clock > documentClock
        /\ documents \in Contents
        /\ lastChangedClock \in [RecordId -> 0 .. documentClock]
        /\ tombstones \subseteq Tombstone
        /\ tombstoneHistoryStartsAtClock \in 0 .. documentClock
        /\ history \in [0 .. documentClock -> Contents]
    BY DEF Inv, storageTypeOK
  <2>4. documents' \in Contents
    BY <2>1, <2>3 DEF Contents
  <2>5. lastChangedClock' \in [RecordId -> 0 .. documentClock']
    BY <2>1, <2>3
  <2>6. tombstones' \subseteq Tombstone'
    <3>1. Tombstone' = [id : RecordId, clock : 0 .. clock]
      BY <2>1 DEF Tombstone
    <3>2. Tombstone \subseteq [id : RecordId, clock : 0 .. clock]
      BY <2>3 DEF Tombstone
    <3>3. [id : removed, clock : {clock}] \subseteq [id : RecordId, clock : 0 .. clock]
      BY <2>2, <2>3
    <3>4. QED BY <2>1, <2>3, <3>1, <3>2, <3>3
  <2>7. \A t \in tombstones' : documents'[t.id] = Absent
    <3>1. SUFFICES ASSUME NEW t \in tombstones' PROVE documents'[t.id] = Absent
      OBVIOUS
    <3>2. CASE t \in [id : removed, clock : {clock}]
      BY <2>1, <2>2, <3>2
    <3>3. CASE t \in tombstones /\ t.id \notin removed \cup P
      <4>1. t.id \in RecordId /\ documents[t.id] = Absent
        BY <2>3, <3>3 DEF Inv, storageTypeOK, Tombstone
      <4>2. QED BY <2>1, <3>3, <4>1
    <3>4. QED BY <2>1, <3>2, <3>3
  <2>8. \A s, t \in tombstones' : s.id = t.id => s = t
    <3>1. \A s, t \in tombstones : s.id = t.id => s = t
      BY DEF Inv, storageTypeOK
    <3>2. \A s, t \in [id : removed, clock : {clock}] : s.id = t.id => s = t
      OBVIOUS
    <3>3. \A s \in [id : removed, clock : {clock}] : s.id \in removed
      OBVIOUS
    <3>4. QED BY <2>1, <3>1, <3>2, <3>3
  <2>9. history' \in [0 .. documentClock' -> Contents']
    <3>1. Contents' = Contents
      BY DEF Contents
    <3>2. \A c \in 0 .. clock : c # clock => c \in 0 .. documentClock
      BY <2>3
    <3>3. documents' \in Contents
      BY <2>4, <3>1
    <3>4. \A c \in 0 .. clock : (IF c = clock THEN documents' ELSE history[c]) \in Contents
      BY <2>3, <3>2, <3>3
    <3>5. QED BY <2>1, <3>1, <3>4
  <2>10. history'[documentClock'] = documents'
    BY <2>1, <2>3
  <2>11. storageTypeOK'
    <3>1. documentClock' \in Nat /\ tombstoneHistoryStartsAtClock' \in 0 .. documentClock'
      BY <2>1, <2>3
    <3>2. QED BY <2>4, <2>5, <2>6, <2>7, <2>8, <2>9, <2>10, <3>1 DEF storageTypeOK
  <2>12. FeedInv'
    <3>1. SUFFICES ASSUME NEW c \in 0 .. documentClock', NEW id \in RecordId
                   PROVE  \/ documents'[id] # Absent /\ c < lastChangedClock'[id]
                          \/ \E t \in tombstones' : t.id = id /\ c < t.clock
                          \/ /\ documents'[id] = Absent
                             /\ c < tombstoneHistoryStartsAtClock'
                             /\ \A t \in tombstones' : c < t.clock
                          \/ history'[c][id] = documents'[id]
      BY DEF FeedInv
    <3>2. CASE c = clock
      BY <2>1, <2>10, <3>2
    <3>3. CASE c # clock
      <4>1. c \in 0 .. documentClock /\ c < clock /\ history'[c] = history[c]
        BY <2>1, <2>3, <3>3
      <4>2. CASE id \in removed
        <5>1. [id |-> id, clock |-> clock] \in tombstones'
          BY <2>1, <4>2
        <5>2. QED BY <4>1, <5>1
      <4>3. CASE id \in P /\ id \notin removed
        <5>1. documents'[id] = puts[id] /\ lastChangedClock'[id] = clock
          BY <2>1, <4>3
        <5>2. puts[id] # Absent
          BY <4>3, StorageAssumption
        <5>3. QED BY <4>1, <5>1, <5>2
      <4>4. CASE id \notin P /\ id \notin removed
        <5>1. documents'[id] = documents[id] /\ lastChangedClock'[id] = lastChangedClock[id]
          BY <2>1, <4>4
        <5>2. \A t \in tombstones : t.id = id => t \in tombstones'
          BY <2>1, <4>4
        <5>3. \A t \in tombstones' : t \in tombstones \/ t.clock = clock
          BY <2>1
        <5>4. QED BY <2>1, <4>1, <5>1, <5>2, <5>3 DEF Inv, FeedInv
      <4>5. QED BY <4>2, <4>3, <4>4
    <3>4. QED BY <3>2, <3>3
  <2>13. QED BY <2>11, <2>12 DEF Inv
<1>3. QED BY <1>1, <1>2

\* Forgetting the oldest tombstones is safe when history starts after them,
\* and no earlier than it did or than a tombstone that was there.
LEMMA ForgettingKeepsInv ==
  ASSUME Inv, UNCHANGED <<documents, lastChangedClock, documentClock, history>>,
         tombstones' \subseteq tombstones,
         tombstoneHistoryStartsAtClock' \in 0 .. documentClock,
         \A t \in tombstones \ tombstones' :
           t.clock <= tombstoneHistoryStartsAtClock' /\ \A s \in tombstones' : t.clock <= s.clock,
         \/ tombstoneHistoryStartsAtClock <= tombstoneHistoryStartsAtClock'
         \/ \E t \in tombstones : t.clock <= tombstoneHistoryStartsAtClock'
         \/ tombstoneHistoryStartsAtClock' = documentClock
  PROVE  Inv'
<1>1. /\ documentClock \in Nat
      /\ tombstones \subseteq [id : RecordId, clock : 0 .. documentClock]
      /\ tombstoneHistoryStartsAtClock \in 0 .. documentClock
  BY DEF Inv, storageTypeOK, Tombstone
<1>2. storageTypeOK'
  <2>1. tombstoneHistoryStartsAtClock' \in 0 .. documentClock'
    BY <1>1
  <2>2. tombstones' \subseteq Tombstone'
    BY <1>1 DEF Tombstone
  <2>3. /\ \A t \in tombstones' : documents'[t.id] = Absent
        /\ \A s, t \in tombstones' : s.id = t.id => s = t
    BY DEF Inv, storageTypeOK
  <2>4. QED BY <2>1, <2>2, <2>3 DEF Inv, storageTypeOK, Contents
<1>3. FeedInv'
  <2>1. SUFFICES ASSUME NEW c \in 0 .. documentClock, NEW id \in RecordId
                 PROVE  \/ documents[id] # Absent /\ c < lastChangedClock[id]
                        \/ \E t \in tombstones' : t.id = id /\ c < t.clock
                        \/ /\ documents[id] = Absent
                           /\ c < tombstoneHistoryStartsAtClock'
                           /\ \A t \in tombstones' : c < t.clock
                        \/ history[c][id] = documents[id]
    BY DEF FeedInv
  <2>2. CASE \E t \in tombstones : t.id = id /\ c < t.clock
    <3>1. PICK t \in tombstones : t.id = id /\ c < t.clock
      BY <2>2
    <3>2. CASE t \in tombstones'
      BY <3>1, <3>2
    <3>3. CASE t \notin tombstones'
      <4>1. t.clock <= tombstoneHistoryStartsAtClock' /\ t.clock \in Int
        BY <1>1, <3>3
      <4>2. \A s \in tombstones' : t.clock <= s.clock /\ s.clock \in Int
        BY <1>1, <3>3
      <4>3. documents[id] = Absent
        BY <3>1 DEF Inv, storageTypeOK
      <4>4. QED BY <1>1, <3>1, <4>1, <4>2, <4>3
    <3>4. QED BY <3>2, <3>3
  <2>3. CASE /\ documents[id] = Absent
             /\ c < tombstoneHistoryStartsAtClock
             /\ \A t \in tombstones : c < t.clock
    <3>1. c < tombstoneHistoryStartsAtClock' \/ c = documentClock
      <4>1. \A t \in tombstones : t.clock \in Int
        BY <1>1
      <4>2. QED BY <1>1, <2>3, <4>1
    <3>2. c # documentClock
      BY <1>1, <2>3
    <3>3. QED BY <2>3, <3>1, <3>2
  <2>4. CASE \/ documents[id] # Absent /\ c < lastChangedClock[id]
             \/ history[c][id] = documents[id]
    BY <2>4
  <2>5. QED BY <2>2, <2>3, <2>4 DEF Inv, FeedInv
<1>4. QED BY <1>2, <1>3 DEF Inv

\* There is at most one tombstone per id.
LEMMA FinitelyManyTombstones ==
  ASSUME storageTypeOK
  PROVE  IsFiniteSet(tombstones)
<1> DEFINE idOf == [t \in tombstones |-> t.id]
<1>1. idOf \in [tombstones -> RecordId]
  BY DEF storageTypeOK, Tombstone
<1>2. \A s, t \in tombstones : idOf[s] = idOf[t] => s = t
  BY DEF storageTypeOK
<1>3. idOf \in Injection(tombstones, RecordId)
  BY <1>1, <1>2 DEF Injection, IsInjective
<1>4. QED BY <1>3, FS_Injection, StorageAssumption

LEMMA PruneKeepsInv == Inv /\ pruneTombstones => Inv'
<1>1. SUFFICES ASSUME Inv, pruneTombstones PROVE Inv'
  OBVIOUS
<1> DEFINE extra == TOMBSTONE_PRUNE_BUFFER_SIZE + Cardinality(tombstones) - MAX_TOMBSTONES
           kept  == tombstones \ idsToDelete(tombstones, extra)
           start == tombstoneHistoryStartsAtClock'
<1>2. /\ start \in newHistoryStart(kept)
      /\ tombstones' \in {kept, {t \in tombstones : t.clock >= start}}
      /\ UNCHANGED <<documents, lastChangedClock, documentClock, history>>
  BY <1>1 DEF pruneTombstones
<1>3. /\ documentClock \in Nat
      /\ \A t \in tombstones : t.clock \in 0 .. documentClock
  BY <1>1 DEF Inv, storageTypeOK, Tombstone
<1>4. \A t \in tombstones \ kept : \A s \in kept : t.clock <= s.clock
  <2>1. SUFFICES ASSUME NEW t \in tombstones \ kept, NEW s \in kept, s.clock < t.clock
                 PROVE  FALSE
    BY <1>3
  <2>2. t \in idsToDelete(tombstones, extra) /\ s \in tombstones
    BY <2>1
  <2>3. /\ Cardinality({r \in tombstones : r.clock < t.clock}) < extra
        /\ ~(Cardinality({r \in tombstones : r.clock < s.clock}) < extra)
    BY <2>1, <2>2 DEF idsToDelete
  <2> DEFINE A == {r \in tombstones : r.clock < t.clock}
             B == {r \in tombstones : r.clock < s.clock}
  <2>4. B \subseteq A
    BY <1>3, <2>1, <2>2
  <2>5. IsFiniteSet(A) /\ IsFiniteSet(B)
    BY <1>1, FinitelyManyTombstones, FS_Subset DEF Inv
  <2>6. Cardinality(B) <= Cardinality(A)
    BY <2>4, <2>5, FS_Subset
  <2>7. extra \in Int /\ Cardinality(A) \in Nat /\ Cardinality(B) \in Nat
    BY <1>1, <2>5, FinitelyManyTombstones, FS_CardinalityType, StorageAssumption DEF Inv
  <2>8. QED BY <2>3, <2>6, <2>7
<1> HIDE DEF kept
<1>5. kept \subseteq tombstones
  BY DEF kept
<1>6. /\ start \in 0 .. documentClock
      /\ \A s \in kept : start <= s.clock
      /\ start = documentClock \/ \E t \in kept : t.clock = start
  BY <1>2, <1>3, <1>5 DEF newHistoryStart
<1>7. \A t \in tombstones \ kept : t.clock <= start
  BY <1>3, <1>4, <1>6
<1>8. /\ tombstones' \subseteq tombstones
      /\ \A t \in tombstones \ tombstones' :
           t.clock <= start /\ \A s \in tombstones' : t.clock <= s.clock
  <2>1. CASE tombstones' = kept
    BY <1>4, <1>5, <1>7, <2>1
  <2>2. CASE tombstones' = {t \in tombstones : t.clock >= start}
    BY <1>3, <1>6, <2>2
  <2>3. QED BY <1>2, <2>1, <2>2
<1>9. \/ start = documentClock
      \/ \E t \in tombstones : t.clock <= start
  BY <1>3, <1>5, <1>6
<1>10. QED BY <1>1, <1>2, <1>6, <1>8, <1>9, ForgettingKeepsInv

LEMMA ReloadKeepsInv == Inv /\ reload => Inv'
<1>1. SUFFICES ASSUME Inv, reload PROVE Inv'
  OBVIOUS
<1>2. /\ documentClock \in Nat
      /\ tombstoneHistoryStartsAtClock \in 0 .. documentClock
      /\ \A t \in tombstones : t.clock \in 0 .. documentClock
  BY <1>1 DEF Inv, storageTypeOK, Tombstone
<1>3. /\ UNCHANGED <<documents, lastChangedClock, documentClock, history>>
      /\ tombstoneHistoryStartsAtClock' \in {tombstoneHistoryStartsAtClock, documentClock}
      /\ tombstones' = tombstones \/ (tombstoneHistoryStartsAtClock' = documentClock /\ tombstones' = {})
  BY <1>1 DEF reload
<1>4. /\ tombstones' \subseteq tombstones
      /\ \A t \in tombstones \ tombstones' :
           t.clock <= tombstoneHistoryStartsAtClock' /\ \A s \in tombstones' : t.clock <= s.clock
  BY <1>2, <1>3
<1>5. /\ tombstoneHistoryStartsAtClock' \in 0 .. documentClock
      /\ tombstoneHistoryStartsAtClock <= tombstoneHistoryStartsAtClock'
  BY <1>2, <1>3
<1>6. QED BY <1>1, <1>3, <1>4, <1>5, ForgettingKeepsInv

\* Any sequence of transactions, prunes and reloads keeps the invariant.
LEMMA StorageInvariant == storageSpec => []Inv
<1>1. Inv /\ [storageNext]_storageVars => Inv'
  <2>1. SUFFICES ASSUME Inv, [storageNext]_storageVars PROVE Inv'
    OBVIOUS
  <2>2. CASE \E P, D \in SUBSET RecordId : \E puts \in [P -> Value] : transaction(puts, D)
    BY <2>1, <2>2, TransactionKeepsInv
  <2>3. CASE pruneTombstones
    BY <2>1, <2>3, PruneKeepsInv
  <2>4. CASE reload
    BY <2>1, <2>4, ReloadKeepsInv
  <2>5. CASE UNCHANGED storageVars
    BY <2>1, <2>5
    DEF Inv, storageTypeOK, FeedInv, Contents, Tombstone, storageVars
  <2>6. QED BY <2>1, <2>2, <2>3, <2>4, <2>5 DEF storageNext
<1>2. QED BY InitInv, <1>1, PTL DEF storageSpec

\* Types, and tombstones only of records that are gone: InMemorySyncStorage's
\* set and delete keep them apart in any order.
THEOREM StorageTypes == storageSpec => []storageTypeOK
<1>1. Inv => storageTypeOK
  BY DEF Inv
<1>2. QED BY StorageInvariant, <1>1, PTL

\* The change feed brings a client from any clock of this room's past to what
\* is stored now, whatever was deleted, recreated and pruned on the way;
\* a client whose clock this room never reached, or that never connected, starts
\* over and receives everything.
THEOREM FeedComplete == storageSpec => []ChangeFeedComplete
<1>1. Inv => ChangeFeedComplete
  BY FeedIsComplete, StrangersWiped DEF Inv, ChangeFeedComplete
<1>2. QED BY StorageInvariant, <1>1, PTL

\* For every clock still served, each record's fate since then can be told from
\* what is stored and the tombstones, after any prunes and reloads.
THEOREM FeedKept == storageSpec => []FeedInv
<1>1. Inv => FeedInv
  BY DEF Inv
<1>2. QED BY StorageInvariant, <1>1, PTL

-----------------------------------------------------------------------------
(* The protocol.                                                           *)

\* A record or none; the entries of a RecordsDiff, RecordsDiffs and NetworkDiffs.
Maybe   == Value \cup {Absent}
Entries == [added : Maybe, updated : {<<>>} \cup (Value \X Value), removed : Maybe]
Recorded == [RecordId -> Entries]
NetDiffs == [RecordId -> Ops \cup {Unchanged}]

\* Messages, by direction.
Requests == [type : {"connect"}, requestId : Nat, clock : Int]
Pushes   == [type : {"push"}, clientClock : Nat, diff : NetDiffs]
Ups      == Requests \cup Pushes \cup {Close}
Replies  == [type : {"connect"}, requestId : Nat, wipeAll : BOOLEAN, diff : NetDiffs, serverClock : Nat]
Patches  == [type : {"patch"}, diff : NetDiffs, serverClock : Nat]
Results  == [type : {"push_result"}, clientClock : Nat, action : {"commit", "rebase", "discard"},
             diff : NetDiffs, serverClock : Nat]
Downs    == Replies \cup Patches \cup Results

\* A tab.
Tabs == [store : Contents, unflushed : Seq(Recorded), speculative : Recorded, nextDiff : Recorded,
         pending : Seq(Pushes), clientClock : Nat, lastServerClock : Int,
         status : {"offline", "connecting", "connected"}, requestId : Nat]

\* What a tab keeps.
TabOK(k) ==
  /\ k \in Tabs
  /\ \A i \in 1 .. Len(k.pending) : k.pending[i].clientClock < k.clientClock
  /\ \A i \in 2 .. Len(k.pending) : k.pending[i - 1].clientClock < k.pending[i].clientClock
  /\ k.status # "connected" => k.pending = <<>> /\ k.nextDiff = NoDiff
  /\ k.lastServerClock >= -1
  /\ k.status = "connected" => k.lastServerClock >= 0

\* An entry that leads from one state of a record to another.
LeadsAt(a, b, e) ==
  \/ e = Same /\ b = a
  \/ a = Absent /\ b # Absent /\ e = [Same EXCEPT !.added = b]
  \/ a # Absent /\ b # Absent /\ e = [Same EXCEPT !.updated = <<a, b>>]
  \/ a # Absent /\ b = Absent /\ e = [Same EXCEPT !.removed = a]

\* d takes s to t.
Leads(s, t, d) == \A id \in RecordId : LeadsAt(s[id], t[id], d[id])

\* The comment on speculativeChanges, and more: nothing of what the tab shows
\* waits to be reported, and the speculative changes say what is ahead of the server.
\* (of a misled tab w they say what is ahead of some state, which is all one can
\* say: there is no telling which).
Optimistic(k, h, w) ==
  /\ k.unflushed = <<>>
  /\ k.lastServerClock = -1 => k.store = NoRecords /\ k.speculative = NoDiff
  /\ k.lastServerClock >= 0 =>
       Leads(IF w THEN Undo(k.store, k.speculative) ELSE h[k.lastServerClock], k.store, k.speculative)

\* An entry that comes to nothing on the network.
Noop(e) == e.removed = Absent /\ e.added = Absent /\ (e.updated = <<>> \/ e.updated[1] = e.updated[2])

\* One record: s of the speculative changes, d of the next push, x in the store,
\* and whether a push waits for its answer.
QueuedAt(s, d, x, waits) ==
  /\ ~Noop(s) => d # Same \/ waits
  /\ d.added # Absent => s.added # Absent \/ waits
  /\ d.updated # <<>> /\ x = Absent => s = Same \/ waits
  /\ d.added # Absent => x # Absent
  /\ d.removed # Absent => x = Absent

\* A connected tab will send what it shows ahead of the server, or has.
Queued(k) ==
  k.status = "connected" =>
  \A id \in RecordId : QueuedAt(k.speculative[id], k.nextDiff[id], k.store[id], k.pending # <<>>)

\* A message the server has yet to read: it asks from a clock there has been, and
\* if it is the request the tab waits for, from where the tab is; a push that
\* the tab still waits for is the one it has on its queue.
UpOK(k, m, n) ==
  /\ m.type = "connect" => /\ m.requestId <= k.requestId
                           /\ m.clock \in -1 .. n
                           /\ k.status = "connecting" /\ m.requestId = k.requestId => m.clock = k.lastServerClock
  /\ m.type = "push" => /\ m.clientClock < k.clientClock
                        /\ \A i \in 1 .. Len(k.pending) :
                             k.pending[i].clientClock = m.clientClock => k.pending[i].diff = m.diff

\* m leads from the state at prev to the state at its own clock; a commit does so
\* by the push it answers.
LinkOK(h, k, prev, m) ==
  /\ m.type = "connect" => m.serverClock = prev
  /\ m.type = "patch" => h[m.serverClock] = Apply(h[prev], m.diff)
  /\ m.type = "push_result" =>
       /\ m.action = "rebase" => h[m.serverClock] = Apply(h[prev], m.diff)
       /\ m.action = "discard" => h[m.serverClock] = h[prev]
       /\ m.action = "commit" => \A i \in 1 .. Len(k.pending) :
            k.pending[i].clientClock = m.clientClock => h[m.serverClock] = Apply(h[prev], k.pending[i].diff)

\* The reply the tab waits for leads from where the tab is, or from nothing.
ReplyOK(h, k, m) ==
  m.type = "connect" /\ k.status = "connecting" /\ m.requestId = k.requestId =>
    /\ ~m.wipeAll => k.lastServerClock >= 0
    /\ h[m.serverClock] = Apply(IF m.wipeAll THEN NoRecords ELSE h[k.lastServerClock], m.diff)

\* A message on its way to the tab, by itself.
DownOK(h, k, m, n) ==
  /\ m.serverClock <= n
  /\ m.type = "push_result" => m.clientClock < k.clientClock
  /\ ReplyOK(h, k, m)

\* What may be on a line.
UpSet(k, n)      == {m \in Ups : UpOK(k, m, n)}
DownSet(h, k, n) == {m \in Downs : DownOK(h, k, m, n)}

\* The reply a tab waits for, and the messages up to it, which the tab ignores.
Own(k, m) == m.type = "connect" /\ m.requestId = k.requestId

Unheard(k, q, i) == k.status = "connecting" /\ \A j \in 1 .. i - 1 : ~Own(k, q[j])

\* Every other message from the server leads from what the one before left.
Linked(h, k, q) ==
  /\ \A i \in 2 .. Len(q) : Unheard(k, q, i) \/ LinkOK(h, k, q[i - 1].serverClock, q[i])
  /\ k.status = "connected" /\ q # <<>> => LinkOK(h, k, k.lastServerClock, q[1])

\* A line ends at what the room has told its sessions of.
EndAt(k, q, clock) ==
  /\ q # <<>> => q[Len(q)].serverClock = clock
  /\ q = <<>> /\ k.status = "connected" => k.lastServerClock = clock

\* A client's line: the tab k, its socket up to the server, what is left of
\* replaced ones (lt), what is coming down (q) and the session s, with the storage at n
\* and the room at ld.  If it has been cheated (g) messages are missing from it.
Line(k, up, lt, q, s, g, h, n, ld) ==
  /\ TabOK(k)
  /\ k.lastServerClock <= n
  /\ up \in Seq(UpSet(k, n)) /\ lt \in Seq(UpSet(k, n)) /\ q \in Seq(DownSet(h, k, n))
  /\ k.status = "offline" => up = <<>> /\ q = <<>>
  /\ ~g => Linked(h, k, q)
  /\ s \in {"none", "awaiting", "connected"}
  /\ s = "awaiting" => q = <<>> /\ k.status # "connected"
  /\ ~g /\ s = "connected" /\ k.status # "offline" => EndAt(k, q, ld)

LineOf(c) == Line(tab[c], c2s[c], late[c], s2c[c], session[c], c \in cheated, history, documentClock, lastDocumentClock)

\* The two parts of the invariant.
Sessions == [Client -> {"none", "awaiting", "connected"}]

\* What sessions have queued is at the end of what was sent.
Held ==
  /\ DOMAIN outstanding = Client /\ cheated \subseteq Client /\ misled \subseteq Client
  /\ \A c \in Client : outstanding[c] \in 0 .. Len(s2c[c])

LineInv ==
  /\ Inv
  /\ lastDocumentClock \in 0 .. documentClock
  /\ DOMAIN tab = Client /\ DOMAIN c2s = Client /\ DOMAIN late = Client /\ DOMAIN s2c = Client
  /\ session \in Sessions
  /\ Held
  /\ \A c \in Client : LineOf(c)

QueueInv == ~setup.editsLag => \A c \in Client : Optimistic(tab[c], history, c \in misled) /\ Queued(tab[c])

SyncInv == LineInv /\ QueueInv

-----------------------------------------------------------------------------
(* One record: entries of a RecordsDiff, and ops of a NetworkDiff.         *)

\* What NetworkDiff, Apply and Undo do to one id.
OpFor(e) ==
  IF e.removed # Absent THEN [type |-> "remove", state |-> Absent]
  ELSE IF e.updated # <<>> /\ e.updated[1] # e.updated[2]
  THEN [type |-> "patch",
        state |-> [p \in Prop |-> IF e.updated[1][p] = e.updated[2][p] THEN Unchanged ELSE e.updated[2][p]]]
  ELSE IF e.added # Absent THEN [type |-> "put", state |-> e.added]
  ELSE Unchanged

ApplyOp(x, o) ==
  IF o = Unchanged THEN x
  ELSE IF o.type # "patch" THEN o.state
  ELSE IF x = Absent THEN Absent
  ELSE [p \in Prop |-> IF o.state[p] = Unchanged THEN x[p] ELSE o.state[p]]

UndoEntry(x, e) ==
  IF e.added # Absent THEN Absent
  ELSE IF e.updated # <<>> THEN e.updated[1]
  ELSE IF e.removed # Absent THEN e.removed
  ELSE x

\* They do it to each id by itself.
LEMMA DiffsAt ==
  /\ \A d : NetworkDiff(d) = [id \in RecordId |-> OpFor(d[id])]
  /\ \A s, nd : Apply(s, nd) = [id \in RecordId |-> ApplyOp(s[id], nd[id])]
  /\ \A s, d : Undo(s, d) = [id \in RecordId |-> UndoEntry(s[id], d[id])]
<1>1. ASSUME NEW d PROVE NetworkDiff(d) = [id \in RecordId |-> OpFor(d[id])]
  BY DEF NetworkDiff, OpFor
<1>2. ASSUME NEW s, NEW nd PROVE Apply(s, nd) = [id \in RecordId |-> ApplyOp(s[id], nd[id])]
  BY DEF Apply, ApplyOp
<1>3. ASSUME NEW s, NEW d PROVE Undo(s, d) = [id \in RecordId |-> UndoEntry(s[id], d[id])]
  BY DEF Undo, UndoEntry
<1>4. QED BY <1>1, <1>2, <1>3

\* What is told apart by the assumptions on the constants.
LEMMA Apart ==
  /\ Absent \notin Value /\ Unchanged \notin Maybe /\ Unchanged \notin Val /\ Value = [Prop -> Val]
  /\ Unchanged \notin Ops
  /\ Same \in Entries /\ Same.added = Absent /\ Same.updated = <<>> /\ Same.removed = Absent
BY StorageAssumption, ProtocolAssumption DEF Maybe, Same, Entries

\* An op makes a record, or none, of a record, or none.
LEMMA ApplyOpTyped ==
  ASSUME NEW x \in Maybe, NEW o \in Ops \cup {Unchanged} PROVE ApplyOp(x, o) \in Maybe
<1>1. CASE o = Unchanged BY <1>1 DEF ApplyOp
<1>2. CASE o \in [type : {"put"}, state : Value] BY <1>2, Apart DEF ApplyOp, Maybe, Ops
<1>3. CASE o \in [type : {"remove"}, state : {Absent}] BY <1>3, Apart DEF ApplyOp, Maybe, Ops
<1>4. CASE o \in [type : {"patch"}, state : [Prop -> Val \cup {Unchanged}]]
  <2>1. CASE x = Absent BY <1>4, <2>1, Apart DEF ApplyOp, Maybe, Ops
  <2>2. CASE x \in Value
    <3>1. x \in [Prop -> Val] /\ o.state \in [Prop -> Val \cup {Unchanged}] /\ o # Unchanged /\ x # Absent /\ o.type = "patch"
      BY <1>4, <2>2, Apart DEF Ops
    <3>2. ApplyOp(x, o) = [p \in Prop |-> IF o.state[p] = Unchanged THEN x[p] ELSE o.state[p]]
      BY <3>1 DEF ApplyOp
    <3>3. [p \in Prop |-> IF o.state[p] = Unchanged THEN x[p] ELSE o.state[p]] \in [Prop -> Val]
      BY <3>1
    <3>4. QED BY <3>2, <3>3, Apart DEF Maybe
  <2>3. QED BY <2>1, <2>2 DEF Maybe
<1>5. QED BY <1>1, <1>2, <1>3, <1>4 DEF Ops

\* The op for an entry is none exactly if the entry comes to nothing.
LEMMA OpForTyped ==
  ASSUME NEW e \in Entries PROVE OpFor(e) \in Ops \cup {Unchanged} /\ (OpFor(e) = Unchanged <=> Noop(e))
<1>1. e.added \in Maybe /\ e.removed \in Maybe /\ (e.updated = <<>> \/ e.updated \in Value \X Value)
  BY DEF Entries
<1>2. CASE e.removed # Absent
  <2>1. OpFor(e) = [type |-> "remove", state |-> Absent] BY <1>2 DEF OpFor
  <2>2. OpFor(e) \in Ops BY <2>1 DEF Ops
  <2>3. QED BY <1>2, <2>2, Apart DEF Noop
<1>3. CASE e.removed = Absent /\ e.updated # <<>> /\ e.updated[1] # e.updated[2]
  <2> DEFINE f == [p \in Prop |-> IF e.updated[1][p] = e.updated[2][p] THEN Unchanged ELSE e.updated[2][p]]
  <2>1. OpFor(e) = [type |-> "patch", state |-> f] BY <1>3 DEF OpFor
  <2>2. e.updated[1] \in [Prop -> Val] /\ e.updated[2] \in [Prop -> Val] BY <1>1, <1>3, Apart
  <2>3. f \in [Prop -> Val \cup {Unchanged}] BY <2>2
  <2> HIDE DEF f
  <2>4. OpFor(e) \in Ops BY <2>1, <2>3 DEF Ops
  <2>5. QED BY <1>3, <2>4, Apart DEF Noop
<1>4. CASE e.removed = Absent /\ ~(e.updated # <<>> /\ e.updated[1] # e.updated[2])
  <2>1. CASE e.added # Absent
    <3>1. OpFor(e) = [type |-> "put", state |-> e.added] /\ e.added \in Value BY <1>1, <1>4, <2>1 DEF OpFor, Maybe
    <3>2. OpFor(e) \in Ops BY <3>1 DEF Ops
    <3>3. QED BY <2>1, <3>2, Apart DEF Noop
  <2>2. CASE e.added = Absent
    <3>1. OpFor(e) = Unchanged BY <1>4, <2>2 DEF OpFor
    <3>2. QED BY <3>1, <1>4, <2>2 DEF Noop
  <2>3. QED BY <2>1, <2>2
<1>5. QED BY <1>2, <1>3, <1>4

\* An entry that leads from a to b does so on the network, and the other way
\* when it is undone.
LEMMA LeadsThere ==
  ASSUME NEW a \in Maybe, NEW b \in Maybe, NEW e, LeadsAt(a, b, e)
  PROVE  /\ e \in Entries /\ UndoEntry(b, e) = a /\ ApplyOp(a, OpFor(e)) = b
         /\ Noop(e) => b = a
         /\ e.added # Absent => b # Absent /\ a = Absent
         /\ e.removed # Absent => b = Absent
         /\ e.updated # <<>> => b # Absent
         /\ b = Absent => e = Same \/ e.removed # Absent
         /\ e.added # Absent => e = [Same EXCEPT !.added = e.added]
<1>1. CASE e = Same /\ b = a
  BY <1>1, Apart DEF UndoEntry, ApplyOp, OpFor, Noop
<1>2. CASE a = Absent /\ b # Absent /\ e = [Same EXCEPT !.added = b]
  <2>1. e \in Entries /\ e.added = b /\ e.removed = Absent /\ e.updated = <<>> BY <1>2, Apart DEF Entries, Same
  <2>2. OpFor(e) = [type |-> "put", state |-> b] BY <1>2, <2>1 DEF OpFor
  <2>3. OpFor(e) # Unchanged BY <1>2, <2>1, OpForTyped DEF Noop
  <2>4. ApplyOp(a, OpFor(e)) = b BY <2>2, <2>3 DEF ApplyOp
  <2>5. QED BY <1>2, <2>1, <2>4 DEF UndoEntry, Noop
<1>3. CASE a # Absent /\ b # Absent /\ e = [Same EXCEPT !.updated = <<a, b>>]
  <2>1. e \in Entries /\ e.added = Absent /\ e.removed = Absent /\ e.updated = <<a, b>> BY <1>3, Apart DEF Entries, Same, Maybe
  <2>2. e.updated[1] = a /\ e.updated[2] = b /\ e.updated # <<>> BY <2>1
  <2>3. CASE a = b
    <3>1. Noop(e) /\ OpFor(e) = Unchanged BY <2>1, <2>2, <2>3 DEF Noop, OpFor
    <3>2. QED BY <1>3, <2>1, <2>2, <2>3, <3>1 DEF ApplyOp, UndoEntry
  <2>4. CASE a # b
    <3> DEFINE f == [p \in Prop |-> IF a[p] = b[p] THEN Unchanged ELSE b[p]]
    <3>1. OpFor(e) = [type |-> "patch", state |-> f] BY <2>1, <2>2, <2>4 DEF OpFor
    <3>2. ~Noop(e) /\ OpFor(e) # Unchanged BY <2>1, <2>2, <2>4, OpForTyped DEF Noop
    <3>3. ApplyOp(a, OpFor(e)) = [p \in Prop |-> IF f[p] = Unchanged THEN a[p] ELSE f[p]]
      <4> HIDE DEF f
      <4>1. QED BY <1>3, <3>1, <3>2 DEF ApplyOp
    <3>4. a \in [Prop -> Val] /\ b \in [Prop -> Val] BY <1>3, Apart DEF Maybe
    <3>5. \A p \in Prop : (IF f[p] = Unchanged THEN a[p] ELSE f[p]) = b[p] BY <3>4, Apart
    <3>6. [p \in Prop |-> IF f[p] = Unchanged THEN a[p] ELSE f[p]] = b
      <4> HIDE DEF f
      <4>1. QED BY <3>4, <3>5
    <3>7. QED BY <1>3, <2>1, <2>2, <3>2, <3>3, <3>6 DEF UndoEntry
  <2>5. QED BY <2>3, <2>4
<1>4. CASE a # Absent /\ b = Absent /\ e = [Same EXCEPT !.removed = a]
  <2>1. e \in Entries /\ e.added = Absent /\ e.removed = a /\ e.updated = <<>> BY <1>4, Apart DEF Entries, Same
  <2>2. OpFor(e) = [type |-> "remove", state |-> Absent] BY <1>4, <2>1 DEF OpFor
  <2>3. OpFor(e) # Unchanged BY <1>4, <2>1, OpForTyped DEF Noop
  <2>4. ApplyOp(a, OpFor(e)) = b BY <1>4, <2>2, <2>3 DEF ApplyOp
  <2>5. QED BY <1>4, <2>1, <2>4 DEF UndoEntry, Noop
<1>5. QED BY <1>1, <1>2, <1>3, <1>4 DEF LeadsAt

\* The entry between two states leads from one to the other.
LEMMA EntryLeads ==
  ASSUME NEW a \in Maybe, NEW b \in Maybe
  PROVE  LeadsAt(a, b, Entry(a, b)) /\ (a # b => ~Noop(Entry(a, b))) /\ (a = b => Entry(a, b) = Same)
BY Apart DEF LeadsAt, Entry, Noop, Same, Maybe

\* Squashed entries are entries.
LEMMA SquashTyped ==
  ASSUME NEW d \in Entries, NEW e \in Entries PROVE squash(d, e) \in Entries
<1>1. /\ d.added \in Maybe /\ d.removed \in Maybe /\ (d.updated = <<>> \/ d.updated \in Value \X Value)
      /\ e.added \in Maybe /\ e.removed \in Maybe /\ (e.updated = <<>> \/ e.updated \in Value \X Value)
      /\ d = [added |-> d.added, updated |-> d.updated, removed |-> d.removed]
  BY DEF Entries
<1>2. CASE e = Same BY <1>2 DEF squash
<1>3. CASE e # Same /\ e.added # Absent
  <2>1. CASE d.removed = Absent BY <1>1, <1>3, <2>1 DEF squash, Entries
  <2>2. CASE d.removed # Absent
    <3>1. <<d.removed, e.added>> \in Value \X Value BY <1>1, <1>3, <2>2 DEF Maybe
    <3>2. QED BY <1>1, <1>3, <2>2, <3>1 DEF squash, Entries, Maybe
  <2>3. QED BY <2>1, <2>2
<1>4. CASE e # Same /\ e.added = Absent /\ e.updated # <<>>
  <2>1. e.updated \in Value \X Value /\ e.updated[2] \in Value /\ e.updated[1] \in Value BY <1>1, <1>4
  <2>2. CASE d.added # Absent BY <1>1, <1>4, <2>1, <2>2 DEF squash, Entries, Maybe, Same
  <2>3. CASE d.added = Absent
    <3>1. (IF d.updated = <<>> THEN e ELSE d).updated[1] \in Value BY <1>1, <2>1
    <3>2. <<(IF d.updated = <<>> THEN e ELSE d).updated[1], e.updated[2]>> \in Value \X Value BY <2>1, <3>1
    <3>3. squash(d, e) = [Same EXCEPT !.updated = <<(IF d.updated = <<>> THEN e ELSE d).updated[1], e.updated[2]>>]
      BY <1>4, <2>3 DEF squash
    <3>4. QED BY <3>2, <3>3 DEF Entries, Maybe, Same
  <2>4. QED BY <2>2, <2>3
<1>5. CASE e # Same /\ e.added = Absent /\ e.updated = <<>>
  <2>1. CASE d.added # Absent BY <1>1, <1>5, <2>1 DEF squash, Entries, Maybe
  <2>2. CASE d.added = Absent
    <3>1. (IF d.updated = <<>> THEN e.removed ELSE d.updated[1]) \in Maybe BY <1>1 DEF Maybe
    <3>2. squash(d, e) = [Same EXCEPT !.removed = IF d.updated = <<>> THEN e.removed ELSE d.updated[1]]
      BY <1>5, <2>2 DEF squash
    <3>3. QED BY <3>1, <3>2 DEF Entries, Maybe, Same
  <2>3. QED BY <2>1, <2>2
<1>6. QED BY <1>2, <1>3, <1>4, <1>5

\* Squashing a change onto an entry that leads to where the change starts.
LEMMA SquashLeads ==
  ASSUME NEW a \in Maybe, NEW b \in Maybe, NEW t \in Maybe, NEW d, LeadsAt(a, b, d)
  PROVE  LeadsAt(a, t, squash(d, Entry(b, t)))
<1>1. CASE b = t BY <1>1, EntryLeads DEF squash
<1>2. CASE b # t /\ b = Absent
  <2>1. Entry(b, t) = [Same EXCEPT !.added = t] /\ t # Absent BY <1>2 DEF Entry
  <2>2. Entry(b, t) # Same /\ Entry(b, t).added = t BY <2>1 DEF Same
  <2>3. CASE d = Same /\ b = a BY <1>2, <2>1, <2>2, <2>3, Apart DEF squash, LeadsAt
  <2>4. CASE a # Absent /\ d = [Same EXCEPT !.removed = a]
    <3>1. d.removed = a BY <2>4 DEF Same
    <3>2. squash(d, Entry(b, t)) = [Same EXCEPT !.updated = <<a, t>>]
      BY <2>1, <2>2, <2>4, <3>1 DEF squash, Same
    <3>3. QED BY <2>1, <2>4, <3>2 DEF LeadsAt
  <2>5. QED BY <1>2, <2>3, <2>4 DEF LeadsAt
<1>3. CASE b # t /\ b # Absent /\ t = Absent
  <2>1. Entry(b, t) = [Same EXCEPT !.removed = b] BY <1>3 DEF Entry
  <2>2. Entry(b, t) # Same /\ Entry(b, t).added = Absent /\ Entry(b, t).updated = <<>> /\ Entry(b, t).removed = b BY <1>3, <2>1 DEF Same
  <2>3. CASE d = Same /\ b = a BY <1>3, <2>1, <2>2, <2>3, Apart DEF squash, LeadsAt
  <2>4. CASE a = Absent /\ d = [Same EXCEPT !.added = b]
    <3>1. d.added = b BY <2>4 DEF Same
    <3>2. squash(d, Entry(b, t)) = Same
      BY <1>3, <2>2, <2>4, <3>1 DEF squash, Same
    <3>3. QED BY <1>3, <2>4, <3>2 DEF LeadsAt
  <2>5. CASE a # Absent /\ d = [Same EXCEPT !.updated = <<a, b>>]
    <3>1. d.added = Absent /\ d.updated = <<a, b>> BY <2>5 DEF Same
    <3>2. squash(d, Entry(b, t)) = [Same EXCEPT !.removed = a]
      BY <2>2, <3>1 DEF squash
    <3>3. QED BY <1>3, <2>5, <3>2 DEF LeadsAt
  <2>6. QED BY <1>3, <2>3, <2>4, <2>5 DEF LeadsAt
<1>4. CASE b # t /\ b # Absent /\ t # Absent
  <2>1. Entry(b, t) = [Same EXCEPT !.updated = <<b, t>>] BY <1>4 DEF Entry
  <2>2. Entry(b, t) # Same /\ Entry(b, t).added = Absent /\ Entry(b, t).updated = <<b, t>> BY <1>4, <2>1 DEF Same
  <2>3. CASE d = Same /\ b = a BY <1>4, <2>1, <2>2, <2>3, Apart DEF squash, LeadsAt
  <2>4. CASE a = Absent /\ d = [Same EXCEPT !.added = b]
    <3>1. d.added = b BY <2>4 DEF Same
    <3>2. squash(d, Entry(b, t)) = [Same EXCEPT !.added = t]
      BY <1>4, <2>2, <3>1 DEF squash
    <3>3. QED BY <1>4, <2>4, <3>2 DEF LeadsAt
  <2>5. CASE a # Absent /\ d = [Same EXCEPT !.updated = <<a, b>>]
    <3>1. d.added = Absent /\ d.updated = <<a, b>> BY <2>5 DEF Same
    <3>2. squash(d, Entry(b, t)) = [Same EXCEPT !.updated = <<a, t>>]
      BY <2>2, <3>1 DEF squash
    <3>3. QED BY <1>4, <2>5, <3>2 DEF LeadsAt
  <2>6. QED BY <1>4, <2>3, <2>4, <2>5 DEF LeadsAt
<1>5. QED BY <1>1, <1>2, <1>3, <1>4

-----------------------------------------------------------------------------
(* What FoldLeft computes: a chain of states, one for each element.        *)

\* The folds of the model, unrolled: v[i] is what the first i elements give.
ReceiveChain(v, n, base, msgs) ==
  v[0] = base /\ v[n] = FoldLeft(receive, base, msgs) /\ \A i \in 1 .. n : v[i] = receive(v[i - 1], msgs[i])

LEMMA ReceiveFold ==
  ASSUME NEW n \in Nat, NEW M, NEW msgs \in [1 .. n -> M], NEW R, NEW base \in R,
         \A x \in R, m \in M : receive(x, m) \in R
  PROVE  \E v \in [0 .. n -> R] : ReceiveChain(v, n, base, msgs)
<1> DEFINE S == 1 .. n
           top(s) == GreatestIn(s)
           F(g) == g = [s \in SUBSET S |-> IF s = {} THEN base ELSE receive(g[s \ {top(s)}], msgs[top(s)])]
           step == [i \in S |-> [x \in R |-> receive(x, msgs[i])]]
           fold == CHOOSE g : F(g)
           v == [i \in 0 .. n |-> fold[1 .. i]]
<1>1. /\ \A s \in SUBSET S : s # {} => top(s) \in s
      /\ \A i \in S : top(1 .. i) = i /\ (1 .. i) \ {i} = 1 .. i - 1
  BY GreatestIsIn
<1>2. PICK it \in [SUBSET S -> R] : FoldsDown(it, n, base, step)
  <2>1. step \in [S -> [R -> R]] OBVIOUS
  <2> HIDE DEF step
  <2>2. QED BY <2>1, SequenceFold
<1> HIDE DEF top
<1>3. F(it)
  <2>1. \A s \in SUBSET S : s # {} => top(s) \in S /\ s \ {top(s)} \in SUBSET S BY <1>1
  <2>2. \A s \in SUBSET S : it[s] = IF s = {} THEN base ELSE receive(it[s \ {top(s)}], msgs[top(s)])
    BY <1>2, <2>1 DEF FoldsDown, top
  <2>3. QED BY <2>2
<1>4. FoldLeft(receive, base, msgs) = fold[S]
  <2>1. DOMAIN msgs = S OBVIOUS
  <2>2. QED BY <2>1 DEF FoldLeft, MapThenFoldSet, top, GreatestIn, Max
<1>5. \A s \in SUBSET S : fold[s] = IF s = {} THEN base ELSE receive(fold[s \ {top(s)}], msgs[top(s)])
  <2>1. F(fold)
    <3> HIDE DEF F
    <3>1. QED BY <1>3
  <2> HIDE DEF fold
  <2>2. QED BY <2>1
<1> HIDE DEF fold
<1>6. ASSUME NEW i \in S PROVE v[i] = receive(v[i - 1], msgs[i])
  <2>1. 1 .. i \in SUBSET S /\ 1 .. i # {} /\ i - 1 \in 0 .. n /\ i \in 0 .. n
    <3>1. i \in Nat /\ i >= 1 /\ i <= n /\ 1 \in 1 .. i OBVIOUS
    <3>2. 1 .. i # {} BY <3>1
    <3>3. 1 .. i \subseteq 1 .. n BY <3>1
    <3>4. QED BY <3>1, <3>2, <3>3
  <2>2. fold[1 .. i] = receive(fold[1 .. i - 1], msgs[i]) BY <1>1, <1>5, <2>1
  <2>3. QED BY <2>1, <2>2
<1>7. v[0] = base
  <2>1. 1 .. 0 = {} /\ 0 \in 0 .. n /\ {} \in SUBSET S OBVIOUS
  <2>2. fold[{}] = base BY <1>5, <2>1
  <2>3. QED BY <2>1, <2>2
<1>8. v[n] = FoldLeft(receive, base, msgs) BY <1>4
<1>9. v \in [0 .. n -> R]
  <2> DEFINE G == {i \in 0 .. n : v[i] \in R}
  <2> HIDE DEF v
  <2>1. 0 \in G BY <1>7
  <2>2. \A i \in S : i - 1 \in G => i \in G BY <1>6
  <2>3. \A i \in 0 .. n : i \in G
    <3> HIDE DEF G
    <3>1. QED BY <2>1, <2>2, CountingUp
  <2>4. QED BY <2>3 DEF v
<1> HIDE DEF v
<1>10. QED BY <1>6, <1>7, <1>8, <1>9 DEF ReceiveChain

PushChain(v, n, base, msgs) ==
  v[0] = base /\ v[n] = FoldLeft(push, base, msgs) /\ \A i \in 1 .. n : v[i] = push(v[i - 1], msgs[i])

LEMMA PushFold ==
  ASSUME NEW n \in Nat, NEW M, NEW msgs \in [1 .. n -> M], NEW R, NEW base \in R,
         \A x \in R, m \in M : push(x, m) \in R
  PROVE  \E v \in [0 .. n -> R] : PushChain(v, n, base, msgs)
<1> DEFINE S == 1 .. n
           top(s) == GreatestIn(s)
           F(g) == g = [s \in SUBSET S |-> IF s = {} THEN base ELSE push(g[s \ {top(s)}], msgs[top(s)])]
           step == [i \in S |-> [x \in R |-> push(x, msgs[i])]]
           fold == CHOOSE g : F(g)
           v == [i \in 0 .. n |-> fold[1 .. i]]
<1>1. /\ \A s \in SUBSET S : s # {} => top(s) \in s
      /\ \A i \in S : top(1 .. i) = i /\ (1 .. i) \ {i} = 1 .. i - 1
  BY GreatestIsIn
<1>2. PICK it \in [SUBSET S -> R] : FoldsDown(it, n, base, step)
  <2>1. step \in [S -> [R -> R]] OBVIOUS
  <2> HIDE DEF step
  <2>2. QED BY <2>1, SequenceFold
<1> HIDE DEF top
<1>3. F(it)
  <2>1. \A s \in SUBSET S : s # {} => top(s) \in S /\ s \ {top(s)} \in SUBSET S BY <1>1
  <2>2. \A s \in SUBSET S : it[s] = IF s = {} THEN base ELSE push(it[s \ {top(s)}], msgs[top(s)])
    BY <1>2, <2>1 DEF FoldsDown, top
  <2>3. QED BY <2>2
<1>4. FoldLeft(push, base, msgs) = fold[S]
  <2>1. DOMAIN msgs = S OBVIOUS
  <2>2. QED BY <2>1 DEF FoldLeft, MapThenFoldSet, top, GreatestIn, Max
<1>5. \A s \in SUBSET S : fold[s] = IF s = {} THEN base ELSE push(fold[s \ {top(s)}], msgs[top(s)])
  <2>1. F(fold)
    <3> HIDE DEF F
    <3>1. QED BY <1>3
  <2> HIDE DEF fold
  <2>2. QED BY <2>1
<1> HIDE DEF fold
<1>6. ASSUME NEW i \in S PROVE v[i] = push(v[i - 1], msgs[i])
  <2>1. 1 .. i \in SUBSET S /\ 1 .. i # {} /\ i - 1 \in 0 .. n /\ i \in 0 .. n
    <3>1. i \in Nat /\ i >= 1 /\ i <= n /\ 1 \in 1 .. i OBVIOUS
    <3>2. 1 .. i # {} BY <3>1
    <3>3. 1 .. i \subseteq 1 .. n BY <3>1
    <3>4. QED BY <3>1, <3>2, <3>3
  <2>2. fold[1 .. i] = push(fold[1 .. i - 1], msgs[i]) BY <1>1, <1>5, <2>1
  <2>3. QED BY <2>1, <2>2
<1>7. v[0] = base
  <2>1. 1 .. 0 = {} /\ 0 \in 0 .. n /\ {} \in SUBSET S OBVIOUS
  <2>2. fold[{}] = base BY <1>5, <2>1
  <2>3. QED BY <2>1, <2>2
<1>8. v[n] = FoldLeft(push, base, msgs) BY <1>4
<1>9. v \in [0 .. n -> R]
  <2> DEFINE G == {i \in 0 .. n : v[i] \in R}
  <2> HIDE DEF v
  <2>1. 0 \in G BY <1>7
  <2>2. \A i \in S : i - 1 \in G => i \in G BY <1>6
  <2>3. \A i \in 0 .. n : i \in G
    <3> HIDE DEF G
    <3>1. QED BY <2>1, <2>2, CountingUp
  <2>4. QED BY <2>3 DEF v
<1> HIDE DEF v
<1>10. QED BY <1>6, <1>7, <1>8, <1>9 DEF PushChain

\* One step of Reapplied.
Redo(acc, nd) ==
  [at |-> Apply(acc.at, nd), diff |-> Squash(acc.diff, Changes(acc.at, Apply(acc.at, nd)))]

RedoChain(v, n, s, msgs) ==
  v[0] = [at |-> s, diff |-> NoDiff] /\ v[n] = Reapplied(s, msgs) /\ \A i \in 1 .. n : v[i] = Redo(v[i - 1], msgs[i])

LEMMA RedoFold ==
  ASSUME NEW n \in Nat, NEW M, NEW msgs \in [1 .. n -> M], NEW R, NEW s,
         [at |-> s, diff |-> NoDiff] \in R,
         \A x \in R, m \in M : Redo(x, m) \in R
  PROVE  \E v \in [0 .. n -> R] : RedoChain(v, n, s, msgs)
<1> DEFINE S == 1 .. n
           base == [at |-> s, diff |-> NoDiff]
           top(u) == GreatestIn(u)
           F(g) == g = [u \in SUBSET S |-> IF u = {} THEN base ELSE Redo(g[u \ {top(u)}], msgs[top(u)])]
           step == [i \in S |-> [x \in R |-> Redo(x, msgs[i])]]
           fold == CHOOSE g : F(g)
           v == [i \in 0 .. n |-> fold[1 .. i]]
<1>1. /\ \A u \in SUBSET S : u # {} => top(u) \in u
      /\ \A i \in S : top(1 .. i) = i /\ (1 .. i) \ {i} = 1 .. i - 1
  BY GreatestIsIn
<1>2. PICK it \in [SUBSET S -> R] : FoldsDown(it, n, base, step)
  <2>1. step \in [S -> [R -> R]] OBVIOUS
  <2> HIDE DEF step
  <2>2. QED BY <2>1, SequenceFold
<1> HIDE DEF top
<1>3. F(it)
  <2>1. \A u \in SUBSET S : u # {} => top(u) \in S /\ u \ {top(u)} \in SUBSET S BY <1>1
  <2>2. \A u \in SUBSET S : it[u] = IF u = {} THEN base ELSE Redo(it[u \ {top(u)}], msgs[top(u)])
    BY <1>2, <2>1 DEF FoldsDown, top
  <2>3. QED BY <2>2
<1>4. Reapplied(s, msgs) = fold[S]
  <2>1. DOMAIN msgs = S OBVIOUS
  <2>2. QED BY <2>1 DEF Reapplied, Redo, FoldLeft, MapThenFoldSet, top, GreatestIn, Max
<1>5. \A u \in SUBSET S : fold[u] = IF u = {} THEN base ELSE Redo(fold[u \ {top(u)}], msgs[top(u)])
  <2>1. F(fold)
    <3> HIDE DEF F
    <3>1. QED BY <1>3
  <2> HIDE DEF fold
  <2>2. QED BY <2>1
<1> HIDE DEF fold
<1>6. ASSUME NEW i \in S PROVE v[i] = Redo(v[i - 1], msgs[i])
  <2>1. 1 .. i \in SUBSET S /\ 1 .. i # {} /\ i - 1 \in 0 .. n /\ i \in 0 .. n
    <3>1. i \in Nat /\ i >= 1 /\ i <= n /\ 1 \in 1 .. i OBVIOUS
    <3>2. 1 .. i # {} BY <3>1
    <3>3. 1 .. i \subseteq 1 .. n BY <3>1
    <3>4. QED BY <3>1, <3>2, <3>3
  <2>2. fold[1 .. i] = Redo(fold[1 .. i - 1], msgs[i]) BY <1>1, <1>5, <2>1
  <2>3. QED BY <2>1, <2>2
<1>7. v[0] = base
  <2>1. 1 .. 0 = {} /\ 0 \in 0 .. n /\ {} \in SUBSET S OBVIOUS
  <2>2. fold[{}] = base BY <1>5, <2>1
  <2>3. QED BY <2>1, <2>2
<1>8. v[n] = Reapplied(s, msgs) BY <1>4
<1>9. v \in [0 .. n -> R]
  <2> DEFINE G == {i \in 0 .. n : v[i] \in R}
  <2> HIDE DEF v
  <2>1. 0 \in G BY <1>7
  <2>2. \A i \in S : i - 1 \in G => i \in G BY <1>6
  <2>3. \A i \in 0 .. n : i \in G
    <3> HIDE DEF G
    <3>1. QED BY <2>1, <2>2, CountingUp
  <2>4. QED BY <2>3 DEF v
<1> HIDE DEF v
<1>10. QED BY <1>6, <1>7, <1>8, <1>9 DEF RedoChain

-----------------------------------------------------------------------------
(* All records.                                                            *)

\* Operations on whole diffs and stores keep their types.
LEMMA WholeTypes ==
  /\ NoRecords \in Contents /\ NoDiff \in Recorded
  /\ \A s, t \in Contents : Changes(s, t) \in Recorded
  /\ \A d, e \in Recorded : Squash(d, e) \in Recorded
  /\ \A d \in Recorded : NetworkDiff(d) \in NetDiffs
  /\ \A s \in Contents, nd \in NetDiffs : Apply(s, nd) \in Contents
  /\ \A s \in Contents, d \in Recorded : Undo(s, d) \in Contents
<1>1. NoRecords \in Contents /\ NoDiff \in Recorded
  BY Apart DEF NoRecords, Contents, NoDiff, Recorded
<1>2. ASSUME NEW s \in Contents, NEW t \in Contents PROVE Changes(s, t) \in Recorded
  <2>1. \A id \in RecordId : Entry(s[id], t[id]) \in Entries
    <3>1. SUFFICES ASSUME NEW id \in RecordId PROVE Entry(s[id], t[id]) \in Entries
      OBVIOUS
    <3>2. s[id] \in Maybe /\ t[id] \in Maybe BY <1>2 DEF Contents, Maybe
    <3>3. QED BY <3>2, EntryLeads, LeadsThere
  <2>2. QED BY <2>1 DEF Changes, Recorded
<1>3. ASSUME NEW d \in Recorded, NEW e \in Recorded PROVE Squash(d, e) \in Recorded
  <2>1. \A id \in RecordId : squash(d[id], e[id]) \in Entries BY SquashTyped DEF Recorded
  <2>2. QED BY <2>1 DEF Squash, Recorded
<1>4. ASSUME NEW d \in Recorded PROVE NetworkDiff(d) \in NetDiffs
  <2>1. \A id \in RecordId : OpFor(d[id]) \in Ops \cup {Unchanged} BY OpForTyped DEF Recorded
  <2>2. NetworkDiff(d) = [id \in RecordId |-> OpFor(d[id])] BY DiffsAt
  <2>3. QED BY <2>1, <2>2 DEF NetDiffs
<1>5. ASSUME NEW s \in Contents, NEW nd \in NetDiffs PROVE Apply(s, nd) \in Contents
  <2>1. \A id \in RecordId : ApplyOp(s[id], nd[id]) \in Maybe BY ApplyOpTyped DEF Contents, NetDiffs, Maybe
  <2>2. Apply(s, nd) = [id \in RecordId |-> ApplyOp(s[id], nd[id])] BY DiffsAt
  <2>3. QED BY <2>1, <2>2 DEF Contents, Maybe
<1>6. ASSUME NEW s \in Contents, NEW d \in Recorded PROVE Undo(s, d) \in Contents
  <2>1. \A id \in RecordId : UndoEntry(s[id], d[id]) \in Maybe
    <3>1. SUFFICES ASSUME NEW id \in RecordId PROVE UndoEntry(s[id], d[id]) \in Maybe
      OBVIOUS
    <3>2. s[id] \in Maybe /\ d[id] \in Entries BY <1>6 DEF Contents, Maybe, Recorded
    <3>3. QED BY <3>2 DEF UndoEntry, Entries, Maybe
  <2>2. Undo(s, d) = [id \in RecordId |-> UndoEntry(s[id], d[id])] BY DiffsAt
  <2>3. QED BY <2>1, <2>2 DEF Contents, Maybe
<1>7. QED BY <1>1, <1>2, <1>3, <1>4, <1>5, <1>6

\* The network diff of what leads from s to t takes s to t, and undoing it
\* takes t to s.
LEMMA LeadsWhole ==
  ASSUME NEW s \in Contents, NEW t \in Contents, NEW d \in Recorded, Leads(s, t, d)
  PROVE  Apply(s, NetworkDiff(d)) = t /\ Undo(t, d) = s
<1>1. \A id \in RecordId : s[id] \in Maybe /\ t[id] \in Maybe /\ LeadsAt(s[id], t[id], d[id])
  BY DEF Contents, Maybe, Leads
<1>2. \A id \in RecordId : ApplyOp(s[id], OpFor(d[id])) = t[id] /\ UndoEntry(t[id], d[id]) = s[id]
  BY <1>1, LeadsThere
<1>3. Apply(s, NetworkDiff(d)) = [id \in RecordId |-> ApplyOp(s[id], OpFor(d[id]))]
  BY DiffsAt
<1>4. Undo(t, d) = [id \in RecordId |-> UndoEntry(t[id], d[id])]
  BY DiffsAt
<1>5. QED BY <1>2, <1>3, <1>4 DEF Contents

\* The changes between two stores lead from one to the other.
LEMMA ChangesLead ==
  ASSUME NEW s \in Contents, NEW t \in Contents
  PROVE  Leads(s, t, Changes(s, t)) /\ Apply(s, NetworkDiff(Changes(s, t))) = t
<1>1. Leads(s, t, Changes(s, t))
  <2>1. \A id \in RecordId : s[id] \in Maybe /\ t[id] \in Maybe BY DEF Contents, Maybe
  <2>2. QED BY <2>1, EntryLeads DEF Leads, Changes
<1>2. QED BY <1>1, LeadsWhole, WholeTypes

\* Changes squashed onto what leads to where they start lead to where they end.
LEMMA SquashLead ==
  ASSUME NEW s \in Contents, NEW t \in Contents, NEW u \in Contents, NEW d \in Recorded, Leads(s, t, d)
  PROVE  Leads(s, u, Squash(d, Changes(t, u)))
<1>1. \A id \in RecordId : s[id] \in Maybe /\ t[id] \in Maybe /\ u[id] \in Maybe /\ LeadsAt(s[id], t[id], d[id])
  BY DEF Contents, Maybe, Leads
<1>2. \A id \in RecordId : LeadsAt(s[id], u[id], squash(d[id], Entry(t[id], u[id])))
  BY <1>1, SquashLeads
<1>3. \A id \in RecordId : Squash(d, Changes(t, u))[id] = squash(d[id], Entry(t[id], u[id]))
  BY DEF Squash, Changes
<1>4. QED BY <1>2, <1>3 DEF Leads

\* What leads to a store leads there from what undoing it gives.
LEMMA UndoneLeads ==
  ASSUME NEW s \in Contents, NEW t \in Contents, NEW d \in Recorded, Leads(s, t, d)
  PROVE  Leads(Undo(t, d), t, d)
BY LeadsWhole

\* No changes lead nowhere.
LEMMA NothingLeads ==
  \A s \in Contents : Leads(s, s, NoDiff) /\ Apply(s, NoOps) = s
<1>1. SUFFICES ASSUME NEW s \in Contents PROVE Leads(s, s, NoDiff) /\ Apply(s, NoOps) = s
  OBVIOUS
<1>2. Leads(s, s, NoDiff) BY DEF Leads, LeadsAt, NoDiff
<1>3. Apply(s, NoOps) = s
  <2>1. Apply(s, NoOps) = [id \in RecordId |-> ApplyOp(s[id], NoOps[id])] BY DiffsAt
  <2>2. \A id \in RecordId : ApplyOp(s[id], NoOps[id]) = s[id] BY DEF ApplyOp, NoOps
  <2>3. QED BY <2>1, <2>2 DEF Contents
<1>4. QED BY <1>2, <1>3

\* What is re-applied leads from where it started.
LEMMA ReappliedLeads ==
  ASSUME NEW s \in Contents, NEW n \in Nat, NEW nds \in [1 .. n -> NetDiffs]
  PROVE  LET r == Reapplied(s, nds) IN
         /\ r.at \in Contents /\ r.diff \in Recorded /\ Leads(s, r.at, r.diff)
         /\ (\A i \in 1 .. n : nds[i] = NoOps) => r.at = s /\ r.diff = NoDiff
<1> DEFINE R == [at : Contents, diff : Recorded]
           base == [at |-> s, diff |-> NoDiff]
<1>1. base \in R /\ base.at = s BY WholeTypes
<1>2. ASSUME NEW x \in R, NEW nd \in NetDiffs
      PROVE  /\ Redo(x, nd) \in R
             /\ Leads(s, x.at, x.diff) => Leads(s, Redo(x, nd).at, Redo(x, nd).diff)
  <2>1. x.at \in Contents /\ x.diff \in Recorded /\ Apply(x.at, nd) \in Contents BY <1>2, WholeTypes
  <2>2. Redo(x, nd) \in R BY <2>1, WholeTypes DEF Redo
  <2>3. Leads(s, x.at, x.diff) => Leads(s, Apply(x.at, nd), Squash(x.diff, Changes(x.at, Apply(x.at, nd))))
    BY <2>1, SquashLead
  <2>4. QED BY <2>2, <2>3 DEF Redo
<1>3. PICK v \in [0 .. n -> R] :
        v[0] = base /\ v[n] = Reapplied(s, nds) /\ \A i \in 1 .. n : v[i] = Redo(v[i - 1], nds[i])
  <2>1. \A x \in R, nd \in NetDiffs : Redo(x, nd) \in R BY <1>2
  <2> HIDE DEF R
  <2>2. \E v \in [0 .. n -> R] : RedoChain(v, n, s, nds) BY <1>1, <2>1, RedoFold
  <2>3. QED BY <2>2 DEF RedoChain
<1> HIDE DEF R
<1>4. v[n] \in R /\ 0 \in 0 .. n /\ n \in 0 .. n BY <1>3
<1>5. Leads(s, v[n].at, v[n].diff)
  <2> DEFINE G == {i \in 0 .. n : Leads(s, v[i].at, v[i].diff)}
  <2>1. 0 \in G BY <1>3, <1>4, NothingLeads
  <2>2. ASSUME NEW i \in 1 .. n, i - 1 \in G PROVE i \in G
    <3>1. i \in 0 .. n /\ i - 1 \in 0 .. n BY <2>2
    <3>2. v[i - 1] \in R /\ v[i] = Redo(v[i - 1], nds[i]) /\ nds[i] \in NetDiffs BY <1>3, <3>1
    <3>3. QED BY <1>2, <2>2, <3>1, <3>2
  <2>3. n \in G
    <3> HIDE DEF G
    <3>1. QED BY <1>4, <2>1, <2>2, CountingUp
  <2>4. QED BY <2>3
<1>6. ASSUME \A i \in 1 .. n : nds[i] = NoOps PROVE v[n].at = s /\ v[n].diff = NoDiff
  <2> DEFINE G == {i \in 0 .. n : v[i] = base}
  <2>1. 0 \in G BY <1>3, <1>4
  <2>2. ASSUME NEW i \in 1 .. n, i - 1 \in G PROVE i \in G
    <3>1. i \in 0 .. n /\ i - 1 \in 0 .. n BY <2>2
    <3>2. v[i] = Redo(base, NoOps) BY <1>3, <1>6, <2>2, <3>1
    <3>3. Apply(s, NoOps) = s BY NothingLeads
    <3>4. Squash(NoDiff, Changes(s, s)) = NoDiff
      BY DEF Squash, Changes, NoDiff, Entry, squash
    <3>5. QED BY <3>1, <3>2, <3>3, <3>4 DEF Redo
  <2>3. n \in G
    <3> HIDE DEF G
    <3>1. QED BY <1>4, <2>1, <2>2, CountingUp
  <2>4. QED BY <2>3
<1>7. QED BY <1>3, <1>4, <1>5, <1>6 DEF R

-----------------------------------------------------------------------------
(* What the methods of a client do to its tab.                             *)

\* Only what records the changes of the store differs.
Records(x, k) ==
  /\ x.store = k.store /\ x.pending = k.pending /\ x.clientClock = k.clientClock
  /\ x.lastServerClock = k.lastServerClock /\ x.status = k.status /\ x.requestId = k.requestId
  /\ k.status # "connected" => x.nextDiff = k.nextDiff

\* A report of the store's history touches the speculative and the unsent changes.
LEMMA PushIs ==
  ASSUME NEW k \in Tabs, NEW d \in Recorded
  PROVE  /\ push(k, d) \in Tabs /\ Records(push(k, d), k) /\ push(k, d).unflushed = k.unflushed
         /\ push(k, d).speculative = Squash(k.speculative, d)
         /\ k.status = "connected" => push(k, d).nextDiff = Squash(k.nextDiff, d)
<1>1. k.speculative \in Recorded /\ k.nextDiff \in Recorded BY DEF Tabs
<1>2. Squash(k.speculative, d) \in Recorded /\ Squash(k.nextDiff, d) \in Recorded BY <1>1, WholeTypes
<1> DEFINE a == Squash(k.speculative, d)
           b == IF k.status = "connected" THEN Squash(k.nextDiff, d) ELSE k.nextDiff
<1>3. push(k, d) = [k EXCEPT !.speculative = a, !.nextDiff = b] BY DEF push
<1>4. a \in Recorded /\ b \in Recorded /\ (k.status # "connected" => b = k.nextDiff) BY <1>1, <1>2
<1>5. k.status = "connected" => b = Squash(k.nextDiff, d) OBVIOUS
<1> HIDE DEF b
<1>6. QED BY <1>3, <1>4, <1>5 DEF Tabs, Records

\* So do all of them together.
LEMMA FlushHistoryIs ==
  ASSUME NEW k \in Tabs
  PROVE  LET y == flushHistory(k) IN
         /\ y \in Tabs /\ Records(y, k) /\ y.unflushed = <<>>
         /\ k.unflushed = <<>> => y = k
<1> DEFINE n == Len(k.unflushed)
           R == {x \in Tabs : Records(x, k)}
           y == flushHistory(k)
<1>1. n \in Nat /\ k.unflushed \in [1 .. n -> Recorded] /\ k \in R BY DEF Tabs, Records
<1>2. \A x \in R, d \in Recorded : push(x, d) \in R
  <2>1. SUFFICES ASSUME NEW x \in R, NEW d \in Recorded PROVE push(x, d) \in R
    OBVIOUS
  <2>2. push(x, d) \in Tabs /\ Records(push(x, d), x) /\ x \in Tabs /\ Records(x, k) BY PushIs
  <2>3. QED BY <2>2 DEF Records
<1>3. PICK v \in [0 .. n -> R] : PushChain(v, n, k, k.unflushed)
  <2> HIDE DEF R, n
  <2>1. QED BY <1>1, <1>2, PushFold
<1>4. v[n] = FoldLeft(push, k, k.unflushed) /\ v[0] = k /\ v[n] \in R BY <1>1, <1>3 DEF PushChain
<1>5. y = [v[n] EXCEPT !.unflushed = <<>>] BY <1>4 DEF flushHistory
<1>6. y \in Tabs /\ Records(y, k) /\ y.unflushed = <<>>
  <2>1. v[n] \in Tabs /\ Records(v[n], k) /\ <<>> \in Seq(Recorded) BY <1>4
  <2> DEFINE x == v[n]
  <2>2. y = [x EXCEPT !.unflushed = <<>>] BY <1>5
  <2> HIDE DEF x, y
  <2>3. QED BY <2>1, <2>2 DEF x, Tabs, Records
<1>7. ASSUME k.unflushed = <<>> PROVE y = k
  <2>1. n = 0 BY <1>7
  <2>2. y = [k EXCEPT !.unflushed = <<>>] BY <1>4, <1>5, <2>1
  <2>3. QED BY <1>7, <2>2 DEF Tabs
<1>8. QED BY <1>6, <1>7

\* One report.
LEMMA FlushOneIs ==
  ASSUME NEW k \in Tabs, NEW d \in Recorded, k.unflushed = <<d>>
  PROVE  flushHistory(k) = [push(k, d) EXCEPT !.unflushed = <<>>]
<1> DEFINE R == Tabs
<1>1. k.unflushed \in [1 .. 1 -> Recorded] /\ 1 \in Nat BY DEF Tabs
<1>2. \A x \in R, e \in Recorded : push(x, e) \in R BY PushIs
<1>3. PICK v \in [0 .. 1 -> R] : PushChain(v, 1, k, k.unflushed)
  <2> HIDE DEF R
  <2>1. k \in R BY DEF R
  <2>2. QED BY <1>1, <1>2, <2>1, PushFold
<1>4. v[0] = k /\ v[1] = FoldLeft(push, k, k.unflushed) /\ v[1] = push(v[1 - 1], k.unflushed[1])
  <2>1. 1 \in 1 .. 1 OBVIOUS
  <2>2. QED BY <1>3, <2>1 DEF PushChain
<1>5. v[1] = push(k, d)
  <2>1. v[1 - 1] = v[0] /\ k.unflushed[1] = d OBVIOUS
  <2>2. QED BY <1>4, <2>1
<1>6. QED BY <1>4, <1>5 DEF flushHistory

\* A lost connection forgets what is queued, and nothing that is shown.
LEMMA ResetIs ==
  ASSUME NEW k \in Tabs
  PROVE  LET y == resetConnection(k) IN
         /\ y \in Tabs /\ y.status = "offline" /\ y.pending = <<>> /\ y.nextDiff = NoDiff
         /\ y.store = k.store /\ y.unflushed = k.unflushed /\ y.speculative = k.speculative
         /\ y.clientClock = k.clientClock /\ y.lastServerClock = k.lastServerClock /\ y.requestId = k.requestId
<1>1. <<>> \in Seq(Pushes) /\ NoDiff \in Recorded BY WholeTypes
<1>2. QED BY <1>1 DEF resetConnection, Tabs

\* A push takes what is unsent and is waited for; otherwise nothing changes.
LEMMA SendIs ==
  ASSUME NEW k \in Tabs
  PROVE  LET y  == sendUnsentChanges(k)
             m  == Push(k.clientClock, NetworkDiff(k.nextDiff))
         IN
         /\ m \in Pushes
         /\ \/ y = k /\ (k.status # "connected" \/ NetworkDiff(k.nextDiff) = NoOps)
            \/ /\ k.status = "connected" /\ NetworkDiff(k.nextDiff) # NoOps
               /\ y \in Tabs /\ y.pending = Append(k.pending, m) /\ y.clientClock = k.clientClock + 1
               /\ y.nextDiff = NoDiff /\ y.status = k.status
               /\ y.store = k.store /\ y.unflushed = k.unflushed /\ y.speculative = k.speculative
               /\ y.lastServerClock = k.lastServerClock /\ y.requestId = k.requestId
<1> DEFINE m == Push(k.clientClock, NetworkDiff(k.nextDiff))
<1>1. k.clientClock \in Nat /\ NetworkDiff(k.nextDiff) \in NetDiffs BY WholeTypes DEF Tabs
<1>2. m \in Pushes BY <1>1 DEF Push, Pushes
<1>3. CASE k.status # "connected" \/ NetworkDiff(k.nextDiff) = NoOps
  BY <1>2, <1>3 DEF sendUnsentChanges
<1>4. CASE ~(k.status # "connected" \/ NetworkDiff(k.nextDiff) = NoOps)
  <2>1. sendUnsentChanges(k) = [k EXCEPT !.pending = Append(@, m), !.clientClock = @ + 1, !.nextDiff = NoDiff]
    BY <1>4 DEF sendUnsentChanges
  <2> HIDE DEF m
  <2>2. k.pending \in Seq(Pushes) /\ k.clientClock \in Nat BY DEF Tabs
  <2>3. Append(k.pending, m) \in Seq(Pushes) BY <1>2, <2>2, AppendProperties
  <2>4. NoDiff \in Recorded BY WholeTypes
  <2>5. k.clientClock + 1 \in Nat BY <2>2
  <2>6. QED BY <1>2, <1>4, <2>1, <2>3, <2>4, <2>5 DEF Tabs, m
<1>5. QED BY <1>3, <1>4

\* A reply that is read leaves what is speculative leading from the reply's state to
\* the store, and all of it unsent.
LEMMA ReconnectIs ==
  ASSUME NEW k \in Tabs, NEW msg \in Replies
  PROVE  LET y    == didReconnect(k, msg)
             base == Apply(IF msg.wipeAll THEN NoRecords ELSE Undo(k.store, k.speculative), msg.diff)
         IN
         /\ y \in Tabs /\ y.status = "connected" /\ y.lastServerClock = msg.serverClock
         /\ y.pending = k.pending /\ y.clientClock = k.clientClock /\ y.requestId = k.requestId
         /\ y.nextDiff = y.speculative /\ base \in Contents /\ Leads(base, y.store, y.speculative)
         /\ k.unflushed = <<>> => y.unflushed = <<>>
<1> DEFINE base  == Apply(IF msg.wipeAll THEN NoRecords ELSE Undo(k.store, k.speculative), msg.diff)
           nds   == <<NetworkDiff(k.speculative)>>
           again == Reapplied(base, nds)
           waiting  == IF k.unflushed = <<>> THEN <<>> ELSE Append(k.unflushed, NoDiff)
           y == didReconnect(k, msg)
<1>1. k.store \in Contents /\ k.speculative \in Recorded /\ msg.diff \in NetDiffs /\ msg.serverClock \in Int
      /\ k.unflushed \in Seq(Recorded)
  BY DEF Tabs, Replies
<1>2. base \in Contents
  <2>1. Undo(k.store, k.speculative) \in Contents /\ NoRecords \in Contents BY <1>1, WholeTypes
  <2>2. (IF msg.wipeAll THEN NoRecords ELSE Undo(k.store, k.speculative)) \in Contents BY <2>1
  <2>3. QED BY <1>1, <2>2, WholeTypes
<1>3. nds \in [1 .. 1 -> NetDiffs] /\ 1 \in Nat
  <2>1. NetworkDiff(k.speculative) \in NetDiffs BY <1>1, WholeTypes
  <2>2. QED BY <2>1
<1>4. again.at \in Contents /\ again.diff \in Recorded /\ Leads(base, again.at, again.diff)
  <2> HIDE DEF base, nds
  <2>1. QED BY <1>2, <1>3, ReappliedLeads
<1>5. waiting \in Seq(Recorded)
  <2>1. NoDiff \in Recorded BY WholeTypes
  <2>2. Append(k.unflushed, NoDiff) \in Seq(Recorded) BY <1>1, <2>1, AppendProperties
  <2>3. QED BY <2>2
<1>6. rehydrated(k, msg) = [k EXCEPT !.status = "connected", !.lastServerClock = msg.serverClock,
                !.store = again.at, !.speculative = again.diff, !.unflushed = waiting]
  BY DEF rehydrated
<1>7. k.unflushed = <<>> => waiting = <<>> OBVIOUS
<1> DEFINE x == rehydrated(k, msg)
<1>8. y = [x EXCEPT !.nextDiff = x.speculative] BY DEF didReconnect
<1> HIDE DEF base, again, waiting, y
<1>9. x = [k EXCEPT !.status = "connected", !.lastServerClock = msg.serverClock,
                !.store = again.at, !.speculative = again.diff, !.unflushed = waiting]
  BY <1>6
<1> HIDE DEF x
<1>10. x \in Tabs /\ x.speculative = again.diff /\ x.store = again.at /\ x.status = "connected"
       /\ x.lastServerClock = msg.serverClock /\ x.pending = k.pending /\ x.clientClock = k.clientClock
       /\ x.requestId = k.requestId /\ x.unflushed = waiting
  BY <1>1, <1>4, <1>5, <1>9 DEF Tabs
<1>11. y \in Tabs /\ y.nextDiff = x.speculative /\ y.speculative = x.speculative /\ y.store = x.store
       /\ y.status = x.status /\ y.lastServerClock = x.lastServerClock /\ y.pending = x.pending
       /\ y.clientClock = x.clientClock /\ y.requestId = x.requestId /\ y.unflushed = x.unflushed
  BY <1>8, <1>10 DEF Tabs
<1>12. QED BY <1>2, <1>4, <1>7, <1>10, <1>11 DEF base, y

\* What is left of a queue when some of its first elements are taken.
Suffix(q, p) ==
  \E j \in 0 .. Len(p) : Len(q) = Len(p) - j /\ \A i \in 1 .. Len(q) : q[i] = p[i + j]

\* Messages that are no replies, and what a tab makes of them as it receives them.
News == Patches \cup Results
Accs == [at : Contents, pending : Seq(Pushes), ok : BOOLEAN]

\* What becomes of x when m is received.
Received(x, m, y) ==
  /\ y \in Accs
  /\ y.ok => x.ok
  /\ y.pending = x.pending \/ (x.pending # <<>> /\ y.pending = Tail(x.pending))
  /\ y.ok /\ m.type = "patch" => y.at = Apply(x.at, m.diff)
  /\ y.ok /\ m.type = "push_result" =>
       /\ x.pending # <<>> /\ x.pending[1].clientClock = m.clientClock
       /\ y.at = settled(x.at, m, x.pending[1].diff)

\* What receive does, without its cases.
LEMMA ReceiveIs ==
  ASSUME NEW x \in Accs, NEW m \in News
  PROVE  Received(x, m, receive(x, m))
<1>1. x.at \in Contents /\ x.pending \in Seq(Pushes) /\ x.ok \in BOOLEAN BY DEF Accs
<1>2. CASE m \in Patches
  <2>1. m.type = "patch" /\ m.diff \in NetDiffs BY <1>2 DEF Patches
  <2>2. receive(x, m) = [x EXCEPT !.at = Apply(x.at, m.diff)] BY <2>1 DEF receive
  <2>3. Apply(x.at, m.diff) \in Contents BY <1>1, <2>1, WholeTypes
  <2>4. QED BY <2>1, <2>2, <2>3 DEF Accs, Received
<1>3. CASE m \in Results
  <2>1. m.type = "push_result" /\ m.diff \in NetDiffs /\ m.action \in {"commit", "rebase", "discard"} BY <1>3 DEF Results
  <2>2. CASE x.pending = <<>> \/ Head(x.pending).clientClock # m.clientClock
    <3>1. receive(x, m) = [x EXCEPT !.ok = FALSE] BY <2>1, <2>2 DEF receive
    <3>2. QED BY <2>1, <3>1 DEF Accs, Received
  <2>3. CASE ~(x.pending = <<>> \/ Head(x.pending).clientClock # m.clientClock)
    <3> DEFINE at == settled(x.at, m, Head(x.pending).diff)
               tail == Tail(x.pending)
    <3>1. receive(x, m) = [x EXCEPT !.pending = tail, !.at = at] BY <2>1, <2>3 DEF receive
    <3>2. Head(x.pending) \in Pushes /\ tail \in Seq(Pushes) /\ Head(x.pending) = x.pending[1]
      BY <1>1, <2>3, HeadTailProperties
    <3>3. at \in Contents
      <4>1. Head(x.pending).diff \in NetDiffs BY <3>2 DEF Pushes
      <4>2. CASE m.action = "commit" BY <1>1, <4>1, <4>2, WholeTypes DEF settled
      <4>3. CASE m.action = "rebase" BY <1>1, <2>1, <4>3, WholeTypes DEF settled
      <4>4. CASE m.action = "discard" BY <1>1, <4>4 DEF settled
      <4>5. QED BY <2>1, <4>2, <4>3, <4>4
    <3>4. at = settled(x.at, m, x.pending[1].diff) /\ x.pending # <<>> /\ x.pending[1].clientClock = m.clientClock
      BY <2>3, <3>2
    <3> HIDE DEF at, tail
    <3>5. QED BY <2>1, <3>1, <3>2, <3>3, <3>4 DEF Accs, tail, Received
  <2>4. QED BY <2>2, <2>3
<1>4. QED BY <1>2, <1>3 DEF News

\* A queue that loses its head stays a suffix.
LEMMA SuffixTail ==
  ASSUME NEW p \in Seq(Pushes), NEW q \in Seq(Pushes), Suffix(q, p)
  PROVE  /\ q # <<>> => Suffix(Tail(q), p) /\ \E i \in 1 .. Len(p) : q[1] = p[i]
<1>1. SUFFICES ASSUME q # <<>> PROVE Suffix(Tail(q), p) /\ \E i \in 1 .. Len(p) : q[1] = p[i]
  OBVIOUS
<1>2. PICK j \in 0 .. Len(p) : Len(q) = Len(p) - j /\ \A i \in 1 .. Len(q) : q[i] = p[i + j] BY DEF Suffix
<1>3. Len(p) \in Nat /\ Len(q) \in Nat /\ Len(q) # 0 /\ Len(q) >= 1 BY <1>1
<1>4. Len(Tail(q)) = Len(q) - 1 /\ \A i \in 1 .. Len(Tail(q)) : Tail(q)[i] = q[i + 1]
  BY <1>1, <1>3
<1>5. 1 \in 1 .. Len(q) /\ 1 + j \in 1 .. Len(p) BY <1>2, <1>3
<1>6. j + 1 \in 0 .. Len(p) BY <1>2, <1>3
<1>7. \A i \in 1 .. Len(Tail(q)) : Tail(q)[i] = p[i + (j + 1)]
  <2>1. SUFFICES ASSUME NEW i \in 1 .. Len(Tail(q)) PROVE Tail(q)[i] = p[i + (j + 1)]
    OBVIOUS
  <2>2. i + 1 \in 1 .. Len(q) /\ (i + 1) + j = i + (j + 1) BY <1>3, <1>4
  <2>3. q[i + 1] = p[(i + 1) + j] BY <1>2, <2>2
  <2>4. QED BY <1>4, <2>2, <2>3
<1>8. Len(Tail(q)) = Len(p) - (j + 1) BY <1>2, <1>3, <1>4
<1>9. QED BY <1>2, <1>5, <1>6, <1>7, <1>8 DEF Suffix

\* Where a rebase starts.
Started(k) == [at |-> Undo(k.store, k.speculative), pending |-> k.pending, ok |-> TRUE]

\* Where the messages lead, when they are linked.
Reached(h, k, msgs, i) == IF i = 0 THEN h[k.lastServerClock] ELSE h[msgs[i].serverClock]

\* Undoing what is speculative and receiving linked messages gives what the
\* server had when it sent the last.
LEMMA ReceivedIs ==
  ASSUME NEW k \in Tabs, NEW n \in Nat, NEW msgs \in [1 .. n -> News]
  PROVE  LET got == FoldLeft(receive, Started(k), msgs) IN
         /\ got \in Accs /\ Suffix(got.pending, k.pending)
         /\ \A h : /\ Started(k).at = h[k.lastServerClock]
                   /\ \A i \in 1 .. n :
                        LinkOK(h, k, IF i = 1 THEN k.lastServerClock ELSE msgs[i - 1].serverClock, msgs[i])
                   /\ got.ok
                   => got.at = Reached(h, k, msgs, n)
<1>1. k.store \in Contents /\ k.speculative \in Recorded /\ k.pending \in Seq(Pushes) BY DEF Tabs
<1>2. Started(k) \in Accs /\ Started(k).pending = k.pending /\ Started(k).ok
  <2>1. Undo(k.store, k.speculative) \in Contents BY <1>1, WholeTypes
  <2>2. QED BY <1>1, <2>1 DEF Started, Accs
<1>3. PICK v \in [0 .. n -> Accs] : ReceiveChain(v, n, Started(k), msgs)
  <2>1. \A x \in Accs, m \in News : receive(x, m) \in Accs BY ReceiveIs DEF Received
  <2>2. QED BY <1>2, <2>1, ReceiveFold
<1>4. /\ v[0] = Started(k) /\ v[n] = FoldLeft(receive, Started(k), msgs)
      /\ \A i \in 1 .. n : v[i] = receive(v[i - 1], msgs[i])
      /\ 0 \in 0 .. n /\ n \in 0 .. n /\ v[n] \in Accs
  <2>1. 0 \in 0 .. n /\ n \in 0 .. n OBVIOUS
  <2>2. QED BY <1>3, <2>1 DEF ReceiveChain
<1> DEFINE Q == {i \in 0 .. n : Suffix(v[i].pending, k.pending)}
<1>5. 0 \in Q
  <2>1. 0 \in 0 .. Len(k.pending) /\ \A i \in 1 .. Len(k.pending) : k.pending[i] = k.pending[i + 0] BY <1>1
  <2>2. Suffix(k.pending, k.pending) BY <1>1, <2>1 DEF Suffix
  <2>3. QED BY <1>2, <1>4, <2>2
<1>6. ASSUME NEW i \in 1 .. n, i - 1 \in Q PROVE i \in Q
  <2>1. v[i - 1] \in Accs /\ msgs[i] \in News /\ v[i] = receive(v[i - 1], msgs[i]) /\ Suffix(v[i - 1].pending, k.pending)
    BY <1>4, <1>6
  <2>2. v[i].pending = v[i - 1].pending \/ (v[i - 1].pending # <<>> /\ v[i].pending = Tail(v[i - 1].pending))
    <3>1. Received(v[i - 1], msgs[i], v[i]) BY <2>1, ReceiveIs
    <3>2. QED BY <3>1 DEF Received
  <2>3. v[i - 1].pending \in Seq(Pushes) BY <2>1 DEF Accs
  <2>4. Suffix(v[i].pending, k.pending) BY <1>1, <2>1, <2>2, <2>3, SuffixTail
  <2>5. QED BY <1>6, <2>4
<1>7. \A i \in 0 .. n : i \in Q
  <2> HIDE DEF Q
  <2>1. QED BY <1>5, <1>6, CountingUp
<1>8. ASSUME NEW h, Started(k).at = h[k.lastServerClock], v[n].ok,
             \A i \in 1 .. n :
               LinkOK(h, k, IF i = 1 THEN k.lastServerClock ELSE msgs[i - 1].serverClock, msgs[i])
      PROVE  v[n].at = Reached(h, k, msgs, n)
  <2> DEFINE G == {i \in 0 .. n : v[i].ok => v[i].at = Reached(h, k, msgs, i)}
  <2>1. 0 \in G BY <1>4, <1>8 DEF Reached
  <2>2. ASSUME NEW i \in 1 .. n, i - 1 \in G PROVE i \in G
    <3>1. SUFFICES ASSUME v[i].ok PROVE v[i].at = h[msgs[i].serverClock]
      BY <2>2 DEF Reached
    <3> DEFINE m == msgs[i]
               x == v[i - 1]
               prev == IF i = 1 THEN k.lastServerClock ELSE msgs[i - 1].serverClock
    <3>2. x \in Accs /\ m \in News /\ v[i] = receive(x, m) /\ LinkOK(h, k, prev, m) /\ i - 1 \in 0 .. n /\ i - 1 \in Q
      BY <1>4, <1>7, <1>8
    <3>3. Received(x, m, v[i])
      <4> HIDE DEF m, x
      <4>1. receive(x, m) = v[i] BY <3>2
      <4>2. Received(x, m, receive(x, m)) BY <3>2, ReceiveIs
      <4>3. QED BY <4>1, <4>2
    <3>4. x.ok BY <3>1, <3>3 DEF Received
    <3>5. x.at = h[prev] BY <2>2, <3>2, <3>4 DEF Reached
    <3>6. Suffix(x.pending, k.pending) /\ x.pending \in Seq(Pushes) BY <3>2 DEF Accs
    <3> HIDE DEF m, x, prev
    <3>7. CASE m.type = "patch"
      <4>1. v[i].at = Apply(x.at, m.diff) BY <3>1, <3>7, <3>3 DEF Received
      <4>2. QED BY <3>2, <3>5, <3>7, <4>1 DEF LinkOK, m
    <3>8. CASE m.type = "push_result"
      <4>1. /\ x.pending # <<>> /\ x.pending[1].clientClock = m.clientClock
            /\ v[i].at = settled(x.at, m, x.pending[1].diff)
        BY <3>1, <3>8, <3>3 DEF Received
      <4>2. PICK j \in 1 .. Len(k.pending) : x.pending[1] = k.pending[j] BY <1>1, <3>6, <4>1, SuffixTail
      <4>3. m.action \in {"commit", "rebase", "discard"} BY <3>2, <3>8 DEF News, Patches, Results
      <4>4. CASE m.action = "commit"
        <5>1. v[i].at = Apply(x.at, k.pending[j].diff) BY <4>1, <4>2, <4>4 DEF settled
        <5>2. h[m.serverClock] = Apply(h[prev], k.pending[j].diff) BY <3>2, <3>8, <4>1, <4>2, <4>4 DEF LinkOK
        <5>3. QED BY <3>5, <5>1, <5>2 DEF m
      <4>5. CASE m.action = "rebase"
        <5>1. v[i].at = Apply(x.at, m.diff) BY <4>1, <4>5 DEF settled
        <5>2. QED BY <3>2, <3>5, <3>8, <4>5, <5>1 DEF LinkOK, m
      <4>6. CASE m.action = "discard"
        <5>1. v[i].at = x.at BY <4>1, <4>6 DEF settled
        <5>2. QED BY <3>2, <3>5, <3>8, <4>6, <5>1 DEF LinkOK, m
      <4>7. QED BY <4>3, <4>4, <4>5, <4>6
    <3>9. QED BY <3>2, <3>7, <3>8 DEF News, Patches, Results
  <2>3. n \in G
    <3> HIDE DEF G
    <3>1. QED BY <1>4, <2>1, <2>2, CountingUp
  <2>4. QED BY <1>8, <2>3
<1>9. QED BY <1>4, <1>7, <1>8

\* What a client makes of n data messages: it is out of step with the room, or it
\* holds what they led to, with what is unanswered and unsent on top.
Rebase(k, msgs, n, y) ==
  LET got == FoldLeft(receive, Started(k), msgs)
  IN  \/ ~got.ok /\ y = resetConnection(k)
      \/ /\ got.ok /\ y \in Tabs /\ y.pending = got.pending /\ y.lastServerClock = msgs[n].serverClock
         /\ Leads(got.at, y.store, y.speculative)
         /\ y.unflushed = k.unflushed /\ y.nextDiff = k.nextDiff /\ y.clientClock = k.clientClock
         /\ y.status = k.status /\ y.requestId = k.requestId
         /\ y.pending = <<>> /\ NetworkDiff(k.nextDiff) = NoOps => y.speculative = NoDiff

\* It comes to that.
LEMMA RebaseIs ==
  ASSUME NEW k \in Tabs, NEW n \in Nat \ {0}, NEW msgs \in [1 .. n -> News]
  PROVE  Rebase(k, msgs, n, rebased(k, msgs))
<1> DEFINE got   == FoldLeft(receive, Started(k), msgs)
           L     == Len(got.pending)
           front == [i \in 1 .. L |-> got.pending[i].diff]
           redo  == front \o <<NetworkDiff(k.nextDiff)>>
           again == Reapplied(got.at, redo)
           y     == rebased(k, msgs)
<1>1. got \in Accs /\ k.nextDiff \in Recorded BY ReceivedIs DEF Tabs
<1>2. y = IF ~got.ok THEN resetConnection(k)
          ELSE [k EXCEPT !.store = again.at, !.speculative = again.diff, !.pending = got.pending,
                         !.lastServerClock = Last(msgs).serverClock]
  BY DEF rebased, Started
<1>3. Last(msgs) = msgs[n] /\ msgs[n] \in News /\ msgs[n].serverClock \in Int
  <2>1. n \in 1 .. n /\ Len(msgs) = n OBVIOUS
  <2>2. msgs[n] \in News BY <2>1
  <2>3. msgs[n].serverClock \in Int BY <2>2 DEF News, Patches, Results
  <2>4. QED BY <2>1, <2>2, <2>3 DEF Last
<1> HIDE DEF got
<1>4. got.at \in Contents /\ got.pending \in Seq(Pushes) /\ got.ok \in BOOLEAN /\ L \in Nat
  <2>1. got.at \in Contents /\ got.pending \in Seq(Pushes) /\ got.ok \in BOOLEAN BY <1>1 DEF Accs
  <2>2. QED BY <2>1
<1>5. /\ redo \in [1 .. L + 1 -> NetDiffs]
      /\ L = 0 => redo[1] = NetworkDiff(k.nextDiff)
  <2>1. \A i \in 1 .. L : got.pending[i] \in Pushes BY <1>4
  <2>2. front \in [1 .. L -> NetDiffs] BY <2>1 DEF Pushes
  <2>3. NetworkDiff(k.nextDiff) \in NetDiffs BY <1>1, WholeTypes
  <2> DEFINE nd == NetworkDiff(k.nextDiff)
  <2> HIDE DEF nd, front
  <2>4. front \in Seq(NetDiffs) /\ Len(front) = L BY <1>4, <2>2
  <2>5. <<nd>> \in Seq(NetDiffs) /\ Len(<<nd>>) = 1 BY <2>3 DEF nd
  <2>6. redo \in Seq(NetDiffs) /\ Len(redo) = L + 1 BY <2>4, <2>5 DEF nd
  <2>7. redo[L + 1] = nd BY <1>4, <2>4, <2>5 DEF nd
  <2>8. redo \in [1 .. L + 1 -> NetDiffs]
    <3> HIDE DEF redo
    <3>1. QED BY <2>6
  <2>9. L = 0 => redo[1] = nd BY <2>7
  <2>10. QED BY <2>8, <2>9 DEF nd
<1> HIDE DEF redo, L
<1>6. /\ again.at \in Contents /\ again.diff \in Recorded /\ Leads(got.at, again.at, again.diff)
      /\ got.pending = <<>> /\ NetworkDiff(k.nextDiff) = NoOps => again.diff = NoDiff
  <2>1. L + 1 \in Nat BY <1>4
  <2>2. /\ again.at \in Contents /\ again.diff \in Recorded /\ Leads(got.at, again.at, again.diff)
        /\ (\A i \in 1 .. L + 1 : redo[i] = NoOps) => again.diff = NoDiff
    BY <1>4, <1>5, <2>1, ReappliedLeads
  <2>3. ASSUME got.pending = <<>>, NetworkDiff(k.nextDiff) = NoOps PROVE \A i \in 1 .. L + 1 : redo[i] = NoOps
    <3>1. L = 0 BY <2>3 DEF L
    <3>2. QED BY <1>5, <2>3, <3>1
  <2> HIDE DEF again
  <2>4. QED BY <2>2, <2>3
<1> HIDE DEF again, y
<1>7. CASE ~got.ok BY <1>2, <1>7 DEF Rebase, y, got
<1>8. CASE got.ok
  <2>1. y = [k EXCEPT !.store = again.at, !.speculative = again.diff, !.pending = got.pending,
                      !.lastServerClock = msgs[n].serverClock]
    BY <1>2, <1>3, <1>8
  <2>2. /\ y \in Tabs /\ y.pending = got.pending /\ y.lastServerClock = msgs[n].serverClock
        /\ y.store = again.at /\ y.speculative = again.diff
        /\ y.unflushed = k.unflushed /\ y.nextDiff = k.nextDiff /\ y.clientClock = k.clientClock
        /\ y.status = k.status /\ y.requestId = k.requestId
    BY <1>3, <1>4, <1>6, <2>1 DEF Tabs
  <2>3. QED BY <1>6, <1>8, <2>2 DEF Rebase, y, got
<1>9. QED BY <1>4, <1>7, <1>8

-----------------------------------------------------------------------------
(* What keeps a client's line to the room in order.                        *)

\* Messages are told apart by their types.
LEMMA UpsApart ==
  /\ \A m \in Ups : m.type \in {"connect", "push", "close"}
  /\ \A m \in Ups : m.type = "connect" => m \in Requests
  /\ \A m \in Ups : m.type = "push" => m \in Pushes
  /\ \A m \in Downs : m.type \in {"connect", "patch", "push_result"} /\ m.serverClock \in Nat /\ m.diff \in NetDiffs
  /\ \A m \in Downs : m.type = "connect" => m \in Replies
  /\ \A m \in Downs : m.type # "connect" => m \in News
BY DEF Ups, Requests, Pushes, Close, Downs, Replies, Patches, Results, News

\* The pushes y waits for with this number are among those of k.
Covers(y, k, clock) ==
  \A j \in 1 .. Len(y.pending) : y.pending[j].clientClock = clock =>
    \E i \in 1 .. Len(k.pending) : k.pending[i] = y.pending[j]

\* Links of a tab hold for one that waits for fewer pushes.
LEMMA LinkFor ==
  ASSUME NEW h, NEW k, NEW y, NEW prev, NEW m, LinkOK(h, k, prev, m),
         m.type = "push_result" => Covers(y, k, m.clientClock)
  PROVE  LinkOK(h, y, prev, m)
BY DEF LinkOK, Covers

LEMMA LinkedFor ==
  ASSUME NEW h, NEW k, NEW y, NEW n, NEW q \in Seq(DownSet(h, k, n)), Linked(h, k, q),
         \A i \in 1 .. Len(q) : q[i].type = "push_result" => Covers(y, k, q[i].clientClock),
         k.status = "connected" /\ y.status = "connected" /\ y.lastServerClock = k.lastServerClock
  PROVE  Linked(h, y, q)
<1>1. Len(q) \in Nat /\ (q # <<>> => 1 \in 1 .. Len(q)) OBVIOUS
<1>2. ASSUME NEW i \in 2 .. Len(q) PROVE LinkOK(h, y, q[i - 1].serverClock, q[i])
  <2>1. i \in 1 .. Len(q) BY <1>1
  <2>2. LinkOK(h, k, q[i - 1].serverClock, q[i]) BY DEF Linked, Unheard
  <2>3. QED BY <2>1, <2>2, LinkFor
<1>3. ASSUME y.status = "connected", q # <<>> PROVE LinkOK(h, y, y.lastServerClock, q[1])
  <2>1. LinkOK(h, k, y.lastServerClock, q[1]) BY <1>3 DEF Linked
  <2>2. QED BY <1>1, <1>3, <2>1, LinkFor
<1>4. QED BY <1>2, <1>3 DEF Linked

\* A tab whose store changes, or what is recorded of it.
LEMMA LineRecords ==
  ASSUME NEW k, NEW y \in Tabs, NEW up, NEW lt, NEW q, NEW s, NEW g, NEW h, NEW n, NEW ld,
         Line(k, up, lt, q, s, g, h, n, ld),
         y.pending = k.pending /\ y.clientClock = k.clientClock /\ y.lastServerClock = k.lastServerClock,
         y.status = k.status /\ y.requestId = k.requestId,
         k.status # "connected" => y.nextDiff = k.nextDiff
  PROVE  Line(y, up, lt, q, s, g, h, n, ld)
<1>1. TabOK(y) BY DEF Line, TabOK
<1>2. UpSet(y, n) = UpSet(k, n) BY DEF UpSet, UpOK
<1>3. DownSet(h, y, n) = DownSet(h, k, n) BY DEF DownSet, DownOK, ReplyOK
<1>4. ~g => Linked(h, y, q) BY DEF Line, Linked, LinkOK, Unheard, Own
<1>5. QED BY <1>1, <1>2, <1>3, <1>4 DEF Line, EndAt

\* A tab that sends a push.
LEMMA LineSends ==
  ASSUME NEW k, NEW up, NEW lt, NEW q, NEW s, NEW g, NEW h, NEW n, NEW ld,
         Line(k, up, lt, q, s, g, h, n, ld), NEW m \in Pushes, m.clientClock = k.clientClock,
         NEW y \in Tabs, y.pending = Append(k.pending, m), y.clientClock = k.clientClock + 1,
         y.lastServerClock = k.lastServerClock, y.status = k.status, k.status = "connected", y.requestId = k.requestId
  PROVE  Line(y, Append(up, m), lt, q, s, g, h, n, ld)
<1> DEFINE p == k.pending
           L == Len(p)
<1>1. k \in Tabs /\ p \in Seq(Pushes) /\ L \in Nat /\ k.clientClock \in Nat /\ n = n
      /\ \A i \in 1 .. L : p[i].clientClock \in Nat /\ p[i].clientClock < k.clientClock
  <2>1. k \in Tabs BY DEF Line, TabOK
  <2>2. p \in Seq(Pushes) /\ k.clientClock \in Nat BY <2>1 DEF Tabs
  <2>3. \A i \in 1 .. L : p[i] \in Pushes BY <2>2
  <2>4. QED BY <2>1, <2>2, <2>3 DEF Line, TabOK, Pushes
<1>2. /\ Len(y.pending) = L + 1 /\ y.pending[L + 1] = m
      /\ \A i \in 1 .. L : y.pending[i] = p[i]
  BY <1>1, AppendProperties
<1>3. TabOK(y)
  <2>1. \A i \in 1 .. L + 1 : y.pending[i].clientClock < k.clientClock + 1
    <3>1. SUFFICES ASSUME NEW i \in 1 .. L + 1 PROVE y.pending[i].clientClock < k.clientClock + 1 OBVIOUS
    <3>2. CASE i = L + 1 BY <1>1, <1>2, <3>2
    <3>3. CASE i \in 1 .. L BY <1>1, <1>2, <3>3
    <3>4. QED BY <1>1, <3>2, <3>3
  <2>2. \A i \in 2 .. L + 1 : y.pending[i - 1].clientClock < y.pending[i].clientClock
    <3>1. SUFFICES ASSUME NEW i \in 2 .. L + 1 PROVE y.pending[i - 1].clientClock < y.pending[i].clientClock OBVIOUS
    <3>2. i - 1 \in 1 .. L /\ i \in Int BY <1>1
    <3>3. CASE i = L + 1 BY <1>1, <1>2, <3>2, <3>3
    <3>4. CASE i # L + 1
      <4>1. i \in 2 .. L /\ i \in 1 .. L BY <1>1, <3>4
      <4>2. p[i - 1].clientClock < p[i].clientClock BY <4>1 DEF Line, TabOK
      <4>3. QED BY <1>2, <3>2, <4>1, <4>2
    <3>5. QED BY <3>3, <3>4
  <2>3. y.lastServerClock >= -1 /\ y.lastServerClock >= 0 BY DEF Line, TabOK
  <2>4. QED BY <1>2, <2>1, <2>2, <2>3 DEF TabOK
<1>4. UpSet(k, n) \subseteq UpSet(y, n)
  <2>1. SUFFICES ASSUME NEW x \in UpSet(k, n) PROVE UpOK(y, x, n) BY DEF UpSet
  <2>2. x \in Ups /\ UpOK(k, x, n) BY DEF UpSet
  <2>3. CASE x.type = "push"
    <3>1. x \in Pushes /\ x.clientClock \in Nat BY <2>2, <2>3, UpsApart DEF Pushes
    <3>2. x.clientClock < k.clientClock /\ x.clientClock < y.clientClock BY <1>1, <2>2, <2>3, <3>1 DEF UpOK
    <3>3. ASSUME NEW i \in 1 .. Len(y.pending), y.pending[i].clientClock = x.clientClock PROVE y.pending[i].diff = x.diff
      <4>1. i # L + 1 BY <1>1, <1>2, <3>1, <3>2, <3>3
      <4>2. i \in 1 .. L BY <1>1, <1>2, <4>1
      <4>3. QED BY <1>2, <2>2, <2>3, <3>3, <4>2 DEF UpOK
    <3>4. QED BY <2>3, <3>2, <3>3 DEF UpOK
  <2>4. CASE x.type # "push" BY <2>2, <2>4 DEF UpOK
  <2>5. QED BY <2>3, <2>4
<1>5. m \in UpSet(y, n)
  <2>1. m.type = "push" /\ m \in Ups /\ m.clientClock < y.clientClock BY <1>1 DEF Pushes, Ups
  <2>2. ASSUME NEW i \in 1 .. Len(y.pending), y.pending[i].clientClock = m.clientClock PROVE y.pending[i].diff = m.diff
    <3>1. CASE i = L + 1 BY <1>2, <3>1
    <3>2. CASE i # L + 1
      <4>1. i \in 1 .. L BY <1>1, <1>2, <3>2
      <4>2. QED BY <1>1, <1>2, <2>2, <4>1
    <3>3. QED BY <3>1, <3>2
  <2>3. QED BY <2>1, <2>2 DEF UpSet, UpOK
<1>6. Append(up, m) \in Seq(UpSet(y, n)) /\ lt \in Seq(UpSet(y, n))
  <2>1. up \in Seq(UpSet(k, n)) /\ lt \in Seq(UpSet(k, n)) BY DEF Line
  <2>2. up \in Seq(UpSet(y, n)) /\ lt \in Seq(UpSet(y, n)) BY <1>4, <2>1, SeqMonotonic
  <2>3. QED BY <1>5, <2>2, AppendProperties
<1>7. DownSet(h, k, n) \subseteq DownSet(h, y, n)
  <2>1. SUFFICES ASSUME NEW x \in DownSet(h, k, n) PROVE DownOK(h, y, x, n) BY DEF DownSet
  <2>2. x \in Downs /\ DownOK(h, k, x, n) BY DEF DownSet
  <2>3. x.type = "push_result" => x.clientClock < y.clientClock
    <3>1. SUFFICES ASSUME x.type = "push_result" PROVE x.clientClock < y.clientClock OBVIOUS
    <3>2. x.clientClock \in Nat BY <2>2, <3>1 DEF Downs, Replies, Patches, Results
    <3>3. QED BY <1>1, <2>2, <3>1, <3>2 DEF DownOK
  <2>4. ReplyOK(h, y, x) BY <2>2 DEF DownOK, ReplyOK
  <2>5. QED BY <2>2, <2>3, <2>4 DEF DownOK
<1>8. q \in Seq(DownSet(h, k, n)) /\ q \in Seq(DownSet(h, y, n))
  <2>1. q \in Seq(DownSet(h, k, n)) BY DEF Line
  <2>2. QED BY <1>7, <2>1, SeqMonotonic
<1>9. ~g => Linked(h, y, q)
  <2>1. ASSUME NEW i \in 1 .. Len(q), q[i].type = "push_result" PROVE Covers(y, k, q[i].clientClock)
    <3>1. q[i] \in DownSet(h, k, n) BY <1>8
    <3>2. q[i].clientClock < k.clientClock BY <2>1, <3>1 DEF DownSet, DownOK
    <3>3. q[i].clientClock \in Nat BY <2>1, <3>1 DEF DownSet, Downs, Replies, Patches, Results
    <3>4. ASSUME NEW j \in 1 .. Len(y.pending), y.pending[j].clientClock = q[i].clientClock
          PROVE  \E e \in 1 .. Len(k.pending) : k.pending[e] = y.pending[j]
      <4>1. j # L + 1 BY <1>1, <1>2, <3>2, <3>3, <3>4
      <4>2. j \in 1 .. L BY <1>1, <1>2, <4>1
      <4>3. QED BY <1>2, <4>2
    <3>5. QED BY <3>4 DEF Covers
  <2>2. ~g => Linked(h, k, q) BY DEF Line
  <2>3. QED BY <1>8, <2>1, <2>2, LinkedFor
<1>10. QED BY <1>3, <1>6, <1>8, <1>9 DEF Line, EndAt

\* Elements, and neighbours, of a suffix.
LEMMA SuffixIs ==
  ASSUME NEW p \in Seq(Pushes), NEW r \in Seq(Pushes), Suffix(r, p)
  PROVE  /\ \A i \in 1 .. Len(r) : \E e \in 1 .. Len(p) : p[e] = r[i]
         /\ \A i \in 2 .. Len(r) : \E e \in 2 .. Len(p) : p[e - 1] = r[i - 1] /\ p[e] = r[i]
<1>1. PICK j \in 0 .. Len(p) : Len(r) = Len(p) - j /\ \A i \in 1 .. Len(r) : r[i] = p[i + j] BY DEF Suffix
<1>2. Len(p) \in Nat /\ Len(r) \in Nat OBVIOUS
<1>3. ASSUME NEW i \in 1 .. Len(r) PROVE \E e \in 1 .. Len(p) : p[e] = r[i]
  <2>1. i + j \in 1 .. Len(p) BY <1>1, <1>2
  <2>2. QED BY <1>1, <2>1
<1>4. ASSUME NEW i \in 2 .. Len(r) PROVE \E e \in 2 .. Len(p) : p[e - 1] = r[i - 1] /\ p[e] = r[i]
  <2>1. i + j \in 2 .. Len(p) /\ i \in 1 .. Len(r) /\ i - 1 \in 1 .. Len(r) /\ (i - 1) + j = (i + j) - 1 BY <1>1, <1>2
  <2>2. r[i] = p[i + j] /\ r[i - 1] = p[(i + j) - 1] BY <1>1, <2>1
  <2>3. QED BY <2>1, <2>2
<1>5. QED BY <1>3, <1>4

\* A connected tab that has taken in the first j messages.
LEMMA LineRebases ==
  ASSUME NEW k, NEW up, NEW lt, NEW q, NEW s, NEW g, NEW h, NEW n \in Nat, NEW ld,
         Line(k, up, lt, q, s, g, h, n, ld), k.status = "connected",
         NEW j \in 1 .. Len(q), NEW y \in Tabs, Suffix(y.pending, k.pending),
         y.lastServerClock = q[j].serverClock, y.clientClock = k.clientClock, y.status = k.status,
         y.requestId = k.requestId
  PROVE  Line(y, up, lt, SubSeq(q, j + 1, Len(q)), s, g, h, n, ld)
<1> DEFINE D == DownSet(h, k, n)
           N == Len(q)
           r == SubSeq(q, j + 1, N)
<1>1. /\ q \in Seq(D) /\ N \in Nat /\ j \in Nat /\ j <= N /\ j >= 1
      /\ k \in Tabs /\ k.pending \in Seq(Pushes) /\ y.pending \in Seq(Pushes)
  <2>1. q \in Seq(D) /\ k \in Tabs BY DEF Line, TabOK
  <2>2. k.pending \in Seq(Pushes) /\ y.pending \in Seq(Pushes) BY <2>1 DEF Tabs
  <2> HIDE DEF D
  <2>3. QED BY <2>1, <2>2
<1>2. q[j] \in D /\ q[j].serverClock \in Nat /\ q[j].serverClock <= n
  <2>1. q[j] \in D BY <1>1
  <2>2. q[j] \in Downs BY <2>1 DEF DownSet
  <2>3. QED BY <2>1, <2>2, UpsApart DEF DownSet, DownOK
<1>3. TabOK(y)
  <2>1. \A i \in 1 .. Len(y.pending) : y.pending[i].clientClock < y.clientClock
    BY <1>1, SuffixIs DEF Line, TabOK
  <2>2. \A i \in 2 .. Len(y.pending) : y.pending[i - 1].clientClock < y.pending[i].clientClock
    BY <1>1, SuffixIs DEF Line, TabOK
  <2>3. y.lastServerClock >= -1 /\ y.lastServerClock >= 0 BY <1>2
  <2>4. QED BY <2>1, <2>2, <2>3 DEF TabOK
<1>4. \A clock : Covers(y, k, clock) BY <1>1, SuffixIs DEF Covers
<1>5. UpSet(k, n) \subseteq UpSet(y, n)
  <2>1. SUFFICES ASSUME NEW x \in UpSet(k, n) PROVE UpOK(y, x, n) BY DEF UpSet
  <2>2. x \in Ups /\ UpOK(k, x, n) BY DEF UpSet
  <2>3. \A i \in 1 .. Len(y.pending) : \E e \in 1 .. Len(k.pending) : k.pending[e] = y.pending[i] BY <1>1, SuffixIs
  <2>4. QED BY <2>2, <2>3 DEF UpOK
<1>6. D \subseteq DownSet(h, y, n) BY DEF DownSet, DownOK, ReplyOK
<1>7. up \in Seq(UpSet(y, n)) /\ lt \in Seq(UpSet(y, n))
  <2>1. up \in Seq(UpSet(k, n)) /\ lt \in Seq(UpSet(k, n)) BY DEF Line
  <2>2. QED BY <1>5, <2>1, SeqMonotonic
<1> HIDE DEF D, N, r
<1>8. /\ r \in Seq(D) /\ Len(r) = N - j /\ \A i \in 1 .. Len(r) : r[i] = q[i + j]
  <2>1. \A i \in j + 1 .. N : q[i] \in D BY <1>1 DEF N
  <2>2. j + 1 \in Int /\ N \in Int /\ N - (j + 1) + 1 = N - j BY <1>1
  <2>3. /\ r \in Seq(D) /\ Len(r) = IF j + 1 <= N THEN N - (j + 1) + 1 ELSE 0
        /\ \A i \in 1 .. N - (j + 1) + 1 : r[i] = q[(j + 1) + i - 1]
    BY <2>1, <2>2, SubSeqProperties DEF r
  <2>4. Len(r) = N - j BY <1>1, <2>2, <2>3
  <2>5. ASSUME NEW i \in 1 .. Len(r) PROVE r[i] = q[i + j]
    <3>1. i \in 1 .. N - (j + 1) + 1 /\ (j + 1) + i - 1 = i + j BY <1>1, <2>2, <2>4
    <3>2. QED BY <2>3, <3>1
  <2>6. QED BY <2>3, <2>4, <2>5
<1>9. r \in Seq(DownSet(h, y, n)) BY <1>6, <1>8, SeqMonotonic
<1>10. ~g => \A i \in 2 .. N : LinkOK(h, y, q[i - 1].serverClock, q[i])
  <2>1. SUFFICES ASSUME ~g, NEW i \in 2 .. N PROVE LinkOK(h, y, q[i - 1].serverClock, q[i]) OBVIOUS
  <2>2. LinkOK(h, k, q[i - 1].serverClock, q[i]) BY <2>1 DEF Line, Linked, Unheard, N
  <2>3. QED BY <1>4, <2>2, LinkFor
<1>11. ~g => Linked(h, y, r)
  <2>1. ASSUME ~g, NEW i \in 2 .. Len(r) PROVE LinkOK(h, y, r[i - 1].serverClock, r[i])
    <3>1. i + j \in 2 .. N /\ i \in 1 .. Len(r) /\ i - 1 \in 1 .. Len(r) /\ (i - 1) + j = (i + j) - 1 BY <1>1, <1>8
    <3>2. r[i] = q[i + j] /\ r[i - 1] = q[(i + j) - 1] BY <1>8, <3>1
    <3>3. QED BY <1>10, <2>1, <3>1, <3>2
  <2>2. ASSUME ~g, r # <<>> PROVE LinkOK(h, y, y.lastServerClock, r[1])
    <3>1. 1 \in 1 .. Len(r) BY <1>8, <2>2
    <3>2. 1 + j \in 2 .. N /\ (1 + j) - 1 = j BY <1>1, <1>8, <3>1
    <3>3. LinkOK(h, y, q[j].serverClock, q[1 + j]) BY <1>10, <2>2, <3>2
    <3>4. QED BY <1>8, <3>1, <3>3
  <2>3. QED BY <2>1, <2>2 DEF Linked
<1>12. ASSUME ~g, s = "connected" PROVE EndAt(y, r, ld)
  <2>1. q # <<>> /\ q[N].serverClock = ld
    <3>1. q # <<>> BY <1>1 DEF N
    <3>2. QED BY <1>12, <3>1 DEF Line, EndAt, N
  <2>2. ASSUME r # <<>> PROVE r[Len(r)].serverClock = ld
    <3>1. Len(r) \in 1 .. Len(r) /\ Len(r) + j = N BY <1>1, <1>8, <2>2
    <3>2. QED BY <1>8, <2>1, <3>1
  <2>3. ASSUME r = <<>> PROVE y.lastServerClock = ld
    <3>1. j = N BY <1>1, <1>8, <2>3
    <3>2. QED BY <2>1, <3>1
  <2>4. QED BY <2>2, <2>3 DEF EndAt
<1>13. y.lastServerClock <= n /\ s # "awaiting" /\ s \in {"none", "awaiting", "connected"} BY <1>2 DEF Line
<1>14. QED BY <1>3, <1>7, <1>9, <1>11, <1>12, <1>13 DEF Line, r, N

\* A tab that gives up its socket.
LEMMA LineResets ==
  ASSUME NEW k, NEW up, NEW lt, NEW q, NEW s, NEW g, NEW h, NEW n, NEW ld,
         Line(k, up, lt, q, s, g, h, n, ld), NEW after \in Seq(UpSet(k, n))
  PROVE  \A b : Line(resetConnection(k), <<>>, after, <<>>, s, b, h, n, ld)
<1> DEFINE y == resetConnection(k)
<1>1. k \in Tabs BY DEF Line, TabOK
<1>2. /\ y \in Tabs /\ y.status = "offline" /\ y.pending = <<>> /\ y.nextDiff = NoDiff
      /\ y.clientClock = k.clientClock /\ y.lastServerClock = k.lastServerClock /\ y.requestId = k.requestId
  BY <1>1, ResetIs
<1> HIDE DEF y
<1>3. TabOK(y) BY <1>2 DEF Line, TabOK
<1>4. UpSet(k, n) \subseteq UpSet(y, n) BY <1>2 DEF UpSet, UpOK
<1>5. after \in Seq(UpSet(y, n)) BY <1>4, SeqMonotonic
<1>6. Linked(h, y, <<>>) BY <1>2 DEF Linked
<1>7. QED BY <1>2, <1>3, <1>5, <1>6 DEF Line, y

\* A tab that opens a new one.
LEMMA LineReconnects ==
  ASSUME NEW k, NEW up, NEW lt, NEW q, NEW s, NEW g, NEW h, NEW n \in Nat, NEW ld,
         Line(k, up, lt, q, s, g, h, n, ld), k.status = "offline",
         NEW y, y = [k EXCEPT !.status = "connecting", !.requestId = @ + 1]
  PROVE  \A b : Line(y, <<ConnectRequest(y)>>, lt, <<>>, "awaiting", b, h, n, ld)
<1>1. k \in Tabs /\ k.requestId \in Nat /\ k.lastServerClock \in Int
  <2>1. k \in Tabs BY DEF Line, TabOK
  <2>2. QED BY <2>1 DEF Tabs
<1>2. /\ y \in Tabs /\ y.status = "connecting" /\ y.requestId = k.requestId + 1
      /\ y.pending = k.pending /\ y.nextDiff = k.nextDiff /\ y.clientClock = k.clientClock
      /\ y.lastServerClock = k.lastServerClock
  <2> DEFINE r == k.requestId + 1
  <2>1. r \in Nat /\ y = [k EXCEPT !.status = "connecting", !.requestId = r] BY <1>1
  <2> HIDE DEF r
  <2>2. /\ y.status = "connecting" /\ y.requestId = r /\ y.pending = k.pending /\ y.nextDiff = k.nextDiff
        /\ y.clientClock = k.clientClock /\ y.lastServerClock = k.lastServerClock
    BY <1>1, <2>1 DEF Tabs
  <2>3. y \in Tabs BY <1>1, <2>1 DEF Tabs
  <2>4. QED BY <2>2, <2>3 DEF r
<1>3. TabOK(y) BY <1>2 DEF Line, TabOK
<1>4. ConnectRequest(y) \in UpSet(y, n)
  <2>1. ConnectRequest(y) \in Requests /\ ConnectRequest(y).clock = k.lastServerClock /\ ConnectRequest(y).requestId = y.requestId
        /\ ConnectRequest(y).type = "connect"
    BY <1>1, <1>2 DEF ConnectRequest, Requests
  <2>2. k.lastServerClock \in -1 .. n BY <1>1 DEF Line, TabOK
  <2>3. y.requestId <= y.requestId BY <1>1, <1>2
  <2>4. QED BY <1>2, <2>1, <2>2, <2>3 DEF UpSet, UpOK, Ups
<1>5. UpSet(k, n) \subseteq UpSet(y, n)
  <2>1. SUFFICES ASSUME NEW x \in UpSet(k, n) PROVE UpOK(y, x, n) BY DEF UpSet
  <2>2. x \in Ups /\ UpOK(k, x, n) BY DEF UpSet
  <2>3. x.type = "connect" => x.requestId \in Nat BY <2>2, UpsApart DEF Requests
  <2>4. QED BY <1>1, <1>2, <2>2, <2>3 DEF UpOK
<1>6. lt \in Seq(UpSet(y, n)) /\ <<ConnectRequest(y)>> \in Seq(UpSet(y, n))
  <2>1. lt \in Seq(UpSet(k, n)) BY DEF Line
  <2>2. QED BY <1>4, <1>5, <2>1, SeqMonotonic
<1>7. Linked(h, y, <<>>) BY <1>2 DEF Linked
<1>8. QED BY <1>2, <1>3, <1>6, <1>7 DEF Line

\* The tail of a sequence, element by element.
LEMMA TailIs ==
  ASSUME NEW S, NEW q \in Seq(S), q # <<>>
  PROVE  /\ Head(q) = q[1] /\ q[1] \in S /\ Len(q) \in Nat /\ Len(q) >= 1
         /\ Tail(q) \in Seq(S) /\ Len(Tail(q)) = Len(q) - 1 /\ \A i \in 1 .. Len(Tail(q)) : Tail(q)[i] = q[i + 1]
<1>1. Len(q) \in Nat /\ Len(q) >= 1 OBVIOUS
<1>2. Head(q) = q[1] /\ q[1] \in S BY <1>1
<1>3. QED BY <1>1, <1>2, HeadTailProperties

\* The links of what follows the first message.
LEMMA TailLinked ==
  ASSUME NEW h, NEW k, NEW S, NEW q \in Seq(S), q # <<>>,
         \A i \in 2 .. Len(q) : Unheard(k, q, i) \/ LinkOK(h, k, q[i - 1].serverClock, q[i])
  PROVE  /\ ~Own(k, q[1]) => \A i \in 2 .. Len(Tail(q)) :
              Unheard(k, Tail(q), i) \/ LinkOK(h, k, Tail(q)[i - 1].serverClock, Tail(q)[i])
         /\ k.status # "connecting" \/ Own(k, q[1]) =>
              /\ \A i \in 2 .. Len(Tail(q)) : LinkOK(h, k, Tail(q)[i - 1].serverClock, Tail(q)[i])
              /\ Tail(q) # <<>> => LinkOK(h, k, q[1].serverClock, Tail(q)[1])
         /\ Tail(q) # <<>> => Tail(q)[Len(Tail(q))] = q[Len(q)]
         /\ Tail(q) = <<>> => q[Len(q)] = q[1]
<1> DEFINE r == Tail(q)
<1>1. Len(q) \in Nat /\ Len(q) >= 1 /\ r \in Seq(S) /\ Len(r) = Len(q) - 1 /\ \A i \in 1 .. Len(r) : r[i] = q[i + 1]
  BY TailIs
<1> HIDE DEF r
<1>2. ASSUME NEW i \in 2 .. Len(r)
      PROVE  /\ Unheard(k, q, i + 1) \/ LinkOK(h, k, r[i - 1].serverClock, r[i])
             /\ Unheard(k, q, i + 1) /\ ~Own(k, q[1]) => Unheard(k, r, i)
             /\ Unheard(k, q, i + 1) => k.status = "connecting" /\ ~Own(k, q[1])
  <2>1. i + 1 \in 2 .. Len(q) /\ i \in 1 .. Len(r) /\ i - 1 \in 1 .. Len(r) /\ (i + 1) - 1 = i /\ (i - 1) + 1 = i BY <1>1
  <2>2. r[i] = q[i + 1] /\ r[i - 1] = q[i] BY <1>1, <2>1
  <2>3. Unheard(k, q, i + 1) \/ LinkOK(h, k, q[i].serverClock, q[i + 1]) BY <2>1
  <2>4. ASSUME Unheard(k, q, i + 1), NEW j \in 1 .. i - 1 PROVE ~Own(k, r[j])
    <3>1. j + 1 \in 1 .. (i + 1) - 1 /\ j \in 1 .. Len(r) BY <1>1, <2>1
    <3>2. r[j] = q[j + 1] BY <1>1, <3>1
    <3>3. QED BY <2>4, <3>1, <3>2 DEF Unheard
  <2>5. 1 \in 1 .. (i + 1) - 1 BY <1>1
  <2>6. QED BY <2>2, <2>3, <2>4, <2>5 DEF Unheard
<1>3. ASSUME r # <<>>
      PROVE  /\ Unheard(k, q, 2) \/ LinkOK(h, k, q[1].serverClock, r[1])
             /\ Unheard(k, q, 2) => k.status = "connecting" /\ ~Own(k, q[1])
             /\ r[Len(r)] = q[Len(q)]
  <2>1. 1 \in 1 .. Len(r) /\ Len(r) \in 1 .. Len(r) BY <1>1, <1>3
  <2>2. r[1] = q[2] /\ 2 \in 2 .. Len(q) /\ 2 - 1 = 1 /\ r[Len(r)] = q[Len(q)] BY <1>1, <2>1
  <2>3. 1 \in 1 .. 2 - 1 OBVIOUS
  <2>4. QED BY <2>2, <2>3 DEF Unheard
<1>4. r = <<>> => Len(q) = 1 BY <1>1
<1>5. QED BY <1>2, <1>3, <1>4 DEF r

\* A tab that ignores the first message: a reply to an old request, or early data.
LEMMA LineIgnores ==
  ASSUME NEW k, NEW up, NEW lt, NEW q, NEW s, NEW g, NEW h, NEW n, NEW ld,
         Line(k, up, lt, q, s, g, h, n, ld), q # <<>>,
         q[1].type = "connect" \/ k.status = "connecting", k.status = "connecting" => ~Own(k, q[1])
  PROVE  Line(k, up, lt, Tail(q), s, g, h, n, ld)
<1> DEFINE D == DownSet(h, k, n)
           r == Tail(q)
<1>1. q \in Seq(D) BY DEF Line
<1>2. q[1] \in D /\ r \in Seq(D)
  <2> HIDE DEF D
  <2>1. QED BY <1>1, TailIs
<1>3. ~g =>
      /\ k.status # "connecting" => /\ \A i \in 2 .. Len(r) : LinkOK(h, k, r[i - 1].serverClock, r[i])
                                    /\ r # <<>> => LinkOK(h, k, q[1].serverClock, r[1])
      /\ k.status = "connecting" =>
           \A i \in 2 .. Len(r) : Unheard(k, r, i) \/ LinkOK(h, k, r[i - 1].serverClock, r[i])
      /\ r # <<>> => r[Len(r)] = q[Len(q)]
      /\ r = <<>> => q[Len(q)] = q[1]
  <2>1. ~g => \A i \in 2 .. Len(q) : Unheard(k, q, i) \/ LinkOK(h, k, q[i - 1].serverClock, q[i])
    BY DEF Line, Linked
  <2> HIDE DEF D
  <2>2. QED BY <1>1, <2>1, TailLinked
<1>4. ~g /\ k.status = "connected" => q[1].serverClock = k.lastServerClock
  <2>1. k.status = "connected" => q[1].type = "connect" OBVIOUS
  <2>2. ~g /\ k.status = "connected" => LinkOK(h, k, k.lastServerClock, q[1]) BY DEF Line, Linked
  <2>3. QED BY <2>1, <2>2 DEF LinkOK
<1> HIDE DEF r
<1>5. ~g => Linked(h, k, r) BY <1>3, <1>4 DEF Linked
<1>6. ~g /\ s = "connected" /\ k.status # "offline" => EndAt(k, r, ld)
  BY <1>3, <1>4 DEF Line, EndAt
<1>7. s = "awaiting" => FALSE BY DEF Line
<1>8. k.status = "offline" => FALSE BY DEF Line
<1>9. QED BY <1>2, <1>5, <1>6, <1>7, <1>8 DEF Line, r

\* A tab that reads the reply it waits for.
LEMMA LineConnects ==
  ASSUME NEW k, NEW up, NEW lt, NEW q, NEW s, NEW g, NEW h, NEW n \in Nat, NEW ld,
         Line(k, up, lt, q, s, g, h, n, ld), q # <<>>,
         q[1].type = "connect", q[1].requestId = k.requestId, k.status = "connecting",
         NEW y \in Tabs, y.status = "connected", y.lastServerClock = q[1].serverClock,
         y.pending = k.pending, y.clientClock = k.clientClock, y.requestId = k.requestId
  PROVE  Line(y, up, lt, Tail(q), s, g, h, n, ld)
<1> DEFINE D == DownSet(h, k, n)
           r == Tail(q)
<1>1. q \in Seq(D) /\ k \in Tabs /\ k.pending = <<>> BY DEF Line, TabOK
<1>2. q[1] \in D /\ r \in Seq(D)
  <2> HIDE DEF D
  <2>1. QED BY <1>1, TailIs
<1>3. ~g =>
      /\ \A i \in 2 .. Len(r) : LinkOK(h, k, r[i - 1].serverClock, r[i])
      /\ r # <<>> => LinkOK(h, k, q[1].serverClock, r[1])
      /\ r # <<>> => r[Len(r)] = q[Len(q)]
      /\ r = <<>> => q[Len(q)] = q[1]
  <2>1. ~g => \A i \in 2 .. Len(q) : Unheard(k, q, i) \/ LinkOK(h, k, q[i - 1].serverClock, q[i])
    BY DEF Line, Linked
  <2> HIDE DEF D
  <2>2. Own(k, q[1]) BY DEF Own
  <2>3. QED BY <1>1, <2>1, <2>2, TailLinked
<1>4. y.lastServerClock \in Nat /\ y.lastServerClock <= n
  <2>1. q[1] \in Downs BY <1>2 DEF DownSet
  <2>2. QED BY <1>2, <2>1, UpsApart DEF DownSet, DownOK
<1>5. TabOK(y) BY <1>1, <1>4 DEF TabOK
<1>6. UpSet(k, n) \subseteq UpSet(y, n) BY DEF UpSet, UpOK
<1>7. D \subseteq DownSet(h, y, n) BY DEF DownSet, DownOK, ReplyOK
<1>8. up \in Seq(UpSet(y, n)) /\ lt \in Seq(UpSet(y, n))
  <2>1. up \in Seq(UpSet(k, n)) /\ lt \in Seq(UpSet(k, n)) BY DEF Line
  <2>2. QED BY <1>6, <2>1, SeqMonotonic
<1> HIDE DEF D, r
<1>9. r \in Seq(DownSet(h, y, n)) BY <1>2, <1>7, SeqMonotonic
<1>10. ~g => Linked(h, y, r)
  <2>1. \A prev, m : LinkOK(h, k, prev, m) => LinkOK(h, y, prev, m) BY DEF LinkOK
  <2>2. QED BY <1>3, <2>1 DEF Linked
<1>11. ~g /\ s = "connected" => EndAt(y, r, ld)
  BY <1>3 DEF Line, EndAt
<1>12. s = "awaiting" => FALSE BY DEF Line
<1>13. QED BY <1>4, <1>5, <1>8, <1>9, <1>10, <1>11, <1>12 DEF Line, r

\* The storage moves on.
LEMMA LineGrows ==
  ASSUME NEW k, NEW up, NEW lt, NEW q, NEW s, NEW g, NEW h, NEW n \in Nat, NEW ld,
         Line(k, up, lt, q, s, g, h, n, ld), NEW hs, NEW m \in Nat, n <= m,
         \A i \in 0 .. n : hs[i] = h[i]
  PROVE  Line(k, up, lt, q, s, g, hs, m, ld)
<1>1. /\ k \in Tabs /\ k.lastServerClock \in Int /\ k.lastServerClock >= -1 /\ k.lastServerClock <= n
      /\ k.status = "connected" => k.lastServerClock >= 0
      /\ q \in Seq(DownSet(h, k, n))
  <2>1. k \in Tabs BY DEF Line, TabOK
  <2>2. k.lastServerClock \in Int BY <2>1 DEF Tabs
  <2>3. QED BY <2>1, <2>2 DEF Line, TabOK
<1>2. UpSet(k, n) \subseteq UpSet(k, m)
  <2>1. SUFFICES ASSUME NEW x \in UpSet(k, n) PROVE UpOK(k, x, m) BY DEF UpSet
  <2>2. UpOK(k, x, n) BY DEF UpSet
  <2>3. \A c \in -1 .. n : c \in -1 .. m OBVIOUS
  <2>4. QED BY <2>2, <2>3 DEF UpOK
<1>3. DownSet(h, k, n) \subseteq DownSet(hs, k, m)
  <2>1. SUFFICES ASSUME NEW x \in DownSet(h, k, n) PROVE DownOK(hs, k, x, m) BY DEF DownSet
  <2>2. x \in Downs /\ DownOK(h, k, x, n) BY DEF DownSet
  <2>3. x.serverClock \in Nat /\ x.serverClock <= n BY <2>2, UpsApart DEF DownOK
  <2>4. hs[x.serverClock] = h[x.serverClock] /\ x.serverClock <= m BY <2>3
  <2>5. k.lastServerClock >= 0 => hs[k.lastServerClock] = h[k.lastServerClock] BY <1>1
  <2>6. ReplyOK(hs, k, x) BY <2>2, <2>4, <2>5 DEF DownOK, ReplyOK
  <2>7. QED BY <2>2, <2>4, <2>6 DEF DownOK
<1>4. \A i \in 1 .. Len(q) : q[i].serverClock \in 0 .. n
  <2>1. SUFFICES ASSUME NEW i \in 1 .. Len(q) PROVE q[i].serverClock \in 0 .. n OBVIOUS
  <2>2. q[i] \in DownSet(h, k, n) BY <1>1
  <2>3. q[i].serverClock \in Nat /\ q[i].serverClock <= n BY <2>2, UpsApart DEF DownSet, DownOK
  <2>4. QED BY <2>3
<1>5. ASSUME NEW prev \in 0 .. n, NEW x, x.serverClock \in 0 .. n, LinkOK(h, k, prev, x) PROVE LinkOK(hs, k, prev, x)
  <2>1. hs[prev] = h[prev] /\ hs[x.serverClock] = h[x.serverClock] BY <1>5
  <2>2. QED BY <1>5, <2>1 DEF LinkOK
<1>6. ~g => Linked(hs, k, q)
  <2>1. ASSUME ~g, NEW i \in 2 .. Len(q) PROVE Unheard(k, q, i) \/ LinkOK(hs, k, q[i - 1].serverClock, q[i])
    <3>1. i \in 1 .. Len(q) /\ i - 1 \in 1 .. Len(q) BY <1>1
    <3>2. Unheard(k, q, i) \/ LinkOK(h, k, q[i - 1].serverClock, q[i]) BY <2>1 DEF Line, Linked
    <3>3. QED BY <1>4, <1>5, <3>1, <3>2
  <2>2. ASSUME ~g, k.status = "connected", q # <<>> PROVE LinkOK(hs, k, k.lastServerClock, q[1])
    <3>1. 1 \in 1 .. Len(q) /\ k.lastServerClock \in 0 .. n BY <1>1, <2>2
    <3>2. LinkOK(h, k, k.lastServerClock, q[1]) BY <2>2 DEF Line, Linked
    <3>3. QED BY <1>4, <1>5, <3>1, <3>2
  <2>3. QED BY <2>1, <2>2 DEF Linked
<1>7. up \in Seq(UpSet(k, m)) /\ lt \in Seq(UpSet(k, m)) /\ q \in Seq(DownSet(hs, k, m))
  <2>1. up \in Seq(UpSet(k, n)) /\ lt \in Seq(UpSet(k, n)) BY DEF Line
  <2>2. QED BY <1>1, <1>2, <1>3, <2>1, SeqMonotonic
<1>8. k.lastServerClock <= m BY <1>1
<1>9. QED BY <1>6, <1>7, <1>8 DEF Line

\* A connected session is told what leads on from what it was told last.
LEMMA LineTold ==
  ASSUME NEW k, NEW up, NEW lt, NEW q, NEW g, NEW h, NEW n \in Nat, NEW ld,
         Line(k, up, lt, q, "connected", g, h, n, ld), k.status # "offline",
         NEW m \in Downs, LinkOK(h, k, ld, m), DownOK(h, k, m, n)
  PROVE  Line(k, up, lt, Append(q, m), "connected", g, h, n, m.serverClock)
<1> DEFINE D == DownSet(h, k, n)
           r == Append(q, m)
           L == Len(q)
<1>1. q \in Seq(D) /\ m \in D BY DEF Line, DownSet
<1>2. /\ r \in Seq(D) /\ L \in Nat /\ Len(r) = L + 1 /\ r[L + 1] = m /\ \A i \in 1 .. L : r[i] = q[i]
      /\ r # <<>>
  <2> HIDE DEF D
  <2>1. QED BY <1>1, AppendProperties
<1>3. ~g => (q # <<>> => q[L].serverClock = ld) /\ (q = <<>> /\ k.status = "connected" => k.lastServerClock = ld)
  BY DEF Line, EndAt
<1> HIDE DEF r
<1>4. ~g => Linked(h, k, r)
  <2>1. ASSUME ~g, NEW i \in 2 .. Len(r) PROVE Unheard(k, r, i) \/ LinkOK(h, k, r[i - 1].serverClock, r[i])
    <3>1. i - 1 \in 1 .. L BY <1>2
    <3>2. CASE i = L + 1
      <4>1. i - 1 = L /\ r[i - 1] = q[L] /\ q # <<>> /\ r[i] = m BY <1>2, <3>1, <3>2
      <4>2. QED BY <1>3, <2>1, <4>1
    <3>3. CASE i # L + 1
      <4>1. i \in 2 .. L /\ i \in 1 .. L BY <1>2, <3>3
      <4>2. Unheard(k, q, i) \/ LinkOK(h, k, q[i - 1].serverClock, q[i]) BY <2>1, <4>1 DEF Line, Linked
      <4>3. Unheard(k, q, i) => Unheard(k, r, i)
        <5>1. \A j \in 1 .. i - 1 : j \in 1 .. L BY <1>2, <4>1
        <5>2. QED BY <1>2, <5>1 DEF Unheard
      <4>4. QED BY <1>2, <3>1, <4>1, <4>2, <4>3
    <3>4. QED BY <3>2, <3>3
  <2>2. ASSUME ~g, k.status = "connected" PROVE LinkOK(h, k, k.lastServerClock, r[1])
    <3>1. CASE q = <<>>
      <4>1. r[1] = m BY <1>2, <3>1
      <4>2. QED BY <1>3, <2>2, <3>1, <4>1
    <3>2. CASE q # <<>>
      <4>1. r[1] = q[1] BY <1>2, <3>2
      <4>2. QED BY <2>2, <3>2, <4>1 DEF Line, Linked
    <3>3. QED BY <3>1, <3>2
  <2>3. QED BY <2>1, <2>2 DEF Linked
<1>5. EndAt(k, r, m.serverClock) BY <1>2 DEF EndAt
<1>6. QED BY <1>2, <1>4, <1>5 DEF Line, r

\* A session that awaits its first connect request gets the reply.
LEMMA LineAnswered ==
  ASSUME NEW k, NEW up, NEW lt, NEW q, NEW g, NEW h, NEW n \in Nat, NEW ld,
         Line(k, up, lt, q, "awaiting", g, h, n, ld), k.status # "offline",
         NEW m \in Downs, DownOK(h, k, m, n)
  PROVE  Line(k, up, lt, Append(q, m), "connected", g, h, n, m.serverClock)
<1>1. q = <<>> /\ k.status # "connected" BY DEF Line
<1>2. Append(q, m) = <<m>> /\ m \in DownSet(h, k, n) BY <1>1 DEF DownSet
<1>3. <<m>> \in Seq(DownSet(h, k, n)) BY <1>2
<1>4. Linked(h, k, <<m>>) BY <1>1 DEF Linked
<1>5. EndAt(k, <<m>>, m.serverClock) BY DEF EndAt
<1>6. QED BY <1>1, <1>2, <1>3, <1>4, <1>5 DEF Line

\* Whether the loss of all but j of its messages cheats a tab.
Cheats(k, q, j) == j < Len(q) /\ (k.status = "connected" \/ \E i \in 1 .. Len(q) : Own(k, q[i]))

\* A connected session that is replaced gets the reply after the first j messages.
\* What came after them is lost: a tab that waits for its reply makes nothing of
\* that, any other is cheated.
LEMMA LineReplaced ==
  ASSUME NEW k, NEW up, NEW lt, NEW q, NEW g \in BOOLEAN, NEW b \in BOOLEAN, NEW h, NEW n \in Nat,
         Line(k, up, lt, q, "connected", g, h, n, n), k.status # "offline",
         NEW m \in Downs, m.type = "connect", m.serverClock = n, DownOK(h, k, m, n), NEW j \in 0 .. Len(q),
         g => b, Cheats(k, q, j) => b
  PROVE  Line(k, up, lt, Append(SubSeq(q, 1, j), m), "connected", b, h, n, n)
<1> DEFINE D == DownSet(h, k, n)
           p == SubSeq(q, 1, j)
           r == Append(p, m)
<1>1. q \in Seq(D) /\ m \in D BY DEF Line, DownSet
<1>2. Len(q) \in Nat /\ p \in Seq(D) /\ Len(p) = j /\ \A i \in 1 .. j : p[i] = q[i] /\ i \in 1 .. Len(q)
  <2> HIDE DEF D
  <2>1. j \in Nat /\ Len(q) \in Nat /\ j <= Len(q) BY <1>1
  <2>2. \A i \in 1 .. j : q[i] \in D BY <1>1, <2>1
  <2>3. /\ p \in Seq(D) /\ Len(p) = IF 1 <= j THEN j - 1 + 1 ELSE 0
        /\ \A i \in 1 .. j - 1 + 1 : p[i] = q[1 + i - 1]
    BY <2>1, <2>2, SubSeqProperties
  <2> HIDE DEF p
  <2>4. QED BY <2>1, <2>3
<1> HIDE DEF p
<1>3. r \in Seq(D) /\ Len(r) = j + 1 /\ r[j + 1] = m /\ r # <<>> /\ \A i \in 1 .. j : r[i] = p[i]
  <2> HIDE DEF D
  <2>1. QED BY <1>1, <1>2, AppendProperties
<1>4. CASE j = Len(q)
  <2>1. p = q
    <3> HIDE DEF D
    <3>1. QED BY <1>1, <1>2, <1>4
  <2>2. LinkOK(h, k, n, m) BY DEF LinkOK
  <2>3. Line(k, up, lt, Append(q, m), "connected", g, h, n, n) BY <2>2, LineTold
  <2>4. QED BY <2>1, <2>3 DEF Line, p
<1>5. CASE j # Len(q)
  <2>1. j < Len(q) BY <1>2, <1>5
  <2>2. ASSUME ~b PROVE Linked(h, k, r)
    <3>1. k.status = "connecting" /\ \A i \in 1 .. Len(q) : ~Own(k, q[i])
      BY <2>1, <2>2 DEF Line, TabOK, Tabs, Cheats
    <3> HIDE DEF r
    <3>2. ASSUME NEW i \in 2 .. Len(r) PROVE Unheard(k, r, i)
      <4>1. \A l \in 1 .. i - 1 : l \in 1 .. j BY <1>2, <1>3
      <4>2. QED BY <1>2, <1>3, <3>1, <4>1 DEF Unheard
    <3>3. QED BY <3>1, <3>2 DEF Linked
  <2>3. EndAt(k, r, n)
    <3> HIDE DEF r
    <3>1. QED BY <1>3 DEF EndAt
  <2> HIDE DEF r
  <2>4. QED BY <1>3, <2>2, <2>3 DEF Line, r, p
<1>6. QED BY <1>4, <1>5

\* A session nobody listens to.
LEMMA LineUntold ==
  ASSUME NEW k, NEW up, NEW lt, NEW q, NEW s, NEW g, NEW h, NEW n, NEW ld, NEW s2, NEW ld2,
         Line(k, up, lt, q, s, g, h, n, ld),
         \/ s2 = "none"
         \/ k.status = "offline" /\ s2 \in {"none", "awaiting", "connected"}
         \/ s2 = s /\ s # "connected"
  PROVE  Line(k, up, lt, q, s2, g, h, n, ld2)
BY DEF Line

\* The server reads the first message.
LEMMA LineReads ==
  ASSUME NEW k, NEW up, NEW lt, NEW q, NEW s, NEW g, NEW h, NEW n, NEW ld, Line(k, up, lt, q, s, g, h, n, ld)
  PROVE  /\ up # <<>> => Line(k, Tail(up), lt, q, s, g, h, n, ld) /\ Head(up) \in UpSet(k, n)
         /\ lt # <<>> => Line(k, up, Tail(lt), q, s, g, h, n, ld) /\ Head(lt) \in UpSet(k, n)
<1> DEFINE U == UpSet(k, n)
<1>1. up \in Seq(U) /\ lt \in Seq(U) BY DEF Line
<1>2. ASSUME up # <<>> PROVE Tail(up) \in Seq(U) /\ Head(up) \in U /\ k.status # "offline"
  <2>1. k.status # "offline" BY <1>2 DEF Line
  <2> HIDE DEF U
  <2>2. QED BY <1>1, <1>2, <2>1, TailIs
<1>3. ASSUME lt # <<>> PROVE Tail(lt) \in Seq(U) /\ Head(lt) \in U
  <2> HIDE DEF U
  <2>1. QED BY <1>1, <1>3, TailIs
<1>4. up # <<>> => Line(k, Tail(up), lt, q, s, g, h, n, ld) BY <1>2 DEF Line
<1>5. lt # <<>> => Line(k, up, Tail(lt), q, s, g, h, n, ld) BY <1>3 DEF Line
<1>6. QED BY <1>2, <1>3, <1>4, <1>5

-----------------------------------------------------------------------------
(* What the room does to a session's line.                                 *)

\* A change feed as a network diff does what it does.
LEMMA ForwardIs ==
  ASSUME NEW f \in Diffs
  PROVE  ForwardDiff(f) \in NetDiffs /\ \A s \in Contents : Apply(s, ForwardDiff(f)) = ApplyForward(s, f)
<1>1. ASSUME NEW id \in RecordId
      PROVE  LET o == ForwardDiff(f)[id] IN
             /\ o \in Ops \cup {Unchanged}
             /\ \A x : ApplyOp(x, o) = IF f[id] = Unchanged THEN x ELSE f[id]
  <2>1. f[id] \in Value \cup {Absent, Unchanged} BY DEF Diffs
  <2>2. CASE f[id] = Unchanged BY <2>2 DEF ForwardDiff, ApplyOp
  <2>3. CASE f[id] = Absent
    <3> DEFINE o == [type |-> "remove", state |-> Absent]
    <3>1. ForwardDiff(f)[id] = o BY <2>3, Apart DEF ForwardDiff, Maybe
    <3>2. o \in Ops BY DEF Ops
    <3>3. o # Unchanged BY <3>2, Apart
    <3>4. \A x : ApplyOp(x, o) = Absent BY <3>3 DEF ApplyOp
    <3>5. QED BY <2>3, <3>1, <3>2, <3>4, Apart DEF Maybe
  <2>4. CASE f[id] # Absent /\ f[id] # Unchanged
    <3> DEFINE o == [type |-> "put", state |-> f[id]]
    <3>1. ForwardDiff(f)[id] = o BY <2>4 DEF ForwardDiff
    <3>2. o \in Ops BY <2>1, <2>4 DEF Ops
    <3>3. o # Unchanged BY <3>2, Apart
    <3>4. \A x : ApplyOp(x, o) = f[id] BY <3>3 DEF ApplyOp
    <3>5. QED BY <2>4, <3>1, <3>2, <3>4
  <2>5. QED BY <2>2, <2>3, <2>4
<1>2. ForwardDiff(f) \in NetDiffs
  <2>1. DOMAIN ForwardDiff(f) = RecordId /\ ForwardDiff(f) = [id \in RecordId |-> ForwardDiff(f)[id]] BY DEF ForwardDiff
  <2>2. QED BY <1>1, <2>1 DEF NetDiffs
<1>3. ASSUME NEW s \in Contents PROVE Apply(s, ForwardDiff(f)) = ApplyForward(s, f)
  <2>1. Apply(s, ForwardDiff(f)) = [id \in RecordId |-> ApplyOp(s[id], ForwardDiff(f)[id])] BY DiffsAt
  <2>2. QED BY <1>1, <2>1 DEF ApplyForward
<1>4. QED BY <1>2, <1>3

\* The change feed, sent as a network diff.
LEMMA FeedApplies ==
  ASSUME Inv, NEW c \in -1 .. documentClock
  PROVE  /\ ForwardDiff(changesSince(c)) \in NetDiffs
         /\ c = -1 => wipeAll(c)
         /\ Apply(IF wipeAll(c) THEN NoRecords ELSE history[c], ForwardDiff(changesSince(c))) = history[documentClock]
<1>1. /\ documentClock \in Nat /\ documents \in Contents /\ history[documentClock] = documents
      /\ tombstoneHistoryStartsAtClock \in Nat /\ history \in [0 .. documentClock -> Contents]
  BY DEF Inv, storageTypeOK
<1>2. changesSince(c) \in Diffs
  BY <1>1 DEF changesSince, Diffs, Contents
<1>3. c = -1 => wipeAll(c) BY <1>1 DEF wipeAll
<1>4. CASE c = -1
  <2>1. CaughtUp(history[0], c) = documents
    <3>1. c \in {-1, documentClock + 1} /\ 0 \in 0 .. documentClock BY <1>1, <1>4
    <3>2. QED BY <3>1, StrangersWiped DEF Inv
  <2>2. ApplyForward(NoRecords, changesSince(c)) = documents BY <1>3, <1>4, <2>1 DEF CaughtUp
  <2>3. QED BY <1>1, <1>2, <1>3, <1>4, <2>2, ForwardIs, WholeTypes
<1>5. CASE c # -1
  <2>1. c \in 0 .. documentClock BY <1>1, <1>5
  <2>2. CaughtUp(history[c], c) = documents BY <2>1, FeedIsComplete DEF Inv
  <2>3. history[c] \in Contents BY <1>1, <2>1
  <2>4. (IF wipeAll(c) THEN NoRecords ELSE history[c]) \in Contents BY <2>3, WholeTypes
  <2>5. QED BY <1>1, <1>2, <1>5, <2>2, <2>4, ForwardIs DEF CaughtUp
<1>6. QED BY <1>4, <1>5

\* News leads from what the room told last to what is stored.
LEMMA NewsIs ==
  ASSUME Inv, lastDocumentClock \in 0 .. documentClock, ~mustReconnect
  PROVE  \/ lastDocumentClock = documentClock /\ news = <<>>
         \/ \E m \in Downs : /\ news = <<m>> /\ m.type = "patch" /\ m.serverClock = documentClock
                             /\ history[documentClock] = Apply(history[lastDocumentClock], m.diff)
<1>1. CASE lastDocumentClock = documentClock BY <1>1 DEF news
<1>2. CASE lastDocumentClock # documentClock
  <2> DEFINE nd == ForwardDiff(changesSince(lastDocumentClock))
             m  == Patch(nd, documentClock)
  <2>1. ~wipeAll(lastDocumentClock) BY <1>2 DEF mustReconnect
  <2>2. documentClock \in Nat /\ lastDocumentClock \in -1 .. documentClock BY DEF Inv, storageTypeOK
  <2>3. nd \in NetDiffs /\ history[documentClock] = Apply(history[lastDocumentClock], nd)
    BY <2>1, <2>2, FeedApplies
  <2>4. news = <<m>> BY <1>2 DEF news
  <2> HIDE DEF nd
  <2>5. m \in Downs /\ m.type = "patch" /\ m.serverClock = documentClock /\ m.diff = nd
    BY <2>2, <2>3 DEF Patch, Downs, Patches
  <2>6. QED BY <2>3, <2>4, <2>5
<1>3. QED BY <1>1, <1>2

\* A connected session gets the news.
LEMMA NewsKeeps ==
  ASSUME Inv, lastDocumentClock \in 0 .. documentClock, ~mustReconnect,
         NEW k, NEW up, NEW lt, NEW q, NEW g, k.status # "offline",
         Line(k, up, lt, q, "connected", g, history, documentClock, lastDocumentClock)
  PROVE  Line(k, up, lt, q \o news, "connected", g, history, documentClock, documentClock)
<1>1. documentClock \in Nat /\ q \in Seq(DownSet(history, k, documentClock)) BY DEF Inv, storageTypeOK, Line
<1>2. CASE lastDocumentClock = documentClock /\ news = <<>>
  <2>1. q \o <<>> = q BY <1>1, ConcatEmptySeq
  <2>2. QED BY <1>2, <2>1
<1>3. CASE \E m \in Downs : /\ news = <<m>> /\ m.type = "patch" /\ m.serverClock = documentClock
                            /\ history[documentClock] = Apply(history[lastDocumentClock], m.diff)
  <2>1. PICK m \in Downs : /\ news = <<m>> /\ m.type = "patch" /\ m.serverClock = documentClock
                           /\ history[documentClock] = Apply(history[lastDocumentClock], m.diff)
    BY <1>3
  <2>2. LinkOK(history, k, lastDocumentClock, m) BY <2>1 DEF LinkOK
  <2>3. DownOK(history, k, m, documentClock) BY <1>1, <2>1 DEF DownOK, ReplyOK
  <2>4. Line(k, up, lt, Append(q, m), "connected", g, history, documentClock, documentClock)
    BY <1>1, <2>1, <2>2, <2>3, LineTold
  <2>5. q \o <<m>> = Append(q, m) BY <1>1
  <2>6. QED BY <2>1, <2>4, <2>5
<1>4. QED BY <1>2, <1>3, NewsIs

\* News is a patch, if anything.
LEMMA NewsTyped ==
  ASSUME Inv, lastDocumentClock \in 0 .. documentClock, ~mustReconnect
  PROVE  news \in Seq(Downs) /\ \A i \in 1 .. Len(news) : news[i].type = "patch"
<1>1. CASE news = <<>> BY <1>1
<1>2. CASE \E m \in Downs : news = <<m>> /\ m.type = "patch"
  <2>1. PICK m \in Downs : news = <<m>> /\ m.type = "patch" BY <1>2
  <2>2. QED BY <2>1
<1>3. QED BY <1>1, <1>2, NewsIs

\* Sessions have queued no more than was sent, whatever is broadcast.
LEMMA BroadcastHolds ==
  ASSUME Held, NEW S, \A c \in Client : s2c[c] \in Seq(S), ~mustReconnect => news \in Seq(S),
         NEW messages, \A c \in Client : messages[c] \in Seq(S), broadcast(messages), misled' = misled
  PROVE  Held'
<1>1. PICK running \in timers :
        /\ s2c' = [c \in Client |-> IF hears(c) THEN s2c[c] \o news \o messages[c] ELSE s2c[c]]
        /\ outstanding' = [c \in Client |->
             IF hears(c) THEN queued(c, Len(news \o messages[c]), running) ELSE outstanding[c]]
        /\ cheated' = cheated
  BY DEF broadcast
<1>2. ASSUME NEW c \in Client PROVE outstanding'[c] \in 0 .. Len(s2c'[c])
  <2>1. s2c[c] \in Seq(S) /\ outstanding[c] \in 0 .. Len(s2c[c]) BY DEF Held
  <2>2. CASE hears(c)
    <3> DEFINE q == s2c[c]
               v == news
               w == messages[c]
               u == v \o w
               m == Len(u)
    <3>1. q \in Seq(S) /\ v \in Seq(S) /\ w \in Seq(S) BY <2>1, <2>2 DEF hears, Connected
    <3>2. s2c'[c] = (q \o v) \o w /\ outstanding'[c] = queued(c, m, running) BY <1>1, <2>2
    <3> HIDE DEF q, v, w
    <3>3. (q \o v) \o w = q \o u /\ u \in Seq(S) BY <3>1, ConcatAssociative
    <3> HIDE DEF u
    <3>4. Len(s2c'[c]) = Len(q) + m /\ Len(q) \in Nat /\ m \in Nat BY <3>1, <3>2, <3>3
    <3>5. outstanding'[c] = queued(c, m, running) BY <3>2
    <3> HIDE DEF m
    <3>6. queued(c, m, running) \in 0 .. Len(q) + m BY <2>1, <3>4 DEF queued, q
    <3>7. QED BY <3>4, <3>5, <3>6
  <2>3. CASE ~hears(c) BY <1>1, <2>1, <2>3
  <2>4. QED BY <2>2, <2>3
<1>3. QED BY <1>1, <1>2 DEF Held

\* The room looks at the storage.
LEMMA CatchUpKeeps ==
  ASSUME Inv, lastDocumentClock \in 0 .. documentClock, NEW x \in Client, NEW up, NEW lt,
         Line(tab[x], up, lt, s2c[x], session[x], x \in cheated, history, documentClock, lastDocumentClock),
         catchUp, broadcast(nothing)
  PROVE  Line(tab[x], up, lt, s2c'[x], session'[x], x \in cheated', history, documentClock, documentClock)
<1> DEFINE k == tab[x]
           q == s2c[x]
           g == x \in cheated
<1>1. /\ session'[x] = IF mustReconnect THEN "none" ELSE session[x]
      /\ s2c'[x] = IF Connected(x) /\ k.status # "offline" THEN q \o news \o <<>> ELSE q
      /\ cheated' = cheated
  BY DEF catchUp, broadcast, nothing, hears
<1>2. CASE mustReconnect
  <2>1. s2c'[x] = q /\ session'[x] = "none" BY <1>1, <1>2 DEF Connected
  <2>2. Line(k, up, lt, q, "none", g, history, documentClock, documentClock) BY LineUntold
  <2>3. QED BY <1>1, <2>1, <2>2
<1>3. CASE ~mustReconnect /\ session[x] = "connected" /\ k.status # "offline"
  <2>1. Line(k, up, lt, q \o news, "connected", g, history, documentClock, documentClock) BY <1>3, NewsKeeps
  <2>2. q \o news \in Seq(DownSet(history, k, documentClock)) BY <2>1 DEF Line
  <2>3. (q \o news) \o <<>> = q \o news BY <2>2, ConcatEmptySeq
  <2>4. s2c'[x] = q \o news /\ session'[x] = "connected" BY <1>1, <1>3, <2>3 DEF Connected
  <2>5. QED BY <1>1, <2>1, <2>4
<1>4. CASE ~mustReconnect /\ ~(session[x] = "connected" /\ k.status # "offline")
  <2>1. s2c'[x] = q /\ session'[x] = session[x] BY <1>1, <1>4 DEF Connected
  <2>2. session[x] \in {"none", "awaiting", "connected"} BY DEF Line
  <2>3. Line(k, up, lt, q, session[x], g, history, documentClock, documentClock)
    <3> DEFINE st == session[x]
    <3> HIDE DEF k, q, g, st
    <3>1. QED BY <1>4, <2>2, LineUntold DEF st, k, q, g
  <2>4. QED BY <1>1, <2>1, <2>3
<1>5. QED BY <1>2, <1>3, <1>4

\* The reply to a connect request.
LEMMA ReplyIs ==
  ASSUME Inv, NEW k, NEW msg \in UpSet(k, documentClock), msg.type = "connect", TabOK(k),
         NEW r, r = ConnectReply(msg.requestId, msg.clock # documentClock /\ wipeAll(msg.clock),
                      IF msg.clock = documentClock THEN NoOps ELSE ForwardDiff(changesSince(msg.clock)),
                      documentClock)
  PROVE  /\ r \in Downs /\ r.type = "connect" /\ r.serverClock = documentClock
         /\ DownOK(history, k, r, documentClock)
<1> DEFINE c    == msg.clock
           wipe == c # documentClock /\ wipeAll(c)
           nd   == IF c = documentClock THEN NoOps ELSE ForwardDiff(changesSince(c))
<1>1. documentClock \in Nat /\ c \in -1 .. documentClock /\ msg.requestId \in Nat /\ msg \in Requests
      /\ (k.status = "connecting" /\ msg.requestId = k.requestId => c = k.lastServerClock)
  BY UpsApart DEF Inv, storageTypeOK, UpSet, UpOK, Requests
<1>2. /\ nd \in NetDiffs
      /\ ~wipe => c >= 0
      /\ history[documentClock] = Apply(IF wipe THEN NoRecords ELSE history[c], nd)
  <2>1. CASE c = documentClock
    <3>1. ~wipe /\ nd = NoOps /\ c >= 0 BY <1>1, <2>1
    <3>2. history[c] \in Contents BY <1>1, <2>1 DEF Inv, storageTypeOK
    <3>3. Apply(history[c], NoOps) = history[c] BY <3>2, NothingLeads
    <3>4. NoOps \in NetDiffs BY DEF NoOps, NetDiffs
    <3> HIDE DEF nd, wipe, c
    <3>5. QED BY <2>1, <3>1, <3>3, <3>4
  <2>2. CASE c # documentClock
    <3>1. nd = ForwardDiff(changesSince(c)) /\ (wipe <=> wipeAll(c)) BY <2>2
    <3> HIDE DEF nd, wipe, c
    <3>2. /\ nd \in NetDiffs /\ (c = -1 => wipe)
          /\ history[documentClock] = Apply(IF wipe THEN NoRecords ELSE history[c], nd)
      BY <1>1, <3>1, FeedApplies
    <3>3. QED BY <1>1, <3>2
  <2>3. QED BY <2>1, <2>2
<1>3. r = ConnectReply(msg.requestId, wipe, nd, documentClock) /\ wipe \in BOOLEAN OBVIOUS
<1> HIDE DEF c, wipe, nd
<1>4. r \in Replies /\ r.type = "connect" /\ r.serverClock = documentClock /\ r.requestId = msg.requestId
      /\ r.wipeAll = wipe /\ r.diff = nd
  BY <1>1, <1>2, <1>3 DEF ConnectReply, Replies
<1>5. ReplyOK(history, k, r) BY <1>1, <1>2, <1>4 DEF ReplyOK
<1>6. QED BY <1>1, <1>4, <1>5 DEF DownOK, Downs

\* The reply to a request, and what a session has been told when it gets it.
ReplyTo(msg) ==
  LET upToDate == msg.clock = documentClock
  IN  ConnectReply(msg.requestId, ~upToDate /\ wipeAll(msg.clock),
        IF upToDate THEN NoOps ELSE ForwardDiff(changesSince(msg.clock)), documentClock)

Told(x) == IF hears(x) THEN s2c[x] \o news ELSE s2c[x]

\* What handleConnect does if nobody has to reconnect: the one who asks gets the
\* reply after so much of what it was told as its old session had sent.
LEMMA ConnectIs ==
  ASSUME Held, NEW c \in Client, NEW msg, ~mustReconnect, handleConnect(c, msg),
         \A x \in Client : s2c[x] \in Seq(Downs), news \in Seq(Downs), DOMAIN session = Client, misled' = misled
  PROVE  /\ Held' /\ session' = [session EXCEPT ![c] = "connected"] /\ DOMAIN s2c' = Client
         /\ UNCHANGED storageVars /\ lastDocumentClock' = documentClock
         /\ \A x \in Client \ {c} : s2c'[x] = Told(x) /\ (x \in cheated' <=> x \in cheated)
         /\ c \in cheated => c \in cheated'
         /\ tab[c].status = "offline" => s2c'[c] = s2c[c]
         /\ tab[c].status # "offline" => \E j \in 0 .. Len(Told(c)) :
              /\ s2c'[c] = Append(SubSeq(Told(c), 1, j), ReplyTo(msg))
              /\ j < Len(Told(c)) /\ answered(c) => c \in cheated'
<1> DEFINE left(x, running) == IF hears(x) THEN queued(x, Len(news), running) ELSE outstanding[x]
<1>1. PICK running \in timers :
        /\ s2c' = [x \in Client |->
             IF x # c \/ tab[c].status = "offline" THEN Told(x)
             ELSE SubSeq(Told(c), 1, Len(Told(c)) - left(c, running)) \o <<ReplyTo(msg)>>]
        /\ outstanding' = [x \in Client |-> IF x = c THEN 0 ELSE left(x, running)]
        /\ cheated' = IF left(c, running) > 0 /\ answered(c) THEN cheated \cup {c} ELSE cheated
  BY DEF handleConnect, ReplyTo, Told
<1>2. session' = [session EXCEPT ![c] = "connected"] /\ lastDocumentClock' = documentClock /\ UNCHANGED storageVars
  BY DEF handleConnect
<1>3. ASSUME NEW x \in Client PROVE Told(x) \in Seq(Downs) /\ left(x, running) \in 0 .. Len(Told(x))
  <2>1. s2c[x] \in Seq(Downs) /\ outstanding[x] \in 0 .. Len(s2c[x]) BY DEF Held
  <2>2. CASE hears(x)
    <3> DEFINE m == Len(news)
    <3>1. Told(x) \in Seq(Downs) /\ m \in Nat /\ Len(s2c[x]) \in Nat BY <2>1, <2>2 DEF Told
    <3>2. Len(Told(x)) = Len(s2c[x]) + m BY <2>1, <2>2 DEF Told
    <3> HIDE DEF m
    <3>3. queued(x, m, running) \in 0 .. Len(s2c[x]) + m BY <2>1, <3>1 DEF queued
    <3>4. QED BY <2>2, <3>1, <3>2, <3>3 DEF m
  <2>3. CASE ~hears(x) BY <2>1, <2>3 DEF Told
  <2>4. QED BY <2>2, <2>3
<1> DEFINE lost == left(c, running)
           j == Len(Told(c)) - lost
           p == SubSeq(Told(c), 1, j)
<1>4. Told(c) \in Seq(Downs) /\ Len(Told(c)) \in Nat /\ lost \in 0 .. Len(Told(c)) BY <1>3
<1>5. /\ \A x \in Client \ {c} : s2c'[x] = Told(x)
      /\ tab[c].status # "offline" => s2c'[c] = p \o <<ReplyTo(msg)>>
      /\ cheated' = IF lost > 0 /\ answered(c) THEN cheated \cup {c} ELSE cheated
  BY <1>1
<1> HIDE DEF left, lost
<1>6. j \in 0 .. Len(Told(c)) /\ (j < Len(Told(c)) <=> lost > 0) BY <1>4
<1> HIDE DEF j
<1>7. p \in Seq(Downs) BY <1>4, <1>6
<1> HIDE DEF p
<1>8. p \o <<ReplyTo(msg)>> = Append(p, ReplyTo(msg)) /\ Len(Append(p, ReplyTo(msg))) \in Nat
  <2> DEFINE r == ReplyTo(msg)
             S == Downs \cup {r}
  <2>1. p \in Seq(S) /\ r \in S
    <3> HIDE DEF r
    <3>1. Downs \subseteq S OBVIOUS
    <3> HIDE DEF S
    <3>2. p \in Seq(S) BY <1>7, <3>1, SeqMonotonic
    <3>3. QED BY <3>2 DEF S
  <2> HIDE DEF r, S
  <2>2. p \o <<r>> = Append(p, r) /\ Len(Append(p, r)) \in Nat BY <2>1
  <2>3. QED BY <2>2 DEF r
<1>9. tab[c].status = "offline" => s2c'[c] = s2c[c] BY <1>1 DEF Told, hears
<1>10. Held'
  <2>1. ASSUME NEW x \in Client PROVE outstanding'[x] \in 0 .. Len(s2c'[x])
    <3>1. CASE x # c BY <1>1, <1>3, <1>5, <3>1
    <3>2. CASE x = c
      <4>1. outstanding'[x] = 0 BY <1>1, <3>2
      <4>2. Len(s2c'[c]) \in Nat
        <5>1. CASE tab[c].status = "offline" BY <1>9, <5>1
        <5>2. CASE tab[c].status # "offline" BY <1>5, <1>8, <5>2
        <5>3. QED BY <5>1, <5>2
      <4>3. QED BY <3>2, <4>1, <4>2
    <3>3. QED BY <3>1, <3>2
  <2>2. DOMAIN outstanding' = Client /\ cheated' \subseteq Client BY <1>1 DEF Held
  <2>3. QED BY <2>1, <2>2 DEF Held
<1>11. tab[c].status # "offline" =>
         /\ s2c'[c] = Append(SubSeq(Told(c), 1, j), ReplyTo(msg))
         /\ j < Len(Told(c)) /\ answered(c) => c \in cheated'
  BY <1>5, <1>6, <1>8 DEF p
<1>12. DOMAIN s2c' = Client BY <1>1
<1>13. QED BY <1>2, <1>5, <1>6, <1>9, <1>10, <1>11, <1>12

\* Handling a connect request keeps every line: the one who asks gets the reply,
\* whoever else is connected gets the news.
LEMMA HandleConnectKeeps ==
  ASSUME Inv, Held, lastDocumentClock \in 0 .. documentClock, NEW c \in Client, NEW msg \in UpSet(tab[c], documentClock),
         msg.type = "connect", session[c] # "none", DOMAIN session = Client, handleConnect(c, msg), misled' = misled,
         \A x \in Client : s2c[x] \in Seq(Downs),
         NEW x \in Client, NEW up, NEW lt,
         Line(tab[x], up, lt, s2c[x], session[x], x \in cheated, history, documentClock, lastDocumentClock)
  PROVE  Line(tab[x], up, lt, s2c'[x], session'[x], x \in cheated', history, documentClock, documentClock)
<1> DEFINE k == tab[x]
           q == s2c[x]
           s == session[x]
           g == x \in cheated
           b == x \in cheated'
           r == ReplyTo(msg)
           n == documentClock
           ld == lastDocumentClock
           h == history
           a == Told(x)
<1>0. n \in Nat /\ g \in BOOLEAN /\ b \in BOOLEAN BY DEF Inv, storageTypeOK
<1>1. Line(k, up, lt, q, s, g, h, n, ld) /\ s \in {"none", "awaiting", "connected"} BY DEF Line
<1>2. CASE mustReconnect
  <2>1. session'[x] = "none" /\ s2c' = s2c /\ cheated' = cheated BY <1>2 DEF handleConnect, catchUp, outbox
  <2>2. Line(k, up, lt, q, "none", g, h, n, n) BY LineUntold
  <2>3. QED BY <2>1, <2>2
<1>3. CASE ~mustReconnect
  <2>0. news \in Seq(Downs) /\ \A i \in 1 .. Len(news) : news[i].type = "patch" BY <1>3, NewsTyped
  <2>1. /\ session' = [session EXCEPT ![c] = "connected"]
        /\ x # c => s2c'[x] = a /\ (b <=> g)
        /\ x = c => /\ g => b
                    /\ k.status = "offline" => s2c'[x] = q
                    /\ k.status # "offline" => \E j \in 0 .. Len(a) :
                         s2c'[x] = Append(SubSeq(a, 1, j), r) /\ (j < Len(a) /\ answered(x) => b)
    BY <1>3, <2>0, ConnectIs
  <2>2. a = IF s = "connected" /\ k.status # "offline" THEN q \o news ELSE q
    BY <1>3 DEF Told, hears, Connected
  <2>3. k.status # "offline" /\ s = "connected" => Line(k, up, lt, a, "connected", g, h, n, n)
    BY <1>3, <2>2, NewsKeeps
  <2>4. session'[x] = IF x = c THEN "connected" ELSE s BY <2>1
  <2>5. Line(k, up, lt, q, s, g, h, n, ld) => Line(k, up, lt, q, s, b, h, n, ld) \/ ~(g => b) BY DEF Line
  <2>6. answered(x) <=> k.status = "connected" \/ \E i \in 1 .. Len(q) : Own(k, q[i])
    BY DEF answered, Own
  <2>7. (\E i \in 1 .. Len(a) : Own(k, a[i])) => \E i \in 1 .. Len(q) : Own(k, q[i])
    <3>1. SUFFICES ASSUME a = q \o news, NEW i \in 1 .. Len(a), Own(k, a[i]) PROVE \E e \in 1 .. Len(q) : Own(k, q[e])
      BY <2>2
    <3>2. q \in Seq(Downs) /\ Len(q) \in Nat /\ Len(news) \in Nat BY <2>0
    <3> HIDE DEF a, q, k
    <3>3. Len(a) = Len(q) + Len(news) /\ a[i] = IF i <= Len(q) THEN q[i] ELSE news[i - Len(q)]
      BY <2>0, <3>1, <3>2
    <3>4. i > Len(q) => i - Len(q) \in 1 .. Len(news) BY <3>1, <3>2, <3>3
    <3>5. i <= Len(q) BY <2>0, <3>1, <3>2, <3>3, <3>4 DEF Own
    <3>6. QED BY <3>1, <3>2, <3>3, <3>5
  <2> HIDE DEF a, k, q, s, g, b, r, h, n, ld
  <2>8. CASE x # c
    <3>1. session'[x] = s /\ s2c'[x] = a /\ (b <=> g) BY <2>1, <2>4, <2>8
    <3>2. CASE s = "connected" /\ k.status # "offline"
      <4>1. Line(k, up, lt, a, s, g, h, n, n) BY <2>3, <3>2
      <4>2. Line(k, up, lt, a, s, b, h, n, n) BY <3>1, <4>1 DEF Line
      <4>3. QED BY <3>1, <4>2 DEF k, b, h, n
    <3>3. CASE ~(s = "connected" /\ k.status # "offline")
      <4>1. a = q BY <2>2, <3>3
      <4>2. Line(k, up, lt, q, s, g, h, n, n) BY <1>1, <3>3, LineUntold
      <4>3. Line(k, up, lt, q, s, b, h, n, n) BY <3>1, <4>2 DEF Line
      <4>4. QED BY <3>1, <4>1, <4>3 DEF k, b, h, n
    <3>4. QED BY <3>2, <3>3
  <2>9. CASE x = c /\ k.status = "offline"
    <3>1. session'[x] = "connected" /\ s2c'[x] = q /\ (g => b) BY <2>1, <2>4, <2>9
    <3>2. Line(k, up, lt, q, "connected", g, h, n, n) BY <1>1, <2>9, LineUntold
    <3>3. Line(k, up, lt, q, "connected", b, h, n, n) BY <3>1, <3>2 DEF Line
    <3>4. QED BY <3>1, <3>3 DEF k, b, h, n
  <2>10. CASE x = c /\ k.status # "offline"
    <3>1. PICK j \in 0 .. Len(a) : s2c'[x] = Append(SubSeq(a, 1, j), r) /\ (j < Len(a) /\ answered(x) => b)
      BY <2>1, <2>10
    <3>2. TabOK(k) BY <1>1 DEF Line
    <3>3. r \in Downs /\ r.type = "connect" /\ r.serverClock = n /\ DownOK(h, k, r, n)
      <4>1. msg \in UpSet(k, n) BY <2>10 DEF k, n
      <4>2. r = ConnectReply(msg.requestId, msg.clock # documentClock /\ wipeAll(msg.clock),
                      IF msg.clock = documentClock THEN NoOps ELSE ForwardDiff(changesSince(msg.clock)),
                      documentClock)
        BY DEF r, ReplyTo
      <4>3. QED BY <3>2, <4>1, <4>2, ReplyIs DEF h, n
    <3>4. CASE s = "connected"
      <4>1. Cheats(k, a, j) => b BY <2>6, <2>7, <3>1 DEF Cheats
      <4>2. Line(k, up, lt, a, "connected", g, h, n, n) /\ (g => b) BY <2>1, <2>3, <2>10, <3>4
      <4>3. Line(k, up, lt, Append(SubSeq(a, 1, j), r), "connected", b, h, n, n)
        BY <1>0, <2>10, <3>3, <4>1, <4>2, LineReplaced
      <4>4. QED BY <2>4, <2>10, <3>1, <4>3 DEF k, b, h, n
    <3>5. CASE s = "awaiting"
      <4>1. a = <<>> /\ q = <<>> BY <1>1, <2>2, <3>5 DEF Line
      <4>2. SubSeq(a, 1, j) = q
        <5>1. j = 0 BY <4>1
        <5>2. QED BY <4>1, <5>1
      <4>3. Line(k, up, lt, Append(q, r), "connected", g, h, n, n)
        <5>1. Line(k, up, lt, q, "awaiting", g, h, n, ld) BY <1>1, <3>5
        <5>2. Line(k, up, lt, Append(q, r), "connected", g, h, n, r.serverClock)
          BY <1>0, <2>10, <3>3, <5>1, LineAnswered
        <5>3. QED BY <3>3, <5>2
      <4>4. Line(k, up, lt, Append(q, r), "connected", b, h, n, n) BY <2>1, <2>10, <4>3 DEF Line
      <4>5. QED BY <2>4, <2>10, <3>1, <4>2, <4>4 DEF k, b, h, n
    <3>6. s # "none" BY <2>10 DEF s
    <3>7. QED BY <1>1, <3>4, <3>5, <3>6
  <2>11. QED BY <2>8, <2>9, <2>10
<1>4. QED BY <1>2, <1>3

\* A transaction adds at most one clock, and leaves the past as it was.
LEMMA TransactionIs ==
  ASSUME Inv, NEW P \in SUBSET RecordId, NEW D \in SUBSET RecordId, NEW puts \in [P -> Value], transaction(puts, D)
  PROVE  /\ Inv' /\ documentClock \in Nat /\ documentClock' \in Nat /\ documentClock <= documentClock'
         /\ \A i \in 0 .. documentClock : history'[i] = history[i]
         /\ history[documentClock] = documents /\ history'[documentClock'] = documents'
         /\ history'[documentClock] = documents /\ documents \in Contents /\ documents' \in Contents
         /\ documents' = [id \in RecordId |-> IF id \in D \cap (Stored \cup P) THEN Absent
                            ELSE IF id \in P THEN puts[id] ELSE documents[id]]
         /\ P = {} /\ D \cap Stored = {} => documentClock' = documentClock
<1> DEFINE removed == D \cap (Stored \cup P)
           clock   == documentClock + 1
<1>1. Inv' BY TransactionKeepsInv
<1>2. /\ documentClock \in Nat /\ documentClock' \in Nat /\ documents \in Contents /\ documents' \in Contents
      /\ history[documentClock] = documents /\ history'[documentClock'] = documents'
  BY <1>1 DEF Inv, storageTypeOK, Contents
<1>3. CASE P \cup removed = {}
  <2>1. UNCHANGED storageVars BY <1>3 DEF transaction
  <2>2. documents' = documents /\ documentClock' = documentClock /\ history' = history BY <2>1 DEF storageVars
  <2>3. documents' = [id \in RecordId |-> documents[id]] BY <1>2, <2>2 DEF Contents
  <2>4. documents' = [id \in RecordId |-> IF id \in removed THEN Absent
                        ELSE IF id \in P THEN puts[id] ELSE documents[id]]
    BY <1>3, <2>3
  <2>5. QED BY <1>1, <1>2, <2>2, <2>4
<1>4. CASE P \cup removed # {}
  <2>1. /\ documents' = [id \in RecordId |-> IF id \in removed THEN Absent
                           ELSE IF id \in P THEN puts[id] ELSE documents[id]]
        /\ documentClock' = clock
        /\ history' = [c \in 0 .. clock |-> IF c = clock THEN documents' ELSE history[c]]
    BY <1>4 DEF transaction
  <2>2. \A i \in 0 .. documentClock : i \in 0 .. clock /\ i # clock BY <1>2
  <2>3. \A i \in 0 .. documentClock : history'[i] = history[i] BY <2>1, <2>2
  <2>4. documentClock \in 0 .. documentClock /\ documentClock <= clock BY <1>2
  <2>5. ~(P = {} /\ D \cap Stored = {}) BY <1>4
  <2> HIDE DEF clock
  <2>6. QED BY <1>1, <1>2, <2>1, <2>3, <2>4, <2>5
<1>5. QED BY <1>3, <1>4

\* What the room makes of a push: the storage holds what the push comes to.
After(msg)  == Apply(documents, msg.diff)
Actual(msg) == NetworkDiff(Changes(documents, After(msg)))

\* The storage after a push.
Advanced ==
  /\ Inv' /\ documentClock \in Nat /\ documentClock' \in Nat /\ documentClock <= documentClock'
  /\ \A i \in 0 .. documentClock : history'[i] = history[i]
  /\ history'[documentClock] = documents /\ documents \in Contents
  /\ history'[documentClock'] = documents'

\* A push is stored, as what it comes to.
LEMMA PushStores ==
  ASSUME Inv, NEW msg \in Pushes, NEW c, session[c] = "connected", handlePush(c, msg)
  PROVE  /\ Advanced /\ documents' = After(msg) /\ After(msg) \in Contents
         /\ Actual(msg) \in NetDiffs /\ documents' = Apply(documents, Actual(msg))
         /\ Actual(msg) = NoOps => documents' = documents /\ documentClock' = documentClock
<1> DEFINE after  == Apply(documents, msg.diff)
           stored == {id \in RecordId : after[id] # documents[id] /\ after[id] # Absent}
           puts   == [id \in stored |-> after[id]]
           D      == {id \in RecordId : documents[id] # Absent /\ after[id] = Absent}
<1>1. transaction(puts, D) BY DEF handlePush
<1>2. documents \in Contents /\ msg.diff \in NetDiffs BY DEF Inv, storageTypeOK, Pushes
<1>3. after \in Contents BY <1>2, WholeTypes
<1> HIDE DEF after
<1>4. stored \in SUBSET RecordId /\ D \in SUBSET RecordId /\ puts \in [stored -> Value]
  BY <1>3 DEF Contents
<1>5. /\ Advanced /\ documents' \in Contents
      /\ documents' = [id \in RecordId |-> IF id \in D \cap (Stored \cup stored) THEN Absent
                          ELSE IF id \in stored THEN puts[id] ELSE documents[id]]
      /\ stored = {} /\ D \cap Stored = {} => documentClock' = documentClock
  <2> HIDE DEF stored, D, puts
  <2>1. Advanced /\ documents' \in Contents BY <1>1, <1>4, TransactionIs DEF Advanced
  <2>2. documents' = [id \in RecordId |-> IF id \in D \cap (Stored \cup stored) THEN Absent
                          ELSE IF id \in stored THEN puts[id] ELSE documents[id]]
    BY <1>1, <1>4, TransactionIs
  <2>3. stored = {} /\ D \cap Stored = {} => documentClock' = documentClock BY <1>1, <1>4, TransactionIs
  <2>4. QED BY <2>1, <2>2, <2>3
<1>6. documents' = after
  <2>1. \A id \in RecordId : documents'[id] = after[id]
    <3>1. D \cap (Stored \cup stored) = D BY DEF Stored
    <3>2. \A id \in RecordId : documents'[id] = IF id \in D THEN Absent
                          ELSE IF id \in stored THEN puts[id] ELSE documents[id]
      BY <1>5, <3>1
    <3>3. QED BY <3>2
  <2>2. QED BY <1>3, <1>5, <2>1 DEF Contents
<1>7. Actual(msg) \in NetDiffs /\ Apply(documents, Actual(msg)) = after
  BY <1>2, <1>3, ChangesLead, WholeTypes DEF Actual, After, after
<1>8. ASSUME Actual(msg) = NoOps PROVE after = documents /\ documentClock' = documentClock
  <2>1. after = documents BY <1>2, <1>7, <1>8, NothingLeads
  <2>2. stored = {} /\ D \cap Stored = {} BY <2>1
  <2>3. QED BY <1>5, <2>1, <2>2
<1>9. QED BY <1>3, <1>5, <1>6, <1>7, <1>8 DEF After, after

\* What its sender is told leads on from the storage before it.
LEMMA ResultIs ==
  ASSUME NEW k, NEW msg \in UpSet(k, documentClock), msg.type = "push",
         Advanced, documents' = After(msg), After(msg) \in Contents,
         Actual(msg) \in NetDiffs, documents' = Apply(documents, Actual(msg)),
         Actual(msg) = NoOps => documents' = documents
  PROVE  LET r == result(msg, Actual(msg)) IN
         /\ r \in Downs /\ r.serverClock = documentClock'
         /\ LinkOK(history', k, documentClock, r) /\ DownOK(history', k, r, documentClock')
<1> DEFINE r == result(msg, Actual(msg))
           a == Actual(msg)
           n == documentClock'
<1>1. /\ msg \in Pushes /\ msg.clientClock \in Nat /\ msg.clientClock < k.clientClock
      /\ \A i \in 1 .. Len(k.pending) : k.pending[i].clientClock = msg.clientClock => k.pending[i].diff = msg.diff
  BY UpsApart DEF UpSet, UpOK, Pushes
<1>2. n \in Nat /\ NoOps \in NetDiffs /\ history'[n] = documents' /\ history'[documentClock] = documents
  BY DEF Advanced, NoOps, NetDiffs
<1> HIDE DEF a, n
<1>3. ASSUME NEW act \in {"commit", "discard", "rebase"}, NEW nd \in NetDiffs,
             r = PushResult(msg.clientClock, act, nd, n)
      PROVE  /\ r \in Downs /\ r.serverClock = n /\ DownOK(history', k, r, n)
             /\ r.type = "push_result" /\ r.action = act /\ r.diff = nd /\ r.clientClock = msg.clientClock
  <2> HIDE DEF r
  <2>1. /\ r \in Results /\ r.serverClock = n /\ r.type = "push_result" /\ r.action = act /\ r.diff = nd
        /\ r.clientClock = msg.clientClock
    BY <1>1, <1>2, <1>3 DEF PushResult, Results
  <2>2. QED BY <1>1, <1>2, <2>1 DEF Downs, DownOK, ReplyOK
<1>4. CASE a = msg.diff
  <2>1. r = PushResult(msg.clientClock, "commit", NoOps, n) BY <1>4 DEF result, a, n
  <2>2. /\ r \in Downs /\ r.serverClock = n /\ DownOK(history', k, r, n)
        /\ r.type = "push_result" /\ r.action = "commit" /\ r.clientClock = msg.clientClock
    BY <1>2, <1>3, <2>1
  <2> HIDE DEF r
  <2>3. documents' = Apply(documents, msg.diff) BY DEF After
  <2>4. LinkOK(history', k, documentClock, r) BY <1>1, <1>2, <2>2, <2>3 DEF LinkOK
  <2>5. QED BY <2>2, <2>4 DEF r, n
<1>5. CASE a # msg.diff /\ a = NoOps
  <2>1. r = PushResult(msg.clientClock, "discard", NoOps, n) BY <1>5 DEF result, a, n
  <2>2. /\ r \in Downs /\ r.serverClock = n /\ DownOK(history', k, r, n)
        /\ r.type = "push_result" /\ r.action = "discard" /\ r.clientClock = msg.clientClock
    BY <1>2, <1>3, <2>1
  <2> HIDE DEF r
  <2>3. documents' = documents BY <1>5 DEF a
  <2>4. LinkOK(history', k, documentClock, r) BY <1>1, <1>2, <2>2, <2>3 DEF LinkOK
  <2>5. QED BY <2>2, <2>4 DEF r, n
<1>6. CASE a # msg.diff /\ a # NoOps
  <2>1. r = PushResult(msg.clientClock, "rebase", a, n) BY <1>6 DEF result, a, n
  <2>2. /\ r \in Downs /\ r.serverClock = n /\ DownOK(history', k, r, n)
        /\ r.type = "push_result" /\ r.action = "rebase" /\ r.diff = a /\ r.clientClock = msg.clientClock
    BY <1>2, <1>3, <2>1 DEF a
  <2> HIDE DEF r
  <2>3. documents' = Apply(documents, a) BY DEF a
  <2>4. LinkOK(history', k, documentClock, r) BY <1>1, <1>2, <2>2, <2>3 DEF LinkOK
  <2>5. QED BY <2>2, <2>4 DEF r, n
<1>7. QED BY <1>4, <1>5, <1>6

\* Handling a push keeps every line: the sender gets its result, the others what it
\* came to.
LEMMA HandlePushKeeps ==
  ASSUME Inv, lastDocumentClock \in 0 .. documentClock, NEW c \in Client, NEW msg \in UpSet(tab[c], documentClock),
         msg.type = "push", session[c] = "connected", handlePush(c, msg),
         NEW x \in Client, NEW up, NEW lt,
         Line(tab[x], up, lt, s2c[x], session[x], x \in cheated, history, documentClock, lastDocumentClock)
  PROVE  Line(tab[x], up, lt, s2c'[x], session'[x], x \in cheated', history', documentClock', documentClock')
<1> DEFINE k == tab[x]
           q == s2c[x]
           s == session[x]
           g == x \in cheated
           r == result(msg, Actual(msg))
           p == Patch(Actual(msg), documentClock')
           said == IF x = c THEN <<r>> ELSE IF Actual(msg) = NoOps THEN <<>> ELSE <<p>>
           n == documentClock
           m == documentClock'
           hs == history'
<1>1. msg \in Pushes BY UpsApart DEF UpSet
<1>2. /\ Advanced /\ documents' = After(msg) /\ After(msg) \in Contents
      /\ Actual(msg) \in NetDiffs /\ documents' = Apply(documents, Actual(msg))
      /\ Actual(msg) = NoOps => documents' = documents /\ m = n
  BY <1>1, PushStores
<1>3. n \in Nat /\ m \in Nat /\ n <= m /\ (\A i \in 0 .. n : hs[i] = history[i])
      /\ hs[n] = documents /\ hs[m] = documents'
  BY <1>2 DEF Advanced
<1>4. /\ session'[x] = IF mustReconnect THEN "none" ELSE s
      /\ s2c'[x] = IF Connected(x) /\ k.status # "offline" THEN q \o news \o said ELSE q
      /\ cheated' = cheated
  BY DEF handlePush, broadcast, answer, hears, Actual, After
<1>5. s \in {"none", "awaiting", "connected"} BY DEF Line
<1>6. \A a, b, l : Line(k, up, lt, a, b, g, history, n, l) => Line(k, up, lt, a, b, g, hs, m, l)
  <2>1. SUFFICES ASSUME NEW a, NEW b, NEW l, Line(k, up, lt, a, b, g, history, n, l) PROVE Line(k, up, lt, a, b, g, hs, m, l)
    OBVIOUS
  <2> HIDE DEF k, g, hs, n, m
  <2>2. QED BY <1>3, <2>1, LineGrows
<1>7. Line(k, up, lt, q, s, g, hs, m, lastDocumentClock) BY <1>6
<1> HIDE DEF r, p, said, hs, m
<1>8. CASE mustReconnect
  <2>1. s2c'[x] = q /\ session'[x] = "none" BY <1>4, <1>8 DEF Connected
  <2>2. Line(k, up, lt, q, "none", g, hs, m, m) BY <1>7, LineUntold
  <2>3. QED BY <1>4, <2>1, <2>2 DEF hs, m
<1>9. CASE ~mustReconnect /\ ~(s = "connected" /\ k.status # "offline")
  <2>1. s2c'[x] = q /\ session'[x] = s BY <1>4, <1>9 DEF Connected
  <2>2. Line(k, up, lt, q, s, g, hs, m, m)
    <3> HIDE DEF k, q, s, g
    <3>1. QED BY <1>5, <1>7, <1>9, LineUntold
  <2>3. QED BY <1>4, <2>1, <2>2 DEF hs, m
<1>10. CASE ~mustReconnect /\ s = "connected" /\ k.status # "offline"
  <2> DEFINE a == q \o news
  <2>1. Line(k, up, lt, a, "connected", g, history, n, n) BY <1>10, NewsKeeps
  <2>2. Line(k, up, lt, a, "connected", g, hs, m, n) BY <1>6, <2>1
  <2>3. s2c'[x] = a \o said /\ session'[x] = "connected" BY <1>4, <1>10 DEF Connected
  <2>4. a \in Seq(DownSet(hs, k, m)) BY <2>2 DEF Line
  <2> HIDE DEF a, n, k, g
  <2>5. CASE x = c
    <3>1. k = tab[c] BY <2>5 DEF k
    <3>2. /\ r \in Downs /\ r.serverClock = m /\ LinkOK(hs, k, n, r) /\ DownOK(hs, k, r, m)
      BY <1>2, <3>1, ResultIs DEF r, hs, m, n
    <3>3. Line(k, up, lt, Append(a, r), "connected", g, hs, m, m)
      BY <1>3, <1>10, <2>2, <3>2, LineTold
    <3>4. said = <<r>> /\ r \in DownSet(hs, k, m) BY <2>5, <3>2 DEF said, DownSet
    <3>5. s2c'[x] = Append(a, r) BY <2>3, <2>4, <3>4
    <3>6. QED BY <1>4, <2>3, <3>3, <3>5 DEF hs, m, k, g
  <2>6. CASE x # c /\ Actual(msg) = NoOps
    <3>1. said = <<>> /\ m = n BY <1>2, <2>6 DEF said
    <3>2. s2c'[x] = a BY <2>3, <2>4, <3>1, ConcatEmptySeq
    <3>3. QED BY <1>4, <2>2, <2>3, <3>1, <3>2 DEF hs, m, k, g
  <2>7. CASE x # c /\ Actual(msg) # NoOps
    <3>1. said = <<p>> BY <2>7 DEF said
    <3>2. p \in Downs /\ p.type = "patch" /\ p.serverClock = m /\ p.diff = Actual(msg)
      <4> DEFINE nd == Actual(msg)
      <4>1. nd \in NetDiffs BY <1>2
      <4> HIDE DEF nd
      <4>2. Patch(nd, m) \in Patches /\ Patch(nd, m).type = "patch" /\ Patch(nd, m).serverClock = m /\ Patch(nd, m).diff = nd
        BY <1>3, <4>1 DEF Patch, Patches
      <4>3. p = Patch(nd, m) BY DEF p, m, nd
      <4>4. QED BY <4>2, <4>3 DEF Downs, nd
    <3>3. LinkOK(hs, k, n, p) /\ DownOK(hs, k, p, m) BY <1>2, <1>3, <3>2 DEF LinkOK, DownOK, ReplyOK
    <3>4. Line(k, up, lt, Append(a, p), "connected", g, hs, m, m)
      BY <1>3, <1>10, <2>2, <3>2, <3>3, LineTold
    <3>5. p \in DownSet(hs, k, m) BY <3>2, <3>3 DEF DownSet
    <3>6. s2c'[x] = Append(a, p) BY <2>3, <2>4, <3>1, <3>5
    <3>7. QED BY <1>4, <2>3, <3>4, <3>6 DEF hs, m, k, g
  <2>8. QED BY <2>5, <2>6, <2>7
<1>11. QED BY <1>8, <1>9, <1>10

\* The storage is where it was, or further on; the room has looked no further.
Onward ==
  /\ Inv' /\ documentClock \in Nat /\ documentClock' \in Nat /\ documentClock <= documentClock'
  /\ \A i \in 0 .. documentClock : history'[i] = history[i]
  /\ lastDocumentClock' \in 0 .. documentClock'

\* A step that leaves the storage alone.
LEMMA Unmoved ==
  ASSUME Inv, UNCHANGED storageVars
  PROVE  /\ Inv' /\ documentClock \in Nat /\ documentClock' = documentClock /\ history' = history /\ documents' = documents
         /\ lastDocumentClock' \in 0 .. documentClock => Onward
<1>1. Inv' BY DEF Inv, storageTypeOK, FeedInv, Contents, Tombstone, storageVars
<1>2. documentClock \in Nat BY DEF Inv, storageTypeOK
<1>3. documentClock' = documentClock /\ history' = history /\ documents' = documents BY DEF storageVars
<1>4. QED BY <1>1, <1>2, <1>3 DEF Onward

\* Whatever the server reads keeps every line, on whichever socket it came.
LEMMA HandleMessageKeeps ==
  ASSUME Inv, Held, lastDocumentClock \in 0 .. documentClock, NEW c \in Client, NEW msg \in UpSet(tab[c], documentClock),
         session \in Sessions, DOMAIN s2c = Client, \A x \in Client : s2c[x] \in Seq(Downs),
         handleMessage(c, msg), misled' = misled
  PROVE  /\ Held' /\ Onward /\ session' \in Sessions /\ DOMAIN s2c' = Client
         /\ \A x \in Client : \A up, lt :
              Line(tab[x], up, lt, s2c[x], session[x], x \in cheated, history, documentClock, lastDocumentClock)
              => Line(tab[x], up, lt, s2c'[x], session'[x], x \in cheated', history', documentClock', lastDocumentClock')
<1>0. documentClock \in 0 .. documentClock BY DEF Inv, storageTypeOK
<1>1. CASE msg.type = "connect" /\ session[c] # "none" /\ handleConnect(c, msg)
  <2>1. /\ UNCHANGED storageVars /\ lastDocumentClock' = documentClock
        /\ session' \in Sessions /\ DOMAIN s2c' = Client /\ Held'
    <3>1. CASE mustReconnect BY <1>1, <3>1 DEF handleConnect, catchUp, outbox, Sessions, Held
    <3>2. CASE ~mustReconnect
      <4>1. Held' /\ session' = [session EXCEPT ![c] = "connected"] /\ DOMAIN s2c' = Client
            /\ UNCHANGED storageVars /\ lastDocumentClock' = documentClock
        BY <1>1, <3>2, NewsTyped, ConnectIs DEF Sessions
      <4>2. QED BY <4>1 DEF Sessions
    <3>3. QED BY <3>1, <3>2
  <2>2. Onward /\ documentClock' = documentClock /\ history' = history BY <1>0, <2>1, Unmoved
  <2>3. ASSUME NEW x \in Client, NEW up, NEW lt,
               Line(tab[x], up, lt, s2c[x], session[x], x \in cheated, history, documentClock, lastDocumentClock)
        PROVE  Line(tab[x], up, lt, s2c'[x], session'[x], x \in cheated', history, documentClock, documentClock)
    BY <1>1, <2>3, HandleConnectKeeps DEF Sessions
  <2>4. QED BY <2>1, <2>2, <2>3
<1>2. CASE \/ UNCHANGED <<serverVars, outbox>>
           \/ msg.type = "push" /\ session[c] # "connected" /\ handlePush(c, msg)
  <2>1. /\ UNCHANGED storageVars /\ lastDocumentClock' = lastDocumentClock /\ session' = session /\ s2c' = s2c
        /\ outstanding' = outstanding /\ cheated' = cheated
    BY <1>2 DEF handlePush, serverVars, outbox
  <2>2. Onward /\ documentClock' = documentClock /\ history' = history BY <2>1, Unmoved
  <2>3. Held' BY <2>1 DEF Held
  <2>4. QED BY <2>1, <2>2, <2>3
<1>3. CASE catchUp /\ broadcast(nothing)
  <2>1. /\ UNCHANGED storageVars /\ lastDocumentClock' = documentClock
        /\ session' \in Sessions /\ DOMAIN s2c' = Client
    BY <1>3 DEF catchUp, broadcast, Sessions
  <2>2. Onward /\ documentClock' = documentClock /\ history' = history BY <1>0, <2>1, Unmoved
  <2>3. ASSUME NEW x \in Client, NEW up, NEW lt,
               Line(tab[x], up, lt, s2c[x], session[x], x \in cheated, history, documentClock, lastDocumentClock)
        PROVE  Line(tab[x], up, lt, s2c'[x], session'[x], x \in cheated', history, documentClock, documentClock)
    BY <1>3, <2>3, CatchUpKeeps
  <2>4. Held'
    <3>1. \A x \in Client : nothing[x] \in Seq(Downs) BY DEF nothing
    <3>2. QED BY <1>3, <3>1, NewsTyped, BroadcastHolds
  <2>5. QED BY <2>1, <2>2, <2>3, <2>4
<1>4. CASE msg.type = "push" /\ session[c] = "connected" /\ handlePush(c, msg)
  <2>1. msg \in Pushes BY <1>4, UpsApart DEF UpSet
  <2>2. Advanced BY <1>4, <2>1, PushStores
  <2>3. lastDocumentClock' = documentClock' /\ session' \in Sessions /\ DOMAIN s2c' = Client
    BY <1>4 DEF handlePush, broadcast, Sessions
  <2>4. Onward BY <2>2, <2>3 DEF Advanced, Onward
  <2>5. ASSUME NEW x \in Client, NEW up, NEW lt,
               Line(tab[x], up, lt, s2c[x], session[x], x \in cheated, history, documentClock, lastDocumentClock)
        PROVE  Line(tab[x], up, lt, s2c'[x], session'[x], x \in cheated', history', documentClock', documentClock')
    BY <1>4, <2>5, HandlePushKeeps
  <2>6. Held'
    <3> DEFINE r == result(msg, Actual(msg))
               p == Patch(Actual(msg), documentClock')
               S == Downs \cup {r, p}
               said == [x \in Client |-> IF x = c THEN <<r>> ELSE IF Actual(msg) = NoOps THEN <<>> ELSE <<p>>]
    <3>1. broadcast(said) BY <1>4 DEF handlePush, answer, Actual, After
    <3> HIDE DEF r, p
    <3>2. r \in S /\ p \in S /\ Downs \subseteq S OBVIOUS
    <3> HIDE DEF S
    <3>3. \A x \in Client : said[x] \in Seq(S) BY <3>2
    <3>4. (\A x \in Client : s2c[x] \in Seq(S)) /\ (~mustReconnect => news \in Seq(S))
      BY <3>2, NewsTyped, SeqMonotonic
    <3> HIDE DEF said
    <3>5. QED BY <3>1, <3>3, <3>4, BroadcastHolds
  <2>7. QED BY <2>3, <2>4, <2>5, <2>6
<1>5. CASE msg.type = "close" /\ handleClose(c)
  <2>1. /\ UNCHANGED storageVars /\ lastDocumentClock' = lastDocumentClock /\ s2c' = s2c
        /\ outstanding' = outstanding /\ cheated' = cheated
        /\ session' = [session EXCEPT ![c] = "none"] /\ session' \in Sessions
    BY <1>5 DEF handleClose, outbox, Sessions
  <2>2. Onward /\ documentClock' = documentClock /\ history' = history BY <2>1, Unmoved
  <2>3. ASSUME NEW x \in Client, NEW up, NEW lt,
               Line(tab[x], up, lt, s2c[x], session[x], x \in cheated, history, documentClock, lastDocumentClock)
        PROVE  Line(tab[x], up, lt, s2c[x], session'[x], x \in cheated', history, documentClock, lastDocumentClock)
    <3>1. CASE x = c
      <4>1. session'[x] = "none" BY <2>1, <3>1 DEF Sessions
      <4>2. Line(tab[x], up, lt, s2c[x], "none", x \in cheated, history, documentClock, lastDocumentClock) BY <2>3, LineUntold
      <4>3. QED BY <2>1, <4>1, <4>2
    <3>2. CASE x # c
      <4>1. session'[x] = session[x] BY <2>1, <3>2
      <4>2. QED BY <2>1, <2>3, <4>1
    <3>3. QED BY <3>1, <3>2
  <2>4. Held' BY <2>1 DEF Held
  <2>5. QED BY <2>1, <2>2, <2>3, <2>4
<1>6. QED BY <1>1, <1>2, <1>3, <1>4, <1>5 DEF handleMessage

-----------------------------------------------------------------------------
(* The actions keep every client's line in order.                          *)

\* g is f but for c, where it is v.
At(f, g, c, v) == DOMAIN g = Client /\ g[c] = v /\ \A x \in Client \ {c} : g[x] = f[x]

LEMMA AtIs ==
  ASSUME NEW c \in Client, NEW f, DOMAIN f = Client
  PROVE  At(f, f, c, f[c]) /\ \A v : At(f, [f EXCEPT ![c] = v], c, v)
BY DEF At

\* A step of one client's keeps all lines if it keeps its own.
LEMMA ClientMoves ==
  ASSUME LineInv, NEW c \in Client, NEW k, NEW up, NEW lt, NEW q, NEW s, NEW o,
         Line(k, up, lt, q, s, c \in cheated', history, documentClock, lastDocumentClock),
         At(tab, tab', c, k), At(c2s, c2s', c, up), At(late, late', c, lt), At(s2c, s2c', c, q),
         At(session, session', c, s), session' \in Sessions, At(outstanding, outstanding', c, o), o \in 0 .. Len(q),
         cheated' \subseteq Client, \A x \in Client \ {c} : x \in cheated' <=> x \in cheated,
         misled' \subseteq Client,
         UNCHANGED <<storageVars, lastDocumentClock>>
  PROVE  LineInv'
<1>1. Inv' /\ documentClock' = documentClock /\ history' = history /\ lastDocumentClock' = lastDocumentClock
  BY Unmoved DEF LineInv
<1>2. ASSUME NEW x \in Client PROVE LineOf(x)'
  <2>1. CASE x = c
    <3>1. Line(k, up, lt, q, s, c \in cheated', history, documentClock, lastDocumentClock) OBVIOUS
    <3>2. QED BY <1>1, <2>1, <3>1 DEF LineOf, At
  <2>2. CASE x # c
    <3>1. /\ tab'[x] = tab[x] /\ c2s'[x] = c2s[x] /\ late'[x] = late[x] /\ s2c'[x] = s2c[x]
          /\ session'[x] = session[x] /\ (x \in cheated' <=> x \in cheated)
      BY <2>2 DEF At
    <3>2. LineOf(x) BY DEF LineInv
    <3>3. Line(tab[x], c2s[x], late[x], s2c[x], session[x], x \in cheated', history, documentClock, lastDocumentClock)
      BY <3>1, <3>2 DEF LineOf, Line
    <3>4. QED BY <1>1, <3>1, <3>3 DEF LineOf
  <2>3. QED BY <2>1, <2>2
<1>3. Held'
  <2>1. ASSUME NEW x \in Client PROVE outstanding'[x] \in 0 .. Len(s2c'[x])
    <3>1. CASE x = c BY <3>1 DEF At
    <3>2. CASE x # c BY <3>2 DEF At, LineInv, Held
    <3>3. QED BY <3>1, <3>2
  <2>2. QED BY <2>1 DEF Held, At
<1>4. QED BY <1>1, <1>2, <1>3 DEF LineInv, At

\* The same when only its tab changes.
LEMMA TabMoves ==
  ASSUME LineInv, NEW c \in Client, NEW k, tab' = [tab EXCEPT ![c] = k],
         Line(k, c2s[c], late[c], s2c[c], session[c], c \in cheated, history, documentClock, lastDocumentClock),
         UNCHANGED <<storageVars, lastDocumentClock, session, c2s, s2c, late, outstanding, cheated, misled>>
  PROVE  LineInv'
<1>1. /\ At(tab, tab', c, k) /\ At(c2s, c2s', c, c2s[c]) /\ At(late, late', c, late[c]) /\ At(s2c, s2c', c, s2c[c])
      /\ At(session, session', c, session[c]) /\ At(outstanding, outstanding', c, outstanding[c])
  BY AtIs DEF LineInv, Sessions, Held
<1>2. /\ session' \in Sessions /\ outstanding[c] \in 0 .. Len(s2c[c]) /\ (c \in cheated' <=> c \in cheated)
      /\ cheated' \subseteq Client /\ misled' \subseteq Client /\ \A x \in Client \ {c} : x \in cheated' <=> x \in cheated
  BY DEF LineInv, Held
<1>3. Line(k, c2s[c], late[c], s2c[c], session[c], c \in cheated', history, documentClock, lastDocumentClock)
  BY <1>2 DEF Line
<1>4. QED BY <1>1, <1>2, <1>3, ClientMoves

\* The user changes one record: the store's history has it as the last of what is
\* to be reported.
Edited(k, y) ==
  /\ y \in Tabs /\ k.lastServerClock >= 0
  /\ y.speculative = k.speculative /\ y.nextDiff = k.nextDiff
  /\ Records(y, [k EXCEPT !.store = y.store])
  /\ k.unflushed = <<>> => y.unflushed = <<Changes(k.store, y.store)>>

\* An edit is one.
LEMMA EditIs ==
  ASSUME NEW c \in Client, tab[c] \in Tabs, DOMAIN tab = Client, Edit(c)
  PROVE  \E y : Edited(tab[c], y) /\ tab' = [tab EXCEPT ![c] = IF setup.editsLag THEN y ELSE flushHistory(y)]
<1> DEFINE k == tab[c]
<1>1. PICK id \in RecordId, to \in Maybe :
        LET d == [NoDiff EXCEPT ![id] = Entry(k.store[id], to)]
            y == [k EXCEPT !.store[id] = to,
                           !.unflushed = IF @ = <<>> THEN <<d>> ELSE Append(Front(@), Squash(Last(@), d))]
        IN  k.lastServerClock >= 0 /\ tab' = [tab EXCEPT ![c] = IF setup.editsLag THEN y ELSE flushHistory(y)]
  <2>1. Written \cup {Absent} \subseteq Maybe BY DEF Written, Maybe
  <2>2. QED BY <2>1 DEF Edit
<1> DEFINE t  == [k.store EXCEPT ![id] = to]
           d  == [NoDiff EXCEPT ![id] = Entry(k.store[id], to)]
           us == IF k.unflushed = <<>> THEN <<d>> ELSE Append(Front(k.unflushed), Squash(Last(k.unflushed), d))
           y  == [k EXCEPT !.store = t, !.unflushed = us]
<1>2. k.lastServerClock >= 0 /\ tab' = [tab EXCEPT ![c] = IF setup.editsLag THEN y ELSE flushHistory(y)]
  BY <1>1
<1>3. k \in Tabs /\ k.store \in Contents /\ k.unflushed \in Seq(Recorded) BY DEF Tabs
<1>4. t \in Contents BY <1>3 DEF Contents, Maybe
<1>5. d = Changes(k.store, t)
  <2>1. \A i \in RecordId : d[i] = Entry(k.store[i], t[i])
    <3>1. SUFFICES ASSUME NEW i \in RecordId PROVE d[i] = Entry(k.store[i], t[i]) OBVIOUS
    <3>2. CASE i = id BY <1>3, <3>2 DEF NoDiff, Contents
    <3>3. CASE i # id
      <4>1. d[i] = Same /\ t[i] = k.store[i] BY <1>3, <3>3 DEF NoDiff, Contents
      <4>2. QED BY <4>1 DEF Entry
    <3>4. QED BY <3>2, <3>3
  <2>2. d = [i \in RecordId |-> d[i]] BY DEF NoDiff
  <2>3. QED BY <2>1, <2>2 DEF Changes
<1>6. d \in Recorded BY <1>3, <1>4, <1>5, WholeTypes
<1> HIDE DEF d, t
<1>7. us \in Seq(Recorded)
  <2>1. CASE k.unflushed = <<>> BY <1>6, <2>1
  <2>2. CASE k.unflushed # <<>>
    <3> DEFINE u == k.unflushed
    <3>1. u \in Seq(Recorded) /\ u # <<>> /\ Len(u) \in Nat /\ Len(u) >= 1 BY <1>3, <2>2
    <3>2. Last(u) \in Recorded BY <3>1 DEF Last
    <3>3. Front(u) \in Seq(Recorded) BY <3>1 DEF Front
    <3>4. Squash(Last(u), d) \in Recorded BY <1>6, <3>2, WholeTypes
    <3>5. QED BY <2>2, <3>3, <3>4, AppendProperties
  <2>3. QED BY <2>1, <2>2
<1>8. k.unflushed = <<>> => us = <<d>> OBVIOUS
<1> HIDE DEF us, k
<1>9. Edited(k, y)
  <2>1. y \in Tabs /\ y.store = t /\ y.unflushed = us BY <1>3, <1>4, <1>7 DEF Tabs
  <2>2. y.speculative = k.speculative /\ y.nextDiff = k.nextDiff BY <1>3 DEF Tabs
  <2>3. Records(y, [k EXCEPT !.store = y.store]) BY <1>3, <2>1 DEF Tabs, Records
  <2>4. QED BY <1>2, <1>5, <1>8, <2>1, <2>2, <2>3 DEF Edited
<1>10. QED BY <1>2, <1>9 DEF k

\* An edit touches what is recorded of the store.
LEMMA EditKeepsLines ==
  ASSUME LineInv, NEW c \in Client, Edit(c) PROVE LineInv'
<1> DEFINE k == tab[c]
<1>1. LineOf(c) /\ k \in Tabs /\ DOMAIN tab = Client BY DEF LineInv, LineOf, Line, TabOK
<1>2. PICK y : Edited(k, y) /\ tab' = [tab EXCEPT ![c] = IF setup.editsLag THEN y ELSE flushHistory(y)]
  BY <1>1, EditIs
<1> DEFINE z == IF setup.editsLag THEN y ELSE flushHistory(y)
<1>3. y \in Tabs /\ Records(y, [k EXCEPT !.store = y.store]) BY <1>2 DEF Edited
<1>4. z \in Tabs /\ Records(z, y) BY <1>3, FlushHistoryIs DEF Records
<1> HIDE DEF z, k
<1>5. /\ z.pending = k.pending /\ z.clientClock = k.clientClock /\ z.lastServerClock = k.lastServerClock
      /\ z.status = k.status /\ z.requestId = k.requestId
      /\ k.status # "connected" => z.nextDiff = k.nextDiff
  BY <1>1, <1>3, <1>4 DEF Records, Tabs
<1>6. Line(z, c2s[c], late[c], s2c[c], session[c], c \in cheated, history, documentClock, lastDocumentClock)
  BY <1>1, <1>4, <1>5, LineRecords DEF LineOf, k
<1>7. UNCHANGED <<serverVars, netVars>> /\ tab' = [tab EXCEPT ![c] = z] BY <1>2 DEF Edit, z
<1>8. UNCHANGED <<storageVars, lastDocumentClock, session, c2s, s2c, late, outstanding, cheated, misled>>
  BY <1>7 DEF serverVars, netVars, outbox
<1>9. QED BY <1>6, <1>7, <1>8, TabMoves

\* So does the history reactor's frame.
LEMMA FlushHistoryKeepsLines ==
  ASSUME LineInv, NEW c \in Client, FlushHistory(c) PROVE LineInv'
<1> DEFINE k == tab[c]
           z == flushHistory(k)
<1>1. LineOf(c) /\ k \in Tabs /\ DOMAIN tab = Client BY DEF LineInv, LineOf, Line, TabOK
<1>2. z \in Tabs /\ Records(z, k) BY <1>1, FlushHistoryIs
<1>3. Line(z, c2s[c], late[c], s2c[c], session[c], c \in cheated, history, documentClock, lastDocumentClock)
  <2> HIDE DEF z, k
  <2>1. QED BY <1>1, <1>2, LineRecords DEF LineOf, k, Records
<1>4. UNCHANGED <<serverVars, netVars>> /\ tab' = [tab EXCEPT ![c] = z] BY DEF FlushHistory
<1>5. UNCHANGED <<storageVars, lastDocumentClock, session, c2s, s2c, late, outstanding, cheated, misled>>
  BY <1>4 DEF serverVars, netVars, outbox
<1>6. QED BY <1>3, <1>4, <1>5, TabMoves

\* A tab sends what is unsent, if anything.
LEMMA SendKeeps ==
  ASSUME NEW k, NEW up, NEW lt, NEW q, NEW s, NEW g, NEW h, NEW n, NEW ld,
         Line(k, up, lt, q, s, g, h, n, ld)
  PROVE  LET y == sendUnsentChanges(k) IN
         /\ Line(y, up \o sentBy(k, y), lt, q, s, g, h, n, ld) /\ y.status = k.status
         /\ k.status # "connected" => y = k /\ sentBy(k, y) = <<>>
<1> DEFINE y == sendUnsentChanges(k)
           m == Push(k.clientClock, NetworkDiff(k.nextDiff))
           U == UpSet(k, n)
<1>1. k \in Tabs /\ up \in Seq(U) /\ k.pending \in Seq(Pushes) /\ k.clientClock \in Nat
  <2>1. k \in Tabs /\ up \in Seq(U) BY DEF Line, TabOK
  <2>2. QED BY <2>1 DEF Tabs
<1>2. /\ m \in Pushes /\ m.clientClock = k.clientClock
      /\ \/ y = k
         \/ /\ k.status = "connected" /\ y \in Tabs /\ y.pending = Append(k.pending, m)
            /\ y.clientClock = k.clientClock + 1 /\ y.status = k.status
            /\ y.lastServerClock = k.lastServerClock /\ y.requestId = k.requestId
  <2>1. m.clientClock = k.clientClock BY DEF Push
  <2> HIDE DEF m
  <2>2. QED BY <1>1, <2>1, SendIs DEF m
<1>3. k.status # "connected" => y = k BY <1>2
<1> HIDE DEF y, m
<1>4. CASE y = k
  <2>1. sentBy(k, y) = <<>> BY <1>4 DEF sentBy
  <2>2. up \o <<>> = up BY <1>1, ConcatEmptySeq
  <2>3. QED BY <1>4, <2>1, <2>2 DEF y
<1>5. CASE /\ k.status = "connected" /\ y \in Tabs /\ y.pending = Append(k.pending, m)
           /\ y.clientClock = k.clientClock + 1 /\ y.status = k.status
           /\ y.lastServerClock = k.lastServerClock /\ y.requestId = k.requestId
  <2>1. Line(y, Append(up, m), lt, q, s, g, h, n, ld) BY <1>2, <1>5, LineSends
  <2>2. sentBy(k, y) = <<m>>
    <3>1. y.clientClock # k.clientClock BY <1>1, <1>5
    <3>2. Last(y.pending) = m
      <4>1. Len(y.pending) = Len(k.pending) + 1 /\ y.pending[Len(k.pending) + 1] = m BY <1>1, <1>2, <1>5, AppendProperties
      <4>2. QED BY <4>1 DEF Last
    <3>3. QED BY <3>1, <3>2 DEF sentBy
  <2>3. up \o <<m>> = Append(up, m)
    <3> DEFINE S == Ups \cup {m}
    <3>1. up \in Seq(S) /\ m \in S
      <4>1. U \subseteq S BY DEF UpSet
      <4> HIDE DEF U, S
      <4>2. up \in Seq(S) BY <1>1, <4>1, SeqMonotonic
      <4>3. QED BY <4>2 DEF S
    <3> HIDE DEF S
    <3>2. QED BY <3>1
  <2>4. QED BY <1>5, <2>1, <2>2, <2>3 DEF y
<1>6. QED BY <1>2, <1>4, <1>5

\* The first n messages, none of them a reply.
LEMMA NewsOf ==
  ASSUME NEW h, NEW k, NEW d, NEW q \in Seq(DownSet(h, k, d)), NEW n \in 0 .. Len(q),
         \A i \in 1 .. n : SubSeq(q, 1, n)[i].type # "connect"
  PROVE  /\ SubSeq(q, 1, n) \in [1 .. n -> News] /\ \A i \in 1 .. n : SubSeq(q, 1, n)[i] = q[i] /\ i \in 1 .. Len(q)
         /\ SubSeq(q, 1, n) = <<>> <=> n = 0
<1> DEFINE D == DownSet(h, k, d)
           msgs == SubSeq(q, 1, n)
<1>1. n \in Nat /\ Len(q) \in Nat /\ n <= Len(q) /\ \A i \in 1 .. n : i \in 1 .. Len(q) OBVIOUS
<1>2. \A i \in 1 .. n : q[i] \in D
  <2> HIDE DEF D
  <2>1. q \in Seq(D) BY DEF D
  <2>2. QED BY <1>1, <2>1
<1>3. msgs \in [1 .. n -> D] /\ \A i \in 1 .. n : msgs[i] = q[i]
  <2> HIDE DEF D
  <2>1. msgs = [i \in 1 .. n |-> q[i]] BY <1>1
  <2>2. QED BY <1>2, <2>1
<1>4. ASSUME NEW i \in 1 .. n PROVE msgs[i] \in News
  <2>1. msgs[i] \in D /\ msgs[i].type # "connect" BY <1>3
  <2>2. msgs[i] \in Downs BY <2>1 DEF DownSet
  <2> HIDE DEF msgs
  <2>3. QED BY <2>1, <2>2, UpsApart
<1>5. msgs \in [1 .. n -> News]
  <2> HIDE DEF msgs
  <2>1. QED BY <1>3, <1>4
<1>6. msgs = <<>> <=> n = 0
  <2> HIDE DEF msgs
  <2>1. Len(msgs) = n BY <1>1, <1>5
  <2>2. n = 0 => msgs = <<>>
    <3>1. msgs \in Seq(News) BY <1>1, <1>5
    <3>2. QED BY <2>1, <3>1
  <2>3. QED BY <2>1, <2>2
<1>7. QED BY <1>1, <1>3, <1>5, <1>6

\* A connected tab rebases on the first n messages.
LEMMA RebaseKeeps ==
  ASSUME NEW k, NEW up, NEW lt, NEW q, NEW s, NEW g, NEW h, NEW d \in Nat, NEW ld,
         Line(k, up, lt, q, s, g, h, d, ld), k.status = "connected", NEW n \in 0 .. Len(q),
         \A i \in 1 .. n : SubSeq(q, 1, n)[i].type # "connect"
  PROVE  LET y == rebase(k, SubSeq(q, 1, n)) IN
         \/ y.status = "connected" /\ Line(y, up, lt, SubSeq(q, n + 1, Len(q)), s, g, h, d, ld)
         \/ y.status = "offline" /\ \A after \in Seq(UpSet(k, d)) : \A b : Line(y, <<>>, after, <<>>, s, b, h, d, ld)
<1> DEFINE msgs == SubSeq(q, 1, n)
           D == DownSet(h, k, d)
           f == flushHistory(k)
           y == rebase(k, msgs)
<1>1. k \in Tabs /\ q \in Seq(D) BY DEF Line, TabOK
<1>2. msgs \in [1 .. n -> News] /\ (\A i \in 1 .. n : msgs[i] = q[i] /\ i \in 1 .. Len(q)) /\ (msgs = <<>> <=> n = 0)
  <2>1. n \in 0 .. Len(q) /\ q \in Seq(DownSet(h, k, d)) /\ \A i \in 1 .. n : SubSeq(q, 1, n)[i].type # "connect"
    BY <1>1
  <2> HIDE DEF f, y, D
  <2>2. msgs \in [1 .. n -> News] BY <2>1, NewsOf
  <2>3. \A i \in 1 .. n : msgs[i] = q[i] /\ i \in 1 .. Len(q) BY <2>1, NewsOf
  <2>4. msgs = <<>> <=> n = 0 BY <2>1, NewsOf
  <2>5. QED BY <2>2, <2>3, <2>4
<1> HIDE DEF D
<1>3. f \in Tabs /\ Records(f, k) BY <1>1, FlushHistoryIs
<1>4. Line(f, up, lt, q, s, g, h, d, ld) /\ f.status = "connected" /\ UpSet(f, d) = UpSet(k, d)
  <2> HIDE DEF f
  <2>1. Line(f, up, lt, q, s, g, h, d, ld) BY <1>3, LineRecords DEF Records
  <2>2. QED BY <1>3, <2>1 DEF Records, UpSet, UpOK
<1>5. CASE n = 0
  <2>1. y = k BY <1>2, <1>5 DEF rebase
  <2>2. SubSeq(q, 1, Len(q)) = q BY <1>1
  <2>3. SubSeq(q, n + 1, Len(q)) = q BY <1>5, <2>2
  <2>4. QED BY <2>1, <2>3
<1>6. CASE n # 0
  <2>1. y = rebased(f, msgs) BY <1>2, <1>6 DEF rebase
  <2>2. n \in Nat \ {0} /\ n \in 1 .. Len(q) /\ n \in 1 .. n BY <1>1, <1>6
  <2> HIDE DEF msgs, f, y
  <2>3. Rebase(f, msgs, n, y) BY <1>2, <1>3, <2>1, <2>2, RebaseIs
  <2> DEFINE got == FoldLeft(receive, Started(f), msgs)
  <2>4. CASE ~got.ok /\ y = resetConnection(f)
    <3>1. y.status = "offline" BY <1>3, <2>4, ResetIs
    <3>2. ASSUME NEW after \in Seq(UpSet(k, d)) PROVE \A b : Line(y, <<>>, after, <<>>, s, b, h, d, ld)
      <4>1. after \in Seq(UpSet(f, d)) BY <1>4
      <4>2. QED BY <1>4, <2>4, <4>1, LineResets
    <3>3. QED BY <3>1, <3>2 DEF y, msgs
  <2>5. CASE ~(~got.ok /\ y = resetConnection(f))
    <3>1. /\ y \in Tabs /\ y.pending = got.pending /\ y.lastServerClock = msgs[n].serverClock
          /\ y.clientClock = f.clientClock /\ y.status = f.status /\ y.requestId = f.requestId
      BY <2>3, <2>5 DEF Rebase
    <3>2. Suffix(got.pending, f.pending) BY <1>2, <1>3, <2>2, ReceivedIs
    <3>3. y.lastServerClock = q[n].serverClock /\ Suffix(y.pending, f.pending) BY <1>2, <2>2, <3>1, <3>2
    <3> HIDE DEF got
    <3>4. Line(y, up, lt, SubSeq(q, n + 1, Len(q)), s, g, h, d, ld)
      BY <1>4, <2>2, <3>1, <3>3, LineRebases
    <3>5. QED BY <1>4, <3>1, <3>4 DEF y, msgs
  <2>6. QED BY <2>4, <2>5
<1>7. QED BY <1>5, <1>6

\* What a socket that is given up leaves to be read.
LEMMA LeftOver ==
  ASSUME NEW k, NEW n, NEW lt \in Seq(UpSet(k, n)), NEW up, NEW sent, up \o sent \in Seq(UpSet(k, n)),
         up \in Seq(Ups), sent \in Seq(Ups)
  PROVE  lt \o up \o sent \o <<Close>> \in Seq(UpSet(k, n))
<1> DEFINE U == UpSet(k, n)
<1>1. Close \in U BY DEF Close, UpSet, Ups, UpOK
<1>2. lt \in Seq(Ups)
  <2>1. U \subseteq Ups BY DEF UpSet
  <2> HIDE DEF U
  <2>2. lt \in Seq(U) BY DEF U
  <2>3. QED BY <2>1, <2>2, SeqMonotonic
<1>3. (lt \o up) \o sent = lt \o (up \o sent) BY <1>2, ConcatAssociative
<1> HIDE DEF U
<1>4. lt \in Seq(U) /\ up \o sent \in Seq(U) /\ <<Close>> \in Seq(U) BY <1>1 DEF U
<1>5. (lt \o (up \o sent)) \o <<Close>> \in Seq(U) BY <1>4
<1>6. QED BY <1>3, <1>5 DEF U

\* What is sent is a push, or nothing.
LEMMA SentTyped ==
  ASSUME NEW k \in Tabs
  PROVE  sentBy(k, sendUnsentChanges(k)) \in Seq(Ups)
<1> DEFINE y == sendUnsentChanges(k)
           m == Push(k.clientClock, NetworkDiff(k.nextDiff))
<1>1. k.pending \in Seq(Pushes) /\ k.clientClock \in Nat BY DEF Tabs
<1>2. m \in Pushes /\ (y = k \/ y.pending = Append(k.pending, m))
  <2> HIDE DEF m
  <2>1. QED BY SendIs DEF m
<1> HIDE DEF y, m
<1>3. CASE y = k
  <2>1. sentBy(k, y) = <<>> BY <1>3 DEF sentBy
  <2>2. QED BY <2>1 DEF y
<1>4. CASE y.pending = Append(k.pending, m)
  <2>1. Last(y.pending) = m
    <3>1. Len(y.pending) = Len(k.pending) + 1 /\ y.pending[Len(k.pending) + 1] = m BY <1>1, <1>2, <1>4, AppendProperties
    <3>2. QED BY <3>1 DEF Last
  <2>2. sentBy(k, y) \in {<<>>, <<m>>} BY <2>1 DEF sentBy
  <2>3. m \in Ups BY <1>2 DEF Ups
  <2>4. <<m>> \in Seq(Ups) /\ <<>> \in Seq(Ups) BY <2>3
  <2> DEFINE r == sentBy(k, y)
  <2>5. r \in {<<>>, <<m>>} BY <2>2
  <2> HIDE DEF r
  <2>6. r \in Seq(Ups) BY <2>4, <2>5
  <2>7. QED BY <2>6 DEF y, r
<1>5. QED BY <1>2, <1>3, <1>4

\* What a frame leaves of a tab and its line: y is what comes of it, with `sent`
\* sent.
Framed(c, y, sent, n) ==
  /\ tab' = [tab EXCEPT ![c] = y]
  /\ IF y.status = "offline" THEN LoseSocket(c, sent) /\ UNCHANGED misled
     ELSE /\ c2s' = [c2s EXCEPT ![c] = @ \o sent]
          /\ s2c' = [s2c EXCEPT ![c] = SubSeq(@, n + 1, Len(@))]
          /\ misled' = IF c \in cheated /\ n > 0 THEN misled \cup {c} ELSE misled
          /\ UNCHANGED <<late, outstanding, cheated>>

\* Flush, with its two orders.
LEMMA FlushIs ==
  ASSUME NEW c, NEW n, Flush(c, n)
  PROVE  LET k == tab[c]
             msgs == SubSeq(s2c[c], 1, n)
         IN
         /\ k.status = "connected" /\ (\A i \in 1 .. n : msgs[i].type # "connect")
         /\ UNCHANGED <<storageVars, lastDocumentClock, session, bounds>>
         /\ \/ LET z == sendUnsentChanges(k) IN Framed(c, rebase(z, msgs), sentBy(k, z), n)
            \/ LET z == rebase(k, msgs) IN Framed(c, sendUnsentChanges(z), sentBy(z, sendUnsentChanges(z)), n)
BY DEF Flush, Framed, serverVars

\* What has been sent and what is queued make up what a tab is told.
LEMMA OnWireIs ==
  ASSUME LineInv, NEW c \in Client
  PROVE  /\ s2c[c] \in Seq(Downs) /\ Len(s2c[c]) \in Nat /\ outstanding[c] \in 0 .. Len(s2c[c])
         /\ Len(onWire(c)) = Len(s2c[c]) - outstanding[c] /\ (onWire(c) # <<>> => s2c[c] # <<>>)
<1>1. s2c[c] \in Seq(Downs)
  <2>1. s2c[c] \in Seq(DownSet(history, tab[c], documentClock)) BY DEF LineInv, LineOf, Line
  <2>2. DownSet(history, tab[c], documentClock) \subseteq Downs BY DEF DownSet
  <2>3. QED BY <2>1, <2>2, SeqMonotonic
<1>2. outstanding[c] \in 0 .. Len(s2c[c]) BY DEF LineInv, Held
<1> DEFINE q == s2c[c]
           j == Len(q) - outstanding[c]
<1>3. Len(q) \in Nat /\ j \in 0 .. Len(q) BY <1>1, <1>2
<1>4. Len(SubSeq(q, 1, j)) = j
  <2> HIDE DEF j, q
  <2>1. q \in Seq(Downs) BY <1>1 DEF q
  <2>2. QED BY <1>3, <2>1
<1>5. onWire(c) # <<>> => q # <<>>
  <2>1. q = <<>> => j = 0 BY <1>3
  <2>2. SubSeq(q, 1, j) \in Seq(Downs)
    <3> HIDE DEF j, q
    <3>1. q \in Seq(Downs) BY <1>1 DEF q
    <3>2. QED BY <1>3, <3>1
  <2>3. QED BY <1>4, <2>1, <2>2 DEF onWire
<1>6. QED BY <1>1, <1>2, <1>3, <1>4, <1>5 DEF onWire

\* The frame that sends and rebases, in either order, and whether the rebase ends
\* in a reset or not.
LEMMA FlushKeepsLines ==
  ASSUME LineInv, NEW c \in Client, NEW n \in 0 .. Len(onWire(c)), Flush(c, n) PROVE LineInv'
<1> DEFINE k == tab[c]
           up == c2s[c]
           lt == late[c]
           q == s2c[c]
           msgs == SubSeq(q, 1, n)
           rest == SubSeq(q, n + 1, Len(q))
           d == documentClock
           g == c \in cheated
           Kept(y, u, l, r) == Line(y, u, l, r, session[c], g, history, d, lastDocumentClock)
           Lost(y, l) == \A b : Line(y, <<>>, l, <<>>, session[c], b, history, d, lastDocumentClock)
<1>1. /\ k.status = "connected" /\ (\A i \in 1 .. n : msgs[i].type # "connect")
      /\ UNCHANGED <<storageVars, lastDocumentClock, session>>
      /\ \/ LET z == sendUnsentChanges(k) IN Framed(c, rebase(z, msgs), sentBy(k, z), n)
         \/ LET z == rebase(k, msgs) IN Framed(c, sendUnsentChanges(z), sentBy(z, sendUnsentChanges(z)), n)
  BY FlushIs
<1>2. /\ Kept(k, up, lt, q) /\ d \in Nat /\ DOMAIN tab = Client /\ DOMAIN c2s = Client /\ DOMAIN s2c = Client
      /\ DOMAIN late = Client /\ DOMAIN session = Client /\ session' \in Sessions
      /\ DOMAIN outstanding = Client /\ cheated \subseteq Client /\ misled \subseteq Client
  BY <1>1 DEF LineInv, LineOf, Inv, storageTypeOK, Sessions, Held
<1>0. /\ q \in Seq(Downs) /\ Len(q) \in Nat /\ outstanding[c] \in 0 .. Len(q) - n /\ n \in 0 .. Len(q)
      /\ outstanding[c] \in 0 .. Len(rest)
  <2>1. /\ q \in Seq(Downs) /\ Len(q) \in Nat /\ outstanding[c] \in 0 .. Len(q)
        /\ Len(onWire(c)) = Len(q) - outstanding[c]
    BY OnWireIs
  <2>2. n \in Nat /\ outstanding[c] \in 0 .. Len(q) - n /\ n \in 0 .. Len(q) BY <2>1
  <2> HIDE DEF q
  <2>3. Len(rest) = Len(q) - n BY <2>1, <2>2
  <2>4. QED BY <2>1, <2>2, <2>3
<1>3. ASSUME NEW y, NEW sent, Framed(c, y, sent, n),
             \/ y.status = "connected" /\ Kept(y, up \o sent, lt, rest)
             \/ y.status = "offline" /\ Lost(y, lt \o up \o sent \o <<Close>>)
      PROVE  LineInv'
  <2>1. At(tab, tab', c, y) /\ At(session, session', c, session[c]) BY <1>1, <1>2, <1>3, AtIs DEF Framed
  <2>2. CASE y.status = "connected" /\ Kept(y, up \o sent, lt, rest)
    <3>0. c2s' = [c2s EXCEPT ![c] = up \o sent] /\ s2c' = [s2c EXCEPT ![c] = rest] /\ late' = late
          /\ outstanding' = outstanding /\ cheated' = cheated /\ misled' \subseteq Client
      BY <1>2, <1>3, <2>2 DEF Framed
    <3>1. At(c2s, c2s', c, up \o sent) /\ At(late, late', c, lt) /\ At(s2c, s2c', c, rest)
          /\ At(outstanding, outstanding', c, outstanding[c])
      <4> HIDE DEF up, rest
      <4>1. QED BY <1>2, <3>0, AtIs
    <3>2. \A x \in Client \ {c} : x \in cheated' <=> x \in cheated BY <3>0
    <3> HIDE DEF up, lt, rest, q
    <3>3. Line(y, up \o sent, lt, rest, session[c], c \in cheated', history, d, lastDocumentClock)
      BY <2>2, <3>0 DEF Line
    <3>4. QED BY <1>0, <1>1, <1>2, <2>1, <2>2, <3>0, <3>1, <3>2, <3>3, ClientMoves
  <2>3. CASE y.status = "offline" /\ Lost(y, lt \o up \o sent \o <<Close>>)
    <3> DEFINE after == lt \o up \o sent \o <<Close>>
    <3>0. c2s' = [c2s EXCEPT ![c] = <<>>] /\ s2c' = [s2c EXCEPT ![c] = <<>>] /\ late' = [late EXCEPT ![c] = after]
          /\ outstanding' = [outstanding EXCEPT ![c] = 0] /\ cheated' = cheated \ {c} /\ misled' = misled
      BY <1>3, <2>3 DEF Framed, LoseSocket
    <3> HIDE DEF after
    <3>1. At(c2s, c2s', c, <<>>) /\ At(late, late', c, after) /\ At(s2c, s2c', c, <<>>)
          /\ At(outstanding, outstanding', c, 0)
      BY <1>2, <3>0, AtIs
    <3>2. Line(y, <<>>, after, <<>>, session[c], c \in cheated', history, d, lastDocumentClock) BY <2>3 DEF after
    <3>3. /\ cheated' \subseteq Client /\ misled' \subseteq Client
          /\ \A x \in Client \ {c} : x \in cheated' <=> x \in cheated
      BY <1>2, <3>0
    <3>4. 0 \in 0 .. Len(<<>>) OBVIOUS
    <3>5. QED BY <1>1, <1>2, <2>1, <3>1, <3>2, <3>3, <3>4, ClientMoves
  <2>4. QED BY <1>3, <2>2, <2>3
<1>4. n \in 0 .. Len(q) BY <1>0
<1>5. up \in Seq(Ups)
  <2>1. UpSet(k, d) \subseteq Ups /\ up \in Seq(UpSet(k, d)) BY <1>2 DEF UpSet, Line
  <2>2. QED BY <2>1, SeqMonotonic
<1> HIDE DEF Kept, Lost, g
<1>6. CASE LET z == sendUnsentChanges(k) IN Framed(c, rebase(z, msgs), sentBy(k, z), n)
  <2> DEFINE z == sendUnsentChanges(k)
             sent == sentBy(k, z)
             y == rebase(z, msgs)
  <2>1. Framed(c, y, sent, n) BY <1>6
  <2>2. Kept(z, up \o sent, lt, q) /\ z.status = "connected"
    <3> HIDE DEF k, up, lt, q
    <3>1. QED BY <1>1, <1>2, SendKeeps DEF Kept
  <2> HIDE DEF z, sent
  <2>3. \/ y.status = "connected" /\ Kept(y, up \o sent, lt, rest)
        \/ y.status = "offline" /\ \A after \in Seq(UpSet(z, d)) : Lost(y, after)
    <3> HIDE DEF up, lt, q
    <3>1. QED BY <1>1, <1>2, <1>4, <2>2, RebaseKeeps DEF Kept, Lost
  <2>4. lt \o up \o sent \o <<Close>> \in Seq(UpSet(z, d))
    <3>1. lt \in Seq(UpSet(z, d)) /\ up \o sent \in Seq(UpSet(z, d)) BY <2>2 DEF Kept, Line
    <3>2. sent \in Seq(Ups) BY SentTyped, <1>2 DEF sent, z, Kept, Line, TabOK
    <3>3. QED BY <1>5, <3>1, <3>2, LeftOver
  <2> HIDE DEF y
  <2>5. QED BY <1>3, <2>1, <2>3, <2>4
<1>7. CASE LET z == rebase(k, msgs) IN Framed(c, sendUnsentChanges(z), sentBy(z, sendUnsentChanges(z)), n)
  <2> DEFINE z == rebase(k, msgs)
             y == sendUnsentChanges(z)
             sent == sentBy(z, y)
  <2>1. Framed(c, y, sent, n) BY <1>7
  <2>2. \/ z.status = "connected" /\ Kept(z, up, lt, rest)
        \/ z.status = "offline" /\ \A after \in Seq(UpSet(k, d)) : Lost(z, after)
    <3> HIDE DEF up, lt, q, k
    <3>1. QED BY <1>1, <1>2, <1>4, RebaseKeeps DEF Kept, Lost
  <2> HIDE DEF z
  <2>3. CASE z.status = "connected" /\ Kept(z, up, lt, rest)
    <3>1. Kept(y, up \o sent, lt, rest) /\ y.status = "connected"
      <4> HIDE DEF up, lt, rest
      <4>1. QED BY <2>3, SendKeeps DEF Kept
    <3> HIDE DEF y, sent
    <3>2. QED BY <1>3, <2>1, <3>1
  <2>4. CASE z.status = "offline" /\ \A after \in Seq(UpSet(k, d)) : Lost(z, after)
    <3>1. <<>> \in Seq(UpSet(k, d)) OBVIOUS
    <3>2. Kept(z, <<>>, <<>>, <<>>) BY <2>4, <3>1 DEF Lost, Kept
    <3>3. y = z /\ sent = <<>> BY <2>4, <3>2, SendKeeps DEF Kept
    <3>4. up \o <<>> = up BY <1>5, ConcatEmptySeq
    <3>5. lt \o up \o <<>> \o <<Close>> \in Seq(UpSet(k, d))
      <4>1. lt \in Seq(UpSet(k, d)) /\ up \o <<>> \in Seq(UpSet(k, d)) BY <1>2, <3>4 DEF Kept, Line
      <4>2. <<>> \in Seq(Ups) OBVIOUS
      <4> HIDE DEF up, lt
      <4>3. QED BY <1>5, <4>1, <4>2, LeftOver
    <3>6. Lost(y, lt \o up \o sent \o <<Close>>) BY <2>4, <3>3, <3>5
    <3>7. y.status = "offline" BY <2>4, <3>3
    <3> HIDE DEF y, sent
    <3>8. QED BY <1>3, <2>1, <3>6, <3>7
  <2>5. QED BY <2>2, <2>3, <2>4
<1>8. QED BY <1>1, <1>6, <1>7

\* A socket is lost, ...
LEMMA LostKeepsLines ==
  ASSUME LineInv, NEW c \in Client, tab' = [tab EXCEPT ![c] = resetConnection(@)], LoseSocket(c, <<>>),
         UNCHANGED <<storageVars, lastDocumentClock, session, misled>>
  PROVE  LineInv'
<1> DEFINE k == tab[c]
           y == resetConnection(k)
           up == c2s[c]
           lt == late[c]
           d == documentClock
           after == lt \o up \o <<>> \o <<Close>>
<1>1. /\ Line(k, up, lt, s2c[c], session[c], c \in cheated, history, d, lastDocumentClock) /\ DOMAIN tab = Client
      /\ DOMAIN c2s = Client /\ DOMAIN s2c = Client /\ DOMAIN late = Client /\ DOMAIN session = Client
      /\ session' \in Sessions /\ DOMAIN outstanding = Client /\ cheated \subseteq Client /\ misled' \subseteq Client
  BY DEF LineInv, LineOf, Sessions, Held
<1>2. after \in Seq(UpSet(k, d))
  <2>1. UpSet(k, d) \subseteq Ups /\ up \in Seq(UpSet(k, d)) /\ lt \in Seq(UpSet(k, d)) BY <1>1 DEF UpSet, Line
  <2>2. up \in Seq(Ups) BY <2>1, SeqMonotonic
  <2>3. up \o <<>> \in Seq(UpSet(k, d)) /\ <<>> \in Seq(Ups) BY <2>1, ConcatEmptySeq
  <2> HIDE DEF up, lt
  <2>4. QED BY <2>1, <2>2, <2>3, LeftOver
<1>3. \A b : Line(y, <<>>, after, <<>>, session[c], b, history, d, lastDocumentClock)
  <2> HIDE DEF after, up, lt, k
  <2>1. QED BY <1>1, <1>2, LineResets
<1>4. tab' = [tab EXCEPT ![c] = y] /\ c2s' = [c2s EXCEPT ![c] = <<>>] /\ s2c' = [s2c EXCEPT ![c] = <<>>]
      /\ late' = [late EXCEPT ![c] = after] /\ session' = session
      /\ outstanding' = [outstanding EXCEPT ![c] = 0] /\ cheated' = cheated \ {c}
  BY DEF LoseSocket
<1> HIDE DEF y, after
<1>5. At(tab, tab', c, y)
  <2>1. DOMAIN tab = Client /\ tab' = [tab EXCEPT ![c] = y] BY <1>1, <1>4
  <2>2. QED BY <2>1 DEF At
<1>6. At(c2s, c2s', c, <<>>) BY <1>1, <1>4, AtIs
<1>7. At(session, session', c, session[c]) BY <1>1, <1>4, AtIs
<1>8. At(late, late', c, after) /\ At(s2c, s2c', c, <<>>) /\ At(outstanding, outstanding', c, 0)
  BY <1>1, <1>4, AtIs
<1>9. /\ Line(y, <<>>, after, <<>>, session[c], c \in cheated', history, d, lastDocumentClock)
      /\ cheated' \subseteq Client /\ 0 \in 0 .. Len(<<>>)
      /\ \A x \in Client \ {c} : x \in cheated' <=> x \in cheated
  BY <1>1, <1>3, <1>4
<1>10. QED BY <1>1, <1>3, <1>5, <1>6, <1>7, <1>8, <1>9, ClientMoves

\* ... for whichever reason, ...
LEMMA DropKeepsLines ==
  ASSUME LineInv, NEW c \in Client, Drop(c) \/ SeeClose(c) PROVE LineInv'
<1>1. /\ tab' = [tab EXCEPT ![c] = resetConnection(@)] /\ LoseSocket(c, <<>>)
      /\ UNCHANGED <<storageVars, lastDocumentClock, session, misled>>
  BY DEF Drop, SeeClose, serverVars
<1>2. QED BY <1>1, LostKeepsLines

\* ... and another opened.
LEMMA ReconnectKeepsLines ==
  ASSUME LineInv, NEW c \in Client, Reconnect(c) PROVE LineInv'
<1> DEFINE k == tab[c]
           y == [k EXCEPT !.status = "connecting", !.requestId = @ + 1]
           d == documentClock
<1>1. /\ Line(k, c2s[c], late[c], s2c[c], session[c], c \in cheated, history, d, lastDocumentClock) /\ DOMAIN tab = Client
      /\ DOMAIN c2s = Client /\ DOMAIN s2c = Client /\ DOMAIN late = Client /\ DOMAIN session = Client
      /\ d \in Nat /\ DOMAIN outstanding = Client /\ outstanding[c] \in 0 .. Len(s2c[c])
      /\ cheated \subseteq Client /\ misled \subseteq Client
  BY DEF LineInv, LineOf, Sessions, Inv, storageTypeOK, Held
<1>2. /\ k.status = "offline" /\ tab' = [tab EXCEPT ![c] = y] /\ c2s' = [c2s EXCEPT ![c] = <<ConnectRequest(y)>>]
      /\ session' = [session EXCEPT ![c] = "awaiting"]
      /\ UNCHANGED <<storageVars, lastDocumentClock, s2c, late, outstanding, cheated, misled>>
  BY DEF Reconnect, outbox
<1>3. s2c[c] = <<>> BY <1>1, <1>2 DEF Line
<1> DEFINE g == c \in cheated
<1>4. Line(y, <<ConnectRequest(y)>>, late[c], <<>>, "awaiting", g, history, d, lastDocumentClock)
  <2> HIDE DEF k, g
  <2>1. QED BY <1>1, <1>2, LineReconnects
<1>5. session' \in Sessions BY <1>2 DEF LineInv, Sessions
<1> HIDE DEF y
<1>6. At(tab, tab', c, y) /\ At(late, late', c, late[c]) /\ At(session, session', c, "awaiting")
  BY <1>1, <1>2, AtIs
<1>7. At(c2s, c2s', c, <<ConnectRequest(y)>>) /\ At(s2c, s2c', c, <<>>) /\ At(outstanding, outstanding', c, outstanding[c])
  BY <1>1, <1>2, <1>3, AtIs
<1>8. /\ Line(y, <<ConnectRequest(y)>>, late[c], <<>>, "awaiting", c \in cheated', history, d, lastDocumentClock)
      /\ cheated' \subseteq Client /\ misled' \subseteq Client
      /\ outstanding[c] \in 0 .. Len(<<>>) /\ \A x \in Client \ {c} : x \in cheated' <=> x \in cheated
  BY <1>1, <1>2, <1>3, <1>4 DEF Line
<1> HIDE DEF g
<1>9. QED BY <1>2, <1>4, <1>5, <1>6, <1>7, <1>8, ClientMoves

\* A tab reads a reply, or ignores a message.
LEMMA ReadHeadKeepsLines ==
  ASSUME LineInv, NEW c \in Client, ReadHead(c) PROVE LineInv'
<1> DEFINE k == tab[c]
           q == s2c[c]
           d == documentClock
           g == c \in cheated
           D == DownSet(history, k, d)
           msg == Head(q)
           expected == msg.type = "connect" /\ msg.requestId = k.requestId /\ k.status = "connecting"
           y == IF expected THEN didReconnect(k, msg) ELSE k
<1>1. /\ Line(k, c2s[c], late[c], q, session[c], g, history, d, lastDocumentClock) /\ DOMAIN tab = Client
      /\ DOMAIN c2s = Client /\ DOMAIN s2c = Client /\ DOMAIN late = Client /\ DOMAIN session = Client
      /\ session \in Sessions /\ d \in Nat /\ DOMAIN outstanding = Client
      /\ cheated \subseteq Client /\ misled \subseteq Client
  BY DEF LineInv, LineOf, Sessions, Inv, storageTypeOK, Held
<1>2. /\ q # <<>> /\ (msg.type = "connect" \/ k.status = "connecting")
      /\ tab' = [tab EXCEPT ![c] = y] /\ s2c' = [s2c EXCEPT ![c] = Tail(q)]
      /\ UNCHANGED <<storageVars, lastDocumentClock, session, c2s, late, outstanding, cheated>>
      /\ misled' \subseteq misled /\ outstanding[c] \in 0 .. Len(Tail(q))
  <2>1. /\ onWire(c) # <<>> /\ (msg.type = "connect" \/ k.status = "connecting")
        /\ tab' = [tab EXCEPT ![c] = y] /\ s2c' = [s2c EXCEPT ![c] = Tail(q)]
        /\ UNCHANGED <<storageVars, lastDocumentClock, session, c2s, late, outstanding, cheated>>
        /\ misled' \subseteq misled
    BY DEF ReadHead, serverVars
  <2>2. /\ q # <<>> /\ q \in Seq(Downs) /\ Len(q) \in Nat /\ outstanding[c] \in 0 .. Len(q)
        /\ Len(onWire(c)) = Len(q) - outstanding[c] /\ Len(onWire(c)) # 0
    <3>1. /\ q # <<>> /\ q \in Seq(Downs) /\ Len(q) \in Nat /\ outstanding[c] \in 0 .. Len(q)
          /\ Len(onWire(c)) = Len(q) - outstanding[c]
      BY <2>1, OnWireIs
    <3>2. onWire(c) \in Seq(Downs)
      <4> DEFINE j == Len(q) - outstanding[c]
      <4>1. j \in 0 .. Len(q) BY <3>1
      <4>2. onWire(c) = SubSeq(q, 1, j) BY DEF onWire
      <4> HIDE DEF j, q
      <4>3. QED BY <3>1, <4>1, <4>2
    <3>3. QED BY <2>1, <3>1, <3>2
  <2>3. Len(Tail(q)) = Len(q) - 1
    <3> HIDE DEF q
    <3>1. QED BY <2>2
  <2>4. QED BY <2>1, <2>2, <2>3
<1>3. q \in Seq(D) /\ k \in Tabs BY <1>1 DEF Line, TabOK
<1>4. msg = q[1] /\ msg \in D
  <2> HIDE DEF D
  <2>1. QED BY <1>2, <1>3, TailIs
<1>5. Line(y, c2s[c], late[c], Tail(q), session[c], g, history, d, lastDocumentClock)
  <2>1. CASE expected
    <3>1. msg \in Replies BY <1>4, <2>1, UpsApart DEF DownSet
    <3>2. /\ y \in Tabs /\ y.status = "connected" /\ y.lastServerClock = msg.serverClock
          /\ y.pending = k.pending /\ y.clientClock = k.clientClock /\ y.requestId = k.requestId
      BY <1>3, <2>1, <3>1, ReconnectIs
    <3> HIDE DEF y, q, k, g
    <3>3. QED BY <1>1, <1>2, <1>4, <2>1, <3>2, LineConnects
  <2>2. CASE ~expected
    <3>0. k.status = "connecting" => ~Own(k, q[1]) BY <1>4, <2>2 DEF Own
    <3> HIDE DEF q, k, g
    <3>1. Line(k, c2s[c], late[c], Tail(q), session[c], g, history, d, lastDocumentClock)
      BY <1>1, <1>2, <1>4, <3>0, LineIgnores
    <3>2. QED BY <2>2, <3>1
  <2>3. QED BY <2>1, <2>2
<1> HIDE DEF y
<1>6. At(tab, tab', c, y) /\ At(late, late', c, late[c]) /\ At(session, session', c, session[c])
  BY <1>1, <1>2, AtIs
<1>7. At(c2s, c2s', c, c2s[c]) /\ At(s2c, s2c', c, Tail(q)) /\ At(outstanding, outstanding', c, outstanding[c])
  BY <1>1, <1>2, AtIs
<1>8. /\ session' \in Sessions /\ cheated' \subseteq Client /\ misled' \subseteq Client
      /\ \A x \in Client \ {c} : x \in cheated' <=> x \in cheated
  BY <1>1, <1>2
<1>9. Line(y, c2s[c], late[c], Tail(q), session[c], c \in cheated', history, d, lastDocumentClock)
  BY <1>2, <1>5 DEF Line
<1> HIDE DEF k, q, g
<1>10. QED BY <1>2, <1>6, <1>7, <1>8, <1>9, ClientMoves

\* The server reads a message, in order or from a replaced socket.
LEMMA ReadKeepsLines ==
  ASSUME LineInv, NEW c \in Client, ReadSocket(c) \/ ReadReplacedSocket(c) PROVE LineInv' /\ Onward
<1> DEFINE n == documentClock
           up == IF ReadSocket(c) THEN [c2s EXCEPT ![c] = Tail(@)] ELSE c2s
           lt == IF ReadSocket(c) THEN late ELSE [late EXCEPT ![c] = Tail(@)]
           msg == IF ReadSocket(c) THEN Head(c2s[c]) ELSE Head(late[c])
<1>1. /\ handleMessage(c, msg) /\ c2s' = up /\ late' = lt /\ tab' = tab /\ misled' = misled
      /\ IF ReadSocket(c) THEN c2s[c] # <<>> ELSE late[c] # <<>>
  BY DEF ReadSocket, ReadReplacedSocket
<1>2. /\ Inv /\ Held /\ lastDocumentClock \in 0 .. n /\ session \in Sessions /\ DOMAIN s2c = Client
      /\ DOMAIN c2s = Client /\ DOMAIN late = Client /\ DOMAIN tab = Client
      /\ \A x \in Client : s2c[x] \in Seq(Downs)
  BY OnWireIs DEF LineInv
<1>3. ASSUME NEW x \in Client
      PROVE  /\ Line(tab[x], up[x], lt[x], s2c[x], session[x], x \in cheated, history, n, lastDocumentClock)
             /\ x = c => msg \in UpSet(tab[c], n)
  <2>1. Line(tab[x], c2s[x], late[x], s2c[x], session[x], x \in cheated, history, n, lastDocumentClock) BY DEF LineInv, LineOf
  <2>2. /\ up[x] = IF x = c /\ ReadSocket(c) THEN Tail(c2s[c]) ELSE c2s[x]
        /\ lt[x] = IF x = c /\ ~ReadSocket(c) THEN Tail(late[c]) ELSE late[x]
    BY <1>2
  <2> HIDE DEF up, lt
  <2>3. CASE x # c BY <2>1, <2>2, <2>3
  <2>4. CASE x = c /\ ReadSocket(c)
    <3>1. Line(tab[c], Tail(c2s[c]), late[c], s2c[c], session[c], c \in cheated, history, n, lastDocumentClock)
          /\ Head(c2s[c]) \in UpSet(tab[c], n)
      BY <1>1, <2>1, <2>4, LineReads
    <3>2. QED BY <2>2, <2>4, <3>1
  <2>5. CASE x = c /\ ~ReadSocket(c)
    <3>1. Line(tab[c], c2s[c], Tail(late[c]), s2c[c], session[c], c \in cheated, history, n, lastDocumentClock)
          /\ Head(late[c]) \in UpSet(tab[c], n)
      BY <1>1, <2>1, <2>5, LineReads
    <3>2. QED BY <2>2, <2>5, <3>1
  <2>6. QED BY <2>3, <2>4, <2>5
<1>4. DOMAIN up = Client /\ DOMAIN lt = Client BY <1>2
<1> HIDE DEF up, lt, msg
<1>5. /\ Held' /\ Onward /\ session' \in Sessions /\ DOMAIN s2c' = Client
      /\ \A x \in Client : Line(tab[x], up[x], lt[x], s2c'[x], session'[x], x \in cheated', history', documentClock', lastDocumentClock')
  BY <1>1, <1>2, <1>3, HandleMessageKeeps
<1>6. \A x \in Client : LineOf(x)' BY <1>1, <1>5 DEF LineOf
<1>7. QED BY <1>1, <1>2, <1>4, <1>5, <1>6 DEF LineInv, Onward

\* Someone else's doing on the storage, which the room has yet to look at.
LEMMA StorageKeepsLines ==
  ASSUME LineInv, Onward, UNCHANGED <<tab, session, lastDocumentClock, netVars>>
  PROVE  LineInv'
<1>1. /\ c2s' = c2s /\ s2c' = s2c /\ late' = late /\ tab' = tab /\ session' = session
      /\ outstanding' = outstanding /\ cheated' = cheated /\ misled' = misled
  BY DEF netVars, outbox
<1>2. ASSUME NEW x \in Client PROVE LineOf(x)'
  <2>1. Line(tab[x], c2s[x], late[x], s2c[x], session[x], x \in cheated, history, documentClock, lastDocumentClock) BY DEF LineInv, LineOf
  <2>2. Line(tab[x], c2s[x], late[x], s2c[x], session[x], x \in cheated, history', documentClock', lastDocumentClock)
    BY <2>1, LineGrows DEF Onward
  <2>3. QED BY <1>1, <2>2 DEF LineOf
<1>3. Held' BY <1>1 DEF LineInv, Held
<1>4. QED BY <1>1, <1>2, <1>3 DEF LineInv, Onward

\* The host writes, or the storage prunes.
LEMMA HostKeepsLines ==
  ASSUME LineInv, HostTransaction \/ Prune PROVE LineInv' /\ Onward
<1>1. UNCHANGED <<tab, session, lastDocumentClock, netVars>> BY DEF HostTransaction, Prune
<1>2. Inv /\ lastDocumentClock \in 0 .. documentClock BY DEF LineInv
<1>3. CASE HostTransaction
  <2>1. \E P, D \in SUBSET RecordId : \E puts \in [P -> Value] : transaction(puts, D)
    <3>1. PICK id \in RecordId :
            \/ \E r \in Value \ {documents[id]} : transaction([i \in {id} |-> r], {})
            \/ transaction([i \in {} |-> Absent], {id})
      BY <1>3 DEF HostTransaction
    <3>2. CASE transaction([i \in {} |-> Absent], {id})
      <4>1. [i \in {} |-> Absent] \in [{} -> Value] OBVIOUS
      <4>2. QED BY <3>2, <4>1
    <3>3. CASE \E r \in Value \ {documents[id]} : transaction([i \in {id} |-> r], {})
      <4>1. PICK r \in Value : transaction([i \in {id} |-> r], {}) BY <3>3
      <4>2. [i \in {id} |-> r] \in [{id} -> Value] OBVIOUS
      <4>3. {id} \in SUBSET RecordId /\ {} \in SUBSET RecordId OBVIOUS
      <4>4. QED BY <4>1, <4>2, <4>3
    <3>4. QED BY <3>1, <3>2, <3>3
  <2>2. /\ Inv' /\ documentClock \in Nat /\ documentClock' \in Nat /\ documentClock <= documentClock'
        /\ \A i \in 0 .. documentClock : history'[i] = history[i]
    BY <1>2, <2>1, TransactionIs
  <2>3. lastDocumentClock' \in 0 .. documentClock' BY <1>1, <1>2, <2>2
  <2>4. QED BY <1>1, <2>2, <2>3, StorageKeepsLines DEF Onward
<1>4. CASE Prune
  <2>1. Inv' /\ documentClock' = documentClock /\ history' = history
    BY <1>2, <1>4, PruneKeepsInv DEF Prune, pruneTombstones
  <2>2. documentClock \in Nat BY <1>2 DEF Inv, storageTypeOK
  <2>3. QED BY <1>1, <1>2, <2>1, <2>2, StorageKeepsLines DEF Onward
<1>5. QED BY <1>3, <1>4

\* The room hears of it.
LEMMA BroadcastKeepsLines ==
  ASSUME LineInv, broadcastExternalStorageChanges PROVE LineInv' /\ Onward
<1>1. /\ catchUp /\ broadcast(nothing) /\ c2s' = c2s /\ late' = late /\ tab' = tab /\ misled' = misled
      /\ UNCHANGED storageVars /\ lastDocumentClock' = documentClock
      /\ session' \in Sessions /\ DOMAIN s2c' = Client
  BY DEF broadcastExternalStorageChanges, LineInv, catchUp, broadcast, Sessions
<1>2. Inv /\ lastDocumentClock \in 0 .. documentClock BY DEF LineInv
<1>3. Onward /\ documentClock' = documentClock /\ history' = history
  <2>1. documentClock \in 0 .. documentClock BY <1>2 DEF Inv, storageTypeOK
  <2>2. QED BY <1>1, <1>2, <2>1, Unmoved
<1>4. ASSUME NEW x \in Client PROVE LineOf(x)'
  <2>1. Line(tab[x], c2s[x], late[x], s2c[x], session[x], x \in cheated, history, documentClock, lastDocumentClock) BY DEF LineInv, LineOf
  <2>2. Line(tab[x], c2s[x], late[x], s2c'[x], session'[x], x \in cheated', history, documentClock, documentClock)
    BY <1>1, <1>2, <2>1, CatchUpKeeps
  <2>3. QED BY <1>1, <1>3, <2>2 DEF LineOf
<1>5. Held'
  <2>1. \A x \in Client : nothing[x] \in Seq(Downs) /\ s2c[x] \in Seq(Downs) BY OnWireIs DEF nothing
  <2>2. Held BY DEF LineInv
  <2>3. QED BY <1>1, <1>2, <2>1, <2>2, NewsTyped, BroadcastHolds
<1>6. QED BY <1>1, <1>3, <1>4, <1>5 DEF LineInv, Onward

\* The debounce timer sends what is queued.
LEMMA FlushMessagesKeepsLines ==
  ASSUME LineInv, NEW c \in Client, FlushDataMessages(c) PROVE LineInv' /\ Onward
<1>1. /\ outstanding' = [outstanding EXCEPT ![c] = 0] /\ UNCHANGED <<storageVars, lastDocumentClock>>
      /\ c2s' = c2s /\ s2c' = s2c /\ late' = late /\ tab' = tab /\ session' = session
      /\ cheated' = cheated /\ misled' = misled
  BY DEF FlushDataMessages, serverVars
<1>2. Inv /\ lastDocumentClock \in 0 .. documentClock BY DEF LineInv
<1>3. Onward /\ Inv' /\ documentClock' = documentClock /\ history' = history /\ lastDocumentClock' = lastDocumentClock
  BY <1>1, <1>2, Unmoved
<1>4. Held'
  <2>1. ASSUME NEW x \in Client PROVE outstanding'[x] \in 0 .. Len(s2c'[x])
    <3>1. outstanding[x] \in 0 .. Len(s2c[x]) /\ Len(s2c[x]) \in Nat BY OnWireIs
    <3>2. outstanding'[x] \in {0, outstanding[x]} BY <1>1 DEF LineInv, Held
    <3>3. QED BY <1>1, <3>1, <3>2
  <2>2. QED BY <1>1, <2>1 DEF LineInv, Held
<1>5. \A x \in Client : LineOf(x)' BY <1>1, <1>3 DEF LineInv, LineOf
<1>6. QED BY <1>1, <1>2, <1>3, <1>4, <1>5 DEF LineInv

\* The invariant holds at first, cold or warm.
LEMMA InitSync == Init => SyncInv
<1>1. SUFFICES ASSUME Init PROVE SyncInv OBVIOUS
<1>2. /\ Inv /\ documentClock = 0 /\ lastDocumentClock = 0 /\ documents \in Contents /\ history[0] = documents
      /\ c2s = nothing /\ s2c = nothing /\ late = nothing
      /\ outstanding = [c \in Client |-> 0] /\ cheated = {} /\ misled = {}
  BY <1>1, InitInv DEF Init, Fresh, storageInit
<1> DEFINE k(c) == tab[c]
           cold == Tab(NoRecords, -1, "offline", 0)
           warm == Tab(documents, 0, "connected", 1)
<1>3. cold \in Tabs /\ warm \in Tabs
  <2>1. <<>> \in Seq(Recorded) /\ <<>> \in Seq(Pushes) OBVIOUS
  <2>2. QED BY <1>2, <2>1, WholeTypes DEF Tab, Tabs
<1>4. /\ cold.status = "offline" /\ cold.lastServerClock = -1 /\ cold.pending = <<>> /\ cold.nextDiff = NoDiff
      /\ cold.store = NoRecords /\ cold.speculative = NoDiff /\ cold.unflushed = <<>>
      /\ warm.status = "connected" /\ warm.lastServerClock = 0 /\ warm.pending = <<>>
      /\ warm.store = documents /\ warm.speculative = NoDiff /\ warm.unflushed = <<>> /\ warm.nextDiff = NoDiff
  BY DEF Tab
<1>5. \/ tab = [c \in Client |-> cold] /\ session = [c \in Client |-> "none"]
      \/ tab = [c \in Client |-> warm] /\ session = [c \in Client |-> "connected"]
  BY <1>1, <1>2 DEF Init, ColdInit, WarmInit
<1> HIDE DEF cold, warm
<1>6. TabOK(cold) /\ TabOK(warm)
  BY <1>3, <1>4 DEF TabOK
<1>7. Line(cold, <<>>, <<>>, <<>>, "none", FALSE, history, 0, 0)
  <2>1. Linked(history, cold, <<>>) BY DEF Linked
  <2>2. QED BY <1>4, <1>6, <2>1 DEF Line
<1>8. Line(warm, <<>>, <<>>, <<>>, "connected", FALSE, history, 0, 0)
  <2>1. Linked(history, warm, <<>>) BY DEF Linked
  <2>2. EndAt(warm, <<>>, 0) BY <1>4 DEF EndAt
  <2>3. QED BY <1>4, <1>6, <2>1, <2>2 DEF Line
<1>9. LineInv
  <2>1. \A c \in Client : c2s[c] = <<>> /\ s2c[c] = <<>> /\ late[c] = <<>> BY <1>2 DEF nothing
  <2>2. \A c \in Client : LineOf(c)
    <3>1. SUFFICES ASSUME NEW c \in Client PROVE LineOf(c) OBVIOUS
    <3>2. Line(tab[c], <<>>, <<>>, <<>>, session[c], FALSE, history, 0, 0) BY <1>5, <1>7, <1>8
    <3>3. Line(tab[c], <<>>, <<>>, <<>>, session[c], c \in cheated, history, 0, 0) BY <1>2, <3>2 DEF Line
    <3>4. QED BY <1>2, <2>1, <3>3 DEF LineOf
  <2>3. DOMAIN tab = Client /\ session \in Sessions BY <1>5 DEF Sessions
  <2>4. Held
    <3>1. \A c \in Client : outstanding[c] = 0 /\ Len(s2c[c]) = 0 BY <1>2, <2>1
    <3>2. QED BY <1>2, <3>1 DEF Held
  <2>5. QED BY <1>2, <2>2, <2>3, <2>4 DEF LineInv, nothing
<1>10. Optimistic(cold, history, FALSE) /\ Optimistic(warm, history, FALSE)
  BY <1>2, <1>4, NothingLeads DEF Optimistic
<1>11. Queued(cold) /\ Queued(warm)
  <2>1. \A id \in RecordId : \A x, w : QueuedAt(NoDiff[id], NoDiff[id], x, w)
    BY Apart DEF QueuedAt, NoDiff, Noop
  <2>2. QED BY <1>4, <2>1 DEF Queued
<1>12. QueueInv
  <2>1. SUFFICES ASSUME NEW c \in Client PROVE Optimistic(tab[c], history, c \in misled) /\ Queued(tab[c])
    BY DEF QueueInv
  <2>2. Optimistic(tab[c], history, FALSE) /\ Queued(tab[c]) BY <1>5, <1>10, <1>11
  <2>3. QED BY <1>2, <2>2 DEF Optimistic
<1>13. QED BY <1>9, <1>12 DEF SyncInv

-----------------------------------------------------------------------------
(* The actions keep what is optimistic queued, when edits do not lag.      *)

\* A change is squashed onto what is speculative and onto what is unsent.
LEMMA QueuedSquash ==
  ASSUME NEW a \in Maybe, NEW b \in Maybe, NEW t \in Maybe, NEW s, LeadsAt(a, b, s), NEW d \in Entries, NEW w,
         QueuedAt(s, d, b, w)
  PROVE  QueuedAt(squash(s, Entry(b, t)), squash(d, Entry(b, t)), t, w)
<1> DEFINE e == Entry(b, t)
           u == squash(s, e)
           v == squash(d, e)
<1>1. /\ d.added \in Maybe /\ d.removed \in Maybe /\ (d.updated = <<>> \/ d.updated \in Value \X Value)
      /\ d = [added |-> d.added, updated |-> d.updated, removed |-> d.removed]
  BY DEF Entries
<1>2. /\ ~Noop(s) => d # Same \/ w
      /\ d.added # Absent => s.added # Absent \/ w
      /\ d.updated # <<>> /\ b = Absent => s = Same \/ w
      /\ d.added # Absent => b # Absent
      /\ d.removed # Absent => b = Absent
  BY DEF QueuedAt
<1>3. CASE b = t
  <2>1. e = Same BY <1>3, EntryLeads
  <2>2. u = s /\ v = d BY <2>1 DEF squash
  <2>3. QED BY <1>3, <2>2
<1>4. CASE b # t /\ b = Absent
  <2>1. t # Absent /\ e = [Same EXCEPT !.added = t] BY <1>4 DEF Entry
  <2>2. e # Same /\ e.added = t BY <2>1 DEF Same
  <2>3. s = Same \/ (s.removed # Absent /\ s.added = Absent /\ ~Noop(s)) BY <1>4, Apart DEF LeadsAt, Noop, Same
  <2>4. d.added = Absent BY <1>2, <1>4
  <2>5. s = Same => u.added = t
    <3>1. s = Same => u = [Same EXCEPT !.added = t] BY <2>1, <2>2, Apart DEF squash
    <3>2. QED BY <3>1 DEF Same
  <2> HIDE DEF e
  <2>6. CASE d.removed = Absent
    <3>1. v = [d EXCEPT !.added = t] BY <2>1, <2>2, <2>6 DEF squash
    <3>2. v.added = t /\ v.removed = Absent BY <1>1, <2>6, <3>1
    <3>3. v # Same BY <2>1, <3>2, Apart
    <3>4. u.added # Absent \/ w
      <4>1. CASE s = Same BY <2>1, <2>5, <4>1
      <4>2. CASE s # Same
        <5>1. ~Noop(s) BY <2>3, <4>2
        <5>2. d # Same \/ w BY <1>2, <5>1
        <5>3. d # Same => d.updated # <<>> BY <1>1, <2>4, <2>6 DEF Same
        <5>4. QED BY <1>2, <1>4, <4>2, <5>2, <5>3
      <4>3. QED BY <4>1, <4>2
    <3> HIDE DEF u, v
    <3>5. QED BY <2>1, <3>2, <3>3, <3>4 DEF QueuedAt, u, v, e
  <2>7. CASE d.removed # Absent
    <3>1. v = [d EXCEPT !.removed = Absent, !.updated = <<d.removed, t>>] BY <2>1, <2>2, <2>7 DEF squash
    <3>2. v.added = Absent /\ v.removed = Absent /\ v.updated = <<d.removed, t>> BY <1>1, <2>4, <3>1
    <3>3. v # Same BY <3>2 DEF Same
    <3> HIDE DEF u, v
    <3>4. QED BY <2>1, <3>2, <3>3 DEF QueuedAt, u, v, e
  <2>8. QED BY <2>6, <2>7
<1>5. CASE b # t /\ b # Absent /\ t = Absent
  <2>1. e = [Same EXCEPT !.removed = b] BY <1>5 DEF Entry
  <2>2. e # Same /\ e.added = Absent /\ e.updated = <<>> /\ e.removed = b BY <1>5, <2>1 DEF Same
  <2>3. d.removed = Absent BY <1>2, <1>5
  <2> HIDE DEF e
  <2>4. CASE d.added # Absent
    <3>1. v = [d EXCEPT !.added = Absent] BY <2>2, <2>4 DEF squash
    <3>2. v.added = Absent /\ v.removed = Absent BY <1>1, <2>3, <3>1
    <3>3. u = Same \/ w
      <4>1. s.added # Absent \/ w BY <1>2, <2>4
      <4>2. ASSUME s.added # Absent PROVE u = Same
        <5>1. s = [Same EXCEPT !.added = s.added] BY <4>2, LeadsThere
        <5>2. u = [s EXCEPT !.added = Absent] BY <2>2, <4>2 DEF squash
        <5>3. QED BY <5>1, <5>2 DEF Same
      <4>3. QED BY <4>1, <4>2
    <3>4. u = Same => Noop(u) BY DEF Noop, Same
    <3> HIDE DEF u, v
    <3>5. QED BY <3>2, <3>3, <3>4 DEF QueuedAt, u, v, e
  <2>5. CASE d.added = Absent
    <3> DEFINE r == IF d.updated = <<>> THEN e.removed ELSE d.updated[1]
    <3>1. v = [Same EXCEPT !.removed = r] BY <2>2, <2>5 DEF squash
    <3>2. r # Absent
      <4>1. d.updated # <<>> => d.updated[1] \in Value BY <1>1
      <4>2. QED BY <1>5, <2>2, <4>1, Apart
    <3> HIDE DEF r
    <3>3. v.added = Absent /\ v.updated = <<>> /\ v.removed = r BY <3>1 DEF Same
    <3>4. v # Same BY <3>2, <3>3, Apart
    <3> HIDE DEF u, v
    <3>5. QED BY <1>5, <3>3, <3>4 DEF QueuedAt, u, v, e
  <2>6. QED BY <2>4, <2>5
<1>6. CASE b # t /\ b # Absent /\ t # Absent
  <2>1. e = [Same EXCEPT !.updated = <<b, t>>] BY <1>6 DEF Entry
  <2>2. e # Same /\ e.added = Absent /\ e.updated = <<b, t>> /\ e.updated # <<>> BY <2>1 DEF Same
  <2>3. d.removed = Absent BY <1>2, <1>6
  <2>4. e.updated[2] = t BY <2>2
  <2> HIDE DEF e
  <2>5. CASE d.added # Absent
    <3>1. v = [Same EXCEPT !.added = t] BY <2>2, <2>4, <2>5 DEF squash
    <3>2. v.added = t /\ v.removed = Absent BY <3>1 DEF Same
    <3>3. v # Same BY <1>6, <3>2, Apart
    <3>4. u.added # Absent \/ w
      <4>1. s.added # Absent \/ w BY <1>2, <2>5
      <4>2. ASSUME s.added # Absent PROVE u.added = t
        <5>1. u = [Same EXCEPT !.added = t] BY <2>2, <2>4, <4>2 DEF squash
        <5>2. QED BY <5>1 DEF Same
      <4>3. QED BY <1>6, <4>1, <4>2
    <3> HIDE DEF u, v
    <3>5. QED BY <1>6, <3>2, <3>3, <3>4 DEF QueuedAt, u, v, e
  <2>6. CASE d.added = Absent
    <3> DEFINE p == <<(IF d.updated = <<>> THEN e ELSE d).updated[1], e.updated[2]>>
    <3>1. v = [Same EXCEPT !.updated = p] /\ p # <<>> BY <2>2, <2>6 DEF squash
    <3> HIDE DEF p
    <3>2. v.added = Absent /\ v.updated = p /\ v.removed = Absent BY <3>1 DEF Same
    <3>3. v # Same BY <3>1, <3>2, Apart
    <3> HIDE DEF u, v
    <3>4. QED BY <1>6, <3>2, <3>3 DEF QueuedAt, u, v, e
  <2>7. QED BY <2>5, <2>6
<1>7. QED BY <1>3, <1>4, <1>5, <1>6

\* A step of one client's keeps what all show if it keeps what that one shows.
LEMMA ClientQueues ==
  ASSUME QueueInv, NEW c \in Client, NEW y, At(tab, tab', c, y), history' = history, setup' = setup,
         \A x \in Client \ {c} : x \in misled' <=> x \in misled,
         ~setup.editsLag => Optimistic(y, history, c \in misled') /\ Queued(y)
  PROVE  QueueInv'
<1>1. ASSUME ~setup.editsLag, NEW x \in Client PROVE Optimistic(tab'[x], history, x \in misled') /\ Queued(tab'[x])
  <2>1. CASE x = c BY <1>1, <2>1 DEF At
  <2>2. CASE x # c
    <3>1. tab'[x] = tab[x] /\ (x \in misled' <=> x \in misled) BY <2>2 DEF At
    <3>2. Optimistic(tab[x], history, x \in misled) /\ Queued(tab[x]) BY <1>1 DEF QueueInv
    <3>3. Optimistic(tab[x], history, x \in misled') BY <3>1, <3>2 DEF Optimistic
    <3>4. QED BY <3>1, <3>2, <3>3
  <2>3. QED BY <2>1, <2>2
<1>2. QED BY <1>1 DEF QueueInv

\* What the server had when a tab heard from it last.
LEMMA HeardIs ==
  ASSUME LineInv, NEW c \in Client
  PROVE  LET k == tab[c] IN
         /\ k \in Tabs /\ k.store \in Contents /\ k.speculative \in Recorded /\ k.nextDiff \in Recorded
         /\ k.lastServerClock \in -1 .. documentClock
         /\ k.status = "connected" => k.lastServerClock >= 0
         /\ k.lastServerClock >= 0 => history[k.lastServerClock] \in Contents
         /\ documentClock \in Nat
<1> DEFINE k == tab[c]
<1>1. LineOf(c) /\ documentClock \in Nat /\ history \in [0 .. documentClock -> Contents]
  BY DEF LineInv, Inv, storageTypeOK
<1>2. /\ k \in Tabs /\ k.lastServerClock >= -1 /\ k.lastServerClock <= documentClock
      /\ k.status = "connected" => k.lastServerClock >= 0
  BY <1>1 DEF LineOf, Line, TabOK
<1>3. k.store \in Contents /\ k.speculative \in Recorded /\ k.nextDiff \in Recorded /\ k.lastServerClock \in Int
  BY <1>2 DEF Tabs
<1>4. k.lastServerClock >= 0 => k.lastServerClock \in 0 .. documentClock BY <1>1, <1>2, <1>3
<1>5. QED BY <1>1, <1>2, <1>3, <1>4

\* The room never touches what a tab shows.
LEMMA RoomQueues ==
  ASSUME LineInv, QueueInv, Onward, tab' = tab, setup' = setup, misled' = misled
  PROVE  QueueInv'
<1>1. ASSUME ~setup.editsLag, NEW x \in Client PROVE Optimistic(tab[x], history', x \in misled) /\ Queued(tab[x])
  <2>1. Optimistic(tab[x], history, x \in misled) /\ Queued(tab[x]) BY <1>1 DEF QueueInv
  <2>2. tab[x].lastServerClock \in -1 .. documentClock BY HeardIs
  <2>3. tab[x].lastServerClock >= 0 => history'[tab[x].lastServerClock] = history[tab[x].lastServerClock]
    BY <2>2 DEF Onward
  <2>4. QED BY <2>1, <2>3 DEF Optimistic
<1>2. QED BY <1>1 DEF QueueInv

\* An edit that is reported at once is speculative and unsent.
LEMMA EditKeepsQueues ==
  ASSUME LineInv, QueueInv, NEW c \in Client, Edit(c) PROVE QueueInv'
<1> DEFINE k == tab[c]
<1>1. /\ k \in Tabs /\ k.store \in Contents /\ k.speculative \in Recorded /\ k.nextDiff \in Recorded
      /\ k.lastServerClock \in -1 .. documentClock
      /\ k.lastServerClock >= 0 => history[k.lastServerClock] \in Contents
  BY HeardIs
<1>2. DOMAIN tab = Client /\ history' = history /\ setup' = setup /\ misled' = misled
  BY DEF LineInv, Edit, serverVars, storageVars, netVars
<1>3. PICK z : Edited(k, z) /\ tab' = [tab EXCEPT ![c] = IF setup.editsLag THEN z ELSE flushHistory(z)]
  BY <1>1, <1>2, EditIs
<1> DEFINE w == IF setup.editsLag THEN z ELSE flushHistory(z)
           h == IF c \in misled THEN Undo(k.store, k.speculative) ELSE history[k.lastServerClock]
           d == Changes(k.store, z.store)
<1>4. ASSUME ~setup.editsLag PROVE Optimistic(w, history, c \in misled) /\ Queued(w)
  <2>1. /\ k.unflushed = <<>> /\ Leads(h, k.store, k.speculative) /\ h \in Contents /\ k.lastServerClock >= 0
        /\ Queued(k)
    <3>1. k.lastServerClock >= 0 BY <1>3 DEF Edited
    <3>2. Undo(k.store, k.speculative) \in Contents BY <1>1, WholeTypes
    <3>3. Optimistic(k, history, c \in misled) /\ Queued(k) BY <1>4 DEF QueueInv
    <3>4. QED BY <1>1, <3>1, <3>2, <3>3 DEF Optimistic
  <2>2. /\ z \in Tabs /\ z.store \in Contents /\ z.unflushed = <<d>>
        /\ z.speculative = k.speculative /\ z.nextDiff = k.nextDiff
        /\ Records(z, [k EXCEPT !.store = z.store])
    BY <1>3, <2>1 DEF Edited, Tabs
  <2>3. d \in Recorded BY <1>1, <2>2, WholeTypes
  <2> HIDE DEF k, d, h
  <2>4. /\ z.pending = k.pending /\ z.lastServerClock = k.lastServerClock /\ z.status = k.status
    BY <1>1, <2>2 DEF Records, Tabs
  <2> DEFINE r == push(z, d)
  <2>5. w = [r EXCEPT !.unflushed = <<>>] BY <1>4, <2>2, <2>3, FlushOneIs
  <2>6. /\ r \in Tabs /\ Records(r, z) /\ r.speculative = Squash(k.speculative, d)
        /\ z.status = "connected" => r.nextDiff = Squash(k.nextDiff, d)
    BY <2>2, <2>3, PushIs
  <2> HIDE DEF r, w
  <2>7. /\ w.unflushed = <<>> /\ w.store = z.store /\ w.lastServerClock = k.lastServerClock
        /\ w.status = k.status /\ w.pending = k.pending
        /\ w.speculative = Squash(k.speculative, d)
        /\ k.status = "connected" => w.nextDiff = Squash(k.nextDiff, d)
    BY <2>4, <2>5, <2>6 DEF Tabs, Records
  <2>8. Leads(h, z.store, Squash(k.speculative, d))
    BY <1>1, <2>1, <2>2, SquashLead DEF d, k
  <2>9. Optimistic(w, history, c \in misled)
    <3>1. k.lastServerClock \in Int BY <1>1 DEF k, Tabs
    <3>2. Squash(k.speculative, d) \in Recorded BY <1>1, <2>3, WholeTypes DEF k
    <3>3. Leads(Undo(w.store, w.speculative), w.store, w.speculative)
      BY <2>1, <2>2, <2>7, <2>8, <3>2, UndoneLeads
    <3>4. c \notin misled => h = history[w.lastServerClock] BY <2>7 DEF h
    <3>5. QED BY <2>1, <2>7, <2>8, <3>1, <3>3, <3>4 DEF Optimistic
  <2>10. ASSUME k.status = "connected", NEW id \in RecordId
         PROVE  QueuedAt(w.speculative[id], w.nextDiff[id], w.store[id], w.pending # <<>>)
    <3>1. QueuedAt(k.speculative[id], k.nextDiff[id], k.store[id], k.pending # <<>>) BY <2>1, <2>10 DEF Queued
    <3>2. /\ h[id] \in Maybe /\ k.store[id] \in Maybe /\ z.store[id] \in Maybe /\ k.nextDiff[id] \in Entries
          /\ LeadsAt(h[id], k.store[id], k.speculative[id])
      BY <1>1, <2>1, <2>2 DEF Contents, Maybe, Recorded, Leads, k
    <3> DEFINE e == Entry(k.store[id], z.store[id])
               waits == k.pending # <<>>
    <3>3. QueuedAt(squash(k.speculative[id], e), squash(k.nextDiff[id], e), z.store[id], waits)
      <4> HIDE DEF waits
      <4>1. QueuedAt(k.speculative[id], k.nextDiff[id], k.store[id], waits) BY <3>1 DEF waits
      <4>2. QED BY <3>2, <4>1, QueuedSquash
    <3>4. w.speculative[id] = squash(k.speculative[id], e) /\ w.nextDiff[id] = squash(k.nextDiff[id], e)
      BY <2>7, <2>10 DEF Squash, Changes, d
    <3> HIDE DEF e, waits
    <3>5. QED BY <2>7, <3>3, <3>4 DEF waits
  <2>11. Queued(w) BY <2>7, <2>10 DEF Queued
  <2>12. QED BY <2>9, <2>11
<1>5. tab' = [tab EXCEPT ![c] = w] BY <1>3
<1> HIDE DEF w
<1>6. At(tab, tab', c, w) BY <1>2, <1>5 DEF At
<1>7. ~setup.editsLag => Optimistic(w, history, c \in misled') /\ Queued(w) BY <1>2, <1>4
<1>8. QED BY <1>2, <1>6, <1>7, ClientQueues

\* A tab that gives up its socket, or opens a new one, keeps what it shows.
LEMMA LostKeepsQueues ==
  ASSUME LineInv, QueueInv, NEW c \in Client, Drop(c) \/ SeeClose(c) \/ Reconnect(c) PROVE QueueInv'
<1> DEFINE k == tab[c]
           y == IF Reconnect(c) THEN [k EXCEPT !.status = "connecting", !.requestId = @ + 1] ELSE resetConnection(k)
<1>1. DOMAIN tab = Client /\ k \in Tabs /\ history' = history /\ setup' = setup /\ tab' = [tab EXCEPT ![c] = y]
      /\ misled' = misled
  <2>1. DOMAIN tab = Client /\ k \in Tabs BY HeardIs DEF LineInv
  <2>2. history' = history /\ setup' = setup /\ tab' = [tab EXCEPT ![c] = y] /\ misled' = misled
    BY DEF Drop, SeeClose, Reconnect, serverVars, storageVars, bounds
  <2>3. QED BY <2>1, <2>2
<1>2. /\ y.status # "connected" /\ y.store = k.store /\ y.unflushed = k.unflushed
      /\ y.speculative = k.speculative /\ y.lastServerClock = k.lastServerClock
  <2>1. CASE Reconnect(c) BY <1>1, <2>1 DEF Tabs
  <2>2. CASE ~Reconnect(c) BY <1>1, <2>2, ResetIs
  <2>3. QED BY <2>1, <2>2
<1> HIDE DEF y
<1>3. ~setup.editsLag => Optimistic(y, history, c \in misled') /\ Queued(y)
  BY <1>1, <1>2 DEF QueueInv, Optimistic, Queued
<1>4. At(tab, tab', c, y)
  <2>1. DOMAIN tab = Client /\ tab' = [tab EXCEPT ![c] = y] BY <1>1
  <2>2. QED BY <2>1 DEF At
<1>5. QED BY <1>1, <1>3, <1>4, ClientQueues

\* After a reply all that is speculative is unsent.
LEMMA ReadHeadKeepsQueues ==
  ASSUME LineInv, QueueInv, NEW c \in Client, ReadHead(c) PROVE QueueInv'
<1> DEFINE k == tab[c]
           q == s2c[c]
           d == documentClock
           D == DownSet(history, k, d)
           msg == Head(q)
           expected == msg.type = "connect" /\ msg.requestId = k.requestId /\ k.status = "connecting"
           y == IF expected THEN didReconnect(k, msg) ELSE k
           h == history[k.lastServerClock]
           base == Apply(IF msg.wipeAll THEN NoRecords ELSE Undo(k.store, k.speculative), msg.diff)
<1>1. /\ DOMAIN tab = Client /\ history' = history /\ setup' = setup /\ tab' = [tab EXCEPT ![c] = y]
      /\ q # <<>> /\ misled' = IF expected /\ msg.wipeAll THEN misled \ {c} ELSE misled
  <2>1. onWire(c) # <<>> => q # <<>> BY OnWireIs
  <2>2. QED BY <2>1 DEF ReadHead, LineInv, serverVars, storageVars, bounds
<1>2. /\ k \in Tabs /\ k.store \in Contents /\ k.speculative \in Recorded /\ k.lastServerClock \in Int
      /\ k.lastServerClock >= 0 => h \in Contents
  BY HeardIs
<1>3. msg \in D
  <2>1. q \in Seq(D) BY DEF LineInv, LineOf, Line
  <2> HIDE DEF D
  <2>2. QED BY <1>1, <2>1, TailIs
<1>4. ASSUME ~setup.editsLag PROVE Optimistic(y, history, c \in misled') /\ Queued(y)
  <2>1. Optimistic(k, history, c \in misled) /\ Queued(k) BY <1>4 DEF QueueInv
  <2>2. CASE ~expected BY <1>1, <2>1, <2>2
  <2>3. CASE expected
    <3>1. msg \in Replies /\ ReplyOK(history, k, msg) BY <1>3, <2>3, UpsApart DEF DownSet, DownOK
    <3> DEFINE z == didReconnect(k, msg)
    <3>2. /\ z.status = "connected" /\ z.lastServerClock = msg.serverClock /\ z \in Tabs
          /\ z.nextDiff = z.speculative /\ base \in Contents /\ Leads(base, z.store, z.speculative)
          /\ z.unflushed = <<>>
      <4> HIDE DEF k
      <4>1. k.unflushed = <<>> BY <2>1 DEF Optimistic
      <4>2. QED BY <1>2, <3>1, <4>1, ReconnectIs
    <3>3. c \notin misled' => base = history[msg.serverClock]
      <4>1. /\ ~msg.wipeAll => k.lastServerClock >= 0
            /\ history[msg.serverClock] = Apply(IF msg.wipeAll THEN NoRecords ELSE h, msg.diff)
        BY <2>3, <3>1 DEF ReplyOK
      <4>0. c \notin misled' /\ ~msg.wipeAll => c \notin misled BY <1>1
      <4>2. c \notin misled' /\ ~msg.wipeAll => Undo(k.store, k.speculative) = h
        <5>1. k.lastServerClock >= 0 /\ c \notin misled => Leads(h, k.store, k.speculative) /\ h \in Contents
          BY <1>2, <2>1 DEF Optimistic
        <5> HIDE DEF k, h
        <5>2. QED BY <1>2, <4>0, <4>1, <5>1, LeadsWhole
      <4>3. QED BY <4>1, <4>2
    <3>4. z.lastServerClock >= 0 /\ z.lastServerClock # -1 BY <3>1, <3>2 DEF Replies
    <3> HIDE DEF z, base
    <3>5. Optimistic(z, history, c \in misled')
      <4>1. Leads(Undo(z.store, z.speculative), z.store, z.speculative) BY <3>2, UndoneLeads DEF Tabs
      <4>2. QED BY <3>2, <3>3, <3>4, <4>1 DEF Optimistic
    <3>6. ASSUME NEW id \in RecordId PROVE QueuedAt(z.speculative[id], z.nextDiff[id], z.store[id], z.pending # <<>>)
      <4>1. base[id] \in Maybe /\ z.store[id] \in Maybe /\ LeadsAt(base[id], z.store[id], z.speculative[id])
        BY <3>2 DEF Contents, Maybe, Leads, Tabs
      <4> DEFINE s == z.speculative[id]
                 x == z.store[id]
      <4>2. /\ s.added # Absent => x # Absent
            /\ s.removed # Absent => x = Absent
            /\ s.updated # <<>> => x # Absent
        BY <4>1, LeadsThere
      <4>3. Noop(Same) BY DEF Noop, Same
      <4> HIDE DEF s, x
      <4>4. \A waits \in BOOLEAN : QueuedAt(s, s, x, waits) BY <4>2, <4>3 DEF QueuedAt
      <4>5. QED BY <3>2, <4>4 DEF s, x
    <3>7. Queued(z) BY <3>6 DEF Queued
    <3>8. y = z BY <2>3 DEF z
    <3>9. QED BY <3>5, <3>7, <3>8
  <2>4. QED BY <2>2, <2>3
<1> HIDE DEF y
<1>5. At(tab, tab', c, y)
  <2>1. DOMAIN tab = Client /\ tab' = [tab EXCEPT ![c] = y] BY <1>1
  <2>2. QED BY <2>1 DEF At
<1>6. \A x \in Client \ {c} : x \in misled' <=> x \in misled BY <1>1
<1>7. QED BY <1>1, <1>4, <1>5, <1>6, ClientQueues

\* A tab with nothing unsent either waits for an answer or shows the server state.
LEMMA SettledQueued ==
  ASSUME NEW y \in Tabs, NetworkDiff(y.nextDiff) = NoOps, y.pending = <<>> => y.speculative = NoDiff
  PROVE  Queued(y)
<1>1. SUFFICES ASSUME NEW id \in RecordId
               PROVE  QueuedAt(y.speculative[id], y.nextDiff[id], y.store[id], y.pending # <<>>)
  BY DEF Queued
<1> DEFINE d == y.nextDiff[id]
           s == y.speculative[id]
           x == y.store[id]
           waits == y.pending # <<>>
<1>2. d \in Entries /\ OpFor(d) = Unchanged
  <2>1. y.nextDiff \in Recorded BY DEF Tabs
  <2>2. NetworkDiff(y.nextDiff)[id] = OpFor(d) BY DiffsAt
  <2>3. QED BY <2>1, <2>2 DEF NoOps, Recorded
<1>3. Noop(d) BY <1>2, OpForTyped
<1>4. waits \/ s = Same BY DEF NoDiff
<1>5. Noop(Same) /\ waits \in BOOLEAN BY DEF Noop, Same
<1> HIDE DEF d, s, x, waits
<1>6. QueuedAt(s, d, x, waits) BY <1>3, <1>4, <1>5 DEF QueuedAt, Noop
<1>7. QED BY <1>6 DEF d, s, x, waits

\* After a push something waits; without one nothing is unsent.
LEMMA SendQueues ==
  ASSUME NEW k \in Tabs, k.status = "connected", NEW h, NEW w, Optimistic(k, h, w)
  PROVE  LET y == sendUnsentChanges(k) IN
         /\ y \in Tabs /\ y.status = "connected" /\ Optimistic(y, h, w) /\ NetworkDiff(y.nextDiff) = NoOps
         /\ y = k \/ y.pending # <<>>
<1> DEFINE y == sendUnsentChanges(k)
           m == Push(k.clientClock, NetworkDiff(k.nextDiff))
<1>1. /\ m \in Pushes
      /\ \/ y = k /\ NetworkDiff(k.nextDiff) = NoOps
         \/ /\ y \in Tabs /\ y.pending = Append(k.pending, m) /\ y.nextDiff = NoDiff /\ y.status = k.status
            /\ y.store = k.store /\ y.unflushed = k.unflushed /\ y.speculative = k.speculative
            /\ y.lastServerClock = k.lastServerClock
  <2> HIDE DEF m
  <2>1. QED BY SendIs DEF m
<1>2. NetworkDiff(NoDiff) = NoOps
  <2>1. \A id \in RecordId : OpFor(NoDiff[id]) = Unchanged
    <3>1. OpFor(Same) = Unchanged BY Apart DEF OpFor
    <3>2. QED BY <3>1 DEF NoDiff
  <2>2. QED BY <2>1, DiffsAt DEF NoOps
<1>3. k.pending \in Seq(Pushes) BY DEF Tabs
<1> HIDE DEF y, m
<1>4. CASE y = k /\ NetworkDiff(k.nextDiff) = NoOps BY <1>4 DEF y
<1>5. CASE ~(y = k /\ NetworkDiff(k.nextDiff) = NoOps)
  <2>1. /\ y \in Tabs /\ y.pending = Append(k.pending, m) /\ y.nextDiff = NoDiff /\ y.status = k.status
        /\ y.store = k.store /\ y.unflushed = k.unflushed /\ y.speculative = k.speculative
        /\ y.lastServerClock = k.lastServerClock
    BY <1>1, <1>5
  <2>2. y.pending # <<>> BY <1>1, <1>3, <2>1, AppendProperties
  <2>3. Optimistic(y, h, w) BY <2>1 DEF Optimistic
  <2>4. QED BY <1>2, <2>1, <2>2, <2>3 DEF y
<1>6. QED BY <1>4, <1>5

\* A tab that has rebased holds what the server had when it sent the last message,
\* unless it was cheated, and shows more only for what is unanswered or unsent.
LEMMA RebaseQueues ==
  ASSUME Inv, NEW k, NEW up, NEW lt, NEW q, NEW s, NEW g, NEW w, NEW ld,
         Line(k, up, lt, q, s, g, history, documentClock, ld), k.status = "connected", NEW n \in 1 .. Len(q),
         \A i \in 1 .. n : SubSeq(q, 1, n)[i].type # "connect",
         Optimistic(k, history, w)
  PROVE  LET y == rebase(k, SubSeq(q, 1, n)) IN
         /\ y \in Tabs /\ Optimistic(y, history, w \/ (g /\ y.status # "offline"))
         /\ y.status = "connected" => /\ y.nextDiff = k.nextDiff
                                      /\ y.pending = <<>> /\ NetworkDiff(k.nextDiff) = NoOps => y.speculative = NoDiff
<1> DEFINE d == documentClock
           h == history
           msgs == SubSeq(q, 1, n)
           y == rebase(k, msgs)
           got == FoldLeft(receive, Started(k), msgs)
<1>1. /\ k \in Tabs /\ q \in Seq(DownSet(h, k, d)) /\ k.lastServerClock <= d /\ k.lastServerClock >= 0
      /\ h \in [0 .. d -> Contents] /\ d \in Nat /\ k.lastServerClock \in Int /\ k.unflushed = <<>>
      /\ k.store \in Contents /\ k.speculative \in Recorded
  <2>1. k \in Tabs BY DEF Line, TabOK
  <2>2. k.lastServerClock \in Int /\ k.store \in Contents /\ k.speculative \in Recorded BY <2>1 DEF Tabs
  <2>3. QED BY <2>1, <2>2 DEF Line, TabOK, Inv, storageTypeOK, Optimistic
<1>2. n \in 0 .. Len(q) /\ n \in Nat \ {0} /\ n \in 1 .. n /\ 1 \in 1 .. Len(q) BY <1>1
<1>3. /\ msgs \in [1 .. n -> News] /\ (msgs = <<>> <=> n = 0)
      /\ \A i \in 1 .. n : msgs[i] = q[i] /\ i \in 1 .. Len(q)
  BY <1>1, <1>2, NewsOf
<1>4. flushHistory(k) = k BY <1>1, FlushHistoryIs
<1>5. y = rebased(k, msgs) BY <1>2, <1>3, <1>4 DEF rebase
<1>6. ~w => Started(k).at = h[k.lastServerClock]
  <2> DEFINE at == h[k.lastServerClock]
  <2>1. at \in Contents /\ (~w => Leads(at, k.store, k.speculative)) BY <1>1 DEF Optimistic
  <2>2. ~w => Undo(k.store, k.speculative) = at BY <1>1, <2>1, LeadsWhole
  <2>3. QED BY <2>2 DEF Started
<1>7. ~g => \A i \in 1 .. n :
        LinkOK(h, k, IF i = 1 THEN k.lastServerClock ELSE msgs[i - 1].serverClock, msgs[i])
  <2>1. SUFFICES ASSUME ~g, NEW i \in 1 .. n
                 PROVE  LinkOK(h, k, IF i = 1 THEN k.lastServerClock ELSE msgs[i - 1].serverClock, msgs[i])
    OBVIOUS
  <2>2. msgs[i] = q[i] /\ i \in 1 .. Len(q) BY <1>3
  <2>3. CASE i = 1
    <3>1. q # <<>> BY <1>1, <2>2
    <3>2. LinkOK(h, k, k.lastServerClock, q[1]) BY <2>1, <3>1 DEF Line, Linked
    <3>3. QED BY <2>2, <2>3, <3>2
  <2>4. CASE i # 1
    <3>1. i \in 2 .. Len(q) /\ i - 1 \in 1 .. n BY <1>2, <2>2, <2>4
    <3>2. LinkOK(h, k, q[i - 1].serverClock, q[i]) BY <2>1, <3>1 DEF Line, Linked, Unheard
    <3>3. msgs[i - 1] = q[i - 1] BY <1>3, <3>1
    <3>4. QED BY <2>2, <2>4, <3>2, <3>3
  <2>5. QED BY <2>3, <2>4
<1> HIDE DEF msgs, y
<1>8. got \in Accs /\ (got.ok /\ ~w /\ ~g => got.at = h[msgs[n].serverClock])
  <2>1. got \in Accs /\ (got.ok /\ ~w /\ ~g => got.at = Reached(h, k, msgs, n)) BY <1>1, <1>2, <1>3, <1>6, <1>7, ReceivedIs
  <2>2. Reached(h, k, msgs, n) = h[msgs[n].serverClock] BY <1>2 DEF Reached
  <2>3. QED BY <2>1, <2>2
<1>9. Rebase(k, msgs, n, y) BY <1>1, <1>2, <1>3, <1>5, RebaseIs
<1>10. CASE ~got.ok /\ y = resetConnection(k)
  <2>1. /\ y \in Tabs /\ y.status = "offline" /\ y.store = k.store /\ y.unflushed = k.unflushed
        /\ y.speculative = k.speculative /\ y.lastServerClock = k.lastServerClock
    BY <1>1, <1>10, ResetIs
  <2>2. Optimistic(y, h, w \/ (g /\ y.status # "offline"))
    <3> DEFINE e == w \/ (g /\ y.status # "offline")
    <3>1. e <=> w BY <2>1
    <3> HIDE DEF e, y
    <3>2. Optimistic(y, h, e) BY <2>1, <3>1 DEF Optimistic
    <3>3. QED BY <3>2 DEF e
  <2>3. QED BY <2>1, <2>2 DEF y, msgs
<1>11. CASE ~(~got.ok /\ y = resetConnection(k))
  <2>1. /\ got.ok /\ y \in Tabs /\ y.lastServerClock = msgs[n].serverClock
        /\ Leads(got.at, y.store, y.speculative)
        /\ y.unflushed = k.unflushed /\ y.nextDiff = k.nextDiff /\ y.status = k.status
        /\ y.pending = <<>> /\ NetworkDiff(k.nextDiff) = NoOps => y.speculative = NoDiff
    BY <1>9, <1>11 DEF Rebase
  <2>2. y.lastServerClock \in Nat
    <3>1. msgs[n] \in News BY <1>2, <1>3
    <3>2. QED BY <2>1, <3>1 DEF News, Patches, Results
  <2>3. Optimistic(y, h, w \/ (g /\ y.status # "offline"))
    <3>1. y.lastServerClock # -1 /\ (~w /\ ~g => Leads(h[y.lastServerClock], y.store, y.speculative))
      BY <1>8, <2>1, <2>2
    <3>2. Leads(Undo(y.store, y.speculative), y.store, y.speculative)
      <4>1. got.at \in Contents BY <1>8 DEF Accs
      <4> HIDE DEF got
      <4>2. QED BY <2>1, <4>1, UndoneLeads DEF Tabs
    <3>3. QED BY <1>1, <2>1, <3>1, <3>2 DEF Optimistic
  <2>4. QED BY <2>1, <2>3 DEF y, msgs
<1>12. QED BY <1>10, <1>11

\* The frame keeps what is shown queued: sent first or last, what is not answered
\* is re-applied.
LEMMA FlushKeepsQueues ==
  ASSUME LineInv, QueueInv, NEW c \in Client, NEW n \in 0 .. Len(onWire(c)), Flush(c, n) PROVE QueueInv'
<1> DEFINE k == tab[c]
           q == s2c[c]
           msgs == SubSeq(q, 1, n)
           d == documentClock
           M(y) == c \in misled \/ (c \in cheated /\ n # 0 /\ y.status # "offline")
           Kept(y, up) == Line(y, up, late[c], q, session[c], c \in cheated, history, d, lastDocumentClock)
<1>1. /\ k.status = "connected" /\ (\A i \in 1 .. n : msgs[i].type # "connect")
      /\ history' = history /\ setup' = setup
      /\ \/ LET z == sendUnsentChanges(k) IN Framed(c, rebase(z, msgs), sentBy(k, z), n)
         \/ LET z == rebase(k, msgs) IN Framed(c, sendUnsentChanges(z), sentBy(z, sendUnsentChanges(z)), n)
  BY FlushIs DEF storageVars, bounds
<1>2. DOMAIN tab = Client /\ k \in Tabs /\ Kept(k, c2s[c]) /\ Inv /\ n \in 0 .. Len(q) /\ Len(q) \in Nat
  <2>1. DOMAIN tab = Client /\ k \in Tabs /\ Kept(k, c2s[c]) /\ Inv BY HeardIs DEF LineInv, LineOf
  <2>2. q \in Seq(DownSet(history, k, d)) BY <2>1 DEF Line
  <2>3. Len(q) \in Nat
    <3> DEFINE D == DownSet(history, k, d)
    <3> HIDE DEF D, q
    <3>1. q \in Seq(D) BY <2>2 DEF D
    <3>2. QED BY <3>1
  <2>4. n \in 0 .. Len(q)
    <3>1. Len(onWire(c)) = Len(q) - outstanding[c] /\ outstanding[c] \in 0 .. Len(q) BY OnWireIs
    <3>2. QED BY <2>3, <3>1
  <2>5. QED BY <2>1, <2>3, <2>4
<1>3. ASSUME NEW y, NEW sent, Framed(c, y, sent, n), ~setup.editsLag => Optimistic(y, history, M(y)) /\ Queued(y)
      PROVE  QueueInv'
  <2>1. At(tab, tab', c, y) BY <1>2, <1>3 DEF At, Framed
  <2>2. (c \in misled' <=> M(y)) /\ \A x \in Client \ {c} : x \in misled' <=> x \in misled
    BY <1>2, <1>3 DEF Framed
  <2>3. ~setup.editsLag => Optimistic(y, history, c \in misled') /\ Queued(y) BY <1>3, <2>2 DEF Optimistic
  <2>4. QED BY <1>1, <2>1, <2>2, <2>3, ClientQueues
<1>4. ~setup.editsLag => Optimistic(k, history, c \in misled) /\ Queued(k) BY DEF QueueInv
<1>5. CASE LET z == sendUnsentChanges(k) IN Framed(c, rebase(z, msgs), sentBy(k, z), n)
  <2> DEFINE z == sendUnsentChanges(k)
             y == rebase(z, msgs)
  <2>1. Framed(c, y, sentBy(k, z), n) BY <1>5
  <2>2. ASSUME ~setup.editsLag PROVE Optimistic(y, history, M(y)) /\ Queued(y)
    <3>1. /\ z \in Tabs /\ z.status = "connected" /\ Optimistic(z, history, c \in misled) /\ NetworkDiff(z.nextDiff) = NoOps
          /\ z = k \/ z.pending # <<>>
      <4> HIDE DEF k
      <4>1. QED BY <1>1, <1>2, <1>4, <2>2, SendQueues
    <3>2. Queued(z)
      <4>1. CASE z = k BY <1>4, <2>2, <4>1
      <4>2. CASE z.pending # <<>>
        <5> HIDE DEF z
        <5>1. QED BY <3>1, <4>2, SettledQueued
      <4>3. QED BY <3>1, <4>1, <4>2
    <3>3. CASE n = 0
      <4>1. msgs = <<>> BY <3>3
      <4>2. y = z BY <4>1 DEF rebase
      <4> HIDE DEF y, z
      <4>3. M(y) <=> c \in misled BY <3>3
      <4>4. QED BY <3>1, <3>2, <4>2, <4>3 DEF Optimistic
    <3>4. CASE n # 0
      <4>1. n \in 1 .. Len(q) BY <1>2, <3>4
      <4>2. PICK up : Kept(z, up)
        <5> HIDE DEF k, q
        <5>1. Kept(z, c2s[c] \o sentBy(k, z)) BY <1>2, SendKeeps
        <5>2. QED BY <5>1
      <4> HIDE DEF z, q
      <4>3. /\ y \in Tabs /\ Optimistic(y, history, M(y))
            /\ y.status = "connected" => /\ y.nextDiff = z.nextDiff
                                         /\ y.pending = <<>> /\ NetworkDiff(z.nextDiff) = NoOps => y.speculative = NoDiff
        <5> DEFINE g == c \in cheated
                   w == c \in misled
        <5>1. /\ y \in Tabs /\ Optimistic(y, history, w \/ (g /\ y.status # "offline"))
              /\ y.status = "connected" => /\ y.nextDiff = z.nextDiff
                                           /\ y.pending = <<>> /\ NetworkDiff(z.nextDiff) = NoOps => y.speculative = NoDiff
          <6>1. Line(z, up, late[c], q, session[c], g, history, d, lastDocumentClock) /\ Optimistic(z, history, w)
            BY <3>1, <4>2
          <6> HIDE DEF g, w
          <6>2. QED BY <1>1, <1>2, <3>1, <4>1, <6>1, RebaseQueues
        <5> DEFINE e == w \/ (g /\ y.status # "offline")
                   f == M(y)
        <5>2. (e <=> f) /\ Optimistic(y, history, e) BY <3>4, <5>1
        <5> HIDE DEF e, f, y
        <5>3. Optimistic(y, history, f) BY <5>2 DEF Optimistic
        <5>4. QED BY <5>1, <5>3 DEF f
      <4> HIDE DEF y
      <4>4. CASE y.status = "connected" BY <3>1, <4>3, <4>4, SettledQueued
      <4>5. CASE y.status # "connected" BY <4>3, <4>5 DEF Queued
      <4>6. QED BY <4>3, <4>4, <4>5
    <3>5. QED BY <3>3, <3>4
  <2> HIDE DEF y
  <2>3. QED BY <1>3, <2>1, <2>2
<1>6. CASE LET z == rebase(k, msgs) IN Framed(c, sendUnsentChanges(z), sentBy(z, sendUnsentChanges(z)), n)
  <2> DEFINE z == rebase(k, msgs)
             y == sendUnsentChanges(z)
  <2>1. Framed(c, y, sentBy(z, y), n) BY <1>6
  <2>2. ASSUME ~setup.editsLag PROVE Optimistic(y, history, M(y)) /\ Queued(y)
    <3>1. CASE n = 0
      <4>1. z = k
        <5>1. msgs = <<>> BY <3>1
        <5>2. QED BY <5>1 DEF rebase
      <4> HIDE DEF z, k
      <4>2. /\ y \in Tabs /\ Optimistic(y, history, c \in misled) /\ NetworkDiff(y.nextDiff) = NoOps
            /\ y = k \/ y.pending # <<>>
        BY <1>1, <1>2, <1>4, <2>2, <4>1, SendQueues
      <4> HIDE DEF y
      <4>3. y = k => Queued(y) BY <1>4, <2>2
      <4>4. y.pending # <<>> => Queued(y) BY <4>2, SettledQueued
      <4>5. M(y) <=> c \in misled BY <3>1
      <4>6. Optimistic(y, history, M(y)) BY <4>2, <4>5 DEF Optimistic
      <4>7. QED BY <4>2, <4>3, <4>4, <4>6
    <3>2. CASE n # 0
      <4>1. n \in 1 .. Len(q) BY <1>2, <3>2
      <4>2. /\ z \in Tabs /\ Optimistic(z, history, M(z))
            /\ z.status = "connected" => /\ z.nextDiff = k.nextDiff
                                         /\ z.pending = <<>> /\ NetworkDiff(k.nextDiff) = NoOps => z.speculative = NoDiff
        <5> DEFINE g == c \in cheated
                   w == c \in misled
        <5>1. /\ z \in Tabs /\ Optimistic(z, history, w \/ (g /\ z.status # "offline"))
              /\ z.status = "connected" => /\ z.nextDiff = k.nextDiff
                                           /\ z.pending = <<>> /\ NetworkDiff(k.nextDiff) = NoOps => z.speculative = NoDiff
          <6>1. Line(k, c2s[c], late[c], q, session[c], g, history, d, lastDocumentClock) /\ Optimistic(k, history, w)
            BY <1>2, <1>4, <2>2
          <6> HIDE DEF k, q, g, w
          <6>2. QED BY <1>1, <1>2, <4>1, <6>1, RebaseQueues
        <5> DEFINE e == w \/ (g /\ z.status # "offline")
                   f == M(z)
        <5>2. (e <=> f) /\ Optimistic(z, history, e) BY <3>2, <5>1
        <5> HIDE DEF e, f, z
        <5>3. Optimistic(z, history, f) BY <5>2 DEF Optimistic
        <5>4. QED BY <5>1, <5>3 DEF f
      <4> HIDE DEF z
      <4>3. CASE z.status = "connected"
        <5> DEFINE w == M(z)
        <5>0. Optimistic(z, history, w) BY <4>2
        <5>1. /\ y \in Tabs /\ y.status = "connected" /\ Optimistic(y, history, w) /\ NetworkDiff(y.nextDiff) = NoOps
              /\ y = z \/ y.pending # <<>>
          <6> HIDE DEF w
          <6>1. QED BY <4>2, <4>3, <5>0, SendQueues
        <5> HIDE DEF y
        <5>2. y.pending = <<>> => y.speculative = NoDiff BY <4>2, <4>3, <5>1
        <5>3. Optimistic(y, history, M(y)) BY <4>3, <5>1 DEF Optimistic
        <5>4. QED BY <5>1, <5>2, <5>3, SettledQueued
      <4>4. CASE z.status # "connected"
        <5>1. y = z BY <4>4 DEF sendUnsentChanges
        <5>2. QED BY <4>2, <4>4, <5>1 DEF Queued
      <4>5. QED BY <4>3, <4>4
    <3>3. QED BY <3>1, <3>2
  <2> HIDE DEF y
  <2>3. QED BY <1>3, <2>1, <2>2
<1>7. QED BY <1>1, <1>5, <1>6

\* With edits reported at once there is no such frame.
LEMMA FlushHistoryKeepsQueues ==
  ASSUME LineInv, QueueInv, NEW c \in Client, FlushHistory(c) PROVE QueueInv'
<1>1. setup.editsLag
  <2>1. tab[c].unflushed # <<>> BY DEF FlushHistory
  <2>2. QED BY <2>1 DEF QueueInv, Optimistic
<1>2. setup' = setup BY DEF FlushHistory, bounds
<1>3. QED BY <1>1, <1>2 DEF QueueInv

-----------------------------------------------------------------------------
(* The invariant holds, and what it says.                                  *)

\* A client's steps.
LEMMA ClientKeeps ==
  ASSUME SyncInv, NEW c \in Client, Edit(c) \/ Drop(c) \/ TabStep(c) PROVE SyncInv'
<1>1. LineInv /\ QueueInv BY DEF SyncInv
<1>2. CASE Edit(c) BY <1>1, <1>2, EditKeepsLines, EditKeepsQueues DEF SyncInv
<1>3. CASE Drop(c) \/ SeeClose(c) BY <1>1, <1>3, DropKeepsLines, LostKeepsQueues DEF SyncInv
<1>4. CASE Reconnect(c) BY <1>1, <1>4, ReconnectKeepsLines, LostKeepsQueues DEF SyncInv
<1>5. CASE FlushHistory(c) BY <1>1, <1>5, FlushHistoryKeepsLines, FlushHistoryKeepsQueues DEF SyncInv
<1>6. CASE ReadHead(c) BY <1>1, <1>6, ReadHeadKeepsLines, ReadHeadKeepsQueues DEF SyncInv
<1>7. CASE \E n \in 0 .. Len(onWire(c)) : Flush(c, n)
  BY <1>1, <1>7, FlushKeepsLines, FlushKeepsQueues DEF SyncInv
<1>8. QED BY <1>2, <1>3, <1>4, <1>5, <1>6, <1>7 DEF TabStep

\* The room's, the host's and the storage's.
LEMMA RoomKeeps ==
  ASSUME SyncInv,
         \/ \E c \in Client : RoomStep(c)
         \/ HostTransaction \/ broadcastExternalStorageChanges \/ Prune
  PROVE  SyncInv'
<1>1. LineInv /\ QueueInv BY DEF SyncInv
<1>2. LineInv' /\ Onward
  BY <1>1, ReadKeepsLines, FlushMessagesKeepsLines, HostKeepsLines, BroadcastKeepsLines DEF RoomStep
<1>3. tab' = tab /\ setup' = setup /\ misled' = misled
  BY DEF RoomStep, ReadSocket, ReadReplacedSocket, FlushDataMessages, HostTransaction,
         broadcastExternalStorageChanges, Prune, bounds, netVars
<1>4. QED BY <1>1, <1>2, <1>3, RoomQueues DEF SyncInv

\* The invariant is inductive, ...
LEMMA SyncInvStep == SyncInv /\ [Next]_vars => SyncInv'
<1>1. SUFFICES ASSUME SyncInv, [Next]_vars PROVE SyncInv'
  OBVIOUS
<1>2. CASE \E c \in Client : Edit(c) \/ Drop(c) \/ TabStep(c) BY <1>1, <1>2, ClientKeeps
<1>3. CASE \/ \E c \in Client : RoomStep(c)
           \/ HostTransaction \/ broadcastExternalStorageChanges \/ Prune
  BY <1>1, <1>3, RoomKeeps
<1>4. CASE UNCHANGED vars
  <2>1. UNCHANGED <<storageVars, tab, session, lastDocumentClock, netVars>> /\ setup' = setup /\ misled' = misled
    BY <1>4 DEF vars, serverVars, bounds, netVars
  <2>2. LineInv /\ QueueInv /\ Inv /\ lastDocumentClock \in 0 .. documentClock BY <1>1 DEF SyncInv, LineInv
  <2>3. Onward BY <2>1, <2>2, Unmoved
  <2>4. LineInv' BY <2>1, <2>2, <2>3, StorageKeepsLines
  <2>5. QueueInv' BY <2>1, <2>2, <2>3, RoomQueues
  <2>6. QED BY <2>4, <2>5 DEF SyncInv
<1>5. QED BY <1>1, <1>2, <1>3, <1>4 DEF Next

\* ... so it always holds.
LEMMA SyncInvariant == Spec => []SyncInv
BY InitSync, SyncInvStep, PTL DEF Spec

\* Types, and what a tab keeps: its unanswered pushes stay in the order they
\* were numbered, whatever is dropped, replaced or answered, and a tab that is
\* not connected has nothing queued and nothing to receive (resetConnection).
THEOREM SyncTypes == Spec => []syncTypeOK
<1>1. ASSUME SyncInv PROVE syncTypeOK
  <2>1. LineInv /\ Inv /\ lastDocumentClock \in 0 .. documentClock /\ session \in Sessions
    BY <1>1 DEF SyncInv, LineInv
  <2>2. storageTypeOK /\ documentClock \in Nat BY <2>1 DEF Inv, storageTypeOK
  <2>3. ASSUME NEW c \in Client
        PROVE  LET k == tab[c] IN
               /\ k.status \in {"offline", "connecting", "connected"}
               /\ k.store \in [RecordId -> Value \cup {Absent}]
               /\ k.lastServerClock \in -1 .. documentClock
               /\ \A i \in 1 .. Len(k.pending) :
                    /\ k.pending[i].clientClock < k.clientClock
                    /\ i > 1 => k.pending[i - 1].clientClock < k.pending[i].clientClock
               /\ k.status # "connected" => k.pending = <<>> /\ k.nextDiff = NoDiff
               /\ k.status = "offline" => c2s[c] = <<>> /\ s2c[c] = <<>>
    <3> DEFINE k == tab[c]
    <3>1. Line(k, c2s[c], late[c], s2c[c], session[c], c \in cheated, history, documentClock, lastDocumentClock)
      BY <2>1 DEF LineInv, LineOf
    <3>2. TabOK(k) /\ (k.status = "offline" => c2s[c] = <<>> /\ s2c[c] = <<>>) BY <3>1 DEF Line
    <3>3. k \in Tabs /\ k.lastServerClock \in -1 .. documentClock BY <2>1, HeardIs
    <3> HIDE DEF k
    <3>4. k.status \in {"offline", "connecting", "connected"} /\ k.store \in [RecordId -> Value \cup {Absent}]
      BY <3>3 DEF Tabs, Contents
    <3>5. k.pending \in Seq(Pushes) BY <3>3 DEF Tabs
    <3>6. \A i \in 1 .. Len(k.pending) : i > 1 => i \in 2 .. Len(k.pending) BY <3>5
    <3>7. QED BY <3>2, <3>3, <3>4, <3>6 DEF TabOK, k
  <2>4. Held BY <2>1 DEF LineInv
  <2>5. QED BY <2>1, <2>2, <2>3, <2>4 DEF syncTypeOK, Sessions, Held
<1>2. QED BY SyncInvariant, <1>1, PTL

\* "If we take this diff, reverse it, and apply that to the store, our store
\* will match exactly the most recent state of the server that we know about",
\* when the store's history is reported at once: the comment on
\* speculativeChanges.  It is said of every tab that has not read on past messages
\* the room lost when a late connect request replaced its session
\* (TLSyncRoom.ts:1095-1110).  When reports lag, TLC shows that it does not hold.
THEOREM SpeculationCanBeUndone == Spec => [](~setup.editsLag => SpeculativeUndone)
<1>1. ASSUME SyncInv, ~setup.editsLag PROVE SpeculativeUndone
  <2>1. SUFFICES ASSUME NEW c \in Client \ misled, tab[c].lastServerClock >= 0
                 PROVE  Undo(tab[c].store, tab[c].speculative) = history[tab[c].lastServerClock]
    BY DEF SpeculativeUndone
  <2>2. LineInv /\ Optimistic(tab[c], history, c \in misled) BY <1>1 DEF SyncInv, QueueInv
  <2>3. /\ tab[c].store \in Contents /\ tab[c].speculative \in Recorded
        /\ history[tab[c].lastServerClock] \in Contents
    BY <2>1, <2>2, HeardIs
  <2>4. Leads(history[tab[c].lastServerClock], tab[c].store, tab[c].speculative)
    BY <2>1, <2>2 DEF Optimistic
  <2>5. QED BY <2>3, <2>4, LeadsWhole
<1>2. QED BY SyncInvariant, <1>1, PTL

\* A connected client that has heard the answers to all its pushes shows
\* nothing ahead of the server that is not in its next push: no edit is left
\* on the screen and never sent, as long as edits do not lag.
THEOREM OptimisticIsQueued == Spec => []OptimisticMeansQueued
<1>1. ASSUME SyncInv PROVE OptimisticMeansQueued
  <2>1. SUFFICES ASSUME NEW c \in Client, NEW id \in RecordId, ~setup.editsLag, tab[c].status = "connected",
                        NetworkDiff(tab[c].speculative)[id] # Unchanged
                 PROVE  tab[c].nextDiff[id] # Same \/ tab[c].pending # <<>>
    BY DEF OptimisticMeansQueued
  <2>2. LineInv /\ Queued(tab[c]) BY <1>1, <2>1 DEF SyncInv, QueueInv
  <2>3. tab[c].speculative[id] \in Entries BY <2>2, HeardIs DEF Recorded
  <2>4. OpFor(tab[c].speculative[id]) # Unchanged BY <2>1, DiffsAt
  <2>5. ~Noop(tab[c].speculative[id]) BY <2>3, <2>4, OpForTyped
  <2>6. QED BY <2>1, <2>2, <2>5 DEF Queued, QueuedAt
<1>2. QED BY SyncInvariant, <1>1, PTL

\* A connected client with nothing to send and nothing to receive shows exactly
\* what is stored, however many edits, rejections, reconnects and other clients'
\* changes came before, as long as edits do not lag and the room has not thrown
\* away what it had queued for the tab (the outstandingDataMessages of a session
\* that a late connect request replaces).
THEOREM IdleClientsAreSynced == Spec => []IdleMeansSynced
<1>1. ASSUME SyncInv PROVE IdleMeansSynced
  <2>1. SUFFICES ASSUME NEW c \in Client \ (cheated \cup misled), ~setup.editsLag, Idle(c), tab[c].nextDiff = NoDiff,
                        lastDocumentClock = documentClock
                 PROVE  tab[c].store = documents
    BY DEF IdleMeansSynced
  <2> DEFINE k == tab[c]
             now == history[documentClock]
  <2>2. LineInv /\ Inv /\ Queued(k) /\ Optimistic(k, history, c \in misled) BY <1>1, <2>1 DEF SyncInv, QueueInv, LineInv
  <2>3. /\ k.status = "connected" /\ session[c] = "connected" /\ s2c[c] = <<>> /\ k.pending = <<>>
    BY <2>1 DEF Idle
  <2>4. Line(k, c2s[c], late[c], s2c[c], session[c], c \in cheated, history, documentClock, lastDocumentClock)
    BY <2>2 DEF LineInv, LineOf
  <2>5. k.lastServerClock = documentClock BY <2>1, <2>3, <2>4 DEF Line, EndAt
  <2>6. k.store \in Contents /\ documents \in Contents /\ now = documents
    BY <2>2, HeardIs DEF Inv, storageTypeOK
  <2>7. Leads(now, k.store, k.speculative)
    <3>1. documentClock \in Nat BY <2>2, HeardIs
    <3>2. QED BY <2>2, <2>5, <3>1 DEF Optimistic
  <2>8. ASSUME NEW id \in RecordId PROVE k.store[id] = documents[id]
    <3>1. now[id] \in Maybe /\ k.store[id] \in Maybe /\ LeadsAt(now[id], k.store[id], k.speculative[id])
      BY <2>6, <2>7 DEF Contents, Maybe, Leads
    <3>2. QueuedAt(k.speculative[id], k.nextDiff[id], k.store[id], k.pending # <<>>) BY <2>2, <2>3 DEF Queued
    <3>3. k.nextDiff[id] = Same BY <2>1 DEF NoDiff
    <3>4. Noop(k.speculative[id]) BY <2>3, <3>2, <3>3 DEF QueuedAt
    <3>5. k.store[id] = now[id] BY <3>1, <3>4, LeadsThere
    <3>6. QED BY <2>6, <3>5
  <2>9. QED BY <2>6, <2>8 DEF Contents
<1>2. QED BY SyncInvariant, <1>1, PTL

-----------------------------------------------------------------------------
(* Pushes and their answers: the invariant.                                *)

\* m is the result of the push w.
Answers(m, w) == m.type = "push_result" /\ m.clientClock = w.clientClock

\* The last pushes of the queue p are those the server has yet to read.
Sent(p, up) == Len(up) <= Len(p) /\ \A i \in 1 .. Len(up) : up[i] = p[Len(p) - Len(up) + i]

\* The first n pushes of the queue p, and no others, have a result among the
\* messages q: one each, and in order.
Heard(p, n, q) ==
  /\ \A i \in 1 .. Len(p), j \in 1 .. Len(q) : Answers(q[j], p[i]) => i <= n
  /\ \A i \in 1 .. n : \E j \in 1 .. Len(q) : Answers(q[j], p[i])
  /\ \A i, l \in 1 .. Len(p), j, m \in 1 .. Len(q) : Answers(q[j], p[i]) /\ Answers(q[m], p[l]) /\ i <= l => j <= m

\* The first a pushes have their results among the first o messages, and no others.
Taken(p, a, q, o) == \A i \in 1 .. Len(p) : i <= a <=> \E j \in 1 .. o : Answers(q[j], p[i])

\* r is what is left of p without its first a elements.
Rest(r, p, a) == Len(r) = Len(p) - a /\ \A i \in 1 .. Len(r) : r[i] = p[i + a]

Matched(p, up, q) == Sent(p, up) /\ Heard(p, Len(p) - Len(up), q)

\* The order of a queue's numbers.
Increasing(p) == \A i, l \in 1 .. Len(p) : i < l => p[i].clientClock < p[l].clientClock

\* A tab's line, as far as its pushes and their results are concerned: replaced
\* sockets hold older requests and older pushes than the tab's; while it connects it
\* has sent its request at most, which is not answered before it is read; and once it
\* is connected it only pushes, and its queue matches its socket, unless it was cheated, g.
AnswerLine(k, up, lt, q, s, g) ==
  /\ k.status # "offline" => \A i \in 1 .. Len(lt) : lt[i].type = "connect" => lt[i].requestId < k.requestId
  /\ \A i \in 1 .. Len(lt), j \in 1 .. Len(k.pending) :
       lt[i].type = "push" => lt[i].clientClock < k.pending[j].clientClock
  /\ k.status = "connecting" =>
       /\ Len(up) <= 1 /\ \A i \in 1 .. Len(up) : up[i].type = "connect"
       /\ up # <<>> => \A j \in 1 .. Len(q) : q[j].type = "connect" => q[j].requestId # k.requestId
  /\ k.status = "connected" => \A i \in 1 .. Len(up) : up[i].type = "push"
  /\ ~g /\ s = "connected" /\ k.status = "connected" => Matched(k.pending, up, q)

AnswerInv == \A c \in Client : AnswerLine(tab[c], c2s[c], late[c], s2c[c], session[c], c \in cheated)

-----------------------------------------------------------------------------
(* Queues and the messages that answer them.                               *)

\* One more message that answers none of these pushes, ...
LEMMA HeardMore ==
  ASSUME NEW p, NEW n, NEW q, NEW t, NEW m, Len(p) \in Nat, Len(q) \in Nat, Heard(p, n, q),
         Len(t) = Len(q) + 1, t[Len(q) + 1] = m, \A j \in 1 .. Len(q) : t[j] = q[j],
         \A i \in 1 .. Len(p) : ~Answers(m, p[i]), n <= Len(p)
  PROVE  Heard(p, n, t)
<1>1. ASSUME NEW i \in 1 .. Len(p), NEW j \in 1 .. Len(t), Answers(t[j], p[i])
      PROVE  j \in 1 .. Len(q) /\ t[j] = q[j]
  <2>1. j # Len(q) + 1 BY <1>1
  <2>2. QED BY <2>1
<1>2. \A j \in 1 .. Len(q) : j \in 1 .. Len(t) OBVIOUS
<1>3. \A i \in 1 .. Len(p), j \in 1 .. Len(t) : Answers(t[j], p[i]) => i <= n
  BY <1>1 DEF Heard
<1>4. \A i \in 1 .. n : \E j \in 1 .. Len(t) : Answers(t[j], p[i])
  BY <1>2 DEF Heard
<1>5. \A i, l \in 1 .. Len(p), j, x \in 1 .. Len(t) : Answers(t[j], p[i]) /\ Answers(t[x], p[l]) /\ i <= l => j <= x
  BY <1>1 DEF Heard
<1>6. QED BY <1>3, <1>4, <1>5 DEF Heard

\* ... and one that answers the next.
LEMMA HeardNext ==
  ASSUME NEW p, NEW n \in Nat, NEW q, NEW t, NEW m, Len(p) \in Nat, Len(q) \in Nat, Heard(p, n, q),
         Len(t) = Len(q) + 1, t[Len(q) + 1] = m, \A j \in 1 .. Len(q) : t[j] = q[j],
         n + 1 <= Len(p), Answers(m, p[n + 1]), Increasing(p), \A i \in 1 .. Len(p) : p[i].clientClock \in Nat
  PROVE  Heard(p, n + 1, t)
<1>1. ASSUME NEW i \in 1 .. Len(p), Answers(m, p[i]) PROVE i = n + 1
  <2>1. n + 1 \in 1 .. Len(p) OBVIOUS
  <2>2. p[i].clientClock = p[n + 1].clientClock BY <1>1 DEF Answers
  <2>3. ~(i < n + 1) /\ ~(n + 1 < i) BY <2>1, <2>2 DEF Increasing
  <2>4. QED BY <2>3
<1>2. ASSUME NEW i \in 1 .. Len(p), NEW j \in 1 .. Len(t), Answers(t[j], p[i])
      PROVE  \/ j \in 1 .. Len(q) /\ Answers(q[j], p[i]) /\ i <= n
             \/ j = Len(q) + 1 /\ i = n + 1
  <2>1. CASE j = Len(q) + 1 BY <1>1, <1>2, <2>1
  <2>2. CASE j # Len(q) + 1
    <3>1. j \in 1 .. Len(q) BY <2>2
    <3>2. QED BY <1>2, <3>1 DEF Heard
  <2>3. QED BY <2>1, <2>2
<1>3. \A i \in 1 .. Len(p), j \in 1 .. Len(t) : Answers(t[j], p[i]) => i <= n + 1
  BY <1>2
<1>4. ASSUME NEW i \in 1 .. n + 1 PROVE \E j \in 1 .. Len(t) : Answers(t[j], p[i])
  <2>1. CASE i = n + 1
    <3>1. Len(q) + 1 \in 1 .. Len(t) BY <2>1
    <3>2. QED BY <2>1, <3>1
  <2>2. CASE i # n + 1
    <3>1. i \in 1 .. n BY <2>2
    <3>2. PICK j \in 1 .. Len(q) : Answers(q[j], p[i]) BY <3>1 DEF Heard
    <3>3. j \in 1 .. Len(t) OBVIOUS
    <3>4. QED BY <3>2, <3>3
  <2>3. QED BY <2>1, <2>2
<1>5. ASSUME NEW i \in 1 .. Len(p), NEW l \in 1 .. Len(p), NEW j \in 1 .. Len(t), NEW x \in 1 .. Len(t),
             Answers(t[j], p[i]), Answers(t[x], p[l]), i <= l
      PROVE  j <= x
  <2>1. \/ j \in 1 .. Len(q) /\ Answers(q[j], p[i]) /\ i <= n
        \/ j = Len(q) + 1 /\ i = n + 1
    BY <1>2, <1>5
  <2>2. \/ x \in 1 .. Len(q) /\ Answers(q[x], p[l]) /\ l <= n
        \/ x = Len(q) + 1 /\ l = n + 1
    BY <1>2, <1>5
  <2>3. CASE x = Len(q) + 1 BY <2>3
  <2>4. CASE x \in 1 .. Len(q) /\ Answers(q[x], p[l]) /\ l <= n
    <3>1. j \in 1 .. Len(q) /\ Answers(q[j], p[i]) BY <1>5, <2>1, <2>4
    <3>2. QED BY <1>5, <2>4, <3>1 DEF Heard
  <2>5. QED BY <2>2, <2>3, <2>4
<1>6. QED BY <1>3, <1>4, <1>5 DEF Heard

\* One more push, numbered after all that is answered.
LEMMA HeardSent ==
  ASSUME NEW p, NEW n \in Nat, NEW q, NEW r, NEW w, Len(p) \in Nat, Len(q) \in Nat, Heard(p, n, q), n <= Len(p),
         Len(r) = Len(p) + 1, r[Len(p) + 1] = w, \A i \in 1 .. Len(p) : r[i] = p[i],
         \A j \in 1 .. Len(q) : ~Answers(q[j], w)
  PROVE  Heard(r, n, q)
<1>1. ASSUME NEW i \in 1 .. Len(r), NEW j \in 1 .. Len(q), Answers(q[j], r[i])
      PROVE  i \in 1 .. Len(p) /\ r[i] = p[i]
  <2>1. i # Len(p) + 1 BY <1>1
  <2>2. QED BY <2>1
<1>2. \A i \in 1 .. n : i \in 1 .. Len(p) /\ r[i] = p[i] OBVIOUS
<1>3. \A i \in 1 .. Len(r), j \in 1 .. Len(q) : Answers(q[j], r[i]) => i <= n
  BY <1>1 DEF Heard
<1>4. \A i \in 1 .. n : \E j \in 1 .. Len(q) : Answers(q[j], r[i])
  BY <1>2 DEF Heard
<1>5. \A i, l \in 1 .. Len(r), j, x \in 1 .. Len(q) : Answers(q[j], r[i]) /\ Answers(q[x], r[l]) /\ i <= l => j <= x
  BY <1>1 DEF Heard
<1>6. QED BY <1>3, <1>4, <1>5 DEF Heard

\* The first o messages are taken, and with them the first a pushes, which they
\* are the results of.
LEMMA HeardRest ==
  ASSUME NEW p, NEW n \in Nat, NEW q, Len(p) \in Nat, Len(q) \in Nat, Heard(p, n, q), n <= Len(p),
         NEW a \in 0 .. Len(p), NEW o \in 0 .. Len(q),
         Taken(p, a, q, o), NEW r, Rest(r, p, a), NEW t, Rest(t, q, o)
  PROVE  a <= n /\ Heard(r, n - a, t)
<1>1. a <= n
  <2>1. CASE a = 0 BY <2>1
  <2>2. CASE a # 0
    <3>1. a \in 1 .. Len(p) /\ a <= a BY <2>2
    <3>2. PICK j \in 1 .. o : Answers(q[j], p[a]) BY <3>1 DEF Taken
    <3>3. j \in 1 .. Len(q) OBVIOUS
    <3>4. QED BY <3>1, <3>2, <3>3 DEF Heard
  <2>3. QED BY <2>1, <2>2
<1>2. \A i \in 1 .. Len(r) : i + a \in 1 .. Len(p) /\ r[i] = p[i + a] BY DEF Rest
<1>3. \A j \in 1 .. Len(t) : j + o \in 1 .. Len(q) /\ t[j] = q[j + o] BY DEF Rest
<1>4. \A i \in 1 .. Len(r), j \in 1 .. Len(t) : Answers(t[j], r[i]) => i <= n - a
  <2>1. SUFFICES ASSUME NEW i \in 1 .. Len(r), NEW j \in 1 .. Len(t), Answers(t[j], r[i]) PROVE i <= n - a
    OBVIOUS
  <2>2. i + a <= n BY <1>2, <1>3, <2>1 DEF Heard
  <2>3. QED BY <2>2
<1>5. ASSUME NEW i \in 1 .. n - a PROVE \E j \in 1 .. Len(t) : Answers(t[j], r[i])
  <2>1. i + a \in 1 .. n /\ i \in 1 .. Len(r) /\ i + a \in 1 .. Len(p) /\ ~(i + a <= a) BY <1>1 DEF Rest
  <2>2. PICK j \in 1 .. Len(q) : Answers(q[j], p[i + a]) BY <2>1 DEF Heard
  <2>3. j \notin 1 .. o BY <2>1, <2>2 DEF Taken
  <2>4. j - o \in 1 .. Len(t) /\ (j - o) + o = j BY <2>3 DEF Rest
  <2>5. t[j - o] = q[j] BY <1>3, <2>4
  <2>6. QED BY <1>2, <2>1, <2>2, <2>4, <2>5
<1>6. ASSUME NEW i \in 1 .. Len(r), NEW l \in 1 .. Len(r), NEW j \in 1 .. Len(t), NEW x \in 1 .. Len(t),
             Answers(t[j], r[i]), Answers(t[x], r[l]), i <= l
      PROVE  j <= x
  <2> DEFINE I == i + a
             L == l + a
             J == j + o
             X == x + o
  <2>1. I \in 1 .. Len(p) /\ L \in 1 .. Len(p) /\ I <= L /\ J \in 1 .. Len(q) /\ X \in 1 .. Len(q)
    BY <1>2, <1>3, <1>6
  <2>2. Answers(q[J], p[I]) /\ Answers(q[X], p[L]) BY <1>2, <1>3, <1>6
  <2>3. J <= X
    <3> HIDE DEF I, J, L, X
    <3>1. QED BY <2>1, <2>2 DEF Heard
  <2>4. QED BY <2>3
<1>7. QED BY <1>1, <1>4, <1>5, <1>6 DEF Heard

LEMMA PushesIncrease ==
  ASSUME NEW k, TabOK(k)
  PROVE  /\ k.pending \in Seq(Pushes) /\ Len(k.pending) \in Nat
         /\ \A i \in 1 .. Len(k.pending) : k.pending[i].clientClock \in Nat
         /\ Increasing(k.pending)
<1> DEFINE p == k.pending
           n == Len(p)
           G == {d \in 0 .. n : d > 0 => \A i \in 1 .. n : i + d <= n => p[i].clientClock < p[i + d].clientClock}
<1>1. p \in Seq(Pushes) /\ n \in Nat /\ \A i \in 1 .. n : p[i].clientClock \in Nat
  <2>1. k \in Tabs BY DEF TabOK
  <2>2. p \in Seq(Pushes) BY <2>1 DEF Tabs
  <2>3. \A i \in 1 .. n : p[i] \in Pushes BY <2>2
  <2>4. QED BY <2>2, <2>3 DEF Pushes
<1>2. \A i \in 2 .. n : p[i - 1].clientClock < p[i].clientClock BY DEF TabOK
<1> HIDE DEF p
<1>3. 0 \in G BY <1>1
<1>4. ASSUME NEW d \in 1 .. n, d - 1 \in G PROVE d \in G
  <2>1. SUFFICES ASSUME NEW i \in 1 .. n, i + d <= n PROVE p[i].clientClock < p[i + d].clientClock
    BY <1>1
  <2>2. i + d \in 2 .. n /\ i + d - 1 \in 1 .. n /\ i + d \in 1 .. n BY <1>1, <2>1
  <2>3. p[i + d - 1].clientClock < p[i + d].clientClock BY <1>2, <2>2
  <2>4. CASE d = 1 BY <2>3, <2>4
  <2>5. CASE d # 1
    <3>1. d - 1 > 0 /\ i + (d - 1) <= n /\ i + (d - 1) = i + d - 1 BY <1>1, <2>1, <2>5
    <3>2. p[i].clientClock < p[i + (d - 1)].clientClock BY <1>4, <3>1
    <3>3. QED BY <1>1, <2>2, <2>3, <3>1, <3>2
  <2>6. QED BY <2>4, <2>5
<1>5. \A d \in 0 .. n : d \in G
  <2> HIDE DEF G
  <2>1. QED BY <1>1, <1>3, <1>4, CountingUp
<1>6. ASSUME NEW i \in 1 .. n, NEW l \in 1 .. n, i < l PROVE p[i].clientClock < p[l].clientClock
  <2>1. l - i \in 0 .. n /\ l - i > 0 /\ i + (l - i) = l /\ l <= n BY <1>1, <1>6
  <2>2. l - i \in G BY <1>5, <2>1
  <2>3. QED BY <2>1, <2>2
<1>7. QED BY <1>1, <1>6 DEF p, Increasing

-----------------------------------------------------------------------------
(* What the room says when it reads a message.                             *)

\* m is what the room sends in reply to msg.
RepliesTo(m, msg) ==
  \/ msg.type = "push" /\ Answers(m, msg)
  \/ msg.type = "connect" /\ m.type = "connect" /\ m.requestId = msg.requestId

\* t is q, or q and the news.
Updated(q, t) == t = q \/ \E m \in Downs : m.type = "patch" /\ t = Append(q, m)

\* t is the beginning of q, or of q and the news.
Shortened(q, t) == \E a \in Seq(Downs) : Updated(q, a) /\ \E j \in 0 .. Len(a) : t = SubSeq(a, 1, j)

\* What x gets to hear and becomes of its session when the room reads msg from c, t
\* being q and the news, or what is left of them where a connected tab is cheated.
SaidTo(c, msg, x, q, t, r, s, s2) ==
  /\ x \in cheated => x \in cheated'
  /\ \/ Updated(q, t)
     \/ Shortened(q, t) /\ (tab[x].status = "connected" => x \in cheated')
  /\ \/ r = t /\ (x = c /\ msg.type = "push" => ~(s2 = "connected" /\ tab[x].status # "offline"))
     \/ x # c /\ Updated(t, r)
     \/ x = c /\ \E m \in Downs : RepliesTo(m, msg) /\ r = Append(t, m)
  /\ \/ s2 = s \/ s2 = "none"
     \/ x = c /\ msg.type = "connect" /\ s # "none"
  /\ x = c /\ msg.type = "close" => s2 = "none"

\* The news, for those who get it.
LEMMA NewsUpdates ==
  ASSUME Inv, lastDocumentClock \in 0 .. documentClock, ~mustReconnect, NEW q \in Seq(Downs)
  PROVE  Updated(q, q \o news) /\ q \o news \in Seq(Downs)
<1>1. CASE news = <<>>
  <2>1. q \o <<>> = q BY ConcatEmptySeq
  <2>2. QED BY <1>1, <2>1 DEF Updated
<1>2. CASE \E m \in Downs : news = <<m>> /\ m.type = "patch"
  <2>1. PICK m \in Downs : news = <<m>> /\ m.type = "patch" BY <1>2
  <2>2. q \o <<m>> = Append(q, m) /\ Append(q, m) \in Seq(Downs) BY AppendProperties
  <2>3. QED BY <2>1, <2>2 DEF Updated
<1>3. QED BY <1>1, <1>2, NewsIs

\* When the room looks at the storage, ...
LEMMA CatchUpSays ==
  ASSUME Inv, lastDocumentClock \in 0 .. documentClock, NEW x \in Client, s2c[x] \in Seq(Downs),
         catchUp, broadcast(nothing)
  PROVE  Updated(s2c[x], s2c'[x]) /\ session'[x] \in {session[x], "none"} /\ cheated' = cheated
<1> DEFINE q == s2c[x]
<1>1. /\ session'[x] = IF mustReconnect THEN "none" ELSE session[x]
      /\ s2c'[x] = IF hears(x) THEN q \o news \o <<>> ELSE q
      /\ cheated' = cheated
  BY DEF catchUp, broadcast, nothing
<1>2. CASE hears(x)
  <2>1. ~mustReconnect BY <1>2 DEF hears, Connected
  <2>2. Updated(q, q \o news) /\ q \o news \in Seq(Downs)
    <3> HIDE DEF q
    <3>1. QED BY <2>1, NewsUpdates DEF q
  <2>3. (q \o news) \o <<>> = q \o news BY <2>2, ConcatEmptySeq
  <2>4. QED BY <1>1, <1>2, <2>2, <2>3
<1>3. CASE ~hears(x)
  BY <1>1, <1>3 DEF Updated
<1>4. QED BY <1>2, <1>3

\* ... and when it handles a connect request ...
LEMMA ConnectSays ==
  ASSUME Inv, Held, lastDocumentClock \in 0 .. documentClock, NEW c \in Client, NEW msg \in UpSet(tab[c], documentClock),
         msg.type = "connect", session[c] # "none", session \in Sessions, handleConnect(c, msg), misled' = misled,
         NEW x \in Client, TabOK(tab[c]), \A z \in Client : s2c[z] \in Seq(Downs)
  PROVE  \E t \in Seq(Downs) : SaidTo(c, msg, x, s2c[x], t, s2c'[x], session[x], session'[x])
<1> DEFINE k == tab[x]
           q == s2c[x]
           s == session[x]
           r == ReplyTo(msg)
           Said(t) == SaidTo(c, msg, x, q, t, s2c'[x], s, session'[x])
<1>0. q \in Seq(Downs) OBVIOUS
<1>1. msg.type # "push" /\ msg.type # "close" OBVIOUS
<1>2. CASE mustReconnect
  <2>1. session'[x] = "none" /\ s2c' = s2c /\ cheated' = cheated BY <1>2 DEF handleConnect, catchUp, outbox
  <2>2. Said(q) BY <1>1, <2>1 DEF SaidTo, Updated
  <2>3. QED BY <1>0, <2>2
<1>3. CASE ~mustReconnect
  <2> DEFINE a == Told(x)
  <2>1. /\ session' = [session EXCEPT ![c] = "connected"]
        /\ x # c => s2c'[x] = a /\ (x \in cheated' <=> x \in cheated)
        /\ x = c => /\ x \in cheated => x \in cheated'
                    /\ k.status = "offline" => s2c'[x] = q
                    /\ k.status # "offline" => \E j \in 0 .. Len(a) :
                         s2c'[x] = Append(SubSeq(a, 1, j), r) /\ (j < Len(a) /\ answered(x) => x \in cheated')
    <3>1. news \in Seq(Downs) BY <1>3, NewsTyped
    <3>2. DOMAIN session = Client BY DEF Sessions
    <3>3. QED BY <1>3, <3>1, <3>2, ConnectIs
  <2>2. x # c => session'[x] = s BY <2>1
  <2>3. r \in Downs /\ RepliesTo(r, msg)
    <3>1. r \in Downs /\ r.type = "connect" BY ReplyIs DEF ReplyTo
    <3>2. r.requestId = msg.requestId BY DEF ConnectReply, ReplyTo
    <3>3. QED BY <3>1, <3>2 DEF RepliesTo
  <2>4. Updated(q, a) /\ a \in Seq(Downs)
    <3>1. CASE hears(x)
      <4>1. a = q \o news BY <3>1 DEF Told
      <4> HIDE DEF q, a
      <4>2. QED BY <1>0, <1>3, <4>1, NewsUpdates
    <3>2. CASE ~hears(x) BY <1>0, <3>2 DEF Told, Updated
    <3>3. QED BY <3>1, <3>2
  <2> HIDE DEF a, r
  <2>5. CASE x # c
    <3>1. s2c'[x] = a /\ (x \in cheated => x \in cheated') /\ session'[x] = s /\ Updated(q, a) BY <2>1, <2>2, <2>4, <2>5
    <3>2. Said(a) BY <2>5, <3>1 DEF SaidTo
    <3>3. QED BY <2>4, <3>2
  <2>6. CASE x = c /\ k.status = "offline"
    <3>1. Said(q) BY <1>1, <2>1, <2>6 DEF SaidTo, Updated
    <3>2. QED BY <1>0, <3>1
  <2>7. CASE x = c /\ k.status # "offline"
    <3>1. PICK j \in 0 .. Len(a) : s2c'[x] = Append(SubSeq(a, 1, j), r) /\ (j < Len(a) /\ answered(x) => x \in cheated')
      BY <2>1, <2>7
    <3> DEFINE t == SubSeq(a, 1, j)
    <3>2. t \in Seq(Downs) /\ (j = Len(a) => t = a) /\ j \in Nat /\ Len(a) \in Nat BY <2>4
    <3>3. Shortened(q, t) BY <2>4 DEF Shortened
    <3>4. k.status = "connected" => answered(x) BY DEF answered
    <3>5. Updated(q, t) \/ (Shortened(q, t) /\ (k.status = "connected" => x \in cheated'))
      <4>1. CASE j = Len(a) BY <2>4, <3>2, <4>1
      <4>2. CASE j # Len(a)
        <5>1. j < Len(a) BY <3>2, <4>2
        <5>2. QED BY <3>1, <3>3, <3>4, <5>1
      <4>3. QED BY <4>1, <4>2
    <3> HIDE DEF t
    <3>6. s2c'[x] = Append(t, r) BY <3>1 DEF t
    <3>7. Said(t) BY <1>1, <2>1, <2>3, <2>7, <3>5, <3>6 DEF SaidTo
    <3>8. QED BY <3>2, <3>7
  <2>8. QED BY <2>5, <2>6, <2>7
<1>4. QED BY <1>2, <1>3

\* ... or a push.
LEMMA PushSays ==
  ASSUME Inv, lastDocumentClock \in 0 .. documentClock, NEW c \in Client, NEW msg \in UpSet(tab[c], documentClock),
         msg.type = "push", session[c] = "connected", session \in Sessions, handlePush(c, msg),
         NEW x \in Client, s2c[x] \in Seq(Downs)
  PROVE  \E t \in Seq(Downs) : SaidTo(c, msg, x, s2c[x], t, s2c'[x], session[x], session'[x])
<1> DEFINE k == tab[x]
           q == s2c[x]
           s == session[x]
           r == result(msg, Actual(msg))
           p == Patch(Actual(msg), documentClock')
           said == IF x = c THEN <<r>> ELSE IF Actual(msg) = NoOps THEN <<>> ELSE <<p>>
<1>1. msg \in Pushes BY UpsApart DEF UpSet
<1>2. /\ Advanced /\ documents' = After(msg) /\ After(msg) \in Contents
      /\ Actual(msg) \in NetDiffs /\ documents' = Apply(documents, Actual(msg))
      /\ Actual(msg) = NoOps => documents' = documents
      /\ documentClock' \in Nat
  BY <1>1, PushStores DEF Advanced
<1>3. /\ session'[x] = IF mustReconnect THEN "none" ELSE s
      /\ s2c'[x] = IF hears(x) THEN q \o news \o said ELSE q
      /\ cheated' = cheated
  BY DEF handlePush, broadcast, answer, Actual, After
<1>4. r \in Downs /\ RepliesTo(r, msg)
  <2>1. r \in Downs BY <1>2, ResultIs
  <2>2. r.type = "push_result" /\ r.clientClock = msg.clientClock BY DEF result, PushResult
  <2>3. QED BY <2>1, <2>2 DEF RepliesTo, Answers
<1>5. p \in Downs /\ p.type = "patch"
  <2> DEFINE nd == Actual(msg)
             m  == documentClock'
  <2>1. nd \in NetDiffs /\ m \in Nat BY <1>2
  <2> HIDE DEF nd, m
  <2>2. Patch(nd, m) \in Patches /\ Patch(nd, m).type = "patch" BY <2>1 DEF Patch, Patches
  <2>3. p = Patch(nd, m) BY DEF p, m, nd
  <2>4. QED BY <2>2, <2>3 DEF Downs
<1> HIDE DEF r, p
<1>6. CASE ~hears(x)
  <2>1. s2c'[x] = q BY <1>3, <1>6
  <2>2. x = c => ~(session'[x] = "connected" /\ k.status # "offline") BY <1>3, <1>6 DEF hears, Connected
  <2>3. SaidTo(c, msg, x, q, q, s2c'[x], s, session'[x]) BY <1>3, <2>1, <2>2 DEF SaidTo, Updated
  <2>4. QED BY <2>3
<1>7. CASE hears(x)
  <2> DEFINE t == q \o news
  <2>1. Updated(q, t) /\ t \in Seq(Downs)
    <3>1. ~mustReconnect BY <1>7 DEF hears, Connected
    <3> HIDE DEF q
    <3>2. QED BY <3>1, NewsUpdates DEF q
  <2>2. s2c'[x] = t \o said BY <1>3, <1>7
  <2> HIDE DEF t, said
  <2>3. CASE x = c
    <3>1. said = <<r>> BY <2>3 DEF said
    <3>2. s2c'[x] = Append(t, r) BY <1>4, <2>1, <2>2, <3>1
    <3>3. SaidTo(c, msg, x, q, t, s2c'[x], s, session'[x]) BY <1>3, <1>4, <2>1, <2>3, <3>2 DEF SaidTo
    <3>4. QED BY <2>1, <3>3
  <2>4. CASE x # c /\ Actual(msg) = NoOps
    <3>1. said = <<>> BY <2>4 DEF said
    <3>2. s2c'[x] = t BY <2>1, <2>2, <3>1, ConcatEmptySeq
    <3>3. SaidTo(c, msg, x, q, t, s2c'[x], s, session'[x]) BY <1>3, <2>1, <2>4, <3>2 DEF SaidTo
    <3>4. QED BY <2>1, <3>3
  <2>5. CASE x # c /\ Actual(msg) # NoOps
    <3>1. said = <<p>> BY <2>5 DEF said
    <3>2. s2c'[x] = Append(t, p) BY <1>5, <2>1, <2>2, <3>1
    <3>3. Updated(t, s2c'[x]) BY <1>5, <3>2 DEF Updated
    <3>4. SaidTo(c, msg, x, q, t, s2c'[x], s, session'[x]) BY <1>3, <2>1, <2>5, <3>3 DEF SaidTo
    <3>5. QED BY <2>1, <3>4
  <2>6. QED BY <2>3, <2>4, <2>5
<1>8. QED BY <1>6, <1>7

\* Whatever it reads.
LEMMA RoomSays ==
  ASSUME Inv, Held, lastDocumentClock \in 0 .. documentClock, NEW c \in Client, NEW msg \in UpSet(tab[c], documentClock),
         session \in Sessions, handleMessage(c, msg), misled' = misled, TabOK(tab[c]), NEW x \in Client,
         \A z \in Client : s2c[z] \in Seq(Downs)
  PROVE  \E t \in Seq(Downs) : SaidTo(c, msg, x, s2c[x], t, s2c'[x], session[x], session'[x])
<1> DEFINE q == s2c[x]
<1>1. CASE msg.type = "connect" /\ session[c] # "none" /\ handleConnect(c, msg) BY <1>1, ConnectSays
<1>2. CASE msg.type = "push" /\ session[c] = "connected" /\ handlePush(c, msg) BY <1>2, PushSays
<1>3. CASE msg.type = "push" /\ session[c] # "connected" /\ handlePush(c, msg)
  <2>1. session' = session /\ s2c' = s2c /\ cheated' = cheated BY <1>3 DEF handlePush, serverVars, outbox
  <2>2. SaidTo(c, msg, x, q, q, s2c'[x], session[x], session'[x]) BY <1>3, <2>1 DEF SaidTo, Updated
  <2>3. QED BY <2>2
<1>4. CASE msg.type = "connect" /\ UNCHANGED <<serverVars, outbox>>
  <2>1. session' = session /\ s2c' = s2c /\ cheated' = cheated BY <1>4 DEF serverVars, outbox
  <2>2. SaidTo(c, msg, x, q, q, s2c'[x], session[x], session'[x]) BY <1>4, <2>1 DEF SaidTo, Updated
  <2>3. QED BY <2>2
<1>5. CASE msg.type = "connect" /\ catchUp /\ broadcast(nothing)
  <2>1. Updated(q, s2c'[x]) /\ session'[x] \in {session[x], "none"} /\ cheated' = cheated BY <1>5, CatchUpSays
  <2>2. s2c'[x] \in Seq(Downs) BY <2>1, AppendProperties DEF Updated
  <2>3. SaidTo(c, msg, x, q, s2c'[x], s2c'[x], session[x], session'[x]) BY <1>5, <2>1 DEF SaidTo
  <2>4. QED BY <2>2, <2>3
<1>6. CASE msg.type = "close" /\ handleClose(c)
  <2>1. s2c' = s2c /\ cheated' = cheated /\ session' = [session EXCEPT ![c] = "none"] BY <1>6 DEF handleClose, outbox
  <2>2. session'[x] = IF x = c THEN "none" ELSE session[x] BY <2>1 DEF Sessions
  <2>3. SaidTo(c, msg, x, q, q, s2c'[x], session[x], session'[x]) BY <1>6, <2>1, <2>2 DEF SaidTo, Updated
  <2>4. QED BY <2>3
<1>7. QED BY <1>1, <1>2, <1>3, <1>4, <1>5, <1>6 DEF handleMessage

-----------------------------------------------------------------------------
(* What a tab, and what the room, does to a queue.                         *)

\* A queue's messages, one more.
LEMMA MatchedMore ==
  ASSUME NEW p, NEW up, NEW q, NEW m, p \in Seq(Pushes), up \in Seq(Ups), q \in Seq(Downs), m \in Downs,
         Matched(p, up, q), \A i \in 1 .. Len(p) : ~Answers(m, p[i])
  PROVE  Matched(p, up, Append(q, m))
<1> DEFINE t == Append(q, m)
           n == Len(p) - Len(up)
<1>1. /\ Len(p) \in Nat /\ Len(up) \in Nat /\ Len(q) \in Nat /\ Len(t) = Len(q) + 1 /\ t[Len(q) + 1] = m
      /\ \A j \in 1 .. Len(q) : t[j] = q[j]
  BY AppendProperties
<1>2. n <= Len(p) /\ Heard(p, n, q) BY <1>1 DEF Matched
<1> HIDE DEF t, n
<1>3. Heard(p, n, t) BY <1>1, <1>2, HeardMore
<1>4. QED BY <1>3 DEF Matched, t, n

\* The room has read the next push, and sends its result.
LEMMA MatchedNext ==
  ASSUME NEW k, TabOK(k), NEW up, NEW q, NEW m, up \in Seq(Ups), q \in Seq(Downs), m \in Downs, up # <<>>,
         Matched(k.pending, up, q), Answers(m, up[1])
  PROVE  Matched(k.pending, Tail(up), Append(q, m))
<1> DEFINE p == k.pending
           t == Append(q, m)
           u == Tail(up)
           n == Len(p) - Len(up)
<1>1. /\ Len(q) \in Nat /\ Len(t) = Len(q) + 1 /\ t[Len(q) + 1] = m
      /\ \A j \in 1 .. Len(q) : t[j] = q[j]
  BY AppendProperties
<1>2. /\ p \in Seq(Pushes) /\ Len(p) \in Nat /\ Increasing(p) /\ \A i \in 1 .. Len(p) : p[i].clientClock \in Nat
  BY PushesIncrease
<1>3. Len(up) \in Nat /\ Len(up) >= 1 /\ Len(u) = Len(up) - 1 /\ \A i \in 1 .. Len(u) : u[i] = up[i + 1]
  BY TailIs
<1>4. Len(up) <= Len(p) /\ (\A i \in 1 .. Len(up) : up[i] = p[n + i]) /\ Heard(p, n, q)
  BY DEF Matched, Sent
<1> HIDE DEF p, t, u
<1>5. n \in Nat /\ n + 1 <= Len(p) /\ Len(p) - Len(u) = n + 1 /\ Len(u) <= Len(p) BY <1>2, <1>3, <1>4
<1>6. up[1] = p[n + 1]
  <2>1. 1 \in 1 .. Len(up) BY <1>3
  <2>2. QED BY <1>4, <2>1
<1> HIDE DEF n
<1>7. \A i \in 1 .. Len(u) : u[i] = p[(n + 1) + i]
  <2>1. SUFFICES ASSUME NEW i \in 1 .. Len(u) PROVE u[i] = p[(n + 1) + i]
    OBVIOUS
  <2>2. i + 1 \in 1 .. Len(up) /\ n + (i + 1) = (n + 1) + i BY <1>3, <1>5
  <2>3. up[i + 1] = p[n + (i + 1)] BY <1>4, <2>2
  <2>4. QED BY <1>3, <2>2, <2>3
<1>8. Heard(p, n + 1, t) BY <1>1, <1>2, <1>4, <1>5, <1>6, HeardNext
<1>9. Matched(p, u, t) BY <1>5, <1>7, <1>8 DEF Matched, Sent
<1>10. QED BY <1>9 DEF p, u, t

\* The tab sends another.
LEMMA MatchedSent ==
  ASSUME NEW p, NEW up, NEW q, NEW w, p \in Seq(Pushes), up \in Seq(Ups), q \in Seq(Downs), w \in Pushes,
         Matched(p, up, q), \A j \in 1 .. Len(q) : ~Answers(q[j], w)
  PROVE  Matched(Append(p, w), Append(up, w), q)
<1> DEFINE r == Append(p, w)
           u == Append(up, w)
           n == Len(p) - Len(up)
<1>0. w \in Ups BY DEF Ups
<1>1. /\ Len(p) \in Nat /\ Len(q) \in Nat /\ Len(r) = Len(p) + 1 /\ r[Len(p) + 1] = w
      /\ \A i \in 1 .. Len(p) : r[i] = p[i]
  BY AppendProperties
<1>2. /\ Len(up) \in Nat /\ Len(u) = Len(up) + 1 /\ u[Len(up) + 1] = w /\ \A i \in 1 .. Len(up) : u[i] = up[i]
  BY <1>0, AppendProperties
<1>3. Len(up) <= Len(p) /\ (\A i \in 1 .. Len(up) : up[i] = p[n + i]) /\ Heard(p, n, q)
  BY DEF Matched, Sent
<1> HIDE DEF r, u
<1>4. n \in Nat /\ n <= Len(p) /\ Len(r) - Len(u) = n /\ Len(u) <= Len(r) /\ n + Len(up) = Len(p) BY <1>1, <1>2, <1>3
<1> HIDE DEF n
<1>5. \A i \in 1 .. Len(u) : u[i] = r[n + i]
  <2>1. SUFFICES ASSUME NEW i \in 1 .. Len(u) PROVE u[i] = r[n + i]
    OBVIOUS
  <2>2. CASE i = Len(up) + 1
    <3>1. n + i = Len(p) + 1 BY <1>2, <1>4, <2>2
    <3>2. QED BY <1>1, <1>2, <2>2, <3>1
  <2>3. CASE i # Len(up) + 1
    <3>1. i \in 1 .. Len(up) /\ n + i \in 1 .. Len(p) BY <1>1, <1>2, <1>4, <2>3
    <3>2. QED BY <1>1, <1>2, <1>3, <3>1
  <2>4. QED BY <2>2, <2>3
<1>6. Heard(r, n, q) BY <1>1, <1>3, <1>4, HeardSent
<1>7. QED BY <1>4, <1>5, <1>6 DEF Matched, Sent, r, u

\* The tab has taken in the first o messages, and the pushes they are the results of.
LEMMA MatchedRest ==
  ASSUME NEW p, NEW up, NEW q, p \in Seq(Pushes), up \in Seq(Ups), q \in Seq(Downs), Matched(p, up, q),
         NEW a \in 0 .. Len(p), NEW o \in 0 .. Len(q),
         Taken(p, a, q, o), NEW r, Rest(r, p, a), NEW t, Rest(t, q, o)
  PROVE  Matched(r, up, t)
<1> DEFINE n == Len(p) - Len(up)
<1>1. Len(p) \in Nat /\ Len(q) \in Nat /\ Len(up) \in Nat OBVIOUS
<1>2. Len(up) <= Len(p) /\ (\A i \in 1 .. Len(up) : up[i] = p[n + i]) /\ Heard(p, n, q)
  BY DEF Matched, Sent
<1>3. n <= Len(p) /\ n \in Nat BY <1>1, <1>2
<1> HIDE DEF n
<1>4. a <= n /\ Heard(r, n - a, t) BY <1>1, <1>2, <1>3, HeardRest
<1>5. Len(up) <= Len(r) /\ Len(r) - Len(up) = n - a /\ Len(r) = Len(p) - a BY <1>1, <1>4 DEF n, Rest
<1>6. \A i \in 1 .. Len(up) : up[i] = r[(n - a) + i]
  <2>1. SUFFICES ASSUME NEW i \in 1 .. Len(up) PROVE up[i] = r[(n - a) + i]
    OBVIOUS
  <2>2. (n - a) + i \in 1 .. Len(r) /\ ((n - a) + i) + a = n + i BY <1>1, <1>3, <1>4, <1>5 DEF n
  <2> DEFINE l == (n - a) + i
  <2>3. l \in 1 .. Len(r) /\ l + a = n + i BY <2>2
  <2> HIDE DEF l
  <2>4. r[l] = p[n + i] BY <2>3 DEF Rest
  <2>5. QED BY <1>2, <2>4 DEF l
<1>7. QED BY <1>4, <1>5, <1>6 DEF Matched, Sent

\* A result takes the oldest push off the queue, if it is its own.
LEMMA ReceiveTakes ==
  ASSUME NEW x \in Accs, NEW m \in News, receive(x, m).ok
  PROVE  /\ x.ok
         /\ \/ m.type = "patch" /\ receive(x, m).pending = x.pending
            \/ /\ m.type = "push_result" /\ x.pending # <<>> /\ x.pending[1].clientClock = m.clientClock
               /\ receive(x, m).pending = Tail(x.pending)
<1>1. x.pending \in Seq(Pushes) /\ x.ok \in BOOLEAN BY DEF Accs
<1>2. CASE m \in Patches
  <2>1. m.type = "patch" BY <1>2 DEF Patches
  <2>2. receive(x, m) = [x EXCEPT !.at = Apply(x.at, m.diff)] BY <2>1 DEF receive
  <2>3. QED BY <2>1, <2>2 DEF Accs
<1>3. CASE m \in Results
  <2>1. m.type = "push_result" BY <1>3 DEF Results
  <2>2. CASE x.pending = <<>> \/ Head(x.pending).clientClock # m.clientClock
    <3>1. receive(x, m) = [x EXCEPT !.ok = FALSE] BY <2>1, <2>2 DEF receive
    <3>2. QED BY <3>1 DEF Accs
  <2>3. CASE ~(x.pending = <<>> \/ Head(x.pending).clientClock # m.clientClock)
    <3> DEFINE at == settled(x.at, m, Head(x.pending).diff)
               tail == Tail(x.pending)
    <3>1. receive(x, m) = [x EXCEPT !.pending = tail, !.at = at] BY <2>1, <2>3 DEF receive
    <3>2. Head(x.pending) = x.pending[1] BY <1>1, <2>3, HeadTailProperties
    <3> HIDE DEF at, tail
    <3>3. QED BY <2>1, <2>3, <3>1, <3>2 DEF Accs, tail
  <2>4. QED BY <2>2, <2>3
<1>4. QED BY <1>2, <1>3 DEF News

\* A queue that has lost a elements loses one more.
LEMMA RestTail ==
  ASSUME NEW p \in Seq(Pushes), NEW r \in Seq(Pushes), NEW a \in 0 .. Len(p), Rest(r, p, a), r # <<>>
  PROVE  a + 1 \in 0 .. Len(p) /\ Rest(Tail(r), p, a + 1) /\ r[1] = p[a + 1]
<1> DEFINE u == Tail(r)
<1>1. Len(r) \in Nat /\ Len(r) >= 1 /\ Len(u) = Len(r) - 1 /\ \A i \in 1 .. Len(u) : u[i] = r[i + 1]
  BY TailIs
<1>2. Len(p) \in Nat /\ Len(r) = Len(p) - a /\ \A i \in 1 .. Len(r) : r[i] = p[i + a] BY DEF Rest
<1> HIDE DEF u
<1>3. r[1] = p[a + 1]
  <2>1. 1 \in 1 .. Len(r) /\ 1 + a = a + 1 BY <1>1
  <2>2. QED BY <1>2, <2>1
<1>4. a + 1 \in 0 .. Len(p) BY <1>1, <1>2
<1>5. \A i \in 1 .. Len(u) : u[i] = p[i + (a + 1)]
  <2>1. SUFFICES ASSUME NEW i \in 1 .. Len(u) PROVE u[i] = p[i + (a + 1)]
    OBVIOUS
  <2>2. i + 1 \in 1 .. Len(r) /\ (i + 1) + a = i + (a + 1) BY <1>1
  <2>3. r[i + 1] = p[(i + 1) + a] BY <1>2, <2>2
  <2>4. QED BY <1>1, <2>2, <2>3
<1>6. Len(u) = Len(p) - (a + 1) BY <1>1, <1>2
<1>7. QED BY <1>3, <1>4, <1>5, <1>6 DEF Rest, u

\* What one more message answers.
LEMMA TakenMore ==
  ASSUME NEW k, TabOK(k), NEW msgs, NEW i \in Nat, NEW a \in 0 .. Len(k.pending), i >= 1,
         Taken(k.pending, a, msgs, i - 1)
  PROVE  /\ msgs[i].type # "push_result" => Taken(k.pending, a, msgs, i)
         /\ a + 1 \in 1 .. Len(k.pending) /\ Answers(msgs[i], k.pending[a + 1]) => Taken(k.pending, a + 1, msgs, i)
<1> DEFINE p == k.pending
<1>1. Len(p) \in Nat /\ Increasing(p) /\ \A l \in 1 .. Len(p) : p[l].clientClock \in Nat BY PushesIncrease
<1> HIDE DEF p
<1>2. \A l \in 1 .. Len(p) : l <= a <=> \E j \in 1 .. i - 1 : Answers(msgs[j], p[l]) BY DEF Taken, p
<1>3. ASSUME NEW w
      PROVE  (\E j \in 1 .. i : Answers(msgs[j], w)) <=> Answers(msgs[i], w) \/ \E j \in 1 .. i - 1 : Answers(msgs[j], w)
  <2>1. \A j \in 1 .. i : j = i \/ j \in 1 .. i - 1 OBVIOUS
  <2>2. i \in 1 .. i /\ \A j \in 1 .. i - 1 : j \in 1 .. i OBVIOUS
  <2>3. QED BY <2>1, <2>2
<1>4. ASSUME msgs[i].type # "push_result" PROVE Taken(p, a, msgs, i)
  <2>1. \A w : ~Answers(msgs[i], w) BY <1>4 DEF Answers
  <2>2. QED BY <1>2, <1>3, <2>1 DEF Taken
<1>5. ASSUME a + 1 \in 1 .. Len(p), Answers(msgs[i], p[a + 1]) PROVE Taken(p, a + 1, msgs, i)
  <2>1. SUFFICES ASSUME NEW l \in 1 .. Len(p)
                 PROVE  l <= a + 1 <=> \E j \in 1 .. i : Answers(msgs[j], p[l])
    BY DEF Taken
  <2>2. Answers(msgs[i], p[l]) <=> l = a + 1
    <3>1. Answers(msgs[i], p[l]) <=> p[l].clientClock = p[a + 1].clientClock BY <1>5 DEF Answers
    <3>2. l < a + 1 => p[l].clientClock < p[a + 1].clientClock BY <1>1, <1>5 DEF Increasing
    <3>3. a + 1 < l => p[a + 1].clientClock < p[l].clientClock BY <1>1, <1>5 DEF Increasing
    <3>4. p[l].clientClock \in Nat /\ p[a + 1].clientClock \in Nat BY <1>1, <1>5
    <3>5. l < a + 1 \/ l = a + 1 \/ a + 1 < l OBVIOUS
    <3>6. QED BY <3>1, <3>2, <3>3, <3>4, <3>5
  <2>3. l <= a + 1 <=> l = a + 1 \/ l <= a OBVIOUS
  <2>4. QED BY <1>2, <1>3, <2>2, <2>3
<1>6. QED BY <1>4, <1>5 DEF p

\* Receiving messages without getting out of step takes exactly the pushes they answer.
LEMMA ReceivedTakes ==
  ASSUME NEW k, TabOK(k), NEW n \in Nat, NEW msgs \in [1 .. n -> News],
         FoldLeft(receive, Started(k), msgs).ok
  PROVE  \E a \in 0 .. Len(k.pending) :
           Rest(FoldLeft(receive, Started(k), msgs).pending, k.pending, a) /\ Taken(k.pending, a, msgs, n)
<1> DEFINE p == k.pending
<1>1. k \in Tabs /\ k.store \in Contents /\ k.speculative \in Recorded /\ p \in Seq(Pushes) /\ Len(p) \in Nat
  <2>1. k \in Tabs BY DEF TabOK
  <2>2. QED BY <2>1, PushesIncrease DEF Tabs
<1>2. Started(k) \in Accs /\ Started(k).pending = p
  <2>1. Undo(k.store, k.speculative) \in Contents BY <1>1, WholeTypes
  <2>2. QED BY <1>1, <2>1 DEF Started, Accs
<1>3. PICK v \in [0 .. n -> Accs] : ReceiveChain(v, n, Started(k), msgs)
  <2>1. \A x \in Accs, m \in News : receive(x, m) \in Accs BY ReceiveIs DEF Received
  <2>2. QED BY <1>2, <2>1, ReceiveFold
<1>4. /\ v[0] = Started(k) /\ v[n] = FoldLeft(receive, Started(k), msgs)
      /\ \A i \in 1 .. n : v[i] = receive(v[i - 1], msgs[i])
  BY <1>3 DEF ReceiveChain
<1> HIDE DEF p
<1> DEFINE G == {i \in 0 .. n : v[i].ok => \E a \in 0 .. Len(p) : Rest(v[i].pending, p, a) /\ Taken(p, a, msgs, i)}
<1>5. 0 \in G
  <2>1. 0 \in 0 .. n /\ 0 \in 0 .. Len(p) BY <1>1
  <2>2. Rest(p, p, 0)
    <3>1. \A i \in 1 .. Len(p) : p[i + 0] = p[i] /\ Len(p) = Len(p) - 0 BY <1>1
    <3>2. Len(p) = Len(p) - 0 BY <1>1
    <3>3. QED BY <3>1, <3>2 DEF Rest
  <2>3. Taken(p, 0, msgs, 0) BY <1>1 DEF Taken
  <2>4. v[0].pending = p BY <1>2, <1>4
  <2>5. QED BY <2>1, <2>2, <2>3, <2>4
<1>6. ASSUME NEW i \in 1 .. n, i - 1 \in G PROVE i \in G
  <2>1. SUFFICES ASSUME v[i].ok PROVE \E a \in 0 .. Len(p) : Rest(v[i].pending, p, a) /\ Taken(p, a, msgs, i)
    OBVIOUS
  <2> DEFINE x == v[i - 1]
             m == msgs[i]
  <2>2. x \in Accs /\ m \in News /\ v[i] = receive(x, m) /\ i \in Nat /\ i >= 1 BY <1>4
  <2>3. /\ x.ok
        /\ \/ m.type = "patch" /\ v[i].pending = x.pending
           \/ /\ m.type = "push_result" /\ x.pending # <<>> /\ x.pending[1].clientClock = m.clientClock
              /\ v[i].pending = Tail(x.pending)
    <3> HIDE DEF x, m
    <3>1. receive(x, m).ok BY <2>1, <2>2
    <3>2. QED BY <2>2, <3>1, ReceiveTakes
  <2>4. PICK a \in 0 .. Len(p) : Rest(x.pending, p, a) /\ Taken(p, a, msgs, i - 1) BY <1>6, <2>3
  <2>5. x.pending \in Seq(Pushes) BY <2>2 DEF Accs
  <2> HIDE DEF x
  <2>6. CASE m.type = "patch" /\ v[i].pending = x.pending
    <3>1. Taken(p, a, msgs, i) BY <2>2, <2>4, <2>6, TakenMore DEF p
    <3>2. QED BY <2>4, <2>6, <3>1
  <2>7. CASE /\ m.type = "push_result" /\ x.pending # <<>> /\ x.pending[1].clientClock = m.clientClock
             /\ v[i].pending = Tail(x.pending)
    <3>1. a + 1 \in 0 .. Len(p) /\ Rest(Tail(x.pending), p, a + 1) /\ x.pending[1] = p[a + 1]
      BY <1>1, <2>4, <2>5, <2>7, RestTail
    <3>2. a + 1 \in 1 .. Len(p) /\ Answers(m, p[a + 1]) BY <2>7, <3>1 DEF Answers
    <3>3. Taken(p, a + 1, msgs, i) BY <2>2, <2>4, <3>2, TakenMore DEF p
    <3>4. QED BY <2>7, <3>1, <3>3
  <2>8. QED BY <2>3, <2>6, <2>7
<1>7. n \in G
  <2> HIDE DEF G
  <2>1. n \in 0 .. n OBVIOUS
  <2>2. QED BY <1>5, <1>6, <2>1, CountingUp
<1>8. QED BY <1>4, <1>7 DEF p

-----------------------------------------------------------------------------
(* One line.                                                               *)

\* What a line says of its parts.
LEMMA LineTypes ==
  ASSUME NEW k, NEW up, NEW lt, NEW q, NEW s, NEW g, NEW h, NEW n, NEW ld, Line(k, up, lt, q, s, g, h, n, ld)
  PROVE  /\ TabOK(k) /\ k \in Tabs /\ k.pending \in Seq(Pushes)
         /\ up \in Seq(Ups) /\ lt \in Seq(Ups) /\ q \in Seq(Downs)
         /\ \A i \in 1 .. Len(lt) : lt[i] \in Ups /\ UpOK(k, lt[i], n)
         /\ \A j \in 1 .. Len(q) : q[j] \in Downs /\ DownOK(h, k, q[j], n)
<1> DEFINE U == UpSet(k, n)
           D == DownSet(h, k, n)
<1>1. up \in Seq(U) /\ lt \in Seq(U) /\ q \in Seq(D) /\ U \subseteq Ups /\ D \subseteq Downs
  BY DEF Line, UpSet, DownSet
<1>2. \A i \in 1 .. Len(lt) : lt[i] \in U
  <2> HIDE DEF U
  <2>1. QED BY <1>1
<1>3. \A j \in 1 .. Len(q) : q[j] \in D
  <2> HIDE DEF D
  <2>1. QED BY <1>1
<1>4. up \in Seq(Ups) /\ lt \in Seq(Ups) /\ q \in Seq(Downs)
  <2> HIDE DEF U, D
  <2>1. QED BY <1>1, SeqMonotonic
<1>5. k \in Tabs /\ k.pending \in Seq(Pushes)
  <2>1. k \in Tabs BY DEF Line, TabOK
  <2>2. QED BY <2>1 DEF Tabs
<1>6. QED BY <1>2, <1>3, <1>4, <1>5 DEF Line, UpSet, DownSet

\* A tab that is offline waits for no answers.
LEMMA AnswerOffline ==
  ASSUME NEW k, TabOK(k), k.status = "offline", NEW up, NEW lt, NEW q, NEW s, NEW g
  PROVE  AnswerLine(k, up, lt, q, s, g)
<1>1. k.pending = <<>> BY DEF TabOK
<1>2. Len(k.pending) = 0 BY <1>1
<1>3. QED BY <1>2 DEF AnswerLine

\* A tab whose store changes.
LEMMA AnswerRecords ==
  ASSUME NEW k, NEW y, NEW up, NEW lt, NEW q, NEW s, NEW g \in BOOLEAN, AnswerLine(k, up, lt, q, s, g),
         y.pending = k.pending, y.status = k.status, y.requestId = k.requestId
  PROVE  AnswerLine(y, up, lt, q, s, g)
BY DEF AnswerLine

\* A tab that sends.
LEMMA AnswerSends ==
  ASSUME NEW k, NEW up, NEW lt, NEW q, NEW s, NEW g \in BOOLEAN, NEW h, NEW n, NEW ld, Line(k, up, lt, q, s, g, h, n, ld),
         AnswerLine(k, up, lt, q, s, g)
  PROVE  LET y == sendUnsentChanges(k) IN AnswerLine(y, up \o sentBy(k, y), lt, q, s, g)
<1> DEFINE y == sendUnsentChanges(k)
           m == Push(k.clientClock, NetworkDiff(k.nextDiff))
<1>1. /\ k \in Tabs /\ up \in Seq(Ups) /\ lt \in Seq(Ups) /\ q \in Seq(Downs) /\ k.pending \in Seq(Pushes)
      /\ \A i \in 1 .. Len(lt) : UpOK(k, lt[i], n)
      /\ \A j \in 1 .. Len(q) : DownOK(h, k, q[j], n) /\ q[j] \in Downs
  BY LineTypes
<1>2. /\ m \in Pushes /\ m.clientClock = k.clientClock /\ m.type = "push" /\ k.clientClock \in Nat
      /\ \/ y = k
         \/ /\ k.status = "connected" /\ y \in Tabs /\ y.pending = Append(k.pending, m)
            /\ y.clientClock = k.clientClock + 1 /\ y.status = k.status /\ y.requestId = k.requestId
  <2>1. m.clientClock = k.clientClock /\ m.type = "push" BY DEF Push
  <2>2. k.clientClock \in Nat BY <1>1 DEF Tabs
  <2> HIDE DEF m
  <2>3. QED BY <1>1, <2>1, <2>2, SendIs DEF m
<1> HIDE DEF y, m
<1>3. CASE y = k
  <2>1. sentBy(k, y) = <<>> BY <1>3 DEF sentBy
  <2>2. up \o <<>> = up BY <1>1, ConcatEmptySeq
  <2>3. QED BY <1>3, <2>1, <2>2 DEF y
<1>4. CASE /\ k.status = "connected" /\ y \in Tabs /\ y.pending = Append(k.pending, m)
           /\ y.clientClock = k.clientClock + 1 /\ y.status = k.status /\ y.requestId = k.requestId
  <2> DEFINE p == k.pending
             r == Append(p, m)
             u == Append(up, m)
  <2>0. m \in Ups BY <1>2 DEF Ups
  <2>1. Len(p) \in Nat /\ Len(r) = Len(p) + 1 /\ r[Len(p) + 1] = m /\ \A i \in 1 .. Len(p) : r[i] = p[i]
    BY <1>1, <1>2, AppendProperties
  <2>2. Len(up) \in Nat /\ Len(u) = Len(up) + 1 /\ u[Len(up) + 1] = m /\ \A i \in 1 .. Len(up) : u[i] = up[i]
    BY <1>1, <2>0, AppendProperties
  <2>3. up \o sentBy(k, y) = u
    <3>1. y.clientClock # k.clientClock BY <1>2, <1>4
    <3>2. Last(y.pending) = m BY <1>4, <2>1 DEF Last
    <3>3. sentBy(k, y) = <<m>> BY <3>1, <3>2 DEF sentBy
    <3>4. up \o <<m>> = u BY <1>1, <2>0
    <3>5. QED BY <3>3, <3>4
  <2> HIDE DEF r, u
  <2>4. \A i \in 1 .. Len(lt), j \in 1 .. Len(r) : lt[i].type = "push" => lt[i].clientClock < r[j].clientClock
    <3>1. SUFFICES ASSUME NEW i \in 1 .. Len(lt), NEW j \in 1 .. Len(r), lt[i].type = "push"
                   PROVE  lt[i].clientClock < r[j].clientClock
      OBVIOUS
    <3>2. CASE j = Len(p) + 1
      <4>1. lt[i].clientClock < k.clientClock BY <1>1, <3>1 DEF UpOK
      <4>2. QED BY <1>2, <2>1, <3>2, <4>1
    <3>3. CASE j # Len(p) + 1
      <4>1. j \in 1 .. Len(p) BY <2>1, <3>3
      <4>2. lt[i].clientClock < p[j].clientClock BY <3>1, <4>1 DEF AnswerLine
      <4>3. QED BY <2>1, <4>1, <4>2
    <3>4. QED BY <3>2, <3>3
  <2>5. \A i \in 1 .. Len(u) : u[i].type = "push"
    <3>1. SUFFICES ASSUME NEW i \in 1 .. Len(u) PROVE u[i].type = "push"
      OBVIOUS
    <3>2. CASE i = Len(up) + 1 BY <1>2, <2>2, <3>2
    <3>3. CASE i # Len(up) + 1
      <4>1. i \in 1 .. Len(up) BY <2>2, <3>3
      <4>2. up[i].type = "push" BY <1>4, <4>1 DEF AnswerLine
      <4>3. QED BY <2>2, <4>1, <4>2
    <3>4. QED BY <3>2, <3>3
  <2>6. ~g /\ s = "connected" => Matched(r, u, q)
    <3>1. SUFFICES ASSUME ~g, s = "connected" PROVE Matched(r, u, q)
      OBVIOUS
    <3>2. Matched(p, up, q) BY <1>4, <3>1 DEF AnswerLine
    <3>3. \A j \in 1 .. Len(q) : ~Answers(q[j], m)
      <4>1. SUFFICES ASSUME NEW j \in 1 .. Len(q), q[j].type = "push_result", q[j].clientClock = m.clientClock PROVE FALSE
        BY DEF Answers
      <4>2. q[j].clientClock < k.clientClock BY <1>1, <4>1 DEF DownOK
      <4>3. QED BY <1>2, <4>1, <4>2
    <3> HIDE DEF p
    <3>4. p \in Seq(Pushes) BY <1>1 DEF p
    <3>5. QED BY <1>1, <1>2, <3>2, <3>3, <3>4, MatchedSent DEF r, u
  <2>7. y.pending = r BY <1>4 DEF r
  <2> HIDE DEF p
  <2>8. AnswerLine(y, u, lt, q, s, g)
    <3>1. k.status # "connecting" /\ k.status # "offline" BY <1>4
    <3>2. \A i \in 1 .. Len(lt) : lt[i].type = "connect" => lt[i].requestId < y.requestId
      BY <1>4, <3>1 DEF AnswerLine
    <3>3. QED BY <1>4, <2>4, <2>5, <2>6, <2>7, <3>1, <3>2 DEF AnswerLine
  <2>9. QED BY <2>3, <2>8 DEF y
<1>5. QED BY <1>2, <1>3, <1>4

\* A connected tab that takes in the first n messages and stays in step.
LEMMA AnswerRebases ==
  ASSUME NEW k, NEW up, NEW lt, NEW q, NEW s, NEW g \in BOOLEAN, NEW h, NEW d \in Nat, NEW ld, Line(k, up, lt, q, s, g, h, d, ld),
         AnswerLine(k, up, lt, q, s, g), k.status = "connected", NEW n \in 0 .. Len(q),
         \A i \in 1 .. n : SubSeq(q, 1, n)[i].type # "connect"
  PROVE  LET y == rebase(k, SubSeq(q, 1, n)) IN
         y.status # "offline" => AnswerLine(y, up, lt, SubSeq(q, n + 1, Len(q)), s, g)
<1> DEFINE msgs == SubSeq(q, 1, n)
           D == DownSet(h, k, d)
           f == flushHistory(k)
           y == rebase(k, msgs)
           t == SubSeq(q, n + 1, Len(q))
<1>1. k \in Tabs /\ q \in Seq(D) /\ q \in Seq(Downs) /\ up \in Seq(Ups) /\ TabOK(k)
  BY LineTypes DEF Line
<1>0. q \in Seq(D) BY <1>1
<1>2. msgs \in [1 .. n -> News] /\ (\A i \in 1 .. n : msgs[i] = q[i] /\ i \in 1 .. Len(q)) /\ (msgs = <<>> <=> n = 0)
  <2>1. msgs \in [1 .. n -> News] BY <1>0, NewsOf
  <2>2. \A i \in 1 .. n : msgs[i] = q[i] /\ i \in 1 .. Len(q) BY <1>0, NewsOf
  <2>3. msgs = <<>> <=> n = 0 BY <1>0, NewsOf
  <2>4. QED BY <2>1, <2>2, <2>3
<1> HIDE DEF D
<1>3. f \in Tabs /\ Records(f, k) BY <1>1, FlushHistoryIs
<1>4. CASE n = 0
  <2>1. y = k BY <1>2, <1>4 DEF rebase
  <2>2. SubSeq(q, 1, Len(q)) = q BY <1>1
  <2>3. t = q BY <1>4, <2>2
  <2>4. QED BY <2>1, <2>3
<1>5. CASE n # 0
  <2>1. y = rebased(f, msgs) BY <1>2, <1>5 DEF rebase
  <2>2. n \in Nat \ {0} /\ n \in 0 .. Len(q) /\ Len(q) \in Nat BY <1>1, <1>5
  <2>3. Len(t) = Len(q) - n /\ \A j \in 1 .. Len(t) : t[j] = q[j + n]
    <3>1. Len(t) = Len(q) - n BY <1>1, <2>2
    <3>2. ASSUME NEW j \in 1 .. Len(t) PROVE t[j] = q[j + n]
      <4>1. j \in 1 .. Len(q) - n BY <3>1
      <4>2. t[j] = q[(n + 1) + j - 1] BY <1>1, <2>2, <4>1
      <4>3. (n + 1) + j - 1 = j + n BY <2>2
      <4>4. QED BY <4>2, <4>3
    <3>3. QED BY <3>1, <3>2
  <2> HIDE DEF msgs, f, y, t
  <2>4. Rebase(f, msgs, n, y) BY <1>2, <1>3, <2>1, <2>2, RebaseIs
  <2> DEFINE got == FoldLeft(receive, Started(f), msgs)
  <2>5. CASE ~got.ok /\ y = resetConnection(f)
    <3>1. y.status = "offline" BY <1>3, <2>5, ResetIs
    <3>2. QED BY <3>1 DEF y, msgs
  <2>6. CASE ~(~got.ok /\ y = resetConnection(f))
    <3>1. got.ok /\ y.pending = got.pending /\ y.status = k.status /\ y.requestId = k.requestId
      BY <1>3, <2>4, <2>6 DEF Rebase, Records
    <3>2. TabOK(f) /\ f.pending = k.pending BY <1>1, <1>3 DEF TabOK, Records
    <3>3. PICK a \in 0 .. Len(f.pending) : Rest(got.pending, f.pending, a) /\ Taken(f.pending, a, msgs, n)
      BY <1>2, <2>2, <3>1, <3>2, ReceivedTakes
    <3> HIDE DEF got
    <3> DEFINE p == k.pending
               r == y.pending
    <3>4. a \in 0 .. Len(p) /\ Rest(r, p, a) /\ Taken(p, a, msgs, n) BY <3>1, <3>2, <3>3
    <3>5. p \in Seq(Pushes) /\ Len(p) \in Nat BY <1>1, PushesIncrease
    <3> HIDE DEF p, r
    <3>6. Taken(p, a, q, n) BY <1>2, <3>4 DEF Taken
    <3>7. Rest(t, q, n) BY <2>3 DEF Rest
    <3>8. ~g /\ s = "connected" => Matched(r, up, t)
      <4>1. SUFFICES ASSUME ~g, s = "connected" PROVE Matched(r, up, t) OBVIOUS
      <4>2. Matched(p, up, q) BY <4>1 DEF AnswerLine, p
      <4>3. QED BY <1>1, <2>2, <3>4, <3>5, <3>6, <3>7, <4>2, MatchedRest
    <3>9. \A i \in 1 .. Len(lt), j \in 1 .. Len(r) : lt[i].type = "push" => lt[i].clientClock < r[j].clientClock
      <4>1. \A j \in 1 .. Len(r) : j + a \in 1 .. Len(p) /\ r[j] = p[j + a] BY <3>4, <3>5 DEF Rest
      <4>2. QED BY <4>1 DEF AnswerLine, p
    <3>10. AnswerLine(y, up, lt, t, s, g) BY <3>1, <3>8, <3>9 DEF AnswerLine, r
    <3>11. QED BY <3>10 DEF y, msgs, t
  <2>7. QED BY <2>5, <2>6
<1>6. QED BY <1>4, <1>5

\* A tab that opens a socket.
LEMMA AnswerReconnects ==
  ASSUME NEW k, NEW up, NEW lt, NEW q, NEW s, NEW g, NEW h, NEW n, NEW ld, Line(k, up, lt, q, s, g, h, n, ld),
         k.status = "offline", NEW y, NEW b, y = [k EXCEPT !.status = "connecting", !.requestId = @ + 1]
  PROVE  AnswerLine(y, <<ConnectRequest(y)>>, lt, <<>>, "awaiting", b)
<1>1. /\ k \in Tabs /\ TabOK(k) /\ lt \in Seq(Ups)
      /\ \A i \in 1 .. Len(lt) : UpOK(k, lt[i], n) /\ lt[i] \in Ups
  BY LineTypes
<1>2. k.pending = <<>> /\ k.requestId \in Nat BY <1>1 DEF TabOK, Tabs
<1>3. y.status = "connecting" /\ y.requestId = k.requestId + 1 /\ y.pending = <<>> BY <1>1, <1>2 DEF Tabs
<1>4. ASSUME NEW i \in 1 .. Len(lt), lt[i].type = "connect" PROVE lt[i].requestId < y.requestId
  <2>1. lt[i].requestId <= k.requestId BY <1>1, <1>4 DEF UpOK
  <2>2. lt[i].requestId \in Nat BY <1>1, <1>4, UpsApart DEF Requests
  <2>3. QED BY <1>2, <1>3, <2>1, <2>2
<1>5. Len(y.pending) = 0 BY <1>3
<1> DEFINE up2 == <<ConnectRequest(y)>>
           q2 == <<>>
<1>6. Len(up2) = 1 /\ up2[1].type = "connect" /\ Len(q2) = 0 BY DEF ConnectRequest
<1> HIDE DEF up2, q2
<1>7. AnswerLine(y, up2, lt, q2, "awaiting", b) BY <1>3, <1>4, <1>5, <1>6 DEF AnswerLine
<1>8. QED BY <1>7 DEF up2, q2

\* A tab that reads a reply, or ignores what it reads.
LEMMA AnswerHeads ==
  ASSUME NEW k, NEW up, NEW lt, NEW q, NEW s, NEW g \in BOOLEAN, NEW h, NEW n, NEW ld, Line(k, up, lt, q, s, g, h, n, ld),
         AnswerLine(k, up, lt, q, s, g), q # <<>>, q[1].type = "connect" \/ k.status = "connecting",
         NEW y, y.pending = k.pending, y.requestId = k.requestId,
         IF q[1].type = "connect" /\ q[1].requestId = k.requestId /\ k.status = "connecting"
         THEN y.status = "connected" ELSE y.status = k.status
  PROVE  AnswerLine(y, up, lt, Tail(q), s, g)
<1> DEFINE t == Tail(q)
           expected == q[1].type = "connect" /\ q[1].requestId = k.requestId /\ k.status = "connecting"
<1>1. TabOK(k) /\ k.pending \in Seq(Pushes) /\ up \in Seq(Ups) /\ q \in Seq(Downs) /\ (k.status = "offline" => q = <<>>)
  BY LineTypes DEF Line
<1>2. Len(q) \in Nat /\ Len(q) >= 1 /\ Len(t) = Len(q) - 1 /\ \A j \in 1 .. Len(t) : t[j] = q[j + 1]
  BY <1>1, TailIs
<1>3. \A j \in 1 .. Len(t) : j + 1 \in 1 .. Len(q) /\ t[j] = q[j + 1] BY <1>2
<1> HIDE DEF t
<1>4. /\ \A i \in 1 .. Len(lt) : lt[i].type = "connect" => lt[i].requestId < y.requestId
      /\ \A i \in 1 .. Len(lt), j \in 1 .. Len(y.pending) :
           lt[i].type = "push" => lt[i].clientClock < y.pending[j].clientClock
  <2>1. k.status # "offline" BY <1>1
  <2>2. QED BY <2>1 DEF AnswerLine
<1>5. CASE expected
  <2>1. y.status = "connected" BY <1>5
  <2>2. k.pending = <<>> BY <1>1, <1>5 DEF TabOK
  <2>3. up = <<>>
    <3>1. 1 \in 1 .. Len(q) BY <1>2
    <3>2. QED BY <1>5, <3>1 DEF AnswerLine
  <2>4. Len(up) = 0 /\ Len(k.pending) = 0 BY <2>2, <2>3
  <2>5. Matched(y.pending, up, t) BY <2>4 DEF Matched, Sent, Heard
  <2>6. QED BY <1>4, <2>1, <2>4, <2>5 DEF AnswerLine, t
<1>6. CASE ~expected
  <2>1. y.status = k.status BY <1>6
  <2>2. k.status = "connecting" =>
          /\ Len(up) <= 1 /\ \A i \in 1 .. Len(up) : up[i].type = "connect"
          /\ up # <<>> => \A j \in 1 .. Len(t) : t[j].type = "connect" => t[j].requestId # k.requestId
    BY <1>3 DEF AnswerLine
  <2>3. ~g /\ s = "connected" /\ k.status = "connected" => Matched(k.pending, up, t)
    <3>1. SUFFICES ASSUME ~g, s = "connected", k.status = "connected" PROVE Matched(k.pending, up, t)
      OBVIOUS
    <3> DEFINE p == k.pending
    <3>2. Matched(p, up, q) BY <3>1 DEF AnswerLine
    <3>3. q[1].type = "connect" BY <3>1
    <3>4. Taken(p, 0, q, 1)
      <4>1. \A j \in 1 .. 1 : j = 1 OBVIOUS
      <4>2. \A i \in 1 .. Len(p), j \in 1 .. 1 : ~Answers(q[j], p[i]) BY <3>3, <4>1 DEF Answers
      <4>3. \A i \in 1 .. Len(p) : ~(i <= 0) OBVIOUS
      <4>4. QED BY <4>2, <4>3 DEF Taken
    <3>5. p \in Seq(Pushes) /\ Len(p) \in Nat BY <1>1
    <3> HIDE DEF p
    <3>6. Rest(p, p, 0)
      <4>1. \A i \in 1 .. Len(p) : i + 0 = i OBVIOUS
      <4>2. Len(p) = Len(p) - 0 BY <3>5
      <4>3. QED BY <4>1, <4>2 DEF Rest
    <3>7. Rest(t, q, 1) /\ 1 \in 0 .. Len(q) /\ 0 \in 0 .. Len(p) BY <1>2, <3>5 DEF Rest
    <3>8. Matched(p, up, t) BY <1>1, <3>2, <3>4, <3>5, <3>6, <3>7, MatchedRest
    <3>9. QED BY <3>8 DEF p
  <2>4. k.status = "connected" => \A i \in 1 .. Len(up) : up[i].type = "push" BY DEF AnswerLine
  <2>5. QED BY <1>4, <2>1, <2>2, <2>3, <2>4 DEF AnswerLine, t
<1>7. QED BY <1>5, <1>6

\* A session told nothing that concerns its pushes.
LEMMA AnswerUpdated ==
  ASSUME NEW k, TabOK(k), NEW up, NEW lt, NEW q, NEW t, NEW s, NEW g \in BOOLEAN, up \in Seq(Ups), q \in Seq(Downs),
         AnswerLine(k, up, lt, q, s, g), Updated(q, t)
  PROVE  AnswerLine(k, up, lt, t, s, g) /\ t \in Seq(Downs)
<1>1. CASE t = q BY <1>1
<1>2. CASE \E m \in Downs : m.type = "patch" /\ t = Append(q, m)
  <2>1. PICK m \in Downs : m.type = "patch" /\ t = Append(q, m) BY <1>2
  <2>2. Append(q, m) \in Seq(Downs) /\ k.pending \in Seq(Pushes) BY AppendProperties, PushesIncrease
  <2>3. /\ Len(q) \in Nat /\ Len(t) = Len(q) + 1 /\ t[Len(q) + 1] = m /\ \A j \in 1 .. Len(q) : t[j] = q[j]
    BY <2>1, AppendProperties
  <2>4. ~g /\ s = "connected" /\ k.status = "connected" => Matched(k.pending, up, t)
    <3>1. \A w : ~Answers(m, w) BY <2>1 DEF Answers
    <3>2. QED BY <2>1, <2>2, <3>1, MatchedMore DEF AnswerLine
  <2>5. ASSUME NEW j \in 1 .. Len(t), t[j].type = "connect" PROVE j \in 1 .. Len(q) /\ t[j] = q[j]
    <3>1. j # Len(q) + 1 BY <2>1, <2>3, <2>5
    <3>2. QED BY <2>3, <3>1
  <2>6. AnswerLine(k, up, lt, t, s, g) BY <2>4, <2>5 DEF AnswerLine
  <2>7. QED BY <2>1, <2>2, <2>6
<1>3. QED BY <1>1, <1>2 DEF Updated

\* A session that loses all but the first j messages: if the tab is connected it is cheated.
LEMMA AnswerShortened ==
  ASSUME NEW k, NEW up, NEW lt, NEW q \in Seq(Downs), NEW s, NEW g \in BOOLEAN, NEW b \in BOOLEAN,
         AnswerLine(k, up, lt, q, s, g), k.status = "connected" => b, NEW j \in 0 .. Len(q)
  PROVE  AnswerLine(k, up, lt, SubSeq(q, 1, j), s, b) /\ SubSeq(q, 1, j) \in Seq(Downs)
<1> DEFINE t == SubSeq(q, 1, j)
<1>1. t \in Seq(Downs) /\ Len(t) = j /\ \A i \in 1 .. Len(t) : i \in 1 .. Len(q) /\ t[i] = q[i]
  BY SubSeqProperties
<1> HIDE DEF t
<1>2. AnswerLine(k, up, lt, t, s, b) BY <1>1 DEF AnswerLine
<1>3. QED BY <1>1, <1>2 DEF t

\* The session of a line ends, or is of no use to the tab.
LEMMA AnswerUntold ==
  ASSUME NEW k, NEW up, NEW lt, NEW q, NEW s, NEW s2, NEW g \in BOOLEAN, AnswerLine(k, up, lt, q, s, g),
         s2 = s \/ s2 # "connected" \/ k.status # "connected"
  PROVE  AnswerLine(k, up, lt, q, s2, g)
BY DEF AnswerLine

\* What is left of what was sent, without the first message.
LEMMA LaterOnes ==
  ASSUME NEW q \in Seq(Ups), q # <<>>
  PROVE  /\ Len(q) \in Nat /\ Len(q) >= 1 /\ 1 \in 1 .. Len(q) /\ Head(q) = q[1] /\ Len(Tail(q)) = Len(q) - 1
         /\ \A i \in 1 .. Len(Tail(q)) : i + 1 \in 1 .. Len(q) /\ Tail(q)[i] = q[i + 1]
         /\ Tail(q) \in Seq(Ups)
<1> DEFINE u == Tail(q)
<1>1. Len(q) \in Nat /\ Len(q) >= 1 /\ Head(q) = q[1] /\ Len(u) = Len(q) - 1 /\ (\A i \in 1 .. Len(u) : u[i] = q[i + 1]) /\ u \in Seq(Ups)
  BY TailIs
<1> HIDE DEF u
<1>2. \A i \in 1 .. Len(u) : i + 1 \in 1 .. Len(q) BY <1>1
<1>3. QED BY <1>1, <1>2 DEF u

\* The room reads from a replaced socket: no answer of it is to a push that waits.
LEMMA AnswerLate ==
  ASSUME NEW k, TabOK(k), NEW up, NEW lt, NEW q, NEW r, NEW s, NEW g \in BOOLEAN, up \in Seq(Ups), lt \in Seq(Ups), q \in Seq(Downs),
         AnswerLine(k, up, lt, q, s, g), lt # <<>>, k.status # "offline",
         r = q \/ \E m \in Downs : RepliesTo(m, Head(lt)) /\ r = Append(q, m)
  PROVE  AnswerLine(k, up, Tail(lt), r, s, g)
<1> DEFINE u == Tail(lt)
<1>1. /\ 1 \in 1 .. Len(lt) /\ Head(lt) = lt[1]
      /\ \A i \in 1 .. Len(u) : i + 1 \in 1 .. Len(lt) /\ u[i] = lt[i + 1]
  BY LaterOnes
<1> HIDE DEF u
<1>2. AnswerLine(k, up, u, q, s, g) BY <1>1 DEF AnswerLine
<1>3. CASE r = q BY <1>2, <1>3 DEF u
<1>4. CASE \E m \in Downs : RepliesTo(m, Head(lt)) /\ r = Append(q, m)
  <2>1. PICK m \in Downs : RepliesTo(m, Head(lt)) /\ r = Append(q, m) BY <1>4
  <2>2. k.pending \in Seq(Pushes) /\ \A i \in 1 .. Len(k.pending) : ~Answers(m, k.pending[i])
    <3>1. k.pending \in Seq(Pushes) /\ \A i \in 1 .. Len(k.pending) : k.pending[i].clientClock \in Nat BY PushesIncrease
    <3>2. ASSUME NEW i \in 1 .. Len(k.pending), Answers(m, k.pending[i]) PROVE FALSE
      <4>1. lt[1].type = "push" /\ m.clientClock = lt[1].clientClock BY <1>1, <2>1, <3>2 DEF RepliesTo, Answers
      <4>2. lt[1].clientClock < k.pending[i].clientClock BY <1>1, <4>1 DEF AnswerLine
      <4>3. lt[1].clientClock = k.pending[i].clientClock BY <3>2, <4>1 DEF Answers
      <4>4. QED BY <3>1, <4>2, <4>3
    <3>3. QED BY <3>1, <3>2
  <2>3. m.type = "connect" => m.requestId # k.requestId
    <3>1. SUFFICES ASSUME m.type = "connect", m.requestId = k.requestId PROVE FALSE OBVIOUS
    <3>2. lt[1].type = "connect" /\ lt[1].requestId = k.requestId BY <1>1, <2>1, <3>1 DEF RepliesTo, Answers
    <3>3. lt[1].requestId < k.requestId BY <1>1, <3>2 DEF AnswerLine
    <3>4. k.requestId \in Nat BY DEF TabOK, Tabs
    <3>5. QED BY <3>2, <3>3, <3>4
  <2>4. /\ Len(q) \in Nat /\ Len(r) = Len(q) + 1 /\ r[Len(q) + 1] = m /\ \A j \in 1 .. Len(q) : r[j] = q[j]
    BY <2>1, AppendProperties
  <2>5. ~g /\ s = "connected" /\ k.status = "connected" => Matched(k.pending, up, r)
    BY <1>2, <2>1, <2>2, MatchedMore DEF AnswerLine
  <2>6. ASSUME NEW j \in 1 .. Len(r), r[j].type = "connect", r[j].requestId = k.requestId
        PROVE  j \in 1 .. Len(q) /\ r[j] = q[j]
    <3>1. j # Len(q) + 1 BY <2>3, <2>4, <2>6
    <3>2. QED BY <2>4, <3>1
  <2>7. AnswerLine(k, up, u, r, s, g) BY <1>2, <2>5, <2>6 DEF AnswerLine
  <2>8. QED BY <2>7 DEF u
<1>5. QED BY <1>3, <1>4

\* The room reads from the tab's socket.
LEMMA AnswerRead ==
  ASSUME NEW k, TabOK(k), NEW up, NEW lt, NEW q, NEW r, NEW s, NEW s2, NEW g \in BOOLEAN, up \in Seq(Ups), q \in Seq(Downs),
         AnswerLine(k, up, lt, q, s, g), up # <<>>,
         r = q \/ \E m \in Downs : RepliesTo(m, Head(up)) /\ r = Append(q, m),
         s2 = "connected" /\ k.status = "connected" => s = "connected",
         Head(up).type = "push" /\ s2 = "connected" /\ k.status = "connected" => r # q
  PROVE  AnswerLine(k, Tail(up), lt, r, s2, g)
<1> DEFINE u == Tail(up)
<1>1. /\ Len(up) \in Nat /\ 1 \in 1 .. Len(up) /\ Head(up) = up[1] /\ Len(u) = Len(up) - 1
      /\ \A i \in 1 .. Len(u) : i + 1 \in 1 .. Len(up) /\ u[i] = up[i + 1]
      /\ u \in Seq(Ups)
  BY LaterOnes
<1>2. ~g /\ s2 = "connected" /\ k.status = "connected" => Matched(k.pending, u, r)
  <2>1. SUFFICES ASSUME ~g, s2 = "connected", k.status = "connected" PROVE Matched(k.pending, u, r)
    OBVIOUS
  <2>2. Matched(k.pending, up, q) /\ up[1].type = "push" BY <1>1, <2>1 DEF AnswerLine
  <2>3. PICK m \in Downs : RepliesTo(m, up[1]) /\ r = Append(q, m) BY <1>1, <2>1, <2>2
  <2>4. Answers(m, up[1]) BY <2>2, <2>3 DEF RepliesTo
  <2>5. Matched(k.pending, Tail(up), Append(q, m)) BY <2>2, <2>4, MatchedNext
  <2>6. QED BY <2>3, <2>5
<1> HIDE DEF u
<1>3. k.status = "connecting" => u = <<>>
  <2>1. SUFFICES ASSUME k.status = "connecting" PROVE u = <<>> OBVIOUS
  <2>2. Len(up) <= 1 BY <2>1 DEF AnswerLine
  <2>3. Len(u) = 0 BY <1>1, <2>2
  <2>4. QED BY <1>1, <2>3
<1>4. k.status = "connecting" => Len(u) <= 1 BY <1>3
<1>5. AnswerLine(k, u, lt, r, s2, g) BY <1>1, <1>2, <1>3, <1>4 DEF AnswerLine
<1>6. QED BY <1>5 DEF u

\* A client's line when the room reads from c, this client or another: from its
\* socket, or from a replaced one.
LEMMA AnswerSaid ==
  ASSUME NEW c \in Client, NEW msg, NEW x \in Client, NEW up, NEW lt, NEW q, NEW s, NEW h, NEW n, NEW ld,
         Line(tab[x], up, lt, q, s, x \in cheated, h, n, ld), AnswerLine(tab[x], up, lt, q, s, x \in cheated),
         NEW t \in Seq(Downs), NEW r, NEW s2, SaidTo(c, msg, x, q, t, r, s, s2), NEW up2, NEW lt2,
         \/ x # c /\ up2 = up /\ lt2 = lt
         \/ x = c /\ up # <<>> /\ msg = Head(up) /\ up2 = Tail(up) /\ lt2 = lt
         \/ x = c /\ lt # <<>> /\ msg = Head(lt) /\ up2 = up /\ lt2 = Tail(lt)
  PROVE  AnswerLine(tab[x], up2, lt2, r, s2, x \in cheated')
<1> DEFINE k == tab[x]
           g == x \in cheated
           b == x \in cheated'
<1>1. TabOK(k) /\ up \in Seq(Ups) /\ lt \in Seq(Ups) /\ q \in Seq(Downs) /\ (s = "awaiting" => k.status # "connected")
      /\ s \in {"none", "awaiting", "connected"}
  BY LineTypes DEF Line
<1>2. CASE k.status = "offline" BY <1>1, <1>2, AnswerOffline
<1>3. CASE k.status # "offline"
  <2>0. g \in BOOLEAN /\ b \in BOOLEAN OBVIOUS
  <2>1. AnswerLine(k, up, lt, t, s, b)
    <3>1. (g => b) /\ (Updated(q, t) \/ (Shortened(q, t) /\ (k.status = "connected" => b))) BY DEF SaidTo
    <3>2. AnswerLine(k, up, lt, q, s, g) OBVIOUS
    <3> HIDE DEF k, g, b
    <3>3. AnswerLine(k, up, lt, q, s, b) BY <2>0, <3>1, <3>2 DEF AnswerLine
    <3>4. CASE Updated(q, t) BY <1>1, <2>0, <3>3, <3>4, AnswerUpdated
    <3>5. CASE Shortened(q, t) /\ (k.status = "connected" => b)
      <4>1. PICK a \in Seq(Downs) : Updated(q, a) /\ \E j \in 0 .. Len(a) : t = SubSeq(a, 1, j) BY <3>5 DEF Shortened
      <4>2. PICK j \in 0 .. Len(a) : t = SubSeq(a, 1, j) BY <4>1
      <4>3. AnswerLine(k, up, lt, a, s, b) BY <1>1, <2>0, <3>3, <4>1, AnswerUpdated
      <4>4. QED BY <2>0, <3>5, <4>2, <4>3, AnswerShortened
    <3>6. QED BY <3>1, <3>4, <3>5
  <2>2. s2 = "connected" /\ k.status = "connected" => s = "connected"
    BY <1>1 DEF SaidTo
  <2>3. CASE x # c /\ up2 = up /\ lt2 = lt
    <3>1. r = t \/ Updated(t, r) BY <2>3 DEF SaidTo
    <3> HIDE DEF k, b
    <3>2. AnswerLine(k, up, lt, r, s, b) BY <1>1, <2>0, <2>1, <3>1, AnswerUpdated
    <3>3. s2 = s \/ s2 # "connected" \/ k.status # "connected" BY <2>2
    <3>4. AnswerLine(k, up, lt, r, s2, b) BY <2>0, <3>2, <3>3, AnswerUntold
    <3>5. QED BY <2>3, <3>4 DEF k, b
  <2>4. CASE x = c /\ lt # <<>> /\ msg = Head(lt) /\ up2 = up /\ lt2 = Tail(lt)
    <3>1. r = t \/ \E m \in Downs : RepliesTo(m, Head(lt)) /\ r = Append(t, m) BY <2>4 DEF SaidTo
    <3> HIDE DEF k, b
    <3>2. AnswerLine(k, up, lt2, r, s, b) BY <1>1, <1>3, <2>0, <2>1, <2>4, <3>1, AnswerLate
    <3>3. s2 = s \/ s2 # "connected" \/ k.status # "connected" BY <2>2
    <3>4. AnswerLine(k, up, lt2, r, s2, b) BY <2>0, <3>2, <3>3, AnswerUntold
    <3>5. QED BY <2>4, <3>4 DEF k, b
  <2>5. CASE x = c /\ up # <<>> /\ msg = Head(up) /\ up2 = Tail(up) /\ lt2 = lt
    <3>1. r = t \/ \E m \in Downs : RepliesTo(m, Head(up)) /\ r = Append(t, m) BY <2>5 DEF SaidTo
    <3>2. Head(up).type = "push" /\ s2 = "connected" /\ k.status = "connected" => r # t
      <4>1. SUFFICES ASSUME msg.type = "push", s2 = "connected", k.status # "offline" PROVE r # t
        BY <1>3, <2>5
      <4>2. PICK m \in Downs : r = Append(t, m) BY <2>5, <4>1 DEF SaidTo
      <4>3. Len(r) = Len(t) + 1 /\ Len(t) \in Nat BY <4>2, AppendProperties
      <4>4. QED BY <4>3
    <3> HIDE DEF k, b
    <3>3. AnswerLine(k, up2, lt2, r, s2, b) BY <1>1, <2>0, <2>1, <2>2, <2>5, <3>1, <3>2, AnswerRead
    <3>4. QED BY <3>3 DEF k, b
  <2>6. QED BY <2>3, <2>4, <2>5
<1>4. QED BY <1>2, <1>3

\* A step of one client's that keeps its own line.
LEMMA AnswerMoves ==
  ASSUME LineInv, AnswerInv, NEW c \in Client, NEW k, NEW up, NEW lt, NEW q, NEW s, AnswerLine(k, up, lt, q, s, c \in cheated'),
         At(tab, tab', c, k), At(c2s, c2s', c, up), At(late, late', c, lt), At(s2c, s2c', c, q),
         At(session, session', c, s), \A x \in Client \ {c} : x \in cheated' <=> x \in cheated
  PROVE  AnswerInv'
<1>1. ASSUME NEW x \in Client PROVE AnswerLine(tab[x], c2s[x], late[x], s2c[x], session[x], x \in cheated)'
  <2>1. CASE x = c BY <2>1 DEF At, AnswerLine
  <2>2. CASE x # c
    <3>1. /\ tab'[x] = tab[x] /\ c2s'[x] = c2s[x] /\ late'[x] = late[x] /\ s2c'[x] = s2c[x]
          /\ session'[x] = session[x] /\ (x \in cheated' <=> x \in cheated)
      BY <2>2 DEF At
    <3>2. AnswerLine(tab[x], c2s[x], late[x], s2c[x], session[x], x \in cheated) BY DEF AnswerInv
    <3>3. QED BY <3>1, <3>2 DEF AnswerLine
  <2>3. QED BY <2>1, <2>2
<1>2. QED BY <1>1 DEF AnswerInv

-----------------------------------------------------------------------------
(* The actions keep the answers matched with the pushes.                   *)

\* Every line as LineInv has it.
LEMMA LinesAre ==
  ASSUME LineInv, NEW c \in Client
  PROVE  /\ Line(tab[c], c2s[c], late[c], s2c[c], session[c], c \in cheated, history, documentClock, lastDocumentClock)
         /\ DOMAIN tab = Client /\ DOMAIN c2s = Client /\ DOMAIN late = Client /\ DOMAIN s2c = Client
         /\ DOMAIN session = Client /\ documentClock \in Nat
BY DEF LineInv, LineOf, Sessions, Inv, storageTypeOK

\* The room reads, in order or from a replaced socket.
LEMMA ReadAnswers ==
  ASSUME LineInv, AnswerInv, NEW c \in Client, ReadSocket(c) \/ ReadReplacedSocket(c) PROVE AnswerInv'
<1> DEFINE n == documentClock
           msg == IF ReadSocket(c) THEN Head(c2s[c]) ELSE Head(late[c])
<1>1. /\ handleMessage(c, msg) /\ tab' = tab /\ misled' = misled
      /\ IF ReadSocket(c) THEN c2s[c] # <<>> /\ c2s' = [c2s EXCEPT ![c] = Tail(@)] /\ late' = late
         ELSE late[c] # <<>> /\ late' = [late EXCEPT ![c] = Tail(@)] /\ c2s' = c2s
  BY DEF ReadSocket, ReadReplacedSocket
<1>2. /\ Inv /\ Held /\ lastDocumentClock \in 0 .. n /\ session \in Sessions
      /\ \A x \in Client : s2c[x] \in Seq(Downs)
  BY OnWireIs DEF LineInv
<1>3. TabOK(tab[c]) /\ msg \in UpSet(tab[c], n)
  <2>1. Line(tab[c], c2s[c], late[c], s2c[c], session[c], c \in cheated, history, n, lastDocumentClock) BY LinesAre
  <2>2. TabOK(tab[c]) BY <2>1 DEF Line
  <2>3. CASE ReadSocket(c)
    <3>1. Head(c2s[c]) \in UpSet(tab[c], n) BY <1>1, <2>1, <2>3, LineReads
    <3>2. QED BY <2>2, <2>3, <3>1
  <2>4. CASE ~ReadSocket(c)
    <3>1. Head(late[c]) \in UpSet(tab[c], n) BY <1>1, <2>1, <2>4, LineReads
    <3>2. QED BY <2>2, <2>4, <3>1
  <2>5. QED BY <2>3, <2>4
<1>4. ASSUME NEW x \in Client
      PROVE  \/ x # c /\ c2s'[x] = c2s[x] /\ late'[x] = late[x]
             \/ x = c /\ c2s[x] # <<>> /\ msg = Head(c2s[x]) /\ c2s'[x] = Tail(c2s[x]) /\ late'[x] = late[x]
             \/ x = c /\ late[x] # <<>> /\ msg = Head(late[x]) /\ c2s'[x] = c2s[x] /\ late'[x] = Tail(late[x])
  <2>1. DOMAIN c2s = Client /\ DOMAIN late = Client BY LinesAre
  <2>2. QED BY <1>1, <2>1
<1> HIDE DEF msg
<1>5. ASSUME NEW x \in Client PROVE AnswerLine(tab[x], c2s'[x], late'[x], s2c'[x], session'[x], x \in cheated')
  <2>1. Line(tab[x], c2s[x], late[x], s2c[x], session[x], x \in cheated, history, n, lastDocumentClock) BY LinesAre
  <2>3. PICK t \in Seq(Downs) : SaidTo(c, msg, x, s2c[x], t, s2c'[x], session[x], session'[x])
    BY <1>1, <1>2, <1>3, RoomSays
  <2>4. AnswerLine(tab[x], c2s[x], late[x], s2c[x], session[x], x \in cheated) BY DEF AnswerInv
  <2> DEFINE up == c2s[x]
             lt == late[x]
             q == s2c[x]
             s == session[x]
             up2 == c2s'[x]
             lt2 == late'[x]
             r == s2c'[x]
             s2 == session'[x]
  <2>5. \/ x # c /\ up2 = up /\ lt2 = lt
        \/ x = c /\ up # <<>> /\ msg = Head(up) /\ up2 = Tail(up) /\ lt2 = lt
        \/ x = c /\ lt # <<>> /\ msg = Head(lt) /\ up2 = up /\ lt2 = Tail(lt)
    BY <1>4
  <2>6. /\ Line(tab[x], up, lt, q, s, x \in cheated, history, n, lastDocumentClock) /\ AnswerLine(tab[x], up, lt, q, s, x \in cheated)
        /\ SaidTo(c, msg, x, q, t, r, s, s2)
    BY <2>1, <2>3, <2>4
  <2> HIDE DEF up, lt, q, s, up2, lt2, r, s2, n
  <2>7. AnswerLine(tab[x], up2, lt2, r, s2, x \in cheated') BY <2>5, <2>6, AnswerSaid
  <2>8. QED BY <2>7 DEF up2, lt2, r, s2
<1>6. QED BY <1>1, <1>5 DEF AnswerInv

\* The room looks at the storage.
LEMMA BroadcastAnswers ==
  ASSUME LineInv, AnswerInv, broadcastExternalStorageChanges PROVE AnswerInv'
<1>1. catchUp /\ broadcast(nothing) /\ c2s' = c2s /\ late' = late /\ tab' = tab
  BY DEF broadcastExternalStorageChanges
<1>2. ASSUME NEW x \in Client PROVE AnswerLine(tab[x], c2s[x], late[x], s2c'[x], session'[x], x \in cheated)
  <2> DEFINE g == x \in cheated
  <2>0. g \in BOOLEAN OBVIOUS
  <2>1. Line(tab[x], c2s[x], late[x], s2c[x], session[x], x \in cheated, history, documentClock, lastDocumentClock) BY LinesAre
  <2>2. TabOK(tab[x]) /\ c2s[x] \in Seq(Ups) /\ s2c[x] \in Seq(Downs) BY <2>1, LineTypes
  <2>3. Updated(s2c[x], s2c'[x]) /\ session'[x] \in {session[x], "none"} BY <1>1, <2>2, CatchUpSays DEF LineInv
  <2>4. AnswerLine(tab[x], c2s[x], late[x], s2c[x], session[x], g) BY DEF AnswerInv
  <2>5. AnswerLine(tab[x], c2s[x], late[x], s2c'[x], session[x], g)
    <3> DEFINE k == tab[x]
               r == s2c'[x]
    <3>1. TabOK(k) /\ AnswerLine(k, c2s[x], late[x], s2c[x], session[x], g) /\ Updated(s2c[x], r) BY <2>2, <2>3, <2>4
    <3> HIDE DEF k, r, g
    <3>2. AnswerLine(k, c2s[x], late[x], r, session[x], g) BY <2>0, <2>2, <3>1, AnswerUpdated
    <3>3. QED BY <3>2 DEF k, r
  <2>6. session'[x] = session[x] \/ session'[x] # "connected" BY <2>3
  <2>7. AnswerLine(tab[x], c2s[x], late[x], s2c'[x], session'[x], g)
    <3> HIDE DEF g
    <3>1. QED BY <2>0, <2>5, <2>6, AnswerUntold
  <2>8. QED BY <2>7
<1>3. cheated' = cheated BY <1>1 DEF broadcast
<1>4. QED BY <1>1, <1>2, <1>3 DEF AnswerInv, AnswerLine

\* An edit, and a frame of the history reactor.
LEMMA RecordingAnswers ==
  ASSUME LineInv, AnswerInv, NEW c \in Client, Edit(c) \/ FlushHistory(c) PROVE AnswerInv'
<1> DEFINE k == tab[c]
<1>1. k \in Tabs /\ DOMAIN tab = Client /\ DOMAIN c2s = Client /\ DOMAIN late = Client /\ DOMAIN s2c = Client
      /\ DOMAIN session = Client
  BY LinesAre, LineTypes
<1>2. PICK z : /\ tab' = [tab EXCEPT ![c] = z]
               /\ z.pending = k.pending /\ z.status = k.status /\ z.requestId = k.requestId
  <2>1. CASE Edit(c)
    <3>1. PICK y : Edited(k, y) /\ tab' = [tab EXCEPT ![c] = IF setup.editsLag THEN y ELSE flushHistory(y)]
      BY <1>1, <2>1, EditIs
    <3> DEFINE z == IF setup.editsLag THEN y ELSE flushHistory(y)
    <3>2. y \in Tabs /\ Records(y, [k EXCEPT !.store = y.store]) BY <3>1 DEF Edited
    <3>3. Records(z, y) BY <3>2, FlushHistoryIs DEF Records
    <3> HIDE DEF z, k
    <3>4. z.pending = k.pending /\ z.status = k.status /\ z.requestId = k.requestId
      BY <1>1, <3>2, <3>3 DEF Records, Tabs
    <3>5. QED BY <3>1, <3>4 DEF z
  <2>2. CASE FlushHistory(c)
    <3> DEFINE z == flushHistory(k)
    <3>1. Records(z, k) /\ tab' = [tab EXCEPT ![c] = z] BY <1>1, <2>2, FlushHistoryIs DEF FlushHistory
    <3> HIDE DEF z
    <3>2. QED BY <3>1 DEF Records
  <2>3. QED BY <2>1, <2>2
<1>3. UNCHANGED <<session, c2s, s2c, late, cheated>> BY DEF Edit, FlushHistory, serverVars, netVars, outbox
<1>4. AnswerLine(k, c2s[c], late[c], s2c[c], session[c], c \in cheated) BY DEF AnswerInv
<1>5. AnswerLine(z, c2s[c], late[c], s2c[c], session[c], c \in cheated') BY <1>2, <1>3, <1>4 DEF AnswerLine
<1>6. At(tab, tab', c, z) /\ At(c2s, c2s', c, c2s[c]) /\ At(late, late', c, late[c]) /\ At(s2c, s2c', c, s2c[c])
      /\ At(session, session', c, session[c])
  BY <1>1, <1>2, <1>3, AtIs
<1>7. QED BY <1>3, <1>5, <1>6, AnswerMoves

\* A socket is lost, for whichever reason, ...
LEMMA LosingAnswers ==
  ASSUME LineInv, LineInv', AnswerInv, NEW c \in Client, NEW y, NEW sent, y.status = "offline",
         tab' = [tab EXCEPT ![c] = y], LoseSocket(c, sent), session' = session
  PROVE  AnswerInv'
<1> DEFINE lt == late[c] \o c2s[c] \o sent \o <<Close>>
<1>1. DOMAIN tab = Client /\ DOMAIN c2s = Client /\ DOMAIN late = Client /\ DOMAIN s2c = Client /\ DOMAIN session = Client
  BY LinesAre
<1>2. At(tab, tab', c, y) /\ At(session, session', c, session[c]) BY <1>1, AtIs
<1>3. /\ late' = [late EXCEPT ![c] = lt] /\ c2s' = [c2s EXCEPT ![c] = <<>>] /\ s2c' = [s2c EXCEPT ![c] = <<>>]
      /\ \A x \in Client \ {c} : x \in cheated' <=> x \in cheated
  BY DEF LoseSocket
<1> HIDE DEF lt
<1>4. At(late, late', c, lt) /\ At(c2s, c2s', c, <<>>) /\ At(s2c, s2c', c, <<>>) BY <1>1, <1>3, AtIs
<1>5. TabOK(y)
  <2>1. TabOK(tab'[c])
    <3>1. LineOf(c)' BY DEF LineInv
    <3>2. QED BY <3>1 DEF LineOf, Line, TabOK
  <2>2. tab'[c] = y BY <1>1
  <2>3. QED BY <2>1, <2>2
<1>6. AnswerLine(y, <<>>, lt, <<>>, session[c], c \in cheated') BY <1>5, AnswerOffline
<1>7. QED BY <1>2, <1>3, <1>4, <1>6, AnswerMoves

LEMMA DroppingAnswers ==
  ASSUME LineInv, AnswerInv, NEW c \in Client, Drop(c) \/ SeeClose(c) PROVE AnswerInv'
<1>1. tab' = [tab EXCEPT ![c] = resetConnection(@)] /\ LoseSocket(c, <<>>) /\ session' = session
  BY DEF Drop, SeeClose, serverVars
<1>2. LineInv' BY DropKeepsLines
<1>3. tab[c] \in Tabs BY LinesAre, LineTypes
<1> DEFINE y == resetConnection(tab[c])
<1>4. y.status = "offline" BY <1>3, ResetIs
<1>5. tab' = [tab EXCEPT ![c] = y] BY <1>1
<1> HIDE DEF y
<1>6. QED BY <1>1, <1>2, <1>4, <1>5, LosingAnswers

\* ... and another opened.
LEMMA ReconnectingAnswers ==
  ASSUME LineInv, AnswerInv, NEW c \in Client, Reconnect(c) PROVE AnswerInv'
<1> DEFINE k == tab[c]
           y == [k EXCEPT !.status = "connecting", !.requestId = @ + 1]
           up == <<ConnectRequest(y)>>
<1>1. /\ Line(k, c2s[c], late[c], s2c[c], session[c], c \in cheated, history, documentClock, lastDocumentClock)
      /\ DOMAIN tab = Client /\ DOMAIN c2s = Client /\ DOMAIN late = Client /\ DOMAIN s2c = Client
      /\ DOMAIN session = Client
  BY LinesAre
<1>2. /\ k.status = "offline" /\ tab' = [tab EXCEPT ![c] = y] /\ c2s' = [c2s EXCEPT ![c] = up]
      /\ session' = [session EXCEPT ![c] = "awaiting"] /\ s2c' = s2c /\ late' = late /\ cheated' = cheated
  BY DEF Reconnect, outbox
<1>3. s2c[c] = <<>> BY <1>1, <1>2 DEF Line
<1>4. AnswerLine(y, up, late[c], <<>>, "awaiting", c \in cheated')
  <2> HIDE DEF k
  <2>1. QED BY <1>1, <1>2, AnswerReconnects
<1> HIDE DEF y, up
<1>5. At(tab, tab', c, y) /\ At(late, late', c, late[c]) /\ At(session, session', c, "awaiting")
      /\ At(c2s, c2s', c, up) /\ At(s2c, s2c', c, <<>>)
  BY <1>1, <1>2, <1>3, AtIs
<1>6. QED BY <1>2, <1>4, <1>5, AnswerMoves

\* A tab reads a reply, or ignores what it reads.
LEMMA HeadAnswers ==
  ASSUME LineInv, AnswerInv, NEW c \in Client, ReadHead(c) PROVE AnswerInv'
<1> DEFINE k == tab[c]
           q == s2c[c]
           g == c \in cheated
           D == DownSet(history, k, documentClock)
           msg == Head(q)
           expected == msg.type = "connect" /\ msg.requestId = k.requestId /\ k.status = "connecting"
           y == IF expected THEN didReconnect(k, msg) ELSE k
<1>1. /\ Line(k, c2s[c], late[c], q, session[c], g, history, documentClock, lastDocumentClock)
      /\ DOMAIN tab = Client /\ DOMAIN c2s = Client /\ DOMAIN late = Client /\ DOMAIN s2c = Client
      /\ DOMAIN session = Client /\ g \in BOOLEAN
  BY LinesAre
<1>2. /\ q # <<>> /\ (msg.type = "connect" \/ k.status = "connecting")
      /\ tab' = [tab EXCEPT ![c] = y] /\ s2c' = [s2c EXCEPT ![c] = Tail(q)]
      /\ UNCHANGED <<session, c2s, late, cheated>>
  BY OnWireIs DEF ReadHead, serverVars
<1>3. q \in Seq(D) /\ k \in Tabs BY <1>1 DEF Line, TabOK
<1>4. msg = q[1] /\ msg \in D
  <2> HIDE DEF D
  <2>1. QED BY <1>2, <1>3, TailIs
<1>5. /\ y.pending = k.pending /\ y.requestId = k.requestId
      /\ IF expected THEN y.status = "connected" ELSE y.status = k.status
  <2>1. CASE expected
    <3>1. msg \in Replies BY <1>4, <2>1, UpsApart DEF DownSet
    <3>2. QED BY <1>3, <2>1, <3>1, ReconnectIs
  <2>2. CASE ~expected BY <2>2
  <2>3. QED BY <2>1, <2>2
<1> HIDE DEF y
<1>6. AnswerLine(k, c2s[c], late[c], q, session[c], g) BY DEF AnswerInv
<1>7. AnswerLine(y, c2s[c], late[c], Tail(q), session[c], g)
  <2> HIDE DEF k, q, g
  <2>1. QED BY <1>1, <1>2, <1>4, <1>5, <1>6, AnswerHeads
<1> DEFINE t == Tail(q)
<1>8. s2c' = [s2c EXCEPT ![c] = t] BY <1>2
<1> HIDE DEF t
<1>9. At(tab, tab', c, y) /\ At(late, late', c, late[c]) /\ At(session, session', c, session[c])
      /\ At(c2s, c2s', c, c2s[c]) /\ At(s2c, s2c', c, t)
  <2>1. At(tab, tab', c, y) /\ At(late, late', c, late[c]) /\ At(session, session', c, session[c])
    BY <1>1, <1>2, AtIs
  <2>2. At(c2s, c2s', c, c2s[c]) BY <1>1, <1>2, AtIs
  <2>3. At(s2c, s2c', c, t)
    <3>1. DOMAIN s2c = Client /\ s2c' = [s2c EXCEPT ![c] = t] BY <1>1, <1>8
    <3>2. QED BY <3>1 DEF At
  <2>4. QED BY <2>1, <2>2, <2>3
<1>10. AnswerLine(y, c2s[c], late[c], t, session[c], c \in cheated') BY <1>2, <1>7 DEF t, AnswerLine
<1>11. QED BY <1>2, <1>9, <1>10, AnswerMoves

\* A frame: what is unsent goes out and what has arrived is taken in, in either order.
LEMMA FlushAnswers ==
  ASSUME LineInv, AnswerInv, NEW c \in Client, NEW n \in 0 .. Len(onWire(c)), Flush(c, n) PROVE AnswerInv'
<1> DEFINE k == tab[c]
           up == c2s[c]
           lt == late[c]
           q == s2c[c]
           s == session[c]
           d == documentClock
           msgs == SubSeq(q, 1, n)
           rest == SubSeq(q, n + 1, Len(q))
           g == c \in cheated
           Kept(y, u, r) == Line(y, u, lt, r, s, g, history, d, lastDocumentClock)
           Says(y, u, r) == AnswerLine(y, u, lt, r, s, g)
<1>1. /\ k.status = "connected" /\ (\A i \in 1 .. n : msgs[i].type # "connect") /\ session' = session
      /\ \/ LET z == sendUnsentChanges(k) IN Framed(c, rebase(z, msgs), sentBy(k, z), n)
         \/ LET z == rebase(k, msgs) IN Framed(c, sendUnsentChanges(z), sentBy(z, sendUnsentChanges(z)), n)
  BY FlushIs
<1>2. /\ Kept(k, up, q) /\ d \in Nat /\ n \in 0 .. Len(q)
      /\ DOMAIN tab = Client /\ DOMAIN c2s = Client /\ DOMAIN late = Client /\ DOMAIN s2c = Client
      /\ DOMAIN session = Client /\ g \in BOOLEAN
  BY LinesAre, OnWireIs
<1>3. Says(k, up, q) BY DEF AnswerInv
<1>4. LineInv' BY FlushKeepsLines
<1>5. ASSUME NEW y, NEW sent, Framed(c, y, sent, n), y.status # "offline" => Says(y, up \o sent, rest)
      PROVE  AnswerInv'
  <2>1. tab' = [tab EXCEPT ![c] = y] BY <1>5 DEF Framed
  <2>2. CASE y.status = "offline"
    <3>1. LoseSocket(c, sent) BY <1>5, <2>2 DEF Framed
    <3>2. QED BY <1>1, <1>4, <2>1, <2>2, <3>1, LosingAnswers
  <2>3. CASE y.status # "offline"
    <3> DEFINE u == up \o sent
    <3>1. c2s' = [c2s EXCEPT ![c] = u] /\ s2c' = [s2c EXCEPT ![c] = rest] /\ late' = late /\ cheated' = cheated
      BY <1>5, <2>3 DEF Framed
    <3>2. Says(y, u, rest) BY <1>5, <2>3
    <3> HIDE DEF u, rest
    <3>3. At(tab, tab', c, y) /\ At(session, session', c, s) BY <1>1, <1>2, <2>1, AtIs
    <3>4. At(c2s, c2s', c, u) /\ At(late, late', c, lt) /\ At(s2c, s2c', c, rest) BY <1>2, <3>1, AtIs
    <3>5. AnswerLine(y, u, lt, rest, s, c \in cheated') BY <3>1, <3>2 DEF AnswerLine
    <3> HIDE DEF lt, s
    <3>6. QED BY <3>1, <3>3, <3>4, <3>5, AnswerMoves
  <2>4. QED BY <2>2, <2>3
<1> HIDE DEF k, up, lt, q, s, d, g
<1>6. CASE LET z == sendUnsentChanges(k) IN Framed(c, rebase(z, msgs), sentBy(k, z), n)
  <2> DEFINE z == sendUnsentChanges(k)
             sent == sentBy(k, z)
             y == rebase(z, msgs)
  <2>1. Framed(c, y, sent, n) BY <1>6
  <2>2. Kept(z, up \o sent, q) /\ z.status = "connected" BY <1>1, <1>2, SendKeeps
  <2>3. Says(z, up \o sent, q) BY <1>2, <1>3, AnswerSends
  <2> HIDE DEF z, sent
  <2>4. y.status # "offline" => Says(y, up \o sent, rest)
    BY <1>1, <1>2, <2>2, <2>3, AnswerRebases
  <2> HIDE DEF y, Says
  <2>5. QED BY <1>5, <2>1, <2>4
<1>7. CASE LET z == rebase(k, msgs) IN Framed(c, sendUnsentChanges(z), sentBy(z, sendUnsentChanges(z)), n)
  <2> DEFINE z == rebase(k, msgs)
             y == sendUnsentChanges(z)
             sent == sentBy(z, y)
  <2>1. Framed(c, y, sent, n) BY <1>7
  <2>2. \/ z.status = "connected" /\ Kept(z, up, rest)
        \/ /\ z.status = "offline"
           /\ \A after \in Seq(UpSet(k, d)) : \A b : Line(z, <<>>, after, <<>>, s, b, history, d, lastDocumentClock)
    BY <1>1, <1>2, RebaseKeeps
  <2>3. z.status # "offline" => Says(z, up, rest) BY <1>1, <1>2, <1>3, AnswerRebases
  <2> HIDE DEF z
  <2>4. CASE z.status = "connected" /\ Kept(z, up, rest)
    <3> HIDE DEF rest
    <3>1. Says(y, up \o sent, rest) BY <1>2, <2>3, <2>4, AnswerSends
    <3> HIDE DEF y, sent, Says
    <3>2. QED BY <1>5, <2>1, <3>1
  <2>5. CASE /\ z.status = "offline"
             /\ \A after \in Seq(UpSet(k, d)) : \A b : Line(z, <<>>, after, <<>>, s, b, history, d, lastDocumentClock)
    <3>1. <<>> \in Seq(UpSet(k, d)) OBVIOUS
    <3>2. Line(z, <<>>, <<>>, <<>>, s, g, history, d, lastDocumentClock) BY <2>5, <3>1
    <3>3. y.status = "offline" BY <2>5, <3>2, SendKeeps
    <3> HIDE DEF y, sent, Says
    <3>4. QED BY <1>5, <2>1, <3>3
  <2>6. QED BY <2>2, <2>4, <2>5
<1>8. QED BY <1>1, <1>6, <1>7

-----------------------------------------------------------------------------
(* Every push is answered once.                                            *)

LEMMA AnswersAtFirst == Init => AnswerInv
<1>1. SUFFICES ASSUME Init, NEW c \in Client PROVE AnswerLine(tab[c], c2s[c], late[c], s2c[c], session[c], c \in cheated)
  BY DEF AnswerInv
<1> DEFINE k == tab[c]
<1>2. /\ c2s[c] = <<>> /\ s2c[c] = <<>> /\ late[c] = <<>>
      /\ k.pending = <<>> /\ k.status \in {"offline", "connected"}
  BY <1>1 DEF Init, Fresh, nothing, ColdInit, WarmInit, Tab
<1> HIDE DEF k
<1>3. \A e : e = <<>> => Len(e) = 0 OBVIOUS
<1>4. Matched(k.pending, c2s[c], s2c[c]) BY <1>2, <1>3 DEF Matched, Sent, Heard
<1>5. AnswerLine(k, c2s[c], late[c], s2c[c], session[c], c \in cheated) BY <1>2, <1>3, <1>4 DEF AnswerLine
<1>6. QED BY <1>5 DEF k

LEMMA AnswersStep == SyncInv /\ AnswerInv /\ [Next]_vars => AnswerInv'
<1>1. SUFFICES ASSUME SyncInv, AnswerInv, [Next]_vars PROVE AnswerInv'
  OBVIOUS
<1>2. LineInv BY <1>1 DEF SyncInv
<1>3. CASE \E c \in Client : Edit(c) \/ FlushHistory(c) BY <1>1, <1>2, <1>3, RecordingAnswers
<1>4. CASE \E c \in Client : Drop(c) \/ SeeClose(c) BY <1>1, <1>2, <1>4, DroppingAnswers
<1>5. CASE \E c \in Client : Reconnect(c) BY <1>1, <1>2, <1>5, ReconnectingAnswers
<1>6. CASE \E c \in Client : ReadHead(c) BY <1>1, <1>2, <1>6, HeadAnswers
<1>7. CASE \E c \in Client : \E n \in 0 .. Len(onWire(c)) : Flush(c, n) BY <1>1, <1>2, <1>7, FlushAnswers
<1>8. CASE \E c \in Client : ReadSocket(c) \/ ReadReplacedSocket(c) BY <1>1, <1>2, <1>8, ReadAnswers
<1>9. CASE broadcastExternalStorageChanges BY <1>1, <1>2, <1>9, BroadcastAnswers
<1>10. CASE HostTransaction \/ Prune \/ UNCHANGED vars \/ \E c \in Client : FlushDataMessages(c)
  <2>1. tab' = tab /\ session' = session /\ c2s' = c2s /\ s2c' = s2c /\ late' = late /\ cheated' = cheated
    BY <1>10 DEF HostTransaction, Prune, FlushDataMessages, vars, serverVars, netVars, outbox
  <2>2. QED BY <1>1, <2>1 DEF AnswerInv
<1>11. QED BY <1>1, <1>3, <1>4, <1>5, <1>6, <1>7, <1>8, <1>9, <1>10 DEF Next, TabStep, RoomStep

LEMMA AnswersInvariant == Spec => [](SyncInv /\ AnswerInv)
<1>1. Init => SyncInv /\ AnswerInv BY InitSync, AnswersAtFirst
<1>2. (SyncInv /\ AnswerInv) /\ [Next]_vars => (SyncInv /\ AnswerInv)' BY SyncInvStep, AnswersStep
<1>3. QED BY <1>1, <1>2, PTL DEF Spec

\* The first `read` pushes of the queue p have one result each among q, in order.
Paired(p, read, q) ==
  \E at \in [1 .. read -> DOMAIN q] :
    /\ \A i, l \in 1 .. read : i < l => at[i] < at[l]
    /\ \A i \in DOMAIN p, j \in DOMAIN q : Answers(q[j], p[i]) <=> i <= read /\ at[i] = j

\* What it means that a queue and its answers match.
LEMMA MatchedIs ==
  ASSUME NEW k, TabOK(k), NEW up \in Seq(Ups), NEW q \in Seq(Downs), Matched(k.pending, up, q)
  PROVE  LET read == Len(k.pending) - Len(up)
         IN  read >= 0 /\ up = SubSeq(k.pending, read + 1, Len(k.pending)) /\ Paired(k.pending, read, q)
<1> DEFINE p == k.pending
           read == Len(p) - Len(up)
<1>1. /\ p \in Seq(Pushes) /\ Len(p) \in Nat /\ Len(up) \in Nat /\ Len(q) \in Nat /\ Increasing(p)
      /\ DOMAIN p = 1 .. Len(p) /\ DOMAIN q = 1 .. Len(q) /\ DOMAIN up = 1 .. Len(up)
      /\ \A i \in 1 .. Len(p) : p[i].clientClock \in Nat
  BY PushesIncrease
<1>2. Sent(p, up) /\ Heard(p, read, q) BY DEF Matched
<1> HIDE DEF p
<1>3. read \in 0 .. Len(p) BY <1>1, <1>2 DEF Sent
<1>4. up = SubSeq(p, read + 1, Len(p))
  <2> DEFINE v == SubSeq(p, read + 1, Len(p))
  <2>1. v \in Seq(Pushes) /\ Len(v) = Len(p) - read BY <1>1, <1>3
  <2>2. Len(v) = Len(up) BY <1>1, <2>1
  <2>3. ASSUME NEW i \in 1 .. Len(up) PROVE up[i] = v[i]
    <3>1. up[i] = p[read + i] BY <1>2 DEF Sent
    <3>2. v[i] = p[(read + 1) + i - 1] BY <1>1, <1>3, <2>2
    <3>3. (read + 1) + i - 1 = read + i BY <1>1, <1>3
    <3>4. QED BY <3>1, <3>2, <3>3
  <2> HIDE DEF v, read
  <2>4. up = v
    <3>1. \E S : up \in Seq(S) /\ v \in Seq(S)
      <4>1. up \in Seq(Ups) /\ v \in Seq(Ups) BY <2>1, SeqMonotonic DEF Ups
      <4>2. QED BY <4>1
    <3>2. QED BY <2>2, <2>3, <3>1
  <2>5. QED BY <2>4 DEF v
<1> DEFINE at == [i \in 1 .. read |-> CHOOSE j \in 1 .. Len(q) : Answers(q[j], p[i])]
<1>5. ASSUME NEW i \in 1 .. read PROVE at[i] \in 1 .. Len(q) /\ Answers(q[at[i]], p[i]) /\ i \in 1 .. Len(p)
  <2>1. \E j \in 1 .. Len(q) : Answers(q[j], p[i]) BY <1>2 DEF Heard
  <2>2. i \in 1 .. Len(p) BY <1>1, <1>3
  <2> HIDE DEF read
  <2>3. QED BY <2>1, <2>2
<1>6. at \in [1 .. read -> 1 .. Len(q)]
  <2> HIDE DEF read
  <2>1. \A i \in 1 .. read : (CHOOSE j \in 1 .. Len(q) : Answers(q[j], p[i])) \in 1 .. Len(q) BY <1>5
  <2>2. QED BY <2>1
<1> HIDE DEF at, read
<1>7. ASSUME NEW i \in 1 .. Len(p), NEW j \in 1 .. Len(q)
      PROVE  Answers(q[j], p[i]) <=> i <= read /\ at[i] = j
  <2>1. ASSUME Answers(q[j], p[i]) PROVE i <= read /\ at[i] = j
    <3>1. i <= read BY <1>2, <2>1 DEF Heard
    <3>2. i \in 1 .. read BY <1>1, <1>3, <3>1
    <3>3. at[i] \in 1 .. Len(q) /\ Answers(q[at[i]], p[i]) BY <1>5, <3>2
    <3>4. i <= i BY <1>1
    <3>5. at[i] <= j /\ j <= at[i] BY <1>2, <2>1, <3>3, <3>4 DEF Heard
    <3>6. QED BY <1>1, <3>1, <3>3, <3>5
  <2>2. ASSUME i <= read, at[i] = j PROVE Answers(q[j], p[i])
    <3>1. i \in 1 .. read BY <1>1, <1>3, <2>2
    <3>2. QED BY <1>5, <2>2, <3>1
  <2>3. QED BY <2>1, <2>2
<1>8. ASSUME NEW i \in 1 .. read, NEW l \in 1 .. read, i < l PROVE at[i] < at[l]
  <2>1. /\ at[i] \in 1 .. Len(q) /\ Answers(q[at[i]], p[i]) /\ i \in 1 .. Len(p)
        /\ at[l] \in 1 .. Len(q) /\ Answers(q[at[l]], p[l]) /\ l \in 1 .. Len(p)
    BY <1>5
  <2>2. at[i] <= at[l]
    <3>1. i <= l BY <1>3, <1>8
    <3>2. QED BY <1>2, <2>1, <3>1 DEF Heard
  <2>3. at[i] # at[l]
    <3>1. p[i].clientClock < p[l].clientClock BY <1>1, <1>8, <2>1 DEF Increasing
    <3>2. at[i] = at[l] => p[i].clientClock = p[l].clientClock BY <2>1 DEF Answers
    <3>3. QED BY <1>1, <2>1, <3>1, <3>2
  <2>4. QED BY <1>1, <2>1, <2>2, <2>3
<1>9. Paired(p, read, q) BY <1>1, <1>6, <1>7, <1>8 DEF Paired
<1>10. read >= 0 BY <1>1, <1>3
<1>11. QED BY <1>4, <1>9, <1>10 DEF p, read

\* A push is answered exactly once and in order while its socket lasts: of what
\* waits in pendingPushRequests the server has yet to read the end, and each of the
\* others has one result on the way: what the room answers to a replaced socket, its
\* news and its replies to old requests are never taken for one of them.  A tab whose
\* session a late connect request has replaced, queue and all, is not spoken of until
\* it opens another socket: a result may have been in that queue.
THEOREM PushesAreAnswered == Spec => []PushesAnswered
<1>1. ASSUME SyncInv, AnswerInv PROVE PushesAnswered
  <2>1. SUFFICES ASSUME NEW c \in Client \ cheated, tab[c].status = "connected", session[c] = "connected"
                 PROVE  LET waiting == tab[c].pending
                            read    == Len(waiting) - Len(c2s[c])
                            answers(j, i) == /\ s2c[c][j].type = "push_result"
                                             /\ s2c[c][j].clientClock = waiting[i].clientClock
                        IN  /\ read >= 0
                            /\ c2s[c] = SubSeq(waiting, read + 1, Len(waiting))
                            /\ \E at \in [1 .. read -> DOMAIN s2c[c]] :
                                 /\ \A i, l \in 1 .. read : i < l => at[i] < at[l]
                                 /\ \A i \in DOMAIN waiting, j \in DOMAIN s2c[c] :
                                      answers(j, i) <=> i <= read /\ at[i] = j
    BY DEF PushesAnswered
  <2> DEFINE k == tab[c]
             up == c2s[c]
             q == s2c[c]
  <2>2. Line(k, up, late[c], q, session[c], c \in cheated, history, documentClock, lastDocumentClock)
    BY <1>1, LinesAre DEF SyncInv
  <2>3. TabOK(k) /\ up \in Seq(Ups) /\ q \in Seq(Downs) BY <2>2, LineTypes
  <2>4. Matched(k.pending, up, q) BY <1>1, <2>1 DEF AnswerInv, AnswerLine
  <2> HIDE DEF k, up, q
  <2>5. LET read == Len(k.pending) - Len(up)
        IN  read >= 0 /\ up = SubSeq(k.pending, read + 1, Len(k.pending)) /\ Paired(k.pending, read, q)
    BY <2>3, <2>4, MatchedIs
  <2>6. QED BY <2>5 DEF Paired, Answers, k, up, q
<1>2. QED BY AnswersInvariant, <1>1, PTL

\* Only a connect request a replaced socket delivers late cheats a tab of messages: of
\* an older number than the tab's own, which has been answered by then.  What the three
\* theorems above leave out is that case and no other.
OnlyLateRequests ==
  [][\A c \in Client : c \in cheated' /\ c \notin cheated =>
       /\ answered(c)
       /\ late[c] # <<>> /\ late'[c] = Tail(late[c]) /\ c2s'[c] = c2s[c]
       /\ Head(late[c]).type = "connect" /\ Head(late[c]).requestId < tab[c].requestId]_vars

\* Who is cheated when the room reads a message.
LEMMA CheatedBy ==
  ASSUME NEW c \in Client, NEW msg, handleMessage(c, msg), NEW x \in cheated', x \notin cheated
  PROVE  x = c /\ msg.type = "connect" /\ answered(c)
<1>1. cheated' # cheated OBVIOUS
<1>2. CASE msg.type = "connect" /\ handleConnect(c, msg)
  <2>1. ~mustReconnect BY <1>1, <1>2 DEF handleConnect, outbox
  <2>2. cheated' = cheated \/ (answered(c) /\ cheated' = cheated \cup {c})
    BY <1>2, <2>1 DEF handleConnect
  <2>3. QED BY <1>1, <1>2, <2>2
<1>3. CASE msg.type = "push" /\ handlePush(c, msg)
  <2>1. cheated' = cheated BY <1>3 DEF handlePush, broadcast, outbox
  <2>2. QED BY <1>1, <2>1
<1>4. CASE UNCHANGED <<serverVars, outbox>> \/ broadcast(nothing) \/ handleClose(c)
  <2>1. cheated' = cheated BY <1>4 DEF broadcast, handleClose, outbox
  <2>2. QED BY <1>1, <2>1
<1>5. QED BY <1>2, <1>3, <1>4 DEF handleMessage

\* Only late connect requests cheat: no message of a tab's own socket ever finds its
\* session replaced over a queue the tab still needs.
THEOREM OnlyLateRequestsCheat == Spec => OnlyLateRequests
<1> DEFINE Late(c) == /\ answered(c)
                      /\ late[c] # <<>> /\ late'[c] = Tail(late[c]) /\ c2s'[c] = c2s[c]
                      /\ Head(late[c]).type = "connect" /\ Head(late[c]).requestId < tab[c].requestId
           ByLate == \A c \in Client : c \in cheated' /\ c \notin cheated => Late(c)
<1>1. ASSUME SyncInv, AnswerInv, Next PROVE ByLate
  <2>1. SUFFICES ASSUME NEW x \in Client, x \in cheated', x \notin cheated PROVE Late(x)
    OBVIOUS
  <2>2. LineInv BY <1>1 DEF SyncInv
  <2>3. PICK c \in Client : ReadSocket(c) \/ ReadReplacedSocket(c)
    <3>1. CASE \E c \in Client : Edit(c) \/ FlushHistory(c) \/ Reconnect(c) \/ ReadHead(c) \/ FlushDataMessages(c)
      <4>1. PICK c \in Client : Edit(c) \/ FlushHistory(c) \/ Reconnect(c) \/ ReadHead(c) \/ FlushDataMessages(c)
        BY <3>1
      <4>2. Edit(c) \/ FlushHistory(c) => cheated' = cheated BY DEF Edit, FlushHistory, netVars, outbox
      <4>3. Reconnect(c) => cheated' = cheated BY DEF Reconnect, outbox
      <4>4. ReadHead(c) => cheated' = cheated BY DEF ReadHead
      <4>5. FlushDataMessages(c) => cheated' = cheated BY DEF FlushDataMessages
      <4>6. QED BY <2>1, <4>1, <4>2, <4>3, <4>4, <4>5
    <3>2. CASE \E c \in Client : Drop(c) \/ SeeClose(c)
      BY <2>1, <3>2 DEF Drop, SeeClose, LoseSocket
    <3>3. CASE \E c \in Client : \E n \in 0 .. Len(onWire(c)) : Flush(c, n)
      <4>1. PICK c \in Client : \E n \in 0 .. Len(onWire(c)) : Flush(c, n) BY <3>3
      <4>2. \E y, sent, n : Framed(c, y, sent, n) BY <4>1, FlushIs
      <4>3. cheated' \subseteq cheated BY <4>2 DEF Framed, LoseSocket
      <4>4. QED BY <2>1, <4>3
    <3>4. CASE broadcastExternalStorageChanges \/ HostTransaction \/ Prune
      BY <2>1, <3>4 DEF broadcastExternalStorageChanges, HostTransaction, Prune, broadcast, netVars, outbox
    <3>5. QED BY <1>1, <3>1, <3>2, <3>3, <3>4 DEF Next, TabStep, RoomStep
  <2> DEFINE k == tab[c]
             q == s2c[c]
  <2>4. /\ Line(k, c2s[c], late[c], q, session[c], c \in cheated, history, documentClock, lastDocumentClock)
        /\ AnswerLine(k, c2s[c], late[c], q, session[c], c \in cheated)
        /\ DOMAIN late = Client
    BY <1>1, <2>2, LinesAre DEF AnswerInv
  <2>5. /\ c2s[c] \in Seq(Ups) /\ late[c] \in Seq(Ups) /\ q \in Seq(Downs)
        /\ k.status \in {"offline", "connecting", "connected"}
        /\ k.status = "offline" => c2s[c] = <<>> /\ q = <<>>
    <3> HIDE DEF k, q
    <3>1. c2s[c] \in Seq(Ups) /\ late[c] \in Seq(Ups) /\ q \in Seq(Downs) /\ k \in Tabs BY <2>4, LineTypes
    <3>2. k.status \in {"offline", "connecting", "connected"} BY <3>1 DEF Tabs
    <3>3. k.status = "offline" => c2s[c] = <<>> /\ q = <<>> BY <2>4 DEF Line
    <3>4. QED BY <3>1, <3>2, <3>3
  <2>6. answered(c) <=> k.status = "connected" \/ \E j \in 1 .. Len(q) : q[j].type = "connect" /\ q[j].requestId = k.requestId
    BY <2>5 DEF answered
  <2>7. CASE ReadSocket(c)
    <3>1. c2s[c] # <<>> /\ x = c /\ Head(c2s[c]).type = "connect" /\ answered(c)
      BY <2>1, <2>7, CheatedBy DEF ReadSocket
    <3>2. Head(c2s[c]) = c2s[c][1] /\ 1 \in 1 .. Len(c2s[c]) BY <2>5, <3>1, LaterOnes
    <3>3. k.status = "connecting" BY <2>4, <2>5, <3>1, <3>2 DEF AnswerLine
    <3>4. QED BY <2>4, <2>6, <3>1, <3>3 DEF AnswerLine
  <2>8. CASE ReadReplacedSocket(c)
    <3>1. /\ late[c] # <<>> /\ x = c /\ Head(late[c]).type = "connect" /\ answered(c)
          /\ late' = [late EXCEPT ![c] = Tail(@)] /\ c2s' = c2s
      BY <2>1, <2>8, CheatedBy DEF ReadReplacedSocket
    <3>2. Head(late[c]) = late[c][1] /\ 1 \in 1 .. Len(late[c]) BY <2>5, <3>1, LaterOnes
    <3>3. k.status # "offline"
      <4>1. k.status = "offline" => Len(q) = 0 BY <2>5
      <4>2. QED BY <2>6, <3>1, <4>1
    <3>4. Head(late[c]).requestId < k.requestId BY <2>4, <3>1, <3>2, <3>3 DEF AnswerLine
    <3>5. late'[c] = Tail(late[c]) BY <2>4, <3>1
    <3>6. QED BY <3>1, <3>4, <3>5
  <2>9. QED BY <2>3, <2>7, <2>8
<1>2. ASSUME SyncInv, AnswerInv, UNCHANGED vars PROVE ByLate
  BY <1>2 DEF vars, netVars, outbox
<1>3. QED BY AnswersInvariant, <1>1, <1>2, PTL DEF Spec, OnlyLateRequests
=============================================================================
