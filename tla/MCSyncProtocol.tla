--------------------------- MODULE MCSyncProtocol ---------------------------
(* The sync protocol on small instances: see the MCSync*.cfg files.        *)
EXTENDS SyncProtocol, TLC

Records == [Prop -> Val]

\* Clients, ids, properties and values are only compared.
Symmetry ==
  Permutations(Client) \cup Permutations(RecordId) \cup Permutations(Prop) \cup Permutations(Val)

Setup(e, d, x, n) ==
  [warm |-> TRUE, editsLag |-> FALSE, overlap |-> FALSE, together |-> TRUE, prunes |-> TRUE,
   edits |-> e, drops |-> d, externals |-> x, connects |-> n]

\* Connected tabs edit property by property, the host writes, a socket drops.
Editing == [Setup(2, 1, 1, 4) EXCEPT !.together = FALSE]

\* Tabs connect for the first time, and old sockets outlive reconnects.
Sockets == [Setup(2, 1, 0, 3) EXCEPT !.warm = FALSE, !.overlap = TRUE, !.prunes = FALSE]

\* Edits reach the listeners a frame late; nobody has to reconnect.
Frames == [Setup(3, 0, 1, 1) EXCEPT !.editsLag = TRUE, !.prunes = FALSE]

EditingSetups   == {Editing, Sockets, Frames}
ConvergesSetups == {Setup(2, 1, 0, 4)}
TakenBackSetups == {Setup(4, 0, 0, 2)}
UnflushedSetups == {[Setup(2, 1, 0, 4) EXCEPT !.editsLag = TRUE]}
=============================================================================
