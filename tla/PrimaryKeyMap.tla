--------------------------- MODULE PrimaryKeyMap ---------------------------
(***************************************************************************)
(* The IDMap of a collection: a Pebble database from primary keys to       *)
(* document IDs.  A writable map works on a private copy of a checkpoint   *)
(* and keeps the set of its keys; a read-only map keeps what the log adds  *)
(* in an overlay.  Checkpoints, detached snapshots (the maps of document   *)
(* iterators) and ordered snapshot iterators are taken while others write. *)
(*                                                                         *)
(* Primary keys are numbers, in their order as strings.                    *)
(***************************************************************************)
EXTENDS Integers, Sequences, FiniteSets, Ordering

CONSTANTS
  PrimaryKeys,   \* primary keys; a key has at most 64 KiB, so they are finitely many
  StoredIDs,     \* document IDs of the checkpoint
  NewIDs,        \* document IDs that are written
  MapHandles,    \* PrimaryKeyMaps
  Paths,         \* paths of checkpoints
  MaxWrites      \* bound: writes

ASSUME KeyMapConstants ==
  /\ PrimaryKeys \subseteq Nat /\ IsFiniteSet(PrimaryKeys)
  /\ StoredIDs \cup NewIDs \subseteq Nat /\ MaxWrites \in Nat
  /\ MapHandles \subseteq Nat \ {0} /\ Paths \subseteq Nat \ {0} /\ 1 \in Paths

VARIABLES
  checkpoints,  \* path -> mapping; the paths that exist
  maps,         \* handle -> its PrimaryKeyMap
  iterator,     \* the PrimaryKeySnapshotIterator; one at a time
  calls,        \* handle -> its Checkpoint or CreateDetachedSnapshot in progress
  writes,       \* writes so far
  served        \* handle -> the mapping its callers expect (history)

keyMapVars == <<checkpoints, maps, iterator, calls, writes, served>>

Empty == [k \in {} |-> 0]
Mappings(ids) == UNION {[S -> ids] : S \in SUBSET PrimaryKeys}
With(f, k, x) == [j \in DOMAIN f \cup {k} |-> IF j = k THEN x ELSE f[j]]
Without(f, k) == [j \in DOMAIN f \ {k} |-> f[j]]

Alive(id) == [docID |-> id, deleted |-> FALSE]
Deleted == [docID |-> 0, deleted |-> TRUE]

NoMap == [open |-> FALSE, readOnly |-> FALSE, db |-> Empty, known |-> {}, overlay |-> Empty, count |-> 0]
NoIterator == [handle |-> 0, base |-> <<>>, overlay |-> Empty, overlayKeys |-> <<>>, got |-> <<>>, view |-> Empty]
NoCall == [stage |-> "none", path |-> 0, copy |-> 0, image |-> Empty, view |-> Empty]

-----------------------------------------------------------------------------
(* Lookups.                                                                *)

\* getLocked: the known keys answer for a writable map, the overlay for a
\* read-only one, before Pebble is asked.
Found(m, k) ==
  CASE ~m.readOnly /\ k \notin m.known -> FALSE
    [] m.readOnly /\ k \in DOMAIN m.overlay -> ~m.overlay[k].deleted
    [] OTHER -> k \in DOMAIN m.db

Lookup(m, k) == IF k \in DOMAIN m.overlay THEN m.overlay[k].docID ELSE m.db[k]

\* scanCount of an opened database.
Opened(db, readOnly) ==
  [NoMap EXCEPT !.open = TRUE, !.readOnly = readOnly, !.db = db,
                !.known = IF readOnly THEN {} ELSE DOMAIN db, !.count = Cardinality(DOMAIN db)]

\* ForEach: the base with the overlay put over it, then the rest of the overlay.
ForEach(m) ==
  LET base == {k \in DOMAIN m.db : k \notin DOMAIN m.overlay \/ ~m.overlay[k].deleted}
      rest == {k \in DOMAIN m.overlay \ DOMAIN m.db : ~m.overlay[k].deleted}
  IN  [k \in base \cup rest |-> Lookup(m, k)]

-----------------------------------------------------------------------------

KeyMapInit ==
  /\ checkpoints \in {[p \in {1} |-> mapping] : mapping \in Mappings(StoredIDs)}
  /\ maps = [h \in MapHandles |-> NoMap]
  /\ iterator = NoIterator
  /\ calls = [h \in MapHandles |-> NoCall]
  /\ writes = 0
  /\ served = [h \in MapHandles |-> Empty]

Unused(h) == ~maps[h].open /\ calls[h] = NoCall /\ \A g \in MapHandles : calls[g].copy # h

\* OpenPrimaryKeyMap, OpenPrimaryKeyMapReadOnly: both work on a copy.
Open(h, path, readOnly) ==
  /\ Unused(h)
  /\ path \in DOMAIN checkpoints
  /\ maps' = [maps EXCEPT ![h] = Opened(checkpoints[path], readOnly)]
  /\ served' = [served EXCEPT ![h] = checkpoints[path]]
  /\ UNCHANGED <<checkpoints, iterator, calls, writes>>

\* CreatePrimaryKeyMap.
Create(h) ==
  /\ Unused(h)
  /\ maps' = [maps EXCEPT ![h] = Opened(Empty, FALSE)]
  /\ served' = [served EXCEPT ![h] = Empty]
  /\ UNCHANGED <<checkpoints, iterator, calls, writes>>

WriteTo(h) == maps[h].open /\ writes < MaxWrites /\ writes' = writes + 1

\* A point is set, in the overlay or in Pebble.
SetPoint(m, k, id) ==
  IF m.readOnly THEN [m EXCEPT !.overlay = With(@, k, Alive(id))]
  ELSE [m EXCEPT !.db = With(@, k, id), !.known = @ \cup {k}]

Counted(m, n) == [m EXCEPT !.count = @ + n]

Put(h, k, id) ==
  /\ WriteTo(h)
  /\ maps' = [maps EXCEPT ![h] = Counted(SetPoint(@, k, id), IF Found(maps[h], k) THEN 0 ELSE 1)]
  /\ served' = [served EXCEPT ![h] = With(@, k, id)]
  /\ UNCHANGED <<checkpoints, iterator, calls>>

\* The write path has looked the key up.
PutNew(h, k, id) ==
  /\ WriteTo(h) /\ ~Found(maps[h], k)
  /\ maps' = [maps EXCEPT ![h] = Counted(SetPoint(@, k, id), 1)]
  /\ served' = [served EXCEPT ![h] = With(@, k, id)]
  /\ UNCHANGED <<checkpoints, iterator, calls>>

RemovePoint(m, k) ==
  Counted(IF m.readOnly THEN [m EXCEPT !.overlay = With(@, k, Deleted)]
          ELSE [m EXCEPT !.db = Without(@, k), !.known = @ \ {k}], -1)

Delete(h, k) ==
  /\ WriteTo(h) /\ Found(maps[h], k)
  /\ maps' = [maps EXCEPT ![h] = RemovePoint(@, k)]
  /\ served' = [served EXCEPT ![h] = Without(@, k)]
  /\ UNCHANGED <<checkpoints, iterator, calls>>

\* DocumentIterator.Close closes the iterator before its map.
CloseMap(h) ==
  /\ maps[h].open /\ iterator.handle # h
  /\ maps' = [maps EXCEPT ![h] = NoMap]
  /\ served' = [served EXCEPT ![h] = Empty]
  /\ UNCHANGED <<checkpoints, iterator, calls, writes>>

-----------------------------------------------------------------------------
(* Checkpoints and detached snapshots.  copy is the handle that opens the  *)
(* snapshot, 0 for a checkpoint; its directory is temporary.               *)

BeginCheckpoint(h, path) ==
  /\ maps[h].open /\ calls[h].stage = "none"
  /\ path \notin DOMAIN checkpoints /\ \A g \in MapHandles : calls[g].path # path
  /\ calls' = [calls EXCEPT ![h] = [NoCall EXCEPT !.stage = "begun", !.path = path]]
  /\ UNCHANGED <<checkpoints, maps, iterator, served, writes>>

BeginDetached(h, copy) ==
  /\ maps[h].open /\ calls[h].stage = "none"
  /\ Unused(copy)
  /\ calls' = [calls EXCEPT ![h] = [NoCall EXCEPT !.stage = "begun", !.copy = copy]]
  /\ UNCHANGED <<checkpoints, maps, iterator, served, writes>>

\* Under the lock: Pebble is flushed and copied aside.  A read-only map has
\* no checkpoint, and a snapshot of it is streamed.
TakeImage(h) ==
  /\ calls[h].stage = "begun" /\ maps[h].open
  /\ maps[h].readOnly => calls[h].copy # 0
  /\ calls' = [calls EXCEPT ![h].stage = "taken", ![h].view = served[h],
                            ![h].image = IF maps[h].readOnly THEN ForEach(maps[h]) ELSE maps[h].db]
  /\ UNCHANGED <<checkpoints, maps, iterator, served, writes>>

\* The temporary directory is renamed to its path, where it stays even if the
\* synchronization of the parent then fails and the caller gets an error.
Install(h) ==
  /\ calls[h].stage = "taken" /\ calls[h].copy = 0
  /\ checkpoints' = With(checkpoints, calls[h].path, calls[h].image)
  /\ calls' = [calls EXCEPT ![h] = NoCall]
  /\ UNCHANGED <<maps, iterator, served, writes>>

\* OpenPrimaryKeyMap on the copy.
OpenDetached(h) ==
  /\ calls[h].stage = "taken" /\ calls[h].copy # 0
  /\ maps' = [maps EXCEPT ![calls[h].copy] = Opened(calls[h].image, FALSE)]
  /\ served' = [served EXCEPT ![calls[h].copy] = calls[h].view]
  /\ calls' = [calls EXCEPT ![h] = NoCall]
  /\ UNCHANGED <<checkpoints, iterator, writes>>

\* The map was closed meanwhile or is read-only, the context ended, or a step
\* before the rename failed: nothing appears under the path.
Fail(h) ==
  /\ calls[h].stage # "none"
  /\ calls' = [calls EXCEPT ![h] = NoCall]
  /\ UNCHANGED <<checkpoints, maps, iterator, served, writes>>

-----------------------------------------------------------------------------
(* Snapshot iterators.                                                     *)

NewSnapshotIterator(h) ==
  /\ maps[h].open /\ iterator = NoIterator
  /\ LET m == maps[h]
         keys == Ascending(DOMAIN m.db)
     IN  iterator' =
           [handle |-> h, base |-> [i \in DOMAIN keys |-> <<keys[i], m.db[keys[i]]>>], overlay |-> m.overlay,
            overlayKeys |-> Ascending(DOMAIN m.overlay), got |-> <<>>, view |-> served[h]]
  /\ UNCHANGED <<checkpoints, maps, calls, served, writes>>

\* Mutant: a key of both is taken from the overlay and again from the base.
TakeOverlayTwice(i) ==
  /\ i.overlayKeys # <<>> /\ (i.base = <<>> \/ i.overlayKeys[1] <= i.base[1][1])

\* Next takes the smaller key; equal keys are taken from the overlay.
TakeBase(i) == i.base # <<>> /\ (i.overlayKeys = <<>> \/ i.base[1][1] < i.overlayKeys[1])
TakeOverlay(i) == i.overlayKeys # <<>> /\ (i.base = <<>> \/ i.overlayKeys[1] < i.base[1][1])

\* One round of the loop of Next; a deleted key gives no result.
Overlaid(i) ==
  LET k == i.overlayKeys[1]
  IN  IF i.overlay[k].deleted THEN i.got ELSE Append(i.got, <<k, i.overlay[k].docID>>)

Advanced(i) ==
  IF TakeBase(i) THEN [i EXCEPT !.base = Tail(@), !.got = Append(@, i.base[1])]
  ELSE IF TakeOverlay(i) THEN [i EXCEPT !.overlayKeys = Tail(@), !.got = Overlaid(i)]
  ELSE [i EXCEPT !.overlayKeys = Tail(@), !.base = Tail(@), !.got = Overlaid(i)]

Exhausted(i) == i.base = <<>> /\ i.overlayKeys = <<>>

NextKey ==
  /\ iterator # NoIterator /\ ~Exhausted(iterator)
  /\ iterator' = Advanced(iterator)
  /\ UNCHANGED <<checkpoints, maps, calls, served, writes>>

CloseIterator ==
  /\ iterator # NoIterator
  /\ iterator' = NoIterator
  /\ UNCHANGED <<checkpoints, maps, calls, served, writes>>

KeyMapNext ==
  \/ NextKey \/ CloseIterator
  \/ \E h \in MapHandles :
    \/ \E path \in Paths, readOnly \in BOOLEAN : Open(h, path, readOnly)
    \/ \E k \in PrimaryKeys, id \in NewIDs : Put(h, k, id) \/ PutNew(h, k, id)
    \/ \E k \in PrimaryKeys : Delete(h, k)
    \/ \E path \in Paths : BeginCheckpoint(h, path)
    \/ \E copy \in MapHandles \ {h} : BeginDetached(h, copy)
    \/ Create(h) \/ CloseMap(h) \/ TakeImage(h) \/ Install(h) \/ OpenDetached(h) \/ Fail(h)
    \/ NewSnapshotIterator(h)

KeyMapSpec == KeyMapInit /\ [][KeyMapNext]_keyMapVars

-----------------------------------------------------------------------------

\* Whatever mixture of checkpoint, log replay and writes a handle has seen, it
\* answers each lookup, counts and copies exactly the mapping its callers
\* wrote: the key set of a writable map never hides a stored key, and a key
\* that was deleted in an overlay stays deleted.  An exhausted iterator has
\* returned the mapping of the moment it was made, each key once and in order,
\* whatever was written since.
KeyMapExact ==
  /\ \A h \in MapHandles : maps[h].open =>
       /\ \A k \in PrimaryKeys : Found(maps[h], k) <=> k \in DOMAIN served[h]
       /\ \A k \in DOMAIN served[h] : Lookup(maps[h], k) = served[h][k]
       /\ maps[h].count = Cardinality(DOMAIN served[h])
       /\ ForEach(maps[h]) = served[h]
  /\ iterator # NoIterator /\ Exhausted(iterator) =>
       LET keys == Ascending(DOMAIN iterator.view)
       IN  iterator.got = [i \in DOMAIN keys |-> <<keys[i], iterator.view[keys[i]]>>]
=============================================================================
