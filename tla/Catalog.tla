------------------------------ MODULE Catalog ------------------------------
(***************************************************************************)
(* Menu items and their images: services/menu_catalog_service.py over      *)
(* repositories/menu_repository.py and the local storage of                *)
(* services/object_storage_service.py, with PostgreSQL.  An item is read   *)
(* whole and written back whole in another transaction.  An object is in   *)
(* three places, its bytes, its metadata file and its metadata row, which  *)
(* are written and removed one after the other.  What a client writes into *)
(* the image of an item is kept as it is when it begins with "object:".    *)
(***************************************************************************)
EXTENDS Naturals

CONSTANTS
  CatalogCalls,        \* requests at a time
  SeedItems,    \* items of menu.json
  NewItems,     \* ids that create_item generates
  MaxObjects    \* bound on the stored objects

ASSUME CatalogAssumption == SeedItems \cup NewItems # {} /\ MaxObjects \in Nat

VARIABLES
  items,     \* store_menu_items
  bytes,     \* object files
  meta,      \* metadata files
  objRow,    \* object_storage_metadata
  puts,      \* number of objects begun
  call       \* requests between two steps

catalogVars == <<items, bytes, meta, objRow, puts, call>>

MenuItems == SeedItems \cup NewItems
Objects == 1..MaxObjects
\* An object id that the storage never gave away.
Foreign == MaxObjects + 1
Images == 0..Foreign
Marks == {"none", "live", "deleted"}
Item == [state : {"never", "there", "gone"}, image : Images]
Putting == {"bytes", "meta", "row"}
Deleting == {"unlink", "markMeta", "markRow"}
Call == [pc : {"idle", "seed", "read", "write"} \cup Putting \cup Deleting,
         item : MenuItems, row : Item, obj : 0..MaxObjects]

CatalogTypeOK ==
  /\ items \in [MenuItems -> Item]
  /\ bytes \subseteq Objects
  /\ meta \in [Objects -> Marks] /\ objRow \in [Objects -> Marks]
  /\ puts \in 0..MaxObjects
  /\ call \in [CatalogCalls -> Call]

NoItem == [state |-> "never", image |-> 0]
Fresh == [NoItem EXCEPT !.state = "there"]
NoCall == [pc |-> "idle", item |-> CHOOSE i \in MenuItems : TRUE, row |-> NoItem, obj |-> 0]

CatalogInit ==
  /\ items = [i \in MenuItems |-> NoItem]
  /\ bytes = {}
  /\ meta = [o \in Objects |-> "none"]
  /\ objRow = [o \in Objects |-> "none"]
  /\ puts = 0
  /\ call = [c \in CatalogCalls |-> NoCall]

CallAt(c, pc) == call[c].pc = pc
CallGoes(c, pc) == call' = [call EXCEPT ![c].pc = pc]
CallEnds(c) == call' = [call EXCEPT ![c] = NoCall]
There(i) == items[i].state = "there"
Writes(c, i, row) == call' = [call EXCEPT ![c] = [@ EXCEPT !.pc = "write", !.item = i, !.row = row]]

\* ensure_seeded_scoped, which every reader of the menu calls.
SeedCheck(c) ==
  /\ CallAt(c, "idle")
  /\ ~\E i \in MenuItems : There(i)
  /\ CallGoes(c, "seed")
  /\ UNCHANGED <<items, bytes, meta, objRow, puts>>

\* replace_all_scoped deletes what others created since.
SeedWrite(c) ==
  /\ CallAt(c, "seed")
  /\ items' = [i \in MenuItems |-> IF i \in SeedItems THEN Fresh
                               ELSE IF There(i) THEN [items[i] EXCEPT !.state = "gone"]
                               ELSE items[i]]
  /\ CallEnds(c)
  /\ UNCHANGED <<bytes, meta, objRow, puts>>

\* The image in a client's payload: none, one that the storage gave to a client
\* before, deleted since or not, or an id of the client's own.  Nobody asks
\* whether the object exists.
ClientImages == {0, Foreign} \cup {o \in Objects : objRow[o] # "none"}

CreateItem(c, i, image) ==
  /\ CallAt(c, "idle")
  /\ i \in NewItems /\ items[i].state = "never"
  /\ \A d \in CatalogCalls : ~CallAt(d, "idle") => call[d].item # i
  /\ image \in ClientImages
  /\ Writes(c, i, [Fresh EXCEPT !.image = image])
  /\ UNCHANGED <<items, bytes, meta, objRow, puts>>

\* update_item with an image in the payload; without one, as in retire_item and
\* restore_item, the image that was read is written back.
ReadItem(c, i, image) ==
  /\ CallAt(c, "idle")
  /\ There(i)
  /\ image \in ClientImages \cup {items[i].image}
  /\ Writes(c, i, [items[i] EXCEPT !.image = image])
  /\ UNCHANGED <<items, bytes, meta, objRow, puts>>

UpsertItem(c) ==
  /\ CallAt(c, "write")
  /\ items' = [items EXCEPT ![call[c].item] = call[c].row]
  /\ CallEnds(c)
  /\ UNCHANGED <<bytes, meta, objRow, puts>>

\* upload_item_image looks the item up before it stores the bytes.
Upload(c, i) ==
  /\ CallAt(c, "idle")
  /\ There(i)
  /\ puts < MaxObjects
  /\ puts' = puts + 1
  /\ call' = [call EXCEPT ![c] = [NoCall EXCEPT !.pc = "bytes", !.item = i, !.obj = puts + 1]]
  /\ UNCHANGED <<items, bytes, meta, objRow>>

PutBytes(c) ==
  /\ CallAt(c, "bytes")
  /\ bytes' = bytes \cup {call[c].obj}
  /\ CallGoes(c, "meta")
  /\ UNCHANGED <<items, meta, objRow, puts>>

PutMeta(c) ==
  /\ CallAt(c, "meta")
  /\ meta' = [meta EXCEPT ![call[c].obj] = "live"]
  /\ CallGoes(c, "row")
  /\ UNCHANGED <<items, bytes, objRow, puts>>

PutRow(c) ==
  /\ CallAt(c, "row")
  /\ objRow' = [objRow EXCEPT ![call[c].obj] = "live"]
  /\ CallGoes(c, "read")
  /\ UNCHANGED <<items, bytes, meta, puts>>

\* Mutant of PutFails: the image is referred to although it was not stored.
PutFailsQuietly(c) ==
  /\ call[c].pc \in Putting
  /\ CallGoes(c, "read")
  /\ UNCHANGED <<items, bytes, meta, objRow, puts>>

PutFails(c) ==
  /\ call[c].pc \in Putting
  /\ CallEnds(c)
  /\ UNCHANGED <<items, bytes, meta, objRow, puts>>

ReferToImage(c) ==
  /\ CallAt(c, "read")
  /\ IF There(call[c].item)
       THEN Writes(c, call[c].item, [items[call[c].item] EXCEPT !.image = call[c].obj])
       ELSE CallEnds(c)
  /\ UNCHANGED <<items, bytes, meta, objRow, puts>>

\* delete and purge_expired, of an object whose put has returned.
DeleteObject(c, o) ==
  /\ CallAt(c, "idle")
  /\ meta[o] = "live"
  /\ \A d \in CatalogCalls : call[d].obj = o => ~CallAt(d, "row")
  /\ call' = [call EXCEPT ![c] = [NoCall EXCEPT !.pc = "unlink", !.obj = o]]
  /\ UNCHANGED <<items, bytes, meta, objRow, puts>>

Unlink(c) ==
  /\ CallAt(c, "unlink")
  /\ bytes' = bytes \ {call[c].obj}
  /\ CallGoes(c, "markMeta")
  /\ UNCHANGED <<items, meta, objRow, puts>>

MarkMeta(c) ==
  /\ CallAt(c, "markMeta")
  /\ meta' = [meta EXCEPT ![call[c].obj] = "deleted"]
  /\ CallGoes(c, "markRow")
  /\ UNCHANGED <<items, bytes, objRow, puts>>

MarkRow(c) ==
  /\ CallAt(c, "markRow")
  /\ objRow' = [objRow EXCEPT ![call[c].obj] = IF @ = "live" THEN "deleted" ELSE @]
  /\ CallEnds(c)
  /\ UNCHANGED <<items, bytes, meta, puts>>

CallDies(c) ==
  /\ ~CallAt(c, "idle") /\ call[c].pc \notin Putting
  /\ CallEnds(c)
  /\ UNCHANGED <<items, bytes, meta, objRow, puts>>

CatalogNext == \E c \in CatalogCalls :
  \/ SeedCheck(c) \/ SeedWrite(c) \/ UpsertItem(c) \/ CallDies(c)
  \/ PutBytes(c) \/ PutMeta(c) \/ PutRow(c) \/ PutFails(c) \/ ReferToImage(c)
  \/ Unlink(c) \/ MarkMeta(c) \/ MarkRow(c)
  \/ \E i \in MenuItems : Upload(c, i)
  \/ \E i \in MenuItems, image \in Images : CreateItem(c, i, image) \/ ReadItem(c, i, image)
  \/ \E o \in Objects : DeleteObject(c, o)

CatalogSpec == CatalogInit /\ [][CatalogNext]_catalogVars

-----------------------------------------------------------------------------
\* Wherever a request stops and whatever others write over it, no item refers to
\* an object of the storage that was not stored in all three places, and no
\* record calls an object deleted whose bytes are still there.  What a client
\* makes up is not looked up, and is no object of the storage.
ImagesAreStored ==
  /\ \A i \in MenuItems : LET o == items[i].image IN
       o \in Objects => meta[o] # "none" /\ objRow[o] # "none"
  /\ \A o \in Objects : "deleted" \in {meta[o], objRow[o]} => o \notin bytes
=============================================================================
