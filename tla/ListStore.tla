----------------------------- MODULE ListStore -----------------------------
(***************************************************************************)
(* The host's JSON stores (_JsonListStore in proactive.py: watches, alerts,    *)
(* tickets, tasks): a list in memory, a file, and a save that first takes in     *)
(* what the file has and memory has not, then purges, then writes.  A save that  *)
(* fails says nothing.  One process owns a store at a time.                    *)
(***************************************************************************)
EXTENDS Integers, SequencesExt, Recursions

CONSTANTS
  StoreCap,         \* items a store holds
  MaxItems          \* bound: items that are ever added

ASSUME StoreAssumption == StoreCap \in Nat \ {0} /\ MaxItems \in Nat

VARIABLES
  memory,           \* _items
  file,             \* what was written last
  added,            \* items added so far; an item is named by its number
  removed,          \* history: items removed on purpose
  unwritten,          \* the last save has failed
  slipped,          \* history: a removal was not saved, or a host stopped with unwritten changes
  overfull          \* history: more items were added than the store holds

storeVars == <<memory, file, added, removed, unwritten, slipped, overfull>>

\* open: an active watch, an open ticket or task.
Item == [id : 1 .. MaxItems, open : BOOLEAN]
Ids(items) == {items[i].id : i \in DOMAIN items}

StoreTypeOK ==
  /\ memory \in BoundedSeq(Item, StoreCap)
  /\ file \in BoundedSeq(Item, StoreCap)
  /\ added \in 0 .. MaxItems
  /\ removed \subseteq 1 .. added
  /\ unwritten \in BOOLEAN /\ slipped \in BOOLEAN /\ overfull \in BOOLEAN

StoreInit ==
  /\ memory = <<>> /\ file = <<>>
  /\ added = 0
  /\ removed = {}
  /\ unwritten = FALSE /\ slipped = FALSE /\ overfull = FALSE

-----------------------------------------------------------------------------
\* items[-cap:]
Capped(items) ==
  IF Len(items) > StoreCap THEN SubSeq(items, Len(items) - StoreCap + 1, Len(items)) ELSE items

\* _merge_from_disk_locked: items of the file that memory lacks come last, then the cap.
Merged(items) ==
  Capped(items \o Sift(file, {x \in Item : x.id \notin Ids(items)}))

\* defect: what is purged is not purged from what the file brought back
SaveWithoutPurge(items, purged) ==
  /\ memory' = Merged(items)
  /\ file' = memory'
  /\ unwritten' = FALSE

\* save: merged, purged and written under the lock.
Save(items, purged) ==
  /\ memory' = Sift(Merged(items), {x \in Item : x.id \notin purged})
  /\ file' = memory'
  /\ unwritten' = FALSE

\* A full disk or a file that cannot be locked: memory has the change, the file has not.
SaveFails(items) ==
  /\ memory' = items
  /\ unwritten' = TRUE
  /\ UNCHANGED file

\* _add
AddItem ==
  /\ added < MaxItems
  /\ added' = added + 1
  /\ overfull' = (overfull \/ Len(memory) >= StoreCap)
  /\ LET items == Capped(Append(memory, [id |-> added', open |-> TRUE]))
     IN Save(items, {}) \/ SaveFails(items)
  /\ UNCHANGED <<removed, slipped>>

\* deactivate, resolve, complete: the item found first is changed in place.
CloseItem(i) ==
  /\ memory[i].open
  /\ LET items == [memory EXCEPT ![i].open = FALSE] IN Save(items, {}) \/ SaveFails(items)
  /\ UNCHANGED <<added, removed, slipped, overfull>>

\* remove, and trim_before of what is older than a cutoff.
RemoveItems(gone) ==
  /\ gone # {}
  /\ LET items == Sift(memory, {x \in Item : x.id \notin gone})
     IN Save(items, gone) \/ SaveFails(items)
  /\ slipped' = (slipped \/ unwritten')
  /\ removed' = removed \cup gone
  /\ UNCHANGED <<added, overfull>>

RemoveItem(id) == id \in Ids(memory) /\ RemoveItems({id})

TrimBefore(id) == RemoveItems({x \in Ids(memory) : x < id})

\* The host starts: the file is what there is.
LoadStore ==
  /\ memory' = Capped(file)
  /\ slipped' = (slipped \/ unwritten)
  /\ UNCHANGED <<file, added, removed, unwritten, overfull>>

StoreNext ==
  \/ AddItem \/ LoadStore
  \/ \E i \in DOMAIN memory : CloseItem(i)
  \/ \E id \in 1 .. MaxItems : RemoveItem(id) \/ TrimBefore(id)

StoreSpec == StoreInit /\ [][StoreNext]_storeVars

-----------------------------------------------------------------------------
(* The store holds exactly what was added and not removed: the merge with the    *)
(* file neither loses an item nor brings a removed one back, and a save that      *)
(* failed is made good by the next one.  Not so once the store has been full,     *)
(* a removal could not be saved, or the host stopped before a failed save was     *)
(* made good.                                                               *)
StoreHolds ==
  ~slipped /\ ~overfull =>
    /\ Ids(memory) = (1 .. added) \ removed
    /\ ~unwritten => file = memory
=============================================================================
