-------------------------------- MODULE Catalog --------------------------------
(***************************************************************************)
(* The catalogue behind /admin/products and the search: the product rows, the    *)
(* admin's page with its draft, the writes of AdminListingsService, the copy of    *)
(* the rows in Meilisearch, and the searches of the shop.                         *)
(*                                                                               *)
(* A row is its face (the fields of a card: name, price, ...), whether it is in    *)
(* the boutique, and whether it still tells its story (narrative, service           *)
(* history, date of certification: what the list of products does not select).   *)
(***************************************************************************)
EXTENDS Integers

CONSTANTS
  Listings,   \* slugs
  Admins,     \* pages of /admin/products
  Searches,   \* GET /products?q=, one each
  Faces,      \* what a card may say; a query asks for one of them
  MaxSaves,   \* bound: saves and toggles pressed
  MaxRestarts \* bound: restarts of the backend

VARIABLES
  row,          \* Product rows: face "none" while there is no row
  search,       \* the documents of the Meilisearch index
  bootstrapped, \* MeiliService.bootstrapped
  shelf,        \* what each page has loaded: cards only
  draft,        \* the draft open on each page
  write,        \* the request behind a page's save or toggle: where it stands
  query,        \* searches: what was asked, Meili's slugs, what was answered
  snapshot,     \* the cards a late bootstrap has read and not posted yet
  adrift,       \* (history) listings whose document may be old: see the causes
  saves, restarts

catalogVars == <<row, search, bootstrapped, shelf, draft, write, query, snapshot,
                 adrift, saves, restarts>>

NoRowYet == [face |-> "none", shown |-> FALSE, told |-> FALSE]
Card == [face : Faces \cup {"none"}, shown : BOOLEAN]
RowType == [face : Faces \cup {"none"}, shown : BOOLEAN, told : BOOLEAN]
CardOf(r) == [face |-> r.face, shown |-> r.shown]
NoCard == CardOf(NoRowYet)
Cards == [l \in Listings |-> CardOf(row[l])]

\* The requests of a page: its form's Save, and the toggle of one card.
Requests == Admins \X {"save", "toggle"}
NoListing == "nothing"
NoDraft == [l |-> NoListing, new |-> FALSE, row |-> NoRowYet]
NoWrite == [pc |-> "idle", l |-> NoListing, new |-> FALSE, row |-> NoRowYet]
NoQuery == [pc |-> "idle", q |-> "none", hits |-> {}, items |-> {}, loose |-> {}, since |-> {}]
Booters == Requests \cup Searches

ASSUME CatalogAssumption ==
  /\ "none" \notin Faces /\ Searches \cap Requests = {}
  /\ MaxSaves \in Nat /\ MaxRestarts \in Nat

NoSnapshot == [l \in Listings |-> NoCard]

CatalogTypeOK ==
  /\ row \in [Listings -> RowType] /\ search \in [Listings -> Card]
  /\ bootstrapped \in BOOLEAN
  /\ shelf \in [Admins -> [Listings -> Card]]
  /\ draft \in [Admins -> [l : Listings \cup {NoListing}, new : BOOLEAN, row : RowType]]
  /\ write \in [Requests -> [pc : {"idle", "sent", "found", "written", "audited", "snapped"},
                           l : Listings \cup {NoListing}, new : BOOLEAN, row : RowType]]
  /\ query \in [Searches -> [pc : {"idle", "asked", "snapped", "slugs", "contains", "answered"},
                             q : Faces \cup {"none"}, hits : SUBSET Listings,
                             items : SUBSET Listings, loose : SUBSET Listings,
                             since : SUBSET Listings]]
  /\ snapshot \in [Booters -> [Listings -> Card]]
  /\ adrift \subseteq Listings
  /\ saves \in 0..MaxSaves /\ restarts \in 0..MaxRestarts

CatalogInit ==
  /\ row \in [Listings -> {NoRowYet} \cup [face : Faces, shown : {TRUE}, told : {TRUE}]]
  /\ bootstrapped = TRUE
  /\ search = Cards
  /\ shelf = [a \in Admins |-> Cards]
  /\ draft = [a \in Admins |-> NoDraft]
  /\ write = [w \in Requests |-> NoWrite]
  /\ query = [s \in Searches |-> NoQuery]
  /\ snapshot = [b \in Booters |-> NoSnapshot]
  /\ adrift = {} /\ saves = 0 /\ restarts = 0

-----------------------------------------------------------------------------
(* The admin's page                                                            *)

\* The server renders the page, with the cards of the list: the story is not among them.
LoadShelf(a) ==
  /\ shelf' = [shelf EXCEPT ![a] = Cards]
  /\ UNCHANGED <<row, search, bootstrapped, draft, write, query, snapshot, adrift, saves, restarts>>

\* "+ Thêm sản phẩm": a listing with all its fields to be filled in.  An open draft covers
\* the list and its buttons.
OpenNew(a) ==
  /\ draft[a] = NoDraft
  /\ \E l \in Listings, f \in Faces :
       /\ shelf[a][l] = NoCard
       /\ draft' = [draft EXCEPT ![a] =
            [l |-> l, new |-> TRUE, row |-> [face |-> f, shown |-> TRUE, told |-> TRUE]]]
  /\ UNCHANGED <<row, search, bootstrapped, shelf, write, query, snapshot, adrift, saves, restarts>>

\* toDraft of a card: what the card does not hold is empty in the form.
OpenEdit(a) ==
  /\ draft[a] = NoDraft
  /\ \E l \in Listings :
       /\ shelf[a][l] # NoCard
       /\ draft' = [draft EXCEPT ![a] =
            [l |-> l, new |-> FALSE,
             row |-> [face |-> shelf[a][l].face, shown |-> shelf[a][l].shown, told |-> FALSE]]]
  /\ UNCHANGED <<row, search, bootstrapped, shelf, write, query, snapshot, adrift, saves, restarts>>

TypeFace(a) ==
  /\ draft[a] # NoDraft
  /\ \E f \in Faces : draft' = [draft EXCEPT ![a].row.face = f]
  /\ UNCHANGED <<row, search, bootstrapped, shelf, write, query, snapshot, adrift, saves, restarts>>

CloseDraft(a) ==
  /\ draft[a] # NoDraft
  /\ draft' = [draft EXCEPT ![a] = NoDraft]
  /\ UNCHANGED <<row, search, bootstrapped, shelf, write, query, snapshot, adrift, saves, restarts>>

\* busy disables Save, and nothing but Save.
PressSave(a) ==
  /\ draft[a] # NoDraft /\ write[<<a, "save">>] = NoWrite /\ saves < MaxSaves
  /\ saves' = saves + 1
  /\ write' = [write EXCEPT ![<<a, "save">>] =
       [pc |-> "sent", l |-> draft[a].l, new |-> draft[a].new, row |-> draft[a].row]]
  /\ UNCHANGED <<row, search, bootstrapped, shelf, draft, query, snapshot, adrift, restarts>>

\* toggleBoutique turns what the card shows, and sends that field alone.
PressToggle(a) ==
  /\ draft[a] = NoDraft
  /\ write[<<a, "toggle">>] = NoWrite /\ saves < MaxSaves
  /\ saves' = saves + 1
  /\ \E l \in Listings :
       /\ shelf[a][l] # NoCard
       /\ write' = [write EXCEPT ![<<a, "toggle">>] =
            [pc |-> "sent", l |-> l, new |-> FALSE,
             row |-> [NoRowYet EXCEPT !.shown = ~shelf[a][l].shown]]]
  /\ UNCHANGED <<row, search, bootstrapped, shelf, draft, query, snapshot, adrift, restarts>>

-----------------------------------------------------------------------------
(* createProduct and updateProduct                                             *)

\* Rows that were written and whose document is not sent yet, or rows read for a bootstrap.
Undelivered(l) ==
  \E w \in Requests : write[w].l = l /\ write[w].pc \in {"written", "audited", "snapped"}
Snapped ==
  {w \in Requests : write[w].pc = "snapped"} \cup {s \in Searches : query[s].pc = "snapped"}

Admin(w) == w[1]
IsToggle(w) == w[2] = "toggle"

\* The answer: a save that went well closes the draft, whichever is open by now.
Answers(w, ok) ==
  /\ write' = [write EXCEPT ![w] = NoWrite]
  /\ draft' = IF ok /\ ~IsToggle(w) THEN [draft EXCEPT ![Admin(w)] = NoDraft] ELSE draft

\* Is the slug taken, or is there such a product?
Looks(w) ==
  /\ write[w].pc = "sent"
  /\ IF (row[write[w].l].face = "none") = write[w].new
       THEN write' = [write EXCEPT ![w].pc = "found"] /\ UNCHANGED draft
       ELSE Answers(w, FALSE)
  /\ UNCHANGED <<row, search, bootstrapped, shelf, query, snapshot, adrift, saves, restarts>>

\* What becomes of the row: all that the form sends, or the one field.
NewRow(w) ==
  LET r == write[w].row IN
  IF IsToggle(w) THEN [row[write[w].l] EXCEPT !.shown = r.shown] ELSE r

WritesRow(w) ==
  /\ write[w].pc = "found"
  /\ LET l == write[w].l IN
     IF write[w].new /\ row[l].face # "none"
       THEN /\ Answers(w, FALSE)          \* the slug is unique in the table
            /\ UNCHANGED <<row, query, adrift>>
       ELSE /\ row' = [row EXCEPT ![l] = NewRow(w)]
            /\ write' = [write EXCEPT ![w].pc = "written", ![w].row = NewRow(w)]
            /\ adrift' = IF Undelivered(l) \/ Snapped # {} THEN adrift \cup {l} ELSE adrift
            /\ query' = [s \in Searches |-> [query[s] EXCEPT !.loose = @ \cup {l},
                                                               !.since = @ \cup {l}]]
            /\ UNCHANGED draft
  /\ UNCHANGED <<search, bootstrapped, shelf, snapshot, saves, restarts>>

\* The audit event; when it cannot be stored the request ends here, the row as written.
Audits(w) ==
  /\ write[w].pc = "written"
  /\ \/ /\ write' = [write EXCEPT ![w].pc = "audited"]
        /\ UNCHANGED <<draft, adrift>>
     \/ /\ Answers(w, FALSE)
        /\ adrift' = adrift \cup {write[w].l}
  /\ UNCHANGED <<row, search, bootstrapped, shelf, query, snapshot, saves, restarts>>

\* l's document is the last word on l: nothing older is under way.
Settles(l, b, card) ==
  /\ card = CardOf(row[l]) /\ Snapped \subseteq {b}
  /\ \A w \in Requests \ {b} : write[w].l = l => write[w].pc \in {"idle", "sent", "found"}

\* upsertProduct: the document of the row as it was written.
UpsertsOld(w) ==      \* defect: the document of the page's card, not of the written row
  /\ write[w].pc = "audited" /\ bootstrapped
  /\ search' = [search EXCEPT ![write[w].l] = shelf[Admin(w)][write[w].l]]
  /\ adrift' = {l \in adrift : l # write[w].l \/ ~Settles(l, w, CardOf(write[w].row))}
  /\ Answers(w, TRUE)
  /\ UNCHANGED <<row, bootstrapped, shelf, query, snapshot, saves, restarts>>
Upserts(w) ==
  /\ write[w].pc = "audited" /\ bootstrapped
  /\ search' = [search EXCEPT ![write[w].l] = CardOf(write[w].row)]
  /\ adrift' = {l \in adrift : l # write[w].l \/ ~Settles(l, w, CardOf(write[w].row))}
  /\ Answers(w, TRUE)
  /\ UNCHANGED <<row, bootstrapped, shelf, query, snapshot, saves, restarts>>

\* Meilisearch is away, or fails at it: logged, and the save is a success.
UpsertFails(w) ==
  /\ write[w].pc \in {"audited", "snapped"}
  /\ adrift' = adrift \cup {write[w].l}
  /\ snapshot' = [snapshot EXCEPT ![w] = NoSnapshot]
  /\ Answers(w, TRUE)
  /\ UNCHANGED <<row, search, bootstrapped, shelf, query, saves, restarts>>

-----------------------------------------------------------------------------
(* The index as a whole                                                        *)

Steps(b, pc) ==
  IF b \in Requests THEN write' = [write EXCEPT ![b].pc = pc] /\ UNCHANGED query
                  ELSE query' = [query EXCEPT ![b].pc = pc] /\ UNCHANGED write
Waits(b) == IF b \in Requests THEN write[b].pc = "audited" ELSE query[b].pc = "asked"

\* No bootstrap has succeeded since the start: the next upsert or search reads all rows ...
BootReads(b) ==
  /\ Waits(b) /\ ~bootstrapped
  /\ snapshot' = [snapshot EXCEPT ![b] = Cards]
  /\ Steps(b, "snapped")
  /\ UNCHANGED <<row, search, bootstrapped, shelf, draft, adrift, saves, restarts>>

\* ... and posts them over whatever the index holds by then.
BootPosts(b) ==
  /\ b \in Snapped
  /\ search' = snapshot[b] /\ bootstrapped' = TRUE
  /\ adrift' = {l \in adrift : Undelivered(l) \/ ~Settles(l, b, snapshot[b][l])}
  /\ snapshot' = [snapshot EXCEPT ![b] = NoSnapshot]
  /\ Steps(b, IF b \in Requests THEN "audited" ELSE "asked")
  /\ UNCHANGED <<row, shelf, draft, saves, restarts>>

\* The backend restarts.  onModuleInit, before the first request, indexes all rows or gives up.
Restart ==
  /\ restarts < MaxRestarts /\ restarts' = restarts + 1
  /\ write' = [w \in Requests |-> NoWrite]
  /\ query' = [s \in Searches |-> NoQuery]
  /\ snapshot' = [b \in Booters |-> NoSnapshot]
  /\ \/ search' = Cards /\ bootstrapped' = TRUE /\ adrift' = {}
     \/ bootstrapped' = FALSE /\ UNCHANGED <<search, adrift>>
  /\ UNCHANGED <<row, shelf, draft, saves>>

-----------------------------------------------------------------------------
(* ProductsService.list, with a query                                          *)

AsksShop(s) ==
  /\ query[s].pc = "idle"
  /\ \E f \in Faces : query' = [query EXCEPT ![s] = [NoQuery EXCEPT !.pc = "asked", !.q = f]]
  /\ UNCHANGED <<row, search, bootstrapped, shelf, draft, write, snapshot, adrift, saves,
                 restarts>>

\* searchSlugs, with the filter inBoutique.
SlugsRead(s) ==
  /\ query[s].pc = "asked" /\ bootstrapped
  /\ query' = [query EXCEPT ![s] = [@ EXCEPT !.pc = "slugs",
       !.hits = {l \in Listings : search[l].face = query[s].q /\ search[l].shown},
       !.loose = {l \in Listings : l \in adrift \/ Undelivered(l) \/ Snapped # {}}]]
  /\ UNCHANGED <<row, search, bootstrapped, shelf, draft, write, snapshot, adrift, saves,
                 restarts>>

\* Meilisearch is away: the database is asked for the words.
FallsBack(s) ==
  /\ query[s].pc \in {"asked", "snapped"}
  /\ query' = [query EXCEPT ![s] = [@ EXCEPT !.pc = "contains", !.loose = {}]]
  /\ snapshot' = [snapshot EXCEPT ![s] = NoSnapshot]
  /\ UNCHANGED <<row, search, bootstrapped, shelf, draft, write, adrift, saves, restarts>>

Answered(s, items) ==
  /\ query' = [query EXCEPT ![s] = [@ EXCEPT !.pc = "answered", !.hits = {}, !.since = {},
                                             !.items = items]]
  /\ UNCHANGED <<row, search, bootstrapped, shelf, draft, write, snapshot, adrift, saves,
                 restarts>>

\* listBySlugs, or the slugs as one condition more: the rows decide what is shown.
ListsBySlugs(s) ==
  /\ query[s].pc = "slugs"
  /\ Answered(s, {l \in query[s].hits : row[l].shown})

ListsContaining(s) ==
  /\ query[s].pc = "contains"
  /\ Answered(s, {l \in Listings : row[l].face = query[s].q /\ row[l].shown})

CatalogNext ==
  \/ \E a \in Admins : \/ LoadShelf(a) \/ OpenNew(a) \/ OpenEdit(a) \/ TypeFace(a)
                       \/ CloseDraft(a) \/ PressSave(a) \/ PressToggle(a)
  \/ \E w \in Requests : Looks(w) \/ WritesRow(w) \/ Audits(w) \/ Upserts(w) \/ UpsertFails(w)
  \/ \E b \in Booters : BootReads(b) \/ BootPosts(b)
  \/ \E s \in Searches : \/ AsksShop(s) \/ SlugsRead(s) \/ FallsBack(s) \/ ListsBySlugs(s)
                         \/ ListsContaining(s)
  \/ Restart

CatalogSpec == CatalogInit /\ [][CatalogNext]_catalogVars

-----------------------------------------------------------------------------
(* The index differs from the rows only while a write is on its way to it, or for   *)
(* a listing two writes or a write and a bootstrap crossed at, or whose document or   *)
(* audit event was lost (adrift); the next bootstrap, or the next write of it alone,   *)
(* brings it back.                                                             *)
DriftHasCause ==
  bootstrapped /\ Snapped = {} =>
    \A l \in Listings : l \in adrift \/ Undelivered(l) \/ search[l] = CardOf(row[l])

(* However old the index, no search of the shop brings up a listing that was out of  *)
(* the boutique when the rows were read.                                       *)
HiddenStaysHidden ==
  \A s \in Searches : query[s].pc = "answered" =>
    \A l \in query[s].items : row[l].shown \/ l \in query[s].since

(* A search finds what the boutique shows and the query asks for, and nothing else,  *)
(* but for listings written under it and those the index is adrift at.             *)
SearchTrue ==
  \A s \in Searches : query[s].pc = "answered" =>
    \A l \in Listings \ query[s].loose :
      l \in query[s].items <=> row[l].face = query[s].q /\ row[l].shown

(* The catalogue and its search: the three above.                              *)
CatalogSound == DriftHasCause /\ HiddenStaysHidden /\ SearchTrue

(* A listing keeps the service history and the certificate it came with            *)
(* (CONTEXT.md:14: a CPO piece comes "kèm chứng thư và lịch sử bảo dưỡng"), whatever     *)
(* card field the admin edits.                                                 *)
StoryKept == \A l \in Listings : row[l] # NoRowYet => row[l].told
=============================================================================
