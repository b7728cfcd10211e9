------------------------------ MODULE Pricing ------------------------------
(* List prices, and everything that moves them: the admin's own edits         *)
(* (backend/src/admin/admin-listings.service.ts), promotions that are created *)
(* with a snapshot of the regular prices and closed by the cron or the admin  *)
(* (admin-promotions.service.ts, promotion-expire.service.ts), and the        *)
(* merchant agent's staged changes, which an operator approves or discards    *)
(* (agent/aurel_agents/merchant/backend.py, host.py).                         *)
(*                                                                            *)
(* A price is a record: the regular amount it comes from, and how many        *)
(* promotions' discounts it carries.  Every HTTP call or query of an approval *)
(* is a step of its own, so that edits, closings, other approvals and a       *)
(* restart of the agent host may fall between any two of them.                *)
EXTENDS Naturals, FiniteSets, Functions

CONSTANTS Products,    \* slugs
          Usd,         \* the regular amounts an admin or the agent may set
          MaxOff,      \* bound: discounts stacked on one price
          MaxChange,   \* bound: staged changes the ledger holds
          MaxPromo,    \* bound: rows of the promotion table
          Approvers,   \* approvals the host may be serving at one time
          Closers,     \* who closes promotions: the cron and the admin
          Cron,        \* the one of them that is the cron
          None

ASSUME PricingAssumption ==
    /\ IsFiniteSet(Products) /\ Usd # {}
    /\ MaxOff \in Nat /\ MaxChange \in Nat /\ MaxPromo \in Nat
    /\ Cron \in Closers

VARIABLES
    price,      \* [Products -> Price]: Product.priceUsd
    promos,     \* [Promos -> row or None]: the Promotion table
    changes,    \* [Changes -> change or None]: ChangeLedger._changes, in memory
    saved,      \* the same, as last written to ledger-merchant.json
    approval,   \* [Approvers -> the apply_change call each is serving]
    closing,    \* [Closers -> the promotion it has read as active, or None]
    written,    \* history: the items approvals have written, per change
    strayed     \* history: products an approval priced after its own promotion was closed

ledger == <<changes, saved>>
history == <<written, strayed>>
vars == <<price, promos, changes, saved, approval, closing, written, strayed>>

Changes == 1..MaxChange
Promos == 1..MaxPromo

Price == [usd : Usd, off : 0..MaxOff]
Regular(u) == [usd |-> u, off |-> 0]
Discounted(p) == [p EXCEPT !.off = @ + 1]

Items == (SUBSET Products) \ {{}}
Prices == UNION {[S -> Price] : S \in Items}

Change == [kind : {"price", "promo"}, before : Prices, after : Prices,
           status : {"staged", "applied", "discarded"}]
Promotion == [active : BOOLEAN, ended : BOOLEAN, snapshot : Prices]

ASSUME NoneAssumption == None \notin Promos \union Change \union Promotion

Idle == [pc |-> "idle"]
Call == [pc : {"check", "overlap", "snapshot", "create", "patch", "apply"},
         id : Changes, todo : SUBSET Products, snapshot : Prices,
         promo : Promos \union {None},
         unseen : SUBSET Products,   \* history: items the check could not read
         moved : SUBSET Products]    \* history: items that moved after their check

TypeOK ==
    /\ price \in [Products -> Price]
    /\ promos \in [Promos -> Promotion \union {None}]
    /\ changes \in [Changes -> Change \union {None}]
    /\ saved \in [Changes -> Change \union {None}]
    /\ approval \in [Approvers -> Call \union {Idle}]
    /\ closing \in [Closers -> Promos \union {None}]
    /\ written \in [Changes -> SUBSET Products]
    /\ strayed \subseteq Products

Init ==
    /\ price \in [Products -> {Regular(u) : u \in Usd}]
    /\ promos = [p \in Promos |-> None]
    /\ changes = [i \in Changes |-> None]
    /\ saved = changes
    /\ approval = [a \in Approvers |-> Idle]
    /\ closing = [c \in Closers |-> None]
    /\ written = [i \in Changes |-> {}]
    /\ strayed = {}

-----------------------------------------------------------------------------
(* Every write of a price goes through SetPrices, which also notes, for each  *)
(* approval in flight, the checked items that moved under it.                 *)

ItemsOf(i) == DOMAIN changes[i].before
Serving(a) == approval[a] # Idle
Covers(p, s) == promos[p] # None /\ s \in DOMAIN promos[p].snapshot
ActiveOver(s) == {p \in Promos : Covers(p, s) /\ promos[p].active}

Checked(r) == IF r.pc = "check" THEN ItemsOf(r.id) \ r.todo ELSE ItemsOf(r.id)

Noting(calls, new) ==
    [a \in Approvers |->
        IF calls[a] = Idle THEN Idle
        ELSE [calls[a] EXCEPT !.moved = @ \union
                 {s \in DOMAIN new \intersect Checked(calls[a]) : new[s] # price[s]}]]

SetPrices(new) == price' = [s \in Products |-> IF s \in DOMAIN new THEN new[s] ELSE price[s]]

(* PATCH /admin/products/:slug by an admin *)
EditPrice(s, u) ==
    /\ price[s] # Regular(u)
    /\ SetPrices([t \in {s} |-> Regular(u)])
    /\ approval' = Noting(approval, [t \in {s} |-> Regular(u)])
    /\ UNCHANGED <<promos, ledger, closing, history>>

-----------------------------------------------------------------------------
(* The merchant agent stages a change: it reads the products, records the     *)
(* values it saw and the ones it proposes.  The id is the ledger's sequence.  *)

IsNextId(i) == changes[i] = None /\ \A j \in Changes : j < i => changes[j] # None

Stage(change) == \E i \in Changes :
    /\ IsNextId(i)
    /\ changes' = [changes EXCEPT ![i] = change]
    /\ written' = [written EXCEPT ![i] = {}]
    /\ UNCHANGED <<price, promos, saved, approval, closing, strayed>>

StagePriceUpdate(S, u) ==
    Stage([kind |-> "price", status |-> "staged", before |-> Restrict(price, S),
           after |-> [s \in S |-> Regular(u)]])

StagePromotion(S) ==
    /\ \A s \in S : price[s].off < MaxOff
    /\ Stage([kind |-> "promo", status |-> "staged", before |-> Restrict(price, S),
              after |-> [s \in S |-> Discounted(price[s])]])

(* The end of a merchant turn persists the ledger. *)
TurnEnds ==
    /\ saved # changes
    /\ saved' = changes
    /\ UNCHANGED <<price, promos, changes, approval, closing, history>>

Resolve(i, how) == changes' = [changes EXCEPT ![i].status = how]
IsStaged(i) == changes[i] # None /\ changes[i].status = "staged"

(* Discarding on the portal persists the ledger at once; the discard_change   *)
(* tool of a chat turn leaves that to the end of the turn.                    *)
DiscardChange(i, inChat) ==
    /\ IsStaged(i)
    /\ Resolve(i, "discarded")
    /\ saved' = IF inChat THEN saved ELSE changes'
    /\ UNCHANGED <<price, promos, approval, closing, history>>

-----------------------------------------------------------------------------
(* apply_change: look the change up, compare every item with the value it was *)
(* staged against, create the promotion, write every price, then mark the     *)
(* ledger.                                                                    *)

At(a, pc) == Serving(a) /\ approval[a].pc = pc
Ends(a) == approval' = [approval EXCEPT ![a] = Idle]
ChangeOf(a) == changes[approval[a].id]
AfterCheckPatches(a) == "patch"  \* defect: the prices are written without a promotion row
AfterCheck(a) == IF ChangeOf(a).kind = "promo" THEN "overlap" ELSE "patch"

Approve(a, i) ==
    /\ ~Serving(a)
    /\ IsStaged(i)
    /\ approval' = [approval EXCEPT ![a] =
           [pc |-> "check", id |-> i, todo |-> ItemsOf(i), snapshot |-> changes[i].before,
            promo |-> None, unseen |-> {}, moved |-> {}]]
    /\ UNCHANGED <<price, promos, ledger, closing, history>>

Passes(a, s, unseen) ==
    LET left == approval[a].todo \ {s} IN
    /\ approval' = [approval EXCEPT
           ![a].todo = IF left = {} THEN ItemsOf(approval[a].id) ELSE left,
           ![a].pc = IF left = {} THEN AfterCheck(a) ELSE "check",
           ![a].unseen = @ \union unseen]
    /\ UNCHANGED <<price, promos, ledger, closing, history>>

Unmoved(a, s) == price[s] = ChangeOf(a).before[s]

CheckItemAnyValue(a, s) ==       \* defect: the item passes whatever its value
    /\ At(a, "check") /\ s \in approval[a].todo
    /\ Passes(a, s, {})

CheckItem(a, s) ==
    /\ At(a, "check") /\ s \in approval[a].todo
    /\ Unmoved(a, s)
    /\ Passes(a, s, {})

(* The row is looked up by a text search for its slug, which may not find it  *)
(* or may fail: the item is then not checked.                                 *)
SearchMisses(a, s) ==
    /\ At(a, "check") /\ s \in approval[a].todo
    /\ Passes(a, s, {s})

RefuseDrift(a, s) ==
    /\ At(a, "check") /\ s \in approval[a].todo
    /\ ~Unmoved(a, s)
    /\ Ends(a)
    /\ UNCHANGED <<price, promos, ledger, closing, history>>

(* createPromotion: the clash query, the snapshot query, the insert. *)
Clashes(S) ==
    \E p \in Promos, s \in S : p \in ActiveOver(s) /\ ~promos[p].ended

ReadOverlap(a) ==
    /\ At(a, "overlap")
    /\ IF Clashes(approval[a].todo) THEN Ends(a)
       ELSE approval' = [approval EXCEPT ![a].pc = "snapshot"]
    /\ UNCHANGED <<price, promos, ledger, closing, history>>

ReadSnapshot(a) ==
    /\ At(a, "snapshot")
    /\ approval' = [approval EXCEPT ![a].pc = "create",
                                    ![a].snapshot = Restrict(price, approval[a].todo)]
    /\ UNCHANGED <<price, promos, ledger, closing, history>>

(* The drafted dates may already lie in the past: only their order is checked. *)
CreatePromotion(a, p, ended) ==
    /\ At(a, "create")
    /\ promos[p] = None /\ \A q \in Promos : q < p => promos[q] # None
    /\ promos' = [promos EXCEPT ![p] =
           [active |-> TRUE, ended |-> ended, snapshot |-> approval[a].snapshot]]
    /\ approval' = [approval EXCEPT ![a].pc = "patch", ![a].promo = p]
    /\ UNCHANGED <<price, ledger, closing, history>>

Strays(a) == approval[a].promo # None /\ ~promos[approval[a].promo].active

PatchItem(a, s) ==
    LET left == approval[a].todo \ {s}
        new == [t \in {s} |-> ChangeOf(a).after[s]]
    IN
    /\ At(a, "patch") /\ s \in approval[a].todo
    /\ SetPrices(new)
    /\ approval' = Noting([approval EXCEPT
           ![a].todo = left, ![a].pc = IF left = {} THEN "apply" ELSE "patch"], new)
    /\ written' = [written EXCEPT ![approval[a].id] = @ \union {s}]
    /\ strayed' = IF Strays(a) THEN strayed \union {s} ELSE strayed
    /\ UNCHANGED <<promos, ledger, closing>>

MarkAppliedUnsaved(a) ==         \* defect: the ledger file is not written
    /\ At(a, "apply")
    /\ IF IsStaged(approval[a].id)
       THEN Resolve(approval[a].id, "applied") /\ UNCHANGED saved
       ELSE UNCHANGED ledger
    /\ Ends(a)
    /\ UNCHANGED <<price, promos, closing, history>>

MarkApplied(a) ==
    /\ At(a, "apply")
    /\ IF IsStaged(approval[a].id)
       THEN Resolve(approval[a].id, "applied") /\ saved' = changes'
       ELSE UNCHANGED ledger
    /\ Ends(a)
    /\ UNCHANGED <<price, promos, closing, history>>

ApprovalCarriesOn(a) ==          \* defect: a failed call is taken for a write
    /\ Serving(a) /\ approval[a].pc \notin {"check", "apply"}
    /\ approval' = [approval EXCEPT ![a].pc = "apply"]
    /\ UNCHANGED <<price, promos, ledger, closing, history>>

(* An HTTP call to the backend fails: the approval answers 400 where it is.  A *)
(* failing call of the drift check counts as a row that was not found.         *)
ApprovalFails(a) ==
    /\ Serving(a) /\ approval[a].pc \notin {"check", "apply"}
    /\ Ends(a)
    /\ UNCHANGED <<price, promos, ledger, closing, history>>

(* The agent host stops and starts again from the file.  It may stop inside   *)
(* write_text, which leaves a file that does not parse: the ledger is lost.   *)
HostRestarts(torn) ==
    /\ saved' = IF torn THEN [i \in Changes |-> None] ELSE saved
    /\ changes' = saved'
    /\ approval' = [a \in Approvers |-> Idle]
    /\ UNCHANGED <<price, promos, closing, history>>

-----------------------------------------------------------------------------
(* closePromotion: reads the row, then restores and deactivates in one        *)
(* transaction.  The cron closes what has ended, the admin what he likes.     *)

PromotionEnds(p) ==
    /\ promos[p] # None /\ ~promos[p].ended
    /\ promos' = [promos EXCEPT ![p].ended = TRUE]
    /\ UNCHANGED <<price, ledger, approval, closing, history>>

ReadForClose(c, p) ==
    /\ closing[c] = None
    /\ promos[p] # None /\ promos[p].active
    /\ c = Cron => promos[p].ended
    /\ closing' = [closing EXCEPT ![c] = p]
    /\ UNCHANGED <<price, promos, ledger, approval, history>>

ClosePromotionKeepsPrice(c) ==   \* defect: deactivates without restoring
    /\ closing[c] # None
    /\ promos' = [promos EXCEPT ![closing[c]].active = FALSE]
    /\ closing' = [closing EXCEPT ![c] = None]
    /\ UNCHANGED <<price, approval, ledger, history>>

ClosePromotion(c) ==
    LET snapshot == promos[closing[c]].snapshot IN
    /\ closing[c] # None
    /\ SetPrices(snapshot)
    /\ approval' = Noting(approval, snapshot)
    /\ promos' = [promos EXCEPT ![closing[c]].active = FALSE]
    /\ closing' = [closing EXCEPT ![c] = None]
    /\ UNCHANGED <<ledger, history>>

CloseFails(c) ==
    /\ closing[c] # None
    /\ closing' = [closing EXCEPT ![c] = None]
    /\ UNCHANGED <<price, promos, ledger, approval, history>>

(* PATCH /admin/promotions/:id {active: true} *)
Reactivate(p) ==
    /\ promos[p] # None /\ ~promos[p].active
    /\ promos' = [promos EXCEPT ![p].active = TRUE]
    /\ UNCHANGED <<price, ledger, approval, closing, history>>

-----------------------------------------------------------------------------
Agent ==
    \/ \E S \in Items, u \in Usd : StagePriceUpdate(S, u)
    \/ \E S \in Items : StagePromotion(S)
    \/ TurnEnds
    \/ \E i \in Changes, inChat \in BOOLEAN : DiscardChange(i, inChat)
    \/ \E torn \in BOOLEAN : HostRestarts(torn)

Approval(a) ==
    \/ \E i \in Changes : Approve(a, i)
    \/ \E s \in Products : CheckItem(a, s) \/ SearchMisses(a, s) \/ RefuseDrift(a, s)
    \/ ReadOverlap(a) \/ ReadSnapshot(a)
    \/ \E p \in Promos, ended \in BOOLEAN : CreatePromotion(a, p, ended)
    \/ \E s \in Products : PatchItem(a, s)
    \/ MarkApplied(a)
    \/ ApprovalFails(a)

Backoffice ==
    \/ \E s \in Products, u \in Usd : EditPrice(s, u)
    \/ \E p \in Promos : PromotionEnds(p) \/ Reactivate(p)
    \/ \E c \in Closers :
           \/ \E p \in Promos : ReadForClose(c, p)
           \/ ClosePromotion(c) \/ CloseFails(c)

Next == Agent \/ Backoffice \/ \E a \in Approvers : Approval(a)

Spec == Init /\ [][Next]_vars

-----------------------------------------------------------------------------
(* A price that carries a discount has an active promotion over the product,  *)
(* or one of the two known causes: an approval that wrote it after its own    *)
(* promotion had been closed, or a promotion created over a price that was    *)
(* itself a promotional one.  (closePromotion restores every snapshot price   *)
(* in the transaction that deactivates the row.)                              *)
DiscountBacked ==
    \A s \in Products : price[s].off > 0 =>
        \/ ActiveOver(s) # {}
        \/ s \in strayed
        \/ \E p \in Promos : Covers(p, s) /\ promos[p].snapshot[s].off > 0

(* An approval overwrites a value other than the one the operator was shown   *)
(* only where the drift check could not read the item, or where the value     *)
(* moved after the check had passed (_assert_no_drift, apply_change).         *)
OverwritesOnlyUnseen ==
    [][\A a \in Approvers, s \in Products : PatchItem(a, s) =>
          \/ Unmoved(a, s)
          \/ s \in approval[a].unseen \union approval[a].moved]_vars

IsApplied(change) == change # None /\ change.status = "applied"

(* A change the ledger calls applied has had every one of its items written,  *)
(* whatever calls failed, whoever else approved it and however often the host *)
(* restarted.                                                                 *)
AppliedInFull ==
    \A i \in Changes :
        IsApplied(changes[i]) => written[i] = ItemsOf(i)

(* What was applied is never offered for approval again, not even after a    *)
(* restart; at worst the whole file is lost with it (save_ledger,             *)
(* load_ledger).  A discard made in a chat turn has no such promise.          *)
AppliedStays ==
    [][\A i \in Changes :
          IsApplied(changes[i]) => changes'[i] \in {changes[i], None}]_vars

(* The inductive strengthening behind DiscountBacked and AppliedInFull.       *)

ChangesOK ==    \* a change prices the items it was staged for; a price update is regular
    \A c \in {changes[i] : i \in Changes} \ {None} :
        /\ DOMAIN c.after = DOMAIN c.before
        /\ c.kind = "price" => \A s \in DOMAIN c.after : c.after[s].off = 0

SavedOK ==      \* the file holds the same changes, some of them not resolved yet
    \A i \in Changes : saved[i] # None =>
        /\ changes[i] # None
        /\ changes[i] = [saved[i] EXCEPT !.status = changes[i].status]
        /\ saved[i].status # "staged" => saved[i].status = changes[i].status

ServingOK ==    \* an approval works on a change, and on the promotion it created for it
    \A a \in Approvers : Serving(a) =>
        /\ ChangeOf(a) # None
        /\ approval[a].todo \subseteq ItemsOf(approval[a].id)
        /\ approval[a].pc \in {"overlap", "snapshot", "create"} =>
               ChangeOf(a).kind = "promo" /\ approval[a].todo = ItemsOf(approval[a].id)
        /\ approval[a].pc = "create" => DOMAIN approval[a].snapshot = ItemsOf(approval[a].id)
        /\ approval[a].pc \in {"patch", "apply"} /\ ChangeOf(a).kind = "promo" =>
               /\ approval[a].promo # None
               /\ promos[approval[a].promo] # None
               /\ DOMAIN promos[approval[a].promo].snapshot = ItemsOf(approval[a].id)

ProgressOK ==   \* what an approval has no longer to do has been written
    \A a \in Approvers : Serving(a) =>
        /\ approval[a].pc = "patch" =>
               ItemsOf(approval[a].id) \ approval[a].todo \subseteq written[approval[a].id]
        /\ approval[a].pc = "apply" => ItemsOf(approval[a].id) \subseteq written[approval[a].id]

WrittenOK == \A i \in Changes : changes[i] # None => written[i] \subseteq ItemsOf(i)

ClosingOK == \A c \in Closers : closing[c] # None => promos[closing[c]] # None

IInv ==
    /\ TypeOK /\ ChangesOK /\ SavedOK /\ ServingOK /\ ProgressOK /\ WrittenOK /\ ClosingOK
    /\ AppliedInFull /\ DiscountBacked

(* "a promotion's price stays for ever after endsAt without this loop": with  *)
(* no promotion active over it and no approval at work, a product is back at  *)
(* a regular price, the approvals that raced a closing left aside             *)
(* (promotion-expire.service.ts).  Violated.                                  *)
PromoPriceLeaves ==
    \A s \in Products \ strayed :
        ActiveOver(s) = {} /\ (\A a \in Approvers : ~Serving(a)) => price[s].off = 0

(* "an operator's direct edit between stage and apply: the whole change is    *)
(* refused, nothing is overwritten silently" (AGENT-READINESS.md).  Violated. *)
NeverOverwritesEdit ==
    [][\A a \in Approvers, s \in Products : PatchItem(a, s) => Unmoved(a, s)]_vars
=============================================================================
