--------------------------- MODULE Pricing_proofs ---------------------------
(* That the invariants of Pricing hold for every catalogue, ledger, promotion *)
(* table and number of concurrent approvals.                                  *)
EXTENDS Pricing, TLAPS

-----------------------------------------------------------------------------
(* Data: calls, changes, prices.                                              *)

(* A request in flight is a call record, and no call is the idle one. *)
LEMMA IdleIsNoCall == Idle \notin Call
  BY DEF Idle, Call

LEMMA ServingIsCall ==
  ASSUME TypeOK, NEW a \in Approvers
  PROVE Serving(a) <=> approval[a] \in Call
  BY IdleIsNoCall DEF TypeOK, Serving

LEMMA ChangeRecord ==
  ASSUME TypeOK, NEW i \in Changes, changes[i] # None
  PROVE changes[i] \in Change
  BY DEF TypeOK

LEMMA RowRecord ==
  ASSUME TypeOK, NEW p \in Promos, promos[p] # None
  PROVE promos[p] \in Promotion
  BY DEF TypeOK

LEMMA PricesElim ==
  ASSUME NEW f \in Prices
  PROVE DOMAIN f \in Items /\ f \in [DOMAIN f -> Price]
  BY DEF Prices

LEMMA PricesIntro ==
  ASSUME NEW S \in Items, NEW f \in [S -> Price]
  PROVE f \in Prices /\ DOMAIN f = S
  BY DEF Prices

LEMMA RegularIsPrice ==
  ASSUME NEW u \in Usd
  PROVE Regular(u) \in Price /\ Regular(u).off = 0
  BY PricingAssumption DEF Regular, Price

LEMMA DiscountedIsPrice ==
  ASSUME NEW p \in Price, p.off < MaxOff
  PROVE Discounted(p) \in Price
  <1>1. p.usd \in Usd /\ p.off \in 0..MaxOff
    BY DEF Price
  <1>2. p.off + 1 \in 0..MaxOff
    BY <1>1, PricingAssumption
  <1>3. Discounted(p) = [usd |-> p.usd, off |-> p.off + 1]
    BY DEF Discounted, Price
  <1> QED
    BY <1>1, <1>2, <1>3 DEF Price

LEMMA OnePrice ==
  ASSUME NEW s \in Products, NEW v \in Price
  PROVE [t \in {s} |-> v] \in Prices
  <1>1. {s} \in Items
    BY DEF Items
  <1>2. [t \in {s} |-> v] \in [{s} -> Price]
    OBVIOUS
  <1> QED
    BY <1>1, <1>2, PricesIntro

(* What a snapshot of some items' prices is. *)
LEMMA SnapshotOfPrices ==
  ASSUME TypeOK, NEW S \in Items
  PROVE Restrict(price, S) \in Prices /\ DOMAIN Restrict(price, S) = S
  <1>1. Restrict(price, S) \in [S -> Price]
    BY DEF TypeOK, Restrict, Items
  <1> QED
    BY <1>1, PricesIntro

LEMMA ItemsOfChange ==
  ASSUME TypeOK, NEW i \in Changes, changes[i] # None
  PROVE ItemsOf(i) \in Items
  BY ChangeRecord, PricesElim DEF Change, ItemsOf

LEMMA SetPricesType ==
  ASSUME TypeOK, NEW new \in Prices, SetPrices(new)
  PROVE price' \in [Products -> Price]
  <1>1. new \in [DOMAIN new -> Price]
    BY PricesElim
  <1> QED
    BY <1>1 DEF TypeOK, SetPrices

(* Noting changes nothing of a call but its history. *)
LEMMA NotingCall ==
  ASSUME NEW calls \in [Approvers -> Call \union {Idle}], NEW new \in Prices,
         NEW a \in Approvers, calls[a] # Idle
  PROVE /\ Noting(calls, new)[a] \in Call
        /\ Noting(calls, new)[a].pc = calls[a].pc
        /\ Noting(calls, new)[a].id = calls[a].id
        /\ Noting(calls, new)[a].todo = calls[a].todo
        /\ Noting(calls, new)[a].snapshot = calls[a].snapshot
        /\ Noting(calls, new)[a].promo = calls[a].promo
  <1> DEFINE more == {s \in DOMAIN new \intersect Checked(calls[a]) : new[s] # price[s]}
  <1>1. more \subseteq Products
    BY PricesElim DEF Items
  <1>2. Noting(calls, new)[a] = [calls[a] EXCEPT !.moved = @ \union more]
    BY DEF Noting
  <1>3. calls[a] \in Call
    OBVIOUS
  <1> HIDE DEF more
  <1> QED
    BY <1>1, <1>2, <1>3 DEF Call

LEMMA NotingIdle ==
  ASSUME NEW calls, NEW new, NEW a \in Approvers, calls[a] = Idle
  PROVE Noting(calls, new)[a] = Idle
  BY DEF Noting

LEMMA NotingType ==
  ASSUME NEW calls \in [Approvers -> Call \union {Idle}], NEW new \in Prices
  PROVE Noting(calls, new) \in [Approvers -> Call \union {Idle}]
  <1>1. ASSUME NEW a \in Approvers
        PROVE Noting(calls, new)[a] \in Call \union {Idle}
    BY <1>1, NotingCall, NotingIdle
  <1>2. Noting(calls, new) = [a \in Approvers |-> Noting(calls, new)[a]]
    BY DEF Noting
  <1> QED
    BY <1>1, <1>2

-----------------------------------------------------------------------------
(* Frames: what a step must leave alone for the approvals in flight to stay   *)
(* good.                                                                      *)

(* What ServingOK and ProgressOK say of one approval. *)
GoodCall(a) ==
    LET r == approval[a] IN
    /\ changes[r.id] # None
    /\ r.todo \subseteq ItemsOf(r.id)
    /\ r.pc \in {"overlap", "snapshot", "create"} =>
           changes[r.id].kind = "promo" /\ r.todo = ItemsOf(r.id)
    /\ r.pc = "create" => DOMAIN r.snapshot = ItemsOf(r.id)
    /\ r.pc \in {"patch", "apply"} /\ changes[r.id].kind = "promo" =>
           /\ r.promo # None
           /\ promos[r.promo] # None
           /\ DOMAIN promos[r.promo].snapshot = ItemsOf(r.id)
    /\ r.pc = "patch" => ItemsOf(r.id) \ r.todo \subseteq written[r.id]
    /\ r.pc = "apply" => ItemsOf(r.id) \subseteq written[r.id]

Calls == \A a \in Approvers : Serving(a) => GoodCall(a)

LEMMA CallsIsServing == Calls <=> ServingOK /\ ProgressOK
  BY DEF Calls, GoodCall, ServingOK, ProgressOK, ChangeOf

LEMMA CallsIsServingNext == Calls' <=> ServingOK' /\ ProgressOK'
  BY CallsIsServing, PTL

(* Changes and promotions are kept as they are, but for their status. *)
Keeps ==
    /\ \A i \in Changes : changes[i] # None =>
           /\ changes'[i] # None
           /\ changes'[i].kind = changes[i].kind
           /\ changes'[i].before = changes[i].before
           /\ written[i] \subseteq written'[i]
    /\ \A p \in Promos : promos[p] # None =>
           /\ promos'[p] # None
           /\ promos'[p].snapshot = promos[p].snapshot

SameCall(a) ==
    /\ approval[a] # Idle
    /\ approval'[a].pc = approval[a].pc
    /\ approval'[a].id = approval[a].id
    /\ approval'[a].todo = approval[a].todo
    /\ approval'[a].snapshot = approval[a].snapshot
    /\ approval'[a].promo = approval[a].promo

LEMMA CallKept ==
  ASSUME TypeOK, Keeps, NEW a \in Approvers, Serving(a), GoodCall(a), SameCall(a)
  PROVE GoodCall(a)'
  <1>1. approval[a] \in Call
    BY ServingIsCall
  <1>2. approval[a].id \in Changes /\ approval[a].promo \in Promos \union {None}
    BY <1>1 DEF Call
  <1> QED
    BY <1>2 DEF Keeps, GoodCall, SameCall, ItemsOf

(* Every approval but a0 is as it was, and a0 is good or over. *)
LEMMA CallsKept ==
  ASSUME TypeOK, Keeps, Calls,
         \A a \in Approvers : approval'[a] # Idle => SameCall(a) \/ GoodCall(a)'
  PROVE Calls'
  BY CallKept DEF Calls, Serving, SameCall

LEMMA SameIfUnchanged ==
  ASSUME NEW a \in Approvers, approval'[a] = approval[a], approval'[a] # Idle
  PROVE SameCall(a)
  BY DEF SameCall

LEMMA SameIfNoted ==
  ASSUME TypeOK, NEW calls \in [Approvers -> Call \union {Idle}], NEW new \in Prices,
         approval' = Noting(calls, new), NEW a \in Approvers, approval'[a] # Idle,
         calls[a] = approval[a]
  PROVE SameCall(a)
  <1>1. calls[a] # Idle
    BY NotingIdle
  <1> QED
    BY <1>1, NotingCall DEF SameCall

-----------------------------------------------------------------------------
(* Initially.                                                                 *)

LEMMA InitInv == Init => IInv
  <1> SUFFICES ASSUME Init PROVE IInv
    OBVIOUS
  <1>1. TypeOK
    <2>1. price \in [Products -> Price]
      BY RegularIsPrice DEF Init
    <2>2. strayed \subseteq Products /\ written \in [Changes -> SUBSET Products]
      BY DEF Init
    <2> QED
      BY <2>1, <2>2 DEF Init, TypeOK
  <1>2. ChangesOK /\ SavedOK /\ WrittenOK /\ ClosingOK /\ AppliedInFull
    BY DEF Init, ChangesOK, SavedOK, WrittenOK, ClosingOK, AppliedInFull, IsApplied
  <1>3. ServingOK /\ ProgressOK
    BY DEF Init, ServingOK, ProgressOK, Serving
  <1>4. DiscountBacked
    BY RegularIsPrice DEF Init, DiscountBacked
  <1> QED
    BY <1>1, <1>2, <1>3, <1>4 DEF IInv

-----------------------------------------------------------------------------
(* Frames for the other conjuncts.                                            *)

Parts ==
    /\ TypeOK /\ ChangesOK /\ SavedOK /\ WrittenOK /\ ClosingOK
    /\ AppliedInFull /\ DiscountBacked /\ Calls

LEMMA InvIsParts == (IInv <=> Parts) /\ (IInv' <=> Parts')
  BY CallsIsServing, CallsIsServingNext DEF IInv, Parts

LedgerOK == ChangesOK /\ SavedOK /\ WrittenOK /\ AppliedInFull

LEMMA LedgerFrame ==
  ASSUME LedgerOK, UNCHANGED <<changes, saved, written>>
  PROVE LedgerOK'
  BY DEF LedgerOK, ChangesOK, SavedOK, WrittenOK, AppliedInFull, IsApplied, ItemsOf

LEMMA DiscountFrame ==
  ASSUME DiscountBacked, UNCHANGED <<price, promos, strayed>>
  PROVE DiscountBacked'
  BY DEF DiscountBacked, ActiveOver, Covers

LEMMA ClosingFrame ==
  ASSUME TypeOK, ClosingOK, Keeps, UNCHANGED closing
  PROVE ClosingOK'
  BY DEF TypeOK, ClosingOK, Keeps

LEMMA KeepsAll ==
  ASSUME UNCHANGED <<promos, changes, written>>
  PROVE Keeps
  BY DEF Keeps

(* A step of one approval that changes nothing but the approval. *)
LEMMA ApprovalStep ==
  ASSUME IInv, NEW a \in Approvers, NEW r \in Call \union {Idle},
         approval' = [approval EXCEPT ![a] = r],
         UNCHANGED <<price, promos, changes, saved, closing, written, strayed>>,
         r # Idle => GoodCall(a)'
  PROVE IInv'
  <1>0. Parts
    BY InvIsParts
  <1>1. TypeOK'
    BY <1>0 DEF Parts, TypeOK
  <1>2. Calls'
    <2>1. ASSUME NEW b \in Approvers, approval'[b] # Idle
          PROVE SameCall(b) \/ GoodCall(b)'
      <3>1. CASE b = a
        BY <1>0, <2>1, <3>1 DEF Parts, TypeOK
      <3>2. CASE b # a
        BY <1>0, <2>1, <3>2, SameIfUnchanged DEF Parts, TypeOK
      <3> QED
        BY <3>1, <3>2
    <2> QED
      BY <1>0, <2>1, KeepsAll, CallsKept DEF Parts
  <1>3. LedgerOK' /\ DiscountBacked' /\ ClosingOK'
    BY <1>0, LedgerFrame, DiscountFrame, ClosingFrame, KeepsAll DEF Parts, LedgerOK
  <1> QED
    BY <1>1, <1>2, <1>3, InvIsParts DEF Parts, LedgerOK

-----------------------------------------------------------------------------
(* One lemma per action: the admin and the merchant agent.                    *)

LEMMA EditPriceInv ==
  ASSUME IInv, NEW s \in Products, NEW u \in Usd, EditPrice(s, u)
  PROVE IInv'
  <1> DEFINE new == [t \in {s} |-> Regular(u)]
  <1>0. Parts
    BY InvIsParts
  <1>1. new \in Prices
    BY OnePrice, RegularIsPrice
  <1>2. /\ SetPrices(new)
        /\ approval' = Noting(approval, new)
        /\ UNCHANGED <<promos, changes, saved, closing, written, strayed>>
    BY DEF EditPrice, ledger, history
  <1>3. price' = [price EXCEPT ![s] = Regular(u)]
    BY <1>0, <1>2 DEF SetPrices, Parts, TypeOK
  <1> HIDE DEF new
  <1>4. TypeOK'
    BY <1>0, <1>1, <1>2, SetPricesType, NotingType DEF Parts, TypeOK
  <1>5. Calls'
    BY <1>0, <1>1, <1>2, KeepsAll, CallsKept, SameIfNoted DEF Parts, TypeOK
  <1>6. LedgerOK' /\ ClosingOK'
    BY <1>0, <1>2, LedgerFrame, ClosingFrame, KeepsAll DEF Parts, LedgerOK
  <1>7. DiscountBacked'
    BY <1>0, <1>2, <1>3, RegularIsPrice
    DEF Parts, DiscountBacked, TypeOK, ActiveOver, Covers
  <1> QED
    BY <1>4, <1>5, <1>6, <1>7, InvIsParts DEF Parts, LedgerOK

(* A new change takes an id no approval and no saved change uses. *)
LEMMA StageInv ==
  ASSUME IInv, NEW c \in Change, Stage(c),
         c.status = "staged", DOMAIN c.after = DOMAIN c.before,
         c.kind = "price" => \A s \in DOMAIN c.after : c.after[s].off = 0
  PROVE IInv'
  <1>0. Parts
    BY InvIsParts
  <1>1. PICK i \in Changes :
           /\ changes[i] = None
           /\ changes' = [changes EXCEPT ![i] = c]
           /\ written' = [written EXCEPT ![i] = {}]
           /\ UNCHANGED <<price, promos, saved, approval, closing, strayed>>
    BY DEF Stage, IsNextId
  <1>2. c # None
    BY NoneAssumption
  <1>3. changes \in [Changes -> Change \union {None}] /\ written \in [Changes -> SUBSET Products]
    BY <1>0 DEF Parts, TypeOK
  <1>4. TypeOK'
    BY <1>0, <1>1 DEF Parts, TypeOK
  <1>5. Keeps
    BY <1>1, <1>3 DEF Keeps
  <1>6. Calls'
    BY <1>0, <1>1, <1>5, CallsKept, SameIfUnchanged DEF Parts
  <1>7. ChangesOK'
    BY <1>0, <1>1, <1>3 DEF Parts, ChangesOK
  <1>8. SavedOK' /\ WrittenOK' /\ AppliedInFull'
    BY <1>0, <1>1, <1>2, <1>3
    DEF Parts, SavedOK, WrittenOK, AppliedInFull, IsApplied, ItemsOf
  <1>9. DiscountBacked' /\ ClosingOK'
    BY <1>0, <1>1, <1>5, DiscountFrame, ClosingFrame DEF Parts
  <1> QED
    BY <1>4, <1>6, <1>7, <1>8, <1>9, InvIsParts DEF Parts

LEMMA StagePriceUpdateInv ==
  ASSUME IInv, NEW S \in Items, NEW u \in Usd, StagePriceUpdate(S, u)
  PROVE IInv'
  <1> DEFINE after == [s \in S |-> Regular(u)]
             c == [kind |-> "price", status |-> "staged", before |-> Restrict(price, S),
                   after |-> after]
  <1>1. after \in Prices /\ DOMAIN after = S /\ \A s \in S : after[s].off = 0
    BY PricesIntro, RegularIsPrice
  <1>2. Restrict(price, S) \in Prices /\ DOMAIN Restrict(price, S) = S
    BY SnapshotOfPrices DEF IInv
  <1>3. Stage(c)
    BY DEF StagePriceUpdate
  <1>4. c \in Change
    BY <1>1, <1>2 DEF Change
  <1> QED
    BY <1>1, <1>2, <1>3, <1>4, StageInv

LEMMA StagePromotionInv ==
  ASSUME IInv, NEW S \in Items, StagePromotion(S)
  PROVE IInv'
  <1> DEFINE after == [s \in S |-> Discounted(price[s])]
             c == [kind |-> "promo", status |-> "staged", before |-> Restrict(price, S),
                   after |-> after]
  <1>1. after \in Prices /\ DOMAIN after = S
    <2>1. ASSUME NEW s \in S PROVE Discounted(price[s]) \in Price
      <3>1. price[s] \in Price /\ price[s].off < MaxOff
        BY <2>1 DEF StagePromotion, IInv, TypeOK, Items
      <3> QED
        BY <3>1, DiscountedIsPrice
    <2> QED
      BY <2>1, PricesIntro
  <1>2. Restrict(price, S) \in Prices /\ DOMAIN Restrict(price, S) = S
    BY SnapshotOfPrices DEF IInv
  <1>3. Stage(c)
    BY DEF StagePromotion
  <1>4. c \in Change
    BY <1>1, <1>2 DEF Change
  <1> QED
    BY <1>1, <1>2, <1>3, <1>4, StageInv

LEMMA TurnEndsInv ==
  ASSUME IInv, TurnEnds
  PROVE IInv'
  <1>0. Parts
    BY InvIsParts
  <1>1. saved' = changes /\ UNCHANGED <<price, promos, changes, approval, closing, written, strayed>>
    BY DEF TurnEnds, history
  <1>2. TypeOK'
    BY <1>0, <1>1 DEF Parts, TypeOK
  <1>3. Calls'
    BY <1>0, <1>1, KeepsAll, CallsKept, SameIfUnchanged DEF Parts
  <1>4. ChangesOK' /\ WrittenOK' /\ AppliedInFull'
    BY <1>0, <1>1 DEF Parts, ChangesOK, WrittenOK, AppliedInFull, IsApplied, ItemsOf
  <1>5. SavedOK'
    <2>1. ASSUME NEW i \in Changes, changes[i] # None
          PROVE changes[i] = [changes[i] EXCEPT !.status = changes[i].status]
      BY <1>0, <2>1, ChangeRecord DEF Parts, Change
    <2> QED
      BY <1>1, <2>1 DEF SavedOK
  <1>6. DiscountBacked' /\ ClosingOK'
    BY <1>0, <1>1, DiscountFrame, ClosingFrame, KeepsAll DEF Parts
  <1> QED
    BY <1>2, <1>3, <1>4, <1>5, <1>6, InvIsParts DEF Parts

(* A staged change gets its final status; the file may be written or not. *)
LEMMA ResolveInv ==
  ASSUME IInv, NEW i \in Changes, NEW how \in {"applied", "discarded"},
         IsStaged(i), Resolve(i, how),
         saved' = saved \/ saved' = changes',
         how = "applied" => written[i] = ItemsOf(i),
         UNCHANGED <<price, promos, closing, written, strayed>>,
         approval' \in [Approvers -> Call \union {Idle}],
         \A a \in Approvers : approval'[a] \in {approval[a], Idle}
  PROVE IInv'
  <1>0. Parts
    BY InvIsParts
  <1>1. changes[i] \in Change /\ changes[i] # None /\ changes[i].status = "staged"
    BY <1>0, ChangeRecord DEF IsStaged, Parts
  <1> DEFINE c == [changes[i] EXCEPT !.status = how]
  <1>2. /\ c \in Change /\ c # None /\ c.status = how
        /\ c.kind = changes[i].kind /\ c.before = changes[i].before /\ c.after = changes[i].after
    BY <1>1, NoneAssumption DEF Change
  <1>3. changes' = [changes EXCEPT ![i] = c]
    BY DEF Resolve
  <1>4. changes \in [Changes -> Change \union {None}] /\ saved \in [Changes -> Change \union {None}]
    BY <1>0 DEF Parts, TypeOK
  <1>5. changes' \in [Changes -> Change \union {None}]
    BY <1>2, <1>3, <1>4
  <1>7. TypeOK'
    BY <1>0, <1>4, <1>5 DEF Parts, TypeOK
  <1>8. Keeps
    BY <1>2, <1>3, <1>4 DEF Keeps
  <1>9. Calls'
    BY <1>0, <1>8, CallsKept, SameIfUnchanged DEF Parts
  <1>10. ChangesOK' /\ WrittenOK' /\ AppliedInFull'
    <2> HIDE DEF c
    <2>1. ChangesOK'
      BY <1>0, <1>1, <1>2, <1>3, <1>4 DEF Parts, ChangesOK
    <2>2. WrittenOK' /\ AppliedInFull'
      BY <1>0, <1>1, <1>2, <1>3, <1>4 DEF Parts, WrittenOK, AppliedInFull, IsApplied, ItemsOf
    <2> QED
      BY <2>1, <2>2
  <1>11. SavedOK'
    <2>1. ASSUME NEW j \in Changes, saved'[j] # None
          PROVE /\ changes'[j] # None
                /\ changes'[j] = [saved'[j] EXCEPT !.status = changes'[j].status]
                /\ saved'[j].status # "staged" => saved'[j].status = changes'[j].status
      <3>1. CASE saved' = changes'
        <4>1. changes'[j] \in Change
          BY <1>5, <2>1, <3>1
        <4> QED
          BY <2>1, <3>1, <4>1 DEF Change
      <3>2. CASE saved' = saved /\ j # i
        BY <1>0, <1>3, <1>4, <2>1, <3>2 DEF Parts, SavedOK
      <3>3. CASE saved' = saved /\ j = i
        <4>1. /\ saved[i] \in Change /\ saved[i] # None
              /\ changes[i] = [saved[i] EXCEPT !.status = changes[i].status]
              /\ saved[i].status = "staged"
          BY <1>0, <1>1, <1>4, <2>1, <3>3 DEF Parts, SavedOK
        <4>2. [saved[i] EXCEPT !.status = how] = c
          BY <1>1, <4>1 DEF Change
        <4>3. changes'[i] = c
          BY <1>3, <1>4
        <4> QED
          BY <1>2, <3>3, <4>1, <4>2, <4>3
      <3> QED
        BY <3>1, <3>2, <3>3
    <2> QED
      BY <2>1 DEF SavedOK
  <1>12. DiscountBacked' /\ ClosingOK'
    BY <1>0, <1>8, DiscountFrame, ClosingFrame DEF Parts
  <1> QED
    BY <1>7, <1>9, <1>10, <1>11, <1>12, InvIsParts DEF Parts

LEMMA DiscardChangeInv ==
  ASSUME IInv, NEW i \in Changes, NEW inChat \in BOOLEAN, DiscardChange(i, inChat)
  PROVE IInv'
  <1>1. approval \in [Approvers -> Call \union {Idle}]
    BY DEF IInv, TypeOK
  <1>2. /\ IsStaged(i) /\ Resolve(i, "discarded")
        /\ saved' = saved \/ saved' = changes'
        /\ UNCHANGED <<price, promos, closing, written, strayed, approval>>
    BY DEF DiscardChange, history
  <1> QED
    BY <1>1, <1>2, ResolveInv

(* Starting again from a file that holds the same changes, or from none. *)
LEMMA HostRestartsInv ==
  ASSUME IInv, NEW torn \in BOOLEAN, HostRestarts(torn)
  PROVE IInv'
  <1>0. Parts
    BY InvIsParts
  <1>1. /\ saved' \in {[i \in Changes |-> None], saved}
        /\ changes' = saved'
        /\ approval' = [a \in Approvers |-> Idle]
        /\ UNCHANGED <<price, promos, closing, written, strayed>>
    BY DEF HostRestarts, history
  <1>2. saved' \in [Changes -> Change \union {None}]
    BY <1>0, <1>1 DEF Parts, TypeOK
  <1>3. TypeOK'
    BY <1>0, <1>1, <1>2 DEF Parts, TypeOK
  <1>4. Calls'
    BY <1>1 DEF Calls, Serving
  <1>5. ASSUME NEW i \in Changes, changes'[i] # None
        PROVE /\ saved[i] # None /\ changes'[i] = saved[i] /\ saved[i] \in Change
              /\ changes[i] # None /\ changes[i] \in Change
              /\ changes[i].kind = saved[i].kind
              /\ changes[i].before = saved[i].before /\ changes[i].after = saved[i].after
              /\ saved[i].status # "staged" => saved[i].status = changes[i].status
    <2>1. saved[i] # None /\ changes'[i] = saved[i] /\ saved[i] \in Change
      BY <1>0, <1>1, <1>5 DEF Parts, TypeOK
    <2>2. changes[i] # None /\ changes[i] = [saved[i] EXCEPT !.status = changes[i].status]
      BY <1>0, <2>1 DEF Parts, SavedOK
    <2>3. changes[i] \in Change
      BY <1>0, <2>2, ChangeRecord DEF Parts
    <2> QED
      BY <1>0, <2>1, <2>2, <2>3 DEF Parts, SavedOK, Change
  <1>6. ChangesOK' /\ WrittenOK' /\ AppliedInFull'
    BY <1>0, <1>1, <1>5 DEF Parts, ChangesOK, WrittenOK, AppliedInFull, IsApplied, ItemsOf
  <1>7. SavedOK'
    BY <1>1, <1>5 DEF SavedOK, Change
  <1>8. DiscountBacked'
    BY <1>0, <1>1, DiscountFrame DEF Parts
  <1>9. ClosingOK'
    BY <1>0, <1>1 DEF Parts, ClosingOK
  <1> QED
    BY <1>3, <1>4, <1>6, <1>7, <1>8, <1>9, InvIsParts DEF Parts

-----------------------------------------------------------------------------
(* One lemma per action: approvals.                                           *)

LEMMA ApproveInv ==
  ASSUME IInv, NEW a \in Approvers, NEW i \in Changes, Approve(a, i)
  PROVE IInv'
  <1> DEFINE r == [pc |-> "check", id |-> i, todo |-> ItemsOf(i), snapshot |-> changes[i].before,
                   promo |-> None, unseen |-> {}, moved |-> {}]
  <1>1. /\ changes[i] # None
        /\ approval' = [approval EXCEPT ![a] = r]
        /\ UNCHANGED <<price, promos, changes, saved, closing, written, strayed>>
    BY DEF Approve, IsStaged, ledger, history
  <1>2. changes[i].before \in Prices /\ ItemsOf(i) \subseteq Products
    BY <1>1, ChangeRecord, ItemsOfChange DEF IInv, Change, Items
  <1>3. r \in Call
    BY <1>2 DEF Call
  <1>4. approval'[a] = r
    BY <1>1 DEF IInv, TypeOK
  <1>5. GoodCall(a)'
    BY <1>1, <1>4 DEF GoodCall, ItemsOf
  <1> QED
    BY <1>1, <1>3, <1>5, ApprovalStep

(* What is known of an approval that is at some point of apply_change. *)
LEMMA AtFacts ==
  ASSUME IInv, NEW a \in Approvers, Serving(a)
  PROVE /\ approval[a] \in Call /\ approval[a].id \in Changes
        /\ GoodCall(a)
        /\ changes[approval[a].id] \in Change
        /\ ItemsOf(approval[a].id) \in Items /\ ItemsOf(approval[a].id) \subseteq Products
  <1>1. approval[a] \in Call /\ GoodCall(a)
    BY ServingIsCall, CallsIsServing DEF IInv, Calls
  <1>2. approval[a].id \in Changes /\ changes[approval[a].id] # None
    BY <1>1 DEF Call, GoodCall
  <1> QED
    BY <1>1, <1>2, ChangeRecord, ItemsOfChange DEF IInv, Items

(* The approval ends, whatever it was doing. *)
LEMMA EndsInv ==
  ASSUME IInv, NEW a \in Approvers, Ends(a),
         UNCHANGED <<price, promos, changes, saved, closing, written, strayed>>
  PROVE IInv'
  <1>1. approval' = [approval EXCEPT ![a] = Idle]
    BY DEF Ends
  <1>2. Idle \in Call \union {Idle}
    OBVIOUS
  <1> QED
    BY <1>1, <1>2, ApprovalStep

LEMMA PassesInv ==
  ASSUME IInv, NEW a \in Approvers, NEW s \in Products, At(a, "check"), s \in approval[a].todo,
         NEW unseen \in SUBSET Products, Passes(a, s, unseen)
  PROVE IInv'
  <1> DEFINE left == approval[a].todo \ {s}
             todo == IF left = {} THEN ItemsOf(approval[a].id) ELSE left
             pc == IF left = {} THEN AfterCheck(a) ELSE "check"
             r == [approval[a] EXCEPT !.todo = todo, !.pc = pc, !.unseen = @ \union unseen]
  <1>1. /\ Serving(a) /\ approval[a].pc = "check"
        /\ UNCHANGED <<price, promos, changes, saved, closing, written, strayed>>
    BY DEF At, Passes, ledger, history
  <1>2. approval' = [approval EXCEPT ![a] = r]
    BY DEF Passes, IInv, TypeOK
  <1>3. pc \in {"check", "overlap", "patch"} /\ todo \in SUBSET Products
    BY <1>1, AtFacts DEF AfterCheck, Call
  <1>4. r \in Call /\ r.pc = pc /\ r.todo = todo /\ r.id = approval[a].id
    BY <1>1, <1>3, AtFacts DEF Call
  <1>5. approval'[a] = r
    BY <1>2 DEF IInv, TypeOK
  <1>6. /\ todo \subseteq ItemsOf(approval[a].id)
        /\ pc # "check" => todo = ItemsOf(approval[a].id)
        /\ pc = "overlap" => changes[approval[a].id].kind = "promo"
        /\ pc = "patch" => changes[approval[a].id].kind # "promo"
    BY <1>1, AtFacts DEF GoodCall, AfterCheck, ChangeOf
  <1> HIDE DEF r, todo, pc
  <1>7. GoodCall(a)'
    BY <1>1, <1>3, <1>4, <1>5, <1>6, AtFacts DEF GoodCall, ItemsOf
  <1> QED
    BY <1>1, <1>2, <1>4, <1>7, ApprovalStep

LEMMA CheckItemInv ==
  ASSUME IInv, NEW a \in Approvers, NEW s \in Products,
         CheckItem(a, s) \/ SearchMisses(a, s) \/ RefuseDrift(a, s)
  PROVE IInv'
  <1>1. CASE CheckItem(a, s)
    BY <1>1, PassesInv DEF CheckItem
  <1>2. CASE SearchMisses(a, s)
    BY <1>2, PassesInv DEF SearchMisses
  <1>3. CASE RefuseDrift(a, s)
    BY <1>3, EndsInv DEF RefuseDrift, ledger, history
  <1> QED
    BY <1>1, <1>2, <1>3

LEMMA ReadOverlapInv ==
  ASSUME IInv, NEW a \in Approvers, ReadOverlap(a)
  PROVE IInv'
  <1>1. /\ Serving(a) /\ approval[a].pc = "overlap"
        /\ UNCHANGED <<price, promos, changes, saved, closing, written, strayed>>
    BY DEF ReadOverlap, At, ledger, history
  <1>2. CASE Clashes(approval[a].todo)
    BY <1>1, <1>2, EndsInv DEF ReadOverlap
  <1>3. CASE ~Clashes(approval[a].todo)
    <2> DEFINE r == [approval[a] EXCEPT !.pc = "snapshot"]
    <2>1. approval' = [approval EXCEPT ![a] = r]
      BY <1>3 DEF ReadOverlap, IInv, TypeOK
    <2>2. r \in Call /\ r.pc = "snapshot" /\ r.todo = approval[a].todo /\ r.id = approval[a].id
      BY <1>1, AtFacts DEF Call
    <2>3. approval'[a] = r
      BY <2>1 DEF IInv, TypeOK
    <2> HIDE DEF r
    <2>4. GoodCall(a)'
      BY <1>1, <2>2, <2>3, AtFacts DEF GoodCall, ItemsOf
    <2> QED
      BY <1>1, <2>1, <2>2, <2>4, ApprovalStep
  <1> QED
    BY <1>2, <1>3

LEMMA ReadSnapshotInv ==
  ASSUME IInv, NEW a \in Approvers, ReadSnapshot(a)
  PROVE IInv'
  <1>1. /\ Serving(a) /\ approval[a].pc = "snapshot"
        /\ UNCHANGED <<price, promos, changes, saved, closing, written, strayed>>
    BY DEF ReadSnapshot, At, ledger, history
  <1> DEFINE snap == Restrict(price, approval[a].todo)
             r == [approval[a] EXCEPT !.pc = "create", !.snapshot = snap]
  <1>2. approval[a].todo = ItemsOf(approval[a].id) /\ changes[approval[a].id].kind = "promo"
    BY <1>1, AtFacts DEF GoodCall
  <1>3. snap \in Prices /\ DOMAIN snap = ItemsOf(approval[a].id)
    BY <1>1, <1>2, AtFacts, SnapshotOfPrices DEF IInv
  <1>4. approval' = [approval EXCEPT ![a] = r]
    BY DEF ReadSnapshot, IInv, TypeOK
  <1> HIDE DEF snap
  <1>5. /\ r \in Call /\ r.pc = "create" /\ r.todo = approval[a].todo
        /\ r.id = approval[a].id /\ r.snapshot = snap
    BY <1>1, <1>3, AtFacts DEF Call
  <1>6. approval'[a] = r
    BY <1>4 DEF IInv, TypeOK
  <1> HIDE DEF r
  <1>7. GoodCall(a)'
    BY <1>1, <1>2, <1>3, <1>5, <1>6, AtFacts DEF GoodCall, ItemsOf
  <1> QED
    BY <1>1, <1>4, <1>5, <1>7, ApprovalStep

LEMMA CreatePromotionInv ==
  ASSUME IInv, NEW a \in Approvers, NEW p \in Promos, NEW ended \in BOOLEAN,
         CreatePromotion(a, p, ended)
  PROVE IInv'
  <1> DEFINE row == [active |-> TRUE, ended |-> ended, snapshot |-> approval[a].snapshot]
             r == [approval[a] EXCEPT !.pc = "patch", !.promo = p]
  <1>0. Parts
    BY InvIsParts
  <1>1. /\ Serving(a) /\ approval[a].pc = "create"
        /\ promos[p] = None
        /\ promos' = [promos EXCEPT ![p] = row]
        /\ UNCHANGED <<price, changes, saved, closing, written, strayed>>
    BY DEF CreatePromotion, At, ledger, history
  <1>2. approval' = [approval EXCEPT ![a] = r]
    BY DEF CreatePromotion, IInv, TypeOK
  <1>3. /\ r \in Call /\ r.pc = "patch" /\ r.todo = approval[a].todo
        /\ r.id = approval[a].id /\ r.promo = p
    BY <1>1, AtFacts DEF Call
  <1>4. row \in Promotion /\ row # None /\ row.active /\ row.snapshot = approval[a].snapshot
    <2>1. approval[a].snapshot \in Prices
      BY <1>1, AtFacts DEF Call
    <2>2. row \in Promotion
      BY <2>1 DEF Promotion
    <2> QED
      BY <2>2, NoneAssumption
  <1>5. promos \in [Promos -> Promotion \union {None}]
    BY <1>0 DEF Parts, TypeOK
  <1>6. p # None
    BY NoneAssumption
  <1> HIDE DEF r, row
  <1>7. TypeOK'
    BY <1>0, <1>1, <1>2, <1>3, <1>4 DEF Parts, TypeOK
  <1>8. Keeps
    BY <1>1, <1>5 DEF Keeps
  <1>9. approval'[a] = r /\ promos'[p] = row
    BY <1>0, <1>1, <1>2, <1>5 DEF Parts, TypeOK
  <1>10. GoodCall(a)'
    BY <1>1, <1>3, <1>4, <1>6, <1>9, AtFacts DEF GoodCall, ItemsOf
  <1>11. Calls'
    <2>1. ASSUME NEW b \in Approvers, approval'[b] # Idle
          PROVE SameCall(b) \/ GoodCall(b)'
      <3>1. CASE b = a
        BY <1>10, <3>1
      <3>2. CASE b # a
        BY <1>0, <1>2, <2>1, <3>2, SameIfUnchanged DEF Parts, TypeOK
      <3> QED
        BY <3>1, <3>2
    <2> QED
      BY <1>0, <1>8, <2>1, CallsKept DEF Parts
  <1>12. DiscountBacked'
    <2>1. ASSUME NEW q \in Promos, NEW s \in Products, Covers(q, s)
          PROVE q # p /\ promos'[q] = promos[q] /\ Covers(q, s)'
      BY <1>1, <1>5, <2>1 DEF Covers
    <2>2. ASSUME NEW s \in Products, price[s].off > 0
          PROVE \/ ActiveOver(s)' # {}
                \/ s \in strayed
                \/ \E q \in Promos : Covers(q, s)' /\ promos'[q].snapshot[s].off > 0
      BY <1>0, <2>1, <2>2 DEF Parts, DiscountBacked, ActiveOver
    <2> QED
      BY <1>1, <2>2 DEF DiscountBacked
  <1>13. LedgerOK' /\ ClosingOK'
    BY <1>0, <1>1, <1>8, LedgerFrame, ClosingFrame DEF Parts, LedgerOK
  <1> QED
    BY <1>7, <1>11, <1>12, <1>13, InvIsParts DEF Parts, LedgerOK

LEMMA PatchItemInv ==
  ASSUME IInv, NEW a \in Approvers, NEW s \in Products, PatchItem(a, s)
  PROVE IInv'
  <1> DEFINE i == approval[a].id
             left == approval[a].todo \ {s}
             value == changes[i].after[s]
             new == [t \in {s} |-> value]
             r == [approval[a] EXCEPT !.todo = left,
                       !.pc = IF left = {} THEN "apply" ELSE "patch"]
             calls == [approval EXCEPT ![a] = r]
  <1>0. Parts
    BY InvIsParts
  <1>1. /\ Serving(a) /\ approval[a].pc = "patch" /\ s \in approval[a].todo
        /\ SetPrices(new)
        /\ written' = [written EXCEPT ![i] = @ \union {s}]
        /\ strayed' = IF Strays(a) THEN strayed \union {s} ELSE strayed
        /\ UNCHANGED <<promos, changes, saved, closing>>
    BY DEF PatchItem, At, ChangeOf, ledger
  <1>2. approval' = Noting(calls, new)
    BY DEF PatchItem, ChangeOf, IInv, TypeOK
  <1>3. /\ approval[a] \in Call /\ i \in Changes /\ changes[i] # None /\ changes[i] \in Change
        /\ s \in ItemsOf(i) /\ GoodCall(a) /\ ItemsOf(i) \subseteq Products
    BY <1>1, AtFacts DEF GoodCall
  <1>4. /\ DOMAIN changes[i].after = ItemsOf(i) /\ value \in Price
        /\ changes[i].kind = "price" => value.off = 0
    <2>1. changes[i] \in {changes[j] : j \in Changes} \ {None}
      BY <1>3
    <2>2. /\ DOMAIN changes[i].after = ItemsOf(i)
          /\ changes[i].kind = "price" => \A t \in DOMAIN changes[i].after : changes[i].after[t].off = 0
      BY <1>0, <2>1 DEF Parts, ChangesOK, ItemsOf
    <2>3. changes[i].after \in Prices
      BY <1>3 DEF Change
    <2> QED
      BY <1>3, <2>2, <2>3, PricesElim
  <1>5. new \in Prices
    BY <1>4, OnePrice
  <1>6. /\ r \in Call /\ r.todo = left /\ r.id = i /\ r.promo = approval[a].promo
        /\ r.pc = IF left = {} THEN "apply" ELSE "patch"
    BY <1>3 DEF Call
  <1>7. price' = [price EXCEPT ![s] = value]
    BY <1>0, <1>1 DEF SetPrices, Parts, TypeOK
  <1> HIDE DEF r, new, value
  <1>8. calls \in [Approvers -> Call \union {Idle}] /\ calls[a] = r /\ r # Idle
    BY <1>0, <1>6, IdleIsNoCall DEF Parts, TypeOK
  <1>9. written \in [Changes -> SUBSET Products]
    BY <1>0 DEF Parts, TypeOK
  <1>10. TypeOK'
    <2>1. price' \in [Products -> Price]
      BY <1>0, <1>1, <1>5, SetPricesType DEF Parts
    <2>2. approval' \in [Approvers -> Call \union {Idle}]
      BY <1>2, <1>5, <1>8, NotingType
    <2> QED
      BY <1>0, <1>1, <1>3, <2>1, <2>2 DEF Parts, TypeOK
  <1>11. Keeps
    BY <1>1, <1>9 DEF Keeps
  <1>12. GoodCall(a)'
    <2>1. /\ approval'[a].pc = r.pc /\ approval'[a].id = i /\ approval'[a].todo = left
          /\ approval'[a].promo = approval[a].promo
      BY <1>2, <1>5, <1>6, <1>8, NotingCall
    <2>2. ItemsOf(i) \ left \subseteq written'[i]
      BY <1>1, <1>3, <1>9 DEF GoodCall
    <2>3. left \subseteq ItemsOf(i) /\ (left = {} => ItemsOf(i) \subseteq written'[i])
      BY <1>3, <2>2 DEF GoodCall
    <2>4. changes[i].kind = "promo" =>
             /\ approval[a].promo # None /\ promos[approval[a].promo] # None
             /\ DOMAIN promos[approval[a].promo].snapshot = ItemsOf(i)
      BY <1>1, <1>3 DEF GoodCall
    <2>5. r.pc \in {"patch", "apply"} /\ (r.pc = "apply" => left = {})
      BY <1>6
    <2> HIDE DEF left, i
    <2> QED
      BY <1>1, <1>3, <2>1, <2>2, <2>3, <2>4, <2>5 DEF GoodCall, ItemsOf
  <1>13. Calls'
    <2>1. ASSUME NEW b \in Approvers, approval'[b] # Idle
          PROVE SameCall(b) \/ GoodCall(b)'
      <3>1. CASE b = a
        BY <1>12, <3>1
      <3>2. CASE b # a
        <4>1. calls[b] = approval[b]
          BY <1>0, <3>2 DEF Parts, TypeOK
        <4> QED
          BY <1>0, <1>2, <1>5, <1>8, <2>1, <4>1, SameIfNoted DEF Parts
      <3> QED
        BY <3>1, <3>2
    <2> QED
      BY <1>0, <1>11, <2>1, CallsKept DEF Parts
  <1>14. ChangesOK' /\ SavedOK' /\ WrittenOK' /\ AppliedInFull'
    <2>1. ChangesOK' /\ SavedOK'
      BY <1>0, <1>1 DEF Parts, ChangesOK, SavedOK
    <2>2. WrittenOK' /\ AppliedInFull'
      BY <1>0, <1>1, <1>3, <1>9 DEF Parts, WrittenOK, AppliedInFull, IsApplied, ItemsOf
    <2> QED
      BY <2>1, <2>2
  <1>15. DiscountBacked'
    <2>1. value.off > 0 => ActiveOver(s) # {} \/ Strays(a)
      <3>1. value.off > 0 => changes[i].kind = "promo"
        BY <1>3, <1>4 DEF Change
      <3>2. changes[i].kind = "promo" => /\ approval[a].promo \in Promos /\ approval[a].promo # None
                                         /\ Covers(approval[a].promo, s)
        BY <1>1, <1>3 DEF GoodCall, Covers, Call
      <3> QED
        BY <3>1, <3>2 DEF ActiveOver, Strays
    <2>2. \A t \in Products : ActiveOver(t)' = ActiveOver(t)
      BY <1>1 DEF ActiveOver, Covers
    <2>3. \A p \in Promos, t \in Products : Covers(p, t)' <=> Covers(p, t)
      BY <1>1 DEF Covers
    <2>4. \A t \in Products : t # s => price'[t] = price[t]
      BY <1>0, <1>7 DEF Parts, TypeOK
    <2>5. price'[s] = value
      BY <1>0, <1>7, <1>1 DEF Parts, TypeOK
    <2> QED
      BY <1>0, <1>1, <2>1, <2>2, <2>3, <2>4, <2>5 DEF Parts, DiscountBacked
  <1>16. ClosingOK'
    BY <1>0, <1>1, <1>11, ClosingFrame DEF Parts
  <1> QED
    BY <1>10, <1>13, <1>14, <1>15, <1>16, InvIsParts DEF Parts

LEMMA MarkAppliedInv ==
  ASSUME IInv, NEW a \in Approvers, MarkApplied(a)
  PROVE IInv'
  <1> DEFINE i == approval[a].id
  <1>1. /\ Serving(a) /\ approval[a].pc = "apply" /\ Ends(a)
        /\ UNCHANGED <<price, promos, closing, written, strayed>>
    BY DEF MarkApplied, At, history
  <1>2. i \in Changes /\ GoodCall(a) /\ changes[i] # None
    BY <1>1, AtFacts DEF GoodCall
  <1>3. CASE IsStaged(i)
    <2>1. Resolve(i, "applied") /\ saved' = changes'
      BY <1>3 DEF MarkApplied
    <2>2. written[i] = ItemsOf(i)
      BY <1>1, <1>2 DEF GoodCall, IInv, WrittenOK
    <2>3. /\ approval' \in [Approvers -> Call \union {Idle}]
          /\ \A b \in Approvers : approval'[b] \in {approval[b], Idle}
      BY <1>1 DEF Ends, IInv, TypeOK
    <2> QED
      BY <1>1, <1>2, <1>3, <2>1, <2>2, <2>3, ResolveInv
  <1>4. CASE ~IsStaged(i)
    BY <1>1, <1>4, EndsInv DEF MarkApplied, ledger
  <1> QED
    BY <1>3, <1>4

LEMMA ApprovalFailsInv ==
  ASSUME IInv, NEW a \in Approvers, ApprovalFails(a)
  PROVE IInv'
  BY EndsInv DEF ApprovalFails, ledger, history

-----------------------------------------------------------------------------
(* One lemma per action: promotions.                                          *)

(* A step that changes rows of the promotion table other than by their        *)
(* snapshots, and who reads them.                                             *)
LEMMA RowStep ==
  ASSUME IInv, NEW p \in Promos, promos[p] # None, NEW row \in Promotion,
         row.snapshot = promos[p].snapshot,
         promos' = [promos EXCEPT ![p] = row],
         row.active \/ ~promos[p].active,
         UNCHANGED <<price, changes, saved, approval, closing, written, strayed>>
  PROVE IInv'
  <1>0. Parts
    BY InvIsParts
  <1>1. promos \in [Promos -> Promotion \union {None}] /\ row # None
    BY <1>0, NoneAssumption DEF Parts, TypeOK
  <1>2. TypeOK'
    BY <1>0 DEF Parts, TypeOK
  <1>3. Keeps
    BY <1>1 DEF Keeps
  <1>4. Calls'
    BY <1>0, <1>3, CallsKept, SameIfUnchanged DEF Parts
  <1>5. DiscountBacked'
    <2>1. \A q \in Promos, s \in Products :
             Covers(q, s) => Covers(q, s)' /\ promos'[q].snapshot = promos[q].snapshot
                             /\ (promos[q].active => promos'[q].active)
      BY <1>1 DEF Covers, Promotion
    <2>2. \A s \in Products : ActiveOver(s) \subseteq ActiveOver(s)'
      BY <2>1 DEF ActiveOver
    <2> QED
      BY <1>0, <2>1, <2>2 DEF Parts, DiscountBacked
  <1>6. LedgerOK' /\ ClosingOK'
    BY <1>0, <1>3, LedgerFrame, ClosingFrame DEF Parts, LedgerOK
  <1> QED
    BY <1>2, <1>4, <1>5, <1>6, InvIsParts DEF Parts, LedgerOK

LEMMA PromotionEndsInv ==
  ASSUME IInv, NEW p \in Promos, PromotionEnds(p)
  PROVE IInv'
  <1> DEFINE row == [promos[p] EXCEPT !.ended = TRUE]
  <1>1. /\ promos[p] # None /\ promos' = [promos EXCEPT ![p] = row]
        /\ UNCHANGED <<price, changes, saved, approval, closing, written, strayed>>
    BY DEF PromotionEnds, ledger, history
  <1>2. row \in Promotion /\ row.snapshot = promos[p].snapshot /\ row.active = promos[p].active
    BY <1>1, RowRecord DEF IInv, Promotion
  <1>3. row.active \/ ~promos[p].active
    BY <1>1, <1>2, RowRecord DEF IInv, Promotion
  <1> QED
    BY <1>1, <1>2, <1>3, RowStep

LEMMA ReactivateInv ==
  ASSUME IInv, NEW p \in Promos, Reactivate(p)
  PROVE IInv'
  <1> DEFINE row == [promos[p] EXCEPT !.active = TRUE]
  <1>1. /\ promos[p] # None /\ promos' = [promos EXCEPT ![p] = row]
        /\ UNCHANGED <<price, changes, saved, approval, closing, written, strayed>>
    BY DEF Reactivate, ledger, history
  <1>2. row \in Promotion /\ row.snapshot = promos[p].snapshot /\ row.active
    BY <1>1, RowRecord DEF IInv, Promotion
  <1> QED
    BY <1>1, <1>2, RowStep

(* A closer picks up a row or drops the one it has. *)
LEMMA CloserStep ==
  ASSUME IInv, NEW c \in Closers, NEW p \in Promos \union {None},
         p # None => promos[p] # None,
         closing' = [closing EXCEPT ![c] = p],
         UNCHANGED <<price, promos, changes, saved, approval, written, strayed>>
  PROVE IInv'
  <1>0. Parts
    BY InvIsParts
  <1>1. TypeOK' /\ ClosingOK'
    BY <1>0 DEF Parts, TypeOK, ClosingOK
  <1>2. Calls'
    BY <1>0, KeepsAll, CallsKept, SameIfUnchanged DEF Parts
  <1>3. LedgerOK' /\ DiscountBacked'
    BY <1>0, LedgerFrame, DiscountFrame DEF Parts, LedgerOK
  <1> QED
    BY <1>1, <1>2, <1>3, InvIsParts DEF Parts, LedgerOK

LEMMA ReadForCloseInv ==
  ASSUME IInv, NEW c \in Closers, NEW p \in Promos, ReadForClose(c, p)
  PROVE IInv'
  BY CloserStep DEF ReadForClose, ledger, history

LEMMA CloseFailsInv ==
  ASSUME IInv, NEW c \in Closers, CloseFails(c)
  PROVE IInv'
  BY CloserStep DEF CloseFails, ledger, history

(* Closing restores every price of the snapshot with the deactivation: what   *)
(* the promotion backed is either regular again or was not regular when the   *)
(* promotion was made.                                                        *)
LEMMA ClosePromotionInv ==
  ASSUME IInv, NEW c \in Closers, ClosePromotion(c)
  PROVE IInv'
  <1>0. Parts
    BY InvIsParts
  <1>12. PICK p \in Promos : closing[c] = p /\ promos[p] # None
    BY <1>0 DEF Parts, TypeOK, ClosingOK, ClosePromotion
  <1> DEFINE row == [promos[p] EXCEPT !.active = FALSE]
             snapshot == promos[p].snapshot
  <1>1. /\ SetPrices(snapshot)
        /\ approval' = Noting(approval, snapshot)
        /\ promos' = [promos EXCEPT ![p] = row]
        /\ closing' = [closing EXCEPT ![c] = None]
        /\ UNCHANGED <<changes, saved, written, strayed>>
    BY <1>12 DEF ClosePromotion, ledger, history
  <1>2. promos[p] # None /\ promos[p] \in Promotion
    BY <1>0, <1>12, RowRecord DEF Parts
  <1>3. /\ row \in Promotion /\ row # None /\ row.snapshot = snapshot
        /\ snapshot \in Prices
    BY <1>2, NoneAssumption DEF Promotion
  <1>4. promos \in [Promos -> Promotion \union {None}]
    BY <1>0 DEF Parts, TypeOK
  <1> HIDE DEF row
  <1>5. TypeOK'
    <2>1. price' \in [Products -> Price]
      BY <1>0, <1>1, <1>3, SetPricesType DEF Parts
    <2>2. approval' \in [Approvers -> Call \union {Idle}]
      BY <1>0, <1>1, <1>3, NotingType DEF Parts, TypeOK
    <2> QED
      BY <1>0, <1>1, <1>3, <2>1, <2>2 DEF Parts, TypeOK
  <1>6. Keeps
    BY <1>1, <1>3, <1>4 DEF Keeps
  <1>7. Calls'
    BY <1>0, <1>1, <1>3, <1>6, CallsKept, SameIfNoted DEF Parts, TypeOK
  <1>8. ClosingOK'
    BY <1>0, <1>1, <1>6 DEF Parts, TypeOK, ClosingOK, Keeps
  <1>9. LedgerOK'
    BY <1>0, <1>1, LedgerFrame DEF Parts, LedgerOK
  <1>10. DiscountBacked'
    <2> SUFFICES ASSUME NEW s \in Products, price'[s].off > 0
                 PROVE \/ ActiveOver(s)' # {}
                       \/ s \in strayed
                       \/ \E q \in Promos : Covers(q, s)' /\ promos'[q].snapshot[s].off > 0
      BY <1>1 DEF DiscountBacked
    <2>1. CASE s \in DOMAIN snapshot
      <3>1. price'[s] = snapshot[s]
        BY <1>1, <2>1 DEF SetPrices
      <3>2. promos'[p] = row
        BY <1>1, <1>4
      <3>3. Covers(p, s)' /\ promos'[p].snapshot[s].off > 0
        BY <1>3, <2>1, <3>1, <3>2 DEF Covers
      <3> QED
        BY <3>3
    <2>2. CASE s \notin DOMAIN snapshot
      <3>1. price'[s] = price[s]
        BY <1>1, <2>2 DEF SetPrices
      <3>2. \A q \in Promos : Covers(q, s) => q # p /\ promos'[q] = promos[q] /\ Covers(q, s)'
        BY <1>1, <1>2, <1>4, <2>2 DEF Covers
      <3>3. ActiveOver(s) \subseteq ActiveOver(s)'
        BY <3>2 DEF ActiveOver
      <3> QED
        BY <1>0, <3>1, <3>2, <3>3 DEF Parts, DiscountBacked
    <2> QED
      BY <2>1, <2>2
  <1> QED
    BY <1>5, <1>7, <1>8, <1>9, <1>10, InvIsParts DEF Parts, LedgerOK

-----------------------------------------------------------------------------
LEMMA StutterInv ==
  ASSUME IInv, UNCHANGED vars
  PROVE IInv'
  <1>0. Parts
    BY InvIsParts
  <1>1. TypeOK' /\ ClosingOK'
    BY <1>0 DEF Parts, TypeOK, ClosingOK, vars
  <1>2. Calls'
    BY <1>0, KeepsAll, CallsKept, SameIfUnchanged DEF Parts, vars
  <1>3. LedgerOK' /\ DiscountBacked'
    BY <1>0, LedgerFrame, DiscountFrame DEF Parts, LedgerOK, vars
  <1> QED
    BY <1>1, <1>2, <1>3, InvIsParts DEF Parts, LedgerOK

LEMMA StepInv == IInv /\ [Next]_vars => IInv'
  <1> SUFFICES ASSUME IInv, [Next]_vars PROVE IInv'
    OBVIOUS
  <1>1. CASE Agent
    BY <1>1, StagePriceUpdateInv, StagePromotionInv, TurnEndsInv, DiscardChangeInv,
       HostRestartsInv DEF Agent
  <1>2. ASSUME NEW a \in Approvers, Approval(a) PROVE IInv'
    BY <1>2, ApproveInv, CheckItemInv, ReadOverlapInv, ReadSnapshotInv, CreatePromotionInv,
       PatchItemInv, MarkAppliedInv, ApprovalFailsInv DEF Approval
  <1>3. CASE Backoffice
    <2>1. ASSUME NEW s \in Products, NEW u \in Usd, EditPrice(s, u) PROVE IInv'
      BY <2>1, EditPriceInv
    <2>2. ASSUME NEW p \in Promos, PromotionEnds(p) \/ Reactivate(p) PROVE IInv'
      BY <2>2, PromotionEndsInv, ReactivateInv
    <2>3. ASSUME NEW c \in Closers,
                 (\E p \in Promos : ReadForClose(c, p)) \/ ClosePromotion(c) \/ CloseFails(c)
          PROVE IInv'
      BY <2>3, ReadForCloseInv, ClosePromotionInv, CloseFailsInv
    <2> QED
      BY <1>3, <2>1, <2>2, <2>3 DEF Backoffice
  <1>4. CASE UNCHANGED vars
    BY <1>4, StutterInv
  <1> QED
    BY <1>1, <1>2, <1>3, <1>4 DEF Next

(* The inductive invariant of Pricing: types, the ledger and its file, the    *)
(* approvals in flight and their progress.                                    *)
THEOREM Invariant == Spec => []IInv
  BY InitInv, StepInv, PTL DEF Spec

(* A discounted price has an active promotion over its product, or one of the *)
(* two known causes, whatever approvals, edits, closings and restarts do.     *)
THEOREM DiscountIsBacked == Spec => []DiscountBacked
  <1>1. IInv => DiscountBacked
    BY DEF IInv
  <1> QED
    BY Invariant, <1>1, PTL

(* A change marked applied has had all its items written, for any number of   *)
(* concurrent approvals, failing calls and restarts.                          *)
THEOREM AppliedIsWritten == Spec => []AppliedInFull
  <1>1. IInv => AppliedInFull
    BY DEF IInv
  <1> QED
    BY Invariant, <1>1, PTL

-----------------------------------------------------------------------------
(* AppliedStays: an applied change is in the file as it is in memory.         *)

AppliedSaved == \A i \in Changes : IsApplied(changes[i]) => saved[i] = changes[i]

LEMMA StageApplied ==
  ASSUME TypeOK, AppliedSaved, NEW c, c # None, c.status = "staged", Stage(c)
  PROVE /\ AppliedSaved'
        /\ \A i \in Changes : IsApplied(changes[i]) => changes'[i] = changes[i]
  <1>1. PICK i \in Changes : /\ changes[i] = None
                             /\ changes' = [changes EXCEPT ![i] = c]
                             /\ saved' = saved
    BY DEF Stage, IsNextId
  <1> QED
    BY <1>1 DEF TypeOK, AppliedSaved, IsApplied

LEMMA DiscardApplied ==
  ASSUME TypeOK, AppliedSaved, NEW i \in Changes, NEW inChat \in BOOLEAN,
         DiscardChange(i, inChat)
  PROVE /\ AppliedSaved'
        /\ \A j \in Changes : IsApplied(changes[j]) => changes'[j] = changes[j]
  <1>1. /\ changes[i] # None /\ changes[i].status = "staged"
        /\ changes' = [changes EXCEPT ![i] = [changes[i] EXCEPT !.status = "discarded"]]
        /\ saved' = saved \/ saved' = changes'
    BY DEF DiscardChange, IsStaged, Resolve
  <1>2. changes'[i].status = "discarded"
    BY <1>1, ChangeRecord DEF TypeOK, Change
  <1>3. \A j \in Changes : j # i => changes'[j] = changes[j]
    BY <1>1 DEF TypeOK
  <1> QED
    BY <1>1, <1>2, <1>3 DEF AppliedSaved, IsApplied

LEMMA MarkAppliedApplied ==
  ASSUME TypeOK, AppliedSaved, NEW a \in Approvers, MarkApplied(a)
  PROVE /\ AppliedSaved'
        /\ \A j \in Changes : IsApplied(changes[j]) => changes'[j] = changes[j]
  <1> DEFINE i == approval[a].id
  <1>0. i \in Changes
    BY ServingIsCall DEF MarkApplied, At, Call
  <1>1. CASE IsStaged(i)
    <2>1. /\ changes[i].status = "staged"
          /\ changes' = [changes EXCEPT ![i] = [changes[i] EXCEPT !.status = "applied"]]
          /\ saved' = changes'
      BY <1>1 DEF MarkApplied, IsStaged, Resolve
    <2> QED
      BY <1>0, <2>1 DEF TypeOK, AppliedSaved, IsApplied
  <1>2. CASE ~IsStaged(i)
    BY <1>2 DEF MarkApplied, ledger, AppliedSaved
  <1> QED
    BY <1>1, <1>2

LEMMA RestartApplied ==
  ASSUME TypeOK, AppliedSaved, NEW torn \in BOOLEAN, HostRestarts(torn)
  PROVE /\ AppliedSaved'
        /\ \A i \in Changes : IsApplied(changes[i]) => changes'[i] \in {changes[i], None}
  <1>1. saved' \in {[i \in Changes |-> None], saved} /\ changes' = saved'
    BY DEF HostRestarts
  <1> QED
    BY <1>1 DEF AppliedSaved, IsApplied

LEMMA TurnEndsApplied ==
  ASSUME AppliedSaved, TurnEnds
  PROVE AppliedSaved' /\ changes' = changes
  BY DEF TurnEnds, AppliedSaved

LEMMA StepApplied ==
  ASSUME IInv, AppliedSaved, [Next]_vars
  PROVE /\ AppliedSaved'
        /\ \A i \in Changes : IsApplied(changes[i]) => changes'[i] \in {changes[i], None}
  <1> DEFINE Goal == /\ AppliedSaved'
                     /\ \A i \in Changes : IsApplied(changes[i]) => changes'[i] \in {changes[i], None}
  <1>0. TypeOK
    BY DEF IInv
  <1>1. ASSUME UNCHANGED ledger PROVE Goal
    BY <1>1 DEF ledger, AppliedSaved
  <1>2. ASSUME NEW c, c # None, c.status = "staged", Stage(c) PROVE Goal
    BY <1>0, <1>2, StageApplied
  <1>3. ASSUME NEW S \in Items, NEW u \in Usd, StagePriceUpdate(S, u) PROVE Goal
    <2> DEFINE c == [kind |-> "price", status |-> "staged", before |-> Restrict(price, S),
                     after |-> [s \in S |-> Regular(u)]]
    <2>1. c \in Change
      <3>1. [s \in S |-> Regular(u)] \in Prices
        BY PricesIntro, RegularIsPrice
      <3> QED
        BY <1>0, <3>1, SnapshotOfPrices DEF Change
    <2>2. Stage(c) /\ c.status = "staged"
      BY <1>3 DEF StagePriceUpdate
    <2> QED
      BY <1>2, <2>1, <2>2, NoneAssumption
  <1>4. ASSUME NEW S \in Items, StagePromotion(S) PROVE Goal
    <2> DEFINE after == [s \in S |-> Discounted(price[s])]
               c == [kind |-> "promo", status |-> "staged", before |-> Restrict(price, S),
                     after |-> after]
    <2>1. Stage(c) /\ c.status = "staged"
      BY <1>4 DEF StagePromotion
    <2>2. c # None
      <3>1. ASSUME NEW s \in S PROVE Discounted(price[s]) \in Price
        <4>1. price[s] \in Price
          BY <1>0 DEF TypeOK, Items
        <4>2. price[s].off < MaxOff
          BY <1>4 DEF StagePromotion
        <4> QED
          BY <4>1, <4>2, DiscountedIsPrice
      <3>2. after \in Prices
        BY <3>1, PricesIntro
      <3>3. c \in Change
        BY <1>0, <3>2, SnapshotOfPrices DEF Change
      <3> QED
        BY <3>3, NoneAssumption
    <2> QED
      BY <1>2, <2>1, <2>2
  <1>5. CASE Agent
    BY <1>0, <1>3, <1>4, <1>5, TurnEndsApplied, DiscardApplied, RestartApplied DEF Agent
  <1>6. ASSUME NEW a \in Approvers, Approval(a) PROVE Goal
    <2>1. CASE MarkApplied(a)
      BY <1>0, <2>1, MarkAppliedApplied
    <2>2. CASE ~MarkApplied(a)
      BY <1>1, <1>6, <2>2 DEF Approval, Approve, CheckItem, SearchMisses, RefuseDrift, Passes,
         ReadOverlap, ReadSnapshot, CreatePromotion, PatchItem, ApprovalFails
    <2> QED
      BY <2>1, <2>2
  <1>7. CASE Backoffice
    BY <1>1, <1>7 DEF Backoffice, EditPrice, PromotionEnds, Reactivate, ReadForClose,
       ClosePromotion, CloseFails
  <1>8. CASE UNCHANGED vars
    BY <1>1, <1>8 DEF vars, ledger
  <1> QED
    BY <1>5, <1>6, <1>7, <1>8 DEF Next

(* What was applied is never offered for approval again: it stays applied, or *)
(* is lost with the whole file.                                               *)
THEOREM AppliedRemains == Spec => AppliedStays
  <1>1. Init => AppliedSaved
    BY DEF Init, AppliedSaved
  <1>2. IInv /\ AppliedSaved /\ [Next]_vars => AppliedSaved'
    BY StepApplied
  <1>3. IInv /\ AppliedSaved /\ [Next]_vars =>
           [\A i \in Changes : IsApplied(changes[i]) => changes'[i] \in {changes[i], None}]_vars
    BY StepApplied
  <1> QED
    BY Invariant, <1>1, <1>2, <1>3, PTL DEF Spec, AppliedStays

-----------------------------------------------------------------------------
(* OverwritesOnlyUnseen: every item an approval has checked still has the     *)
(* value it was staged against, or was not found, or moved since.             *)

WatchedCall(a) ==
    \A s \in Checked(approval[a]) :
        Unmoved(a, s) \/ s \in approval[a].unseen \union approval[a].moved

Watched == \A a \in Approvers : Serving(a) => WatchedCall(a)

(* Whoever writes prices notes them. *)
LEMMA NotedWatch ==
  ASSUME IInv, NEW calls \in [Approvers -> Call \union {Idle}], NEW new \in Prices,
         SetPrices(new), approval' = Noting(calls, new), changes' = changes,
         NEW a \in Approvers, calls[a] # Idle, Serving(a), WatchedCall(a),
         calls[a].id = approval[a].id, Checked(calls[a]) = Checked(approval[a]),
         calls[a].unseen = approval[a].unseen, calls[a].moved = approval[a].moved
  PROVE WatchedCall(a)'
  <1> DEFINE more == {s \in DOMAIN new \intersect Checked(calls[a]) : new[s] # price[s]}
             r == [calls[a] EXCEPT !.moved = @ \union more]
  <1>1. approval'[a] = r
    BY DEF Noting
  <1>2. /\ r.id = approval[a].id /\ r.unseen = approval[a].unseen
        /\ r.moved = approval[a].moved \union more
        /\ r.pc = calls[a].pc /\ r.todo = calls[a].todo
    BY DEF Call
  <1>3. Checked(approval[a])' = Checked(approval[a])
    BY <1>1, <1>2 DEF Checked, ItemsOf
  <1>4. Checked(approval[a]) \subseteq Products
    BY AtFacts DEF Checked, Call
  <1>5. ASSUME NEW s \in Checked(approval[a]), s \notin more
        PROVE price'[s] = price[s]
    BY <1>4, <1>5 DEF SetPrices
  <1> HIDE DEF more, r
  <1>6. ASSUME NEW s \in Checked(approval[a])
        PROVE Unmoved(a, s)' \/ s \in approval'[a].unseen \union approval'[a].moved
    <2>1. CASE s \in more
      BY <1>1, <1>2, <2>1
    <2>2. CASE s \notin more
      BY <1>1, <1>2, <1>5, <1>6, <2>2 DEF WatchedCall, Unmoved, ChangeOf
    <2> QED
      BY <2>1, <2>2
  <1> QED
    BY <1>3, <1>6 DEF WatchedCall

(* An approval that moves on, between writes, watches what it watched. *)
LEMMA MovedOnWatch ==
  ASSUME IInv, NEW a \in Approvers, Serving(a), WatchedCall(a),
         price' = price, changes' = changes,
         approval'[a].id = approval[a].id,
         approval[a].pc # "check", approval'[a].pc # "check",
         approval'[a].unseen = approval[a].unseen, approval'[a].moved = approval[a].moved
  PROVE WatchedCall(a)'
  BY DEF WatchedCall, Checked, ItemsOf, Unmoved, ChangeOf

(* An approval no step touches watches what it watched. *)
BeforeKept ==
    \A i \in Changes : changes[i] # None => changes'[i].before = changes[i].before

LEMMA IdleWatch ==
  ASSUME IInv, NEW a \in Approvers, Serving(a), WatchedCall(a), BeforeKept,
         price' = price, approval'[a] = approval[a]
  PROVE WatchedCall(a)'
  <1>1. approval[a].id \in Changes /\ changes[approval[a].id] # None
    BY AtFacts DEF GoodCall
  <1>2. changes'[approval[a].id].before = changes[approval[a].id].before
    BY <1>1 DEF BeforeKept
  <1> QED
    BY <1>2 DEF WatchedCall, Checked, ItemsOf, Unmoved, ChangeOf

LEMMA PassesWatch ==
  ASSUME IInv, NEW a \in Approvers, NEW s \in Products, At(a, "check"), s \in approval[a].todo,
         NEW unseen \in SUBSET Products, Passes(a, s, unseen), WatchedCall(a),
         Unmoved(a, s) \/ s \in unseen
  PROVE WatchedCall(a)'
  <1> DEFINE left == approval[a].todo \ {s}
             todo == IF left = {} THEN ItemsOf(approval[a].id) ELSE left
             pc == IF left = {} THEN AfterCheck(a) ELSE "check"
             r == [approval[a] EXCEPT !.todo = todo, !.pc = pc, !.unseen = @ \union unseen]
  <1>1. /\ Serving(a) /\ approval[a].pc = "check"
        /\ UNCHANGED <<price, changes>>
    BY DEF At, Passes, ledger
  <1>2. approval'[a] = r
    BY DEF Passes, IInv, TypeOK
  <1>3. /\ r.id = approval[a].id /\ r.unseen = approval[a].unseen \union unseen
        /\ r.moved = approval[a].moved /\ r.pc = pc /\ r.todo = todo
    BY <1>1, AtFacts DEF Call
  <1>4. left # {} => pc = "check" /\ todo = left
    OBVIOUS
  <1>5. left = {} => pc # "check"
    BY DEF AfterCheck
  <1> HIDE DEF r, pc, todo
  <1>6. Checked(approval[a])' \subseteq Checked(approval[a]) \union {s}
    <2>1. CASE left = {}
      BY <1>1, <1>2, <1>3, <1>5, <2>1 DEF Checked, ItemsOf
    <2>2. CASE left # {}
      BY <1>1, <1>2, <1>3, <1>4, <2>2 DEF Checked, ItemsOf
    <2> QED
      BY <2>1, <2>2
  <1>7. ASSUME NEW t \in Checked(approval[a]) \union {s}
        PROVE Unmoved(a, t)' \/ t \in approval'[a].unseen \union approval'[a].moved
    BY <1>1, <1>2, <1>3, <1>7 DEF WatchedCall, Unmoved, ChangeOf
  <1> QED
    BY <1>6, <1>7 DEF WatchedCall

LEMMA BeforesKept ==
  ASSUME IInv
  PROVE /\ UNCHANGED changes => BeforeKept
        /\ \A c : Stage(c) => BeforeKept
        /\ \A i \in Changes, how \in {"applied", "discarded"} : Resolve(i, how) => BeforeKept
  <1>0. changes \in [Changes -> Change \union {None}]
    BY DEF IInv, TypeOK
  <1>1. UNCHANGED changes => BeforeKept
    BY DEF BeforeKept
  <1>2. ASSUME NEW c, Stage(c) PROVE BeforeKept
    BY <1>0, <1>2 DEF Stage, IsNextId, BeforeKept
  <1>3. ASSUME NEW i \in Changes, NEW how \in {"applied", "discarded"}, Resolve(i, how)
        PROVE BeforeKept
    <2>1. ASSUME NEW j \in Changes, changes[j] # None
          PROVE changes'[j].before = changes[j].before
      BY <1>0, <1>3, <2>1 DEF Resolve, Change
    <2> QED
      BY <2>1 DEF BeforeKept
  <1> QED
    BY <1>1, <1>2, <1>3

(* One approval moves, the others do not, and no price changes. *)
LEMMA OneMovesWatch ==
  ASSUME IInv, Watched, NEW a \in Approvers, BeforeKept, price' = price,
         \A b \in Approvers : b # a => approval'[b] = approval[b],
         approval'[a] # Idle => WatchedCall(a)'
  PROVE Watched'
  BY IdleWatch DEF Watched, Serving

LEMMA WriteWatch ==
  ASSUME IInv, Watched, NEW new \in Prices, SetPrices(new), changes' = changes,
         approval' = Noting(approval, new)
  PROVE Watched'
  <1> SUFFICES ASSUME NEW a \in Approvers, approval'[a] # Idle PROVE WatchedCall(a)'
    BY DEF Watched, Serving
  <1>1. approval \in [Approvers -> Call \union {Idle}]
    BY DEF IInv, TypeOK
  <1>2. approval[a] # Idle
    BY <1>1, NotingIdle
  <1>3. Serving(a) /\ WatchedCall(a)
    BY <1>2 DEF Watched, Serving
  <1> QED
    BY <1>1, <1>2, <1>3, NotedWatch

LEMMA PatchItemWatch ==
  ASSUME IInv, Watched, NEW a \in Approvers, NEW s \in Products, PatchItem(a, s)
  PROVE Watched'
  <1> DEFINE i == approval[a].id
             left == approval[a].todo \ {s}
             new == [t \in {s} |-> changes[i].after[s]]
             r == [approval[a] EXCEPT !.todo = left,
                       !.pc = IF left = {} THEN "apply" ELSE "patch"]
             calls == [approval EXCEPT ![a] = r]
  <1>1. /\ Serving(a) /\ approval[a].pc = "patch" /\ s \in approval[a].todo
        /\ SetPrices(new) /\ changes' = changes
    BY DEF PatchItem, At, ChangeOf, ledger
  <1>2. approval' = Noting(calls, new)
    BY DEF PatchItem, ChangeOf, IInv, TypeOK
  <1>3. new \in Prices
    <2>1. /\ changes[i] \in {changes[j] : j \in Changes} \ {None}
          /\ changes[i].after \in Prices /\ s \in ItemsOf(i)
      BY <1>1, AtFacts DEF GoodCall, Change
    <2>2. DOMAIN changes[i].after = ItemsOf(i)
      BY <2>1 DEF IInv, ChangesOK, ItemsOf
    <2>3. changes[i].after[s] \in Price
      BY <2>1, <2>2, PricesElim
    <2> QED
      BY <2>3, OnePrice
  <1>4. /\ r \in Call /\ r.id = i /\ r.unseen = approval[a].unseen /\ r.moved = approval[a].moved
        /\ r.pc # "check"
    BY <1>1, AtFacts DEF Call
  <1> HIDE DEF r, new
  <1>5. calls \in [Approvers -> Call \union {Idle}] /\ calls[a] = r /\ r # Idle
    BY <1>4, IdleIsNoCall DEF IInv, TypeOK
  <1>6. Checked(calls[a]) = Checked(approval[a])
    BY <1>1, <1>4, <1>5 DEF Checked
  <1>7. ASSUME NEW b \in Approvers, approval'[b] # Idle PROVE WatchedCall(b)'
    <2>1. CASE b = a
      BY <1>1, <1>2, <1>3, <1>4, <1>5, <1>6, <2>1, NotedWatch DEF Watched
    <2>2. CASE b # a
      <3>1. calls[b] = approval[b]
        BY <2>2 DEF IInv, TypeOK
      <3>2. calls[b] # Idle
        BY <1>2, <1>7, NotingIdle
      <3> QED
        BY <1>1, <1>2, <1>3, <1>5, <3>1, <3>2, NotedWatch DEF Watched, Serving
    <2> QED
      BY <2>1, <2>2
  <1> QED
    BY <1>7 DEF Watched, Serving

LEMMA ApprovalWatch ==
  ASSUME IInv, Watched, NEW a \in Approvers, Approval(a)
  PROVE Watched'
  <1>0. approval \in [Approvers -> Call \union {Idle}]
    BY DEF IInv, TypeOK
  <1>1. ASSUME NEW i \in Changes, Approve(a, i) PROVE Watched'
    <2>1. /\ approval'[a].pc = "check" /\ approval'[a].id = i /\ approval'[a].todo = ItemsOf(i)
          /\ price' = price /\ changes' = changes
          /\ \A b \in Approvers : b # a => approval'[b] = approval[b]
      BY <1>0, <1>1 DEF Approve, ledger
    <2>2. Checked(approval[a])' = {}
      BY <2>1 DEF Checked, ItemsOf
    <2>3. WatchedCall(a)'
      BY <2>2 DEF WatchedCall
    <2> QED
      BY <2>1, <2>3, BeforesKept, OneMovesWatch
  <1>2. ASSUME NEW s \in Products, NEW unseen \in SUBSET Products, Passes(a, s, unseen),
               At(a, "check"), s \in approval[a].todo, Unmoved(a, s) \/ s \in unseen
        PROVE Watched'
    <2>1. /\ price' = price /\ changes' = changes
          /\ \A b \in Approvers : b # a => approval'[b] = approval[b]
      BY <1>0, <1>2 DEF Passes, ledger
    <2>2. WatchedCall(a)'
      BY <1>2, PassesWatch DEF At, Watched
    <2> QED
      BY <2>1, <2>2, BeforesKept, OneMovesWatch
  <1>3. ASSUME Ends(a), price' = price, BeforeKept PROVE Watched'
    BY <1>0, <1>3, OneMovesWatch DEF Ends
  <1>4. ASSUME NEW r, approval' = [approval EXCEPT ![a] = r], Serving(a),
               price' = price, changes' = changes, approval[a].pc # "check",
               r.id = approval[a].id, r.pc # "check",
               r.unseen = approval[a].unseen, r.moved = approval[a].moved
        PROVE Watched'
    <2>1. approval'[a] = r /\ \A b \in Approvers : b # a => approval'[b] = approval[b]
      BY <1>0, <1>4
    <2>2. WatchedCall(a)'
      BY <1>4, <2>1, MovedOnWatch DEF Watched
    <2> QED
      BY <1>4, <2>1, <2>2, BeforesKept, OneMovesWatch
  <1>5. ASSUME NEW s \in Products, CheckItem(a, s) \/ SearchMisses(a, s) \/ RefuseDrift(a, s)
        PROVE Watched'
    <2>1. CASE CheckItem(a, s)
      BY <1>2, <2>1 DEF CheckItem
    <2>2. CASE SearchMisses(a, s)
      BY <1>2, <2>2 DEF SearchMisses
    <2>3. CASE RefuseDrift(a, s)
      BY <1>3, <2>3, BeforesKept DEF RefuseDrift, ledger
    <2> QED
      BY <1>5, <2>1, <2>2, <2>3
  <1>6. CASE ReadOverlap(a)
    <2>1. CASE Ends(a)
      BY <1>3, <1>6, <2>1, BeforesKept DEF ReadOverlap, ledger
    <2>2. CASE ~Ends(a)
      <3> DEFINE r == [approval[a] EXCEPT !.pc = "snapshot"]
      <3>1. /\ Serving(a) /\ approval[a].pc # "check" /\ price' = price /\ changes' = changes
            /\ approval' = [approval EXCEPT ![a] = r]
        BY <1>0, <1>6, <2>2 DEF ReadOverlap, At, ledger
      <3>2. /\ r.id = approval[a].id /\ r.pc # "check"
            /\ r.unseen = approval[a].unseen /\ r.moved = approval[a].moved
        BY <3>1, AtFacts DEF Call
      <3> QED
        BY <1>4, <3>1, <3>2
    <2> QED
      BY <2>1, <2>2
  <1>7. CASE ReadSnapshot(a)
    <2> DEFINE r == [approval[a] EXCEPT !.pc = "create",
                                        !.snapshot = Restrict(price, approval[a].todo)]
    <2>1. /\ Serving(a) /\ approval[a].pc # "check" /\ price' = price /\ changes' = changes
          /\ approval' = [approval EXCEPT ![a] = r]
      BY <1>0, <1>7 DEF ReadSnapshot, At, ledger
    <2>2. /\ r.id = approval[a].id /\ r.pc # "check"
          /\ r.unseen = approval[a].unseen /\ r.moved = approval[a].moved
      BY <2>1, AtFacts DEF Call
    <2> QED
      BY <1>4, <2>1, <2>2
  <1>8. ASSUME NEW p \in Promos, NEW ended \in BOOLEAN, CreatePromotion(a, p, ended)
        PROVE Watched'
    <2> DEFINE r == [approval[a] EXCEPT !.pc = "patch", !.promo = p]
    <2>1. /\ Serving(a) /\ approval[a].pc # "check" /\ price' = price /\ changes' = changes
          /\ approval' = [approval EXCEPT ![a] = r]
      BY <1>0, <1>8 DEF CreatePromotion, At, ledger
    <2>2. /\ r.id = approval[a].id /\ r.pc # "check"
          /\ r.unseen = approval[a].unseen /\ r.moved = approval[a].moved
      BY <2>1, AtFacts DEF Call
    <2> QED
      BY <1>4, <2>1, <2>2
  <1>9. CASE MarkApplied(a)
    <2>1. BeforeKept
      BY <1>9, AtFacts, BeforesKept DEF MarkApplied, At, ledger
    <2> QED
      BY <1>3, <1>9, <2>1 DEF MarkApplied
  <1>10. CASE ApprovalFails(a)
    BY <1>3, <1>10, BeforesKept DEF ApprovalFails, ledger
  <1> QED
    BY <1>1, <1>5, <1>6, <1>7, <1>8, <1>9, <1>10, PatchItemWatch DEF Approval

LEMMA StepWatch ==
  ASSUME IInv, Watched, [Next]_vars
  PROVE Watched'
  <1>1. ASSUME price' = price, approval' = approval, BeforeKept PROVE Watched'
    BY <1>1, IdleWatch DEF Watched, Serving
  <1>2. CASE Agent
    <2>1. CASE \E torn \in BOOLEAN : HostRestarts(torn)
      BY <2>1 DEF HostRestarts, Watched, Serving
    <2>2. ASSUME NEW c, Stage(c) PROVE Watched'
      BY <1>1, <2>2, BeforesKept DEF Stage
    <2>3. ASSUME NEW i \in Changes, NEW inChat \in BOOLEAN, DiscardChange(i, inChat)
          PROVE Watched'
      BY <1>1, <2>3, BeforesKept DEF DiscardChange
    <2>4. CASE TurnEnds
      BY <1>1, <2>4, BeforesKept DEF TurnEnds
    <2> QED
      BY <1>2, <2>1, <2>2, <2>3, <2>4 DEF Agent, StagePriceUpdate, StagePromotion
  <1>3. CASE Backoffice
    <2>1. ASSUME NEW s \in Products, NEW u \in Usd, EditPrice(s, u) PROVE Watched'
      <3>1. [t \in {s} |-> Regular(u)] \in Prices
        BY OnePrice, RegularIsPrice
      <3> QED
        BY <2>1, <3>1, WriteWatch DEF EditPrice, ledger
    <2>2. ASSUME NEW c \in Closers, ClosePromotion(c) PROVE Watched'
      <3>1. promos[closing[c]].snapshot \in Prices
        BY <2>2, RowRecord DEF ClosePromotion, IInv, ClosingOK, TypeOK, Promotion
      <3> QED
        BY <2>2, <3>1, WriteWatch DEF ClosePromotion, ledger
    <2>3. ASSUME UNCHANGED <<price, approval, changes>> PROVE Watched'
      BY <1>1, <2>3, BeforesKept
    <2> QED
      BY <1>3, <2>1, <2>2, <2>3
      DEF Backoffice, PromotionEnds, Reactivate, ReadForClose, CloseFails, ledger
  <1>4. CASE UNCHANGED vars
    BY <1>1, <1>4, BeforesKept DEF vars
  <1> QED
    BY <1>2, <1>3, <1>4, ApprovalWatch DEF Next

(* An approval overwrites an unexpected value only where the drift check      *)
(* could not read the item or the item moved after its check.                 *)
THEOREM OverwritesAreUnseen == Spec => OverwritesOnlyUnseen
  <1>1. Init => Watched
    BY DEF Init, Watched, Serving
  <1>2. IInv /\ Watched /\ [Next]_vars => Watched'
    BY StepWatch
  <1>3. IInv /\ Watched =>
           [\A a \in Approvers, s \in Products : PatchItem(a, s) =>
              \/ Unmoved(a, s)
              \/ s \in approval[a].unseen \union approval[a].moved]_vars
    <2> SUFFICES ASSUME IInv, Watched, NEW a \in Approvers, NEW s \in Products, PatchItem(a, s)
                 PROVE Unmoved(a, s) \/ s \in approval[a].unseen \union approval[a].moved
      OBVIOUS
    <2>1. Serving(a) /\ approval[a].pc = "patch" /\ s \in approval[a].todo
      BY DEF PatchItem, At
    <2>2. s \in Checked(approval[a])
      BY <2>1, AtFacts DEF Checked, GoodCall
    <2> QED
      BY <2>1, <2>2 DEF Watched, WatchedCall
  <1> QED
    BY Invariant, <1>1, <1>2, <1>3, PTL DEF Spec, OverwritesOnlyUnseen
=============================================================================
