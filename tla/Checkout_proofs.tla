---------------------------- MODULE Checkout_proofs ----------------------------
(***************************************************************************)
(* Theorems about Checkout, for every set of customers, carts, keys, limits   *)
(* and requests at a time, and every number of orders.                       *)
(***************************************************************************)
EXTENDS Checkout, SequenceTheorems, WellFoundedInduction, TLAPS

USE IdentityAssumption, CartAssumption, BoundAssumption, MethodAssumption DEF Identity

--------------------------------------------------------------------------------
(* The inductive invariant.                                                    *)

(* What TypeOK leaves open of the tables and of the history.                   *)
RowTypes ==
  /\ keyRow \in [Key -> [order : 0..MaxOrders, by : Identity \cup {NoOne}]]
  /\ intents \in [Intent -> [status : {"none", "ACTIVE", "LOCKED", "USED", "REVOKED"},
                             by : User \cup {NoOne}, cap : Nat]]
  /\ answers \subseteq [key : Key \cup {NoKey}, by : Identity, cart : Cart,
                        order : 0..MaxOrders]
  /\ unsaved \subseteq Key

(* A request on its way is somebody's, has a key or a limit where it needs     *)
(* one, never both, and past Create an order of its own.                       *)
SlotKnows(s) ==
  LET r == slot[s] IN
  /\ r.pc # "idle" => r.by \in Identity /\ r.cart \in Cart
  /\ r.pc \in {"replay", "save"} => r.key \in Key
  /\ r.pc = "lock" => r.intent \in Intent
  /\ r.key # NoKey => r.intent = NoIntent
  /\ r.pc \in {"save", "use"} =>
       /\ r.order \in DOMAIN orders
       /\ orders[r.order].by = r.by /\ orders[r.order].intent = r.intent

(* A key row names an order of the key's owner.                                *)
KeysNameOrders ==
  \A k \in Key : keyRow[k].order # 0 =>
    keyRow[k].order \in DOMAIN orders /\ orders[keyRow[k].order].by = keyRow[k].by

WellFormed == TypeOK /\ RowTypes /\ (\A s \in Slot : SlotKnows(s)) /\ KeysNameOrders

(* An answer names an order of whom it was given to, and a guest's that of the *)
(* key, unless the key could not be stored.                                    *)
AnswerHolds(a) ==
  a.order > 0 =>
    /\ orders[a.order].by = a.by
    /\ a.by \in Guest /\ a.key \in Key \ unsaved => keyRow[a.key].order = a.order

(* The request about to answer with its own order holds the key.               *)
UseHolds(s) ==
  slot[s].pc = "use" /\ slot[s].key \in Key \ unsaved
    => keyRow[slot[s].key].order = slot[s].order

AnswersHold == (\A a \in answers : AnswerHolds(a)) /\ (\A s \in Slot : UseHolds(s))

(* A request between its lock and its order has the limit to itself.           *)
Spends(s) == slot[s].pc \in {"dedupe", "create"} /\ slot[s].intent # NoIntent
SpendsOwn(s) ==
  LET i == slot[s].intent IN
  /\ intents[i].by = slot[s].by /\ intents[i].status \in {"LOCKED", "USED"}
  /\ Look[slot[s].cart].total <= intents[i].cap
  /\ \A n \in DOMAIN orders : orders[n].intent # i
SpendersApart ==
  \A s, t \in Slot : Spends(s) /\ Spends(t) /\ slot[s].intent = slot[t].intent => s = t

LimitsHold == (\A s \in Slot : Spends(s) => SpendsOwn(s)) /\ SpendersApart /\ IntentSpentOnce

CheckoutInv == WellFormed /\ AnswersHold /\ LimitsHold

--------------------------------------------------------------------------------
(* What steps do to the slots and to the browser.                              *)

(* One request moves.                                                          *)
Moves(s) == slot' \in [Slot -> SlotRow] /\ \A t \in Slot \ {s} : slot'[t] = slot[t]

LEMMA IdleFacts ==
  /\ IdleSlot \in SlotRow /\ IdleSlot.pc = "idle" /\ IdleSlot.key = NoKey
  /\ IdleSlot.intent = NoIntent
BY DEF IdleSlot, SlotRow

LEMMA GotoFacts ==
  ASSUME TypeOK, NEW s \in Slot, NEW pc \in {"dedupe", "create", "use"}, Goto(s, pc)
  PROVE  /\ Moves(s) /\ slot'[s].pc = pc
         /\ slot'[s].by = slot[s].by /\ slot'[s].key = slot[s].key
         /\ slot'[s].intent = slot[s].intent /\ slot'[s].cart = slot[s].cart
         /\ slot'[s].order = slot[s].order
<1>1. slot'[s] = [slot[s] EXCEPT !.pc = pc] /\ slot[s] \in SlotRow
  BY DEF Goto, TypeOK
<1>2. QED
  BY <1>1 DEF Goto, Moves, TypeOK, SlotRow

LEMMA EndFacts ==
  ASSUME TypeOK, NEW s \in Slot, slot' = [slot EXCEPT ![s] = IdleSlot]
  PROVE  Moves(s) /\ slot'[s] = IdleSlot
BY IdleFacts DEF Moves, TypeOK

BrowserType == stored \in [Cart -> Key \cup {NoKey}] /\ waiting \in Slot \cup {NoSlot}

LEMMA DeliverType ==
  ASSUME TypeOK, NEW s \in Slot, NEW kept \in BOOLEAN, Deliver(s, kept)
  PROVE  BrowserType'
BY DEF TypeOK, Deliver, BrowserType

LEMMA RefuseFacts ==
  ASSUME TypeOK, NEW s \in Slot, Refuse(s)
  PROVE  Moves(s) /\ slot'[s] = IdleSlot /\ BrowserType'
BY EndFacts, DeliverType DEF Refuse

AnswerRow(s, n) == [key |-> slot[s].key, by |-> slot[s].by, cart |-> slot[s].cart, order |-> n]

LEMMA AnswerFacts ==
  ASSUME TypeOK, NEW s \in Slot, NEW n, AnswerWith(s, n)
  PROVE  /\ Moves(s) /\ slot'[s] = IdleSlot /\ BrowserType'
         /\ answers' = answers \cup {AnswerRow(s, n)}
BY EndFacts, DeliverType DEF AnswerWith, AnswerRow

LEMMA AnswerRowType ==
  ASSUME WellFormed, NEW s \in Slot, slot[s].pc # "idle", NEW n \in 0..MaxOrders
  PROVE  AnswerRow(s, n) \in [key : Key \cup {NoKey}, by : Identity, cart : Cart,
                              order : 0..MaxOrders]
<1>1. slot[s] \in SlotRow /\ slot[s].by \in Identity /\ slot[s].cart \in Cart
  BY DEF WellFormed, TypeOK, SlotKnows
<1>2. QED
  BY <1>1 DEF AnswerRow, SlotRow

LEMMA OrderFacts ==
  ASSUME TypeOK
  PROVE  /\ DOMAIN orders = 1..Len(orders) /\ Len(orders) \in 0..MaxOrders
         /\ DOMAIN orders \subseteq 1..MaxOrders
         /\ \A n \in DOMAIN orders : orders[n] \in OrderRow
BY DEF TypeOK

--------------------------------------------------------------------------------
(* Steps that leave the tables alone, whatever they do to a request.           *)

TablesStay == UNCHANGED <<orders, keyRow, intents, approval>>

LEMMA StayWellFormed ==
  ASSUME WellFormed, TablesStay, BrowserType', NEW s \in Slot, Moves(s), SlotKnows(s)',
         answers' \subseteq [key : Key \cup {NoKey}, by : Identity, cart : Cart,
                             order : 0..MaxOrders],
         \A a \in answers' : a.order \in {Conflict} \cup DOMAIN orders,
         unsaved' \subseteq Key
  PROVE  WellFormed'
<1>1. \A t \in Slot : SlotKnows(t)'
  BY DEF WellFormed, SlotKnows, Moves, TablesStay
<1>2. QED
  BY <1>1 DEF WellFormed, TypeOK, RowTypes, KeysNameOrders, BrowserType, Moves, TablesStay

(* Rows are never deleted, owners never change, a key row is written once.     *)
OrdersKeep ==
  \A n \in DOMAIN orders : /\ n \in DOMAIN orders'
                           /\ orders'[n].by = orders[n].by
                           /\ orders'[n].cart = orders[n].cart
                           /\ orders'[n].intent = orders[n].intent
KeysKeep == \A k \in Key : keyRow[k].order # 0 => keyRow'[k] = keyRow[k]

LEMMA KeptAnswersHold ==
  ASSUME WellFormed, AnswersHold, OrdersKeep, KeysKeep, unsaved \subseteq unsaved',
         \A a \in answers' \ answers : AnswerHolds(a)',
         \A t \in Slot : (slot'[t].pc = "use" /\ slot'[t] # slot[t]) => UseHolds(t)'
  PROVE  AnswersHold'
<1>1. ASSUME NEW a \in answers
      PROVE  AnswerHolds(a)'
  <2>1. a.order \in {0} \cup DOMAIN orders
    BY DEF WellFormed, TypeOK, Conflict
  <2>2. a.order > 0 => a.order \in DOMAIN orders
    BY <2>1
  <2>3. QED
    BY <2>2, OrderFacts
    DEF AnswersHold, AnswerHolds, OrdersKeep, KeysKeep, WellFormed
<1>2. ASSUME NEW t \in Slot, slot'[t] = slot[t]
      PROVE  UseHolds(t)'
  <2>1. slot[t].pc = "use" => slot[t].order \in DOMAIN orders
    BY DEF WellFormed, SlotKnows
  <2>2. QED
    BY <1>2, <2>1, OrderFacts DEF AnswersHold, UseHolds, KeysKeep, WellFormed
<1>3. \A t \in Slot : UseHolds(t)'
  BY <1>2 DEF UseHolds
<1>4. QED
  BY <1>1, <1>3 DEF AnswersHold

IntentsKeep ==
  \A i \in Intent : intents[i].status \in {"LOCKED", "USED"} =>
    /\ intents'[i].status \in {"LOCKED", "USED"}
    /\ intents'[i].by = intents[i].by /\ intents'[i].cap = intents[i].cap

LEMMA KeptLimitsHold ==
  ASSUME WellFormed, LimitsHold, OrdersKeep, DOMAIN orders' = DOMAIN orders, IntentsKeep,
         \A t \in Slot : Spends(t)' => /\ Spends(t) /\ slot'[t].intent = slot[t].intent
                                       /\ slot'[t].by = slot[t].by
                                       /\ slot'[t].cart = slot[t].cart
  PROVE  LimitsHold'
<1>1. ASSUME NEW t \in Slot, Spends(t)'
      PROVE  SpendsOwn(t)'
  <2>1. slot[t].intent \in Intent
    BY <1>1 DEF WellFormed, TypeOK, SlotRow, Spends
  <2>2. QED
    BY <1>1, <2>1 DEF LimitsHold, SpendsOwn, OrdersKeep, IntentsKeep
<1>2. SpendersApart'
  BY DEF LimitsHold, SpendersApart
<1>3. IntentSpentOnce'
  <2>1. \A n \in DOMAIN orders : orders[n].intent \in Intent \cup {NoIntent}
    BY OrderFacts DEF WellFormed, OrderRow
  <2>2. QED
    BY <2>1 DEF LimitsHold, IntentSpentOnce, OrdersKeep, IntentsKeep
<1>4. QED
  BY <1>1, <1>2, <1>3 DEF LimitsHold

(* A request that ends: with a refusal, or with an answer that holds.          *)
LEMMA EndInv ==
  ASSUME CheckoutInv, TablesStay, NEW s \in Slot, Moves(s), slot'[s] = IdleSlot, BrowserType',
         unsaved' = unsaved,
         \A a \in answers' \ answers :
            /\ a \in [key : Key \cup {NoKey}, by : Identity, cart : Cart, order : 0..MaxOrders]
            /\ a.order \in {Conflict} \cup DOMAIN orders
            /\ AnswerHolds(a)
  PROVE  CheckoutInv'
<1> USE DEF CheckoutInv
<1>1. WellFormed'
  <2>1. SlotKnows(s)'
    BY IdleFacts DEF SlotKnows
  <2>2. /\ answers' \subseteq [key : Key \cup {NoKey}, by : Identity, cart : Cart, order : 0..MaxOrders]
        /\ \A a \in answers' : a.order \in {Conflict} \cup DOMAIN orders
    BY DEF WellFormed, TypeOK, RowTypes
  <2>3. QED
    BY <2>1, <2>2, StayWellFormed DEF WellFormed, RowTypes
<1>2. OrdersKeep /\ KeysKeep /\ IntentsKeep
  BY DEF TablesStay, OrdersKeep, KeysKeep, IntentsKeep
<1>3. AnswersHold'
  <2>1. \A a \in answers' \ answers : AnswerHolds(a)'
    BY DEF AnswerHolds, TablesStay
  <2>2. \A t \in Slot : slot'[t].pc = "use" => slot'[t] = slot[t]
    BY IdleFacts DEF Moves
  <2>3. QED
    BY <1>2, <2>1, <2>2, KeptAnswersHold
<1>4. LimitsHold'
  BY <1>2, KeptLimitsHold, IdleFacts DEF TablesStay, Spends, Moves
<1>5. QED
  BY <1>1, <1>3, <1>4

(* A request that goes on with what it has.                                    *)
LEMMA GoOnInv ==
  ASSUME CheckoutInv, TablesStay, NEW s \in Slot, NEW pc \in {"dedupe", "create", "use"},
         Goto(s, pc), UNCHANGED <<browserVars, answers>>,
         unsaved \subseteq unsaved', unsaved' \subseteq Key,
         pc = "dedupe" => slot[s].pc = "replay",
         pc = "create" => slot[s].pc = "dedupe",
         pc = "use" => slot[s].pc = "save" /\ slot[s].key \in unsaved'
  PROVE  CheckoutInv'
<1> USE DEF CheckoutInv
<1>1. SlotKnows(s)'
  BY GotoFacts DEF WellFormed, SlotKnows, TablesStay
<1>2. WellFormed'
  BY <1>1, GotoFacts, StayWellFormed DEF WellFormed, TypeOK, RowTypes, BrowserType, browserVars
<1>3. OrdersKeep /\ KeysKeep /\ IntentsKeep
  BY DEF TablesStay, OrdersKeep, KeysKeep, IntentsKeep
<1>4. AnswersHold'
  <2>1. \A t \in Slot : slot'[t] # slot[t] /\ slot'[t].pc = "use" => UseHolds(t)'
    BY GotoFacts DEF Moves, UseHolds, WellFormed
  <2>2. QED
    BY <1>3, <2>1, KeptAnswersHold
<1>5. LimitsHold'
  <2>1. slot[s].pc = "replay" => slot[s].intent = NoIntent
    BY DEF WellFormed, SlotKnows
  <2>2. \A t \in Slot : Spends(t)' => /\ Spends(t) /\ slot'[t].intent = slot[t].intent
                                      /\ slot'[t].by = slot[t].by /\ slot'[t].cart = slot[t].cart
    BY <2>1, GotoFacts DEF Moves, Spends, WellFormed
  <2>3. QED
    BY <1>3, <2>2, KeptLimitsHold DEF TablesStay
<1>6. QED
  BY <1>2, <1>4, <1>5

(* The answer of a key row: the caller's order, or the conflict.               *)
LEMMA ReplayInv ==
  ASSUME CheckoutInv, TablesStay, NEW s \in Slot, slot[s].pc \in {"replay", "save"},
         keyRow[slot[s].key].order # 0, ReplayKey(s, FALSE), unsaved' = unsaved
  PROVE  CheckoutInv'
<1> DEFINE row == keyRow[slot[s].key]
<1>1. /\ slot[s].key \in Key /\ row.order \in DOMAIN orders /\ orders[row.order].by = row.by
      /\ row.order \in 0..MaxOrders
  BY OrderFacts DEF CheckoutInv, WellFormed, SlotKnows, KeysNameOrders, RowTypes
<1>2. CASE row.by = slot[s].by /\ AnswerWith(s, row.order)
  <2>1. AnswerHolds(AnswerRow(s, row.order)) /\ AnswerRow(s, row.order).order = row.order
    BY <1>1, <1>2 DEF AnswerHolds, AnswerRow
  <2>2. AnswerRow(s, row.order) \in [key : Key \cup {NoKey}, by : Identity, cart : Cart,
                                     order : 0..MaxOrders]
    BY <1>1, AnswerRowType DEF CheckoutInv
  <2> HIDE DEF row
  <2>3. /\ Moves(s) /\ slot'[s] = IdleSlot /\ BrowserType'
        /\ answers' = answers \cup {AnswerRow(s, row.order)}
    BY <1>2, AnswerFacts DEF CheckoutInv, WellFormed
  <2>4. QED
    BY <1>1, <2>1, <2>2, <2>3, EndInv
<1>3. CASE Refuse(s) /\ answers' = answers \cup {AnswerRow(s, Conflict)}
  <2>1. AnswerHolds(AnswerRow(s, Conflict)) /\ AnswerRow(s, Conflict).order = Conflict
    BY DEF AnswerHolds, AnswerRow, Conflict
  <2>2. Conflict \in 0..MaxOrders
    BY DEF Conflict
  <2>3. QED
    BY <1>3, <2>1, <2>2, RefuseFacts, AnswerRowType, EndInv DEF CheckoutInv, WellFormed
<1>4. QED
  BY <1>2, <1>3 DEF ReplayKey, AnswerRow

--------------------------------------------------------------------------------
(* The actions.                                                                *)

LEMMA InitInv == Init => CheckoutInv
<1> SUFFICES ASSUME Init PROVE CheckoutInv
  OBVIOUS
<1>1. orders \in Seq(OrderRow) /\ Len(orders) = 0 /\ DOMAIN orders = {}
  BY DEF Init
<1>2. slot \in [Slot -> SlotRow] /\ \A s \in Slot : slot[s] = IdleSlot
  BY IdleFacts DEF Init
<1>3. TypeOK
  BY <1>1, <1>2 DEF Init, TypeOK, NoKeyRow
<1>4. RowTypes
  BY DEF Init, RowTypes, NoKeyRow
<1>5. (\A s \in Slot : SlotKnows(s)) /\ KeysNameOrders
  BY <1>2, IdleFacts DEF Init, SlotKnows, KeysNameOrders, NoKeyRow
<1>6. AnswersHold /\ LimitsHold
  BY <1>1, <1>2, IdleFacts
  DEF Init, AnswersHold, UseHolds, LimitsHold, Spends, SpendersApart, IntentSpentOnce
<1>7. QED
  BY <1>3, <1>4, <1>5, <1>6 DEF CheckoutInv, WellFormed

(* A request starts, from the page or from the agent.                          *)
LEMMA BeginInv ==
  ASSUME CheckoutInv, TablesStay, NEW s \in Slot, NEW row \in SlotRow, Begin(s, row),
         row.pc \in {"replay", "lock"}, row.by \in Identity, row.cart \in Cart,
         row.pc = "replay" => row.key \in Key /\ row.intent = NoIntent,
         row.pc = "lock" => row.key = NoKey /\ row.intent \in Intent,
         BrowserType', UNCHANGED historyVars
  PROVE  CheckoutInv'
<1> USE DEF CheckoutInv
<1>1. Moves(s) /\ slot'[s] = row
  BY DEF Begin, Moves, WellFormed, TypeOK
<1>2. SlotKnows(s)'
  BY <1>1 DEF SlotKnows
<1>3. WellFormed'
  BY <1>1, <1>2, StayWellFormed DEF WellFormed, TypeOK, RowTypes, historyVars
<1>4. OrdersKeep /\ KeysKeep /\ IntentsKeep
  BY DEF TablesStay, OrdersKeep, KeysKeep, IntentsKeep
<1>5. AnswersHold'
  <2>1. \A t \in Slot : slot'[t].pc = "use" => slot'[t] = slot[t]
    BY <1>1 DEF Moves
  <2>2. QED
    BY <1>4, <2>1, KeptAnswersHold DEF historyVars
<1>6. LimitsHold'
  BY <1>1, <1>4, KeptLimitsHold DEF TablesStay, Spends, Moves
<1>7. QED
  BY <1>3, <1>5, <1>6

LEMMA CallerInv ==
  ASSUME CheckoutInv, NEW s \in Slot,
         \/ \E b \in Identity, c \in Cart, m \in Method, k \in Key : Click(s, b, c, m, k)
         \/ \E u \in User, c \in Cart, i \in Intent : AgentPlace(s, u, c, i)
  PROVE  CheckoutInv'
<1>1. ASSUME NEW b \in Identity, NEW c \in Cart, NEW m \in Method, NEW k \in Key,
             Click(s, b, c, m, k)
      PROVE  CheckoutInv'
  <2> DEFINE old == \E a \in answers : a.key = k /\ a.by = b /\ a.order > 0 /\ k \notin unsaved
             row == [IdleSlot EXCEPT !.pc = "replay", !.by = b, !.key = k, !.cart = c,
                                     !.method = m, !.retry = old]
  <2>0. old \in BOOLEAN
    OBVIOUS
  <2> HIDE DEF old
  <2>1. /\ row \in SlotRow /\ row.pc = "replay" /\ row.by = b /\ row.cart = c
        /\ row.key = k /\ row.intent = NoIntent
    BY <2>0, IdleFacts DEF SlotRow
  <2> USE DEF old
  <2>2. Begin(s, row) /\ TablesStay /\ UNCHANGED historyVars
    BY <1>1 DEF Click, TablesStay, historyVars
  <2>3. BrowserType'
    BY <1>1 DEF Click, BrowserType, CheckoutInv, WellFormed, TypeOK
  <2> HIDE DEF row
  <2>4. QED
    BY <2>1, <2>2, <2>3, BeginInv
<1>2. ASSUME NEW u \in User, NEW c \in Cart, NEW i \in Intent, AgentPlace(s, u, c, i)
      PROVE  CheckoutInv'
  <2> DEFINE row == [IdleSlot EXCEPT !.pc = "lock", !.by = u, !.cart = c, !.intent = i]
  <2>1. /\ row \in SlotRow /\ row.pc = "lock" /\ row.by = u /\ row.cart = c
        /\ row.key = NoKey /\ row.intent = i
    BY IdleFacts DEF SlotRow
  <2>2. Begin(s, row) /\ TablesStay /\ UNCHANGED historyVars /\ BrowserType'
    BY <1>2 DEF AgentPlace, TablesStay, historyVars, browserVars, BrowserType,
                CheckoutInv, WellFormed, TypeOK
  <2> HIDE DEF row
  <2>3. QED
    BY <2>1, <2>2, BeginInv
<1>3. QED
  BY <1>1, <1>2

LEMMA LockInv ==
  ASSUME CheckoutInv, NEW s \in Slot, LockIntent(s)
  PROVE  CheckoutInv'
<1> USE DEF CheckoutInv
<1> DEFINE i == slot[s].intent
<1>1. /\ slot[s].pc = "lock" /\ i \in Intent /\ slot[s].key = NoKey
      /\ slot[s].by \in Identity /\ slot[s].cart \in Cart
  BY DEF LockIntent, WellFormed, SlotKnows
<1>2. /\ intents[i].by = slot[s].by /\ intents[i].status = "ACTIVE"
      /\ Look[slot[s].cart].total <= intents[i].cap
      /\ intents' = [intents EXCEPT ![i] = [intents[i] EXCEPT !.status = "LOCKED"]]
      /\ UNCHANGED <<orders, keyRow, approval, stored, waiting, answers, unsaved>>
      /\ Goto(s, "dedupe")
  BY DEF LockIntent, browserVars, historyVars
<1>3. /\ Moves(s) /\ slot'[s].pc = "dedupe" /\ slot'[s].intent = i
      /\ slot'[s].by = slot[s].by /\ slot'[s].key = NoKey /\ slot'[s].cart = slot[s].cart
  BY <1>1, <1>2, GotoFacts DEF WellFormed
<1>4. /\ \A j \in Intent \ {i} : intents'[j] = intents[j]
      /\ intents'[i].status = "LOCKED" /\ intents'[i].by = intents[i].by
      /\ intents'[i].cap = intents[i].cap
      /\ intents' \in [Intent -> [status : {"none", "ACTIVE", "LOCKED", "USED", "REVOKED"},
                                  by : User \cup {NoOne}, cap : Nat]]
  BY <1>1, <1>2 DEF WellFormed, RowTypes
<1> HIDE DEF i
<1>5. WellFormed'
  <2>1. \A t \in Slot : SlotKnows(t)'
    BY <1>1, <1>2, <1>3 DEF WellFormed, SlotKnows, Moves
  <2>2. TypeOK'
    BY <1>2, <1>3, <1>4 DEF WellFormed, TypeOK, Moves
  <2>3. QED
    BY <1>2, <1>4, <2>1, <2>2 DEF WellFormed, RowTypes, KeysNameOrders
<1>6. OrdersKeep /\ KeysKeep
  BY <1>2 DEF OrdersKeep, KeysKeep
<1>7. AnswersHold'
  <2>1. \A t \in Slot : slot'[t].pc = "use" => slot'[t] = slot[t]
    BY <1>3 DEF Moves
  <2>2. QED
    BY <1>2, <1>6, <2>1, KeptAnswersHold
<1>8. LimitsHold'
  <2>1. /\ \A n \in DOMAIN orders : orders[n].intent # i
        /\ \A t \in Slot : Spends(t) => slot[t].intent # i
    BY <1>1, <1>2 DEF LimitsHold, IntentSpentOnce, SpendsOwn
  <2>2. \A t \in Slot \ {s} : (Spends(t)' <=> Spends(t)) /\ slot'[t] = slot[t]
    BY <1>3 DEF Moves, Spends
  <2>3. ASSUME NEW t \in Slot, Spends(t)'
        PROVE  SpendsOwn(t)'
    <3>1. CASE t = s
      BY <1>2, <1>3, <1>4, <2>1, <3>1 DEF SpendsOwn
    <3>2. CASE t # s
      <4>1. Spends(t) /\ SpendsOwn(t) /\ slot[t].intent \in Intent \ {i}
        BY <2>1, <2>2, <2>3, <3>2 DEF LimitsHold, WellFormed, TypeOK, SlotRow, Spends
      <4>2. QED
        BY <1>2, <1>4, <2>2, <3>2, <4>1 DEF SpendsOwn
    <3>3. QED
      BY <3>1, <3>2
  <2>4. SpendersApart'
    BY <1>3, <2>1, <2>2 DEF LimitsHold, SpendersApart
  <2>5. IntentSpentOnce'
    <3>1. \A n \in DOMAIN orders : orders[n].intent \in (Intent \ {i}) \cup {NoIntent}
      BY <2>1, OrderFacts DEF WellFormed, OrderRow
    <3>2. QED
      BY <1>2, <1>4, <3>1 DEF LimitsHold, IntentSpentOnce
  <2>6. QED
    BY <2>3, <2>4, <2>5 DEF LimitsHold
<1>9. QED
  BY <1>5, <1>7, <1>8

(* Every non-empty set of orders has a latest one.                             *)
LEMMA LatestExists ==
  ASSUME NEW ns \in SUBSET (1..MaxOrders), ns # {}
  PROVE  \E n \in ns : \A m \in ns : m <= n
<1> DEFINE back == {MaxOrders - n : n \in ns}
<1>1. back \subseteq Nat /\ back # {}
  <2>1. \A n \in 1..MaxOrders : MaxOrders - n \in Nat
    OBVIOUS
  <2>2. \A n \in ns : n \in 1..MaxOrders
    OBVIOUS
  <2>3. QED
    BY <2>1, <2>2
<1>2. PICK b \in back : \A c \in back : ~ (<<c, b>> \in OpToRel(<, Nat))
  BY <1>1, NatLessThanWellFounded, WFMin
<1>3. \A c \in back : b <= c
  <2>1. TAKE c \in back
  <2>2. b \in Nat /\ c \in Nat
    BY <1>1
  <2>3. <<c, b>> \notin OpToRel(<, Nat)
    BY <1>2
  <2>4. ~ (c < b)
    BY <2>2, <2>3, Zenon DEF OpToRel
  <2>5. QED
    BY <2>2, <2>4, SMT
<1>4. PICK n \in ns : b = MaxOrders - n
  BY <1>2
<1>5. ASSUME NEW m \in ns
      PROVE  m <= n
  <2>1. MaxOrders - m \in back
    OBVIOUS
  <2>2. MaxOrders - n <= MaxOrders - m
    BY <1>3, <1>4, <2>1
  <2>3. QED
    BY <2>2
<1>6. QED
  BY <1>5

LEMMA DedupeInv ==
  ASSUME CheckoutInv, NEW s \in Slot, Dedupe(s)
  PROVE  CheckoutInv'
<1>1. TablesStay /\ unsaved' = unsaved /\ slot[s].pc = "dedupe"
  BY DEF Dedupe, TablesStay
<1>2. CASE slot[s].by \in User /\ Twins(s) # {}
           /\ AnswerWith(s, CHOOSE n \in Twins(s) : \A m \in Twins(s) : m <= n)
  <2> DEFINE n == CHOOSE n \in Twins(s) : \A m \in Twins(s) : m <= n
  <2>1. Twins(s) \subseteq 1..MaxOrders
    BY OrderFacts DEF Twins, CheckoutInv, WellFormed
  <2>2. n \in Twins(s)
    BY <1>2, <2>1, LatestExists
  <2> HIDE DEF n
  <2>3. n \in DOMAIN orders /\ orders[n].by = slot[s].by /\ n \in 0..MaxOrders
    BY <2>1, <2>2 DEF Twins, LooksLike
  <2>4. AnswerWith(s, n)
    BY <1>2 DEF n
  <2>5. AnswerHolds(AnswerRow(s, n))
    BY <1>2, <2>3 DEF AnswerHolds, AnswerRow
  <2>6. AnswerRow(s, n).order = n
    BY DEF AnswerRow
  <2>7. QED
    BY <1>1, <2>3, <2>4, <2>5, <2>6, AnswerFacts, AnswerRowType, EndInv DEF CheckoutInv, WellFormed
<1>3. CASE Goto(s, "create") /\ UNCHANGED <<browserVars, answers>>
  BY <1>1, <1>3, GoOnInv DEF CheckoutInv, WellFormed, RowTypes
<1>4. QED
  BY <1>2, <1>3 DEF Dedupe

LEMMA CreateInv ==
  ASSUME CheckoutInv, NEW s \in Slot, Create(s)
  PROVE  CheckoutInv'
<1> USE DEF CheckoutInv
<1> DEFINE new == [by |-> slot[s].by, cart |-> slot[s].cart, method |-> slot[s].method,
                   intent |-> slot[s].intent, retry |-> slot[s].retry, recent |-> TRUE]
           last == Len(orders) + 1
           next == IF slot[s].key = NoKey THEN "use" ELSE "save"
<1>1. /\ slot[s].pc = "create" /\ Len(orders) < MaxOrders
      /\ orders' = Append(orders, new)
      /\ slot' = [slot EXCEPT ![s] = [slot[s] EXCEPT !.order = last, !.pc = next]]
      /\ UNCHANGED <<keyRow, intents, approval, stored, waiting, answers, unsaved>>
  BY DEF Create, browserVars, historyVars
<1>2. slot[s] \in SlotRow /\ slot[s].by \in Identity /\ slot[s].cart \in Cart
      /\ (slot[s].key # NoKey => slot[s].key \in Key /\ slot[s].intent = NoIntent)
  BY <1>1 DEF WellFormed, TypeOK, SlotKnows, SlotRow
<1>3. new \in OrderRow
  BY <1>2 DEF SlotRow, OrderRow
<1>4. new.by = slot[s].by /\ new.cart = slot[s].cart /\ new.intent = slot[s].intent
  OBVIOUS
<1> HIDE DEF new
<1>5. /\ orders' \in Seq(OrderRow) /\ Len(orders') = last /\ last \in 1..MaxOrders
      /\ DOMAIN orders' = DOMAIN orders \cup {last} /\ last \notin DOMAIN orders
      /\ \A n \in DOMAIN orders : orders'[n] = orders[n]
      /\ orders'[last] = new
  BY <1>1, <1>3, AppendProperties DEF WellFormed, TypeOK
<1> HIDE DEF last
<1>6. /\ slot'[s].order = last /\ slot'[s].pc = next /\ next \in {"use", "save"}
      /\ slot'[s].by = slot[s].by /\ slot'[s].key = slot[s].key
      /\ slot'[s].intent = slot[s].intent /\ slot'[s].cart = slot[s].cart
      /\ slot'[s] \in SlotRow
  <2>1. slot'[s] = [slot[s] EXCEPT !.order = last, !.pc = next] /\ next \in {"use", "save"}
    BY <1>1 DEF WellFormed, TypeOK
  <2> HIDE DEF next
  <2>2. last \in 0..MaxOrders
    BY <1>5
  <2>3. QED
    BY <1>2, <2>1, <2>2 DEF SlotRow
<1>7. Moves(s)
  BY <1>1, <1>6 DEF Moves, WellFormed, TypeOK
<1>8. WellFormed'
  <2>1. SlotKnows(s)'
    BY <1>2, <1>4, <1>5, <1>6 DEF SlotKnows
  <2>2. \A t \in Slot \ {s} : SlotKnows(t)'
    BY <1>5, <1>7 DEF WellFormed, SlotKnows, Moves
  <2>3. TypeOK'
    BY <1>1, <1>5, <1>7 DEF WellFormed, TypeOK, Moves
  <2>4. KeysNameOrders'
    BY <1>1, <1>5 DEF WellFormed, KeysNameOrders
  <2>5. QED
    BY <1>1, <2>1, <2>2, <2>3, <2>4 DEF WellFormed, RowTypes
<1>9. OrdersKeep /\ KeysKeep
  BY <1>1, <1>5 DEF OrdersKeep, KeysKeep
<1>10. AnswersHold'
  <2>1. slot'[s].pc = "use" => UseHolds(s)'
    BY <1>6 DEF UseHolds
  <2>2. \A t \in Slot : (slot'[t].pc = "use" /\ slot'[t] # slot[t]) => UseHolds(t)'
    BY <1>7, <2>1 DEF Moves
  <2>3. QED
    BY <1>1, <1>9, <2>2, KeptAnswersHold
<1>11. LimitsHold'
  <2>1. \A t \in Slot : Spends(t)' => t # s /\ Spends(t) /\ slot'[t] = slot[t]
    BY <1>6, <1>7 DEF Moves, Spends
  <2>2. slot[s].intent # NoIntent => Spends(s) /\ SpendsOwn(s)
    BY <1>1 DEF LimitsHold, Spends
  <2>3. \A t \in Slot : Spends(t)' => slot[t].intent # slot[s].intent
    BY <2>1, <2>2 DEF LimitsHold, SpendersApart, Spends
  <2>4. \A t \in Slot : Spends(t)' => SpendsOwn(t)'
    BY <1>1, <1>4, <1>5, <2>1, <2>3 DEF LimitsHold, SpendsOwn
  <2>5. SpendersApart'
    BY <2>1 DEF LimitsHold, SpendersApart
  <2>6. IntentSpentOnce'
    <3>1. ASSUME slot[s].intent # NoIntent
          PROVE  /\ intents[new.intent].by = new.by
                 /\ intents[new.intent].status \in {"LOCKED", "USED"}
                 /\ Look[new.cart].total <= intents[new.intent].cap
                 /\ \A m \in DOMAIN orders : orders[m].intent # new.intent
      BY <1>4, <2>2, <3>1 DEF SpendsOwn
    <3>2. ASSUME NEW n \in DOMAIN orders', orders'[n].intent # NoIntent
          PROVE  LET i == orders'[n].intent IN
                   /\ intents[i].by = orders'[n].by
                   /\ intents[i].status \in {"LOCKED", "USED"}
                   /\ Look[orders'[n].cart].total <= intents[i].cap
                   /\ \A m \in DOMAIN orders' \ {n} : orders'[m].intent # i
      <4>1. CASE n = last
        BY <1>4, <1>5, <3>1, <3>2, <4>1
      <4>2. CASE n # last
        <5>1. n \in DOMAIN orders /\ orders'[n] = orders[n]
          BY <1>5, <4>2
        <5>2. orders[n].intent # slot[s].intent
          BY <1>4, <3>1, <3>2, <5>1
        <5>3. QED
          BY <1>4, <1>5, <3>2, <5>1, <5>2 DEF LimitsHold, IntentSpentOnce
      <4>3. QED
        BY <4>1, <4>2
    <3>3. QED
      BY <1>1, <3>2 DEF IntentSpentOnce
  <2>7. QED
    BY <2>4, <2>5, <2>6 DEF LimitsHold
<1>12. QED
  BY <1>8, <1>10, <1>11

LEMMA SaveInv ==
  ASSUME CheckoutInv, NEW s \in Slot, SaveKey(s)
  PROVE  CheckoutInv'
<1> DEFINE k == slot[s].key
<1>1. /\ slot[s].pc = "save" /\ k \in Key /\ slot[s].order \in DOMAIN orders
      /\ orders[slot[s].order].by = slot[s].by /\ slot[s].by \in Identity
      /\ slot[s].intent = NoIntent /\ slot[s].order \in 1..MaxOrders
  BY OrderFacts DEF SaveKey, CheckoutInv, WellFormed, SlotKnows
<1>2. CASE /\ keyRow[k].order = 0
           /\ keyRow' = [keyRow EXCEPT ![k] = [order |-> slot[s].order, by |-> slot[s].by]]
           /\ Goto(s, "use")
           /\ UNCHANGED <<orders, intents, approval, browserVars, historyVars>>
  <2>1. /\ Moves(s) /\ slot'[s].pc = "use" /\ slot'[s].key = k
        /\ slot'[s].by = slot[s].by /\ slot'[s].intent = slot[s].intent
        /\ slot'[s].order = slot[s].order /\ slot'[s].cart = slot[s].cart
    BY <1>2, GotoFacts DEF CheckoutInv, WellFormed
  <2>2. /\ keyRow' \in [Key -> [order : 0..MaxOrders, by : Identity \cup {NoOne}]]
        /\ keyRow'[k].order = slot[s].order /\ keyRow'[k].by = slot[s].by
        /\ \A j \in Key \ {k} : keyRow'[j] = keyRow[j]
    BY <1>1, <1>2 DEF CheckoutInv, WellFormed, RowTypes
  <2> HIDE DEF k
  <2>3. WellFormed'
    <3>1. \A t \in Slot : SlotKnows(t)'
      BY <1>1, <1>2, <2>1 DEF CheckoutInv, WellFormed, SlotKnows, Moves, k
    <3>2. TypeOK'
      BY <1>1, <1>2, <2>1, <2>2
      DEF CheckoutInv, WellFormed, TypeOK, Moves, browserVars, historyVars
    <3>3. QED
      BY <1>1, <1>2, <2>2, <3>1, <3>2
      DEF CheckoutInv, WellFormed, RowTypes, KeysNameOrders, historyVars
  <2>4. OrdersKeep /\ KeysKeep /\ IntentsKeep
    BY <1>2, <2>2 DEF OrdersKeep, KeysKeep, IntentsKeep
  <2>5. AnswersHold'
    <3>1. \A t \in Slot : (slot'[t].pc = "use" /\ slot'[t] # slot[t]) => UseHolds(t)'
      BY <2>1, <2>2 DEF Moves, UseHolds
    <3>2. QED
      BY <1>2, <2>4, <3>1, KeptAnswersHold DEF CheckoutInv, historyVars
  <2>6. LimitsHold'
    <3>1. \A t \in Slot : Spends(t)' => Spends(t) /\ slot'[t] = slot[t]
      BY <2>1 DEF Moves, Spends
    <3>2. QED
      BY <1>2, <2>4, <3>1, KeptLimitsHold DEF CheckoutInv
  <2>7. QED
    BY <2>3, <2>5, <2>6 DEF CheckoutInv
<1>3. CASE /\ keyRow[k].order # 0 /\ ReplayKey(s, FALSE)
           /\ UNCHANGED <<orders, keyRow, intents, approval, unsaved>>
  BY <1>1, <1>3, ReplayInv DEF TablesStay
<1>4. CASE /\ Goto(s, "use") /\ unsaved' = unsaved \cup {k}
           /\ UNCHANGED <<orders, keyRow, intents, approval, browserVars, answers>>
  BY <1>1, <1>4, GoOnInv DEF TablesStay, CheckoutInv, WellFormed, RowTypes
<1>5. QED
  BY <1>2, <1>3, <1>4 DEF SaveKey

LEMMA UseInv ==
  ASSUME CheckoutInv, NEW s \in Slot, UseIntent(s)
  PROVE  CheckoutInv'
<1> DEFINE i == slot[s].intent
           n == slot[s].order
<1>1. /\ slot[s].pc = "use" /\ n \in DOMAIN orders /\ orders[n].by = slot[s].by
      /\ orders[n].intent = i /\ n \in 0..MaxOrders /\ i \in Intent \cup {NoIntent}
      /\ slot[s].key \in Key \cup {NoKey}
  BY OrderFacts DEF UseIntent, CheckoutInv, WellFormed, SlotKnows, TypeOK, SlotRow
<1>2. /\ intents' = IF i = NoIntent THEN intents
                    ELSE [intents EXCEPT ![i] = [intents[i] EXCEPT !.status = "USED"]]
      /\ AnswerWith(s, n) /\ UNCHANGED <<orders, keyRow, approval, unsaved>>
  BY DEF UseIntent
<1>3. /\ Moves(s) /\ slot'[s] = IdleSlot /\ BrowserType'
      /\ answers' = answers \cup {AnswerRow(s, n)}
  BY <1>2, AnswerFacts DEF CheckoutInv, WellFormed
<1>4. /\ AnswerRow(s, n) \in [key : Key \cup {NoKey}, by : Identity, cart : Cart,
                              order : 0..MaxOrders]
      /\ AnswerRow(s, n).order = n
  BY <1>1, AnswerRowType DEF CheckoutInv, AnswerRow
<1>5. AnswerHolds(AnswerRow(s, n))
  <2>1. slot[s].key \in Key \ unsaved => keyRow[slot[s].key].order = n
    BY <1>1 DEF CheckoutInv, AnswersHold, UseHolds
  <2>2. QED
    BY <1>1, <2>1 DEF AnswerHolds, AnswerRow
<1>6. /\ IntentsKeep
      /\ intents' \in [Intent -> [status : {"none", "ACTIVE", "LOCKED", "USED", "REVOKED"},
                                  by : User \cup {NoOne}, cap : Nat]]
  BY <1>1, <1>2 DEF IntentsKeep, CheckoutInv, WellFormed, RowTypes
<1> HIDE DEF i, n
<1>7. WellFormed'
  <2>1. \A t \in Slot : SlotKnows(t)'
    BY <1>2, <1>3, IdleFacts DEF CheckoutInv, WellFormed, SlotKnows, Moves
  <2>2. \A j \in Intent : intents'[j].status \in {"none", "ACTIVE", "LOCKED", "USED", "REVOKED"}
    BY <1>6
  <2>3. TypeOK'
    BY <1>1, <1>2, <1>3, <1>4, <2>2 DEF CheckoutInv, WellFormed, TypeOK, BrowserType, Moves
  <2>4. QED
    BY <1>2, <1>3, <1>4, <1>6, <2>1, <2>3 DEF CheckoutInv, WellFormed, RowTypes, KeysNameOrders
<1>8. OrdersKeep /\ KeysKeep
  BY <1>2 DEF OrdersKeep, KeysKeep
<1>9. AnswersHold'
  <2>1. \A a \in answers' \ answers : AnswerHolds(a)'
    BY <1>2, <1>3, <1>5 DEF AnswerHolds
  <2>2. \A t \in Slot : slot'[t].pc = "use" => slot'[t] = slot[t]
    BY <1>3, IdleFacts DEF Moves
  <2>3. QED
    BY <1>2, <1>8, <2>1, <2>2, KeptAnswersHold DEF CheckoutInv
<1>10. LimitsHold'
  BY <1>2, <1>3, <1>6, <1>8, KeptLimitsHold, IdleFacts DEF CheckoutInv, Spends, Moves
<1>11. QED
  BY <1>7, <1>9, <1>10 DEF CheckoutInv

(* Steps that touch only limits that are not spent.                            *)
LEMMA LimitStepInv ==
  ASSUME CheckoutInv,
         UNCHANGED <<orders, keyRow, slot, stored, waiting, answers, unsaved>>,
         approval' \in [Approval -> User \cup {NoOne}],
         intents' \in [Intent -> [status : {"none", "ACTIVE", "LOCKED", "USED", "REVOKED"},
                                  by : User \cup {NoOne}, cap : Nat]],
         \A i \in Intent : intents[i].status \in {"LOCKED", "USED"} => intents'[i] = intents[i]
  PROVE  CheckoutInv'
<1> USE DEF CheckoutInv
<1>1. OrdersKeep /\ KeysKeep /\ IntentsKeep
  BY DEF OrdersKeep, KeysKeep, IntentsKeep
<1>2. \A i \in Intent : intents'[i].status \in {"none", "ACTIVE", "LOCKED", "USED", "REVOKED"}
  OBVIOUS
<1>3. WellFormed'
  BY <1>2 DEF WellFormed, TypeOK, RowTypes, SlotKnows, KeysNameOrders
<1>4. AnswersHold'
  BY <1>1, KeptAnswersHold
<1>5. LimitsHold'
  BY <1>1, KeptLimitsHold DEF Spends
<1>6. QED
  BY <1>3, <1>4, <1>5

LEMMA LimitInv ==
  ASSUME CheckoutInv,
         \/ \E a \in Approval : \/ \E u \in User : ApproveRevoke(a, u)
                                \/ \E i \in Intent, cap \in Cap : ApproveCreate(a, i, cap)
         \/ \E i \in Intent : Revoke(i)
  PROVE  CheckoutInv'
<1> DEFINE Row == [status : {"none", "ACTIVE", "LOCKED", "USED", "REVOKED"},
                   by : User \cup {NoOne}, cap : Nat]
<1>0. /\ intents \in [Intent -> Row] /\ approval \in [Approval -> User \cup {NoOne}]
      /\ \A i \in Intent : intents[i] \in Row /\ [intents[i] EXCEPT !.status = "REVOKED"] \in Row
  <2>1. intents \in [Intent -> Row] /\ approval \in [Approval -> User \cup {NoOne}]
    BY DEF CheckoutInv, WellFormed, TypeOK, RowTypes
  <2>2. \A row \in Row : [row EXCEPT !.status = "REVOKED"] \in Row  OBVIOUS
  <2> HIDE DEF Row
  <2> QED BY <2>1, <2>2
<1>1. ASSUME NEW a \in Approval, NEW u \in User, ApproveRevoke(a, u)
      PROVE  CheckoutInv'
  <2>1. /\ UNCHANGED <<orders, keyRow, slot, stored, waiting, answers, unsaved>>
        /\ approval' = [approval EXCEPT ![a] = u]
        /\ intents' = [i \in Intent |->
             IF intents[i].by = u /\ intents[i].status = "ACTIVE"
             THEN [intents[i] EXCEPT !.status = "REVOKED"] ELSE intents[i]]
    BY <1>1 DEF ApproveRevoke, browserVars, historyVars
  <2>2. approval' \in [Approval -> User \cup {NoOne}]  BY <1>0, <2>1
  <2>3. intents' \in [Intent -> Row]  BY <1>0, <2>1
  <2>4. \A i \in Intent : intents[i].status \in {"LOCKED", "USED"} => intents'[i] = intents[i]
    BY <2>1
  <2> QED BY <2>1, <2>2, <2>3, <2>4, LimitStepInv
<1>2. ASSUME NEW a \in Approval, NEW i \in Intent, NEW cap \in Cap, ApproveCreate(a, i, cap)
      PROVE  CheckoutInv'
  <2>1. /\ UNCHANGED <<orders, keyRow, slot, stored, waiting, answers, unsaved>>
        /\ approval' = [approval EXCEPT ![a] = NoOne]
        /\ intents[i].status = "none"
        /\ intents' = [intents EXCEPT
             ![i] = [status |-> "ACTIVE", by |-> approval[a], cap |-> cap]]
    BY <1>2 DEF ApproveCreate, browserVars, historyVars
  <2>2. approval' \in [Approval -> User \cup {NoOne}]  BY <1>0, <2>1
  <2>3. [status |-> "ACTIVE", by |-> approval[a], cap |-> cap] \in Row
    BY <1>0, BoundAssumption
  <2>4. intents' \in [Intent -> Row]  BY <1>0, <2>1, <2>3
  <2>5. \A j \in Intent : intents[j].status \in {"LOCKED", "USED"} => intents'[j] = intents[j]
    BY <1>0, <2>1
  <2> QED BY <2>1, <2>2, <2>4, <2>5, LimitStepInv
<1>3. ASSUME NEW i \in Intent, Revoke(i)
      PROVE  CheckoutInv'
  <2>1. /\ UNCHANGED <<orders, keyRow, slot, stored, waiting, answers, unsaved, approval>>
        /\ intents[i].status = "ACTIVE"
        /\ intents' = [intents EXCEPT ![i] = [intents[i] EXCEPT !.status = "REVOKED"]]
    BY <1>3 DEF Revoke, browserVars, historyVars
  <2>2. approval' \in [Approval -> User \cup {NoOne}]  BY <1>0, <2>1
  <2>3. intents' \in [Intent -> Row]  BY <1>0, <2>1
  <2>4. \A j \in Intent : intents[j].status \in {"LOCKED", "USED"} => intents'[j] = intents[j]
    BY <1>0, <2>1
  <2> QED BY <2>1, <2>2, <2>3, <2>4, LimitStepInv
<1>4. QED
  BY <1>1, <1>2, <1>3

LEMMA FadeInv ==
  ASSUME CheckoutInv, NEW n \in DOMAIN orders, Fade(n)
  PROVE  CheckoutInv'
<1> USE DEF CheckoutInv
<1>1. orders' = [orders EXCEPT ![n] = [orders[n] EXCEPT !.recent = FALSE]]
      /\ UNCHANGED <<keyRow, intents, slot, approval, stored, waiting, answers, unsaved>>
  BY DEF Fade, browserVars, historyVars
<1>2. [orders[n] EXCEPT !.recent = FALSE] \in OrderRow
  BY OrderFacts DEF WellFormed, OrderRow
<1>3. orders' \in Seq(OrderRow) /\ Len(orders') = Len(orders) /\ DOMAIN orders' = DOMAIN orders
  BY <1>1, <1>2, ExceptSeq DEF WellFormed, TypeOK
<1>4. OrdersKeep /\ KeysKeep /\ IntentsKeep
  BY <1>1, <1>3, OrderFacts DEF OrdersKeep, KeysKeep, IntentsKeep, WellFormed, OrderRow
<1>5. WellFormed'
  <2>1. TypeOK' /\ RowTypes'
    BY <1>1, <1>3 DEF WellFormed, TypeOK, RowTypes
  <2>2. (\A s \in Slot : SlotKnows(s)') /\ KeysNameOrders'
    BY <1>1, <1>4 DEF WellFormed, SlotKnows, KeysNameOrders, OrdersKeep
  <2>3. QED
    BY <2>1, <2>2 DEF WellFormed
<1>6. AnswersHold'
  BY <1>1, <1>4, KeptAnswersHold
<1>7. LimitsHold'
  BY <1>1, <1>3, <1>4, KeptLimitsHold DEF Spends
<1>8. QED
  BY <1>5, <1>6, <1>7

LEMMA CrashInv ==
  ASSUME CheckoutInv, Crash
  PROVE  CheckoutInv'
<1> USE DEF CheckoutInv
<1>1. /\ slot' \in [Slot -> SlotRow] /\ \A t \in Slot : slot'[t] = IdleSlot
      /\ approval' \in [Approval -> User \cup {NoOne}]
      /\ UNCHANGED <<orders, keyRow, intents, stored, waiting, answers, unsaved>>
  BY IdleFacts DEF Crash, browserVars, historyVars
<1>2. WellFormed'
  BY <1>1, IdleFacts DEF WellFormed, TypeOK, RowTypes, SlotKnows, KeysNameOrders
<1>3. OrdersKeep /\ KeysKeep /\ IntentsKeep
  BY <1>1 DEF OrdersKeep, KeysKeep, IntentsKeep
<1>4. AnswersHold'
  BY <1>1, <1>3, KeptAnswersHold, IdleFacts
<1>5. LimitsHold'
  BY <1>1, <1>3, KeptLimitsHold, IdleFacts DEF Spends
<1>6. QED
  BY <1>2, <1>4, <1>5

(* The page gives up on an answer, or the handler refuses.                     *)
LEMMA RejectInv ==
  ASSUME CheckoutInv, NEW s \in Slot, Reject(s)
  PROVE  CheckoutInv'
BY RefuseFacts, EndInv DEF Reject, TablesStay, historyVars, CheckoutInv, WellFormed

LEMMA GiveUpInv ==
  ASSUME CheckoutInv, GiveUp
  PROVE  CheckoutInv'
<1>1. UNCHANGED <<orders, keyRow, intents, slot, approval, stored, answers, unsaved>>
      /\ waiting' = NoSlot
  BY DEF GiveUp, historyVars
<1>2. QED
  BY <1>1 DEF CheckoutInv, WellFormed, TypeOK, RowTypes, SlotKnows, KeysNameOrders, AnswersHold,
    AnswerHolds, UseHolds, LimitsHold, Spends, SpendsOwn, SpendersApart, IntentSpentOnce

LEMMA StepInv ==
  ASSUME CheckoutInv, [Next]_vars
  PROVE  CheckoutInv'
<1>1. ASSUME NEW s \in Slot, Handle(s) \/ Reject(s)
      PROVE  CheckoutInv'
  <2>1. CASE Replay(s)
    <3>1. slot[s].pc = "replay" /\ TablesStay /\ unsaved' = unsaved
      BY <2>1 DEF Replay, TablesStay
    <3>2. CASE keyRow[slot[s].key].order # 0
      BY <2>1, <3>1, <3>2, ReplayInv DEF Replay, ReplayKey
    <3>3. CASE keyRow[slot[s].key].order = 0
      BY <2>1, <3>1, <3>3, GoOnInv DEF Replay, ReplayKey, CheckoutInv, WellFormed, RowTypes
    <3>4. QED
      BY <3>2, <3>3
  <2>2. QED
    BY <1>1, <2>1, LockInv, DedupeInv, CreateInv, SaveInv, UseInv, RejectInv DEF Handle
<1>2. CASE UNCHANGED vars
  BY <1>2 DEF vars, CheckoutInv, WellFormed, TypeOK, RowTypes, SlotKnows, KeysNameOrders,
    AnswersHold, AnswerHolds, UseHolds, LimitsHold, Spends, SpendsOwn, SpendersApart, IntentSpentOnce
<1>3. QED
  BY <1>1, <1>2, CallerInv, GiveUpInv, LimitInv, FadeInv, CrashInv DEF Next

LEMMA CheckoutInvariant == Spec => []CheckoutInv
<1>1. CheckoutInv /\ [Next]_vars => CheckoutInv'
  BY StepInv
<1>2. QED
  BY InitInv, <1>1, PTL DEF Spec

--------------------------------------------------------------------------------
(* The rows are well formed and every reference is to an order that exists,    *)
(* for any number of requests at a time and any number of orders.              *)
THEOREM CheckoutTypes == Spec => []TypeOK
<1>1. CheckoutInv => TypeOK
  BY DEF CheckoutInv, WellFormed
<1>2. QED
  BY CheckoutInvariant, <1>1, PTL

(* A guest's key answers with one order only, whatever races for it.           *)
THEOREM KeyAnswersOneOrder == Spec => []AnswersAgree
<1>1. CheckoutInv => AnswersAgree
  <2> SUFFICES ASSUME CheckoutInv, NEW a \in answers, NEW b \in answers,
                      a.key = b.key, a.key \notin {NoKey} \cup unsaved,
                      a.by \in Guest, b.by \in Guest, a.order > 0, b.order > 0
               PROVE  a.order = b.order
    BY DEF AnswersAgree
  <2>1. a.key \in Key \ unsaved
    BY DEF CheckoutInv, WellFormed, RowTypes
  <2>2. QED
    BY <2>1 DEF CheckoutInv, AnswersHold, AnswerHolds
<1>2. QED
  BY CheckoutInvariant, <1>1, PTL

(* Nobody is answered with an order of somebody else.                          *)
THEOREM AnswersAreOwn == Spec => []OwnAnswers
<1>1. CheckoutInv => OwnAnswers
  BY DEF CheckoutInv, AnswersHold, AnswerHolds, OwnAnswers
<1>2. QED
  BY CheckoutInvariant, <1>1, PTL

(* An approved limit pays for one order, its owner's and within it.            *)
THEOREM LimitSpentOnce == Spec => []IntentSpentOnce
<1>1. CheckoutInv => IntentSpentOnce
  BY DEF CheckoutInv, LimitsHold
<1>2. QED
  BY CheckoutInvariant, <1>1, PTL
================================================================================
