------------------------------- MODULE Checkout -------------------------------
(***************************************************************************)
(* POST /orders as its callers meet it: the checkout page that stores an   *)
(* Idempotency-Key per cart, the concierge agent that pays within an       *)
(* approved PaymentIntent, and the handler OrdersService.create between    *)
(* its database calls.  Stock and the later life of an order are in        *)
(* OrderLifecycle.                                                         *)
(***************************************************************************)
EXTENDS Integers, Sequences, FiniteSets

CONSTANTS
  Guest, User,  \* who an order belongs to: a contact, or an account
  Cart,         \* what a customer orders, with every detail of its lines
  Look,         \* Look[c]: the part the handler compares: slugs, lines, total
  Key,          \* Idempotency-Keys the browser may draw
  Intent,       \* PaymentIntent rows that may be approved
  Cap,          \* limits a user may approve
  Method,       \* payment methods offered; production offers VNPay alone
  Slot,         \* concurrent POST /orders requests
  Approval,     \* concurrent POST /payments/intents requests
  NoOne, NoCart, NoKey, NoIntent, NoSlot,
  MaxOrders     \* bound: order rows

Identity == Guest \cup User
ASSUME IdentityAssumption ==
  /\ Guest \cap User = {} /\ NoOne \notin Identity /\ NoSlot \notin Slot
  /\ NoKey \notin Key /\ NoIntent \notin Intent
ASSUME CartAssumption ==
  /\ NoCart \notin Cart
  /\ \A c \in Cart : Look[c].lines \in Nat /\ Look[c].total \in Nat
ASSUME BoundAssumption == MaxOrders \in Nat /\ Cap \subseteq Nat
ASSUME MethodAssumption == "vnpay" \in Method

VARIABLES
  orders,    \* Order rows in the order of createdAt
  keyRow,    \* IdempotencyKey rows; order 0: no row
  intents,   \* PaymentIntent rows
  slot,      \* where each POST /orders stands
  approval,  \* owner of the POST /payments/intents between its two writes
  stored,    \* (browser) sessionStorage: the key kept for each cart
  waiting,   \* (browser) the request the checkout page waits for
  answers,   \* history: what was answered under a key, to whom
  unsaved    \* history: keys whose row could not be written

vars == <<orders, keyRow, intents, slot, approval, stored, waiting, answers,
          unsaved>>
historyVars == <<answers, unsaved>>
browserVars == <<stored, waiting>>

IdleSlot == [pc |-> "idle", by |-> NoOne, key |-> NoKey, intent |-> NoIntent,
             cart |-> NoCart, method |-> "vnpay", order |-> 0, retry |-> FALSE]
NoKeyRow == [order |-> 0, by |-> NoOne]

Init ==
  /\ orders = <<>>
  /\ keyRow = [k \in Key |-> NoKeyRow]
  /\ intents = [i \in Intent |-> [status |-> "none", by |-> NoOne, cap |-> 0]]
  /\ slot = [s \in Slot |-> IdleSlot]
  /\ approval = [a \in Approval |-> NoOne]
  /\ stored = [c \in Cart |-> NoKey]
  /\ waiting = NoSlot
  /\ answers = {}
  /\ unsaved = {}

Goto(s, pc) == slot' = [slot EXCEPT ![s].pc = pc]

--------------------------------------------------------------------------------
(* The callers                                                                 *)

Drawn == {answer.key : answer \in answers} \cup {slot[s].key : s \in Slot}
           \cup {stored[c] : c \in Cart} \cup {k \in Key : keyRow[k].order # 0}

(* getCheckoutKey: the key kept for this cart, or a fresh one.                 *)
KeyFor(c, k) == IF stored[c] # NoKey THEN k = stored[c] ELSE k \notin Drawn

Begin(s, row) == slot' = [slot EXCEPT ![s] = row]

(* placeOrder: one request at a time; the form's contact, or the session,      *)
(* decides who orders.                                                         *)
Click(s, b, c, m, k) ==
  /\ slot[s].pc = "idle" /\ waiting = NoSlot
  /\ KeyFor(c, k)
  /\ stored' = [stored EXCEPT ![c] = k]
  /\ waiting' = s
  /\ Begin(s, [IdleSlot EXCEPT !.pc = "replay", !.by = b, !.key = k, !.cart = c,
                 !.method = m,
                 !.retry = \E a \in answers : /\ a.key = k /\ a.by = b
                                             /\ a.order > 0 /\ k \notin unsaved])
  /\ UNCHANGED <<orders, keyRow, intents, approval, historyVars>>

(* The answer is lost: the page shows an error and keeps the key, while the    *)
(* backend may still be at work.                                               *)
GiveUp ==
  /\ waiting # NoSlot
  /\ waiting' = NoSlot
  /\ UNCHANGED <<orders, keyRow, intents, slot, approval, stored, historyVars>>

(* place_order_with_intent: no key, always VNPay.                              *)
AgentPlace(s, u, c, i) ==
  /\ slot[s].pc = "idle" /\ waiting # s
  /\ intents[i].status # "none"
  /\ Begin(s, [IdleSlot EXCEPT !.pc = "lock", !.by = u, !.cart = c, !.intent = i])
  /\ UNCHANGED <<orders, keyRow, intents, approval, browserVars, historyVars>>

(* The response reaches the page, if it still waits.  The key is dropped once  *)
(* the order needs nothing more: at once, or after the VNPay link was made.    *)
Deliver(s, kept) ==
  /\ waiting' = IF waiting = s THEN NoSlot ELSE waiting
  /\ stored' = IF waiting = s /\ ~ kept
                 THEN [stored EXCEPT ![slot[s].cart] = NoKey] ELSE stored

AnswerWith(s, n) ==
  /\ \E linkFailed \in BOOLEAN :
       /\ linkFailed => slot[s].method = "vnpay"
       /\ Deliver(s, linkFailed)
  /\ slot' = [slot EXCEPT ![s] = IdleSlot]
  /\ answers' = answers \cup
       {[key |-> slot[s].key, by |-> slot[s].by, cart |-> slot[s].cart, order |-> n]}

(* Any 4xx: the page keeps the key.                                            *)
Refuse(s) ==
  /\ Deliver(s, TRUE)
  /\ slot' = [slot EXCEPT ![s] = IdleSlot]
Conflict == 0

--------------------------------------------------------------------------------
(* OrdersService.create                                                        *)

(* replayIdempotent: the order under this key if the key is the caller's,      *)
(* 409 if it is another's.                                                     *)
ReplayAny(s, next) ==       \* defect: the owner of the key is not compared
  LET row == keyRow[slot[s].key] IN
  \/ row.order # 0 /\ AnswerWith(s, row.order)
  \/ row.order = 0 /\ next /\ UNCHANGED <<browserVars, answers>>
ReplayKey(s, next) ==
  LET row == keyRow[slot[s].key] IN
  \/ row.order # 0 /\ row.by = slot[s].by /\ AnswerWith(s, row.order)
  \/ row.order # 0 /\ row.by # slot[s].by /\ Refuse(s)
       /\ answers' = answers \cup
            {[key |-> slot[s].key, by |-> slot[s].by, cart |-> slot[s].cart,
              order |-> Conflict]}
  \/ row.order = 0 /\ next /\ UNCHANGED <<browserVars, answers>>

Replay(s) ==
  /\ slot[s].pc = "replay"
  /\ ReplayKey(s, Goto(s, "dedupe"))
  /\ UNCHANGED <<orders, keyRow, intents, approval, unsaved>>

(* A check fails: unknown method, empty cart, hidden or sold-out product.      *)
Reject(s) ==
  /\ slot[s].pc \in {"dedupe", "lock", "create"}
  /\ Refuse(s)
  /\ UNCHANGED <<orders, keyRow, intents, approval, historyVars>>

(* The intent must be this user's, ACTIVE and large enough; the conditional    *)
(* update closes it before anything else happens.  (Expiry is one more reason  *)
(* to Reject.)                                                                 *)
LockIntentAny(s) ==         \* defect: checked, then locked by id alone
  LET i == slot[s].intent IN
  /\ slot[s].pc = "lock"
  /\ intents[i].by = slot[s].by /\ Look[slot[s].cart].total <= intents[i].cap
  /\ intents' = [intents EXCEPT ![i].status = "LOCKED"]
  /\ Goto(s, "dedupe")
  /\ UNCHANGED <<orders, keyRow, approval, browserVars, historyVars>>
LockIntent(s) ==
  LET i == slot[s].intent IN
  /\ slot[s].pc = "lock"
  /\ intents[i].by = slot[s].by /\ intents[i].status = "ACTIVE"
  /\ Look[slot[s].cart].total <= intents[i].cap
  /\ intents' = [intents EXCEPT ![i].status = "LOCKED"]
  /\ Goto(s, "dedupe")
  /\ UNCHANGED <<orders, keyRow, approval, browserVars, historyVars>>

(* What findFirst and the line count compare.  Carts hold catalogue lines.     *)
LooksLike(n, s) ==
  LET old == Look[orders[n].cart]
      new == Look[slot[s].cart]
  IN  /\ orders[n].recent
      /\ orders[n].by = slot[s].by /\ orders[n].method = slot[s].method
      /\ old.total = new.total /\ old.slugs \subseteq new.slugs
      /\ old.lines = new.lines
Twins(s) == {n \in DOMAIN orders : LooksLike(n, s)}

Dedupe(s) ==
  /\ slot[s].pc = "dedupe"
  /\ \/ /\ slot[s].by \in User /\ Twins(s) # {}
        /\ AnswerWith(s, CHOOSE n \in Twins(s) : \A m \in Twins(s) : m <= n)
     \/ /\ slot[s].by \in Guest \/ Twins(s) = {}
        /\ Goto(s, "create")
        /\ UNCHANGED <<browserVars, answers>>
  /\ UNCHANGED <<orders, keyRow, intents, approval, unsaved>>

Create(s) ==
  /\ slot[s].pc = "create" /\ Len(orders) < MaxOrders
  /\ orders' = Append(orders,
       [by |-> slot[s].by, cart |-> slot[s].cart, method |-> slot[s].method,
        intent |-> slot[s].intent, retry |-> slot[s].retry,
        recent |-> TRUE])
  /\ slot' = [slot EXCEPT ![s].order = Len(orders) + 1,
                          ![s].pc = IF slot[s].key = NoKey THEN "use" ELSE "save"]
  /\ UNCHANGED <<keyRow, intents, approval, browserVars, historyVars>>

(* idempotencyKey.create; on P2002 the winner's order is the answer.           *)
SaveKeyKeepOwn(s) ==        \* defect: the loser of the race answers its own order
  /\ slot[s].pc = "save"
  /\ keyRow' = IF keyRow[slot[s].key].order = 0
                 THEN [keyRow EXCEPT ![slot[s].key] =
                         [order |-> slot[s].order, by |-> slot[s].by]]
                 ELSE keyRow
  /\ Goto(s, "use")
  /\ UNCHANGED <<orders, intents, approval, browserVars, historyVars>>
SaveKey(s) ==
  LET k == slot[s].key IN
  /\ slot[s].pc = "save"
  /\ \/ /\ keyRow[k].order = 0
        /\ keyRow' = [keyRow EXCEPT ![k] = [order |-> slot[s].order, by |-> slot[s].by]]
        /\ Goto(s, "use")
        /\ UNCHANGED <<browserVars, historyVars>>
     \/ /\ keyRow[k].order # 0
        /\ ReplayKey(s, FALSE)
        /\ UNCHANGED <<keyRow, unsaved>>
     \/ /\ Goto(s, "use")                \* any other error is swallowed
        /\ unsaved' = unsaved \cup {k}
        /\ UNCHANGED <<keyRow, browserVars, answers>>
  /\ UNCHANGED <<orders, intents, approval>>

(* LOCKED -> USED by id, then the answer.                                      *)
UseIntent(s) ==
  /\ slot[s].pc = "use"
  /\ intents' = IF slot[s].intent = NoIntent THEN intents
                ELSE [intents EXCEPT ![slot[s].intent].status = "USED"]
  /\ AnswerWith(s, slot[s].order)
  /\ UNCHANGED <<orders, keyRow, approval, unsaved>>

--------------------------------------------------------------------------------
(* Intents, the clock and the rest of an order's life                          *)

(* createIntent: revoke what is ACTIVE, then create.                           *)
ApproveRevoke(a, u) ==
  /\ approval[a] = NoOne
  /\ intents' = [i \in Intent |->
       IF intents[i].by = u /\ intents[i].status = "ACTIVE"
         THEN [intents[i] EXCEPT !.status = "REVOKED"] ELSE intents[i]]
  /\ approval' = [approval EXCEPT ![a] = u]
  /\ UNCHANGED <<orders, keyRow, slot, browserVars, historyVars>>

ApproveCreate(a, i, cap) ==
  /\ approval[a] # NoOne /\ intents[i].status = "none"
  /\ intents' = [intents EXCEPT
       ![i] = [status |-> "ACTIVE", by |-> approval[a], cap |-> cap]]
  /\ approval' = [approval EXCEPT ![a] = NoOne]
  /\ UNCHANGED <<orders, keyRow, slot, browserVars, historyVars>>

Revoke(i) ==
  /\ intents[i].status = "ACTIVE"
  /\ intents' = [intents EXCEPT ![i].status = "REVOKED"]
  /\ UNCHANGED <<orders, keyRow, slot, approval, browserVars, historyVars>>

(* Three minutes pass, or the order is paid or cancelled: it is no twin of a   *)
(* new request any more.                                                       *)
Fade(n) ==
  /\ orders[n].recent
  /\ orders' = [orders EXCEPT ![n].recent = FALSE]
  /\ UNCHANGED <<keyRow, intents, slot, approval, browserVars, historyVars>>

(* The backend restarts; the page waits until it gives up.                     *)
Crash ==
  /\ \E s \in Slot : slot[s].pc # "idle"
  /\ slot' = [s \in Slot |-> IdleSlot]
  /\ approval' = [a \in Approval |-> NoOne]
  /\ UNCHANGED <<orders, keyRow, intents, browserVars, historyVars>>

Handle(s) == Replay(s) \/ LockIntent(s) \/ Dedupe(s) \/ Create(s) \/ SaveKey(s)
               \/ UseIntent(s)

Next ==
  \/ \E s \in Slot :
       \/ \E b \in Identity, c \in Cart, m \in Method, k \in Key : Click(s, b, c, m, k)
       \/ \E u \in User, c \in Cart, i \in Intent : AgentPlace(s, u, c, i)
       \/ Handle(s) \/ Reject(s)
  \/ GiveUp
  \/ \E a \in Approval : \/ \E u \in User : ApproveRevoke(a, u)
                         \/ \E i \in Intent, cap \in Cap : ApproveCreate(a, i, cap)
  \/ \E i \in Intent : Revoke(i)
  \/ \E n \in DOMAIN orders : Fade(n)
  \/ Crash

Spec == Init /\ [][Next]_vars

--------------------------------------------------------------------------------
(* Properties                                                                  *)

SlotRow == [pc : {"idle", "replay", "lock", "dedupe", "create", "save", "use"},
            by : Identity \cup {NoOne}, key : Key \cup {NoKey},
            intent : Intent \cup {NoIntent}, cart : Cart \cup {NoCart},
            method : Method, order : 0..MaxOrders, retry : BOOLEAN]
OrderRow == [by : Identity, cart : Cart, method : Method, retry : BOOLEAN,
             intent : Intent \cup {NoIntent}, recent : BOOLEAN]

(* The rows are well formed, and every reference to an order is to one that    *)
(* was written: no answer and no key row names an order that does not exist.   *)
TypeOK ==
  /\ orders \in Seq(OrderRow) /\ Len(orders) <= MaxOrders
  /\ \A k \in Key : /\ keyRow[k].order \in {0} \cup DOMAIN orders
                    /\ keyRow[k].by \in Identity \cup {NoOne}
  /\ slot \in [Slot -> SlotRow]
  /\ \A a \in answers : a.order \in {Conflict} \cup DOMAIN orders
  /\ \A i \in Intent : intents[i].status \in
        {"none", "ACTIVE", "LOCKED", "USED", "REVOKED"}
  /\ approval \in [Approval -> User \cup {NoOne}]
  /\ stored \in [Cart -> Key \cup {NoKey}]
  /\ waiting \in Slot \cup {NoSlot}

(* A guest who sends one key many times, also while the first request is still *)
(* at work, is told of one order only (the loser of the race answers the       *)
(* winner's), as long as the key could be stored.                              *)
AnswersAgree ==
  \A a, b \in answers :
    /\ a.key = b.key /\ a.key \notin {NoKey} \cup unsaved
    /\ {a.by, b.by} \subseteq Guest /\ a.order > 0 /\ b.order > 0
    => a.order = b.order

(* Nobody is answered with an order of somebody else, though one browser keeps *)
(* its keys when the contact in the form or the session changes.               *)
OwnAnswers ==
  \A a \in answers : a.order > 0 => orders[a.order].by = a.by

(* An approved limit pays for at most one order, of its owner, within the      *)
(* limit, and never for one once it was revoked: parallel retries of the agent *)
(* and a revocation in between all meet the conditional update.                *)
IntentSpentOnce ==
  \A n \in DOMAIN orders :
    LET i == orders[n].intent IN
    i # NoIntent =>
      /\ intents[i].by = orders[n].by
      /\ intents[i].status \in {"LOCKED", "USED"}
      /\ Look[orders[n].cart].total <= intents[i].cap
      /\ \A m \in DOMAIN orders \ {n} : orders[m].intent # i

--------------------------------------------------------------------------------
(* What the repository says of itself and the code does not do                 *)

(* orders.service.ts:492: a retry that follows the answer creates no order.    *)
SequentialRetryBlocked == \A n \in DOMAIN orders : ~ orders[n].retry
================================================================================
