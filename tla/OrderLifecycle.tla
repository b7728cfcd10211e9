---------------------------- MODULE OrderLifecycle ----------------------------
(***************************************************************************)
(* Orders, their stock and their money, from the moment an order exists:   *)
(* the customer's cancel, the hourly expiry sweep, the admin's status      *)
(* changes, VNPay links, and the callbacks of the VNPay gateway.           *)
(*                                                                         *)
(* Every handler that reads a row and writes later is two actions, with    *)
(* what it read kept in its request slot.  A Prisma transaction is one     *)
(* action: its conditional updateMany takes the row lock, so the condition *)
(* is evaluated on the row as it is then.                                  *)
(***************************************************************************)
EXTENDS Integers, FiniteSets

CONSTANTS
  Order,        \* order rows that may come to exist
  Product,      \* products with a row in the catalogue
  InitStock,    \* InitStock[p]: units of p on the shelf at the start
  Basket,       \* the baskets customers order: a set of bags of products
  Txn,          \* VNPay links (one txnRef each) that may be created
  Handler,      \* concurrent HTTP requests on an order (customer, link, admin)
  Ipn, Return,  \* concurrent VNPay callbacks, by channel
  NoOrder, NoTxn,
  TotalUsd, DepositUsd,   \* the total of an order and the 20% of it
  MayRollback,  \* can a settle transaction roll back (timeout, deadlock)?
  MaxCrash      \* how often the backend process may restart between two steps

ASSUME StockAssumption == InitStock \in [Product -> Nat]
ASSUME BasketAssumption == Basket \subseteq [Product -> Nat]
ASSUME NoneAssumption == NoOrder \notin Order /\ NoTxn \notin Txn
ASSUME MoneyAssumption ==
  /\ TotalUsd \in Nat /\ DepositUsd \in Nat
  /\ 0 < DepositUsd /\ DepositUsd < TotalUsd
ASSUME SwitchAssumption == MayRollback \in BOOLEAN /\ MaxCrash \in Nat

VARIABLES
  stock,     \* Product.stock
  status,    \* Order.status, "none" before the order exists
  basket,    \* the order's lines that point to a product
  paid,      \* Order.paidUsd
  method,    \* how the order was placed; decides its first payment row
  manual,    \* amount of the 'manual' SUCCESS payment row, NoRow if none
  lastEvent, \* the `to` of the order's last OrderEvent
  txn,       \* the VNPay payment rows: order and PaymentStatus
  gate,      \* (gateway) what the customer did with the link
  acked,     \* (gateway) links whose IPN got a final answer: no more retries
  req,       \* request slots: what a handler read before it writes
  sweep,     \* the stale orders the expiry run still has to go through
  aged,      \* orders older than ORDER_PENDING_TTL_HOURS
  cb,        \* callback slots: where settlePayment / notifyPaid stand
  alarm,     \* links for which the "collected by mistake" alert was queued
  invoice,   \* orders with an Invoice row
  crashes    \* restarts so far (bounded by MaxCrash)

orderVars == <<stock, status, basket, paid, method, manual, lastEvent>>
gatewayVars == <<gate, acked>>
callbackVars == <<cb, alarm, invoice, crashes>>
vars == <<stock, status, basket, paid, method, manual, lastEvent, txn, gate,
          acked, req, sweep, aged, cb, alarm, invoice, crashes>>

--------------------------------------------------------------------------------
(* Data                                                                        *)

OrderStatus == {"PENDING", "CONFIRMED", "PAID", "SHIPPED", "COMPLETED",
                "CANCELLED", "REFUNDED"}
Status == OrderStatus \cup {"none"}
NoRow == -1
Bag == [Product -> Nat]
NoUnits == [p \in Product |-> 0]
Callback == Ipn \cup Return

(* "deferred": vnpay, or any method with a bespoke line, waits as PENDING;     *)
(* "full" and "deposit" are the simulated methods, confirmed on creation.      *)
Method == {"deferred", "full", "deposit"}

IdleReq == [kind |-> "idle", order |-> NoOrder, from |-> "none", to |-> "none",
            due |-> 0]
IdleCb == [pc |-> "idle", txn |-> NoTxn, order |-> NoOrder]
NoLink == [order |-> NoOrder, status |-> "none"]

ReqRow == [kind : {"idle", "link", "cancel", "admin"},
           order : Order \cup {NoOrder}, from : Status, to : Status,
           due : 0..TotalUsd]
CbRow == [pc : {"idle", "settle", "notify", "invoice"},
          txn : Txn \cup {NoTxn}, order : Order \cup {NoOrder}]
TxnRow == [order : Order \cup {NoOrder},
           status : {"none", "PENDING", "SUCCESS", "FAILED"}]

TypeOK ==
  /\ stock \in [Product -> Nat]
  /\ status \in [Order -> Status]
  /\ basket \in [Order -> Bag]
  /\ paid \in [Order -> {0, DepositUsd, TotalUsd}]
  /\ method \in [Order -> Method]
  /\ manual \in [Order -> {NoRow} \cup 0..TotalUsd]
  /\ lastEvent \in [Order -> Status]
  /\ txn \in [Txn -> TxnRow]
  /\ gate \in [Txn -> {"none", "open", "charged", "declined"}]
  /\ acked \subseteq Txn
  /\ req \in [Handler -> ReqRow]
  /\ sweep \subseteq Order
  /\ aged \subseteq Order
  /\ cb \in [Callback -> CbRow]
  /\ alarm \subseteq Txn
  /\ invoice \subseteq Order
  /\ crashes \in 0..MaxCrash

Init ==
  /\ stock = InitStock
  /\ status = [o \in Order |-> "none"]
  /\ basket = [o \in Order |-> NoUnits]
  /\ paid = [o \in Order |-> 0]
  /\ method = [o \in Order |-> "deferred"]
  /\ manual = [o \in Order |-> NoRow]
  /\ lastEvent = [o \in Order |-> "none"]
  /\ txn = [t \in Txn |-> NoLink]
  /\ gate = [t \in Txn |-> "none"]
  /\ acked = {}
  /\ req = [h \in Handler |-> IdleReq]
  /\ sweep = {}
  /\ aged = {}
  /\ cb = [c \in Callback |-> IdleCb]
  /\ alarm = {}
  /\ invoice = {}
  /\ crashes = 0

--------------------------------------------------------------------------------
(* Stock                                                                       *)

CanTakeAny(bag) == TRUE     \* defect: decrement without the stock condition
(* updateMany({slug, stock: {gte: qty}}) on every line, or the whole           *)
(* transaction rolls back.                                                     *)
CanTake(bag) == \A p \in Product : stock[p] >= bag[p]

Take(bag) ==
  /\ CanTake(bag)
  /\ stock' = [p \in Product |-> stock[p] - bag[p]]

GiveBack(o) == stock' = [p \in Product |-> stock[p] + basket[o][p]]

(* updateMany({id, status: from}): the row is written only if its status is    *)
(* still the one the handler read.                                             *)
StillInAny(o, from) == TRUE \* defect: update by id alone, last write wins
StillIn(o, from) == status[o] = from

--------------------------------------------------------------------------------
(* OrdersService.create: the transaction (Checkout models what precedes it)    *)

FirstPaid(m) == IF m = "full" THEN TotalUsd
                ELSE IF m = "deposit" THEN DepositUsd ELSE 0

Create(o, bag, m) ==
  /\ status[o] = "none"
  /\ Take(bag)
  /\ basket' = [basket EXCEPT ![o] = bag]
  /\ method' = [method EXCEPT ![o] = m]
  /\ paid' = [paid EXCEPT ![o] = FirstPaid(m)]
  /\ LET first == IF m = "deferred" THEN "PENDING" ELSE "CONFIRMED"
     IN  /\ status' = [status EXCEPT ![o] = first]
         /\ lastEvent' = [lastEvent EXCEPT ![o] = first]
  /\ UNCHANGED <<manual, txn, gatewayVars, req, sweep, aged, callbackVars>>

--------------------------------------------------------------------------------
(* Customer cancel, expiry sweep, admin status change                          *)

CancelOrderSilent(o) ==     \* defect: no OrderEvent
  /\ status' = [status EXCEPT ![o] = "CANCELLED"]
  /\ GiveBack(o)
  /\ UNCHANGED <<basket, paid, method, manual, lastEvent>>
(* The order leaves the shelf's books: CANCELLED, units back, one event.       *)
CancelOrder(o) ==
  /\ status' = [status EXCEPT ![o] = "CANCELLED"]
  /\ lastEvent' = [lastEvent EXCEPT ![o] = "CANCELLED"]
  /\ GiveBack(o)
  /\ UNCHANGED <<basket, paid, method, manual>>

CancelRead(h, o) ==
  /\ req[h].kind = "idle"
  /\ status[o] = "PENDING"
  /\ req' = [req EXCEPT ![h] = [kind |-> "cancel", order |-> o, from |-> "PENDING",
                                to |-> "CANCELLED", due |-> 0]]
  /\ UNCHANGED <<orderVars, txn, gatewayVars, sweep, aged, callbackVars>>

CancelCommit(h) ==
  /\ req[h].kind = "cancel"
  /\ IF StillIn(req[h].order, "PENDING")
       THEN CancelOrder(req[h].order)
       ELSE UNCHANGED orderVars
  /\ req' = [req EXCEPT ![h] = IdleReq]
  /\ UNCHANGED <<txn, gatewayVars, sweep, aged, callbackVars>>

(* An order passes ORDER_PENDING_TTL_HOURS.                                    *)
Age(o) ==
  /\ status[o] = "PENDING" /\ o \notin aged
  /\ aged' = aged \cup {o}
  /\ UNCHANGED <<orderVars, txn, gatewayVars, req, sweep, callbackVars>>

SweepReadYoung ==           \* defect: createdAt compared the wrong way round
  /\ sweep = {}
  /\ sweep' = {o \in Order \ aged : status[o] = "PENDING"}
  /\ sweep' # {}
  /\ UNCHANGED <<orderVars, txn, gatewayVars, req, aged, callbackVars>>
(* findMany of the stale orders.  `take: 100` is no bound at this size.        *)
SweepRead ==
  /\ sweep = {}
  /\ sweep' = {o \in aged : status[o] = "PENDING"}
  /\ sweep' # {}
  /\ UNCHANGED <<orderVars, txn, gatewayVars, req, aged, callbackVars>>

SweepOne(o) ==
  /\ o \in sweep
  /\ sweep' = sweep \ {o}
  /\ IF StillIn(o, "PENDING") THEN CancelOrder(o) ELSE UNCHANGED orderVars
  /\ UNCHANGED <<txn, gatewayVars, req, aged, callbackVars>>

(* The order's own transaction failed; the loop logs it and goes on.           *)
SweepSkip(o) ==
  /\ MayRollback
  /\ o \in sweep
  /\ sweep' = sweep \ {o}
  /\ UNCHANGED <<orderVars, txn, gatewayVars, req, aged, callbackVars>>

Allowed(from) ==
  CASE from = "PENDING"   -> {"CONFIRMED", "PAID", "CANCELLED"}
    [] from = "CONFIRMED" -> {"PAID", "SHIPPED", "CANCELLED"}
    [] from = "PAID"      -> {"SHIPPED", "REFUNDED"}
    [] from = "SHIPPED"   -> {"COMPLETED"}
    [] OTHER              -> {}

(* updateStatus up to its transaction.  The references a refund and a manual   *)
(* PAID require are taken as given: without them the request stops here.       *)
AdminRead(h, o, to) ==
  /\ req[h].kind = "idle"
  /\ to \in Allowed(status[o])
  /\ req' = [req EXCEPT ![h] = [kind |-> "admin", order |-> o,
                                from |-> status[o], to |-> to,
                                due |-> TotalUsd - paid[o]]]
  /\ UNCHANGED <<orderVars, txn, gatewayVars, sweep, aged, callbackVars>>

Restocks(from, to) ==
  \/ to = "CANCELLED" /\ from \in {"PENDING", "CONFIRMED"}
  \/ to = "REFUNDED"
IsManualPaid(from, to) == to = "PAID" /\ from \in {"PENDING", "CONFIRMED"}

AdminCommit(h) ==
  LET r == req[h]
      o == r.order
  IN
  /\ r.kind = "admin"
  /\ \/ /\ StillIn(o, r.from)
        /\ status' = [status EXCEPT ![o] = r.to]
        /\ lastEvent' = [lastEvent EXCEPT ![o] = r.to]
        /\ IF Restocks(r.from, r.to) THEN GiveBack(o) ELSE UNCHANGED stock
        /\ IF IsManualPaid(r.from, r.to)
             THEN /\ manual' = [manual EXCEPT ![o] = r.due]
                  /\ paid' = [paid EXCEPT ![o] = TotalUsd]
             ELSE UNCHANGED <<manual, paid>>
        /\ UNCHANGED <<basket, method>>
     \/ /\ ~ StillIn(o, r.from)
        /\ UNCHANGED orderVars
  /\ req' = [req EXCEPT ![h] = IdleReq]
  /\ UNCHANGED <<txn, gatewayVars, sweep, aged, callbackVars>>

--------------------------------------------------------------------------------
(* VNPay links: PaymentsService.createPayUrl                                   *)

MaxPending == 3

(* PENDING payment rows of an order.  The row created with a deferred order    *)
(* has no txnRef and stays PENDING for good.                                   *)
PendingRows(o) ==
  (IF method[o] = "deferred" THEN 1 ELSE 0)
    + Cardinality({t \in Txn : txn[t].order = o /\ txn[t].status = "PENDING"})

LinkRead(h, o) ==
  /\ req[h].kind = "idle"
  /\ status[o] = "PENDING"
  /\ PendingRows(o) < MaxPending
  /\ req' = [req EXCEPT ![h] = [kind |-> "link", order |-> o, from |-> "PENDING",
                                to |-> "PENDING", due |-> 0]]
  /\ UNCHANGED <<orderVars, txn, gatewayVars, sweep, aged, callbackVars>>

LinkCreate(h, t) ==
  /\ req[h].kind = "link"
  /\ txn[t].status = "none"
  /\ txn' = [txn EXCEPT ![t] = [order |-> req[h].order, status |-> "PENDING"]]
  /\ gate' = [gate EXCEPT ![t] = "open"]
  /\ req' = [req EXCEPT ![h] = IdleReq]
  /\ UNCHANGED <<orderVars, acked, sweep, aged, callbackVars>>

(* External: the customer pays the link, or the bank declines.                 *)
Gateway(t) ==
  /\ gate[t] = "open"
  /\ \E result \in {"charged", "declined"} : gate' = [gate EXCEPT ![t] = result]
  /\ UNCHANGED <<orderVars, txn, acked, req, sweep, aged, callbackVars>>

--------------------------------------------------------------------------------
(* VNPay callbacks: settlePayment, settleAtomically, notifyPaid                *)

(* The handler answers.  An IPN is answered 00 or 02 on every path below, and  *)
(* the gateway does not send it again; a browser return is never retried.      *)
Answer(c) ==
  /\ cb' = [cb EXCEPT ![c] = IdleCb]
  /\ acked' = IF c \in Ipn THEN acked \cup {cb[c].txn} ELSE acked

ReceiveAnswerFirst(c, t) == \* defect: the IPN is answered before it is settled
  /\ cb[c].pc = "idle"
  /\ gate[t] \in {"charged", "declined"}
  /\ c \in Ipn => t \notin acked
  /\ acked' = IF c \in Ipn THEN acked \cup {t} ELSE acked
  /\ IF txn[t].status = "PENDING"
       THEN cb' = [cb EXCEPT ![c] = [pc |-> "settle", txn |-> t,
                                     order |-> txn[t].order]]
       ELSE UNCHANGED cb
  /\ UNCHANGED <<orderVars, txn, gate, req, sweep, aged, alarm, invoice, crashes>>
(* A callback arrives (any number of times) and reads the payment row.         *)
Receive(c, t) ==
  /\ cb[c].pc = "idle"
  /\ gate[t] \in {"charged", "declined"}
  /\ c \in Ipn => t \notin acked
  /\ \/ /\ txn[t].status = "PENDING"
        /\ cb' = [cb EXCEPT ![c] = [pc |-> "settle", txn |-> t,
                                    order |-> txn[t].order]]
        /\ UNCHANGED acked
     \/ /\ txn[t].status # "PENDING"
        /\ c \in Ipn                     \* a return only redirects the browser
        /\ acked' = acked \cup {t}
        /\ UNCHANGED cb
  /\ UNCHANGED <<orderVars, txn, gate, req, sweep, aged, alarm, invoice, crashes>>

SettleableAny(t) == TRUE    \* defect: settle without the PENDING condition
Settleable(t) == txn[t].status = "PENDING"

(* settleAtomically: payment row and order row in one transaction.  The order  *)
(* moves only if it is PENDING; paidUsd and the event log are not touched.     *)
SettleUnguarded(c) ==       \* defect: the order is updated by id alone
  LET t == cb[c].txn  o == cb[c].order IN
  /\ cb[c].pc = "settle" /\ Settleable(t) /\ gate[t] = "charged"
  /\ txn' = [txn EXCEPT ![t].status = "SUCCESS"]
  /\ status' = [status EXCEPT ![o] = "PAID"]
  /\ cb' = [cb EXCEPT ![c].pc = "notify"]
  /\ UNCHANGED <<stock, basket, paid, method, manual, lastEvent, gatewayVars,
                 req, sweep, aged, alarm, invoice, crashes>>
SettleSuccess(c) ==
  LET t == cb[c].txn
      o == cb[c].order
  IN
  /\ cb[c].pc = "settle" /\ Settleable(t) /\ gate[t] = "charged"
  /\ txn' = [txn EXCEPT ![t].status = "SUCCESS"]
  /\ status' = IF status[o] = "PENDING" THEN [status EXCEPT ![o] = "PAID"]
                                        ELSE status
  /\ cb' = [cb EXCEPT ![c].pc = "notify"]
  /\ UNCHANGED <<stock, basket, paid, method, manual, lastEvent, gatewayVars,
                 req, sweep, aged, alarm, invoice, crashes>>

SettleFailedPays(c) ==      \* defect: the response code is not looked at
  LET t == cb[c].txn  o == cb[c].order IN
  /\ cb[c].pc = "settle" /\ Settleable(t) /\ gate[t] = "declined"
  /\ txn' = [txn EXCEPT ![t].status = "FAILED"]
  /\ status' = IF status[o] = "PENDING" THEN [status EXCEPT ![o] = "PAID"]
                                        ELSE status
  /\ Answer(c)
  /\ UNCHANGED <<stock, basket, paid, method, manual, lastEvent, gate,
                 req, sweep, aged, alarm, invoice, crashes>>
SettleFailedNotifies(c) ==  \* defect: "unpaid" is notified like "success"
  /\ cb[c].pc = "settle" /\ Settleable(cb[c].txn)
  /\ gate[cb[c].txn] = "declined"
  /\ txn' = [txn EXCEPT ![cb[c].txn].status = "FAILED"]
  /\ cb' = [cb EXCEPT ![c].pc = "notify"]
  /\ UNCHANGED <<orderVars, gatewayVars, req, sweep, aged, alarm, invoice, crashes>>
SettleFailed(c) ==
  /\ cb[c].pc = "settle" /\ Settleable(cb[c].txn)
  /\ gate[cb[c].txn] = "declined"
  /\ txn' = [txn EXCEPT ![cb[c].txn].status = "FAILED"]
  /\ Answer(c)
  /\ UNCHANGED <<orderVars, gate, req, sweep, aged, alarm, invoice, crashes>>

(* The other channel settled it first: count = 0, "already-set".               *)
SettleLost(c) ==
  /\ cb[c].pc = "settle" /\ ~ Settleable(cb[c].txn)
  /\ Answer(c)
  /\ UNCHANGED <<orderVars, txn, gate, req, sweep, aged, alarm, invoice, crashes>>

(* The transaction rolls back; the catch returns false, so this callback too   *)
(* is answered "already-set".                                                  *)
SettleRollback(c) ==
  /\ MayRollback
  /\ cb[c].pc = "settle"
  /\ Answer(c)
  /\ UNCHANGED <<orderVars, txn, gate, req, sweep, aged, alarm, invoice, crashes>>

(* notifyPaid reads the order again; money for an order that is not PAID       *)
(* raises the alert.                                                           *)
NotifyNever(c) ==           \* defect: the alert is not raised
  /\ cb[c].pc = "notify"
  /\ UNCHANGED alarm
  /\ cb' = [cb EXCEPT ![c].pc = "invoice"]
  /\ UNCHANGED <<orderVars, txn, gatewayVars, req, sweep, aged, invoice, crashes>>
NotifyPaid(c) ==
  /\ cb[c].pc = "notify"
  /\ alarm' = IF status[cb[c].order] # "PAID" THEN alarm \cup {cb[c].txn}
                                              ELSE alarm
  /\ cb' = [cb EXCEPT ![c].pc = "invoice"]
  /\ UNCHANGED <<orderVars, txn, gatewayVars, req, sweep, aged, invoice, crashes>>

(* ensureForOrder; a failure is logged and swallowed.                          *)
EnsureInvoice(c) ==
  /\ cb[c].pc = "invoice"
  /\ \/ invoice' = invoice \cup {cb[c].order}
     \/ MayRollback /\ UNCHANGED invoice
  /\ Answer(c)
  /\ UNCHANGED <<orderVars, txn, gate, req, sweep, aged, alarm, crashes>>

(* The backend restarts: requests, callbacks and the sweep are gone.           *)
Crash ==
  /\ crashes < MaxCrash
  /\ crashes' = crashes + 1
  /\ req' = [h \in Handler |-> IdleReq]
  /\ cb' = [c \in Callback |-> IdleCb]
  /\ sweep' = {}
  /\ UNCHANGED <<orderVars, txn, gatewayVars, aged, alarm, invoice>>

--------------------------------------------------------------------------------
Settle(c) == SettleSuccess(c) \/ SettleFailed(c) \/ SettleLost(c)
               \/ SettleRollback(c)

Next ==
  \/ \E o \in Order : \/ \E bag \in Basket, m \in Method : Create(o, bag, m)
                      \/ Age(o) \/ SweepOne(o) \/ SweepSkip(o)
  \/ SweepRead
  \/ \E h \in Handler :
       \/ \E o \in Order : \/ CancelRead(h, o)
                           \/ LinkRead(h, o)
                           \/ \E to \in OrderStatus : AdminRead(h, o, to)
       \/ CancelCommit(h)
       \/ AdminCommit(h)
       \/ \E t \in Txn : LinkCreate(h, t)
  \/ \E t \in Txn : Gateway(t)
  \/ \E c \in Callback :
       \/ \E t \in Txn : Receive(c, t)
       \/ Settle(c) \/ NotifyPaid(c) \/ EnsureInvoice(c)
  \/ Crash

Spec == Init /\ [][Next]_vars

(* The cron fires every hour and works through its list; orders grow old.      *)
SweepFairness ==
  /\ WF_vars(SweepRead)
  /\ \A o \in Order : WF_vars(Age(o)) /\ WF_vars(SweepOne(o))

(* A callback in progress runs to its end, and VNPay repeats an IPN until it   *)
(* is answered.                                                                *)
CallbackFairness ==
  /\ \A c \in Callback : /\ WF_vars(Settle(c))
                         /\ WF_vars(NotifyPaid(c))
                         /\ WF_vars(EnsureInvoice(c))
  /\ \A c \in Ipn : WF_vars(\E t \in Txn : Receive(c, t))

FairSpec == Spec /\ SweepFairness /\ CallbackFairness

--------------------------------------------------------------------------------
(* Properties                                                                  *)

(* The status edges the lifecycle has: CANCELLED, REFUNDED and COMPLETED are   *)
(* final, and collected money never ends in a plain cancel.                    *)
Edge == {<<"none", "PENDING">>, <<"none", "CONFIRMED">>,
         <<"PENDING", "CONFIRMED">>, <<"PENDING", "PAID">>,
         <<"PENDING", "CANCELLED">>, <<"CONFIRMED", "PAID">>,
         <<"CONFIRMED", "SHIPPED">>, <<"CONFIRMED", "CANCELLED">>,
         <<"PAID", "SHIPPED">>, <<"PAID", "REFUNDED">>,
         <<"SHIPPED", "COMPLETED">>}

(* However a customer's cancel, the sweep, two admins and VNPay's callbacks    *)
(* interleave, an order only moves along these edges: whoever read an older    *)
(* status loses.                                                               *)
LifecycleOnly ==
  [][\A o \in Order : status'[o] # status[o] => <<status[o], status'[o]>> \in Edge]_vars

(* The order code implements the stock ledger: an order's units come back at   *)
(* most once, whole, and only when it ends CANCELLED or REFUNDED.              *)
Closed == {o \in Order : status[o] \in {"CANCELLED", "REFUNDED"}}
Held == [o \in Order |-> IF o \in Closed THEN NoUnits ELSE basket[o]]
Ledger == INSTANCE StockLedger WITH shelf <- stock, held <- Held, closed <- Closed
ImplementsLedger == Ledger!Spec

(* An order that is PAID or was refunded has money behind it: a link VNPay     *)
(* confirmed, or the admin's manual row that brings it up to the total.        *)
FirstRow(o) == FirstPaid(method[o])
PaidIsBacked ==
  \A o \in Order : status[o] \in {"PAID", "REFUNDED"} =>
    \/ \E t \in Txn : txn[t].order = o /\ txn[t].status = "SUCCESS"
    \/ manual[o] # NoRow /\ FirstRow(o) + manual[o] = TotalUsd

(* The inductive invariant behind the theorems: a request slot names an order  *)
(* that exists, an admin's slot holds a legal edge and the rest to collect, a  *)
(* callback past its first read names a link of its order, past its settle a   *)
(* link that is SUCCESS, and no money but the first row is booked before PAID. *)
ReqSafe(row) ==
  /\ row.kind # "idle" => row.order \in Order /\ status[row.order] # "none"
  /\ row.kind = "admin" =>
       /\ row.to \in Allowed(row.from)
       /\ row.from \in {"PENDING", "CONFIRMED"} =>
            row.due = TotalUsd - FirstRow(row.order)
CbSafe(row) ==
  /\ row.pc # "idle" =>
       /\ row.txn \in Txn /\ row.order \in Order
       /\ txn[row.txn].order = row.order
       /\ txn[row.txn].status # "none"
  /\ row.pc \in {"notify", "invoice"} => txn[row.txn].status = "SUCCESS"
SlotsOK ==
  /\ \A h \in Handler : ReqSafe(req[h])
  /\ \A c \in Callback : CbSafe(cb[c])
RowsOK ==
  /\ \A t \in Txn : txn[t].status # "none" =>
       txn[t].order \in Order /\ status[txn[t].order] # "none"
  /\ \A o \in Order :
       /\ status[o] = "none" => basket[o] = NoUnits
       /\ status[o] \in {"none", "PENDING", "CONFIRMED"} =>
            manual[o] = NoRow /\ paid[o] = FirstRow(o)
IInv == TypeOK /\ SlotsOK /\ RowsOK /\ PaidIsBacked

(* A link is only ever recorded SUCCESS or FAILED as the gateway decided it,   *)
(* and exactly one of the callbacks racing for it goes on to notify.           *)
OneNotifierPerLink ==
  \A c, d \in Callback :
    c # d /\ {cb[c].pc, cb[d].pc} \subseteq {"notify", "invoice"}
      => cb[c].txn # cb[d].txn

(* Money that arrives for an order that ended CANCELLED (expired or cancelled  *)
(* while the customer was paying) is reported to the merchant, or the callback *)
(* that settled it is about to do so.                                          *)
ToNotify(t) == \E c \in Callback : cb[c].pc = "notify" /\ cb[c].txn = t
Reported(t) == t \in alarm \/ ToNotify(t)
DeadOrderMoneyReported ==
  \A t \in Txn :
    txn[t].status = "SUCCESS" /\ status[txn[t].order] = "CANCELLED"
      => Reported(t)

(* The event log keeps up with the status through every interleaving; the one  *)
(* write it does not see is VNPay's settle, and then a SUCCESS row says so.    *)
Collected(o) == \E t \in Txn : txn[t].order = o /\ txn[t].status = "SUCCESS"
LoggedUnlessSettled ==
  \A o \in Order : lastEvent[o] = status[o] \/ (status[o] = "PAID" /\ Collected(o))

(* An invoice is only ever drawn up over money VNPay confirmed, whichever      *)
(* channel brought the news and however late.                                  *)
InvoiceBacked == \A o \in invoice : Collected(o)

(* No order waits for payment for ever: customers, admins and VNPay may all    *)
(* stay silent, the sweep ends it.                                             *)
PendingEnds ==
  \A o \in Order : (status[o] = "PENDING") ~> (status[o] # "PENDING")

(* What the gateway collected is recorded, also across a restart: an           *)
(* unanswered IPN comes again.                                                 *)
ChargedIsSettled ==
  \A t \in Txn : (gate[t] = "charged") ~> (txn[t].status = "SUCCESS")

--------------------------------------------------------------------------------
(* What the repository says of itself and the code does not do                 *)

(* payments.service.ts:324: money collected for an order that is no longer     *)
(* PENDING at settle time is reported.  Here: a second payment of an order.    *)
SecondMoneyReported ==
  \A t \in Txn : txn[t].status = "SUCCESS" =>
    /\ manual[txn[t].order] # NoRow => Reported(t)
    /\ \A u \in Txn \ {t} : txn[u] = txn[t] => Reported(t) \/ Reported(u)

(* payments.service.ts:115: a settle that rolled back is retried by the IPN.   *)
RollbackIsRetried == ChargedIsSettled
================================================================================
