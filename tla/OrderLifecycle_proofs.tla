------------------------- MODULE OrderLifecycle_proofs -------------------------
(***************************************************************************)
(* Theorems about OrderLifecycle, for every set of orders, products,       *)
(* links, requests and callbacks, and every number of restarts.            *)
(***************************************************************************)
EXTENDS OrderLifecycle, TLAPS

USE StockAssumption, BasketAssumption, NoneAssumption, MoneyAssumption,
    SwitchAssumption DEF Status, OrderStatus, Method

LEMMA RowTypes ==
  /\ IdleReq \in ReqRow
  /\ IdleCb \in CbRow
  /\ NoLink \in TxnRow
  /\ NoUnits \in Bag
  /\ NoRow \in Int
BY DEF IdleReq, ReqRow, IdleCb, CbRow, NoLink, TxnRow, NoUnits, Bag, NoRow

LEMMA FirstPaidType == \A m : FirstPaid(m) \in {0, DepositUsd, TotalUsd}
BY DEF FirstPaid

(* Returning an order's units keeps stock a function to Nat.                   *)
LEMMA GiveBackType ==
  ASSUME TypeOK, NEW o \in Order, GiveBack(o)
  PROVE  stock' \in [Product -> Nat]
<1>1. basket[o] \in [Product -> Nat]
  BY DEF TypeOK, Bag
<1>2. QED
  BY <1>1 DEF GiveBack, TypeOK

LEMMA CancelOrderType ==
  ASSUME TypeOK, NEW o \in Order, CancelOrder(o)
  PROVE  /\ stock' \in [Product -> Nat]
         /\ status' \in [Order -> Status]
         /\ lastEvent' \in [Order -> Status]
         /\ UNCHANGED <<basket, paid, method, manual>>
BY GiveBackType DEF CancelOrder, TypeOK

--------------------------------------------------------------------------------
(* Each group of actions preserves the type invariant.                         *)

LEMMA CreateType ==
  ASSUME TypeOK, NEW o \in Order, NEW bag \in Basket, NEW m \in Method,
         Create(o, bag, m)
  PROVE  TypeOK'
<1>1. bag \in [Product -> Nat]
  OBVIOUS
<1>2. stock' \in [Product -> Nat]
  BY <1>1 DEF Create, Take, CanTake, TypeOK
<1>3. basket' \in [Order -> Bag] /\ paid' \in [Order -> {0, DepositUsd, TotalUsd}]
      /\ method' \in [Order -> Method]
  BY <1>1, FirstPaidType DEF Create, TypeOK, Bag
<1>4. status' \in [Order -> Status] /\ lastEvent' \in [Order -> Status]
  BY DEF Create, TypeOK
<1>5. QED
  BY <1>2, <1>3, <1>4 DEF Create, TypeOK, gatewayVars, callbackVars

LEMMA RequestType ==
  ASSUME TypeOK, NEW h \in Handler, NEW row \in ReqRow,
         req' = [req EXCEPT ![h] = row],
         UNCHANGED <<orderVars, txn, gatewayVars, sweep, aged, callbackVars>>
  PROVE  TypeOK'
BY DEF TypeOK, orderVars, gatewayVars, callbackVars

LEMMA ReadType ==
  ASSUME TypeOK, NEW o \in Order, NEW h \in Handler,
         \/ CancelRead(h, o)
         \/ LinkRead(h, o)
         \/ \E to \in OrderStatus : AdminRead(h, o, to)
  PROVE  TypeOK'
<1>1. CASE CancelRead(h, o)
  <2>1. [kind |-> "cancel", order |-> o, from |-> "PENDING", to |-> "CANCELLED",
         due |-> 0] \in ReqRow
    BY DEF ReqRow
  <2>2. QED
    BY <1>1, <2>1, RequestType DEF CancelRead
<1>2. CASE LinkRead(h, o)
  <2>1. [kind |-> "link", order |-> o, from |-> "PENDING", to |-> "PENDING",
         due |-> 0] \in ReqRow
    BY DEF ReqRow
  <2>2. QED
    BY <1>2, <2>1, RequestType DEF LinkRead
<1>3. ASSUME NEW to \in OrderStatus, AdminRead(h, o, to)
      PROVE  TypeOK'
  <2>1. TotalUsd - paid[o] \in 0..TotalUsd /\ status[o] \in Status
    BY DEF TypeOK
  <2>2. [kind |-> "admin", order |-> o, from |-> status[o], to |-> to,
         due |-> TotalUsd - paid[o]] \in ReqRow
    BY <2>1 DEF ReqRow
  <2>3. QED
    BY <1>3, <2>2, RequestType DEF AdminRead
<1>4. QED
  BY <1>1, <1>2, <1>3

LEMMA CancelCommitType ==
  ASSUME TypeOK, SlotsOK, NEW h \in Handler, CancelCommit(h)
  PROVE  TypeOK'
<1>1. req[h].order \in Order
  BY DEF CancelCommit, SlotsOK, ReqSafe
<1>2. req' \in [Handler -> ReqRow]
  BY RowTypes DEF CancelCommit, TypeOK
<1>3. CASE CancelOrder(req[h].order)
  BY <1>1, <1>2, <1>3, CancelOrderType
     DEF CancelCommit, TypeOK, gatewayVars, callbackVars
<1>4. CASE UNCHANGED orderVars
  BY <1>2, <1>4 DEF CancelCommit, TypeOK, orderVars, gatewayVars, callbackVars
<1>5. QED
  BY <1>3, <1>4 DEF CancelCommit

LEMMA SweepType ==
  ASSUME TypeOK, NEW o \in Order, SweepOne(o) \/ SweepSkip(o) \/ Age(o)
  PROVE  TypeOK'
<1>1. CASE SweepOne(o)
  <2>1. CASE CancelOrder(o)
    BY <1>1, <2>1, CancelOrderType
       DEF SweepOne, TypeOK, gatewayVars, callbackVars
  <2>2. CASE UNCHANGED orderVars
    BY <1>1, <2>2 DEF SweepOne, TypeOK, orderVars, gatewayVars, callbackVars
  <2>3. QED
    BY <1>1, <2>1, <2>2 DEF SweepOne
<1>2. CASE SweepSkip(o) \/ Age(o)
  BY <1>2 DEF SweepSkip, Age, TypeOK, orderVars, gatewayVars, callbackVars
<1>3. QED
  BY <1>1, <1>2

LEMMA SweepReadType ==
  ASSUME TypeOK, SweepRead
  PROVE  TypeOK'
BY DEF SweepRead, TypeOK, orderVars, gatewayVars, callbackVars

LEMMA AdminCommitType ==
  ASSUME TypeOK, SlotsOK, NEW h \in Handler, AdminCommit(h)
  PROVE  TypeOK'
<1>1. req[h].order \in Order /\ req[h].to \in Status /\ req[h].due \in 0..TotalUsd
  BY DEF AdminCommit, SlotsOK, ReqSafe, TypeOK, ReqRow
<1>2. req' \in [Handler -> ReqRow]
  BY RowTypes DEF AdminCommit, TypeOK
<1>3. CASE UNCHANGED orderVars
  BY <1>2, <1>3 DEF AdminCommit, TypeOK, orderVars, gatewayVars, callbackVars
<1>4. CASE StillIn(req[h].order, req[h].from)
  <2>1. stock' \in [Product -> Nat]
    BY <1>1, <1>4, GiveBackType DEF AdminCommit, TypeOK
  <2>2. /\ status' \in [Order -> Status] /\ lastEvent' \in [Order -> Status]
        /\ manual' \in [Order -> {NoRow} \cup 0..TotalUsd]
        /\ paid' \in [Order -> {0, DepositUsd, TotalUsd}]
        /\ UNCHANGED <<basket, method>>
    BY <1>1, <1>4 DEF AdminCommit, TypeOK
  <2>3. QED
    BY <1>2, <2>1, <2>2 DEF AdminCommit, TypeOK, gatewayVars, callbackVars
<1>5. QED
  BY <1>3, <1>4 DEF AdminCommit

LEMMA LinkCreateType ==
  ASSUME TypeOK, SlotsOK, NEW h \in Handler, NEW t \in Txn, LinkCreate(h, t)
  PROVE  TypeOK'
<1>1. req[h].order \in Order
  BY DEF LinkCreate, SlotsOK, ReqSafe
<1>2. [order |-> req[h].order, status |-> "PENDING"] \in TxnRow
  BY <1>1 DEF TxnRow
<1>3. txn' \in [Txn -> TxnRow] /\ req' \in [Handler -> ReqRow]
  BY <1>2, RowTypes DEF LinkCreate, TypeOK
<1>4. QED
  BY <1>3 DEF LinkCreate, TypeOK, orderVars, callbackVars

LEMMA GatewayType ==
  ASSUME TypeOK, NEW t \in Txn, Gateway(t)
  PROVE  TypeOK'
BY DEF Gateway, TypeOK, orderVars, callbackVars

LEMMA AnswerType ==
  ASSUME TypeOK, SlotsOK, NEW c \in Callback, cb[c].pc # "idle", Answer(c)
  PROVE  cb' \in [Callback -> CbRow] /\ acked' \subseteq Txn
BY RowTypes DEF Answer, TypeOK, SlotsOK, CbSafe

LEMMA ReceiveType ==
  ASSUME TypeOK, NEW c \in Callback, NEW t \in Txn, Receive(c, t)
  PROVE  TypeOK'
<1>1. [pc |-> "settle", txn |-> t, order |-> txn[t].order] \in CbRow
  BY DEF TypeOK, TxnRow, CbRow
<1>2. cb' \in [Callback -> CbRow] /\ acked' \subseteq Txn
  BY <1>1 DEF Receive, TypeOK
<1>3. QED
  BY <1>2 DEF Receive, TypeOK, orderVars

LEMMA SettleType ==
  ASSUME TypeOK, SlotsOK, NEW c \in Callback, Settle(c)
  PROVE  TypeOK'
<1>1. cb[c].pc = "settle"
  BY DEF Settle, SettleSuccess, SettleFailed, SettleLost, SettleRollback
<1>2. cb[c].txn \in Txn /\ cb[c].order \in Order /\ cb[c] \in CbRow
  BY <1>1 DEF SlotsOK, CbSafe, TypeOK
<1>3. CASE SettleSuccess(c)
  <2>1. [txn[cb[c].txn] EXCEPT !.status = "SUCCESS"] \in TxnRow
    BY <1>2 DEF TypeOK, TxnRow
  <2>2. [cb[c] EXCEPT !.pc = "notify"] \in CbRow
    BY <1>2 DEF CbRow
  <2>3. /\ txn' \in [Txn -> TxnRow] /\ cb' \in [Callback -> CbRow]
        /\ status' \in [Order -> Status]
    BY <1>3, <2>1, <2>2 DEF SettleSuccess, TypeOK
  <2>4. QED
    BY <1>3, <2>3 DEF SettleSuccess, TypeOK, gatewayVars
<1>4. CASE SettleFailed(c)
  <2>1. [txn[cb[c].txn] EXCEPT !.status = "FAILED"] \in TxnRow
    BY <1>2 DEF TypeOK, TxnRow
  <2>2. txn' \in [Txn -> TxnRow]
    BY <1>4, <2>1 DEF SettleFailed, TypeOK
  <2>3. QED
    BY <1>1, <1>4, <2>2, AnswerType DEF SettleFailed, TypeOK, orderVars
<1>5. CASE SettleLost(c) \/ SettleRollback(c)
  BY <1>1, <1>5, AnswerType DEF SettleLost, SettleRollback, TypeOK, orderVars
<1>6. QED
  BY <1>3, <1>4, <1>5 DEF Settle

LEMMA NotifyType ==
  ASSUME TypeOK, SlotsOK, NEW c \in Callback, NotifyPaid(c) \/ EnsureInvoice(c)
  PROVE  TypeOK'
<1>1. cb[c].pc # "idle"
  BY DEF NotifyPaid, EnsureInvoice
<1>2. cb[c].txn \in Txn /\ cb[c].order \in Order /\ cb[c] \in CbRow
  BY <1>1 DEF SlotsOK, CbSafe, TypeOK
<1>3. CASE NotifyPaid(c)
  <2>1. [cb[c] EXCEPT !.pc = "invoice"] \in CbRow
    BY <1>2 DEF CbRow
  <2>2. QED
    BY <1>2, <1>3, <2>1 DEF NotifyPaid, TypeOK, orderVars, gatewayVars
<1>4. CASE EnsureInvoice(c)
  BY <1>1, <1>2, <1>4, AnswerType DEF EnsureInvoice, TypeOK, orderVars
<1>5. QED
  BY <1>3, <1>4

LEMMA CrashType ==
  ASSUME TypeOK, Crash
  PROVE  TypeOK'
BY RowTypes DEF Crash, TypeOK, orderVars, gatewayVars

LEMMA InitType == Init => TypeOK
BY RowTypes DEF Init, TypeOK

LEMMA NextType ==
  ASSUME TypeOK, SlotsOK, [Next]_vars
  PROVE  TypeOK'
<1>1. CASE UNCHANGED vars
  BY <1>1 DEF vars, TypeOK
<1>2. CASE Next
  BY <1>2, CreateType, ReadType, CancelCommitType, SweepType, SweepReadType, AdminCommitType,
     LinkCreateType, GatewayType, ReceiveType, SettleType, NotifyType, CrashType
     DEF Next
<1>3. QED
  BY <1>1, <1>2

--------------------------------------------------------------------------------
(* The slots and the rows.                                                     *)

(* The orders' rows only grow: an order that exists goes on existing, with the *)
(* same method, and so does a link.                                            *)
Grows ==
  /\ \A o \in Order : status[o] # "none" =>
       status'[o] # "none" /\ method'[o] = method[o]
  /\ \A t \in Txn : txn[t].status # "none" =>
       /\ txn'[t].status # "none" /\ txn'[t].order = txn[t].order
       /\ txn[t].status = "SUCCESS" => txn'[t].status = "SUCCESS"

LEMMA CommitShape ==
  ASSUME TypeOK, SlotsOK, NEW h \in Handler, AdminCommit(h)
  PROVE  /\ req[h].order \in Order
         /\ req[h].to \in Allowed(req[h].from)
         /\ req[h].to \in OrderStatus
         /\ req[h].to # "none"
BY DEF AdminCommit, SlotsOK, ReqSafe, Allowed

LEMMA NextGrows ==
  ASSUME TypeOK, SlotsOK, [Next]_vars
  PROVE  Grows
<1> USE DEF Grows
<1>1. CASE UNCHANGED vars
  BY <1>1 DEF vars
<1>2. ASSUME NEW o \in Order, NEW bag \in Basket, NEW m \in Method, Create(o, bag, m)
      PROVE  Grows
  BY <1>2 DEF Create, TypeOK
<1>3. ASSUME NEW o \in Order, CancelOrder(o), UNCHANGED txn
      PROVE  Grows
  BY <1>3 DEF CancelOrder, TypeOK
<1>4. ASSUME UNCHANGED <<orderVars, txn>>
      PROVE  Grows
  BY <1>4 DEF orderVars
<1>5. ASSUME NEW o \in Order, Age(o) \/ SweepOne(o) \/ SweepSkip(o)
      PROVE  Grows
  BY <1>3, <1>4, <1>5 DEF Age, SweepOne, SweepSkip
<1>6. ASSUME NEW h \in Handler, NEW o \in Order,
             CancelRead(h, o) \/ LinkRead(h, o)
               \/ \E to \in OrderStatus : AdminRead(h, o, to)
      PROVE  Grows
  BY <1>4, <1>6 DEF CancelRead, LinkRead, AdminRead
<1>7. ASSUME NEW h \in Handler, CancelCommit(h)
      PROVE  Grows
  <2>1. req[h].order \in Order
    BY <1>7 DEF CancelCommit, SlotsOK, ReqSafe
  <2>2. QED
    BY <1>3, <1>4, <1>7, <2>1 DEF CancelCommit
<1>8. ASSUME NEW h \in Handler, AdminCommit(h)
      PROVE  Grows
  <2>1. CASE UNCHANGED orderVars
    BY <1>4, <1>8, <2>1 DEF AdminCommit
  <2>2. CASE status' = [status EXCEPT ![req[h].order] = req[h].to] /\ UNCHANGED method
    BY <1>8, <2>2, CommitShape DEF AdminCommit, TypeOK
  <2>3. QED
    BY <1>8, <2>1, <2>2 DEF AdminCommit
<1>9. ASSUME NEW h \in Handler, NEW t \in Txn, LinkCreate(h, t)
      PROVE  Grows
  BY <1>9 DEF LinkCreate, orderVars, TypeOK
<1>10. ASSUME NEW c \in Callback, Settle(c)
       PROVE  Grows
  <2>1. cb[c].txn \in Txn /\ cb[c].order \in Order
    BY <1>10 DEF Settle, SettleSuccess, SettleFailed, SettleLost, SettleRollback,
              SlotsOK, CbSafe
  <2>2. CASE SettleSuccess(c)
    BY <2>1, <2>2 DEF SettleSuccess, Settleable, TypeOK, TxnRow
  <2>3. CASE SettleFailed(c)
    BY <2>1, <2>3 DEF SettleFailed, Settleable, TypeOK, TxnRow, orderVars
  <2>4. QED
    BY <1>4, <1>10, <2>2, <2>3 DEF Settle, SettleLost, SettleRollback
<1>11. ASSUME NEW c \in Callback, NEW t \in Txn,
              Receive(c, t) \/ NotifyPaid(c) \/ EnsureInvoice(c)
       PROVE  Grows
  BY <1>4, <1>11 DEF Receive, NotifyPaid, EnsureInvoice
<1>12. ASSUME NEW c \in Callback, NotifyPaid(c) \/ EnsureInvoice(c)
       PROVE  Grows
  BY <1>4, <1>12 DEF NotifyPaid, EnsureInvoice
<1>13. ASSUME SweepRead \/ Crash \/ \E t \in Txn : Gateway(t)
       PROVE  Grows
  BY <1>4, <1>13 DEF SweepRead, Crash, Gateway
<1>14. QED
  BY <1>1, <1>2, <1>5, <1>6, <1>7, <1>8, <1>9, <1>10, <1>11, <1>12, <1>13 DEF Next

(* A slot that is safe stays safe while the tables grow.                       *)
LEMMA ReqKept ==
  ASSUME TypeOK, SlotsOK, Grows, UNCHANGED req
  PROVE  (\A h \in Handler : ReqSafe(req[h]))'
<1> SUFFICES ASSUME NEW h \in Handler PROVE ReqSafe(req[h])'
  OBVIOUS
<1>1. req[h] \in ReqRow /\ ReqSafe(req[h])
  BY DEF TypeOK, SlotsOK
<1>2. QED
  BY <1>1 DEF ReqSafe, Grows, FirstRow, FirstPaid

LEMMA CbKept ==
  ASSUME TypeOK, SlotsOK, Grows, UNCHANGED cb
  PROVE  (\A c \in Callback : CbSafe(cb[c]))'
<1> SUFFICES ASSUME NEW c \in Callback PROVE CbSafe(cb[c])'
  OBVIOUS
<1>1. cb[c] \in CbRow /\ CbSafe(cb[c])
  BY DEF TypeOK, SlotsOK
<1>2. QED
  BY <1>1 DEF CbSafe, Grows

(* Writing one slot with a safe row.                                           *)
LEMMA ReqWritten ==
  ASSUME TypeOK, SlotsOK, Grows, NEW h \in Handler, NEW row \in ReqRow,
         req' = [req EXCEPT ![h] = row], ReqSafe(row)
  PROVE  (\A g \in Handler : ReqSafe(req[g]))'
<1> SUFFICES ASSUME NEW g \in Handler PROVE ReqSafe(req[g])'
  OBVIOUS
<1>1. req'[g] = req[g] \/ req'[g] = row
  BY DEF TypeOK
<1>2. req[g] \in ReqRow /\ ReqSafe(req[g])
  BY DEF TypeOK, SlotsOK
<1>3. QED
  BY <1>1, <1>2 DEF ReqSafe, Grows, FirstRow, FirstPaid

LEMMA CbWritten ==
  ASSUME TypeOK, SlotsOK, Grows, NEW c \in Callback, NEW row \in CbRow,
         cb' = [cb EXCEPT ![c] = row],
         row.pc # "idle" => /\ row.txn \in Txn /\ row.order \in Order
                            /\ txn'[row.txn].order = row.order
                            /\ txn'[row.txn].status # "none",
         row.pc \in {"notify", "invoice"} => txn'[row.txn].status = "SUCCESS"
  PROVE  (\A d \in Callback : CbSafe(cb[d]))'
<1> SUFFICES ASSUME NEW d \in Callback PROVE CbSafe(cb[d])'
  OBVIOUS
<1>1. cb'[d] = cb[d] \/ cb'[d] = row
  BY DEF TypeOK
<1>2. cb[d] \in CbRow /\ CbSafe(cb[d])
  BY DEF TypeOK, SlotsOK
<1>3. QED
  BY <1>1, <1>2 DEF CbSafe, Grows

LEMMA IdleSafe == ReqSafe(IdleReq) /\ CbSafe(IdleCb)
BY DEF ReqSafe, CbSafe, IdleReq, IdleCb

LEMMA NextSlots ==
  ASSUME TypeOK, SlotsOK, RowsOK, Grows, [Next]_vars
  PROVE  SlotsOK'
<1>0. ASSUME UNCHANGED <<req, cb>> PROVE SlotsOK'
  BY <1>0, ReqKept, CbKept DEF SlotsOK
<1>1. ASSUME NEW h \in Handler, NEW row \in ReqRow, ReqSafe(row),
             req' = [req EXCEPT ![h] = row], UNCHANGED cb
      PROVE  SlotsOK'
  BY <1>1, ReqWritten, CbKept DEF SlotsOK
<1>2. ASSUME NEW h \in Handler, req' = [req EXCEPT ![h] = IdleReq], UNCHANGED cb
      PROVE  SlotsOK'
  BY <1>1, <1>2, IdleSafe, RowTypes
<1>3. ASSUME NEW c \in Callback, Answer(c), UNCHANGED req
      PROVE  SlotsOK'
  <2>1. IdleCb.pc = "idle"
    BY DEF IdleCb
  <2>2. (\A d \in Callback : CbSafe(cb[d]))'
    BY <1>3, <2>1, CbWritten, RowTypes DEF Answer
  <2>3. QED
    BY <1>3, <2>2, ReqKept DEF SlotsOK
<1>4. ASSUME NEW h \in Handler, NEW o \in Order,
             CancelRead(h, o) \/ LinkRead(h, o)
      PROVE  SlotsOK'
  <2>1. /\ [kind |-> "cancel", order |-> o, from |-> "PENDING", to |-> "CANCELLED",
            due |-> 0] \in ReqRow
        /\ [kind |-> "link", order |-> o, from |-> "PENDING", to |-> "PENDING",
            due |-> 0] \in ReqRow
    BY DEF ReqRow
  <2>2. status[o] = "PENDING"
    BY <1>4 DEF CancelRead, LinkRead
  <2>3. /\ ReqSafe([kind |-> "cancel", order |-> o, from |-> "PENDING",
                    to |-> "CANCELLED", due |-> 0])
        /\ ReqSafe([kind |-> "link", order |-> o, from |-> "PENDING",
                    to |-> "PENDING", due |-> 0])
    BY <2>2 DEF ReqSafe
  <2>4. QED
    BY <1>1, <1>4, <2>1, <2>3 DEF CancelRead, LinkRead, callbackVars
<1>5. ASSUME NEW h \in Handler, NEW o \in Order, NEW to \in OrderStatus,
             AdminRead(h, o, to)
      PROVE  SlotsOK'
  <2> DEFINE row == [kind |-> "admin", order |-> o, from |-> status[o],
                     to |-> to, due |-> TotalUsd - paid[o]]
  <2>1. row \in ReqRow
    BY DEF ReqRow, TypeOK
  <2>2. status[o] # "none"
    BY <1>5 DEF AdminRead, Allowed
  <2>3. ReqSafe(row)
    BY <1>5, <2>2 DEF ReqSafe, AdminRead, RowsOK
  <2>4. QED
    BY <1>1, <1>5, <2>1, <2>3 DEF AdminRead, callbackVars
<1>6. ASSUME NEW h \in Handler, CancelCommit(h) \/ AdminCommit(h)
      PROVE  SlotsOK'
  BY <1>2, <1>6 DEF CancelCommit, AdminCommit, callbackVars
<1>7. ASSUME NEW h \in Handler, NEW t \in Txn, LinkCreate(h, t)
      PROVE  SlotsOK'
  BY <1>2, <1>7 DEF LinkCreate, callbackVars
<1>8. ASSUME NEW c \in Callback, NEW t \in Txn, Receive(c, t)
      PROVE  SlotsOK'
  <2> DEFINE row == [pc |-> "settle", txn |-> t, order |-> txn[t].order]
  <2>1. CASE txn[t].status = "PENDING" /\ cb' = [cb EXCEPT ![c] = row]
    <3>1. row \in CbRow
      BY DEF CbRow, TypeOK, TxnRow
    <3>2. txn[t].order \in Order
      BY <2>1 DEF RowsOK
    <3>3. (\A d \in Callback : CbSafe(cb[d]))'
      BY <1>8, <2>1, <3>1, <3>2, CbWritten DEF Receive
    <3>4. QED
      BY <1>8, <3>3, ReqKept DEF Receive, SlotsOK
  <2>2. CASE UNCHANGED cb
    BY <1>0, <1>8, <2>2 DEF Receive
  <2>3. QED
    BY <1>8, <2>1, <2>2 DEF Receive
<1>9. ASSUME NEW c \in Callback, SettleSuccess(c)
      PROVE  SlotsOK'
  <2> DEFINE row == [cb[c] EXCEPT !.pc = "notify"]
  <2>1. /\ cb[c] \in CbRow /\ cb[c].txn \in Txn /\ cb[c].order \in Order
        /\ txn[cb[c].txn].order = cb[c].order
    BY <1>9 DEF SettleSuccess, SlotsOK, CbSafe, TypeOK
  <2>2. /\ row \in CbRow /\ row.pc = "notify"
        /\ row.txn = cb[c].txn /\ row.order = cb[c].order
    BY <2>1 DEF CbRow
  <2>3. /\ txn'[cb[c].txn].order = cb[c].order
        /\ txn'[cb[c].txn].status = "SUCCESS"
    BY <1>9, <2>1 DEF SettleSuccess, TypeOK, TxnRow
  <2>4. cb' = [cb EXCEPT ![c] = row] /\ UNCHANGED req
    BY <1>9 DEF SettleSuccess
  <2> HIDE DEF row
  <2>5. (\A d \in Callback : CbSafe(cb[d]))'
    BY <2>1, <2>2, <2>3, <2>4, CbWritten
  <2>6. QED
    BY <2>4, <2>5, ReqKept DEF SlotsOK
<1>10. ASSUME NEW c \in Callback, SettleFailed(c) \/ SettleLost(c) \/ SettleRollback(c)
       PROVE  SlotsOK'
  BY <1>3, <1>10 DEF SettleFailed, SettleLost, SettleRollback
<1>11. ASSUME NEW c \in Callback, NotifyPaid(c)
       PROVE  SlotsOK'
  <2> DEFINE row == [cb[c] EXCEPT !.pc = "invoice"]
  <2>1. /\ cb[c] \in CbRow /\ cb[c].txn \in Txn /\ cb[c].order \in Order
        /\ txn[cb[c].txn].order = cb[c].order /\ txn[cb[c].txn].status = "SUCCESS"
    BY <1>11 DEF NotifyPaid, SlotsOK, CbSafe, TypeOK
  <2>2. /\ row \in CbRow /\ row.pc = "invoice"
        /\ row.txn = cb[c].txn /\ row.order = cb[c].order
    BY <2>1 DEF CbRow
  <2>3. cb' = [cb EXCEPT ![c] = row] /\ UNCHANGED <<req, txn>>
    BY <1>11 DEF NotifyPaid
  <2> HIDE DEF row
  <2>4. (\A d \in Callback : CbSafe(cb[d]))'
    BY <2>1, <2>2, <2>3, CbWritten
  <2>5. QED
    BY <2>3, <2>4, ReqKept DEF SlotsOK
<1>12. ASSUME NEW c \in Callback, EnsureInvoice(c)
       PROVE  SlotsOK'
  BY <1>3, <1>12 DEF EnsureInvoice
<1>13. ASSUME Crash PROVE SlotsOK'
  BY <1>13, IdleSafe DEF Crash, SlotsOK, ReqSafe, CbSafe, IdleReq, IdleCb
<1>14. CASE Next
  BY <1>0, <1>4, <1>5, <1>6, <1>7, <1>8, <1>9, <1>10, <1>11, <1>12, <1>13, <1>14
     DEF Next, Settle, Create, Age, SweepOne, SweepSkip, SweepRead, Gateway, callbackVars
<1>15. QED
  BY <1>0, <1>14 DEF vars

(* What an order keeps when a step leaves its row alone.                       *)
SameOrder(o) ==
  /\ status'[o] = status[o] /\ basket'[o] = basket[o] /\ paid'[o] = paid[o]
  /\ method'[o] = method[o] /\ manual'[o] = manual[o]
OrderFine(o) ==
  /\ status[o] = "none" => basket[o] = NoUnits
  /\ status[o] \in {"none", "PENDING", "CONFIRMED"} =>
       manual[o] = NoRow /\ paid[o] = FirstRow(o)
  /\ status[o] \in {"PAID", "REFUNDED"} =>
       \/ \E t \in Txn : txn[t].order = o /\ txn[t].status = "SUCCESS"
       \/ manual[o] # NoRow /\ FirstRow(o) + manual[o] = TotalUsd

LEMMA SameOrderFine ==
  ASSUME TypeOK, Grows, NEW o \in Order, OrderFine(o), SameOrder(o)
  PROVE  OrderFine(o)'
<1>1. ASSUME NEW t \in Txn, txn[t].order = o, txn[t].status = "SUCCESS"
      PROVE  txn'[t].order = o /\ txn'[t].status = "SUCCESS"
  BY <1>1 DEF Grows
<1>2. QED
  BY <1>1 DEF OrderFine, SameOrder, FirstRow

LEMMA CancelOrderFine ==
  ASSUME TypeOK, Grows, NEW q \in Order, CancelOrder(q), NEW o \in Order, OrderFine(o)
  PROVE  OrderFine(o)'
<1>1. CASE o = q
  BY <1>1 DEF CancelOrder, OrderFine, TypeOK
<1>2. CASE o # q
  BY <1>2, SameOrderFine DEF CancelOrder, SameOrder, TypeOK
<1>3. QED
  BY <1>1, <1>2

LEMMA NextOrders ==
  ASSUME TypeOK, SlotsOK, Grows, [Next]_vars, NEW o \in Order, OrderFine(o)
  PROVE  OrderFine(o)'
<1>0. ASSUME UNCHANGED orderVars PROVE OrderFine(o)'
  BY <1>0, SameOrderFine DEF orderVars, SameOrder
<1>1. ASSUME NEW q \in Order, NEW bag \in Basket, NEW m \in Method, Create(q, bag, m)
      PROVE  OrderFine(o)'
  <2>1. CASE o = q
    BY <1>1, <2>1 DEF Create, OrderFine, FirstRow, TypeOK
  <2>2. CASE o # q
    BY <1>1, <2>2, SameOrderFine DEF Create, SameOrder, TypeOK
  <2>3. QED
    BY <2>1, <2>2
<1>2. ASSUME NEW q \in Order, SweepOne(q)
      PROVE  OrderFine(o)'
  BY <1>0, <1>2, CancelOrderFine DEF SweepOne
<1>3. ASSUME NEW h \in Handler, CancelCommit(h)
      PROVE  OrderFine(o)'
  <2>1. req[h].order \in Order
    BY <1>3 DEF CancelCommit, SlotsOK, ReqSafe
  <2>2. QED
    BY <1>0, <1>3, <2>1, CancelOrderFine DEF CancelCommit
<1>4. ASSUME NEW h \in Handler, AdminCommit(h)
      PROVE  OrderFine(o)'
  <2>1. CASE UNCHANGED orderVars
    BY <1>0, <2>1
  <2>2. CASE ~ UNCHANGED orderVars
    <3> DEFINE r == req[h]
    <3>1. /\ r.order \in Order /\ r.to \in Allowed(r.from) /\ status[r.order] = r.from
          /\ r.from \in {"PENDING", "CONFIRMED"} => r.due = TotalUsd - FirstRow(r.order)
          /\ r.due \in 0..TotalUsd
      BY <1>4, <2>2 DEF AdminCommit, SlotsOK, ReqSafe, StillIn, TypeOK, ReqRow
    <3>2. /\ status' = [status EXCEPT ![r.order] = r.to]
          /\ IF IsManualPaid(r.from, r.to)
               THEN /\ manual' = [manual EXCEPT ![r.order] = r.due]
                    /\ paid' = [paid EXCEPT ![r.order] = TotalUsd]
               ELSE UNCHANGED <<manual, paid>>
          /\ UNCHANGED <<basket, method, txn>>
      BY <1>4, <2>2 DEF AdminCommit
    <3>3. CASE o # r.order
      BY <3>1, <3>2, <3>3, SameOrderFine DEF SameOrder, TypeOK
    <3>4. CASE o = r.order
      <4>1. FirstRow(o) \in {0, DepositUsd, TotalUsd}
        BY FirstPaidType DEF FirstRow
      <4>2. status'[o] = r.to /\ status[o] = r.from
        BY <3>1, <3>2, <3>4 DEF TypeOK
      <4>3. CASE IsManualPaid(r.from, r.to)
        <5>1. manual'[o] = TotalUsd - FirstRow(o) /\ method'[o] = method[o]
          BY <3>1, <3>2, <3>4, <4>3 DEF IsManualPaid, TypeOK
        <5>2. r.to = "PAID"
          BY <4>3 DEF IsManualPaid
        <5>3. manual'[o] # NoRow /\ FirstRow(o) + manual'[o] = TotalUsd
          BY <4>1, <5>1 DEF NoRow
        <5>4. QED
          BY <4>2, <5>1, <5>2, <5>3 DEF OrderFine, FirstRow
      <4>4. CASE ~ IsManualPaid(r.from, r.to)
        <5>1. manual'[o] = manual[o] /\ paid'[o] = paid[o] /\ method'[o] = method[o]
              /\ basket'[o] = basket[o]
          BY <3>2, <4>4
        <5>2. r.to # "none" /\ (r.to = "REFUNDED" => r.from = "PAID") /\ r.to # "PAID"
              /\ r.to # "PENDING" /\ (r.to = "CONFIRMED" => r.from = "PENDING")
          BY <3>1, <4>4 DEF Allowed, IsManualPaid
        <5>3. QED
          BY <3>2, <4>2, <5>1, <5>2 DEF OrderFine, FirstRow
      <4>5. QED
        BY <4>3, <4>4
    <3>5. QED
      BY <3>3, <3>4
  <2>3. QED
    BY <2>1, <2>2
<1>5. ASSUME NEW c \in Callback, SettleSuccess(c)
      PROVE  OrderFine(o)'
  <2>1. /\ cb[c].txn \in Txn /\ cb[c].order \in Order
        /\ txn[cb[c].txn].order = cb[c].order
    BY <1>5 DEF SettleSuccess, SlotsOK, CbSafe
  <2>2. /\ txn'[cb[c].txn].order = cb[c].order /\ txn'[cb[c].txn].status = "SUCCESS"
    BY <1>5, <2>1 DEF SettleSuccess, TypeOK, TxnRow
  <2>3. CASE o = cb[c].order /\ status[o] = "PENDING"
    <3>1. status'[o] = "PAID"
      BY <1>5, <2>3 DEF SettleSuccess, TypeOK
    <3>2. QED
      BY <2>1, <2>2, <2>3, <3>1 DEF OrderFine
  <2>4. CASE ~ (o = cb[c].order /\ status[o] = "PENDING")
    BY <1>5, <2>4, SameOrderFine DEF SettleSuccess, SameOrder, TypeOK
  <2>5. QED
    BY <2>3, <2>4
<1>6. CASE Next
  BY <1>0, <1>1, <1>2, <1>3, <1>4, <1>5, <1>6
     DEF Next, Settle, SettleFailed, SettleLost, SettleRollback, Age, SweepSkip,
         SweepRead, CancelRead, LinkRead, AdminRead, LinkCreate, Gateway, Receive,
         NotifyPaid, EnsureInvoice, Crash
<1>7. QED
  BY <1>0, <1>6 DEF vars, orderVars

LEMMA NextLinks ==
  ASSUME TypeOK, SlotsOK, RowsOK, Grows, [Next]_vars, NEW t \in Txn,
         txn'[t].status # "none"
  PROVE  txn'[t].order \in Order /\ status'[txn'[t].order] # "none"
<1>1. CASE txn[t].status # "none"
  BY <1>1 DEF RowsOK, Grows
<1>2. CASE txn[t].status = "none"
  <2>1. PICK h \in Handler, u \in Txn : LinkCreate(h, u) /\ t = u
    <3>1. ASSUME NEW c \in Callback, Settle(c) PROVE txn'[t] = txn[t]
      BY <1>2, <3>1 DEF Settle, SettleSuccess, SettleFailed, SettleLost, SettleRollback,
                        Settleable, SlotsOK, CbSafe, TypeOK
    <3>2. QED
      BY <1>2, <3>1 DEF Next, vars, Create, Age, SweepOne, SweepSkip, SweepRead, CancelRead,
         LinkRead, AdminRead, CancelCommit, AdminCommit, LinkCreate, Gateway, Receive,
         NotifyPaid, EnsureInvoice, Crash, TypeOK
  <2>2. txn'[t].order = req[h].order
    BY <2>1 DEF LinkCreate, TypeOK
  <2>3. QED
    BY <2>1, <2>2 DEF LinkCreate, SlotsOK, ReqSafe, Grows
<1>3. QED
  BY <1>1, <1>2

--------------------------------------------------------------------------------
(* The invariant and what follows from it.                                     *)

LEMMA InitIInv == Init => IInv
<1> SUFFICES ASSUME Init PROVE IInv
  OBVIOUS
<1>1. TypeOK
  BY InitType
<1>2. SlotsOK
  BY IdleSafe DEF Init, SlotsOK
<1>3. RowsOK /\ PaidIsBacked
  BY DEF Init, RowsOK, PaidIsBacked, NoLink, FirstRow, FirstPaid
<1>4. QED
  BY <1>1, <1>2, <1>3 DEF IInv

LEMMA NextIInv ==
  ASSUME IInv, [Next]_vars
  PROVE  IInv'
<1>1. TypeOK /\ SlotsOK /\ RowsOK /\ PaidIsBacked
  BY DEF IInv
<1>2. TypeOK' /\ Grows
  BY <1>1, NextType, NextGrows
<1>3. SlotsOK'
  BY <1>1, <1>2, NextSlots
<1>4. ASSUME NEW o \in Order PROVE OrderFine(o)'
  <2>1. OrderFine(o)
    BY <1>1 DEF OrderFine, RowsOK, PaidIsBacked
  <2>2. QED
    BY <1>1, <1>2, <2>1, NextOrders
<1>5. RowsOK'
  BY <1>1, <1>2, <1>4, NextLinks DEF RowsOK, OrderFine
<1>6. PaidIsBacked'
  BY <1>4 DEF PaidIsBacked, OrderFine
<1>7. QED
  BY <1>2, <1>3, <1>5, <1>6 DEF IInv

(* The inductive invariant holds in every reachable state.                     *)
THEOREM Invariant == Spec => []IInv
<1>1. IInv /\ [Next]_vars => IInv'
  BY NextIInv
<1>2. QED
  BY <1>1, InitIInv, PTL DEF Spec

(* Every variable keeps its type; in particular stock never goes below zero,   *)
(* however many orders, cancels and refunds race for it.                       *)
THEOREM TypeCorrect == Spec => []TypeOK
<1>1. IInv => TypeOK
  BY DEF IInv
<1>2. QED
  BY <1>1, Invariant, PTL

(* No order is PAID or REFUNDED without money: a link that VNPay confirmed, or *)
(* the admin's manual row that completes the first payment to the total.       *)
THEOREM PaidBacked == Spec => []PaidIsBacked
<1>1. IInv => PaidIsBacked
  BY DEF IInv
<1>2. QED
  BY <1>1, Invariant, PTL

(* However requests, the sweep and callbacks interleave, an order's status     *)
(* moves only along the lifecycle's edges; final statuses are final.           *)
THEOREM LifecycleHolds == Spec => LifecycleOnly
<1> DEFINE Moves == \A o \in Order : status'[o] # status[o]
                                       => <<status[o], status'[o]>> \in Edge
<1>1. ASSUME IInv, [Next]_vars PROVE [Moves]_vars
  <2> USE <1>1 DEF IInv, Edge
  <2>0. ASSUME UNCHANGED status PROVE Moves
    BY <2>0
  <2>1. ASSUME NEW o \in Order, NEW bag \in Basket, NEW m \in Method, Create(o, bag, m)
        PROVE  Moves
    BY <2>1 DEF Create, TypeOK
  <2>2. ASSUME NEW q \in Order, CancelOrder(q), status[q] = "PENDING"
        PROVE  Moves
    BY <2>2 DEF CancelOrder, TypeOK
  <2>3. ASSUME NEW q \in Order, SweepOne(q) PROVE Moves
    BY <2>0, <2>2, <2>3 DEF SweepOne, StillIn, orderVars
  <2>4. ASSUME NEW h \in Handler, CancelCommit(h) PROVE Moves
    <3>1. req[h].order \in Order
      BY <2>4 DEF CancelCommit, SlotsOK, ReqSafe
    <3>2. QED
      BY <2>0, <2>2, <2>4, <3>1 DEF CancelCommit, StillIn, orderVars
  <2>5. ASSUME NEW h \in Handler, AdminCommit(h) PROVE Moves
    <3>1. CASE UNCHANGED orderVars
      BY <2>0, <3>1 DEF orderVars
    <3>2. CASE StillIn(req[h].order, req[h].from)
               /\ status' = [status EXCEPT ![req[h].order] = req[h].to]
      <4>1. req[h].order \in Order /\ req[h].to \in Allowed(req[h].from)
        BY <2>5 DEF AdminCommit, SlotsOK, ReqSafe
      <4>2. <<req[h].from, req[h].to>> \in Edge
        BY <4>1 DEF Allowed
      <4>3. QED
        BY <3>2, <4>1, <4>2 DEF StillIn, TypeOK
    <3>3. QED
      BY <2>5, <3>1, <3>2 DEF AdminCommit
  <2>6. ASSUME NEW c \in Callback, SettleSuccess(c) PROVE Moves
    BY <2>6 DEF SettleSuccess, SlotsOK, CbSafe, TypeOK
  <2>7. CASE Next
    BY <2>0, <2>1, <2>3, <2>4, <2>5, <2>6, <2>7
       DEF Next, Settle, SettleFailed, SettleLost, SettleRollback, Age, SweepSkip,
           SweepRead, CancelRead, LinkRead, AdminRead, LinkCreate, Gateway, Receive,
           NotifyPaid, EnsureInvoice, Crash, orderVars
  <2>8. QED
    BY <2>7
<1>2. QED
  BY <1>1, Invariant, PTL DEF Spec, LifecycleOnly

(* Of the callbacks racing for one link, only the one whose transaction found  *)
(* it PENDING goes on to notify and invoice.                                   *)
THEOREM OneNotifier == Spec => []OneNotifierPerLink
<1>1. Init => OneNotifierPerLink
  BY DEF Init, OneNotifierPerLink, IdleCb
<1>2. ASSUME IInv, OneNotifierPerLink, [Next]_vars
      PROVE  OneNotifierPerLink'
  <2> USE <1>2 DEF IInv
  <2> SUFFICES ASSUME NEW c \in Callback, NEW d \in Callback, c # d,
                      cb'[c].pc \in {"notify", "invoice"},
                      cb'[d].pc \in {"notify", "invoice"},
                      cb'[c].txn = cb'[d].txn
               PROVE  FALSE
    BY DEF OneNotifierPerLink
  <2> DEFINE Past(e) == cb[e].pc \in {"notify", "invoice"}
  <2>1. ~ (Past(c) /\ Past(d) /\ cb[c].txn = cb[d].txn)
    BY DEF OneNotifierPerLink
  <2>2. ASSUME NEW e \in Callback, cb'[e].pc \in {"notify", "invoice"}
        PROVE  /\ cb'[e].txn = cb[e].txn
               /\ Past(e) \/ SettleSuccess(e)
    <3>0. \A f \in Callback : cb[f] \in CbRow
      BY DEF TypeOK
    <3>1. CASE UNCHANGED cb
      BY <2>2, <3>1
    <3>2. ASSUME NEW f \in Callback, Answer(f) PROVE cb'[e] = cb[e]
      BY <2>2, <3>2 DEF Answer, IdleCb, TypeOK
    <3>3. ASSUME NEW f \in Callback, NEW t \in Txn, Receive(f, t) PROVE cb'[e] = cb[e]
      BY <2>2, <3>3 DEF Receive, TypeOK
    <3>4. ASSUME NEW f \in Callback, SettleSuccess(f) \/ NotifyPaid(f)
          PROVE  cb'[e].txn = cb[e].txn /\ (cb'[e] = cb[e] \/ e = f)
      BY <3>0, <3>4 DEF SettleSuccess, NotifyPaid, TypeOK, CbRow
    <3>5. ASSUME Crash PROVE FALSE
      BY <2>2, <3>5 DEF Crash, IdleCb
    <3>6. QED
      BY <2>2, <3>1, <3>2, <3>3, <3>4, <3>5
         DEF Next, vars, Settle, SettleFailed, SettleLost, SettleRollback, EnsureInvoice,
             NotifyPaid, Create, Age, SweepOne, SweepSkip, SweepRead, CancelRead, LinkRead,
             AdminRead, CancelCommit, AdminCommit, LinkCreate, Gateway, callbackVars
  <2>3. ASSUME NEW e \in Callback, NEW f \in Callback, SettleSuccess(e), e # f,
               cb'[f].pc \in {"notify", "invoice"}
        PROVE  Past(f) /\ txn[cb[f].txn].status = "SUCCESS" /\ cb[f].txn # cb[e].txn
    <3>1. Past(f)
      BY <2>3 DEF SettleSuccess, TypeOK
    <3>2. txn[cb[f].txn].status = "SUCCESS"
      BY <3>1 DEF SlotsOK, CbSafe
    <3>3. QED
      BY <2>3, <3>1, <3>2 DEF SettleSuccess, Settleable
  <2>4. QED
    BY <2>1, <2>2, <2>3
<1>3. QED
  BY <1>1, <1>2, Invariant, PTL DEF Spec

(* A link that was collected stays collected.                                  *)
LEMMA CollectedStays ==
  ASSUME IInv, Grows, NEW o \in Order, Collected(o)
  PROVE  Collected(o)'
BY DEF Collected, Grows

(* An invoice is only drawn up by a callback past its settle, so over a link   *)
(* that VNPay confirmed.                                                       *)
THEOREM InvoicesAreBacked == Spec => []InvoiceBacked
<1>1. Init => InvoiceBacked
  BY DEF Init, InvoiceBacked
<1>2. ASSUME IInv, InvoiceBacked, [Next]_vars
      PROVE  InvoiceBacked'
  <2>1. Grows
    BY <1>2, NextGrows DEF IInv
  <2>2. ASSUME invoice' = invoice
        PROVE  InvoiceBacked'
    BY <1>2, <2>1, <2>2, CollectedStays DEF InvoiceBacked, IInv, TypeOK
  <2>3. ASSUME NEW c \in Callback, EnsureInvoice(c)
        PROVE  InvoiceBacked'
    <3>1. cb[c].order \in Order /\ Collected(cb[c].order)
      BY <1>2, <2>3 DEF EnsureInvoice, IInv, SlotsOK, CbSafe, Collected
    <3>2. invoice' \subseteq invoice \cup {cb[c].order}
      BY <2>3 DEF EnsureInvoice
    <3>3. QED
      BY <1>2, <2>1, <3>1, <3>2, CollectedStays DEF InvoiceBacked, IInv, TypeOK
  <2>4. CASE Next
    BY <2>2, <2>3, <2>4
       DEF Next, Settle, SettleSuccess, SettleFailed, SettleLost, SettleRollback, Create,
           Age, SweepOne, SweepSkip, SweepRead, CancelRead, LinkRead, AdminRead,
           CancelCommit, AdminCommit, LinkCreate, Gateway, Receive, NotifyPaid, Crash,
           callbackVars
  <2>5. QED
    BY <1>2, <2>2, <2>4 DEF vars
<1>3. QED
  BY <1>1, <1>2, Invariant, PTL DEF Spec

(* The last event names the order's status, except where VNPay's settle, which *)
(* writes no event, has put the order on PAID over a collected link.           *)
LogFine(o) == lastEvent[o] = status[o] \/ (status[o] = "PAID" /\ Collected(o))

LEMMA LogKept ==
  ASSUME IInv, Grows, NEW o \in Order, LogFine(o),
         status'[o] = status[o] /\ lastEvent'[o] = lastEvent[o]
  PROVE  LogFine(o)'
BY CollectedStays DEF LogFine

LEMMA LogWritten ==
  ASSUME IInv, Grows, NEW o \in Order, LogFine(o), NEW q \in Order, NEW to,
         status' = [status EXCEPT ![q] = to], lastEvent' = [lastEvent EXCEPT ![q] = to]
  PROVE  LogFine(o)'
<1>1. CASE o = q
  BY <1>1 DEF LogFine, IInv, TypeOK
<1>2. CASE o # q
  BY <1>2, LogKept
<1>3. QED
  BY <1>1, <1>2

LEMMA NextLogs ==
  ASSUME IInv, [Next]_vars, NEW o \in Order, LogFine(o)
  PROVE  LogFine(o)'
<1>0. Grows
  BY NextGrows DEF IInv
<1>1. ASSUME UNCHANGED <<status, lastEvent>>
      PROVE  LogFine(o)'
  BY <1>0, <1>1, LogKept
<1>2. ASSUME NEW q \in Order, CancelOrder(q)
      PROVE  LogFine(o)'
  BY <1>0, <1>2, LogWritten DEF CancelOrder
<1>3. ASSUME NEW q \in Order, NEW bag \in Basket, NEW m \in Method, Create(q, bag, m)
      PROVE  LogFine(o)'
  BY <1>0, <1>3, LogWritten DEF Create
<1>4. ASSUME NEW q \in Order, SweepOne(q)
      PROVE  LogFine(o)'
  BY <1>1, <1>2, <1>4 DEF SweepOne, orderVars
<1>5. ASSUME NEW h \in Handler, CancelCommit(h)
      PROVE  LogFine(o)'
  <2>1. req[h].order \in Order
    BY <1>5 DEF CancelCommit, IInv, SlotsOK, ReqSafe
  <2>2. QED
    BY <1>1, <1>2, <1>5, <2>1 DEF CancelCommit, orderVars
<1>6. ASSUME NEW h \in Handler, AdminCommit(h)
      PROVE  LogFine(o)'
  <2>1. req[h].order \in Order
    BY <1>6, CommitShape DEF IInv
  <2>2. QED
    BY <1>0, <1>1, <1>6, <2>1, LogWritten DEF AdminCommit, orderVars
<1>7. ASSUME NEW c \in Callback, SettleSuccess(c)
      PROVE  LogFine(o)'
  <2>1. CASE o = cb[c].order /\ status[o] = "PENDING"
    <3>1. /\ cb[c].txn \in Txn /\ txn[cb[c].txn].order = o
      BY <1>7, <2>1 DEF SettleSuccess, IInv, SlotsOK, CbSafe
    <3>2. txn'[cb[c].txn].order = o /\ txn'[cb[c].txn].status = "SUCCESS"
      BY <1>7, <3>1 DEF SettleSuccess, IInv, TypeOK, TxnRow
    <3>3. status'[o] = "PAID"
      BY <1>7, <2>1 DEF SettleSuccess, IInv, TypeOK
    <3>4. QED
      BY <3>1, <3>2, <3>3 DEF LogFine, Collected
  <2>2. CASE ~ (o = cb[c].order /\ status[o] = "PENDING")
    BY <1>0, <1>7, <2>2, LogKept DEF SettleSuccess, IInv, TypeOK
  <2>3. QED
    BY <2>1, <2>2
<1>8. CASE Next
  BY <1>1, <1>3, <1>4, <1>5, <1>6, <1>7, <1>8
     DEF Next, Settle, SettleFailed, SettleLost, SettleRollback, Age, SweepSkip, SweepRead,
         CancelRead, LinkRead, AdminRead, LinkCreate, Gateway, Receive, NotifyPaid,
         EnsureInvoice, Crash, orderVars
<1>9. QED
  BY <1>1, <1>8 DEF vars

(* The event log keeps up with the status through every interleaving.          *)
THEOREM EventsKeepUp == Spec => []LoggedUnlessSettled
<1>1. Init => LoggedUnlessSettled
  BY DEF Init, LoggedUnlessSettled
<1>2. ASSUME IInv, LoggedUnlessSettled, [Next]_vars
      PROVE  LoggedUnlessSettled'
  <2>1. \A o \in Order : LogFine(o)
    BY <1>2 DEF LoggedUnlessSettled, LogFine
  <2>2. \A o \in Order : LogFine(o)'
    BY <1>2, <2>1, NextLogs
  <2>3. QED
    BY <2>2 DEF LoggedUnlessSettled, LogFine
<1>3. QED
  BY <1>1, <1>2, Invariant, PTL DEF Spec

--------------------------------------------------------------------------------
(* Refinement: the order code implements the stock ledger.                     *)

LEMMA NoMove ==
  ASSUME UNCHANGED <<stock, status, basket>>
  PROVE  UNCHANGED Ledger!ledgerVars
BY DEF Ledger!ledgerVars, Held, Closed

LEMMA ReserveStep ==
  ASSUME IInv, NEW o \in Order, NEW bag \in Basket, NEW m \in Method, Create(o, bag, m)
  PROVE  Ledger!Reserve(o, bag)
<1> USE DEF IInv
<1>1. status[o] = "none" /\ basket[o] = NoUnits
  BY DEF Create, RowsOK
<1>2. Held[o] = Ledger!NoUnits /\ o \notin Closed
  BY <1>1 DEF Held, Closed, NoUnits, Ledger!NoUnits
<1>3. Closed' = Closed
  BY <1>1 DEF Create, Closed, TypeOK
<1>4. Held' = [Held EXCEPT ![o] = bag]
  BY <1>1, <1>2, <1>3 DEF Create, Held, TypeOK
<1>5. QED
  BY <1>2, <1>3, <1>4 DEF Create, Take, CanTake, Ledger!Reserve

(* An order that goes from an open status to CANCELLED or REFUNDED and gives   *)
(* its units back releases them in the ledger.                                 *)
LEMMA ReleaseStep ==
  ASSUME IInv, NEW o \in Order, NEW to \in {"CANCELLED", "REFUNDED"},
         o \notin Closed, status' = [status EXCEPT ![o] = to], GiveBack(o),
         UNCHANGED basket
  PROVE  Ledger!Release(o)
<1> USE DEF IInv
<1>1. Closed' = Closed \cup {o}
  BY DEF Closed, TypeOK
<1>2. Held[o] = basket[o]
  BY DEF Held
<1>3. Held' = [Held EXCEPT ![o] = Ledger!NoUnits]
  BY <1>1 DEF Held, NoUnits, Ledger!NoUnits
<1>4. QED
  BY <1>1, <1>2, <1>3 DEF GiveBack, Ledger!Release

LEMMA OpenMove ==
  ASSUME IInv, NEW o \in Order, NEW to \in OrderStatus \ {"CANCELLED", "REFUNDED"},
         o \notin Closed, status' = [status EXCEPT ![o] = to],
         UNCHANGED <<stock, basket>>
  PROVE  UNCHANGED Ledger!ledgerVars
<1>1. Closed' = Closed
  BY DEF IInv, Closed, TypeOK
<1>2. Held' = Held
  BY <1>1 DEF Held
<1>3. QED
  BY <1>1, <1>2 DEF Ledger!ledgerVars

LEMMA CancelStep ==
  ASSUME IInv, NEW o \in Order, CancelOrder(o), status[o] = "PENDING"
  PROVE  Ledger!Release(o)
<1>1. o \notin Closed
  BY DEF Closed
<1>2. QED
  BY <1>1, ReleaseStep DEF CancelOrder

LEMMA AdminStep ==
  ASSUME IInv, NEW h \in Handler, AdminCommit(h)
  PROVE  Ledger!Release(req[h].order) \/ UNCHANGED Ledger!ledgerVars
<1> DEFINE r == req[h]
<1>1. r.order \in Order /\ r.to \in Allowed(r.from) /\ r.to \in OrderStatus
  BY CommitShape DEF IInv
<1>2. CASE UNCHANGED orderVars
  BY <1>2, NoMove DEF orderVars
<1>3. CASE ~ UNCHANGED orderVars
  <2>1. /\ status[r.order] = r.from
        /\ status' = [status EXCEPT ![r.order] = r.to]
        /\ IF Restocks(r.from, r.to) THEN GiveBack(r.order) ELSE UNCHANGED stock
        /\ UNCHANGED basket
    BY <1>3 DEF AdminCommit, StillIn
  <2>2. r.order \notin Closed
    BY <1>1, <2>1 DEF Closed, Allowed
  <2>3. CASE r.to \in {"CANCELLED", "REFUNDED"}
    <3>1. Restocks(r.from, r.to)
      BY <1>1, <2>3 DEF Allowed, Restocks
    <3>2. QED
      BY <1>1, <2>1, <2>2, <2>3, <3>1, ReleaseStep
  <2>4. CASE r.to \notin {"CANCELLED", "REFUNDED"}
    <3>1. ~ Restocks(r.from, r.to)
      BY <2>4 DEF Restocks
    <3>2. QED
      BY <1>1, <2>1, <2>2, <2>4, <3>1, OpenMove
  <2>5. QED
    BY <2>3, <2>4
<1>4. QED
  BY <1>2, <1>3

LEMMA SettleStep ==
  ASSUME IInv, NEW c \in Callback, SettleSuccess(c)
  PROVE  UNCHANGED Ledger!ledgerVars
<1>1. cb[c].order \in Order
  BY DEF SettleSuccess, IInv, SlotsOK, CbSafe
<1>2. CASE status[cb[c].order] = "PENDING"
  <2>1. cb[c].order \notin Closed
    BY <1>2 DEF Closed
  <2>2. QED
    BY <1>1, <1>2, <2>1, OpenMove DEF SettleSuccess
<1>3. CASE status[cb[c].order] # "PENDING"
  BY <1>3, NoMove DEF SettleSuccess
<1>4. QED
  BY <1>2, <1>3

(* Units leave the shelf when an order is taken and come back once, whole,     *)
(* when it ends CANCELLED or REFUNDED, whichever handlers race for that.       *)
THEOREM Refinement == Spec => ImplementsLedger
<1>1. Init => Ledger!Init
  BY DEF Init, Ledger!Init, Held, Closed, NoUnits, Ledger!NoUnits
<1>2. ASSUME IInv, [Next]_vars
      PROVE  [Ledger!Next]_(Ledger!ledgerVars)
  <2> USE <1>2
  <2>1. ASSUME NEW o \in Order, NEW bag \in Basket, NEW m \in Method, Create(o, bag, m)
        PROVE  Ledger!Next
    BY <2>1, ReserveStep DEF Ledger!Next
  <2>2. ASSUME NEW o \in Order, SweepOne(o)
        PROVE  Ledger!Next \/ UNCHANGED Ledger!ledgerVars
    BY <2>2, CancelStep, NoMove DEF SweepOne, StillIn, orderVars, Ledger!Next
  <2>3. ASSUME NEW h \in Handler, CancelCommit(h)
        PROVE  Ledger!Next \/ UNCHANGED Ledger!ledgerVars
    <3>1. req[h].order \in Order
      BY <2>3 DEF CancelCommit, IInv, SlotsOK, ReqSafe
    <3>2. QED
      BY <2>3, <3>1, CancelStep, NoMove DEF CancelCommit, StillIn, orderVars, Ledger!Next
  <2>4. ASSUME NEW h \in Handler, AdminCommit(h)
        PROVE  Ledger!Next \/ UNCHANGED Ledger!ledgerVars
    <3>1. req[h].order \in Order
      BY <2>4, CommitShape DEF IInv
    <3>2. QED
      BY <2>4, <3>1, AdminStep DEF Ledger!Next
  <2>5. CASE Next
    BY <2>1, <2>2, <2>3, <2>4, <2>5, SettleStep, NoMove
       DEF Next, Settle, SettleFailed, SettleLost, SettleRollback, Age, SweepSkip,
           SweepRead, CancelRead, LinkRead, AdminRead, LinkCreate, Gateway, Receive,
           NotifyPaid, EnsureInvoice, Crash, orderVars
  <2>6. CASE UNCHANGED vars
    BY <2>6, NoMove DEF vars
  <2>7. QED
    BY <2>5, <2>6
<1>3. QED
  BY <1>1, <1>2, Invariant, PTL DEF Spec, ImplementsLedger, Ledger!Spec

--------------------------------------------------------------------------------
(* Late money, while the process does not restart.                             *)

(* A confirmed link was reported, is about to be, or paid an order that can    *)
(* no longer be cancelled.                                                     *)
Accounted(t) ==
  txn[t].status = "SUCCESS" =>
    Reported(t) \/ status[txn[t].order] \in {"PAID", "SHIPPED", "COMPLETED", "REFUNDED"}

LEMMA AccountedStep ==
  ASSUME MaxCrash = 0, IInv, [Next]_vars, \A o \in Order : status'[o] # status[o] =>
           <<status[o], status'[o]>> \in Edge,
         NEW t \in Txn, Accounted(t)
  PROVE  Accounted(t)'
<1> USE DEF IInv
<1> SUFFICES ASSUME txn'[t].status = "SUCCESS", ~ Reported(t)'
             PROVE  status'[txn'[t].order] \in {"PAID", "SHIPPED", "COMPLETED", "REFUNDED"}
  BY DEF Accounted, Reported, ToNotify
<1>0. ~ Crash
  BY DEF Crash, TypeOK
<1>1. Grows
  BY NextGrows
<1>2. CASE txn[t].status = "SUCCESS"
  <2>1. txn[t].order \in Order /\ txn'[t].order = txn[t].order
    BY <1>1, <1>2 DEF RowsOK, Grows
  <2>2. ASSUME status[txn[t].order] \in {"PAID", "SHIPPED", "COMPLETED", "REFUNDED"}
        PROVE  status'[txn[t].order] \in {"PAID", "SHIPPED", "COMPLETED", "REFUNDED"}
    BY <2>1, <2>2 DEF Edge
  <2>4. CASE ~ Reported(t)
    BY <1>2, <2>1, <2>2, <2>4 DEF Accounted
  <2>5. CASE Reported(t)
    <3>1. PICK c \in Callback : NotifyPaid(c) /\ cb[c].txn = t
      <4>1. alarm \subseteq alarm'
        BY <1>0 DEF Next, vars, Create, Age, SweepOne, SweepSkip, SweepRead, CancelRead,
           LinkRead, AdminRead, CancelCommit, AdminCommit, LinkCreate, Gateway, Receive,
           Settle, SettleSuccess, SettleFailed, SettleLost, SettleRollback, NotifyPaid,
           EnsureInvoice, callbackVars
      <4>2. PICK c \in Callback : cb[c].pc = "notify" /\ cb[c].txn = t
        BY <2>5, <4>1 DEF Reported, ToNotify
      <4>3. ~ (cb'[c].pc = "notify" /\ cb'[c].txn = t)
        BY DEF Reported, ToNotify
      <4>4. ASSUME NEW d \in Callback, Answer(d), cb[d].pc # "notify" PROVE FALSE
        BY <4>2, <4>3, <4>4 DEF Answer, TypeOK
      <4>5. ASSUME NEW d \in Callback, Settle(d) PROVE FALSE
        <5>1. cb[d].pc = "settle" /\ d # c
          BY <4>2, <4>5 DEF Settle, SettleSuccess, SettleFailed, SettleLost, SettleRollback
        <5>2. CASE SettleSuccess(d)
          BY <4>2, <4>3, <5>1, <5>2 DEF SettleSuccess, TypeOK
        <5>3. QED
          BY <4>4, <4>5, <5>1, <5>2 DEF Settle, SettleFailed, SettleLost, SettleRollback
      <4>6. ASSUME NEW d \in Callback, NEW u \in Txn, Receive(d, u) PROVE FALSE
        BY <4>2, <4>3, <4>6 DEF Receive, TypeOK
      <4>7. ASSUME NEW d \in Callback, EnsureInvoice(d) PROVE FALSE
        BY <4>4, <4>7 DEF EnsureInvoice
      <4>8. ASSUME NEW d \in Callback, NotifyPaid(d) PROVE c = d
        BY <4>2, <4>3, <4>8 DEF NotifyPaid, TypeOK
      <4>9. cb' # cb
        BY <4>2, <4>3
      <4>10. QED
        BY <1>0, <4>2, <4>5, <4>6, <4>7, <4>8, <4>9
           DEF Next, vars, Create, Age, SweepOne, SweepSkip, SweepRead, CancelRead,
           LinkRead, AdminRead, CancelCommit, AdminCommit, LinkCreate, Gateway, callbackVars
    <3>2. status[cb[c].order] = "PAID"
      BY <3>1 DEF NotifyPaid, Reported
    <3>3. cb[c].order = txn[t].order
      BY <3>1 DEF NotifyPaid, SlotsOK, CbSafe
    <3>4. QED
      BY <2>1, <2>2, <3>2, <3>3
  <2>6. QED
    BY <2>4, <2>5
<1>3. CASE txn[t].status # "SUCCESS"
  <2>1. PICK c \in Callback : SettleSuccess(c) /\ cb[c].txn = t
    <3>1. ASSUME NEW c \in Callback, SettleFailed(c) PROVE FALSE
      BY <1>3, <3>1 DEF SettleFailed, SlotsOK, CbSafe, TypeOK, TxnRow
    <3>2. ASSUME NEW h \in Handler, NEW u \in Txn, LinkCreate(h, u) PROVE FALSE
      BY <1>3, <3>2 DEF LinkCreate, TypeOK
    <3>3. txn' # txn
      BY <1>3
    <3>4. PICK c \in Callback : SettleSuccess(c)
      BY <1>0, <3>1, <3>2, <3>3
         DEF Next, vars, Create, Age, SweepOne, SweepSkip, SweepRead, CancelRead, LinkRead,
         AdminRead, CancelCommit, AdminCommit, Gateway, Receive, Settle, SettleLost,
         SettleRollback, NotifyPaid, EnsureInvoice
    <3>5. QED
      BY <1>3, <3>4 DEF SettleSuccess, TypeOK
  <2>2. cb'[c].pc = "notify" /\ cb'[c].txn = t
    BY <2>1 DEF SettleSuccess, TypeOK, CbRow
  <2>3. QED
    BY <2>2 DEF Reported, ToNotify
<1>4. QED
  BY <1>2, <1>3

(* As long as the process does not restart between the settle transaction and  *)
(* the notice, money settled for a CANCELLED order is always reported.         *)
THEOREM LateMoneyReported ==
  ASSUME MaxCrash = 0
  PROVE  Spec => []DeadOrderMoneyReported
<1> DEFINE AllAccounted == \A t \in Txn : Accounted(t)
           Moves == \A o \in Order : status'[o] # status[o]
                                       => <<status[o], status'[o]>> \in Edge
<1>1. Init => AllAccounted
  BY DEF Init, Accounted, NoLink
<1>2. ASSUME IInv, AllAccounted, [Next]_vars, [Moves]_vars
      PROVE  AllAccounted'
  <2>1. Moves
    BY <1>2 DEF vars
  <2> SUFFICES ASSUME NEW t \in Txn PROVE Accounted(t)'
    OBVIOUS
  <2>2. QED
    BY <1>2, <2>1, AccountedStep
<1>3. IInv /\ AllAccounted => DeadOrderMoneyReported
  BY DEF Accounted, DeadOrderMoneyReported, IInv, RowsOK
<1>4. QED
  BY <1>1, <1>2, <1>3, Invariant, LifecycleHolds, PTL DEF Spec, LifecycleOnly
================================================================================
