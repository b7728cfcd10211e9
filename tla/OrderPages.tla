----------------------------- MODULE OrderPages -----------------------------
(***************************************************************************)
(* What the pages say of an order while others move it: the customer's page with its    *)
(* poller and its cancel button (orders/[code]), and the selects of the backoffice by     *)
(* which staff move it (admin/orders).  How the backend moves an order in steps, and       *)
(* what comes of its stock and money, is in OrderLifecycle; here a move is one step.        *)
(*                                                                         *)
(* A page is painted from what the server read when it answered.  Next.js (external)        *)
(* has one refresh of a page under way at a time and one more waiting.  The reference       *)
(* staff are asked for with PAID and REFUNDED is not told apart: an empty one leaves the      *)
(* select as it was.                                                        *)
(***************************************************************************)
EXTENDS Integers, FiniteSets

CONSTANTS
  Desks,            \* pages of staff that show the order
  Questions,             \* bound: questions of the poller under way at a time
  MaxTries          \* 12: how often the poller has asked when it gives up

Customer == "customer"

ASSUME PagesAssumption == MaxTries \in Nat \ {0} /\ Customer \notin Desks

VARIABLES
  orderStatus,      \* Order.status
  painted,          \* initialStatus: what the customer's page was painted with
  polling,          \* the interval runs, and its syncing line is shown
  tries,
  asking,           \* each question: not there, on its way, or answered with a status
  repaint,          \* the refresh of each page: none, asked for, or the status it comes with
  again,            \* pages that want another refresh after that
  cancelling,       \* the cancel button's call
  desk,             \* what staff's page was painted with, and what its select shows
  moving,           \* the select's call
  told,             \* history: the poller, or the button, has learnt that the order has moved on
  unsure            \* history: desks at which the order was moved by others, or a call was lost

orderPageVars == <<orderStatus, painted, polling, tries, asking, repaint, again, cancelling, desk,
                   moving, told, unsure>>

STATUSES == {"PENDING", "CONFIRMED", "PAID", "SHIPPED", "COMPLETED", "CANCELLED", "REFUNDED"}

\* allowed, in updateStatus
Allowed ==
  [PENDING |-> {"CONFIRMED", "PAID", "CANCELLED"}, CONFIRMED |-> {"PAID", "SHIPPED", "CANCELLED"},
   PAID |-> {"SHIPPED", "REFUNDED"}, SHIPPED |-> {"COMPLETED"},
   COMPLETED |-> {}, CANCELLED |-> {}, REFUNDED |-> {}]

Views == Desks \cup {Customer}
Painting == STATUSES \cup {"none", "asked"}
NoMove == [at |-> "none"]
Move == [at : {"sent", "ok", "refused"}, to : STATUSES, was : STATUSES]

OrderPagesTypeOK ==
  /\ orderStatus \in STATUSES /\ painted \in STATUSES
  /\ polling \in BOOLEAN /\ tries \in 0 .. MaxTries
  /\ asking \in [Questions -> STATUSES \cup {"none", "sent"}]
  /\ repaint \in [Views -> Painting] /\ again \subseteq Views
  /\ cancelling \in {"none", "sent", "ok", "refused"}
  /\ desk \in [Desks -> [status : STATUSES, value : STATUSES]]
  /\ moving \in [Desks -> Move \cup {NoMove}]
  /\ told \in BOOLEAN /\ unsure \subseteq Desks

OrderPagesInit ==
  /\ orderStatus = "PENDING" /\ painted = "PENDING"
  /\ polling = TRUE /\ tries = 0
  /\ asking = [a \in Questions |-> "none"]
  /\ repaint = [v \in Views |-> "none"] /\ again = {}
  /\ cancelling = "none"
  /\ desk = [d \in Desks |-> [status |-> "PENDING", value |-> "PENDING"]]
  /\ moving = [d \in Desks |-> NoMove]
  /\ told = FALSE /\ unsure = {}

-----------------------------------------------------------------------------
deskVars == <<desk, moving>>
pollVars == <<painted, polling, tries, asking>>

\* router.refresh()
Refresh(v) ==
  IF repaint[v] = "none"
  THEN repaint' = [repaint EXCEPT ![v] = "asked"] /\ UNCHANGED again
  ELSE again' = again \cup {v} /\ UNCHANGED repaint

\* VNPay, the sweep, or staff elsewhere.
MovesElsewhere ==
  /\ orderStatus' \in Allowed[orderStatus]
  /\ unsure' = Desks
  /\ UNCHANGED <<pollVars, deskVars, repaint, again, cancelling, told>>

-----------------------------------------------------------------------------
(* The customer's page.                                                      *)

\* The page is opened, or opened anew: an effect starts the poller if the order is PENDING.
OpenOrderPage ==
  /\ painted' = orderStatus
  /\ polling' = (orderStatus = "PENDING") /\ tries' = 0
  /\ asking' = [a \in Questions |-> "none"]
  /\ repaint' = [repaint EXCEPT ![Customer] = "none"] /\ again' = again \ {Customer}
  /\ cancelling' = "none" /\ told' = FALSE
  /\ UNCHANGED <<orderStatus, deskVars, unsure>>

\* Every five seconds, whether or not the last question is answered.
PollTick(a) ==
  /\ polling /\ asking[a] = "none"
  /\ tries' = IF tries < MaxTries THEN tries + 1 ELSE tries
  /\ asking' = [asking EXCEPT ![a] = "sent"]
  /\ UNCHANGED <<orderStatus, painted, polling, deskVars, repaint, again, cancelling, told, unsure>>

\* byCode: the status, whoever asks.
AnswersAsk(a) ==
  /\ asking[a] = "sent"
  /\ asking' = [asking EXCEPT ![a] = orderStatus]
  /\ UNCHANGED <<orderStatus, painted, polling, tries, deskVars, repaint, again, cancelling, told,
                 unsure>>

\* defect: the interval is cleared and the page is not painted anew
PollAnsweredOnly(a) ==
  /\ asking[a] \in STATUSES
  /\ asking' = [asking EXCEPT ![a] = "none"]
  /\ polling' = (polling /\ asking[a] = "PENDING" /\ tries < MaxTries)
  /\ told' = (told \/ asking[a] # "PENDING")
  /\ UNCHANGED <<orderStatus, painted, tries, deskVars, repaint, again, cancelling, unsure>>

\* Any status but PENDING ends the poller, and the page is painted anew, also after the interval
\* was cleared.
PollAnswered(a) ==
  /\ asking[a] \in STATUSES
  /\ asking' = [asking EXCEPT ![a] = "none"]
  /\ IF asking[a] # "PENDING"
     THEN polling' = FALSE /\ told' = TRUE /\ Refresh(Customer)
     ELSE polling' = (polling /\ tries < MaxTries) /\ UNCHANGED <<told, repaint, again>>
  /\ UNCHANGED <<orderStatus, painted, tries, deskVars, cancelling, unsure>>

\* A question or its answer is lost, or it was one too many for the throttle.
PollLost(a) ==
  /\ asking[a] # "none"
  /\ asking' = [asking EXCEPT ![a] = "none"]
  /\ polling' = (polling /\ tries < MaxTries)
  /\ UNCHANGED <<orderStatus, painted, tries, deskVars, repaint, again, cancelling, told, unsure>>

PressCancel ==
  /\ painted = "PENDING" /\ cancelling = "none"
  /\ cancelling' = "sent"
  /\ UNCHANGED <<orderStatus, pollVars, deskVars, repaint, again, told, unsure>>

CancelGoes ==
  /\ cancelling = "sent"
  /\ \/ /\ orderStatus = "PENDING"
        /\ orderStatus' = "CANCELLED" /\ cancelling' = "ok" /\ unsure' = Desks
     \/ /\ cancelling' = "refused" /\ UNCHANGED <<orderStatus, unsure>>
  /\ UNCHANGED <<pollVars, deskVars, repaint, again, told>>

\* Cancelled: the page is painted anew.  Refused, or lost: an alert, and the page as it was.
CancelArrives ==
  /\ cancelling # "none"
  /\ \/ cancelling = "ok" /\ told' = TRUE /\ Refresh(Customer)
     \/ UNCHANGED <<told, repaint, again>>
  /\ cancelling' = "none"
  /\ UNCHANGED <<orderStatus, pollVars, deskVars, unsure>>

-----------------------------------------------------------------------------
(* Refreshes.                                                               *)

RefreshReads(v) ==
  /\ repaint[v] = "asked"
  /\ repaint' = [repaint EXCEPT ![v] = orderStatus]
  /\ UNCHANGED <<orderStatus, pollVars, deskVars, again, cancelling, told, unsure>>

NextRefresh(v) ==
  /\ repaint' = [repaint EXCEPT ![v] = IF v \in again THEN "asked" ELSE "none"]
  /\ again' = again \ {v}

\* The customer's page: what changes with the status is painted, and the poller stops.
CustomerRepainted ==
  /\ repaint[Customer] \in STATUSES
  /\ painted' = repaint[Customer]
  /\ polling' = (polling /\ painted' = "PENDING")
  /\ NextRefresh(Customer)
  /\ UNCHANGED <<orderStatus, tries, asking, deskVars, cancelling, told, unsure>>

\* Staff's page: the select was given its value when it was mounted, and keeps it.
DeskRepainted(d) ==
  /\ repaint[d] \in STATUSES
  /\ desk' = [desk EXCEPT ![d].status = repaint[d]]
  /\ NextRefresh(d)
  /\ UNCHANGED <<orderStatus, pollVars, moving, cancelling, told, unsure>>

\* A refresh does not come: the page stays as it was.
RefreshLost(v) ==
  /\ repaint[v] # "none"
  /\ NextRefresh(v)
  /\ told' = (told /\ v # Customer)
  /\ UNCHANGED <<orderStatus, pollVars, deskVars, cancelling, unsure>>

-----------------------------------------------------------------------------
(* Staff.                                                                  *)

OpenDesk(d) ==
  /\ moving[d] = NoMove
  /\ desk' = [desk EXCEPT ![d] = [status |-> orderStatus, value |-> orderStatus]]
  /\ repaint' = [repaint EXCEPT ![d] = "none"] /\ again' = again \ {d}
  /\ unsure' = unsure \ {d}
  /\ UNCHANGED <<orderStatus, pollVars, moving, cancelling, told>>

\* The desk's last choice is not painted yet, and what it would go back to is old.
OutOfDate(d) == IF desk[d].status # desk[d].value THEN unsure \cup {d} ELSE unsure

\* The select shows what was chosen before the backend has been asked.
ChooseStatus(d) ==
  /\ moving[d] = NoMove
  /\ \E to \in STATUSES \ {desk[d].value} :
       /\ desk' = [desk EXCEPT ![d].value = to]
       /\ moving' = [moving EXCEPT ![d] = [at |-> "sent", to |-> to, was |-> desk[d].status]]
  /\ unsure' = OutOfDate(d)
  /\ UNCHANGED <<orderStatus, pollVars, repaint, again, cancelling, told>>

\* No reference is given: the select goes back to what the page was painted with.
LeavePrompt(d) ==
  /\ moving[d] = NoMove
  /\ desk' = [desk EXCEPT ![d].value = desk[d].status]
  /\ unsure' = OutOfDate(d)
  /\ UNCHANGED <<orderStatus, pollVars, moving, repaint, again, cancelling, told>>

\* updateStatus: along an edge, if nobody was faster.
MoveGoes(d) ==
  /\ moving[d].at = "sent"
  /\ \/ /\ moving[d].to \in Allowed[orderStatus]
        /\ orderStatus' = moving[d].to
        /\ moving' = [moving EXCEPT ![d].at = "ok"]
        /\ unsure' = Desks \ {d}
     \/ /\ moving' = [moving EXCEPT ![d].at = "refused"]
        /\ UNCHANGED <<orderStatus, unsure>>
  /\ UNCHANGED <<pollVars, desk, repaint, again, cancelling, told>>

\* defect: the select shows the status in the answer, of which a refusal has none
MoveArrivesAnswered(d) ==
  /\ moving[d].at \in {"ok", "refused"}
  /\ IF moving[d].at = "ok" THEN Refresh(d) ELSE UNCHANGED <<repaint, again>>
  /\ desk' = [desk EXCEPT ![d].value = IF moving[d].at = "ok" THEN moving[d].to ELSE "undefined"]
  /\ moving' = [moving EXCEPT ![d] = NoMove]
  /\ UNCHANGED <<orderStatus, pollVars, cancelling, told, unsure>>

\* Refused: the select goes back to what its page was painted with when it was pressed.
MoveArrives(d) ==
  /\ moving[d].at \in {"ok", "refused"}
  /\ IF moving[d].at = "ok"
     THEN Refresh(d) /\ UNCHANGED desk
     ELSE /\ desk' = [desk EXCEPT ![d].value = moving[d].was]
          /\ UNCHANGED <<repaint, again>>
  /\ moving' = [moving EXCEPT ![d] = NoMove]
  /\ UNCHANGED <<orderStatus, pollVars, cancelling, told, unsure>>

\* Nothing catches a lost call: the select keeps what was chosen, moved or not.
MoveLost(d) ==
  /\ moving[d] # NoMove
  /\ moving' = [moving EXCEPT ![d] = NoMove]
  /\ unsure' = unsure \cup {d}
  /\ UNCHANGED <<orderStatus, pollVars, desk, repaint, again, cancelling, told>>

\* A customer at the page of an order that others move ...
CustomerPageNext ==
  \/ MovesElsewhere \/ OpenOrderPage \/ PressCancel \/ CancelGoes \/ CancelArrives
  \/ \E a \in Questions : PollTick(a) \/ AnswersAsk(a) \/ PollAnswered(a) \/ PollLost(a)
  \/ CustomerRepainted \/ RefreshReads(Customer) \/ RefreshLost(Customer)

\* ... and staff at their desks, with others who move it.
DeskNext ==
  \/ MovesElsewhere
  \/ \E d \in Desks :
       \/ OpenDesk(d) \/ ChooseStatus(d) \/ LeavePrompt(d) \/ MoveGoes(d) \/ MoveArrives(d)
       \/ MoveLost(d) \/ DeskRepainted(d) \/ RefreshReads(d) \/ RefreshLost(d)

OrderPagesNext == CustomerPageNext \/ DeskNext

OrderPagesSpec == OrderPagesInit /\ [][OrderPagesNext]_orderPageVars

-----------------------------------------------------------------------------
(* Once the poller or the button has learnt that the order has moved on, the page says    *)
(* so, or is about to; however its questions overlap and the interval ends.  Only a       *)
(* lost refresh can leave it waiting, with nothing that would try again.              *)
PageCatchesUp ==
  told => painted # "PENDING" \/ repaint[Customer] # "none"

(* The page goes on asking as long as it says that it does.                     *)
PollsWhileSyncing ==
  polling => painted = "PENDING" /\ (tries < MaxTries \/ \E a \in Questions : asking[a] # "none")

(* A select at rest shows the status of the order, unless the order was moved by others    *)
(* since its page was opened, a call of its own was lost, or it was used again before        *)
(* its page was painted with the last choice.                                  *)
SelectTellsTruth ==
  \A d \in Desks \ unsure : moving[d] = NoMove => desk[d].value = orderStatus

(* Customers and staff are shown the order as it is.                             *)
OrderPagesSound == PageCatchesUp /\ PollsWhileSyncing /\ SelectTellsTruth
=============================================================================
