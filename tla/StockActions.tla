---------------------------- MODULE StockActions ----------------------------
(***************************************************************************)
(* The merchant agent's restocks and campaigns (merchant/backend.py): staged in a       *)
(* chat, approved or discarded by an operator, carried out call by call at the         *)
(* backend, and then marked in the ledger and its file.  A restock is written as the    *)
(* stock the agent saw plus what arrives, a campaign is a row created at every write.    *)
(* Orders sell and return units at any time.                                     *)
(*                                                                         *)
(* A change has one item here; changes of several, and of prices, are in Pricing.        *)
(* Pausing a listing, its texts and a campaign's new budget are single writes that        *)
(* repeat without harm, and are left out.                                        *)
(***************************************************************************)
EXTENDS Integers, FiniteSets

CONSTANTS
  Pieces,      \* listings
  Arrivals,         \* units a restock may ask for
  MaxRestock,       \* the guardrail: units one change may add
  MaxOnHand,        \* bound: the stock of a listing
  MaxActions,       \* bound: changes the ledger holds
  Approvals,        \* bound: approvals the host serves at a time
  NoAction

ASSUME StockActionsAssumption ==
  /\ Arrivals \subseteq Nat \ {0}
  /\ {MaxRestock, MaxActions} \subseteq Nat /\ MaxOnHand \in Nat \ {0}

VARIABLES
  onHand,           \* Product.stock
  inHouse,          \* history: the units there really are, counted anew after a blind write
  actions,          \* the ledger in memory
  actionsSaved,     \* the ledger's file
  serving,          \* the approvals under way
  carriedOut,       \* history: how often each change was written, up to two
  unfinished        \* history: changes an approval of which overlapped or did not end in the ledger

stockActionVars ==
  <<onHand, inHouse, actions, actionsSaved, serving, carriedOut, unfinished>>

ActionIds == 1 .. MaxActions
Stock == -MaxOnHand .. 2 * MaxOnHand   \* bound, where they do not agree
StagedAction ==
  [kind : {"restock"}, listing : Pieces, before : 0 .. MaxOnHand, after : 0 .. MaxOnHand,
   status : {"staged", "applied", "discarded"}]
  \cup [kind : {"campaign"}, status : {"staged", "applied", "discarded"}]
ASSUME NoActionAssumption == NoAction \notin StagedAction

NoOne == [at |-> "idle"]
Approval == [at : {"check", "write", "mark"}, id : ActionIds, blind : BOOLEAN]

StockActionsTypeOK ==
  /\ onHand \in [Pieces -> 0 .. MaxOnHand]
  /\ inHouse \in [Pieces -> Stock]
  /\ actions \in [ActionIds -> StagedAction \cup {NoAction}]
  /\ actionsSaved \in [ActionIds -> StagedAction \cup {NoAction}]
  /\ serving \in [Approvals -> Approval \cup {NoOne}]
  /\ carriedOut \in [ActionIds -> 0 .. 2]
  /\ unfinished \subseteq ActionIds

StockActionsInit ==
  /\ onHand = [l \in Pieces |-> 1]
  /\ inHouse = onHand
  /\ actions = [i \in ActionIds |-> NoAction]
  /\ actionsSaved = actions
  /\ serving = [a \in Approvals |-> NoOne]
  /\ carriedOut = [i \in ActionIds |-> 0]
  /\ unfinished = {}

-----------------------------------------------------------------------------
StagedNow(i) == actions[i] # NoAction /\ actions[i].status = "staged"
Restocks(i, l) == actions[i] # NoAction /\ actions[i].kind = "restock" /\ actions[i].listing = l
ServedBy(a) == serving[a].id
Past(a, step) == serving[a] # NoOne /\ serving[a].at = step

\* The stock of a listing changes by a sale, a return or another restock: approvals that have
\* compared it will not see that.
Noted(l, n) ==
  [a \in Approvals |->
     IF serving[a] # NoOne /\ serving[a].at = "write" /\ Restocks(ServedBy(a), l) /\ n # onHand[l]
     THEN [serving[a] EXCEPT !.blind = TRUE] ELSE serving[a]]

OrdersMove(l) ==
  /\ \E units \in {-1, 1} :
       /\ onHand[l] + units \in 0 .. MaxOnHand
       /\ inHouse[l] + units \in Stock
       /\ onHand' = [onHand EXCEPT ![l] = @ + units]
       /\ inHouse' = [inHouse EXCEPT ![l] = @ + units]
       /\ serving' = Noted(l, onHand[l] + units)
  /\ UNCHANGED <<actions, actionsSaved, carriedOut, unfinished>>

-----------------------------------------------------------------------------
\* The ledger takes the next number; after a lost file its numbers begin again.
StageAction(action) ==
  /\ \E i \in ActionIds :
       /\ actions[i] = NoAction /\ \A j \in ActionIds : j < i => actions[j] # NoAction
       /\ actions' = [actions EXCEPT ![i] = action]
       /\ carriedOut' = [carriedOut EXCEPT ![i] = 0]
       /\ unfinished' = unfinished \ {i}
  /\ UNCHANGED <<onHand, inHouse, actionsSaved, serving>>

\* stage_inventory_action: the product is read, the guardrail bounds what is added.
StageRestock(l) ==
  \E units \in Arrivals :
    /\ units <= MaxRestock /\ onHand[l] + units <= MaxOnHand
    /\ StageAction([kind |-> "restock", listing |-> l, before |-> onHand[l],
                    after |-> onHand[l] + units, status |-> "staged"])

StageCampaign == StageAction([kind |-> "campaign", status |-> "staged"])

\* The end of a merchant turn writes the file.
SaveActions ==
  /\ actionsSaved # actions
  /\ actionsSaved' = actions
  /\ UNCHANGED <<onHand, inHouse, actions, serving, carriedOut, unfinished>>

\* On the portal, where the file is written at once, or by a tool in a chat.
DiscardAction(i) ==
  /\ StagedNow(i)
  /\ actions' = [actions EXCEPT ![i].status = "discarded"]
  /\ actionsSaved' \in {actionsSaved, actions'}
  /\ UNCHANGED <<onHand, inHouse, serving, carriedOut, unfinished>>

-----------------------------------------------------------------------------
\* apply_change begins with a change that is staged; a campaign has no field to compare.
BeginApproval(a, i) ==
  /\ serving[a] = NoOne
  /\ StagedNow(i)
  /\ serving' = [serving EXCEPT ![a] =
       [at |-> IF actions[i].kind = "restock" THEN "check" ELSE "write",
        id |-> i, blind |-> FALSE]]
  /\ unfinished' = IF \E other \in Approvals : serving[other] # NoOne /\ ServedBy(other) = i
                   THEN unfinished \cup {i} ELSE unfinished
  /\ UNCHANGED <<onHand, inHouse, actions, actionsSaved, carriedOut>>

\* defect: the stock is not compared with the one the agent saw
CompareNothing(a) ==
  /\ Past(a, "check")
  /\ serving' = [serving EXCEPT ![a].at = "write"]
  /\ UNCHANGED <<onHand, inHouse, actions, actionsSaved, carriedOut, unfinished>>

\* _assert_no_drift: the stock is as the agent saw it, or its row cannot be read; or the change
\* is refused.
CompareStock(a) ==
  /\ Past(a, "check")
  /\ \/ /\ onHand[actions[ServedBy(a)].listing] = actions[ServedBy(a)].before
        /\ serving' = [serving EXCEPT ![a].at = "write"]
     \/ serving' = [serving EXCEPT ![a].at = "write", ![a].blind = TRUE]
     \/ /\ onHand[actions[ServedBy(a)].listing] # actions[ServedBy(a)].before
        /\ serving' = [serving EXCEPT ![a] = NoOne]
  /\ UNCHANGED <<onHand, inHouse, actions, actionsSaved, carriedOut, unfinished>>

\* What an approval does once its call has been answered, or the answer was lost.
AfterCall(a, calls) ==
  \/ serving' = [calls EXCEPT ![a].at = "mark"] /\ UNCHANGED unfinished
  \/ serving' = [calls EXCEPT ![a] = NoOne] /\ unfinished' = unfinished \cup {ServedBy(a)}

\* A write that cannot know what it overwrites: units moved since the comparison, the row could
\* not be read, or the change was carried out before.
Blind(a) == serving[a].blind \/ carriedOut[ServedBy(a)] > 0

\* The PATCH writes the stock as it was to be, whatever it is now.
WriteStock(a) ==
  LET i == ServedBy(a)
      l == actions[i].listing
      arriving == actions[i].after - actions[i].before
  IN  /\ Past(a, "write") /\ actions[i].kind = "restock"
      /\ onHand' = [onHand EXCEPT ![l] = actions[i].after]
      /\ inHouse' = [inHouse EXCEPT ![l] = IF Blind(a) THEN onHand'[l] ELSE @ + arriving]
      /\ carriedOut' = [carriedOut EXCEPT ![i] = IF @ < 2 THEN @ + 1 ELSE @]
      /\ AfterCall(a, Noted(l, actions[i].after))
      /\ UNCHANGED <<actions, actionsSaved>>

\* createCampaign inserts a row each time.
CreateCampaign(a) ==
  /\ Past(a, "write") /\ actions[ServedBy(a)].kind = "campaign"
  /\ carriedOut' = [carriedOut EXCEPT ![ServedBy(a)] = IF @ < 2 THEN @ + 1 ELSE @]
  /\ AfterCall(a, serving)
  /\ UNCHANGED <<onHand, inHouse, actions, actionsSaved>>

\* The call does not reach the backend: the change stays staged.
WriteFails(a) ==
  /\ Past(a, "write")
  /\ serving' = [serving EXCEPT ![a] = NoOne]
  /\ UNCHANGED <<onHand, inHouse, actions, actionsSaved, carriedOut, unfinished>>

\* defect: the portal does not write the ledger's file
MarkActionUnsaved(a) ==
  /\ Past(a, "mark")
  /\ actions' = IF StagedNow(ServedBy(a))
                THEN [actions EXCEPT ![ServedBy(a)].status = "applied"] ELSE actions
  /\ serving' = [serving EXCEPT ![a] = NoOne]
  /\ UNCHANGED <<onHand, inHouse, actionsSaved, carriedOut, unfinished>>

\* ledger.apply, and the file with it; a change resolved meanwhile is answered as an error.
MarkAction(a) ==
  /\ Past(a, "mark")
  /\ IF StagedNow(ServedBy(a))
     THEN /\ actions' = [actions EXCEPT ![ServedBy(a)].status = "applied"]
          /\ actionsSaved' = actions'
          /\ UNCHANGED unfinished
     ELSE /\ unfinished' = unfinished \cup {ServedBy(a)}
          /\ UNCHANGED <<actions, actionsSaved>>
  /\ serving' = [serving EXCEPT ![a] = NoOne]
  /\ UNCHANGED <<onHand, inHouse, carriedOut>>

\* The host stops and reads its ledger again, which it may have left torn.
LedgerRestart ==
  /\ actionsSaved' \in {actionsSaved, [i \in ActionIds |-> NoAction]}
  /\ actions' = actionsSaved'
  /\ serving' = [a \in Approvals |-> NoOne]
  /\ unfinished' = unfinished \cup {ServedBy(a) : a \in {b \in Approvals : serving[b] # NoOne}}
  /\ UNCHANGED <<onHand, inHouse, carriedOut>>

StockActionsNext ==
  \/ \E l \in Pieces : OrdersMove(l) \/ StageRestock(l)
  \/ StageCampaign \/ SaveActions \/ LedgerRestart
  \/ \E i \in ActionIds : DiscardAction(i)
  \/ \E a \in Approvals :
       \/ \E i \in ActionIds : BeginApproval(a, i)
       \/ CompareStock(a) \/ WriteStock(a) \/ CreateCampaign(a) \/ WriteFails(a) \/ MarkAction(a)

StockActionsSpec == StockActionsInit /\ [][StockActionsNext]_stockActionVars

-----------------------------------------------------------------------------
(* The stock of a listing is the units there are, though a restock overwrites it,       *)
(* unless units moved between the comparison and the write, the row could not be       *)
(* read, or the change was carried out a second time.                           *)
StockAccounted == onHand = inHouse

(* A change is carried out once, unless two approvals of it overlapped or one ended      *)
(* without the ledger learning of it; and what the ledger calls applied was done.     *)
CarriedOutOnce ==
  \A i \in ActionIds :
    /\ carriedOut[i] > 1 => i \in unfinished
    /\ actions[i] # NoAction /\ actions[i].status = "applied" => carriedOut[i] > 0

(* Approved restocks and campaigns do what they say, once.                    *)
ActionsSound == StockAccounted /\ CarriedOutOnce
=============================================================================
