------------------------------- MODULE Invoices -------------------------------
(***************************************************************************)
(* The electronic invoice of one paid order: the row that the payment            *)
(* callbacks make, the invoices the provider (the tax portal) really drew up     *)
(* for it, and the accountants who settle it by hand from /admin/invoices.       *)
(*                                                                               *)
(* The database has one row per order; the provider knows nothing of rows and    *)
(* draws up an invoice at each call.  issueViaProvider reads the row, calls the   *)
(* provider and writes the row: three steps.  So are the page an accountant       *)
(* looks at, the read of setInvoiceStatus and its write.                          *)
(***************************************************************************)
EXTENDS Integers

CONSTANTS
  InvCallbacks,  \* callbacks of paid links that reach ensureForOrder
  Clerks,        \* accountants, each with the page open
  MaxLegal       \* bound: invoices the provider draws up

ASSUME InvoicesAssumption == InvCallbacks \cap Clerks = {} /\ MaxLegal \in Nat \ {0}

NoNumber == 0
IssueCallers == InvCallbacks \cup Clerks

VARIABLES
  provider,  \* EINVOICE_* is configured (read from the environment)
  invoiceRow,\* the Invoice row: its status ("none": no row) and number
  legal,     \* invoices drawn up at the provider, numbered 1..legal
  ensuring,  \* ensureForOrder of each callback
  issuing,   \* issueViaProvider of each caller: where it is, the number it got
  clerk,     \* each accountant: status rendered, what was pressed, number in hand
  excused    \* (history) something happened that can cost a second invoice

invoiceVars == <<provider, invoiceRow, legal, ensuring, issuing, clerk, excused>>

InvoiceStatus == {"none", "PENDING_ISSUE", "ISSUED", "FAILED"}
NotIssuing == [pc |-> "idle", num |-> NoNumber]
NewPage == [pc |-> "loading", shown |-> "none", num |-> NoNumber, to |-> "none"]

InvoiceTypeOK ==
  /\ provider \in BOOLEAN /\ excused \in BOOLEAN
  /\ invoiceRow \in [status : InvoiceStatus, number : 0..MaxLegal]
  /\ legal \in 0..MaxLegal
  /\ ensuring \in [InvCallbacks -> {"idle", "absent", "issue", "done"}]
  /\ issuing \in [IssueCallers -> [pc : {"idle", "begin", "asked", "drawn"},
                                   num : 0..MaxLegal]]
  /\ clerk \in [Clerks -> [pc : {"loading", "open", "retry", "issue", "mark", "write"},
                           shown : InvoiceStatus, num : 0..MaxLegal,
                           to : {"none", "ISSUED", "FAILED"}]]

InvoiceInit ==
  /\ provider \in BOOLEAN
  /\ invoiceRow = [status |-> "none", number |-> NoNumber]
  /\ legal = 0
  /\ ensuring = [c \in InvCallbacks |-> "idle"]
  /\ issuing = [c \in IssueCallers |-> NotIssuing]
  /\ clerk = [k \in Clerks |-> NewPage]
  /\ excused = FALSE

-----------------------------------------------------------------------------
(* ensureForOrder                                                              *)

FindInvoice(c) ==
  /\ ensuring[c] = "idle"
  /\ ensuring' = [ensuring EXCEPT ![c] =
                    IF invoiceRow.status = "none" THEN "absent" ELSE "done"]
  /\ UNCHANGED <<provider, invoiceRow, legal, issuing, clerk, excused>>

(* The order code is unique: the second of two creations throws, notifyPaid      *)
(* catches it.                                                                   *)
CreateInvoice(c) ==
  /\ ensuring[c] = "absent"
  /\ LET made == invoiceRow.status = "none"
         issue == made /\ provider
     IN /\ invoiceRow' = IF made THEN [status |-> "PENDING_ISSUE", number |-> NoNumber]
                                 ELSE invoiceRow
        /\ ensuring' = [ensuring EXCEPT ![c] = IF issue THEN "issue" ELSE "done"]
        /\ issuing' = IF issue THEN [issuing EXCEPT ![c].pc = "begin"] ELSE issuing
  /\ UNCHANGED <<provider, legal, clerk, excused>>

-----------------------------------------------------------------------------
(* issueViaProvider                                                            *)

InHand == \E k \in Clerks : clerk[k].num # NoNumber
IssueUnderWay == \E c \in IssueCallers : issuing[c].pc \in {"asked", "drawn"}

\* The call is over: a callback is done, an accountant's page is loaded anew.
IssueEnds(c) ==
  /\ issuing' = [issuing EXCEPT ![c] = NotIssuing]
  /\ ensuring' = IF c \in InvCallbacks THEN [ensuring EXCEPT ![c] = "done"] ELSE ensuring
  /\ clerk' = IF c \in Clerks THEN [clerk EXCEPT ![c].pc = "loading"] ELSE clerk

BeginIssueBlind(c) ==     \* defect: the row is not looked at again
  /\ issuing[c].pc = "begin"
  /\ issuing' = [issuing EXCEPT ![c].pc = "asked"]
  /\ excused' = (excused \/ IssueUnderWay \/ InHand)
  /\ UNCHANGED <<provider, invoiceRow, legal, ensuring, clerk>>
BeginIssue(c) ==
  /\ issuing[c].pc = "begin"
  /\ \/ /\ invoiceRow.status = "ISSUED"
        /\ IssueEnds(c)
        /\ UNCHANGED excused
     \/ /\ invoiceRow.status # "ISSUED"
        /\ issuing' = [issuing EXCEPT ![c].pc = "asked"]
        /\ excused' = (excused \/ IssueUnderWay \/ InHand)
        /\ UNCHANGED <<ensuring, clerk>>
  /\ UNCHANGED <<provider, invoiceRow, legal>>

(* The provider draws up an invoice; it does not know of earlier ones.           *)
ProviderDraws(c) ==
  /\ issuing[c].pc = "asked" /\ provider /\ legal < MaxLegal
  /\ legal' = legal + 1
  /\ issuing' = [issuing EXCEPT ![c] = [pc |-> "drawn", num |-> legal + 1]]
  /\ UNCHANGED <<provider, invoiceRow, ensuring, clerk, excused>>

(* It refuses, cannot be reached, or is not configured: the error is caught.     *)
ProviderFails(c) ==
  /\ issuing[c].pc = "asked"
  /\ IssueEnds(c)
  /\ UNCHANGED <<provider, invoiceRow, legal, excused>>

(* The answer, which may come without the number, is written over whatever the   *)
(* row has become.                                                               *)
RecordIssued(c) ==
  /\ issuing[c].pc = "drawn"
  /\ \E n \in {issuing[c].num, NoNumber} :
       invoiceRow' = [status |-> "ISSUED", number |-> n]
  /\ IssueEnds(c)
  /\ UNCHANGED <<provider, legal, excused>>

(* The answer is lost, not understood, or its write fails: caught as well.       *)
AnswerLost(c) ==
  /\ issuing[c].pc = "drawn"
  /\ IssueEnds(c)
  /\ excused' = TRUE
  /\ UNCHANGED <<provider, invoiceRow, legal>>

-----------------------------------------------------------------------------
(* The accountant's page                                                       *)

\* The actions are rendered for an invoice that is not ISSUED.
Offered(k) == clerk[k].pc = "open" /\ clerk[k].shown # "ISSUED"

LoadPage(k) ==
  /\ clerk[k].pc \in {"loading", "open"} /\ invoiceRow.status # "none"
  /\ clerk' = [clerk EXCEPT ![k].pc = "open", ![k].shown = invoiceRow.status]
  /\ UNCHANGED <<provider, invoiceRow, legal, ensuring, issuing, excused>>

(* At the provider's portal she finds the order's invoice, or draws one up.      *)
UsePortal(k) ==
  /\ Offered(k) /\ clerk[k].num = NoNumber
  /\ legal' = IF legal = 0 THEN 1 ELSE legal
  /\ clerk' = [clerk EXCEPT ![k].num = legal']
  /\ excused' = (excused \/ (legal = 0 /\ \E c \in IssueCallers : issuing[c].pc = "asked"))
  /\ UNCHANGED <<provider, invoiceRow, ensuring, issuing>>

PressRetry(k) ==
  /\ Offered(k) /\ clerk[k].shown = "FAILED"
  /\ clerk' = [clerk EXCEPT ![k].pc = "retry"]
  /\ UNCHANGED <<provider, invoiceRow, legal, ensuring, issuing, excused>>

PressMark(k) ==
  /\ Offered(k)
  /\ \E to \in {"ISSUED", "FAILED"} :
       /\ to = "ISSUED" => clerk[k].num # NoNumber
       /\ clerk' = [clerk EXCEPT ![k].pc = "mark", ![k].to = to]
  /\ UNCHANGED <<provider, invoiceRow, legal, ensuring, issuing, excused>>

(* retryInvoice has a look of its own before issueViaProvider has.               *)
RetryInvoice(k) ==
  /\ clerk[k].pc = "retry"
  /\ IF invoiceRow.status = "ISSUED"
       THEN clerk' = [clerk EXCEPT ![k].pc = "loading"] /\ UNCHANGED issuing
       ELSE /\ clerk' = [clerk EXCEPT ![k].pc = "issue"]
            /\ issuing' = [issuing EXCEPT ![k].pc = "begin"]
  /\ UNCHANGED <<provider, invoiceRow, legal, ensuring, excused>>

(* setInvoiceStatus finds the row; ISSUED over ISSUED leaves it as it is.        *)
MarkReads(k) ==
  /\ clerk[k].pc = "mark"
  /\ clerk' = [clerk EXCEPT ![k] =
                 IF invoiceRow.status = "ISSUED" /\ @.to = "ISSUED"
                   THEN NewPage ELSE [@ EXCEPT !.pc = "write"]]
  /\ UNCHANGED <<provider, invoiceRow, legal, ensuring, issuing, excused>>

(* ... and writes the status and the number it was sent: none with FAILED.       *)
MarkWrites(k) ==
  /\ clerk[k].pc = "write"
  /\ invoiceRow' = [status |-> clerk[k].to,
                    number |-> IF clerk[k].to = "ISSUED" THEN clerk[k].num ELSE NoNumber]
  /\ clerk' = [clerk EXCEPT ![k] = NewPage]
  /\ excused' = (excused \/ (clerk[k].to = "FAILED" /\ (legal > 0 \/ IssueUnderWay)))
  /\ UNCHANGED <<provider, legal, ensuring, issuing>>

InvoiceNext ==
  \/ \E c \in InvCallbacks : FindInvoice(c) \/ CreateInvoice(c)
  \/ \E c \in IssueCallers : \/ BeginIssue(c) \/ ProviderDraws(c) \/ ProviderFails(c)
                             \/ RecordIssued(c) \/ AnswerLost(c)
  \/ \E k \in Clerks : \/ LoadPage(k) \/ UsePortal(k) \/ PressRetry(k) \/ PressMark(k)
                       \/ RetryInvoice(k) \/ MarkReads(k) \/ MarkWrites(k)

InvoiceSpec == InvoiceInit /\ [][InvoiceNext]_invoiceVars

-----------------------------------------------------------------------------
(* A second legal invoice for one order has one of these causes, and no other:   *)
(* two issues overlapped, an answer was lost, or an invoice that exists, or is    *)
(* being drawn up, was marked rejected (excused records them).  The check of     *)
(* ISSUED at the head of issueViaProvider keeps every other order of callbacks,   *)
(* retries and hand marks to a single one.                                       *)
OneLegalInvoice == legal > 1 => excused

(* Without such a cause nothing drawn up gets lost either: when no issue is       *)
(* under way and no accountant holds a number, the row of an order that has an    *)
(* invoice says so.                                                              *)
DrawnIsRecorded ==
  legal > 0 /\ ~excused /\ ~IssueUnderWay /\ ~InHand => invoiceRow.status = "ISSUED"

(* Whatever happened, the number on the row is one the provider gave out, and a   *)
(* row is ISSUED only over an invoice that exists.                               *)
NumberWasDrawn ==
  /\ invoiceRow.number <= legal
  /\ invoiceRow.status = "ISSUED" => legal > 0

(* The invoice of an order, as a whole: the three above.                         *)
InvoiceSound == OneLegalInvoice /\ DrawnIsRecorded /\ NumberWasDrawn
=============================================================================
