----------------------------- MODULE Inquiries -----------------------------
(***************************************************************************)
(* The forms by which visitors leave word (SalonForm, the bespoke dossier, the newsletter   *)
(* of the footer) and what becomes of it: POST /inquiries asks Jev whether it is spam,      *)
(* stores it and has the concierge told; POST /newsletter stores an address.            *)
(*                                                                         *)
(* The page's calls fail and answers are lost; so do calls of Jev and of the database; the   *)
(* backend may stop.  What is queued for the concierge goes its way in NotifyQueue.        *)
(***************************************************************************)
EXTENDS Integers, Sequences

CONSTANTS
  Forms,            \* the forms a visitor has open, of these kinds:
  Dossiers,         \* those that POST /inquiries (the others: /newsletter)
  Texts,            \* what may be written in a form; of the newsletter: addresses
  NoText,           \* a form without what it requires
  MaxSendings,       \* bound: times a form is sent
  MaxOutages        \* bound: stops of the backend

ASSUME InquiriesAssumption ==
  /\ Dossiers \subseteq Forms /\ NoText \notin Texts
  /\ MaxSendings \in Nat \ {0} /\ MaxOutages \in Nat

VARIABLES
  formText,         \* what each form says
  formState,        \* "idle", "sending", "done" or "error", as the page shows it
  sendings,         \* the requests in order, each with how far the handler is
  inquiries,        \* rows: the request each came with, and its status
  subscribers,      \* newsletterSubscriber, by address
  conciergeTold,    \* requests queued for the concierge, and for the visitor who left an address
  brokenOff,        \* history: requests with a row that were broken off before the telling
  outages

inquiryVars == <<formText, formState, sendings, inquiries, subscribers, conciergeTold,
                 brokenOff, outages>>

Sending == [form : Forms, text : Texts, answer : {"none", "ok", "failed"}, lost : BOOLEAN,
            pc : {"sent", "asking", "storing", "stored", "over"},
            verdict : {"none", "spam", "fine"}]

InquiriesTypeOK ==
  /\ formText \in [Forms -> Texts \cup {NoText}]
  /\ formState \in [Forms -> {"idle", "sending", "done", "error"}]
  /\ DOMAIN sendings \subseteq 1 .. MaxSendings /\ \A r \in DOMAIN sendings : sendings[r] \in Sending
  /\ inquiries \subseteq [of : DOMAIN sendings, status : {"NEW", "SPAM"}]
  /\ subscribers \subseteq Texts
  /\ conciergeTold \cup brokenOff \subseteq DOMAIN sendings
  /\ outages \in 0 .. MaxOutages

InquiriesInit ==
  /\ formText = [f \in Forms |-> NoText] /\ formState = [f \in Forms |-> "idle"]
  /\ sendings = <<>>
  /\ inquiries = {} /\ subscribers = {} /\ conciergeTold = {}
  /\ brokenOff = {} /\ outages = 0

-----------------------------------------------------------------------------
pageVars == <<formText, formState>>
rowVars == <<inquiries, subscribers>>
faultVars == <<brokenOff, outages>>

\* The fields stay open while a form is being sent.
Write(f, text) ==
  /\ formState[f] # "done" /\ formText[f] # text
  /\ formText' = [formText EXCEPT ![f] = text]
  /\ formState' = IF f \notin Dossiers /\ formState[f] = "error"
                  THEN [formState EXCEPT ![f] = "idle"] ELSE formState
  /\ UNCHANGED <<sendings, rowVars, conciergeTold, faultVars>>

LeaveWord(f) ==
  /\ Len(sendings) < MaxSendings
  /\ formText[f] # NoText
  /\ formState' = [formState EXCEPT ![f] = "sending"]
  /\ sendings' = Append(sendings, [form |-> f, text |-> formText[f], answer |-> "none",
                                   lost |-> FALSE, pc |-> "sent", verdict |-> "none"])
  /\ UNCHANGED <<formText, rowVars, conciergeTold, faultVars>>

\* defect: the button works while the form is being sent
PressAtOnce(f) == formState[f] # "done" /\ LeaveWord(f)

\* The button, which is disabled while the form is being sent.
PressSubmit(f) == formState[f] \in {"idle", "error"} /\ LeaveWord(f)

PressIncomplete(f) ==
  /\ formState[f] \in {"idle", "error"} /\ formText[f] = NoText
  /\ formState' = [formState EXCEPT ![f] = "error"]
  /\ UNCHANGED <<formText, sendings, rowVars, conciergeTold, faultVars>>

-----------------------------------------------------------------------------
At(r, pc) == sendings[r].pc = pc

Over(r, answer) == sendings' = [sendings EXCEPT ![r].pc = "over", ![r].answer = answer]

\* Throttled, or refused by a guard or for what it says.
Refused(r) ==
  /\ At(r, "sent") /\ Over(r, "failed")
  /\ UNCHANGED <<pageVars, rowVars, conciergeTold, faultVars>>

\* create: Jev is asked first.
Arrives(r) ==
  /\ At(r, "sent") /\ sendings[r].form \in Dossiers
  /\ sendings' = [sendings EXCEPT ![r].pc = "asking"]
  /\ UNCHANGED <<pageVars, rowVars, conciergeTold, faultVars>>

\* triageInquiry: the answer of Jev; none if it is off, fails, says nothing to read, or is late.
Judged(r) ==
  /\ At(r, "asking")
  /\ \E verdict \in {"none", "spam", "fine"} :
       sendings' = [sendings EXCEPT ![r].pc = "storing", ![r].verdict = verdict]
  /\ UNCHANGED <<pageVars, rowVars, conciergeTold, faultVars>>

\* defect: what Jev could not judge is taken for spam
IsSpamUnlessFine(r) == sendings[r].verdict # "fine"

IsSpam(r) == sendings[r].verdict = "spam"

StoreInquiry(r) ==
  /\ At(r, "storing")
  /\ inquiries' = inquiries \cup {[of |-> r, status |-> IF IsSpam(r) THEN "SPAM" ELSE "NEW"]}
  /\ sendings' = [sendings EXCEPT ![r].pc = "stored"]
  /\ UNCHANGED <<pageVars, subscribers, conciergeTold, faultVars>>

\* The database fails; the row may be there all the same.
StoreFails(r) ==
  /\ At(r, "storing") /\ Over(r, "failed")
  /\ \/ inquiries' = inquiries \cup {[of |-> r, status |-> IF IsSpam(r) THEN "SPAM" ELSE "NEW"]}
        /\ brokenOff' = brokenOff \cup {r}
     \/ UNCHANGED <<inquiries, brokenOff>>
  /\ UNCHANGED <<pageVars, subscribers, conciergeTold, outages>>

\* The row is there: unless it is spam the concierge is told.
TellConcierge(r) ==
  /\ At(r, "stored") /\ Over(r, "ok")
  /\ conciergeTold' = IF IsSpam(r) THEN conciergeTold ELSE conciergeTold \cup {r}
  /\ UNCHANGED <<pageVars, rowVars, faultVars>>

\* subscribe: an address that is known already stays as it is; or the database fails.
Subscribe(r) ==
  /\ At(r, "sent") /\ sendings[r].form \notin Dossiers
  /\ \/ subscribers' = subscribers \cup {sendings[r].text} /\ Over(r, "ok")
     \/ UNCHANGED subscribers /\ Over(r, "failed")
  /\ UNCHANGED <<pageVars, inquiries, conciergeTold, faultVars>>

-----------------------------------------------------------------------------
\* The request a form waits for, which is its last one.
Awaits(f, r) ==
  /\ formState[f] = "sending" /\ sendings[r].form = f
  /\ \A later \in (r + 1) .. Len(sendings) : sendings[later].form # f

AnswerComes(f, r) ==
  /\ Awaits(f, r) /\ At(r, "over")
  /\ formState' = [formState EXCEPT ![f] = IF sendings[r].answer = "ok" THEN "done" ELSE "error"]
  /\ UNCHANGED <<formText, sendings, rowVars, conciergeTold, faultVars>>

\* The connection breaks; the handler goes on.
AnswerIsLost(f, r) ==
  /\ Awaits(f, r)
  /\ formState' = [formState EXCEPT ![f] = "error"]
  /\ sendings' = [sendings EXCEPT ![r].lost = TRUE]
  /\ UNCHANGED <<formText, rowVars, conciergeTold, faultVars>>

Outage ==
  /\ outages < MaxOutages /\ outages' = outages + 1
  /\ brokenOff' = brokenOff \cup {r \in DOMAIN sendings : At(r, "stored")}
  /\ sendings' = [r \in DOMAIN sendings |->
       IF At(r, "over") THEN sendings[r] ELSE [sendings[r] EXCEPT !.pc = "over", !.answer = "failed"]]
  /\ UNCHANGED <<pageVars, rowVars, conciergeTold>>

InquiriesNext ==
  \/ \E f \in Forms :
       \/ PressSubmit(f) \/ PressIncomplete(f)
       \/ \E text \in Texts \cup {NoText} : Write(f, text)
       \/ \E r \in DOMAIN sendings : AnswerComes(f, r) \/ AnswerIsLost(f, r)
  \/ \E r \in DOMAIN sendings :
       \/ Refused(r) \/ Arrives(r) \/ Judged(r) \/ StoreInquiry(r) \/ StoreFails(r)
       \/ TellConcierge(r) \/ Subscribe(r)
  \/ Outage

InquiriesSpec == InquiriesInit /\ [][InquiriesNext]_inquiryVars

-----------------------------------------------------------------------------
(* Whoever is thanked has left word: what the form said when it was sent is stored, and     *)
(* the concierge knows unless Jev was sure that it is spam, whatever fails on the way.        *)
ThankedIsKept ==
  \A f \in Forms : formState[f] = "done" =>
    \E r \in DOMAIN sendings :
      /\ sendings[r].form = f
      /\ IF f \in Dossiers
         THEN /\ \E row \in inquiries : row.of = r
              /\ r \in conciergeTold \/ sendings[r].verdict = "spam"
         ELSE sendings[r].text \in subscribers

(* Every new inquiry comes to the concierge, or is about to, unless the handler was broken     *)
(* off before it was queued; and nobody hears of an inquiry that is spam or not stored.                *)
NewIsTold ==
  /\ \A row \in inquiries : row.status = "NEW" =>
       row.of \in conciergeTold \cup brokenOff \/ At(row.of, "stored")
  /\ \A r \in conciergeTold : [of |-> r, status |-> "NEW"] \in inquiries

(* Nobody's word is stored twice, except for one who has seen an error.                 *)
StoredOnce ==
  \A r, s \in {row.of : row \in inquiries} :
    r < s /\ sendings[r].form = sendings[s].form =>
      sendings[r].lost \/ sendings[r].answer = "failed"

(* The visitors' forms keep what they promise.                                  *)
FormsSound == ThankedIsKept /\ NewIsTold /\ StoredOnce
=============================================================================
