------------------------------ MODULE ChatPage ------------------------------
(***************************************************************************)
(* The chat of the page /agent (useAgentChat, page.tsx) while answers stream    *)
(* in: bubbles and session id are the page's, not the turn's, and a turn writes    *)
(* into whatever bubble is last when an event of it arrives.  The customer is an   *)
(* admin, who has both tabs.  Left out are the bubbles of the customer's own     *)
(* messages, the tray of products, and the tickets of a delegation (Delegation).  *)
(*                                                                         *)
(* `send' refuses while a turn streams by the `busy' of the render it was made    *)
(* in.  The button that approves a limit keeps that `send' over its request.     *)
(***************************************************************************)
EXTENDS Integers, Sequences

CONSTANTS
  MaxChatTurns,     \* bound: messages sent
  MaxPresses        \* bound: presses of the buttons beside the message box

ChatTurns == 1 .. MaxChatTurns
ASSUME ChatAssumption ==
  /\ MaxChatTurns \in Nat /\ MaxPresses \in Nat

NoTurn == 0
Roles == {"shop", "merchant"}
Acts == {"products", "memory"}      \* what a receipt tells of

VARIABLES
  chatRole, chatBusy,
  bubbles,          \* messages: the answers, and the notices (turn NoTurn)
  sessionHeld,      \* sessionIdRef: the turn that began the session; by: the turn that set it
  chatTurn,         \* the turns sent
  toggling,         \* toggleDelegation awaits the first ticket
  forgetCall,       \* forgetSession awaits the host: the session it forgets
  limitCall,        \* approve awaits the backend: the render its `send' is of
  presses,          \* buttons pressed so far
  chatHistory       \* history: see NoChatHistory

chatVars == <<chatRole, chatBusy, bubbles, sessionHeld, chatTurn, toggling,
              forgetCall, limitCall, presses, chatHistory>>

NoSession == [id |-> NoTurn, by |-> NoTurn]
NewTurn == [pc |-> "new", role |-> "shop", session |-> NoTurn, acts |-> {}]
NoLimitCall == [pc |-> "none", busy |-> FALSE, role |-> "shop"]
NoChatHistory ==
  [crossed |-> {},      \* turns that streamed beside another
   noted |-> {},        \* turns in whose stream a notice was shown
   stray |-> {},        \* turns the page was switched or cleared under, and what followed them
   forgotten |-> {},    \* sessions that were forgotten
   stale |-> FALSE]     \* a `send' of an older render has passed the guard

Streaming == {t \in ChatTurns : chatTurn[t].pc \notin {"new", "ended", "failed", "cut"}}

ChatTypeOK ==
  /\ chatRole \in Roles /\ chatBusy \in BOOLEAN
  /\ \A k \in DOMAIN bubbles :
       bubbles[k] \in [turn : {NoTurn} \cup ChatTurns, from : SUBSET ChatTurns,
                       done : BOOLEAN, receipt : SUBSET Acts]
  /\ sessionHeld \in [id : {NoTurn} \cup ChatTurns, by : {NoTurn} \cup ChatTurns]
  /\ chatTurn \in [ChatTurns ->
       [pc : {"new", "asked", "open", "renewing", "complete", "failing", "closing",
              "ended", "failed", "cut"},
        role : Roles, session : {NoTurn} \cup ChatTurns, acts : SUBSET Acts]]
  /\ toggling \in BOOLEAN /\ forgetCall \in {NoTurn} \cup ChatTurns
  /\ limitCall \in [pc : {"none", "asked"}, busy : BOOLEAN, role : Roles]
  /\ presses \in 0 .. MaxPresses

ChatInit ==
  /\ chatRole = "shop" /\ chatBusy = FALSE
  /\ bubbles = <<>>
  /\ sessionHeld = NoSession
  /\ chatTurn = [t \in ChatTurns |-> NewTurn]
  /\ toggling = FALSE /\ forgetCall = NoTurn /\ limitCall = NoLimitCall
  /\ presses = 0
  /\ chatHistory = NoChatHistory

-----------------------------------------------------------------------------
(* Sending.                                                                *)

Press == presses < MaxPresses /\ presses' = presses + 1

Unsent(t) == chatTurn[t].pc = "new" /\ \A u \in 1 .. (t - 1) : chatTurn[u].pc # "new"

\* What `send' does behind its guard, in the role of its render; late: that render is old.
Sends(t, role, late) ==
  /\ Unsent(t)
  /\ chatBusy' = TRUE
  /\ bubbles' = Append(bubbles, [turn |-> t, from |-> {}, done |-> FALSE, receipt |-> {}])
  /\ chatTurn' = [chatTurn EXCEPT ![t] =
       [pc |-> "asked", role |-> role, acts |-> {},
        session |-> IF sessionHeld.id = NoTurn THEN t ELSE sessionHeld.id]]
  /\ chatHistory' = [chatHistory EXCEPT
       !.crossed = IF Streaming = {} THEN @ ELSE @ \cup Streaming \cup {t},
       !.stray = IF sessionHeld.by \in @ \/ role # chatRole THEN @ \cup {t} ELSE @,
       !.stale = @ \/ late]

\* defect: the guard is gone
SendAlways(t) ==
  /\ Sends(t, chatRole, FALSE)
  /\ UNCHANGED <<chatRole, sessionHeld, toggling, forgetCall, limitCall, presses>>

\* The customer writes, picks a suggestion, or has the tray compared.
Send(t) ==
  /\ ~chatBusy
  /\ Sends(t, chatRole, FALSE)
  /\ UNCHANGED <<chatRole, sessionHeld, toggling, forgetCall, limitCall, presses>>

\* The button of the shop tab asks the backend for a limit.
AskLimit ==
  /\ chatRole = "shop" /\ limitCall.pc = "none"
  /\ Press
  /\ limitCall' = [pc |-> "asked", busy |-> chatBusy, role |-> chatRole]
  /\ UNCHANGED <<chatRole, chatBusy, bubbles, sessionHeld, chatTurn, toggling,
                 forgetCall, chatHistory>>

\* onApproved: the agent is told by the `send' of the click's render, or is not.
LimitAnswered ==
  /\ limitCall.pc = "asked"
  /\ limitCall' = NoLimitCall
  /\ \/ ~limitCall.busy /\ \E t \in ChatTurns : Sends(t, limitCall.role, chatBusy)
     \/ UNCHANGED <<chatBusy, bubbles, chatTurn, chatHistory>>     \* busy then, or refused
  /\ UNCHANGED <<chatRole, sessionHeld, toggling, forgetCall, presses>>

-----------------------------------------------------------------------------
(* A turn's events.                                                        *)

\* patch: the last bubble, whosever it is, and none when there is none.
Patched(t, done, receipt) ==
  [k \in DOMAIN bubbles |->
     IF k # Len(bubbles) THEN bubbles[k]
     ELSE [bubbles[k] EXCEPT !.from = @ \cup {t}, !.done = done, !.receipt = receipt]]

LastDone == bubbles # <<>> /\ bubbles[Len(bubbles)].done
LastReceipt == IF bubbles = <<>> THEN {} ELSE bubbles[Len(bubbles)].receipt

Goes(t, pc) == chatTurn' = [chatTurn EXCEPT ![t].pc = pc]
DoesAct(t, act) == chatTurn' = [chatTurn EXCEPT ![t].acts = @ \cup {act}]

\* The host names the session before anything else.
SessionEvent(t) ==
  /\ chatTurn[t].pc = "asked"
  /\ sessionHeld' = [id |-> chatTurn[t].session, by |-> t]
  /\ Goes(t, "open")
  /\ UNCHANGED <<chatRole, chatBusy, bubbles, toggling, forgetCall, limitCall,
                 presses, chatHistory>>

\* A piece of the text.
TextEvent(t) ==
  /\ chatTurn[t].pc = "open"
  /\ bubbles' = Patched(t, LastDone, LastReceipt)
  /\ UNCHANGED <<chatRole, chatBusy, sessionHeld, chatTurn, toggling, forgetCall,
                 limitCall, presses, chatHistory>>

\* What the concierge presents, under the answer and, which is left out here, in the tray.
ProductsEvent(t) ==
  /\ chatTurn[t].pc = "open"
  /\ bubbles' = Patched(t, LastDone, LastReceipt)
  /\ DoesAct(t, "products")
  /\ UNCHANGED <<chatRole, chatBusy, sessionHeld, toggling, forgetCall, limitCall, presses,
                 chatHistory>>

\* turn_complete, and done behind what follows it: the bubble is done and has its receipt.
TurnClosed(t) ==
  /\ chatTurn[t].pc \in {"open", "complete"}
  /\ Goes(t, IF chatTurn[t].pc = "open" THEN "complete" ELSE "closing")
  /\ bubbles' = Patched(t, TRUE, chatTurn[t].acts)
  /\ UNCHANGED <<chatRole, chatBusy, sessionHeld, toggling, forgetCall, limitCall,
                 presses, chatHistory>>

\* What the host has remembered of the turn, or handed over, comes behind turn_complete.
MemoryEvent(t) ==
  /\ chatTurn[t].pc = "complete" /\ "memory" \notin chatTurn[t].acts
  /\ bubbles' = Patched(t, LastDone, LastReceipt)
  /\ DoesAct(t, "memory")
  /\ UNCHANGED <<chatRole, chatBusy, sessionHeld, toggling, forgetCall, limitCall,
                 presses, chatHistory>>

\* An error at the host ends the stream without `done'; a blocked message is closed by it.
ErrorEvent(t) ==
  /\ chatTurn[t].pc = "open"
  /\ bubbles' = Patched(t, LastDone, LastReceipt)
  /\ \/ Goes(t, "failing")
     \/ chatTurn[t].acts = {} /\ Goes(t, "complete")
  /\ UNCHANGED <<chatRole, chatBusy, sessionHeld, toggling, forgetCall, limitCall,
                 presses, chatHistory>>

\* The ticket has died in the turn: the page asks for a new one, reading no event meanwhile.
ExpiredEvent(t) ==
  /\ chatTurn[t].pc = "open" /\ chatTurn[t].role = "shop"
  /\ Goes(t, "renewing")
  /\ UNCHANGED <<chatRole, chatBusy, bubbles, sessionHeld, toggling, forgetCall,
                 limitCall, presses, chatHistory>>

\* Renewed or not, the bubble is closed; there is no receipt.
RenewalAnswered(t) ==
  /\ chatTurn[t].pc = "renewing"
  /\ bubbles' = Patched(t, TRUE, LastReceipt)
  /\ Goes(t, "failing")
  /\ UNCHANGED <<chatRole, chatBusy, sessionHeld, toggling, forgetCall, limitCall,
                 presses, chatHistory>>

\* The stream ends: another turn may be sent.
StreamEnds(t) ==
  /\ chatTurn[t].pc \in {"closing", "failing"}
  /\ Goes(t, IF chatTurn[t].pc = "closing" THEN "ended" ELSE "failed")
  /\ chatBusy' = FALSE
  /\ UNCHANGED <<chatRole, bubbles, sessionHeld, toggling, forgetCall, limitCall,
                 presses, chatHistory>>

\* The host cannot be reached, refuses, or the connection breaks: what was done is receipted.
StreamBreaks(t) ==
  /\ chatTurn[t].pc \in {"asked", "open", "complete", "closing", "failing"}
  /\ bubbles' = Patched(t, TRUE, chatTurn[t].acts)
  /\ Goes(t, "cut")
  /\ chatBusy' = FALSE
  /\ UNCHANGED <<chatRole, sessionHeld, toggling, forgetCall, limitCall, presses,
                 chatHistory>>

-----------------------------------------------------------------------------
(* The page's other buttons.                                               *)

Strays == [chatHistory EXCEPT !.stray = @ \cup Streaming]

\* A tab is clicked, be it the one shown.
SwitchRole(role) ==
  /\ Press
  /\ chatRole' = role
  /\ bubbles' = <<>>
  /\ sessionHeld' = NoSession
  /\ chatHistory' = Strays
  /\ UNCHANGED <<chatBusy, chatTurn, toggling, forgetCall, limitCall>>

\* The customer wants the concierge to act for them.
AskDelegation ==
  /\ chatRole = "shop" /\ ~toggling
  /\ Press
  /\ toggling' = TRUE
  /\ UNCHANGED <<chatRole, chatBusy, bubbles, sessionHeld, chatTurn, forgetCall,
                 limitCall, chatHistory>>

\* A refusal is shown as a bubble of its own, in the middle of a stream too.
DelegationAnswered ==
  /\ toggling
  /\ toggling' = FALSE
  /\ \/ UNCHANGED <<bubbles, chatHistory>>
     \/ /\ bubbles' = Append(bubbles,
             [turn |-> NoTurn, from |-> {}, done |-> TRUE, receipt |-> {}])
        /\ chatHistory' = [chatHistory EXCEPT !.noted = @ \cup Streaming]
  /\ UNCHANGED <<chatRole, chatBusy, sessionHeld, chatTurn, forgetCall, limitCall,
                 presses>>

AskForget ==
  /\ chatRole = "shop" /\ sessionHeld.id # NoTurn /\ ~chatBusy /\ forgetCall = NoTurn
  /\ Press
  /\ forgetCall' = sessionHeld.id
  /\ UNCHANGED <<chatRole, chatBusy, bubbles, sessionHeld, chatTurn, toggling,
                 limitCall, chatHistory>>

\* The host has forgotten; the page clears whatever it shows by now.  Or it has not.
ForgetAnswered ==
  /\ forgetCall # NoTurn
  /\ forgetCall' = NoTurn
  /\ \/ /\ sessionHeld' = NoSession /\ bubbles' = <<>>
        /\ chatHistory' = [Strays EXCEPT !.forgotten = @ \cup {forgetCall}]
     \/ UNCHANGED <<sessionHeld, bubbles, chatHistory>>
  /\ UNCHANGED <<chatRole, chatBusy, chatTurn, toggling, limitCall, presses>>

ChatNext ==
  \/ \E t \in ChatTurns :
       \/ Send(t) \/ SessionEvent(t) \/ TextEvent(t) \/ ProductsEvent(t) \/ MemoryEvent(t)
       \/ TurnClosed(t) \/ ErrorEvent(t) \/ ExpiredEvent(t) \/ RenewalAnswered(t)
       \/ StreamEnds(t) \/ StreamBreaks(t)
  \/ AskLimit \/ LimitAnswered
  \/ \E role \in Roles : SwitchRole(role)
  \/ AskDelegation \/ DelegationAnswered \/ AskForget \/ ForgetAnswered

ChatSpec == ChatInit /\ [][ChatNext]_chatVars

-----------------------------------------------------------------------------
(* An answer holds events of its own turn only, but for turns that streamed       *)
(* beside one another, and only a limit's message sent by an older render makes    *)
(* them do so.                                                             *)
AnswersApart ==
  /\ \A k \in DOMAIN bubbles : bubbles[k].turn # NoTurn =>
       bubbles[k].from \subseteq {bubbles[k].turn} \cup chatHistory.crossed
  /\ chatHistory.crossed # {} => chatHistory.stale

(* Once its turn has ended, an answer tells all the turn has done, unless another  *)
(* turn or a notice came between; only a turn that failed at the host may leave     *)
(* it open.                                                                *)
AnswersClosed ==
  \A k \in DOMAIN bubbles :
    LET t == bubbles[k].turn IN
    t # NoTurn /\ t \notin chatHistory.crossed \cup chatHistory.noted =>
      /\ chatTurn[t].pc \in {"ended", "cut"} =>
           bubbles[k].done /\ bubbles[k].receipt = chatTurn[t].acts
      /\ ~bubbles[k].done => t \in Streaming \/ chatTurn[t].pc = "failed"

(* The session of the page is one of its tab and not a forgotten one, unless a     *)
(* turn set it that the page was switched or cleared under.                    *)
SessionFits ==
  sessionHeld.id # NoTurn /\ sessionHeld.by \notin chatHistory.stray =>
    /\ chatTurn[sessionHeld.id].role = chatRole
    /\ sessionHeld.id \notin chatHistory.forgotten

(* What the page keeps of each turn.                                       *)
ChatSound == AnswersApart /\ AnswersClosed /\ SessionFits
=============================================================================
