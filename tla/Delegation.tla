----------------------------- MODULE Delegation -----------------------------
(***************************************************************************)
(* "Act on my behalf": the chat page holds a delegation ticket and renews it  *)
(* with a timer and when a turn reports it expired; the backend issues and     *)
(* rotates tickets under the account's tokenVersion, which a sign-out or a     *)
(* new password raises.  What the host does with a ticket is in HostTurns.     *)
(*                                                                         *)
(* One account, one chat page.  A request of the page is followed from the     *)
(* moment it is sent: the backend checks it, later rotates and issues, and the  *)
(* answer, or its loss, arrives later still.  The timer may fire at any time    *)
(* while it is armed and a turn may find its ticket expired at any time: only    *)
(* their order matters here.                                               *)
(***************************************************************************)
CONSTANTS
  Tickets,          \* bound: tickets that exist at one time; a name is used again
  NoTicket

ASSUME DelegationAssumption == NoTicket \notin Tickets

VARIABLES
  cookieAlive,      \* the browser's session cookie is of the account's tokenVersion
  ticket,           \* what is left of each ticket at the backend
  actAsMe,          \* the switch as the page shows it
  delegationRef,    \* the ticket the page sends along
  timerArmed,       \* delegationTimerRef
  request,          \* the page's request of each kind that is under way
  chatting          \* busy: a turn is streaming

backendVars == <<cookieAlive, ticket>>
pageVars == <<actAsMe, delegationRef, timerArmed>>
delegationVars == <<backendVars, pageVars, request, chatting>>

MaybeTicket == Tickets \cup {NoTicket}

\* current: issued under the account's tokenVersion; row: its DelegationKey exists.  A
\* version is only ever compared with the account's, which a sign-out moves on.  Its thirty
\* minutes decide only when the timer or a turn asks for the next ticket.
Ticket == [current : BOOLEAN, row : BOOLEAN]
Unused == [current |-> FALSE, row |-> FALSE]

\* Why a request is made: the switch, the timer, or a turn that found the ticket expired.
Kinds == {"issue", "timer", "turn"}
NoRequest == [state |-> "none"]
Request ==
  [state : {"sent", "checked", "granted", "refused"},
   ticket : MaybeTicket,     \* the old ticket, and once granted the new one
   alive : BOOLEAN,          \* it carries a cookie of the account's tokenVersion
   on : BOOLEAN]             \* history: sent with the switch on, and it has stayed on since

DelegationTypeOK ==
  /\ cookieAlive \in BOOLEAN
  /\ ticket \in [Tickets -> Ticket]
  /\ actAsMe \in BOOLEAN
  /\ delegationRef \in MaybeTicket
  /\ timerArmed \in BOOLEAN
  /\ request \in [Kinds -> Request \cup {NoRequest}]
  /\ chatting \in BOOLEAN

DelegationInit ==
  /\ cookieAlive = TRUE
  /\ ticket = [t \in Tickets |-> Unused]
  /\ actAsMe = FALSE
  /\ delegationRef = NoTicket
  /\ timerArmed = FALSE
  /\ request = [k \in Kinds |-> NoRequest]
  /\ chatting = FALSE

-----------------------------------------------------------------------------
(* The backend.                                                            *)

\* A name is free again when nobody holds its ticket: what is left of it is out of reach.
HeldTicket(t) ==
  \/ t = delegationRef
  \/ \E k \in Kinds : request[k] # NoRequest /\ t = request[k].ticket

\* defect: the cookie is not looked at, the ticket speaks for itself
AcceptableWithoutCookie(k) ==
  request[k].ticket # NoTicket => ticket[request[k].ticket].row

\* SessionOnlyGuard; for a refresh also the row of the old ticket and its version.
Acceptable(k) ==
  /\ request[k].alive
  /\ request[k].ticket # NoTicket => ticket[request[k].ticket] = [current |-> TRUE, row |-> TRUE]

\* A refusal has other causes too: the throttle, a failing query, a row a day old.
CheckRequest(k) ==
  /\ request[k].state = "sent"
  /\ \E state \in {"refused"} \cup (IF Acceptable(k) THEN {"checked"} ELSE {}) :
       request' = [request EXCEPT ![k].state = state, ![k].alive = FALSE]
  /\ UNCHANGED <<backendVars, pageVars, chatting>>

\* Rotate: the old row is deleted, whether or not another refresh was faster, and a new
\* ticket is issued under the version the account has by now.
GrantRequest(k) ==
  /\ request[k].state = "checked"
  /\ \E t \in Tickets : ~HeldTicket(t)
  /\ LET new == CHOOSE t \in Tickets : ~HeldTicket(t)
     IN /\ ticket' = [t \in Tickets |->
             CASE t = new -> [current |-> TRUE, row |-> TRUE]
               [] t # new /\ HeldTicket(t) ->
                    [ticket[t] EXCEPT !.row = @ /\ t # request[k].ticket]
               [] OTHER -> Unused]
        /\ request' = [request EXCEPT ![k].state = "granted", ![k].ticket = new]
  /\ UNCHANGED <<cookieAlive, pageVars, chatting>>

\* revokeSessions or changePassword, from this browser or another: tokenVersion moves on.
SignOut ==
  /\ cookieAlive' = FALSE
  /\ ticket' = [t \in Tickets |-> [ticket[t] EXCEPT !.current = FALSE]]
  /\ request' = [k \in Kinds |->
       IF request[k] = NoRequest THEN NoRequest ELSE [request[k] EXCEPT !.alive = FALSE]]
  /\ UNCHANGED <<pageVars, chatting>>

SignIn ==
  /\ cookieAlive' = TRUE
  /\ UNCHANGED <<ticket, pageVars, request, chatting>>

-----------------------------------------------------------------------------
(* The page.                                                               *)

\* Bound: one request of each kind at a time.
Send(k, old) ==
  /\ request[k] = NoRequest
  /\ request' = [request EXCEPT ![k] =
       [state |-> "sent", ticket |-> old, alive |-> cookieAlive, on |-> actAsMe]]

\* What is under way when the switch goes off.
Overtaken == [k \in Kinds |->
  IF request[k] = NoRequest THEN NoRequest ELSE [request[k] EXCEPT !.on = FALSE]]

SwitchOn ==
  /\ ~actAsMe
  /\ Send("issue", NoTicket)
  /\ UNCHANGED <<backendVars, pageVars, chatting>>

\* defect: the ticket is kept when the switch is turned off
SwitchOffKeeping ==
  /\ actAsMe
  /\ actAsMe' = FALSE
  /\ timerArmed' = FALSE
  /\ request' = Overtaken
  /\ UNCHANGED <<backendVars, delegationRef, chatting>>

SwitchOff ==
  /\ actAsMe
  /\ actAsMe' = FALSE
  /\ delegationRef' = NoTicket
  /\ timerArmed' = FALSE
  /\ request' = Overtaken
  /\ UNCHANGED <<backendVars, chatting>>

\* The timer fires: without a ticket there is nothing to renew.
RefreshTimer ==
  /\ timerArmed
  /\ timerArmed' = FALSE
  /\ IF delegationRef = NoTicket THEN UNCHANGED request ELSE Send("timer", delegationRef)
  /\ UNCHANGED <<backendVars, actAsMe, delegationRef, chatting>>

\* The answer to a request, or its loss, has been dealt with; a turn waits for its own.
Over(k) ==
  /\ request' = [request EXCEPT ![k] = NoRequest]
  /\ chatting' = (chatting /\ k # "turn")

\* Delegation is given up, whatever else is under way.
GiveUp(k) ==
  /\ actAsMe' = FALSE
  /\ delegationRef' = NoTicket
  /\ request' = [Overtaken EXCEPT ![k] = NoRequest]
  /\ chatting' = (chatting /\ k # "turn")

\* defect: the ticket that answers an expired turn is used without a new timer
TakeTicketUnarmed(k) ==
  /\ request[k].state = "granted"
  /\ delegationRef' = request[k].ticket
  /\ timerArmed' = (timerArmed \/ k # "turn")
  /\ actAsMe' = (actAsMe \/ k = "issue")
  /\ Over(k)
  /\ UNCHANGED backendVars

\* A ticket arrives: it is kept and the timer armed anew; only a first issue sets the switch.
TakeTicket(k) ==
  /\ request[k].state = "granted"
  /\ delegationRef' = request[k].ticket
  /\ timerArmed' = TRUE
  /\ actAsMe' = (actAsMe \/ k = "issue")
  /\ Over(k)
  /\ UNCHANGED backendVars

\* A refusal arrives: a first issue changes nothing, a refresh gives delegation up.
TakeRefusal(k) ==
  /\ request[k].state = "refused"
  /\ IF k = "issue" THEN Over(k) /\ UNCHANGED <<actAsMe, delegationRef>> ELSE GiveUp(k)
  /\ UNCHANGED <<backendVars, timerArmed>>

\* The request or its answer is lost: the timer tries again, an expired turn gives up.
AnswerLost(k) ==
  /\ request[k] # NoRequest
  /\ CASE k = "issue" -> Over(k) /\ UNCHANGED pageVars
       [] k = "timer" -> Over(k) /\ timerArmed' = TRUE /\ UNCHANGED <<actAsMe, delegationRef>>
       [] k = "turn"  -> GiveUp(k) /\ UNCHANGED timerArmed
  /\ UNCHANGED backendVars

ChatTurn ==
  /\ ~chatting
  /\ chatting' = TRUE
  /\ UNCHANGED <<backendVars, pageVars, request>>

\* delegation_expired: the turn's ticket, which may be an older one, was refused by a guard.
TurnExpires ==
  /\ chatting /\ request["turn"] = NoRequest
  /\ IF delegationRef = NoTicket
     THEN GiveUp("turn") /\ UNCHANGED timerArmed
     ELSE Send("turn", delegationRef) /\ UNCHANGED <<pageVars, chatting>>
  /\ UNCHANGED backendVars

ChatTurnEnds ==
  /\ chatting /\ request["turn"] = NoRequest
  /\ chatting' = FALSE
  /\ UNCHANGED <<backendVars, pageVars, request>>

\* forgetSession: delegation goes with the session, the timer stays armed.
ForgetSession ==
  /\ ~chatting
  /\ actAsMe' = FALSE
  /\ delegationRef' = NoTicket
  /\ request' = Overtaken
  /\ UNCHANGED <<backendVars, timerArmed, chatting>>

DelegationNext ==
  \/ SignOut \/ SignIn
  \/ SwitchOn \/ SwitchOff \/ RefreshTimer
  \/ ChatTurn \/ TurnExpires \/ ChatTurnEnds \/ ForgetSession
  \/ \E k \in Kinds :
       CheckRequest(k) \/ GrantRequest(k) \/ TakeTicket(k) \/ TakeRefusal(k) \/ AnswerLost(k)

DelegationSpec == DelegationInit /\ [][DelegationNext]_delegationVars

-----------------------------------------------------------------------------
(* The sliding window does not break unnoticed: a page that is switched on     *)
(* holds a ticket, and a page that holds one has its renewal armed or under    *)
(* way, through every overlap of the timer, an expired turn and the switch.    *)
DelegationRenewed ==
  /\ actAsMe => delegationRef # NoTicket
  /\ delegationRef # NoTicket => timerArmed \/ request["timer"] # NoRequest

(* Switching off lets go of the ticket, and a page that is off comes by one    *)
(* again only through the answer to a refresh that was under way when it went   *)
(* off, or through renewing such a ticket (which it sends along all the same).  *)
SwitchedOffHoldsNone ==
  [][~actAsMe' /\ delegationRef' # NoTicket =>
       \/ ~actAsMe /\ delegationRef' = delegationRef
       \/ \E k \in {"timer", "turn"} :
            /\ request[k].state = "granted" /\ ~request[k].on
            /\ request[k].ticket = delegationRef']_delegationVars

(* A sign-out ends delegation: unless the user signs in again, the page        *)
(* switches itself off and lets go of its ticket, also of one that a refresh    *)
(* overtaken by the sign-out brought under the new version.                  *)
SignOutEndsDelegation ==
  ~cookieAlive ~> cookieAlive \/ (~actAsMe /\ delegationRef = NoTicket)
=============================================================================
