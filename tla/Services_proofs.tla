-------------------------- MODULE Services_proofs --------------------------
(***************************************************************************)
(* Theorems about the services of MCServices: the renewal of delegations,   *)
(* the watches, the notification queue and the monitor's loop, each for      *)
(* every value of its constants, and what follows for the system they make    *)
(* up with the orders.                                                      *)
(***************************************************************************)
EXTENDS MCServices, OrderLifecycle_proofs, Recursions_proofs

(***************************************************************************)
(* The renewal of delegations.                                             *)
(***************************************************************************)
USE DelegationAssumption DEF Kinds

-----------------------------------------------------------------------------
(* The inductive invariant.                                                 *)

\* The answer to a granted request is a ticket.
GrantedIsTicket == \A k \in Kinds : request[k].state = "granted" => request[k].ticket \in Tickets

\* What is under way while the page is off was sent, or overtaken, while it was off.
OffIsOvertaken == ~actAsMe => \A k \in Kinds : request[k] # NoRequest => ~request[k].on

DelegationInv ==
  /\ DelegationTypeOK
  /\ GrantedIsTicket
  /\ OffIsOvertaken
  /\ DelegationRenewed

-----------------------------------------------------------------------------
(* What the page's steps do to the requests under way.                       *)

\* Every request is of its type, granted only with a ticket, and off when the page is.
GoodRequest(r, act) ==
  r = NoRequest \/ (r \in Request /\ (r.state = "granted" => r.ticket \in Tickets) /\ (~act => ~r.on))

LEMMA GoodRequests ==
  ASSUME DelegationInv
  PROVE  \A k \in Kinds : GoodRequest(request[k], actAsMe)
BY DEF DelegationInv, DelegationTypeOK, GrantedIsTicket, OffIsOvertaken, GoodRequest

LEMMA GoodSuffices ==
  ASSUME DOMAIN request' = Kinds, request' = [k \in Kinds |-> request'[k]],
         \A k \in Kinds : GoodRequest(request'[k], actAsMe')
  PROVE  request' \in [Kinds -> Request \cup {NoRequest}] /\ GrantedIsTicket' /\ OffIsOvertaken'
BY DEF GrantedIsTicket, OffIsOvertaken, GoodRequest, NoRequest

LEMMA NoRequestIsNone == NoRequest \notin Request /\ NoRequest.state = "none"
BY DEF NoRequest, Request

LEMMA DelegationBegins == DelegationInit => DelegationInv
<1> SUFFICES ASSUME DelegationInit PROVE DelegationInv
  OBVIOUS
<1>1. DelegationTypeOK
  BY DEF DelegationInit, DelegationTypeOK, Ticket, Unused, MaybeTicket
<1>2. GrantedIsTicket /\ OffIsOvertaken /\ DelegationRenewed
  BY DEF DelegationInit, GrantedIsTicket, OffIsOvertaken, DelegationRenewed, NoRequest
<1>3. QED
  BY <1>1, <1>2 DEF DelegationInv

LEMMA CheckInv ==
  ASSUME DelegationInv, NEW k \in Kinds, CheckRequest(k)
  PROVE  DelegationInv' /\ UNCHANGED <<actAsMe, delegationRef>>
<1>1. PICK state \in {"refused", "checked"} :
        request' = [request EXCEPT ![k] = [request[k] EXCEPT !.state = state, !.alive = FALSE]]
  BY DEF CheckRequest
<1>2. request[k] \in Request
  BY NoRequestIsNone DEF CheckRequest, DelegationInv, DelegationTypeOK
<1>3. /\ request'[k] \in Request /\ request'[k].state # "granted"
      /\ request'[k].on = request[k].on
  BY <1>1, <1>2 DEF DelegationInv, DelegationTypeOK, Request
<1>4. \A j \in Kinds : GoodRequest(request'[j], actAsMe)
  BY <1>1, <1>2, <1>3, GoodRequests, NoRequestIsNone DEF GoodRequest, DelegationInv, DelegationTypeOK
<1>5. request' \in [Kinds -> Request \cup {NoRequest}] /\ GrantedIsTicket' /\ OffIsOvertaken'
  BY <1>1, <1>4, GoodSuffices DEF CheckRequest, pageVars, DelegationInv, DelegationTypeOK
<1>6. DelegationRenewed'
  BY <1>1, <1>3, NoRequestIsNone
  DEF CheckRequest, pageVars, DelegationInv, DelegationTypeOK, DelegationRenewed
<1>7. QED
  BY <1>5, <1>6 DEF CheckRequest, backendVars, pageVars, DelegationInv, DelegationTypeOK

LEMMA GrantInv ==
  ASSUME DelegationInv, NEW k \in Kinds, GrantRequest(k)
  PROVE  DelegationInv' /\ UNCHANGED <<actAsMe, delegationRef>>
<1> DEFINE new == CHOOSE t \in Tickets : ~HeldTicket(t)
<1>1. new \in Tickets
  BY DEF GrantRequest
<1>2. request' = [request EXCEPT ![k] = [request[k] EXCEPT !.state = "granted", !.ticket = new]]
  BY DEF GrantRequest
<1>3. request[k] \in Request
  BY NoRequestIsNone DEF GrantRequest, DelegationInv, DelegationTypeOK
<1> HIDE DEF new
<1>4. /\ request'[k] \in Request /\ request'[k].ticket \in Tickets
      /\ request'[k].on = request[k].on
  BY <1>1, <1>2, <1>3 DEF DelegationInv, DelegationTypeOK, Request, MaybeTicket
<1>5. \A j \in Kinds : GoodRequest(request'[j], actAsMe)
  BY <1>2, <1>3, <1>4, GoodRequests, NoRequestIsNone DEF GoodRequest, DelegationInv, DelegationTypeOK
<1>6. request' \in [Kinds -> Request \cup {NoRequest}] /\ GrantedIsTicket' /\ OffIsOvertaken'
  BY <1>2, <1>5, GoodSuffices DEF GrantRequest, pageVars, DelegationInv, DelegationTypeOK
<1>7. DelegationRenewed'
  BY <1>2, <1>4, NoRequestIsNone
  DEF GrantRequest, pageVars, DelegationInv, DelegationTypeOK, DelegationRenewed
<1>8. ticket' \in [Tickets -> Ticket]
  <2>1. ticket' = [t \in Tickets |->
          CASE t = new -> [current |-> TRUE, row |-> TRUE]
            [] t # new /\ HeldTicket(t) -> [ticket[t] EXCEPT !.row = @ /\ t # request[k].ticket]
            [] OTHER -> Unused]
    BY DEF GrantRequest, new
  <2>2. ASSUME NEW t \in Tickets
        PROVE  [ticket[t] EXCEPT !.row = @ /\ t # request[k].ticket] \in Ticket
    BY DEF DelegationInv, DelegationTypeOK, Ticket
  <2>3. [current |-> TRUE, row |-> TRUE] \in Ticket /\ Unused \in Ticket
    BY DEF Ticket, Unused
  <2>4. QED
    BY <2>1, <2>2, <2>3
<1>9. QED
  BY <1>6, <1>7, <1>8 DEF GrantRequest, pageVars, DelegationInv, DelegationTypeOK

LEMMA AccountInv ==
  ASSUME DelegationInv, SignOut \/ SignIn
  PROVE  DelegationInv' /\ UNCHANGED <<actAsMe, delegationRef>>
<1>1. CASE SignOut
  <2>1. \A k \in Kinds : /\ GoodRequest(request'[k], actAsMe)
                         /\ request'[k] = NoRequest <=> request[k] = NoRequest
    <3>1. TAKE k \in Kinds
    <3>2. CASE request[k] = NoRequest
      BY <1>1, <3>2 DEF SignOut, GoodRequest
    <3>3. CASE request[k] # NoRequest
      <4>1. request[k] \in Request /\ request'[k] = [request[k] EXCEPT !.alive = FALSE]
        BY <1>1, <3>3 DEF SignOut, DelegationInv, DelegationTypeOK
      <4>2. /\ request'[k] \in Request
            /\ request'[k].state = request[k].state
            /\ request'[k].ticket = request[k].ticket
            /\ request'[k].on = request[k].on
        BY <4>1 DEF Request
      <4>3. QED
        BY <3>3, <4>1, <4>2, GoodRequests, NoRequestIsNone DEF GoodRequest
    <3>4. QED
      BY <3>2, <3>3
  <2>2. request' \in [Kinds -> Request \cup {NoRequest}] /\ GrantedIsTicket' /\ OffIsOvertaken'
    BY <1>1, <2>1, GoodSuffices DEF SignOut, pageVars
  <2>3. ticket' \in [Tickets -> Ticket]
    BY <1>1 DEF SignOut, DelegationInv, DelegationTypeOK, Ticket
  <2>4. QED
    BY <1>1, <2>1, <2>2, <2>3
    DEF SignOut, pageVars, DelegationInv, DelegationTypeOK, DelegationRenewed
<1>2. CASE SignIn
  BY <1>2 DEF SignIn, pageVars, DelegationInv, DelegationTypeOK, DelegationRenewed,
              GrantedIsTicket, OffIsOvertaken
<1>3. QED
  BY <1>1, <1>2

LEMMA SendGood ==
  ASSUME DelegationInv, NEW k \in Kinds, NEW old \in MaybeTicket, Send(k, old)
  PROVE  /\ \A j \in Kinds : GoodRequest(request'[j], actAsMe)
         /\ request' \in [Kinds -> Request \cup {NoRequest}]
         /\ \A j \in Kinds : request[j] # NoRequest => request'[j] # NoRequest
         /\ request'[k] # NoRequest
<1> DEFINE new == [state |-> "sent", ticket |-> old, alive |-> cookieAlive, on |-> actAsMe]
<1>1. request' = [request EXCEPT ![k] = new]
  BY DEF Send
<1>2. new \in Request /\ new.state # "granted" /\ new.on = actAsMe
  BY DEF DelegationInv, DelegationTypeOK, Request
<1> HIDE DEF new
<1>3. QED
  BY <1>1, <1>2, GoodRequests, NoRequestIsNone DEF GoodRequest, DelegationInv, DelegationTypeOK

LEMMA OvertakenGood ==
  ASSUME DelegationInv
  PROVE  /\ Overtaken \in [Kinds -> Request \cup {NoRequest}]
         /\ \A j \in Kinds : GoodRequest(Overtaken[j], FALSE)
<1>1. ASSUME NEW j \in Kinds, request[j] # NoRequest
      PROVE  Overtaken[j] \in Request /\ GoodRequest(Overtaken[j], FALSE)
  <2>1. request[j] \in Request /\ Overtaken[j] = [request[j] EXCEPT !.on = FALSE]
    BY <1>1 DEF Overtaken, DelegationInv, DelegationTypeOK
  <2>2. /\ Overtaken[j] \in Request /\ Overtaken[j].on = FALSE
        /\ Overtaken[j].state = request[j].state /\ Overtaken[j].ticket = request[j].ticket
    BY <2>1 DEF Request
  <2>3. QED
    BY <1>1, <2>2, GoodRequests DEF GoodRequest
<1>2. ASSUME NEW j \in Kinds, request[j] = NoRequest
      PROVE  Overtaken[j] = NoRequest
  BY <1>2 DEF Overtaken
<1>3. Overtaken = [j \in Kinds |-> Overtaken[j]]
  BY DEF Overtaken
<1>4. QED
  BY <1>1, <1>2, <1>3 DEF GoodRequest

\* Whatever a step of the page does to the requests, these facts make it keep the invariant.
LEMMA PageStepInv ==
  ASSUME DelegationInv,
         request' \in [Kinds -> Request \cup {NoRequest}],
         \A j \in Kinds : GoodRequest(request'[j], actAsMe'),
         UNCHANGED backendVars,
         actAsMe' \in BOOLEAN, delegationRef' \in MaybeTicket, timerArmed' \in BOOLEAN,
         chatting' \in BOOLEAN,
         DelegationRenewed'
  PROVE  DelegationInv'
BY GoodSuffices DEF DelegationInv, DelegationTypeOK, backendVars

LEMMA SwitchInv ==
  ASSUME DelegationInv, SwitchOn \/ SwitchOff \/ ForgetSession
  PROVE  /\ DelegationInv'
         /\ \/ UNCHANGED <<actAsMe, delegationRef>>
            \/ delegationRef' = NoTicket
<1>1. CASE SwitchOn
  BY <1>1, SendGood, PageStepInv
  DEF SwitchOn, pageVars, DelegationInv, DelegationTypeOK, DelegationRenewed, MaybeTicket
<1>2. CASE SwitchOff \/ ForgetSession
  BY <1>2, OvertakenGood, PageStepInv
  DEF SwitchOff, ForgetSession, DelegationInv, DelegationTypeOK, DelegationRenewed, MaybeTicket
<1>3. QED
  BY <1>1, <1>2

LEMMA GiveUpInv ==
  ASSUME DelegationInv, NEW k \in Kinds, GiveUp(k), timerArmed' = timerArmed, UNCHANGED backendVars
  PROVE  DelegationInv' /\ delegationRef' = NoTicket
<1>1. /\ request' \in [Kinds -> Request \cup {NoRequest}]
      /\ \A j \in Kinds : GoodRequest(request'[j], FALSE)
  BY OvertakenGood DEF GiveUp, GoodRequest
<1>2. QED
  BY <1>1, PageStepInv DEF GiveUp, DelegationInv, DelegationTypeOK, DelegationRenewed, MaybeTicket

\* A step that deals with the answer to a request, and arms the timer if it was the timer's.
LEMMA OverInv ==
  ASSUME DelegationInv, NEW k \in Kinds, Over(k), UNCHANGED backendVars,
         timerArmed' \in BOOLEAN, timerArmed => timerArmed',
         timerArmed' \/ (k # "timer" /\ UNCHANGED <<actAsMe, delegationRef>>),
         actAsMe => actAsMe', actAsMe' \in BOOLEAN,
         delegationRef' \in MaybeTicket, actAsMe' => delegationRef' # NoTicket
  PROVE  DelegationInv'
<1>1. /\ request' \in [Kinds -> Request \cup {NoRequest}]
      /\ \A j \in Kinds : GoodRequest(request'[j], actAsMe')
  BY GoodRequests DEF Over, GoodRequest, DelegationInv, DelegationTypeOK
<1>2. DelegationRenewed'
  BY DEF Over, DelegationInv, DelegationTypeOK, DelegationRenewed
<1>3. QED
  BY <1>1, <1>2, PageStepInv DEF Over, DelegationInv, DelegationTypeOK

LEMMA AnswerInv ==
  ASSUME DelegationInv, NEW k \in Kinds, TakeTicket(k) \/ TakeRefusal(k) \/ AnswerLost(k)
  PROVE  /\ DelegationInv'
         /\ \/ UNCHANGED <<actAsMe, delegationRef>>
            \/ delegationRef' = NoTicket
            \/ TakeTicket(k)
<1>1. CASE TakeTicket(k)
  <2>1. request[k].ticket \in Tickets
    BY <1>1 DEF TakeTicket, DelegationInv, GrantedIsTicket
  <2>2. QED
    BY <1>1, <2>1, OverInv DEF TakeTicket, MaybeTicket, DelegationInv, DelegationTypeOK
<1>2. CASE TakeRefusal(k)
  <2>1. CASE k = "issue"
    BY <1>2, <2>1, OverInv
    DEF TakeRefusal, DelegationInv, DelegationTypeOK, DelegationRenewed
  <2>2. CASE k # "issue"
    BY <1>2, <2>2, GiveUpInv DEF TakeRefusal
  <2>3. QED
    BY <2>1, <2>2
<1>3. CASE AnswerLost(k)
  <2>1. CASE k = "issue"
    BY <1>3, <2>1, OverInv
    DEF AnswerLost, pageVars, DelegationInv, DelegationTypeOK, DelegationRenewed
  <2>2. CASE k = "timer"
    BY <1>3, <2>2, OverInv
    DEF AnswerLost, DelegationInv, DelegationTypeOK, DelegationRenewed
  <2>3. CASE k = "turn"
    BY <1>3, <2>3, GiveUpInv DEF AnswerLost
  <2>4. QED
    BY <2>1, <2>2, <2>3
<1>4. QED
  BY <1>1, <1>2, <1>3

LEMMA TurnInv ==
  ASSUME DelegationInv, RefreshTimer \/ ChatTurn \/ TurnExpires \/ ChatTurnEnds
  PROVE  /\ DelegationInv'
         /\ \/ UNCHANGED <<actAsMe, delegationRef>>
            \/ delegationRef' = NoTicket
<1>1. CASE RefreshTimer
  <2>1. CASE delegationRef = NoTicket
    BY <1>1, <2>1, PageStepInv, GoodRequests
    DEF RefreshTimer, DelegationInv, DelegationTypeOK, DelegationRenewed
  <2>2. CASE delegationRef # NoTicket
    <3>1. Send("timer", delegationRef) /\ delegationRef \in MaybeTicket
      BY <1>1, <2>2 DEF RefreshTimer, DelegationInv, DelegationTypeOK
    <3>2. QED
      BY <1>1, <2>2, <3>1, PageStepInv, SendGood
      DEF RefreshTimer, DelegationInv, DelegationTypeOK, DelegationRenewed
  <2>3. QED
    BY <2>1, <2>2
<1>2. CASE TurnExpires
  <2>1. CASE delegationRef = NoTicket
    BY <1>2, <2>1, GiveUpInv DEF TurnExpires
  <2>2. CASE delegationRef # NoTicket
    <3>1. Send("turn", delegationRef) /\ delegationRef \in MaybeTicket
      BY <1>2, <2>2 DEF TurnExpires, DelegationInv, DelegationTypeOK
    <3>2. QED
      BY <1>2, <2>2, <3>1, PageStepInv, SendGood
      DEF TurnExpires, pageVars, DelegationInv, DelegationTypeOK, DelegationRenewed
  <2>3. QED
    BY <2>1, <2>2
<1>3. CASE ChatTurn \/ ChatTurnEnds
  <2>1. /\ UNCHANGED <<cookieAlive, ticket, actAsMe, delegationRef, timerArmed, request>>
        /\ chatting' \in BOOLEAN
    BY <1>3 DEF ChatTurn, ChatTurnEnds, backendVars, pageVars
  <2>2. QED
    BY <2>1 DEF DelegationInv, DelegationTypeOK, GrantedIsTicket, OffIsOvertaken, DelegationRenewed
<1>4. QED
  BY <1>1, <1>2, <1>3

\* Every step keeps the invariant; one that changes what the page holds lets go of its
\* ticket or takes the answer to a request.
LEMMA DelegationStep ==
  ASSUME DelegationInv, [DelegationNext]_delegationVars
  PROVE  /\ DelegationInv'
         /\ \/ UNCHANGED <<actAsMe, delegationRef>>
            \/ delegationRef' = NoTicket
            \/ \E k \in Kinds : TakeTicket(k)
<1>1. CASE SignOut \/ SignIn
  BY <1>1, AccountInv
<1>2. CASE SwitchOn \/ SwitchOff \/ ForgetSession
  BY <1>2, SwitchInv
<1>3. CASE RefreshTimer \/ ChatTurn \/ TurnExpires \/ ChatTurnEnds
  BY <1>3, TurnInv
<1>4. ASSUME NEW k \in Kinds,
             CheckRequest(k) \/ GrantRequest(k) \/ TakeTicket(k) \/ TakeRefusal(k) \/ AnswerLost(k)
      PROVE  /\ DelegationInv'
             /\ \/ UNCHANGED <<actAsMe, delegationRef>>
                \/ delegationRef' = NoTicket
                \/ TakeTicket(k)
  BY <1>4, CheckInv, GrantInv, AnswerInv
<1>5. CASE UNCHANGED delegationVars
  BY <1>5 DEF delegationVars, backendVars, pageVars, DelegationInv, DelegationTypeOK,
              GrantedIsTicket, OffIsOvertaken, DelegationRenewed
<1>6. QED
  BY <1>1, <1>2, <1>3, <1>4, <1>5 DEF DelegationNext

LEMMA DelegationInvariant == DelegationSpec => []DelegationInv
<1>1. DelegationInv /\ [DelegationNext]_delegationVars => DelegationInv'
  BY DelegationStep
<1>2. QED
  BY DelegationBegins, <1>1, PTL DEF DelegationSpec

(* The variables of the chat page and of the tickets keep their types.       *)
THEOREM DelegationTypes == DelegationSpec => []DelegationTypeOK
BY DelegationInvariant, PTL DEF DelegationInv

(* The sliding window does not break unnoticed, with any number of tickets.  *)
THEOREM WindowHolds == DelegationSpec => []DelegationRenewed
BY DelegationInvariant, PTL DEF DelegationInv

(* A page that is off comes by a ticket only through a refresh that was under    *)
(* way when it went off, with any number of tickets.                        *)
THEOREM OffHoldsNone == DelegationSpec => SwitchedOffHoldsNone
<1> DEFINE OffStep ==
      ~actAsMe' /\ delegationRef' # NoTicket =>
       \/ ~actAsMe /\ delegationRef' = delegationRef
       \/ \E k \in {"timer", "turn"} :
            /\ request[k].state = "granted" /\ ~request[k].on
            /\ request[k].ticket = delegationRef'
<1>1. ASSUME DelegationInv, [DelegationNext]_delegationVars
      PROVE  OffStep
  <2> SUFFICES ASSUME ~actAsMe', delegationRef' # NoTicket, NEW k \in Kinds, TakeTicket(k)
               PROVE  OffStep
    BY <1>1, DelegationStep
  <2>1. k # "issue" /\ ~actAsMe /\ request[k].state = "granted"
        /\ request[k].ticket = delegationRef'
    BY DEF TakeTicket
  <2>2. ~request[k].on
    BY <1>1, <2>1 DEF DelegationInv, OffIsOvertaken, NoRequest
  <2>3. QED
    BY <2>1, <2>2
<1>2. DelegationInv /\ [DelegationNext]_delegationVars => [OffStep]_delegationVars
  BY <1>1
<1>3. QED
  BY DelegationInvariant, <1>2, PTL DEF DelegationSpec, SwitchedOffHoldsNone

HIDE DelegationAssumption DEF Kinds

(***************************************************************************)
(* The watches.                                                            *)
(***************************************************************************)
USE WatchAssumption

-----------------------------------------------------------------------------
(* The inductive invariant.                                                 *)

Holds(r, w) == round[r] # NoRound /\ w \in round[r].watches

\* A round has taken watches that were active once.
HeldWasActive == \A r \in Rounds, w \in Watches : Holds(r, w) => watch[w] # "new"

\* Two rounds hold a watch only if that has been noted.
OneHolder ==
  \A w \in Watches : w \notin repeats =>
    \A r, other \in Rounds : Holds(r, w) /\ Holds(other, w) => r = other

\* A watch that has been answered is not active, and no round holds it any more.
AnsweredIsOver ==
  \A w \in Watches : alerts[w] > 0 /\ w \notin repeats =>
    watch[w] \in {"off", "cancelled"} /\ \A r \in Rounds : ~Holds(r, w)

WatchInv == WatchTypeOK /\ HeldWasActive /\ OneHolder /\ AnsweredIsOver /\ AlertedOnce

-----------------------------------------------------------------------------
LEMMA RoundFacts ==
  ASSUME WatchTypeOK, NEW r \in Rounds, round[r] # NoRound
  PROVE  /\ round[r] \in Round
         /\ Matched(r) \subseteq round[r].watches /\ round[r].watches \subseteq Watches
BY DEF WatchTypeOK, Round, Matched

LEMMA AlertedFacts ==
  ASSUME WatchTypeOK, NEW ws
  PROVE  /\ Alerted(ws) \in [Watches -> 0 .. 2]
         /\ \A w \in Watches : w \in ws => Alerted(ws)[w] > 0
         /\ \A w \in Watches : w \notin ws => Alerted(ws)[w] = alerts[w]
         /\ \A w \in Watches : Alerted(ws)[w] > 1 => alerts[w] > 0
BY DEF WatchTypeOK, Alerted

LEMMA WatchBegins == WatchInit => WatchInv
BY DEF WatchInit, WatchInv, WatchTypeOK, HeldWasActive, OneHolder, AnsweredIsOver, AlertedOnce, Holds

\* A step that sets or cancels a watch, or moves a product, touches no round.
LEMMA OutsideInv ==
  ASSUME WatchInv, (\E w \in Watches : SetWatch(w) \/ CancelWatch(w)) \/ (\E p \in Topics : TopicMoves(p))
  PROVE  WatchInv'
<1>1. /\ UNCHANGED <<round, alerts, repeats>> /\ topicLevel' \in [Topics -> 0 .. MaxLevel]
      /\ watch' \in [Watches -> {"new", "active", "off", "cancelled"}]
      /\ \A w \in Watches : /\ watch[w] # "new" => watch'[w] # "new"
                            /\ watch[w] \in {"off", "cancelled"} => watch'[w] = watch[w]
  BY DEF WatchInv, WatchTypeOK, SetWatch, CancelWatch, TopicMoves
<1>2. QED
  BY <1>1 DEF WatchInv, WatchTypeOK, HeldWasActive, OneHolder, AnsweredIsOver, AlertedOnce, Holds

LEMMA StartsInv ==
  ASSUME WatchInv, NEW r \in Rounds, RoundStarts(r)
  PROVE  WatchInv'
<1> DEFINE new == [state |-> "reading", watches |-> ActiveWatches, read |-> [p \in Topics |-> Unread]]
<1>1. new \in Round /\ new # NoRound /\ new.watches = ActiveWatches
  BY DEF Round, ActiveWatches, NoRound
<1>2. round' = [round EXCEPT ![r] = new] /\ UNCHANGED <<watch, topicLevel, alerts>>
  BY DEF RoundStarts
<1> HIDE DEF new
<1>3. /\ \A w : Holds(r, w)' <=> w \in ActiveWatches
      /\ \A other \in Rounds \ {r} : \A w : Holds(other, w)' <=> Holds(other, w)
  BY <1>1, <1>2 DEF Holds, WatchInv, WatchTypeOK
<1>4. repeats' = repeats \cup {w \in ActiveWatches : \E other \in Rounds \ {r} : Holds(other, w)}
  BY DEF RoundStarts, Holds
<1>5. WatchTypeOK'
  BY <1>1, <1>2, <1>4 DEF WatchInv, WatchTypeOK, ActiveWatches
<1>6. HeldWasActive'
  BY <1>2, <1>3, Zenon DEF WatchInv, HeldWasActive, ActiveWatches
<1>7. OneHolder'
  BY <1>3, <1>4 DEF WatchInv, OneHolder
<1>8. AnsweredIsOver' /\ AlertedOnce'
  BY <1>2, <1>3, <1>4 DEF WatchInv, AnsweredIsOver, AlertedOnce, ActiveWatches
<1>9. QED
  BY <1>5, <1>6, <1>7, <1>8 DEF WatchInv

LEMMA ReadsInv ==
  ASSUME WatchInv, NEW r \in Rounds, NEW p \in Topics, ReadsProduct(r, p)
  PROVE  WatchInv'
<1>1. round[r] \in Round
  BY RoundFacts DEF ReadsProduct, WatchInv
<1>2. round' = [round EXCEPT ![r] = [round[r] EXCEPT !.read = [round[r].read EXCEPT ![p] = topicLevel[p]]]]
      /\ UNCHANGED <<watch, topicLevel, alerts, repeats>>
  BY DEF ReadsProduct
<1>3. round'[r] \in Round /\ round'[r].watches = round[r].watches
  BY <1>1, <1>2 DEF WatchInv, WatchTypeOK, Round
<1>4. WatchTypeOK'
  BY <1>2, <1>3 DEF WatchInv, WatchTypeOK
<1>5. \A q \in Rounds : \A w : Holds(q, w)' => Holds(q, w)
  BY <1>2, <1>3 DEF Holds, WatchInv, WatchTypeOK, ReadsProduct
<1>6. QED
  BY <1>2, <1>4, <1>5 DEF WatchInv, HeldWasActive, OneHolder, AnsweredIsOver, AlertedOnce

LEMMA PublishesInv ==
  ASSUME WatchInv, NEW r \in Rounds, RoundPublishes(r)
  PROVE  WatchInv'
<1>1. /\ round[r] # NoRound /\ round' = [round EXCEPT ![r] = NoRound]
      /\ alerts' = Alerted(Matched(r)) /\ repeats' = repeats /\ topicLevel' = topicLevel
  BY DEF RoundPublishes
<1>2. \A w \in Watches : Holds(r, w) <=> w \in round[r].watches
  BY <1>1 DEF Holds
<1>3. /\ \A w : ~Holds(r, w)'
      /\ \A q \in Rounds \ {r} : \A w : Holds(q, w)' <=> Holds(q, w)
  BY <1>1 DEF Holds, WatchInv, WatchTypeOK
<1>4. /\ watch' \in [Watches -> {"new", "active", "off", "cancelled"}]
      /\ \A w \in Watches : watch'[w] \in {watch[w], "off"}
      /\ \A w \in Matched(r) : watch[w] = "active" => watch'[w] = "off"
  BY <1>1, RoundFacts DEF RoundPublishes, WatchInv, WatchTypeOK
<1>5. \A w \in Watches : w \in Matched(r) => Holds(r, w) /\ watch[w] # "new"
  BY <1>1, <1>2, RoundFacts DEF WatchInv, HeldWasActive
<1>6. WatchTypeOK'
  BY <1>1, <1>4, AlertedFacts DEF WatchInv, WatchTypeOK
<1>7. HeldWasActive' /\ OneHolder'
  BY <1>1, <1>3, <1>4 DEF WatchInv, HeldWasActive, OneHolder
<1>8. AnsweredIsOver'
  <2>1. SUFFICES ASSUME NEW w \in Watches, alerts'[w] > 0, w \notin repeats
                 PROVE  watch'[w] \in {"off", "cancelled"} /\ \A q \in Rounds : ~Holds(q, w)'
    BY <1>1 DEF AnsweredIsOver
  <2>2. CASE w \in Matched(r)
    BY <1>3, <1>4, <1>5, <2>1, <2>2 DEF WatchInv, WatchTypeOK, OneHolder
  <2>3. CASE w \notin Matched(r)
    <3>1. alerts[w] > 0
      BY <1>1, <2>1, <2>3, AlertedFacts DEF WatchInv
    <3>2. QED
      BY <1>3, <1>4, <2>1, <3>1 DEF WatchInv, AnsweredIsOver
  <2>4. QED
    BY <2>2, <2>3
<1>9. AlertedOnce'
  <2>1. SUFFICES ASSUME NEW w \in Watches, alerts'[w] > 1
                 PROVE  w \in repeats
    BY <1>1 DEF AlertedOnce
  <2>2. alerts[w] > 0
    BY <1>1, <2>1, AlertedFacts DEF WatchInv
  <2>3. CASE w \in Matched(r)
    BY <1>5, <2>2, <2>3 DEF WatchInv, AnsweredIsOver
  <2>4. CASE w \notin Matched(r)
    BY <1>1, <2>1, <2>4, AlertedFacts DEF WatchInv, AlertedOnce
  <2>5. QED
    BY <2>3, <2>4
<1>10. QED
  BY <1>6, <1>7, <1>8, <1>9 DEF WatchInv

\* A round that fails, or the host that stops: rounds end, and an alert the stop cut off from
\* its watch is noted.
LEMMA EndsInv ==
  ASSUME WatchInv, (\E r \in Rounds : RoundFails(r)) \/ HostStops
  PROVE  WatchInv'
<1>1. /\ UNCHANGED <<watch, topicLevel>> /\ repeats \subseteq repeats' /\ repeats' \subseteq Watches
      /\ alerts' \in [Watches -> 0 .. 2]
      /\ \A w \in Watches : w \notin repeats' => alerts'[w] = alerts[w]
      /\ \A w \in Watches : alerts'[w] > 1 => alerts[w] > 1 \/ w \in repeats'
  <2>1. CASE \E r \in Rounds : RoundFails(r)
    BY <2>1 DEF RoundFails, WatchInv, WatchTypeOK
  <2>2. CASE HostStops /\ UNCHANGED <<alerts, repeats>>
    BY <2>2 DEF HostStops, WatchInv, WatchTypeOK
  <2>3. CASE HostStops /\ ~UNCHANGED <<alerts, repeats>>
    <3>1. PICK r \in Rounds, w \in Watches :
            /\ alerts' = Alerted({w}) /\ repeats' = repeats \cup {w}
            /\ UNCHANGED <<watch, topicLevel>>
      BY <2>3, RoundFacts DEF HostStops, WatchInv
    <3>2. QED
      BY <3>1, AlertedFacts DEF WatchInv, WatchTypeOK
  <2>4. QED
    BY <2>1, <2>2, <2>3
<1>2. /\ round' \in [Rounds -> Round \cup {NoRound}]
      /\ \A r \in Rounds : \A w : Holds(r, w)' => Holds(r, w)
  BY DEF RoundFails, HostStops, Holds, WatchInv, WatchTypeOK
<1>3. WatchTypeOK'
  BY <1>1, <1>2 DEF WatchInv, WatchTypeOK
<1>4. QED
  BY <1>1, <1>2, <1>3 DEF WatchInv, HeldWasActive, OneHolder, AnsweredIsOver, AlertedOnce

LEMMA WatchStep ==
  ASSUME WatchInv, [WatchNext]_watchVars
  PROVE  WatchInv'
<1>1. CASE UNCHANGED watchVars
  BY <1>1 DEF watchVars, WatchInv, WatchTypeOK, HeldWasActive, OneHolder, AnsweredIsOver,
              AlertedOnce, Holds
<1>2. QED
  BY <1>1, OutsideInv, StartsInv, ReadsInv, PublishesInv, EndsInv DEF WatchNext

LEMMA WatchInvariant == WatchSpec => []WatchInv
<1>1. WatchInv /\ [WatchNext]_watchVars => WatchInv'
  BY WatchStep
<1>2. QED
  BY WatchBegins, <1>1, PTL DEF WatchSpec

(* Watches, rounds and alerts keep their types.                              *)
THEOREM WatchTypes == WatchSpec => []WatchTypeOK
BY WatchInvariant, PTL DEF WatchInv

(* A watch is answered once, however many rounds overlap, unless two took the    *)
(* same watch or the host stopped between the alert and turning it off.        *)
THEOREM WatchesAlertOnce == WatchSpec => []AlertedOnce
BY WatchInvariant, PTL DEF WatchInv

(* A watch goes off only with an alert about its product, of its own unless its  *)
(* threshold is the higher one.                                             *)
THEOREM OffMeansAlert == WatchSpec => WatchOffForAlert
<1> DEFINE OffStep ==
      \A w \in Watches : watch[w] = "active" /\ watch'[w] = "off" =>
       \E m \in Watches :
         /\ WatchTopic[m] = WatchTopic[w]
         /\ alerts'[m] > 0
         /\ alerts'[w] > 0 \/ WatchThreshold[m] < WatchThreshold[w]
<1>1. ASSUME WatchTypeOK, [WatchNext]_watchVars,
             NEW w \in Watches, watch[w] = "active", watch'[w] = "off"
      PROVE  \E m \in Watches :
               /\ WatchTopic[m] = WatchTopic[w]
               /\ alerts'[m] > 0
               /\ alerts'[w] > 0 \/ WatchThreshold[m] < WatchThreshold[w]
  <2>1. PICK r \in Rounds : RoundPublishes(r)
    BY <1>1 DEF WatchNext, watchVars, WatchTypeOK, SetWatch, CancelWatch, TopicMoves, RoundStarts,
                ReadsProduct, RoundFails, HostStops
  <2>2. round[r] # NoRound /\ w \in round[r].watches /\ alerts' = Alerted(Matched(r))
    BY <1>1, <2>1 DEF RoundPublishes
  <2>3. PICK m \in Matched(r) : WatchTopic[m] = WatchTopic[w]
    BY <1>1, <2>1 DEF RoundPublishes
  <2>4. m \in Watches /\ alerts'[m] > 0
    BY <1>1, <2>2, <2>3, RoundFacts, AlertedFacts
  <2>5. CASE w \in Matched(r)
    BY <1>1, <2>2, <2>3, <2>4, <2>5, AlertedFacts
  <2>6. CASE w \notin Matched(r)
    <3>1. round[r].read[WatchTopic[w]] \in {Unread} \cup 0 .. MaxLevel
      <4>1. round[r] \in Round /\ WatchTopic[w] \in Topics
        BY <1>1, <2>2, RoundFacts DEF Topics
      <4>2. round[r].read \in [Topics -> {Unread} \cup 0 .. MaxLevel]
        BY <4>1 DEF Round
      <4>3. QED
        BY <4>1, <4>2
    <3>2. /\ round[r].read[WatchTopic[w]] >= WatchThreshold[m]
          /\ ~(round[r].read[WatchTopic[w]] >= WatchThreshold[w])
      BY <2>2, <2>3, <2>6 DEF Matched
    <3>3. WatchThreshold[m] < WatchThreshold[w]
      BY <2>4, <3>1, <3>2 DEF Unread
    <3>4. QED
      BY <2>3, <2>4, <3>3
  <2>7. QED
    BY <2>5, <2>6
<1>2. WatchTypeOK /\ [WatchNext]_watchVars => [OffStep]_watchVars
  BY <1>1
<1>3. QED
  BY WatchTypes, <1>2, PTL DEF WatchSpec, WatchOffForAlert

HIDE WatchAssumption

(***************************************************************************)
(* The notification queue.                                                 *)
(***************************************************************************)
-----------------------------------------------------------------------------
(* The inductive invariant: what NotifyKept says, of queues and ticks in general,     *)
(* and that what has been late is due.                                      *)

PromptFor(timer, queue) ==
  timer # Unset =>
    /\ \E k \in DOMAIN queue :
         /\ queue[k].wait = timer
         /\ \A i \in 1 .. k : queue[i].wait >= timer
    /\ \A i \in DOMAIN queue : queue[i].late + timer <= LongestBackoff

LateIsDue(queue) == \A i \in DOMAIN queue : queue[i].late > 0 => queue[i].wait = 0

OnePlace(queue, ticks, fate) ==
  /\ \A m \in Messages :
       (fate[m] = "queued") <=>
         \/ \E i \in DOMAIN queue : queue[i].id = m
         \/ \E tick \in ticks : \E i \in DOMAIN tick : tick[i].id = m
  /\ \A i, j \in DOMAIN queue : queue[i].id = queue[j].id => i = j
  /\ \A tick \in ticks : \A i \in DOMAIN tick :
       /\ \A j \in DOMAIN queue : queue[j].id # tick[i].id
       /\ \A j \in DOMAIN tick : tick[i].id = tick[j].id => i = j
  /\ \A t1, t2 \in ticks : \A i \in DOMAIN t1, j \in DOMAIN t2 : t1[i].id = t2[j].id => t1 = t2

NotifyInv ==
  /\ NotifyTypeOK /\ NotifyAwake
  /\ PromptFor(notifyTimer, notifyQueue) /\ LateIsDue(notifyQueue)
  /\ OnePlace(notifyQueue, notifyTicks, notifyFate)

-----------------------------------------------------------------------------
USE NotifyAssumption

\* Backoffs grow: none that is waited for is longer than the longest.
LEMMA BackoffGrows ==
  /\ LongestBackoff \in Nat
  /\ \A n \in 1 .. MAX_ATTEMPTS - 1 : Backoff(n) \in 0 .. LongestBackoff
<1>1. CASE MAX_ATTEMPTS > 1
  <2>1. MAX_ATTEMPTS - 2 \in Nat /\ (MAX_ATTEMPTS - 1) - 1 = MAX_ATTEMPTS - 2  BY <1>1
  <2>2. LongestBackoff = Power(4, MAX_ATTEMPTS - 2)  BY <1>1, <2>1 DEF LongestBackoff, Backoff
  <2>3. ASSUME NEW n \in 1 .. MAX_ATTEMPTS - 1 PROVE Backoff(n) \in 1 .. LongestBackoff
    <3>1. n - 1 \in 0 .. MAX_ATTEMPTS - 2  OBVIOUS
    <3>2. \A m \in Nat : \A k \in 0 .. m : Power(4, k) \in 1 .. Power(4, m)  BY PowerGrows
    <3>3. Power(4, n - 1) \in 1 .. Power(4, MAX_ATTEMPTS - 2)  BY <2>1, <3>1, <3>2
    <3> QED BY <2>2, <3>3 DEF Backoff
  <2>4. LongestBackoff \in Nat  BY <2>1, <2>2, PowerGrows
  <2>5. \A x \in 1 .. LongestBackoff : x \in 0 .. LongestBackoff  BY <2>4
  <2> QED BY <2>3, <2>4, <2>5
<1>2. CASE MAX_ATTEMPTS = 1  BY <1>2 DEF LongestBackoff
<1> QED BY <1>1, <1>2

\* What an item of a queue is.
LEMMA ItemType ==
  ASSUME NEW queue \in Seq(NotifyItem)
  PROVE  /\ DOMAIN queue = 1 .. Len(queue) /\ Len(queue) \in Nat
         /\ \A i \in DOMAIN queue :
              /\ queue[i] \in NotifyItem
              /\ queue[i].id \in Messages
              /\ queue[i].wait \in 0 .. LongestBackoff /\ queue[i].wait \in Nat
              /\ queue[i].late \in 0 .. LongestBackoff /\ queue[i].late \in Nat
<1>1. \A i \in DOMAIN queue : queue[i] \in NotifyItem  OBVIOUS
<1> QED BY <1>1, BackoffGrows DEF NotifyItem

\* A queue that is not empty has a least wait, and its first item of it.
LEMMA LeastExists ==
  ASSUME NEW queue \in Seq(NotifyItem), queue # <<>>
  PROVE  \E k \in DOMAIN queue :
           /\ \A i \in DOMAIN queue : queue[k].wait <= queue[i].wait
           /\ Scheduled(Unset, queue) = queue[k].wait
<1>1. DOMAIN queue = 1 .. Len(queue) /\ Len(queue) \in Nat \ {0}  OBVIOUS
<1>2. \A i \in DOMAIN queue : queue[i] \in NotifyItem  OBVIOUS
<1>3. \A i \in DOMAIN queue : queue[i].wait \in Nat
  BY <1>2, BackoffGrows DEF NotifyItem
<1> DEFINE Waits == {queue[i].wait : i \in DOMAIN queue}
<1>4. PICK w \in Waits : \A x \in Waits : w <= x
  <2>1. Waits \subseteq Nat  BY <1>3
  <2>2. queue[1].wait \in Waits  BY <1>1
  <2> HIDE DEF Waits
  <2> QED BY <2>1, <2>2, NatLeast
<1>5. \A i \in DOMAIN queue : w <= queue[i].wait  BY <1>4
<1>6. Scheduled(Unset, queue) = CHOOSE x \in Waits : \A i \in DOMAIN queue : x <= queue[i].wait
  BY DEF Scheduled
<1>7. /\ Scheduled(Unset, queue) \in Waits
      /\ \A i \in DOMAIN queue : Scheduled(Unset, queue) <= queue[i].wait
  <2> HIDE DEF Waits
  <2> QED BY <1>4, <1>5, <1>6
<1> QED BY <1>7

\* schedule() keeps a timer prompt, and sets one that is.
LEMMA SchedulePrompt ==
  ASSUME NEW queue \in Seq(NotifyItem), queue # <<>>, LateIsDue(queue),
         NEW timer \in 0 .. LongestBackoff \cup {Unset}, PromptFor(timer, queue)
  PROVE  /\ Scheduled(timer, queue) \in 0 .. LongestBackoff
         /\ PromptFor(Scheduled(timer, queue), queue)
<1>1. CASE timer # Unset  BY <1>1 DEF Scheduled
<1>2. CASE timer = Unset
  <2>1. PICK k \in DOMAIN queue :
          /\ \A i \in DOMAIN queue : queue[k].wait <= queue[i].wait
          /\ Scheduled(Unset, queue) = queue[k].wait
    BY LeastExists
  <2>2. \A i \in DOMAIN queue :
          queue[i].wait \in 0 .. LongestBackoff /\ queue[i].late \in 0 .. LongestBackoff
    BY ItemType
  <2>3. DOMAIN queue = 1 .. Len(queue) /\ LongestBackoff \in Nat  BY BackoffGrows
  <2>4. \A i \in 1 .. k : queue[i].wait >= queue[k].wait
    <3>1. \A i \in 1 .. k : i \in DOMAIN queue  BY <2>3
    <3> QED BY <2>1, <2>2, <2>3, <3>1
  <2>5. \A i \in DOMAIN queue : queue[i].late + queue[k].wait <= LongestBackoff
    <3> TAKE i \in DOMAIN queue
    <3>1. CASE queue[i].late > 0
      <4>1. queue[i].wait = 0  BY <3>1 DEF LateIsDue
      <4>2. queue[k].wait = 0  BY <4>1, <2>1, <2>2, <2>3
      <4> QED BY <4>2, <2>2, <2>3
    <3>2. CASE queue[i].late = 0  BY <3>2, <2>2, <2>3
    <3> QED BY <3>1, <3>2, <2>2, <2>3
  <2> QED BY <1>2, <2>1, <2>2, <2>4, <2>5 DEF PromptFor
<1> QED BY <1>1, <1>2

\* A fresh item at the end disturbs neither.
LEMMA AppendPrompt ==
  ASSUME NEW queue \in Seq(NotifyItem), LateIsDue(queue), NEW item \in NotifyItem, item.late = 0,
         NEW timer \in 0 .. LongestBackoff \cup {Unset}, PromptFor(timer, queue)
  PROVE  /\ Append(queue, item) \in Seq(NotifyItem) /\ Append(queue, item) # <<>>
         /\ LateIsDue(Append(queue, item)) /\ PromptFor(timer, Append(queue, item))
<1> DEFINE q == Append(queue, item)
<1>1. /\ q \in Seq(NotifyItem) /\ q # <<>>
      /\ Len(q) = Len(queue) + 1 /\ Len(queue) \in Nat
      /\ \A i \in 1 .. Len(queue) : q[i] = queue[i]
      /\ q[Len(queue) + 1] = item
      /\ DOMAIN q = 1 .. Len(queue) + 1 /\ DOMAIN queue = 1 .. Len(queue)
  OBVIOUS
<1> HIDE DEF q
<1>2. \A i \in DOMAIN q : (i \in DOMAIN queue /\ q[i] = queue[i]) \/ q[i] = item
  BY <1>1
<1>3. LateIsDue(q)  BY <1>2 DEF LateIsDue
<1>4. PromptFor(timer, q)
  <2>1. SUFFICES ASSUME timer # Unset
                 PROVE  /\ \E k \in DOMAIN q :
                             /\ q[k].wait = timer
                             /\ \A i \in 1 .. k : q[i].wait >= timer
                        /\ \A i \in DOMAIN q : q[i].late + timer <= LongestBackoff
    BY DEF PromptFor
  <2>2. /\ \E k \in DOMAIN queue :
             /\ queue[k].wait = timer
             /\ \A i \in 1 .. k : queue[i].wait >= timer
        /\ \A i \in DOMAIN queue : queue[i].late + timer <= LongestBackoff
    BY <2>1 DEF PromptFor
  <2>3. PICK k \in DOMAIN queue :
             /\ queue[k].wait = timer
             /\ \A i \in 1 .. k : queue[i].wait >= timer
    BY <2>2
  <2>4. /\ k \in DOMAIN q /\ q[k].wait = timer
        /\ \A i \in 1 .. k : q[i].wait >= timer
    BY <1>1, <2>3
  <2>5. item.late + timer <= LongestBackoff  BY <2>1, BackoffGrows
  <2>6. \A i \in DOMAIN q : q[i].late + timer <= LongestBackoff  BY <1>2, <2>2, <2>5
  <2> QED BY <2>4, <2>6
<1> QED BY <1>1, <1>3, <1>4 DEF q

\* A message that is in no place takes one in the queue.
LEMMA AppendOnePlace ==
  ASSUME NEW queue \in Seq(NotifyItem), NEW item \in NotifyItem,
         NEW ticks \in SUBSET Seq(NotifyItem), NEW fate, NEW fate2,
         OnePlace(queue, ticks, fate), fate[item.id] # "queued",
         fate2[item.id] = "queued",
         \A m \in Messages \ {item.id} : fate2[m] = fate[m]
  PROVE  OnePlace(Append(queue, item), ticks, fate2)
<1> DEFINE q == Append(queue, item)
<1>1. /\ Len(queue) \in Nat
      /\ \A i \in 1 .. Len(queue) : q[i] = queue[i]
      /\ q[Len(queue) + 1] = item
      /\ DOMAIN q = 1 .. Len(queue) + 1 /\ DOMAIN queue = 1 .. Len(queue)
  OBVIOUS
<1> HIDE DEF q
<1>2. /\ \A i \in DOMAIN q : \/ i \in DOMAIN queue /\ q[i] = queue[i]
                             \/ i = Len(queue) + 1 /\ q[i] = item
      /\ \A i \in DOMAIN queue : i \in DOMAIN q /\ q[i] = queue[i]
      /\ Len(queue) + 1 \in DOMAIN q /\ q[Len(queue) + 1] = item
      /\ Len(queue) + 1 \notin DOMAIN queue
  <2>1. \A i \in DOMAIN q : i \in 1 .. Len(queue) \/ i = Len(queue) + 1  BY <1>1
  <2>2. \A i \in DOMAIN queue : i \in DOMAIN q /\ q[i] = queue[i]  BY <1>1
  <2>3. Len(queue) + 1 \in DOMAIN q /\ Len(queue) + 1 \notin DOMAIN queue  BY <1>1
  <2>4. \A i \in 1 .. Len(queue) : i \in DOMAIN queue /\ q[i] = queue[i]  BY <1>1
  <2>5. q[Len(queue) + 1] = item  BY <1>1
  <2>6. ASSUME NEW i \in DOMAIN q
        PROVE  \/ i \in DOMAIN queue /\ q[i] = queue[i]
               \/ i = Len(queue) + 1 /\ q[i] = item
    <3>1. CASE i \in 1 .. Len(queue)  BY <2>4, <3>1
    <3>2. CASE i = Len(queue) + 1  BY <2>5, <3>2
    <3> QED BY <2>1, <3>1, <3>2
  <2> QED BY <2>2, <2>3, <2>5, <2>6
<1>3. item.id \in Messages  BY DEF NotifyItem
<1>4. /\ \A i \in DOMAIN queue : queue[i].id # item.id
      /\ \A tick \in ticks : \A i \in DOMAIN tick : tick[i].id # item.id
  BY <1>3 DEF OnePlace
<1>5. \A m \in Messages :
       (fate2[m] = "queued") <=>
         \/ \E i \in DOMAIN q : q[i].id = m
         \/ \E tick \in ticks : \E i \in DOMAIN tick : tick[i].id = m
  <2> TAKE m \in Messages
  <2>1. CASE m = item.id  BY <2>1, <1>2
  <2>2. CASE m # item.id
    <3>1. (\E i \in DOMAIN q : q[i].id = m) <=> (\E i \in DOMAIN queue : queue[i].id = m)
      BY <1>2, <2>2
    <3> QED BY <2>2, <3>1 DEF OnePlace
  <2> QED BY <2>1, <2>2
<1>6. \A i, j \in DOMAIN q : q[i].id = q[j].id => i = j
  BY <1>2, <1>4 DEF OnePlace
<1>7. \A tick \in ticks : \A i \in DOMAIN tick : \A j \in DOMAIN q : q[j].id # tick[i].id
  BY <1>2, <1>4 DEF OnePlace
<1> QED BY <1>5, <1>6, <1>7 DEF OnePlace, q

\* The ticks once one of them has gone on to its next item.
Without(ticks, tick) == (ticks \ {tick}) \cup (IF Len(tick) > 1 THEN {Tail(tick)} ELSE {})

\* The head of a tick leaves it; its message has no place then.
LEMMA HeadLeaves ==
  ASSUME NEW queue \in Seq(NotifyItem), NEW ticks \in SUBSET (Seq(NotifyItem) \ {<<>>}), NEW fate,
         NEW tick \in ticks, OnePlace(queue, ticks, fate), NEW fate2,
         fate2[Head(tick).id] # "queued",
         \A m \in Messages \ {Head(tick).id} : fate2[m] = fate[m]
  PROVE  /\ OnePlace(queue, Without(ticks, tick), fate2)
         /\ Without(ticks, tick) \subseteq Seq(NotifyItem) \ {<<>>}
         /\ fate[Head(tick).id] = "queued"
<1> DEFINE ticks2 == Without(ticks, tick)
<1>0. ticks2 = (ticks \ {tick}) \cup (IF Len(tick) > 1 THEN {Tail(tick)} ELSE {})  BY DEF Without
<1> HIDE DEF ticks2
<1>1. /\ tick \in Seq(NotifyItem) /\ tick # <<>> /\ Len(tick) \in Nat \ {0}
      /\ DOMAIN tick = 1 .. Len(tick) /\ Head(tick) = tick[1] /\ 1 \in DOMAIN tick
  OBVIOUS
<1>2. /\ Tail(tick) \in Seq(NotifyItem)
      /\ (Len(tick) > 1 => Tail(tick) # <<>>)
      /\ DOMAIN Tail(tick) = 1 .. Len(tick) - 1
      /\ \A i \in 1 .. Len(tick) - 1 : Tail(tick)[i] = tick[i + 1]
  <2>1. Tail(tick) \in Seq(NotifyItem) /\ Len(Tail(tick)) = Len(tick) - 1  BY <1>1
  <2>2. DOMAIN Tail(tick) = 1 .. Len(tick) - 1  BY <2>1
  <2>3. Len(tick) > 1 => Tail(tick) # <<>>
    <3> SUFFICES ASSUME Len(tick) > 1, Tail(tick) = <<>> PROVE FALSE  OBVIOUS
    <3>1. Len(<<>>) = 0  OBVIOUS
    <3>2. Len(Tail(tick)) = 0  BY <3>1
    <3> QED BY <2>1, <3>2, <1>1
  <2>4. \A i \in 1 .. Len(tick) - 1 : Tail(tick)[i] = tick[i + 1]  BY <1>1
  <2> QED BY <2>1, <2>2, <2>3, <2>4
<1>3. tick[1] \in NotifyItem /\ tick[1].id \in Messages  BY <1>1, ItemType
<1>4. \A i \in DOMAIN Tail(tick) :
        /\ i + 1 \in DOMAIN tick /\ Tail(tick)[i] = tick[i + 1] /\ i + 1 # 1
        /\ Tail(tick)[i].id # tick[1].id
  <2> TAKE i \in DOMAIN Tail(tick)
  <2>1. i + 1 \in DOMAIN tick /\ Tail(tick)[i] = tick[i + 1] /\ i + 1 # 1  BY <1>1, <1>2
  <2> QED BY <2>1, <1>1 DEF OnePlace
<1>5. \A t \in ticks2 : \A i \in DOMAIN t :
        \/ t \in ticks /\ t # tick
        \/ t = Tail(tick) /\ Len(tick) > 1
  BY <1>0
<1>6. \A t \in ticks2 : \A i \in DOMAIN t : t[i].id # tick[1].id
  <2> TAKE t \in ticks2
  <2> TAKE i \in DOMAIN t
  <2>1. CASE t \in ticks /\ t # tick  BY <2>1, <1>1 DEF OnePlace
  <2>2. CASE t = Tail(tick)  BY <2>2, <1>4
  <2> QED BY <1>5, <2>1, <2>2
<1>7. \A j \in DOMAIN queue : queue[j].id # tick[1].id  BY <1>1 DEF OnePlace
\* Every item of the new ticks was one of the old, at a tick and place of its own.
<1>8. \A m \in Messages \ {tick[1].id} :
        (\E t \in ticks2 : \E i \in DOMAIN t : t[i].id = m) <=>
        (\E t \in ticks : \E i \in DOMAIN t : t[i].id = m)
  <2> TAKE m \in Messages \ {tick[1].id}
  <2>1. ASSUME NEW t \in ticks2, NEW i \in DOMAIN t, t[i].id = m
        PROVE  \E u \in ticks : \E j \in DOMAIN u : u[j].id = m
    <3>1. CASE t \in ticks  BY <3>1, <2>1
    <3>2. CASE t = Tail(tick)  BY <3>2, <2>1, <1>4
    <3> QED BY <1>5, <3>1, <3>2
  <2>2. ASSUME NEW t \in ticks, NEW i \in DOMAIN t, t[i].id = m
        PROVE  \E u \in ticks2 : \E j \in DOMAIN u : u[j].id = m
    <3>1. CASE t # tick  BY <3>1, <2>2, <1>0
    <3>2. CASE t = tick
      <4>1. i \in 1 .. Len(tick) /\ i # 1  BY <3>2, <2>2, <1>1
      <4>2. Len(tick) > 1 /\ i - 1 \in DOMAIN Tail(tick) /\ Tail(tick)[i - 1] = tick[i]
        BY <4>1, <1>1, <1>2
      <4>3. Tail(tick) \in ticks2  BY <4>2, <1>0
      <4> QED BY <4>2, <4>3, <3>2, <2>2
    <3> QED BY <3>1, <3>2
  <2> QED BY <2>1, <2>2
<1>9. \A m \in Messages :
       (fate2[m] = "queued") <=>
         \/ \E i \in DOMAIN queue : queue[i].id = m
         \/ \E t \in ticks2 : \E i \in DOMAIN t : t[i].id = m
  <2> TAKE m \in Messages
  <2>1. CASE m = tick[1].id  BY <2>1, <1>1, <1>6, <1>7
  <2>2. CASE m # tick[1].id  BY <2>2, <1>1, <1>8 DEF OnePlace
  <2> QED BY <2>1, <2>2
<1>10. \A t \in ticks2 : \A i \in DOMAIN t :
       /\ \A j \in DOMAIN queue : queue[j].id # t[i].id
       /\ \A j \in DOMAIN t : t[i].id = t[j].id => i = j
  <2> TAKE t \in ticks2
  <2> TAKE i \in DOMAIN t
  <2>1. CASE t \in ticks  BY <2>1 DEF OnePlace
  <2>2. CASE t = Tail(tick)
    <3>1. i + 1 \in DOMAIN tick /\ t[i] = tick[i + 1]  BY <2>2, <1>4
    <3>2. \A j \in DOMAIN queue : queue[j].id # t[i].id  BY <3>1 DEF OnePlace
    <3>3. ASSUME NEW j \in DOMAIN t, t[i].id = t[j].id PROVE i = j
      <4>1. j + 1 \in DOMAIN tick /\ t[j] = tick[j + 1]  BY <2>2, <1>4
      <4>2. i + 1 = j + 1  BY <3>1, <3>3, <4>1 DEF OnePlace
      <4>3. i \in Int /\ j \in Int  BY <2>2, <1>2
      <4> QED BY <4>2, <4>3
    <3> QED BY <3>2, <3>3
  <2> QED BY <1>5, <2>1, <2>2
<1>11. \A t1, t2 \in ticks2 : \A i \in DOMAIN t1, j \in DOMAIN t2 : t1[i].id = t2[j].id => t1 = t2
  <2> TAKE t1, t2 \in ticks2
  <2> TAKE i \in DOMAIN t1, j \in DOMAIN t2
  <2> HAVE t1[i].id = t2[j].id
  <2>1. CASE t1 \in ticks /\ t2 \in ticks  BY <2>1 DEF OnePlace
  <2>2. CASE t1 \in ticks /\ t1 # tick /\ t2 = Tail(tick)
    <3>1. j + 1 \in DOMAIN tick /\ t2[j] = tick[j + 1]  BY <2>2, <1>4
    <3>2. t1 = tick  BY <3>1, <2>2 DEF OnePlace
    <3> QED BY <3>2, <2>2
  <2>3. CASE t2 \in ticks /\ t2 # tick /\ t1 = Tail(tick)
    <3>1. i + 1 \in DOMAIN tick /\ t1[i] = tick[i + 1]  BY <2>3, <1>4
    <3>2. tick = t2  BY <3>1, <2>3 DEF OnePlace
    <3> QED BY <3>2, <2>3
  <2>4. CASE t1 = Tail(tick) /\ t2 = Tail(tick)  BY <2>4
  <2> QED BY <1>5, <2>1, <2>2, <2>3, <2>4
<1>12. ticks2 \subseteq Seq(NotifyItem) \ {<<>>}  BY <1>0, <1>2
<1>13. fate[Head(tick).id] = "queued"  BY <1>1, <1>3 DEF OnePlace
<1> QED BY <1>7, <1>9, <1>10, <1>11, <1>12, <1>13 DEF OnePlace, ticks2

-----------------------------------------------------------------------------
LEMMA NotifyBegins == NotifyInit => NotifyInv
<1> SUFFICES ASSUME NotifyInit PROVE NotifyInv  OBVIOUS
<1> USE DEF NotifyInit
<1>1. NotifyTypeOK /\ NotifyAwake  BY BackoffGrows DEF NotifyTypeOK, NotifyAwake
<1>2. PromptFor(notifyTimer, notifyQueue) /\ LateIsDue(notifyQueue)
  BY DEF PromptFor, LateIsDue
<1>3. OnePlace(notifyQueue, notifyTicks, notifyFate)
  <2>1. DOMAIN notifyQueue = {}  OBVIOUS
  <2> QED BY <2>1 DEF OnePlace
<1> QED BY <1>1, <1>2, <1>3 DEF NotifyInv

LEMMA EnqueueKeeps ==
  ASSUME NotifyInv, NEW m \in Messages, Enqueue(m)
  PROVE  NotifyInv'
<1> DEFINE item == [id |-> m, attempts |-> 0, wait |-> 0, late |-> 0]
<1> USE DEF NotifyInv
<1>1. item \in NotifyItem /\ item.late = 0  BY BackoffGrows DEF NotifyItem
<1>2. notifyQueue \in Seq(NotifyItem) /\ notifyTimer \in 0 .. LongestBackoff \cup {Unset}
      /\ notifyTicks \in SUBSET Seq(NotifyItem)
  BY DEF NotifyTypeOK
<1>3. notifyQueue' = Append(notifyQueue, item)  BY DEF Enqueue
<1>4. item.id = m  OBVIOUS
<1> HIDE DEF item
<1>5. /\ notifyQueue' \in Seq(NotifyItem) /\ notifyQueue' # <<>>
      /\ LateIsDue(notifyQueue') /\ PromptFor(notifyTimer, notifyQueue')
  BY <1>1, <1>2, <1>3, AppendPrompt
<1>6. notifyTimer' = Scheduled(notifyTimer, notifyQueue')  BY DEF Enqueue
<1>7. notifyTimer' \in 0 .. LongestBackoff /\ PromptFor(notifyTimer', notifyQueue')
  BY <1>2, <1>5, <1>6, SchedulePrompt
<1>8. notifyFate' \in [Messages -> {"unsent", "queued", "sent", "dropped", "lost"}]
  BY DEF NotifyTypeOK, Enqueue
<1>9. NotifyTypeOK'  BY <1>5, <1>7, <1>8 DEF NotifyTypeOK, Enqueue
<1>10. NotifyAwake'  BY <1>7, NotifyAssumption DEF NotifyAwake
<1>11. OnePlace(notifyQueue', notifyTicks', notifyFate')
  <2>1. /\ notifyFate[m] # "queued" /\ notifyFate'[m] = "queued"
        /\ \A x \in Messages \ {m} : notifyFate'[x] = notifyFate[x]
        /\ notifyTicks' = notifyTicks
    BY DEF Enqueue, NotifyTypeOK
  <2> QED BY <2>1, <1>1, <1>2, <1>3, <1>4, AppendOnePlace
<1> QED BY <1>5, <1>7, <1>9, <1>10, <1>11

\* What a filter leaves of the queue: items of the queue, and no id twice.
LEMMA PartOfQueue ==
  ASSUME NEW queue \in Seq(NotifyItem), NEW S,
         \A i, j \in DOMAIN queue : queue[i].id = queue[j].id => i = j
  PROVE  LET kept == Sift(queue, S) IN
         /\ kept \in Seq(NotifyItem) /\ DOMAIN kept = 1 .. Len(kept) /\ Len(kept) \in Nat
         /\ \A k \in DOMAIN kept : kept[k] \in S /\ \E i \in DOMAIN queue : kept[k] = queue[i]
         /\ \A i \in DOMAIN queue : queue[i] \in S => \E k \in DOMAIN kept : kept[k] = queue[i]
         /\ \A k, l \in DOMAIN kept : kept[k].id = kept[l].id => k = l
<1> DEFINE kept == Sift(queue, S)
<1>1. DOMAIN queue = 1 .. Len(queue) /\ Len(queue) \in Nat  OBVIOUS
<1>2. kept \in Seq(NotifyItem)
  <2>1. kept \in Seq(NotifyItem \cap S)  BY SiftType
  <2> QED BY <2>1
<1>3. DOMAIN kept = 1 .. Len(kept) /\ Len(kept) \in Nat  BY <1>2
<1>4. \A k \in 1 .. Len(kept) : kept[k] \in S /\ \E i \in 1 .. Len(queue) : kept[k] = queue[i]
  BY SiftKeeps
<1>5. \A i \in 1 .. Len(queue) : queue[i] \in S => \E k \in 1 .. Len(kept) : kept[k] = queue[i]
  BY SiftKeeps
<1>6. \A k, l \in 1 .. Len(kept) : k < l =>
        \E i, j \in 1 .. Len(queue) : i < j /\ kept[k] = queue[i] /\ kept[l] = queue[j]
  BY SiftOrder
<1> HIDE DEF kept
<1>7. ASSUME NEW k \in 1 .. Len(kept), NEW l \in 1 .. Len(kept), k < l
      PROVE  kept[k].id # kept[l].id
  <2>1. PICK i \in 1 .. Len(queue), j \in 1 .. Len(queue) :
          i < j /\ kept[k] = queue[i] /\ kept[l] = queue[j]
    BY <1>6, <1>7
  <2>2. i # j  BY <2>1
  <2> QED BY <2>1, <2>2, <1>1
<1>8. \A k, l \in DOMAIN kept : kept[k].id = kept[l].id => k = l
  <2> SUFFICES ASSUME NEW k \in 1 .. Len(kept), NEW l \in 1 .. Len(kept),
                      kept[k].id = kept[l].id
               PROVE  k = l
    BY <1>3
  <2> QED BY <1>7
<1>9. \A k \in DOMAIN kept : kept[k] \in S /\ \E i \in DOMAIN queue : kept[k] = queue[i]
  BY <1>1, <1>3, <1>4
<1>10. \A i \in DOMAIN queue : queue[i] \in S => \E k \in DOMAIN kept : kept[k] = queue[i]
  BY <1>1, <1>3, <1>5
<1> QED BY <1>2, <1>3, <1>8, <1>9, <1>10 DEF kept

LEMMA TimerFiresKeeps ==
  ASSUME NotifyInv, TimerFires
  PROVE  NotifyInv'
<1> DEFINE due == Sift(notifyQueue, Due)
           rest == Sift(notifyQueue, NotDue)
<1> USE DEF NotifyInv
<1>1. /\ notifyQueue \in Seq(NotifyItem) /\ notifyTicks \subseteq Seq(NotifyItem) \ {<<>>}
      /\ DOMAIN notifyQueue = 1 .. Len(notifyQueue) /\ Len(notifyQueue) \in Nat
  BY DEF NotifyTypeOK
<1>2. /\ notifyQueue' = rest
      /\ IF due # <<>>
         THEN notifyTicks' = notifyTicks \cup {due} /\ notifyTimer' = Unset
         ELSE /\ notifyTicks' = notifyTicks
              /\ notifyTimer' = IF rest = <<>> THEN Unset ELSE Scheduled(Unset, rest)
      /\ notifyFate' = notifyFate /\ notifyRestarts' = notifyRestarts
  BY DEF TimerFires
<1>3. \A i, j \in DOMAIN notifyQueue : notifyQueue[i].id = notifyQueue[j].id => i = j
  BY DEF OnePlace
<1>4. /\ due \in Seq(NotifyItem) /\ DOMAIN due = 1 .. Len(due) /\ Len(due) \in Nat
      /\ \A k \in DOMAIN due :
           due[k] \in Due /\ \E i \in DOMAIN notifyQueue : due[k] = notifyQueue[i]
      /\ \A i \in DOMAIN notifyQueue :
           notifyQueue[i] \in Due => \E k \in DOMAIN due : due[k] = notifyQueue[i]
      /\ \A k, l \in DOMAIN due : due[k].id = due[l].id => k = l
  BY <1>1, <1>3, PartOfQueue
<1>5. /\ rest \in Seq(NotifyItem) /\ DOMAIN rest = 1 .. Len(rest) /\ Len(rest) \in Nat
      /\ \A k \in DOMAIN rest :
           rest[k] \in NotDue /\ \E i \in DOMAIN notifyQueue : rest[k] = notifyQueue[i]
      /\ \A i \in DOMAIN notifyQueue :
           notifyQueue[i] \in NotDue => \E k \in DOMAIN rest : rest[k] = notifyQueue[i]
      /\ \A k, l \in DOMAIN rest : rest[k].id = rest[l].id => k = l
  BY <1>1, <1>3, PartOfQueue
<1> HIDE DEF due, rest
<1>6. /\ \A k \in DOMAIN due :
           due[k].wait = 0 /\ \E i \in DOMAIN notifyQueue : due[k] = notifyQueue[i]
      /\ \A k \in DOMAIN rest :
           rest[k].wait > 0 /\ \E i \in DOMAIN notifyQueue : rest[k] = notifyQueue[i]
  <2>1. (\A x \in Due : x.wait = 0) /\ (\A x \in NotDue : x.wait > 0)  BY DEF Due, NotDue
  <2> QED BY <2>1, <1>4, <1>5
<1>7. \A i \in DOMAIN notifyQueue :
        \/ \E k \in DOMAIN due : due[k] = notifyQueue[i]
        \/ \E k \in DOMAIN rest : rest[k] = notifyQueue[i]
  <2> TAKE i \in DOMAIN notifyQueue
  <2>1. notifyQueue[i] \in NotifyItem /\ notifyQueue[i].wait \in Nat
    BY <1>1, ItemType
  <2>2. notifyQueue[i] \in Due \/ notifyQueue[i] \in NotDue  BY <2>1 DEF Due, NotDue
  <2> QED BY <2>2, <1>4, <1>5
<1>8. \A k, l \in DOMAIN due : due[k].id = due[l].id => k = l  BY <1>4
<1>9. \A k, l \in DOMAIN rest : rest[k].id = rest[l].id => k = l  BY <1>5
<1>10. \A k \in DOMAIN due, l \in DOMAIN rest : due[k].id # rest[l].id
  <2> SUFFICES ASSUME NEW k \in DOMAIN due, NEW l \in DOMAIN rest, due[k].id = rest[l].id
               PROVE  FALSE
    OBVIOUS
  <2>1. PICK i \in DOMAIN notifyQueue : due[k] = notifyQueue[i]  BY <1>6
  <2>2. PICK j \in DOMAIN notifyQueue : rest[l] = notifyQueue[j]  BY <1>6
  <2>3. i = j  BY <2>1, <2>2 DEF OnePlace
  <2> QED BY <2>1, <2>2, <2>3, <1>6
<1>11. OnePlace(rest, notifyTicks \cup {due}, notifyFate)
  <2> DEFINE ticks == notifyTicks \cup {due}
  <2>1. \A m \in Messages :
          (notifyFate[m] = "queued") <=>
            \/ \E i \in DOMAIN rest : rest[i].id = m
            \/ \E tick \in ticks : \E i \in DOMAIN tick : tick[i].id = m
    <3> TAKE m \in Messages
    <3>1. (\E i \in DOMAIN notifyQueue : notifyQueue[i].id = m) <=>
            \/ \E i \in DOMAIN rest : rest[i].id = m
            \/ \E i \in DOMAIN due : due[i].id = m
      BY <1>6, <1>7
    <3>2. (notifyFate[m] = "queued") <=>
            \/ \E i \in DOMAIN notifyQueue : notifyQueue[i].id = m
            \/ \E tick \in notifyTicks : \E i \in DOMAIN tick : tick[i].id = m
      BY DEF OnePlace
    <3> QED BY <3>1, <3>2
  <2>2. \A tick \in ticks : \A i \in DOMAIN tick :
          /\ \A j \in DOMAIN rest : rest[j].id # tick[i].id
          /\ \A j \in DOMAIN tick : tick[i].id = tick[j].id => i = j
    <3> TAKE tick \in ticks
    <3>1. CASE tick = due  BY <3>1, <1>8, <1>10
    <3>2. CASE tick \in notifyTicks
      <4>1. \A i \in DOMAIN tick : \A j \in DOMAIN rest : rest[j].id # tick[i].id
        BY <3>2, <1>6 DEF OnePlace
      <4> QED BY <4>1, <3>2 DEF OnePlace
    <3> QED BY <3>1, <3>2
  <2>3. \A tick \in notifyTicks : \A i \in DOMAIN tick, j \in DOMAIN due : tick[i].id # due[j].id
    BY <1>6 DEF OnePlace
  <2>4. \A t1, t2 \in ticks : \A i \in DOMAIN t1, j \in DOMAIN t2 : t1[i].id = t2[j].id => t1 = t2
    <3> TAKE t1, t2 \in ticks
    <3>1. CASE t1 = due /\ t2 = due  BY <3>1
    <3>2. CASE t1 = due /\ t2 \in notifyTicks  BY <3>2, <2>3
    <3>3. CASE t2 = due /\ t1 \in notifyTicks  BY <3>3, <2>3
    <3>4. CASE t1 \in notifyTicks /\ t2 \in notifyTicks  BY <3>4 DEF OnePlace
    <3> QED BY <3>1, <3>2, <3>3, <3>4
  <2> QED BY <1>9, <2>1, <2>2, <2>4 DEF OnePlace
<1>12. LateIsDue(rest)
  BY <1>6 DEF LateIsDue
<1>13. CASE due # <<>>
  <2>1. NotifyTypeOK'  BY <1>2, <1>4, <1>5, <1>13 DEF NotifyTypeOK
  <2>2. NotifyAwake' /\ PromptFor(notifyTimer', notifyQueue')
    BY <1>2, <1>13 DEF NotifyAwake, PromptFor
  <2> QED BY <1>2, <1>11, <1>12, <1>13, <2>1, <2>2
<1>14. CASE due = <<>>
  <2>1. OnePlace(rest, notifyTicks, notifyFate)
    <3>1. DOMAIN due = {}  BY <1>14
    <3> QED BY <3>1, <1>11 DEF OnePlace
  <2>2. PromptFor(Unset, rest)  BY DEF PromptFor
  <2>3. CASE rest = <<>>
    <3>1. NotifyTypeOK'  BY <1>2, <1>4, <1>5, <1>14, <2>3 DEF NotifyTypeOK
    <3> QED BY <3>1, <2>1, <2>2, <2>3, <1>2, <1>12, <1>14 DEF NotifyAwake
  <2>4. CASE rest # <<>>
    <3>1. /\ notifyTimer' \in 0 .. LongestBackoff
          /\ PromptFor(notifyTimer', rest)
      <4>1. rest \in Seq(NotifyItem)  BY <1>5
      <4>2. notifyTimer' = Scheduled(Unset, rest)  BY <1>2, <1>14, <2>4
      <4> QED BY <4>1, <4>2, <1>12, <2>2, <2>4, SchedulePrompt
    <3>2. NotifyTypeOK'  BY <3>1, <1>2, <1>4, <1>5, <1>14 DEF NotifyTypeOK
    <3>3. NotifyAwake'  BY <3>1, NotifyAssumption DEF NotifyAwake
    <3> QED BY <3>1, <3>2, <3>3, <2>1, <1>2, <1>12, <1>14
  <2> QED BY <2>3, <2>4
<1> QED BY <1>13, <1>14

\* What TickGoesOn leaves to the timer is right for any queue the send has left.
LEMMA GoesOnKeeps ==
  ASSUME NEW tick \in notifyTicks, NEW queue \in Seq(NotifyItem),
         notifyTimer \in 0 .. LongestBackoff \cup {Unset},
         notifyTicks \subseteq Seq(NotifyItem) \ {<<>>},
         LateIsDue(queue), PromptFor(notifyTimer, queue),
         TickGoesOn(tick, queue)
  PROVE  /\ notifyTicks' = Without(notifyTicks, tick)
         /\ notifyTimer' \in 0 .. LongestBackoff \cup {Unset}
         /\ PromptFor(notifyTimer', queue)
         /\ queue # <<>> => notifyTimer' # Unset \/ notifyTicks' # {}
<1>1. CASE Len(tick) > 1  BY <1>1 DEF TickGoesOn, Without
<1>2. CASE ~(Len(tick) > 1) /\ queue = <<>>  BY <1>2 DEF TickGoesOn, Without
<1>3. CASE ~(Len(tick) > 1) /\ queue # <<>>
  <2>1. notifyTimer' = Scheduled(notifyTimer, queue)  BY <1>3 DEF TickGoesOn
  <2>2. /\ notifyTimer' \in 0 .. LongestBackoff
        /\ PromptFor(notifyTimer', queue)
    BY <2>1, <1>3, SchedulePrompt
  <2>3. notifyTimer' # Unset  BY <2>2, NotifyAssumption
  <2> QED BY <1>3, <2>2, <2>3 DEF TickGoesOn, Without
<1> QED BY <1>1, <1>2, <1>3

LEMMA SendSucceedsKeeps ==
  ASSUME NotifyInv, NEW tick \in notifyTicks, SendSucceeds(tick)
  PROVE  NotifyInv'
<1> USE DEF NotifyInv
<1>1. /\ notifyQueue' = notifyQueue /\ notifyRestarts' = notifyRestarts
      /\ notifyFate' = [notifyFate EXCEPT ![Head(tick).id] = "sent"]
      /\ TickGoesOn(tick, notifyQueue)
  BY DEF SendSucceeds
<1>2. /\ notifyTicks' = Without(notifyTicks, tick)
      /\ notifyTimer' \in 0 .. LongestBackoff \cup {Unset}
      /\ PromptFor(notifyTimer', notifyQueue)
      /\ notifyQueue # <<>> => notifyTimer' # Unset \/ notifyTicks' # {}
  BY <1>1, GoesOnKeeps DEF NotifyTypeOK
<1>3. /\ notifyFate'[Head(tick).id] # "queued"
      /\ \A m \in Messages \ {Head(tick).id} : notifyFate'[m] = notifyFate[m]
      /\ notifyFate' \in [Messages -> {"unsent", "queued", "sent", "dropped", "lost"}]
  <2>1. tick \in Seq(NotifyItem) /\ tick # <<>>  BY DEF NotifyTypeOK
  <2>2. Head(tick) \in NotifyItem  BY <2>1
  <2>3. Head(tick).id \in Messages  BY <2>2 DEF NotifyItem
  <2> QED BY <1>1, <2>3 DEF NotifyTypeOK
<1>4. /\ OnePlace(notifyQueue, notifyTicks', notifyFate')
      /\ notifyTicks' \subseteq Seq(NotifyItem) \ {<<>>}
  BY <1>2, <1>3, HeadLeaves DEF NotifyTypeOK
<1>5. NotifyTypeOK'  BY <1>1, <1>2, <1>3, <1>4 DEF NotifyTypeOK
<1> QED BY <1>1, <1>2, <1>4, <1>5 DEF NotifyAwake

LEMMA SendFailsKeeps ==
  ASSUME NotifyInv, NEW tick \in notifyTicks, SendFails(tick)
  PROVE  NotifyInv'
<1> DEFINE item == Head(tick)
           attempts == item.attempts + 1
           again == [item EXCEPT !.attempts = attempts, !.wait = Backoff(attempts), !.late = 0]
           ticks2 == Without(notifyTicks, tick)
           fate2 == [notifyFate EXCEPT ![item.id] = "dropped"]
<1> USE DEF NotifyInv
<1>1. item \in NotifyItem
  <2>1. tick \in Seq(NotifyItem) /\ tick # <<>>  BY DEF NotifyTypeOK
  <2> QED BY <2>1
<1>2. item.id \in Messages /\ item.attempts \in 0 .. MAX_ATTEMPTS - 1  BY <1>1 DEF NotifyItem
<1>3. /\ notifyRestarts' = notifyRestarts
      /\ TickGoesOn(tick, notifyQueue')
      /\ IF attempts >= MAX_ATTEMPTS
         THEN notifyFate' = fate2 /\ notifyQueue' = notifyQueue
         ELSE notifyQueue' = Append(notifyQueue, again) /\ notifyFate' = notifyFate
  BY DEF SendFails
<1>4. /\ fate2[item.id] # "queued"
      /\ \A m \in Messages \ {item.id} : fate2[m] = notifyFate[m]
      /\ fate2 \in [Messages -> {"unsent", "queued", "sent", "dropped", "lost"}]
  BY <1>2 DEF NotifyTypeOK
<1>5. /\ OnePlace(notifyQueue, ticks2, fate2)
      /\ ticks2 \subseteq Seq(NotifyItem) \ {<<>>}
      /\ notifyFate[item.id] = "queued"
  <2> HIDE DEF fate2
  <2>1. notifyQueue \in Seq(NotifyItem)
        /\ notifyTicks \subseteq Seq(NotifyItem) \ {<<>>}
    BY DEF NotifyTypeOK
  <2>2. OnePlace(notifyQueue, notifyTicks, notifyFate)  OBVIOUS
  <2>3. fate2[Head(tick).id] # "queued"
        /\ \A m \in Messages \ {Head(tick).id} : fate2[m] = notifyFate[m]
    BY <1>4
  <2>4. /\ OnePlace(notifyQueue, Without(notifyTicks, tick), fate2)
        /\ Without(notifyTicks, tick) \subseteq Seq(NotifyItem) \ {<<>>}
        /\ notifyFate[Head(tick).id] = "queued"
    <3>1. ASSUME NEW after, after[Head(tick).id] # "queued",
                 \A m \in Messages \ {Head(tick).id} : after[m] = notifyFate[m]
          PROVE  /\ OnePlace(notifyQueue, Without(notifyTicks, tick), after)
                 /\ Without(notifyTicks, tick) \subseteq Seq(NotifyItem) \ {<<>>}
                 /\ notifyFate[Head(tick).id] = "queued"
      BY <3>1, HeadLeaves DEF NotifyTypeOK
    <3> QED BY <2>3, <3>1
  <2> QED BY <2>4
<1>6. notifyQueue \in Seq(NotifyItem) /\ notifyTimer \in 0 .. LongestBackoff \cup {Unset}
      /\ notifyTicks \subseteq Seq(NotifyItem) \ {<<>>} /\ notifyRestarts \in 0 .. MaxRestarts
      /\ notifyFate \in [Messages -> {"unsent", "queued", "sent", "dropped", "lost"}]
  BY DEF NotifyTypeOK
<1>7. /\ notifyQueue' \in Seq(NotifyItem) /\ LateIsDue(notifyQueue')
      /\ PromptFor(notifyTimer, notifyQueue')
      /\ OnePlace(notifyQueue', ticks2, notifyFate')
      /\ notifyFate' \in [Messages -> {"unsent", "queued", "sent", "dropped", "lost"}]
  <2>1. CASE attempts >= MAX_ATTEMPTS
    <3> HIDE DEF fate2, ticks2
    <3> QED BY <2>1, <1>3, <1>4, <1>5, <1>6
  <2>2. CASE ~(attempts >= MAX_ATTEMPTS)
    <3>1. attempts \in 1 .. MAX_ATTEMPTS - 1  BY <1>2, <2>2
    <3>2. Backoff(attempts) \in 0 .. LongestBackoff /\ 0 \in 0 .. LongestBackoff
      BY <3>1, BackoffGrows
    <3> HIDE DEF attempts
    <3>a. attempts \in 0 .. MAX_ATTEMPTS - 1  BY <3>1
    <3>3. again \in NotifyItem /\ again.late = 0 /\ again.id = item.id
      <4> HIDE DEF item
      <4>1. again \in NotifyItem  BY <1>1, <3>a, <3>2 DEF NotifyItem
      <4>2. again.late = 0  BY <1>1 DEF NotifyItem
      <4>3. again.id = item.id  BY <1>1 DEF NotifyItem
      <4> QED BY <4>1, <4>2, <4>3
    <3>4. notifyQueue' = Append(notifyQueue, again) /\ notifyFate' = notifyFate
      BY <1>3, <2>2
    <3> HIDE DEF again, fate2, ticks2, item
    <3>5. OnePlace(Append(notifyQueue, again), ticks2, notifyFate)
      <4>1. /\ fate2[again.id] # "queued" /\ notifyFate[again.id] = "queued"
            /\ \A m \in Messages \ {again.id} : notifyFate[m] = fate2[m]
        BY <1>4, <1>5, <3>3
      <4>2. ticks2 \in SUBSET Seq(NotifyItem)  BY <1>5
      <4> QED BY <4>1, <4>2, <1>5, <1>6, <3>3, AppendOnePlace
    <3> QED BY <3>3, <3>4, <3>5, <1>6, AppendPrompt
  <2> QED BY <2>1, <2>2
<1> HIDE DEF attempts, again, fate2, item
<1>8. /\ notifyTicks' = ticks2
      /\ notifyTimer' \in 0 .. LongestBackoff \cup {Unset}
      /\ PromptFor(notifyTimer', notifyQueue')
      /\ notifyQueue' # <<>> => notifyTimer' # Unset \/ notifyTicks' # {}
  BY <1>3, <1>6, <1>7, GoesOnKeeps
<1> HIDE DEF ticks2
<1>9. NotifyTypeOK'  BY <1>3, <1>5, <1>6, <1>7, <1>8 DEF NotifyTypeOK
<1> QED BY <1>7, <1>8, <1>9 DEF NotifyAwake

LEMMA NotifyTimeKeeps ==
  ASSUME NotifyInv, NotifyTime
  PROVE  NotifyInv'
<1> USE DEF NotifyInv
<1>1. /\ notifyTimer # 0
      /\ notifyTimer' = IF notifyTimer = Unset THEN Unset ELSE notifyTimer - 1
      /\ notifyQueue' = [i \in DOMAIN notifyQueue |-> Passes(notifyQueue[i])]
      /\ notifyTicks' = notifyTicks /\ notifyFate' = notifyFate
      /\ notifyRestarts' = notifyRestarts
  BY DEF NotifyTime
<1>2. /\ notifyQueue \in Seq(NotifyItem)
      /\ notifyTimer \in 0 .. LongestBackoff \cup {Unset}
  BY DEF NotifyTypeOK
<1>3. /\ DOMAIN notifyQueue = 1 .. Len(notifyQueue) /\ Len(notifyQueue) \in Nat
      /\ \A i \in DOMAIN notifyQueue : notifyQueue[i] \in NotifyItem
  BY <1>2, ItemType
<1>4. /\ DOMAIN notifyQueue' = DOMAIN notifyQueue
      /\ \A i \in DOMAIN notifyQueue : notifyQueue'[i] = Passes(notifyQueue[i])
  BY <1>1
\* While no send runs a message that is due has a timer, which comes closer as it gets late.
<1>5. \A i \in DOMAIN notifyQueue :
        notifyTicks = {} => notifyQueue[i].late < LongestBackoff
  <2> SUFFICES ASSUME NEW i \in DOMAIN notifyQueue, notifyTicks = {}
               PROVE  notifyQueue[i].late < LongestBackoff
    OBVIOUS
  <2>1. notifyQueue # <<>>  BY <1>3
  <2>2. notifyTimer # Unset  BY <2>1 DEF NotifyAwake
  <2>3. notifyTimer \in Nat \ {0}  BY <1>1, <1>2, <2>2, BackoffGrows
  <2>4. notifyQueue[i].late + notifyTimer <= LongestBackoff  BY <2>2 DEF PromptFor
  <2>5. notifyQueue[i].late \in Nat  BY <1>2, ItemType
  <2> QED BY <2>3, <2>4, <2>5, BackoffGrows
<1>6. \A i \in DOMAIN notifyQueue :
        LET before == notifyQueue[i]
            after == notifyQueue'[i]
        IN /\ after \in NotifyItem
           /\ after.id = before.id
           /\ after.wait = IF before.wait = 0 THEN 0 ELSE before.wait - 1
           /\ after.late = IF before.wait = 0 /\ notifyTicks = {} THEN before.late + 1
                           ELSE before.late
  <2> TAKE i \in DOMAIN notifyQueue
  <2> DEFINE before == notifyQueue[i]
             w == IF before.wait = 0 THEN 0 ELSE before.wait - 1
             l == IF before.wait = 0 /\ notifyTicks = {} THEN before.late + 1 ELSE before.late
  <2>1. /\ before \in NotifyItem
        /\ before.wait \in 0 .. LongestBackoff /\ before.late \in 0 .. LongestBackoff
    BY <1>2, <1>3, ItemType
  <2>2. LongestBackoff \in Nat  BY BackoffGrows
  <2>3. notifyTicks = {} => before.late < LongestBackoff  BY <1>5
  <2>4. notifyQueue'[i] = Passes(before)  BY <1>4
  <2> HIDE DEF before
  <2>5. w \in 0 .. LongestBackoff /\ l \in 0 .. LongestBackoff  BY <2>1, <2>2, <2>3
  <2>6. Passes(before) = [before EXCEPT !.wait = w, !.late = l]
    <3>1. before.late <= LongestBackoff  BY <2>1, <2>2
    <3>2. before.late = before["late"]  OBVIOUS
    <3> QED BY <2>1, <3>1, <3>2 DEF Passes, NotifyItem
  <2> HIDE DEF w, l
  <2>7. /\ Passes(before) \in NotifyItem /\ Passes(before).id = before.id
        /\ Passes(before).wait = w /\ Passes(before).late = l
    BY <2>1, <2>5, <2>6 DEF NotifyItem
  <2> QED BY <2>4, <2>7 DEF before, w, l
<1>7. notifyQueue' \in Seq(NotifyItem)
  BY <1>1, <1>3, <1>4, <1>6
<1>8. LateIsDue(notifyQueue')
  <2> SUFFICES ASSUME NEW i \in DOMAIN notifyQueue, notifyQueue'[i].late > 0
               PROVE  notifyQueue'[i].wait = 0
    BY <1>4 DEF LateIsDue
  <2>1. CASE notifyQueue[i].wait = 0  BY <2>1, <1>6
  <2>2. CASE notifyQueue[i].wait # 0
    <3>1. notifyQueue'[i].late = notifyQueue[i].late  BY <2>2, <1>6
    <3> QED BY <3>1, <2>2 DEF LateIsDue
  <2> QED BY <2>1, <2>2
<1>9. notifyTimer' \in 0 .. LongestBackoff \cup {Unset}
  BY <1>1, <1>2, BackoffGrows
<1>10. PromptFor(notifyTimer', notifyQueue')
  <2> SUFFICES ASSUME notifyTimer' # Unset
               PROVE  /\ \E k \in DOMAIN notifyQueue' :
                           /\ notifyQueue'[k].wait = notifyTimer'
                           /\ \A i \in 1 .. k : notifyQueue'[i].wait >= notifyTimer'
                      /\ \A i \in DOMAIN notifyQueue' :
                           notifyQueue'[i].late + notifyTimer' <= LongestBackoff
    BY DEF PromptFor
  <2>1. /\ notifyTimer # Unset /\ notifyTimer \in Nat \ {0}
        /\ notifyTimer' = notifyTimer - 1
    BY <1>1, <1>2, BackoffGrows
  <2>2. PICK k \in DOMAIN notifyQueue :
          /\ notifyQueue[k].wait = notifyTimer
          /\ \A i \in 1 .. k : notifyQueue[i].wait >= notifyTimer
    BY <2>1 DEF PromptFor
  <2>3. \A i \in 1 .. k : i \in DOMAIN notifyQueue  BY <1>3
  <2>4. \A i \in DOMAIN notifyQueue : notifyQueue[i].wait \in Nat /\ notifyQueue[i].late \in Nat
    BY <1>2, ItemType
  <2>5. \A i \in 1 .. k : notifyQueue'[i].wait >= notifyTimer'
    BY <1>6, <2>1, <2>2, <2>3, <2>4
  <2>6. notifyQueue'[k].wait = notifyTimer'  BY <1>6, <2>1, <2>2, <2>4
  <2>7. ASSUME NEW i \in DOMAIN notifyQueue
        PROVE  notifyQueue'[i].late + notifyTimer' <= LongestBackoff
    <3>1. notifyQueue[i].late + notifyTimer <= LongestBackoff  BY <2>1 DEF PromptFor
    <3>2. notifyQueue'[i].late <= notifyQueue[i].late + 1
          /\ notifyQueue'[i].late \in Nat
      BY <1>6, <2>4
    <3> QED BY <3>1, <3>2, <2>1, <2>4, BackoffGrows
  <2> QED BY <1>4, <2>2, <2>5, <2>6, <2>7
<1>11. OnePlace(notifyQueue', notifyTicks', notifyFate')
  <2>1. \A i \in DOMAIN notifyQueue : notifyQueue'[i].id = notifyQueue[i].id  BY <1>6
  <2> QED BY <1>1, <1>4, <2>1 DEF OnePlace
<1>12. NotifyTypeOK'  BY <1>1, <1>7, <1>9 DEF NotifyTypeOK
<1>13. NotifyAwake'
  <2>1. notifyQueue' # <<>> => notifyQueue # <<>>  BY <1>1
  <2>2. notifyTimer # Unset => notifyTimer' # Unset  BY <1>1, <1>2, NotifyAssumption, BackoffGrows
  <2> QED BY <1>1, <2>1, <2>2 DEF NotifyAwake
<1> QED BY <1>8, <1>10, <1>11, <1>12, <1>13

LEMMA NotifyRestartKeeps ==
  ASSUME NotifyInv, NotifyRestart
  PROVE  NotifyInv'
<1> USE DEF NotifyInv
<1>1. /\ notifyQueue' = <<>> /\ notifyTimer' = Unset /\ notifyTicks' = {}
      /\ notifyFate' = [m \in Messages |-> IF notifyFate[m] = "queued" THEN "lost" ELSE notifyFate[m]]
      /\ notifyRestarts' \in 0 .. MaxRestarts
  BY NotifyAssumption DEF NotifyRestart, NotifyTypeOK
<1>2. notifyFate' \in [Messages -> {"unsent", "queued", "sent", "dropped", "lost"}]
  BY <1>1 DEF NotifyTypeOK
<1>3. NotifyTypeOK' /\ NotifyAwake'  BY <1>1, <1>2 DEF NotifyTypeOK, NotifyAwake
<1>4. PromptFor(notifyTimer', notifyQueue') /\ LateIsDue(notifyQueue')
  BY <1>1 DEF PromptFor, LateIsDue
<1>5. OnePlace(notifyQueue', notifyTicks', notifyFate')
  <2>1. DOMAIN notifyQueue' = {}  BY <1>1
  <2>2. \A m \in Messages : notifyFate'[m] # "queued"  BY <1>1
  <2> QED BY <1>1, <2>1, <2>2 DEF OnePlace
<1> QED BY <1>3, <1>4, <1>5

LEMMA NotifyStep == NotifyInv /\ [NotifyNext]_notifyVars => NotifyInv'
<1> SUFFICES ASSUME NotifyInv, [NotifyNext]_notifyVars PROVE NotifyInv'  OBVIOUS
<1>1. CASE \E m \in Messages : Enqueue(m)  BY <1>1, EnqueueKeeps
<1>2. CASE TimerFires  BY <1>2, TimerFiresKeeps
<1>3. CASE \E tick \in notifyTicks : SendSucceeds(tick)  BY <1>3, SendSucceedsKeeps
<1>4. CASE \E tick \in notifyTicks : SendFails(tick)  BY <1>4, SendFailsKeeps
<1>5. CASE NotifyTime  BY <1>5, NotifyTimeKeeps
<1>6. CASE NotifyRestart  BY <1>6, NotifyRestartKeeps
<1>7. CASE UNCHANGED notifyVars
  BY <1>7 DEF notifyVars, NotifyInv, NotifyTypeOK, NotifyAwake
<1> QED BY <1>1, <1>2, <1>3, <1>4, <1>5, <1>6, <1>7 DEF NotifyNext

LEMMA NotifyInvKept == NotifyInv => NotifyKept
<1> SUFFICES ASSUME NotifyInv PROVE NotifyKept  OBVIOUS
<1>1. NotifyAwake  BY DEF NotifyInv
<1>2. NotifyPrompt  BY DEF NotifyInv, NotifyPrompt, PromptFor
<1>3. OnePlace(notifyQueue, notifyTicks, notifyFate)  BY DEF NotifyInv
<1>4. NotifyOnePlace
  <2>1. \A m \in Messages :
          (notifyFate[m] = "queued") <=>
            (m \in WaitingIds \/ \E tick \in notifyTicks : m \in SendingIds(tick))
    BY <1>3 DEF OnePlace, WaitingIds, SendingIds
  <2>2. \A i, j \in DOMAIN notifyQueue : notifyQueue[i].id = notifyQueue[j].id => i = j
    BY <1>3 DEF OnePlace
  <2>3. \A tick \in notifyTicks :
          /\ SendingIds(tick) \cap WaitingIds = {}
          /\ \A i, j \in DOMAIN tick : tick[i].id = tick[j].id => i = j
    BY <1>3 DEF OnePlace, WaitingIds, SendingIds
  <2>4. \A t1, t2 \in notifyTicks : SendingIds(t1) \cap SendingIds(t2) # {} => t1 = t2
    BY <1>3 DEF OnePlace, SendingIds
  <2> QED BY <2>1, <2>2, <2>3, <2>4 DEF NotifyOnePlace
<1> QED BY <1>1, <1>2, <1>4 DEF NotifyKept

(* The queue never sleeps on a message, its timer is right for what waits, and no   *)
(* message is in two places, through overlapping ticks, failed sends and restarts.  *)
THEOREM NotifyQueueKept == NotifySpec => [](NotifyTypeOK /\ NotifyKept)
<1>1. NotifyInv => NotifyTypeOK  BY DEF NotifyInv
<1> QED BY NotifyBegins, NotifyStep, NotifyInvKept, <1>1, PTL DEF NotifySpec

HIDE NotifyAssumption

(***************************************************************************)
(* The monitor's loop.                                                     *)
(***************************************************************************)
\* A last round is no longer ago than the wait that began then, however often rounds were
\* run by hand; or there was none.
LoopInv ==
  /\ LoopTypeOK
  /\ untilRound <= CurrentDelay(failures)
  /\ sinceRun = NeverRun \/ sinceRun + untilRound <= CurrentDelay(failures)

\* The wait is at least one interval and at most the cap.
LEMMA DelayType == \A n \in Nat : CurrentDelay(n) \in 1 .. MaxBackoff
<1>1. \A n \in Nat : Power(2, n) \in Nat \ {0}  BY PowerGrows
<1> QED BY <1>1, LoopAssumption DEF CurrentDelay, Smaller

LEMMA LoopBegins == LoopInit => LoopInv
<1>1. CurrentDelay(0) = 1 /\ NeverRun \in Nat  BY LoopAssumption DEF CurrentDelay, NeverRun
<1>2. SUFFICES ASSUME LoopInit PROVE LoopInv  OBVIOUS
<1>3. /\ failures = 0 /\ untilRound = 1 /\ sinceRun = NeverRun /\ reachable \in BOOLEAN
      /\ wasDown = FALSE /\ wasStale = FALSE
  BY <1>1, <1>2 DEF LoopInit
<1>4. failures \in 0 .. MaxBackoff /\ untilRound \in 0 .. MaxBackoff /\ sinceRun \in 0 .. NeverRun
  BY <1>1, <1>3, LoopAssumption
<1>5. untilRound <= CurrentDelay(failures)  BY <1>1, <1>3
<1>6. LoopTypeOK  BY <1>3, <1>4 DEF LoopTypeOK
<1> QED BY <1>3, <1>5, <1>6 DEF LoopInv

LEMMA LoopStep == LoopInv /\ [LoopNext]_loopVars => LoopInv'
<1> SUFFICES ASSUME LoopInv, [LoopNext]_loopVars PROVE LoopInv'  OBVIOUS
<1> USE LoopAssumption DEF LoopInv, LoopTypeOK
<1>0. /\ \A n \in 0 .. MaxBackoff : CurrentDelay(n) \in 1 .. MaxBackoff
      /\ NeverRun \in Nat
  BY DelayType DEF NeverRun
<1>1. CASE BackendComesOrGoes  BY <1>1 DEF BackendComesOrGoes
<1>2. CASE LoopTime
  <2>1. sinceRun' \in 0 .. NeverRun  BY <1>0, <1>2 DEF LoopTime, Smaller
  <2> QED BY <1>0, <1>2, <2>1 DEF LoopTime, Smaller
<1>3. CASE LoopRound
  <2>1. failures' \in 0 .. MaxBackoff  BY <1>3 DEF LoopRound, Smaller
  <2>2. /\ sinceRun' = 0 /\ untilRound' = CurrentDelay(failures')
        /\ wasDown' \in BOOLEAN /\ wasStale' \in BOOLEAN /\ reachable' \in BOOLEAN
    BY <1>3 DEF LoopRound
  <2> QED BY <1>0, <2>1, <2>2
<1>4. CASE ManualRound  BY <1>0, <1>4 DEF ManualRound
<1>5. CASE LoopRestart
  <2>1. CurrentDelay(0) = 1  BY DEF CurrentDelay
  <2>2. /\ failures' = 0 /\ untilRound' = 1 /\ sinceRun' = NeverRun
        /\ wasDown' = FALSE /\ wasStale' = FALSE /\ reachable' = reachable
    BY <1>5, <2>1 DEF LoopRestart
  <2>3. failures' \in 0 .. MaxBackoff /\ untilRound' \in 0 .. MaxBackoff
        /\ sinceRun' \in 0 .. NeverRun /\ untilRound' <= CurrentDelay(failures')
    BY <1>0, <2>1, <2>2
  <2> QED BY <2>2, <2>3
<1>6. CASE UNCHANGED loopVars  BY <1>6 DEF loopVars
<1> QED BY <1>1, <1>2, <1>3, <1>4, <1>5, <1>6 DEF LoopNext

(* The loop's variables keep their types.                                    *)
THEOREM LoopTypes == LoopSpec => []LoopTypeOK
<1>1. LoopInv => LoopTypeOK  BY DEF LoopInv
<1> QED BY LoopBegins, LoopStep, <1>1, PTL DEF LoopSpec

(* A heartbeat found late, after one that was not, is a host's first or that of a    *)
(* loop whose backoff was longer than the limit: LateOnlyInBackoff.              *)
THEOREM LateOnlyInBackoffHolds == LoopSpec => LateOnlyInBackoff
<1>1. LoopInv /\ [LoopNext]_loopVars =>
        [~wasStale /\ wasStale' => sinceRun = NeverRun \/ CurrentDelay(failures) > StaleAfter]_loopVars
  <2> SUFFICES ASSUME LoopInv, LoopNext, ~wasStale, wasStale'
               PROVE  sinceRun = NeverRun \/ CurrentDelay(failures) > StaleAfter
    OBVIOUS
  <2>1. LoopRound
    BY DEF LoopNext, BackendComesOrGoes, LoopTime, ManualRound, LoopRestart
  <2>2. untilRound = 0 /\ sinceRun > StaleAfter  BY <2>1 DEF LoopRound
  <2>3. CurrentDelay(failures) \in Nat /\ sinceRun \in Nat
    BY DelayType, LoopAssumption DEF LoopInv, LoopTypeOK, NeverRun
  <2> QED BY <2>2, <2>3, LoopAssumption DEF LoopInv
<1> QED BY LoopBegins, LoopStep, <1>1, PTL DEF LoopSpec, LateOnlyInBackoff

(***************************************************************************)
(* The services together.                                                  *)
(***************************************************************************)

\* Whatever part moves, each of the services takes one of its own steps or rests.
LEMMA ServicesCompose ==
  ServicesSpec => Spec /\ NotifySpec /\ DelegationSpec /\ WatchSpec /\ LoopSpec
<1>1. ServicesInit => Init /\ NotifyInit /\ DelegationInit /\ WatchInit /\ LoopInit
  BY DEF ServicesInit
<1>2. ASSUME [ServicesNext]_servicesVars
      PROVE  /\ [Next]_vars /\ [NotifyNext]_notifyVars /\ [DelegationNext]_delegationVars
             /\ [WatchNext]_watchVars /\ [LoopNext]_loopVars
  <2>1. CASE Of("orders") /\ Next  BY <2>1 DEF Of, Rests
  <2>2. CASE Of("notify") /\ NotifyNext  BY <2>2 DEF Of, Rests
  <2>3. CASE Of("delegation") /\ DelegationNext  BY <2>3 DEF Of, Rests
  <2>4. CASE Of("watches") /\ WatchNext  BY <2>4 DEF Of, Rests
  <2>5. CASE Of("loop") /\ LoopNext  BY <2>5 DEF Of, Rests
  <2>6. CASE UNCHANGED servicesVars  BY <2>6 DEF servicesVars
  <2> QED BY <1>2, <2>1, <2>2, <2>3, <2>4, <2>5, <2>6 DEF ServicesNext
<1> QED
  BY <1>1, <1>2, PTL
  DEF ServicesSpec, Spec, NotifySpec, DelegationSpec, WatchSpec, LoopSpec

(* Every variable of the services keeps its type.                            *)
THEOREM ServicesTypes == ServicesSpec => []ServicesTypeOK
<1>1. TypeOK /\ NotifyTypeOK /\ DelegationTypeOK /\ WatchTypeOK /\ LoopTypeOK => ServicesTypeOK
  BY DEF ServicesTypeOK
<1> QED
  BY <1>1, ServicesCompose, TypeCorrect, NotifyQueueKept, DelegationTypes, WatchTypes, LoopTypes,
     PTL
=============================================================================
