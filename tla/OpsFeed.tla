------------------------------ MODULE OpsFeed ------------------------------
(***************************************************************************)
(* What the operators are told (host.py, proactive.py): complaints of the chat    *)
(* become tickets, one for each matter (a customer with an order, or with none),   *)
(* that gather the messages and their severity; the monitor's rounds tell of      *)
(* tickets nobody has answered and of situations in the shop, each situation once  *)
(* in a repeat time.  A turn awaits Jev before it opens a ticket, a round awaits    *)
(* the gate that judges an alert, and rounds may overlap.                         *)
(*                                                                         *)
(* Nothing calls TicketStore.resolve, so a ticket stays open; the clean-up        *)
(* removes only resolved ones.  That the feed drops its oldest alerts at its cap    *)
(* is in ListStore; a round that cannot reach the backend ends before it tells        *)
(* anything and changes nothing here.                                       *)
(***************************************************************************)
EXTENDS Integers, Sequences, FiniteSets

CONSTANTS
  Matters,          \* customer and order of a complaint
  Severities,       \* what Jev may answer: low, normal, urgent (jev.py)
  FeedTurns,        \* bound: turns that await Jev at a time
  FeedRounds,       \* bound: rounds that await the gate at a time
  Situations,       \* what a round may find in the shop: low stock, many open orders
  Calm,             \* nothing to tell
  SlaHours, BucketHours, RepeatHours,
  MaxNamed,         \* how many tickets an alert names
  MaxQuiet          \* bound: hours a ticket's silence is counted

ASSUME FeedAssumption ==
  /\ Calm \notin Situations
  /\ "none" \notin Severities
  /\ {SlaHours, BucketHours, RepeatHours, MaxNamed} \subseteq Nat \ {0}
  /\ MaxQuiet \in Nat /\ MaxQuiet > SlaHours

VARIABLES
  ticketList,       \* the open tickets, in the order of the store
  listening,        \* the matter for which each turn awaits Jev
  shopState,        \* the situation of the shop
  gated,            \* the situation for which each round awaits the gate
  alertSeen,        \* _alert_seen: what was told in the repeat time, and how long ago
  scanned,          \* history: a round that could name all that was overdue has ended this hour
  heard,            \* history: the severities of the complaints of each matter
  counted,          \* history: hours since an alert counted the matter as overdue
  toldTwice         \* history: one host told one situation twice in a repeat time

feedVars == <<ticketList, listening, shopState, gated, alertSeen, scanned, heard, counted,
              toldTwice>>

NoMatter == [matter |-> "none"]
Idle == [state |-> "idle"]

FeedTypeOK ==
  /\ \A i \in DOMAIN ticketList :
       ticketList[i] \in [matter : Matters, severity : Severities \cup {"none"}, quiet : 0 .. MaxQuiet]
  /\ listening \in [FeedTurns -> Matters \cup {NoMatter}]
  /\ shopState \in Situations \cup {Calm}
  /\ gated \in [FeedRounds -> Situations \cup {Idle}]
  /\ \A seen \in alertSeen : seen.ago \in 0 .. RepeatHours - 1
  /\ scanned \in BOOLEAN /\ toldTwice \in BOOLEAN
  /\ heard \in [Matters -> SUBSET Severities]
  /\ counted \in [Matters -> 0 .. RepeatHours]

FeedInit ==
  /\ ticketList = <<>>
  /\ listening = [t \in FeedTurns |-> NoMatter]
  /\ shopState = Calm
  /\ gated = [r \in FeedRounds |-> Idle]
  /\ alertSeen = {}
  /\ scanned = FALSE /\ toldTwice = FALSE
  /\ heard = [m \in Matters |-> {}]
  /\ counted = [m \in Matters |-> RepeatHours]

-----------------------------------------------------------------------------
SEVERITY_RANK == [low |-> 1, medium |-> 2, high |-> 3, critical |-> 4]

\* A name the table has not, as urgent, ranks with no severity at all.
Rank(severity) == IF severity \in DOMAIN SEVERITY_RANK THEN SEVERITY_RANK[severity] ELSE 0

TicketOf(m) == {i \in DOMAIN ticketList : ticketList[i].matter = m}

\* TicketStore.open: the message joins the open ticket of its matter and gives it its severity
\* if that ranks higher or the ticket has none; or it opens a ticket.
OpenTicket(m, severity) ==
  /\ heard' = [heard EXCEPT ![m] = @ \cup ({severity} \ {"none"})]
  /\ IF TicketOf(m) = {}
     THEN ticketList' = Append(ticketList, [matter |-> m, severity |-> severity, quiet |-> 0])
     ELSE LET i == CHOOSE j \in TicketOf(m) : \A other \in TicketOf(m) : j <= other
          IN  ticketList' = [ticketList EXCEPT
                ![i].severity = IF Rank(severity) > Rank(@) \/ @ = "none" THEN severity ELSE @,
                ![i].quiet = 0]

\* A message with a term of complaint opens its ticket at once, without a severity.
Complain(m) ==
  /\ OpenTicket(m, "none")
  /\ UNCHANGED <<listening, shopState, gated, alertSeen, scanned, counted, toldTwice>>

\* A message that has none is shown to Jev, with what the ticket of its order holds.
AskJev(t, m) ==
  /\ listening[t] = NoMatter
  /\ listening' = [listening EXCEPT ![t] = m]
  /\ UNCHANGED <<ticketList, shopState, gated, alertSeen, scanned, heard, counted, toldTwice>>

\* defect: whether there is a ticket is not looked up again after the wait
JevAnswersBlind(t) ==
  /\ listening[t] # NoMatter
  /\ listening' = [listening EXCEPT ![t] = NoMatter]
  /\ \E severity \in Severities :
       /\ heard' = [heard EXCEPT ![listening[t]] = @ \cup {severity}]
       /\ ticketList' = Append(ticketList,
            [matter |-> listening[t], severity |-> severity, quiet |-> 0])
  /\ UNCHANGED <<shopState, gated, alertSeen, scanned, counted, toldTwice>>

\* Jev gives a verdict; or none, takes the message for no complaint, or the customer has left.
JevAnswers(t) ==
  /\ listening[t] # NoMatter
  /\ listening' = [listening EXCEPT ![t] = NoMatter]
  /\ \/ \E severity \in Severities \cup {"none"} : OpenTicket(listening[t], severity)
     \/ UNCHANGED <<ticketList, heard>>
  /\ UNCHANGED <<shopState, gated, alertSeen, scanned, counted, toldTwice>>

-----------------------------------------------------------------------------
Overdue == {i \in DOMAIN ticketList : ticketList[i].quiet > SlaHours}

\* check_ticket_sla: the alert's data, which _publish_once takes for the situation.
SlaPrint ==
  [kind |-> "ticket_sla",
   count |-> Cardinality(Overdue),
   bucket |-> (CHOOSE q \in {ticketList[i].quiet : i \in Overdue} :
                 \A i \in Overdue : ticketList[i].quiet <= q) \div BucketHours,
   worst |-> ticketList[CHOOSE i \in Overdue : \A j \in Overdue :
                \/ Rank(ticketList[i].severity) > Rank(ticketList[j].severity)
                \/ Rank(ticketList[i].severity) = Rank(ticketList[j].severity) /\ i <= j].severity,
   named |-> {i \in Overdue : Cardinality({j \in Overdue : j < i}) < MaxNamed}]

ShopPrint(s) == [kind |-> "shop", of |-> s]

\* defect: every round tells what it finds
FreshAlways(print) == TRUE

\* _publish_once: not what was told within the repeat time.
Fresh(print) == print \notin {seen.print : seen \in alertSeen}

\* The last thing a round does: it tells what it found in the shop and, without an await in
\* between, of the tickets that are overdue.
Publish(found) ==
  LET prints == {ShopPrint(s) : s \in found}
                  \cup (IF Overdue = {} THEN {} ELSE {SlaPrint})
      told == {print \in prints : Fresh(print)}
  IN  /\ alertSeen' = {seen \in alertSeen : seen.print \notin told}
                        \cup {[print |-> print, ago |-> 0] : print \in told}
      /\ toldTwice' = (toldTwice \/ \E seen \in alertSeen : seen.print \in told)
      /\ counted' = IF Overdue # {} /\ SlaPrint \in told
                    THEN [m \in Matters |-> IF TicketOf(m) \cap Overdue # {} THEN 0 ELSE counted[m]]
                    ELSE counted
      /\ scanned' = (scanned \/ Cardinality(Overdue) <= MaxNamed)

\* _scan_merchant has read the shop: with nothing to ask the gate about it ends at once.
ScanReads(r) ==
  /\ gated[r] = Idle
  /\ IF shopState = Calm
     THEN Publish({}) /\ UNCHANGED gated
     ELSE /\ gated' = [gated EXCEPT ![r] = shopState]
          /\ UNCHANGED <<alertSeen, scanned, counted, toldTwice>>
  /\ UNCHANGED <<ticketList, listening, shopState, heard>>

\* _should_publish: the gate finds the alert worth telling, or cannot be asked; or it does not.
GateAnswers(r) ==
  /\ gated[r] # Idle
  /\ \/ Publish({gated[r]})
     \/ Publish({})
  /\ gated' = [gated EXCEPT ![r] = Idle]
  /\ UNCHANGED <<ticketList, listening, shopState, heard>>

ShopChanges ==
  /\ shopState' \in (Situations \cup {Calm}) \ {shopState}
  /\ UNCHANGED <<ticketList, listening, gated, alertSeen, scanned, heard, counted, toldTwice>>

HourPasses ==
  /\ ticketList' = [i \in DOMAIN ticketList |-> [ticketList[i] EXCEPT
       !.quiet = IF @ < MaxQuiet THEN @ + 1 ELSE @]]
  /\ alertSeen' = {[seen EXCEPT !.ago = @ + 1] : seen \in {s \in alertSeen : s.ago < RepeatHours - 1}}
  /\ counted' = [m \in Matters |-> IF counted[m] < RepeatHours THEN counted[m] + 1 ELSE counted[m]]
  /\ scanned' = FALSE
  /\ UNCHANGED <<listening, shopState, gated, heard, toldTwice>>

\* Tickets are in a file; what was told, and whoever waits, is only in memory.
FeedRestart ==
  /\ listening' = [t \in FeedTurns |-> NoMatter]
  /\ gated' = [r \in FeedRounds |-> Idle]
  /\ alertSeen' = {}
  /\ UNCHANGED <<ticketList, shopState, scanned, heard, counted, toldTwice>>

FeedNext ==
  \/ \E m \in Matters : Complain(m)
  \/ \E t \in FeedTurns : JevAnswers(t) \/ \E m \in Matters : AskJev(t, m)
  \/ \E r \in FeedRounds : ScanReads(r) \/ GateAnswers(r)
  \/ ShopChanges \/ HourPasses \/ FeedRestart

FeedSpec == FeedInit /\ [][FeedNext]_feedVars

-----------------------------------------------------------------------------
(* A matter has one ticket, however its messages and the answers of Jev about       *)
(* them overlap; it has a severity if a complaint of the matter had one, and that      *)
(* of a complaint no other ranks above.                                       *)
OneTicketAtItsWorst ==
  /\ \A m \in Matters : Cardinality(TicketOf(m)) <= 1
  /\ \A i \in DOMAIN ticketList :
       LET told == heard[ticketList[i].matter]
       IN  IF told = {} THEN ticketList[i].severity = "none"
           ELSE /\ ticketList[i].severity \in told
                /\ \A s \in told : Rank(s) <= Rank(ticketList[i].severity)

\* How grave Jev is told its answers are.
Gravity == [none |-> 0, low |-> 1, normal |-> 2, urgent |-> 3]

(* The severity of a ticket only rises (proactive.py:96).  It does not: urgent is not    *)
(* in the table of ranks, and a later complaint that is low takes its place.          *)
SeverityOnlyRises ==
  [][\A i \in DOMAIN ticketList :
       Gravity[ticketList'[i].severity] >= Gravity[ticketList[i].severity]]_feedVars

(* After a round that could name all that was overdue, every ticket that nobody has      *)
(* touched for the agreed hours has been told within the repeat time, though an alert       *)
(* is withheld when one like it was told.                                     *)
OverdueIsTold ==
  scanned => \A i \in Overdue : counted[ticketList[i].matter] < RepeatHours

(* Complaints and overdue tickets reach the operators, and one host tells one         *)
(* situation once in a repeat time, though rounds overlap.                   *)
FeedSound == OneTicketAtItsWorst /\ OverdueIsTold /\ ~toldTwice
=============================================================================
