---------------------------- MODULE WatchAlerts ----------------------------
(***************************************************************************)
(* Watches and the rounds of the monitor that answer them (proactive.py): a    *)
(* round takes the active watches, reads their products one await after         *)
(* another, then publishes an alert for every watch whose condition holds and   *)
(* turns watches off.  Rounds of the loop and of POST /shop/monitor/run may     *)
(* overlap, and the customer may cancel a watch, or have everything forgotten,   *)
(* while one reads.                                                         *)
(***************************************************************************)
EXTENDS Integers, FiniteSets

CONSTANTS
  Watches,          \* the watches that are ever set
  WatchTopic,       \* of each watch: its product and kind
  WatchThreshold,   \* how far the product must go before the watch matches
  MaxLevel,         \* bound: how far a product goes
  Rounds            \* the rounds that may run at a time

Topics == {WatchTopic[w] : w \in Watches}

ASSUME WatchAssumption ==
  /\ MaxLevel \in Nat
  /\ WatchThreshold \in [Watches -> 1 .. MaxLevel]

VARIABLES
  watch,            \* what has become of each watch
  topicLevel,       \* how far each product's price has fallen, or whether it is in stock
  round,            \* the rounds under way: the snapshot and what has been read
  alerts,           \* alerts published for each watch, up to two
  repeats           \* history: watches a second round or a restart may alert about again

watchVars == <<watch, topicLevel, round, alerts, repeats>>

NoRound == [state |-> "none"]
Unread == -1
Round == [state : {"reading"}, watches : SUBSET Watches,
          read : [Topics -> {Unread} \cup 0 .. MaxLevel]]

WatchTypeOK ==
  /\ watch \in [Watches -> {"new", "active", "off", "cancelled"}]
  /\ topicLevel \in [Topics -> 0 .. MaxLevel]
  /\ round \in [Rounds -> Round \cup {NoRound}]
  /\ alerts \in [Watches -> 0 .. 2]
  /\ repeats \subseteq Watches

WatchInit ==
  /\ watch = [w \in Watches |-> "new"]
  /\ topicLevel = [p \in Topics |-> 0]
  /\ round = [r \in Rounds |-> NoRound]
  /\ alerts = [w \in Watches |-> 0]
  /\ repeats = {}

-----------------------------------------------------------------------------
ActiveWatches == {w \in Watches : watch[w] = "active"}

\* check_watches: a product that could not be read matches nothing.
Matched(r) == {w \in round[r].watches : round[r].read[WatchTopic[w]] >= WatchThreshold[w]}

\* The set_watch tool.
SetWatch(w) ==
  /\ watch[w] = "new"
  /\ watch' = [watch EXCEPT ![w] = "active"]
  /\ UNCHANGED <<topicLevel, round, alerts, repeats>>

\* DELETE of the watch, or of all that is kept about the customer.
CancelWatch(w) ==
  /\ watch[w] = "active"
  /\ watch' = [watch EXCEPT ![w] = "cancelled"]
  /\ UNCHANGED <<topicLevel, round, alerts, repeats>>

\* Stock and prices move at the backend.
TopicMoves(p) ==
  /\ \E level \in 0 .. MaxLevel : topicLevel' = [topicLevel EXCEPT ![p] = level]
  /\ UNCHANGED <<watch, round, alerts, repeats>>

\* A round begins with the watches that are active now.
RoundStarts(r) ==
  /\ round[r] = NoRound
  /\ ActiveWatches # {}
  /\ round' = [round EXCEPT ![r] =
       [state |-> "reading", watches |-> ActiveWatches, read |-> [p \in Topics |-> Unread]]]
  /\ repeats' = repeats \cup
       {w \in ActiveWatches : \E other \in Rounds \ {r} :
          round[other] # NoRound /\ w \in round[other].watches}
  /\ UNCHANGED <<watch, topicLevel, alerts>>

\* client.product(pid): one read, which may fail and is then left out of the round.
ReadsProduct(r, p) ==
  /\ round[r] # NoRound
  /\ round[r].read[p] = Unread
  /\ \E w \in round[r].watches : WatchTopic[w] = p
  /\ round' = [round EXCEPT ![r].read[p] = topicLevel[p]]
  /\ UNCHANGED <<watch, topicLevel, alerts, repeats>>

Alerted(ws) == [w \in Watches |-> IF w \in ws /\ alerts[w] < 2 THEN alerts[w] + 1 ELSE alerts[w]]

\* defect: what has matched is not turned off
RoundPublishesOnly(r) ==
  /\ round[r] # NoRound
  /\ alerts' = Alerted(Matched(r))
  /\ round' = [round EXCEPT ![r] = NoRound]
  /\ UNCHANGED <<watch, topicLevel, repeats>>

\* defect: the round turns off whatever it took
RoundPublishesAllOff(r) ==
  /\ round[r] # NoRound
  /\ alerts' = Alerted(Matched(r))
  /\ watch' = [w \in Watches |->
       IF watch[w] = "active" /\ w \in round[r].watches THEN "off" ELSE watch[w]]
  /\ round' = [round EXCEPT ![r] = NoRound]
  /\ UNCHANGED <<topicLevel, repeats>>

\* After the first alert of a product and kind every watch of the snapshot on it is turned
\* off, also one whose own threshold has not been reached.
RoundPublishes(r) ==
  /\ round[r] # NoRound
  /\ alerts' = Alerted(Matched(r))
  /\ watch' = [w \in Watches |->
       IF /\ watch[w] = "active" /\ w \in round[r].watches
          /\ WatchTopic[w] \in {WatchTopic[m] : m \in Matched(r)}
       THEN "off" ELSE watch[w]]
  /\ round' = [round EXCEPT ![r] = NoRound]
  /\ UNCHANGED <<topicLevel, repeats>>

\* The backend cannot be logged in to: the round fails and nothing is published.
RoundFails(r) ==
  /\ round[r] # NoRound
  /\ round[r].read = [p \in Topics |-> Unread]
  /\ round' = [round EXCEPT ![r] = NoRound]
  /\ UNCHANGED <<watch, topicLevel, alerts, repeats>>

\* The host stops: rounds are gone.  Between the alert's file and the watch's there is a gap,
\* and a watch whose alert is published and which is not yet off will be alerted again.
HostStops ==
  /\ \/ UNCHANGED <<alerts, repeats>>
     \/ \E r \in Rounds : \E w \in (IF round[r] = NoRound THEN {} ELSE Matched(r)) :
          /\ alerts' = Alerted({w})
          /\ repeats' = repeats \cup {w}
  /\ round' = [r \in Rounds |-> NoRound]
  /\ UNCHANGED <<watch, topicLevel>>

WatchNext ==
  \/ HostStops
  \/ \E w \in Watches : SetWatch(w) \/ CancelWatch(w)
  \/ \E p \in Topics : TopicMoves(p)
  \/ \E r \in Rounds :
       \/ RoundStarts(r) \/ RoundPublishes(r) \/ RoundFails(r)
       \/ \E p \in Topics : ReadsProduct(r, p)

WatchSpec == WatchInit /\ [][WatchNext]_watchVars

-----------------------------------------------------------------------------
(* A watch is answered once.  A second alert comes only where two rounds took   *)
(* the same watch, or the host stopped between the alert and turning it off.    *)
AlertedOnce == \A w \in Watches : alerts[w] > 1 => w \in repeats

(* A watch goes off only in a round that read its product and found the         *)
(* condition of some watch on it met; with the alert of its own, unless its      *)
(* threshold is higher than the other's.                                    *)
WatchOffForAlert ==
  [][\A w \in Watches : watch[w] = "active" /\ watch'[w] = "off" =>
       \E m \in Watches :
         /\ WatchTopic[m] = WatchTopic[w]
         /\ alerts'[m] > 0
         /\ alerts'[w] > 0 \/ WatchThreshold[m] < WatchThreshold[w]]_watchVars

(* A watch that is set and whose condition holds is answered, or turned off, as  *)
(* long as rounds are run and can read the product now and then.              *)
WatchAnswered ==
  \A w \in Watches :
    watch[w] = "active" /\ topicLevel[WatchTopic[w]] >= WatchThreshold[w]
      ~> watch[w] # "active" \/ topicLevel[WatchTopic[w]] < WatchThreshold[w]
=============================================================================
