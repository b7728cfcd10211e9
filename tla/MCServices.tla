----------------------------- MODULE MCServices -----------------------------
(***************************************************************************)
(* The parts whose properties are of liveness, for TLC: orders, queue, renewal,   *)
(* watches and loop.  They share no state, so one run follows any one of them:   *)
(* `part' says which, the others stay as they began.                         *)
(***************************************************************************)
EXTENDS MCOrders, NotifyQueue, Delegation, WatchAlerts, MonitorLoop

CONSTANTS w1, w2    \* the watches

VARIABLE part

Parts == {"orders", "notify", "delegation", "watches", "loop"}

\* Two watches on one product; the second asks for more.
MCWatchTopic == [w \in {w1, w2} |-> "a"]
MCWatchThreshold == [w \in {w1, w2} |-> IF w = w1 THEN 1 ELSE 2]

ServicesInit ==
  /\ part \in Parts
  /\ Init /\ NotifyInit /\ DelegationInit /\ WatchInit
  /\ LoopInit /\ (part # "loop" => reachable)

Rests(p, vs) == IF part = p THEN TRUE ELSE UNCHANGED vs

\* A step of part p: the others rest.
Of(p) ==
  /\ part = p /\ UNCHANGED part
  /\ Rests("orders", vars) /\ Rests("notify", notifyVars) /\ Rests("delegation", delegationVars)
  /\ Rests("watches", watchVars) /\ Rests("loop", loopVars)

ServicesNext ==
  \/ Of("orders") /\ Next
  \/ Of("notify") /\ NotifyNext
  \/ Of("delegation") /\ DelegationNext
  \/ Of("watches") /\ WatchNext
  \/ Of("loop") /\ LoopNext

servicesVars == <<part, vars, notifyVars, delegationVars, watchVars, loopVars>>

-----------------------------------------------------------------------------
(* Fairness.                                                               *)

\* The sweep runs, callbacks go on, VNPay repeats an IPN until it is answered (as FairSpec).
OrderFairness ==
  /\ WF_vars(part = "orders" /\ SweepRead)
  /\ \A o \in Order : WF_vars(part = "orders" /\ Age(o)) /\ WF_vars(part = "orders" /\ SweepOne(o))
  /\ \A c \in Callback : /\ WF_vars(part = "orders" /\ Settle(c))
                         /\ WF_vars(part = "orders" /\ NotifyPaid(c))
                         /\ WF_vars(part = "orders" /\ EnsureInvoice(c))
  /\ \A c \in Ipn : WF_vars(part = "orders" /\ \E t \in Txn : Receive(c, t))

\* The timers of the process fire and time passes; a send returns, at the latest when its
\* connection does.
NotifyFairness ==
  /\ WF_notifyVars(part = "notify" /\ TimerFires)
  /\ WF_notifyVars(part = "notify" /\ NotifyTime)
  /\ WF_notifyVars(part = "notify" /\ \E t \in notifyTicks : SendSucceeds(t) \/ SendFails(t))

\* The page's timer fires and a renewal that comes due again and again is now and then looked
\* at and, when refused, told so; its answer arrives or is lost.
DelegationFairness ==
  /\ WF_delegationVars(part = "delegation" /\ RefreshTimer)
  /\ SF_delegationVars(part = "delegation" /\ CheckRequest("timer"))
  /\ SF_delegationVars(part = "delegation" /\ TakeRefusal("timer"))
  /\ WF_delegationVars(/\ part = "delegation"
                       /\ TakeTicket("timer") \/ TakeRefusal("timer") \/ AnswerLost("timer"))

\* The loop runs rounds, and if it does so for ever its rounds read every product and publish.
WatchFairness ==
  /\ WF_watchVars(part = "watches" /\ RoundStarts("loop"))
  /\ \A p \in Topics : SF_watchVars(part = "watches" /\ ReadsProduct("loop", p))
  /\ SF_watchVars(/\ part = "watches" /\ RoundPublishes("loop")
                  /\ \A w \in round["loop"].watches : round["loop"].read[WatchTopic[w]] # Unread)

\* Time passes and the loop's task is not starved.
LoopFairness ==
  /\ WF_loopVars(part = "loop" /\ LoopTime)
  /\ WF_loopVars(part = "loop" /\ LoopRound)

ServicesSpec ==
  /\ ServicesInit /\ [][ServicesNext]_servicesVars
  /\ OrderFairness /\ NotifyFairness /\ DelegationFairness /\ WatchFairness /\ LoopFairness

-----------------------------------------------------------------------------
(* Every part's variables keep their types.                                *)
ServicesTypeOK ==
  /\ TypeOK /\ NotifyTypeOK /\ DelegationTypeOK /\ WatchTypeOK /\ LoopTypeOK
=============================================================================
