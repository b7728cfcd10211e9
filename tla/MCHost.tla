------------------------------- MODULE MCHost -------------------------------
(***************************************************************************)
(* The parts of the agent host, for TLC: those whose properties are of safety.        *)
(* They share no state, so one run follows any one of them: `part' says which, the     *)
(* others stay as they began.                                               *)
(***************************************************************************)
EXTENDS ListStore, MemoryFacts, OpsFeed, A2ATasks, HostTurns, ShopperPool, ApiClient,
  StockActions, ActivityLog, ChatLimits, Errands

VARIABLE part

Parts == {"store", "memory", "feed", "a2a", "turns", "pool", "client", "actions",
          "log", "limits", "errands"}

HostInit ==
  /\ part \in Parts
  /\ StoreInit /\ MemoryInit /\ FeedInit /\ A2AInit /\ TurnInit /\ PoolInit /\ StockActionsInit
  /\ LogInit /\ LimitsInit /\ ErrandsInit
  /\ ClientInit
  /\ part # "client" => delegated /\ apiCall[CHOOSE c \in ApiCalls : TRUE].pc = "loggedIn"

Rests(p, vs) == IF part = p THEN TRUE ELSE UNCHANGED vs

\* A step of part p: the others rest.
Of(p) ==
  /\ part = p /\ UNCHANGED part
  /\ Rests("store", storeVars) /\ Rests("memory", memoryVars) /\ Rests("feed", feedVars)
  /\ Rests("a2a", a2aVars) /\ Rests("turns", turnVars) /\ Rests("pool", poolVars)
  /\ Rests("client", clientVars) /\ Rests("actions", stockActionVars)
  /\ Rests("log", logVars) /\ Rests("limits", limitVars) /\ Rests("errands", errandVars)

HostNext ==
  \/ Of("store") /\ StoreNext
  \/ Of("memory") /\ MemoryNext
  \/ Of("feed") /\ FeedNext
  \/ Of("a2a") /\ A2ANext
  \/ Of("turns") /\ TurnNext
  \/ Of("pool") /\ PoolNext
  \/ Of("client") /\ ClientNext
  \/ Of("actions") /\ StockActionsNext
  \/ Of("log") /\ LogNext
  \/ Of("limits") /\ LimitsNext
  \/ Of("errands") /\ ErrandsNext

hostVars ==
  <<part, storeVars, memoryVars, feedVars, a2aVars, turnVars, poolVars, clientVars,
    stockActionVars, logVars, limitVars, errandVars>>

HostSpec == HostInit /\ [][HostNext]_hostVars

-----------------------------------------------------------------------------
(* The variables of the part that moves keep their types.                       *)
HostTypeOK ==
  CASE part = "store" -> StoreTypeOK
    [] part = "memory" -> MemoryTypeOK
    [] part = "feed" -> FeedTypeOK
    [] part = "a2a" -> A2ATypeOK
    [] part = "turns" -> TurnTypeOK
    [] part = "pool" -> PoolTypeOK
    [] part = "client" -> ClientTypeOK
    [] part = "actions" -> StockActionsTypeOK
    [] part = "log" -> LogTypeOK
    [] part = "limits" -> LimitsTypeOK
    [] part = "errands" -> ErrandsTypeOK

(* What the host has stored it keeps, and what it was told to forget it forgets: its      *)
(* lists through failed saves and restarts, the facts through other processes, the log     *)
(* of what the agents did through its caps, the tasks customers leave through the            *)
(* retention sweep.                                                         *)
StoresSound == StoreHolds /\ MemorySound /\ LogSound /\ ErrandsSound

(* A shopper's clients stay apart, act for whom they should, and none that a call uses    *)
(* is closed; each call is done once, with the session and token it needs; and who may       *)
(* chat, how often, is counted.                                               *)
ClientsSound == PoolSound /\ ClientSound /\ LimitsSound

(* Operators are told of complaints, overdue tickets and the shop's state, once; and      *)
(* what they approve is carried out, once, on the stock there is.                   *)
OperatorsSound == FeedSound /\ ActionsSound
=============================================================================
