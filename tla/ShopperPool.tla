---------------------------- MODULE ShopperPool ----------------------------
(***************************************************************************)
(* PooledStorefront: the backend clients of one chat session.  A tool call     *)
(* looks up the client of the session's account, or of the ticket bound to the  *)
(* session, and makes it when there is none; a turn binds a new ticket, a       *)
(* forget takes it away, and a sweep for idle sessions drops the account's.     *)
(*                                                                         *)
(* One session: clients, locks and tickets are all kept by session.  The sweep  *)
(* is run by the calls of other sessions.  An action ends where the code        *)
(* awaits.  The age of a ticket's client is left out: the second test, under    *)
(* the lock, does not look at it, so the first one changes nothing.           *)
(***************************************************************************)
EXTENDS Naturals, FiniteSets

CONSTANTS
  PoolTickets,      \* delegation tickets
  Own,              \* the session's own account, when no ticket is bound
  PoolCalls,        \* bound: tool calls of the session at one time
  MaxClients        \* bound: clients that exist at one time; a name is used again

ASSUME PoolAssumption ==
  Own \notin PoolTickets /\ IsFiniteSet(PoolCalls) /\ MaxClients \in Nat

VARIABLES
  boundTicket,      \* _delegation_tokens[sid], Own for none
  poolClient,       \* the clients by name; lost: open, perhaps for ever
  pooled,           \* _clients/_backends[sid] under "own", _delegated[sid] under "ticket"
  poolLock,         \* the lock object _locks[sid]
  lastUsed,         \* _last_used[sid]
  sweep,            \* whether a sweep has the session on its list
  poolCall

poolVars == <<boundTicket, poolClient, pooled, poolLock, lastUsed, sweep, poolCall>>

PoolIdentity == PoolTickets \cup {Own}
NoClient == 0
ClientNames == 1..MaxClients
NoLock == 0
LockNames == 1..(Cardinality(PoolCalls) + 1)   \* calls may wait for older lock objects than the current one
NoSuchClient == [state |-> "none", as |-> Own]
IdleCall == [pc |-> "idle", as |-> Own, client |-> NoClient, lock |-> NoLock, overtaken |-> FALSE]

PoolCall ==
  [pc : {"idle", "waitOwn", "loginOwn", "waitTicket", "closing", "loginTicket", "calling"},
   as : PoolIdentity,             \* whom it is to act as: read when it looked up
   client : {NoClient} \cup ClientNames,
   lock : {NoLock} \cup LockNames,
   overtaken : BOOLEAN]       \* history: another ticket, a forget or the sweep came between

PoolTypeOK ==
  /\ boundTicket \in PoolIdentity
  /\ poolClient \in [ClientNames -> [state : {"none", "open", "lost", "closed"}, as : PoolIdentity]]
  /\ pooled \in [{"own", "ticket"} -> {NoClient} \cup ClientNames]
  /\ poolLock \in {NoLock} \cup LockNames
  /\ lastUsed \in {"none", "recent", "old"}
  /\ sweep \in BOOLEAN
  /\ poolCall \in [PoolCalls -> PoolCall]

PoolInit ==
  /\ boundTicket = Own
  /\ poolClient = [n \in ClientNames |-> NoSuchClient]
  /\ pooled = [kind \in {"own", "ticket"} |-> NoClient]
  /\ poolLock = NoLock
  /\ lastUsed = "none"
  /\ sweep = FALSE
  /\ poolCall = [c \in PoolCalls |-> IdleCall]

-----------------------------------------------------------------------------
UnderWay == {c \in PoolCalls : poolCall[c].pc # "idle"}

\* The client of the ticket, when it is this ticket's.
Fits(ticket) == pooled["ticket"] # NoClient /\ poolClient[pooled["ticket"]].as = ticket

\* The name of a client that is closed or lost, and that nothing refers to, is given again.
Tidy(clients, pools, calls) ==
  [n \in ClientNames |->
     IF clients[n].state \in {"closed", "lost"} /\ n \notin {pools["own"], pools["ticket"]}
        /\ \A c \in PoolCalls : calls[c].client # n
     THEN NoSuchClient ELSE clients[n]]

Becomes(clients, pools, calls) ==
  /\ poolClient' = Tidy(clients, pools, calls)
  /\ pooled' = pools
  /\ poolCall' = calls

Closed(n) == IF n = NoClient THEN poolClient ELSE [poolClient EXCEPT ![n].state = "closed"]

\* The call goes to the backend over client n.
CallsOver(c, n) == [poolCall EXCEPT ![c].pc = "calling", ![c].client = n, ![c].lock = NoLock]

\* A new client is made and logs in.
Creates(c, pc) ==
  \E n \in ClientNames :
    /\ poolClient[n] = NoSuchClient
    /\ \A m \in 1..(n - 1) : poolClient[m] # NoSuchClient
    /\ Becomes([poolClient EXCEPT ![n] = [state |-> "open", as |-> poolCall[c].as]], pooled,
               [poolCall EXCEPT ![c].pc = pc, ![c].client = n])

-----------------------------------------------------------------------------
(* A tool call (_logged, _backend_for, delegated_backend).                 *)

\* The lock object of the session, a new one when there is none.
LockOf == IF poolLock # NoLock THEN poolLock
          ELSE CHOOSE l \in LockNames : \A c \in PoolCalls : poolCall[c].lock # l

PoolLookUp(c) ==
  /\ poolCall[c].pc = "idle"
  /\ lastUsed' = "recent"
  /\ LET late == sweep \/ (\E d \in UnderWay : poolCall[d].as # boundTicket)
                 \/ (boundTicket # Own /\ Fits(boundTicket)
                     /\ poolClient[pooled["ticket"]].state = "closed")
         call(pc, n, lock) == [poolCall EXCEPT ![c] =
           [pc |-> pc, as |-> boundTicket, client |-> n, lock |-> lock, overtaken |-> late]]
     IN CASE boundTicket # Own /\ Fits(boundTicket) ->
               poolCall' = call("calling", pooled["ticket"], NoLock) /\ UNCHANGED poolLock
          [] boundTicket # Own /\ ~Fits(boundTicket) ->
               poolCall' = call("waitTicket", NoClient, NoLock) /\ UNCHANGED poolLock
          [] boundTicket = Own /\ pooled["own"] # NoClient ->
               poolCall' = call("calling", pooled["own"], NoLock) /\ UNCHANGED poolLock
          [] boundTicket = Own /\ pooled["own"] = NoClient ->
               poolCall' = call("waitOwn", NoClient, LockOf) /\ poolLock' = LockOf
  /\ UNCHANGED <<boundTicket, poolClient, pooled, sweep>>

Locked(l) == \E d \in PoolCalls : poolCall[d].pc = "loginOwn" /\ poolCall[d].lock = l

\* Under the lock the pool is looked at again.
EnterOwn(c) ==
  /\ poolCall[c].pc = "waitOwn" /\ ~Locked(poolCall[c].lock)
  /\ IF pooled["own"] # NoClient
     THEN Becomes(poolClient, pooled, CallsOver(c, pooled["own"]))
     ELSE Creates(c, "loginOwn")
  /\ UNCHANGED <<boundTicket, poolLock, lastUsed, sweep>>

\* defect: whoever gets the lock makes a client of its own
EnterTicketBlindly(c) ==
  /\ poolCall[c].pc = "waitTicket"
  /\ \A d \in PoolCalls : poolCall[d].pc \notin {"closing", "loginTicket"}
  /\ IF pooled["ticket"] # NoClient
     THEN Becomes(Closed(pooled["ticket"]), pooled, [poolCall EXCEPT ![c].pc = "closing"])
     ELSE Creates(c, "loginTicket")
  /\ UNCHANGED <<boundTicket, poolLock, lastUsed, sweep>>

\* The lock of the tickets is never dropped.  A client of another ticket is closed first; it
\* stays in the pool until the new one has logged in.
EnterTicket(c) ==
  /\ poolCall[c].pc = "waitTicket"
  /\ \A d \in PoolCalls : poolCall[d].pc \notin {"closing", "loginTicket"}
  /\ CASE Fits(poolCall[c].as) ->
            Becomes(poolClient, pooled, CallsOver(c, pooled["ticket"]))
       [] ~Fits(poolCall[c].as) /\ pooled["ticket"] # NoClient ->
            Becomes(Closed(pooled["ticket"]), pooled, [poolCall EXCEPT ![c].pc = "closing"])
       [] pooled["ticket"] = NoClient -> Creates(c, "loginTicket")
  /\ UNCHANGED <<boundTicket, poolLock, lastUsed, sweep>>

OldTicketClosed(c) ==
  /\ poolCall[c].pc = "closing"
  /\ Creates(c, "loginTicket")
  /\ UNCHANGED <<boundTicket, poolLock, lastUsed, sweep>>

\* ensure_session is answered: the client takes its place in the pool, whatever is there.
\* The account's place is taken only when a sweep has dropped the lock of one of the two.
LoggedIn(c) ==
  /\ poolCall[c].pc \in {"loginOwn", "loginTicket"}
  /\ LET place == IF poolCall[c].pc = "loginOwn" THEN "own" ELSE "ticket"
         swept == poolCall[c].lock \notin {NoLock, poolLock}
     IN Becomes([n \in ClientNames |->
                   IF swept /\ n \in {pooled["own"], poolCall[c].client}
                   THEN [poolClient[n] EXCEPT !.state = "lost"] ELSE poolClient[n]],
                [pooled EXCEPT ![place] = poolCall[c].client],
                CallsOver(c, poolCall[c].client))
  /\ UNCHANGED <<boundTicket, poolLock, lastUsed, sweep>>

\* ensure_session raises: nobody closes the client.
LoginFails(c) ==
  /\ poolCall[c].pc \in {"loginOwn", "loginTicket"}
  /\ Becomes([poolClient EXCEPT ![poolCall[c].client].state = "lost"], pooled,
             [poolCall EXCEPT ![c] = IdleCall])
  /\ UNCHANGED <<boundTicket, poolLock, lastUsed, sweep>>

\* The backend has answered, or the call has failed (a closed client fails it).
PoolCallEnds(c) ==
  /\ poolCall[c].pc = "calling"
  /\ Becomes(poolClient, pooled, [poolCall EXCEPT ![c] = IdleCall])
  /\ UNCHANGED <<boundTicket, poolLock, lastUsed, sweep>>

-----------------------------------------------------------------------------
(* Turns, forgets, time and the sweep.                                     *)

AllOvertaken == [c \in PoolCalls |->
  IF c \in UnderWay THEN [poolCall[c] EXCEPT !.overtaken = TRUE] ELSE poolCall[c]]

\* A turn that carries a ticket binds it.
BindTicket(t) ==
  /\ t # boundTicket
  /\ boundTicket' = t
  /\ poolCall' = AllOvertaken
  /\ UNCHANGED <<poolClient, pooled, poolLock, lastUsed, sweep>>

\* bind_delegation(sid, ""): the ticket goes, and its client is closed in passing.
Unbind ==
  /\ boundTicket' = Own
  /\ Becomes(Closed(pooled["ticket"]), [pooled EXCEPT !["ticket"] = NoClient], AllOvertaken)
  /\ UNCHANGED <<poolLock, lastUsed, sweep>>

\* Half a day; a call is over long before.
HalfDay ==
  /\ UnderWay = {} /\ lastUsed = "recent"
  /\ lastUsed' = "old"
  /\ UNCHANGED <<boundTicket, poolClient, pooled, poolLock, sweep, poolCall>>

\* The sweep lists the idle sessions, and closes their clients one after another: the session
\* may be used again before its turn comes.
SweepLists ==
  /\ ~sweep /\ lastUsed = "old" /\ ~Locked(poolLock)
  /\ sweep' = TRUE
  /\ UNCHANGED <<boundTicket, poolClient, pooled, poolLock, lastUsed, poolCall>>

SweepDrops ==
  /\ sweep
  /\ sweep' = FALSE
  /\ lastUsed' = "none"
  /\ poolLock' = NoLock
  /\ Becomes(Closed(pooled["own"]), [pooled EXCEPT !["own"] = NoClient], poolCall)
  /\ UNCHANGED boundTicket

PoolNext ==
  \/ \E c \in PoolCalls :
       \/ PoolLookUp(c) \/ EnterOwn(c) \/ EnterTicket(c) \/ OldTicketClosed(c)
       \/ LoggedIn(c) \/ LoginFails(c) \/ PoolCallEnds(c)
  \/ \E t \in PoolTickets : BindTicket(t)
  \/ Unbind \/ HalfDay \/ SweepLists \/ SweepDrops

PoolSpec == PoolInit /\ [][PoolNext]_poolVars

-----------------------------------------------------------------------------
(* A call acts as the account or the ticket that was bound when it looked up,   *)
(* whichever client it ends up with.                                       *)
ActsAsBound ==
  \A c \in PoolCalls :
    poolCall[c].pc = "calling" => poolClient[poolCall[c].client].as = poolCall[c].as

(* The client of a call is closed under it only by a ticket change, a forget, a *)
(* call on its way for another ticket, or a sweep that had listed the session     *)
(* before the call began; and it was closed before only where such a call has    *)
(* closed it and failed to log in.                                         *)
OpenWhileInUse ==
  \A c \in PoolCalls :
    poolCall[c].pc = "calling" /\ ~poolCall[c].overtaken =>
      poolClient[poolCall[c].client].state # "closed"

(* An open client is in the pool or held by a call: none is left behind but by  *)
(* a login that failed or a lock that the sweep dropped.  The account's client    *)
(* in the pool is open.                                                    *)
NoneLeftBehind ==
  /\ \A n \in ClientNames :
       poolClient[n].state = "open" =>
         n \in {pooled["own"], pooled["ticket"]} \/ \E c \in PoolCalls : poolCall[c].client = n
  /\ pooled["own"] # NoClient => poolClient[pooled["own"]].state # "closed"

(* What the pool promises of its clients.                                  *)
PoolSound == ActsAsBound /\ OpenWhileInUse /\ NoneLeftBehind
=============================================================================
