---------------------------- MODULE NotifyQueue ----------------------------
(***************************************************************************)
(* The notification queue of the backend (notify.service.ts): messages are *)
(* queued in memory, one timer wakes a tick, a tick takes what is due out   *)
(* of the queue and sends it one message after another, and what fails is   *)
(* put back with a backoff until its third attempt.                         *)
(*                                                                         *)
(* Time runs in units of BASE_DELAY_MS (30 s) and is kept as what remains:   *)
(* of an item until it is due (wait), of the timer until it fires.  A tick   *)
(* awaits each send, so a message queued meanwhile may start a second tick   *)
(* beside it.                                                               *)
(***************************************************************************)
EXTENDS Integers, Sequences, FiniteSets, Recursions

CONSTANTS
  Messages,         \* the calls of enqueue: one message each
  MAX_ATTEMPTS,     \* attempts before a message is given up
  MaxRestarts,      \* bound: restarts of the backend
  Unset             \* no timer

ASSUME NotifyAssumption ==
  /\ MAX_ATTEMPTS \in Nat \ {0}
  /\ MaxRestarts \in Nat
  /\ Unset \notin Int

VARIABLES
  notifyQueue,      \* queue: items waiting for a tick
  notifyTimer,      \* timer: time until it fires, or Unset
  notifyTicks,      \* the due lists of the ticks that are awaiting a send
  notifyFate,       \* history: what has become of each message
  notifyRestarts

notifyVars == <<notifyQueue, notifyTimer, notifyTicks, notifyFate, notifyRestarts>>

\* 30 s, then four times as long with every further attempt.
Backoff(attempts) == Power(4, attempts - 1)

\* The longest backoff that is ever waited for: the last attempt has none.
LongestBackoff == IF MAX_ATTEMPTS > 1 THEN Backoff(MAX_ATTEMPTS - 1) ELSE 0

\* A QueuedSend.  late is how long it has been due while no send was running.
NotifyItem == [id : Messages, attempts : 0 .. MAX_ATTEMPTS - 1,
               wait : 0 .. LongestBackoff, late : 0 .. LongestBackoff]

NotifyTypeOK ==
  /\ notifyQueue \in Seq(NotifyItem)
  /\ notifyTimer \in 0 .. LongestBackoff \cup {Unset}
  /\ notifyTicks \subseteq Seq(NotifyItem) \ {<<>>}
  /\ notifyFate \in [Messages -> {"unsent", "queued", "sent", "dropped", "lost"}]
  /\ notifyRestarts \in 0 .. MaxRestarts

NotifyInit ==
  /\ notifyQueue = <<>>
  /\ notifyTimer = Unset
  /\ notifyTicks = {}
  /\ notifyFate = [m \in Messages |-> "unsent"]
  /\ notifyRestarts = 0

-----------------------------------------------------------------------------
Due == {item \in NotifyItem : item.wait = 0}
NotDue == {item \in NotifyItem : item.wait > 0}

\* schedule(): a timer that is set stays; otherwise it fires when the first item is due.
Scheduled(timer, queue) ==
  IF timer = Unset
  THEN CHOOSE w \in {queue[i].wait : i \in DOMAIN queue} :
         \A i \in DOMAIN queue : w <= queue[i].wait
  ELSE timer

Enqueue(m) ==
  /\ notifyFate[m] = "unsent"
  /\ notifyQueue' = Append(notifyQueue, [id |-> m, attempts |-> 0, wait |-> 0, late |-> 0])
  /\ notifyTimer' = Scheduled(notifyTimer, notifyQueue')
  /\ notifyFate' = [notifyFate EXCEPT ![m] = "queued"]
  /\ UNCHANGED <<notifyTicks, notifyRestarts>>

\* defect: the tick leaves what it sends in the queue
TimerFiresKeeping ==
  /\ notifyTimer = 0
  /\ notifyTicks' = notifyTicks \cup ({Sift(notifyQueue, Due)} \ {<<>>})
  /\ notifyTimer' = Unset
  /\ UNCHANGED <<notifyQueue, notifyFate, notifyRestarts>>

\* The timer fires and a tick starts.  Without a due item it ends in the same turn.
TimerFires ==
  /\ notifyTimer = 0
  /\ LET due == Sift(notifyQueue, Due)
         rest == Sift(notifyQueue, NotDue)
     IN /\ notifyQueue' = rest
        /\ IF due # <<>>
           THEN /\ notifyTicks' = notifyTicks \cup {due}
                /\ notifyTimer' = Unset
           ELSE /\ UNCHANGED notifyTicks
                /\ notifyTimer' = IF rest = <<>> THEN Unset ELSE Scheduled(Unset, rest)
  /\ UNCHANGED <<notifyFate, notifyRestarts>>

\* defect: the tick ends without setting the timer
TickEndsAsleep(tick, queue) ==
  /\ notifyTicks' = (notifyTicks \ {tick})
                    \cup (IF Len(tick) > 1 THEN {Tail(tick)} ELSE {})
  /\ UNCHANGED notifyTimer

\* The tick goes on to its next item, or ends and sets the timer for what is queued.
TickGoesOn(tick, queue) ==
  IF Len(tick) > 1
  THEN /\ notifyTicks' = (notifyTicks \ {tick}) \cup {Tail(tick)}
       /\ UNCHANGED notifyTimer
  ELSE /\ notifyTicks' = notifyTicks \ {tick}
       /\ notifyTimer' = IF queue = <<>> THEN notifyTimer ELSE Scheduled(notifyTimer, queue)

\* The awaited send resolves true.
SendSucceeds(tick) ==
  /\ notifyFate' = [notifyFate EXCEPT ![Head(tick).id] = "sent"]
  /\ TickGoesOn(tick, notifyQueue)
  /\ UNCHANGED <<notifyQueue, notifyRestarts>>

\* defect: one attempt more than the limit
SendFailsOnceMore(tick) ==
  LET item == Head(tick)
      attempts == item.attempts + 1
  IN /\ IF attempts > MAX_ATTEMPTS
        THEN /\ notifyFate' = [notifyFate EXCEPT ![item.id] = "dropped"]
             /\ UNCHANGED notifyQueue
        ELSE /\ notifyQueue' = Append(notifyQueue, [item EXCEPT !.attempts = attempts,
                                                                !.wait = Backoff(attempts),
                                                                !.late = 0])
             /\ UNCHANGED notifyFate
     /\ TickGoesOn(tick, notifyQueue')
     /\ UNCHANGED notifyRestarts

\* The awaited send throws or resolves false.
SendFails(tick) ==
  LET item == Head(tick)
      attempts == item.attempts + 1
  IN /\ IF attempts >= MAX_ATTEMPTS
        THEN /\ notifyFate' = [notifyFate EXCEPT ![item.id] = "dropped"]
             /\ UNCHANGED notifyQueue
        ELSE /\ notifyQueue' = Append(notifyQueue, [item EXCEPT !.attempts = attempts,
                                                                !.wait = Backoff(attempts),
                                                                !.late = 0])
             /\ UNCHANGED notifyFate
     /\ TickGoesOn(tick, notifyQueue')
     /\ UNCHANGED notifyRestarts

\* A unit of time passes.  A timer that is due fires first.  (Bound: late is not counted beyond
\* the longest backoff.)
Passes(item) ==
  [item EXCEPT !.wait = IF item.wait = 0 THEN 0 ELSE item.wait - 1,
               !.late = IF item.wait = 0 /\ notifyTicks = {} /\ @ <= LongestBackoff
                        THEN @ + 1 ELSE @]

NotifyTime ==
  /\ notifyTimer # 0
  /\ notifyTimer' = IF notifyTimer = Unset THEN Unset ELSE notifyTimer - 1
  /\ notifyQueue' = [i \in DOMAIN notifyQueue |-> Passes(notifyQueue[i])]
  /\ UNCHANGED <<notifyTicks, notifyFate, notifyRestarts>>

\* The backend restarts: queue, timer and running ticks were in memory only.
NotifyRestart ==
  /\ notifyRestarts < MaxRestarts
  /\ notifyRestarts' = notifyRestarts + 1
  /\ notifyQueue' = <<>>
  /\ notifyTimer' = Unset
  /\ notifyTicks' = {}
  /\ notifyFate' = [m \in Messages |-> IF notifyFate[m] = "queued" THEN "lost" ELSE notifyFate[m]]

NotifyNext ==
  \/ \E m \in Messages : Enqueue(m)
  \/ TimerFires
  \/ \E tick \in notifyTicks : SendSucceeds(tick)
  \/ \E tick \in notifyTicks : SendFails(tick)
  \/ NotifyTime
  \/ NotifyRestart

NotifySpec == NotifyInit /\ [][NotifyNext]_notifyVars

-----------------------------------------------------------------------------
\* A message is waiting in the queue or in the due list of one tick.
WaitingIds == {notifyQueue[i].id : i \in DOMAIN notifyQueue}
SendingIds(tick) == {tick[i].id : i \in DOMAIN tick}

(* No lost wake-up: whenever the queue holds a message, a timer is set or a *)
(* tick is running that sets one when it ends.  schedule() is skipped when   *)
(* a timer is set and a tick clears it, so each relies on the other.         *)
NotifyAwake == notifyQueue # <<>> => notifyTimer # Unset \/ notifyTicks # {}

(* The timer is set for a message that is due then, and none that was queued      *)
(* before that one is due earlier.  A message queued while a retry is waited for   *)
(* may be due and wait for it, but, while no send is running, for no longer than    *)
(* one longest backoff.                                                     *)
NotifyPrompt ==
  notifyTimer # Unset =>
    /\ \E k \in DOMAIN notifyQueue :
         /\ notifyQueue[k].wait = notifyTimer
         /\ \A i \in 1 .. k : notifyQueue[i].wait >= notifyTimer
    /\ \A i \in DOMAIN notifyQueue : notifyQueue[i].late + notifyTimer <= LongestBackoff

(* A message is in one place: it waits once in the queue or in one running    *)
(* tick as long as its fate is open, and nowhere once it is sent, dropped or   *)
(* lost.  Ticks that overlap must not send one message twice.               *)
NotifyOnePlace ==
  /\ \A m \in Messages :
       (notifyFate[m] = "queued") <=>
         (m \in WaitingIds \/ \E tick \in notifyTicks : m \in SendingIds(tick))
  /\ \A i, j \in DOMAIN notifyQueue : notifyQueue[i].id = notifyQueue[j].id => i = j
  /\ \A tick \in notifyTicks :
       /\ SendingIds(tick) \cap WaitingIds = {}
       /\ \A i, j \in DOMAIN tick : tick[i].id = tick[j].id => i = j
  /\ \A t1, t2 \in notifyTicks : SendingIds(t1) \cap SendingIds(t2) # {} => t1 = t2

(* What the queue promises at every moment.                                *)
NotifyKept == NotifyAwake /\ NotifyPrompt /\ NotifyOnePlace

(* Every queued message is sent, given up after its last attempt, or lost in   *)
(* a restart, provided the timer fires and every send returns: again and again    *)
(* none is open.                                                            *)
NotifyEnds == []<>(\A m \in Messages : notifyFate[m] # "queued")
=============================================================================
