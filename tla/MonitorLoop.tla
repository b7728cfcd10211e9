---------------------------- MODULE MonitorLoop ----------------------------
(***************************************************************************)
(* The background loop of the monitor (ProactiveMonitor._run in proactive.py):  *)
(* it waits, judges its own heartbeat, runs a round, and waits longer with       *)
(* every round that fails.  What a round does is in WatchAlerts.              *)
(*                                                                         *)
(* Time runs in units of the interval.  A round takes no time; the waits do.  *)
(***************************************************************************)
EXTENDS Integers, Recursions

CONSTANTS
  MaxBackoff,       \* MAX_BACKOFF_S in intervals
  StaleAfter        \* a heartbeat older than this many intervals is late

ASSUME LoopAssumption ==
  /\ MaxBackoff \in Nat \ {0}
  /\ StaleAfter \in Nat \ {0}

VARIABLES
  reachable,        \* whether the backend answers at least one of the two scans
  failures,         \* rounds that failed in a row, as far as it matters
  wasDown,          \* the feed has been told of an outage
  wasStale,         \* the heartbeat was late at the last round
  untilRound,       \* what remains of the loop's wait
  sinceRun          \* last_run: intervals since the last round, at most NeverRun

loopVars == <<reachable, failures, wasDown, wasStale, untilRound, sinceRun>>

NeverRun == StaleAfter + MaxBackoff
Smaller(a, b) == IF a <= b THEN a ELSE b

\* _current_delay: the interval, and twice as long with every failure, up to the cap.
CurrentDelay(n) == IF n = 0 THEN 1 ELSE Smaller(Power(2, n), MaxBackoff)

LoopTypeOK ==
  /\ reachable \in BOOLEAN
  /\ failures \in 0 .. MaxBackoff
  /\ wasDown \in BOOLEAN /\ wasStale \in BOOLEAN
  /\ untilRound \in 0 .. MaxBackoff
  /\ sinceRun \in 0 .. NeverRun

\* A host that has just started has not run a round, which its heartbeat takes for late.
LoopInit ==
  /\ reachable \in BOOLEAN
  /\ failures = 0
  /\ wasDown = FALSE /\ wasStale = FALSE
  /\ untilRound = CurrentDelay(0)
  /\ sinceRun = NeverRun

-----------------------------------------------------------------------------
BackendComesOrGoes ==
  /\ reachable' = ~reachable
  /\ UNCHANGED <<failures, wasDown, wasStale, untilRound, sinceRun>>

LoopTime ==
  /\ untilRound > 0
  /\ untilRound' = untilRound - 1
  /\ sinceRun' = Smaller(sinceRun + 1, NeverRun)
  /\ UNCHANGED <<reachable, failures, wasDown, wasStale>>

\* defect: one good round does not take the loop out of its backoff
RoundWithoutReset ==
  /\ untilRound = 0
  /\ wasStale' = (sinceRun > StaleAfter)
  /\ sinceRun' = 0
  /\ failures' = IF reachable THEN failures ELSE Smaller(failures + 1, MaxBackoff)
  /\ wasDown' = ~reachable
  /\ untilRound' = CurrentDelay(failures')
  /\ UNCHANGED reachable

\* The wait is over: the heartbeat is judged, then the round run; both scans have to fail
\* for it to count as failed.
LoopRound ==
  /\ untilRound = 0
  /\ wasStale' = (sinceRun > StaleAfter)
  /\ sinceRun' = 0
  /\ failures' = IF reachable THEN 0 ELSE Smaller(failures + 1, MaxBackoff)
  /\ wasDown' = ~reachable
  /\ untilRound' = CurrentDelay(failures')
  /\ UNCHANGED reachable

\* POST /shop/monitor/run: a round outside the loop, of which the loop sees only last_run.
ManualRound ==
  /\ sinceRun' = 0
  /\ UNCHANGED <<reachable, failures, wasDown, wasStale, untilRound>>

LoopRestart ==
  /\ failures' = 0
  /\ wasDown' = FALSE /\ wasStale' = FALSE
  /\ untilRound' = CurrentDelay(0)
  /\ sinceRun' = NeverRun
  /\ UNCHANGED reachable

LoopNext ==
  BackendComesOrGoes \/ LoopTime \/ LoopRound \/ ManualRound \/ LoopRestart

LoopSpec == LoopInit /\ [][LoopNext]_loopVars

-----------------------------------------------------------------------------
(* Backing off never keeps the loop from a backend that is back: once the        *)
(* backend stays reachable the loop comes to know and runs every interval.      *)
LoopRecovers == <>[]reachable => <>[](~wasDown /\ untilRound <= 1)

(* A late heartbeat on the feed is no hiccup of a healthy loop: it is the first  *)
(* round of a host, or the loop had backed off past the limit.               *)
LateOnlyInBackoff ==
  [][~wasStale /\ wasStale' => sinceRun = NeverRun \/ CurrentDelay(failures) > StaleAfter]_loopVars

(* What the loop promises of its pace and of its heartbeat.                     *)
LoopKeepsTime == LoopRecovers /\ LateOnlyInBackoff
=============================================================================
