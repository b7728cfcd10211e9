----------------------------- MODULE ChatLimits -----------------------------
(***************************************************************************)
(* How often the host lets somebody chat (host.py, RateLimiter in session_pool.py):     *)
(* at each door, the chat's and that of A2A, so often a minute for an address; and       *)
(* for both doors together so many turns a day for a session and for the whole host,      *)
(* whose operators are told when the day's turns are used up.  All of it is in memory.     *)
(*                                                                         *)
(* The guards never await, so a request passes both in one step.  The counts of turns      *)
(* carry their day and earlier days are pruned: here a new day begins at nought.          *)
(***************************************************************************)
EXTENDS Integers, SequencesExt, Recursions

CONSTANTS
  Addresses,        \* client_ip
  Talkers,          \* sessions, also those of A2A tasks
  PerMinute,        \* chat_rate_limit_per_min
  Minute,           \* how many ticks of the clock make a minute
  PerDay,           \* chat_turns_per_day
  GlobalPerDay,     \* global_turns_per_day
  MaxLives          \* bound: starts of the host within a day

ASSUME LimitsAssumption ==
  /\ {PerMinute, PerDay, GlobalPerDay, MaxLives} \subseteq Nat \ {0}
  /\ Minute \in Nat
  /\ IsFiniteSet(Talkers)

Doors == {"chat", "a2a"}

VARIABLES
  hits,             \* RateLimiter._hits: how long ago each was, oldest first
  turnCounts,       \* _turn_counts of today
  globalCount,      \* _global_counts of today
  budgetAlerted,    \* today is in _budget_alerted_dates
  passed,           \* history: how long ago requests passed a door, within a minute
  turnsToday,       \* history: turns let in today, of each session
  budgetAlerts,     \* history: alerts of a used-up budget in today's feed
  turnedAway,       \* history: somebody was turned away today since the host's turns were used up
  lives             \* history: starts of the host today

limitVars == <<hits, turnCounts, globalCount, budgetAlerted, passed, turnsToday, budgetAlerts,
               turnedAway, lives>>

Keys == Addresses \X Doors
AllTurns == FoldFunction(LAMBDA n, sum : n + sum, 0, turnsToday)

LimitsTypeOK ==
  /\ hits \in [Keys -> Seq(0 .. Minute + 1)]
  /\ passed \in [Keys -> Seq(0 .. Minute)]
  /\ turnCounts \in [Talkers -> 0 .. PerDay]
  /\ globalCount \in 0 .. GlobalPerDay
  /\ turnsToday \in [Talkers -> 0 .. PerDay * MaxLives]
  /\ budgetAlerted \in BOOLEAN /\ turnedAway \in BOOLEAN
  /\ budgetAlerts \in 0 .. MaxLives /\ lives \in 1 .. MaxLives

LimitsInit ==
  /\ hits = [k \in Keys |-> <<>>] /\ passed = hits
  /\ turnCounts = [s \in Talkers |-> 0] /\ turnsToday = turnCounts
  /\ globalCount = 0 /\ budgetAlerted = FALSE
  /\ budgetAlerts = 0 /\ turnedAway = FALSE /\ lives = 1

-----------------------------------------------------------------------------
countsVars == <<turnCounts, globalCount, budgetAlerted, turnsToday, budgetAlerts, turnedAway>>

WithinMinute(ages) == Sift(ages, 0 .. Minute)

\* defect: a window that has grown old is begun anew
WindowAnew(k) ==
  IF hits[k] # <<>> /\ Head(hits[k]) > Minute THEN <<>> ELSE hits[k]

\* allow: the oldest go as long as they are too old, which leaves those of the last minute.
Window(k) == WithinMinute(hits[k])

\* _check_rate
TooOften(k) ==
  /\ Len(Window(k)) >= PerMinute
  /\ hits' = [hits EXCEPT ![k] = Window(k)]
  /\ UNCHANGED <<passed, countsVars, lives>>

Passes(k) ==
  /\ Len(Window(k)) < PerMinute
  /\ hits' = [hits EXCEPT ![k] = Append(Window(k), 0)]
  /\ passed' = [passed EXCEPT ![k] = Append(@, 0)]
  /\ UNCHANGED lives

\* _check_budget: the host's turns of today are used up.  The first to hear it tells the operators.
HostIsSpent(k) ==
  /\ Passes(k)
  /\ globalCount >= GlobalPerDay
  /\ turnedAway' = TRUE
  /\ budgetAlerted' = TRUE
  /\ budgetAlerts' = IF budgetAlerted THEN budgetAlerts ELSE budgetAlerts + 1
  /\ UNCHANGED <<turnCounts, globalCount, turnsToday>>

\* The session's are.
SessionIsSpent(k, s) ==
  /\ Passes(k)
  /\ globalCount < GlobalPerDay /\ turnCounts[s] >= PerDay
  /\ UNCHANGED countsVars

\* defect: a turn counts for its session alone
LetInUncounted(k, s) ==
  /\ Passes(k)
  /\ globalCount < GlobalPerDay /\ turnCounts[s] < PerDay
  /\ turnCounts' = [turnCounts EXCEPT ![s] = @ + 1]
  /\ turnsToday' = [turnsToday EXCEPT ![s] = @ + 1]
  /\ UNCHANGED <<globalCount, budgetAlerted, budgetAlerts, turnedAway>>

\* A turn counts when it is let in, whatever becomes of it.
LetIn(k, s) ==
  /\ Passes(k)
  /\ globalCount < GlobalPerDay /\ turnCounts[s] < PerDay
  /\ turnCounts' = [turnCounts EXCEPT ![s] = @ + 1]
  /\ globalCount' = globalCount + 1
  /\ turnsToday' = [turnsToday EXCEPT ![s] = @ + 1]
  /\ UNCHANGED <<budgetAlerted, budgetAlerts, turnedAway>>

-----------------------------------------------------------------------------
Older(ages) == [i \in DOMAIN ages |-> IF ages[i] <= Minute THEN ages[i] + 1 ELSE ages[i]]

Tick ==
  /\ hits' = [k \in Keys |-> Older(hits[k])]
  /\ passed' = [k \in Keys |-> WithinMinute(Older(passed[k]))]
  /\ UNCHANGED <<countsVars, lives>>

\* Midnight, UTC.
NewDay ==
  /\ turnCounts' = [s \in Talkers |-> 0] /\ turnsToday' = turnCounts'
  /\ globalCount' = 0 /\ budgetAlerted' = FALSE
  /\ budgetAlerts' = 0 /\ turnedAway' = FALSE /\ lives' = 1
  /\ UNCHANGED <<hits, passed>>

\* The host starts again and has forgotten whom it let in.
LimitsRestart ==
  /\ lives < MaxLives
  /\ lives' = lives + 1
  /\ hits' = [k \in Keys |-> <<>>] /\ passed' = hits'
  /\ turnCounts' = [s \in Talkers |-> 0]
  /\ globalCount' = 0 /\ budgetAlerted' = FALSE
  /\ UNCHANGED <<turnsToday, budgetAlerts, turnedAway>>

LimitsNext ==
  \/ \E k \in Keys :
       \/ TooOften(k) \/ HostIsSpent(k)
       \/ \E s \in Talkers : SessionIsSpent(k, s) \/ LetIn(k, s)
  \/ Tick \/ NewDay \/ LimitsRestart

LimitsSpec == LimitsInit /\ [][LimitsNext]_limitVars

-----------------------------------------------------------------------------
(* However requests are spread over time, in no minute do more than the limit pass a     *)
(* door from one address (a host that starts again begins anew).                 *)
MinuteHolds == \A k \in Keys : Len(passed[k]) <= PerMinute

(* The day's turns of the whole host are bounded, whoever opens new sessions at          *)
(* whichever door: by the limit for each start of the host.  So are a session's.          *)
DayHolds ==
  /\ AllTurns <= GlobalPerDay * lives
  /\ \A s \in Talkers : turnsToday[s] <= PerDay * lives

(* Whoever was turned away since the day's turns were used up, the operators were told     *)
(* of it, once for each start of the host, and only if they really were.             *)
SpentIsTold ==
  /\ turnedAway <=> budgetAlerts > 0
  /\ budgetAlerts <= lives
  /\ budgetAlerts > 0 => AllTurns >= GlobalPerDay * budgetAlerts

(* The limits of the chat hold.                                              *)
LimitsSound == MinuteHolds /\ DayHolds /\ SpentIsTold
=============================================================================
