------------------------------ MODULE A2ATasks ------------------------------
(***************************************************************************)
(* The tasks of the A2A endpoint (a2a.py): message/send and message/stream open  *)
(* a task or continue one and run a shopping turn for it, tasks/cancel marks it,  *)
(* and a new task beyond the cap drops the oldest one that has ended.  Sends of   *)
(* one task are not serialised, and a cancel does not stop a turn.            *)
(***************************************************************************)
EXTENDS Integers, Sequences, SequencesExt, FiniteSets

CONSTANTS
  A2ATaskIds,       \* bound: the tasks that are ever opened
  MaxTasks,         \* _MAX_TASKS
  MaxTurns          \* bound: turns of a task at a time

ASSUME A2AAssumption == MaxTasks \in Nat /\ MaxTurns \in Nat

VARIABLES
  table,            \* _TASKS, oldest first
  taskState,
  taskTurns,        \* turns under way for each task
  opening,          \* tasks with a stream whose generator has not started (bound: one each)
  abandoned,        \* history: tasks of which a stream was given up by its client
  startedLate       \* history: tasks dropped from the table before their stream started

a2aVars == <<table, taskState, taskTurns, opening, abandoned, startedLate>>

Terminal == {"completed", "failed", "canceled", "rejected"}
InTable(id) == \E i \in DOMAIN table : table[i] = id

A2ATypeOK ==
  /\ table \in Seq(A2ATaskIds) /\ IsInjective(table)
  /\ taskState \in [A2ATaskIds -> Terminal \cup {"none", "submitted", "working"}]
  /\ taskTurns \in [A2ATaskIds -> 0 .. MaxTurns]
  /\ opening \subseteq A2ATaskIds
  /\ abandoned \subseteq A2ATaskIds /\ startedLate \subseteq A2ATaskIds

A2AInit ==
  /\ table = <<>>
  /\ taskState = [id \in A2ATaskIds |-> "none"]
  /\ taskTurns = [id \in A2ATaskIds |-> 0]
  /\ opening = {} /\ abandoned = {} /\ startedLate = {}

-----------------------------------------------------------------------------
\* defect: the oldest task goes, whatever it is doing
EvictedOldest(tasks) ==
  IF Len(tasks) <= MaxTasks THEN tasks ELSE Tail(tasks)

\* Beyond the cap the oldest task that has ended goes, if there is one.
Evicted(tasks) ==
  LET ended == {i \in DOMAIN tasks : taskState[tasks[i]] \in Terminal}
  IN IF Len(tasks) <= MaxTasks \/ ended = {} THEN tasks
     ELSE RemoveAt(tasks, CHOOSE i \in ended : \A j \in ended : i <= j)

Work(id) ==
  /\ taskTurns[id] < MaxTurns
  /\ taskState' = [taskState EXCEPT ![id] = "working"]
  /\ taskTurns' = [taskTurns EXCEPT ![id] = @ + 1]

Stays(id) ==
  /\ taskState' = [taskState EXCEPT ![id] = IF @ = "none" THEN "submitted" ELSE @]
  /\ UNCHANGED taskTurns

\* A message opens a task, or takes one up again that is in the table, ended or not.
Addressed(id) ==
  \/ taskState[id] = "none" /\ table' = Evicted(Append(table, id))
  \/ InTable(id) /\ UNCHANGED table

\* message/send: within its rate and budget it runs a turn; past the rate the task is
\* rejected, past the budget it stays as it was.
MessageSend(id) ==
  /\ Addressed(id)
  /\ \/ Work(id)
     \/ Stays(id)
     \/ taskState' = [taskState EXCEPT ![id] = "rejected"] /\ UNCHANGED taskTurns
  /\ UNCHANGED <<opening, abandoned, startedLate>>

\* message/stream: the task is there before the generator looks at rate and budget.
StreamOpens(id) ==
  /\ id \notin opening
  /\ Addressed(id)
  /\ Stays(id)
  /\ opening' = opening \cup {id}
  /\ UNCHANGED <<abandoned, startedLate>>

StreamStarts(id) ==
  /\ id \in opening
  /\ opening' = opening \ {id}
  /\ Work(id) \/ Stays(id)
  /\ startedLate' = IF InTable(id) THEN startedLate ELSE startedLate \cup {id}
  /\ UNCHANGED <<table, abandoned>>

\* The turn is over: what the task was made meanwhile, canceled too, is written over.
TurnOfTaskEnds(id) ==
  /\ taskTurns[id] > 0
  /\ taskTurns' = [taskTurns EXCEPT ![id] = @ - 1]
  /\ \E state \in {"completed", "failed"} : taskState' = [taskState EXCEPT ![id] = state]
  /\ UNCHANGED <<table, opening, abandoned, startedLate>>

\* The client of a stream goes away: the generator is closed and sets nothing.
StreamAbandoned(id) ==
  /\ taskTurns[id] > 0
  /\ taskTurns' = [taskTurns EXCEPT ![id] = @ - 1]
  /\ abandoned' = abandoned \cup {id}
  /\ UNCHANGED <<table, taskState, opening, startedLate>>

CancelTask(id) ==
  /\ InTable(id)
  /\ taskState[id] \notin {"completed", "failed", "canceled"}
  /\ taskState' = [taskState EXCEPT ![id] = "canceled"]
  /\ UNCHANGED <<table, taskTurns, opening, abandoned, startedLate>>

A2ANext ==
  \E id \in A2ATaskIds :
    \/ MessageSend(id) \/ StreamOpens(id) \/ StreamStarts(id)
    \/ TurnOfTaskEnds(id) \/ StreamAbandoned(id) \/ CancelTask(id)

A2ASpec == A2AInit /\ [][A2ANext]_a2aVars

-----------------------------------------------------------------------------
(* A task that says it is working is: it is in the table to be asked about, and   *)
(* a turn runs that will end it, through concurrent messages, cancels, refusals    *)
(* and evictions.  The exceptions are a stream its client gave up, which leaves    *)
(* the task working for ever, and one whose ended task was dropped before the      *)
(* stream had started.                                                      *)
WorkingIsReal ==
  \A id \in A2ATaskIds : taskState[id] = "working" =>
    /\ InTable(id) \/ id \in startedLate
    /\ taskTurns[id] > 0 \/ id \in abandoned
=============================================================================
