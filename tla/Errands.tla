------------------------------- MODULE Errands -------------------------------
(***************************************************************************)
(* What customers leave with the agent to come back to (task_tool.py, TaskStore and    *)
(* cleanup_expired in proactive.py, forget in host.py): a task of a session, which is    *)
(* taken up again with the transcript of that session.  Transcripts that have not been    *)
(* written for long are deleted, unless their customer has an open task or a watch.        *)
(*                                                                         *)
(* How the store is shared and saved is in ListStore, a transcript's content in            *)
(* HostTurns; here a session has one turn at a time, from its first tool to the save in      *)
(* the finally of its stream, which does not fail.                                *)
(***************************************************************************)
EXTENDS Integers, Sequences, FiniteSets, Recursions

CONSTANTS
  Customers,        \* sessions; each is a customer of its own
  MaxOpen,          \* MAX_OPEN_TASKS_PER_USER
  TaskCap,          \* the store's cap
  MaxErrands,       \* bound: tasks that are ever saved
  MaxHalts          \* bound: stops of the host

ASSUME ErrandsAssumption ==
  /\ {MaxOpen, TaskCap, MaxErrands} \subseteq Nat \ {0}
  /\ MaxHalts \in Nat

VARIABLES
  taskList,         \* the store, oldest first
  talkFile,         \* the transcript file of each session
  inTurn,           \* sessions with a turn under way
  watching,         \* customers with an active watch
  given,            \* history: tasks ever saved
  closed,           \* history: tasks their customer has completed, or that were forgotten
  halfForgotten,    \* customers whose POST /shop/forget awaits the clearing of the memory
  cutOff,           \* history: sessions without a transcript since a stop cut their turn or forget
  halts

errandVars == <<taskList, talkFile, inTurn, watching, given, closed, halfForgotten, cutOff, halts>>

Errand == [id : 1 .. MaxErrands, by : Customers, open : BOOLEAN, old : BOOLEAN]

ErrandsTypeOK ==
  /\ taskList \in Seq(Errand) /\ Len(taskList) <= TaskCap
  /\ talkFile \in [Customers -> {"none", "recent", "old"}]
  /\ {inTurn, watching, halfForgotten, cutOff} \subseteq SUBSET Customers
  /\ given \in 0 .. MaxErrands /\ closed \subseteq 1 .. MaxErrands
  /\ halts \in 0 .. MaxHalts

ErrandsInit ==
  /\ taskList = <<>>
  /\ talkFile = [c \in Customers |-> "none"]
  /\ inTurn = {} /\ watching = {} /\ halfForgotten = {} /\ cutOff = {}
  /\ given = 0 /\ closed = {} /\ halts = 0

-----------------------------------------------------------------------------
OpenOf(c) == {i \in DOMAIN taskList : taskList[i].by = c /\ taskList[i].open}

TalkBegins(c) ==
  /\ c \notin inTurn
  /\ inTurn' = inTurn \cup {c}
  /\ UNCHANGED <<taskList, talkFile, watching, given, closed, halfForgotten, cutOff, halts>>

\* save_task: TaskStore.add, which drops the oldest of all tasks beyond the cap.
SaveTask(c) ==
  /\ c \in inTurn /\ given < MaxErrands
  /\ Cardinality(OpenOf(c)) < MaxOpen
  /\ LET more == Append(taskList, [id |-> given + 1, by |-> c, open |-> TRUE, old |-> FALSE])
     IN  taskList' = IF Len(more) > TaskCap THEN Tail(more) ELSE more
  /\ given' = given + 1
  /\ UNCHANGED <<talkFile, inTurn, watching, closed, halfForgotten, cutOff, halts>>

\* defect: whoever names a task completes it
CompleteAnyTask(c) ==
  /\ c \in inTurn
  /\ \E i \in DOMAIN taskList :
       /\ taskList[i].open
       /\ taskList' = [taskList EXCEPT ![i].open = FALSE, ![i].old = FALSE]
       /\ closed' = IF taskList[i].by = c THEN closed \cup {taskList[i].id} ELSE closed
  /\ UNCHANGED <<talkFile, inTurn, watching, given, halfForgotten, cutOff, halts>>

\* complete_task, of the customer's own.
CompleteTask(c) ==
  /\ c \in inTurn
  /\ \E i \in OpenOf(c) :
       /\ taskList' = [taskList EXCEPT ![i].open = FALSE, ![i].old = FALSE]
       /\ closed' = closed \cup {taskList[i].id}
  /\ UNCHANGED <<talkFile, inTurn, watching, given, halfForgotten, cutOff, halts>>

\* A watch is set in a turn, and answered or cancelled at any time.
WatchChanges(c) ==
  /\ c \in watching \/ c \in inTurn
  /\ watching' = IF c \in watching THEN watching \ {c} ELSE watching \cup {c}
  /\ UNCHANGED <<taskList, talkFile, inTurn, given, closed, halfForgotten, cutOff, halts>>

\* The finally of the stream saves the transcript, however the stream ends.
TalkEnds(c) ==
  /\ c \in inTurn
  /\ inTurn' = inTurn \ {c}
  /\ talkFile' = [talkFile EXCEPT ![c] = "recent"]
  /\ cutOff' = cutOff \ {c}
  /\ UNCHANGED <<taskList, watching, given, closed, halfForgotten, halts>>

\* POST /shop/forget, at any time: the transcript goes at once.
ForgetBegins(c) ==
  /\ c \notin halfForgotten
  /\ talkFile' = [talkFile EXCEPT ![c] = "none"]
  /\ halfForgotten' = halfForgotten \cup {c}
  /\ UNCHANGED <<taskList, inTurn, watching, given, closed, cutOff, halts>>

\* The memory is cleared, or could not be: all watches and tasks go.
ForgetFinishes(c) ==
  /\ c \in halfForgotten
  /\ halfForgotten' = halfForgotten \ {c}
  /\ closed' = closed \cup {taskList[i].id : i \in OpenOf(c)}
  /\ taskList' = Sift(taskList, {task \in Errand : task.by # c})
  /\ watching' = watching \ {c}
  /\ UNCHANGED <<talkFile, inTurn, given, cutOff, halts>>

-----------------------------------------------------------------------------
\* The retention time passes.
TimePasses ==
  /\ talkFile' = [c \in Customers |-> IF talkFile[c] = "recent" THEN "old" ELSE talkFile[c]]
  /\ taskList' = [i \in DOMAIN taskList |-> [taskList[i] EXCEPT !.old = TRUE]]
  /\ UNCHANGED <<inTurn, watching, given, closed, halfForgotten, cutOff, halts>>

Swept == Sift(taskList, {task \in Errand : task.open \/ ~task.old})

\* defect: open tasks do not keep their transcript
SweepTalks ==
  /\ \E c \in Customers : talkFile[c] = "old" /\ c \notin watching
  /\ talkFile' = [c \in Customers |->
       IF talkFile[c] = "old" /\ c \notin watching THEN "none" ELSE talkFile[c]]
  /\ taskList' = Swept
  /\ UNCHANGED <<inTurn, watching, given, closed, halfForgotten, cutOff, halts>>

\* cleanup_expired, in a round of the monitor: transcripts, then the tasks done long ago.
Sweep ==
  /\ talkFile' = [c \in Customers |->
       IF talkFile[c] = "old" /\ c \notin watching /\ OpenOf(c) = {} THEN "none" ELSE talkFile[c]]
  /\ taskList' = Swept
  /\ <<talkFile, taskList>>' # <<talkFile, taskList>>
  /\ UNCHANGED <<inTurn, watching, given, closed, halfForgotten, cutOff, halts>>

\* The host stops: turns are cut before they have saved their transcript, forgets half way.
HostHalts ==
  /\ halts < MaxHalts
  /\ halts' = halts + 1
  /\ inTurn' = {} /\ halfForgotten' = {}
  /\ cutOff' = cutOff \cup {c \in inTurn \cup halfForgotten : talkFile[c] = "none"}
  /\ UNCHANGED <<taskList, talkFile, watching, given, closed>>

ErrandsNext ==
  \/ \E c \in Customers :
       \/ TalkBegins(c) \/ SaveTask(c) \/ CompleteTask(c) \/ WatchChanges(c) \/ TalkEnds(c)
       \/ ForgetBegins(c) \/ ForgetFinishes(c)
  \/ TimePasses \/ Sweep \/ HostHalts

ErrandsSpec == ErrandsInit /\ [][ErrandsNext]_errandVars

-----------------------------------------------------------------------------
(* A task is open until its customer completes it or asks to be forgotten, however long   *)
(* that takes; unless as many tasks as the store holds have been left since then, by         *)
(* whomever.                                                               *)
TasksStayOpen ==
  \A n \in 1 .. given :
    \/ \E i \in DOMAIN taskList : taskList[i].id = n /\ taskList[i].open
    \/ n \in closed
    \/ given - n >= TaskCap

(* An open task, or a watch, can be taken up again with what was said: its transcript is    *)
(* on disk, whatever the retention sweep deletes; unless a turn or a forget of its customer   *)
(* is still under way, or a stop of the host cut one when there was no transcript.           *)
ErrandsResume ==
  \A c \in Customers \ (inTurn \cup halfForgotten \cup cutOff) :
    OpenOf(c) # {} \/ c \in watching => talkFile[c] # "none"

(* No customer has more open tasks than agreed.                                 *)
FewOpen == \A c \in Customers : Cardinality(OpenOf(c)) <= MaxOpen

(* Customers find what they left with the agent.                                 *)
ErrandsSound == TasksStayOpen /\ ErrandsResume /\ FewOpen
=============================================================================
