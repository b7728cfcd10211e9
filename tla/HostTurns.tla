----------------------------- MODULE HostTurns -----------------------------
(***************************************************************************)
(* The shopping turns of one chat session at the agent host (host.py,          *)
(* session_pool.py): the transcript in the cache and in its file, what a turn    *)
(* leaves elsewhere, the ticket the session acts with, and POST /shop/forget.    *)
(* Nothing serialises the turns of a session.                                *)
(*                                                                         *)
(* A turn holds the list it loaded.  A save replaces the cached list by a copy,   *)
(* so from then on nobody's list is the cached one: what is appended to it is    *)
(* lost to the transcript.                                                  *)
(***************************************************************************)
CONSTANTS
  Turns,            \* the messages of the customer in this session
  Nothing           \* no list, no file, no ticket

TranscriptLines == Turns \X {"ask", "reply"}

ASSUME TurnAssumption ==
  /\ Nothing \notin Turns
  /\ \A list \in SUBSET TranscriptLines : list # Nothing

VARIABLES
  turnState,
  holdsCached,      \* the turns whose list is the cached one
  latest,           \* of each turn: whose question comes last in the list it holds
  cached,           \* TranscriptStore._cache of the session: its messages
  saved,            \* the session's file
  facts,            \* turns of which the memory keeps facts
  errands,          \* turns that have left a watch or a task
  boundBy,          \* the turn whose ticket the session acts with
  forgetting,       \* a forget that awaits the clearing of the memory
  forgotten,        \* history: turns that were over when a forget began, and it has ended
  overtaken         \* history: turns whose list was no longer the cached one when they wrote

listVars == <<holdsCached, latest, cached, saved>>
turnHistory == <<forgotten, overtaken>>
keptVars == <<facts, errands>>
turnVars == <<turnState, listVars, keptVars, boundBy, forgetting, turnHistory>>

Ask(t) == <<t, "ask">>
Reply(t) == <<t, "reply">>
Begun == {t \in Turns : turnState[t] # "new"}
Running == {t \in Turns : turnState[t] \in {"asked", "answered", "ending"}}

TurnTypeOK ==
  /\ turnState \in [Turns -> {"new", "asked", "answered", "ending", "done", "cut"}]
  /\ holdsCached \subseteq Turns
  /\ latest \in [Turns -> Turns]
  /\ cached = Nothing \/ cached \subseteq TranscriptLines
  /\ saved = Nothing \/ saved \subseteq TranscriptLines
  /\ facts \subseteq Turns /\ errands \subseteq Turns
  /\ boundBy \in Turns \cup {Nothing}
  /\ forgetting = Nothing \/ forgetting \subseteq Turns
  /\ forgotten \subseteq Turns /\ overtaken \subseteq Turns

TurnInit ==
  /\ turnState = [t \in Turns |-> "new"]
  /\ holdsCached = {}
  /\ latest = [t \in Turns |-> t]
  /\ cached = Nothing /\ saved = Nothing
  /\ facts = {} /\ errands = {}
  /\ boundBy = Nothing
  /\ forgetting = Nothing
  /\ forgotten = {} /\ overtaken = {}

-----------------------------------------------------------------------------
OrEmpty(list) == IF list = Nothing THEN {} ELSE list

\* TranscriptStore.load: the cached list, or a new one read from the file.
Loaded == IF cached # Nothing THEN cached ELSE OrEmpty(saved)

\* POST /shop/chat, POST /a2a: the ticket is bound if one came along, the list loaded and
\* the question appended.  Without a ticket the one bound before stays.
TurnStarts(t, withTicket) ==
  /\ turnState[t] = "new"
  /\ turnState' = [turnState EXCEPT ![t] = "asked"]
  /\ cached' = Loaded \cup {Ask(t)}
  /\ holdsCached' = holdsCached \cup {t}
  /\ latest' = [u \in Turns |-> IF u \in holdsCached' THEN t ELSE latest[u]]
  /\ boundBy' = IF withTicket THEN t ELSE boundBy
  /\ UNCHANGED <<saved, keptVars, forgetting, turnHistory>>

\* The injection gate, or a customer who leaves at once, ends the turn without a save; its
\* question stays in the cached list.
TurnBlocked(t) ==
  /\ turnState[t] = "asked"
  /\ turnState' = [turnState EXCEPT ![t] = "cut"]
  /\ UNCHANGED <<listVars, keptVars, boundBy, forgetting, turnHistory>>

\* The agent's reply is appended to the list the turn holds; its tools may set a watch or task.
TurnAnswers(t, sets) ==
  /\ turnState[t] = "asked"
  /\ turnState' = [turnState EXCEPT ![t] = "answered"]
  /\ cached' = IF t \in holdsCached THEN cached \cup {Reply(t)} ELSE cached
  /\ overtaken' = IF t \in holdsCached THEN overtaken ELSE overtaken \cup {t}
  /\ errands' = IF sets THEN errands \cup {t} ELSE errands
  /\ UNCHANGED <<holdsCached, latest, saved, facts, boundBy, forgetting, forgotten>>

\* TranscriptStore.save
SaveTranscript ==
  /\ cached' = OrEmpty(cached)
  /\ saved' = cached'
  /\ holdsCached' = {}
  /\ UNCHANGED latest

\* defect: the save is left to the end of a turn that went well
TurnSavesNot(t) ==
  /\ \/ turnState[t] = "answered" /\ turnState' = [turnState EXCEPT ![t] = "ending"]
     \/ turnState[t] \in {"asked", "answered"} /\ turnState' = [turnState EXCEPT ![t] = "cut"]
  /\ UNCHANGED <<listVars, keptVars, boundBy, forgetting, turnHistory>>

\* The finally of the stream saves, whether the answer is complete, failed (the error or
\* delegation_expired event) or the customer has left.
TurnSaves(t) ==
  /\ \/ turnState[t] = "answered" /\ turnState' = [turnState EXCEPT ![t] = "ending"]
     \/ turnState[t] \in {"asked", "answered"} /\ turnState' = [turnState EXCEPT ![t] = "cut"]
  /\ SaveTranscript
  /\ UNCHANGED <<keptVars, boundBy, forgetting, turnHistory>>

\* After the handoff: facts of the last exchange go to the memory, if any, and a second save.
TurnEnds(t, remembers) ==
  /\ turnState[t] = "ending"
  /\ turnState' = [turnState EXCEPT ![t] = "done"]
  /\ facts' = IF remembers THEN facts \cup {latest[t]} ELSE facts
  /\ SaveTranscript
  /\ UNCHANGED <<errands, boundBy, forgetting, turnHistory>>

\* The customer leaves while the handoff or the facts are on their way to the page.
TurnLeft(t, remembers) ==
  /\ turnState[t] = "ending"
  /\ turnState' = [turnState EXCEPT ![t] = "cut"]
  /\ facts' = IF remembers THEN facts \cup {latest[t]} ELSE facts
  /\ UNCHANGED <<listVars, errands, boundBy, forgetting, turnHistory>>

\* Turns that are over, and whose question no running turn takes for its own exchange.
OverNow ==
  {t \in Turns : turnState[t] \in {"done", "cut"} /\ \A u \in Running : latest[u] # t}

\* defect: only the file is deleted
ForgetStartsWithFile ==
  /\ forgetting = Nothing
  /\ forgetting' = OverNow
  /\ saved' = Nothing
  /\ overtaken' = overtaken \cup Begun
  /\ UNCHANGED <<turnState, holdsCached, latest, cached, keptVars, boundBy, forgotten>>

\* POST /shop/forget: the transcript is deleted, from the cache and from the disk.
ForgetStarts ==
  /\ forgetting = Nothing
  /\ forgetting' = OverNow
  /\ cached' = Nothing /\ saved' = Nothing
  /\ holdsCached' = {}
  /\ overtaken' = overtaken \cup Begun
  /\ UNCHANGED <<turnState, latest, keptVars, boundBy, forgotten>>

\* The memory has been cleared, which may have missed facts of a turn still running, and may
\* have failed; then the watches, the tasks and the bound ticket go.
ForgetEnds ==
  /\ forgetting # Nothing
  /\ \/ facts' \in SUBSET (facts \ forgetting) /\ forgotten' = forgotten \cup forgetting
     \/ UNCHANGED <<facts, forgotten>>
  /\ errands' = {}
  /\ boundBy' = Nothing
  /\ forgetting' = Nothing
  /\ UNCHANGED <<turnState, listVars, overtaken>>

\* cleanup_expired: a file that has not been written for long, of a session without a watch
\* or task; the cached list stays.
CleanUp ==
  /\ Running = {} /\ errands = {} /\ saved # Nothing
  /\ saved' = Nothing
  /\ overtaken' = overtaken \cup Begun
  /\ UNCHANGED <<turnState, holdsCached, latest, cached, keptVars, boundBy, forgetting, forgotten>>

\* The host stops: turns are cut, what was only in memory is gone.
HostRestarts ==
  /\ turnState' = [t \in Turns |-> IF t \in Running THEN "cut" ELSE turnState[t]]
  /\ cached' = Nothing
  /\ holdsCached' = {}
  /\ boundBy' = Nothing
  /\ forgetting' = Nothing
  /\ UNCHANGED <<latest, saved, keptVars, turnHistory>>

TurnNext ==
  \/ ForgetStarts \/ ForgetEnds \/ CleanUp \/ HostRestarts
  \/ \E t \in Turns :
       \/ TurnBlocked(t) \/ TurnSaves(t)
       \/ \E b \in BOOLEAN :
            TurnStarts(t, b) \/ TurnAnswers(t, b) \/ TurnEnds(t, b) \/ TurnLeft(t, b)

TurnSpec == TurnInit /\ [][TurnNext]_turnVars

-----------------------------------------------------------------------------
(* A turn whose answer is complete is in the transcript on disk, question and     *)
(* answer, also when others failed, were cut or the host restarted; unless        *)
(* another turn's save, a forget or the retention sweep overtook it.            *)
TurnKept ==
  \A t \in Turns : turnState[t] \in {"ending", "done"} /\ t \notin overtaken =>
    \A m \in {Ask(t), Reply(t)} : saved # Nothing /\ m \in saved

(* What was over when the customer asked to be forgotten, and was told that it   *)
(* is, stays forgotten: not in the transcript, cached or on disk, not as facts,   *)
(* watches or tasks, and the session does not act with its ticket, whatever runs   *)
(* during the forget.  Not so a turn whose question a running turn has in its      *)
(* list as the last one: the facts of its exchange may come back.              *)
ForgottenStays ==
  \A t \in forgotten :
    /\ \A m \in {Ask(t), Reply(t)} : m \notin OrEmpty(cached) /\ m \notin OrEmpty(saved)
    /\ t \notin facts /\ t \notin errands
    /\ boundBy # t
=============================================================================
