---------------------------- MODULE Host_proofs ----------------------------
(***************************************************************************)
(* The parts of the agent host that guard turns, tasks, clients and limits keep their     *)
(* types and their invariants, each as a specification of its own.              *)
(***************************************************************************)
EXTENDS HostTurns, A2ATasks, ShopperPool, ApiClient, ChatLimits, Recursions_proofs,
  FiniteSetTheorems, SequenceTheorems, TLAPS

-----------------------------------------------------------------------------
(***************************************************************************)
(* The turns of a chat, its transcripts and what is forgotten (HostTurns). *)
(***************************************************************************)
USE TurnAssumption

-----------------------------------------------------------------------------
(* The inductive invariant.                                                 *)

\* A turn that holds the cached list has its question in it.
HoldersAsked == \A t \in holdsCached : cached # Nothing /\ Ask(t) \in cached

\* What a turn nobody has overtaken was answered is in the cached list, if there is one.
AnsweredCached ==
  \A t \in Turns : /\ turnState[t] \in {"answered", "ending", "done"}
                   /\ t \notin overtaken /\ cached # Nothing
                   => Ask(t) \in cached /\ Reply(t) \in cached

\* A running turn finds the cache emptied only by a forget, which overtakes every turn.
EmptiedOvertakes == cached = Nothing /\ Running # {} => Begun \subseteq overtaken

TranscriptInv == HoldersAsked /\ AnsweredCached /\ EmptiedOvertakes /\ TurnKept

\* The turns that are being, or have been, forgotten.
Forgetful == forgotten \cup OrEmpty(forgetting)

\* They are over, and so are the exchanges the running turns remember last.
ForgetfulOver ==
  /\ \A t \in Forgetful : turnState[t] \in {"done", "cut"}
  /\ \A u \in Running : latest[u] \notin Forgetful

\* Their lines have left the transcript for good.
ForgetfulUnwritten ==
  \A t \in Forgetful : \A m \in {Ask(t), Reply(t)} :
    m \notin OrEmpty(cached) /\ m \notin OrEmpty(saved)

ForgottenClean == \A t \in forgotten : t \notin facts /\ t \notin errands /\ boundBy # t

ForgetInv == ForgetfulOver /\ ForgetfulUnwritten /\ ForgottenClean

-----------------------------------------------------------------------------
LEMMA LineFacts ==
  ASSUME NEW t \in Turns
  PROVE  /\ Ask(t) \in TranscriptLines /\ Reply(t) \in TranscriptLines
         /\ \A u \in Turns : /\ Ask(u) = Ask(t) => u = t
                             /\ Reply(u) = Reply(t) => u = t
                             /\ Ask(u) # Reply(t)
BY DEF Ask, Reply, TranscriptLines

LEMMA ListTypes ==
  ASSUME TurnTypeOK
  PROVE  OrEmpty(cached) \subseteq TranscriptLines /\ Loaded \subseteq TranscriptLines
BY DEF TurnTypeOK, OrEmpty, Loaded

LEMMA SaveFacts ==
  ASSUME TurnTypeOK, SaveTranscript
  PROVE  /\ cached' \subseteq TranscriptLines /\ saved' = cached' /\ holdsCached' = {}
         /\ latest' = latest /\ cached' # Nothing
         /\ cached # Nothing => cached' = cached
BY ListTypes DEF SaveTranscript, OrEmpty

LEMMA TurnTypeInit == TurnInit => TurnTypeOK
BY DEF TurnInit, TurnTypeOK

LEMMA TurnType ==
  ASSUME TurnTypeOK, HoldersAsked, NEW t \in Turns, NEW b \in BOOLEAN,
         \/ TurnStarts(t, b) \/ TurnBlocked(t) \/ TurnAnswers(t, b) \/ TurnSaves(t)
         \/ TurnEnds(t, b) \/ TurnLeft(t, b)
  PROVE  TurnTypeOK'
<1>1. CASE TurnStarts(t, b)
  <2>1. cached' \subseteq TranscriptLines
    BY <1>1, ListTypes, LineFacts DEF TurnStarts
  <2>2. QED
    BY <1>1, <2>1 DEF TurnStarts, keptVars, turnHistory, TurnTypeOK
<1>2. CASE TurnBlocked(t)
  BY <1>2 DEF TurnBlocked, listVars, keptVars, turnHistory, TurnTypeOK
<1>3. CASE TurnAnswers(t, b)
  <2>1. cached' = Nothing \/ cached' \subseteq TranscriptLines
    BY <1>3, LineFacts DEF TurnAnswers, TurnTypeOK, HoldersAsked
  <2>2. QED
    BY <1>3, <2>1 DEF TurnAnswers, TurnTypeOK
<1>4. CASE TurnSaves(t)
  BY <1>4, SaveFacts DEF TurnSaves, keptVars, turnHistory, TurnTypeOK
<1>5. CASE TurnEnds(t, b)
  BY <1>5, SaveFacts DEF TurnEnds, turnHistory, TurnTypeOK
<1>6. CASE TurnLeft(t, b)
  BY <1>6 DEF TurnLeft, listVars, turnHistory, TurnTypeOK
<1>7. QED
  BY <1>1, <1>2, <1>3, <1>4, <1>5, <1>6

LEMMA SessionTypeKeeps ==
  ASSUME TurnTypeOK, ForgetStarts \/ ForgetEnds \/ CleanUp \/ HostRestarts
  PROVE  TurnTypeOK'
<1>1. CASE ForgetStarts
  BY <1>1 DEF ForgetStarts, OverNow, Begun, keptVars, TurnTypeOK
<1>2. CASE ForgetEnds
  BY <1>2 DEF ForgetEnds, listVars, TurnTypeOK
<1>3. CASE CleanUp
  BY <1>3 DEF CleanUp, Begun, keptVars, TurnTypeOK
<1>4. CASE HostRestarts
  BY <1>4 DEF HostRestarts, keptVars, turnHistory, TurnTypeOK
<1>5. QED
  BY <1>1, <1>2, <1>3, <1>4

-----------------------------------------------------------------------------
(* The transcript.                                                         *)

LEMMA TranscriptInit == TurnInit => TranscriptInv
BY DEF TurnInit, TranscriptInv, HoldersAsked, AnsweredCached, EmptiedOvertakes, TurnKept, Running

LEMMA StartsKeeps ==
  ASSUME TurnTypeOK, TranscriptInv, NEW t \in Turns, NEW b \in BOOLEAN, TurnStarts(t, b)
  PROVE  TranscriptInv'
<1>1. /\ turnState[t] = "new" /\ turnState' = [turnState EXCEPT ![t] = "asked"]
      /\ cached' = Loaded \cup {Ask(t)} /\ holdsCached' = holdsCached \cup {t}
      /\ saved' = saved /\ overtaken' = overtaken
  BY DEF TurnStarts, turnHistory
<1>2. cached' # Nothing
  BY <1>1, ListTypes, LineFacts
<1>3. HoldersAsked'
  BY <1>1, <1>2 DEF TranscriptInv, HoldersAsked, Loaded
<1>4. AnsweredCached'
  <2>1. SUFFICES ASSUME NEW u \in Turns, turnState'[u] \in {"answered", "ending", "done"},
                        u \notin overtaken
                 PROVE  Ask(u) \in Loaded /\ Reply(u) \in Loaded
    BY <1>1 DEF AnsweredCached, Ask, Reply
  <2>2. turnState[u] \in {"answered", "ending", "done"}
    BY <1>1, <2>1 DEF TurnTypeOK
  <2>3. CASE cached # Nothing
    BY <2>1, <2>2, <2>3 DEF TranscriptInv, AnsweredCached, Loaded
  <2>4. CASE cached = Nothing
    <3>1. turnState[u] = "done"
      BY <2>1, <2>2, <2>4 DEF TranscriptInv, EmptiedOvertakes, Running, Begun
    <3>2. saved # Nothing /\ Ask(u) \in saved /\ Reply(u) \in saved
      BY <2>1, <3>1 DEF TranscriptInv, TurnKept
    <3>3. QED
      BY <2>4, <3>2 DEF Loaded, OrEmpty
  <2>5. QED
    BY <2>3, <2>4
<1>5. EmptiedOvertakes'
  BY <1>2 DEF EmptiedOvertakes
<1>6. TurnKept'
  BY <1>1 DEF TranscriptInv, TurnKept, TurnTypeOK, Ask, Reply
<1>7. QED
  BY <1>3, <1>4, <1>5, <1>6 DEF TranscriptInv

LEMMA AnswersKeeps ==
  ASSUME TurnTypeOK, TranscriptInv, NEW t \in Turns, NEW b \in BOOLEAN, TurnAnswers(t, b)
  PROVE  TranscriptInv'
<1>1. /\ turnState[t] = "asked" /\ turnState' = [turnState EXCEPT ![t] = "answered"]
      /\ cached' = IF t \in holdsCached THEN cached \cup {Reply(t)} ELSE cached
      /\ overtaken' = IF t \in holdsCached THEN overtaken ELSE overtaken \cup {t}
      /\ saved' = saved /\ holdsCached' = holdsCached
  BY DEF TurnAnswers
<1>2. cached # Nothing =>
        cached \subseteq TranscriptLines /\ cached' # Nothing /\ cached \subseteq cached'
  BY <1>1, LineFacts DEF TurnTypeOK
<1>3. cached = Nothing => cached' = Nothing /\ t \notin holdsCached
  BY <1>1 DEF TranscriptInv, HoldersAsked
<1>4. HoldersAsked'
  BY <1>1, <1>2 DEF TranscriptInv, HoldersAsked, Ask
<1>5. AnsweredCached'
  <2>1. SUFFICES ASSUME NEW u \in Turns, turnState'[u] \in {"answered", "ending", "done"},
                        u \notin overtaken', cached' # Nothing
                 PROVE  Ask(u) \in cached' /\ Reply(u) \in cached'
    BY DEF AnsweredCached, Ask, Reply
  <2>2. cached # Nothing
    BY <1>3, <2>1
  <2>3. CASE u = t
    BY <1>1, <1>2, <2>1, <2>2, <2>3 DEF TranscriptInv, HoldersAsked
  <2>4. CASE u # t
    <3>1. turnState[u] \in {"answered", "ending", "done"} /\ u \notin overtaken
      BY <1>1, <2>1, <2>4 DEF TurnTypeOK
    <3>2. QED
      BY <1>2, <2>2, <3>1 DEF TranscriptInv, AnsweredCached
  <2>5. QED
    BY <2>3, <2>4
<1>6. EmptiedOvertakes'
  <2>1. Begun' = Begun /\ t \in Running /\ overtaken \subseteq overtaken'
    BY <1>1 DEF Begun, Running, TurnTypeOK
  <2>2. QED
    BY <1>2, <2>1 DEF TranscriptInv, EmptiedOvertakes
<1>7. TurnKept'
  <2>1. SUFFICES ASSUME NEW u \in Turns, turnState'[u] \in {"ending", "done"}, u \notin overtaken'
                 PROVE  \A m \in {Ask(u), Reply(u)} : saved # Nothing /\ m \in saved
    BY <1>1 DEF TurnKept, Ask, Reply
  <2>2. turnState[u] \in {"ending", "done"} /\ u \notin overtaken
    BY <1>1, <2>1 DEF TurnTypeOK
  <2>3. QED
    BY <2>2 DEF TranscriptInv, TurnKept
<1>8. QED
  BY <1>4, <1>5, <1>6, <1>7 DEF TranscriptInv

\* A save, by a running turn that ends or goes on.
LEMMA SaveKeeps ==
  ASSUME TurnTypeOK, TranscriptInv, NEW t \in Turns, NEW next \in {"ending", "cut", "done"},
         t \in Running, next # "cut" => turnState[t] \in {"answered", "ending"},
         turnState' = [turnState EXCEPT ![t] = next], SaveTranscript, overtaken' = overtaken
  PROVE  TranscriptInv'
<1>1. Begun' = Begun
  BY DEF Begun, Running, TurnTypeOK
<1>2. \A u \in Turns : turnState'[u] \in {"answered", "ending", "done"} /\ u \notin overtaken
                       => Ask(u) \in cached' /\ Reply(u) \in cached'
  <2>1. TAKE u \in Turns
  <2>2. HAVE turnState'[u] \in {"answered", "ending", "done"} /\ u \notin overtaken
  <2>3. turnState[u] \in {"answered", "ending", "done"}
    BY <2>2 DEF TurnTypeOK
  <2>4. cached # Nothing
    BY <2>2, <2>3 DEF TranscriptInv, EmptiedOvertakes, Begun
  <2>5. QED
    BY <2>2, <2>3, <2>4, SaveFacts DEF TranscriptInv, AnsweredCached
<1>3. HoldersAsked' /\ EmptiedOvertakes'
  BY SaveFacts DEF HoldersAsked, EmptiedOvertakes
<1>4. AnsweredCached' /\ TurnKept'
  BY <1>2, SaveFacts DEF AnsweredCached, TurnKept, Ask, Reply
<1>5. QED
  BY <1>3, <1>4 DEF TranscriptInv

LEMMA CutKeeps ==
  ASSUME TurnTypeOK, TranscriptInv, NEW t \in Turns, NEW b \in BOOLEAN, TurnBlocked(t)
    \/ TurnLeft(t, b)
  PROVE  TranscriptInv'
<1>1. /\ turnState[t] \in {"asked", "ending"} /\ turnState' = [turnState EXCEPT ![t] = "cut"]
      /\ UNCHANGED <<holdsCached, cached, saved, overtaken>>
  BY DEF TurnBlocked, TurnLeft, listVars, turnHistory
<1>2. Begun' = Begun /\ Running' \subseteq Running
  BY <1>1 DEF Begun, Running, TurnTypeOK
<1>3. HoldersAsked' /\ EmptiedOvertakes'
  BY <1>1, <1>2 DEF TranscriptInv, HoldersAsked, EmptiedOvertakes, Ask
<1>4. AnsweredCached' /\ TurnKept'
  BY <1>1 DEF TranscriptInv, AnsweredCached, TurnKept, TurnTypeOK, Ask, Reply
<1>5. QED
  BY <1>3, <1>4 DEF TranscriptInv

LEMMA SessionKeeps ==
  ASSUME TurnTypeOK, TranscriptInv, ForgetStarts \/ ForgetEnds \/ CleanUp \/ HostRestarts
  PROVE  TranscriptInv'
<1>1. CASE ForgetStarts \/ CleanUp
  <2>1. /\ turnState' = turnState /\ overtaken' = overtaken \cup Begun /\ Begun' = Begun
        /\ holdsCached' = {} \/ (holdsCached' = holdsCached /\ cached' = cached)
    BY <1>1 DEF ForgetStarts, CleanUp, Begun
  <2>2. HoldersAsked' /\ EmptiedOvertakes'
    BY <2>1 DEF TranscriptInv, HoldersAsked, EmptiedOvertakes, Ask
  <2>3. AnsweredCached' /\ TurnKept'
    BY <2>1 DEF AnsweredCached, TurnKept, Begun
  <2>4. QED
    BY <2>2, <2>3 DEF TranscriptInv
<1>2. CASE ForgetEnds
  BY <1>2 DEF ForgetEnds, listVars, TranscriptInv, HoldersAsked, AnsweredCached, EmptiedOvertakes,
              TurnKept, Running, Begun, Ask, Reply
<1>3. CASE HostRestarts
  <2>1. /\ \A t \in Turns : /\ turnState'[t] \notin {"asked", "answered", "ending"}
                            /\ turnState'[t] = "done" => turnState[t] = "done"
        /\ cached' = Nothing /\ holdsCached' = {} /\ saved' = saved /\ overtaken' = overtaken
    BY <1>3 DEF HostRestarts, turnHistory, Running, TurnTypeOK
  <2>2. HoldersAsked' /\ EmptiedOvertakes' /\ AnsweredCached'
    BY <2>1 DEF HoldersAsked, EmptiedOvertakes, AnsweredCached, Running
  <2>3. TurnKept'
    BY <2>1 DEF TranscriptInv, TurnKept, Ask, Reply
  <2>4. QED
    BY <2>2, <2>3 DEF TranscriptInv
<1>4. QED
  BY <1>1, <1>2, <1>3

LEMMA TranscriptStep ==
  ASSUME TurnTypeOK, TranscriptInv, [TurnNext]_turnVars
  PROVE  TranscriptInv'
<1>1. ASSUME NEW t \in Turns, NEW b \in BOOLEAN,
             TurnStarts(t, b) \/ TurnAnswers(t, b) \/ TurnEnds(t, b) \/ TurnLeft(t, b)
      PROVE  TranscriptInv'
  <2>1. CASE TurnEnds(t, b)
    BY <2>1, SaveKeeps DEF TurnEnds, turnHistory, Running
  <2>2. QED
    BY <1>1, <2>1, StartsKeeps, AnswersKeeps, CutKeeps
<1>2. ASSUME NEW t \in Turns, TurnBlocked(t) \/ TurnSaves(t)
      PROVE  TranscriptInv'
  <2>1. CASE TurnSaves(t)
    <3>1. PICK next \in {"ending", "cut"} :
            /\ turnState' = [turnState EXCEPT ![t] = next]
            /\ next # "cut" => turnState[t] \in {"answered", "ending"}
      BY <2>1 DEF TurnSaves
    <3>2. t \in Running /\ SaveTranscript /\ overtaken' = overtaken
      BY <2>1 DEF TurnSaves, turnHistory, Running
    <3>3. QED
      BY <3>1, <3>2, SaveKeeps
  <2>2. QED
    BY <1>2, <2>1, CutKeeps
<1>3. CASE UNCHANGED turnVars
  BY <1>3 DEF turnVars, listVars, turnHistory, TranscriptInv, HoldersAsked, AnsweredCached,
              EmptiedOvertakes, TurnKept, Running, Begun, Ask, Reply
<1>4. QED
  BY <1>1, <1>2, <1>3, SessionKeeps DEF TurnNext

-----------------------------------------------------------------------------
(* The forget.                                                             *)

LEMMA ForgetInit == TurnInit => ForgetInv
BY DEF TurnInit, ForgetInv, ForgetfulOver, ForgetfulUnwritten, ForgottenClean, Forgetful, OrEmpty,
       Running

\* A turn that starts, and whatever adds to the transcript for a turn that is not over.
LEMMA StartsForgets ==
  ASSUME TurnTypeOK, ForgetInv, NEW t \in Turns, NEW b \in BOOLEAN, TurnStarts(t, b)
  PROVE  ForgetInv'
<1>1. /\ turnState[t] = "new" /\ turnState' = [turnState EXCEPT ![t] = "asked"]
      /\ cached' = Loaded \cup {Ask(t)} /\ saved' = saved
      /\ \A u \in Turns : latest'[u] \in {t, latest[u]}
      /\ latest'[t] = t
      /\ boundBy' \in {t, boundBy}
      /\ UNCHANGED <<facts, errands, forgotten, forgetting>>
  BY DEF TurnStarts, turnHistory, keptVars
<1>2. Forgetful' = Forgetful /\ t \notin Forgetful /\ Forgetful \subseteq Turns
  BY <1>1 DEF Forgetful, ForgetInv, ForgetfulOver, TurnTypeOK, OrEmpty
<1>3. ForgetfulOver'
  <2>1. \A u \in Turns : turnState'[u] = IF u = t THEN "asked" ELSE turnState[u]
    BY <1>1 DEF TurnTypeOK
  <2>2. Running' = Running \cup {t}
    BY <2>1 DEF Running
  <2>3. \A u \in Running' : latest'[u] \notin Forgetful
    BY <1>1, <1>2, <2>2 DEF ForgetInv, ForgetfulOver, Running
  <2>4. QED
    BY <1>2, <2>1, <2>3 DEF ForgetInv, ForgetfulOver
<1>4. ForgetfulUnwritten'
  <2>1. \A u \in Forgetful : \A m \in {Ask(u), Reply(u)} : m \notin Loaded /\ m # Ask(t)
    BY <1>2, LineFacts DEF ForgetInv, ForgetfulUnwritten, Loaded, OrEmpty
  <2>2. OrEmpty(cached)' \subseteq Loaded \cup {Ask(t)}
    BY <1>1 DEF OrEmpty
  <2>3. OrEmpty(saved)' = OrEmpty(saved)
    BY <1>1 DEF OrEmpty
  <2>4. \A u \in Forgetful : \A m \in {Ask(u), Reply(u)} :
          m \notin OrEmpty(cached)' /\ m \notin OrEmpty(saved)'
    BY <2>1, <2>2, <2>3 DEF ForgetInv, ForgetfulUnwritten
  <2>5. QED
    BY <1>2, <2>4, Zenon DEF ForgetfulUnwritten, Ask, Reply
<1>5. ForgottenClean'
  BY <1>1, <1>2 DEF ForgetInv, ForgottenClean, Forgetful
<1>6. QED
  BY <1>3, <1>4, <1>5 DEF ForgetInv

\* Every other step of a turn: it stays within the running ones or is over.
LEMMA GoesOnForgets ==
  ASSUME TurnTypeOK, ForgetInv, NEW t \in Turns,
         t \in Running, NEW next \in {"answered", "ending", "done", "cut"},
         turnState' = [turnState EXCEPT ![t] = next],
         OrEmpty(cached)' \subseteq OrEmpty(cached) \cup {Reply(t)},
         OrEmpty(saved)' \subseteq OrEmpty(saved) \cup OrEmpty(cached),
         facts' \subseteq facts \cup {latest[t]}, errands' \subseteq errands \cup {t},
         UNCHANGED <<latest, boundBy, forgetting, forgotten>>
  PROVE  ForgetInv'
<1>1. Forgetful' = Forgetful /\ t \notin Forgetful /\ latest[t] \notin Forgetful
      /\ Forgetful \subseteq Turns
  BY DEF Forgetful, ForgetInv, ForgetfulOver, TurnTypeOK, OrEmpty, Running
<1>2. Running' \subseteq Running /\ \A u \in Forgetful : turnState'[u] = turnState[u]
  BY <1>1 DEF Running, TurnTypeOK
<1>3. ForgetfulOver'
  BY <1>1, <1>2 DEF ForgetInv, ForgetfulOver
<1>4. ForgetfulUnwritten'
  <2>1. \A u \in Forgetful : \A m \in {Ask(u), Reply(u)} : m # Reply(t)
    BY <1>1, LineFacts
  <2>2. \A u \in Forgetful : \A m \in {Ask(u), Reply(u)} :
          m \notin OrEmpty(cached) /\ m \notin OrEmpty(saved)
    BY DEF ForgetInv, ForgetfulUnwritten
  <2>3. \A u \in Forgetful : \A m \in {Ask(u), Reply(u)} :
          m \notin OrEmpty(cached)' /\ m \notin OrEmpty(saved)'
    BY <2>1, <2>2
  <2>4. QED
    BY <1>1, <2>3, Zenon DEF ForgetfulUnwritten, Ask, Reply
<1>5. ForgottenClean'
  BY <1>1 DEF ForgetInv, ForgottenClean, Forgetful
<1>6. QED
  BY <1>3, <1>4, <1>5 DEF ForgetInv

LEMMA TurnForgets ==
  ASSUME TurnTypeOK, HoldersAsked, ForgetInv, NEW t \in Turns, NEW b \in BOOLEAN,
         TurnBlocked(t) \/ TurnAnswers(t, b) \/ TurnSaves(t) \/ TurnEnds(t, b) \/ TurnLeft(t, b)
  PROVE  ForgetInv'
<1>1. CASE TurnBlocked(t) \/ TurnLeft(t, b)
  <2>1. /\ t \in Running /\ turnState' = [turnState EXCEPT ![t] = "cut"]
        /\ facts' \subseteq facts \cup {latest[t]}
        /\ UNCHANGED <<latest, cached, saved, errands, boundBy, forgetting, forgotten>>
    BY <1>1 DEF TurnBlocked, TurnLeft, Running, listVars, keptVars, turnHistory
  <2>2. QED
    BY <2>1, GoesOnForgets DEF OrEmpty
<1>2. CASE TurnAnswers(t, b)
  <2>1. /\ t \in Running /\ turnState' = [turnState EXCEPT ![t] = "answered"]
        /\ errands' \subseteq errands \cup {t}
        /\ UNCHANGED <<latest, saved, facts, boundBy, forgetting, forgotten>>
    BY <1>2 DEF TurnAnswers, Running
  <2>2. OrEmpty(cached)' \subseteq OrEmpty(cached) \cup {Reply(t)}
    <3>1. CASE cached = Nothing
      BY <1>2, <3>1 DEF TurnAnswers, OrEmpty, HoldersAsked
    <3>2. CASE cached # Nothing
      BY <1>2, <3>2 DEF TurnAnswers, OrEmpty
    <3>3. QED
      BY <3>1, <3>2
  <2>3. QED
    BY <2>1, <2>2, GoesOnForgets DEF OrEmpty
<1>3. CASE TurnSaves(t) \/ TurnEnds(t, b)
  <2>1. PICK next \in {"ending", "cut", "done"} : turnState' = [turnState EXCEPT ![t] = next]
    BY <1>3 DEF TurnSaves, TurnEnds
  <2>2. /\ t \in Running /\ facts' \subseteq facts \cup {latest[t]} /\ latest' = latest
        /\ UNCHANGED <<errands, boundBy, forgetting, forgotten>>
    BY <1>3 DEF TurnSaves, TurnEnds, SaveTranscript, Running, keptVars, turnHistory
  <2>3. /\ OrEmpty(cached)' \subseteq OrEmpty(cached)
        /\ OrEmpty(saved)' \subseteq OrEmpty(cached)
    BY <1>3 DEF TurnSaves, TurnEnds, SaveTranscript, OrEmpty
  <2>4. QED
    BY <2>1, <2>2, <2>3, GoesOnForgets
<1>4. QED
  BY <1>1, <1>2, <1>3

LEMMA SessionForgets ==
  ASSUME TurnTypeOK, ForgetInv, ForgetStarts \/ ForgetEnds \/ CleanUp \/ HostRestarts
  PROVE  ForgetInv'
<1>1. CASE ForgetStarts
  <2>1. Forgetful' \subseteq forgotten \cup OverNow /\ forgotten' = forgotten
        /\ UNCHANGED <<turnState, latest, facts, errands, boundBy>>
        /\ OrEmpty(cached)' = {} /\ OrEmpty(saved)' = {}
    BY <1>1 DEF ForgetStarts, Forgetful, OrEmpty, keptVars
  <2>2. ForgetfulOver'
    BY <2>1 DEF ForgetInv, ForgetfulOver, Forgetful, OverNow, Running
  <2>3. ForgetfulUnwritten' /\ ForgottenClean'
    BY <2>1 DEF ForgetInv, ForgetfulUnwritten, ForgottenClean
  <2>4. QED
    BY <2>2, <2>3 DEF ForgetInv
<1>2. CASE ForgetEnds
  <2>1. /\ forgotten' \subseteq Forgetful /\ Forgetful' \subseteq Forgetful
        /\ UNCHANGED <<turnState, latest, cached, saved>>
        /\ errands' = {} /\ boundBy' = Nothing
        /\ \/ forgotten' = forgotten /\ facts' = facts
           \/ forgotten' = forgotten \cup forgetting /\ facts' \subseteq facts \ forgetting
    BY <1>2 DEF ForgetEnds, Forgetful, OrEmpty, listVars
  <2>2. Forgetful \subseteq Turns
    BY DEF Forgetful, OrEmpty, TurnTypeOK
  <2>3. ForgetfulOver' /\ ForgetfulUnwritten'
    BY <2>1 DEF ForgetInv, ForgetfulOver, ForgetfulUnwritten, Running, OrEmpty, Ask, Reply
  <2>4. ForgottenClean'
    BY <2>1, <2>2 DEF ForgetInv, ForgottenClean
  <2>5. QED
    BY <2>3, <2>4 DEF ForgetInv
<1>3. CASE CleanUp \/ HostRestarts
  <2>1. /\ Forgetful' \subseteq Forgetful /\ forgotten' = forgotten
        /\ OrEmpty(cached)' \subseteq OrEmpty(cached) /\ OrEmpty(saved)' \subseteq OrEmpty(saved)
        /\ UNCHANGED <<latest, facts, errands>> /\ boundBy' \in {boundBy, Nothing}
    BY <1>3 DEF CleanUp, HostRestarts, Forgetful, OrEmpty, keptVars, turnHistory
  <2>2. Running' \subseteq Running
        /\ \A t \in Turns : turnState[t] \in {"done", "cut"} => turnState'[t] = turnState[t]
    BY <1>3 DEF CleanUp, HostRestarts, Running
  <2>3. Forgetful \subseteq Turns
    BY DEF Forgetful, OrEmpty, TurnTypeOK
  <2>4. ForgetfulOver' /\ ForgetfulUnwritten'
    BY <2>1, <2>2, <2>3 DEF ForgetInv, ForgetfulOver, ForgetfulUnwritten, Ask, Reply
  <2>5. ForgottenClean'
    BY <2>1, <2>3 DEF ForgetInv, ForgottenClean, Forgetful
  <2>6. QED
    BY <2>4, <2>5 DEF ForgetInv
<1>4. QED
  BY <1>1, <1>2, <1>3

LEMMA ForgetStep ==
  ASSUME TurnTypeOK, HoldersAsked, ForgetInv, [TurnNext]_turnVars
  PROVE  ForgetInv'
<1>1. CASE UNCHANGED turnVars
  BY <1>1 DEF turnVars, listVars, keptVars, turnHistory, ForgetInv, ForgetfulOver,
              ForgetfulUnwritten, ForgottenClean, Forgetful, OrEmpty, Running, Ask, Reply
<1>2. QED
  BY <1>1, StartsForgets, TurnForgets, SessionForgets DEF TurnNext

-----------------------------------------------------------------------------
LEMMA TurnTypeStep ==
  ASSUME TurnTypeOK, HoldersAsked, [TurnNext]_turnVars
  PROVE  TurnTypeOK'
<1>1. CASE UNCHANGED turnVars
  BY <1>1 DEF turnVars, listVars, keptVars, turnHistory, TurnTypeOK
<1>2. QED
  BY <1>1, TurnType, SessionTypeKeeps DEF TurnNext

LEMMA TranscriptInvariant == TurnSpec => [](TurnTypeOK /\ TranscriptInv)
<1>1. TurnTypeOK /\ TranscriptInv /\ [TurnNext]_turnVars => TurnTypeOK' /\ TranscriptInv'
  BY TurnTypeStep, TranscriptStep DEF TranscriptInv
<1>2. QED
  BY TurnTypeInit, TranscriptInit, <1>1, PTL DEF TurnSpec

(* The transcript, the turns and the marks of a session keep their types.     *)
THEOREM TurnTypes == TurnSpec => []TurnTypeOK
BY TranscriptInvariant, PTL

(* A turn that was answered in full is on disk, for any number of turns that     *)
(* overlap, fail or are cut, forgets and restarts.                          *)
THEOREM AnsweredTurnsKept == TurnSpec => []TurnKept
<1>1. TranscriptInv => TurnKept
  BY DEF TranscriptInv
<1>2. QED
  BY TranscriptInvariant, <1>1, PTL

(* What was over when a forget began stays forgotten, for any number of turns.   *)
THEOREM ForgottenTurnsStay == TurnSpec => []ForgottenStays
<1>1. TurnTypeOK /\ TranscriptInv /\ ForgetInv /\ [TurnNext]_turnVars => ForgetInv'
  BY ForgetStep DEF TranscriptInv
<1>2. TurnSpec => []ForgetInv
  BY ForgetInit, <1>1, TranscriptInvariant, PTL DEF TurnSpec
<1>3. ForgetInv => ForgottenStays
  BY DEF ForgetInv, ForgetfulUnwritten, ForgottenClean, ForgottenStays, Forgetful
<1>4. QED
  BY <1>2, <1>3, PTL

HIDE TurnAssumption

-----------------------------------------------------------------------------
(***************************************************************************)
(* The tasks of agents that speak A2A (A2ATasks).                          *)
(***************************************************************************)
\* A task that was never opened is not in the table.
NoneIsOutside == \A id \in A2ATaskIds : taskState[id] = "none" => ~InTable(id)

A2AInv == A2ATypeOK /\ NoneIsOutside /\ WorkingIsReal

-----------------------------------------------------------------------------
LEMMA RemoveAtFacts ==
  ASSUME NEW T, NEW s \in Seq(T), NEW i \in 1 .. Len(s)
  PROVE  /\ RemoveAt(s, i) \in Seq(T)
         /\ Len(RemoveAt(s, i)) = Len(s) - 1
         /\ \A j \in 1 .. Len(s) - 1 : RemoveAt(s, i)[j] = IF j < i THEN s[j] ELSE s[j + 1]
<1> DEFINE before == SubSeq(s, 1, i - 1)
           after == SubSeq(s, i + 1, Len(s))
<1>1. /\ before \in Seq(T) /\ Len(before) = i - 1
      /\ \A j \in 1 .. i - 1 : before[j] = s[j]
  <2>1. \A j \in 1 .. i - 1 : s[j] \in T  OBVIOUS
  <2>2. i - 1 \in Int /\ 1 \in Int /\ (IF 1 <= i - 1 THEN (i - 1) - 1 + 1 ELSE 0) = i - 1
        /\ (i - 1) - 1 + 1 = i - 1
    OBVIOUS
  <2> QED BY <2>1, <2>2, SubSeqProperties
<1>2. /\ after \in Seq(T) /\ Len(after) = Len(s) - i
      /\ \A j \in 1 .. Len(s) - i : after[j] = s[i + j]
  <2>1. \A j \in i + 1 .. Len(s) : s[j] \in T  OBVIOUS
  <2>2. /\ i + 1 \in Int /\ Len(s) \in Int
        /\ (IF i + 1 <= Len(s) THEN Len(s) - (i + 1) + 1 ELSE 0) = Len(s) - i
        /\ Len(s) - (i + 1) + 1 = Len(s) - i
    OBVIOUS
  <2>3. after \in Seq(T) /\ Len(after) = Len(s) - i  OBVIOUS
  <2>4. ASSUME NEW j \in 1 .. Len(s) - i PROVE after[j] = s[i + j]
    <3>1. (i + 1) + j - 1 = i + j /\ j \in 1 .. Len(s) - (i + 1) + 1  OBVIOUS
    <3>2. after[j] = s[(i + 1) + j - 1]  BY <3>1
    <3> QED BY <3>1, <3>2
  <2> QED BY <2>3, <2>4
<1>3. RemoveAt(s, i) = before \o after  BY DEF RemoveAt
<1> HIDE DEF before, after
<1>4. /\ before \o after \in Seq(T)
      /\ Len(before \o after) = (i - 1) + (Len(s) - i)
      /\ \A j \in 1 .. (i - 1) + (Len(s) - i) :
           (before \o after)[j] = IF j <= i - 1 THEN before[j] ELSE after[j - (i - 1)]
  <2>0. before \in Seq(T) /\ after \in Seq(T)  BY <1>1, <1>2
  <2>1. before \o after \in Seq(T)  BY <2>0
  <2>3. Len(before \o after) = Len(before) + Len(after)  BY <2>0
  <2>2. \A j \in 1 .. Len(before) + Len(after) :
           (before \o after)[j] = IF j <= Len(before) THEN before[j] ELSE after[j - Len(before)]
    BY <1>1, <1>2
  <2> QED BY <2>1, <2>2, <2>3, <1>1, <1>2
<1>5. (i - 1) + (Len(s) - i) = Len(s) - 1  OBVIOUS
<1>6. ASSUME NEW j \in 1 .. Len(s) - 1
      PROVE  (before \o after)[j] = IF j < i THEN s[j] ELSE s[j + 1]
  <2>1. CASE j < i
    <3>1. j \in 1 .. i - 1 /\ j <= i - 1  BY <2>1
    <3> QED BY <3>1, <2>1, <1>1, <1>4, <1>5
  <2>2. CASE ~(j < i)
    <3>1. ~(j <= i - 1) /\ j - (i - 1) \in 1 .. Len(s) - i /\ i + (j - (i - 1)) = j + 1  BY <2>2
    <3>2. (before \o after)[j] = after[j - (i - 1)]  BY <3>1, <1>4, <1>5
    <3>3. after[j - (i - 1)] = s[j + 1]  BY <3>1, <1>2
    <3> QED BY <2>2, <3>2, <3>3
  <2> QED BY <2>1, <2>2
<1> QED BY <1>3, <1>4, <1>5, <1>6

\* An eviction takes at most one task out, and that one has ended.
LEMMA EvictedFacts ==
  ASSUME NEW tasks \in Seq(A2ATaskIds), IsInjective(tasks)
  PROVE  /\ Evicted(tasks) \in Seq(A2ATaskIds) /\ IsInjective(Evicted(tasks))
         /\ \A i \in DOMAIN Evicted(tasks) : \E j \in DOMAIN tasks : Evicted(tasks)[i] = tasks[j]
         /\ \A j \in DOMAIN tasks :
              \/ taskState[tasks[j]] \in Terminal
              \/ \E i \in DOMAIN Evicted(tasks) : Evicted(tasks)[i] = tasks[j]
<1> DEFINE ended == {i \in DOMAIN tasks : taskState[tasks[i]] \in Terminal}
           gone == CHOOSE i \in ended : \A j \in ended : i <= j
<1>1. CASE Len(tasks) <= MaxTasks \/ ended = {}  BY <1>1 DEF Evicted
<1>2. CASE ~(Len(tasks) <= MaxTasks \/ ended = {})
  <2>0. DOMAIN tasks = 1 .. Len(tasks) /\ Len(tasks) \in Nat  OBVIOUS
  <2>1. ended \subseteq Nat /\ ended # {}  BY <1>2, <2>0
  <2>2. \E i \in ended : \A j \in ended : i <= j
    <3> HIDE DEF ended
    <3> QED BY <2>1, NatLeast
  <2>3. gone \in ended  BY <2>2
  <2>4. gone \in 1 .. Len(tasks) /\ taskState[tasks[gone]] \in Terminal  BY <2>0, <2>3
  <2>5. Evicted(tasks) = RemoveAt(tasks, gone)  BY <1>2 DEF Evicted
  <2> DEFINE left == RemoveAt(tasks, gone)
  <2> HIDE DEF gone, ended
  <2>6. /\ left \in Seq(A2ATaskIds) /\ Len(left) = Len(tasks) - 1
        /\ \A j \in 1 .. Len(tasks) - 1 : left[j] = IF j < gone THEN tasks[j] ELSE tasks[j + 1]
    BY <2>4, RemoveAtFacts
  <2> HIDE DEF left
  <2>7. DOMAIN left = 1 .. Len(tasks) - 1  BY <2>6
  <2>8. ASSUME NEW a \in 1 .. Len(tasks) - 1, NEW b \in 1 .. Len(tasks) - 1, left[a] = left[b]
        PROVE  a = b
    <3>1. \A x, y \in 1 .. Len(tasks) : tasks[x] = tasks[y] => x = y
      BY <2>0 DEF IsInjective
    <3> DEFINE was(x) == IF x < gone THEN x ELSE x + 1
    <3>2. \A x \in 1 .. Len(tasks) - 1 : was(x) \in 1 .. Len(tasks) /\ left[x] = tasks[was(x)]
      BY <2>0, <2>4, <2>6
    <3>3. was(a) = was(b)  BY <2>8, <3>1, <3>2
    <3> QED BY <3>3, <2>4
  <2>9. IsInjective(left)  BY <2>7, <2>8 DEF IsInjective
  <2>10. ASSUME NEW i \in 1 .. Len(tasks) - 1 PROVE \E j \in 1 .. Len(tasks) : left[i] = tasks[j]
    <3>1. i \in 1 .. Len(tasks) /\ i + 1 \in 1 .. Len(tasks)  BY <2>0
    <3> QED BY <3>1, <2>6
  <2>11. ASSUME NEW j \in 1 .. Len(tasks), taskState[tasks[j]] \notin Terminal
         PROVE  \E i \in 1 .. Len(tasks) - 1 : left[i] = tasks[j]
    <3>1. j # gone  BY <2>4, <2>11
    <3>2. CASE j < gone
      <4>1. j \in 1 .. Len(tasks) - 1  BY <2>0, <2>4, <3>2
      <4> QED BY <4>1, <3>2, <2>6
    <3>3. CASE j > gone
      <4>1. j - 1 \in 1 .. Len(tasks) - 1 /\ ~(j - 1 < gone) /\ (j - 1) + 1 = j
        BY <2>0, <2>4, <3>3
      <4>2. left[j - 1] = tasks[j]  BY <4>1, <2>6
      <4> QED BY <4>1, <4>2
    <3> QED BY <3>1, <3>2, <3>3, <2>4
  <2> QED BY <2>0, <2>5, <2>6, <2>7, <2>9, <2>10, <2>11 DEF left
<1> QED BY <1>1, <1>2

\* The task that a message is addressed to is in the table afterwards, and so is every other one
\* that was there and has not ended.
LEMMA AddressedFacts ==
  ASSUME A2AInv, NEW id \in A2ATaskIds, Addressed(id)
  PROVE  /\ table' \in Seq(A2ATaskIds) /\ IsInjective(table')
         /\ \E i \in DOMAIN table' : table'[i] = id
         /\ \A other \in A2ATaskIds \ {id} :
              /\ InTable(other)' => InTable(other)
              /\ InTable(other) /\ taskState[other] \notin Terminal => InTable(other)'
<1> USE DEF A2AInv, A2ATypeOK
<1>1. CASE InTable(id) /\ UNCHANGED table
  BY <1>1 DEF InTable
<1>2. CASE taskState[id] = "none" /\ table' = Evicted(Append(table, id))
  <2> DEFINE more == Append(table, id)
  <2>1. /\ more \in Seq(A2ATaskIds) /\ Len(table) \in Nat
        /\ DOMAIN table = 1 .. Len(table) /\ DOMAIN more = 1 .. Len(table) + 1
        /\ \A i \in 1 .. Len(table) : more[i] = table[i]
        /\ more[Len(table) + 1] = id
    OBVIOUS
  <2>2. table' = Evicted(more)  BY <1>2
  <2> HIDE DEF more
  <2>3. \A i \in DOMAIN table : table[i] # id  BY <1>2 DEF NoneIsOutside, InTable
  <2>4. IsInjective(more)
    <3>1. ASSUME NEW a \in DOMAIN more, NEW b \in DOMAIN more, more[a] = more[b] PROVE a = b
      <4>1. CASE a \in DOMAIN table /\ b \in DOMAIN table
        BY <4>1, <3>1, <2>1 DEF IsInjective
      <4>2. CASE a = Len(table) + 1 /\ b \in DOMAIN table  BY <4>2, <3>1, <2>1, <2>3
      <4>3. CASE b = Len(table) + 1 /\ a \in DOMAIN table  BY <4>3, <3>1, <2>1, <2>3
      <4>4. CASE a = Len(table) + 1 /\ b = Len(table) + 1  BY <4>4
      <4> QED BY <2>1, <4>1, <4>2, <4>3, <4>4
    <3> QED BY <3>1 DEF IsInjective
  <2>5. /\ table' \in Seq(A2ATaskIds) /\ IsInjective(table')
        /\ \A i \in DOMAIN table' : \E j \in DOMAIN more : table'[i] = more[j]
        /\ \A j \in DOMAIN more :
              \/ taskState[more[j]] \in Terminal
              \/ \E i \in DOMAIN table' : table'[i] = more[j]
    BY <2>1, <2>2, <2>4, EvictedFacts
  <2>6. \E i \in DOMAIN table' : table'[i] = id
    <3>1. taskState[id] \notin Terminal  BY <1>2 DEF Terminal
    <3>2. Len(table) + 1 \in DOMAIN more  BY <2>1
    <3> QED BY <2>1, <2>5, <3>1, <3>2
  <2>7. ASSUME NEW other \in A2ATaskIds \ {id}
        PROVE  /\ InTable(other)' => InTable(other)
               /\ InTable(other) /\ taskState[other] \notin Terminal => InTable(other)'
    <3>1. \A j \in DOMAIN more : more[j] = other => j \in DOMAIN table /\ table[j] = other
      BY <2>1
    <3>2. \A j \in DOMAIN table : j \in DOMAIN more /\ more[j] = table[j]  BY <2>1
    <3> QED BY <2>5, <3>1, <3>2 DEF InTable
  <2> QED BY <2>5, <2>6, <2>7
<1> QED BY <1>1, <1>2 DEF Addressed

LEMMA A2ABegins == A2AInit => A2AInv
BY A2AAssumption
DEF A2AInit, A2AInv, A2ATypeOK, NoneIsOutside, WorkingIsReal, InTable, IsInjective, Terminal

\* What a step makes of one task leaves the rest of the invariant to the others.
LEMMA MessageSendKeeps ==
  ASSUME A2AInv, NEW id \in A2ATaskIds, MessageSend(id)
  PROVE  A2AInv'
<1>1. /\ table' \in Seq(A2ATaskIds) /\ IsInjective(table')
      /\ InTable(id)'
      /\ \A other \in A2ATaskIds \ {id} :
              /\ InTable(other)' => InTable(other)
              /\ InTable(other) /\ taskState[other] \notin Terminal => InTable(other)'
  BY AddressedFacts DEF MessageSend, InTable
<1>2. /\ taskState' \in [A2ATaskIds -> Terminal \cup {"none", "submitted", "working"}]
      /\ taskTurns' \in [A2ATaskIds -> 0 .. MaxTurns]
      /\ taskState'[id] # "none"
      /\ taskState'[id] = "working" =>
           taskTurns'[id] > 0 \/ (taskState[id] = "working" /\ taskTurns'[id] = taskTurns[id])
      /\ \A other \in A2ATaskIds \ {id} :
           taskState'[other] = taskState[other] /\ taskTurns'[other] = taskTurns[other]
  BY A2AAssumption DEF MessageSend, Work, Stays, A2AInv, A2ATypeOK, Terminal
<1>3. opening' = opening /\ abandoned' = abandoned /\ startedLate' = startedLate
  BY DEF MessageSend
<1>4. A2ATypeOK'  BY <1>1, <1>2, <1>3 DEF A2AInv, A2ATypeOK
<1>5. NoneIsOutside'  BY <1>1, <1>2 DEF A2AInv, NoneIsOutside
<1>6. WorkingIsReal'
  BY <1>1, <1>2, <1>3 DEF A2AInv, WorkingIsReal, Terminal
<1> QED BY <1>4, <1>5, <1>6 DEF A2AInv

LEMMA StreamOpensKeeps ==
  ASSUME A2AInv, NEW id \in A2ATaskIds, StreamOpens(id)
  PROVE  A2AInv'
<1>1. /\ table' \in Seq(A2ATaskIds) /\ IsInjective(table')
      /\ InTable(id)'
      /\ \A other \in A2ATaskIds \ {id} :
              /\ InTable(other)' => InTable(other)
              /\ InTable(other) /\ taskState[other] \notin Terminal => InTable(other)'
  BY AddressedFacts DEF StreamOpens, InTable
<1>2. /\ taskState' \in [A2ATaskIds -> Terminal \cup {"none", "submitted", "working"}]
      /\ taskTurns' = taskTurns
      /\ taskState'[id] # "none"
      /\ taskState'[id] = "working" => taskState[id] = "working"
      /\ \A other \in A2ATaskIds \ {id} : taskState'[other] = taskState[other]
  BY A2AAssumption DEF StreamOpens, Stays, A2AInv, A2ATypeOK, Terminal
<1>3. opening' \subseteq A2ATaskIds /\ abandoned' = abandoned /\ startedLate' = startedLate
  BY DEF StreamOpens, A2AInv, A2ATypeOK
<1>4. A2ATypeOK'  BY <1>1, <1>2, <1>3 DEF A2AInv, A2ATypeOK
<1>5. NoneIsOutside'  BY <1>1, <1>2 DEF A2AInv, NoneIsOutside
<1>6. WorkingIsReal'
  BY <1>1, <1>2, <1>3 DEF A2AInv, WorkingIsReal, Terminal
<1> QED BY <1>4, <1>5, <1>6 DEF A2AInv

\* The other steps leave the table alone.
LEMMA OtherTaskStepKeeps ==
  ASSUME A2AInv, NEW id \in A2ATaskIds,
         StreamStarts(id) \/ TurnOfTaskEnds(id) \/ StreamAbandoned(id) \/ CancelTask(id)
  PROVE  A2AInv'
<1> USE A2AAssumption DEF A2AInv, A2ATypeOK, NoneIsOutside, WorkingIsReal, InTable, Terminal
<1>1. CASE StreamStarts(id)
  <2>1. CASE Work(id)  BY <1>1, <2>1 DEF StreamStarts, Work
  <2>2. CASE Stays(id)  BY <1>1, <2>2 DEF StreamStarts, Stays
  <2> QED BY <1>1, <2>1, <2>2 DEF StreamStarts
<1>2. CASE TurnOfTaskEnds(id)  BY <1>2 DEF TurnOfTaskEnds
<1>3. CASE StreamAbandoned(id)  BY <1>3 DEF StreamAbandoned
<1>4. CASE CancelTask(id)  BY <1>4 DEF CancelTask
<1> QED BY <1>1, <1>2, <1>3, <1>4

LEMMA A2AStep == A2AInv /\ [A2ANext]_a2aVars => A2AInv'
<1> SUFFICES ASSUME A2AInv, [A2ANext]_a2aVars PROVE A2AInv'  OBVIOUS
<1>1. CASE UNCHANGED a2aVars
  BY <1>1 DEF a2aVars, A2AInv, A2ATypeOK, NoneIsOutside, WorkingIsReal, InTable
<1>2. CASE A2ANext
  BY <1>2, MessageSendKeeps, StreamOpensKeeps, OtherTaskStepKeeps DEF A2ANext
<1> QED BY <1>1, <1>2

(* The table never holds a task twice or one that was never opened.            *)
THEOREM A2ATypes == A2ASpec => []A2ATypeOK
<1>1. A2AInv => A2ATypeOK  BY DEF A2AInv
<1> QED BY A2ABegins, A2AStep, <1>1, PTL DEF A2ASpec

(* A task that says it is working is in the table and has a turn that will end it, but     *)
(* for the two exceptions WorkingIsReal names.                                *)
THEOREM WorkingTasksReal == A2ASpec => []WorkingIsReal
<1>1. A2AInv => WorkingIsReal  BY DEF A2AInv
<1> QED BY A2ABegins, A2AStep, <1>1, PTL DEF A2ASpec

-----------------------------------------------------------------------------
(***************************************************************************)
(* The pool of a shopper's clients (ShopperPool).                          *)
(***************************************************************************)
\* The clients by name.
ClientTable == [ClientNames -> [state : {"none", "open", "lost", "closed"}, as : PoolIdentity]]
USE DEF ClientTable

\* What a call has of a client and a lock where it is; whom it acts as.
WellFormed(c) ==
  /\ poolCall[c].pc = "idle" => poolCall[c] = IdleCall
  /\ poolCall[c].pc \in {"waitOwn", "loginOwn"} => poolCall[c].as = Own /\ poolCall[c].lock # NoLock
  /\ poolCall[c].pc \notin {"waitOwn", "loginOwn"} => poolCall[c].lock = NoLock
  /\ poolCall[c].pc \in {"waitTicket", "closing", "loginTicket"} => poolCall[c].as # Own
  /\ poolCall[c].pc \in {"loginOwn", "loginTicket", "calling"} <=> poolCall[c].client # NoClient

CallsAreWellFormed == \A c \in PoolCalls : WellFormed(c)

\* A client that is referred to exists, and acts for whoever refers to it.
ReferencesAreKept ==
  /\ \A c \in PoolCalls : poolCall[c].client # NoClient =>
       /\ poolClient[poolCall[c].client].state # "none"
       /\ poolClient[poolCall[c].client].as = poolCall[c].as
  /\ pooled["own"] # NoClient =>
       /\ poolClient[pooled["own"]].state \in {"open", "lost"}
       /\ poolClient[pooled["own"]].as = Own
  /\ pooled["ticket"] # NoClient =>
       /\ poolClient[pooled["ticket"]].state # "none"
       /\ poolClient[pooled["ticket"]].as # Own

LoggingIn(c) == poolCall[c].pc \in {"loginOwn", "loginTicket"}

\* A client that logs in is its call's alone, and not closed.
LoginsAreAlone ==
  \A c \in PoolCalls : LoggingIn(c) =>
    /\ poolClient[poolCall[c].client].state \in {"open", "lost"}
    /\ poolCall[c].client \notin {pooled["own"], pooled["ticket"]}
    /\ \A d \in PoolCalls : d # c => poolCall[d].client # poolCall[c].client

\* The lock of the tickets.
HoldsTickets(c) == poolCall[c].pc \in {"closing", "loginTicket"}
TicketLockHolds ==
  /\ \A c, d \in PoolCalls : HoldsTickets(c) /\ HoldsTickets(d) => c = d
  /\ \A c \in PoolCalls : HoldsTickets(c) /\ pooled["ticket"] # NoClient =>
       poolClient[pooled["ticket"]].state = "closed"

\* The locks of the account.
OwnLockHolds ==
  /\ \A c, d \in PoolCalls :
       poolCall[c].pc = "loginOwn" /\ poolCall[d].pc = "loginOwn"
         /\ poolCall[c].lock = poolCall[d].lock => c = d
  /\ \A c \in PoolCalls :
       poolCall[c].pc = "loginOwn" /\ poolCall[c].lock = poolLock /\ pooled["own"] # NoClient =>
         poolClient[pooled["own"]].state = "lost"

\* Whoever is not overtaken acts as everybody under way does.
TheRestAgree ==
  /\ \A c \in PoolCalls : poolCall[c].pc # "idle" =>
       /\ poolCall[c].as # boundTicket => poolCall[c].overtaken
       /\ \A d \in PoolCalls : poolCall[d].pc # "idle" /\ poolCall[c].as # poolCall[d].as =>
            poolCall[c].overtaken
       /\ sweep => poolCall[c].overtaken
  /\ lastUsed = "old" => \A c \in PoolCalls : poolCall[c].pc = "idle"

\* Its ticket's client is not closed.
TheirsIsOpen ==
  \A c \in PoolCalls :
    poolCall[c].pc = "waitTicket" /\ ~poolCall[c].overtaken /\ Fits(poolCall[c].as) =>
      poolClient[pooled["ticket"]].state # "closed"

OpenAreKnown ==
  \A n \in ClientNames : poolClient[n].state = "open" =>
    \/ n \in {pooled["own"], pooled["ticket"]}
    \/ \E c \in PoolCalls : LoggingIn(c) /\ poolCall[c].client = n

PoolInv ==
  /\ PoolTypeOK /\ CallsAreWellFormed /\ ReferencesAreKept /\ LoginsAreAlone
  /\ TicketLockHolds /\ OwnLockHolds /\ TheRestAgree /\ TheirsIsOpen /\ OpenWhileInUse
       /\ OpenAreKnown

-----------------------------------------------------------------------------
\* What becomes of the clients: those in the pool, of a call, or open, stay as they are made.
LEMMA BecomesFacts ==
  ASSUME NEW clients \in ClientTable,
         NEW pools \in [{"own", "ticket"} -> {NoClient} \cup ClientNames],
         NEW calls \in [PoolCalls -> PoolCall],
         Becomes(clients, pools, calls)
  PROVE  /\ poolClient' \in ClientTable
         /\ pooled' = pools /\ poolCall' = calls
         /\ \A n \in ClientNames :
              /\ n \in {pools["own"], pools["ticket"]} => poolClient'[n] = clients[n]
              /\ \A c \in PoolCalls : calls[c].client = n => poolClient'[n] = clients[n]
              /\ poolClient'[n].state = "open" => clients[n].state = "open"
<1>1. NoSuchClient \in [state : {"none", "open", "lost", "closed"}, as : PoolIdentity]
      /\ NoSuchClient.state = "none"
  BY DEF NoSuchClient, PoolIdentity
<1>2. poolClient' = [n \in ClientNames |-> Tidy(clients, pools, calls)[n]]
  BY DEF Becomes, Tidy
<1>3. \A n \in ClientNames :
        Tidy(clients, pools, calls)[n] =
          IF clients[n].state \in {"closed", "lost"} /\ n \notin {pools["own"], pools["ticket"]}
             /\ \A c \in PoolCalls : calls[c].client # n
          THEN NoSuchClient ELSE clients[n]
  BY DEF Tidy
<1>4. pooled' = pools /\ poolCall' = calls  BY DEF Becomes
<1> QED BY <1>1, <1>2, <1>3, <1>4

LEMMA CallsOverFacts ==
  ASSUME PoolTypeOK, NEW c \in PoolCalls, NEW n \in ClientNames
  PROVE  /\ CallsOver(c, n) \in [PoolCalls -> PoolCall]
         /\ CallsOver(c, n)[c].pc = "calling" /\ CallsOver(c, n)[c].client = n
         /\ CallsOver(c, n)[c].lock = NoLock
         /\ CallsOver(c, n)[c].as = poolCall[c].as
         /\ CallsOver(c, n)[c].overtaken = poolCall[c].overtaken
         /\ \A d \in PoolCalls : d # c => CallsOver(c, n)[d] = poolCall[d]
BY DEF CallsOver, PoolTypeOK, PoolCall, NoLock

LEMMA ClosedFacts ==
  ASSUME PoolTypeOK, NEW n \in {NoClient} \cup ClientNames
  PROVE  /\ Closed(n) \in ClientTable
         /\ \A m \in ClientNames : /\ Closed(n)[m].as = poolClient[m].as
                                   /\ m # n => Closed(n)[m] = poolClient[m]
                                   /\ m = n => Closed(n)[m].state = "closed"
<1>1. poolClient \in ClientTable
  BY DEF PoolTypeOK
<1>2. CASE n = NoClient
  <2>1. n \notin ClientNames  BY <1>2, PoolAssumption DEF NoClient, ClientNames
  <2> QED BY <1>1, <1>2, <2>1 DEF Closed
<1>3. CASE n # NoClient
  <2>1. Closed(n) = [poolClient EXCEPT ![n].state = "closed"]  BY <1>3 DEF Closed
  <2> QED BY <1>1, <1>3, <2>1
<1> QED BY <1>2, <1>3

LEMMA AllOvertakenFacts ==
  ASSUME PoolTypeOK
  PROVE  /\ AllOvertaken \in [PoolCalls -> PoolCall]
         /\ \A c \in PoolCalls :
              /\ AllOvertaken[c].pc = poolCall[c].pc /\ AllOvertaken[c].as = poolCall[c].as
              /\ AllOvertaken[c].client = poolCall[c].client
                   /\ AllOvertaken[c].lock = poolCall[c].lock
              /\ poolCall[c].pc # "idle" => AllOvertaken[c].overtaken
              /\ poolCall[c].pc = "idle" => AllOvertaken[c] = poolCall[c]
BY DEF AllOvertaken, PoolTypeOK, PoolCall, UnderWay

\* A new client is its call's alone.
LEMMA CreatesFacts ==
  ASSUME PoolInv, NEW c \in PoolCalls, NEW pc \in {"loginOwn", "loginTicket"}, Creates(c, pc)
  PROVE  \E n \in ClientNames :
    /\ n \notin {pooled["own"], pooled["ticket"]}
    /\ \A d \in PoolCalls : poolCall[d].client # n
    /\ pooled' = pooled
    /\ poolCall' \in [PoolCalls -> PoolCall]
    /\ poolCall'[c].pc = pc /\ poolCall'[c].client = n
    /\ poolCall'[c].as = poolCall[c].as /\ poolCall'[c].lock = poolCall[c].lock
    /\ poolCall'[c].overtaken = poolCall[c].overtaken
    /\ \A d \in PoolCalls : d # c => poolCall'[d] = poolCall[d]
    /\ poolClient' \in ClientTable
    /\ poolClient'[n].state = "open" /\ poolClient'[n].as = poolCall[c].as
    /\ \A m \in ClientNames : m # n =>
         /\ m \in {pooled["own"], pooled["ticket"]} => poolClient'[m] = poolClient[m]
         /\ \A d \in PoolCalls : d # c /\ poolCall[d].client = m => poolClient'[m] = poolClient[m]
         /\ poolClient'[m].state = "open" => poolClient[m].state = "open"
<1>1. PICK n \in ClientNames :
        /\ poolClient[n] = NoSuchClient
        /\ Becomes([poolClient EXCEPT ![n] = [state |-> "open", as |-> poolCall[c].as]], pooled,
                   [poolCall EXCEPT ![c].pc = pc, ![c].client = n])
  BY DEF Creates
<1> DEFINE clients == [poolClient EXCEPT ![n] = [state |-> "open", as |-> poolCall[c].as]]
           calls == [poolCall EXCEPT ![c].pc = pc, ![c].client = n]
<1>2. clients \in ClientTable
      /\ clients[n].state = "open" /\ clients[n].as = poolCall[c].as
      /\ \A m \in ClientNames : m # n => clients[m] = poolClient[m]
  BY DEF PoolInv, PoolTypeOK, PoolCall
<1>3. /\ calls \in [PoolCalls -> PoolCall]
      /\ calls[c].pc = pc /\ calls[c].client = n
      /\ calls[c].as = poolCall[c].as /\ calls[c].lock = poolCall[c].lock
      /\ calls[c].overtaken = poolCall[c].overtaken
      /\ \A d \in PoolCalls : d # c => calls[d] = poolCall[d]
  BY DEF PoolInv, PoolTypeOK, PoolCall
<1>4. pooled \in [{"own", "ticket"} -> {NoClient} \cup ClientNames]  BY DEF PoolInv, PoolTypeOK
<1>5. poolClient[n].state = "none"  BY <1>1 DEF NoSuchClient
<1>6. Becomes(clients, pooled, calls)  BY <1>1
<1>7. n # NoClient  BY DEF NoClient, ClientNames
<1>8. n \notin {pooled["own"], pooled["ticket"]} /\ \A d \in PoolCalls : poolCall[d].client # n
  BY <1>5, <1>7 DEF PoolInv, ReferencesAreKept
<1> HIDE DEF clients, calls
<1>9. /\ poolClient' \in ClientTable
      /\ pooled' = pooled /\ poolCall' = calls
      /\ \A m \in ClientNames :
              /\ m \in {pooled["own"], pooled["ticket"]} => poolClient'[m] = clients[m]
              /\ \A d \in PoolCalls : calls[d].client = m => poolClient'[m] = clients[m]
              /\ poolClient'[m].state = "open" => clients[m].state = "open"
  BY <1>2, <1>3, <1>4, <1>6, BecomesFacts
<1>10. poolClient'[n] = clients[n]  BY <1>3, <1>9
<1> QED BY <1>2, <1>3, <1>8, <1>9, <1>10

PoolTypeFacts ==
  /\ pooled["own"] \in {NoClient} \cup ClientNames
       /\ pooled["ticket"] \in {NoClient} \cup ClientNames
  /\ \A c \in PoolCalls :
       /\ poolCall[c].pc \in {"idle", "waitOwn", "loginOwn", "waitTicket", "closing",
            "loginTicket", "calling"}
       /\ poolCall[c].client \in {NoClient} \cup ClientNames
       /\ poolCall[c].overtaken \in BOOLEAN
  /\ \A n \in ClientNames : poolClient[n].state \in {"none", "open", "lost", "closed"}

LEMMA PoolTypesAsFacts ==
  ASSUME PoolTypeOK
  PROVE  PoolTypeFacts /\ NoClient \notin ClientNames
<1>1. NoClient \notin ClientNames  BY PoolAssumption DEF NoClient, ClientNames
<1>2. \A c \in PoolCalls : poolCall[c] \in PoolCall  BY DEF PoolTypeOK
<1>3. \A n \in ClientNames : poolClient[n] \in [state : {"none", "open", "lost", "closed"}, as :
        PoolIdentity]
  BY DEF PoolTypeOK
<1>4. \A n \in ClientNames : poolClient[n].state \in {"none", "open", "lost", "closed"}  BY <1>3
<1>5. pooled["own"] \in {NoClient} \cup ClientNames
        /\ pooled["ticket"] \in {NoClient} \cup ClientNames
  BY DEF PoolTypeOK
<1> QED BY <1>1, <1>2, <1>4, <1>5 DEF PoolTypeFacts, PoolCall

LEMMA PoolTypesAsFactsNext ==
  ASSUME PoolTypeOK'
  PROVE  PoolTypeFacts'
<1>2. \A c \in PoolCalls : poolCall'[c] \in PoolCall  BY DEF PoolTypeOK
<1>3. \A n \in ClientNames : poolClient'[n] \in [state : {"none", "open", "lost", "closed"}, as :
        PoolIdentity]
  BY DEF PoolTypeOK
<1>4. \A n \in ClientNames : poolClient'[n].state \in {"none", "open", "lost", "closed"}  BY <1>3
<1>5. pooled'["own"] \in {NoClient} \cup ClientNames
        /\ pooled'["ticket"] \in {NoClient} \cup ClientNames
  BY DEF PoolTypeOK
<1> QED BY <1>2, <1>4, <1>5 DEF PoolTypeFacts, PoolCall

LEMMA PoolBegins == PoolInit => PoolInv
<1> SUFFICES ASSUME PoolInit PROVE PoolInv  OBVIOUS
<1>1. /\ boundTicket = Own /\ poolLock = NoLock /\ lastUsed = "none" /\ sweep = FALSE
      /\ \A n \in ClientNames : poolClient[n].state = "none"
      /\ pooled["own"] = NoClient /\ pooled["ticket"] = NoClient
      /\ \A c \in PoolCalls : poolCall[c] = IdleCall
      /\ IdleCall.pc = "idle" /\ IdleCall.client = NoClient /\ IdleCall.lock = NoLock
  BY DEF PoolInit, NoSuchClient, IdleCall
<1>2. PoolTypeOK
  BY DEF PoolInit, PoolTypeOK, NoSuchClient, IdleCall, PoolCall, PoolIdentity
<1> QED BY <1>1, <1>2
DEF PoolInv, CallsAreWellFormed, WellFormed, ReferencesAreKept, LoginsAreAlone, LoggingIn,
    TicketLockHolds, HoldsTickets, OwnLockHolds, TheRestAgree, UnderWay, TheirsIsOpen, Fits,
    OpenWhileInUse, OpenAreKnown, PoolIdentity, NoSuchClient, IdleCall, PoolCall, NoClient, NoLock

LEMMA FreeLock ==
  ASSUME PoolTypeOK
  PROVE  \E l \in LockNames : \A c \in PoolCalls : poolCall[c].lock # l
<1> DEFINE k == Cardinality(PoolCalls)
           lockOf == [c \in PoolCalls |-> IF poolCall[c].lock = NoLock THEN 1 ELSE poolCall[c].lock]
<1>1. IsFiniteSet(PoolCalls) /\ k \in Nat  BY PoolAssumption, FS_CardinalityType
<1>2. \A c \in PoolCalls : poolCall[c].lock \in {NoLock} \cup LockNames
  <2>1. \A c \in PoolCalls : poolCall[c] \in PoolCall  BY DEF PoolTypeOK
  <2> QED BY <2>1 DEF PoolCall
<1>3. LockNames = 1 .. (k + 1)  BY DEF LockNames
<1> HIDE DEF k
<1>4. lockOf \in [PoolCalls -> LockNames]  BY <1>1, <1>2, <1>3
<1>5. IsFiniteSet(LockNames) /\ Cardinality(LockNames) = k + 1
  BY <1>1, <1>3, FS_Interval
<1>6. SUFFICES ASSUME \A l \in LockNames : \E c \in PoolCalls : poolCall[c].lock = l
               PROVE  FALSE
  OBVIOUS
<1>7. \A l \in LockNames : l # NoLock  BY <1>1, <1>3 DEF NoLock
<1>8. \A l \in LockNames : \E c \in PoolCalls : lockOf[c] = l  BY <1>6, <1>7
<1>9. lockOf \in Surjection(PoolCalls, LockNames)
  BY <1>4, <1>8 DEF Surjection
<1> HIDE DEF lockOf
<1>10. Cardinality(LockNames) <= Cardinality(PoolCalls)  BY <1>1, <1>9, FS_Surjection
<1>11. Cardinality(LockNames) <= k  BY <1>10 DEF k
<1> QED BY <1>1, <1>5, <1>11

LEMMA LockOfFacts ==
  ASSUME PoolTypeOK
  PROVE  /\ LockOf \in LockNames
         /\ LockOf = poolLock \/ \A c \in PoolCalls : poolCall[c].lock # LockOf
<1>1. CASE poolLock # NoLock  BY <1>1 DEF LockOf, PoolTypeOK
<1>2. CASE poolLock = NoLock
  <2> DEFINE Free(l) == \A c \in PoolCalls : poolCall[c].lock # l
  <2>1. \E l \in LockNames : Free(l)  BY FreeLock
  <2>2. LockOf = CHOOSE l \in LockNames : Free(l)  BY <1>2 DEF LockOf
  <2> HIDE DEF Free
  <2>3. LockOf \in LockNames /\ Free(LockOf)  BY <2>1, <2>2
  <2> QED BY <2>3 DEF Free
<1> QED BY <1>1, <1>2

LEMMA PoolLooksUp ==
  ASSUME PoolTypeOK, CallsAreWellFormed, NEW c \in PoolCalls, PoolLookUp(c)
  PROVE \E pc \in {"calling", "waitTicket", "waitOwn"}, n \in {NoClient} \cup ClientNames,
    lock \in {NoLock} \cup LockNames, late \in BOOLEAN :
        /\ poolCall' = [poolCall EXCEPT ![c] = [pc |-> pc, as |-> boundTicket, client |-> n,
             lock |-> lock, overtaken |-> late]]
        /\ sweep => late
        /\ \A d \in UnderWay : poolCall[d].as # boundTicket => late
        /\ boundTicket # Own /\ Fits(boundTicket)
             /\ poolClient[pooled["ticket"]].state = "closed" => late
        /\ \/ pc = "calling" /\ n = pooled["ticket"] /\ n # NoClient /\ Fits(boundTicket)
                /\ lock = NoLock /\ boundTicket # Own
           \/ pc = "waitTicket" /\ n = NoClient /\ ~Fits(boundTicket) /\ boundTicket # Own
                /\ lock = NoLock
           \/ pc = "calling" /\ n = pooled["own"] /\ n # NoClient /\ boundTicket = Own
                /\ lock = NoLock
           \/ pc = "waitOwn" /\ n = NoClient /\ boundTicket = Own /\ lock = LockOf
                /\ lock # NoLock /\ poolLock' = lock
        /\ pc # "waitOwn" => poolLock' = poolLock
        /\ pc = "waitOwn" =>
             poolLock' = poolLock \/ \A d \in PoolCalls : poolCall[d].lock # poolLock'
<1> DEFINE late == \/ sweep \/ (\E d \in UnderWay : poolCall[d].as # boundTicket)
                   \/ (boundTicket # Own /\ Fits(boundTicket)
                        /\ poolClient[pooled["ticket"]].state = "closed")
           call(pc, n, lock) == [poolCall EXCEPT ![c] =
             [pc |-> pc, as |-> boundTicket, client |-> n, lock |-> lock, overtaken |-> late]]
<1>1. late \in BOOLEAN /\ (sweep => late) /\ (\A d \in UnderWay : poolCall[d].as # boundTicket =>
        late)
      /\ (boundTicket # Own /\ Fits(boundTicket)
           /\ poolClient[pooled["ticket"]].state = "closed" => late)
  BY DEF late
<1>2. LockOf \in LockNames /\ (LockOf = poolLock \/ \A d \in PoolCalls : poolCall[d].lock # LockOf)
  BY LockOfFacts
<1>3. LockOf # NoLock  BY <1>2, PoolAssumption, FS_CardinalityType DEF LockNames, NoLock
<1>4. pooled["own"] \in {NoClient} \cup ClientNames
        /\ pooled["ticket"] \in {NoClient} \cup ClientNames
  BY DEF PoolTypeOK
<1>5. CASE boundTicket # Own /\ Fits(boundTicket)
  <2>1. poolCall' = call("calling", pooled["ticket"], NoLock) /\ poolLock' = poolLock
    BY <1>5 DEF PoolLookUp
  <2>2. pooled["ticket"] # NoClient  BY <1>5 DEF Fits
  <2> HIDE DEF late
  <2> QED BY <1>1, <1>4, <1>5, <2>1, <2>2
<1>6. CASE boundTicket # Own /\ ~Fits(boundTicket)
  <2>1. poolCall' = call("waitTicket", NoClient, NoLock) /\ poolLock' = poolLock
    BY <1>6 DEF PoolLookUp
  <2> HIDE DEF late
  <2> QED BY <1>1, <1>6, <2>1
<1>7. CASE boundTicket = Own /\ pooled["own"] # NoClient
  <2>1. poolCall' = call("calling", pooled["own"], NoLock) /\ poolLock' = poolLock
    BY <1>7 DEF PoolLookUp
  <2> HIDE DEF late
  <2> QED BY <1>1, <1>4, <1>7, <2>1
<1>8. CASE boundTicket = Own /\ pooled["own"] = NoClient
  <2>1. poolCall' = call("waitOwn", NoClient, LockOf) /\ poolLock' = LockOf
    BY <1>8 DEF PoolLookUp
  <2> HIDE DEF late
  <2> QED BY <1>1, <1>2, <1>3, <1>8, <2>1
<1> QED BY <1>5, <1>6, <1>7, <1>8

LEMMA PoolLookUpKeeps ==
  ASSUME PoolInv, NEW c \in PoolCalls, PoolLookUp(c)
  PROVE  PoolInv'
<1>0. PoolTypeOK  BY DEF PoolInv
<1>before. PoolTypeFacts /\ NoClient \notin ClientNames  BY <1>0, PoolTypesAsFacts
<1> USE DEF PoolInv
<1>1. poolCall[c].pc = "idle" /\ poolCall[c] = IdleCall /\ lastUsed' = "recent"
      /\ (boundTicket' = boundTicket /\ poolClient' = poolClient /\ pooled' = pooled
           /\ sweep' = sweep)
  BY DEF PoolLookUp, CallsAreWellFormed, WellFormed
<1>2. PICK pc \in {"calling", "waitTicket", "waitOwn"}, n \in {NoClient} \cup ClientNames,
        lock \in {NoLock} \cup LockNames, late \in BOOLEAN :
        /\ poolCall' = [poolCall EXCEPT ![c] = [pc |-> pc, as |-> boundTicket, client |-> n,
             lock |-> lock, overtaken |-> late]]
        /\ sweep => late
        /\ \A d \in UnderWay : poolCall[d].as # boundTicket => late
        /\ boundTicket # Own /\ Fits(boundTicket)
             /\ poolClient[pooled["ticket"]].state = "closed" => late
        /\ \/ pc = "calling" /\ n = pooled["ticket"] /\ n # NoClient /\ Fits(boundTicket)
                /\ lock = NoLock /\ boundTicket # Own
           \/ pc = "waitTicket" /\ n = NoClient /\ ~Fits(boundTicket) /\ boundTicket # Own
                /\ lock = NoLock
           \/ pc = "calling" /\ n = pooled["own"] /\ n # NoClient /\ boundTicket = Own
                /\ lock = NoLock
           \/ pc = "waitOwn" /\ n = NoClient /\ boundTicket = Own /\ lock = LockOf
                /\ lock # NoLock /\ poolLock' = lock
        /\ pc # "waitOwn" => poolLock' = poolLock
        /\ pc = "waitOwn" =>
             poolLock' = poolLock \/ \A d \in PoolCalls : poolCall[d].lock # poolLock'
  BY <1>0, PoolLooksUp
<1>3. /\ poolCall'[c].pc = pc /\ poolCall'[c].as = boundTicket /\ poolCall'[c].client = n
      /\ poolCall'[c].lock = lock /\ poolCall'[c].overtaken = late
      /\ \A d \in PoolCalls : d # c => poolCall'[d] = poolCall[d]
      /\ poolCall' \in [PoolCalls -> PoolCall]
  BY <1>2 DEF PoolTypeOK, PoolCall
<1>4. poolCall[c].client = NoClient /\ poolCall[c].lock = NoLock BY <1>1 DEF IdleCall
<1>5. poolLock' \in {NoLock} \cup LockNames BY <1>2 DEF PoolTypeOK
<1>6. Fits(boundTicket) =>
        pooled["ticket"] # NoClient /\ poolClient[pooled["ticket"]].as = boundTicket
  BY
  DEF Fits
<1>7. PoolTypeOK'  BY <1>0, <1>1, <1>2, <1>3, <1>4, <1>5, <1>6 DEF PoolTypeOK, PoolIdentity
<1>after. PoolTypeFacts'  BY <1>7, PoolTypesAsFactsNext
<1> USE DEF PoolTypeFacts
<1>8. CallsAreWellFormed'
  BY <1>before, <1>after, <1>1, <1>2, <1>3, <1>4, <1>5, <1>6
  DEF CallsAreWellFormed, WellFormed
<1>9. ReferencesAreKept'
  BY <1>before, <1>after, <1>1, <1>2, <1>3, <1>4, <1>5, <1>6
  DEF ReferencesAreKept, CallsAreWellFormed, WellFormed, LoginsAreAlone, LoggingIn, Fits
<1>10. LoginsAreAlone'
  BY <1>before, <1>after, <1>1, <1>2, <1>3, <1>4, <1>5, <1>6
  DEF LoginsAreAlone, LoggingIn, CallsAreWellFormed, WellFormed, ReferencesAreKept
<1>11. TicketLockHolds'
  BY <1>before, <1>after, <1>1, <1>2, <1>3, <1>4, <1>5, <1>6
  DEF TicketLockHolds, HoldsTickets, LoginsAreAlone, LoggingIn, CallsAreWellFormed, WellFormed,
      ReferencesAreKept
<1>12. OwnLockHolds'
  BY <1>before, <1>after, <1>1, <1>2, <1>3, <1>4, <1>5, <1>6
  DEF OwnLockHolds, LoginsAreAlone, LoggingIn, CallsAreWellFormed, WellFormed, ReferencesAreKept
<1>13. TheRestAgree'
  BY <1>before, <1>after, <1>1, <1>2, <1>3, <1>4, <1>5, <1>6
  DEF TheRestAgree, UnderWay
<1>14. TheirsIsOpen'
  BY <1>before, <1>after, <1>1, <1>2, <1>3, <1>4, <1>5, <1>6
  DEF TheirsIsOpen, Fits, TheRestAgree, UnderWay, CallsAreWellFormed, WellFormed, ReferencesAreKept,
      LoginsAreAlone, LoggingIn
<1>15. OpenWhileInUse'
  BY <1>before, <1>after, <1>1, <1>2, <1>3, <1>4, <1>5, <1>6
  DEF OpenWhileInUse, TheRestAgree, UnderWay, CallsAreWellFormed, WellFormed, ReferencesAreKept,
      TheirsIsOpen, Fits, LoginsAreAlone, LoggingIn
<1>16. OpenAreKnown'
  BY <1>before, <1>after, <1>1, <1>2, <1>3, <1>4, <1>5, <1>6
  DEF OpenAreKnown, LoggingIn, CallsAreWellFormed, WellFormed, LoginsAreAlone, ReferencesAreKept,
      TicketLockHolds, HoldsTickets, OwnLockHolds
<1> QED BY <1>7, <1>8, <1>9, <1>10, <1>11, <1>12, <1>13, <1>14, <1>15, <1>16

LEMMA CallsPooledKeeps ==
  ASSUME PoolInv, NEW c \in PoolCalls, NEW n \in ClientNames,
         \/ poolCall[c].pc = "waitOwn" /\ n = pooled["own"]
         \/ poolCall[c].pc = "waitTicket" /\ n = pooled["ticket"] /\ Fits(poolCall[c].as),
         Becomes(poolClient, pooled, CallsOver(c, n)), (boundTicket' = boundTicket
           /\ poolLock' = poolLock /\ lastUsed' = lastUsed /\ sweep' = sweep)
  PROVE  PoolInv'
<1>0. PoolTypeOK  BY DEF PoolInv
<1>before. PoolTypeFacts /\ NoClient \notin ClientNames  BY <1>0, PoolTypesAsFacts
<1> USE DEF PoolInv
<1>1. /\ CallsOver(c, n) \in [PoolCalls -> PoolCall]
      /\ poolClient \in ClientTable
      /\ pooled \in [{"own", "ticket"} -> {NoClient} \cup ClientNames]
  BY <1>0, CallsOverFacts DEF PoolTypeOK
<1>2. /\ poolClient' \in ClientTable
      /\ pooled' = pooled /\ poolCall' = CallsOver(c, n)
      /\ \A m \in ClientNames :
              /\ m \in {pooled'["own"], pooled'["ticket"]} =>
                   poolClient'[m].state = poolClient[m].state
                     /\ poolClient'[m].as = poolClient[m].as
              /\ \A d \in PoolCalls : poolCall'[d].client = m =>
                   poolClient'[m].state = poolClient[m].state
                     /\ poolClient'[m].as = poolClient[m].as
              /\ poolClient'[m].state = "open" => poolClient[m].state = "open"
  BY <1>1, BecomesFacts
<1>3. /\ poolCall'[c].pc = "calling" /\ poolCall'[c].client = n
      /\ poolCall'[c].lock = NoLock
      /\ poolCall'[c].as = poolCall[c].as
      /\ poolCall'[c].overtaken = poolCall[c].overtaken
      /\ poolCall' \in [PoolCalls -> PoolCall]
      /\ \A d \in PoolCalls : d # c => poolCall'[d] = poolCall[d]
  BY <1>0, <1>2, CallsOverFacts
<1>4. PoolTypeOK'  BY <1>0, <1>1, <1>2, <1>3 DEF PoolTypeOK, PoolIdentity
<1>after. PoolTypeFacts'  BY <1>4, PoolTypesAsFactsNext
<1> USE DEF PoolTypeFacts
<1>5. /\ boundTicket' = boundTicket /\ poolLock' = poolLock /\ lastUsed' = lastUsed
           /\ sweep' = sweep
      /\ poolCall'[c].pc = "calling" /\ poolCall'[c].client = n /\ poolCall'[c].lock = NoLock
      /\ poolCall'[c].as = poolCall[c].as /\ poolCall'[c].overtaken = poolCall[c].overtaken
      /\ \A d \in PoolCalls : d # c => poolCall'[d] = poolCall[d]
      /\ pooled'["own"] = pooled["own"] /\ pooled'["ticket"] = pooled["ticket"]
      /\ \A m \in ClientNames : poolClient'[m].state = "open" => poolClient[m].state = "open"
      /\ pooled'["own"] # NoClient =>
           (poolClient'[pooled'["own"]].as = poolClient[pooled'["own"]].as
             /\ (poolClient'[pooled'["own"]].state = poolClient[pooled'["own"]].state))
      /\ pooled'["ticket"] # NoClient =>
           (poolClient'[pooled'["ticket"]].as = poolClient[pooled'["ticket"]].as
             /\ (poolClient'[pooled'["ticket"]].state = poolClient[pooled'["ticket"]].state))
      /\ \A d \in PoolCalls : poolCall'[d].client # NoClient =>
           (poolClient'[poolCall'[d].client].as = poolClient[poolCall'[d].client].as
             /\ (poolClient'[poolCall'[d].client].state = poolClient[poolCall'[d].client].state))
  BY <1>before, <1>after, <1>2, <1>3
<1>6. CallsAreWellFormed'  BY <1>before, <1>after, <1>5 DEF CallsAreWellFormed, WellFormed
<1>7. ReferencesAreKept'
  <2>1. ASSUME NEW d \in PoolCalls, poolCall'[d].client # NoClient
        PROVE  /\ poolClient'[poolCall'[d].client].state # "none"
               /\ poolClient'[poolCall'[d].client].as = poolCall'[d].as
    <3>1. CASE d = c
      BY <3>1, <2>1, <1>before, <1>after, <1>5
      DEF ReferencesAreKept, CallsAreWellFormed, WellFormed, LoginsAreAlone, LoggingIn, Fits
    <3>2. CASE d # c
      BY <3>2, <2>1, <1>before, <1>after, <1>5
      DEF ReferencesAreKept, CallsAreWellFormed, WellFormed, LoginsAreAlone, LoggingIn, Fits
    <3> QED BY <3>1, <3>2
  <2>2. pooled'["own"] # NoClient =>
          poolClient'[pooled'["own"]].state \in {"open", "lost"}
            /\ poolClient'[pooled'["own"]].as = Own
    BY <1>before, <1>after, <1>5
    DEF ReferencesAreKept, CallsAreWellFormed, WellFormed, LoginsAreAlone, LoggingIn, Fits
  <2>3. pooled'["ticket"] # NoClient =>
          poolClient'[pooled'["ticket"]].state # "none" /\ poolClient'[pooled'["ticket"]].as # Own
    BY <1>before, <1>after, <1>5
    DEF ReferencesAreKept, CallsAreWellFormed, WellFormed, LoginsAreAlone, LoggingIn, Fits
  <2> QED BY <2>1, <2>2, <2>3 DEF ReferencesAreKept
<1>8. LoginsAreAlone'
  BY <1>before, <1>after, <1>5
  DEF LoginsAreAlone, LoggingIn, CallsAreWellFormed, WellFormed, ReferencesAreKept
<1>9. TicketLockHolds'
  BY <1>before, <1>after, <1>5
  DEF TicketLockHolds, HoldsTickets, LoginsAreAlone, LoggingIn, CallsAreWellFormed, WellFormed,
      ReferencesAreKept
<1>10. OwnLockHolds'
  BY <1>before, <1>after, <1>5
  DEF OwnLockHolds, LoginsAreAlone, LoggingIn, CallsAreWellFormed, WellFormed, ReferencesAreKept
<1>11. TheRestAgree'  BY <1>before, <1>after, <1>5 DEF TheRestAgree, UnderWay
<1>12. TheirsIsOpen'
  BY <1>before, <1>after, <1>5
  DEF TheirsIsOpen, Fits, TheRestAgree, UnderWay, CallsAreWellFormed, WellFormed, ReferencesAreKept,
      LoginsAreAlone, LoggingIn
<1>13. OpenWhileInUse'
  BY <1>before, <1>after, <1>5
  DEF OpenWhileInUse, TheRestAgree, UnderWay, CallsAreWellFormed, WellFormed, ReferencesAreKept,
      TheirsIsOpen, Fits, LoginsAreAlone, LoggingIn
<1>14. OpenAreKnown'
  BY <1>before, <1>after, <1>5
  DEF OpenAreKnown, LoggingIn, CallsAreWellFormed, WellFormed, LoginsAreAlone, ReferencesAreKept,
      TicketLockHolds, HoldsTickets, OwnLockHolds
<1> QED BY <1>4, <1>6, <1>7, <1>8, <1>9, <1>10, <1>11, <1>12, <1>13, <1>14

LEMMA CreatesKeeps ==
  ASSUME PoolInv, NEW c \in PoolCalls, NEW pc \in {"loginOwn", "loginTicket"}, Creates(c, pc),
         \/ poolCall[c].pc = "waitOwn" /\ pc = "loginOwn" /\ ~Locked(poolCall[c].lock)
              /\ pooled["own"] = NoClient
         \/ /\ poolCall[c].pc = "waitTicket" /\ pc = "loginTicket" /\ pooled["ticket"] = NoClient
            /\ \A d \in PoolCalls : poolCall[d].pc \notin {"closing", "loginTicket"}
         \/ poolCall[c].pc = "closing" /\ pc = "loginTicket",
         (boundTicket' = boundTicket /\ poolLock' = poolLock /\ lastUsed' = lastUsed
           /\ sweep' = sweep)
  PROVE  PoolInv'
<1>0. PoolTypeOK  BY DEF PoolInv
<1>before. PoolTypeFacts /\ NoClient \notin ClientNames  BY <1>0, PoolTypesAsFacts
<1> USE DEF PoolInv
<1>1. PICK n \in ClientNames :
    /\ n \notin {pooled["own"], pooled["ticket"]}
    /\ \A d \in PoolCalls : poolCall[d].client # n
    /\ pooled' = pooled
    /\ poolCall' \in [PoolCalls -> PoolCall]
    /\ poolCall'[c].pc = pc /\ poolCall'[c].client = n
    /\ poolCall'[c].as = poolCall[c].as /\ poolCall'[c].lock = poolCall[c].lock
    /\ poolCall'[c].overtaken = poolCall[c].overtaken
    /\ \A d \in PoolCalls : d # c => poolCall'[d] = poolCall[d]
    /\ poolClient' \in ClientTable
    /\ poolClient'[n].state = "open" /\ poolClient'[n].as = poolCall[c].as
    /\ \A m \in ClientNames : m # n =>
         /\ m \in {pooled["own"], pooled["ticket"]} => poolClient'[m] = poolClient[m]
         /\ \A d \in PoolCalls : d # c /\ poolCall[d].client = m => poolClient'[m] = poolClient[m]
         /\ poolClient'[m].state = "open" => poolClient[m].state = "open"
  BY CreatesFacts
<1>2. pc = "loginOwn" => \A d \in PoolCalls : poolCall[d].pc = "loginOwn" =>
        poolCall[d].lock # poolCall[c].lock
  BY DEF Locked
<1>3. PoolTypeOK'  BY <1>0, <1>1, <1>2 DEF PoolTypeOK, PoolIdentity
<1>after. PoolTypeFacts'  BY <1>3, PoolTypesAsFactsNext
<1> USE DEF PoolTypeFacts
<1>4. CallsAreWellFormed'  BY <1>before, <1>after, <1>1, <1>2 DEF CallsAreWellFormed, WellFormed
<1>5. ReferencesAreKept'
  BY <1>before, <1>after, <1>1, <1>2
  DEF ReferencesAreKept, CallsAreWellFormed, WellFormed, LoginsAreAlone, LoggingIn, Fits
<1>6. LoginsAreAlone'
  BY <1>before, <1>after, <1>1, <1>2
  DEF LoginsAreAlone, LoggingIn, CallsAreWellFormed, WellFormed, ReferencesAreKept
<1>7. TicketLockHolds'
  BY <1>before, <1>after, <1>1, <1>2
  DEF TicketLockHolds, HoldsTickets, LoginsAreAlone, LoggingIn, CallsAreWellFormed, WellFormed,
      ReferencesAreKept
<1>8. OwnLockHolds'
  BY <1>before, <1>after, <1>1, <1>2
  DEF OwnLockHolds, LoginsAreAlone, LoggingIn, CallsAreWellFormed, WellFormed, ReferencesAreKept
<1>9. TheRestAgree'  BY <1>before, <1>after, <1>1, <1>2 DEF TheRestAgree, UnderWay
<1>10. TheirsIsOpen'
  BY <1>before, <1>after, <1>1, <1>2
  DEF TheirsIsOpen, Fits, TheRestAgree, UnderWay, CallsAreWellFormed, WellFormed, ReferencesAreKept,
      LoginsAreAlone, LoggingIn
<1>11. OpenWhileInUse'
  BY <1>before, <1>after, <1>1, <1>2
  DEF OpenWhileInUse, TheRestAgree, UnderWay, CallsAreWellFormed, WellFormed, ReferencesAreKept,
      TheirsIsOpen, Fits, LoginsAreAlone, LoggingIn
<1>12. OpenAreKnown'
  BY <1>before, <1>after, <1>1, <1>2
  DEF OpenAreKnown, LoggingIn, CallsAreWellFormed, WellFormed, LoginsAreAlone, ReferencesAreKept,
      TicketLockHolds, HoldsTickets, OwnLockHolds
<1> QED BY <1>3, <1>4, <1>5, <1>6, <1>7, <1>8, <1>9, <1>10, <1>11, <1>12

LEMMA ClosesOtherTicketKeeps ==
  ASSUME PoolInv, NEW c \in PoolCalls,
         poolCall[c].pc = "waitTicket", ~Fits(poolCall[c].as), pooled["ticket"] # NoClient,
         \A d \in PoolCalls : poolCall[d].pc \notin {"closing", "loginTicket"},
         Becomes(Closed(pooled["ticket"]), pooled, [poolCall EXCEPT ![c].pc = "closing"]),
         (boundTicket' = boundTicket /\ poolLock' = poolLock /\ lastUsed' = lastUsed
           /\ sweep' = sweep)
  PROVE  PoolInv'
<1>0. PoolTypeOK  BY DEF PoolInv
<1>before. PoolTypeFacts /\ NoClient \notin ClientNames  BY <1>0, PoolTypesAsFacts
<1> USE DEF PoolInv
<1> DEFINE calls == [poolCall EXCEPT ![c].pc = "closing"]
           clients == Closed(pooled["ticket"])
<1>1. /\ calls \in [PoolCalls -> PoolCall]
      /\ clients \in ClientTable
      /\ pooled \in [{"own", "ticket"} -> {NoClient} \cup ClientNames]
      /\ \A m \in ClientNames : /\ clients[m].as = poolClient[m].as
                                /\ m # pooled["ticket"] => clients[m] = poolClient[m]
                                /\ m = pooled["ticket"] => clients[m].state = "closed"
  <2>1. poolCall \in [PoolCalls -> PoolCall]  BY <1>0 DEF PoolTypeOK
  <2>2. poolCall[c] \in PoolCall  BY <2>1
  <2>3. [poolCall[c] EXCEPT !.pc = "closing"] \in PoolCall  BY <2>2 DEF PoolCall
  <2>4. calls \in [PoolCalls -> PoolCall]
    <3>1. calls = [poolCall EXCEPT ![c] = [poolCall[c] EXCEPT !.pc = "closing"]]  OBVIOUS
    <3> HIDE DEF calls
    <3> QED BY <2>1, <2>3, <3>1
  <2>5. pooled \in [{"own", "ticket"} -> {NoClient} \cup ClientNames]  BY <1>0 DEF PoolTypeOK
  <2>6. pooled["ticket"] \in {NoClient} \cup ClientNames  BY <2>5
  <2>7. /\ clients \in ClientTable
        /\ \A m \in ClientNames : /\ clients[m].as = poolClient[m].as
                                  /\ m # pooled["ticket"] => clients[m] = poolClient[m]
                                  /\ m = pooled["ticket"] => clients[m].state = "closed"
    BY <1>0, <2>6, ClosedFacts
  <2> QED BY <2>4, <2>5, <2>7
<1>2. /\ calls[c].pc = "closing" /\ calls[c].client = poolCall[c].client
      /\ calls[c].lock = poolCall[c].lock
      /\ calls[c].as = poolCall[c].as
      /\ calls[c].overtaken = poolCall[c].overtaken
      /\ \A d \in PoolCalls : d # c => calls[d] = poolCall[d]
  BY DEF PoolTypeOK, PoolCall
<1>becomes. Becomes(clients, pooled, calls)  OBVIOUS
<1> HIDE DEF calls, clients
<1>3. /\ poolClient' \in ClientTable
      /\ pooled' = pooled /\ poolCall' = calls
      /\ \A n \in ClientNames :
              /\ n \in {pooled'["own"], pooled'["ticket"]} =>
                   poolClient'[n].state = clients[n].state /\ poolClient'[n].as = clients[n].as
              /\ \A d \in PoolCalls : poolCall'[d].client = n =>
                   poolClient'[n].state = clients[n].state /\ poolClient'[n].as = clients[n].as
              /\ poolClient'[n].state = "open" => clients[n].state = "open"
  BY <1>1, <1>becomes, BecomesFacts
<1>4. PoolTypeOK'  BY <1>0, <1>1, <1>2, <1>3 DEF PoolTypeOK, PoolIdentity
<1>after. PoolTypeFacts'  BY <1>4, PoolTypesAsFactsNext
<1> USE DEF PoolTypeFacts
<1>5. /\ boundTicket' = boundTicket /\ poolLock' = poolLock /\ lastUsed' = lastUsed
           /\ sweep' = sweep
      /\ poolCall'[c].pc = "closing" /\ poolCall'[c].client = poolCall[c].client
           /\ poolCall'[c].lock = poolCall[c].lock
      /\ poolCall'[c].as = poolCall[c].as /\ poolCall'[c].overtaken = poolCall[c].overtaken
      /\ \A d \in PoolCalls : d # c => poolCall'[d] = poolCall[d]
      /\ pooled'["own"] = pooled["own"] /\ pooled'["ticket"] = pooled["ticket"]
      /\ \A n \in ClientNames : poolClient'[n].state = "open" => poolClient[n].state = "open"
      /\ pooled'["own"] # NoClient =>
           (poolClient'[pooled'["own"]].as = poolClient[pooled'["own"]].as
             /\ (poolClient'[pooled'["own"]].state = IF pooled'["own"] =
                  pooled["ticket"] THEN "closed" ELSE poolClient[pooled'["own"]].state))
      /\ pooled'["ticket"] # NoClient =>
           (poolClient'[pooled'["ticket"]].as = poolClient[pooled'["ticket"]].as
             /\ (poolClient'[pooled'["ticket"]].state = IF pooled'["ticket"] =
                  pooled["ticket"] THEN "closed" ELSE poolClient[pooled'["ticket"]].state))
      /\ \A d \in PoolCalls : poolCall'[d].client # NoClient =>
           (poolClient'[poolCall'[d].client].as = poolClient[poolCall'[d].client].as
             /\ (poolClient'[poolCall'[d].client].state = IF poolCall'[d].client =
                  pooled["ticket"] THEN "closed" ELSE poolClient[poolCall'[d].client].state))
  BY <1>before, <1>after, <1>1, <1>2, <1>3
<1>6. CallsAreWellFormed'  BY <1>before, <1>after, <1>5 DEF CallsAreWellFormed, WellFormed
<1>7. ReferencesAreKept'
  BY <1>before, <1>after, <1>5
  DEF ReferencesAreKept, CallsAreWellFormed, WellFormed, LoginsAreAlone, LoggingIn, Fits
<1>8. LoginsAreAlone'
  BY <1>before, <1>after, <1>5
  DEF LoginsAreAlone, LoggingIn, CallsAreWellFormed, WellFormed, ReferencesAreKept
<1>9. TicketLockHolds'
  BY <1>before, <1>after, <1>5
  DEF TicketLockHolds, HoldsTickets, LoginsAreAlone, LoggingIn, CallsAreWellFormed, WellFormed,
      ReferencesAreKept
<1>10. OwnLockHolds'
  BY <1>before, <1>after, <1>5
  DEF OwnLockHolds, LoginsAreAlone, LoggingIn, CallsAreWellFormed, WellFormed, ReferencesAreKept
<1>11. TheRestAgree'  BY <1>before, <1>after, <1>5 DEF TheRestAgree, UnderWay
<1>12. TheirsIsOpen'
  BY <1>before, <1>after, <1>5
  DEF TheirsIsOpen, Fits, TheRestAgree, UnderWay, CallsAreWellFormed, WellFormed, ReferencesAreKept,
      LoginsAreAlone, LoggingIn
<1>13. OpenWhileInUse'
  BY <1>before, <1>after, <1>5
  DEF OpenWhileInUse, TheRestAgree, UnderWay, CallsAreWellFormed, WellFormed, ReferencesAreKept,
      TheirsIsOpen, Fits, LoginsAreAlone, LoggingIn
<1>14. OpenAreKnown'
  BY <1>before, <1>after, <1>5
  DEF OpenAreKnown, LoggingIn, CallsAreWellFormed, WellFormed, LoginsAreAlone, ReferencesAreKept,
      TicketLockHolds, HoldsTickets, OwnLockHolds
<1> QED BY <1>4, <1>6, <1>7, <1>8, <1>9, <1>10, <1>11, <1>12, <1>13, <1>14

LEMMA LoggedInSweptKeeps ==
  ASSUME PoolInv, NEW c \in PoolCalls, NEW mine \in ClientNames, mine = poolCall[c].client,
         poolCall[c].pc = "loginOwn",
         Becomes([n \in ClientNames |-> IF n \in {pooled["own"],
           mine} THEN [poolClient[n] EXCEPT !.state = "lost"] ELSE poolClient[n]],
             [pooled EXCEPT !["own"] = mine], CallsOver(c, mine)),
         boundTicket' = boundTicket, poolLock' = poolLock, lastUsed' = lastUsed, sweep' = sweep
  PROVE  PoolInv'
<1>0. PoolTypeOK  BY DEF PoolInv
<1>before. PoolTypeFacts /\ NoClient \notin ClientNames  BY <1>0, PoolTypesAsFacts
<1> USE DEF PoolInv
<1> DEFINE clients == [n \in ClientNames |-> IF n \in {pooled["own"],
      mine} THEN [poolClient[n] EXCEPT !.state = "lost"] ELSE poolClient[n]]
           pools == [pooled EXCEPT !["own"] = mine]
<1>1. /\ CallsOver(c, mine) \in [PoolCalls -> PoolCall]
      /\ clients \in ClientTable
      /\ pools \in [{"own", "ticket"} -> {NoClient} \cup ClientNames]
      /\ \A m \in ClientNames :
           clients[m].as = poolClient[m].as
             /\ clients[m].state = IF m \in {pooled["own"],
                  mine} THEN "lost" ELSE poolClient[m].state
      /\ pools["own"] = mine /\ pools["ticket"] = pooled["ticket"]
  <2>1. CallsOver(c, mine) \in [PoolCalls -> PoolCall]  BY <1>0, CallsOverFacts
  <2>2. poolClient \in ClientTable
    BY DEF PoolTypeOK
  <2>3. clients \in ClientTable
        /\ \A m \in ClientNames :
             clients[m].as = poolClient[m].as
               /\ clients[m].state = IF m \in {pooled["own"],
                    mine} THEN "lost" ELSE poolClient[m].state
    BY <2>2
  <2>4. /\ pools \in [{"own", "ticket"} -> {NoClient} \cup ClientNames]
        /\ pools["own"] = mine /\ pools["ticket"] = pooled["ticket"]
    BY <1>0 DEF PoolTypeOK
  <2> QED BY <2>1, <2>3, <2>4
<1>2. Becomes(clients, pools, CallsOver(c, mine))  OBVIOUS
<1> HIDE DEF clients, pools
<1>3. /\ poolClient' \in ClientTable
      /\ pooled' = pools /\ poolCall' = CallsOver(c, mine)
      /\ \A n \in ClientNames :
              /\ n \in {pooled'["own"], pooled'["ticket"]} =>
                   poolClient'[n].state = clients[n].state /\ poolClient'[n].as = clients[n].as
              /\ \A d \in PoolCalls : poolCall'[d].client = n =>
                   poolClient'[n].state = clients[n].state /\ poolClient'[n].as = clients[n].as
              /\ poolClient'[n].state = "open" => clients[n].state = "open"
  BY <1>1, <1>2, BecomesFacts
<1>4. /\ poolCall'[c].pc = "calling" /\ poolCall'[c].client = mine
      /\ poolCall'[c].lock = NoLock
      /\ poolCall'[c].as = poolCall[c].as
      /\ poolCall'[c].overtaken = poolCall[c].overtaken
      /\ poolCall' \in [PoolCalls -> PoolCall]
      /\ \A d \in PoolCalls : d # c => poolCall'[d] = poolCall[d]
  BY <1>0, <1>3, CallsOverFacts
<1>5. PoolTypeOK'  BY <1>0, <1>1, <1>2, <1>3, <1>4 DEF PoolTypeOK, PoolIdentity
<1>after. PoolTypeFacts'  BY <1>5, PoolTypesAsFactsNext
<1> USE DEF PoolTypeFacts
<1>6. /\ boundTicket' = boundTicket /\ poolLock' = poolLock /\ lastUsed' = lastUsed
           /\ sweep' = sweep
      /\ poolCall'[c].pc = "calling" /\ poolCall'[c].client = mine /\ poolCall'[c].lock = NoLock
      /\ poolCall'[c].as = poolCall[c].as /\ poolCall'[c].overtaken = poolCall[c].overtaken
      /\ \A d \in PoolCalls : d # c => poolCall'[d] = poolCall[d]
      /\ pooled'["own"] = mine /\ pooled'["ticket"] = pooled["ticket"]
      /\ \A n \in ClientNames : poolClient'[n].state = "open" => n \notin {pooled["own"], mine}
      /\ \A n \in ClientNames : poolClient'[n].state = "open" => poolClient[n].state = "open"
      /\ pooled'["own"] # NoClient =>
           (poolClient'[pooled'["own"]].as = poolClient[pooled'["own"]].as
             /\ (poolClient'[pooled'["own"]].state = IF pooled'["own"] \in {pooled["own"],
                  mine} THEN "lost" ELSE poolClient[pooled'["own"]].state))
      /\ pooled'["ticket"] # NoClient =>
           (poolClient'[pooled'["ticket"]].as = poolClient[pooled'["ticket"]].as
             /\ (poolClient'[pooled'["ticket"]].state = IF pooled'["ticket"] \in {pooled["own"],
                  mine} THEN "lost" ELSE poolClient[pooled'["ticket"]].state))
      /\ \A d \in PoolCalls : poolCall'[d].client # NoClient =>
           (poolClient'[poolCall'[d].client].as = poolClient[poolCall'[d].client].as
             /\ (poolClient'[poolCall'[d].client].state =
                  IF poolCall'[d].client \in {pooled["own"],
                    mine} THEN "lost" ELSE poolClient[poolCall'[d].client].state))
  <2>0. /\ pooled'["own"] \in {NoClient} \cup ClientNames
        /\ pooled'["ticket"] \in {NoClient} \cup ClientNames
        /\ \A d \in PoolCalls : poolCall'[d].client \in {NoClient} \cup ClientNames
    BY <1>after
  <2>1. /\ poolCall'[c].pc = "calling" /\ poolCall'[c].client = mine /\ poolCall'[c].lock = NoLock
        /\ poolCall'[c].as = poolCall[c].as /\ poolCall'[c].overtaken = poolCall[c].overtaken
        /\ \A d \in PoolCalls : d # c => poolCall'[d] = poolCall[d]
    BY <1>4
  <2>2. pooled'["own"] = mine /\ pooled'["ticket"] = pooled["ticket"]
    BY <1>1, <1>3
  <2>3. /\ \A n \in ClientNames : poolClient'[n].state = "open" => n \notin {pooled["own"], mine}
        /\ \A n \in ClientNames : poolClient'[n].state = "open" => poolClient[n].state = "open"
    BY <1>1, <1>3
  <2>4. pooled'["own"] # NoClient =>
          (poolClient'[pooled'["own"]].as = poolClient[pooled'["own"]].as
            /\ (poolClient'[pooled'["own"]].state = IF pooled'["own"] \in {pooled["own"],
                 mine} THEN "lost" ELSE poolClient[pooled'["own"]].state))
    BY <1>1, <1>3, <2>0
  <2>5. pooled'["ticket"] # NoClient =>
          (poolClient'[pooled'["ticket"]].as = poolClient[pooled'["ticket"]].as
            /\ (poolClient'[pooled'["ticket"]].state = IF pooled'["ticket"] \in {pooled["own"],
                 mine} THEN "lost" ELSE poolClient[pooled'["ticket"]].state))
    BY <1>1, <1>3, <2>0
  <2>6. ASSUME NEW d \in PoolCalls, poolCall'[d].client # NoClient
        PROVE  (poolClient'[poolCall'[d].client].as = poolClient[poolCall'[d].client].as
                 /\ (poolClient'[poolCall'[d].client].state =
                      IF poolCall'[d].client \in {pooled["own"],
                        mine} THEN "lost" ELSE poolClient[poolCall'[d].client].state))
    BY <1>1, <1>3, <2>0, <2>6
  <2> QED BY <2>1, <2>2, <2>3, <2>4, <2>5, <2>6
<1>7. CallsAreWellFormed'  BY <1>before, <1>after, <1>6 DEF CallsAreWellFormed, WellFormed
<1>8. ReferencesAreKept'
  <2>1. ASSUME NEW d \in PoolCalls, poolCall'[d].client # NoClient
        PROVE  /\ poolClient'[poolCall'[d].client].state # "none"
               /\ poolClient'[poolCall'[d].client].as = poolCall'[d].as
    <3>1. CASE d = c
      BY <3>1, <2>1, <1>before, <1>after, <1>6
      DEF ReferencesAreKept, CallsAreWellFormed, WellFormed, LoginsAreAlone, LoggingIn, Fits
    <3>2. CASE d # c
      BY <3>2, <2>1, <1>before, <1>after, <1>6
      DEF ReferencesAreKept, CallsAreWellFormed, WellFormed, LoginsAreAlone, LoggingIn, Fits
    <3> QED BY <3>1, <3>2
  <2>2. pooled'["own"] # NoClient =>
          poolClient'[pooled'["own"]].state \in {"open", "lost"}
            /\ poolClient'[pooled'["own"]].as = Own
    BY <1>before, <1>after, <1>6
    DEF ReferencesAreKept, CallsAreWellFormed, WellFormed, LoginsAreAlone, LoggingIn, Fits
  <2>3. pooled'["ticket"] # NoClient =>
          poolClient'[pooled'["ticket"]].state # "none" /\ poolClient'[pooled'["ticket"]].as # Own
    BY <1>before, <1>after, <1>6
    DEF ReferencesAreKept, CallsAreWellFormed, WellFormed, LoginsAreAlone, LoggingIn, Fits
  <2> QED BY <2>1, <2>2, <2>3 DEF ReferencesAreKept
<1>9. LoginsAreAlone'
  BY <1>before, <1>after, <1>6
  DEF LoginsAreAlone, LoggingIn, CallsAreWellFormed, WellFormed, ReferencesAreKept
<1>10. TicketLockHolds'
  BY <1>before, <1>after, <1>6
  DEF TicketLockHolds, HoldsTickets, LoginsAreAlone, LoggingIn, CallsAreWellFormed, WellFormed,
      ReferencesAreKept
<1>11. OwnLockHolds'
  BY <1>before, <1>after, <1>6
  DEF OwnLockHolds, LoginsAreAlone, LoggingIn, CallsAreWellFormed, WellFormed, ReferencesAreKept
<1>12. TheRestAgree'  BY <1>before, <1>after, <1>6 DEF TheRestAgree, UnderWay
<1>13. TheirsIsOpen'
  BY <1>before, <1>after, <1>6
  DEF TheirsIsOpen, Fits, TheRestAgree, UnderWay, CallsAreWellFormed, WellFormed, ReferencesAreKept,
      LoginsAreAlone, LoggingIn
<1>14. OpenWhileInUse'
  BY <1>before, <1>after, <1>6
  DEF OpenWhileInUse, TheRestAgree, UnderWay, CallsAreWellFormed, WellFormed, ReferencesAreKept,
      TheirsIsOpen, Fits, LoginsAreAlone, LoggingIn
<1>15. OpenAreKnown'
  BY <1>before, <1>after, <1>6
  DEF OpenAreKnown, LoggingIn, CallsAreWellFormed, WellFormed, LoginsAreAlone, ReferencesAreKept,
      TicketLockHolds, HoldsTickets, OwnLockHolds
<1> QED BY <1>5, <1>7, <1>8, <1>9, <1>10, <1>11, <1>12, <1>13, <1>14, <1>15

LEMMA LoggedInOwnKeeps ==
  ASSUME PoolInv, NEW c \in PoolCalls, NEW mine \in ClientNames, mine = poolCall[c].client,
         poolCall[c].pc = "loginOwn", poolCall[c].lock = poolLock,
         Becomes(poolClient, [pooled EXCEPT !["own"] = mine], CallsOver(c, mine)),
         boundTicket' = boundTicket, poolLock' = poolLock, lastUsed' = lastUsed, sweep' = sweep
  PROVE  PoolInv'
<1>0. PoolTypeOK  BY DEF PoolInv
<1>before. PoolTypeFacts /\ NoClient \notin ClientNames  BY <1>0, PoolTypesAsFacts
<1> USE DEF PoolInv
<1> DEFINE clients == poolClient
           pools == [pooled EXCEPT !["own"] = mine]
<1>1. /\ CallsOver(c, mine) \in [PoolCalls -> PoolCall]
      /\ clients \in ClientTable
      /\ pools \in [{"own", "ticket"} -> {NoClient} \cup ClientNames]
      /\ \A m \in ClientNames :
           clients[m].as = poolClient[m].as /\ clients[m].state = poolClient[m].state
      /\ pools["own"] = mine /\ pools["ticket"] = pooled["ticket"]
  <2>1. CallsOver(c, mine) \in [PoolCalls -> PoolCall]  BY <1>0, CallsOverFacts
  <2>2. poolClient \in ClientTable
    BY DEF PoolTypeOK
  <2>3. clients \in ClientTable
        /\ \A m \in ClientNames :
             clients[m].as = poolClient[m].as /\ clients[m].state = poolClient[m].state
    BY <2>2
  <2>4. /\ pools \in [{"own", "ticket"} -> {NoClient} \cup ClientNames]
        /\ pools["own"] = mine /\ pools["ticket"] = pooled["ticket"]
    BY <1>0 DEF PoolTypeOK
  <2> QED BY <2>1, <2>3, <2>4
<1>2. Becomes(clients, pools, CallsOver(c, mine))  OBVIOUS
<1> HIDE DEF clients, pools
<1>3. /\ poolClient' \in ClientTable
      /\ pooled' = pools /\ poolCall' = CallsOver(c, mine)
      /\ \A n \in ClientNames :
              /\ n \in {pooled'["own"], pooled'["ticket"]} =>
                   poolClient'[n].state = clients[n].state /\ poolClient'[n].as = clients[n].as
              /\ \A d \in PoolCalls : poolCall'[d].client = n =>
                   poolClient'[n].state = clients[n].state /\ poolClient'[n].as = clients[n].as
              /\ poolClient'[n].state = "open" => clients[n].state = "open"
  BY <1>1, <1>2, BecomesFacts
<1>4. /\ poolCall'[c].pc = "calling" /\ poolCall'[c].client = mine
      /\ poolCall'[c].lock = NoLock
      /\ poolCall'[c].as = poolCall[c].as
      /\ poolCall'[c].overtaken = poolCall[c].overtaken
      /\ poolCall' \in [PoolCalls -> PoolCall]
      /\ \A d \in PoolCalls : d # c => poolCall'[d] = poolCall[d]
  BY <1>0, <1>3, CallsOverFacts
<1>5. PoolTypeOK'  BY <1>0, <1>1, <1>2, <1>3, <1>4 DEF PoolTypeOK, PoolIdentity
<1>after. PoolTypeFacts'  BY <1>5, PoolTypesAsFactsNext
<1> USE DEF PoolTypeFacts
<1>6. /\ boundTicket' = boundTicket /\ poolLock' = poolLock /\ lastUsed' = lastUsed
           /\ sweep' = sweep
      /\ poolCall'[c].pc = "calling" /\ poolCall'[c].client = mine /\ poolCall'[c].lock = NoLock
      /\ poolCall'[c].as = poolCall[c].as /\ poolCall'[c].overtaken = poolCall[c].overtaken
      /\ \A d \in PoolCalls : d # c => poolCall'[d] = poolCall[d]
      /\ pooled'["own"] = mine /\ pooled'["ticket"] = pooled["ticket"]
      /\ \A n \in ClientNames : poolClient'[n].state = "open" => poolClient[n].state = "open"
      /\ pooled'["own"] # NoClient =>
           (poolClient'[pooled'["own"]].as = poolClient[pooled'["own"]].as
             /\ (poolClient'[pooled'["own"]].state = poolClient[pooled'["own"]].state))
      /\ pooled'["ticket"] # NoClient =>
           (poolClient'[pooled'["ticket"]].as = poolClient[pooled'["ticket"]].as
             /\ (poolClient'[pooled'["ticket"]].state = poolClient[pooled'["ticket"]].state))
      /\ \A d \in PoolCalls : poolCall'[d].client # NoClient =>
           (poolClient'[poolCall'[d].client].as = poolClient[poolCall'[d].client].as
             /\ (poolClient'[poolCall'[d].client].state = poolClient[poolCall'[d].client].state))
  <2>0. /\ pooled'["own"] \in {NoClient} \cup ClientNames
        /\ pooled'["ticket"] \in {NoClient} \cup ClientNames
        /\ \A d \in PoolCalls : poolCall'[d].client \in {NoClient} \cup ClientNames
    BY <1>after
  <2>1. /\ poolCall'[c].pc = "calling" /\ poolCall'[c].client = mine /\ poolCall'[c].lock = NoLock
        /\ poolCall'[c].as = poolCall[c].as /\ poolCall'[c].overtaken = poolCall[c].overtaken
        /\ \A d \in PoolCalls : d # c => poolCall'[d] = poolCall[d]
    BY <1>4
  <2>2. pooled'["own"] = mine /\ pooled'["ticket"] = pooled["ticket"]
    BY <1>1, <1>3
  <2>3. \A n \in ClientNames : poolClient'[n].state = "open" => poolClient[n].state = "open"
    BY <1>1, <1>3
  <2>4. pooled'["own"] # NoClient =>
          (poolClient'[pooled'["own"]].as = poolClient[pooled'["own"]].as
            /\ (poolClient'[pooled'["own"]].state = poolClient[pooled'["own"]].state))
    BY <1>1, <1>3, <2>0
  <2>5. pooled'["ticket"] # NoClient =>
          (poolClient'[pooled'["ticket"]].as = poolClient[pooled'["ticket"]].as
            /\ (poolClient'[pooled'["ticket"]].state = poolClient[pooled'["ticket"]].state))
    BY <1>1, <1>3, <2>0
  <2>6. ASSUME NEW d \in PoolCalls, poolCall'[d].client # NoClient
        PROVE  (poolClient'[poolCall'[d].client].as = poolClient[poolCall'[d].client].as
                 /\ (poolClient'[poolCall'[d].client].state = poolClient[poolCall'[d].client].state))
    BY <1>1, <1>3, <2>0, <2>6
  <2> QED BY <2>1, <2>2, <2>3, <2>4, <2>5, <2>6
<1>7. CallsAreWellFormed'  BY <1>before, <1>after, <1>6 DEF CallsAreWellFormed, WellFormed
<1>8. ReferencesAreKept'
  <2>1. ASSUME NEW d \in PoolCalls, poolCall'[d].client # NoClient
        PROVE  /\ poolClient'[poolCall'[d].client].state # "none"
               /\ poolClient'[poolCall'[d].client].as = poolCall'[d].as
    <3>1. CASE d = c
      BY <3>1, <2>1, <1>before, <1>after, <1>6
      DEF ReferencesAreKept, CallsAreWellFormed, WellFormed, LoginsAreAlone, LoggingIn, Fits
    <3>2. CASE d # c
      BY <3>2, <2>1, <1>before, <1>after, <1>6
      DEF ReferencesAreKept, CallsAreWellFormed, WellFormed, LoginsAreAlone, LoggingIn, Fits
    <3> QED BY <3>1, <3>2
  <2>2. pooled'["own"] # NoClient =>
          poolClient'[pooled'["own"]].state \in {"open", "lost"}
            /\ poolClient'[pooled'["own"]].as = Own
    BY <1>before, <1>after, <1>6
    DEF ReferencesAreKept, CallsAreWellFormed, WellFormed, LoginsAreAlone, LoggingIn, Fits
  <2>3. pooled'["ticket"] # NoClient =>
          poolClient'[pooled'["ticket"]].state # "none" /\ poolClient'[pooled'["ticket"]].as # Own
    BY <1>before, <1>after, <1>6
    DEF ReferencesAreKept, CallsAreWellFormed, WellFormed, LoginsAreAlone, LoggingIn, Fits
  <2> QED BY <2>1, <2>2, <2>3 DEF ReferencesAreKept
<1>9. LoginsAreAlone'
  BY <1>before, <1>after, <1>6
  DEF LoginsAreAlone, LoggingIn, CallsAreWellFormed, WellFormed, ReferencesAreKept
<1>10. TicketLockHolds'
  BY <1>before, <1>after, <1>6
  DEF TicketLockHolds, HoldsTickets, LoginsAreAlone, LoggingIn, CallsAreWellFormed, WellFormed,
      ReferencesAreKept
<1>11. OwnLockHolds'
  BY <1>before, <1>after, <1>6
  DEF OwnLockHolds, LoginsAreAlone, LoggingIn, CallsAreWellFormed, WellFormed, ReferencesAreKept
<1>12. TheRestAgree'  BY <1>before, <1>after, <1>6 DEF TheRestAgree, UnderWay
<1>13. TheirsIsOpen'
  BY <1>before, <1>after, <1>6
  DEF TheirsIsOpen, Fits, TheRestAgree, UnderWay, CallsAreWellFormed, WellFormed, ReferencesAreKept,
      LoginsAreAlone, LoggingIn
<1>14. OpenWhileInUse'
  BY <1>before, <1>after, <1>6
  DEF OpenWhileInUse, TheRestAgree, UnderWay, CallsAreWellFormed, WellFormed, ReferencesAreKept,
      TheirsIsOpen, Fits, LoginsAreAlone, LoggingIn
<1>15. OpenAreKnown'
  BY <1>before, <1>after, <1>6
  DEF OpenAreKnown, LoggingIn, CallsAreWellFormed, WellFormed, LoginsAreAlone, ReferencesAreKept,
      TicketLockHolds, HoldsTickets, OwnLockHolds
<1> QED BY <1>5, <1>7, <1>8, <1>9, <1>10, <1>11, <1>12, <1>13, <1>14, <1>15

LEMMA LoggedInTicketKeeps ==
  ASSUME PoolInv, NEW c \in PoolCalls, NEW mine \in ClientNames, mine = poolCall[c].client,
         poolCall[c].pc = "loginTicket",
         Becomes(poolClient, [pooled EXCEPT !["ticket"] = mine], CallsOver(c, mine)),
         boundTicket' = boundTicket, poolLock' = poolLock, lastUsed' = lastUsed, sweep' = sweep
  PROVE  PoolInv'
<1>0. PoolTypeOK  BY DEF PoolInv
<1>before. PoolTypeFacts /\ NoClient \notin ClientNames  BY <1>0, PoolTypesAsFacts
<1> USE DEF PoolInv
<1> DEFINE clients == poolClient
           pools == [pooled EXCEPT !["ticket"] = mine]
<1>1. /\ CallsOver(c, mine) \in [PoolCalls -> PoolCall]
      /\ clients \in ClientTable
      /\ pools \in [{"own", "ticket"} -> {NoClient} \cup ClientNames]
      /\ \A m \in ClientNames :
           clients[m].as = poolClient[m].as /\ clients[m].state = poolClient[m].state
      /\ pools["own"] = pooled["own"] /\ pools["ticket"] = mine
  <2>1. CallsOver(c, mine) \in [PoolCalls -> PoolCall]  BY <1>0, CallsOverFacts
  <2>2. poolClient \in ClientTable
    BY DEF PoolTypeOK
  <2>3. clients \in ClientTable
        /\ \A m \in ClientNames :
             clients[m].as = poolClient[m].as /\ clients[m].state = poolClient[m].state
    BY <2>2
  <2>4. /\ pools \in [{"own", "ticket"} -> {NoClient} \cup ClientNames]
        /\ pools["own"] = pooled["own"] /\ pools["ticket"] = mine
    BY <1>0 DEF PoolTypeOK
  <2> QED BY <2>1, <2>3, <2>4
<1>2. Becomes(clients, pools, CallsOver(c, mine))  OBVIOUS
<1> HIDE DEF clients, pools
<1>3. /\ poolClient' \in ClientTable
      /\ pooled' = pools /\ poolCall' = CallsOver(c, mine)
      /\ \A n \in ClientNames :
              /\ n \in {pooled'["own"], pooled'["ticket"]} =>
                   poolClient'[n].state = clients[n].state /\ poolClient'[n].as = clients[n].as
              /\ \A d \in PoolCalls : poolCall'[d].client = n =>
                   poolClient'[n].state = clients[n].state /\ poolClient'[n].as = clients[n].as
              /\ poolClient'[n].state = "open" => clients[n].state = "open"
  BY <1>1, <1>2, BecomesFacts
<1>4. /\ poolCall'[c].pc = "calling" /\ poolCall'[c].client = mine
      /\ poolCall'[c].lock = NoLock
      /\ poolCall'[c].as = poolCall[c].as
      /\ poolCall'[c].overtaken = poolCall[c].overtaken
      /\ poolCall' \in [PoolCalls -> PoolCall]
      /\ \A d \in PoolCalls : d # c => poolCall'[d] = poolCall[d]
  BY <1>0, <1>3, CallsOverFacts
<1>5. PoolTypeOK'  BY <1>0, <1>1, <1>2, <1>3, <1>4 DEF PoolTypeOK, PoolIdentity
<1>after. PoolTypeFacts'  BY <1>5, PoolTypesAsFactsNext
<1> USE DEF PoolTypeFacts
<1>6. /\ boundTicket' = boundTicket /\ poolLock' = poolLock /\ lastUsed' = lastUsed
           /\ sweep' = sweep
      /\ poolCall'[c].pc = "calling" /\ poolCall'[c].client = mine /\ poolCall'[c].lock = NoLock
      /\ poolCall'[c].as = poolCall[c].as /\ poolCall'[c].overtaken = poolCall[c].overtaken
      /\ \A d \in PoolCalls : d # c => poolCall'[d] = poolCall[d]
      /\ pooled'["own"] = pooled["own"] /\ pooled'["ticket"] = mine
      /\ \A n \in ClientNames : poolClient'[n].state = "open" => poolClient[n].state = "open"
      /\ pooled'["own"] # NoClient =>
           (poolClient'[pooled'["own"]].as = poolClient[pooled'["own"]].as
             /\ (poolClient'[pooled'["own"]].state = poolClient[pooled'["own"]].state))
      /\ pooled'["ticket"] # NoClient =>
           (poolClient'[pooled'["ticket"]].as = poolClient[pooled'["ticket"]].as
             /\ (poolClient'[pooled'["ticket"]].state = poolClient[pooled'["ticket"]].state))
      /\ \A d \in PoolCalls : poolCall'[d].client # NoClient =>
           (poolClient'[poolCall'[d].client].as = poolClient[poolCall'[d].client].as
             /\ (poolClient'[poolCall'[d].client].state = poolClient[poolCall'[d].client].state))
  <2>0. /\ pooled'["own"] \in {NoClient} \cup ClientNames
        /\ pooled'["ticket"] \in {NoClient} \cup ClientNames
        /\ \A d \in PoolCalls : poolCall'[d].client \in {NoClient} \cup ClientNames
    BY <1>after
  <2>1. /\ poolCall'[c].pc = "calling" /\ poolCall'[c].client = mine /\ poolCall'[c].lock = NoLock
        /\ poolCall'[c].as = poolCall[c].as /\ poolCall'[c].overtaken = poolCall[c].overtaken
        /\ \A d \in PoolCalls : d # c => poolCall'[d] = poolCall[d]
    BY <1>4
  <2>2. pooled'["own"] = pooled["own"] /\ pooled'["ticket"] = mine
    BY <1>1, <1>3
  <2>3. \A n \in ClientNames : poolClient'[n].state = "open" => poolClient[n].state = "open"
    BY <1>1, <1>3
  <2>4. pooled'["own"] # NoClient =>
          (poolClient'[pooled'["own"]].as = poolClient[pooled'["own"]].as
            /\ (poolClient'[pooled'["own"]].state = poolClient[pooled'["own"]].state))
    BY <1>1, <1>3, <2>0
  <2>5. pooled'["ticket"] # NoClient =>
          (poolClient'[pooled'["ticket"]].as = poolClient[pooled'["ticket"]].as
            /\ (poolClient'[pooled'["ticket"]].state = poolClient[pooled'["ticket"]].state))
    BY <1>1, <1>3, <2>0
  <2>6. ASSUME NEW d \in PoolCalls, poolCall'[d].client # NoClient
        PROVE  (poolClient'[poolCall'[d].client].as = poolClient[poolCall'[d].client].as
                 /\ (poolClient'[poolCall'[d].client].state = poolClient[poolCall'[d].client].state))
    BY <1>1, <1>3, <2>0, <2>6
  <2> QED BY <2>1, <2>2, <2>3, <2>4, <2>5, <2>6
<1>7. CallsAreWellFormed'  BY <1>before, <1>after, <1>6 DEF CallsAreWellFormed, WellFormed
<1>8. ReferencesAreKept'
  <2>1. ASSUME NEW d \in PoolCalls, poolCall'[d].client # NoClient
        PROVE  /\ poolClient'[poolCall'[d].client].state # "none"
               /\ poolClient'[poolCall'[d].client].as = poolCall'[d].as
    <3>1. CASE d = c
      BY <3>1, <2>1, <1>before, <1>after, <1>6
      DEF ReferencesAreKept, CallsAreWellFormed, WellFormed, LoginsAreAlone, LoggingIn, Fits
    <3>2. CASE d # c
      BY <3>2, <2>1, <1>before, <1>after, <1>6
      DEF ReferencesAreKept, CallsAreWellFormed, WellFormed, LoginsAreAlone, LoggingIn, Fits
    <3> QED BY <3>1, <3>2
  <2>2. pooled'["own"] # NoClient =>
          poolClient'[pooled'["own"]].state \in {"open", "lost"}
            /\ poolClient'[pooled'["own"]].as = Own
    BY <1>before, <1>after, <1>6
    DEF ReferencesAreKept, CallsAreWellFormed, WellFormed, LoginsAreAlone, LoggingIn, Fits
  <2>3. pooled'["ticket"] # NoClient =>
          poolClient'[pooled'["ticket"]].state # "none" /\ poolClient'[pooled'["ticket"]].as # Own
    BY <1>before, <1>after, <1>6
    DEF ReferencesAreKept, CallsAreWellFormed, WellFormed, LoginsAreAlone, LoggingIn, Fits
  <2> QED BY <2>1, <2>2, <2>3 DEF ReferencesAreKept
<1>9. LoginsAreAlone'
  BY <1>before, <1>after, <1>6
  DEF LoginsAreAlone, LoggingIn, CallsAreWellFormed, WellFormed, ReferencesAreKept
<1>10. TicketLockHolds'
  BY <1>before, <1>after, <1>6
  DEF TicketLockHolds, HoldsTickets, LoginsAreAlone, LoggingIn, CallsAreWellFormed, WellFormed,
      ReferencesAreKept
<1>11. OwnLockHolds'
  BY <1>before, <1>after, <1>6
  DEF OwnLockHolds, LoginsAreAlone, LoggingIn, CallsAreWellFormed, WellFormed, ReferencesAreKept
<1>12. TheRestAgree'  BY <1>before, <1>after, <1>6 DEF TheRestAgree, UnderWay
<1>13. TheirsIsOpen'
  BY <1>before, <1>after, <1>6
  DEF TheirsIsOpen, Fits, TheRestAgree, UnderWay, CallsAreWellFormed, WellFormed, ReferencesAreKept,
      LoginsAreAlone, LoggingIn
<1>14. OpenWhileInUse'
  BY <1>before, <1>after, <1>6
  DEF OpenWhileInUse, TheRestAgree, UnderWay, CallsAreWellFormed, WellFormed, ReferencesAreKept,
      TheirsIsOpen, Fits, LoginsAreAlone, LoggingIn
<1>15. OpenAreKnown'
  BY <1>before, <1>after, <1>6
  DEF OpenAreKnown, LoggingIn, CallsAreWellFormed, WellFormed, LoginsAreAlone, ReferencesAreKept,
      TicketLockHolds, HoldsTickets, OwnLockHolds
<1> QED BY <1>5, <1>7, <1>8, <1>9, <1>10, <1>11, <1>12, <1>13, <1>14, <1>15

LEMMA LoginFailsKeeps ==
  ASSUME PoolInv, NEW c \in PoolCalls, LoginFails(c)
  PROVE  PoolInv'
<1>0. PoolTypeOK  BY DEF PoolInv
<1>before. PoolTypeFacts /\ NoClient \notin ClientNames  BY <1>0, PoolTypesAsFacts
<1> USE DEF PoolInv
<1> DEFINE mine == poolCall[c].client
           clients == [poolClient EXCEPT ![poolCall[c].client].state = "lost"]
           calls == [poolCall EXCEPT ![c] = IdleCall]
<1>1. LoggingIn(c) /\ mine \in ClientNames /\ (boundTicket' = boundTicket
        /\ poolLock' = poolLock /\ lastUsed' = lastUsed /\ sweep' = sweep)
  BY DEF LoginFails, LoggingIn, CallsAreWellFormed, WellFormed, PoolTypeOK, PoolCall
<1>2. /\ IdleCall \in PoolCall /\ IdleCall.pc = "idle" /\ IdleCall.client = NoClient
      /\ IdleCall.as = Own /\ IdleCall.lock = NoLock
  BY DEF IdleCall, PoolCall, PoolIdentity
<1>3. /\ calls \in [PoolCalls -> PoolCall] /\ calls[c] = IdleCall
      /\ \A d \in PoolCalls : d # c => calls[d] = poolCall[d]
      /\ clients \in ClientTable
      /\ pooled \in [{"own", "ticket"} -> {NoClient} \cup ClientNames]
      /\ \A m \in ClientNames : /\ clients[m].as = poolClient[m].as
                                /\ m # mine => clients[m] = poolClient[m]
                                /\ m = mine => clients[m].state = "lost"
  BY <1>0, <1>1, <1>2 DEF PoolTypeOK
<1>4. Becomes(clients, pooled, calls)  BY DEF LoginFails
<1> HIDE DEF clients, calls, mine
<1>5. /\ poolClient' \in ClientTable
      /\ pooled' = pooled /\ poolCall' = calls
      /\ \A n \in ClientNames :
              /\ n \in {pooled'["own"], pooled'["ticket"]} =>
                   poolClient'[n].state = clients[n].state /\ poolClient'[n].as = clients[n].as
              /\ \A d \in PoolCalls : poolCall'[d].client = n =>
                   poolClient'[n].state = clients[n].state /\ poolClient'[n].as = clients[n].as
              /\ poolClient'[n].state = "open" => clients[n].state = "open"
  BY <1>3, <1>4, BecomesFacts
<1>6. mine = poolCall[c].client BY DEF mine
<1>7. PoolTypeOK'  BY <1>0, <1>1, <1>2, <1>3, <1>4, <1>5, <1>6 DEF PoolTypeOK, PoolIdentity
<1>after. PoolTypeFacts'  BY <1>7, PoolTypesAsFactsNext
<1> USE DEF PoolTypeFacts
<1>8. /\ boundTicket' = boundTicket /\ poolLock' = poolLock /\ lastUsed' = lastUsed
           /\ sweep' = sweep
      /\ poolCall'[c] = IdleCall
      /\ \A d \in PoolCalls : d # c => poolCall'[d] = poolCall[d]
      /\ pooled'["own"] = pooled["own"] /\ pooled'["ticket"] = pooled["ticket"]
      /\ \A n \in ClientNames : poolClient'[n].state = "open" => n # mine
      /\ \A n \in ClientNames : poolClient'[n].state = "open" => poolClient[n].state = "open"
      /\ pooled'["own"] # NoClient =>
           (poolClient'[pooled'["own"]].as = poolClient[pooled'["own"]].as
             /\ ((pooled'["own"] # mine =>
                  poolClient'[pooled'["own"]].state = poolClient[pooled'["own"]].state)))
      /\ pooled'["ticket"] # NoClient =>
           (poolClient'[pooled'["ticket"]].as = poolClient[pooled'["ticket"]].as
             /\ ((pooled'["ticket"] # mine =>
                  poolClient'[pooled'["ticket"]].state = poolClient[pooled'["ticket"]].state)))
      /\ \A d \in PoolCalls : poolCall'[d].client # NoClient =>
           (poolClient'[poolCall'[d].client].as = poolClient[poolCall'[d].client].as
             /\ ((poolCall'[d].client # mine =>
                  poolClient'[poolCall'[d].client].state = poolClient[poolCall'[d].client].state)))
  BY <1>before, <1>after, <1>1, <1>3, <1>5
<1>9. CallsAreWellFormed'
  BY <1>before, <1>after, <1>8, <1>1, <1>2, <1>6
  DEF CallsAreWellFormed, WellFormed
<1>10. ReferencesAreKept'
  <2>1. ASSUME NEW d \in PoolCalls, poolCall'[d].client # NoClient
        PROVE  /\ poolClient'[poolCall'[d].client].state # "none"
               /\ poolClient'[poolCall'[d].client].as = poolCall'[d].as
    <3>1. CASE d = c
      BY <3>1, <2>1, <1>before, <1>after, <1>8, <1>1, <1>2, <1>6
      DEF ReferencesAreKept, CallsAreWellFormed, WellFormed, LoginsAreAlone, LoggingIn, Fits
    <3>2. CASE d # c
      BY <3>2, <2>1, <1>before, <1>after, <1>8, <1>1, <1>2, <1>6
      DEF ReferencesAreKept, CallsAreWellFormed, WellFormed, LoginsAreAlone, LoggingIn, Fits
    <3> QED BY <3>1, <3>2
  <2>2. pooled'["own"] # NoClient =>
          poolClient'[pooled'["own"]].state \in {"open", "lost"}
            /\ poolClient'[pooled'["own"]].as = Own
    BY <1>before, <1>after, <1>8, <1>1, <1>2, <1>6
    DEF ReferencesAreKept, CallsAreWellFormed, WellFormed, LoginsAreAlone, LoggingIn, Fits
  <2>3. pooled'["ticket"] # NoClient =>
          poolClient'[pooled'["ticket"]].state # "none" /\ poolClient'[pooled'["ticket"]].as # Own
    BY <1>before, <1>after, <1>8, <1>1, <1>2, <1>6
    DEF ReferencesAreKept, CallsAreWellFormed, WellFormed, LoginsAreAlone, LoggingIn, Fits
  <2> QED BY <2>1, <2>2, <2>3 DEF ReferencesAreKept
<1>11. LoginsAreAlone'
  BY <1>before, <1>after, <1>8, <1>1, <1>2, <1>6
  DEF LoginsAreAlone, LoggingIn, CallsAreWellFormed, WellFormed, ReferencesAreKept
<1>12. TicketLockHolds'
  BY <1>before, <1>after, <1>8, <1>1, <1>2, <1>6
  DEF TicketLockHolds, HoldsTickets, LoginsAreAlone, LoggingIn, CallsAreWellFormed, WellFormed,
      ReferencesAreKept
<1>13. OwnLockHolds'
  BY <1>before, <1>after, <1>8, <1>1, <1>2, <1>6
  DEF OwnLockHolds, LoginsAreAlone, LoggingIn, CallsAreWellFormed, WellFormed, ReferencesAreKept
<1>14. TheRestAgree'  BY <1>before, <1>after, <1>8, <1>1, <1>2, <1>6 DEF TheRestAgree, UnderWay
<1>15. TheirsIsOpen'
  BY <1>before, <1>after, <1>8, <1>1, <1>2, <1>6
  DEF TheirsIsOpen, Fits, TheRestAgree, UnderWay, CallsAreWellFormed, WellFormed, ReferencesAreKept,
      LoginsAreAlone, LoggingIn
<1>16. OpenWhileInUse'
  BY <1>before, <1>after, <1>8, <1>1, <1>2, <1>6
  DEF OpenWhileInUse, TheRestAgree, UnderWay, CallsAreWellFormed, WellFormed, ReferencesAreKept,
      TheirsIsOpen, Fits, LoginsAreAlone, LoggingIn
<1>17. OpenAreKnown'
  BY <1>before, <1>after, <1>8, <1>1, <1>2, <1>6
  DEF OpenAreKnown, LoggingIn, CallsAreWellFormed, WellFormed, LoginsAreAlone, ReferencesAreKept,
      TicketLockHolds, HoldsTickets, OwnLockHolds
<1> QED BY <1>7, <1>9, <1>10, <1>11, <1>12, <1>13, <1>14, <1>15, <1>16, <1>17

LEMMA PoolCallEndsKeeps ==
  ASSUME PoolInv, NEW c \in PoolCalls, PoolCallEnds(c)
  PROVE  PoolInv'
<1>0. PoolTypeOK  BY DEF PoolInv
<1>before. PoolTypeFacts /\ NoClient \notin ClientNames  BY <1>0, PoolTypesAsFacts
<1> USE DEF PoolInv
<1> DEFINE calls == [poolCall EXCEPT ![c] = IdleCall]
<1>1. poolCall[c].pc = "calling" /\ (boundTicket' = boundTicket /\ poolLock' = poolLock
        /\ lastUsed' = lastUsed /\ sweep' = sweep)
  BY DEF PoolCallEnds
<1>2. /\ IdleCall \in PoolCall /\ IdleCall.pc = "idle" /\ IdleCall.client = NoClient
      /\ IdleCall.as = Own /\ IdleCall.lock = NoLock
  BY DEF IdleCall, PoolCall, PoolIdentity
<1>3. /\ calls \in [PoolCalls -> PoolCall] /\ calls[c] = IdleCall
      /\ \A d \in PoolCalls : d # c => calls[d] = poolCall[d]
      /\ poolClient \in ClientTable
      /\ pooled \in [{"own", "ticket"} -> {NoClient} \cup ClientNames]
  BY <1>0, <1>1, <1>2 DEF PoolTypeOK
<1>4. Becomes(poolClient, pooled, calls)  BY DEF PoolCallEnds
<1> HIDE DEF calls
<1>5. /\ poolClient' \in ClientTable
      /\ pooled' = pooled /\ poolCall' = calls
      /\ \A n \in ClientNames :
              /\ n \in {pooled'["own"], pooled'["ticket"]} =>
                   poolClient'[n].state = poolClient[n].state
                     /\ poolClient'[n].as = poolClient[n].as
              /\ \A d \in PoolCalls : poolCall'[d].client = n =>
                   poolClient'[n].state = poolClient[n].state
                     /\ poolClient'[n].as = poolClient[n].as
              /\ poolClient'[n].state = "open" => poolClient[n].state = "open"
  BY <1>3, <1>4, BecomesFacts
<1>6. PoolTypeOK'  BY <1>0, <1>1, <1>2, <1>3, <1>4, <1>5 DEF PoolTypeOK, PoolIdentity
<1>after. PoolTypeFacts'  BY <1>6, PoolTypesAsFactsNext
<1> USE DEF PoolTypeFacts
<1>7. /\ boundTicket' = boundTicket /\ poolLock' = poolLock /\ lastUsed' = lastUsed
           /\ sweep' = sweep
      /\ poolCall'[c] = IdleCall
      /\ \A d \in PoolCalls : d # c => poolCall'[d] = poolCall[d]
      /\ pooled'["own"] = pooled["own"] /\ pooled'["ticket"] = pooled["ticket"]
      /\ \A n \in ClientNames : poolClient'[n].state = "open" => poolClient[n].state = "open"
      /\ pooled'["own"] # NoClient =>
           (poolClient'[pooled'["own"]].as = poolClient[pooled'["own"]].as
             /\ (poolClient'[pooled'["own"]].state = poolClient[pooled'["own"]].state))
      /\ pooled'["ticket"] # NoClient =>
           (poolClient'[pooled'["ticket"]].as = poolClient[pooled'["ticket"]].as
             /\ (poolClient'[pooled'["ticket"]].state = poolClient[pooled'["ticket"]].state))
      /\ \A d \in PoolCalls : poolCall'[d].client # NoClient =>
           (poolClient'[poolCall'[d].client].as = poolClient[poolCall'[d].client].as
             /\ (poolClient'[poolCall'[d].client].state = poolClient[poolCall'[d].client].state))
  BY <1>before, <1>after, <1>1, <1>3, <1>5
<1>8. CallsAreWellFormed'
  BY <1>before, <1>after, <1>7, <1>1, <1>2
  DEF CallsAreWellFormed, WellFormed
<1>9. ReferencesAreKept'
  <2>1. ASSUME NEW d \in PoolCalls, poolCall'[d].client # NoClient
        PROVE  /\ poolClient'[poolCall'[d].client].state # "none"
               /\ poolClient'[poolCall'[d].client].as = poolCall'[d].as
    <3>1. CASE d = c
      BY <3>1, <2>1, <1>before, <1>after, <1>7, <1>1, <1>2
      DEF ReferencesAreKept, CallsAreWellFormed, WellFormed, LoginsAreAlone, LoggingIn, Fits
    <3>2. CASE d # c
      BY <3>2, <2>1, <1>before, <1>after, <1>7, <1>1, <1>2
      DEF ReferencesAreKept, CallsAreWellFormed, WellFormed, LoginsAreAlone, LoggingIn, Fits
    <3> QED BY <3>1, <3>2
  <2>2. pooled'["own"] # NoClient =>
          poolClient'[pooled'["own"]].state \in {"open", "lost"}
            /\ poolClient'[pooled'["own"]].as = Own
    BY <1>before, <1>after, <1>7, <1>1, <1>2
    DEF ReferencesAreKept, CallsAreWellFormed, WellFormed, LoginsAreAlone, LoggingIn, Fits
  <2>3. pooled'["ticket"] # NoClient =>
          poolClient'[pooled'["ticket"]].state # "none" /\ poolClient'[pooled'["ticket"]].as # Own
    BY <1>before, <1>after, <1>7, <1>1, <1>2
    DEF ReferencesAreKept, CallsAreWellFormed, WellFormed, LoginsAreAlone, LoggingIn, Fits
  <2> QED BY <2>1, <2>2, <2>3 DEF ReferencesAreKept
<1>10. LoginsAreAlone'
  BY <1>before, <1>after, <1>7, <1>1, <1>2
  DEF LoginsAreAlone, LoggingIn, CallsAreWellFormed, WellFormed, ReferencesAreKept
<1>11. TicketLockHolds'
  BY <1>before, <1>after, <1>7, <1>1, <1>2
  DEF TicketLockHolds, HoldsTickets, LoginsAreAlone, LoggingIn, CallsAreWellFormed, WellFormed,
      ReferencesAreKept
<1>12. OwnLockHolds'
  BY <1>before, <1>after, <1>7, <1>1, <1>2
  DEF OwnLockHolds, LoginsAreAlone, LoggingIn, CallsAreWellFormed, WellFormed, ReferencesAreKept
<1>13. TheRestAgree'  BY <1>before, <1>after, <1>7, <1>1, <1>2 DEF TheRestAgree, UnderWay
<1>14. TheirsIsOpen'
  BY <1>before, <1>after, <1>7, <1>1, <1>2
  DEF TheirsIsOpen, Fits, TheRestAgree, UnderWay, CallsAreWellFormed, WellFormed, ReferencesAreKept,
      LoginsAreAlone, LoggingIn
<1>15. OpenWhileInUse'
  BY <1>before, <1>after, <1>7, <1>1, <1>2
  DEF OpenWhileInUse, TheRestAgree, UnderWay, CallsAreWellFormed, WellFormed, ReferencesAreKept,
      TheirsIsOpen, Fits, LoginsAreAlone, LoggingIn
<1>16. OpenAreKnown'
  BY <1>before, <1>after, <1>7, <1>1, <1>2
  DEF OpenAreKnown, LoggingIn, CallsAreWellFormed, WellFormed, LoginsAreAlone, ReferencesAreKept,
      TicketLockHolds, HoldsTickets, OwnLockHolds
<1> QED BY <1>6, <1>8, <1>9, <1>10, <1>11, <1>12, <1>13, <1>14, <1>15, <1>16

LEMMA BindTicketKeeps ==
  ASSUME PoolInv, NEW t \in PoolTickets, BindTicket(t)
  PROVE  PoolInv'
<1>0. PoolTypeOK  BY DEF PoolInv
<1>before. PoolTypeFacts /\ NoClient \notin ClientNames  BY <1>0, PoolTypesAsFacts
<1> USE DEF PoolInv
<1>1. (poolClient' = poolClient /\ pooled' = pooled /\ poolLock' = poolLock
        /\ lastUsed' = lastUsed /\ sweep' = sweep) /\ boundTicket' = t /\ poolCall' = AllOvertaken
  BY DEF BindTicket
<1>2. /\ poolCall' \in [PoolCalls -> PoolCall]
      /\ \A c \in PoolCalls :
              /\ poolCall'[c].pc = poolCall[c].pc /\ poolCall'[c].as = poolCall[c].as
              /\ poolCall'[c].client = poolCall[c].client /\ poolCall'[c].lock = poolCall[c].lock
              /\ poolCall[c].pc # "idle" => poolCall'[c].overtaken
              /\ poolCall[c].pc = "idle" => poolCall'[c] = poolCall[c]
  BY <1>0, <1>1, AllOvertakenFacts
<1>3. PoolTypeOK'  BY <1>0, <1>1, <1>2 DEF PoolTypeOK, PoolIdentity
<1>after. PoolTypeFacts'  BY <1>3, PoolTypesAsFactsNext
<1> USE DEF PoolTypeFacts
<1>4. CallsAreWellFormed'  BY <1>before, <1>after, <1>1, <1>2 DEF CallsAreWellFormed, WellFormed
<1>5. ReferencesAreKept'
  BY <1>before, <1>after, <1>1, <1>2
  DEF ReferencesAreKept, CallsAreWellFormed, WellFormed, LoginsAreAlone, LoggingIn, Fits
<1>6. LoginsAreAlone'
  BY <1>before, <1>after, <1>1, <1>2
  DEF LoginsAreAlone, LoggingIn, CallsAreWellFormed, WellFormed, ReferencesAreKept
<1>7. TicketLockHolds'
  BY <1>before, <1>after, <1>1, <1>2
  DEF TicketLockHolds, HoldsTickets, LoginsAreAlone, LoggingIn, CallsAreWellFormed, WellFormed,
      ReferencesAreKept
<1>8. OwnLockHolds'
  BY <1>before, <1>after, <1>1, <1>2
  DEF OwnLockHolds, LoginsAreAlone, LoggingIn, CallsAreWellFormed, WellFormed, ReferencesAreKept
<1>9. TheRestAgree'  BY <1>before, <1>after, <1>1, <1>2 DEF TheRestAgree, UnderWay
<1>10. TheirsIsOpen'
  BY <1>before, <1>after, <1>1, <1>2
  DEF TheirsIsOpen, Fits, TheRestAgree, UnderWay, CallsAreWellFormed, WellFormed, ReferencesAreKept,
      LoginsAreAlone, LoggingIn
<1>11. OpenWhileInUse'
  BY <1>before, <1>after, <1>1, <1>2
  DEF OpenWhileInUse, TheRestAgree, UnderWay, CallsAreWellFormed, WellFormed, ReferencesAreKept,
      TheirsIsOpen, Fits, LoginsAreAlone, LoggingIn
<1>12. OpenAreKnown'
  BY <1>before, <1>after, <1>1, <1>2
  DEF OpenAreKnown, LoggingIn, CallsAreWellFormed, WellFormed, LoginsAreAlone, ReferencesAreKept,
      TicketLockHolds, HoldsTickets, OwnLockHolds
<1> QED BY <1>3, <1>4, <1>5, <1>6, <1>7, <1>8, <1>9, <1>10, <1>11, <1>12

LEMMA UnbindKeeps ==
  ASSUME PoolInv, Unbind
  PROVE  PoolInv'
<1>0. PoolTypeOK  BY DEF PoolInv
<1>before. PoolTypeFacts /\ NoClient \notin ClientNames  BY <1>0, PoolTypesAsFacts
<1> USE DEF PoolInv
<1> DEFINE clients == Closed(pooled["ticket"])
           pools == [pooled EXCEPT !["ticket"] = NoClient]
<1>1. (poolLock' = poolLock /\ lastUsed' = lastUsed /\ sweep' = sweep) /\ boundTicket' = Own
        /\ Becomes(clients, pools, AllOvertaken)
  BY DEF Unbind
<1>2. /\ AllOvertaken \in [PoolCalls -> PoolCall]
      /\ clients \in ClientTable
      /\ pools \in [{"own", "ticket"} -> {NoClient} \cup ClientNames]
      /\ pools["own"] = pooled["own"] /\ pools["ticket"] = NoClient
      /\ \A m \in ClientNames : /\ clients[m].as = poolClient[m].as
                                /\ m # pooled["ticket"] => clients[m] = poolClient[m]
                                /\ m = pooled["ticket"] => clients[m].state = "closed"
  BY <1>0, ClosedFacts, AllOvertakenFacts DEF PoolTypeOK
<1> HIDE DEF clients, pools
<1>3. /\ poolClient' \in ClientTable
      /\ pooled' = pools /\ poolCall' = AllOvertaken
      /\ \A n \in ClientNames :
              /\ n \in {pooled'["own"], pooled'["ticket"]} =>
                   poolClient'[n].state = clients[n].state /\ poolClient'[n].as = clients[n].as
              /\ \A d \in PoolCalls : poolCall'[d].client = n =>
                   poolClient'[n].state = clients[n].state /\ poolClient'[n].as = clients[n].as
              /\ poolClient'[n].state = "open" => clients[n].state = "open"
  BY <1>1, <1>2, BecomesFacts
<1>4. /\ poolCall' \in [PoolCalls -> PoolCall]
      /\ \A c \in PoolCalls :
              /\ poolCall'[c].pc = poolCall[c].pc /\ poolCall'[c].as = poolCall[c].as
              /\ poolCall'[c].client = poolCall[c].client /\ poolCall'[c].lock = poolCall[c].lock
              /\ poolCall[c].pc # "idle" => poolCall'[c].overtaken
              /\ poolCall[c].pc = "idle" => poolCall'[c] = poolCall[c]
  BY <1>0, <1>3, AllOvertakenFacts
<1>5. PoolTypeOK'  BY <1>0, <1>1, <1>2, <1>3, <1>4 DEF PoolTypeOK, PoolIdentity
<1>after. PoolTypeFacts'  BY <1>5, PoolTypesAsFactsNext
<1> USE DEF PoolTypeFacts
<1>6. /\ boundTicket' = Own /\ poolLock' = poolLock /\ lastUsed' = lastUsed /\ sweep' = sweep
      /\ \A d \in PoolCalls :
           /\ poolCall'[d].pc = poolCall[d].pc /\ poolCall'[d].as = poolCall[d].as
           /\ poolCall'[d].client = poolCall[d].client /\ poolCall'[d].lock = poolCall[d].lock
           /\ poolCall[d].pc # "idle" => poolCall'[d].overtaken
           /\ poolCall[d].pc = "idle" => poolCall'[d] = poolCall[d]
      /\ pooled'["own"] = pooled["own"] /\ pooled'["ticket"] = NoClient
      /\ \A n \in ClientNames : poolClient'[n].state = "open" => n # pooled["ticket"]
      /\ \A n \in ClientNames : poolClient'[n].state = "open" => poolClient[n].state = "open"
      /\ pooled'["own"] # NoClient =>
           (poolClient'[pooled'["own"]].as = poolClient[pooled'["own"]].as
             /\ (poolClient'[pooled'["own"]].state = IF pooled'["own"] =
                  pooled["ticket"] THEN "closed" ELSE poolClient[pooled'["own"]].state))
      /\ pooled'["ticket"] # NoClient =>
           (poolClient'[pooled'["ticket"]].as = poolClient[pooled'["ticket"]].as
             /\ (poolClient'[pooled'["ticket"]].state = IF pooled'["ticket"] =
                  pooled["ticket"] THEN "closed" ELSE poolClient[pooled'["ticket"]].state))
      /\ \A d \in PoolCalls : poolCall'[d].client # NoClient =>
           (poolClient'[poolCall'[d].client].as = poolClient[poolCall'[d].client].as
             /\ (poolClient'[poolCall'[d].client].state = IF poolCall'[d].client =
                  pooled["ticket"] THEN "closed" ELSE poolClient[poolCall'[d].client].state))
  BY <1>before, <1>after, <1>1, <1>2, <1>3, <1>4
<1>7. CallsAreWellFormed'  BY <1>before, <1>after, <1>6 DEF CallsAreWellFormed, WellFormed
<1>8. ReferencesAreKept'
  BY <1>before, <1>after, <1>6
  DEF ReferencesAreKept, CallsAreWellFormed, WellFormed, LoginsAreAlone, LoggingIn, Fits
<1>9. LoginsAreAlone'
  BY <1>before, <1>after, <1>6
  DEF LoginsAreAlone, LoggingIn, CallsAreWellFormed, WellFormed, ReferencesAreKept
<1>10. TicketLockHolds'
  BY <1>before, <1>after, <1>6
  DEF TicketLockHolds, HoldsTickets, LoginsAreAlone, LoggingIn, CallsAreWellFormed, WellFormed,
      ReferencesAreKept
<1>11. OwnLockHolds'
  BY <1>before, <1>after, <1>6
  DEF OwnLockHolds, LoginsAreAlone, LoggingIn, CallsAreWellFormed, WellFormed, ReferencesAreKept
<1>12. TheRestAgree'  BY <1>before, <1>after, <1>6 DEF TheRestAgree, UnderWay
<1>13. TheirsIsOpen'
  BY <1>before, <1>after, <1>6
  DEF TheirsIsOpen, Fits, TheRestAgree, UnderWay, CallsAreWellFormed, WellFormed, ReferencesAreKept,
      LoginsAreAlone, LoggingIn
<1>14. OpenWhileInUse'
  BY <1>before, <1>after, <1>6
  DEF OpenWhileInUse, TheRestAgree, UnderWay, CallsAreWellFormed, WellFormed, ReferencesAreKept,
      TheirsIsOpen, Fits, LoginsAreAlone, LoggingIn
<1>15. OpenAreKnown'
  BY <1>before, <1>after, <1>6
  DEF OpenAreKnown, LoggingIn, CallsAreWellFormed, WellFormed, LoginsAreAlone, ReferencesAreKept,
      TicketLockHolds, HoldsTickets, OwnLockHolds
<1> QED BY <1>5, <1>7, <1>8, <1>9, <1>10, <1>11, <1>12, <1>13, <1>14, <1>15

LEMMA TimeKeeps ==
  ASSUME PoolInv, HalfDay \/ SweepLists
  PROVE  PoolInv'
<1>0. PoolTypeOK  BY DEF PoolInv
<1>before. PoolTypeFacts /\ NoClient \notin ClientNames  BY <1>0, PoolTypesAsFacts
<1> USE DEF PoolInv
<1>1. /\ (boundTicket' = boundTicket /\ poolClient' = poolClient /\ pooled' = pooled
           /\ poolLock' = poolLock /\ poolCall' = poolCall)
      /\ lastUsed' \in {"none", "recent", "old"} /\ sweep' \in BOOLEAN
      /\ \A c \in PoolCalls : poolCall[c].pc = "idle"
  BY DEF HalfDay, SweepLists, PoolTypeOK, TheRestAgree, UnderWay
<1>2. PoolTypeOK'  BY <1>0, <1>1 DEF PoolTypeOK, PoolIdentity
<1>after. PoolTypeFacts'  BY <1>2, PoolTypesAsFactsNext
<1> USE DEF PoolTypeFacts
<1>3. CallsAreWellFormed'  BY <1>before, <1>after, <1>1 DEF CallsAreWellFormed, WellFormed
<1>4. ReferencesAreKept'
  BY <1>before, <1>after, <1>1
  DEF ReferencesAreKept, CallsAreWellFormed, WellFormed, LoginsAreAlone, LoggingIn, Fits
<1>5. LoginsAreAlone'
  BY <1>before, <1>after, <1>1
  DEF LoginsAreAlone, LoggingIn, CallsAreWellFormed, WellFormed, ReferencesAreKept
<1>6. TicketLockHolds'
  BY <1>before, <1>after, <1>1
  DEF TicketLockHolds, HoldsTickets, LoginsAreAlone, LoggingIn, CallsAreWellFormed, WellFormed,
      ReferencesAreKept
<1>7. OwnLockHolds'
  BY <1>before, <1>after, <1>1
  DEF OwnLockHolds, LoginsAreAlone, LoggingIn, CallsAreWellFormed, WellFormed, ReferencesAreKept
<1>8. TheRestAgree'  BY <1>before, <1>after, <1>1 DEF TheRestAgree, UnderWay
<1>9. TheirsIsOpen'
  BY <1>before, <1>after, <1>1
  DEF TheirsIsOpen, Fits, TheRestAgree, UnderWay, CallsAreWellFormed, WellFormed, ReferencesAreKept,
      LoginsAreAlone, LoggingIn
<1>10. OpenWhileInUse'
  BY <1>before, <1>after, <1>1
  DEF OpenWhileInUse, TheRestAgree, UnderWay, CallsAreWellFormed, WellFormed, ReferencesAreKept,
      TheirsIsOpen, Fits, LoginsAreAlone, LoggingIn
<1>11. OpenAreKnown'
  BY <1>before, <1>after, <1>1
  DEF OpenAreKnown, LoggingIn, CallsAreWellFormed, WellFormed, LoginsAreAlone, ReferencesAreKept,
      TicketLockHolds, HoldsTickets, OwnLockHolds
<1> QED BY <1>2, <1>3, <1>4, <1>5, <1>6, <1>7, <1>8, <1>9, <1>10, <1>11

LEMMA SweepDropsKeeps ==
  ASSUME PoolInv, SweepDrops
  PROVE  PoolInv'
<1>0. PoolTypeOK  BY DEF PoolInv
<1>before. PoolTypeFacts /\ NoClient \notin ClientNames  BY <1>0, PoolTypesAsFacts
<1> USE DEF PoolInv
<1> DEFINE clients == Closed(pooled["own"])
           pools == [pooled EXCEPT !["own"] = NoClient]
<1>1. sweep /\ sweep' = FALSE /\ lastUsed' = "none" /\ poolLock' = NoLock
        /\ boundTicket' = boundTicket
      /\ Becomes(clients, pools, poolCall)
  BY DEF SweepDrops
<1>2. /\ poolCall \in [PoolCalls -> PoolCall]
      /\ clients \in ClientTable
      /\ pools \in [{"own", "ticket"} -> {NoClient} \cup ClientNames]
      /\ pools["ticket"] = pooled["ticket"] /\ pools["own"] = NoClient
      /\ \A m \in ClientNames : /\ clients[m].as = poolClient[m].as
                                /\ m # pooled["own"] => clients[m] = poolClient[m]
                                /\ m = pooled["own"] => clients[m].state = "closed"
  BY <1>0, ClosedFacts DEF PoolTypeOK
<1> HIDE DEF clients, pools
<1>3. /\ poolClient' \in ClientTable
      /\ pooled' = pools /\ poolCall' = poolCall
      /\ \A n \in ClientNames :
              /\ n \in {pooled'["own"], pooled'["ticket"]} =>
                   poolClient'[n].state = clients[n].state /\ poolClient'[n].as = clients[n].as
              /\ \A d \in PoolCalls : poolCall'[d].client = n =>
                   poolClient'[n].state = clients[n].state /\ poolClient'[n].as = clients[n].as
              /\ poolClient'[n].state = "open" => clients[n].state = "open"
  BY <1>1, <1>2, BecomesFacts
<1>4. PoolTypeOK'  BY <1>0, <1>1, <1>2, <1>3 DEF PoolTypeOK, PoolIdentity
<1>after. PoolTypeFacts'  BY <1>4, PoolTypesAsFactsNext
<1> USE DEF PoolTypeFacts
<1>5. /\ boundTicket' = boundTicket /\ poolLock' = NoLock /\ lastUsed' = "none" /\ sweep /\ ~sweep'
      /\ poolCall' = poolCall
      /\ pooled'["own"] = NoClient /\ pooled'["ticket"] = pooled["ticket"]
      /\ \A n \in ClientNames : poolClient'[n].state = "open" => n # pooled["own"]
      /\ \A n \in ClientNames : poolClient'[n].state = "open" => poolClient[n].state = "open"
      /\ pooled'["own"] # NoClient =>
           (poolClient'[pooled'["own"]].as = poolClient[pooled'["own"]].as
             /\ (poolClient'[pooled'["own"]].state = IF pooled'["own"] =
                  pooled["own"] THEN "closed" ELSE poolClient[pooled'["own"]].state))
      /\ pooled'["ticket"] # NoClient =>
           (poolClient'[pooled'["ticket"]].as = poolClient[pooled'["ticket"]].as
             /\ (poolClient'[pooled'["ticket"]].state = IF pooled'["ticket"] =
                  pooled["own"] THEN "closed" ELSE poolClient[pooled'["ticket"]].state))
      /\ \A d \in PoolCalls : poolCall'[d].client # NoClient =>
           (poolClient'[poolCall'[d].client].as = poolClient[poolCall'[d].client].as
             /\ (poolClient'[poolCall'[d].client].state = IF poolCall'[d].client =
                  pooled["own"] THEN "closed" ELSE poolClient[poolCall'[d].client].state))
  BY <1>before, <1>after, <1>1, <1>2, <1>3
<1>6. CallsAreWellFormed'  BY <1>before, <1>after, <1>5 DEF CallsAreWellFormed, WellFormed
<1>7. ReferencesAreKept'
  BY <1>before, <1>after, <1>5
  DEF ReferencesAreKept, CallsAreWellFormed, WellFormed, LoginsAreAlone, LoggingIn, Fits
<1>8. LoginsAreAlone'
  BY <1>before, <1>after, <1>5
  DEF LoginsAreAlone, LoggingIn, CallsAreWellFormed, WellFormed, ReferencesAreKept
<1>9. TicketLockHolds'
  BY <1>before, <1>after, <1>5
  DEF TicketLockHolds, HoldsTickets, LoginsAreAlone, LoggingIn, CallsAreWellFormed, WellFormed,
      ReferencesAreKept
<1>10. OwnLockHolds'
  BY <1>before, <1>after, <1>5
  DEF OwnLockHolds, LoginsAreAlone, LoggingIn, CallsAreWellFormed, WellFormed, ReferencesAreKept
<1>11. TheRestAgree'  BY <1>before, <1>after, <1>5 DEF TheRestAgree, UnderWay
<1>12. TheirsIsOpen'
  BY <1>before, <1>after, <1>5
  DEF TheirsIsOpen, Fits, TheRestAgree, UnderWay, CallsAreWellFormed, WellFormed, ReferencesAreKept,
      LoginsAreAlone, LoggingIn
<1>13. OpenWhileInUse'
  BY <1>before, <1>after, <1>5
  DEF OpenWhileInUse, TheRestAgree, UnderWay, CallsAreWellFormed, WellFormed, ReferencesAreKept,
      TheirsIsOpen, Fits, LoginsAreAlone, LoggingIn
<1>14. OpenAreKnown'
  BY <1>before, <1>after, <1>5
  DEF OpenAreKnown, LoggingIn, CallsAreWellFormed, WellFormed, LoginsAreAlone, ReferencesAreKept,
      TicketLockHolds, HoldsTickets, OwnLockHolds
<1> QED BY <1>4, <1>6, <1>7, <1>8, <1>9, <1>10, <1>11, <1>12, <1>13, <1>14

LEMMA PoolStep == PoolInv /\ [PoolNext]_poolVars => PoolInv'
<1> SUFFICES ASSUME PoolInv, [PoolNext]_poolVars PROVE PoolInv'  OBVIOUS
<1>1. PoolTypeFacts /\ PoolTypeOK  BY PoolTypesAsFacts DEF PoolInv
<1>2. ASSUME NEW c \in PoolCalls, EnterOwn(c) PROVE PoolInv'
  <2>1. CASE pooled["own"] # NoClient
    <3>1. pooled["own"] \in ClientNames  BY <1>1, <2>1 DEF PoolTypeFacts
    <3> QED BY <1>2, <2>1, <3>1, CallsPooledKeeps DEF EnterOwn
  <2>2. CASE pooled["own"] = NoClient  BY <1>2, <2>2, CreatesKeeps DEF EnterOwn
  <2> QED BY <2>1, <2>2
<1>3. ASSUME NEW c \in PoolCalls, EnterTicket(c) PROVE PoolInv'
  <2>1. CASE Fits(poolCall[c].as)
    <3>1. pooled["ticket"] \in ClientNames  BY <1>1, <2>1 DEF PoolTypeFacts, Fits
    <3>2. Becomes(poolClient, pooled, CallsOver(c, pooled["ticket"]))
      BY <1>3, <2>1
      DEF EnterTicket, Fits
    <3> QED BY <1>3, <2>1, <3>1, <3>2, CallsPooledKeeps DEF EnterTicket
  <2>2. CASE ~Fits(poolCall[c].as) /\ pooled["ticket"] # NoClient
    BY <1>3, <2>2, ClosesOtherTicketKeeps DEF EnterTicket
  <2>3. CASE pooled["ticket"] = NoClient
    <3>1. ~Fits(poolCall[c].as)  BY <2>3 DEF Fits
    <3> QED BY <1>3, <2>3, <3>1, CreatesKeeps DEF EnterTicket
  <2> QED BY <2>1, <2>2, <2>3
<1>4. ASSUME NEW c \in PoolCalls, OldTicketClosed(c) PROVE PoolInv'
  BY <1>4, CreatesKeeps DEF OldTicketClosed
<1>5. ASSUME NEW c \in PoolCalls, LoggedIn(c) PROVE PoolInv'
  <2> DEFINE mine == poolCall[c].client
             swept == poolCall[c].lock \notin {NoLock, poolLock}
  <2>1. mine \in ClientNames /\ (poolCall[c].pc = "loginOwn" => poolCall[c].lock # NoLock)
        /\ (poolCall[c].pc = "loginTicket" => poolCall[c].lock = NoLock)
    BY <1>1, <1>5 DEF LoggedIn, PoolInv, PoolTypeFacts, CallsAreWellFormed, WellFormed
  <2>2. CASE poolCall[c].pc = "loginOwn" /\ swept
    <3>1. /\ Becomes([n \in ClientNames |-> IF n \in {pooled["own"],
               mine} THEN [poolClient[n] EXCEPT !.state = "lost"] ELSE poolClient[n]],
                     [pooled EXCEPT !["own"] = mine], CallsOver(c, mine))
          /\ boundTicket' = boundTicket /\ poolLock' = poolLock /\ lastUsed' = lastUsed
               /\ sweep' = sweep
      BY <1>5, <2>2 DEF LoggedIn
    <3> QED BY <2>1, <2>2, <3>1, LoggedInSweptKeeps
  <2>3. CASE ~swept
    <3>1. poolClient = [n \in ClientNames |-> poolClient[n]]  BY <1>1 DEF PoolTypeOK
    <3>2. [n \in ClientNames |-> IF swept /\ n \in {pooled["own"], mine}
                                 THEN [poolClient[n] EXCEPT !.state = "lost"]
                                   ELSE poolClient[n]] = poolClient
      BY <2>3, <3>1
    <3>3. boundTicket' = boundTicket /\ poolLock' = poolLock /\ lastUsed' = lastUsed
            /\ sweep' = sweep
      BY <1>5 DEF LoggedIn
    <3>4. CASE poolCall[c].pc = "loginOwn"
      <4>1. Becomes(poolClient, [pooled EXCEPT !["own"] = mine], CallsOver(c, mine))
        BY <1>5, <3>2, <3>4 DEF LoggedIn
      <4>2. poolCall[c].lock = poolLock  BY <2>1, <2>3, <3>4
      <4> QED BY <2>1, <3>3, <3>4, <4>1, <4>2, LoggedInOwnKeeps
    <3>5. CASE poolCall[c].pc = "loginTicket"
      <4>1. Becomes(poolClient, [pooled EXCEPT !["ticket"] = mine], CallsOver(c, mine))
        BY <1>5, <3>2, <3>5 DEF LoggedIn
      <4> QED BY <2>1, <3>3, <3>5, <4>1, LoggedInTicketKeeps
    <3> QED BY <1>5, <3>4, <3>5 DEF LoggedIn
  <2>4. CASE poolCall[c].pc = "loginTicket" /\ swept  BY <2>1, <2>4
  <2> QED BY <1>5, <2>2, <2>3, <2>4 DEF LoggedIn
<1>6. CASE UNCHANGED poolVars
  BY <1>6 DEF poolVars, PoolInv, PoolTypeOK, CallsAreWellFormed, WellFormed, ReferencesAreKept,
    LoginsAreAlone, LoggingIn, TicketLockHolds, HoldsTickets, OwnLockHolds, TheRestAgree, UnderWay,
    TheirsIsOpen, Fits, OpenWhileInUse, OpenAreKnown
<1> QED
  BY <1>2, <1>3, <1>4, <1>5, <1>6, PoolLookUpKeeps, LoginFailsKeeps, PoolCallEndsKeeps,
     BindTicketKeeps,
     UnbindKeeps, TimeKeeps, SweepDropsKeeps DEF PoolNext

\* The pool's clients at every moment: types.
THEOREM PoolTypes == PoolSpec => []PoolTypeOK
<1>1. PoolInv => PoolTypeOK  BY DEF PoolInv
<1> QED BY <1>1, PoolBegins, PoolStep, PTL DEF PoolSpec

\* A client of the pool acts as what it was made for, is open while a call holds it, and none is left
\* open outside the pool (session_pool.py), whatever calls, expiries and sign-outs interleave.
THEOREM PoolKeepsItsWord == PoolSpec => []PoolSound
<1>1. PoolInv => PoolSound
  <2> SUFFICES ASSUME PoolInv PROVE PoolSound  OBVIOUS
  <2>1. PoolTypeFacts /\ NoClient \notin ClientNames  BY PoolTypesAsFacts DEF PoolInv
  <2>2. ActsAsBound
    BY <2>1
    DEF ActsAsBound, PoolInv, CallsAreWellFormed, WellFormed, ReferencesAreKept, PoolTypeFacts
  <2>3. NoneLeftBehind
    BY <2>1 DEF NoneLeftBehind, PoolInv, OpenAreKnown, LoggingIn, ReferencesAreKept, PoolTypeFacts
  <2> QED BY <2>2, <2>3 DEF PoolSound, PoolInv
<1> QED BY <1>1, PoolBegins, PoolStep, PTL DEF PoolSpec

HIDE DEF ClientTable

-----------------------------------------------------------------------------
(***************************************************************************)
(* The client of the shop's API (ApiClient).                               *)
(***************************************************************************)
USE ClientAssumption

Bodies == {"tokenBody", "loggedInBody"}
ClientCall ==
  [pc : {"idle", "token", "tokenBody", "sent", "done", "refused", "forbidden",
         "login", "register", "newSession", "loggedIn", "loggedInBody"},
   method : {"ensure", "read"} \cup Writes, retriesLeft : 0 .. MaxRetries,
   session : NoVersion .. MaxExpiries, cookie : {NoToken} \cup CsrfTokens,
   header : {NoToken} \cup CsrfTokens, fetched : {NoToken} \cup CsrfTokens,
   crossed : BOOLEAN, applied : Nat, expiries : 0 .. MaxExpiries]

\* A request: the backend has done it only if it says so, and no session in it is of the future.
Stands(c) ==
  /\ apiCall[c].pc = "idle" => apiCall[c] = IdleRequest
  /\ apiCall[c].applied = IF apiCall[c].pc = "done" THEN 1 ELSE 0
  /\ apiCall[c].session <= sessionNow /\ apiCall[c].expiries <= sessionNow
  /\ apiCall[c].pc \in Bodies => apiCall[c].fetched \in CsrfTokens

RequestsStand == \A c \in ApiCalls : Stands(c)

\* What a request was sent with, or is about to take, is of one fetch.
SentWithPair(c) ==
  /\ apiCall[c].pc \in Bodies => pairAtRisk \/ jar.csrf = apiCall[c].fetched
  /\ apiCall[c].pc = "sent" /\ apiCall[c].method \in Writes =>
       apiCall[c].crossed \/ (apiCall[c].cookie = apiCall[c].header /\ apiCall[c].cookie # NoToken)
  /\ apiCall[c].pc = "forbidden" => apiCall[c].crossed

\* The client's token and the cookie are of one fetch, unless the pair is at risk.
PairOrFetch ==
  pairAtRisk \/ csrfToken = NoToken \/ (\E d \in ApiCalls :
    apiCall[d].pc \in Bodies) \/ jar.csrf = csrfToken

PairHolds ==
  /\ \A c, d \in ApiCalls : c \in Fetching /\ d \in Fetching => c = d \/ pairAtRisk
  /\ PairOrFetch
  /\ \A c \in ApiCalls : SentWithPair(c)

\* Each retry stands for a session that has ended since the request began.
HasItsExpiries(c) ==
  LET call == apiCall[c]
      retried == MaxRetries - call.retriesLeft
  IN
  /\ call.pc \in {"token", "tokenBody"} => call.retriesLeft = MaxRetries
  /\ call.pc \in {"login", "register"} => call.expiries >= retried - 1
  /\ call.pc \in {"newSession", "loggedIn", "loggedInBody"} \/ (call.pc = "sent"
       /\ call.retriesLeft < MaxRetries) =>
       call.expiries >= retried - 1 + sessionNow - call.session
  /\ call.pc \in {"loggedIn", "loggedInBody"} => jar.session >= call.session
  /\ call.pc = "refused" => call.expiries >= retried

RetriesHaveExpiries == sessionWentBack \/ \A c \in ApiCalls : HasItsExpiries(c)

ClientInv ==
  /\ ClientTypeOK /\ jar.session <= sessionNow
  /\ RequestsStand /\ PairHolds /\ RetriesHaveExpiries

-----------------------------------------------------------------------------
Fields(call) ==
  /\ call.pc \in {"idle", "token", "tokenBody", "sent", "done", "refused", "forbidden",
                  "login", "register", "newSession", "loggedIn", "loggedInBody"}
  /\ call.retriesLeft \in 0 .. MaxRetries /\ call.session \in NoVersion .. MaxExpiries
  /\ call.cookie \in {NoToken} \cup CsrfTokens /\ call.header \in {NoToken} \cup CsrfTokens
  /\ call.fetched \in {NoToken} \cup CsrfTokens /\ call.crossed \in BOOLEAN
  /\ call.expiries \in 0 .. MaxExpiries

LEMMA CallFields ==
  ASSUME NEW call \in ClientCall
  PROVE  Fields(call)
BY DEF ClientCall, Fields

LEMMA IdleFields ==
  /\ IdleRequest \in ClientCall /\ IdleRequest.pc = "idle" /\ IdleRequest.retriesLeft = MaxRetries
  /\ IdleRequest.session = NoVersion /\ IdleRequest.applied = 0 /\ IdleRequest.expiries = 0
  /\ IdleRequest.fetched = NoToken /\ IdleRequest.crossed = FALSE
BY DEF IdleRequest, ClientCall, NoVersion, NoToken, Writes

\* What GoOn makes of a request.
LEMMA GoOnFields ==
  ASSUME ClientTypeOK, NEW c \in ApiCalls, NEW call \in ClientCall,
         NEW token \in {NoToken} \cup CsrfTokens
  PROVE  /\ GoOn(c, call, token) \in ClientCall
         /\ GoOn(c, call, token).method = call.method
         /\ GoOn(c, call, token).retriesLeft = call.retriesLeft
         /\ GoOn(c, call, token).applied = call.applied
         /\ GoOn(c, call, token).expiries = call.expiries
         /\ call.method \in Writes /\ token = NoToken =>
              GoOn(c, call, token).pc = "token" /\ GoOn(c, call, token).session = call.session
         /\ ~(call.method \in Writes /\ token = NoToken) =>
              /\ GoOn(c, call, token).pc = "sent"
              /\ GoOn(c, call, token).session = jar.session
              /\ GoOn(c, call, token).cookie = jar.csrf
              /\ call.method \in Writes => GoOn(c, call, token).header = token
              /\ GoOn(c, call, token).crossed = (pairAtRisk \/ Fetching \ {c} # {})
<1>1. jar.session \in NoVersion .. MaxExpiries /\ jar.csrf \in {NoToken} \cup CsrfTokens
      /\ pairAtRisk \in BOOLEAN
  BY DEF ClientTypeOK
<1>2. (pairAtRisk \/ Fetching \ {c} # {}) \in BOOLEAN  OBVIOUS
<1> QED BY <1>1, <1>2 DEF GoOn, ClientCall

LEMMA TypesAsFields ==
  ASSUME ClientTypeOK
  PROVE  /\ delegated \in BOOLEAN /\ account \in BOOLEAN /\ sessionNow \in 0 .. MaxExpiries
         /\ jar.session \in NoVersion .. MaxExpiries /\ jar.csrf \in {NoToken} \cup CsrfTokens
         /\ csrfToken \in {NoToken} \cup CsrfTokens
         /\ pairAtRisk \in BOOLEAN /\ sessionWentBack \in BOOLEAN
         /\ \A c \in ApiCalls : apiCall[c] \in ClientCall /\ Fields(apiCall[c])
<1>1. \A c \in ApiCalls : apiCall[c] \in ClientCall  BY DEF ClientTypeOK, ClientCall
<1> QED BY <1>1, CallFields DEF ClientTypeOK

\* A step of one request: what the parts of the invariant ask of it.
JarTypes == jar \in [session : NoVersion .. MaxExpiries, csrf : {NoToken} \cup CsrfTokens]
OneSteps(c, call) ==
  /\ call \in ClientCall /\ apiCall' = [apiCall EXCEPT ![c] = call]
  /\ delegated' = delegated /\ account' \in BOOLEAN /\ sessionNow' = sessionNow
  /\ JarTypes' /\ jar'.session <= sessionNow
  /\ csrfToken' \in {NoToken} \cup CsrfTokens /\ pairAtRisk' \in BOOLEAN
       /\ sessionWentBack' \in BOOLEAN
  /\ sessionWentBack => sessionWentBack'
  /\ Stands(c)' /\ SentWithPair(c)' /\ (sessionWentBack' \/ HasItsExpiries(c)')
  /\ PairOrFetch'
  /\ \A d \in ApiCalls : d # c =>
       \/ pairAtRisk' \/ d \notin Fetching
       \/ (call.pc \notin {"token", "tokenBody", "loggedIn", "loggedInBody"}
            /\ jar'.csrf = jar.csrf /\ ~pairAtRisk)
  /\ sessionWentBack' \/ jar'.session >= jar.session

LEMMA StepOfOne ==
  ASSUME ClientInv, NEW c \in ApiCalls, NEW call, OneSteps(c, call)
  PROVE  ClientInv'
<1> USE DEF OneSteps, JarTypes, PairOrFetch
<1>1. /\ apiCall' \in [ApiCalls -> ClientCall] /\ apiCall'[c] = call
      /\ \A d \in ApiCalls : d # c => apiCall'[d] = apiCall[d]
  BY TypesAsFields DEF ClientInv, ClientTypeOK
<1>2. ClientTypeOK'  BY <1>1 DEF ClientTypeOK, ClientCall, ClientInv
<1>3. RequestsStand'
  <2>1. \A d \in ApiCalls : d # c => Stands(d)'  BY <1>1 DEF ClientInv, RequestsStand, Stands
  <2> QED BY <2>1 DEF RequestsStand
<1>4. PairHolds'
  <2>1. \A d \in ApiCalls : d # c => SentWithPair(d)'
    BY <1>1 DEF ClientInv, PairHolds, SentWithPair, Fetching, Bodies
  <2>2. \A d, e \in ApiCalls : d \in Fetching' /\ e \in Fetching' => d = e \/ pairAtRisk'
    <3> SUFFICES ASSUME NEW d \in ApiCalls, NEW e \in ApiCalls, d \in Fetching', e \in Fetching',
          d # e, ~pairAtRisk'
                 PROVE  FALSE
      OBVIOUS
    <3>1. CASE d = c  BY <1>1, <3>1 DEF Fetching
    <3>2. CASE e = c  BY <1>1, <3>2 DEF Fetching
    <3>3. CASE d # c /\ e # c  BY <1>1, <3>3 DEF Fetching, ClientInv, PairHolds
    <3> QED BY <3>1, <3>2, <3>3
  <2> QED BY <2>1, <2>2 DEF PairHolds
<1>5. RetriesHaveExpiries'
  <2>1. SUFFICES ASSUME ~sessionWentBack' PROVE \A d \in ApiCalls : HasItsExpiries(d)'
    BY DEF RetriesHaveExpiries
  <2>2. SUFFICES ASSUME NEW d \in ApiCalls, d # c PROVE HasItsExpiries(d)'
    BY <2>1
  <2>3. HasItsExpiries(d) /\ jar'.session >= jar.session  BY <2>1 DEF ClientInv, RetriesHaveExpiries
  <2>4. apiCall[d].session \in Int /\ jar.session \in Int /\ jar'.session \in Int
    BY TypesAsFields DEF ClientInv, Fields, NoVersion
  <2> QED BY <1>1, <2>2, <2>3, <2>4 DEF HasItsExpiries
<1>6. jar'.session <= sessionNow'  OBVIOUS
<1> QED BY <1>2, <1>3, <1>4, <1>5, <1>6 DEF ClientInv
LEMMA RequestKeeps ==
  ASSUME ClientInv, NEW c \in ApiCalls, NEW method \in {"read"} \cup Writes, Request(c, method)
  PROVE  ClientInv'
<1> DEFINE asked == [IdleRequest EXCEPT !.method = method]
           call == GoOn(c, asked, csrfToken)
<1>1. asked \in ClientCall /\ asked.method = method /\ asked.retriesLeft = MaxRetries
      /\ asked.applied = 0 /\ asked.expiries = 0 /\ asked.session = NoVersion
  BY IdleFields DEF IdleRequest, ClientCall
<1>2. /\ apiCall[c] = IdleRequest /\ apiCall' = [apiCall EXCEPT ![c] = call]
      /\ pairAtRisk' = (pairAtRisk \/ (call.pc \in {"token", "loggedIn"} /\ Fetching \ {c} # {}))
      /\ delegated' = delegated /\ account' = account /\ sessionNow' = sessionNow /\ jar' = jar
      /\ csrfToken' = csrfToken /\ sessionWentBack' = sessionWentBack
  BY DEF Request, TurnsTo
<1>3. ClientTypeOK /\ jar.session <= sessionNow  BY DEF ClientInv
<1> HIDE DEF asked
<1>4. /\ call \in ClientCall /\ call.method = method /\ call.retriesLeft = MaxRetries
      /\ call.applied = 0 /\ call.expiries = 0
      /\ method \in Writes /\ csrfToken = NoToken => call.pc = "token" /\ call.session = NoVersion
      /\ ~(method \in Writes /\ csrfToken = NoToken) =>
           /\ call.pc = "sent" /\ call.session = jar.session /\ call.cookie = jar.csrf
           /\ method \in Writes => call.header = csrfToken
           /\ call.crossed = (pairAtRisk \/ Fetching \ {c} # {})
  BY <1>1, <1>3, GoOnFields, TypesAsFields
<1> HIDE DEF call
<1>5. apiCall'[c] = call  BY <1>2, <1>3, TypesAsFields DEF ClientTypeOK
<1>6. Stands(c)'
  BY <1>2, <1>3, <1>4, <1>5, TypesAsFields DEF Stands, Bodies, NoVersion
<1>7. c \notin Fetching /\ apiCall[c].pc \notin Bodies  BY <1>2, IdleFields DEF Fetching, Bodies
<1>8. (\E d \in ApiCalls : apiCall[d].pc \in Bodies) => Fetching \ {c} # {}
  BY <1>7 DEF Fetching, Bodies
<1>9. SentWithPair(c)'
  BY <1>2, <1>4, <1>5, <1>8 DEF SentWithPair, Bodies, ClientInv, PairHolds, PairOrFetch
<1>10. HasItsExpiries(c)'
  BY <1>2, <1>3, <1>4, <1>5, TypesAsFields DEF HasItsExpiries, NoVersion
<1>11. (\E d \in ApiCalls : apiCall[d].pc \in Bodies) =>
         \E d \in ApiCalls : apiCall'[d].pc \in Bodies
  BY <1>2, <1>7
<1>12. PairOrFetch'
  BY <1>2, <1>11 DEF ClientInv, PairHolds, PairOrFetch
<1>13. \A d \in ApiCalls : d # c => pairAtRisk' \/ d \notin Fetching
                                      \/ (call.pc \notin {"token", "tokenBody", "loggedIn",
                                           "loggedInBody"}
                                          /\ jar'.csrf = jar.csrf /\ ~pairAtRisk)
  BY <1>2, <1>4
<1>14. JarTypes'  BY <1>2, <1>3 DEF ClientTypeOK, JarTypes
<1>15. OneSteps(c, call)
  BY <1>2, <1>3, <1>4, <1>6, <1>9, <1>10, <1>12, <1>13, <1>14, TypesAsFields DEF OneSteps, NoVersion
<1> QED BY <1>15, StepOfOne

LEMMA TokenHeadersKeeps ==
  ASSUME ClientInv, NEW c \in ApiCalls, TokenHeaders(c)
  PROVE  ClientInv'
<1>1. PICK token \in CsrfTokens :
        /\ jar' = [jar EXCEPT !.csrf = token]
        /\ apiCall' = [apiCall EXCEPT ![c].fetched = token,
             ![c].pc = IF @ = "token" THEN "tokenBody" ELSE "loggedInBody"]
  BY DEF TokenHeaders
<1>2. /\ apiCall[c].pc \in {"token", "loggedIn"}
      /\ delegated' = delegated /\ account' = account /\ sessionNow' = sessionNow
      /\ csrfToken' = csrfToken /\ pairAtRisk' = pairAtRisk /\ sessionWentBack' = sessionWentBack
  BY DEF TokenHeaders
<1> DEFINE call == [apiCall[c] EXCEPT !.fetched = token,
                      !.pc = IF apiCall[c].pc = "token" THEN "tokenBody" ELSE "loggedInBody"]
<1>3. ClientTypeOK /\ jar.session <= sessionNow  BY DEF ClientInv
<1>4. apiCall' = [apiCall EXCEPT ![c] = call]  BY <1>1, <1>3 DEF ClientTypeOK
<1>5. /\ call \in ClientCall /\ call.fetched = token
      /\ call.pc = IF apiCall[c].pc = "token" THEN "tokenBody" ELSE "loggedInBody"
      /\ call.retriesLeft = apiCall[c].retriesLeft /\ call.session = apiCall[c].session
      /\ call.applied = apiCall[c].applied /\ call.expiries = apiCall[c].expiries
  BY <1>3, TypesAsFields DEF ClientCall
<1>6. /\ jar' \in [session : NoVersion .. MaxExpiries, csrf : {NoToken} \cup CsrfTokens]
      /\ jar'.csrf = token /\ jar'.session = jar.session
  BY <1>1, <1>3 DEF ClientTypeOK
<1> HIDE DEF call
<1>7. apiCall'[c] = call  BY <1>3, <1>4 DEF ClientTypeOK
<1>8. Stands(c)'
  BY <1>2, <1>5, <1>7 DEF Stands, Bodies, ClientInv, RequestsStand
<1>9. SentWithPair(c)'
  BY <1>2, <1>5, <1>6, <1>7 DEF SentWithPair, Bodies
<1>10. sessionWentBack' \/ HasItsExpiries(c)'
  BY <1>2, <1>5, <1>6, <1>7 DEF HasItsExpiries, ClientInv, RetriesHaveExpiries
<1>11. \E d \in ApiCalls : apiCall'[d].pc \in Bodies  BY <1>2, <1>5, <1>7 DEF Bodies
<1>12. \A d \in ApiCalls : d # c => pairAtRisk' \/ d \notin Fetching
  BY <1>2 DEF ClientInv, PairHolds, Fetching
<1>13. PairOrFetch' /\ JarTypes'  BY <1>6, <1>11 DEF PairOrFetch, JarTypes
<1>14. OneSteps(c, call)
  BY <1>2, <1>3, <1>4, <1>5, <1>6, <1>8, <1>9, <1>10, <1>12, <1>13, TypesAsFields
  DEF OneSteps, NoVersion
<1> QED BY <1>14, StepOfOne

LEMMA TokenBodyKeeps ==
  ASSUME ClientInv, NEW c \in ApiCalls, TokenBody(c)
  PROVE  ClientInv'
<1> DEFINE token == apiCall[c].fetched
           read == [apiCall[c] EXCEPT !.fetched = NoToken]
           call == IF read.method = "ensure" THEN IdleRequest ELSE GoOn(c, read, token)
<1>1. ClientTypeOK /\ jar.session <= sessionNow /\ apiCall[c] \in ClientCall /\ Fields(apiCall[c])
  BY TypesAsFields DEF ClientInv
<1>2. /\ read \in ClientCall /\ read.pc = apiCall[c].pc /\ read.method = apiCall[c].method
      /\ read.retriesLeft = apiCall[c].retriesLeft /\ read.session = apiCall[c].session
      /\ read.applied = apiCall[c].applied /\ read.expiries = apiCall[c].expiries
  BY <1>1 DEF ClientCall
<1>3. /\ apiCall[c].pc \in Bodies /\ csrfToken' = token /\ apiCall' = [apiCall EXCEPT ![c] = call]
      /\ pairAtRisk' = (Fetching \ {c} # {} \/ (pairAtRisk /\ jar.csrf # token))
      /\ delegated' = delegated /\ account' = account /\ sessionNow' = sessionNow /\ jar' = jar
      /\ sessionWentBack' = sessionWentBack
  BY <1>2 DEF TokenBody, Bodies
<1>4. token \in CsrfTokens /\ token # NoToken
  BY <1>3 DEF ClientInv, RequestsStand, Stands, CsrfTokens, NoToken
<1> HIDE DEF read, token
<1>5. /\ call \in ClientCall
      /\ apiCall[c].method = "ensure" => call = IdleRequest
      /\ apiCall[c].method # "ensure" =>
           /\ call.method = apiCall[c].method /\ call.retriesLeft = apiCall[c].retriesLeft
           /\ call.applied = apiCall[c].applied /\ call.expiries = apiCall[c].expiries
           /\ call.pc = "sent" /\ call.session = jar.session /\ call.cookie = jar.csrf
           /\ apiCall[c].method \in Writes => call.header = token
           /\ call.crossed = (pairAtRisk \/ Fetching \ {c} # {})
  BY <1>1, <1>2, <1>4, GoOnFields, IdleFields
<1> HIDE DEF call
<1>6. apiCall'[c] = call  BY <1>1, <1>3 DEF ClientTypeOK
<1>7. Stands(c)'
  BY <1>1, <1>3, <1>5, <1>6, IdleFields
  DEF Stands, Bodies, ClientInv, RequestsStand, Fields, NoVersion, ClientTypeOK
<1>8. pairAtRisk \/ jar.csrf = token  BY <1>3 DEF ClientInv, PairHolds, SentWithPair, token
<1>9. SentWithPair(c)'
  BY <1>3, <1>4, <1>5, <1>6, <1>8, IdleFields DEF SentWithPair, Bodies
<1>10. sessionWentBack' \/ HasItsExpiries(c)'
  <2>1. SUFFICES ASSUME ~sessionWentBack PROVE HasItsExpiries(c)'  BY <1>3
  <2>2. HasItsExpiries(c)  BY <2>1 DEF ClientInv, RetriesHaveExpiries
  <2>3. CASE apiCall[c].method = "ensure"  BY <1>5, <1>6, <2>3, IdleFields DEF HasItsExpiries
  <2>4. CASE apiCall[c].method # "ensure"
    <3>1. jar.session \in Int /\ apiCall[c].session \in Int /\ sessionNow \in Int
      BY <1>1, TypesAsFields DEF Fields, NoVersion
    <3>2. jar.session >= apiCall[c].session \/ apiCall[c].retriesLeft = MaxRetries
      BY <1>3, <2>2 DEF HasItsExpiries, Bodies
    <3> QED BY <1>1, <1>3, <1>5, <1>6, <2>2, <2>4, <3>1, <3>2 DEF HasItsExpiries, Bodies, Fields
  <2> QED BY <2>3, <2>4
<1>11. pairAtRisk' \/ jar'.csrf = csrfToken'  BY <1>3, <1>8
<1>12. \A d \in ApiCalls : d # c => pairAtRisk' \/ d \notin Fetching  BY <1>3
<1>13. PairOrFetch' /\ JarTypes'  BY <1>1, <1>3, <1>11 DEF PairOrFetch, JarTypes, ClientTypeOK
<1>14. OneSteps(c, call)
  BY <1>1, <1>3, <1>4, <1>5, <1>7, <1>9, <1>10, <1>12, <1>13, TypesAsFields DEF OneSteps, NoVersion
<1> QED BY <1>14, StepOfOne

\* A request that neither fetches nor goes on.
StepsAside(c, call) ==
  /\ call \in ClientCall /\ apiCall' = [apiCall EXCEPT ![c] = call]
  /\ delegated' = delegated /\ account' \in BOOLEAN /\ sessionNow' = sessionNow /\ jar' = jar
  /\ csrfToken' \in {csrfToken, NoToken} /\ pairAtRisk' \in BOOLEAN /\ (pairAtRisk => pairAtRisk')
  /\ sessionWentBack' = sessionWentBack
  /\ apiCall[c].pc \in Bodies => pairAtRisk'
  /\ call.pc \notin {"token", "tokenBody", "loggedIn", "loggedInBody"}
  /\ Stands(c)' /\ SentWithPair(c)' /\ (sessionWentBack \/ HasItsExpiries(c)')

LEMMA StepAside ==
  ASSUME ClientInv, NEW c \in ApiCalls, NEW call, StepsAside(c, call)
  PROVE  ClientInv'
<1> USE DEF StepsAside
<1>1. ClientTypeOK /\ jar.session <= sessionNow /\ JarTypes'
  BY
  DEF ClientInv, ClientTypeOK, JarTypes
<1>2. /\ apiCall'[c] = call /\ \A d \in ApiCalls : d # c => apiCall'[d] = apiCall[d]
  BY <1>1 DEF ClientTypeOK
<1>3. PairOrFetch'
  BY <1>2 DEF ClientInv, PairHolds, PairOrFetch
<1>4. OneSteps(c, call)
  BY <1>1, <1>3, TypesAsFields DEF OneSteps, NoVersion
<1> QED
  BY <1>4, StepOfOne

LEMMA ArrivesKeeps ==
  ASSUME ClientInv, NEW c \in ApiCalls, Arrives(c)
  PROVE  ClientInv'
<1> DEFINE call == apiCall[c]
           forbidden == call.method \in Writes
             /\ (call.cookie = NoToken \/ call.cookie # call.header)
           Answer(pc, times) ==
             [call EXCEPT !.pc = pc, !.applied = @ + times, !.crossed = call.crossed
               /\ pc = "forbidden",
                          !.session = NoVersion, !.cookie = NoToken, !.header = NoToken]
           pc == IF forbidden THEN "forbidden"
             ELSE IF call.session # sessionNow THEN "refused" ELSE "done"
           times == IF pc = "done" THEN 1 ELSE 0
<1>1. /\ call.pc = "sent" /\ apiCall' = [apiCall EXCEPT ![c] = Answer(pc, times)]
      /\ delegated' = delegated /\ account' = account /\ sessionNow' = sessionNow /\ jar' = jar
      /\ csrfToken' = csrfToken /\ pairAtRisk' = pairAtRisk /\ sessionWentBack' = sessionWentBack
  BY DEF Arrives
<1>2. ClientTypeOK /\ call \in ClientCall /\ Fields(call) /\ account \in BOOLEAN
  BY TypesAsFields DEF ClientInv, ClientTypeOK
<1>3. /\ pc \in {"forbidden", "refused", "done"} /\ times = IF pc = "done" THEN 1 ELSE 0
      /\ pc = "forbidden" => forbidden
      /\ pc = "refused" => call.session # sessionNow
  OBVIOUS
<1> HIDE DEF pc, times
<1>4. /\ Answer(pc, times) \in ClientCall /\ Answer(pc, times).pc = pc
      /\ Answer(pc, times).applied = call.applied + times /\ Answer(pc, times).session = NoVersion
      /\ Answer(pc, times).crossed = (call.crossed /\ pc = "forbidden")
      /\ Answer(pc, times).retriesLeft = call.retriesLeft
           /\ Answer(pc, times).expiries = call.expiries
  <2>1. (call.crossed /\ pc = "forbidden") \in BOOLEAN  OBVIOUS
  <2>2. call.applied \in Nat  BY <1>2 DEF ClientCall
  <2>3. call.applied + times \in Nat /\ NoVersion \in NoVersion .. MaxExpiries
    BY <1>3, <2>2 DEF NoVersion
  <2> QED BY <1>2, <1>3, <2>1, <2>3 DEF ClientCall
<1> DEFINE answer == Answer(pc, times)
<1>5. apiCall'[c] = answer  BY <1>1, <1>2 DEF ClientTypeOK
<1> HIDE DEF answer
<1>6. Stands(c)'
  BY <1>1, <1>2, <1>3, <1>4, <1>5, TypesAsFields
  DEF answer, Stands, Bodies, ClientInv, RequestsStand, NoVersion
<1>7. SentWithPair(c)'
  BY <1>1, <1>3, <1>4, <1>5 DEF answer, SentWithPair, Bodies, ClientInv, PairHolds
<1>8. sessionWentBack \/ HasItsExpiries(c)'
  BY <1>1, <1>2, <1>3, <1>4, <1>5, TypesAsFields
  DEF answer, HasItsExpiries, ClientInv, RetriesHaveExpiries, RequestsStand, Stands, Fields,
      NoVersion
<1>9. StepsAside(c, answer)
  BY <1>1, <1>2, <1>3, <1>4, <1>6, <1>7, <1>8, TypesAsFields DEF StepsAside, answer, Bodies
<1> QED BY <1>9, StepAside
LEMMA LogsInKeeps ==
  ASSUME ClientInv, NEW c \in ApiCalls, LogsIn(c)
  PROVE  ClientInv'
<1> DEFINE call == IF account THEN [apiCall[c] EXCEPT !.pc = "newSession", !.session = sessionNow]
                   ELSE [apiCall[c] EXCEPT !.pc = "register"]
<1>1. ClientTypeOK /\ apiCall[c] \in ClientCall /\ Fields(apiCall[c]) /\ account \in BOOLEAN
      /\ sessionNow \in 0 .. MaxExpiries
  BY TypesAsFields DEF ClientInv
<1>2. /\ apiCall[c].pc = "login"
      /\ delegated' = delegated /\ account' = account /\ sessionNow' = sessionNow /\ jar' = jar
      /\ csrfToken' = csrfToken /\ pairAtRisk' = pairAtRisk /\ sessionWentBack' = sessionWentBack
  BY DEF LogsIn
<1>3. apiCall' = [apiCall EXCEPT ![c] = call]  BY <1>1 DEF LogsIn, ClientTypeOK
<1>4. /\ call \in ClientCall /\ call.pc \in {"newSession", "register"}
      /\ call.pc = "newSession" => call.session = sessionNow
      /\ call.pc = "register" => call.session = apiCall[c].session
      /\ call.retriesLeft = apiCall[c].retriesLeft /\ call.applied = apiCall[c].applied
      /\ call.expiries = apiCall[c].expiries
  <2>1. sessionNow \in NoVersion .. MaxExpiries  BY <1>1 DEF NoVersion
  <2> QED BY <1>1, <2>1 DEF ClientCall
<1> HIDE DEF call
<1>5. apiCall'[c] = call  BY <1>1, <1>3 DEF ClientTypeOK
<1>6. Stands(c)'
  BY <1>1, <1>2, <1>4, <1>5 DEF Stands, Bodies, ClientInv, RequestsStand
<1>7. SentWithPair(c)'  BY <1>4, <1>5 DEF SentWithPair, Bodies
<1>8. sessionWentBack \/ HasItsExpiries(c)'
  BY <1>1, <1>2, <1>4, <1>5 DEF HasItsExpiries, ClientInv, RetriesHaveExpiries, Fields, NoVersion
<1>9. StepsAside(c, call)
  BY <1>1, <1>2, <1>3, <1>4, <1>6, <1>7, <1>8, TypesAsFields DEF StepsAside, Bodies
<1> QED BY <1>9, StepAside

\* What becomes of a request that is over.
LEMMA OverKeeps ==
  ASSUME ClientInv, NEW c \in ApiCalls, apiCall' = [apiCall EXCEPT ![c] = IdleRequest],
         delegated' = delegated, account' \in BOOLEAN, sessionNow' = sessionNow, jar' = jar,
         csrfToken' = csrfToken, sessionWentBack' = sessionWentBack,
         pairAtRisk' = (pairAtRisk \/ apiCall[c].pc \in Bodies)
  PROVE  ClientInv'
<1>1. ClientTypeOK /\ sessionNow \in 0 .. MaxExpiries  BY TypesAsFields DEF ClientInv
<1>2. apiCall'[c] = IdleRequest  BY <1>1 DEF ClientTypeOK
<1>3. Stands(c)'  BY <1>1, <1>2, IdleFields DEF Stands, Bodies, NoVersion
<1>4. SentWithPair(c)'  BY <1>2, IdleFields DEF SentWithPair, Bodies
<1>5. HasItsExpiries(c)'  BY <1>2, IdleFields DEF HasItsExpiries
<1>6. StepsAside(c, IdleRequest)
  BY <1>1, <1>3, <1>4, <1>5, IdleFields, TypesAsFields DEF StepsAside
<1> QED BY <1>6, StepAside

LEMMA RegistersKeeps ==
  ASSUME ClientInv, NEW c \in ApiCalls, Registers(c)
  PROVE  ClientInv'
<1>1. ClientTypeOK /\ apiCall[c] \in ClientCall /\ Fields(apiCall[c]) /\ account \in BOOLEAN
      /\ sessionNow \in 0 .. MaxExpiries
  BY TypesAsFields DEF ClientInv
<1>2. /\ apiCall[c].pc = "register" /\ account' = TRUE
      /\ delegated' = delegated /\ sessionNow' = sessionNow /\ jar' = jar
      /\ csrfToken' = csrfToken /\ pairAtRisk' = pairAtRisk /\ sessionWentBack' = sessionWentBack
  BY DEF Registers
<1>3. CASE account
  <2>1. apiCall' = [apiCall EXCEPT ![c] = IdleRequest]  BY <1>3 DEF Registers
  <2> QED BY <1>1, <1>2, <2>1, TypesAsFields, OverKeeps DEF Bodies
<1>4. CASE ~account
  <2> DEFINE call == [apiCall[c] EXCEPT !.pc = "newSession", !.session = sessionNow]
  <2>1. apiCall' = [apiCall EXCEPT ![c] = call]  BY <1>1, <1>4 DEF Registers, ClientTypeOK
  <2>2. /\ call \in ClientCall /\ call.pc = "newSession" /\ call.session = sessionNow
        /\ call.retriesLeft = apiCall[c].retriesLeft /\ call.applied = apiCall[c].applied
        /\ call.expiries = apiCall[c].expiries
    <3>1. sessionNow \in NoVersion .. MaxExpiries  BY <1>1 DEF NoVersion
    <3> QED BY <1>1, <3>1 DEF ClientCall
  <2> HIDE DEF call
  <2>3. apiCall'[c] = call  BY <1>1, <2>1 DEF ClientTypeOK
  <2>4. Stands(c)'
    BY <1>1, <1>2, <2>2, <2>3 DEF Stands, Bodies, ClientInv, RequestsStand
  <2>5. SentWithPair(c)'  BY <2>2, <2>3 DEF SentWithPair, Bodies
  <2>6. sessionWentBack \/ HasItsExpiries(c)'
    BY <1>1, <1>2, <2>2, <2>3 DEF HasItsExpiries, ClientInv, RetriesHaveExpiries, Fields, NoVersion
  <2>7. StepsAside(c, call)
    BY <1>1, <1>2, <2>1, <2>2, <2>4, <2>5, <2>6, TypesAsFields DEF StepsAside, Bodies
  <2> QED BY <2>7, StepAside
<1> QED BY <1>1, <1>3, <1>4

LEMMA SessionTakenKeeps ==
  ASSUME ClientInv, NEW c \in ApiCalls, SessionTaken(c)
  PROVE  ClientInv'
<1> DEFINE call == [apiCall[c] EXCEPT !.pc = "loggedIn"]
<1>1. ClientTypeOK /\ apiCall[c] \in ClientCall /\ Fields(apiCall[c])
      /\ jar.session \in NoVersion .. MaxExpiries /\ apiCall[c].session <= sessionNow
  BY TypesAsFields DEF ClientInv, RequestsStand, Stands
<1>2. /\ call \in ClientCall /\ call.pc = "loggedIn" /\ call.session = apiCall[c].session
      /\ call.retriesLeft = apiCall[c].retriesLeft /\ call.applied = apiCall[c].applied
      /\ call.expiries = apiCall[c].expiries
  BY <1>1 DEF ClientCall
<1> HIDE DEF call
<1>3. /\ apiCall[c].pc = "newSession" /\ jar' = [jar EXCEPT !.session = apiCall[c].session]
      /\ sessionWentBack' = (sessionWentBack \/ apiCall[c].session < jar.session)
      /\ apiCall' = [apiCall EXCEPT ![c] = call]
      /\ pairAtRisk' = (pairAtRisk \/ Fetching \ {c} # {})
      /\ delegated' = delegated /\ account' = account /\ sessionNow' = sessionNow
           /\ csrfToken' = csrfToken
  BY <1>2 DEF SessionTaken, TurnsTo, call
<1>4. JarTypes' /\ jar'.session = apiCall[c].session /\ jar'.csrf = jar.csrf
  BY <1>1, <1>3 DEF ClientTypeOK, JarTypes, Fields
<1>5. apiCall'[c] = call /\ \A d \in ApiCalls : d # c => apiCall'[d] = apiCall[d]
  BY <1>1, <1>3 DEF ClientTypeOK
<1>6. Stands(c)'
  BY <1>1, <1>2, <1>3, <1>5 DEF Stands, Bodies, ClientInv, RequestsStand
<1>7. SentWithPair(c)'  BY <1>2, <1>5 DEF SentWithPair, Bodies
<1>8. sessionWentBack' \/ HasItsExpiries(c)'
  <2>1. SUFFICES ASSUME ~sessionWentBack' PROVE HasItsExpiries(c)'  OBVIOUS
  <2>2. ~sessionWentBack  BY <1>3, <2>1
  <2>3. HasItsExpiries(c)  BY <2>2 DEF ClientInv, RetriesHaveExpiries
  <2>4. apiCall[c].session \in Int  BY <1>1 DEF Fields, NoVersion
  <2> QED BY <1>1, <1>2, <1>3, <1>4, <1>5, <2>3, <2>4 DEF HasItsExpiries
<1>9. PairOrFetch'
  BY <1>3, <1>4, <1>5 DEF ClientInv, PairHolds, PairOrFetch, Bodies
<1>10. sessionWentBack' \/ jar'.session >= jar.session
  <2>1. SUFFICES ASSUME ~sessionWentBack' PROVE jar'.session >= jar.session  OBVIOUS
  <2>2. ~(apiCall[c].session < jar.session)  BY <1>3, <2>1
  <2>3. apiCall[c].session \in Int /\ jar.session \in Int  BY <1>1 DEF Fields, NoVersion
  <2> QED BY <1>4, <2>2, <2>3
<1>11. OneSteps(c, call)
  BY <1>1, <1>2, <1>3, <1>4, <1>6, <1>7, <1>8, <1>9, <1>10, TypesAsFields DEF OneSteps
<1> QED BY <1>11, StepOfOne

LEMMA EndsSessionsKeeps ==
  ASSUME ClientInv, EndsSessions, account' \in BOOLEAN
  PROVE  ClientInv'
<1>1. ClientTypeOK /\ sessionNow \in 0 .. MaxExpiries /\ jar.session <= sessionNow
      /\ jar.session \in NoVersion .. MaxExpiries
      /\ \A c \in ApiCalls : apiCall[c] \in ClientCall /\ Fields(apiCall[c])
  BY TypesAsFields DEF ClientInv
<1>2. /\ sessionNow < MaxExpiries /\ sessionNow' = sessionNow + 1
      /\ apiCall' = [c \in ApiCalls |->
            IF apiCall[c].pc = "idle" THEN apiCall[c] ELSE [apiCall[c] EXCEPT !.expiries = @ + 1]]
      /\ delegated' = delegated /\ jar' = jar /\ csrfToken' = csrfToken
      /\ pairAtRisk' = pairAtRisk /\ sessionWentBack' = sessionWentBack
  BY DEF EndsSessions
<1>3. \A c \in ApiCalls : apiCall[c].expiries <= sessionNow  BY DEF ClientInv, RequestsStand, Stands
<1>4. ASSUME NEW c \in ApiCalls
      PROVE  /\ apiCall'[c] \in ClientCall
             /\ apiCall[c].pc = "idle" => apiCall'[c] = apiCall[c]
             /\ apiCall[c].pc # "idle" => apiCall'[c].expiries = apiCall[c].expiries + 1
             /\ apiCall'[c].pc = apiCall[c].pc /\ apiCall'[c].method = apiCall[c].method
             /\ apiCall'[c].retriesLeft = apiCall[c].retriesLeft
             /\ apiCall'[c].session = apiCall[c].session /\ apiCall'[c].cookie = apiCall[c].cookie
             /\ apiCall'[c].header = apiCall[c].header /\ apiCall'[c].fetched = apiCall[c].fetched
             /\ apiCall'[c].crossed = apiCall[c].crossed /\ apiCall'[c].applied = apiCall[c].applied
  <2>1. CASE apiCall[c].pc = "idle"  BY <1>1, <1>2, <2>1
  <2>2. CASE apiCall[c].pc # "idle"
    <3>1. apiCall'[c] = [apiCall[c] EXCEPT !.expiries = apiCall[c].expiries + 1]  BY <1>2, <2>2
    <3>2. apiCall[c].expiries + 1 \in 0 .. MaxExpiries  BY <1>1, <1>2, <1>3 DEF Fields
    <3> QED BY <1>1, <2>2, <3>1, <3>2 DEF ClientCall
  <2> QED BY <2>1, <2>2
<1>5. ClientTypeOK'
  <2>1. apiCall' \in [ApiCalls -> ClientCall]  BY <1>2, <1>4
  <2> QED BY <1>1, <1>2, <2>1 DEF ClientTypeOK, ClientCall
<1>6. RequestsStand'
  <2> SUFFICES ASSUME NEW c \in ApiCalls PROVE Stands(c)'  BY DEF RequestsStand
  <2>1. Stands(c)  BY DEF ClientInv, RequestsStand
  <2> QED BY <1>1, <1>2, <1>4, <2>1 DEF Stands, Fields, NoVersion
<1>7. PairHolds'
  <2>1. Fetching' = Fetching  BY <1>4 DEF Fetching
  <2>2. PairOrFetch'  BY <1>2, <1>4 DEF ClientInv, PairHolds, PairOrFetch
  <2>3. \A c \in ApiCalls : SentWithPair(c)'  BY <1>2, <1>4 DEF ClientInv, PairHolds, SentWithPair
  <2> QED BY <1>2, <2>1, <2>2, <2>3 DEF ClientInv, PairHolds
<1>8. RetriesHaveExpiries'
  <2> SUFFICES ASSUME ~sessionWentBack, NEW c \in ApiCalls PROVE HasItsExpiries(c)'
    BY <1>2 DEF RetriesHaveExpiries
  <2>1. HasItsExpiries(c)  BY DEF ClientInv, RetriesHaveExpiries
  <2> QED BY <1>1, <1>2, <1>4, <2>1 DEF HasItsExpiries, Fields, NoVersion
<1>9. jar'.session <= sessionNow'  BY <1>1, <1>2 DEF NoVersion
<1> QED BY <1>5, <1>6, <1>7, <1>8, <1>9 DEF ClientInv

LEMMA AnswerTakenKeeps ==
  ASSUME ClientInv, NEW c \in ApiCalls, AnswerTaken(c)
  PROVE  ClientInv'
<1>1. account \in BOOLEAN /\ pairAtRisk \in BOOLEAN  BY DEF ClientInv, ClientTypeOK
<1>2. apiCall[c].pc \notin Bodies  BY DEF AnswerTaken, Bodies
<1>3. pairAtRisk' = (pairAtRisk \/ apiCall[c].pc \in Bodies)  BY <1>1, <1>2 DEF AnswerTaken
<1> QED BY <1>1, <1>3, OverKeeps DEF AnswerTaken

LEMMA LostKeeps ==
  ASSUME ClientInv, NEW c \in ApiCalls, Lost(c)
  PROVE  ClientInv'
<1>1. account \in BOOLEAN  BY DEF ClientInv, ClientTypeOK
<1>2. pairAtRisk' = (pairAtRisk \/ apiCall[c].pc \in Bodies)  BY DEF Lost, Bodies
<1> QED BY <1>1, <1>2, OverKeeps DEF Lost

LEMMA LogInAgainKeeps ==
  ASSUME ClientInv, NEW c \in ApiCalls, LogInAgain(c)
  PROVE  ClientInv'
<1> DEFINE call == [apiCall[c] EXCEPT !.pc = "login", !.retriesLeft = apiCall[c].retriesLeft - 1]
<1>1. ClientTypeOK /\ apiCall[c] \in ClientCall /\ Fields(apiCall[c]) /\ account \in BOOLEAN
  BY TypesAsFields DEF ClientInv
<1>2. /\ apiCall[c].pc = "refused" /\ apiCall[c].retriesLeft > 0 /\ csrfToken' = NoToken
      /\ delegated' = delegated /\ account' = account /\ sessionNow' = sessionNow /\ jar' = jar
      /\ pairAtRisk' = pairAtRisk /\ sessionWentBack' = sessionWentBack
  BY DEF LogInAgain
<1>3. apiCall' = [apiCall EXCEPT ![c] = call]  BY <1>1 DEF LogInAgain, ClientTypeOK
<1>4. /\ call \in ClientCall /\ call.pc = "login" /\ call.retriesLeft = apiCall[c].retriesLeft - 1
      /\ call.session = apiCall[c].session /\ call.applied = apiCall[c].applied
      /\ call.expiries = apiCall[c].expiries
  <2>1. apiCall[c].retriesLeft - 1 \in 0 .. MaxRetries  BY <1>1, <1>2 DEF Fields
  <2> QED BY <1>1, <2>1 DEF ClientCall
<1> HIDE DEF call
<1>5. apiCall'[c] = call  BY <1>1, <1>3 DEF ClientTypeOK
<1>6. Stands(c)'
  BY <1>1, <1>2, <1>4, <1>5 DEF Stands, Bodies, ClientInv, RequestsStand
<1>7. SentWithPair(c)'  BY <1>4, <1>5 DEF SentWithPair, Bodies
<1>8. sessionWentBack \/ HasItsExpiries(c)'
  BY <1>1, <1>2, <1>4, <1>5 DEF HasItsExpiries, ClientInv, RetriesHaveExpiries, Fields
<1>9. StepsAside(c, call)
  BY <1>1, <1>2, <1>3, <1>4, <1>6, <1>7, <1>8, TypesAsFields DEF StepsAside, Bodies
<1> QED BY <1>9, StepAside

LEMMA ClientBegins == ClientInit => ClientInv
<1> SUFFICES ASSUME ClientInit PROVE ClientInv  OBVIOUS
<1>1. PICK c \in ApiCalls :
       apiCall = [d \in ApiCalls |->
         IF d # c THEN IdleRequest
         ELSE [IdleRequest EXCEPT !.method = "ensure",
           !.pc = IF delegated THEN "loggedIn" ELSE "login"]]
  BY DEF ClientInit
<1> DEFINE first == [IdleRequest EXCEPT !.method = "ensure",
      !.pc = IF delegated THEN "loggedIn" ELSE "login"]
<1>2. /\ first \in ClientCall /\ first.pc \in {"loggedIn", "login"}
           /\ first.retriesLeft = MaxRetries
      /\ first.applied = 0 /\ first.expiries = 0 /\ first.session = NoVersion
      /\ first.pc = "loggedIn" => delegated
  BY IdleFields DEF ClientInit, ClientCall, IdleRequest
<1> HIDE DEF first
<1>3. /\ apiCall \in [ApiCalls -> ClientCall] /\ apiCall[c] = first
      /\ \A d \in ApiCalls : d # c => apiCall[d] = IdleRequest
  BY <1>1, <1>2, IdleFields DEF first
<1>4. /\ delegated \in BOOLEAN /\ account \in BOOLEAN /\ sessionNow = 0 /\ csrfToken = NoToken
      /\ pairAtRisk = FALSE /\ sessionWentBack = FALSE
      /\ jar = [session |-> IF delegated THEN 0 ELSE NoVersion, csrf |-> NoToken]
  BY DEF ClientInit
<1>5. jar.session \in {0, NoVersion} /\ jar.session <= sessionNow
      /\ jar \in [session : NoVersion .. MaxExpiries, csrf : {NoToken} \cup CsrfTokens]
  BY <1>4 DEF NoVersion
<1>6. ClientTypeOK
  <2>1. sessionNow \in 0 .. MaxExpiries  BY <1>4
  <2> QED BY <1>3, <1>4, <1>5, <2>1 DEF ClientTypeOK, ClientCall
<1>7. RequestsStand  BY <1>2, <1>3, <1>4, IdleFields DEF RequestsStand, Stands, Bodies, NoVersion
<1>8. PairHolds
  BY <1>2, <1>3, <1>4, IdleFields DEF PairHolds, PairOrFetch, SentWithPair, Fetching, Bodies
<1>9. RetriesHaveExpiries
  BY <1>2, <1>3, <1>4, <1>5, IdleFields DEF RetriesHaveExpiries, HasItsExpiries, NoVersion
<1> QED BY <1>5, <1>6, <1>7, <1>8, <1>9 DEF ClientInv

LEMMA ClientStep == ClientInv /\ [ClientNext]_clientVars => ClientInv'
<1> SUFFICES ASSUME ClientInv, [ClientNext]_clientVars PROVE ClientInv'  OBVIOUS
<1>1. CASE SessionEnds \/ ShopperCleanedUp
  BY <1>1, TypesAsFields, EndsSessionsKeeps DEF SessionEnds, ShopperCleanedUp, ClientInv
<1>2. CASE UNCHANGED clientVars
  BY <1>2 DEF clientVars, ClientInv, ClientTypeOK, RequestsStand, Stands, PairHolds, PairOrFetch,
    SentWithPair, Fetching, RetriesHaveExpiries, HasItsExpiries
<1> QED
  BY <1>1, <1>2, RequestKeeps, TokenHeadersKeeps, TokenBodyKeeps, ArrivesKeeps, LogsInKeeps,
     RegistersKeeps, SessionTakenKeeps, AnswerTakenKeeps, LogInAgainKeeps, LostKeeps DEF ClientNext

\* A shopper's client keeps its variables' types: the session and CSRF cookies it holds, and the
\* stages of the calls it makes (api_client.py).
THEOREM ClientTypes == ClientSpec => []ClientTypeOK
<1>1. ClientInv => ClientTypeOK  BY DEF ClientInv
<1> QED BY <1>1, ClientBegins, ClientStep, PTL DEF ClientSpec

\* A request is done at most once, has the token it needs, and is refused only for sessions.
THEOREM ClientKeepsItsWord == ClientSpec => []ClientSound
<1>1. ClientInv => ClientSound
  <2> SUFFICES ASSUME ClientInv PROVE ClientSound  OBVIOUS
  <2>1. ASSUME NEW c \in ApiCalls PROVE apiCall[c].applied \in {0, 1}
    BY DEF ClientInv, RequestsStand, Stands
  <2>4. DoneOnce
    <3>1. \A n \in {0, 1} : n <= 1  OBVIOUS
    <3> QED BY <2>1, <3>1 DEF DoneOnce
  <2>2. TokensMatch  BY DEF ClientInv, PairHolds, SentWithPair, TokensMatch
  <2>3. RefusedForSessions
    BY DEF ClientInv, RetriesHaveExpiries, HasItsExpiries, RefusedForSessions
  <2> QED BY <2>2, <2>3, <2>4 DEF ClientSound
<1> QED BY <1>1, ClientBegins, ClientStep, PTL DEF ClientSpec

HIDE ClientAssumption

-----------------------------------------------------------------------------
(***************************************************************************)
(* How often somebody may chat (ChatLimits).                               *)
(***************************************************************************)
USE LimitsAssumption

MinuteAges == 0 .. Minute
HitAges == 0 .. Minute + 1

-----------------------------------------------------------------------------
(* The window of the last minute.                                          *)

\* The requests of the last minute are those the window still has.
PassedAreInWindow == \A k \in Keys : passed[k] = WithinMinute(hits[k])

WindowInv ==
  /\ hits \in [Keys -> Seq(HitAges)] /\ PassedAreInWindow /\ MinuteHolds

LEMMA WindowType ==
  ASSUME NEW s \in Seq(HitAges)
  PROVE  WithinMinute(s) \in Seq(MinuteAges) /\ WithinMinute(s) \in Seq(HitAges)
    /\ WithinMinute(WithinMinute(s)) = WithinMinute(s)
<1>1. WithinMinute(s) \in Seq(HitAges \cap MinuteAges)  BY SiftType DEF WithinMinute, MinuteAges
<1>2. HitAges \cap MinuteAges = MinuteAges /\ MinuteAges \subseteq HitAges
  BY
  DEF HitAges, MinuteAges
<1>3. WithinMinute(s) \in Seq(MinuteAges)  BY <1>1, <1>2
<1>4. WithinMinute(s) \in Seq(HitAges)  BY <1>2, <1>3
<1>5. Sift(WithinMinute(s), MinuteAges) = WithinMinute(s)  BY <1>3, SiftAll
<1> QED BY <1>3, <1>4, <1>5 DEF WithinMinute, MinuteAges

\* A request that passes.
LEMMA WindowOneMore ==
  ASSUME NEW s \in Seq(HitAges)
  PROVE  /\ Append(WithinMinute(s), 0) \in Seq(HitAges)
         /\ WithinMinute(Append(WithinMinute(s), 0)) = Append(WithinMinute(s), 0)
<1>1. WithinMinute(s) \in Seq(MinuteAges) /\ 0 \in MinuteAges /\ MinuteAges \subseteq HitAges
  BY WindowType
  DEF MinuteAges, HitAges
<1>2. Append(WithinMinute(s), 0) \in Seq(MinuteAges)  BY <1>1
<1>3. Sift(Append(WithinMinute(s), 0), MinuteAges) = Append(WithinMinute(s), 0)  BY <1>2, SiftAll
<1>4. Append(WithinMinute(s), 0) \in Seq(HitAges)  BY <1>1, <1>2
<1> QED BY <1>3, <1>4 DEF WithinMinute, MinuteAges

LEMMA OlderType ==
  ASSUME NEW s \in Seq(HitAges)
  PROVE  Older(s) \in Seq(HitAges) /\ Len(Older(s)) = Len(s)
<1>1. \A i \in 1 .. Len(s) : s[i] \in HitAges  OBVIOUS
<1>2. DOMAIN s = 1 .. Len(s)  OBVIOUS
<1>3. \A i \in 1 .. Len(s) : (IF s[i] <= Minute THEN s[i] + 1 ELSE s[i]) \in HitAges
  BY <1>1
  DEF HitAges
<1>4. Older(s) \in [1 .. Len(s) -> HitAges]  BY <1>2, <1>3 DEF Older
<1> QED BY <1>4

Aged(x) == IF x <= Minute THEN x + 1 ELSE x

LEMMA OlderAppend ==
  ASSUME NEW s \in Seq(HitAges), NEW x \in HitAges
  PROVE  Older(Append(s, x)) = Append(Older(s), Aged(x)) /\ Aged(x) \in HitAges
<1>1. Append(s, x) \in Seq(HitAges) /\ Len(Append(s, x)) = Len(s) + 1  OBVIOUS
<1>2. Aged(x) \in HitAges  BY DEF Aged, HitAges
<1>3. Older(s) \in Seq(HitAges) /\ Len(Older(s)) = Len(s)  BY OlderType
<1>4. Older(Append(s, x)) \in Seq(HitAges) /\ Len(Older(Append(s, x))) = Len(s) + 1
  BY <1>1, OlderType
<1>5. Append(Older(s), Aged(x)) \in Seq(HitAges) /\ Len(Append(Older(s), Aged(x))) = Len(s) + 1
  BY <1>2, <1>3
<1>6. ASSUME NEW i \in 1 .. Len(s) + 1 PROVE Older(Append(s, x))[i] = Append(Older(s), Aged(x))[i]
  <2>1. DOMAIN Append(s, x) = 1 .. Len(s) + 1 /\ DOMAIN s = 1 .. Len(s)  BY <1>1
  <2>2. Older(Append(s, x))[i] = Aged(Append(s, x)[i])  BY <2>1 DEF Older, Aged
  <2>3. CASE i = Len(s) + 1  BY <1>3, <2>2, <2>3
  <2>4. CASE i \in 1 .. Len(s)
    <3>1. Append(s, x)[i] = s[i] /\ Append(Older(s), Aged(x))[i] = Older(s)[i]  BY <1>2, <1>3, <2>4
    <3>2. Older(s)[i] = Aged(s[i])  BY <2>1, <2>4 DEF Older, Aged
    <3> QED BY <2>2, <3>1, <3>2
  <2>5. Len(s) \in Nat  OBVIOUS
  <2>6. i = Len(s) + 1 \/ i \in 1 .. Len(s)  BY <2>5
  <2> QED BY <2>3, <2>4, <2>6
<1>7. Older(Append(s, x)) = Append(Older(s), Aged(x))  BY <1>4, <1>5, <1>6
<1> QED BY <1>2, <1>7

LEMMA WindowAppend ==
  ASSUME NEW s \in Seq(HitAges), NEW x \in HitAges
  PROVE  WithinMinute(Append(s, x)) = IF x \in MinuteAges THEN Append(WithinMinute(s),
    x) ELSE WithinMinute(s)
BY SiftAppend DEF WithinMinute, MinuteAges

\* What grows old in the window, and what has long left it.
LEMMA OlderWindow ==
  \A s \in Seq(HitAges) : WithinMinute(Older(WithinMinute(s))) = WithinMinute(Older(s))
<1> DEFINE Good == {s \in Seq(HitAges) :
      WithinMinute(Older(WithinMinute(s))) = WithinMinute(Older(s))}
<1>1. <<>> \in Good
  <2>1. WithinMinute(<<>>) = <<>>  BY SiftEmpty DEF WithinMinute
  <2> QED BY <2>1
<1>2. ASSUME NEW s \in Seq(HitAges), NEW x \in HitAges, s \in Good PROVE Append(s, x) \in Good
  <2>1. WithinMinute(Append(s, x)) = IF x \in MinuteAges THEN Append(WithinMinute(s),
          x) ELSE WithinMinute(s)
    BY WindowAppend
  <2>2. /\ Older(Append(s, x)) = Append(Older(s), Aged(x)) /\ Aged(x) \in HitAges
        /\ Older(s) \in Seq(HitAges)
    BY OlderAppend, OlderType
  <2>3. WithinMinute(Append(Older(s), Aged(x)))
          = IF Aged(x) \in MinuteAges THEN Append(WithinMinute(Older(s)),
            Aged(x)) ELSE WithinMinute(Older(s))
    BY <2>2, WindowAppend
  <2>4. WithinMinute(s) \in Seq(HitAges) /\ Older(WithinMinute(s)) \in Seq(HitAges)
    BY WindowType, OlderType
  <2>5. WithinMinute(Older(WithinMinute(s))) = WithinMinute(Older(s))  BY <1>2
  <2>6. Append(s, x) \in Seq(HitAges)  OBVIOUS
  <2>7. CASE x \in MinuteAges
    <3>1. Older(Append(WithinMinute(s), x)) = Append(Older(WithinMinute(s)), Aged(x))
      BY <2>4, OlderAppend
    <3>2. WithinMinute(Append(Older(WithinMinute(s)), Aged(x)))
            = IF Aged(x) \in MinuteAges THEN Append(WithinMinute(Older(WithinMinute(s))), Aged(x))
              ELSE WithinMinute(Older(WithinMinute(s)))
      BY <2>2, <2>4, WindowAppend
    <3>3. WithinMinute(Older(WithinMinute(Append(s, x)))) = WithinMinute(Older(Append(s, x)))
      BY <2>1, <2>2, <2>3, <2>5, <2>7, <3>1, <3>2
    <3> QED BY <2>6, <3>3
  <2>8. CASE x \notin MinuteAges
    <3>1. Aged(x) \notin MinuteAges  BY <2>8 DEF Aged, HitAges, MinuteAges
    <3>2. WithinMinute(Older(WithinMinute(Append(s, x)))) = WithinMinute(Older(Append(s, x)))
      BY <2>1, <2>2, <2>3, <2>5, <2>8, <3>1
    <3> QED BY <2>6, <3>2
  <2> QED BY <2>7, <2>8
<1>3. Seq(HitAges) \subseteq Good
  <2> HIDE DEF Good
  <2> QED BY <1>1, <1>2, SeqAll
<1> QED BY <1>3

LEMMA WindowBegins == LimitsInit => WindowInv
<1> SUFFICES ASSUME LimitsInit PROVE WindowInv  OBVIOUS
<1>1. hits = [k \in Keys |-> <<>>] /\ passed = hits  BY DEF LimitsInit
<1>2. WithinMinute(<<>>) = <<>>  BY SiftEmpty DEF WithinMinute
<1>3. <<>> \in Seq(HitAges) /\ Len(<<>>) <= PerMinute  OBVIOUS
<1> HIDE DEF HitAges
<1>4. hits \in [Keys -> Seq(HitAges)]  BY <1>1, <1>3
<1>5. PassedAreInWindow  BY <1>1, <1>2 DEF PassedAreInWindow
<1>6. MinuteHolds  BY <1>1, <1>3 DEF MinuteHolds
<1> QED BY <1>4, <1>5, <1>6 DEF WindowInv

\* A request at a door, turned away or let through.
LEMMA DoorKeeps ==
  ASSUME WindowInv, passed \in [Keys -> Seq(MinuteAges)], NEW k \in Keys, TooOften(k) \/ Passes(k)
  PROVE  WindowInv'
<1>1. hits[k] \in Seq(HitAges)  BY DEF WindowInv
<1>2. CASE TooOften(k)
  <2>1. hits' = [hits EXCEPT ![k] = WithinMinute(hits[k])] /\ passed' = passed
    BY <1>2 DEF TooOften, Window
  <2>2. WithinMinute(hits[k]) \in Seq(HitAges)
          /\ WithinMinute(WithinMinute(hits[k])) = WithinMinute(hits[k])
    BY <1>1, WindowType
  <2>3. hits' \in [Keys -> Seq(HitAges)]  BY <2>1, <2>2 DEF WindowInv
  <2>4. \A j \in Keys : WithinMinute(hits'[j]) = WithinMinute(hits[j])  BY <2>1, <2>2 DEF WindowInv
  <2>5. PassedAreInWindow'  BY <2>1, <2>4 DEF WindowInv, PassedAreInWindow
  <2> QED BY <2>1, <2>3, <2>5 DEF WindowInv, MinuteHolds
<1>3. CASE Passes(k)
  <2>1. /\ hits' = [hits EXCEPT ![k] = Append(WithinMinute(hits[k]), 0)]
        /\ passed' = [passed EXCEPT ![k] = Append(passed[k], 0)]
        /\ Len(WithinMinute(hits[k])) < PerMinute
    BY <1>3 DEF Passes, Window
  <2>2. /\ Append(WithinMinute(hits[k]), 0) \in Seq(HitAges)
        /\ WithinMinute(Append(WithinMinute(hits[k]), 0)) = Append(WithinMinute(hits[k]), 0)
    BY <1>1, WindowOneMore
  <2>3. hits' \in [Keys -> Seq(HitAges)]  BY <2>1, <2>2 DEF WindowInv
  <2>4. passed[k] = WithinMinute(hits[k]) /\ passed[k] \in Seq(MinuteAges)
    BY
    DEF WindowInv, PassedAreInWindow
  <2>5. /\ hits'[k] = Append(WithinMinute(hits[k]), 0) /\ passed'[k] = Append(passed[k], 0)
        /\ \A j \in Keys : j # k => hits'[j] = hits[j] /\ passed'[j] = passed[j]
    BY <2>1 DEF WindowInv
  <2>6. passed'[k] = WithinMinute(hits'[k])  BY <2>2, <2>4, <2>5
  <2>7. PassedAreInWindow'  BY <2>5, <2>6 DEF WindowInv, PassedAreInWindow
  <2>8. Len(passed'[k]) <= PerMinute
    <3>1. Len(passed[k]) \in Nat /\ Len(Append(passed[k], 0)) = Len(passed[k]) + 1  BY <2>4
    <3> QED BY <2>1, <2>4, <2>5, <3>1
  <2>9. MinuteHolds'  BY <2>5, <2>8 DEF WindowInv, MinuteHolds
  <2> QED BY <2>3, <2>7, <2>9 DEF WindowInv
<1> QED BY <1>2, <1>3

LEMMA TickKeeps ==
  ASSUME WindowInv, passed \in [Keys -> Seq(MinuteAges)], Tick
  PROVE  WindowInv' /\ passed' \in [Keys -> Seq(MinuteAges)]
<1>1. /\ hits' = [k \in Keys |-> Older(hits[k])]
      /\ passed' = [k \in Keys |-> WithinMinute(Older(passed[k]))]
  BY DEF Tick
<1>2. ASSUME NEW k \in Keys
      PROVE  /\ Older(hits[k]) \in Seq(HitAges) /\ hits'[k] = Older(hits[k])
             /\ passed'[k] = WithinMinute(hits'[k]) /\ passed'[k] \in Seq(MinuteAges)
             /\ Len(passed'[k]) <= Len(passed[k])
  <2>1. hits[k] \in Seq(HitAges) /\ passed[k] \in Seq(HitAges) /\ passed[k] = WithinMinute(hits[k])
    BY WindowType DEF WindowInv, PassedAreInWindow
  <2>2. Older(hits[k]) \in Seq(HitAges) /\ Older(passed[k]) \in Seq(HitAges)
          /\ Len(Older(passed[k])) = Len(passed[k])
    BY <2>1, OlderType
  <2>3. hits'[k] = Older(hits[k]) /\ passed'[k] = WithinMinute(Older(passed[k]))  BY <1>1
  <2>4. WithinMinute(Older(passed[k])) = WithinMinute(Older(hits[k]))  BY <2>1, OlderWindow
  <2>5. WithinMinute(Older(passed[k])) \in Seq(MinuteAges)  BY <2>2, WindowType
  <2>6. Len(WithinMinute(Older(passed[k]))) <= Len(Older(passed[k]))
    BY <2>2, SiftType
    DEF WithinMinute
  <2> QED BY <2>2, <2>3, <2>4, <2>5, <2>6
<1>3. hits' \in [Keys -> Seq(HitAges)] /\ passed' \in [Keys -> Seq(MinuteAges)]  BY <1>1, <1>2
<1>4. PassedAreInWindow'  BY <1>2 DEF PassedAreInWindow
<1>5. MinuteHolds'
  <2> SUFFICES ASSUME NEW k \in Keys PROVE Len(passed'[k]) <= PerMinute  BY DEF MinuteHolds
  <2>1. Len(passed[k]) <= PerMinute /\ Len(passed[k]) \in Nat  BY DEF WindowInv, MinuteHolds
  <2>2. Len(passed'[k]) \in Nat  BY <1>3
  <2> QED BY <1>2, <2>1, <2>2
<1> QED BY <1>3, <1>4, <1>5 DEF WindowInv

-----------------------------------------------------------------------------
(* The turns of the day.                                                   *)

\* The turns of the starts before, and those this start has counted.
TurnsInv ==
  /\ turnCounts \in [Talkers -> 0 .. PerDay] /\ globalCount \in 0 .. GlobalPerDay
  /\ turnsToday \in [Talkers -> Nat]
  /\ budgetAlerted \in BOOLEAN /\ turnedAway \in BOOLEAN
  /\ budgetAlerts \in 0 .. MaxLives /\ lives \in 1 .. MaxLives
  /\ \A s \in Talkers : turnsToday[s] <= PerDay * (lives - 1) + turnCounts[s]
  /\ AllTurns <= GlobalPerDay * (lives - 1) + globalCount
  /\ turnedAway <=> budgetAlerts > 0
  /\ budgetAlerts <= IF budgetAlerted THEN lives ELSE lives - 1
  /\ budgetAlerted => globalCount = GlobalPerDay /\ budgetAlerts > 0
  /\ AllTurns >= IF budgetAlerted THEN GlobalPerDay * (budgetAlerts - 1) + globalCount
                 ELSE GlobalPerDay * budgetAlerts + globalCount

LEMMA Times ==
  ASSUME NEW n \in Nat, NEW i \in Int
  PROVE  /\ n * i \in Int /\ n * 0 = 0
         /\ n * (i + 1) = n * i + n /\ n * (i - 1) = n * i - n
         /\ \A j \in Int : i <= j => n * i <= n * j
<1>1. n * i \in Int /\ n * 0 = 0 /\ n * (i + 1) = n * i + n /\ n * (i - 1) = n * i - n  OBVIOUS
<1>2. ASSUME NEW j \in Int, i <= j PROVE n * i <= n * j
  <2>1. (j - i) \in Nat  BY <1>2
  <2>2. n * (j - i) \in Nat  BY <2>1
  <2>3. n * (j - i) = n * j - n * i  OBVIOUS
  <2> QED BY <2>2, <2>3
<1> QED BY <1>1, <1>2

LEMMA AllTurnsFacts ==
  ASSUME turnsToday \in [Talkers -> Nat]
  PROVE  AllTurns = Total(turnsToday) /\ AllTurns \in Nat
<1>1. AllTurns = Total(turnsToday)  BY DEF AllTurns, Total
<1> QED BY <1>1, TotalType

LEMMA AllTurnsFactsNext ==
  ASSUME turnsToday' \in [Talkers -> Nat]
  PROVE  AllTurns' = Total(turnsToday')
BY DEF AllTurns, Total, FoldFunction, FoldFunctionOnSet, MapThenFoldSet

LEMMA CountsKeep ==
  ASSUME TurnsInv, UNCHANGED <<countsVars, lives>>
  PROVE  TurnsInv'
<1>1. /\ turnCounts' = turnCounts /\ globalCount' = globalCount /\ budgetAlerted' = budgetAlerted
      /\ turnsToday' = turnsToday /\ budgetAlerts' = budgetAlerts /\ turnedAway' = turnedAway
           /\ lives' = lives
  BY DEF countsVars
<1>2. AllTurns' = AllTurns  BY <1>1, AllTurnsFacts, AllTurnsFactsNext DEF TurnsInv
<1> QED BY <1>1, <1>2 DEF TurnsInv

LEMMA SpentKeeps ==
  ASSUME TurnsInv, NEW k \in Keys, HostIsSpent(k)
  PROVE  TurnsInv'
<1>1. /\ globalCount >= GlobalPerDay /\ turnedAway' = TRUE /\ budgetAlerted' = TRUE
      /\ budgetAlerts' = IF budgetAlerted THEN budgetAlerts ELSE budgetAlerts + 1
      /\ turnCounts' = turnCounts /\ globalCount' = globalCount /\ turnsToday' = turnsToday
           /\ lives' = lives
  BY DEF HostIsSpent, Passes
<1>2. AllTurns' = AllTurns /\ AllTurns \in Nat
  BY <1>1, AllTurnsFacts, AllTurnsFactsNext
  DEF TurnsInv
<1>3. globalCount = GlobalPerDay /\ budgetAlerts \in Nat /\ lives \in 1 .. MaxLives
  BY <1>1
  DEF TurnsInv
<1>4. CASE budgetAlerted  BY <1>1, <1>2, <1>3, <1>4 DEF TurnsInv
<1>5. CASE ~budgetAlerted
  <2>1. budgetAlerts' = budgetAlerts + 1 /\ budgetAlerts <= lives - 1  BY <1>1, <1>5 DEF TurnsInv
  <2>2. budgetAlerts' \in 0 .. MaxLives /\ budgetAlerts' > 0 /\ budgetAlerts' <= lives
          /\ budgetAlerts' - 1 = budgetAlerts
    BY <1>3, <2>1
  <2>3. AllTurns >= GlobalPerDay * budgetAlerts + globalCount  BY <1>5 DEF TurnsInv
  <2> QED BY <1>1, <1>2, <1>3, <2>2, <2>3 DEF TurnsInv
<1> QED BY <1>4, <1>5 DEF TurnsInv

LEMMA LetInKeeps ==
  ASSUME TurnsInv, NEW k \in Keys, NEW s \in Talkers, LetIn(k, s)
  PROVE  TurnsInv'
<1>1. /\ globalCount < GlobalPerDay /\ turnCounts[s] < PerDay
      /\ turnCounts' = [turnCounts EXCEPT ![s] = turnCounts[s] + 1]
      /\ globalCount' = globalCount + 1
      /\ turnsToday' = [turnsToday EXCEPT ![s] = turnsToday[s] + 1]
      /\ budgetAlerted' = budgetAlerted /\ budgetAlerts' = budgetAlerts /\ turnedAway' = turnedAway
      /\ lives' = lives
  BY DEF LetIn, Passes
<1>2. /\ turnCounts \in [Talkers -> 0 .. PerDay] /\ turnsToday \in [Talkers -> Nat]
      /\ globalCount \in 0 .. GlobalPerDay /\ lives \in 1 .. MaxLives
           /\ budgetAlerts \in 0 .. MaxLives
      /\ \A t \in Talkers : turnsToday[t] <= PerDay * (lives - 1) + turnCounts[t]
      /\ AllTurns <= GlobalPerDay * (lives - 1) + globalCount
      /\ AllTurns >= IF budgetAlerted THEN GlobalPerDay * (budgetAlerts - 1) + globalCount
                     ELSE GlobalPerDay * budgetAlerts + globalCount
      /\ budgetAlerted => globalCount = GlobalPerDay /\ budgetAlerts > 0
  BY DEF TurnsInv
<1>3. turnsToday' \in [Talkers -> Nat]  BY <1>1, <1>2
<1>4. AllTurns' = AllTurns + 1 /\ AllTurns \in Nat
  <2>0. /\ turnsToday \in [Talkers -> Nat] /\ turnsToday' \in [Talkers -> Nat]
             /\ IsFiniteSet(Talkers)
        /\ turnsToday' = [turnsToday EXCEPT ![s] = @ + 1]
    BY <1>1, <1>2, <1>3
  <2> HIDE LimitsAssumption
  <2>1. Total(turnsToday') = Total(turnsToday) + 1  BY ONLY <2>0, s \in Talkers, TotalOneMore
  <2> QED BY <1>2, <1>3, <2>1, AllTurnsFacts, AllTurnsFactsNext
<1>5. turnCounts' \in [Talkers -> 0 .. PerDay] /\ globalCount' \in 0 .. GlobalPerDay  BY <1>1, <1>2
<1>6. PerDay * (lives - 1) \in Int /\ GlobalPerDay * (lives - 1) \in Int
        /\ GlobalPerDay * budgetAlerts \in Int
  BY <1>2, Times
<1>7. \A t \in Talkers : turnsToday'[t] <= PerDay * (lives' - 1) + turnCounts'[t]
  <2> TAKE t \in Talkers
  <2>1. turnsToday[t] <= PerDay * (lives - 1) + turnCounts[t] /\ turnsToday[t] \in Nat
          /\ turnCounts[t] \in Nat
    BY <1>2
  <2>2. turnsToday'[t] = (IF t = s THEN turnsToday[t] + 1 ELSE turnsToday[t])
        /\ turnCounts'[t] = (IF t = s THEN turnCounts[t] + 1 ELSE turnCounts[t])
    BY <1>1, <1>2
  <2> QED BY <1>1, <1>6, <2>1, <2>2
<1>8. ~budgetAlerted  BY <1>1, <1>2
<1>9. /\ AllTurns' <= GlobalPerDay * (lives' - 1) + globalCount'
      /\ AllTurns' >= GlobalPerDay * budgetAlerts' + globalCount'
  BY <1>1, <1>2, <1>4, <1>6, <1>8
<1> QED BY <1>1, <1>3, <1>5, <1>7, <1>8, <1>9 DEF TurnsInv

\* The day begins with nothing counted.
LEMMA NothingCounted ==
  ASSUME turnsToday = [s \in Talkers |-> 0]
  PROVE  AllTurns = 0
<1>1. turnsToday \in [Talkers -> Nat] /\ \A s \in Talkers : turnsToday[s] = 0  OBVIOUS
<1>2. Total(turnsToday) = 0  BY <1>1, TotalZero
<1> QED BY <1>1, <1>2, AllTurnsFacts

LEMMA TurnsBegin == LimitsInit => TurnsInv
<1> SUFFICES ASSUME LimitsInit PROVE TurnsInv  OBVIOUS
<1>1. /\ turnCounts = [s \in Talkers |-> 0] /\ turnsToday = [s \in Talkers |-> 0]
      /\ globalCount = 0 /\ budgetAlerted = FALSE /\ budgetAlerts = 0 /\ turnedAway = FALSE
           /\ lives = 1
  BY DEF LimitsInit
<1>2. AllTurns = 0  BY <1>1, NothingCounted
<1>3. PerDay * (lives - 1) = 0 /\ GlobalPerDay * (lives - 1) = 0 /\ GlobalPerDay * budgetAlerts = 0
  BY <1>1, Times
<1>4. /\ turnCounts \in [Talkers -> 0 .. PerDay] /\ turnsToday \in [Talkers -> Nat]
      /\ \A s \in Talkers : turnsToday[s] = 0 /\ turnCounts[s] = 0
  BY <1>1
<1>5. \A s \in Talkers : turnsToday[s] <= PerDay * (lives - 1) + turnCounts[s]  BY <1>3, <1>4
<1>6. /\ AllTurns <= GlobalPerDay * (lives - 1) + globalCount
      /\ AllTurns >= GlobalPerDay * budgetAlerts + globalCount
  BY <1>1, <1>2, <1>3
<1>7. /\ globalCount \in 0 .. GlobalPerDay /\ budgetAlerts \in 0 .. MaxLives
           /\ lives \in 1 .. MaxLives
      /\ budgetAlerts <= lives - 1 /\ (turnedAway <=> budgetAlerts > 0)
  BY <1>1
<1> QED BY <1>1, <1>4, <1>5, <1>6, <1>7 DEF TurnsInv

LEMMA NewDayKeeps ==
  ASSUME TurnsInv, NewDay
  PROVE  TurnsInv'
<1>1. /\ turnCounts' = [s \in Talkers |-> 0] /\ turnsToday' = [s \in Talkers |-> 0]
      /\ globalCount' = 0 /\ budgetAlerted' = FALSE /\ budgetAlerts' = 0 /\ turnedAway' = FALSE
           /\ lives' = 1
  BY DEF NewDay
<1>2. AllTurns' = 0
  <2>1. turnsToday' \in [Talkers -> Nat] /\ \A s \in Talkers : turnsToday'[s] = 0  BY <1>1
  <2>2. Total(turnsToday') = 0  BY <2>1, TotalZero
  <2> QED BY <2>1, <2>2, AllTurnsFactsNext
<1>3. PerDay * (lives' - 1) = 0 /\ GlobalPerDay * (lives' - 1) = 0
        /\ GlobalPerDay * budgetAlerts' = 0
  BY <1>1, Times
<1>4. /\ turnCounts' \in [Talkers -> 0 .. PerDay] /\ turnsToday' \in [Talkers -> Nat]
      /\ \A s \in Talkers : turnsToday'[s] = 0 /\ turnCounts'[s] = 0
  BY <1>1
<1>5. \A s \in Talkers : turnsToday'[s] <= PerDay * (lives' - 1) + turnCounts'[s]  BY <1>3, <1>4
<1>6. /\ AllTurns' <= GlobalPerDay * (lives' - 1) + globalCount'
      /\ AllTurns' >= GlobalPerDay * budgetAlerts' + globalCount'
  BY <1>1, <1>2, <1>3
<1>7. /\ globalCount' \in 0 .. GlobalPerDay /\ budgetAlerts' \in 0 .. MaxLives
           /\ lives' \in 1 .. MaxLives
      /\ budgetAlerts' <= lives' - 1 /\ (turnedAway' <=> budgetAlerts' > 0)
  BY <1>1
<1> QED BY <1>1, <1>4, <1>5, <1>6, <1>7 DEF TurnsInv

LEMMA RestartKeeps ==
  ASSUME TurnsInv, LimitsRestart
  PROVE  TurnsInv'
<1>1. /\ lives < MaxLives /\ lives' = lives + 1 /\ turnCounts' = [s \in Talkers |-> 0]
      /\ globalCount' = 0 /\ budgetAlerted' = FALSE
      /\ turnsToday' = turnsToday /\ budgetAlerts' = budgetAlerts /\ turnedAway' = turnedAway
  BY DEF LimitsRestart
<1>2. /\ turnCounts \in [Talkers -> 0 .. PerDay] /\ turnsToday \in [Talkers -> Nat]
      /\ globalCount \in 0 .. GlobalPerDay /\ lives \in 1 .. MaxLives
           /\ budgetAlerts \in 0 .. MaxLives
      /\ \A t \in Talkers : turnsToday[t] <= PerDay * (lives - 1) + turnCounts[t]
      /\ AllTurns <= GlobalPerDay * (lives - 1) + globalCount
      /\ AllTurns >= IF budgetAlerted THEN GlobalPerDay * (budgetAlerts - 1) + globalCount
                     ELSE GlobalPerDay * budgetAlerts + globalCount
      /\ budgetAlerted => globalCount = GlobalPerDay /\ budgetAlerts > 0
      /\ budgetAlerts <= IF budgetAlerted THEN lives ELSE lives - 1
  BY DEF TurnsInv
<1>3. AllTurns' = AllTurns /\ AllTurns \in Nat  BY <1>1, <1>2, AllTurnsFacts, AllTurnsFactsNext
<1>4. /\ PerDay * (lives - 1) = PerDay * lives - PerDay /\ PerDay * lives \in Int
      /\ GlobalPerDay * (lives - 1) = GlobalPerDay * lives - GlobalPerDay
           /\ GlobalPerDay * lives \in Int
      /\ GlobalPerDay * (budgetAlerts - 1) = GlobalPerDay * budgetAlerts - GlobalPerDay
      /\ GlobalPerDay * budgetAlerts \in Int
  BY <1>2, Times
<1>5. lives' - 1 = lives /\ lives' \in 1 .. MaxLives
  <2>1. lives \in 1 .. MaxLives /\ lives < MaxLives /\ lives' = lives + 1 /\ MaxLives \in Nat
    BY <1>1, <1>2
  <2> QED BY ONLY <2>1
<1>6. \A t \in Talkers : turnsToday'[t] <= PerDay * (lives' - 1) + turnCounts'[t]
  <2> TAKE t \in Talkers
  <2>1. turnsToday[t] <= PerDay * (lives - 1) + turnCounts[t] /\ turnsToday[t] \in Nat
          /\ turnCounts[t] \in 0 .. PerDay
    BY <1>2
  <2>2. turnsToday[t] <= PerDay * lives  BY <1>4, <2>1
  <2> QED BY <1>1, <1>4, <1>5, <2>2
<1>7. AllTurns' <= GlobalPerDay * (lives' - 1) + globalCount'  BY <1>1, <1>2, <1>3, <1>4, <1>5
<1>8. AllTurns' >= GlobalPerDay * budgetAlerts' + globalCount'
  BY <1>1, <1>2, <1>3, <1>4
<1>9. budgetAlerts' <= lives' - 1  BY <1>1, <1>2, <1>5
<1>10. /\ turnCounts' \in [Talkers -> 0 .. PerDay] /\ globalCount' \in 0 .. GlobalPerDay
       /\ turnsToday' \in [Talkers -> Nat] /\ budgetAlerts' \in 0 .. MaxLives
  BY <1>1, <1>2
<1>11. /\ turnedAway' \in BOOLEAN /\ (turnedAway' <=> budgetAlerts' > 0)
  BY <1>1 DEF TurnsInv
<1> QED BY <1>1, <1>5, <1>6, <1>7, <1>8, <1>9, <1>10, <1>11 DEF TurnsInv

-----------------------------------------------------------------------------
LimitsInv == WindowInv /\ passed \in [Keys -> Seq(MinuteAges)] /\ TurnsInv

LEMMA LimitsBegin == LimitsInit => LimitsInv
<1> SUFFICES ASSUME LimitsInit PROVE LimitsInv  OBVIOUS
<1>1. passed = [k \in Keys |-> <<>>] /\ <<>> \in Seq(MinuteAges)  BY DEF LimitsInit
<1>2. passed \in [Keys -> Seq(MinuteAges)]  BY <1>1
<1> QED BY <1>2, WindowBegins, TurnsBegin DEF LimitsInv

LEMMA LimitsStep == LimitsInv /\ [LimitsNext]_limitVars => LimitsInv'
<1> SUFFICES ASSUME LimitsInv, [LimitsNext]_limitVars PROVE LimitsInv'  OBVIOUS
<1>0. WindowInv /\ passed \in [Keys -> Seq(MinuteAges)] /\ TurnsInv  BY DEF LimitsInv
<1>1. ASSUME NEW k \in Keys, TooOften(k) PROVE LimitsInv'
  <2>1. WindowInv'  BY <1>0, <1>1, DoorKeeps
  <2>2. TurnsInv'  BY <1>0, <1>1, CountsKeep DEF TooOften
  <2> QED BY <1>0, <1>1, <2>1, <2>2 DEF LimitsInv, TooOften
<1>2. ASSUME NEW k \in Keys, Passes(k) PROVE WindowInv' /\ passed' \in [Keys -> Seq(MinuteAges)]
  <2>1. WindowInv'  BY <1>0, <1>2, DoorKeeps
  <2>2. 0 \in MinuteAges  BY DEF MinuteAges
  <2>3. Append(passed[k], 0) \in Seq(MinuteAges)  BY <1>0, <2>2
  <2>4. passed' \in [Keys -> Seq(MinuteAges)]  BY <1>0, <1>2, <2>3 DEF Passes
  <2> QED BY <2>1, <2>4
<1>3. ASSUME NEW k \in Keys, HostIsSpent(k) PROVE LimitsInv'
  BY <1>0, <1>2, <1>3, SpentKeeps DEF HostIsSpent, LimitsInv
<1>4. ASSUME NEW k \in Keys, NEW s \in Talkers, SessionIsSpent(k, s) PROVE LimitsInv'
  <2>1. TurnsInv'  BY <1>0, <1>4, CountsKeep DEF SessionIsSpent, Passes
  <2> QED BY <1>2, <1>4, <2>1 DEF SessionIsSpent, LimitsInv
<1>5. ASSUME NEW k \in Keys, NEW s \in Talkers, LetIn(k, s) PROVE LimitsInv'
  BY <1>0, <1>2, <1>5, LetInKeeps DEF LetIn, LimitsInv
<1>6. CASE Tick
  <2>1. TurnsInv'  BY <1>0, <1>6, CountsKeep DEF Tick
  <2> QED BY <1>0, <1>6, <2>1, TickKeeps DEF LimitsInv
<1>7. CASE NewDay
  <2>1. TurnsInv'  BY <1>0, <1>7, NewDayKeeps
  <2>2. hits' = hits /\ passed' = passed  BY <1>7 DEF NewDay
  <2> QED BY <1>0, <2>1, <2>2 DEF LimitsInv, WindowInv, PassedAreInWindow, MinuteHolds
<1>8. CASE LimitsRestart
  <2>1. TurnsInv'  BY <1>0, <1>8, RestartKeeps
  <2>2. hits' = [k \in Keys |-> <<>>] /\ passed' = [k \in Keys |-> <<>>]  BY <1>8 DEF LimitsRestart
  <2>3. WithinMinute(<<>>) = <<>>  BY SiftEmpty DEF WithinMinute
  <2>4. <<>> \in Seq(HitAges) /\ <<>> \in Seq(MinuteAges) /\ Len(<<>>) <= PerMinute  OBVIOUS
  <2>5. hits' \in [Keys -> Seq(HitAges)] /\ passed' \in [Keys -> Seq(MinuteAges)]  BY <2>2, <2>4
  <2>6. PassedAreInWindow' /\ MinuteHolds'  BY <2>2, <2>3, <2>4 DEF PassedAreInWindow, MinuteHolds
  <2> QED BY <2>1, <2>5, <2>6 DEF LimitsInv, WindowInv
<1>9. CASE UNCHANGED limitVars
  <2>1. TurnsInv'  BY <1>0, <1>9, CountsKeep DEF limitVars, countsVars
  <2>2. hits' = hits /\ passed' = passed  BY <1>9 DEF limitVars
  <2> QED BY <1>0, <2>1, <2>2 DEF LimitsInv, WindowInv, PassedAreInWindow, MinuteHolds
<1> QED BY <1>1, <1>3, <1>4, <1>5, <1>6, <1>7, <1>8, <1>9 DEF LimitsNext

LEMMA LimitsHeld == LimitsInv => LimitsTypeOK /\ LimitsSound
<1> SUFFICES ASSUME LimitsInv PROVE LimitsTypeOK /\ LimitsSound  OBVIOUS
<1>1. /\ turnCounts \in [Talkers -> 0 .. PerDay] /\ turnsToday \in [Talkers -> Nat]
      /\ globalCount \in 0 .. GlobalPerDay /\ lives \in 1 .. MaxLives
           /\ budgetAlerts \in 0 .. MaxLives
      /\ \A t \in Talkers : turnsToday[t] <= PerDay * (lives - 1) + turnCounts[t]
      /\ AllTurns <= GlobalPerDay * (lives - 1) + globalCount
      /\ AllTurns >= IF budgetAlerted THEN GlobalPerDay * (budgetAlerts - 1) + globalCount
                     ELSE GlobalPerDay * budgetAlerts + globalCount
      /\ budgetAlerted => globalCount = GlobalPerDay /\ budgetAlerts > 0
      /\ budgetAlerts <= IF budgetAlerted THEN lives ELSE lives - 1
      /\ turnedAway <=> budgetAlerts > 0
  BY DEF LimitsInv, TurnsInv
<1>2. AllTurns \in Nat  BY <1>1, AllTurnsFacts
<1>3. /\ PerDay * (lives - 1) = PerDay * lives - PerDay /\ PerDay * lives \in Int
      /\ GlobalPerDay * (lives - 1) = GlobalPerDay * lives - GlobalPerDay
           /\ GlobalPerDay * lives \in Int
      /\ GlobalPerDay * (budgetAlerts - 1) = GlobalPerDay * budgetAlerts - GlobalPerDay
      /\ GlobalPerDay * budgetAlerts \in Int
      /\ PerDay * lives <= PerDay * MaxLives
  BY <1>1, Times
<1>4. \A t \in Talkers : turnsToday[t] <= PerDay * lives
  <2> TAKE t \in Talkers
  <2>1. turnsToday[t] \in Nat /\ turnCounts[t] \in 0 .. PerDay  BY <1>1
  <2> QED BY <1>1, <1>3, <2>1
<1>5. turnsToday \in [Talkers -> 0 .. PerDay * MaxLives]
  <2>1. \A t \in Talkers : turnsToday[t] \in 0 .. PerDay * MaxLives
    <3> TAKE t \in Talkers
    <3>1. PerDay * MaxLives \in Int /\ turnsToday[t] \in Nat  BY <1>1, Times
    <3> QED BY <1>3, <1>4, <3>1
  <2> QED BY <1>1, <2>1
<1>6. LimitsTypeOK
  BY <1>1, <1>5 DEF LimitsTypeOK, LimitsInv, WindowInv, TurnsInv, HitAges, MinuteAges
<1>7. DayHolds  BY <1>1, <1>2, <1>3, <1>4 DEF DayHolds
<1>8. SpentIsTold  BY <1>1, <1>2, <1>3 DEF SpentIsTold
<1> QED BY <1>6, <1>7, <1>8 DEF LimitsSound, LimitsInv, WindowInv

\* The limits of the chat hold at every moment.
THEOREM LimitsHold == LimitsSpec => [](LimitsTypeOK /\ LimitsSound)
BY LimitsBegin, LimitsStep, LimitsHeld, PTL DEF LimitsSpec

HIDE LimitsAssumption

=============================================================================
