----------------------------- MODULE ActivityLog -----------------------------
(***************************************************************************)
(* The log of what the agents did (activity.py): one line for each act of a tool,     *)
(* with the trace of the turn it belongs to, in a file that is appended to, cut       *)
(* back when it has grown over its cap, and trimmed by age.  The trace of a turn is    *)
(* kept by chat session in the pool of shoppers (session_pool.py), and on the one        *)
(* client of all merchant turns (host.py).                                   *)
(*                                                                         *)
(* The log's code never awaits, so a record and a rewrite are one step each; the       *)
(* host may stop inside one.  Acts are numbered as they end; age follows the number.     *)
(* Bound: a torn line ends between two characters (within one, the file could not be      *)
(* read at all).                                                            *)
(***************************************************************************)
EXTENDS Integers, Sequences, Recursions

CONSTANTS
  LogTurns,         \* turns, each with a trace of its own
  Chats,            \* chat sessions of shoppers
  Console,          \* the merchant's client
  NoTrace,
  LogCap, EnforceEvery,
  MaxActs,          \* bound: acts
  MaxStops          \* bound: stops of the host

ASSUME LogAssumption ==
  /\ Console \notin Chats /\ NoTrace \notin LogTurns
  /\ {LogCap, EnforceEvery} \subseteq Nat \ {0}
  /\ {MaxActs, MaxStops} \subseteq Nat

VARIABLES
  traceOf,          \* _traces of the pool, and the trace id of the merchant's client
  consoleTrace,     \* _state["merchant_trace"]
  chatting,         \* where each turn is
  logFile,          \* the lines that can be read
  fragment,         \* the file ends within a line
  sinceEnforce,     \* _writes_since_enforce
  acts,             \* history: how many acts have ended
  unlogged,        \* history: acts whose line was never whole, or was torn
  agedOut,          \* history: acts up to this one were trimmed by age
  outrun,        \* history: turns during which another began with the same holder of a trace
  stops, unchecked  \* history: stops in all, and since the cap was last enforced

logVars == <<traceOf, consoleTrace, chatting, logFile, fragment, sinceEnforce, acts, unlogged,
             agedOut, outrun, stops, unchecked>>

Holders == Chats \cup {Console}
Waiting == [at |-> "waiting", holder |-> Console]
Line == [act : 1 .. MaxActs, turn : LogTurns, trace : LogTurns \cup {NoTrace}]

LogTypeOK ==
  /\ traceOf \in [Holders -> LogTurns \cup {NoTrace}]
  /\ consoleTrace \in LogTurns \cup {NoTrace}
  /\ chatting \in [LogTurns -> [at : {"waiting", "asked", "running", "over"}, holder : Holders]]
  /\ logFile \in Seq(Line)
  /\ fragment \in BOOLEAN
  /\ sinceEnforce \in 0 .. EnforceEvery - 1
  /\ acts \in 0 .. MaxActs /\ agedOut \in 0 .. MaxActs
  /\ unlogged \subseteq 1 .. MaxActs /\ outrun \subseteq LogTurns
  /\ stops \in 0 .. MaxStops /\ unchecked \in 0 .. MaxStops

LogInit ==
  /\ traceOf = [h \in Holders |-> NoTrace]
  /\ consoleTrace = NoTrace
  /\ chatting = [t \in LogTurns |-> Waiting]
  /\ logFile = <<>> /\ fragment = FALSE /\ sinceEnforce = 0
  /\ acts = 0 /\ unlogged = {} /\ agedOut = 0 /\ outrun = {}
  /\ stops = 0 /\ unchecked = 0

-----------------------------------------------------------------------------
(* Turns and their traces.                                                  *)

fileVars == <<logFile, fragment, sinceEnforce, acts, unlogged, agedOut, stops, unchecked>>

Alive(h) == {t \in LogTurns : chatting[t].at \in {"asked", "running"} /\ chatting[t].holder = h}

\* defect: a pooled shopper keeps the trace of its earlier turn
ShopChatUnbound(t, c) ==
  /\ chatting[t].at = "waiting"
  /\ chatting' = [chatting EXCEPT ![t] = [at |-> "running", holder |-> c]]
  /\ traceOf' = [traceOf EXCEPT ![c] = IF @ = NoTrace THEN t ELSE @]
  /\ outrun' = outrun \cup Alive(c)
  /\ UNCHANGED <<consoleTrace, fileVars>>

\* shop_chat: bind_trace, before the turn begins.
ShopChat(t, c) ==
  /\ chatting[t].at = "waiting"
  /\ chatting' = [chatting EXCEPT ![t] = [at |-> "running", holder |-> c]]
  /\ traceOf' = [traceOf EXCEPT ![c] = t]
  /\ outrun' = outrun \cup Alive(c)
  /\ UNCHANGED <<consoleTrace, fileVars>>

\* merchant_chat leaves the trace where the stream of the answer will look for it ...
MerchantChat(t) ==
  /\ chatting[t].at = "waiting"
  /\ chatting' = [chatting EXCEPT ![t] = [at |-> "asked", holder |-> Console]]
  /\ consoleTrace' = t
  /\ outrun' = outrun \cup Alive(Console)
  /\ UNCHANGED <<traceOf, fileVars>>

\* ... and _run_merchant_turn gives it to the client that all turns share.
MerchantTurn(t) ==
  /\ chatting[t].at = "asked"
  /\ chatting' = [chatting EXCEPT ![t].at = "running"]
  /\ traceOf' = [traceOf EXCEPT ![Console] = consoleTrace]
  /\ UNCHANGED <<consoleTrace, outrun, fileVars>>

EndsTurn(t) ==
  /\ chatting[t].at = "running"
  /\ chatting' = [chatting EXCEPT ![t].at = "over"]
  /\ UNCHANGED <<traceOf, consoleTrace, outrun, fileVars>>

-----------------------------------------------------------------------------
(* The file.                                                               *)

traceVars == <<traceOf, consoleTrace, outrun>>

\* defect: the oldest lines are kept
NewestFirst(lines) ==
  IF Len(lines) <= LogCap THEN lines ELSE SubSeq(lines, 1, (LogCap * 9) \div 10)

\* _enforce_cap: 90 % of the cap, the newest.
Newest(lines) ==
  IF Len(lines) <= LogCap THEN lines
  ELSE SubSeq(lines, Len(lines) - (LogCap * 9) \div 10 + 1, Len(lines))

\* A tool call of a turn has ended: record appends its line, with the trace that is bound by now,
\* and every so often enforces the cap.  After half a line its own cannot be read either.
Act(t) ==
  LET line == [act |-> acts + 1, turn |-> t, trace |-> traceOf[chatting[t].holder]]
      lines == IF fragment THEN logFile ELSE Append(logFile, line)
      enforces == sinceEnforce + 1 = EnforceEvery
  IN  /\ chatting[t].at = "running" /\ acts < MaxActs
      /\ acts' = acts + 1
      /\ fragment' = FALSE
      /\ unlogged' = IF fragment THEN unlogged \cup {acts + 1} ELSE unlogged
      /\ sinceEnforce' = IF enforces THEN 0 ELSE sinceEnforce + 1
      /\ logFile' = IF enforces THEN Newest(lines) ELSE lines
      /\ unchecked' = IF enforces THEN 0 ELSE unchecked
      /\ UNCHANGED <<chatting, agedOut, stops, traceVars>>

\* The line cannot be written: the turn goes on without it.
ActUnrecorded(t) ==
  /\ chatting[t].at = "running" /\ acts < MaxActs
  /\ acts' = acts + 1
  /\ unlogged' = unlogged \cup {acts + 1}
  /\ UNCHANGED <<chatting, logFile, fragment, sinceEnforce, agedOut, stops, unchecked, traceVars>>

Younger(n) == Sift(logFile, {line \in Line : line.act > n})

\* trim_before, once a day: it rewrites the file when a line is too old.
TrimsLog ==
  /\ \E n \in agedOut + 1 .. acts :
       /\ Younger(n) # logFile
       /\ logFile' = Younger(n) /\ agedOut' = n
  /\ fragment' = FALSE
  /\ UNCHANGED <<chatting, sinceEnforce, acts, unlogged, stops, unchecked, traceVars>>

ActsOf(lines) == {lines[i].act : i \in DOMAIN lines}

\* The host stops: between two steps, within the line of an act, or within a rewrite, which had
\* emptied the file and written some of it again.
HostStops ==
  /\ stops < MaxStops
  /\ stops' = stops + 1 /\ unchecked' = unchecked + 1
  /\ \/ UNCHANGED <<logFile, fragment, acts, unlogged>>
     \/ /\ acts < MaxActs /\ \E t \in LogTurns : chatting[t].at = "running"
        /\ acts' = acts + 1 /\ unlogged' = unlogged \cup {acts + 1} /\ fragment' = TRUE
        /\ UNCHANGED logFile
     \/ /\ \E n \in 0 .. Len(logFile) - 1 : logFile' = SubSeq(logFile, 1, n)
        /\ fragment' \in BOOLEAN
        /\ unlogged' = unlogged \cup (ActsOf(logFile) \ ActsOf(logFile'))
        /\ UNCHANGED acts
  /\ sinceEnforce' = 0
  /\ chatting' = [t \in LogTurns |->
       IF chatting[t].at = "waiting" THEN Waiting ELSE [chatting[t] EXCEPT !.at = "over"]]
  /\ traceOf' = [h \in Holders |-> NoTrace] /\ consoleTrace' = NoTrace
  /\ UNCHANGED <<agedOut, outrun>>

LogNext ==
  \/ \E t \in LogTurns :
       \/ MerchantChat(t) \/ MerchantTurn(t) \/ EndsTurn(t) \/ Act(t) \/ ActUnrecorded(t)
       \/ \E c \in Chats : ShopChat(t, c)
  \/ TrimsLog \/ HostStops

LogSpec == LogInit /\ [][LogNext]_logVars

-----------------------------------------------------------------------------
(* The log holds every act in its order but those that could not be written or           *)
(* were torn, that are too old, or that a cap's worth of later ones has pushed out.       *)
LogIsRecent ==
  /\ \A i, j \in DOMAIN logFile : i < j => logFile[i].act < logFile[j].act
  /\ \A n \in 1 .. acts :
       \/ n \in ActsOf(logFile) \cup unlogged
       \/ n <= agedOut \/ n <= acts - (LogCap * 9) \div 10

(* The file stays near its cap; each stop of the host lets it grow once more by what      *)
(* comes between two checks, for the count of the writes begins anew.                *)
LogIsBounded == Len(logFile) <= LogCap + (EnforceEvery - 1) * (unchecked + 1)

(* The trace of an act leads to the turn that did it (host.py: it filters one turn),      *)
(* unless another turn began in its session, or at the console, before it was over.      *)
TraceLeadsBack ==
  \A i \in DOMAIN logFile : logFile[i].trace = logFile[i].turn \/ logFile[i].turn \in outrun

(* An operator can rely on the log.                                          *)
LogSound == LogIsRecent /\ LogIsBounded /\ TraceLeadsBack
=============================================================================
