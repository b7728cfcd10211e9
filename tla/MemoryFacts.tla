---------------------------- MODULE MemoryFacts ----------------------------
(***************************************************************************)
(* What the agents remember of a shopper (memory_store.py and the post-turn pass of    *)
(* the vendored memory.py): one file of facts and purge counters that several         *)
(* processes read and write under a lock with a timeout.  A turn ends with a pass that   *)
(* awaits a model and stores what it learned, unless the shopper was forgotten        *)
(* meanwhile; a tool stores a fact at once; /shop/forget clears them.             *)
(*                                                                         *)
(* One shopper; a worker is a process with the one call it serves, for the calls of one  *)
(* process never overlap inside a store operation.  What the model proposes is any      *)
(* fact: that it leaves out what is held already is not told apart.  Nothing calls        *)
(* delete_fact, since no retention is configured.                                 *)
(***************************************************************************)
EXTENDS Integers, FiniteSets

CONSTANTS
  Workers,          \* bound: processes
  FactKeys, FactValues,
  NoFact,
  Free,             \* nobody has the lock
  MaxPurges         \* bound: times the shopper is forgotten

ASSUME MemoryAssumption ==
  /\ Free \notin Workers /\ MaxPurges \in Nat
  /\ FactKeys # {} /\ FactValues # {}

VARIABLES
  memFile,          \* the file: facts and purges, or what cannot be parsed
  memLock,          \* the exclusive lock
  recall,           \* what each worker is at
  learned,          \* history: the operations that ended, one after the other
  tornOnce          \* history: a write was cut short by a full disk

memoryVars == <<memFile, memLock, recall, learned, tornOnce>>

\* A fact's value; early: it is of an exchange that a purge its pass could not see has followed.
Fact == [value : FactValues, exchange : 0 .. MaxPurges, early : BOOLEAN]
Content == [facts : [FactKeys -> Fact \cup {NoFact}], purges : 0 .. MaxPurges]
NothingKept == [facts |-> [k \in FactKeys |-> NoFact], purges |-> 0]
Torn == [torn |-> TRUE]
AtRest == [at |-> "rest"]

\* at: in a turn; waiting for the model; with facts to store or a purge, and then under the lock.
Busy == [at : {"turn", "model", "upsert", "clear", "upserting", "clearing"},
         exchange : 0 .. MaxPurges, early : BOOLEAN, generation : 0 .. MaxPurges,
         key : FactKeys, value : FactValues, copy : Content]

MemoryTypeOK ==
  /\ memFile \in Content \cup {Torn}
  /\ memLock \in Workers \cup {Free}
  /\ recall \in [Workers -> Busy \cup {AtRest}]
  /\ learned \in Content
  /\ tornOnce \in BOOLEAN

MemoryInit ==
  /\ memFile = NothingKept
  /\ memLock = Free
  /\ recall = [w \in Workers |-> AtRest]
  /\ learned = NothingKept
  /\ tornOnce = FALSE

-----------------------------------------------------------------------------
IsAt(w, at) == recall[w].at = at

\* _read: a file that cannot be parsed holds nothing, and no purges.
Kept == IF memFile = Torn THEN NothingKept ELSE memFile

\* The lock of a reader is shared and its read is short: nobody writes meanwhile.
CanRead == memLock = Free

AnyKey == CHOOSE k \in FactKeys : TRUE
AnyValue == CHOOSE v \in FactValues : TRUE

BeginTurn(w) ==
  /\ IsAt(w, "rest")
  /\ recall' = [recall EXCEPT ![w] =
       [at |-> "turn", exchange |-> learned.purges, early |-> FALSE, generation |-> 0,
        key |-> AnyKey, value |-> AnyValue, copy |-> NothingKept]]
  /\ UNCHANGED <<memFile, memLock, learned, tornOnce>>

\* The save_memory tool of a turn: straight to the store.
SaveTool(w) ==
  /\ IsAt(w, "turn")
  /\ \E k \in FactKeys, v \in FactValues :
       recall' = [recall EXCEPT ![w].at = "upsert", ![w].key = k, ![w].value = v]
  /\ UNCHANGED <<memFile, memLock, learned, tornOnce>>

\* extract_and_store, after the answer: the purge generation, then the model is asked.
ReadGeneration(w) ==
  /\ IsAt(w, "turn") /\ CanRead
  /\ recall' = [recall EXCEPT ![w].at = "model", ![w].generation = Kept.purges]
  /\ UNCHANGED <<memFile, memLock, learned, tornOnce>>

\* defect: what the model proposes is stored whatever happened meanwhile
StoreProposal(w) ==
  /\ IsAt(w, "model") /\ CanRead
  /\ \E k \in FactKeys, v \in FactValues :
       recall' = [recall EXCEPT ![w].at = "upsert", ![w].key = k, ![w].value = v]
  /\ UNCHANGED <<memFile, memLock, learned, tornOnce>>

\* The model proposes a fact, and the generation is the one read before; or it is dropped.
CheckGeneration(w) ==
  /\ IsAt(w, "model") /\ CanRead
  /\ Kept.purges = recall[w].generation
  /\ \E k \in FactKeys, v \in FactValues :
       recall' = [recall EXCEPT ![w].at = "upsert", ![w].key = k, ![w].value = v]
  /\ UNCHANGED <<memFile, memLock, learned, tornOnce>>

\* /shop/forget
AskForget(w) ==
  /\ IsAt(w, "rest")
  /\ recall' = [recall EXCEPT ![w] =
       [at |-> "clear", exchange |-> 0, early |-> FALSE, generation |-> 0,
        key |-> AnyKey, value |-> AnyValue, copy |-> NothingKept]]
  /\ UNCHANGED <<memFile, memLock, learned, tornOnce>>

\* defect: the file is read before the lock is had
ReadsUnlocked(w) ==
  /\ recall[w].at \in {"upsert", "clear"}
  /\ recall' = [recall EXCEPT ![w].at = IF @ = "upsert" THEN "upserting" ELSE "clearing",
                              ![w].copy = Kept]
  /\ UNCHANGED <<memFile, memLock, learned, tornOnce>>

\* The exclusive lock is had and the file read under it.
LocksAndReads(w) ==
  /\ recall[w].at \in {"upsert", "clear"}
  /\ memLock = Free
  /\ memLock' = w
  /\ recall' = [recall EXCEPT ![w].at = IF @ = "upsert" THEN "upserting" ELSE "clearing",
                              ![w].copy = Kept]
  /\ UNCHANGED <<memFile, learned, tornOnce>>

-----------------------------------------------------------------------------
\* The fact takes its key's place.
Upserted(content, w) ==
  [content EXCEPT !.facts[recall[w].key] =
     [value |-> recall[w].value, exchange |-> recall[w].exchange, early |-> recall[w].early]]

Cleared(content) ==
  [facts |-> [k \in FactKeys |-> NoFact], purges |-> content.purges + 1]

\* A purge the others cannot see: they are in a turn and have not read the generation, or they
\* have compared it already.
Overtaken(w) ==
  [other \in Workers |->
     IF other = w THEN AtRest
     ELSE IF recall[other].at \in {"turn", "upsert"} THEN [recall[other] EXCEPT !.early = TRUE]
     ELSE recall[other]]

\* os.replace puts the new file in the old one's place, and the lock is given back.
Replaces(w) ==
  /\ recall[w].at \in {"upserting", "clearing"}
  /\ memLock' = IF memLock = w THEN Free ELSE memLock
  /\ IF IsAt(w, "upserting")
     THEN /\ memFile' = Upserted(recall[w].copy, w)
          /\ learned' = Upserted(learned, w)
          /\ recall' = [recall EXCEPT ![w] = AtRest]
     ELSE /\ learned.purges < MaxPurges /\ recall[w].copy.purges < MaxPurges
          /\ memFile' = Cleared(recall[w].copy)
          /\ learned' = Cleared(learned)
          /\ recall' = Overtaken(w)
  /\ UNCHANGED tornOnce

\* os.write takes only a part, and nobody looks at how much.
ReplacesTorn(w) ==
  /\ recall[w].at \in {"upserting", "clearing"}
  /\ memFile' = Torn
  /\ memLock' = IF memLock = w THEN Free ELSE memLock
  /\ recall' = [recall EXCEPT ![w] = AtRest]
  /\ tornOnce' = TRUE
  /\ UNCHANGED learned

\* The lock is not had in time, the disk is full, the model fails or the process stops: what was
\* written beside the file is never looked at, and the lock goes with the process.
GivesUp(w) ==
  /\ recall[w] # AtRest
  /\ recall' = [recall EXCEPT ![w] = AtRest]
  /\ memLock' = IF memLock = w THEN Free ELSE memLock
  /\ UNCHANGED <<memFile, learned, tornOnce>>

MemoryNext ==
  \E w \in Workers :
    \/ BeginTurn(w) \/ SaveTool(w) \/ ReadGeneration(w) \/ CheckGeneration(w)
    \/ AskForget(w) \/ LocksAndReads(w) \/ Replaces(w) \/ ReplacesTorn(w) \/ GivesUp(w)

MemorySpec == MemoryInit /\ [][MemoryNext]_memoryVars

-----------------------------------------------------------------------------
(* The file is what the operations that ended would have made of it one after the      *)
(* other: none loses what another process stored, none stops halfway.  Not so once      *)
(* a full disk has cut a write short.                                        *)
FactsKept == ~tornOnce => memFile = learned

(* No fact of an exchange that was forgotten since is in the file: a purge during       *)
(* the long wait for the model is noticed.  It is not when it falls in the turn           *)
(* itself, or between the comparison and the write.                             *)
ForgetHolds ==
  ~tornOnce => \A k \in FactKeys :
    memFile.facts[k] # NoFact /\ memFile.facts[k].exchange < memFile.purges =>
      memFile.facts[k].early

(* What is remembered is kept, and what is to be forgotten is.                  *)
MemorySound == FactsKept /\ ForgetHolds
=============================================================================
