------------------------------ MODULE DurableFile ------------------------------
(***************************************************************************)
(* A stored JSON file and its backup (readJsonFile and updateJsonFile of   *)
(* storage/atomic.js) under the lock of FileLock. The content is the set   *)
(* of updates it accounts for; an update adds itself to what it read.      *)
(***************************************************************************)
EXTENDS FileLock

CONSTANTS
  Updaters,     \* calls of updateJsonFile; the others are readJsonFile
  MaxDamage,    \* times the file is damaged from outside
  Gaps          \* failures may hit the gaps of atomic.js: a process dies or
                \* fails while a damaged file is moved aside and its backup
                \* not yet in place; the file is damaged after it was parsed
                \* and before its bytes are copied to the backup

ASSUME FileAssumption ==
  /\ Updaters \subseteq Calls /\ MaxDamage \in Nat /\ Gaps \in BOOLEAN

VARIABLES
  main, bak,  \* the file and its .bak
  stage,      \* how far a call's action is
  value,      \* the content the call works with
  damaged     \* times the file was damaged

disk == <<main, bak, damaged>>
action == <<stage, value>>
vars == <<lockVars, disk, action>>

Good(s) == [state |-> "good", has |-> s]
Missing == [state |-> "missing", has |-> {}]
Corrupt == [state |-> "corrupt", has |-> {}]

Working(c, s) == At(c, "holding") /\ stage[c] = s
Settled == {"finished", "gaveUp"}
Returned == {c \in Updaters : pc[c] = "done" /\ stage[c] = "finished"}

Init ==
  /\ LockInit
  /\ main = Missing /\ bak = Missing /\ damaged = 0
  /\ stage = [c \in Calls |-> "start"] /\ value = [c \in Calls |-> {}]

-----------------------------------------------------------------------------
\* A call has its content: a reader is through.
Loaded(c, s) ==
  /\ value' = [value EXCEPT ![c] = s]
  /\ stage' = [stage EXCEPT ![c] = IF c \in Updaters THEN "loaded" ELSE "finished"]

\* A content that does not parse is moved aside.
Load(c) ==
  /\ Working(c, "start")
  /\ IF main.state = "corrupt"
     THEN /\ main' = Missing
          /\ stage' = [stage EXCEPT ![c] = "quarantined"] /\ UNCHANGED value
     ELSE Loaded(c, main.has) /\ UNCHANGED main
  /\ UNCHANGED <<lockVars, bak, damaged>>

\* The backup takes its place, or the call goes on with the fallback.
Restore(c) ==
  /\ Working(c, "quarantined")
  /\ Loaded(c, bak.has)
  /\ main' = IF bak.state = "good" THEN bak ELSE main
  /\ UNCHANGED <<lockVars, bak, damaged>>

\* A backup that is not replaced.
BackupOnce(c) ==
  /\ Working(c, "loaded")
  /\ bak' = IF bak = Missing THEN main ELSE bak
  /\ stage' = [stage EXCEPT ![c] = "backed"]
  /\ UNCHANGED <<lockVars, main, damaged, value>>

\* atomicWriteFile: the new content is in a temporary file; the backup is
\* replaced, and then the file.
Backup(c) ==
  /\ Working(c, "loaded")
  /\ bak' = IF main = Missing THEN bak ELSE main
  /\ stage' = [stage EXCEPT ![c] = "backed"]
  /\ UNCHANGED <<lockVars, main, damaged, value>>

Install(c) ==
  /\ Working(c, "backed")
  /\ main' = Good(value[c] \cup {c})
  /\ stage' = [stage EXCEPT ![c] = "finished"]
  /\ UNCHANGED <<lockVars, bak, damaged, value>>

\* The content has no valid schema, the updater throws or storage is full.
GiveUp(c) ==
  /\ \/ \E s \in {"start", "loaded", "backed"} : Working(c, s)
     \/ Gaps /\ Working(c, "quarantined")
  /\ stage' = [stage EXCEPT ![c] = "gaveUp"]
  /\ UNCHANGED <<lockVars, disk, value>>

ActionStep(c) == Load(c) \/ Restore(c) \/ Backup(c) \/ Install(c)

-----------------------------------------------------------------------------
Issue(c) ==
  /\ Enqueue(c)
  /\ UNCHANGED <<disk, action>>

LockStep(c) ==
  /\ CallStep(c) \/ (stage[c] \in Settled /\ Return(c))
  /\ UNCHANGED <<disk, action>>

Recover == FreeReclaimer /\ UNCHANGED <<disk, action>>

Wait == Age /\ UNCHANGED <<disk, action>>

Die(p) ==
  /\ Gaps \/ \A c \in p : stage[c] # "quarantined"
  /\ Crash(p)
  /\ stage' = [c \in Calls |-> IF c \in p /\ pc[c] # "done" THEN "start" ELSE stage[c]]
  /\ value' = [c \in Calls |-> IF c \in p /\ pc[c] # "done" THEN {} ELSE value[c]]
  /\ UNCHANGED disk

Damage ==
  /\ main.state = "good" /\ damaged < MaxDamage
  /\ Gaps \/ \A c \in Calls : ~Working(c, "loaded")
  /\ main' = Corrupt /\ damaged' = damaged + 1
  /\ UNCHANGED <<lockVars, bak, action>>

Next ==
  \/ \E c \in Calls : Issue(c) \/ LockStep(c) \/ ActionStep(c) \/ GiveUp(c)
  \/ Recover
  \/ Wait
  \/ \E p \in Processes : Die(p)
  \/ Damage

Spec == Init /\ [][Next]_vars

\* As long as a live call can go on, one does; its deadline is such a step.
Fairness == WF_vars(\E c \in Calls : LockStep(c) \/ ActionStep(c))

FairSpec == Spec /\ Fairness

-----------------------------------------------------------------------------
Contents == [state : {"good", "missing", "corrupt"}, has : SUBSET Updaters]

TypeOK ==
  /\ LockTypeOK
  /\ main \in Contents /\ bak \in Contents /\ damaged \in 0..MaxDamage
  /\ stage \in [Calls -> {"start", "quarantined", "loaded", "backed"} \cup Settled]
  /\ value \in [Calls -> SUBSET Updaters]

\* The lock of a file is kept: one live call at most runs its action, and none
\* loses the lock to age while its process lives (storage/atomic.js).
LockIsKept == [](TypeOK /\ Exclusion) /\ KeptWhileAlive

\* An update that returned is in the file, whatever processes died at which
\* step of a write or of a recovery; each damage costs at most the last one.
AcknowledgedStays ==
  \/ main.state = "corrupt" \/ \E c \in Calls : stage[c] = "quarantined"
  \/ Cardinality(Returned \ main.has) <= damaged

\* Every call ends, by its deadline if a dead or a live process keeps the lock,
\* and passes its turn in the queue of its process on.
EveryCallEnds == <>[](\A c \in Calls : pc[c] \in {"idle"} \cup Over)
=============================================================================
