------------------------------- MODULE FileLock -------------------------------
(***************************************************************************)
(* The lock of one stored file (withFileLock of storage/atomic.js): a      *)
(* directory that mkdir creates, with the owner's process in owner.json.   *)
(* A process may die at any time and leave it behind. Calls of one process *)
(* queue up in front of it. The lock that guards reclaiming is the same    *)
(* lock on another path; it is modelled by its holder, and freed when the  *)
(* holder dies.                                                            *)
(***************************************************************************)
EXTENDS Naturals, FiniteSets

CONSTANTS
  Processes,  \* each is the set of its calls of withFileLock for the path
  MayStall,   \* a step may take longer than orphanGraceMs
  None

Calls == UNION Processes

ASSUME ProcessAssumption ==
  /\ \A p, q \in Processes : p = q \/ p \cap q = {}
  /\ \A p \in Processes : IsFiniteSet(p)
  /\ None \notin Calls /\ MayStall \in BOOLEAN

VARIABLES
  dir,       \* the lock directory: "missing", "young" or, once its mtime is
             \* orphanGraceMs ago, "old"
  owner,     \* the call named in its owner.json, or None
  reclaimer, \* the call that holds the lock of path.reclaim, or None
  pc,
  found,     \* the owner a reclaiming call read
  place,     \* place of a call in the queue of its process, 0 before it
  crashed    \* processes that died

lock == <<dir, owner, reclaimer, found>>
lockVars == <<lock, pc, place, crashed>>

Live(c) == \A p \in crashed : c \notin p
Over == {"done", "failed", "dead"}
Siblings(c) == UNION {p \in Processes : c \in p}

\* A turn that a failed call does not pass on.
TurnAfterSuccess(c) ==
  \A d \in Siblings(c) : place[d] \in 1..(place[c] - 1) => pc[d] = "done"

\* Every earlier call of the process has ended.
Turn(c) == \A d \in Siblings(c) : place[d] \in 1..(place[c] - 1) => pc[d] \in Over

\* The recorded process is gone.
Dead(o) == o # None /\ ~Live(o)

LockInit ==
  /\ dir = "missing" /\ owner = None /\ reclaimer = None
  /\ pc = [c \in Calls |-> "idle"] /\ found = [c \in Calls |-> None]
  /\ place = [c \in Calls |-> 0] /\ crashed = {}

Goto(c, there) == pc' = [pc EXCEPT ![c] = there]
At(c, here) == Live(c) /\ pc[c] = here

-----------------------------------------------------------------------------
(***************************************************************************)
(* Acquire.                                                                *)
(***************************************************************************)
Enqueue(c) ==
  /\ At(c, "idle")
  /\ place' = [place EXCEPT ![c] = 1 + Cardinality({d \in Siblings(c) : place[d] # 0})]
  /\ Goto(c, "queued")
  /\ UNCHANGED <<lock, crashed>>

MakeDir(c) ==
  /\ At(c, "queued") /\ Turn(c)
  /\ dir = "missing" /\ dir' = "young"
  /\ Goto(c, "naming")
  /\ UNCHANGED <<owner, reclaimer, found, place, crashed>>

\* owner.json is written, with the directory if that is gone; or it cannot
\* be written, and the directory stays without an owner.
Name(c) ==
  /\ At(c, "naming")
  /\ \/ dir' = "young" /\ owner' = c /\ Goto(c, "holding")
     \/ Goto(c, "failed") /\ UNCHANGED <<dir, owner>>
  /\ UNCHANGED <<reclaimer, found, place, crashed>>

\* A lock is taken for abandoned when its process is dead, or when it has no
\* owner and is old.
Abandoned == Dead(owner) \/ (owner = None /\ dir = "old")

\* mkdir failed and the lock looks abandoned.
Suspect(c) ==
  /\ At(c, "queued") /\ Turn(c) /\ Abandoned
  /\ Goto(c, "entering")
  /\ UNCHANGED <<lock, place, crashed>>

\* The lock is taken, and the deadline passed after some polls.
TimeOut(c) ==
  /\ At(c, "queued") /\ Turn(c) /\ dir # "missing" /\ ~Abandoned
  /\ Goto(c, "failed")
  /\ UNCHANGED <<lock, place, crashed>>

-----------------------------------------------------------------------------
(***************************************************************************)
(* Reclaim, under the lock of path.reclaim.                                *)
(***************************************************************************)
\* The wait for this lock has a deadline of its own.
Enter(c) ==
  /\ At(c, "entering")
  /\ \/ reclaimer = None /\ reclaimer' = c /\ Goto(c, "rereading")
     \/ reclaimer # None /\ Goto(c, "failed") /\ UNCHANGED reclaimer
  /\ UNCHANGED <<dir, owner, found, place, crashed>>

Reread(c) ==
  /\ At(c, "rereading")
  /\ found' = [found EXCEPT ![c] = owner]
  /\ Goto(c, "restating")
  /\ UNCHANGED <<dir, owner, reclaimer, place, crashed>>

\* The directory's age is not looked at again.
RestatAnyAge(c) ==
  /\ At(c, "restating")
  /\ found' = [found EXCEPT ![c] = None]
  /\ IF dir # "missing" /\ (Dead(found[c]) \/ found[c] = None)
     THEN Goto(c, "moving") /\ UNCHANGED reclaimer
     ELSE Goto(c, "queued") /\ reclaimer' = None
  /\ UNCHANGED <<dir, owner, place, crashed>>

Restat(c) ==
  /\ At(c, "restating")
  /\ found' = [found EXCEPT ![c] = None]
  /\ IF dir # "missing" /\ (Dead(found[c]) \/ (found[c] = None /\ dir = "old"))
     THEN Goto(c, "moving") /\ UNCHANGED reclaimer
     ELSE Goto(c, "queued") /\ reclaimer' = None
  /\ UNCHANGED <<dir, owner, place, crashed>>

\* The directory is renamed, whatever is there now, and then removed.
MoveAway(c) ==
  /\ At(c, "moving")
  /\ dir' = "missing" /\ owner' = None
  /\ reclaimer' = None
  /\ Goto(c, "queued")
  /\ UNCHANGED <<found, place, crashed>>

\* The reclaim lock of a dead process is reclaimed in the same way.
FreeReclaimer ==
  /\ Dead(reclaimer) /\ reclaimer' = None
  /\ UNCHANGED <<dir, owner, pc, found, place, crashed>>

-----------------------------------------------------------------------------
(***************************************************************************)
(* Release.                                                                *)
(***************************************************************************)
\* owner.json is read and, if it names this call, removed. Errors are
\* swallowed and leave the lock as it is.
Return(c) ==
  /\ At(c, "holding")
  /\ \/ /\ owner = c
        /\ owner' = None /\ dir' = "young" /\ Goto(c, "removing")
     \/ Goto(c, "done") /\ UNCHANGED <<dir, owner>>
  /\ UNCHANGED <<reclaimer, found, place, crashed>>

\* rmdir, which fails when the directory is not empty.
RemoveDir(c) ==
  /\ At(c, "removing")
  /\ dir' \in IF owner = None THEN {dir, "missing"} ELSE {dir}
  /\ Goto(c, "done")
  /\ UNCHANGED <<owner, reclaimer, found, place, crashed>>

-----------------------------------------------------------------------------
(***************************************************************************)
(* Time and death.                                                         *)
(***************************************************************************)
\* Steps that take less than orphanGraceMs unless the machine stalls.
Brief(c) == Live(c) /\ pc[c] \in {"naming", "removing", "restating"}

Age ==
  /\ dir = "young" /\ (MayStall \/ \A c \in Calls : ~Brief(c))
  /\ dir' = "old"
  /\ UNCHANGED <<owner, reclaimer, found, place, pc, crashed>>

\* A reclaim's two reads do not straddle a release by the owner that was read
\* and the end of its process, unless the machine stalls.
Crash(p) ==
  /\ p \notin crashed /\ crashed' = crashed \cup {p}
  /\ MayStall \/ \A c \in Calls : found[c] \in p => owner = found[c]
  /\ pc' = [c \in Calls |-> IF c \in p /\ pc[c] \notin Over THEN "dead" ELSE pc[c]]
  /\ found' = [c \in Calls |-> IF c \in p THEN None ELSE found[c]]
  /\ UNCHANGED <<dir, owner, reclaimer, place>>

-----------------------------------------------------------------------------
AcquireStep(c) == MakeDir(c) \/ Name(c) \/ Suspect(c) \/ TimeOut(c)
ReclaimStep(c) == Enter(c) \/ Reread(c) \/ Restat(c) \/ MoveAway(c)

CallStep(c) == AcquireStep(c) \/ ReclaimStep(c) \/ RemoveDir(c)

LockNext ==
  \/ \E c \in Calls : Enqueue(c) \/ CallStep(c) \/ Return(c)
  \/ FreeReclaimer
  \/ Age
  \/ \E p \in Processes : Crash(p)

LockSpec == LockInit /\ [][LockNext]_lockVars

-----------------------------------------------------------------------------
Places == {"idle", "queued", "naming", "entering", "rereading",
           "restating", "moving", "holding", "removing"} \cup Over

LockTypeOK ==
  /\ dir \in {"missing", "young", "old"}
  /\ owner \in Calls \cup {None} /\ reclaimer \in Calls \cup {None}
  /\ pc \in [Calls -> Places] /\ found \in [Calls -> Calls \cup {None}]
  /\ place \in [Calls -> Nat] /\ crashed \subseteq Processes

Holders == {c \in Calls : At(c, "holding")}

\* However locks are abandoned, found abandoned by several processes at once
\* and reclaimed, at most one live call runs its action.
Exclusion == \A c, d \in Holders : c = d

\* Nobody but its owner takes a lock away from a live process: "A lock is
\* reclaimed only when its recorded process is gone; age alone never lets a
\* slow writer lose its lock" (atomic.js:9).
KeptWhileAlive ==
  [][owner # None /\ Live(owner) /\ owner' # owner
       => pc[owner] = "holding" /\ pc'[owner] = "removing"]_lockVars
=============================================================================
