------------------------------ MODULE FifoLock ------------------------------
(***************************************************************************)
(* What createMutex (harness/mutex.js) promises its callers: one holder at *)
(* a time, and the lock goes to the waiting caller that asked first.  A    *)
(* caller may give up while it waits.  WorkerPool implements this lock     *)
(* with a chain of promises in which callers that gave up keep a place.    *)
(***************************************************************************)
CONSTANT Clients

VARIABLES
  waiting,  \* the callers that wait
  before,   \* of two that wait, which asked first: pairs, the first one in front
  holders   \* the callers inside the critical section

lockVars == <<waiting, before, holders>>

Request(c) ==
  /\ c \notin waiting \cup holders
  /\ waiting' = waiting \cup {c}
  /\ before' = before \cup (waiting \X {c})
  /\ UNCHANGED holders

Leave(gone) ==
  /\ waiting' = waiting \ gone
  /\ before' = {pair \in before : pair[1] \notin gone /\ pair[2] \notin gone}

Withdraw(given) ==
  /\ given # {} /\ given \subseteq waiting
  /\ Leave(given)
  /\ UNCHANGED holders

Acquire(c) ==
  /\ holders = {} /\ c \in waiting
  /\ \A d \in waiting : <<d, c>> \notin before
  /\ holders' = {c}
  /\ Leave({c})

Release ==
  /\ holders # {}
  /\ holders' = {}
  /\ UNCHANGED <<waiting, before>>

LockInit == waiting = {} /\ before = {} /\ holders = {}

LockNext ==
  \/ \E c \in Clients : Request(c) \/ Acquire(c)
  \/ \E given \in SUBSET Clients : Withdraw(given)
  \/ Release

LockSpec == LockInit /\ [][LockNext]_lockVars
=============================================================================
