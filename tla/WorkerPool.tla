----------------------------- MODULE WorkerPool -----------------------------
(***************************************************************************)
(* One task's workers: the main agent's tool round (runOne and             *)
(* mapWithConcurrency in agent/loop.js), the worker runtime                *)
(* (agent/subagents/runtime.js) and the workspace lock its writing workers *)
(* share (harness/mutex.js).                                               *)
(* `agent` calls of one round run in parallel, each creates its worker, so *)
(* a worker stands for its call; send_message and task_stop run alone.     *)
(* An edit is the revision the shared effect ledger gave it.               *)
(***************************************************************************)
EXTENDS Integers, Sequences, FiniteSets, SequencesExt, FiniteSetsExt

CONSTANTS
  Workers,      \* the `agent` calls of the task
  Writers,      \* those in implement or verify mode
  MaxWorkers,   \* MAX_WORKERS_PER_TASK
  MaxParallel,  \* MAX_PARALLEL_DISPATCH
  MaxPlaces,    \* the most times the workspace lock is asked for (bound)
  MaxEdits      \* the most edits the task makes (bound)

ASSUME PoolAssumption ==
  /\ Writers \subseteq Workers /\ IsFiniteSet(Workers)
  /\ MaxWorkers \in Nat \ {0} /\ MaxParallel \in Nat \ {0}
  /\ MaxPlaces \in Nat /\ MaxEdits \in Nat

VARIABLES
  parent,    \* the main agent: "model", "tool" (send), "dispatch" or "over"
  todo,      \* `agent` calls of the round that no runner has taken
  runners,   \* runner loops of mapWithConcurrency that have not thrown
  failed,    \* some runner of the round threw
  calls,     \* workers whose call was taken and is not recorded
  status,    \* worker.status, "none" before start(), "refused" after
  place,     \* a worker's last place in the lock's promise chain
  nextPlace, \* the place the next acquire() gets
  served,    \* the last place that was released
  gaveUp,    \* workers rejected while they waited, whose place remains
  revision,  \* the effect ledger's revision
  made,      \* the edits of a worker's current turn (runAgent's effects)
  reported,  \* the edits in the result its call returns
  recorded,  \* the edits in the main agent's effects
  aborted,   \* the task's signal is aborted (interrupt, task deadline)
  spent      \* the task budget is spent, which aborts its signal

round  == <<parent, todo, runners, failed, calls>>
lock   == <<place, nextPlace, served, gaveUp>>
edits  == <<revision, made, reported, recorded>>
signal == <<aborted, spent>>
vars   == <<round, status, lock, edits, signal>>

Busy == {"queued", "running"}
Status == {"none", "refused", "completed", "stopped"} \cup Busy

Cancelled == aborted \/ spent
Created == {w \in Workers : status[w] \notin {"none", "refused"}}
Running == {w \in Writers : status[w] = "running"}
Queued == {w \in Writers : status[w] = "queued"}

-----------------------------------------------------------------------------
(***************************************************************************)
(* runWorkerTurn: a research worker runs at once, the others take the next *)
(* place of the lock's chain.                                              *)
(***************************************************************************)
Begin(w) ==
  /\ made' = [made EXCEPT ![w] = {}]
  /\ reported' = [reported EXCEPT ![w] = {}]
  /\ IF w \in Writers
     THEN /\ status' = [status EXCEPT ![w] = "queued"]
          /\ place' = [place EXCEPT ![w] = nextPlace]
          /\ nextPlace' = nextPlace + 1
     ELSE /\ status' = [status EXCEPT ![w] = "running"]
          /\ UNCHANGED <<place, nextPlace>>
  /\ UNCHANGED <<served, gaveUp, revision, recorded>>

NoTurn == UNCHANGED <<status, lock, edits>>

\* A round of `agent` calls; a new call has a new worker.
Dispatch(batch) ==
  /\ parent = "model" /\ ~Cancelled
  /\ parent' = "dispatch"
  /\ todo' = batch
  /\ runners' = IF Len(batch) < MaxParallel THEN Len(batch) ELSE MaxParallel
  /\ failed' = FALSE
  /\ UNCHANGED calls /\ NoTurn /\ UNCHANGED signal

\* A free runner takes the next call; runOne throws when the task is over.
Take ==
  /\ parent = "dispatch" /\ todo # <<>> /\ Cardinality(calls) < runners
  /\ todo' = Tail(todo)
  /\ IF Cancelled
     THEN runners' = runners - 1 /\ failed' = TRUE /\ UNCHANGED calls
     ELSE calls' = calls \cup {Head(todo)} /\ UNCHANGED <<runners, failed>>
  /\ UNCHANGED parent /\ NoTurn /\ UNCHANGED signal

\* start(), reached in any order: tools.execute first awaits its event sink.
Start(w) ==
  /\ w \in calls /\ status[w] = "none"
  /\ IF Cancelled \/ Cardinality(Created) >= MaxWorkers
     THEN status' = [status EXCEPT ![w] = "refused"] /\ UNCHANGED <<lock, edits>>
     ELSE Begin(w)
  /\ UNCHANGED <<round, signal>>

SendableAlways(w) == TRUE
Sendable(w) == status[w] # "stopped"

Send(w) ==
  /\ parent = "model" /\ ~Cancelled
  /\ w \in Created /\ (w \in Writers => nextPlace <= MaxPlaces)
  /\ parent' = "tool" /\ calls' = {w}
  /\ IF Sendable(w) THEN Begin(w)
     ELSE /\ reported' = [reported EXCEPT ![w] = {}]
          /\ UNCHANGED <<status, lock, revision, made, recorded>>
  /\ UNCHANGED <<todo, runners, failed, signal>>

Stop(w) ==
  /\ parent = "model" /\ ~Cancelled /\ w \in Created
  /\ status' = [status EXCEPT ![w] = "stopped"]
  /\ UNCHANGED <<round, lock, edits, signal>>

-----------------------------------------------------------------------------
(***************************************************************************)
(* The chain: a place is served once every earlier place was released.  A  *)
(* worker that was cancelled while queued has left; acquireWriter releases *)
(* its place when its turn comes.                                          *)
(***************************************************************************)
AnyTurn(w) == place[w] > served
FreeTurn(w) == Running = {}
MyTurn(w) == place[w] = served + 1

Grant(w) ==
  /\ w \in Queued /\ MyTurn(w)
  /\ status' = [status EXCEPT ![w] = "running"]
  /\ UNCHANGED <<round, lock, edits, signal>>

PassAbandoned(w) ==
  /\ w \in gaveUp /\ place[w] = served + 1
  /\ served' = served + 1
  /\ UNCHANGED <<round, status, place, nextPlace, gaveUp, edits, signal>>

\* An edit, or a shell command, of a running worker; one in progress when the
\* task is cancelled still completes.
Edit(w) ==
  /\ w \in Running /\ revision < MaxEdits
  /\ revision' = revision + 1
  /\ made' = [made EXCEPT ![w] = @ \cup {revision'}]
  /\ UNCHANGED <<round, status, lock, reported, recorded, signal>>

(***************************************************************************)
(* A turn ends: its run completes, fails (its own budget or deadline, the  *)
(* task budget), or throws.  A thrown error carries the run's effects, but *)
(* the registry drops the error of a call whose signal is aborted.         *)
(***************************************************************************)
ReportedIfCompleted(w, outcome) == IF outcome = "completed" THEN made[w] ELSE {}
Reported(w, outcome) ==
  IF outcome = "thrown" /\ aborted THEN {} ELSE made[w]

\* release() in a finally, whatever became of the turn.
ServedIfCompleted(w, outcome) ==
  IF w \in Writers /\ outcome = "completed" THEN served + 1 ELSE served
ServedAfter(w, outcome) == IF w \in Writers THEN served + 1 ELSE served

End(w, outcome) ==
  /\ status[w] = "running"
  /\ outcome = "thrown" => ~spent   \* a spent budget ends a run in finishRun
  /\ status' = [status EXCEPT ![w] =
                  IF outcome = "completed" THEN "completed" ELSE "stopped"]
  /\ reported' = [reported EXCEPT ![w] = Reported(w, outcome)]
  /\ served' = ServedAfter(w, outcome)
  /\ UNCHANGED <<round, place, nextPlace, gaveUp, revision, made, recorded, signal>>

Settled(w) == w \in calls /\ status[w] \notin Busy \cup {"none"}

\* The record step of runOne, then throwIfAborted.
Record(w) ==
  /\ Settled(w)
  /\ calls' = calls \ {w}
  /\ recorded' = recorded \cup reported[w]
  /\ CASE parent = "tool" ->
            /\ parent' = IF Cancelled THEN "over" ELSE "model"
            /\ UNCHANGED <<runners, failed>>
       [] parent = "dispatch" ->
            /\ runners' = IF Cancelled THEN runners - 1 ELSE runners
            /\ failed' = (failed \/ Cancelled)
            /\ UNCHANGED parent
  /\ UNCHANGED <<todo, status, lock, revision, made, reported, signal>>

\* mapWithConcurrency waits for every runner before it throws.
AllSettled == calls = {} /\ (todo = <<>> \/ runners = 0)

RoundOver ==
  /\ parent = "dispatch" /\ AllSettled
  /\ parent' = IF failed THEN "over" ELSE "model"
  /\ UNCHANGED <<todo, runners, failed, calls, signal>> /\ NoTurn

\* The final answer, a stop of the loop, or its throwIfAborted.
Finish ==
  /\ parent = "model"
  /\ parent' = "over"
  /\ UNCHANGED <<todo, runners, failed, calls, signal>> /\ NoTurn

(***************************************************************************)
(* Cancellation: every worker that waits for the lock is rejected at once, *)
(* the running ones end when their request or tool has noticed.            *)
(***************************************************************************)
Rejected == Queued

Cancel ==
  /\ parent # "over"
  /\ \/ ~aborted /\ aborted' = TRUE /\ UNCHANGED spent
     \/ ~spent /\ spent' = TRUE /\ UNCHANGED aborted
        /\ (parent = "model" \/ \E w \in Workers : status[w] = "running")
  /\ status' = [w \in Workers |-> IF w \in Rejected THEN "stopped" ELSE status[w]]
  /\ gaveUp' = gaveUp \cup Rejected
  /\ UNCHANGED <<round, place, nextPlace, served, edits>>

-----------------------------------------------------------------------------

Init ==
  /\ parent = "model" /\ todo = <<>> /\ runners = 0 /\ failed = FALSE /\ calls = {}
  /\ status = [w \in Workers |-> "none"]
  /\ place = [w \in Workers |-> 0] /\ nextPlace = 1 /\ served = 0
  /\ gaveUp = {}
  /\ revision = 0 /\ recorded = {}
  /\ made = [w \in Workers |-> {}] /\ reported = [w \in Workers |-> {}]
  /\ aborted = FALSE /\ spent = FALSE

Fresh == {w \in Workers : status[w] = "none"}
Batches == SetToAllKPermutations(Fresh) \ {<<>>}

Ends(w) == \E outcome \in {"completed", "failed", "thrown"} : End(w, outcome)

WorkerStep(w) == Start(w) \/ Grant(w) \/ PassAbandoned(w) \/ Ends(w) \/ Record(w)

Next ==
  \/ \E batch \in Batches : Dispatch(batch)
  \/ \E w \in Workers : Send(w) \/ Stop(w) \/ Edit(w) \/ WorkerStep(w)
  \/ Take \/ RoundOver \/ Finish \/ Cancel

\* Promises continue, and every run of an agent ends: its steps, its requests
\* and its tools are bounded.  Nobody has to dispatch, send, edit or cancel.
Fairness ==
  /\ WF_vars(Take) /\ WF_vars(RoundOver)
  /\ \A w \in Workers : WF_vars(WorkerStep(w))

Spec == Init /\ [][Next]_vars /\ Fairness

-----------------------------------------------------------------------------

TypeOK ==
  /\ parent \in {"model", "tool", "dispatch", "over"}
  /\ todo \in Seq(Workers) /\ runners \in Nat /\ failed \in BOOLEAN
  /\ calls \subseteq Workers
  /\ status \in [Workers -> Status]
  /\ nextPlace \in Nat \ {0} /\ served \in 0..(nextPlace - 1)
  /\ place \in [Workers -> 0..(nextPlace - 1)] /\ gaveUp \subseteq Writers
  /\ revision \in Nat /\ recorded \subseteq Nat
  /\ made \in [Workers -> SUBSET Nat] /\ reported \in [Workers -> SUBSET Nat]
  /\ aborted \in BOOLEAN /\ spent \in BOOLEAN

\* One writing worker at a time has the workspace, whatever became of the
\* turns before it and of those that gave up while queued.
OneWriter == \A v, w \in Running : v = w

\* No worker outlives the call that runs it: the main agent never thinks,
\* uses its own tools or ends its run while a worker still works.
NoWorkerOutlivesItsCall ==
  parent \in {"model", "over"} => \A w \in Workers : status[w] \notin Busy

\* Between two rounds of a task that was not interrupted, the main agent's
\* effects hold every edit its workers made, those of failed, timed-out and
\* budget-stopped turns included.
EffectsRecorded ==
  parent \in {"model", "over"} /\ ~aborted => recorded = 1..revision

\* A task that is cancelled starts no worker any more, also none that was
\* already queued for the lock.
CancelledNeverRuns ==
  [][Cancelled => \A w \in Workers :
       status'[w] = "running" => status[w] = "running"]_vars

\* task_stop is final: no later message brings a stopped worker back.
StoppedForGood ==
  [][\A w \in Workers : status[w] = "stopped" => status'[w] = "stopped"]_vars

\* The pool keeps its workers in hand: one of them writes at a time, none works
\* on behind the main agent's back, none starts once the task is cancelled or
\* comes back after task_stop (registry.js, runtime.js).
PoolIsSafe ==
  /\ [](TypeOK /\ OneWriter /\ NoWorkerOutlivesItsCall)
  /\ CancelledNeverRuns
  /\ StoppedForGood

\* The promise chain is a FIFO lock, although workers that gave up keep their
\* place in it.
WriterLock == INSTANCE FifoLock WITH
  Clients <- Writers,
  waiting <- Queued,
  before <- {pair \in Queued \X Queued : place[pair[1]] < place[pair[2]]},
  holders <- Running
ImplementsLock == WriterLock!LockSpec

\* Every round ends, on every path of every worker.
EveryRoundEnds == parent \in {"tool", "dispatch"} ~> parent \in {"model", "over"}
=============================================================================
