----------------------------- MODULE MCLifetimes -----------------------------
(* What must come to an end and leave nothing behind: a plugin scope and a   *)
(* job in the background, checked side by side, in each behaviour the one    *)
(* that Init picks.                                                          *)
EXTENDS PluginScope

CONSTANTS
  Parts,            \* those that are checked
  Lingers, Crashes  \* of the processes of a job

ASSUME JobAssumption ==
  /\ None \notin BOOLEAN
  /\ None \notin {"ok", "ended", "aborted"}
  /\ \A job \in [status : {"starting", "running", "stopping", "exited",
                  "stopped", "timed_out", "failed", "cleanup_unconfirmed"},
                 exit : {None} \cup {0, 1}, confirmed : BOOLEAN] : job # None

VARIABLES
  part,
  record, stopFile, supervisor, cause, closed, unspawned, cleanup, catching, leader, others,
  code, aborted, caller, background, answer, second

J == INSTANCE Jobs

jobVars == <<record, stopFile, supervisor, cause, closed, unspawned, cleanup, catching,
             leader, others, code, aborted, caller, background, answer, second>>

EndsInit ==
  /\ part \in Parts
  /\ Init /\ J!Init
  /\ part = "job" \/ ~background

EndsNext ==
  /\ UNCHANGED part
  /\ IF part = "scope" THEN Next ELSE UNCHANGED vars
  /\ IF part = "job" THEN J!Next ELSE UNCHANGED jobVars

(* The fairness of the part that runs: nothing of the scope is enabled where *)
(* it does not run.                                                          *)
EndsSpec ==
  /\ EndsInit /\ [][EndsNext]_<<part, vars, jobVars>>
  /\ Fairness
  /\ WF_jobVars(part = "job" /\ J!CallerStep)
  /\ WF_jobVars(part = "job" /\ J!SupervisorStep)

-----------------------------------------------------------------------------
(* When a job is said to be over, none of its processes runs and none will   *)
(* (execution/backend.js, execution/worker.js).                              *)
GoneWhenSaid == J!GoneWhenSaid

(* Nothing that was begun is waited for without end: the disposal of a       *)
(* scope, a call of the backend whatever becomes of the supervisor, a job    *)
(* that was asked to stop.                                                   *)
Awaited ==
  \/ scope = "disposing"
  \/ caller \notin {"idle", "returned"}
  \/ stopFile /\ supervisor \notin {"none", "gone"}
EverythingEnds == Awaited ~> ~Awaited
=============================================================================
