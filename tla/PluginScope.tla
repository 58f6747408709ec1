----------------------------- MODULE PluginScope -----------------------------
(***************************************************************************)
(* The scope of a task's plugins (harness/pluginScope.js), the tool        *)
(* registrations it owns (tools/registry.js) and the way of a tool call    *)
(* to a registration (tools/runtime.js).                                   *)
(* All registrations carry the same tool name, so each replaces another.   *)
(* The entry a name resolves to is read when a worker's tools admit the    *)
(* call, after the start event is written, after the approval, and once    *)
(* more when the call is dispatched; code of a plugin may run in between.  *)
(***************************************************************************)
EXTENDS Naturals

CONSTANTS
  Handles,       \* registrations of the tool
  Listeners,     \* listeners of the scope
  Plain,         \* other resources of the scope
  Slow,          \* those with an asynchronous deactivator
  Calls,         \* calls of the tool
  WorkerCalls,   \* those of a worker
  Others,        \* other work: events for a listener, setupPlugins
  NeedApproval,  \* registrations with requiresApproval
  NotForWorkers, \* registrations whose workerModes leave the worker out
  None

Things == Handles \cup Listeners \cup Plain
Work == Calls \cup Others

ASSUME ScopeAssumption ==
  /\ Slow \subseteq Plain /\ WorkerCalls \subseteq Calls
  /\ NeedApproval \subseteq Handles /\ NotForWorkers \subseteq Handles
  /\ Handles \cap (Listeners \cup Plain) = {} /\ Listeners \cap Plain = {}
  /\ Calls \cap Others = {}
  /\ None \notin Things

VARIABLES
  scope,     \* state of the scope
  position,  \* a thing's place in the order of registration, 0 before it
  last,      \* the last place given
  phase,     \* a thing: "free", "active", "stopping", "stopped",
             \* "releasing" or "released"
  requested, \* who asked for its release: "no", "owner" or "scope"
  faulty,    \* some cleanup reported an error
  entry,     \* the registration the tool's name resolves to, or None
  removed,   \* registrations that were stopped
  pc,        \* a piece of work
  on,        \* the thing that serves it, or None
  seen,      \* the entry a call found before it asked for approval
  cancelled  \* calls whose own signal is aborted

things == <<position, last, phase, requested, faulty>>
registry == <<entry, removed>>
work == <<pc, on, seen, cancelled>>
vars == <<scope, things, registry, work>>

Owned == {t \in Things : position[t] # 0}
Admitted == {"queued", "running"}
Busy == {w \in Work : pc[w] \in Admitted}
QuietFor(t) == \A w \in Busy : on[w] # t
Ended == scope \in {"disposed", "dispose-failed"}

Init ==
  /\ scope = "active" /\ last = 0
  /\ position = [t \in Things |-> 0] /\ phase = [t \in Things |-> "free"]
  /\ requested = [t \in Things |-> "no"] /\ faulty = FALSE
  /\ entry = None /\ removed = {}
  /\ pc = [w \in Work |-> "idle"] /\ on = [w \in Work |-> None]
  /\ seen = [c \in Calls |-> None] /\ cancelled = {}

-----------------------------------------------------------------------------
(***************************************************************************)
(* own, listen and registerHandle.                                         *)
(***************************************************************************)
Enter(t) ==
  /\ position[t] = 0
  /\ position' = [position EXCEPT ![t] = last + 1]
  /\ last' = last + 1
  /\ phase' = [phase EXCEPT ![t] = "active"]
  /\ UNCHANGED <<scope, requested, faulty, work>>

\* own without assertActive: resources arrive while the scope is disposed.
OwnAnyTime(t) == Enter(t) /\ UNCHANGED registry

Own(t) == scope = "active" /\ Enter(t) /\ UNCHANGED registry

RegisterTool(h) ==
  /\ scope = "active" /\ entry = None
  /\ Enter(h)
  /\ entry' = h /\ UNCHANGED removed

\* stop() of a registration; dispose() adds the wait for its calls.
StopTool(h) ==
  /\ position[h] # 0 /\ h \notin removed
  /\ removed' = removed \cup {h}
  /\ entry' = IF entry = h THEN None ELSE entry
  /\ UNCHANGED <<scope, things, work>>

-----------------------------------------------------------------------------
(***************************************************************************)
(* A resource's stop and release.                                          *)
(***************************************************************************)
Stopped(t) == IF t \in Slow THEN "stopping" ELSE "stopped"

\* The disposer is called as soon as release was asked for and stop has ended.
Proceed(state) == IF state = "stopped" THEN "releasing" ELSE state

\* The owner disposes of one resource.
DisposeOne(t) ==
  /\ position[t] # 0 /\ requested[t] = "no"
  /\ requested' = [requested EXCEPT ![t] = "owner"]
  /\ phase' = [phase EXCEPT ![t] = Proceed(IF @ = "active" THEN Stopped(t) ELSE @)]
  /\ UNCHANGED <<scope, position, last, faulty, registry, work>>

\* The deactivator settles, with an error or without.
StopDone(t) ==
  /\ phase[t] = "stopping"
  /\ phase' = [phase EXCEPT ![t] = IF requested[t] = "no" THEN "stopped" ELSE "releasing"]
  /\ faulty' \in {faulty, TRUE}
  /\ UNCHANGED <<scope, position, last, requested, registry, work>>

\* The disposer settles, of a registration or a listener once its calls have;
\* a plain resource's may fail.
EndRelease(t) ==
  /\ phase[t] = "releasing" /\ QuietFor(t)
  /\ phase' = [phase EXCEPT ![t] = "released"]
  /\ faulty' \in {faulty, faulty \/ t \in Plain}
  /\ UNCHANGED <<scope, position, last, requested, registry, work>>

-----------------------------------------------------------------------------
(***************************************************************************)
(* The scope's dispose: every admission point is stopped at once, then it  *)
(* waits for the deactivators and the work, and releases in reverse order. *)
(***************************************************************************)
Dispose ==
  /\ scope = "active" /\ scope' = "disposing"
  /\ phase' = [t \in Things |-> IF phase[t] = "active" THEN Stopped(t) ELSE phase[t]]
  /\ removed' = removed \cup (Owned \cap Handles)
  /\ entry' = IF entry \in Owned THEN None ELSE entry
  /\ UNCHANGED <<position, last, requested, faulty, work>>

Drained == Busy = {} /\ \A t \in Owned : phase[t] # "stopping"

LaterReleased(t) == \A u \in Owned : position[u] > position[t] => phase[u] = "released"

\* Release that starts as soon as admission is closed.
ReleaseEarly(t) ==
  /\ scope = "disposing" /\ LaterReleased(t)
  /\ t \in Owned /\ requested[t] = "no"
  /\ requested' = [requested EXCEPT ![t] = "scope"]
  /\ phase' = [phase EXCEPT ![t] = Proceed(@)]
  /\ UNCHANGED <<scope, position, last, faulty, registry, work>>

ReleaseNext(t) ==
  /\ scope = "disposing" /\ Drained /\ LaterReleased(t)
  /\ t \in Owned /\ requested[t] = "no"
  /\ requested' = [requested EXCEPT ![t] = "scope"]
  /\ phase' = [phase EXCEPT ![t] = Proceed(@)]
  /\ UNCHANGED <<scope, position, last, faulty, registry, work>>

Finish ==
  /\ scope = "disposing" /\ Drained
  /\ \A t \in Owned : phase[t] = "released"
  /\ scope' = IF faulty THEN "dispose-failed" ELSE "disposed"
  /\ UNCHANGED <<things, registry, work>>

-----------------------------------------------------------------------------
(***************************************************************************)
(* Calls, events and direct work.                                          *)
(***************************************************************************)
Goto(w, place) == pc' = [pc EXCEPT ![w] = place]
Rest == UNCHANGED <<scope, things, registry>>

\* createWorkerTools checks the worker's profile before it calls execute.
Issue(c) ==
  /\ pc[c] = "idle"
  /\ Goto(c, IF c \in WorkerCalls /\ (entry = None \/ entry \in NotForWorkers)
             THEN "refused" ELSE "starting")
  /\ Rest /\ UNCHANGED <<on, seen, cancelled>>

\* executeTool after the start event was written.
Look(c) ==
  /\ pc[c] = "starting"
  /\ IF c \in cancelled
     THEN Goto(c, "refused") /\ UNCHANGED seen
     ELSE /\ seen' = [seen EXCEPT ![c] = entry]
          /\ Goto(c, IF entry \in NeedApproval THEN "asking" ELSE "checked")
  /\ Rest /\ UNCHANGED <<on, cancelled>>

\* The user decides, or the wait ends because the call is cancelled.
Decide(c) ==
  /\ pc[c] = "asking"
  /\ \/ Goto(c, "refused")
     \/ c \notin cancelled /\ Goto(c, IF entry = seen[c] THEN "checked" ELSE "refused")
  /\ Rest /\ UNCHANGED <<on, seen, cancelled>>

\* registry.execute, one wait after the check: it resolves the name again.
Dispatch(c) ==
  /\ pc[c] = "checked"
  /\ IF entry = None
     THEN Goto(c, "refused") /\ UNCHANGED on
     ELSE Goto(c, "queued") /\ on' = [on EXCEPT ![c] = entry]
  /\ Rest /\ UNCHANGED <<seen, cancelled>>

\* The call's own signal; once its handler runs, only the report differs.
Cancel(c) ==
  /\ c \notin cancelled /\ pc[c] \in {"starting", "asking", "checked", "queued"}
  /\ cancelled' = cancelled \cup {c}
  /\ Rest /\ UNCHANGED <<pc, on, seen>>

\* The wrapped listener of an event.
Emit(w, l) ==
  /\ pc[w] = "idle" /\ phase[l] = "active" /\ scope = "active"
  /\ Goto(w, "queued") /\ on' = [on EXCEPT ![w] = l]
  /\ Rest /\ UNCHANGED <<seen, cancelled>>

\* scope.run called by the task runner or by a plugin.
RunSetup(w) ==
  /\ pc[w] = "idle" /\ scope = "active"
  /\ Goto(w, "queued")
  /\ Rest /\ UNCHANGED <<on, seen, cancelled>>

Aborted(w) == scope # "active" \/ on[w] \in removed \/ w \in cancelled

\* The queued callback runs, unless its signal was aborted before.
Invoke(w) ==
  /\ pc[w] = "queued"
  /\ Goto(w, IF Aborted(w) THEN "dropped" ELSE "running")
  /\ Rest /\ UNCHANGED <<on, seen, cancelled>>

\* The callback or handler settles; an abort alone does not settle it.
Settle(w) ==
  /\ pc[w] = "running"
  /\ Goto(w, "settled")
  /\ Rest /\ UNCHANGED <<on, seen, cancelled>>

-----------------------------------------------------------------------------
CallStep(c) == Issue(c) \/ Look(c) \/ Decide(c) \/ Dispatch(c) \/ Cancel(c)
ThingStep(t) == StopDone(t) \/ EndRelease(t) \/ ReleaseNext(t)

Next ==
  \/ \E t \in Plain \cup Listeners : Own(t) \/ DisposeOne(t)
  \/ \E h \in Handles : RegisterTool(h) \/ StopTool(h)
  \/ \E t \in Things : ThingStep(t)
  \/ Dispose
  \/ Finish
  \/ \E c \in Calls : CallStep(c)
  \/ \E w \in Others, l \in Listeners : Emit(w, l)
  \/ \E w \in Others : RunSetup(w)
  \/ \E w \in Work : Invoke(w) \/ Settle(w)

Spec == Init /\ [][Next]_vars

\* Cleanup code and admitted work settle: abort is cooperative, and the
\* scope waits for them without a limit of its own.
Fairness ==
  /\ \A t \in Things : WF_vars(ThingStep(t))
  /\ \A w \in Work : WF_vars(Invoke(w) \/ Settle(w))
  /\ WF_vars(Finish)

FairSpec == Spec /\ Fairness

-----------------------------------------------------------------------------
TypeOK ==
  /\ scope \in {"active", "disposing", "disposed", "dispose-failed"}
  /\ last \in Nat /\ position \in [Things -> 0..last]
  /\ phase \in [Things -> {"free", "active", "stopping", "stopped", "releasing", "released"}]
  /\ requested \in [Things -> {"no", "owner", "scope"}]
  /\ faulty \in BOOLEAN
  /\ entry \in Handles \cup {None} /\ removed \subseteq Handles
  /\ pc \in [Work -> {"idle", "starting", "refused", "asking", "checked",
                      "queued", "dropped", "running", "settled"}]
  /\ on \in [Work -> Things \cup {None}]
  /\ seen \in [Calls -> Handles \cup {None}] /\ cancelled \subseteq Calls

\* The tool's name resolves to the one registration that was not stopped, and
\* to none once the scope closes, whatever the order in which registrations
\* are stopped, replaced and disposed of with the scope (registry.js, stop).
NameResolvesToLive ==
  {h \in Handles : position[h] # 0 /\ h \notin removed}
    = IF entry = None THEN {} ELSE {entry}

\* A listener or a registration reported as disposed has no call left that is
\* queued or runs (the wait loops of listen and registerHandle).
ReleasedIsQuiet == \A t \in Things : phase[t] = "released" => QuietFor(t)

\* Disposal of the scope starts to clean up a resource only when no work of
\* the scope runs and everything registered after it is cleaned up (dispose).
\* A resource its owner disposes of itself is exempt.
ReverseRelease ==
  [][\A t \in Things :
       phase[t] # "releasing" /\ phase'[t] = "releasing" /\ requested'[t] = "scope"
         => Busy = {} /\ LaterReleased(t)]_vars

\* The scope hands out and takes back in order: the tool's name always means
\* the registration that was not stopped, what is reported as disposed is
\* quiet, and what was acquired last is released first (harness/pluginScope.js).
ScopeIsSafe ==
  /\ [](TypeOK /\ NameResolvesToLive /\ ReleasedIsQuiet)
  /\ ReverseRelease

Life == INSTANCE Lifetime WITH
  Tasks <- Work,
  open <- scope = "active",
  held <- {t \in Owned : phase[t] # "released"},
  taken <- Owned,
  busy <- Busy,
  admitted <- {w \in Work : pc[w] \in {"queued", "running", "dropped", "settled"}},
  ended <- Ended

\* Scope, registrations and work implement Lifetime: nothing enters after
\* disposal began, everything is given back once, and disposal ends only with
\* nothing held and no work unsettled.
ImplementsLifetime == Life!LifeSpec
=============================================================================
