--------------------------- MODULE Lifetimes_proofs ---------------------------
(* What is proved of the lives of plugin scopes, for any registrations,      *)
(* resources and calls, and of jobs.                                         *)
EXTENDS MCLifetimes, TLAPS

Phases == {"free", "active", "stopping", "stopped", "releasing", "released"}
Places == {"idle", "starting", "refused", "asking", "checked",
           "queued", "dropped", "running", "settled"}

\* What a step about one thing or one call may assume of the sets.
LEMMA Members ==
  /\ Handles \subseteq Things /\ Listeners \subseteq Things /\ Plain \subseteq Things
  /\ Calls \subseteq Work /\ Others \subseteq Work /\ None \notin Things
  BY ScopeAssumption DEF Things, Work

\* A thing's phase, its place and the request for its release agree.
PhaseInv ==
  /\ \A t \in Things : position[t] = 0 <=> phase[t] = "free"
  /\ \A t \in Things : requested[t] = "scope" => phase[t] \in {"releasing", "released"}
  /\ \A t \in Things : requested[t] = "no" => phase[t] \notin {"releasing", "released"}
  /\ \A t \in Things : phase[t] \in {"free", "active"} => requested[t] = "no"

\* What the scope's state says of its things and of the registry.
ClosedInv ==
  /\ scope # "active" => entry = None
  /\ scope # "active" => \A t \in Things : phase[t] # "active"
  /\ scope = "active" => \A h \in Handles : phase[h] \in {"free", "active"}
  /\ Ended => Busy = {} /\ \A t \in Owned : phase[t] = "released"

\* A piece of work gets the thing that serves it when it enters the scope.
IdleInv == \A w \in Work : pc[w] = "idle" => on[w] = None

RegistryInv ==
  /\ NameResolvesToLive
  /\ removed \subseteq Owned

ScopeInv == TypeOK /\ PhaseInv /\ ClosedInv /\ RegistryInv /\ IdleInv /\ ReleasedIsQuiet

-----------------------------------------------------------------------------
(***************************************************************************)
(* Steps that change no thing and not the scope: those of a call or of     *)
(* other work, which may enter the scope only while its server is active.  *)
(***************************************************************************)
WorkStep ==
  \/ \E c \in Calls : CallStep(c)
  \/ \E w \in Others, l \in Listeners : Emit(w, l)
  \/ \E w \in Others : RunSetup(w)
  \/ \E w \in Work : Invoke(w) \/ Settle(w)

\* Places of work that the scope has admitted.
Entered == {"queued", "running", "dropped", "settled"}

\* Where a piece of work goes, and with which server.
Admissible(w, place, t) ==
  /\ place \in Places /\ t \in Things \cup {None}
  /\ place \in Admitted => \/ pc[w] \in Admitted /\ t = on[w]
                           \/ scope = "active" /\ (t = None \/ phase[t] = "active")
  /\ place = "idle" => t = None
  /\ place \in Entered <=> (pc[w] \in Entered \/ place \in Admitted)
  /\ place \in Admitted => pc[w] \notin {"dropped", "settled"}

\* Every step of work moves at most one piece of work, and only admissibly.
Moves ==
  \E w \in Work, place \in Places, t \in Things \cup {None} :
    /\ pc' = [pc EXCEPT ![w] = place] /\ on' = [on EXCEPT ![w] = t]
    /\ Admissible(w, place, t)

LEMMA WorkStepMoves ==
  ASSUME TypeOK, PhaseInv, ClosedInv, RegistryInv, IdleInv, WorkStep
  PROVE  Moves /\ seen' \in [Calls -> Handles \cup {None}] /\ cancelled' \subseteq Calls
         /\ UNCHANGED <<scope, things, registry>>
<1> DEFINE Ok == seen' \in [Calls -> Handles \cup {None}] /\ cancelled' \subseteq Calls
                 /\ UNCHANGED <<scope, things, registry>>
<1> USE Members
<1>0. entry # None => scope = "active" /\ entry \in Things /\ phase[entry] = "active"
  <2> SUFFICES ASSUME entry # None
               PROVE  scope = "active" /\ entry \in Things /\ phase[entry] = "active"
    OBVIOUS
  <2>1. scope = "active"
    BY DEF ClosedInv
  <2>2. entry \in Handles /\ position[entry] # 0
    BY DEF RegistryInv, NameResolvesToLive
  <2> QED
    BY <2>1, <2>2 DEF ClosedInv, PhaseInv
<1>1. \A w \in Work : pc[w] \in Places /\ on[w] \in Things \cup {None}
  BY DEF TypeOK, Places
<1>2. \A w \in Work, place \in Places : pc' = [pc EXCEPT ![w] = place] /\ on' = on
        /\ Admissible(w, place, on[w]) => Moves
  <2> SUFFICES ASSUME NEW w \in Work, NEW place \in Places, pc' = [pc EXCEPT ![w] = place],
                      on' = on, Admissible(w, place, on[w])
               PROVE  Moves
    OBVIOUS
  <2>1. on' = [on EXCEPT ![w] = on[w]]
    BY DEF TypeOK
  <2> QED
    BY <1>1, <2>1 DEF Moves
<1>3. ASSUME NEW c \in Calls, CallStep(c)
      PROVE  Moves /\ Ok
  <2>1. CASE Issue(c)
    <3>1. pc[c] = "idle" /\ \E place \in {"refused", "starting"} : pc' = [pc EXCEPT ![c] = place]
      BY <2>1 DEF Issue, Goto
    <3>2. on' = on /\ Ok
      BY <2>1 DEF Issue, Rest, TypeOK
    <3> QED
      BY <1>1, <1>2, <3>1, <3>2 DEF Admissible, Places, Admitted, Entered
  <2>2. CASE Look(c)
    <3>1. pc[c] = "starting" /\ \E place \in {"refused", "asking", "checked"} : pc' = [pc EXCEPT ![c] = place]
      BY <2>2 DEF Look, Goto
    <3>2. on' = on /\ Ok
      BY <2>2 DEF Look, Rest, TypeOK
    <3> QED
      BY <1>1, <1>2, <3>1, <3>2 DEF Admissible, Places, Admitted, Entered
  <2>3. CASE Decide(c)
    <3>1. pc[c] = "asking" /\ \E place \in {"refused", "checked"} : pc' = [pc EXCEPT ![c] = place]
      BY <2>3 DEF Decide, Goto
    <3>2. on' = on /\ Ok
      BY <2>3 DEF Decide, Rest, TypeOK
    <3> QED
      BY <1>1, <1>2, <3>1, <3>2 DEF Admissible, Places, Admitted, Entered
  <2>4. CASE Dispatch(c)
    <3>1. Ok
      BY <2>4 DEF Dispatch, Rest, TypeOK
    <3>2. CASE entry = None
      <4>1. pc[c] = "checked" /\ pc' = [pc EXCEPT ![c] = "refused"] /\ on' = on
        BY <2>4, <3>2 DEF Dispatch, Goto
      <4> QED
        BY <1>1, <1>2, <3>1, <4>1 DEF Admissible, Places, Admitted, Entered
    <3>3. CASE entry # None
      <4>1. pc[c] = "checked" /\ pc' = [pc EXCEPT ![c] = "queued"] /\ on' = [on EXCEPT ![c] = entry]
        BY <2>4, <3>3 DEF Dispatch, Goto
      <4>2. Admissible(c, "queued", entry)
        BY <1>0, <3>3, <4>1 DEF Admissible, Places, Admitted, Entered
      <4> QED
        BY <1>0, <3>1, <3>3, <4>1, <4>2 DEF Moves, Places
    <3> QED
      BY <3>2, <3>3
  <2>5. CASE Cancel(c)
    <3>1. pc' = pc /\ on' = on /\ Ok
      BY <2>5 DEF Cancel, Rest, TypeOK
    <3>2. pc' = [pc EXCEPT ![c] = pc[c]]
      BY <3>1 DEF TypeOK
    <3>3. pc[c] # "idle" /\ (pc[c] \in Admitted => pc[c] \in Admitted /\ on[c] = on[c])
      BY <2>5 DEF Cancel
    <3>4. pc[c] \in Admitted => pc[c] \notin {"dropped", "settled"} /\ pc[c] \in Entered
      BY DEF Admitted, Entered
    <3> QED
      BY <1>1, <1>2, <3>1, <3>2, <3>3, <3>4 DEF Admissible
  <2> QED
    BY <1>3, <2>1, <2>2, <2>3, <2>4, <2>5 DEF CallStep
<1>4. ASSUME NEW w \in Others, NEW l \in Listeners, Emit(w, l)
      PROVE  Moves /\ Ok
  <2>1. /\ pc' = [pc EXCEPT ![w] = "queued"] /\ on' = [on EXCEPT ![w] = l]
        /\ pc[w] = "idle" /\ phase[l] = "active" /\ scope = "active"
    BY <1>4 DEF Emit, Goto
  <2>2. Ok
    BY <1>4 DEF Emit, Rest, TypeOK
  <2>3. Admissible(w, "queued", l)
    BY <2>1 DEF Admissible, Places, Admitted, Entered
  <2> QED
    BY <2>1, <2>2, <2>3 DEF Moves, Places
<1>5. ASSUME NEW w \in Others, RunSetup(w)
      PROVE  Moves /\ Ok
  <2>1. /\ pc' = [pc EXCEPT ![w] = "queued"] /\ on' = on /\ scope = "active"
        /\ pc[w] = "idle" /\ on[w] = None
    BY <1>5 DEF RunSetup, Goto, IdleInv
  <2>2. Ok
    BY <1>5 DEF RunSetup, Rest, TypeOK
  <2>3. Admissible(w, "queued", on[w])
    BY <2>1 DEF Admissible, Places, Admitted, Entered
  <2> QED
    BY <1>2, <2>1, <2>2, <2>3 DEF Places
<1>6. ASSUME NEW w \in Work, Invoke(w) \/ Settle(w)
      PROVE  Moves /\ Ok
  <2>1. PICK place \in {"dropped", "running", "settled"} : pc' = [pc EXCEPT ![w] = place]
    BY <1>6 DEF Invoke, Settle, Goto
  <2>2. on' = on /\ Ok /\ pc[w] \in Admitted
    BY <1>6 DEF Invoke, Settle, Rest, TypeOK, Admitted
  <2> QED
    BY <1>1, <1>2, <2>1, <2>2 DEF Admissible, Places, Admitted, Entered
<1> QED
  BY <1>3, <1>4, <1>5, <1>6 DEF WorkStep

LEMMA WorkStepInv ==
  ASSUME ScopeInv, WorkStep
  PROVE  ScopeInv'
<1> USE Members
<1>1. /\ TypeOK /\ PhaseInv /\ ClosedInv /\ RegistryInv /\ IdleInv /\ ReleasedIsQuiet
      /\ Moves /\ seen' \in [Calls -> Handles \cup {None}] /\ cancelled' \subseteq Calls
      /\ UNCHANGED <<scope, things, registry>>
  BY WorkStepMoves DEF ScopeInv
<1>2. PICK w \in Work, place \in Places, t \in Things \cup {None} :
        /\ pc' = [pc EXCEPT ![w] = place] /\ on' = [on EXCEPT ![w] = t]
        /\ Admissible(w, place, t)
  BY <1>1 DEF Moves
<1>3. TypeOK'
  BY <1>1, <1>2 DEF TypeOK, Places, things, registry
<1>4. PhaseInv' /\ RegistryInv'
  BY <1>1 DEF PhaseInv, RegistryInv, NameResolvesToLive, Owned, things, registry
<1>5. \A v \in Work : pc'[v] \in Admitted =>
        \/ pc[v] \in Admitted /\ on'[v] = on[v]
        \/ scope = "active" /\ (on'[v] = None \/ phase[on'[v]] = "active")
  BY <1>1, <1>2 DEF TypeOK, Admissible
<1>6. ClosedInv'
  <2>1. Ended => Busy' = {}
    BY <1>1, <1>5 DEF ClosedInv, Busy, Ended
  <2> QED
    BY <1>1, <2>1 DEF ClosedInv, Ended, Owned, things, registry
<1>7. IdleInv'
  BY <1>1, <1>2 DEF IdleInv, TypeOK, Admissible
<1>8. ReleasedIsQuiet'
  <2> SUFFICES ASSUME NEW u \in Things, phase[u] = "released", NEW v \in Work, pc'[v] \in Admitted
               PROVE  on'[v] # u
    BY <1>1 DEF ReleasedIsQuiet, QuietFor, Busy, things
  <2>1. CASE pc[v] \in Admitted /\ on'[v] = on[v]
    BY <1>1, <2>1 DEF ReleasedIsQuiet, QuietFor, Busy
  <2>2. CASE on'[v] = None \/ phase[on'[v]] = "active"
    BY <2>2
  <2> QED
    BY <1>5, <2>1, <2>2
<1> QED
  BY <1>3, <1>4, <1>6, <1>7, <1>8 DEF ScopeInv

-----------------------------------------------------------------------------
(***************************************************************************)
(* Steps of the scope and its things.                                      *)
(***************************************************************************)
\* A thing enters an active scope.
LEMMA EnterInv ==
  ASSUME ScopeInv, scope = "active", NEW t \in Things, Enter(t),
         \/ t \notin Handles /\ UNCHANGED registry
         \/ t \in Handles /\ entry = None /\ entry' = t /\ UNCHANGED removed
  PROVE  ScopeInv'
<1> USE Members
<1>1. TypeOK /\ PhaseInv /\ ClosedInv /\ RegistryInv /\ IdleInv /\ ReleasedIsQuiet
  BY DEF ScopeInv
<1>2. /\ position[t] = 0 /\ position' = [position EXCEPT ![t] = last + 1] /\ last' = last + 1
      /\ phase' = [phase EXCEPT ![t] = "active"]
      /\ UNCHANGED <<scope, requested, faulty, work>> /\ removed' = removed
  BY DEF Enter, registry
<1>3. TypeOK'
  <2>1. last' \in Nat /\ position' \in [Things -> 0..last']
    BY <1>1, <1>2 DEF TypeOK
  <2>2. phase' \in [Things -> Phases] /\ entry' \in Handles \cup {None}
    BY <1>1, <1>2 DEF TypeOK, Phases, registry
  <2> QED
    BY <1>1, <1>2, <2>1, <2>2 DEF TypeOK, Phases, work
<1>4. PhaseInv'
  BY <1>1, <1>2 DEF PhaseInv, TypeOK
<1>5. ClosedInv'
  BY <1>1, <1>2 DEF ClosedInv, TypeOK, Ended
<1>6. RegistryInv'
  <2>1. /\ \A u \in Things : position'[u] # 0 <=> (position[u] # 0 \/ u = t)
        /\ t \notin removed
    BY <1>1, <1>2 DEF TypeOK, RegistryInv, Owned
  <2>2. removed' \subseteq Owned'
    BY <1>1, <1>2, <2>1 DEF RegistryInv, Owned
  <2>3. CASE t \notin Handles /\ UNCHANGED registry
    BY <1>1, <1>2, <2>1, <2>2, <2>3 DEF RegistryInv, NameResolvesToLive, registry
  <2>4. CASE t \in Handles /\ entry = None /\ entry' = t
    <3>1. {h \in Handles : position[h] # 0 /\ h \notin removed} = {}
      BY <1>1, <2>4 DEF RegistryInv, NameResolvesToLive
    <3>2. {h \in Handles : position'[h] # 0 /\ h \notin removed'} = {t}
      BY <1>2, <2>1, <2>4, <3>1
    <3> QED
      BY <2>2, <2>4, <3>2 DEF RegistryInv, NameResolvesToLive
  <2> QED
    BY <2>3, <2>4
<1>7. IdleInv' /\ ReleasedIsQuiet'
  BY <1>1, <1>2 DEF IdleInv, ReleasedIsQuiet, QuietFor, Busy, work, TypeOK
<1> QED
  BY <1>3, <1>4, <1>5, <1>6, <1>7 DEF ScopeInv

LEMMA StopToolInv ==
  ASSUME ScopeInv, NEW h \in Handles, StopTool(h)
  PROVE  ScopeInv'
<1> USE Members
<1>1. TypeOK /\ PhaseInv /\ ClosedInv /\ RegistryInv /\ IdleInv /\ ReleasedIsQuiet
  BY DEF ScopeInv
<1>2. /\ position[h] # 0 /\ h \notin removed /\ removed' = removed \cup {h}
      /\ entry' = IF entry = h THEN None ELSE entry
      /\ UNCHANGED <<scope, things, work>>
  BY DEF StopTool
<1>3. entry = h /\ entry' = None
  BY <1>1, <1>2 DEF RegistryInv, NameResolvesToLive
<1>4. TypeOK' /\ PhaseInv' /\ IdleInv' /\ ReleasedIsQuiet'
  BY <1>1, <1>2, <1>3 DEF TypeOK, PhaseInv, IdleInv, ReleasedIsQuiet, QuietFor, Busy, things, work
<1>5. ClosedInv'
  BY <1>1, <1>2, <1>3 DEF ClosedInv, Ended, Busy, Owned, things, work
<1>6. RegistryInv'
  BY <1>1, <1>2, <1>3 DEF RegistryInv, NameResolvesToLive, Owned, things
<1> QED
  BY <1>4, <1>5, <1>6 DEF ScopeInv

\* What stop, release and the ends of both do to one thing.
Advances(t, state, who) ==
  /\ phase' = [phase EXCEPT ![t] = state]
  /\ requested' = [requested EXCEPT ![t] = who]
  /\ faulty' \in BOOLEAN
  /\ UNCHANGED <<scope, position, last, registry, work>>

LEMMA AdvanceInv ==
  ASSUME ScopeInv, NEW t \in Things, NEW state \in {"stopping", "stopped", "releasing", "released"},
         NEW who \in {"no", "owner", "scope"}, Advances(t, state, who),
         phase[t] # "free", ~Ended, scope = "active" => t \notin Handles,
         who = "scope" => state \in {"releasing", "released"},
         who = "no" => state \notin {"releasing", "released"},
         state = "released" => QuietFor(t)
  PROVE  ScopeInv'
<1> USE Members
<1>1. TypeOK /\ PhaseInv /\ ClosedInv /\ RegistryInv /\ IdleInv /\ ReleasedIsQuiet
  BY DEF ScopeInv
<1>2. /\ phase' = [phase EXCEPT ![t] = state] /\ requested' = [requested EXCEPT ![t] = who]
      /\ faulty' \in BOOLEAN /\ UNCHANGED <<scope, position, last, registry, work>>
  BY DEF Advances
<1>3. TypeOK'
  BY <1>1, <1>2 DEF TypeOK, registry, work
<1>4. PhaseInv'
  BY <1>1, <1>2 DEF PhaseInv, TypeOK
<1>5. ClosedInv'
  BY <1>1, <1>2 DEF ClosedInv, Ended, TypeOK, registry
<1>6. RegistryInv' /\ IdleInv'
  BY <1>1, <1>2 DEF RegistryInv, NameResolvesToLive, Owned, IdleInv, registry, work
<1>7. ReleasedIsQuiet'
  BY <1>1, <1>2 DEF ReleasedIsQuiet, QuietFor, Busy, work, TypeOK
<1> QED
  BY <1>3, <1>4, <1>5, <1>6, <1>7 DEF ScopeInv

ThingChange == \E t \in Things : ThingStep(t) \/ (t \in Plain \cup Listeners /\ DisposeOne(t))

\* Every step of a thing's stop and release advances it.
LEMMA ThingChangeInv ==
  ASSUME ScopeInv, NEW t \in Things, ThingStep(t) \/ (t \in Plain \cup Listeners /\ DisposeOne(t))
  PROVE  ScopeInv'
<1> USE Members
<1>1. TypeOK /\ PhaseInv /\ ClosedInv /\ RegistryInv /\ IdleInv /\ ReleasedIsQuiet
  BY DEF ScopeInv
<1>2. phase[t] \in Phases /\ requested[t] \in {"no", "owner", "scope"} /\ faulty \in BOOLEAN
  BY <1>1 DEF TypeOK, Phases
<1>3. CASE StopDone(t)
  <2>1. requested[t] # "scope" /\ phase[t] = "stopping"
    BY <1>1, <1>3 DEF StopDone, PhaseInv
  <2>2. PICK state \in {"stopped", "releasing"} :
          /\ phase' = [phase EXCEPT ![t] = state]
          /\ requested[t] = "no" => state = "stopped"
    BY <1>3 DEF StopDone
  <2>3. requested' = [requested EXCEPT ![t] = requested[t]]
    BY <1>1, <1>3 DEF StopDone, TypeOK
  <2>4. Advances(t, state, requested[t])
    BY <1>2, <1>3, <2>2, <2>3 DEF StopDone, Advances
  <2>5. ~Ended /\ (scope = "active" => t \notin Handles)
    BY <1>1, <2>1 DEF ClosedInv, Owned, PhaseInv
  <2> QED
    BY <1>2, <2>1, <2>2, <2>4, <2>5, AdvanceInv
<1>4. CASE EndRelease(t)
  <2>1. phase[t] = "releasing" /\ requested[t] # "no" /\ QuietFor(t)
    BY <1>1, <1>4 DEF EndRelease, PhaseInv
  <2>2. requested' = [requested EXCEPT ![t] = requested[t]]
    BY <1>1, <1>4 DEF EndRelease, TypeOK
  <2>3. Advances(t, "released", requested[t])
    BY <1>2, <1>4, <2>2 DEF EndRelease, Advances
  <2>4. ~Ended /\ (scope = "active" => t \notin Handles)
    BY <1>1, <2>1 DEF ClosedInv, Owned, PhaseInv
  <2> QED
    BY <1>2, <2>1, <2>3, <2>4, AdvanceInv
<1>5. CASE ReleaseNext(t)
  <2>1. t \in Owned /\ scope = "disposing" /\ requested[t] = "no" /\ phase[t] # "stopping"
    BY <1>5 DEF ReleaseNext, Drained
  <2>2. phase[t] = "stopped"
    BY <1>1, <1>2, <2>1 DEF PhaseInv, ClosedInv, Owned, Phases
  <2>3. Advances(t, "releasing", "scope")
    BY <1>1, <1>2, <1>5, <2>2 DEF ReleaseNext, Advances, Proceed, TypeOK
  <2> QED
    BY <2>1, <2>2, <2>3, AdvanceInv DEF Ended
<1>6. CASE t \in Plain \cup Listeners /\ DisposeOne(t)
  <2>1. position[t] # 0 /\ requested[t] = "no" /\ requested' = [requested EXCEPT ![t] = "owner"]
        /\ phase' = [phase EXCEPT ![t] = Proceed(IF @ = "active" THEN Stopped(t) ELSE @)]
        /\ UNCHANGED <<scope, position, last, faulty, registry, work>>
    BY <1>6 DEF DisposeOne
  <2>2. phase[t] \in {"active", "stopping", "stopped"}
    BY <1>1, <1>2, <2>1 DEF PhaseInv, Phases
  <2>3. PICK state \in {"stopping", "releasing"} : phase' = [phase EXCEPT ![t] = state]
    BY <1>1, <2>1, <2>2 DEF Proceed, Stopped, TypeOK
  <2>4. Advances(t, state, "owner")
    BY <1>2, <2>1, <2>3 DEF Advances
  <2>5. ~Ended /\ t \notin Handles
    BY <1>1, <1>6, <2>1, <2>2, ScopeAssumption DEF ClosedInv, Owned
  <2> QED
    BY <2>2, <2>4, <2>5, AdvanceInv
<1> QED
  BY <1>3, <1>4, <1>5, <1>6 DEF ThingStep

LEMMA DisposeInv ==
  ASSUME ScopeInv, Dispose
  PROVE  ScopeInv'
<1> USE Members
<1>1. TypeOK /\ PhaseInv /\ ClosedInv /\ RegistryInv /\ IdleInv /\ ReleasedIsQuiet
  BY DEF ScopeInv
<1>2. /\ scope = "active" /\ scope' = "disposing"
      /\ phase' = [t \in Things |-> IF phase[t] = "active" THEN Stopped(t) ELSE phase[t]]
      /\ removed' = removed \cup (Owned \cap Handles)
      /\ entry' = IF entry \in Owned THEN None ELSE entry
      /\ UNCHANGED <<position, last, requested, faulty, work>>
  BY DEF Dispose
<1>3. entry' = None
  BY <1>1, <1>2 DEF RegistryInv, NameResolvesToLive, Owned
<1>4. \A t \in Things : \/ phase'[t] = phase[t]
                        \/ phase[t] = "active" /\ phase'[t] \in {"stopping", "stopped"}
  <2> TAKE t \in Things
  <2>1. phase'[t] = IF phase[t] = "active" THEN Stopped(t) ELSE phase[t]
    BY <1>2
  <2>2. Stopped(t) \in {"stopping", "stopped"}
    BY DEF Stopped
  <2>3. CASE phase[t] = "active"
    BY <2>1, <2>2, <2>3, Zenon
  <2>4. CASE phase[t] # "active"
    BY <2>1, <2>4, Zenon
  <2> QED
    BY <2>3, <2>4
<1>5. TypeOK'
  <2>1. phase' \in [Things -> Phases]
    BY <1>1, <1>2, <1>4 DEF TypeOK, Phases
  <2> QED
    BY <1>1, <1>2, <1>3, <2>1 DEF TypeOK, Phases, Owned, work
<1>6. PhaseInv'
  BY <1>1, <1>2, <1>4 DEF PhaseInv
<1>7. ClosedInv'
  BY <1>1, <1>2, <1>3, <1>4 DEF ClosedInv, Ended, Stopped
<1>8. RegistryInv' /\ IdleInv'
  BY <1>1, <1>2, <1>3 DEF RegistryInv, NameResolvesToLive, Owned, IdleInv, work
<1>9. ReleasedIsQuiet'
  BY <1>1, <1>2, <1>4 DEF ReleasedIsQuiet, QuietFor, Busy, work
<1> QED
  BY <1>5, <1>6, <1>7, <1>8, <1>9 DEF ScopeInv

LEMMA FinishInv ==
  ASSUME ScopeInv, Finish
  PROVE  ScopeInv'
<1>1. TypeOK /\ PhaseInv /\ ClosedInv /\ RegistryInv /\ IdleInv /\ ReleasedIsQuiet
  BY DEF ScopeInv
<1>2. /\ scope = "disposing" /\ Busy = {} /\ \A t \in Owned : phase[t] = "released"
      /\ scope' \in {"disposed", "dispose-failed"} /\ UNCHANGED <<things, registry, work>>
  BY DEF Finish, Drained
<1>3. TypeOK' /\ PhaseInv' /\ RegistryInv' /\ IdleInv' /\ ReleasedIsQuiet'
  BY <1>1, <1>2 DEF TypeOK, PhaseInv, RegistryInv, NameResolvesToLive, Owned, IdleInv,
     ReleasedIsQuiet, QuietFor, Busy, things, registry, work
<1>4. ClosedInv'
  BY <1>1, <1>2 DEF ClosedInv, Owned, Busy, things, registry, work
<1> QED
  BY <1>3, <1>4 DEF ScopeInv

-----------------------------------------------------------------------------
LEMMA InitInv == Init => ScopeInv
<1> SUFFICES ASSUME Init PROVE ScopeInv
  OBVIOUS
<1> USE Members DEF Init
<1>1. TypeOK
  <2>1. last \in Nat /\ position \in [Things -> 0..last]
    OBVIOUS
  <2>2. /\ phase \in [Things -> Phases] /\ requested \in [Things -> {"no", "owner", "scope"}]
        /\ pc \in [Work -> Places] /\ on \in [Work -> Things \cup {None}]
        /\ seen \in [Calls -> Handles \cup {None}]
    BY DEF Phases, Places
  <2> QED
    BY <2>1, <2>2 DEF TypeOK, Phases, Places
<1>2. PhaseInv /\ IdleInv /\ Busy = {} /\ Owned = {}
  BY DEF PhaseInv, IdleInv, Busy, Admitted, Owned
<1>3. ClosedInv /\ RegistryInv /\ ReleasedIsQuiet
  BY <1>2 DEF ClosedInv, RegistryInv, NameResolvesToLive, Ended, ReleasedIsQuiet
<1> QED
  BY <1>1, <1>2, <1>3 DEF ScopeInv

\* The disjuncts of Next, grouped by the lemma that covers them.
LEMMA NextSteps ==
  ASSUME Next
  PROVE  \/ WorkStep
         \/ \E t \in Plain \cup Listeners : Own(t)
         \/ \E h \in Handles : RegisterTool(h) \/ StopTool(h)
         \/ ThingChange
         \/ Dispose
         \/ Finish
<1> USE Members
<1>1. CASE \E t \in Plain \cup Listeners : DisposeOne(t)
  <2>1. PICK t \in Plain \cup Listeners : DisposeOne(t)
    BY <1>1
  <2>2. t \in Things
    OBVIOUS
  <2> QED
    BY <2>1, <2>2, Zenon DEF ThingChange
<1>2. CASE \E t \in Things : ThingStep(t)
  BY <1>2 DEF ThingChange
<1>3. CASE \/ \E c \in Calls : CallStep(c)
           \/ \E w \in Others, l \in Listeners : Emit(w, l)
           \/ \E w \in Others : RunSetup(w)
           \/ \E w \in Work : Invoke(w) \/ Settle(w)
  BY <1>3 DEF WorkStep
<1>4. CASE \/ \E t \in Plain \cup Listeners : Own(t)
           \/ \E h \in Handles : RegisterTool(h) \/ StopTool(h)
           \/ Dispose
           \/ Finish
  BY <1>4
<1> QED
  BY <1>1, <1>2, <1>3, <1>4 DEF Next

LEMMA NextInv ==
  ASSUME ScopeInv, [Next]_vars
  PROVE  ScopeInv'
<1> USE Members
<1>1. CASE WorkStep
  BY <1>1, WorkStepInv
<1>2. ASSUME NEW t \in Plain \cup Listeners, Own(t)
      PROVE  ScopeInv'
  <2>1. t \in Things /\ t \notin Handles
    BY ScopeAssumption
  <2> QED
    BY <1>2, <2>1, EnterInv DEF Own
<1>3. ASSUME NEW h \in Handles, RegisterTool(h)
      PROVE  ScopeInv'
  BY <1>3, EnterInv DEF RegisterTool
<1>4. ASSUME NEW h \in Handles, StopTool(h)
      PROVE  ScopeInv'
  BY <1>4, StopToolInv
<1>5. CASE ThingChange
  BY <1>5, ThingChangeInv DEF ThingChange
<1>6. CASE Dispose \/ Finish
  BY <1>6, DisposeInv, FinishInv
<1>7. CASE UNCHANGED vars
  BY <1>7 DEF ScopeInv, TypeOK, PhaseInv, ClosedInv, Ended, RegistryInv, NameResolvesToLive, Owned,
     IdleInv, ReleasedIsQuiet, QuietFor, Busy, vars, things, registry, work
<1> QED
  BY <1>1, <1>2, <1>3, <1>4, <1>5, <1>6, <1>7, NextSteps

\* All invariants of the scope hold in every reachable state.
THEOREM ScopeInvariant == Spec => []ScopeInv
  BY InitInv, NextInv, PTL DEF Spec

\* Every variable keeps its type.
THEOREM TypeCorrect == Spec => []TypeOK
<1>1. ScopeInv => TypeOK
  BY DEF ScopeInv
<1> QED
  BY <1>1, ScopeInvariant, PTL

\* The tool's name resolves to its live registration, whichever registrations
\* were stopped, replaced or disposed of with the scope.
THEOREM NameCorrect == Spec => []NameResolvesToLive
<1>1. ScopeInv => NameResolvesToLive
  BY DEF ScopeInv, RegistryInv
<1> QED
  BY <1>1, ScopeInvariant, PTL

\* What was reported as disposed has no call left.
THEOREM ReleasedCorrect == Spec => []ReleasedIsQuiet
<1>1. ScopeInv => ReleasedIsQuiet
  BY DEF ScopeInv
<1> QED
  BY <1>1, ScopeInvariant, PTL

-----------------------------------------------------------------------------
(***************************************************************************)
(* Order of release.                                                       *)
(***************************************************************************)
ReleaseOrder ==
  \A t \in Things :
    phase[t] # "releasing" /\ phase'[t] = "releasing" /\ requested'[t] = "scope"
      => Busy = {} /\ LaterReleased(t)

LEMMA ReleaseOrderStep ==
  ASSUME ScopeInv, [Next]_vars
  PROVE  ReleaseOrder
<1> SUFFICES ASSUME NEW t \in Things, phase[t] # "releasing", phase'[t] = "releasing",
                    requested'[t] = "scope"
             PROVE  Busy = {} /\ LaterReleased(t)
  BY DEF ReleaseOrder
<1> USE Members
<1>1. TypeOK /\ PhaseInv
  BY DEF ScopeInv
<1>2. ASSUME NEW u \in Things, ThingStep(u) \/ (u \in Plain \cup Listeners /\ DisposeOne(u))
      PROVE  Busy = {} /\ LaterReleased(t)
  <2>1. u = t
    BY <1>1, <1>2 DEF ThingStep, StopDone, EndRelease, ReleaseNext, DisposeOne, TypeOK
  <2>2. CASE ReleaseNext(t)
    BY <2>2 DEF ReleaseNext, Drained
  <2>3. CASE DisposeOne(t)
    BY <1>1, <2>3 DEF DisposeOne, TypeOK
  <2>4. CASE StopDone(t)
    BY <1>1, <2>4 DEF StopDone, PhaseInv
  <2>5. CASE EndRelease(t)
    BY <1>1, <2>5 DEF EndRelease
  <2> QED
    BY <1>2, <2>1, <2>2, <2>3, <2>4, <2>5 DEF ThingStep
<1>3. ASSUME phase' = phase
      PROVE  FALSE
  BY <1>3
<1>4. CASE WorkStep
  BY <1>3, <1>4, WorkStepMoves DEF ScopeInv, things
<1>5. ASSUME NEW u \in Things, Enter(u)
      PROVE  FALSE
  BY <1>1, <1>5 DEF Enter, TypeOK
<1>6. CASE Dispose
  BY <1>1, <1>6 DEF Dispose, Stopped, TypeOK
<1>7. CASE Finish \/ UNCHANGED vars \/ \E h \in Handles : StopTool(h)
  BY <1>3, <1>7 DEF Finish, StopTool, vars, things
<1>8. CASE ThingChange
  BY <1>2, <1>8 DEF ThingChange
<1>9. CASE (\E u \in Plain \cup Listeners : Own(u)) \/ (\E h \in Handles : RegisterTool(h))
  BY <1>5, <1>9 DEF Own, RegisterTool
<1> QED
  BY <1>4, <1>6, <1>7, <1>8, <1>9, NextSteps

\* The scope cleans up a resource only when none of its work runs and all
\* that was registered later is cleaned up.
THEOREM ReverseReleaseCorrect == Spec => ReverseRelease
<1>1. ScopeInv /\ [Next]_vars => [ReleaseOrder]_vars
  BY ReleaseOrderStep
<1>2. ReleaseOrder <=> (\A t \in Things :
         phase[t] # "releasing" /\ phase'[t] = "releasing" /\ requested'[t] = "scope"
           => Busy = {} /\ LaterReleased(t))
  BY DEF ReleaseOrder
<1> QED
  BY <1>1, <1>2, ScopeInvariant, PTL DEF Spec, ReverseRelease, ReleaseOrder

-----------------------------------------------------------------------------
(***************************************************************************)
(* Refinement of Lifetime.                                                 *)
(***************************************************************************)
Held == {t \in Owned : phase[t] # "released"}
Taken == {w \in Work : pc[w] \in Entered}

LEMMA LifeUnchanged ==
  ASSUME scope' = scope, Held' = Held, Owned' = Owned, Busy' = Busy, Taken' = Taken, Ended' = Ended
  PROVE  UNCHANGED Life!lifeVars
  BY DEF Life!lifeVars, Held, Taken, Entered

LEMMA LifeInitial == Init => Life!LifeInit
<1> SUFFICES ASSUME Init PROVE Life!LifeInit
  OBVIOUS
<1>1. Owned = {} /\ Busy = {} /\ scope = "active" /\ ~Ended
  BY DEF Init, Owned, Busy, Admitted, Ended
<1>2. {w \in Work : pc[w] \in {"queued", "running", "dropped", "settled"}} = {}
  BY DEF Init
<1> QED
  BY <1>1, <1>2 DEF Life!LifeInit

\* A step of work admits it, lets it leave, or is invisible.
LEMMA WorkStepLife ==
  ASSUME ScopeInv, WorkStep
  PROVE  \/ \E w \in Work : Life!Admit(w) \/ Life!Leave(w)
         \/ UNCHANGED Life!lifeVars
<1> USE Members
<1>1. TypeOK /\ Moves /\ UNCHANGED <<scope, things, registry>>
  BY WorkStepMoves DEF ScopeInv
<1>2. PICK w \in Work, place \in Places, t \in Things \cup {None} :
        pc' = [pc EXCEPT ![w] = place] /\ Admissible(w, place, t)
  BY <1>1 DEF Moves
<1>3. \A v \in Work : pc'[v] = IF v = w THEN place ELSE pc[v]
  BY <1>1, <1>2 DEF TypeOK
<1>4. scope' = scope /\ Held' = Held /\ Owned' = Owned /\ Ended' = Ended
  BY <1>1 DEF Held, Owned, Ended, things
<1>5. CASE pc[w] \notin Entered /\ place \notin Entered
  <2>1. Busy' = Busy /\ Taken' = Taken
    BY <1>3, <1>5 DEF Busy, Taken, Admitted, Entered
  <2> QED
    BY <1>4, <2>1, LifeUnchanged
<1>6. CASE pc[w] \notin Entered /\ place \in Entered
  <2>1. place \in Admitted /\ scope = "active" /\ w \notin Taken
    BY <1>2, <1>6 DEF Admissible, Admitted, Entered, Taken
  <2>2. Busy' = Busy \cup {w} /\ Taken' = Taken \cup {w}
    BY <1>3, <1>6, <2>1 DEF Busy, Taken, Admitted, Entered
  <2>3. Life!Admit(w)
    BY <1>4, <2>1, <2>2 DEF Life!Admit, Held, Taken, Entered
  <2> QED
    BY <2>3
<1>7. CASE pc[w] \in Entered
  <2>1. place \in Entered /\ (place \in Admitted => pc[w] \in Admitted)
    BY <1>2, <1>7 DEF Admissible, Admitted, Entered
  <2>2. Taken' = Taken
    BY <1>3, <1>7, <2>1 DEF Taken
  <2>3. CASE place \in Admitted \/ pc[w] \notin Admitted
    <3>1. Busy' = Busy
      BY <1>3, <2>1, <2>3 DEF Busy
    <3> QED
      BY <1>4, <2>2, <3>1, LifeUnchanged
  <2>4. CASE place \notin Admitted /\ pc[w] \in Admitted
    <3>1. Busy' = Busy \ {w} /\ w \in Busy
      BY <1>3, <2>4 DEF Busy
    <3>2. Life!Leave(w)
      BY <1>4, <2>2, <3>1 DEF Life!Leave, Held, Taken, Entered
    <3> QED
      BY <3>2
  <2> QED
    BY <2>3, <2>4
<1> QED
  BY <1>5, <1>6, <1>7

\* Entering takes a thing; the end of its release gives it back; the other
\* steps of a thing are invisible.
LEMMA EnterLife ==
  ASSUME ScopeInv, scope = "active", NEW t \in Things, Enter(t)
  PROVE  Life!Take(t)
<1>1. TypeOK /\ PhaseInv
  BY DEF ScopeInv
<1>2. t \notin Owned /\ Owned' = Owned \cup {t} /\ Held' = Held \cup {t}
  BY <1>1 DEF Enter, Owned, Held, TypeOK
<1>3. Busy' = Busy /\ Taken' = Taken /\ Ended' = Ended /\ scope' = scope
  BY DEF Enter, Busy, Taken, Ended, work
<1> QED
  BY <1>2, <1>3 DEF Life!Take, Held, Taken, Entered

LEMMA ThingChangeLife ==
  ASSUME ScopeInv, NEW t \in Things, ThingStep(t) \/ (t \in Plain \cup Listeners /\ DisposeOne(t))
  PROVE  Life!GiveBack(t) \/ UNCHANGED Life!lifeVars
<1> USE Members
<1>1. TypeOK /\ PhaseInv
  BY DEF ScopeInv
<1>2. Busy' = Busy /\ Taken' = Taken /\ Ended' = Ended /\ scope' = scope /\ Owned' = Owned
  BY DEF ThingStep, StopDone, EndRelease, ReleaseNext, DisposeOne, Busy, Taken, Ended, Owned, work
<1>3. CASE EndRelease(t)
  <2>1. t \in Held /\ Held' = Held \ {t}
    BY <1>1, <1>2, <1>3 DEF EndRelease, Held, Owned, TypeOK, PhaseInv
  <2>2. Life!GiveBack(t)
    BY <1>2, <2>1 DEF Life!GiveBack, Held, Taken, Entered
  <2> QED
    BY <2>2
<1>4. ASSUME \A u \in Things : phase'[u] = "released" <=> phase[u] = "released"
      PROVE  UNCHANGED Life!lifeVars
  <2>1. Held' = Held
    BY <1>2, <1>4 DEF Held, Owned
  <2> QED
    BY <1>2, <2>1, LifeUnchanged
<1>5. CASE StopDone(t)
  <2>1. PICK state \in {"stopped", "releasing"} : phase' = [phase EXCEPT ![t] = state]
    BY <1>5 DEF StopDone
  <2>2. phase[t] = "stopping"
    BY <1>5 DEF StopDone
  <2> QED
    BY <1>1, <1>4, <2>1, <2>2 DEF TypeOK
<1>6. CASE ReleaseNext(t) \/ DisposeOne(t)
  <2>1. PICK state \in Phases : phase' = [phase EXCEPT ![t] = state] /\ (state # phase[t] => state # "released")
    BY <1>1, <1>6 DEF ReleaseNext, DisposeOne, Proceed, Stopped, TypeOK, Phases
  <2>2. phase[t] # "released"
    BY <1>1, <1>6 DEF ReleaseNext, DisposeOne, PhaseInv
  <2> QED
    BY <1>1, <1>4, <2>1, <2>2 DEF TypeOK
<1> QED
  BY <1>3, <1>5, <1>6 DEF ThingStep

LEMMA LifeStep ==
  ASSUME ScopeInv, [Next]_vars
  PROVE  [Life!LifeNext]_Life!lifeVars
<1> USE Members
<1>1. CASE WorkStep
  BY <1>1, WorkStepLife DEF Life!LifeNext
<1>2. ASSUME NEW t \in Things, scope = "active", Enter(t)
      PROVE  Life!LifeNext
  BY <1>2, EnterLife DEF Life!LifeNext
<1>3. CASE (\E t \in Plain \cup Listeners : Own(t)) \/ (\E h \in Handles : RegisterTool(h))
  BY <1>2, <1>3 DEF Own, RegisterTool
<1>4. CASE \E h \in Handles : StopTool(h)
  <2>1. UNCHANGED <<scope, things, work>>
    BY <1>4 DEF StopTool
  <2> QED
    BY <2>1, LifeUnchanged DEF Held, Owned, Busy, Taken, Ended, things, work
<1>5. CASE ThingChange
  BY <1>5, ThingChangeLife DEF ThingChange, Life!LifeNext
<1>6. CASE Dispose
  <2>1. scope = "active" /\ scope' # "active" /\ Ended' = Ended
    BY <1>6 DEF Dispose, Ended
  <2>2. Owned' = Owned /\ Held' = Held /\ Busy' = Busy /\ Taken' = Taken
    BY <1>6 DEF Dispose, Owned, Held, Stopped, Busy, Taken, work
  <2>3. Life!Close
    BY <2>1, <2>2 DEF Life!Close, Held, Taken, Entered
  <2> QED
    BY <2>3 DEF Life!LifeNext
<1>7. CASE Finish
  <2>1. scope # "active" /\ scope' # "active" /\ ~Ended /\ Ended' /\ Busy = {} /\ Held = {}
    BY <1>7 DEF Finish, Drained, Ended, Held
  <2>2. Owned' = Owned /\ Held' = Held /\ Busy' = Busy /\ Taken' = Taken
    BY <1>7 DEF Finish, Owned, Held, Busy, Taken, things, work
  <2>3. Life!End
    BY <2>1, <2>2 DEF Life!End, Held, Taken, Entered
  <2> QED
    BY <2>3 DEF Life!LifeNext
<1>8. CASE UNCHANGED vars
  BY <1>8, LifeUnchanged DEF vars, Held, Owned, Busy, Taken, Ended, things, work
<1> QED
  BY <1>1, <1>3, <1>4, <1>5, <1>6, <1>7, <1>8, NextSteps

\* Scope, registry and calls implement Lifetime: nothing enters a closed
\* scope, each thing is given back once, and disposal ends with nothing held.
THEOREM LifetimeImplemented == Spec => ImplementsLifetime
  BY LifeInitial, LifeStep, ScopeInvariant, PTL DEF Spec, ImplementsLifetime, Life!LifeSpec

\* The scope hands out and takes back in order, for any resources,
\* registrations, listeners and calls (harness/pluginScope.js).
THEOREM ScopeCorrect == Spec => ScopeIsSafe
BY TypeCorrect, NameCorrect, ReleasedCorrect, ReverseReleaseCorrect, PTL DEF ScopeIsSafe

-----------------------------------------------------------------------------
(* Jobs. Only the supervisor says that a command is over, and only when it   *)
(* ends; then nothing is left to begin or to fork.                           *)
Over == {"exited", "stopped", "timed_out", "failed"}
Dead == supervisor = "gone" /\ ~J!GroupExists

JobTypes ==
  /\ others \in BOOLEAN /\ closed \in BOOLEAN
  /\ leader \in {"none", "runs", "exited"}
  /\ code \in {None, 0, 1}
  /\ record # None => record.confirmed \in BOOLEAN
  /\ supervisor = "settles" => cleanup \in BOOLEAN

BeforeItBegins ==
  /\ caller = "idle" => record = None
  /\ caller \in {"idle", "spawns"} => supervisor = "none" /\ second = "idle"
  /\ supervisor \in {"none", "boots"} => leader = "none"
  /\ leader = "none" => ~others

CleanedUp ==
  /\ cleanup = TRUE => ~J!GroupExists /\ supervisor \notin {"none", "boots"}
  /\ supervisor = "records" => cleanup \in BOOLEAN \/ leader = "none"

SaidToBeOver ==
  /\ record # None /\ (record.confirmed \/ record.status \in Over) => Dead
  /\ second # "idle" /\ record = None => Dead
  /\ answer \in {"ok", "ended"} => Dead
  /\ answer = "aborted" => caller = "returned" /\ supervisor = "none"

JobInv == JobTypes /\ BeforeItBegins /\ CleanedUp /\ SaidToBeOver

JobRecords ==
  [status : {"starting", "running", "stopping", "exited", "stopped", "timed_out", "failed",
             "cleanup_unconfirmed"},
   exit : {None} \cup {0, 1}, confirmed : BOOLEAN]

LEMMA Written ==
  ASSUME record' \in JobRecords
  PROVE  record' # None /\ record'.confirmed \in BOOLEAN
BY JobAssumption DEF JobRecords

LEMMA StartJobKeeps ==
  ASSUME JobInv, J!StartJob
  PROVE  JobInv'
<1>1. CASE aborted
  BY <1>1, JobAssumption DEF JobInv, JobTypes, BeforeItBegins, CleanedUp, SaidToBeOver, Over,
    Dead, J!GroupExists, J!StartJob, J!Answers, J!files, J!memory, J!group
<1>2. CASE ~aborted
  <2>1. /\ record' # None /\ record'.confirmed \in BOOLEAN
        /\ ~record'.confirmed /\ record'.status = "starting"
    <3>1. record' = [status |-> "starting", exit |-> None, confirmed |-> FALSE]
      BY <1>2 DEF J!StartJob
    <3>2. record' \in JobRecords
      BY <3>1 DEF JobRecords
    <3>3. ~record'.confirmed
      BY <3>1
    <3>4. record'.status = "starting"
      BY <3>1
    <3>5. record' # None /\ record'.confirmed \in BOOLEAN
      BY <3>2, Written
    <3> QED
      BY <3>3, <3>4, <3>5
  <2>2. caller = "idle" /\ caller' = "spawns" /\ answer' = answer /\ supervisor' = supervisor
        /\ second' = second
    BY <1>2 DEF J!StartJob
  <2>3. UNCHANGED <<closed, cleanup, leader, others, code>>
    BY <1>2 DEF J!StartJob, J!memory, J!group
  <2> QED
    BY <2>1, <2>2, <2>3 DEF JobInv, JobTypes, BeforeItBegins, CleanedUp, SaidToBeOver,
      Over, Dead, J!GroupExists
<1> QED
  BY <1>1, <1>2

LEMMA JobSpawnSupervisor ==
  ASSUME JobInv, J!SpawnSupervisor
  PROVE  JobInv'
BY JobAssumption DEF JobInv, JobTypes, BeforeItBegins, CleanedUp, SaidToBeOver, Over, Dead,
  J!SpawnSupervisor, J!GroupExists, J!Status, J!Ended, J!Expired, J!Silent, J!Result, J!Terminal,
  J!Answers, J!Goes, J!Saves, J!SaveFails, J!Removable, J!MustTerminate, J!Cleaned,
  J!FinalStatus, J!Causes, J!Timeouts, J!files, J!memory, J!group, J!first

LEMMA JobStarted ==
  ASSUME JobInv, J!Started
  PROVE  JobInv'
BY ZenonT(30), JobAssumption DEF JobInv, JobTypes, BeforeItBegins, CleanedUp, SaidToBeOver, Over, Dead,
  J!Started, J!GroupExists, J!Status, J!Ended, J!Expired, J!Silent, J!Result, J!Terminal,
  J!Answers, J!Goes, J!Saves, J!SaveFails, J!Removable, J!MustTerminate, J!Cleaned,
  J!FinalStatus, J!Causes, J!Timeouts, J!files, J!memory, J!group, J!first

LEMMA JobWait ==
  ASSUME JobInv, J!Wait
  PROVE  JobInv'
BY JobAssumption DEF JobInv, JobTypes, BeforeItBegins, CleanedUp, SaidToBeOver, Over, Dead,
  J!Wait, J!GroupExists, J!Status, J!Ended, J!Expired, J!Silent, J!Result, J!Terminal,
  J!Answers, J!Goes, J!Saves, J!SaveFails, J!Removable, J!MustTerminate, J!Cleaned,
  J!FinalStatus, J!Causes, J!Timeouts, J!files, J!memory, J!group, J!first

LEMMA JobStop ==
  ASSUME JobInv, J!Stop
  PROVE  JobInv'
BY ZenonT(30), JobAssumption DEF JobInv, JobTypes, BeforeItBegins, CleanedUp, SaidToBeOver, Over, Dead,
  J!Stop, J!GroupExists, J!Status, J!Ended, J!Expired, J!Silent, J!Result, J!Terminal,
  J!Answers, J!Goes, J!Saves, J!SaveFails, J!Removable, J!MustTerminate, J!Cleaned,
  J!FinalStatus, J!Causes, J!Timeouts, J!files, J!memory, J!group, J!first

LEMMA JobPoll ==
  ASSUME JobInv, J!Poll
  PROVE  JobInv'
<1> USE JobAssumption DEF JobInv, J!files, J!memory, J!group, J!first
<1>1. UNCHANGED <<record, stopFile, supervisor, cause, cleanup, catching, closed, unspawned,
                  leader, others, code, aborted, background, second>>
  BY DEF J!Poll
<1>2. /\ caller \notin {"idle", "spawns"} /\ caller' \notin {"idle", "spawns"}
      /\ \/ UNCHANGED answer
         \/ J!Answers("unconfirmed")
         \/ J!Ended /\ J!Answers(J!Result)
  BY DEF J!Poll, J!Answers
<1>3. JobTypes'
  BY <1>1 DEF JobTypes
<1>4. BeforeItBegins'
  BY <1>1, <1>2 DEF BeforeItBegins
<1>5. CleanedUp'
  BY <1>1 DEF CleanedUp, J!GroupExists
<1>6. SaidToBeOver'
  <2>1. Dead <=> Dead'
    BY <1>1 DEF Dead, J!GroupExists
  <2>2. answer' \in {"ok", "ended"} => Dead
    BY <1>2 DEF SaidToBeOver, J!Answers, J!Ended, J!Result, J!Status, J!Terminal, Over
  <2>3. answer' = "aborted" => answer = "aborted"
    BY <1>2 DEF J!Answers, J!Result
  <2> QED
    BY <1>1, <2>1, <2>2, <2>3 DEF SaidToBeOver, J!Poll
<1> QED
  BY <1>3, <1>4, <1>5, <1>6

LEMMA JobAbort ==
  ASSUME JobInv, J!Abort
  PROVE  JobInv'
BY JobAssumption DEF JobInv, JobTypes, BeforeItBegins, CleanedUp, SaidToBeOver, Over, Dead,
  J!Abort, J!GroupExists, J!Status, J!Ended, J!Expired, J!Silent, J!Result, J!Terminal,
  J!Answers, J!Goes, J!Saves, J!SaveFails, J!Removable, J!MustTerminate, J!Cleaned,
  J!FinalStatus, J!Causes, J!Timeouts, J!files, J!memory, J!group, J!first

LEMMA JobDispose ==
  ASSUME JobInv, J!Dispose
  PROVE  JobInv'
BY JobAssumption DEF JobInv, JobTypes, BeforeItBegins, CleanedUp, SaidToBeOver, Over, Dead,
  J!Dispose, J!GroupExists, J!Status, J!Ended, J!Expired, J!Silent, J!Result, J!Terminal,
  J!Answers, J!Goes, J!Saves, J!SaveFails, J!Removable, J!MustTerminate, J!Cleaned,
  J!FinalStatus, J!Causes, J!Timeouts, J!files, J!memory, J!group, J!first

LEMMA JobDisposePoll ==
  ASSUME JobInv, J!DisposePoll
  PROVE  JobInv'
BY JobAssumption DEF JobInv, JobTypes, BeforeItBegins, CleanedUp, SaidToBeOver, Over, Dead,
  J!DisposePoll, J!GroupExists, J!Status, J!Ended, J!Expired, J!Silent, J!Result, J!Terminal,
  J!Answers, J!Goes, J!Saves, J!SaveFails, J!Removable, J!MustTerminate, J!Cleaned,
  J!FinalStatus, J!Causes, J!Timeouts, J!files, J!memory, J!group, J!first

LEMMA JobRemoveState ==
  ASSUME JobInv, J!RemoveState
  PROVE  JobInv'
BY JobAssumption DEF JobInv, JobTypes, BeforeItBegins, CleanedUp, SaidToBeOver, Over, Dead,
  J!RemoveState, J!GroupExists, J!Status, J!Ended, J!Expired, J!Silent, J!Result, J!Terminal,
  J!Answers, J!Goes, J!Saves, J!SaveFails, J!Removable, J!MustTerminate, J!Cleaned,
  J!FinalStatus, J!Causes, J!Timeouts, J!files, J!memory, J!group, J!first

LEMMA JobLaunch ==
  ASSUME JobInv, J!Launch
  PROVE  JobInv'
BY JobAssumption DEF JobInv, JobTypes, BeforeItBegins, CleanedUp, SaidToBeOver, Over, Dead,
  J!Launch, J!GroupExists, J!Status, J!Ended, J!Expired, J!Silent, J!Result, J!Terminal,
  J!Answers, J!Goes, J!Saves, J!SaveFails, J!Removable, J!MustTerminate, J!Cleaned,
  J!FinalStatus, J!Causes, J!Timeouts, J!files, J!memory, J!group, J!first

LEMMA JobSaveFails ==
  ASSUME JobInv, J!SaveFails, supervisor \in {"announces", "watches", "leaves", "settles"},
         UNCHANGED <<closed, cleanup, J!group, J!first, second>>
  PROVE  JobInv'
BY DEF JobInv, JobTypes, BeforeItBegins, CleanedUp, SaidToBeOver, Over, Dead, J!GroupExists,
  J!SaveFails, J!Goes, J!group, J!first

LEMMA JobAnnounce ==
  ASSUME JobInv, J!Announce
  PROVE  JobInv'
<1>1. UNCHANGED <<closed, leader, others, code, caller, answer, second>> /\ supervisor = "announces"
  BY DEF J!Announce, J!group, J!first
<1>2. ASSUME record' = [status |-> "running", exit |-> None, confirmed |-> FALSE],
             supervisor' = "watches", cleanup' = cleanup
      PROVE  JobInv'
  <2>1. record' \in JobRecords /\ ~record'.confirmed /\ record'.status = "running"
    BY <1>2 DEF JobRecords
  <2>2. record' # None /\ record'.confirmed \in BOOLEAN
    BY <2>1, Written
  <2>3. supervisor' = "watches" /\ cleanup' = cleanup
    BY <1>2
  <2> QED
    BY <1>1, <2>1, <2>2, <2>3 DEF JobInv, JobTypes, BeforeItBegins, CleanedUp, SaidToBeOver,
      Over, Dead, J!GroupExists
<1>3. CASE J!SaveFails
  BY <1>1, <1>3, JobSaveFails DEF J!Announce, J!group, J!first
<1> QED
  BY <1>2, <1>3 DEF J!Announce, J!Saves, J!Goes

LEMMA JobWatch ==
  ASSUME JobInv, J!Watch
  PROVE  JobInv'
BY JobAssumption DEF JobInv, JobTypes, BeforeItBegins, CleanedUp, SaidToBeOver, Over, Dead,
  J!Watch, J!GroupExists, J!Status, J!Ended, J!Expired, J!Silent, J!Result, J!Terminal,
  J!Answers, J!Goes, J!Saves, J!SaveFails, J!Removable, J!MustTerminate, J!Cleaned,
  J!FinalStatus, J!Causes, J!Timeouts, J!files, J!memory, J!group, J!first

LEMMA JobClose ==
  ASSUME JobInv, J!Close
  PROVE  JobInv'
BY JobAssumption DEF JobInv, JobTypes, BeforeItBegins, CleanedUp, SaidToBeOver, Over, Dead,
  J!Close, J!GroupExists, J!Status, J!Ended, J!Expired, J!Silent, J!Result, J!Terminal,
  J!Answers, J!Goes, J!Saves, J!SaveFails, J!Removable, J!MustTerminate, J!Cleaned,
  J!FinalStatus, J!Causes, J!Timeouts, J!files, J!memory, J!group, J!first

LEMMA JobLeave ==
  ASSUME JobInv, J!Leave
  PROVE  JobInv'
<1>1. UNCHANGED <<closed, leader, others, code, caller, answer, second>> /\ supervisor = "leaves"
  BY DEF J!Leave, J!group, J!first
<1>2. ASSUME record' = [status |-> "stopping", exit |-> None, confirmed |-> FALSE],
             supervisor' = "terminates", cleanup' = cleanup
      PROVE  JobInv'
  <2>1. record' \in JobRecords /\ ~record'.confirmed /\ record'.status = "stopping"
    BY <1>2 DEF JobRecords
  <2>2. record' # None /\ record'.confirmed \in BOOLEAN
    BY <2>1, Written
  <2>3. supervisor' = "terminates" /\ cleanup' = cleanup
    BY <1>2
  <2> QED
    BY <1>1, <2>1, <2>2, <2>3 DEF JobInv, JobTypes, BeforeItBegins, CleanedUp, SaidToBeOver,
      Over, Dead, J!GroupExists
<1>3. CASE J!MustTerminate /\ J!SaveFails
  BY <1>1, <1>3, JobSaveFails DEF J!Leave, J!group, J!first
<1>4. CASE ~J!MustTerminate
  <2>1. ~J!GroupExists
    BY <1>4 DEF J!MustTerminate, JobInv, JobTypes, BeforeItBegins, J!GroupExists
  <2>2. cleanup' = TRUE /\ supervisor' = "settles" /\ record' = record
    BY <1>4 DEF J!Leave, J!Goes
  <2> QED
    BY <1>1, <2>1, <2>2 DEF JobInv, JobTypes, BeforeItBegins, CleanedUp, SaidToBeOver,
      Over, Dead, J!GroupExists
<1> QED
  BY <1>2, <1>3, <1>4 DEF J!Leave, J!Saves, J!Goes

LEMMA JobTerminate ==
  ASSUME JobInv, J!Terminate
  PROVE  JobInv'
BY JobAssumption DEF JobInv, JobTypes, BeforeItBegins, CleanedUp, SaidToBeOver, Over, Dead,
  J!Terminate, J!GroupExists, J!Status, J!Ended, J!Expired, J!Silent, J!Result, J!Terminal,
  J!Answers, J!Goes, J!Saves, J!SaveFails, J!Removable, J!MustTerminate, J!Cleaned,
  J!FinalStatus, J!Causes, J!Timeouts, J!files, J!memory, J!group, J!first

LEMMA JobKill ==
  ASSUME JobInv, J!Kill
  PROVE  JobInv'
<1>1. J!GroupExists' => J!GroupExists
  BY DEF J!Kill, J!GroupExists, JobInv, JobTypes
<1>2. supervisor = "kills" /\ supervisor' = "confirms"
  BY DEF J!Kill, J!Goes
<1>3. leader' \in {leader, "exited"} /\ others' \in BOOLEAN
  BY DEF J!Kill, JobInv, JobTypes
<1>4. leader = "none" => ~others
  BY DEF JobInv, BeforeItBegins
<1> QED
  BY <1>1, <1>2, <1>3, <1>4 DEF J!Kill, J!files, J!memory, J!first, JobInv, JobTypes,
    BeforeItBegins, CleanedUp, SaidToBeOver, Dead

LEMMA JobConfirm ==
  ASSUME JobInv, J!Confirm
  PROVE  JobInv'
BY JobAssumption DEF JobInv, JobTypes, BeforeItBegins, CleanedUp, SaidToBeOver, Over, Dead,
  J!Confirm, J!GroupExists, J!Status, J!Ended, J!Expired, J!Silent, J!Result, J!Terminal,
  J!Answers, J!Goes, J!Saves, J!SaveFails, J!Removable, J!MustTerminate, J!Cleaned,
  J!FinalStatus, J!Causes, J!Timeouts, J!files, J!memory, J!group, J!first

LEMMA JobSettle ==
  ASSUME JobInv, J!Settle
  PROVE  JobInv'
<1>1. /\ UNCHANGED <<closed, cleanup, leader, others, code, caller, answer, second>>
      /\ supervisor = "settles"
  BY DEF J!Settle, J!group, J!first
<1>2. CASE J!SaveFails
  BY <1>1, <1>2, JobSaveFails DEF J!Settle, J!group, J!first
<1>3. CASE J!Saves(J!FinalStatus, IF closed THEN code ELSE None, cleanup /\ closed)
           /\ supervisor' = "gone"
  <2>1. closed \in BOOLEAN /\ cleanup \in BOOLEAN /\ code \in {None, 0, 1}
    BY <1>1 DEF JobInv, JobTypes
  <2>2. record'.confirmed = (cleanup /\ closed) /\ record'.status = J!FinalStatus
    BY <1>3 DEF J!Saves
  <2>3. J!FinalStatus \in {"cleanup_unconfirmed", "failed", "timed_out", "stopped", "exited"}
    BY <2>1 DEF J!FinalStatus
  <2>4. ~(cleanup /\ closed) => J!FinalStatus = "cleanup_unconfirmed"
    BY DEF J!FinalStatus
  <2>5. (IF closed THEN code ELSE None) \in {None} \cup {0, 1}
    BY <2>1
  <2>6. (cleanup /\ closed) \in BOOLEAN
    OBVIOUS
  <2>7. record' \in JobRecords
    BY <1>3, <2>3, <2>5, <2>6 DEF J!Saves, JobRecords
  <2>8. record' # None /\ record'.confirmed \in BOOLEAN
    BY <2>7, Written
  <2>9. record'.confirmed \/ record'.status \in Over => ~J!GroupExists
    BY <2>1, <2>2, <2>4 DEF Over, JobInv, CleanedUp
  <2> QED
    BY <1>1, <1>3, <2>8, <2>9 DEF JobInv, JobTypes, BeforeItBegins, CleanedUp, SaidToBeOver,
      Dead, J!GroupExists
<1> QED
  BY <1>2, <1>3 DEF J!Settle, J!Goes

LEMMA JobRecordFailure ==
  ASSUME JobInv, J!RecordFailure
  PROVE  JobInv'
<1>1. /\ UNCHANGED <<closed, cleanup, leader, others, code, caller, answer, second>>
      /\ supervisor = "records" /\ supervisor' = "gone"
  BY DEF J!RecordFailure, J!memory, J!group, J!first, J!Goes
<1>2. CASE UNCHANGED record
  BY <1>1, <1>2 DEF JobInv, JobTypes, BeforeItBegins, CleanedUp, SaidToBeOver, Over, Dead,
    J!GroupExists
<1>3. ASSUME NEW status, status = (IF cleanup = FALSE THEN "cleanup_unconfirmed" ELSE "failed"),
             NEW exit, exit = (IF closed THEN code ELSE None),
             NEW confirmed, confirmed = (cleanup # FALSE),
             record' = [status |-> status, exit |-> exit, confirmed |-> confirmed]
      PROVE  JobInv'
  <2>1. closed \in BOOLEAN /\ code \in {None, 0, 1} /\ (cleanup \in BOOLEAN \/ leader = "none")
    BY <1>1 DEF JobInv, JobTypes, CleanedUp
  <2>2. exit \in {None} \cup {0, 1} /\ confirmed \in BOOLEAN
    BY <1>3, <2>1
  <2>3. record' \in JobRecords
    BY <1>3, <2>2 DEF JobRecords
  <2>4. record'.confirmed = confirmed /\ record'.status = status
    BY <1>3
  <2>5. record' # None /\ record'.confirmed \in BOOLEAN
    BY <2>3, Written
  <2>6. cleanup # FALSE => ~J!GroupExists
    BY <2>1 DEF JobInv, CleanedUp, BeforeItBegins, J!GroupExists
  <2>7. record'.confirmed \/ record'.status \in Over => ~J!GroupExists
    BY <1>3, <2>4, <2>6 DEF Over
  <2> QED
    BY <1>1, <2>5, <2>7 DEF JobInv, JobTypes, BeforeItBegins, CleanedUp, SaidToBeOver,
      Dead, J!GroupExists
<1> QED
  BY <1>2, <1>3 DEF J!RecordFailure, J!Saves

LEMMA JobCrash ==
  ASSUME JobInv, J!Crash
  PROVE  JobInv'
BY JobAssumption DEF JobInv, JobTypes, BeforeItBegins, CleanedUp, SaidToBeOver, Over, Dead,
  J!Crash, J!GroupExists, J!Status, J!Ended, J!Expired, J!Silent, J!Result, J!Terminal,
  J!Answers, J!Goes, J!Saves, J!SaveFails, J!Removable, J!MustTerminate, J!Cleaned,
  J!FinalStatus, J!Causes, J!Timeouts, J!files, J!memory, J!group, J!first

LEMMA JobFork ==
  ASSUME JobInv, J!Fork
  PROVE  JobInv'
BY JobAssumption DEF JobInv, JobTypes, BeforeItBegins, CleanedUp, SaidToBeOver, Over, Dead,
  J!Fork, J!GroupExists, J!Status, J!Ended, J!Expired, J!Silent, J!Result, J!Terminal,
  J!Answers, J!Goes, J!Saves, J!SaveFails, J!Removable, J!MustTerminate, J!Cleaned,
  J!FinalStatus, J!Causes, J!Timeouts, J!files, J!memory, J!group, J!first

LEMMA JobExit ==
  ASSUME JobInv, J!Exit
  PROVE  JobInv'
BY JobAssumption DEF JobInv, JobTypes, BeforeItBegins, CleanedUp, SaidToBeOver, Over, Dead,
  J!Exit, J!GroupExists, J!Status, J!Ended, J!Expired, J!Silent, J!Result, J!Terminal,
  J!Answers, J!Goes, J!Saves, J!SaveFails, J!Removable, J!MustTerminate, J!Cleaned,
  J!FinalStatus, J!Causes, J!Timeouts, J!files, J!memory, J!group, J!first

LEMMA JobStep ==
  ASSUME JobInv, [EndsNext]_<<part, vars, jobVars>>
  PROVE  JobInv'
<1>1. CASE J!Next
  BY <1>1, StartJobKeeps, JobSpawnSupervisor, JobStarted, JobWait, JobStop, JobPoll,
     JobAbort, JobDispose, JobDisposePoll, JobRemoveState, JobLaunch,
     JobAnnounce, JobWatch, JobClose, JobLeave, JobTerminate, JobKill,
     JobConfirm, JobSettle, JobRecordFailure, JobCrash, JobFork, JobExit
  DEF J!Next, J!CallerStep, J!SupervisorStep
<1>2. CASE UNCHANGED jobVars
  BY <1>2 DEF jobVars, JobInv, JobTypes, BeforeItBegins, CleanedUp, SaidToBeOver, Over, Dead,
    J!GroupExists
<1> QED
  BY <1>1, <1>2 DEF EndsNext

LEMMA JobBegins == EndsInit => JobInv
BY JobAssumption DEF EndsInit, J!Init, JobInv, JobTypes, BeforeItBegins, CleanedUp,
  SaidToBeOver, Over, Dead, J!GroupExists

\* Nobody is told that a job is over while a process of it runs or may still
\* begin (execution/backend.js, execution/worker.js).
THEOREM GoneCorrect == EndsSpec => []GoneWhenSaid
<1>1. JobInv => GoneWhenSaid
  BY DEF JobInv, BeforeItBegins, SaidToBeOver, Dead, GoneWhenSaid, J!GoneWhenSaid,
    J!MayLaunch, J!GroupExists
<1> QED
  BY <1>1, JobBegins, JobStep, PTL DEF EndsSpec

=============================================================================
