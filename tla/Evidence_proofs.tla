---------------------------- MODULE Evidence_proofs ----------------------------
(***************************************************************************)
(* Theorems about Verification, Progress and DuplicateGuard, for any       *)
(* checks, contracts, commands, files and bounds. That evidence counted as *)
(* fresh is fresh needs three assumptions, each about what the code gets   *)
(* wrong: no check is run as a job, no worker only reads, and one call at  *)
(* most has malformed arguments. The other two need none.                  *)
(***************************************************************************)
EXTENDS MCEvidence, SequenceTheorems, WellFoundedInduction, TLAPS

(***************************************************************************)
(* Induction over a set of naturals, and what the repeated observation of  *)
(* effects is: a state after each of them.                                 *)
(***************************************************************************)
LEMMA SetInduction ==
  ASSUME NEW S, 0 \in S, \A n \in Nat : n \in S => n + 1 \in S
  PROVE  Nat \subseteq S
<1> SUFFICES ASSUME Nat \ S # {} PROVE FALSE
  OBVIOUS
<1>1. PICK n \in Nat \ S : \A m \in Nat \ S : ~(<<m, n>> \in OpToRel(<, Nat))
  BY WFMin, NatLessThanWellFounded
<1>2. \A m \in Nat \ S : ~(m < n)
  BY <1>1 DEF OpToRel
<1>3. n - 1 \in Nat /\ n - 1 \in S
  BY <1>2
<1> QED
  BY <1>3

LEMMA MaxOfTwo ==
  ASSUME NEW a \in Int, NEW b \in Int
  PROVE  Max({a, b}) = IF a >= b THEN a ELSE b
<1> DEFINE m == IF a >= b THEN a ELSE b
<1>1. m \in {a, b} /\ \A y \in {a, b} : m >= y
  OBVIOUS
<1>2. \A x \in {a, b} : (\A y \in {a, b} : x >= y) => x = m
  OBVIOUS
<1> QED
  BY <1>1, <1>2 DEF Max

Changing(e) == e.kind = "change" \/ e.command = Other

RunOf(v, e) ==
  [ran |-> TRUE, ok |-> e.ok, began |-> e.began, validated |-> v.validationRevision]

LEMMA AdvanceFacts ==
  ASSUME NEW v \in VState, NEW e \in Effect
  PROVE  /\ Advance(v, e) \in VState
         /\ Advance(v, e).workspaceRevision =
              IF v.workspaceRevision >= e.revision THEN v.workspaceRevision ELSE e.revision
         /\ Advance(v, e).validationRevision = IF Changing(e) THEN e.revision ELSE v.validationRevision
         /\ Changing(e) => Advance(v, e).evidence = v.evidence
         /\ ~Changing(e) =>
              /\ e.command \in Checks
              /\ Advance(v, e).evidence = [v.evidence EXCEPT ![e.command] = RunOf(v, e)]
<1> DEFINE next == [v EXCEPT
        !.workspaceRevision = Max({@, e.revision}),
        !.validationRevision = ValidationRevision(v, e),
        !.evidence = Evidence(v, e),
        !.hadFailure = @ \/ FailedCheck(e)]
<1>1. /\ v.workspaceRevision \in Nat /\ e.revision \in Nat /\ v.validationRevision \in Nat
      /\ v.evidence \in [Checks -> Run]
  BY DEF VState, Effect
<1>2. Max({v.workspaceRevision, e.revision}) =
        IF v.workspaceRevision >= e.revision THEN v.workspaceRevision ELSE e.revision
  BY <1>1, MaxOfTwo
<1>3. ValidationRevision(v, e) = IF Changing(e) THEN e.revision ELSE v.validationRevision
  BY DEF ValidationRevision, Changing
<1>4. /\ Changing(e) => Evidence(v, e) = v.evidence
      /\ ~Changing(e) => /\ e.command \in Checks /\ e.ok \in BOOLEAN /\ e.began \in Nat
                         /\ Evidence(v, e) = [v.evidence EXCEPT ![e.command] = RunOf(v, e)]
  BY <1>3, VerificationAssumption DEF Evidence, Changing, Effect, Commands, RunOf
<1>5. Evidence(v, e) \in [Checks -> Run] /\ ValidationRevision(v, e) \in Nat
  <2>1. ValidationRevision(v, e) \in Nat
    BY <1>1, <1>3
  <2>2. ~Changing(e) => RunOf(v, e) \in Run
    BY <1>1, <1>4 DEF Run, RunOf
  <2> QED  BY <1>1, <1>4, <2>1, <2>2
<1>6. next \in VState
  BY <1>1, <1>2, <1>5 DEF VState, FailedCheck
<1>7. StatusAfterChange(next) \in Verdicts /\ StatusAfterCommand(next) \in Verdicts
  BY DEF StatusAfterChange, StatusAfterCommand, Verdicts
<1>8. Advance(v, e) = [next EXCEPT !.status = IF e.kind = "change" THEN StatusAfterChange(next)
                                                   ELSE StatusAfterCommand(next)]
  BY DEF Advance
<1>9. Advance(v, e) \in VState
  BY <1>6, <1>7, <1>8 DEF VState
<1>10. /\ Advance(v, e).workspaceRevision = next.workspaceRevision
       /\ Advance(v, e).validationRevision = next.validationRevision
       /\ Advance(v, e).evidence = next.evidence
  BY <1>6, <1>8 DEF VState
<1>11. /\ next.workspaceRevision = Max({v.workspaceRevision, e.revision})
       /\ next.validationRevision = ValidationRevision(v, e)
       /\ next.evidence = Evidence(v, e)
  BY DEF VState
<1> QED
  BY <1>2, <1>3, <1>4, <1>9, <1>10, <1>11

\* Every prefix of the events has its state.
LEMMA ObserveFacts ==
  ASSUME NEW v \in VState, NEW events \in Seq(Effect)
  PROVE  \E after \in [0 .. Len(events) -> VState] :
           /\ after[0] = v /\ Observe(v, events) = after[Len(events)]
           /\ \A n \in 1 .. Len(events) : after[n] = Advance(after[n - 1], events[n])
<1> DEFINE Chain(f, k) ==
             /\ f \in [0 .. k -> VState] /\ f[0] = v
             /\ \A n \in 1 .. k : f[n] = Advance(f[n - 1], events[n])
           Reached == {k \in Nat : k <= Len(events) => \E f : Chain(f, k)}
           Step(f, n) == IF n = 0 THEN v ELSE Advance(f[n - 1], events[n])
<1>0. Len(events) \in Nat /\ \A n \in 1 .. Len(events) : events[n] \in Effect
  OBVIOUS
<1>1. 0 \in Reached
  <2>1. Chain([n \in 0 .. 0 |-> v], 0)
    OBVIOUS
  <2> QED  BY <2>1
<1>2. ASSUME NEW k \in Nat, k \in Reached PROVE k + 1 \in Reached
  <2> SUFFICES ASSUME k + 1 <= Len(events) PROVE \E g : Chain(g, k + 1)
    OBVIOUS
  <2>1. PICK f : Chain(f, k)
    BY <1>0, <1>2
  <2> DEFINE g == [n \in 0 .. k + 1 |-> IF n = k + 1 THEN Advance(f[k], events[k + 1]) ELSE f[n]]
  <2>2. events[k + 1] \in Effect /\ f[k] \in VState
    BY <1>0, <2>1
  <2>3. Advance(f[k], events[k + 1]) \in VState
    BY <2>2, AdvanceFacts
  <2>4. g \in [0 .. k + 1 -> VState] /\ g[0] = v
    BY <2>1, <2>3
  <2>5. ASSUME NEW n \in 1 .. k + 1 PROVE g[n] = Advance(g[n - 1], events[n])
    <3>1. CASE n = k + 1
      BY <3>1
    <3>2. CASE n # k + 1
      <4>1. n \in 1 .. k /\ g[n] = f[n] /\ g[n - 1] = f[n - 1]
        BY <3>2
      <4> QED  BY <2>1, <4>1
    <3> QED  BY <3>1, <3>2
  <2> QED  BY <2>4, <2>5
<1>3. Len(events) \in Reached
  BY <1>0, <1>1, <1>2, SetInduction
<1>4. PICK f : Chain(f, Len(events))
  BY <1>0, <1>3
<1> DEFINE N == 0 .. Len(events)
           Rec(g) == g = [n \in N |-> Step(g, n)]
           after == CHOOSE g : Rec(g)
<1>5. Rec(f)
  <2>1. ASSUME NEW n \in N PROVE f[n] = Step(f, n)
    BY <1>4, <2>1
  <2> QED  BY <1>4, <2>1
<1>6. Rec(after)
  BY <1>5
<1>7. after = f
  <2> DEFINE Same == {n \in Nat : n \in N => after[n] = f[n]}
  <2> HIDE DEF after, Step
  <2>1. \A n \in N : after[n] = Step(after, n) /\ f[n] = Step(f, n)
    BY <1>5, <1>6
  <2>2. 0 \in Same
    BY <1>0, <2>1 DEF Step
  <2>3. ASSUME NEW n \in Nat, n \in Same PROVE n + 1 \in Same
    <3> SUFFICES ASSUME n + 1 \in N PROVE after[n + 1] = f[n + 1]
      OBVIOUS
    <3>1. after[n] = f[n]
      BY <1>0, <2>3
    <3>2. Step(after, n + 1) = Step(f, n + 1)
      BY <3>1 DEF Step
    <3> QED  BY <2>1, <3>2
  <2>4. Nat \subseteq Same
    BY <2>2, <2>3, SetInduction
  <2>5. \A n \in N : after[n] = f[n]
    BY <2>4
  <2>6. after = [n \in N |-> after[n]] /\ f = [n \in N |-> f[n]]
    BY <1>4, <1>6
  <2> QED  BY <2>5, <2>6
<1>8. Observe(v, events) = after[Len(events)]
  BY DEF Observe
<1> HIDE DEF after
<1> QED
  BY <1>4, <1>7, <1>8

-----------------------------------------------------------------------------
(***************************************************************************)
(* The effects that are not observed yet are those of the worker at work   *)
(* and of those whose results wait, and they are observed in the order of  *)
(* their revisions. A run of a check that still counts began after the     *)
(* last change, or a change that will make it stale waits behind it.       *)
(***************************************************************************)
Waiting(w) == \E i \in 1 .. Len(returned) : returned[i] = w
Effects(w) == {effects[w][i] : i \in 1 .. Len(effects[w])}
Pending == UNION {Effects(w) : w \in Workers}
Ahead(w, x) ==
  \E i \in 1 .. Len(returned) :
    /\ returned[i] = w
    /\ worker[x] = "running" \/ \E j \in i + 1 .. Len(returned) : returned[j] = x

PhaseInv ==
  /\ phase # "parallel" => returned = <<>> /\ \A w \in Workers : worker[w] \in {"none", "over"}
  /\ \A w \in Workers : effects[w] # <<>> => worker[w] = "running" \/ Waiting(w)
  /\ \A i \in 1 .. Len(returned) : worker[returned[i]] = "over"
  /\ \A i, j \in 1 .. Len(returned) : returned[i] = returned[j] => i = j
  /\ \A w, x \in Writers : worker[w] = "running" /\ worker[x] = "running" => w = x

OrderInv ==
  /\ \A w \in Workers : \A i, j \in 1 .. Len(effects[w]) :
       i < j => effects[w][i].revision < effects[w][j].revision
  /\ \A w, x \in Workers : Ahead(w, x) =>
       \A e \in Effects(w), d \in Effects(x) : e.revision < d.revision
  /\ \A e \in Pending : verification.validationRevision <= e.revision /\ e.revision <= ledger
  /\ \A e \in Pending, c \in Checks :
       verification.evidence[c].ran => verification.evidence[c].validated < e.revision

\* What holds of a state as it is saved, with the revision beside it.
Sound(v, rev) ==
  /\ v.validationRevision <= v.workspaceRevision /\ v.workspaceRevision <= rev + malformed
  /\ \A c \in Checks : v.evidence[c].ran =>
       v.evidence[c].validated <= rev /\ v.evidence[c].validated <= v.validationRevision

Current(v, c) == v.evidence[c].ran /\ v.evidence[c].validated = v.validationRevision
CoverInv ==
  /\ \A c \in Checks : Current(verification, c) =>
       Covered(c) \/ \E e \in Pending : Changing(e)
  /\ \A d \in Pending : Changing(d) \/ d.began >= lastChange
                         \/ \E e \in Pending : Changing(e) /\ d.revision < e.revision

JobInv == \A j \in jobs : j.command \in JobCommands

EvidenceInv ==
  /\ TypeOK /\ JobInv /\ PhaseInv /\ OrderInv /\ CoverInv
  /\ Sound(verification, ledger) /\ Sound(checkpoint.verification, checkpoint.revision)

\* What evidence is trusted for: no check runs as a job, no worker only reads
\* and one call at most is malformed.
Trusted == JobCommands \cap Checks = {} /\ Workers = Writers /\ MaxMalformed <= 1

-----------------------------------------------------------------------------
\* What changes neither the evidence nor what waits.
LEMMA NothingObserved ==
  ASSUME EvidenceInv, TypeOK', JobInv', PhaseInv',
         UNCHANGED <<ledger, verification, effects, lastChange, malformed>>,
         \A w, x \in Workers : Ahead(w, x)' /\ effects[w] # <<>> /\ effects[x] # <<>> => Ahead(w, x),
         checkpoint' \in {checkpoint, RunState}
  PROVE  EvidenceInv'
<1>1. \A w : Effects(w)' = Effects(w)
  BY DEF Effects
<1>2. Pending' = Pending
  BY DEF Effects, Pending
<1>3. \A w \in Workers : Effects(w) # {} => effects[w] # <<>>
  BY DEF Effects
<1>4. OrderInv'
  BY <1>1, <1>2, <1>3 DEF EvidenceInv, OrderInv
<1>5. CoverInv'
  BY <1>2 DEF EvidenceInv, CoverInv, Current, Covered
<1>6. Sound(verification, ledger)' /\ Sound(checkpoint.verification, checkpoint.revision)'
  BY DEF EvidenceInv, Sound, RunState
<1> QED
  BY <1>4, <1>5, <1>6 DEF EvidenceInv

(* What a call is executed as: the next revision's effect, which is one of   *)
(* a change if the workspace changed, and a run of a check begins with it.   *)
Recorded(a, e, altered) ==
  /\ Acting(a) /\ Executed(a, e, altered)
  /\ e \in Effect /\ altered \in BOOLEAN /\ e.revision = NextRevision
  /\ altered => Changing(e)
  /\ ~Changing(e) => e.began = clock + 1 /\ ~altered

LEMMA ExecuteRecords ==
  ASSUME Trusted, TypeOK, JobInv, NEW a \in Workers \cup {Main}, Execute(a)
  PROVE  /\ \E e, altered : Recorded(a, e, altered)
         /\ drift' \subseteq {"own", "external"} /\ JobInv'
         /\ jobs' \subseteq [command : Commands, began : Nat] /\ observed' \subseteq jobs'
<1>0. /\ NextRevision \in Nat /\ clock + 1 \in Nat /\ drift \subseteq {"own", "external"}
      /\ jobs \subseteq [command : Commands, began : Nat] /\ observed \subseteq jobs
  BY DEF TypeOK, NextRevision
<1>1. ASSUME NEW b \in BOOLEAN
      PROVE  /\ Change(NextRevision, b) \in Effect /\ Change(NextRevision, b).revision = NextRevision
             /\ Changing(Change(NextRevision, b))
  BY <1>0 DEF Change, Effect, Changing
<1>2. ASSUME NEW c \in Commands, NEW ok \in BOOLEAN, NEW n \in Nat
      PROVE  LET e == Command(NextRevision, c, ok, n) IN
               /\ e \in Effect /\ e.revision = NextRevision /\ e.began = n
               /\ Changing(e) <=> c = Other
  BY <1>0 DEF Command, Effect, Changing
<1>3. CASE Edit(a)
  BY <1>0, <1>1, <1>3 DEF Edit, Recorded, JobInv
<1>4. CASE RunCommand(a)
  <2>1. PICK c \in Commands, ok \in BOOLEAN :
          Executed(a, Command(NextRevision, c, ok, clock + 1), c = Other)
    BY <1>4 DEF RunCommand
  <2>2. Acting(a) /\ UNCHANGED world
    BY <1>4 DEF RunCommand
  <2>3. Recorded(a, Command(NextRevision, c, ok, clock + 1), c = Other)
    BY <1>0, <1>2, <2>1, <2>2 DEF Recorded
  <2> QED  BY <1>0, <1>2, <2>2, <2>3 DEF world, JobInv
<1>5. CASE ReadChangedFile(a)
  <2> DEFINE found == "external" \in drift
  <2>1. found \in BOOLEAN
    OBVIOUS
  <2>2. Acting(a) /\ Executed(a, Change(NextRevision, FALSE), found)
    BY <1>5 DEF ReadChangedFile
  <2> HIDE DEF found
  <2>3. Recorded(a, Change(NextRevision, FALSE), found)
    BY <1>1, <2>1, <2>2 DEF Recorded
  <2> QED  BY <1>0, <1>5, <2>3 DEF ReadChangedFile, JobInv
<1>6. CASE StartJob(a)
  <2>1. Recorded(a, Change(NextRevision, FALSE), TRUE)
    BY <1>1, <1>6 DEF StartJob, Recorded
  <2>2. PICK c \in JobCommands : jobs' = jobs \cup {[command |-> c, began |-> clock + 1]}
    BY <1>6 DEF StartJob
  <2>3. c \in Commands
    BY VerificationAssumption DEF Commands
  <2>4. JobInv' /\ jobs' \subseteq [command : Commands, began : Nat]
    BY <1>0, <2>2, <2>3 DEF JobInv
  <2> QED  BY <1>0, <1>1, <1>6, <2>1, <2>2, <2>4 DEF StartJob
<1>7. CASE PollJob(a)
  <2>1. PICK j \in jobs \ observed, ok \in BOOLEAN :
          /\ observed' = observed \cup {j}
          /\ Executed(a, Command(NextRevision, j.command, ok, j.began), j.command = Other)
    BY <1>7 DEF PollJob
  <2>2. j.command \in Commands /\ j.began \in Nat
    BY <1>0
  <2>3. j.command = Other
    BY <2>2 DEF JobInv, Trusted, Commands
  <2>4. Recorded(a, Command(NextRevision, j.command, ok, j.began), j.command = Other)
    BY <1>2, <1>7, <2>1, <2>2, <2>3 DEF Recorded, PollJob
  <2> QED  BY <1>0, <1>2, <1>7, <2>1, <2>2, <2>4 DEF PollJob, JobInv
<1> QED
  BY <1>3, <1>4, <1>5, <1>6, <1>7 DEF Execute

\* Outside the parallel part of a step nothing waits to be observed.
LEMMA NothingPending ==
  ASSUME TypeOK, PhaseInv, phase # "parallel"
  PROVE  Pending = {} /\ returned = <<>> /\ \A w \in Workers : effects[w] = <<>>
<1>1. returned = <<>> /\ \A w \in Workers : worker[w] # "running"
  BY DEF PhaseInv
<1>2. \A w \in Workers : ~Waiting(w)
  BY <1>1 DEF Waiting
<1>3. \A w \in Workers : effects[w] = <<>>
  BY <1>1, <1>2 DEF PhaseInv
<1>4. \A w \in Workers : Effects(w) = {}
  BY <1>3 DEF Effects
<1> QED
  BY <1>1, <1>3, <1>4 DEF Pending

\* The main agent observes its own call at once.
LEMMA MainExecuted ==
  ASSUME Trusted, EvidenceInv, NEW e, NEW altered, Recorded(Main, e, altered),
         drift' \subseteq {"own", "external"}, JobInv', UNCHANGED required,
         jobs' \subseteq [command : Commands, began : Nat], observed' \subseteq jobs'
  PROVE  EvidenceInv'
<1> DEFINE after == Advance(verification, e)
<1>1. /\ verification \in VState /\ e \in Effect /\ ledger \in Nat /\ clock \in Nat
      /\ lastChange \in 0 .. clock /\ malformed \in 0 .. 1 /\ e.revision = ledger + 1
      /\ altered \in BOOLEAN /\ edited \in BOOLEAN
  BY VerificationAssumption DEF EvidenceInv, TypeOK, Recorded, Trusted, NextRevision
<1>2. /\ phase = "serial" /\ ledger' = ledger + 1 /\ clock' = clock + 1
      /\ lastChange' = IF altered THEN clock' ELSE lastChange
      /\ verification' = after /\ edited' = (edited \/ IsEdit(e))
      /\ UNCHANGED <<effects, agents, checkpoint, bounds>>
  BY DEF Recorded, Executed, Acting, NextRevision
<1>3. /\ after \in VState
      /\ after.workspaceRevision =
           IF verification.workspaceRevision >= e.revision
           THEN verification.workspaceRevision ELSE e.revision
      /\ after.validationRevision =
           IF Changing(e) THEN e.revision ELSE verification.validationRevision
      /\ Changing(e) => after.evidence = verification.evidence
      /\ ~Changing(e) =>
           /\ e.command \in Checks
           /\ after.evidence = [verification.evidence EXCEPT ![e.command] = RunOf(verification, e)]
  BY <1>1, AdvanceFacts
<1> HIDE DEF after
<1>4. TypeOK'
  <2>1. edited' \in BOOLEAN
    BY <1>1, <1>2
  <2> QED  BY <1>1, <1>2, <1>3, <2>1 DEF EvidenceInv, TypeOK, agents, bounds
<1>5. PhaseInv'
  BY <1>2 DEF EvidenceInv, PhaseInv, agents, Waiting
<1>6. Pending' = {}
  BY <1>2, <1>4, <1>5, NothingPending DEF EvidenceInv, agents, Pending, Effects
<1>7. OrderInv'
  <2>1. \A w \in Workers : effects[w] = <<>>
    BY <1>2, NothingPending DEF EvidenceInv
  <2>2. \A w \in Workers : effects'[w] = <<>> /\ Effects(w)' = {}
    BY <1>2, <2>1 DEF Effects
  <2> QED  BY <1>6, <2>2 DEF OrderInv
<1>8. /\ verification.validationRevision \in Nat /\ verification.workspaceRevision \in Nat
      /\ verification.evidence \in [Checks -> Run]
      /\ verification.validationRevision <= verification.workspaceRevision
      /\ verification.workspaceRevision <= ledger + malformed
      /\ \A c \in Checks : verification.evidence[c].ran =>
           /\ verification.evidence[c].validated \in Nat
           /\ verification.evidence[c].validated <= ledger
           /\ verification.evidence[c].validated <= verification.validationRevision
  BY <1>1 DEF VState, Run, EvidenceInv, Sound
<1>9. CASE Changing(e)
  <2>1. Sound(verification, ledger)'
    BY <1>1, <1>2, <1>3, <1>8, <1>9 DEF Sound, bounds
  <2>2. CoverInv'
    BY <1>1, <1>2, <1>3, <1>6, <1>8, <1>9 DEF CoverInv, Current
  <2> QED  BY <1>2, <1>4, <1>5, <1>7, <2>1, <2>2 DEF EvidenceInv, Sound, bounds
<1>10. CASE ~Changing(e)
  <2>1. e.began = clock + 1 /\ lastChange' = lastChange
    BY <1>2, <1>10 DEF Recorded
  <2>2. /\ after.evidence[e.command].began = clock + 1
        /\ after.evidence[e.command].validated = verification.validationRevision
        /\ \A c \in Checks \ {e.command} : after.evidence[c] = verification.evidence[c]
    BY <1>3, <1>8, <1>10, <2>1 DEF RunOf
  <2>3. Sound(verification, ledger)'
    BY <1>1, <1>2, <1>3, <1>8, <1>10, <2>2 DEF Sound, bounds
  <2>4. CoverInv'
    <3>1. Pending = {}
      BY <1>2, NothingPending DEF EvidenceInv
    <3>2. ASSUME NEW c \in Checks, Current(verification, c)' PROVE Covered(c)'
      BY <1>1, <1>2, <1>3, <1>10, <2>1, <2>2, <3>1, <3>2 DEF Current, Covered, EvidenceInv, CoverInv
    <3> QED  BY <1>6, <3>2 DEF CoverInv
  <2> QED  BY <1>2, <1>4, <1>5, <1>7, <2>3, <2>4 DEF EvidenceInv, Sound, bounds
<1> QED
  BY <1>9, <1>10

\* A worker's call waits for the worker's result, behind all that wait.
LEMMA WorkerExecuted ==
  ASSUME Trusted, EvidenceInv, NEW a \in Workers, NEW e, NEW altered, Recorded(a, e, altered),
         drift' \subseteq {"own", "external"}, JobInv', UNCHANGED required,
         jobs' \subseteq [command : Commands, began : Nat], observed' \subseteq jobs'
  PROVE  EvidenceInv'
<1> DEFINE n == Len(effects[a])
<1>1. /\ verification \in VState /\ e \in Effect /\ ledger \in Nat /\ clock \in Nat
      /\ lastChange \in 0 .. clock /\ malformed \in 0 .. 1 /\ e.revision = ledger + 1
      /\ altered \in BOOLEAN /\ a # Main /\ effects \in [Workers -> Seq(Effect)]
      /\ returned \in Seq(Workers)
  BY SMTT(30), VerificationAssumption DEF EvidenceInv, TypeOK, Recorded, Trusted, NextRevision
<1>2. /\ phase = "parallel" /\ worker[a] = "running" /\ ledger' = ledger + 1 /\ clock' = clock + 1
      /\ lastChange' = IF altered THEN clock' ELSE lastChange
      /\ effects' = [effects EXCEPT ![a] = Append(@, e)]
      /\ UNCHANGED <<verification, edited, agents, checkpoint, bounds>>
  BY <1>1 DEF Recorded, Executed, Acting, NextRevision
<1>3. /\ effects' \in [Workers -> Seq(Effect)]
      /\ \A w \in Workers \ {a} : effects'[w] = effects[w]
      /\ effects'[a] = Append(effects[a], e)
  BY <1>1, <1>2
<1>4. /\ n \in Nat /\ Len(effects'[a]) = n + 1 /\ effects'[a][n + 1] = e
      /\ \A i \in 1 .. n : effects'[a][i] = effects[a][i]
  BY <1>1, <1>3
<1>5. TypeOK'
  BY <1>1, <1>2, <1>3 DEF EvidenceInv, TypeOK, agents, bounds
<1>6. PhaseInv'
  BY <1>2, <1>3 DEF EvidenceInv, PhaseInv, agents, Waiting
<1>7. /\ \A w \in Workers \ {a} : Effects(w)' = Effects(w)
      /\ Effects(a)' = Effects(a) \cup {e}
  <2>1. \A w \in Workers \ {a} : Effects(w)' = Effects(w)
    BY <1>3 DEF Effects
  <2>2. 1 .. n + 1 = 1 .. n \cup {n + 1}
    BY <1>4
  <2>3. Effects(a)' = {effects'[a][i] : i \in 1 .. n} \cup {effects'[a][n + 1]}
    BY <1>4, <2>2 DEF Effects
  <2>4. {effects'[a][i] : i \in 1 .. n} = Effects(a)
    BY <1>4 DEF Effects
  <2> QED  BY <1>4, <2>1, <2>3, <2>4
<1>8. Pending' = Pending \cup {e}
  BY <1>7 DEF Pending
<1>9. \A d \in Pending : d \in Effect /\ d.revision \in Nat /\ d.revision <= ledger
  <2>1. \A d \in Pending : d \in Effect
    BY <1>1 DEF Pending, Effects
  <2> QED  BY <2>1 DEF EvidenceInv, OrderInv, Effect
<1>10. /\ verification.validationRevision \in Nat /\ verification.workspaceRevision \in Nat
       /\ verification.evidence \in [Checks -> Run]
       /\ verification.validationRevision <= ledger + 1
       /\ \A c \in Checks : verification.evidence[c].ran =>
            verification.evidence[c].validated \in Nat /\ verification.evidence[c].validated <= ledger
  BY <1>1 DEF VState, Run, EvidenceInv, Sound
<1>11. OrderInv'
  <2>1. ASSUME NEW w \in Workers, NEW i \in 1 .. Len(effects'[w]), NEW j \in 1 .. Len(effects'[w]), i < j
        PROVE  effects'[w][i].revision < effects'[w][j].revision
    <3>1. CASE w # a
      BY <1>3, <2>1, <3>1 DEF EvidenceInv, OrderInv
    <3>2. CASE w = a /\ j # n + 1
      <4>1. i \in 1 .. n /\ j \in 1 .. n
        BY <1>4, <2>1, <3>2
      <4>2. effects[a][i].revision < effects[a][j].revision
        BY <2>1, <4>1 DEF EvidenceInv, OrderInv
      <4> QED  BY <1>4, <3>2, <4>1, <4>2
    <3>3. CASE w = a /\ j = n + 1
      <4>1. i \in 1 .. n /\ effects'[a][i] = effects[a][i]
        BY <1>4, <2>1, <3>3
      <4>2. effects[a][i] \in Pending
        BY <4>1 DEF Pending, Effects
      <4> QED  BY <1>1, <1>4, <1>9, <3>3, <4>1, <4>2
    <3> QED  BY <1>4, <3>1, <3>2, <3>3
  <2>2. ASSUME NEW w \in Workers, NEW x \in Workers, Ahead(w, x)',
               NEW d \in Effects(w)', NEW f \in Effects(x)'
        PROVE  d.revision < f.revision
    <3>1. Ahead(w, x)
      BY <1>2, <2>2 DEF Ahead, agents
    <3>2. w # a
      BY <1>2, <3>1 DEF Ahead, EvidenceInv, PhaseInv
    <3>3. d \in Effects(w) /\ d \in Pending
      BY <1>7, <2>2, <3>2 DEF Pending
    <3>4. CASE f \in Effects(x)
      BY <3>1, <3>3, <3>4 DEF EvidenceInv, OrderInv
    <3>5. CASE f = e
      BY <1>1, <1>9, <3>3, <3>5
    <3> QED  BY <1>7, <2>2, <3>4, <3>5
  <2>3. \A d \in Pending' : verification'.validationRevision <= d.revision /\ d.revision <= ledger'
    BY <1>1, <1>2, <1>8, <1>9, <1>10 DEF EvidenceInv, OrderInv
  <2>4. \A d \in Pending', c \in Checks :
          verification'.evidence[c].ran => verification'.evidence[c].validated < d.revision
    BY <1>1, <1>2, <1>8, <1>9, <1>10 DEF EvidenceInv, OrderInv
  <2> QED  BY <2>1, <2>2, <2>3, <2>4 DEF OrderInv
<1>12. CoverInv'
  <2>1. CASE Changing(e)
    <3>1. \A d \in Pending : Changing(e) /\ d.revision < e.revision
      BY <1>1, <1>9, <2>1
    <3> QED  BY <1>8, <2>1, <3>1 DEF CoverInv
  <2>2. CASE ~Changing(e)
    <3>1. e.began = clock + 1 /\ lastChange' = lastChange
      BY <1>2, <2>2 DEF Recorded
    <3>2. \A c \in Checks : Current(verification, c)' => Covered(c)' \/ \E d \in Pending' : Changing(d)
      BY <1>2, <1>8, <3>1 DEF EvidenceInv, CoverInv, Current, Covered
    <3>3. ASSUME NEW d \in Pending'
          PROVE  Changing(d) \/ d.began >= lastChange'
                   \/ \E f \in Pending' : Changing(f) /\ d.revision < f.revision
      <4>1. CASE d = e
        BY <1>1, <3>1, <4>1
      <4>2. CASE d \in Pending
        BY <1>8, <3>1, <4>2 DEF EvidenceInv, CoverInv
      <4> QED  BY <1>8, <3>3, <4>1, <4>2
    <3> QED  BY <3>2, <3>3 DEF CoverInv
  <2> QED  BY <2>1, <2>2
<1>13. Sound(verification, ledger)' /\ Sound(checkpoint.verification, checkpoint.revision)'
  BY <1>1, <1>2, <1>10 DEF EvidenceInv, Sound, bounds
<1> QED
  BY <1>5, <1>6, <1>11, <1>12, <1>13 DEF EvidenceInv

(* The result that returned first is observed, effect by effect. What is not *)
(* observed yet has a higher revision, and all evidence that is current is   *)
(* covered, or a change among the rest will make it stale.                   *)
LEMMA RecordKeeps ==
  ASSUME EvidenceInv, Record, UNCHANGED required
  PROVE  EvidenceInv'
<1>1. /\ verification \in VState /\ ledger \in Nat /\ malformed \in Nat /\ lastChange \in Nat
      /\ effects \in [Workers -> Seq(Effect)] /\ returned \in Seq(Workers) /\ returned # <<>>
      /\ edited \in BOOLEAN
  BY VerificationAssumption DEF EvidenceInv, TypeOK, Record
<1>w. PICK w \in Workers : w = Head(returned)
  BY <1>1
<1> DEFINE events == effects[w]
           n == Len(events)
           Rest(k) == Pending' \cup {events[i] : i \in k + 1 .. n}
<1>2. /\ Len(returned) \in Nat \ {0} /\ returned[1] = w
      /\ events \in Seq(Effect) /\ n \in Nat
  BY <1>1, <1>w
<1>3. /\ verification' = Observe(verification, events)
      /\ edited' = (edited \/ \E i \in DOMAIN events : IsEdit(events[i]))
      /\ effects' = [effects EXCEPT ![w] = <<>>] /\ returned' = Tail(returned)
      /\ UNCHANGED <<ledger, phase, attempt, worker, world, checkpoint, history, bounds>>
  BY <1>w DEF Record
<1>4. /\ effects'[w] = <<>> /\ \A x \in Workers \ {w} : effects'[x] = effects[x]
      /\ effects' \in [Workers -> Seq(Effect)]
      /\ returned' \in Seq(Workers) /\ Len(returned') = Len(returned) - 1
      /\ \A i \in 1 .. Len(returned') : returned'[i] = returned[i + 1] /\ i + 1 \in 1 .. Len(returned)
  BY <1>1, <1>2, <1>3
<1>5. Effects(w)' = {} /\ \A x \in Workers \ {w} : Effects(x)' = Effects(x)
  BY <1>4 DEF Effects
<1>6. Pending = Pending' \cup Effects(w)
  BY <1>2, <1>5 DEF Pending
<1>7. /\ \A d \in Pending : d \in Effect /\ d.revision \in Nat /\ d.revision <= ledger
      /\ \A i \in 1 .. n : events[i] \in Pending
  <2>1. \A d \in Pending : d \in Effect
    BY <1>1 DEF Pending, Effects
  <2>2. \A i \in 1 .. n : events[i] \in Pending
    BY <1>2 DEF Pending, Effects
  <2> QED  BY <2>1, <2>2 DEF EvidenceInv, OrderInv, Effect
<1>8. ASSUME NEW d \in Pending', NEW i \in 1 .. n PROVE events[i].revision < d.revision
  <2>1. PICK x \in Workers \ {w} : d \in Effects(x)
    BY <1>5, <1>8 DEF Pending
  <2>2. worker[x] = "running" \/ Waiting(x)
    BY <2>1 DEF EvidenceInv, PhaseInv, Effects
  <2>3. Ahead(w, x)
    BY <1>2, <2>1, <2>2 DEF Ahead, Waiting
  <2>4. events[i] \in Effects(w)
    BY DEF Effects
  <2> QED  BY <1>2, <2>1, <2>3, <2>4 DEF EvidenceInv, OrderInv
<1>9. \A i, j \in 1 .. n : i < j => events[i].revision < events[j].revision
  BY <1>2 DEF EvidenceInv, OrderInv
<1>10. PICK after \in [0 .. n -> VState] :
         /\ after[0] = verification /\ verification' = after[n]
         /\ \A k \in 1 .. n : after[k] = Advance(after[k - 1], events[k])
  <2>1. \E after \in [0 .. n -> VState] :
          /\ after[0] = verification /\ Observe(verification, events) = after[n]
          /\ \A k \in 1 .. n : after[k] = Advance(after[k - 1], events[k])
    BY ZenonT(30), <1>1, <1>2, ObserveFacts
  <2> HIDE DEF events, n
  <2> QED  BY <1>3, <2>1
<1> HIDE DEF events, n
<1> DEFINE Good(v, k) ==
             /\ v.validationRevision <= v.workspaceRevision
             /\ v.workspaceRevision <= ledger + malformed
             /\ \A c \in Checks : v.evidence[c].ran =>
                  v.evidence[c].validated <= ledger /\ v.evidence[c].validated <= v.validationRevision
             /\ \A d \in Rest(k) : v.validationRevision <= d.revision
             /\ \A d \in Rest(k), c \in Checks : v.evidence[c].ran => v.evidence[c].validated < d.revision
             /\ \A c \in Checks : Current(v, c) =>
                  v.evidence[c].began >= lastChange \/ \E d \in Rest(k) : Changing(d)
           Goods == {k \in Nat : k <= n => Good(after[k], k)}
<1>11. 0 \in Goods
  <2>1. Rest(0) \subseteq Pending /\ Pending \subseteq Rest(0)
    BY <1>2, <1>6, <1>7 DEF Effects, events, n
  <2>2. Rest(0) = Pending
    BY <2>1
  <2>3. \A c \in Checks : Covered(c) <=> verification.evidence[c].began >= lastChange
    BY DEF Covered
  <2> HIDE DEF Rest
  <2>4. Good(verification, 0)
    BY <2>2, <2>3 DEF EvidenceInv, Sound, OrderInv, CoverInv
  <2> QED  BY <1>10, <2>4
<1>12. ASSUME NEW k \in Nat, k \in Goods PROVE k + 1 \in Goods
  <2> SUFFICES ASSUME k + 1 <= n PROVE Good(after[k + 1], k + 1)
    OBVIOUS
  <2> DEFINE v == after[k]
             e == events[k + 1]
             u == after[k + 1]
  <2>1. /\ k + 1 \in 1 .. n /\ v \in VState /\ e \in Effect /\ e \in Pending
        /\ u = Advance(v, e) /\ e \in Rest(k)
    BY <1>2, <1>7, <1>10
  <2>2. Good(v, k)
    BY <1>2, <1>12
  <2>3. /\ Rest(k) = Rest(k + 1) \cup {e}
        /\ \A d \in Rest(k + 1) : d \in Pending /\ e.revision < d.revision
    <3>1. k + 1 .. n = {k + 1} \cup (k + 1) + 1 .. n
      BY <1>2, <2>1
    <3>2. {events[i] : i \in k + 1 .. n} = {events[i] : i \in (k + 1) + 1 .. n} \cup {e}
      BY <3>1
    <3>3. \A i \in (k + 1) + 1 .. n : i \in 1 .. n /\ k + 1 < i
      BY <1>2
    <3> QED  BY <1>6, <1>7, <1>8, <1>9, <2>1, <3>2, <3>3
  <2>4. /\ u \in VState
        /\ u.workspaceRevision =
             IF v.workspaceRevision >= e.revision THEN v.workspaceRevision ELSE e.revision
        /\ u.validationRevision = IF Changing(e) THEN e.revision ELSE v.validationRevision
        /\ Changing(e) => u.evidence = v.evidence
        /\ ~Changing(e) =>
             e.command \in Checks /\ u.evidence = [v.evidence EXCEPT ![e.command] = RunOf(v, e)]
    <3> HIDE DEF v, e, u
    <3> QED  BY <2>1, AdvanceFacts
  <2>5. /\ v.validationRevision \in Nat /\ v.workspaceRevision \in Nat /\ v.evidence \in [Checks -> Run]
        /\ \A c \in Checks : v.evidence[c].validated \in Nat
        /\ \A d \in Rest(k) : d.revision \in Nat /\ d.revision <= ledger
    BY <1>7, <2>1, <2>3 DEF VState, Run
  <2> HIDE DEF Rest, v, e, u
  <2>6. CASE Changing(e)
    <3>1. \A c \in Checks : ~Current(u, c)
      BY <2>1, <2>2, <2>4, <2>5, <2>6 DEF Current
    <3>2. e.revision \in Nat /\ e.revision <= ledger /\ v.validationRevision <= e.revision
          /\ u.validationRevision = e.revision /\ u.evidence = v.evidence
      BY <2>1, <2>2, <2>4, <2>5, <2>6
    <3>3. u.validationRevision <= u.workspaceRevision /\ u.workspaceRevision <= ledger + malformed
      BY <1>1, <2>2, <2>4, <2>5, <3>2
    <3>4. \A c \in Checks : u.evidence[c].ran =>
            u.evidence[c].validated <= ledger /\ u.evidence[c].validated <= u.validationRevision
      BY <2>2, <2>5, <3>2
    <3>5. \A d \in Rest(k + 1) : e.revision < d.revision /\ d \in Rest(k) /\ d.revision \in Nat
      BY <2>3, <2>5
    <3>6. /\ \A d \in Rest(k + 1) : u.validationRevision <= d.revision
          /\ \A d \in Rest(k + 1), c \in Checks : u.evidence[c].ran => u.evidence[c].validated < d.revision
      BY <2>2, <2>5, <3>2, <3>5
    <3> QED  BY <3>1, <3>3, <3>4, <3>6 DEF u
  <2>7. CASE ~Changing(e)
    <3>1. /\ u.evidence[e.command].began = e.began
          /\ u.evidence[e.command].validated = v.validationRevision
          /\ \A c \in Checks \ {e.command} : u.evidence[c] = v.evidence[c]
          /\ u.validationRevision = v.validationRevision
      BY <2>4, <2>5, <2>7 DEF RunOf
    <3>2. e.began >= lastChange \/ \E d \in Rest(k + 1) : Changing(d)
      <4>1. CASE \E d \in Pending : Changing(d) /\ e.revision < d.revision
        <5>1. PICK d \in Pending : Changing(d) /\ e.revision < d.revision
          BY <4>1
        <5>2. CASE d \in Pending'
          BY <5>1, <5>2 DEF Rest
        <5>3. CASE d \in Effects(w)
          <6>1. PICK i \in 1 .. n : events[i] = d
            BY <5>3 DEF Effects, events, n
          <6>2. ~(i <= k + 1)
            BY <1>2, <1>7, <1>9, <2>1, <5>1, <6>1 DEF e
          <6>3. i \in (k + 1) + 1 .. n
            BY <1>2, <6>2
          <6> QED  BY <5>1, <6>1, <6>3 DEF Rest
        <5> QED  BY <1>6, <5>2, <5>3
      <4> QED  BY <2>1, <2>7, <4>1 DEF EvidenceInv, CoverInv
    <3>3. ASSUME NEW c \in Checks, Current(u, c)
          PROVE  u.evidence[c].began >= lastChange \/ \E d \in Rest(k + 1) : Changing(d)
      <4>1. CASE c = e.command
        BY <3>1, <3>2, <4>1
      <4>2. CASE c # e.command
        BY <2>2, <2>3, <2>7, <3>1, <3>3, <4>2 DEF Current
      <4> QED  BY <4>1, <4>2
    <3>4. ASSUME NEW c \in Checks, u.evidence[c].ran
          PROVE  /\ u.evidence[c].validated <= ledger /\ u.evidence[c].validated <= u.validationRevision
                 /\ \A d \in Rest(k + 1) : u.evidence[c].validated < d.revision
      <4>1. CASE c = e.command
        <5>0. /\ v.validationRevision <= e.revision
              /\ e.revision \in Nat /\ e.revision <= ledger
              /\ v.validationRevision \in Nat
          <6>1. e \in Rest(k)
            BY <2>1
          <6>2. v.validationRevision <= e.revision
            BY <2>2, <6>1
          <6> QED  BY <2>5, <6>1, <6>2
        <5>1. v.validationRevision <= ledger
          BY <1>1, <5>0
        <5>2. ASSUME NEW d \in Rest(k + 1) PROVE v.validationRevision < d.revision
          <6>1. e.revision < d.revision /\ d.revision \in Nat
            BY <2>3, <2>5
          <6> QED  BY <5>0, <6>1
        <5> QED  BY <2>5, <3>1, <4>1, <5>1, <5>2
      <4>2. CASE c # e.command
        BY <2>2, <2>3, <3>1, <3>4, <4>2
      <4> QED  BY <4>1, <4>2
    <3>5. /\ u.validationRevision <= u.workspaceRevision /\ u.workspaceRevision <= ledger + malformed
          /\ \A d \in Rest(k + 1) : u.validationRevision <= d.revision
      BY SMTT(30), <1>1, <2>1, <2>2, <2>3, <2>4, <2>5, <3>1
    <3> QED  BY <3>3, <3>4, <3>5 DEF u
  <2> QED  BY <2>6, <2>7
<1>13. Good(verification', n)
  <2>1. n \in Nat /\ verification' = after[n]
    BY <1>2, <1>10
  <2> HIDE DEF Good, Goods
  <2>2. Nat \subseteq Goods
    BY <1>11, <1>12, SetInduction
  <2>3. n \in Goods
    BY <2>1, <2>2
  <2> QED  BY <2>1, <2>3 DEF Goods
<1>14. Rest(n) = Pending'
  BY <1>2
<1> HIDE DEF Rest
<1>15. UNCHANGED <<ledger, malformed, lastChange, checkpoint, worker>>
  BY <1>3 DEF history, bounds
<1>16. Sound(verification, ledger)' /\ Sound(checkpoint.verification, checkpoint.revision)'
  BY <1>13, <1>15 DEF Sound, EvidenceInv
<1>17. \A d \in Pending' :
         Changing(d) \/ d.began >= lastChange \/ \E f \in Pending' : Changing(f) /\ d.revision < f.revision
  <2> SUFFICES ASSUME NEW d \in Pending', NEW f \in Pending, Changing(f), d.revision < f.revision
               PROVE  f \in Pending'
    BY <1>6 DEF EvidenceInv, CoverInv
  <2>1. ASSUME f \in Effects(w) PROVE FALSE
    <3>1. PICK i \in 1 .. n : f = events[i]
      BY <2>1 DEF Effects, events, n
    <3> QED  BY <1>6, <1>7, <1>8, <3>1
  <2> QED  BY <1>6, <2>1
<1>18. CoverInv'
  BY <1>13, <1>14, <1>15, <1>17 DEF CoverInv, Covered
<1>19. OrderInv'
  <2>1. ASSUME NEW x \in Workers, NEW y \in Workers, Ahead(x, y)' PROVE Ahead(x, y)
    <3>1. PICK i \in 1 .. Len(returned') :
            /\ returned'[i] = x
            /\ worker'[y] = "running" \/ \E j \in i + 1 .. Len(returned') : returned'[j] = y
      BY <2>1 DEF Ahead
    <3>2. returned[i + 1] = x /\ i + 1 \in 1 .. Len(returned)
      BY <1>4, <3>1
    <3>3. ASSUME NEW j \in i + 1 .. Len(returned'), returned'[j] = y
          PROVE  returned[j + 1] = y /\ j + 1 \in (i + 1) + 1 .. Len(returned)
      <4>1. i \in Nat /\ j \in 1 .. Len(returned') /\ i + 1 <= j
        BY <1>2, <1>4, <3>1
      <4>2. returned'[j] = returned[j + 1] /\ j + 1 \in 1 .. Len(returned)
        BY <1>4, <4>1
      <4> QED  BY <1>2, <3>3, <4>1, <4>2
    <3> QED  BY <1>15, <3>1, <3>2, <3>3 DEF Ahead
  <2>2. \A x \in Workers : Effects(x)' \subseteq Effects(x)
    BY <1>5
  <2>3. \A x, y \in Workers : Ahead(x, y)' =>
          \A e \in Effects(x)', d \in Effects(y)' : e.revision < d.revision
    BY <2>1, <2>2 DEF EvidenceInv, OrderInv
  <2>4. ASSUME NEW x \in Workers
        PROVE  \A i, j \in 1 .. Len(effects'[x]) :
                 i < j => effects'[x][i].revision < effects'[x][j].revision
    <3>1. CASE x = w
      BY <1>4, <3>1
    <3>2. CASE x # w
      BY <1>4, <3>2 DEF EvidenceInv, OrderInv
    <3> QED  BY <3>1, <3>2
  <2> QED  BY <1>6, <1>7, <1>13, <1>14, <1>15, <2>3, <2>4 DEF OrderInv
<1>20. TypeOK'
  <2>1. edited' \in BOOLEAN
    BY <1>1, <1>3
  <2>2. verification' \in VState
    BY <1>2, <1>10
  <2> QED  BY <1>3, <1>4, <2>1, <2>2 DEF EvidenceInv, TypeOK, world, history, bounds
<1>21. PhaseInv'
  <2>1. phase' # "parallel" => returned' = <<>> /\ \A x \in Workers : worker'[x] \in {"none", "over"}
    BY <1>1, <1>3 DEF EvidenceInv, PhaseInv
  <2>2. ASSUME NEW x \in Workers, effects'[x] # <<>> PROVE worker'[x] = "running" \/ Waiting(x)'
    <3>1. x # w /\ effects[x] # <<>>
      BY <1>4, <2>2
    <3>2. ASSUME NEW i \in 1 .. Len(returned), returned[i] = x PROVE Waiting(x)'
      <4>0. Len(returned) \in Nat /\ Len(returned') = Len(returned) - 1 /\ returned[1] # returned[i]
        BY <1>2, <1>4, <3>1, <3>2
      <4>1. i # 1 /\ i - 1 \in 1 .. Len(returned')
        BY <4>0
      <4>2. returned'[i - 1] = x
        BY SMTT(30), <1>2, <1>4, <3>2, <4>1
      <4> QED  BY <4>1, <4>2 DEF Waiting
    <3> QED  BY <1>15, <3>1, <3>2 DEF EvidenceInv, PhaseInv, Waiting
  <2>0. /\ \A i \in 1 .. Len(returned) : worker[returned[i]] = "over"
        /\ \A i, j \in 1 .. Len(returned) : returned[i] = returned[j] => i = j
    BY DEF EvidenceInv, PhaseInv
  <2>3. ASSUME NEW i \in 1 .. Len(returned') PROVE worker'[returned'[i]] = "over"
    <3>1. returned'[i] = returned[i + 1] /\ i + 1 \in 1 .. Len(returned)
      BY <1>4
    <3> QED  BY <1>15, <2>0, <3>1
  <2>4. ASSUME NEW i \in 1 .. Len(returned'), NEW j \in 1 .. Len(returned'), returned'[i] = returned'[j]
        PROVE  i = j
    <3>1. /\ returned'[i] = returned[i + 1] /\ i + 1 \in 1 .. Len(returned)
          /\ returned'[j] = returned[j + 1] /\ j + 1 \in 1 .. Len(returned)
      BY <1>4
    <3>2. i + 1 = j + 1
      BY <2>0, <2>4, <3>1
    <3> QED  BY <3>2
  <2>5. \A x, y \in Writers : worker'[x] = "running" /\ worker'[y] = "running" => x = y
    BY <1>15 DEF EvidenceInv, PhaseInv
  <2> QED  BY <2>1, <2>2, <2>3, <2>4, <2>5 DEF PhaseInv
<1> QED
  BY <1>3, <1>16, <1>18, <1>19, <1>20, <1>21 DEF EvidenceInv, JobInv, world

\* A refused call: nothing waits, and the revision it is given makes all
\* evidence stale.
LEMMA MalformedKeeps ==
  ASSUME Trusted, EvidenceInv, Malformed, UNCHANGED required
  PROVE  EvidenceInv'
<1> DEFINE e == Command(verification.workspaceRevision + 1, Other, FALSE, clock)
           after == Advance(verification, e)
<1>1. /\ verification \in VState /\ ledger \in Nat /\ clock \in Nat /\ malformed = 0
      /\ malformed' = 1 /\ MaxMalformed = 1 /\ phase # "parallel"
  BY VerificationAssumption DEF EvidenceInv, TypeOK, Trusted, Malformed
<1>2. /\ verification.workspaceRevision \in Nat /\ verification.validationRevision \in Nat
      /\ verification.evidence \in [Checks -> Run]
      /\ verification.workspaceRevision <= ledger
      /\ verification.validationRevision <= verification.workspaceRevision
      /\ \A c \in Checks : verification.evidence[c].ran =>
           /\ verification.evidence[c].validated \in Nat
           /\ verification.evidence[c].validated <= ledger
           /\ verification.evidence[c].validated <= verification.validationRevision
  BY <1>1 DEF VState, Run, EvidenceInv, Sound
<1>3. e \in Effect /\ e.revision = verification.workspaceRevision + 1 /\ Changing(e)
  BY <1>1, <1>2 DEF Command, Effect, Commands, Changing
<1> HIDE DEF e
<1>4. /\ after \in VState /\ after.evidence = verification.evidence
      /\ after.workspaceRevision = verification.workspaceRevision + 1
      /\ after.validationRevision = verification.workspaceRevision + 1
  <2>1. /\ after \in VState
        /\ after.workspaceRevision =
             IF verification.workspaceRevision >= e.revision
             THEN verification.workspaceRevision ELSE e.revision
        /\ after.validationRevision = e.revision /\ after.evidence = verification.evidence
    BY <1>1, <1>3, AdvanceFacts
  <2> HIDE DEF after
  <2> QED  BY <1>2, <1>3, <2>1
<1>5. /\ verification' = after
      /\ UNCHANGED <<ledger, edited, effects, agents, world, checkpoint, history, external, resumes>>
  BY DEF Malformed, e
<1> HIDE DEF after
<1>6. TypeOK'
  BY <1>1, <1>4, <1>5 DEF EvidenceInv, TypeOK, agents, world, history
<1>7. PhaseInv' /\ JobInv'
  BY <1>5 DEF EvidenceInv, PhaseInv, JobInv, agents, world, Waiting
<1>8. Pending' = {} /\ \A w \in Workers : effects'[w] = <<>>
  BY <1>1, <1>5, <1>6, <1>7, NothingPending DEF agents, EvidenceInv, Pending, Effects
<1>9. \A w \in Workers : Effects(w)' = {}
  BY <1>8 DEF Effects
<1>10. OrderInv'
  BY <1>8, <1>9 DEF OrderInv
<1>11. CoverInv'
  BY <1>2, <1>4, <1>5, <1>8 DEF CoverInv, Current
<1>12. Sound(verification, ledger)' /\ Sound(checkpoint.verification, checkpoint.revision)'
  <2>1. /\ checkpoint \in Saved /\ checkpoint' = checkpoint
    BY <1>5 DEF EvidenceInv, TypeOK
  <2>2. /\ checkpoint.verification.workspaceRevision \in Nat /\ checkpoint.revision \in Nat
    BY <2>1 DEF Saved, VState
  <2>3. Sound(checkpoint.verification, checkpoint.revision)'
    BY <1>1, <2>1, <2>2 DEF EvidenceInv, Sound
  <2> QED  BY <1>1, <1>2, <1>4, <1>5, <2>3 DEF Sound
<1> QED
  BY <1>6, <1>7, <1>10, <1>11, <1>12 DEF EvidenceInv

LEMMA ResumedFacts ==
  ASSUME NEW v \in VState, NEW r \in Nat, v.validationRevision <= r
  PROVE  /\ Resumed(v, r) \in VState /\ Resumed(v, r).evidence = v.evidence
         /\ Resumed(v, r).workspaceRevision = r /\ Resumed(v, r).validationRevision <= r
         /\ HasEvidence(v.evidence) => Resumed(v, r).validationRevision = r
<1>1. v.validationRevision \in Nat
  BY DEF VState
<1>2. Max({v.validationRevision, r}) = r
  <2>1. Max({v.validationRevision, r}) = IF v.validationRevision >= r THEN v.validationRevision ELSE r
    BY <1>1, MaxOfTwo
  <2> QED  BY <1>1, <2>1
<1>3. CASE HasEvidence(v.evidence)
  <2> DEFINE u == [v EXCEPT !.workspaceRevision = r, !.status = "pending", !.validationRevision = r]
  <2>1. Resumed(v, r) = [v EXCEPT !.workspaceRevision = r, !.status = "pending",
                                  !.validationRevision = Max({v.validationRevision, r})]
    BY <1>3 DEF Resumed
  <2>2. Resumed(v, r) = u
    BY <1>2, <2>1
  <2>3. u \in VState
    BY DEF VState, Verdicts
  <2>4. u.evidence = v.evidence /\ u.workspaceRevision = r /\ u.validationRevision = r
    BY DEF VState
  <2> HIDE DEF u
  <2> QED  BY <2>2, <2>3, <2>4
<1>4. CASE ~HasEvidence(v.evidence)
  <2> DEFINE u == [v EXCEPT !.workspaceRevision = r, !.status = "not-run"]
  <2>1. Resumed(v, r) = u
    BY <1>4 DEF Resumed
  <2>2. u \in VState
    BY DEF VState, Verdicts
  <2>3. /\ u.evidence = v.evidence /\ u.workspaceRevision = r
        /\ u.validationRevision = v.validationRevision
    BY DEF VState
  <2> HIDE DEF u
  <2> QED  BY <1>4, <2>1, <2>2, <2>3
<1> QED
  BY <1>3, <1>4

\* A resumed task's revision is beyond all evidence it was saved with.
LEMMA ResumeKeeps ==
  ASSUME Trusted, EvidenceInv, Resume, UNCHANGED required
  PROVE  EvidenceInv'
<1>1. PICK saved \in {checkpoint, RunState} :
        /\ checkpoint' = saved /\ ledger' = NewLedger(saved)
        /\ verification' = Resumed(saved.verification, NewLedger(saved))
        /\ edited' = saved.edited
  BY DEF Resume
<1>2. /\ resumes' = resumes + 1 /\ resumes < MaxResumes
      /\ clock' = clock + 1 /\ lastChange' = clock + 1
      /\ phase' = "think" /\ attempt' = 0 /\ returned' = <<>>
      /\ worker' = [w \in Workers |-> "none"] /\ effects' = [w \in Workers |-> <<>>]
      /\ drift' = {} /\ observed' = {}
      /\ UNCHANGED <<jobs, malformed, external>>
  BY DEF Resume
<1>3. saved \in Saved /\ Sound(saved.verification, saved.revision)
  BY DEF EvidenceInv, TypeOK, RunState, Saved
<1> DEFINE v == saved.verification
           r == NewLedger(saved)
<1>4. /\ v \in VState /\ saved.revision \in Nat /\ r = saved.revision + 1 /\ saved.edited \in BOOLEAN
      /\ v.workspaceRevision \in Nat /\ v.validationRevision \in Nat
      /\ v.evidence \in [Checks -> Run] /\ malformed \in 0 .. 1
      /\ \A c \in Checks : v.evidence[c].validated \in Nat
      /\ v.validationRevision <= v.workspaceRevision
      /\ v.workspaceRevision <= saved.revision + malformed
      /\ \A c \in Checks : v.evidence[c].ran => v.evidence[c].validated <= saved.revision
  <2>1. /\ v \in VState /\ saved.revision \in Nat /\ r = saved.revision + 1 /\ saved.edited \in BOOLEAN
    BY <1>3 DEF Saved, NewLedger
  <2>2. malformed \in 0 .. 1
    BY VerificationAssumption DEF EvidenceInv, TypeOK, Trusted
  <2>3. Sound(v, saved.revision)
    BY <1>3
  <2> HIDE DEF v, r
  <2>4. /\ v.workspaceRevision \in Nat /\ v.validationRevision \in Nat
        /\ v.evidence \in [Checks -> Run] /\ \A c \in Checks : v.evidence[c].validated \in Nat
    BY <2>1 DEF VState, Run
  <2> QED  BY <2>1, <2>2, <2>3, <2>4 DEF Sound
<1> HIDE DEF v, r
<1>5. v.validationRevision <= r /\ r \in Nat
  BY <1>4
<1>6. /\ Resumed(v, r) \in VState /\ Resumed(v, r).evidence = v.evidence
      /\ Resumed(v, r).workspaceRevision = r /\ Resumed(v, r).validationRevision <= r
      /\ HasEvidence(v.evidence) => Resumed(v, r).validationRevision = r
  BY <1>4, <1>5, ResumedFacts
<1>7. verification' = Resumed(v, r) /\ ledger' = r /\ checkpoint' = saved /\ edited' = saved.edited
  BY <1>1 DEF v, r
<1>8. TypeOK'
  <2>1. resumes' \in 0 .. MaxResumes
    BY <1>2, VerificationAssumption DEF EvidenceInv, TypeOK
  <2>2. attempt' \in 0 .. MaxRepairs
    BY <1>2, VerificationAssumption
  <2>3. clock' \in Nat /\ lastChange' \in 0 .. clock'
    BY <1>2 DEF EvidenceInv, TypeOK
  <2>4. /\ worker' \in [Workers -> {"none", "queued", "running", "over"}]
        /\ effects' \in [Workers -> Seq(Effect)] /\ returned' \in Seq(Workers)
    BY <1>2
  <2>5. /\ required' \in Contracts /\ ledger' \in Nat /\ verification' \in VState
        /\ edited' \in BOOLEAN /\ checkpoint' \in Saved
    BY <1>3, <1>4, <1>6, <1>7 DEF EvidenceInv, TypeOK
  <2>6. /\ phase' \in {"think", "serial", "parallel"} \cup Outcomes
        /\ drift' \subseteq {"own", "external"} /\ observed' \subseteq jobs'
        /\ jobs' \subseteq [command : Commands, began : Nat]
        /\ malformed' \in 0 .. MaxMalformed /\ external' \in 0 .. MaxExternal
    BY <1>2 DEF EvidenceInv, TypeOK
  <2> QED  BY <2>1, <2>2, <2>3, <2>4, <2>5, <2>6 DEF TypeOK
<1>9. PhaseInv' /\ JobInv'
  <2>1. Len(returned') = 0 /\ 1 .. 0 = {}
    BY <1>2
  <2>2. \A w \in Workers : effects'[w] = <<>> /\ worker'[w] = "none"
    BY <1>2
  <2>3. Writers \subseteq Workers
    BY VerificationAssumption
  <2>4. PhaseInv'
    BY <1>2, <2>1, <2>2, <2>3 DEF PhaseInv
  <2> QED  BY <1>2, <2>4 DEF EvidenceInv, JobInv
<1>10. Pending' = {} /\ \A w \in Workers : effects'[w] = <<>> /\ Effects(w)' = {}
  BY <1>2 DEF Pending, Effects
<1>11. OrderInv'
  BY <1>10 DEF OrderInv
<1>12. CoverInv'
  <2>1. \A c \in Checks : ~Current(verification, c)'
    BY <1>4, <1>6, <1>7 DEF Current, HasEvidence
  <2> QED  BY <1>10, <2>1 DEF CoverInv
<1>13. Sound(verification, ledger)' /\ Sound(checkpoint.verification, checkpoint.revision)'
  <2>1. Sound(checkpoint.verification, checkpoint.revision)'
    BY <1>2, <1>3, <1>7 DEF Sound
  <2>2. \A c \in Checks : verification'.evidence[c].ran =>
          verification'.evidence[c].validated <= r /\ verification'.validationRevision = r
    BY <1>4, <1>6, <1>7 DEF HasEvidence
  <2>3. r <= r + malformed
    BY <1>4
  <2> QED  BY <1>2, <1>6, <1>7, <2>1, <2>2, <2>3 DEF Sound
<1> QED
  BY <1>8, <1>9, <1>11, <1>12, <1>13 DEF EvidenceInv

-----------------------------------------------------------------------------
\* The steps that observe nothing: a worker's turn, the phases, the answer.
LEMMA BeginKeeps ==
  ASSUME EvidenceInv, NEW w \in Workers, Begin(w), UNCHANGED required
  PROVE  EvidenceInv'
<1>1. /\ worker[w] = "queued" /\ worker' = [worker EXCEPT ![w] = "running"]
      /\ worker \in [Workers -> {"none", "queued", "running", "over"}]
      /\ w \in Writers => \A x \in Writers : worker[x] # "running"
      /\ UNCHANGED <<ledger, verification, edited, effects, phase, attempt, returned, world,
                     checkpoint, history, bounds>>
  BY DEF Begin, EvidenceInv, TypeOK
<1>2. worker'[w] = "running" /\ \A x \in Workers \ {w} : worker'[x] = worker[x]
  BY <1>1
<1>3. TypeOK' /\ JobInv'
  BY <1>1 DEF EvidenceInv, TypeOK, JobInv, world, history, bounds
<1>4. PhaseInv'
  <2>1. phase = "parallel" /\ effects[w] = <<>>
    <3>1. ~Waiting(w)
      BY <1>1 DEF EvidenceInv, PhaseInv, Waiting
    <3> QED  BY <1>1, <3>1 DEF EvidenceInv, PhaseInv
  <2>2. \A x \in Workers : effects'[x] # <<>> => worker'[x] = "running" \/ Waiting(x)'
    BY <1>1, <1>2, <2>1 DEF EvidenceInv, PhaseInv, Waiting
  <2>3. \A i \in 1 .. Len(returned') : worker'[returned'[i]] = "over"
    <3> SUFFICES ASSUME NEW i \in 1 .. Len(returned) PROVE worker'[returned[i]] = "over"
      BY <1>1
    <3>1. returned[i] \in Workers /\ worker[returned[i]] = "over"
      BY DEF EvidenceInv, PhaseInv, TypeOK
    <3> QED  BY <1>1, <1>2, <3>1
  <2>4. \A x, y \in Writers : worker'[x] = "running" /\ worker'[y] = "running" => x = y
    <3>1. Writers \subseteq Workers
      BY VerificationAssumption
    <3> QED  BY <1>1, <1>2, <3>1 DEF EvidenceInv, PhaseInv
  <2>5. \A i, j \in 1 .. Len(returned') : returned'[i] = returned'[j] => i = j
    BY <1>1 DEF EvidenceInv, PhaseInv
  <2> QED  BY <1>1, <2>1, <2>2, <2>3, <2>4, <2>5 DEF PhaseInv
<1>5. \A x, y \in Workers : Ahead(x, y)' /\ effects[x] # <<>> /\ effects[y] # <<>> => Ahead(x, y)
  <2> SUFFICES ASSUME NEW x \in Workers, NEW y \in Workers, effects[y] # <<>>, Ahead(x, y)'
               PROVE  Ahead(x, y)
    OBVIOUS
  <2>1. y # w
    BY <1>1 DEF EvidenceInv, PhaseInv, Waiting
  <2> QED  BY <1>1, <1>2, <2>1 DEF Ahead
<1> QED
  BY <1>1, <1>3, <1>4, <1>5, NothingObserved DEF history, bounds

LEMMA ReturnKeeps ==
  ASSUME Trusted, EvidenceInv, NEW w \in Workers, Return(w), UNCHANGED required
  PROVE  EvidenceInv'
<1>1. /\ worker[w] = "running" /\ worker' = [worker EXCEPT ![w] = "over"]
      /\ worker \in [Workers -> {"none", "queued", "running", "over"}]
      /\ returned \in Seq(Workers) /\ returned' = Append(returned, w)
      /\ UNCHANGED <<ledger, verification, edited, effects, phase, attempt, world,
                     checkpoint, history, bounds>>
  BY DEF Return, EvidenceInv, TypeOK
<1> DEFINE n == Len(returned)
<1>2. worker'[w] = "over" /\ \A x \in Workers \ {w} : worker'[x] = worker[x]
  BY <1>1
<1>3. /\ n \in Nat /\ Len(returned') = n + 1 /\ returned'[n + 1] = w
      /\ \A i \in 1 .. n : returned'[i] = returned[i] /\ returned[i] \in Workers
      /\ returned' \in Seq(Workers)
  BY <1>1
<1>4. \A i \in 1 .. n : returned[i] # w
  BY <1>1 DEF EvidenceInv, PhaseInv
<1>5. TypeOK' /\ JobInv'
  BY <1>1, <1>3 DEF EvidenceInv, TypeOK, JobInv, world, history, bounds
<1> HIDE DEF n
<1>6. PhaseInv'
  <2>1. phase = "parallel"
    BY <1>1 DEF EvidenceInv, PhaseInv
  <2>2. ASSUME NEW x \in Workers, effects'[x] # <<>> PROVE worker'[x] = "running" \/ Waiting(x)'
    <3>1. CASE x = w
      BY <1>3, <3>1 DEF Waiting
    <3>2. CASE x # w /\ Waiting(x)
      <4>1. PICK i \in 1 .. n : returned[i] = x
        BY <3>2 DEF Waiting, n
      <4>2. i \in 1 .. Len(returned') /\ returned'[i] = x
        BY <1>3, <4>1
      <4> QED  BY <4>2 DEF Waiting
    <3>3. CASE x # w /\ ~Waiting(x)
      BY <1>1, <1>2, <2>2, <3>3 DEF EvidenceInv, PhaseInv
    <3> QED  BY <3>1, <3>2, <3>3
  <2>3. ASSUME NEW i \in 1 .. Len(returned') PROVE worker'[returned'[i]] = "over"
    <3>1. CASE i = n + 1
      BY <1>2, <1>3, <3>1
    <3>2. CASE i # n + 1
      <4>1. i \in 1 .. n /\ returned'[i] = returned[i] /\ returned[i] \in Workers \ {w}
        BY <1>3, <1>4, <3>2
      <4> QED  BY <1>2, <4>1 DEF EvidenceInv, PhaseInv, n
    <3> QED  BY <3>1, <3>2
  <2>4. ASSUME NEW i \in 1 .. Len(returned'), NEW j \in 1 .. Len(returned'), returned'[i] = returned'[j]
        PROVE  i = j
    <3>1. CASE i \in 1 .. n /\ j \in 1 .. n
      BY <1>3, <2>4, <3>1 DEF EvidenceInv, PhaseInv, n
    <3>2. CASE i = n + 1 \/ j = n + 1
      BY <1>3, <1>4, <2>4, <3>2
    <3> QED  BY <1>3, <3>1, <3>2
  <2>5. \A x, y \in Writers : worker'[x] = "running" /\ worker'[y] = "running" => x = y
    <3>1. Writers \subseteq Workers
      BY VerificationAssumption
    <3> QED  BY <1>1, <1>2, <3>1 DEF EvidenceInv, PhaseInv
  <2> QED  BY <1>1, <2>1, <2>2, <2>3, <2>4, <2>5 DEF PhaseInv
<1>7. ASSUME NEW x \in Workers, NEW y \in Workers, Ahead(x, y)' PROVE Ahead(x, y)
  <2>1. PICK i \in 1 .. n + 1 :
          /\ returned'[i] = x
          /\ worker'[y] = "running" \/ \E j \in i + 1 .. n + 1 : returned'[j] = y
    BY <1>3, <1>7 DEF Ahead
  <2>2. worker'[y] = "running" => y # w /\ worker[y] = "running"
    BY <1>2
  <2>3. worker'[y] # "running"
    BY <1>1, <2>2 DEF Trusted, EvidenceInv, PhaseInv
  <2>4. PICK j \in i + 1 .. n + 1 : returned'[j] = y
    BY <2>1, <2>3
  <2>5. i \in 1 .. n /\ j \in 1 .. n + 1 /\ i < j
    BY <1>3, <2>1, <2>4
  <2>6. returned[i] = x
    BY <1>3, <2>1, <2>5
  <2>7. CASE j = n + 1
    BY <1>1, <1>3, <2>4, <2>5, <2>6, <2>7 DEF Ahead, n
  <2>8. CASE j # n + 1
    <3>1. j \in i + 1 .. n /\ returned[j] = y
      BY <1>3, <2>4, <2>5, <2>8
    <3> QED  BY <2>5, <2>6, <3>1 DEF Ahead, n
  <2> QED  BY <2>7, <2>8
<1> QED
  BY <1>1, <1>5, <1>6, <1>7, NothingObserved DEF history, bounds

LEMMA DispatchKeeps ==
  ASSUME EvidenceInv, Dispatch, UNCHANGED required
  PROVE  EvidenceInv'
<1>1. PICK called \in SUBSET {w \in Workers : worker[w] = "none"} :
        worker' = [w \in Workers |-> IF w \in called THEN "queued" ELSE worker[w]]
  BY DEF Dispatch
<1>2. /\ phase = "serial" /\ phase' = "parallel"
      /\ UNCHANGED <<ledger, verification, edited, effects, attempt, returned, world,
                     checkpoint, history, bounds>>
      /\ worker \in [Workers -> {"none", "queued", "running", "over"}]
  BY DEF Dispatch, EvidenceInv, TypeOK
<1>3. Pending = {} /\ returned = <<>> /\ \A w \in Workers : effects[w] = <<>> /\ worker[w] # "running"
  BY <1>2, NothingPending DEF EvidenceInv, PhaseInv
<1>4. \A w \in Workers : worker'[w] # "running"
  BY <1>1, <1>3
<1>5. TypeOK' /\ JobInv'
  BY <1>1, <1>2 DEF EvidenceInv, TypeOK, JobInv, world, history, bounds
<1>6. PhaseInv'
  <2>1. Len(returned) = 0 /\ 1 .. 0 = {} /\ Writers \subseteq Workers
    BY <1>3, VerificationAssumption
  <2> QED  BY <1>2, <1>3, <1>4, <2>1 DEF PhaseInv
<1> QED
  BY <1>2, <1>3, <1>5, <1>6, NothingObserved DEF history, bounds

LEMMA PhaseKeeps ==
  ASSUME EvidenceInv, CallTools \/ EndStep \/ Answer \/ ExternalChange, UNCHANGED required
  PROVE  EvidenceInv'
<1>1. /\ UNCHANGED <<ledger, verification, edited, effects, worker, returned, jobs, observed,
                     history, malformed, resumes>>
      /\ checkpoint' \in {checkpoint, RunState}
  BY DEF CallTools, EndStep, Answer, ExternalChange, agents, world, history, bounds
<1>2. /\ phase' \in {"think", "serial", "parallel"} \cup Outcomes
      /\ phase' # phase => phase' # "parallel"
                             /\ returned = <<>> /\ \A w \in Workers : worker[w] \in {"none", "over"}
  BY DEF CallTools, EndStep, Answer, ExternalChange, Outcomes, agents, EvidenceInv, TypeOK, PhaseInv
<1>3. /\ attempt' \in 0 .. MaxRepairs /\ drift' \subseteq {"own", "external"}
      /\ external' \in 0 .. MaxExternal
  <2>1. /\ attempt \in 0 .. MaxRepairs /\ drift \subseteq {"own", "external"}
        /\ external \in 0 .. MaxExternal /\ MaxRepairs \in Nat /\ MaxExternal \in Nat
    BY VerificationAssumption DEF EvidenceInv, TypeOK
  <2>2. CASE ExternalChange
    BY <2>1, <2>2 DEF ExternalChange, agents
  <2>3. CASE Answer
    <3>1. attempt' = attempt \/ (attempt < MaxRepairs /\ attempt' = attempt + 1)
      BY <2>3 DEF Answer, MayRepair
    <3>2. UNCHANGED <<drift, external>>
      BY <2>3 DEF Answer, world, bounds
    <3> QED  BY <2>1, <3>1, <3>2
  <2>4. CASE CallTools \/ EndStep
    BY <2>1, <2>4 DEF CallTools, EndStep, world, bounds
  <2> QED  BY <2>2, <2>3, <2>4
<1>4. checkpoint' \in Saved
  BY <1>1 DEF EvidenceInv, TypeOK, RunState, Saved
<1>5. TypeOK' /\ JobInv'
  BY <1>1, <1>2, <1>3, <1>4 DEF EvidenceInv, TypeOK, JobInv, history
<1>6. PhaseInv'
  BY <1>1, <1>2 DEF EvidenceInv, PhaseInv, Waiting
<1>7. \A w, x \in Workers : Ahead(w, x)' => Ahead(w, x)
  BY <1>1 DEF Ahead
<1> QED
  BY <1>1, <1>5, <1>6, <1>7, NothingObserved DEF history

LEMMA EvidenceInit0 ==
  ASSUME Init
  PROVE  EvidenceInv
<1>1. Empty \in VState /\ Empty.workspaceRevision = 0 /\ Empty.validationRevision = 0
      /\ \A c \in Checks : ~Empty.evidence[c].ran
  <2>1. NoRun \in Run /\ ~NoRun.ran
    BY DEF NoRun, Run
  <2>2. [c \in Checks |-> NoRun] \in [Checks -> Run]
    BY <2>1
  <2> QED  BY <2>1, <2>2 DEF Empty, VState, Verdicts
<1>2. TypeOK /\ JobInv
  <2>1. checkpoint \in Saved
    BY <1>1 DEF Init, Saved
  <2>2. effects \in [Workers -> Seq(Effect)] /\ returned \in Seq(Workers)
    BY DEF Init
  <2>3. worker \in [Workers -> {"none", "queued", "running", "over"}]
    BY DEF Init
  <2>4. attempt \in 0 .. MaxRepairs /\ malformed \in 0 .. MaxMalformed
        /\ external \in 0 .. MaxExternal /\ resumes \in 0 .. MaxResumes
    BY VerificationAssumption DEF Init
  <2>5. required \in Contracts /\ ledger \in Nat /\ verification \in VState /\ edited \in BOOLEAN
    BY <1>1 DEF Init
  <2>6. /\ phase \in {"think", "serial", "parallel"} \cup Outcomes /\ drift \subseteq {"own", "external"}
        /\ jobs \subseteq [command : Commands, began : Nat] /\ observed \subseteq jobs /\ JobInv
        /\ clock \in Nat /\ lastChange \in 0 .. clock
    BY DEF Init, JobInv
  <2> QED  BY <2>1, <2>2, <2>3, <2>4, <2>5, <2>6 DEF TypeOK
<1>3. /\ Len(returned) = 0 /\ 1 .. 0 = {} /\ Writers \subseteq Workers
      /\ \A w \in Workers : worker[w] = "none" /\ effects[w] = <<>>
  BY VerificationAssumption DEF Init
<1>4. PhaseInv
  BY <1>3 DEF Init, PhaseInv
<1>5. Pending = {} /\ \A w \in Workers : Effects(w) = {}
  BY <1>3 DEF Pending, Effects
<1>6. OrderInv
  BY <1>3, <1>5 DEF OrderInv
<1>7. CoverInv /\ Sound(verification, ledger) /\ Sound(checkpoint.verification, checkpoint.revision)
  BY <1>1, <1>5 DEF Init, CoverInv, Current, Sound
<1> QED
  BY <1>2, <1>4, <1>6, <1>7 DEF EvidenceInv

(* Each step preserves the invariant, whoever takes it.                      *)
LEMMA StepKeeps ==
  ASSUME Trusted, EvidenceInv, Next, UNCHANGED required
  PROVE  EvidenceInv'
<1>1. ASSUME NEW a \in Workers \cup {Main}, Execute(a) PROVE EvidenceInv'
  <2>1. /\ drift' \subseteq {"own", "external"} /\ JobInv'
        /\ jobs' \subseteq [command : Commands, began : Nat] /\ observed' \subseteq jobs'
        /\ \E e, altered : Recorded(a, e, altered)
    BY <1>1, ExecuteRecords DEF EvidenceInv
  <2>2. PICK e, altered : Recorded(a, e, altered)
    BY <2>1
  <2> QED  BY <2>1, <2>2, MainExecuted, WorkerExecuted
<1>2. CASE \E w \in Workers : Begin(w) \/ Return(w)
  BY <1>2, BeginKeeps, ReturnKeeps
<1> QED
  BY <1>1, <1>2, MalformedKeeps, RecordKeeps, ResumeKeeps, DispatchKeeps, PhaseKeeps DEF Next

(* The invariant holds of every run in which evidence is trusted.            *)
THEOREM EvidenceInvariant ==
  ASSUME Trusted
  PROVE  Spec => []EvidenceInv
<1>1. EvidenceInv /\ UNCHANGED vars => EvidenceInv'
  <2> SUFFICES ASSUME EvidenceInv, UNCHANGED vars PROVE EvidenceInv'
    OBVIOUS
  <2>1. TypeOK' /\ JobInv'
    BY DEF vars, agents, world, history, bounds, EvidenceInv, TypeOK, JobInv
  <2>2. PhaseInv'
    BY DEF vars, agents, EvidenceInv, PhaseInv, Waiting
  <2>3. \A w, x \in Workers : Ahead(w, x)' => Ahead(w, x)
    BY DEF vars, agents, Ahead
  <2> QED
    BY <2>1, <2>2, <2>3, NothingObserved DEF vars, history, bounds
<1>2. EvidenceInv /\ [Next /\ UNCHANGED required]_vars => EvidenceInv'
  BY <1>1, StepKeeps
<1> QED
  BY <1>2, EvidenceInit0, PTL DEF Spec

-----------------------------------------------------------------------------
\* Evidence that counts as fresh when nothing waits is covered.
LEMMA FreshIsCovered ==
  ASSUME EvidenceInv, phase # "parallel",
         \A c \in required : CheckFresh(verification, c),
         required = {} => Fresh(verification)
  PROVE  CoveredVerdict
<1>1. \A c \in Checks : CheckFresh(verification, c) => Covered(c)
  BY NothingPending DEF EvidenceInv, CoverInv, Current, CheckFresh
<1>2. required \subseteq Checks
  BY VerificationAssumption DEF EvidenceInv, TypeOK
<1> QED
  BY <1>1, <1>2 DEF CoveredVerdict, Fresh, AnyCurrent, CheckFresh

(* When no call is under way, evidence that counts as fresh is fresh: every  *)
(* change of the workspace anybody's call made, before or after a resumption,*)
(* is older than the runs it rests on (verificationIsFresh).                 *)
THEOREM FreshCorrect ==
  ASSUME Trusted
  PROVE  Spec => []FreshCoversChanges
<1>1. EvidenceInv => FreshCoversChanges
  BY FreshIsCovered DEF FreshCoversChanges, Fresh, EvidenceInv
<1> QED
  BY <1>1, EvidenceInvariant, PTL

(* A task that edited files, or whose contract requires checks, ends as      *)
(* completed only with its checks passing on what it leaves behind, and      *)
(* nothing changes after that (validateTaskFinal).                           *)
THEOREM CompletedCorrect ==
  ASSUME Trusted
  PROVE  Spec => []CompletedIsVerified
<1>1. Init => CompletedIsVerified
  BY DEF Init, CompletedIsVerified
<1>2. ASSUME EvidenceInv, CompletedIsVerified, Next, UNCHANGED required PROVE CompletedIsVerified'
  <2> SUFFICES ASSUME phase' = "completed", edited' \/ required # {}
               PROVE  CoveredVerdict' /\ ~AnyFailed(verification'.evidence)
    BY <1>2 DEF CompletedIsVerified
  <2>1. CASE Answer
    <3>1. UNCHANGED <<verification, edited, lastChange>>
      BY <2>1 DEF Answer, history
    <3>2. CASE phase = "completed"
      BY <2>1, <3>2 DEF Answer
    <3>3. PICK explained \in BOOLEAN :
            Acceptable(explained) /\ ~(edited /\ ~Fresh(verification))
      BY <2>1, <3>2 DEF Answer
    <3>4. /\ \A c \in required : CheckFresh(verification, c)
          /\ ~AnyFailed(verification.evidence) /\ phase # "parallel"
          /\ required = {} => Fresh(verification)
      BY <2>1, <3>1, <3>3 DEF Acceptable, ContractMet, Answer
    <3>5. CoveredVerdict
      BY <1>2, <3>4, FreshIsCovered
    <3>6. CoveredVerdict'
      BY <1>2, <3>1, <3>5 DEF CoveredVerdict, Covered
    <3>7. ~AnyFailed(verification'.evidence)
      BY <3>1, <3>4
    <3> QED  BY <3>6, <3>7
  <2>2. CASE ExternalChange
    <3>1. UNCHANGED <<phase, verification, edited, lastChange>>
      BY <2>2 DEF ExternalChange, agents, history
    <3>2. CoveredVerdict /\ ~AnyFailed(verification.evidence)
      BY <1>2, <3>1 DEF CompletedIsVerified
    <3>3. CoveredVerdict'
      BY <1>2, <3>1, <3>2 DEF CoveredVerdict, Covered
    <3>4. ~AnyFailed(verification'.evidence)
      BY <3>1, <3>2
    <3> QED  BY <3>3, <3>4
  <2>3. CASE ~Answer /\ ~ExternalChange
    <3>1. phase = "completed"
      BY <1>2, <2>3 DEF Next, Execute, Edit, RunCommand, ReadChangedFile, StartJob, PollJob, Executed,
         Malformed, CallTools, Dispatch, Record, EndStep, Resume, Begin, Return, agents
    <3>2. returned = <<>> /\ \A w \in Workers : worker[w] \in {"none", "over"}
      BY <1>2, <3>1 DEF EvidenceInv, PhaseInv
    <3>3. \A a \in Workers \cup {Main} : ~Acting(a)
      BY <3>1, VerificationAssumption DEF Acting
    <3> QED
      BY <1>2, <2>3, <3>1, <3>2, <3>3
         DEF Next, Execute, Edit, RunCommand, ReadChangedFile, StartJob, PollJob, Malformed, CallTools,
             Dispatch, Record, EndStep, Resume, Begin, Return
  <2> QED  BY <2>1, <2>2, <2>3
<1>3. CompletedIsVerified /\ UNCHANGED vars => CompletedIsVerified'
  BY DEF CompletedIsVerified, CoveredVerdict, Covered, vars, agents, history
<1> QED
  BY <1>1, <1>2, <1>3, EvidenceInvariant, PTL DEF Spec

\* What the runs check beside the other parts are behaviours of Verification.
THEOREM EvidenceRunsVerification == EvidenceSpec => Spec
<1>1. EvidenceInit => Init
  BY DEF EvidenceInit
<1>2. [EvidenceNext]_<<part, vars, guardVars, progressVars>> => [Next /\ UNCHANGED required]_vars
  BY DEF EvidenceNext
<1> QED
  BY <1>1, <1>2, PTL DEF EvidenceSpec, Spec

-----------------------------------------------------------------------------
(***************************************************************************)
(* A task stopped as stalled had no news. What a step brings of news is a  *)
(* call that what is known of its last run does not answer, and that stays *)
(* so until the step ends.                                                 *)
(***************************************************************************)
LEMMA MaxOfRuns ==
  ASSUME NEW n \in Nat, NEW S, S \subseteq 1 .. n, S # {}
  PROVE  Max(S) \in S
<1> DEFINE Bounded == {k \in Nat : \A T \in SUBSET (1 .. k) : T # {} => \E m \in T : \A x \in T : m >= x}
<1>1. 0 \in Bounded
  BY 1 .. 0 = {}
<1>2. ASSUME NEW k \in Nat, k \in Bounded PROVE k + 1 \in Bounded
  <2> SUFFICES ASSUME NEW T \in SUBSET (1 .. k + 1), T # {} PROVE \E m \in T : \A x \in T : m >= x
    OBVIOUS
  <2>1. CASE k + 1 \in T
    BY <2>1
  <2>2. CASE k + 1 \notin T
    <3>1. T \subseteq 1 .. k
      BY <2>2
    <3> QED  BY <1>2, <3>1
  <2> QED  BY <2>1, <2>2
<1>3. n \in Bounded
  BY <1>1, <1>2, SetInduction
<1>4. PICK m \in S : \A x \in S : m >= x
  BY <1>3
<1> QED
  BY <1>4 DEF Max

Item == [call : P!Calls, outcome : {0, 1, "written"} \cup Statuses, reused : BOOLEAN]
Unanswered(i) ==
  LET prior == last[batch[i].call] IN
  /\ ~batch[i].reused
  /\ \/ prior = None \/ prior.outcome # batch[i].outcome \/ prior.revision < changes
     \/ batch[i].call[1] = "run_shell" /\ prior.fingerprint < visible

ProgressInv ==
  /\ visible \in Nat /\ changes \in Nat /\ streak \in Nat /\ quiet \in Nat
  /\ content \in [Files -> {0, 1}] /\ batch \in Seq(Item) /\ news \in BOOLEAN
  /\ DOMAIN last = P!Calls
  /\ \A i \in 1 .. Len(batch) : <<batch[i].call, batch[i].outcome>> \in told
  /\ \A call \in P!Calls : last[call] # None =>
       /\ <<call, last[call].outcome>> \in told
       /\ last[call].revision \in Nat /\ last[call].revision <= changes
       /\ last[call].fingerprint \in Int /\ last[call].fingerprint <= visible
  /\ news => \E i \in 1 .. Len(batch) : Unanswered(i)
  /\ quiet >= streak \/ quiet >= StallLimit
  /\ stopped => streak >= StallLimit

LEMMA AnsweredKeeps ==
  ASSUME ProgressInv, NEW call \in P!Calls, NEW outcome \in {0, 1, "written"} \cup Statuses,
         NEW reused \in BOOLEAN, P!Answered(call, outcome, reused),
         changes' \in Nat, visible' \in Nat, changes <= changes', visible <= visible',
         content' \in [Files -> {0, 1}],
         reused => <<call, outcome>> \in told /\ visible' = visible,
         visible' # visible => changes < changes' \/ (call[1] = "run_shell" /\ visible < visible')
  PROVE  ProgressInv'
<1> DEFINE item == [call |-> call, outcome |-> outcome, reused |-> reused]
           n == Len(batch)
<1>1. /\ batch' = Append(batch, item) /\ told' = told \cup {<<call, outcome>>}
      /\ news' = (news \/ told' # told \/ visible' # visible)
      /\ UNCHANGED <<last, streak, stopped, quiet>>
  BY DEF P!Answered
<1>2. item \in Item /\ item.call = call /\ item.outcome = outcome /\ item.reused = reused
  BY DEF Item
<1> HIDE DEF item
<1>3. /\ batch \in Seq(Item) /\ n \in Nat
      /\ batch' \in Seq(Item) /\ Len(batch') = n + 1 /\ batch'[n + 1] = item
      /\ \A i \in 1 .. n : batch'[i] = batch[i] /\ batch[i] \in Item
  BY <1>1, <1>2 DEF ProgressInv
<1> HIDE DEF n
<1>4. ASSUME NEW i \in 1 .. Len(batch') PROVE <<batch'[i].call, batch'[i].outcome>> \in told'
  <2>1. CASE i = n + 1
    BY <1>1, <1>2, <1>3, <2>1
  <2>2. CASE i # n + 1
    <3>1. i \in 1 .. n /\ batch'[i] = batch[i]
      BY <1>3, <2>2
    <3> QED  BY <1>1, <3>1 DEF ProgressInv, n
  <2> QED  BY <2>1, <2>2
<1>5. ASSUME NEW c \in P!Calls, last[c] # None
      PROVE  /\ <<c, last[c].outcome>> \in told' /\ last[c].revision \in Nat
             /\ last[c].revision <= changes' /\ last[c].fingerprint \in Int
             /\ last[c].fingerprint <= visible'
  BY <1>1, <1>5 DEF ProgressInv
<1>6. ASSUME news' PROVE \E i \in 1 .. Len(batch') : Unanswered(i)'
  <2>1. CASE news
    <3>1. PICK i \in 1 .. n : Unanswered(i)
      BY <2>1 DEF ProgressInv, n
    <3>2. batch'[i] = batch[i] /\ batch[i].call \in P!Calls /\ i \in 1 .. Len(batch')
      BY <1>3 DEF Item
    <3>3. last[batch[i].call] # None =>
            /\ last[batch[i].call].revision \in Nat /\ last[batch[i].call].fingerprint \in Int
      BY <3>2 DEF ProgressInv
    <3>4. Unanswered(i)'
      <4>1. last' = last /\ changes \in Nat /\ visible \in Nat
        BY <1>1 DEF ProgressInv
      <4>2. PICK b : b = batch[i] /\ b = batch'[i]
        BY <3>2
      <4>3. PICK prior : prior = last[b.call] /\ prior = last'[b.call]
        BY <4>1
      <4>4. prior # None => prior.revision \in Nat /\ prior.fingerprint \in Int
        BY <3>3, <4>2, <4>3
      <4>5. /\ ~b.reused
            /\ \/ prior = None \/ prior.outcome # b.outcome \/ prior.revision < changes
               \/ b.call[1] = "run_shell" /\ prior.fingerprint < visible
        BY <3>1, <4>2, <4>3 DEF Unanswered
      <4>6. /\ ~b.reused
            /\ \/ prior = None \/ prior.outcome # b.outcome \/ prior.revision < changes'
               \/ b.call[1] = "run_shell" /\ prior.fingerprint < visible'
        BY <4>1, <4>4, <4>5
      <4> QED  BY <4>2, <4>3, <4>6 DEF Unanswered
    <3> QED  BY <3>2, <3>4
  <2>2. CASE ~news
    <3>1. told' # told \/ visible' # visible
      BY <1>1, <1>6, <2>2
    <3>2. ~reused
      BY <1>1, <3>1
    <3>3. \/ last[call] = None \/ last[call].outcome # outcome \/ last[call].revision < changes'
          \/ call[1] = "run_shell" /\ last[call].fingerprint < visible'
      <4> SUFFICES ASSUME last[call] # None, last[call].outcome = outcome
                   PROVE  \/ last[call].revision < changes'
                          \/ call[1] = "run_shell" /\ last[call].fingerprint < visible'
        OBVIOUS
      <4>1. /\ <<call, outcome>> \in told /\ last[call].revision \in Nat
            /\ last[call].revision <= changes /\ changes \in Nat /\ visible \in Nat
            /\ last[call].fingerprint \in Int /\ last[call].fingerprint <= visible
        BY DEF ProgressInv
      <4>2. visible' # visible
        BY <1>1, <3>1, <4>1
      <4> QED  BY <4>1, <4>2
    <3>4. PICK i \in 1 .. Len(batch') : batch'[i] = item
      BY <1>3
    <3>5. Unanswered(i)'
      BY <1>1, <1>2, <3>2, <3>3, <3>4 DEF Unanswered
    <3> QED  BY <3>5
  <2> QED  BY <2>1, <2>2
<1>7. news' \in BOOLEAN
  BY <1>1 DEF ProgressInv
<1> QED
  BY <1>1, <1>3, <1>4, <1>5, <1>6, <1>7 DEF ProgressInv

\* If all calls of a step repeat, each repeats what was known before the step.
LEMMA RepeatsAreOld ==
  ASSUME ProgressInv, NEW measured \in [1 .. Len(batch) -> P!Measured],
         \A i \in 1 .. Len(batch) : P!Judge(i, measured)
  PROVE  \A i \in 1 .. Len(batch) : ~Unanswered(i)
<1> DEFINE n == Len(batch)
           Matches(i) ==
             LET prior == last[batch[i].call] IN
             /\ prior # None /\ prior.outcome = batch[i].outcome /\ prior.revision = changes
             /\ batch[i].call[1] = "run_shell" => prior.fingerprint = visible
           Matched == {k \in Nat : \A i \in 1 .. n : i <= k /\ ~batch[i].reused => Matches(i)}
<1>0. n \in Nat /\ visible \in Nat /\ changes \in Nat
  BY DEF ProgressInv
<1>1. 0 \in Matched
  BY <1>0
<1>2. ASSUME NEW k \in Nat, k \in Matched PROVE k + 1 \in Matched
  <2> SUFFICES ASSUME k + 1 \in 1 .. n, ~batch[k + 1].reused PROVE Matches(k + 1)
    <3>1. \A i \in 1 .. n : i <= k + 1 => i <= k \/ i = k + 1
      BY <1>0
    <3> QED  BY <1>2, <3>1
  <2> DEFINE i == k + 1
             call == batch[i].call
             runs == {j \in P!Runs(call) : j < i}
  <2>1. P!Repeats(P!Prior(i, measured), P!Entry(i, measured), call[1])
    BY DEF P!Judge
  <2>2. /\ P!Entry(i, measured).revision = changes
        /\ P!Entry(i, measured).outcome = batch[i].outcome
        /\ P!Entry(i, measured).fingerprint = measured[i] /\ measured[i] \in {visible, -1}
    BY DEF P!Entry, P!Measured, P!Unknown
  <2>3. CASE runs = {}
    <3>1. P!Prior(i, measured) = last[call]
      BY <2>3 DEF P!Prior, P!Latest
    <3> QED  BY <2>1, <2>2, <3>1 DEF P!Repeats, P!SameWorkspace, P!Unknown
  <2>4. CASE runs # {}
    <3> DEFINE m == P!Max(runs)
    <3>1. m \in runs
      <4>1. runs \subseteq 1 .. n
        BY DEF P!Runs
      <4> HIDE DEF runs
      <4>2. Max(runs) \in runs
        BY <1>0, <2>4, <4>1, MaxOfRuns
      <4> QED  BY <4>2 DEF Max, P!Max
    <3>2. P!Prior(i, measured) = P!Entry(m, measured)
      BY <2>4 DEF P!Prior, P!Latest
    <3>3. m \in 1 .. n /\ m <= k /\ ~batch[m].reused /\ batch[m].call = call
      BY <1>0, <3>1 DEF P!Runs
    <3>4. P!Entry(m, measured).outcome = batch[m].outcome
      BY DEF P!Entry
    <3> HIDE DEF m, call, i
    <3>5. batch[m].outcome = batch[i].outcome
      BY <2>1, <2>2, <3>2, <3>4 DEF P!Repeats
    <3>6. Matches(m)
      BY <1>2, <3>3
    <3> QED  BY <3>3, <3>5, <3>6 DEF call, i
  <2> QED  BY <2>3, <2>4
<1>3. n \in Matched
  BY <1>0, <1>1, <1>2, SetInduction
<1> QED
  BY <1>0, <1>3 DEF Unanswered

LEMMA EndStepKeeps ==
  ASSUME ProgressInv, NEW measured \in [1 .. Len(batch) -> P!Measured], P!EndStep(measured)
  PROVE  ProgressInv'
<1> DEFINE n == Len(batch)
           all == \A i \in 1 .. n : P!Judge(i, measured)
<1>1. /\ batch' = <<>> /\ news' = FALSE /\ UNCHANGED <<content, visible, changes, told>>
      /\ last' = [call \in P!Calls |-> P!Latest(call, P!Runs(call), measured)]
      /\ streak' = IF all THEN streak + 1 ELSE 0
      /\ stopped' = (streak' >= StallLimit)
      /\ quiet' = IF news THEN 0 ELSE IF quiet < StallLimit THEN quiet + 1 ELSE quiet
  BY DEF P!EndStep
<1>2. StallLimit \in Nat /\ streak \in Nat /\ quiet \in Nat /\ n \in Nat
  BY ProgressAssumption DEF ProgressInv
<1>3. all => ~news
  BY RepeatsAreOld DEF ProgressInv
<1>4. ASSUME NEW call \in P!Calls, last'[call] # None
      PROVE  /\ <<call, last'[call].outcome>> \in told
             /\ last'[call].revision \in Nat /\ last'[call].revision <= changes
             /\ last'[call].fingerprint \in Int /\ last'[call].fingerprint <= visible
  <2>1. last'[call] = P!Latest(call, P!Runs(call), measured)
    BY <1>1
  <2>2. CASE P!Runs(call) = {}
    BY <1>4, <2>1, <2>2 DEF P!Latest, ProgressInv
  <2>3. CASE P!Runs(call) # {}
    <3> DEFINE m == P!Max(P!Runs(call))
    <3>1. m \in P!Runs(call)
      <4>1. P!Runs(call) \subseteq 1 .. n
        BY DEF P!Runs
      <4>2. Max(P!Runs(call)) \in P!Runs(call)
        BY <1>2, <2>3, <4>1, MaxOfRuns
      <4> QED  BY <4>2 DEF Max, P!Max
    <3>2. last'[call] = P!Entry(m, measured)
      BY <2>1, <2>3 DEF P!Latest
    <3> HIDE DEF m
    <3>3. m \in 1 .. n /\ batch[m].call = call /\ measured[m] \in {visible, -1}
      BY <3>1 DEF P!Runs, P!Measured, P!Unknown
    <3> QED  BY <3>2, <3>3 DEF P!Entry, ProgressInv
  <2> QED  BY <2>2, <2>3
<1> HIDE DEF all
<1>5. streak' \in Nat /\ quiet' \in Nat /\ (quiet' >= streak' \/ quiet' >= StallLimit)
  BY <1>1, <1>2, <1>3 DEF ProgressInv
<1>6. DOMAIN last' = P!Calls /\ batch' \in Seq(Item) /\ 1 .. Len(batch') = {}
  BY <1>1
<1>7. \A call \in P!Calls : last'[call] # None =>
         /\ <<call, last'[call].outcome>> \in told'
         /\ last'[call].revision \in Nat /\ last'[call].revision <= changes'
         /\ last'[call].fingerprint \in Int /\ last'[call].fingerprint <= visible'
  BY <1>1, <1>4
<1>8. /\ visible' \in Nat /\ changes' \in Nat /\ content' \in [Files -> {0, 1}]
      /\ news' = FALSE /\ (stopped' => streak' >= StallLimit)
  BY <1>1 DEF ProgressInv
<1> QED
  BY <1>5, <1>6, <1>7, <1>8 DEF ProgressInv

LEMMA ProgressKeeps ==
  ASSUME ProgressInv, P!Next
  PROVE  ProgressInv'
<1>0. /\ \A file \in Files : P!Read(file) \in P!Calls /\ P!Write(file) \in P!Calls
      /\ \A command \in Shells : P!Run(command) \in P!Calls /\ P!Run(command)[1] = "run_shell"
  BY DEF P!Calls, P!Run
<1>1. ASSUME NEW file \in Files, P!Changes(file)
      PROVE  /\ visible' \in Nat /\ visible' = visible + 1 /\ content' \in [Files -> {0, 1}]
  BY <1>1 DEF P!Changes, ProgressInv
<1>2. /\ visible \in Nat /\ changes \in Nat /\ content \in [Files -> {0, 1}]
  BY DEF ProgressInv
<1>3. ASSUME NEW file \in Files, P!ReadFile(file) PROVE ProgressInv'
  <2>1. content[file] \in {0, 1} /\ UNCHANGED <<content, visible, changes>>
    BY <1>2, <1>3 DEF P!ReadFile, P!Unchanged
  <2>2. /\ changes' \in Nat /\ visible' \in Nat /\ content' \in [Files -> {0, 1}]
        /\ changes <= changes' /\ visible <= visible' /\ visible' = visible
    BY <1>2, <2>1
  <2>3. P!Answered(P!Read(file), content[file], FALSE)
    BY <1>3 DEF P!ReadFile
  <2> QED  BY <1>0, <2>1, <2>2, <2>3, AnsweredKeeps
<1>4. ASSUME NEW file \in Files, P!ReadAgain(file) PROVE ProgressInv'
  <2>1. content[file] \in {0, 1} /\ UNCHANGED <<content, visible, changes>>
    BY <1>2, <1>4 DEF P!ReadAgain, P!Unchanged
  <2>2. /\ changes' \in Nat /\ visible' \in Nat /\ content' \in [Files -> {0, 1}]
        /\ changes <= changes' /\ visible <= visible' /\ visible' = visible
    BY <1>2, <2>1
  <2>3. P!Answered(P!Read(file), content[file], TRUE) /\ <<P!Read(file), content[file]>> \in told
    BY <1>4 DEF P!ReadAgain
  <2> QED  BY <1>0, <2>1, <2>2, <2>3, AnsweredKeeps
<1>5. ASSUME NEW file \in Files, P!WriteFile(file) PROVE ProgressInv'
  <2>1. changes' = changes + 1 /\ P!Changes(file)
    BY <1>5 DEF P!WriteFile
  <2>2. /\ changes' \in Nat /\ visible' \in Nat /\ content' \in [Files -> {0, 1}]
        /\ changes < changes' /\ changes <= changes' /\ visible <= visible'
    <3>1. visible' = visible + 1 /\ content' \in [Files -> {0, 1}]
      BY <1>1, <2>1
    <3> QED  BY <1>2, <2>1, <3>1
  <2>3. P!Answered(P!Write(file), "written", FALSE)
    BY <1>5 DEF P!WriteFile
  <2> QED  BY <1>0, <2>2, <2>3, AnsweredKeeps
<1>6. ASSUME NEW command \in Shells, NEW status \in Statuses, P!RunCommand(command, status)
      PROVE  ProgressInv'
  <2>1. changes' = changes /\ P!Answered(P!Run(command), status, FALSE)
    BY <1>6 DEF P!RunCommand
  <2>2. \/ UNCHANGED <<content, visible>>
        \/ visible' = visible + 1 /\ content' \in [Files -> {0, 1}]
    BY <1>1, <1>6 DEF P!RunCommand, P!Unchanged
  <2>3. visible' \in Nat /\ visible <= visible' /\ content' \in [Files -> {0, 1}]
    BY <1>2, <2>2
  <2>4. visible' # visible => visible < visible'
    BY <1>2, <2>2
  <2>5. changes' \in Nat /\ changes <= changes'
    BY <1>2, <2>1
  <2>6. P!Run(command) \in P!Calls /\ P!Run(command)[1] = "run_shell"
    BY <1>0
  <2> QED  BY <2>1, <2>3, <2>4, <2>5, <2>6, AnsweredKeeps
<1>7. CASE P!Continue
  <2>1. /\ last' = [call \in P!Calls |-> None] /\ stopped' = FALSE /\ streak' = 0
        /\ UNCHANGED <<content, visible, changes, batch, told, news, quiet>>
    BY <1>7 DEF P!Continue
  <2>2. news => \E i \in 1 .. Len(batch) : Unanswered(i)'
    <3> SUFFICES ASSUME news PROVE \E i \in 1 .. Len(batch) : Unanswered(i)'
      OBVIOUS
    <3>1. PICK i \in 1 .. Len(batch) : Unanswered(i)
      BY DEF ProgressInv
    <3>2. batch[i].call \in P!Calls
      <4>1. batch[i] \in Item
        BY DEF ProgressInv
      <4> QED  BY <4>1 DEF Item
    <3>3. last'[batch'[i].call] = None /\ batch'[i].reused = batch[i].reused
      BY <2>1, <3>2
    <3>4. ~batch[i].reused
      BY <3>1 DEF Unanswered
    <3>5. Unanswered(i)'
      BY <3>3, <3>4 DEF Unanswered
    <3> QED  BY <3>5
  <2>3. DOMAIN last' = P!Calls /\ \A call \in P!Calls : last'[call] = None
    BY <2>1
  <2>4. news' => \E i \in 1 .. Len(batch') : Unanswered(i)'
    BY <2>1, <2>2
  <2>5. batch' = batch /\ told' = told /\ visible' = visible /\ changes' = changes
    BY <2>1
  <2>6. \A i \in 1 .. Len(batch') : <<batch'[i].call, batch'[i].outcome>> \in told'
    BY <2>5 DEF ProgressInv
  <2>7. /\ visible' \in Nat /\ changes' \in Nat /\ streak' \in Nat /\ quiet' \in Nat
        /\ content' \in [Files -> {0, 1}] /\ batch' \in Seq(Item) /\ news' \in BOOLEAN
        /\ quiet' >= streak' /\ (stopped' => streak' >= StallLimit)
    BY <2>1 DEF ProgressInv
  <2> QED  BY <2>3, <2>4, <2>6, <2>7 DEF ProgressInv
<1> QED
  BY <1>3, <1>4, <1>5, <1>6, <1>7, EndStepKeeps DEF P!Next

(* A task is stopped as stalled only after so many steps in which no visible *)
(* file changed and no answer was new, for any limit, calls and commands     *)
(* (repeatsEarlierObservation).                                              *)
THEOREM StalledCorrect == EvidenceSpec => []StalledMeansQuiet
<1>1. EvidenceInit => ProgressInv
  <2> SUFFICES ASSUME P!Init PROVE ProgressInv
    BY DEF EvidenceInit
  <2>1. batch \in Seq(Item) /\ 1 .. Len(batch) = {} /\ DOMAIN last = P!Calls
    BY DEF P!Init
  <2>2. /\ visible = 0 /\ changes = 0 /\ streak = 0 /\ quiet = 0 /\ ~news /\ news \in BOOLEAN /\ ~stopped
        /\ content \in [Files -> {0, 1}] /\ \A call \in P!Calls : last[call] = None
    BY DEF P!Init
  <2>3. told = {}
    BY DEF P!Init
  <2> QED  BY <2>1, <2>2, <2>3, ProgressAssumption DEF ProgressInv
<1>2. ProgressInv /\ [EvidenceNext]_<<part, vars, guardVars, progressVars>> => ProgressInv'
  <2>1. ProgressInv /\ UNCHANGED progressVars => ProgressInv'
    BY DEF ProgressInv, progressVars, Unanswered
  <2> QED  BY <2>1, ProgressKeeps DEF EvidenceNext
<1>3. ProgressInv => StalledMeansQuiet
  BY ProgressAssumption DEF ProgressInv, StalledMeansQuiet, P!StalledMeansQuiet
<1> QED
  BY <1>1, <1>2, <1>3, PTL DEF EvidenceSpec

-----------------------------------------------------------------------------
(***************************************************************************)
(* The memory of calls. What is remembered was seen after every change the *)
(* ledger knew of when the memory was last emptied; what is pinned was     *)
(* seen after the agent's own changes, but for those of the call that is   *)
(* being recorded.                                                         *)
(***************************************************************************)
Made == [call : G!Calls, step : Nat, ok : BOOLEAN, reused : BOOLEAN]
Remembered(obs) ==
  \A c \in DOMAIN obs :
    c \in G!Calls /\ obs[c].step \in Nat /\ obs[c].step <= step /\ obs[c].seen \in Nat
Kept(function) == \A f \in DOMAIN function : f \in Files /\ function[f].seen \in Nat
Returned ==
  /\ now.call \in G!Calls /\ now.seen \in Nat /\ now.ok \in BOOLEAN /\ now.reused \in BOOLEAN
  /\ \A f \in G!Shown(now.call) : f \in Files => now.seen >= own[f]

GuardTypes ==
  /\ effect \in Nat /\ known \in [Files -> Nat] /\ own \in [Files -> Nat]
  /\ revision \in Nat /\ seenRevision \in Nat /\ seenRevision <= revision
  /\ \A change \in foreign : change[1] \in Files /\ change[2] \in Nat /\ change[2] <= effect
  /\ step \in Nat /\ pc \in {"idle", "runs", "record"}
  /\ calls \in Seq(Made) /\ Remembered(observations) /\ Kept(pinned)
  /\ listed \in Nat \cup {None}
  /\ pc = "runs" => now.call \in G!Calls
  /\ pc = "record" => Returned
Numbered == \A f \in Files : own[f] <= known[f] /\ known[f] <= effect
Sees(c, seen) == \A f \in G!Shown(c) : seen >= known[f]
UpToDate ==
  seenRevision = revision =>
    /\ \A c \in DOMAIN observations : Sees(c, observations[c].seen)
    /\ pc = "record" => Sees(now.call, now.seen)
Telling(f) == pc = "record" /\ G!Mutates /\ f \in G!Touched(now.call)
Pins ==
  /\ \A f \in DOMAIN pinned : pinned[f].seen >= own[f] \/ Telling(f)
  /\ listed # None => \A f \in Files : listed >= own[f] \/ Telling(f)
GuardInv == GuardTypes /\ Numbered /\ UpToDate /\ Pins

LEMMA ShownFiles ==
  ASSUME NEW c \in G!Calls
  PROVE  /\ G!Shown(c) \subseteq Files /\ G!Touched(c) \subseteq Files
         /\ c.tool = "read" => c.file \in Files /\ G!Shown(c) = {c.file}
         /\ c.tool \notin G!Mutating => G!Touched(c) = {}
BY DEF G!Calls, G!Reads, G!Edits, G!Rest, G!Shown, G!Touched, G!Mutating

(* The latest of some observations is one of them.                           *)
LEMMA LatestIsOne ==
  ASSUME NEW obs, Remembered(obs), step \in Nat, NEW S, S \subseteq DOMAIN obs, S # {}
  PROVE  G!Latest(obs, S) \in S
<1> DEFINE Ages == {step - obs[d].step : d \in S}
<1>1. Ages \subseteq Nat /\ Ages # {}
  BY DEF Remembered
<1>2. PICK x \in Ages : \A y \in Ages : ~(<<y, x>> \in OpToRel(<, Nat))
  <2> HIDE DEF Ages
  <2> QED
    BY <1>1, WFMin, NatLessThanWellFounded
<1>3. PICK d \in S : x = step - obs[d].step
  BY <1>2
<1>4. ASSUME NEW e \in S
      PROVE  obs[e].step <= obs[d].step
  <2>1. ~(step - obs[e].step < x)
    <3>1. step - obs[e].step \in Ages
      OBVIOUS
    <3>2. step - obs[e].step \in Nat /\ x \in Nat
      BY <1>1, <1>2, <3>1
    <3> QED
      BY <1>2, <3>1, <3>2 DEF OpToRel
  <2>2. obs[e].step \in Nat /\ obs[d].step \in Nat
    BY DEF Remembered
  <2> QED
    BY <1>3, <2>1, <2>2
<1> QED
  BY <1>3, <1>4 DEF G!Latest

(* An answer from memory is one of the observations, of what the call shows. *)
LEMMA AnswerIsRemembered ==
  ASSUME NEW obs, Remembered(obs), step \in Nat, NEW c \in G!Calls,
         G!Decision(obs, c).how # "allow"
  PROVE  \E d \in DOMAIN obs : G!Decision(obs, c).from = obs[d] /\ G!Shown(d) = G!Shown(c)
<1>1. PICK decision : decision = G!Decision(obs, c)
  OBVIOUS
<1>2. CASE ~G!Fresh(obs, c)
  <2>1. /\ c.tool = "read" /\ G!Captures(obs, c) # {}
        /\ decision.from = obs[G!Latest(obs, G!Captures(obs, c))]
    BY <1>1, <1>2 DEF G!Decision, G!Allow
  <2>2. G!Captures(obs, c) \subseteq DOMAIN obs
    BY DEF G!Captures
  <2>3. G!Latest(obs, G!Captures(obs, c)) \in G!Captures(obs, c)
    BY <2>1, <2>2, LatestIsOne
  <2>4. PICK d \in G!Captures(obs, c) : decision.from = obs[d]
    BY <2>1, <2>3
  <2>5. d \in DOMAIN obs /\ d.tool = "read" /\ d.file = c.file
    BY DEF G!Captures, G!Reads
  <2>6. G!Shown(d) = G!Shown(c)
    BY <2>1, <2>5 DEF G!Shown
  <2> QED
    BY <1>1, <2>4, <2>5, <2>6
<1>3. CASE G!Fresh(obs, c)
  <2>1. c \in DOMAIN obs
    BY <1>3 DEF G!Fresh
  <2>2. decision = G!Remembers(obs, c)
    BY <1>1, <1>3 DEF G!Decision, G!Allow
  <2>3. decision.from = obs[c]
    BY <1>1, <2>2 DEF G!Remembers, G!Allow
  <2> QED
    BY <1>1, <2>1, <2>3
<1> QED
  BY <1>2, <1>3

LEMMA BeginHolds ==
  ASSUME GuardInv, NEW c \in G!Calls, G!Begin(c)
  PROVE  GuardInv' /\ (pc' = "record" => Sees(now'.call, now'.seen))
<1>1. PICK obs : obs = G!Synchronized
  OBVIOUS
<1>2. PICK decision : decision = G!Decision(obs, c)
  OBVIOUS
<1>3. /\ pc = "idle" /\ observations' = obs /\ seenRevision' = revision
      /\ UNCHANGED <<effect, known, revision, foreign, step, calls, own>>
      /\ pinned' = (IF seenRevision = revision THEN pinned ELSE <<>>)
      /\ listed' = (IF seenRevision = revision THEN listed ELSE None)
      /\ IF decision.how = "allow"
         THEN pc' = "runs" /\ now' = [call |-> c]
         ELSE pc' = "record" /\ now' = G!Served(c, decision)
  BY <1>1, <1>2 DEF G!Begin, G!ledger
<1>4. Remembered(obs) /\ \A d \in DOMAIN obs : Sees(d, obs[d].seen)
  <2>1. CASE seenRevision = revision
    BY <1>1, <2>1 DEF G!Synchronized, GuardInv, GuardTypes, UpToDate
  <2>2. CASE seenRevision # revision
    <3>1. obs = <<>> /\ DOMAIN obs = {}
      BY <1>1, <2>2 DEF G!Synchronized
    <3> QED
      BY <3>1 DEF Remembered
  <2> QED
    BY <2>1, <2>2
<1>5. ASSUME decision.how # "allow"
      PROVE  /\ now'.call = c /\ now'.seen \in Nat /\ Sees(c, now'.seen)
             /\ now'.ok \in BOOLEAN /\ now'.reused \in BOOLEAN
  <2>1. PICK d \in DOMAIN obs : decision.from = obs[d] /\ G!Shown(d) = G!Shown(c)
    BY <1>2, <1>4, <1>5, AnswerIsRemembered DEF GuardInv, GuardTypes
  <2>2. /\ now'.call = c /\ now'.seen = obs[d].seen
        /\ now'.ok \in BOOLEAN /\ now'.reused \in BOOLEAN
    <3>1. PICK served \in BOOLEAN : served = (decision.how = "serve")
      OBVIOUS
    <3>2. now' = [call |-> c, ok |-> served, seen |-> decision.from.seen,
                  full |-> decision.from.full, reused |-> TRUE]
      BY <1>3, <1>5, <3>1 DEF G!Served
    <3>3. now'.call = c /\ now'.seen = decision.from.seen /\ now'.ok = served /\ now'.reused = TRUE
      BY <3>2
    <3> QED
      BY <2>1, <3>3
  <2> QED
    BY <1>4, <2>1, <2>2 DEF Remembered, Sees
<1>6. Kept(pinned') /\ listed' \in Nat \cup {None}
  BY <1>3 DEF GuardInv, GuardTypes, Kept
<1>7. Numbered'
  BY <1>3 DEF GuardInv, Numbered
<1>8. pc' = "record" => Returned'
  <2>1. SUFFICES ASSUME pc' = "record"
                 PROVE  Returned'
    OBVIOUS
  <2>2. /\ now'.call = c /\ now'.seen \in Nat /\ Sees(c, now'.seen)
        /\ now'.ok \in BOOLEAN /\ now'.reused \in BOOLEAN
    BY <1>3, <1>5, <2>1
  <2>3. \A f \in G!Shown(c) : f \in Files => now'.seen >= own[f]
    BY <2>2 DEF Sees, GuardInv, GuardTypes, Numbered
  <2> QED
    BY <1>3, <2>2, <2>3 DEF Returned
<1>9. GuardTypes'
  <2>1. pc' = "runs" => now'.call = c
    BY <1>3
  <2>2. Remembered(observations)'
    BY <1>3, <1>4 DEF Remembered
  <2>3. Kept(pinned)'
    BY <1>6 DEF Kept
  <2> QED
    BY <1>3, <1>6, <1>8, <2>1, <2>2, <2>3 DEF GuardInv, GuardTypes
<1>10. UpToDate'
  BY <1>3, <1>4, <1>5 DEF UpToDate, Sees
<1>11. Pins'
  <2>1. \A f \in DOMAIN pinned : pinned[f].seen >= own[f]
    BY <1>3 DEF GuardInv, Pins, Telling
  <2>2. listed # None => \A f \in Files : listed >= own[f]
    BY <1>3 DEF GuardInv, Pins, Telling
  <2> QED
    BY <1>3, <2>1, <2>2 DEF Pins
<1> QED
  BY <1>3, <1>5, <1>7, <1>9, <1>10, <1>11 DEF GuardInv, Sees

(* A call that changes something makes the memory older than the ledger.     *)
LEMMA ExecuteHolds ==
  ASSUME GuardInv, G!Execute
  PROVE  GuardInv'
<1>1. /\ pc = "runs" /\ pc' = "record"
      /\ UNCHANGED <<foreign, step, seenRevision, observations, calls, lastMutation, pinned, listed>>
  BY DEF G!Execute, G!memory, G!workingSet
<1>2. PICK c : c = now.call
  OBVIOUS
<1> DEFINE Changes(ok) == G!Touched(c) # {} /\ (ok \/ c.tool = "shell")
           Tick(ok) == IF Changes(ok) THEN effect + 1 ELSE effect
           Outcome(ok, full, changed, tick) ==
             /\ tick = (IF changed THEN effect + 1 ELSE effect)
             /\ now' = [call |-> c, ok |-> ok, seen |-> tick, full |-> full, reused |-> FALSE]
             /\ effect' = tick
             /\ revision' = IF changed THEN revision + 1 ELSE revision
             /\ known' = [f \in Files |-> IF changed /\ f \in G!Touched(c) THEN tick ELSE known[f]]
             /\ own' = [f \in Files |-> IF changed /\ ok /\ f \in G!Touched(c) THEN tick ELSE own[f]]
<1>3. PICK ok \in BOOLEAN, full \in BOOLEAN, changed \in BOOLEAN,
          tick \in {effect, effect + 1} : Outcome(ok, full, changed, tick)
  <2>1. PICK ok \in BOOLEAN, full \in BOOLEAN : Outcome(ok, full, Changes(ok), Tick(ok))
    BY ZenonT(30), <1>2 DEF G!Execute
  <2>2. Changes(ok) \in BOOLEAN /\ Tick(ok) \in {effect, effect + 1}
    OBVIOUS
  <2> QED
    BY <2>1, <2>2
<1>4. c \in G!Calls /\ GuardTypes /\ Numbered
  BY <1>1, <1>2 DEF GuardInv, GuardTypes
<1>5. /\ G!Touched(c) \subseteq Files /\ (c.tool \notin G!Mutating => G!Touched(c) = {})
  BY <1>4, ShownFiles
<1>6. /\ effect \in Nat /\ tick \in Nat /\ effect <= tick /\ known \in [Files -> Nat] /\ own \in [Files -> Nat]
      /\ revision \in Nat /\ seenRevision \in Nat /\ seenRevision <= revision
  BY <1>3, <1>4 DEF GuardTypes
<1>7. known' \in [Files -> Nat] /\ own' \in [Files -> Nat]
  BY <1>3, <1>6
<1>8. Numbered'
  <2>1. ASSUME NEW f \in Files
        PROVE  own'[f] <= known'[f] /\ known'[f] <= tick
    <3>1. own[f] <= known[f] /\ known[f] <= effect /\ own[f] \in Nat /\ known[f] \in Nat
      BY <1>4, <1>6 DEF Numbered
    <3>2. known'[f] = (IF changed /\ f \in G!Touched(c) THEN tick ELSE known[f])
          /\ own'[f] = (IF changed /\ ok /\ f \in G!Touched(c) THEN tick ELSE own[f])
      BY <1>3
    <3> QED
      BY <1>6, <3>1, <3>2
  <2> QED
    BY <1>3, <2>1 DEF Numbered
<1>9. now'.call = c /\ now'.ok = ok /\ now'.seen = tick /\ now'.reused = FALSE
  BY <1>3
<1>10. Returned'
  <2>1. \A f \in Files : tick >= own'[f]
    BY <1>3, <1>6, <1>7, <1>8 DEF Numbered
  <2> QED
    BY <1>4, <1>6, <1>9, <2>1 DEF Returned
<1>11. GuardTypes'
  <2>1. \A change \in foreign : change[1] \in Files /\ change[2] \in Nat /\ change[2] <= tick
    BY <1>4, <1>6 DEF GuardTypes
  <2>2. Remembered(observations)' /\ Kept(pinned)'
    BY <1>1, <1>4 DEF GuardTypes, Remembered, Kept
  <2>3. revision' \in Nat /\ seenRevision <= revision'
    BY <1>3, <1>6
  <2> QED
    BY <1>1, <1>3, <1>4, <1>6, <1>7, <1>10, <2>1, <2>2, <2>3 DEF GuardTypes
<1>12. UpToDate'
  <2>1. CASE changed
    BY <1>1, <1>3, <1>6, <2>1 DEF UpToDate
  <2>2. CASE ~changed
    <3>1. known' = known /\ revision' = revision /\ tick = effect
      BY <1>3, <1>6, <2>2
    <3>2. Sees(c, tick)
      <4>1. \A f \in G!Shown(c) : f \in Files
        BY <1>4, ShownFiles
      <4> QED
        BY <1>4, <1>6, <3>1, <4>1 DEF Numbered, Sees
    <3>3. Sees(c, tick)' /\ \A d \in DOMAIN observations : Sees(d, observations[d].seen)' = Sees(d, observations[d].seen)
      BY <1>1, <1>3, <3>1, <3>2 DEF Sees
    <3> QED
      BY <1>1, <1>9, <3>1, <3>2, <3>3 DEF GuardInv, UpToDate, Sees
  <2> QED
    BY <2>1, <2>2
<1>13. Pins'
  <2>1. ASSUME NEW f \in Files, own'[f] # own[f]
        PROVE  Telling(f)'
    <3>1. changed /\ ok /\ f \in G!Touched(c)
      BY <1>3, <2>1
    <3> QED
      BY <1>1, <1>5, <1>9, <3>1 DEF Telling, G!Mutates
  <2>2. /\ \A f \in DOMAIN pinned : f \in Files /\ pinned[f].seen >= own[f]
        /\ listed # None => \A f \in Files : listed >= own[f]
    BY <1>1 DEF GuardInv, GuardTypes, Kept, Pins, Telling
  <2> QED
    BY <1>1, <2>1, <2>2 DEF Pins
<1> QED
  BY <1>8, <1>11, <1>12, <1>13 DEF GuardInv

LEMMA RecordHolds ==
  ASSUME GuardInv, G!Record
  PROVE  GuardInv'
<1>1. /\ pc = "record" /\ pc' = "idle"
      /\ UNCHANGED <<effect, known, revision, foreign, step, seenRevision, own>>
      /\ calls' = Append(calls, [call |-> now.call, step |-> step, ok |-> now.ok, reused |-> now.reused])
  BY DEF G!Record, G!ledger
<1>2. PICK c : c = now.call
  OBVIOUS
<1>3. GuardTypes /\ Numbered /\ UpToDate /\ Pins /\ Returned /\ c \in G!Calls
  BY <1>1, <1>2 DEF GuardInv, GuardTypes, Returned
<1>4. /\ G!Shown(c) \subseteq Files /\ (c.tool = "read" => c.file \in Files /\ G!Shown(c) = {c.file})
      /\ (c.tool # "read" => G!Shown(c) = Files) /\ (c.tool \notin G!Mutating => G!Touched(c) = {})
  BY <1>3, ShownFiles DEF G!Shown
<1>5. now.seen \in Nat /\ \A f \in G!Shown(c) : now.seen >= own[f]
  BY <1>2, <1>3, <1>4 DEF Returned
<1>6. calls' \in Seq(Made)
  <2>1. [call |-> now.call, step |-> step, ok |-> now.ok, reused |-> now.reused] \in Made
    BY <1>3 DEF Made, Returned, GuardTypes
  <2> QED
    BY <1>1, <1>3, <2>1 DEF GuardTypes
<1>7. /\ Remembered(observations')
      /\ seenRevision = revision => \A d \in DOMAIN observations' : Sees(d, observations'[d].seen)
  <2>1. CASE observations' = observations
    BY <1>3, <2>1 DEF GuardTypes, UpToDate
  <2>2. CASE observations' = G!With(observations, c, G!Observed)
    <3>1. DOMAIN observations' = DOMAIN observations \cup {c}
          /\ \A d \in DOMAIN observations' :
               observations'[d] = IF d = c THEN G!Observed ELSE observations[d]
      BY <2>2 DEF G!With
    <3>2. G!Observed.step = step /\ G!Observed.seen = now.seen
      BY DEF G!Observed
    <3>3. Remembered(observations) /\ step \in Nat
      BY <1>3 DEF GuardTypes
    <3>4. Remembered(observations')
      BY <1>3, <1>5, <3>1, <3>2, <3>3 DEF Remembered
    <3>5. seenRevision = revision => Sees(c, now.seen)
                                     /\ \A d \in DOMAIN observations : Sees(d, observations[d].seen)
      BY <1>1, <1>2, <1>3 DEF UpToDate
    <3> QED
      BY <3>1, <3>2, <3>4, <3>5
  <2> QED
    BY <1>2, <2>1, <2>2 DEF G!Record
<1>8. /\ Kept(G!Pinned)
      /\ \A f \in DOMAIN G!Pinned : G!Pinned[f].seen >= own[f] \/ Telling(f)
      /\ G!Mutates => G!Pinned = pinned
  <2>1. CASE G!Pinned = pinned
    BY <1>3, <2>1 DEF GuardTypes, Pins
  <2>2. CASE c.tool = "read" /\ G!Pinned = G!With(pinned, c.file, [seen |-> now.seen, full |-> now.full])
    <3>1. PICK kept : kept = G!Pinned
      OBVIOUS
    <3>2. DOMAIN kept = DOMAIN pinned \cup {c.file}
          /\ \A f \in DOMAIN kept :
               kept[f] = IF f = c.file THEN [seen |-> now.seen, full |-> now.full] ELSE pinned[f]
      BY <2>2, <3>1 DEF G!With
    <3>3. Kept(pinned) /\ \A f \in DOMAIN pinned : pinned[f].seen >= own[f] \/ Telling(f)
      BY <1>3 DEF GuardTypes, Pins
    <3>4. [seen |-> now.seen, full |-> now.full].seen = now.seen
      OBVIOUS
    <3>5. ~G!Mutates
      BY <1>2, <2>2 DEF G!Mutates, G!Mutating
    <3>6. ASSUME NEW f \in DOMAIN kept
          PROVE  f \in Files /\ kept[f].seen \in Nat /\ (kept[f].seen >= own[f] \/ Telling(f))
      <4>1. CASE f = c.file
        BY <1>4, <1>5, <2>2, <3>2, <3>4, <4>1
      <4>2. CASE f # c.file
        BY <3>2, <3>3, <4>2 DEF Kept
      <4> QED
        BY <4>1, <4>2
    <3> QED
      BY <3>1, <3>5, <3>6 DEF Kept
  <2> QED
    BY <1>2, <2>1, <2>2 DEF G!Pinned
<1>9. /\ Kept(pinned')
      /\ \A f \in DOMAIN pinned' : pinned'[f].seen >= own[f]
      /\ listed' \in Nat \cup {None}
      /\ listed' # None => \A f \in Files : listed' >= own[f]
  <2>1. CASE G!Mutates
    <3>1. pinned' = G!Without(pinned, G!Touched(c)) /\ listed' = None
      BY <1>2, <1>8, <2>1 DEF G!Record, G!Pruned
    <3>2. DOMAIN pinned' = DOMAIN pinned \ G!Touched(c)
          /\ \A f \in DOMAIN pinned' : pinned'[f] = pinned[f]
      BY <3>1 DEF G!Without
    <3>3. \A f \in DOMAIN pinned' : ~Telling(f)
      BY <1>2, <3>2 DEF Telling
    <3>4. Kept(pinned) /\ \A f \in DOMAIN pinned : pinned[f].seen >= own[f] \/ Telling(f)
      BY <1>3 DEF GuardTypes, Pins
    <3> QED
      BY <3>1, <3>2, <3>3, <3>4 DEF Kept
  <2>2. CASE ~G!Mutates
    <3>1. pinned' = G!Pinned /\ listed' = G!Oldest(listed, "list")
      BY <2>2 DEF G!Record
    <3>2. \A f : ~Telling(f)
      BY <2>2 DEF Telling
    <3>3. Kept(pinned') /\ \A f \in DOMAIN pinned' : pinned'[f].seen >= own[f]
      BY <1>8, <3>1, <3>2
    <3>4. listed \in Nat \cup {None} /\ (listed # None => \A f \in Files : listed >= own[f])
      BY <1>3, <3>2 DEF GuardTypes, Pins
    <3>5. listed' = listed \/ (c.tool = "list" /\ listed' = now.seen)
      BY <1>2, <3>1 DEF G!Oldest
    <3> QED
      BY <1>4, <1>5, <3>3, <3>4, <3>5
  <2> QED
    BY <2>1, <2>2
<1>10. GuardTypes'
  <2>1. Remembered(observations)' /\ Kept(pinned)'
    BY <1>1, <1>7, <1>9 DEF Remembered, Kept
  <2> QED
    BY <1>1, <1>3, <1>6, <1>9, <2>1 DEF GuardTypes
<1>11. Numbered' /\ UpToDate' /\ Pins'
  BY <1>1, <1>3, <1>7, <1>9 DEF Numbered, UpToDate, Pins, Sees
<1> QED
  BY <1>10, <1>11 DEF GuardInv

LEMMA ElsewhereHolds ==
  ASSUME GuardInv,
         \/ G!EndStep
         \/ \E f \in Files : G!Change(f)
         \/ G!Number
         \/ UNCHANGED guardVars
  PROVE  GuardInv'
<1>1. /\ GuardTypes /\ Numbered /\ UpToDate /\ Pins
      /\ known \in [Files -> Nat] /\ own \in [Files -> Nat] /\ effect \in Nat
  BY DEF GuardInv, GuardTypes
<1>2. CASE UNCHANGED guardVars
  BY <1>1, <1>2 DEF guardVars, GuardInv, GuardTypes, Numbered, UpToDate, Pins, Telling, Remembered,
     Kept, Returned, Sees, G!Mutates
<1>3. CASE G!EndStep
  <2>1. /\ UNCHANGED <<effect, known, revision, foreign, pc, now, seenRevision, observations, calls,
                       pinned, listed, own>>
        /\ step' = step + 1 /\ step \in Nat
    BY <1>1, <1>3 DEF G!EndStep, G!ledger, G!memory, G!workingSet, GuardTypes
  <2>2. Remembered(observations)'
    <3>1. Remembered(observations)
      BY <1>1 DEF GuardTypes
    <3> QED
      BY <2>1, <3>1 DEF Remembered
  <2>3. Kept(pinned)' /\ (pc' = "record" => Returned')
    BY <1>1, <2>1 DEF GuardTypes, Kept, Returned
  <2>4. GuardTypes'
    BY <1>1, <2>1, <2>2, <2>3 DEF GuardTypes
  <2>5. Numbered' /\ UpToDate' /\ Pins'
    BY <1>1, <2>1 DEF Numbered, UpToDate, Pins, Telling, Sees, G!Mutates
  <2> QED
    BY <2>4, <2>5 DEF GuardInv
<1>4. ASSUME NEW f \in Files, G!Change(f)
      PROVE  GuardInv'
  <2>1. /\ UNCHANGED <<known, revision, step, pc, now, seenRevision, observations, calls, pinned, listed,
                       own>>
        /\ effect' = effect + 1 /\ foreign' = {<<f, effect + 1>>}
    BY <1>4 DEF G!Change, G!memory, G!workingSet
  <2>2. Remembered(observations)' /\ Kept(pinned)' /\ (pc' = "record" => Returned')
    BY <1>1, <2>1 DEF GuardTypes, Remembered, Kept, Returned
  <2>3. \A change \in foreign' : change[1] \in Files /\ change[2] \in Nat /\ change[2] <= effect'
    BY <1>1, <2>1
  <2>4. GuardTypes'
    BY <1>1, <2>1, <2>2, <2>3 DEF GuardTypes
  <2>5. Numbered'
    BY <1>1, <2>1 DEF Numbered
  <2>6. UpToDate' /\ Pins'
    BY <1>1, <2>1 DEF UpToDate, Pins, Telling, Sees, G!Mutates
  <2> QED
    BY <2>4, <2>5, <2>6 DEF GuardInv
<1>5. CASE G!Number
  <2>1. /\ UNCHANGED <<effect, step, pc, now, seenRevision, observations, calls, pinned, listed, own>>
        /\ revision' = revision + 1 /\ foreign' = {}
    BY <1>5 DEF G!Number, G!memory, G!workingSet
  <2>2. PICK change \in foreign :
          known' = [known EXCEPT ![change[1]] = IF @ > change[2] THEN @ ELSE change[2]]
    BY <1>5 DEF G!Number
  <2>3. change[1] \in Files /\ change[2] \in Nat /\ change[2] <= effect
    BY <1>1 DEF GuardTypes
  <2>4. /\ known' \in [Files -> Nat]
        /\ \A f \in Files : known[f] <= known'[f] /\ known'[f] <= effect
    <3>1. \A f \in Files : known[f] \in Nat /\ known[f] <= effect
      BY <1>1 DEF Numbered
    <3>2. PICK file, at : file = change[1] /\ at = change[2]
      OBVIOUS
    <3>3. known' = [f \in Files |-> IF f = file THEN (IF known[f] > at THEN known[f] ELSE at) ELSE known[f]]
      BY <1>1, <2>2, <2>3, <3>2
    <3>4. file \in Files /\ at \in Nat /\ at <= effect
      BY <2>3, <3>2
    <3> QED
      BY <1>1, <3>1, <3>3, <3>4
  <2>5. Numbered'
    <3>1. \A f \in Files : own[f] \in Nat /\ known[f] \in Nat /\ known'[f] \in Nat /\ own[f] <= known[f]
      BY <1>1, <2>4 DEF Numbered
    <3> QED
      BY <1>1, <2>1, <2>4, <3>1 DEF Numbered
  <2>6. seenRevision' \in Nat /\ revision' \in Nat /\ seenRevision' <= revision' /\ seenRevision' # revision'
    BY <1>1, <2>1 DEF GuardTypes
  <2>7. Remembered(observations)' /\ Kept(pinned)' /\ (pc' = "record" => Returned')
    BY <1>1, <2>1 DEF GuardTypes, Remembered, Kept, Returned
  <2>8. GuardTypes'
    BY <1>1, <2>1, <2>4, <2>6, <2>7 DEF GuardTypes
  <2>9. UpToDate' /\ Pins'
    BY <1>1, <2>1, <2>6 DEF UpToDate, Pins, Telling, G!Mutates
  <2> QED
    BY <2>5, <2>8, <2>9 DEF GuardInv
<1> QED
  BY <1>2, <1>3, <1>4, <1>5

LEMMA GuardBegins == G!Init => GuardInv
<1> SUFFICES ASSUME G!Init
             PROVE  GuardInv
  OBVIOUS
<1>1. /\ effect = 0 /\ known = [f \in Files |-> 0] /\ revision = 0 /\ foreign = {}
      /\ step = 1 /\ pc = "idle" /\ seenRevision = 0 /\ listed = None
      /\ own = [f \in Files |-> 0]
  BY DEF G!Init
<1>2. DOMAIN observations = {} /\ DOMAIN pinned = {} /\ calls \in Seq(Made)
  BY DEF G!Init
<1>3. GuardTypes
  BY <1>1, <1>2 DEF GuardTypes, Remembered, Kept
<1>4. Numbered /\ UpToDate /\ Pins
  BY <1>1, <1>2 DEF Numbered, UpToDate, Pins
<1> QED
  BY <1>3, <1>4 DEF GuardInv

(* The agent is told only of calls none of which made progress.              *)
LEMMA NudgeIsDue ==
  ASSUME GuardInv, G!Nudges
  PROVE  \A i \in Len(calls) - 3 .. Len(calls) : ~G!Progress(calls[i])
<1> DEFINE n == Len(calls)
<1>1. calls \in Seq(Made) /\ n \in Nat
  BY DEF GuardInv, GuardTypes
<1>2. CASE G!Oscillates(calls, 2 .. MaxPeriod)
  <2>1. PICK p \in 2 .. MaxPeriod :
          n >= 2 * p /\ \A i \in DOMAIN G!Recent(calls, 2 * p) : ~G!Progress(G!Recent(calls, 2 * p)[i])
    BY <1>2 DEF G!Oscillates
  <2>2. p \in Nat /\ p >= 2
    BY <2>1, GuardAssumption
  <2>3. PICK first : first = IF n > 2 * p THEN n - 2 * p + 1 ELSE 1
    OBVIOUS
  <2>4. first \in 1 .. n /\ first <= n - 3 /\ first \in Nat /\ n - first + 1 \in Nat
    BY <1>1, <2>1, <2>2, <2>3
  <2>5. PICK w : w = SubSeq(calls, first, n)
    OBVIOUS
  <2>6. \A i \in DOMAIN w : ~G!Progress(w[i])
    BY <2>1, <2>3, <2>5 DEF G!Recent
  <2>7. ASSUME NEW i \in n - 3 .. n
        PROVE  ~G!Progress(calls[i])
    <3>1. i - first + 1 \in 1 .. n - first + 1
      BY <1>1, <2>4
    <3>2. i - first + 1 \in DOMAIN w /\ w[i - first + 1] = calls[i]
      <4>1. /\ w \in Seq(Made) /\ Len(w) = n - first + 1
            /\ \A k \in 1 .. n - first + 1 : w[k] = calls[first + k - 1]
        <5>1. first \in Int /\ n \in Int /\ first <= n /\ \A k \in first .. n : calls[k] \in Made
          BY <1>1, <2>4
        <5> QED
          BY <2>5, <5>1, SubSeqProperties
      <4>2. first + (i - first + 1) - 1 = i
        BY <1>1, <2>4
      <4> QED
        BY <3>1, <4>1, <4>2
    <3> QED
      BY <2>6, <3>2
  <2> QED
    BY <2>7
<1>3. CASE G!InspectsOnly(calls, Streak)
  <2>1. n >= Streak /\ \A i \in n - Streak + 1 .. n : G!Inspects(calls[i])
    BY <1>3 DEF G!InspectsOnly
  <2>2. ASSUME NEW i \in n - 3 .. n
        PROVE  ~G!Progress(calls[i])
    <3>1. i \in n - Streak + 1 .. n
      BY <1>1, <2>1, GuardAssumption
    <3>2. G!Inspects(calls[i])
      BY <2>1, <3>1
    <3> QED
      BY <3>2 DEF G!Inspects, G!Progress, G!Idempotent, G!Progressing
  <2> QED
    BY <2>2
<1> QED
  BY <1>2, <1>3 DEF G!Nudges

LEMMA GuardStep ==
  ASSUME GuardInv, G!Next \/ UNCHANGED guardVars
  PROVE  /\ GuardInv'
         /\ pc = "idle" /\ pc' = "record" => \A f \in G!Shown(now'.call) : now'.seen >= known[f]
         /\ lastNudge' # lastNudge =>
              \A i \in Len(calls) - 3 .. Len(calls) : ~G!Progress(calls[i])
<1>1. ASSUME NEW c \in G!Calls, G!Begin(c)
      PROVE  /\ GuardInv' /\ (pc' = "record" => Sees(now'.call, now'.seen))
             /\ lastNudge' = lastNudge
  BY <1>1, BeginHolds DEF G!Begin
<1>2. CASE G!Execute
  BY <1>2, ExecuteHolds DEF G!Execute
<1>3. CASE G!Record
  BY <1>3, RecordHolds DEF G!Record
<1>4. CASE G!EndStep
  BY <1>4, ElsewhereHolds, NudgeIsDue DEF G!EndStep
<1>5. CASE (\E f \in Files : G!Change(f)) \/ G!Number \/ UNCHANGED guardVars
  BY <1>5, ElsewhereHolds DEF G!Change, G!Number, guardVars
<1> QED
  BY <1>1, <1>2, <1>3, <1>4, <1>5 DEF G!Next, Sees

(* What is answered from memory shows every change of what it shows that the *)
(* ledger knew of, what is kept for a summary shows the agent's own changes, *)
(* and the agent is told that it goes in circles only after four calls       *)
(* without progress, for any files, tools, window and periods                *)
(* (evaluateToolCall, recordToolObservation, synchronizeWorkspaceRevision).    *)
THEOREM MemoryCorrect == EvidenceSpec => MemoryIsHonest
<1>1. EvidenceInit => GuardInv
  BY GuardBegins DEF EvidenceInit
<1>2. GuardInv /\ [EvidenceNext]_<<part, vars, guardVars, progressVars>> =>
        /\ GuardInv'
        /\ [pc = "idle" /\ pc' = "record" =>
              \A f \in G!Shown(now'.call) : now'.seen >= known[f]]_G!vars
        /\ [lastNudge' # lastNudge =>
              \A i \in Len(calls) - 3 .. Len(calls) : ~G!Progress(calls[i])]_G!vars
  BY GuardStep DEF EvidenceNext
<1>3. GuardInv => G!PinnedAfterOwnChange
  BY DEF GuardInv, GuardTypes, Pins, Telling, G!PinnedAfterOwnChange
<1> QED
  BY <1>1, <1>2, <1>3, PTL DEF EvidenceSpec, MemoryIsHonest, G!MemoryIsCurrent, G!NudgedWithoutProgress
=============================================================================
