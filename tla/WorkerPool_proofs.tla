-------------------------- MODULE WorkerPool_proofs --------------------------
(***************************************************************************)
(* Theorems about WorkerPool, for any number of workers and any limits.    *)
(* The inductive invariant has two parts: CallInv ties the workers that    *)
(* run to the calls the main agent waits for, PlaceInv ties them to the    *)
(* places of the lock's promise chain.                                     *)
(***************************************************************************)
EXTENDS WorkerPool, FiniteSetTheorems, TLAPS

\* The main agent waits for every worker that is queued or running, and a
\* round never has more calls in flight than runners.
CallInv ==
  /\ parent \in {"model", "over"} => calls = {}
  /\ parent = "tool" => \E w \in Workers : calls = {w}
  /\ parent = "dispatch" => Cardinality(calls) <= runners
  /\ \A w \in Workers : status[w] \in Busy => w \in calls

\* The writers whose place in the chain is not released yet.
Claims == {w \in Writers :
             status[w] \in Busy \/ (w \in gaveUp /\ place[w] > served)}

\* Unreleased places are distinct, the running writer has the one that is
\* served, and nobody waits once the task is cancelled.
PlaceInv ==
  /\ \A w \in Writers : status[w] = "queued" => place[w] > served
  /\ \A w \in Writers : status[w] = "running" => place[w] = served + 1
  /\ \A w \in gaveUp : status[w] = "stopped"
  /\ \A v, w \in Claims : place[v] = place[w] => v = w
  /\ Cancelled => \A w \in Writers : status[w] # "queued"

PoolInv == TypeOK /\ CallInv /\ PlaceInv

-----------------------------------------------------------------------------

\* A batch is a sequence of workers.
LEMMA BatchType ==
  ASSUME NEW batch \in Batches
  PROVE  batch \in Seq(Workers)
<1>1. PICK s \in SUBSET Fresh : batch \in SetToSeqs(s)
  BY DEF Batches, SetToAllKPermutations
<1>2. s \subseteq Workers /\ IsFiniteSet(s)
  BY <1>1, PoolAssumption, FS_Subset DEF Fresh
<1>3. Cardinality(s) \in Nat
  BY <1>2, FS_CardinalityType
<1>4. batch \in [1..Cardinality(s) -> s]
  BY <1>1 DEF SetToSeqs
<1>5. batch \in Seq(s)
  BY <1>3, <1>4
<1> QED
  BY <1>2, <1>5

\* Sets of calls are finite, and taking or recording one counts it.
LEMMA CallCount ==
  ASSUME NEW S \in SUBSET Workers
  PROVE  /\ IsFiniteSet(S) /\ Cardinality(S) \in Nat
         /\ S # {} => Cardinality(S) >= 1
         /\ \A w \in Workers : Cardinality(S \cup {w}) <= Cardinality(S) + 1
         /\ \A w \in S : Cardinality(S \ {w}) = Cardinality(S) - 1
<1>1. IsFiniteSet(S)
  BY PoolAssumption, FS_Subset
<1>2. Cardinality(S) \in Nat
  BY <1>1, FS_CardinalityType
<1>3. S # {} => Cardinality(S) >= 1
  BY <1>1, <1>2, FS_EmptySet
<1>4. \A w \in Workers : Cardinality(S \cup {w}) <= Cardinality(S) + 1
  <2> TAKE w \in Workers
  <2>1. Cardinality(S \cup {w}) = IF w \in S THEN Cardinality(S) ELSE Cardinality(S) + 1
    BY <1>1, FS_AddElement
  <2> QED
    BY <1>2, <2>1
<1>5. \A w \in S : Cardinality(S \ {w}) = Cardinality(S) - 1
  BY <1>1, FS_RemoveElement
<1> QED
  BY <1>1, <1>2, <1>3, <1>4, <1>5

-----------------------------------------------------------------------------

BegunTypes ==
  /\ status' \in [Workers -> Status]
  /\ nextPlace' \in Nat \ {0} /\ served' \in 0..(nextPlace' - 1)
  /\ place' \in [Workers -> 0..(nextPlace' - 1)] /\ gaveUp' \subseteq Writers
  /\ revision' \in Nat /\ recorded' \subseteq Nat
  /\ made' \in [Workers -> SUBSET Nat] /\ reported' \in [Workers -> SUBSET Nat]

\* Every start or continuation of a worker: a writer gets a new last place.
LEMMA BeginStep ==
  ASSUME TypeOK, PlaceInv, NEW w \in Workers, Begin(w), UNCHANGED signal,
         status[w] \notin Busy, status[w] # "stopped", ~Cancelled
  PROVE  BegunTypes /\ (\A v \in Workers : status'[v] \in Busy => status[v] \in Busy \/ v = w)
         /\ PlaceInv'
<1> USE PoolAssumption
<1>1. CASE w \in Writers
  <2>1. /\ status' = [status EXCEPT ![w] = "queued"]
        /\ place' = [place EXCEPT ![w] = nextPlace]
        /\ nextPlace' = nextPlace + 1
        /\ served' = served /\ gaveUp' = gaveUp
        /\ UNCHANGED <<revision, recorded>>
        /\ made' = [made EXCEPT ![w] = {}] /\ reported' = [reported EXCEPT ![w] = {}]
    BY <1>1 DEF Begin
  <2>2. w \notin gaveUp
    BY DEF PlaceInv
  <2>3. Claims' = Claims \cup {w}
    BY <1>1, <2>1, <2>2 DEF Claims, TypeOK, Busy
  <2>4. \A v \in Claims : v # w /\ place'[v] = place[v] /\ place[v] # nextPlace
    BY <2>1, <2>2 DEF Claims, TypeOK
  <2>5. place'[w] = nextPlace
    BY <2>1 DEF TypeOK
  <2>6. \A v, u \in Claims' : place'[v] = place'[u] => v = u
    <3> SUFFICES ASSUME NEW v \in Claims \cup {w}, NEW u \in Claims \cup {w},
                        place'[v] = place'[u]
                 PROVE  v = u
      BY <2>3
    <3>1. \A x, y \in Claims : place[x] = place[y] => x = y
      BY DEF PlaceInv
    <3>2. CASE v \in Claims /\ u \in Claims
      BY <2>4, <3>1, <3>2
    <3>3. CASE v \in Claims /\ u = w
      BY <2>4, <2>5, <3>3
    <3>4. CASE v = w /\ u \in Claims
      BY <2>4, <2>5, <3>4
    <3>5. CASE v = w /\ u = w
      BY <3>5
    <3> QED
      BY <3>2, <3>3, <3>4, <3>5
  <2>7. PlaceInv'
    BY <1>1, <2>1, <2>2, <2>6 DEF PlaceInv, TypeOK, Cancelled, signal
  <2>8. /\ status' \in [Workers -> Status]
        /\ made' \in [Workers -> SUBSET Nat] /\ reported' \in [Workers -> SUBSET Nat]
        /\ \A v \in Workers : status'[v] \in Busy => status[v] \in Busy \/ v = w
    BY <2>1 DEF TypeOK, Status, Busy
  <2>9. /\ nextPlace' \in Nat \ {0} /\ served' \in 0..(nextPlace' - 1)
        /\ place' \in [Workers -> 0..(nextPlace' - 1)] /\ gaveUp' \subseteq Writers
        /\ revision' \in Nat /\ recorded' \subseteq Nat
    BY <2>1 DEF TypeOK
  <2> QED
    BY <2>7, <2>8, <2>9 DEF BegunTypes
<1>2. CASE w \notin Writers
  <2>1. /\ status' = [status EXCEPT ![w] = "running"]
        /\ UNCHANGED <<place, nextPlace, served, gaveUp, revision, recorded>>
        /\ made' = [made EXCEPT ![w] = {}] /\ reported' = [reported EXCEPT ![w] = {}]
    BY <1>2 DEF Begin
  <2>2. Claims' = Claims
    BY <1>2, <2>1 DEF Claims, TypeOK
  <2>3. PlaceInv'
    BY <1>2, <2>1, <2>2 DEF PlaceInv, TypeOK, Cancelled, signal
  <2> QED
    BY <1>2, <2>1, <2>3 DEF TypeOK, Status, Busy, BegunTypes
<1> QED
  BY <1>1, <1>2

\* The invariant is preserved when only the round moves and no call is taken
\* or recorded.
LEMMA IdleStep ==
  ASSUME PoolInv, NoTurn, UNCHANGED calls, UNCHANGED signal,
         parent' \in {"model", "tool", "dispatch", "over"},
         todo' \in Seq(Workers), runners' \in Nat, failed' \in BOOLEAN,
         parent' \in {"model", "over"} => calls = {},
         parent' = "tool" => \E w \in Workers : calls = {w},
         parent' = "dispatch" => Cardinality(calls) <= runners'
  PROVE  PoolInv'
BY DEF PoolInv, TypeOK, CallInv, PlaceInv, Claims, NoTurn, lock, edits, signal, Cancelled

\* A dispatched batch becomes the round's calls.
LEMMA DispatchStep ==
  ASSUME PoolInv, NEW batch \in Batches, Dispatch(batch)
  PROVE  PoolInv'
<1>1. batch \in Seq(Workers) /\ Len(batch) \in Nat
  BY BatchType
<1>2. runners' \in Nat
  BY <1>1, PoolAssumption DEF Dispatch
<1>3. calls = {} /\ Cardinality(calls) = 0
  BY FS_EmptySet DEF PoolInv, CallInv, Dispatch
<1>4. /\ NoTurn /\ UNCHANGED calls /\ UNCHANGED signal
      /\ parent' = "dispatch" /\ todo' = batch /\ failed' = FALSE
  BY DEF Dispatch
<1>5. todo' \in Seq(Workers) /\ failed' \in BOOLEAN
  BY <1>1, <1>4
<1>6. Cardinality(calls) <= runners'
  BY <1>2, <1>3
<1> QED
  BY <1>2, <1>3, <1>4, <1>5, <1>6, IdleStep

LEMMA TakeStep ==
  ASSUME PoolInv, Take
  PROVE  PoolInv'
<1>1. Cardinality(calls) \in Nat /\ runners \in Nat /\ Cardinality(calls) < runners
  BY CallCount DEF PoolInv, TypeOK, Take
<1>2. todo' \in Seq(Workers) /\ Head(todo) \in Workers
  BY DEF PoolInv, TypeOK, Take
<1>3. CASE Cancelled
  <2>1. /\ NoTurn /\ UNCHANGED calls /\ UNCHANGED signal
        /\ parent' = "dispatch" /\ failed' = TRUE /\ runners' = runners - 1
    BY <1>3 DEF Take
  <2> QED
    BY <1>1, <1>2, <2>1, IdleStep
<1>4. CASE ~Cancelled
  <2>1. calls' = calls \cup {Head(todo)} /\ parent = "dispatch"
    BY <1>4 DEF Take
  <2>2. Cardinality(calls') <= runners
    <3>1. Cardinality(calls') <= Cardinality(calls) + 1 /\ Cardinality(calls') \in Nat
      BY <1>2, <2>1, CallCount DEF PoolInv, TypeOK
    <3> QED
      BY <1>1, <3>1
  <2>3. CallInv'
    BY <1>2, <1>4, <2>1, <2>2 DEF Take, PoolInv, CallInv, NoTurn
  <2>4. TypeOK'
    BY <1>2, <1>4, <2>1 DEF Take, PoolInv, TypeOK, NoTurn, lock, edits, signal
  <2>5. PlaceInv'
    BY <1>4 DEF Take, PoolInv, PlaceInv, Claims, NoTurn, lock, edits, signal, Cancelled
  <2> QED
    BY <2>3, <2>4, <2>5 DEF PoolInv
<1> QED
  BY <1>3, <1>4

LEMMA RoundOverStep ==
  ASSUME PoolInv, RoundOver
  PROVE  PoolInv'
<1>1. calls = {}
  BY DEF RoundOver, AllSettled
<1> QED
  BY <1>1, IdleStep DEF RoundOver, PoolInv, TypeOK

LEMMA FinishStep ==
  ASSUME PoolInv, Finish
  PROVE  PoolInv'
BY IdleStep DEF Finish, PoolInv, TypeOK, CallInv

\* A call that is refused leaves everything but its own status.
LEMMA StartStep ==
  ASSUME PoolInv, NEW w \in Workers, Start(w)
  PROVE  PoolInv'
<1>1. CASE Cancelled \/ Cardinality(Created) >= MaxWorkers
  <2>1. /\ status' = [status EXCEPT ![w] = "refused"] /\ status[w] = "none"
        /\ UNCHANGED <<round, lock, edits, signal>>
    BY <1>1 DEF Start
  <2>2. TypeOK' /\ CallInv'
    BY <2>1 DEF PoolInv, TypeOK, CallInv, Status, Busy, round, lock, edits, signal
  <2>3. Claims' = Claims
    BY <2>1 DEF PoolInv, TypeOK, Claims, Busy, lock
  <2>4. PlaceInv'
    BY <2>1, <2>3 DEF PoolInv, TypeOK, PlaceInv, Cancelled, lock, signal
  <2> QED
    BY <2>2, <2>4 DEF PoolInv
<1>2. CASE ~(Cancelled \/ Cardinality(Created) >= MaxWorkers)
  <2>1. Begin(w) /\ status[w] = "none" /\ w \in calls /\ UNCHANGED <<round, signal>>
    BY <1>2 DEF Start
  <2>2. /\ BegunTypes /\ PlaceInv'
        /\ \A v \in Workers : status'[v] \in Busy => status[v] \in Busy \/ v = w
    BY <1>2, <2>1, BeginStep DEF PoolInv, Busy
  <2>3. TypeOK'
    BY <2>1, <2>2 DEF PoolInv, TypeOK, round, signal, BegunTypes
  <2>4. CallInv'
    BY <2>1, <2>2 DEF PoolInv, CallInv, round
  <2> QED
    BY <2>2, <2>3, <2>4 DEF PoolInv
<1> QED
  BY <1>1, <1>2

\* A message to a stopped worker only clears its last report.
LEMMA SendStep ==
  ASSUME PoolInv, NEW w \in Workers, Send(w)
  PROVE  PoolInv'
<1>1. /\ parent = "model" /\ calls = {} /\ ~Cancelled
      /\ parent' = "tool" /\ calls' = {w}
      /\ UNCHANGED <<todo, runners, failed, signal>>
      /\ \A v \in Workers : status[v] \notin Busy
  BY DEF Send, PoolInv, CallInv
<1>2. CASE Sendable(w)
  <2>1. Begin(w) /\ status[w] # "stopped"
    BY <1>2 DEF Send, Sendable
  <2>2. /\ BegunTypes /\ PlaceInv'
        /\ \A v \in Workers : status'[v] \in Busy => status[v] \in Busy \/ v = w
    BY <1>1, <2>1, BeginStep DEF PoolInv
  <2>3. TypeOK'
    BY <1>1, <2>2 DEF PoolInv, TypeOK, signal, BegunTypes
  <2>4. CallInv'
    BY <1>1, <2>2 DEF CallInv
  <2> QED
    BY <2>2, <2>3, <2>4 DEF PoolInv
<1>3. CASE ~Sendable(w)
  <2>1. /\ reported' = [reported EXCEPT ![w] = {}]
        /\ UNCHANGED <<status, lock, revision, made, recorded>>
    BY <1>3 DEF Send
  <2>2. TypeOK'
    BY <1>1, <2>1 DEF PoolInv, TypeOK, signal, lock
  <2>3. CallInv'
    BY <1>1, <2>1 DEF CallInv
  <2>4. PlaceInv'
    BY <1>1, <2>1 DEF PoolInv, PlaceInv, Claims, Cancelled, signal, lock
  <2> QED
    BY <2>2, <2>3, <2>4 DEF PoolInv
<1> QED
  BY <1>2, <1>3

LEMMA StopStep ==
  ASSUME PoolInv, NEW w \in Workers, Stop(w)
  PROVE  PoolInv'
<1>1. /\ status' = [status EXCEPT ![w] = "stopped"] /\ status[w] \notin Busy
      /\ UNCHANGED <<round, lock, edits, signal>>
  BY DEF Stop, PoolInv, CallInv
<1>2. TypeOK' /\ CallInv'
  BY <1>1 DEF PoolInv, TypeOK, CallInv, Status, Busy, round, lock, edits, signal
<1>3. Claims' = Claims
  BY <1>1 DEF PoolInv, TypeOK, Claims, Busy, lock
<1>4. PlaceInv'
  BY <1>1, <1>3 DEF PoolInv, TypeOK, PlaceInv, Cancelled, lock, signal
<1> QED
  BY <1>2, <1>4 DEF PoolInv

LEMMA GrantStep ==
  ASSUME PoolInv, NEW w \in Workers, Grant(w)
  PROVE  PoolInv'
<1>1. /\ status' = [status EXCEPT ![w] = "running"]
      /\ w \in Writers /\ status[w] = "queued" /\ place[w] = served + 1
      /\ UNCHANGED <<round, lock, edits, signal>>
  BY DEF Grant, Queued, MyTurn
<1>2. TypeOK' /\ CallInv'
  BY <1>1 DEF PoolInv, TypeOK, CallInv, Status, Busy, round, lock, edits, signal
<1>3. Claims' = Claims
  BY <1>1 DEF PoolInv, TypeOK, Claims, Busy, lock
<1>4. PlaceInv'
  BY <1>1, <1>3 DEF PoolInv, TypeOK, PlaceInv, Cancelled, lock, signal
<1> QED
  BY <1>2, <1>4 DEF PoolInv

\* The released place belongs to nobody else, so no running writer is passed.
LEMMA PassAbandonedStep ==
  ASSUME PoolInv, NEW w \in Workers, PassAbandoned(w)
  PROVE  PoolInv'
<1>1. /\ w \in gaveUp /\ w \in Writers /\ place[w] = served + 1 /\ served' = served + 1
      /\ UNCHANGED <<round, status, place, nextPlace, gaveUp, edits, signal>>
      /\ status[w] = "stopped"
  BY DEF PassAbandoned, PoolInv, PlaceInv, TypeOK
<1>2. w \in Claims
  BY <1>1 DEF Claims, PoolInv, TypeOK
<1>3. \A v \in Claims : v # w => place[v] # served + 1
  BY <1>1, <1>2 DEF PoolInv, PlaceInv
<1>4. \A v \in Writers : status[v] \in Busy => v # w /\ v \in Claims
  BY <1>1 DEF Claims, Busy
<1>5. TypeOK'
  BY <1>1, PoolAssumption DEF PoolInv, TypeOK, round, edits, signal
<1>6. CallInv'
  BY <1>1 DEF PoolInv, CallInv, round
<1>7. Claims' \subseteq Claims
  BY <1>1, PoolAssumption DEF Claims, PoolInv, TypeOK
<1>8. PlaceInv'
  <2>1. \A v \in Writers : status[v] = "queued" => place[v] > served'
    BY <1>1, <1>3, <1>4, PoolAssumption DEF PoolInv, PlaceInv, TypeOK, Busy
  <2>2. \A v \in Writers : status[v] # "running"
    BY <1>3, <1>4 DEF PoolInv, PlaceInv, Busy
  <2> QED
    BY <1>1, <1>7, <2>1, <2>2 DEF PoolInv, PlaceInv, Cancelled, signal
<1> QED
  BY <1>5, <1>6, <1>8 DEF PoolInv

LEMMA EditStep ==
  ASSUME PoolInv, NEW w \in Workers, Edit(w)
  PROVE  PoolInv'
<1>1. /\ revision' = revision + 1 /\ made' = [made EXCEPT ![w] = @ \cup {revision'}]
      /\ UNCHANGED <<round, status, lock, reported, recorded, signal>>
  BY DEF Edit
<1>2. TypeOK'
  <2>1. revision' \in Nat /\ made' \in [Workers -> SUBSET Nat]
    BY <1>1 DEF PoolInv, TypeOK
  <2> QED
    BY <1>1, <2>1 DEF PoolInv, TypeOK, round, lock, signal
<1>3. CallInv' /\ PlaceInv'
  BY <1>1 DEF PoolInv, CallInv, PlaceInv, Claims, Cancelled, round, lock, signal
<1> QED
  BY <1>2, <1>3 DEF PoolInv

\* A writer that ends releases the place it is served with.
LEMMA EndStep ==
  ASSUME PoolInv, NEW w \in Workers, NEW outcome, End(w, outcome)
  PROVE  PoolInv'
<1>1. /\ status[w] = "running"
      /\ status' = [status EXCEPT ![w] =
                      IF outcome = "completed" THEN "completed" ELSE "stopped"]
      /\ served' = IF w \in Writers THEN served + 1 ELSE served
      /\ UNCHANGED <<round, place, nextPlace, gaveUp, revision, made, recorded, signal>>
  BY DEF End, ServedAfter
<1>2. reported' \in [Workers -> SUBSET Nat]
  BY DEF End, Reported, PoolInv, TypeOK
<1>3. w \notin gaveUp
  BY <1>1 DEF PoolInv, PlaceInv
<1>4. w \in Writers => /\ place[w] = served + 1 /\ w \in Claims
                       /\ \A v \in Claims : v # w => place[v] # served + 1
  BY <1>1 DEF PoolInv, PlaceInv, Claims, Busy
<1>5. TypeOK'
  <2>1. status' \in [Workers -> Status]
    BY <1>1 DEF PoolInv, TypeOK, Status
  <2>2. served' \in 0..(nextPlace' - 1)
    BY <1>1, <1>4 DEF PoolInv, TypeOK
  <2> QED
    BY <1>1, <1>2, <2>1, <2>2 DEF PoolInv, TypeOK, round, signal
<1>6. CallInv'
  BY <1>1 DEF PoolInv, TypeOK, CallInv, round, Busy
<1>7. Claims' \subseteq Claims
  BY <1>1, PoolAssumption DEF Claims, PoolInv, TypeOK, Busy
<1>8. PlaceInv'
  <2>1. CASE w \in Writers
    <3>1. \A v \in Writers : v # w => (status'[v] = status[v] /\ (status[v] \in Busy => v \in Claims))
      BY <1>1 DEF PoolInv, TypeOK, Claims
    <3>2. \A v \in Writers : status'[v] = "queued" => place[v] > served'
      BY <1>1, <1>4, <2>1, <3>1, PoolAssumption DEF PoolInv, PlaceInv, TypeOK, Busy
    <3>3. \A v \in Writers : status'[v] # "running"
      BY <1>1, <1>4, <2>1, <3>1 DEF PoolInv, PlaceInv, TypeOK, Busy
    <3>4. \A v \in gaveUp : status'[v] = "stopped"
      BY <1>1, <1>3 DEF PoolInv, PlaceInv, TypeOK
    <3>5. Cancelled' => \A v \in Writers : status'[v] # "queued"
      BY <1>1, <3>1 DEF PoolInv, PlaceInv, TypeOK, Cancelled, signal
    <3> QED
      BY <1>1, <1>7, <3>2, <3>3, <3>4, <3>5 DEF PoolInv, PlaceInv
  <2>2. CASE w \notin Writers
    BY <1>1, <1>3, <1>7, <2>2 DEF PoolInv, PlaceInv, TypeOK, Cancelled, signal
  <2> QED
    BY <2>1, <2>2
<1> QED
  BY <1>5, <1>6, <1>8 DEF PoolInv

LEMMA RecordStep ==
  ASSUME PoolInv, NEW w \in Workers, Record(w)
  PROVE  PoolInv'
<1>1. /\ w \in calls /\ status[w] \notin Busy /\ calls' = calls \ {w}
      /\ recorded' = recorded \cup reported[w]
      /\ UNCHANGED <<todo, status, lock, revision, made, reported, signal>>
  BY DEF Record, Settled
<1>2. parent \in {"tool", "dispatch"}
  BY <1>1 DEF PoolInv, TypeOK, CallInv
<1>3. Cardinality(calls) \in Nat /\ Cardinality(calls) >= 1
      /\ Cardinality(calls') = Cardinality(calls) - 1
  BY <1>1, CallCount DEF PoolInv, TypeOK
<1>4. recorded' \subseteq Nat
  BY <1>1 DEF PoolInv, TypeOK
<1>5. CASE parent = "tool"
  <2>1. parent' \in {"over", "model"} /\ UNCHANGED <<runners, failed>> /\ calls' = {}
    BY <1>1, <1>5 DEF Record, PoolInv, CallInv
  <2>2. TypeOK'
    BY <1>1, <1>4, <2>1 DEF PoolInv, TypeOK, lock, signal
  <2>3. CallInv'
    BY <1>1, <2>1 DEF PoolInv, CallInv
  <2> QED
    BY <1>1, <2>2, <2>3 DEF PoolInv, PlaceInv, Claims, Cancelled, lock, signal
<1>6. CASE parent = "dispatch"
  <2>1. /\ parent' = "dispatch"
        /\ runners' = (IF Cancelled THEN runners - 1 ELSE runners)
        /\ failed' = (failed \/ Cancelled)
    BY <1>6 DEF Record
  <2>2. runners' \in Nat /\ Cardinality(calls') <= runners'
    BY <1>3, <1>6, <2>1 DEF PoolInv, TypeOK, CallInv
  <2>3. failed' \in BOOLEAN
    BY <2>1, Zenon
  <2>4. TypeOK'
    BY <1>1, <1>4, <2>1, <2>2, <2>3 DEF PoolInv, TypeOK, lock, signal
  <2>5. CallInv'
    BY <1>1, <2>1, <2>2 DEF PoolInv, CallInv
  <2> QED
    BY <1>1, <2>4, <2>5 DEF PoolInv, PlaceInv, Claims, Cancelled, lock, signal
<1> QED
  BY <1>2, <1>5, <1>6

\* Those rejected while queued keep their place, as abandoned places.
LEMMA CancelStep ==
  ASSUME PoolInv, Cancel
  PROVE  PoolInv'
<1>1. /\ status' = [w \in Workers |-> IF w \in Queued THEN "stopped" ELSE status[w]]
      /\ gaveUp' = gaveUp \cup Queued
      /\ UNCHANGED <<round, place, nextPlace, served, edits>>
      /\ aborted' \in BOOLEAN /\ spent' \in BOOLEAN
  BY DEF Cancel, Rejected, PoolInv, TypeOK
<1>2. TypeOK'
  BY <1>1 DEF PoolInv, TypeOK, Queued, Status, round, edits
<1>3. CallInv'
  BY <1>1 DEF PoolInv, TypeOK, CallInv, Queued, Busy, round
<1>4. Claims' \subseteq Claims
  BY <1>1, PoolAssumption DEF Claims, PoolInv, TypeOK, PlaceInv, Queued, Busy
<1>5. PlaceInv'
  BY <1>1, <1>4, PoolAssumption DEF PoolInv, PlaceInv, TypeOK, Queued
<1> QED
  BY <1>2, <1>3, <1>5 DEF PoolInv

-----------------------------------------------------------------------------

\* The inductive invariant of the worker pool (runtime.js, loop.js, mutex.js).
THEOREM PoolInvariant == Spec => []PoolInv
<1>1. Init => PoolInv
  <2> SUFFICES ASSUME Init PROVE PoolInv
    OBVIOUS
  <2>1. /\ status \in [Workers -> Status] /\ \A w \in Workers : status[w] = "none"
        /\ place \in [Workers -> 0..(nextPlace - 1)]
        /\ made \in [Workers -> SUBSET Nat] /\ reported \in [Workers -> SUBSET Nat]
    BY DEF Init, Status
  <2>2. /\ todo \in Seq(Workers) /\ calls = {} /\ recorded = {} /\ gaveUp = {}
        /\ parent = "model" /\ runners = 0 /\ failed = FALSE
        /\ nextPlace \in Nat \ {0} /\ served \in 0..(nextPlace - 1) /\ revision \in Nat
        /\ aborted = FALSE /\ spent = FALSE
    BY DEF Init
  <2>3. TypeOK
    BY <2>1, <2>2 DEF TypeOK
  <2>4. CallInv
    BY <2>1, <2>2 DEF CallInv, Busy
  <2>5. Claims = {} /\ ~Cancelled
    BY <2>1, <2>2, PoolAssumption DEF Claims, Busy, Cancelled
  <2>6. PlaceInv
    BY <2>1, <2>2, <2>5, PoolAssumption DEF PlaceInv
  <2> QED
    BY <2>3, <2>4, <2>6 DEF PoolInv
<1>2. PoolInv /\ [Next]_vars => PoolInv'
  <2> SUFFICES ASSUME PoolInv, [Next]_vars PROVE PoolInv'
    OBVIOUS
  <2>1. ASSUME NEW batch \in Batches, Dispatch(batch) PROVE PoolInv'
    BY <2>1, DispatchStep
  <2>2. ASSUME NEW w \in Workers, Send(w) \/ Stop(w) \/ Edit(w) \/ WorkerStep(w)
        PROVE  PoolInv'
    BY <2>2, SendStep, StopStep, EditStep, StartStep, GrantStep, PassAbandonedStep,
       EndStep, RecordStep DEF WorkerStep, Ends
  <2>3. CASE Take \/ RoundOver \/ Finish \/ Cancel
    BY <2>3, TakeStep, RoundOverStep, FinishStep, CancelStep
  <2>4. CASE UNCHANGED vars
    BY <2>4 DEF PoolInv, TypeOK, CallInv, PlaceInv, Claims, Cancelled,
       vars, round, lock, edits, signal
  <2> QED
    BY <2>1, <2>2, <2>3, <2>4 DEF Next
<1> QED
  BY <1>1, <1>2, PTL DEF Spec

\* Every variable keeps its type, whatever the limits.
THEOREM PoolTypes == Spec => []TypeOK
<1>1. PoolInv => TypeOK
  BY DEF PoolInv
<1> QED
  BY <1>1, PoolInvariant, PTL

\* One writing worker at a time has the workspace (runtime.js:121-127).
THEOREM WritersExcluded == Spec => []OneWriter
<1>1. PoolInv => OneWriter
  BY DEF PoolInv, PlaceInv, OneWriter, Running, Claims, Busy
<1> QED
  BY <1>1, PoolInvariant, PTL

\* No worker outlives the call that runs it (loop.js:443, 822).
THEOREM CallsCoverWorkers == Spec => []NoWorkerOutlivesItsCall
<1>1. PoolInv => NoWorkerOutlivesItsCall
  BY DEF PoolInv, CallInv, NoWorkerOutlivesItsCall
<1> QED
  BY <1>1, PoolInvariant, PTL

\* A cancelled task starts no worker any more (runtime.js:391-399).
THEOREM CancelledStartsNothing == Spec => CancelledNeverRuns
<1>1. PoolInv /\ [Next]_vars =>
        [Cancelled => \A w \in Workers :
           status'[w] = "running" => status[w] = "running"]_vars
  <2> SUFFICES ASSUME PoolInv, Next, Cancelled, NEW v \in Workers, status'[v] = "running"
               PROVE  status[v] = "running"
    OBVIOUS
  <2>1. ASSUME NEW batch \in Batches, Dispatch(batch) PROVE status' = status
    BY <2>1 DEF Dispatch, NoTurn
  <2>2. CASE Take \/ RoundOver \/ Finish
    BY <2>2 DEF Take, RoundOver, Finish, NoTurn
  <2>3. CASE Cancel
    BY <2>3 DEF Cancel, PoolInv, TypeOK
  <2>4. ASSUME NEW w \in Workers, Send(w) \/ Stop(w) \/ Edit(w) \/ PassAbandoned(w) \/ Record(w)
        PROVE  status[v] = "running"
    BY <2>4 DEF Send, Stop, Edit, PassAbandoned, Record, PoolInv, TypeOK
  <2>5. ASSUME NEW w \in Workers, Start(w) \/ Ends(w)
        PROVE  status[v] = "running"
    BY <2>5 DEF Start, Ends, End, PoolInv, TypeOK
  <2>6. ASSUME NEW w \in Workers, Grant(w) PROVE FALSE
    BY <2>6 DEF Grant, Queued, PoolInv, PlaceInv
  <2> QED
    BY <2>1, <2>2, <2>3, <2>4, <2>5, <2>6 DEF Next, WorkerStep
<1> QED
  BY <1>1, PoolInvariant, PTL DEF Spec, CancelledNeverRuns

\* A stopped worker is never brought back by a message (runtime.js:37).
THEOREM StoppedStays == Spec => StoppedForGood
<1>1. PoolInv /\ [Next]_vars =>
        [\A w \in Workers : status[w] = "stopped" => status'[w] = "stopped"]_vars
  <2> SUFFICES ASSUME PoolInv, Next, NEW v \in Workers, status[v] = "stopped"
               PROVE  status'[v] = "stopped"
    OBVIOUS
  <2>1. ASSUME NEW batch \in Batches, Dispatch(batch) PROVE status' = status
    BY <2>1 DEF Dispatch, NoTurn
  <2>2. CASE Take \/ RoundOver \/ Finish
    BY <2>2 DEF Take, RoundOver, Finish, NoTurn
  <2>3. CASE Cancel
    BY <2>3 DEF Cancel, PoolInv, TypeOK
  <2>4. ASSUME NEW w \in Workers, Stop(w) \/ Edit(w) \/ PassAbandoned(w) \/ Record(w)
        PROVE  status'[v] = "stopped"
    BY <2>4 DEF Stop, Edit, PassAbandoned, Record, PoolInv, TypeOK
  <2>5. ASSUME NEW w \in Workers, Start(w) \/ Ends(w) \/ Grant(w) \/ Send(w)
        PROVE  status'[v] = "stopped"
    BY <2>5 DEF Start, Ends, End, Grant, Queued, Send, Sendable, Begin, PoolInv, TypeOK
  <2> QED
    BY <2>1, <2>2, <2>3, <2>4, <2>5 DEF Next, WorkerStep
<1> QED
  BY <1>1, PoolInvariant, PTL DEF Spec, StoppedForGood

\* The pool keeps its workers in hand, for any number of workers, readers and
\* writers, parallel calls and edits (registry.js, runtime.js).
THEOREM PoolCorrect == Spec => PoolIsSafe
BY PoolTypes, WritersExcluded, CallsCoverWorkers, CancelledStartsNothing, StoppedStays, PTL
   DEF PoolIsSafe
-----------------------------------------------------------------------------
(***************************************************************************)
(* What becomes of an edit: the main agent has it on record, or a worker   *)
(* it waits for has it, in the run or in the result.                       *)
(***************************************************************************)
RunHas(w, edit) == status[w] = "running" /\ edit \in made[w]
ResultHas(w, edit) == status[w] \in {"completed", "stopped"} /\ edit \in reported[w]
OnItsWay(edit) == \E w \in calls : RunHas(w, edit) \/ ResultHas(w, edit)

\* Nothing is on record that was not done, and of a task that is not aborted
\* everything that was done is on record or on its way to it.
EffectInv ==
  /\ recorded \subseteq 1..revision
  /\ \A w \in Workers : made[w] \subseteq 1..revision /\ reported[w] \subseteq 1..revision
  /\ ~aborted => \A edit \in 1..revision : edit \in recorded \/ OnItsWay(edit)

\* A step that only moves the round, with at least the calls it had.
LEMMA EffectRound ==
  ASSUME PoolInv, EffectInv, NoTurn, calls \subseteq calls', UNCHANGED signal
  PROVE  EffectInv'
BY DEF EffectInv, OnItsWay, RunHas, ResultHas, NoTurn, edits, signal

\* A worker that begins a turn had nothing that was not on record.
LEMMA EffectBegin ==
  ASSUME PoolInv, EffectInv, NEW w \in Workers, Begin(w), calls' = calls, UNCHANGED signal,
         status[w] = "none" \/ calls = {}
  PROVE  EffectInv'
<1>1. /\ made' = [made EXCEPT ![w] = {}] /\ reported' = [reported EXCEPT ![w] = {}]
      /\ UNCHANGED <<revision, recorded, aborted>>
      /\ \A v \in Workers \ {w} : status'[v] = status[v]
  BY DEF Begin, signal, PoolInv, TypeOK
<1>2. \A v \in Workers : /\ made'[v] \in {made[v], {}} /\ reported'[v] \in {reported[v], {}}
                         /\ v # w => made'[v] = made[v] /\ reported'[v] = reported[v]
  BY <1>1 DEF PoolInv, TypeOK
<1>3. ASSUME NEW v \in calls, NEW edit, RunHas(v, edit) \/ ResultHas(v, edit)
      PROVE  RunHas(v, edit)' \/ ResultHas(v, edit)'
  <2>1. v \in Workers /\ v # w
    BY <1>3 DEF RunHas, ResultHas, PoolInv, TypeOK
  <2> QED
    BY <1>1, <1>2, <1>3, <2>1 DEF RunHas, ResultHas
<1> QED
  BY <1>1, <1>2, <1>3 DEF EffectInv, OnItsWay

\* An edit is the worker's whose run is under way.
LEMMA EffectEdit ==
  ASSUME PoolInv, EffectInv, NEW w \in Workers, Edit(w)
  PROVE  EffectInv'
<1>1. /\ status[w] = "running" /\ revision \in Nat /\ revision' = revision + 1
      /\ made' = [made EXCEPT ![w] = @ \cup {revision'}]
      /\ UNCHANGED <<calls, status, reported, recorded, aborted>>
  BY DEF Edit, Running, PoolInv, TypeOK, round, signal
<1>2. w \in calls
  BY <1>1 DEF PoolInv, CallInv, Busy
<1>3. 1..revision' = 1..revision \cup {revision'}
  BY <1>1
<1>4. \A v \in Workers : made'[v] = IF v = w THEN made[v] \cup {revision'} ELSE made[v]
  BY <1>1 DEF PoolInv, TypeOK
<1>5. ASSUME NEW edit, edit = revision' PROVE OnItsWay(edit)'
  <2>1. RunHas(w, edit)'
    BY <1>1, <1>4, <1>5 DEF RunHas
  <2> QED
    BY <1>1, <1>2, <2>1 DEF OnItsWay
<1>6. ASSUME NEW edit, OnItsWay(edit) PROVE OnItsWay(edit)'
  <2>1. PICK v \in calls : RunHas(v, edit) \/ ResultHas(v, edit)
    BY <1>6 DEF OnItsWay
  <2>2. v \in Workers
    BY DEF PoolInv, TypeOK
  <2> QED
    BY <1>1, <1>4, <2>1, <2>2 DEF OnItsWay, RunHas, ResultHas
<1>7. ~aborted => \A edit \in 1..revision' : edit \in recorded \/ OnItsWay(edit)'
  BY <1>3, <1>5, <1>6 DEF EffectInv
<1> QED
  BY <1>1, <1>3, <1>4, <1>7 DEF EffectInv

\* A turn that ends passes what its run made on, unless the task is aborted.
LEMMA EffectEnd ==
  ASSUME PoolInv, EffectInv, NEW w \in Workers, NEW outcome, End(w, outcome)
  PROVE  EffectInv'
<1>1. /\ status[w] = "running"
      /\ status' = [status EXCEPT ![w] = IF outcome = "completed" THEN "completed" ELSE "stopped"]
      /\ reported' = [reported EXCEPT ![w] = Reported(w, outcome)]
      /\ UNCHANGED <<calls, made, recorded, revision, aborted>>
  BY DEF End, round, signal
<1>2. /\ Reported(w, outcome) \subseteq made[w]
      /\ ~aborted => Reported(w, outcome) = made[w]
  BY DEF Reported
<1>3. \A v \in Workers : /\ reported'[v] = IF v = w THEN Reported(w, outcome) ELSE reported[v]
                         /\ v # w => status'[v] = status[v]
  BY <1>1 DEF PoolInv, TypeOK
<1>4. status'[w] \in {"completed", "stopped"}
  BY <1>1 DEF PoolInv, TypeOK
<1>5. ASSUME NEW edit, OnItsWay(edit), ~aborted PROVE OnItsWay(edit)'
  <2>1. PICK v \in calls : RunHas(v, edit) \/ ResultHas(v, edit)
    BY <1>5 DEF OnItsWay
  <2>2. v \in Workers
    BY DEF PoolInv, TypeOK
  <2>3. CASE v = w
    <3>1. edit \in made[w]
      BY <1>1, <2>1, <2>3 DEF RunHas, ResultHas
    <3>2. ResultHas(w, edit)'
      BY <1>2, <1>3, <1>4, <1>5, <3>1 DEF ResultHas
    <3> QED
      BY <1>1, <2>3, <3>2 DEF OnItsWay
  <2>4. CASE v # w
    BY <1>1, <1>3, <2>1, <2>2, <2>4 DEF OnItsWay, RunHas, ResultHas
  <2> QED
    BY <2>3, <2>4
<1> QED
  BY <1>1, <1>2, <1>3, <1>5 DEF EffectInv

\* The result of a call that is recorded leaves nothing behind with its worker.
LEMMA EffectRecord ==
  ASSUME PoolInv, EffectInv, NEW w \in Workers, Record(w)
  PROVE  EffectInv'
<1>1. /\ status[w] # "running" /\ calls' = calls \ {w}
      /\ recorded' = recorded \cup reported[w]
      /\ UNCHANGED <<status, revision, made, reported, aborted>>
  BY DEF Record, Settled, Busy, signal
<1>2. ASSUME NEW edit, OnItsWay(edit) PROVE edit \in recorded' \/ OnItsWay(edit)'
  <2>1. PICK v \in calls : RunHas(v, edit) \/ ResultHas(v, edit)
    BY <1>2 DEF OnItsWay
  <2> QED
    BY <1>1, <2>1 DEF OnItsWay, RunHas, ResultHas
<1> QED
  BY <1>1, <1>2 DEF EffectInv

\* A worker that is rejected while it waits has no run yet.
LEMMA EffectCancel ==
  ASSUME PoolInv, EffectInv, Cancel
  PROVE  EffectInv'
<1>1. /\ status' = [w \in Workers |-> IF w \in Queued THEN "stopped" ELSE status[w]]
      /\ aborted => aborted'
      /\ UNCHANGED <<calls, revision, made, reported, recorded>>
  BY DEF Cancel, Rejected, round, edits
<1>2. ASSUME NEW edit, OnItsWay(edit) PROVE OnItsWay(edit)'
  <2>1. PICK v \in calls : RunHas(v, edit) \/ ResultHas(v, edit)
    BY <1>2 DEF OnItsWay
  <2>2. v \in Workers /\ v \notin Queued
    BY <2>1 DEF PoolInv, TypeOK, Queued, RunHas, ResultHas
  <2> QED
    BY <1>1, <2>1, <2>2 DEF OnItsWay, RunHas, ResultHas
<1> QED
  BY <1>1, <1>2 DEF EffectInv

\* What is done to a worker without a run, and the grant of the lock, keep
\* every edit where it is.
LEMMA EffectIdle ==
  ASSUME PoolInv, EffectInv, UNCHANGED <<revision, made, recorded, aborted, calls>>,
         \A w \in Workers : reported'[w] \subseteq reported[w],
         \A w \in calls : /\ status[w] = "running" => status'[w] = "running"
                          /\ status[w] \in {"completed", "stopped"} =>
                               status'[w] = status[w] /\ reported'[w] = reported[w]
  PROVE  EffectInv'
<1>1. ASSUME NEW edit, OnItsWay(edit) PROVE OnItsWay(edit)'
  BY <1>1 DEF OnItsWay, RunHas, ResultHas
<1> QED
  BY <1>1 DEF EffectInv

\* Edits are on record or on their way to it, whatever becomes of the workers
\* that made them (runOne in agent/loop.js, executeWorkerTurn in runtime.js).
THEOREM EffectInvariant == Spec => []EffectInv
<1>1. Init => EffectInv
  <2> SUFFICES ASSUME Init PROVE EffectInv
    OBVIOUS
  <2>1. revision = 0 /\ recorded = {} /\ 1..revision = {}
    BY DEF Init
  <2> QED
    BY <2>1 DEF Init, EffectInv
<1>2. PoolInv /\ EffectInv /\ [Next]_vars => EffectInv'
  <2> SUFFICES ASSUME PoolInv, EffectInv, [Next]_vars PROVE EffectInv'
    OBVIOUS
  <2>1. ASSUME NEW batch \in Batches, Dispatch(batch) PROVE EffectInv'
    BY <2>1, EffectRound DEF Dispatch
  <2>2. ASSUME NEW w \in Workers, Send(w) PROVE EffectInv'
    <3>1. /\ calls = {} /\ calls' = {w} /\ status[w] # "none" /\ UNCHANGED signal
          /\ \A edit : ~OnItsWay(edit)
      BY <2>2 DEF Send, Created, PoolInv, CallInv, OnItsWay
    <3>2. /\ recorded' = recorded /\ revision' = revision /\ aborted' = aborted
          /\ \A v \in Workers : made'[v] \subseteq made[v] /\ reported'[v] \subseteq reported[v]
      BY <2>2 DEF Send, Begin, signal, PoolInv, TypeOK
    <3> QED
      BY <3>1, <3>2 DEF EffectInv
  <2>3. ASSUME NEW w \in Workers, Stop(w) PROVE EffectInv'
    <3>1. calls = {} /\ UNCHANGED <<round, edits, signal>>
      BY <2>3 DEF Stop, PoolInv, CallInv
    <3> QED
      BY <3>1, EffectIdle DEF round, edits, signal
  <2>4. ASSUME NEW w \in Workers, Start(w) PROVE EffectInv'
    <3>1. status[w] = "none" /\ calls' = calls /\ UNCHANGED signal
      BY <2>4 DEF Start, round
    <3>2. CASE Begin(w)
      BY <3>1, <3>2, EffectBegin
    <3>3. CASE status' = [status EXCEPT ![w] = "refused"] /\ UNCHANGED edits
      BY <3>1, <3>3, EffectIdle DEF edits, signal, PoolInv, TypeOK
    <3> QED
      BY <2>4, <3>2, <3>3 DEF Start
  <2>5. ASSUME NEW w \in Workers, Grant(w) PROVE EffectInv'
    BY <2>5, EffectIdle DEF Grant, Queued, round, edits, signal, PoolInv, TypeOK
  <2>6. ASSUME NEW w \in Workers, PassAbandoned(w) PROVE EffectInv'
    BY <2>6, EffectIdle DEF PassAbandoned, round, edits, signal
  <2>7. ASSUME NEW w \in Workers, Edit(w) \/ Ends(w) \/ Record(w) PROVE EffectInv'
    BY <2>7, EffectEdit, EffectEnd, EffectRecord DEF Ends
  <2>8. CASE Take \/ RoundOver \/ Finish
    BY <2>8, EffectRound DEF Take, RoundOver, Finish
  <2>9. CASE Cancel
    BY <2>9, EffectCancel
  <2>10. CASE UNCHANGED vars
    BY <2>10, EffectIdle DEF vars, round, edits, signal
  <2> QED
    BY <2>1, <2>2, <2>3, <2>4, <2>5, <2>6, <2>7, <2>8, <2>9, <2>10 DEF Next, WorkerStep
<1> QED
  BY <1>1, <1>2, PoolInvariant, PTL DEF Spec

\* Between rounds of a task that was not interrupted every edit is on record,
\* for any number of workers, rounds and failures (loop.js:422-435).
THEOREM EffectsAreRecorded == Spec => []EffectsRecorded
<1>1. PoolInv /\ EffectInv => EffectsRecorded
  BY DEF PoolInv, CallInv, EffectInv, OnItsWay, EffectsRecorded
<1> QED
  BY <1>1, PoolInvariant, EffectInvariant, PTL

-----------------------------------------------------------------------------
(***************************************************************************)
(* The promise chain implements the FIFO lock: places order the waiting    *)
(* writers as they asked, and whoever is served is the first of them.      *)
(***************************************************************************)
Asked == {pair \in Queued \X Queued : place[pair[1]] < place[pair[2]]}

\* A step that leaves the writers that wait, their places and the running one
\* is none of the lock.
LEMMA LockStutter ==
  ASSUME Queued' = Queued, Running' = Running, \A w \in Queued : place'[w] = place[w]
  PROVE  UNCHANGED WriterLock!lockVars
<1>1. Asked' = Asked
  BY DEF Asked
<1> QED
  BY <1>1 DEF WriterLock!lockVars, Asked

\* A writer that begins a turn asks for the lock, behind all that wait.
LEMMA LockRequest ==
  ASSUME PoolInv, NEW w \in Workers, Begin(w), status[w] \notin Busy
  PROVE  WriterLock!LockNext \/ UNCHANGED WriterLock!lockVars
<1>1. CASE w \in Writers
  <2>1. /\ Queued' = Queued \cup {w} /\ Running' = Running /\ w \notin Queued \cup Running
        /\ \A v \in Queued : place'[v] = place[v] /\ place'[v] < place'[w]
    BY <1>1, PoolAssumption DEF Begin, PoolInv, TypeOK, Queued, Running, Busy
  <2>2. place'[w] \in Int /\ \A v \in Queued : place[v] \in Int
    BY <1>1, PoolAssumption DEF Begin, PoolInv, TypeOK, Queued
  <2>3. Asked' = Asked \cup (Queued \X {w})
    BY <2>1, <2>2 DEF Asked
  <2>4. WriterLock!Request(w)
    BY <2>1, <2>3 DEF WriterLock!Request, Asked
  <2> QED
    BY <1>1, <2>4 DEF WriterLock!LockNext
<1>2. CASE w \notin Writers
  <2>1. Queued' = Queued /\ Running' = Running /\ place' = place
    BY <1>2, PoolAssumption DEF Begin, PoolInv, TypeOK, Queued, Running
  <2> QED
    BY <2>1, LockStutter
<1> QED
  BY <1>1, <1>2

\* Whose turn it is has asked before all others that wait.
LEMMA LockAcquire ==
  ASSUME PoolInv, NEW w \in Workers, Grant(w)
  PROVE  WriterLock!LockNext
<1>1. /\ w \in Queued /\ w \in Writers /\ place[w] = served + 1
      /\ Queued' = Queued \ {w} /\ Running' = Running \cup {w} /\ place' = place
  BY PoolAssumption DEF Grant, Queued, Running, MyTurn, PoolInv, TypeOK, lock
<1>2. Running = {}
  BY <1>1, PoolAssumption DEF Running, Queued, PoolInv, PlaceInv, Claims, Busy
<1>3. \A v \in Queued : ~(place[v] < place[w])
  BY <1>1, PoolAssumption DEF Queued, PoolInv, PlaceInv, TypeOK
<1>4. Asked' = {pair \in Asked : pair[1] \notin {w} /\ pair[2] \notin {w}}
  BY <1>1 DEF Asked
<1>5. WriterLock!Acquire(w)
  BY <1>1, <1>2, <1>3, <1>4 DEF WriterLock!Acquire, WriterLock!Leave, Asked
<1> QED
  BY <1>1, <1>5 DEF WriterLock!LockNext

\* Only a writer that ends its turn releases.
LEMMA LockRelease ==
  ASSUME PoolInv, NEW w \in Workers, NEW outcome, End(w, outcome)
  PROVE  WriterLock!LockNext \/ UNCHANGED WriterLock!lockVars
<1>1. /\ status[w] = "running" /\ place' = place
      /\ Queued' = Queued /\ Running' = Running \ {w}
  BY PoolAssumption DEF End, PoolInv, TypeOK, Queued, Running
<1>2. CASE w \in Writers
  <2>1. Running = {w}
    BY <1>1, <1>2 DEF Running, PoolInv, PlaceInv, Claims, Busy
  <2>2. Asked' = Asked
    BY <1>1 DEF Asked
  <2>3. WriterLock!Release
    BY <1>1, <2>1, <2>2 DEF WriterLock!Release, Asked
  <2> QED
    BY <2>3 DEF WriterLock!LockNext
<1>3. CASE w \notin Writers
  BY <1>1, <1>3, LockStutter DEF Running
<1> QED
  BY <1>2, <1>3

\* A cancelled task takes all that wait out.
LEMMA LockWithdraw ==
  ASSUME PoolInv, Cancel
  PROVE  WriterLock!LockNext \/ UNCHANGED WriterLock!lockVars
<1>1. Queued' = {} /\ Running' = Running /\ place' = place
  BY PoolAssumption DEF Cancel, Rejected, PoolInv, TypeOK, Queued, Running
<1>2. CASE Queued = {}
  BY <1>1, <1>2, LockStutter
<1>3. CASE Queued # {}
  <2>1. PICK given \in SUBSET Writers : given = Queued
    BY DEF Queued
  <2>2. Asked' = {pair \in Asked : pair[1] \notin given /\ pair[2] \notin given}
    BY <1>1, <2>1 DEF Asked
  <2>3. WriterLock!Withdraw(given)
    BY <1>1, <1>3, <2>1, <2>2 DEF WriterLock!Withdraw, WriterLock!Leave, Asked
  <2> QED
    BY <2>3 DEF WriterLock!LockNext
<1> QED
  BY <1>2, <1>3

\* The workspace lock is a first-come first-served lock for any number of
\* writers, although those that gave up keep their place (harness/mutex.js).
THEOREM LockImplemented == Spec => ImplementsLock
<1>1. Init => WriterLock!LockInit
  <2> SUFFICES ASSUME Init PROVE WriterLock!LockInit
    OBVIOUS
  <2>1. Queued = {} /\ Running = {}
    BY PoolAssumption DEF Init, Queued, Running
  <2> QED
    BY <2>1 DEF WriterLock!LockInit
<1>2. PoolInv /\ [Next]_vars => [WriterLock!LockNext]_WriterLock!lockVars
  <2> SUFFICES ASSUME PoolInv, [Next]_vars
               PROVE  WriterLock!LockNext \/ UNCHANGED WriterLock!lockVars
    OBVIOUS
  <2>1. ASSUME UNCHANGED <<status, place>> PROVE UNCHANGED WriterLock!lockVars
    BY <2>1, LockStutter DEF Queued, Running
  <2>2. CASE (\E batch \in Batches : Dispatch(batch)) \/ Take \/ RoundOver \/ Finish
    BY <2>1, <2>2 DEF Dispatch, Take, RoundOver, Finish, NoTurn, lock
  <2>3. ASSUME NEW w \in Workers, Edit(w) \/ Record(w) \/ PassAbandoned(w)
        PROVE  UNCHANGED WriterLock!lockVars
    BY <2>1, <2>3 DEF Edit, Record, PassAbandoned, lock
  <2>4. ASSUME NEW w \in Workers, Start(w)
        PROVE  WriterLock!LockNext \/ UNCHANGED WriterLock!lockVars
    <3>1. CASE Begin(w)
      BY <2>4, <3>1, LockRequest DEF Start, Busy
    <3>2. CASE status' = [status EXCEPT ![w] = "refused"] /\ UNCHANGED lock
      BY <2>4, <3>2, LockStutter DEF Start, Queued, Running, lock, PoolInv, TypeOK
    <3> QED
      BY <2>4, <3>1, <3>2 DEF Start
  <2>5. ASSUME NEW w \in Workers, Send(w)
        PROVE  WriterLock!LockNext \/ UNCHANGED WriterLock!lockVars
    <3>1. status[w] \notin Busy
      BY <2>5 DEF Send, PoolInv, CallInv
    <3>2. Begin(w) \/ UNCHANGED <<status, place>>
      BY <2>5 DEF Send, lock
    <3> QED
      BY <2>1, <3>1, <3>2, LockRequest
  <2>6. ASSUME NEW w \in Workers, Stop(w) PROVE UNCHANGED WriterLock!lockVars
    <3>1. status[w] \notin Busy /\ status' = [status EXCEPT ![w] = "stopped"] /\ place' = place
      BY <2>6 DEF Stop, PoolInv, CallInv, lock
    <3> QED
      BY <3>1, LockStutter, PoolAssumption DEF Queued, Running, Busy, PoolInv, TypeOK
  <2>7. ASSUME NEW w \in Workers, Grant(w) \/ Ends(w)
        PROVE  WriterLock!LockNext \/ UNCHANGED WriterLock!lockVars
    BY <2>7, LockAcquire, LockRelease DEF Ends
  <2>8. CASE Cancel
    BY <2>8, LockWithdraw
  <2>9. CASE UNCHANGED vars
    BY <2>1, <2>9 DEF vars, lock
  <2> QED
    BY <2>2, <2>3, <2>4, <2>5, <2>6, <2>7, <2>8, <2>9 DEF Next, WorkerStep
<1> QED
  BY <1>1, <1>2, PoolInvariant, PTL DEF Spec, ImplementsLock, WriterLock!LockSpec
=============================================================================
