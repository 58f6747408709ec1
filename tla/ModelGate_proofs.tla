--------------------------- MODULE ModelGate_proofs ---------------------------
(***************************************************************************)
(* Proofs about ModelGate, for any number of callers, any budget and any   *)
(* limits.  The inductive invariant says what the safety properties leave  *)
(* implicit: who is listed as a waiter, and where in the promise chain of  *)
(* the ledger every live call stands.                                      *)
(***************************************************************************)
EXTENDS ModelGate, SequenceTheorems, FiniteSetTheorems, TLAPS

\* The list w holds exactly the requests that p says are waiting, once each.
Listed(w, p) ==
  /\ {w[i] : i \in 1..Len(w)} = {r \in Requests : p[r] = "waiting"}
  /\ \A i, j \in 1..Len(w) : w[i] = w[j] => i = j

Live == {"queued"} \cup Executing
UsageBound == Larger(ResumedUsage, TokenBudget - 1 + MaxUsage)

\* Places are handed out once and served in order; the one call whose place is
\* next is the only one that may be past the chain, and while it is there the
\* ledger is below the budget.
ChainInv ==
  Limited =>
    /\ served < nextTicket /\ usage <= UsageBound
    /\ \A r \in Requests : pc[r] \in Live => ticket[r] < nextTicket
    /\ \A r \in Requests : pc[r] = "queued" => served < ticket[r]
    /\ \A r \in Requests : pc[r] \in Executing =>
          ticket[r] = served + 1 /\ usage < TokenBudget
    /\ \A r, q \in Requests :
          pc[r] \in Live /\ pc[q] \in Live /\ ticket[r] = ticket[q] => r = q

GateInv ==
  /\ TypeOK
  /\ active <= MaxConcurrent
  /\ WaitersAreWaiting
  /\ ChainInv

-----------------------------------------------------------------------------

\* pump() keeps the types, and only ever moves a listed waiter, to "admitted".
LEMMA PumpStep ==
  ASSUME NEW w \in Seq(Requests), NEW a \in 0..MaxConcurrent,
         NEW p \in [Requests -> Location], NEW cool \in Nat, NEW gap \in Nat,
         Listed(w, p), Pump(w, a, p, cool, gap)
  PROVE  /\ waiters' \in Seq(Requests) /\ active' \in 0..MaxConcurrent
         /\ pc' \in [Requests -> Location]
         /\ pause' \in Nat /\ pumpTimer' \in Nat \cup {NoTimer}
         /\ Listed(waiters', pc')
         /\ \A r \in Requests :
              \/ pc'[r] = p[r]
              \/ (p[r] = "waiting" /\ pc'[r] = "admitted")
<1> DEFINE n == Admissible(w, a, cool, gap)
           front == {w[i] : i \in 1..n}
<1>1. n \in 0..Len(w) /\ a + n \in 0..MaxConcurrent
  BY GateAssumption DEF Admissible, Larger, Smaller
<1>2. \A i \in 1..Len(w) : w[i] \in Requests /\ p[w[i]] = "waiting"
  BY DEF Listed
<1>3. /\ waiters' = SubSeq(w, n + 1, Len(w))
      /\ active' = a + n
      /\ pc' = [r \in Requests |-> IF r \in front THEN "admitted" ELSE p[r]]
      /\ pause' = IF n > 0 THEN MinInterval ELSE gap
      /\ \/ pumpTimer' = NoTimer
         \/ pumpTimer' = Larger(cool, IF n > 0 THEN MinInterval ELSE gap)
  BY DEF Pump, PumpDelay
<1> HIDE DEF n
<1>4. /\ waiters' \in Seq(Requests) /\ Len(waiters') = Len(w) - n
      /\ \A i \in 1..(Len(w) - n) : waiters'[i] = w[i + n]
  BY <1>1, <1>3
<1>5. pc' \in [Requests -> Location]
  BY <1>3 DEF Location, Executing, Holding
<1>6. pause' \in Nat /\ pumpTimer' \in Nat \cup {NoTimer}
  BY <1>3, <1>1, GateAssumption DEF Larger
<1>7. \A r \in Requests : pc'[r] = p[r] \/ (p[r] = "waiting" /\ pc'[r] = "admitted")
  BY <1>1, <1>2, <1>3
<1>8. Listed(waiters', pc')
  <2>1. \A i, j \in 1..Len(waiters') : waiters'[i] = waiters'[j] => i = j
    BY <1>1, <1>4 DEF Listed
  <2>2. ASSUME NEW i \in 1..Len(waiters')
        PROVE  waiters'[i] \in Requests /\ pc'[waiters'[i]] = "waiting"
    <3>1. waiters'[i] = w[i + n] /\ i + n \in 1..Len(w)
      BY <1>1, <1>4
    <3>2. w[i + n] \notin front
      BY <1>1, <3>1 DEF Listed
    <3> QED BY <1>2, <1>3, <3>1, <3>2
  <2>3. ASSUME NEW r \in Requests, pc'[r] = "waiting"
        PROVE  \E i \in 1..Len(waiters') : waiters'[i] = r
    <3>1. r \notin front /\ p[r] = "waiting"
      BY <1>3, <2>3
    <3>2. PICK k \in 1..Len(w) : w[k] = r
      BY <3>1 DEF Listed
    <3>3. k > n
      BY <3>1, <3>2, <1>1
    <3>4. k - n \in 1..Len(waiters') /\ waiters'[k - n] = r
      BY <3>2, <3>3, <1>1, <1>4
    <3> QED BY <3>4
  <2> QED BY <2>1, <2>2, <2>3 DEF Listed
<1> QED BY <1>1, <1>3, <1>4, <1>5, <1>6, <1>7, <1>8

\* What splice(k - 1, 1) leaves of a list.
LEMMA RemoveAtProperties ==
  ASSUME NEW S, NEW s \in Seq(S), NEW k \in 1..Len(s)
  PROVE  /\ RemoveAt(s, k) \in Seq(S) /\ Len(RemoveAt(s, k)) = Len(s) - 1
         /\ \A i \in 1..(Len(s) - 1) :
               RemoveAt(s, k)[i] = IF i < k THEN s[i] ELSE s[i + 1]
<1> DEFINE front == SubSeq(s, 1, k - 1)
           rest == SubSeq(s, k + 1, Len(s))
<1>1. /\ front \in Seq(S) /\ Len(front) = k - 1
      /\ \A i \in 1..(k - 1) : front[i] = s[i]
  BY SubSeqProperties, ElementOfSeq
<1>2. /\ rest \in Seq(S) /\ Len(rest) = Len(s) - k
      /\ \A i \in 1..(Len(s) - k) : rest[i] = s[i + k]
  BY SubSeqProperties, ElementOfSeq
<1>3. RemoveAt(s, k) = front \o rest
  BY DEF RemoveAt
<1> HIDE DEF front, rest
<1>4. /\ front \o rest \in Seq(S) /\ Len(front \o rest) = Len(front) + Len(rest)
      /\ \A i \in 1..(Len(front) + Len(rest)) :
            (front \o rest)[i] = IF i <= Len(front) THEN front[i] ELSE rest[i - Len(front)]
  BY <1>1, <1>2, ConcatProperties
<1>5. /\ front \o rest \in Seq(S) /\ Len(front \o rest) = Len(s) - 1
      /\ \A i \in 1..(Len(s) - 1) :
            (front \o rest)[i] = IF i <= k - 1 THEN front[i] ELSE rest[i - (k - 1)]
  BY <1>1, <1>2, <1>4
<1> QED BY <1>1, <1>2, <1>3, <1>5

\* An abort takes exactly its own request off the list.
LEMMA RemovalStep ==
  ASSUME NEW r \in Requests, TypeOK, WaitersAreWaiting, pc[r] = "waiting"
  PROVE  /\ WaitersWithout(r) \in Seq(Requests)
         /\ Listed(WaitersWithout(r), [pc EXCEPT ![r] = "aborted"])
<1> DEFINE k == CHOOSE i \in DOMAIN waiters : waiters[i] = r
           w == WaitersWithout(r)
           p == [pc EXCEPT ![r] = "aborted"]
<1>1. waiters \in Seq(Requests) /\ DOMAIN waiters = 1..Len(waiters)
  BY DEF TypeOK
<1>2. k \in 1..Len(waiters) /\ waiters[k] = r
  BY <1>1 DEF WaitersAreWaiting
<1>3. w = RemoveAt(waiters, k)
  BY DEF WaitersWithout
<1> HIDE DEF k, w
<1>4. /\ w \in Seq(Requests) /\ Len(w) = Len(waiters) - 1
      /\ \A i \in 1..(Len(waiters) - 1) :
            w[i] = IF i < k THEN waiters[i] ELSE waiters[i + 1]
  BY <1>1, <1>2, <1>3, RemoveAtProperties
<1>5. \A i, j \in 1..Len(w) : w[i] = w[j] => i = j
  BY SMTT(30), <1>1, <1>2, <1>4 DEF WaitersAreWaiting
<1>6. ASSUME NEW i \in 1..Len(w)
      PROVE  w[i] \in Requests /\ p[w[i]] = "waiting"
  <2>1. PICK j \in 1..Len(waiters) : w[i] = waiters[j] /\ j # k
    BY <1>2, <1>4
  <2>2. w[i] # r
    BY <2>1, <1>1, <1>2 DEF WaitersAreWaiting
  <2> QED BY <2>1, <2>2, <1>1 DEF WaitersAreWaiting, TypeOK
<1>7. ASSUME NEW q \in Requests, p[q] = "waiting"
      PROVE  \E i \in 1..Len(w) : w[i] = q
  <2>1. q # r /\ pc[q] = "waiting"
    BY <1>7 DEF TypeOK
  <2>2. PICK j \in 1..Len(waiters) : waiters[j] = q
    BY <2>1 DEF WaitersAreWaiting
  <2>3. j # k
    BY <2>1, <2>2, <1>2
  <2>4. CASE j < k
    BY <2>2, <2>4, <1>1, <1>2, <1>4
  <2>5. CASE j > k
    <3>1. j - 1 \in 1..Len(w) /\ w[j - 1] = q
      BY <2>2, <2>5, <1>1, <1>2, <1>4
    <3> QED BY <3>1
  <2> QED BY <2>3, <2>4, <2>5, <1>1, <1>2
<1> QED BY <1>4, <1>5, <1>6, <1>7 DEF Listed, w
-----------------------------------------------------------------------------
\* Steps as ChainInv sees them: no live call joins or moves along the chain
\* unless the step says so.
Within(Moved) ==
  \A r \in Requests \ Moved :
    \/ pc'[r] = pc[r]
    \/ pc'[r] \notin Live
    \/ pc[r] \in Executing /\ pc'[r] \in Executing

\* A step that leaves the ledger alone keeps ChainInv.
LEMMA ChainStays ==
  ASSUME TypeOK, ChainInv, Within({}), UNCHANGED <<chain, usage>>
  PROVE  ChainInv'
<1> SUFFICES ASSUME Limited PROVE ChainInv'
  BY DEF ChainInv, Limited
<1>1. \A r \in Requests : /\ pc'[r] \in Live => pc[r] \in Live
                          /\ pc'[r] = "queued" => pc[r] = "queued"
                          /\ pc'[r] \in Executing => pc[r] \in Executing
  BY DEF Within, Live, Executing, Holding
<1> QED BY <1>1 DEF ChainInv, chain, Limited, UsageBound

\* A call whose turn it is leaves: its successor's place is next.
LEMMA ChainLeaves ==
  ASSUME TypeOK, ChainInv, NEW r \in Requests, pc'[r] \notin Live, Within({r}),
         \/ pc[r] \in Executing /\ \E u \in 0..MaxUsage : usage' = usage + u
         \/ pc[r] = "queued" /\ MyTurn(r) /\ usage' = usage,
         PassChain(r)
  PROVE  ChainInv'
<1> SUFFICES ASSUME Limited PROVE ChainInv'
  BY DEF ChainInv, Limited
<1>1. \A q \in Requests : /\ pc'[q] \in Live => q # r /\ pc[q] \in Live
                          /\ pc'[q] = "queued" => pc[q] = "queued"
                          /\ pc'[q] \in Executing => pc[q] \in Executing
  BY DEF Within, Live, Executing, Holding
<1>2. /\ pc[r] \in Live /\ ticket[r] = served + 1
      /\ ticket' = ticket /\ nextTicket' = nextTicket /\ served' = served + 1
  BY DEF ChainInv, PassChain, MyTurn, Limited, Live
<1>3. usage' <= UsageBound
  BY GateAssumption DEF ChainInv, Limited, UsageBound, Larger, TypeOK
<1>4. \A q \in Requests : pc'[q] \notin Executing
  BY <1>1, <1>2 DEF ChainInv, Live
<1>5. \A q \in Requests : pc'[q] = "queued" => served' < ticket'[q]
  BY SMTT(30), <1>1, <1>2 DEF ChainInv, Live, TypeOK
<1> QED BY <1>1, <1>2, <1>3, <1>4, <1>5 DEF ChainInv, TypeOK, Limited, UsageBound

-----------------------------------------------------------------------------
\* What GateInv says of the limiter and of the requests' locations.
LimiterInv ==
  /\ pc \in [Requests -> Location]
  /\ waiters \in Seq(Requests) /\ active \in 0..MaxConcurrent
  /\ cooldown \in Nat /\ pause \in Nat /\ pumpTimer \in Nat \cup {NoTimer}
  /\ WaitersAreWaiting

\* What it says of the other variables' types.
LedgerTypes ==
  /\ aborted \subseteq Requests /\ emitted \subseteq Requests
  /\ ticket \in [Requests -> Nat] /\ nextTicket \in Nat /\ served \in Nat
  /\ usage \in Nat
  /\ attempts \in [Requests -> Nat]
  /\ backoff \in [Requests -> Nat] /\ owed \in [Requests -> Nat]

LEMMA GateParts ==
  /\ GateInv <=> LimiterInv /\ LedgerTypes /\ ChainInv
  /\ GateInv' <=> LimiterInv' /\ LedgerTypes' /\ ChainInv'
<1>1. GateInv <=> LimiterInv /\ LedgerTypes /\ ChainInv
  BY SMTT(30), GateAssumption DEF GateInv, LimiterInv, LedgerTypes, TypeOK
<1>2. GateInv' <=> LimiterInv' /\ LedgerTypes' /\ ChainInv'
  BY SMTT(30), GateAssumption DEF GateInv, LimiterInv, LedgerTypes, TypeOK
<1> QED BY <1>1, <1>2

\* Of the requests other than r, a step only admits some that were waiting.
AdmitsBeside(r) ==
  \A q \in Requests \ {r} :
    pc'[q] = pc[q] \/ (pc[q] = "waiting" /\ pc'[q] = "admitted")

\* release(): the slot's holder is gone, and others can only be admitted.
LEMMA SlotLeft ==
  ASSUME LimiterInv, NEW r \in Requests, pc[r] \in Holding,
         NEW outcome \in Settled, NEW cool \in Nat, LeaveSlot(r, outcome, cool)
  PROVE  LimiterInv' /\ Within({r}) /\ AdmitsBeside(r) /\ pc'[r] = outcome
<1> DEFINE p == [pc EXCEPT ![r] = outcome]
<1>1. p \in [Requests -> Location] /\ p[r] = outcome /\ outcome # "waiting"
  BY DEF LimiterInv, Location, Settled
<1>2. Listed(waiters, p)
  <2>1. \A q \in Requests : p[q] = "waiting" <=> pc[q] = "waiting"
    BY <1>1 DEF LimiterInv, Holding
  <2> QED BY <2>1 DEF Listed, LimiterInv, WaitersAreWaiting
<1>3. SlotsAfterRelease(active) \in 0..MaxConcurrent
  BY GateAssumption DEF LimiterInv, SlotsAfterRelease, Larger
<1>4. Pump(waiters, SlotsAfterRelease(active), p, cool, pause) /\ cooldown' = cool
  BY DEF LeaveSlot
<1> HIDE DEF p
<1>5. /\ waiters' \in Seq(Requests) /\ active' \in 0..MaxConcurrent
      /\ pc' \in [Requests -> Location]
      /\ pause' \in Nat /\ pumpTimer' \in Nat \cup {NoTimer}
      /\ Listed(waiters', pc')
      /\ \A q \in Requests : pc'[q] = p[q] \/ (p[q] = "waiting" /\ pc'[q] = "admitted")
  BY <1>1, <1>2, <1>3, <1>4, PumpStep DEF LimiterInv
<1>6. LimiterInv'
  BY <1>4, <1>5 DEF LimiterInv, Listed, WaitersAreWaiting
<1>7. \A q \in Requests \ {r} : p[q] = pc[q]
  BY DEF p, LimiterInv
<1> QED BY <1>1, <1>5, <1>6, <1>7 DEF Within, AdmitsBeside, Executing, Holding

\* A caller that joins the list is listed once.
LEMMA ListedAppend ==
  ASSUME LimiterInv, NEW r \in Requests, pc[r] \in {"idle", "queued"}
  PROVE  Listed(Append(waiters, r), [pc EXCEPT ![r] = "waiting"])
<1> DEFINE p == [pc EXCEPT ![r] = "waiting"]
           w == Append(waiters, r)
<1>1. p \in [Requests -> Location] /\ p[r] = "waiting"
  BY DEF LimiterInv, Location, Executing
<1>2. w \in Seq(Requests) /\ Len(w) = Len(waiters) + 1
      /\ \A i \in 1..Len(w) : w[i] = IF i <= Len(waiters) THEN waiters[i] ELSE r
  BY DEF LimiterInv
<1>3. Listed(w, p)
  <2>1. \A q \in Requests : p[q] = "waiting" <=> pc[q] = "waiting" \/ q = r
    BY DEF LimiterInv
  <2>2. \A i \in 1..Len(waiters) : waiters[i] # r
    BY DEF LimiterInv, WaitersAreWaiting
  <2>3. \A i, j \in 1..Len(w) : w[i] = w[j] => i = j
    BY <1>2, <2>2 DEF LimiterInv, WaitersAreWaiting
  <2>4. ASSUME NEW i \in 1..Len(w) PROVE w[i] \in Requests /\ p[w[i]] = "waiting"
    BY <1>2, <2>1 DEF LimiterInv, WaitersAreWaiting
  <2>5. ASSUME NEW q \in Requests, p[q] = "waiting"
        PROVE  \E i \in 1..Len(w) : w[i] = q
    <3>1. CASE q = r
      <4>1. Len(w) \in 1..Len(w) /\ w[Len(w)] = r
        BY <1>2 DEF LimiterInv
      <4> QED BY <3>1, <4>1
    <3>2. CASE q # r
      <4>1. PICK i \in 1..Len(waiters) : waiters[i] = q
        BY <2>1, <2>5, <3>2 DEF LimiterInv, WaitersAreWaiting
      <4>2. i \in 1..Len(w) /\ w[i] = q
        BY <4>1, <1>2 DEF LimiterInv
      <4> QED BY <4>2
    <3> QED BY <3>1, <3>2
  <2> HIDE DEF w, p
  <2> QED BY <2>3, <2>4, <2>5 DEF Listed
<1> QED BY <1>3

\* acquire(): the caller is listed, and may be admitted at once.
LEMMA Entered ==
  ASSUME LimiterInv, NEW r \in Requests, pc[r] \in {"idle", "queued"}, Enter(r)
  PROVE  LimiterInv' /\ Within({r}) /\ AdmitsBeside(r) /\ pc'[r] \in {"waiting", "admitted"}
<1> DEFINE p == [pc EXCEPT ![r] = "waiting"]
           w == Append(waiters, r)
<1>1. p \in [Requests -> Location] /\ p[r] = "waiting"
  BY DEF LimiterInv, Location, Executing
<1>2. w \in Seq(Requests) /\ Len(w) = Len(waiters) + 1
      /\ \A i \in 1..Len(w) : w[i] = IF i <= Len(waiters) THEN waiters[i] ELSE r
  BY DEF LimiterInv
<1>3. Listed(w, p)
  BY ListedAppend
<1>4. Pump(w, active, p, cooldown, pause) /\ cooldown' = cooldown
  BY DEF Enter
<1> HIDE DEF w, p
<1>5. /\ waiters' \in Seq(Requests) /\ active' \in 0..MaxConcurrent
      /\ pc' \in [Requests -> Location]
      /\ pause' \in Nat /\ pumpTimer' \in Nat \cup {NoTimer}
      /\ Listed(waiters', pc')
      /\ \A q \in Requests : pc'[q] = p[q] \/ (p[q] = "waiting" /\ pc'[q] = "admitted")
  BY <1>1, <1>2, <1>3, <1>4, PumpStep DEF LimiterInv
<1>6. LimiterInv'
  BY <1>4, <1>5 DEF LimiterInv, Listed, WaitersAreWaiting
<1>7. \A q \in Requests \ {r} : p[q] = pc[q]
  BY DEF p, LimiterInv
<1> QED BY <1>1, <1>5, <1>6, <1>7 DEF Within, AdmitsBeside, Executing, Holding

-----------------------------------------------------------------------------
\* One lemma per action: GateInv holds after it.

LEMMA IssueStep ==
  ASSUME GateInv, NEW r \in Requests, Issue(r)
  PROVE  GateInv'
<1>1. LimiterInv /\ LedgerTypes /\ ChainInv
  BY GateParts
<1>2. CASE Limited
  <2>1. /\ pc[r] = "idle" /\ pc' = [pc EXCEPT ![r] = "queued"]
        /\ ticket' = [ticket EXCEPT ![r] = nextTicket] /\ nextTicket' = nextTicket + 1
        /\ UNCHANGED <<served, limiter, aborted, usage, retry>>
    BY <1>2 DEF Issue
  <2>2. LimiterInv'
    <3>1. pc' \in [Requests -> Location]
      BY <1>1, <2>1 DEF LimiterInv, Location
    <3>2. \A q \in Requests : pc'[q] = "waiting" <=> pc[q] = "waiting"
      BY <1>1, <2>1 DEF LimiterInv
    <3> QED BY <1>1, <2>1, <3>1, <3>2 DEF LimiterInv, limiter, WaitersAreWaiting
  <2>3. LedgerTypes'
    BY <1>1, <2>1 DEF LedgerTypes, retry
  <2>4. \A q \in Requests : q # r => pc'[q] = pc[q] /\ ticket'[q] = ticket[q]
    BY <1>1, <2>1 DEF LimiterInv, LedgerTypes
  <2>5. pc'[r] = "queued" /\ ticket'[r] = nextTicket /\ "queued" \notin Executing
    BY <1>1, <2>1 DEF LimiterInv, LedgerTypes, Executing, Holding
  <2>6. ChainInv'
    BY <1>1, <1>2, <2>1, <2>4, <2>5 DEF ChainInv, LedgerTypes, Live, Limited, UsageBound
  <2> QED BY <2>2, <2>3, <2>6, GateParts
<1>3. CASE ~Limited
  <2>1. pc[r] = "idle" /\ UNCHANGED <<chain, aborted, usage, retry>>
    BY <1>3 DEF Issue
  <2>2. LedgerTypes' /\ ChainInv'
    BY <1>1, <1>3, <2>1 DEF LedgerTypes, ChainInv, Limited, chain, retry
  <2>3. LimiterInv'
    <3>1. CASE r \in aborted
      <4>1. pc' = [pc EXCEPT ![r] = "aborted"] /\ UNCHANGED limiter
        BY <1>3, <3>1 DEF Issue, Refuse
      <4>2. /\ pc' \in [Requests -> Location]
            /\ \A q \in Requests : pc'[q] = "waiting" <=> pc[q] = "waiting"
        BY <1>1, <2>1, <4>1 DEF LimiterInv, Location, Settled
      <4> QED BY <1>1, <4>1, <4>2 DEF LimiterInv, limiter, WaitersAreWaiting
    <3>2. CASE r \notin aborted
      BY <1>1, <1>3, <2>1, <3>2, Entered DEF Issue
    <3> QED BY <3>1, <3>2
  <2> QED BY <2>2, <2>3, GateParts
<1> QED BY <1>2, <1>3

LEMMA ExecuteStep ==
  ASSUME GateInv, NEW r \in Requests, Execute(r)
  PROVE  GateInv'
<1>1. LimiterInv /\ LedgerTypes /\ ChainInv
  BY GateParts
<1>2. pc[r] = "queued" /\ MyTurn(r) /\ UNCHANGED <<aborted, usage, retry>>
  BY DEF Execute
<1>3. ASSUME NEW outcome \in Settled, Refuse(r, outcome), PassChain(r)
      PROVE  GateInv'
  <2>1. /\ pc' \in [Requests -> Location] /\ pc'[r] = outcome
        /\ \A q \in Requests \ {r} : pc'[q] = pc[q]
        /\ outcome # "waiting" /\ outcome \notin Live
    BY <1>1, <1>3 DEF LimiterInv, Refuse, Location, Settled, Live, Executing, Holding
  <2>2. \A q \in Requests : pc'[q] = "waiting" <=> pc[q] = "waiting"
    BY <1>2, <2>1
  <2>3. LimiterInv'
    BY <1>1, <1>3, <2>1, <2>2 DEF LimiterInv, limiter, WaitersAreWaiting, Refuse
  <2>4. LedgerTypes'
    BY <1>1, <1>2, <1>3 DEF LedgerTypes, retry, PassChain
  <2>5. ChainInv'
    <3>1. Within({r}) /\ pc'[r] \notin Live /\ TypeOK /\ usage' = usage
      BY <1>2, <2>1 DEF Within, GateInv
    <3> QED BY <1>1, <1>2, <1>3, <3>1, ChainLeaves
  <2> QED BY <2>3, <2>4, <2>5, GateParts
<1>4. ASSUME MayStart(r), Enter(r), UNCHANGED chain
      PROVE  GateInv'
  <2>1. LimiterInv' /\ Within({r}) /\ pc'[r] \in {"waiting", "admitted"}
    BY <1>1, <1>2, <1>4, Entered
  <2>2. LedgerTypes'
    BY <1>1, <1>2, <1>4 DEF LedgerTypes, retry, chain
  <2>3. ChainInv'
    <3> SUFFICES ASSUME Limited PROVE ChainInv'
      BY DEF ChainInv, Limited
    <3>1. usage < TokenBudget /\ ticket[r] = served + 1
      BY <1>1, <1>2, <1>4, GateAssumption DEF MayStart, Stopped, MyTurn, LedgerTypes, GateInv, TypeOK
    <3>2. \A q \in Requests : pc[q] \in Executing => q = r
      BY <1>1, <1>2, <3>1 DEF ChainInv, Live
    <3>3. \A q \in Requests \ {r} : /\ pc'[q] \in Live => pc[q] \in Live
                                    /\ pc'[q] = "queued" => pc[q] = "queued"
                                    /\ pc'[q] \notin Executing
      BY <2>1, <3>2 DEF Within, Live, Executing, Holding
    <3>4. pc[r] \in Live /\ pc'[r] # "queued"
      BY <1>2, <2>1 DEF Live
    <3>5. /\ ticket' = ticket /\ nextTicket' = nextTicket /\ served' = served
          /\ usage' = usage
      BY <1>2, <1>4 DEF chain
    <3>6. /\ served < nextTicket /\ usage <= UsageBound
          /\ \A q \in Requests : pc[q] \in Live => ticket[q] < nextTicket
          /\ \A q \in Requests : pc[q] = "queued" => served < ticket[q]
          /\ \A q, s \in Requests :
                pc[q] \in Live /\ pc[s] \in Live /\ ticket[q] = ticket[s] => q = s
      BY <1>1 DEF ChainInv
    <3>7. \A q \in Requests : /\ pc'[q] \in Live => pc[q] \in Live
                              /\ pc'[q] = "queued" => pc[q] = "queued"
                              /\ pc'[q] \in Executing => q = r
      BY <3>3, <3>4
    <3> QED BY <3>1, <3>5, <3>6, <3>7 DEF ChainInv, UsageBound
  <2> QED BY <2>1, <2>2, <2>3, GateParts
<1> QED BY <1>3, <1>4 DEF Execute, Settled

LEMMA PumpTimerStep ==
  ASSUME GateInv, PumpTimerFires
  PROVE  GateInv'
<1>1. LimiterInv /\ LedgerTypes /\ ChainInv
  BY GateParts
<1>2. /\ waiters' \in Seq(Requests) /\ active' \in 0..MaxConcurrent
      /\ pc' \in [Requests -> Location]
      /\ pause' \in Nat /\ pumpTimer' \in Nat \cup {NoTimer}
      /\ Listed(waiters', pc')
      /\ \A q \in Requests : pc'[q] = pc[q] \/ (pc[q] = "waiting" /\ pc'[q] = "admitted")
  <2>1. Listed(waiters, pc) /\ Pump(waiters, active, pc, cooldown, pause)
    BY <1>1 DEF LimiterInv, Listed, WaitersAreWaiting, PumpTimerFires
  <2> QED BY <1>1, <2>1, PumpStep DEF LimiterInv
<1>3. LimiterInv'
  BY <1>1, <1>2 DEF LimiterInv, Listed, WaitersAreWaiting, PumpTimerFires
<1>4. LedgerTypes'
  BY <1>1 DEF LedgerTypes, PumpTimerFires, chain, retry
<1>5. Within({}) /\ TypeOK
  BY <1>2 DEF Within, Executing, Holding, GateInv
<1> QED BY <1>1, <1>3, <1>4, <1>5, ChainStays, GateParts DEF PumpTimerFires

\* The steps of one request that touch neither the limiter nor the ledger.
LEMMA QuietStep ==
  ASSUME GateInv, NEW r \in Requests,
         \/ StartAttempt(r) \/ Stream(r) \/ BackoffEnds(r)
  PROVE  GateInv'
<1>1. LimiterInv /\ LedgerTypes /\ ChainInv
  BY GateParts
<1>2. /\ pc' \in [Requests -> Location]
      /\ \A q \in Requests : \/ pc'[q] = pc[q]
                             \/ pc[q] \in Holding /\ pc'[q] \in Holding
  BY <1>1 DEF StartAttempt, Stream, BackoffEnds, LimiterInv, Location, Executing, Holding
<1>3. UNCHANGED <<chain, usage, limiter, aborted>>
  BY DEF StartAttempt, Stream, BackoffEnds
<1>4. \A q \in Requests : pc'[q] = "waiting" <=> pc[q] = "waiting"
  BY <1>2 DEF Holding
<1>5. LimiterInv'
  BY <1>1, <1>2, <1>3, <1>4 DEF LimiterInv, limiter, WaitersAreWaiting
<1>6. LedgerTypes'
  BY <1>1 DEF LedgerTypes, StartAttempt, Stream, BackoffEnds, chain, retry, limiter
<1>7. Within({}) /\ TypeOK
  BY <1>2 DEF Within, Executing, GateInv
<1> QED BY <1>1, <1>3, <1>5, <1>6, <1>7, ChainStays, GateParts

LEMMA FinishStep ==
  ASSUME GateInv, NEW r \in Requests, NEW u \in 0..MaxUsage, Finish(r, u)
  PROVE  GateInv'
<1>1. LimiterInv /\ LedgerTypes /\ ChainInv
  BY GateParts
<1>2. PICK outcome \in {"done", "failed"} : LeaveSlot(r, outcome, cooldown)
  BY DEF Finish
<1>3. LimiterInv' /\ Within({r}) /\ pc'[r] = outcome
  BY <1>1, <1>2, SlotLeft DEF Finish, Holding, Settled, LimiterInv
<1>4. usage' = usage + u /\ PassChain(r) /\ UNCHANGED <<aborted, retry>>
  BY DEF Finish, Recorded
<1>5. LedgerTypes'
  BY <1>1, <1>4, GateAssumption DEF LedgerTypes, PassChain, retry
<1>6. pc[r] \in Executing /\ pc'[r] \notin Live /\ TypeOK
  BY <1>3 DEF Finish, Executing, Holding, Live, GateInv
<1> QED BY <1>1, <1>3, <1>4, <1>5, <1>6, ChainLeaves, GateParts

LEMMA AttemptFailsStep ==
  ASSUME GateInv, NEW r \in Requests, NEW transient \in BOOLEAN,
         NEW wait \in Waits, NEW cool \in Nat, AttemptFails(r, transient, wait, cool),
         owed' \in [Requests -> Nat]
  PROVE  GateInv'
<1>1. LimiterInv /\ LedgerTypes /\ ChainInv /\ TypeOK
  BY GateParts DEF GateInv
<1>2. pc[r] = "sending" /\ UNCHANGED <<aborted, usage, attempts, emitted>>
  BY DEF AttemptFails
<1>3. CASE transient /\ Repeatable(r)
  <2>1. /\ pc' = [pc EXCEPT ![r] = "backoff"] /\ backoff' = [backoff EXCEPT ![r] = wait]
        /\ cooldown' = cool /\ UNCHANGED <<chain, active, waiters, pause, pumpTimer>>
    BY <1>3 DEF AttemptFails
  <2>2. /\ pc' \in [Requests -> Location]
        /\ \A q \in Requests : pc'[q] = "waiting" <=> pc[q] = "waiting"
        /\ Within({})
    BY <1>1, <1>2, <2>1 DEF LimiterInv, Location, Executing, Holding, Within
  <2>3. LimiterInv'
    BY <1>1, <2>1, <2>2 DEF LimiterInv, WaitersAreWaiting
  <2>4. LedgerTypes'
    BY <1>1, <1>2, <2>1, GateAssumption DEF LedgerTypes, chain, Waits
  <2> QED BY <1>1, <1>2, <2>1, <2>2, <2>3, <2>4, ChainStays, GateParts
<1>4. CASE ~(transient /\ Repeatable(r))
  <2>1. PICK outcome \in {"aborted", "failed"} :
           LeaveSlot(r, outcome, cool) /\ PassChain(r) /\ UNCHANGED backoff
    BY <1>4 DEF AttemptFails
  <2>2. LimiterInv' /\ Within({r}) /\ pc'[r] = outcome
    BY <1>1, <1>2, <2>1, SlotLeft DEF Holding, Settled
  <2>3. LedgerTypes'
    BY <1>1, <1>2, <2>1 DEF LedgerTypes, PassChain
  <2>4. pc[r] \in Executing /\ pc'[r] \notin Live
    BY <1>2, <2>2 DEF Executing, Holding, Live
  <2>5. \E u \in 0..MaxUsage : usage' = usage + u
    <3>1. 0 \in 0..MaxUsage /\ usage' = usage + 0
      BY <1>1, <1>2, GateAssumption DEF LedgerTypes
    <3> QED BY <3>1
  <2> QED BY <1>1, <2>1, <2>2, <2>3, <2>4, <2>5, ChainLeaves, GateParts
<1> QED BY <1>3, <1>4

LEMMA AnswerStep ==
  ASSUME GateInv, NEW r \in Requests, Answer(r)
  PROVE  GateInv'
<1>1. LedgerTypes /\ cooldown \in Nat
  BY GateParts DEF LimiterInv
<1>2. ASSUME NEW wait \in Waits, FailTransient(r, wait)
      PROVE  GateInv'
  BY <1>1, <1>2, AttemptFailsStep DEF FailTransient, LedgerTypes
<1>3. ASSUME NEW transient \in BOOLEAN, NEW wait \in Waits, NEW told \in Waits,
             FailRateLimited(r, transient, wait, told)
      PROVE  GateInv'
  <2>1. NotedCooldown(told) \in Nat /\ owed' \in [Requests -> Nat]
    BY <1>1, <1>3, GateAssumption
       DEF NotedCooldown, Larger, Waits, FailRateLimited, LedgerTypes
  <2> QED BY <1>3, <2>1, AttemptFailsStep DEF FailRateLimited
<1> QED BY <1>2, <1>3, FinishStep DEF Answer

LEMMA AbortStep ==
  ASSUME GateInv, NEW r \in Requests, Abort(r)
  PROVE  GateInv'
<1>1. LimiterInv /\ LedgerTypes /\ ChainInv /\ TypeOK
  BY GateParts DEF GateInv
<1>2. aborted' = aborted \cup {r} /\ UNCHANGED <<usage, retry>>
  BY DEF Abort
<1>3. \E u \in 0..MaxUsage : usage' = usage + u
  <2>1. 0 \in 0..MaxUsage /\ usage' = usage + 0
    BY <1>1, <1>2, GateAssumption DEF LedgerTypes
  <2> QED BY <2>1
<1>4. CASE pc[r] = "waiting"
  <2> DEFINE p == [pc EXCEPT ![r] = "aborted"]
  <2>1. Pump(WaitersWithout(r), active, p, cooldown, pause)
        /\ PassChain(r) /\ cooldown' = cooldown
    BY <1>4 DEF Abort
  <2>2. WaitersWithout(r) \in Seq(Requests) /\ Listed(WaitersWithout(r), p)
    BY <1>1, <1>4, RemovalStep DEF LimiterInv
  <2>3. p \in [Requests -> Location] /\ p[r] = "aborted"
    BY <1>1 DEF LimiterInv, Location, Settled
  <2> HIDE DEF p
  <2>4. /\ waiters' \in Seq(Requests) /\ active' \in 0..MaxConcurrent
        /\ pc' \in [Requests -> Location]
        /\ pause' \in Nat /\ pumpTimer' \in Nat \cup {NoTimer}
        /\ Listed(waiters', pc')
        /\ \A q \in Requests : pc'[q] = p[q] \/ (p[q] = "waiting" /\ pc'[q] = "admitted")
    BY <1>1, <2>1, <2>2, <2>3, PumpStep DEF LimiterInv
  <2>5. LimiterInv'
    BY <1>1, <2>1, <2>4 DEF LimiterInv, Listed, WaitersAreWaiting
  <2>6. \A q \in Requests \ {r} : p[q] = pc[q]
    BY <1>1 DEF p, LimiterInv
  <2>7. Within({r}) /\ pc'[r] = "aborted"
    BY <2>3, <2>4, <2>6 DEF Within, Executing, Holding
  <2>8. LedgerTypes'
    BY <1>1, <1>2, <2>1 DEF LedgerTypes, PassChain, retry
  <2>9. pc[r] \in Executing /\ pc'[r] \notin Live
    BY <1>4, <2>7 DEF Executing, Holding, Live
  <2> QED BY <1>1, <1>3, <2>1, <2>5, <2>7, <2>8, <2>9, ChainLeaves, GateParts
<1>5. CASE pc[r] \in {"admitted", "backoff"}
  <2>1. LeaveSlot(r, "aborted", cooldown) /\ PassChain(r)
    BY <1>5 DEF Abort
  <2>2. LimiterInv' /\ Within({r}) /\ pc'[r] = "aborted"
    BY <1>1, <1>5, <2>1, SlotLeft DEF Holding, Settled, LimiterInv
  <2>3. LedgerTypes'
    BY <1>1, <1>2, <2>1 DEF LedgerTypes, PassChain, retry
  <2>4. pc[r] \in Executing /\ pc'[r] \notin Live
    BY <1>5, <2>2 DEF Executing, Holding, Live
  <2> QED BY <1>1, <1>3, <2>1, <2>2, <2>3, <2>4, ChainLeaves, GateParts
<1>6. CASE pc[r] \in {"idle", "queued", "sending"}
  <2>1. UNCHANGED <<pc, chain, limiter>>
    BY <1>6 DEF Abort
  <2>2. LimiterInv'
    BY <1>1, <2>1 DEF LimiterInv, limiter, WaitersAreWaiting
  <2>3. LedgerTypes'
    BY <1>1, <1>2, <2>1 DEF LedgerTypes, chain, retry
  <2>4. ChainInv'
    BY <1>1, <1>2, <2>1 DEF ChainInv, chain, Limited, UsageBound
  <2> QED BY <2>2, <2>3, <2>4, GateParts
<1> QED BY <1>4, <1>5, <1>6 DEF Abort

LEMMA TickStep ==
  ASSUME GateInv, Tick
  PROVE  GateInv'
<1>1. LimiterInv /\ LedgerTypes /\ ChainInv
  BY GateParts
<1>2. \A t \in Nat \cup {NoTimer} : /\ Elapsed(t) \in Nat \cup {NoTimer}
                                    /\ t \in Nat => Elapsed(t) \in Nat
  BY DEF Elapsed, NoTimer
<1>3. LimiterInv'
  <2>1. cooldown' \in Nat /\ pause' \in Nat /\ pumpTimer' \in Nat \cup {NoTimer}
    BY <1>1, <1>2 DEF LimiterInv, Tick
  <2>2. UNCHANGED <<pc, waiters, active>>
    BY DEF Tick
  <2> QED BY <1>1, <2>1, <2>2 DEF LimiterInv, WaitersAreWaiting
<1>4. LedgerTypes'
  BY <1>1, <1>2 DEF LedgerTypes, Tick, chain
<1>5. ChainInv'
  BY <1>1 DEF ChainInv, Tick, chain, Limited, UsageBound
<1> QED BY <1>3, <1>4, <1>5, GateParts

-----------------------------------------------------------------------------

LEMMA GateInit == Init => GateInv
<1> SUFFICES ASSUME Init PROVE GateInv
  OBVIOUS
<1>1. LimiterInv
  BY GateAssumption
     DEF Init, LimiterInv, Location, WaitersAreWaiting, NoTimer
<1>2. LedgerTypes
  BY GateAssumption DEF Init, LedgerTypes
<1>3. ChainInv
  BY GateAssumption DEF Init, ChainInv, Live, Executing, Holding, UsageBound, Larger
<1> QED BY <1>1, <1>2, <1>3, GateParts

LEMMA GateNext == GateInv /\ [Next]_vars => GateInv'
<1> SUFFICES ASSUME GateInv, [Next]_vars PROVE GateInv'
  OBVIOUS
<1>1. ASSUME NEW r \in Requests, Issue(r) PROVE GateInv'
  BY <1>1, IssueStep
<1>2. ASSUME NEW r \in Requests, Step(r) PROVE GateInv'
  BY <1>2, ExecuteStep, QuietStep DEF Step
<1>3. ASSUME NEW r \in Requests, Stream(r) PROVE GateInv'
  BY <1>3, QuietStep
<1>4. ASSUME NEW r \in Requests, Answer(r) PROVE GateInv'
  BY <1>4, AnswerStep
<1>5. ASSUME NEW r \in Requests, Abort(r) PROVE GateInv'
  BY <1>5, AbortStep
<1>6. CASE PumpTimerFires
  BY <1>6, PumpTimerStep
<1>7. CASE Tick
  BY <1>7, TickStep
<1>8. CASE UNCHANGED vars
  <2>1. LimiterInv /\ LedgerTypes /\ ChainInv
    BY GateParts
  <2>2. LimiterInv'
    BY <1>8, <2>1 DEF LimiterInv, vars, limiter, WaitersAreWaiting
  <2>3. LedgerTypes'
    BY <1>8, <2>1 DEF LedgerTypes, vars, chain, retry
  <2>4. ChainInv'
    BY <1>8, <2>1 DEF ChainInv, vars, chain, Limited, UsageBound
  <2> QED BY <2>2, <2>3, <2>4, GateParts
<1> QED BY <1>1, <1>2, <1>3, <1>4, <1>5, <1>6, <1>7, <1>8 DEF Next

\* The inductive invariant holds in every reachable state.
THEOREM GateInvariant == Spec => []GateInv
BY GateInit, GateNext, PTL DEF Spec

\* Every variable keeps its type (all of budget.js, rateLimiter.js and retry.js).
THEOREM TypeCorrect == Spec => []TypeOK
<1>1. GateInv => TypeOK
  BY DEF GateInv
<1> QED BY <1>1, GateInvariant, PTL

\* The limiter's waiter list and the callers' own state always agree, for any
\* number of callers (rateLimiter.js acquire, onAbort and pump).
THEOREM WaitersCorrect == Spec => []WaitersAreWaiting
<1>1. GateInv => WaitersAreWaiting
  BY DEF GateInv
<1> QED BY <1>1, GateInvariant, PTL

\* The requests that hold a slot where p says the requests are.
HoldersIn(p) == {r \in Requests : p[r] \in Holding}

\* The holders are finitely many, since slots are taken one by one, and the
\* limiter counts them; with NoStrandedWaiter this is inductive.
SlotInv ==
  /\ IsFiniteSet(HoldersIn(pc)) /\ active = Cardinality(HoldersIn(pc))
  /\ NoStrandedWaiter

\* The first n of a list without repetitions are n elements.
LEMMA FrontCount ==
  ASSUME NEW S, NEW w \in Seq(S), NEW n \in 0..Len(w),
         \A i, j \in 1..Len(w) : w[i] = w[j] => i = j
  PROVE  /\ IsFiniteSet({w[i] : i \in 1..n})
         /\ Cardinality({w[i] : i \in 1..n}) = n
<1> DEFINE T == {w[i] : i \in 1..n}
           f == [i \in 1..n |-> w[i]]
<1>1. IsFiniteSet(1..n) /\ Cardinality(1..n) = n
  BY FS_Interval
<1>2. f \in Bijection(1..n, T)
  <2>1. f \in [1..n -> T]
    OBVIOUS
  <2>2. \A i, j \in 1..n : f[i] = f[j] => i = j
    OBVIOUS
  <2>3. \A t \in T : \E i \in 1..n : f[i] = t
    OBVIOUS
  <2> HIDE DEF f, T
  <2> QED BY <2>1, <2>2, <2>3 DEF Bijection, Injection, Surjection, IsInjective
<1>3. ExistsBijection(1..n, T)
  BY <1>2 DEF ExistsBijection
<1> QED BY <1>1, <1>3, FS_Bijection

\* pump() counts those it admits, and leaves a waiter at a free slot only with
\* the timer armed.
LEMMA PumpSlots ==
  ASSUME NEW w \in Seq(Requests), NEW a \in 0..MaxConcurrent,
         NEW p \in [Requests -> Location], NEW cool \in Nat, NEW gap \in Nat,
         Listed(w, p), Pump(w, a, p, cool, gap), cooldown' = cool,
         IsFiniteSet(HoldersIn(p)), a = Cardinality(HoldersIn(p))
  PROVE  SlotInv'
<1> DEFINE n == Admissible(w, a, cool, gap)
           front == {w[i] : i \in 1..n}
<1>1. n \in 0..Len(w) /\ a + n \in 0..MaxConcurrent
  BY GateAssumption DEF Admissible, Larger, Smaller
<1>2. /\ waiters' = SubSeq(w, n + 1, Len(w))
      /\ active' = a + n
      /\ pc' = [r \in Requests |-> IF r \in front THEN "admitted" ELSE p[r]]
      /\ pause' = IF n > 0 THEN MinInterval ELSE gap
      /\ pumpTimer' = IF waiters' = <<>> \/ a + n >= MaxConcurrent THEN NoTimer
                      ELSE Larger(cool, pause')
  BY DEF Pump, PumpDelay
<1> HIDE DEF n
<1>3. IsFiniteSet(front) /\ Cardinality(front) = n
  <2>1. \A i, j \in 1..Len(w) : w[i] = w[j] => i = j
    BY DEF Listed
  <2>2. n \in 0..Len(w)
    BY <1>1
  <2>3. \A m \in 0..Len(w) : /\ IsFiniteSet({w[i] : i \in 1..m})
                              /\ Cardinality({w[i] : i \in 1..m}) = m
    <3> TAKE m \in 0..Len(w)
    <3> QED BY <2>1, FrontCount
  <2> QED BY <2>2, <2>3
<1>4. \A r \in front : r \in Requests /\ p[r] = "waiting"
  BY <1>1 DEF Listed
<1> HIDE DEF front
<1>5. HoldersIn(pc') = HoldersIn(p) \cup front
  <2>1. \A r \in Requests : pc'[r] \in Holding <=> (r \in front \/ p[r] \in Holding)
    BY <1>2 DEF Holding
  <2> QED BY <2>1, <1>4 DEF HoldersIn
<1>6. HoldersIn(p) \cap front = {}
  BY <1>4 DEF HoldersIn, Holding
<1>7. /\ IsFiniteSet(HoldersIn(pc'))
      /\ Cardinality(HoldersIn(pc')) = Cardinality(HoldersIn(p)) + Cardinality(front)
  <2>1. Cardinality(HoldersIn(p) \cap front) = 0
    BY <1>6, FS_EmptySet
  <2>2. Cardinality(HoldersIn(p)) \in Nat /\ Cardinality(front) \in Nat
    BY <1>3, FS_CardinalityType
  <2>3. /\ IsFiniteSet(HoldersIn(p) \cup front)
        /\ Cardinality(HoldersIn(p) \cup front) =
             Cardinality(HoldersIn(p)) + Cardinality(front) - Cardinality(HoldersIn(p) \cap front)
    BY <1>3, FS_Union
  <2> QED BY <1>5, <2>1, <2>2, <2>3
<1>8. NoStrandedWaiter'
  <2>1. pause' \in Nat
    BY <1>2, GateAssumption
  <2>2. ASSUME waiters' # <<>>, active' < MaxConcurrent
        PROVE  pumpTimer' = Larger(cooldown', pause')
    BY <1>1, <1>2, <2>2, GateAssumption
  <2> QED BY <2>1, <2>2 DEF NoStrandedWaiter, Larger
<1> QED BY <1>2, <1>3, <1>7, <1>8 DEF SlotInv

\* A step that takes and frees no slot and lets no time pass.
LEMMA SlotsStay ==
  ASSUME SlotInv, UNCHANGED <<active, waiters, pause, pumpTimer>>,
         cooldown \in Nat, cooldown' \in Nat, pause \in Nat, cooldown' >= cooldown,
         \A r \in Requests : pc'[r] \in Holding <=> pc[r] \in Holding
  PROVE  SlotInv'
<1>1. HoldersIn(pc') = HoldersIn(pc)
  BY DEF HoldersIn
<1>2. NoStrandedWaiter'
  BY DEF SlotInv, NoStrandedWaiter, Larger
<1> QED BY <1>1, <1>2 DEF SlotInv

LEMMA LeaveKeepsSlots ==
  ASSUME LimiterInv, SlotInv, NEW r \in Requests, pc[r] \in Holding,
         NEW outcome \in Settled, NEW cool \in Nat, LeaveSlot(r, outcome, cool)
  PROVE  SlotInv'
<1> DEFINE p == [pc EXCEPT ![r] = outcome]
<1>1. p \in [Requests -> Location] /\ p[r] = outcome
  BY DEF LimiterInv, Location, Settled
<1>2. \A q \in Requests : /\ p[q] = "waiting" <=> pc[q] = "waiting"
                          /\ p[q] \in Holding <=> (pc[q] \in Holding /\ q # r)
  BY <1>1 DEF LimiterInv, Holding, Settled
<1> HIDE DEF p
<1>3. Listed(waiters, p)
  BY <1>2 DEF Listed, LimiterInv, WaitersAreWaiting
<1>4. HoldersIn(p) = HoldersIn(pc) \ {r} /\ r \in HoldersIn(pc)
  BY <1>2 DEF HoldersIn
<1>5. IsFiniteSet(HoldersIn(p)) /\ Cardinality(HoldersIn(p)) = active - 1
  BY <1>4, FS_RemoveElement DEF SlotInv
<1>6. active - 1 \in Nat
  BY <1>5, FS_CardinalityType
<1>7. SlotsAfterRelease(active) = Cardinality(HoldersIn(p))
      /\ SlotsAfterRelease(active) \in 0..MaxConcurrent
  BY <1>5, <1>6, GateAssumption DEF SlotsAfterRelease, Larger, LimiterInv
<1>8. Pump(waiters, SlotsAfterRelease(active), p, cool, pause) /\ cooldown' = cool
  BY DEF LeaveSlot, p
<1> QED BY <1>1, <1>3, <1>5, <1>7, <1>8, PumpSlots DEF LimiterInv

\* Pumping for the same holders, with a list that p agrees with.
LEMMA PumpKeepsSlots ==
  ASSUME LimiterInv, SlotInv, NEW w \in Seq(Requests), NEW p \in [Requests -> Location],
         Listed(w, p), \A r \in Requests : p[r] \in Holding <=> pc[r] \in Holding,
         Pump(w, active, p, cooldown, pause), cooldown' = cooldown
  PROVE  SlotInv'
<1>1. HoldersIn(p) = HoldersIn(pc)
  BY DEF HoldersIn
<1> QED BY <1>1, PumpSlots DEF SlotInv, LimiterInv

LEMMA EnterKeepsSlots ==
  ASSUME LimiterInv, SlotInv, NEW r \in Requests, pc[r] \in {"idle", "queued"}, Enter(r)
  PROVE  SlotInv'
<1> DEFINE p == [pc EXCEPT ![r] = "waiting"]
           w == Append(waiters, r)
<1>1. p \in [Requests -> Location] /\ w \in Seq(Requests)
  BY DEF LimiterInv, Location, Executing
<1>2. Listed(w, p)
  BY ListedAppend
<1>3. \A q \in Requests : p[q] \in Holding <=> pc[q] \in Holding
  BY DEF LimiterInv, Holding
<1>4. Pump(w, active, p, cooldown, pause) /\ cooldown' = cooldown
  BY DEF Enter
<1> QED BY <1>1, <1>2, <1>3, <1>4, PumpKeepsSlots

LEMMA RefuseKeepsSlots ==
  ASSUME LimiterInv, SlotInv, NEW r \in Requests, pc[r] \in {"idle", "queued"},
         NEW outcome \in Settled \cup {"queued"}, pc' = [pc EXCEPT ![r] = outcome],
         UNCHANGED limiter
  PROVE  SlotInv'
<1>1. \A q \in Requests : pc'[q] \in Holding <=> pc[q] \in Holding
  BY DEF LimiterInv, Holding, Settled
<1> QED BY <1>1, SlotsStay DEF limiter, LimiterInv

LEMMA AnswerKeepsSlots ==
  ASSUME LimiterInv, SlotInv, NEW r \in Requests, Answer(r)
  PROVE  SlotInv'
<1>1. cooldown \in Nat
  BY DEF LimiterInv
<1>2. ASSUME NEW u \in 0..MaxUsage, Finish(r, u) PROVE SlotInv'
  <2>1. PICK outcome \in {"done", "failed"} : LeaveSlot(r, outcome, cooldown)
    BY <1>2 DEF Finish
  <2>2. pc[r] \in Holding /\ outcome \in Settled
    BY <1>2 DEF Finish, Holding, Settled
  <2> QED BY <1>1, <2>1, <2>2, LeaveKeepsSlots
<1>3. ASSUME NEW transient \in BOOLEAN, NEW wait \in Waits, NEW cool \in Nat,
             cool >= cooldown, AttemptFails(r, transient, wait, cool)
      PROVE  SlotInv'
  <2>1. pc[r] = "sending" /\ pc[r] \in Holding
    BY <1>3 DEF AttemptFails, Holding
  <2>2. CASE transient /\ Repeatable(r)
    <3>1. /\ pc' = [pc EXCEPT ![r] = "backoff"] /\ cooldown' = cool
          /\ UNCHANGED <<active, waiters, pause, pumpTimer>>
      BY <1>3, <2>2 DEF AttemptFails
    <3>2. \A q \in Requests : pc'[q] \in Holding <=> pc[q] \in Holding
      BY <2>1, <3>1 DEF LimiterInv, Holding
    <3> QED BY <1>3, <3>1, <3>2, SlotsStay DEF LimiterInv
  <2>3. CASE ~(transient /\ Repeatable(r))
    <3>1. \E outcome \in Settled : LeaveSlot(r, outcome, cool)
      BY <1>3, <2>3 DEF AttemptFails, Settled
    <3> QED BY <1>3, <2>1, <3>1, LeaveKeepsSlots
  <2> QED BY <2>2, <2>3
<1>4. ASSUME NEW wait \in Waits, FailTransient(r, wait) PROVE SlotInv'
  <2>1. AttemptFails(r, TRUE, wait, cooldown)
    BY <1>4 DEF FailTransient
  <2>2. cooldown >= cooldown
    BY <1>1
  <2> QED BY <1>1, <1>3, <2>1, <2>2
<1>5. ASSUME NEW transient \in BOOLEAN, NEW wait \in Waits, NEW told \in Waits,
             FailRateLimited(r, transient, wait, told)
      PROVE  SlotInv'
  <2>1. NotedCooldown(told) \in Nat /\ NotedCooldown(told) >= cooldown
    BY <1>1, GateAssumption DEF NotedCooldown, Larger, Waits
  <2> QED BY <1>3, <1>5, <2>1 DEF FailRateLimited
<1> QED BY <1>2, <1>4, <1>5 DEF Answer

LEMMA AbortKeepsSlots ==
  ASSUME TypeOK, LimiterInv, SlotInv, NEW r \in Requests, Abort(r)
  PROVE  SlotInv'
<1>1. CASE /\ pc[r] = "waiting"
           /\ Pump(WaitersWithout(r), active, [pc EXCEPT ![r] = "aborted"], cooldown, pause)
           /\ UNCHANGED cooldown
  <2> DEFINE p == [pc EXCEPT ![r] = "aborted"]
  <2>1. WaitersWithout(r) \in Seq(Requests) /\ Listed(WaitersWithout(r), p)
    BY <1>1, RemovalStep DEF LimiterInv
  <2>2. p \in [Requests -> Location]
    BY DEF LimiterInv, Location, Settled
  <2>3. \A q \in Requests : p[q] \in Holding <=> pc[q] \in Holding
    BY <1>1 DEF LimiterInv, Holding
  <2> QED BY <1>1, <2>1, <2>2, <2>3, PumpKeepsSlots
<1>2. CASE pc[r] \in {"admitted", "backoff"} /\ LeaveSlot(r, "aborted", cooldown)
  BY <1>2, LeaveKeepsSlots DEF LimiterInv, Holding, Settled
<1>3. CASE UNCHANGED <<pc, limiter>>
  BY <1>3, SlotsStay DEF LimiterInv, limiter
<1> QED BY <1>1, <1>2, <1>3 DEF Abort

LEMMA TickKeepsSlots ==
  ASSUME LimiterInv, SlotInv, Tick
  PROVE  SlotInv'
<1>1. /\ pc' = pc /\ active' = active /\ waiters' = waiters
      /\ cooldown' = Elapsed(cooldown) /\ pause' = Elapsed(pause)
      /\ pumpTimer' = Elapsed(pumpTimer)
  BY DEF Tick
<1>2. NoStrandedWaiter'
  BY <1>1 DEF LimiterInv, SlotInv, NoStrandedWaiter, Elapsed, Larger, NoTimer
<1> QED BY <1>1, <1>2 DEF SlotInv, HoldersIn

LEMMA SlotNext == GateInv /\ SlotInv /\ [Next]_vars => SlotInv'
<1> SUFFICES ASSUME GateInv, SlotInv, [Next]_vars PROVE SlotInv'
  OBVIOUS
<1>1. LimiterInv /\ TypeOK
  BY GateParts DEF GateInv
<1>2. ASSUME NEW r \in Requests, Issue(r) PROVE SlotInv'
  <2>1. pc[r] = "idle"
    BY <1>2 DEF Issue
  <2>2. \/ pc' = [pc EXCEPT ![r] = "queued"] /\ UNCHANGED limiter
        \/ Refuse(r, "aborted")
        \/ Enter(r)
    BY <1>2 DEF Issue
  <2> QED BY <1>1, <2>1, <2>2, EnterKeepsSlots, RefuseKeepsSlots DEF Refuse, Settled
<1>3. ASSUME NEW r \in Requests, Execute(r) PROVE SlotInv'
  <2>1. pc[r] = "queued" /\ (Refuse(r, "stopped") \/ Refuse(r, "aborted") \/ Enter(r))
    BY <1>3 DEF Execute
  <2> QED BY <1>1, <2>1, EnterKeepsSlots, RefuseKeepsSlots DEF Refuse, Settled
<1>4. ASSUME NEW r \in Requests, StartAttempt(r) \/ BackoffEnds(r) \/ Stream(r)
      PROVE  SlotInv'
  <2>1. \A q \in Requests : pc'[q] \in Holding <=> pc[q] \in Holding
    BY <1>1, <1>4 DEF LimiterInv, Holding, StartAttempt, BackoffEnds, Stream
  <2>2. UNCHANGED limiter
    BY <1>4 DEF StartAttempt, BackoffEnds, Stream
  <2> QED BY <1>1, <2>1, <2>2, SlotsStay DEF LimiterInv, limiter
<1>5. ASSUME NEW r \in Requests, Answer(r) PROVE SlotInv'
  BY <1>1, <1>5, AnswerKeepsSlots
<1>6. ASSUME NEW r \in Requests, Abort(r) PROVE SlotInv'
  BY <1>1, <1>6, AbortKeepsSlots
<1>7. CASE PumpTimerFires
  <2>1. Pump(waiters, active, pc, cooldown, pause) /\ cooldown' = cooldown
    BY <1>7 DEF PumpTimerFires
  <2> QED BY <1>1, <2>1, PumpKeepsSlots DEF LimiterInv, Listed, WaitersAreWaiting
<1>8. CASE Tick
  BY <1>1, <1>8, TickKeepsSlots
<1>9. CASE UNCHANGED vars
  BY <1>1, <1>9, SlotsStay DEF LimiterInv, vars, limiter
<1> QED BY <1>2, <1>3, <1>4, <1>5, <1>6, <1>7, <1>8, <1>9 DEF Next, Step

\* The slots that are counted are those that are held, and no waiter is left at
\* a free slot without a pump to come, for any number of callers and slots.
THEOREM SlotsCorrect == Spec => [](SlotAccounting /\ NoStrandedWaiter)
<1>1. Init => SlotInv
  <2> SUFFICES ASSUME Init PROVE SlotInv
    OBVIOUS
  <2>1. HoldersIn(pc) = {}
    BY DEF Init, HoldersIn, Holding
  <2> QED BY <2>1, FS_EmptySet DEF SlotInv, NoStrandedWaiter, Init
<1>2. GateInv /\ SlotInv => SlotAccounting /\ NoStrandedWaiter
  BY DEF GateInv, SlotInv, SlotAccounting, HoldersIn
<1> QED BY <1>1, <1>2, GateInvariant, SlotNext, PTL DEF Spec

-----------------------------------------------------------------------------
\* With a budget, one call at most is past the promise chain (budget.js run).
THEOREM Serialized == Spec => []OneInFlight
<1>1. GateInv => OneInFlight
  BY DEF GateInv, ChainInv, OneInFlight, Live
<1> QED BY <1>1, GateInvariant, PTL

\* The usage passes the budget by at most one reply (budget.js:3-5), however
\* many callers share the ledger.
THEOREM Overshoot == Spec => []OvershootBounded
<1>1. GateInv => OvershootBounded
  BY DEF GateInv, ChainInv, OvershootBounded, UsageBound
<1> QED BY <1>1, GateInvariant, PTL

-----------------------------------------------------------------------------
\* A request sends only through StartAttempt; pump() admits but never sends.
LEMMA PumpNeverSends ==
  ASSUME NEW w, NEW a, NEW p \in [Requests -> Location], NEW cool, NEW gap,
         Pump(w, a, p, cool, gap), NEW r \in Requests, pc'[r] = "sending"
  PROVE  p[r] = "sending"
BY DEF Pump

LEMMA OnlyStartAttempt ==
  ASSUME TypeOK, Next, NEW r \in Requests, Starts(r)
  PROVE  StartAttempt(r)
<1>1. pc \in [Requests -> Location] /\ pc[r] # "sending" /\ pc'[r] = "sending"
  BY DEF TypeOK, Starts
<1>2. ASSUME NEW q \in Requests, NEW outcome \in Settled \cup {"waiting"}
      PROVE  /\ [pc EXCEPT ![q] = outcome] \in [Requests -> Location]
             /\ [pc EXCEPT ![q] = outcome][r] # "sending"
  BY <1>1 DEF Location, Executing, Settled
<1>3. ASSUME NEW q \in Requests, NEW outcome \in Settled, NEW cool,
             LeaveSlot(q, outcome, cool)
      PROVE  FALSE
  BY <1>1, <1>2, <1>3, PumpNeverSends DEF LeaveSlot
<1>4. ASSUME NEW q \in Requests, Enter(q) PROVE FALSE
  BY <1>1, <1>2, <1>4, PumpNeverSends DEF Enter
<1>5. ASSUME NEW q \in Requests, NEW outcome \in Settled, Refuse(q, outcome)
      PROVE  FALSE
  BY <1>1, <1>2, <1>5 DEF Refuse
<1>6. ~PumpTimerFires /\ ~Tick
  BY <1>1, PumpNeverSends DEF PumpTimerFires, Tick
<1>7. ASSUME NEW q \in Requests, Issue(q) PROVE FALSE
  BY <1>1, <1>4, <1>5, <1>7 DEF Issue, Settled
<1>8. ASSUME NEW q \in Requests, Step(q) PROVE q = r /\ StartAttempt(q)
  BY <1>1, <1>4, <1>5, <1>8 DEF Step, Execute, BackoffEnds, StartAttempt, Settled
<1>9. ASSUME NEW q \in Requests, NEW transient, NEW wait, NEW cool,
             AttemptFails(q, transient, wait, cool)
      PROVE  FALSE
  BY <1>1, <1>3, <1>9 DEF AttemptFails, Settled
<1>10. ASSUME NEW q \in Requests, Answer(q) PROVE FALSE
  BY <1>3, <1>9, <1>10 DEF Answer, Finish, FailTransient, FailRateLimited, Settled
<1>11. ASSUME NEW q \in Requests, Stream(q) PROVE FALSE
  BY <1>1, <1>11 DEF Stream
<1>12. ASSUME NEW q \in Requests, Abort(q) PROVE FALSE
  <2>1. CASE pc[q] = "waiting"
    BY <1>1, <1>2, <1>12, <2>1, PumpNeverSends DEF Abort, Settled
  <2>2. CASE pc[q] # "waiting"
    BY <1>1, <1>3, <1>12, <2>2 DEF Abort, Settled
  <2> QED BY <2>1, <2>2
<1> QED BY <1>6, <1>7, <1>8, <1>10, <1>11, <1>12 DEF Next

\* No attempt, first or repeated, starts once the ledger has reached the budget.
THEOREM NothingOverBudget == Spec => NoAttemptOverBudget
<1>1. GateInv /\ [Next]_vars => [Stopped => \A r \in Requests : ~Starts(r)]_vars
  <2> SUFFICES ASSUME GateInv, Next, Stopped, NEW r \in Requests, Starts(r)
               PROVE  FALSE
    OBVIOUS
  <2>1. pc[r] \in Executing
    BY OnlyStartAttempt DEF GateInv, StartAttempt, Executing, Holding
  <2> QED BY <2>1, GateAssumption DEF GateInv, ChainInv, Stopped, Limited, TypeOK
<1> QED BY <1>1, GateInvariant, PTL DEF Spec, NoAttemptOverBudget

-----------------------------------------------------------------------------
\* What the cooldown and the retry rule rest on: the cooldown covers every
\* Retry-After still running, and a request that has streamed output is in
\* that same attempt or over.
RetryInv ==
  /\ \A q \in Requests : owed[q] <= cooldown
  /\ \A q \in emitted : pc[q] \in Settled \cup {"sending"}

\* The steps that leave cooldown, Retry-After and output alone.
LEMMA RetryKept ==
  ASSUME GateInv, RetryInv, NEW r \in Requests, AdmitsBeside(r),
         pc'[r] \in Settled \/ r \notin emitted,
         cooldown' = cooldown, owed' = owed, emitted' = emitted
  PROVE  RetryInv'
<1>1. \A q \in emitted : q \in Requests
  BY DEF GateInv, TypeOK
<1> QED BY <1>1 DEF RetryInv, AdmitsBeside, Settled

LEMMA RetryFails ==
  ASSUME GateInv, RetryInv, NEW r \in Requests, NEW transient \in BOOLEAN,
         NEW wait \in Waits, NEW cool \in Nat, AttemptFails(r, transient, wait, cool),
         \A q \in Requests : owed'[q] <= cool
  PROVE  RetryInv'
<1>1. LimiterInv /\ emitted \subseteq Requests
  BY GateParts DEF LedgerTypes
<1>2. pc[r] = "sending" /\ emitted' = emitted /\ cooldown' = cool
  BY DEF AttemptFails, LeaveSlot
<1>3. CASE transient /\ Repeatable(r)
  BY <1>1, <1>2, <1>3 DEF AttemptFails, RetryInv, Repeatable, LimiterInv
<1>4. CASE ~(transient /\ Repeatable(r))
  <2>1. PICK outcome \in {"aborted", "failed"} : LeaveSlot(r, outcome, cool)
    BY <1>4 DEF AttemptFails
  <2>2. AdmitsBeside(r) /\ pc'[r] \in Settled
    BY <1>1, <1>2, <2>1, SlotLeft DEF Holding, Settled
  <2> QED BY <1>1, <1>2, <2>2 DEF RetryInv, AdmitsBeside, Settled
<1> QED BY <1>3, <1>4

LEMMA RetryNext == GateInv /\ RetryInv /\ [Next]_vars => RetryInv'
<1> SUFFICES ASSUME GateInv, RetryInv, [Next]_vars PROVE RetryInv'
  OBVIOUS
<1>1. LimiterInv /\ LedgerTypes
  BY GateParts
<1>2. \A q \in emitted : q \in Requests
  BY <1>1 DEF LedgerTypes
<1>3. ASSUME NEW r \in Requests, Issue(r) PROVE RetryInv'
  <2>1. /\ pc[r] = "idle" /\ r \notin emitted
        /\ cooldown' = cooldown /\ owed' = owed /\ emitted' = emitted
    BY <1>3 DEF Issue, Enter, Refuse, limiter, retry, RetryInv, Settled
  <2>2. AdmitsBeside(r)
    BY <1>1, <1>3, <2>1, Entered DEF Issue, Refuse, AdmitsBeside, LimiterInv
  <2> QED BY <2>1, <2>2, RetryKept
<1>4. ASSUME NEW r \in Requests, Execute(r) PROVE RetryInv'
  <2>1. /\ pc[r] = "queued" /\ r \notin emitted
        /\ cooldown' = cooldown /\ owed' = owed /\ emitted' = emitted
    BY <1>4 DEF Execute, Enter, Refuse, limiter, retry, RetryInv, Settled
  <2>2. AdmitsBeside(r)
    BY <1>1, <1>4, <2>1, Entered DEF Execute, Refuse, AdmitsBeside, LimiterInv
  <2> QED BY <2>1, <2>2, RetryKept
<1>5. ASSUME NEW r \in Requests, StartAttempt(r) \/ BackoffEnds(r) PROVE RetryInv'
  BY <1>1, <1>2, <1>5
     DEF StartAttempt, BackoffEnds, RetryInv, Settled, LimiterInv, limiter, retry
<1>6. ASSUME NEW r \in Requests, Stream(r) PROVE RetryInv'
  BY <1>1, <1>2, <1>6 DEF Stream, RetryInv, LimiterInv, limiter
<1>7. ASSUME NEW r \in Requests, Answer(r) PROVE RetryInv'
  <2>1. ASSUME NEW u \in 0..MaxUsage, Finish(r, u) PROVE RetryInv'
    <3>1. PICK outcome \in {"done", "failed"} : LeaveSlot(r, outcome, cooldown)
      BY <2>1 DEF Finish
    <3>2. pc'[r] \in Settled /\ AdmitsBeside(r)
      BY <1>1, <2>1, <3>1, SlotLeft DEF Finish, Holding, Settled, LimiterInv
    <3>3. cooldown' = cooldown /\ owed' = owed /\ emitted' = emitted
      BY <2>1, <3>1 DEF Finish, LeaveSlot, retry
    <3> QED BY <3>2, <3>3, RetryKept
  <2>2. ASSUME NEW wait \in Waits, FailTransient(r, wait) PROVE RetryInv'
    BY <1>1, <2>2, RetryFails DEF FailTransient, LimiterInv, RetryInv
  <2>3. ASSUME NEW transient \in BOOLEAN, NEW wait \in Waits, NEW told \in Waits,
               FailRateLimited(r, transient, wait, told)
        PROVE  RetryInv'
    <3>1. /\ NotedCooldown(told) \in Nat
          /\ \A q \in Requests : owed'[q] <= NotedCooldown(told)
      BY <1>1, <2>3, GateAssumption DEF FailRateLimited, NotedCooldown, Larger, Waits,
         LimiterInv, LedgerTypes, RetryInv
    <3> QED BY <2>3, <3>1, RetryFails DEF FailRateLimited
  <2> QED BY <1>7, <2>1, <2>2, <2>3 DEF Answer
<1>8. ASSUME NEW r \in Requests, Abort(r) PROVE RetryInv'
  <2>1. cooldown' = cooldown /\ owed' = owed /\ emitted' = emitted
    BY <1>8 DEF Abort, LeaveSlot, limiter, retry
  <2>2. CASE pc[r] = "waiting"
    <3>1. Pump(WaitersWithout(r), active, [pc EXCEPT ![r] = "aborted"], cooldown, pause)
      BY <1>8, <2>2 DEF Abort
    <3>2. /\ WaitersWithout(r) \in Seq(Requests)
          /\ Listed(WaitersWithout(r), [pc EXCEPT ![r] = "aborted"])
      BY <1>1, <2>2, RemovalStep DEF LimiterInv, GateInv
    <3>3. [pc EXCEPT ![r] = "aborted"] \in [Requests -> Location]
      BY <1>1 DEF LimiterInv, Location, Settled
    <3>4. \A q \in Requests :
             LET p == [pc EXCEPT ![r] = "aborted"]
             IN pc'[q] = p[q] \/ (p[q] = "waiting" /\ pc'[q] = "admitted")
      BY <1>1, <3>1, <3>2, <3>3, PumpStep DEF LimiterInv
    <3>5. AdmitsBeside(r) /\ r \notin emitted
      BY <1>1, <2>2, <3>4 DEF AdmitsBeside, LimiterInv, RetryInv, Settled
    <3> QED BY <2>1, <3>5, RetryKept
  <2>3. CASE pc[r] \in {"admitted", "backoff"}
    <3>1. LeaveSlot(r, "aborted", cooldown)
      BY <1>8, <2>3 DEF Abort
    <3>2. AdmitsBeside(r) /\ pc'[r] \in Settled
      BY <1>1, <2>3, <3>1, SlotLeft DEF Holding, Settled, LimiterInv
    <3> QED BY <2>1, <3>2, RetryKept
  <2>4. CASE pc[r] \in {"idle", "queued", "sending"}
    BY <1>8, <2>1, <2>4 DEF Abort, RetryInv
  <2> QED BY <1>8, <2>2, <2>3, <2>4 DEF Abort
<1>9. CASE PumpTimerFires
  <2>1. Listed(waiters, pc)
    BY <1>1 DEF LimiterInv, Listed, WaitersAreWaiting
  <2>2. \A q \in Requests : pc'[q] = pc[q] \/ (pc[q] = "waiting" /\ pc'[q] = "admitted")
    BY <1>1, <1>9, <2>1, PumpStep DEF PumpTimerFires, LimiterInv
  <2> QED BY <1>2, <1>9, <2>2 DEF PumpTimerFires, RetryInv, retry, Settled
<1>10. CASE Tick
  <2>1. \A t, c \in Nat : t <= c => Elapsed(t) <= Elapsed(c)
    BY DEF Elapsed
  <2> QED BY <1>1, <1>10, <2>1 DEF Tick, RetryInv, LimiterInv, LedgerTypes
<1>11. CASE UNCHANGED vars
  BY <1>11 DEF vars, limiter, retry, RetryInv
<1> QED BY <1>3, <1>4, <1>5, <1>6, <1>7, <1>8, <1>9, <1>10, <1>11 DEF Next, Step

THEOREM RetryInvariant == Spec => []RetryInv
<1>1. Init => RetryInv
  BY DEF Init, RetryInv
<1> QED BY <1>1, GateInvariant, RetryNext, PTL DEF Spec

\* A Retry-After told to one caller holds for all (rateLimiter.js
\* noteRateLimit, waitForCooldown), for any number of callers and any waits.
THEOREM CooldownShared == Spec => SharedCooldown
<1>1. GateInv /\ RetryInv /\ [Next]_vars =>
        [\A r, q \in Requests : Starts(r) => owed[q] = 0]_vars
  <2> SUFFICES ASSUME GateInv, RetryInv, Next,
                      NEW r \in Requests, NEW q \in Requests, Starts(r)
               PROVE  owed[q] = 0
    OBVIOUS
  <2>1. cooldown = 0
    BY OnlyStartAttempt DEF GateInv, StartAttempt
  <2> QED BY <2>1 DEF RetryInv, GateInv, TypeOK
<1> QED BY <1>1, GateInvariant, RetryInvariant, PTL DEF Spec, SharedCooldown

\* An attempt that streamed output is never repeated (retry.js:15-16).
THEOREM OutputNotRepeated == Spec => NoRepeatAfterOutput
<1>1. GateInv /\ RetryInv /\ [Next]_vars =>
        [\A r \in Requests : r \in emitted => ~Starts(r)]_vars
  <2> SUFFICES ASSUME GateInv, RetryInv, Next,
                      NEW r \in Requests, r \in emitted, Starts(r)
               PROVE  FALSE
    OBVIOUS
  <2>1. pc[r] = "admitted"
    BY OnlyStartAttempt DEF GateInv, StartAttempt
  <2> QED BY <2>1 DEF RetryInv, Settled
<1> QED BY <1>1, GateInvariant, RetryInvariant, PTL DEF Spec, NoRepeatAfterOutput
\* What the callers of a task share holds together, for any number of callers,
\* slots and attempts and any waits (rateLimiter.js, retry.js).
THEOREM SharingCorrect == Spec => SlotsAreShared
BY SlotsCorrect, WaitersCorrect, CooldownShared, OutputNotRepeated, PTL DEF SlotsAreShared

\* The budget holds, for any budget, usage and number of callers (budget.js).
THEOREM BudgetCorrect == Spec => BudgetHolds
BY TypeCorrect, Serialized, Overshoot, NothingOverBudget, PTL DEF BudgetHolds
=============================================================================
