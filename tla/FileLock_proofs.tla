---------------------------- MODULE FileLock_proofs ----------------------------
(***************************************************************************)
(* Theorems about FileLock and DurableFile, for any processes and calls.   *)
(* They assume that nothing stalls (~MayStall): a step that is brief ends  *)
(* before a lock directory gets old, and the two reads of a reclaiming     *)
(* call do not straddle a release and the end of a process.                *)
(***************************************************************************)
EXTENDS DurableFile, FiniteSetTheorems, TLAPS

\* Calls that made the directory, own it or are about to remove it.
Makers == {c \in Calls : Live(c) /\ pc[c] \in {"naming", "holding", "removing"}}
Reclaiming == {"rereading", "restating", "moving"}

\* What a maker knows of the directory, and that there is but one.
MakerInv ==
  /\ \A c \in Makers : dir # "missing"
  /\ \A c \in Makers : pc[c] = "holding" => owner = c
  /\ \A c \in Makers : pc[c] # "holding" => owner = None /\ dir = "young"
  /\ \A c, d \in Makers : c = d

\* A lock that nobody but a reclaiming call will touch.
Gone == dir # "missing" /\ Abandoned

\* Reclaiming calls have the reclaim lock; what one read still holds if it
\* will move the directory away.
ReclaimInv ==
  /\ \A c \in Calls : Live(c) /\ pc[c] \in Reclaiming => reclaimer = c
  /\ \A c \in Calls : Live(c) /\ pc[c] = "restating" =>
       /\ Dead(found[c]) => owner = found[c]
       /\ found[c] = None /\ dir = "old" => owner = None
  /\ \A c \in Calls : Live(c) /\ pc[c] = "moving" => Gone

DirInv == dir = "missing" => owner = None

LockInv == LockTypeOK /\ DirInv /\ MakerInv /\ ReclaimInv

-----------------------------------------------------------------------------
\* Nothing is locked at first.
LEMMA InitInv == LockInit => LockInv
<1> SUFFICES ASSUME LockInit
             PROVE  LockInv
  OBVIOUS
<1>1. \A c \in Calls : pc[c] = "idle"
  BY DEF LockInit
<1>2. LockTypeOK
  BY ProcessAssumption DEF LockInit, LockTypeOK, Places, Over
<1>3. MakerInv /\ ReclaimInv
  BY <1>1 DEF MakerInv, ReclaimInv, Makers, Reclaiming
<1> QED  BY <1>2, <1>3 DEF LockInv, DirInv, LockInit

\* A step of one call to a place that neither makes nor reclaims.
LEMMA HarmlessInv ==
  ASSUME LockInv, NEW c \in Calls, NEW there \in {"queued", "entering", "failed", "done"},
         Goto(c, there), UNCHANGED <<dir, owner, crashed>>,
         reclaimer' = reclaimer \/ (reclaimer' = None /\ reclaimer = c),
         found' = found \/ found' = [found EXCEPT ![c] = None],
         place' \in [Calls -> Nat]
  PROVE  LockInv'
<1>1. LockTypeOK /\ DirInv /\ MakerInv /\ ReclaimInv
  BY DEF LockInv
<1>2. pc' = [pc EXCEPT ![c] = there] /\ pc'[c] = there /\ \A d \in Calls : d # c => pc'[d] = pc[d]
  BY <1>1 DEF Goto, LockTypeOK
<1>3. \A d \in Calls : d # c => found'[d] = found[d]
  BY <1>1 DEF LockTypeOK
<1>4. /\ \A d : Live(d)' <=> Live(d)
      /\ \A o : Dead(o)' <=> Dead(o)
  BY DEF Live, Dead
<1>5. LockTypeOK' /\ DirInv'
  BY <1>1, <1>2 DEF LockTypeOK, DirInv, Places, Over
<1>6. Makers' \subseteq Makers /\ \A d \in Makers' : d # c /\ pc'[d] = pc[d]
  BY <1>2, <1>4 DEF Makers
<1>7. MakerInv'
  BY <1>1, <1>6 DEF MakerInv
<1>8. \A d \in Calls : Live(d)' /\ pc'[d] \in Reclaiming => d # c /\ pc'[d] = pc[d] /\ found'[d] = found[d] /\ Live(d)
  BY <1>2, <1>3, <1>4 DEF Reclaiming
<1>9. Gone' <=> Gone
  BY <1>4 DEF Gone, Abandoned
<1>10. ReclaimInv'
  <2>1. ASSUME NEW d \in Calls, Live(d)', pc'[d] \in Reclaiming
        PROVE  reclaimer' = d
    <3>1. reclaimer = d
      BY <1>1, <1>8, <2>1 DEF ReclaimInv
    <3> QED  BY <3>1, <1>8, <2>1
  <2>2. ASSUME NEW d \in Calls, Live(d)', pc'[d] = "restating"
        PROVE  /\ Dead(found[d])' => owner' = found'[d]
               /\ found'[d] = None /\ dir' = "old" => owner' = None
    <3>1. Live(d) /\ pc[d] = "restating" /\ found'[d] = found[d]
      BY <1>8, <2>2 DEF Reclaiming
    <3> QED  BY <3>1, <1>1, <1>4 DEF ReclaimInv
  <2>3. ASSUME NEW d \in Calls, Live(d)', pc'[d] = "moving"
        PROVE  Gone'
    <3>1. Live(d) /\ pc[d] = "moving"
      BY <1>8, <2>3 DEF Reclaiming
    <3> QED  BY <3>1, <1>1, <1>9 DEF ReclaimInv
  <2> QED  BY <2>1, <2>2, <2>3 DEF ReclaimInv
<1> QED  BY <1>5, <1>7, <1>10 DEF LockInv

\* mkdir succeeds: with the directory missing there was no maker.
LEMMA MakeDirInv ==
  ASSUME LockInv, NEW c \in Calls, MakeDir(c)
  PROVE  LockInv'
<1>1. LockTypeOK /\ DirInv /\ MakerInv /\ ReclaimInv
  BY DEF LockInv
<1>2. /\ Live(c) /\ dir = "missing" /\ dir' = "young" /\ pc' = [pc EXCEPT ![c] = "naming"]
      /\ UNCHANGED <<owner, reclaimer, found, place, crashed>>
  BY DEF MakeDir, At, Goto
<1>3. /\ \A d : Live(d)' <=> Live(d)
      /\ \A o : Dead(o)' <=> Dead(o)
  BY <1>2 DEF Live, Dead
<1>4. pc'[c] = "naming" /\ \A d \in Calls : d # c => pc'[d] = pc[d]
  BY <1>1, <1>2 DEF LockTypeOK
<1>5. owner = None /\ Makers = {}
  BY <1>1, <1>2 DEF DirInv, MakerInv
<1>6. LockTypeOK' /\ DirInv'
  BY <1>1, <1>2 DEF LockTypeOK, DirInv, Places
<1>7. Makers' \subseteq {c}
  BY <1>3, <1>4, <1>5 DEF Makers
<1>8. MakerInv'
  BY <1>2, <1>4, <1>5, <1>7 DEF MakerInv
<1>9. \A d \in Calls : Live(d)' /\ pc'[d] \in Reclaiming => Live(d) /\ pc'[d] = pc[d]
  BY <1>3, <1>4 DEF Reclaiming
<1>10. \A d \in Calls : Live(d) => pc[d] # "moving"
  BY <1>1, <1>2 DEF ReclaimInv, Gone
<1>11. ReclaimInv'
  BY <1>1, <1>2, <1>3, <1>5, <1>9, <1>10 DEF ReclaimInv, Reclaiming
<1> QED  BY <1>6, <1>8, <1>11 DEF LockInv

\* owner.json is written into the maker's own young directory.
LEMMA NameInv ==
  ASSUME LockInv, NEW c \in Calls, Name(c), pc'[c] = "holding"
  PROVE  LockInv'
<1>1. LockTypeOK /\ DirInv /\ MakerInv /\ ReclaimInv
  BY DEF LockInv
<1>2. /\ Live(c) /\ pc[c] = "naming"
      /\ dir' = "young" /\ owner' = c /\ pc' = [pc EXCEPT ![c] = "holding"]
      /\ UNCHANGED <<reclaimer, found, place, crashed>>
  BY <1>1 DEF Name, At, Goto, LockTypeOK
<1>3. /\ \A d : Live(d)' <=> Live(d)
      /\ \A o : Dead(o)' <=> Dead(o)
  BY <1>2 DEF Live, Dead
<1>4. pc'[c] = "holding" /\ \A d \in Calls : d # c => pc'[d] = pc[d]
  BY <1>1, <1>2 DEF LockTypeOK
<1>5. c \in Makers /\ owner = None /\ dir = "young"
  BY <1>1, <1>2 DEF Makers, MakerInv
<1>6. LockTypeOK' /\ DirInv'
  BY <1>1, <1>2 DEF LockTypeOK, DirInv, Places
<1>7. Makers' \subseteq {c}
  BY <1>1, <1>3, <1>4, <1>5 DEF Makers, MakerInv
<1>8. MakerInv'
  BY <1>2, <1>4, <1>7 DEF MakerInv
<1>9. \A d \in Calls : Live(d)' /\ pc'[d] \in Reclaiming => Live(d) /\ pc'[d] = pc[d]
  BY <1>3, <1>4 DEF Reclaiming
<1>10. None # c /\ ~Gone
  BY <1>5, ProcessAssumption DEF Gone, Abandoned, Dead
<1>11. ASSUME NEW d \in Calls, Live(d), pc[d] = "restating", Dead(found[d])
       PROVE  FALSE
  BY <1>1, <1>5, <1>11, ProcessAssumption DEF ReclaimInv, Dead
<1>12. ReclaimInv'
  BY <1>1, <1>2, <1>3, <1>9, <1>10, <1>11 DEF ReclaimInv, Reclaiming
<1> QED  BY <1>6, <1>8, <1>12 DEF LockInv

\* The reclaim lock is taken, or a reclaiming call goes one step on.
LEMMA ReclaimerInv ==
  ASSUME LockInv, NEW c \in Calls, NEW there \in Reclaiming,
         Live(c), pc[c] \notin {"naming", "holding", "removing"},
         Goto(c, there), UNCHANGED <<dir, owner, place, crashed>>,
         reclaimer' = c, reclaimer \in {None, c},
         found' \in [Calls -> Calls \cup {None}],
         \A d \in Calls : d # c => found'[d] = found[d],
         there = "restating" => found'[c] = owner,
         there = "moving" => Gone
  PROVE  LockInv'
<1>1. LockTypeOK /\ DirInv /\ MakerInv /\ ReclaimInv
  BY DEF LockInv
<1>2. /\ \A d : Live(d)' <=> Live(d)
      /\ \A o : Dead(o)' <=> Dead(o)
  BY DEF Live, Dead
<1>3. pc' = [pc EXCEPT ![c] = there] /\ pc'[c] = there /\ \A d \in Calls : d # c => pc'[d] = pc[d]
  BY <1>1 DEF Goto, LockTypeOK
<1>4. LockTypeOK' /\ DirInv'
  BY <1>1, <1>3 DEF LockTypeOK, DirInv, Places, Reclaiming
<1>5. Makers' \subseteq Makers /\ \A d \in Makers' : pc'[d] = pc[d]
  BY <1>2, <1>3 DEF Makers, Reclaiming
<1>6. MakerInv'
  BY <1>1, <1>5 DEF MakerInv
<1>7. Gone' <=> Gone
  BY <1>2 DEF Gone, Abandoned
<1>8. ASSUME NEW d \in Calls, d # c, Live(d)
      PROVE  pc'[d] \notin Reclaiming
  <2>1. pc[d] \notin Reclaiming
    BY <1>1, <1>8, ProcessAssumption DEF ReclaimInv
  <2> QED  BY <1>3, <1>8, <2>1
<1>9. ReclaimInv'
  BY <1>2, <1>3, <1>7, <1>8 DEF ReclaimInv, Reclaiming
<1> QED  BY <1>4, <1>6, <1>9 DEF LockInv

\* What Restat found abandoned is abandoned now.
LEMMA RestatGone ==
  ASSUME LockInv, NEW c \in Calls, Live(c), pc[c] = "restating", dir # "missing",
         Dead(found[c]) \/ (found[c] = None /\ dir = "old")
  PROVE  Gone
BY DEF LockInv, ReclaimInv, Gone, Abandoned

\* The steps of a reclaim up to the move.
LEMMA ReclaimStepInv ==
  ASSUME LockInv, NEW c \in Calls, Enter(c) \/ Reread(c) \/ Restat(c)
  PROVE  LockInv'
<1>1. LockTypeOK /\ ReclaimInv
  BY DEF LockInv
<1>2. CASE Enter(c)
  <2>1. CASE reclaimer = None /\ reclaimer' = c /\ Goto(c, "rereading")
    <3>1. /\ Live(c) /\ pc[c] = "entering" /\ "rereading" \in Reclaiming
          /\ UNCHANGED <<dir, owner, found, place, crashed>>
      BY <1>2 DEF Enter, At, Reclaiming
    <3> QED  BY <1>1, <2>1, <3>1, ReclaimerInv DEF LockTypeOK
  <2>2. CASE Goto(c, "failed") /\ UNCHANGED reclaimer
    BY <1>1, <1>2, <2>2, HarmlessInv DEF Enter, LockTypeOK
  <2> QED  BY <1>2, <2>1, <2>2 DEF Enter
<1>3. CASE Reread(c)
  <2>1. /\ Live(c) /\ pc[c] = "rereading" /\ Goto(c, "restating") /\ "restating" \in Reclaiming
        /\ found' = [found EXCEPT ![c] = owner]
        /\ UNCHANGED <<dir, owner, reclaimer, place, crashed>>
    BY <1>3 DEF Reread, At, Reclaiming
  <2>2. reclaimer = c
    BY <1>1, <2>1 DEF ReclaimInv, Reclaiming
  <2>3. /\ found' \in [Calls -> Calls \cup {None}] /\ found'[c] = owner
        /\ \A d \in Calls : d # c => found'[d] = found[d]
    BY <1>1, <2>1 DEF LockTypeOK
  <2> QED  BY <2>1, <2>2, <2>3, ReclaimerInv
<1>4. CASE Restat(c)
  <2>1. /\ Live(c) /\ pc[c] = "restating" /\ found' = [found EXCEPT ![c] = None]
        /\ UNCHANGED <<dir, owner, place, crashed>>
    BY <1>4 DEF Restat, At
  <2>2. reclaimer = c
    BY <1>1, <2>1 DEF ReclaimInv, Reclaiming
  <2>3. CASE dir # "missing" /\ (Dead(found[c]) \/ (found[c] = None /\ dir = "old"))
    <3>1. Goto(c, "moving") /\ reclaimer' = reclaimer /\ "moving" \in Reclaiming
      BY <1>4, <2>3 DEF Restat, Reclaiming
    <3>2. Gone
      BY <2>1, <2>3, RestatGone
    <3>3. /\ found' \in [Calls -> Calls \cup {None}]
          /\ \A d \in Calls : d # c => found'[d] = found[d]
      BY <1>1, <2>1 DEF LockTypeOK
    <3> QED  BY <2>1, <2>2, <3>1, <3>2, <3>3, ReclaimerInv
  <2>4. CASE ~(dir # "missing" /\ (Dead(found[c]) \/ (found[c] = None /\ dir = "old")))
    <3>1. Goto(c, "queued") /\ reclaimer' = None
      BY <1>4, <2>4 DEF Restat
    <3> QED  BY <1>1, <2>1, <2>2, <3>1, HarmlessInv DEF LockTypeOK
  <2> QED  BY <2>3, <2>4
<1> QED  BY <1>2, <1>3, <1>4

\* The reclaimed directory has no maker, so its removal takes nobody's lock.
LEMMA MoveAwayInv ==
  ASSUME LockInv, NEW c \in Calls, MoveAway(c)
  PROVE  LockInv' /\ Makers = {}
<1>1. LockTypeOK /\ DirInv /\ MakerInv /\ ReclaimInv
  BY DEF LockInv
<1>2. /\ Live(c) /\ pc[c] = "moving" /\ pc' = [pc EXCEPT ![c] = "queued"]
      /\ dir' = "missing" /\ owner' = None /\ reclaimer' = None
      /\ UNCHANGED <<found, place, crashed>>
  BY DEF MoveAway, At, Goto
<1>3. /\ \A d : Live(d)' <=> Live(d)
      /\ \A o : Dead(o)' <=> Dead(o)
  BY <1>2 DEF Live, Dead
<1>4. pc'[c] = "queued" /\ \A d \in Calls : d # c => pc'[d] = pc[d]
  BY <1>1, <1>2 DEF LockTypeOK
<1>5. Gone
  BY <1>1, <1>2 DEF ReclaimInv
<1>6. ASSUME NEW d \in Makers
      PROVE  FALSE
  <2>1. d \in Calls /\ Live(d) /\ (owner = d \/ (owner = None /\ dir = "young"))
    BY <1>1, <1>6 DEF Makers, MakerInv
  <2> QED  BY <1>5, <2>1, ProcessAssumption DEF Gone, Abandoned, Dead
<1>7. Makers' = {}
  <2>1. Makers = {}
    BY <1>6
  <2>2. \A d \in Calls : ~(Live(d) /\ pc'[d] \in {"naming", "holding", "removing"})
    BY <1>4, <2>1 DEF Makers
  <2> QED  BY <1>3, <2>2 DEF Makers
<1>8. LockTypeOK' /\ DirInv' /\ MakerInv'
  BY <1>1, <1>2, <1>7 DEF LockTypeOK, DirInv, MakerInv, Places
<1>9. ASSUME NEW d \in Calls, Live(d)
      PROVE  pc'[d] \notin Reclaiming
  <2>1. reclaimer = c
    BY <1>1, <1>2 DEF ReclaimInv, Reclaiming
  <2>2. d # c => pc[d] \notin Reclaiming
    BY <1>1, <1>9, <2>1 DEF ReclaimInv
  <2> QED  BY <1>4, <2>2 DEF Reclaiming
<1>10. ReclaimInv'
  BY <1>3, <1>9 DEF ReclaimInv, Reclaiming
<1> QED  BY <1>6, <1>8, <1>10 DEF LockInv

\* A dead process leaves the reclaim lock.
LEMMA FreeReclaimerInv ==
  ASSUME LockInv, FreeReclaimer
  PROVE  LockInv'
<1>1. LockTypeOK /\ DirInv /\ MakerInv /\ ReclaimInv
  BY DEF LockInv
<1>2. Dead(reclaimer) /\ reclaimer' = None /\ UNCHANGED <<dir, owner, pc, found, place, crashed>>
  BY DEF FreeReclaimer
<1>3. /\ \A d : Live(d)' <=> Live(d)
      /\ \A o : Dead(o)' <=> Dead(o)
  BY <1>2 DEF Live, Dead
<1>4. LockTypeOK' /\ DirInv' /\ MakerInv'
  BY <1>1, <1>2, <1>3 DEF LockTypeOK, DirInv, MakerInv, Makers
<1>5. ASSUME NEW d \in Calls, Live(d)
      PROVE  pc[d] \notin Reclaiming
  BY <1>1, <1>2, <1>5 DEF ReclaimInv, Dead
<1>6. ReclaimInv'
  BY <1>2, <1>3, <1>5 DEF ReclaimInv, Reclaiming
<1> QED  BY <1>4, <1>6 DEF LockInv

\* The owner takes its name out of the directory, or leaves it.
LEMMA ReturnInv ==
  ASSUME LockInv, NEW c \in Calls, Return(c)
  PROVE  LockInv'
<1>1. LockTypeOK /\ DirInv /\ MakerInv /\ ReclaimInv
  BY DEF LockInv
<1>2. /\ Live(c) /\ pc[c] = "holding"
      /\ UNCHANGED <<reclaimer, found, place, crashed>>
  BY DEF Return, At
<1>3. CASE Goto(c, "done") /\ UNCHANGED <<dir, owner>>
  BY <1>1, <1>2, <1>3, HarmlessInv DEF LockTypeOK
<1>4. CASE owner = c /\ owner' = None /\ dir' = "young" /\ Goto(c, "removing")
  <2>1. pc' = [pc EXCEPT ![c] = "removing"] /\ pc'[c] = "removing"
        /\ \A d \in Calls : d # c => pc'[d] = pc[d]
    BY <1>1, <1>4 DEF Goto, LockTypeOK
  <2>2. /\ \A d : Live(d)' <=> Live(d)
        /\ \A o : Dead(o)' <=> Dead(o)
    BY <1>2 DEF Live, Dead
  <2>3. LockTypeOK' /\ DirInv'
    BY <1>1, <1>2, <1>4, <2>1 DEF LockTypeOK, DirInv, Places
  <2>4. c \in Makers /\ Makers' \subseteq {c}
    BY <1>1, <1>2, <2>1, <2>2 DEF Makers, MakerInv
  <2>5. MakerInv'
    BY <1>4, <2>1, <2>4 DEF MakerInv
  <2>6. \A d \in Calls : Live(d)' /\ pc'[d] \in Reclaiming => Live(d) /\ pc'[d] = pc[d]
    BY <2>1, <2>2 DEF Reclaiming
  <2>7. c # None /\ ~Gone
    BY <1>2, <1>4, ProcessAssumption DEF Gone, Abandoned, Dead
  <2>8. ASSUME NEW d \in Calls, Live(d), pc[d] = "restating", Dead(found[d])
        PROVE  FALSE
    BY <1>1, <1>2, <1>4, <2>8 DEF ReclaimInv, Dead
  <2>9. ReclaimInv'
    BY <1>1, <1>2, <1>4, <2>2, <2>6, <2>7, <2>8 DEF ReclaimInv, Reclaiming
  <2> QED  BY <2>3, <2>5, <2>9 DEF LockInv
<1> QED  BY <1>3, <1>4 DEF Return

\* The directory goes, or stays without a name.
LEMMA RemoveDirInv ==
  ASSUME LockInv, NEW c \in Calls, RemoveDir(c)
  PROVE  LockInv'
<1>1. LockTypeOK /\ DirInv /\ MakerInv /\ ReclaimInv
  BY DEF LockInv
<1>2. /\ Live(c) /\ pc[c] = "removing" /\ Goto(c, "done")
      /\ UNCHANGED <<owner, reclaimer, found, place, crashed>>
  BY DEF RemoveDir, At
<1>3. c \in Makers /\ owner = None /\ dir = "young"
  BY <1>1, <1>2 DEF Makers, MakerInv
<1>4. CASE dir' = dir
  BY <1>1, <1>2, <1>4, HarmlessInv DEF LockTypeOK
<1>5. CASE dir' = "missing"
  <2>1. pc' = [pc EXCEPT ![c] = "done"] /\ pc'[c] = "done"
        /\ \A d \in Calls : d # c => pc'[d] = pc[d]
    BY <1>1, <1>2 DEF Goto, LockTypeOK
  <2>2. /\ \A d : Live(d)' <=> Live(d)
        /\ \A o : Dead(o)' <=> Dead(o)
    BY <1>2 DEF Live, Dead
  <2>3. LockTypeOK' /\ DirInv'
    BY <1>1, <1>2, <1>3, <1>5, <2>1 DEF LockTypeOK, DirInv, Places, Over
  <2>4. Makers' = {}
    <3>1. \A d \in Makers : d = c
      BY <1>1, <1>3 DEF MakerInv
    <3>2. \A d \in Calls : ~(Live(d) /\ pc'[d] \in {"naming", "holding", "removing"})
      BY <2>1, <3>1 DEF Makers
    <3> QED  BY <2>2, <3>2 DEF Makers
  <2>5. MakerInv'
    BY <2>4 DEF MakerInv
  <2>6. \A d \in Calls : Live(d)' /\ pc'[d] \in Reclaiming => Live(d) /\ pc'[d] = pc[d]
    BY <2>1, <2>2 DEF Reclaiming
  <2>7. ~Gone
    BY <1>3 DEF Gone, Abandoned, Dead
  <2>8. ReclaimInv'
    BY <1>1, <1>2, <1>3, <1>5, <2>2, <2>6, <2>7 DEF ReclaimInv, Reclaiming
  <2> QED  BY <2>3, <2>5, <2>8 DEF LockInv
<1> QED  BY <1>3, <1>4, <1>5 DEF RemoveDir

\* A directory gets old when no brief step is under way.
LEMMA AgeInv ==
  ASSUME LockInv, Age, MayStall = FALSE
  PROVE  LockInv'
<1>1. LockTypeOK /\ DirInv /\ MakerInv /\ ReclaimInv
  BY DEF LockInv
<1>2. /\ dir = "young" /\ dir' = "old" /\ UNCHANGED <<owner, reclaimer, found, place, pc, crashed>>
      /\ \A c \in Calls : Live(c) => pc[c] \notin {"naming", "removing", "restating"}
  BY DEF Age, Brief
<1>3. /\ \A d : Live(d)' <=> Live(d)
      /\ \A o : Dead(o)' <=> Dead(o)
  BY <1>2 DEF Live, Dead
<1>4. LockTypeOK' /\ DirInv' /\ MakerInv'
  BY <1>1, <1>2, <1>3 DEF LockTypeOK, DirInv, MakerInv, Makers
<1>5. ReclaimInv'
  BY <1>1, <1>2, <1>3 DEF ReclaimInv, Reclaiming, Gone, Abandoned
<1> QED  BY <1>4, <1>5 DEF LockInv

\* Death takes makers and reclaiming calls away and makes locks abandoned.
LEMMA CrashInv ==
  ASSUME LockInv, NEW p \in Processes, Crash(p), MayStall = FALSE
  PROVE  LockInv'
<1>1. LockTypeOK /\ DirInv /\ MakerInv /\ ReclaimInv
  BY DEF LockInv
<1>2. /\ crashed' = crashed \cup {p}
      /\ \A c \in Calls : found[c] \in p => owner = found[c]
      /\ pc' = [c \in Calls |-> IF c \in p /\ pc[c] \notin Over THEN "dead" ELSE pc[c]]
      /\ found' = [c \in Calls |-> IF c \in p THEN None ELSE found[c]]
      /\ UNCHANGED <<dir, owner, reclaimer, place>>
  BY DEF Crash
<1>3. \A c \in Calls : Live(c)' => Live(c) /\ c \notin p
  BY <1>2 DEF Live
<1>4. \A o : Dead(o)' => Dead(o) \/ (o # None /\ o \in p)
  BY <1>2 DEF Live, Dead
<1>5. \A o : Dead(o) => Dead(o)'
  BY <1>2 DEF Live, Dead
<1>6. \A c \in Calls : Live(c)' => pc'[c] = pc[c] /\ found'[c] = found[c]
  BY <1>2, <1>3
<1>7. LockTypeOK' /\ DirInv'
  <2>1. pc' \in [Calls -> Places]
    BY <1>1, <1>2 DEF LockTypeOK, Places, Over
  <2>2. found' \in [Calls -> Calls \cup {None}] /\ crashed' \subseteq Processes
    BY <1>1, <1>2 DEF LockTypeOK
  <2> QED  BY <1>1, <1>2, <2>1, <2>2 DEF LockTypeOK, DirInv
<1>8. Makers' \subseteq Makers /\ \A c \in Makers' : pc'[c] = pc[c]
  BY <1>3, <1>6 DEF Makers
<1>9. MakerInv'
  BY <1>1, <1>2, <1>8 DEF MakerInv
<1>10. Gone => Gone'
  BY <1>2, <1>5 DEF Gone, Abandoned
<1>11. ReclaimInv'
  BY <1>1, <1>2, <1>3, <1>4, <1>6, <1>10 DEF ReclaimInv
<1> QED  BY <1>7, <1>9, <1>11 DEF LockInv

-----------------------------------------------------------------------------
\* The remaining steps of a call that only move it on.
LEMMA PassiveInv ==
  ASSUME LockInv, NEW c \in Calls,
         Enqueue(c) \/ Suspect(c) \/ TimeOut(c) \/ (Name(c) /\ pc'[c] # "holding")
  PROVE  LockInv'
<1>1. LockTypeOK
  BY DEF LockInv
<1>2. CASE Enqueue(c)
  <2>1. place' \in [Calls -> Nat]
    <3>1. PICK p \in Processes : c \in p
      BY DEF Calls
    <3>2. Siblings(c) = p
      BY <3>1, ProcessAssumption DEF Siblings
    <3> DEFINE Issued == {d \in Siblings(c) : place[d] # 0}
    <3>3. Cardinality(Issued) \in Nat
      BY <3>1, <3>2, ProcessAssumption, FS_Subset, FS_CardinalityType
    <3> HIDE DEF Issued
    <3>4. place' = [place EXCEPT ![c] = 1 + Cardinality(Issued)]
      BY <1>2 DEF Enqueue, Issued
    <3> QED  BY <1>1, <3>3, <3>4 DEF LockTypeOK
  <2> QED  BY <1>2, <2>1, HarmlessInv DEF Enqueue, lock
<1>3. CASE Suspect(c) \/ TimeOut(c)
  BY <1>1, <1>3, HarmlessInv DEF Suspect, TimeOut, lock, LockTypeOK
<1>4. CASE Name(c) /\ pc'[c] # "holding"
  BY <1>1, <1>4, HarmlessInv DEF Name, Goto, LockTypeOK
<1> QED  BY <1>2, <1>3, <1>4

\* Every step of the lock keeps the invariant, if nothing stalls.
LEMMA StepInv ==
  ASSUME LockInv, LockNext, MayStall = FALSE
  PROVE  LockInv'
<1>1. ASSUME NEW c \in Calls, Enqueue(c) \/ CallStep(c) \/ Return(c)
      PROVE  LockInv'
  BY <1>1, PassiveInv, MakeDirInv, NameInv, ReclaimStepInv, MoveAwayInv, RemoveDirInv, ReturnInv
     DEF CallStep, AcquireStep, ReclaimStep
<1>2. ASSUME NEW p \in Processes, Crash(p)
      PROVE  LockInv'
  BY <1>2, CrashInv
<1> QED  BY <1>1, <1>2, FreeReclaimerInv, AgeInv DEF LockNext

\* And so does every step elsewhere.
LEMMA StutterInv == LockInv /\ UNCHANGED lockVars => LockInv'
BY DEF LockInv, LockTypeOK, DirInv, MakerInv, ReclaimInv, Makers, Gone, Abandoned, Dead, Live,
  lockVars, lock

\* The inductive invariant of withFileLock.
THEOREM LockInvariant ==
  ASSUME MayStall = FALSE
  PROVE  LockSpec => []LockInv
<1>1. LockInv /\ [LockNext]_lockVars => LockInv'
  BY StepInv, StutterInv
<1> QED  BY InitInv, <1>1, PTL DEF LockSpec

\* Every step of DurableFile is one of the lock or leaves it alone.
LEMMA FileStepsLock ==
  ASSUME [Next]_vars
  PROVE  [LockNext]_lockVars
<1>1. ASSUME NEW c \in Calls, Issue(c) \/ LockStep(c) \/ ActionStep(c) \/ GiveUp(c)
      PROVE  LockNext \/ UNCHANGED lockVars
  BY <1>1 DEF Issue, LockStep, ActionStep, Load, Restore, Backup, Install, GiveUp, LockNext
<1>2. CASE Recover \/ Wait \/ Damage
  BY <1>2 DEF Recover, Wait, Damage, LockNext
<1>3. ASSUME NEW p \in Processes, Die(p)
      PROVE  LockNext
  BY <1>3 DEF Die, LockNext
<1> QED  BY <1>1, <1>2, <1>3 DEF Next, vars

\* The stored file uses the lock as it is meant to be used.
THEOREM FileImplementsLock == Spec => LockSpec
<1>1. Init => LockInit
  BY DEF Init
<1> QED  BY <1>1, FileStepsLock, PTL DEF Spec, LockSpec

\* At most one live call runs its action, on any file, with any processes.
THEOREM ExclusionCorrect ==
  ASSUME MayStall = FALSE
  PROVE  Spec => []Exclusion
<1>1. LockInv => Exclusion
  BY DEF LockInv, MakerInv, Makers, Exclusion, Holders, At
<1> QED  BY <1>1, LockInvariant, FileImplementsLock, PTL

\* No live process loses its lock.
THEOREM KeptWhileAliveCorrect ==
  ASSUME MayStall = FALSE
  PROVE  Spec => KeptWhileAlive
<1> DEFINE Kept == owner # None /\ Live(owner) /\ owner' # owner
                    => pc[owner] = "holding" /\ pc'[owner] = "removing"
<1>1. LockInv /\ LockNext => Kept
  <2> SUFFICES ASSUME LockInv, LockNext, owner # None, Live(owner), owner' # owner
               PROVE  pc[owner] = "holding" /\ pc'[owner] = "removing"
    OBVIOUS
  <2>1. LockTypeOK /\ MakerInv /\ ReclaimInv
    BY DEF LockInv
  <2>2. ASSUME NEW c \in Calls, Name(c)
        PROVE  FALSE
    BY <2>1, <2>2 DEF Name, At, Makers, MakerInv
  <2>3. ASSUME NEW c \in Calls, MoveAway(c)
        PROVE  FALSE
    BY <2>1, <2>3 DEF MoveAway, At, ReclaimInv, Gone, Abandoned, Dead
  <2>4. ASSUME NEW c \in Calls, Return(c)
        PROVE  pc[owner] = "holding" /\ pc'[owner] = "removing"
    BY <2>1, <2>4 DEF Return, At, Goto, LockTypeOK
  <2>5. PICK c \in Calls : Name(c) \/ MoveAway(c) \/ Return(c)
    BY DEF LockNext, CallStep, AcquireStep, ReclaimStep, Enqueue, MakeDir, Suspect, TimeOut,
      Enter, Reread, Restat, RemoveDir, FreeReclaimer, Age, Crash, lock
  <2> QED  BY <2>2, <2>3, <2>4, <2>5
<1>2. LockInv /\ [LockNext]_lockVars => [Kept]_lockVars
  BY <1>1
<1>3. LockSpec => [][Kept]_lockVars
  BY <1>2, LockInvariant, PTL DEF LockSpec
<1> QED  BY <1>3, FileImplementsLock, PTL DEF KeptWhileAlive

-----------------------------------------------------------------------------
\* The types of the file and of its calls' work; only an update writes.
FileTypes ==
  /\ main \in Contents /\ bak \in Contents /\ damaged \in 0..MaxDamage
  /\ stage \in [Calls -> {"start", "quarantined", "loaded", "backed"} \cup Settled]
  /\ value \in [Calls -> SUBSET Updaters]
  /\ \A c \in Calls : stage[c] \in {"loaded", "backed"} => c \in Updaters

LEMMA FileTypesStep == FileTypes /\ [Next]_vars => FileTypes'
<1> SUFFICES ASSUME FileTypes, [Next]_vars PROVE FileTypes'
  OBVIOUS
<1>1. CASE UNCHANGED <<disk, action>>
  BY <1>1 DEF FileTypes, disk, action
<1>2. ASSUME NEW c \in Calls, Issue(c) \/ LockStep(c)
      PROVE  FileTypes'
  BY <1>1, <1>2 DEF Issue, LockStep
<1>3. ASSUME NEW c \in Calls, Load(c) PROVE FileTypes'
  BY <1>3 DEF FileTypes, Load, Loaded, Contents, Missing, Settled
<1>4. ASSUME NEW c \in Calls, Restore(c) PROVE FileTypes'
  BY <1>4 DEF FileTypes, Restore, Loaded, Contents, Settled
<1>5. ASSUME NEW c \in Calls, Backup(c) PROVE FileTypes'
  BY <1>5 DEF FileTypes, Backup, Working
<1>6. ASSUME NEW c \in Calls, Install(c) PROVE FileTypes'
  <2>1. Good(value[c] \cup {c}) \in Contents
    BY <1>6 DEF FileTypes, Install, Working, Good, Contents
  <2> QED  BY <1>6, <2>1 DEF FileTypes, Install, Settled
<1>7. ASSUME NEW c \in Calls, GiveUp(c) PROVE FileTypes'
  BY <1>7 DEF FileTypes, GiveUp, Settled, disk
<1>8. CASE Recover \/ Wait
  BY <1>1, <1>8 DEF Recover, Wait
<1>9. ASSUME NEW p \in Processes, Die(p) PROVE FileTypes'
  BY <1>9 DEF FileTypes, Die, disk, Settled
<1>10. CASE Damage
  BY <1>10, FileAssumption DEF FileTypes, Damage, Contents, Corrupt, action
<1> QED  BY <1>1, <1>2, <1>3, <1>4, <1>5, <1>6, <1>7, <1>8, <1>9, <1>10
         DEF Next, ActionStep, vars

\* The lock is kept, for any number of processes and calls, wherever processes
\* die, if none stalls between two steps that the code takes at once.
THEOREM LockCorrect ==
  ASSUME MayStall = FALSE
  PROVE  Spec => LockIsKept
<1>1. LockInv => LockTypeOK
  BY DEF LockInv
<1>2. Init => FileTypes
  BY FileAssumption DEF Init, FileTypes, Contents, Missing, Settled
<1>3. LockTypeOK /\ FileTypes => TypeOK
  BY DEF TypeOK, FileTypes
<1>4. Spec => []TypeOK
  BY <1>1, <1>2, <1>3, LockInvariant, FileImplementsLock, FileTypesStep, PTL DEF Spec
<1>5. QED
  BY <1>4, ExclusionCorrect, KeptWhileAliveCorrect, PTL DEF LockIsKept
-----------------------------------------------------------------------------
(***************************************************************************)
(* The content of the file. An update counts from the moment it is         *)
(* installed, before its call returns. The file lacks one of them at most  *)
(* for each damage; the backup lacks one more, but not where it is the     *)
(* only copy: while the file is damaged or moved aside, and before the     *)
(* next content replaces the file.                                         *)
(***************************************************************************)
Acked == {c \in Updaters : stage[c] = "finished"}
Lost(has) == Cardinality(Acked \ has)
MidWay == {"quarantined", "loaded", "backed"}
Some(s) == \E c \in Calls : stage[c] = s

ContentInv ==
  /\ IsFiniteSet(Acked)
  /\ \A c \in Calls : stage[c] \in MidWay => At(c, "holding")
  /\ main.state # "good" => main.has = {}
  /\ bak.state = "good" \/ bak.has = {}
  /\ bak.state # "corrupt"
  /\ main.state = "missing" /\ ~Some("quarantined") => bak.has = {}
  /\ Some("quarantined") => main.state = "missing"
  /\ \A c \in Calls : stage[c] = "loaded" => main.state # "corrupt" /\ value[c] = main.has

LossInv ==
  /\ Lost(bak.has) <= damaged + 1
  /\ main.state = "corrupt" \/ Some("quarantined") \/ Some("backed") => Lost(bak.has) <= damaged
  /\ main.state # "corrupt" /\ ~Some("quarantined") => Lost(main.has) <= damaged
  /\ \A c \in Calls : stage[c] = "backed" => Lost(value[c]) <= damaged

\* Losses are counted, shrink with what is counted, and grow by one for one
\* more update.
LEMMA LostCount ==
  ASSUME NEW S, IsFiniteSet(S), NEW has
  PROVE  /\ Cardinality(S \ has) \in Nat
         /\ \A T : T \subseteq S => Cardinality(T \ has) <= Cardinality(S \ has)
         /\ \A c : Cardinality((S \cup {c}) \ has) <= Cardinality(S \ has) + 1
         /\ \A c : Cardinality((S \cup {c}) \ (has \cup {c})) <= Cardinality(S \ has)
<1>1. IsFiniteSet(S \ has) /\ Cardinality(S \ has) \in Nat
  BY FS_Subset, FS_CardinalityType
<1>2. \A T : T \subseteq S \ has => Cardinality(T) <= Cardinality(S \ has)
  BY <1>1, FS_Subset
<1>3. ASSUME NEW c PROVE Cardinality((S \cup {c}) \ has) <= Cardinality(S \ has) + 1
  <2>1. CASE c \in has \/ c \in S
    <3>1. (S \cup {c}) \ has = S \ has
      BY <2>1
    <3> QED  BY <1>1, <3>1
  <2>2. CASE ~(c \in has \/ c \in S)
    <3>1. (S \cup {c}) \ has = (S \ has) \cup {c} /\ c \notin S \ has
      BY <2>2
    <3>2. Cardinality((S \ has) \cup {c}) = Cardinality(S \ has) + 1
      BY <1>1, <3>1, FS_AddElement
    <3>3. Cardinality((S \cup {c}) \ has) = Cardinality(S \ has) + 1
      BY <3>1, <3>2, Zenon
    <3> QED  BY <1>1, <3>3
  <2> QED  BY <2>1, <2>2
<1>4. ASSUME NEW T, T \subseteq S PROVE T \ has \subseteq S \ has
  BY <1>4
<1>5. ASSUME NEW c PROVE (S \cup {c}) \ (has \cup {c}) \subseteq S \ has
  OBVIOUS
<1> QED  BY <1>1, <1>2, <1>3, <1>4, <1>5

LEMMA LossTypes ==
  ASSUME FileTypes, ContentInv
  PROVE  damaged \in Nat /\ \A has : Lost(has) \in Nat
<1>1. damaged \in Nat
  BY FileAssumption DEF FileTypes
<1>2. ASSUME NEW has PROVE Lost(has) \in Nat
  <2>1. IsFiniteSet(Acked \ has)
    BY FS_Subset DEF ContentInv
  <2> QED  BY <2>1, FS_CardinalityType DEF Lost
<1> QED  BY <1>1, <1>2

\* The call that works is the only one that is midway.
LEMMA OnlyWorker ==
  ASSUME LockInv, ContentInv, NEW c \in Calls, At(c, "holding")
  PROVE  \A d \in Calls : d # c => stage[d] \notin MidWay
BY DEF LockInv, MakerInv, Makers, ContentInv, At

\* A step of the lock leaves the call that works where it is.
LEMMA ContentLockStep ==
  ASSUME LockInv, FileTypes, ContentInv, LossInv, UNCHANGED <<disk, action, crashed>>,
         \A c \in Calls : pc[c] = "holding" /\ stage[c] \in MidWay => pc'[c] = "holding"
  PROVE  ContentInv' /\ LossInv'
<1>1. \A c \in Calls : At(c, "holding") /\ stage[c] \in MidWay => At(c, "holding")'
  BY DEF At, Live
<1> QED
  BY <1>1 DEF ContentInv, LossInv, disk, action, Acked, Lost, Some

LEMMA ContentLoad ==
  ASSUME LockInv, FileTypes, ContentInv, LossInv, NEW c \in Calls, Load(c)
  PROVE  ContentInv' /\ LossInv'
<1>1. /\ At(c, "holding") /\ stage[c] = "start" /\ UNCHANGED <<lockVars, bak, damaged>>
      /\ At(c, "holding")'
  BY DEF Load, Working, At, Live, lockVars
<1>2. \A d \in Calls : stage[d] \notin MidWay
  BY <1>1, OnlyWorker DEF MidWay
<1>3. CASE main.state = "corrupt"
  <2>1. main' = Missing /\ stage' = [stage EXCEPT ![c] = "quarantined"] /\ value' = value
    BY <1>3 DEF Load
  <2>2. /\ Acked' = Acked /\ Some("quarantined")'
        /\ \A d \in Calls : stage'[d] \in MidWay => d = c /\ stage'[d] = "quarantined"
    BY <1>1, <1>2, <2>1, FileAssumption DEF FileTypes, Acked, Some
  <2> QED
    BY <1>1, <1>3, <2>1, <2>2 DEF ContentInv, LossInv, Lost, Some, Missing, MidWay
<1>4. CASE main.state # "corrupt"
  <2>1. /\ value' = [value EXCEPT ![c] = main.has] /\ main' = main
        /\ stage' = [stage EXCEPT ![c] = IF c \in Updaters THEN "loaded" ELSE "finished"]
    BY <1>4 DEF Load, Loaded
  <2>2. /\ Acked' = Acked /\ ~Some("quarantined")' /\ ~Some("backed")'
        /\ \A d \in Calls : stage'[d] \in MidWay => d = c
        /\ value'[c] = main.has
    BY <1>1, <1>2, <2>1, FileAssumption DEF FileTypes, Acked, Some, MidWay
  <2>3. ~Some("quarantined")
    BY <1>2 DEF Some, MidWay
  <2> QED
    BY <1>1, <1>4, <2>1, <2>2, <2>3 DEF ContentInv, LossInv, Lost, Some, MidWay
<1> QED
  BY <1>3, <1>4

LEMMA ContentRestore ==
  ASSUME LockInv, FileTypes, ContentInv, LossInv, NEW c \in Calls, Restore(c)
  PROVE  ContentInv' /\ LossInv'
<1>1. /\ At(c, "holding") /\ stage[c] = "quarantined" /\ UNCHANGED <<lockVars, bak, damaged>>
      /\ At(c, "holding")' /\ Some("quarantined") /\ main.state = "missing"
      /\ main' = IF bak.state = "good" THEN bak ELSE main
      /\ value' = [value EXCEPT ![c] = bak.has]
      /\ stage' = [stage EXCEPT ![c] = IF c \in Updaters THEN "loaded" ELSE "finished"]
  BY DEF Restore, Loaded, Working, At, Live, lockVars, Some, ContentInv
<1>2. \A d \in Calls : d # c => stage[d] \notin MidWay
  BY <1>1, OnlyWorker
<1>3. /\ Acked' = Acked /\ ~Some("quarantined")' /\ ~Some("backed")'
      /\ \A d \in Calls : stage'[d] \in MidWay => d = c
      /\ value'[c] = bak.has
  BY <1>1, <1>2, FileAssumption DEF FileTypes, Acked, Some, MidWay
<1>4. main'.has = bak.has /\ main'.state # "corrupt"
  BY <1>1 DEF ContentInv
<1> QED
  BY <1>1, <1>3, <1>4 DEF ContentInv, LossInv, Lost, Some, MidWay

LEMMA ContentBackup ==
  ASSUME LockInv, FileTypes, ContentInv, LossInv, NEW c \in Calls, Backup(c)
  PROVE  ContentInv' /\ LossInv'
<1>1. /\ At(c, "holding") /\ stage[c] = "loaded" /\ UNCHANGED <<lockVars, main, damaged, value>>
      /\ At(c, "holding")' /\ stage' = [stage EXCEPT ![c] = "backed"]
      /\ bak' = IF main = Missing THEN bak ELSE main
      /\ main.state # "corrupt" /\ value[c] = main.has
  BY DEF Backup, Working, At, Live, lockVars, ContentInv
<1>2. \A d \in Calls : d # c => stage[d] \notin MidWay
  BY <1>1, OnlyWorker
<1>3. /\ Acked' = Acked /\ ~Some("quarantined") /\ ~Some("quarantined")'
      /\ \A d \in Calls : stage'[d] \in MidWay => d = c /\ stage'[d] = "backed"
  BY <1>1, <1>2, FileAssumption DEF FileTypes, Acked, Some, MidWay
<1>4. bak'.has = main.has
  BY <1>1, <1>3 DEF ContentInv, Missing
<1>5. bak'.state # "corrupt" /\ (bak'.state = "good" \/ bak'.has = {})
      /\ (main.state = "missing" => bak'.has = {})
  BY <1>1, <1>3, <1>4 DEF ContentInv
<1>6. Lost(main.has) <= damaged /\ damaged \in Nat /\ Lost(main.has) \in Nat
  BY <1>1, <1>3, LossTypes DEF LossInv
<1>9. /\ Cardinality(Acked' \ bak'.has) = Lost(main.has)
      /\ Cardinality(Acked' \ main'.has) = Lost(main.has)
      /\ damaged' = damaged /\ value' = value
  BY <1>1, <1>3, <1>4 DEF Lost
<1>10. \A d \in Calls : stage'[d] = "backed" => Cardinality(Acked' \ value'[d]) = Lost(main.has)
  BY <1>1, <1>3, <1>9 DEF Lost, MidWay
<1>7. ContentInv'
  BY <1>1, <1>3, <1>5 DEF ContentInv, Some, MidWay
<1>8. LossInv'
  <2>1. Lost(bak.has)' <= damaged' + 1 /\ Lost(bak.has)' <= damaged'
    BY <1>6, <1>9 DEF Lost
  <2>2. Lost(main.has)' <= damaged'
    BY <1>6, <1>9 DEF Lost
  <2>3. ASSUME NEW d \in Calls, stage'[d] = "backed" PROVE Lost(value[d])' <= damaged'
    BY <1>6, <1>9, <1>10, <2>3 DEF Lost
  <2> QED  BY <2>1, <2>2, <2>3 DEF LossInv
<1> QED
  BY <1>7, <1>8

LEMMA ContentInstall ==
  ASSUME LockInv, FileTypes, ContentInv, LossInv, NEW c \in Calls, Install(c)
  PROVE  ContentInv' /\ LossInv'
<1>1. /\ At(c, "holding") /\ stage[c] = "backed" /\ UNCHANGED <<lockVars, bak, damaged, value>>
      /\ stage' = [stage EXCEPT ![c] = "finished"] /\ main' = Good(value[c] \cup {c})
      /\ c \in Updaters /\ Some("backed")
  BY DEF Install, Working, FileTypes, Some
<1>2. \A d \in Calls : d # c => stage[d] \notin MidWay
  BY <1>1, OnlyWorker
<1>3. /\ Acked' = Acked \cup {c}
      /\ \A d \in Calls : stage'[d] \notin MidWay
  BY <1>1, <1>2, FileAssumption DEF FileTypes, Acked, MidWay
<1>4. IsFiniteSet(Acked')
  BY <1>3, FS_AddElement DEF ContentInv
<1>5. /\ Lost(bak.has) <= damaged /\ Lost(value[c]) <= damaged /\ damaged \in Nat
      /\ Lost(bak.has) \in Nat /\ Lost(value[c]) \in Nat
  BY <1>1, LossTypes DEF LossInv
<1>6. Cardinality(Acked' \ bak.has) <= damaged + 1
  <2>1. Cardinality(Acked' \ bak.has) <= Lost(bak.has) + 1
    BY <1>3, LostCount DEF ContentInv, Lost
  <2>2. Cardinality(Acked' \ bak.has) \in Nat
    BY <1>4, LostCount
  <2> QED  BY <1>5, <2>1, <2>2
<1>7. Cardinality(Acked' \ main'.has) <= damaged
  <2>1. Cardinality(Acked' \ main'.has) <= Lost(value[c])
    BY <1>1, <1>3, LostCount DEF ContentInv, Lost, Good
  <2>2. Cardinality(Acked' \ main'.has) \in Nat
    BY <1>4, LostCount
  <2> QED  BY <1>5, <2>1, <2>2
<1>8. main'.state = "good"
  BY <1>1 DEF Good
<1>9. ContentInv'
  BY <1>1, <1>3, <1>4, <1>8 DEF ContentInv, Some, MidWay
<1>10. LossInv'
  <2>1. Lost(bak.has)' <= damaged' + 1
    BY <1>1, <1>6 DEF Lost
  <2>2. Lost(main.has)' <= damaged'
    BY <1>1, <1>7 DEF Lost
  <2>3. ~(main'.state = "corrupt" \/ Some("quarantined")' \/ Some("backed")')
    BY <1>3, <1>8 DEF Some, MidWay
  <2>4. \A d \in Calls : stage'[d] # "backed"
    BY <1>3 DEF MidWay
  <2> QED  BY <2>1, <2>2, <2>3, <2>4 DEF LossInv
<1> QED
  BY <1>9, <1>10

LEMMA ContentGiveUp ==
  ASSUME Gaps = FALSE, LockInv, FileTypes, ContentInv, LossInv, NEW c \in Calls, GiveUp(c)
  PROVE  ContentInv' /\ LossInv'
<1>1. /\ At(c, "holding") /\ stage[c] \in {"start", "loaded", "backed"}
      /\ stage' = [stage EXCEPT ![c] = "gaveUp"] /\ UNCHANGED <<lockVars, disk, value>>
  BY DEF GiveUp, Working
<1>2. /\ Acked' = Acked /\ (Some("quarantined")' <=> Some("quarantined"))
      /\ (Some("backed")' => Some("backed"))
      /\ \A d \in Calls : stage'[d] \in MidWay => stage'[d] = stage[d]
  BY <1>1, FileAssumption DEF FileTypes, Acked, Some, MidWay
<1>3. \A d \in Calls : At(d, "holding")' = At(d, "holding")
  BY <1>1 DEF At, Live, lockVars
<1> QED
  BY <1>1, <1>2, <1>3 DEF ContentInv, LossInv, Lost, MidWay, disk

\* The updates of a process that died are not counted any more.
LEMMA ContentDie ==
  ASSUME Gaps = FALSE, LockInv, FileTypes, ContentInv, LossInv, NEW p \in Processes, Die(p)
  PROVE  ContentInv' /\ LossInv'
<1>1. /\ crashed' = crashed \cup {p} /\ UNCHANGED disk
      /\ \A c \in p : stage[c] # "quarantined"
      /\ pc' = [c \in Calls |-> IF c \in p /\ pc[c] \notin Over THEN "dead" ELSE pc[c]]
      /\ stage' = [c \in Calls |-> IF c \in p /\ pc[c] # "done" THEN "start" ELSE stage[c]]
      /\ value' = [c \in Calls |-> IF c \in p /\ pc[c] # "done" THEN {} ELSE value[c]]
  BY DEF Die, Crash
<1>2. \A c \in Calls : stage'[c] \in MidWay =>
        c \notin p /\ stage'[c] = stage[c] /\ value'[c] = value[c] /\ pc'[c] = pc[c]
  BY <1>1 DEF ContentInv, MidWay, At
<1>3. \A c \in Calls : stage'[c] \in MidWay => At(c, "holding")'
  BY <1>1, <1>2 DEF ContentInv, At, Live
<1>4. Some("quarantined")' <=> Some("quarantined")
  BY <1>1, <1>2 DEF Some, MidWay
<1>5. Some("backed")' => Some("backed")
  BY <1>2 DEF Some, MidWay
<1>6. Acked' \subseteq Acked
  BY <1>1, FileAssumption DEF Acked, FileTypes
<1>7. IsFiniteSet(Acked')
  BY <1>6, FS_Subset DEF ContentInv
<1>8. ContentInv'
  BY <1>1, <1>2, <1>3, <1>4, <1>7 DEF ContentInv, MidWay, disk
<1>9. \A has : Cardinality(Acked' \ has) <= Lost(has) /\ Lost(has) \in Nat
               /\ Cardinality(Acked' \ has) \in Nat
  BY <1>6, <1>7, LostCount DEF ContentInv, Lost
<1>10. damaged \in Nat
  BY FileAssumption DEF FileTypes
<1>11. LossInv'
  <2>1. main' = main /\ bak' = bak /\ damaged' = damaged
    BY <1>1 DEF disk
  <2>2. \A has, n : n \in Nat /\ Lost(has) <= n => Cardinality(Acked' \ has) <= n
    BY <1>9
  <2>3. Cardinality(Acked' \ bak'.has) <= damaged' + 1
    BY <1>10, <2>1, <2>2 DEF LossInv
  <2>4. main'.state = "corrupt" \/ Some("quarantined")' \/ Some("backed")'
        => Cardinality(Acked' \ bak'.has) <= damaged'
    BY <1>4, <1>5, <1>10, <2>1, <2>2 DEF LossInv
  <2>5. main'.state # "corrupt" /\ ~Some("quarantined")'
        => Cardinality(Acked' \ main'.has) <= damaged'
    BY <1>4, <1>10, <2>1, <2>2 DEF LossInv
  <2>6. ASSUME NEW c \in Calls, stage'[c] = "backed"
        PROVE  Cardinality(Acked' \ value'[c]) <= damaged'
    BY <1>2, <1>10, <2>1, <2>2, <2>6 DEF LossInv, MidWay
  <2> QED  BY <2>3, <2>4, <2>5, <2>6 DEF LossInv, Lost
<1> QED
  BY <1>8, <1>11

\* Damage hits a file whose backup lacks no more than what is lost then.
LEMMA ContentDamage ==
  ASSUME Gaps = FALSE, LockInv, FileTypes, ContentInv, LossInv, Damage
  PROVE  ContentInv' /\ LossInv'
<1>1. /\ main.state = "good" /\ main' = Corrupt /\ damaged' = damaged + 1
      /\ UNCHANGED <<lockVars, bak, action>>
      /\ \A c \in Calls : ~Working(c, "loaded")
  BY DEF Damage
<1>2. \A c \in Calls : stage[c] \notin {"loaded", "quarantined"}
  BY <1>1 DEF ContentInv, Working, MidWay, Some
<1>3. \A c \in Calls : At(c, "holding")' = At(c, "holding")
  BY <1>1 DEF At, Live, lockVars
<1>4. damaged \in Nat /\ \A has : Lost(has) \in Nat
  BY LossTypes
<1>5. /\ stage' = stage /\ value' = value /\ bak' = bak /\ Acked' = Acked
      /\ main'.state = "corrupt" /\ main'.has = {}
      /\ ~Some("quarantined") /\ ~Some("quarantined")'
  BY <1>1, <1>2 DEF Acked, Some, Corrupt, action
<1>6. ContentInv'
  BY <1>2, <1>3, <1>5 DEF ContentInv
<1>7. Lost(bak.has) <= damaged + 1
  BY DEF LossInv
<1>8. Cardinality(Acked' \ bak'.has) <= damaged'
  BY <1>1, <1>4, <1>5, <1>7 DEF Lost
<1>9. ASSUME NEW c \in Calls, stage[c] = "backed"
      PROVE  Cardinality(Acked' \ value'[c]) <= damaged'
  <2>1. Lost(value[c]) <= damaged
    BY <1>9 DEF LossInv
  <2>2. Cardinality(Acked' \ value'[c]) = Lost(value[c])
    BY <1>5 DEF Lost
  <2> QED  BY <1>1, <1>4, <2>1, <2>2
<1>10. LossInv'
  <2>1. Lost(bak.has)' <= damaged' /\ Lost(bak.has)' \in Int /\ damaged' \in Nat
    BY <1>1, <1>4, <1>5, <1>8 DEF Lost
  <2>2. Lost(bak.has)' <= damaged' + 1
    BY <2>1
  <2>3. \A c \in Calls : stage'[c] = "backed" => Lost(value[c])' <= damaged'
    BY <1>5, <1>9 DEF Lost
  <2> QED  BY <1>5, <2>1, <2>2, <2>3 DEF LossInv
<1> QED
  BY <1>6, <1>10

\* What is in the file and its backup accounts for the updates that were made,
\* whatever dies at which step (readJsonUnlocked, atomicWriteFile).
THEOREM ContentInvariant ==
  ASSUME MayStall = FALSE, Gaps = FALSE
  PROVE  Spec => [](FileTypes /\ ContentInv /\ LossInv)
<1>1. Init => FileTypes /\ ContentInv /\ LossInv
  <2> SUFFICES ASSUME Init PROVE FileTypes /\ ContentInv /\ LossInv
    OBVIOUS
  <2>1. FileTypes
    BY FileAssumption DEF Init, FileTypes, Contents, Missing, Settled
  <2>2. Acked = {} /\ \A has : Acked \ has = {}
    BY FileAssumption DEF Init, Acked
  <2>3. IsFiniteSet({}) /\ Cardinality({}) = 0
    BY FS_EmptySet
  <2>4. ContentInv
    BY <2>2, <2>3 DEF Init, ContentInv, MidWay, Some, Missing
  <2>5. LossInv
    BY <2>2, <2>3 DEF Init, LossInv, Lost, Some, Missing
  <2> QED  BY <2>1, <2>4, <2>5
<1>2. LockInv /\ FileTypes /\ ContentInv /\ LossInv /\ [Next]_vars => ContentInv' /\ LossInv'
  <2> SUFFICES ASSUME LockInv, FileTypes, ContentInv, LossInv, [Next]_vars
               PROVE  ContentInv' /\ LossInv'
    OBVIOUS
  <2>1. ASSUME NEW c \in Calls, Issue(c) PROVE ContentInv' /\ LossInv'
    BY <2>1, ContentLockStep DEF Issue, Enqueue, At, Goto, LockInv, LockTypeOK
  <2>2. ASSUME NEW c \in Calls, LockStep(c) PROVE ContentInv' /\ LossInv'
    <3>1. UNCHANGED <<disk, action, crashed>>
      BY <2>2 DEF LockStep, CallStep, AcquireStep, ReclaimStep, MakeDir, Name, Suspect, TimeOut,
         Enter, Reread, Restat, MoveAway, RemoveDir, Return
    <3>2. \A d \in Calls : pc[d] = "holding" /\ stage[d] \in MidWay => pc'[d] = "holding"
      BY <2>2 DEF LockStep, CallStep, AcquireStep, ReclaimStep, MakeDir, Name, Suspect, TimeOut,
         Enter, Reread, Restat, MoveAway, RemoveDir, Return, At, Goto, LockInv, LockTypeOK,
         Settled, MidWay
    <3> QED  BY <3>1, <3>2, ContentLockStep
  <2>3. ASSUME NEW c \in Calls, ActionStep(c) \/ GiveUp(c) PROVE ContentInv' /\ LossInv'
    BY <2>3, ContentLoad, ContentRestore, ContentBackup, ContentInstall, ContentGiveUp DEF ActionStep
  <2>4. CASE Recover \/ Wait
    BY <2>4, ContentLockStep DEF Recover, Wait, FreeReclaimer, Age
  <2>5. ASSUME NEW p \in Processes, Die(p) PROVE ContentInv' /\ LossInv'
    BY <2>5, ContentDie
  <2>6. CASE Damage
    BY <2>6, ContentDamage
  <2>7. CASE UNCHANGED vars
    BY <2>7, ContentLockStep DEF vars, lockVars
  <2> QED  BY <2>1, <2>2, <2>3, <2>4, <2>5, <2>6, <2>7 DEF Next
<1> QED
  BY <1>1, <1>2, FileTypesStep, LockInvariant, FileImplementsLock, PTL DEF Spec

\* An update that returned is in the file, but for one at most for each damage:
\* for any number of processes, updates, readers, deaths and damages.
THEOREM AcknowledgedCorrect ==
  ASSUME MayStall = FALSE, Gaps = FALSE
  PROVE  Spec => []AcknowledgedStays
<1>1. FileTypes /\ ContentInv /\ LossInv => AcknowledgedStays
  <2> SUFFICES ASSUME FileTypes, ContentInv, LossInv, main.state # "corrupt", ~Some("quarantined")
               PROVE  Cardinality(Returned \ main.has) <= damaged
    BY DEF AcknowledgedStays, Some
  <2>1. Returned \subseteq Acked
    BY DEF Returned, Acked
  <2>2. Cardinality(Returned \ main.has) <= Lost(main.has) /\ Lost(main.has) \in Nat
    BY <2>1, LostCount DEF ContentInv, Lost
  <2>3. IsFiniteSet(Returned)
    BY <2>1, FS_Subset DEF ContentInv
  <2>4. Cardinality(Returned \ main.has) \in Nat
    BY <2>3, LostCount
  <2> QED  BY <2>2, <2>4, FileAssumption DEF LossInv, FileTypes
<1> QED
  BY <1>1, ContentInvariant, PTL
=============================================================================
