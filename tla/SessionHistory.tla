--------------------------- MODULE SessionHistory ---------------------------
(* One stored session (src/session/store.js, src/session/artifacts.js) that  *)
(* several processes have open: each changes its own copy and saves it. A    *)
(* save orders, merges, compacts and trims under the session's lock, which   *)
(* DurableFile models; here it is one step.                                  *)
(*                                                                           *)
(* A turn is a number and stands for its text too: what the user demands in  *)
(* turn t is "t" wherever constraints are kept. A history is the set of its  *)
(* turns: what was saved stands in the order of its numbers, behind it what  *)
(* was not, as it was taken; the live turns are its latest.                  *)
EXTENDS Integers, FiniteSets

CONSTANTS
  Procs,
  Recent,        \* RECENT_TURNS_FOR_CONTEXT
  Rooms,         \* for how many turns the file may have room, as its bytes are
  MaxTurns,      \* bound: turns taken
  MaxArtifacts,  \* bound: artifacts saved
  None

Turns == 1 .. MaxTurns
Sessions ==
  [revision : Nat, history : SUBSET [id : Turns, seq : Nat], turns : SUBSET Turns,
   summary : {None} \cup SUBSET Turns, sequence : Nat, trimmedThrough : Nat,
   trimmed : SUBSET Turns, artifacts : SUBSET Nat, tombstones : SUBSET Nat]

ASSUME SessionAssumption ==
  /\ Recent \in Nat \ {0} /\ Rooms \subseteq Nat
  /\ {MaxTurns, MaxArtifacts} \subseteq Nat
  /\ None \notin Sessions /\ \A told \in SUBSET Turns : told # None

VARIABLES
  file,       \* the stored session
  deleted,    \* is there a deletion marker?
  held,       \* the copy each process has
  saving,     \* None, or the artifacts the save of each process is made for, not deleted since
  directory,  \* the files of artifacts
  indexLock,  \* the process that deletes an artifact
  taken, written,  \* turns taken and artifacts written so far
  acked,      \* history: the turns of successful saves
  wanted,     \* history: the artifacts of successful saves, not deleted since
  dropped     \* history: the turns that were ever trimmed for room

vars == <<file, deleted, held, saving, directory, indexLock, taken, written, acked,
          wanted, dropped>>

New == [revision |-> 1, history |-> {}, turns |-> {}, summary |-> None,
        sequence |-> 0, trimmedThrough |-> 0, trimmed |-> {},
        artifacts |-> {}, tombstones |-> {}]

Init ==
  /\ file = New /\ deleted = FALSE
  /\ held = [p \in Procs |-> None]
  /\ saving = [p \in Procs |-> None]
  /\ directory = {} /\ indexLock = None
  /\ taken = 0 /\ written = 0
  /\ acked = {} /\ wanted = {} /\ dropped = {}

Ids(history) == {turn.id : turn \in history}
Larger(m, n) == IF m > n THEN m ELSE n
Latest(numbers) == CHOOSE n \in numbers : \A m \in numbers : m <= n

Earlier(turn, other) ==
  \/ turn.seq > 0 /\ (other.seq = 0 \/ turn.seq < other.seq)
  \/ turn.seq = 0 /\ other.seq = 0 /\ turn.id < other.id
Oldest(history, count) ==
  {turn \in history : Cardinality({other \in history : Earlier(other, turn)}) < count}
Live(s) == {turn \in s.history : turn.id \in s.turns}

-----------------------------------------------------------------------------
(* Saving.                                                                   *)

(* A turn gets its number when it is saved first; the file's numbers win.    *)
Unknown(current, s) == {turn \in s.history : turn.seq = 0 /\ turn.id \notin Ids(current.history)}
Last(current, s) ==
  Latest({current.sequence, s.sequence, current.trimmedThrough, s.trimmedThrough}
         \cup {turn.seq : turn \in current.history \cup s.history})
Number(current, s, turn) ==
  IF turn.id \in Ids(current.history)
  THEN (CHOOSE known \in current.history : known.id = turn.id).seq
  ELSE IF turn.seq > 0 THEN turn.seq
  ELSE Last(current, s) + Cardinality({other \in Unknown(current, s) : other.id <= turn.id})
Numbered(current, s) ==
  [s EXCEPT !.history = {[id |-> turn.id, seq |-> Number(current, s, turn)] : turn \in @},
            !.sequence = Last(current, s) + Cardinality(Unknown(current, s))]

(* What was trimmed by anybody stays out.                                    *)
Kept(s, through) ==
  LET history == {turn \in s.history : turn.seq > through}
  IN  [s EXCEPT !.history = history, !.turns = @ \cap Ids(history), !.trimmedThrough = through]

OrderedByCopy(current, s) == Kept(Numbered(current, s), s.trimmedThrough)
Ordered(current, s) ==
  Kept(Numbered(current, s), Larger(current.trimmedThrough, s.trimmedThrough))

(* All live turns but the most recent ones are folded into the summary; one  *)
(* that is made anew begins with what is not live.                           *)
Compacted(s) ==
  LET count == Cardinality(Live(s)) - Recent
      folded == Ids(Oldest(Live(s), count))
      before == IF s.summary # None THEN s.summary ELSE s.trimmed \cup Ids(s.history \ Live(s))
  IN  IF count <= 0 THEN s
      ELSE [s EXCEPT !.summary = before \cup folded, !.turns = @ \ folded]

(* The copy is of an older file: the turns and artifacts of both, and the    *)
(* summary made anew from the turns.                                         *)
Union(current, s) ==
  LET own == {turn \in s.history : turn.id \notin Ids(current.history)}
      history == {turn \in current.history \cup own : turn.seq > s.trimmedThrough}
      tombstones == current.tombstones \cup s.tombstones
  IN  [s EXCEPT
        !.history = history, !.turns = Ids(history),
        !.trimmed = current.trimmed \cup s.trimmed,
        !.tombstones = tombstones,
        !.artifacts = (current.artifacts \cup s.artifacts) \ tombstones]

Merged(current, s) == Compacted([Union(current, s) EXCEPT !.summary = None])

(* Old turns that are not live make room; what they demand is kept.          *)
Fit(s, room) ==
  LET old == Cardinality({turn \in s.history :
                            \A other \in Live(s) : other # turn /\ ~Earlier(other, turn)})
      excess == Larger(Cardinality(s.history) - room, 0)
      count == IF old < excess THEN old ELSE excess
      oldest == Oldest(s.history, count)
  IN  IF count = 0 THEN s
      ELSE [s EXCEPT !.history = @ \ oldest,
                     !.trimmedThrough = Larger(@, Latest({turn.seq : turn \in oldest})),
                     !.trimmed = @ \cup Ids(oldest)]

Stale(current, s) == current.revision # s.revision

Stored(current, s, room) ==
  LET ordered == Ordered(current, s)
  IN  Fit([(IF Stale(current, s) THEN Merged(current, ordered) ELSE ordered)
           EXCEPT !.revision = current.revision + 1], room)

MayBeSaved == ~deleted

Save(p) ==
  /\ saving[p] # None
  /\ IF MayBeSaved
     THEN \E room \in Rooms :
          LET current == IF file = None THEN [New EXCEPT !.revision = 0] ELSE file
              stored == Stored(current, held[p], room)
          IN  /\ file' = stored
              /\ held' = [held EXCEPT ![p] = stored]
              /\ acked' = acked \cup Ids(held[p].history)
              /\ wanted' = wanted \cup (saving[p] \cap directory)
              /\ dropped' = dropped \cup stored.trimmed
     ELSE UNCHANGED <<file, held, acked, wanted, dropped>>
  /\ saving' = [saving EXCEPT ![p] = None]
  /\ indexLock' = IF indexLock = p THEN None ELSE indexLock
  /\ UNCHANGED <<deleted, directory, taken, written>>

(* The lock or the disk fails the save; the copy keeps what was not saved.   *)
SaveFails(p) ==
  /\ saving[p] # None
  /\ saving' = [saving EXCEPT ![p] = None]
  /\ indexLock' = IF indexLock = p THEN None ELSE indexLock
  /\ UNCHANGED <<file, deleted, held, directory, taken, written, acked, wanted, dropped>>

-----------------------------------------------------------------------------
Load(p) ==
  /\ held[p] = None /\ file # None
  /\ held' = [held EXCEPT ![p] = file]
  /\ UNCHANGED <<file, deleted, saving, directory, indexLock, taken, written,
                 acked, wanted, dropped>>

RecordTurn(p) ==
  /\ held[p] # None /\ saving[p] = None /\ taken < MaxTurns
  /\ taken' = taken + 1
  /\ held' = [held EXCEPT ![p] = Compacted(
       [held[p] EXCEPT !.history = @ \cup {[id |-> taken + 1, seq |-> 0]},
                       !.turns = @ \cup {taken + 1}])]
  /\ saving' = [saving EXCEPT ![p] = {}]
  /\ UNCHANGED <<file, deleted, directory, indexLock, written, acked, wanted, dropped>>

(* Its index is one more than the largest in the directory.                  *)
NextIndex == IF directory = {} THEN 1 ELSE Latest(directory) + 1

SaveArtifact(p) ==
  /\ held[p] # None /\ saving[p] = None /\ indexLock = None
  /\ written < MaxArtifacts
  /\ written' = written + 1
  /\ directory' = directory \cup {NextIndex}
  /\ held' = [held EXCEPT ![p].artifacts = @ \cup {NextIndex}]
  /\ saving' = [saving EXCEPT ![p] = {NextIndex}]
  /\ UNCHANGED <<file, deleted, indexLock, taken, acked, wanted, dropped>>

DeleteArtifact(p) ==
  /\ held[p] # None /\ saving[p] = None /\ indexLock = None
  /\ indexLock' = p
  /\ \E id \in directory :
       /\ directory' = directory \ {id}
       /\ wanted' = wanted \ {id}
       /\ held' = [held EXCEPT ![p].artifacts = @ \ {id},
                               ![p].tombstones = @ \cup {id}]
       /\ saving' = [other \in Procs |->
                       IF other = p THEN {}
                       ELSE IF saving[other] = None THEN None ELSE saving[other] \ {id}]
  /\ UNCHANGED <<file, deleted, taken, written, acked, dropped>>

(* The marker first, then the files, all under the lock that saves take.     *)
DeleteSession(p) ==
  /\ saving[p] = None /\ file # None
  /\ deleted' = TRUE
  /\ file' = None
  /\ directory' = {} /\ wanted' = {} /\ dropped' = {}
  /\ UNCHANGED <<held, saving, indexLock, taken, written, acked>>

(* Its locks are recovered by the others.                                    *)
Crash(p) ==
  /\ held[p] # None
  /\ held' = [held EXCEPT ![p] = None]
  /\ saving' = [saving EXCEPT ![p] = None]
  /\ indexLock' = IF indexLock = p THEN None ELSE indexLock
  /\ UNCHANGED <<file, deleted, directory, taken, written, acked, wanted, dropped>>

Next ==
  \E p \in Procs :
    \/ Load(p) \/ RecordTurn(p) \/ SaveArtifact(p) \/ DeleteArtifact(p)
    \/ Save(p) \/ SaveFails(p) \/ DeleteSession(p) \/ Crash(p)

Spec == Init /\ [][Next]_vars

-----------------------------------------------------------------------------
Copies == {file} \cup {held[p] : p \in Procs}

(* A number belongs to one turn and a turn has one number, in the file and   *)
(* in every copy, whichever process took the turn and saved it first: the    *)
(* order of the conversation is the same for all (orderSessionHistory).      *)
OneNumberPerTurn ==
  \A turn, other \in UNION {s.history : s \in Copies \ {None}} :
    turn.seq > 0 /\ other.seq > 0 => (turn.id = other.id <=> turn.seq = other.seq)

(* A turn whose save succeeded is in the file, or was trimmed for room, and  *)
(* the saves of others who never saw it do not remove it.                    *)
SavedTurnsKept ==
  file # None => acked \subseteq Ids(file.history) \cup file.trimmed

(* What the user demanded in a saved turn is in what the next prompt is made *)
(* from, the live turns and the summary, however saves conflicted and        *)
(* whatever was trimmed in between (compactSession, fitSessionWithinBytes).  *)
DemandsKept ==
  file # None => acked \subseteq file.turns
                   \cup (IF file.summary = None THEN {} ELSE file.summary)

(* A trimmed turn does not come back with a copy from before.                *)
TrimmedForGood == file # None => Ids(file.history) \cap dropped = {}

(* A deleted session is not recreated by the save of a process that still    *)
(* had it open.                                                              *)
DeletedForGood == deleted => file = None

(* An artifact whose save succeeded and that nobody deleted is listed.  With *)
(* two artifacts the code does not keep this; no run checks it.              *)
ArtifactsListed == file # None => wanted \subseteq file.artifacts

(* It is, unless it has the index of one that was deleted.                   *)
ArtifactsKept == file # None => wanted \ file.tombstones \subseteq file.artifacts
=============================================================================
