---------------------------- MODULE ProjectMemory ----------------------------
(* The memory of a project (src/memory/projectMemory.js): what tasks record  *)
(* when they end, what `deecoo memory` lists, edits, deletes and prunes, in  *)
(* any number of processes. Every change reads and writes the document under *)
(* its lock (updateJsonFile, see FileLock and DurableFile), so it is one     *)
(* step; what a process knows of the document when it asks may be old. The   *)
(* memory across projects is the same with other kinds.                      *)
EXTENDS Integers, Sequences, FiniteSetsExt

CONSTANTS Kinds,     \* facts, decisions, failures
          Texts,
          MaxItems,  \* of a kind that are kept
          MaxShown,  \* of a kind that a task is told
          MaxTime,   \* bounds
          MaxEnded

VARIABLES document,  \* kind -> the items, the newest first
          now,
          ended      \* what tasks that ended still have to record
vars == <<document, now, ended>>

Never == MaxTime + 1
NoId == <<>>      \* an item of the first version of the document: its text alone
Before == 0       \* such an item has no time either

Id(kind, at, text) == <<kind, at, text>>
Item(kind, at, text) == [id |-> Id(kind, at, text), text |-> text, until |-> Never]

-----------------------------------------------------------------------------
(* The document as it is read: of the present version, whatever is stored.   *)
IdSince(kind, item) == IF item.id = NoId THEN Id(kind, now, item.text) ELSE item.id
Identified(kind, item) ==
  IF item.id = NoId THEN Id(kind, Before, item.text) ELSE item.id
Loaded(kind) ==
  [i \in DOMAIN document[kind] |->
    [document[kind][i] EXCEPT !.id = Identified(kind, document[kind][i])]]

Expired(item) == item.until <= now
ItemsAt(items, places) ==
  LET taken[i \in 0 .. Len(items)] ==
        IF i = 0 THEN <<>>
        ELSE IF i \in places THEN Append(taken[i - 1], items[i]) ELSE taken[i - 1]
  IN  taken[Len(items)]
Deduped(items) ==
  ItemsAt(items, {i \in DOMAIN items : \A j \in 1 .. i - 1 : items[j].text # items[i].text})
Unexpired(items) == ItemsAt(items, {i \in DOMAIN items : ~Expired(items[i])})
Limited(items, limit) == SubSeq(items, 1, Min({limit, Len(items)}))
Active(items) == Limited(Unexpired(items), MaxShown)

Older == UNION {[1 .. n -> {[id |-> NoId, text |-> text, until |-> Never] : text \in Texts}] :
                  n \in 0 .. 1}
Init ==
  /\ document \in [Kinds -> Older]
  /\ now = 1 /\ ended = {}

Wait == now < MaxTime /\ now' = now + 1 /\ UNCHANGED <<document, ended>>

(* The clock moves on between two changes: each waits for the disk.          *)
Changed(items) ==
  /\ now < MaxTime /\ now' = now + 1
  /\ document' = items

-----------------------------------------------------------------------------
(* Tasks.                                                                    *)
Told(kind) == Active(Loaded(kind))
End(kind, text) ==
  /\ now < MaxTime /\ Cardinality(ended) < MaxEnded
  /\ ended' = ended \cup {[kind |-> kind, text |-> text, at |-> now]}
  /\ UNCHANGED <<document, now>>

(* The time of a record is that of its turn under the lock.                  *)
TimeOf(entry) == now
Record(entry) ==
  /\ entry \in ended /\ ended' = ended \ {entry}
  /\ LET new == Item(entry.kind, TimeOf(entry), entry.text)
     IN  Changed([kind \in Kinds |->
           Limited(Deduped((IF kind = entry.kind THEN <<new>> ELSE <<>>) \o Loaded(kind)), MaxItems)])

(* The user, who has an identity from a list of the same or an older        *)
(* document.                                                                 *)
Ids == UNION {{Loaded(kind)[i].id : i \in DOMAIN document[kind]} : kind \in Kinds}
Edit(id, text, until) ==
  /\ id \in Ids
  /\ Changed([kind \in Kinds |-> [i \in DOMAIN document[kind] |->
       IF Loaded(kind)[i].id = id THEN [id |-> id, text |-> text, until |-> until]
       ELSE Loaded(kind)[i]]])
  /\ UNCHANGED ended
Delete(id) ==
  /\ id \in Ids
  /\ Changed([kind \in Kinds |->
       ItemsAt(Loaded(kind), {i \in DOMAIN document[kind] : Loaded(kind)[i].id # id})])
  /\ UNCHANGED ended
Prune ==
  /\ Changed([kind \in Kinds |-> Unexpired(Loaded(kind))])
  /\ UNCHANGED ended

Next ==
  \/ Wait
  \/ \E kind \in Kinds, text \in Texts : End(kind, text)
  \/ \E entry \in ended : Record(entry)
  \/ \E id \in Ids, text \in Texts, until \in {now + 1, Never} : Edit(id, text, until)
  \/ \E id \in Ids : Delete(id)
  \/ Prune

Spec == Init /\ [][Next]_vars

-----------------------------------------------------------------------------
(* An item that is in the memory, under the identity a user may have been    *)
(* shown, stays there under that identity until it is deleted by it, pruned  *)
(* when expired, replaced by a newer one that says the same or pushed out by *)
(* as many as are kept (README.md:656): also over the conversion of an older *)
(* document, which every process does for itself until one of them writes.   *)
FoundUntilRemoved ==
  [][\A kind \in Kinds : \A i \in DOMAIN document[kind] :
       LET item == Loaded(kind)[i]
           after == Loaded(kind)'
       IN  \/ \E j \in DOMAIN after : after[j].id = item.id
           \/ Delete(item.id)
           \/ Prune /\ Expired(item)
           \/ /\ \E entry \in ended : Record(entry)
              /\ \/ \E j \in DOMAIN after : after[j].text = item.text
                 \/ Len(after) = MaxItems /\ \A j \in DOMAIN after : after[j].id[2] >= item.id[2]]_vars

(* A task is told what holds and was recorded last, whichever process it     *)
(* comes from: nothing that holds and is left out is newer than what is told *)
(* (recordProjectMemory takes the time under the lock).                      *)
TheLatestIsTold ==
  \A kind \in Kinds : \A i \in DOMAIN Told(kind), j \in DOMAIN document[kind] :
    LET told == Told(kind)[i]
        other == Loaded(kind)[j]
    IN  /\ ~Expired(told)
        /\ \/ Expired(other) \/ told.id[2] >= other.id[2]
           \/ \E k \in DOMAIN Told(kind) : Told(kind)[k] = other

(* No two items share an identity, so that what a user deletes or edits is   *)
(* what was listed.                                                          *)
OneItemPerId ==
  \A k, l \in Kinds : \A i \in DOMAIN document[k], j \in DOMAIN document[l] :
    Loaded(k)[i].id = Loaded(l)[j].id => k = l /\ i = j
=============================================================================
