----------------------------- MODULE ToolOutputs -----------------------------
(* The store of tool outputs too long for the model                          *)
(* (src/storage/toolOutputs.js): the stores of several tasks, in one process *)
(* or in many, share a directory, its quota and its lock; in private mode a  *)
(* store keeps its outputs in memory. A record expires; a task learns more   *)
(* secrets while it runs and when it is resumed.                             *)
(*                                                                           *)
(* A text is the set of secrets in it. Damaged and foreign files, symbolic   *)
(* links and the failures of the disk are left out.                          *)
EXTENDS Integers, FiniteSets

CONSTANTS
  Stores, Owner,   \* the tasks that keep outputs; the session and run of each
  Private,         \* those in private mode
  Secrets,
  MaxBytes,        \* the quota
  Retention,
  MaxSaves, MaxTime,   \* bounds
  None

VARIABLES
  now, lock,
  records,    \* of each place, the disk or the memory of a store
  registered, \* the secrets a store filters
  disposed,
  saving,     \* of each store: the record a call of save is about to write
  phase,      \* how far that call is
  saves, shown   \* references made; those a task was told, and their secrets

vars == <<now, lock, records, registered, disposed, saving, phase, saves, shown>>

Disk == "disk"
Place(s) == IF s \in Private THEN s ELSE Disk
Refs == 1 .. MaxSaves
Records ==
  [ref : Refs, owner : {Owner[s] : s \in Stores}, bytes : 1 .. MaxBytes + 1,
   expires : 0 .. MaxTime + Retention, text : SUBSET Secrets]

TypeOK ==
  /\ now \in 0 .. MaxTime /\ lock \in Stores \cup {None} /\ saves \in 0 .. MaxSaves
  /\ records \in [Stores \cup {Disk} -> SUBSET Records]
  /\ registered \in [Stores -> SUBSET Secrets] /\ disposed \subseteq Stores
  /\ saving \in [Stores -> Records \cup {None}]
  /\ phase \in [Stores -> {"idle", "waiting", "purging", "measuring", "writing"}]
  /\ shown \subseteq [store : Stores, ref : Refs, bytes : 1 .. MaxBytes, text : SUBSET Secrets, expires : 0 .. MaxTime + Retention]

Init ==
  /\ now = 0 /\ lock = None /\ saves = 0 /\ disposed = {} /\ shown = {}
  /\ records = [p \in Stores \cup {Disk} |-> {}] /\ registered = [s \in Stores |-> {}]
  /\ saving = [s \in Stores |-> None] /\ phase = [s \in Stores |-> "idle"]

-----------------------------------------------------------------------------

Filter(s, text) == text \ registered[s]
IsExpired(record) == record.expires <= now
Units(r) == {r} \X (1 .. r.bytes)   \* the bytes of a record, one by one
Bytes(p) == Cardinality(UNION {Units(r) : r \in records[p]})
HasRoom(s) == Bytes(Place(s)) + saving[s].bytes <= MaxBytes

Goes(s, to) == phase' = [phase EXCEPT ![s] = to]
Settle(s) ==
  /\ Goes(s, "idle") /\ saving' = [saving EXCEPT ![s] = None]
  /\ lock' = IF lock = s THEN None ELSE lock
  /\ UNCHANGED <<now, registered, disposed, saves>>

(* The text is filtered and its expiry set as the call begins. A record      *)
(* larger than the quota is refused at once.                                 *)
Save(s, text, bytes) ==
  /\ phase[s] = "idle" /\ s \notin disposed /\ saves < MaxSaves
  /\ saves' = saves + 1
  /\ IF bytes > MaxBytes THEN UNCHANGED <<phase, saving>>
     ELSE /\ Goes(s, IF s \in Private THEN "purging" ELSE "waiting")
          /\ saving' = [saving EXCEPT ![s] =
               [ref |-> saves + 1, owner |-> Owner[s], bytes |-> bytes,
                expires |-> now + Retention, text |-> Filter(s, text)]]
  /\ UNCHANGED <<now, lock, records, registered, disposed, shown>>

Acquire(s) ==
  /\ phase[s] = "waiting" /\ lock = None
  /\ lock' = s /\ Goes(s, "purging")
  /\ UNCHANGED <<now, records, registered, disposed, saving, saves, shown>>

KeptOwn(s) == {r \in records[Place(s)] : ~IsExpired(r) /\ r.owner = Owner[s]}
Kept(s) == {r \in records[Place(s)] : ~IsExpired(r)}
PurgeExpired(s) ==
  /\ phase[s] = "purging" /\ s \notin disposed
  /\ records' = [records EXCEPT ![Place(s)] = Kept(s)]
  /\ Goes(s, "measuring")
  /\ UNCHANGED <<now, lock, registered, disposed, saving, saves, shown>>

(* On the disk the sizes are read before the record is written; in memory    *)
(* both are done in one step.                                                *)
Measure(s) ==
  /\ phase[s] = "measuring" /\ s \notin Private /\ HasRoom(s)
  /\ Goes(s, "writing")
  /\ UNCHANGED <<now, lock, records, registered, disposed, saving, saves, shown>>

Writes(s) == phase[s] = "writing" \/ (phase[s] = "measuring" /\ s \in Private /\ HasRoom(s))
Write(s) ==
  /\ Writes(s) /\ s \notin disposed
  /\ records' = [records EXCEPT ![Place(s)] = @ \cup {saving[s]}]
  /\ shown' = shown \cup {[store |-> s, ref |-> saving[s].ref, bytes |-> saving[s].bytes,
                           text |-> saving[s].text, expires |-> saving[s].expires]}
  /\ Settle(s)

(* The call fails: there is no room, or the store was disposed meanwhile.    *)
Fail(s) ==
  /\ \/ phase[s] = "measuring" /\ ~HasRoom(s)
     \/ phase[s] \in {"purging", "writing"} /\ s \in disposed
     \/ phase[s] = "measuring" /\ s \in disposed \cap Private
  /\ Settle(s) /\ UNCHANGED <<records, shown>>

AddSecret(s, secret) ==
  /\ s \notin disposed /\ secret \notin registered[s]
  /\ registered' = [registered EXCEPT ![s] = @ \cup {secret}]
  /\ UNCHANGED <<now, lock, records, disposed, saving, phase, saves, shown>>

Dispose(s) ==
  /\ s \notin disposed /\ disposed' = disposed \cup {s}
  /\ records' = [records EXCEPT ![s] = {}]
  /\ registered' = [registered EXCEPT ![s] = {}]
  /\ UNCHANGED <<now, lock, saving, phase, saves, shown>>

Tick == now < MaxTime /\ now' = now + 1 /\
        UNCHANGED <<lock, records, registered, disposed, saving, phase, saves, shown>>

Next ==
  \/ Tick
  \/ \E s \in Stores :
       \/ \E text \in SUBSET Secrets, bytes \in 1 .. MaxBytes + 1 : Save(s, text, bytes)
       \/ \E secret \in Secrets : AddSecret(s, secret)
       \/ Acquire(s) \/ PurgeExpired(s) \/ Measure(s) \/ Write(s) \/ Fail(s) \/ Dispose(s)

Spec == Init /\ [][Next]_vars

-----------------------------------------------------------------------------
(* Reading: the record that is returned, of the own run, not expired, and    *)
(* with no secret the task has learned since.                                *)
Load(s, ref) ==
  {r \in records[Place(s)] :
     r.ref = ref /\ r.owner = Owner[s] /\ ~IsExpired(r) /\ Filter(s, r.text) = r.text}

(* However the tasks that share the directory interleave, it never holds     *)
(* more than the quota, and what one of them was told to read later it can   *)
(* read, whole, until it expires: no other task's save takes it away. Only a *)
(* secret learned since withholds it (save and load of the store).           *)
ReferencesStayReadable ==
  /\ \A p \in DOMAIN records : Bytes(p) <= MaxBytes
  /\ \A told \in shown :
       told.store \notin disposed /\ told.expires > now /\ told.text \cap registered[told.store] = {} =>
         {[text |-> r.text, bytes |-> r.bytes] : r \in Load(told.store, told.ref)}
           = {[text |-> told.text, bytes |-> told.bytes]}
=============================================================================
