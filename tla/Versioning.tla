----------------------------- MODULE Versioning -----------------------------
(***************************************************************************)
(* The versioning() plugin (versioning/index.ts): before a write clobbers  *)
(* an object, head + copy save it under a version key, prune drops the     *)
(* oldest beyond the limit, and only then the write goes through.          *)
(* restore() copies a version back, through the same wrap.                 *)
(*                                                                         *)
(* Each adapter call is a step of its own. An upload writes fresh data. A  *)
(* version id is the provider's lastModified, in ticks of its resolution,  *)
(* and a slug of the ETag: writes of one tick share their time, and data   *)
(* may share its slug, as all data does where the adapter has no ETag.     *)
(***************************************************************************)
EXTENDS Integers, FiniteSets

CONSTANTS
    Keys,
    Threads,       \* operations that can be under way at once
    Settings,      \* to choose from: the versions kept per key, 0 keeping them all,
                   \* and where the ETag slug of each data sorts
    KeepsTime,     \* the adapter's move preserves lastModified (fs, memory)
    Overlap,       \* callers change a key while another change of it is under way
    Failures,      \* adapter calls fail, and callers copy or move what is not there,
                   \* or onto itself: the snapshot is taken but nothing changes
    MaxWrites,     \* bound: uploads
    MaxTime        \* bound: ticks of lastModified

Data == 1 .. MaxWrites

ASSUME SettingsAssumption == Settings \subseteq [limit : Nat, slug : [Data -> Data]]
ASSUME EnvironmentAssumption ==
    KeepsTime \in BOOLEAN /\ Overlap \in BOOLEAN /\ Failures \in BOOLEAN
ASSUME BoundsAssumption == MaxWrites \in Nat /\ MaxTime \in Nat

VARIABLES
    setting,   \* the limit and the ETags, chosen once
    live,      \* the object at each key
    versions,  \* the snapshots in each key's version directory
    uploads,   \* uploads done: the data of the next one is new
    now,       \* the tick of the last stamp given
    pruned,    \* the data that prune deleted
    replaced,  \* the data of versions overwritten by other data of the same id
    prior,     \* the object at each key before its last change; None where there was
               \* none, or it cannot be told from what a failed write saved
    pc,        \* where each operation is
    op,        \* the operation
    taken,     \* the head of the object it found and is saving
    excess,    \* versions its prune has still to delete
    outcome    \* how each thread's last operation ended

history == <<versions, pruned, replaced>>
bucket == <<live, history, uploads, now, prior>>
vars == <<setting, bucket, pc, op, taken, excess, outcome>>

Object == [time : 1 .. MaxTime, data : Data]
None == [time |-> 0, data |-> 0]

\* A snapshot's id is the time and the ETag slug of the object as it was headed; data
\* is what was copied.
Snapshot == [time : 1 .. MaxTime, tag : Data, data : Data]
NoSnapshot == [time |-> 0, tag |-> 0, data |-> 0]

Kinds == {"upload", "delete", "copy", "move", "restore", "undo"}
Op == [kind : Kinds, from : Keys, key : Keys, id : Snapshot \cup {NoSnapshot}]
NoOp == [kind |-> "none"]

TypeOK ==
    /\ setting \in Settings
    /\ live \in [Keys -> Object \cup {None}]
    /\ versions \in [Keys -> SUBSET Snapshot]
    /\ uploads \in 0 .. MaxWrites
    /\ now \in 0 .. MaxTime
    /\ pruned \in SUBSET Data /\ replaced \in SUBSET Data
    /\ prior \in [Keys -> Object \cup {None}]
    /\ pc \in [Threads -> {"idle", "newest", "exists", "head", "save", "prune", "delete", "write"}]
    /\ op \in [Threads -> Op \cup {NoOp}]
    /\ taken \in [Threads -> Object \cup {None}]
    /\ excess \in [Threads -> SUBSET Snapshot]
    /\ outcome \in [Threads -> {"none", "done", "failed", "missing"}]

Init ==
    /\ setting \in Settings
    /\ live = [k \in Keys |-> None]
    /\ versions = [k \in Keys |-> {}]
    /\ uploads = 0
    /\ now = 0
    /\ pruned = {} /\ replaced = {}
    /\ prior = [k \in Keys |-> None]
    /\ pc = [t \in Threads |-> "idle"]
    /\ op = [t \in Threads |-> NoOp]
    /\ taken = [t \in Threads |-> None]
    /\ excess = [t \in Threads |-> {}]
    /\ outcome = [t \in Threads |-> "none"]

Goto(t, x) == pc' = [pc EXCEPT ![t] = x]

Settle(t, how) ==
    /\ Goto(t, "idle")
    /\ op' = [op EXCEPT ![t] = NoOp]
    /\ taken' = [taken EXCEPT ![t] = None]
    /\ excess' = [excess EXCEPT ![t] = {}]
    /\ outcome' = [outcome EXCEPT ![t] = how]

\* The operation throws and what it did before stays, its snapshot included.
Abandon(t, how) ==
    /\ Settle(t, how)
    /\ prior' = IF pc[t] \in {"prune", "delete", "write"} THEN [prior EXCEPT ![op[t].key] = None]
                ELSE prior
    /\ UNCHANGED <<live, history, uploads, now>>

Uses(o) == {o.key, o.from}

(***************************************************************************)
(* The caller.                                                             *)
(***************************************************************************)
Start(t, o) ==
    /\ pc[t] = "idle"
    /\ Overlap \/ \A u \in Threads : pc[u] # "idle" => Uses(op[u]) \cap Uses(o) = {}
    /\ op' = [op EXCEPT ![t] = o]
    /\ outcome' = [outcome EXCEPT ![t] = "none"]
    /\ UNCHANGED <<bucket, taken, excess>>

\* A write enters the wrap.
BeginWrite(t) ==
    /\ \E kind \in {"upload", "delete", "copy", "move"}, from, key \in Keys :
          /\ IF kind \in {"upload", "delete"} THEN from = key
             ELSE Failures \/ (from # key /\ live[from] # None)
          /\ Start(t, [kind |-> kind, from |-> from, key |-> key, id |-> NoSnapshot])
    /\ Goto(t, "head")

\* restore(key, versionId) of a version the caller knows, or restore(key).
BeginRestore(t) ==
    \E key \in Keys :
        \/ /\ \E id \in versions[key] :
                Start(t, [kind |-> "restore", from |-> key, key |-> key, id |-> id])
           /\ Goto(t, "exists")
        \/ /\ Start(t, [kind |-> "undo", from |-> key, key |-> key, id |-> NoSnapshot])
           /\ Goto(t, "newest")

(***************************************************************************)
(* restore.                                                                *)
(***************************************************************************)
SameId(s, x) == s.time = x.time /\ s.tag = x.tag

\* Version ids sort by time, then by slug.
Older(s, x) == s.time < x.time \/ (s.time = x.time /\ s.tag < x.tag)

\* Slip: the listing is sorted oldest first.
PickNewestReversed(t) ==
    /\ pc[t] = "newest"
    /\ LET all == versions[op[t].key]
       IN  IF all = {} THEN Settle(t, "failed")
           ELSE /\ \E s \in all :
                     /\ \A x \in all : s.time <= x.time
                     /\ op' = [op EXCEPT ![t].id = s]
                /\ Goto(t, "exists")
                /\ UNCHANGED <<taken, excess, outcome>>
    /\ UNCHANGED bucket

\* Without a version id, the newest listed version is taken. The listing compares
\* by locale and prune does not: within a tick, any may come first.
PickNewest(t) ==
    /\ pc[t] = "newest"
    /\ LET all == versions[op[t].key]
       IN  IF all = {} THEN Settle(t, "failed")
           ELSE /\ \E s \in all :
                     /\ \A x \in all : x.time <= s.time
                     /\ op' = [op EXCEPT ![t].id = s]
                /\ Goto(t, "exists")
                /\ UNCHANGED <<taken, excess, outcome>>
    /\ UNCHANGED bucket

Stored(k, id) == {s \in versions[k] : SameId(s, id)}

\* The version must exist; then the public copy enters the wrap.
CheckExists(t) ==
    /\ pc[t] = "exists"
    /\ IF Stored(op[t].key, op[t].id) = {} THEN Settle(t, "failed")
       ELSE Goto(t, "head") /\ UNCHANGED <<op, taken, excess, outcome>>
    /\ UNCHANGED bucket

(***************************************************************************)
(* snapshot and prune, on the key about to be written.                     *)
(***************************************************************************)

\* Slip: only overwrites are saved, not deletes.
HeadObjectToOverwrite(t) ==
    /\ pc[t] = "head"
    /\ IF live[op[t].key] = None \/ op[t].kind = "delete"
         THEN Goto(t, "write") /\ UNCHANGED taken
         ELSE Goto(t, "save") /\ taken' = [taken EXCEPT ![t] = live[op[t].key]]
    /\ UNCHANGED <<bucket, op, excess, outcome>>

\* Nothing there: nothing to save.
HeadObject(t) ==
    /\ pc[t] = "head"
    /\ IF live[op[t].key] = None
         THEN Goto(t, "write") /\ UNCHANGED taken
         ELSE Goto(t, "save") /\ taken' = [taken EXCEPT ![t] = live[op[t].key]]
    /\ UNCHANGED <<bucket, op, excess, outcome>>

\* An object as a version of its key.
SnapshotOf(object) ==
    [time |-> object.time, tag |-> setting.slug[object.data], data |-> object.data]

\* The copy saves what is there by now under the id that head gave, replacing a
\* version of that id. An object that went away in between makes it throw.
Save(t) ==
    LET k == op[t].key
        s == [SnapshotOf(taken[t]) EXCEPT !.data = live[k].data]
    IN  /\ pc[t] = "save"
        /\ IF live[k] = None
             THEN Settle(t, "failed") /\ UNCHANGED <<versions, replaced>>
             ELSE /\ versions' = [versions EXCEPT ![k] = (@ \ Stored(k, s)) \cup {s}]
                  /\ replaced' = replaced \cup ({x.data : x \in Stored(k, s)} \ {s.data})
                  /\ Goto(t, IF setting.limit = 0 THEN "write" ELSE "prune")
                  /\ UNCHANGED <<op, taken, excess, outcome>>
        /\ UNCHANGED <<live, pruned, uploads, now, prior>>

\* Slip: the newest versions are the ones in excess.
ExcessNewest(k) ==
    {s \in versions[k] : Cardinality({x \in versions[k] : Older(x, s)}) >= setting.limit}

\* The versions that have at least as many newer ones as the limit keeps.
Excess(k) ==
    {s \in versions[k] : Cardinality({x \in versions[k] : Older(s, x)}) >= setting.limit}

\* prune lists the whole directory ...
ListVersions(t) ==
    /\ pc[t] = "prune"
    /\ excess' = [excess EXCEPT ![t] = Excess(op[t].key)]
    /\ Goto(t, "delete")
    /\ UNCHANGED <<bucket, op, taken, outcome>>

\* ... and deletes the excess, oldest first.
DeleteVersion(t) ==
    /\ pc[t] = "delete"
    /\ \/ /\ excess[t] = {}
          /\ Goto(t, "write")
          /\ UNCHANGED <<history, excess>>
       \/ \E s \in excess[t] :
             /\ \A x \in excess[t] : ~Older(x, s)
             /\ excess' = [excess EXCEPT ![t] = @ \ {s}]
             /\ versions' = [versions EXCEPT ![op[t].key] = @ \ Stored(op[t].key, s)]
             /\ pruned' = pruned \cup {x.data : x \in Stored(op[t].key, s)}
             /\ UNCHANGED <<replaced, pc>>
    /\ UNCHANGED <<live, uploads, now, prior, op, taken, outcome>>

(***************************************************************************)
(* The write itself.                                                       *)
(***************************************************************************)
Change(k, object) ==
    /\ live' = [live EXCEPT ![k] = object]
    /\ prior' = [prior EXCEPT ![k] = live[k]]

Stamped(d) == [time |-> now', data |-> d]

\* Writes may follow each other within one tick.
Stamp == \E tick \in {now, now + 1} \cap (1 .. MaxTime) : now' = tick

UploadLands(t) ==
    /\ pc[t] = "write" /\ op[t].kind = "upload"
    /\ uploads < MaxWrites /\ Stamp
    /\ uploads' = uploads + 1
    /\ Change(op[t].key, Stamped(uploads'))
    /\ Settle(t, "done")
    /\ UNCHANGED history

\* Deleting a key without an object changes nothing.
DeleteLands(t) ==
    /\ pc[t] = "write" /\ op[t].kind = "delete"
    /\ IF live[op[t].key] = None THEN UNCHANGED <<live, prior>> ELSE Change(op[t].key, None)
    /\ Settle(t, "done")
    /\ UNCHANGED <<history, uploads, now>>

\* Slip: a missing source is copied as an empty object.
CopyLandsUnchecked(t) ==
    LET o == op[t]
    IN  /\ pc[t] = "write" /\ o.kind = "copy"
        /\ Stamp /\ Change(o.key, Stamped(live[o.from].data)) /\ Settle(t, "done")
        /\ UNCHANGED <<history, uploads>>

CopyLands(t) ==
    LET o == op[t]
    IN  /\ pc[t] = "write" /\ o.kind = "copy"
        /\ IF live[o.from] = None THEN Abandon(t, "failed")
           ELSE /\ Stamp /\ Change(o.key, Stamped(live[o.from].data)) /\ Settle(t, "done")
                /\ UNCHANGED <<history, uploads>>

\* A move onto the same key does nothing; a rename may keep the object's time. The
\* source's data lives on at the new key: there is nothing to undo at the old one.
MoveLands(t) ==
    LET o == op[t]
        object == live[o.from]
    IN  /\ pc[t] = "write" /\ o.kind = "move"
        /\ IF o.from = o.key THEN Abandon(t, "done")
           ELSE IF object = None THEN Abandon(t, "failed")
           ELSE /\ IF KeepsTime THEN UNCHANGED now ELSE Stamp
                /\ live' = [live EXCEPT ![o.from] = None,
                                        ![o.key] = IF KeepsTime THEN object ELSE Stamped(object.data)]
                /\ prior' = [prior EXCEPT ![o.from] = None, ![o.key] = live[o.key]]
                /\ Settle(t, "done")
                /\ UNCHANGED <<history, uploads>>

\* restore's copy: the version may be gone by now.
RestoreLands(t) ==
    LET o == op[t]
    IN  /\ pc[t] = "write" /\ o.kind \in {"restore", "undo"}
        /\ \/ Stored(o.key, o.id) = {} /\ Abandon(t, "missing")
           \/ \E s \in Stored(o.key, o.id) :
                 /\ Stamp /\ Change(o.key, Stamped(s.data)) /\ Settle(t, "done")
                 /\ UNCHANGED <<history, uploads>>

\* An adapter call fails.
Fail(t) == Failures /\ pc[t] # "idle" /\ Abandon(t, "failed")

Step(t) ==
    \/ BeginWrite(t) \/ BeginRestore(t) \/ PickNewest(t) \/ CheckExists(t)
    \/ HeadObject(t) \/ Save(t) \/ ListVersions(t) \/ DeleteVersion(t)
    \/ UploadLands(t) \/ DeleteLands(t) \/ CopyLands(t) \/ MoveLands(t) \/ RestoreLands(t)
    \/ Fail(t)

Next == (\E t \in Threads : Step(t)) /\ UNCHANGED setting

Spec == Init /\ [][Next]_vars

(***************************************************************************)
(* Properties.                                                             *)
(***************************************************************************)

\* When a write is about to land, the bytes it clobbers are among the versions of
\* its key, whatever was pruned on the way: prune can only have taken them if as
\* many versions as the limit are of the same tick and sort later by their slug.
Crowding(k) ==
    {x \in versions[k] : x.time = live[k].time /\ Older(SnapshotOf(live[k]), x)}

SafeToWrite ==
    \A t \in Threads : pc[t] = "write" =>
        \/ live[op[t].key] = None
        \/ \E s \in versions[op[t].key] : s.data = live[op[t].key].data
        \/ setting.limit > 0 /\ Cardinality(Crowding(op[t].key)) >= setting.limit

\* Only prune loses an upload, and a snapshot whose id belongs to a version of other
\* data that has the same slug: any other upload is at some key or among the versions,
\* whatever was overwritten, moved, deleted, restored or failed half way.
Confusable(d) == \E e \in 1 .. uploads : e # d /\ setting.slug[e] = setting.slug[d]

NothingLost ==
    \A d \in 1 .. uploads :
        \/ d \in pruned \/ (d \in replaced /\ Confusable(d))
        \/ \E k \in Keys : live[k].data = d \/ \E s \in versions[k] : s.data = d

\* restore(key) undoes the last change of the key: it brings back the data that was
\* there before it. It goes wrong only if another version of the same tick was picked,
\* or if the object it replaces has the id of the version it picked, and was saved over
\* it. (Not after a write that failed with its snapshot taken: the newest version is
\* then what is there already.)
UndoBringsBackPrior ==
    [][\A t \in Threads : op[t].kind = "undo" /\ RestoreLands(t) /\ outcome'[t] = "done"
          => LET k == op[t].key
                 was == prior[k]
             IN  \/ was = None
                 \/ live'[k].data = was.data
                 \/ op[t].id.time = was.time /\ ~SameId(op[t].id, SnapshotOf(was))
                 \/ live[k] # None /\ SameId(op[t].id, SnapshotOf(live[k]))]_vars

(***************************************************************************)
(* What the documentation says and the code does not do.                   *)
(***************************************************************************)

\* restore() throws only when there is no such version: not because its own
\* snapshot pruned it.
RestoreFindsItsVersion == \A t \in Threads : outcome[t] # "missing"
=============================================================================
